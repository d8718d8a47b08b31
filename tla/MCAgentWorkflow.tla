-------------------------- MODULE MCAgentWorkflow --------------------------
(***************************************************************************)
(* An instance of AgentWorkflow for TLC, in one of two scenes: approval    *)
(* cards with failing messages and restarts, or the dialogues of the menu  *)
(* in which the user hands over a key.                                     *)
(***************************************************************************)
EXTENDS AgentWorkflow, TLC

VARIABLE scene

\* What the user does in each scene; the bot does all it may do.
Wants(kinds, n, most) ==
    sent' # sent => /\ inbox'[Len(inbox')].kind \in kinds
                    /\ Waiting < n /\ sent < most

InScene ==
    \/ scene = "cards" /\ Wants({"text", "ok", "no", "new", "reset"}, 2, MaxUpdates - 1)
    \/ scene = "keys" /\ Wants((Menu \ {"reset"}) \cup {"text", "key", "ok", "no"}, 1, MaxUpdates)
                      /\ crashes' = 0

MCInit == Init /\ scene \in {"cards", "keys"}
MCNext == Next /\ InScene /\ UNCHANGED scene
MCSpec == MCInit /\ [][MCNext]_<<vars, scene>> /\ WF_vars(Bot)
=============================================================================
