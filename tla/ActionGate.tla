----------------------------- MODULE ActionGate -----------------------------
(***************************************************************************)
(* Running one action through the Bridge: BridgeHandlers._invoke_action_   *)
(* sync, the ConfirmationGate it opens and closes, registry.run_action,    *)
(* and the settings save (BridgeHandlers._apply_settings) that replaces    *)
(* the gate without taking the handlers' lock.                             *)
(*                                                                         *)
(* A thread that invokes an action walks                                   *)
(*   enter -> check -> gate -> running -> leave -> returned                *)
(* and leaves by "abort" -> "raised" when the gate raises                  *)
(* NotImplementedError, which run_action does not turn into a result.      *)
(*                                                                         *)
(* Two threads may see the two references to the current gate,             *)
(* handlers.gate and context.confirmation_gate, disagree: _apply_settings  *)
(* writes them one after the other.                                        *)
(***************************************************************************)
EXTENDS Naturals

CONSTANTS
    Runs,      \* chat runs; each is the worker thread of one run_id
    Callers,   \* threads that invoke one action directly (RPC, scheduler)
    Savers,    \* threads that save the settings once (settings form)
    BootGate,  \* the gate BridgeHandlers.build creates
    NoThread   \* "the handlers' lock is free"

Threads == Runs \cup Callers

ASSUME ThreadAssumption ==
    /\ Runs \cap Callers = {}
    /\ NoThread \notin Threads
    /\ BootGate \notin Savers

\* Every settings save creates one gate, so a saver names the gate it makes.
Gates == Savers \cup {BootGate}

\* What an action name resolves to: an action that never asks, one that asks
\* under the current policy, or no action at all (registry.get raises).
Kinds == {"safe", "risky", "unknown"}

VARIABLES
    pc,         \* [Threads -> label] where each thread is
    kind,       \* [Threads -> Kinds] the action it invokes
    auto,       \* [Threads -> BOOLEAN] ActionInvocation.auto_confirm
    previous,   \* [Threads -> BOOLEAN] the flag _invoke_action_sync saved
    holder,     \* the thread inside handlers._lock, or NoThread
    policy,     \* do the current safety settings ask for a risky action?
    selfGate,   \* handlers.gate
    ctxGate,    \* context.confirmation_gate
    approveAll, \* [Gates -> BOOLEAN] gate._auto_approve_all
    saver       \* [Savers -> label] progress of _apply_settings

lockVars == <<holder, previous>>
gateVars == <<selfGate, ctxGate, approveAll>>
saveVars == <<policy, saver>>
invokeVars == <<pc, kind, auto, holder, previous, policy, selfGate, ctxGate,
                approveAll, saver>>

InvokeLabels == {"enter", "check", "gate", "running", "leave", "abort",
                 "returned", "raised"}

\* The labels at which a thread is inside handlers._lock.
LockedLabels == {"check", "gate", "running", "leave", "abort"}

NeedsConfirmation(k) == k = "risky" /\ policy

LockFree == holder = NoThread

InitInvoke ==
    /\ pc = [t \in Threads |-> "idle"]
    /\ kind = [t \in Threads |-> "safe"]
    /\ auto = [t \in Threads |-> FALSE]
    /\ previous = [t \in Threads |-> FALSE]
    /\ holder = NoThread
    /\ policy \in BOOLEAN
    /\ selfGate = BootGate
    /\ ctxGate = BootGate
    /\ approveAll = [g \in Gates |-> FALSE]
    /\ saver = [s \in Savers |-> "idle"]

Goto(t, label) == pc' = [pc EXCEPT ![t] = label]

-----------------------------------------------------------------------------
(* _invoke_action_sync and run_action, for any thread t.                   *)

\* "with self._lock", remember the flag, and open the gate if the invocation
\* carries its own confirmation.
EnterInvoke(t) ==
    /\ pc[t] = "enter"
    /\ LockFree
    /\ holder' = t
    /\ previous' = [previous EXCEPT ![t] = approveAll[selfGate]]
    /\ approveAll' = [approveAll EXCEPT ![selfGate] = @ \/ auto[t]]
    /\ Goto(t, "check")
    /\ UNCHANGED <<kind, auto, policy, selfGate, ctxGate, saver>>

\* registry.get, the availability and argument checks: an AssistantError,
\* which _invoke_action_sync turns into a failed result.
RejectInvoke(t) ==
    /\ pc[t] = "check"
    /\ Goto(t, "leave")
    /\ UNCHANGED <<kind, auto, holder, previous, policy, selfGate, ctxGate,
                   approveAll, saver>>

\* The second evaluation of needs_confirmation, by run_action.
CheckPolicy(t) ==
    /\ pc[t] = "check"
    /\ kind[t] # "unknown"
    /\ Goto(t, IF NeedsConfirmation(kind[t]) THEN "gate" ELSE "running")
    /\ UNCHANGED <<kind, auto, holder, previous, policy, selfGate, ctxGate,
                   approveAll, saver>>

\* ConfirmationGate.ask on the context's gate: approved, or an exception,
\* for the Bridge installs no prompt (set_callback has no caller in it).
AskGate(t) ==
    /\ pc[t] = "gate"
    /\ Goto(t, IF approveAll[ctxGate] THEN "running" ELSE "abort")
    /\ UNCHANGED <<kind, auto, holder, previous, policy, selfGate, ctxGate,
                   approveAll, saver>>

\* action.function(...): its result or its failure, both become a result.
RunFunction(t) ==
    /\ pc[t] = "running"
    /\ Goto(t, "leave")
    /\ UNCHANGED <<kind, auto, holder, previous, policy, selfGate, ctxGate,
                   approveAll, saver>>

\* Mutation: the flag is put back only after a result, not after an exception
\* (no finally clause).
LeaveInvokeNoFinally(t) ==
    /\ pc[t] \in {"leave", "abort"}
    /\ approveAll' = IF auto[t] /\ pc[t] = "leave"
                     THEN [approveAll EXCEPT ![selfGate] = previous[t]]
                     ELSE approveAll
    /\ holder' = NoThread
    /\ Goto(t, IF pc[t] = "leave" THEN "returned" ELSE "raised")
    /\ UNCHANGED <<kind, auto, previous, policy, selfGate, ctxGate, saver>>

\* The finally clause puts the flag of the gate that is current by then back
\* to what it was, and the lock is released.
LeaveInvoke(t) ==
    /\ pc[t] \in {"leave", "abort"}
    /\ approveAll' = IF auto[t]
                     THEN [approveAll EXCEPT ![selfGate] = previous[t]]
                     ELSE approveAll
    /\ holder' = NoThread
    /\ Goto(t, IF pc[t] = "leave" THEN "returned" ELSE "raised")
    /\ UNCHANGED <<kind, auto, previous, policy, selfGate, ctxGate, saver>>

Invoke(t) ==
    \/ EnterInvoke(t)
    \/ RejectInvoke(t)
    \/ CheckPolicy(t)
    \/ AskGate(t)
    \/ RunFunction(t)
    \/ LeaveInvoke(t)

-----------------------------------------------------------------------------
(* A direct invocation: INVOKE_ACTION from a frontend, with the            *)
(* auto_confirm flag the frontend sent, or a scheduled task, which sets it.*)

RequestInvoke(c) ==
    /\ pc[c] = "idle"
    /\ Goto(c, "enter")
    /\ \E k \in Kinds : kind' = [kind EXCEPT ![c] = k]
    /\ \E b \in BOOLEAN : auto' = [auto EXCEPT ![c] = b]
    /\ UNCHANGED <<holder, previous, policy, selfGate, ctxGate, approveAll,
                   saver>>

-----------------------------------------------------------------------------
(* _apply_settings: new settings, then handlers.gate, then the context's   *)
(* copy of the reference.  None of it takes handlers._lock.  A config_set  *)
(* action makes the same three writes while its own invocation holds the   *)
(* lock, which is one of the interleavings of a saver.                     *)

SaveSettings(s) ==
    /\ saver[s] = "idle"
    /\ policy' \in BOOLEAN
    /\ saver' = [saver EXCEPT ![s] = "settings"]
    /\ UNCHANGED <<pc, kind, auto, holder, previous, selfGate, ctxGate,
                   approveAll>>

SwapGate(s) ==
    /\ saver[s] = "settings"
    /\ selfGate' = s
    /\ saver' = [saver EXCEPT ![s] = "swapping"]
    /\ UNCHANGED <<pc, kind, auto, holder, previous, policy, ctxGate,
                   approveAll>>

SyncContextGate(s) ==
    /\ saver[s] = "swapping"
    /\ ctxGate' = selfGate
    /\ saver' = [saver EXCEPT ![s] = "saved"]
    /\ UNCHANGED <<pc, kind, auto, holder, previous, policy, selfGate,
                   approveAll>>

Save(s) == SaveSettings(s) \/ SwapGate(s) \/ SyncContextGate(s)

\* Some save has replaced handlers.gate and not yet the context's copy.
Swapping == \E s \in Savers : saver[s] = "swapping"
=============================================================================
