----------------------------- MODULE MCStorage -----------------------------
(***************************************************************************)
(* An instance for TLC of what is kept in files across restarts: the chat  *)
(* sessions, config.json, and the Telegram accounts with the settings that *)
(* list them.  The components share no state, so that one run checks them  *)
(* side by side: in each behaviour the one that `focus` names moves and the *)
(* others stay in one initial state.                                       *)
(***************************************************************************)
EXTENDS Sessions, Configuration, TelegramAccounts, TLC

VARIABLE focus

ConfigRests ==
    /\ ConfigInit
    /\ disk = [f \in {"home", "app", "data"} |-> NoFile]
    /\ platform = "posix" /\ ~explicit

AccountsRest == AccountsInit /\ ~config.feature /\ sessionFiles = {}
                /\ \A n \in Names : ~config.acc[n].on /\ (Has(config, n) => n = DefaultName)

\* The user has connected the one account there is, has not finished with
\* any of those there are, or is new to the feature.
SomeAccounts ==
    LET listed == {n \in Names : Has(config, n)}
        allOn == \A n \in listed : config.acc[n].on IN
    \/ config.feature /\ sessionFiles = listed /\ listed = {DefaultName} /\ allOn
    \/ config.feature /\ sessionFiles = {} /\ allOn
    \/ ~config.feature /\ sessionFiles = {} /\ listed = {DefaultName}

\* Bound: while an account is connected in the background, users begin one
\* operation at most.
OneUpdateWhileConnecting == (\E n \in Names : job[n] # NoJob) => updates' <= 1

MCInit ==
    \/ focus = "sessions" /\ Init /\ ConfigRests /\ AccountsRest
    \/ focus = "config" /\ Init /\ ConfigInit /\ AccountsRest
    \/ focus = "accounts" /\ Init /\ ConfigRests /\ AccountsInit /\ SomeAccounts

MCNext ==
    /\ UNCHANGED focus
    /\ \/ /\ focus = "sessions" /\ Next /\ NoSecondRuntime
          /\ UNCHANGED <<configVars, accountsVars>>
       \/ focus = "config" /\ ConfigNext /\ UNCHANGED <<vars, accountsVars>>
       \/ focus = "accounts" /\ AccountsNext /\ OneUpdateWhileConnecting
          /\ UNCHANGED <<vars, configVars>>

MCSpec == MCInit /\ [][MCNext]_<<vars, configVars, accountsVars, focus>>

\* Threads and session ids are alike; Runs, Writers and Threads are the same
\* model values.
MCSymmetry == Permutations(Runs) \cup Permutations(Sids)
=============================================================================
