----------------------------- MODULE MCServices -----------------------------
(***************************************************************************)
(* An instance for TLC of what works in threads of its own: the scheduler, *)
(* the login of a Telegram account, and the desktop program with its lock, *)
(* window, tray and hotkey.  They share no state: `focus` names the one    *)
(* that moves.                                                             *)
(***************************************************************************)
EXTENDS Scheduler, TelegramLogin, Desktop, TLC

VARIABLE focus

\* No jobs, and no time left: fairness asks nothing of this scheduler.
SchedulerRests ==
    /\ now = MaxTime /\ up = TRUE
    /\ status = [j \in Jobs |-> "absent"] /\ disk = status
    /\ at = [j \in Jobs |-> 0] /\ notified = at
    /\ adding = NoJob /\ fired = <<>> /\ refused = {} /\ revoked = {}
    /\ crashes = 0 /\ failures = 0

LoginRests == LoginInit /\ ~account.authorized /\ ~account.twoFactor

DesktopRests ==
    DesktopInit /\ \A p \in Processes :
      options[p] = [mode |-> "browser", noTray |-> TRUE, hidden |-> FALSE]

MCInit ==
    \/ focus = "scheduler" /\ Init /\ LoginRests /\ DesktopRests
    \/ focus = "login" /\ LoginInit /\ SchedulerRests /\ DesktopRests
    \/ focus = "desktop" /\ DesktopInit /\ SchedulerRests /\ LoginRests

MCNext ==
    /\ UNCHANGED focus
    /\ \/ focus = "scheduler" /\ Next /\ UNCHANGED <<loginVars, desktopVars>>
       \/ focus = "login" /\ LoginNext /\ UNCHANGED <<vars, desktopVars>>
       \/ focus = "desktop" /\ DesktopNext /\ UNCHANGED <<vars, loginVars>>

\* A component that rests has no step that fairness asks for.
MCSpec ==
    /\ MCInit /\ [][MCNext]_<<vars, loginVars, desktopVars, focus>>
    /\ Fairness /\ LoginFairness /\ DesktopFairness
=============================================================================
