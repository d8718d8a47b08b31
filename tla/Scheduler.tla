----------------------------- MODULE Scheduler -----------------------------
(***************************************************************************)
(* core/scheduler.py: reminders and scheduled tasks.  Jobs live in memory  *)
(* and in scheduled.json; a daemon thread marks the due ones fired, saves, *)
(* releases the scheduler's lock and only then calls the fire callback,    *)
(* one job after the other.  The process may die at any point and start    *)
(* again from the file; a save may fail (OSError is logged and swallowed). *)
(*                                                                         *)
(* Not modelled: stop(), which nothing but the tests calls, and how a text *)
(* denotes a time, except that an ISO text may carry a time zone.          *)
(***************************************************************************)
EXTENDS Naturals, Sequences, FiniteSets, SequencesExt

CONSTANTS
    Jobs,       \* the jobs that may be added; each is one job id
    NoJob,      \* "add() is not in progress"
    MaxTime,    \* bound: the clock stops here
    MaxCrashes, \* bound: how often the process dies
    MaxFailures \* bound: how many saves fail

ASSUME SchedulerAssumption ==
    /\ NoJob \notin Jobs
    /\ IsFiniteSet(Jobs)
    /\ MaxTime \in Nat
    /\ MaxCrashes \in Nat
    /\ MaxFailures \in Nat

VARIABLES
    now,      \* the wall clock
    up,       \* is the process running?
    status,   \* [Jobs -> status] self._jobs; "absent" when not in the list
    at,       \* [Jobs -> time] job.at
    disk,     \* [Jobs -> status] scheduled.json
    adding,   \* the job add() has checked and not yet inserted, or NoJob
    fired,    \* the jobs the current _tick has yet to notify, in order
    refused,  \* future times add() has refused, by the form of the text
    notified, \* [Jobs -> Nat] calls of the fire callback
    revoked,  \* the jobs whose cancel() returned True
    crashes,  \* how often the process has died
    failures  \* how many saves have failed

history == <<refused, notified, revoked>>
vars == <<now, up, status, at, disk, adding, fired, history, crashes, failures>>

Statuses == {"absent", "pending", "fired", "cancelled"}

Init ==
    /\ now = 0
    /\ up = TRUE
    /\ status = [j \in Jobs |-> "absent"]
    /\ at = [j \in Jobs |-> 0]
    /\ disk = status
    /\ adding = NoJob
    /\ fired = <<>>
    /\ refused = {}
    /\ notified = [j \in Jobs |-> 0]
    /\ revoked = {}
    /\ crashes = 0
    /\ failures = 0

\* _save_locked writes the whole list to a temporary file and renames it, or
\* fails and leaves the file as it was.
Save ==
    \/ disk' = status' /\ UNCHANGED failures
    \/ failures < MaxFailures /\ failures' = failures + 1 /\ UNCHANGED disk

-----------------------------------------------------------------------------
(* add(): at most one at a time, for its callers hold handlers._lock.      *)

\* parse_at and the comparison with the clock.
CheckTime(j) ==
    /\ up
    /\ adding = NoJob
    /\ status[j] = "absent"
    /\ disk[j] = "absent"
    /\ \E when \in 0..MaxTime, form \in {"local", "zoned"} :
         IF form = "local" /\ when > now
         THEN /\ adding' = j
              /\ at' = [at EXCEPT ![j] = when]
              /\ UNCHANGED refused
         ELSE \* ValueError for the past; a TypeError from comparing a time
              \* with a zone to the naive clock
              /\ refused' = IF when > now THEN refused \cup {form} ELSE refused
              /\ UNCHANGED <<adding, at>>
    /\ UNCHANGED <<now, up, status, disk, fired, notified, revoked, crashes,
                   failures>>

\* The insertion and the save, under the scheduler's lock.
Insert ==
    /\ up
    /\ adding # NoJob
    /\ status' = [status EXCEPT ![adding] = "pending"]
    /\ Save
    /\ adding' = NoJob
    /\ UNCHANGED <<now, up, at, fired, history, crashes>>

\* Mutation: a job that is being notified can still be cancelled.
CancelFired(j) ==
    /\ up
    /\ status[j] \in {"pending", "fired"}
    /\ status' = [status EXCEPT ![j] = "cancelled"]
    /\ Save
    /\ revoked' = revoked \cup {j}
    /\ UNCHANGED <<now, up, at, adding, fired, refused, notified, crashes>>

\* cancel() of a pending job returns True; of any other job it does nothing.
Cancel(j) ==
    /\ up
    /\ status[j] = "pending"
    /\ status' = [status EXCEPT ![j] = "cancelled"]
    /\ Save
    /\ revoked' = revoked \cup {j}
    /\ UNCHANGED <<now, up, at, adding, fired, refused, notified, crashes>>

-----------------------------------------------------------------------------
(* The daemon thread.                                                      *)

Due(j) == status[j] = "pending" /\ at[j] <= now

\* Mutation: a tick fires every job whose time has come, fired or not, also
\* while the previous batch is being announced.
TickAgain ==
    /\ up
    /\ \E batch \in SetToSeqs({j \in Jobs : status[j] # "absent" /\ at[j] <= now}) :
         /\ batch # <<>>
         /\ fired' = fired \o batch
         /\ status' = [j \in Jobs |-> IF j \in ToSet(batch) THEN "fired"
                                                           ELSE status[j]]
    /\ Save
    /\ UNCHANGED <<now, up, at, adding, history, crashes>>

\* Mutation: the tick does not save the jobs it fires.
TickUnsaved ==
    /\ up
    /\ fired = <<>>
    /\ \E batch \in SetToSeqs({j \in Jobs : Due(j)}) :
         /\ batch # <<>>
         /\ fired' = batch
         /\ status' = [j \in Jobs |-> IF Due(j) THEN "fired" ELSE status[j]]
    /\ UNCHANGED <<now, up, at, disk, adding, history, crashes, failures>>

\* _tick, under the scheduler's lock: every due job is marked, then one save.
\* The order of the batch is the order of the list, which is any order.
Tick ==
    /\ up
    /\ fired = <<>>
    /\ \E batch \in SetToSeqs({j \in Jobs : Due(j)}) :
         /\ batch # <<>>
         /\ fired' = batch
         /\ status' = [j \in Jobs |-> IF Due(j) THEN "fired" ELSE status[j]]
    /\ Save
    /\ UNCHANGED <<now, up, at, adding, history, crashes>>

\* _notify_fire, outside the lock; what the callback raises is logged.
NotifyFire ==
    /\ up
    /\ fired # <<>>
    /\ notified' = [notified EXCEPT ![Head(fired)] = @ + 1]
    /\ fired' = Tail(fired)
    /\ UNCHANGED <<now, up, status, at, disk, adding, refused, revoked,
                   crashes, failures>>

-----------------------------------------------------------------------------
(* The environment: time, and the process.                                 *)

Clock ==
    /\ now < MaxTime
    /\ now' = now + 1
    /\ UNCHANGED <<up, status, at, disk, adding, fired, history, crashes,
                   failures>>

\* The process exits or is killed; the daemon thread dies with it.
Crash ==
    /\ up
    /\ crashes < MaxCrashes
    /\ crashes' = crashes + 1
    /\ up' = FALSE
    /\ adding' = NoJob
    /\ fired' = <<>>
    /\ UNCHANGED <<now, status, at, disk, history, failures>>

\* Mutation: a restart keeps only the jobs that are still to come.
RestartDropsMissed ==
    /\ ~up
    /\ up' = TRUE
    /\ status' = [j \in Jobs |-> IF disk[j] = "pending" /\ at[j] <= now
                                 THEN "absent" ELSE disk[j]]
    /\ UNCHANGED <<now, at, disk, adding, fired, history, crashes, failures>>

\* _load, and start().
Restart ==
    /\ ~up
    /\ up' = TRUE
    /\ status' = disk
    /\ UNCHANGED <<now, at, disk, adding, fired, history, crashes, failures>>

Next ==
    \/ \E j \in Jobs : CheckTime(j) \/ Cancel(j)
    \/ Insert
    \/ Tick
    \/ NotifyFire
    \/ Clock
    \/ Crash
    \/ Restart

Spec == Init /\ [][Next]_vars

\* The daemon thread keeps ticking and time passes; nobody has to add or
\* cancel a job, and nobody has to start the program again.
Fairness == WF_vars(Tick) /\ WF_vars(NotifyFire) /\ WF_vars(Clock)

FairSpec == Spec /\ Fairness
-----------------------------------------------------------------------------
(* Properties.                                                             *)

\* The type invariant; a batch never names a job twice.
TypeOK ==
    /\ now \in 0..MaxTime
    /\ up \in BOOLEAN
    /\ status \in [Jobs -> Statuses]
    /\ at \in [Jobs -> 0..MaxTime]
    /\ disk \in [Jobs -> Statuses]
    /\ adding \in Jobs \cup {NoJob}
    /\ fired \in Seq(Jobs)
    /\ IsInjective(fired)
    /\ refused \subseteq {"local", "zoned"}
    /\ notified \in [Jobs -> Nat]
    /\ revoked \subseteq Jobs
    /\ crashes \in 0..MaxCrashes
    /\ failures \in 0..MaxFailures

\* A reminder is announced, and a task executed, at most once, across
\* restarts too: the file says "fired" before the callback runs (_tick).
\* Only a failed save can make a job fire again.
FiresAtMostOnce ==
    \A j \in Jobs : notified[j] > 1 => failures > 0

\* A job whose cancellation was confirmed to the user (cancel() returned
\* True) is never announced or executed afterwards, whatever the daemon
\* thread is doing at that moment, and also not after a restart, unless the
\* save of the cancellation failed.
CancelledNeverFires ==
    [][\A j \in revoked : notified'[j] = notified[j] \/ failures > 0]_vars

\* The file never runs behind what has been announced: a job the callback
\* has seen is not pending in scheduled.json (unless a save failed).
AnnouncedIsSaved ==
    \A j \in Jobs : notified[j] > 0 /\ failures = 0 => disk[j] = "fired"

\* Once the program stays up, every due job in the file is fired or was
\* cancelled, also one that came due while the program was not running, and
\* the file says so unless a save failed.
DueJobsAreTaken ==
    \A j \in Jobs :
        <>[]up => ((disk[j] = "pending" /\ at[j] <= now)
                      ~> (disk[j] # "pending" \/ failures > 0))

\* Every job of a batch is announced, whatever the callbacks before it did,
\* unless the process dies first.
BatchIsAnnounced ==
    \A j \in Jobs :
        j \in ToSet(fired) ~> j \notin ToSet(fired) /\ (notified[j] > 0 \/ ~up)

\* "saved in scheduled.json so that it survives a restart": once the program
\* stays up, every due job in the file is announced or was cancelled.
DueJobsAreAnnounced ==
    \A j \in Jobs :
        <>[]up => ((disk[j] = "pending" /\ at[j] <= now)
                      ~> (notified[j] > 0 \/ disk[j] = "cancelled"))

\* parse_at accepts an ISO time with a time zone: a future time is scheduled.
FutureTimesAccepted == refused = {}

\* While the program stays up, a job that is due is taken, and a job that is
\* taken is announced.
DueJobsAreServed == DueJobsAreTaken /\ BatchIsAnnounced
=============================================================================
