--------------------------- MODULE ServicesProofs ---------------------------
(***************************************************************************)
(* Proofs about what works in threads of its own, each for every value of  *)
(* its constants: Scheduler (SchedulerAssumption), TelegramLogin           *)
(* (LoginAssumption) and Desktop.  The three share no state.               *)
(***************************************************************************)
EXTENDS Scheduler, TelegramLogin, Desktop, FiniteSetTheorems, TLAPS

-----------------------------------------------------------------------------
(***************************************************************************)
(* The scheduler.                                                          *)
(***************************************************************************)
\* The order a batch is announced in: each due job once.
LEMMA BatchType ==
  ASSUME NEW S \in SUBSET Jobs, NEW batch \in SetToSeqs(S)
  PROVE  /\ batch \in Seq(Jobs)
         /\ IsInjective(batch)
         /\ \A i \in 1..Len(batch) : batch[i] \in S
<1>1. Cardinality(S) \in Nat
  BY SchedulerAssumption, FS_Subset, FS_CardinalityType
<1>2. /\ batch \in [1..Cardinality(S) -> S]
      /\ \A i, j \in 1..Cardinality(S) : i # j => batch[i] # batch[j]
  BY DEF SetToSeqs
<1>3. batch \in Seq(S) /\ DOMAIN batch = 1..Cardinality(S) /\ Len(batch) = Cardinality(S)
  BY <1>1, <1>2
<1> QED
  BY <1>2, <1>3 DEF IsInjective

\* Taking the first job off a batch.
LEMMA BatchTail ==
  ASSUME NEW s \in Seq(Jobs), s # <<>>, IsInjective(s)
  PROVE  /\ Head(s) \in Jobs
         /\ Head(s) = s[1]
         /\ 1 \in 1..Len(s)
         /\ Tail(s) \in Seq(Jobs)
         /\ IsInjective(Tail(s))
         /\ \A i \in 1..Len(Tail(s)) :
              /\ i + 1 \in 1..Len(s)
              /\ Tail(s)[i] = s[i + 1]
              /\ Tail(s)[i] # Head(s)
<1>1. /\ Tail(s) \in Seq(Jobs) /\ Len(Tail(s)) = Len(s) - 1 /\ Len(s) \in Nat \ {0}
      /\ DOMAIN Tail(s) = 1..Len(Tail(s)) /\ DOMAIN s = 1..Len(s)
      /\ \A i \in 1..Len(Tail(s)) : Tail(s)[i] = s[i + 1]
  OBVIOUS
<1>2. Head(s) = s[1] /\ s[1] \in Jobs
  BY <1>1
<1>3. \A a, b \in 1..Len(s) : s[a] = s[b] => a = b
  BY <1>1 DEF IsInjective
<1>4. \A i \in 1..Len(Tail(s)) : i + 1 \in 1..Len(s) /\ i + 1 # 1 /\ 1 \in 1..Len(s)
  BY <1>1
<1>5. \A i \in 1..Len(Tail(s)) : Tail(s)[i] # Head(s)
  BY <1>1, <1>2, <1>3, <1>4
<1>6. IsInjective(Tail(s))
  <2> SUFFICES ASSUME NEW a \in 1..Len(Tail(s)), NEW b \in 1..Len(Tail(s)),
                      Tail(s)[a] = Tail(s)[b]
               PROVE  a = b
    BY <1>1 DEF IsInjective
  <2>1. s[a + 1] = s[b + 1]
    BY <1>1
  <2>2. a + 1 = b + 1
    BY <2>1, <1>3, <1>4
  <2> QED
    BY <2>2
<1> QED
  BY <1>1, <1>2, <1>4, <1>5, <1>6

-----------------------------------------------------------------------------
(* Types.                                                                  *)

LEMMA EmptyBatch == <<>> \in Seq(Jobs) /\ IsInjective(<<>>)
  BY DEF IsInjective

LEMMA TypeInit == Init => TypeOK
  BY SchedulerAssumption, EmptyBatch DEF Init, TypeOK, Statuses

LEMMA SaveType ==
  ASSUME TypeOK, Save, status' \in [Jobs -> Statuses]
  PROVE  disk' \in [Jobs -> Statuses] /\ failures' \in 0..MaxFailures
  BY SchedulerAssumption DEF Save, TypeOK

LEMMA TypeNext == TypeOK /\ [Next]_vars => TypeOK'
<1> SUFFICES ASSUME TypeOK, [Next]_vars PROVE TypeOK'
  OBVIOUS
<1> USE SchedulerAssumption DEF TypeOK, Statuses, history
<1>1. ASSUME NEW j \in Jobs, CheckTime(j) PROVE TypeOK'
  <2>1. /\ UNCHANGED <<now, up, status, disk, fired, notified, revoked, crashes, failures>>
        /\ adding' \in {adding, j}
        /\ at' = at \/ \E when \in 0..MaxTime : at' = [at EXCEPT ![j] = when]
        /\ refused' = refused \/ \E form \in {"local", "zoned"} : refused' = refused \cup {form}
    BY <1>1 DEF CheckTime
  <2>2. at' \in [Jobs -> 0..MaxTime]
    BY <2>1
  <2>3. refused' \subseteq {"local", "zoned"}
    BY <2>1
  <2> QED
    BY <2>1, <2>2, <2>3
<1>2. ASSUME NEW j \in Jobs, Cancel(j) PROVE TypeOK'
  BY <1>2, SaveType DEF Cancel
<1>3. CASE Insert
  BY <1>3, SaveType DEF Insert
<1>4. CASE Tick
  <2>1. PICK batch \in SetToSeqs({j \in Jobs : Due(j)}) : fired' = batch
    BY <1>4 DEF Tick
  <2>2. fired' \in Seq(Jobs) /\ IsInjective(fired')
    BY <2>1, BatchType
  <2>3. status' \in [Jobs -> Statuses]
    BY <1>4 DEF Tick
  <2> QED
    BY <1>4, <2>2, <2>3, SaveType DEF Tick
<1>5. CASE NotifyFire
  BY <1>5, BatchTail DEF NotifyFire
<1>6. CASE Clock
  BY <1>6 DEF Clock
<1>7. CASE Crash
  <2>1. crashes' \in 0..MaxCrashes
    BY <1>7 DEF Crash
  <2>2. fired' \in Seq(Jobs) /\ IsInjective(fired')
    BY <1>7, EmptyBatch DEF Crash
  <2> QED
    BY <1>7, <2>1, <2>2 DEF Crash
<1>8. CASE Restart
  BY <1>8 DEF Restart
<1>9. CASE UNCHANGED vars
  BY <1>9 DEF vars
<1> QED
  BY <1>1, <1>2, <1>3, <1>4, <1>5, <1>6, <1>7, <1>8, <1>9 DEF Next

\* Every variable keeps its type; a batch never names a job twice (_tick).
THEOREM TypeCorrect == Spec => []TypeOK
  BY TypeInit, TypeNext, PTL DEF Spec

-----------------------------------------------------------------------------
(***************************************************************************)
(* While no save has failed, the file is what the memory says, and memory  *)
(* tells where a job is: one that is waiting in the batch is fired and not *)
(* announced, one that was announced is fired and out of the batch, one    *)
(* whose cancellation was confirmed stays cancelled, and the one being     *)
(* added is in neither list yet.                                           *)
(***************************************************************************)
SavedInv ==
    failures = 0 =>
        /\ disk = status
        /\ adding # NoJob => status[adding] = "absent"
        /\ \A i \in 1..Len(fired) :
             status[fired[i]] = "fired" /\ notified[fired[i]] = 0
        /\ \A j \in Jobs : notified[j] # 0 =>
             notified[j] = 1 /\ status[j] = "fired"
        /\ \A j \in revoked : status[j] = "cancelled"

LEMMA SavedInit == Init => SavedInv
  BY DEF Init, SavedInv

\* A failure is never taken back, and a save that does not fail writes all.
LEMMA SaveWrites ==
  ASSUME TypeOK, Save
  PROVE  failures' = 0 => failures = 0 /\ disk' = status'
  BY DEF Save, TypeOK

LEMMA SavedNext == TypeOK /\ SavedInv /\ [Next]_vars => SavedInv'
<1> SUFFICES ASSUME TypeOK, SavedInv, [Next]_vars, failures' = 0
             PROVE  SavedInv'
  BY DEF SavedInv
<1> USE SchedulerAssumption DEF history
<1>1. ASSUME NEW j \in Jobs, CheckTime(j) PROVE SavedInv'
  BY <1>1 DEF CheckTime, SavedInv, TypeOK
<1>2. ASSUME NEW j \in Jobs, Cancel(j) PROVE SavedInv'
  <2>1. /\ failures = 0 /\ disk' = status' /\ status[j] = "pending"
        /\ status' = [status EXCEPT ![j] = "cancelled"] /\ revoked' = revoked \cup {j}
        /\ UNCHANGED <<adding, fired, notified>>
    BY <1>2, SaveWrites DEF Cancel
  <2>2. \A k \in Jobs : k # j => status'[k] = status[k]
    BY <2>1 DEF TypeOK
  <2>3. status'[j] = "cancelled"
    BY <2>1 DEF TypeOK
  <2>4. /\ adding' # NoJob => status'[adding'] = "absent"
        /\ \A i \in 1..Len(fired') : status'[fired'[i]] = "fired" /\ notified'[fired'[i]] = 0
    BY <2>1, <2>2 DEF SavedInv, TypeOK
  <2>5. \A k \in Jobs : notified'[k] # 0 => notified'[k] = 1 /\ status'[k] = "fired"
    BY <2>1, <2>2 DEF SavedInv
  <2>6. \A k \in revoked' : status'[k] = "cancelled"
    BY <2>1, <2>2, <2>3 DEF SavedInv, TypeOK
  <2> QED
    BY <2>1, <2>4, <2>5, <2>6 DEF SavedInv
<1>3. CASE Insert
  <2>1. PICK j : j = adding
    OBVIOUS
  <2>2. /\ failures = 0 /\ disk' = status' /\ j \in Jobs /\ status[j] = "absent"
        /\ status' = [status EXCEPT ![j] = "pending"] /\ adding' = NoJob
        /\ UNCHANGED <<fired, notified, revoked>>
    BY <1>3, <2>1, SaveWrites DEF Insert, SavedInv, TypeOK
  <2>3. \A k \in Jobs : k # j => status'[k] = status[k]
    BY <2>2 DEF TypeOK
  <2>4. \A i \in 1..Len(fired') : status'[fired'[i]] = "fired" /\ notified'[fired'[i]] = 0
    BY <2>2, <2>3 DEF SavedInv, TypeOK
  <2>5. /\ \A k \in Jobs : notified'[k] # 0 => notified'[k] = 1 /\ status'[k] = "fired"
        /\ \A k \in revoked' : status'[k] = "cancelled"
    BY <2>2, <2>3 DEF SavedInv, TypeOK
  <2> QED
    BY <2>2, <2>4, <2>5 DEF SavedInv
<1>4. CASE Tick
  <2>1. PICK batch \in SetToSeqs({j \in Jobs : Due(j)}) : fired' = batch
    BY <1>4 DEF Tick
  <2>2. \A i \in 1..Len(fired') : fired'[i] \in {j \in Jobs : Due(j)}
    BY <2>1, BatchType
  <2>3. \A i \in 1..Len(fired') : fired'[i] \in Jobs /\ status[fired'[i]] = "pending"
    BY <2>2 DEF Due
  <2>4. /\ failures = 0 /\ disk' = status' /\ notified' = notified
        /\ revoked' = revoked /\ adding' = adding
        /\ \A j \in Jobs : status'[j] = IF Due(j) THEN "fired" ELSE status[j]
    BY <1>4, SaveWrites DEF Tick
  <2>5. \A i \in 1..Len(fired') :
           status'[fired'[i]] = "fired" /\ notified'[fired'[i]] = 0
    <3> SUFFICES ASSUME NEW i \in 1..Len(fired')
                 PROVE  status'[fired'[i]] = "fired" /\ notified'[fired'[i]] = 0
      OBVIOUS
    <3>1. fired'[i] \in Jobs /\ Due(fired'[i]) /\ status[fired'[i]] = "pending"
      BY <2>2, <2>3
    <3>2. notified[fired'[i]] = 0
      BY <3>1, <2>4 DEF SavedInv
    <3> QED
      BY <3>1, <3>2, <2>4
  <2>6. adding' # NoJob => status'[adding'] = "absent"
    BY <2>4 DEF SavedInv, Due, TypeOK
  <2>7. \A j \in Jobs : notified'[j] # 0 => notified'[j] = 1 /\ status'[j] = "fired"
    BY <2>4 DEF SavedInv
  <2>8. \A j \in revoked' : status'[j] = "cancelled"
    BY <2>4 DEF SavedInv, Due, TypeOK
  <2> QED
    BY <2>4, <2>5, <2>6, <2>7, <2>8 DEF SavedInv
<1>5. CASE NotifyFire
  <2>1. /\ failures = 0 /\ fired' = Tail(fired) /\ status' = status
        /\ disk' = disk /\ revoked' = revoked /\ adding' = adding
        /\ notified' = [notified EXCEPT ![Head(fired)] = @ + 1]
    BY <1>5 DEF NotifyFire
  <2>2. /\ Head(fired) \in Jobs /\ Head(fired) = fired[1] /\ 1 \in 1..Len(fired)
        /\ \A i \in 1..Len(fired') :
             /\ i + 1 \in 1..Len(fired)
             /\ fired'[i] = fired[i + 1]
             /\ fired'[i] # Head(fired)
    BY <1>5, <2>1, BatchTail DEF NotifyFire, TypeOK
  <2>3. notified[Head(fired)] = 0 /\ status[Head(fired)] = "fired"
    BY <2>1, <2>2 DEF SavedInv
  <2>4. \A i \in 1..Len(fired') :
           status'[fired'[i]] = "fired" /\ notified'[fired'[i]] = 0
    <3> SUFFICES ASSUME NEW i \in 1..Len(fired')
                 PROVE  status'[fired'[i]] = "fired" /\ notified'[fired'[i]] = 0
      OBVIOUS
    <3>1. /\ fired'[i] \in Jobs /\ fired'[i] # Head(fired)
          /\ status[fired'[i]] = "fired" /\ notified[fired'[i]] = 0
      <4>1. i + 1 \in 1..Len(fired) /\ fired'[i] = fired[i + 1] /\ fired'[i] # Head(fired)
        BY <2>2
      <4>2. fired[i + 1] \in Jobs
        BY <4>1 DEF TypeOK
      <4> QED
        BY <4>1, <4>2, <2>1 DEF SavedInv
    <3> QED
      BY <3>1, <2>1 DEF TypeOK
  <2>5. \A j \in Jobs : notified'[j] # 0 => notified'[j] = 1 /\ status'[j] = "fired"
    BY <2>1, <2>2, <2>3 DEF SavedInv, TypeOK
  <2> QED
    BY <2>1, <2>4, <2>5 DEF SavedInv
<1>6. CASE Clock
  BY <1>6 DEF Clock, SavedInv
<1>7. CASE Crash
  BY <1>7 DEF Crash, SavedInv
<1>8. CASE Restart
  BY <1>8 DEF Restart, SavedInv
<1>9. CASE UNCHANGED vars
  BY <1>9 DEF vars, SavedInv
<1> QED
  BY <1>1, <1>2, <1>3, <1>4, <1>5, <1>6, <1>7, <1>8, <1>9 DEF Next

LEMMA SavedAlways == Spec => [](TypeOK /\ SavedInv)
  BY TypeInit, TypeNext, SavedInit, SavedNext, PTL DEF Spec

\* A reminder is announced, and a task executed, at most once unless a save
\* has failed (_tick marks and saves before _notify_fire).
THEOREM FiresOnce == Spec => []FiresAtMostOnce
<1>1. TypeOK /\ SavedInv => FiresAtMostOnce
  BY DEF SavedInv, FiresAtMostOnce, TypeOK
<1> QED
  BY <1>1, SavedAlways, PTL

\* What has been announced is not pending in scheduled.json.
THEOREM AnnouncedSaved == Spec => []AnnouncedIsSaved
<1>1. TypeOK /\ SavedInv => AnnouncedIsSaved
  BY DEF SavedInv, AnnouncedIsSaved, TypeOK
<1> QED
  BY <1>1, SavedAlways, PTL

\* A job whose cancellation was confirmed is never announced afterwards.
THEOREM CancelledStays == Spec => CancelledNeverFires
<1>1. TypeOK /\ SavedInv /\ [Next]_vars =>
        [\A j \in revoked : notified'[j] = notified[j] \/ failures > 0]_vars
  <2> SUFFICES ASSUME TypeOK, SavedInv, [Next]_vars, NEW j \in revoked, failures = 0
               PROVE  notified'[j] = notified[j]
    BY DEF TypeOK
  <2>1. CASE NotifyFire
    <3>1. Head(fired) = fired[1] /\ 1 \in 1..Len(fired) /\ Head(fired) \in Jobs
      BY <2>1, BatchTail DEF NotifyFire, TypeOK
    <3>2. status[Head(fired)] = "fired" /\ status[j] = "cancelled"
      BY <3>1 DEF SavedInv
    <3> QED
      BY <2>1, <3>2 DEF NotifyFire, TypeOK
  <2>2. CASE ~NotifyFire
    BY <2>2 DEF Next, CheckTime, Cancel, Insert, Tick, Clock, Crash, Restart, history, vars
  <2> QED
    BY <2>1, <2>2
<1> QED
  BY <1>1, SavedAlways, PTL DEF Spec, CancelledNeverFires

-----------------------------------------------------------------------------
(***************************************************************************)
(* The desktop program.                                                    *)
(***************************************************************************)
Stages == {"off", "acquire", "write pid", "signal", "backend", "window", "tray", "hotkey",
           "loop", "finally", "ended"}
QuitStages == {"no", "hotkey", "tray", "server", "lock", "close", "unlink", "destroy", "done"}

DesktopTypes ==
    /\ main \in [Processes -> Stages]
    /\ port \in Processes \cup {Nobody}
    /\ http \in [Processes -> {"none", "up", "stopping"}]
    /\ quit \in [Processes -> [at : QuitStages,
                               by : {"nobody", "tray", "page", "main"}]]

(***************************************************************************)
(* A process has the port from the moment it has bound it until its quit() *)
(* closes it, or it ends; and its server has been told to stop by then.    *)
(***************************************************************************)
HoldsPortAt(p) ==
    /\ quit[p].at # "no" => main[p] \in {"hotkey", "loop", "finally"}
    /\ main[p] \in Stages \ {"off", "acquire", "signal", "ended"}
         /\ quit[p].at \notin {"unlink", "destroy", "done"} => port = p
    /\ http[p] = "up" => main[p] \in {"window", "tray", "hotkey", "loop", "finally"}
                         /\ quit[p].at \in {"no", "hotkey", "tray", "server"}
HoldsPort == \A p \in Processes : HoldsPortAt(p)

DesktopInv == DesktopTypes /\ HoldsPort

\* A process that has ended has nothing, and takes the port from no other.
LEMMA GoneKeeps ==
  ASSUME DesktopInv, NEW p \in Processes, Gone(p)
  PROVE  DesktopInv'
<1>1. /\ main' = [main EXCEPT ![p] = "ended"]
      /\ port' = IF port = p THEN Nobody ELSE port
      /\ http' = [http EXCEPT ![p] = "none"]
      /\ quit' = [quit EXCEPT ![p] = NoQuit]
      /\ NoQuit.at = "no"
  BY DEF Gone, NoQuit
<1>2. DesktopTypes'
  BY <1>1 DEF DesktopInv, DesktopTypes, NoQuit, Stages, QuitStages
<1>3. HoldsPort'
  BY <1>1, NobodyAssumption DEF DesktopInv, DesktopTypes, HoldsPort, HoldsPortAt
<1> QED
  BY <1>2, <1>3 DEF DesktopInv

LEMMA DesktopStart == DesktopInit => DesktopInv
  BY DEF DesktopInit, DesktopInv, DesktopTypes, HoldsPort, HoldsPortAt, Stages, QuitStages, NoQuit

\* A tray's thread comes after the window and ends with its process.
TraysLive ==
    /\ tray \subseteq Processes
    /\ \A p \in tray : main[p] \in {"hotkey", "loop", "finally"}

LEMMA TraysStep == DesktopTypes /\ TraysLive /\ [DesktopNext]_desktopVars => TraysLive'
<1> SUFFICES ASSUME DesktopTypes, TraysLive, [DesktopNext]_desktopVars PROVE TraysLive'
  OBVIOUS
<1> USE DEF TraysLive
<1>1. CASE UNCHANGED desktopVars
  BY <1>1 DEF desktopVars, natives
<1>2. ASSUME NEW p \in Processes, MainStep(p) \/ StartProcess(p) \/ Interrupt(p)
      PROVE  TraysLive'
  <2>1. CASE StartTray(p)
    <3>1. /\ tray' \in {tray, tray \cup {p}}
          /\ main[p] = "tray" /\ main' = [main EXCEPT ![p] = "hotkey"]
      BY <2>1 DEF StartTray, Main
    <3> QED
      BY <3>1 DEF DesktopTypes
  <2>2. CASE StartHotkey(p) \/ LoopEnds(p) \/ Interrupt(p)
    <3>1. tray' = tray
      BY <2>2 DEF StartHotkey, LoopEnds, Interrupt, natives
    <3>2. \/ main' = [main EXCEPT ![p] = "loop"]
          \/ main' = [main EXCEPT ![p] = "finally"]
      BY <2>2 DEF StartHotkey, LoopEnds, Interrupt, Main
    <3> QED
      BY <3>1, <3>2 DEF DesktopTypes
  <2>3. CASE \/ StartProcess(p) \/ Acquire(p) \/ WritePid(p) \/ Signal(p) \/ StartBackend(p)
             \/ CreateWindow(p)
    <3>1. tray' = tray
      BY <2>3 DEF StartProcess, Acquire, WritePid, Signal, StartBackend, CreateWindow, natives
    <3>2. PICK to \in Stages : main' = [main EXCEPT ![p] = to]
      BY <2>3 DEF StartProcess, Acquire, WritePid, Signal, StartBackend, CreateWindow, Main, Stages
    <3>3. main[p] \notin {"hotkey", "loop", "finally"}
      BY <2>3 DEF StartProcess, Acquire, WritePid, Signal, StartBackend, CreateWindow, Main
    <3> QED
      BY <3>1, <3>2, <3>3 DEF DesktopTypes
  <2>4. CASE Finally(p)
    BY <2>4 DEF Finally, natives
  <2>5. CASE Exit(p)
    <3>1. tray' = tray \ {p} /\ main' = [main EXCEPT ![p] = "ended"]
      BY <2>5 DEF Exit, Gone
    <3> QED
      BY <3>1 DEF DesktopTypes
  <2> QED
    BY <1>2, <2>1, <2>2, <2>3, <2>4, <2>5 DEF MainStep
<1>3. ASSUME NEW p \in Processes, Killed(p)
      PROVE  TraysLive'
  <2>1. tray' = tray \ {p} /\ main' = [main EXCEPT ![p] = "ended"]
    BY <1>3 DEF Killed, Gone
  <2> QED
    BY <2>1 DEF DesktopTypes
<1>4. ASSUME NEW p \in Processes,
             \/ QuitStep(p) \/ ServerStops(p) \/ Serve(p) \/ Press(p) \/ PressX(p) \/ PressQuit(p)
             \/ \E h \in Hands : MoveWindow(p, h) \/ NoteVisible(p, h)
      PROVE  TraysLive'
  <2>1. main' = main /\ (tray' = tray \/ tray' = tray \ {p})
    BY <1>4 DEF QuitStep, StopHotkey, StopTray, StopServer, ServerStops, StopServe, ClosePort, Unlink,
       DestroyWindow, Serve, Press, PressX, PressQuit, MoveWindow, NoteVisible, natives
  <2> QED
    BY <2>1
<1> QED
  BY <1>1, <1>2, <1>3, <1>4 DEF DesktopNext

LEMMA DesktopStep ==
  DesktopInv /\ TraysLive /\ [DesktopNext]_desktopVars => DesktopInv'
<1> SUFFICES ASSUME DesktopInv, TraysLive, [DesktopNext]_desktopVars PROVE DesktopInv'
  OBVIOUS
<1> USE DEF DesktopInv, DesktopTypes, HoldsPort, HoldsPortAt, Stages, QuitStages
<1>1. CASE UNCHANGED desktopVars
  BY <1>1 DEF desktopVars, lockVars, shell, natives
<1>2. ASSUME NEW p \in Processes,
             StartProcess(p) \/ Acquire(p) \/ WritePid(p) \/ Signal(p) \/ StartBackend(p)
      PROVE  DesktopInv'
  <2>1. CASE StartProcess(p)
    BY <2>1 DEF StartProcess, Main, lockVars
  <2>2. CASE Acquire(p)
    <3>1. CASE port = Nobody
      <4>1. main[p] = "acquire" /\ main' = [main EXCEPT ![p] = "write pid"]
            /\ port' = p /\ UNCHANGED <<http, quit>>
        BY <2>2, <3>1 DEF Acquire, Main, shell, natives
      <4> QED
        BY <3>1, <4>1, NobodyAssumption
    <3>2. CASE port # Nobody
      <4>1. main[p] = "acquire" /\ main' = [main EXCEPT ![p] = "signal"]
            /\ UNCHANGED <<port, http, quit>>
        BY <2>2, <3>2 DEF Acquire, Main, shell, natives
      <4> QED
        BY <4>1
    <3> QED
      BY <3>1, <3>2
  <2>3. CASE WritePid(p)
    BY <2>3 DEF WritePid, Main
  <2>4. CASE Signal(p)
    BY <2>4 DEF Signal, Main
  <2>5. CASE StartBackend(p)
    BY <2>5 DEF StartBackend, Main, lockVars
  <2> QED
    BY <1>2, <2>1, <2>2, <2>3, <2>4, <2>5
<1>3. ASSUME NEW p \in Processes,
             CreateWindow(p) \/ StartTray(p) \/ StartHotkey(p) \/ LoopEnds(p) \/ Interrupt(p)
      PROVE  DesktopInv'
  <2>1. CASE CreateWindow(p)
    BY <2>1 DEF CreateWindow, Main, lockVars
  <2>2. CASE StartTray(p)
    BY <2>2 DEF StartTray, Main, lockVars
  <2>3. CASE StartHotkey(p)
    BY <2>3 DEF StartHotkey, Main, lockVars
  <2>4. CASE LoopEnds(p)
    BY <2>4 DEF LoopEnds, Main, lockVars
  <2>5. CASE Interrupt(p)
    BY <2>5 DEF Interrupt, Main, lockVars
  <2> QED
    BY <1>3, <2>1, <2>2, <2>3, <2>4, <2>5
<1>4. ASSUME NEW p \in Processes, QuitStep(p)
      PROVE  DesktopInv'
  <2>1. \E from, to \in QuitStages \ {"no"} :
          /\ quit[p].at = from /\ quit' = [quit EXCEPT ![p].at = to] /\ main' = main
          /\ \/ /\ from \in {"hotkey", "tray", "lock"} /\ to \in {"tray", "server", "close"}
                /\ from # "lock" => to # "close"
                /\ port' = port /\ http' = http
             \/ from = "server" /\ port' = port /\ http' = [http EXCEPT ![p] = "stopping"]
                /\ to = "lock"
             \/ from = "close" /\ to = "unlink" /\ http' = http
                /\ (port' = port \/ (port = p /\ port' = Nobody))
             \/ from \in {"unlink", "destroy"} /\ to \in {"destroy", "done"}
                /\ port' = port /\ http' = http
    <3>1. CASE StopHotkey(p)
      <4>1. quit[p].at = "hotkey" /\ quit' = [quit EXCEPT ![p].at = "tray"]
            /\ UNCHANGED <<main, port, http>>
        BY <3>1 DEF StopHotkey, lockVars, QuitGoes
      <4> WITNESS "hotkey" \in QuitStages \ {"no"}, "tray" \in QuitStages \ {"no"}
      <4> QED
        BY <4>1
    <3>2. CASE StopTray(p)
      <4>1. quit[p].at = "tray" /\ quit' = [quit EXCEPT ![p].at = "server"]
            /\ UNCHANGED <<main, port, http>>
        BY <3>2 DEF StopTray, lockVars, QuitGoes
      <4> WITNESS "tray" \in QuitStages \ {"no"}, "server" \in QuitStages \ {"no"}
      <4> QED
        BY <4>1
    <3>3. CASE StopServer(p)
      <4>1. quit[p].at = "server" /\ quit' = [quit EXCEPT ![p].at = "lock"]
            /\ UNCHANGED <<main, port>> /\ http' = [http EXCEPT ![p] = "stopping"]
        BY <3>3 DEF StopServer, lockVars, QuitGoes
      <4> WITNESS "server" \in QuitStages \ {"no"}, "lock" \in QuitStages \ {"no"}
      <4> QED
        BY <4>1
    <3>4. CASE StopServe(p)
      <4>1. quit[p].at = "lock" /\ quit' = [quit EXCEPT ![p].at = "close"]
            /\ UNCHANGED <<main, port, http>>
        BY <3>4 DEF StopServe, lockVars, QuitGoes
      <4> WITNESS "lock" \in QuitStages \ {"no"}, "close" \in QuitStages \ {"no"}
      <4> QED
        BY <4>1
    <3>5. CASE ClosePort(p)
      <4>1. quit[p].at = "close" /\ quit' = [quit EXCEPT ![p].at = "unlink"]
            /\ UNCHANGED <<main, http>> /\ (port' = port \/ (port = p /\ port' = Nobody))
        BY <3>5 DEF ClosePort, QuitGoes
      <4> WITNESS "close" \in QuitStages \ {"no"}, "unlink" \in QuitStages \ {"no"}
      <4> QED
        BY <4>1
    <3>6. CASE Unlink(p)
      <4>1. quit[p].at = "unlink" /\ quit' = [quit EXCEPT ![p].at = "destroy"]
            /\ UNCHANGED <<main, port, http>>
        BY <3>6 DEF Unlink, QuitGoes
      <4> WITNESS "unlink" \in QuitStages \ {"no"}, "destroy" \in QuitStages \ {"no"}
      <4> QED
        BY <4>1
    <3>7. CASE DestroyWindow(p)
      <4>1. quit[p].at = "destroy" /\ quit' = [quit EXCEPT ![p].at = "done"]
            /\ UNCHANGED <<main, port, http>>
        BY <3>7 DEF DestroyWindow, lockVars, QuitGoes
      <4> WITNESS "destroy" \in QuitStages \ {"no"}, "done" \in QuitStages \ {"no"}
      <4> QED
        BY <4>1
    <3> QED
      BY <1>4, <3>1, <3>2, <3>3, <3>4, <3>5, <3>6, <3>7 DEF QuitStep
  <2>2. PICK from, to \in QuitStages \ {"no"} :
          /\ quit[p].at = from /\ quit' = [quit EXCEPT ![p].at = to] /\ main' = main
          /\ \/ /\ from \in {"hotkey", "tray", "lock"} /\ to \in {"tray", "server", "close"}
                /\ from # "lock" => to # "close"
                /\ port' = port /\ http' = http
             \/ from = "server" /\ port' = port /\ http' = [http EXCEPT ![p] = "stopping"]
                /\ to = "lock"
             \/ from = "close" /\ to = "unlink" /\ http' = http
                /\ (port' = port \/ (port = p /\ port' = Nobody))
             \/ from \in {"unlink", "destroy"} /\ to \in {"destroy", "done"}
                /\ port' = port /\ http' = http
    BY <2>1
  <2>3. /\ quit'[p].at = to /\ \A q \in Processes \ {p} : quit'[q] = quit[q]
        /\ quit' \in [Processes -> [at : QuitStages, by : {"nobody", "tray", "page", "main"}]]
    <3>1. quit' = [quit EXCEPT ![p].at = to] /\ to \in QuitStages
      BY <2>2
    <3> HIDE DEF QuitStages, HoldsPort, HoldsPortAt, Stages
    <3>2. quit \in [Processes -> [at : QuitStages, by : {"nobody", "tray", "page", "main"}]]
      OBVIOUS
    <3>3. [quit[p] EXCEPT !.at = to] \in [at : QuitStages, by : {"nobody", "tray", "page", "main"}]
      BY <3>1, <3>2
    <3> QED
      BY <3>1, <3>2, <3>3
  <2>4. DesktopTypes'
    <3>1. main' \in [Processes -> Stages]
      BY <2>2
    <3>2. port' \in Processes \cup {Nobody}
      BY <2>2
    <3>3. http' \in [Processes -> {"none", "up", "stopping"}]
      BY <2>2
    <3> QED
      BY <2>3, <3>1, <3>2, <3>3
  <2>5. ASSUME NEW q \in Processes \ {p}
        PROVE  /\ quit'[q] = quit[q] /\ http'[q] = http[q] /\ main'[q] = main[q]
               /\ port = q => port' = q
    <3>1. quit'[q] = quit[q] /\ main'[q] = main[q]
      BY <2>2, <2>3
    <3>2. http' = http \/ http' = [http EXCEPT ![p] = "stopping"]
      BY <2>2
    <3>3. port' = port \/ port = p
      BY <2>2
    <3> QED
      BY <3>1, <3>2, <3>3
  <2>6. main[p] \in {"hotkey", "loop", "finally"} /\ main' = main
    <3>1. quit[p].at # "no"
      BY <2>2
    <3> QED
      BY <2>2, <3>1
  <2>7. from \notin {"unlink", "destroy", "done"} => port = p
    BY <2>2, <2>6
  <2>8. http[p] = "up" => from \in {"hotkey", "tray", "server"}
    BY <2>2
  <2>9. to \notin {"unlink", "destroy", "done"} => port' = p
    <3>1. CASE from \in {"hotkey", "tray", "lock", "server"}
      BY <2>2, <2>7, <3>1
    <3>2. CASE from \in {"close", "unlink", "destroy"}
      BY <2>2, <3>2
    <3> QED
      BY <2>2, <3>1, <3>2
  <2>10. http'[p] = "up" => to \in {"no", "hotkey", "tray", "server"}
    <3>1. CASE from = "server"
      BY <2>2, <3>1
    <3>2. CASE from # "server"
      BY <2>2, <2>8, <3>2
    <3> QED
      BY <3>1, <3>2
  <2>11. ASSUME NEW q \in Processes PROVE HoldsPortAt(q)'
    <3>1. CASE q = p
      BY <2>3, <2>6, <2>9, <2>10, <3>1 DEF HoldsPortAt
    <3>2. CASE q # p
      BY <2>5, <3>2 DEF HoldsPortAt
    <3> QED
      BY <3>1, <3>2
  <2> QED
    BY <2>4, <2>11
<1>5. ASSUME NEW p \in Processes, Finally(p) \/ PressQuit(p)
      PROVE  DesktopInv'
  <2>1. PICK new \in [at : QuitStages, by : {"nobody", "tray", "page", "main"}] :
          /\ new.at = "hotkey" /\ quit' = [quit EXCEPT ![p] = new]
          /\ UNCHANGED <<main, port, http>>
          /\ main[p] \in {"hotkey", "loop", "finally"} /\ quit[p].at = "no"
    <3>1. [at |-> "hotkey", by |-> "tray"] \in [at : QuitStages, by : {"nobody", "tray", "page", "main"}]
      OBVIOUS
    <3>2. [at |-> "hotkey", by |-> "page"] \in [at : QuitStages, by : {"nobody", "tray", "page", "main"}]
      OBVIOUS
    <3>3. [at |-> "hotkey", by |-> "main"] \in [at : QuitStages, by : {"nobody", "tray", "page", "main"}]
      OBVIOUS
    <3>4. CASE Finally(p)
      BY <3>4, <3>3 DEF Finally, Quitting, lockVars
    <3>5. CASE PressQuit(p)
      BY <3>5, <3>1, <3>2 DEF PressQuit, Quitting, lockVars, TraysLive
    <3> QED
      BY <1>5, <3>4, <3>5
  <2> QED
    BY <2>1
<1>6. ASSUME NEW p \in Processes, ServerStops(p)
      PROVE  DesktopInv'
  BY <1>6 DEF ServerStops, lockVars
<1>7. ASSUME NEW p \in Processes, Exit(p) \/ Killed(p)
      PROVE  DesktopInv'
  BY <1>7, GoneKeeps DEF Exit, Killed
<1>8. ASSUME NEW p \in Processes,
             Serve(p) \/ Press(p) \/ PressX(p) \/ \E h \in Hands : MoveWindow(p, h) \/ NoteVisible(p, h)
      PROVE  DesktopInv'
  <2>1. UNCHANGED <<main, port, http, quit>>
    BY <1>8 DEF Serve, Press, PressX, MoveWindow, NoteVisible, lockVars
  <2> QED
    BY <2>1
<1> QED
  BY <1>1, <1>2, <1>3, <1>4, <1>5, <1>6, <1>7, <1>8 DEF DesktopNext, MainStep

\* For any number of launches, and wherever they quit or are killed: a server
\* that nobody has told to stop belongs to the process that has the port.
THEOREM OneServes == DesktopSpec => []OnlyTheOwnerServes
<1>1. DesktopInv => OnlyTheOwnerServes
  BY DEF DesktopInv, HoldsPort, HoldsPortAt, DesktopTypes, OnlyTheOwnerServes, Stages
<1>2. DesktopInit => TraysLive
  BY DEF DesktopInit, TraysLive
<1>3. DesktopInv => DesktopTypes
  BY DEF DesktopInv
<1> QED
  BY <1>1, <1>2, <1>3, DesktopStart, DesktopStep, TraysStep, PTL DEF DesktopSpec

-----------------------------------------------------------------------------
(***************************************************************************)
(* The login of a Telegram account.                                        *)
(***************************************************************************)
Exclusive == {"begin", "code", "password", "disconnect"}
CoroutineKinds == Exclusive \cup {"read", "send"}
LockKinds == {"start", "code", "password", "cli", "disconnect"}
Prompts == {"prompt code", "prompt password"}
LoginStates == {"disconnected", "await_code", "await_2fa", "connected"}
CallRecords == [at : {"idle", "entry", "wait"} \cup Prompts,
                kind : LockKinds \cup {"read", "send", "none"},
                task : Tasks \cup {None}, attempt : 0..1]
Places == {"none", "new", "connect", "is_user_authorized", "send_code_request", "sign_in",
           "get_me", "closing", "resolve", "request", "done"}
Results == {"none", "await_code", "await_2fa", "connected", "closed", "answered", "error"}
Coroutines == [kind : CoroutineKinds \cup {"none"}, at : Places, cancel : BOOLEAN,
               uses : Tasks \cup {None}, result : Results]

LoginTypes ==
    /\ connected \in BOOLEAN /\ loginState \in LoginStates
    /\ client \in Tasks \cup {None} /\ open \subseteq Tasks /\ scheduled \in 0..MaxTasks
    /\ account \in [authorized : BOOLEAN, twoFactor : BOOLEAN] /\ late \in BOOLEAN
    /\ call \in [Callers -> CallRecords] /\ task \in [Tasks -> Coroutines]
    /\ sent \in [Callers -> Nat]

\* The coroutines that a call of some kind waits for.
Serves(kind, as) ==
    \/ as = kind /\ kind # "begin"
    \/ as \in {"start", "cli"} /\ kind = "begin"
    \/ as = "cli" /\ kind \in {"code", "password"}

\* Where a coroutine of some kind can be.
Placed(i) ==
    /\ task[i].kind \in CoroutineKinds
    /\ task[i].kind = "begin" =>
         task[i].at \in {"new", "connect", "is_user_authorized", "send_code_request",
                         "get_me", "done"}
    /\ task[i].kind \in {"code", "password"} => task[i].at \in {"new", "sign_in", "get_me", "done"}
    /\ task[i].kind = "disconnect" => task[i].at \in {"new", "closing", "done"}
    /\ task[i].kind \in {"read", "send"} => task[i].at \in {"new", "resolve", "request", "done"}

(***************************************************************************)
(* The lock is held by the one thread that waits for a coroutine of the    *)
(* login, or prompts; and each waiting thread waits for a coroutine of its *)
(* own kind.                                                               *)
(***************************************************************************)
Waits(t) == call[t].at = "wait"
Locks(t) == call[t].at \in Prompts \/ (Waits(t) /\ call[t].kind \in LockKinds)

CallsInv ==
    /\ \A t \in Callers : t \in holder <=> Locks(t)
    /\ holder \subseteq Callers /\ \A t, u \in holder : t = u
    /\ \A t \in Callers : call[t].task \in 0..scheduled
    /\ \A t \in Callers : Waits(t) =>
         call[t].task # None /\ Serves(task[call[t].task].kind, call[t].kind)
    /\ \A i \in Tasks : IF i > scheduled THEN task[i] = NoCoroutine ELSE Placed(i)

\* A send is one coroutine, and has been taken at most once.
SendInv ==
    \A t \in Callers :
      /\ sent[t] <= 1
      /\ call[t].kind = "send" /\ call[t].at = "entry" => sent[t] = 0
      /\ call[t].kind = "send" /\ Waits(t) /\ Live(call[t].task) => sent[t] = 0
      /\ call[t].task # None /\ task[call[t].task].kind = "send" =>
           Waits(t) /\ call[t].kind = "send"

(***************************************************************************)
(* The coroutines of the login that are not done: one of them at most has  *)
(* started, the one scheduled first, and all but the last are to be        *)
(* cancelled, because nobody waits for them any more.  The loop cancels    *)
(* them before it starts the next.                                         *)
(***************************************************************************)
Works(i) == Live(i) /\ task[i].kind \in Exclusive
NoneWorks == \A i \in Tasks : ~Works(i)
Rank(kind) == IF kind = "begin" THEN 0 ELSE IF kind = "code" THEN 1
              ELSE IF kind = "password" THEN 2 ELSE 3

InOrderOfLogin ==
    /\ \A i \in Tasks : Works(i) /\ ~task[i].cancel =>
         \E t \in Callers : Waits(t) /\ call[t].task = i
    /\ \A i, j \in Tasks : i < j /\ Works(i) /\ Works(j) =>
         task[i].cancel /\ task[j].at = "new" /\ Rank(task[i].kind) <= Rank(task[j].kind)
    /\ \A i \in Tasks : task[i].kind = "disconnect" => ~task[i].cancel
    /\ \A t \in Callers : Waits(t) /\ call[t].kind \in LockKinds =>
         /\ ~task[call[t].task].cancel
         /\ task[call[t].task].at = "done" => NoneWorks

\* What the account must be like for a coroutine of some kind to go on, and
\* for a prompt to be answered.
ReadyForCode == loginState # "disconnected" /\ ~(account.twoFactor /\ account.authorized)
ReadyForPassword == loginState \in {"await_2fa", "connected"}
Ready(kind) ==
    /\ kind = "begin" => loginState # "await_2fa"
    /\ kind = "code" => ReadyForCode
    /\ kind = "password" => ReadyForPassword
    /\ kind = "disconnect" => connected

Going(i) ==
    /\ task[i].at \in {"new", "connect"} /\ task[i].kind = "begin" => i \notin open
    /\ task[i].at = "is_user_authorized" => client = i
    /\ task[i].at = "send_code_request" => client = i /\ ~account.authorized
    /\ task[i].at = "get_me" /\ task[i].kind = "begin" => client = i /\ loginState = "connected"
    /\ task[i].at = "sign_in" => client # None
    /\ task[i].at = "closing" => client # None /\ task[i].uses = client

WorkIsReady ==
    /\ \A i \in Tasks : Works(i) => Ready(task[i].kind) /\ Going(i)
    /\ \A t \in Callers : call[t].at = "prompt code" =>
         ReadyForCode /\ \A i \in Tasks : Works(i) => Rank(task[i].kind) <= 1
    /\ \A t \in Callers : call[t].at = "prompt password" =>
         ReadyForPassword /\ \A i \in Tasks : Works(i) => Rank(task[i].kind) <= 2
    /\ \A t \in Callers : Waits(t) /\ call[t].kind = "cli" /\ task[call[t].task].at = "done" =>
         /\ task[call[t].task].result = "await_code" => ReadyForCode
         /\ task[call[t].task].result = "await_2fa" => ReadyForPassword

(***************************************************************************)
(* What the account's state says of the connection.                        *)
(***************************************************************************)
WaitsToLeave(t) == Waits(t) /\ call[t].kind = "disconnect"

StateInv ==
    /\ connected => account.authorized /\ client # None /\ loginState = "connected"
    /\ account.authorized => loginState \in {"disconnected", "connected"}
    /\ client # None => client \in open
    /\ ~connected /\ loginState = "connected" => \E t \in Callers : WaitsToLeave(t)
    /\ \A t \in Callers : WaitsToLeave(t) /\ task[call[t].task].at = "done" =>
         ~connected /\ client = None
    /\ \A c \in open : task[c].kind = "begin"

\* A client whose login went well keeps others from being made.
Good(c) == ~Live(c) /\ ~task[c].cancel /\ task[c].result # "error"
ClientInv ==
    /\ \A c \in open \ {client} : ~Good(c)
    /\ client # None /\ Good(client) =>
         loginState # "disconnected" /\ \A i \in Tasks : Works(i) => task[i].kind # "begin"

CalmLogin == InOrderOfLogin /\ WorkIsReady /\ StateInv /\ ClientInv

LoginInv == LoginTypes /\ CallsInv /\ SendInv /\ (late \/ CalmLogin)

LEMMA LoginStart == LoginInit => LoginInv
<1> SUFFICES ASSUME LoginInit PROVE LoginInv
  OBVIOUS
<1>0. PICK c : c = Idle
  OBVIOUS
<1>1. /\ \A t \in Callers : call[t] = c
      /\ \A i \in Tasks : task[i] = NoCoroutine
      /\ call = [t \in Callers |-> c]
      /\ c.at = "idle" /\ c.kind = "none" /\ c.task = 0 /\ c.attempt = 0
      /\ c \in CallRecords
  BY <1>0 DEF LoginInit, Idle, CallRecords, Prompts, LockKinds, None
<1>2. \A i \in Tasks : task[i].at = "none" /\ task[i].kind = "none" /\ ~task[i].cancel
  BY <1>1 DEF NoCoroutine
<1>3. LoginTypes
  <2>1. NoCoroutine \in Coroutines
    BY DEF NoCoroutine, Coroutines, Places, Results
  <2>2. task = [i \in Tasks |-> NoCoroutine] /\ sent = [t \in Callers |-> 0]
    BY DEF LoginInit
  <2>3. 0 \in 0..MaxTasks /\ None \in Tasks \cup {None}
    BY LoginAssumption
  <2>4. task \in [Tasks -> Coroutines] /\ sent \in [Callers -> Nat]
    BY <2>1, <2>2
  <2>5. call \in [Callers -> CallRecords]
    BY <1>1
  <2> QED
    BY <2>3, <2>4, <2>5 DEF LoginInit, LoginTypes, LoginStates
<1>4. CallsInv
  <2>1. holder = {} /\ scheduled = 0
    BY DEF LoginInit
  <2>2. \A t \in Callers : ~Locks(t) /\ ~Waits(t) /\ call[t].task \in 0..0
    <3> SUFFICES ASSUME NEW t \in Callers
                 PROVE  ~Locks(t) /\ ~Waits(t) /\ call[t].task \in 0..0
      OBVIOUS
    <3>1. call[t].at = "idle" /\ call[t].task = 0
      BY <1>1
    <3> QED
      BY <3>1 DEF Locks, Waits, Prompts
  <2> QED
    BY <1>1, <2>1, <2>2 DEF CallsInv, Tasks
<1>5. SendInv
  <2>1. \A t \in Callers : sent[t] = 0 /\ call[t].at = "idle" /\ call[t].kind = "none"
                              /\ call[t].task = 0
    BY <1>1 DEF LoginInit
  <2> QED
    BY <2>1 DEF SendInv, Waits, None
<1>6. \A i \in Tasks : ~Works(i)
  BY <1>2 DEF Works, Exclusive
<1>7. InOrderOfLogin /\ WorkIsReady
  BY <1>1, <1>2, <1>6 DEF InOrderOfLogin, WorkIsReady, Waits
<1>8. StateInv /\ ClientInv
  BY DEF LoginInit, StateInv, ClientInv, None, Tasks
<1> QED
  BY <1>3, <1>4, <1>5, <1>7, <1>8 DEF LoginInv, CalmLogin

-----------------------------------------------------------------------------
(* A step of the event loop.                                               *)

\* What every such step leaves alone, and when a coroutine starts.
RunsOnly(i) ==
    /\ i \in Tasks /\ Live(i) /\ Placed(i) /\ i <= scheduled
    /\ \A j \in Tasks : j # i => task'[j] = task[j]
    /\ task'[i].kind = task[i].kind /\ task'[i].cancel = task[i].cancel
    /\ task'[i].at # "new" /\ Placed(i)'
    /\ task[i].at = "new" =>
         \/ \A j \in 1..(i - 1) : Live(j) => ~task[j].cancel
         \/ task[i].cancel /\ task'[i].at = "done"
    /\ UNCHANGED <<holder, call, scheduled, late>>

LEMMA MoveIs ==
  ASSUME LoginTypes, NEW i \in Tasks, NEW place \in Places, Move(i, place)
  PROVE  /\ task' \in [Tasks -> Coroutines]
         /\ \A j \in Tasks : j # i => task'[j] = task[j]
         /\ task'[i].at = place
         /\ task'[i].kind = task[i].kind /\ task'[i].cancel = task[i].cancel
         /\ task'[i].uses = task[i].uses /\ task'[i].result = task[i].result
  BY DEF Move, LoginTypes, Coroutines

LEMMA FinishIs ==
  ASSUME LoginTypes, NEW i \in Tasks, NEW result \in Results, Finish(i, result)
  PROVE  /\ task' \in [Tasks -> Coroutines]
         /\ \A j \in Tasks : j # i => task'[j] = task[j]
         /\ task'[i].at = "done" /\ task'[i].result = result
         /\ task'[i].kind = task[i].kind /\ task'[i].cancel = task[i].cancel
<1>1. PICK f1 : f1 = [task EXCEPT ![i].at = "done"]
  OBVIOUS
<1>2. PICK f2 : f2 = [f1 EXCEPT ![i].result = result]
  OBVIOUS
<1>3. task' = [f2 EXCEPT ![i].uses = None]
  BY <1>1, <1>2 DEF Finish
<1>4. /\ f1 \in [Tasks -> Coroutines] /\ \A j \in Tasks : j # i => f1[j] = task[j]
      /\ f1[i].at = "done" /\ f1[i].kind = task[i].kind /\ f1[i].cancel = task[i].cancel
  BY <1>1 DEF LoginTypes, Coroutines, Places
<1>5. /\ f2 \in [Tasks -> Coroutines] /\ \A j \in Tasks : j # i => f2[j] = task[j]
      /\ f2[i].at = "done" /\ f2[i].kind = task[i].kind /\ f2[i].cancel = task[i].cancel
      /\ f2[i].result = result
  BY <1>2, <1>4 DEF Coroutines
<1> QED
  BY <1>3, <1>5 DEF Coroutines

\* A coroutine that is not done has been scheduled and is of some kind.
LEMMA LiveIsPlaced ==
  ASSUME CallsInv, LoginTypes, NEW i \in Tasks, Live(i)
  PROVE  i <= scheduled /\ Placed(i)
<1>1. i <= scheduled
  <2>1. NoCoroutine.at = "none"
    BY DEF NoCoroutine
  <2> QED
    BY <2>1 DEF CallsInv, Live, LoginTypes, Tasks
<1> QED
  BY <1>1 DEF CallsInv, LoginTypes, Tasks

LEMMA StartRuns ==
  ASSUME LoginTypes, CallsInv, NEW i \in Tasks, Start(i)
  PROVE  LoginTypes' /\ RunsOnly(i)
<1>1. task[i].at = "new" /\ \A j \in 1..(i - 1) : Live(j) => ~task[j].cancel
  BY DEF Start
<1>2. Live(i) /\ i <= scheduled /\ Placed(i)
  BY <1>1, LiveIsPlaced DEF Live
<1>3. UNCHANGED <<session, holder, call, scheduled, late, sent>>
  BY DEF Start
<1>4. CASE task[i].kind = "begin"
  <2>1. Move(i, "connect")
    BY <1>4 DEF Start
  <2> QED
    BY <1>1, <1>2, <1>3, <1>4, <2>1, MoveIs DEF LoginTypes, RunsOnly, Placed, session, CoroutineKinds, Exclusive, Places, Results
<1>5. CASE task[i].kind # "begin" /\ client # None
  <2>1. PICK place \in {"sign_in", "closing", "resolve"} :
          /\ task' = [task EXCEPT ![i].uses = client, ![i].at = place]
          /\ task[i].kind \in {"code", "password"} => place = "sign_in"
          /\ task[i].kind = "disconnect" => place = "closing"
          /\ task[i].kind \in {"read", "send"} => place = "resolve"
    BY <1>5 DEF Start
  <2>2. /\ task' \in [Tasks -> Coroutines]
        /\ \A j \in Tasks : j # i => task'[j] = task[j]
        /\ task'[i].at = place
        /\ task'[i].kind = task[i].kind /\ task'[i].cancel = task[i].cancel
    <3>1. PICK f : f = [task EXCEPT ![i].uses = client]
      OBVIOUS
    <3>2. /\ f \in [Tasks -> Coroutines] /\ \A j \in Tasks : j # i => f[j] = task[j]
          /\ f[i].kind = task[i].kind /\ f[i].cancel = task[i].cancel
      BY <3>1 DEF LoginTypes, Coroutines
    <3>3. task' = [f EXCEPT ![i].at = place] /\ place \in Places
      BY <2>1, <3>1 DEF Places
    <3> QED
      BY <3>2, <3>3 DEF Coroutines
  <2> QED
    BY <1>1, <1>2, <1>3, <1>5, <2>1, <2>2 DEF LoginTypes, RunsOnly, Placed, session, CoroutineKinds, Exclusive, Places, Results
<1>6. CASE task[i].kind # "begin" /\ client = None
  <2>1. \E result \in {"closed", "error"} : Finish(i, result)
    BY <1>6 DEF Start
  <2> QED
    BY <1>1, <1>2, <1>3, <2>1, FinishIs DEF LoginTypes, RunsOnly, Placed, session, CoroutineKinds, Exclusive, Places, Results
<1> QED
  BY <1>4, <1>5, <1>6

LEMMA LoopRuns ==
  ASSUME LoginTypes, CallsInv, NEW i \in Tasks,
         Start(i) \/ BeginLogin(i) \/ SignIn(i) \/ GetMe(i) \/ Close(i) \/ Request(i)
           \/ AwaitFails(i)
  PROVE  LoginTypes' /\ RunsOnly(i)
<1>1. CASE Start(i)
  BY <1>1, StartRuns
<1>2. CASE BeginLogin(i)
  <2>1. /\ task[i].at \in {"connect", "is_user_authorized", "send_code_request"}
        /\ client' \in {client, i} /\ open' \subseteq Tasks
        /\ connected' \in BOOLEAN /\ loginState' \in LoginStates
        /\ UNCHANGED <<account, holder, call, scheduled, late, sent>>
        /\ \/ \E place \in {"is_user_authorized", "get_me", "send_code_request"} : Move(i, place)
           \/ Finish(i, "await_code")
    BY <1>2 DEF BeginLogin, LoginSucceeds, LoginTypes, LoginStates
  <2>2. Live(i) /\ i <= scheduled /\ Placed(i)
    BY <2>1, LiveIsPlaced DEF Live
  <2>3. task[i].kind = "begin"
    BY <2>1, <2>2 DEF Placed, CoroutineKinds, Exclusive
  <2> QED
    BY <2>1, <2>2, <2>3, MoveIs, FinishIs DEF LoginTypes, RunsOnly, Placed, CoroutineKinds, Exclusive, Places, Results
<1>3. CASE SignIn(i)
  <2>1. /\ task[i].at = "sign_in"
        /\ connected' \in BOOLEAN /\ loginState' \in LoginStates
        /\ account' \in [authorized : BOOLEAN, twoFactor : BOOLEAN]
        /\ UNCHANGED <<client, open, holder, call, scheduled, late, sent>>
        /\ Move(i, "get_me") \/ Finish(i, "await_2fa")
    BY <1>3 DEF SignIn, LoginSucceeds, LoginTypes, LoginStates
  <2>2. Live(i) /\ i <= scheduled /\ Placed(i)
    BY <2>1, LiveIsPlaced DEF Live
  <2>3. task[i].kind \in {"code", "password"}
    BY <2>1, <2>2 DEF Placed, CoroutineKinds, Exclusive
  <2> QED
    BY <2>1, <2>2, <2>3, MoveIs, FinishIs DEF LoginTypes, RunsOnly, Placed, CoroutineKinds, Exclusive, Places, Results
<1>4. CASE GetMe(i) \/ Close(i) \/ Request(i) \/ AwaitFails(i)
  <2>1. /\ task[i].at # "new" \/ task[i].cancel
        /\ Live(i)
        /\ client' \in {client, None} /\ open' \subseteq open
        /\ connected' \in BOOLEAN
        /\ UNCHANGED <<loginState, account, holder, call, scheduled, late>>
        /\ sent' \in [Callers -> Nat]
        /\ \/ \E result \in Results : Finish(i, result)
           \/ task[i].at = "resolve" /\ Move(i, "request")
    <3>1. CASE GetMe(i)
      <4>1. PICK result \in Results :
              result = IF client = None THEN "error" ELSE "connected"
        BY DEF Results
      <4>2. Finish(i, result)
        BY <3>1, <4>1 DEF GetMe
      <4> QED
        BY <3>1, <4>2 DEF GetMe, session, Live, LoginTypes
    <3>2. CASE Close(i)
      <4>1. PICK result \in Results : Finish(i, result)
        <5>1. PICK failed \in BOOLEAN : Finish(i, IF failed THEN "error" ELSE "closed")
          BY <3>2 DEF Close
        <5>2. PICK result \in Results : result = IF failed THEN "error" ELSE "closed"
          BY DEF Results
        <5> QED
          BY <5>1, <5>2
      <4> QED
        BY <3>2, <4>1 DEF Close, Live, LoginTypes
    <3>3. CASE Request(i)
      <4>1. /\ task[i].at \in {"resolve", "request"} /\ sent' \in [Callers -> Nat]
            /\ UNCHANGED <<client, open, connected, loginState, account, holder, call,
                           scheduled, late>>
        BY <3>3 DEF Request, session, LoginTypes
      <4>2. \/ Finish(i, "error") \/ Finish(i, "answered")
            \/ task[i].at = "resolve" /\ Move(i, "request")
        BY <3>3 DEF Request
      <4>3. "error" \in Results /\ "answered" \in Results
        BY DEF Results
      <4> QED
        BY <4>1, <4>2, <4>3 DEF Live, LoginTypes
    <3>4. CASE AwaitFails(i)
      <4>1. /\ Live(i)
            /\ task[i].at # "new" \/ task[i].cancel
            /\ UNCHANGED <<client, open, connected, loginState, account, holder, call,
                           scheduled, late>>
            /\ Finish(i, "error")
        BY <3>4 DEF AwaitFails, session
      <4>2. sent' \in [Callers -> Nat]
        BY <3>4 DEF AwaitFails, LoginTypes
      <4>3. "error" \in Results
        BY DEF Results
      <4> QED
        BY <4>1, <4>2, <4>3 DEF LoginTypes
    <3> QED
      BY <1>4, <3>1, <3>2, <3>3, <3>4
  <2>2. i <= scheduled /\ Placed(i)
    BY <2>1, LiveIsPlaced
  <2> QED
    BY <2>1, <2>2, MoveIs, FinishIs DEF LoginTypes, RunsOnly, Placed, CoroutineKinds, Exclusive, Places, Results
<1> QED
  BY <1>1, <1>2, <1>3, <1>4

-----------------------------------------------------------------------------
(* What a step of the loop means for the callers and for the order.        *)

\* A caller's task is a coroutine that was scheduled.
LEMMA WaitedFor ==
  ASSUME LoginTypes, CallsInv, NEW t \in Callers, Waits(t)
  PROVE  /\ call[t].task \in Tasks /\ call[t].task <= scheduled
         /\ Placed(call[t].task)
         /\ Serves(task[call[t].task].kind, call[t].kind)
<1>1. call[t].task \in 0..scheduled /\ call[t].task # None
  BY DEF CallsInv
<1>2. scheduled \in 0..MaxTasks /\ MaxTasks \in Nat
  BY LoginAssumption DEF LoginTypes
<1>3. call[t].task \in Tasks /\ call[t].task <= scheduled
  BY <1>1, <1>2 DEF Tasks, None
<1> QED
  BY <1>2, <1>3 DEF CallsInv, Tasks

LEMMA LoopCalls ==
  ASSUME LoginTypes, LoginTypes', CallsInv, NEW i \in Tasks, RunsOnly(i)
  PROVE  CallsInv'
<1>1. /\ call' = call /\ holder' = holder /\ scheduled' = scheduled
      /\ task'[i].kind = task[i].kind /\ i <= scheduled /\ Placed(i)'
      /\ \A j \in Tasks : j # i => task'[j] = task[j]
  BY DEF RunsOnly
<1>2. \A j \in Tasks : IF j > scheduled' THEN task'[j] = NoCoroutine ELSE Placed(j)'
  <2> SUFFICES ASSUME NEW j \in Tasks
               PROVE  IF j > scheduled' THEN task'[j] = NoCoroutine ELSE Placed(j)'
    OBVIOUS
  <2>1. CASE j = i
    BY <1>1, <2>1 DEF LoginTypes, Tasks
  <2>2. CASE j # i
    BY <1>1, <2>2 DEF CallsInv, Placed
  <2> QED
    BY <2>1, <2>2
<1>3. \A t \in Callers : (t \in holder' <=> Locks(t)') /\ (Waits(t)' <=> Waits(t))
  BY <1>1 DEF CallsInv, Locks, Waits
<1>4. ASSUME NEW t \in Callers, Waits(t)
      PROVE  call'[t].task # None /\ Serves(task'[call'[t].task].kind, call'[t].kind)
  <2>1. call[t].task \in Tasks /\ Serves(task[call[t].task].kind, call[t].kind)
    BY <1>4, WaitedFor
  <2>2. task'[call[t].task].kind = task[call[t].task].kind
    BY <1>1, <2>1
  <2> QED
    BY <1>1, <1>4, <2>1, <2>2 DEF CallsInv
<1> QED
  BY <1>1, <1>2, <1>3, <1>4 DEF CallsInv

\* What only calls and coroutines, and nothing that was sent, says of sends.
LEMMA LoopSends ==
  ASSUME LoginTypes, CallsInv, SendInv, NEW i \in Tasks, RunsOnly(i),
         \/ sent' = sent
         \/ /\ task'[i].at = "done"
            /\ sent' = [t \in Callers |->
                          IF task[i].kind = "send" /\ call[t].task = i THEN sent[t] + 1 ELSE sent[t]]
  PROVE  SendInv'
<1>1. /\ call' = call /\ Live(i)
      /\ task'[i].kind = task[i].kind
      /\ \A j \in Tasks : j # i => task'[j] = task[j]
  BY DEF RunsOnly
<1> SUFFICES ASSUME NEW t \in Callers
             PROVE  /\ sent'[t] <= 1
                    /\ call[t].kind = "send" /\ call[t].at = "entry" => sent'[t] = 0
                    /\ call[t].kind = "send" /\ Waits(t) /\ Live(call[t].task)' => sent'[t] = 0
                    /\ call[t].task # None /\ task'[call[t].task].kind = "send" =>
                         Waits(t) /\ call[t].kind = "send"
  BY <1>1 DEF SendInv, Waits
<1>2. call[t].task # None => call[t].task \in Tasks
  BY DEF LoginTypes, CallRecords
<1>3. call[t].task # None => task'[call[t].task].kind = task[call[t].task].kind
  BY <1>1, <1>2
<1>4. CASE sent'[t] = sent[t]
  <2>1. Waits(t) => call[t].task # None
    BY DEF CallsInv
  <2>2. Waits(t) /\ Live(call[t].task)' => Live(call[t].task)
    BY <1>1, <1>2, <2>1 DEF Live
  <2> QED
    BY <1>3, <1>4, <2>2 DEF SendInv
<1>5. CASE sent'[t] # sent[t]
  <2>1. task[i].kind = "send" /\ call[t].task = i /\ sent'[t] = sent[t] + 1
          /\ task'[i].at = "done"
    BY <1>5
  <2>2. Waits(t) /\ call[t].kind = "send" /\ sent[t] = 0
    BY <1>1, <2>1 DEF SendInv, Tasks, None
  <2> QED
    BY <1>1, <2>1, <2>2 DEF Live, Waits
<1> QED
  BY <1>4, <1>5

\* A coroutine of the login that goes on, and not only to be cancelled, is
\* the first; who waits for one
\* waits for one that is not done.
LEMMA OthersFollow ==
  ASSUME LoginTypes, CallsInv, InOrderOfLogin, NEW i \in Tasks, RunsOnly(i), Works(i),
         ~task[i].cancel \/ task[i].at # "new"
  PROVE  /\ \A j \in Tasks : Works(j) /\ j # i =>
              /\ task[i].cancel /\ task[j].at = "new"
              /\ Rank(task[i].kind) <= Rank(task[j].kind)
         /\ \A t \in Callers : Waits(t) /\ call[t].kind \in LockKinds =>
              task[call[t].task].at # "done"
<1>1. \A t \in Callers : Waits(t) /\ call[t].kind \in LockKinds => task[call[t].task].at # "done"
  BY DEF InOrderOfLogin, NoneWorks
<1>2. ASSUME NEW j \in Tasks, Works(j), j # i
      PROVE  /\ task[i].cancel /\ task[j].at = "new"
             /\ Rank(task[i].kind) <= Rank(task[j].kind)
  <2>1. i < j \/ j < i
    BY <1>2 DEF Tasks
  <2>2. CASE i < j
    BY <1>2, <2>2 DEF InOrderOfLogin
  <2>3. CASE j < i
    <3>1. task[j].cancel /\ task[i].at = "new" /\ Rank(task[j].kind) <= Rank(task[i].kind)
      BY <1>2, <2>3 DEF InOrderOfLogin
    <3>2. j \in 1..(i - 1) /\ Live(j)
      BY <1>2, <2>3 DEF Tasks, Works
    <3>3. task[i].cancel
      BY <3>1, <3>2 DEF RunsOnly
    <3> QED
      BY <3>1, <3>3
  <2> QED
    BY <2>1, <2>2, <2>3
<1> QED
  BY <1>1, <1>2

LEMMA LoopOrder ==
  ASSUME LoginTypes, CallsInv, InOrderOfLogin, NEW i \in Tasks, RunsOnly(i)
  PROVE  InOrderOfLogin'
<1>1. /\ call' = call /\ Live(i)
      /\ task'[i].kind = task[i].kind /\ task'[i].cancel = task[i].cancel
      /\ task'[i].at # "new"
      /\ \A j \in Tasks : j # i => task'[j] = task[j]
  BY DEF RunsOnly
<1>2. \A j \in Tasks : task'[j].kind = task[j].kind /\ task'[j].cancel = task[j].cancel
  BY <1>1
<1>w. ASSUME NEW j \in Tasks, Works(j)' PROVE Works(j)
  <2>1. CASE j = i
    BY <1>1, <1>w, <2>1 DEF Works
  <2>2. CASE j # i
    BY <1>1, <1>w, <2>2 DEF Works, Live
  <2> QED
    BY <2>1, <2>2
<1>3. \A j \in Tasks : Works(j)' /\ ~task'[j].cancel =>
        \E t \in Callers : Waits(t)' /\ call'[t].task = j
  BY <1>1, <1>2, <1>w DEF InOrderOfLogin, Waits
<1>4. ASSUME NEW j \in Tasks, NEW k \in Tasks, j < k, Works(j)', Works(k)'
      PROVE  /\ task'[j].cancel /\ task'[k].at = "new"
             /\ Rank(task'[j].kind) <= Rank(task'[k].kind)
  <2>1. Works(j) /\ Works(k)
    BY <1>w, <1>4
  <2>2. task[j].cancel /\ task[k].at = "new" /\ Rank(task[j].kind) <= Rank(task[k].kind)
    BY <1>4, <2>1 DEF InOrderOfLogin
  <2>3. k # i
    <3> SUFFICES ASSUME k = i PROVE FALSE
      OBVIOUS
    <3>1. ~(\A l \in 1..(k - 1) : Live(l) => ~task[l].cancel)
      BY <1>4, <2>1, <2>2 DEF Works, Tasks
    <3>3. task'[i].at = "done"
      BY <2>2, <3>1 DEF RunsOnly
    <3> QED
      BY <1>4, <3>3 DEF Works, Live
  <2> QED
    BY <1>1, <1>2, <2>2, <2>3
<1>5. \A j \in Tasks : task'[j].kind = "disconnect" => ~task'[j].cancel
  BY <1>2 DEF InOrderOfLogin
<1>6. ASSUME NEW t \in Callers, Waits(t)', call'[t].kind \in LockKinds
      PROVE  /\ ~task'[call'[t].task].cancel
             /\ task'[call'[t].task].at = "done" => NoneWorks'
  <2>1. Waits(t) /\ call[t].kind \in LockKinds /\ call[t].task \in Tasks
          /\ task[call[t].task].kind \in Exclusive
    <3>1. Waits(t) /\ call[t].kind \in LockKinds
      BY <1>1, <1>6 DEF Waits
    <3>2. call[t].task \in Tasks /\ Serves(task[call[t].task].kind, call[t].kind)
            /\ Placed(call[t].task)
      BY <3>1, WaitedFor
    <3> QED
      BY <3>1, <3>2 DEF Serves, LockKinds, Exclusive, Placed, CoroutineKinds
  <2>2. ~task[call[t].task].cancel /\ ~task'[call[t].task].cancel
    BY <1>2, <2>1 DEF InOrderOfLogin
  <2>3. ASSUME task'[call[t].task].at = "done" PROVE NoneWorks'
    <3>1. CASE call[t].task # i
      <4>1. task[call[t].task].at = "done"
        BY <1>1, <2>1, <2>3, <3>1
      <4>2. NoneWorks
        BY <2>1, <4>1 DEF InOrderOfLogin
      <4> QED
        BY <1>w, <4>2 DEF NoneWorks
    <3>2. CASE call[t].task = i
      <4>1. Works(i)
        BY <1>1, <2>1, <3>2 DEF Works
      <4>2. \A j \in Tasks : j # i => ~Works(j)
        BY <4>1, <2>2, <3>2, OthersFollow
      <4> QED
        <5>1. ASSUME NEW j \in Tasks, Works(j)' PROVE FALSE
          <6>1. j = i
            BY <1>w, <4>2, <5>1
          <6> QED
            BY <2>3, <3>2, <5>1, <6>1 DEF Works, Live
        <5> QED
          BY <5>1 DEF NoneWorks
    <3> QED
      BY <3>1, <3>2
  <2> QED
    BY <1>1, <2>2, <2>3
<1> QED
  BY <1>3, <1>4, <1>5, <1>6 DEF InOrderOfLogin

-----------------------------------------------------------------------------
(* What a step of the loop means for the account.                          *)

LEMMA StillWorks ==
  ASSUME NEW i \in Tasks, RunsOnly(i), NEW j \in Tasks, Works(j)'
  PROVE  Works(j) /\ task'[j].kind = task[j].kind /\ (j # i => task'[j] = task[j])
<1>1. /\ Live(i) /\ task'[i].kind = task[i].kind
      /\ \A k \in Tasks : k # i => task'[k] = task[k]
  BY DEF RunsOnly
<1>2. CASE j = i
  BY <1>1, <1>2 DEF Works
<1>3. CASE j # i
  BY <1>1, <1>3 DEF Works, Live
<1> QED
  BY <1>2, <1>3

\* Whoever finds the login's coroutine done has waited for this one.
LEMMA OnlyThisEnds ==
  ASSUME LoginTypes, CallsInv, InOrderOfLogin, NEW i \in Tasks, RunsOnly(i), Works(i),
         NEW t \in Callers, Waits(t)', call'[t].kind \in LockKinds,
         task'[call'[t].task].at = "done"
  PROVE  call[t].task = i /\ Waits(t) /\ call' = call /\ Serves(task[i].kind, call[t].kind)
<1>1. call' = call /\ \A j \in Tasks : j # i => task'[j] = task[j]
  BY DEF RunsOnly
<1>2. Waits(t) /\ call[t].kind \in LockKinds
  BY <1>1 DEF Waits
<1>3. call[t].task \in Tasks /\ Serves(task[call[t].task].kind, call[t].kind)
  BY <1>2, WaitedFor
<1>4. task[call[t].task].at # "done"
  <2>1. ~NoneWorks
    BY DEF NoneWorks
  <2> QED
    BY <1>2, <2>1 DEF InOrderOfLogin
<1> QED
  BY <1>1, <1>2, <1>3, <1>4

(***************************************************************************)
(* A step that leaves the account as it is: the coroutine may go on there  *)
(* where it goes, and does not end well unless the client is its own.      *)
(***************************************************************************)
EndsQuietly(i) ==
    /\ task'[i].result \notin {"await_code", "await_2fa"}
    /\ task[i].kind = "disconnect" => ~connected /\ client = None
    /\ task[i].kind = "begin" /\ task'[i].result # "error" /\ ~task[i].cancel =>
         client = i /\ loginState # "disconnected"

LEMMA QuietStep ==
  ASSUME LoginTypes, LoginTypes', CallsInv, CalmLogin, NEW i \in Tasks, RunsOnly(i),
         UNCHANGED session, Works(i)' => Going(i)',
         task'[i].at = "done" => EndsQuietly(i)
  PROVE  WorkIsReady' /\ StateInv' /\ ClientInv'
<1>1. /\ UNCHANGED <<connected, loginState, client, open, account, call>> /\ Live(i)
      /\ task'[i].kind = task[i].kind /\ task'[i].cancel = task[i].cancel
      /\ \A j \in Tasks : j # i => task'[j] = task[j]
  BY DEF RunsOnly, session
<1>2. ASSUME NEW j \in Tasks, Works(j)'
      PROVE  /\ Works(j) /\ Ready(task[j].kind)' /\ Going(j)'
             /\ Rank(task'[j].kind) = Rank(task[j].kind)
  <2>1. Works(j) /\ task'[j].kind = task[j].kind /\ (j # i => task'[j] = task[j])
    BY <1>2, StillWorks
  <2>2. Ready(task[j].kind) /\ Going(j)
    BY <2>1 DEF CalmLogin, WorkIsReady
  <2>3. Ready(task[j].kind)'
    BY <1>1, <2>1, <2>2 DEF Ready, ReadyForCode, ReadyForPassword
  <2>4. Going(j)'
    BY <1>1, <1>2, <2>1, <2>2 DEF Going
  <2> QED
    BY <2>1, <2>3, <2>4
<1>3. ASSUME NEW t \in Callers, Waits(t)'
      PROVE  /\ Waits(t) /\ call[t].task \in Tasks
             /\ call[t].task # i => task'[call[t].task] = task[call[t].task]
  <2>1. Waits(t)
    BY <1>1, <1>3 DEF Waits
  <2> QED
    BY <1>1, <2>1, WaitedFor
<1>4. WorkIsReady'
  <2>1. ASSUME NEW t \in Callers, call'[t].at = "prompt code"
        PROVE  ReadyForCode' /\ \A j \in Tasks : Works(j)' => Rank(task'[j].kind) <= 1
    BY <1>1, <1>2, <2>1 DEF CalmLogin, WorkIsReady, ReadyForCode
  <2>2. ASSUME NEW t \in Callers, call'[t].at = "prompt password"
        PROVE  ReadyForPassword' /\ \A j \in Tasks : Works(j)' => Rank(task'[j].kind) <= 2
    BY <1>1, <1>2, <2>2 DEF CalmLogin, WorkIsReady, ReadyForPassword
  <2>3. ASSUME NEW t \in Callers, Waits(t)', call'[t].kind = "cli",
               task'[call'[t].task].at = "done"
        PROVE  /\ task'[call'[t].task].result = "await_code" => ReadyForCode'
               /\ task'[call'[t].task].result = "await_2fa" => ReadyForPassword'
    <3>1. CASE call[t].task = i
      BY <1>1, <2>3, <3>1 DEF EndsQuietly
    <3>2. CASE call[t].task # i
      BY <1>1, <1>3, <2>3, <3>2 DEF CalmLogin, WorkIsReady, ReadyForCode, ReadyForPassword
    <3> QED
      BY <3>1, <3>2
  <2> QED
    BY <1>2, <2>1, <2>2, <2>3 DEF WorkIsReady
<1>5. StateInv'
  <2>1. /\ connected => account.authorized /\ client # None /\ loginState = "connected"
        /\ account.authorized => loginState \in {"disconnected", "connected"}
        /\ client # None => client \in open
    BY DEF CalmLogin, StateInv
  <2>2. ~connected /\ loginState = "connected" => \E t \in Callers : WaitsToLeave(t)'
    BY <1>1 DEF CalmLogin, StateInv, WaitsToLeave, Waits
  <2>3. ASSUME NEW t \in Callers, WaitsToLeave(t)', task'[call'[t].task].at = "done"
        PROVE  ~connected /\ client = None
    <3>1. WaitsToLeave(t) /\ Waits(t)' /\ Waits(t)
      BY <1>1, <2>3 DEF WaitsToLeave, Waits
    <3>2. CASE call[t].task = i
      <4>1. task[i].kind = "disconnect"
        BY <3>1, <3>2, WaitedFor DEF WaitsToLeave, Serves
      <4> QED
        BY <1>1, <2>3, <3>2, <4>1 DEF EndsQuietly
    <3>3. CASE call[t].task # i
      BY <1>1, <1>3, <2>3, <3>1, <3>3 DEF CalmLogin, StateInv
    <3> QED
      BY <3>2, <3>3
  <2>4. \A c \in open : task'[c].kind = "begin"
    BY <1>1 DEF CalmLogin, StateInv, LoginTypes
  <2> QED
    BY <1>1, <2>1, <2>2, <2>3, <2>4 DEF StateInv
<1>6. ClientInv'
  <2>1. ASSUME NEW c \in open, Good(c)'
        PROVE  c = client /\ loginState # "disconnected"
                 /\ \A j \in Tasks : Works(j)' => task'[j].kind # "begin"
    <3>1. c \in Tasks /\ task[c].kind = "begin"
      BY DEF CalmLogin, StateInv, LoginTypes
    <3>2. CASE c # i
      <4>1. Good(c)
        BY <1>1, <2>1, <3>1, <3>2 DEF Good, Live
      <4>2. c = client /\ client # None
        BY <3>1, <4>1 DEF CalmLogin, ClientInv, Tasks, None
      <4>3. loginState # "disconnected" /\ \A j \in Tasks : Works(j) => task[j].kind # "begin"
        BY <4>1, <4>2 DEF CalmLogin, ClientInv
      <4> QED
        BY <4>2, <4>3, StillWorks
    <3>3. CASE c = i
      <4>1. task'[i].at = "done" /\ task'[i].result # "error" /\ ~task[i].cancel
        <5>1. task'[i].at # "none"
          BY <1>1, <3>1, <3>3 DEF RunsOnly, Placed
        <5> QED
          BY <1>1, <2>1, <3>3, <5>1 DEF Good, Live
      <4>2. client = i /\ loginState # "disconnected"
        BY <3>1, <3>3, <4>1 DEF EndsQuietly
      <4>3. ASSUME NEW j \in Tasks, Works(j)', task'[j].kind = "begin" PROVE FALSE
        <5>1. Works(i)
          BY <1>1, <3>1, <3>3 DEF Works, Exclusive
        <5>2. j # i
          BY <4>1, <4>3 DEF Works, Live
        <5>3. Works(j)
          BY <4>3, StillWorks
        <5> QED
          BY <4>1, <5>1, <5>2, <5>3, OthersFollow DEF CalmLogin
      <4> QED
        BY <3>3, <4>2, <4>3
    <3> QED
      BY <3>2, <3>3
  <2>2. client # None => client \in open
    BY DEF CalmLogin, StateInv
  <2> QED
    BY <1>1, <2>1, <2>2 DEF ClientInv
<1> QED
  BY <1>4, <1>5, <1>6

(***************************************************************************)
(* A step that changes the account: what remains to be shown of it.        *)
(***************************************************************************)
LEMMA StepIsReady ==
  ASSUME LoginTypes, LoginTypes', CallsInv, CalmLogin, NEW i \in Tasks, RunsOnly(i), Works(i),
         task[i].at # "new", open' \subseteq open \cup {i},
         \A j \in Tasks : Works(j)' => Ready(task[j].kind)',
         Works(i)' => Going(i)',
         \A t \in Callers : call[t].at = "prompt code" => ReadyForCode',
         \A t \in Callers : call[t].at = "prompt password" => ReadyForPassword',
         task'[i].at = "done" /\ task'[i].result = "await_code" => ReadyForCode',
         task'[i].at = "done" /\ task'[i].result = "await_2fa" => ReadyForPassword'
  PROVE  WorkIsReady'
<1>1. call' = call /\ task'[i].kind = task[i].kind
  BY DEF RunsOnly
<1>2. ASSUME NEW j \in Tasks, Works(j)'
      PROVE  /\ Works(j) /\ Ready(task[j].kind)' /\ Going(j)' /\ task'[j].kind = task[j].kind
  <2>1. Works(j) /\ task'[j].kind = task[j].kind /\ (j # i => task'[j] = task[j])
    BY <1>2, StillWorks
  <2>2. Ready(task[j].kind)'
    BY <1>2
  <2>3. CASE j # i
    <3>1. task[j].at = "new" /\ task'[j] = task[j]
      BY <2>1, <2>3, OthersFollow DEF CalmLogin
    <3>2. task[j].kind = "begin" => j \notin open
      BY <2>1, <3>1 DEF CalmLogin, WorkIsReady, Going
    <3> QED
      BY <2>1, <2>2, <2>3, <3>1, <3>2 DEF Going
  <2>4. CASE j = i
    BY <1>2, <2>1, <2>2, <2>4
  <2> QED
    BY <2>3, <2>4
<1>3. \A t \in Callers : call'[t].at = "prompt code" =>
        ReadyForCode' /\ \A j \in Tasks : Works(j)' => Rank(task'[j].kind) <= 1
  BY <1>1, <1>2 DEF CalmLogin, WorkIsReady
<1>4. \A t \in Callers : call'[t].at = "prompt password" =>
        ReadyForPassword' /\ \A j \in Tasks : Works(j)' => Rank(task'[j].kind) <= 2
  BY <1>1, <1>2 DEF CalmLogin, WorkIsReady
<1>5. ASSUME NEW t \in Callers, Waits(t)', call'[t].kind = "cli", task'[call'[t].task].at = "done"
      PROVE  /\ task'[call'[t].task].result = "await_code" => ReadyForCode'
             /\ task'[call'[t].task].result = "await_2fa" => ReadyForPassword'
  <2>1. call'[t].task = i
    BY <1>1, <1>5, OnlyThisEnds DEF CalmLogin, LockKinds
  <2> QED
    BY <1>5, <2>1
<1>6. \A j \in Tasks : Works(j)' => Ready(task[j].kind)' /\ Going(j)'
  BY <1>2
<1> QED
  BY <1>3, <1>4, <1>5, <1>6 DEF WorkIsReady

LEMMA NobodyLeaves ==
  ASSUME LoginTypes, CallsInv, InOrderOfLogin, NEW i \in Tasks, RunsOnly(i), Works(i),
         task[i].kind # "disconnect",
         NEW t \in Callers, WaitsToLeave(t)'
  PROVE  task'[call'[t].task].at # "done"
<1> SUFFICES ASSUME task'[call'[t].task].at = "done" PROVE FALSE
  OBVIOUS
<1>1. Waits(t)' /\ call'[t].kind = "disconnect"
  BY DEF WaitsToLeave
<1>2. call[t].task = i /\ call' = call /\ Serves(task[i].kind, call[t].kind)
  BY <1>1, OnlyThisEnds DEF LockKinds
<1> QED
  BY <1>1, <1>2 DEF Serves

\* A disconnect takes the connection while others have their turn to come.
LEMMA BrieflyConnected ==
  ASSUME LoginTypes, CallsInv, CalmLogin, ~connected, loginState = "connected"
  PROVE  NoneWorks
<1>1. PICK t \in Callers : WaitsToLeave(t)
  BY DEF CalmLogin, StateInv
<1>2. /\ Waits(t) /\ call[t].kind = "disconnect" /\ call[t].task \in Tasks
      /\ task[call[t].task].kind = "disconnect" /\ Placed(call[t].task)
  BY <1>1, WaitedFor DEF WaitsToLeave, Serves
<1>3. CASE task[call[t].task].at = "done"
  BY <1>2, <1>3 DEF CalmLogin, InOrderOfLogin, LockKinds
<1>4. CASE task[call[t].task].at # "done"
  <2>1. Works(call[t].task)
    BY <1>2, <1>4 DEF Works, Live, Placed, Exclusive
  <2>2. Ready("disconnect")
    BY <1>2, <2>1 DEF CalmLogin, WorkIsReady
  <2> QED
    BY <2>2 DEF Ready
<1> QED
  BY <1>3, <1>4

\* When no client has come or gone, and the login is of another coroutine.
LEMMA SameClient ==
  ASSUME LoginTypes, LoginTypes', CallsInv, CalmLogin, NEW i \in Tasks, RunsOnly(i),
         task[i].kind # "begin" \/ task'[i].at # "done", 
         UNCHANGED <<client, open>>, loginState' # "disconnected"
  PROVE  ClientInv'
<1>1. /\ \A j \in Tasks : j # i => task'[j] = task[j]
      /\ task'[i].kind = task[i].kind /\ Placed(i)'
  BY DEF RunsOnly
<1>2. ASSUME NEW c \in open, Good(c)' PROVE Good(c)
  <2>1. c \in Tasks /\ task[c].kind = "begin"
    BY DEF CalmLogin, StateInv, LoginTypes
  <2>2. CASE c = i
    BY <1>1, <1>2, <2>1, <2>2 DEF Good, Live, Placed
  <2>3. CASE c # i
    BY <1>1, <1>2, <2>1, <2>3 DEF Good, Live
  <2> QED
    BY <2>2, <2>3
<1>3. ASSUME client # None, Good(client)'
      PROVE  \A j \in Tasks : Works(j)' => task'[j].kind # "begin"
  <2>1. Good(client) /\ client \in open
    BY <1>2, <1>3 DEF CalmLogin, StateInv
  <2>2. \A j \in Tasks : Works(j) => task[j].kind # "begin"
    BY <1>3, <2>1 DEF CalmLogin, ClientInv
  <2> QED
    BY <2>2, StillWorks
<1>4. \A c \in open \ {client} : ~Good(c)
  BY DEF CalmLogin, ClientInv
<1> QED
  BY <1>2, <1>3, <1>4 DEF ClientInv

\* _begin_login connects a client of its own.
LEMMA ConnectStep ==
  ASSUME LoginTypes, LoginTypes', CallsInv, CalmLogin, NEW i \in Tasks, RunsOnly(i),
         BeginLogin(i), task[i].at = "connect"
  PROVE  WorkIsReady' /\ StateInv' /\ ClientInv'
<1>1. /\ client' = i /\ open' = open \cup {i} /\ UNCHANGED <<connected, loginState, account>>
      /\ task'[i].at = "is_user_authorized"
      /\ \A j \in Tasks : j # i => task'[j] = task[j]
      /\ call' = call /\ task'[i].kind = task[i].kind
  <2>1. Move(i, "is_user_authorized") /\ "is_user_authorized" \in Places
    BY DEF BeginLogin, Places
  <2> QED
    BY <2>1, MoveIs DEF BeginLogin, RunsOnly
<1>2. task[i].kind = "begin" /\ Works(i) /\ i # None
  BY DEF RunsOnly, Placed, Works, CoroutineKinds, Exclusive, Tasks, None
<1>3. WorkIsReady'
  <2>1. \A j \in Tasks : Works(j)' => Ready(task[j].kind)'
    <3> SUFFICES ASSUME NEW j \in Tasks, Works(j)' PROVE Ready(task[j].kind)'
      OBVIOUS
    <3>1. Works(j) /\ task'[j].kind = task[j].kind
      BY StillWorks
    <3>2. Ready(task[j].kind)
      BY <3>1 DEF CalmLogin, WorkIsReady
    <3> QED
      BY <1>1, <3>1, <3>2 DEF Ready, ReadyForCode, ReadyForPassword
  <2>2. Going(i)'
    BY <1>1 DEF Going
  <2>3. /\ \A t \in Callers : call[t].at = "prompt code" => ReadyForCode'
        /\ \A t \in Callers : call[t].at = "prompt password" => ReadyForPassword'
    BY <1>1 DEF CalmLogin, WorkIsReady, ReadyForCode, ReadyForPassword
  <2> QED
    BY <1>1, <1>2, <2>1, <2>2, <2>3, StepIsReady
<1>4. StateInv'
  <2>1. \A t \in Callers : WaitsToLeave(t)' => task'[call'[t].task].at # "done"
    BY <1>2, NobodyLeaves DEF CalmLogin
  <2>2. \A c \in open' : task'[c].kind = "begin"
    BY <1>1, <1>2 DEF CalmLogin, StateInv, LoginTypes
  <2>3. /\ connected => account.authorized /\ loginState = "connected"
        /\ account.authorized => loginState \in {"disconnected", "connected"}
        /\ ~connected /\ loginState = "connected" => \E t \in Callers : WaitsToLeave(t)
    BY DEF CalmLogin, StateInv
  <2>4. \A t \in Callers : WaitsToLeave(t)' <=> WaitsToLeave(t)
    BY <1>1 DEF WaitsToLeave, Waits
  <2> QED
    BY <1>1, <1>2, <2>1, <2>2, <2>3, <2>4 DEF StateInv
<1>5. ClientInv'
  <2>1. ~Good(i)'
    BY <1>1 DEF Good, Live
  <2>2. ASSUME NEW c \in open, c # i, Good(c)' PROVE FALSE
    <3>1. Good(c) /\ c \in Tasks
      BY <1>1, <2>2 DEF Good, Live, LoginTypes
    <3>2. c = client /\ client # None
      BY <3>1 DEF CalmLogin, ClientInv, Tasks, None
    <3> QED
      BY <1>2, <3>1, <3>2 DEF CalmLogin, ClientInv
  <2> QED
    BY <1>1, <2>1, <2>2 DEF ClientInv
<1> QED
  BY <1>3, <1>4, <1>5

\* The session was authorized before: no code is needed.
LEMMA AuthorizedStep ==
  ASSUME LoginTypes, LoginTypes', CallsInv, CalmLogin, NEW i \in Tasks, RunsOnly(i),
         BeginLogin(i), task[i].at = "is_user_authorized", account.authorized
  PROVE  WorkIsReady' /\ StateInv' /\ ClientInv'
<1>1. /\ connected' = TRUE /\ loginState' = "connected" /\ UNCHANGED <<client, open, account>>
      /\ task'[i].at = "get_me"
      /\ \A j \in Tasks : j # i => task'[j] = task[j]
      /\ call' = call /\ task'[i].kind = task[i].kind
  <2>1. Move(i, "get_me") /\ "get_me" \in Places
    BY DEF BeginLogin, LoginSucceeds, Places
  <2> QED
    BY <2>1, MoveIs DEF BeginLogin, LoginSucceeds, RunsOnly
<1>2. task[i].kind = "begin" /\ Works(i)
  BY DEF RunsOnly, Placed, Works, CoroutineKinds, Exclusive
<1>3. client = i /\ client # None
  <2>0. i # None
    BY DEF Tasks, None
  <2>1. Going(i)
    BY <1>2 DEF CalmLogin, WorkIsReady
  <2> QED
    BY <2>0, <2>1 DEF Going
<1>4. WorkIsReady'
  <2>1. \A j \in Tasks : Works(j)' => Ready(task[j].kind)'
    <3> SUFFICES ASSUME NEW j \in Tasks, Works(j)' PROVE Ready(task[j].kind)'
      OBVIOUS
    <3>1. Works(j) /\ task'[j].kind = task[j].kind
      BY StillWorks
    <3>2. Ready(task[j].kind)
      BY <3>1 DEF CalmLogin, WorkIsReady
    <3> QED
      BY <1>1, <3>1, <3>2 DEF Ready, ReadyForCode, ReadyForPassword
  <2>2. Going(i)'
    BY <1>1, <1>3 DEF Going
  <2>3. /\ \A t \in Callers : call[t].at = "prompt code" => ReadyForCode'
        /\ \A t \in Callers : call[t].at = "prompt password" => ReadyForPassword'
    BY <1>1 DEF CalmLogin, WorkIsReady, ReadyForCode, ReadyForPassword
  <2> QED
    BY <1>1, <1>2, <2>1, <2>2, <2>3, StepIsReady
<1>5. StateInv'
  <2>1. \A t \in Callers : WaitsToLeave(t)' => task'[call'[t].task].at # "done"
    BY <1>2, NobodyLeaves DEF CalmLogin
  <2>2. \A c \in open' : task'[c].kind = "begin"
    BY <1>1, <1>2 DEF CalmLogin, StateInv, LoginTypes
  <2>3. client \in open
    BY <1>3 DEF CalmLogin, StateInv
  <2> QED
    BY <1>1, <1>3, <2>1, <2>2, <2>3 DEF StateInv
<1>6. ClientInv'
  BY <1>1, SameClient
<1> QED
  BY <1>4, <1>5, <1>6

\* Telegram has sent the code: the login waits for it.
LEMMA CodeSentStep ==
  ASSUME LoginTypes, LoginTypes', CallsInv, CalmLogin, NEW i \in Tasks, RunsOnly(i),
         BeginLogin(i), task[i].at = "send_code_request"
  PROVE  WorkIsReady' /\ StateInv' /\ ClientInv'
<1>1. /\ loginState' = "await_code" /\ UNCHANGED <<connected, client, open, account>>
      /\ task'[i].at = "done" /\ task'[i].result = "await_code"
      /\ \A j \in Tasks : j # i => task'[j] = task[j]
      /\ call' = call /\ task'[i].kind = task[i].kind /\ task'[i].cancel = task[i].cancel
  <2>1. Finish(i, "await_code") /\ "await_code" \in Results
    BY DEF BeginLogin, Results
  <2> QED
    BY <2>1, FinishIs DEF BeginLogin, RunsOnly
<1>2. task[i].kind = "begin" /\ Works(i)
  BY DEF RunsOnly, Placed, Works, CoroutineKinds, Exclusive
<1>3. client = i /\ client # None /\ ~account.authorized /\ ~connected
  <2>0. i # None
    BY DEF Tasks, None
  <2>1. Going(i)
    BY <1>2 DEF CalmLogin, WorkIsReady
  <2> QED
    BY <2>0, <2>1 DEF Going, CalmLogin, StateInv
<1>4. loginState # "await_2fa" /\ loginState # "connected"
  <2>1. ~NoneWorks /\ Ready("begin")
    BY <1>2 DEF NoneWorks, CalmLogin, WorkIsReady
  <2> QED
    BY <1>3, <2>1, BrieflyConnected DEF Ready
<1>5. WorkIsReady'
  <2>1. \A j \in Tasks : Works(j)' => Ready(task[j].kind)'
    <3> SUFFICES ASSUME NEW j \in Tasks, Works(j)' PROVE Ready(task[j].kind)'
      OBVIOUS
    <3>1. Works(j) /\ task'[j].kind = task[j].kind
      BY StillWorks
    <3>2. Ready(task[j].kind)
      BY <3>1 DEF CalmLogin, WorkIsReady
    <3> QED
      BY <1>1, <1>3, <1>4, <3>1, <3>2 DEF Ready, ReadyForCode, ReadyForPassword
  <2>2. ~Works(i)'
    BY <1>1 DEF Works, Live
  <2>3. ReadyForCode'
    BY <1>1, <1>3 DEF ReadyForCode
  <2>4. \A t \in Callers : call[t].at # "prompt password"
    BY <1>4 DEF CalmLogin, WorkIsReady, ReadyForPassword
  <2> QED
    BY <1>1, <1>2, <2>1, <2>2, <2>3, <2>4, StepIsReady
<1>6. StateInv'
  <2>1. \A t \in Callers : WaitsToLeave(t)' => task'[call'[t].task].at # "done"
    BY <1>2, NobodyLeaves DEF CalmLogin
  <2>2. \A c \in open' : task'[c].kind = "begin"
    BY <1>1, <1>2 DEF CalmLogin, StateInv, LoginTypes
  <2>3. client \in open
    BY <1>3 DEF CalmLogin, StateInv
  <2> QED
    BY <1>1, <1>3, <2>1, <2>2, <2>3 DEF StateInv
<1>7. ClientInv'
  <2>1. ASSUME NEW c \in open, c # i PROVE ~Good(c)'
    <3>1. ~Good(c) /\ c \in Tasks
      BY <1>3, <2>1 DEF CalmLogin, ClientInv, LoginTypes
    <3> QED
      BY <1>1, <2>1, <3>1 DEF Good, Live
  <2>2. ASSUME Good(i)', NEW j \in Tasks, Works(j)', task'[j].kind = "begin" PROVE FALSE
    <3>1. Works(j) /\ j # i /\ ~task[i].cancel
      BY <1>1, <2>2, StillWorks DEF Good, Works, Live
    <3> QED
      BY <1>2, <3>1, OthersFollow DEF CalmLogin
  <2> QED
    BY <1>1, <1>3, <2>1, <2>2 DEF ClientInv
<1> QED
  BY <1>5, <1>6, <1>7

\* The code was right and a password is asked for.
LEMMA PasswordAskedStep ==
  ASSUME LoginTypes, LoginTypes', CallsInv, CalmLogin, NEW i \in Tasks, RunsOnly(i),
         SignIn(i), task[i].kind = "code", account.twoFactor
  PROVE  WorkIsReady' /\ StateInv' /\ ClientInv'
<1>1. /\ loginState' = "await_2fa" /\ UNCHANGED <<connected, client, open, account>>
      /\ task[i].at = "sign_in" /\ task'[i].at = "done" /\ task'[i].result = "await_2fa"
      /\ \A j \in Tasks : j # i => task'[j] = task[j]
      /\ call' = call /\ task'[i].kind = task[i].kind
  <2>1. Finish(i, "await_2fa") /\ "await_2fa" \in Results
    BY DEF SignIn, Results
  <2> QED
    BY <2>1, FinishIs DEF SignIn, RunsOnly
<1>2. Works(i)
  BY DEF RunsOnly, Works, Exclusive
<1>3. client # None /\ ~account.authorized /\ ~connected
  <2>1. Going(i) /\ Ready("code")
    BY <1>2 DEF CalmLogin, WorkIsReady
  <2> QED
    BY <1>1, <2>1 DEF Going, Ready, ReadyForCode, CalmLogin, StateInv
<1>4. WorkIsReady'
  <2>1. \A j \in Tasks : Works(j)' => Ready(task[j].kind)'
    <3> SUFFICES ASSUME NEW j \in Tasks, Works(j)' PROVE Ready(task[j].kind)'
      OBVIOUS
    <3>1. Works(j) /\ task'[j].kind = task[j].kind /\ j # i
      BY <1>1, StillWorks DEF Works, Live
    <3>2. Ready(task[j].kind) /\ Rank("code") <= Rank(task[j].kind)
      BY <1>1, <1>2, <3>1, OthersFollow DEF CalmLogin, WorkIsReady
    <3> QED
      BY <1>1, <1>3, <3>1, <3>2 DEF Ready, ReadyForCode, ReadyForPassword, Rank
  <2>2. ~Works(i)'
    BY <1>1 DEF Works, Live
  <2>3. ReadyForCode' /\ ReadyForPassword'
    BY <1>1, <1>3 DEF ReadyForCode, ReadyForPassword
  <2> QED
    BY <1>1, <1>2, <2>1, <2>2, <2>3, StepIsReady
<1>5. StateInv'
  <2>1. \A t \in Callers : WaitsToLeave(t)' => task'[call'[t].task].at # "done"
    BY <1>2, NobodyLeaves DEF CalmLogin
  <2>2. \A c \in open' : task'[c].kind = "begin"
    BY <1>1, <1>2 DEF CalmLogin, StateInv, LoginTypes
  <2>3. client \in open
    BY <1>3 DEF CalmLogin, StateInv
  <2> QED
    BY <1>1, <1>3, <2>1, <2>2, <2>3 DEF StateInv
<1>6. ClientInv'
  BY <1>1, SameClient
<1> QED
  BY <1>4, <1>5, <1>6

\* Telegram has accepted the code, or the password.
LEMMA SignedInStep ==
  ASSUME LoginTypes, LoginTypes', CallsInv, CalmLogin, NEW i \in Tasks, RunsOnly(i),
         SignIn(i), ~(task[i].kind = "code" /\ account.twoFactor)
  PROVE  WorkIsReady' /\ StateInv' /\ ClientInv'
<1>1. /\ connected' = TRUE /\ loginState' = "connected" /\ UNCHANGED <<client, open>>
      /\ account'.authorized = TRUE /\ account'.twoFactor = account.twoFactor
      /\ task[i].at = "sign_in" /\ task'[i].at = "get_me"
      /\ \A j \in Tasks : j # i => task'[j] = task[j]
      /\ call' = call /\ task'[i].kind = task[i].kind
  <2>1. Move(i, "get_me") /\ "get_me" \in Places
    BY DEF SignIn, LoginSucceeds, Places
  <2>2. account' = [account EXCEPT !.authorized = TRUE]
    BY DEF SignIn
  <2>3. account'.authorized = TRUE /\ account'.twoFactor = account.twoFactor
    BY <2>2 DEF LoginTypes
  <2> QED
    BY <2>1, <2>3, MoveIs DEF SignIn, LoginSucceeds, RunsOnly
<1>2. task[i].kind \in {"code", "password"} /\ Works(i)
  BY <1>1 DEF RunsOnly, Placed, Works, CoroutineKinds, Exclusive
<1>3. client # None
  BY <1>1, <1>2 DEF CalmLogin, WorkIsReady, Going
<1>4. ASSUME account.twoFactor PROVE task[i].kind = "password"
  BY <1>2, <1>4
<1>5. WorkIsReady'
  <2>1. ASSUME NEW j \in Tasks, Works(j)' PROVE Ready(task[j].kind)'
    <3>1. Works(j) /\ task'[j].kind = task[j].kind
      BY <2>1, StillWorks
    <3>2. Rank(task[i].kind) <= Rank(task[j].kind)
      <4>1. CASE j = i
        BY <4>1 DEF Rank
      <4>2. CASE j # i
        BY <1>1, <1>2, <3>1, <4>2, OthersFollow DEF CalmLogin
      <4> QED
        BY <4>1, <4>2
    <3>3. task[j].kind = "code" => ~account.twoFactor
      BY <1>4, <3>2 DEF Rank
    <3>4. task[j].kind # "begin"
      BY <1>2, <3>2 DEF Rank
    <3>5. Ready(task[j].kind)
      BY <3>1 DEF CalmLogin, WorkIsReady
    <3> QED
      BY <1>1, <3>1, <3>3, <3>4, <3>5 DEF Ready, ReadyForCode, ReadyForPassword
  <2>2. Going(i)'
    BY <1>1, <1>2 DEF Going
  <2>3. ASSUME NEW t \in Callers, call[t].at = "prompt code" PROVE ReadyForCode'
    <3>1. Rank(task[i].kind) <= 1
      BY <1>2, <2>3 DEF CalmLogin, WorkIsReady
    <3>2. ~account.twoFactor
      BY <1>4, <3>1 DEF Rank
    <3> QED
      BY <1>1, <3>2 DEF ReadyForCode
  <2>4. ReadyForPassword'
    BY <1>1 DEF ReadyForPassword
  <2> QED
    BY <1>1, <1>2, <2>1, <2>2, <2>3, <2>4, StepIsReady
<1>6. StateInv'
  <2>1. \A t \in Callers : WaitsToLeave(t)' => task'[call'[t].task].at # "done"
    BY <1>2, NobodyLeaves DEF CalmLogin
  <2>2. \A c \in open' : task'[c].kind = "begin"
    BY <1>1, <1>2 DEF CalmLogin, StateInv, LoginTypes
  <2>3. client \in open
    BY <1>3 DEF CalmLogin, StateInv
  <2> QED
    BY <1>1, <1>3, <2>1, <2>2, <2>3 DEF StateInv
<1>7. ClientInv'
  BY <1>1, SameClient
<1> QED
  BY <1>5, <1>6, <1>7

\* The disconnect, failed or not, takes the client it was scheduled for.
LEMMA CloseStep ==
  ASSUME LoginTypes, LoginTypes', CallsInv, CalmLogin, NEW i \in Tasks, RunsOnly(i), Close(i)
  PROVE  WorkIsReady' /\ StateInv' /\ ClientInv'
<1>1. /\ connected' = FALSE /\ client' = None /\ open' = open \ {task[i].uses}
      /\ UNCHANGED <<loginState, account>>
      /\ task[i].at = "closing" /\ task'[i].at = "done" /\ task'[i].result \in {"closed", "error"}
      /\ \A j \in Tasks : j # i => task'[j] = task[j]
      /\ call' = call /\ task'[i].kind = task[i].kind
  <2>1. PICK result \in {"closed", "error"} : Finish(i, result)
    BY DEF Close
  <2>2. result \in Results
    BY DEF Results
  <2> QED
    BY <2>1, <2>2, FinishIs DEF Close, RunsOnly
<1>2. task[i].kind = "disconnect" /\ Works(i)
  BY <1>1 DEF RunsOnly, Placed, Works, CoroutineKinds, Exclusive
<1>3. task[i].uses = client /\ ~task[i].cancel
  BY <1>1, <1>2 DEF CalmLogin, WorkIsReady, Going, InOrderOfLogin
<1>4. \A j \in Tasks : ~Works(j)'
  <2> SUFFICES ASSUME NEW j \in Tasks, Works(j)' PROVE FALSE
    OBVIOUS
  <2>1. Works(j) /\ j # i
    BY <1>1, StillWorks DEF Works, Live
  <2> QED
    BY <1>2, <1>3, <2>1, OthersFollow DEF CalmLogin
<1>5. WorkIsReady'
  <2>1. /\ \A t \in Callers : call[t].at = "prompt code" => ReadyForCode'
        /\ \A t \in Callers : call[t].at = "prompt password" => ReadyForPassword'
    BY <1>1 DEF CalmLogin, WorkIsReady, ReadyForCode, ReadyForPassword
  <2> QED
    BY <1>1, <1>2, <1>4, <2>1, StepIsReady
<1>6. StateInv'
  <2>1. PICK t \in Callers : Waits(t) /\ call[t].task = i
    BY <1>2, <1>3 DEF CalmLogin, InOrderOfLogin
  <2>2. WaitsToLeave(t)'
    <3>1. Serves(task[i].kind, call[t].kind)
      BY <2>1, WaitedFor
    <3> QED
      BY <1>1, <1>2, <2>1, <3>1 DEF Serves, WaitsToLeave, Waits
  <2>3. account.authorized => loginState \in {"disconnected", "connected"}
    BY DEF CalmLogin, StateInv
  <2>4. \A c \in open' : task'[c].kind = "begin"
    BY <1>1, <1>2 DEF CalmLogin, StateInv, LoginTypes
  <2> QED
    BY <1>1, <2>2, <2>3, <2>4 DEF StateInv
<1>7. ClientInv'
  <2>1. ASSUME NEW c \in open, c # client PROVE ~Good(c)'
    <3>1. ~Good(c) /\ c \in Tasks /\ c # i
      BY <1>2, <2>1 DEF CalmLogin, ClientInv, StateInv, LoginTypes
    <3> QED
      BY <1>1, <3>1 DEF Good, Live
  <2> QED
    BY <1>1, <1>3, <2>1 DEF ClientInv
<1> QED
  BY <1>5, <1>6, <1>7

LoopStep(i) ==
    \/ Start(i) \/ BeginLogin(i) \/ SignIn(i) \/ GetMe(i) \/ Close(i) \/ Request(i)
    \/ AwaitFails(i)

\* The steps that leave the account as it is.
LEMMA StartStep ==
  ASSUME LoginTypes, LoginTypes', CallsInv, CalmLogin, NEW i \in Tasks, RunsOnly(i), Start(i)
  PROVE  WorkIsReady' /\ StateInv' /\ ClientInv'
<1>1. task[i].at = "new" /\ UNCHANGED session
  BY DEF Start
<1>2. Works(i) /\ task[i].kind = "begin" => i \notin open
  BY <1>1 DEF CalmLogin, WorkIsReady, Going
<1>3. CASE task[i].kind = "begin"
  <2>1. Move(i, "connect") /\ "connect" \in Places
    BY <1>3 DEF Start, Places
  <2>2. task'[i].at = "connect"
    BY <2>1, MoveIs
  <2>3. Works(i)
    BY <1>3 DEF Works, RunsOnly, Exclusive
  <2>4. Going(i)'
    BY <1>1, <1>2, <1>3, <2>2, <2>3 DEF Going, session
  <2> QED
    BY <1>1, <2>2, <2>4, QuietStep
<1>4. CASE task[i].kind # "begin" /\ client # None
  <2>1. PICK place \in {"sign_in", "closing", "resolve"} :
          task' = [task EXCEPT ![i].uses = client, ![i].at = place]
    BY <1>4 DEF Start
  <2>2. task'[i].at = place /\ task'[i].uses = client
    BY <2>1 DEF LoginTypes, Coroutines
  <2>3. Going(i)'
    BY <1>1, <1>4, <2>2 DEF Going, session
  <2> QED
    BY <1>1, <2>2, <2>3, QuietStep
<1>5. CASE task[i].kind # "begin" /\ client = None
  <2>1. PICK result \in {"closed", "error"} : Finish(i, result)
    BY <1>5 DEF Start
  <2>2. result \in Results
    BY DEF Results
  <2>3. task'[i].at = "done" /\ task'[i].result = result
    BY <2>1, <2>2, FinishIs
  <2>4. EndsQuietly(i)
    BY <1>5, <2>3 DEF EndsQuietly, CalmLogin, StateInv
  <2>5. ~Works(i)'
    BY <2>3 DEF Works, Live
  <2> QED
    BY <1>1, <2>4, <2>5, QuietStep
<1> QED
  BY <1>3, <1>4, <1>5

LEMMA LoopIsCalm ==
  ASSUME LoginTypes, LoginTypes', CallsInv, CalmLogin, NEW i \in Tasks, RunsOnly(i), LoopStep(i)
  PROVE  WorkIsReady' /\ StateInv' /\ ClientInv'
<1>1. CASE Start(i)
  BY <1>1, StartStep
<1>2. CASE BeginLogin(i)
  <2>1. CASE task[i].at = "is_user_authorized" /\ ~account.authorized
    <3>1. Move(i, "send_code_request") /\ "send_code_request" \in Places /\ UNCHANGED session
      BY <1>2, <2>1 DEF BeginLogin, Places, session
    <3>2. task'[i].at = "send_code_request" /\ task'[i].kind = task[i].kind
      BY <3>1, MoveIs
    <3>3. Works(i)
      BY <2>1 DEF RunsOnly, Placed, Works, CoroutineKinds, Exclusive
    <3>4. Going(i)
      BY <3>3 DEF CalmLogin, WorkIsReady
    <3>5. Going(i)'
      BY <2>1, <3>1, <3>2, <3>4 DEF Going, session
    <3> QED
      BY <3>1, <3>2, <3>5, QuietStep
  <2> QED
    BY <1>2, <2>1, ConnectStep, AuthorizedStep, CodeSentStep DEF BeginLogin
<1>3. CASE SignIn(i)
  BY <1>3, PasswordAskedStep, SignedInStep
<1>4. CASE GetMe(i)
  <2>1. PICK result \in {"error", "connected"} : Finish(i, result)
    BY <1>4 DEF GetMe
  <2>2. /\ task[i].at = "get_me" /\ UNCHANGED session
        /\ task'[i].at = "done" /\ task'[i].result = result
    BY <1>4, <2>1, FinishIs DEF GetMe, Results
  <2>3. ~Works(i)'
    BY <2>2 DEF Works, Live
  <2>4. task[i].kind # "disconnect" /\ task[i].kind \in Exclusive
    BY <2>2 DEF RunsOnly, Placed, CoroutineKinds, Exclusive
  <2>5. Going(i)
    BY <2>4 DEF RunsOnly, Works, CalmLogin, WorkIsReady
  <2>6. EndsQuietly(i)
    BY <2>2, <2>4, <2>5 DEF EndsQuietly, Going
  <2> QED
    BY <2>2, <2>3, <2>6, QuietStep
<1>5. CASE Close(i)
  BY <1>5, CloseStep
<1>6. CASE Request(i)
  <2>1. /\ task[i].at \in {"resolve", "request"} /\ UNCHANGED session
        /\ \/ Move(i, "request") 
           \/ \E result \in {"error", "answered"} : Finish(i, result)
    BY <1>6 DEF Request
  <2>2. task[i].kind \in {"read", "send"} /\ task'[i].kind = task[i].kind
    BY <2>1 DEF RunsOnly, Placed, CoroutineKinds, Exclusive
  <2>3. ~Works(i)'
    BY <2>2 DEF Works, Exclusive
  <2>4. task'[i].at = "done" => EndsQuietly(i)
    <3>1. CASE Move(i, "request")
      BY <3>1, MoveIs DEF Places
    <3>2. ASSUME NEW result \in {"error", "answered"}, Finish(i, result)
          PROVE  EndsQuietly(i)
      <4>1. task'[i].result = result
        BY <3>2, FinishIs DEF Results
      <4> QED
        BY <2>2, <4>1 DEF EndsQuietly
    <3> QED
      BY <2>1, <3>1, <3>2
  <2> QED
    BY <2>1, <2>3, <2>4, QuietStep
<1>7. CASE AwaitFails(i)
  <2>1. Finish(i, "error") /\ UNCHANGED session /\ (task[i].at \notin {"new", "closing"} \/ task[i].cancel)
    BY <1>7 DEF AwaitFails
  <2>2. task'[i].at = "done" /\ task'[i].result = "error"
    BY <2>1, FinishIs DEF Results
  <2>3. ~Works(i)'
    BY <2>2 DEF Works, Live
  <2>4. task[i].kind # "disconnect"
    BY <2>1 DEF RunsOnly, Live, Placed, CalmLogin, InOrderOfLogin
  <2> QED
    BY <2>1, <2>2, <2>3, <2>4, QuietStep DEF EndsQuietly
<1> QED
  BY <1>1, <1>2, <1>3, <1>4, <1>5, <1>6, <1>7 DEF LoopStep

\* The loop keeps the invariant.
LEMMA LoopKeeps ==
  ASSUME LoginInv, NEW i \in Tasks, LoopStep(i)
  PROVE  LoginInv'
<1>1. LoginTypes' /\ RunsOnly(i)
  BY LoopRuns DEF LoginInv, LoopStep
<1>2. CallsInv'
  BY <1>1, LoopCalls DEF LoginInv
<1>3. SendInv'
  <2>1. \/ sent' = sent
        \/ /\ task'[i].at = "done"
           /\ sent' = [t \in Callers |->
                         IF task[i].kind = "send" /\ call[t].task = i THEN sent[t] + 1 ELSE sent[t]]
    <3>1. CASE Request(i)
      <4>1. CASE sent' # sent
        <5>1. Finish(i, "answered") /\ "answered" \in Results
          BY <3>1, <4>1 DEF Request, Results
        <5> QED
          BY <3>1, <4>1, <5>1, FinishIs DEF Request, LoginInv
      <4> QED
        BY <4>1
    <3>2. CASE AwaitFails(i)
      <4>1. Finish(i, "error") /\ "error" \in Results
        BY <3>2 DEF AwaitFails, Results
      <4>2. task'[i].at = "done"
        BY <4>1, FinishIs DEF LoginInv
      <4>3. CASE task[i].at = "request"
        BY <3>2, <4>2, <4>3 DEF AwaitFails
      <4>4. CASE task[i].at # "request"
        <5>1. sent' = sent \/ sent' = [t \in Callers |-> sent[t]]
          BY <3>2, <4>4 DEF AwaitFails
        <5> QED
          BY <5>1 DEF LoginInv, LoginTypes
      <4> QED
        BY <4>3, <4>4
    <3>3. CASE Start(i) \/ BeginLogin(i) \/ SignIn(i) \/ GetMe(i) \/ Close(i)
      BY <3>3 DEF Start, BeginLogin, SignIn, GetMe, Close
    <3> QED
      BY <3>1, <3>2, <3>3 DEF LoopStep
  <2> QED
    BY <1>1, <2>1, LoopSends DEF LoginInv
<1>4. ~late => CalmLogin'
  BY <1>1, LoopOrder, LoopIsCalm DEF LoginInv, CalmLogin
<1> QED
  BY <1>1, <1>2, <1>3, <1>4 DEF LoginInv, RunsOnly

-----------------------------------------------------------------------------
(* A caller that leaves, or comes to its lock.                             *)

\* Its task is the only one that may have been asked to stop.
OnlyCancels(t) ==
    /\ task' \in [Tasks -> Coroutines]
    /\ \A j \in Tasks :
         /\ task'[j].kind = task[j].kind /\ task'[j].at = task[j].at
         /\ task'[j].uses = task[j].uses /\ task'[j].result = task[j].result
         /\ \/ task'[j] = task[j]
            \/ Waits(t) /\ call[t].kind # "disconnect" /\ j = call[t].task /\ task'[j].cancel

Aside(t) ==
    /\ call' \in [Callers -> CallRecords] /\ sent' \in [Callers -> Nat]
    /\ \A u \in Callers : u # t => call'[u] = call[u] /\ sent'[u] = sent[u]
    /\ call'[t].at \in {"idle", "entry"}
    /\ call'[t].task # None =>
         call'[t].task = call[t].task /\ task[call[t].task].kind # "send"
    /\ sent'[t] <= 1 /\ (call'[t].kind = "send" => sent'[t] = 0)
    /\ holder' = holder \ {t} /\ scheduled' = scheduled
    /\ OnlyCancels(t)

LEMMA AsideCalls ==
  ASSUME LoginTypes, CallsInv, SendInv, NEW t \in Callers, Aside(t)
  PROVE  CallsInv' /\ SendInv'
<1>1. /\ \A u \in Callers : u # t => call'[u] = call[u] /\ sent'[u] = sent[u]
      /\ call'[t].at \in {"idle", "entry"} /\ holder' = holder \ {t} /\ scheduled' = scheduled
      /\ call'[t].task # None => call'[t].task = call[t].task /\ task[call[t].task].kind # "send"
      /\ sent'[t] <= 1 /\ (call'[t].kind = "send" => sent'[t] = 0)
  BY DEF Aside
<1>2. \A j \in Tasks : task'[j].kind = task[j].kind /\ task'[j].at = task[j].at
  BY DEF Aside, OnlyCancels
<1>3. ~Locks(t)' /\ ~Waits(t)'
  BY <1>1 DEF Locks, Waits, Prompts
<1>4. ASSUME NEW u \in Callers, u # t
      PROVE  /\ Locks(u)' <=> Locks(u)
             /\ Waits(u)' <=> Waits(u)
             /\ call'[u] = call[u]
  BY <1>1, <1>4 DEF Locks, Waits
<1>5. \A j \in Tasks : IF j > scheduled' THEN task'[j] = NoCoroutine ELSE Placed(j)'
  <2> SUFFICES ASSUME NEW j \in Tasks
               PROVE  IF j > scheduled' THEN task'[j] = NoCoroutine ELSE Placed(j)'
    OBVIOUS
  <2>1. CASE j > scheduled
    <3>1. ~(Waits(t) /\ j = call[t].task)
      BY <2>1, WaitedFor DEF LoginTypes, Tasks
    <3>2. task'[j] = task[j]
      BY <3>1 DEF Aside, OnlyCancels
    <3> QED
      BY <1>1, <2>1, <3>2 DEF CallsInv
  <2>2. CASE ~(j > scheduled)
    <3>1. Placed(j)
      BY <2>2 DEF CallsInv
    <3> QED
      BY <1>1, <1>2, <2>2, <3>1 DEF Placed
  <2> QED
    BY <2>1, <2>2
<1>6. CallsInv'
  <2>1. \A u \in Callers : u \in holder' <=> Locks(u)'
    BY <1>1, <1>3, <1>4 DEF CallsInv
  <2>2. holder' \subseteq Callers /\ \A u, v \in holder' : u = v
    BY <1>1 DEF CallsInv
  <2>3. ASSUME NEW u \in Callers PROVE call'[u].task \in 0..scheduled'
    <3>1. call[u].task \in 0..scheduled /\ call[t].task \in 0..scheduled /\ 0 \in 0..scheduled
      BY LoginAssumption DEF CallsInv, LoginTypes
    <3> QED
      BY <1>1, <3>1 DEF None
  <2>4. ASSUME NEW u \in Callers, Waits(u)'
        PROVE  call'[u].task # None /\ Serves(task'[call'[u].task].kind, call'[u].kind)
    <3>1. u # t
      BY <1>3, <2>4
    <3>2. Waits(u) /\ call'[u] = call[u]
      BY <1>4, <2>4, <3>1
    <3>3. call[u].task \in Tasks /\ Serves(task[call[u].task].kind, call[u].kind)
            /\ call[u].task # None
      BY <3>2, WaitedFor DEF CallsInv
    <3> QED
      BY <1>2, <3>2, <3>3
  <2> QED
    BY <1>5, <2>1, <2>2, <2>3, <2>4 DEF CallsInv
<1>7. SendInv'
  <2> SUFFICES ASSUME NEW u \in Callers
               PROVE  /\ sent'[u] <= 1
                      /\ call'[u].kind = "send" /\ call'[u].at = "entry" => sent'[u] = 0
                      /\ call'[u].kind = "send" /\ Waits(u)' /\ Live(call[u].task)' => sent'[u] = 0
                      /\ call'[u].task # None /\ task'[call'[u].task].kind = "send" =>
                           Waits(u)' /\ call'[u].kind = "send"
    BY DEF SendInv
  <2>1. CASE u = t
    <3>1. call[t].task # None => task'[call[t].task].kind = task[call[t].task].kind
      BY <1>2 DEF LoginTypes, CallRecords
    <3> QED
      BY <1>1, <1>3, <2>1, <3>1
  <2>2. CASE u # t
    <3>1. call'[u] = call[u] /\ sent'[u] = sent[u] /\ (Waits(u)' <=> Waits(u))
      BY <1>1, <1>4, <2>2
    <3>2. call[u].task # None => call[u].task \in Tasks
      BY DEF LoginTypes, CallRecords
    <3>3. Waits(u) => call[u].task # None
      BY DEF CallsInv
    <3>4. Waits(u) /\ Live(call[u].task)' => Live(call[u].task)
      BY <1>2, <3>1, <3>2, <3>3 DEF Live
    <3>5. call[u].task # None => task'[call[u].task].kind = task[call[u].task].kind
      BY <1>2, <3>2
    <3> QED
      BY <3>1, <3>4, <3>5 DEF SendInv
  <2> QED
    BY <2>1, <2>2
<1> QED
  BY <1>6, <1>7

\* One thread holds the lock: others neither prompt nor wait for the login.
LEMMA OneLocks ==
  ASSUME CallsInv, NEW t \in Callers, NEW u \in Callers, Locks(t), Locks(u)
  PROVE  t = u
  BY DEF CallsInv

LEMMA AsideCalm ==
  ASSUME LoginTypes, CallsInv, CalmLogin, NEW t \in Callers, Aside(t), UNCHANGED session,
         ~WaitsToLeave(t),
         Waits(t) => task[call[t].task].at = "done" \/ task'[call[t].task].cancel
  PROVE  CalmLogin'
<1>1. /\ \A u \in Callers : u # t => call'[u] = call[u]
      /\ call'[t].at \in {"idle", "entry"}
      /\ UNCHANGED <<connected, loginState, client, open, account>>
  BY DEF Aside, session
<1>2. \A j \in Tasks : /\ task'[j].kind = task[j].kind /\ task'[j].at = task[j].at
                       /\ task'[j].uses = task[j].uses /\ task'[j].result = task[j].result
  BY DEF Aside, OnlyCancels
<1>3. \A j \in Tasks : task'[j] = task[j]
        \/ (Waits(t) /\ call[t].kind # "disconnect" /\ j = call[t].task /\ task'[j].cancel)
  BY DEF Aside, OnlyCancels
<1>4. ASSUME NEW u \in Callers, Waits(u)' \/ call'[u].at \in Prompts
      PROVE  u # t /\ call'[u] = call[u] /\ (Waits(u)' <=> Waits(u))
  BY <1>1, <1>4 DEF Waits, Prompts
<1>5. ASSUME NEW j \in Tasks
      PROVE  Works(j)' <=> Works(j)
  BY <1>2 DEF Works, Live
<1>6. InOrderOfLogin'
  <2>1. ASSUME NEW j \in Tasks, Works(j)', ~task'[j].cancel
        PROVE  \E u \in Callers : Waits(u)' /\ call'[u].task = j
    <3>1. Works(j) /\ ~task[j].cancel
      BY <1>3, <1>5, <2>1
    <3>2. PICK u \in Callers : Waits(u) /\ call[u].task = j
      BY <3>1 DEF CalmLogin, InOrderOfLogin
    <3>3. u # t
      BY <2>1, <3>1, <3>2 DEF Works, Live
    <3> QED
      BY <1>1, <3>2, <3>3 DEF Waits
  <2>2. ASSUME NEW j \in Tasks, NEW k \in Tasks, j < k, Works(j)', Works(k)'
        PROVE  /\ task'[j].cancel /\ task'[k].at = "new"
               /\ Rank(task'[j].kind) <= Rank(task'[k].kind)
    <3>1. task[j].cancel /\ task[k].at = "new" /\ Rank(task[j].kind) <= Rank(task[k].kind)
      BY <1>5, <2>2 DEF CalmLogin, InOrderOfLogin
    <3> QED
      BY <1>2, <1>3, <3>1
  <2>3. ASSUME NEW j \in Tasks, task'[j].kind = "disconnect" PROVE ~task'[j].cancel
    <3>1. ~task[j].cancel
      BY <1>2, <2>3 DEF CalmLogin, InOrderOfLogin
    <3>2. ~(Waits(t) /\ call[t].kind # "disconnect" /\ j = call[t].task)
      BY <1>2, <2>3, WaitedFor DEF Serves
    <3> QED
      BY <1>3, <3>1, <3>2
  <2>4. ASSUME NEW u \in Callers, Waits(u)', call'[u].kind \in LockKinds
        PROVE  /\ ~task'[call'[u].task].cancel
               /\ task'[call'[u].task].at = "done" => NoneWorks'
    <3>1. u # t /\ call'[u] = call[u] /\ Waits(u) /\ call[u].kind \in LockKinds
      BY <1>4, <2>4
    <3>2. call[u].task \in Tasks /\ Serves(task[call[u].task].kind, call[u].kind)
      BY <3>1, WaitedFor
    <3>3. ~(Waits(t) /\ call[u].task = call[t].task)
      <4> SUFFICES ASSUME Waits(t), call[u].task = call[t].task PROVE FALSE
        OBVIOUS
      <4>1. Serves(task[call[u].task].kind, call[t].kind)
        BY WaitedFor
      <4>2. call[t].kind \in LockKinds
        BY <3>1, <3>2, <4>1 DEF Serves, LockKinds
      <4> QED
        BY <3>1, <4>2, OneLocks DEF Locks
    <3>4. task'[call[u].task] = task[call[u].task]
      BY <1>3, <3>2, <3>3
    <3>5. /\ ~task[call[u].task].cancel
          /\ task[call[u].task].at = "done" => NoneWorks
      BY <3>1 DEF CalmLogin, InOrderOfLogin
    <3>6. NoneWorks => NoneWorks'
      BY <1>5 DEF NoneWorks
    <3> QED
      BY <3>1, <3>4, <3>5, <3>6
  <2> QED
    BY <2>1, <2>2, <2>3, <2>4 DEF InOrderOfLogin
<1>7. WorkIsReady'
  <2>1. ASSUME NEW j \in Tasks, Works(j)' PROVE Ready(task[j].kind)' /\ Going(j)'
    <3>1. Ready(task[j].kind) /\ Going(j)
      BY <1>5, <2>1 DEF CalmLogin, WorkIsReady
    <3> QED
      BY <1>1, <1>2, <3>1 DEF Ready, ReadyForCode, ReadyForPassword, Going
  <2>2. ASSUME NEW u \in Callers, call'[u].at = "prompt code"
        PROVE  ReadyForCode' /\ \A j \in Tasks : Works(j)' => Rank(task'[j].kind) <= 1
    <3>1. call[u].at = "prompt code"
      BY <1>4, <2>2 DEF Prompts
    <3> QED
      BY <1>1, <1>2, <1>5, <3>1 DEF CalmLogin, WorkIsReady, ReadyForCode
  <2>3. ASSUME NEW u \in Callers, call'[u].at = "prompt password"
        PROVE  ReadyForPassword' /\ \A j \in Tasks : Works(j)' => Rank(task'[j].kind) <= 2
    <3>1. call[u].at = "prompt password"
      BY <1>4, <2>3 DEF Prompts
    <3> QED
      BY <1>1, <1>2, <1>5, <3>1 DEF CalmLogin, WorkIsReady, ReadyForPassword
  <2>4. ASSUME NEW u \in Callers, Waits(u)', call'[u].kind = "cli", task'[call'[u].task].at = "done"
        PROVE  /\ task'[call'[u].task].result = "await_code" => ReadyForCode'
               /\ task'[call'[u].task].result = "await_2fa" => ReadyForPassword'
    <3>1. Waits(u) /\ call'[u] = call[u] /\ call[u].task \in Tasks
      BY <1>4, <2>4, WaitedFor
    <3>2. /\ task[call[u].task].at = "done"
          /\ task'[call[u].task].result = task[call[u].task].result
      BY <1>2, <2>4, <3>1
    <3>3. /\ task[call[u].task].result = "await_code" => ReadyForCode
          /\ task[call[u].task].result = "await_2fa" => ReadyForPassword
      BY <2>4, <3>1, <3>2 DEF CalmLogin, WorkIsReady
    <3>4. (ReadyForCode => ReadyForCode') /\ (ReadyForPassword => ReadyForPassword')
      BY <1>1 DEF ReadyForCode, ReadyForPassword
    <3> QED
      BY <3>1, <3>2, <3>3, <3>4
  <2> QED
    BY <2>1, <2>2, <2>3, <2>4 DEF WorkIsReady
<1>8. StateInv'
  <2>1. ASSUME NEW u \in Callers PROVE WaitsToLeave(u)' <=> WaitsToLeave(u)
    BY <1>1 DEF WaitsToLeave, Waits
  <2>2. ASSUME NEW u \in Callers, WaitsToLeave(u)', task'[call'[u].task].at = "done"
        PROVE  ~connected /\ client = None
    <3>1. WaitsToLeave(u) /\ Waits(u) /\ call'[u] = call[u]
      BY <1>4, <2>1, <2>2 DEF WaitsToLeave
    <3>2. call[u].task \in Tasks
      BY <3>1, WaitedFor
    <3> QED
      BY <1>2, <2>2, <3>1, <3>2 DEF CalmLogin, StateInv
  <2>3. \A c \in open : task'[c].kind = "begin"
    BY <1>2 DEF CalmLogin, StateInv, LoginTypes
  <2> QED
    BY <1>1, <2>1, <2>2, <2>3 DEF CalmLogin, StateInv
<1>9. ClientInv'
  <2>1. ASSUME NEW c \in open, Good(c)' PROVE Good(c)
    BY <1>2, <1>3, <2>1 DEF Good, Live, LoginTypes
  <2>2. client # None => client \in open
    BY DEF CalmLogin, StateInv
  <2>3. client # None /\ Good(client)' =>
          loginState # "disconnected" /\ \A j \in Tasks : Works(j)' => task'[j].kind # "begin"
    <3> SUFFICES ASSUME client # None, Good(client)'
                 PROVE  loginState # "disconnected"
                          /\ \A j \in Tasks : Works(j)' => task'[j].kind # "begin"
      OBVIOUS
    <3>1. Good(client)
      BY <1>1, <2>1, <2>2
    <3>2. loginState # "disconnected" /\ \A j \in Tasks : Works(j) => task[j].kind # "begin"
      BY <3>1 DEF CalmLogin, ClientInv
    <3> QED
      BY <1>2, <1>5, <3>2
  <2>4. \A c \in open \ {client} : ~Good(c)
    BY DEF CalmLogin, ClientInv
  <2> QED
    BY <1>1, <2>1, <2>3, <2>4 DEF ClientInv
<1> QED
  BY <1>6, <1>7, <1>8, <1>9 DEF CalmLogin

-----------------------------------------------------------------------------
(* A caller that prompts its user, the lock in its hands.                  *)
Asks(t) ==
    /\ call' \in [Callers -> CallRecords]
    /\ \A u \in Callers : u # t => call'[u] = call[u]
    /\ call'[t].at \in Prompts /\ call'[t].kind = "cli" /\ call'[t].task = call[t].task
    /\ holder \subseteq {t} /\ holder' = {t}
    /\ UNCHANGED <<session, task, scheduled, late, sent>>

LEMMA AsksCalls ==
  ASSUME LoginTypes, CallsInv, SendInv, NEW t \in Callers, Asks(t),
         call[t].task # None => task[call[t].task].kind # "send"
  PROVE  CallsInv' /\ SendInv'
<1>1. /\ \A u \in Callers : u # t => call'[u] = call[u]
      /\ call'[t].at \in Prompts /\ call'[t].kind = "cli" /\ call'[t].task = call[t].task
      /\ holder' = {t} /\ holder \subseteq {t} /\ task' = task /\ scheduled' = scheduled
      /\ sent' = sent
  BY DEF Asks
<1>2. Locks(t)' /\ ~Waits(t)' /\ call'[t].at # "entry"
  BY <1>1 DEF Locks, Waits, Prompts
<1>3. ASSUME NEW u \in Callers, u # t
      PROVE  (Locks(u)' <=> Locks(u)) /\ (Waits(u)' <=> Waits(u))
  BY <1>1, <1>3 DEF Locks, Waits
<1>4. \A j \in Tasks : IF j > scheduled' THEN task'[j] = NoCoroutine ELSE Placed(j)'
  BY <1>1 DEF CallsInv, Placed
<1>5. \A u \in Callers : u \in holder' <=> Locks(u)'
  BY <1>1, <1>2, <1>3 DEF CallsInv
<1>6. \A u \in Callers : call'[u].task \in 0..scheduled'
  BY <1>1 DEF CallsInv
<1>7. \A u \in Callers : Waits(u)' =>
        call'[u].task # None /\ Serves(task'[call'[u].task].kind, call'[u].kind)
  BY <1>1, <1>2, <1>3 DEF CallsInv
<1>8. CallsInv'
  BY <1>1, <1>4, <1>5, <1>6, <1>7 DEF CallsInv
<1>9. SendInv'
  <2> SUFFICES ASSUME NEW u \in Callers
               PROVE  /\ sent[u] <= 1
                      /\ call'[u].kind = "send" /\ call'[u].at = "entry" => sent[u] = 0
                      /\ call'[u].kind = "send" /\ Waits(u)' /\ Live(call[u].task)' => sent[u] = 0
                      /\ call'[u].task # None /\ task[call'[u].task].kind = "send" =>
                           Waits(u)' /\ call'[u].kind = "send"
    BY <1>1 DEF SendInv
  <2>1. CASE u = t
    BY <1>1, <1>2, <2>1 DEF SendInv
  <2>2. CASE u # t
    <3>1. call'[u] = call[u] /\ (Waits(u)' <=> Waits(u))
      BY <1>1, <1>3, <2>2
    <3>2. Live(call[u].task)' <=> Live(call[u].task)
      BY <1>1, <3>1 DEF Live
    <3> QED
      BY <3>1, <3>2 DEF SendInv
  <2> QED
    BY <2>1, <2>2
<1> QED
  BY <1>8, <1>9

LEMMA AsksCalm ==
  ASSUME LoginTypes, CallsInv, CalmLogin, NEW t \in Callers, Asks(t),
         ~WaitsToLeave(t), Waits(t) => task[call[t].task].at = "done",
         call'[t].at = "prompt code" =>
           ReadyForCode /\ \A j \in Tasks : Works(j) => Rank(task[j].kind) <= 1,
         call'[t].at = "prompt password" =>
           ReadyForPassword /\ \A j \in Tasks : Works(j) => Rank(task[j].kind) <= 2
  PROVE  CalmLogin'
<1>1. /\ \A u \in Callers : u # t => call'[u] = call[u]
      /\ call'[t].at \in Prompts
      /\ UNCHANGED <<connected, loginState, client, open, account, task>>
  BY DEF Asks, session
<1>2. ASSUME NEW u \in Callers, Waits(u)' PROVE u # t /\ call'[u] = call[u] /\ Waits(u)
  BY <1>1, <1>2 DEF Waits, Prompts
<1>3. \A j \in Tasks : (Works(j)' <=> Works(j)) /\ (Good(j)' <=> Good(j))
  BY <1>1 DEF Works, Live, Good
<1>4. NoneWorks' <=> NoneWorks
  BY <1>3 DEF NoneWorks
<1>5. InOrderOfLogin'
  <2>1. ASSUME NEW j \in Tasks, Works(j), ~task[j].cancel
        PROVE  \E u \in Callers : Waits(u)' /\ call'[u].task = j
    <3>1. PICK u \in Callers : Waits(u) /\ call[u].task = j
      BY <2>1 DEF CalmLogin, InOrderOfLogin
    <3>2. u # t
      BY <2>1, <3>1 DEF Works, Live
    <3> QED
      BY <1>1, <3>1, <3>2 DEF Waits
  <2>2. ASSUME NEW u \in Callers, Waits(u)', call'[u].kind \in LockKinds
        PROVE  /\ ~task[call'[u].task].cancel
               /\ task[call'[u].task].at = "done" => NoneWorks'
    BY <1>2, <1>4, <2>2 DEF CalmLogin, InOrderOfLogin
  <2>3. /\ \A i, j \in Tasks : i < j /\ Works(i) /\ Works(j) =>
              task[i].cancel /\ task[j].at = "new" /\ Rank(task[i].kind) <= Rank(task[j].kind)
        /\ \A i \in Tasks : task[i].kind = "disconnect" => ~task[i].cancel
    BY DEF CalmLogin, InOrderOfLogin
  <2> QED
    BY <1>1, <1>3, <2>1, <2>2, <2>3 DEF InOrderOfLogin
<1>6. WorkIsReady'
  <2>1. ASSUME NEW j \in Tasks, Works(j)' PROVE Ready(task[j].kind)' /\ Going(j)'
    <3>1. Ready(task[j].kind) /\ Going(j)
      BY <1>3, <2>1 DEF CalmLogin, WorkIsReady
    <3> QED
      BY <1>1, <3>1 DEF Ready, ReadyForCode, ReadyForPassword, Going
  <2>2. /\ ReadyForCode' <=> ReadyForCode
        /\ ReadyForPassword' <=> ReadyForPassword
    BY <1>1 DEF ReadyForCode, ReadyForPassword
  <2>3. \A u \in Callers : call'[u].at = "prompt code" =>
          ReadyForCode /\ \A j \in Tasks : Works(j) => Rank(task[j].kind) <= 1
    BY <1>1 DEF CalmLogin, WorkIsReady
  <2>4. \A u \in Callers : call'[u].at = "prompt password" =>
          ReadyForPassword /\ \A j \in Tasks : Works(j) => Rank(task[j].kind) <= 2
    BY <1>1 DEF CalmLogin, WorkIsReady
  <2>5. \A u \in Callers : Waits(u)' /\ call'[u].kind = "cli" /\ task[call'[u].task].at = "done" =>
         /\ task[call'[u].task].result = "await_code" => ReadyForCode
         /\ task[call'[u].task].result = "await_2fa" => ReadyForPassword
    BY <1>2 DEF CalmLogin, WorkIsReady
  <2> QED
    BY <1>1, <1>3, <2>1, <2>2, <2>3, <2>4, <2>5 DEF WorkIsReady
<1>7. StateInv'
  <2>1. ASSUME NEW u \in Callers PROVE WaitsToLeave(u)' <=> WaitsToLeave(u)
    BY <1>1 DEF WaitsToLeave, Waits, Prompts
  <2>2. ASSUME NEW u \in Callers, WaitsToLeave(u)', task[call'[u].task].at = "done"
        PROVE  ~connected /\ client = None
    <3>1. WaitsToLeave(u) /\ call'[u] = call[u]
      BY <1>2, <2>1, <2>2 DEF WaitsToLeave
    <3> QED
      BY <2>2, <3>1 DEF CalmLogin, StateInv
  <2> QED
    BY <1>1, <2>1, <2>2 DEF CalmLogin, StateInv
<1>8. ClientInv'
  <2>1. ASSUME NEW c \in open \ {client} PROVE ~Good(c)'
    BY <1>3 DEF CalmLogin, ClientInv, LoginTypes
  <2>2. ASSUME client # None, Good(client)'
        PROVE  loginState # "disconnected" /\ \A j \in Tasks : Works(j)' => task[j].kind # "begin"
    <3>1. Good(client)
      BY <1>1, <2>2 DEF Good, Live
    <3> QED
      BY <1>3, <2>2, <3>1 DEF CalmLogin, ClientInv
  <2> QED
    BY <1>1, <2>1, <2>2 DEF ClientInv
<1> QED
  BY <1>5, <1>6, <1>7, <1>8 DEF CalmLogin

-----------------------------------------------------------------------------
(* A caller that has a coroutine scheduled, and waits for it.              *)
Waiting(t, kind, as) ==
    /\ scheduled + 1 \in Tasks /\ scheduled' = scheduled + 1
    /\ task' \in [Tasks -> Coroutines]
    /\ \A j \in Tasks : j # scheduled + 1 => task'[j] = task[j]
    /\ task'[scheduled + 1].kind = kind /\ task'[scheduled + 1].at = "new"
    /\ ~task'[scheduled + 1].cancel
    /\ call' \in [Callers -> CallRecords]
    /\ \A u \in Callers : u # t => call'[u] = call[u]
    /\ call'[t].at = "wait" /\ call'[t].kind = as /\ call'[t].task = scheduled + 1
    /\ UNCHANGED <<session, late, sent>>
    /\ kind \in CoroutineKinds /\ Serves(kind, as)
    /\ IF as \in LockKinds THEN holder \subseteq {t} /\ holder' = {t}
                           ELSE t \notin holder /\ holder' = holder

LEMMA ScheduledWaits ==
  ASSUME LoginTypes, NEW t \in Callers, NEW kind \in CoroutineKinds,
         NEW as \in LockKinds \cup {"read", "send"}, Schedule(t, kind, as), Serves(kind, as),
         IF as \in LockKinds THEN holder \subseteq {t} /\ holder' = {t}
                             ELSE t \notin holder /\ holder' = holder,
         UNCHANGED <<session, late, sent>>
  PROVE  Waiting(t, kind, as)
<1>1. PICK i : i = scheduled + 1
  OBVIOUS
<1>2. i \in Tasks /\ scheduled' = i
  BY <1>1, LoginAssumption DEF Schedule, LoginTypes, Tasks
<1>3. PICK r : r = [NoCoroutine EXCEPT !.kind = kind, !.at = "new"]
  OBVIOUS
<1>4. r = [kind |-> kind, at |-> "new", cancel |-> FALSE, uses |-> None, result |-> "none"]
  BY <1>3 DEF NoCoroutine
<1>5. r \in Coroutines
  BY <1>4 DEF Coroutines, Places, Results
<1>6. task' = [task EXCEPT ![i] = r]
  BY <1>1, <1>3 DEF Schedule
<1>7. /\ task' \in [Tasks -> Coroutines] /\ task'[i] = r
      /\ \A j \in Tasks : j # i => task'[j] = task[j]
  BY <1>2, <1>5, <1>6 DEF LoginTypes
<1>8. PICK f1 : f1 = [call EXCEPT ![t].at = "wait"]
  OBVIOUS
<1>9. PICK f2 : f2 = [f1 EXCEPT ![t].kind = as]
  OBVIOUS
<1>10. call' = [f2 EXCEPT ![t].task = i]
  BY <1>1, <1>8, <1>9 DEF Schedule
<1>11. /\ f1 \in [Callers -> CallRecords] /\ f1[t].at = "wait"
       /\ \A u \in Callers : u # t => f1[u] = call[u]
  BY <1>8 DEF LoginTypes, CallRecords
<1>12. /\ f2 \in [Callers -> CallRecords] /\ f2[t].at = "wait" /\ f2[t].kind = as
       /\ \A u \in Callers : u # t => f2[u] = call[u]
  BY <1>9, <1>11 DEF CallRecords
<1>13. /\ call' \in [Callers -> CallRecords] /\ call'[t].at = "wait" /\ call'[t].kind = as
       /\ call'[t].task = i
       /\ \A u \in Callers : u # t => call'[u] = call[u]
  BY <1>2, <1>10, <1>12 DEF CallRecords
<1>14. task'[i].kind = kind /\ task'[i].at = "new" /\ ~task'[i].cancel
  BY <1>4, <1>7
<1>15. task' \in [Tasks -> Coroutines] /\ \A j \in Tasks : j # i => task'[j] = task[j]
  BY <1>7
<1>16. /\ call' \in [Callers -> CallRecords] /\ call'[t].at = "wait" /\ call'[t].kind = as
       /\ call'[t].task = i
       /\ \A u \in Callers : u # t => call'[u] = call[u]
  BY <1>13
<1> QED
  BY <1>1, <1>2, <1>14, <1>15, <1>16 DEF Waiting

LEMMA WaitingCalls ==
  ASSUME LoginTypes, CallsInv, SendInv, NEW t \in Callers, NEW kind, NEW as,
         Waiting(t, kind, as), ~Waits(t), as = "send" => sent[t] = 0
  PROVE  LoginTypes' /\ CallsInv' /\ SendInv'
<1>1. PICK i \in Tasks : i = scheduled + 1
  BY DEF Waiting
<1>2. /\ scheduled' = i
      /\ \A j \in Tasks : j # i => task'[j] = task[j]
      /\ task'[i].kind = kind /\ task'[i].at = "new"
      /\ \A u \in Callers : u # t => call'[u] = call[u]
      /\ call'[t].at = "wait" /\ call'[t].kind = as /\ call'[t].task = i
      /\ kind \in CoroutineKinds /\ Serves(kind, as)
  BY <1>1 DEF Waiting
<1>3. \A j \in Tasks : IF j > scheduled' THEN task'[j] = NoCoroutine ELSE Placed(j)'
  <2> SUFFICES ASSUME NEW j \in Tasks
               PROVE  IF j > scheduled' THEN task'[j] = NoCoroutine ELSE Placed(j)'
    OBVIOUS
  <2>1. CASE j = i
    <3>1. ~(j > scheduled')
      BY <1>2, <2>1 DEF Tasks
    <3>2. Placed(i)'
      BY <1>2 DEF Placed
    <3> QED
      BY <2>1, <3>1, <3>2
  <2>2. CASE j # i
    <3>1. j > scheduled' <=> j > scheduled
      BY <1>1, <1>2, <2>2 DEF Tasks, LoginTypes
    <3>2. task'[j] = task[j]
      BY <1>2, <2>2
    <3> QED
      BY <3>1, <3>2 DEF CallsInv, Placed
  <2> QED
    BY <2>1, <2>2
<1>4. ASSUME NEW u \in Callers, u # t
      PROVE  call'[u] = call[u] /\ (Locks(u)' <=> Locks(u)) /\ (Waits(u)' <=> Waits(u))
  BY <1>2, <1>4 DEF Locks, Waits
<1>5. /\ Locks(t)' <=> as \in LockKinds
      /\ Waits(t)'
  BY <1>2 DEF Locks, Waits, Prompts
<1>h. IF as \in LockKinds THEN holder \subseteq {t} /\ holder' = {t}
                          ELSE t \notin holder /\ holder' = holder
  BY DEF Waiting
<1>6. \A u \in Callers : u \in holder' <=> Locks(u)'
  <2>1. \A u \in Callers : u \in holder <=> Locks(u)
    BY DEF CallsInv
  <2>2. ASSUME NEW u \in Callers, u # t PROVE u \in holder' <=> u \in holder
    <3>1. CASE as \in LockKinds
      BY <1>h, <2>2, <3>1
    <3>2. CASE as \notin LockKinds
      BY <1>h, <3>2
    <3> QED
      BY <3>1, <3>2
  <2>3. t \in holder' <=> as \in LockKinds
    <3>1. CASE as \in LockKinds
      BY <1>h, <3>1
    <3>2. CASE as \notin LockKinds
      BY <1>h, <3>2
    <3> QED
      BY <3>1, <3>2
  <2> QED
    BY <1>4, <1>5, <2>1, <2>2, <2>3
<1>7. holder' \subseteq Callers /\ \A u, v \in holder' : u = v
  BY <1>h DEF CallsInv
<1>8. \A u \in Callers : call[u].task \in 0..scheduled
  BY DEF CallsInv
<1>9. \A u \in Callers : call'[u].task \in 0..scheduled'
  <2> SUFFICES ASSUME NEW u \in Callers PROVE call'[u].task \in 0..scheduled'
    OBVIOUS
  <2>1. CASE u = t
    BY <1>2, <2>1 DEF Tasks
  <2>2. CASE u # t
    <3>1. call'[u] = call[u] /\ call[u].task \in 0..scheduled
      BY <1>2, <1>8, <2>2
    <3>2. scheduled \in 0..MaxTasks /\ scheduled' = scheduled + 1
      BY <1>1, <1>2 DEF LoginTypes
    <3> QED
      BY <3>1, <3>2
  <2> QED
    BY <2>1, <2>2
<1>10. \A u \in Callers : call[u].task # i
  BY <1>1, <1>8 DEF LoginTypes
<1>11. ASSUME NEW u \in Callers, u # t, call[u].task # None
       PROVE  call[u].task \in Tasks /\ task'[call[u].task] = task[call[u].task]
  BY <1>2, <1>10, <1>11 DEF LoginTypes, CallRecords
<1>12. ASSUME NEW u \in Callers, Waits(u)'
       PROVE  call'[u].task # None /\ Serves(task'[call'[u].task].kind, call'[u].kind)
  <2>1. CASE u = t
    <3>1. i # None
      BY DEF Tasks, None
    <3>2. call'[u].task = i /\ call'[u].kind = as /\ task'[i].kind = kind /\ Serves(kind, as)
      BY <1>2, <2>1
    <3> QED
      BY <3>1, <3>2
  <2>2. CASE u # t
    <3>1. Waits(u) /\ call'[u] = call[u]
      BY <1>4, <1>12, <2>2
    <3>2. call[u].task # None /\ Serves(task[call[u].task].kind, call[u].kind)
      BY <3>1 DEF CallsInv
    <3> QED
      BY <1>11, <2>2, <3>1, <3>2
  <2> QED
    BY <2>1, <2>2
<1>13. CallsInv'
  BY <1>3, <1>6, <1>7, <1>9, <1>12 DEF CallsInv
<1>14. SendInv'
  <2> SUFFICES ASSUME NEW u \in Callers
               PROVE  /\ sent[u] <= 1
                      /\ call'[u].kind = "send" /\ call'[u].at = "entry" => sent[u] = 0
                      /\ call'[u].kind = "send" /\ Waits(u)' /\ Live(call[u].task)' => sent[u] = 0
                      /\ call'[u].task # None /\ task'[call'[u].task].kind = "send" =>
                           Waits(u)' /\ call'[u].kind = "send"
    BY DEF SendInv, Waiting
  <2>1. CASE u = t
    <3>1. sent[t] <= 1
      BY DEF SendInv
    <3>2. kind = "send" => as = "send"
      BY <1>2 DEF Serves
    <3> QED
      BY <1>2, <1>5, <2>1, <3>1, <3>2
  <2>2. CASE u # t
    <3>1. call'[u] = call[u] /\ (Waits(u)' <=> Waits(u))
      BY <1>4, <2>2
    <3>2. Waits(u) => call[u].task # None
      BY DEF CallsInv
    <3>3. Waits(u) /\ Live(call[u].task)' => Live(call[u].task)
      BY <1>11, <2>2, <3>1, <3>2 DEF Live
    <3>4. call[u].task # None => task'[call[u].task].kind = task[call[u].task].kind
      BY <1>11, <2>2
    <3> QED
      BY <3>1, <3>3, <3>4 DEF SendInv
  <2> QED
    BY <2>1, <2>2
<1>15. LoginTypes'
  BY <1>1, <1>2 DEF LoginTypes, Waiting, session, Tasks
<1> QED
  BY <1>13, <1>14, <1>15

LEMMA WaitingCalm ==
  ASSUME LoginTypes, CallsInv, CalmLogin, NEW t \in Callers, NEW kind, NEW as,
         Waiting(t, kind, as), ~Waits(t),
         kind \in Exclusive =>
           /\ as \in LockKinds /\ Ready(kind)
           /\ \A j \in Tasks : Works(j) => Rank(task[j].kind) <= Rank(kind),
         kind = "begin" => loginState = "disconnected"
  PROVE  CalmLogin'
<1>1. PICK i \in Tasks : i = scheduled + 1
  BY DEF Waiting
<1>2. /\ scheduled' = i
      /\ \A j \in Tasks : j # i => task'[j] = task[j]
      /\ task'[i].kind = kind /\ task'[i].at = "new" /\ ~task'[i].cancel
      /\ \A u \in Callers : u # t => call'[u] = call[u]
      /\ call'[t].at = "wait" /\ call'[t].kind = as /\ call'[t].task = i
      /\ kind \in CoroutineKinds /\ Serves(kind, as)
      /\ UNCHANGED <<connected, loginState, client, open, account>>
  BY <1>1 DEF Waiting, session
<1>3. \A j \in Tasks : Live(j) => j < i
  <2> SUFFICES ASSUME NEW j \in Tasks, Live(j) PROVE j < i
    OBVIOUS
  <2>1. j <= scheduled
    BY LiveIsPlaced
  <2> QED
    BY <1>1, <2>1 DEF LoginTypes, Tasks
<1>4. task[i].at = "none" /\ task[i].kind = "none"
  <2>1. i > scheduled
    BY <1>1 DEF LoginTypes
  <2>2. task[i] = NoCoroutine
    BY <2>1 DEF CallsInv
  <2> QED
    BY <2>2 DEF NoCoroutine
<1>5. ASSUME NEW j \in Tasks, j # i
      PROVE  task'[j] = task[j] /\ (Works(j)' <=> Works(j)) /\ (Good(j)' <=> Good(j))
  BY <1>2, <1>5 DEF Works, Live, Good
<1>6. Works(i)' <=> kind \in Exclusive
  BY <1>2 DEF Works, Live
<1>7. ASSUME NEW u \in Callers, u # t
      PROVE  call'[u] = call[u] /\ (Waits(u)' <=> Waits(u))
               /\ (WaitsToLeave(u)' <=> WaitsToLeave(u))
  BY <1>2, <1>7 DEF Waits, WaitsToLeave
<1>8. ASSUME NEW u \in Callers, Waits(u)
      PROVE  u # t /\ call[u].task \in Tasks /\ call[u].task # i
               /\ Serves(task[call[u].task].kind, call[u].kind)
  <2>1. /\ call[u].task \in Tasks /\ call[u].task <= scheduled
        /\ Serves(task[call[u].task].kind, call[u].kind)
    BY <1>8, WaitedFor
  <2> QED
    BY <1>1, <1>8, <2>1 DEF LoginTypes
<1>9. ASSUME kind \in Exclusive, NEW u \in Callers, Locks(u) PROVE u = t
  BY <1>9 DEF CallsInv, Waiting
<1>10. InOrderOfLogin'
  <2>1. ASSUME NEW j \in Tasks, Works(j)', ~task'[j].cancel
        PROVE  \E u \in Callers : Waits(u)' /\ call'[u].task = j
    <3>1. CASE j = i
      BY <1>2, <3>1 DEF Waits
    <3>2. CASE j # i
      <4>1. Works(j) /\ ~task[j].cancel
        BY <1>5, <2>1, <3>2
      <4>2. PICK u \in Callers : Waits(u) /\ call[u].task = j
        BY <4>1 DEF CalmLogin, InOrderOfLogin
      <4> QED
        BY <1>7, <1>8, <4>2
    <3> QED
      BY <3>1, <3>2
  <2>2. ASSUME NEW j \in Tasks, NEW k \in Tasks, j < k, Works(j)', Works(k)'
        PROVE  /\ task'[j].cancel /\ task'[k].at = "new"
               /\ Rank(task'[j].kind) <= Rank(task'[k].kind)
    <3>1. CASE j = i
      <4>1. Live(k)
        BY <1>5, <2>2, <3>1 DEF Works, Tasks
      <4> QED
        BY <1>3, <2>2, <3>1, <4>1 DEF Tasks
    <3>2. CASE j # i /\ k # i
      BY <1>5, <2>2, <3>2 DEF CalmLogin, InOrderOfLogin
    <3>3. CASE j # i /\ k = i
      <4>1. Works(j) /\ task'[j] = task[j] /\ kind \in Exclusive
        BY <1>5, <1>6, <2>2, <3>3
      <4>2. Rank(task[j].kind) <= Rank(kind)
        BY <4>1
      <4>3. task[j].cancel
        <5> SUFFICES ASSUME ~task[j].cancel PROVE FALSE
          OBVIOUS
        <5>1. PICK u \in Callers : Waits(u) /\ call[u].task = j
          BY <4>1 DEF CalmLogin, InOrderOfLogin
        <5>2. Serves(task[j].kind, call[u].kind) /\ u # t
          BY <1>8, <5>1
        <5>3. call[u].kind \in LockKinds
          BY <4>1, <5>2 DEF Serves, Works, Exclusive, LockKinds
        <5> QED
          BY <1>9, <4>1, <5>1, <5>2, <5>3 DEF Locks
      <4> QED
        BY <1>2, <3>3, <4>1, <4>2, <4>3
    <3> QED
      BY <3>1, <3>2, <3>3
  <2>3. ASSUME NEW j \in Tasks, task'[j].kind = "disconnect" PROVE ~task'[j].cancel
    BY <1>2, <2>3 DEF CalmLogin, InOrderOfLogin
  <2>4. ASSUME NEW u \in Callers, Waits(u)', call'[u].kind \in LockKinds
        PROVE  /\ ~task'[call'[u].task].cancel
               /\ task'[call'[u].task].at = "done" => NoneWorks'
    <3>1. CASE u = t
      BY <1>2, <3>1
    <3>2. CASE u # t
      <4>1. Waits(u) /\ call'[u] = call[u] /\ call[u].kind \in LockKinds
        BY <1>7, <2>4, <3>2
      <4>2. kind \notin Exclusive
        BY <1>9, <3>2, <4>1 DEF Locks
      <4>3. task'[call[u].task] = task[call[u].task]
        BY <1>5, <1>8, <4>1
      <4>4. /\ ~task[call[u].task].cancel
            /\ task[call[u].task].at = "done" => NoneWorks
        BY <4>1 DEF CalmLogin, InOrderOfLogin
      <4>5. NoneWorks => NoneWorks'
        BY <1>5, <1>6, <4>2 DEF NoneWorks
      <4> QED
        BY <4>1, <4>3, <4>4, <4>5
    <3> QED
      BY <3>1, <3>2
  <2> QED
    BY <2>1, <2>2, <2>3, <2>4 DEF InOrderOfLogin
<1>11. i \notin open
  BY <1>4 DEF CalmLogin, StateInv
<1>12. (ReadyForCode' <=> ReadyForCode) /\ (ReadyForPassword' <=> ReadyForPassword)
  BY <1>2 DEF ReadyForCode, ReadyForPassword
<1>13. WorkIsReady'
  <2>1. ASSUME NEW j \in Tasks, Works(j)' PROVE Ready(task[j].kind)' /\ Going(j)'
    <3>1. CASE j # i
      <4>1. Ready(task[j].kind) /\ Going(j) /\ task'[j] = task[j]
        BY <1>5, <2>1, <3>1 DEF CalmLogin, WorkIsReady
      <4> QED
        BY <1>2, <4>1 DEF Ready, ReadyForCode, ReadyForPassword, Going
    <3>2. CASE j = i
      <4>1. Ready(kind)
        BY <1>6, <2>1, <3>2
      <4> QED
        BY <1>2, <1>11, <3>2, <4>1 DEF Ready, ReadyForCode, ReadyForPassword, Going
    <3> QED
      BY <3>1, <3>2
  <2>2. ASSUME NEW u \in Callers, call'[u].at \in Prompts
        PROVE  /\ call'[u] = call[u]
               /\ \A j \in Tasks : Works(j)' => Works(j) /\ task'[j].kind = task[j].kind
    <3>1. u # t
      BY <1>2, <2>2 DEF Prompts
    <3>2. call'[u] = call[u] /\ Locks(u)
      BY <1>2, <2>2, <3>1 DEF Locks
    <3>3. kind \notin Exclusive
      BY <1>9, <3>1, <3>2
    <3> QED
      BY <1>5, <1>6, <3>2, <3>3
  <2>3. ASSUME NEW u \in Callers, call'[u].at = "prompt code"
        PROVE  ReadyForCode' /\ \A j \in Tasks : Works(j)' => Rank(task'[j].kind) <= 1
    BY <1>12, <2>2, <2>3 DEF CalmLogin, WorkIsReady, Prompts
  <2>4. ASSUME NEW u \in Callers, call'[u].at = "prompt password"
        PROVE  ReadyForPassword' /\ \A j \in Tasks : Works(j)' => Rank(task'[j].kind) <= 2
    BY <1>12, <2>2, <2>4 DEF CalmLogin, WorkIsReady, Prompts
  <2>5. ASSUME NEW u \in Callers, Waits(u)', call'[u].kind = "cli", task'[call'[u].task].at = "done"
        PROVE  /\ task'[call'[u].task].result = "await_code" => ReadyForCode'
               /\ task'[call'[u].task].result = "await_2fa" => ReadyForPassword'
    <3>1. u # t
      BY <1>2, <2>5
    <3>2. Waits(u) /\ call'[u] = call[u]
      BY <1>7, <2>5, <3>1
    <3>3. task'[call[u].task] = task[call[u].task]
      BY <1>5, <1>8, <3>2
    <3> QED
      BY <1>12, <2>5, <3>2, <3>3 DEF CalmLogin, WorkIsReady
  <2> QED
    BY <2>1, <2>3, <2>4, <2>5 DEF WorkIsReady
<1>14. StateInv'
  <2>1. ~connected /\ loginState = "connected" => \E u \in Callers : WaitsToLeave(u)'
    <3> SUFFICES ASSUME ~connected, loginState = "connected"
                 PROVE  \E u \in Callers : WaitsToLeave(u)'
      OBVIOUS
    <3>1. PICK u \in Callers : WaitsToLeave(u)
      BY DEF CalmLogin, StateInv
    <3>2. u # t
      BY <3>1 DEF WaitsToLeave
    <3> QED
      BY <1>7, <3>1, <3>2
  <2>2. ASSUME NEW u \in Callers, WaitsToLeave(u)', task'[call'[u].task].at = "done"
        PROVE  ~connected /\ client = None
    <3>1. u # t
      BY <1>2, <2>2
    <3>2. WaitsToLeave(u) /\ Waits(u) /\ call'[u] = call[u]
      BY <1>7, <2>2, <3>1 DEF WaitsToLeave
    <3>3. task'[call[u].task] = task[call[u].task]
      BY <1>5, <1>8, <3>2
    <3> QED
      BY <2>2, <3>2, <3>3 DEF CalmLogin, StateInv
  <2>3. \A c \in open : task'[c].kind = "begin"
    BY <1>5, <1>11 DEF CalmLogin, StateInv, LoginTypes
  <2> QED
    BY <1>2, <2>1, <2>2, <2>3 DEF CalmLogin, StateInv
<1>15. ClientInv'
  <2>1. ASSUME NEW c \in open \ {client} PROVE ~Good(c)'
    BY <1>5, <1>11 DEF CalmLogin, ClientInv, LoginTypes
  <2>2. ASSUME client # None, Good(client)'
        PROVE  loginState # "disconnected" /\ \A j \in Tasks : Works(j)' => task'[j].kind # "begin"
    <3>1. client \in open /\ client \in Tasks /\ client # i
      BY <1>11, <2>2 DEF CalmLogin, StateInv, LoginTypes
    <3>2. Good(client)
      <4>1. PICK c \in Tasks : c = client
        BY <3>1
      <4> QED
        BY <1>2, <2>2, <3>1, <4>1 DEF Good, Live
    <3>3. loginState # "disconnected" /\ \A j \in Tasks : Works(j) => task[j].kind # "begin"
      BY <2>2, <3>2 DEF CalmLogin, ClientInv
    <3> QED
      BY <1>2, <1>5, <3>3
  <2> QED
    BY <1>2, <2>1, <2>2 DEF ClientInv
<1> QED
  BY <1>10, <1>13, <1>14, <1>15 DEF CalmLogin

-----------------------------------------------------------------------------
(* The steps of the callers.                                               *)

LEMMA IdleIs ==
  Idle \in CallRecords /\ Idle.at = "idle" /\ Idle.kind = "none" /\ Idle.task = None
  BY DEF Idle, CallRecords

\* A thread that is called, or that finds nothing to do.
LEMMA AwayKeeps ==
  ASSUME LoginInv, NEW t \in Callers, call[t].at \in {"idle", "entry"},
         NEW r \in CallRecords, r.at \in {"idle", "entry"}, r.task = None,
         call' = [call EXCEPT ![t] = r],
         sent' \in [Callers -> Nat], \A u \in Callers : u # t => sent'[u] = sent[u],
         sent'[t] <= 1, r.kind = "send" => sent'[t] = 0,
         UNCHANGED <<session, task, scheduled, holder, late>>
  PROVE  LoginInv'
<1>1. ~Locks(t) /\ ~Waits(t) /\ ~WaitsToLeave(t)
  BY DEF Locks, Waits, Prompts, WaitsToLeave
<1>2. holder' = holder \ {t}
  BY <1>1 DEF LoginInv, CallsInv
<1>3. /\ call' \in [Callers -> CallRecords] /\ call'[t] = r
      /\ \A u \in Callers : u # t => call'[u] = call[u]
  BY DEF LoginInv, LoginTypes
<1>4. OnlyCancels(t)
  BY DEF OnlyCancels, LoginInv, LoginTypes
<1>5. Aside(t)
  BY <1>2, <1>3, <1>4 DEF Aside
<1>6. LoginTypes'
  BY <1>3 DEF LoginInv, LoginTypes, session
<1>7. CallsInv' /\ SendInv'
  BY <1>5, AsideCalls DEF LoginInv
<1>8. ~late => CalmLogin'
  BY <1>1, <1>5, AsideCalm DEF LoginInv
<1> QED
  BY <1>6, <1>7, <1>8 DEF LoginInv

LEMMA ReturnKeeps ==
  ASSUME LoginInv, NEW t \in Callers, call[t].at = "entry", Return(t),
         UNCHANGED <<session, holder, late, sent>>
  PROVE  LoginInv'
<1>1. PICK r : r = Idle
  OBVIOUS
<1>2. call' = [call EXCEPT ![t] = r] /\ UNCHANGED <<task, scheduled>>
  BY <1>1 DEF Return
<1>3. r \in CallRecords /\ r.at = "idle" /\ r.kind = "none" /\ r.task = None
  BY <1>1, IdleIs
<1>4. sent \in [Callers -> Nat] /\ sent[t] <= 1
  BY DEF LoginInv, LoginTypes, SendInv
<1> QED
  BY <1>2, <1>3, <1>4, AwayKeeps

\* What works, and what may, by the state of the login.
LEMMA ReadyByState ==
  ASSUME LoginTypes, CallsInv, CalmLogin
  PROVE  /\ ~connected /\ loginState = "disconnected" =>
              Ready("begin") /\ \A j \in Tasks : Works(j) => Rank(task[j].kind) <= Rank("begin")
         /\ ~connected /\ loginState = "await_code" =>
              /\ Ready("code") /\ ReadyForCode
              /\ \A j \in Tasks : Works(j) => Rank(task[j].kind) <= Rank("code")
         /\ ~connected /\ loginState = "await_2fa" =>
              /\ Ready("password") /\ ReadyForPassword
              /\ \A j \in Tasks : Works(j) => Rank(task[j].kind) <= Rank("password")
         /\ connected =>
              Ready("disconnect") /\ \A j \in Tasks : Works(j) => Rank(task[j].kind) <= Rank("disconnect")
<1>1. /\ Rank("begin") = 0 /\ Rank("code") = 1 /\ Rank("password") = 2 /\ Rank("disconnect") = 3
  BY DEF Rank
<1>2. ASSUME NEW j \in Tasks, Works(j)
      PROVE  /\ task[j].kind \in Exclusive /\ Rank(task[j].kind) <= 3
             /\ task[j].kind = "code" => loginState # "disconnected"
             /\ task[j].kind = "password" => loginState \in {"await_2fa", "connected"}
             /\ task[j].kind = "disconnect" => connected
  <2>1. task[j].kind \in Exclusive /\ Ready(task[j].kind)
    BY <1>2 DEF CalmLogin, WorkIsReady, Works
  <2>2. Rank(task[j].kind) <= 3
    BY DEF Rank
  <2> QED
    BY <2>1, <2>2 DEF Ready, ReadyForCode, ReadyForPassword
<1>3. ~connected /\ loginState = "disconnected" =>
        \A j \in Tasks : Works(j) => Rank(task[j].kind) <= 0
  BY <1>1, <1>2 DEF Exclusive
<1>4. ~connected /\ loginState = "await_code" =>
        \A j \in Tasks : Works(j) => Rank(task[j].kind) <= 1
  BY <1>1, <1>2 DEF Exclusive
<1>5. ~connected /\ loginState = "await_2fa" =>
        \A j \in Tasks : Works(j) => Rank(task[j].kind) <= 2
  BY <1>1, <1>2 DEF Exclusive
<1>6. loginState = "await_code" => ReadyForCode
  BY DEF ReadyForCode, CalmLogin, StateInv
<1>7. loginState = "await_2fa" => ReadyForPassword
  BY DEF ReadyForPassword
<1> QED
  BY <1>1, <1>2, <1>3, <1>4, <1>5, <1>6, <1>7 DEF Ready

\* A thread that has one of the login's coroutines scheduled, under the lock.
LEMMA LockedKeeps ==
  ASSUME LoginInv, NEW t \in Callers, ~Waits(t), NEW kind \in Exclusive, NEW as \in LockKinds,
         Serves(kind, as), Schedule(t, kind, as), holder \subseteq {t}, holder' = {t},
         UNCHANGED <<session, late, sent>>,
         ~late => Ready(kind) /\ \A j \in Tasks : Works(j) => Rank(task[j].kind) <= Rank(kind),
         kind = "begin" => loginState = "disconnected"
  PROVE  LoginInv'
<1>1. kind \in CoroutineKinds /\ as # "send"
  BY DEF CoroutineKinds, LockKinds
<1>2. Waiting(t, kind, as)
  <2>1. LoginTypes /\ as \in LockKinds \cup {"read", "send"}
    BY DEF LoginInv
  <2> QED
    BY <1>1, <2>1, ScheduledWaits
<1>3. LoginTypes' /\ CallsInv' /\ SendInv'
  BY <1>1, <1>2, WaitingCalls DEF LoginInv
<1>4. ~late => CalmLogin'
  BY <1>2, WaitingCalm DEF LoginInv
<1> QED
  BY <1>3, <1>4 DEF LoginInv

LEMMA AsksKeeps ==
  ASSUME LoginInv, NEW t \in Callers, call[t].kind = "cli", NEW state \in {"await_code", "await_2fa"},
         PromptFor(t, state), holder \subseteq {t}, holder' = {t},
         UNCHANGED <<session, task, scheduled, late, sent>>,
         Waits(t) => task[call[t].task].at = "done",
         ~late /\ state = "await_code" =>
           ReadyForCode /\ \A j \in Tasks : Works(j) => Rank(task[j].kind) <= 1,
         ~late /\ state = "await_2fa" =>
           ReadyForPassword /\ \A j \in Tasks : Works(j) => Rank(task[j].kind) <= 2
  PROVE  LoginInv'
<1>1. PICK place \in Prompts :
        /\ place = IF state = "await_code" THEN "prompt code" ELSE "prompt password"
        /\ call' = [call EXCEPT ![t].at = place, ![t].kind = "cli"]
  BY DEF PromptFor, Prompts
<1>2. PICK f : f = [call EXCEPT ![t].at = place]
  OBVIOUS
<1>3. /\ f \in [Callers -> CallRecords] /\ f[t].at = place /\ f[t].task = call[t].task
      /\ \A u \in Callers : u # t => f[u] = call[u]
  BY <1>2 DEF LoginInv, LoginTypes, CallRecords
<1>4. call' = [f EXCEPT ![t].kind = "cli"] /\ "cli" \in LockKinds
  BY <1>1, <1>2 DEF LockKinds
<1>5. /\ call' \in [Callers -> CallRecords] /\ call'[t].at = place /\ call'[t].task = call[t].task
      /\ call'[t].kind = "cli"
      /\ \A u \in Callers : u # t => call'[u] = call[u]
  BY <1>3, <1>4 DEF CallRecords
<1>6. Asks(t)
  BY <1>5 DEF Asks
<1>7. call[t].task # None => task[call[t].task].kind # "send"
  BY DEF LoginInv, SendInv
<1>8. CallsInv' /\ SendInv'
  BY <1>6, <1>7, AsksCalls DEF LoginInv
<1>9. LoginTypes'
  BY <1>5 DEF LoginInv, LoginTypes, session
<1>10. ~late => CalmLogin'
  <2>1. ~WaitsToLeave(t)
    BY DEF WaitsToLeave
  <2>2. /\ call'[t].at = "prompt code" => state = "await_code"
        /\ call'[t].at = "prompt password" => state = "await_2fa"
    <3>1. call'[t].at = place
      BY <1>5
    <3>0. place = IF state = "await_code" THEN "prompt code" ELSE "prompt password"
      BY <1>1
    <3>2. CASE state = "await_code"
      BY <3>0, <3>1, <3>2
    <3>3. CASE state = "await_2fa"
      BY <3>0, <3>1, <3>3
    <3> QED
      BY <3>2, <3>3
  <2> QED
    BY <1>6, <2>1, <2>2, AsksCalm DEF LoginInv
<1> QED
  BY <1>8, <1>9, <1>10 DEF LoginInv

\* A call that fails leaves, or a read comes again.
LEMMA FailIs ==
  ASSUME LoginTypes, NEW t \in Callers, NEW transient, Fail(t, transient)
  PROVE  /\ call' \in [Callers -> CallRecords]
         /\ \A u \in Callers : u # t => call'[u] = call[u]
         /\ call'[t].at \in {"idle", "entry"} /\ call'[t].kind # "send"
         /\ call'[t].task # None => call'[t].task = call[t].task /\ call[t].kind = "read"
<1>1. CASE transient /\ MayRetry(t)
  <2>1. call' = [call EXCEPT ![t].at = "entry", ![t].attempt = 1] /\ call[t].kind = "read"
    BY <1>1 DEF Fail, MayRetry
  <2>2. PICK f : f = [call EXCEPT ![t].at = "entry"]
    OBVIOUS
  <2>3. /\ f \in [Callers -> CallRecords] /\ f[t].at = "entry" /\ f[t].kind = "read"
        /\ f[t].task = call[t].task
        /\ \A u \in Callers : u # t => f[u] = call[u]
    BY <2>1, <2>2 DEF LoginTypes, CallRecords
  <2>4. call' = [f EXCEPT ![t].attempt = 1]
    BY <2>1, <2>2
  <2> QED
    <3>1. PICK one \in 0..1 : one = 1
      OBVIOUS
    <3>2. call' = [f EXCEPT ![t].attempt = one]
      BY <2>4, <3>1
    <3>3. /\ call' \in [Callers -> CallRecords] /\ call'[t].at = "entry" /\ call'[t].kind = "read"
          /\ call'[t].task = call[t].task
          /\ \A u \in Callers : u # t => call'[u] = call[u]
      BY <2>3, <3>2 DEF CallRecords
    <3> QED
      BY <2>1, <3>3
<1>2. CASE ~(transient /\ MayRetry(t))
  <2>1. PICK r : r = Idle
    OBVIOUS
  <2>2. call' = [call EXCEPT ![t] = r]
    BY <1>2, <2>1 DEF Fail
  <2> QED
    BY <2>1, <2>2, IdleIs DEF LoginTypes
<1> QED
  BY <1>1, <1>2

\* A thread that has waited, and gives up or goes on.
LEMMA LeaverIsAside ==
  ASSUME LoginInv, NEW t \in Callers, Waits(t), OnlyCancels(t), Release(t),
         call' = [call EXCEPT ![t] = Idle] \/ \E transient : Fail(t, transient),
         UNCHANGED <<scheduled, sent>>
  PROVE  Aside(t)
<1>1. /\ call' \in [Callers -> CallRecords]
      /\ \A u \in Callers : u # t => call'[u] = call[u]
      /\ call'[t].at \in {"idle", "entry"} /\ call'[t].kind # "send"
      /\ call'[t].task # None => call'[t].task = call[t].task /\ call[t].kind = "read"
  <2>1. CASE call' = [call EXCEPT ![t] = Idle]
    BY <2>1, IdleIs DEF LoginInv, LoginTypes
  <2>2. CASE \E transient : Fail(t, transient)
    BY <2>2, FailIs DEF LoginInv
  <2> QED
    BY <2>1, <2>2
<1>2. call[t].kind = "read" => task[call[t].task].kind # "send"
  BY WaitedFor DEF LoginInv, Serves
<1>3. sent \in [Callers -> Nat] /\ sent[t] <= 1
  BY DEF LoginInv, LoginTypes, SendInv
<1> QED
  BY <1>1, <1>2, <1>3 DEF Aside, Release

\* A disconnect that has done its work, and notes it.
LEMMA LeftIsCalm ==
  ASSUME LoginTypes, CallsInv, CalmLogin, NEW t \in Callers, Aside(t), WaitsToLeave(t),
         task[call[t].task].at = "done", loginState' = "disconnected",
         UNCHANGED <<connected, client, open, account, task>>
  PROVE  CalmLogin'
<1>1. Waits(t) /\ call[t].kind = "disconnect" /\ call[t].kind \in LockKinds
  BY DEF WaitsToLeave, LockKinds
<1>2. NoneWorks /\ ~connected /\ client = None
  BY <1>1 DEF CalmLogin, InOrderOfLogin, StateInv
<1>3. \A j \in Tasks : ~Works(j)' /\ (Good(j)' <=> Good(j))
  BY <1>2 DEF NoneWorks, Works, Live, Good
<1>4. ASSUME NEW u \in Callers PROVE ~Locks(u)'
  <2>1. CASE u = t
    BY <2>1 DEF Aside, Locks, Waits, Prompts
  <2>2. CASE u # t
    <3>1. ~Locks(u)
      BY <1>1, <2>2, OneLocks DEF Locks
    <3> QED
      BY <2>2, <3>1 DEF Aside, Locks, Waits
  <2> QED
    BY <2>1, <2>2
<1>5. InOrderOfLogin'
  <2>1. \A j \in Tasks : task[j].kind = "disconnect" => ~task[j].cancel
    BY DEF CalmLogin, InOrderOfLogin
  <2>2. \A u \in Callers : ~(Waits(u)' /\ call'[u].kind \in LockKinds)
    BY <1>4 DEF Locks, Waits
  <2> QED
    BY <1>3, <2>1, <2>2 DEF InOrderOfLogin
<1>6. WorkIsReady'
  <2>1. \A u \in Callers : call'[u].at \notin Prompts /\ ~(Waits(u)' /\ call'[u].kind = "cli")
    BY <1>4 DEF Locks, Waits, LockKinds
  <2> QED
    BY <1>3, <2>1 DEF WorkIsReady, Prompts
<1>7. StateInv'
  BY <1>2 DEF CalmLogin, StateInv
<1>8. ClientInv'
  <2>1. \A c \in open : ~Good(c)
    BY <1>2 DEF CalmLogin, ClientInv, LoginTypes, Tasks, None
  <2> QED
    BY <1>2, <1>3, <2>1 DEF ClientInv, LoginTypes
<1> QED
  BY <1>5, <1>6, <1>7, <1>8 DEF CalmLogin

LEMMA CallKeeps ==
  ASSUME LoginInv, NEW t \in Callers, NEW kind \in CallKinds, Call(t, kind)
  PROVE  LoginInv'
<1>1. PICK r : r = [Idle EXCEPT !.at = "entry", !.kind = kind]
  OBVIOUS
<1>2. r = [at |-> "entry", kind |-> kind, task |-> None, attempt |-> 0]
  BY <1>1 DEF Idle
<1>3. r \in CallRecords /\ r.at = "entry" /\ r.task = None
  <2>1. kind \in LockKinds \cup {"read", "send"}
    BY LoginAssumption DEF LockKinds
  <2> QED
    BY <1>2, <2>1 DEF CallRecords
<1>4. call' = [call EXCEPT ![t] = r] /\ sent' = [sent EXCEPT ![t] = 0] /\ call[t].at = "idle"
      /\ UNCHANGED <<session, task, scheduled, holder, late>>
  BY <1>1 DEF Call
<1>5. /\ sent' \in [Callers -> Nat] /\ sent'[t] = 0
      /\ \A u \in Callers : u # t => sent'[u] = sent[u]
  BY <1>4 DEF LoginInv, LoginTypes
<1>6. sent'[t] <= 1 /\ call[t].at \in {"idle", "entry"}
  BY <1>4, <1>5
<1> QED
  BY <1>3, <1>4, <1>5, <1>6, AwayKeeps

LEMMA StartLoginKeeps ==
  ASSUME LoginInv, NEW t \in Callers, StartLogin(t)
  PROVE  LoginInv'
<1>1. /\ call[t].at = "entry" /\ holder = {} /\ UNCHANGED <<session, late, sent>>
      /\ ~Waits(t)
  BY DEF StartLogin, Waits
<1>2. CASE connected \/ loginState # "disconnected"
  BY <1>1, <1>2, ReturnKeeps DEF StartLogin
<1>3. CASE ~connected /\ loginState = "disconnected"
  <2>1. Schedule(t, "begin", "start") /\ holder' = {t} /\ holder \subseteq {t}
    BY <1>1, <1>3 DEF StartLogin, Take
  <2>2. ~late => Ready("begin") /\ \A j \in Tasks : Works(j) => Rank(task[j].kind) <= Rank("begin")
    BY <1>3, ReadyByState DEF LoginInv
  <2>3. Serves("begin", "start") /\ "begin" \in Exclusive /\ "start" \in LockKinds
    BY DEF Serves, Exclusive, LockKinds
  <2> QED
    BY <1>1, <1>3, <2>1, <2>2, <2>3, LockedKeeps
<1> QED
  BY <1>2, <1>3

LEMMA SubmitKeeps ==
  ASSUME LoginInv, NEW t \in Callers, NEW kind \in {"code", "password"}, Submit(t, kind)
  PROVE  LoginInv'
<1>1. /\ call[t].at = "entry" /\ holder = {} /\ UNCHANGED <<session, late, sent>>
      /\ ~Waits(t)
  BY DEF Submit, Waits
<1> DEFINE state == IF kind = "code" THEN "await_code" ELSE "await_2fa"
<1>2. CASE connected \/ loginState # state
  BY <1>1, <1>2, ReturnKeeps DEF Submit
<1>3. CASE ~connected /\ loginState = state
  <2>1. Schedule(t, kind, kind) /\ holder' = {t} /\ holder \subseteq {t}
    BY <1>1, <1>3 DEF Submit, Take
  <2>2. ~late => Ready(kind) /\ \A j \in Tasks : Works(j) => Rank(task[j].kind) <= Rank(kind)
    BY <1>3, ReadyByState DEF LoginInv
  <2>3. Serves(kind, kind) /\ kind \in Exclusive /\ kind \in LockKinds /\ kind # "begin"
    BY DEF Serves, Exclusive, LockKinds
  <2> QED
    BY <1>1, <2>1, <2>2, <2>3, LockedKeeps
<1> QED
  BY <1>2, <1>3

LEMMA ConnectKeeps ==
  ASSUME LoginInv, NEW t \in Callers, Connect(t)
  PROVE  LoginInv'
<1>1. /\ call[t].at = "entry" /\ call[t].kind = "cli" /\ holder = {}
      /\ UNCHANGED <<session, late, sent>> /\ ~Waits(t)
  BY DEF Connect, Waits
<1>2. connected \in BOOLEAN /\ loginState \in LoginStates
  BY DEF LoginInv, LoginTypes
<1>3. CASE connected \/ loginState = "connected"
  <2>1. Return(t) /\ UNCHANGED holder
    BY <1>3 DEF Connect
  <2> QED
    BY <1>1, <2>1, ReturnKeeps
<1>4. CASE ~connected /\ loginState = "disconnected"
  <2>1. Schedule(t, "begin", "cli") /\ holder' = {t} /\ holder \subseteq {t}
    BY <1>1, <1>4 DEF Connect, Take
  <2>2. ~late => Ready("begin") /\ \A j \in Tasks : Works(j) => Rank(task[j].kind) <= Rank("begin")
    BY <1>4, ReadyByState DEF LoginInv
  <2>3. Serves("begin", "cli") /\ "begin" \in Exclusive /\ "cli" \in LockKinds
    BY DEF Serves, Exclusive, LockKinds
  <2> QED
    BY <1>1, <1>4, <2>1, <2>2, <2>3, LockedKeeps
<1>5. ASSUME ~connected, loginState \in {"await_code", "await_2fa"}
      PROVE  LoginInv'
  <2>1. PICK state \in {"await_code", "await_2fa"} : state = loginState
    BY <1>5
  <2>2. PromptFor(t, state) /\ holder' = {t} /\ holder \subseteq {t} /\ UNCHANGED <<task, scheduled>>
    BY <1>1, <1>5, <2>1 DEF Connect, Take
  <2>3. /\ ~late /\ state = "await_code" =>
             ReadyForCode /\ \A j \in Tasks : Works(j) => Rank(task[j].kind) <= 1
        /\ ~late /\ state = "await_2fa" =>
             ReadyForPassword /\ \A j \in Tasks : Works(j) => Rank(task[j].kind) <= 2
    <3>1. Rank("code") = 1 /\ Rank("password") = 2
      BY DEF Rank
    <3> QED
      BY <1>5, <2>1, <3>1, ReadyByState DEF LoginInv
  <2> QED
    BY <1>1, <2>2, <2>3, AsksKeeps
<1> QED
  BY <1>2, <1>3, <1>4, <1>5 DEF LoginStates

LEMMA AnswerKeeps ==
  ASSUME LoginInv, NEW t \in Callers, Answer(t)
  PROVE  LoginInv'
<1>1. /\ UNCHANGED <<session, holder, late, sent>>
      /\ \/ call[t].at = "prompt code" /\ Schedule(t, "code", "cli")
         \/ call[t].at = "prompt password" /\ Schedule(t, "password", "cli")
  BY DEF Answer
<1>2. call[t].at \in Prompts /\ ~Waits(t)
  BY <1>1 DEF Prompts, Waits
<1>3. holder = {t}
  <2>1. Locks(t)
    BY <1>2 DEF Locks
  <2> QED
    BY <2>1 DEF LoginInv, CallsInv
<1>4. CASE call[t].at = "prompt code" /\ Schedule(t, "code", "cli")
  <2>1. ~late => Ready("code") /\ \A j \in Tasks : Works(j) => Rank(task[j].kind) <= Rank("code")
    BY <1>4 DEF LoginInv, CalmLogin, WorkIsReady, Ready, Rank
  <2>2. Serves("code", "cli") /\ "code" \in Exclusive /\ "cli" \in LockKinds
    BY DEF Serves, Exclusive, LockKinds
  <2> QED
    BY <1>1, <1>2, <1>3, <1>4, <2>1, <2>2, LockedKeeps
<1>5. CASE call[t].at = "prompt password" /\ Schedule(t, "password", "cli")
  <2>1. ~late =>
          Ready("password") /\ \A j \in Tasks : Works(j) => Rank(task[j].kind) <= Rank("password")
    BY <1>5 DEF LoginInv, CalmLogin, WorkIsReady, Ready, Rank
  <2>2. Serves("password", "cli") /\ "password" \in Exclusive /\ "cli" \in LockKinds
    BY DEF Serves, Exclusive, LockKinds
  <2> QED
    BY <1>1, <1>2, <1>3, <1>5, <2>1, <2>2, LockedKeeps
<1> QED
  BY <1>1, <1>4, <1>5

LEMMA DisconnectKeeps ==
  ASSUME LoginInv, NEW t \in Callers, Disconnect(t)
  PROVE  LoginInv'
<1>1. /\ call[t].at = "entry" /\ holder = {} /\ UNCHANGED <<session, late, sent>>
      /\ ~Waits(t)
  BY DEF Disconnect, Waits
<1>2. CASE ~connected
  BY <1>1, <1>2, ReturnKeeps DEF Disconnect
<1>3. CASE connected
  <2>1. Schedule(t, "disconnect", "disconnect") /\ holder' = {t} /\ holder \subseteq {t}
    BY <1>1, <1>3 DEF Disconnect, Take
  <2>2. ~late =>
          /\ Ready("disconnect")
          /\ \A j \in Tasks : Works(j) => Rank(task[j].kind) <= Rank("disconnect")
    BY <1>3, ReadyByState DEF LoginInv
  <2>3. Serves("disconnect", "disconnect") /\ "disconnect" \in Exclusive
          /\ "disconnect" \in LockKinds
    BY DEF Serves, Exclusive, LockKinds
  <2> QED
    BY <1>1, <2>1, <2>2, <2>3, LockedKeeps
<1> QED
  BY <1>2, <1>3

LEMMA RunKeeps ==
  ASSUME LoginInv, NEW t \in Callers, Run(t)
  PROVE  LoginInv'
<1>1. /\ call[t].at = "entry" /\ call[t].kind \in {"read", "send"}
      /\ UNCHANGED <<session, holder, late, sent>> /\ ~Waits(t) /\ ~Locks(t)
  BY DEF Run, Waits, Locks, Prompts
<1>2. CASE ~connected
  BY <1>1, <1>2, ReturnKeeps DEF Run
<1>3. CASE connected
  <2>1. PICK kind \in {"read", "send"} : kind = call[t].kind
    BY <1>1
  <2>2. Schedule(t, kind, kind)
    BY <1>3, <2>1 DEF Run
  <2>3. /\ Serves(kind, kind) /\ kind \in CoroutineKinds /\ kind \notin LockKinds
        /\ kind \notin Exclusive /\ kind \in LockKinds \cup {"read", "send"}
    BY DEF Serves, Exclusive, LockKinds, CoroutineKinds
  <2>4. t \notin holder
    BY <1>1 DEF LoginInv, CallsInv
  <2>5. Waiting(t, kind, kind)
    BY <1>1, <2>2, <2>3, <2>4, ScheduledWaits DEF LoginInv
  <2>6. kind = "send" => sent[t] = 0
    BY <1>1, <2>1 DEF LoginInv, SendInv
  <2>7. LoginTypes' /\ CallsInv' /\ SendInv'
    BY <1>1, <2>5, <2>6, WaitingCalls DEF LoginInv
  <2>8. ~late => CalmLogin'
    <3>1. kind # "begin"
      OBVIOUS
    <3> QED
      BY <1>1, <2>3, <2>5, <3>1, WaitingCalm DEF LoginInv
  <2> QED
    BY <1>1, <2>7, <2>8 DEF LoginInv
<1> QED
  BY <1>2, <1>3

LEMMA ResumeKeeps ==
  ASSUME LoginInv, NEW t \in Callers, Resume(t)
  PROVE  LoginInv'
<1>1. /\ Waits(t) /\ task[call[t].task].at = "done"
      /\ loginState' = IF call[t].kind = "disconnect" THEN "disconnected" ELSE loginState
      /\ UNCHANGED <<connected, client, open, account, task, scheduled, late, sent>>
  BY DEF Resume, Waits
<1>2. CASE call[t].kind = "cli" /\ task[call[t].task].result \in {"await_code", "await_2fa"}
  <2>1. PICK state \in {"await_code", "await_2fa"} : state = task[call[t].task].result
    BY <1>2
  <2>2. PromptFor(t, state) /\ UNCHANGED holder
    BY <1>2, <2>1 DEF Resume
  <2>3. holder = {t}
    <3>1. Locks(t)
      BY <1>1, <1>2 DEF Locks, LockKinds
    <3> QED
      BY <3>1 DEF LoginInv, CallsInv
  <2>4. ~late =>
          /\ NoneWorks
          /\ state = "await_code" => ReadyForCode
          /\ state = "await_2fa" => ReadyForPassword
    BY <1>1, <1>2, <2>1 DEF LoginInv, CalmLogin, InOrderOfLogin, WorkIsReady, LockKinds
  <2>5. UNCHANGED session
    BY <1>1, <1>2 DEF session
  <2> QED
    BY <1>1, <1>2, <2>2, <2>3, <2>4, <2>5, AsksKeeps DEF NoneWorks
<1>3. CASE ~(call[t].kind = "cli" /\ task[call[t].task].result \in {"await_code", "await_2fa"})
  <2>1. /\ Release(t)
        /\ call' = [call EXCEPT ![t] = Idle] \/ \E transient : Fail(t, transient)
    BY <1>3 DEF Resume
  <2>2. OnlyCancels(t)
    BY <1>1 DEF OnlyCancels, LoginInv, LoginTypes
  <2>3. Aside(t)
    BY <1>1, <2>1, <2>2, LeaverIsAside
  <2>4. CallsInv' /\ SendInv'
    BY <2>3, AsideCalls DEF LoginInv
  <2>5. LoginTypes'
    BY <1>1, <2>3 DEF LoginInv, LoginTypes, Aside, LoginStates
  <2>6. ~late => CalmLogin'
    <3>1. CASE call[t].kind = "disconnect"
      BY <1>1, <2>3, <3>1, LeftIsCalm DEF LoginInv, WaitsToLeave
    <3>2. CASE call[t].kind # "disconnect"
      <4>1. UNCHANGED session /\ ~WaitsToLeave(t)
        BY <1>1, <3>2 DEF session, WaitsToLeave
      <4> QED
        BY <1>1, <2>3, <4>1, AsideCalm DEF LoginInv
    <3> QED
      BY <3>1, <3>2
  <2> QED
    BY <1>1, <2>4, <2>5, <2>6 DEF LoginInv
<1> QED
  BY <1>2, <1>3

LEMMA TimeoutKeeps ==
  ASSUME LoginInv, NEW t \in Callers, Timeout(t)
  PROVE  LoginInv'
<1>1. PICK i : i = call[t].task
  OBVIOUS
<1>2. /\ Waits(t) /\ call[t].kind # "disconnect"
      /\ task' = [task EXCEPT ![i].cancel = TRUE]
      /\ Release(t) /\ \E transient : Fail(t, transient)
      /\ UNCHANGED <<session, scheduled, late, sent>>
  BY <1>1 DEF Timeout, Waits
<1>3. i \in Tasks
  BY <1>1, <1>2, WaitedFor DEF LoginInv
<1>4. /\ task' \in [Tasks -> Coroutines] /\ task'[i].cancel
      /\ task'[i].kind = task[i].kind /\ task'[i].at = task[i].at
      /\ task'[i].uses = task[i].uses /\ task'[i].result = task[i].result
      /\ \A j \in Tasks : j # i => task'[j] = task[j]
  BY <1>2, <1>3 DEF LoginInv, LoginTypes, Coroutines
<1>5. OnlyCancels(t)
  BY <1>1, <1>2, <1>4 DEF OnlyCancels
<1>6. Aside(t)
  BY <1>2, <1>5, LeaverIsAside
<1>7. CallsInv' /\ SendInv'
  BY <1>6, AsideCalls DEF LoginInv
<1>8. LoginTypes'
  BY <1>2, <1>6, <1>4 DEF LoginInv, LoginTypes, Aside, session
<1>9. ~late => CalmLogin'
  BY <1>1, <1>2, <1>4, <1>6, AsideCalm DEF LoginInv, WaitsToLeave
<1> QED
  BY <1>2, <1>7, <1>8, <1>9 DEF LoginInv

LEMMA GiveUpKeeps ==
  ASSUME LoginInv, NEW t \in Callers, GiveUpDisconnect(t)
  PROVE  LoginInv'
<1>1. /\ Waits(t) /\ Release(t) /\ call' = [call EXCEPT ![t] = Idle]
      /\ late' = TRUE /\ loginState' = "disconnected"
      /\ UNCHANGED <<connected, client, open, account, task, scheduled, sent>>
  BY DEF GiveUpDisconnect, Waits
<1>2. OnlyCancels(t)
  BY <1>1 DEF OnlyCancels, LoginInv, LoginTypes
<1>3. Aside(t)
  BY <1>1, <1>2, LeaverIsAside
<1>4. CallsInv' /\ SendInv'
  BY <1>3, AsideCalls DEF LoginInv
<1>5. LoginTypes'
  BY <1>1, <1>3 DEF LoginInv, LoginTypes, Aside, LoginStates
<1> QED
  BY <1>1, <1>4, <1>5 DEF LoginInv

LEMMA LoginStep == LoginInv /\ [LoginNext]_loginVars => LoginInv'
<1> SUFFICES ASSUME LoginInv, [LoginNext]_loginVars PROVE LoginInv'
  OBVIOUS
<1>1. CASE UNCHANGED loginVars
  <2>1. UNCHANGED <<connected, loginState, client, holder, call, task, scheduled, open,
                    account, late, sent>>
    BY <1>1 DEF loginVars
  <2>2. LoginTypes' = LoginTypes
    BY <2>1 DEF LoginTypes
  <2>3. CallsInv' = CallsInv
    BY <2>1 DEF CallsInv, Waits, Locks, Placed
  <2>4. SendInv' = SendInv
    BY <2>1 DEF SendInv, Waits, Live
  <2>5. InOrderOfLogin' = InOrderOfLogin
    BY <2>1 DEF InOrderOfLogin, NoneWorks, Works, Live, Waits
  <2>6. WorkIsReady' = WorkIsReady
    BY <2>1 DEF WorkIsReady, Ready, Going, ReadyForCode, ReadyForPassword, Works, Live, Waits
  <2>7. StateInv' = StateInv
    BY <2>1 DEF StateInv, WaitsToLeave, Waits
  <2>8. ClientInv' = ClientInv
    BY <2>1 DEF ClientInv, Good, Works, Live
  <2> QED
    BY <2>1, <2>2, <2>3, <2>4, <2>5, <2>6, <2>7, <2>8 DEF LoginInv, CalmLogin
<1>2. ASSUME NEW t \in Callers, NEW kind \in CallKinds, Call(t, kind) PROVE LoginInv'
  BY <1>2, CallKeeps
<1>3. ASSUME NEW t \in Callers,
             StartLogin(t) \/ Submit(t, "code") \/ Submit(t, "password")
               \/ Connect(t) \/ Answer(t) \/ Disconnect(t) \/ Run(t)
      PROVE  LoginInv'
  BY <1>3, StartLoginKeeps, SubmitKeeps, ConnectKeeps, AnswerKeeps, DisconnectKeeps, RunKeeps
<1>4. ASSUME NEW t \in Callers, Resume(t) \/ Timeout(t) \/ GiveUpDisconnect(t) PROVE LoginInv'
  BY <1>4, ResumeKeeps, TimeoutKeeps, GiveUpKeeps
<1>5. ASSUME NEW i \in Tasks, LoopStep(i) PROVE LoginInv'
  BY <1>5, LoopKeeps
<1> QED
  BY <1>1, <1>2, <1>3, <1>4, <1>5 DEF LoginNext, LoopStep

\* For any number of callers and of coroutines, and whatever times out, fails
\* or is cancelled: one thread at most holds the account's lock, a send is
\* taken at most once, and, until a disconnect has outlasted its wait,
\* is_connected and login_state say what is so, and no login that goes well
\* leaves an open client behind (PersonalTelegram).
THEOREM LoginStaysSafe == LoginSpec => []LoginSafe
<1>1. LoginInv => LoginSafe
  <2> SUFFICES ASSUME LoginInv PROVE LoginSafe
    OBVIOUS
  <2>1. Cardinality(holder) <= 1
    <3>1. CASE holder = {}
      BY <3>1, FS_EmptySet
    <3>2. CASE holder # {}
      <4>0. PICK t : t \in holder
        BY <3>2
      <4>1. \A u \in holder : u = t
        BY <4>0 DEF LoginInv, CallsInv
      <4>2. holder = {t}
        BY <4>0, <4>1
      <4> QED
        BY <4>2, FS_Singleton
    <3> QED
      BY <3>1, <3>2
  <2>2. LoginTypeOK
    BY <2>1 DEF LoginInv, LoginTypes, LoginStates, CallsInv, Locks, Waits, Prompts, LoginTypeOK
  <2>3. ConnectedIsTrue
    BY DEF ConnectedIsTrue, LoginInv, CalmLogin, StateInv, WaitsToLeave, Waits
  <2>4. AbandonedByFailures
    BY DEF AbandonedByFailures, LoginInv, CalmLogin, ClientInv, Good
  <2>5. SendsOnce
    BY DEF SendsOnce, LoginInv, SendInv
  <2> QED
    BY <2>2, <2>3, <2>4, <2>5 DEF LoginSafe
<1> QED
  BY <1>1, LoginStart, LoginStep, PTL DEF LoginSpec

=============================================================================
