--------------------------- MODULE StorageProofs ---------------------------
(***************************************************************************)
(* Proofs about what is kept in files: what the table of chat sessions and *)
(* the history files keep, for any number of sessions, runs, messages,     *)
(* runtimes and clock readings, and any cap and timeout; and what becomes  *)
(* of config.json and of the accounts of Telegram that it lists, for any   *)
(* number of threads, changes and starts.                                  *)
(***************************************************************************)
EXTENDS Sessions, Configuration, TelegramAccounts, FiniteSetTheorems, SequenceTheorems,
        TLAPS

-----------------------------------------------------------------------------
(* Tables of sessions.                                                     *)

Tables == [Sids -> Runtimes \cup {NoRuntime}]

\* What dropping sessions from a table leaves: each session as it was or not live.
Shrinks(old, new) ==
    new \in Tables /\ \A s \in Sids : new[s] \in {old[s], NoRuntime}

LEMMA ShrinkLive ==
  ASSUME NEW old \in Tables, NEW new, Shrinks(old, new), IsFiniteSet(Live(old))
  PROVE  /\ Live(new) \subseteq Live(old) /\ IsFiniteSet(Live(new))
         /\ Cardinality(Live(new)) <= Cardinality(Live(old))
<1>1. Live(new) \subseteq Live(old)
  BY DEF Shrinks, Live
<1> QED
  BY <1>1, FS_Subset

LEMMA StaleShrinks ==
  ASSUME NEW map \in Tables
  PROVE  Shrinks(map, WithoutStale(map))
  BY SessionsAssumption DEF Shrinks, WithoutStale, Tables, NoRuntime, Runtimes

\* Of a table with one session too many the cap takes one.
LEMMA CapShrinks ==
  ASSUME NEW map \in Tables, NEW new \in WithinCap(map)
  PROVE  Shrinks(map, new)
  BY DEF WithinCap, Shrinks, Tables, Live

LEMMA CapHolds ==
  ASSUME NEW map \in Tables, IsFiniteSet(Live(map)),
         Cardinality(Live(map)) <= MaxSessions + 1, NEW new \in WithinCap(map)
  PROVE  Cardinality(Live(new)) <= MaxSessions
<1>1. CASE Cardinality(Live(map)) <= MaxSessions
  BY <1>1 DEF WithinCap
<1>2. CASE ~(Cardinality(Live(map)) <= MaxSessions)
  <2>1. PICK s \in Live(map) : new = [map EXCEPT ![s] = NoRuntime]
    BY <1>2 DEF WithinCap
  <2>2. Live(new) = Live(map) \ {s}
    BY <2>1 DEF Live, Tables
  <2>3. Cardinality(Live(new)) = Cardinality(Live(map)) - 1
    BY <2>1, <2>2, FS_RemoveElement
  <2>4. Cardinality(Live(map)) \in Nat /\ MaxSessions \in Nat
    BY FS_CardinalityType, SessionsAssumption
  <2> QED
    BY <2>3, <2>4
<1> QED
  BY <1>1, <1>2

\* What _close_stale_sessions leaves.
LEMMA CloseShrinks ==
  ASSUME NEW map \in Tables, NEW new \in CloseStale(map)
  PROVE  Shrinks(map, new)
<1>1. Shrinks(map, WithoutStale(map)) /\ WithoutStale(map) \in Tables
  BY StaleShrinks DEF Shrinks
<1>2. Shrinks(WithoutStale(map), new)
  BY <1>1, CapShrinks DEF CloseStale
<1> QED
  BY <1>1, <1>2 DEF Shrinks

LEMMA CloseHolds ==
  ASSUME NEW map \in Tables, IsFiniteSet(Live(map)),
         Cardinality(Live(map)) <= MaxSessions + 1, NEW new \in CloseStale(map)
  PROVE  Cardinality(Live(new)) <= MaxSessions
<1> DEFINE w == WithoutStale(map)
<1>1. Shrinks(map, w) /\ w \in Tables
  BY StaleShrinks DEF Shrinks
<1>2. /\ IsFiniteSet(Live(w)) /\ Cardinality(Live(w)) <= Cardinality(Live(map))
      /\ Cardinality(Live(w)) \in Nat /\ Cardinality(Live(map)) \in Nat
  BY <1>1, ShrinkLive, FS_CardinalityType
<1>3. Cardinality(Live(w)) <= MaxSessions + 1
  BY <1>2, SessionsAssumption
<1>4. new \in WithinCap(w)
  BY DEF CloseStale
<1> QED
  BY <1>1, <1>2, <1>3, <1>4, CapHolds

(***************************************************************************)
(* A table within the cap loses its stale sessions only; the new session   *)
(* makes it one too many at most.                                          *)
(***************************************************************************)
Opened(s, m) ==
    \E closed \in CloseStale(sessions) :
       LET added == [closed EXCEPT ![s] = m] IN
       sessions' \in IF Cardinality(Live(added)) > MaxSessions
                     THEN CloseStale(added) ELSE {added}

LEMMA OpenSession ==
  ASSUME sessions \in Tables, IsFiniteSet(Live(sessions)),
         Cardinality(Live(sessions)) <= MaxSessions,
         NEW s \in Sids \ Live(sessions), NEW m \in Runtimes, Opened(s, m)
  PROVE  /\ sessions' \in Tables
         /\ IsFiniteSet(Live(sessions')) /\ Cardinality(Live(sessions')) <= MaxSessions
         /\ \A x \in Sids : sessions'[x] \in {IF x = s THEN m ELSE sessions[x], NoRuntime}
         /\ \A x \in Live(sessions) :
              sessions'[x] = NoRuntime /\ ~Stale(sessions[x])
                => Cardinality(Live(sessions)) = MaxSessions
<1> DEFINE closed == WithoutStale(sessions)
           added == [closed EXCEPT ![s] = m]
<1>1. Shrinks(sessions, closed) /\ closed \in Tables
  BY StaleShrinks DEF Shrinks
<1>2. /\ Live(closed) \subseteq Live(sessions) /\ IsFiniteSet(Live(closed))
      /\ Cardinality(Live(closed)) <= Cardinality(Live(sessions))
      /\ Cardinality(Live(closed)) \in Nat /\ Cardinality(Live(sessions)) \in Nat
  BY <1>1, ShrinkLive, FS_CardinalityType
<1>3. Cardinality(Live(closed)) <= MaxSessions
  BY <1>2, SessionsAssumption
<1>4. CloseStale(sessions) = {closed}
  BY <1>3 DEF CloseStale, WithinCap
<1>5. sessions' \in IF Cardinality(Live(added)) > MaxSessions
                    THEN CloseStale(added) ELSE {added}
  BY <1>4 DEF Opened
<1>6. m # NoRuntime /\ added \in Tables
  BY <1>1, SessionsAssumption DEF Tables, NoRuntime, Runtimes
<1>7. Live(added) = Live(closed) \cup {s} /\ s \notin Live(closed)
  BY <1>1, <1>2, <1>6 DEF Live, Tables
<1>8. /\ IsFiniteSet(Live(added)) /\ Cardinality(Live(added)) = Cardinality(Live(closed)) + 1
      /\ Cardinality(Live(added)) \in Nat
  <2> DEFINE L == Live(closed)
  <2>1. IsFiniteSet(L) /\ s \notin L
    BY <1>2, <1>7
  <2> HIDE DEF L
  <2>2. IsFiniteSet(L \cup {s}) /\ Cardinality(L \cup {s}) = Cardinality(L) + 1
    BY <2>1, FS_AddElement
  <2>3. Cardinality(L \cup {s}) \in Nat
    BY <2>2, FS_CardinalityType
  <2> QED
    BY <2>2, <2>3, <1>7 DEF L
<1>9. Shrinks(added, sessions')
  <2>1. CASE Cardinality(Live(added)) > MaxSessions
    BY <1>5, <1>6, <2>1, CloseShrinks
  <2>2. CASE ~(Cardinality(Live(added)) > MaxSessions)
    BY <1>5, <1>6, <2>2 DEF Shrinks
  <2> QED
    BY <2>1, <2>2
<1>10. IsFiniteSet(Live(sessions'))
  BY <1>6, <1>8, <1>9, ShrinkLive
<1>11. Cardinality(Live(sessions')) <= MaxSessions
  <2>1. CASE Cardinality(Live(added)) > MaxSessions
    <3>1. Cardinality(Live(added)) <= MaxSessions + 1
      BY <1>2, <1>3, <1>8, SessionsAssumption
    <3> QED
      BY <1>5, <1>6, <1>8, <2>1, <3>1, CloseHolds
  <2>2. CASE ~(Cardinality(Live(added)) > MaxSessions)
    <3>1. sessions' = added
      BY <1>5, <2>2
    <3>2. PICK n : n = Cardinality(Live(added))
      OBVIOUS
    <3>3. n \in Nat /\ MaxSessions \in Nat /\ ~(n > MaxSessions)
      BY <1>8, <2>2, <3>2, SessionsAssumption
    <3>4. n <= MaxSessions
      BY <3>3
    <3> QED
      BY <3>1, <3>2, <3>4
  <2> QED
    BY <2>1, <2>2
<1>12. \A x \in Sids : sessions'[x] \in {IF x = s THEN m ELSE sessions[x], NoRuntime}
  BY <1>1, <1>9 DEF Shrinks, Tables
<1>13. ASSUME NEW x \in Live(sessions), sessions'[x] = NoRuntime, ~Stale(sessions[x])
       PROVE  Cardinality(Live(sessions)) = MaxSessions
  <2>1. x # s /\ closed[x] = sessions[x] /\ added[x] = sessions[x] /\ sessions[x] # NoRuntime
    BY <1>13, <1>1 DEF Live, WithoutStale, Tables
  <2>2. sessions' # added
    BY <1>13, <2>1
  <2>3. Cardinality(Live(added)) > MaxSessions
    BY <1>5, <2>2
  <2> QED
    BY <1>2, <1>8, <2>3, SessionsAssumption
<1> QED
  BY <1>9, <1>10, <1>11, <1>12, <1>13 DEF Shrinks

-----------------------------------------------------------------------------
(***************************************************************************)
(* The table and the runtimes: a live session has a runtime that was made  *)
(* for it, and only the shared runtime has the default history.            *)
(***************************************************************************)
TableInv ==
    /\ now \in 1..MaxTime /\ made \in Runtimes
    /\ sessions \in Tables
    /\ IsFiniteSet(Live(sessions)) /\ Cardinality(Live(sessions)) <= MaxSessions
    /\ owner \in [Runtimes -> AllSids] /\ lastUsed \in [Runtimes -> 0..MaxTime]
    /\ owner[Shared] = Default
    /\ \A m \in Runtimes : m # Shared /\ m <= made => owner[m] \in Sids
    /\ \A s \in Live(sessions) :
         sessions[s] \in Runtimes /\ sessions[s] # Shared /\ sessions[s] <= made
           /\ owner[sessions[s]] = s

\* What is said and done in the sessions, and with which runtimes.
WorkInv ==
    /\ content \in [Runtimes -> SUBSET Message]
    /\ file \in [AllSids -> SUBSET Message] /\ kept \in [AllSids -> SUBSET Message]
    /\ run \in [Runs -> [at : {"idle", "running", "done"}, asked : AllSids,
                         runtime : Runtimes, next : 1..(MaxMessages + 1)]]
    /\ \A r \in Runs : run[r].runtime <= made

LEMMA Numbers ==
    /\ MaxRuntimes \in Nat /\ MaxSessions \in Nat /\ MaxTime \in Nat /\ MaxMessages \in Nat
    /\ Shared \in Runtimes /\ Runtimes = 0..MaxRuntimes /\ NoRuntime \notin Runtimes
    /\ Default \notin Sids
  BY SessionsAssumption DEF Runtimes, Shared, NoRuntime

(***************************************************************************)
(* _runtime_for hands out the session's own runtime, and at most makes one *)
(* more; the runtimes there are keep their histories.                      *)
(***************************************************************************)
Found(s, m) ==
    /\ TableInv'
    /\ made <= made' /\ m <= made' /\ owner'[m] = s
    /\ \A k \in Runtimes : k # m => owner'[k] = owner[k]
    /\ m <= made => owner' = owner
    /\ \A x \in Live(sessions') :
         (sessions'[x] = m /\ x = s) \/ (x \in Live(sessions) /\ sessions'[x] = sessions[x])
    /\ m > made => made' = m /\ made' # made /\ s \in Sids \ Live(sessions)
    /\ m <= made => \/ m = Shared
                    \/ s \in Live(sessions) /\ sessions[s] = m

LEMMA Lookup ==
  ASSUME TableInv, now' = now, NEW s \in AllSids, NEW m \in Runtimes, RuntimeFor(s, m)
  PROVE  Found(s, m)
<1> USE Numbers
<1>1. CASE SharedRuntime(s, m)
  BY <1>1 DEF SharedRuntime, Found, TableInv, Shared
<1>2. CASE LiveRuntime(s, m)
  <2>1. /\ s \in Live(sessions) /\ m = sessions[s]
        /\ lastUsed' = [lastUsed EXCEPT ![m] = now]
        /\ made' = made /\ sessions' = sessions /\ owner' = owner
    BY <1>2 DEF LiveRuntime
  <2>2. lastUsed' \in [Runtimes -> 0..MaxTime]
    BY <2>1 DEF TableInv
  <2>3. TableInv'
    BY <2>1, <2>2 DEF TableInv
  <2>4. m <= made /\ m # Shared /\ owner[m] = s /\ made \in Nat /\ m \in Nat
    BY <2>1 DEF TableInv
  <2> QED
    BY <2>1, <2>3, <2>4 DEF Found
<1>3. CASE NewRuntime(s, m)
  <2>1. /\ s \in Sids \ Live(sessions) /\ made < MaxRuntimes /\ m = made + 1 /\ made' = m
        /\ owner' = [owner EXCEPT ![m] = s] /\ Opened(s, m)
        /\ lastUsed' = [lastUsed EXCEPT ![m] = now]
    BY <1>3 DEF NewRuntime, Opened
  <2>2. /\ sessions' \in Tables
        /\ IsFiniteSet(Live(sessions')) /\ Cardinality(Live(sessions')) <= MaxSessions
        /\ \A x \in Sids : sessions'[x] \in {IF x = s THEN m ELSE sessions[x], NoRuntime}
    BY <2>1, OpenSession DEF TableInv
  <2>3. /\ made \in Nat /\ m \in Nat /\ m > made /\ m # Shared /\ made <= made'
        /\ owner' \in [Runtimes -> AllSids] /\ owner'[m] = s
        /\ lastUsed' \in [Runtimes -> 0..MaxTime]
        /\ \A k \in Runtimes : k # m => owner'[k] = owner[k]
    BY <2>1 DEF TableInv, AllSids, Shared
  <2>4. \A x \in Live(sessions') :
          (sessions'[x] = m /\ x = s) \/ (x \in Live(sessions) /\ sessions'[x] = sessions[x])
    <3> SUFFICES ASSUME NEW x \in Live(sessions')
                 PROVE  (sessions'[x] = m /\ x = s) \/ (x \in Live(sessions) /\ sessions'[x] = sessions[x])
      OBVIOUS
    <3>1. x \in Sids /\ sessions'[x] # NoRuntime
      BY DEF Live
    <3>2. sessions'[x] = IF x = s THEN m ELSE sessions[x]
      BY <3>1, <2>2
    <3>3. CASE x = s
      BY <3>2, <3>3
    <3>4. CASE x # s
      <4>1. sessions'[x] = sessions[x]
        BY <3>2, <3>4
      <4>2. x \in Live(sessions)
        BY <3>1, <4>1 DEF Live
      <4> QED
        BY <4>1, <4>2
    <3> QED
      BY <3>3, <3>4
  <2>5. \A k \in Runtimes : k # Shared /\ k <= made' => owner'[k] \in Sids
    BY <2>1, <2>3 DEF TableInv
  <2>6. owner'[Shared] = Default
    BY <2>3 DEF TableInv
  <2>7. \A x \in Live(sessions') :
         sessions'[x] \in Runtimes /\ sessions'[x] # Shared /\ sessions'[x] <= made'
           /\ owner'[sessions'[x]] = x
    <3> SUFFICES ASSUME NEW x \in Live(sessions')
                 PROVE  sessions'[x] \in Runtimes /\ sessions'[x] # Shared
                          /\ sessions'[x] <= made' /\ owner'[sessions'[x]] = x
      OBVIOUS
    <3>1. CASE sessions'[x] = m /\ x = s
      BY <3>1, <2>1, <2>3
    <3>2. CASE x \in Live(sessions) /\ sessions'[x] = sessions[x]
      <4>1. /\ sessions[x] \in Runtimes /\ sessions[x] # Shared /\ sessions[x] <= made
            /\ owner[sessions[x]] = x
        BY <3>2 DEF TableInv
      <4>2. sessions[x] # m /\ sessions[x] <= made'
        BY <4>1, <2>1, <2>3
      <4> QED
        BY <3>2, <4>1, <4>2, <2>3
    <3> QED
      BY <2>4, <3>1, <3>2
  <2>8. TableInv'
    <3>1. now' \in 1..MaxTime /\ made' \in Runtimes
      BY <2>1 DEF TableInv
    <3> QED
      BY <3>1, <2>2, <2>3, <2>5, <2>6, <2>7 DEF TableInv
  <2> QED
    BY <2>1, <2>3, <2>4, <2>8 DEF Found
<1> QED
  BY <1>1, <1>2, <1>3 DEF RuntimeFor

\* A step that asks for no runtime.
LEMMA Untouched ==
  ASSUME TableInv, UNCHANGED <<made, sessions, owner, lastUsed>>, now' \in 1..MaxTime
  PROVE  TableInv'
  BY DEF TableInv

-----------------------------------------------------------------------------
(* The steps, as far as the table and the runtimes go.                     *)

\* A run's message, as AppendMessage writes it.
Said(r) == <<r, run[r].next>>

LEMMA SaidIs ==
  ASSUME WorkInv, NEW r \in Runs, run[r].next <= MaxMessages
  PROVE  Said(r) \in Message
<1>1. run[r].next \in 1..(MaxMessages + 1)
  BY DEF WorkInv
<1>2. run[r].next \in 1..MaxMessages
  BY <1>1, Numbers
<1> QED
  BY <1>2 DEF Said, Message

LEMMA LoadedIs ==
  ASSUME TableInv, WorkInv, NEW s \in AllSids, NEW m \in Runtimes, Found(s, m)
  PROVE  /\ Loaded(m) \in SUBSET Message
         /\ Loaded(m) = IF m > made THEN file[s] ELSE content[m]
  BY DEF Found, Loaded, WorkInv

\* A step of a run's start, a look at a history, or its end.
LEMMA AskStep ==
  ASSUME TableInv, WorkInv, NEW s \in AllSids, NEW m \in Runtimes,
         now' = now, RuntimeFor(s, m),
         NEW new \in SUBSET Message, content' = [content EXCEPT ![m] = new],
         file' \in [AllSids -> SUBSET Message], kept' \in [AllSids -> SUBSET Message],
         \/ run' = run
         \/ \E r \in Runs, a \in AllSids :
              run' = [run EXCEPT ![r] = [at |-> "running", asked |-> a,
                                         runtime |-> m, next |-> 1]]
  PROVE  TableInv' /\ WorkInv' /\ Found(s, m)
<1>1. Found(s, m)
  BY Lookup
<1>2. made <= made' /\ m <= made' /\ TableInv'
  BY <1>1 DEF Found
<1>3. made \in Nat /\ made' \in Nat /\ m \in Nat /\ Runtimes \subseteq Nat
  BY <1>2, Numbers DEF TableInv
<1>4. content' \in [Runtimes -> SUBSET Message]
  BY DEF WorkInv
<1>5. /\ run' \in [Runs -> [at : {"idle", "running", "done"}, asked : AllSids,
                            runtime : Runtimes, next : 1..(MaxMessages + 1)]]
      /\ \A r \in Runs : run'[r].runtime = run[r].runtime \/ run'[r].runtime = m
  <2>1. CASE run' = run
    BY <2>1 DEF WorkInv
  <2>2. ASSUME NEW r \in Runs, NEW a \in AllSids,
               run' = [run EXCEPT ![r] = [at |-> "running", asked |-> a,
                                          runtime |-> m, next |-> 1]]
        PROVE  <1>5!1 /\ <1>5!2
    <3>1. 1 \in 1..(MaxMessages + 1)
      BY Numbers
    <3>2. [at |-> "running", asked |-> a, runtime |-> m, next |-> 1]
            \in [at : {"idle", "running", "done"}, asked : AllSids,
                 runtime : Runtimes, next : 1..(MaxMessages + 1)]
      BY <3>1
    <3> QED
      BY <2>2, <3>2 DEF WorkInv
  <2> QED
    BY <2>1, <2>2
<1>6. \A r \in Runs : run'[r].runtime <= made'
  <2> SUFFICES ASSUME NEW r \in Runs PROVE run'[r].runtime <= made'
    OBVIOUS
  <2>1. run[r].runtime <= made /\ run[r].runtime \in Runtimes
    BY DEF WorkInv
  <2>2. run[r].runtime \in Nat
    BY <2>1, <1>3
  <2>3. CASE run'[r].runtime = run[r].runtime
    BY <2>1, <2>2, <2>3, <1>2, <1>3
  <2>4. CASE run'[r].runtime = m
    BY <2>4, <1>2
  <2> QED
    BY <2>3, <2>4, <1>5
<1> QED
  BY <1>1, <1>2, <1>4, <1>5, <1>6 DEF WorkInv

(***************************************************************************)
(* What each step does.  A run starts for the session it is asked for, or  *)
(* over "stream" for the default one.                                      *)
(***************************************************************************)
Asked(s, transport) == IF transport = "stream" THEN Default ELSE s

LEMMA StartStep ==
  ASSUME TableInv, WorkInv, NEW r \in Runs, NEW s \in AllSids, NEW t \in Transports,
         StartRun(r, s, t)
  PROVE  \E m \in Runtimes :
           /\ TableInv' /\ WorkInv' /\ Found(Asked(s, t), m)
           /\ content' = [content EXCEPT ![m] = Loaded(m)]
           /\ run[r].at = "idle"
           /\ run' = [run EXCEPT ![r] = [at |-> "running", asked |-> s,
                                         runtime |-> m, next |-> 1]]
           /\ UNCHANGED <<file, kept>>
<1>1. PICK m \in Runtimes :
        /\ RuntimeFor(Asked(s, t), m)
        /\ content' = [content EXCEPT ![m] = Loaded(m)]
        /\ run' = [run EXCEPT ![r] = [at |-> "running", asked |-> s,
                                      runtime |-> m, next |-> 1]]
  BY DEF StartRun, Asked
<1>2. Asked(s, t) \in AllSids /\ now' = now /\ UNCHANGED <<file, kept>> /\ run[r].at = "idle"
  BY DEF StartRun, Asked, AllSids
<1>3. Found(Asked(s, t), m)
  BY <1>1, <1>2, Lookup
<1>4. Loaded(m) \in SUBSET Message
  BY <1>2, <1>3, LoadedIs
<1>5. file' \in [AllSids -> SUBSET Message] /\ kept' \in [AllSids -> SUBSET Message]
  BY <1>2 DEF WorkInv
<1>6. TableInv' /\ WorkInv'
  BY <1>1, <1>2, <1>4, <1>5, AskStep
<1> QED
  BY <1>1, <1>2, <1>3, <1>6

LEMMA ReadStep ==
  ASSUME TableInv, WorkInv, NEW s \in AllSids, ReadHistory(s)
  PROVE  \E m \in Runtimes :
           /\ TableInv' /\ WorkInv' /\ Found(s, m)
           /\ content' = [content EXCEPT ![m] = Loaded(m)]
           /\ UNCHANGED <<file, run, kept>>
<1>1. PICK m \in Runtimes :
        RuntimeFor(s, m) /\ content' = [content EXCEPT ![m] = Loaded(m)]
  BY DEF ReadHistory
<1>2. now' = now /\ UNCHANGED <<file, run, kept>>
  BY DEF ReadHistory
<1>3. Found(s, m)
  BY <1>1, <1>2, Lookup
<1>4. Loaded(m) \in SUBSET Message
  BY <1>3, LoadedIs
<1>5. file' \in [AllSids -> SUBSET Message] /\ kept' \in [AllSids -> SUBSET Message]
  BY <1>2 DEF WorkInv
<1>6. TableInv' /\ WorkInv'
  BY <1>1, <1>2, <1>4, <1>5, AskStep
<1> QED
  BY <1>1, <1>2, <1>3, <1>6

LEMMA ClearStep ==
  ASSUME TableInv, WorkInv, NEW s \in AllSids, ClearHistory(s)
  PROVE  \E m \in Runtimes :
           /\ TableInv' /\ WorkInv' /\ Found(s, m)
           /\ content' = [content EXCEPT ![m] = {}]
           /\ file' = [file EXCEPT ![s] = {}] /\ kept' = [kept EXCEPT ![s] = {}]
           /\ run' = run
<1>1. PICK m \in Runtimes : RuntimeFor(s, m) /\ content' = [content EXCEPT ![m] = {}]
  BY DEF ClearHistory
<1>2. /\ now' = now /\ run' = run
      /\ file' = [file EXCEPT ![s] = {}] /\ kept' = [kept EXCEPT ![s] = {}]
  BY DEF ClearHistory
<1>3. Found(s, m)
  BY <1>1, <1>2, Lookup
<1>4. {} \in SUBSET Message
  OBVIOUS
<1>5. file' \in [AllSids -> SUBSET Message] /\ kept' \in [AllSids -> SUBSET Message]
  BY <1>2 DEF WorkInv
<1>6. TableInv' /\ WorkInv'
  BY <1>1, <1>2, <1>4, <1>5, AskStep
<1> QED
  BY <1>1, <1>2, <1>3, <1>6

LEMMA AppendStep ==
  ASSUME TableInv, WorkInv, NEW r \in Runs, AppendMessage(r)
  PROVE  /\ TableInv' /\ WorkInv'
         /\ run[r].at = "running" /\ run[r].runtime \in Runtimes
         /\ content' = [content EXCEPT ![run[r].runtime] = @ \cup {Said(r)}]
         /\ file' = [file EXCEPT ![owner[run[r].runtime]] = content'[run[r].runtime]]
         /\ kept' = [kept EXCEPT ![owner[run[r].runtime]] = @ \cup {Said(r)}]
         /\ \A x \in Runs : /\ run'[x].at = run[x].at /\ run'[x].asked = run[x].asked
                            /\ run'[x].runtime = run[x].runtime
         /\ UNCHANGED <<made, sessions, owner>>
<1>1. /\ run[r].at = "running" /\ run[r].next <= MaxMessages
      /\ content' = [content EXCEPT ![run[r].runtime] = @ \cup {Said(r)}]
      /\ file' = [file EXCEPT ![owner[run[r].runtime]] = content'[run[r].runtime]]
      /\ kept' = [kept EXCEPT ![owner[run[r].runtime]] = @ \cup {Said(r)}]
      /\ run' = [run EXCEPT ![r].next = @ + 1]
      /\ UNCHANGED <<now, made, sessions, owner, lastUsed>>
  BY DEF AppendMessage, Said
<1>2. run[r].runtime \in Runtimes /\ run[r].next \in 1..(MaxMessages + 1)
  BY DEF WorkInv
<1>3. owner[run[r].runtime] \in AllSids /\ Said(r) \in Message
  BY <1>1, <1>2, SaidIs DEF TableInv
<1>4. content' \in [Runtimes -> SUBSET Message]
  BY <1>1, <1>3 DEF WorkInv
<1>5. file' \in [AllSids -> SUBSET Message]
  BY <1>1, <1>2, <1>4 DEF WorkInv
<1>6. kept' \in [AllSids -> SUBSET Message]
  BY <1>1, <1>3 DEF WorkInv
<1>7. run[r].next + 1 \in 1..(MaxMessages + 1)
  BY <1>1, <1>2, Numbers
<1>8. /\ run' \in [Runs -> [at : {"idle", "running", "done"}, asked : AllSids,
                            runtime : Runtimes, next : 1..(MaxMessages + 1)]]
      /\ \A x \in Runs : /\ run'[x].at = run[x].at /\ run'[x].asked = run[x].asked
                         /\ run'[x].runtime = run[x].runtime
  BY <1>1, <1>7 DEF WorkInv
<1>9. TableInv'
  BY <1>1, Untouched DEF TableInv
<1> QED
  BY <1>1, <1>2, <1>4, <1>5, <1>6, <1>8, <1>9 DEF WorkInv

LEMMA EndStep ==
  ASSUME TableInv, WorkInv, NEW r \in Runs, EndRun(r)
  PROVE  /\ TableInv' /\ WorkInv'
         /\ run[r].at = "running" /\ run' = [run EXCEPT ![r].at = "done"]
         /\ UNCHANGED <<made, sessions, owner, content, file, kept>>
<1>1. /\ run[r].at = "running" /\ run' = [run EXCEPT ![r].at = "done"]
      /\ UNCHANGED <<now, made, sessions, owner, lastUsed, content, file, kept>>
  BY DEF EndRun
<1>2. /\ run' \in [Runs -> [at : {"idle", "running", "done"}, asked : AllSids,
                            runtime : Runtimes, next : 1..(MaxMessages + 1)]]
      /\ \A x \in Runs : run'[x].runtime = run[x].runtime
  BY <1>1 DEF WorkInv
<1>3. TableInv'
  BY <1>1, Untouched DEF TableInv
<1> QED
  BY <1>1, <1>2, <1>3 DEF WorkInv

LEMMA OtherStep ==
  ASSUME TableInv, WorkInv, Tick \/ UNCHANGED vars
  PROVE  /\ TableInv' /\ WorkInv'
         /\ UNCHANGED <<made, sessions, owner, content, file, run, kept>>
<1>1. /\ UNCHANGED <<made, sessions, owner, lastUsed, content, file, run, kept>>
      /\ now' \in 1..MaxTime
  BY Numbers DEF Tick, vars, TableInv
<1>2. TableInv'
  BY <1>1, Untouched
<1> QED
  BY <1>1, <1>2 DEF WorkInv

-----------------------------------------------------------------------------
(* What holds of every behaviour.                                          *)

LEMMA StateNext == TableInv /\ WorkInv /\ [Next]_vars => TableInv' /\ WorkInv'
<1> SUFFICES ASSUME TableInv, WorkInv, [Next]_vars PROVE TableInv' /\ WorkInv'
  OBVIOUS
<1>1. ASSUME NEW r \in Runs, NEW s \in AllSids, NEW t \in Transports, StartRun(r, s, t)
      PROVE  TableInv' /\ WorkInv'
  BY <1>1, StartStep
<1>2. ASSUME NEW r \in Runs, AppendMessage(r) \/ EndRun(r) PROVE TableInv' /\ WorkInv'
  BY <1>2, AppendStep, EndStep
<1>3. ASSUME NEW s \in AllSids, ReadHistory(s) \/ ClearHistory(s) PROVE TableInv' /\ WorkInv'
  BY <1>3, ReadStep, ClearStep
<1>4. CASE Tick \/ UNCHANGED vars
  BY <1>4, OtherStep
<1> QED
  BY <1>1, <1>2, <1>3, <1>4 DEF Next

LEMMA StateInit == Init => TableInv /\ WorkInv
<1> SUFFICES ASSUME Init PROVE TableInv /\ WorkInv
  OBVIOUS
<1> USE Numbers
<1>1. sessions \in Tables /\ Live(sessions) = {}
  BY DEF Init, Tables, Live
<1>2. IsFiniteSet({}) /\ Cardinality({}) = 0
  BY FS_EmptySet
<1>3. Default \in AllSids /\ Shared = 0 /\ 0 \in 0..MaxTime /\ 1 \in 1..MaxTime
  BY SessionsAssumption DEF AllSids, Shared
<1>4. TableInv
  <2>1. owner \in [Runtimes -> AllSids] /\ lastUsed \in [Runtimes -> 0..MaxTime]
    BY <1>3 DEF Init
  <2>2. owner[Shared] = Default /\ now \in 1..MaxTime /\ made = Shared
    BY <1>3 DEF Init
  <2>3. \A m \in Runtimes : m # Shared => ~(m <= made)
    BY <1>3, <2>2
  <2> QED
    BY <1>1, <1>2, <2>1, <2>2, <2>3 DEF TableInv
<1>5. WorkInv
  <2>1. IdleRun \in [at : {"idle", "running", "done"}, asked : AllSids,
                     runtime : Runtimes, next : 1..(MaxMessages + 1)]
    BY <1>3 DEF IdleRun
  <2>2. \A r \in Runs : run[r] = IdleRun
    BY DEF Init
  <2>3. \A r \in Runs : run[r].runtime <= made
    BY <2>2, <1>3 DEF Init, IdleRun
  <2> QED
    BY <2>1, <2>3 DEF Init, WorkInv
<1> QED
  BY <1>4, <1>5

LEMMA StateAlways == Spec => [](TableInv /\ WorkInv)
  BY StateInit, StateNext, PTL DEF Spec

\* A session that was used within the timeout is dropped only to make room:
\* the table was full.
THEOREM RecentStay == Spec => RecentSessionsStay
<1>1. ASSUME TableInv, WorkInv, [Next]_vars, NEW x \in Live(sessions),
             sessions'[x] = NoRuntime, ~Stale(sessions[x])
      PROVE  Cardinality(Live(sessions)) = MaxSessions
  <2>1. x \in Sids /\ sessions' # sessions
    BY <1>1 DEF Live
  <2>2. \E s \in AllSids, m \in Runtimes : RuntimeFor(s, m)
    BY <1>1, <2>1 DEF Next, StartRun, ReadHistory, ClearHistory, AppendMessage, EndRun,
       Tick, vars, AllSids
  <2>3. PICK s \in Sids \ Live(sessions), m \in Runtimes : NewRuntime(s, m)
    BY <2>1, <2>2 DEF RuntimeFor, SharedRuntime, LiveRuntime, NewRuntime
  <2>4. Opened(s, m)
    BY <2>3 DEF NewRuntime, Opened
  <2> QED
    BY <1>1, <2>4, OpenSession DEF TableInv
<1>2. TableInv /\ WorkInv /\ [Next]_vars =>
        [\A s \in Live(sessions) : sessions'[s] = NoRuntime /\ ~Stale(sessions[s])
           => Cardinality(Live(sessions)) = MaxSessions]_vars
  BY <1>1
<1> QED
  BY <1>2, StateAlways, PTL DEF Spec, RecentSessionsStay

-----------------------------------------------------------------------------
(***************************************************************************)
(* Tabs.  What a runtime has in memory is of the session it was made for,  *)
(* and so is what a running run adds to it: over "ws" a run works with the *)
(* runtime of the session it was asked for.                                *)
(***************************************************************************)
Of(msg, s) == run[msg[1]].asked = s /\ run[msg[1]].at # "idle"

\* The same after the step.
OfNext(msg, s) == run'[msg[1]].asked = s /\ run'[msg[1]].at # "idle"

TabsInv ==
    /\ \A m \in Runtimes : \A msg \in content[m] : Of(msg, owner[m])
    /\ \A s \in AllSids : \A msg \in file[s] : Of(msg, s)
    /\ \A r \in Runs : run[r].at = "running" => run[r].asked = owner[run[r].runtime]

\* A step in which a runtime is looked up, and nothing but its content, or
\* less than what there was, gets into the files.
LEMMA TabsAsk ==
  ASSUME TableInv, WorkInv, WorkInv', TabsInv, NEW s \in AllSids, NEW m \in Runtimes, Found(s, m),
         NEW new \in SUBSET Message, new = Loaded(m) \/ new = {},
         content' = [content EXCEPT ![m] = new],
         \A x \in AllSids : file'[x] \subseteq file[x],
         \/ run' = run
         \/ \E r \in Runs : /\ run[r].at = "idle"
                            /\ run' = [run EXCEPT ![r] = [at |-> "running", asked |-> s,
                                                          runtime |-> m, next |-> 1]]
  PROVE  TabsInv'
<1>1. new \subseteq IF m > made THEN file[s] ELSE content[m]
  BY LoadedIs
<1>2. \A msg \in Message : msg[1] \in Runs
  BY DEF Message
<1>3. /\ owner'[m] = s /\ \A k \in Runtimes : k # m => owner'[k] = owner[k]
      /\ m <= made => owner[m] = s
  BY DEF Found
<1>4. m > made \/ m <= made
  BY Numbers DEF TableInv
<1>5. \A msg \in Message, x \in AllSids : Of(msg, x) => OfNext(msg, x)
  BY <1>2 DEF Of, OfNext, WorkInv
<1>6. \A msg \in new : Of(msg, s)
  BY <1>1, <1>3, <1>4 DEF TabsInv
<1>7. \A k \in Runtimes : \A msg \in content'[k] : OfNext(msg, owner'[k])
  <2> SUFFICES ASSUME NEW k \in Runtimes, NEW msg \in content'[k]
               PROVE  OfNext(msg, owner'[k])
    OBVIOUS
  <2>1. msg \in Message /\ owner'[k] \in AllSids
    BY DEF WorkInv, Found, TableInv
  <2>2. Of(msg, owner'[k])
    BY <1>3, <1>6 DEF TabsInv, WorkInv
  <2> QED
    BY <2>1, <2>2, <1>5
<1>8. \A x \in AllSids : \A msg \in file'[x] : OfNext(msg, x)
  BY <1>5 DEF TabsInv, WorkInv
<1>9. ASSUME NEW r \in Runs, run'[r].at = "running"
      PROVE  run'[r].asked = owner'[run'[r].runtime]
  <2>1. CASE run'[r] = run[r]
    <3>1. run[r].runtime \in Runtimes /\ run[r].runtime <= made
      BY DEF WorkInv
    <3>2. owner'[run[r].runtime] = owner[run[r].runtime]
      BY <3>1, <1>3, <1>4, Numbers DEF TableInv
    <3> QED
      BY <1>9, <2>1, <3>2 DEF TabsInv
  <2>2. CASE run'[r] # run[r]
    <3>1. run'[r] = [at |-> "running", asked |-> s, runtime |-> m, next |-> 1]
      BY <2>2 DEF WorkInv
    <3> QED
      BY <3>1, <1>3
  <2> QED
    BY <2>1, <2>2
<1> QED
  BY <1>7, <1>8, <1>9 DEF TabsInv, Of, OfNext

LEMMA TabsAppend ==
  ASSUME TableInv, WorkInv, TabsInv, NEW r \in Runs, AppendMessage(r)
  PROVE  TabsInv'
<1> DEFINE m == run[r].runtime
<1>1. /\ WorkInv' /\ m \in Runtimes /\ run[r].at = "running"
      /\ content' = [content EXCEPT ![m] = @ \cup {Said(r)}]
      /\ file' = [file EXCEPT ![owner[m]] = content'[m]]
      /\ \A x \in Runs : /\ run'[x].at = run[x].at /\ run'[x].asked = run[x].asked
                         /\ run'[x].runtime = run[x].runtime
      /\ owner' = owner
  BY AppendStep
<1>2. run[r].asked = owner[m] /\ owner[m] \in AllSids
  BY <1>1 DEF TabsInv, TableInv
<1>3. \A msg \in Message : msg[1] \in Runs
  BY DEF Message
<1>4. \A msg \in Message, x \in AllSids : Of(msg, x) => OfNext(msg, x)
  BY <1>1, <1>3 DEF Of, OfNext
<1>5. Of(Said(r), owner[m])
  BY <1>1, <1>2 DEF Of, Said
<1>6. ASSUME NEW k \in Runtimes, NEW msg \in content'[k] PROVE OfNext(msg, owner[k])
  <2>1. msg \in Message /\ owner[k] \in AllSids
    BY <1>1 DEF WorkInv, TableInv
  <2>2. Of(msg, owner[k])
    BY <1>1, <1>5 DEF TabsInv, WorkInv
  <2> QED
    BY <2>1, <2>2, <1>4
<1>7. ASSUME NEW x \in AllSids, NEW msg \in file'[x] PROVE OfNext(msg, x)
  <2>1. CASE x = owner[m]
    <3>1. msg \in content'[m]
      BY <1>1, <2>1, <1>7 DEF WorkInv
    <3> QED
      BY <1>1, <1>6, <2>1, <3>1
  <2>2. CASE x # owner[m]
    <3>1. msg \in file[x] /\ msg \in Message
      BY <1>1, <2>2, <1>7 DEF WorkInv
    <3> QED
      BY <3>1, <1>4 DEF TabsInv
  <2> QED
    BY <2>1, <2>2
<1> QED
  BY <1>1, <1>6, <1>7 DEF TabsInv, Of, OfNext

LEMMA TabsNext ==
  ASSUME Transports = {"ws"}, TableInv, WorkInv, TabsInv, [Next]_vars
  PROVE  TabsInv'
<1>1. ASSUME NEW r \in Runs, NEW s \in AllSids, NEW t \in Transports, StartRun(r, s, t)
      PROVE  TabsInv'
  <2>1. Asked(s, t) = s
    BY DEF Asked
  <2>2. PICK m \in Runtimes :
           /\ TableInv' /\ WorkInv' /\ Found(s, m)
           /\ content' = [content EXCEPT ![m] = Loaded(m)]
           /\ run[r].at = "idle"
           /\ run' = [run EXCEPT ![r] = [at |-> "running", asked |-> s,
                                         runtime |-> m, next |-> 1]]
           /\ UNCHANGED <<file, kept>>
    BY <1>1, <2>1, StartStep
  <2>3. Loaded(m) \in SUBSET Message
    BY <2>2, LoadedIs
  <2> QED
    BY <2>2, <2>3, TabsAsk
<1>2. ASSUME NEW s \in AllSids, ReadHistory(s) PROVE TabsInv'
  <2>1. PICK m \in Runtimes :
           /\ TableInv' /\ WorkInv' /\ Found(s, m)
           /\ content' = [content EXCEPT ![m] = Loaded(m)]
           /\ UNCHANGED <<file, run, kept>>
    BY <1>2, ReadStep
  <2>2. Loaded(m) \in SUBSET Message
    BY <2>1, LoadedIs
  <2> QED
    BY <2>1, <2>2, TabsAsk
<1>3. ASSUME NEW s \in AllSids, ClearHistory(s) PROVE TabsInv'
  <2>1. PICK m \in Runtimes :
           /\ TableInv' /\ WorkInv' /\ Found(s, m)
           /\ content' = [content EXCEPT ![m] = {}]
           /\ file' = [file EXCEPT ![s] = {}] /\ run' = run
    BY <1>3, ClearStep
  <2>2. \A x \in AllSids : file'[x] \subseteq file[x]
    BY <2>1 DEF WorkInv
  <2>3. {} \in SUBSET Message
    OBVIOUS
  <2> QED
    BY <2>1, <2>2, <2>3, TabsAsk
<1>4. ASSUME NEW r \in Runs, EndRun(r) PROVE TabsInv'
  <2>1. /\ run' = [run EXCEPT ![r].at = "done"]
        /\ UNCHANGED <<owner, content, file>>
    BY <1>4, EndStep
  <2>2. \A x \in Runs : /\ run'[x].asked = run[x].asked /\ run'[x].runtime = run[x].runtime
                        /\ run[x].at # "idle" => run'[x].at # "idle"
                        /\ run'[x].at = "running" => run[x].at = "running"
    BY <2>1 DEF WorkInv
  <2>3. /\ \A k \in Runtimes : \A msg \in content[k] : msg[1] \in Runs
        /\ \A x \in AllSids : \A msg \in file[x] : msg[1] \in Runs
    BY DEF WorkInv, Message
  <2> QED
    BY <2>1, <2>2, <2>3 DEF TabsInv, Of
<1>5. CASE Tick \/ UNCHANGED vars
  BY <1>5, OtherStep DEF TabsInv, Of
<1> QED
  BY <1>1, <1>2, <1>3, <1>4, <1>5, TabsAppend DEF Next

\* Tabs do not share their histories: what a run appends is only in the file
\* of the session its frontend named, whatever else is asked meanwhile.
THEOREM TabsKeepApart == ASSUME Transports = {"ws"} PROVE Spec => []TabsNeverShare
<1>1. Init => TabsInv
  BY StateInit DEF Init, TabsInv, IdleRun
<1>2. TableInv /\ WorkInv /\ TabsInv /\ [Next]_vars => TabsInv'
  BY TabsNext
<1>3. TabsInv => TabsNeverShare
  BY DEF TabsInv, TabsNeverShare, Of
<1> QED
  BY <1>1, <1>2, <1>3, StateAlways, PTL DEF Spec

-----------------------------------------------------------------------------
(***************************************************************************)
(* Messages.  A runtime may still write while it is the shared one, its    *)
(* session's own, or the one a running run works with.  Each of these has  *)
(* in memory all that is kept of its session, because it will write the    *)
(* whole file from there; and no session has two of them, because the one  *)
(* would overwrite what the other wrote.  The second half is where the     *)
(* calm user is needed: a session that lost its runtime under a running    *)
(* run is asked for nothing until the run has ended.                       *)
(***************************************************************************)
Writes(m) ==
    \/ m = Shared
    \/ \E s \in Live(sessions) : sessions[s] = m
    \/ \E r \in Runs : run[r].at = "running" /\ run[r].runtime = m

CalmInv ==
    /\ \A m \in Runtimes : Writes(m) => kept[owner[m]] \subseteq content[m]
    /\ \A m, k \in Runtimes : Writes(m) /\ Writes(k) /\ owner[m] = owner[k] => m = k
    /\ NothingLost

LEMMA WritersAreMade ==
  ASSUME TableInv, WorkInv, NEW m \in Runtimes, Writes(m)
  PROVE  m <= made
<1>1. CASE m = Shared
  BY <1>1, Numbers DEF TableInv, Shared
<1>2. CASE \E s \in Live(sessions) : sessions[s] = m
  BY <1>2 DEF TableInv
<1>3. CASE \E r \in Runs : run[r].at = "running" /\ run[r].runtime = m
  BY <1>3 DEF WorkInv
<1> QED
  BY <1>1, <1>2, <1>3 DEF Writes

\* The runtime that is looked up is the only one that begins to write, and a
\* new one is its session's only one.
LEMMA CalmFound ==
  ASSUME TableInv, WorkInv, CalmInv, NEW s \in AllSids, NEW m \in Runtimes, Found(s, m),
         NoSecondRuntime,
         \/ run' = run
         \/ \E r \in Runs, a \in AllSids :
              run' = [run EXCEPT ![r] = [at |-> "running", asked |-> a,
                                         runtime |-> m, next |-> 1]]
  PROVE  /\ \A k \in Runtimes : Writes(k)' /\ k # m => Writes(k) /\ owner'[k] = owner[k]
         /\ \A k \in Runtimes : Writes(k) /\ owner[k] = s => k = m
         /\ m <= made => Writes(m) /\ owner[m] = s
<1>0. /\ owner'[m] = s /\ \A k \in Runtimes : k # m => owner'[k] = owner[k]
      /\ m <= made => owner' = owner
      /\ \A x \in Live(sessions') :
           (sessions'[x] = m /\ x = s) \/ (x \in Live(sessions) /\ sessions'[x] = sessions[x])
      /\ m > made => made' = m /\ made' # made /\ s \in Sids \ Live(sessions)
      /\ m <= made => (m = Shared) \/ (s \in Live(sessions) /\ sessions[s] = m)
  BY DEF Found
<1>1. ASSUME NEW k \in Runtimes, Writes(k)', k # m PROVE Writes(k) /\ owner'[k] = owner[k]
  <2>1. CASE k = Shared
    BY <1>0, <1>1, <2>1 DEF Writes
  <2>2. CASE \E x \in Live(sessions') : sessions'[x] = k
    BY <1>0, <1>1, <2>2 DEF Writes
  <2>3. CASE \E r \in Runs : run'[r].at = "running" /\ run'[r].runtime = k
    <3>1. PICK r \in Runs : run'[r].at = "running" /\ run'[r].runtime = k
      BY <2>3
    <3>2. run'[r] = run[r]
      BY <3>1, <1>1 DEF WorkInv
    <3> QED
      BY <3>1, <3>2, <1>0, <1>1 DEF Writes
  <2> QED
    BY <1>1, <2>1, <2>2, <2>3 DEF Writes
<1>2. m <= made => Writes(m) /\ owner[m] = s
  BY <1>0 DEF Writes
<1>3. ASSUME NEW k \in Runtimes, Writes(k), owner[k] = s PROVE k = m
  <2>1. CASE m <= made
    BY <1>2, <1>3, <2>1 DEF CalmInv
  <2>2. CASE m > made
    <3>1. s \in Sids /\ s \notin Live(sessions) /\ ~Running(s)
      BY <1>0, <2>2 DEF NoSecondRuntime
    <3>2. k # Shared
      BY <3>1, <1>3, Numbers DEF TableInv
    <3>3. ~\E x \in Live(sessions) : sessions[x] = k
      BY <3>1, <1>3 DEF TableInv
    <3>4. ~\E r \in Runs : run[r].at = "running" /\ run[r].runtime = k
      BY <3>1, <1>3 DEF Running
    <3> QED
      BY <3>2, <3>3, <3>4, <1>3 DEF Writes
  <2>3. m <= made \/ m > made
    BY Numbers DEF TableInv
  <2> QED
    BY <2>1, <2>2, <2>3
<1> QED
  BY <1>1, <1>2, <1>3

\* A run starts, or a history is read.
LEMMA CalmAsk ==
  ASSUME TableInv, WorkInv, CalmInv, NEW s \in AllSids, NEW m \in Runtimes, Found(s, m),
         NoSecondRuntime,
         content' = [content EXCEPT ![m] = Loaded(m)], UNCHANGED <<file, kept>>,
         \/ run' = run
         \/ \E r \in Runs, a \in AllSids :
              run' = [run EXCEPT ![r] = [at |-> "running", asked |-> a,
                                         runtime |-> m, next |-> 1]]
  PROVE  CalmInv'
<1>1. /\ \A k \in Runtimes : Writes(k)' /\ k # m => Writes(k) /\ owner'[k] = owner[k]
      /\ \A k \in Runtimes : Writes(k) /\ owner[k] = s => k = m
      /\ m <= made => Writes(m) /\ owner[m] = s
  BY CalmFound
<1>2. owner'[m] = s
  BY DEF Found
<1>3. kept[s] \subseteq Loaded(m)
  <2>1. kept[s] \subseteq file[s] /\ s \in AllSids
    BY DEF CalmInv, NothingLost
  <2>2. m <= made \/ m > made
    BY Numbers DEF TableInv
  <2> QED
    BY <1>1, <2>1, <2>2, LoadedIs DEF CalmInv
<1>4. content'[m] = Loaded(m) /\ \A k \in Runtimes : k # m => content'[k] = content[k]
  BY DEF WorkInv
<1>5. ASSUME NEW k \in Runtimes, Writes(k)' PROVE kept'[owner'[k]] \subseteq content'[k]
  BY <1>1, <1>2, <1>3, <1>4, <1>5 DEF CalmInv
<1>6. ASSUME NEW j \in Runtimes, NEW k \in Runtimes, Writes(j)', Writes(k)', owner'[j] = owner'[k]
      PROVE  j = k
  BY <1>1, <1>2, <1>6 DEF CalmInv
<1> QED
  BY <1>5, <1>6 DEF CalmInv, NothingLost

LEMMA CalmClear ==
  ASSUME TableInv, WorkInv, CalmInv, NEW s \in AllSids, NEW m \in Runtimes, Found(s, m),
         NoSecondRuntime, run' = run,
         content' = [content EXCEPT ![m] = {}],
         file' = [file EXCEPT ![s] = {}], kept' = [kept EXCEPT ![s] = {}]
  PROVE  CalmInv'
<1>1. /\ \A k \in Runtimes : Writes(k)' /\ k # m => Writes(k) /\ owner'[k] = owner[k]
      /\ \A k \in Runtimes : Writes(k) /\ owner[k] = s => k = m
  BY CalmFound
<1>2. owner'[m] = s
  BY DEF Found
<1>3. /\ \A k \in Runtimes : k # m => content'[k] = content[k]
      /\ kept'[s] = {} /\ \A x \in AllSids : x # s => kept'[x] = kept[x] /\ file'[x] = file[x]
  BY DEF WorkInv
<1>4. ASSUME NEW k \in Runtimes, Writes(k)' PROVE kept'[owner'[k]] \subseteq content'[k]
  <2>1. CASE owner'[k] = s
    BY <2>1, <1>3
  <2>2. CASE owner'[k] # s
    <3>1. k # m /\ owner[k] \in AllSids
      BY <2>2, <1>2 DEF TableInv
    <3> QED
      BY <3>1, <2>2, <1>1, <1>3, <1>4 DEF CalmInv
  <2> QED
    BY <2>1, <2>2
<1>5. ASSUME NEW j \in Runtimes, NEW k \in Runtimes, Writes(j)', Writes(k)', owner'[j] = owner'[k]
      PROVE  j = k
  BY <1>1, <1>2, <1>5 DEF CalmInv
<1>6. NothingLost'
  BY <1>3 DEF CalmInv, NothingLost
<1> QED
  BY <1>4, <1>5, <1>6 DEF CalmInv

LEMMA CalmAppend ==
  ASSUME TableInv, WorkInv, CalmInv, NEW r \in Runs, AppendMessage(r)
  PROVE  CalmInv'
<1> DEFINE m == run[r].runtime
<1>1. /\ m \in Runtimes /\ run[r].at = "running"
      /\ content' = [content EXCEPT ![m] = @ \cup {Said(r)}]
      /\ file' = [file EXCEPT ![owner[m]] = content'[m]]
      /\ kept' = [kept EXCEPT ![owner[m]] = @ \cup {Said(r)}]
      /\ \A x \in Runs : /\ run'[x].at = run[x].at /\ run'[x].asked = run[x].asked
                         /\ run'[x].runtime = run[x].runtime
      /\ sessions' = sessions /\ owner' = owner
  BY AppendStep
<1> HIDE DEF m
<1>2. Writes(m) /\ owner[m] \in AllSids
  BY <1>1 DEF Writes, TableInv, m
<1>3. \A k \in Runtimes : Writes(k)' => Writes(k)
  BY <1>1 DEF Writes
<1>4. /\ content'[m] = content[m] \cup {Said(r)}
      /\ \A k \in Runtimes : k # m => content'[k] = content[k]
      /\ kept'[owner[m]] = kept[owner[m]] \cup {Said(r)} /\ file'[owner[m]] = content'[m]
      /\ \A x \in AllSids : x # owner[m] => kept'[x] = kept[x] /\ file'[x] = file[x]
  BY <1>1, <1>2 DEF WorkInv
<1>5. kept'[owner[m]] \subseteq content'[m]
  BY <1>1, <1>2, <1>4 DEF CalmInv
<1>6. ASSUME NEW k \in Runtimes, Writes(k)' PROVE kept'[owner[k]] \subseteq content'[k]
  <2>1. CASE owner[k] = owner[m]
    <3>1. k = m
      BY <1>1, <1>2, <1>3, <1>6, <2>1 DEF CalmInv
    <3> QED
      BY <3>1, <1>5
  <2>2. CASE owner[k] # owner[m]
    <3>1. k # m /\ owner[k] \in AllSids
      BY <2>2 DEF TableInv
    <3> QED
      BY <3>1, <2>2, <1>3, <1>4, <1>6 DEF CalmInv
  <2> QED
    BY <2>1, <2>2
<1>7. NothingLost'
  BY <1>4, <1>5 DEF CalmInv, NothingLost
<1> QED
  BY <1>1, <1>3, <1>6, <1>7 DEF CalmInv

LEMMA CalmNext ==
  ASSUME TableInv, WorkInv, CalmInv, [Next /\ NoSecondRuntime]_vars
  PROVE  CalmInv'
<1>1. ASSUME NEW r \in Runs, NEW s \in AllSids, NEW t \in Transports, StartRun(r, s, t),
             NoSecondRuntime
      PROVE  CalmInv'
  <2>1. PICK m \in Runtimes :
           /\ Found(Asked(s, t), m)
           /\ content' = [content EXCEPT ![m] = Loaded(m)]
           /\ run' = [run EXCEPT ![r] = [at |-> "running", asked |-> s,
                                         runtime |-> m, next |-> 1]]
           /\ UNCHANGED <<file, kept>>
    BY <1>1, StartStep
  <2>2. Asked(s, t) \in AllSids
    BY DEF Asked, AllSids
  <2> QED
    BY <1>1, <2>1, <2>2, CalmAsk
<1>2. ASSUME NEW s \in AllSids, ReadHistory(s), NoSecondRuntime PROVE CalmInv'
  BY <1>2, ReadStep, CalmAsk
<1>3. ASSUME NEW s \in AllSids, ClearHistory(s), NoSecondRuntime PROVE CalmInv'
  BY <1>3, ClearStep, CalmClear
<1>4. ASSUME NEW r \in Runs, EndRun(r) PROVE CalmInv'
  <2>1. /\ run' = [run EXCEPT ![r].at = "done"]
        /\ UNCHANGED <<sessions, owner, content, file, kept>>
    BY <1>4, EndStep
  <2>2. \A x \in Runs : /\ run'[x].runtime = run[x].runtime
                        /\ run'[x].at = "running" => run[x].at = "running"
    BY <2>1 DEF WorkInv
  <2>3. \A k \in Runtimes : Writes(k)' => Writes(k)
    BY <2>1, <2>2 DEF Writes
  <2> QED
    BY <2>1, <2>3 DEF CalmInv, NothingLost
<1>5. CASE Tick \/ UNCHANGED vars
  BY <1>5, OtherStep DEF CalmInv, NothingLost, Writes
<1> QED
  BY <1>1, <1>2, <1>3, <1>4, <1>5, CalmAppend DEF Next

LEMMA CalmIsSpec == CalmSpec => Spec
<1>1. [Next /\ NoSecondRuntime]_vars => [Next]_vars
  OBVIOUS
<1> QED
  BY <1>1, PTL DEF CalmSpec, Spec

\* A message that was appended and not cleared since is in the file of its
\* session, whichever runtimes were dropped and made again, for a user who
\* waits for the answer in a session that lost its runtime.
THEOREM MessagesStay == CalmSpec => []NothingLost
<1>1. ASSUME Init PROVE CalmInv
  <2>1. /\ \A s \in AllSids : kept[s] = {}
        /\ \A r \in Runs : run[r].at = "idle"
        /\ Live(sessions) = {}
    BY <1>1 DEF Init, IdleRun, Live
  <2>2. \A m \in Runtimes : owner[m] \in AllSids
    BY <1>1, StateInit DEF TableInv
  <2>3. \A m \in Runtimes : Writes(m) => m = Shared
    BY <2>1 DEF Writes
  <2> QED
    BY <2>1, <2>2, <2>3 DEF CalmInv, NothingLost
<1>2. TableInv /\ WorkInv /\ CalmInv /\ [Next /\ NoSecondRuntime]_vars => CalmInv'
  BY CalmNext
<1>3. CalmInv => NothingLost
  BY DEF CalmInv
<1> QED
  BY <1>1, <1>2, <1>3, StateAlways, CalmIsSpec, PTL DEF CalmSpec

\* Over "ws", tabs keep to their own conversations, no message is lost, and
\* the live sessions stay within the cap.
THEOREM SessionsStaySafe == ASSUME Transports = {"ws"} PROVE CalmSpec => []SessionsAreSafe
<1>1. TableInv /\ WorkInv => TypeOK
  BY DEF TableInv, WorkInv, TypeOK, Tables
<1>2. TypeOK /\ TabsNeverShare /\ NothingLost => SessionsAreSafe
  BY DEF SessionsAreSafe
<1> QED
  BY <1>1, <1>2, StateAlways, TabsKeepApart, MessagesStay, CalmIsSpec, PTL

-----------------------------------------------------------------------------
(***************************************************************************)
(* The settings file.                                                      *)
(***************************************************************************)
Files == [dir : Folders \cup {"none", "absent"}, model : Int]
AnyFile == Files \cup {Torn}

ConfigTypes ==
    /\ up \in {"down", "up", "failed", "purged"}
    /\ disk \in [Folders -> AnyFile] /\ tmp \in [Folders -> AnyFile]
    /\ settings \in [dir : Folders \cup {"none"}, model : Int, path : Folders \cup {NoPath}]
    /\ writer \in [Writers -> [at : {"idle", "changed", "opened", "written"},
                               dir : Folders \cup {"none"}, content : Files,
                               handle : {"none", "tmp", "file", "lost"}]]
    /\ saved \in Int /\ changes \in Nat
    /\ up = "up" => settings.dir \in Folders /\ settings.model # Absent
    /\ up = "down" => \A t \in Writers : ~Busy(t)

(***************************************************************************)
(* A thread that saves is the only one, and config.json.tmp is its own:    *)
(* it has written nothing there, or what it saves, or the purge has taken  *)
(* the file.                                                               *)
(***************************************************************************)
SavesAlone ==
    /\ \A d \in Folders : disk[d] # Torn
    /\ \A t, u \in Writers : Busy(t) /\ Busy(u) => t = u
    /\ \A t \in Writers : Busy(t) =>
         /\ writer[t].dir \in Folders
         /\ writer[t].content.dir \in Folders /\ writer[t].content.model # Absent
         /\ writer[t].handle \in {"tmp", "lost"}
         /\ writer[t].at = "opened" /\ writer[t].handle = "tmp" => tmp[writer[t].dir] = Torn
         /\ writer[t].at = "opened" /\ writer[t].handle = "lost" => tmp[writer[t].dir] = NoFile
         /\ writer[t].at = "written" => tmp[writer[t].dir] \in {writer[t].content, NoFile}

(***************************************************************************)
(* The file that a start reads has what was saved; and the file that a     *)
(* thread is about to replace will be the one that a start reads, because  *)
(* it can only be the fixed one, or the program's own as long as there is  *)
(* no fixed one.                                                           *)
(***************************************************************************)
SavesWhereRead ==
    /\ saved # Absent => disk[Target(disk)] # NoFile /\ disk[Target(disk)].model = saved
    /\ \A t \in Writers : Busy(t) =>
         /\ writer[t].dir \in {"home", "app"}
         /\ writer[t].dir = "app" => ~explicit /\ disk["home"] = NoFile

ConfigInv ==
    /\ ConfigTypes
    /\ overlap \/ SavesAlone
    /\ overlap \/ astray \/ SavesWhereRead

-----------------------------------------------------------------------------
(* What a start reads. *)

FolderOf(files, e) ==
    IF ~e /\ files["home"] = NoFile /\ IsReal(files["app"]) THEN "app" ELSE "home"

\* The first good candidate, of at most three, is a candidate, and good.
LEMMA FirstIsGood ==
  ASSUME NEW places, NEW n \in 1..3, DOMAIN places = 1..n, NEW good, Some(places, good)
  PROVE  First(places, good) \in good
<1>1. \E i \in 1..n : places[i] \in good
  BY DEF Some
<1>2. \E i \in 1..n : places[i] \in good /\ \A j \in 1..(i - 1) : places[j] \notin good
  <2>1. CASE places[1] \in good
    BY <2>1
  <2>2. CASE places[1] \notin good /\ n >= 2 /\ places[2] \in good
    <3>1. 2 \in 1..n /\ \A j \in 1..(2 - 1) : j = 1
      BY <2>2
    <3> QED
      BY <2>2, <3>1
  <2>3. CASE places[1] \notin good /\ ~(n >= 2 /\ places[2] \in good)
    <3>1. n = 3 /\ places[2] \notin good /\ places[3] \in good
      BY <1>1, <2>3
    <3>2. 3 \in 1..n /\ \A j \in 1..(3 - 1) : j = 1 \/ j = 2
      BY <3>1
    <3> QED
      BY <2>3, <3>1, <3>2
  <2> QED
    BY <2>1, <2>2, <2>3
<1> QED
  BY <1>2 DEF First

LEMMA WithDataDirIs ==
  ASSUME NEW files, NEW d, NEW w, w = WithDataDir(files, d)
  PROVE  /\ w \in Seq({d, DirOf(files, d)})
         /\ \/ Len(w) = 1 /\ DOMAIN w = 1..1 /\ w[1] = d
            \/ Len(w) = 2 /\ DOMAIN w = 1..2 /\ w[1] = d /\ w[2] = DirOf(files, d)
<1> DEFINE S == {d, DirOf(files, d)}
           x == DirOf(files, d)
<1>1. <<d>> \in Seq(S) /\ <<x>> \in Seq(S) /\ << >> \in Seq(S)
  OBVIOUS
<1>2. CASE x \in Folders
  <2>1. w = <<d>> \o <<x>>
    BY <1>2 DEF WithDataDir
  <2>2. /\ w \in Seq(S) /\ Len(w) = 2 /\ w[1] = d /\ w[2] = x
    BY <1>1, <2>1, ConcatProperties
  <2> QED
    BY <2>2, LenProperties
<1>3. CASE x \notin Folders
  <2>1. w = <<d>> \o << >>
    BY <1>3 DEF WithDataDir
  <2>2. w = <<d>>
    BY <2>1, <1>1, ConcatEmptySeq
  <2> QED
    BY <2>2, <1>1
<1> QED
  BY <1>2, <1>3

LEMMA SingleIs ==
  ASSUME NEW d PROVE <<d>> \o << >> = <<d>>
<1>1. <<d>> \in Seq({d})
  OBVIOUS
<1> QED
  BY <1>1, ConcatEmptySeq

LEMMA PairIs ==
  ASSUME NEW d, NEW x, NEW w, w = <<d>> \o <<x>>
  PROVE  DOMAIN w = 1..2 /\ w[1] = d /\ w[2] = x
<1>1. PICK u, v : u = <<d>> /\ v = <<x>>
  OBVIOUS
<1>2. PICK S : S = {d, x}
  OBVIOUS
<1>3. u \in Seq(S) /\ v \in Seq(S) /\ Len(u) = 1 /\ Len(v) = 1 /\ u[1] = d /\ v[1] = x
  BY <1>1, <1>2
<1>4. w = u \o v
  BY <1>1
<1>5. w \in Seq(S) /\ Len(w) = 2
  BY <1>3, <1>4, ConcatProperties
<1>6. w[1] = u[1] /\ w[2] = v[1]
  BY <1>3, <1>4, ConcatProperties
<1>7. DOMAIN w = 1..2
  BY <1>5, LenProperties
<1> QED
  BY <1>3, <1>6, <1>7

LEMMA PlacesOfApp ==
  ASSUME NEW files, NEW w, w = WithDataDir(files, "app")
  PROVE  \/ DOMAIN w = 1..1 /\ w[1] = "app"
         \/ DOMAIN w = 1..2 /\ w[1] = "app" /\ w[2] = DirOf(files, "app")
<1>1. PICK x : x = DirOf(files, "app")
  OBVIOUS
<1>3. CASE x \in Folders
  <2>1. w = <<"app">> \o <<x>>
    BY <1>1, <1>3 DEF WithDataDir
  <2>2. DOMAIN w = 1..2 /\ w[1] = "app" /\ w[2] = x
    BY <2>1, PairIs
  <2> QED
    BY <1>1, <2>2
<1>4. CASE x \notin Folders
  <2>1. w = <<"app">> \o << >>
    BY <1>1, <1>4 DEF WithDataDir
  <2>2. w = <<"app">>
    BY <2>1, SingleIs
  <2> QED
    BY <2>2
<1> QED
  BY <1>3, <1>4

(***************************************************************************)
(* A start reads the fixed file, or the program's own when there is no     *)
(* fixed one and the own one says something; the folder that the own file  *)
(* names is tried after it, and never first.                               *)
(***************************************************************************)
LEMMA TargetForm ==
  ASSUME NEW files, NEW e, files["app"] \in AnyFile,
         NEW places, places = WithDataDir(files, "app"),
         NEW real, real = {d \in Folders : IsReal(files[d])}
  PROVE  (IF e \/ files["home"] # NoFile \/ ~IsWhole(files["app"]) \/ ~Some(places, real)
          THEN "home" ELSE First(places, real)) = FolderOf(files, e)
<1>w. \/ DOMAIN places = 1..1 /\ places[1] = "app"
      \/ DOMAIN places = 1..2 /\ places[1] = "app" /\ places[2] = DirOf(files, "app")
  BY PlacesOfApp
<1>1. CASE e \/ files["home"] # NoFile \/ ~IsWhole(files["app"])
  BY <1>1 DEF FolderOf, IsReal
<1>2. CASE ~e /\ files["home"] = NoFile /\ IsWhole(files["app"])
  <2>1. "home" \notin real /\ "app" \in Folders
    BY <1>2 DEF IsReal, IsWhole, Folders
  <2>2. CASE IsReal(files["app"])
    <3>1. places[1] = "app" /\ 1 \in DOMAIN places
      BY <1>w
    <3>2. "app" \in real
      BY <2>1, <2>2
    <3>3. Some(places, real)
      BY <3>1, <3>2 DEF Some
    <3>4. DOMAIN places = 1..1 \/ DOMAIN places = 1..2
      BY <1>w
    <3>5. \A i \in DOMAIN places :
            (places[i] \in real /\ \A j \in 1..(i - 1) : places[j] \notin real) <=> i = 1
      BY <3>1, <3>2, <3>4
    <3>6. First(places, real) = "app"
      BY <3>1, <3>5 DEF First
    <3> QED
      BY <1>2, <2>2, <3>3, <3>6 DEF FolderOf
  <2>3. CASE ~IsReal(files["app"])
    <3>1. files["app"].dir \in {"absent", "home"} /\ "app" \notin real
      BY <1>2, <2>3 DEF IsReal
    <3>2. DirOf(files, "app") \in {"absent", "home"}
      BY <1>2, <3>1 DEF DirOf
    <3>a. "absent" \notin real
      BY DEF Folders
    <3>3. \A i \in DOMAIN places : places[i] \in {"app", "home", "absent"}
      <4> SUFFICES ASSUME NEW i \in DOMAIN places PROVE places[i] \in {"app", "home", "absent"}
        OBVIOUS
      <4>1. i = 1 \/ (i = 2 /\ places[2] = DirOf(files, "app"))
        BY <1>w
      <4> QED
        BY <4>1, <1>w, <3>2
    <3>4. ~Some(places, real)
      BY <2>1, <3>1, <3>a, <3>3 DEF Some
    <3> QED
      BY <1>2, <2>3, <3>4 DEF FolderOf
  <2> QED
    BY <2>2, <2>3
<1> QED
  BY <1>1, <1>2

\* What the migration makes of a file keeps its data_dir.
LEMMA MigratedIs ==
  ASSUME NEW files, NEW t \in Folders, \A d \in Folders : files[d] \in AnyFile,
         files[t] \in Files
  PROVE  /\ Migrated(files, t) \in Files
         /\ files[t].model # Absent => Migrated(files, t) = files[t]
<1> DEFINE places == LegacyPlaces(files, t)
           older == {d \in Folders \ {t} : IsWhole(files[d])
                                   /\ files[d].model \notin {Absent, DefaultModel}}
<1>1. files[t].model # Absent => Migrated(files, t) = files[t]
  BY DEF Migrated
<1>2. CASE files[t].model = Absent /\ Some(places, older)
  <2>1. \E n \in 1..3 : DOMAIN places = 1..n
    <3>1. PICK v, w, S : /\ v = WithDataDir(files, t) /\ w = WithDataDir(files, "app")
                         /\ S = {t, DirOf(files, t), "app", DirOf(files, "app")}
      OBVIOUS
    <3>2. v \in Seq({t, DirOf(files, t)}) /\ w \in Seq({"app", DirOf(files, "app")})
            /\ Len(v) \in 1..2 /\ Len(w) \in 1..2
      BY <3>1, WithDataDirIs
    <3>3. v \in Seq(S) /\ w \in Seq(S) /\ v # << >>
      <4>1. {t, DirOf(files, t)} \subseteq S /\ {"app", DirOf(files, "app")} \subseteq S
        BY <3>1
      <4>2. v \in Seq(S) /\ w \in Seq(S)
        BY <3>2, <4>1, SeqMonotonic
      <4>3. PICK i \in 1..2 : i = Len(v)
        BY <3>2
      <4>4. Len(v) # 0
        BY <4>3
      <4>5. v # << >>
        BY <4>4, EmptySeq
      <4> QED
        BY <4>2, <4>5
    <3>4. Tail(v) \in Seq(S) /\ Len(Tail(v)) = Len(v) - 1
      BY <3>3
    <3>5. places = Tail(v) \o w
      BY <3>1 DEF LegacyPlaces
    <3>6. places \in Seq(S) /\ Len(places) = Len(v) - 1 + Len(w)
      BY <3>3, <3>4, <3>5, ConcatProperties
    <3>7. PICK n : n = Len(places)
      OBVIOUS
    <3>8. DOMAIN places = 1..n
      BY <3>6, <3>7, LenProperties
    <3>9. n \in 1..3
      <4>1. PICK i \in 1..2, j \in 1..2 : i = Len(v) /\ j = Len(w)
        BY <3>2
      <4>2. n = i - 1 + j
        BY <3>6, <3>7, <4>1
      <4> QED
        BY <4>2
    <3> QED
      BY <3>8, <3>9
  <2>2. First(places, older) \in older
    BY <1>2, <2>1, FirstIsGood
  <2>3. files[First(places, older)].model \in Int
    BY <2>2 DEF AnyFile, Files, IsWhole
  <2>4. Migrated(files, t) = [files[t] EXCEPT !.model = files[First(places, older)].model]
    BY <1>2 DEF Migrated
  <2> QED
    BY <2>3, <2>4, <1>1 DEF Files
<1>3. CASE files[t].model = Absent /\ ~Some(places, older)
  BY <1>3 DEF Migrated
<1> QED
  BY <1>1, <1>2, <1>3

LEMMA TargetIs ==
  ASSUME disk \in [Folders -> AnyFile]
  PROVE  Target(disk) = FolderOf(disk, explicit)
<1>1. disk["app"] \in AnyFile
  BY DEF Folders
<1> QED
  BY <1>1, TargetForm DEF Target

LEMMA TargetIsNext ==
  ASSUME disk' \in [Folders -> AnyFile]
  PROVE  Target(disk)' = FolderOf(disk', explicit')
<1>1. disk'["app"] \in AnyFile
  BY DEF Folders
<1> QED
  BY <1>1, TargetForm DEF Target

LEMMA FileNames ==
    /\ "home" \in Folders /\ "app" \in Folders /\ "data" \in Folders
    /\ "none" \notin Folders /\ "torn" \notin Folders
    /\ NoFile \in Files /\ NoFile # Torn /\ Torn \notin Files
    /\ Absent \in Int /\ NoFile.model # Absent
    /\ \A d \in Folders : Template(d) \in Files
  BY DEF Folders, Files, NoFile, Torn, Absent, Template, DefaultModel

LEMMA ConfigStart == ConfigInit => ConfigInv
<1> SUFFICES ASSUME ConfigInit PROVE ConfigInv
  OBVIOUS
<1> USE FileNames
<1>1. disk \in [Folders -> Files]
  <2>1. /\ DOMAIN disk = Folders
        /\ disk["home"] \in Files /\ disk["app"] \in Files /\ disk["data"] \in Files
    BY DEF ConfigInit, Folders, Files, DefaultModel, Absent, OldModel, NoFile
  <2>2. \A d \in Folders : disk[d] \in Files
    BY <2>1 DEF Folders
  <2>3. disk = [d \in Folders |-> disk[d]]
    BY <2>1 DEF ConfigInit, Folders
  <2> QED
    BY <2>2, <2>3
<1>2. tmp \in [Folders -> AnyFile]
  BY DEF ConfigInit, AnyFile
<1>3. /\ settings \in [dir : Folders \cup {"none"}, model : Int, path : Folders \cup {NoPath}]
      /\ saved \in Int /\ changes \in Nat /\ up = "down"
  BY DEF ConfigInit, Absent
<1>4. Idle \in [at : {"idle", "changed", "opened", "written"},
                dir : Folders \cup {"none"}, content : Files,
                handle : {"none", "tmp", "file", "lost"}]
  BY DEF Idle
<1>5. \A t \in Writers : ~Busy(t)
  BY DEF ConfigInit, Busy, Idle
<1>6. ConfigTypes
  BY <1>1, <1>2, <1>3, <1>4, <1>5 DEF ConfigInit, ConfigTypes, AnyFile
<1>7. SavesAlone
  BY <1>1, <1>5 DEF SavesAlone
<1>8. SavesWhereRead
  BY <1>5 DEF SavesWhereRead, ConfigInit
<1> QED
  BY <1>6, <1>7, <1>8 DEF ConfigInv

\* A step that changes neither the files nor how the threads stand with them.
LEMMA ConfigQuiet ==
  ASSUME ConfigInv, ConfigTypes', UNCHANGED <<disk, tmp, saved, overlap, astray, explicit>>,
         \A t \in Writers : Busy(t)' => Busy(t) /\ writer'[t] = writer[t]
  PROVE  ConfigInv'
<1>1. CASE overlap
  BY <1>1 DEF ConfigInv
<1>2. CASE ~overlap
  <2>1. SavesAlone'
    BY <1>2 DEF ConfigInv, SavesAlone
  <2>2. Target(disk)' = Target(disk)
    BY TargetIs, TargetIsNext DEF ConfigInv, ConfigTypes
  <2>3. astray \/ SavesWhereRead'
    BY <1>2, <2>2 DEF ConfigInv, SavesWhereRead
  <2> QED
    BY <2>1, <2>3 DEF ConfigInv
<1> QED
  BY <1>1, <1>2 DEF ConfigInv, ConfigTypes

(* The start. *)
LEMMA AfterStartIs ==
  ASSUME ConfigTypes, NEW t, t = Target(disk)
  PROVE  /\ t \in Folders
         /\ AfterStart(disk) \in [Folders -> AnyFile]
         /\ \A d \in Folders : AfterStart(disk)[d] = Torn => disk[d] = Torn
         /\ disk[t].model # Absent /\ disk[t] # NoFile => AfterStart(disk) = disk
<1> USE FileNames
<1>1. t \in Folders
  BY TargetIs DEF ConfigTypes, FolderOf
<1> DEFINE created == IF disk[t] = NoFile THEN [disk EXCEPT ![t] = Template(t)] ELSE disk
<1>2. created \in [Folders -> AnyFile] /\ \A d \in Folders : created[d] = Torn => disk[d] = Torn
  BY <1>1 DEF ConfigTypes, AnyFile
<1>3. AfterStart(disk) = IF created[t] = Torn THEN created
                         ELSE [created EXCEPT ![t] = Migrated(created, t)]
  BY DEF AfterStart
<1> HIDE DEF created
<1>4. CASE created[t] = Torn
  <2>1. AfterStart(disk) = created /\ disk[t] = Torn
    BY <1>1, <1>2, <1>3, <1>4
  <2>2. created = disk
    BY <2>1 DEF created
  <2> QED
    BY <1>1, <1>2, <2>1, <2>2
<1>5. CASE created[t] # Torn
  <2>1. created[t] \in Files /\ \A d \in Folders : created[d] \in AnyFile
    BY <1>1, <1>2, <1>5 DEF AnyFile
  <2>2. /\ Migrated(created, t) \in Files
        /\ created[t].model # Absent => Migrated(created, t) = created[t]
    BY <1>1, <2>1, MigratedIs
  <2>3. AfterStart(disk) = [created EXCEPT ![t] = Migrated(created, t)]
    BY <1>3, <1>5
  <2>4. AfterStart(disk) \in [Folders -> AnyFile]
    BY <2>2, <2>3, <1>2 DEF AnyFile
  <2>5. \A d \in Folders : AfterStart(disk)[d] = Torn => disk[d] = Torn
    BY <2>2, <2>3, <1>1, <1>2
  <2>6. disk[t].model # Absent /\ disk[t] # NoFile => AfterStart(disk) = disk
    <3> SUFFICES ASSUME disk[t].model # Absent, disk[t] # NoFile PROVE AfterStart(disk) = disk
      OBVIOUS
    <3>1. created = disk
      BY DEF created
    <3>2. AfterStart(disk) = [disk EXCEPT ![t] = disk[t]]
      BY <2>2, <2>3, <3>1
    <3> QED
      BY <3>2 DEF ConfigTypes
  <2> QED
    BY <1>1, <2>4, <2>5, <2>6
<1> QED
  BY <1>4, <1>5

LEMMA ConfigLoad == ConfigInv /\ Load => ConfigInv'
<1> SUFFICES ASSUME ConfigInv, Load PROVE ConfigInv'
  OBVIOUS
<1> USE FileNames
<1>1. PICK t, f : t = Target(disk) /\ f = AfterStart(disk)[t]
  OBVIOUS
<1>2. /\ up = "down" /\ disk' = AfterStart(disk)
      /\ \/ up' = "failed" /\ settings' = settings
         \/ /\ up' = "up" /\ f # Torn
            /\ settings' = [dir |-> IF f.dir \in Folders THEN f.dir ELSE t,
                            model |-> ModelOf(f), path |-> t]
      /\ UNCHANGED <<tmp, writer, purge, platform, explicit, saved, overlap, astray, changes>>
  BY <1>1 DEF Load
<1>3. /\ t \in Folders /\ disk' \in [Folders -> AnyFile]
      /\ \A d \in Folders : disk'[d] = Torn => disk[d] = Torn
      /\ disk[t].model # Absent /\ disk[t] # NoFile => disk' = disk
  BY <1>1, <1>2, AfterStartIs DEF ConfigInv
<1>4. f # Torn => /\ ModelOf(f) \in Int /\ ModelOf(f) # Absent
  <2>1. f \in AnyFile
    BY <1>1, <1>2, <1>3
  <2> QED
    BY <2>1 DEF AnyFile, Files, ModelOf, Absent, DefaultModel
<1>5. \A u \in Writers : ~Busy(u) /\ ~Busy(u)'
  BY <1>2 DEF ConfigInv, ConfigTypes, Busy
<1>6. ConfigTypes'
  BY <1>2, <1>3, <1>4, <1>5 DEF ConfigInv, ConfigTypes
<1>7. overlap \/ SavesAlone'
  BY <1>2, <1>3, <1>5 DEF ConfigInv, SavesAlone
<1>8. overlap \/ astray \/ SavesWhereRead'
  <2> SUFFICES ASSUME ~overlap, ~astray PROVE SavesWhereRead'
    OBVIOUS
  <2>1. CASE saved = Absent
    BY <2>1, <1>2, <1>5 DEF SavesWhereRead
  <2>2. CASE saved # Absent
    <3>1. disk[t].model = saved
      BY <2>2, <1>1 DEF ConfigInv, SavesWhereRead
    <3>2. disk[t] # NoFile
      BY <2>2, <1>1 DEF ConfigInv, SavesWhereRead
    <3>3. disk' = disk
      BY <1>3, <2>2, <3>1, <3>2
    <3>4. Target(disk)' = Target(disk)
      BY <3>3, <1>2, TargetIs, TargetIsNext DEF ConfigInv, ConfigTypes
    <3> QED
      BY <1>1, <1>2, <1>5, <3>1, <3>2, <3>3, <3>4 DEF SavesWhereRead
  <2> QED
    BY <2>1, <2>2
<1> QED
  BY <1>2, <1>6, <1>7, <1>8 DEF ConfigInv

(* Changing and saving. *)
LEMMA ConfigChange ==
  ASSUME ConfigInv, NEW t \in Writers, Override(t) \/ ConfigSet(t)
  PROVE  ConfigInv'
<1> USE FileNames
<1>1. PICK new : Change(t, new) /\ \/ new = [settings EXCEPT !.model = changes + 1]
                                   \/ new = [settings EXCEPT !.model = changes + 1, !.path = NoPath]
                                   \/ \E d \in {"home", "data"} :
                                        new = [settings EXCEPT !.dir = d, !.path = NoPath]
  BY DEF Override, ConfigSet
<1>2. /\ up = "up" /\ changes \in Nat /\ settings.dir \in Folders /\ settings.model # Absent
      /\ settings \in [dir : Folders \cup {"none"}, model : Int, path : Folders \cup {NoPath}]
      /\ changes + 1 # Absent
  BY <1>1 DEF Change, ConfigInv, ConfigTypes, Absent
<1>3. /\ new \in [dir : Folders \cup {"none"}, model : Int, path : Folders \cup {NoPath}]
      /\ new.dir \in Folders /\ new.model # Absent
  <2>1. changes + 1 \in Int
    BY <1>2
  <2>2. CASE new = [settings EXCEPT !.model = changes + 1]
    BY <1>2, <2>1, <2>2
  <2>3. CASE new = [settings EXCEPT !.model = changes + 1, !.path = NoPath]
    BY <1>2, <2>1, <2>3
  <2>4. CASE \E d \in {"home", "data"} : new = [settings EXCEPT !.dir = d, !.path = NoPath]
    <3>1. PICK d \in {"home", "data"} : new = [settings EXCEPT !.dir = d, !.path = NoPath]
      BY <2>4
    <3>2. d \in Folders
      BY DEF Folders
    <3> QED
      BY <1>2, <3>1, <3>2
  <2> QED
    BY <1>1, <2>2, <2>3, <2>4
<1>4. /\ changes' = changes + 1 /\ settings' = new /\ writer[t] = Idle
      /\ writer' = [writer EXCEPT ![t].at = "changed"]
      /\ UNCHANGED <<up, disk, tmp, purge, platform, explicit, saved, overlap, astray, starts>>
  BY <1>1 DEF Change
<1>5. /\ writer' \in [Writers -> [at : {"idle", "changed", "opened", "written"},
                                  dir : Folders \cup {"none"}, content : Files,
                                  handle : {"none", "tmp", "file", "lost"}]]
      /\ writer'[t].at = "changed" /\ \A u \in Writers \ {t} : writer'[u] = writer[u]
  BY <1>4 DEF ConfigInv, ConfigTypes
<1>6. \A u \in Writers : Busy(u)' => Busy(u) /\ writer'[u] = writer[u]
  BY <1>5 DEF Busy
<1>7. ConfigTypes'
  BY <1>2, <1>3, <1>4, <1>5 DEF ConfigInv, ConfigTypes
<1> QED
  BY <1>4, <1>6, <1>7, ConfigQuiet

LEMMA ConfigOpen ==
  ASSUME ConfigInv, NEW t \in Writers, Open(t)
  PROVE  ConfigInv'
<1> USE FileNames
<1>1. PICK d, new : /\ d = EffectivePath
                    /\ new = [at |-> "opened", dir |-> d, handle |-> "tmp",
                              content |-> [dir |-> settings.dir, model |-> settings.model]]
  OBVIOUS
<1>2. /\ up = "up" /\ writer[t].at = "changed"
      /\ writer' = [writer EXCEPT ![t] = new]
      /\ tmp' = [tmp EXCEPT ![d] = Torn]
      /\ overlap' = (overlap \/ \E u \in Writers \ {t} : Busy(u))
      /\ astray' = (astray \/ d # Target(disk))
      /\ UNCHANGED <<up, disk, settings, purge, platform, explicit, saved, changes, starts>>
  BY <1>1 DEF Open
<1>3. /\ settings.dir \in Folders /\ settings.model # Absent /\ settings.model \in Int
      /\ d \in Folders
  BY <1>1, <1>2 DEF ConfigInv, ConfigTypes, EffectivePath, NoPath
<1>4. /\ new \in [at : {"idle", "changed", "opened", "written"},
                  dir : Folders \cup {"none"}, content : Files,
                  handle : {"none", "tmp", "file", "lost"}]
      /\ new.at = "opened" /\ new.dir = d /\ new.handle = "tmp"
      /\ new.content.dir \in Folders /\ new.content.model # Absent
  BY <1>1, <1>3 DEF Files
<1>5. /\ writer'[t] = new /\ \A u \in Writers \ {t} : writer'[u] = writer[u]
      /\ tmp'[d] = Torn
  BY <1>2, <1>3 DEF ConfigInv, ConfigTypes
<1>6. ConfigTypes'
  BY <1>2, <1>3, <1>4 DEF ConfigInv, ConfigTypes, AnyFile
<1>7. CASE overlap'
  BY <1>6, <1>7 DEF ConfigInv
<1>8. CASE ~overlap'
  <2>1. ~overlap /\ \A u \in Writers \ {t} : ~Busy(u)
    BY <1>2, <1>8
  <2>2. \A u \in Writers : Busy(u)' => u = t
    BY <2>1, <1>5 DEF Busy
  <2>3. SavesAlone'
    BY <2>1, <2>2, <1>2, <1>3, <1>4, <1>5 DEF ConfigInv, SavesAlone
  <2>4. CASE astray'
    BY <1>6, <2>3, <2>4 DEF ConfigInv
  <2>5. CASE ~astray'
    <3>1. ~astray /\ d = Target(disk)
      BY <1>2, <2>5
    <3>2. d = FolderOf(disk, explicit)
      BY <3>1, TargetIs DEF ConfigInv, ConfigTypes
    <3>3. d \in {"home", "app"} /\ (d = "app" => ~explicit /\ disk["home"] = NoFile)
      BY <3>2 DEF FolderOf
    <3>4. Target(disk)' = Target(disk)
      BY <1>2, TargetIs, TargetIsNext DEF ConfigInv, ConfigTypes
    <3>5. SavesWhereRead'
      BY <2>1, <2>2, <3>1, <3>3, <3>4, <1>2, <1>4, <1>5 DEF ConfigInv, SavesWhereRead
    <3> QED
      BY <1>6, <2>3, <3>5 DEF ConfigInv
  <2> QED
    BY <2>4, <2>5
<1> QED
  BY <1>7, <1>8

LEMMA ConfigWrite ==
  ASSUME ConfigInv, NEW t \in Writers, Write(t)
  PROVE  ConfigInv'
<1> USE FileNames
<1>1. /\ up = "up" /\ writer[t].at = "opened"
      /\ writer' = [writer EXCEPT ![t].at = "written"]
      /\ \/ /\ writer[t].handle = "tmp" /\ disk' = disk
            /\ \E f \in Mixed(tmp[writer[t].dir], writer[t].content) :
                 tmp' = [tmp EXCEPT ![writer[t].dir] = f]
         \/ /\ writer[t].handle = "file" /\ tmp' = tmp
            /\ \E f \in Mixed(disk[writer[t].dir], writer[t].content) :
                 disk' = [disk EXCEPT ![writer[t].dir] = f]
         \/ writer[t].handle = "lost" /\ disk' = disk /\ tmp' = tmp
      /\ UNCHANGED <<up, settings, purge, platform, explicit, saved, overlap, astray, changes, starts>>
  BY DEF Write
<1>2. writer[t].content \in Files
  BY DEF ConfigInv, ConfigTypes
<1>3. \A old : Mixed(old, writer[t].content) \subseteq AnyFile
  BY <1>2 DEF Mixed, AnyFile
<1>4. disk' \in [Folders -> AnyFile] /\ tmp' \in [Folders -> AnyFile]
  BY <1>1, <1>3 DEF ConfigInv, ConfigTypes
<1>5. /\ writer' \in [Writers -> [at : {"idle", "changed", "opened", "written"},
                                  dir : Folders \cup {"none"}, content : Files,
                                  handle : {"none", "tmp", "file", "lost"}]]
      /\ writer'[t].at = "written" /\ writer'[t].dir = writer[t].dir
      /\ writer'[t].content = writer[t].content /\ writer'[t].handle = writer[t].handle
      /\ \A u \in Writers \ {t} : writer'[u] = writer[u]
  BY <1>1 DEF ConfigInv, ConfigTypes
<1>6. ConfigTypes'
  BY <1>1, <1>4, <1>5 DEF ConfigInv, ConfigTypes
<1>7. CASE overlap
  BY <1>1, <1>6, <1>7 DEF ConfigInv
<1>8. CASE ~overlap
  <2>1. Busy(t) /\ SavesAlone
    BY <1>1, <1>8 DEF Busy, ConfigInv
  <2>2. \A u \in Writers : Busy(u) <=> u = t
    BY <2>1 DEF SavesAlone
  <2>3. \A u \in Writers : Busy(u)' <=> u = t
    BY <2>2, <1>5 DEF Busy
  <2>4. /\ disk' = disk /\ tmp'[writer[t].dir] \in {writer[t].content, NoFile}
    <3>1. CASE writer[t].handle = "tmp"
      <4>1. tmp[writer[t].dir] = Torn /\ writer[t].dir \in Folders
        BY <1>1, <2>1, <3>1 DEF SavesAlone
      <4>2. tmp' = [tmp EXCEPT ![writer[t].dir] = writer[t].content] /\ disk' = disk
        BY <1>1, <3>1, <4>1 DEF Mixed
      <4> QED
        BY <4>1, <4>2 DEF ConfigInv, ConfigTypes
    <3>2. CASE writer[t].handle = "lost"
      BY <1>1, <2>1, <3>2 DEF SavesAlone
    <3> QED
      BY <2>1, <3>1, <3>2 DEF SavesAlone
  <2>5. SavesAlone'
    BY <2>1, <2>3, <2>4, <1>5 DEF SavesAlone
  <2>6. astray \/ SavesWhereRead'
    <3>1. Target(disk)' = Target(disk)
      BY <2>4, <1>1, TargetIs, TargetIsNext DEF ConfigInv, ConfigTypes
    <3> QED
      BY <1>1, <1>5, <1>8, <2>1, <2>3, <2>4, <3>1 DEF ConfigInv, SavesWhereRead
  <2> QED
    BY <1>1, <1>6, <2>5, <2>6 DEF ConfigInv
<1> QED
  BY <1>7, <1>8

LEMMA ConfigReplace ==
  ASSUME ConfigInv, NEW t \in Writers, Replace(t)
  PROVE  ConfigInv'
<1> USE FileNames
<1> DEFINE w == writer[t]
<1>1. /\ up = "up" /\ w.at = "written"
      /\ UNCHANGED <<up, settings, purge, platform, explicit, overlap, astray, changes, starts>>
  BY DEF Replace
<1>2. Idle \in [at : {"idle", "changed", "opened", "written"},
                dir : Folders \cup {"none"}, content : Files,
                handle : {"none", "tmp", "file", "lost"}] /\ Idle.at = "idle"
  BY DEF Idle
<1>3. CASE CannotReplace(t) /\ writer' = [writer EXCEPT ![t] = Idle]
           /\ UNCHANGED <<disk, tmp, saved>>
  <2>1. ConfigTypes'
    BY <1>1, <1>2, <1>3 DEF ConfigInv, ConfigTypes
  <2>2. \A u \in Writers : Busy(u)' => Busy(u) /\ writer'[u] = writer[u]
    BY <1>2, <1>3 DEF ConfigInv, ConfigTypes, Busy
  <2> QED
    BY <1>1, <1>3, <2>1, <2>2, ConfigQuiet
<1>4. CASE /\ ~CannotReplace(t)
           /\ disk' = [disk EXCEPT ![w.dir] = tmp[w.dir]]
           /\ tmp' = [tmp EXCEPT ![w.dir] = NoFile]
           /\ writer' = [Moved(w.dir) EXCEPT ![t] = Idle]
           /\ saved' = w.content.model
  <2>1. \A d : \A u \in Writers :
          /\ Moved(d)[u] \in [at : {"idle", "changed", "opened", "written"},
                              dir : Folders \cup {"none"}, content : Files,
                              handle : {"none", "tmp", "file", "lost"}]
          /\ Moved(d)[u].at = writer[u].at
    BY DEF ConfigInv, ConfigTypes, Moved
  <2>2. /\ writer' \in [Writers -> [at : {"idle", "changed", "opened", "written"},
                                    dir : Folders \cup {"none"}, content : Files,
                                    handle : {"none", "tmp", "file", "lost"}]]
        /\ writer'[t] = Idle /\ \A u \in Writers \ {t} : writer'[u].at = writer[u].at
    <3>1. DOMAIN Moved(w.dir) = Writers
      BY DEF Moved
    <3>2. \A u \in Writers : writer'[u] = IF u = t THEN Idle ELSE Moved(w.dir)[u]
      BY <1>4, <3>1
    <3>3. writer' = [u \in Writers |-> writer'[u]]
      BY <1>4, <3>1
    <3>4. \A u \in Writers :
            writer'[u] \in [at : {"idle", "changed", "opened", "written"},
                            dir : Folders \cup {"none"}, content : Files,
                            handle : {"none", "tmp", "file", "lost"}]
      BY <3>2, <2>1, <1>2
    <3> QED
      BY <3>2, <3>3, <3>4, <2>1
  <2>3. /\ disk' \in [Folders -> AnyFile] /\ tmp' \in [Folders -> AnyFile] /\ saved' \in Int
    <3>1. w \in [at : {"idle", "changed", "opened", "written"},
                 dir : Folders \cup {"none"}, content : Files,
                 handle : {"none", "tmp", "file", "lost"}]
      BY DEF ConfigInv, ConfigTypes
    <3>2. saved' \in Int
      BY <3>1, <1>4 DEF Files
    <3>3. tmp' \in [Folders -> AnyFile]
      BY <1>4 DEF ConfigInv, ConfigTypes, AnyFile
    <3>4. disk' \in [Folders -> AnyFile]
      BY <1>4 DEF ConfigInv, ConfigTypes
    <3> QED
      BY <3>2, <3>3, <3>4
  <2>4. ConfigTypes'
    BY <1>1, <2>2, <2>3 DEF ConfigInv, ConfigTypes
  <2>5. CASE overlap
    BY <1>1, <2>4, <2>5 DEF ConfigInv
  <2>6. CASE ~overlap
    <3>1. Busy(t) /\ SavesAlone
      BY <1>1, <2>6 DEF Busy, ConfigInv
    <3>2. \A u \in Writers : Busy(u) <=> u = t
      BY <3>1 DEF SavesAlone
    <3>3. \A u \in Writers : ~Busy(u)'
      BY <3>2, <2>2, <1>2 DEF Busy
    <3>4. /\ w.dir \in Folders /\ w.content.model # Absent /\ w.content.dir \in Folders
          /\ tmp[w.dir] = w.content /\ w.content # NoFile /\ w.content # Torn
      <4>1. tmp[w.dir] # NoFile
        BY <1>4 DEF CannotReplace
      <4>2. w.dir \in Folders /\ w.content.dir \in Folders /\ w.content.model # Absent
        BY <3>1 DEF SavesAlone
      <4>3. tmp[w.dir] = w.content
        BY <3>1, <4>1, <1>1 DEF SavesAlone
      <4>4. NoFile.dir = "none" /\ Torn.dir = "torn"
        BY DEF NoFile, Torn
      <4> QED
        BY <4>2, <4>3, <4>4
    <3>5. disk'[w.dir] = w.content /\ \A d \in Folders \ {w.dir} : disk'[d] = disk[d]
      BY <3>4, <1>4 DEF ConfigInv, ConfigTypes
    <3>6. SavesAlone'
      BY <3>1, <3>3, <3>4, <3>5 DEF SavesAlone
    <3>7. CASE astray
      BY <1>1, <2>4, <3>6, <3>7 DEF ConfigInv
    <3>8. CASE ~astray
      <4>1. /\ w.dir \in {"home", "app"}
            /\ w.dir = "app" => ~explicit /\ disk["home"] = NoFile
        BY <3>1, <3>8, <2>6 DEF ConfigInv, SavesWhereRead
      <4>2. Target(disk)' = w.dir
        <5>1. CASE w.dir = "home"
          BY <5>1, <3>4, <3>5, <2>3, TargetIsNext DEF FolderOf
        <5>2. CASE w.dir = "app"
          <6>1. disk'["home"] = NoFile /\ IsReal(disk'["app"])
            BY <5>2, <4>1, <3>4, <3>5 DEF IsReal, IsWhole
          <6> QED
            BY <5>2, <6>1, <4>1, <1>1, <2>3, TargetIsNext DEF FolderOf
        <5> QED
          BY <4>1, <5>1, <5>2
      <4>3. SavesWhereRead'
        BY <4>2, <3>3, <3>4, <3>5, <1>4 DEF SavesWhereRead
      <4> QED
        BY <2>4, <3>6, <4>3 DEF ConfigInv
    <3> QED
      BY <3>7, <3>8
  <2> QED
    BY <2>5, <2>6
<1> QED
  BY <1>3, <1>4 DEF Replace

(* The purge and the crash. *)
LEMMA ConfigPurge ==
  ASSUME ConfigInv, PurgeBegins \/ PurgeReports \/ PurgeExits
  PROVE  ConfigInv'
<1>1. /\ UNCHANGED <<disk, tmp, settings, writer, explicit, saved, overlap, astray, changes>>
      /\ up' \in {"up", "purged"} /\ (up' = "up" => up = "up")
  BY DEF PurgeBegins, PurgeReports, PurgeExits
<1>2. ConfigTypes'
  BY <1>1 DEF ConfigInv, ConfigTypes, Busy
<1>3. \A t \in Writers : Busy(t)' => Busy(t) /\ writer'[t] = writer[t]
  BY <1>1 DEF Busy
<1> QED
  BY <1>1, <1>2, <1>3, ConfigQuiet

LEMMA ConfigCrash == ConfigInv /\ Crash => ConfigInv'
<1> SUFFICES ASSUME ConfigInv, Crash PROVE ConfigInv'
  OBVIOUS
<1> USE FileNames
<1>1. /\ up' = "down" /\ writer' = [t \in Writers |-> Idle]
      /\ UNCHANGED <<disk, tmp, settings, explicit, saved, overlap, astray, changes>>
  BY DEF Crash
<1>2. Idle \in [at : {"idle", "changed", "opened", "written"},
                dir : Folders \cup {"none"}, content : Files,
                handle : {"none", "tmp", "file", "lost"}] /\ Idle.at = "idle"
  BY DEF Idle
<1>3. \A t \in Writers : ~Busy(t)'
  BY <1>1, <1>2 DEF Busy
<1>4. ConfigTypes'
  BY <1>1, <1>2, <1>3 DEF ConfigInv, ConfigTypes
<1> QED
  BY <1>1, <1>3, <1>4, ConfigQuiet

LEMMA ConfigDelete == ConfigInv /\ PurgeDeletes => ConfigInv'
<1> SUFFICES ASSUME ConfigInv, PurgeDeletes PROVE ConfigInv'
  OBVIOUS
<1> USE FileNames
<1>1. PICK d, f : /\ d = purge.dir
                  /\ IF f = "tmp" THEN tmp' = [tmp EXCEPT ![d] = NoFile] /\ disk' = disk
                                  ELSE disk' = [disk EXCEPT ![d] = NoFile] /\ tmp' = tmp
                  /\ writer' = [u \in Writers |->
                       IF writer[u].dir = d /\ writer[u].handle = (IF f = "tmp" THEN "tmp" ELSE "file")
                       THEN [writer[u] EXCEPT !.handle = "lost"] ELSE writer[u]]
  BY DEF PurgeDeletes
<1>2. /\ saved' = IF disk' # disk THEN Absent ELSE saved
      /\ up = "up"
      /\ UNCHANGED <<up, settings, explicit, overlap, astray, changes>>
  BY DEF PurgeDeletes
<1>3. disk' \in [Folders -> AnyFile] /\ tmp' \in [Folders -> AnyFile]
  BY <1>1 DEF ConfigInv, ConfigTypes, AnyFile
<1>4. /\ writer' \in [Writers -> [at : {"idle", "changed", "opened", "written"},
                                  dir : Folders \cup {"none"}, content : Files,
                                  handle : {"none", "tmp", "file", "lost"}]]
      /\ \A u \in Writers : /\ writer'[u].at = writer[u].at /\ writer'[u].dir = writer[u].dir
                            /\ writer'[u].content = writer[u].content
                            /\ writer'[u].handle =
                                 IF writer[u].dir = d
                                    /\ writer[u].handle = (IF f = "tmp" THEN "tmp" ELSE "file")
                                 THEN "lost" ELSE writer[u].handle
  BY <1>1 DEF ConfigInv, ConfigTypes
<1>5. ConfigTypes'
  BY <1>2, <1>3, <1>4 DEF ConfigInv, ConfigTypes
<1>6. \A u \in Writers : Busy(u)' <=> Busy(u)
  BY <1>4 DEF Busy
<1>7. overlap \/ SavesAlone'
  <2> SUFFICES ASSUME SavesAlone PROVE SavesAlone'
    BY DEF ConfigInv
  <2>1. \A e \in Folders : disk'[e] # Torn
    BY <1>1 DEF ConfigInv, ConfigTypes, SavesAlone
  <2>2. ASSUME NEW t \in Writers, Busy(t)
        PROVE  /\ writer'[t].handle \in {"tmp", "lost"}
               /\ writer'[t].at = "opened" /\ writer'[t].handle = "tmp" =>
                    tmp'[writer'[t].dir] = Torn
               /\ writer'[t].at = "opened" /\ writer'[t].handle = "lost" =>
                    tmp'[writer'[t].dir] = NoFile
               /\ writer'[t].at = "written" =>
                    tmp'[writer'[t].dir] \in {writer'[t].content, NoFile}
    <3>1. /\ writer[t].dir \in Folders /\ writer[t].handle \in {"tmp", "lost"}
          /\ writer[t].at = "opened" /\ writer[t].handle = "tmp" => tmp[writer[t].dir] = Torn
          /\ writer[t].at = "opened" /\ writer[t].handle = "lost" => tmp[writer[t].dir] = NoFile
          /\ writer[t].at = "written" => tmp[writer[t].dir] \in {writer[t].content, NoFile}
      BY <2>2 DEF SavesAlone
    <3>2. CASE f = "tmp" /\ writer[t].dir = d
      <4>1. tmp'[writer[t].dir] = NoFile /\ writer'[t].handle = "lost"
        BY <1>1, <1>4, <3>1, <3>2 DEF ConfigInv, ConfigTypes
      <4> QED
        BY <4>1, <1>4
    <3>3. CASE ~(f = "tmp" /\ writer[t].dir = d)
      <4>1. tmp'[writer[t].dir] = tmp[writer[t].dir]
        BY <1>1, <3>1, <3>3 DEF ConfigInv, ConfigTypes
      <4>2. writer'[t].handle = writer[t].handle
        BY <1>4, <3>1, <3>3
      <4> QED
        BY <4>1, <4>2, <1>4, <3>1
    <3> QED
      BY <3>2, <3>3
  <2> QED
    BY <2>1, <2>2, <1>4, <1>6 DEF SavesAlone
<1>8. overlap \/ astray \/ SavesWhereRead'
  <2> SUFFICES ASSUME SavesWhereRead PROVE SavesWhereRead'
    BY DEF ConfigInv
  <2>1. disk["home"] = NoFile => disk'["home"] = NoFile
    BY <1>1 DEF ConfigInv, ConfigTypes
  <2>2. \A t \in Writers : Busy(t)' =>
          /\ writer'[t].dir \in {"home", "app"}
          /\ writer'[t].dir = "app" => ~explicit' /\ disk'["home"] = NoFile
    BY <2>1, <1>2, <1>4, <1>6 DEF SavesWhereRead
  <2>3. CASE disk' # disk
    BY <2>2, <2>3, <1>2 DEF SavesWhereRead
  <2>4. CASE disk' = disk
    <3>1. Target(disk)' = Target(disk)
      BY <2>4, <1>2, TargetIs, TargetIsNext DEF ConfigInv, ConfigTypes
    <3> QED
      BY <2>2, <2>4, <3>1, <1>2 DEF SavesWhereRead
  <2> QED
    BY <2>3, <2>4
<1> QED
  BY <1>2, <1>5, <1>7, <1>8 DEF ConfigInv

LEMMA ConfigStep == ConfigInv /\ [ConfigNext]_configVars => ConfigInv'
<1> SUFFICES ASSUME ConfigInv, [ConfigNext]_configVars PROVE ConfigInv'
  OBVIOUS
<1>1. CASE Load
  BY <1>1, ConfigLoad
<1>2. CASE Crash
  BY <1>2, ConfigCrash
<1>3. ASSUME NEW t \in Writers, WriterStep(t) PROVE ConfigInv'
  BY <1>3, ConfigChange, ConfigOpen, ConfigWrite, ConfigReplace DEF WriterStep
<1>4. CASE PurgeBegins \/ PurgeReports \/ PurgeExits
  BY <1>4, ConfigPurge
<1>5. CASE PurgeDeletes
  BY <1>5, ConfigDelete
<1>6. CASE UNCHANGED configVars
  <2>1. ConfigTypes'
    BY <1>6 DEF configVars, ConfigInv, ConfigTypes, Busy
  <2> QED
    BY <1>6, <2>1, ConfigQuiet DEF configVars, Busy
<1> QED
  BY <1>1, <1>2, <1>3, <1>4, <1>5, <1>6 DEF ConfigNext

\* Whatever files lie around, whatever a start folds into them and wherever the
\* program dies, the settings file that a start reads is whole and has what was
\* saved last, unless two threads have saved together (they share
\* config.json.tmp) or a save went to another file than the one that was read.
THEOREM ConfigStaysSafe == ConfigSpec => []ConfigSafe
<1>1. ConfigInv => ConfigSafe
  <2> SUFFICES ASSUME ConfigInv PROVE ConfigIsWhole /\ SavedIsReadAgain
    BY DEF ConfigSafe
  <2>1. ConfigIsWhole
    BY DEF ConfigInv, SavesAlone, ConfigIsWhole
  <2>2. CASE saved # Absent /\ ~overlap /\ ~astray
    <3>1. PICK t : t = Target(disk)
      OBVIOUS
    <3>2. disk[t] # NoFile /\ disk[t].model = saved
      BY <2>2, <3>1 DEF ConfigInv, SavesWhereRead
    <3>3. AfterStart(disk) = disk
      BY <3>1, <3>2, <2>2, AfterStartIs DEF ConfigInv
    <3> QED
      BY <2>1, <3>1, <3>2, <3>3 DEF SavedIsReadAgain
  <2>3. CASE saved = Absent \/ overlap \/ astray
    BY <2>1, <2>3 DEF SavedIsReadAgain
  <2> QED
    BY <2>2, <2>3
<1> QED
  BY <1>1, ConfigStart, ConfigStep, PTL DEF ConfigSpec

-----------------------------------------------------------------------------
(***************************************************************************)
(* The accounts of the Bridge.                                             *)
(***************************************************************************)
LoginStates == {"disconnected", "await_code", "connected"}
TgSettings == [feature : BOOLEAN, active : Names,
               acc : [Names -> [in : BOOLEAN, on : BOOLEAN, cred : BOOLEAN]]]
Places == {"idle", "login", "remove", "set", "dump", "write", "replace", "sync", "drop",
           "disconnect", "create", "put", "make", "take"}
OpNames == Operations \cup {"none", "mark", "start", "submit"}
Jobs == [at : Places, op : OpNames, name : Names, client : 0..MaxClients,
         seen : TgSettings, todo : SUBSET Names]
TgClients == [of : Names, state : LoginStates]

AccountTypes ==
    /\ tgSettings \in TgSettings /\ config \in TgSettings /\ tmpText \subseteq TgSettings
    /\ built \in 0..MaxClients /\ table \in [Names -> 0..built] /\ mirror \in 0..built
    /\ tgclient \in [Clients -> TgClients]
    /\ sessionFiles \subseteq Names
    /\ job \in [Workers -> Jobs]

\* What a thread is about.  The client that it holds is, or was, of the
\* account that it names.
JobGoes(j) ==
    /\ j.client <= built
    /\ j.client # NoClient =>
         tgclient[j.client].of = j.name /\ j.at \in {"login", "remove", "disconnect"}
    /\ j.at \in {"login", "disconnect"} => j.client # NoClient
    /\ j.at \in {"remove", "set"} => j.op \in Operations \cup {"mark"}
    /\ j.at = "remove" => j.op # "save"

\* The table has clients of its own accounts.
OwnClient(n) == table[n] # NoClient => tgclient[table[n]].of = n

\* A client that is in no account's place has no connection, and no login
\* that could make one, unless it lost its place under a login, or a thread
\* is disconnecting it.
Holds(j, c) == j.at \in {"remove", "disconnect"} /\ j.client = c
InPlace(c) ==
    \/ c = table[tgclient[c].of]
    \/ c \in orphaned
    \/ \E t \in Workers : Holds(job[t], c)
    \/ tgclient[c].state # "connected" /\ ~LoginIn(c)

ClientsInv ==
    /\ AccountTypes
    /\ \A t \in Workers : JobGoes(job[t])
    /\ \A n \in Names : OwnClient(n)
    /\ \A c \in Clients : InPlace(c)

\* As long as saves do not meet, the one that is under way has written its
\* own dump, and that has the settings of now unless a newer one is to come;
\* while the file is behind, some thread saves or is to save.
FileInv ==
    ~savesMet =>
      /\ \A t, u \in Workers : Saving(t) /\ Saving(u) => t = u
      /\ \A t \in Workers : job[t].at = "replace" => tmpText = {job[t].seen}
      /\ \A t \in Workers : Saving(t) =>
           job[t].seen = tgSettings \/ \E u \in Workers : job[u].at = "dump"
      /\ \/ unsaved \/ config = tgSettings
         \/ \E t \in Workers : job[t].at = "dump" \/ Saving(t)

\* A thread that will still look at the settings and synchronise.
Pending(j) == j.at \in {"remove", "set", "dump", "write", "replace", "sync"} /\ j.op # "save"
Syncs(j) == j.at \in {"drop", "disconnect", "create", "put"}
NonePending == \A t \in Workers : ~Pending(job[t])

\* At rest, the clients are those that the settings and logins ask for.  A
\* client that a login has asked for is connected only if that login raised:
\* else its thread is not at rest before it has noted the login.
IsConnected(n) == table[n] # NoClient /\ tgclient[table[n]].state = "connected"
Agrees(n) ==
    /\ n \in Desired(tgSettings) /\ tgSettings.acc[n].cred => table[n] # NoClient
    /\ table[n] # NoClient => n \in Desired(tgSettings) \cup asked
    /\ IsConnected(n) => n \in Desired(tgSettings) \cup lost
    /\ IsConnected(n) /\ n = tgSettings.active => mirror = table[n] \/ n \in lost

\* What a sync has left to do: the superfluous clients first, then those that
\* are missing.
Dropping(j) == j.at \in {"drop", "disconnect"}
Left(j) == IF Dropping(j) THEN j.todo ELSE {}
SyncGoes(j) ==
    /\ j.seen = tgSettings
    /\ \A n \in Names :
         /\ table[n] # NoClient => n \in Desired(tgSettings) \cup asked \cup Left(j)
         /\ IsConnected(n) => n \in Desired(tgSettings) \cup lost \cup Left(j)
         /\ n \in Left(j) => table[n] # NoClient
         /\ ~Dropping(j) /\ n \in Desired(tgSettings) /\ tgSettings.acc[n].cred =>
              table[n] # NoClient \/ n \in j.todo \/ (j.at = "put" /\ n = j.name)
    /\ ~Dropping(j) => j.todo \subseteq Desired(tgSettings)
    /\ j.at = "put" => j.name \in Desired(tgSettings)

\* As long as syncs have not met, one that nobody will follow knows the
\* settings of now.
SyncInv ==
    ~syncsMet =>
      /\ \A t, u \in Workers : Syncs(job[t]) /\ Syncs(job[u]) => t = u
      /\ NonePending => \A t \in Workers : Syncs(job[t]) => SyncGoes(job[t])
      /\ NonePending /\ (\A t \in Workers : ~Syncs(job[t])) => \A n \in Names : Agrees(n)

AccountsInv == ClientsInv /\ FileInv /\ SyncInv

-----------------------------------------------------------------------------
(* The clients that a sync makes. *)

LEMMA ClientNumbers ==
    /\ MaxClients \in Nat /\ Cardinality(Names) \in Nat /\ Cardinality(Names) <= MaxClients
    /\ NoClient = 0 /\ Clients = 1..MaxClients /\ DefaultName \in Names
  BY AccountsAssumption, FS_CardinalityType DEF NoClient, Clients

\* They get the numbers from m + 1, each its own.
LEMMA NewNumbers ==
  ASSUME NEW new \in SUBSET Names, NEW m \in Nat
  PROVE  /\ Cardinality(new) \in Nat /\ Cardinality(new) <= Cardinality(Names)
         /\ NewClients(new, m) \in [new -> (m + 1)..(m + Cardinality(new))]
         /\ \A x, y \in new : NewClients(new, m)[x] = NewClients(new, m)[y] => x = y
<1>1. IsFiniteSet(new) /\ Cardinality(new) <= Cardinality(Names)
  BY AccountsAssumption, FS_Subset
<1>2. PICK k \in Nat : k = Cardinality(new)
  BY <1>1, FS_CardinalityType
<1>3. PICK g : g \in Bijection(1..k, new)
  BY <1>1, <1>2, FS_CardinalityType DEF ExistsBijection
<1>4. /\ g \in [1..k -> new] /\ \A i, j \in 1..k : g[i] = g[j] => i = j
      /\ \A x \in new : \E i \in 1..k : g[i] = x
  BY <1>3 DEF Bijection, Injection, Surjection, IsInjective
<1> DEFINE h == [x \in new |-> CHOOSE i \in 1..k : g[i] = x]
           f == [x \in new |-> m + h[x]]
<1>5. \A x \in new : h[x] \in 1..k /\ g[h[x]] = x
  BY <1>4
<1>6. f \in [new -> (m + 1)..(m + k)] /\ \A x, y \in new : f[x] = f[y] => x = y
  <2> HIDE DEF h
  <2>1. ASSUME NEW x \in new PROVE f[x] \in (m + 1)..(m + k) /\ f[x] = m + h[x]
    BY <1>5
  <2>2. ASSUME NEW x \in new, NEW y \in new, f[x] = f[y] PROVE x = y
    <3>1. h[x] = h[y]
      BY <1>5, <2>1, <2>2
    <3> QED
      BY <1>5, <3>1
  <2> QED
    BY <2>1, <2>2
<1>7. IsInjective(f)
  BY <1>6 DEF IsInjective
<1>8. PICK F : /\ F = NewClients(new, m) /\ F \in [new -> (m + 1)..(m + k)] /\ IsInjective(F)
  <2> HIDE DEF f
  <2> QED
    BY <1>2, <1>6, <1>7 DEF NewClients
<1> QED
  BY <1>1, <1>2, <1>8 DEF IsInjective

\* What they are like, and that the others stay as they are.
LEMMA NewStates ==
  ASSUME NEW new \in SUBSET Names, NEW m \in Nat, m + Cardinality(new) <= MaxClients,
         NEW number, number = NewClients(new, m),
         NEW states \in [Clients -> TgClients]
  PROVE  /\ DOMAIN number = new
         /\ \A n \in new : number[n] \in Clients /\ number[n] > m
                           /\ number[n] <= m + Cardinality(new)
         /\ WithNew(number, states) \in [Clients -> TgClients]
         /\ \A n \in new : WithNew(number, states)[number[n]] = [of |-> n, state |-> "disconnected"]
         /\ \A c \in Clients : \/ WithNew(number, states)[c] = states[c]
                               \/ \E n \in new : c = number[n]
         /\ \A c \in Clients : c <= m => WithNew(number, states)[c] = states[c]
<1>1. /\ number \in [new -> (m + 1)..(m + Cardinality(new))] /\ DOMAIN number = new
      /\ Cardinality(new) \in Nat
      /\ \A x, y \in new : number[x] = number[y] => x = y
  BY NewNumbers
<1>2. \A n \in new : number[n] \in Clients /\ number[n] > m /\ number[n] <= m + Cardinality(new)
  BY <1>1, ClientNumbers
<1>3. ASSUME NEW c \in Clients, c \notin Range(number)
      PROVE  WithNew(number, states)[c] = states[c]
  BY <1>3 DEF WithNew
<1>4. ASSUME NEW n \in new
      PROVE  WithNew(number, states)[number[n]] = [of |-> n, state |-> "disconnected"]
  <2>1. number[n] \in Range(number) /\ number[n] \in Clients
    BY <1>1, <1>2 DEF Range
  <2>2. (CHOOSE x \in DOMAIN number : number[x] = number[n]) = n
    BY <1>1
  <2> QED
    BY <2>1, <2>2 DEF WithNew
<1>5. \A c \in Clients : c \in Range(number) => \E n \in new : c = number[n]
  BY <1>1 DEF Range
<1>6. \A n \in new : [of |-> n, state |-> "disconnected"] \in TgClients
  BY DEF TgClients, LoginStates
<1>7. ASSUME NEW c \in Clients PROVE WithNew(number, states)[c] \in TgClients
  BY <1>3, <1>4, <1>5, <1>6
<1>8. WithNew(number, states) \in [Clients -> TgClients]
  BY <1>7 DEF WithNew
<1>9. \A c \in Clients : c <= m => c \notin Range(number)
  BY <1>2, <1>5, ClientNumbers
<1> QED
  BY <1>1, <1>2, <1>3, <1>4, <1>5, <1>8, <1>9
\* A record of a job, and what it becomes.
LEMMA JobFields ==
  ASSUME NEW j \in Jobs
  PROVE  /\ j.at \in Places /\ j.op \in OpNames /\ j.name \in Names /\ j.client \in 0..MaxClients
         /\ j.seen \in TgSettings /\ j.todo \in SUBSET Names
         /\ j = [at |-> j.at, op |-> j.op, name |-> j.name, client |-> j.client,
                 seen |-> j.seen, todo |-> j.todo]
  BY DEF Jobs

LEMMA JobOf ==
  ASSUME NEW a \in Places, NEW o \in OpNames, NEW n \in Names, NEW c \in 0..MaxClients,
         NEW s \in TgSettings, NEW d \in SUBSET Names,
         NEW r, r = [at |-> a, op |-> o, name |-> n, client |-> c, seen |-> s, todo |-> d]
  PROVE  /\ r \in Jobs /\ r.at = a /\ r.op = o /\ r.name = n /\ r.client = c
         /\ r.seen = s /\ r.todo = d
  BY DEF Jobs

LEMMA NoSettingsIs == NoSettings \in TgSettings
  BY ClientNumbers DEF NoSettings, TgSettings, Unlisted

LEMMA NoJobIs ==
  /\ NoJob = [at |-> "idle", op |-> "none", name |-> DefaultName, client |-> NoClient,
              seen |-> NoSettings, todo |-> {}]
  /\ NoJob \in Jobs /\ NoJob.at = "idle" /\ NoJob.client = NoClient
<1>1. PICK r : r = NoJob
  OBVIOUS
<1>2. r = [at |-> "idle", op |-> "none", name |-> DefaultName, client |-> 0, seen |-> NoSettings,
           todo |-> {}]
  BY <1>1, ClientNumbers DEF NoJob
<1>3. "idle" \in Places /\ "none" \in OpNames /\ {} \in SUBSET Names /\ 0 \in 0..MaxClients
  BY ClientNumbers DEF Places, OpNames
<1>4. r \in Jobs /\ r.at = "idle" /\ r.client = 0
  BY <1>2, <1>3, ClientNumbers, NoSettingsIs DEF Jobs
<1> QED
  BY <1>1, <1>2, <1>4, ClientNumbers

\* What the steps make of a job.
At(j, a) == [j EXCEPT !.at = a]
AtSeen(j, a, s) == [j EXCEPT !.at = a, !.seen = s]
AtClient(j, a, c) == [j EXCEPT !.at = a, !.client = c]
AtTodo(j, a, d) == [j EXCEPT !.at = a, !.todo = d]
AtNameTodo(j, a, n, d) == [j EXCEPT !.at = a, !.name = n, !.todo = d]
AtSeenTodo(j, a, s, d) == [j EXCEPT !.at = a, !.seen = s, !.todo = d]
AtClientTodoName(j, a, c, d, n) == [j EXCEPT !.at = a, !.client = c, !.todo = d, !.name = n]

LEMMA AtIs ==
  ASSUME NEW j \in Jobs, NEW a \in Places
  PROVE  LET r == At(j, a) IN
           /\ r \in Jobs /\ r.at = a /\ r.op = j.op /\ r.name = j.name
           /\ r.client = j.client /\ r.seen = j.seen /\ r.todo = j.todo
  BY DEF Jobs, At

LEMMA AtSeenIs ==
  ASSUME NEW j \in Jobs, NEW a \in Places, NEW s \in TgSettings
  PROVE  LET r == AtSeen(j, a, s) IN
           /\ r \in Jobs /\ r.at = a /\ r.op = j.op /\ r.name = j.name
           /\ r.client = j.client /\ r.seen = s /\ r.todo = j.todo
  BY DEF Jobs, AtSeen

LEMMA AtClientIs ==
  ASSUME NEW j \in Jobs, NEW a \in Places, NEW c \in 0..MaxClients
  PROVE  LET r == AtClient(j, a, c) IN
           /\ r \in Jobs /\ r.at = a /\ r.op = j.op /\ r.name = j.name
           /\ r.client = c /\ r.seen = j.seen /\ r.todo = j.todo
  BY DEF Jobs, AtClient

LEMMA AtTodoIs ==
  ASSUME NEW j \in Jobs, NEW a \in Places, NEW d \in SUBSET Names
  PROVE  LET r == AtTodo(j, a, d) IN
           /\ r \in Jobs /\ r.at = a /\ r.op = j.op /\ r.name = j.name
           /\ r.client = j.client /\ r.seen = j.seen /\ r.todo = d
  BY DEF Jobs, AtTodo

LEMMA AtNameTodoIs ==
  ASSUME NEW j \in Jobs, NEW a \in Places, NEW n \in Names, NEW d \in SUBSET Names
  PROVE  LET r == AtNameTodo(j, a, n, d) IN
           /\ r \in Jobs /\ r.at = a /\ r.op = j.op /\ r.name = n
           /\ r.client = j.client /\ r.seen = j.seen /\ r.todo = d
  BY DEF Jobs, AtNameTodo

LEMMA AtSeenTodoIs ==
  ASSUME NEW j \in Jobs, NEW a \in Places, NEW s \in TgSettings, NEW d \in SUBSET Names
  PROVE  LET r == AtSeenTodo(j, a, s, d) IN
           /\ r \in Jobs /\ r.at = a /\ r.op = j.op /\ r.name = j.name
           /\ r.client = j.client /\ r.seen = s /\ r.todo = d
  BY DEF Jobs, AtSeenTodo

LEMMA AtClientTodoNameIs ==
  ASSUME NEW j \in Jobs, NEW a \in Places, NEW c \in 0..MaxClients, NEW d \in SUBSET Names, NEW n \in Names
  PROVE  LET r == AtClientTodoName(j, a, c, d, n) IN
           /\ r \in Jobs /\ r.at = a /\ r.op = j.op /\ r.name = n
           /\ r.client = c /\ r.seen = j.seen /\ r.todo = d
  BY DEF Jobs, AtClientTodoName

\* A job that begins.
JobFor(a, o, n, c) == [NoJob EXCEPT !.at = a, !.op = o, !.name = n, !.client = c]

LEMMA NewJob ==
  ASSUME NEW a \in Places, NEW o \in OpNames, NEW n \in Names, NEW c \in 0..MaxClients,
         NEW r, r = JobFor(a, o, n, c)
  PROVE  /\ r \in Jobs /\ r.at = a /\ r.op = o /\ r.name = n /\ r.client = c
<1>1. PICK r0 : r0 = NoJob
  OBVIOUS
<1>2. r0 = [at |-> "idle", op |-> "none", name |-> DefaultName, client |-> NoClient,
            seen |-> NoSettings, todo |-> {}]
  BY <1>1, NoJobIs
<1>3. r = [r0 EXCEPT !.at = a, !.op = o, !.name = n, !.client = c]
  BY <1>1 DEF JobFor
<1>4. r = [at |-> a, op |-> o, name |-> n, client |-> c, seen |-> NoSettings, todo |-> {}]
  BY <1>2, <1>3
<1>5. NoSettings \in TgSettings /\ {} \in SUBSET Names
  BY NoSettingsIs
<1> QED
  BY ONLY <1>4, <1>5, JobOf, a \in Places, o \in OpNames, n \in Names, c \in 0..MaxClients

\* A thread that connects a client in the background, and one that does not.
LEMMA AutoConnected ==
  ASSUME NEW number, DOMAIN number \subseteq Names, NEW m \in Nat, m <= MaxClients,
         \A n \in DOMAIN number : number[n] \in Clients /\ number[n] <= m
  PROVE  /\ AutoConnect(number) \in [Workers -> Jobs]
         /\ \A t \in Workers : LET j == AutoConnect(number)[t] IN
              /\ j.at \in {"idle", "login"} /\ j.client \in 0..m
              /\ j.at = "login" => t \in DOMAIN number /\ j.name = t /\ j.client = number[t]
              /\ j.client # NoClient => j.at = "login"
<1> USE ClientNumbers
<1>1. PICK r0 : r0 = NoJob
  OBVIOUS
<1>2. /\ r0 = [at |-> "idle", op |-> "none", name |-> DefaultName, client |-> 0,
               seen |-> NoSettings, todo |-> {}]
  BY <1>1, NoJobIs
<1>7. r0 \in Jobs /\ r0.at = "idle" /\ r0.client = 0
  BY <1>1, NoJobIs
<1>3. "login" \in Places /\ "start" \in OpNames
  BY DEF Places, OpNames
<1>4. ASSUME NEW t \in DOMAIN number
      PROVE  \E r \in Jobs : /\ r = [NoJob EXCEPT !.at = "login", !.op = "start", !.name = t,
                                                  !.client = number[t]]
                             /\ r.at = "login" /\ r.name = t /\ r.client = number[t]
  <2>1. PICK c \in 0..MaxClients : c = number[t]
    OBVIOUS
  <2>4. t \in Names
    OBVIOUS
  <2>2. PICK r : r = JobFor("login", "start", t, c)
    OBVIOUS
  <2>3. r \in Jobs /\ r.at = "login" /\ r.name = t /\ r.client = c
    BY ONLY <1>3, <2>2, <2>4, c \in 0..MaxClients, NewJob
  <2> QED
    BY <2>1, <2>2, <2>3 DEF JobFor
<1>5. ASSUME NEW t \in Workers
      PROVE  LET j == AutoConnect(number)[t] IN
               /\ j \in Jobs
               /\ j.at \in {"idle", "login"} /\ j.client \in 0..m
               /\ j.at = "login" => t \in DOMAIN number /\ j.name = t /\ j.client = number[t]
               /\ j.client # NoClient => j.at = "login"
  <2>1. CASE t \in DOMAIN number \cap sessionFiles
    <3>1. PICK r \in Jobs : /\ r = [NoJob EXCEPT !.at = "login", !.op = "start", !.name = t,
                                                 !.client = number[t]]
                            /\ r.at = "login" /\ r.name = t /\ r.client = number[t]
      BY <1>4, <2>1
    <3>2. AutoConnect(number)[t] = r
      BY <2>1, <3>1 DEF AutoConnect
    <3>3. number[t] \in 0..m
      BY <2>1
    <3> QED
      BY <2>1, <3>1, <3>2, <3>3
  <2>2. CASE t \notin DOMAIN number \cap sessionFiles
    <3>1. AutoConnect(number)[t] = r0
      BY <1>1, <2>2 DEF AutoConnect
    <3> QED
      BY <1>7, <3>1
  <2> QED
    BY <2>1, <2>2
<1>6. AutoConnect(number) \in [Workers -> Jobs]
  BY <1>5 DEF AutoConnect
<1> QED
  BY <1>5, <1>6

-----------------------------------------------------------------------------
(* Starting and restarting from the file. *)

LEMMA Afresh ==
  ASSUME NEW new \in SUBSET Names, NEW m \in Nat, m + Cardinality(new) <= MaxClients,
         NEW number, number = NewClients(new, m),
         NEW states \in [Clients -> TgClients],
         \A c \in Clients : states[c].state = "disconnected",
         NEW tab, tab = Table(NoClients, number), NEW cl, cl = WithNew(number, states)
  PROVE  /\ tab \in [Names -> 0..(m + Cardinality(new))] /\ cl \in [Clients -> TgClients]
         /\ DOMAIN number = new
         /\ \A n \in new : /\ tab[n] = number[n] /\ number[n] \in Clients
                           /\ number[n] <= m + Cardinality(new) /\ cl[number[n]].of = n
         /\ \A n \in Names \ new : tab[n] = NoClient
         /\ \A c \in Clients : cl[c].state = "disconnected"
<1>1. /\ DOMAIN number = new /\ cl \in [Clients -> TgClients]
      /\ \A n \in new : number[n] \in Clients /\ number[n] > m /\ number[n] <= m + Cardinality(new)
      /\ \A n \in new : cl[number[n]] = [of |-> n, state |-> "disconnected"]
      /\ \A c \in Clients : cl[c] = states[c] \/ \E n \in new : c = number[n]
  BY NewStates
<1>2. /\ \A n \in new : tab[n] = number[n]
      /\ \A n \in Names \ new : tab[n] = NoClient
      /\ DOMAIN tab = Names /\ tab = [n \in Names |-> tab[n]]
  BY <1>1 DEF Table, NoClients
<1>3. PICK k : k = m + Cardinality(new)
  OBVIOUS
<1>4. k \in Nat
  BY <1>3, NewNumbers
<1>5. ASSUME NEW n \in Names PROVE tab[n] \in 0..k
  <2>1. CASE n \in new
    <3>1. number[n] \in Clients /\ number[n] <= k
      BY <1>1, <1>3, <2>1
    <3>2. number[n] \in 0..k
      BY <1>4, <3>1, ClientNumbers
    <3> QED
      BY <1>2, <2>1, <3>2
  <2>2. CASE n \notin new
    BY <1>2, <1>4, <2>2, ClientNumbers
  <2> QED
    BY <2>1, <2>2
<1>6. tab \in [Names -> 0..k]
  BY <1>2, <1>5
<1>7. ASSUME NEW c \in Clients PROVE cl[c].state = "disconnected"
  <2>1. CASE cl[c] = states[c]
    BY <2>1
  <2>2. ASSUME NEW n \in new, c = number[n] PROVE cl[c].state = "disconnected"
    <3>1. cl[c] = [of |-> n, state |-> "disconnected"]
      BY <1>1, <2>2
    <3> QED
      BY <3>1
  <2> QED
    BY <1>1, <2>1, <2>2
<1>8. ASSUME NEW n \in new PROVE cl[number[n]].of = n
  <2>1. cl[number[n]] = [of |-> n, state |-> "disconnected"]
    BY <1>1
  <2> QED
    BY <2>1
<1> QED
  BY <1>1, <1>2, <1>3, <1>6, <1>7, <1>8
LEMMA AccountsStart == AccountsInit => AccountsInv
<1> SUFFICES ASSUME AccountsInit PROVE AccountsInv
  OBVIOUS
<1> DEFINE new == Desired(config)  number == NewClients(new, 0)
           states == [c \in Clients |-> FreshClient]
<1>1. config \in TgSettings /\ tgSettings = config
  <2>1. DefaultName \in Names
    BY ClientNumbers
  <2> DEFINE A == [in : BOOLEAN, on : BOOLEAN, cred : BOOLEAN]
             B == {Unlisted, [in |-> TRUE, on |-> FALSE, cred |-> TRUE],
                             [in |-> TRUE, on |-> TRUE, cred |-> TRUE]}
  <2>2. B \subseteq A
    BY DEF Unlisted
  <2>3. config \in [feature : BOOLEAN, active : {DefaultName}, acc : [Names -> B]]
        /\ tgSettings = config
    BY DEF AccountsInit
  <2> HIDE DEF A, B
  <2>4. config \in [feature : BOOLEAN, active : Names, acc : [Names -> A]]
    BY <2>1, <2>2, <2>3
  <2> QED
    BY <2>3, <2>4 DEF A, TgSettings
<1>2. new \in SUBSET Names /\ Cardinality(new) \in Nat /\ 0 + Cardinality(new) = Cardinality(new)
      /\ 0 + Cardinality(new) <= MaxClients
  <2>1. new \in SUBSET Names /\ 0 \in Nat
    BY DEF Desired
  <2> HIDE DEF new, number
  <2>2. Cardinality(new) \in Nat /\ Cardinality(new) <= Cardinality(Names)
    BY <2>1, NewNumbers
  <2> QED
    BY <2>1, <2>2, ClientNumbers
<1>3. states \in [Clients -> TgClients] /\ \A c \in Clients : states[c].state = "disconnected"
  BY ClientNumbers DEF FreshClient, TgClients, LoginStates
<1>4. /\ table = Table(NoClients, number) /\ tgclient = WithNew(number, states)
      /\ built = Cardinality(new) /\ mirror = table[config.active] /\ job = AutoConnect(number)
      /\ tmpText = {} /\ sessionFiles \subseteq Names /\ 0 \in Nat
  BY DEF AccountsInit
<1>5. /\ table \in [Names -> 0..built] /\ tgclient \in [Clients -> TgClients]
      /\ DOMAIN number = new
      /\ \A n \in new : /\ table[n] = number[n] /\ number[n] \in Clients
                        /\ number[n] <= built /\ tgclient[number[n]].of = n
      /\ \A n \in Names \ new : table[n] = NoClient
      /\ \A c \in Clients : tgclient[c].state = "disconnected"
  <2> HIDE DEF new, number, states
  <2> QED
    BY <1>2, <1>3, <1>4, Afresh DEF number
<1>6. /\ job \in [Workers -> Jobs]
      /\ \A t \in Workers :
           /\ job[t].at \in {"idle", "login"} /\ job[t].client \in 0..built
           /\ job[t].at = "login" => t \in new /\ job[t].name = t /\ job[t].client = number[t]
           /\ job[t].client # NoClient => job[t].at = "login"
  <2> HIDE DEF new, number, states
  <2> QED
    BY <1>2, <1>4, <1>5, AutoConnected
<1> HIDE DEF new, number, states
<1>7. AccountTypes
  <2>1. mirror \in 0..built /\ built \in 0..MaxClients
    BY <1>1, <1>2, <1>4, <1>5, ClientNumbers DEF TgSettings
  <2> QED
    BY <1>1, <1>4, <1>5, <1>6, <2>1 DEF AccountTypes
<1>8. ASSUME NEW t \in Workers PROVE JobGoes(job[t])
  BY <1>5, <1>6, <1>2, <1>4, ClientNumbers DEF JobGoes
<1>9. ASSUME NEW n \in Names PROVE OwnClient(n) /\ Agrees(n)
  <2>1. table[n] # NoClient => n \in new /\ table[n] \in Clients
    BY <1>5
  <2>2. ~IsConnected(n)
    BY <1>5, <2>1 DEF IsConnected
  <2>3. n \in new => table[n] # NoClient
    BY <1>5, ClientNumbers
  <2> QED
    BY <1>1, <1>5, <2>1, <2>2, <2>3 DEF OwnClient, Agrees, new
<1>10. ASSUME NEW c \in Clients PROVE InPlace(c)
  <2>1. CASE LoginIn(c)
    <3>1. PICK t \in Workers : job[t].at = "login" /\ job[t].client = c
      BY <2>1 DEF LoginIn
    <3>2. t \in new /\ c = number[t]
      BY <1>6, <3>1
    <3> QED
      BY <1>5, <3>2 DEF InPlace
  <2>2. CASE ~LoginIn(c)
    BY <1>5, <2>2 DEF InPlace
  <2> QED
    BY <2>1, <2>2
<1>11. FileInv
  BY <1>1, <1>6 DEF FileInv, Saving
<1>12. SyncInv
  BY <1>6, <1>9 DEF SyncInv, Syncs
<1> QED
  BY <1>7, <1>8, <1>9, <1>10, <1>11, <1>12 DEF AccountsInv, ClientsInv

LEMMA RestartKeeps == AccountsInv /\ Restarted => AccountsInv'
<1> SUFFICES ASSUME AccountsInv, Restarted PROVE AccountsInv'
  OBVIOUS
<1> DEFINE new == Missing(config, NoClients)  number == NewClients(new, built)
           states == [c \in Clients |-> [tgclient[c] EXCEPT !.state = "disconnected"]]
<1>0. AccountTypes
  BY DEF AccountsInv, ClientsInv
<1>1. config \in TgSettings /\ tgSettings' = config /\ config' = config /\ tmpText' = tmpText
  BY <1>0 DEF AccountTypes, Restarted
<1>2. new \in SUBSET Names /\ Cardinality(new) \in Nat /\ built \in Nat
      /\ built + Cardinality(new) <= MaxClients
  <2>1. new \in SUBSET Names
    BY DEF Missing, Desired
  <2> QED
    BY <1>0, <2>1, NewNumbers DEF Restarted, AccountTypes
<1>3. states \in [Clients -> TgClients] /\ \A c \in Clients : states[c].state = "disconnected"
  BY <1>0 DEF AccountTypes, TgClients, LoginStates
<1>4. /\ table' = Table(NoClients, number) /\ tgclient' = WithNew(number, states)
      /\ built' = built + Cardinality(new) /\ mirror' = table'[config.active]
      /\ job' = AutoConnect(number)
      /\ UNCHANGED sessionFiles
  BY DEF Restarted
<1>5. /\ table' \in [Names -> 0..built'] /\ tgclient' \in [Clients -> TgClients]
      /\ DOMAIN number = new
      /\ \A n \in new : /\ table'[n] = number[n] /\ number[n] \in Clients
                        /\ number[n] <= built' /\ tgclient'[number[n]].of = n
      /\ \A n \in Names \ new : table'[n] = NoClient
      /\ \A c \in Clients : tgclient'[c].state = "disconnected"
  <2> HIDE DEF new, number, states
  <2> QED
    BY <1>2, <1>3, <1>4, Afresh DEF number
<1>6. /\ job' \in [Workers -> Jobs]
      /\ \A t \in Workers :
           /\ job'[t].at \in {"idle", "login"} /\ job'[t].client \in 0..built'
           /\ job'[t].at = "login" => t \in new /\ job'[t].name = t /\ job'[t].client = number[t]
           /\ job'[t].client # NoClient => job'[t].at = "login"
  <2> HIDE DEF new, number, states
  <2>1. built' \in Nat /\ built' <= MaxClients
    BY <1>2, <1>4
  <2> QED
    BY <1>2, <1>4, <1>5, <2>1, AutoConnected
<1> HIDE DEF new, number, states
<1>7. AccountTypes'
  <2>1. mirror' \in 0..built' /\ built' \in 0..MaxClients
    BY <1>1, <1>2, <1>4, <1>5, ClientNumbers DEF TgSettings
  <2> QED
    BY <1>0, <1>1, <1>4, <1>5, <1>6, <2>1 DEF AccountTypes
<1>8. ASSUME NEW t \in Workers PROVE JobGoes(job[t])'
  BY <1>5, <1>6, <1>2, <1>4, ClientNumbers DEF JobGoes
<1>9. ASSUME NEW n \in Names PROVE OwnClient(n)' /\ Agrees(n)'
  <2>1. table'[n] # NoClient => n \in new /\ table'[n] \in Clients
    BY <1>5
  <2>2. ~IsConnected(n)'
    BY <1>5, <2>1 DEF IsConnected
  <2>3. n \in new => table'[n] # NoClient
    BY <1>5, ClientNumbers
  <2>4. n \in new <=> n \in Desired(config) /\ config.acc[n].cred
    BY DEF new, Missing, NoClients
  <2> QED
    BY <1>1, <1>5, <2>1, <2>2, <2>3, <2>4 DEF OwnClient, Agrees, Desired
<1>10. ASSUME NEW c \in Clients PROVE InPlace(c)'
  <2>1. CASE LoginIn(c)'
    <3>1. PICK t \in Workers : job'[t].at = "login" /\ job'[t].client = c
      BY <2>1 DEF LoginIn
    <3>2. t \in new /\ c = number[t]
      BY <1>6, <3>1
    <3> QED
      BY <1>5, <3>2 DEF InPlace
  <2>2. CASE ~LoginIn(c)'
    BY <1>5, <2>2 DEF InPlace
  <2> QED
    BY <2>1, <2>2
<1>11. FileInv'
  BY <1>1, <1>6 DEF FileInv, Saving
<1>12. SyncInv'
  BY <1>6, <1>9 DEF SyncInv, Syncs
<1> QED
  BY <1>7, <1>8, <1>9, <1>10, <1>11, <1>12 DEF AccountsInv, ClientsInv

-----------------------------------------------------------------------------
(* The settings. *)

Accounts == [in : BOOLEAN, on : BOOLEAN, cred : BOOLEAN]

\* Settings built from settings are settings.
LEMMA SettingsFields ==
  ASSUME NEW tg \in TgSettings, NEW n \in Names
  PROVE  /\ tg.acc[n] \in Accounts /\ tg.active \in Names
         /\ \A a \in Accounts : Put(tg, n, a) \in TgSettings
         /\ [tg EXCEPT !.active = n] \in TgSettings
         /\ \A b \in BOOLEAN : [tg EXCEPT !.feature = b] \in TgSettings
         /\ \A f \in [Names -> Accounts] : [tg EXCEPT !.active = n, !.acc = f] \in TgSettings
  BY DEF TgSettings, Accounts, Put

LEMMA AccountFields ==
  ASSUME NEW a \in Accounts, NEW b \in BOOLEAN
  PROVE  /\ [a EXCEPT !.on = b] \in Accounts /\ [a EXCEPT !.in = TRUE, !.on = b] \in Accounts
         /\ Unlisted \in Accounts /\ [Unlisted EXCEPT !.in = TRUE, !.on = TRUE] \in Accounts
         /\ [in |-> TRUE, on |-> FALSE, cred |-> a.cred] \in Accounts
  BY DEF Accounts, Unlisted

LEMMA ChangedSettings ==
  ASSUME NEW tg \in TgSettings, NEW op \in Operations \cup {"mark"}, NEW n \in Names,
         NEW new \in Changed(tg, op, n)
  PROVE  new \in TgSettings
<1>0. tg.acc[n] \in Accounts /\ tg.active \in Names /\ TRUE \in BOOLEAN /\ FALSE \in BOOLEAN
      /\ Account(tg, n) = tg.acc[n] /\ tg.acc[tg.active] \in Accounts
      /\ Account(tg, tg.active) = tg.acc[tg.active]
  BY SettingsFields DEF Account
<1>1. CASE op = "turn on" \/ op = "turn off"
  <2>1. PICK b \in BOOLEAN : new = Put(tg, n, [tg.acc[n] EXCEPT !.on = b])
    BY <1>0, <1>1 DEF Changed
  <2> QED
    BY <1>0, <2>1, AccountFields, SettingsFields
<1>2. CASE op = "switch"
  <2>1. new = Switched(tg, n)
    BY <1>2 DEF Changed
  <2>2. CASE Has(tg, n)
    <3>1. PICK x : x = Put(tg, n, [tg.acc[n] EXCEPT !.on = TRUE])
      OBVIOUS
    <3>2. x \in TgSettings
      BY <1>0, <3>1, AccountFields, SettingsFields
    <3>3. new = [x EXCEPT !.active = n]
      BY <1>0, <2>1, <2>2, <3>1 DEF Switched
    <3> QED
      BY <3>2, <3>3, SettingsFields
  <2>3. CASE ~Has(tg, n)
    <3>1. PICK f : f = [m \in Names |-> IF m = n THEN [Unlisted EXCEPT !.in = TRUE, !.on = TRUE]
                                                 ELSE Unlisted]
      OBVIOUS
    <3>2. Unlisted \in Accounts /\ [Unlisted EXCEPT !.in = TRUE, !.on = TRUE] \in Accounts
      BY <1>0, AccountFields
    <3>3. f \in [Names -> Accounts]
      BY <3>1, <3>2
    <3>4. new = [tg EXCEPT !.active = n, !.acc = f]
      BY <2>1, <2>3, <3>1 DEF Switched
    <3> QED
      BY <3>3, <3>4, SettingsFields
  <2> QED
    BY <2>2, <2>3
<1>3. CASE op = "add"
  <2>1. new = Put(tg, n, [in |-> TRUE, on |-> FALSE, cred |-> tg.acc[tg.active].cred])
    BY <1>0, <1>3 DEF Changed, Added
  <2>2. [in |-> TRUE, on |-> FALSE, cred |-> tg.acc[tg.active].cred] \in Accounts
    BY <1>0, AccountFields
  <2> QED
    BY <2>1, <2>2, SettingsFields
<1>4. CASE op = "remove"
  <2>1. PICK x : x = Put(tg, n, Unlisted)
    OBVIOUS
  <2>2. x \in TgSettings
    BY <1>0, <2>1, AccountFields, SettingsFields
  <2>3. PICK a \in Names : new = [x EXCEPT !.active = a]
    <3>1. new \in Removed(tg, n)
      BY <1>4 DEF Changed
    <3> QED
      BY <1>0, <2>1, <3>1, ClientNumbers DEF Removed
  <2> QED
    BY <2>2, <2>3, SettingsFields
<1>5. CASE op = "active"
  <2>1. new = [tg EXCEPT !.active = n]
    BY <1>5 DEF Changed
  <2> QED
    BY <2>1, SettingsFields
<1>6. CASE op = "feature on" \/ op = "feature off"
  <2>1. PICK b \in BOOLEAN : new = FeatureSet(tg, b)
    BY <1>6 DEF Changed
  <2>2. PICK m \in Names : m = tg.active
    BY <1>0
  <2>3. PICK a \in Accounts : new = [Put(tg, m, a) EXCEPT !.feature = b]
    <3>1. [tg.acc[m] EXCEPT !.in = TRUE, !.on = b] \in Accounts /\ Unlisted \in Accounts
      BY <1>0, <2>2, AccountFields
    <3>2. new = [Put(tg, m, IF Has(tg, m) \/ \A k \in Names : ~Has(tg, k)
                            THEN [tg.acc[m] EXCEPT !.in = TRUE, !.on = b]
                            ELSE Unlisted) EXCEPT !.feature = b]
      BY <2>1, <2>2 DEF FeatureSet, Account
    <3>3. CASE Has(tg, m) \/ \A k \in Names : ~Has(tg, k)
      BY <3>1, <3>2, <3>3
    <3>4. CASE ~(Has(tg, m) \/ \A k \in Names : ~Has(tg, k))
      BY <3>1, <3>2, <3>4
    <3> QED
      BY <3>3, <3>4
  <2>4. Put(tg, m, a) \in TgSettings
    BY SettingsFields
  <2> QED
    BY <2>3, <2>4, <2>2, SettingsFields
<1>7. CASE op = "mark"
  <2>1. PICK x : x = Put(tg, n, [tg.acc[n] EXCEPT !.in = TRUE, !.on = TRUE])
    OBVIOUS
  <2>2. x \in TgSettings
    BY <1>0, <2>1, AccountFields, SettingsFields
  <2>3. new = [x EXCEPT !.feature = TRUE]
    BY <1>0, <1>7, <2>1 DEF Changed, Marked
  <2> QED
    BY <1>0, <2>2, <2>3, SettingsFields
<1>8. CASE op = "save"
  BY <1>8 DEF Changed
<1> QED
  BY <1>1, <1>2, <1>3, <1>4, <1>5, <1>6, <1>7, <1>8 DEF Updates, Operations
-----------------------------------------------------------------------------
(* One thread goes on with its job; nobody else's changes. *)

LEMMA OneGoes ==
  ASSUME AccountTypes, NEW t \in Workers, NEW r \in Jobs, job' = [job EXCEPT ![t] = r]
  PROVE  /\ job' \in [Workers -> Jobs] /\ job'[t] = r
         /\ \A u \in Workers : u # t => job'[u] = job[u]
         /\ \A c \in Clients : LoginIn(c)' => LoginIn(c) \/ (r.at = "login" /\ r.client = c)
<1>1. /\ job' \in [Workers -> Jobs] /\ job'[t] = r
      /\ \A u \in Workers : u # t => job'[u] = job[u]
  BY DEF AccountTypes
<1>2. \A c \in Clients : LoginIn(c)' => LoginIn(c) \/ (r.at = "login" /\ r.client = c)
  BY <1>1 DEF LoginIn
<1> QED
  BY <1>1, <1>2

\* The table stays, and the login state of at most one client, c0, changes
\* for the better: it is in place afterwards.
LEMMA TableKeeps ==
  ASSUME ClientsInv, NEW t \in Workers, NEW r \in Jobs, job' = [job EXCEPT ![t] = r],
         JobGoes(r), NEW c0 \in 0..MaxClients, c0 \in Clients => InPlace(c0)',
         r.at = "login" => r.client = c0,
         \A d \in Clients : d # c0 => ~Holds(job[t], d),
         UNCHANGED <<table, built>>, tgclient' \in [Clients -> TgClients],
         \A d \in Clients : tgclient'[d].of = tgclient[d].of,
         \A d \in Clients : d # c0 /\ tgclient'[d].state = "connected" =>
                              tgclient[d].state = "connected",
         orphaned \subseteq orphaned', tgSettings' \in TgSettings, config' \in TgSettings,
         tmpText' \subseteq TgSettings, mirror' \in 0..built, sessionFiles' \subseteq Names
  PROVE  ClientsInv'
<1>1. AccountTypes
  BY DEF ClientsInv
<1>2. /\ job' \in [Workers -> Jobs] /\ job'[t] = r
      /\ \A u \in Workers : u # t => job'[u] = job[u]
      /\ \A d \in Clients : LoginIn(d)' => LoginIn(d) \/ (r.at = "login" /\ r.client = d)
  BY ONLY <1>1, OneGoes, t \in Workers, r \in Jobs, job' = [job EXCEPT ![t] = r]
<1>3. AccountTypes'
  BY <1>1, <1>2 DEF AccountTypes
<1>4. ASSUME NEW j \in Jobs, JobGoes(j) PROVE JobGoes(j)'
  <2>1. j.client # NoClient => j.client \in Clients
    BY JobFields, ClientNumbers
  <2> QED
    BY <1>4, <2>1 DEF JobGoes
<1>5. ASSUME NEW u \in Workers PROVE JobGoes(job[u])'
  <2>1. job[u] \in Jobs /\ JobGoes(job[u])
    BY <1>1 DEF AccountTypes, ClientsInv
  <2>2. PICK j \in Jobs : JobGoes(j) /\ job'[u] = j
    BY <1>2, <2>1
  <2>3. JobGoes(j)'
    BY <1>4, <2>2
  <2> QED
    BY <2>2, <2>3
<1>6. ASSUME NEW n \in Names PROVE OwnClient(n)'
  <2>1. table[n] # NoClient => table[n] \in Clients
    BY <1>1, ClientNumbers DEF AccountTypes
  <2> QED
    BY <2>1 DEF ClientsInv, OwnClient
<1>7. ASSUME NEW d \in Clients, d # c0 PROVE InPlace(d)'
  <2>1. InPlace(d)
    BY DEF ClientsInv
  <2>2. CASE d = table[tgclient[d].of] \/ d \in orphaned
    BY <2>2 DEF InPlace
  <2>3. ASSUME NEW u \in Workers, Holds(job[u], d) PROVE InPlace(d)'
    <3>1. job'[u] = job[u]
      BY <1>2, <1>7, <2>3
    <3> QED
      BY <2>3, <3>1 DEF InPlace
  <2>4. CASE tgclient[d].state # "connected" /\ ~LoginIn(d)
    BY <1>2, <1>7, <2>4 DEF InPlace
  <2> QED
    BY <2>1, <2>2, <2>3, <2>4 DEF InPlace
<1> QED
  BY <1>3, <1>5, <1>6, <1>7 DEF ClientsInv

\* A step of a thread that does not touch clients.
LEMMA TableStays ==
  ASSUME ClientsInv, NEW t \in Workers, NEW r \in Jobs, job' = [job EXCEPT ![t] = r],
         JobGoes(r), r.at = "login" => r.client = table[r.name],
         job[t].at \notin {"remove", "disconnect"},
         UNCHANGED <<table, built, tgclient, orphaned, sessionFiles>>,
         tgSettings' \in TgSettings, config' \in TgSettings, tmpText' \subseteq TgSettings,
         mirror' \in 0..built
  PROVE  ClientsInv'
<1>1. /\ tgclient' \in [Clients -> TgClients] /\ sessionFiles' \subseteq Names /\ AccountTypes
  BY DEF ClientsInv, AccountTypes
<1>2. \A d \in Clients : ~Holds(job[t], d)
  BY DEF Holds
<1>3. r.client \in 0..MaxClients
  BY JobFields
<1>4. CASE r.at = "login"
  <2>1. PICK c \in Clients : c = r.client /\ c = table[tgclient[c].of]
    <3>1. r.client # NoClient /\ tgclient[r.client].of = r.name
      BY <1>4 DEF JobGoes
    <3> QED
      BY <1>3, <1>4, <3>1, ClientNumbers
  <2>2. InPlace(c)'
    BY <2>1 DEF InPlace
  <2> QED
    BY <1>1, <1>2, <1>3, <2>1, <2>2, TableKeeps
<1>5. CASE r.at # "login"
  <2>1. PICK c \in 0..MaxClients : c = NoClient /\ c \notin Clients
    BY ClientNumbers
  <2> QED
    BY <1>1, <1>2, <1>5, <2>1, TableKeeps
<1> QED
  BY <1>4, <1>5

\* A step of a thread that does not save.
LEMMA FileElsewhere ==
  ASSUME AccountTypes, FileInv, NEW t \in Workers, NEW r \in Jobs,
         job' = [job EXCEPT ![t] = r], UNCHANGED fileVars,
         job[t].at \notin {"dump", "write", "replace"}, r.at \notin {"write", "replace"},
         tgSettings' = tgSettings \/ r.at = "dump"
  PROVE  FileInv'
<1>1. /\ job'[t] = r /\ \A u \in Workers : u # t => job'[u] = job[u]
  BY OneGoes
<1>2. \A u \in Workers : Saving(u)' <=> Saving(u)
  BY <1>1 DEF Saving
<1>3. \A u \in Workers : Saving(u) \/ job[u].at = "dump" => job'[u] = job[u]
  BY <1>1 DEF Saving
<1> SUFFICES ASSUME ~savesMet PROVE
      /\ \A u, v \in Workers : Saving(u)' /\ Saving(v)' => u = v
      /\ \A u \in Workers : job'[u].at = "replace" => tmpText' = {job'[u].seen}
      /\ \A u \in Workers : Saving(u)' =>
           job'[u].seen = tgSettings' \/ \E v \in Workers : job'[v].at = "dump"
      /\ \/ unsaved' \/ config' = tgSettings'
         \/ \E u \in Workers : job'[u].at = "dump" \/ Saving(u)'
  BY DEF FileInv, fileVars
<1>4. \A u, v \in Workers : Saving(u)' /\ Saving(v)' => u = v
  BY <1>2 DEF FileInv
<1>5. \A u \in Workers : job'[u].at = "replace" => tmpText' = {job'[u].seen}
  BY <1>1 DEF FileInv, fileVars
<1>6. ASSUME NEW u \in Workers, Saving(u)'
      PROVE  job'[u].seen = tgSettings' \/ \E v \in Workers : job'[v].at = "dump"
  <2>1. Saving(u) /\ job'[u] = job[u]
    BY <1>2, <1>3, <1>6
  <2>2. \A v \in Workers : job[v].at = "dump" => job'[v].at = "dump"
    BY <1>3
  <2> QED
    BY <1>1, <2>1, <2>2 DEF FileInv
<1>7. \/ unsaved' \/ config' = tgSettings'
      \/ \E u \in Workers : job'[u].at = "dump" \/ Saving(u)'
  BY <1>1, <1>2, <1>3 DEF FileInv, fileVars
<1> QED
  BY <1>4, <1>5, <1>6, <1>7

\* A step of a thread that does not synchronise.
LEMMA SyncElsewhere ==
  ASSUME AccountTypes, SyncInv, NEW t \in Workers, NEW r \in Jobs,
         job' = [job EXCEPT ![t] = r], syncsMet' = syncsMet, ~Syncs(job[t]), ~Syncs(r),
         Pending(job[t]) => Pending(r),
         \/ Pending(r)
         \/ /\ UNCHANGED <<tgSettings, mirror>> /\ lost \subseteq lost' /\ asked \subseteq asked'
            /\ \A n \in Names :
                 /\ IsConnected(n)' => n \in lost' \/ (IsConnected(n) /\ table'[n] = table[n])
                 /\ table[n] # NoClient => table'[n] # NoClient
                 /\ table'[n] # NoClient => table[n] # NoClient \/ n \in asked'
  PROVE  SyncInv'
<1>1. /\ job'[t] = r /\ \A u \in Workers : u # t => job'[u] = job[u]
  BY OneGoes
<1>2. \A u \in Workers : Syncs(job'[u]) => Syncs(job[u]) /\ u # t /\ job'[u] = job[u]
  BY <1>1
<1>3. \A u \in Workers : Syncs(job[u]) => Syncs(job'[u])
  BY <1>1
<1>4. NonePending' => NonePending /\ ~Pending(r)
  BY <1>1 DEF NonePending
<1> SUFFICES ASSUME ~syncsMet PROVE
      /\ \A u, v \in Workers : Syncs(job'[u]) /\ Syncs(job'[v]) => u = v
      /\ NonePending' => \A u \in Workers : Syncs(job'[u]) => SyncGoes(job[u])'
      /\ NonePending' /\ (\A u \in Workers : ~Syncs(job'[u])) => \A n \in Names : Agrees(n)'
  BY DEF SyncInv
<1>5. ASSUME NonePending', NEW u \in Workers, Syncs(job'[u]) PROVE SyncGoes(job[u])'
  <2>1. PICK j : j = job[u] /\ j = job'[u] /\ SyncGoes(j)
    BY <1>2, <1>4, <1>5 DEF SyncInv
  <2>2. SyncGoes(j)'
    BY <1>4, <1>5, <2>1 DEF SyncGoes
  <2> QED
    BY <2>1, <2>2
<1>6. ASSUME NonePending', \A u \in Workers : ~Syncs(job'[u]), NEW n \in Names PROVE Agrees(n)'
  <2>1. Agrees(n)
    BY <1>3, <1>4, <1>6 DEF SyncInv
  <2> QED
    BY <1>4, <1>6, <2>1 DEF Agrees
<1>7. \A u, v \in Workers : Syncs(job'[u]) /\ Syncs(job'[v]) => u = v
  BY <1>2 DEF SyncInv
<1> QED
  BY <1>5, <1>6, <1>7

\* A step of a thread that goes on synchronising.
LEMMA SyncGoesOn ==
  ASSUME AccountTypes, SyncInv, NEW t \in Workers, NEW r \in Jobs,
         job' = [job EXCEPT ![t] = r], syncsMet' = syncsMet, Syncs(job[t]), Syncs(r),
         SyncGoes(job[t]) => SyncGoes(r)'
  PROVE  SyncInv'
<1>1. /\ job'[t] = r /\ \A u \in Workers : u # t => job'[u] = job[u]
  BY OneGoes
<1>2. NonePending' => NonePending
  BY <1>1 DEF NonePending, Pending, Syncs
<1>3. \A u \in Workers : Syncs(job'[u]) => Syncs(job[u])
  BY <1>1
<1> SUFFICES ASSUME ~syncsMet PROVE
      /\ \A u, v \in Workers : Syncs(job'[u]) /\ Syncs(job'[v]) => u = v
      /\ NonePending' => \A u \in Workers : Syncs(job'[u]) => SyncGoes(job[u])'
      /\ NonePending' /\ (\A u \in Workers : ~Syncs(job'[u])) => \A n \in Names : Agrees(n)'
  BY DEF SyncInv
<1>4. \A u, v \in Workers : Syncs(job'[u]) /\ Syncs(job'[v]) => u = v
  BY <1>3 DEF SyncInv
<1>5. ASSUME NonePending', NEW u \in Workers, Syncs(job'[u]) PROVE SyncGoes(job[u])'
  <2>1. u = t /\ SyncGoes(job[t])
    BY <1>1, <1>2, <1>3, <1>5 DEF SyncInv
  <2>2. SyncGoes(r)' /\ r = job'[u]
    BY <1>1, <2>1
  <2> QED
    BY <2>2
<1> QED
  BY <1>1, <1>4, <1>5
\* A thread takes an account's client from the table.
LEMMA TakenKeeps ==
  ASSUME ClientsInv, NEW t \in Workers, NEW r \in Jobs, job' = [job EXCEPT ![t] = r],
         JobGoes(r), NEW n \in Names, r.at \in {"remove", "disconnect"}, r.client = table[n],
         job[t].at \notin {"remove", "disconnect"}, table' = [table EXCEPT ![n] = NoClient],
         UNCHANGED <<tgSettings, config, tmpText, mirror, built, tgclient, sessionFiles, orphaned>>
  PROVE  ClientsInv'
<1>1. AccountTypes /\ built \in Nat
  BY ClientNumbers DEF ClientsInv, AccountTypes
<1>2. /\ job' \in [Workers -> Jobs] /\ job'[t] = r
      /\ \A u \in Workers : u # t => job'[u] = job[u]
      /\ \A d \in Clients : LoginIn(d)' => LoginIn(d)
  BY <1>1, OneGoes
<1>3. /\ table' \in [Names -> 0..built] /\ table'[n] = NoClient
      /\ \A m \in Names : m # n => table'[m] = table[m]
  BY <1>1, ClientNumbers DEF AccountTypes
<1>4. AccountTypes'
  BY <1>1, <1>2, <1>3 DEF AccountTypes
<1>5. ASSUME NEW u \in Workers PROVE JobGoes(job[u])'
  BY <1>2 DEF ClientsInv, JobGoes
<1>6. ASSUME NEW m \in Names PROVE OwnClient(m)'
  BY <1>3 DEF ClientsInv, OwnClient
<1>7. ASSUME NEW d \in Clients PROVE InPlace(d)'
  <2>0. d # NoClient /\ tgclient[d].of \in Names /\ InPlace(d)
    BY <1>1, ClientNumbers DEF ClientsInv, AccountTypes, TgClients
  <2>1. CASE d = table[tgclient[d].of]
    <3>1. CASE tgclient[d].of = n
      BY <1>2, <2>1, <3>1 DEF InPlace, Holds
    <3>2. CASE tgclient[d].of # n
      BY <1>3, <2>0, <2>1, <3>2 DEF InPlace
    <3> QED
      BY <3>1, <3>2
  <2>2. CASE d \in orphaned
    BY <2>2 DEF InPlace
  <2>3. ASSUME NEW u \in Workers, Holds(job[u], d) PROVE InPlace(d)'
    <3>1. u # t
      BY <2>3 DEF Holds
    <3> QED
      BY <1>2, <2>3, <3>1 DEF InPlace
  <2>4. CASE tgclient[d].state # "connected" /\ ~LoginIn(d)
    BY <1>2, <2>4 DEF InPlace
  <2> QED
    BY <2>0, <2>1, <2>2, <2>3, <2>4 DEF InPlace
<1> QED
  BY <1>4, <1>5, <1>6, <1>7 DEF ClientsInv


-----------------------------------------------------------------------------
(* Updates and saves. *)

LEMMA BeginKeeps ==
  ASSUME AccountsInv, NEW t \in Workers, NEW op \in Operations, NEW n \in Names, Begin(t, op, n)
  PROVE  AccountsInv'
<1>0. job[t] = NoJob /\ job[t].at = "idle"
  BY NoJobIs DEF Begin
<1>1. /\ AccountTypes /\ ClientsInv /\ FileInv /\ SyncInv /\ job[t] = NoJob /\ job[t].at = "idle"
      /\ tgSettings \in TgSettings /\ table \in [Names -> 0..built] /\ built \in Nat
      /\ built <= MaxClients /\ table[n] \in 0..built /\ table[n] \in 0..MaxClients
      /\ config \in TgSettings /\ tmpText \subseteq TgSettings /\ mirror \in 0..built
  BY <1>0, ClientNumbers DEF AccountsInv, ClientsInv, AccountTypes
<1>2. UNCHANGED <<tgSettings, fileVars, mirror, built, tgclient, sessionFiles, asked, lost,
                  orphaned, syncsMet>>
  BY DEF Begin
<1>3. PICK a, c, r :
        /\ r = [NoJob EXCEPT !.at = a, !.op = op, !.name = n, !.seen = tgSettings, !.client = c]
        /\ a = (IF op = "remove" THEN "remove" ELSE "set") /\ c = IF op = "remove" THEN table[n] ELSE NoClient
        /\ job' = [job EXCEPT ![t] = r]
        /\ table' = IF op = "remove" THEN [table EXCEPT ![n] = NoClient] ELSE table
  BY DEF Begin
<1>4. /\ op = "remove" => a = "remove" /\ c = table[n]
      /\ op # "remove" => a = "set" /\ c = NoClient
      /\ a \in Places /\ op \in OpNames /\ c \in 0..MaxClients
  BY <1>1, <1>3, ClientNumbers DEF Places, OpNames
<1>5. r = [at |-> a, op |-> op, name |-> n, client |-> c, seen |-> tgSettings, todo |-> {}]
  <2>1. PICK j : j = NoJob
    OBVIOUS
  <2>2. j = [at |-> "idle", op |-> "none", name |-> DefaultName, client |-> NoClient,
             seen |-> NoSettings, todo |-> {}]
    BY <2>1, NoJobIs
  <2>3. r = [j EXCEPT !.at = a, !.op = op, !.name = n, !.seen = tgSettings, !.client = c]
    BY <1>3, <2>1
  <2> QED
    BY ONLY <2>2, <2>3
<1>6. r \in Jobs /\ r.at = a /\ r.op = op /\ r.name = n /\ r.client = c /\ r.seen = tgSettings
  BY <1>1, <1>4, <1>5 DEF Jobs
<1>7. JobGoes(r)
  <2>1. c <= built /\ (c # NoClient => tgclient[c].of = n /\ a = "remove")
    BY <1>1, <1>4, ClientNumbers DEF ClientsInv, OwnClient
  <2>2. a \notin {"login", "disconnect"}
    BY <1>4
  <2>3. op \in Operations \cup {"mark"} /\ (a = "remove" => op # "save")
    BY <1>3
  <2> QED
    BY <1>1, <1>6, <2>1, <2>2, <2>3 DEF JobGoes
<1>8. ClientsInv'
  <2>1. CASE op = "remove"
    <3>1. table' = [table EXCEPT ![n] = NoClient] /\ c = table[n] /\ a = "remove"
      BY <1>3, <1>4, <2>1
    <3>2. UNCHANGED <<tgSettings, config, tmpText, mirror, built, tgclient, sessionFiles, orphaned>>
      BY <1>2 DEF fileVars
    <3>3. r.at \in {"remove", "disconnect"} /\ r.client = table[n]
          /\ job[t].at \notin {"remove", "disconnect"}
      BY <1>1, <1>6, <3>1
    <3>4. job' = [job EXCEPT ![t] = r]
      BY <1>3
    <3> QED
      BY <1>1, <1>6, <1>7, <3>1, <3>2, <3>3, <3>4, TakenKeeps
  <2>2. CASE op # "remove"
    <3>1. table' = table /\ r.at # "login"
      BY <1>3, <1>4, <1>6, <2>2
    <3>2. job[t].at \notin {"remove", "disconnect"}
      BY <1>1
    <3>3. UNCHANGED <<table, built, tgclient, orphaned, sessionFiles>>
      BY <1>2, <3>1
    <3>4. tgSettings' \in TgSettings /\ config' \in TgSettings /\ tmpText' \subseteq TgSettings
          /\ mirror' \in 0..built
      BY <1>1, <1>2 DEF fileVars
    <3> QED
      BY <1>1, <1>3, <1>6, <1>7, <3>1, <3>2, <3>3, <3>4, TableStays
  <2> QED
    BY <2>1, <2>2
<1>9. FileInv'
  <2>1. r.at \notin {"write", "replace"} /\ job[t].at \notin {"dump", "write", "replace"}
    BY <1>1, <1>4, <1>6
  <2> QED
    BY <1>1, <1>2, <1>3, <1>6, <2>1, FileElsewhere
<1>10. SyncInv'
  <2>1. ~Syncs(r) /\ ~Syncs(job[t]) /\ ~Pending(job[t])
    BY <1>1, <1>4, <1>6 DEF Syncs, Pending
  <2>2. op = "remove" => Pending(r)
    BY <1>4, <1>6 DEF Pending
  <2>3. \/ Pending(r)
        \/ /\ UNCHANGED <<tgSettings, table, mirror, asked>> /\ lost \subseteq lost'
           /\ \A m \in Names : IsConnected(m)' => IsConnected(m) \/ m \in lost'
    BY <1>2, <1>3, <2>2 DEF IsConnected
  <2> QED
    BY <1>1, <1>2, <1>3, <1>6, <2>1, <2>3, SyncElsewhere
<1> QED
  BY <1>8, <1>9, <1>10 DEF AccountsInv

\* A step of an update or a save that leaves the clients alone.
LEMMA UpdateKeeps ==
  ASSUME AccountsInv, NEW t \in Workers, NEW r \in Jobs, job' = [job EXCEPT ![t] = r],
         job[t].at \in {"set", "dump", "write", "replace"},
         r.at \in {"dump", "write", "replace", "sync", "idle"}, r.client = NoClient,
         Pending(job[t]) => Pending(r), r.at = "idle" \/ r.op = job[t].op,
         UNCHANGED clientVars, syncsMet' = syncsMet,
         tgSettings' = tgSettings \/ (tgSettings' \in TgSettings /\ Pending(job[t])),
         config' \in TgSettings, tmpText' \subseteq TgSettings, FileInv'
  PROVE  AccountsInv'
<1>1. /\ AccountTypes /\ ClientsInv /\ FileInv /\ SyncInv /\ built \in Nat /\ mirror \in 0..built
      /\ tgSettings \in TgSettings
  BY ClientNumbers DEF AccountsInv, ClientsInv, AccountTypes
<1>2. UNCHANGED <<table, mirror, built, tgclient, sessionFiles, asked, lost, orphaned>>
  BY DEF clientVars
<1>3. JobGoes(r)
  BY <1>1, ClientNumbers DEF JobGoes
<1>4. ClientsInv'
  <2>1. r.at # "login" /\ job[t].at \notin {"remove", "disconnect"}
    OBVIOUS
  <2>2. UNCHANGED <<table, built, tgclient, orphaned, sessionFiles>> /\ mirror' \in 0..built
        /\ tgSettings' \in TgSettings
    BY <1>1, <1>2
  <2> QED
    BY <1>1, <1>3, <2>1, <2>2, TableStays
<1>5. SyncInv'
  <2>1. ~Syncs(job[t]) /\ ~Syncs(r)
    BY DEF Syncs
  <2>2. \/ Pending(r)
        \/ /\ UNCHANGED <<tgSettings, table, mirror, asked>> /\ lost \subseteq lost'
           /\ \A n \in Names : IsConnected(n)' => IsConnected(n) \/ n \in lost'
    BY <1>2 DEF IsConnected
  <2> QED
    BY <1>1, <2>1, <2>2, SyncElsewhere
<1> QED
  BY <1>4, <1>5 DEF AccountsInv

LEMMA SetKeeps ==
  ASSUME AccountsInv, NEW t \in Workers, Set(t)
  PROVE  AccountsInv'
<1>1. /\ AccountTypes /\ ClientsInv /\ FileInv /\ job[t] \in Jobs /\ job[t].at = "set"
      /\ JobGoes(job[t]) /\ config \in TgSettings /\ tmpText \subseteq TgSettings
      /\ built \in Nat /\ mirror \in 0..built
  BY ClientNumbers DEF AccountsInv, ClientsInv, AccountTypes, Set
<1>2. PICK r : r = AtSeen(job[t], "dump", NoSettings)
  OBVIOUS
<1>4. r \in Jobs /\ r.at = "dump" /\ r.op = job[t].op /\ r.client = job[t].client
  <2>1. "dump" \in Places
    BY DEF Places
  <2> QED
    BY <1>1, <1>2, <2>1, AtSeenIs, NoSettingsIs
<1>5. /\ job' = [job EXCEPT ![t] = r] /\ UNCHANGED clientVars /\ UNCHANGED fileVars
      /\ syncsMet' = IF job[t].op = "save" /\ tgSettings' # tgSettings THEN TRUE ELSE syncsMet
  BY <1>2 DEF Set, AtSeen
<1>6. tgSettings' \in TgSettings
  <2>1. job[t].seen \in TgSettings /\ job[t].op \in Operations \cup {"mark"} /\ job[t].name \in Names
    BY <1>1, JobFields DEF JobGoes
  <2>2. tgSettings' \in Changed(job[t].seen, job[t].op, job[t].name)
    BY DEF Set
  <2> QED
    BY <2>1, <2>2, ChangedSettings
<1>7. r.client = NoClient
  BY <1>1, <1>4 DEF JobGoes
<1>8. FileInv'
  <2>1. r.at \notin {"write", "replace"} /\ job[t].at \notin {"dump", "write", "replace"}
    BY <1>1, <1>4
  <2> QED
    BY <1>1, <1>4, <1>5, <2>1, FileElsewhere
<1>9. config' \in TgSettings /\ tmpText' \subseteq TgSettings
  BY <1>1, <1>5 DEF fileVars
<1>10. CASE job[t].op # "save" \/ tgSettings' = tgSettings
  <2>1. syncsMet' = syncsMet /\ (Pending(job[t]) => Pending(r))
        /\ (tgSettings' = tgSettings \/ Pending(job[t]))
    BY <1>1, <1>4, <1>5, <1>10 DEF Pending
  <2> QED
    BY <1>1, <1>4, <1>5, <1>6, <1>7, <1>8, <1>9, <2>1, UpdateKeeps
<1>11. CASE job[t].op = "save" /\ tgSettings' # tgSettings
  <2>1. SyncInv'
    BY <1>5, <1>11 DEF SyncInv
  <2>2. JobGoes(r)
    BY <1>1, <1>4, <1>7, ClientNumbers DEF JobGoes
  <2>3. r.at # "login" /\ job[t].at \notin {"remove", "disconnect"}
    BY <1>1, <1>4
  <2>4. UNCHANGED <<table, built, tgclient, orphaned, sessionFiles>> /\ mirror' \in 0..built
    BY <1>1, <1>5 DEF clientVars
  <2>5. ClientsInv'
    BY <1>1, <1>4, <1>5, <1>6, <1>9, <2>2, <2>3, <2>4, TableStays
  <2> QED
    BY <1>8, <2>1, <2>5 DEF AccountsInv
<1> QED
  BY <1>10, <1>11

\* What a thread that saves holds.
LEMMA SavingJob ==
  ASSUME AccountsInv, NEW t \in Workers, job[t].at \in {"dump", "write", "replace"}
  PROVE  /\ AccountTypes /\ FileInv /\ job[t] \in Jobs /\ job[t].client = NoClient
         /\ tgSettings \in TgSettings /\ config \in TgSettings /\ tmpText \subseteq TgSettings
         /\ job[t].seen \in TgSettings
<1>1. AccountTypes /\ FileInv /\ job[t] \in Jobs /\ JobGoes(job[t])
  BY DEF AccountsInv, ClientsInv, AccountTypes
<1> QED
  BY <1>1, JobFields DEF AccountTypes, JobGoes

LEMMA DumpKeeps ==
  ASSUME AccountsInv, NEW t \in Workers, Dump(t)
  PROVE  AccountsInv'
<1>0. job[t].at = "dump"
  BY DEF Dump
<1>1. /\ AccountTypes /\ FileInv /\ job[t] \in Jobs /\ job[t].client = NoClient
      /\ tgSettings \in TgSettings /\ config \in TgSettings /\ tmpText \subseteq TgSettings
  BY <1>0, SavingJob
<1>2. PICK r : r = AtSeen(job[t], "write", tgSettings)
  OBVIOUS
<1>4. r \in Jobs /\ r.at = "write" /\ r.op = job[t].op /\ r.client = NoClient /\ r.seen = tgSettings
  <2>1. "write" \in Places
    BY DEF Places
  <2> QED
    BY <1>1, <1>2, <2>1, AtSeenIs
<1>5. /\ job' = [job EXCEPT ![t] = r] /\ UNCHANGED clientVars /\ syncsMet' = syncsMet
      /\ UNCHANGED <<tgSettings, config, tmpText, unsaved>>
      /\ savesMet' = \E u \in Workers \ {t} : Saving(u)
  BY <1>2 DEF Dump, AtSeen
<1>6. /\ job'[t] = r /\ \A u \in Workers : u # t => job'[u] = job[u]
  BY <1>1, <1>4, <1>5, OneGoes
<1>7. FileInv'
  <2> SUFFICES ASSUME ~savesMet' PROVE
        /\ \A u, v \in Workers : Saving(u)' /\ Saving(v)' => u = v
        /\ \A u \in Workers : job'[u].at = "replace" => tmpText' = {job'[u].seen}
        /\ \A u \in Workers : Saving(u)' =>
             job'[u].seen = tgSettings' \/ \E v \in Workers : job'[v].at = "dump"
        /\ \/ unsaved' \/ config' = tgSettings'
           \/ \E u \in Workers : job'[u].at = "dump" \/ Saving(u)'
    BY DEF FileInv
  <2>1. \A u \in Workers : u # t => ~Saving(u)
    BY <1>5
  <2>2. \A u \in Workers : Saving(u)' <=> u = t
    BY <1>4, <1>6, <2>1 DEF Saving
  <2>3. \A u \in Workers : job'[u].at = "replace" => FALSE
    BY <1>4, <1>6, <2>1 DEF Saving
  <2>4. Saving(t)' /\ job'[t].seen = tgSettings'
    BY <1>4, <1>5, <1>6, <2>2
  <2> QED
    BY <2>2, <2>3, <2>4
<1>8. Pending(job[t]) => Pending(r)
  BY <1>0, <1>4 DEF Pending
<1> QED
  BY <1>0, <1>1, <1>4, <1>5, <1>7, <1>8, UpdateKeeps

LEMMA WriteKeeps ==
  ASSUME AccountsInv, NEW t \in Workers, WriteTmp(t)
  PROVE  AccountsInv'
<1>0. job[t].at = "write"
  BY DEF WriteTmp
<1>1. /\ AccountTypes /\ FileInv /\ job[t] \in Jobs /\ job[t].client = NoClient
      /\ tgSettings \in TgSettings /\ config \in TgSettings /\ job[t].seen \in TgSettings
  BY <1>0, SavingJob
<1>2. PICK r : r = At(job[t], "replace")
  OBVIOUS
<1>4. /\ r \in Jobs /\ r.at = "replace" /\ r.op = job[t].op /\ r.client = NoClient
      /\ r.seen = job[t].seen
  <2>1. "replace" \in Places
    BY DEF Places
  <2> QED
    BY <1>1, <1>2, <2>1, AtIs
<1>5. /\ job' = [job EXCEPT ![t] = r] /\ UNCHANGED clientVars /\ syncsMet' = syncsMet
      /\ UNCHANGED <<tgSettings, config, unsaved, savesMet>> /\ tmpText' = {job[t].seen}
  BY <1>2 DEF WriteTmp, At
<1>6. /\ job'[t] = r /\ \A u \in Workers : u # t => job'[u] = job[u]
  BY <1>1, <1>4, <1>5, OneGoes
<1>7. FileInv'
  <2> SUFFICES ASSUME ~savesMet PROVE
        /\ \A u, v \in Workers : Saving(u)' /\ Saving(v)' => u = v
        /\ \A u \in Workers : job'[u].at = "replace" => tmpText' = {job'[u].seen}
        /\ \A u \in Workers : Saving(u)' =>
             job'[u].seen = tgSettings' \/ \E v \in Workers : job'[v].at = "dump"
        /\ \/ unsaved' \/ config' = tgSettings'
           \/ \E u \in Workers : job'[u].at = "dump" \/ Saving(u)'
    BY <1>5 DEF FileInv
  <2>1. \A u \in Workers : Saving(u) => u = t
    BY <1>0, <1>1 DEF FileInv, Saving
  <2>2. \A u \in Workers : Saving(u)' <=> Saving(u)
    BY <1>0, <1>4, <1>6 DEF Saving
  <2>3. \A u \in Workers : job'[u].at = "replace" => u = t
    BY <2>1, <2>2 DEF Saving
  <2>4. \A u \in Workers : job'[u].seen = job[u].seen /\ (job[u].at = "dump" => job'[u].at = "dump")
    BY <1>0, <1>4, <1>6
  <2> QED
    BY <1>1, <1>4, <1>5, <1>6, <2>1, <2>2, <2>3, <2>4 DEF FileInv
<1>8. Pending(job[t]) => Pending(r)
  BY <1>0, <1>4 DEF Pending
<1>9. tmpText' \subseteq TgSettings
  BY <1>1, <1>5
<1> QED
  BY <1>0, <1>1, <1>4, <1>5, <1>7, <1>8, <1>9, UpdateKeeps

\* A save ends: its update goes on, or there is none.
LEMMA SavedJob ==
  ASSUME NEW j \in Jobs, j.at \in {"write", "replace"}, j.client = NoClient,
         NEW r, r = IF j.op = "save" THEN NoJob ELSE AtSeen(j, "sync", NoSettings)
  PROVE  /\ r \in Jobs /\ r.at \in {"sync", "idle"} /\ r.client = NoClient
         /\ Pending(j) => Pending(r)
         /\ r.at = "idle" \/ r.op = j.op
<1>1. CASE j.op = "save"
  BY <1>1, NoJobIs DEF Pending
<1>2. CASE j.op # "save"
  <2>2. "sync" \in Places
    BY DEF Places
  <2>3. r \in Jobs /\ r.at = "sync" /\ r.client = NoClient /\ r.op = j.op
    BY <1>2, <2>2, AtSeenIs, NoSettingsIs
  <2> QED
    BY <1>2, <2>3 DEF Pending
<1> QED
  BY <1>1, <1>2

LEMMA SaveEndKeeps ==
  ASSUME AccountsInv, NEW t \in Workers, RenameTmp(t) \/ SaveFails(t)
  PROVE  AccountsInv'
<1>0. job[t].at \in {"write", "replace"}
  BY DEF RenameTmp, SaveFails
<1>1. /\ AccountTypes /\ FileInv /\ job[t] \in Jobs /\ job[t].client = NoClient
      /\ tgSettings \in TgSettings /\ config \in TgSettings /\ tmpText \subseteq TgSettings
  BY <1>0, SavingJob
<1>2. PICK j, r : j = job[t] /\ r = IF j.op = "save" THEN NoJob ELSE AtSeen(j, "sync", NoSettings)
  OBVIOUS
<1>3. /\ r \in Jobs /\ r.at \in {"sync", "idle"} /\ r.client = NoClient
      /\ Pending(job[t]) => Pending(r)
      /\ r.at = "idle" \/ r.op = job[t].op
  BY <1>0, <1>1, <1>2, SavedJob
<1>4. /\ job' = [job EXCEPT ![t] = r] /\ UNCHANGED clientVars /\ syncsMet' = syncsMet
      /\ UNCHANGED <<tgSettings, savesMet>>
      /\ \/ job[t].at = "replace" /\ config' \in tmpText /\ tmpText' = {}
         \/ unsaved' = TRUE /\ UNCHANGED <<config, tmpText>>
  BY <1>2 DEF RenameTmp, SaveFails, AfterSave, AtSeen
<1>5. /\ job'[t] = r /\ \A u \in Workers : u # t => job'[u] = job[u]
  BY <1>1, <1>3, <1>4, OneGoes
<1>6. FileInv'
  <2> SUFFICES ASSUME ~savesMet PROVE
        /\ \A u, v \in Workers : Saving(u)' /\ Saving(v)' => u = v
        /\ \A u \in Workers : job'[u].at = "replace" => tmpText' = {job'[u].seen}
        /\ \A u \in Workers : Saving(u)' =>
             job'[u].seen = tgSettings' \/ \E v \in Workers : job'[v].at = "dump"
        /\ \/ unsaved' \/ config' = tgSettings'
           \/ \E u \in Workers : job'[u].at = "dump" \/ Saving(u)'
    BY <1>4 DEF FileInv
  <2>1. \A u \in Workers : Saving(u) => u = t
    BY <1>0, <1>1 DEF FileInv, Saving
  <2>2. \A u \in Workers : ~Saving(u)'
    BY <1>3, <1>5, <2>1 DEF Saving
  <2>3. CASE unsaved' = TRUE
    BY <2>2, <2>3 DEF Saving
  <2>4. CASE job[t].at = "replace" /\ config' \in tmpText
    <3>1. config' = job[t].seen
      BY <1>1, <2>4 DEF FileInv
    <3>2. \A u \in Workers : job[u].at = "dump" => job'[u].at = "dump"
      BY <1>0, <1>5
    <3>3. job[t].seen = tgSettings \/ \E u \in Workers : job[u].at = "dump"
      BY <1>0, <1>1 DEF FileInv, Saving
    <3>4. config' = tgSettings' \/ \E u \in Workers : job'[u].at = "dump"
      BY <1>4, <3>1, <3>2, <3>3
    <3> QED
      BY <2>2, <3>4 DEF Saving
  <2> QED
    BY <1>4, <2>3, <2>4
<1>7. config' \in TgSettings /\ tmpText' \subseteq TgSettings
  BY <1>1, <1>4
<1> QED
  BY <1>0, <1>1, <1>3, <1>4, <1>6, <1>7, UpdateKeeps
-----------------------------------------------------------------------------
(* The connections. *)

\* A client's login state changes, and nothing else of it.
LEMMA StateChanges ==
  ASSUME NEW states \in [Clients -> TgClients], NEW c \in Clients, NEW s \in LoginStates,
         NEW new, new = [states EXCEPT ![c].state = s]
  PROVE  /\ new \in [Clients -> TgClients] /\ new[c].state = s
         /\ \A d \in Clients : new[d].of = states[d].of
         /\ \A d \in Clients : d # c => new[d].state = states[d].state
<1>1. PICK r : r = [states[c] EXCEPT !.state = s]
  OBVIOUS
<1>2. r \in TgClients /\ r.state = s /\ r.of = states[c].of
  BY <1>1 DEF TgClients
<1>3. new = [states EXCEPT ![c] = r]
  BY <1>1
<1> QED
  BY <1>2, <1>3

LEMMA LoginStatesAre ==
  "disconnected" \in LoginStates /\ "await_code" \in LoginStates /\ "connected" \in LoginStates
  BY DEF LoginStates

\* What the invariant says of a thread and of the types.
LEMMA TypesAndJob ==
  ASSUME AccountsInv, NEW t \in Workers
  PROVE  /\ AccountTypes /\ ClientsInv /\ FileInv /\ SyncInv
         /\ job[t] \in Jobs /\ JobGoes(job[t]) /\ job[t].client \in 0..MaxClients
         /\ job[t].name \in Names
         /\ tgSettings \in TgSettings /\ config \in TgSettings /\ tmpText \subseteq TgSettings
         /\ built \in Nat /\ built <= MaxClients /\ mirror \in 0..built
         /\ table \in [Names -> 0..built]
         /\ tgclient \in [Clients -> TgClients] /\ sessionFiles \subseteq Names
<1>1. AccountTypes /\ ClientsInv /\ FileInv /\ SyncInv /\ JobGoes(job[t])
  BY DEF AccountsInv, ClientsInv
<1>2. job[t] \in Jobs
  BY <1>1 DEF AccountTypes
<1>3. job[t].client \in 0..MaxClients /\ job[t].name \in Names
  BY <1>2, JobFields
<1> QED
  BY <1>1, <1>2, <1>3, ClientNumbers DEF AccountTypes

LEMMA DisposeKeeps ==
  ASSUME AccountsInv, NEW t \in Workers, Dispose(t)
  PROVE  AccountsInv'
<1>1. /\ AccountTypes /\ ClientsInv /\ FileInv /\ SyncInv
      /\ job[t] \in Jobs /\ JobGoes(job[t]) /\ job[t].client \in 0..MaxClients
      /\ tgSettings \in TgSettings /\ config \in TgSettings /\ tmpText \subseteq TgSettings
      /\ built \in Nat /\ mirror \in 0..built
      /\ tgclient \in [Clients -> TgClients] /\ sessionFiles \subseteq Names
  BY TypesAndJob
<1>2. PICK r : r = AtClient(job[t], "set", NoClient)
  OBVIOUS
<1>3. r \in Jobs /\ r.at = "set" /\ r.op = job[t].op /\ r.client = NoClient
  <2>1. "set" \in Places /\ NoClient \in 0..MaxClients
    BY ClientNumbers DEF Places
  <2> QED
    BY <1>1, <1>2, <2>1, AtClientIs
<1>4. PICK c \in 0..MaxClients : c = job[t].client
  BY <1>1
<1>5. /\ job[t].at = "remove" /\ job' = [job EXCEPT ![t] = r] /\ ~LoginIn(c)
      /\ UNCHANGED <<tgSettings, fileVars, table, mirror, built, asked, lost, orphaned, syncsMet>>
      /\ sessionFiles' \subseteq sessionFiles
  BY <1>2, <1>4 DEF Dispose, AtClient
<1>6. /\ tgclient' \in [Clients -> TgClients]
      /\ \A d \in Clients : tgclient'[d].of = tgclient[d].of
      /\ \A d \in Clients : tgclient'[d].state = "connected" => tgclient[d].state = "connected"
      /\ c \in Clients => tgclient'[c].state # "connected"
  <2>1. CASE c # NoClient /\ tgclient[c].state = "connected"
    <3>1. c \in Clients /\ tgclient' = [tgclient EXCEPT ![c].state = "disconnected"]
      BY <1>4, <2>1, ClientNumbers DEF Dispose
    <3>2. /\ tgclient' \in [Clients -> TgClients] /\ tgclient'[c].state = "disconnected"
          /\ \A d \in Clients : tgclient'[d].of = tgclient[d].of
          /\ \A d \in Clients : d # c => tgclient'[d].state = tgclient[d].state
      BY <1>1, <3>1, StateChanges, LoginStatesAre
    <3> QED
      BY <2>1, <3>2
  <2>2. CASE ~(c # NoClient /\ tgclient[c].state = "connected")
    <3>1. tgclient' = tgclient
      BY <1>4, <2>2 DEF Dispose
    <3> QED
      BY <1>1, <2>2, <3>1, ClientNumbers
  <2> QED
    BY <2>1, <2>2
<1>7. JobGoes(r)
  BY <1>1, <1>3, <1>5, ClientNumbers DEF JobGoes
<1>8. c \in Clients => InPlace(c)'
  <2>1. LoginIn(c)' => LoginIn(c) \/ r.at = "login" \/ c \notin Clients
    BY <1>1, <1>3, <1>5, OneGoes
  <2> QED
    BY <1>3, <1>5, <1>6, <2>1 DEF InPlace
<1>9. \A d \in Clients : d # c => ~Holds(job[t], d)
  BY <1>4 DEF Holds
<1>10. ClientsInv'
  <2>1. /\ r.at # "login" /\ UNCHANGED <<table, built>> /\ orphaned \subseteq orphaned'
        /\ tgSettings' \in TgSettings /\ config' \in TgSettings /\ tmpText' \subseteq TgSettings
        /\ mirror' \in 0..built /\ sessionFiles' \subseteq Names
    BY <1>1, <1>3, <1>5 DEF fileVars
  <2> QED
    BY <1>1, <1>3, <1>5, <1>6, <1>7, <1>8, <1>9, <2>1, TableKeeps
<1>11. FileInv'
  <2>1. job[t].at \notin {"dump", "write", "replace"} /\ r.at \notin {"write", "replace"}
        /\ tgSettings' = tgSettings /\ UNCHANGED fileVars
    BY <1>3, <1>5
  <2> QED
    BY <1>1, <1>3, <1>5, <2>1, FileElsewhere
<1>12. SyncInv'
  <2>1. ~Syncs(job[t]) /\ ~Syncs(r) /\ Pending(r) /\ syncsMet' = syncsMet
    BY <1>1, <1>3, <1>5 DEF Syncs, Pending, JobGoes
  <2> QED
    BY <1>1, <1>3, <1>5, <2>1, SyncElsewhere
<1> QED
  BY <1>10, <1>11, <1>12 DEF AccountsInv

\* A login is asked for, and gets the client that is in the table: the clients
\* stay as they are.
LEMMA LoginGoes ==
  ASSUME AccountsInv, NEW t \in Workers, NEW r \in Jobs, job' = [job EXCEPT ![t] = r],
         JobGoes(r), job[t].at \in {"idle", "take"}, r.at \in {"idle", "make", "take", "login"},
         r.at = "login" => r.client = table[r.name],
         UNCHANGED <<tgSettings, fileVars, clientVars, syncsMet>>
  PROVE  AccountsInv'
<1>1. /\ AccountTypes /\ ClientsInv /\ FileInv /\ SyncInv
      /\ tgSettings \in TgSettings /\ config \in TgSettings /\ tmpText \subseteq TgSettings
      /\ mirror \in 0..built
  BY TypesAndJob
<1>2. UNCHANGED <<table, mirror, built, tgclient, sessionFiles, asked, lost, orphaned>>
  BY DEF clientVars
<1>3. ClientsInv'
  <2>1. /\ job[t].at \notin {"remove", "disconnect"}
        /\ tgSettings' \in TgSettings /\ config' \in TgSettings /\ tmpText' \subseteq TgSettings
        /\ mirror' \in 0..built
    BY <1>1, <1>2 DEF fileVars
  <2> QED
    BY <1>1, <1>2, <2>1, TableStays
<1>4. FileInv'
  <2>1. job[t].at \notin {"dump", "write", "replace"} /\ r.at \notin {"write", "replace"}
    OBVIOUS
  <2> QED
    BY <1>1, <2>1, FileElsewhere
<1>5. SyncInv'
  <2>1. ~Syncs(job[t]) /\ ~Syncs(r) /\ ~Pending(job[t])
    BY DEF Syncs, Pending
  <2>2. /\ UNCHANGED <<tgSettings, table, mirror, asked>> /\ lost \subseteq lost'
        /\ \A n \in Names : IsConnected(n)' => IsConnected(n) \/ n \in lost'
    BY <1>2 DEF IsConnected
  <2> QED
    BY <1>1, <2>1, <2>2, SyncElsewhere
<1> QED
  BY <1>3, <1>4, <1>5 DEF AccountsInv

LEMMA RequestKeeps ==
  ASSUME AccountsInv, NEW t \in Workers, NEW n \in Names, NEW op \in {"start", "submit"},
         RequestLogin(t, n, op)
  PROVE  AccountsInv'
<1>1. job[t].at = "idle"
  BY NoJobIs DEF RequestLogin
<1>2. PICK a \in {"make", "take"} : a = IF table[n] = NoClient THEN "make" ELSE "take"
  OBVIOUS
<1>3. PICK r : r = [NoJob EXCEPT !.op = op, !.name = n, !.at = a]
  OBVIOUS
<1>4. r \in Jobs /\ r.at = a /\ r.client = NoClient
  <2>1. PICK j : j = NoJob
    OBVIOUS
  <2>2. j \in Jobs /\ j.client = NoClient
    BY <2>1, NoJobIs
  <2>3. a \in Places /\ op \in OpNames
    BY DEF Places, OpNames
  <2>4. r = [j EXCEPT !.op = op, !.name = n, !.at = a]
    BY <1>3, <2>1
  <2> QED
    BY <2>2, <2>3, <2>4 DEF Jobs
<1>5. job' = [job EXCEPT ![t] = r] /\ UNCHANGED <<tgSettings, fileVars, clientVars, syncsMet>>
  BY <1>2, <1>3 DEF RequestLogin
<1>6. JobGoes(r) /\ r.at # "login"
  <2>1. built \in Nat
    BY TypesAndJob
  <2> QED
    BY <1>4, <2>1, ClientNumbers DEF JobGoes
<1>7. job[t].at \in {"idle", "take"} /\ r.at \in {"idle", "make", "take", "login"}
  BY <1>1, <1>4
<1> QED
  BY <1>4, <1>5, <1>6, <1>7, LoginGoes

LEMMA TakeClientKeeps ==
  ASSUME AccountsInv, NEW t \in Workers, TakeClient(t)
  PROVE  AccountsInv'
<1>1. /\ ClientsInv /\ job[t] \in Jobs /\ job[t].name \in Names /\ table \in [Names -> 0..built]
      /\ built \in Nat /\ built <= MaxClients
  BY TypesAndJob
<1>2. job[t].at = "take" /\ UNCHANGED <<tgSettings, fileVars, clientVars, syncsMet>>
  BY DEF TakeClient
<1>3. PICK c \in 0..MaxClients : c = table[job[t].name] /\ c <= built
  <2>1. table[job[t].name] \in 0..built
    BY <1>1
  <2> QED
    BY <1>1, <2>1, ClientNumbers
<1>4. PICK r : r = IF c # NoClient /\ (job[t].op = "submit" => tgclient[c].state = "await_code")
                   THEN AtClient(job[t], "login", c) ELSE NoJob
  OBVIOUS
<1>5. job' = [job EXCEPT ![t] = r]
  BY <1>3, <1>4 DEF TakeClient, AtClient
<1>6. /\ r \in Jobs /\ r.at \in {"idle", "login"}
      /\ r.at = "login" => r.client = c /\ c # NoClient /\ r.name = job[t].name
      /\ r.at = "idle" => r.client = NoClient
  <2>1. CASE r = NoJob
    BY <2>1, NoJobIs
  <2>2. CASE c # NoClient /\ r = AtClient(job[t], "login", c)
    <3>1. "login" \in Places
      BY DEF Places
    <3>2. r \in Jobs /\ r.at = "login" /\ r.client = c /\ r.name = job[t].name
      BY <1>1, <2>2, <3>1, AtClientIs
    <3> QED
      BY <2>2, <3>2
  <2> QED
    BY <1>4, <2>1, <2>2
<1>7. JobGoes(r)
  <2>1. c # NoClient => tgclient[c].of = job[t].name
    BY <1>1, <1>3 DEF ClientsInv, OwnClient
  <2> QED
    BY <1>1, <1>3, <1>6, <2>1, ClientNumbers DEF JobGoes
<1>8. /\ job[t].at \in {"idle", "take"} /\ r.at \in {"idle", "make", "take", "login"}
      /\ r.at = "login" => r.client = table[r.name]
  BY <1>2, <1>3, <1>6
<1> QED
  BY <1>2, <1>5, <1>6, <1>7, <1>8, LoginGoes

MarkFor(j, tg) == [j EXCEPT !.at = "set", !.op = "mark", !.client = NoClient, !.seen = tg]

LEMMA MarkJob ==
  ASSUME NEW j \in Jobs, NEW tg \in TgSettings, NEW r, r = MarkFor(j, tg)
  PROVE  r.at = "set" /\ r.op = "mark" /\ r.client = NoClient /\ r \in Jobs
<1>1. "set" \in Places /\ "mark" \in OpNames /\ NoClient \in 0..MaxClients
  BY ClientNumbers DEF Places, OpNames
<1> QED
  BY <1>1 DEF Jobs, MarkFor

LEMMA EndLoginKeeps ==
  ASSUME AccountsInv, NEW t \in Workers, EndLogin(t)
  PROVE  AccountsInv'
<1> DEFINE c == job[t].client  n == job[t].name
<1>0. /\ AccountTypes /\ ClientsInv /\ FileInv /\ SyncInv
      /\ job[t] \in Jobs /\ JobGoes(job[t]) /\ job[t].client \in 0..MaxClients
      /\ job[t].name \in Names
      /\ tgSettings \in TgSettings /\ config \in TgSettings /\ tmpText \subseteq TgSettings
      /\ built \in Nat /\ mirror \in 0..built /\ table \in [Names -> 0..built]
      /\ tgclient \in [Clients -> TgClients] /\ sessionFiles \subseteq Names
  BY TypesAndJob
<1>1. job[t].at = "login"
  BY DEF EndLogin
<1>2. /\ c # NoClient /\ c \in Clients /\ c <= built /\ n \in Names /\ tgclient[c].of = n
      /\ tgclient[c] \in TgClients
      /\ UNCHANGED <<tgSettings, fileVars, table, mirror, built, asked, orphaned, syncsMet>>
  BY <1>0, <1>1, ClientNumbers DEF JobGoes, EndLogin
<1>3. PICK s \in LoginStates, r \in {NoJob, MarkFor(job[t], tgSettings)} :
        /\ tgclient' = [tgclient EXCEPT ![c].state = s]
        /\ sessionFiles' \subseteq sessionFiles \cup {n} /\ job' = [job EXCEPT ![t] = r]
        /\ \/ r = NoJob /\ tgclient[c].state # "connected" /\ s # "connected" /\ lost' = lost
           \/ r = NoJob /\ lost' = lost \cup {n}
           \/ r = MarkFor(job[t], tgSettings) /\ lost' = lost
  <2>0. /\ tgclient[c].state \in LoginStates
        /\ tgclient = [tgclient EXCEPT ![c].state = tgclient[c].state]
    BY <1>0, <1>2 DEF TgClients
  <2>1. CASE /\ tgclient[c].state # "connected" /\ job' = [job EXCEPT ![t] = NoJob]
             /\ tgclient' = IF job[t].op = "start" /\ n \notin sessionFiles
                            THEN [tgclient EXCEPT ![c].state = "await_code"] ELSE tgclient
             /\ UNCHANGED <<sessionFiles, lost>>
    <3>1. CASE job[t].op = "start" /\ n \notin sessionFiles
      BY <2>0, <2>1, <3>1, LoginStatesAre
    <3>2. CASE ~(job[t].op = "start" /\ n \notin sessionFiles)
      BY <2>0, <2>1, <3>2
    <3> QED
      BY <3>1, <3>2
  <2>2. CASE /\ tgclient' = [tgclient EXCEPT ![c].state = "connected"]
             /\ sessionFiles' = sessionFiles \cup {n}
             /\ job' = [job EXCEPT ![t].at = "set", ![t].op = "mark", ![t].client = NoClient,
                                   ![t].seen = tgSettings]
             /\ UNCHANGED lost
    <3>1. PICK r : r = MarkFor(job[t], tgSettings)
      OBVIOUS
    <3>2. job' = [job EXCEPT ![t] = r]
      BY <2>2, <3>1 DEF MarkFor
    <3> QED
      BY <2>0, <2>2, <3>1, <3>2, LoginStatesAre
  <2>3. CASE /\ tgclient' = [tgclient EXCEPT ![c].state = "connected"]
             /\ sessionFiles' = sessionFiles \cup {n}
             /\ job' = [job EXCEPT ![t] = NoJob] /\ lost' = lost \cup {n}
    BY <2>0, <2>3, LoginStatesAre
  <2> QED
    BY <1>1, <2>1, <2>2, <2>3 DEF EndLogin, NotesLogin
<1>4. /\ r \in Jobs /\ r.at \in {"idle", "set"} /\ r.client = NoClient
      /\ r.at = "set" => r.op = "mark"
      /\ r.at = "idle" => \/ tgclient[c].state # "connected" /\ s # "connected" /\ lost' = lost
                          \/ lost' = lost \cup {n}
  <2>1. CASE r = NoJob /\ (\/ tgclient[c].state # "connected" /\ s # "connected" /\ lost' = lost
                           \/ lost' = lost \cup {n})
    <3>1. r \in Jobs /\ r.at = "idle" /\ r.client = NoClient
      BY <2>1, NoJobIs
    <3> QED
      BY <2>1, <3>1
  <2>2. CASE r = MarkFor(job[t], tgSettings)
    <3>1. r.at = "set" /\ r.op = "mark" /\ r.client = NoClient /\ r \in Jobs
      BY <1>0, <2>2, MarkJob
    <3> QED
      BY <3>1
  <2> QED
    BY <1>3, <2>1, <2>2
<1>5. /\ tgclient' \in [Clients -> TgClients] /\ tgclient'[c].state = s
      /\ \A d \in Clients : tgclient'[d].of = tgclient[d].of
      /\ \A d \in Clients : d # c => tgclient'[d].state = tgclient[d].state
  BY <1>0, <1>2, <1>3, StateChanges
<1>6. lost \subseteq lost' /\ job' = [job EXCEPT ![t] = r]
  BY <1>3
<1>7. JobGoes(r)
  <2>1. "mark" # "save"
    OBVIOUS
  <2> QED
    BY <1>0, <1>4, <2>1, ClientNumbers DEF JobGoes
<1>8. PICK c0 \in 0..MaxClients : c0 = c
  BY <1>0
<1>9. c0 \in Clients => InPlace(c0)'
  <2>1. LoginIn(c0) /\ InPlace(c0)
    BY <1>0, <1>1, <1>2, <1>8 DEF LoginIn, ClientsInv
  <2>2. \A u \in Workers : Holds(job[u], c0) => job'[u] = job[u]
    <3>1. ~Holds(job[t], c0)
      BY <1>1 DEF Holds
    <3>2. \A u \in Workers : u # t => job'[u] = job[u]
      BY <1>0, <1>4, <1>6, OneGoes
    <3> QED
      BY <3>1, <3>2
  <2> QED
    BY <1>2, <1>5, <1>8, <2>1, <2>2 DEF InPlace
<1>10. ClientsInv'
  <2>1. /\ r.at # "login" /\ UNCHANGED <<table, built>> /\ orphaned \subseteq orphaned'
        /\ tgSettings' \in TgSettings /\ config' \in TgSettings /\ tmpText' \subseteq TgSettings
        /\ mirror' \in 0..built /\ sessionFiles' \subseteq Names
        /\ \A d \in Clients : d # c0 => ~Holds(job[t], d)
    BY <1>0, <1>1, <1>2, <1>3, <1>4 DEF fileVars, Holds
  <2>2. \A d \in Clients : d # c0 /\ tgclient'[d].state = "connected" =>
                             tgclient[d].state = "connected"
    BY <1>5, <1>8
  <2> QED
    BY <1>0, <1>4, <1>5, <1>6, <1>7, <1>9, <2>1, <2>2, TableKeeps
<1>11. FileInv'
  <2>1. job[t].at \notin {"dump", "write", "replace"} /\ r.at \notin {"write", "replace"}
        /\ tgSettings' = tgSettings /\ UNCHANGED fileVars
    BY <1>1, <1>2, <1>4
  <2> QED
    BY <1>0, <1>4, <1>6, <2>1, FileElsewhere
<1>12. SyncInv'
  <2>1. ~Syncs(job[t]) /\ ~Syncs(r) /\ ~Pending(job[t]) /\ syncsMet' = syncsMet
    BY <1>1, <1>2, <1>4 DEF Syncs, Pending
  <2>2. CASE r.at = "set"
    <3>1. Pending(r)
      BY <1>4, <2>2 DEF Pending
    <3> QED
      BY <1>0, <1>4, <1>6, <2>1, <3>1, SyncElsewhere
  <2>3. CASE r.at = "idle"
    <3>1. ASSUME NEW m \in Names, IsConnected(m)' PROVE m \in lost' \/ IsConnected(m)
      <4>1. table[m] \in Clients /\ OwnClient(m)
        BY <1>0, <1>2, <3>1, ClientNumbers DEF IsConnected, AccountTypes, ClientsInv
      <4>2. CASE table[m] = c
        <5>1. m = n
          BY <1>2, <4>1, <4>2 DEF OwnClient
        <5> QED
          BY <1>2, <1>4, <1>5, <2>3, <3>1, <4>2, <5>1 DEF IsConnected
      <4>3. CASE table[m] # c
        BY <1>2, <1>5, <3>1, <4>1, <4>3 DEF IsConnected
      <4> QED
        BY <4>2, <4>3
    <3>2. /\ UNCHANGED <<tgSettings, mirror>> /\ lost \subseteq lost' /\ asked \subseteq asked'
          /\ \A m \in Names :
               /\ IsConnected(m)' => m \in lost' \/ (IsConnected(m) /\ table'[m] = table[m])
               /\ table[m] # NoClient => table'[m] # NoClient
               /\ table'[m] # NoClient => table[m] # NoClient \/ m \in asked'
      BY <1>2, <1>6, <3>1
    <3> QED
      BY <1>0, <1>4, <1>6, <2>1, <3>2, SyncElsewhere
  <2> QED
    BY <1>4, <2>2, <2>3
<1> QED
  BY <1>10, <1>11, <1>12 DEF AccountsInv

LEMMA DisconnectedKeeps ==
  ASSUME AccountsInv, NEW t \in Workers, NEW n \in Names, Disconnected(t, n)
  PROVE  AccountsInv'
<1>1. /\ AccountTypes /\ ClientsInv /\ FileInv /\ SyncInv
      /\ job[t] \in Jobs /\ JobGoes(job[t])
      /\ tgSettings \in TgSettings /\ config \in TgSettings /\ tmpText \subseteq TgSettings
      /\ built \in Nat /\ mirror \in 0..built /\ table \in [Names -> 0..built]
      /\ built <= MaxClients
      /\ tgclient \in [Clients -> TgClients] /\ sessionFiles \subseteq Names
  BY TypesAndJob
<1>2. /\ job[t].at = "idle" /\ table[n] # NoClient
      /\ UNCHANGED <<tgSettings, fileVars, table, mirror, built, sessionFiles, asked, lost,
                     orphaned, syncsMet, job>>
      /\ tgclient' = [tgclient EXCEPT ![table[n]].state = "disconnected"]
  BY NoJobIs DEF Disconnected
<1>3. PICK c \in 0..MaxClients : c = table[n] /\ c \in Clients
  <2>1. table[n] \in 0..built
    BY <1>1
  <2> QED
    BY <1>1, <1>2, <2>1, ClientNumbers
<1>4. /\ tgclient' \in [Clients -> TgClients] /\ tgclient'[c].state = "disconnected"
      /\ \A d \in Clients : tgclient'[d].of = tgclient[d].of
      /\ \A d \in Clients : d # c => tgclient'[d].state = tgclient[d].state
  BY <1>1, <1>2, <1>3, StateChanges, LoginStatesAre
<1>5. PICK r \in Jobs : r = job[t] /\ job' = [job EXCEPT ![t] = r]
  BY <1>1, <1>2 DEF AccountTypes
<1>6. ClientsInv'
  <2>1. InPlace(c)'
    BY <1>1, <1>2, <1>3, <1>4 DEF InPlace, ClientsInv, OwnClient
  <2>2. /\ r.at # "login" /\ UNCHANGED <<table, built>> /\ orphaned \subseteq orphaned'
        /\ tgSettings' \in TgSettings /\ config' \in TgSettings /\ tmpText' \subseteq TgSettings
        /\ mirror' \in 0..built /\ sessionFiles' \subseteq Names /\ JobGoes(r)
        /\ \A d \in Clients : d # c => ~Holds(job[t], d)
    BY <1>1, <1>2, <1>5 DEF fileVars, Holds
  <2>3. \A d \in Clients : d # c /\ tgclient'[d].state = "connected" =>
                             tgclient[d].state = "connected"
    BY <1>4
  <2> QED
    BY <1>1, <1>3, <1>4, <1>5, <2>1, <2>2, <2>3, TableKeeps
<1>7. FileInv'
  <2>1. job[t].at \notin {"dump", "write", "replace"} /\ r.at \notin {"write", "replace"}
        /\ tgSettings' = tgSettings /\ UNCHANGED fileVars
    BY <1>2, <1>5
  <2> QED
    BY <1>1, <1>5, <2>1, FileElsewhere
<1>8. SyncInv'
  <2>1. ~Syncs(job[t]) /\ ~Syncs(r) /\ ~Pending(job[t]) /\ syncsMet' = syncsMet
    BY <1>2, <1>5 DEF Syncs, Pending
  <2>2. ASSUME NEW m \in Names, IsConnected(m)' PROVE IsConnected(m)
    <3>1. table[m] \in Clients /\ table[m] # c
      BY <1>1, <1>2, <1>3, <1>4, <2>2, ClientNumbers DEF IsConnected
    <3> QED
      BY <1>2, <1>4, <2>2, <3>1 DEF IsConnected
  <2>3. /\ UNCHANGED <<tgSettings, mirror>> /\ lost \subseteq lost' /\ asked \subseteq asked'
        /\ \A m \in Names :
             /\ IsConnected(m)' => m \in lost' \/ (IsConnected(m) /\ table'[m] = table[m])
             /\ table[m] # NoClient => table'[m] # NoClient
             /\ table'[m] # NoClient => table[m] # NoClient \/ m \in asked'
    BY <1>2, <2>2
  <2> QED
    BY <1>1, <1>5, <2>1, <2>3, SyncElsewhere
<1> QED
  BY <1>6, <1>7, <1>8 DEF AccountsInv

-----------------------------------------------------------------------------
(* New clients. *)

LEMMA FreshFor ==
  ASSUME NEW n \in Names PROVE [of |-> n, state |-> "disconnected"] \in TgClients
  BY LoginStatesAre DEF TgClients

\* A thread puts a new client in the place of its account.
LEMMA NewClientKeeps ==
  ASSUME AccountsInv, NEW t \in Workers, NEW r \in Jobs, job' = [job EXCEPT ![t] = r],
         NEW n \in Names, n = job[t].name, PutNew(t), JobGoes(r), job[t].at \in {"make", "put"}, r.at \in {"take", "create"}
  PROVE  /\ ClientsInv' /\ FileInv'
         /\ table'[n] # NoClient /\ ~IsConnected(n)'
         /\ \A m \in Names : m # n =>
              table'[m] = table[m] /\ (IsConnected(m)' <=> IsConnected(m))
         /\ UNCHANGED <<tgSettings, mirror, lost, syncsMet>>
<1> DEFINE b == built + 1
<1>1. /\ AccountTypes /\ ClientsInv /\ FileInv
      /\ tgSettings \in TgSettings /\ config \in TgSettings /\ tmpText \subseteq TgSettings
      /\ built \in Nat /\ mirror \in 0..built /\ table \in [Names -> 0..built]
      /\ tgclient \in [Clients -> TgClients] /\ sessionFiles \subseteq Names
  BY TypesAndJob
<1>2. /\ built < MaxClients /\ built' = b /\ table' = [table EXCEPT ![n] = b]
      /\ tgclient' = [tgclient EXCEPT ![b] = [of |-> n, state |-> "disconnected"]]
      /\ orphaned' = orphaned \cup
           {c \in {table[n]} \ {NoClient} : tgclient[c].state = "connected" \/ LoginIn(c)}
      /\ UNCHANGED <<tgSettings, fileVars, mirror, sessionFiles, lost, syncsMet>>
  BY DEF PutNew
<1>3. b \in Clients /\ b \in Nat /\ b # NoClient /\ b <= MaxClients
  BY <1>1, <1>2, ClientNumbers
<1>4. /\ job' \in [Workers -> Jobs] /\ job'[t] = r
      /\ \A u \in Workers : u # t => job'[u] = job[u]
      /\ \A d \in Clients : LoginIn(d)' => LoginIn(d)
  BY <1>1, OneGoes
<1>5. /\ tgclient' \in [Clients -> TgClients]
      /\ tgclient'[b].of = n /\ tgclient'[b].state = "disconnected"
      /\ \A d \in Clients : d # b => tgclient'[d] = tgclient[d]
  <2>1. PICK new \in TgClients : new = [of |-> n, state |-> "disconnected"]
                                 /\ new.of = n /\ new.state = "disconnected"
    BY <1>1, FreshFor
  <2>2. tgclient' = [tgclient EXCEPT ![b] = new]
    BY <1>2, <2>1
  <2> HIDE DEF b
  <2> QED
    BY <1>1, <1>3, <2>1, <2>2
<1>6. /\ table'[n] = b /\ \A m \in Names : m # n => table'[m] = table[m]
      /\ table' \in [Names -> 0..b]
  BY <1>1, <1>2, <1>3
<1>7. \A m \in Names : table[m] # NoClient => table[m] \in Clients /\ table[m] # b
  BY <1>1, <1>2, ClientNumbers
<1> HIDE DEF b
<1>8. AccountTypes'
  <2>1. mirror' \in 0..b
    BY <1>1, <1>2 DEF b
  <2> QED
    BY <1>1, <1>2, <1>3, <1>4, <1>5, <1>6, <2>1 DEF AccountTypes, fileVars
<1>9. ASSUME NEW j \in Jobs, JobGoes(j) PROVE JobGoes(j)'
  <2>1. j.client \in 0..MaxClients /\ j.client <= built
    BY <1>9, JobFields DEF JobGoes
  <2>2. j.client # b /\ j.client <= built' /\ (j.client # NoClient => j.client \in Clients)
    BY <1>1, <1>2, <2>1, ClientNumbers DEF b
  <2> QED
    BY <1>5, <1>9, <2>2 DEF JobGoes
<1>10. ASSUME NEW u \in Workers PROVE JobGoes(job[u])'
  <2>1. job[u] \in Jobs /\ JobGoes(job[u])
    BY <1>1 DEF AccountTypes, ClientsInv
  <2>2. PICK j \in Jobs : JobGoes(j) /\ job'[u] = j
    BY <1>4, <2>1
  <2>3. JobGoes(j)'
    BY <1>9, <2>2
  <2> QED
    BY <2>2, <2>3
<1>11. ASSUME NEW m \in Names PROVE OwnClient(m)'
  BY <1>1, <1>3, <1>5, <1>6, <1>7 DEF OwnClient, ClientsInv
<1>12. ASSUME NEW d \in Clients PROVE InPlace(d)'
  <2>1. CASE d = b
    BY <1>5, <1>6, <2>1 DEF InPlace
  <2>2. CASE d # b
    <3>0. tgclient'[d] = tgclient[d] /\ InPlace(d) /\ tgclient[d].of \in Names /\ d # NoClient
      BY <1>1, <1>5, <2>2, ClientNumbers DEF ClientsInv, TgClients
    <3>1. CASE d = table[tgclient[d].of] /\ tgclient[d].of # n
      BY <1>6, <3>0, <3>1 DEF InPlace
    <3>2. CASE d = table[tgclient[d].of] /\ tgclient[d].of = n
      <4>1. CASE tgclient[d].state = "connected" \/ LoginIn(d)
        BY <1>2, <3>0, <3>2, <4>1 DEF InPlace
      <4>2. CASE ~(tgclient[d].state = "connected" \/ LoginIn(d))
        BY <1>4, <3>0, <4>2 DEF InPlace
      <4> QED
        BY <4>1, <4>2
    <3>3. CASE d \in orphaned
      BY <1>2, <3>3 DEF InPlace
    <3>4. ASSUME NEW u \in Workers, Holds(job[u], d) PROVE InPlace(d)'
      <4>1. u # t
        BY <3>4 DEF Holds
      <4> QED
        BY <1>4, <3>4, <4>1 DEF InPlace
    <3>5. CASE tgclient[d].state # "connected" /\ ~LoginIn(d)
      BY <1>4, <3>0, <3>5 DEF InPlace
    <3> QED
      BY <3>0, <3>1, <3>2, <3>3, <3>4, <3>5 DEF InPlace
  <2> QED
    BY <2>1, <2>2
<1>13. FileInv'
  <2>1. job[t].at \notin {"dump", "write", "replace"} /\ r.at \notin {"write", "replace"}
        /\ tgSettings' = tgSettings /\ UNCHANGED fileVars
    BY <1>2
  <2> QED
    BY <1>1, <2>1, FileElsewhere
<1>14. table'[n] # NoClient /\ ~IsConnected(n)'
  BY <1>3, <1>5, <1>6 DEF IsConnected
<1>15. ASSUME NEW m \in Names, m # n
       PROVE  table'[m] = table[m] /\ (IsConnected(m)' <=> IsConnected(m))
  BY <1>5, <1>6, <1>7, <1>15 DEF IsConnected
<1> QED
  BY <1>2, <1>8, <1>10, <1>11, <1>12, <1>13, <1>14, <1>15 DEF ClientsInv

LEMMA MakeClientKeeps ==
  ASSUME AccountsInv, NEW t \in Workers, MakeClient(t)
  PROVE  AccountsInv'
<1>1. /\ AccountTypes /\ SyncInv /\ job[t] \in Jobs /\ JobGoes(job[t]) /\ job[t].name \in Names
      /\ built \in Nat
  BY TypesAndJob
<1>2. /\ job[t].at = "make" /\ PutNew(t) /\ asked' = asked \cup {job[t].name}
  BY DEF MakeClient
<1>3. PICK r : r = At(job[t], "take") /\ job' = [job EXCEPT ![t] = r]
  BY DEF MakeClient, At
<1>4. r \in Jobs /\ r.at = "take" /\ r.client = NoClient
  <2>1. "take" \in Places
    BY DEF Places
  <2>2. job[t].client = NoClient
    BY <1>1, <1>2 DEF JobGoes
  <2> QED
    BY <1>1, <1>3, <2>1, <2>2, AtIs
<1>5. JobGoes(r)
  BY <1>1, <1>4, ClientNumbers DEF JobGoes
<1>0. PICK n \in Names : n = job[t].name
  BY <1>1
<1>6. /\ ClientsInv' /\ FileInv'
      /\ table'[n] # NoClient /\ ~IsConnected(n)'
      /\ \A m \in Names : m # n =>
           table'[m] = table[m] /\ (IsConnected(m)' <=> IsConnected(m))
      /\ UNCHANGED <<tgSettings, mirror, lost, syncsMet>>
  <2>1. job[t].at \in {"make", "put"} /\ r.at \in {"take", "create"}
    BY <1>2, <1>4
  <2> QED
    BY <1>0, <1>2, <1>3, <1>4, <1>5, <2>1, NewClientKeeps
<1>7. SyncInv'
  <2>1. ~Syncs(job[t]) /\ ~Syncs(r) /\ ~Pending(job[t])
    BY <1>2, <1>4 DEF Syncs, Pending
  <2>2. /\ UNCHANGED <<tgSettings, mirror>> /\ lost \subseteq lost' /\ asked \subseteq asked'
        /\ \A m \in Names :
             /\ IsConnected(m)' => m \in lost' \/ (IsConnected(m) /\ table'[m] = table[m])
             /\ table[m] # NoClient => table'[m] # NoClient
             /\ table'[m] # NoClient => table[m] # NoClient \/ m \in asked'
    BY <1>0, <1>2, <1>6
  <2>3. syncsMet' = syncsMet /\ job' = [job EXCEPT ![t] = r]
    BY <1>3, <1>6
  <2> QED
    BY <1>1, <1>4, <2>1, <2>2, <2>3, SyncElsewhere
<1> QED
  BY <1>6, <1>7 DEF AccountsInv

LEMMA CreateClientKeeps ==
  ASSUME AccountsInv, NEW t \in Workers, CreateClient(t)
  PROVE  AccountsInv'
<1>1. /\ AccountTypes /\ SyncInv /\ job[t] \in Jobs /\ JobGoes(job[t]) /\ job[t].name \in Names
      /\ built \in Nat
  BY TypesAndJob
<1>2. job[t].at = "put" /\ PutNew(t) /\ asked' = asked
  BY DEF CreateClient
<1>3. PICK r : r = At(job[t], "create") /\ job' = [job EXCEPT ![t] = r]
  BY DEF CreateClient, At
<1>4. /\ r \in Jobs /\ r.at = "create" /\ r.client = NoClient /\ r.seen = job[t].seen
      /\ r.todo = job[t].todo
  <2>1. "create" \in Places
    BY DEF Places
  <2>2. job[t].client = NoClient
    BY <1>1, <1>2 DEF JobGoes
  <2> QED
    BY <1>1, <1>3, <2>1, <2>2, AtIs
<1>5. JobGoes(r)
  BY <1>1, <1>4, ClientNumbers DEF JobGoes
<1>0. PICK n \in Names : n = job[t].name
  BY <1>1
<1>6. /\ ClientsInv' /\ FileInv'
      /\ table'[n] # NoClient /\ ~IsConnected(n)'
      /\ \A m \in Names : m # n =>
           table'[m] = table[m] /\ (IsConnected(m)' <=> IsConnected(m))
      /\ UNCHANGED <<tgSettings, mirror, lost, syncsMet>>
  <2>1. job[t].at \in {"make", "put"} /\ r.at \in {"take", "create"}
    BY <1>2, <1>4
  <2> QED
    BY <1>0, <1>2, <1>3, <1>4, <1>5, <2>1, NewClientKeeps
<1>7. ASSUME SyncGoes(job[t]) PROVE SyncGoes(r)'
  <2>1. PICK j : j = job[t] /\ j.name = n
    BY <1>0
  <2>2. /\ j.seen = tgSettings /\ j.at = "put" /\ ~Dropping(j) /\ ~Dropping(r)
        /\ Left(j) = {} /\ Left(r) = {} /\ j.name \in Desired(tgSettings)
        /\ j.todo \subseteq Desired(tgSettings) /\ Desired(tgSettings)' = Desired(tgSettings)
    BY <1>2, <1>4, <1>6, <1>7, <2>1 DEF SyncGoes, Dropping, Left, Desired
  <2>3. \A m \in Names :
         /\ table[m] # NoClient => m \in Desired(tgSettings) \cup asked
         /\ IsConnected(m) => m \in Desired(tgSettings) \cup lost
         /\ m \in Desired(tgSettings) /\ tgSettings.acc[m].cred =>
              table[m] # NoClient \/ m \in j.todo \/ m = j.name
    BY <1>7, <2>1, <2>2 DEF SyncGoes
  <2>4. \A m \in Names :
         /\ table'[m] # NoClient => m \in Desired(tgSettings) \cup asked
         /\ IsConnected(m)' => m \in Desired(tgSettings) \cup lost
         /\ m \in Desired(tgSettings) /\ tgSettings.acc[m].cred =>
              table'[m] # NoClient \/ m \in r.todo
    BY <1>4, <1>6, <2>1, <2>2, <2>3
  <2> QED
    BY <1>2, <1>4, <1>6, <2>1, <2>2, <2>4 DEF SyncGoes
<1>8. SyncInv'
  <2>1. Syncs(job[t]) /\ Syncs(r) /\ syncsMet' = syncsMet
    BY <1>2, <1>4, <1>6 DEF Syncs
  <2> QED
    BY <1>1, <1>3, <1>4, <1>7, <2>1, SyncGoesOn
<1> QED
  BY <1>6, <1>8 DEF AccountsInv

-----------------------------------------------------------------------------
(* Synchronising. *)

\* A step of a sync that leaves the clients and the settings alone, but for
\* the accessor.
LEMMA SyncStays ==
  ASSUME AccountsInv, NEW t \in Workers, NEW r \in Jobs, job' = [job EXCEPT ![t] = r],
         job[t].at \in {"sync", "drop", "create"}, r.at \in {"idle", "drop", "create", "put"},
         r.client = NoClient,
         UNCHANGED <<tgSettings, fileVars, table, built, tgclient, sessionFiles, orphaned>>,
         mirror' \in 0..built
  PROVE  ClientsInv' /\ FileInv'
<1>1. /\ AccountTypes /\ ClientsInv /\ FileInv
      /\ tgSettings \in TgSettings /\ config \in TgSettings /\ tmpText \subseteq TgSettings
      /\ built \in Nat
  BY TypesAndJob
<1>2. ClientsInv'
  <2>1. /\ job[t].at \notin {"remove", "disconnect"} /\ r.at # "login"
        /\ tgSettings' \in TgSettings /\ config' \in TgSettings /\ tmpText' \subseteq TgSettings
    BY <1>1 DEF fileVars
  <2>2. JobGoes(r)
    BY <1>1, ClientNumbers DEF JobGoes
  <2> QED
    BY <1>1, <2>1, <2>2, TableStays
<1>3. FileInv'
  <2>1. job[t].at \notin {"dump", "write", "replace"} /\ r.at \notin {"write", "replace"}
    OBVIOUS
  <2> QED
    BY <1>1, <2>1, FileElsewhere
<1> QED
  BY <1>2, <1>3

LEMMA BeginSyncKeeps ==
  ASSUME AccountsInv, NEW t \in Workers, BeginSync(t)
  PROVE  AccountsInv'
<1>1. /\ AccountTypes /\ job[t] \in Jobs /\ JobGoes(job[t]) /\ tgSettings \in TgSettings
      /\ mirror \in 0..built
  BY TypesAndJob
<1>2. /\ job[t].at = "sync"
      /\ UNCHANGED <<tgSettings, fileVars, table, mirror, built, tgclient, sessionFiles, lost,
                     orphaned>>
      /\ syncsMet' = \E u \in Workers \ {t} : Syncing(u)
  BY DEF BeginSync
<1>3. PICK r : /\ r = AtSeenTodo(job[t], "drop", tgSettings, Superfluous(tgSettings))
               /\ job' = [job EXCEPT ![t] = r]
  BY DEF BeginSync, AtSeenTodo
<1>4. /\ r \in Jobs /\ r.at = "drop" /\ r.client = NoClient /\ r.seen = tgSettings
      /\ r.todo = Superfluous(tgSettings)
  <2>1. "drop" \in Places /\ Superfluous(tgSettings) \in SUBSET Names
    BY DEF Places, Superfluous
  <2>2. job[t].client = NoClient
    BY <1>1, <1>2 DEF JobGoes
  <2> QED
    BY <1>1, <1>3, <2>1, <2>2, AtSeenTodoIs
<1>5. ClientsInv' /\ FileInv'
  <2>1. job[t].at \in {"sync", "drop", "create"} /\ r.at \in {"idle", "drop", "create", "put"}
        /\ mirror' \in 0..built
    BY <1>1, <1>2, <1>4
  <2> QED
    BY <1>2, <1>3, <1>4, <2>1, SyncStays
<1>6. /\ job'[t] = r /\ \A u \in Workers : u # t => job'[u] = job[u]
  BY <1>1, <1>3, <1>4, OneGoes
<1>7. SyncGoes(r)'
  <2>1. Dropping(r) /\ Left(r) = Superfluous(tgSettings) /\ r.at # "put"
    BY <1>4 DEF Dropping, Left
  <2>2. \A n \in Names :
          /\ table[n] # NoClient => n \in Desired(tgSettings) \cup Superfluous(tgSettings)
          /\ n \in Superfluous(tgSettings) => table[n] # NoClient
    BY DEF Superfluous
  <2>3. Desired(tgSettings)' = Desired(tgSettings) /\ Left(r)' = Left(r)
        /\ Dropping(r)' = Dropping(r)
        /\ \A n \in Names : IsConnected(n)' => table[n] # NoClient
    BY <1>2 DEF Desired, IsConnected, Left, Dropping
  <2> HIDE DEF Superfluous
  <2> QED
    BY <1>2, <1>4, <2>1, <2>2, <2>3 DEF SyncGoes
<1>8. SyncInv'
  <2> SUFFICES ASSUME ~syncsMet' PROVE
        /\ \A u, v \in Workers : Syncs(job'[u]) /\ Syncs(job'[v]) => u = v
        /\ NonePending' => \A u \in Workers : Syncs(job'[u]) => SyncGoes(job[u])'
        /\ NonePending' /\ (\A u \in Workers : ~Syncs(job'[u])) => \A n \in Names : Agrees(n)'
    BY DEF SyncInv
  <2>1. \A u \in Workers : u # t => ~Syncs(job'[u])
    BY <1>2, <1>6 DEF Syncing, Syncs
  <2>2. Syncs(job'[t])
    BY <1>4, <1>6 DEF Syncs
  <2>3. SyncGoes(job[t])'
    BY <1>6, <1>7
  <2> QED
    BY <2>1, <2>2, <2>3
<1> QED
  BY <1>5, <1>8 DEF AccountsInv

LEMMA TakeOutKeeps ==
  ASSUME AccountsInv, NEW t \in Workers, TakeOut(t)
  PROVE  AccountsInv'
<1>1. /\ AccountTypes /\ ClientsInv /\ FileInv /\ SyncInv /\ job[t] \in Jobs /\ JobGoes(job[t])
      /\ table \in [Names -> 0..built] /\ built \in Nat /\ built <= MaxClients
      /\ mirror \in 0..built
  BY TypesAndJob
<1>2. /\ job[t].at = "drop"
      /\ UNCHANGED <<tgSettings, fileVars, mirror, built, tgclient, sessionFiles, asked, lost,
                     orphaned, syncsMet>>
  BY DEF TakeOut
<1>3. PICK n \in Names :
        /\ n \in job[t].todo
        /\ \/ table[n] = NoClient /\ job' = [job EXCEPT ![t] = NoJob] /\ table' = table
           \/ /\ table[n] # NoClient /\ table' = [table EXCEPT ![n] = NoClient]
              /\ job' = [job EXCEPT ![t] =
                           AtClientTodoName(job[t], "disconnect", table[n], job[t].todo \ {n}, n)]
  <2>1. job[t].todo \subseteq Names
    BY <1>1, JobFields
  <2> QED
    BY <2>1 DEF TakeOut, AtClientTodoName
<1>4. CASE table[n] = NoClient /\ job' = [job EXCEPT ![t] = NoJob] /\ table' = table
  <2>1. PICK r \in Jobs : r = NoJob /\ r.at = "idle" /\ r.client = NoClient
                          /\ job' = [job EXCEPT ![t] = r]
    BY <1>4, NoJobIs
  <2>2. ClientsInv' /\ FileInv'
    <3>1. job[t].at \in {"sync", "drop", "create"} /\ r.at \in {"idle", "drop", "create", "put"}
          /\ mirror' \in 0..built
      BY <1>1, <1>2, <2>1
    <3>2. UNCHANGED <<tgSettings, fileVars, table, built, tgclient, sessionFiles, orphaned>>
      BY <1>2, <1>4
    <3> QED
      BY <2>1, <3>1, <3>2, SyncStays
  <2>3. /\ job'[t] = r /\ \A u \in Workers : u # t => job'[u] = job[u]
    BY <1>1, <2>1, OneGoes
  <2>4. SyncInv'
    <3> SUFFICES ASSUME ~syncsMet PROVE
          /\ \A u, v \in Workers : Syncs(job'[u]) /\ Syncs(job'[v]) => u = v
          /\ NonePending' => FALSE
      BY <1>2 DEF SyncInv
    <3>1. Syncs(job[t]) /\ ~Pending(job[t]) /\ ~Syncs(r) /\ Dropping(job[t])
      BY <1>2, <2>1 DEF Syncs, Pending, Dropping
    <3>2. \A u, v \in Workers : Syncs(job'[u]) /\ Syncs(job'[v]) => u = v
      BY <1>1, <2>3, <3>1 DEF SyncInv
    <3>3. ASSUME NonePending' PROVE FALSE
      <4>1. NonePending
        BY <2>3, <3>1, <3>3 DEF NonePending
      <4>2. SyncGoes(job[t])
        BY <1>1, <3>1, <4>1 DEF SyncInv
      <4> QED
        BY <1>3, <1>4, <3>1, <4>2 DEF SyncGoes, Left
    <3> QED
      BY <3>2, <3>3
  <2> QED
    BY <2>2, <2>4 DEF AccountsInv
<1>5. CASE /\ table[n] # NoClient /\ table' = [table EXCEPT ![n] = NoClient]
           /\ job' = [job EXCEPT ![t] =
                        AtClientTodoName(job[t], "disconnect", table[n], job[t].todo \ {n}, n)]
  <2>1. PICK c \in 0..MaxClients, d \in SUBSET Names : c = table[n] /\ d = job[t].todo \ {n}
                                                       /\ c <= built
    <3>0. table[n] \in 0..built
      BY <1>1
    <3>1. table[n] \in 0..MaxClients /\ table[n] <= built
      BY <1>1, <3>0, ClientNumbers
    <3>2. job[t].todo \subseteq Names
      BY <1>1, JobFields
    <3> QED
      BY <3>1, <3>2
  <2>2. PICK r : r = AtClientTodoName(job[t], "disconnect", c, d, n)
                 /\ job' = [job EXCEPT ![t] = r]
    BY <1>5, <2>1
  <2>3. /\ r \in Jobs /\ r.at = "disconnect" /\ r.client = c /\ r.name = n /\ r.todo = d
        /\ r.seen = job[t].seen
    <3>1. "disconnect" \in Places
      BY DEF Places
    <3> QED
      BY <1>1, <2>2, <3>1, AtClientTodoNameIs
  <2>4. JobGoes(r)
    <3>1. tgclient[c].of = n /\ c # NoClient
      BY <1>1, <1>5, <2>1 DEF ClientsInv, OwnClient
    <3> QED
      BY <2>1, <2>3, <3>1 DEF JobGoes
  <2>5. ClientsInv'
    <3>1. /\ r.at \in {"remove", "disconnect"} /\ r.client = table[n]
          /\ job[t].at \notin {"remove", "disconnect"}
          /\ UNCHANGED <<tgSettings, config, tmpText, mirror, built, tgclient, sessionFiles, orphaned>>
          /\ table' = [table EXCEPT ![n] = NoClient] /\ job' = [job EXCEPT ![t] = r]
      BY <1>2, <1>5, <2>1, <2>2, <2>3 DEF fileVars
    <3> QED
      BY <1>1, <2>3, <2>4, <3>1, TakenKeeps
  <2>6. FileInv'
    <3>1. job[t].at \notin {"dump", "write", "replace"} /\ r.at \notin {"write", "replace"}
          /\ tgSettings' = tgSettings /\ UNCHANGED fileVars
      BY <1>2, <2>3
    <3> QED
      BY <1>1, <2>2, <2>3, <3>1, FileElsewhere
  <2>7. ASSUME SyncGoes(job[t]) PROVE SyncGoes(r)'
    <3>1. PICK j : j = job[t]
      OBVIOUS
    <3>2. /\ Dropping(j) /\ Dropping(r) /\ Left(j) = j.todo /\ Left(r) = j.todo \ {n}
          /\ j.seen = tgSettings /\ r.seen = tgSettings /\ r.at # "put"
      BY <1>2, <2>1, <2>3, <2>7, <3>1 DEF Dropping, Left, SyncGoes
    <3>3. \A m \in Names :
            /\ table[m] # NoClient => m \in Desired(tgSettings) \cup asked \cup j.todo
            /\ IsConnected(m) => m \in Desired(tgSettings) \cup lost \cup j.todo
            /\ m \in j.todo => table[m] # NoClient
      BY <2>7, <3>1, <3>2 DEF SyncGoes
    <3>4. /\ table'[n] = NoClient /\ \A m \in Names : m # n => table'[m] = table[m]
      BY <1>1, <1>5, ClientNumbers
    <3>5. \A m \in Names : IsConnected(m)' => IsConnected(m) /\ m # n
      BY <1>2, <3>4 DEF IsConnected
    <3>6. \A m \in Names :
            /\ table'[m] # NoClient => m \in Desired(tgSettings) \cup asked \cup (j.todo \ {n})
            /\ IsConnected(m)' => m \in Desired(tgSettings) \cup lost \cup (j.todo \ {n})
            /\ m \in j.todo \ {n} => table'[m] # NoClient
      BY <3>3, <3>4, <3>5
    <3>7. Desired(tgSettings)' = Desired(tgSettings) /\ Left(r)' = Left(r) /\ Dropping(r)' = Dropping(r)
      BY <1>2 DEF Desired, Left, Dropping
    <3> QED
      BY <1>2, <3>2, <3>6, <3>7 DEF SyncGoes
  <2>8. SyncInv'
    <3>1. Syncs(job[t]) /\ Syncs(r) /\ syncsMet' = syncsMet
      BY <1>2, <2>3 DEF Syncs
    <3> QED
      BY <1>1, <2>2, <2>3, <2>7, <3>1, SyncGoesOn
  <2> QED
    BY <2>5, <2>6, <2>8 DEF AccountsInv
<1> QED
  BY <1>3, <1>4, <1>5

LEMMA DropClientKeeps ==
  ASSUME AccountsInv, NEW t \in Workers, DropClient(t)
  PROVE  AccountsInv'
<1>1. /\ AccountTypes /\ ClientsInv /\ FileInv /\ SyncInv
      /\ job[t] \in Jobs /\ JobGoes(job[t]) /\ job[t].client \in 0..MaxClients
      /\ tgSettings \in TgSettings /\ config \in TgSettings /\ tmpText \subseteq TgSettings
      /\ built \in Nat /\ mirror \in 0..built
      /\ tgclient \in [Clients -> TgClients] /\ sessionFiles \subseteq Names
  BY TypesAndJob
<1>2. PICK r : r = AtClient(job[t], "drop", NoClient) /\ job' = [job EXCEPT ![t] = r]
  BY DEF DropClient, AtClient
<1>3. /\ r \in Jobs /\ r.at = "drop" /\ r.client = NoClient /\ r.seen = job[t].seen
      /\ r.todo = job[t].todo
  <2>1. "drop" \in Places /\ NoClient \in 0..MaxClients
    BY ClientNumbers DEF Places
  <2> QED
    BY <1>1, <1>2, <2>1, AtClientIs
<1>4. /\ job[t].at = "disconnect"
      /\ UNCHANGED <<tgSettings, fileVars, table, mirror, built, sessionFiles, asked, lost, syncsMet>>
  BY DEF DropClient
<1>5. PICK c \in Clients : c = job[t].client
  BY <1>1, <1>4, ClientNumbers DEF JobGoes
<1>6. /\ tgclient' \in [Clients -> TgClients]
      /\ \A d \in Clients : tgclient'[d].of = tgclient[d].of
      /\ \A d \in Clients : tgclient'[d].state = "connected" => tgclient[d].state = "connected"
      /\ orphaned \subseteq orphaned'
      /\ c \in orphaned' \/ (tgclient'[c].state # "connected" /\ ~LoginIn(c))
  <2>1. CASE tgclient[c].state = "connected"
    <3>1. tgclient' = [tgclient EXCEPT ![c].state = "disconnected"] /\ ~LoginIn(c)
          /\ orphaned' = orphaned
      BY <1>5, <2>1 DEF DropClient
    <3>2. /\ tgclient' \in [Clients -> TgClients] /\ tgclient'[c].state = "disconnected"
          /\ \A d \in Clients : tgclient'[d].of = tgclient[d].of
          /\ \A d \in Clients : d # c => tgclient'[d].state = tgclient[d].state
      BY <1>1, <3>1, StateChanges, LoginStatesAre
    <3> QED
      BY <2>1, <3>1, <3>2
  <2>2. CASE tgclient[c].state # "connected"
    <3>1. tgclient' = tgclient /\ orphaned' = IF LoginIn(c) THEN orphaned \cup {c} ELSE orphaned
      BY <1>5, <2>2 DEF DropClient
    <3> QED
      BY <1>1, <2>2, <3>1
  <2> QED
    BY <2>1, <2>2
<1>7. JobGoes(r)
  BY <1>1, <1>3, ClientNumbers DEF JobGoes
<1>8. InPlace(c)'
  <2>1. LoginIn(c)' => LoginIn(c)
    BY <1>1, <1>2, <1>3, OneGoes
  <2> QED
    BY <1>6, <2>1 DEF InPlace
<1>9. ClientsInv'
  <2>1. /\ r.at # "login" /\ UNCHANGED <<table, built>> /\ c \in 0..MaxClients
        /\ tgSettings' \in TgSettings /\ config' \in TgSettings /\ tmpText' \subseteq TgSettings
        /\ mirror' \in 0..built /\ sessionFiles' \subseteq Names
        /\ \A d \in Clients : d # c => ~Holds(job[t], d)
    BY <1>1, <1>3, <1>4, <1>5 DEF fileVars, Holds
  <2> QED
    BY <1>1, <1>2, <1>3, <1>6, <1>7, <1>8, <2>1, TableKeeps
<1>10. FileInv'
  <2>1. job[t].at \notin {"dump", "write", "replace"} /\ r.at \notin {"write", "replace"}
        /\ tgSettings' = tgSettings /\ UNCHANGED fileVars
    BY <1>3, <1>4
  <2> QED
    BY <1>1, <1>2, <1>3, <2>1, FileElsewhere
<1>11. ASSUME SyncGoes(job[t]) PROVE SyncGoes(r)'
  <2>1. PICK j : j = job[t]
    OBVIOUS
  <2>2. /\ Dropping(j) /\ Dropping(r) /\ Left(j) = j.todo /\ Left(r) = j.todo
        /\ j.seen = tgSettings /\ r.seen = tgSettings /\ r.at # "put"
    BY <1>3, <1>4, <1>11, <2>1 DEF Dropping, Left, SyncGoes
  <2>3. \A m \in Names :
          /\ table[m] # NoClient => m \in Desired(tgSettings) \cup asked \cup j.todo
          /\ IsConnected(m) => m \in Desired(tgSettings) \cup lost \cup j.todo
          /\ m \in j.todo => table[m] # NoClient
    BY <1>11, <2>1, <2>2 DEF SyncGoes
  <2>4. \A m \in Names : IsConnected(m)' => IsConnected(m)
    <3>1. \A m \in Names : table[m] # NoClient => table[m] \in Clients
      BY <1>1, ClientNumbers DEF AccountTypes
    <3> QED
      BY <1>4, <1>6, <3>1 DEF IsConnected
  <2>5. Desired(tgSettings)' = Desired(tgSettings) /\ Left(r)' = Left(r) /\ Dropping(r)' = Dropping(r)
    BY <1>4 DEF Desired, Left, Dropping
  <2> QED
    BY <1>4, <2>2, <2>3, <2>4, <2>5 DEF SyncGoes
<1>12. SyncInv'
  <2>1. Syncs(job[t]) /\ Syncs(r) /\ syncsMet' = syncsMet
    BY <1>3, <1>4 DEF Syncs
  <2> QED
    BY <1>1, <1>2, <1>3, <1>11, <2>1, SyncGoesOn
<1> QED
  BY <1>9, <1>10, <1>12 DEF AccountsInv

\* A step of a sync that looks at the clients.
LEMMA SyncLooks ==
  ASSUME AccountsInv, NEW t \in Workers, NEW r \in Jobs, job' = [job EXCEPT ![t] = r],
         job[t].at \in {"drop", "create"}, r.at \in {"create", "put"}, r.client = NoClient,
         UNCHANGED <<tgSettings, fileVars, clientVars, syncsMet>>,
         SyncGoes(job[t]) => SyncGoes(r)
  PROVE  AccountsInv'
<1>1. AccountTypes /\ SyncInv /\ mirror \in 0..built
  BY TypesAndJob
<1>2. UNCHANGED <<table, mirror, built, tgclient, sessionFiles, asked, lost, orphaned>>
  BY DEF clientVars
<1>3. ClientsInv' /\ FileInv'
  <2>1. job[t].at \in {"sync", "drop", "create"} /\ r.at \in {"idle", "drop", "create", "put"}
        /\ mirror' \in 0..built
    BY <1>1, <1>2
  <2> QED
    BY <1>2, <2>1, SyncStays
<1>4. SyncGoes(job[t]) => SyncGoes(r)'
  <2>1. /\ Desired(tgSettings)' = Desired(tgSettings) /\ Left(r)' = Left(r)
        /\ Dropping(r)' = Dropping(r) /\ \A m \in Names : IsConnected(m)' = IsConnected(m)
    BY <1>2 DEF Desired, Left, Dropping, IsConnected
  <2> QED
    BY <1>2, <2>1 DEF SyncGoes
<1>5. SyncInv'
  <2>1. Syncs(job[t]) /\ Syncs(r)
    BY DEF Syncs
  <2> QED
    BY <1>1, <1>4, <2>1, SyncGoesOn
<1> QED
  BY <1>3, <1>5 DEF AccountsInv

LEMMA BeginCreateKeeps ==
  ASSUME AccountsInv, NEW t \in Workers, BeginCreate(t)
  PROVE  AccountsInv'
<1>1. job[t] \in Jobs /\ JobGoes(job[t])
  BY TypesAndJob
<1>2. /\ job[t].at = "drop" /\ job[t].todo = {}
      /\ UNCHANGED <<tgSettings, fileVars, clientVars, syncsMet>>
  BY DEF BeginCreate
<1>3. PICK d \in SUBSET Names : d = {n \in Desired(job[t].seen) : job[t].seen.acc[n].cred}
  BY DEF Desired
<1>4. PICK r : r = AtTodo(job[t], "create", d) /\ job' = [job EXCEPT ![t] = r]
  BY <1>3 DEF BeginCreate, AtTodo
<1>5. /\ r \in Jobs /\ r.at = "create" /\ r.client = NoClient /\ r.seen = job[t].seen
      /\ r.todo = d
  <2>1. "create" \in Places
    BY DEF Places
  <2>2. job[t].client = NoClient
    BY <1>1, <1>2 DEF JobGoes
  <2> QED
    BY <1>1, <1>4, <2>1, <2>2, AtTodoIs
<1>6. ASSUME SyncGoes(job[t]) PROVE SyncGoes(r)
  <2>1. /\ Dropping(job[t]) /\ ~Dropping(r) /\ Left(job[t]) = {} /\ Left(r) = {}
        /\ job[t].seen = tgSettings /\ r.seen = tgSettings /\ r.at # "put"
    BY <1>2, <1>5, <1>6 DEF Dropping, Left, SyncGoes
  <2>2. r.todo = {n \in Desired(tgSettings) : tgSettings.acc[n].cred}
    BY <1>3, <1>5, <2>1
  <2>3. \A m \in Names :
          /\ table[m] # NoClient => m \in Desired(tgSettings) \cup asked
          /\ IsConnected(m) => m \in Desired(tgSettings) \cup lost
    BY <1>6, <2>1 DEF SyncGoes
  <2> QED
    BY <2>1, <2>2, <2>3 DEF SyncGoes
<1> QED
  <2>1. job[t].at \in {"drop", "create"} /\ r.at \in {"create", "put"}
    BY <1>2, <1>5
  <2> QED
    BY <1>2, <1>4, <1>5, <1>6, <2>1, SyncLooks

LEMMA LookUpKeeps ==
  ASSUME AccountsInv, NEW t \in Workers, LookUp(t)
  PROVE  AccountsInv'
<1>1. job[t] \in Jobs /\ JobGoes(job[t]) /\ job[t].todo \in SUBSET Names
  BY TypesAndJob, JobFields
<1>2. job[t].at = "create" /\ UNCHANGED <<tgSettings, fileVars, clientVars, syncsMet>>
  BY DEF LookUp
<1>3. PICK n \in Names, a \in {"put", "create"}, d \in SUBSET Names :
        /\ n \in job[t].todo /\ d = job[t].todo \ {n}
        /\ a = IF table[n] = NoClient THEN "put" ELSE "create"
        /\ job' = [job EXCEPT ![t] = AtNameTodo(job[t], a, n, d)]
  <2>1. PICK n \in Names : /\ n \in job[t].todo
                           /\ job' = [job EXCEPT ![t] = AtNameTodo(job[t],
                                IF table[n] = NoClient THEN "put" ELSE "create", n,
                                job[t].todo \ {n})]
    BY <1>1 DEF LookUp, AtNameTodo
  <2>2. CASE table[n] = NoClient
    BY <1>1, <2>1, <2>2
  <2>3. CASE table[n] # NoClient
    BY <1>1, <2>1, <2>3
  <2> QED
    BY <2>2, <2>3
<1>4. PICK r : r = AtNameTodo(job[t], a, n, d) /\ job' = [job EXCEPT ![t] = r]
  BY <1>3
<1>5. /\ r \in Jobs /\ r.at = a /\ r.client = NoClient /\ r.seen = job[t].seen
      /\ r.todo = d /\ r.name = n
  <2>1. a \in Places
    BY DEF Places
  <2>2. job[t].client = NoClient
    BY <1>1, <1>2 DEF JobGoes
  <2> QED
    BY <1>1, <1>4, <2>1, <2>2, AtNameTodoIs
<1>6. ASSUME SyncGoes(job[t]) PROVE SyncGoes(r)
  <2>1. PICK j : j = job[t]
    OBVIOUS
  <2>2. /\ ~Dropping(j) /\ ~Dropping(r) /\ Left(j) = {} /\ Left(r) = {} /\ j.at # "put"
        /\ j.seen = tgSettings /\ r.seen = tgSettings /\ r.todo = j.todo \ {n} /\ n \in j.todo
        /\ r.at = "put" <=> table[n] = NoClient
    BY <1>2, <1>3, <1>5, <1>6, <2>1 DEF Dropping, Left, SyncGoes
  <2>3. /\ j.todo \subseteq Desired(tgSettings)
        /\ \A m \in Names :
             /\ table[m] # NoClient => m \in Desired(tgSettings) \cup asked
             /\ IsConnected(m) => m \in Desired(tgSettings) \cup lost
             /\ m \in Desired(tgSettings) /\ tgSettings.acc[m].cred =>
                  table[m] # NoClient \/ m \in j.todo
    BY <1>6, <2>1, <2>2 DEF SyncGoes
  <2> QED
    BY <1>5, <2>2, <2>3 DEF SyncGoes
<1> QED
  <2>1. job[t].at \in {"drop", "create"} /\ r.at \in {"create", "put"}
    BY <1>2, <1>5
  <2> QED
    BY <1>2, <1>4, <1>5, <1>6, <2>1, SyncLooks

LEMMA EndSyncKeeps ==
  ASSUME AccountsInv, NEW t \in Workers, EndSync(t)
  PROVE  AccountsInv'
<1>1. /\ AccountTypes /\ SyncInv /\ job[t] \in Jobs /\ table \in [Names -> 0..built]
  BY TypesAndJob
<1>2. /\ job[t].at = "create" /\ job[t].todo = {} /\ mirror' = table[job[t].seen.active]
      /\ UNCHANGED <<tgSettings, fileVars, table, built, tgclient, sessionFiles, asked, lost,
                     orphaned, syncsMet>>
  BY DEF EndSync, MirrorOf
<1>3. PICK r \in Jobs : /\ r = NoJob /\ r.at = "idle" /\ r.client = NoClient
                        /\ job' = [job EXCEPT ![t] = r]
  BY NoJobIs DEF EndSync
<1>4. mirror' \in 0..built
  <2>1. job[t].seen \in TgSettings
    BY <1>1, JobFields
  <2>2. job[t].seen.active \in Names
    BY <2>1 DEF TgSettings
  <2> QED
    BY <1>1, <1>2, <2>2
<1>5. ClientsInv' /\ FileInv'
  <2>1. job[t].at \in {"sync", "drop", "create"} /\ r.at \in {"idle", "drop", "create", "put"}
    BY <1>2, <1>3
  <2> QED
    BY <1>2, <1>3, <1>4, <2>1, SyncStays
<1>6. /\ job'[t] = r /\ \A u \in Workers : u # t => job'[u] = job[u]
  BY <1>1, <1>3, OneGoes
<1>7. SyncInv'
  <2> SUFFICES ASSUME ~syncsMet PROVE
        /\ \A u \in Workers : ~Syncs(job'[u])
        /\ NonePending' => \A n \in Names : Agrees(n)'
    BY <1>2 DEF SyncInv
  <2>1. Syncs(job[t]) /\ ~Pending(job[t]) /\ ~Syncs(r) /\ ~Dropping(job[t])
        /\ Left(job[t]) = {}
    BY <1>2, <1>3 DEF Syncs, Pending, Dropping, Left
  <2>2. \A u \in Workers : ~Syncs(job'[u])
    BY <1>1, <1>6, <2>1 DEF SyncInv
  <2>3. ASSUME NonePending', NEW n \in Names PROVE Agrees(n)'
    <3>1. NonePending
      BY <1>6, <2>1, <2>3 DEF NonePending
    <3>2. SyncGoes(job[t])
      BY <1>1, <2>1, <3>1 DEF SyncInv
    <3>3. /\ table[n] # NoClient => n \in Desired(tgSettings) \cup asked
          /\ IsConnected(n) => n \in Desired(tgSettings) \cup lost
          /\ n \in Desired(tgSettings) /\ tgSettings.acc[n].cred => table[n] # NoClient
          /\ mirror' = table[tgSettings.active]
      BY <1>2, <2>1, <3>2 DEF SyncGoes
    <3>4. Desired(tgSettings)' = Desired(tgSettings) /\ IsConnected(n)' = IsConnected(n)
      BY <1>2 DEF Desired, IsConnected
    <3> QED
      BY <1>2, <3>3, <3>4 DEF Agrees
  <2> QED
    BY <2>2, <2>3
<1> QED
  BY <1>5, <1>7 DEF AccountsInv

-----------------------------------------------------------------------------
LEMMA AccountsStep == AccountsInv /\ [AccountsNext]_accountsVars => AccountsInv'
<1> SUFFICES ASSUME AccountsInv, [AccountsNext]_accountsVars PROVE AccountsInv'
  OBVIOUS
<1>1. CASE UNCHANGED accountsVars
  <2>1. ClientsInv'
    BY <1>1 DEF accountsVars, AccountsInv, ClientsInv, AccountTypes, JobGoes, OwnClient, InPlace,
                LoginIn, Holds
  <2>2. FileInv'
    BY <1>1 DEF accountsVars, AccountsInv, FileInv, Saving
  <2>3. SyncInv'
    BY <1>1 DEF accountsVars, AccountsInv, SyncInv, NonePending, Pending, Syncs, SyncGoes, Agrees,
                IsConnected, Dropping, Left, Desired
  <2> QED
    BY <2>1, <2>2, <2>3 DEF AccountsInv
<1>2. CASE Restarted
  BY <1>2, RestartKeeps
<1>3. ASSUME NEW t \in Threads, NEW n \in Names,
             \/ \E op \in Operations : Begin(t, op, n)
             \/ RequestLogin(t, n, "start") \/ RequestLogin(t, n, "submit")
             \/ Disconnected(t, n)
      PROVE  AccountsInv'
  <2>1. t \in Workers
    BY DEF Workers
  <2> QED
    BY <1>3, <2>1, BeginKeeps, RequestKeeps, DisconnectedKeeps
<1>4. ASSUME NEW t \in Workers, Dispose(t) \/ Set(t) \/ Dump(t) \/ WriteTmp(t) \/ RenameTmp(t)
                                \/ SaveFails(t)
      PROVE  AccountsInv'
  BY <1>4, DisposeKeeps, SetKeeps, DumpKeeps, WriteKeeps, SaveEndKeeps
<1>5. ASSUME NEW t \in Workers, BeginSync(t) \/ TakeOut(t) \/ DropClient(t) \/ BeginCreate(t)
                                \/ LookUp(t) \/ CreateClient(t) \/ EndSync(t)
      PROVE  AccountsInv'
  BY <1>5, BeginSyncKeeps, TakeOutKeeps, DropClientKeeps, BeginCreateKeeps, LookUpKeeps,
     CreateClientKeeps, EndSyncKeeps
<1>6. ASSUME NEW t \in Workers, MakeClient(t) \/ TakeClient(t) \/ EndLogin(t)
      PROVE  AccountsInv'
  BY <1>6, MakeClientKeeps, TakeClientKeeps, EndLoginKeeps
<1> QED
  BY <1>1, <1>2, <1>3, <1>4, <1>5, <1>6 DEF AccountsNext

\* For any number of accounts, threads, clients and restarts, and any settings
\* at the start: whenever no update is going on, and the last sync met no
\* other, the table of clients is what the settings and the logins ask for,
\* the accessor is the active account's client, and, if the last save was
\* written and met no other either, the file has the settings and a connected
\* account is remembered there; and no client out of place is connected
\* (_sync_telegram_accounts, _persist_settings and their callers in handlers.py).
THEOREM AccountsStaySafe == AccountsSpec => []AccountsSafe
<1>1. AccountsInv => AccountsSafe
  <2> SUFFICES ASSUME AccountsInv PROVE AccountsSafe
    OBVIOUS
  <2>0. /\ ClientsInv /\ FileInv /\ SyncInv
        /\ \A n \in Names : table[n] # NoClient => table[n] \in Clients
        /\ tgSettings.active \in Names
        /\ built <= MaxClients /\ built \in Nat
    BY ClientNumbers DEF AccountsInv, ClientsInv, AccountTypes, TgSettings
  <2>1. AccountsTypeOK
    BY <2>0 DEF ClientsInv, AccountTypes, OwnClient, TgClients, LoginStates, AccountsTypeOK
  <2>2. ASSUME AtRest, ~syncsMet, NEW n \in Names PROVE Agrees(n)
    <3>1. NonePending /\ \A t \in Workers : ~Syncs(job[t])
      BY <2>2 DEF AtRest, NonePending, Pending, Syncs
    <3> QED
      BY <2>0, <2>2, <3>1 DEF SyncInv
  <2>3. ASSUME AtRest, ~unsaved, ~savesMet PROVE config = tgSettings
    BY <2>0, <2>3 DEF FileInv, AtRest, Saving
  <2>4. TableFollowsSettings
    BY <2>2 DEF Agrees, TableFollowsSettings
  <2>5. FileIsCurrent
    BY <2>3 DEF FileIsCurrent
  <2>6. ConnectedIsRemembered
    <3> SUFFICES ASSUME AtRest, ~unsaved, ~savesMet, ~syncsMet, NEW n \in Names, IsConnected(n)
                 PROVE  n \in Desired(config) \cup lost
      BY DEF ConnectedIsRemembered, IsConnected
    <3> QED
      BY <2>2, <2>3 DEF Agrees
  <2>7. MirrorIsActive
    BY <2>0, <2>2 DEF Agrees, IsConnected, MirrorIsActive
  <2>8. NoStrayConnection
    <3> SUFFICES ASSUME AtRest, NEW c \in 1..built, tgclient[c].state = "connected"
                 PROVE  c = table[tgclient[c].of] \/ c \in orphaned
      BY DEF NoStrayConnection
    <3>1. c \in Clients
      BY <2>0, ClientNumbers
    <3>2. \A t \in Workers : ~Holds(job[t], c)
      BY DEF AtRest, Holds
    <3> QED
      BY <2>0, <3>1, <3>2 DEF ClientsInv, InPlace
  <2> QED
    BY <2>1, <2>4, <2>5, <2>6, <2>7, <2>8 DEF AccountsSafe
<1> QED
  BY <1>1, AccountsStart, AccountsStep, PTL DEF AccountsSpec
=============================================================================
