------------------------------ MODULE Sessions ------------------------------
(***************************************************************************)
(* Chat sessions of the Bridge (BridgeHandlers._runtime_for and            *)
(* _close_stale_sessions): each session id has a RuntimeContext with its   *)
(* own history file, made on first use, dropped when it has been idle for  *)
(* too long or when there are too many, and made again from the file when  *)
(* the session comes back.  A chat run holds on to the runtime it started  *)
(* with, whether or not the session still has it.                          *)
(*                                                                         *)
(* A history is the set of its messages here; their order is the subject   *)
(* of ChatHistory.                                                         *)
(***************************************************************************)
EXTENDS Naturals, FiniteSets

CONSTANTS
    Sids,        \* session ids other than the default one
    Default,     \* the shared session, handlers.runtime
    Runs,        \* chat runs; each starts at most once
    MaxMessages, \* bound: messages a run appends
    MaxSessions, \* MAX_SESSIONS
    Timeout,     \* SESSION_TIMEOUT_SECONDS
    MaxTime,     \* bound: the monotonic clock stops here
    MaxRuntimes, \* bound: runtimes ever made
    Transports   \* how runs are started: "ws" (and RPC) or "stream"

ASSUME SessionsAssumption ==
    /\ Default \notin Sids
    /\ MaxMessages \in Nat
    /\ MaxSessions \in Nat \ {0}
    /\ Timeout \in Nat
    /\ MaxTime \in Nat \ {0}
    /\ MaxRuntimes \in Nat
    /\ Transports \subseteq {"ws", "stream"}

AllSids == Sids \cup {Default}
Runtimes == 0..MaxRuntimes
Shared == 0 \* handlers.runtime
Message == Runs \X (1..MaxMessages)
NoRuntime == MaxRuntimes + 1 \* the session is not live

VARIABLES
    now,      \* time.monotonic(): positive
    made,     \* the newest runtime; runtimes are numbered
    sessions, \* [Sids -> Runtimes \cup {NoRuntime}] handlers._sessions
    owner,    \* [Runtimes -> AllSids] whose history file the runtime has
    lastUsed, \* [Runtimes -> Nat] runtime._last_used; 0 when not yet set
    content,  \* [Runtimes -> SUBSET Message] its messages in memory
    file,     \* [AllSids -> SUBSET Message] the history files
    run,      \* [Runs -> what the run was asked for and works with]
    kept      \* [AllSids -> SUBSET Message] appended and not cleared since

vars == <<now, made, sessions, owner, lastUsed, content, file, run, kept>>

IdleRun == [at |-> "idle", asked |-> Default, runtime |-> Shared, next |-> 1]

Init ==
    /\ now = 1
    /\ made = Shared
    /\ sessions = [s \in Sids |-> NoRuntime]
    /\ owner = [m \in Runtimes |-> Default]
    /\ lastUsed = [m \in Runtimes |-> 0]
    /\ content = [m \in Runtimes |-> {}]
    /\ file = [s \in AllSids |-> {}]
    /\ run = [r \in Runs |-> IdleRun]
    /\ kept = [s \in AllSids |-> {}]

Live(map) == {s \in Sids : map[s] # NoRuntime}

\* Idle for longer than the timeout.  A runtime without _last_used counts as
\* used now.
Stale(m) == lastUsed[m] > 0 /\ now - lastUsed[m] > Timeout

\* Mutation: a session is dropped one clock reading too early.
WithoutStaleEarly(map) ==
    [s \in Sids |-> IF map[s] # NoRuntime /\ now - lastUsed[map[s]] >= Timeout
                   THEN NoRuntime ELSE map[s]]

WithoutStale(map) ==
    [s \in Sids |-> IF map[s] # NoRuntime /\ Stale(map[s]) THEN NoRuntime
                                                          ELSE map[s]]

\* At most one session too many: it is one whose _last_used is smallest,
\* where a runtime that has none yet counts as 0.
WithinCap(map) ==
    IF Cardinality(Live(map)) <= MaxSessions THEN {map}
    ELSE {[map EXCEPT ![s] = NoRuntime] :
            s \in {x \in Live(map) : \A y \in Live(map) :
                     lastUsed[map[x]] <= lastUsed[map[y]]}}

\* _close_stale_sessions: the maps it may leave (clock readings may tie).
CloseStale(map) == WithinCap(WithoutStale(map))

-----------------------------------------------------------------------------
(* _runtime_for(sid), under _sessions_lock; m is what it returns.          *)

SharedRuntime(s, m) ==
    /\ s = Default
    /\ m = Shared
    /\ UNCHANGED <<made, sessions, owner, lastUsed>>

LiveRuntime(s, m) ==
    /\ s \in Live(sessions)
    /\ m = sessions[s]
    /\ lastUsed' = [lastUsed EXCEPT ![m] = now]
    /\ UNCHANGED <<made, sessions, owner>>

\* Stale sessions go, the new one is added, and the cap is enforced before
\* the new one has its _last_used.
NewRuntime(s, m) ==
    /\ s \in Sids \ Live(sessions)
    /\ made < MaxRuntimes
    /\ m = made + 1
    /\ made' = m
    /\ owner' = [owner EXCEPT ![m] = s]
    /\ \E closed \in CloseStale(sessions) :
         LET added == [closed EXCEPT ![s] = m] IN
         sessions' \in IF Cardinality(Live(added)) > MaxSessions
                       THEN CloseStale(added) ELSE {added}
    /\ lastUsed' = [lastUsed EXCEPT ![m] = now]

RuntimeFor(s, m) == SharedRuntime(s, m) \/ LiveRuntime(s, m) \/ NewRuntime(s, m)

\* A new runtime reads its history file (_load_history).
Loaded(m) == IF m > made THEN file[owner'[m]] ELSE content[m]

-----------------------------------------------------------------------------

\* A run starts for session s.  stream_request does not pass the session on.
StartRun(r, s, transport) ==
    /\ run[r].at = "idle"
    /\ \E m \in Runtimes :
         /\ RuntimeFor(IF transport = "stream" THEN Default ELSE s, m)
         /\ content' = [content EXCEPT ![m] = Loaded(m)]
         /\ run' = [run EXCEPT ![r] = [at |-> "running", asked |-> s,
                                       runtime |-> m, next |-> 1]]
    /\ UNCHANGED <<now, file, kept>>

\* Mutation: a runtime that its session has lost writes nothing.
AppendMessageLive(r) ==
    LET m == run[r].runtime
        msg == <<r, run[r].next>>
    IN
    /\ run[r].at = "running"
    /\ run[r].next <= MaxMessages
    /\ content' = [content EXCEPT ![m] = @ \cup {msg}]
    /\ file' = IF m = Shared \/ sessions[owner[m]] = m
               THEN [file EXCEPT ![owner[m]] = content'[m]] ELSE file
    /\ kept' = [kept EXCEPT ![owner[m]] = @ \cup {msg}]
    /\ run' = [run EXCEPT ![r].next = @ + 1]
    /\ UNCHANGED <<now, made, sessions, owner, lastUsed>>

\* RuntimeContext.append rewrites the whole file from the runtime's memory.
AppendMessage(r) ==
    LET m == run[r].runtime
        msg == <<r, run[r].next>>
    IN
    /\ run[r].at = "running"
    /\ run[r].next <= MaxMessages
    /\ content' = [content EXCEPT ![m] = @ \cup {msg}]
    /\ file' = [file EXCEPT ![owner[m]] = content'[m]]
    /\ kept' = [kept EXCEPT ![owner[m]] = @ \cup {msg}]
    /\ run' = [run EXCEPT ![r].next = @ + 1]
    /\ UNCHANGED <<now, made, sessions, owner, lastUsed>>

EndRun(r) ==
    /\ run[r].at = "running"
    /\ run' = [run EXCEPT ![r].at = "done"]
    /\ UNCHANGED <<now, made, sessions, owner, lastUsed, content, file, kept>>

\* get_history of session s.
ReadHistory(s) ==
    /\ \E m \in Runtimes :
         /\ RuntimeFor(s, m)
         /\ content' = [content EXCEPT ![m] = Loaded(m)]
    /\ UNCHANGED <<now, file, run, kept>>

\* clear_history of session s.
ClearHistory(s) ==
    /\ \E m \in Runtimes :
         /\ RuntimeFor(s, m)
         /\ content' = [content EXCEPT ![m] = {}]
    /\ file' = [file EXCEPT ![s] = {}]
    /\ kept' = [kept EXCEPT ![s] = {}]
    /\ UNCHANGED <<now, run>>

Tick ==
    /\ now < MaxTime
    /\ now' = now + 1
    /\ UNCHANGED <<made, sessions, owner, lastUsed, content, file, run, kept>>

Next ==
    \/ \E r \in Runs, s \in AllSids, t \in Transports : StartRun(r, s, t)
    \/ \E r \in Runs : AppendMessage(r) \/ EndRun(r)
    \/ \E s \in AllSids : ReadHistory(s) \/ ClearHistory(s)
    \/ Tick

Spec == Init /\ [][Next]_vars

Running(s) == \E r \in Runs : run[r].at = "running" /\ owner[run[r].runtime] = s

\* Nothing is asked of a session that has lost its runtime while a run still
\* works with that runtime: a user who waits for the answer in that tab.  Runs
\* of a live session may overlap, and its history be cleared under them.
NoSecondRuntime == made' # made => ~Running(owner'[made'])

CalmSpec == Init /\ [][Next /\ NoSecondRuntime]_vars
-----------------------------------------------------------------------------
(* Properties.                                                             *)

\* The type invariant; the number of live sessions never exceeds the cap.
TypeOK ==
    /\ now \in 1..MaxTime
    /\ made \in Runtimes
    /\ sessions \in [Sids -> Runtimes \cup {NoRuntime}]
    /\ Cardinality(Live(sessions)) <= MaxSessions
    /\ owner \in [Runtimes -> AllSids]
    /\ lastUsed \in [Runtimes -> 0..MaxTime]
    /\ content \in [Runtimes -> SUBSET Message]
    /\ file \in [AllSids -> SUBSET Message]
    /\ run \in [Runs -> [at : {"idle", "running", "done"}, asked : AllSids,
                         runtime : Runtimes, next : 1..(MaxMessages + 1)]]
    /\ kept \in [AllSids -> SUBSET Message]

\* "Tabs never share history": what a run appends is in the file of the
\* session its frontend named, and in no other.
TabsNeverShare ==
    \A s \in AllSids : \A msg \in file[s] : run[msg[1]].asked = s

\* A message that was appended, and not cleared since, is in its session's
\* file, whichever runtimes have come and gone.
NothingLost == \A s \in AllSids : kept[s] \subseteq file[s]

\* A session in use keeps its runtime: one that has been used within the
\* timeout is dropped only to make room for another one.
RecentSessionsStay ==
    [][\A s \in Live(sessions) :
         sessions'[s] = NoRuntime /\ ~Stale(sessions[s])
             => Cardinality(Live(sessions)) = MaxSessions]_vars

\* "Oldest unused are dropped": a session that has just been asked for is
\* live afterwards.
NewestStays ==
    [][made' # made => sessions'[owner'[made']] = made']_vars

\* Tabs keep to their own conversations, and no message is lost, however the
\* table fills, empties and expires.
SessionsAreSafe == TypeOK /\ TabsNeverShare /\ NothingLost
=============================================================================
