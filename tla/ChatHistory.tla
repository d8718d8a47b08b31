---------------------------- MODULE ChatHistory ----------------------------
(***************************************************************************)
(* The conversation of one session: RuntimeContext (core/context.py), its  *)
(* history file, and what the chat runs of that session append to it and   *)
(* send to the model (BridgeHandlers._chat_loop and _build_messages).      *)
(*                                                                         *)
(* A provider refuses a conversation in which a tool message does not      *)
(* follow the assistant message that carries its call, so the order of the *)
(* messages matters as much as their presence.                             *)
(*                                                                         *)
(* Confirmation, the lock and the events of a run are in ChatRuns: here a  *)
(* tool call is one step that appends its result, or ends the run.         *)
(***************************************************************************)
EXTENDS Naturals, Sequences

CONSTANTS
    Runs,         \* chat runs of the session; each starts at most once
    MaxTurns,     \* settings.safety.max_agent_turns
    MaxCalls,     \* bound: tool calls in one model reply
    MaxContext,   \* settings.llm.max_context_messages
    SystemPrompt, \* does the runtime have a system prompt?
    MaxClears,    \* bound: how often the history is cleared
    MaxCrashes,   \* bound: how often the process dies
    MaxFailures   \* bound: how many saves of the file fail

ASSUME HistoryAssumption ==
    /\ MaxTurns \in Nat \ {0}
    /\ MaxCalls \in Nat \ {0}
    /\ MaxContext \in Nat \ {0, 1}
    /\ SystemPrompt \in BOOLEAN
    /\ MaxClears \in Nat
    /\ MaxCrashes \in Nat
    /\ MaxFailures \in Nat

VARIABLES
    memory,   \* RuntimeContext._messages
    disk,     \* the history file
    pc,       \* [Runs -> label] where each worker thread is
    turn,     \* [Runs -> Nat] turns started
    todo,     \* [Runs -> Nat] calls of the current reply still to do
    stop,     \* [Runs -> BOOLEAN] the run's stop event
    sent,     \* the messages of the latest request to the model
    cut,      \* the runs that ended with calls of their reply unanswered
    clears,   \* how often clear() has been called
    crashes,  \* how often the process has died
    failures  \* how many saves have failed

bounds == <<clears, crashes, failures>>
vars == <<memory, disk, pc, turn, todo, stop, sent, cut, bounds>>

System == [role |-> "system"]
User(r) == [role |-> "user", run |-> r]
\* The text and the n tool calls of a reply, combined in one message.
Assistant(r, n) == [role |-> "assistant", run |-> r, turn |-> turn[r], calls |-> n]
\* The call the run is at: the calls of a reply are done first to last.
ToolAnswer(r, left) == [role |-> "tool", run |-> r, turn |-> turn[r], left |-> left]

Init ==
    /\ memory = <<>>
    /\ disk = <<>>
    /\ pc = [r \in Runs |-> "idle"]
    /\ turn = [r \in Runs |-> 0]
    /\ todo = [r \in Runs |-> 0]
    /\ stop = [r \in Runs |-> FALSE]
    /\ sent = <<>>
    /\ cut = {}
    /\ clears = 0
    /\ crashes = 0
    /\ failures = 0

Goto(r, label) == pc' = [pc EXCEPT ![r] = label]

Ended(r) == pc[r] \in {"idle", "done"}

\* _persist_history_locked rewrites the file and renames it into place; an
\* OSError is swallowed and leaves the old file.
Persist ==
    \/ disk' = memory' /\ UNCHANGED failures
    \/ failures < MaxFailures /\ failures' = failures + 1 /\ UNCHANGED disk

\* Mutation: the file is a log to which each message is appended.
AppendToLog(m) ==
    /\ memory' = Append(memory, m)
    /\ \/ disk' = Append(disk, m) /\ UNCHANGED failures
       \/ failures < MaxFailures /\ failures' = failures + 1 /\ UNCHANGED disk
    /\ UNCHANGED <<clears, crashes>>

\* RuntimeContext.append: memory and file, under the runtime's lock.
AppendMessage(m) ==
    /\ memory' = Append(memory, m)
    /\ Persist
    /\ UNCHANGED <<clears, crashes>>

\* Mutation: the first message comes on top of the newest MaxContext.
WindowOffByOne(list) ==
    IF Len(list) > MaxContext
    THEN <<Head(list)>> \o SubSeq(list, Len(list) - MaxContext + 1, Len(list))
    ELSE list

\* The window of _build_messages: the first message and the newest others.
Window(list) ==
    IF Len(list) > MaxContext
    THEN <<Head(list)>> \o SubSeq(list, Len(list) - MaxContext + 2, Len(list))
    ELSE list

\* _build_messages.
Messages == Window(IF SystemPrompt THEN <<System>> \o memory ELSE memory)

-----------------------------------------------------------------------------
(* One chat run.                                                           *)

AskModel(r) ==
    /\ pc[r] = "idle"
    /\ AppendMessage(User(r))
    /\ Goto(r, "turn")
    /\ UNCHANGED <<turn, todo, stop, sent, cut>>

\* The head of the turn loop: the turn cap and the stop event, or a request.
SendTurn(r) ==
    /\ pc[r] = "turn"
    /\ IF turn[r] = MaxTurns \/ stop[r]
       THEN Goto(r, "done") /\ UNCHANGED <<turn, sent>>
       ELSE /\ sent' = Messages
            /\ turn' = [turn EXCEPT ![r] = @ + 1]
            /\ Goto(r, "model")
    /\ UNCHANGED <<memory, disk, todo, stop, cut, bounds>>

\* The reply is a text without tool calls.
FinalReply(r) ==
    /\ pc[r] = "model"
    /\ AppendMessage(Assistant(r, 0))
    /\ Goto(r, "done")
    /\ UNCHANGED <<turn, todo, stop, sent, cut>>

\* The request fails, or the reply has neither text nor calls.
NoReply(r) ==
    /\ pc[r] = "model"
    /\ Goto(r, "done")
    /\ UNCHANGED <<memory, disk, turn, todo, stop, sent, cut, bounds>>

\* The reply asks for tool calls.
ToolReply(r) ==
    /\ pc[r] = "model"
    /\ \E n \in 1..MaxCalls :
         /\ AppendMessage(Assistant(r, n))
         /\ todo' = [todo EXCEPT ![r] = n]
    /\ Goto(r, "calls")
    /\ UNCHANGED <<turn, stop, sent, cut>>

\* Mutation: a refused call leaves no message.
CallToolUnlessRefused(r) ==
    /\ pc[r] = "calls"
    /\ todo[r] > 0
    /\ ~stop[r]
    /\ todo' = [todo EXCEPT ![r] = @ - 1]
    /\ \/ AppendMessage(ToolAnswer(r, todo[r]))
       \/ UNCHANGED <<memory, disk, bounds>>
    /\ UNCHANGED <<pc, turn, stop, sent, cut>>

\* A call is done, refused or failed; its result is the tool message.
CallTool(r) ==
    /\ pc[r] = "calls"
    /\ todo[r] > 0
    /\ ~stop[r]
    /\ todo' = [todo EXCEPT ![r] = @ - 1]
    /\ AppendMessage(ToolAnswer(r, todo[r]))
    /\ UNCHANGED <<pc, turn, stop, sent, cut>>

EndOfCalls(r) ==
    /\ pc[r] = "calls"
    /\ todo[r] = 0
    /\ Goto(r, "turn")
    /\ UNCHANGED <<memory, disk, turn, todo, stop, sent, cut, bounds>>

\* The run leaves the loop over the calls: an interrupt seen before the next
\* call, or an exception (an unknown action, a gate that has no prompt).
AbandonCalls(r) ==
    /\ pc[r] = "calls"
    /\ todo[r] > 0
    /\ cut' = cut \cup {r}
    /\ Goto(r, "done")
    /\ UNCHANGED <<memory, disk, turn, todo, stop, sent, bounds>>

Run(r) ==
    \/ AskModel(r) \/ SendTurn(r) \/ FinalReply(r) \/ NoReply(r)
    \/ ToolReply(r) \/ CallTool(r) \/ EndOfCalls(r) \/ AbandonCalls(r)

-----------------------------------------------------------------------------
(* Everything else that touches the history.                               *)

Interrupt(r) ==
    /\ ~Ended(r)
    /\ stop' = [stop EXCEPT ![r] = TRUE]
    /\ UNCHANGED <<memory, disk, pc, turn, todo, sent, cut, bounds>>

\* clear_history from a frontend.
Clear ==
    /\ clears < MaxClears
    /\ clears' = clears + 1
    /\ memory' = <<>>
    /\ Persist
    /\ UNCHANGED <<pc, turn, todo, stop, sent, cut, crashes>>

\* The process dies and is started again; the file is read back.
Restart ==
    /\ crashes < MaxCrashes
    /\ crashes' = crashes + 1
    /\ memory' = disk
    /\ cut' = cut \cup {r \in Runs : ~Ended(r)}
    /\ pc' = [r \in Runs |-> IF Ended(r) THEN pc[r] ELSE "done"]
    /\ UNCHANGED <<disk, turn, todo, stop, sent, clears, failures>>

Next ==
    \/ \E r \in Runs : Run(r) \/ Interrupt(r)
    \/ Clear
    \/ Restart

Spec == Init /\ [][Next]_vars

\* One run at a time, and no clearing under it: a user with one window, who
\* waits for the answer.
OneAtATime ==
    /\ \A r \in Runs :
         pc[r] = "idle" /\ pc'[r] # "idle" => \A q \in Runs : Ended(q)
    /\ clears' # clears => \A q \in Runs : Ended(q)

CalmSpec == Init /\ [][Next /\ OneAtATime]_vars
-----------------------------------------------------------------------------
(* Properties.                                                             *)

MessageType ==
    {System} \cup [role : {"user"}, run : Runs]
    \cup [role : {"assistant"}, run : Runs, turn : 1..MaxTurns, calls : 0..MaxCalls]
    \cup [role : {"tool"}, run : Runs, turn : 1..MaxTurns, left : 1..MaxCalls]

\* The type invariant; what is sent never exceeds the context limit, and the
\* system prompt stays out of the stored history.
TypeOK ==
    /\ memory \in Seq(MessageType \ {System})
    /\ disk \in Seq(MessageType \ {System})
    /\ pc \in [Runs -> {"idle", "turn", "model", "calls", "done"}]
    /\ turn \in [Runs -> 0..MaxTurns]
    /\ todo \in [Runs -> 0..MaxCalls]
    /\ stop \in [Runs -> BOOLEAN]
    /\ sent \in Seq(MessageType)
    /\ Len(sent) <= MaxContext
    /\ cut \subseteq Runs
    /\ clears \in 0..MaxClears
    /\ crashes \in 0..MaxCrashes
    /\ failures \in 0..MaxFailures

\* Does the message at k of the list carry the call that i answers?
Carries(list, k, i) ==
    /\ list[k].role = "assistant"
    /\ list[k].run = list[i].run
    /\ list[k].turn = list[i].turn
    /\ list[k].calls >= list[i].left

\* Only results of the same reply stand between a tool message and the
\* assistant message with its call.
FollowsCall(list, i) ==
    \E k \in 1..(i - 1) :
        /\ Carries(list, k, i)
        /\ \A m \in (k + 1)..(i - 1) :
             list[m].role = "tool" /\ list[m].run = list[i].run

WellFormed(list) ==
    \A i \in DOMAIN list : list[i].role = "tool" => FollowsCall(list, i)

\* "Every tool message follows a single assistant message that carries the
\* matching tool_calls entries" (_chat_loop) in every request to the model
\* whose window has cut nothing off.
ToolsFollowTheirCall == Len(sent) < MaxContext => WellFormed(sent)

\* What a restart would read back is as good as what is in memory: a crash
\* between two appends, a failed save or a clear never leaves a tool result
\* in the file without its call.
FileIsWellFormed == WellFormed(disk)

\* Every call in a request to the model has its result right behind it.
Answered(list, i) ==
    \A n \in 1..list[i].calls :
        /\ i + n <= Len(list)
        /\ list[i + n].role = "tool"
        /\ list[i + n].run = list[i].run
        /\ list[i + n].turn = list[i].turn
        /\ list[i + n].left = list[i].calls - n + 1

\* "Keep the conversation valid (assistant -> tool -> assistant ...)": no
\* request goes out while a call before it has no result, if its run was not
\* cut short and no save failed; a declined or failed call has its result too.
UncutCallsAreAnswered ==
    failures = 0 =>
        \A i \in DOMAIN sent :
            sent[i].role = "assistant" /\ sent[i].run \notin cut
                => Answered(sent, i)

\* What the run r has said in the list, and where.
Own(list, r) == {i \in DOMAIN list : list[i].role # "system" /\ list[i].run = r}
Said(list, r) == {list[i] : i \in Own(list, r)}

\* The question, then turn by turn a reply and the results of its calls.
Precedes(m, n) ==
    /\ n.role # "user"
    /\ \/ m.role = "user"
       \/ m.turn < n.turn
       \/ /\ m.turn = n.turn /\ n.role = "tool"
          /\ m.role = "assistant" \/ n.left < m.left

\* A reply with the calls n, and their results.
Exchange(r, t, n) ==
    {[role |-> "assistant", run |-> r, turn |-> t, calls |-> n]}
    \cup [role : {"tool"}, run : {r}, turn : {t}, left : 1..n]

\* A run that goes on sees its own conversation: the history that a later turn
\* is asked with contains all the run has appended, each once and in order,
\* whatever other runs append to the same history in between.
RunSeesItself ==
    \A r \in Runs :
        pc[r] = "model" /\ clears = 0 =>
            /\ \A i, j \in Own(memory, r) : i < j => Precedes(memory[i], memory[j])
            /\ User(r) \in Said(memory, r)
            /\ \A t \in 1..(turn[r] - 1) : \E n \in 1..MaxCalls :
                 {m \in Said(memory, r) : m.role # "user" /\ m.turn = t} = Exchange(r, t, n)
=============================================================================
