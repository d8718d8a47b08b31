------------------------------ MODULE ChatRuns ------------------------------
(***************************************************************************)
(* Chat runs of the Bridge (BridgeHandlers._start_chat_run, _chat_worker,  *)
(* _chat_loop, _invoke_with_bridge_confirmation, _interrupt_run and        *)
(* resolve_confirmation): worker threads that alternate model turns and    *)
(* tool calls, ask the user over the event bus before a risky call, and    *)
(* share handlers._lock and the confirmation gate with every other         *)
(* invocation and with settings saves (module ActionGate).                 *)
(*                                                                         *)
(* Left to other modules: what the conversation history looks like         *)
(* (ChatHistory) and who reads the events.                                 *)
(***************************************************************************)
EXTENDS ActionGate

CONSTANTS
    Frontends, \* threads that deliver a user's answer to a request
    MaxTurns,  \* settings.safety.max_agent_turns
    MaxCalls   \* bound: tool calls in one model reply

ASSUME BoundAssumption ==
    /\ MaxTurns \in Nat \ {0}
    /\ MaxCalls \in Nat \ {0}

VARIABLES
    turn,      \* [Runs -> Nat] turns started
    calls,     \* [Runs -> Nat] calls of the current reply still to do
    stop,      \* [Runs -> BOOLEAN] the run's stop_event
    active,    \* the keys of _active_runs
    request,   \* [Runs -> PendingConfirmation of the run's latest request]
    front,     \* [Frontends -> the resolve_confirmation call in progress]
    terminals  \* [Runs -> Nat] chat_done and chat_failed events published

runVars == <<turn, calls, stop, active, terminals>>
vars == <<invokeVars, turn, calls, stop, active, request, front, terminals>>

\* no       how many requests the run has made (the request_id)
\* open     it is in _pending_confirms
\* set      its threading.Event is set
\* approved its "approved" field
\* given    the answers users have submitted to it
\* verdict  what the worker made of it
NoRequest == [no |-> 0, open |-> FALSE, set |-> FALSE, approved |-> FALSE,
              given |-> {}, verdict |-> "none"]

NewRequest(n) == [no |-> n, open |-> TRUE, set |-> FALSE, approved |-> FALSE,
                  given |-> {}, verdict |-> "open"]

IdleFront == [at |-> "idle"]

Init ==
    /\ InitInvoke
    /\ turn = [r \in Runs |-> 0]
    /\ calls = [r \in Runs |-> 0]
    /\ stop = [r \in Runs |-> FALSE]
    /\ active = {}
    /\ request = [r \in Runs |-> NoRequest]
    /\ front = [f \in Frontends |-> IdleFront]
    /\ terminals = [r \in Runs |-> 0]

\* A run publishes chat_done or chat_failed and leaves its loop.
Finish(r) ==
    /\ terminals' = [terminals EXCEPT ![r] = @ + 1]
    /\ Goto(r, "ending")

-----------------------------------------------------------------------------
(* The worker.                                                             *)

\* The run is registered under the lock before its thread starts.
StartRun(r) ==
    /\ pc[r] = "idle"
    /\ LockFree
    /\ active' = active \cup {r}
    /\ Goto(r, "start")
    /\ UNCHANGED <<kind, auto, lockVars, gateVars, saveVars, turn, calls,
                   stop, request, front, terminals>>

\* chat_started, the user message, and create_client, which raises when the
\* provider is not configured.
OpenClient(r) ==
    /\ pc[r] = "start"
    /\ \/ Goto(r, "turn") /\ UNCHANGED terminals
       \/ Finish(r)
    /\ UNCHANGED <<kind, auto, lockVars, gateVars, saveVars, turn, calls,
                   stop, active, request, front>>

\* The head of the turn loop: the cap, the stop event, a new turn.
BeginTurn(r) ==
    /\ pc[r] = "turn"
    /\ IF turn[r] = MaxTurns \/ stop[r]
       THEN Finish(r) /\ UNCHANGED turn
       ELSE /\ turn' = [turn EXCEPT ![r] = @ + 1]
            /\ Goto(r, "model")
            /\ UNCHANGED terminals
    /\ UNCHANGED <<kind, auto, lockVars, gateVars, saveVars, calls, stop,
                   active, request, front>>

\* The model answers with text only (chat_done) or fails (chat_failed).
LastReply(r) ==
    /\ pc[r] = "model"
    /\ Finish(r)
    /\ UNCHANGED <<kind, auto, lockVars, gateVars, saveVars, turn, calls,
                   stop, active, request, front>>

\* The model asks for tool calls.
ToolReply(r) ==
    /\ pc[r] = "model"
    /\ \E n \in 1..MaxCalls : calls' = [calls EXCEPT ![r] = n]
    /\ Goto(r, "calls")
    /\ UNCHANGED <<kind, auto, lockVars, gateVars, saveVars, turn, stop,
                   active, request, front, terminals>>

\* Mutation: an interrupt between two calls leaves the loop silently.
NextCallSilent(r) ==
    /\ pc[r] = "calls"
    /\ calls[r] > 0
    /\ IF stop[r]
       THEN Goto(r, "ending") /\ UNCHANGED <<calls, kind>>
       ELSE /\ calls' = [calls EXCEPT ![r] = @ - 1]
            /\ \E k \in Kinds : kind' = [kind EXCEPT ![r] = k]
            /\ Goto(r, "proposed")
    /\ UNCHANGED <<auto, lockVars, gateVars, saveVars, turn, stop, active,
                   request, front, terminals>>

\* The head of the loop over the reply's calls.
NextCall(r) ==
    /\ pc[r] = "calls"
    /\ calls[r] > 0
    /\ IF stop[r]
       THEN Finish(r) /\ UNCHANGED <<calls, kind>>
       ELSE /\ calls' = [calls EXCEPT ![r] = @ - 1]
            /\ \E k \in Kinds : kind' = [kind EXCEPT ![r] = k]
            /\ Goto(r, "proposed")
            /\ UNCHANGED terminals
    /\ UNCHANGED <<auto, lockVars, gateVars, saveVars, turn, stop, active,
                   request, front>>

EndOfCalls(r) ==
    /\ pc[r] = "calls"
    /\ calls[r] = 0
    /\ Goto(r, "turn")
    /\ UNCHANGED <<kind, auto, lockVars, gateVars, saveVars, runVars, request,
                   front>>

\* _invoke_with_bridge_confirmation, first look: registry.get (an unknown
\* name raises out of the loop, and the worker publishes chat_failed) and
\* needs_confirmation.
LookUpAction(r) ==
    /\ pc[r] = "proposed"
    /\ auto' = [auto EXCEPT ![r] = FALSE]
    /\ IF kind[r] = "unknown"
       THEN Finish(r)
       ELSE /\ Goto(r, IF NeedsConfirmation(kind[r]) THEN "consent"
                                                     ELSE "enter")
            /\ UNCHANGED terminals
    /\ UNCHANGED <<kind, lockVars, gateVars, saveVars, turn, calls, stop,
                   active, request, front>>

\* Mutation: an open gate counts as the user's approval of this call.
SkipRequestApproved(r) ==
    /\ pc[r] = "consent"
    /\ approveAll[selfGate]
    /\ auto' = [auto EXCEPT ![r] = TRUE]
    /\ Goto(r, "enter")
    /\ UNCHANGED <<kind, lockVars, gateVars, saveVars, runVars, request, front>>

\* The gate's flag, read without the lock: when it is set no one is asked.
SkipRequest(r) ==
    /\ pc[r] = "consent"
    /\ approveAll[selfGate]
    /\ Goto(r, "enter")
    /\ UNCHANGED <<kind, auto, lockVars, gateVars, saveVars, runVars, request,
                   front>>

\* Mutation: the worker waits for the answer inside handlers._lock.
AskUserLocked(r) ==
    /\ pc[r] = "consent"
    /\ LockFree
    /\ ~approveAll[selfGate]
    /\ holder' = r
    /\ request' = [request EXCEPT ![r] = NewRequest(@.no + 1)]
    /\ Goto(r, "waiting")
    /\ UNCHANGED <<kind, auto, previous, gateVars, saveVars, runVars, front>>

\* Register the request, publish tool_confirm_requested, and wait.
AskUser(r) ==
    /\ pc[r] = "consent"
    /\ ~approveAll[selfGate]
    /\ request' = [request EXCEPT ![r] = NewRequest(@.no + 1)]
    /\ Goto(r, "waiting")
    /\ UNCHANGED <<kind, auto, lockVars, gateVars, saveVars, runVars, front>>

CloseRequest(r, v) ==
    request' = [request EXCEPT ![r].open = FALSE, ![r].verdict = v]

\* Mutation: any answer runs the action.
TakeAnswerAny(r) ==
    /\ pc[r] = "waiting"
    /\ request[r].set
    /\ CloseRequest(r, "approved")
    /\ auto' = [auto EXCEPT ![r] = TRUE]
    /\ Goto(r, "enter")
    /\ UNCHANGED <<kind, lockVars, gateVars, saveVars, runVars, front>>

\* event.wait returned True: the answer decides.
TakeAnswer(r) ==
    /\ pc[r] = "waiting"
    /\ request[r].set
    /\ IF request[r].approved
       THEN /\ CloseRequest(r, "approved")
            /\ auto' = [auto EXCEPT ![r] = TRUE]
            /\ Goto(r, "enter")
       ELSE /\ CloseRequest(r, "declined")
            /\ UNCHANGED auto
            /\ Goto(r, "calls")
    /\ UNCHANGED <<kind, lockVars, gateVars, saveVars, runVars, front>>

\* Mutation: the timeout leaves the entry in _pending_confirms.
ConfirmTimeoutKeeps(r) ==
    /\ pc[r] = "waiting"
    /\ ~request[r].set
    /\ request' = [request EXCEPT ![r].verdict = "timedout"]
    /\ Goto(r, "calls")
    /\ UNCHANGED <<kind, auto, lockVars, gateVars, saveVars, runVars, front>>

\* Mutation: the wait ends only when the run is interrupted.
ConfirmUntilInterrupt(r) ==
    /\ pc[r] = "waiting"
    /\ ~request[r].set
    /\ stop[r]
    /\ CloseRequest(r, "timedout")
    /\ Goto(r, "calls")
    /\ UNCHANGED <<kind, auto, lockVars, gateVars, saveVars, runVars, front>>

\* 120 seconds without an answer: refuse.
ConfirmTimeout(r) ==
    /\ pc[r] = "waiting"
    /\ ~request[r].set
    /\ CloseRequest(r, "timedout")
    /\ Goto(r, "calls")
    /\ UNCHANGED <<kind, auto, lockVars, gateVars, saveVars, runVars, front>>

\* The call's result is appended to the history and published.
ToolResult(r) ==
    /\ pc[r] = "returned"
    /\ Goto(r, "calls")
    /\ UNCHANGED <<kind, auto, lockVars, gateVars, saveVars, runVars, request,
                   front>>

\* An exception out of the loop: _chat_worker publishes chat_failed.
Crash(r) ==
    /\ pc[r] = "raised"
    /\ Finish(r)
    /\ UNCHANGED <<kind, auto, lockVars, gateVars, saveVars, turn, calls,
                   stop, active, request, front>>

\* end_run: the None that closes the run's queue.
EndRun(r) ==
    /\ pc[r] = "ending"
    /\ Goto(r, "closed")
    /\ UNCHANGED <<kind, auto, lockVars, gateVars, saveVars, runVars, request,
                   front>>

Deregister(r) ==
    /\ pc[r] = "closed"
    /\ LockFree
    /\ active' = active \ {r}
    /\ Goto(r, "done")
    /\ UNCHANGED <<kind, auto, lockVars, gateVars, saveVars, turn, calls,
                   stop, request, front, terminals>>

Work(r) ==
    \/ OpenClient(r) \/ BeginTurn(r) \/ LastReply(r) \/ ToolReply(r)
    \/ NextCall(r) \/ EndOfCalls(r) \/ LookUpAction(r) \/ SkipRequest(r)
    \/ AskUser(r) \/ TakeAnswer(r) \/ ConfirmTimeout(r) \/ ToolResult(r)
    \/ Crash(r) \/ EndRun(r) \/ Deregister(r)

-----------------------------------------------------------------------------
(* Frontends.                                                              *)

\* _interrupt_run looks the event up under handlers._lock and sets it.
Interrupt(r) ==
    /\ LockFree
    /\ r \in active
    /\ stop' = [stop EXCEPT ![r] = TRUE]
    /\ UNCHANGED <<invokeVars, turn, calls, active, request, front, terminals>>

\* resolve_confirmation finds the pending request ...
FindRequest(f, r, a) ==
    /\ front[f] = IdleFront
    /\ request[r].open
    /\ front' = [front EXCEPT ![f] = [at |-> "found", run |-> r,
                                      no |-> request[r].no, approved |-> a]]
    /\ request' = [request EXCEPT ![r].given = @ \cup {a}]
    /\ UNCHANGED <<invokeVars, runVars>>

\* ... or returns False: the run no longer waits for that request.
AnswerNothing(f, r) ==
    /\ front[f] = IdleFront
    /\ request[r].no > 0
    /\ ~request[r].open
    /\ UNCHANGED vars

\* The request object the frontend holds is still the run's latest one.
Current(f) == request[front[f].run].no = front[f].no

\* ... then, outside the lock, writes the answer ...
WriteAnswer(f) ==
    /\ front[f].at = "found"
    /\ front' = [front EXCEPT ![f].at = "written"]
    /\ request' = IF Current(f)
                  THEN [request EXCEPT ![front[f].run].approved =
                          front[f].approved]
                  ELSE request
    /\ UNCHANGED <<invokeVars, runVars>>

\* ... sets the event ...
SetEvent(f) ==
    /\ front[f].at = "written"
    /\ front' = [front EXCEPT ![f].at = "set"]
    /\ request' = IF Current(f)
                  THEN [request EXCEPT ![front[f].run].set = TRUE]
                  ELSE request
    /\ UNCHANGED <<invokeVars, runVars>>

\* ... and publishes tool_confirm_resolved before it returns True.
PublishResolved(f) ==
    /\ front[f].at = "set"
    /\ front' = [front EXCEPT ![f] = IdleFront]
    /\ UNCHANGED <<invokeVars, runVars, request>>

Resolve(f) == WriteAnswer(f) \/ SetEvent(f) \/ PublishResolved(f)

-----------------------------------------------------------------------------

InvokeStep(t) == Invoke(t) /\ UNCHANGED <<runVars, request, front>>
RequestInvokeStep(c) ==
    RequestInvoke(c) /\ UNCHANGED <<runVars, request, front>>
SaveStep(s) == Save(s) /\ UNCHANGED <<runVars, request, front>>

\* Every run is over, every direct invocation has returned and every save is
\* complete: the program idles.
AllQuiet ==
    /\ \A r \in Runs : pc[r] = "done"
    /\ \A c \in Callers : pc[c] \in {"returned", "raised"}
    /\ \A s \in Savers : saver[s] = "saved"
    /\ UNCHANGED vars

Next ==
    \/ \E r \in Runs : StartRun(r) \/ Work(r) \/ Interrupt(r)
    \/ \E t \in Threads : InvokeStep(t)
    \/ \E c \in Callers : RequestInvokeStep(c)
    \/ \E s \in Savers : SaveStep(s)
    \/ \E f \in Frontends, r \in Runs, a \in BOOLEAN : FindRequest(f, r, a)
    \/ \E f \in Frontends, r \in Runs : AnswerNothing(f, r)
    \/ \E f \in Frontends : Resolve(f)
    \/ AllQuiet

Spec == Init /\ [][Next]_vars

\* Threads keep running: the model request has a timeout, a tool function
\* returns, the confirmation wait is bounded.  Nobody has to start a run,
\* answer, interrupt, or invoke.  Weak fairness is enough for the lock
\* because the model has finitely many invocations.
Fairness ==
    /\ \A r \in Runs : WF_vars(Work(r))
    /\ \A t \in Threads : WF_vars(InvokeStep(t))

FairSpec == Spec /\ Fairness
-----------------------------------------------------------------------------
(* Properties.                                                             *)

RunLabels == {"idle", "start", "turn", "model", "calls", "proposed",
              "consent", "waiting", "ending", "closed", "done"}

RequestType == [no : Nat, open : BOOLEAN, set : BOOLEAN, approved : BOOLEAN,
                given : SUBSET BOOLEAN,
                verdict : {"none", "open", "approved", "declined", "timedout"}]

FrontType == {IdleFront} \cup
             [at : {"found", "written", "set"}, run : Runs, no : Nat,
              approved : BOOLEAN]

\* The type invariant: every variable stays within the values the code can
\* give it; in particular the handlers' lock is owned by a thread or by none.
TypeOK ==
    /\ pc \in [Threads -> RunLabels \cup InvokeLabels]
    /\ kind \in [Threads -> Kinds]
    /\ auto \in [Threads -> BOOLEAN]
    /\ previous \in [Threads -> BOOLEAN]
    /\ holder \in Threads \cup {NoThread}
    /\ policy \in BOOLEAN
    /\ selfGate \in Gates
    /\ ctxGate \in Gates
    /\ approveAll \in [Gates -> BOOLEAN]
    /\ saver \in [Savers -> {"idle", "settings", "swapping", "saved"}]
    /\ turn \in [Runs -> 0..MaxTurns]
    /\ calls \in [Runs -> 0..MaxCalls]
    /\ stop \in [Runs -> BOOLEAN]
    /\ active \subseteq Runs
    /\ request \in [Runs -> RequestType]
    /\ front \in [Frontends -> FrontType]
    /\ terminals \in [Runs -> Nat]

\* The invocation thread t is in was confirmed: a frontend approved the
\* run's latest request, or the direct caller sent auto_confirm.
Confirmed(t) ==
    /\ auto[t]
    /\ t \in Runs => TRUE \in request[t].given

\* The temporary approval never outlives the invocation it was given for:
\* when handlers.gate approves everything, the thread inside handlers._lock
\* is one whose own invocation was confirmed (_invoke_action_sync's
\* try/finally, against concurrent invocations and gate replacement).
ApprovalIsScoped ==
    approveAll[selfGate] => /\ holder # NoThread
                            /\ Confirmed(holder)

\* An action the policy asks about starts only with the confirmation of this
\* very invocation; never on an approval another thread obtained, and never
\* after a declined or unanswered request.  The one exception is a settings
\* save that has replaced handlers.gate and not yet the context's reference.
AsksBeforeRunning ==
    [][\A t \in Threads :
         pc[t] = "gate" /\ pc'[t] = "running" => Confirmed(t) \/ Swapping]_vars

\* The same without the exception: what the confirmation gate is for.
NeverUnconfirmed ==
    [][\A t \in Threads :
         pc[t] = "gate" /\ pc'[t] = "running" => Confirmed(t)]_vars

\* Exactly one of chat_done and chat_failed is published for a run, before
\* the None that closes its queue, whichever way the run ends: reply, model
\* failure, interrupt, turn cap, or an exception out of the loop.
OneTerminalEvent ==
    \A r \in Runs :
        /\ terminals[r] <= 1
        /\ pc[r] \in {"ending", "closed", "done"} <=> terminals[r] = 1

\* A request is open exactly while its run waits for it: no ended or busy
\* run leaves an entry in _pending_confirms, and a run that waits can always
\* be answered.
RequestsAreLive ==
    \A r \in Runs : request[r].open <=> pc[r] = "waiting"

\* Every started run ends, also when nobody answers its requests and while
\* other invocations compete for the lock; its queue is closed.
RunsEnd == \A r \in Runs : pc[r] = "start" ~> pc[r] = "done"

\* Every direct invocation comes back, with a result or an exception.
InvocationsReturn ==
    \A c \in Callers : pc[c] = "enter" ~> pc[c] \in {"returned", "raised"}

\* "route its confirmation through the event bus": a run's call never
\* reaches the gate's NotImplementedError.
ConfirmationIsRouted == \A r \in Runs : pc[r] # "raised"

\* "respond with a follow-up INTERRUPT": a request whose run was interrupted
\* while it was waiting is not approved any more.
InterruptDeclines ==
    [][\A r \in Runs : pc[r] = "waiting" /\ stop[r] => ~auto'[r]]_vars

\* An answer resolve_confirmation accepted ("an approval typed in the browser
\* is never lost") is not refused as timed out.
AcceptedAnswerCounts ==
    \A f \in Frontends :
        front[f].at = "set" /\ Current(f) =>
            request[front[f].run].verdict # "timedout"
=============================================================================
