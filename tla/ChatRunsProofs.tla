--------------------------- MODULE ChatRunsProofs ---------------------------
(***************************************************************************)
(* Proofs about ChatRuns, for every number of runs, direct invocations,    *)
(* settings saves and frontends, and every bound on turns and calls.       *)
(***************************************************************************)
EXTENDS ChatRuns, TLAPS

USE DEF Threads, Gates

LEMMA TypeInit == Init => TypeOK
  BY ThreadAssumption, BoundAssumption
  DEF Init, InitInvoke, TypeOK, Kinds, RunLabels, InvokeLabels, NoRequest,
      RequestType, IdleFront, FrontType

\* The labels a thread moves to are labels, so pc keeps its type.
LEMMA GotoType ==
  ASSUME pc \in [Threads -> RunLabels \cup InvokeLabels],
         NEW t \in Threads, NEW label \in RunLabels \cup InvokeLabels,
         Goto(t, label)
  PROVE  pc' \in [Threads -> RunLabels \cup InvokeLabels]
  BY DEF Goto

LEMMA TypeInvoke ==
  ASSUME TypeOK, NEW t \in Threads, InvokeStep(t)
  PROVE  TypeOK'
<1> USE DEF TypeOK, runVars, InvokeLabels, Kinds
<1>1. CASE EnterInvoke(t)
  BY <1>1, GotoType DEF EnterInvoke, InvokeStep
<1>2. CASE RejectInvoke(t)
  BY <1>2, GotoType DEF RejectInvoke, InvokeStep
<1>3. CASE CheckPolicy(t)
  BY <1>3, GotoType DEF CheckPolicy, InvokeStep
<1>4. CASE AskGate(t)
  BY <1>4, GotoType DEF AskGate, InvokeStep
<1>5. CASE RunFunction(t)
  BY <1>5, GotoType DEF RunFunction, InvokeStep
<1>6. CASE LeaveInvoke(t)
  BY <1>6, GotoType DEF LeaveInvoke, InvokeStep
<1> QED
  BY <1>1, <1>2, <1>3, <1>4, <1>5, <1>6 DEF InvokeStep, Invoke

LEMMA TypeRequestInvoke ==
  ASSUME TypeOK, NEW c \in Callers, RequestInvokeStep(c)
  PROVE  TypeOK'
  BY GotoType
  DEF TypeOK, RequestInvokeStep, RequestInvoke, runVars, InvokeLabels, Kinds

LEMMA TypeSave ==
  ASSUME TypeOK, NEW s \in Savers, SaveStep(s)
  PROVE  TypeOK'
  BY DEF TypeOK, SaveStep, Save, SaveSettings, SwapGate, SyncContextGate,
         runVars

\* Updates of a record field by field keep its type.
LEMMA NewRequestType ==
  ASSUME NEW q \in RequestType
  PROVE  NewRequest(q.no + 1) \in RequestType
  BY DEF RequestType, NewRequest

LEMMA CloseRequestType ==
  ASSUME NEW q \in RequestType, NEW v \in {"approved", "declined", "timedout"}
  PROVE  [q EXCEPT !.open = FALSE, !.verdict = v] \in RequestType
  BY DEF RequestType

LEMMA AnswerType ==
  ASSUME NEW q \in RequestType, NEW a \in BOOLEAN
  PROVE  /\ [q EXCEPT !.given = @ \cup {a}] \in RequestType
         /\ [q EXCEPT !.approved = a] \in RequestType
         /\ [q EXCEPT !.set = TRUE] \in RequestType
  BY DEF RequestType

LEMMA FrontStepType ==
  ASSUME NEW q \in FrontType, q.at # "idle", NEW l \in {"written", "set"}
  PROVE  /\ [q EXCEPT !.at = l] \in FrontType
         /\ q.run \in Runs
         /\ q.approved \in BOOLEAN
  BY DEF FrontType, IdleFront

LEMMA TypeWork ==
  ASSUME TypeOK, NEW r \in Runs, Work(r)
  PROVE  TypeOK'
<1> USE BoundAssumption
    DEF TypeOK, lockVars, gateVars, saveVars, runVars, RunLabels, InvokeLabels
<1>1. CASE OpenClient(r)
  BY <1>1, GotoType DEF OpenClient, Finish
<1>2. CASE BeginTurn(r)
  BY <1>2, GotoType DEF BeginTurn, Finish
<1>3. CASE LastReply(r)
  BY <1>3, GotoType DEF LastReply, Finish
<1>4. CASE ToolReply(r)
  BY <1>4, GotoType DEF ToolReply
<1>5. CASE NextCall(r)
  BY <1>5, GotoType DEF NextCall, Finish
<1>6. CASE EndOfCalls(r)
  BY <1>6, GotoType DEF EndOfCalls
<1>7. CASE LookUpAction(r)
  BY <1>7, GotoType DEF LookUpAction, Finish
<1>8. CASE SkipRequest(r)
  BY <1>8, GotoType DEF SkipRequest
<1>9. CASE AskUser(r)
  BY <1>9, GotoType, NewRequestType DEF AskUser
<1>10. CASE TakeAnswer(r)
  <2>1. request' \in [Runs -> RequestType]
    <3>1. PICK v \in {"approved", "declined"} : CloseRequest(r, v)
      BY <1>10 DEF TakeAnswer
    <3> QED
      BY <3>1, CloseRequestType DEF CloseRequest
  <2>2. auto' \in [Threads -> BOOLEAN]
    BY <1>10 DEF TakeAnswer
  <2>3. pc' \in [Threads -> RunLabels \cup InvokeLabels]
    BY <1>10, GotoType DEF TakeAnswer
  <2> QED
    BY <1>10, <2>1, <2>2, <2>3 DEF TakeAnswer
<1>11. CASE ConfirmTimeout(r)
  BY <1>11, GotoType, CloseRequestType DEF ConfirmTimeout, CloseRequest
<1>12. CASE ToolResult(r)
  BY <1>12, GotoType DEF ToolResult
<1>13. CASE Crash(r)
  BY <1>13, GotoType DEF Crash, Finish
<1>14. CASE EndRun(r)
  BY <1>14, GotoType DEF EndRun
<1>15. CASE Deregister(r)
  BY <1>15, GotoType DEF Deregister
<1> QED
  BY <1>1, <1>2, <1>3, <1>4, <1>5, <1>6, <1>7, <1>8, <1>9, <1>10, <1>11, <1>12, <1>13, <1>14, <1>15 DEF Work

LEMMA TypeFrontends ==
  ASSUME TypeOK, NEW f \in Frontends,
         \/ \E r \in Runs, a \in BOOLEAN : FindRequest(f, r, a)
         \/ Resolve(f)
  PROVE  TypeOK'
<1> USE DEF TypeOK, invokeVars, runVars
<1>1. CASE \E r \in Runs, a \in BOOLEAN : FindRequest(f, r, a)
  <2> PICK r \in Runs, a \in BOOLEAN : FindRequest(f, r, a)
    BY <1>1
  <2>1. request' \in [Runs -> RequestType]
    BY AnswerType DEF FindRequest
  <2>2. front' \in [Frontends -> FrontType]
    BY DEF FindRequest, FrontType, RequestType
  <2> QED
    BY <2>1, <2>2 DEF FindRequest
<1>2. CASE WriteAnswer(f)
  BY <1>2, FrontStepType, AnswerType DEF WriteAnswer
<1>3. CASE SetEvent(f)
  BY <1>3, FrontStepType, AnswerType DEF SetEvent
<1>4. CASE PublishResolved(f)
  BY <1>4 DEF PublishResolved, FrontType
<1> QED
  BY <1>1, <1>2, <1>3, <1>4 DEF Resolve

LEMMA TypeUnchanged ==
  ASSUME TypeOK, UNCHANGED vars
  PROVE  TypeOK'
  BY DEF TypeOK, vars, invokeVars, RequestType, FrontType

LEMMA TypeStep == TypeOK /\ [Next]_vars => TypeOK'
<1> SUFFICES ASSUME TypeOK, [Next]_vars
             PROVE  TypeOK'
  OBVIOUS
<1>1. ASSUME NEW r \in Runs, StartRun(r)
      PROVE  TypeOK'
  BY <1>1, GotoType DEF StartRun, TypeOK, lockVars, gateVars, saveVars,
                        RunLabels
<1>2. ASSUME NEW r \in Runs, Interrupt(r)
      PROVE  TypeOK'
  BY <1>2 DEF Interrupt, TypeOK, invokeVars
<1>3. CASE UNCHANGED vars
  BY <1>3, TypeUnchanged
<1> QED
  BY <1>1, <1>2, <1>3, TypeWork, TypeInvoke, TypeRequestInvoke, TypeSave,
     TypeFrontends DEF Next, AllQuiet, AnswerNothing

\* Every variable of a chat run keeps its type, whatever the number of
\* threads; the step lemmas below need it.
THEOREM TypeCorrect == Spec => []TypeOK
  BY TypeInit, TypeStep, PTL DEF Spec

-----------------------------------------------------------------------------
(* The gate.  ApprovalIsScoped is not inductive: it needs to know that the *)
(* lock is held exactly by the thread inside _invoke_action_sync, that     *)
(* that thread found the flag off, that a gate still to be installed is    *)
(* off, and that an approval a run acts on was submitted by a frontend.    *)

LockInv == \A t \in Threads : pc[t] \in LockedLabels <=> holder = t

\* Only the confirmed invocation inside the lock has switched the current
\* gate on, and it will switch it off again.
FlagInv ==
    /\ approveAll[selfGate] => holder # NoThread /\ auto[holder]
    /\ holder # NoThread => ~previous[holder]

\* A gate is off until its save installs it, and the two references differ
\* only while some save is between its two writes.
SwapInv ==
    /\ \A s \in Savers :
          saver[s] \in {"idle", "settings"} => ~approveAll[s] /\ selfGate # s
    /\ ctxGate # selfGate => Swapping

\* An approval in a request was submitted to that request, and a run carries
\* no confirmation into its next request.
RequestInv ==
    \A r \in Runs :
        /\ request[r].approved => TRUE \in request[r].given
        /\ pc[r] \in {"consent", "waiting"} => ~auto[r]
        /\ pc[r] \in LockedLabels \cup {"enter"} /\ auto[r] =>
              TRUE \in request[r].given

\* A frontend holds a request that was made, and what it is about to write
\* was submitted.
FrontInv ==
    \A f \in Frontends : front[f].at # "idle" =>
        /\ front[f].no <= request[front[f].run].no
        /\ front[f].no = request[front[f].run].no /\ front[f].at = "found" =>
              front[f].approved \in request[front[f].run].given

AnswerInv == RequestInv /\ FrontInv

GateInv == LockInv /\ FlagInv /\ SwapInv /\ AnswerInv

LEMMA GateInit == Init => GateInv
<1> SUFFICES ASSUME Init
             PROVE  GateInv
  OBVIOUS
<1> USE ThreadAssumption DEF Init, InitInvoke
<1>1. LockInv /\ FlagInv
  BY DEF LockInv, FlagInv, LockedLabels
<1>2. SwapInv
  BY DEF SwapInv
<1>3. AnswerInv
  BY DEF AnswerInv, RequestInv, FrontInv, NoRequest, IdleFront, LockedLabels
<1> QED
  BY <1>1, <1>2, <1>3 DEF GateInv

\* A step of a thread outside the lock, to a label outside the lock.
LEMMA OutsideStep ==
  ASSUME TypeOK, LockInv, FlagInv,
         NEW t \in Threads, NEW l \in RunLabels \cup InvokeLabels,
         pc[t] \notin LockedLabels, l \notin LockedLabels, Goto(t, l),
         \A u \in Threads : u # t => auto'[u] = auto[u],
         UNCHANGED <<holder, previous, approveAll, selfGate>>
  PROVE  LockInv' /\ FlagInv'
  BY DEF TypeOK, LockInv, FlagInv, Goto, LockedLabels

LEMMA GateInvoke ==
  ASSUME TypeOK, GateInv, NEW t \in Threads, InvokeStep(t)
  PROVE  GateInv'
<1> USE ThreadAssumption DEF LockedLabels, InvokeStep, runVars
<1>1. CASE EnterInvoke(t)
  <2>1. LockInv'
    BY <1>1 DEF TypeOK, GateInv, LockInv, EnterInvoke, Goto, LockFree
  <2>2. FlagInv'
    BY <1>1 DEF TypeOK, GateInv, FlagInv, EnterInvoke, LockFree
  <2>3. SwapInv'
    BY <1>1 DEF TypeOK, GateInv, SwapInv, EnterInvoke, Swapping
  <2>4. AnswerInv'
    BY <1>1 DEF TypeOK, GateInv, AnswerInv, RequestInv, FrontInv, EnterInvoke, Goto
  <2> QED
    BY <2>1, <2>2, <2>3, <2>4 DEF GateInv
<1>2. CASE RejectInvoke(t) \/ CheckPolicy(t) \/ AskGate(t) \/ RunFunction(t)
  <2> USE DEF RejectInvoke, CheckPolicy, AskGate, RunFunction
  <2>1. LockInv'
    BY <1>2 DEF TypeOK, GateInv, LockInv, Goto
  <2>2. FlagInv' /\ SwapInv'
    BY <1>2 DEF GateInv, FlagInv, SwapInv, Swapping
  <2>3. PICK l \in {"leave", "gate", "running", "abort"} :
          pc[t] \in LockedLabels /\ pc' = [pc EXCEPT ![t] = l]
          /\ UNCHANGED <<auto, request, front>>
    BY <1>2 DEF Goto
  <2>4. RequestInv'
    BY <2>3 DEF TypeOK, GateInv, AnswerInv, RequestInv
  <2>5. FrontInv'
    BY <2>3 DEF GateInv, AnswerInv, FrontInv
  <2> QED
    BY <2>1, <2>2, <2>4, <2>5 DEF GateInv, AnswerInv
<1>3. CASE LeaveInvoke(t)
  <2>1. holder = t
    BY <1>3 DEF GateInv, LockInv, LeaveInvoke
  <2>2. LockInv'
    BY <1>3, <2>1 DEF TypeOK, GateInv, LockInv, LeaveInvoke, Goto
  <2>3. FlagInv'
    BY <1>3, <2>1 DEF TypeOK, GateInv, FlagInv, LeaveInvoke
  <2>4. SwapInv'
    BY <1>3, <2>1 DEF TypeOK, GateInv, FlagInv, SwapInv, LeaveInvoke, Swapping
  <2>5. AnswerInv'
    BY <1>3 DEF TypeOK, GateInv, AnswerInv, RequestInv, FrontInv, LeaveInvoke, Goto
  <2> QED
    BY <2>2, <2>3, <2>4, <2>5 DEF GateInv
<1> QED
  BY <1>1, <1>2, <1>3 DEF Invoke

LEMMA GateRequestInvoke ==
  ASSUME TypeOK, GateInv, NEW c \in Callers, RequestInvokeStep(c)
  PROVE  GateInv'
<1> USE DEF RequestInvokeStep, RequestInvoke, runVars
<1>1. LockInv' /\ FlagInv'
  BY OutsideStep DEF TypeOK, GateInv, LockedLabels, InvokeLabels
<1>2. SwapInv'
  BY DEF GateInv, SwapInv, Swapping
<1>3. AnswerInv'
  <2>1. \A r \in Runs : pc'[r] = pc[r] /\ auto'[r] = auto[r]
    BY ThreadAssumption DEF TypeOK, Goto
  <2> QED
    BY <2>1 DEF GateInv, AnswerInv, RequestInv, FrontInv
<1> QED
  BY <1>1, <1>2, <1>3 DEF GateInv

LEMMA GateSave ==
  ASSUME TypeOK, GateInv, NEW s \in Savers, SaveStep(s)
  PROVE  GateInv'
<1> USE DEF SaveStep, Save, SaveSettings, SwapGate, SyncContextGate, runVars
<1>1. LockInv'
  BY DEF GateInv, LockInv
<1>2. FlagInv'
  BY DEF TypeOK, GateInv, FlagInv, SwapInv
<1>3. SwapInv'
  BY ThreadAssumption DEF TypeOK, GateInv, SwapInv, Swapping
<1>4. AnswerInv'
  BY DEF GateInv, AnswerInv, RequestInv, FrontInv
<1> QED
  BY <1>1, <1>2, <1>3, <1>4 DEF GateInv

\* What a step of a worker outside _invoke_action_sync leaves alone.
LEMMA WorkFrame ==
  ASSUME TypeOK, NEW r \in Runs, Work(r)
  PROVE  /\ UNCHANGED <<holder, previous, selfGate, ctxGate, approveAll,
                        policy, saver, front>>
         /\ \A u \in Threads : u # r => auto'[u] = auto[u]
         /\ pc[r] \notin LockedLabels
         /\ \E l \in (RunLabels \cup {"enter"}) : Goto(r, l)
<1> USE DEF TypeOK, lockVars, gateVars, saveVars, LockedLabels, RunLabels
<1>1. CASE OpenClient(r) \/ BeginTurn(r) \/ LastReply(r) \/ ToolReply(r)
  BY <1>1 DEF OpenClient, BeginTurn, LastReply, ToolReply, Finish
<1>2. CASE NextCall(r) \/ EndOfCalls(r) \/ LookUpAction(r) \/ SkipRequest(r)
  BY <1>2 DEF NextCall, EndOfCalls, LookUpAction, SkipRequest, Finish
<1>3. CASE AskUser(r) \/ TakeAnswer(r) \/ ConfirmTimeout(r)
  BY <1>3 DEF AskUser, TakeAnswer, ConfirmTimeout
<1>4. CASE ToolResult(r) \/ Crash(r) \/ EndRun(r) \/ Deregister(r)
  BY <1>4 DEF ToolResult, Crash, EndRun, Deregister, Finish
<1> QED
  BY <1>1, <1>2, <1>3, <1>4 DEF Work

\* Closing a request keeps its number and its answers.
LEMMA CloseKeeps ==
  ASSUME TypeOK, NEW r \in Runs,
         NEW v \in {"approved", "declined", "timedout"}, CloseRequest(r, v)
  PROVE  \A u \in Runs : /\ request'[u].no = request[u].no
                         /\ request'[u].given = request[u].given
                         /\ request'[u].approved = request[u].approved
  BY DEF TypeOK, CloseRequest, RequestType

\* A run's step touches no request but its own, which keeps its number and
\* its answers unless the run makes a new one.
LEMMA WorkRequest ==
  ASSUME TypeOK, NEW r \in Runs, Work(r)
  PROVE  /\ \A u \in Runs : u # r => request'[u] = request[u]
         /\ \/ /\ request'[r].no = request[r].no
               /\ request'[r].given = request[r].given
               /\ request'[r].approved = request[r].approved
            \/ /\ request'[r].no = request[r].no + 1
               /\ ~request'[r].approved
               /\ AskUser(r)
<1>1. CASE AskUser(r)
  BY <1>1 DEF TypeOK, AskUser, NewRequest
<1>2. CASE TakeAnswer(r)
  <2>1. PICK v \in {"approved", "declined"} : CloseRequest(r, v)
    BY <1>2 DEF TakeAnswer
  <2> QED
    BY <2>1, CloseKeeps DEF TypeOK, CloseRequest
<1>3. CASE ConfirmTimeout(r)
  BY <1>3, CloseKeeps DEF TypeOK, ConfirmTimeout, CloseRequest
<1>4. CASE request' = request
  BY <1>4
<1> QED
  BY <1>1, <1>2, <1>3, <1>4
  DEF Work, OpenClient, BeginTurn, LastReply, ToolReply, NextCall, EndOfCalls,
      LookUpAction, SkipRequest, ToolResult, Crash, EndRun, Deregister, runVars

\* A run starts an invocation as unconfirmed, or with the approval it read.
LEMMA WorkConfirms ==
  ASSUME TypeOK, RequestInv, NEW r \in Runs, Work(r)
  PROVE  /\ pc'[r] \in {"consent", "waiting"} => ~auto'[r]
         /\ pc'[r] \in LockedLabels \cup {"enter"} /\ auto'[r] =>
              ~AskUser(r) /\ request[r].approved
<1> USE DEF TypeOK, RequestInv, LockedLabels, Goto
<1>1. CASE OpenClient(r) \/ BeginTurn(r) \/ LastReply(r) \/ ToolReply(r)
  BY <1>1 DEF OpenClient, BeginTurn, LastReply, ToolReply, Finish
<1>2. CASE NextCall(r) \/ EndOfCalls(r) \/ LookUpAction(r) \/ SkipRequest(r)
  BY <1>2 DEF NextCall, EndOfCalls, LookUpAction, SkipRequest, Finish
<1>3. CASE AskUser(r) \/ TakeAnswer(r) \/ ConfirmTimeout(r)
  BY <1>3 DEF AskUser, TakeAnswer, ConfirmTimeout
<1>4. CASE ToolResult(r) \/ Crash(r) \/ EndRun(r) \/ Deregister(r)
  BY <1>4 DEF ToolResult, Crash, EndRun, Deregister, Finish
<1> QED
  BY <1>1, <1>2, <1>3, <1>4 DEF Work

\* What the type invariant says of a frontend in the middle of an answer.
LEMMA FrontFacts ==
  ASSUME TypeOK
  PROVE  /\ \A r \in Runs : request[r].no \in Nat
         /\ \A f \in Frontends : front[f].at # "idle" =>
                /\ front[f].run \in Runs
                /\ front[f].no \in Nat
                /\ front[f].approved \in BOOLEAN
  BY DEF TypeOK, RequestType, FrontType, IdleFront

LEMMA AnswerWork ==
  ASSUME TypeOK, AnswerInv, NEW r \in Runs, Work(r)
  PROVE  AnswerInv'
<1>1. RequestInv'
  <2> SUFFICES ASSUME NEW u \in Runs
               PROVE  /\ request'[u].approved => TRUE \in request'[u].given
                      /\ pc'[u] \in {"consent", "waiting"} => ~auto'[u]
                      /\ pc'[u] \in LockedLabels \cup {"enter"} /\ auto'[u] =>
                            TRUE \in request'[u].given
    BY DEF RequestInv
  <2>1. CASE u # r
    <3>1. pc'[u] = pc[u] /\ auto'[u] = auto[u]
      BY <2>1, WorkFrame DEF TypeOK, Goto
    <3> QED
      BY <2>1, <3>1, WorkRequest DEF AnswerInv, RequestInv
  <2>2. CASE u = r
    BY <2>2, WorkRequest, WorkConfirms DEF AnswerInv, RequestInv
  <2> QED
    BY <2>1, <2>2
<1>2. FrontInv'
  <2> SUFFICES ASSUME NEW f \in Frontends, front[f].at # "idle"
               PROVE  /\ front[f].no <= request'[front[f].run].no
                      /\ /\ front[f].no = request'[front[f].run].no
                         /\ front[f].at = "found"
                         => front[f].approved \in request'[front[f].run].given
    BY WorkFrame DEF FrontInv
  <2> QED
    BY WorkRequest, FrontFacts DEF AnswerInv, FrontInv
<1> QED
  BY <1>1, <1>2 DEF AnswerInv

LEMMA GateWork ==
  ASSUME TypeOK, GateInv, NEW r \in Runs, Work(r)
  PROVE  GateInv'
<1>1. PICK l \in (RunLabels \cup {"enter"}) : Goto(r, l)
  BY WorkFrame
<1>2. LockInv' /\ FlagInv'
  BY <1>1, WorkFrame, OutsideStep
  DEF GateInv, RunLabels, InvokeLabels, LockedLabels
<1>3. SwapInv'
  BY WorkFrame DEF GateInv, SwapInv, Swapping
<1>4. AnswerInv'
  BY AnswerWork DEF GateInv
<1> QED
  BY <1>2, <1>3, <1>4 DEF GateInv

\* A step of a frontend: it submits an answer to the request it finds, or
\* writes what it submitted.
LEMMA FrontStep ==
  ASSUME TypeOK, NEW f \in Frontends,
         \/ \E r \in Runs, a \in BOOLEAN : FindRequest(f, r, a)
         \/ Resolve(f)
  PROVE  /\ \A g \in Frontends : g # f => front'[g] = front[g]
         /\ \A u \in Runs :
               /\ request'[u].no = request[u].no
               /\ request[u].given \subseteq request'[u].given
               /\ request'[u].approved =>
                    \/ request[u].approved
                    \/ /\ front[f].at = "found"
                       /\ front[f].run = u
                       /\ front[f].no = request[u].no
                       /\ front[f].approved
         /\ front'[f].at # "idle" =>
               /\ front'[f].run \in Runs
               /\ \/ /\ front[f].at # "idle"
                     /\ front'[f].at # "found"
                     /\ front'[f].run = front[f].run
                     /\ front'[f].no = front[f].no
                  \/ /\ front'[f].no = request[front'[f].run].no
                     /\ front'[f].approved \in request'[front'[f].run].given
<1>1. CASE \E r \in Runs, a \in BOOLEAN : FindRequest(f, r, a)
  <2>1. PICK r \in Runs, a \in BOOLEAN : FindRequest(f, r, a)
    BY <1>1
  <2>2. /\ \A u \in Runs : /\ request'[u].no = request[u].no
                           /\ request'[u].approved = request[u].approved
                           /\ request[u].given \subseteq request'[u].given
        /\ a \in request'[r].given
    BY <2>1 DEF TypeOK, RequestType, FindRequest
  <2>3. /\ front'[f] = [at |-> "found", run |-> r, no |-> request[r].no,
                        approved |-> a]
        /\ \A g \in Frontends : g # f => front'[g] = front[g]
    BY <2>1 DEF TypeOK, FindRequest
  <2> QED
    BY <2>2, <2>3
<1>2. CASE WriteAnswer(f)
  <2>1. /\ front[f].at = "found"
        /\ front'[f].at = "written"
        /\ front'[f].run = front[f].run
        /\ front'[f].no = front[f].no
        /\ \A g \in Frontends : g # f => front'[g] = front[g]
    BY <1>2 DEF TypeOK, WriteAnswer, FrontType, IdleFront
  <2>2. \A u \in Runs :
           /\ request'[u].no = request[u].no
           /\ request'[u].given = request[u].given
           /\ request'[u].approved => \/ request[u].approved
                                      \/ /\ u = front[f].run
                                         /\ front[f].no = request[u].no
                                         /\ front[f].approved
    BY <1>2, <2>1, FrontFacts DEF TypeOK, WriteAnswer, Current, RequestType
  <2> QED
    BY <2>1, <2>2, FrontFacts
<1>3. CASE SetEvent(f)
  <2>1. /\ front[f].at = "written"
        /\ front'[f].at = "set"
        /\ front'[f].run = front[f].run
        /\ front'[f].no = front[f].no
        /\ \A g \in Frontends : g # f => front'[g] = front[g]
    BY <1>3 DEF TypeOK, SetEvent, FrontType, IdleFront
  <2>2. \A u \in Runs : /\ request'[u].no = request[u].no
                        /\ request'[u].given = request[u].given
                        /\ request'[u].approved = request[u].approved
    BY <1>3, <2>1, FrontFacts DEF TypeOK, SetEvent, Current, RequestType
  <2> QED
    BY <2>1, <2>2, FrontFacts
<1>4. CASE PublishResolved(f)
  BY <1>4 DEF TypeOK, PublishResolved, IdleFront
<1> QED
  BY <1>1, <1>2, <1>3, <1>4 DEF Resolve

LEMMA AnswerFrontends ==
  ASSUME TypeOK, AnswerInv, NEW f \in Frontends,
         \/ \E r \in Runs, a \in BOOLEAN : FindRequest(f, r, a)
         \/ Resolve(f)
  PROVE  AnswerInv'
<1>1. UNCHANGED <<pc, auto>>
  BY DEF FindRequest, Resolve, WriteAnswer, SetEvent, PublishResolved,
         invokeVars
<1>2. RequestInv'
  <2> SUFFICES ASSUME NEW u \in Runs
               PROVE  /\ request'[u].approved => TRUE \in request'[u].given
                      /\ request[u].given \subseteq request'[u].given
    BY <1>1 DEF AnswerInv, RequestInv
  <2>1. /\ request[u].given \subseteq request'[u].given
        /\ request'[u].approved =>
              \/ request[u].approved
              \/ /\ front[f].at = "found"
                 /\ front[f].run = u
                 /\ front[f].no = request[u].no
                 /\ front[f].approved
    BY FrontStep
  <2>2. front[f].at # "idle" => front[f].approved \in BOOLEAN
    BY FrontFacts
  <2> QED
    BY <2>1, <2>2 DEF AnswerInv, RequestInv, FrontInv
<1>3. FrontInv'
  <2> SUFFICES ASSUME NEW g \in Frontends, front'[g].at # "idle"
               PROVE  /\ front'[g].no <= request'[front'[g].run].no
                      /\ /\ front'[g].no = request'[front'[g].run].no
                         /\ front'[g].at = "found"
                         => front'[g].approved \in
                              request'[front'[g].run].given
    BY DEF FrontInv
  <2>1. CASE g # f
    BY <2>1, FrontStep, FrontFacts DEF AnswerInv, FrontInv
  <2>2. CASE g = f
    BY <2>2, FrontStep, FrontFacts DEF AnswerInv, FrontInv
  <2> QED
    BY <2>1, <2>2
<1> QED
  BY <1>2, <1>3 DEF AnswerInv

LEMMA GateFrontends ==
  ASSUME TypeOK, GateInv, NEW f \in Frontends,
         \/ \E r \in Runs, a \in BOOLEAN : FindRequest(f, r, a)
         \/ Resolve(f)
  PROVE  GateInv'
<1> USE DEF FindRequest, Resolve, WriteAnswer, SetEvent, PublishResolved,
            invokeVars
<1>1. LockInv' /\ FlagInv' /\ SwapInv'
  BY DEF GateInv, LockInv, FlagInv, SwapInv, Swapping
<1>2. AnswerInv'
  BY AnswerFrontends DEF GateInv
<1> QED
  BY <1>1, <1>2 DEF GateInv

LEMMA GateStep == TypeOK /\ GateInv /\ [Next]_vars => GateInv'
<1> SUFFICES ASSUME TypeOK, GateInv, [Next]_vars
             PROVE  GateInv'
  OBVIOUS
<1>1. ASSUME NEW r \in Runs, StartRun(r)
      PROVE  GateInv'
  <2> USE <1>1 DEF StartRun, lockVars, gateVars, saveVars
  <2>1. LockInv' /\ FlagInv'
    BY OutsideStep DEF TypeOK, GateInv, LockedLabels, RunLabels
  <2>2. SwapInv'
    BY DEF GateInv, SwapInv, Swapping
  <2>3. AnswerInv'
    BY DEF TypeOK, GateInv, AnswerInv, RequestInv, FrontInv, Goto, LockedLabels
  <2> QED
    BY <2>1, <2>2, <2>3 DEF GateInv
<1>2. CASE UNCHANGED <<invokeVars, request, front>>
  BY <1>2 DEF GateInv, LockInv, FlagInv, SwapInv, Swapping, AnswerInv,
              RequestInv, FrontInv, invokeVars
<1> QED
  BY <1>1, <1>2, GateWork, GateInvoke, GateRequestInvoke, GateSave,
     GateFrontends DEF Next, AllQuiet, AnswerNothing, Interrupt, vars

THEOREM GateInvariant == Spec => []GateInv
  BY TypeCorrect, GateInit, GateStep, PTL DEF Spec

\* No approval outlives the invocation it was given for: while handlers.gate
\* approves everything, the lock is held by a confirmed invocation.
THEOREM ApprovalScoped == Spec => []ApprovalIsScoped
<1>1. TypeOK /\ GateInv => ApprovalIsScoped
  <2> SUFFICES ASSUME TypeOK, GateInv, approveAll[selfGate]
               PROVE  holder # NoThread /\ Confirmed(holder)
    BY DEF ApprovalIsScoped
  <2>1. holder \in Threads /\ auto[holder]
    BY DEF TypeOK, GateInv, FlagInv
  <2>2. pc[holder] \in LockedLabels
    BY <2>1 DEF GateInv, LockInv
  <2> QED
    BY <2>1, <2>2, ThreadAssumption DEF Confirmed, GateInv, AnswerInv, RequestInv
<1> QED
  BY <1>1, TypeCorrect, GateInvariant, PTL

\* Only run_action's gate check takes a thread from "gate" to "running".
LEMMA OnlyAskGate ==
  ASSUME TypeOK, Next, NEW t \in Threads, pc[t] = "gate", pc'[t] = "running"
  PROVE  AskGate(t)
<1>1. ASSUME NEW r \in Runs, StartRun(r) \/ Interrupt(r)
      PROVE  FALSE
  BY <1>1 DEF TypeOK, StartRun, Interrupt, Goto, invokeVars
<1>2. ASSUME NEW r \in Runs, Work(r)
      PROVE  FALSE
  BY <1>2, WorkFrame DEF TypeOK, Goto, LockedLabels
<1>3. ASSUME NEW u \in Threads, InvokeStep(u)
      PROVE  AskGate(t)
  BY <1>3 DEF TypeOK, InvokeStep, Invoke, EnterInvoke, RejectInvoke,
              CheckPolicy, AskGate, RunFunction, LeaveInvoke, Goto
<1>4. ASSUME NEW c \in Callers, RequestInvokeStep(c)
      PROVE  FALSE
  BY <1>4 DEF TypeOK, RequestInvokeStep, RequestInvoke, Goto
<1>5. CASE UNCHANGED pc
  BY <1>5
<1> QED
  BY <1>1, <1>2, <1>3, <1>4, <1>5
  DEF Next, SaveStep, Save, SaveSettings, SwapGate, SyncContextGate,
      FindRequest, AnswerNothing, Resolve, WriteAnswer, SetEvent,
      PublishResolved, AllQuiet, vars, invokeVars

\* The gate lets a risky action start only for a confirmed invocation, except
\* while a settings save is between its two writes.
LEMMA ConfirmedOrSwapping ==
  ASSUME TypeOK, GateInv, NEW t \in Threads, AskGate(t), pc'[t] = "running"
  PROVE  Confirmed(t) \/ Swapping
<1>1. approveAll[ctxGate]
  BY DEF AskGate, Goto, TypeOK
<1>2. CASE ctxGate = selfGate
  <2>1. holder = t
    BY DEF GateInv, LockInv, AskGate, LockedLabels
  <2>2. auto[t]
    BY <1>1, <1>2, <2>1 DEF GateInv, FlagInv
  <2> QED
    BY <2>2 DEF Confirmed, GateInv, AnswerInv, RequestInv, AskGate,
                LockedLabels
<1>3. CASE ctxGate # selfGate
  BY <1>3 DEF GateInv, SwapInv
<1> QED
  BY <1>2, <1>3

\* No action the policy asks about starts on somebody else's approval, after
\* a refusal or after silence.
THEOREM AskedBeforeRunning == Spec => AsksBeforeRunning
<1>1. TypeOK /\ GateInv /\ [Next]_vars =>
        [\A t \in Threads :
           pc[t] = "gate" /\ pc'[t] = "running" => Confirmed(t) \/ Swapping]_vars
  BY OnlyAskGate, ConfirmedOrSwapping
<1> QED
  BY <1>1, TypeCorrect, GateInvariant, PTL DEF Spec, AsksBeforeRunning

\* When the settings are never saved, the exception goes.
THEOREM UnconfirmedNever ==
  ASSUME Savers = {}
  PROVE  Spec => NeverUnconfirmed
<1>1. TypeOK /\ GateInv /\ [Next]_vars =>
        [\A t \in Threads :
           pc[t] = "gate" /\ pc'[t] = "running" => Confirmed(t)]_vars
  BY OnlyAskGate, ConfirmedOrSwapping DEF Swapping
<1> QED
  BY <1>1, TypeCorrect, GateInvariant, PTL DEF Spec, NeverUnconfirmed

-----------------------------------------------------------------------------
(* How runs end, and the requests they leave.                              *)

\* OneTerminalEvent says too little of a run that has not ended.
TerminalInv ==
    \A r \in Runs :
        terminals[r] = IF pc[r] \in {"ending", "closed", "done"} THEN 1 ELSE 0

EndInv == TerminalInv /\ RequestsAreLive

LEMMA EndInvoke ==
  ASSUME TypeOK, EndInv, NEW t \in Threads, InvokeStep(t)
  PROVE  EndInv'
  BY DEF TypeOK, EndInv, TerminalInv, RequestsAreLive, InvokeStep, Invoke,
         EnterInvoke, RejectInvoke, CheckPolicy, AskGate, RunFunction,
         LeaveInvoke, Goto, runVars

LEMMA EndWork ==
  ASSUME TypeOK, EndInv, NEW r \in Runs, Work(r)
  PROVE  EndInv'
<1> USE DEF TypeOK, Goto, runVars
<1>1. TerminalInv'
  <2> USE DEF EndInv, TerminalInv
  <2>1. CASE OpenClient(r) \/ BeginTurn(r) \/ LastReply(r) \/ ToolReply(r)
    BY <2>1 DEF OpenClient, BeginTurn, LastReply, ToolReply, Finish
  <2>2. CASE NextCall(r) \/ EndOfCalls(r) \/ LookUpAction(r) \/ SkipRequest(r)
    BY <2>2 DEF NextCall, EndOfCalls, LookUpAction, SkipRequest, Finish
  <2>3. CASE AskUser(r) \/ TakeAnswer(r) \/ ConfirmTimeout(r)
    BY <2>3 DEF AskUser, TakeAnswer, ConfirmTimeout
  <2>4. CASE ToolResult(r) \/ Crash(r) \/ EndRun(r) \/ Deregister(r)
    BY <2>4 DEF ToolResult, Crash, EndRun, Deregister, Finish
  <2> QED
    BY <2>1, <2>2, <2>3, <2>4 DEF Work
<1>2. RequestsAreLive'
  <2> USE DEF EndInv, RequestsAreLive
  <2>1. CASE AskUser(r)
    BY <2>1 DEF AskUser, NewRequest
  <2>2. CASE TakeAnswer(r)
    <3>1. PICK v \in {"approved", "declined"} : CloseRequest(r, v)
      BY <2>2 DEF TakeAnswer
    <3>2. /\ ~request'[r].open
          /\ \A u \in Runs : u # r => request'[u] = request[u]
      BY <3>1 DEF CloseRequest, RequestType
    <3> QED
      BY <2>2, <3>2 DEF TakeAnswer
  <2>3. CASE ConfirmTimeout(r)
    <3>1. /\ ~request'[r].open
          /\ \A u \in Runs : u # r => request'[u] = request[u]
      BY <2>3 DEF ConfirmTimeout, CloseRequest, RequestType
    <3> QED
      BY <2>3, <3>1 DEF ConfirmTimeout
  <2>4. CASE OpenClient(r) \/ BeginTurn(r) \/ LastReply(r) \/ ToolReply(r)
    BY <2>4 DEF OpenClient, BeginTurn, LastReply, ToolReply, Finish
  <2>5. CASE NextCall(r) \/ EndOfCalls(r) \/ LookUpAction(r) \/ SkipRequest(r)
    BY <2>5 DEF NextCall, EndOfCalls, LookUpAction, SkipRequest, Finish
  <2>6. CASE ToolResult(r) \/ Crash(r) \/ EndRun(r) \/ Deregister(r)
    BY <2>6 DEF ToolResult, Crash, EndRun, Deregister, Finish
  <2> QED
    BY <2>1, <2>2, <2>3, <2>4, <2>5, <2>6 DEF Work
<1> QED
  BY <1>1, <1>2 DEF EndInv

\* Answering touches neither a run's place nor the openness of a request.
LEMMA EndFrontends ==
  ASSUME TypeOK, EndInv, NEW f \in Frontends,
         \/ \E r \in Runs, a \in BOOLEAN : FindRequest(f, r, a)
         \/ Resolve(f)
  PROVE  EndInv'
<1>1. UNCHANGED <<pc, terminals>>
  BY DEF FindRequest, Resolve, WriteAnswer, SetEvent, PublishResolved,
         invokeVars, runVars
<1>2. \A u \in Runs : request'[u].open = request[u].open
  <2>1. CASE \E r \in Runs, a \in BOOLEAN : FindRequest(f, r, a)
    BY <2>1 DEF TypeOK, RequestType, FindRequest
  <2>2. CASE WriteAnswer(f)
    BY <2>2, FrontFacts DEF TypeOK, RequestType, WriteAnswer
  <2>3. CASE SetEvent(f)
    BY <2>3, FrontFacts DEF TypeOK, RequestType, SetEvent
  <2>4. CASE PublishResolved(f)
    BY <2>4 DEF PublishResolved
  <2> QED
    BY <2>1, <2>2, <2>3, <2>4 DEF Resolve
<1> QED
  BY <1>1, <1>2 DEF EndInv, TerminalInv, RequestsAreLive

THEOREM EndInvariant == Spec => []EndInv
<1>1. Init => EndInv
  BY DEF Init, InitInvoke, EndInv, TerminalInv, RequestsAreLive, NoRequest
<1>2. TypeOK /\ EndInv /\ [Next]_vars => EndInv'
  <2> SUFFICES ASSUME TypeOK, EndInv, [Next]_vars
               PROVE  EndInv'
    OBVIOUS
  <2>1. ASSUME NEW r \in Runs, StartRun(r)
        PROVE  EndInv'
    BY <2>1 DEF StartRun, TypeOK, EndInv, TerminalInv, RequestsAreLive, Goto
  <2>2. ASSUME NEW c \in Callers, RequestInvokeStep(c)
        PROVE  EndInv'
    BY <2>2, ThreadAssumption
    DEF RequestInvokeStep, RequestInvoke, TypeOK, EndInv, TerminalInv,
        RequestsAreLive, Goto, runVars
  <2>3. CASE UNCHANGED <<pc, request, terminals>>
    BY <2>3 DEF EndInv, TerminalInv, RequestsAreLive
  <2> QED
    BY <2>1, <2>2, <2>3, EndWork, EndInvoke, EndFrontends
    DEF Next, Interrupt, AnswerNothing, AllQuiet, SaveStep, Save,
        SaveSettings, SwapGate, SyncContextGate, runVars, vars, invokeVars
<1> QED
  BY <1>1, <1>2, TypeCorrect, PTL DEF Spec

\* A run that ends publishes exactly one of chat_done and chat_failed.
THEOREM OneTerminal == Spec => []OneTerminalEvent
<1>1. EndInv => OneTerminalEvent
  <2> SUFFICES ASSUME EndInv, NEW r \in Runs
               PROVE  /\ terminals[r] <= 1
                      /\ pc[r] \in {"ending", "closed", "done"}
                           <=> terminals[r] = 1
    BY DEF OneTerminalEvent
  <2>1. terminals[r] =
          IF pc[r] \in {"ending", "closed", "done"} THEN 1 ELSE 0
    BY DEF EndInv, TerminalInv
  <2> QED
    BY <2>1
<1> QED
  BY <1>1, EndInvariant, PTL

\* A request is open exactly while its run waits for it.
THEOREM RequestsLive == Spec => []RequestsAreLive
<1>1. EndInv => RequestsAreLive
  BY DEF EndInv
<1> QED
  BY <1>1, EndInvariant, PTL
=============================================================================
