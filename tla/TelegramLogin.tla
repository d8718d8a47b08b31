---------------------------- MODULE TelegramLogin ----------------------------
(***************************************************************************)
(* telegram/client.py, PersonalTelegram: the login of one personal account *)
(* and the calls that need it.  Threads call synchronous methods; the work *)
(* is done by coroutines on a private event loop, here tasks numbered in   *)
(* the order they were scheduled.  Login calls hold an RLock while they    *)
(* wait for their task, reads and sends do not.  A wait that times out     *)
(* asks for the task's cancellation, except that of disconnect(), which    *)
(* leaves its task to end when it may.                                     *)
(*                                                                         *)
(* The Telethon client that a login creates has the number of its task.    *)
(* Not modelled: cancel_login, which has no caller; the texts of errors.   *)
(***************************************************************************)
EXTENDS Naturals, FiniteSets, Functions

CONSTANTS
    Callers,   \* threads that use the account
    CallKinds, \* what they may call
    MaxTasks   \* bound: coroutines ever scheduled

ASSUME LoginAssumption ==
    /\ CallKinds \subseteq {"start", "code", "password", "cli", "disconnect",
                            "read", "send"}
    /\ MaxTasks \in Nat

Tasks == 1..MaxTasks
None == 0

VARIABLES
    connected,  \* _connected
    loginState, \* _login_state
    client,     \* _client: the number of the Telethon client, or None
    holder,     \* {} or the thread that holds _lock
    call,       \* [Callers -> what the thread is doing]
    task,       \* [Tasks -> the coroutine]
    scheduled,  \* how many tasks there have been
    open,       \* the clients with an open connection
    account,    \* Telegram's side: is the session authorized, is 2FA on?
    late,       \* has a disconnect outlasted its 15 seconds?
    sent        \* [Callers -> messages Telegram took in the current call]

loginVars == <<connected, loginState, client, holder, call, task, scheduled,
               open, account, late, sent>>
session == <<connected, loginState, client, open, account>>

Idle == [at |-> "idle", kind |-> "none", task |-> None, attempt |-> 0]
NoCoroutine == [kind |-> "none", at |-> "none", cancel |-> FALSE,
                uses |-> None, result |-> "none"]

LoginInit ==
    /\ connected = FALSE
    /\ loginState = "disconnected"
    /\ client = None
    /\ holder = {}
    /\ call = [t \in Callers |-> Idle]
    /\ task = [i \in Tasks |-> NoCoroutine]
    /\ scheduled = 0
    /\ open = {}
    /\ account \in [authorized : BOOLEAN, twoFactor : BOOLEAN]
    /\ account.authorized => ~account.twoFactor \* then it is not asked for
    /\ late = FALSE
    /\ sent = [t \in Callers |-> 0]

Live(i) == task[i].at \notin {"none", "done"}

-----------------------------------------------------------------------------
(* The callers.                                                            *)

\* Tasks that calls have yet to schedule (to keep within MaxTasks): one, and
\* one more for a read that may be tried again.
StillToSchedule(c) ==
    (IF c.at = "entry" THEN 1 ELSE 0) + (IF c.kind = "read" /\ c.attempt = 0 THEN 1 ELSE 0)
WithinBound ==
    scheduled' + SumFunction([u \in Callers |-> StillToSchedule(call'[u])]) <= MaxTasks

\* asyncio.run_coroutine_threadsafe, and the wait for its future.
Schedule(t, kind, as) ==
    /\ scheduled < MaxTasks
    /\ scheduled' = scheduled + 1
    /\ task' = [task EXCEPT ![scheduled + 1] =
                  [NoCoroutine EXCEPT !.kind = kind, !.at = "new"]]
    /\ call' = [call EXCEPT ![t].at = "wait", ![t].kind = as,
                            ![t].task = scheduled + 1]
    /\ WithinBound

\* A thread calls a method and comes to its lock, if it has one.
Call(t, kind) ==
    /\ call[t].at = "idle"
    /\ call' = [call EXCEPT ![t] = [Idle EXCEPT !.at = "entry", !.kind = kind]]
    /\ sent' = [sent EXCEPT ![t] = 0]
    /\ UNCHANGED <<session, holder, task, scheduled, late>>
    /\ WithinBound

\* The method has nothing to do or refuses: the thread returns at once.
Return(t) ==
    /\ call' = [call EXCEPT ![t] = Idle]
    /\ UNCHANGED <<task, scheduled>>

Take(t) == holder = {} /\ holder' = {t}

\* start_login.
StartLogin(t) ==
    /\ call[t].at = "entry" /\ call[t].kind = "start" /\ holder = {}
    /\ IF connected \/ loginState # "disconnected"
       THEN Return(t) /\ UNCHANGED holder
       ELSE Schedule(t, "begin", "start") /\ Take(t)
    /\ UNCHANGED <<session, late, sent>>

\* submit_code and submit_password.
Submit(t, kind) ==
    /\ call[t].at = "entry" /\ call[t].kind = kind /\ holder = {}
    /\ IF connected \/ loginState # (IF kind = "code" THEN "await_code"
                                                      ELSE "await_2fa")
       THEN Return(t) /\ UNCHANGED holder
       ELSE Schedule(t, kind, kind) /\ Take(t)
    /\ UNCHANGED <<session, late, sent>>

\* What connect(), the command line's login, does with the state a step has
\* come to: it asks the user, the lock in its hands.
PromptFor(t, state) ==
    call' = [call EXCEPT ![t].at = IF state = "await_code" THEN "prompt code"
                                                         ELSE "prompt password",
                         ![t].kind = "cli"]

\* connect(), which calls start_login under the lock.
Connect(t) ==
    /\ call[t].at = "entry" /\ call[t].kind = "cli" /\ holder = {}
    /\ CASE connected \/ loginState = "connected" -> Return(t) /\ UNCHANGED holder
         [] ~connected /\ loginState = "disconnected" ->
              Schedule(t, "begin", "cli") /\ Take(t)
         [] ~connected /\ loginState \in {"await_code", "await_2fa"} ->
              PromptFor(t, loginState) /\ Take(t) /\ UNCHANGED <<task, scheduled>>
    /\ UNCHANGED <<session, late, sent>>

\* The user types the code or the password.
Answer(t) ==
    /\ \/ call[t].at = "prompt code" /\ Schedule(t, "code", "cli")
       \/ call[t].at = "prompt password" /\ Schedule(t, "password", "cli")
    /\ UNCHANGED <<session, holder, late, sent>>

\* disconnect().
Disconnect(t) ==
    /\ call[t].at = "entry" /\ call[t].kind = "disconnect" /\ holder = {}
    /\ IF connected THEN Schedule(t, "disconnect", "disconnect") /\ Take(t)
                    ELSE Return(t) /\ UNCHANGED holder
    /\ UNCHANGED <<session, late, sent>>

\* _run: refuses without a connection, and takes no lock.
Run(t) ==
    /\ call[t].at = "entry" /\ call[t].kind \in {"read", "send"}
    /\ IF connected THEN Schedule(t, call[t].kind, call[t].kind) ELSE Return(t)
    /\ UNCHANGED <<session, holder, late, sent>>

\* _run_read tries a read once more after a transient failure.
MayRetry(t) == call[t].kind = "read" /\ call[t].attempt < 1

\* _translate_telegram_error: what a failure is called, and which of them it
\* says may be tried again.
ErrorCodes == {"timeout", "network", "media_invalid", "flood_wait", "authorization",
               "forbidden", "invalid", "rpc_error"}
Retryable(code) == code \in {"timeout", "network", "media_invalid"}

\* The call fails with a TelegramError: it leaves, or tries again.
Fail(t, transient) ==
    IF transient /\ MayRetry(t)
    THEN call' = [call EXCEPT ![t].at = "entry", ![t].attempt = 1]
    ELSE call' = [call EXCEPT ![t] = Idle]

Release(t) == holder' = holder \ {t}

\* The future is done and its caller goes on.
Resume(t) ==
    LET i == call[t].task  result == task[i].result IN
    /\ call[t].at = "wait"
    /\ task[i].at = "done"
    /\ IF call[t].kind = "cli" /\ result \in {"await_code", "await_2fa"}
       THEN PromptFor(t, result) /\ UNCHANGED holder
       ELSE /\ Release(t)
            /\ IF result = "error" THEN \E code \in ErrorCodes : Fail(t, Retryable(code))
                                   ELSE call' = [call EXCEPT ![t] = Idle]
    /\ loginState' = IF call[t].kind = "disconnect" THEN "disconnected" ELSE loginState
    /\ UNCHANGED <<connected, client, open, account, task, scheduled, late, sent>>

\* Mutation: only reads and sends wait with a timeout.
TimeoutOfRequests(t) ==
    LET i == call[t].task IN
    /\ call[t].at = "wait" /\ call[t].kind \in {"read", "send"}
    /\ task[i].at # "done"
    /\ task' = [task EXCEPT ![i].cancel = TRUE]
    /\ Release(t)
    /\ Fail(t, Retryable("timeout"))
    /\ UNCHANGED <<session, scheduled, late, sent>>

\* _await_future and _run give up and ask for the cancellation of the task.
Timeout(t) ==
    LET i == call[t].task IN
    /\ call[t].at = "wait" /\ call[t].kind # "disconnect"
    /\ task[i].at # "done"
    /\ task' = [task EXCEPT ![i].cancel = TRUE]
    /\ Release(t)
    /\ Fail(t, Retryable("timeout"))
    /\ UNCHANGED <<session, scheduled, late, sent>>

\* disconnect() gives up after 15 seconds; its task goes on.
GiveUpDisconnect(t) ==
    /\ call[t].at = "wait" /\ call[t].kind = "disconnect"
    /\ task[call[t].task].at # "done"
    /\ late' = TRUE
    /\ loginState' = "disconnected"
    /\ Release(t)
    /\ call' = [call EXCEPT ![t] = Idle]
    /\ UNCHANGED <<connected, client, open, account, task, scheduled, sent>>

-----------------------------------------------------------------------------
(* The event loop: each step runs a coroutine from one await to the next.  *)

Move(i, at) == task' = [task EXCEPT ![i].at = at]
Finish(i, result) ==
    task' = [task EXCEPT ![i].at = "done", ![i].result = result, ![i].uses = None]

\* A coroutine starts.  The loop has by then carried out the cancellations
\* that were asked for before it was scheduled.
Start(i) ==
    LET kind == task[i].kind IN
    /\ task[i].at = "new"
    /\ \A j \in 1..(i - 1) : Live(j) => ~task[j].cancel
    /\ CASE kind = "begin" -> Move(i, "connect")
         [] kind # "begin" /\ client # None ->
              task' = [task EXCEPT ![i].uses = client, ![i].at =
                         CASE kind \in {"code", "password"} -> "sign_in"
                           [] kind = "disconnect" -> "closing"
                           [] OTHER -> "resolve"]
         [] kind # "begin" /\ client = None ->
              Finish(i, IF kind = "disconnect" THEN "closed" ELSE "error")
    /\ UNCHANGED <<session, holder, call, scheduled, late, sent>>

LoginSucceeds(i, next) ==
    /\ loginState' = "connected"
    /\ connected' = TRUE
    /\ Move(i, next)

\* _begin_login, each await answered or failed.
BeginLogin(i) ==
    /\ \/ /\ task[i].at = "connect"
          /\ client' = i
          /\ open' = open \cup {i}
          /\ Move(i, "is_user_authorized")
          /\ UNCHANGED <<connected, loginState>>
       \/ /\ task[i].at = "is_user_authorized"
          /\ IF account.authorized
             THEN LoginSucceeds(i, "get_me")
             ELSE Move(i, "send_code_request") /\ UNCHANGED <<connected, loginState>>
          /\ UNCHANGED <<client, open>>
       \/ /\ task[i].at = "send_code_request"
          /\ loginState' = "await_code"
          /\ Finish(i, "await_code")
          /\ UNCHANGED <<connected, client, open>>
    /\ UNCHANGED <<account, holder, call, scheduled, late, sent>>

\* _submit_code and _submit_password: accepted, or 2FA is asked for.
SignIn(i) ==
    /\ task[i].at = "sign_in"
    /\ IF task[i].kind = "code" /\ account.twoFactor
       THEN /\ loginState' = "await_2fa"
            /\ Finish(i, "await_2fa")
            /\ UNCHANGED <<connected, account>>
       ELSE LoginSucceeds(i, "get_me") /\ account' = [account EXCEPT !.authorized = TRUE]
    /\ UNCHANGED <<client, open, holder, call, scheduled, late, sent>>

\* The last await of a login.
GetMe(i) ==
    /\ task[i].at = "get_me"
    /\ Finish(i, IF client = None THEN "error" ELSE "connected")
    /\ UNCHANGED <<session, holder, call, scheduled, late, sent>>

\* Mutation: without the finally clause a failed close keeps the client.
CloseKeeps(i) ==
    /\ task[i].at = "closing"
    /\ \E failed \in BOOLEAN :
         /\ open' = open \ {task[i].uses}
         /\ IF failed THEN UNCHANGED <<client, connected>>
                      ELSE client' = None /\ connected' = FALSE
         /\ Finish(i, IF failed THEN "error" ELSE "closed")
    /\ UNCHANGED <<loginState, account, holder, call, scheduled, late, sent>>

\* _disconnect: the connection goes, and whatever client there is by then.
Close(i) ==
    /\ task[i].at = "closing"
    /\ \E failed \in BOOLEAN :
         Finish(i, IF failed THEN "error" ELSE "closed")
    /\ open' = open \ {task[i].uses}
    /\ client' = None
    /\ connected' = FALSE
    /\ UNCHANGED <<loginState, account, holder, call, scheduled, late, sent>>

\* A read or a send: the chat is resolved, then the request is made.
Request(i) ==
    /\ \/ /\ task[i].at = "resolve"
          /\ IF client = None THEN Finish(i, "error") ELSE Move(i, "request")
          /\ UNCHANGED sent
       \/ /\ task[i].at = "request"
          /\ Finish(i, "answered")
          /\ sent' = [t \in Callers |-> IF task[i].kind = "send" /\ call[t].task = i
                                        THEN sent[t] + 1 ELSE sent[t]]
    /\ UNCHANGED <<session, holder, call, scheduled, late>>

\* An await raises: Telegram or the network refuses, or the cancellation
\* that was asked for arrives.  A request that fails may have been taken.
AwaitFails(i) ==
    /\ Live(i)
    /\ task[i].at \notin {"new", "closing"} \/ task[i].cancel
    /\ Finish(i, "error")
    /\ sent' \in {sent, [t \in Callers |->
                    IF task[i].at = "request" /\ task[i].kind = "send" /\ call[t].task = i
                    THEN sent[t] + 1 ELSE sent[t]]}
    /\ UNCHANGED <<session, holder, call, scheduled, late>>

LoginNext ==
    \/ \E t \in Callers :
         \/ \E kind \in CallKinds : Call(t, kind)
         \/ StartLogin(t) \/ Submit(t, "code") \/ Submit(t, "password")
         \/ Connect(t) \/ Answer(t) \/ Disconnect(t) \/ Run(t)
         \/ Resume(t) \/ Timeout(t) \/ GiveUpDisconnect(t)
    \/ \E i \in Tasks : \/ Start(i) \/ BeginLogin(i) \/ SignIn(i) \/ GetMe(i)
                        \/ Close(i) \/ Request(i) \/ AwaitFails(i)

LoginThread(t) ==
    \/ StartLogin(t) \/ Submit(t, "code") \/ Submit(t, "password")
    \/ Connect(t) \/ Disconnect(t) \/ Run(t)

\* A thread goes on when its task is done or its time is up, and gets the
\* lock when others keep releasing it.  Nobody has to call, to answer a
\* prompt, or to be answered by Telegram.
LoginFairness ==
    \A t \in Callers : /\ SF_loginVars(LoginThread(t))
                       /\ WF_loginVars(Resume(t) \/ Timeout(t))
                       /\ WF_loginVars(Resume(t) \/ GiveUpDisconnect(t))

LoginSpec == LoginInit /\ [][LoginNext]_loginVars /\ LoginFairness

-----------------------------------------------------------------------------
(* Properties.                                                             *)

\* Types; the lock is held by a thread that waits or prompts, and by one.
LoginTypeOK ==
    /\ connected \in BOOLEAN
    /\ loginState \in {"disconnected", "await_code", "await_2fa", "connected"}
    /\ client \in Tasks \cup {None}
    /\ open \subseteq Tasks
    /\ holder \subseteq Callers /\ Cardinality(holder) <= 1
    /\ \A t \in holder : call[t].at \in {"wait", "prompt code", "prompt password"}
    /\ scheduled \in 0..MaxTasks

\* While no disconnect has outlasted its wait: what is_connected says is so,
\* there being an open client, and login_state says the same, but for the
\* moment in which a disconnect has done its work and not yet noted it.
\* Otherwise start_login refuses for ever ("login already in progress").
ConnectedIsTrue ==
    ~late =>
      /\ connected => client \in open /\ loginState = "connected"
      /\ ~connected /\ loginState = "connected" =>
           \E t \in Callers : call[t].at = "wait" /\ call[t].kind = "disconnect"

\* A connection that nobody can close any more (its client is no longer the
\* account's) was left behind by a login that failed or was given up, or by
\* disconnects that overlapped: start_login never abandons one that goes well.
AbandonedByFailures ==
    ~late => \A c \in open \ {client} : Live(c) \/ task[c].cancel \/ task[c].result = "error"

\* One call of a send method sends at most once, however it ends; only reads
\* are tried again.
SendsOnce == \A t \in Callers : sent[t] <= 1

\* What holds of an account's login whenever it is looked at.
LoginSafe == LoginTypeOK /\ ConnectedIsTrue /\ AbandonedByFailures /\ SendsOnce

\* A call returns, unless somebody holds the account's lock at a prompt.
LoginCallsReturn ==
    \A t \in Callers : (call[t].at # "idle") ~>
      \/ call[t].at = "idle"
      \/ \E u \in holder : call[u].at \in {"prompt code", "prompt password"}

\* Not a property of the code: a login that waits for its code or password
\* can be given up.  disconnect() returns early and start_login refuses.
WaitingLoginCanBeLeft ==
    [](loginState = "await_code" => <>(loginState # "await_code"))

\* Not a property of the code once two disconnects overlap: the second one
\* to end takes the client of the login in between, and login_state stays
\* "connected".
StuckNever == ~(~connected /\ loginState = "connected" /\ holder = {})
=============================================================================
