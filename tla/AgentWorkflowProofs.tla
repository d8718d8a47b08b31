------------------------ MODULE AgentWorkflowProofs ------------------------
(***************************************************************************)
(* Proofs about AgentWorkflow: what becomes of an approval card, for any   *)
(* set of cards and buttons, any number of updates, waiting updates,       *)
(* restarts and turns, and with messages that fail or not.                 *)
(***************************************************************************)
EXTENDS AgentWorkflow, TLAPS

(***************************************************************************)
(* Only an open card has its row, and an open card without one was missed, *)
(* or its row went for the card that is about to be shown, which has the   *)
(* only row; only an approved action has run, and at most once; and a      *)
(* handler on its way to running an action holds an approved one that has  *)
(* not run.  Nothing else is needed: what the screen shows, what is in the *)
(* inbox and what was lost in a restart do not matter, because a button    *)
(* only counts when it finds its row.                                      *)
(***************************************************************************)
CardInv ==
    /\ pending \subseteq Cards
    /\ ran \in [Cards -> Nat]
    /\ decision \in [Cards -> {"new", "open", "approved", "withdrawn"}]
    /\ resume \in Cards \cup {NoCard}
    /\ missed \subseteq Cards
    /\ \A c \in Cards :
         /\ c \in pending => decision[c] = "open"
         /\ decision[c] = "open" => c \in pending \cup missed \/ pc = "card"
    /\ pc = "card" => resume \in Cards /\ pending = {resume}
    /\ \A c \in Cards : ran[c] <= 1 /\ (decision[c] # "approved" => ran[c] = 0)
    /\ pc \in {"idle", "handle"} => resume = NoCard
    /\ pc \in {"approved", "begin"} /\ resume # NoCard =>
         decision[resume] = "approved" /\ ran[resume] = 0

cards == <<pending, ran, decision, missed>>

LEMMA CardInit == Init => CardInv
  BY DEF Init, CardInv

\* A step that leaves rows, runs and decisions alone may end the handler, or
\* go on with what it holds unless that would begin a run; a card is shown next.
LEMMA Quiet ==
  ASSUME CardInv, UNCHANGED cards,
         pc = "card" \/ pc' = "card" => pc' = pc /\ resume' = resume,
         \/ resume' = NoCard
         \/ resume' = resume /\ pc' \notin {"idle", "handle", "approved", "begin"}
         \/ resume' = resume /\ pc' = pc
         \/ resume' = resume /\ pc \in {"idle", "handle"}
         \/ resume' = resume /\ pc = "approved" /\ pc' = "begin"
  PROVE  CardInv'
  BY DEF CardInv, cards

LEMMA CardUser == CardInv /\ User => CardInv'
<1> SUFFICES ASSUME CardInv, User PROVE CardInv'
  OBVIOUS
<1>1. UNCHANGED <<pending, ran, decision, missed, resume, pc>>
  BY DEF User, SendText, SendKey, Press, PressCard, Send, db, run, ghosts
<1> QED
  BY <1>1, Quiet DEF cards

\* The buttons of the menu and the texts of the key dialogue.
LEMMA CardMenu ==
  ASSUME CardInv,
         \/ PressNew \/ PressLocal \/ PressAuto \/ PressCloud \/ PressCancel
         \/ PressWrong \/ PressYes \/ PressCustom \/ ConsumeSetupText
  PROVE  CardInv'
<1>1. UNCHANGED cards /\ resume' = NoCard /\ pc = "handle" /\ pc' = "idle"
  BY DEF Handling, PressNew, PressLocal, PressAuto, PressCloud, PressCancel, PressWrong,
         PressYes, PressCustom, ConsumeSetupText, Done, cards, ghosts, db
<1> QED
  BY <1>1, Quiet

\* A reset takes all rows and withdraws all open cards.
LEMMA CardReset == CardInv /\ PressReset => CardInv'
  BY DEF CardInv, PressReset, Handling, Reset, Done, Withdraw

\* A pressed button that finds its row takes it.
LEMMA CardAnswer ==
  ASSUME CardInv, PressExpired \/ PressApprove \/ PressReject
  PROVE  CardInv'
<1>1. CASE PressExpired
  BY <1>1, Quiet DEF PressExpired, Handling, Done, cards, ghosts, db
<1>2. CASE PressApprove
  BY <1>2 DEF PressApprove, Handling, PopPending, Goto, CardInv
<1>3. CASE PressReject
  BY <1>3 DEF PressReject, Handling, PopPending, Goto, Withdraw, run, CardInv
<1> QED
  BY <1>1, <1>2, <1>3

\* A new card is proposed: its row replaces the row there was.
LEMMA CardPropose ==
  ASSUME CardInv, NEW card \in Cards, Propose(card)
  PROVE  CardInv'
<1>1. /\ pending' = {card} /\ resume' = card /\ pc' = "card" /\ decision[card] = "new"
      /\ UNCHANGED <<ran, missed>> /\ decision' = [decision EXCEPT ![card] = "open"]
  BY DEF Propose, PutPending, Goto
<1>2. /\ decision' \in [Cards -> {"new", "open", "approved", "withdrawn"}]
      /\ \A c \in Cards : decision'[c] = IF c = card THEN "open" ELSE decision[c]
  BY <1>1 DEF CardInv
<1> QED
  BY <1>1, <1>2 DEF CardInv

\* Its card is shown, and withdraws the others.
LEMMA CardShow == CardInv /\ ShowCard => CardInv'
<1> SUFFICES ASSUME CardInv, ShowCard PROVE CardInv'
  OBVIOUS
<1>1. /\ pc = "card" /\ pc' = "idle" /\ resume' = NoCard
      /\ UNCHANGED <<pending, ran, missed>> /\ decision' = Withdraw(OpenBut(resume))
  BY DEF ShowCard, Running, Done, db
<1>2. /\ decision' \in [Cards -> {"new", "open", "approved", "withdrawn"}]
      /\ \A c \in Cards : decision'[c] =
           IF c # resume /\ decision[c] = "open" THEN "withdrawn" ELSE decision[c]
  BY <1>1 DEF Withdraw, OpenBut, CardInv
<1> QED
  BY <1>1, <1>2 DEF CardInv

\* The handler ends without a word: the cards that a newer one overtook are
\* missed.
LEMMA CardUnshown ==
  ASSUME CardInv, Unshown, Done, UNCHANGED <<pending, ran, decision>>
  PROVE  CardInv'
<1>1. pc' = "idle" /\ resume' = NoCard
  BY DEF Done
<1>2. missed' = missed \cup (IF pc = "card" THEN OpenBut(resume) ELSE {})
  BY DEF Unshown
<1> QED
  BY <1>1, <1>2 DEF OpenBut, CardInv

\* The approved action runs.
LEMMA CardExecute == CardInv /\ ExecuteApproved => CardInv'
  BY CardsAssumption DEF CardInv, ExecuteApproved, Running, Goto, db, run

\* The other steps of a run.
LEMMA CardRun ==
  ASSUME CardInv,
         \/ Take \/ Rejected \/ Approved \/ StartRun \/ NoClient
         \/ BeginTask \/ RecordApproved \/ ProviderFails \/ FinalReport
         \/ BadArguments \/ RunTool \/ RecordTool \/ ToolCrashes \/ TurnLimit
         \/ Reply
  PROVE  CardInv'
<1> USE DEF Done, Goto, Running, Handling, Asking, Add, Touch, db, run, ghosts, cards
<1>1. CASE Take
  BY <1>1, Quiet DEF Take
<1>2. CASE Rejected \/ NoClient \/ ProviderFails \/ ToolCrashes \/ Reply
  BY <1>2, Quiet DEF Rejected, NoClient, ProviderFails, ToolCrashes, Reply
<1>3. CASE Approved \/ StartRun
  BY <1>3, Quiet DEF Approved, StartRun
<1>4. CASE BeginTask \/ RecordApproved
  BY <1>4, Quiet DEF BeginTask, RecordApproved
<1>5. CASE FinalReport \/ BadArguments \/ RunTool \/ RecordTool \/ TurnLimit
  BY <1>5, Quiet DEF FinalReport, BadArguments, RunTool, RecordTool, TurnLimit
<1> QED
  BY <1>1, <1>2, <1>3, <1>4, <1>5

LEMMA CardNext == CardInv /\ [Next]_vars => CardInv'
<1> SUFFICES ASSUME CardInv, [Next]_vars PROVE CardInv'
  OBVIOUS
<1>1. CASE User
  BY <1>1, CardUser
<1>2. CASE Bot
  <2>1. CASE SendFailure
    BY <2>1, CardUnshown DEF SendFailure, db
  <2> QED
    BY <1>2, <2>1, CardMenu, CardReset, CardAnswer, CardPropose, CardShow, CardExecute, CardRun
       DEF Bot
<1>3. CASE Restart
  BY <1>3, CardUnshown DEF Restart, db
<1>4. CASE UNCHANGED vars
  BY <1>4, Quiet DEF vars, db, run, ghosts, cards
<1> QED
  BY <1>1, <1>2, <1>3, <1>4 DEF Next

LEMMA CardAlways == Spec => []CardInv
  BY CardInit, CardNext, PTL DEF Spec

\* An approved action runs at most once, however often its button is pressed
\* or its update delivered, through every restart (pop_pending, storage.py).
THEOREM RunsAtMostOnce == Spec => []RunsOnce
<1>1. CardInv => RunsOnce
  BY DEF CardInv, RunsOnce
<1> QED
  BY <1>1, CardAlways, PTL

\* A card the user sees and has not answered, and after which no newer one was
\* shown, can still be answered, through restarts, new conversations and
\* messages that fail; but for the cards that were missed (bot.py:281-293).
THEOREM OpenAnswerable == Spec => []OpenCardsAreAnswerable
<1>1. CardInv => OpenCardsAreAnswerable
  BY DEF CardInv, OpenCardsAreAnswerable
<1> QED
  BY <1>1, CardAlways, PTL

\* Only the steps that execute an approved action let an action run.
LEMMA OthersDoNotRun == [Next]_vars => ran' = ran \/ ExecuteApproved
<1> SUFFICES ASSUME [Next]_vars, ~ExecuteApproved PROVE ran' = ran
  OBVIOUS
<1> USE DEF ghosts
<1>1. CASE User
  BY <1>1 DEF User, SendText, SendKey, Press, PressCard, Send
<1>2. CASE Restart \/ UNCHANGED vars
  BY <1>2 DEF Restart, vars
<1>3. CASE Bot
  BY <1>3 DEF Bot, Take, SendFailure, PressNew, PressReset, PressLocal, PressAuto,
         PressCloud, PressCancel, PressWrong, PressYes, PressCustom,
         ConsumeSetupText, PressExpired, PressApprove, PressReject, Rejected,
         Approved, StartRun, NoClient, BeginTask, RecordApproved, ProviderFails,
         FinalReport, BadArguments, RunTool, RecordTool, ToolCrashes, TurnLimit,
         Reply, Propose, ShowCard
<1> QED
  BY <1>1, <1>2, <1>3 DEF Next

\* An action runs only while the user's approval of its own card stands.
THEOREM OnlyApproved == Spec => OnlyApprovedRuns
<1>1. CardInv /\ [Next]_vars =>
        [\A c \in Cards : ran'[c] # ran[c] => decision[c] = "approved"]_vars
  <2> SUFFICES ASSUME CardInv, ExecuteApproved, NEW c \in Cards, ran'[c] # ran[c]
               PROVE  decision[c] = "approved"
    BY OthersDoNotRun
  <2>1. resume \in Cards /\ decision[resume] = "approved"
    BY DEF ExecuteApproved, Running, CardInv
  <2>2. c = resume
    BY DEF ExecuteApproved, CardInv
  <2> QED
    BY <2>1, <2>2
<1> QED
  BY <1>1, CardAlways, PTL DEF Spec, OnlyApprovedRuns

-----------------------------------------------------------------------------
(***************************************************************************)
(* A workflow is begun by a text, or goes on with the card that was        *)
(* approved; a handler that shows a card has one; and a tool runs within   *)
(* the limit of turns.                                                     *)
(***************************************************************************)
BegunInv ==
    /\ pc \in {"approved", "card"} => resume # NoCard
    /\ pc = "begin" /\ resume = NoCard => cur.kind \in {"text", "key"}
    /\ pc = "ran" => turn <= MaxTurns

LEMMA BegunNext == CardInv /\ BegunInv /\ [Next]_vars => BegunInv'
<1> SUFFICES ASSUME CardInv, BegunInv, [Next]_vars PROVE BegunInv'
  OBVIOUS
<1> USE DEF BegunInv, Handling, Running, Done, Goto, run, user
<1>1. CASE User \/ UNCHANGED vars
  BY <1>1 DEF User, SendText, SendKey, Press, PressCard, Send, vars
<1>2. CASE Restart \/ Take
  BY <1>2 DEF Restart, Take
<1>3. CASE PressApprove \/ \E card \in Cards : Propose(card)
  BY <1>3, CardsAssumption DEF PressApprove, Propose, CardInv
<1>4. CASE Bot /\ ~Take /\ ~PressApprove /\ ~\E card \in Cards : Propose(card)
  BY <1>4 DEF Bot, SendFailure, PressNew, PressReset, PressLocal, PressAuto,
         PressCloud, PressCancel, PressWrong, PressYes, PressCustom,
         ConsumeSetupText, PressExpired, PressReject, Rejected,
         Approved, StartRun, NoClient, BeginTask, ExecuteApproved, RecordApproved,
         ProviderFails, FinalReport, BadArguments, RunTool, RecordTool, ToolCrashes,
         TurnLimit, Reply, ShowCard, Asking
<1> QED
  BY <1>1, <1>2, <1>3, <1>4 DEF Next

LEMMA BegunAlways == Spec => []BegunInv
<1>1. Init => BegunInv
  BY DEF Init, BegunInv
<1> QED
  BY <1>1, BegunNext, CardAlways, PTL DEF Spec

-----------------------------------------------------------------------------
(***************************************************************************)
(* Types.  The number of the thread is what needs a reason: a conversation *)
(* is begun by an update, so the threads there are and the updates that    *)
(* wait or are being handled never outnumber the updates that were sent.   *)
(***************************************************************************)
TypeInv == TypeOK /\ CurrentThread + Waiting <= sent + 1

Preferred == [provider |-> "cloud", model |-> "default"]
What == {"text", "key", "result", "denied", "report"}
Kinds == Menu \cup {"text", "key", "ok", "no"}

LEMMA Bounds == /\ MaxUpdates \in Nat /\ MaxCrashes \in Nat
                /\ MaxTurns \in Nat /\ MaxTurns >= 1
  BY BoundsAssumption

LEMMA TypeInit == Init => TypeInv
<1> SUFFICES ASSUME Init PROVE TypeInv
  OBVIOUS
<1>1. CurrentThread = 1 /\ Waiting = 0
  BY DEF Init, CurrentThread, Waiting
<1>2. Nothing \in Update
  BY DEF Nothing, Update, Menu
<1>3. /\ 0 \in 0..(MaxUpdates + 1) /\ 0 \in 0..MaxUpdates
      /\ 0 \in 0..MaxCrashes /\ 0 \in 0..(MaxTurns + 1)
  BY Bounds
<1>4. /\ ran \in [Cards -> Nat]
      /\ decision \in [Cards -> {"new", "open", "approved", "withdrawn"}]
      /\ origin \in [Cards -> 0..(MaxUpdates + 1)]
  BY <1>3 DEF Init
<1>5. cur \in Update /\ inbox \in Seq(Update) /\ resume \in Cards \cup {NoCard}
  BY <1>2 DEF Init
<1>6. TypeOK
  BY <1>3, <1>4, <1>5 DEF Init, TypeOK
<1> QED
  BY <1>1, <1>6 DEF TypeInv, Init

\* The thread that is written to, and the one that is after a new conversation.
LEMMA ThreadArith ==
  ASSUME NEW a \in Nat, NEW b \in Nat, NEW t \in Nat, NEW s \in Nat,
         (a = 0 /\ t = 1) \/ (a # 0 /\ t = a),
         (b = 0 /\ s = 1) \/ (b # 0 /\ s = b)
  PROVE  /\ t >= 1
         /\ b = a \/ b = t => b <= t /\ s = t
         /\ b = a + 1 => b <= t + 1 /\ (s = t \/ s = t + 1)
  OBVIOUS

\* The thread a step writes to is one of the type.
LEMMA ThreadBound ==
  ASSUME TypeInv
  PROVE  /\ CurrentThread \in 1..(MaxUpdates + 1)
         /\ Waiting \in Nat /\ Len(inbox) \in Nat
         /\ pc = "idle" => Waiting = Len(inbox)
         /\ pc # "idle" => Waiting = Len(inbox) + 1
         /\ CurrentThread = 1 \/ CurrentThread = thread
         /\ pc # "idle" => CurrentThread < sent + 1
<1>1. Len(inbox) \in Nat
  BY DEF TypeInv, TypeOK
<1>2. thread \in 0..(MaxUpdates + 1) /\ sent \in 0..MaxUpdates
  BY DEF TypeInv, TypeOK
<1>3. CurrentThread + Waiting <= sent + 1
  BY DEF TypeInv
<1>4. Waiting \in Nat /\ Waiting = Len(inbox) + (IF pc = "idle" THEN 0 ELSE 1)
  BY <1>1 DEF Waiting
<1>5. CurrentThread \in Nat \ {0} /\ CurrentThread = (IF thread = 0 THEN 1 ELSE thread)
  BY <1>2, Bounds DEF CurrentThread
<1>6. PICK t, w : t = CurrentThread /\ w = Waiting
  OBVIOUS
<1>7. /\ t \in 1..(MaxUpdates + 1)
      /\ pc # "idle" => t < sent + 1
  <2>1. t \in Nat /\ t >= 1
    BY <1>5, <1>6
  <2>2. w \in Nat /\ (pc # "idle" => w >= 1)
    BY <1>1, <1>4, <1>6
  <2>3. t + w <= sent + 1
    BY <1>3, <1>6
  <2>4. sent \in Nat /\ sent <= MaxUpdates
    BY <1>2, Bounds
  <2>5. t < sent + 1 \/ ~(w >= 1)
    BY <2>1, <2>2, <2>3, <2>4
  <2>6. t <= MaxUpdates + 1
    BY <2>1, <2>2, <2>3, <2>4, Bounds
  <2> QED
    BY <2>1, <2>2, <2>5, <2>6, Bounds
<1>8. t = 1 \/ t = thread
  BY <1>5, <1>6
<1> QED
  BY <1>1, <1>4, <1>6, <1>7, <1>8

\* A step of the bot that leaves the inbox, and at most touches the thread.
LEMMA TypeStep ==
  ASSUME TypeInv, pc # "idle",
         inbox' = inbox, sent' = sent, crashes' = crashes,
         \/ thread' = thread \/ thread' = CurrentThread
         \/ thread' = thread + 1 /\ pc' = "idle",
         messages' \subseteq messages \cup ({CurrentThread} \X What),
         pending' \subseteq Cards,
         preference' \in [provider : {"ollama", "cloud"}, model : {"default", "custom", "key"}],
         setup' \in {"none", "auto", "key", "model", "detected", "undetected"},
         sessionKey' \in BOOLEAN,
         pc' \in {"idle", "handle", "approved", "rejected", "begin", "ask", "executed",
                  "ran", "card", "reply"},
         cur' \in {cur, Nothing},
         turn' \in 0..(MaxTurns + 1),
         resume' \in Cards \cup {NoCard},
         screen' \subseteq Cards \cup Prompts,
         ran' \in [Cards -> Nat],
         decision' \in [Cards -> {"new", "open", "approved", "withdrawn"}],
         missed' \subseteq Cards,
         origin' \in [Cards -> 0..(MaxUpdates + 1)]
  PROVE  TypeInv'
<1>1. /\ CurrentThread \in 1..(MaxUpdates + 1) /\ Len(inbox) \in Nat
      /\ Waiting = Len(inbox) + 1
      /\ CurrentThread = 1 \/ CurrentThread = thread
      /\ CurrentThread < sent + 1
  BY ThreadBound
<1>a. thread \in Nat /\ sent \in 0..MaxUpdates
  BY Bounds DEF TypeInv, TypeOK
<1>b. PICK a, b, t, u : /\ a = thread /\ b = thread' /\ t = CurrentThread
                        /\ u = CurrentThread'
  OBVIOUS
<1>c. /\ (a = 0 /\ t = 1) \/ (a # 0 /\ t = a)
      /\ (b = 0 /\ u = 1) \/ (b # 0 /\ u = b)
  BY <1>b DEF CurrentThread
<1>d. b = a \/ b = t \/ (b = a + 1 /\ pc' = "idle")
  BY <1>b
<1>e. a \in Nat /\ b \in Nat /\ t \in Nat /\ u \in Nat
  BY <1>a, <1>b, <1>c, <1>d
<1>f. /\ b = a \/ b = t => b <= t /\ u = t
      /\ b = a + 1 => b <= t + 1 /\ (u = t \/ u = t + 1)
  BY <1>c, <1>e, ThreadArith
<1>2. thread' \in 0..(MaxUpdates + 1)
  <2>1. t < sent + 1 /\ sent \in Nat /\ sent <= MaxUpdates
    BY <1>1, <1>a, <1>b, Bounds
  <2>2. b <= t + 1
    BY <1>d, <1>e, <1>f
  <2> QED
    BY <1>b, <1>e, <2>1, <2>2, Bounds
<1>3. CurrentThread' = CurrentThread \/ (CurrentThread' = CurrentThread + 1 /\ pc' = "idle")
  BY <1>b, <1>d, <1>f
<1>4. Waiting' <= Waiting /\ (pc' = "idle" => Waiting' = Waiting - 1)
  BY <1>1 DEF Waiting
<1>5. Waiting' \in Nat /\ sent \in Nat
  BY <1>1, BoundsAssumption DEF Waiting, TypeInv, TypeOK
<1>6. CurrentThread' + Waiting' <= sent' + 1
  BY <1>1, <1>3, <1>4, <1>5 DEF TypeInv
<1>7. messages' \subseteq (1..(MaxUpdates + 1)) \X What
  BY <1>1 DEF TypeInv, TypeOK, What
<1>8. cur' \in Update
  BY DEF TypeInv, TypeOK, Nothing, Update, Menu
<1> QED
  BY <1>2, <1>6, <1>7, <1>8 DEF TypeInv, TypeOK, What

LEMMA TypeUser == TypeInv /\ User => TypeInv'
<1> SUFFICES ASSUME TypeInv, User PROVE TypeInv'
  OBVIOUS
<1>1. PICK kind \in Kinds, card \in Cards \cup {NoCard} : Send(kind, card)
  BY BoundsAssumption DEF User, SendText, SendKey, Press, PressCard, Kinds, Menu
<1>2. screen' \subseteq screen
  BY DEF User, SendText, SendKey, Press, PressCard
<1>3. [kind |-> kind, card |-> card] \in Update
  BY DEF Update, Kinds
<1>4. inbox' \in Seq(Update) /\ Len(inbox') = Len(inbox) + 1
  BY <1>1, <1>3 DEF Send, TypeInv, TypeOK
<1>5. /\ UNCHANGED <<db, ram, run, ghosts, pc, cur, crashes>>
      /\ sent' = sent + 1 /\ sent < MaxUpdates
  BY <1>1 DEF Send
<1>6. CurrentThread' = CurrentThread /\ Waiting' = Waiting + 1
  BY <1>4, <1>5, ThreadBound DEF CurrentThread, Waiting, db
<1>7. CurrentThread \in Int /\ Waiting \in Int /\ sent \in Int
  BY ThreadBound DEF TypeInv, TypeOK
<1>8. CurrentThread' + Waiting' <= sent' + 1
  BY <1>5, <1>6, <1>7 DEF TypeInv
<1>9. UNCHANGED <<thread, messages, pending, preference, setup, sessionKey, pc, cur, turn, resume,
                  crashes, ran, decision, missed, origin>>
  BY <1>5 DEF db, ram, run, ghosts
<1>10. sent' \in 0..MaxUpdates /\ sent \in Nat
  BY <1>5, BoundsAssumption DEF TypeInv, TypeOK
<1> QED
  BY <1>2, <1>4, <1>8, <1>9, <1>10 DEF TypeInv, TypeOK

LEMMA TypeTake == TypeInv /\ Take => TypeInv'
<1> SUFFICES ASSUME TypeInv, Take PROVE TypeInv'
  OBVIOUS
<1>1. /\ inbox \in Seq(Update) /\ inbox # <<>> /\ pc = "idle"
      /\ pc' = "handle" /\ cur' = Head(inbox) /\ inbox' = Tail(inbox)
      /\ UNCHANGED <<db, ram, run, ghosts, sent, screen, crashes>>
  BY DEF Take, TypeInv, TypeOK
<1>2. cur' \in Update /\ inbox' \in Seq(Update) /\ Len(inbox') = Len(inbox) - 1
  BY <1>1
<1>3. CurrentThread' = CurrentThread /\ Waiting' = Waiting
  BY <1>1, <1>2, ThreadBound DEF CurrentThread, Waiting, db
<1> QED
  BY <1>1, <1>2, <1>3 DEF TypeInv, TypeOK, db, ram, run, ghosts

LEMMA TypeRestart == TypeInv /\ Restart => TypeInv'
<1> SUFFICES ASSUME TypeInv, Restart PROVE TypeInv'
  OBVIOUS
<1>1. /\ inbox \in Seq(Update) /\ cur \in Update /\ Len(inbox) \in Nat
      /\ sent \in Int /\ CurrentThread \in Int
      /\ crashes < MaxCrashes /\ crashes' = crashes + 1 /\ crashes \in Nat
      /\ UNCHANGED <<db, ran, decision, origin, screen, sent>>
      /\ pc' = "idle" /\ cur' = Nothing /\ turn' = 0 /\ resume' = NoCard
      /\ setup' = "none" /\ sessionKey' = FALSE
  BY ThreadBound DEF Restart, TypeInv, TypeOK, Done
<1>m. missed' \subseteq Cards
  BY DEF Restart, Unshown, OpenBut, TypeInv, TypeOK
<1>2. /\ inbox' \in Seq(Update) /\ Len(inbox') \in Nat
      /\ Len(inbox') <= Waiting
  <2>1. CASE inbox' = <<>>
    BY <1>1, <2>1, ThreadBound
  <2>2. CASE inbox' = inbox
    BY <1>1, <2>2, ThreadBound
  <2>3. CASE pc # "idle" /\ inbox' = <<cur>> \o inbox
    <3>1. <<cur>> \in Seq(Update) /\ Len(<<cur>>) = 1
      BY <1>1
    <3>2. inbox' \in Seq(Update) /\ Len(inbox') = 1 + Len(inbox)
      BY <1>1, <2>3, <3>1
    <3> QED
      BY <3>2, <2>3, <1>1, ThreadBound
  <2> QED
    BY <2>1, <2>2, <2>3 DEF Restart
<1>3. CurrentThread' = CurrentThread /\ Waiting' = Len(inbox')
  BY <1>1, <1>2 DEF CurrentThread, Waiting, db
<1>4. Nothing \in Update
  BY DEF Nothing, Update, Menu
<1>5. CurrentThread' + Waiting' <= sent' + 1
  BY <1>1, <1>2, <1>3, ThreadBound DEF TypeInv
<1>6. crashes' \in 0..MaxCrashes /\ turn' \in 0..(MaxTurns + 1)
  BY <1>1, Bounds
<1>7. UNCHANGED <<thread, messages, pending, preference, ran, decision, origin, screen, sent>>
  BY <1>1 DEF db
<1> QED
  BY <1>1, <1>2, <1>4, <1>5, <1>6, <1>7, <1>m DEF TypeInv, TypeOK

\* The menu.
LEMMA TypeMenu ==
  ASSUME TypeInv,
         \/ PressNew \/ PressReset \/ PressLocal \/ PressAuto \/ PressCloud
         \/ PressCancel \/ PressWrong \/ PressYes \/ PressCustom
  PROVE  TypeInv'
<1> USE Bounds DEF Handling, Done, user, db, ghosts, ram, Touch, Prompts
<1>t. TypeOK
  BY DEF TypeInv
<1>0. 0 \in 0..(MaxTurns + 1)
  OBVIOUS
<1>1. CASE PressNew
  BY <1>1, <1>t, <1>0, TypeStep DEF PressNew, NewChat, TypeOK
<1>2. CASE PressReset
  <2>1. decision' \in [Cards -> {"new", "open", "approved", "withdrawn"}]
    BY <1>2, <1>t DEF PressReset, Withdraw, TypeOK
  <2>2. /\ pc # "idle" /\ pc' = "idle" /\ thread' = CurrentThread
        /\ messages' \subseteq messages /\ pending' = {} /\ resume' = NoCard
        /\ cur' = Nothing /\ turn' = 0
        /\ UNCHANGED <<inbox, sent, crashes, preference, setup, sessionKey, ran, missed,
                       origin, screen>>
    BY <1>2 DEF PressReset, Reset
  <2> QED
    BY <2>1, <2>2, <1>t, <1>0, TypeStep DEF TypeOK
<1>3. CASE PressLocal
  <2>1. preference' \in [provider : {"ollama", "cloud"}, model : {"default", "custom", "key"}]
    BY <1>3 DEF PressLocal, SetPreference
  <2> QED
    BY <1>3, <2>1, <1>t, <1>0, TypeStep DEF PressLocal, SetPreference, TypeOK
<1>4. CASE PressAuto
  BY <1>4, <1>t, <1>0, TypeStep DEF PressAuto, TypeOK
<1>5. CASE PressCloud
  <2>a. preference' \in {preference, Preferred}
    BY <1>5 DEF PressCloud, ValidateAndSelect, SetPreference, Preferred
  <2>1. preference' \in [provider : {"ollama", "cloud"}, model : {"default", "custom", "key"}]
    <3>1. preference \in [provider : {"ollama", "cloud"}, model : {"default", "custom", "key"}]
      BY <1>t DEF TypeOK
    <3>2. Preferred \in [provider : {"ollama", "cloud"}, model : {"default", "custom", "key"}]
      BY DEF Preferred
    <3> QED
      BY <2>a, <3>1, <3>2
  <2>2. /\ thread' \in {thread, CurrentThread} /\ screen' \subseteq screen \cup {"key prompt"}
        /\ setup' \in {"none", "key"} /\ sessionKey' \in {sessionKey, TRUE}
    BY <1>5 DEF PressCloud, ValidateAndSelect, SetPreference
  <2>3. /\ pc # "idle" /\ pc' = "idle" /\ resume' = NoCard /\ cur' = Nothing /\ turn' = 0
        /\ UNCHANGED <<inbox, sent, crashes, messages, pending, ran, decision, missed, origin>>
    BY <1>5 DEF PressCloud
  <2> QED
    BY <2>1, <2>2, <2>3, <1>t, <1>0, TypeStep DEF TypeOK
<1>6. CASE PressCancel
  BY <1>6, <1>t, <1>0, TypeStep DEF PressCancel, TypeOK
<1>7. CASE PressWrong
  BY <1>7, <1>t, <1>0, TypeStep DEF PressWrong, TypeOK
<1>8. CASE PressYes
  <2>a. preference' \in {preference, Preferred}
    BY <1>8 DEF PressYes, SetPreference, Preferred
  <2>1. preference' \in [provider : {"ollama", "cloud"}, model : {"default", "custom", "key"}]
    <3>1. preference \in [provider : {"ollama", "cloud"}, model : {"default", "custom", "key"}]
      BY <1>t DEF TypeOK
    <3>2. Preferred \in [provider : {"ollama", "cloud"}, model : {"default", "custom", "key"}]
      BY DEF Preferred
    <3> QED
      BY <2>a, <3>1, <3>2
  <2>2. thread' \in {thread, CurrentThread} /\ setup' \in {setup, "none"}
    BY <1>8 DEF PressYes, SetPreference
  <2>3. /\ pc # "idle" /\ pc' = "idle" /\ resume' = NoCard /\ cur' = Nothing /\ turn' = 0
        /\ UNCHANGED <<inbox, sent, crashes, messages, pending, ran, decision, missed, origin,
                       sessionKey, screen>>
    BY <1>8 DEF PressYes
  <2> QED
    BY <2>1, <2>2, <2>3, <1>t, <1>0, TypeStep DEF TypeOK
<1>9. CASE PressCustom
  BY <1>9, <1>t, <1>0, TypeStep DEF PressCustom, TypeOK
<1> QED
  BY <1>1, <1>2, <1>3, <1>4, <1>5, <1>6, <1>7, <1>8, <1>9

\* The texts of the key dialogue.
LEMMA TypeSetup == TypeInv /\ ConsumeSetupText => TypeInv'
<1> SUFFICES ASSUME TypeInv, ConsumeSetupText PROVE TypeInv'
  OBVIOUS
<1>t. TypeOK
  BY DEF TypeInv
<1>1. /\ pc # "idle" /\ pc' = "idle" /\ resume' = NoCard /\ cur' = Nothing /\ turn' = 0
      /\ UNCHANGED <<inbox, sent, crashes, messages, pending, ran, decision, missed, origin>>
  BY DEF ConsumeSetupText, Handling, Done, user, ghosts
<1>2. /\ \/ preference' \in {preference, Preferred}
         \/ preference' = [provider |-> preference.provider, model |-> "key"]
         \/ preference' = [provider |-> preference.provider, model |-> "custom"]
      /\ thread' \in {thread, CurrentThread}
      /\ setup' \in {setup, "none", "key", "detected", "undetected"}
      /\ sessionKey' \in {sessionKey, TRUE}
      /\ screen' \subseteq screen \cup Prompts
  <2>1. \/ ModelName /\ UNCHANGED <<sessionKey, screen>>
        \/ IllFormed \/ ValidateAndSelect \/ RefuseKey
        \/ DetectProvider /\ UNCHANGED <<thread, preference>>
    BY DEF ConsumeSetupText
  <2> QED
    BY <2>1 DEF Preferred, ModelName, IllFormed, ValidateAndSelect, RefuseKey, DetectProvider,
       SetPreference, Touch, Prompts
<1>4. preference' \in [provider : {"ollama", "cloud"}, model : {"default", "custom", "key"}]
  BY <1>2, <1>t DEF Preferred, TypeOK
<1>3. 0 \in 0..(MaxTurns + 1)
  BY Bounds
<1> QED
  BY <1>1, <1>2, <1>3, <1>4, <1>t, TypeStep DEF TypeOK

\* The buttons of a card, and the steps of a run.
LEMMA TypeCards ==
  ASSUME TypeInv, PressExpired \/ PressApprove \/ PressReject
  PROVE  TypeInv'
<1> USE Bounds DEF Handling, Done, Goto, user, db, ghosts, ram, run
<1>t. TypeOK
  BY DEF TypeInv
<1>0. 0 \in 0..(MaxTurns + 1)
  OBVIOUS
<1>1. CASE PressExpired
  BY <1>1, <1>t, <1>0, TypeStep DEF PressExpired, TypeOK
<1>2. CASE PressApprove
  <2>1. decision' \in [Cards -> {"new", "open", "approved", "withdrawn"}]
    BY <1>2, <1>t DEF PressApprove, TypeOK
  <2>2. cur.card \in Cards /\ pending' \subseteq Cards
    BY <1>2, <1>t DEF PressApprove, PopPending, TypeOK
  <2> QED
    BY <1>2, <2>1, <2>2, <1>t, TypeStep DEF PressApprove, TypeOK
<1>3. CASE PressReject
  <2>1. decision' \in [Cards -> {"new", "open", "approved", "withdrawn"}]
    BY <1>3, <1>t DEF PressReject, Withdraw, TypeOK
  <2>2. pending' \subseteq Cards
    BY <1>3, <1>t DEF PressReject, PopPending, TypeOK
  <2> QED
    BY <1>3, <2>1, <2>2, <1>t, TypeStep DEF PressReject, TypeOK
<1> QED
  BY <1>1, <1>2, <1>3

\* What a run and the ends of a handler write.
LEMMA TypeRun ==
  ASSUME TypeInv, BegunInv,
         \/ SendFailure \/ Rejected \/ Approved \/ StartRun \/ NoClient
         \/ BeginTask \/ RecordApproved \/ ProviderFails \/ FinalReport
         \/ BadArguments \/ RunTool \/ RecordTool \/ ToolCrashes \/ TurnLimit
         \/ Reply \/ ShowCard \/ ExecuteApproved \/ \E card \in Cards : Propose(card)
  PROVE  TypeInv'
<1> USE Bounds DEF Handling, Running, Done, Goto, user, db, ghosts, ram, run
<1>t. TypeOK
  BY DEF TypeInv
<1>0. 0 \in 0..(MaxTurns + 1) /\ 1 \in 0..(MaxTurns + 1)
  OBVIOUS
<1>1. CASE SendFailure \/ NoClient \/ ProviderFails \/ ToolCrashes \/ Reply
  <2>1. missed' \subseteq Cards
    BY <1>1, <1>t DEF SendFailure, Unshown, OpenBut, NoClient, ProviderFails, ToolCrashes, Reply,
                      TypeOK
  <2> QED
    BY <1>1, <2>1, <1>t, <1>0, TypeStep
     DEF SendFailure, NoClient, ProviderFails, ToolCrashes, Reply, Asking, TypeOK
<1>2. CASE Rejected \/ FinalReport \/ TurnLimit
  <2>1. messages' = messages \cup {<<CurrentThread, "denied">>}
          \/ messages' = messages \cup {<<CurrentThread, "report">>}
    BY <1>2 DEF Rejected, FinalReport, TurnLimit, Add
  <2>2. messages' \subseteq messages \cup ({CurrentThread} \X What)
    BY <2>1 DEF What
  <2>3. thread' = CurrentThread
    BY <1>2 DEF Rejected, FinalReport, TurnLimit, Add, Touch
  <2> QED
    BY <1>2, <2>2, <2>3, <1>t, <1>0, TypeStep DEF Rejected, FinalReport, TurnLimit, Asking, TypeOK
<1>3. CASE Approved \/ StartRun \/ RunTool
  BY <1>3, <1>t, <1>0, TypeStep DEF Approved, StartRun, RunTool, Asking, Touch, TypeOK
<1>4. CASE BeginTask
  <2>1. cur.kind \in {"text", "key"}
    BY <1>4 DEF BeginTask, BegunInv
  <2>2. messages' \subseteq messages \cup ({CurrentThread} \X What)
    BY <1>4, <2>1 DEF BeginTask, Add, What
  <2>3. thread' = CurrentThread
    BY <1>4 DEF BeginTask, Add, Touch
  <2> QED
    BY <1>4, <2>2, <2>3, <1>t, <1>0, TypeStep DEF BeginTask, TypeOK
<1>5. CASE RecordApproved \/ BadArguments \/ RecordTool
  <2>1. messages' = messages \cup {<<CurrentThread, "result">>}
    BY <1>5 DEF RecordApproved, BadArguments, RecordTool, Add
  <2>2. messages' \subseteq messages \cup ({CurrentThread} \X What)
    BY <2>1 DEF What
  <2>3. thread' = CurrentThread
    BY <1>5 DEF RecordApproved, BadArguments, RecordTool, Add, Touch
  <2>4. turn' \in 0..(MaxTurns + 1)
    <3>1. turn \in Nat /\ (turn' = 1 \/ (turn <= MaxTurns /\ turn' = turn + 1))
      BY <1>5, <1>t DEF RecordApproved, BadArguments, RecordTool, Asking, BegunInv, TypeOK
    <3> QED
      BY <3>1
  <2> QED
    BY <1>5, <2>2, <2>3, <2>4, <1>t, TypeStep DEF RecordApproved, BadArguments, RecordTool, Asking, TypeOK
<1>6. CASE ShowCard
  <2>1. resume \in Cards
    BY <1>6, <1>t DEF ShowCard, BegunInv, TypeOK
  <2>2. decision' \in [Cards -> {"new", "open", "approved", "withdrawn"}]
    BY <1>6, <1>t DEF ShowCard, Withdraw, TypeOK
  <2> QED
    BY <1>6, <2>1, <2>2, <1>t, <1>0, TypeStep DEF ShowCard, TypeOK
<1>7. CASE ExecuteApproved
  <2>1. ran' \in [Cards -> Nat]
    BY <1>7, <1>t DEF ExecuteApproved, TypeOK
  <2> QED
    BY <1>7, <2>1, <1>t, TypeStep DEF ExecuteApproved, TypeOK
<1>8. ASSUME NEW card \in Cards, Propose(card) PROVE TypeInv'
  <2>1. decision' \in [Cards -> {"new", "open", "approved", "withdrawn"}]
    BY <1>8, <1>t DEF Propose, Withdraw, TypeOK
  <2>2. CurrentThread \in 0..(MaxUpdates + 1)
    BY ThreadBound
  <2>3. origin' \in [Cards -> 0..(MaxUpdates + 1)]
    BY <1>8, <2>2, <1>t DEF Propose, TypeOK
  <2> QED
    BY <1>8, <2>1, <2>3, <1>t, TypeStep DEF Propose, PutPending, Touch, Asking, TypeOK
<1> QED
  BY <1>1, <1>2, <1>3, <1>4, <1>5, <1>6, <1>7, <1>8

LEMMA TypeNext == TypeInv /\ BegunInv /\ [Next]_vars => TypeInv'
<1> SUFFICES ASSUME TypeInv, BegunInv, [Next]_vars PROVE TypeInv'
  OBVIOUS
<1>1. CASE UNCHANGED vars
  <2>1. CurrentThread' = CurrentThread /\ Waiting' = Waiting
    BY <1>1 DEF CurrentThread, Waiting, vars, db, user
  <2> QED
    BY <1>1, <2>1 DEF TypeInv, TypeOK, vars, db, ram, run, user, ghosts
<1> QED
  BY <1>1, TypeUser, TypeTake, TypeRestart, TypeMenu, TypeSetup, TypeCards, TypeRun
     DEF Next, Bot

\* The state takes only values of its type.
THEOREM TypesHold == Spec => []TypeOK
<1>1. TypeInv => TypeOK
  BY DEF TypeInv
<1> QED
  BY <1>1, TypeInit, TypeNext, BegunAlways, PTL DEF Spec

-----------------------------------------------------------------------------
\* A step writes to the current thread, and takes from no other: the
\* conversations of other threads stay as they are (storage.py).
THEOREM OthersKept == Spec => OtherThreadsAreKept
<1>1. ASSUME [Next]_vars, NEW m \in messages, m[1] # CurrentThread
      PROVE  m \in messages'
  <2> USE <1>1 DEF db, Add
  <2>1. CASE User \/ Restart \/ UNCHANGED vars
    BY <2>1 DEF User, SendText, SendKey, Press, PressCard, Send, Restart, vars
  <2>2. CASE PressReset
    BY <2>2 DEF PressReset, Reset
  <2>3. CASE Bot /\ ~PressReset
    BY <2>3 DEF Bot, Take, SendFailure, PressNew, PressLocal, PressAuto,
         PressCloud, PressCancel, PressWrong, PressYes, PressCustom,
         ConsumeSetupText, PressExpired, PressApprove, PressReject, Rejected,
         Approved, StartRun, NoClient, BeginTask, ExecuteApproved, RecordApproved,
         ProviderFails, FinalReport, BadArguments, RunTool, RecordTool, ToolCrashes,
         TurnLimit, Reply, Propose, ShowCard
  <2> QED
    BY <2>1, <2>2, <2>3 DEF Next
<1>2. [Next]_vars => [\A m \in messages : m[1] # CurrentThread => m \in messages']_vars
  BY <1>1
<1> QED
  BY <1>2, PTL DEF Spec, OtherThreadsAreKept

-----------------------------------------------------------------------------
(***************************************************************************)
(* Keys.  That a key the bot asked for is not stored is true of a user who *)
(* waits for the answer to one update before he sends the next, while the  *)
(* process lives: the dialogue is only in memory.  A restart forgets that  *)
(* a key was asked for, and an update that waits before the key may end    *)
(* the dialogue; TLC finds both.                                           *)
(***************************************************************************)
OneAtATime == crashes = 0 /\ Waiting <= 1

Busy(kinds) ==
    \/ pc # "idle" /\ cur.kind \in kinds
    \/ \E i \in DOMAIN inbox : inbox[i].kind \in kinds

(***************************************************************************)
(* While the request for a key is on the screen the dialogue waits for     *)
(* one; the key on its way is the only update there is, so the dialogue    *)
(* still waits when it comes; and a button that leaves the dialogue takes  *)
(* the request off the screen when it is pressed, not when it is handled.  *)
(***************************************************************************)
KeyInv ==
    /\ KeyNeverStored
    /\ "key prompt" \in screen => setup \in {"auto", "key"}
    /\ Busy({"key"}) => setup \in {"auto", "key"}
    /\ Busy({"key"}) => pc \in {"idle", "handle"}
    /\ Busy(Leaving) => "key prompt" \notin screen

LEMMA KeyInit == Init => KeyInv
  BY DEF Init, KeyInv, KeyNeverStored, Busy, Leaving

\* While an update is handled no other waits, and it is the one that counts.
LEMMA Handled ==
  ASSUME TypeOK, OneAtATime, pc # "idle"
  PROVE  inbox = <<>> /\ \A kinds : Busy(kinds) <=> cur.kind \in kinds
<1>1. inbox \in Seq(Update) /\ Len(inbox) \in Nat
  BY DEF TypeOK
<1>2. Len(inbox) = 0
  BY <1>1 DEF OneAtATime, Waiting
<1>3. inbox = <<>>
  BY <1>1, <1>2
<1> QED
  BY <1>3 DEF Busy

LEMMA NoPlace == ASSUME NEW S, S = << >> PROVE \A i : i \notin DOMAIN S
  OBVIOUS

\* A handler that ends keeps what it leaves of the dialogue.
LEMMA KeyEnd ==
  ASSUME TypeOK, KeyInv, OneAtATime, pc # "idle", pc' = "idle", inbox' = inbox,
         \/ screen' \subseteq screen \cup (Cards \cup {"detected", "undetected"}) /\ setup' = setup
         \/ "key prompt" \notin screen'
         \/ setup' \in {"auto", "key"},
         \A m \in messages' : m[2] # "key",
         preference'.model # "key"
  PROVE  KeyInv'
<1>1. inbox' = <<>>
  BY Handled
<1>4. \A i : i \notin DOMAIN inbox'
  BY <1>1, NoPlace
<1>2. \A kinds : ~Busy(kinds)'
  BY <1>4 DEF Busy
<1>3. "key prompt" \notin Cards
  BY CardsAssumption DEF Prompts
<1> QED
  BY <1>2, <1>3 DEF KeyInv, KeyNeverStored

\* A handler that goes on.
LEMMA KeyGoesOn ==
  ASSUME TypeOK, KeyInv, OneAtATime, pc # "idle", pc' # "idle", cur' = cur,
         cur.kind # "key" \/ pc' = "handle",
         UNCHANGED <<inbox, screen, setup>>,
         \A m \in messages' : m[2] # "key",
         preference'.model # "key"
  PROVE  KeyInv'
<1>1. inbox' = <<>> /\ \A kinds : Busy(kinds) <=> cur.kind \in kinds
  BY Handled
<1>3. \A i : i \notin DOMAIN inbox'
  BY <1>1, NoPlace
<1>2. \A kinds : Busy(kinds)' <=> cur.kind \in kinds
  BY <1>3 DEF Busy
<1> QED
  BY <1>1, <1>2 DEF KeyInv, KeyNeverStored

LEMMA KeyUser ==
  ASSUME TypeOK, KeyInv, OneAtATime, OneAtATime', User
  PROVE  KeyInv'
<1>1. PICK kind \in Kinds, card \in Cards \cup {NoCard} :
        /\ Send(kind, card)
        /\ kind = "key" => "key prompt" \in screen
        /\ screen' = IF kind \in Leaving THEN screen \ {"key prompt"} ELSE screen
  <2>a. {"text", "key", "ok", "no"} \subseteq Kinds /\ {"text", "key", "ok", "no"} \cap Leaving = {}
    BY DEF Kinds, Menu, Leaving
  <2>1. CASE SendText \/ SendKey
    BY <2>1, <2>a DEF SendText, SendKey
  <2>3. ASSUME NEW card \in Cards, PressCard("ok", card) \/ PressCard("no", card)
        PROVE  /\ Send("ok", card) \/ Send("no", card)
               /\ screen' = screen
    BY <2>3 DEF PressCard
  <2>2. ASSUME NEW button \in Buttons, Press(button)
        PROVE  /\ button \in Kinds /\ button # "key" /\ Send(button, NoCard)
               /\ screen' = IF button \in Leaving THEN screen \ {"key prompt"} ELSE screen
    BY <2>2, BoundsAssumption DEF Press, Kinds, Menu
  <2> QED
    BY <2>1, <2>2, <2>3, <2>a DEF User
<1>2. /\ inbox \in Seq(Update) /\ Len(inbox) \in Nat
      /\ inbox' = Append(inbox, [kind |-> kind, card |-> card])
      /\ UNCHANGED <<messages, preference, setup, pc, cur>>
  <2>1. inbox \in Seq(Update)
    BY DEF TypeOK
  <2>2. Send(kind, card)
    BY <1>1
  <2>3. inbox' = Append(inbox, [kind |-> kind, card |-> card])
    BY <2>2 DEF Send
  <2>4. UNCHANGED <<messages, preference, setup, pc, cur>>
    BY <2>2 DEF Send, db, ram
  <2> QED
    BY <2>1, <2>3, <2>4
<1>3. Len(inbox') = Len(inbox) + 1
  BY <1>2
<1>4. Len(inbox) = 0 /\ pc = "idle"
  BY <1>2, <1>3 DEF OneAtATime, Waiting
<1>5. inbox' = <<[kind |-> kind, card |-> card]>>
  BY <1>2, <1>4
<1>6. \A kinds : Busy(kinds)' <=> kind \in kinds
  BY <1>2, <1>4, <1>5 DEF Busy
<1> QED
  BY <1>1, <1>2, <1>4, <1>6 DEF KeyInv, KeyNeverStored

LEMMA KeyTake ==
  ASSUME TypeOK, KeyInv, OneAtATime, Take
  PROVE  KeyInv'
<1>1. /\ inbox \in Seq(Update) /\ Len(inbox) \in Nat /\ inbox # <<>>
      /\ pc = "idle" /\ pc' = "handle" /\ cur' = Head(inbox) /\ inbox' = Tail(inbox)
      /\ UNCHANGED <<messages, preference, setup, screen>>
  BY DEF TypeOK, Take, db, ram
<1>2. Len(inbox) = 1
  BY <1>1 DEF OneAtATime, Waiting
<1>3. inbox' = <<>> /\ cur' = inbox[1] /\ 1 \in DOMAIN inbox
  BY <1>1, <1>2
<1>4. \A kinds : Busy(kinds)' => Busy(kinds)
  BY <1>1, <1>3 DEF Busy
<1> QED
  BY <1>1, <1>4 DEF KeyInv, KeyNeverStored

\* The dialogue.
LEMMA KeyDialogue ==
  ASSUME TypeOK, KeyInv, OneAtATime,
         \/ PressNew \/ PressReset \/ PressLocal \/ PressAuto \/ PressCloud
         \/ PressCancel \/ PressWrong \/ PressYes \/ PressCustom \/ ConsumeSetupText
  PROVE  KeyInv'
<1> USE DEF Handling, Done, user, db, ram
<1>1. /\ pc = "handle" /\ pc' = "idle" /\ inbox' = inbox /\ messages' \subseteq messages
  BY DEF PressNew, PressReset, Reset, PressLocal, PressAuto, PressCloud,
     PressCancel, PressWrong, PressYes, PressCustom, ConsumeSetupText
<1>2. /\ \A kinds : Busy(kinds) <=> cur.kind \in kinds
      /\ \A m \in messages' : m[2] # "key"
      /\ preference.model # "key"
      /\ cur.kind \in Leaving => "key prompt" \notin screen
      /\ "key prompt" \in screen => setup \in {"auto", "key"}
  BY <1>1, Handled DEF KeyInv, KeyNeverStored
<1>p. preference.model # "key"
  BY <1>2
<1>3. CASE PressNew \/ PressCancel \/ PressCustom
  <2>1. "key prompt" \notin screen /\ screen' = screen /\ preference' = preference
    BY <1>2, <1>3 DEF PressNew, PressCancel, PressCustom, Leaving
  <2> QED
    BY <1>1, <1>2, <2>1, KeyEnd
<1>4. CASE PressLocal
  <2>1. "key prompt" \notin screen /\ screen' = screen /\ preference'.model # "key"
    BY <1>2, <1>4 DEF PressLocal, SetPreference, Leaving
  <2> QED
    BY <1>1, <1>2, <2>1, KeyEnd
<1>5. CASE PressReset
  BY <1>1, <1>2, <1>5, KeyEnd DEF PressReset
<1>6. CASE PressAuto
  BY <1>1, <1>2, <1>6, KeyEnd DEF PressAuto
<1>7. CASE PressCloud
  <2>1. /\ "key prompt" \notin screen' \/ setup' = "key"
        /\ preference' \in {preference, Preferred}
    BY <1>2, <1>7 DEF PressCloud, ValidateAndSelect, SetPreference, Preferred
  <2>2. preference'.model # "key"
    <3>1. Preferred.model # "key"
      BY DEF Preferred
    <3>2. preference' = preference \/ preference' = Preferred
      BY <2>1
    <3> QED
      BY <3>1, <3>2, <1>p
  <2> QED
    BY <1>1, <1>2, <2>1, <2>2, KeyEnd
<1>8. CASE PressWrong
  BY <1>1, <1>2, <1>8, KeyEnd DEF PressWrong
<1>9. CASE PressYes
  <2>1. /\ setup' = setup \/ "key prompt" \notin screen
        /\ screen' = screen
        /\ preference' \in {preference, Preferred}
    BY <1>2, <1>9 DEF PressYes, SetPreference, Preferred
  <2>2. preference'.model # "key"
    <3>1. Preferred.model # "key"
      BY DEF Preferred
    <3>2. preference' = preference \/ preference' = Preferred
      BY <2>1
    <3> QED
      BY <3>1, <3>2, <1>p
  <2> QED
    BY <1>1, <1>2, <2>1, <2>2, KeyEnd
<1>10. CASE ConsumeSetupText
  <2>0. cur.kind = "key" => setup \in {"auto", "key"}
    BY <1>2 DEF KeyInv
  <2>a. \/ preference' \in {preference, Preferred}
        \/ preference' = [provider |-> preference.provider, model |-> "custom"]
    BY <1>2, <1>10, <2>0 DEF ConsumeSetupText, ModelName, IllFormed, ValidateAndSelect,
       RefuseKey, DetectProvider, SetPreference, Preferred
  <2>1. preference'.model # "key"
    BY <2>a, <1>p DEF Preferred
  <2>2. \/ screen' = screen /\ setup' = setup
        \/ "key prompt" \notin screen'
        \/ setup' = "key"
    <3>1. \/ setup = "model" /\ ModelName /\ screen' = screen
          \/ IllFormed \/ ValidateAndSelect \/ RefuseKey \/ DetectProvider
      BY <1>10 DEF ConsumeSetupText
    <3>2. setup = "model" => "key prompt" \notin screen
      BY <1>2
    <3> QED
      <4>1. CASE setup = "model" /\ ModelName /\ screen' = screen
        BY <4>1, <3>2
      <4>2. CASE IllFormed
        BY <4>2 DEF IllFormed
      <4>3. CASE ValidateAndSelect \/ RefuseKey
        BY <4>3 DEF ValidateAndSelect, RefuseKey
      <4>4. CASE DetectProvider
        <5>1. \E w \in {"detected", "undetected"} :
                screen' = (screen \ {"key prompt"}) \cup {w}
          BY <4>4 DEF DetectProvider
        <5>2. "key prompt" \notin screen'
          BY <5>1
        <5> QED
          BY <5>2
      <4> QED
        BY <3>1, <4>1, <4>2, <4>3, <4>4
  <2> QED
    BY <1>1, <1>2, <2>1, <2>2, KeyEnd
<1> QED
  BY <1>3, <1>4, <1>5, <1>6, <1>7, <1>8, <1>9, <1>10

\* Buttons of cards, and runs: a key is never what a run begins with.
LEMMA KeyRun ==
  ASSUME TypeOK, BegunInv, KeyInv, OneAtATime,
         \/ SendFailure \/ PressExpired \/ PressApprove \/ PressReject \/ Rejected
         \/ Approved \/ StartRun \/ NoClient \/ BeginTask \/ ExecuteApproved
         \/ RecordApproved \/ ProviderFails \/ FinalReport \/ BadArguments \/ RunTool
         \/ RecordTool \/ ToolCrashes \/ TurnLimit \/ Reply \/ ShowCard
         \/ \E card \in Cards : Propose(card)
  PROVE  KeyInv'
<1> USE DEF Handling, Running, Done, Goto, user, db, ram, run
<1>1. /\ pc # "idle" /\ inbox' = inbox /\ setup' = setup /\ preference' = preference
      /\ pc' # "idle" => cur' = cur /\ screen' = screen /\ pc' # "handle"
      /\ pc' = "idle" => screen' \subseteq screen \cup (Cards \cup {"detected", "undetected"})
                           \/ ShowCard
      /\ pc = "handle" /\ pc' # "idle" => cur.kind # "key" \/ setup = "none"
  BY DEF SendFailure, PressExpired, PressApprove, PressReject, Rejected, Approved,
     StartRun, NoClient, BeginTask, ExecuteApproved, RecordApproved, ProviderFails,
     FinalReport, BadArguments, RunTool, RecordTool, ToolCrashes, TurnLimit, Reply,
     ShowCard, Propose, Asking
<1>2. /\ \A kinds : Busy(kinds) <=> cur.kind \in kinds
      /\ \A m \in messages : m[2] # "key"
      /\ preference.model # "key"
      /\ cur.kind = "key" => pc = "handle" /\ setup \in {"auto", "key"}
  BY <1>1, Handled DEF KeyInv, KeyNeverStored
<1>3. \A m \in messages' : m[2] # "key"
  <2>1. \/ messages' = messages
        \/ \E w \in {"text", "result", "denied", "report"} :
             messages' = messages \cup {<<CurrentThread, w>>}
    BY <1>2 DEF SendFailure, PressExpired, PressApprove, PressReject, Rejected, Approved,
       StartRun, NoClient, BeginTask, ExecuteApproved, RecordApproved, ProviderFails,
       FinalReport, BadArguments, RunTool, RecordTool, ToolCrashes, TurnLimit, Reply,
       ShowCard, Propose, Asking, Add, BegunInv
  <2> QED
    BY <2>1, <1>2
<1>4. CASE pc' = "idle"
  <2>1. screen' \subseteq screen \cup (Cards \cup {"detected", "undetected"})
    BY <1>1, <1>4 DEF ShowCard, BegunInv, TypeOK
  <2> QED
    BY <1>1, <1>2, <1>3, <1>4, <2>1, KeyEnd
<1>5. CASE pc' # "idle"
  <2>1. cur.kind # "key"
    BY <1>1, <1>2, <1>5
  <2> QED
    BY <1>1, <1>2, <1>3, <1>5, <2>1, KeyGoesOn
<1> QED
  BY <1>4, <1>5

LEMMA KeyNext ==
  ASSUME TypeOK, BegunInv, KeyInv, OneAtATime, OneAtATime', [Next]_vars
  PROVE  KeyInv'
<1>1. CASE UNCHANGED vars
  BY <1>1 DEF KeyInv, KeyNeverStored, Busy, vars, db, ram, user
<1>2. ~Restart
  BY DEF Restart, OneAtATime
<1> QED
  BY <1>1, <1>2, KeyUser, KeyTake, KeyDialogue, KeyRun DEF Next, Bot

\* A user who waits for each answer keeps his keys out of the database and of
\* the model's conversations, as long as the process lives.
THEOREM KeysStayOut == Spec /\ []OneAtATime => []KeptSafely
<1>1. TypeOK /\ KeyInv => KeptSafely
  BY DEF KeyInv, KeptSafely
<1>2. TypeOK /\ BegunInv /\ KeyInv /\ OneAtATime /\ OneAtATime' /\ [Next]_vars => KeyInv'
  BY KeyNext
<1> QED
  BY <1>1, <1>2, KeyInit, TypesHold, BegunAlways, PTL DEF Spec
=============================================================================
