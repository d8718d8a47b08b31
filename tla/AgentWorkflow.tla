---------------------------- MODULE AgentWorkflow ----------------------------
(***************************************************************************)
(* The workflow agent behind the Telegram and Bale bots: one chat, seen    *)
(* through TelegramBot (agent/bot.py), OllamaAgent.run (agent/brain.py)    *)
(* and the SQLite tables of Storage (agent/storage.py).                    *)
(*                                                                         *)
(* The messenger hands the bot one update after the other.  A text starts  *)
(* a workflow: the model is asked, tools that only read run at once, and   *)
(* the first action that needs approval stops the workflow behind a card   *)
(* with two buttons.  The pending row of that card is in SQLite, the key   *)
(* dialogue (setup, session keys) is in memory, and the process may die    *)
(* between any two steps; updates are then delivered again or not.         *)
(*                                                                         *)
(* auto_approve_mutations is off.  One cloud provider stands for the two.  *)
(***************************************************************************)
EXTENDS Integers, Sequences, FiniteSets

CONSTANTS
    Cards,         \* ids of approval cards, each used once (uuid4)
    NoCard,
    Buttons,       \* the menu buttons the user presses in this instance
    EnvKey,        \* is there a key for the cloud provider in the environment?
    MaxTurns,      \* settings.max_agent_turns
    SendsFail,     \* may a message to the messenger fail?
    MaxUpdates,    \* bound: updates the user makes
    MaxInbox,      \* bound: updates that wait at the same time
    MaxCrashes     \* bound: deaths of the process

Menu == {"new", "reset", "local", "auto", "cloud", "custom", "yes", "wrong", "cancel"}

Prompts == {"key prompt", "detected", "undetected"}

ASSUME CardsAssumption == NoCard \notin Cards /\ Cards \cap Prompts = {}
ASSUME BoundsAssumption ==
    /\ MaxTurns \in Nat \ {0} /\ MaxUpdates \in Nat
    /\ MaxInbox \in Nat /\ MaxCrashes \in Nat
    /\ Buttons \subseteq Menu
    /\ EnvKey \in BOOLEAN /\ SendsFail \in BOOLEAN

VARIABLES
    thread,        \* chat_state.thread, 0 while there is no row
    messages,      \* the messages table, as <<thread, what>>
    pending,       \* ids of the rows of pending_actions
    preference,    \* chat_preferences: provider and model
    setup,         \* TelegramBot.setup of the chat
    sessionKey,    \* is there a key in ProviderRouter._session_keys?
    pc,            \* where the handler of the current update is
    cur,           \* the update being handled
    turn,          \* turn of the loop in OllamaAgent.run
    resume,        \* the approved action the run starts with, or the card to show
    screen,        \* what the chat shows: cards and prompts
    inbox,         \* updates sent and not yet handled
    sent, crashes, \* counters for the bounds
    ran,           \* how often the action of each card ran
    decision,      \* what became of each card: see below
    missed,        \* cards that a newer one overtook that was never shown
    origin         \* the thread each card was proposed in

db == <<thread, messages, pending, preference>>
ram == <<setup, sessionKey>>
run == <<turn, resume>>
user == <<inbox, sent>>
ghosts == <<ran, decision, missed, origin>>
vars == <<db, ram, run, user, ghosts, pc, cur, screen, crashes>>

Update == [kind : Menu \cup {"text", "key", "ok", "no"}, card : Cards \cup {NoCard}]
Nothing == [kind |-> "text", card |-> NoCard]

Init ==
    /\ thread = 0 /\ messages = {} /\ pending = {}
    /\ preference = [provider |-> "ollama", model |-> "default"]
    /\ setup = "none" /\ sessionKey = FALSE
    /\ pc = "idle" /\ cur = Nothing /\ turn = 0 /\ resume = NoCard
    /\ screen = {} /\ inbox = <<>> /\ sent = 0 /\ crashes = 0
    /\ ran = [c \in Cards |-> 0]
    /\ decision = [c \in Cards |-> "new"] /\ missed = {}
    /\ origin = [c \in Cards |-> 0]

-----------------------------------------------------------------------------
(***************************************************************************)
(* The user.  A card's buttons stay in the chat and may be pressed again.  *)
(* A key is sent only while a request for one is the last thing said about *)
(* keys: the buttons in Leaving turn the user away from it.                *)
(***************************************************************************)
Leaving == {"new", "local", "custom", "cancel"}

Waiting == Len(inbox) + (IF pc = "idle" THEN 0 ELSE 1)

Send(kind, card) ==
    /\ sent < MaxUpdates /\ Waiting < MaxInbox
    /\ inbox' = Append(inbox, [kind |-> kind, card |-> card])
    /\ sent' = sent + 1
    /\ UNCHANGED <<db, ram, run, ghosts, pc, cur, crashes>>

SendText == Send("text", NoCard) /\ UNCHANGED screen

SendKey == "key prompt" \in screen /\ Send("key", NoCard) /\ UNCHANGED screen

Press(button) ==
    /\ button \in {"yes", "wrong"} => "detected" \in screen
    /\ button = "cancel" => "undetected" \in screen
    /\ Send(button, NoCard)
    /\ screen' = IF button \in Leaving THEN screen \ {"key prompt"} ELSE screen

PressCard(verb, card) == card \in screen /\ Send(verb, card) /\ UNCHANGED screen

User ==
    \/ SendText
    \/ SendKey
    \/ \E button \in Buttons : Press(button)
    \/ \E card \in Cards : PressCard("ok", card)
    \/ \E card \in Cards : PressCard("no", card)

-----------------------------------------------------------------------------
(***************************************************************************)
(* Storage.  thread() makes the chat's row when it is missing, and every   *)
(* other operation, through audit, calls it.                               *)
(***************************************************************************)
CurrentThread == IF thread = 0 THEN 1 ELSE thread

Touch == thread' = CurrentThread

Add(what) == Touch /\ messages' = messages \cup {<<CurrentThread, what>>}

NewChat == thread' = thread + 1

\* Mutation: the conversations of all threads are deleted.
ResetAll == Touch /\ messages' = {} /\ pending' = {}

Reset ==
    /\ Touch
    /\ messages' = {m \in messages : m[1] # CurrentThread}
    /\ pending' = {}

\* Mutation: the row of the card before stays.
PutPendingBesides(card) == Touch /\ pending' = pending \cup {card}

PutPending(card) == Touch /\ pending' = {card}

\* Mutation: the row is read and not deleted.
PopPendingReads(card) == card \in Cards /\ UNCHANGED pending

PopPending(card) == pending' = pending \ {card}

SetPreference(provider, model) ==
    Touch /\ preference' = [provider |-> provider, model |-> model]

(***************************************************************************)
(* decision follows what the user was told, never the rows: a card is open *)
(* from its proposal until the user approves it, or rejects it, resets the *)
(* conversation or is shown a newer card (withdrawn).  A newer card that   *)
(* is proposed, and that no message shows, leaves it open, and missed.     *)
(***************************************************************************)
OpenBut(card) == {c \in Cards \ {card} : decision[c] = "open"}

Withdraw(cards) ==
    [c \in Cards |-> IF c \in cards /\ decision[c] = "open" THEN "withdrawn" ELSE decision[c]]

-----------------------------------------------------------------------------
(* ProviderRouter.client_for: a cloud client needs a key. *)
HasClient == preference.provider = "ollama" \/ sessionKey \/ EnvKey

Goto(label) == pc' = label /\ UNCHANGED cur

Done == pc' = "idle" /\ cur' = Nothing /\ turn' = 0 /\ resume' = NoCard

(* Application.process_update: updates are handled one after the other. *)
Take ==
    /\ pc = "idle" /\ inbox # <<>>
    /\ pc' = "handle" /\ cur' = Head(inbox) /\ inbox' = Tail(inbox)
    /\ UNCHANGED <<db, ram, run, ghosts, sent, screen, crashes>>

Handling(kinds) ==
    /\ pc = "handle" /\ cur.kind \in kinds
    /\ UNCHANGED <<user, crashes>>

\* The handler ends: a card it was about to show stays unseen.
Unshown == missed' = missed \cup (IF pc = "card" THEN OpenBut(resume) ELSE {})

(* A message of the bot that cannot be sent ends the handler. *)
SendFailure ==
    /\ SendsFail /\ pc \in {"approved", "begin", "card", "reply"}
    /\ Done /\ Unshown
    /\ UNCHANGED <<db, ram, user, ran, decision, origin, screen, crashes>>

-----------------------------------------------------------------------------
(* The menu (callback). *)
\* Mutation: a new conversation drops the pending action.
PressNewDrops ==
    /\ Handling({"new"})
    /\ setup' = "none" /\ NewChat /\ pending' = {} /\ Done
    /\ UNCHANGED <<messages, preference, sessionKey, ghosts, screen>>

PressNew ==
    /\ Handling({"new"})
    /\ setup' = "none" /\ NewChat /\ Done
    /\ UNCHANGED <<messages, pending, preference, sessionKey, ghosts, screen>>

PressReset ==
    /\ Handling({"reset"})
    /\ Reset /\ Done
    /\ decision' = Withdraw(Cards)
    /\ UNCHANGED <<preference, ram, ran, missed, origin, screen>>

PressLocal ==
    /\ Handling({"local"})
    /\ setup' = "none" /\ SetPreference("ollama", "default") /\ Done
    /\ UNCHANGED <<messages, pending, sessionKey, ghosts, screen>>

PressAuto ==
    /\ Handling({"auto"})
    /\ setup' = "auto" /\ screen' = screen \cup {"key prompt"} /\ Done
    /\ UNCHANGED <<db, sessionKey, ghosts>>

\* Mutation: a refused key ends the dialogue, and the user is asked again.
ValidateAndForget ==
    \/ /\ setup' = "none" /\ sessionKey' = TRUE
       /\ SetPreference("cloud", "default")
       /\ screen' = screen \ {"key prompt"}
    \/ /\ setup' = "none" /\ screen' = screen \cup {"key prompt"}
       /\ UNCHANGED <<thread, preference, sessionKey>>

(***************************************************************************)
(* _validate_and_select: a key the provider takes is kept in memory and    *)
(* the provider becomes the chat's; for any other the user is asked again. *)
(***************************************************************************)
ValidateAndSelect ==
    \/ /\ setup' = "none" /\ sessionKey' = TRUE
       /\ SetPreference("cloud", "default")
       /\ screen' = screen \ {"key prompt"}
    \/ /\ setup' = "key" /\ screen' = screen \cup {"key prompt"}
       /\ UNCHANGED <<thread, preference, sessionKey>>

PressCloud ==
    /\ Handling({"cloud"})
    /\ IF setup \in {"detected", "undetected"}
       THEN ValidateAndSelect
       ELSE /\ setup' = "key" /\ screen' = screen \cup {"key prompt"}
            /\ UNCHANGED <<thread, preference, sessionKey>>
    /\ Done
    /\ UNCHANGED <<messages, pending, ghosts>>

PressCancel ==
    /\ Handling({"cancel"})
    /\ setup' = "none" /\ sessionKey' = FALSE /\ Done
    /\ UNCHANGED <<db, ghosts, screen>>

(* "wrong": the provider is forgotten, the key is not. *)
PressWrong ==
    /\ Handling({"wrong"})
    /\ setup' = IF setup = "detected" THEN "undetected"
                ELSE IF setup = "key" THEN "auto" ELSE setup
    /\ Done
    /\ UNCHANGED <<db, sessionKey, ghosts, screen>>

PressYes ==
    /\ Handling({"yes"})
    /\ IF setup \in {"detected", "undetected"}
       THEN setup' = "none" /\ SetPreference("cloud", "default")
       ELSE UNCHANGED <<setup, thread, preference>>
    /\ Done
    /\ UNCHANGED <<messages, pending, sessionKey, ghosts, screen>>

PressCustom ==
    /\ Handling({"custom"})
    /\ setup' = "model" /\ Done
    /\ UNCHANGED <<db, sessionKey, ghosts, screen>>

-----------------------------------------------------------------------------
(***************************************************************************)
(* _consume_setup_text: a text that comes during the key dialogue never    *)
(* reaches the model.                                                      *)
(***************************************************************************)
ModelName ==
    \/ /\ setup' = "none"
       /\ SetPreference(preference.provider, IF cur.kind = "key" THEN "key" ELSE "custom")
    \/ UNCHANGED <<setup, thread, preference>>

(* Two providers are tried; a text that is no key is taken by none. *)
DetectProvider ==
    \/ /\ cur.kind = "key"
       /\ setup' = "detected" /\ sessionKey' = TRUE
       /\ screen' = (screen \ {"key prompt"}) \cup {"detected"}
    \/ /\ setup' = "undetected"
       /\ screen' = (screen \ {"key prompt"}) \cup {"undetected"}
       /\ UNCHANGED sessionKey

(* A text with a space, too short or too long: asked again. *)
IllFormed == UNCHANGED <<setup, sessionKey, thread, preference, screen>>

RefuseKey ==
    /\ setup' = "key" /\ screen' = screen \cup {"key prompt"}
    /\ UNCHANGED <<sessionKey, thread, preference>>

ConsumeSetupText ==
    /\ Handling({"text", "key"}) /\ setup # "none"
    /\ \/ setup = "model" /\ ModelName /\ UNCHANGED <<sessionKey, screen>>
       \/ setup # "model" /\ IllFormed
       \/ setup = "key" /\ IF cur.kind = "key" THEN ValidateAndSelect ELSE RefuseKey
       \/ /\ setup \in {"auto", "detected", "undetected"} /\ DetectProvider
          /\ UNCHANGED <<thread, preference>>
    /\ Done
    /\ UNCHANGED <<messages, pending, ghosts>>

-----------------------------------------------------------------------------
(***************************************************************************)
(* The buttons of a card.  The row goes first: whoever finds no row has    *)
(* been answered, replaced or reset.                                       *)
(***************************************************************************)
PressExpired ==
    /\ Handling({"ok", "no"}) /\ cur.card \notin pending
    /\ Done
    /\ UNCHANGED <<db, ram, ghosts, screen>>

PressApprove ==
    /\ Handling({"ok"}) /\ cur.card \in pending
    /\ PopPending(cur.card)
    /\ decision' = [decision EXCEPT ![cur.card] = IF @ = "open" THEN "approved" ELSE @]
    /\ resume' = cur.card /\ Goto("approved")
    /\ UNCHANGED <<thread, messages, preference, ram, turn, ran, missed, origin, screen>>

PressReject ==
    /\ Handling({"no"}) /\ cur.card \in pending
    /\ PopPending(cur.card)
    /\ decision' = Withdraw({cur.card})
    /\ Goto("rejected")
    /\ UNCHANGED <<thread, messages, preference, ram, run, ran, missed, origin, screen>>

Rejected ==
    /\ pc = "rejected"
    /\ Add("denied") /\ Done
    /\ UNCHANGED <<pending, preference, ram, user, ghosts, screen, crashes>>

(* The audit row and the message that the workflow goes on. *)
Approved ==
    /\ pc = "approved"
    /\ Touch /\ Goto("begin")
    /\ UNCHANGED <<messages, pending, preference, ram, run, user, ghosts, screen, crashes>>

-----------------------------------------------------------------------------
(* TelegramBot._run and OllamaAgent.run. *)
StartRun ==
    /\ Handling({"text", "key"}) /\ setup = "none"
    /\ Goto("begin")
    /\ UNCHANGED <<db, ram, run, ghosts, screen>>

Running(label) == pc = label /\ UNCHANGED <<user, crashes>>

NoClient ==
    /\ Running("begin") /\ ~HasClient
    /\ Done
    /\ UNCHANGED <<db, ram, ghosts, screen>>

BeginTask ==
    /\ Running("begin") /\ HasClient /\ resume = NoCard
    /\ Add(cur.kind)
    /\ turn' = 1 /\ Goto("ask")
    /\ UNCHANGED <<pending, preference, ram, resume, ghosts, screen>>

(* tools.invoke of the approved action; it may fail, which is recorded too. *)
ExecuteApproved ==
    /\ Running("begin") /\ HasClient /\ resume # NoCard
    /\ ran' = [ran EXCEPT ![resume] = @ + 1]
    /\ Goto("executed")
    /\ UNCHANGED <<db, ram, run, decision, missed, origin, screen>>

RecordApproved ==
    /\ Running("executed")
    /\ Add("result")
    /\ turn' = 1 /\ resume' = NoCard /\ Goto("ask")
    /\ UNCHANGED <<pending, preference, ram, ghosts, screen>>

Asking == Running("ask") /\ turn <= MaxTurns

ProviderFails ==
    /\ Asking /\ Done
    /\ UNCHANGED <<db, ram, ghosts, screen>>

FinalReport ==
    /\ Asking /\ Add("report")
    /\ Goto("reply")
    /\ UNCHANGED <<pending, preference, ram, run, ghosts, screen>>

(* Arguments that cannot be normalised are answered like a failed tool. *)
BadArguments ==
    /\ Asking /\ Add("result")
    /\ turn' = turn + 1 /\ Goto("ask")
    /\ UNCHANGED <<pending, preference, ram, resume, ghosts, screen>>

RunTool ==
    /\ Asking /\ Goto("ran")
    /\ UNCHANGED <<db, ram, run, ghosts, screen>>

\* Mutation: a tool does not count as a turn.
RecordToolFree ==
    /\ Running("ran") /\ Add("result")
    /\ Goto("ask")
    /\ UNCHANGED <<pending, preference, ram, run, ghosts, screen>>

RecordTool ==
    /\ Running("ran") /\ Add("result")
    /\ turn' = turn + 1 /\ Goto("ask")
    /\ UNCHANGED <<pending, preference, ram, resume, ghosts, screen>>

(* An exception that is no ToolError leaves run() before the record. *)
ToolCrashes ==
    /\ pc \in {"executed", "ran"} /\ Running(pc)
    /\ Done
    /\ UNCHANGED <<db, ram, ghosts, screen>>

TurnLimit ==
    /\ Running("ask") /\ turn > MaxTurns
    /\ Add("report") /\ Goto("reply")
    /\ UNCHANGED <<pending, preference, ram, run, ghosts, screen>>

Reply ==
    /\ Running("reply") /\ Done
    /\ UNCHANGED <<db, ram, ghosts, screen>>

(* The action needs approval: its row, which replaces the one before, and  *)
(* then two messages, of which the second is the card.                     *)
Propose(card) ==
    /\ Asking /\ decision[card] = "new"
    /\ PutPending(card)
    /\ decision' = [decision EXCEPT ![card] = "open"]
    /\ origin' = [origin EXCEPT ![card] = CurrentThread]
    /\ resume' = card /\ Goto("card")
    /\ UNCHANGED <<messages, preference, ram, turn, ran, missed, screen>>

ShowCard ==
    /\ Running("card")
    /\ screen' = screen \cup {resume} /\ Done
    /\ decision' = Withdraw(OpenBut(resume))
    /\ UNCHANGED <<db, ram, ran, missed, origin>>

-----------------------------------------------------------------------------
(***************************************************************************)
(* The process dies and is started again.  run_polling does not drop what  *)
(* is waiting: the updates it has fetched come again unless the messenger  *)
(* has seen them acknowledged.                                             *)
(***************************************************************************)
Restart ==
    /\ crashes < MaxCrashes /\ crashes' = crashes + 1
    /\ setup' = "none" /\ sessionKey' = FALSE /\ Done /\ Unshown
    /\ \/ inbox' = <<>>
       \/ inbox' = inbox
       \/ pc # "idle" /\ inbox' = <<cur>> \o inbox
    /\ UNCHANGED <<db, ran, decision, origin, screen, sent>>

Bot ==
    \/ Take \/ SendFailure
    \/ PressNew \/ PressReset \/ PressLocal \/ PressAuto \/ PressCloud
    \/ PressCancel \/ PressWrong \/ PressYes \/ PressCustom
    \/ ConsumeSetupText
    \/ PressExpired \/ PressApprove \/ PressReject \/ Rejected \/ Approved
    \/ StartRun \/ NoClient \/ BeginTask \/ ExecuteApproved \/ RecordApproved
    \/ ProviderFails \/ FinalReport \/ BadArguments \/ RunTool \/ RecordTool
    \/ ToolCrashes \/ TurnLimit \/ Reply
    \/ \E card \in Cards : Propose(card)
    \/ ShowCard

Next == User \/ Bot \/ Restart

Spec == Init /\ [][Next]_vars

(* The process runs; nothing is assumed of the user. *)
FairSpec == Spec /\ WF_vars(Bot)

-----------------------------------------------------------------------------
(* The values the state takes; a run never asks the model past its limit. *)
TypeOK ==
    /\ thread \in 0..(MaxUpdates + 1)
    /\ messages \subseteq (1..(MaxUpdates + 1)) \X {"text", "key", "result", "denied", "report"}
    /\ pending \subseteq Cards
    /\ preference \in [provider : {"ollama", "cloud"}, model : {"default", "custom", "key"}]
    /\ setup \in {"none", "auto", "key", "model", "detected", "undetected"}
    /\ sessionKey \in BOOLEAN
    /\ pc \in {"idle", "handle", "approved", "rejected", "begin", "ask", "executed",
               "ran", "card", "reply"}
    /\ cur \in Update
    /\ turn \in 0..(MaxTurns + 1)
    /\ resume \in Cards \cup {NoCard}
    /\ screen \subseteq Cards \cup Prompts
    /\ inbox \in Seq(Update)
    /\ sent \in 0..MaxUpdates /\ crashes \in 0..MaxCrashes
    /\ ran \in [Cards -> Nat]
    /\ decision \in [Cards -> {"new", "open", "approved", "withdrawn"}]
    /\ missed \subseteq Cards
    /\ origin \in [Cards -> 0..(MaxUpdates + 1)]

(***************************************************************************)
(* An approved action runs at most once, however often its button is       *)
(* pressed or its update is delivered, and through every restart           *)
(* (pop_pending before the run, storage.py).                               *)
(***************************************************************************)
RunsOnce == \A c \in Cards : ran[c] <= 1

(***************************************************************************)
(* The action of a card runs only while the user's approval of this very   *)
(* card stands: not after he rejected it, reset the conversation or was    *)
(* shown a newer card, whatever buttons are still in the chat.             *)
(***************************************************************************)
OnlyApprovedRuns ==
    [][\A c \in Cards : ran'[c] # ran[c] => decision[c] = "approved"]_vars

(***************************************************************************)
(* A card the user sees and has not answered, and after which no newer one *)
(* was shown, can still be answered: its row is there, also after a        *)
(* restart or in a new conversation.  One exception is in the code         *)
(* (bot.py:281-293): the row goes when a newer card is proposed, and if    *)
(* the message with that card fails, or the process dies before it, the    *)
(* older card stays on the screen without its row (missed).                *)
(***************************************************************************)
OpenCardsAreAnswerable ==
    \A c \in Cards \cap screen :
        decision[c] = "open" /\ c \notin missed /\ pc # "card" => c \in pending

(* Not a property of the code: so can every card that the user sees open.  *)
SeenCardsAreAnswerable ==
    \A c \in Cards \cap screen : decision[c] = "open" /\ pc # "card" => c \in pending

(* The conversations of other threads stay as they are (README, storage.py). *)
OtherThreadsAreKept ==
    [][\A m \in messages : m[1] # CurrentThread => m \in messages']_vars

(***************************************************************************)
(* A key the bot asked for reaches neither the messages nor the            *)
(* preferences in SQLite, and so not the model.                            *)
(***************************************************************************)
KeyNeverStored ==
    /\ \A m \in messages : m[2] # "key"
    /\ preference.model # "key"

\* What is kept: values of the right kind, and no key that was asked for.
KeptSafely == TypeOK /\ KeyNeverStored

(* Every update is handled, unless it is lost with the process. *)
UpdatesAreHandled == []<>(pc = "idle" /\ inbox = <<>>)

(***************************************************************************)
(* What an approval promises: the workflow goes on with the action, and    *)
(* only the death of the process may come in between.                      *)
(***************************************************************************)
ApprovedActionsRun ==
    [][pc = "begin" /\ resume # NoCard /\ crashes' = crashes
         => pc' \in {"begin", "executed"}]_vars

(* Clearing the memory of the current thread leaves other threads' actions. *)
ResetIsOfThread ==
    [][pc = "handle" /\ cur.kind = "reset"
         => \A c \in pending \ pending' : origin[c] = CurrentThread]_vars
=============================================================================
