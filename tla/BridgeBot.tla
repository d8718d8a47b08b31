------------------------------ MODULE BridgeBot ------------------------------
(***************************************************************************)
(* The Telegram and Bale bots of the Bridge (bridge/telegram_bot/bot.py).  *)
(* Updates are handled one after the other.  The handler of a text reads   *)
(* the events of its run until their stream ends, so that a button that is *)
(* pressed meanwhile waits behind it.  The stream carries the events of    *)
(* all runs (EventStreams).  In this process it ends with the first run    *)
(* that ends; a daemon ends it with the bot's own run.  A question that    *)
(* nobody answers is refused after 120 seconds (ChatRuns).                 *)
(***************************************************************************)
EXTENDS Naturals, Sequences

CONSTANTS
    BotRuns,   \* runs that texts to the bot start, and their status messages
    OtherRuns, \* runs that other frontends start
    MaxPresses \* bound: buttons pressed

ChatRun == BotRuns \cup OtherRuns
NoRun == "none"

ASSUME BotAssumption ==
    /\ BotRuns \cap OtherRuns = {} /\ NoRun \notin ChatRun
    /\ MaxPresses \in Nat

VARIABLES
    transport, \* is the Bridge in this process ("inproc") or a daemon ("http")?
    botInbox,  \* updates that are yet to be handled
    loop,      \* the run whose stream the bot reads, or NoRun
    hears,     \* does a listener fill that stream: "not yet", "yes", or "over"
    stream,    \* the events that the stream has for the bot
    run,       \* [ChatRun -> where it stands]
    answer,    \* [ChatRun -> what resolve_confirmation was last told]
    pending,   \* _pending: the requests that the bot can resolve
    buttons,   \* [BotRuns -> the request whose buttons its status message has]
    resolved,  \* [ChatRun -> times the bot has resolved its request]
    yes,       \* the requests that somebody has approved, here or elsewhere
    presses    \* buttons pressed so far

reading == <<loop, hears, stream>>
screen == <<pending, buttons, resolved>>
botVars == <<transport, botInbox, reading, run, answer, screen, yes, presses>>

IsText(u) == u.verb = "text"
Finished == {"done", "done, ran"}

\* The request of the run can still be resolved.
There(r) == run[r] \in {"asking", "late"}

BotInit ==
    /\ transport \in {"inproc", "http"}
    /\ botInbox = <<>>
    /\ loop = NoRun /\ hears = "over" /\ stream = <<>>
    /\ run = [r \in ChatRun |-> "new"]
    /\ answer = [r \in ChatRun |-> "none"]
    /\ pending = {} /\ buttons = [m \in BotRuns |-> NoRun]
    /\ resolved = [r \in ChatRun |-> 0]
    /\ yes = {}
    /\ presses = 0

-----------------------------------------------------------------------------
(* The user, and the other frontends.                                      *)

Text(r) == [verb |-> "text", run |-> r, at |-> r]

UserWrites(r) ==
    /\ run[r] = "new" /\ ~\E i \in DOMAIN botInbox : botInbox[i] = Text(r)
    /\ botInbox' = Append(botInbox, Text(r))
    /\ UNCHANGED <<transport, reading, run, answer, screen, yes, presses>>

\* A button of the status message m is pressed; a double click presses twice.
UserPresses(m, verb) ==
    /\ buttons[m] # NoRun /\ presses < MaxPresses
    /\ presses' = presses + 1
    /\ botInbox' = Append(botInbox, [verb |-> verb, run |-> buttons[m], at |-> m])
    /\ yes' = IF verb = "ok" THEN yes \cup {buttons[m]} ELSE yes
    /\ UNCHANGED <<transport, reading, run, answer, screen>>

\* Another frontend resolves the request, if it is still there.
ResolvedElsewhere(r, value) ==
    /\ There(r) /\ answer[r] = "none"
    /\ answer' = [answer EXCEPT ![r] = value]
    /\ yes' = IF value = "approved" THEN yes \cup {r} ELSE yes
    /\ UNCHANGED <<transport, botInbox, reading, run, screen, presses>>

-----------------------------------------------------------------------------
(* The runs.                                                               *)

\* The listener puts an event of any run into the stream.
Posts(kind, r) ==
    /\ stream' = IF hears = "yes" THEN Append(stream, [kind |-> kind, run |-> r]) ELSE stream
    /\ UNCHANGED <<loop, hears>>

Becomes(r, state) == run' = [run EXCEPT ![r] = state]

OtherStarts(r) ==
    /\ r \in OtherRuns /\ run[r] = "new"
    /\ Becomes(r, "going")
    /\ Posts("turn", r)
    /\ UNCHANGED <<transport, botInbox, answer, screen, yes, presses>>

\* The run proposes a dangerous tool and waits for its answer.
Asks(r) ==
    /\ run[r] = "going"
    /\ Becomes(r, "asking")
    /\ Posts("ask", r)
    /\ UNCHANGED <<transport, botInbox, answer, screen, yes, presses>>

\* 120 seconds go by.  An answer that comes before the request is taken away
\* is accepted, and does not count.
Expires(r) ==
    /\ run[r] = "asking" /\ answer[r] = "none"
    /\ Becomes(r, "late")
    /\ UNCHANGED <<transport, botInbox, reading, answer, screen, yes, presses>>

\* The request is taken away, and the tool runs or is refused.
Decides(r) ==
    /\ \/ run[r] = "asking" /\ answer[r] = "approved" /\ Becomes(r, "ran")
       \/ run[r] = "asking" /\ answer[r] = "refused" /\ Becomes(r, "refused")
       \/ run[r] = "late" /\ Becomes(r, "refused")
    /\ Posts("result", r)
    /\ UNCHANGED <<transport, botInbox, answer, screen, yes, presses>>

\* chat_done, or chat_failed.
Ends(r) ==
    /\ run[r] \in {"going", "ran", "refused"}
    /\ Becomes(r, IF run[r] = "ran" THEN "done, ran" ELSE "done")
    /\ Posts("done", r)
    /\ UNCHANGED <<transport, botInbox, answer, screen, yes, presses>>

-----------------------------------------------------------------------------
(* The stream of events.                                                   *)

\* stream_request has started the run, and subscribes only now; _stream_events
\* has subscribed before it started the run.
Subscribe ==
    /\ hears = "not yet" /\ hears' = "yes"
    /\ UNCHANGED <<transport, botInbox, loop, stream, run, answer, screen, yes, presses>>

\* The daemon ends the stream when the bot's own run has ended, or has been
\* silent for 300 seconds; what it has written is still read.
DaemonEndsStream ==
    /\ transport = "http" /\ hears = "yes" /\ ~There(loop)
    /\ hears' = "over"
    /\ UNCHANGED <<transport, botInbox, loop, stream, run, answer, screen, yes, presses>>

\* The handler of the text is done with the stream.
LeaveStream == loop' = NoRun /\ hears' = "over" /\ stream' = <<>>

\* A text is edited into the status message of m and takes its buttons away;
\* a text that is there already is not sent, and Telegram may refuse an edit.
Edited(m) == buttons' \in {buttons, [buttons EXCEPT ![m] = NoRun]}

ReadToEnd ==
    /\ loop # NoRun /\ hears = "over" /\ stream = <<>>
    /\ LeaveStream
    /\ UNCHANGED <<transport, botInbox, run, answer, screen, yes, presses>>

\* Mutation: the generator waits for events without a limit.
StreamFallsSilentNever == FALSE /\ UNCHANGED botVars

\* In this process the stream ends after 300 seconds without an event of any
\* run, with a chat_failed that the generator makes up.
StreamFallsSilent ==
    /\ transport = "inproc" /\ hears = "yes" /\ stream = <<>>
    /\ \A r \in ChatRun : ~There(r)
    /\ Edited(loop)
    /\ LeaveStream
    /\ UNCHANGED <<transport, botInbox, run, answer, pending, resolved, yes, presses>>

\* The connection to the daemon is lost.
StreamBreaks ==
    /\ transport = "http" /\ loop # NoRun
    /\ Edited(loop)
    /\ LeaveStream
    /\ UNCHANGED <<transport, botInbox, run, answer, pending, resolved, yes, presses>>

-----------------------------------------------------------------------------
(* The handlers of the bot.                                                *)

NextIsText == loop = NoRun /\ botInbox # <<>> /\ IsText(Head(botInbox))

\* text_handler: the run starts, and the bot reads its stream.
HandleText ==
    /\ NextIsText
    /\ loop' = Head(botInbox).run
    /\ hears' = IF transport = "http" THEN "yes" ELSE "not yet"
    /\ Becomes(Head(botInbox).run, "going")
    /\ botInbox' = Tail(botInbox)
    /\ UNCHANGED <<transport, stream, answer, screen, yes, presses>>

\* The sender is refused, the status message cannot be sent, or no run starts.
RefuseText ==
    /\ NextIsText
    /\ botInbox' = Tail(botInbox)
    /\ UNCHANGED <<transport, reading, run, answer, screen, yes, presses>>

\* _render_event, of a question: it becomes pending, and the status message is
\* edited.  An edit that fails ends the handler, with or without its effect.
RenderQuestion ==
    /\ loop # NoRun /\ stream # <<>> /\ Head(stream).kind = "ask"
    /\ pending' = pending \cup {Head(stream).run}
    /\ LET shown == [buttons EXCEPT ![loop] = Head(stream).run] IN
       \/ buttons' = shown /\ stream' = Tail(stream) /\ UNCHANGED <<loop, hears>>
       \/ buttons' \in {buttons, shown} /\ LeaveStream
    /\ UNCHANGED <<transport, botInbox, run, answer, resolved, yes, presses>>

\* _render_event, of another event.
Render ==
    /\ loop # NoRun /\ stream # <<>> /\ Head(stream).kind # "ask"
    /\ Edited(loop)
    /\ IF Head(stream).kind = "done" /\ transport = "inproc"
       THEN LeaveStream
       ELSE stream' = Tail(stream) /\ UNCHANGED <<loop, hears>>
    /\ UNCHANGED <<transport, botInbox, run, answer, pending, resolved, yes, presses>>

\* Mutation: whatever is pressed approves.
VerdictOfAny(verb) == "approved"

Verdict(verb) == IF verb = "ok" THEN "approved" ELSE "refused"

Forget(r) == pending \ {r}

\* resolve_confirmation, by whichever way.
Told(r, verb) ==
    answer' = IF There(r) THEN [answer EXCEPT ![r] = Verdict(verb)] ELSE answer

\* callback and _handle_approval.  In this process resolve_confirmation raises
\* when the request is gone, and the buttons stay; a daemon answers with a flag
\* that the bot does not look at, or the call fails, and the buttons stay.
HandlePress ==
    LET u == Head(botInbox) IN
    /\ loop = NoRun /\ botInbox # <<>> /\ ~IsText(u)
    /\ botInbox' = Tail(botInbox)
    /\ \/ u.run \notin pending /\ UNCHANGED <<answer, screen>>
       \/ /\ u.run \in pending
          /\ pending' = Forget(u.run)
          /\ resolved' = [resolved EXCEPT ![u.run] = @ + 1]
          /\ \/ Told(u.run, u.verb) /\ (There(u.run) \/ transport = "http") /\ Edited(u.at)
             \/ Told(u.run, u.verb) /\ transport = "inproc" /\ ~There(u.run) /\ UNCHANGED buttons
             \/ transport = "http" /\ UNCHANGED <<answer, buttons>>
    /\ UNCHANGED <<transport, reading, run, yes, presses>>

RunStep(r) == Asks(r) \/ Expires(r) \/ Decides(r) \/ Ends(r)
StreamStep == Subscribe \/ DaemonEndsStream \/ ReadToEnd \/ StreamFallsSilent
LoopStep == HandleText \/ HandlePress \/ RenderQuestion \/ Render

BotNext ==
    \/ \E r \in BotRuns : UserWrites(r)
    \/ \E r \in OtherRuns : OtherStarts(r)
    \/ \E r \in ChatRun :
         \/ RunStep(r)
         \/ \E value \in {"approved", "refused"} : ResolvedElsewhere(r, value)
    \/ \E m \in BotRuns, verb \in {"ok", "no"} : UserPresses(m, verb)
    \/ StreamStep \/ StreamBreaks
    \/ LoopStep \/ RefuseText

\* The bot's tasks and the threads of the Bridge run, questions expire and
\* silences end; nobody has to answer, and nothing has to fail.
BotFairness ==
    /\ WF_botVars(LoopStep) /\ WF_botVars(StreamStep)
    /\ \A r \in ChatRun : WF_botVars(RunStep(r))

BotSpec == BotInit /\ [][BotNext]_botVars /\ BotFairness

-----------------------------------------------------------------------------
(* Properties.                                                             *)

\* The types of the variables; only a stream that the bot reads is filled.
BotTypeOK ==
    /\ run \in [ChatRun -> {"new", "going", "asking", "late", "ran", "refused"} \cup Finished]
    /\ answer \in [ChatRun -> {"none", "approved", "refused"}]
    /\ pending \subseteq ChatRun /\ buttons \in [BotRuns -> ChatRun \cup {NoRun}]
    /\ hears \in {"not yet", "yes", "over"}
    /\ loop = NoRun => stream = <<>> /\ hears = "over"

\* "so the message cannot be answered twice" (bot.py:419): however often and
\* however late the buttons are pressed, and on however many status messages
\* they stand, the bot resolves a request once.
ResolvedAtMostOnce == \A r \in ChatRun : resolved[r] <= 1

\* No button is dead: the bot can resolve the request of every button on the
\* screen, or has tried to, also when the edit that showed it has failed.
ButtonsAreKnown ==
    \A m \in BotRuns :
        buttons[m] # NoRun => buttons[m] \in pending \/ resolved[buttons[m]] = 1

\* A dangerous tool runs only if somebody approved this very request, with the
\* bot's button or elsewhere, although presses are handled long after they are
\* made, and behind runs that they are not about.
OnlyApprovedToolsRun ==
    \A r \in ChatRun : run[r] \in {"ran", "done, ran"} => r \in yes

\* What the bot promises about approvals.
BotSafe == BotTypeOK /\ ResolvedAtMostOnce /\ ButtonsAreKnown /\ OnlyApprovedToolsRun

\* Every update is handled at last, however long the runs before it ask, and
\* also when a run has ended before the bot listens to it.
UpdatesAreReached == []<>(botInbox = <<>>)

\* Not so in the code: a press for the only run is handled when its question
\* has expired, because the bot is still reading that run's own stream.
PressesCount ==
    [][\A r \in ChatRun :
         Expires(r) => ~\E i \in DOMAIN botInbox :
                          botInbox[i].verb = "ok" /\ botInbox[i].run = r]_botVars
=============================================================================
