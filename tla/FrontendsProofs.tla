--------------------------- MODULE FrontendsProofs ---------------------------
(***************************************************************************)
(* Proofs about what stands between runs and users: what the bot's buttons *)
(* do to requests, for any runs and presses and any order in which the     *)
(* updates, the events of the stream and the other frontends come; and     *)
(* that the event queues of runs have readers, for any runs, tabs and      *)
(* frames.  With the streams of EventStreamsProofs this is what the        *)
(* composition in MCFrontends keeps.                                       *)
(***************************************************************************)
EXTENDS MCFrontends, EventStreamsProofs

-----------------------------------------------------------------------------
(* The bot.                                                                *)

BotUpdates == [verb : {"text", "ok", "no"}, run : ChatRun, at : BotRuns]
BotEvents == [kind : {"turn", "ask", "result", "done"}, run : ChatRun]

\* The updates that wait: a text is about a run that has not begun, and waits
\* once; a press that approves was made by somebody.
InboxInv ==
    /\ botInbox \in Seq(BotUpdates)
    /\ \A i \in 1..Len(botInbox) :
         /\ IsText(botInbox[i]) =>
              /\ botInbox[i].run \in BotRuns /\ botInbox[i].at = botInbox[i].run
              /\ run[botInbox[i].run] = "new"
         /\ botInbox[i].verb = "ok" => botInbox[i].run \in yes
    /\ \A i, j \in 1..Len(botInbox) :
         IsText(botInbox[i]) /\ IsText(botInbox[j]) /\ botInbox[i].run = botInbox[j].run
         => i = j

\* Approvals come from somebody, to the run that asked.
VerdictInv ==
    /\ run \in [ChatRun -> {"new", "going", "asking", "late", "ran", "refused"} \cup Finished]
    /\ answer \in [ChatRun -> {"none", "approved", "refused"}]
    /\ yes \subseteq ChatRun
    /\ \A r \in ChatRun : answer[r] = "approved" => r \in yes
    /\ \A r \in ChatRun : run[r] \in {"ran", "done, ran"} => r \in yes

\* What the bot reads and shows; a button stands for a request that the bot can
\* resolve, or has resolved.
ScreenInv ==
    /\ hears \in {"not yet", "yes", "over"} /\ loop \in BotRuns \cup {NoRun}
    /\ loop = NoRun => stream = <<>> /\ hears = "over"
    /\ pending \subseteq ChatRun
    /\ buttons \in [BotRuns -> ChatRun \cup {NoRun}]
    /\ resolved \in [ChatRun -> Nat]
    /\ ButtonsAreKnown

\* The stream's questions: one for each run that has asked, until the bot
\* shows it; then the request is pending, until the bot resolves it.
AskInv ==
    /\ stream \in Seq(BotEvents)
    /\ \A i, j \in 1..Len(stream) :
         stream[i].kind = "ask" /\ stream[j].kind = "ask" /\ stream[i].run = stream[j].run
         => i = j
    /\ \A i \in 1..Len(stream) : stream[i].kind = "ask" =>
         /\ run[stream[i].run] \notin {"new", "going"}
         /\ stream[i].run \notin pending /\ resolved[stream[i].run] = 0
    /\ \A r \in ChatRun :
         /\ resolved[r] <= 1
         /\ run[r] \in {"new", "going"} => r \notin pending /\ resolved[r] = 0
         /\ r \in pending => resolved[r] = 0

BotInv == InboxInv /\ VerdictInv /\ ScreenInv /\ AskInv

-----------------------------------------------------------------------------

LEMMA AppendAt ==
  ASSUME NEW S, NEW s \in Seq(S), NEW e \in S
  PROVE  /\ Append(s, e) \in Seq(S)
         /\ Len(Append(s, e)) = Len(s) + 1
         /\ \A i \in 1..Len(s) : Append(s, e)[i] = s[i]
         /\ Append(s, e)[Len(s) + 1] = e
         /\ Len(s) \in Nat
  BY AppendProperties, LenProperties

LEMMA EventAt ==
  ASSUME BotInv
  PROVE  \A i \in 1..Len(stream) : stream[i] \in BotEvents /\ stream[i].run \in ChatRun
<1>1. \A i \in 1..Len(stream) : stream[i] \in BotEvents
  BY ElementOfSeq DEF BotInv, AskInv
<1> QED
  BY <1>1 DEF BotEvents

LEMMA TextAt ==
  ASSUME BotInv
  PROVE  \A i \in 1..Len(botInbox) : botInbox[i].run \in ChatRun
<1>1. \A i \in 1..Len(botInbox) : botInbox[i] \in BotUpdates
  BY ElementOfSeq DEF BotInv, InboxInv
<1> QED
  BY <1>1 DEF BotUpdates

LEMMA BotInvInit == BotInit => BotInv
<1> SUFFICES ASSUME BotInit PROVE BotInv
  OBVIOUS
<1>1. Len(<<>>) = 0 /\ <<>> \in Seq(BotUpdates) /\ <<>> \in Seq(BotEvents)
  BY EmptySeq
<1>2. ScreenInv
  BY DEF BotInit, ScreenInv, ButtonsAreKnown
<1> QED
  BY <1>1, <1>2 DEF BotInit, BotInv, InboxInv, VerdictInv, AskInv, Finished

\* The invariant gives the property.
LEMMA BotInvSafe == BotInv => BotSafe
<1> SUFFICES ASSUME BotInv PROVE BotSafe
  OBVIOUS
<1>1. BotTypeOK
  BY DEF BotInv, VerdictInv, ScreenInv, BotTypeOK
<1>2. ResolvedAtMostOnce
  BY DEF BotInv, AskInv, ResolvedAtMostOnce
<1>3. ButtonsAreKnown
  BY DEF BotInv, ScreenInv
<1>4. OnlyApprovedToolsRun
  BY DEF BotInv, VerdictInv, OnlyApprovedToolsRun
<1> QED
  BY <1>1, <1>2, <1>3, <1>4 DEF BotSafe

-----------------------------------------------------------------------------
(* The user and the other frontends.                                       *)

LEMMA InvUserWrites ==
  ASSUME BotInv, NEW r \in BotRuns, UserWrites(r)
  PROVE  BotInv'
<1>1. r \in ChatRun /\ Text(r) \in BotUpdates
  BY DEF ChatRun, BotUpdates, Text
<1>2. botInbox' = Append(botInbox, Text(r)) /\ run[r] = "new"
      /\ UNCHANGED <<loop, hears, stream, run, answer, pending, buttons, resolved, yes>>
  BY DEF UserWrites, screen, reading
<1>3. \A i \in 1..Len(botInbox) : botInbox[i] # Text(r)
  BY DEF UserWrites, BotInv, InboxInv
<1>4. \A i \in 1..Len(botInbox) : IsText(botInbox[i]) => botInbox[i].run # r
  <2> SUFFICES ASSUME NEW i \in 1..Len(botInbox), IsText(botInbox[i]), botInbox[i].run = r
               PROVE  botInbox[i] = Text(r)
    BY <1>3
  <2>1. botInbox[i] \in BotUpdates /\ botInbox[i].at = r
    BY DEF BotInv, InboxInv
  <2> QED
    BY <2>1 DEF BotUpdates, IsText, Text
<1>5. InboxInv'
  <2>1. /\ botInbox' \in Seq(BotUpdates) /\ Len(botInbox') = Len(botInbox) + 1
        /\ \A i \in 1..Len(botInbox) : botInbox'[i] = botInbox[i]
        /\ botInbox'[Len(botInbox) + 1] = Text(r) /\ Len(botInbox) \in Nat
    BY <1>1, <1>2, AppendAt DEF BotInv, InboxInv
  <2>2. \A i \in 1..Len(botInbox') : i \in 1..Len(botInbox) \/ i = Len(botInbox) + 1
    BY <2>1
  <2> QED
    BY <1>1, <1>2, <1>4, <2>1, <2>2 DEF BotInv, InboxInv, IsText, Text
<1> QED
  BY <1>2, <1>5 DEF BotInv, VerdictInv, AskInv, ScreenInv, ButtonsAreKnown

LEMMA InvUserPresses ==
  ASSUME BotInv, NEW m \in BotRuns, NEW verb \in {"ok", "no"}, UserPresses(m, verb)
  PROVE  BotInv'
<1> DEFINE r == buttons[m]
           u == [verb |-> verb, run |-> r, at |-> m]
<1>1. r \in ChatRun /\ u \in BotUpdates /\ ~IsText(u)
  BY DEF BotUpdates, IsText, UserPresses, BotInv, ScreenInv
<1>2. botInbox' = Append(botInbox, u) /\ (verb = "ok" => r \in yes') /\ yes \subseteq yes'
      /\ yes' \subseteq yes \cup {r}
      /\ UNCHANGED <<loop, hears, stream, run, answer, pending, buttons, resolved>>
  BY DEF UserPresses, screen, reading
<1>3. InboxInv'
  <2>1. /\ botInbox' \in Seq(BotUpdates) /\ Len(botInbox') = Len(botInbox) + 1
        /\ \A i \in 1..Len(botInbox) : botInbox'[i] = botInbox[i]
        /\ botInbox'[Len(botInbox) + 1] = u /\ Len(botInbox) \in Nat
    BY <1>1, <1>2, AppendAt DEF BotInv, InboxInv
  <2>2. \A i \in 1..Len(botInbox') : i \in 1..Len(botInbox) \/ i = Len(botInbox) + 1
    BY <2>1
  <2> QED
    BY <1>1, <1>2, <2>1, <2>2 DEF BotInv, InboxInv, IsText
<1> QED
  BY <1>1, <1>2, <1>3 DEF BotInv, VerdictInv, AskInv, ScreenInv, ButtonsAreKnown

LEMMA InvResolvedElsewhere ==
  ASSUME BotInv, NEW r \in ChatRun, NEW value \in {"approved", "refused"},
         ResolvedElsewhere(r, value)
  PROVE  BotInv'
<1>1. InboxInv'
  BY DEF BotInv, InboxInv, ResolvedElsewhere, IsText
<1>2. VerdictInv'
  BY DEF BotInv, VerdictInv, ResolvedElsewhere
<1>3. AskInv' /\ ScreenInv'
  BY DEF BotInv, AskInv, ScreenInv, ButtonsAreKnown, ResolvedElsewhere, screen, reading
<1> QED
  BY <1>1, <1>2, <1>3 DEF BotInv

-----------------------------------------------------------------------------
(* The runs.                                                               *)

\* What a step of a run does to the inbox's invariant: nothing, as it is not
\* about a run whose text waits.
LEMMA InboxOfRunStep ==
  ASSUME BotInv, NEW r \in ChatRun, run[r] # "new", UNCHANGED <<botInbox, yes>>,
         NEW state, Becomes(r, state)
  PROVE  InboxInv'
<1>1. run' = [run EXCEPT ![r] = state] /\ botInbox' = botInbox /\ yes' = yes
  BY DEF Becomes
<1>2. \A i \in 1..Len(botInbox) : IsText(botInbox[i]) => run'[botInbox[i].run] = "new"
  BY <1>1, TextAt DEF BotInv, InboxInv, VerdictInv
<1> QED
  BY <1>1, <1>2 DEF BotInv, InboxInv, IsText

\* An event that is no question leaves the invariant of questions alone.
LEMMA AskOfOtherEvent ==
  ASSUME BotInv, NEW r \in ChatRun, NEW kind \in {"turn", "result", "done"}, Posts(kind, r),
         NEW state, state \in {"new", "going"} => run[r] \in {"new", "going"},
         Becomes(r, state), UNCHANGED screen
  PROVE  AskInv' /\ ScreenInv'
<1> DEFINE e == [kind |-> kind, run |-> r]
<1>1. e \in BotEvents /\ e.kind # "ask"
  BY DEF BotEvents
<1>2. run \in [ChatRun -> {"new", "going", "asking", "late", "ran", "refused"} \cup Finished]
      /\ run' = [run EXCEPT ![r] = state]
  BY DEF BotInv, VerdictInv, Becomes
<1>3. \A q \in ChatRun : run'[q] \in {"new", "going"} => run[q] \in {"new", "going"}
  BY <1>2
<1>4. UNCHANGED <<loop, hears, pending, buttons, resolved>>
  BY DEF screen, Posts
<1>5. ScreenInv'
  BY <1>4 DEF BotInv, ScreenInv, ButtonsAreKnown, Posts
<1>6. CASE hears # "yes"
  <2>1. stream' = stream
    BY <1>6 DEF Posts
  <2>2. \A i \in 1..Len(stream) : stream[i].run \in ChatRun
    BY EventAt
  <2> QED
    BY <1>3, <1>4, <1>5, <2>1, <2>2 DEF BotInv, AskInv
<1>7. CASE hears = "yes"
  <2>1. /\ stream' \in Seq(BotEvents) /\ Len(stream') = Len(stream) + 1
        /\ \A i \in 1..Len(stream) : stream'[i] = stream[i]
        /\ stream'[Len(stream) + 1] = e /\ Len(stream) \in Nat
    BY <1>1, <1>7, AppendAt DEF BotInv, AskInv, Posts
  <2>2. \A i \in 1..Len(stream') : stream'[i].kind = "ask" =>
          i \in 1..Len(stream) /\ stream'[i] = stream[i] /\ stream[i].run \in ChatRun
    <3> SUFFICES ASSUME NEW i \in 1..Len(stream'), stream'[i].kind = "ask"
                 PROVE  i \in 1..Len(stream)
      BY <2>1, EventAt
    <3>1. i \in 1..Len(stream) \/ i = Len(stream) + 1
      BY <2>1
    <3> QED
      BY <1>1, <2>1, <3>1
  <2>4. \A i \in 1..Len(stream') : stream'[i].kind = "ask" =>
          run'[stream'[i].run] \notin {"new", "going"}
    BY <1>3, <2>2 DEF BotInv, AskInv
  <2> QED
    BY <1>3, <1>4, <1>5, <2>1, <2>2, <2>4 DEF BotInv, AskInv
<1> QED
  BY <1>6, <1>7

LEMMA InvAsks ==
  ASSUME BotInv, NEW r \in ChatRun, Asks(r)
  PROVE  BotInv'
<1> DEFINE e == [kind |-> "ask", run |-> r]
<1>1. run' = [run EXCEPT ![r] = "asking"] /\ run[r] = "going"
      /\ UNCHANGED <<botInbox, loop, hears, answer, pending, buttons, resolved, yes>>
      /\ stream' = IF hears = "yes" THEN Append(stream, e) ELSE stream
  BY DEF Asks, Becomes, Posts, screen
<1>2. InboxInv'
  BY <1>1, InboxOfRunStep DEF Asks
<1>3. VerdictInv'
  BY <1>1 DEF BotInv, VerdictInv
<1>4. ScreenInv'
  BY <1>1 DEF BotInv, ScreenInv, ButtonsAreKnown
<1>5. AskInv'
  <2>1. \A q \in ChatRun : run'[q] \in {"new", "going"} => run[q] \in {"new", "going"} /\ q # r
    BY <1>1 DEF BotInv, VerdictInv
  <2>2. r \notin pending /\ resolved[r] = 0 /\ run'[r] \notin {"new", "going"}
    BY <1>1 DEF BotInv, VerdictInv, AskInv
  <2>3. CASE hears # "yes"
    <3>1. \A i \in 1..Len(stream) : stream[i].run \in ChatRun
      BY EventAt
    <3> QED
      BY <1>1, <2>1, <2>3, <3>1 DEF BotInv, AskInv
  <2>4. CASE hears = "yes"
    <3>1. e \in BotEvents
      BY DEF BotEvents
    <3>2. /\ stream' \in Seq(BotEvents) /\ Len(stream') = Len(stream) + 1
          /\ \A i \in 1..Len(stream) : stream'[i] = stream[i]
          /\ stream'[Len(stream) + 1] = e /\ Len(stream) \in Nat
      BY <1>1, <2>4, <3>1, AppendAt DEF BotInv, AskInv
    <3>3. \A i \in 1..Len(stream') : i \in 1..Len(stream) \/ i = Len(stream) + 1
      BY <3>2
    <3>4. \A i \in 1..Len(stream) : stream[i].run \in ChatRun
                                     /\ (stream[i].kind = "ask" => stream[i].run # r)
      BY <1>1, EventAt DEF BotInv, AskInv
    <3>5. \A i, j \in 1..Len(stream') :
            stream'[i].kind = "ask" /\ stream'[j].kind = "ask"
            /\ stream'[i].run = stream'[j].run => i = j
      BY <3>2, <3>3, <3>4 DEF BotInv, AskInv
    <3>6. \A i \in 1..Len(stream') : stream'[i].kind = "ask" =>
            /\ run'[stream'[i].run] \notin {"new", "going"}
            /\ stream'[i].run \notin pending /\ resolved[stream'[i].run] = 0
      BY <2>1, <2>2, <3>2, <3>3, <3>4 DEF BotInv, AskInv
    <3> QED
      BY <1>1, <2>1, <3>2, <3>5, <3>6 DEF BotInv, AskInv
  <2> QED
    BY <2>3, <2>4
<1> QED
  BY <1>2, <1>3, <1>4, <1>5 DEF BotInv

LEMMA InvExpires ==
  ASSUME BotInv, NEW r \in ChatRun, Expires(r)
  PROVE  BotInv'
<1>1. run' = [run EXCEPT ![r] = "late"] /\ run[r] = "asking"
      /\ UNCHANGED <<botInbox, loop, hears, stream, answer, pending, buttons, resolved, yes>>
  BY DEF Expires, Becomes, screen, reading
<1>2. InboxInv'
  BY <1>1, InboxOfRunStep DEF Expires
<1>3. VerdictInv'
  BY <1>1 DEF BotInv, VerdictInv
<1>4. AskInv'
  <2>1. \A q \in ChatRun : run'[q] \in {"new", "going"} => run[q] \in {"new", "going"}
    BY <1>1 DEF BotInv, VerdictInv
  <2>2. \A i \in 1..Len(stream) : stream[i].run \in ChatRun
    BY EventAt
  <2> QED
    BY <1>1, <2>1, <2>2 DEF BotInv, AskInv
<1>5. ScreenInv'
  BY <1>1 DEF BotInv, ScreenInv, ButtonsAreKnown
<1> QED
  BY <1>2, <1>3, <1>4, <1>5 DEF BotInv

LEMMA InvDecides ==
  ASSUME BotInv, NEW r \in ChatRun, Decides(r)
  PROVE  BotInv'
<1>1. PICK state \in {"ran", "refused"} :
        Becomes(r, state) /\ (state = "ran" => answer[r] = "approved")
  BY DEF Decides
<1>2. run[r] # "new" /\ Posts("result", r) /\ UNCHANGED <<botInbox, answer, screen, yes>>
  BY DEF Decides
<1>3. InboxInv'
  BY <1>1, <1>2, InboxOfRunStep
<1>4. VerdictInv'
  BY <1>1, <1>2 DEF BotInv, VerdictInv, Becomes
<1>5. AskInv' /\ ScreenInv'
  BY <1>1, <1>2, AskOfOtherEvent
<1> QED
  BY <1>3, <1>4, <1>5 DEF BotInv

LEMMA InvEnds ==
  ASSUME BotInv, NEW r \in ChatRun, Ends(r)
  PROVE  BotInv'
<1>1. PICK state \in Finished : Becomes(r, state) /\ (state = "done, ran" => run[r] = "ran")
  BY DEF Ends, Finished
<1>2. run[r] # "new" /\ Posts("done", r) /\ UNCHANGED <<botInbox, answer, screen, yes>>
  BY DEF Ends
<1>3. InboxInv'
  BY <1>1, <1>2, InboxOfRunStep
<1>4. VerdictInv'
  BY <1>1, <1>2 DEF BotInv, VerdictInv, Becomes, Finished
<1>5. AskInv' /\ ScreenInv'
  <2>1. state \notin {"new", "going"}
    BY DEF Finished
  <2> QED
    BY <1>1, <1>2, <2>1, AskOfOtherEvent
<1> QED
  BY <1>3, <1>4, <1>5 DEF BotInv

LEMMA InvOtherStarts ==
  ASSUME BotInv, NEW r \in OtherRuns, OtherStarts(r)
  PROVE  BotInv'
<1>1. r \in ChatRun /\ r \notin BotRuns
  BY BotAssumption DEF ChatRun
<1>2. run' = [run EXCEPT ![r] = "going"] /\ run[r] = "new" /\ Posts("turn", r)
      /\ Becomes(r, "going") /\ UNCHANGED <<botInbox, answer, screen, yes>>
  BY DEF OtherStarts, Becomes
<1>3. InboxInv'
  <2>1. \A i \in 1..Len(botInbox) : IsText(botInbox[i]) => run'[botInbox[i].run] = "new"
    BY <1>1, <1>2, TextAt DEF BotInv, InboxInv, VerdictInv
  <2> QED
    BY <1>2, <2>1 DEF BotInv, InboxInv, IsText
<1>4. VerdictInv'
  BY <1>1, <1>2 DEF BotInv, VerdictInv
<1>5. AskInv' /\ ScreenInv'
  BY <1>1, <1>2, AskOfOtherEvent
<1> QED
  BY <1>3, <1>4, <1>5 DEF BotInv

-----------------------------------------------------------------------------
(* The bot's event loop.                                                   *)

\* Taking the first update away keeps what the inbox says of the others.
LEMMA InboxTail ==
  ASSUME BotInv, botInbox # <<>>, botInbox' = Tail(botInbox), yes' = yes,
         \A i \in 2..Len(botInbox) : IsText(botInbox[i]) => run'[botInbox[i].run] = "new"
  PROVE  InboxInv'
<1>1. /\ botInbox' \in Seq(BotUpdates) /\ Len(botInbox') = Len(botInbox) - 1
      /\ Len(botInbox) \in Nat \ {0}
      /\ \A i \in 1..Len(botInbox') : i + 1 \in 2..Len(botInbox) /\ botInbox'[i] = botInbox[i + 1]
  BY TailAt DEF BotInv, InboxInv
<1>2. \A i, j \in 1..Len(botInbox') : i + 1 = j + 1 => i = j
  BY <1>1
<1>3. \A i \in 1..Len(botInbox') : i + 1 \in 1..Len(botInbox)
  BY <1>1
<1> QED
  BY <1>1, <1>2, <1>3 DEF BotInv, InboxInv, IsText

LEMMA InvHandleText ==
  ASSUME BotInv, HandleText
  PROVE  BotInv'
<1> DEFINE r == Head(botInbox).run
<1>1. botInbox # <<>> /\ botInbox' = Tail(botInbox) /\ loop = NoRun /\ IsText(Head(botInbox))
      /\ run' = [run EXCEPT ![r] = "going"] /\ loop' = r /\ hears' \in {"yes", "not yet"}
      /\ UNCHANGED <<stream, answer, pending, buttons, resolved, yes>>
  BY DEF HandleText, NextIsText, Becomes, screen
<1>2. Head(botInbox) = botInbox[1] /\ Len(botInbox) \in Nat \ {0}
  BY <1>1, TailAt DEF BotInv, InboxInv
<1>3. r \in BotRuns /\ r \in ChatRun /\ run[r] = "new" /\ 1 \in 1..Len(botInbox)
      /\ IsText(botInbox[1])
  <2>1. 1 \in 1..Len(botInbox)
    BY <1>2
  <2>2. IsText(botInbox[1]) /\ botInbox[1].run = r
    BY <1>1, <1>2
  <2>3. r \in BotRuns /\ run[r] = "new"
    BY <2>1, <2>2 DEF BotInv, InboxInv
  <2> QED
    BY <2>1, <2>2, <2>3 DEF ChatRun
<1>4. InboxInv'
  <2>1. \A i \in 2..Len(botInbox) : IsText(botInbox[i]) =>
          botInbox[i].run # r /\ run[botInbox[i].run] = "new" /\ botInbox[i].run \in ChatRun
    BY <1>2, <1>3 DEF BotInv, InboxInv, ChatRun
  <2> QED
    BY <1>1, <2>1, InboxTail DEF BotInv, VerdictInv
<1>5. VerdictInv'
  <2>1. \A q \in ChatRun : run'[q] = IF q = r THEN "going" ELSE run[q]
    BY <1>1, <1>3 DEF BotInv, VerdictInv
  <2> QED
    BY <1>1, <1>3, <2>1 DEF BotInv, VerdictInv
<1>6. AskInv'
  <2>1. \A q \in ChatRun : run'[q] \in {"new", "going"} <=> run[q] \in {"new", "going"}
    BY <1>1, <1>3 DEF BotInv, VerdictInv
  <2>2. \A i \in 1..Len(stream) : stream[i].run \in ChatRun
    BY EventAt
  <2> QED
    BY <1>1, <2>1, <2>2 DEF BotInv, AskInv
<1>7. ScreenInv'
  <2>1. r # NoRun
    BY <1>3, BotAssumption
  <2> QED
    BY <1>1, <1>3, <2>1 DEF BotInv, ScreenInv, ButtonsAreKnown
<1> QED
  BY <1>4, <1>5, <1>6, <1>7 DEF BotInv

LEMMA InvRefuseText ==
  ASSUME BotInv, RefuseText
  PROVE  BotInv'
<1>1. botInbox # <<>> /\ botInbox' = Tail(botInbox)
      /\ UNCHANGED <<loop, hears, stream, run, answer, pending, buttons, resolved, yes>>
  BY DEF RefuseText, NextIsText, screen, reading
<1>2. Len(botInbox) \in Nat
  BY <1>1, TailAt DEF BotInv, InboxInv
<1>3. InboxInv'
  <2>1. \A i \in 2..Len(botInbox) : IsText(botInbox[i]) => run'[botInbox[i].run] = "new"
    BY <1>1, <1>2 DEF BotInv, InboxInv
  <2> QED
    BY <1>1, <2>1, InboxTail
<1> QED
  BY <1>1, <1>3 DEF BotInv, VerdictInv, AskInv, ScreenInv, ButtonsAreKnown

\* An edit takes buttons away, and shows none.
LEMMA EditedDoes ==
  ASSUME ScreenInv, NEW m \in BotRuns, Edited(m)
  PROVE  /\ buttons' \in [BotRuns -> ChatRun \cup {NoRun}]
         /\ \A n \in BotRuns : buttons'[n] # NoRun => buttons'[n] = buttons[n]
  BY DEF ScreenInv, Edited

LEMMA InvHandlePress ==
  ASSUME BotInv, HandlePress
  PROVE  BotInv'
<1> DEFINE u == Head(botInbox)
           r == u.run
<1>1. botInbox # <<>> /\ botInbox' = Tail(botInbox) /\ loop = NoRun
      /\ UNCHANGED <<loop, hears, stream, run, yes>>
  BY DEF HandlePress, reading
<1>2. u = botInbox[1] /\ Len(botInbox) \in Nat \ {0} /\ u \in BotUpdates
  BY <1>1, TailAt DEF BotInv, InboxInv
<1>3. r \in ChatRun /\ (u.verb = "ok" => r \in yes) /\ u.at \in BotRuns
  BY <1>2 DEF BotInv, InboxInv, BotUpdates
<1>4. InboxInv'
  <2>1. \A i \in 2..Len(botInbox) : IsText(botInbox[i]) => run'[botInbox[i].run] = "new"
    BY <1>1, <1>2 DEF BotInv, InboxInv
  <2> QED
    BY <1>1, <2>1, InboxTail
<1>5. stream = <<>> /\ Len(stream) = 0
  BY <1>1, EmptySeq DEF BotInv, ScreenInv
<1>6. CASE r \notin pending
  <2>1. UNCHANGED <<answer, pending, buttons, resolved>>
    BY <1>6 DEF HandlePress, screen
  <2> QED
    BY <1>1, <1>4, <2>1 DEF BotInv, VerdictInv, AskInv, ScreenInv, ButtonsAreKnown
<1>7. CASE r \in pending
  <2>1. pending' = pending \ {r} /\ resolved' = [resolved EXCEPT ![r] = @ + 1]
        /\ (answer' = answer \/ answer' = [answer EXCEPT ![r] = Verdict(u.verb)])
        /\ (buttons' = buttons \/ Edited(u.at))
    BY <1>7 DEF HandlePress, Forget, Told
  <2>2. VerdictInv'
    BY <1>1, <1>3, <2>1 DEF BotInv, VerdictInv, Verdict
  <2>3. resolved[r] = 0 /\ run[r] \notin {"new", "going"}
    BY <1>3, <1>7 DEF BotInv, AskInv
  <2>4. resolved' \in [ChatRun -> Nat]
        /\ \A q \in ChatRun : resolved'[q] = IF q = r THEN 1 ELSE resolved[q]
    <3>1. resolved \in [ChatRun -> Nat]
      BY DEF BotInv, ScreenInv
    <3>2. resolved' = [resolved EXCEPT ![r] = 1]
      BY <2>1, <2>3
    <3> HIDE DEF r
    <3> QED
      BY <1>3, <3>1, <3>2
  <2>5. buttons' \in [BotRuns -> ChatRun \cup {NoRun}]
        /\ \A n \in BotRuns : buttons'[n] # NoRun => buttons'[n] = buttons[n]
    BY <1>3, <2>1, EditedDoes DEF BotInv, ScreenInv
  <2>6. AskInv'
    BY <1>1, <1>5, <2>1, <2>3, <2>4 DEF BotInv, AskInv
  <2>7. ButtonsAreKnown'
    <3> SUFFICES ASSUME NEW m \in BotRuns, buttons'[m] # NoRun
                 PROVE  buttons'[m] \in pending' \/ resolved'[buttons'[m]] = 1
      BY DEF ButtonsAreKnown
    <3>1. buttons'[m] = buttons[m] /\ buttons[m] \in ChatRun
      BY <2>5 DEF BotInv, ScreenInv
    <3> QED
      BY <2>1, <2>4, <3>1 DEF BotInv, ScreenInv, ButtonsAreKnown
  <2>8. ScreenInv'
    BY <1>1, <2>1, <2>4, <2>5, <2>7 DEF BotInv, ScreenInv
  <2> QED
    BY <1>4, <2>2, <2>6, <2>8 DEF BotInv
<1> QED
  BY <1>6, <1>7

\* The bot takes the first event of the stream, and goes on or leaves it; a
\* question becomes pending.
LEMMA AskOfRender ==
  ASSUME BotInv, stream # <<>>, stream' = Tail(stream) \/ stream' = <<>>,
         pending' = IF Head(stream).kind = "ask" THEN pending \cup {Head(stream).run} ELSE pending,
         UNCHANGED <<run, resolved>>
  PROVE  AskInv' /\ Head(stream).run \in ChatRun
<1> DEFINE e == Head(stream)
<1>1. /\ e \in BotEvents /\ e = stream[1] /\ Len(stream) \in Nat \ {0} /\ Tail(stream) \in Seq(BotEvents)
      /\ \A i \in 1..Len(Tail(stream)) : i + 1 \in 1..Len(stream) /\ Tail(stream)[i] = stream[i + 1]
      /\ Len(Tail(stream)) \in Nat
  BY TailAt DEF BotInv, AskInv
<1>2. e.run \in ChatRun
  BY <1>1 DEF BotEvents
<1>3. e.kind = "ask" => run[e.run] \notin {"new", "going"} /\ resolved[e.run] = 0
  BY <1>1 DEF BotInv, AskInv
<1>4. \A q \in ChatRun : q \in pending' => q \in pending \/ (q = e.run /\ e.kind = "ask")
  OBVIOUS
<1>5. \A q \in ChatRun :
        /\ run[q] \in {"new", "going"} => q \notin pending' /\ resolved[q] = 0
        /\ q \in pending' => resolved[q] = 0
  BY <1>3, <1>4 DEF BotInv, AskInv
<1>6. CASE stream' = <<>>
  BY <1>2, <1>5, <1>6, EmptySeq DEF BotInv, AskInv
<1>7. CASE stream' = Tail(stream)
  <2>1. \A i \in 1..Len(stream') : stream'[i].kind = "ask" =>
          stream[i + 1].kind = "ask" /\ i + 1 # 1 /\ stream'[i].run = stream[i + 1].run
          /\ i + 1 \in 1..Len(stream)
    BY <1>1, <1>7
  <2>2. \A i \in 1..Len(stream') : stream'[i].kind = "ask" =>
          ~(e.kind = "ask" /\ stream'[i].run = e.run)
    BY <1>1, <2>1 DEF BotInv, AskInv
  <2>3. \A i, j \in 1..Len(stream') : i + 1 = j + 1 => i = j
    BY <1>1, <1>7
  <2>4. \A i, j \in 1..Len(stream') :
          stream'[i].kind = "ask" /\ stream'[j].kind = "ask"
          /\ stream'[i].run = stream'[j].run => i = j
    BY <2>1, <2>3 DEF BotInv, AskInv
  <2>5. \A i \in 1..Len(stream') : stream'[i].kind = "ask" =>
          /\ run[stream'[i].run] \notin {"new", "going"}
          /\ stream'[i].run \notin pending' /\ resolved[stream'[i].run] = 0
    BY <2>1, <2>2 DEF BotInv, AskInv
  <2> QED
    BY <1>1, <1>2, <1>5, <1>7, <2>4, <2>5 DEF BotInv, AskInv
<1> QED
  BY <1>6, <1>7

LEMMA InvRenderQuestion ==
  ASSUME BotInv, RenderQuestion
  PROVE  BotInv'
<1> DEFINE r == Head(stream).run
           shown == [buttons EXCEPT ![loop] = r]
<1>1. /\ stream # <<>> /\ Head(stream).kind = "ask" /\ pending' = pending \cup {r} /\ loop # NoRun
      /\ UNCHANGED <<botInbox, run, answer, resolved, yes>>
      /\ \/ stream' = Tail(stream) /\ loop' = loop /\ hears' = hears
         \/ stream' = <<>> /\ loop' = NoRun /\ hears' = "over"
      /\ buttons' \in {buttons, shown}
  BY DEF RenderQuestion, LeaveStream
<1>2. InboxInv' /\ VerdictInv'
  BY <1>1 DEF BotInv, InboxInv, VerdictInv, IsText
<1>3. AskInv' /\ r \in ChatRun
  BY <1>1, AskOfRender
<1>4. buttons' \in [BotRuns -> ChatRun \cup {NoRun}]
      /\ \A n \in BotRuns : buttons'[n] \in {buttons[n], r}
  BY <1>1, <1>3 DEF BotInv, ScreenInv
<1>5. ButtonsAreKnown'
  BY <1>1, <1>3, <1>4 DEF BotInv, ScreenInv, ButtonsAreKnown
<1>6. ScreenInv'
  BY <1>1, <1>3, <1>4, <1>5 DEF BotInv, ScreenInv
<1> QED
  BY <1>2, <1>3, <1>6 DEF BotInv

\* An edit of the status message, and what becomes of the stream.
LEMMA ScreenOfEdit ==
  ASSUME BotInv, loop \in BotRuns, Edited(loop), UNCHANGED <<pending, resolved>>,
         \/ loop' = loop /\ hears' = hears
         \/ LeaveStream
  PROVE  ScreenInv'
<1>1. buttons' \in [BotRuns -> ChatRun \cup {NoRun}]
      /\ \A n \in BotRuns : buttons'[n] # NoRun => buttons'[n] = buttons[n]
  BY EditedDoes DEF BotInv
<1>2. ButtonsAreKnown'
  BY <1>1 DEF BotInv, ScreenInv, ButtonsAreKnown
<1>3. loop # NoRun
  BY BotAssumption DEF ChatRun
<1> QED
  BY <1>1, <1>2, <1>3 DEF BotInv, ScreenInv, LeaveStream

LEMMA InvRender ==
  ASSUME BotInv, Render
  PROVE  BotInv'
<1>1. /\ stream # <<>> /\ Head(stream).kind # "ask" /\ loop # NoRun /\ Edited(loop)
      /\ UNCHANGED <<botInbox, run, answer, pending, resolved, yes>>
      /\ stream' = Tail(stream) \/ stream' = <<>>
      /\ (loop' = loop /\ hears' = hears) \/ LeaveStream
  BY DEF Render, LeaveStream
<1>2. InboxInv' /\ VerdictInv'
  BY <1>1 DEF BotInv, InboxInv, VerdictInv, IsText
<1>3. AskInv'
  BY <1>1, AskOfRender
<1>4. ScreenInv'
  BY <1>1, ScreenOfEdit DEF BotInv, ScreenInv
<1> QED
  BY <1>2, <1>3, <1>4 DEF BotInv

LEMMA InvStream ==
  ASSUME BotInv, Subscribe \/ DaemonEndsStream \/ ReadToEnd
  PROVE  BotInv'
<1>1. /\ UNCHANGED <<botInbox, run, answer, pending, buttons, resolved, yes>>
      /\ stream' = stream
      /\ \/ loop' = loop /\ hears' = "yes" /\ hears = "not yet"
         \/ loop' = loop /\ hears' = "over"
         \/ loop' = NoRun /\ hears' = "over" /\ stream = <<>>
  BY DEF Subscribe, DaemonEndsStream, ReadToEnd, LeaveStream, screen
<1>2. ScreenInv'
  BY <1>1 DEF BotInv, ScreenInv, ButtonsAreKnown
<1> QED
  BY <1>1, <1>2 DEF BotInv, InboxInv, VerdictInv, AskInv, IsText

LEMMA InvStreamEnds ==
  ASSUME BotInv, StreamFallsSilent \/ StreamBreaks
  PROVE  BotInv'
<1>1. /\ Edited(loop) /\ LeaveStream /\ loop # NoRun
      /\ UNCHANGED <<botInbox, run, answer, pending, resolved, yes>>
  BY DEF StreamFallsSilent, StreamBreaks, BotInv, ScreenInv
<1>2. ScreenInv'
  BY <1>1, ScreenOfEdit DEF BotInv, ScreenInv
<1>3. AskInv'
  BY <1>1, EmptySeq DEF BotInv, AskInv, LeaveStream
<1> QED
  BY <1>1, <1>2, <1>3 DEF BotInv, InboxInv, VerdictInv, IsText

-----------------------------------------------------------------------------
(* The theorems.                                                           *)

LEMMA BotInvNext == BotInv /\ [BotNext]_botVars => BotInv'
<1> SUFFICES ASSUME BotInv, [BotNext]_botVars PROVE BotInv'
  OBVIOUS
<1>1. CASE UNCHANGED botVars
  <2>1. UNCHANGED <<botInbox, loop, hears, stream, run, answer, pending, buttons, resolved, yes>>
    BY <1>1 DEF botVars, reading, screen
  <2> QED
    BY <2>1 DEF BotInv, InboxInv, VerdictInv, AskInv, ScreenInv, ButtonsAreKnown, IsText
<1>2. CASE \E r \in BotRuns : UserWrites(r)
  BY <1>2, InvUserWrites
<1>3. CASE \E r \in OtherRuns : OtherStarts(r)
  BY <1>3, InvOtherStarts
<1>4. ASSUME NEW r \in ChatRun, RunStep(r)
      PROVE  BotInv'
  BY <1>4, InvAsks, InvExpires, InvDecides, InvEnds DEF RunStep
<1>5. CASE \E m \in BotRuns, verb \in {"ok", "no"} : UserPresses(m, verb)
  BY <1>5, InvUserPresses
<1>6. ASSUME NEW r \in ChatRun,
             \E value \in {"approved", "refused"} : ResolvedElsewhere(r, value)
      PROVE  BotInv'
  BY <1>6, InvResolvedElsewhere
<1>7. CASE LoopStep \/ RefuseText
  BY <1>7, InvHandleText, InvHandlePress, InvRenderQuestion, InvRender, InvRefuseText
     DEF LoopStep
<1>8. CASE StreamStep \/ StreamBreaks
  BY <1>8, InvStream, InvStreamEnds DEF StreamStep
<1> QED
  BY <1>1, <1>2, <1>3, <1>4, <1>5, <1>6, <1>7, <1>8 DEF BotNext

\* The buttons of the bot (bot.py:388-426): it resolves a request once, and a
\* dangerous tool runs only if somebody approved this very request, however
\* late presses are handled, whatever other frontends do meanwhile.
THEOREM BotIsSafe == BotSpec => []BotSafe
<1>1. BotInit => BotInv
  BY BotInvInit
<1>2. BotInv /\ [BotNext]_botVars => BotInv'
  BY BotInvNext
<1>3. BotInv => BotSafe
  BY BotInvSafe
<1> QED
  BY <1>1, <1>2, <1>3, PTL DEF BotSpec

-----------------------------------------------------------------------------
(* The page and the command line: who reads a run's queue.                 *)

FrontendTypes ==
    /\ job \in [Jobs -> {"none", "works", "asks", "done"}]
    /\ starter \in [Jobs -> Tabs \cup {"none", "cli", "request"}]
    /\ served \in [Tabs -> SUBSET Jobs] /\ queued \subseteq Jobs /\ streams \subseteq Jobs

\* A tab serves runs that it has started itself.
ServesItsOwn ==
    \A t \in Tabs : \A r \in served[t] : starter[r] = t /\ job[r] # "none"

ReaderInv == FrontendTypes /\ ServesItsOwn /\ QueuesHaveReaders

LEMMA ReadersStart == FrontendsInit => ReaderInv
<1> SUFFICES ASSUME FrontendsInit PROVE ReaderInv
  OBVIOUS
<1>1. /\ job = [r \in Jobs |-> "none"] /\ starter = [r \in Jobs |-> "none"]
      /\ served = [t \in Tabs |-> {}] /\ queued = {} /\ streams = {}
  BY DEF FrontendsInit
<1> QED
  BY <1>1 DEF ReaderInv, FrontendTypes, ServesItsOwn, QueuesHaveReaders

\* A run begins: those who read go on, and the new one has a reader.
LEMMA StartKeeps ==
  ASSUME ReaderInv, NEW r \in Jobs, NEW by \in Tabs \cup {"cli", "request"}, StartJob(r, by),
         by \in Tabs => served' = [served EXCEPT ![by] = @ \cup {r}] /\ streams' = streams,
         by = "cli" => served' = served /\ streams' = streams \cup {r},
         by = "request" => served' = served /\ streams' = streams,
         {"cli", "request"} \cap Tabs = {}
  PROVE  ReaderInv'
<1>1. /\ job[r] = "none" /\ job' = [job EXCEPT ![r] = "works"]
      /\ starter' = [starter EXCEPT ![r] = by] /\ queued' = queued \cup {r}
  BY DEF StartJob
<1>2. /\ job \in [Jobs -> {"none", "works", "asks", "done"}]
      /\ starter \in [Jobs -> Tabs \cup {"none", "cli", "request"}]
      /\ served \in [Tabs -> SUBSET Jobs] /\ queued \subseteq Jobs /\ streams \subseteq Jobs
  BY DEF ReaderInv, FrontendTypes
<1>3. /\ job'[r] = "works" /\ starter'[r] = by
      /\ \A q \in Jobs \ {r} : job'[q] = job[q] /\ starter'[q] = starter[q]
      /\ \A t \in Tabs : r \notin served[t]
  BY <1>1, <1>2 DEF ReaderInv, ServesItsOwn
<1>4. /\ served' \in [Tabs -> SUBSET Jobs]
      /\ \A t \in Tabs : served'[t] = IF t = by THEN served[t] \cup {r} ELSE served[t]
      /\ streams' = IF by = "cli" THEN streams \cup {r} ELSE streams
  BY <1>2
<1>5. FrontendTypes'
  BY <1>1, <1>2, <1>4 DEF FrontendTypes
<1>6. ServesItsOwn'
  <2> SUFFICES ASSUME NEW t \in Tabs, NEW q \in served'[t]
               PROVE  starter'[q] = t /\ job'[q] # "none"
    BY DEF ServesItsOwn
  <2>1. CASE q = r
    BY <2>1, <1>3, <1>4
  <2>2. CASE q # r
    BY <2>2, <1>2, <1>3, <1>4 DEF ReaderInv, ServesItsOwn
  <2> QED
    BY <2>1, <2>2
<1>7. QueuesHaveReaders'
  <2> SUFFICES ASSUME NEW q \in queued'
               PROVE  starter'[q] = "request" \/ q \in streams' \/ \E t \in Tabs : q \in served'[t]
    BY DEF QueuesHaveReaders
  <2>1. CASE q = r
    BY <2>1, <1>3, <1>4
  <2>2. CASE q # r
    <3>1. starter[q] = "request" \/ q \in streams \/ \E t \in Tabs : q \in served[t]
      BY <2>2, <1>1 DEF ReaderInv, QueuesHaveReaders
    <3>2. q \in Jobs /\ starter'[q] = starter[q]
      BY <2>2, <1>1, <1>2, <1>3
    <3>3. \A t \in Tabs : q \in served[t] => q \in served'[t]
      BY <1>4
    <3> QED
      BY <3>1, <3>2, <3>3, <1>4
  <2> QED
    BY <2>1, <2>2
<1> QED
  BY <1>5, <1>6, <1>7 DEF ReaderInv

\* Runs go on and end, frames and answers come: who reads a queue stays.
LEMMA ReadersStay ==
  ASSUME ReaderInv, FrontendTypes', \A r \in Jobs : job[r] # "none" => job'[r] # "none",
         UNCHANGED <<starter, served, queued, streams>>
  PROVE  ReaderInv'
  BY DEF ReaderInv, ServesItsOwn, QueuesHaveReaders, FrontendTypes

\* Queues go, and with them who read them.
LEMMA QueuesGo ==
  ASSUME ReaderInv, NEW rs, UNCHANGED <<job, starter>>, queued' = queued \ rs,
         served' \in [Tabs -> SUBSET Jobs], \A t \in Tabs : served'[t] \subseteq served[t],
         \A t \in Tabs : \A r \in served[t] : r \in served'[t] \/ r \in rs,
         streams' \subseteq streams, \A r \in streams : r \in streams' \/ r \in rs
  PROVE  ReaderInv'
<1>1. FrontendTypes'
  BY DEF ReaderInv, FrontendTypes
<1>2. ServesItsOwn'
  BY DEF ReaderInv, ServesItsOwn
<1>3. QueuesHaveReaders'
  BY DEF ReaderInv, QueuesHaveReaders, FrontendTypes
<1> QED
  BY <1>1, <1>2, <1>3 DEF ReaderInv

\* A stream or a generator ends: its queue goes.
LEMMA StreamsGo ==
  ASSUME ReaderInv, NEW rs, Destroyed(rs), streams' = streams \ rs,
         UNCHANGED <<job, starter, served>>
  PROVE  ReaderInv'
<1>1. queued' = queued \ rs
  BY DEF Destroyed
<1> QED
  BY <1>1, QueuesGo DEF ReaderInv, FrontendTypes

LEMMA ReadersStep == ReaderInv /\ [FrontendsNext]_frontendVars => ReaderInv'
<1> SUFFICES ASSUME ReaderInv, [FrontendsNext]_frontendVars PROVE ReaderInv'
  OBVIOUS
<1> USE DEF tabVars, runVars, cliVars
<1>1. CASE UNCHANGED frontendVars
  BY <1>1 DEF frontendVars, ReaderInv, FrontendTypes, ServesItsOwn, QueuesHaveReaders
<1>2. ASSUME NEW r \in Jobs, AskApproval(r) \/ StopsWaiting(r) \/ EndJob(r)
      PROVE  ReaderInv'
  <2>1. PICK to \in {"works", "asks", "done"} :
          job' = [job EXCEPT ![r] = to] /\ UNCHANGED <<starter, served, queued, streams>>
    BY <1>2 DEF AskApproval, StopsWaiting, EndJob
  <2> QED
    BY <2>1, ReadersStay DEF ReaderInv, FrontendTypes
<1>3. ASSUME UNCHANGED <<job, starter, served, queued, streams>>
      PROVE  ReaderInv'
  BY <1>3, ReadersStay DEF ReaderInv, FrontendTypes
<1>4. ASSUME NEW r \in Jobs, CliAsks(r) PROVE ReaderInv'
  BY <1>4, StartKeeps, FrontendsAssumption DEF CliAsks
<1>5. ASSUME NEW r \in Jobs, PlainChat(r) PROVE ReaderInv'
  BY <1>5, StartKeeps, FrontendsAssumption DEF PlainChat
<1>6. ASSUME NEW r \in Jobs, StreamReads(r) \/ StreamIsQuiet(r) \/ CliShows(r) PROVE ReaderInv'
  <2>1. CASE UNCHANGED <<queued, streams>>
    BY <1>6, <2>1, <1>3 DEF StreamReads, StreamIsQuiet, CliShows
  <2>2. CASE StreamStops(r)
    <3>1. UNCHANGED <<job, starter, served>>
      BY <1>6 DEF StreamReads, StreamIsQuiet, CliShows
    <3>2. Destroyed({r}) /\ streams' = streams \ {r}
      BY <2>2 DEF StreamStops
    <3> QED
      BY <3>1, <3>2, StreamsGo
  <2> QED
    BY <1>6, <2>1, <2>2 DEF StreamReads, StreamIsQuiet, CliShows
<1>7. CASE CtrlC
  <2>1. CASE UNCHANGED <<queued, streams>>
    BY <1>7, <2>1, <1>3 DEF CtrlC
  <2>2. CASE Destroyed(streams) /\ streams' = {}
    <3>1. UNCHANGED <<job, starter, served>>
      BY <1>7 DEF CtrlC
    <3>2. streams' = streams \ streams
      BY <2>2
    <3> QED
      BY <2>2, <3>1, <3>2, StreamsGo
  <2> QED
    BY <1>7, <2>1, <2>2 DEF CtrlC
<1>8. ASSUME NEW t \in Tabs, LoopBreaks(t) PROVE ReaderInv'
  <2>1. /\ UNCHANGED <<job, starter, streams>> /\ served' = [served EXCEPT ![t] = {}]
        /\ queued' = queued \ {r \in Jobs : starter[r] = t}
    BY <1>8 DEF LoopBreaks, Closes, Destroyed
  <2>2. \A u \in Tabs : \A r \in served[u] :
          r \in served'[u] \/ r \in {q \in Jobs : starter[q] = t}
    BY <2>1 DEF ReaderInv, FrontendTypes, ServesItsOwn
  <2>3. served' \in [Tabs -> SUBSET Jobs] /\ \A u \in Tabs : served'[u] \subseteq served[u]
    BY <2>1 DEF ReaderInv, FrontendTypes
  <2> QED
    BY <2>1, <2>2, <2>3, QueuesGo
<1>9. ASSUME NEW t \in Tabs, HandleChat(t) PROVE ReaderInv'
  <2>1. ASSUME NEW r \in Jobs, StartJob(r, t), served' = [served EXCEPT ![t] = @ \cup {r}]
        PROVE  ReaderInv'
    BY <1>9, <2>1, StartKeeps, FrontendsAssumption DEF HandleChat
  <2>2. CASE UNCHANGED <<job, starter, served, queued>>
    BY <1>9, <2>2, <1>3 DEF HandleChat
  <2> QED
    BY <1>9, <2>1, <2>2 DEF HandleChat
<1>10. ASSUME NEW t \in Tabs, HandleEvent(t) PROVE ReaderInv'
  <2>1. CASE UNCHANGED <<job, starter, served, queued>>
    BY <1>10, <2>1, <1>3 DEF HandleEvent
  <2>2. CASE /\ served' = [served EXCEPT ![t] = @ \ {NextItem(t).run}]
             /\ Destroyed({NextItem(t).run}) /\ UNCHANGED <<job, starter>>
    <3>1. PICK rs : rs = {NextItem(t).run}
      OBVIOUS
    <3>2. /\ served' = [served EXCEPT ![t] = served[t] \ rs] /\ queued' = queued \ rs
          /\ UNCHANGED <<job, starter, streams>>
      BY <1>10, <2>2, <3>1 DEF HandleEvent, Destroyed
    <3>3. /\ served' \in [Tabs -> SUBSET Jobs]
          /\ \A u \in Tabs : served'[u] = IF u = t THEN served[u] \ rs ELSE served[u]
      BY <3>2 DEF ReaderInv, FrontendTypes
    <3> QED
      BY <3>2, <3>3, QueuesGo
  <2> QED
    BY <1>10, <2>1, <2>2 DEF HandleEvent
<1>11. ASSUME NEW t \in Tabs,
              \/ OpenSocket(t) \/ SendFrame(t) \/ Breaks(t) \/ Read(t) \/ ReadNone(t)
              \/ HandleConfirm(t) \/ HandleOther(t) \/ \E r \in Jobs : Forward(t, r)
       PROVE  ReaderInv'
  BY <1>11, <1>3 DEF OpenSocket, SendFrame, Breaks, Read, ReadNone, HandleConfirm, HandleOther,
     Forward
<1>12. ASSUME NEW r \in Jobs, HttpConfirm(r) \/ CliReturns(r) \/ CliListens(r) PROVE ReaderInv'
  BY <1>12, <1>3 DEF HttpConfirm, CliReturns, CliListens
<1> QED
  BY <1>1, <1>2, <1>4, <1>5, <1>6, <1>7, <1>8, <1>9, <1>10, <1>11, <1>12
     DEF FrontendsNext, LoopServes

\* For any number of runs, tabs and frames: the queue of a run has a socket
\* that serves it, or a stream that will remove it, whatever closes, breaks or
\* ends, or a plain request has left it there (BridgeHandlers.handle, ws of
\* web/app.py, _stream_events and stream_request of server.py).
THEOREM QueuesAlwaysHaveReaders == FrontendsSpec => []QueuesHaveReaders
<1>1. ReaderInv => QueuesHaveReaders
  BY DEF ReaderInv
<1> QED
  BY <1>1, ReadersStart, ReadersStep, PTL DEF FrontendsSpec

\* What stands between runs and users keeps what it carries: each stream shows
\* its run's events in order, and each queue has its reader.
THEOREM EventsStayKept == MCSpec => []EventsAreKept
<1>1. MCInit => Init /\ ReaderInv
  BY ReadersStart DEF MCInit, StreamsRest, PageRests
<1>2. [MCNext]_<<vars, botVars, frontendVars, focus>> => [Next]_vars
  BY DEF MCNext
<1>3. [MCNext]_<<vars, botVars, frontendVars, focus>> => [FrontendsNext]_frontendVars
  BY DEF MCNext
<1>4. MCSpec => Spec
  BY <1>1, <1>2, PTL DEF MCSpec, Spec
<1>5. ReaderInv /\ [MCNext]_<<vars, botVars, frontendVars, focus>> => ReaderInv'
  BY <1>3, ReadersStep
<1>6. MCSpec => []ReaderInv
  BY <1>1, <1>5, PTL DEF MCSpec
<1>7. ReaderInv => QueuesHaveReaders
  BY DEF ReaderInv
<1> QED
  BY <1>4, <1>6, <1>7, OwnEventsAlwaysInOrder, PTL DEF EventsAreKept
=============================================================================
