------------------------------ MODULE Frontends ------------------------------
(***************************************************************************)
(* The frontends of one bridge: browser tabs with a WebSocket each         *)
(* (web/app.py, ws), their POST /api/confirm, the command line             *)
(* (cli/app.py) and plain requests (BridgeHandlers.handle).  In a socket a *)
(* reader and the forwarders of its runs fill one queue, and a loop serves *)
(* it.  The command line shows one run and can do nothing meanwhile; its   *)
(* bridge is a daemon (--connect), which streams the run to it, or in its  *)
(* own process, where a generator does.                                    *)
(*                                                                         *)
(* A run asks for approval at most once and publishes that, and its end.   *)
(* Streams as such are in EventStreams, approval in ChatRuns.              *)
(***************************************************************************)
EXTENDS Naturals, Sequences

LOCAL INSTANCE SequencesExt

CONSTANTS
    Tabs,     \* browser tabs
    Jobs,     \* chat runs
    MaxFrames \* bound: frames the tabs send, and requests

\* The words that stand for no run and for no tab are neither.
ASSUME FrontendsAssumption ==
    /\ MaxFrames \in Nat /\ {"prompt", "ended"} \cap Jobs = {}
    /\ {"none", "cli", "request"} \cap Tabs = {}

VARIABLES
    job,      \* [run -> where it is]
    starter,  \* [run -> who started it]
    asked,    \* the runs that have asked for approval
    answers,  \* [run -> the answers its card has got]
    queued,   \* the runs that have a queue in the event bus
    feed,     \* [run -> the events in that queue]
    socket,   \* [tab -> its connection]
    wire,     \* [tab -> frames the socket holds]
    incoming, \* [tab -> the queue of the socket's loop]
    served,   \* [tab -> the runs with a forwarder]
    cards,    \* [tab -> the runs whose card it shows]
    bridge,   \* the bridge of the command line: "daemon" or "process"
    cli,      \* where the command line is
    heard,    \* process: the generator has "no listener", hears "no end" or "an end"
    streams,  \* the runs with a stream: _stream_events, or the generator
    frames    \* frames and requests so far

runVars == <<job, starter, asked, answers, queued, feed>>
tabVars == <<socket, wire, incoming, served, cards>>
cliVars == <<bridge, cli, heard, streams>>
frontendVars == <<runVars, tabVars, cliVars, frames>>

FrontendsInit ==
    /\ job = [r \in Jobs |-> "none"]
    /\ starter = [r \in Jobs |-> "none"]
    /\ asked = {} /\ answers = [r \in Jobs |-> {}]
    /\ queued = {} /\ feed = [r \in Jobs |-> <<>>]
    /\ socket = [t \in Tabs |-> "off"]
    /\ wire = [t \in Tabs |-> <<>>] /\ incoming = [t \in Tabs |-> <<>>]
    /\ served = [t \in Tabs |-> {}] /\ cards = [t \in Tabs |-> {}]
    /\ bridge \in {"daemon", "process"}
    /\ cli = "prompt" /\ heard = "no listener" /\ streams = {} /\ frames = 0

Frame(kind, r) == [kind |-> kind, run |-> r]
NoRunAtAll == "none"
Sends == frames < MaxFrames /\ frames' = frames + 1

-----------------------------------------------------------------------------
(* Runs, in their threads.                                                 *)

\* An event goes to the run's queue, if there is one.
Published(r, event) ==
    feed' = IF r \in queued THEN [feed EXCEPT ![r] = Append(@, event)] ELSE feed

\* _start_chat_run; who streams it creates the queue a second time.
StartJob(r, by) ==
    /\ job[r] = "none"
    /\ job' = [job EXCEPT ![r] = "works"]
    /\ starter' = [starter EXCEPT ![r] = by]
    /\ queued' = queued \cup {r}
    /\ UNCHANGED <<asked, answers, feed>>

AskApproval(r) ==
    /\ job[r] = "works" /\ r \notin asked
    /\ job' = [job EXCEPT ![r] = "asks"] /\ asked' = asked \cup {r}
    /\ Published(r, "card")
    /\ UNCHANGED <<starter, answers, queued, tabVars, cliVars, frames>>

\* wait(timeout=120) returns, with an answer or without one.
StopsWaiting(r) ==
    /\ job[r] = "asks"
    /\ job' = [job EXCEPT ![r] = "works"]
    /\ UNCHANGED <<starter, asked, answers, queued, feed, tabVars, cliVars, frames>>

GoesOn(r) == answers[r] # {} /\ StopsWaiting(r)

\* The generator of the command line hears of the end of any run.
EndJob(r) ==
    /\ job[r] = "works"
    /\ job' = [job EXCEPT ![r] = "done"]
    /\ Published(r, "end")
    /\ heard' = IF heard = "no end" THEN "an end" ELSE heard
    /\ UNCHANGED <<starter, asked, answers, queued, tabVars, bridge, cli, streams, frames>>

\* resolve_confirmation: a card nobody waits for any more is not resolved.
Settled(r, how) ==
    answers' = IF job[r] = "asks" THEN [answers EXCEPT ![r] = @ \cup {how}] ELSE answers

Destroyed(rs) ==
    /\ queued' = queued \ rs
    /\ feed' = [r \in Jobs |-> IF r \in rs THEN <<>> ELSE feed[r]]

-----------------------------------------------------------------------------
(* Tabs.                                                                   *)

\* The command line's own process has no web server.
OpenSocket(t) ==
    /\ bridge = "daemon" /\ socket[t] = "off" /\ Sends
    /\ socket' = [socket EXCEPT ![t] = "open"]
    /\ UNCHANGED <<runVars, wire, incoming, served, cards, cliVars>>

\* What the page sends: a message, an answer to a card it shows, a Stop, or
\* something that is not JSON.
SendFrame(t) ==
    /\ socket[t] = "open" /\ Sends
    /\ \E f \in {Frame("confirm", r) : r \in cards[t]}
                \cup {Frame("interrupt", r) : r \in served[t]}
                \cup {Frame(kind, NoRunAtAll) : kind \in {"chat", "empty", "invalid"}} :
         wire' = [wire EXCEPT ![t] = Append(@, f)]
    /\ UNCHANGED <<runVars, socket, incoming, served, cards, cliVars>>

Breaks(t) ==
    /\ socket[t] = "open"
    /\ socket' = [socket EXCEPT ![t] = "broken"]
    /\ wire' = [wire EXCEPT ![t] = <<>>]
    /\ UNCHANGED <<runVars, incoming, served, cards, cliVars, frames>>

\* Mutation: the socket is read when no run goes on.
ReadBetweenRuns(t) ==
    /\ socket[t] = "open" /\ wire[t] # <<>> /\ served[t] = {}
    /\ wire' = [wire EXCEPT ![t] = Tail(@)]
    /\ incoming' = [incoming EXCEPT ![t] = Append(@, Head(wire[t]))]
    /\ UNCHANGED <<runVars, socket, served, cards, cliVars, frames>>

\* The reader: a frame that is no JSON becomes an "__invalid" item.
Read(t) ==
    /\ socket[t] = "open" /\ wire[t] # <<>>
    /\ wire' = [wire EXCEPT ![t] = Tail(@)]
    /\ incoming' = [incoming EXCEPT ![t] = Append(@, Head(wire[t]))]
    /\ UNCHANGED <<runVars, socket, served, cards, cliVars, frames>>

\* The reader finds the socket gone.
ReadNone(t) ==
    /\ socket[t] = "broken"
    /\ socket' = [socket EXCEPT ![t] = "left"]
    /\ incoming' = [incoming EXCEPT ![t] = Append(@, Frame("gone", NoRunAtAll))]
    /\ UNCHANGED <<runVars, wire, served, cards, cliVars, frames>>

Forward(t, r) ==
    /\ r \in served[t] /\ feed[r] # <<>>
    /\ feed' = [feed EXCEPT ![r] = Tail(@)]
    /\ incoming' = [incoming EXCEPT ![t] = Append(@, Frame(Head(feed[r]), r))]
    /\ UNCHANGED <<job, starter, asked, answers, queued, socket, wire, served, cards, cliVars, frames>>

Takes(t, kind) == incoming[t] # <<>> /\ Head(incoming[t]).kind = kind /\ socket[t] # "off"
NextItem(t) == Head(incoming[t])
DropFront(t) == incoming' = [incoming EXCEPT ![t] = Tail(@)]
Alive(t) == socket[t] = "open"

\* finally: reader, forwarders and queues of all runs of the socket end.
Closes(t) ==
    /\ socket' = [socket EXCEPT ![t] = "off"]
    /\ wire' = [wire EXCEPT ![t] = <<>>] /\ incoming' = [incoming EXCEPT ![t] = <<>>]
    /\ served' = [served EXCEPT ![t] = {}] /\ cards' = [cards EXCEPT ![t] = {}]
    /\ Destroyed({r \in Jobs : starter[r] = t})
    /\ UNCHANGED <<job, starter, asked, answers>>

\* The loop ends with the None of the reader, an event that cannot be sent,
\* and an empty message, which _start_chat_run refuses with an error.
LoopBreaks(t) ==
    /\ \/ Takes(t, "gone") \/ Takes(t, "empty")
       \/ ~Alive(t) /\ (Takes(t, "card") \/ Takes(t, "end"))
    /\ Closes(t)
    /\ UNCHANGED <<cliVars, frames>>

\* (A message beyond the bound on runs is dropped.)
HandleChat(t) ==
    /\ Takes(t, "chat") /\ DropFront(t)
    /\ \/ \E r \in Jobs : StartJob(r, t) /\ served' = [served EXCEPT ![t] = @ \cup {r}]
       \/ (\A r \in Jobs : job[r] # "none") /\ UNCHANGED <<runVars, served>>
    /\ UNCHANGED <<socket, wire, cards, cliVars, frames>>

HandleConfirm(t) ==
    /\ Takes(t, "confirm") /\ DropFront(t)
    /\ Settled(NextItem(t).run, "from the socket")
    /\ cards' = [cards EXCEPT ![t] = @ \ {NextItem(t).run}]
    /\ UNCHANGED <<job, starter, asked, queued, feed, socket, wire, served, cliVars, frames>>

\* An interrupt is seen between the steps of the run, never by its wait.
HandleOther(t) ==
    /\ (Takes(t, "interrupt") \/ Takes(t, "invalid")) /\ DropFront(t)
    /\ UNCHANGED <<runVars, socket, wire, served, cards, cliVars, frames>>

HandleEvent(t) ==
    /\ Alive(t)
    /\ \/ /\ Takes(t, "card")
          /\ cards' = [cards EXCEPT ![t] = @ \cup {NextItem(t).run}]
          /\ UNCHANGED <<runVars, served>>
       \/ /\ Takes(t, "end")
          /\ served' = [served EXCEPT ![t] = @ \ {NextItem(t).run}]
          /\ Destroyed({NextItem(t).run})
          /\ UNCHANGED <<job, starter, asked, answers, cards>>
    /\ DropFront(t)
    /\ UNCHANGED <<socket, wire, cliVars, frames>>

\* POST /api/confirm, for a page whose socket has closed under a card.
HttpConfirm(r) ==
    /\ Sends /\ r \in asked
    /\ Settled(r, "from a request")
    /\ UNCHANGED <<job, starter, asked, queued, feed, tabVars, cliVars>>

-----------------------------------------------------------------------------
(* The command line, and requests.                                         *)

CliAsks(r) ==
    /\ cli = "prompt" /\ Sends
    /\ StartJob(r, "cli") /\ cli' = r
    /\ streams' = streams \cup {r}
    /\ UNCHANGED <<tabVars, bridge, heard>>

\* The finally clauses of _stream_events and stream_request.
StreamStops(r) == Destroyed({r}) /\ streams' = streams \ {r}

\* _stream_events reads the run's queue for the run's last event, whether or
\* not the command line is still there.
StreamReads(r) ==
    /\ bridge = "daemon" /\ r \in streams /\ feed[r] # <<>>
    /\ \/ Head(feed[r]) = "end" /\ StreamStops(r)
       \/ /\ Head(feed[r]) # "end"
          /\ feed' = [feed EXCEPT ![r] = Tail(@)] /\ UNCHANGED <<queued, streams>>
    /\ UNCHANGED <<job, starter, asked, answers, tabVars, bridge, cli, heard, frames>>

\* It gives up after 300 seconds without an event of the run.
StreamIsQuiet(r) ==
    /\ bridge = "daemon" /\ r \in streams /\ feed[r] = <<>> /\ job[r] # "asks"
    /\ StreamStops(r)
    /\ UNCHANGED <<job, starter, asked, answers, tabVars, bridge, cli, heard, frames>>

\* The response of the daemon ends, or the connection is lost.
CliReturns(r) ==
    /\ bridge = "daemon" /\ cli = r
    /\ cli' = "prompt"
    /\ UNCHANGED <<runVars, tabVars, bridge, heard, streams, frames>>

\* stream_request subscribes when the run has started.
CliListens(r) ==
    /\ bridge = "process" /\ cli = r /\ heard = "no listener"
    /\ heard' = "no end"
    /\ UNCHANGED <<runVars, tabVars, bridge, cli, streams, frames>>

\* The generator ends with the end of any run, or after 300 seconds without an
\* event of any run.  It has not read the run's queue, and destroys it.
CliShows(r) ==
    /\ bridge = "process" /\ cli = r
    /\ heard = "an end" \/ (heard = "no end" /\ \A q \in Jobs : job[q] # "asks")
    /\ cli' = "prompt" /\ heard' = "no listener"
    /\ StreamStops(r)
    /\ UNCHANGED <<job, starter, asked, answers, tabVars, bridge, frames>>

\* Ctrl-C: the command line says "bye" and ends.  A daemon goes on with the
\* run and with the stream; a generator is closed with its process.
CtrlC ==
    /\ Sends /\ cli # "ended" /\ cli' = "ended"
    /\ \/ bridge = "daemon" /\ UNCHANGED <<queued, feed, streams, heard>>
       \/ /\ bridge = "process" /\ heard' = "no listener"
          /\ Destroyed(streams) /\ streams' = {}
    /\ UNCHANGED <<job, starter, asked, answers, tabVars, bridge>>

\* handle(CHAT) answers with the run's id; its queue has no reader.
PlainChat(r) ==
    /\ Sends /\ StartJob(r, "request")
    /\ UNCHANGED <<tabVars, cliVars>>

LoopServes(t) ==
    LoopBreaks(t) \/ HandleChat(t) \/ HandleConfirm(t) \/ HandleOther(t) \/ HandleEvent(t)

FrontendsNext ==
    \/ \E r \in Jobs : AskApproval(r) \/ StopsWaiting(r) \/ EndJob(r) \/ HttpConfirm(r)
                       \/ CliAsks(r) \/ StreamReads(r) \/ StreamIsQuiet(r) \/ CliReturns(r)
                       \/ CliListens(r) \/ CliShows(r) \/ PlainChat(r)
    \/ \E t \in Tabs : OpenSocket(t) \/ SendFrame(t) \/ Breaks(t) \/ Read(t) \/ ReadNone(t)
                       \/ LoopServes(t) \/ \E r \in Jobs : Forward(t, r)
    \/ CtrlC

\* The bridge's threads and the socket's tasks go on; nobody need send
\* anything, and no time need pass: a card that nobody answers may wait.
FrontendsFairness ==
    /\ \A r \in Jobs : WF_frontendVars(GoesOn(r)) /\ WF_frontendVars(StreamReads(r))
    /\ \A t \in Tabs : /\ WF_frontendVars(Read(t)) /\ WF_frontendVars(ReadNone(t))
                       /\ WF_frontendVars(LoopServes(t))
                       /\ \A r \in Jobs : WF_frontendVars(Forward(t, r))

FrontendsSpec == FrontendsInit /\ [][FrontendsNext]_frontendVars /\ FrontendsFairness

-----------------------------------------------------------------------------
(* Properties.                                                             *)

\* An answer on a socket that lives is given to the run that waits for it,
\* while the run and others on the socket go on ("an approval clicked mid-run
\* was silently ignored" of the old handler), or comes too late.
AnswersAreHeard ==
    \A t \in Tabs, r \in Jobs :
      (Frame("confirm", r) \in ToSet(wire[t])) ~>
         (answers[r] # {} \/ job[r] # "asks" \/ socket[t] # "open")

\* A queue in the event bus belongs to a run that a socket serves or that has
\* a stream, which will remove it, or was left by a plain request.
QueuesHaveReaders ==
    \A r \in queued :
       starter[r] = "request" \/ r \in streams \/ \E t \in Tabs : r \in served[t]

\* Not a property of the code: no queue is left when its run is done and
\* nobody shows it (handle() creates queues without readers).
NoQueueIsLeft ==
    \A r \in queued : job[r] = "done" => r \in streams \/ \E t \in Tabs : r \in served[t]

\* Not a property of the code: a socket closes only when its page is gone
\* (an empty message closes it, with all the runs it shows).
SocketsStayOpen ==
    [][\A t \in Tabs : socket[t] = "open" => socket'[t] \in {"open", "broken"}]_frontendVars
=============================================================================
