---------------------------- MODULE EventStreams ----------------------------
(***************************************************************************)
(* How the events of chat runs reach the frontends: the EventBus of        *)
(* bridge/api/handlers.py and its three consumers,                         *)
(*   "ws"      the WebSocket handler of web/app.py: one forwarder per run, *)
(*             from the run's queue to the socket's incoming queue,        *)
(*   "sse"     _BridgeHandler._stream_events: a listener writes to the     *)
(*             socket, the run's queue only tells when to stop,            *)
(*   "inproc"  BridgeServer.stream_request: a generator over a local queue *)
(*             that a listener fills.                                      *)
(* Each run has one consumer, which goes by the run's name.                *)
(*                                                                         *)
(* A run publishes the events 1..Last, of which Last is chat_done or       *)
(* chat_failed (ChatRuns!OneTerminalEvent); a resolver is a frontend       *)
(* thread that publishes one tool_confirm_resolved for some run.           *)
(***************************************************************************)
EXTENDS Naturals, Sequences, FiniteSets

CONSTANTS
    Runs,      \* runs, and the consumers that start them
    Resolvers, \* threads that publish one tool_confirm_resolved each
    Styles,    \* the kinds of consumer there may be
    Last,      \* bound: events of one run
    Silence    \* can 300 seconds go by without an event?

ASSUME StreamsAssumption ==
    /\ Runs \cap Resolvers = {}
    /\ Styles \subseteq {"ws", "sse", "inproc"}
    /\ Last \in Nat \ {0}
    /\ Silence \in BOOLEAN

Publishers == Runs \cup Resolvers
Sentinel == 0         \* the None of end_run
Resolved == Last + 1  \* a tool_confirm_resolved
TimedOut == Last + 2  \* the chat_failed stream_request makes up
Terminal(e) == e = Last

VARIABLES
    style,     \* [Runs -> Styles] the consumer of each run
    worker,    \* [Runs -> label] the run's thread
    published, \* [Runs -> 0..Last] its events so far
    pub,       \* [Publishers -> the publish call in progress]
    hasQueue,  \* [Runs -> BOOLEAN] is there a run queue?
    queue,     \* [Runs -> Seq(event)] the run queue
    listeners, \* the consumers subscribed to the bus
    con,       \* [Runs -> label] where the consumer is
    inbox,     \* [Runs -> Seq(<<run, event>>)] ws: incoming, inproc: local
    out,       \* [Runs -> Seq(<<run, event>>)] what the frontend has received
    left       \* the consumers that left, timed out, or failed to start

bus == <<hasQueue, queue, listeners>>
consumer == <<con, inbox, out, left>>
vars == <<style, worker, published, pub, bus, consumer>>

IdlePub == [at |-> "idle"]
DonePub == [at |-> "done"] \* a resolver that has published

Init ==
    /\ style \in [Runs -> Styles]
    /\ worker = [r \in Runs |-> "none"]
    /\ published = [r \in Runs |-> 0]
    /\ pub = [p \in Publishers |-> IdlePub]
    /\ hasQueue = [r \in Runs |-> FALSE]
    /\ queue = [r \in Runs |-> <<>>]
    /\ listeners = {}
    /\ con = [r \in Runs |-> "idle"]
    /\ inbox = [r \in Runs |-> <<>>]
    /\ out = [r \in Runs |-> <<>>]
    /\ left = {}

Put(f, k, x) == [f EXCEPT ![k] = Append(@, x)]
Become(c, label) == con' = [con EXCEPT ![c] = label]

\* _start_chat_run makes the queue before the worker thread starts.  When it
\* raises there is neither, and only the SSE handler has done anything before.
Launch(r) ==
    /\ hasQueue' = [hasQueue EXCEPT ![r] = TRUE]
    /\ worker' = [worker EXCEPT ![r] = "running"]

DestroyQueue(r) ==
    /\ hasQueue' = [hasQueue EXCEPT ![r] = FALSE]
    /\ queue' = [queue EXCEPT ![r] = <<>>]

-----------------------------------------------------------------------------
(* EventBus.publish and end_run.                                           *)

\* Under the bus's lock: the listeners and the queue of that moment.
Snapshot(p, r, e) ==
    /\ pub[p] = IdlePub
    /\ pub' = [pub EXCEPT ![p] = [at |-> "calling", run |-> r, event |-> e,
                                  calls |-> listeners, queued |-> hasQueue[r]]]

PublishNext(r) ==
    /\ worker[r] = "running"
    /\ published[r] < Last
    /\ Snapshot(r, r, published[r] + 1)
    /\ published' = [published EXCEPT ![r] = @ + 1]
    /\ UNCHANGED <<style, worker, bus, consumer>>

PublishResolved(p, r) ==
    /\ worker[r] # "none"
    /\ Snapshot(p, r, Resolved)
    /\ worker' = worker
    /\ UNCHANGED <<style, published, bus, consumer>>

\* Outside the lock, a listener: stream_request's fills its local queue, that
\* of _stream_events writes to the socket; before the response has begun it
\* buffers, and a buffered event may miss the flush.
CallListener(p, c) ==
    /\ pub[p].at = "calling"
    /\ c \in pub[p].calls
    /\ pub' = [pub EXCEPT ![p].calls = @ \ {c}]
    /\ LET item == <<pub[p].run, pub[p].event>> IN
       \/ /\ style[c] = "inproc"
          /\ inbox' = Put(inbox, c, item)
          /\ UNCHANGED out
       \/ /\ style[c] = "sse"
          /\ con[c] # "closed"
          /\ out' = Put(out, c, item)
          /\ UNCHANGED inbox
       \/ /\ style[c] = "sse"
          /\ con[c] \in {"subscribed", "closed"}
          /\ UNCHANGED <<inbox, out>>
    /\ UNCHANGED <<style, worker, published, bus, con, left>>

\* After the listeners, the queue found by the snapshot; it may be gone.
PutQueue(p) ==
    /\ pub[p].at = "calling"
    /\ pub[p].calls = {}
    /\ pub' = [pub EXCEPT ![p] = IF p \in Runs THEN IdlePub ELSE DonePub]
    /\ queue' = IF pub[p].queued /\ hasQueue[pub[p].run]
                THEN Put(queue, pub[p].run, pub[p].event) ELSE queue
    /\ UNCHANGED <<style, worker, published, hasQueue, listeners, consumer>>

\* The worker's finally clause.
EndRun(r) ==
    /\ worker[r] = "running"
    /\ published[r] = Last
    /\ pub[r] = IdlePub
    /\ worker' = [worker EXCEPT ![r] = "ended"]
    /\ queue' = IF hasQueue[r] THEN Put(queue, r, Sentinel) ELSE queue
    /\ UNCHANGED <<style, published, pub, hasQueue, listeners, consumer>>

Publish(p) ==
    \/ p \in Runs /\ (PublishNext(p) \/ EndRun(p))
    \/ \E c \in Runs : CallListener(p, c)
    \/ PutQueue(p)

-----------------------------------------------------------------------------
(* The WebSocket handler.                                                  *)

WsStart(c) ==
    /\ style[c] = "ws" /\ con[c] = "idle"
    /\ Launch(c)
    /\ Become(c, "open")
    /\ UNCHANGED <<style, published, pub, queue, listeners, inbox, out, left>>

\* Mutation: the forwarder takes the newest event.
WsForwardNewest(c) ==
    /\ style[c] = "ws" /\ con[c] = "open"
    /\ queue[c] # <<>>
    /\ inbox' = Put(inbox, c, <<c, queue[c][Len(queue[c])]>>)
    /\ queue' = [queue EXCEPT ![c] = SubSeq(@, 1, Len(@) - 1)]
    /\ UNCHANGED <<style, worker, published, pub, hasQueue, listeners, con,
                   out, left>>

\* The forwarder task.
WsForward(c) ==
    /\ style[c] = "ws" /\ con[c] = "open"
    /\ queue[c] # <<>>
    /\ inbox' = Put(inbox, c, <<c, Head(queue[c])>>)
    /\ queue' = [queue EXCEPT ![c] = Tail(@)]
    /\ UNCHANGED <<style, worker, published, pub, hasQueue, listeners, con,
                   out, left>>

\* Mutation: the run is given up at the first event that is not a delta.
WsSendStops(c) ==
    /\ style[c] = "ws"
    /\ inbox[c] # <<>>
    /\ inbox' = [inbox EXCEPT ![c] = Tail(@)]
    /\ out' = IF Head(inbox[c])[2] = Sentinel THEN out
              ELSE Put(out, c, Head(inbox[c]))
    /\ DestroyQueue(c)
    /\ Become(c, "closed")
    /\ UNCHANGED <<style, worker, published, pub, listeners, left>>

\* The main loop sends an event; the terminal one, or the None, ends the
\* forwarder and removes the queue.  What the forwarder had already put into
\* the incoming queue is still sent.
WsSend(c) ==
    /\ style[c] = "ws"
    /\ inbox[c] # <<>>
    /\ inbox' = [inbox EXCEPT ![c] = Tail(@)]
    /\ LET event == Head(inbox[c])[2] IN
       /\ out' = IF event = Sentinel THEN out ELSE Put(out, c, Head(inbox[c]))
       /\ IF event = Sentinel \/ Terminal(event)
          THEN DestroyQueue(c) /\ Become(c, "closed")
          ELSE UNCHANGED <<hasQueue, queue, con>>
    /\ UNCHANGED <<style, worker, published, pub, listeners, left>>

\* The socket closes or a send fails: the handler's finally clause.
WsDrop(c) ==
    /\ style[c] = "ws" /\ con[c] = "open"
    /\ DestroyQueue(c)
    /\ Become(c, "closed")
    /\ left' = left \cup {c}
    /\ inbox' = [inbox EXCEPT ![c] = <<>>]
    /\ UNCHANGED <<style, worker, published, pub, listeners, out>>

-----------------------------------------------------------------------------
(* _stream_events.                                                         *)

SseSubscribe(c) ==
    /\ style[c] = "sse" /\ con[c] = "idle"
    /\ listeners' = listeners \cup {c}
    /\ Become(c, "subscribed")
    /\ UNCHANGED <<style, worker, published, pub, hasQueue, queue, inbox, out,
                   left>>

\* Mutation: the run is started before the listener is subscribed.
SseStartFirst(c) ==
    /\ style[c] = "sse" /\ con[c] = "subscribed"
    /\ Launch(c)
    /\ listeners' = listeners \ {c}
    /\ Become(c, "open")
    /\ UNCHANGED <<style, published, pub, queue, inbox, out, left>>

SseStart(c) ==
    /\ style[c] = "sse" /\ con[c] = "subscribed"
    /\ Launch(c)
    /\ Become(c, "open")
    /\ UNCHANGED <<style, published, pub, queue, listeners, inbox, out, left>>

\* The response headers, the flush of the buffer or _start_chat_run (of an empty
\* message) raises.  The listener is already subscribed and the try has not
\* begun, so that nobody unsubscribes it.
SseFails(c) ==
    /\ style[c] = "sse" /\ con[c] = "subscribed"
    /\ Become(c, "closed")
    /\ left' = left \cup {c}
    /\ UNCHANGED <<style, worker, published, pub, bus, inbox, out>>

\* The queue only tells the end; the events are written by the listener.
SseGet(c) ==
    /\ style[c] = "sse" /\ con[c] = "open"
    /\ queue[c] # <<>>
    /\ queue' = [queue EXCEPT ![c] = Tail(@)]
    /\ Become(c, IF Head(queue[c]) = Sentinel \/ Terminal(Head(queue[c]))
                 THEN "closing" ELSE "open")
    /\ UNCHANGED <<style, worker, published, pub, hasQueue, listeners, inbox,
                   out, left>>

SseTimeout(c) ==
    /\ Silence
    /\ style[c] = "sse" /\ con[c] = "open"
    /\ queue[c] = <<>>
    /\ Become(c, "closing")
    /\ left' = left \cup {c}
    /\ UNCHANGED <<style, worker, published, pub, bus, inbox, out>>

-----------------------------------------------------------------------------
(* stream_request.                                                         *)

InStart(c) ==
    /\ style[c] = "inproc" /\ con[c] = "idle"
    /\ Launch(c)
    /\ Become(c, "started")
    /\ UNCHANGED <<style, published, pub, queue, listeners, inbox, out, left>>

InSubscribe(c) ==
    /\ style[c] = "inproc" /\ con[c] = "started"
    /\ listeners' = listeners \cup {c}
    /\ Become(c, "open")
    /\ UNCHANGED <<style, worker, published, pub, hasQueue, queue, inbox, out,
                   left>>

\* The generator yields the next event, of whichever run, and ends with a
\* chat_done or chat_failed, of whichever run.
InYield(c) ==
    /\ style[c] = "inproc" /\ con[c] = "open"
    /\ inbox[c] # <<>>
    /\ out' = Put(out, c, Head(inbox[c]))
    /\ inbox' = [inbox EXCEPT ![c] = Tail(@)]
    /\ Become(c, IF Terminal(Head(inbox[c])[2]) THEN "closing" ELSE "open")
    /\ UNCHANGED <<style, worker, published, pub, bus, left>>

\* Mutation: the 300 seconds count only from the first event on.
InTimeoutHeard(c) ==
    /\ Silence
    /\ style[c] = "inproc" /\ con[c] = "open"
    /\ inbox[c] = <<>>
    /\ out[c] # <<>>
    /\ out' = Put(out, c, <<c, TimedOut>>)
    /\ Become(c, "closing")
    /\ left' = left \cup {c}
    /\ UNCHANGED <<style, worker, published, pub, bus, inbox>>

\* 300 seconds of silence: the generator makes up a chat_failed.
InTimeout(c) ==
    /\ Silence
    /\ style[c] = "inproc" /\ con[c] = "open"
    /\ inbox[c] = <<>>
    /\ out' = Put(out, c, <<c, TimedOut>>)
    /\ Become(c, "closing")
    /\ left' = left \cup {c}
    /\ UNCHANGED <<style, worker, published, pub, bus, inbox>>

\* The finally clauses of _stream_events and stream_request.
CloseStream(c) ==
    /\ con[c] = "closing"
    /\ listeners' = listeners \ {c}
    /\ DestroyQueue(c)
    /\ Become(c, "closed")
    /\ UNCHANGED <<style, worker, published, pub, inbox, out, left>>

Consume(c) ==
    \/ WsForward(c) \/ WsSend(c)
    \/ SseStart(c) \/ SseGet(c) \/ SseTimeout(c)
    \/ InSubscribe(c) \/ InYield(c) \/ InTimeout(c)
    \/ CloseStream(c)

Next ==
    \/ \E p \in Publishers : Publish(p)
    \/ \E p \in Resolvers, r \in Runs : PublishResolved(p, r)
    \/ \E c \in Runs : WsStart(c) \/ SseSubscribe(c) \/ InStart(c)
    \/ \E c \in Runs : Consume(c) \/ WsDrop(c) \/ SseFails(c)

Spec == Init /\ [][Next]_vars

\* Worker threads and resolvers finish a publish, runs end
\* (ChatRuns!RunsEnd), and a consumer takes what there is for it.
Fairness ==
    /\ \A p \in Publishers : WF_vars(Publish(p))
    /\ \A c \in Runs : WF_vars(Consume(c))

FairSpec == Spec /\ Fairness
-----------------------------------------------------------------------------
(* Properties.                                                             *)

Events == Sentinel..TimedOut
Item == Runs \X Events

\* The type invariant; there is a queue only for a run that was started.
TypeOK ==
    /\ style \in [Runs -> Styles]
    /\ worker \in [Runs -> {"none", "running", "ended"}]
    /\ published \in [Runs -> 0..Last]
    /\ pub \in [Publishers -> {IdlePub, DonePub} \cup
                  [at : {"calling"}, run : Runs, event : Events,
                   calls : SUBSET Runs, queued : BOOLEAN]]
    /\ hasQueue \in [Runs -> BOOLEAN]
    /\ queue \in [Runs -> Seq(Events)]
    /\ \A r \in Runs : hasQueue[r] => worker[r] # "none"
    /\ listeners \subseteq Runs
    /\ con \in [Runs -> {"idle", "subscribed", "started", "open", "closing",
                         "closed"}]
    /\ inbox \in [Runs -> Seq(Item)]
    /\ out \in [Runs -> Seq(Item)]
    /\ left \subseteq Runs

\* Where, in what c has received, the events are that its worker published.
OwnPlaces(c) == {i \in DOMAIN out[c] : out[c][i][1] = c /\ out[c][i][2] \in 1..Last}

Received(c, e) == \E i \in OwnPlaces(c) : out[c][i][2] = e
InOrder(c) == \A i, j \in OwnPlaces(c) : i < j => out[c][i][2] < out[c][j][2]
HasAll(c) == InOrder(c) /\ \A e \in 1..Last : Received(c, e)

\* A frontend sees the events of its run without a gap, a repetition or an
\* inversion, also while frontend threads publish to the same run and other
\* runs publish to the same bus.
OwnEventsInOrder ==
    \A c \in Runs :
        /\ InOrder(c)
        /\ \A i, j \in OwnPlaces(c) :
             \A e \in out[c][i][2]..out[c][j][2] : Received(c, e)

\* A WebSocket or SSE consumer that has started, and did not leave or time out,
\* has received every event of its run when it ends, the first one included, in
\* order and once.
StreamsAreComplete ==
    \A c \in Runs :
        con[c] = "closed" /\ style[c] \in {"ws", "sse"} /\ c \notin left => HasAll(c)

\* A consumer that has ended, in whichever way, leaves no queue that the run
\* would fill for nobody.  It leaves no listener on the bus either, if its run
\* was started: an SSE request that fails before its run does leaves one.
ClosedStreamsLeaveNothing ==
    \A c \in Runs :
        con[c] = "closed" =>
            /\ ~hasQueue[c] /\ queue[c] = <<>>
            /\ worker[c] # "none" => c \notin listeners

\* Every stream ends, by its terminal event or by the silence.
StreamsEnd == \A c \in Runs : con[c] \in {"open", "started"} ~> con[c] = "closed"

\* "Yields Event objects as they arrive": when the run is over and nothing is
\* left in the local queue, an in-process consumer has had every event.
EventsAreYielded ==
    \A c \in Runs :
        /\ style[c] = "inproc" /\ con[c] = "open"
        /\ worker[c] = "ended" /\ inbox[c] = <<>>
        => HasAll(c)

\* "The final event is always chat_done (or chat_failed)": a stream that ends
\* has delivered the chat_done or chat_failed of its run.
FinalEventArrives ==
    \A c \in Runs :
        /\ con[c] = "closed"
        /\ c \notin left \/ style[c] = "sse"
        => \E i \in DOMAIN out[c] : out[c][i] = <<c, Last>>

\* A WebSocket consumer is a RunFeed of its run.
Feed(c) == INSTANCE RunFeed WITH
    published <- published[c],
    delivered <- Cardinality(OwnPlaces(c)),
    state <- IF con[c] = "idle" THEN "new"
             ELSE IF c \in left THEN "gone"
             ELSE IF con[c] = "open" THEN "open" ELSE "complete"

WebSocketIsFeed ==
    /\ \A c \in Runs : Feed(c)!Init
    /\ [][\A c \in Runs :
            style[c] = "ws" => [Feed(c)!Next]_(Feed(c)!feedVars)]_vars

\* What a consumer gets is complete, and what it leaves is gone.
StreamsAreSafe == TypeOK /\ StreamsAreComplete /\ ClosedStreamsLeaveNothing
=============================================================================
