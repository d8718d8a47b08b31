---------------------------- MODULE MCFrontends ----------------------------
(***************************************************************************)
(* An instance for TLC of what stands between runs and users: the streams  *)
(* of a run's events, the Telegram bot of the Bridge, and the browser's    *)
(* page with the command line.  The components share no state: `focus`     *)
(* names the one that moves.                                               *)
(***************************************************************************)
EXTENDS EventStreams, BridgeBot, Frontends, TLC

VARIABLE focus

StreamsRest == Init /\ \A r \in Runs : style[r] = "ws"
BotRests == BotInit /\ transport = "http"
PageRests == FrontendsInit /\ bridge = "daemon"

\* Bound: two of the runs around the bot are started, of the bot's this one first;
\* when both are the bot's, one button is pressed.
Wanted(r) == run[r] # "new" \/ \E i \in DOMAIN botInbox : botInbox[i] = Text(r)
FirstText == CHOOSE r \in BotRuns : TRUE
TwoRuns ==
    /\ Cardinality({r \in ChatRun : Wanted(r)}) <= 2
    /\ (\E r \in BotRuns : Wanted(r)) => Wanted(FirstText)
    /\ (\A r \in BotRuns : Wanted(r)) => presses <= 1

MCInit ==
    \/ focus = "streams" /\ Init /\ BotRests /\ PageRests
    \/ focus = "bot" /\ BotInit /\ StreamsRest /\ PageRests
    \/ focus = "page" /\ FrontendsInit /\ StreamsRest /\ BotRests

MCNext ==
    /\ UNCHANGED focus
    /\ \/ focus = "streams" /\ Next /\ UNCHANGED <<botVars, frontendVars>>
       \/ focus = "bot" /\ BotNext /\ TwoRuns' /\ UNCHANGED <<vars, frontendVars>>
       \/ focus = "page" /\ FrontendsNext /\ UNCHANGED <<vars, botVars>>

\* A component that rests has no step that fairness asks for.
MCSpec ==
    /\ MCInit /\ [][MCNext]_<<vars, botVars, frontendVars, focus>>
    /\ Fairness /\ BotFairness /\ FrontendsFairness

\* Events: a stream shows its run's in order, and a queue has its reader.
EventsAreKept == OwnEventsInOrder /\ QueuesHaveReaders
=============================================================================
