------------------------------- MODULE LlmCalls -------------------------------
(***************************************************************************)
(* One call of a language model: the requests that the four clients of the *)
(* repository make until they have an answer or give up.                   *)
(*   local_agent/llm/client.py: "ollama" and "gateway", which may stream,  *)
(*     in one of two styles: complete_streaming is "streaming" and         *)
(*     stream_complete, a generator of pieces, is "deltas";                *)
(*   agent/providers.py: "agent_ollama" and "agent_gateway", the latter    *)
(*   with a service tier that it gives up for the default one.             *)
(* A request has one of a few outcomes.  Waits between requests are left   *)
(* out; so are the texts, of which only the number of pieces counts.       *)
(***************************************************************************)
EXTENDS Naturals, Sequences, FiniteSets, SequencesExt

CONSTANTS
    Retries,  \* max_retries
    MaxPieces \* bound: chunks that a stream delivers

ASSUME LlmAssumption == Retries \in Nat /\ MaxPieces \in Nat

VARIABLES
    ask,   \* the call: its client, its request and where it stands
    posts, \* the requests made for it, with their outcomes
    shown  \* pieces of text that the user has seen arrive

llmVars == <<ask, posts, shown>>

LlmClients == {"ollama", "gateway", "agent_ollama", "agent_gateway"}
NoAsk == [at |-> "idle"]

\* What a request may come to.  "rejected" is 400 or 422, "busy" 429 or 5xx,
\* "denied" any other error status, "network" a timeout or a lost connection,
\* "garbage" a body that is not JSON and "hollow" one that lacks the answer.
Outcomes == {"answer", "hollow", "garbage", "rejected", "busy", "denied",
             "network"}

LlmInit == ask = NoAsk /\ posts = <<>> /\ shown = 0

Styles == {"blocking", "streaming", "deltas"}

\* A client is called; tier is what it was made with, tools says whether the
\* caller gave tools, body whether they are in the request.
Ask(client, style, tools, tier) ==
    /\ ask.at = "idle"
    /\ style # "blocking" => client \in {"ollama", "gateway"}
    /\ tier = "flex" => client = "agent_gateway"
    /\ ask' = [at |-> IF style = "blocking" THEN "post" ELSE "stream", client |-> client,
               style |-> style,
               tools |-> tools, body |-> tools, tier |-> tier, attempt |-> 0,
               pieces |-> 0, call |-> "none", result |-> "none"]
    /\ posts' = <<>>
    /\ shown' = 0

Posted(outcome) ==
    posts' = Append(posts, [body |-> ask.body, tier |-> ask.tier, at |-> ask.at,
                            outcome |-> outcome])

\* The call is over.
Over(result) == ask' = [ask EXCEPT !.at = "over", !.result = result]

\* A further attempt, if one is left.
Again(request) ==
    IF ask.attempt >= Retries THEN Over("error")
    ELSE ask' = [request EXCEPT !.attempt = @ + 1]

WithoutTools == [ask EXCEPT !.body = FALSE]

-----------------------------------------------------------------------------
(* The outcome of a blocking request, for each client.                     *)

\* OllamaClient.complete.  A request without tools is one more attempt; any
\* other error status is read as if it were an answer.
AfterOllama(outcome) ==
    CASE outcome \in {"network", "busy", "garbage"} -> Again(ask)
      [] outcome = "rejected" /\ ask.tools -> Again(WithoutTools)
      [] outcome \in {"answer", "hollow", "denied"}
         \/ (outcome = "rejected" /\ ~ask.tools) -> Over("reply")

\* OpenAICompatibleClient.complete and _post_with_retry.  Without tools the
\* attempts are counted anew.
AfterGateway(outcome) ==
    CASE outcome \in {"network", "busy", "garbage"} -> Again(ask)
      [] outcome = "rejected" /\ ask.body ->
           ask' = [WithoutTools EXCEPT !.attempt = 0]
      [] outcome = "denied" \/ (outcome = "rejected" /\ ~ask.body) -> Over("error")
      [] outcome \in {"answer", "hollow"} -> Over("reply")

\* agent/providers.py, OllamaClient.complete: no second try but that one.
AfterAgentOllama(outcome) ==
    CASE outcome = "rejected" /\ ask.body -> ask' = WithoutTools
      [] outcome \in {"answer", "hollow"} -> Over("reply")
      [] outcome \in {"network", "busy", "garbage", "denied"}
         \/ (outcome = "rejected" /\ ~ask.body) -> Over("error")

\* What has failed in the flex tier is asked once more in the default tier,
\* from the beginning.
FailedIn(tier) ==
    IF tier = "flex"
    THEN ask' = [ask EXCEPT !.tier = "default", !.body = ask.tools, !.attempt = 0]
    ELSE Over("error")

\* agent/providers.py, _post_chat, _complete_once and complete.
AfterAgentGateway(outcome) ==
    CASE outcome \in {"network", "busy"} ->
           IF ask.attempt < Retries THEN Again(ask) ELSE FailedIn(ask.tier)
      [] outcome = "rejected" /\ ask.body ->
           ask' = [WithoutTools EXCEPT !.attempt = 0]
      [] outcome \in {"garbage", "denied"}
         \/ (outcome = "rejected" /\ ~ask.body) -> FailedIn(ask.tier)
      [] outcome = "hollow" -> Over("error")
      [] outcome = "answer" -> Over("reply")

Post(outcome) ==
    /\ ask.at = "post"
    /\ Posted(outcome)
    /\ CASE ask.client = "ollama"        -> AfterOllama(outcome)
         [] ask.client = "gateway"       -> AfterGateway(outcome)
         [] ask.client = "agent_ollama"  -> AfterAgentOllama(outcome)
         [] ask.client = "agent_gateway" -> AfterAgentGateway(outcome)
    /\ UNCHANGED shown

-----------------------------------------------------------------------------
(* complete_streaming and stream_complete.                                 *)

\* What the stream has brought is forgotten, and the blocking call is made.
FallBack == ask' = [ask EXCEPT !.at = "post", !.pieces = 0, !.call = "none"]

\* The generator of pieces falls back on a refusal only.
Unstreamed(outcome) ==
    IF ask.style = "deltas" /\ outcome = "network" THEN Over("error") ELSE FallBack

\* The request for a stream is accepted or not; what it brings is seen later.
StreamPost(outcome) ==
    /\ ask.at = "stream"
    /\ outcome \notin {"garbage", "hollow"}
    /\ Posted(outcome)
    /\ IF outcome = "answer" THEN ask' = [ask EXCEPT !.at = "reading"] ELSE Unstreamed(outcome)
    /\ UNCHANGED shown

\* A piece of text arrives, and on_delta shows it.
Piece ==
    /\ ask.at = "reading" /\ ask.pieces < MaxPieces
    /\ ask' = [ask EXCEPT !.pieces = @ + 1]
    /\ shown' = shown + 1
    /\ UNCHANGED posts

\* The fragments of a tool call arrive; their arguments parse, or do not.
ToolCall(arguments) ==
    /\ ask.at = "reading" /\ ask.style = "streaming" /\ ask.tools /\ ask.call = "none"
    /\ ask' = [ask EXCEPT !.call = arguments]
    /\ UNCHANGED <<posts, shown>>

\* Mutation: what a broken stream has brought is taken for the answer.
BreakKeeps == Over("reply")

\* What a broken stream leads to.
Break == IF ask.style = "deltas" THEN Over("error") ELSE FallBack

\* The connection fails while the stream is read.
Interrupted ==
    /\ ask.at = "reading"
    /\ posts' = [posts EXCEPT ![Len(posts)].outcome = "network"]
    /\ Break
    /\ UNCHANGED shown

\* The stream ends, with or without its last line.  A call that did not parse
\* is dropped; a stream that brought nothing is no answer, but the generator
\* does not ask again.
StreamEnds ==
    /\ ask.at = "reading"
    /\ IF ask.pieces = 0 /\ ask.call # "parses"
       THEN /\ IF ask.style = "deltas" THEN Over("reply") ELSE FallBack
            /\ posts' = [posts EXCEPT ![Len(posts)].outcome = "hollow"]
       ELSE Over("reply") /\ UNCHANGED posts
    /\ UNCHANGED shown

\* The caller has its reply or its exception.
AnswerEnds ==
    /\ ask.at = "over"
    /\ ask' = NoAsk /\ posts' = <<>> /\ shown' = 0

LlmNext ==
    \/ \E client \in LlmClients, style \in Styles, tools \in BOOLEAN, tier \in {"flex", "default"} :
         Ask(client, style, tools, tier)
    \/ \E outcome \in Outcomes : Post(outcome) \/ StreamPost(outcome)
    \/ Piece \/ Interrupted \/ StreamEnds \/ AnswerEnds
    \/ \E arguments \in {"parses", "broken"} : ToolCall(arguments)

LlmSpec == LlmInit /\ [][LlmNext]_llmVars

-----------------------------------------------------------------------------
(* Properties.                                                             *)

LlmTypeOK ==
    /\ ask.at \in {"idle", "stream", "reading", "post", "over"}
    /\ ask.at # "idle" => /\ ask.attempt \in 0..Retries
                          /\ ask.pieces \in 0..MaxPieces
                          /\ ask.body => ask.tools
                          /\ shown >= ask.pieces

MostRequests ==
    CASE ask.client = "ollama"        -> 1 + (Retries + 1)
      [] ask.client = "gateway"       -> 1 + 2 * (Retries + 1)
      [] ask.client = "agent_ollama"  -> 2
      [] ask.client = "agent_gateway" -> 4 * (Retries + 1)

\* However the server behaves, a call makes a bounded number of requests: the
\* retries of each of its rounds add up, they do not multiply.
RequestsAreBounded == ask.at # "idle" => Len(posts) <= MostRequests

\* A call's result is that of its last request: an answer is never thrown away
\* or asked for again, and what a broken stream left is never an answer.
LastRequestDecides ==
    /\ \A i \in 1..(Len(posts) - 1) : posts[i].outcome # "answer"
    /\ ask.at = "over" /\ Last(posts).outcome = "answer" => ask.result = "reply"
    /\ ask.at = "over" /\ ask.result = "reply" /\ ask.client # "ollama" =>
         Last(posts).outcome \in {"answer", "hollow"}

\* A server that can do all but tools gets an answer out of every client that
\* has a retry: the tools are dropped at the first rejection, and stay away in
\* that tier.
ToolsAreGivenUp ==
    /\ \A i, j \in DOMAIN posts :
         /\ i < j /\ posts[i].at = "post" /\ posts[j].at = "post"
         /\ posts[i].outcome = "rejected" /\ posts[i].tier = posts[j].tier
         => ~posts[j].body
    /\ ask.at = "over" /\ ask.result = "error" =>
         \E p \in ToSet(posts) : p.outcome \notin {"answer", "rejected"}
                                 \/ (p.outcome = "rejected" /\ ~p.body)

\* What the Bridge and the agent rely on in every client.
LlmSafe == LlmTypeOK /\ RequestsAreBounded /\ LastRequestDecides /\ ToolsAreGivenUp

\* Not a property of the code: after a rejection of the tools the request is
\* made without them.  OllamaClient counts it as an attempt and may have none.
RejectionIsFollowedUp ==
    ask.at = "over" => ~(Last(posts).outcome = "rejected" /\ Last(posts).body)

\* Not a property of the code: what the user has seen arrive is in the answer.
ShownIsAnswered ==
    ask.at = "over" /\ ask.result = "reply" => shown = ask.pieces
=============================================================================
