----------------------------- MODULE Completion -----------------------------
(***************************************************************************)
(* The other way to answer a chat completion: mapResponse                  *)
(* (internal/provider/anthropic/service.go), which turns Anthropic's whole *)
(* message into one response.  The message is the one that upstream        *)
(* streams in ChunkStream, so that the two answers can be compared.        *)
(***************************************************************************)
EXTENDS ChunkStream, Loops, SequencesExt

BlocksOf(content, type) == Filter(content, [type : {type}, id : Nat, pieces : Seq(Nat)])

Pieces(blocks) == FlattenSeq([b \in DOMAIN blocks |-> blocks[b].pieces])

\* Each thinking block is rounded up by itself.
ThinkingTokens(content) ==
  LET thinking == BlocksOf(content, "thinking") IN
  Total([b \in DOMAIN thinking |-> EstimateThinkingTokens(PieceChars * Len(thinking[b].pieces))])

FinishReason(stop) ==
  CASE stop = "none" -> "stop"
    [] stop = "tool_use" -> "tool_calls"
    [] OTHER -> stop

TotalInput(usage) == usage.input + usage.create + usage.read

MapUsage(usage) ==
  [prompt |-> TotalInput(usage), completion |-> usage.output,
   total |-> TotalInput(usage) + usage.output,
   create |-> usage.create, read |-> usage.read]

\* The response: the text of all text blocks in one string, a tool call for
\* each tool_use block, and the cost that trackingService adds.
MapResponse(m) ==
  [content      |-> Pieces(BlocksOf(m.content, "text")),
   toolCalls    |-> [t \in DOMAIN BlocksOf(m.content, "tool") |->
                      [id   |-> BlocksOf(m.content, "tool")[t].id,
                       args |-> BlocksOf(m.content, "tool")[t].pieces]],
   finishReason |-> FinishReason(m.stop),
   usage        |-> MapUsage(m.usage),
   reasoning    |-> ThinkingTokens(m.content),
   cost         |-> Cost(MapUsage(m.usage))]

-----------------------------------------------------------------------------
(* Properties *)

\* What a client of the stream has put together from the chunks: the text in
\* order, and for each index the arguments that came with it.
Chunks(kinds, indices) == [kind : kinds, role : BOOLEAN, index : indices, piece : Nat]
OfKind(kind) == Filter(out, Chunks({kind}, Int))
PiecesOf(chunks) == [c \in DOMAIN chunks |-> chunks[c].piece]
Assembled ==
  LET starts == OfKind("tool_start") IN
  [content   |-> PiecesOf(OfKind("text")),
   toolCalls |-> [t \in DOMAIN starts |->
     [id   |-> starts[t].piece,
      args |-> PiecesOf(Filter(out, Chunks({"tool_delta"}, {starts[t].index})))]]]

\* Whenever the translator waits for the next event, the client can put together
\* exactly the text and the tool calls that mapResponse would have returned for
\* the message so far: nothing lost, nothing twice, no piece of arguments with
\* another call, tool calls numbered from 0 (service.go:147-176, 385-396).
StreamAgrees ==
  handler = "next" =>
    LET response == MapResponse(message) IN
    /\ Assembled.content = response.content
    /\ Assembled.toolCalls = response.toolCalls
    /\ \A t \in DOMAIN OfKind("tool_start") : OfKind("tool_start")[t].index = t - 1

\* If upstream ended the message itself, and repeated at its end the cache counts
\* it began with, the finish chunk reports the usage and the cost of the response,
\* tool_calls where the response does, and a count of reasoning tokens that is
\* smaller only by the rounding of each thinking block (service.go:126-138,
\* 380-429; cost.go).
UsageAgrees ==
  \A i \in Sent("finish") : up = "ended" /\ message.cumulative =>
    LET response == MapResponse(message)
        rounding == Len(BlocksOf(message.content, "thinking")) IN
    /\ out[i].usage = response.usage
    /\ out[i].cost = response.cost
    /\ response.finishReason = "tool_calls" => out[i].reason = "tool_calls"
    /\ out[i].reasoning \in (response.reasoning - rounding)..response.reasoning

\* No token is charged twice or forgotten: the prompt costs at least what it would
\* if all of it were read from the cache and at most what it would if all of it
\* were written to it; and no more of it is cached than there is, so that
\* prompt_tokens - cached_tokens is not negative (cost.go:27-44,
\* docs/release-notes/RELEASE_NOTES_1.1.0.md:34).
CostWithinRates ==
  \A i \in Sent("finish") : message.cumulative =>
    LET usage == out[i].usage
        promptCost == out[i].cost.total - 20 * Price.output * usage.completion IN
    /\ usage.create + usage.read <= usage.prompt
    /\ promptCost \in (2 * Price.input * usage.prompt)..(25 * Price.input * usage.prompt)
=============================================================================
