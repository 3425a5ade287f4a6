----------------------------- MODULE ChunkStream -----------------------------
(***************************************************************************)
(* One streaming chat completion, from Anthropic's event stream to the     *)
(* client's: the translator of CreateChatCompletionStream                  *)
(* (internal/provider/anthropic/service.go), the cost wrapper              *)
(* (internal/cost/middleware.go) and the handler that pulls chunks and     *)
(* writes them (internal/adapters/http/handler.go).                        *)
(*                                                                         *)
(* Upstream keeps Anthropic's protocol -- a message start, content blocks  *)
(* one after the other, a message delta with the usage, a message stop --  *)
(* but may fail or end the stream at any point.  A piece of text, of a     *)
(* tool's arguments or of thinking is the number of the event that brought *)
(* it; usage is small numbers.                                             *)
(***************************************************************************)
EXTENDS Integers, Sequences

CONSTANTS
  MaxEvents,  \* bound: content events upstream sends before it has to end
  Usages,     \* the usage upstream may report: [input, create, read, output]
  PieceChars, \* characters of a piece of thinking
  Price       \* per token, if known (Lookup): [input, output], 1/20 of a unit

ASSUME ConstantsAssumption ==
  /\ MaxEvents \in Nat
  /\ Usages \subseteq [input : Nat, create : Nat, read : Nat, output : Nat]
  /\ PieceChars \in Nat
  /\ Price \in [input : Nat, output : Nat]

VARIABLES
  handler,     \* where handleStreamingChatCompletions stands
  up,          \* upstream: where its event stream stands
  events,      \* upstream: content events sent
  message,     \* upstream: its message so far, [content, stop, usage, cumulative]
  firstChunkSent, finished, hasToolUse, toolCallIndex, streamUsage, streamThinkingChars,
               \* the variables of CreateChatCompletionStream
  chunk,       \* the chunk Next returned and the handler is to write
  out,         \* what the client has received: chunks, then perhaps [DONE]
  closed       \* whether the upstream stream has been closed

translator == <<firstChunkSent, finished, hasToolUse, toolCallIndex, streamUsage,
                streamThinkingChars>>
upstream   == <<up, events, message>>
vars       == <<handler, upstream, translator, chunk, out, closed>>

StopReasons == {"end_turn", "tool_use", "max_tokens"}

Handler == {"create", "refused", "next", "write", "done", "broken"}
Up      == {"opened", "between", "text", "thinking", "tool", "closing", "ended", "cut"}
Usage   == [prompt : Nat, completion : Nat, total : Nat, create : Nat, read : Nat]
NoUsage == [prompt |-> 0, completion |-> 0, total |-> 0, create |-> 0, read |-> 0]

\* Kinds of chunk.  index is the tool call a chunk belongs to, -1 for none.
Text(role, piece)   == [kind |-> "text", role |-> role, index |-> -1, piece |-> piece]
ToolStart(role,i,id) == [kind |-> "tool_start", role |-> role, index |-> i, piece |-> id]
ToolDelta(i, piece) == [kind |-> "tool_delta", role |-> FALSE, index |-> i, piece |-> piece]

\* A quarter of a token for each character, rounded up.
EstimateThinkingTokens(chars) == (chars + 3) \div 4

NoCost == [input |-> 0, output |-> 0, write |-> 0, read |-> 0, total |-> 0]

\* Tokens written to the cache are charged as input, too.
CalculateTwice(usage) ==
  LET input  == 20 * Price.input * (usage.prompt - usage.read)
      output == 20 * Price.output * usage.completion
      write  == 25 * Price.input * usage.create
      read   == 2 * Price.input * usage.read
  IN  [input |-> input, output |-> output, write |-> write, read |-> read,
       total |-> input + output + write + read]

\* A token written to the cache costs 1.25 times, one read from it 0.1 times the
\* price of an input token.
Calculate(usage) ==
  LET rest == usage.prompt - usage.create - usage.read
      input  == 20 * Price.input * (IF rest < 0 THEN 0 ELSE rest)
      output == 20 * Price.output * usage.completion
      write  == 25 * Price.input * usage.create
      read   == 2 * Price.input * usage.read
  IN  [input |-> input, output |-> output, write |-> write, read |-> read,
       total |-> input + output + write + read]

\* What the response carries as usage.cost: nothing for a model without a price.
Cost(usage) == IF Price.input = 0 /\ Price.output = 0 THEN NoCost ELSE Calculate(usage)

FinishChunk(reason, usage, chars) ==
  [kind |-> "finish", role |-> FALSE, index |-> -1, reason |-> reason, usage |-> usage,
   reasoning |-> EstimateThinkingTokens(chars), cost |-> Cost(usage)]
NoChunk    == [kind |-> "none"]
DoneMarker == [kind |-> "[DONE]"]

Init ==
  /\ handler = "create"
  /\ up = "opened"
  /\ events = 0
  /\ message = [content |-> <<>>, stop |-> "none", cumulative |-> TRUE,
                usage |-> [input |-> 0, create |-> 0, read |-> 0, output |-> 0]]
  /\ firstChunkSent = FALSE
  /\ finished = FALSE
  /\ hasToolUse = FALSE
  /\ toolCallIndex = 0
  /\ streamUsage = NoUsage
  /\ streamThinkingChars = 0
  /\ chunk = NoChunk
  /\ out = <<>>
  /\ closed = FALSE

-----------------------------------------------------------------------------
(* The handler *)

\* No token, or a request messageParams refuses: an error response, no stream.
Refuse ==
  /\ handler = "create"
  /\ handler' = "refused"
  /\ UNCHANGED <<upstream, translator, chunk, out, closed>>

\* Status 200 is sent before the first Next.
Open ==
  /\ handler = "create"
  /\ handler' = "next"
  /\ UNCHANGED <<upstream, translator, chunk, out, closed>>

\* The handler writes what Next returned and asks again.
WriteChunk ==
  /\ handler = "write"
  /\ out' = Append(out, chunk)
  /\ chunk' = NoChunk
  /\ handler' = "next"
  /\ UNCHANGED <<upstream, translator, closed>>

\* [DONE] only when the finish reason is stop.
WriteDoneUnlessTools ==
  /\ handler = "next"
  /\ finished
  /\ ~hasToolUse
  /\ out' = Append(out, DoneMarker)
  /\ handler' = "done"
  /\ closed' = TRUE
  /\ UNCHANGED <<upstream, translator, chunk>>

\* Next answers io.EOF: [DONE], and the deferred Close.
WriteDone ==
  /\ handler = "next"
  /\ finished
  /\ out' = Append(out, DoneMarker)
  /\ handler' = "done"
  /\ closed' = TRUE
  /\ UNCHANGED <<upstream, translator, chunk>>

-----------------------------------------------------------------------------
(* Next: the translator, one upstream event at a time *)

Pulling == handler = "next" /\ ~finished

\* Next returns the chunk to the handler.
Emit(c) ==
  /\ chunk' = c
  /\ handler' = "write"

\* Next goes on to the following event.
Skip == UNCHANGED <<handler, chunk>>

\* The role is on whichever chunk comes, first or not.
FirstChunkAlways == TRUE

FirstChunk == ~firstChunkSent

\* A block begins, or its next piece comes: the event has the next number.
Block(type) ==
  /\ events < MaxEvents
  /\ events' = events + 1
  /\ message' = [message EXCEPT !.content =
       Append(@, [type |-> type, id |-> events + 1, pieces |-> <<>>])]

Piece ==
  /\ events < MaxEvents
  /\ events' = events + 1
  /\ message' = [message EXCEPT !.content[Len(message.content)].pieces = Append(@, events + 1)]

Begins(u) ==
  /\ Pulling
  /\ up = "opened"
  /\ up' = "between"
  /\ message' = [message EXCEPT !.usage = u]
  /\ Skip
  /\ UNCHANGED <<events, firstChunkSent, finished, hasToolUse, toolCallIndex,
                 streamThinkingChars, out, closed>>

Prompt(u) == u.input + u.create + u.read

\* Only the input tokens that were neither written to nor read from the cache.
MessageStartUncached(u) ==
  /\ Begins(u)
  /\ streamUsage' = IF Prompt(u) > 0
       THEN [streamUsage EXCEPT !.prompt = u.input, !.total = u.input + u.output,
                                !.create = u.create, !.read = u.read]
       ELSE streamUsage

\* The usage so far; u.output is what upstream has produced already.
MessageStart(u) ==
  /\ Begins(u)
  /\ streamUsage' = IF Prompt(u) > 0
       THEN [streamUsage EXCEPT !.prompt = Prompt(u), !.total = Prompt(u) + u.output,
                                !.create = u.create, !.read = u.read]
       ELSE streamUsage

\* A text or a thinking block begins: nothing for the client.
BlockStart(b) ==
  /\ Pulling
  /\ up = "between"
  /\ up' = b
  /\ Block(b)
  /\ Skip
  /\ UNCHANGED <<translator, out, closed>>

ToolBlock ==
  /\ Pulling
  /\ up = "between"
  /\ up' = "tool"
  /\ Block("tool")
  /\ Emit(ToolStart(FirstChunk, toolCallIndex, events + 1))
  /\ hasToolUse' = TRUE
  /\ firstChunkSent' = TRUE
  /\ UNCHANGED <<finished, streamUsage, streamThinkingChars, out, closed>>

\* The index is not advanced.
ToolBlockStartSameIndex == ToolBlock /\ UNCHANGED toolCallIndex

ToolBlockStart == ToolBlock /\ toolCallIndex' = toolCallIndex + 1

TextDelta ==
  /\ Pulling
  /\ up = "text"
  /\ UNCHANGED up
  /\ Piece
  /\ Emit(Text(FirstChunk, events + 1))
  /\ firstChunkSent' = TRUE
  /\ UNCHANGED <<finished, hasToolUse, toolCallIndex, streamUsage, streamThinkingChars,
                 out, closed>>

\* Thinking is counted, not forwarded.
ThinkingDelta ==
  /\ Pulling
  /\ up = "thinking"
  /\ UNCHANGED up
  /\ Piece
  /\ Skip
  /\ streamThinkingChars' = streamThinkingChars + PieceChars
  /\ UNCHANGED <<firstChunkSent, finished, hasToolUse, toolCallIndex, streamUsage, out, closed>>

InputJSONDelta ==
  /\ Pulling
  /\ up = "tool"
  /\ UNCHANGED up
  /\ Piece
  /\ Emit(ToolDelta(toolCallIndex - 1, events + 1))
  /\ UNCHANGED <<translator, out, closed>>

BlockStop ==
  /\ Pulling
  /\ up \in {"text", "thinking", "tool"}
  /\ up' = "between"
  /\ Skip
  /\ UNCHANGED <<events, message, translator, out, closed>>

\* A message delta, or one more; those after the first count as content events.
\* tool_use is the reason only after a tool call.
Closing(stop, u) ==
  /\ Pulling
  /\ up' = "closing"
  /\ \/ up = "between" /\ UNCHANGED events
     \/ up = "closing" /\ events < MaxEvents /\ events' = events + 1
  /\ stop = "tool_use" => \E b \in 1..Len(message.content) : message.content[b].type = "tool"
  /\ message' = [message EXCEPT
       !.stop = stop,
       !.usage = [u EXCEPT !.input = message.usage.input],
       !.cumulative = @ /\ u.create = message.usage.create /\ u.read = message.usage.read]
  /\ Skip
  /\ UNCHANGED <<firstChunkSent, finished, hasToolUse, toolCallIndex, streamThinkingChars,
                 out, closed>>

\* The total is left as message_start set it.
MessageDeltaStaleTotal(stop, u) ==
  /\ Closing(stop, u)
  /\ streamUsage' = [streamUsage EXCEPT !.completion = u.output,
                                        !.create = u.create, !.read = u.read]

\* The usage at the end; the cache counts of message_start are overwritten.
MessageDelta(stop, u) ==
  /\ Closing(stop, u)
  /\ streamUsage' = [streamUsage EXCEPT !.completion = u.output,
                                        !.total = streamUsage.prompt + u.output,
                                        !.create = u.create, !.read = u.read]

TheFinishChunk ==
  FinishChunk(IF hasToolUse THEN "tool_calls" ELSE "stop", streamUsage, streamThinkingChars)

\* The finish chunk without the flag that stops the next call.
FinishRepeatedly ==
  /\ Emit(TheFinishChunk)
  /\ UNCHANGED translator

\* The finish chunk carries the usage, and the cost if the price is known.
Finish ==
  /\ finished' = TRUE
  /\ Emit(TheFinishChunk)
  /\ UNCHANGED <<firstChunkSent, hasToolUse, toolCallIndex, streamUsage, streamThinkingChars>>

MessageStop ==
  /\ Pulling
  /\ up = "closing"
  /\ up' = "ended"
  /\ Finish
  /\ UNCHANGED <<events, message, out, closed>>

\* The event stream ends without a message_stop and without an error: for the
\* translator the answer is complete.
EndOfEvents ==
  /\ Pulling
  /\ up' = "cut"
  /\ Finish
  /\ UNCHANGED <<events, message, out, closed>>

\* The handler returns and leaves the upstream stream open.
StreamErrorUnclosed ==
  /\ Pulling
  /\ up' = "cut"
  /\ handler' = "broken"
  /\ UNCHANGED <<events, message, translator, chunk, out, closed>>

\* Any error is taken for the end of the stream.
StreamErrorAsEnd ==
  /\ Pulling
  /\ up' = "cut"
  /\ handler' = "done"
  /\ closed' = TRUE
  /\ UNCHANGED <<events, message, translator, chunk, out>>

\* Upstream answers with an error status (a 401 among them), the connection
\* breaks, or the client has gone and its context is cancelled: stream.error is
\* logged and the handler returns, closing the stream.
StreamError ==
  /\ Pulling
  /\ up' = "cut"
  /\ handler' = "broken"
  /\ closed' = TRUE
  /\ UNCHANGED <<events, message, translator, chunk, out>>

-----------------------------------------------------------------------------
Upstream ==
  \/ \E u \in Usages : MessageStart(u)
  \/ \E b \in {"text", "thinking"} : BlockStart(b)
  \/ ToolBlockStart
  \/ TextDelta
  \/ ThinkingDelta
  \/ InputJSONDelta
  \/ BlockStop
  \/ \E stop \in StopReasons, u \in Usages : MessageDelta(stop, u)
  \/ MessageStop
  \/ EndOfEvents
  \/ StreamError

Next == Refuse \/ Open \/ WriteChunk \/ WriteDone \/ Upstream

Spec == Init /\ [][Next]_vars

\* The handler runs.  That upstream goes on is an assumption about upstream: no
\* timeout of the proxy bounds a stream.
FairSpec == Spec /\ WF_vars(Refuse \/ Open) /\ WF_vars(WriteChunk \/ WriteDone)
                 /\ WF_vars(Upstream)

-----------------------------------------------------------------------------
(* Properties *)

\* Every variable stays within its type, and the upstream stream is closed
\* exactly when the handler that opened it has returned (handler.go:129-131).
TypeOK ==
  /\ handler \in Handler
  /\ up \in Up
  /\ events \in 0..MaxEvents
  /\ message.stop \in StopReasons \cup {"none"}
  /\ \A b \in 1..Len(message.content) : message.content[b].type \in {"text", "thinking", "tool"}
  /\ firstChunkSent \in BOOLEAN
  /\ finished \in BOOLEAN
  /\ hasToolUse \in BOOLEAN
  /\ toolCallIndex \in Nat
  /\ streamUsage \in Usage
  /\ streamThinkingChars \in Nat
  /\ closed <=> handler \in {"done", "broken"}

Sent(k) == {i \in 1..Len(out) : out[i].kind = k}
Contents == Sent("text") \cup Sent("tool_start") \cup Sent("tool_delta")

\* The assistant role is on the first content chunk and on no other, whether
\* the message opens with text, thinking or a tool call (service.go:154-169).
RoleOnFirstChunkOnly ==
  \A i \in Contents : out[i].role <=> (\A j \in Contents : i <= j)

\* There is one finish chunk with nothing but [DONE] after it, and it tells what
\* was sent: tool_calls exactly if a tool call went out and, when upstream ended
\* the message itself, the output it reported last and a total that adds up
\* (service.go:126-138, 178-190).
FinishTellsTheTruth ==
  \A i \in Sent("finish") :
    /\ \A j \in 1..Len(out) : j > i => out[j] = DoneMarker
    /\ out[i].reason = "tool_calls" <=> Sent("tool_start") # {}
    /\ out[i].usage.completion \in {0, message.usage.output}
    /\ up = "ended" =>
         /\ out[i].usage.completion = message.usage.output
         /\ out[i].usage.total = out[i].usage.prompt + out[i].usage.completion

\* The client's stream keeps to EventStream: [DONE] only after one finish chunk,
\* no finish chunk and no [DONE] after an error (handler.go:141-161).
Phase ==
  CASE handler = "create" -> "waiting"
    [] handler = "refused" -> "refused"
    [] handler = "broken" -> "broken"
    [] handler = "done" -> "done"
    [] OTHER -> IF Sent("finish") # {} \/ chunk.kind = "finish" THEN "finished" ELSE "open"
Events == INSTANCE EventStream WITH phase <- Phase
KeepsEventStream == Events!Spec

\* As long as upstream goes on, every stream comes to an end the client can see.
StreamEnds == <>(handler \in {"refused", "done", "broken"})
=============================================================================
