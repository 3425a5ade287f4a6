-------------------------- MODULE ChunkStreamProofs --------------------------
(***************************************************************************)
(* Theorems about ChunkStream and Completion, for streams of any length,   *)
(* any usage and any price: the client's stream keeps to EventStream, its  *)
(* one finish chunk tells the truth, the role is on its first content      *)
(* chunk, and what the client puts together is what the answer without     *)
(* streaming would have said, at the same price.                           *)
(*                                                                         *)
(* What the client has received does not say where the translator stands:  *)
(* StreamInv relates the two, by way of the chunk that was returned by     *)
(* Next and not yet written.  AnswerInv, in the second half, relates both  *)
(* to the message that upstream has sent so far, an event at a time: what  *)
(* mapResponse would make of it now is what the client has now, or has     *)
(* with the pending chunk.                                                 *)
(***************************************************************************)
EXTENDS Completion, SequenceFacts

ContentKinds == {"text", "tool_start", "tool_delta"}

\* The records and sequences have the fields and the form that steps update.
ShapeInv ==
  /\ \E S : out \in Seq(S)
  /\ message = [content |-> message.content, stop |-> message.stop,
                usage |-> message.usage, cumulative |-> message.cumulative]
  /\ streamUsage \in Usage
  /\ finished \in BOOLEAN /\ hasToolUse \in BOOLEAN /\ firstChunkSent \in BOOLEAN

\* A chunk is pending between Next and the write, and only then; [DONE] is last.
PendingInv ==
  /\ chunk.kind \in ContentKinds \cup {"finish", "none"}
  /\ handler = "write" <=> chunk.kind # "none"
  /\ handler = "create" => out = <<>> /\ ~finished
  /\ handler # "done" => Sent("[DONE]") = {}
  /\ handler = "done" => finished

\* The finish chunk is sent or pending exactly if the translator has finished.
FinishInv ==
  /\ finished <=> Sent("finish") # {} \/ chunk.kind = "finish"
  /\ chunk.kind \in ContentKinds => ~finished
  /\ chunk.kind = "finish" => chunk = TheFinishChunk /\ Sent("finish") = {}
  /\ \A i \in Sent("finish") :
       out[i] = TheFinishChunk /\ \A j \in 1..Len(out) : j > i => out[j] = DoneMarker
  /\ hasToolUse <=> Sent("tool_start") # {} \/ chunk.kind = "tool_start"

\* The usage so far is what upstream has reported.
UsageInv ==
  /\ streamUsage.completion \in {0, message.usage.output}
  /\ up \in {"opened", "between", "text", "thinking", "tool"} => streamUsage.completion = 0
  /\ up \in {"closing", "ended"} =>
       /\ streamUsage.completion = message.usage.output
       /\ streamUsage.total = streamUsage.prompt + streamUsage.completion

\* The role has been given to the first content chunk, sent or pending.
RoleInv ==
  /\ firstChunkSent <=> Contents # {} \/ chunk.kind \in ContentKinds
  /\ chunk.kind \in ContentKinds => (chunk.role <=> Contents = {})
  /\ up = "tool" => firstChunkSent
  /\ RoleOnFirstChunkOnly

StreamInv == ShapeInv /\ PendingInv /\ FinishInv /\ UsageInv /\ RoleInv

-----------------------------------------------------------------------------
(* Sequences of chunks *)

\* One chunk more at the end, the others where they were.
LEMMA AppendOut ==
  ASSUME NEW S, out \in Seq(S), NEW c, out' = Append(out, c)
  PROVE  /\ out' \in Seq(S \cup {c})
         /\ Len(out) \in Nat /\ Len(out') = Len(out) + 1
         /\ out'[Len(out) + 1] = c
         /\ \A i \in 1..Len(out) : out'[i] = out[i]
<1>1. out \in Seq(S \cup {c})
  <2>1. PICK n \in Nat : out \in [1..n -> S]
    BY SeqDef
  <2>2. out \in [1..n -> S \cup {c}]
    BY <2>1
  <2>. QED
    BY <2>2, SeqDef
<1>. QED
  BY <1>1, AppendProperties

\* A write adds its position to the chunks of its kind,
LEMMA SentAppend ==
  ASSUME ShapeInv, NEW c, out' = Append(out, c), NEW k
  PROVE  Sent(k)' = Sent(k) \cup (IF c.kind = k THEN {Len(out) + 1} ELSE {})
<1>1. PICK S : out \in Seq(S)
  BY DEF ShapeInv
<1>. QED
  BY <1>1, AppendOut DEF Sent

\* and all of them are positions of the output.
LEMMA SentIn == ASSUME NEW k PROVE Sent(k) \subseteq 1..Len(out)
BY DEF Sent

-----------------------------------------------------------------------------
(* What the events do *)

\* Nothing for the client: the translator goes on to the next event.
Quiet ==
  \/ \E u \in Usages : MessageStart(u)
  \/ \E b \in {"text", "thinking"} : BlockStart(b)
  \/ ThinkingDelta
  \/ BlockStop
  \/ \E stop \in StopReasons, u \in Usages : MessageDelta(stop, u)

\* It leaves the chunk, the output and what is known of the end alone.
LEMMA QuietEffect ==
  ASSUME Quiet
  PROVE  /\ Pulling /\ up' # "tool"
         /\ UNCHANGED <<handler, chunk, out, closed, firstChunkSent, finished, hasToolUse>>
BY DEF Quiet, MessageStart, Begins, BlockStart, ThinkingDelta, BlockStop, MessageDelta, Closing,
       Skip, translator

\* A chunk with content.
Content == ToolBlockStart \/ TextDelta \/ InputJSONDelta

\* It fills the chunk, and remembers whether there was a tool.
LEMMA ContentEffect ==
  ASSUME ShapeInv, Content
  PROVE  /\ Pulling /\ handler' = "write"
         /\ chunk'.kind \in ContentKinds
         /\ chunk'.kind = "tool_start" => hasToolUse'
         /\ chunk'.kind # "tool_start" => hasToolUse' = hasToolUse
         /\ UNCHANGED <<out, closed, finished>>
         /\ \/ chunk'.role = FirstChunk /\ firstChunkSent'
            \/ ~chunk'.role /\ up = "tool" /\ firstChunkSent' = firstChunkSent
         /\ up' = "tool" => firstChunkSent' \/ up = "tool"
BY DEF Content, ToolBlockStart, ToolBlock, TextDelta, InputJSONDelta, Emit, Text, ToolStart,
       ToolDelta, ContentKinds, translator, FirstChunk, ShapeInv

\* The finish chunk.
Ending == MessageStop \/ EndOfEvents

\* It fills the chunk with what the state says of the whole message.
LEMMA EndingEffect ==
  ASSUME Ending
  PROVE  /\ Pulling /\ handler' = "write" /\ finished' = TRUE
         /\ chunk' = TheFinishChunk /\ chunk'.kind = "finish"
         /\ UNCHANGED <<out, closed, message, firstChunkSent, hasToolUse, toolCallIndex,
                        streamUsage, streamThinkingChars>>
         /\ up' \in {"ended", "cut"}
BY DEF Ending, MessageStop, EndOfEvents, Finish, Emit, TheFinishChunk, FinishChunk

\* These are all the steps there are.
LEMMA Cases ==
  Next <=> Refuse \/ Open \/ WriteChunk \/ WriteDone \/ Quiet \/ Content \/ Ending \/ StreamError
BY DEF Next, Upstream, Quiet, Content, Ending

-----------------------------------------------------------------------------
(* The invariant *)

\* Nothing is pending and nothing is sent at the start.
LEMMA StreamInit == Init => StreamInv
<1>. SUFFICES ASSUME Init PROVE StreamInv
  OBVIOUS
<1>1. out = <<>> /\ chunk.kind = "none" /\ handler = "create" /\ ~finished /\ ~hasToolUse
      /\ ~firstChunkSent
  BY DEF Init, NoChunk
<1>2. \A k : Sent(k) = {}
  BY <1>1 DEF Sent
<1>3. ShapeInv
  <2>1. out \in Seq({})
    BY <1>1
  <2>. QED
    BY <2>1 DEF Init, ShapeInv, NoUsage, Usage
<1>4. PendingInv
  BY <1>1, <1>2 DEF PendingInv
<1>5. FinishInv
  BY <1>1, <1>2 DEF FinishInv
<1>6. UsageInv
  BY DEF Init, UsageInv, NoUsage
<1>7. RoleInv
  BY <1>1, <1>2 DEF Init, RoleInv, RoleOnFirstChunkOnly, Contents, ContentKinds
<1>. QED
  BY <1>3, <1>4, <1>5, <1>6, <1>7 DEF StreamInv

\* The output stays a sequence, and a chunk pending is one of the known kinds.
LEMMA ShapeStep == ShapeInv /\ [Next]_vars => ShapeInv'
<1>. SUFFICES ASSUME ShapeInv, [Next]_vars PROVE ShapeInv'
  OBVIOUS
<1>1. \E S : out' \in Seq(S)
  <2>1. PICK S : out \in Seq(S)
    BY DEF ShapeInv
  <2>2. ASSUME NEW c, out' = Append(out, c) PROVE \E T : out' \in Seq(T)
    BY <2>1, <2>2, AppendOut
  <2>3. WriteChunk \/ WriteDone \/ UNCHANGED out
    BY Cases, QuietEffect, ContentEffect, EndingEffect DEF Refuse, Open, StreamError, vars
  <2>. QED
    BY <2>1, <2>2, <2>3 DEF WriteChunk, WriteDone
<1>2. message' = [content |-> message'.content, stop |-> message'.stop,
                  usage |-> message'.usage, cumulative |-> message'.cumulative]
  BY DEF ShapeInv, vars, upstream, Next, Upstream, Refuse, Open, WriteChunk, WriteDone,
         MessageStart, Begins, BlockStart, Block, Piece, ToolBlockStart, ToolBlock, TextDelta,
         ThinkingDelta, InputJSONDelta, BlockStop, MessageDelta, Closing, MessageStop,
         EndOfEvents, StreamError
<1>3. streamUsage' \in Usage
  <2>1. ASSUME NEW u \in Usages, MessageStart(u) PROVE streamUsage' \in Usage
    <3>1. u.input \in Nat /\ u.create \in Nat /\ u.read \in Nat /\ u.output \in Nat
      BY ConstantsAssumption
    <3>2. Prompt(u) \in Nat /\ Prompt(u) + u.output \in Nat
      BY <3>1 DEF Prompt
    <3>. QED
      BY <2>1, <3>1, <3>2 DEF MessageStart, ShapeInv, Usage
  <2>2. ASSUME NEW stop, NEW u \in Usages, MessageDelta(stop, u) PROVE streamUsage' \in Usage
    <3>1. u.create \in Nat /\ u.read \in Nat /\ u.output \in Nat
      BY ConstantsAssumption
    <3>2. streamUsage.prompt + u.output \in Nat
      BY <3>1 DEF ShapeInv, Usage
    <3>. QED
      BY <2>2, <3>1, <3>2 DEF MessageDelta, ShapeInv, Usage
  <2>3. \/ UNCHANGED streamUsage
        \/ \E u \in Usages : MessageStart(u)
        \/ \E stop \in StopReasons, u \in Usages : MessageDelta(stop, u)
    BY DEF vars, translator, Next, Upstream, Refuse, Open, WriteChunk, WriteDone, BlockStart,
           ToolBlockStart, ToolBlock, TextDelta, ThinkingDelta, InputJSONDelta, BlockStop,
           MessageStop, Finish, EndOfEvents, StreamError
  <2>. QED
    BY <2>1, <2>2, <2>3 DEF ShapeInv
<1>4. finished' \in BOOLEAN /\ hasToolUse' \in BOOLEAN /\ firstChunkSent' \in BOOLEAN
  BY DEF ShapeInv, vars, translator, Next, Upstream, Refuse, Open, WriteChunk, WriteDone,
      MessageStart, Begins, BlockStart, ToolBlockStart, ToolBlock, TextDelta,
      ThinkingDelta, InputJSONDelta, BlockStop, MessageDelta, Closing, MessageStop, Finish,
      EndOfEvents, StreamError
<1>. QED
  BY <1>1, <1>2, <1>3, <1>4 DEF ShapeInv

\* A chunk is pending from the event that makes it to its write.
LEMMA PendingStep ==
  ShapeInv /\ PendingInv /\ FinishInv /\ [Next]_vars => PendingInv'
<1>. SUFFICES ASSUME ShapeInv, PendingInv, FinishInv, [Next]_vars PROVE PendingInv'
  OBVIOUS
<1>1. CASE UNCHANGED vars
  BY <1>1 DEF PendingInv, Sent, vars, translator
<1>2. ASSUME out' = out PROVE Sent("[DONE]")' = Sent("[DONE]")
  BY <1>2 DEF Sent
<1>3. CASE Refuse \/ Open \/ StreamError
  BY <1>2, <1>3 DEF Refuse, Open, StreamError, Pulling, PendingInv, translator
<1>4. CASE WriteChunk
  <2>1. out' = Append(out, chunk) /\ chunk'.kind = "none" /\ handler' = "next" /\ finished' = finished
    BY <1>4 DEF WriteChunk, NoChunk, translator
  <2>2. Sent("[DONE]")' = {}
    BY <1>4, <2>1, SentAppend DEF WriteChunk, PendingInv, ContentKinds
  <2>. QED
    BY <2>1, <2>2 DEF PendingInv
<1>5. CASE WriteDone
  BY <1>5 DEF WriteDone, PendingInv, translator
<1>6. CASE Quiet
  BY <1>2, <1>6, QuietEffect DEF Pulling, PendingInv
<1>7. CASE Content
  BY <1>2, <1>7, ContentEffect DEF Pulling, PendingInv, ContentKinds
<1>8. CASE Ending
  BY <1>2, <1>8, EndingEffect DEF Pulling, PendingInv
<1>. QED
  BY <1>1, <1>3, <1>4, <1>5, <1>6, <1>7, <1>8, Cases

\* While Next is pulling, no finish chunk is there.
LEMMA Unfinished ==
  ASSUME PendingInv, FinishInv, Pulling
  PROVE  ~finished /\ Sent("finish") = {} /\ chunk.kind = "none"
BY DEF Pulling, PendingInv, FinishInv

\* The finish chunk is sent once, last, and says what was sent before.
LEMMA FinishStep ==
  ShapeInv /\ PendingInv /\ FinishInv /\ [Next]_vars => FinishInv'
<1>. SUFFICES ASSUME ShapeInv, PendingInv, FinishInv, [Next]_vars PROVE FinishInv'
  OBVIOUS
<1>1. ASSUME out' = out PROVE \A k : Sent(k)' = Sent(k)
  BY <1>1 DEF Sent
<1>2. CASE UNCHANGED <<translator, chunk, out>>
  <2>1. TheFinishChunk' = TheFinishChunk
    BY <1>2 DEF TheFinishChunk, translator
  <2>. QED
    BY <1>1, <1>2, <2>1 DEF FinishInv, translator
<1>3. CASE WriteChunk
  <2>1. out' = Append(out, chunk) /\ chunk'.kind = "none" /\ UNCHANGED translator
    BY <1>3 DEF WriteChunk, NoChunk
  <2>2. TheFinishChunk' = TheFinishChunk /\ UNCHANGED <<finished, hasToolUse>>
    BY <2>1 DEF TheFinishChunk, translator
  <2>3. \A k : Sent(k)' = Sent(k) \cup (IF chunk.kind = k THEN {Len(out) + 1} ELSE {})
    BY <2>1, SentAppend
  <2>4. \A i \in Sent("finish")' :
          out'[i] = TheFinishChunk /\ \A j \in 1..Len(out') : j > i => out'[j] = DoneMarker
    <3>1. PICK S : out \in Seq(S)
      BY DEF ShapeInv
    <3>2. /\ Len(out) \in Nat /\ Len(out') = Len(out) + 1 /\ out'[Len(out) + 1] = chunk
      BY <2>1, <3>1, AppendOut
    <3>3. Sent("finish")' = {} \/ (Sent("finish")' = {Len(out) + 1} /\ chunk = TheFinishChunk)
      <4>1. CASE chunk.kind = "finish"
        BY <2>3, <4>1 DEF FinishInv
      <4>2. CASE chunk.kind # "finish"
        <5>1. Sent("finish") = {}
          BY <1>3, <4>2 DEF WriteChunk, FinishInv, PendingInv, ContentKinds
        <5>. QED
          BY <2>3, <4>2, <5>1
      <4>. QED
        BY <4>1, <4>2
    <3>. QED
      BY <3>2, <3>3
  <2>. QED
    BY <2>1, <2>2, <2>3, <2>4 DEF FinishInv, ContentKinds
<1>4. CASE WriteDone
  <2>1. out' = Append(out, DoneMarker) /\ chunk' = chunk /\ UNCHANGED translator
    BY <1>4 DEF WriteDone
  <2>2. TheFinishChunk' = TheFinishChunk /\ UNCHANGED <<finished, hasToolUse>>
    BY <2>1 DEF TheFinishChunk, translator
  <2>3. Sent("finish")' = Sent("finish") /\ Sent("tool_start")' = Sent("tool_start")
    <3>1. DoneMarker.kind # "finish" /\ DoneMarker.kind # "tool_start"
      BY DEF DoneMarker
    <3>. QED
      BY <2>1, <3>1, SentAppend
  <2>4. PICK S : out \in Seq(S)
    BY DEF ShapeInv
  <2>5. /\ Len(out) \in Nat /\ Len(out') = Len(out) + 1 /\ out'[Len(out) + 1] = DoneMarker
        /\ \A i \in 1..Len(out) : out'[i] = out[i]
    BY <2>1, <2>4, AppendOut
  <2>6. \A i \in Sent("finish")' :
          out'[i] = TheFinishChunk /\ \A j \in 1..Len(out') : j > i => out'[j] = DoneMarker
    BY <2>3, <2>5, SentIn DEF FinishInv
  <2>. QED
    BY <2>1, <2>2, <2>3, <2>6 DEF FinishInv
<1>5. CASE Quiet
  BY <1>1, <1>5, QuietEffect, Unfinished DEF FinishInv
<1>6. CASE Content
  BY <1>1, <1>6, ContentEffect, Unfinished DEF FinishInv, ContentKinds, ShapeInv
<1>7. CASE Ending
  <2>1. TheFinishChunk' = TheFinishChunk
    BY <1>7, EndingEffect DEF TheFinishChunk
  <2>. QED
    BY <1>1, <1>7, <2>1, EndingEffect, Unfinished DEF FinishInv, ContentKinds
<1>. QED
  BY <1>2, <1>3, <1>4, <1>5, <1>6, <1>7, Cases DEF Refuse, Open, StreamError, vars

\* The counts of a step: set by a message start and a message delta only.
LEMMA UsageStep == ShapeInv /\ UsageInv /\ [Next]_vars => UsageInv'
<1>. SUFFICES ASSUME ShapeInv, UsageInv, [Next]_vars PROVE UsageInv'
  OBVIOUS
<1>1. CASE UNCHANGED <<streamUsage, message>> /\ (up' = up \/ up' = "cut")
  BY <1>1 DEF UsageInv
<1>2. ASSUME NEW u \in Usages, MessageStart(u) PROVE UsageInv'
  BY <1>2 DEF MessageStart, Begins, UsageInv, ShapeInv, Usage
<1>3. ASSUME NEW b \in {"text", "thinking"}, BlockStart(b) PROVE UsageInv'
  BY <1>3 DEF BlockStart, Block, UsageInv, ShapeInv, translator
<1>4. CASE ToolBlockStart
  BY <1>4 DEF ToolBlockStart, ToolBlock, Block, UsageInv, ShapeInv
<1>5. CASE TextDelta \/ ThinkingDelta \/ InputJSONDelta
  BY <1>5 DEF TextDelta, ThinkingDelta, InputJSONDelta, Piece, UsageInv, ShapeInv, translator
<1>6. CASE BlockStop
  BY <1>6 DEF BlockStop, UsageInv, translator
<1>7. ASSUME NEW stop \in StopReasons, NEW u \in Usages, MessageDelta(stop, u) PROVE UsageInv'
  <2>1. up' = "closing" /\ message'.usage.output = u.output
    BY <1>7, ConstantsAssumption DEF MessageDelta, Closing, ShapeInv
  <2>2. /\ streamUsage'.completion = u.output
        /\ streamUsage'.total = streamUsage.prompt + u.output
        /\ streamUsage'.prompt = streamUsage.prompt
    BY <1>7 DEF MessageDelta, ShapeInv, Usage
  <2>. QED
    BY <2>1, <2>2 DEF UsageInv
<1>8. CASE MessageStop
  BY <1>8 DEF MessageStop, Finish, UsageInv
<1>. QED
  BY <1>1, <1>2, <1>3, <1>4, <1>5, <1>6, <1>7, <1>8
  DEF Next, Upstream, Refuse, Open, WriteChunk, WriteDone, EndOfEvents, Finish, StreamError,
      vars, upstream, translator

\* A written chunk joins the contents if it is content.
LEMMA ContentsAppend ==
  ASSUME ShapeInv, NEW c, out' = Append(out, c)
  PROVE  Contents' = Contents \cup (IF c.kind \in ContentKinds THEN {Len(out) + 1} ELSE {})
<1>1. \A k : Sent(k)' = Sent(k) \cup (IF c.kind = k THEN {Len(out) + 1} ELSE {})
  BY SentAppend
<1>. QED
  BY <1>1 DEF Contents, ContentKinds

\* The first content chunk, and only that, says whose the message is.
LEMMA RoleStep ==
  ShapeInv /\ PendingInv /\ RoleInv /\ [Next]_vars => RoleInv'
<1>. SUFFICES ASSUME ShapeInv, PendingInv, RoleInv, [Next]_vars PROVE RoleInv'
  OBVIOUS
<1>1. ASSUME out' = out PROVE Contents' = Contents /\ RoleOnFirstChunkOnly'
  BY <1>1 DEF Contents, Sent, RoleInv, RoleOnFirstChunkOnly
<1>2. CASE UNCHANGED <<firstChunkSent, chunk, out>> /\ (up' = "tool" => up = "tool")
  BY <1>1, <1>2 DEF RoleInv
<1>3. ASSUME NEW c, out' = Append(out, c), UNCHANGED <<firstChunkSent, up>>,
             chunk'.kind = "none", c = chunk \/ c.kind \notin ContentKinds,
             chunk.kind \in ContentKinds => c = chunk
      PROVE  RoleInv'
  <2>1. PICK S : out \in Seq(S)
    BY DEF ShapeInv
  <2>2. /\ Len(out) \in Nat /\ out'[Len(out) + 1] = c
        /\ \A i \in 1..Len(out) : out'[i] = out[i]
    BY <1>3, <2>1, AppendOut
  <2>3. Contents \subseteq 1..Len(out)
    BY SentIn DEF Contents
  <2>4. Contents' = Contents \cup (IF c.kind \in ContentKinds THEN {Len(out) + 1} ELSE {})
    BY <1>3, ContentsAppend
  <2>5. RoleOnFirstChunkOnly'
    <3>1. CASE c.kind \in ContentKinds
      <4>1. Contents' = Contents \cup {Len(out) + 1} /\ (c.role <=> Contents = {})
        BY <1>3, <2>4, <3>1 DEF RoleInv
      <4>2. ASSUME NEW i \in Contents
            PROVE  out'[i].role <=> \A j \in Contents' : i <= j
        BY <2>2, <2>3, <4>1 DEF RoleInv, RoleOnFirstChunkOnly
      <4>3. out'[Len(out) + 1].role <=> \A j \in Contents' : Len(out) + 1 <= j
        BY <2>2, <2>3, <4>1
      <4>. QED
        BY <4>1, <4>2, <4>3 DEF RoleOnFirstChunkOnly
    <3>2. CASE c.kind \notin ContentKinds
      BY <2>2, <2>3, <2>4, <3>2 DEF RoleInv, RoleOnFirstChunkOnly
    <3>. QED
      BY <3>1, <3>2
  <2>. QED
    BY <1>3, <2>4, <2>5 DEF RoleInv, ContentKinds
<1>4. CASE WriteChunk
  BY <1>3, <1>4 DEF WriteChunk, NoChunk, upstream, translator
<1>5. CASE WriteDone
  <2>1. DoneMarker.kind \notin ContentKinds
    BY DEF DoneMarker, ContentKinds
  <2>2. chunk.kind = "none"
    BY <1>5 DEF WriteDone, PendingInv
  <2>. QED
    BY <1>3, <1>5, <2>1, <2>2 DEF WriteDone, upstream, translator, ContentKinds
<1>6. CASE Content
  <2>1. chunk.kind = "none" /\ (firstChunkSent <=> Contents # {})
    BY <1>6, ContentEffect DEF Pulling, PendingInv, RoleInv, ContentKinds
  <2>. QED
    BY <1>1, <1>6, <2>1, ContentEffect DEF RoleInv, FirstChunk
<1>7. CASE Ending
  BY <1>1, <1>7, EndingEffect DEF Pulling, PendingInv, RoleInv, ContentKinds
<1>. QED
  BY <1>2, <1>4, <1>5, <1>6, <1>7, QuietEffect, Cases
  DEF Refuse, Open, StreamError, vars, upstream, translator

\* The strengthened invariant: the translator, the chunk it holds and what the
\* client has seen fit together (anthropic/service.go:116-204).
THEOREM StreamInvariant == Spec => []StreamInv
<1>1. StreamInv /\ [Next]_vars => StreamInv'
  BY ShapeStep, PendingStep, FinishStep, UsageStep, RoleStep DEF StreamInv
<1>. QED
  BY <1>1, StreamInit, PTL DEF Spec

-----------------------------------------------------------------------------
(* What the client can rely on *)

\* The assistant role is on the first content chunk and on no other.
THEOREM OneRole == Spec => []RoleOnFirstChunkOnly
<1>1. StreamInv => RoleOnFirstChunkOnly
  BY DEF StreamInv, RoleInv
<1>. QED
  BY <1>1, StreamInvariant, PTL

\* The one finish chunk tells what was sent and what upstream counted.
THEOREM FinishIsTrue == Spec => []FinishTellsTheTruth
<1>1. ASSUME StreamInv, NEW i \in Sent("finish")
      PROVE  /\ \A j \in 1..Len(out) : j > i => out[j] = DoneMarker
             /\ out[i].reason = "tool_calls" <=> Sent("tool_start") # {}
             /\ out[i].usage.completion \in {0, message.usage.output}
             /\ up = "ended" =>
                  /\ out[i].usage.completion = message.usage.output
                  /\ out[i].usage.total = out[i].usage.prompt + out[i].usage.completion
  <2>1. out[i] = TheFinishChunk /\ \A j \in 1..Len(out) : j > i => out[j] = DoneMarker
    BY <1>1 DEF StreamInv, FinishInv
  <2>2. out[i].usage = streamUsage /\ (out[i].reason = "tool_calls" <=> hasToolUse)
    BY <2>1 DEF TheFinishChunk, FinishChunk
  <2>3. hasToolUse <=> Sent("tool_start") # {}
    BY <1>1 DEF StreamInv, FinishInv, ContentKinds
  <2>. QED
    BY <1>1, <2>1, <2>2, <2>3 DEF StreamInv, UsageInv
<1>2. StreamInv => FinishTellsTheTruth
  BY <1>1 DEF FinishTellsTheTruth
<1>. QED
  BY <1>2, StreamInvariant, PTL

\* ChunkStream implements EventStream: [DONE] only after the finish chunk, and
\* neither after an error.
THEOREM ImplementsEventStream == Spec => KeepsEventStream
<1>1. Init => Events!Init
  BY DEF Init, Phase, Events!Init
<1>2. StreamInv /\ StreamInv' /\ [Next]_vars => [Events!Next]_Phase
  <2>. SUFFICES ASSUME StreamInv, StreamInv', [Next]_vars PROVE Events!Next \/ Phase' = Phase
    OBVIOUS
  <2>. DEFINE Over == Sent("finish") # {} \/ chunk.kind = "finish"
  <2>1. (finished <=> Over) /\ (finished' <=> Over')
    BY DEF StreamInv, FinishInv
  <2>2. CASE UNCHANGED vars
    BY <2>1, <2>2 DEF Phase, vars, translator, Sent
  <2>3. CASE Refuse \/ Open
    BY <2>1, <2>3
    DEF Refuse, Open, translator, Phase, StreamInv, PendingInv,
        Events!Next, Events!Refuse, Events!Open
  <2>4. CASE WriteChunk
    BY <2>1, <2>4 DEF WriteChunk, translator, Phase
  <2>5. CASE WriteDone
    BY <2>1, <2>5 DEF WriteDone, Phase, Events!Next, Events!Done
  <2>6. CASE Quiet
    BY <2>1, <2>6, QuietEffect DEF Phase
  <2>7. CASE Content
    BY <2>1, <2>7, ContentEffect DEF Phase, Pulling, StreamInv
  <2>8. CASE Ending
    BY <2>1, <2>8, EndingEffect DEF Phase, Pulling, Events!Next, Events!Finish
  <2>9. CASE StreamError
    BY <2>1, <2>9 DEF StreamError, Pulling, Phase, Events!Next, Events!Break
  <2>. QED
    BY <2>2, <2>3, <2>4, <2>5, <2>6, <2>7, <2>8, <2>9, Cases
<1>. QED
  BY <1>1, <1>2, StreamInvariant, PTL DEF Spec, KeepsEventStream, Events!Spec

-----------------------------------------------------------------------------
(* The loop of FlattenSeq *)

\* The recursive function inside FlattenSeq,
Flattens(f, ss) == f = [i \in 1..Len(ss) |-> IF i = 1 THEN ss[i] ELSE f[i - 1] \o ss[i]]

\* and what its steps do.
Joining(T) == [p \in Seq(T) \X Seq(T) |-> p[1] \o p[2]]

\* FlattenSeq is a loop that joins one sequence after the other.
LEMMA FlattenRuns ==
  ASSUME NEW T, NEW ss \in Seq(Seq(T))
  PROVE  \E f \in [0..Len(ss) -> Seq(T)] :
           Runs(f, ss, <<>>, Joining(T)) /\ FlattenSeq(ss) = f[Len(ss)]
<1>. DEFINE n == Len(ss)
            J == Joining(T)
<1>1. n \in Nat /\ \A i \in 1..n : ss[i] \in Seq(T)
  BY LenProperties, ElementOfSeq
<1>2. /\ J \in [Seq(T) \X Seq(T) -> Seq(T)]
      /\ \A a, b \in Seq(T) : J[<<a, b>>] = a \o b
      /\ <<>> \in Seq(T) /\ \A a \in Seq(T) : <<>> \o a = a
  BY ConcatProperties, ConcatEmptySeq, EmptySeq DEF Joining
<1>. HIDE DEF J
<1>3. PICK f \in [0..n -> Seq(T)] : Runs(f, ss, <<>>, J)
  BY <1>2, LoopExists
<1>4. CASE n = 0
  <2>1. FlattenSeq(ss) = <<>>
    BY <1>4, EmptySeq DEF FlattenSeq
  <2>. QED
    BY <1>3, <1>4, <2>1 DEF Runs, J
<1>5. CASE n # 0
  <2>. DEFINE h == CHOOSE g : Flattens(g, ss)
  <2>1. \E g : Flattens(g, ss)
    <3>. DEFINE g == [i \in 1..n |-> f[i]]
    <3>1. ASSUME NEW i \in 1..n PROVE g[i] = IF i = 1 THEN ss[i] ELSE g[i - 1] \o ss[i]
      <4>1. f[i] = J[<<f[i - 1], ss[i]>>] /\ f[0] = <<>>
        BY <1>3 DEF Runs
      <4>2. i - 1 \in 0..n /\ (i # 1 => i - 1 \in 1..n) /\ (i = 1 => i - 1 = 0)
        BY <1>1
      <4>3. f[i] = f[i - 1] \o ss[i]
        BY <1>1, <1>2, <4>1, <4>2
      <4>4. CASE i = 1
        <5>1. f[0] \o ss[1] = ss[1] /\ g[1] = f[1]
          BY <1>1, <1>2, <4>1, <4>4
        <5>. QED
          BY <4>2, <4>3, <4>4, <5>1
      <4>5. CASE i # 1
        <5>1. g[i] = f[i] /\ g[i - 1] = f[i - 1]
          BY <4>2, <4>5
        <5>. QED
          BY <4>3, <4>5, <5>1
      <4>. QED
        BY <4>4, <4>5
    <3>2. g = [i \in 1..n |-> g[i]]
      OBVIOUS
    <3>. HIDE DEF g
    <3>3. Flattens(g, ss)
      BY <3>1, <3>2 DEF Flattens
    <3>. QED
      BY <3>3
  <2>2. Flattens(h, ss)
    BY <2>1
  <2>3. FlattenSeq(ss) = h[n]
    BY <1>5 DEF FlattenSeq, Flattens
  <2>. HIDE DEF h
  <2>4. \A i \in 1..n : h[i] = IF i = 1 THEN ss[i] ELSE h[i - 1] \o ss[i]
    BY <2>2 DEF Flattens
  <2>. DEFINE P == {i \in Nat : i >= 1 /\ i <= n => h[i] = f[i]}
  <2>5. 0 \in P
    OBVIOUS
  <2>6. ASSUME NEW i \in Nat, i \in P PROVE i + 1 \in P
    <3>. SUFFICES ASSUME i + 1 <= n PROVE h[i + 1] = f[i + 1]
      OBVIOUS
    <3>1. i + 1 \in 1..n /\ (i + 1) - 1 = i /\ i \in 0..n
      BY <1>1
    <3>2. f[i + 1] = J[<<f[i], ss[i + 1]>>] /\ f[0] = <<>>
      BY <1>3, <3>1 DEF Runs
    <3>3. f[i + 1] = f[i] \o ss[i + 1]
      BY <1>1, <1>2, <3>1, <3>2
    <3>4. CASE i = 0
      BY <1>1, <1>2, <2>4, <3>1, <3>2, <3>3, <3>4
    <3>5. CASE i > 0
      <4>1. h[i] = f[i] /\ i + 1 # 1
        BY <1>1, <2>6, <3>1, <3>5
      <4>2. h[i + 1] = h[i] \o ss[i + 1]
        BY <2>4, <3>1, <4>1
      <4>. QED
        BY <3>3, <4>1, <4>2
    <3>. QED
      BY <3>4, <3>5
  <2>7. Nat \subseteq P
    <3>. HIDE DEF P
    <3>. QED
      BY <2>5, <2>6, NatInductionSet
  <2>8. h[n] = f[n]
    <3>1. n \in P /\ n >= 1 /\ n <= n
      BY <1>1, <1>5, <2>7
    <3>. QED
      BY <3>1
  <2>. QED
    BY <1>3, <2>3, <2>8 DEF J
<1>. QED
  BY <1>4, <1>5

\* One sequence more is one join more.
LEMMA JoinOnce ==
  ASSUME NEW T, NEW ss \in Seq(Seq(T)), NEW s \in Seq(T)
  PROVE  \A f, g : Runs(f, ss, <<>>, Joining(T)) /\ Runs(g, Append(ss, s), <<>>, Joining(T))
                   => g[Len(Append(ss, s))] = Joining(T)[<<f[Len(ss)], s>>]
BY LoopAppend

\* To flatten one sequence more is to append it to what was flattened.
LEMMA FlattenAppend ==
  ASSUME NEW T, NEW ss \in Seq(Seq(T)), NEW s \in Seq(T)
  PROVE  /\ FlattenSeq(ss) \in Seq(T)
         /\ FlattenSeq(Append(ss, s)) = FlattenSeq(ss) \o s
<1>1. Append(ss, s) \in Seq(Seq(T)) /\ Len(ss) \in Nat
  BY AppendProperties, LenProperties
<1>2. PICK f \in [0..Len(ss) -> Seq(T)] :
        Runs(f, ss, <<>>, Joining(T)) /\ FlattenSeq(ss) = f[Len(ss)]
  BY FlattenRuns
<1>3. PICK g : Runs(g, Append(ss, s), <<>>, Joining(T))
               /\ FlattenSeq(Append(ss, s)) = g[Len(Append(ss, s))]
  BY <1>1, FlattenRuns
<1>4. FlattenSeq(Append(ss, s)) = Joining(T)[<<f[Len(ss)], s>>]
  BY <1>2, <1>3, JoinOnce, ZenonT(60)
<1>5. f[Len(ss)] \in Seq(T)
  BY <1>1
<1>. QED
  BY <1>2, <1>4, <1>5 DEF Joining

\* Nothing is flattened to nothing.
LEMMA FlattenEmpty == FlattenSeq(<<>>) = <<>>
BY EmptySeq DEF FlattenSeq

-----------------------------------------------------------------------------
(* Blocks and chunks *)

\* A content block of the message.
BlockSet == [type : {"text", "thinking", "tool"}, id : Nat, pieces : Seq(Nat)]

\* A block more is one more of its type, and of no other.
LEMMA BlocksAppend ==
  ASSUME NEW content \in Seq(BlockSet), NEW b \in BlockSet, NEW type
  PROVE  /\ BlocksOf(content, type) \in Seq(BlockSet)
         /\ BlocksOf(Append(content, b), type) =
              IF b.type = type THEN Append(BlocksOf(content, type), b) ELSE BlocksOf(content, type)
<1>. DEFINE S == [type : {type}, id : Nat, pieces : Seq(Nat)]
<1>1. b \in S <=> b.type = type
  BY DEF BlockSet
<1>. HIDE DEF S
<1>2. Filter(content, S) \in Seq(BlockSet)
  BY FilterType
<1>3. Filter(Append(content, b), S) = IF b \in S THEN Append(Filter(content, S), b) ELSE Filter(content, S)
  BY FilterAppend
<1>. QED
  BY <1>1, <1>2, <1>3 DEF BlocksOf, S

\* A sequence of blocks is what is before the last and the last, and a piece for the
\* last leaves what is before it alone.
LEMMA LastBlock ==
  ASSUME NEW content \in Seq(BlockSet), content # <<>>, NEW x \in Nat
  PROVE  \E front \in Seq(BlockSet), b \in BlockSet :
           /\ content = Append(front, b) /\ b = content[Len(content)]
           /\ [content EXCEPT ![Len(content)].pieces = Append(@, x)] =
                Append(front, [b EXCEPT !.pieces = Append(@, x)])
           /\ [b EXCEPT !.pieces = Append(@, x)] \in BlockSet
<1>. DEFINE n == Len(content)
            front == SubSeq(content, 1, n - 1)
            b == content[n]
            c == [b EXCEPT !.pieces = Append(@, x)]
<1>1. n \in Nat /\ n > 0 /\ n - 1 \in 0..n /\ (n - 1) + 1 = n
  BY EmptySeq, LenProperties
<1>2. b \in BlockSet
  BY <1>1, ElementOfSeq
<1>3. c \in BlockSet
  BY <1>2, AppendProperties DEF BlockSet
<1>. HIDE DEF c, b
<1>4. /\ front \in Seq(BlockSet) /\ Len(front) = n - 1
      /\ \A i \in 1..(n - 1) : front[i] = content[i]
  BY <1>1
<1>8. Len(front) + 1 = n
  BY <1>1, <1>4
<1>. HIDE DEF front
<1>5. \A e \in BlockSet :
        /\ Append(front, e) \in Seq(BlockSet) /\ Len(Append(front, e)) = n
        /\ Append(front, e)[n] = e
        /\ \A i \in 1..(n - 1) : Append(front, e)[i] = content[i]
  <2>. SUFFICES ASSUME NEW e \in BlockSet
                PROVE  /\ Append(front, e) \in Seq(BlockSet) /\ Len(Append(front, e)) = n
                       /\ Append(front, e)[n] = e
                       /\ \A i \in 1..(n - 1) : Append(front, e)[i] = content[i]
    OBVIOUS
  <2>. HIDE DEF n
  <2>1. /\ Append(front, e) \in Seq(BlockSet)
        /\ Len(Append(front, e)) = Len(front) + 1
        /\ Append(front, e)[Len(front) + 1] = e
        /\ \A i \in 1..Len(front) : Append(front, e)[i] = front[i]
    BY <1>4, AppendProperties
  <2>. QED
    BY <1>4, <1>8, <2>1
<1>9. \A i \in 1..n : i \in 1..(n - 1) \/ i = n
  <2>1. \A k \in Nat : \A i \in 1..k : i \in 1..(k - 1) \/ i = k
    OBVIOUS
  <2>. HIDE DEF n
  <2>. QED
    BY <1>1, <2>1
<1>6. content = Append(front, b)
  <2>1. \A i \in 1..n : content[i] = Append(front, b)[i]
    BY <1>2, <1>5, <1>9 DEF b
  <2>2. Append(front, b) \in Seq(BlockSet) /\ Len(Append(front, b)) = Len(content)
    BY <1>2, <1>5
  <2>. QED
    BY <2>1, <2>2, SeqEqual
<1>7. [content EXCEPT ![n] = c] = Append(front, c)
  <2>1. \A i \in 1..n : [content EXCEPT ![n] = c][i] = Append(front, c)[i]
    <3>1. \A i \in 1..n : i \in DOMAIN content
      BY LenProperties
    <3>2. /\ [content EXCEPT ![n] = c][n] = c
          /\ \A i \in 1..(n - 1) : [content EXCEPT ![n] = c][i] = content[i]
      <4>1. n \in 1..n /\ \A i \in 1..(n - 1) : i \in 1..n /\ i # n
        <5>1. \A k \in Nat : k > 0 => k \in 1..k /\ \A i \in 1..(k - 1) : i \in 1..k /\ i # k
          OBVIOUS
        <5>. HIDE DEF n
        <5>. QED
          BY <1>1, <5>1
      <4>. HIDE DEF n
      <4>. QED
        BY <3>1, <4>1
    <3>. QED
      BY <1>3, <1>5, <1>9, <3>2
  <2>2. [content EXCEPT ![n] = c] \in Seq(BlockSet) /\ Len([content EXCEPT ![n] = c]) = n
    BY <1>1, <1>3, ExceptSeq
  <2>3. Append(front, c) \in Seq(BlockSet) /\ Len(Append(front, c)) = n
    BY <1>3, <1>5
  <2>. QED
    BY <2>1, <2>2, <2>3, SeqEqual
<1>. QED
  BY <1>2, <1>3, <1>4, <1>6, <1>7 DEF b, c

\* The pieces of a block more come after those of the others.
LEMMA PiecesAppend ==
  ASSUME NEW blocks \in Seq(BlockSet), NEW b \in BlockSet
  PROVE  /\ Pieces(blocks) \in Seq(Nat)
         /\ Pieces(Append(blocks, b)) = Pieces(blocks) \o b.pieces
<1>. DEFINE P(bs) == [i \in DOMAIN bs |-> bs[i].pieces]
<1>1. \A e \in BlockSet : e.pieces \in Seq(Nat)
  BY DEF BlockSet
<1>2. P(blocks) \in Seq(Seq(Nat)) /\ Len(P(blocks)) = Len(blocks)
      /\ \A i \in 1..Len(blocks) : P(blocks)[i] = blocks[i].pieces
  <2>1. DOMAIN blocks = 1..Len(blocks) /\ Len(blocks) \in Nat
    BY LenProperties
  <2>2. P(blocks) \in [1..Len(blocks) -> Seq(Nat)]
    BY <1>1, <2>1, ElementOfSeq
  <2>. QED
    BY <2>1, <2>2
<1>3. /\ Append(blocks, b) \in Seq(BlockSet) /\ Len(Append(blocks, b)) = Len(blocks) + 1
      /\ Append(blocks, b)[Len(blocks) + 1] = b
      /\ \A i \in 1..Len(blocks) : Append(blocks, b)[i] = blocks[i]
      /\ Len(blocks) \in Nat
  BY AppendProperties, LenProperties
<1>4. P(Append(blocks, b)) = Append(P(blocks), b.pieces)
  <2>1. DOMAIN Append(blocks, b) = 1..(Len(blocks) + 1)
    BY <1>3, LenProperties
  <2>2. P(Append(blocks, b)) \in Seq(Seq(Nat)) /\ Len(P(Append(blocks, b))) = Len(blocks) + 1
    <3>1. P(Append(blocks, b)) \in [1..(Len(blocks) + 1) -> Seq(Nat)]
      BY <1>1, <1>3, <2>1, ElementOfSeq
    <3>. QED
      BY <1>3, <3>1
  <2>3. /\ Append(P(blocks), b.pieces) \in Seq(Seq(Nat))
        /\ Len(Append(P(blocks), b.pieces)) = Len(blocks) + 1
        /\ Append(P(blocks), b.pieces)[Len(blocks) + 1] = b.pieces
        /\ \A i \in 1..Len(blocks) : Append(P(blocks), b.pieces)[i] = blocks[i].pieces
    BY <1>1, <1>2, <1>3, AppendProperties
  <2>4. \A i \in 1..(Len(blocks) + 1) : P(Append(blocks, b))[i] = Append(P(blocks), b.pieces)[i]
    BY <1>3, <2>1, <2>3
  <2>. HIDE DEF P
  <2>. QED
    BY <2>2, <2>3, <2>4, SeqEqual
<1>5. Pieces(blocks) = FlattenSeq(P(blocks)) /\ Pieces(Append(blocks, b)) = FlattenSeq(P(Append(blocks, b)))
  BY DEF Pieces
<1>. HIDE DEF P
<1>6. b.pieces \in Seq(Nat)
  BY <1>1
<1>7. /\ FlattenSeq(P(blocks)) \in Seq(Nat)
      /\ FlattenSeq(Append(P(blocks), b.pieces)) = FlattenSeq(P(blocks)) \o b.pieces
  BY <1>2, <1>6, FlattenAppend
<1>. QED
  BY <1>4, <1>5, <1>7

\* The piece of a chunk more comes after those of the others.
LEMMA PiecesOfAppend ==
  ASSUME NEW C, NEW cs \in Seq(C), NEW c \in C, \A d \in C : d.piece \in Nat
  PROVE  /\ PiecesOf(cs) \in Seq(Nat)
         /\ PiecesOf(Append(cs, c)) = Append(PiecesOf(cs), c.piece)
<1>1. /\ Append(cs, c) \in Seq(C) /\ Len(Append(cs, c)) = Len(cs) + 1
      /\ Append(cs, c)[Len(cs) + 1] = c
      /\ \A i \in 1..Len(cs) : Append(cs, c)[i] = cs[i]
      /\ Len(cs) \in Nat
  BY AppendProperties, LenProperties
<1>2. \A ds \in Seq(C) : /\ PiecesOf(ds) \in Seq(Nat) /\ Len(PiecesOf(ds)) = Len(ds)
                         /\ \A i \in 1..Len(ds) : PiecesOf(ds)[i] = ds[i].piece
  <2>. SUFFICES ASSUME NEW ds \in Seq(C)
                PROVE  /\ PiecesOf(ds) \in Seq(Nat) /\ Len(PiecesOf(ds)) = Len(ds)
                       /\ \A i \in 1..Len(ds) : PiecesOf(ds)[i] = ds[i].piece
    OBVIOUS
  <2>1. DOMAIN ds = 1..Len(ds) /\ Len(ds) \in Nat
    BY LenProperties
  <2>2. PiecesOf(ds) \in [1..Len(ds) -> Nat]
    BY <2>1, ElementOfSeq DEF PiecesOf
  <2>. QED
    BY <2>1, <2>2 DEF PiecesOf
<1>3. /\ Append(PiecesOf(cs), c.piece) \in Seq(Nat)
      /\ Len(Append(PiecesOf(cs), c.piece)) = Len(cs) + 1
      /\ Append(PiecesOf(cs), c.piece)[Len(cs) + 1] = c.piece
      /\ \A i \in 1..Len(cs) : Append(PiecesOf(cs), c.piece)[i] = cs[i].piece
  <2>1. c.piece \in Nat /\ PiecesOf(cs) \in Seq(Nat)
    BY <1>2
  <2>. QED
    BY <1>1, <1>2, <2>1, AppendProperties
<1>4. \A i \in 1..(Len(cs) + 1) : PiecesOf(Append(cs, c))[i] = Append(PiecesOf(cs), c.piece)[i]
  <2>1. \A i \in 1..(Len(cs) + 1) : i \in 1..Len(cs) \/ i = Len(cs) + 1
    BY <1>1
  <2>2. \A i \in 1..(Len(cs) + 1) : PiecesOf(Append(cs, c))[i] = Append(cs, c)[i].piece
    BY <1>1, <1>2
  <2>. QED
    BY <1>1, <1>3, <2>1, <2>2
<1>5. PiecesOf(Append(cs, c)) \in Seq(Nat) /\ Len(PiecesOf(Append(cs, c))) = Len(cs) + 1
  BY <1>1, <1>2
<1>. QED
  BY <1>2, <1>3, <1>4, <1>5, SeqEqual

-----------------------------------------------------------------------------
(* What the client has, or is about to have *)

\* A sequence over some elements is one over more.
LEMMA Wider ==
  ASSUME NEW T, NEW s \in Seq(T), NEW c
  PROVE  s \in Seq(T \cup {c})
<1>1. PICK n \in Nat : s \in [1..n -> T]
  BY SeqDef
<1>2. s \in [1..n -> T \cup {c}]
  BY <1>1
<1>. QED
  BY <1>2, SeqDef

\* A chunk more adds its piece to the chunks of its kind and index,
LEMMA ChunkAppend ==
  ASSUME NEW T, NEW seen \in Seq(T), NEW c \in Chunks(ContentKinds, Int),
         NEW S, S \subseteq Chunks(ContentKinds, Int)
  PROVE  /\ Filter(seen, S) \in Seq(S)
         /\ PiecesOf(Filter(seen, S)) \in Seq(Nat)
         /\ c \in S =>
              /\ Filter(Append(seen, c), S) = Append(Filter(seen, S), c)
              /\ PiecesOf(Filter(Append(seen, c), S)) = Append(PiecesOf(Filter(seen, S)), c.piece)
         /\ c \notin S => Filter(Append(seen, c), S) = Filter(seen, S)
<1>. DEFINE before == Filter(seen, S)
            after  == Filter(Append(seen, c), S)
<1>2. \A d \in S : d.piece \in Nat
  BY DEF Chunks
<1>3. seen \in Seq(T \cup {c})
  BY Wider
<1>4. before \in Seq((T \cup {c}) \cap S)
  BY <1>3, FilterType
<1>5. before \in Seq(S)
  <2>1. PICK n \in Nat : before \in [1..n -> (T \cup {c}) \cap S]
    BY <1>4, SeqDef
  <2>2. before \in [1..n -> S]
    BY <2>1
  <2>. QED
    BY <2>2, SeqDef
<1>6. after = IF c \in S THEN Append(before, c) ELSE before
  <2>1. c \in T \cup {c}
    OBVIOUS
  <2>. QED
    BY <1>3, <2>1, FilterAppend
<1>. HIDE DEF before, after
<1>7. PiecesOf(before) \in Seq(Nat)
  <2>1. DOMAIN before = 1..Len(before) /\ Len(before) \in Nat
    BY <1>5, LenProperties
  <2>2. PiecesOf(before) \in [1..Len(before) -> Nat]
    BY <1>2, <1>5, <2>1, ElementOfSeq DEF PiecesOf
  <2>. QED
    BY <2>1, <2>2
<1>8. c \in S => PiecesOf(after) = Append(PiecesOf(before), c.piece)
  BY <1>2, <1>5, <1>6, PiecesOfAppend
<1>. QED
  BY <1>5, <1>6, <1>7, <1>8 DEF before, after

\* and the finish chunk and [DONE] add nothing.
LEMMA MarkerAppend ==
  ASSUME NEW T, NEW seen \in Seq(T), NEW c, c.kind \notin ContentKinds, NEW kind \in ContentKinds, NEW I
  PROVE  Filter(Append(seen, c), Chunks({kind}, I)) = Filter(seen, Chunks({kind}, I))
<1>1. c \notin Chunks({kind}, I)
  BY DEF Chunks
<1>2. seen \in Seq(T \cup {c}) /\ c \in T \cup {c}
  BY Wider
<1>. QED
  BY <1>1, <1>2, FilterAppend

\* What the client puts together from the chunks it has seen: the text, the starts
\* of the tool calls and the arguments of the k-th call.
TextOf(seen)      == PiecesOf(Filter(seen, Chunks({"text"}, Int)))
StartsOf(seen)    == Filter(seen, Chunks({"tool_start"}, Int))
ArgsOf(seen, k)   == PiecesOf(Filter(seen, Chunks({"tool_delta"}, {k})))

\* The effect of a chunk on these.
LEMMA ChunkEffect ==
  ASSUME NEW T, NEW seen \in Seq(T), NEW c \in Chunks(ContentKinds, Int)
  PROVE  /\ TextOf(seen) \in Seq(Nat) /\ StartsOf(seen) \in Seq(Chunks({"tool_start"}, Int))
         /\ TextOf(Append(seen, c)) =
              IF c.kind = "text" THEN Append(TextOf(seen), c.piece) ELSE TextOf(seen)
         /\ StartsOf(Append(seen, c)) =
              IF c.kind = "tool_start" THEN Append(StartsOf(seen), c) ELSE StartsOf(seen)
         /\ \A k \in Int :
              /\ ArgsOf(seen, k) \in Seq(Nat)
              /\ ArgsOf(Append(seen, c), k) =
                   IF c.kind = "tool_delta" /\ c.index = k
                   THEN Append(ArgsOf(seen, k), c.piece) ELSE ArgsOf(seen, k)
<1>1. c.index \in Int /\ c.kind \in ContentKinds
  BY DEF Chunks
<1>2. /\ TextOf(seen) \in Seq(Nat)
      /\ TextOf(Append(seen, c)) =
              IF c.kind = "text" THEN Append(TextOf(seen), c.piece) ELSE TextOf(seen)
  <2>. DEFINE S == Chunks({"text"}, Int)
  <2>1. S \subseteq Chunks(ContentKinds, Int) /\ (c \in S <=> c.kind = "text")
    BY DEF Chunks, ContentKinds
  <2>. HIDE DEF S
  <2>2. /\ PiecesOf(Filter(seen, S)) \in Seq(Nat)
        /\ c \in S => PiecesOf(Filter(Append(seen, c), S)) = Append(PiecesOf(Filter(seen, S)), c.piece)
        /\ c \notin S => Filter(Append(seen, c), S) = Filter(seen, S)
    BY <2>1, ChunkAppend
  <2>. QED
    BY <2>1, <2>2 DEF TextOf, S
<1>3. /\ StartsOf(seen) \in Seq(Chunks({"tool_start"}, Int))
      /\ StartsOf(Append(seen, c)) =
              IF c.kind = "tool_start" THEN Append(StartsOf(seen), c) ELSE StartsOf(seen)
  <2>. DEFINE S == Chunks({"tool_start"}, Int)
  <2>1. S \subseteq Chunks(ContentKinds, Int) /\ (c \in S <=> c.kind = "tool_start")
    BY DEF Chunks, ContentKinds
  <2>. HIDE DEF S
  <2>2. /\ Filter(seen, S) \in Seq(S)
        /\ c \in S => Filter(Append(seen, c), S) = Append(Filter(seen, S), c)
        /\ c \notin S => Filter(Append(seen, c), S) = Filter(seen, S)
    BY <2>1, ChunkAppend
  <2>. QED
    BY <2>1, <2>2 DEF StartsOf, S
<1>4. ASSUME NEW k \in Int
      PROVE  /\ ArgsOf(seen, k) \in Seq(Nat)
             /\ ArgsOf(Append(seen, c), k) =
                   IF c.kind = "tool_delta" /\ c.index = k
                   THEN Append(ArgsOf(seen, k), c.piece) ELSE ArgsOf(seen, k)
  <2>. DEFINE S == Chunks({"tool_delta"}, {k})
  <2>1. S \subseteq Chunks(ContentKinds, Int)
    BY DEF Chunks, ContentKinds
  <2>2. c \in S <=> c.kind = "tool_delta" /\ c.index = k
    BY DEF Chunks, ContentKinds
  <2>. HIDE DEF S
  <2>3. /\ PiecesOf(Filter(seen, S)) \in Seq(Nat)
        /\ c \in S => PiecesOf(Filter(Append(seen, c), S)) = Append(PiecesOf(Filter(seen, S)), c.piece)
        /\ c \notin S => Filter(Append(seen, c), S) = Filter(seen, S)
    BY <2>1, ChunkAppend
  <2>. QED
    BY <2>2, <2>3 DEF ArgsOf, S
<1>. QED
  BY <1>2, <1>3, <1>4

\* The finish chunk and [DONE] have no effect on them.
LEMMA MarkerEffect ==
  ASSUME NEW T, NEW seen \in Seq(T), NEW c, c.kind \notin ContentKinds
  PROVE  /\ TextOf(Append(seen, c)) = TextOf(seen)
         /\ StartsOf(Append(seen, c)) = StartsOf(seen)
         /\ \A k : ArgsOf(Append(seen, c), k) = ArgsOf(seen, k)
BY MarkerAppend DEF TextOf, StartsOf, ArgsOf, ContentKinds

-----------------------------------------------------------------------------
(* What a piece does to the message, and that the chunk made of it does the  *)
(* same to what the client puts together                                     *)

\* To append to the second part of a concatenation is to append to the whole.
LEMMA AppendToConcat ==
  ASSUME NEW T
  PROVE  \A s, t \in Seq(T), x \in T :
           s \o t \in Seq(T) /\ s \o Append(t, x) = Append(s \o t, x)
<1>. SUFFICES ASSUME NEW s \in Seq(T), NEW t \in Seq(T), NEW x \in T
              PROVE  s \o t \in Seq(T) /\ s \o Append(t, x) = Append(s \o t, x)
  OBVIOUS
<1>. DEFINE n == Len(s) + Len(t)
<1>1. /\ s \o t \in Seq(T) /\ Len(s \o t) = n
      /\ \A i \in 1..n : (s \o t)[i] = IF i <= Len(s) THEN s[i] ELSE t[i - Len(s)]
      /\ Len(s) \in Nat /\ Len(t) \in Nat
  BY ConcatProperties, LenProperties
<1>2. /\ Append(t, x) \in Seq(T) /\ Len(Append(t, x)) = Len(t) + 1
      /\ Append(t, x)[Len(t) + 1] = x /\ \A i \in 1..Len(t) : Append(t, x)[i] = t[i]
  BY AppendProperties
<1>3. /\ s \o Append(t, x) \in Seq(T) /\ Len(s \o Append(t, x)) = n + 1
      /\ \A i \in 1..(n + 1) : (s \o Append(t, x))[i] =
           IF i <= Len(s) THEN s[i] ELSE Append(t, x)[i - Len(s)]
  BY <1>1, <1>2, ConcatProperties
<1>4. /\ Append(s \o t, x) \in Seq(T) /\ Len(Append(s \o t, x)) = n + 1
      /\ Append(s \o t, x)[n + 1] = x
      /\ \A i \in 1..n : Append(s \o t, x)[i] = (s \o t)[i]
  BY <1>1, AppendProperties
<1>5. ASSUME NEW i \in 1..(n + 1) PROVE (s \o Append(t, x))[i] = Append(s \o t, x)[i]
  <2>1. CASE i = n + 1
    <3>1. ~(i <= Len(s)) /\ i - Len(s) = Len(t) + 1
      BY <1>1, <2>1
    <3>. QED
      BY <1>2, <1>3, <1>4, <2>1, <3>1
  <2>2. CASE i # n + 1
    <3>1. i \in 1..n /\ (~(i <= Len(s)) => i - Len(s) \in 1..Len(t))
      BY <1>1, <2>2
    <3>. QED
      BY <1>1, <1>2, <1>3, <1>4, <3>1
  <2>. QED
    BY <2>1, <2>2
<1>. QED
  BY <1>1, <1>3, <1>4, <1>5, SeqEqual

\* One piece more. (An operator of its own, since the provers take an Append that
\* they can see apart.)
Added(pieces, x) == Append(pieces, x)
\* The message with a piece more in its last block.
WithPiece(content, x) == [content EXCEPT ![Len(content)].pieces = Append(@, x)]

\* A piece goes to the last block, and so to the last block of its type.
LEMMA PieceEffect ==
  ASSUME NEW content \in Seq(BlockSet), content # <<>>, NEW x \in Nat,
         NEW type, type = content[Len(content)].type
  PROVE  /\ WithPiece(content, x) \in Seq(BlockSet) /\ WithPiece(content, x) # <<>>
         /\ WithPiece(content, x)[Len(WithPiece(content, x))].type = type
         /\ \A other : other # type => BlocksOf(WithPiece(content, x), other) = BlocksOf(content, other)
         /\ \E front \in Seq(BlockSet), b \in BlockSet, c \in BlockSet :
              /\ BlocksOf(content, type) = Append(front, b)
              /\ BlocksOf(WithPiece(content, x), type) = Append(front, c)
              /\ c.id = b.id /\ c.pieces = Added(b.pieces, x)
<1>. DEFINE more == WithPiece(content, x)
<1>1. PICK front \in Seq(BlockSet), b \in BlockSet :
        /\ content = Append(front, b) /\ b = content[Len(content)]
        /\ more = Append(front, [b EXCEPT !.pieces = Append(@, x)])
        /\ [b EXCEPT !.pieces = Append(@, x)] \in BlockSet
  BY LastBlock DEF WithPiece
<1>. DEFINE c == [b EXCEPT !.pieces = Append(@, x)]
            F(other) == BlocksOf(front, other)
<1>2. c.type = type /\ b.type = type /\ c.id = b.id /\ c.pieces = Append(b.pieces, x)
      /\ c \in BlockSet
  BY <1>1 DEF BlockSet
<1>. HIDE DEF more, c
<1>3. more = Append(front, c)
  BY <1>1 DEF c
<1>4. \A other : BlocksOf(content, other) = IF type = other THEN Append(F(other), b) ELSE F(other)
  <2>1. \A other : BlocksOf(Append(front, b), other) =
                     IF b.type = other THEN Append(F(other), b) ELSE F(other)
    BY BlocksAppend
  <2>. QED
    BY <1>1, <1>2, <2>1, Zenon
<1>5. \A other : BlocksOf(more, other) = IF type = other THEN Append(F(other), c) ELSE F(other)
  BY <1>2, <1>3, BlocksAppend
<1>6. F(type) \in Seq(BlockSet)
  BY BlocksAppend
<1>7. more \in Seq(BlockSet) /\ more # <<>> /\ more[Len(more)] = c
  BY <1>2, <1>3, AppendProperties, EmptySeq
<1>8. BlocksOf(content, type) = Append(F(type), b) /\ BlocksOf(more, type) = Append(F(type), c)
  BY <1>4, <1>5
<1>9. \A other : other # type => BlocksOf(more, other) = BlocksOf(content, other)
  BY <1>4, <1>5
<1>. HIDE DEF F
<1>. QED
  BY <1>2, <1>6, <1>7, <1>8, <1>9 DEF more, Added

\* The pieces of its type are one more.
LEMMA PiecesEffect ==
  ASSUME NEW content \in Seq(BlockSet), content # <<>>, NEW x \in Nat,
         NEW type, type = content[Len(content)].type
  PROVE  /\ Pieces(BlocksOf(content, type)) \in Seq(Nat)
         /\ Pieces(BlocksOf(WithPiece(content, x), type)) = Added(Pieces(BlocksOf(content, type)), x)
<1>1. PICK front \in Seq(BlockSet), b \in BlockSet, c \in BlockSet :
        /\ BlocksOf(content, type) = Append(front, b)
        /\ BlocksOf(WithPiece(content, x), type) = Append(front, c)
        /\ c.id = b.id /\ c.pieces = Added(b.pieces, x)
  BY PieceEffect
<1>2. /\ Pieces(Append(front, b)) = Pieces(front) \o b.pieces
      /\ Pieces(Append(front, c)) = Pieces(front) \o c.pieces
      /\ Pieces(front) \in Seq(Nat)
  BY PiecesAppend
<1>3. b.pieces \in Seq(Nat)
  BY DEF BlockSet
<1>4. \A s, t \in Seq(Nat), y \in Nat : s \o t \in Seq(Nat) /\ s \o Append(t, y) = Append(s \o t, y)
  BY AppendToConcat
<1>5. /\ Pieces(front) \o b.pieces \in Seq(Nat)
      /\ Pieces(front) \o c.pieces = Append(Pieces(front) \o b.pieces, x)
  BY <1>1, <1>2, <1>3, <1>4, ZenonT(60) DEF Added
<1>. QED
  BY <1>1, <1>2, <1>5 DEF Added

\* The first n tool calls, their arguments and the text that the client has seen are
\* those of the blocks.
Agrees(seen, content, n) ==
  /\ TextOf(seen) = Pieces(BlocksOf(content, "text"))
  /\ Len(BlocksOf(content, "tool")) = n /\ Len(StartsOf(seen)) = n
  /\ \A t \in 1..n : /\ StartsOf(seen)[t].index = t - 1
                     /\ StartsOf(seen)[t].piece = BlocksOf(content, "tool")[t].id
                     /\ ArgsOf(seen, t - 1) = BlocksOf(content, "tool")[t].pieces
  /\ \A k \in Nat : k >= n => ArgsOf(seen, k) = <<>>

\* A text or thinking block begins without a chunk (service.go:147-166).
LEMMA SilentBlock ==
  ASSUME NEW seen, NEW content \in Seq(BlockSet), NEW n \in Nat, Agrees(seen, content, n),
         NEW b \in BlockSet, b.type # "tool", b.pieces = <<>>
  PROVE  Agrees(seen, Append(content, b), n)
<1>1. BlocksOf(Append(content, b), "tool") = BlocksOf(content, "tool")
  BY BlocksAppend
<1>2. /\ BlocksOf(content, "text") \in Seq(BlockSet)
      /\ \/ BlocksOf(Append(content, b), "text") = BlocksOf(content, "text")
         \/ BlocksOf(Append(content, b), "text") = Append(BlocksOf(content, "text"), b)
  BY BlocksAppend
<1>3. /\ Pieces(BlocksOf(content, "text")) \in Seq(Nat)
      /\ Pieces(Append(BlocksOf(content, "text"), b)) = Pieces(BlocksOf(content, "text")) \o b.pieces
  BY <1>2, PiecesAppend
<1>4. Pieces(BlocksOf(content, "text")) \o b.pieces = Pieces(BlocksOf(content, "text"))
  BY <1>3, ConcatEmptySeq
<1>5. Pieces(BlocksOf(Append(content, b), "text")) = Pieces(BlocksOf(content, "text"))
  BY <1>2, <1>3, <1>4
<1>. QED
  BY <1>1, <1>5 DEF Agrees

\* A tool block begins with a chunk that has the next index and its id.
LEMMA ToolBegins ==
  ASSUME NEW T, NEW seen \in Seq(T), NEW content \in Seq(BlockSet), NEW n \in Nat,
         Agrees(seen, content, n), NEW b \in BlockSet, b.type = "tool", b.pieces = <<>>,
         NEW role \in BOOLEAN
  PROVE  Agrees(Append(seen, ToolStart(role, n, b.id)), Append(content, b), n + 1)
<1>. DEFINE c == ToolStart(role, n, b.id)
            after == Append(seen, c)
            blocks == Append(content, b)
            tools == BlocksOf(content, "tool")
            starts == StartsOf(seen)
<1>1. c \in Chunks(ContentKinds, Int) /\ c.kind = "tool_start" /\ c.index = n /\ c.piece = b.id
      /\ c \in Chunks({"tool_start"}, Int)
  BY DEF ToolStart, Chunks, BlockSet, ContentKinds
<1>. HIDE DEF c
<1>2. /\ TextOf(after) = TextOf(seen)
      /\ starts \in Seq(Chunks({"tool_start"}, Int))
      /\ StartsOf(after) = Append(starts, c)
      /\ \A k \in Int : ArgsOf(after, k) = ArgsOf(seen, k)
  BY <1>1, ChunkEffect, ZenonT(60)
<1>3. /\ BlocksOf(blocks, "text") = BlocksOf(content, "text")
      /\ tools \in Seq(BlockSet)
      /\ BlocksOf(blocks, "tool") = Append(tools, b)
  BY BlocksAppend
<1>. HIDE DEF after, blocks
<1>4. Len(tools) = n /\ Len(starts) = n
  BY DEF Agrees
<1>5. /\ Len(Append(tools, b)) = n + 1 /\ Append(tools, b)[n + 1] = b
      /\ \A t \in 1..n : Append(tools, b)[t] = tools[t]
  BY <1>3, <1>4, AppendProperties
<1>6. /\ Len(Append(starts, c)) = n + 1 /\ Append(starts, c)[n + 1] = c
      /\ \A t \in 1..n : Append(starts, c)[t] = starts[t]
  BY <1>1, <1>2, <1>4, AppendProperties
<1>. HIDE DEF tools, starts
<1>7. ASSUME NEW t \in 1..(n + 1)
      PROVE  /\ StartsOf(after)[t].index = t - 1
             /\ StartsOf(after)[t].piece = BlocksOf(blocks, "tool")[t].id
             /\ ArgsOf(after, t - 1) = BlocksOf(blocks, "tool")[t].pieces
  <2>1. CASE t \in 1..n
    <3>1. starts[t].index = t - 1 /\ starts[t].piece = tools[t].id /\ ArgsOf(seen, t - 1) = tools[t].pieces
      BY <2>1 DEF Agrees, tools, starts
    <3>2. StartsOf(after)[t] = starts[t] /\ BlocksOf(blocks, "tool")[t] = tools[t]
      BY <1>2, <1>3, <1>5, <1>6, <2>1
    <3>3. ArgsOf(after, t - 1) = ArgsOf(seen, t - 1)
      BY <1>2
    <3>. QED
      BY <3>1, <3>2, <3>3
  <2>2. CASE t = n + 1
    <3>1. t - 1 = n /\ ArgsOf(seen, n) = <<>>
      BY <2>2 DEF Agrees
    <3>. QED
      BY <1>1, <1>2, <1>3, <1>5, <1>6, <2>2, <3>1
  <2>. QED
    BY <2>1, <2>2
<1>8. \A k \in Nat : k >= n + 1 => ArgsOf(after, k) = <<>>
  BY <1>2 DEF Agrees
<1>9. TextOf(after) = Pieces(BlocksOf(blocks, "text"))
  BY <1>2, <1>3 DEF Agrees
<1>10. Len(BlocksOf(blocks, "tool")) = n + 1 /\ Len(StartsOf(after)) = n + 1
  BY <1>2, <1>3, <1>5, <1>6
<1>11. Agrees(after, blocks, n + 1)
  BY <1>7, <1>8, <1>9, <1>10 DEF Agrees
<1>. QED
  BY <1>11 DEF after, blocks, c

\* A piece of text is in the message and in a chunk.
LEMMA TextGoesOn ==
  ASSUME NEW T, NEW seen \in Seq(T), NEW content \in Seq(BlockSet), NEW n \in Nat,
         Agrees(seen, content, n), content # <<>>, content[Len(content)].type = "text",
         NEW role \in BOOLEAN, NEW x \in Nat
  PROVE  Agrees(Append(seen, Text(role, x)),
                WithPiece(content, x), n)
<1>. DEFINE c == Text(role, x)
            after == Append(seen, c)
            more == WithPiece(content, x)
<1>1. c \in Chunks(ContentKinds, Int) /\ c.kind = "text" /\ c.piece = x
  BY DEF Text, Chunks, ContentKinds
<1>. HIDE DEF c
<1>2. /\ TextOf(after) = Append(TextOf(seen), x)
      /\ StartsOf(after) = StartsOf(seen)
      /\ \A k \in Int : ArgsOf(after, k) = ArgsOf(seen, k)
  BY <1>1, ChunkEffect
<1>3. BlocksOf(more, "tool") = BlocksOf(content, "tool")
  BY PieceEffect
<1>5. Pieces(BlocksOf(more, "text")) = Added(Pieces(BlocksOf(content, "text")), x)
  BY PiecesEffect
<1>. HIDE DEF after, more
<1>4. Agrees(after, more, n)
  BY <1>2, <1>3, <1>5 DEF Agrees, Added
<1>. QED
  BY <1>4 DEF after, more, c

\* A piece of thinking is in the message and in no chunk.
LEMMA ThinkingGoesOn ==
  ASSUME NEW seen, NEW content \in Seq(BlockSet), NEW n \in Nat,
         Agrees(seen, content, n), content # <<>>, content[Len(content)].type = "thinking",
         NEW x \in Nat
  PROVE  Agrees(seen, WithPiece(content, x), n)
<1>. DEFINE more == WithPiece(content, x)
<1>1. BlocksOf(more, "tool") = BlocksOf(content, "tool") /\ BlocksOf(more, "text") = BlocksOf(content, "text")
  BY PieceEffect
<1>. HIDE DEF more
<1>2. Agrees(seen, more, n)
  BY <1>1 DEF Agrees
<1>. QED
  BY <1>2 DEF more

\* A piece of arguments is in the message and in a chunk with the index of the last call.
LEMMA ArgumentsGoOn ==
  ASSUME NEW T, NEW seen \in Seq(T), NEW content \in Seq(BlockSet), NEW n \in Nat,
         Agrees(seen, content, n), content # <<>>, content[Len(content)].type = "tool",
         NEW x \in Nat
  PROVE  Agrees(Append(seen, ToolDelta(n - 1, x)), WithPiece(content, x), n)
<1>. DEFINE c == ToolDelta(n - 1, x)
            after == Append(seen, c)
            more == WithPiece(content, x)
<1>1. c \in Chunks(ContentKinds, Int) /\ c.kind = "tool_delta" /\ c.index = n - 1 /\ c.piece = x
  BY DEF ToolDelta, Chunks, ContentKinds
<1>. HIDE DEF c
<1>2. /\ TextOf(after) = TextOf(seen)
      /\ StartsOf(after) = StartsOf(seen)
      /\ \A k \in Int : ArgsOf(after, k) = IF n - 1 = k THEN Append(ArgsOf(seen, k), x) ELSE ArgsOf(seen, k)
  BY <1>1, ChunkEffect, ZenonT(60)
<1>3. PICK front \in Seq(BlockSet), b \in BlockSet, d \in BlockSet :
        /\ BlocksOf(content, "tool") = Append(front, b)
        /\ BlocksOf(more, "tool") = Append(front, d)
        /\ d.id = b.id /\ d.pieces = Added(b.pieces, x)
  BY PieceEffect, ZenonT(60)
<1>4. BlocksOf(more, "text") = BlocksOf(content, "text")
  BY PieceEffect
<1>. HIDE DEF after, more
<1>5. /\ Len(front) \in Nat /\ Len(front) + 1 = n
      /\ Len(Append(front, d)) = n /\ Append(front, b)[n] = b /\ Append(front, d)[n] = d
      /\ \A t \in 1..Len(front) : Append(front, b)[t] = front[t] /\ Append(front, d)[t] = front[t]
  <2>1. Len(Append(front, b)) = n
    BY <1>3 DEF Agrees
  <2>. QED
    BY <2>1, AppendProperties, LenProperties
<1>6. \A t \in 1..n : t - 1 \in Int /\ (t # n => t - 1 # n - 1 /\ t \in 1..Len(front))
  BY <1>5
<1>7. ASSUME NEW t \in 1..n
      PROVE  /\ StartsOf(after)[t].index = t - 1
             /\ StartsOf(after)[t].piece = BlocksOf(more, "tool")[t].id
             /\ ArgsOf(after, t - 1) = BlocksOf(more, "tool")[t].pieces
  <2>1. /\ StartsOf(seen)[t].index = t - 1
        /\ StartsOf(seen)[t].piece = Append(front, b)[t].id
        /\ ArgsOf(seen, t - 1) = Append(front, b)[t].pieces
    BY <1>3 DEF Agrees
  <2>2. CASE t # n
    <3>1. Append(front, d)[t] = Append(front, b)[t]
      BY <1>5, <1>6, <2>2
    <3>2. ArgsOf(after, t - 1) = ArgsOf(seen, t - 1)
      BY <1>2, <1>6, <2>2
    <3>. QED
      BY <1>2, <1>3, <2>1, <3>1, <3>2
  <2>3. CASE t = n
    <3>1. ArgsOf(after, t - 1) = Append(ArgsOf(seen, t - 1), x)
      BY <1>2, <1>6, <2>3
    <3>. QED
      BY <1>2, <1>3, <1>5, <2>1, <2>3, <3>1 DEF Added
  <2>. QED
    BY <2>2, <2>3
<1>8. \A k \in Nat : k >= n => ArgsOf(after, k) = <<>>
  BY <1>2 DEF Agrees
<1>9. Agrees(after, more, n)
  BY <1>2, <1>3, <1>4, <1>5, <1>7, <1>8 DEF Agrees
<1>. QED
  BY <1>9 DEF after, more, c

\* A chunk without content leaves them agreeing.
LEMMA MarkerAgrees ==
  ASSUME NEW T, NEW seen \in Seq(T), NEW content, NEW n \in Nat,
         Agrees(seen, content, n), NEW c, c.kind \notin ContentKinds
  PROVE  Agrees(Append(seen, c), content, n)
<1>1. /\ TextOf(Append(seen, c)) = TextOf(seen)
      /\ StartsOf(Append(seen, c)) = StartsOf(seen)
      /\ \A k : ArgsOf(Append(seen, c), k) = ArgsOf(seen, k)
  BY MarkerEffect
<1>. QED
  BY <1>1 DEF Agrees

-----------------------------------------------------------------------------
(* The message *)

\* What upstream reports.
Counts == [input : Nat, create : Nat, read : Nat, output : Nat]

\* The message is made of blocks, and the one that is open is the last.
MessageInv ==
  /\ TypeOK
  /\ message.content \in Seq(BlockSet)
  /\ up \in {"text", "thinking", "tool"} =>
       message.content # <<>> /\ message.content[Len(message.content)].type = up
  /\ message.usage \in Counts /\ message.cumulative \in BOOLEAN

\* The block that a content_block_start begins.
NewBlock(type) == [type |-> type, id |-> events + 1, pieces |-> <<>>]

\* What an upstream event does to the message.
LEMMA BlockEffect ==
  ASSUME ShapeInv, MessageInv, NEW type \in {"text", "thinking", "tool"}, Block(type)
  PROVE  /\ events' \in 0..MaxEvents /\ events + 1 \in Nat
         /\ NewBlock(type) \in BlockSet
         /\ message'.content = Append(message.content, NewBlock(type))
         /\ message'.content \in Seq(BlockSet) /\ message'.content # <<>>
         /\ message'.content[Len(message'.content)].type = type
         /\ message'.stop = message.stop /\ message'.usage = message.usage
         /\ message'.cumulative = message.cumulative
<1>1. events \in 0..MaxEvents /\ MaxEvents \in Nat
  BY ConstantsAssumption DEF MessageInv, TypeOK
<1>2. events' \in 0..MaxEvents /\ events + 1 \in Nat
  BY <1>1 DEF Block
<1>3. NewBlock(type) \in BlockSet /\ NewBlock(type).type = type
  BY <1>2, EmptySeq DEF NewBlock, BlockSet
<1>4. /\ message'.content = Append(message.content, NewBlock(type))
      /\ message'.stop = message.stop /\ message'.usage = message.usage
      /\ message'.cumulative = message.cumulative
  BY DEF Block, NewBlock, ShapeInv
<1>5. message.content \in Seq(BlockSet)
  BY DEF MessageInv
<1>6. /\ Append(message.content, NewBlock(type)) \in Seq(BlockSet)
      /\ Append(message.content, NewBlock(type)) # <<>>
      /\ Append(message.content, NewBlock(type))[Len(Append(message.content, NewBlock(type)))].type = type
  BY <1>3, <1>5, AppendProperties, EmptySeq
<1>. QED
  BY <1>2, <1>3, <1>4, <1>6

\* A delta puts its piece into the open block, if that is of its type.
LEMMA PieceMessage ==
  ASSUME ShapeInv, MessageInv, Piece, up \in {"text", "thinking", "tool"}
  PROVE  /\ events' \in 0..MaxEvents /\ events + 1 \in Nat
         /\ message.content # <<>> /\ message.content[Len(message.content)].type = up
         /\ message'.content = WithPiece(message.content, events + 1)
         /\ message'.content \in Seq(BlockSet) /\ message'.content # <<>>
         /\ message'.content[Len(message'.content)].type = up
         /\ message'.stop = message.stop /\ message'.usage = message.usage
         /\ message'.cumulative = message.cumulative
<1>1. events \in 0..MaxEvents /\ MaxEvents \in Nat
  BY ConstantsAssumption DEF MessageInv, TypeOK
<1>2. events' \in 0..MaxEvents /\ events + 1 \in Nat
  BY <1>1 DEF Piece
<1>3. message.content # <<>> /\ message.content[Len(message.content)].type = up
      /\ message.content \in Seq(BlockSet)
  BY DEF MessageInv
<1>4. message' = [message EXCEPT !.content = WithPiece(message.content, events + 1)]
  BY DEF Piece, WithPiece
<1>. DEFINE more == WithPiece(message.content, events + 1)
<1>5. more \in Seq(BlockSet) /\ more # <<>> /\ more[Len(more)].type = up
  BY <1>2, <1>3, PieceEffect
<1>. HIDE DEF more
<1>6. /\ message'.content = more
      /\ message'.stop = message.stop /\ message'.usage = message.usage
      /\ message'.cumulative = message.cumulative
  BY <1>4 DEF ShapeInv, more
<1>. QED
  BY <1>2, <1>3, <1>5, <1>6 DEF more

\* The message_start and message_delta events.
LEMMA CountEffect ==
  ASSUME ShapeInv, MessageInv
  PROVE  /\ \A u \in Usages : Begins(u) =>
              /\ message'.content = message.content /\ message'.stop = message.stop
              /\ message'.usage = u /\ message'.cumulative = message.cumulative
              /\ u \in Counts
         /\ \A stop \in StopReasons, u \in Usages : Closing(stop, u) =>
              /\ message'.content = message.content /\ message'.stop = stop
              /\ message'.usage = [u EXCEPT !.input = message.usage.input]
              /\ message'.cumulative \in BOOLEAN
              /\ message'.cumulative => /\ message.cumulative
                                        /\ u.create = message.usage.create
                                        /\ u.read = message.usage.read
              /\ [u EXCEPT !.input = message.usage.input] \in Counts
              /\ events' \in 0..MaxEvents
<1>1. events \in 0..MaxEvents /\ MaxEvents \in Nat /\ \A u \in Usages : u \in Counts
  BY ConstantsAssumption DEF MessageInv, TypeOK, Counts
<1>2. message.usage \in Counts /\ message.cumulative \in BOOLEAN
  BY DEF MessageInv
<1>3. ASSUME NEW u \in Usages, Begins(u)
      PROVE  /\ message'.content = message.content /\ message'.stop = message.stop
             /\ message'.usage = u /\ message'.cumulative = message.cumulative
  BY <1>3 DEF Begins, ShapeInv
<1>4. ASSUME NEW stop \in StopReasons, NEW u \in Usages, Closing(stop, u)
      PROVE  /\ message'.content = message.content /\ message'.stop = stop
             /\ message'.usage = [u EXCEPT !.input = message.usage.input]
             /\ message'.cumulative = (message.cumulative /\ u.create = message.usage.create
                                                          /\ u.read = message.usage.read)
  BY <1>4 DEF Closing, ShapeInv
<1>5. \A u \in Counts : [u EXCEPT !.input = message.usage.input] \in Counts
  BY <1>2 DEF Counts
<1>6. ASSUME NEW stop \in StopReasons, NEW u \in Usages, Closing(stop, u)
      PROVE  events' \in 0..MaxEvents
  BY <1>1, <1>6 DEF Closing
<1>. QED
  BY <1>1, <1>2, <1>3, <1>4, <1>5, <1>6

\* The message is empty at first.
LEMMA MessageInit == Init => MessageInv
<1>. SUFFICES ASSUME Init PROVE MessageInv
  OBVIOUS
<1>1. message.content = <<>> /\ message.content \in Seq(BlockSet) /\ Len(message.content) = 0
  BY EmptySeq DEF Init
<1>2. message.usage \in Counts /\ message.cumulative \in BOOLEAN
  BY DEF Init, Counts
<1>3. TypeOK
  <2>1. handler \in Handler /\ up \in Up /\ events \in 0..MaxEvents
    BY ConstantsAssumption DEF Init, Handler, Up
  <2>2. message.stop \in StopReasons \cup {"none"} /\ toolCallIndex \in Nat
        /\ streamThinkingChars \in Nat /\ streamUsage \in Usage
    BY DEF Init, Usage, NoUsage
  <2>3. firstChunkSent \in BOOLEAN /\ finished \in BOOLEAN /\ hasToolUse \in BOOLEAN
        /\ (closed <=> handler \in {"done", "broken"})
    BY DEF Init
  <2>. QED
    BY <1>1, <2>1, <2>2, <2>3 DEF TypeOK
<1>. QED
  BY <1>1, <1>2, <1>3 DEF MessageInv, Init

\* TypeOK asks of the blocks less than BlockSet gives.
LEMMA TypesOfBlocks ==
  ASSUME NEW content \in Seq(BlockSet)
  PROVE  \A b \in 1..Len(content) : content[b].type \in {"text", "thinking", "tool"}
<1>1. \A b \in 1..Len(content) : content[b] \in BlockSet
  BY ElementOfSeq
<1>. QED
  BY <1>1 DEF BlockSet

\* Every event leaves a message.
LEMMA MessageStep == ShapeInv /\ ShapeInv' /\ MessageInv /\ [Next]_vars => MessageInv'
<1>. SUFFICES ASSUME ShapeInv, ShapeInv', MessageInv, [Next]_vars PROVE MessageInv'
  OBVIOUS
<1>0. TypeOK /\ message.content \in Seq(BlockSet) /\ PieceChars \in Nat
      /\ message.usage \in Counts /\ message.cumulative \in BOOLEAN
  BY ConstantsAssumption DEF MessageInv
<1>1. handler' \in Handler /\ up' \in Up
  BY <1>0 DEF TypeOK, Handler, Up, vars, upstream, Next, Upstream, Refuse, Open, WriteChunk,
       WriteDone, MessageStart, Begins, BlockStart, ToolBlockStart, ToolBlock, TextDelta,
       ThinkingDelta, InputJSONDelta, BlockStop, MessageDelta, Closing, MessageStop, Finish,
       EndOfEvents, StreamError, Emit, Skip
<1>2. closed' <=> handler' \in {"done", "broken"}
  <2>1. closed <=> handler \in {"done", "broken"}
    BY <1>0 DEF TypeOK
  <2>2. CASE Quiet
    BY <2>1, <2>2, QuietEffect DEF Pulling
  <2>3. CASE Content
    BY <2>1, <2>3, ContentEffect DEF Pulling
  <2>4. CASE Ending
    BY <2>1, <2>4, EndingEffect DEF Pulling
  <2>5. CASE Refuse \/ Open \/ WriteChunk
    BY <2>1, <2>5 DEF Refuse, Open, WriteChunk
  <2>6. CASE WriteDone \/ StreamError
    BY <2>6 DEF WriteDone, StreamError
  <2>7. CASE UNCHANGED vars
    BY <2>1, <2>7 DEF vars
  <2>. QED
    BY <2>2, <2>3, <2>4, <2>5, <2>6, <2>7, Cases
<1>3. toolCallIndex' \in Nat /\ streamThinkingChars' \in Nat
  <2>1. toolCallIndex \in Nat /\ streamThinkingChars \in Nat
    BY <1>0 DEF TypeOK
  <2>2. CASE ToolBlockStart
    BY <2>1, <2>2 DEF ToolBlockStart, ToolBlock
  <2>3. CASE ThinkingDelta
    BY <1>0, <2>1, <2>3 DEF ThinkingDelta
  <2>4. ToolBlockStart \/ ThinkingDelta \/ UNCHANGED <<toolCallIndex, streamThinkingChars>>
    BY DEF vars, translator, Next, Upstream, Refuse, Open, WriteChunk,
       WriteDone, MessageStart, Begins, BlockStart, TextDelta,
       InputJSONDelta, BlockStop, MessageDelta, Closing, MessageStop, Finish,
       EndOfEvents, StreamError
  <2>. QED
    BY <2>1, <2>2, <2>3, <2>4
<1>4. /\ events' \in 0..MaxEvents
      /\ message'.content \in Seq(BlockSet)
      /\ message'.stop \in StopReasons \cup {"none"}
      /\ message'.usage \in Counts /\ message'.cumulative \in BOOLEAN
      /\ up' \in {"text", "thinking", "tool"} =>
           message'.content # <<>> /\ message'.content[Len(message'.content)].type = up'
  <2>0. events \in 0..MaxEvents /\ message.stop \in StopReasons \cup {"none"}
    BY <1>0 DEF TypeOK
  <2>1. CASE UNCHANGED <<events, message>> /\ (up' = up \/ up' \notin {"text", "thinking", "tool"})
    BY <1>0, <2>0, <2>1 DEF MessageInv
  <2>2. ASSUME NEW u \in Usages, MessageStart(u)
        PROVE  /\ UNCHANGED events /\ message'.content = message.content
               /\ message'.stop = message.stop /\ message'.usage \in Counts
               /\ message'.cumulative = message.cumulative /\ up' = "between"
    <3>1. Begins(u)
      BY <2>2 DEF MessageStart
    <3>. QED
      BY <3>1, CountEffect DEF Begins
  <2>3. ASSUME NEW b \in {"text", "thinking"}, BlockStart(b)
        PROVE  /\ events' \in 0..MaxEvents
               /\ message'.content \in Seq(BlockSet) /\ message'.content # <<>>
               /\ message'.content[Len(message'.content)].type = up'
               /\ message'.stop = message.stop /\ message'.usage = message.usage
               /\ message'.cumulative = message.cumulative
    BY <2>3, BlockEffect DEF BlockStart
  <2>4. ASSUME ToolBlockStart
        PROVE  /\ events' \in 0..MaxEvents
               /\ message'.content \in Seq(BlockSet) /\ message'.content # <<>>
               /\ message'.content[Len(message'.content)].type = up'
               /\ message'.stop = message.stop /\ message'.usage = message.usage
               /\ message'.cumulative = message.cumulative
    BY <2>4, BlockEffect DEF ToolBlockStart, ToolBlock
  <2>5. ASSUME TextDelta \/ ThinkingDelta \/ InputJSONDelta
        PROVE  /\ events' \in 0..MaxEvents
               /\ message'.content \in Seq(BlockSet) /\ message'.content # <<>>
               /\ message'.content[Len(message'.content)].type = up'
               /\ message'.stop = message.stop /\ message'.usage = message.usage
               /\ message'.cumulative = message.cumulative
    <3>1. Piece /\ up' = up /\ up \in {"text", "thinking", "tool"}
      BY <2>5 DEF TextDelta, ThinkingDelta, InputJSONDelta
    <3>. QED
      BY <3>1, PieceMessage
  <2>6. ASSUME NEW stop \in StopReasons, NEW u \in Usages, MessageDelta(stop, u)
        PROVE  /\ events' \in 0..MaxEvents /\ message'.content = message.content
               /\ message'.stop = stop /\ message'.usage \in Counts
               /\ message'.cumulative \in BOOLEAN /\ up' = "closing"
    <3>1. Closing(stop, u)
      BY <2>6 DEF MessageDelta
    <3>. QED
      BY <3>1, CountEffect DEF Closing
  <2>7. \/ UNCHANGED <<events, message>> /\ (up' = up \/ up' \notin {"text", "thinking", "tool"})
        \/ \E u \in Usages : MessageStart(u)
        \/ \E b \in {"text", "thinking"} : BlockStart(b)
        \/ ToolBlockStart
        \/ TextDelta \/ ThinkingDelta \/ InputJSONDelta
        \/ \E stop \in StopReasons, u \in Usages : MessageDelta(stop, u)
    BY DEF vars, upstream, Next, Upstream, Refuse, Open, WriteChunk, WriteDone, BlockStop,
           MessageStop, EndOfEvents, StreamError
  <2>. QED
    BY <1>0, <2>0, <2>1, <2>2, <2>3, <2>4, <2>5, <2>6, <2>7
<1>5. TypeOK'
  <2>1. \A b \in 1..Len(message'.content) : message'.content[b].type \in {"text", "thinking", "tool"}
    BY <1>4, TypesOfBlocks
  <2>. QED
    BY <1>1, <1>2, <1>3, <1>4, <2>1 DEF TypeOK, ShapeInv
<1>. QED
  BY <1>4, <1>5 DEF MessageInv

-----------------------------------------------------------------------------
(* Agreement, step by step *)

\* What the client has seen, or is about to see.
Seen == IF chunk.kind \in ContentKinds THEN Append(out, chunk) ELSE out

\* What has been sent or is pending agrees with the message so far.
AgreeInv ==
  /\ chunk.kind \in ContentKinds => chunk \in Chunks(ContentKinds, Int)
  /\ Agrees(Seen, message.content, toolCallIndex)

\* Nothing agrees with nothing.
LEMMA AgreeInit == Init => AgreeInv
<1>. SUFFICES ASSUME Init PROVE AgreeInv
  OBVIOUS
<1>1. out = <<>> /\ message.content = <<>> /\ toolCallIndex = 0 /\ chunk.kind = "none"
  BY DEF Init, NoChunk
<1>2. Seen = <<>> /\ chunk.kind \notin ContentKinds
  BY <1>1 DEF Seen, ContentKinds
<1>3. /\ \A type : BlocksOf(<<>>, type) = <<>>
      /\ StartsOf(<<>>) = <<>>
      /\ TextOf(<<>>) = PiecesOf(<<>>)
      /\ \A k : ArgsOf(<<>>, k) = PiecesOf(<<>>)
  BY FilterEmpty DEF BlocksOf, StartsOf, TextOf, ArgsOf
<1>4. PiecesOf(<<>>) = <<>>
  BY EmptySeq DEF PiecesOf
<1>5. Pieces(<<>>) = <<>>
  <2>1. [b \in DOMAIN <<>> |-> <<>>[b].pieces] = <<>>
    BY EmptySeq
  <2>. QED
    BY <2>1, FlattenEmpty DEF Pieces
<1>6. Len(<<>>) = 0
  BY EmptySeq
<1>7. Agrees(<<>>, <<>>, 0)
  BY <1>3, <1>4, <1>5, <1>6 DEF Agrees
<1>. QED
  BY <1>1, <1>2, <1>7 DEF AgreeInv

\* No event, and no write, leaves the two apart: an event that changes the message
\* makes the chunk that says so (service.go:131-204).
LEMMA AgreeStep ==
  ShapeInv /\ PendingInv /\ FinishInv /\ MessageInv /\ AgreeInv /\ [Next]_vars => AgreeInv'
<1>. SUFFICES ASSUME ShapeInv, PendingInv, FinishInv, MessageInv, AgreeInv, [Next]_vars
              PROVE  AgreeInv'
  OBVIOUS
<1>1. PICK S : out \in Seq(S)
  BY DEF ShapeInv
<1>2. toolCallIndex \in Nat /\ message.content \in Seq(BlockSet)
  BY DEF MessageInv, TypeOK
<1>3. Agrees(Seen, message.content, toolCallIndex)
  BY DEF AgreeInv
<1>4. CASE UNCHANGED <<chunk, out, toolCallIndex>> /\ message'.content = message.content
  BY <1>4 DEF AgreeInv, Seen
<1>5. Pulling => chunk.kind = "none" /\ chunk.kind \notin ContentKinds /\ Seen = out
  BY Unfinished DEF Seen, ContentKinds
<1>6. CASE WriteChunk
  <2>1. /\ out' = Append(out, chunk) /\ chunk'.kind \notin ContentKinds
        /\ toolCallIndex' = toolCallIndex /\ message' = message
    BY <1>6 DEF WriteChunk, NoChunk, ContentKinds, translator, upstream
  <2>2. Seen' = Append(out, chunk)
    BY <2>1 DEF Seen
  <2>3. CASE chunk.kind \in ContentKinds
    <3>1. Seen' = Seen
      BY <2>2, <2>3 DEF Seen
    <3>. QED
      BY <1>3, <2>1, <3>1 DEF AgreeInv
  <2>4. CASE chunk.kind \notin ContentKinds
    <3>1. Agrees(out, message.content, toolCallIndex)
      BY <1>3, <2>4 DEF Seen
    <3>2. Agrees(Append(out, chunk), message.content, toolCallIndex)
      BY <1>1, <1>2, <2>4, <3>1, MarkerAgrees
    <3>. QED
      BY <2>1, <2>2, <3>2 DEF AgreeInv
  <2>. QED
    BY <2>3, <2>4
<1>7. CASE WriteDone
  <2>1. /\ out' = Append(out, DoneMarker) /\ chunk' = chunk /\ chunk.kind = "none"
        /\ toolCallIndex' = toolCallIndex /\ message' = message
    BY <1>7 DEF WriteDone, translator, upstream, PendingInv
  <2>2. chunk.kind \notin ContentKinds /\ DoneMarker.kind \notin ContentKinds
    BY <2>1 DEF ContentKinds, DoneMarker
  <2>3. Agrees(out, message.content, toolCallIndex)
    BY <1>3, <2>2 DEF Seen
  <2>4. Agrees(Append(out, DoneMarker), message.content, toolCallIndex)
    BY <1>1, <1>2, <2>2, <2>3, MarkerAgrees
  <2>5. Seen' = Append(out, DoneMarker)
    BY <2>1, <2>2 DEF Seen
  <2>. QED
    BY <2>1, <2>2, <2>4, <2>5 DEF AgreeInv
<1>8. CASE Ending
  <2>1. /\ chunk'.kind \notin ContentKinds /\ UNCHANGED <<out, message, toolCallIndex>> /\ Pulling
    BY <1>8, EndingEffect DEF ContentKinds
  <2>. QED
    BY <1>3, <1>5, <2>1 DEF AgreeInv, Seen
<1>9. ASSUME NEW b \in {"text", "thinking"}, BlockStart(b) PROVE AgreeInv'
  <2>1. /\ Block(b) /\ UNCHANGED <<chunk, out, toolCallIndex>> /\ Pulling
    BY <1>9 DEF BlockStart, Skip, translator
  <2>2. /\ NewBlock(b) \in BlockSet /\ NewBlock(b).type # "tool" /\ NewBlock(b).pieces = <<>>
        /\ message'.content = Append(message.content, NewBlock(b))
    BY <2>1, BlockEffect DEF NewBlock
  <2>3. Agrees(Seen, Append(message.content, NewBlock(b)), toolCallIndex)
    BY <1>2, <1>3, <2>2, SilentBlock
  <2>. QED
    BY <1>5, <2>1, <2>2, <2>3 DEF AgreeInv, Seen
<1>10. CASE ToolBlockStart
  <2>1. /\ Block("tool") /\ chunk' = ToolStart(FirstChunk, toolCallIndex, events + 1)
        /\ out' = out /\ toolCallIndex' = toolCallIndex + 1 /\ Pulling
    BY <1>10 DEF ToolBlockStart, ToolBlock, Emit
  <2>2. /\ NewBlock("tool") \in BlockSet /\ NewBlock("tool").type = "tool"
        /\ NewBlock("tool").pieces = <<>> /\ NewBlock("tool").id = events + 1
        /\ message'.content = Append(message.content, NewBlock("tool"))
        /\ events + 1 \in Nat
    BY <2>1, BlockEffect DEF NewBlock
  <2>3. FirstChunk \in BOOLEAN
    BY DEF FirstChunk, ShapeInv
  <2>4. Agrees(Append(out, ToolStart(FirstChunk, toolCallIndex, events + 1)),
               Append(message.content, NewBlock("tool")), toolCallIndex + 1)
    BY <1>1, <1>2, <1>3, <1>5, <2>1, <2>2, <2>3, ToolBegins
  <2>5. chunk' \in Chunks(ContentKinds, Int) /\ chunk'.kind \in ContentKinds
    BY <1>2, <2>1, <2>2, <2>3 DEF ToolStart, Chunks, ContentKinds
  <2>6. Seen' = Append(out, ToolStart(FirstChunk, toolCallIndex, events + 1))
    BY <2>1, <2>5 DEF Seen
  <2>. QED
    BY <2>1, <2>2, <2>4, <2>5, <2>6 DEF AgreeInv
<1>11. CASE TextDelta
  <2>1. /\ Piece /\ up = "text" /\ chunk' = Text(FirstChunk, events + 1)
        /\ out' = out /\ toolCallIndex' = toolCallIndex /\ Pulling
    BY <1>11 DEF TextDelta, Emit
  <2>2. /\ message.content # <<>> /\ message.content[Len(message.content)].type = "text"
        /\ message'.content = WithPiece(message.content, events + 1)
        /\ events + 1 \in Nat
    BY <2>1, PieceMessage
  <2>3. FirstChunk \in BOOLEAN
    BY DEF FirstChunk, ShapeInv
  <2>4. Agrees(out, message.content, toolCallIndex)
    BY <1>3, <1>5, <2>1
  <2>5. Agrees(Append(out, Text(FirstChunk, events + 1)),
               WithPiece(message.content, events + 1), toolCallIndex)
    BY <1>1, <1>2, <2>2, <2>3, <2>4, TextGoesOn
  <2>6. chunk' \in Chunks(ContentKinds, Int) /\ chunk'.kind \in ContentKinds
    BY <2>1, <2>2, <2>3 DEF Text, Chunks, ContentKinds
  <2>7. Seen' = Append(out, Text(FirstChunk, events + 1))
    BY <2>1, <2>6 DEF Seen
  <2>. QED
    BY <2>1, <2>2, <2>5, <2>6, <2>7 DEF AgreeInv
<1>12. CASE ThinkingDelta
  <2>1. /\ Piece /\ up = "thinking" /\ UNCHANGED <<chunk, out, toolCallIndex>> /\ Pulling
    BY <1>12 DEF ThinkingDelta, Skip
  <2>2. /\ message.content # <<>> /\ message.content[Len(message.content)].type = "thinking"
        /\ message'.content = WithPiece(message.content, events + 1)
        /\ events + 1 \in Nat
    BY <2>1, PieceMessage
  <2>3. Agrees(Seen, WithPiece(message.content, events + 1), toolCallIndex)
    BY <1>2, <1>3, <2>2, ThinkingGoesOn
  <2>. QED
    BY <1>5, <2>1, <2>2, <2>3 DEF AgreeInv, Seen
<1>13. CASE InputJSONDelta
  <2>1. /\ Piece /\ up = "tool" /\ chunk' = ToolDelta(toolCallIndex - 1, events + 1)
        /\ out' = out /\ toolCallIndex' = toolCallIndex /\ Pulling
    BY <1>13 DEF InputJSONDelta, Emit, translator
  <2>2. /\ message.content # <<>> /\ message.content[Len(message.content)].type = "tool"
        /\ message'.content = WithPiece(message.content, events + 1)
        /\ events + 1 \in Nat
    BY <2>1, PieceMessage
  <2>3. Agrees(out, message.content, toolCallIndex)
    BY <1>3, <1>5, <2>1
  <2>4. Agrees(Append(out, ToolDelta(toolCallIndex - 1, events + 1)),
               WithPiece(message.content, events + 1), toolCallIndex)
    BY <1>1, <1>2, <2>2, <2>3, ArgumentsGoOn
  <2>5. chunk' \in Chunks(ContentKinds, Int) /\ chunk'.kind \in ContentKinds
    BY <1>2, <2>1, <2>2 DEF ToolDelta, Chunks, ContentKinds
  <2>6. Seen' = Append(out, ToolDelta(toolCallIndex - 1, events + 1))
    BY <2>1, <2>5 DEF Seen
  <2>. QED
    BY <2>1, <2>2, <2>4, <2>5, <2>6 DEF AgreeInv
<1>14. ASSUME NEW u \in Usages, MessageStart(u) PROVE AgreeInv'
  <2>1. Begins(u) /\ UNCHANGED <<chunk, out, toolCallIndex>>
    BY <1>14 DEF MessageStart, Begins, Skip
  <2>. QED
    BY <1>4, <2>1, CountEffect
<1>15. ASSUME NEW stop \in StopReasons, NEW u \in Usages, MessageDelta(stop, u) PROVE AgreeInv'
  <2>1. Closing(stop, u) /\ UNCHANGED <<chunk, out, toolCallIndex>>
    BY <1>15 DEF MessageDelta, Closing, Skip
  <2>. QED
    BY <1>4, <2>1, CountEffect
<1>16. CASE Refuse \/ Open \/ StreamError \/ BlockStop \/ UNCHANGED vars
  BY <1>4, <1>16 DEF Refuse, Open, StreamError, BlockStop, Skip, vars, upstream, translator
<1>. QED
  BY <1>6, <1>7, <1>8, <1>9, <1>10, <1>11, <1>12, <1>13, <1>14, <1>15, <1>16
  DEF Next, Upstream, Ending

-----------------------------------------------------------------------------
(* Rounding *)

\* A quarter, rounded up.
LEMMA Quarter ==
  ASSUME NEW c \in Nat
  PROVE  /\ EstimateThinkingTokens(c) \in Nat
         /\ c <= 4 * EstimateThinkingTokens(c) /\ 4 * EstimateThinkingTokens(c) <= c + 3
BY DEF EstimateThinkingTokens

\* What mapResponse estimates of each block.
Rounded(blocks) ==
  [b \in DOMAIN blocks |-> EstimateThinkingTokens(PieceChars * Len(blocks[b].pieces))]

\* One block more, one number more.
LEMMA RoundedAppend ==
  ASSUME NEW blocks \in Seq(BlockSet), NEW b \in BlockSet
  PROVE  /\ Rounded(blocks) \in Seq(Nat)
         /\ Rounded(Append(blocks, b)) =
              Append(Rounded(blocks), EstimateThinkingTokens(PieceChars * Len(b.pieces)))
<1>. DEFINE R(d) == EstimateThinkingTokens(PieceChars * Len(d.pieces))
<1>1. \A d \in BlockSet : R(d) \in Nat
  <2>1. ASSUME NEW d \in BlockSet PROVE PieceChars * Len(d.pieces) \in Nat
    <3>1. d.pieces \in Seq(Nat)
      BY DEF BlockSet
    <3>2. Len(d.pieces) \in Nat /\ PieceChars \in Nat
      BY <3>1, LenProperties, ConstantsAssumption
    <3>. QED
      BY <3>2
  <2>. QED
    BY <2>1, Quarter
<1>2. \A ds : Rounded(ds) = [i \in DOMAIN ds |-> R(ds[i])]
  BY DEF Rounded
<1>. HIDE DEF R
<1>3. \A ds \in Seq(BlockSet) : /\ Rounded(ds) \in Seq(Nat) /\ Len(Rounded(ds)) = Len(ds)
                                /\ \A i \in 1..Len(ds) : Rounded(ds)[i] = R(ds[i])
  <2>. SUFFICES ASSUME NEW ds \in Seq(BlockSet)
                PROVE  /\ Rounded(ds) \in Seq(Nat) /\ Len(Rounded(ds)) = Len(ds)
                       /\ \A i \in 1..Len(ds) : Rounded(ds)[i] = R(ds[i])
    OBVIOUS
  <2>1. DOMAIN ds = 1..Len(ds) /\ Len(ds) \in Nat
    BY LenProperties
  <2>2. Rounded(ds) \in [1..Len(ds) -> Nat]
    BY <1>1, <1>2, <2>1, ElementOfSeq
  <2>. QED
    BY <1>2, <2>1, <2>2
<1>4. /\ Append(blocks, b) \in Seq(BlockSet) /\ Len(Append(blocks, b)) = Len(blocks) + 1
      /\ Append(blocks, b)[Len(blocks) + 1] = b
      /\ \A i \in 1..Len(blocks) : Append(blocks, b)[i] = blocks[i]
      /\ Len(blocks) \in Nat
  BY AppendProperties, LenProperties
<1>5. /\ Rounded(blocks) \in Seq(Nat) /\ Len(Rounded(blocks)) = Len(blocks)
      /\ \A i \in 1..Len(blocks) : Rounded(blocks)[i] = R(blocks[i])
  BY <1>3
<1>6. /\ Append(Rounded(blocks), R(b)) \in Seq(Nat)
      /\ Len(Append(Rounded(blocks), R(b))) = Len(blocks) + 1
      /\ Append(Rounded(blocks), R(b))[Len(blocks) + 1] = R(b)
      /\ \A i \in 1..Len(blocks) : Append(Rounded(blocks), R(b))[i] = R(blocks[i])
  BY <1>1, <1>4, <1>5, AppendProperties
<1>7. /\ Rounded(Append(blocks, b)) \in Seq(Nat) /\ Len(Rounded(Append(blocks, b))) = Len(blocks) + 1
      /\ \A i \in 1..(Len(blocks) + 1) : Rounded(Append(blocks, b))[i] = R(Append(blocks, b)[i])
  BY <1>3, <1>4
<1>8. \A i \in 1..(Len(blocks) + 1) : i \in 1..Len(blocks) \/ i = Len(blocks) + 1
  BY <1>4
<1>9. \A i \in 1..(Len(blocks) + 1) : Rounded(Append(blocks, b))[i] = Append(Rounded(blocks), R(b))[i]
  BY <1>4, <1>6, <1>7, <1>8
<1>10. Rounded(Append(blocks, b)) = Append(Rounded(blocks), R(b))
  BY <1>6, <1>7, <1>9, SeqEqual
<1>. QED
  BY <1>5, <1>10 DEF R

\* Rounding each block up by itself adds less than a token for each.
Estimates(blocks) ==
  /\ Total(Rounded(blocks)) \in Nat
  /\ PieceChars * Len(Pieces(blocks)) <= 4 * Total(Rounded(blocks))
  /\ 4 * Total(Rounded(blocks)) <= PieceChars * Len(Pieces(blocks)) + 3 * Len(blocks)

\* So it is for any number of blocks.
LEMMA Rounding == \A blocks \in Seq(BlockSet) : Estimates(blocks)
<1>. DEFINE P == {blocks \in Seq(BlockSet) : Estimates(blocks)}
<1>1. <<>> \in P
  <2>1. <<>> \in Seq(BlockSet) /\ Len(<<>>) = 0
    BY EmptySeq
  <2>2. Rounded(<<>>) = <<>> /\ [b \in DOMAIN <<>> |-> <<>>[b].pieces] = <<>>
    BY EmptySeq DEF Rounded
  <2>3. Pieces(<<>>) = <<>> /\ Total(<<>>) = 0
    BY <2>2, FlattenEmpty, TotalEmpty DEF Pieces
  <2>4. PieceChars * 0 = 0
    BY ConstantsAssumption
  <2>. QED
    BY <2>1, <2>2, <2>3, <2>4 DEF Estimates
<1>2. ASSUME NEW blocks \in Seq(BlockSet), NEW b \in BlockSet, blocks \in P
      PROVE  Append(blocks, b) \in P
  <2>1. Append(blocks, b) \in Seq(BlockSet) /\ Len(Append(blocks, b)) = Len(blocks) + 1
        /\ Len(blocks) \in Nat
    BY AppendProperties, LenProperties
  <2>. DEFINE l == Len(b.pieces)
              m == Len(Pieces(blocks))
              e == EstimateThinkingTokens(PieceChars * l)
              t == Total(Rounded(blocks))
  <2>2. b.pieces \in Seq(Nat) /\ l \in Nat
    <3>1. b.pieces \in Seq(Nat)
      BY DEF BlockSet
    <3>. QED
      BY <3>1, LenProperties
  <2>3. Pieces(blocks) \in Seq(Nat) /\ Pieces(Append(blocks, b)) = Pieces(blocks) \o b.pieces
    BY PiecesAppend
  <2>4. m \in Nat /\ Len(Pieces(Append(blocks, b))) = m + l
    BY <2>2, <2>3, LenProperties, ConcatProperties
  <2>5. PieceChars * l \in Nat /\ PieceChars * m \in Nat
        /\ PieceChars * (m + l) = PieceChars * m + PieceChars * l
    <3>1. \A p, x, y \in Nat : p * x \in Nat /\ p * y \in Nat /\ p * (x + y) = p * x + p * y
      OBVIOUS
    <3>. HIDE DEF l, m
    <3>. QED
      BY <2>2, <2>4, <3>1, ConstantsAssumption
  <2>6. e \in Nat /\ PieceChars * l <= 4 * e /\ 4 * e <= PieceChars * l + 3
    <3>. HIDE DEF l
    <3>. QED
      BY <2>5, Quarter
  <2>7. Rounded(blocks) \in Seq(Nat) /\ Rounded(Append(blocks, b)) = Append(Rounded(blocks), e)
    BY RoundedAppend
  <2>. HIDE DEF e
  <2>8. t \in Nat /\ Total(Rounded(Append(blocks, b))) = t + e
    BY <2>6, <2>7, TotalAppend
  <2>9. PieceChars * m <= 4 * t /\ 4 * t <= PieceChars * m + 3 * Len(blocks)
    BY <1>2 DEF Estimates
  <2>. HIDE DEF l, m, t, P
  <2>10. Estimates(Append(blocks, b))
    <3>1. /\ Total(Rounded(Append(blocks, b))) = t + e
          /\ PieceChars * Len(Pieces(Append(blocks, b))) = PieceChars * m + PieceChars * l
          /\ Len(Append(blocks, b)) = Len(blocks) + 1
      BY <2>1, <2>4, <2>5, <2>8
    <3>2. \A x, y \in Nat : \A n \in Nat :
            /\ y <= 4 * e /\ 4 * e <= y + 3 /\ x <= 4 * t /\ 4 * t <= x + 3 * n
            => /\ t + e \in Nat /\ x + y <= 4 * (t + e)
               /\ 4 * (t + e) <= (x + y) + 3 * (n + 1)
      BY <2>6, <2>8
    <3>. QED
      BY <2>1, <2>5, <2>6, <2>9, <3>1, <3>2 DEF Estimates
  <2>. QED
    BY <2>1, <2>10 DEF P
<1>. HIDE DEF P
<1>3. Seq(BlockSet) \subseteq P
  BY <1>1, <1>2, SeqInductionSet
<1>. QED
  BY <1>3 DEF P

\* Rounding all at once is less by at most a token for each block.
LEMMA RoundingAtOnce ==
  ASSUME NEW content \in Seq(BlockSet)
  PROVE  LET thinking == BlocksOf(content, "thinking") IN
         EstimateThinkingTokens(PieceChars * Len(Pieces(thinking)))
           \in (ThinkingTokens(content) - Len(thinking))..ThinkingTokens(content)
<1>. DEFINE thinking == BlocksOf(content, "thinking")
            c == PieceChars * Len(Pieces(thinking))
            t == Total(Rounded(thinking))
<1>1. thinking \in Seq(BlockSet)
  BY FilterType DEF BlocksOf
<1>2. Len(thinking) \in Nat /\ c \in Nat
  <2>1. Pieces(thinking) \in Seq(Nat)
    <3>1. PICK b \in BlockSet : b = [type |-> "text", id |-> 0, pieces |-> <<>>]
      BY EmptySeq DEF BlockSet
    <3>. HIDE DEF thinking
    <3>. QED
      BY <1>1, PiecesAppend
  <2>2. Len(Pieces(thinking)) \in Nat /\ PieceChars \in Nat
    BY <2>1, LenProperties, ConstantsAssumption
  <2>3. \A x, y \in Nat : x * y \in Nat
    OBVIOUS
  <2>. HIDE DEF thinking
  <2>. QED
    BY <1>1, <2>2, <2>3, LenProperties
<1>3. t \in Nat /\ c <= 4 * t /\ 4 * t <= c + 3 * Len(thinking)
  <2>1. Estimates(thinking)
    BY <1>1, Rounding
  <2>. QED
    BY <2>1 DEF Estimates
<1>4. ThinkingTokens(content) = t
  BY DEF ThinkingTokens, Rounded
<1>. HIDE DEF t, c
<1>5. \A x, y, n \in Nat : x <= 4 * y /\ 4 * y <= x + 3 * n => EstimateThinkingTokens(x) \in (y - n)..y
  BY DEF EstimateThinkingTokens
<1>6. EstimateThinkingTokens(c) \in (t - Len(thinking))..t
  BY <1>2, <1>3, <1>5
<1>. QED
  BY <1>4, <1>6 DEF c

-----------------------------------------------------------------------------
(* Counts *)

\* The pieces of all thinking blocks.
ThinkingPieces(content) == Len(Pieces(BlocksOf(content, "thinking")))

\* The usage is the one the message began with, unless upstream has changed its
\* cache counts; a tool call has been counted when upstream stops for it.
CountInv ==
  /\ up = "opened" => streamUsage = NoUsage
  /\ message.cumulative =>
       /\ streamUsage.prompt = TotalInput(message.usage)
       /\ streamUsage.create = message.usage.create
       /\ streamUsage.read = message.usage.read
  /\ toolCallIndex > 0 => hasToolUse
  /\ message.stop = "tool_use" => hasToolUse
  /\ streamThinkingChars = PieceChars * ThinkingPieces(message.content)

\* A tool block has been counted.
LEMMA ToolCounted ==
  ASSUME AgreeInv, MessageInv,
         \E b \in 1..Len(message.content) : message.content[b].type = "tool"
  PROVE  toolCallIndex > 0
<1>. DEFINE S == [type : {"tool"}, id : Nat, pieces : Seq(Nat)]
            I == {b \in 1..Len(message.content) : message.content[b] \in S}
<1>1. message.content \in Seq(BlockSet)
  BY DEF MessageInv
<1>2. PICK b \in 1..Len(message.content) : message.content[b].type = "tool"
  OBVIOUS
<1>3. message.content[b] \in BlockSet
  BY <1>1, ElementOfSeq
<1>4. b \in I
  BY <1>2, <1>3 DEF BlockSet
<1>. HIDE DEF S
<1>5. IsFiniteSet(I) /\ Len(Filter(message.content, S)) = Cardinality(I)
  BY <1>1, FilterLen
<1>6. Cardinality(I) \in Nat /\ Cardinality(I) # 0
  <2>. HIDE DEF I
  <2>. QED
    BY <1>4, <1>5, FS_CardinalityType, FS_EmptySet
<1>7. Len(BlocksOf(message.content, "tool")) = toolCallIndex
  BY DEF AgreeInv, Agrees
<1>. QED
  BY <1>5, <1>6, <1>7 DEF BlocksOf, S

\* A new block has no pieces.
LEMMA NoPiecesYet ==
  ASSUME NEW content \in Seq(BlockSet), NEW b \in BlockSet, b.pieces = <<>>
  PROVE  /\ ThinkingPieces(Append(content, b)) = ThinkingPieces(content)
<1>1. /\ BlocksOf(content, "thinking") \in Seq(BlockSet)
      /\ \/ BlocksOf(Append(content, b), "thinking") = BlocksOf(content, "thinking")
         \/ BlocksOf(Append(content, b), "thinking") = Append(BlocksOf(content, "thinking"), b)
  BY BlocksAppend
<1>2. /\ Pieces(BlocksOf(content, "thinking")) \in Seq(Nat)
      /\ Pieces(Append(BlocksOf(content, "thinking"), b)) =
           Pieces(BlocksOf(content, "thinking")) \o b.pieces
  BY <1>1, PiecesAppend
<1>3. Pieces(BlocksOf(content, "thinking")) \o b.pieces = Pieces(BlocksOf(content, "thinking"))
  BY <1>2, ConcatEmptySeq
<1>. QED
  BY <1>1, <1>2, <1>3 DEF ThinkingPieces

\* A piece is a thinking piece exactly if it comes in a thinking block.
LEMMA PieceCounted ==
  ASSUME NEW content \in Seq(BlockSet), content # <<>>, NEW x \in Nat
  PROVE  /\ content[Len(content)].type # "thinking" =>
              ThinkingPieces(WithPiece(content, x)) = ThinkingPieces(content)
         /\ content[Len(content)].type = "thinking" =>
              /\ ThinkingPieces(content) \in Nat
              /\ ThinkingPieces(WithPiece(content, x)) = ThinkingPieces(content) + 1
<1>1. CASE content[Len(content)].type # "thinking"
  <2>1. BlocksOf(WithPiece(content, x), "thinking") = BlocksOf(content, "thinking")
    BY <1>1, PieceEffect
  <2>. QED
    BY <1>1, <2>1 DEF ThinkingPieces
<1>2. CASE content[Len(content)].type = "thinking"
  <2>. DEFINE p == Pieces(BlocksOf(content, "thinking"))
  <2>1. p \in Seq(Nat) /\ Pieces(BlocksOf(WithPiece(content, x), "thinking")) = Added(p, x)
    BY <1>2, PiecesEffect
  <2>. HIDE DEF p
  <2>2. Len(p) \in Nat /\ Len(Added(p, x)) = Len(p) + 1
    BY <2>1, LenProperties, AppendProperties DEF Added
  <2>. QED
    BY <1>2, <2>1, <2>2 DEF ThinkingPieces, p
<1>. QED
  BY <1>1, <1>2

\* Nothing is counted at first.
LEMMA CountInit == Init => CountInv
<1>. SUFFICES ASSUME Init PROVE CountInv
  OBVIOUS
<1>1. message.content = <<>> /\ toolCallIndex = 0 /\ streamThinkingChars = 0
      /\ message.stop = "none" /\ streamUsage = NoUsage
  BY DEF Init
<1>2. ThinkingPieces(<<>>) = 0
  <2>1. BlocksOf(<<>>, "thinking") = <<>>
    BY FilterEmpty DEF BlocksOf
  <2>2. [b \in DOMAIN <<>> |-> <<>>[b].pieces] = <<>> /\ Len(<<>>) = 0
    BY EmptySeq
  <2>. QED
    BY <2>1, <2>2, FlattenEmpty DEF ThinkingPieces, Pieces
<1>3. PieceChars * 0 = 0
  BY ConstantsAssumption
<1>4. /\ streamUsage.prompt = TotalInput(message.usage)
      /\ streamUsage.create = message.usage.create
      /\ streamUsage.read = message.usage.read
  BY DEF Init, NoUsage, TotalInput
<1>. QED
  BY <1>1, <1>2, <1>3, <1>4 DEF CountInv

\* Every event counts in the translator as in the message (service.go:131-204).
LEMMA CountStep ==
  ShapeInv /\ MessageInv /\ AgreeInv /\ CountInv /\ [Next]_vars => CountInv'
<1>. SUFFICES ASSUME ShapeInv, MessageInv, AgreeInv, CountInv, [Next]_vars PROVE CountInv'
  OBVIOUS
<1>0. /\ message.content \in Seq(BlockSet) /\ message.usage \in Counts /\ streamUsage \in Usage
      /\ toolCallIndex \in Nat /\ streamThinkingChars \in Nat /\ PieceChars \in Nat
  BY ConstantsAssumption DEF MessageInv, TypeOK, ShapeInv
<1>1. ASSUME UNCHANGED <<streamUsage, toolCallIndex, hasToolUse, streamThinkingChars>>,
             message'.usage = message.usage, message'.stop = message.stop,
             message'.cumulative = message.cumulative,
             ThinkingPieces(message'.content) = ThinkingPieces(message.content),
             up' = up \/ up' # "opened"
      PROVE  CountInv'
  BY <1>1 DEF CountInv
<1>2. CASE UNCHANGED <<streamUsage, toolCallIndex, hasToolUse, streamThinkingChars, message>>
           /\ (up' = up \/ up' # "opened")
  BY <1>1, <1>2
<1>3. ASSUME NEW u \in Usages, MessageStart(u) PROVE CountInv'
  <2>1. Begins(u) /\ up = "opened" /\ streamUsage = NoUsage
    BY <1>3 DEF MessageStart, Begins, CountInv
  <2>2. /\ message'.content = message.content /\ message'.stop = message.stop
        /\ message'.usage = u /\ u \in Counts
    BY <2>1, CountEffect
  <2>3. UNCHANGED <<toolCallIndex, hasToolUse, streamThinkingChars>> /\ up' = "between"
    BY <2>1 DEF Begins
  <2>4. /\ streamUsage'.prompt = TotalInput(u) /\ streamUsage'.create = u.create
        /\ streamUsage'.read = u.read
    <3>1. u.input \in Nat /\ u.create \in Nat /\ u.read \in Nat /\ Prompt(u) = TotalInput(u)
      BY <2>2 DEF Counts, Prompt, TotalInput
    <3>2. CASE Prompt(u) > 0
      BY <1>3, <2>1, <3>1, <3>2 DEF MessageStart, NoUsage
    <3>3. CASE ~(Prompt(u) > 0)
      <4>1. Prompt(u) = 0 /\ u.create = 0 /\ u.read = 0
        BY <3>1, <3>3 DEF Prompt
      <4>. QED
        BY <1>3, <2>1, <3>1, <3>3, <4>1 DEF MessageStart, NoUsage
    <3>. QED
      BY <3>2, <3>3
  <2>. QED
    BY <2>2, <2>3, <2>4 DEF CountInv
<1>4. ASSUME NEW stop \in StopReasons, NEW u \in Usages, MessageDelta(stop, u) PROVE CountInv'
  <2>1. /\ Closing(stop, u) /\ up' = "closing"
        /\ UNCHANGED <<toolCallIndex, hasToolUse, streamThinkingChars>>
    BY <1>4 DEF MessageDelta, Closing
  <2>2. /\ message'.content = message.content /\ message'.stop = stop
        /\ message'.usage = [u EXCEPT !.input = message.usage.input]
        /\ message'.cumulative => /\ message.cumulative
                                  /\ u.create = message.usage.create
                                  /\ u.read = message.usage.read
    BY <2>1, CountEffect
  <2>3. u \in Counts
    BY ConstantsAssumption DEF Counts
  <2>4. message'.usage.input = message.usage.input /\ message'.usage.create = u.create
        /\ message'.usage.read = u.read
    BY <2>2, <2>3 DEF Counts
  <2>5. streamUsage'.prompt = streamUsage.prompt /\ streamUsage'.create = u.create
        /\ streamUsage'.read = u.read
    BY <1>0, <1>4 DEF MessageDelta, Usage
  <2>6. message'.cumulative =>
          /\ streamUsage'.prompt = TotalInput(message'.usage)
          /\ streamUsage'.create = message'.usage.create
          /\ streamUsage'.read = message'.usage.read
    BY <2>2, <2>4, <2>5 DEF CountInv, TotalInput
  <2>7. stop = "tool_use" => hasToolUse
    BY <2>1, ToolCounted DEF Closing, CountInv
  <2>. QED
    BY <2>1, <2>2, <2>6, <2>7 DEF CountInv
<1>5. ASSUME NEW b \in {"text", "thinking"}, BlockStart(b) PROVE CountInv'
  <2>1. /\ Block(b) /\ up' # "opened"
        /\ UNCHANGED <<streamUsage, toolCallIndex, hasToolUse, streamThinkingChars>>
    BY <1>5 DEF BlockStart, translator
  <2>2. /\ NewBlock(b) \in BlockSet /\ NewBlock(b).pieces = <<>>
        /\ message'.content = Append(message.content, NewBlock(b))
        /\ message'.stop = message.stop /\ message'.usage = message.usage
        /\ message'.cumulative = message.cumulative
    BY <2>1, BlockEffect DEF NewBlock
  <2>3. ThinkingPieces(Append(message.content, NewBlock(b))) = ThinkingPieces(message.content)
    BY <1>0, <2>2, NoPiecesYet
  <2>. QED
    BY <1>1, <2>1, <2>2, <2>3
<1>6. CASE ToolBlockStart
  <2>1. /\ Block("tool") /\ up' # "opened" /\ hasToolUse' = TRUE
        /\ UNCHANGED <<streamUsage, streamThinkingChars>>
    BY <1>6 DEF ToolBlockStart, ToolBlock
  <2>2. /\ NewBlock("tool") \in BlockSet /\ NewBlock("tool").pieces = <<>>
        /\ message'.content = Append(message.content, NewBlock("tool"))
        /\ message'.stop = message.stop /\ message'.usage = message.usage
        /\ message'.cumulative = message.cumulative
    BY <2>1, BlockEffect DEF NewBlock
  <2>3. ThinkingPieces(Append(message.content, NewBlock("tool"))) = ThinkingPieces(message.content)
    BY <1>0, <2>2, NoPiecesYet
  <2>. QED
    BY <2>1, <2>2, <2>3 DEF CountInv
<1>7. CASE TextDelta \/ InputJSONDelta
  <2>1. /\ Piece /\ up' = up /\ up \in {"text", "tool"}
        /\ UNCHANGED <<streamUsage, toolCallIndex, hasToolUse, streamThinkingChars>>
    BY <1>7 DEF TextDelta, InputJSONDelta, translator
  <2>2. /\ message.content # <<>> /\ message.content[Len(message.content)].type # "thinking"
        /\ message'.content = WithPiece(message.content, events + 1) /\ events + 1 \in Nat
        /\ message'.stop = message.stop /\ message'.usage = message.usage
        /\ message'.cumulative = message.cumulative
    BY <2>1, PieceMessage
  <2>3. ThinkingPieces(WithPiece(message.content, events + 1)) = ThinkingPieces(message.content)
    BY <1>0, <2>2, PieceCounted
  <2>. QED
    BY <1>1, <2>1, <2>2, <2>3
<1>8. CASE ThinkingDelta
  <2>1. /\ Piece /\ up' = up /\ up = "thinking"
        /\ streamThinkingChars' = streamThinkingChars + PieceChars
        /\ UNCHANGED <<streamUsage, toolCallIndex, hasToolUse>>
    BY <1>8 DEF ThinkingDelta
  <2>2. /\ message.content # <<>> /\ message.content[Len(message.content)].type = "thinking"
        /\ message'.content = WithPiece(message.content, events + 1) /\ events + 1 \in Nat
        /\ message'.stop = message.stop /\ message'.usage = message.usage
        /\ message'.cumulative = message.cumulative
    BY <2>1, PieceMessage
  <2>3. /\ ThinkingPieces(message.content) \in Nat
        /\ ThinkingPieces(WithPiece(message.content, events + 1)) = ThinkingPieces(message.content) + 1
    BY <1>0, <2>2, PieceCounted
  <2>4. \A p, n \in Nat : p * (n + 1) = p * n + p
    OBVIOUS
  <2>5. streamThinkingChars' = PieceChars * ThinkingPieces(message'.content)
    BY <1>0, <2>1, <2>2, <2>3, <2>4 DEF CountInv
  <2>. QED
    BY <2>1, <2>2, <2>5 DEF CountInv
<1>9. CASE Ending
  BY <1>2, <1>9, EndingEffect
<1>10. CASE Refuse \/ Open \/ WriteChunk \/ WriteDone \/ BlockStop \/ StreamError \/ UNCHANGED vars
  BY <1>2, <1>10 DEF Refuse, Open, WriteChunk, WriteDone, BlockStop, StreamError, vars, upstream, translator
<1>. QED
  BY <1>3, <1>4, <1>5, <1>6, <1>7, <1>8, <1>9, <1>10 DEF Next, Upstream, Ending

\* The starts of tool calls are chunks of that kind.
LEMMA StartsType ==
  ASSUME NEW T, NEW seen \in Seq(T)
  PROVE  StartsOf(seen) \in Seq(Chunks({"tool_start"}, Int))
<1>1. Text(TRUE, 0) \in Chunks(ContentKinds, Int)
  BY DEF Chunks, ContentKinds, Text
<1>. QED
  BY <1>1, ChunkEffect

\* What the translator has said so far, and what it has counted, fit the message.
AnswerInv == MessageInv /\ AgreeInv /\ CountInv

\* The strengthened invariant of the stream: at every moment what was sent, or is
\* about to be, is what mapResponse would make of the message so far, and the
\* translator has counted what is in the message (service.go:116-204, 381-422).
THEOREM AnswerInvariant == Spec => [](StreamInv /\ AnswerInv)
<1>1. Init => StreamInv /\ AnswerInv
  BY StreamInit, MessageInit, AgreeInit, CountInit DEF AnswerInv
<1>2. StreamInv /\ AnswerInv /\ [Next]_vars => StreamInv' /\ AnswerInv'
  <2>. SUFFICES ASSUME StreamInv, AnswerInv, [Next]_vars PROVE StreamInv' /\ AnswerInv'
    OBVIOUS
  <2>1. StreamInv'
    BY ShapeStep, PendingStep, FinishStep, UsageStep, RoleStep DEF StreamInv
  <2>2. MessageInv'
    BY <2>1, MessageStep DEF StreamInv, AnswerInv
  <2>3. AgreeInv'
    BY AgreeStep DEF StreamInv, AnswerInv
  <2>4. CountInv'
    BY CountStep DEF StreamInv, AnswerInv
  <2>. QED
    BY <2>1, <2>2, <2>3, <2>4 DEF AnswerInv
<1>. QED
  BY <1>1, <1>2, PTL DEF Spec

\* Every variable keeps its type (service.go:98-204).
THEOREM StreamTypeCorrect == Spec => []TypeOK
<1>1. AnswerInv => TypeOK
  BY DEF AnswerInv, MessageInv
<1>. QED
  BY <1>1, AnswerInvariant, PTL

\* A client that puts the chunks together has the content and the tool calls that the
\* answer without streaming would have had (service.go:116-204, 381-422).
THEOREM SameAnswer == Spec => []StreamAgrees
<1>1. StreamInv /\ AnswerInv => StreamAgrees
  <2>. SUFFICES ASSUME StreamInv, AnswerInv, handler = "next"
                PROVE  LET response == MapResponse(message) IN
                       /\ Assembled.content = response.content
                       /\ Assembled.toolCalls = response.toolCalls
                       /\ \A t \in DOMAIN OfKind("tool_start") : OfKind("tool_start")[t].index = t - 1
    BY DEF StreamAgrees
  <2>. DEFINE n == toolCallIndex
              starts == StartsOf(out)
              tools == BlocksOf(message.content, "tool")
  <2>1. chunk.kind = "none" /\ Seen = out
    BY DEF StreamInv, PendingInv, Seen, ContentKinds
  <2>2. Agrees(out, message.content, n)
    BY <2>1 DEF AnswerInv, AgreeInv
  <2>3. tools \in Seq(BlockSet) /\ n \in Nat
    BY FilterType DEF AnswerInv, MessageInv, TypeOK, BlocksOf
  <2>4. starts \in Seq(Chunks({"tool_start"}, Int))
    <3>1. PICK S : out \in Seq(S)
      BY DEF StreamInv, ShapeInv
    <3>. QED
      BY <3>1, StartsType
  <2>5. DOMAIN starts = 1..n /\ DOMAIN tools = 1..n
    BY <2>2, <2>3, <2>4, LenProperties DEF Agrees
  <2>. HIDE DEF starts, tools
  <2>6. OfKind("tool_start") = starts /\ PiecesOf(OfKind("text")) = TextOf(out)
    BY DEF OfKind, starts, StartsOf, TextOf
  <2>7. \A t \in 1..n :
          /\ starts[t].index = t - 1 /\ starts[t].piece = tools[t].id
          /\ ArgsOf(out, starts[t].index) = tools[t].pieces
    BY <2>2 DEF Agrees, starts, tools
  <2>8. Assembled.content = MapResponse(message).content
    BY <2>2, <2>6 DEF Assembled, MapResponse, Agrees
  <2>9. Assembled.toolCalls = [t \in 1..n |-> [id |-> starts[t].piece, args |-> ArgsOf(out, starts[t].index)]]
    BY <2>5, <2>6 DEF Assembled, ArgsOf
  <2>10. MapResponse(message).toolCalls = [t \in 1..n |-> [id |-> tools[t].id, args |-> tools[t].pieces]]
    BY <2>5 DEF MapResponse, tools
  <2>11. Assembled.toolCalls = MapResponse(message).toolCalls
    BY <2>7, <2>9, <2>10
  <2>12. \A t \in DOMAIN OfKind("tool_start") : OfKind("tool_start")[t].index = t - 1
    BY <2>5, <2>6, <2>7
  <2>. QED
    BY <2>8, <2>11, <2>12
<1>. QED
  BY <1>1, AnswerInvariant, PTL

\* The usage, the cost and the reason in the finish chunk are those of the answer
\* without streaming, and the reasoning tokens differ by the rounding at most
\* (service.go:126-138, 178-200, 381-422).
THEOREM SameUsage == Spec => []UsageAgrees
<1>1. StreamInv /\ AnswerInv => UsageAgrees
  <2>. SUFFICES ASSUME StreamInv, AnswerInv, NEW i \in Sent("finish"), up = "ended", message.cumulative
                PROVE  /\ out[i].usage = MapResponse(message).usage
                       /\ out[i].cost = MapResponse(message).cost
                       /\ MapResponse(message).finishReason = "tool_calls" => out[i].reason = "tool_calls"
                       /\ out[i].reasoning \in
                            (MapResponse(message).reasoning - Len(BlocksOf(message.content, "thinking")))
                              ..MapResponse(message).reasoning
    BY DEF UsageAgrees
  <2>1. out[i] = TheFinishChunk
    BY DEF StreamInv, FinishInv
  <2>2. /\ out[i].usage = streamUsage /\ out[i].cost = Cost(streamUsage)
        /\ out[i].reason = IF hasToolUse THEN "tool_calls" ELSE "stop"
        /\ out[i].reasoning = EstimateThinkingTokens(streamThinkingChars)
    BY <2>1 DEF TheFinishChunk, FinishChunk
  <2>3. streamUsage = MapUsage(message.usage)
    <3>1. /\ streamUsage.prompt = TotalInput(message.usage)
          /\ streamUsage.create = message.usage.create /\ streamUsage.read = message.usage.read
          /\ streamUsage.completion = message.usage.output
          /\ streamUsage.total = streamUsage.prompt + streamUsage.completion
      BY DEF AnswerInv, CountInv, StreamInv, UsageInv
    <3>. QED
      BY <3>1 DEF MapUsage, StreamInv, ShapeInv, Usage
  <2>4. /\ MapResponse(message).usage = MapUsage(message.usage)
        /\ MapResponse(message).cost = Cost(MapUsage(message.usage))
        /\ MapResponse(message).finishReason = FinishReason(message.stop)
        /\ MapResponse(message).reasoning = ThinkingTokens(message.content)
    BY DEF MapResponse
  <2>5. FinishReason(message.stop) = "tool_calls" => hasToolUse
    <3>1. message.stop \in StopReasons \cup {"none"}
      BY DEF AnswerInv, MessageInv, TypeOK
    <3>2. message.stop = "tool_use" => hasToolUse
      BY DEF AnswerInv, CountInv
    <3>. QED
      BY <3>1, <3>2 DEF FinishReason, StopReasons
  <2>6. EstimateThinkingTokens(streamThinkingChars) \in
          (ThinkingTokens(message.content) - Len(BlocksOf(message.content, "thinking")))
            ..ThinkingTokens(message.content)
    BY RoundingAtOnce DEF AnswerInv, CountInv, MessageInv, ThinkingPieces
  <2>. QED
    BY <2>2, <2>3, <2>4, <2>5, <2>6
<1>. QED
  BY <1>1, AnswerInvariant, PTL

\* The arithmetic of the rates.
LEMMA Rates ==
  ASSUME NEW p \in Nat, NEW a \in Nat, NEW b \in Nat, NEW c \in Nat
  PROVE  /\ 20 * p * a + 25 * p * b + 2 * p * c >= 2 * p * (a + b + c)
         /\ 20 * p * a + 25 * p * b + 2 * p * c <= 25 * p * (a + b + c)
<1>. DEFINE x == p * a
            y == p * b
            z == p * c
<1>1. x \in Nat /\ y \in Nat /\ z \in Nat /\ p * (a + b + c) = x + y + z
  OBVIOUS
<1>2. 20 * p * a = 20 * x /\ 25 * p * b = 25 * y /\ 2 * p * c = 2 * z
      /\ 2 * p * (a + b + c) = 2 * (p * (a + b + c)) /\ 25 * p * (a + b + c) = 25 * (p * (a + b + c))
  OBVIOUS
<1>. HIDE DEF x, y, z
<1>. QED
  BY <1>1, <1>2

\* What a stream is priced at is between the cache-read and the cache-write rate for
\* every token of the prompt, whatever the usage and the price (cost.go).
THEOREM FairPrice == Spec => []CostWithinRates
<1>1. StreamInv /\ AnswerInv => CostWithinRates
  <2>. SUFFICES ASSUME StreamInv, AnswerInv, NEW i \in Sent("finish"), message.cumulative
                PROVE  LET usage == out[i].usage
                           promptCost == out[i].cost.total - 20 * Price.output * usage.completion
                       IN  /\ usage.create + usage.read <= usage.prompt
                           /\ promptCost \in (2 * Price.input * usage.prompt)..(25 * Price.input * usage.prompt)
    BY DEF CostWithinRates
  <2>. DEFINE usage == streamUsage
              rest == message.usage.input
              p == Price.input
              o == 20 * Price.output * usage.completion
  <2>1. out[i].usage = usage /\ out[i].cost = Cost(usage)
    BY DEF StreamInv, FinishInv, TheFinishChunk, FinishChunk
  <2>2. /\ message.usage \in Counts /\ usage \in Usage /\ p \in Nat /\ Price.output \in Nat
        /\ usage.prompt = TotalInput(message.usage)
        /\ usage.create = message.usage.create /\ usage.read = message.usage.read
    BY ConstantsAssumption DEF AnswerInv, MessageInv, CountInv, StreamInv, ShapeInv
  <2>3. /\ rest \in Nat /\ usage.create \in Nat /\ usage.read \in Nat /\ usage.completion \in Nat
        /\ usage.prompt = rest + usage.create + usage.read
    BY <2>2 DEF Counts, Usage, TotalInput
  <2>4. /\ usage.create + usage.read <= usage.prompt
        /\ usage.prompt - usage.create - usage.read = rest /\ ~(rest < 0)
    BY <2>3
  <2>5. o \in Nat
    BY <2>2, <2>3
  <2>6. Cost(usage).total - o = 20 * p * rest + 25 * p * usage.create + 2 * p * usage.read
    <3>1. CASE p = 0 /\ Price.output = 0
      <4>1. Cost(usage).total = 0 /\ o = 0
        BY <2>3, <3>1 DEF Cost, NoCost
      <4>2. 20 * p * rest = 0 /\ 25 * p * usage.create = 0 /\ 2 * p * usage.read = 0
        BY <2>3, <3>1
      <4>. QED
        BY <4>1, <4>2
    <3>2. CASE ~(p = 0 /\ Price.output = 0)
      <4>1. Cost(usage).total = 20 * p * rest + o + 25 * p * usage.create + 2 * p * usage.read
        BY <2>4, <3>2 DEF Cost, Calculate
      <4>2. 20 * p * rest \in Nat /\ 25 * p * usage.create \in Nat /\ 2 * p * usage.read \in Nat
        BY <2>2, <2>3
      <4>. HIDE DEF o, p, usage, rest
      <4>. QED
        BY <2>5, <4>1, <4>2
    <3>. QED
      BY <3>1, <3>2
  <2>7. /\ 20 * p * rest + 25 * p * usage.create + 2 * p * usage.read >= 2 * p * usage.prompt
        /\ 20 * p * rest + 25 * p * usage.create + 2 * p * usage.read <= 25 * p * usage.prompt
    <3>. HIDE DEF p, usage, rest
    <3>. QED
      BY <2>2, <2>3, Rates
  <2>8. 20 * p * rest + 25 * p * usage.create + 2 * p * usage.read
          \in (2 * p * usage.prompt)..(25 * p * usage.prompt)
    <3>1. 20 * p * rest \in Nat /\ 25 * p * usage.create \in Nat /\ 2 * p * usage.read \in Nat
          /\ 2 * p * usage.prompt \in Nat /\ 25 * p * usage.prompt \in Nat
      BY <2>2, <2>3
    <3>. HIDE DEF p, usage, rest
    <3>. QED
      BY <2>7, <3>1
  <2>. QED
    BY <2>1, <2>4, <2>6, <2>8
<1>. QED
  BY <1>1, AnswerInvariant, PTL
==============================================================================
