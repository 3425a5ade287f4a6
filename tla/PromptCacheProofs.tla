-------------------------- MODULE PromptCacheProofs --------------------------
(***************************************************************************)
(* Theorems about the requests of a conversation, for any messages, tools, *)
(* efforts, limits and turns: they have at most four breakpoints, and the  *)
(* breakpoints are where the cache is read from.                           *)
(*                                                                         *)
(* That a request reads what the last one stored is not a fact about the   *)
(* two alone: between them the cache is evicted or not, other turns are    *)
(* counted, messages are added.  CacheInv says what the cache holds until  *)
(* then.                                                                   *)
(***************************************************************************)
EXTENDS PromptCache, SequenceFacts

\* Of the user messages no more than two carry a breakpoint, wherever they stand:
\* all but the first of them are later than it (anthropic/service.go:273-288).
LEMMA FewMarked ==
  ASSUME NEW T, NEW ms \in Seq(T)
  PROVE  /\ CacheSet(ms) \subseteq 1..Len(ms)
         /\ IsFiniteSet(CacheSet(ms)) /\ Cardinality(CacheSet(ms)) <= 2
<1>1. DOMAIN ms = 1..Len(ms) /\ Len(ms) \in Nat
  BY LenProperties
<1>2. CacheSet(ms) \subseteq 1..Len(ms)
  BY <1>1 DEF CacheSet
<1>3. IsFiniteSet(CacheSet(ms))
  BY <1>1, <1>2, Positions
<1>4. CASE CacheSet(ms) = {}
  BY <1>2, <1>4, FS_EmptySet
<1>5. CASE CacheSet(ms) # {}
  <2>1. PICK m \in CacheSet(ms) : \A i \in CacheSet(ms) : m <= i
    <3>1. CacheSet(ms) \subseteq Nat
      BY <1>1, <1>2
    <3>. QED
      BY <1>5, <3>1, Least
  <2>2. CacheSet(ms) \ {m} \subseteq LaterUsers(ms, m)
    <3>1. ASSUME NEW i \in CacheSet(ms), i # m PROVE i > m
      BY <1>1, <1>2, <2>1, <3>1
    <3>. QED
      BY <3>1 DEF CacheSet, LaterUsers
  <2>3. IsFiniteSet(LaterUsers(ms, m))
    <3>1. LaterUsers(ms, m) \subseteq 1..Len(ms)
      BY <1>1 DEF LaterUsers
    <3>. QED
      BY <1>1, <3>1, Positions
  <2>4. Cardinality(LaterUsers(ms, m)) < 2
    BY <2>1 DEF CacheSet
  <2>5. Cardinality(CacheSet(ms) \ {m}) <= Cardinality(LaterUsers(ms, m))
    BY <2>2, <2>3, FS_Subset
  <2>6. Cardinality(CacheSet(ms) \ {m}) = Cardinality(CacheSet(ms)) - 1
    BY <1>3, <2>1, FS_RemoveElement
  <2>7. /\ Cardinality(CacheSet(ms)) \in Nat
        /\ Cardinality(LaterUsers(ms, m)) \in Nat
    BY <1>3, <2>3, FS_CardinalityType
  <2>. QED
    BY <1>2, <1>3, <2>4, <2>5, <2>6, <2>7
<1>. QED
  BY <1>4, <1>5

\* The longest stored prefix of a request is at least as long as any stored one
\* that ends at a breakpoint.
LEMMA ReadAtLeast ==
  ASSUME NEW prompt, NEW n \in Nat, NEW marks, marks \subseteq 0..n,
         NEW i \in marks, SubSeq(prompt, 1, i) \in cache
  PROVE  Read(prompt, marks) \in Nat /\ Read(prompt, marks) >= i
<1>. DEFINE hits == {j \in marks : SubSeq(prompt, 1, j) \in cache}
<1>1. hits \subseteq 0..n /\ i \in hits
  OBVIOUS
<1>2. Read(prompt, marks) = CHOOSE m \in hits : \A j \in hits : j <= m
  BY <1>1 DEF Read
<1>. HIDE DEF hits
<1>3. \E m \in hits : \A j \in hits : j <= m
  BY <1>1, Greatest
<1>4. /\ Read(prompt, marks) \in hits
      /\ \A j \in hits : j <= Read(prompt, marks)
  BY <1>2, <1>3
<1>5. \A j \in 0..n : j \in Nat
  OBVIOUS
<1>. QED
  BY <1>1, <1>4, <1>5

-----------------------------------------------------------------------------
(* The blocks of a request *)

Messages == [role : Roles, text : Texts]
Blocks   == [role : Roles \cup {"billing", "function", ""}, text : Nat]

\* Every variable stays within its type, and no request has been sent before the
\* first message.
Typed ==
  /\ billing \in BOOLEAN
  /\ conversation \in Seq(Messages)
  /\ tools \in Seq(BOOLEAN)
  /\ turnCounter \in Nat
  /\ warm \in 0..Len(conversation)
  /\ sent # NoRequest => conversation # <<>>
  /\ sent.after \in Nat

\* The blocks of a request are sequences of blocks.
LEMMA BlocksTyped ==
  ASSUME Typed, NEW turn \in Nat
  PROVE  /\ ToolBlocks \in Seq(Blocks)
         /\ SystemBlocks(turn) \in Seq(Blocks)
         /\ MessageBlocks \in Seq(Blocks)
         /\ MessageBlocks \in Seq(Messages)
<1>1. Messages \subseteq Blocks
  BY PromptAssumption DEF Messages, Blocks
<1>2. ToolBlocks \in Seq(Blocks)
  <2>. DEFINE block == [i \in DOMAIN tools |-> [role |-> IF tools[i] THEN "function" ELSE "", text |-> i]]
  <2>1. DOMAIN tools = 1..Len(tools) /\ Len(tools) \in Nat
    BY LenProperties DEF Typed
  <2>2. block \in Seq(Blocks)
    BY <2>1 DEF Blocks
  <2>. HIDE DEF block
  <2>3. Filter(block, [role : {"function"}, text : Nat]) \in Seq(Blocks)
    BY <2>2, FilterType
  <2>. QED
    BY <2>3 DEF ToolBlocks, block
<1>3. MessageBlocks \in Seq(Messages) /\ Filter(conversation, Instructions) \in Seq(Messages)
  BY FilterType DEF MessageBlocks, Typed
<1>4. MessageBlocks \in Seq(Blocks) /\ Filter(conversation, Instructions) \in Seq(Blocks)
  BY <1>1, <1>3, SeqMonotonic
<1>5. Header(turn) \in Seq(Blocks)
  <2>1. [role |-> "billing", text |-> turn] \in Blocks
    BY DEF Blocks
  <2>2. <<>> \in Seq(Blocks) /\ \A b \in Blocks : <<b>> \in Seq(Blocks)
    OBVIOUS
  <2>. QED
    BY <2>1, <2>2 DEF Header
<1>6. SystemBlocks(turn) \in Seq(Blocks)
  BY <1>4, <1>5, ConcatProperties DEF SystemBlocks
<1>. QED
  BY <1>2, <1>3, <1>4, <1>6

\* The breakpoints of a request are positions of its prompt, and at most four.
LEMMA MarksBounded ==
  ASSUME Typed, NEW turn \in Nat
  PROVE  /\ Marks(turn) \subseteq
              0..(Len(ToolBlocks) + Len(SystemBlocks(turn)) + Len(MessageBlocks))
         /\ Len(ToolBlocks) + Len(SystemBlocks(turn)) + Len(MessageBlocks) \in Nat
         /\ Cardinality(Marks(turn)) <= 4
<1>. DEFINE front == Len(ToolBlocks) + Len(SystemBlocks(turn))
            A == ToolMark
            B == IF SystemBlocks(turn) # <<>> THEN {front} ELSE {}
            C == {front + i : i \in CacheSet(MessageBlocks)}
<1>1. Len(ToolBlocks) \in Nat /\ Len(SystemBlocks(turn)) \in Nat /\ Len(MessageBlocks) \in Nat
  BY BlocksTyped, LenProperties
<1>2. /\ CacheSet(MessageBlocks) \subseteq 1..Len(MessageBlocks)
      /\ IsFiniteSet(CacheSet(MessageBlocks)) /\ Cardinality(CacheSet(MessageBlocks)) <= 2
  BY BlocksTyped, FewMarked
<1>3. Marks(turn) = (A \cup B) \cup C
  BY DEF Marks
<1>4. A \subseteq {Len(ToolBlocks)} /\ B \subseteq {front}
  BY DEF ToolMark
<1>5. /\ IsFiniteSet(A) /\ Cardinality(A) <= 1
      /\ IsFiniteSet(B) /\ Cardinality(B) <= 1
  <2>. HIDE DEF A, B, front
  <2>1. ASSUME NEW x, NEW S, S \subseteq {x} PROVE IsFiniteSet(S) /\ Cardinality(S) <= 1
    <3>1. IsFiniteSet({x}) /\ Cardinality({x}) = 1
      BY FS_Singleton
    <3>. QED
      BY <2>1, <3>1, FS_Subset
  <2>. QED
    BY <1>4, <2>1
<1>6. IsFiniteSet(C) /\ Cardinality(C) <= 2
  <2>1. C \subseteq Int /\ 0 - front \in Int /\ \A i \in C : i + (0 - front) \in CacheSet(MessageBlocks)
    BY <1>1, <1>2
  <2>2. IsFiniteSet(C) /\ Cardinality(C) <= Cardinality(CacheSet(MessageBlocks))
    <3>. HIDE DEF C, front
    <3>. QED
      BY <1>2, <2>1, Shift
  <2>3. Cardinality(C) \in Nat /\ Cardinality(CacheSet(MessageBlocks)) \in Nat
    BY <1>2, <2>2, FS_CardinalityType
  <2>. QED
    BY <1>2, <2>2, <2>3
<1>7. Cardinality((A \cup B) \cup C) <= 4
  <2>. HIDE DEF A, B, C
  <2>1. /\ IsFiniteSet(A \cup B)
        /\ Cardinality(A \cup B) = Cardinality(A) + Cardinality(B) - Cardinality(A \cap B)
    BY <1>5, FS_Union
  <2>2. Cardinality((A \cup B) \cup C) =
          Cardinality(A \cup B) + Cardinality(C) - Cardinality((A \cup B) \cap C)
    BY <1>6, <2>1, FS_Union
  <2>3. IsFiniteSet(A \cap B) /\ IsFiniteSet((A \cup B) \cap C)
    BY <1>5, <2>1, FS_Intersection
  <2>4. /\ Cardinality(A) \in Nat /\ Cardinality(B) \in Nat /\ Cardinality(C) \in Nat
        /\ Cardinality(A \cap B) \in Nat /\ Cardinality((A \cup B) \cap C) \in Nat
    BY <1>5, <1>6, <2>3, FS_CardinalityType
  <2>. QED
    BY <1>5, <1>6, <2>1, <2>2, <2>4
<1>8. (A \cup B) \cup C \subseteq 0..(front + Len(MessageBlocks))
  <2>1. \A i \in CacheSet(MessageBlocks) : front + i \in 0..(front + Len(MessageBlocks))
    BY <1>1, <1>2
  <2>. QED
    BY <1>1, <1>4, <2>1
<1>. QED
  BY <1>1, <1>3, <1>7, <1>8

\* The prefix of a prompt that ends with the tools, and those that end with a
\* message.
LEMMA PrefixesOfPrompt ==
  ASSUME Typed, NEW turn \in Nat
  PROVE  /\ SubSeq(Prompt(turn), 1, Len(ToolBlocks)) = ToolBlocks
         /\ \A i \in 0..Len(MessageBlocks) :
              SubSeq(Prompt(turn), 1, Len(ToolBlocks) + Len(SystemBlocks(turn)) + i)
                = (ToolBlocks \o SystemBlocks(turn)) \o SubSeq(MessageBlocks, 1, i)
         /\ Len(Prompt(turn)) = Len(ToolBlocks) + Len(SystemBlocks(turn)) + Len(MessageBlocks)
<1>. DEFINE t == ToolBlocks
            s == SystemBlocks(turn)
            m == MessageBlocks
<1>1. t \in Seq(Blocks) /\ s \in Seq(Blocks) /\ m \in Seq(Blocks)
  BY BlocksTyped
<1>2. Prompt(turn) = (t \o s) \o m
  BY DEF Prompt
<1>. HIDE DEF t, s, m
<1>3. /\ t \o s \in Seq(Blocks) /\ s \o m \in Seq(Blocks)
      /\ Len(t \o s) = Len(t) + Len(s)
      /\ Len((t \o s) \o m) = Len(t) + Len(s) + Len(m)
      /\ Len(t) \in Nat /\ Len(s) \in Nat /\ Len(m) \in Nat
  BY <1>1, LenProperties, ConcatProperties
<1>4. SubSeq(Prompt(turn), 1, Len(t)) = t
  <2>1. (t \o s) \o m = t \o (s \o m)
    <3>1. \A x, y, z \in Seq(Blocks) : (x \o y) \o z = x \o (y \o z)
      BY Associative
    <3>. QED
      BY <1>1, <3>1, Zenon
  <2>2. 0 \in 0..Len(s \o m)
    BY <1>3, LenProperties
  <2>3. SubSeq(t \o (s \o m), 1, Len(t) + 0) = t \o SubSeq(s \o m, 1, 0)
    BY <1>1, <1>3, <2>2, PrefixOfConcat
  <2>4. SubSeq(s \o m, 1, 0) = <<>> /\ t \o <<>> = t
    BY <1>1, SubSeqEmpty, ConcatEmptySeq
  <2>. QED
    BY <1>2, <1>3, <2>1, <2>3, <2>4
<1>5. ASSUME NEW i \in 0..Len(m)
      PROVE  SubSeq(Prompt(turn), 1, Len(t) + Len(s) + i) = (t \o s) \o SubSeq(m, 1, i)
  <2>1. SubSeq((t \o s) \o m, 1, Len(t \o s) + i) = (t \o s) \o SubSeq(m, 1, i)
    BY <1>1, <1>3, PrefixOfConcat, ZenonT(60)
  <2>. QED
    BY <1>2, <1>3, <2>1
<1>. QED
  BY <1>2, <1>3, <1>4, <1>5 DEF t, s, m

-----------------------------------------------------------------------------
(* What is in the cache *)

Rules(ms) == Filter(ms, Instructions)
Talk(ms)  == Filter(ms, Dialogue)

\* The prefixes that a request with these messages and no billing header stores
\* for its user messages.
Stored(ms) ==
  {(ToolBlocks \o Rules(ms)) \o SubSeq(Talk(ms), 1, i) : i \in CacheSet(Talk(ms))}

\* While the history is warm the cache holds the tools, if their last is kept, and,
\* without a billing header, the history as it was sent (anthropic/service.go:273-357).
CacheInv ==
  warm > 0 =>
    /\ tools # <<>> /\ tools[Len(tools)] => ToolBlocks \in cache
    /\ ~billing => Stored(SubSeq(conversation, 1, warm)) \subseteq cache

\* A conversation is what came up to its p-th message, up to its w-th, and since.
LEMMA ThreeParts ==
  ASSUME NEW c \in Seq(Messages), NEW w \in 1..Len(c), NEW p \in 1..w
  PROVE  LET d == SubSeq(c, 1, p)
             e == SubSeq(c, p + 1, w)
             g == SubSeq(c, w + 1, Len(c))
         IN  /\ d \in Seq(Messages) /\ e \in Seq(Messages) /\ g \in Seq(Messages)
             /\ d = Append(SubSeq(c, 1, p - 1), c[p])
             /\ SubSeq(c, 1, w) = d \o e
             /\ SubSeq(c, p + 1, Len(c)) = e \o g
             /\ c = SubSeq(c, 1, w) \o g
             /\ c = d \o (e \o g)
<1>. DEFINE d == SubSeq(c, 1, p)
            e == SubSeq(c, p + 1, w)
            g == SubSeq(c, w + 1, Len(c))
<1>1. Len(c) \in Nat /\ w \in Nat /\ p \in Nat /\ \A i \in 1..Len(c) : c[i] \in Messages
  BY LenProperties, ElementOfSeq
<1>2. d \in Seq(Messages) /\ e \in Seq(Messages) /\ g \in Seq(Messages)
  BY <1>1
<1>3. d = Append(SubSeq(c, 1, p - 1), c[p])
  BY <1>1
<1>4. SubSeq(c, 1, w) = d \o e
  BY <1>1, ConcatAdjacentSubSeq
<1>5. SubSeq(c, p + 1, Len(c)) = e \o g
  <2>1. p + 1 \in 1..(Len(c) + 1) /\ w \in ((p + 1) - 1)..Len(c) /\ Len(c) \in w..Len(c)
    BY <1>1
  <2>. QED
    BY <2>1, ConcatAdjacentSubSeq
<1>6. c = SubSeq(c, 1, w) \o g
  <2>1. 1 \in 1..(Len(c) + 1) /\ w \in (1 - 1)..Len(c) /\ Len(c) \in w..Len(c)
    BY <1>1
  <2>2. SubSeq(c, 1, w) \o g = SubSeq(c, 1, Len(c))
    BY <2>1, ConcatAdjacentSubSeq
  <2>. QED
    BY <2>2, SubSeqFull
<1>7. c = d \o (e \o g)
  <2>1. 1 \in 1..(Len(c) + 1) /\ p \in (1 - 1)..Len(c) /\ Len(c) \in p..Len(c)
    BY <1>1
  <2>2. d \o SubSeq(c, p + 1, Len(c)) = SubSeq(c, 1, Len(c))
    BY <2>1, ConcatAdjacentSubSeq
  <2>. QED
    BY <1>5, <2>2, SubSeqFull
<1>. HIDE DEF d, e, g
<1>. QED
  BY <1>2, <1>3, <1>4, <1>5, <1>6, <1>7 DEF d, e, g

\* What is taken of two parts together is what is taken of each.
LEMMA TakenOfParts ==
  ASSUME NEW x \in Seq(Messages), NEW y \in Seq(Messages)
  PROVE  /\ Talk(x \o y) = Talk(x) \o Talk(y)
         /\ Rules(x \o y) = Rules(x) \o Rules(y)
BY FilterConcat DEF Talk, Rules

\* What is taken of the three parts of a conversation.
LEMMA TakenOfThreeParts ==
  ASSUME NEW c \in Seq(Messages), NEW w \in 1..Len(c), NEW p \in 1..w
  PROVE  LET d == SubSeq(c, 1, p)
             e == SubSeq(c, p + 1, w)
             g == SubSeq(c, w + 1, Len(c))
         IN  /\ Talk(c) = (Talk(d) \o Talk(e)) \o Talk(g)
             /\ Talk(c) = Talk(d) \o Talk(e \o g)
             /\ Talk(SubSeq(c, 1, w)) = Talk(d) \o Talk(e)
             /\ Rules(c) = Rules(SubSeq(c, 1, w)) \o Rules(g)
<1>. DEFINE d == SubSeq(c, 1, p)
            e == SubSeq(c, p + 1, w)
            g == SubSeq(c, w + 1, Len(c))
            h == SubSeq(c, 1, w)
            q == SubSeq(c, p + 1, Len(c))
<1>1. /\ d \in Seq(Messages) /\ e \in Seq(Messages) /\ g \in Seq(Messages)
      /\ h = d \o e /\ q = e \o g /\ c = h \o g /\ c = d \o q
  BY ThreeParts, ZenonT(60)
<1>2. h \in Seq(Messages) /\ q \in Seq(Messages)
  BY <1>1, ConcatProperties
<1>. HIDE DEF d, e, g, h, q
<1>3. Talk(h) = Talk(d) \o Talk(e)
  BY <1>1, TakenOfParts
<1>4. Talk(c) = Talk(h) \o Talk(g) /\ Rules(c) = Rules(h) \o Rules(g)
  <2>1. g \in Seq(Messages) /\ c = h \o g
    BY <1>1
  <2>2. Talk(h \o g) = Talk(h) \o Talk(g) /\ Rules(h \o g) = Rules(h) \o Rules(g)
    BY <1>2, <2>1, TakenOfParts
  <2>. QED
    BY <2>1, <2>2
<1>5. Talk(c) = Talk(d) \o Talk(q)
  BY <1>1, <1>2, TakenOfParts, ZenonT(60)
<1>. QED
  BY <1>1, <1>3, <1>4, <1>5 DEF d, e, g, h, q

\* In a conversation that goes on after its first p messages, the last of them of
\* the user, with at most one user message and no system message, that message is
\* still one of the last two, and the front of the prompt before it is the same.
LEMMA StillMarked ==
  ASSUME NEW c \in Seq(Messages), NEW w \in 1..Len(c), NEW p \in 1..w,
         c[p].role = "user",
         \A i \in (p + 1)..w : c[i].role # "user",
         \A i \in (w + 1)..Len(c) : c[i].role # "system",
         Cardinality(Users(SubSeq(c, w + 1, Len(c)))) <= 1
  PROVE  LET u == Len(Talk(SubSeq(c, 1, p))) IN
         /\ u \in CacheSet(Talk(SubSeq(c, 1, w)))
         /\ u \in CacheSet(Talk(c))
         /\ SubSeq(Talk(c), 1, u) = SubSeq(Talk(SubSeq(c, 1, w)), 1, u)
         /\ Rules(c) = Rules(SubSeq(c, 1, w))
         /\ Len(Talk(c)) - u <= Cardinality({i \in DOMAIN c : c[i].role # "system" /\ i > p})
<1>. DEFINE a == SubSeq(c, 1, p - 1)
            d == SubSeq(c, 1, p)
            e == SubSeq(c, p + 1, w)
            g == SubSeq(c, w + 1, Len(c))
            Silent == [role : Roles \ {"user"}, text : Texts]
            User   == [role : {"user"}, text : Texts]
            u == Len(Talk(d))
<1>0. \A x, y \in Seq(Messages) :
        /\ x \o y \in Seq(Messages)
        /\ Len(x) \in Nat /\ Len(y) \in Nat
        /\ DOMAIN x = 1..Len(x) /\ DOMAIN (x \o y) = 1..(Len(x) + Len(y))
        /\ \A j \in 1..(Len(x) + Len(y)) :
             (x \o y)[j] = IF j <= Len(x) THEN x[j] ELSE y[j - Len(x)]
  BY ConcatProperties, LenProperties
<1>1. /\ Len(c) \in Nat /\ w \in Nat /\ p \in Nat /\ DOMAIN c = 1..Len(c)
      /\ p <= Len(c)
      /\ \A i \in 1..Len(c) : c[i] \in Messages
  BY LenProperties, ElementOfSeq
<1>2. /\ a \in Seq(Messages) /\ d \in Seq(Messages) /\ SubSeq(c, 1, w) \in Seq(Messages)
  BY <1>1
<1>3. e \in Seq(Silent) /\ e \in Seq(Messages)
  <2>1. \A i \in (p + 1)..w : c[i] \in Silent /\ c[i] \in Messages
    BY <1>1 DEF Messages
  <2>. HIDE DEF Silent
  <2>. QED
    BY <1>1, <2>1, SubSeqProperties
<1>4. g \in Seq(Dialogue) /\ g \in Seq(Messages)
  <2>1. \A i \in (w + 1)..Len(c) : c[i] \in Dialogue /\ c[i] \in Messages
    BY <1>1 DEF Messages, Dialogue
  <2>. QED
    BY <1>1, <2>1, SubSeqProperties
<1>5. /\ d = Append(a, c[p])
      /\ SubSeq(c, 1, w) = d \o e
      /\ SubSeq(c, p + 1, Len(c)) = e \o g
      /\ c = d \o (e \o g)
  BY ThreeParts
<1>. HIDE DEF a, d, e, g, Silent, User
<1>6. /\ Talk(c) = (Talk(d) \o Talk(e)) \o Talk(g)
      /\ Talk(c) = Talk(d) \o Talk(e \o g)
      /\ Talk(SubSeq(c, 1, w)) = Talk(d) \o Talk(e)
      /\ Rules(c) = Rules(SubSeq(c, 1, w)) \o Rules(g)
  BY TakenOfThreeParts DEF d, e, g
<1>7. /\ Talk(d) \in Seq(Messages) /\ Talk(e) \in Seq(Messages) /\ Talk(g) \in Seq(Messages)
      /\ Rules(SubSeq(c, 1, w)) \in Seq(Messages)
      /\ Talk(e) \in Seq(Silent)
  BY <1>2, <1>3, <1>4, FilterType DEF Talk, Rules
<1>8. Rules(c) = Rules(SubSeq(c, 1, w))
  <2>1. Rules(g) \in Seq(Dialogue \cap Instructions)
    BY <1>4, FilterType DEF Rules
  <2>2. Dialogue \cap Instructions = {}
    BY DEF Dialogue, Instructions
  <2>3. Rules(g) = <<>>
    BY <2>1, <2>2
  <2>. QED
    BY <1>6, <1>7, <2>3, ConcatEmptySeq
<1>9. /\ u \in Nat \ {0} /\ Talk(d)[u].role = "user"
  <2>1. c[p] \in Dialogue /\ c[p] \in Messages
    BY <1>1 DEF Messages, Dialogue, Roles
  <2>2. Talk(d) = Append(Talk(a), c[p]) /\ Talk(a) \in Seq(Messages)
    <3>1. \A x \in Seq(Messages), m \in Messages :
            m \in Dialogue => Talk(Append(x, m)) = Append(Talk(x), m)
      BY FilterAppend DEF Talk
    <3>. QED
      BY <1>2, <1>5, <2>1, <3>1, FilterType DEF Talk
  <2>. QED
    BY <2>1, <2>2, AppendProperties, LenProperties
\* It is the last user message of the warm request ...
<1>10. u \in CacheSet(Talk(SubSeq(c, 1, w)))
  <2>. DEFINE m == Talk(d) \o Talk(e)
  <2>1. /\ m \in Seq(Messages) /\ Len(m) = u + Len(Talk(e)) /\ DOMAIN m = 1..(u + Len(Talk(e)))
        /\ \A j \in 1..(u + Len(Talk(e))) : m[j] = IF j <= u THEN Talk(d)[j] ELSE Talk(e)[j - u]
        /\ Len(Talk(e)) \in Nat
    BY <1>7, ConcatProperties, LenProperties
  <2>. HIDE DEF m, u
  <2>2. ASSUME NEW j \in LaterUsers(m, u) PROVE FALSE
    <3>1. j \in 1..(u + Len(Talk(e))) /\ j > u /\ m[j].role = "user"
      BY <2>1 DEF LaterUsers, IsUser
    <3>2. j - u \in 1..Len(Talk(e)) /\ m[j] = Talk(e)[j - u]
      BY <1>9, <2>1, <3>1
    <3>3. Talk(e)[j - u] \in Silent
      BY <1>7, <3>2, ElementOfSeq
    <3>. QED
      BY <3>1, <3>2, <3>3 DEF Silent
  <2>3. LaterUsers(m, u) = {}
    BY <2>2
  <2>4. Cardinality(LaterUsers(m, u)) < 2
    BY <2>3, FS_EmptySet
  <2>5. u \in DOMAIN m /\ IsUser(m, u)
    BY <1>9, <2>1 DEF IsUser
  <2>. QED
    BY <1>6, <2>4, <2>5 DEF CacheSet, m
\* ... and at most one comes behind it in the next.
<1>11. u \in CacheSet(Talk(c))
  <2>. DEFINE h == Talk(d) \o Talk(e)
              n == Len(h)
              m == h \o Talk(g)
  <2>1. Talk(c) = m
    BY <1>6
  <2>2. /\ h \in Seq(Messages) /\ n = u + Len(Talk(e))
        /\ \A j \in 1..n : h[j] = IF j <= u THEN Talk(d)[j] ELSE Talk(e)[j - u]
        /\ Len(Talk(e)) \in Nat
    BY <1>7, ConcatProperties, LenProperties
  <2>. HIDE DEF h
  <2>3. /\ DOMAIN m = 1..(n + Len(Talk(g)))
        /\ \A j \in 1..(n + Len(Talk(g))) : m[j] = IF j <= n THEN h[j] ELSE Talk(g)[j - n]
        /\ Len(Talk(g)) \in Nat /\ DOMAIN Talk(g) = 1..Len(Talk(g))
    <3>1. Talk(g) \in Seq(Messages)
      BY <1>7
    <3>. QED
      BY <1>0, <2>2, <3>1
  <2>. HIDE DEF m, n, u
  <2>4. ASSUME NEW j \in LaterUsers(m, u) PROVE j + (0 - n) \in Users(Talk(g))
    <3>1. j \in 1..(n + Len(Talk(g))) /\ j > u /\ m[j].role = "user"
      BY <2>3 DEF LaterUsers, IsUser
    <3>2. CASE j <= n
      <4>1. j \in 1..n /\ j - u \in 1..Len(Talk(e))
        BY <1>9, <2>2, <2>3, <3>1, <3>2
      <4>2. m[j] = h[j] /\ h[j] = Talk(e)[j - u]
        BY <1>9, <2>2, <2>3, <3>1, <3>2, <4>1
      <4>3. Talk(e)[j - u] \in Silent
        BY <1>7, <4>1, ElementOfSeq
      <4>. QED
        BY <3>1, <4>2, <4>3 DEF Silent
    <3>3. CASE j > n
      <4>1. j - n \in 1..Len(Talk(g)) /\ m[j] = Talk(g)[j - n] /\ j + (0 - n) = j - n
        BY <1>9, <2>2, <2>3, <3>1, <3>3
      <4>. QED
        BY <2>3, <3>1, <4>1 DEF Users, IsUser
    <3>. QED
      BY <1>9, <2>2, <3>1, <3>2, <3>3
  <2>5. /\ IsFiniteSet(Users(Talk(g)))
        /\ Cardinality(Users(Talk(g))) <= 1
    <3>1. Talk(g) = Filter(g, Dialogue)
      BY DEF Talk
    <3>2. \A x \in Seq(Messages) : /\ Users(x) = {i \in 1..Len(x) : x[i] \in User}
                                   /\ IsFiniteSet(Users(x))
                                   /\ Cardinality(Users(x)) = Len(Filter(x, User))
      <4>. SUFFICES ASSUME NEW x \in Seq(Messages)
                    PROVE  /\ Users(x) = {i \in 1..Len(x) : x[i] \in User}
                           /\ IsFiniteSet(Users(x))
                           /\ Cardinality(Users(x)) = Len(Filter(x, User))
        OBVIOUS
      <4>1. \A i \in 1..Len(x) : x[i] \in User <=> x[i].role = "user"
        <5>1. \A i \in 1..Len(x) : x[i] \in Messages
          BY ElementOfSeq
        <5>2. \A y \in Messages : y \in User <=> y.role = "user"
          BY DEF Messages, User, Roles
        <5>. QED
          BY <5>1, <5>2
      <4>2. Users(x) = {i \in 1..Len(x) : x[i] \in User}
        BY <4>1, LenProperties DEF Users, IsUser
      <4>3. /\ IsFiniteSet({i \in 1..Len(x) : x[i] \in User})
            /\ Len(Filter(x, User)) = Cardinality({i \in 1..Len(x) : x[i] \in User})
        BY FilterLen
      <4>. QED
        BY <4>2, <4>3
    <3>3. Filter(Talk(g), User) = Filter(g, Dialogue \cap User)
      BY <1>4, <3>1, FilterTwice
    <3>4. Dialogue \cap User = User
      BY DEF Dialogue, User, Roles
    <3>. QED
      BY <1>4, <1>7, <3>2, <3>3, <3>4 DEF g
  <2>6. Cardinality(LaterUsers(m, u)) <= Cardinality(Users(Talk(g))) /\ IsFiniteSet(LaterUsers(m, u))
    <3>1. LaterUsers(m, u) \subseteq Int /\ 0 - n \in Int
      BY <1>9, <2>2, <2>3 DEF LaterUsers
    <3>. QED
      BY <2>4, <2>5, <3>1, Shift
  <2>7. Cardinality(LaterUsers(m, u)) < 2
    BY <2>5, <2>6, FS_CardinalityType
  <2>8. u \in DOMAIN m /\ IsUser(m, u)
    BY <1>9, <2>2, <2>3 DEF IsUser
  <2>. QED
    BY <2>1, <2>7, <2>8 DEF CacheSet
<1>12. SubSeq(Talk(c), 1, u) = SubSeq(Talk(SubSeq(c, 1, w)), 1, u)
  <2>1. \A x \in Seq(Messages) : SubSeq(Talk(d) \o x, 1, u) = SubSeq(Talk(d), 1, u)
    <3>1. 1 \in 1..u /\ u \in 1..u
      BY <1>9
    <3>. QED
      BY <1>7, <3>1, SubSeqOfConcat1
  <2>2. Talk(e \o g) \in Seq(Messages)
    BY <1>0, <1>3, <1>4, FilterType DEF Talk
  <2>. QED
    BY <1>6, <1>7, <2>1, <2>2
<1>13. Len(Talk(c)) - u <= Cardinality({i \in DOMAIN c : c[i].role # "system" /\ i > p})
  <2>. DEFINE q == e \o g
              S == {i \in 1..Len(q) : q[i] \in Dialogue}
              L == {i \in DOMAIN c : c[i].role # "system" /\ i > p}
  <2>1. q \in Seq(Messages) /\ Len(q) \in Nat
    BY <1>0, <1>3, <1>4
  <2>2. Len(Talk(c)) = u + Len(Talk(q)) /\ Len(Talk(q)) \in Nat
    <3>1. Talk(q) \in Seq(Messages)
      BY <2>1, FilterType DEF Talk
    <3>2. Talk(c) = Talk(d) \o Talk(q)
      BY <1>6
    <3>. HIDE DEF q
    <3>. QED
      BY <1>7, <3>1, <3>2, ConcatProperties, LenProperties
  <2>3. IsFiniteSet(S) /\ Len(Talk(q)) = Cardinality(S)
    <3>. HIDE DEF q
    <3>. QED
      BY <2>1, FilterLen DEF Talk
  <2>4. ASSUME NEW i \in S PROVE i + p \in L
    <3>1. q = SubSeq(c, p + 1, Len(c))
      BY <1>5
    <3>2. Len(q) = Len(c) - p /\ \A j \in 1..(Len(c) - p) : q[j] = c[p + j]
      <4>1. \A j \in (p + 1)..Len(c) : c[j] \in Messages
        BY <1>1
      <4>. HIDE DEF q
      <4>2. /\ Len(q) = IF p + 1 <= Len(c) THEN Len(c) - (p + 1) + 1 ELSE 0
            /\ \A j \in 1..(Len(c) - (p + 1) + 1) : q[j] = c[(p + 1) + j - 1]
        BY <1>1, <3>1, <4>1, SubSeqProperties
      <4>3. \A j \in 1..(Len(c) - p) : j \in 1..(Len(c) - (p + 1) + 1) /\ (p + 1) + j - 1 = p + j
        BY <1>1
      <4>4. Len(q) = Len(c) - p
        <5>1. \A k, l \in Nat : l <= k =>
                k - (l + 1) + 1 = k - l /\ (~(l + 1 <= k) => k - l = 0)
          OBVIOUS
        <5>. QED
          BY <1>1, <4>2, <5>1
      <4>. QED
        BY <4>2, <4>3, <4>4
    <3>. HIDE DEF q
    <3>3. i \in 1..(Len(c) - p) /\ q[i] \in Dialogue /\ i + p \in 1..Len(c) /\ i + p > p
      BY <1>1, <3>2
    <3>4. c[i + p].role # "system"
      BY <1>1, <3>2, <3>3 DEF Dialogue
    <3>. QED
      BY <1>1, <3>3, <3>4
  <2>5. IsFiniteSet(L)
    <3>1. L \subseteq 1..Len(c)
      BY <1>1
    <3>. HIDE DEF L
    <3>. QED
      BY <1>1, <3>1, Positions
  <2>6. Cardinality(S) <= Cardinality(L)
    <3>1. S \subseteq Int
      BY <2>1
    <3>. HIDE DEF S, L
    <3>2. p \in Int /\ \A i \in S : i + p \in L
      BY <1>1, <2>4
    <3>. QED
      BY <2>5, <3>1, <3>2, Shift
  <2>7. Cardinality(L) \in Nat
    BY <2>5, FS_CardinalityType
  <2>. HIDE DEF S, L, q
  <2>8. Len(Talk(c)) - u <= Cardinality(L)
    BY <1>9, <2>2, <2>3, <2>6, <2>7
  <2>. QED
    BY <2>8 DEF L
<1>. QED
  BY <1>8, <1>10, <1>11, <1>12, <1>13 DEF d

-----------------------------------------------------------------------------
(* What a request reads *)

\* The tools, if they are stored.
LEMMA ReadsTools ==
  ASSUME Typed, NEW turn \in Nat, ToolMark # {}, ToolBlocks \in cache
  PROVE  Read(Prompt(turn), Marks(turn)) >= Len(ToolBlocks)
<1>1. Len(ToolBlocks) \in Marks(turn)
  BY DEF Marks, ToolMark
<1>2. SubSeq(Prompt(turn), 1, Len(ToolBlocks)) \in cache
  BY PrefixesOfPrompt
<1>. QED
  BY <1>1, <1>2, MarksBounded, ReadAtLeast

\* What follows the last user message of the warm request.
Since(c, w) ==
  {i \in DOMAIN c : c[i].role # "system" /\ \A u \in Users(SubSeq(c, 1, w)) : i > u}

\* The history, if it is stored and the request goes on from it.
LEMMA ReadsWhatIsStored ==
  ASSUME Typed, CacheInv, NEW turn \in Nat, ~billing, warm > 0,
         Users(SubSeq(conversation, 1, warm)) # {},
         Cardinality(Users(SubSeq(conversation, warm + 1, Len(conversation)))) <= 1,
         \A i \in (warm + 1)..Len(conversation) : conversation[i].role # "system"
  PROVE  Read(Prompt(turn), Marks(turn)) >=
           Len(Prompt(turn)) - Cardinality(Since(conversation, warm))
<1>. DEFINE c == conversation
            first == SubSeq(c, 1, warm)
            front == Len(ToolBlocks) + Len(SystemBlocks(turn))
<1>1. /\ c \in Seq(Messages) /\ Len(c) \in Nat /\ DOMAIN c = 1..Len(c)
      /\ warm \in 1..Len(c) /\ warm \in Nat
  BY LenProperties DEF Typed
<1>2. /\ first \in Seq(Messages) /\ DOMAIN first = 1..warm
      /\ \A i \in 1..warm : first[i] = c[i]
  BY <1>1
<1>3. PICK p \in 1..warm :
        /\ c[p].role = "user"
        /\ \A i \in (p + 1)..warm : c[i].role # "user"
        /\ Since(c, warm) = {i \in DOMAIN c : c[i].role # "system" /\ i > p}
  <2>1. Users(first) = {i \in 1..warm : c[i].role = "user"}
    BY <1>2 DEF Users, IsUser
  <2>2. Users(first) \subseteq 0..warm /\ Users(first) # {}
    BY <1>1, <2>1
  <2>3. PICK p \in Users(first) : \A i \in Users(first) : i <= p
    BY <1>1, <2>2, Greatest
  <2>4. \A i \in (p + 1)..warm : c[i].role # "user"
    BY <1>1, <2>1, <2>3
  <2>5. Since(c, warm) = {i \in DOMAIN c : c[i].role # "system" /\ i > p}
    <3>1. \A i \in 1..Len(c) : (\A u \in Users(first) : i > u) <=> i > p
      BY <1>1, <2>1, <2>3
    <3>. QED
      BY <1>1, <3>1 DEF Since
  <2>. QED
    BY <2>1, <2>3, <2>4, <2>5
<1>. DEFINE u == Len(Talk(SubSeq(c, 1, p)))
<1>4. /\ u \in CacheSet(Talk(first))
      /\ u \in CacheSet(Talk(c))
      /\ SubSeq(Talk(c), 1, u) = SubSeq(Talk(first), 1, u)
      /\ Rules(c) = Rules(first)
      /\ Len(Talk(c)) - u <= Cardinality(Since(c, warm))
  BY <1>1, <1>3, StillMarked
<1>5. IsFiniteSet(Since(c, warm)) /\ Cardinality(Since(c, warm)) \in Nat
  <2>1. Since(c, warm) \subseteq 1..Len(c)
    BY <1>1 DEF Since
  <2>. QED
    BY <1>1, <2>1, Positions, FS_CardinalityType
<1>. HIDE DEF u
<1>6. MessageBlocks = Talk(c) /\ SystemBlocks(turn) = Rules(c)
  <2>1. Rules(c) \in Seq(Messages)
    BY <1>1, FilterType DEF Rules
  <2>. QED
    BY <2>1, ConcatEmptySeq DEF MessageBlocks, SystemBlocks, Header, Talk, Rules
<1>7. /\ Len(ToolBlocks) \in Nat /\ Len(SystemBlocks(turn)) \in Nat /\ Len(MessageBlocks) \in Nat
      /\ u \in 1..Len(MessageBlocks)
  BY <1>4, <1>6, BlocksTyped, LenProperties, FewMarked
<1>8. front + u \in Marks(turn)
  BY <1>4, <1>6 DEF Marks
<1>9. SubSeq(Prompt(turn), 1, front + u) \in cache
  <2>1. (ToolBlocks \o Rules(first)) \o SubSeq(Talk(first), 1, u) \in cache
    BY <1>1, <1>4 DEF CacheInv, Stored
  <2>2. u \in 0..Len(MessageBlocks)
    BY <1>7
  <2>3. SubSeq(Prompt(turn), 1, front + u)
          = (ToolBlocks \o SystemBlocks(turn)) \o SubSeq(MessageBlocks, 1, u)
    BY <2>2, PrefixesOfPrompt
  <2>. QED
    BY <1>4, <1>6, <2>1, <2>3
<1>10. Read(Prompt(turn), Marks(turn)) \in Nat /\ Read(Prompt(turn), Marks(turn)) >= front + u
  BY <1>8, <1>9, MarksBounded, ReadAtLeast
<1>11. Len(Prompt(turn)) = front + Len(MessageBlocks)
  BY PrefixesOfPrompt
<1>. HIDE DEF front
<1>12. front \in Nat
  BY <1>7 DEF front
<1>. QED
  BY <1>4, <1>5, <1>6, <1>7, <1>10, <1>11, <1>12

-----------------------------------------------------------------------------
(* The steps *)

\* Steps that neither send nor extend the conversation.
Others == RefuseRole \/ OtherTurn \/ Evict \/ UNCHANGED vars

\* No step leaves the types.
LEMMA TypedKept == ASSUME Typed, [Next]_vars PROVE Typed'
<1>1. ASSUME NEW r \in Roles, NEW t \in Texts, Say([role |-> r, text |-> t]) PROVE Typed'
  <2>1. [role |-> r, text |-> t] \in Messages
    BY DEF Messages
  <2>2. /\ conversation' \in Seq(Messages) /\ conversation' # <<>>
        /\ Len(conversation') = Len(conversation) + 1 /\ Len(conversation) \in Nat
    BY <1>1, <2>1, AppendProperties, LenProperties DEF Say, Typed
  <2>3. warm' \in 0..Len(conversation')
    BY <1>1, <2>2 DEF Say, Typed
  <2>. QED
    BY <1>1, <2>2, <2>3 DEF Say, Typed
<1>2. ASSUME NEW effort \in Efforts, NEW limit \in Limits, Send(effort, limit) PROVE Typed'
  <2>1. Len(conversation) \in Nat
    BY LenProperties DEF Typed
  <2>2. sent'.after = warm /\ warm' = Len(conversation)
    BY <1>2 DEF Send
  <2>. QED
    BY <1>2, <2>1, <2>2 DEF Send, CountTurn, Typed
<1>3. CASE Others
  <2>1. Len(conversation) \in Nat
    BY LenProperties DEF Typed
  <2>. QED
    BY <1>3, <2>1 DEF Others, RefuseRole, OtherTurn, Evict, CountTurn, vars, Typed
<1>. QED
  BY <1>1, <1>2, <1>3 DEF Next, Others

\* At the start nothing is said, sent or stored.
LEMMA InitTyped == Init => Typed /\ CacheInv
<1>. SUFFICES ASSUME Init PROVE Typed /\ CacheInv
  OBVIOUS
<1>1. Len(conversation) = 0 /\ conversation \in Seq(Messages)
  BY EmptySeq DEF Init
<1>2. tools \in Seq(BOOLEAN)
  BY PromptAssumption DEF Init
<1>3. billing \in BOOLEAN /\ turnCounter = 0 /\ warm = 0
  BY DEF Init
<1>4. sent.after = 0 /\ sent = NoRequest
  BY DEF Init, NoRequest
<1>5. Typed
  BY <1>1, <1>2, <1>3, <1>4 DEF Typed
<1>. QED
  BY <1>3, <1>5 DEF CacheInv

\* The cache holds what the last warm request stored until it is dropped.
LEMMA CacheKept == ASSUME Typed, CacheInv, [Next]_vars PROVE CacheInv'
<1>1. ASSUME NEW r \in Roles, NEW t \in Texts, Say([role |-> r, text |-> t]) PROVE CacheInv'
  <2>1. [role |-> r, text |-> t] \in Messages
    BY DEF Messages
  <2>2. conversation \in Seq(Messages) /\ warm \in 0..Len(conversation)
    BY DEF Typed
  <2>3. conversation' = Append(conversation, [role |-> r, text |-> t]) /\ warm' = warm
    BY <1>1 DEF Say
  <2>4. SubSeq(conversation', 1, warm') = SubSeq(conversation, 1, warm)
    BY <2>1, <2>2, <2>3
  <2>5. ToolBlocks' = ToolBlocks /\ tools' = tools /\ billing' = billing /\ cache' = cache
    BY <1>1 DEF Say, ToolBlocks
  <2>. QED
    BY <2>3, <2>4, <2>5 DEF CacheInv, Stored
<1>2. ASSUME NEW effort \in Efforts, NEW limit \in Limits, Send(effort, limit) PROVE CacheInv'
  <2>. DEFINE turn == turnCounter'
              c == conversation
              front == Len(ToolBlocks) + Len(SystemBlocks(turn))
  <2>1. turn \in Nat
    BY <1>2 DEF Send, CountTurn, Typed
  <2>2. /\ c' = c /\ tools' = tools /\ billing' = billing /\ warm' = Len(c)
        /\ cache' = cache \cup PrefixesAt(Prompt(turn), Marks(turn))
    BY <1>2 DEF Send
  <2>3. ToolBlocks' = ToolBlocks
    BY <2>2 DEF ToolBlocks
  <2>4. ASSUME tools # <<>>, tools[Len(tools)] PROVE ToolBlocks \in cache'
    <3>1. Len(ToolBlocks) \in Marks(turn)
      BY <2>4 DEF Marks, ToolMark
    <3>2. SubSeq(Prompt(turn), 1, Len(ToolBlocks)) = ToolBlocks
      BY <2>1, PrefixesOfPrompt
    <3>. QED
      BY <2>2, <3>1, <3>2 DEF PrefixesAt
  <2>5. ASSUME ~billing, NEW i \in CacheSet(Talk(c))
        PROVE  (ToolBlocks \o Rules(c)) \o SubSeq(Talk(c), 1, i) \in cache'
    <3>1. Rules(c) \in Seq(Messages)
      BY FilterType DEF Rules, Typed
    <3>2. MessageBlocks = Talk(c) /\ SystemBlocks(turn) = Rules(c)
      BY <2>5, <3>1, ConcatEmptySeq DEF MessageBlocks, SystemBlocks, Header, Talk, Rules
    <3>3. i \in 0..Len(MessageBlocks)
      BY <3>2, BlocksTyped, FewMarked, <2>1
    <3>4. front + i \in Marks(turn)
      BY <3>2 DEF Marks
    <3>5. SubSeq(Prompt(turn), 1, front + i)
            = (ToolBlocks \o SystemBlocks(turn)) \o SubSeq(MessageBlocks, 1, i)
      BY <2>1, <3>3, PrefixesOfPrompt
    <3>. QED
      BY <2>2, <3>2, <3>4, <3>5 DEF PrefixesAt
  <2>6. SubSeq(c, 1, Len(c)) = c
    BY SubSeqFull DEF Typed
  <2>7. SubSeq(conversation', 1, warm') = c
    BY <2>2, <2>6
  <2>. QED
    BY <2>2, <2>3, <2>4, <2>5, <2>7, ZenonT(60) DEF CacheInv, Stored
<1>3. CASE RefuseRole \/ OtherTurn \/ UNCHANGED vars
  <2>1. UNCHANGED <<billing, conversation, tools, cache, warm>>
    BY <1>3 DEF RefuseRole, OtherTurn, vars
  <2>2. ToolBlocks' = ToolBlocks
    BY <2>1 DEF ToolBlocks
  <2>. QED
    BY <2>1, <2>2 DEF CacheInv, Stored
<1>4. CASE Evict
  BY <1>4 DEF Evict, CacheInv
<1>. QED
  BY <1>1, <1>2, <1>3, <1>4 DEF Next

\* What a request is recorded with.
LEMMA SendEffect ==
  ASSUME Typed, NEW effort \in Efforts, NEW limit \in Limits, Send(effort, limit)
  PROVE  /\ turnCounter' \in Nat
         /\ sent'.prompt = Prompt(turnCounter') /\ sent'.marks = Marks(turnCounter')
         /\ sent'.read = Read(Prompt(turnCounter'), Marks(turnCounter'))
         /\ sent'.after = warm
         /\ conversation' = conversation /\ tools' = tools /\ billing' = billing
BY DEF Send, CountTurn, Typed

\* No request has more breakpoints than Anthropic accepts, however many user
\* messages, system messages and tools there are (anthropic/service.go:273-357).
THEOREM NeverTooManyBreakpoints == Spec => []AtMostFourBreakpoints
<1>1. Init => Typed /\ AtMostFourBreakpoints
  <2>1. Init => Cardinality(sent.marks) = 0
    BY FS_EmptySet DEF Init, NoRequest
  <2>. QED
    BY <2>1, InitTyped DEF AtMostFourBreakpoints
<1>2. Typed /\ AtMostFourBreakpoints /\ [Next]_vars => Typed' /\ AtMostFourBreakpoints'
  <2>. SUFFICES ASSUME Typed, AtMostFourBreakpoints, [Next]_vars
                PROVE  AtMostFourBreakpoints'
    BY TypedKept
  <2>1. ASSUME NEW effort \in Efforts, NEW limit \in Limits, Send(effort, limit)
        PROVE  AtMostFourBreakpoints'
    <3>1. turnCounter' \in Nat /\ sent'.marks = Marks(turnCounter')
      BY <2>1, SendEffect
    <3>2. Cardinality(Marks(turnCounter')) <= 4
      BY <3>1, MarksBounded
    <3>. QED
      BY <3>1, <3>2 DEF AtMostFourBreakpoints
  <2>2. CASE \E r \in Roles, t \in Texts : Say([role |-> r, text |-> t])
    BY <2>2 DEF Say, AtMostFourBreakpoints
  <2>3. CASE Others
    BY <2>3 DEF Others, RefuseRole, OtherTurn, Evict, vars, AtMostFourBreakpoints
  <2>. QED
    BY <2>1, <2>2, <2>3 DEF Next, Others
<1>. QED
  BY <1>1, <1>2, PTL DEF Spec

\* Every variable stays within its type, and the cache holds what it should.
LEMMA CacheTheorem == Spec => [](Typed /\ CacheInv)
<1>1. Init => Typed /\ CacheInv
  BY InitTyped
<1>2. Typed /\ CacheInv /\ [Next]_vars => Typed' /\ CacheInv'
  BY TypedKept, CacheKept
<1>. QED
  BY <1>1, <1>2, PTL DEF Spec

\* After a warm request the tools are read, whatever follows them
\* (anthropic/service.go:333-353).
THEOREM ToolsStayRead == Spec => []ToolsAreRead
<1>1. Init => ToolsAreRead
  BY DEF Init, NoRequest, ToolsAreRead
<1>2. Typed /\ CacheInv /\ ToolsAreRead /\ [Next]_vars => ToolsAreRead'
  <2>. SUFFICES ASSUME Typed, CacheInv, ToolsAreRead, [Next]_vars PROVE ToolsAreRead'
    OBVIOUS
  <2>1. ASSUME NEW effort \in Efforts, NEW limit \in Limits, Send(effort, limit)
        PROVE  ToolsAreRead'
    <3>. SUFFICES ASSUME sent'.after > 0, tools' # <<>>, tools'[Len(tools')]
                  PROVE  sent'.read >= Len(ToolBlocks')
      BY DEF ToolsAreRead
    <3>1. /\ turnCounter' \in Nat /\ sent'.after = warm /\ tools' = tools
          /\ sent'.read = Read(Prompt(turnCounter'), Marks(turnCounter'))
      BY <2>1, SendEffect
    <3>2. ToolBlocks' = ToolBlocks
      BY <3>1 DEF ToolBlocks
    <3>3. ToolMark # {} /\ ToolBlocks \in cache
      BY <3>1 DEF ToolMark, CacheInv
    <3>4. Read(Prompt(turnCounter'), Marks(turnCounter')) >= Len(ToolBlocks)
      BY <3>1, <3>3, ReadsTools
    <3>. QED
      BY <3>1, <3>2, <3>4
  <2>2. CASE \E r \in Roles, t \in Texts : Say([role |-> r, text |-> t])
    BY <2>2 DEF Say, ToolsAreRead, ToolBlocks
  <2>3. CASE Others
    BY <2>3 DEF Others, RefuseRole, OtherTurn, Evict, vars, ToolsAreRead, ToolBlocks
  <2>. QED
    BY <2>1, <2>2, <2>3 DEF Next, Others
<1>. QED
  BY <1>1, <1>2, CacheTheorem, PTL DEF Spec

\* Without a billing header a request that goes on from a warm one reads all that
\* one sent up to its last user message, in every conversation that gains at most
\* one user message and no system message (anthropic/service.go:273-288).
THEOREM HistoryStaysRead == Spec => []HistoryIsRead
<1>1. Init => HistoryIsRead
  BY DEF Init, HistoryIsRead, ReadsHistory, Continues
<1>2. Typed /\ CacheInv /\ HistoryIsRead /\ [Next]_vars => HistoryIsRead'
  <2>. SUFFICES ASSUME Typed, CacheInv, HistoryIsRead, [Next]_vars PROVE HistoryIsRead'
    OBVIOUS
  <2>1. ASSUME NEW effort \in Efforts, NEW limit \in Limits, Send(effort, limit)
        PROVE  HistoryIsRead'
    <3>. DEFINE c == conversation
                turn == turnCounter'
    <3>1. /\ turn \in Nat /\ c' = c /\ billing' = billing
          /\ sent'.prompt = Prompt(turn) /\ sent'.read = Read(Prompt(turn), Marks(turn))
          /\ sent'.after = warm
      BY <2>1, SendEffect
    <3>. SUFFICES ASSUME ~billing', Continues', Users(SubSeq(c, 1, warm)) # {}
                  PROVE  sent'.read >= Len(sent'.prompt) - Cardinality(Since(c, warm))
      BY <3>1 DEF HistoryIsRead, ReadsHistory, Since
    <3>2. /\ warm > 0
          /\ Cardinality(Users(SubSeq(c, warm + 1, Len(c)))) <= 1
          /\ ~\E i \in DOMAIN SubSeq(c, warm + 1, Len(c)) :
                SubSeq(c, warm + 1, Len(c))[i].role = "system"
      BY <3>1 DEF Continues, Added
    <3>3. ASSUME NEW i \in (warm + 1)..Len(c) PROVE c[i].role # "system"
      <4>1. c \in Seq(Messages) /\ warm \in Nat /\ Len(c) \in Nat
        BY LenProperties DEF Typed
      <4>2. /\ i - warm \in DOMAIN SubSeq(c, warm + 1, Len(c))
            /\ SubSeq(c, warm + 1, Len(c))[i - warm] = c[i]
        <5>1. /\ warm + 1 \in 1..(Len(c) + 1) /\ i - warm \in 1..(Len(c) - warm)
              /\ i - warm + (warm + 1) - 1 = i
          BY <3>3, <4>1
        <5>. HIDE DEF c
        <5>. QED
          BY <4>1, <5>1
      <4>. QED
        BY <3>2, <4>2
    <3>4. Read(Prompt(turn), Marks(turn)) >= Len(Prompt(turn)) - Cardinality(Since(c, warm))
      BY <3>1, <3>2, <3>3, ReadsWhatIsStored
    <3>. QED
      BY <3>1, <3>4
  <2>2. CASE \E r \in Roles, t \in Texts : Say([role |-> r, text |-> t])
    <3>1. warm' # Len(conversation')
      <4>1. PICK r \in Roles, t \in Texts : Say([role |-> r, text |-> t])
        BY <2>2
      <4>2. [role |-> r, text |-> t] \in Messages
        BY DEF Messages
      <4>3. Len(conversation') = Len(conversation) + 1 /\ Len(conversation) \in Nat
        BY <4>1, <4>2, AppendProperties, LenProperties DEF Say, Typed
      <4>. QED
        BY <4>1, <4>3 DEF Say, Typed
    <3>. QED
      BY <3>1 DEF HistoryIsRead, ReadsHistory, Continues
  <2>3. CASE RefuseRole \/ OtherTurn \/ UNCHANGED vars
    BY <2>3 DEF RefuseRole, OtherTurn, vars, HistoryIsRead, ReadsHistory, Continues, Added
  <2>4. CASE Evict
    <3>1. Len(conversation') # 0 \/ sent' = NoRequest
      BY <2>4, EmptySeq DEF Evict, Typed
    <3>. QED
      BY <2>4, <3>1 DEF Evict, HistoryIsRead, ReadsHistory, Continues
  <2>. QED
    BY <2>1, <2>2, <2>3, <2>4 DEF Next
<1>. QED
  BY <1>1, <1>2, CacheTheorem, PTL DEF Spec

\* The limit that is sent exceeds the budget of the thinking, if there is one.
LEMMA Room ==
  ASSUME NEW effort, NEW limit \in Nat
  PROVE  Budget(effort) > 0 => MaxTokens(limit, effort) > Budget(effort)
<1>1. Budget(effort) \in Nat
  BY DEF Budget
<1>2. Asked(limit) \in Nat
  BY DEF Asked
<1>. QED
  BY <1>1, <1>2 DEF MaxTokens

\* Whatever max_tokens a client asks for, and if it asks for none, the answer has
\* room beside the thinking (anthropic/service.go:252-255, 369-372).
THEOREM RoomBesideThinking == Spec => []ThinkingFits
<1>1. Init => ThinkingFits
  BY DEF Init, NoRequest, ThinkingFits
<1>2. ThinkingFits /\ [Next]_vars => ThinkingFits'
  <2> SUFFICES ASSUME ThinkingFits, [Next]_vars PROVE ThinkingFits'
    OBVIOUS
  <2>1. ASSUME NEW effort \in Efforts, NEW limit \in Limits, Send(effort, limit)
        PROVE  ThinkingFits'
    <3>1. sent'.maxTokens = MaxTokens(limit, effort) /\ sent'.budget = Budget(effort)
      BY <2>1 DEF Send
    <3>. QED
      BY <3>1, Room, PromptAssumption DEF ThinkingFits
  <2>2. CASE \E r \in Roles, t \in Texts : Say([role |-> r, text |-> t])
    BY <2>2 DEF Say, ThinkingFits
  <2>3. CASE Others
    BY <2>3 DEF Others, RefuseRole, OtherTurn, Evict, vars, ThinkingFits
  <2>. QED
    BY <2>1, <2>2, <2>3 DEF Next, Others
<1>. QED
  BY <1>1, <1>2, PTL DEF Spec
=============================================================================
