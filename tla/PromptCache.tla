----------------------------- MODULE PromptCache -----------------------------
(***************************************************************************)
(* One conversation, sent again and again as it grows: how messageParams   *)
(* (internal/provider/anthropic/service.go) builds each Anthropic request  *)
(* from the client's messages and tools and where it puts the cache        *)
(* breakpoints, against upstream's prompt cache.                           *)
(*                                                                         *)
(* The cache is external and modelled as docs/caching.md describes it: a   *)
(* request stores the prefixes of its prompt -- tools, system blocks,      *)
(* messages -- that end at a breakpoint, and reads the longest stored      *)
(* prefix that ends at one of its own.  A text is a number, 0 when blank.  *)
(***************************************************************************)
EXTENDS Loops, FiniteSets

CONSTANTS
  ToolLists,    \* tool lists a client may send; TRUE: a function with a name
  MaxMessages,  \* bound: messages of the conversation
  MaxTurns,     \* bound: requests of all clients
  Texts,        \* texts of a message
  Efforts,      \* reasoning_effort values clients send
  Limits        \* max_tokens values clients send

Roles == {"system", "user", "assistant", "tool", "developer"}

ASSUME PromptAssumption ==
  /\ \A ts \in ToolLists : ts \in Seq(BOOLEAN)
  /\ MaxMessages \in Nat /\ MaxTurns \in Nat
  /\ Texts \subseteq Nat /\ Limits \subseteq Nat
  /\ Efforts \subseteq {"", "low", "medium", "high", "other"}

VARIABLES
  billing,       \* whether a billing header is configured
  conversation,  \* the client's messages, [role, text]
  tools,         \* its tools
  turnCounter,   \* turnCounter of the provider, shared by all clients
  cache,         \* upstream: the prefixes it has stored
  warm,          \* history: messages of the last request whose prefixes are stored
  sent           \* the last request, or NoRequest

vars == <<billing, conversation, tools, turnCounter, cache, warm, sent>>

NoRequest == [prompt |-> <<>>, marks |-> {}, read |-> 0, after |-> 0,
              maxTokens |-> 0, budget |-> 0]

Init ==
  /\ billing \in BOOLEAN
  /\ conversation = <<>>
  /\ tools \in ToolLists
  /\ turnCounter = 0
  /\ cache = {}
  /\ warm = 0
  /\ sent = NoRequest

-----------------------------------------------------------------------------
(* messageParams *)

\* The billing header carries the number of the turn.
Header(turn) == IF billing THEN <<[role |-> "billing", text |-> turn]>> ELSE <<>>

\* System messages move to the front, blank ones are dropped.
Instructions == [role : {"system"}, text : Texts \ {0}]
Dialogue     == [role : Roles \ {"system"}, text : Texts]

SystemBlocks(turn) == Header(turn) \o Filter(conversation, Instructions)

MessageBlocks == Filter(conversation, Dialogue)

\* Tools that are not named functions are dropped.
ToolBlocks ==
  LET block == [i \in DOMAIN tools |-> [role |-> IF tools[i] THEN "function" ELSE "", text |-> i]]
  IN  Filter(block, [role : {"function"}, text : Nat])

IsUser(ms, i) == ms[i].role = "user"

LaterUsers(ms, i) == {j \in DOMAIN ms : j > i /\ IsUser(ms, j)}

\* Every user message, the last user message alone, ...
CacheSetAll(ms)  == {i \in DOMAIN ms : IsUser(ms, i)}
CacheSetLast(ms) == {i \in DOMAIN ms : IsUser(ms, i) /\ LaterUsers(ms, i) = {}}

\* ... or, as the code has it, the last two.
CacheSet(ms) == {i \in DOMAIN ms : IsUser(ms, i) /\ Cardinality(LaterUsers(ms, i)) < 2}

\* The breakpoint on the first tool.
ToolMarkFirst == IF tools # <<>> /\ tools[1] THEN {1} ELSE {}

\* The breakpoint of the tools, if the last of the list is kept.
ToolMark == IF tools # <<>> /\ tools[Len(tools)] THEN {Len(ToolBlocks)} ELSE {}

Prompt(turn) == ToolBlocks \o SystemBlocks(turn) \o MessageBlocks

\* Positions of the prompt that carry a breakpoint.
Marks(turn) ==
  LET front == Len(ToolBlocks) + Len(SystemBlocks(turn))
  IN  ToolMark
        \cup (IF SystemBlocks(turn) # <<>> THEN {front} ELSE {})
        \cup {front + i : i \in CacheSet(MessageBlocks)}

Budget(effort) ==
  CASE effort = "low" -> 1024 [] effort = "medium" -> 8192
    [] effort = "high" -> 32768 [] OTHER -> 0

Asked(limit) == IF limit = 0 THEN 1024 ELSE limit

\* A budget equal to the limit is let through.
MaxTokensStrict(limit, effort) ==
  IF Asked(limit) < Budget(effort) THEN Budget(effort) + 4096 ELSE Asked(limit)

MaxTokens(limit, effort) ==
  IF Budget(effort) > 0 /\ Asked(limit) <= Budget(effort)
  THEN Budget(effort) + 4096 ELSE Asked(limit)

\* The turn is counted before the messages are looked at.
CountTurn == turnCounter' = IF billing THEN turnCounter + 1 ELSE turnCounter

Unsupported == \E i \in DOMAIN conversation : conversation[i].role = "developer"

-----------------------------------------------------------------------------
\* The client goes on with the conversation.
Say(m) ==
  /\ Len(conversation) < MaxMessages
  /\ conversation' = Append(conversation, m)
  /\ UNCHANGED <<billing, tools, turnCounter, cache, warm, sent>>

\* A request with a role the proxy does not know is refused after its turn was
\* counted (one without messages before, and changes nothing).
RefuseRole ==
  /\ Unsupported
  /\ turnCounter < MaxTurns
  /\ CountTurn
  /\ UNCHANGED <<billing, conversation, tools, cache, warm, sent>>

PrefixesAt(prompt, marks) == {SubSeq(prompt, 1, i) : i \in marks}

\* The longest stored prefix that ends at a breakpoint of the request.
Read(prompt, marks) ==
  LET hits == {i \in marks : SubSeq(prompt, 1, i) \in cache}
  IN  IF hits = {} THEN 0 ELSE CHOOSE i \in hits : \A j \in hits : j <= i

\* A request that upstream serves.
Send(effort, limit) ==
  /\ conversation # <<>>
  /\ ~Unsupported
  /\ turnCounter < MaxTurns
  /\ CountTurn
  /\ LET prompt == Prompt(turnCounter')
         marks  == Marks(turnCounter')
     IN  /\ sent' = [prompt |-> prompt, marks |-> marks,
                     read |-> Read(prompt, marks), after |-> warm,
                     maxTokens |-> MaxTokens(limit, effort), budget |-> Budget(effort)]
         /\ cache' = cache \cup PrefixesAt(prompt, marks)
  /\ warm' = Len(conversation)
  /\ UNCHANGED <<billing, conversation, tools>>

\* A request of another client takes a turn.
OtherTurn ==
  /\ turnCounter < MaxTurns
  /\ CountTurn
  /\ UNCHANGED <<billing, conversation, tools, cache, warm, sent>>

\* Upstream drops what it stored five minutes ago.
Evict ==
  /\ cache # {}
  /\ cache' = {}
  /\ warm' = 0
  /\ UNCHANGED <<billing, conversation, tools, turnCounter, sent>>

Next ==
  \/ \E r \in Roles, t \in Texts : Say([role |-> r, text |-> t])
  \/ RefuseRole
  \/ \E effort \in Efforts, limit \in Limits : Send(effort, limit)
  \/ OtherTurn
  \/ Evict

Spec == Init /\ [][Next]_vars

-----------------------------------------------------------------------------
(* Properties *)

\* Anthropic accepts at most four breakpoints: two on user messages, one on the
\* system blocks and one on the tools (anthropic/service.go:273-357).
AtMostFourBreakpoints == Cardinality(sent.marks) <= 4

\* The answer has room beside the thinking, whatever max_tokens the client asks
\* for and also when it asks for none (anthropic/service.go:252-255, 369-372).
ThinkingFits == sent.budget > 0 => sent.maxTokens > sent.budget

\* The messages of a request that follow those of the warm one.
Added == SubSeq(conversation, sent.after + 1, Len(conversation))

Users(ms) == {i \in DOMAIN ms : IsUser(ms, i)}

\* The request goes on from the warm one with at most one user message and no
\* system message.
Continues ==
  /\ sent # NoRequest /\ sent.after > 0 /\ warm = Len(conversation)
  /\ Cardinality(Users(Added)) <= 1
  /\ ~\E i \in DOMAIN Added : Added[i].role = "system"

\* The request reads everything up to the last user message of the warm one.
ReadsHistory ==
  Continues => LET earlier == SubSeq(conversation, 1, sent.after)
                   later   == {i \in DOMAIN conversation :
                                 /\ conversation[i].role # "system"
                                 /\ \A u \in Users(earlier) : i > u}
               IN  Users(earlier) # {} => sent.read >= Len(sent.prompt) - Cardinality(later)

\* Without a billing header every request reads from the cache what the one
\* before it stored: the breakpoint on the second-to-last user message is where
\* the previous request had its last (anthropic/service.go:273-288).
HistoryIsRead == ~billing => ReadsHistory

\* The same with the billing header, as docs/configuration.md ("Billing Header")
\* and docs/caching.md ("What Gets Cached in Practice") have it.
HistoryIsAlwaysRead == ReadsHistory

\* The tool definitions are read from the cache by every request after a warm
\* one, even when all that follows them differs, provided that the last tool of
\* the list is a named function (anthropic/service.go:333-353).
ToolsAreRead ==
  sent.after > 0 /\ tools # <<>> /\ tools[Len(tools)] => sent.read >= Len(ToolBlocks)
=============================================================================
