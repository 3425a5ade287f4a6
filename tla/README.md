# A TLA+ development for claude-oauth-proxy

claude-oauth-proxy is an HTTP server with OpenAI's chat interface in front of
Anthropic's API. It authenticates upstream with the OAuth session of a Claude
subscription: an access token that expires and a refresh token that Anthropic
replaces each time it is used. Almost everything that is hard about the
program is there. If the process ever presents a refresh token that has been
replaced, or loses the replacement, the session is gone and somebody has to
log in by hand.

The modules are translated from the Go source. TLC checks them on small
instances; TLAPS proves the safety properties that the runs check, and the
refinements, for all values of the constants. Liveness stays with TLC.

## The system

| Component | Source | State | Operations |
| --- | --- | --- | --- |
| OAuth session | `internal/auth/service.go` | `mu`, the token file | `AccessToken`, `CompleteLogin`, `Logout`, `Status` |
| Token store | `internal/tokens/store.go` | token file, temporary file, seed file | `Save`, `Load`, `Delete` |
| Anthropic provider | `internal/provider/anthropic/service.go` | `turnCounter` | `CreateChatCompletion`, `CreateChatCompletionStream`, `ListModels` |
| Streaming translator | same file, 116-204, `provider.go` | `firstChunkSent`, `finished`, `hasToolUse`, `toolCallIndex`, `streamUsage` | `Next`, `Close` |
| HTTP handler | `internal/adapters/http/handler.go` | none of its own | chat completions, models, health, readiness |
| Cost tracking | `internal/cost` | the price list, `fetched`, `fetchMu` | `Lookup`, the wrapper of responses and streams |
| CLI | `internal/adapters/cli/run.go`, `cmd/` | the goroutines of `serve` | `serve`, `login`, `logout`, `status`, `config` |
| Configuration | `internal/runtime` | none | `ConfigFromEnv`, `ParseByteSize`, `Validate`, `NewApp` |
| Logging, types, errors, build information | `logging`, `openai`, `core`, `buildinfo` | none | pure |

How they interact:

- A request handler calls the provider, which calls `AccessToken` before every
  upstream call and, after a 401 of a call that is not a stream, once more
  with `ForceRefresh`. The background refresher of `serve` calls `AccessToken`
  at every tick. All these goroutines queue for `service.mu`, which is held
  across reading the file, the HTTP call to the token endpoint and the save.
- `login` and `logout` run in other processes on the same token file (the
  Kubernetes guide runs `login` in the pod of a running `serve`). They share
  no lock with it.
- `Save` writes a temporary file and renames it; with a seed file configured
  `Load` falls back to the seed.
- A request passes the wrappers for request id, CORS and logging; each endpoint
  checks the API key for itself, then calls the provider through a logging and a
  cost wrapper.
- A streaming handler pulls chunks from the translator through the cost
  wrapper; the translator pulls events from Anthropic. A response that needs a
  price may have to fetch the price list first.
- Every command but `help` reads the environment first; `serve` adds its flags.
- `serve` inspects the file, perhaps logs in, starts the refresher and a
  goroutine that waits for the signal, and listens.

What is hard: callers that find the token expired at once; answers lost to a
timeout, a crash or a failed save after Anthropic has rotated the token; two
processes on one file; a queue for a mutex that ignores cancellation; a 401
that comes after a refresh of somebody else; event streams that stop anywhere;
a signal at any point of startup. `PROJECT.json` lists the hazards one by one,
each at its line with the properties that would catch it.

What makes each component correct:

- session: no replay of a replaced refresh token, no loss of a received one
  without an error, tokens that are on disk before they are used and fit what
  the caller asked for, calls that return;
- store: a save happens entirely or not at all, whoever dies when;
- provider: a 401 of an old token never reaches the client, every request is
  answered, requests stay within Anthropic's limits and hit its prompt cache;
- translator: a stream that clients can put together to what the answer without
  streaming would have said, with one truthful end or a visible break;
- handler: nothing upstream without the key, a log that knows what was sent;
- pricing: one fetch, nobody misled or blocked by it, the price of this model;
- configuration: no accepted value breaks what uses it;
- lifecycle: no serving without a session, an end on every signal.

## The modules

**`AuthService`** is the core. A *caller* is a goroutine in `AccessToken`; `pc`
walks it through the function: `wait` (at `Lock`), `locked`, `loaded` (after
`Load`), `sent` (in `client.Do`), `answered` (the endpoint has issued tokens),
`done`. Each early return is an action that runs `Return`, the deferred unlock.
Tokens are named by the answer of the endpoint that issued them, so that
"newer" is `>`; 0 is the empty string. The endpoint (external) honours a
refresh token until it has replaced it, and may answer with both tokens, with
an access token only, or without one. Time is the set `stale` of access tokens
for which `Expired` is true. `GiveUp` leaves a request on the wire that the
endpoint may serve later (`AnswerOrphan`); `LoseAnswer`, `SaveFails` and
`Crash` lose what it issued. `LoginExchange`, `LoginSave` and `Logout` are
other processes. The store is the register of `TokenStore`, except that a file
may be unreadable, when an answer without an access token was saved.
`lost`, `saved` and `since` are history.

**`TokenStore`** and **`FileStore`**: the register that `tokens.Store` promises,
and its implementation by `open`, `write`, `rename`, `remove` on inodes,
including the temporary name that all writers share. `Save` is split at its
system calls, a writer may die or fail at each. The refinement maps the
register to the content of the file at `path`; a save takes effect at its
rename, a load at its open. `alone`, chosen at the start, tells the writers of
one process (which take turns under `mu`) from those of several, which share the
temporary name: to them `TokenStore` promises only that a file which is there
stays there, though its content may be spoilt.

**`RequestFlow`** extends `AuthService`: each request is a caller, and obtains
its token with the steps of `AccessToken`. It adds the upstream call, the retry
with a forced refresh, and the stream, for which there is no retry. `rejected`
is the set of access tokens that upstream (external) answers with 401.

**`EventStream`**, **`ChunkStream`** and **`Completion`**: what the client of a
stream may see, and the translator, the cost wrapper and the handler that
implement it. Upstream keeps Anthropic's protocol (one message start, blocks one
after the other, message delta, message stop) and may fail or end anywhere.
Every event of the `switch` in `next` is an action. A text is the sequence of
the numbers of its pieces, prices are whole numbers. `message` collects what
upstream has said so far; `Completion` applies `mapResponse` to it and compares
the two ways to answer. `cumulative` is whether upstream repeats the cache
counts of the message start at the end, as Anthropic does.

**`Pricing`** and **`Gateway`**: `OpenRouterSource.Lookup` under its two locks
with the names it tries, and the HTTP handler that uses it. A `Lookup` is the
goroutine of one request; `at` walks it from the wrappers through the endpoint,
the provider and the cost wrapper to the log entry. A request (`Input`) has a
path, an origin, two key headers and a body, each from the values the handler
tells apart. A model name is a vendor, a family and a list of numbers with
separators, which is what `normalizeModelVersion` looks at. What the provider
answers is open; `RequestFlow` and `ChunkStream` have it.

**`PromptCache`**: `messageParams`, from the client's messages and tools to the
sequence of blocks with its breakpoints, and the prompt cache (external) as
`docs/caching.md` describes it: a stored prefix is read if it ends at a
breakpoint of the request. The cache is taken to compare prefixes exactly.
`billing`, chosen at the start, is whether requests carry the billing header.

**`Config`**, **`LoginCode`** and **`Serve`**: the settings from environment and
flags to what the services make of them; the line an operator pastes, as the
sequence of tokens that `normalizeCode` tells apart; and the life of a process,
which uses both. `Serve` has every command to its exit code, and `serve` with
the inspection of the token file, the login, the goroutines, the listener and
the shutdown. The token file is abstracted to absent, unreadable, fresh,
expired. `ParseByteSize` wraps around at `Word`, with `Kilo` for 1024.

**`Loops`** has the two loops over slices that the providers are written with,
`Filter` (append some of the items) and `Total` (add up), as recursive functions:
`messageParams` and `mapResponse` build everything they return with them.

`MC*` modules hold constants for TLC, `*Proofs` modules the proofs,
`SequenceFacts` the facts about sequences that those share.
An operator with a suffix that tells what it does wrong (`AcquireBusy`,
`RefreshedDropsRotation`, ...) is a variant of the definition that follows it;
no specification uses it. Each property is known to fail for such a variant
(`PROJECT.json`, `mutants`).

## The runs

| Run | Bounds | Shows |
| --- | --- | --- |
| `auth_safety` | 2 callers, 1 login, 3 answers of all kinds | `OneAtATime`, `NoReplay`, `DurableBeforeUse`, `NeverExpiredOnArrival`, `ForcedIsNew`, and the invariants `ReplayInv` and `ReturnInv` that the proofs rest on |
| `flow_retry` | 2 chat requests, 3 answers, a seed file, refresh tokens that do not rotate | `TypeOK`, `No401OfAnOldToken`, `OnlyNewerTokens` |
| `flow_live` | 1 request of any kind, the refresher, 2 answers, refresh tokens that rotate | `EveryRequestAnswered`, `EveryCallReturns`, `Renewal` |
| `file_store` | 2 writers, in turn or at once, 1 reader, 3 inodes, 2 values of different length | `TypeOK`, `OnlyDeleteRemoves`, `ImplementsStore` |
| `stream` | 5 content events, 4 usage reports, thinking pieces of 5 characters | `TypeOK`, `RoleOnFirstChunkOnly`, `StreamAgrees`, `UsageAgrees`, `CostWithinRates`, `FinishTellsTheTruth`, `KeepsEventStream`, `StreamEnds` |
| `gateway` | 3 requests at once, 2 of which need a price, the third any of 43 inputs; 5 listed models; a fetch that may fail, at most 2 of them | `GatewayTypeOK`, `FetchedOnce`, `PriceOfTheModel`, `KeyGuardsUpstream`, `LogTellsTheStatus`, `CostIsBestEffort`, `OnlyAnthropicHoldsUp` |
| `serve` | every command, each setting blank or at one of its boundary values, all flags, any token file, 30 pasted lines, 2 requests | `TypeOK`, `ServesAuthenticated`, `AcceptedSettingsWork`, `PastedCodeArrives`, `SignalEnds` |
| `prompt_cache` | 3 messages, 3 turns, 3 tool lists, efforts none, low and medium, no limit or one that equals the medium budget, with and without the header | `AtMostFourBreakpoints`, `ToolsAreRead`, `HistoryIsRead`, `ThinkingFits` |
| `flow_stream`, `auth_login_race`, `serve_drain`, `prompt_cold` | as above | a violation each, see below |

Why the bounds are enough. With two callers there is one that holds the mutex
and one that queues, or two whose 401s race; a third only lengthens the queue.
The first answer is the session the run starts with, so three answers are two
refreshes, or a refresh and a login: each replay needs one refresh to replace a
token and a second to present it. `flow_retry` takes refresh tokens that stay
valid because no refresh is then cut short by a refusal: it is the case in which
two writers could save in the wrong order, and in which most retries go out.
Runs stop at their bounds, so deadlock is not checked where a bound ends the
run; the liveness properties say what must not get stuck. Two token sets of
different length make a write without truncation visible, three inodes the file,
its replacement and one that a reader still has open. Five events make two tool
calls with a piece of arguments each, or thinking before text before a tool, or
a second message delta; five characters to a piece are not a multiple of four, so
that rounding shows. The usage reports are nothing, a prompt without cache, one
written to the cache and one read from it. In `gateway` two requests can meet in
`Lookup` while the third passes; the bound of two fetches is one more than the
code makes, so that a second would show. In `serve` one setting at a time leaves
its default, because no two of them interact before the services are built;
`Word` 4096 and `Kilo` 4 keep the proportions in which a size wraps to zero, to a
negative number and to a small positive one (2^64 and 1024 in the code, on which
TLC's integers would overflow). Three
user messages, the tools and the header are five places for a breakpoint, one
more than the limit.

### Where code and documents disagree

Four runs expect a violation. Each checks what a document says.

- `flow_stream`: a 401 on a stream is not retried, although the configuration
  reference says an upstream 401 is.
- `auth_login_race`: `login` beside a running `serve` is not single-writer. A
  refresh in flight overwrites the new session with the old one.
- `serve_drain`: `serve` exits while `Shutdown` is still waiting for requests.
- `prompt_cold`: the turn number in the billing header changes the prefix, so
  that system prompt and history are never read from the cache. With no header
  (`HistoryIsRead` in `prompt_cache`) they are.

Other differences and surprises are plain from the code and have no run of their
own; the models follow the code:

- the seed file is read whenever the primary cannot be (`store.go:148-154`), not
  only when it does not exist (`docs/configuration.md:114`); `Loaded` in
  `AuthService` follows the code;
- with `NO_AUTO_LOGIN` an unreadable token file ends `serve` (`run.go:85-89`),
  which `docs/release-notes/RELEASE_NOTES_1.1.8.md:13` says starts immediately;
  `Inspect` in `Serve` follows the code;
- the tools carry no breakpoint if the last entry of the list is not a named
  function (`service.go:335-351`), although `docs/caching.md:26` says the last
  has one; `ToolBlocks` in `PromptCache` follows the code;
- a message delta overwrites the cache counts of the message start
  (`service.go:186-190`): if upstream did not repeat them, the usage of a stream
  would lack them. `UsageAgrees` and `CostWithinRates` assume that it does;
- a stream finishes with `stop` or `tool_calls` only, where `mapResponse` passes
  `end_turn` and `max_tokens` on, so `UsageAgrees` compares `tool_calls` alone;
  reasoning tokens are rounded up per block in one and in total in the other;
- `normalizeModelVersion` skips an overlapping match, though its comment speaks
  of all occurrences, and gives a dated name such as `claude-sonnet-4-20250514` a
  dot; `Normalized` in `Pricing` has both;
- `/readyz` fails between the moment a token comes within the skew of its expiry
  and the refresher's next tick, though
  `docs/release-notes/RELEASE_NOTES_1.1.8.md:13` reads as if it only waited for
  the first login;
- a size that overflows may also wrap to a small positive limit, which the server
  then enforces; a `REQUEST_TIMEOUT` of zero or less means none, a skew or
  interval of zero or less the default, and a skew longer than a token's life
  makes every call refresh.

## Fairness

`FairSpecFlow` of `RequestFlow`: the Go scheduler runs every goroutine that can
run (weak fairness of `Step`, the steps inside `AccessToken`, and of `OwnStep`,
those of a request); `sync.Mutex` hands over to a waiter that has starved for a
millisecond (strong fairness of `Acquire`); the 15s client timeout ends every
wait for the token endpoint (`GiveUp` is part of `Step`), of which nothing is
assumed. `UpstreamFails` is fair only where `RequestTimeout` applies, so
`EveryRequestAnswered` leaves streams out. `Renewal` has premises of its own
(`Refreshing`): the refresher ticks for ever, which its loop does, an endpoint
that is asked again and again answers in the end, and the process stops crashing.
`ChunkStream` assumes that upstream goes on, since no timeout bounds a stream.
`Gateway` runs every handler and every lookup, does not let `fetchMu` starve a
waiter, and ends the fetch (its client has a timeout); it assumes nothing of the
provider, which `OnlyAnthropicHoldsUp` names as the one thing that may hold a
request up. `Serve` assumes that every command, each call of startup and of the
login ends, that a login prompt ends once the signal is there
(`readLineWithContext` selects on both), and that the shutdown goroutine and
`ListenAndServe` run; nothing makes the operator paste a line or the signal come.

## What is proved

Every safety property that a passing run checks, invariants, action properties
and refinements, is proved for any values of the constants, from the `ASSUME`s of
the module it is about alone. Most of these say what a constant is. Two say more:

- `ServeAssumption`: the environment holds values of the kinds that
  `ConfigFromEnv` tells apart, and a pasted line that has the code in it has it in
  a form the README of the program names (`CarriesCode`: once, alone or behind the
  only `code=`, up to the end, a `&` or a `#`);
- `NamesAssumption`: a model name has a separator between any two numbers of its
  version, and at most one `anthropic/` before it.

| Module | Theorem | States |
| --- | --- | --- |
| `AuthServiceProofs` | `TypeCorrect`, `MutualExclusion` | `[]TypeOK`, `[]OneAtATime` |
| | `ReplayInvariant`, `NeverReplays` | `[]ReplayInv`, `[]NoReplay` |
| | `ReturnInvariant` | `[]ReturnInv` |
| | `TokensAreDurable`, `NoStaleToken`, `ForcedRefreshIsNew` | `[]DurableBeforeUse`, `[]NeverExpiredOnArrival`, `[]ForcedIsNew` |
| | `SingleWriter` | `OnlyNewerTokens`, assuming `Logins = {}` |
| `RequestFlowProofs` | `RequestsUseTheSession` | `SpecFlow => Spec` of `AuthService` |
| | `RetryIsNew` | `[]No401OfAnOldToken`, assuming `Stream \notin Kinds` |
| `FileStoreProofs` | `FileInvariant`, `FileTypeCorrect` | `[]FileInv`, `[]TypeOK` |
| | `FileIsKept`, `FilesImplementStore` | `OnlyDeleteRemoves`, `ImplementsStore` |
| `ChunkStreamProofs` | `StreamInvariant`, `OneRole`, `FinishIsTrue` | `[]StreamInv`, `[]RoleOnFirstChunkOnly`, `[]FinishTellsTheTruth` |
| | `ImplementsEventStream` | `KeepsEventStream` |
| | `AnswerInvariant`, `StreamTypeCorrect` | `[]AnswerInv`, `[]TypeOK` |
| | `SameAnswer`, `SameUsage`, `FairPrice` | `[]StreamAgrees`, `[]UsageAgrees`, `[]CostWithinRates` |
| `GatewayProofs` | `PriceInvariant`, `ImplementsPricing`, `AskedOnce`, `NobodyMisled` | `Pricing` under the handlers: one fetch, nobody past `fetchMu` before it is over |
| | `GatewayTypeCorrect`, `KeyGuards` | `[]GatewayTypeOK`, `[]KeyGuardsUpstream` |
| | `HandlerInvariant`, `LogIsTrue`, `BestEffort` | `[]HandlerInv`, `[]LogTellsTheStatus`, `[]CostIsBestEffort` |
| | `RightPrice` | `[]PriceOfTheModel` |
| `ServeProofs` | `TypeCorrect`, `ServesWithSession` | `[]TypeOK`, `[]ServesAuthenticated` |
| | `PastedCodeIsExchanged`, `AcceptedMeansWorking` | `[]PastedCodeArrives`, `[]AcceptedSettingsWork` |
| `PromptCacheProofs` | `NeverTooManyBreakpoints`, `RoomBesideThinking` | `[]AtMostFourBreakpoints`, `[]ThinkingFits` |
| | `ToolsStayRead`, `HistoryStaysRead` | `[]ToolsAreRead`, `[]HistoryIsRead` |

*The argument for `NoReplay`.* It is not inductive: nothing in it says why the
token a caller is about to present has not been replaced. `Current` does: the
refresh token in the file is usable, except while the caller in the mutex holds
the answer that replaced it and is about to save that; and what a caller has
read stays usable until its own request is answered. For that, nobody else may
spend it, which needs the mutex (`OneAtATime`, with `HandsEmpty`: outside the
mutex a caller holds no token), and what is about to be saved must not be spent
before it is in the file. That is `Secret`: a refresh token that was issued and
not yet saved is unknown to the file, to every other caller, to every login and
to every request left on the wire. Freshness of a new token comes from `Issued`
and `IssuedToCallers`: nothing mentions a token beyond `issued`. A login process needs
no mutex here: it overwrites the file with a token that is secret by the same
invariant. The conjunction `ReplayInv` is preserved by every action, one lemma
per action.

*The returned tokens.* `ReturnInv` says of each caller what it has loaded is on
disk and what it received is newer than its call; it is preserved given
`ReplayInv`. *The file* only moves to newer tokens because an answer in a
caller's hands is newer than the file (`WriterInv`), which a login would break:
`SingleWriter` assumes there is none, and `auth_login_race` shows that the
assumption is needed.

*The retry.* `RequestsUseTheSession` shows that every step of `RequestFlow` is a
step of `AuthService` or leaves it alone, so `ReplayInv` and `ReturnInv` hold
beneath the requests. `FlowInv` then follows one request: its forced call begins
after the request did and is not disturbed by anybody else (`CallGoesOn`), and
`ReturnInv` says that what it returns is newer than the call. Streams have to be
left out, as `flow_stream` shows.

*The store.* Two facts carry the refinement: nobody but the writers reaches the
inode at the temporary name (`Apart`), so writes show nowhere before the rename;
and with writers that take turns the only descriptor open for writing is that of
the temporary file, which is complete when it is renamed (`InTurn`). A rename is
then the register's save, an open for reading its load, and every other call a
stutter.

*The stream.* `StreamInv` ties three things together: the translator's flags,
the chunk it has returned and the handler has not written (`PendingInv`), and
the positions of the chunks that were sent, kind by kind. A finish chunk is sent
or pending exactly if `finished` is set (`FinishInv`), and when it is made it
says what `message` and `hasToolUse` say (`UsageInv`). Nothing follows it because
`Next` answers EOF from then on.

*The two answers.* That a stream says what the answer without streaming would
have said (`StreamAgrees`) is true when upstream is done, and must be true of
every prefix to be proved: `AgreeInv` compares what the client has, or has with
the pending chunk, to what `mapResponse` would make of the message so far. Text is
compared as a whole; the n-th tool call as its start, its id and its arguments,
which the client finds by their index. An event either touches neither side
(thinking), or adds the same piece to both, and then the piece must belong to the
open block: `MessageInv` says that this is the last one. `CountInv` does the same
for the counters. `UsageAgrees` then needs that rounding the sum of the thinking
pieces and summing the rounded blocks differ by at most one for each block, and
`CostWithinRates` that the three kinds of prompt tokens add up to the prompt.

*The gateway.* `FetchInv` is what `fetchMu` is for: while it is held by the one
who fetches, nobody is past it, and `fetched` is set before it is free.
`HandlerInv` says for each place of a handler what it has sent, logged and paid
for. `CostIsBestEffort` compares a header that was sent with the list as it is
later, and needs both: the list never changes once somebody has read it. For
`PriceOfTheModel` the recursion of `Normalized` is unfolded at versions of two
numbers, which is what the property speaks of.

*The process.* `SessionInv` is `ServesAuthenticated` moved forward to the moment
startup is over, since the way that led there is forgotten after it. `OriginInv`
keeps where the configuration and the code come from. The rest is about the
operators: what `normalizeCode` cuts off a line of any length, and that a size
whose product wraps around yields a positive limit because `NewHandler` replaces
what is not positive.

*The prompt cache.* `FewMarked` bounds the breakpoints on user messages by what
`CacheSet` says of their positions. `HistoryIsRead` is the deep one: `CacheInv`
says that every prefix of the last warm request up to one of its breakpoints is
still stored, and `StillMarked` that the last user message of that request is
among the last two of the next one, and that the prompt up to there is the same.
Both rest on `Filter` distributing over concatenation, so that a position in the
conversation can be followed to a position in the prompt.

*Induction.* The sequences in these proofs have any length. A set that contains
`<<>>` and is not left by `Append` contains every sequence: `SequenceFacts` proves
this from the well-founded subsets `1..n`, by a least counterexample, and from it
what `Filter` and `Total` return.

What is model-checked only:

- liveness (`EveryCallReturns`, `Renewal`, `EveryRequestAnswered`, `StreamEnds`,
  `OnlyAnthropicHoldsUp`, `SignalEnds`): fairness and `ENABLED` are beyond TLAPS
  here.

## What is not modelled

- PKCE, the authorization URL and the browser: no state.
- Request ids, response bodies and the formats of log entries; the recorders and
  events of `logging`, which pass everything on.
- The JSON types but for the fields that usage, cost and contents decide on.
- Durability against power failure: nothing is synced, and the model's disk
  survives only the death of the process.
- Spaces and percent-encoding in a pasted line; the OpenRouter URL and the
  fingerprint settings, which decide nothing.
- Build information, container image, chart and CI: no behaviour of the program.
- A logout beside a running refresh, and a 200 answer without an access token, are
  in `AuthService`, but nothing in the repository says what should become of
  them; they are hazards without a property.

## Plan

1. Done: `AuthService`, `TokenStore`/`FileStore`, `RequestFlow`,
   `EventStream`/`ChunkStream`, `PromptCache`, `Pricing`, `Serve`; `mapResponse`
   beside the stream (`Completion`), the wrappers and endpoints (`Gateway`),
   configuration and login code (`Config`, `LoginCode`); the modules of proofs
   above.
2. Done: the proofs of every safety property that the runs check.
3. Next proofs: an abstract session (one login, replaced by whoever refreshes it,
   lost only by an error that is reported) that `AuthService` implements, so that
   `RequestFlow` and `Serve` can rest on it alone; what `Normalized` does to a
   version of any length, by the induction of `SequenceFacts`.
4. Next models: `/readyz` reading the file of `AuthService` instead of answering
   anything; several processes of `serve` on one seed file.
