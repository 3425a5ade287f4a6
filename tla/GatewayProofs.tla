---------------------------- MODULE GatewayProofs ----------------------------
(***************************************************************************)
(* Theorems about Gateway and the price list in it, for any number of      *)
(* requests and models and any catalogue.                                  *)
(*                                                                         *)
(* Gateway implements Pricing, so what holds of the price list holds of    *)
(* the one the handlers share.  That cost data is best-effort needs more   *)
(* than the handlers' own state: a header that was sent stays right only   *)
(* because the list never changes once it was fetched, which rests on      *)
(* fetchMu (FetchInv).  HandlerInv says what each handler has done so far. *)
(***************************************************************************)
EXTENDS Gateway, TLAPS

\* What fetchMu is for: the fetch is counted, and over when `fetched' is set, and
\* nobody gets past the mutex before.
FetchInv ==
  /\ sent = IF fetched \/ (\E l \in Lookups : pc[l] = "fetching") THEN 1 ELSE 0
  /\ fetched => \A l \in Lookups : pc[l] # "fetching"
  /\ ~fetched => prices = {} /\ \A l \in Lookups : pc[l] # "unlocked"

PriceInv == TypeOK /\ FetchInv

-----------------------------------------------------------------------------
(* The price list *)

\* A lookup finds one of the names that have a price, or none.
LEMMA FindType ==
  ASSUME NEW name PROVE Find(name) \in {{}} \cup {{found} : found \in prices}
<1>. DEFINE hits == {i \in 1..4 : Tried(name)[i] \in prices}
            first == {j \in hits : \A k \in hits : j <= k}
<1>1. Find(name) = {Tried(name)[i] : i \in first}
  BY DEF Find
<1>2. CASE first = {}
  BY <1>1, <1>2
<1>3. CASE first # {}
  <2>1. PICK j \in first : TRUE
    BY <1>3
  <2>2. \A i \in first : i = j
    BY <2>1
  <2>3. Find(name) = {Tried(name)[j]}
    BY <1>1, <2>1, <2>2
  <2>4. Tried(name)[j] \in prices
    BY <2>1
  <2>. QED
    BY <2>3, <2>4
<1>. QED
  BY <1>2, <1>3

\* The price list starts unfetched, with every lock free.
LEMMA PriceInit == Init => PriceInv
<1>. SUFFICES ASSUME Init PROVE PriceInv
  OBVIOUS
<1>1. \A l \in Lookups : pc[l] = "idle" /\ fetchMu # l
  BY ConstantsAssumption DEF Init
<1>2. pc \in [Lookups -> PC] /\ answer \in [Lookups -> {{}} \cup {{name} : name \in Priced}]
  BY DEF Init, PC
<1>3. sent = 0 /\ fetched = FALSE /\ prices = {}
  BY DEF Init
<1>4. TypeOK
  <2>1. 0 \in 0..Max
    BY ConstantsAssumption
  <2>2. \A l \in Lookups : pc[l] \in {"locked", "fetching"} <=> fetchMu = l
    BY <1>1
  <2>. QED
    BY <1>2, <1>3, <2>1, <2>2, Zenon DEF TypeOK
<1>5. FetchInv
  BY <1>1, <1>3 DEF FetchInv
<1>. QED
  BY <1>4, <1>5 DEF PriceInv

\* Types and the mutex.
LEMMA PriceTypeStep == TypeOK /\ [Next]_priceVars => TypeOK'
<1>. SUFFICES ASSUME TypeOK, [Next]_priceVars PROVE TypeOK'
  OBVIOUS
<1>. USE ConstantsAssumption
<1>1. CASE UNCHANGED priceVars
  BY <1>1 DEF TypeOK, priceVars
<1>2. ASSUME NEW l \in Lookups, Begin(l) PROVE TypeOK'
  BY <1>2 DEF TypeOK, Begin, PC
<1>3. ASSUME NEW l \in Lookups, Lock(l) PROVE TypeOK'
  BY <1>3 DEF TypeOK, Lock, PC
<1>4. ASSUME NEW l \in Lookups, SkipFetch(l) PROVE TypeOK'
  BY <1>4 DEF TypeOK, SkipFetch, PC
<1>5. ASSUME NEW l \in Lookups, StartFetch(l) PROVE TypeOK'
  BY <1>5 DEF TypeOK, StartFetch, PC
<1>6. ASSUME NEW l \in Lookups, FetchSucceeds(l) PROVE TypeOK'
  BY <1>6 DEF TypeOK, FetchSucceeds, PC
<1>7. ASSUME NEW l \in Lookups, FetchFails(l) PROVE TypeOK'
  BY <1>7 DEF TypeOK, FetchFails, PC
<1>8. ASSUME NEW l \in Lookups, Read(l) PROVE TypeOK'
  <2>1. Find(Model[l]) \in {{}} \cup {{name} : name \in Priced}
    BY FindType DEF TypeOK
  <2>. QED
    BY <1>8, <2>1 DEF TypeOK, Read, PC
<1>. QED
  BY <1>1, <1>2, <1>3, <1>4, <1>5, <1>6, <1>7, <1>8 DEF Next, Step

\* One fetch, over when anybody reads.
LEMMA FetchStep == PriceInv /\ TypeOK' /\ [Next]_priceVars => FetchInv'
<1>. SUFFICES ASSUME PriceInv, TypeOK', [Next]_priceVars PROVE FetchInv'
  OBVIOUS
<1>. USE DEF PriceInv
<1>1. CASE UNCHANGED priceVars
  BY <1>1 DEF FetchInv, priceVars
<1>2. ASSUME NEW l \in Lookups, Begin(l) PROVE FetchInv'
  BY <1>2 DEF TypeOK, FetchInv, Begin
<1>3. ASSUME NEW l \in Lookups, Lock(l) PROVE FetchInv'
  BY <1>3 DEF TypeOK, FetchInv, Lock
<1>4. ASSUME NEW l \in Lookups, SkipFetch(l) PROVE FetchInv'
  BY <1>4 DEF TypeOK, FetchInv, SkipFetch
<1>5. ASSUME NEW l \in Lookups, StartFetch(l) PROVE FetchInv'
  <2>1. \A m \in Lookups : pc[m] # "fetching"
    BY <1>5 DEF TypeOK, StartFetch
  <2>. QED
    BY <1>5, <2>1 DEF TypeOK, FetchInv, StartFetch
<1>6. ASSUME NEW l \in Lookups, FetchSucceeds(l) \/ FetchFails(l) PROVE FetchInv'
  <2>1. \A m \in Lookups : pc[m] = "fetching" => m = l
    BY <1>6 DEF TypeOK, FetchSucceeds, FetchFails
  <2>2. \A m \in Lookups : pc'[m] # "fetching"
    BY <1>6, <2>1 DEF TypeOK, FetchSucceeds, FetchFails
  <2>. QED
    BY <1>6, <2>2 DEF TypeOK, FetchInv, FetchSucceeds, FetchFails
<1>7. ASSUME NEW l \in Lookups, Read(l) PROVE FetchInv'
  BY <1>7 DEF TypeOK, FetchInv, Read
<1>. QED
  BY <1>1, <1>2, <1>3, <1>4, <1>5, <1>6, <1>7 DEF Next, Step

\* Both parts of the invariant, in every step.
LEMMA PriceStep == PriceInv /\ [Next]_priceVars => PriceInv'
BY PriceTypeStep, FetchStep DEF PriceInv

\* The price list alone: OpenRouter is asked once, and nobody reads before the
\* answer is there.
THEOREM PriceInvariant == Spec => []PriceInv
BY PriceInit, PriceStep, PTL DEF Spec

\* The handlers use the price list as Pricing says: Gateway implements Pricing.
LEMMA PricingStep == [NextGateway]_vars => [Next]_priceVars
<1>. SUFFICES ASSUME [NextGateway]_vars PROVE [Next]_priceVars
  OBVIOUS
<1>1. CASE UNCHANGED vars
  BY <1>1 DEF vars
<1>2. ASSUME NEW r \in Lookups, Handle(r) PROVE UNCHANGED priceVars
  BY <1>2 DEF Handle, Preflight, Enter, Leave, Local, CallProvider, Ready, PricedReply, EndStream
<1>3. ASSUME NEW r \in Lookups, LookUp(r) PROVE Next
  BY <1>3 DEF LookUp, Next
<1>4. ASSUME NEW r \in Lookups, Upstream(r) PROVE Next \/ UNCHANGED priceVars
  BY <1>4 DEF Upstream, Next, ProviderOK, ProviderFails, OpenStream, FinishChunkComes, StreamBreaks
<1>. QED
  BY <1>1, <1>2, <1>3, <1>4 DEF NextGateway

\* The handlers use the price list as Pricing allows: what is proved of it holds
\* beneath them (cost/middleware.go:31-62).
THEOREM ImplementsPricing == SpecGateway => Spec
BY PricingStep, PTL DEF SpecGateway, Spec, InitGateway

\* OpenRouter is asked once in the life of the process, whatever the requests.
THEOREM AskedOnce == SpecGateway => []FetchedOnce
<1>1. PriceInv => FetchedOnce
  BY DEF PriceInv, FetchInv, FetchedOnce
<1>. QED
  BY <1>1, ImplementsPricing, PriceInvariant, PTL

\* No lookup reads before the one fetch is over.
THEOREM NobodyMisled == SpecGateway => []NothingMissed
<1>1. PriceInv => NothingMissed
  BY DEF PriceInv, FetchInv, NothingMissed
<1>. QED
  BY <1>1, ImplementsPricing, PriceInvariant, PTL

-----------------------------------------------------------------------------
(* The handlers' variables *)

Header == [status : Statuses, cors : BOOLEAN, cost : BOOLEAN]

HandlersOK ==
  /\ req \in [Lookups -> Input]
  /\ at \in [Lookups -> At]
  /\ provided \in [Lookups -> {"none", "ok", "failed"}]
  /\ header \in [Lookups -> Header]
  /\ capturing \in [Lookups -> Statuses]
  /\ logged \in [Lookups -> {"no", "start", "info", "error"}]

\* What a step of r leaves to the others.
OthersKept(r) ==
  \A q \in Lookups \ {r} :
    /\ at'[q] = at[q] /\ provided'[q] = provided[q] /\ header'[q] = header[q]
    /\ capturing'[q] = capturing[q] /\ logged'[q] = logged[q]

\* A header with one or two fields set is a header.
LEMMA HeaderUpdates ==
  ASSUME NEW h \in Header, NEW status \in Statuses, NEW b \in BOOLEAN
  PROVE  /\ [h EXCEPT !.cors = b] \in Header
         /\ [h EXCEPT !.cors = b, !.status = status] \in Header
         /\ [h EXCEPT !.status = status, !.cost = b] \in Header
BY DEF Header

\* An answer sets the status, for the client and the log, and nothing else.
LEMMA WriteHeaderEffect ==
  ASSUME HandlersOK, NEW r \in Lookups, NEW status \in Statuses, WriteHeader(r, status)
  PROVE  /\ header' \in [Lookups -> Header]
         /\ capturing' \in [Lookups -> Statuses]
         /\ header'[r].status = status /\ capturing'[r] = status
         /\ header'[r].cost = header[r].cost
         /\ \A q \in Lookups \ {r} : header'[q] = header[q] /\ capturing'[q] = capturing[q]
BY DEF HandlersOK, WriteHeader, Header

\* The status goes out and into the log, as far as the handler is concerned.
LEMMA ReplyEffect ==
  ASSUME HandlersOK, NEW r \in Lookups, NEW status \in Statuses, Reply(r, status)
  PROVE  /\ header' \in [Lookups -> Header]
         /\ capturing' \in [Lookups -> Statuses]
         /\ at' \in [Lookups -> At]
         /\ header'[r].status = status /\ capturing'[r] = status /\ at'[r] = "sent"
         /\ header'[r].cost = header[r].cost
         /\ \A q \in Lookups \ {r} : /\ header'[q] = header[q] /\ capturing'[q] = capturing[q]
                                     /\ at'[q] = at[q]
<1>1. WriteHeader(r, status) /\ at' = [at EXCEPT ![r] = "sent"]
  BY DEF Reply, Goto
<1>. QED
  BY <1>1, WriteHeaderEffect DEF HandlersOK, At

\* A handler moves on.
LEMMA GotoEffect ==
  ASSUME HandlersOK, NEW r \in Lookups, NEW place \in At, Goto(r, place)
  PROVE  /\ at' \in [Lookups -> At] /\ at'[r] = place
         /\ \A q \in Lookups \ {r} : at'[q] = at[q]
BY DEF HandlersOK, Goto

\* Every handler starts with nothing sent.
LEMMA HandlersInit == InitGateway => HandlersOK
BY GatewayAssumption DEF InitGateway, HandlersOK, At, Header, Statuses

\* Types, and what a handler does is its own.
LEMMA HandlersStep ==
  ASSUME HandlersOK, NEW r \in Lookups, Handle(r) \/ LookUp(r) \/ Upstream(r)
  PROVE  HandlersOK' /\ OthersKept(r) /\ req' = req
<1>. DEFINE Goal == HandlersOK' /\ OthersKept(r) /\ req' = req
<1>1. ASSUME Preflight(r) PROVE Goal
  <2>1. header' = [header EXCEPT ![r] = [header[r] EXCEPT !.cors = TRUE, !.status = 204]]
    BY <1>1, ZenonT(60) DEF Preflight, HandlersOK
  <2>2. [header[r] EXCEPT !.cors = TRUE, !.status = 204] \in Header
    <3>1. header[r] \in Header /\ 204 \in Statuses /\ TRUE \in BOOLEAN
      BY DEF HandlersOK, Statuses
    <3>. QED
      BY <3>1, HeaderUpdates, ZenonT(60)
  <2>3. header' \in [Lookups -> Header] /\ \A q \in Lookups \ {r} : header'[q] = header[q]
    BY <2>1, <2>2 DEF HandlersOK
  <2>. QED
    BY <1>1, <2>3 DEF Preflight, Goto, HandlersOK, OthersKept, At
<1>2. ASSUME Enter(r) PROVE Goal
  <2>1. Listed(r) \in BOOLEAN
    BY GatewayAssumption DEF Listed
  <2>. QED
    BY <1>2, <2>1 DEF Enter, Goto, HandlersOK, OthersKept, At, Header, Statuses
<1>3. ASSUME Leave(r) PROVE Goal
  BY <1>3 DEF Leave, Goto, HandlersOK, OthersKept, At
<1>4. ASSUME Local(r) PROVE Goal
  <2>1. PICK status \in Statuses : Reply(r, status)
    BY <1>4 DEF Local, Statuses, Errors
  <2>. QED
    BY <1>4, <2>1, ReplyEffect DEF Local, HandlersOK, OthersKept
<1>5. ASSUME CallProvider(r) PROVE Goal
  BY <1>5 DEF CallProvider, Goto, HandlersOK, OthersKept, At
<1>6. ASSUME Ready(r) PROVE Goal
  <2>1. PICK status \in Statuses : Reply(r, status)
    BY <1>6 DEF Ready, Statuses, Errors
  <2>. QED
    BY <1>6, <2>1, ReplyEffect DEF Ready, HandlersOK, OthersKept
<1>7. ASSUME PricedReply(r) PROVE Goal
  <2>1. header' = [header EXCEPT ![r] = [header[r] EXCEPT !.status = 200, !.cost = (answer[r] # {})]]
    BY <1>7, ZenonT(60) DEF PricedReply, HandlersOK
  <2>2. PICK b \in BOOLEAN :
          header' = [header EXCEPT ![r] = [header[r] EXCEPT !.status = 200, !.cost = b]]
    BY <2>1
  <2>3. [header[r] EXCEPT !.status = 200, !.cost = b] \in Header
    <3>1. header[r] \in Header /\ 200 \in Statuses
      BY DEF HandlersOK, Statuses
    <3>. QED
      BY <3>1, HeaderUpdates, ZenonT(60)
  <2>4. header' \in [Lookups -> Header] /\ \A q \in Lookups \ {r} : header'[q] = header[q]
    BY <2>2, <2>3 DEF HandlersOK
  <2>5. 200 \in Statuses
    BY DEF Statuses
  <2>. QED
    BY <1>7, <2>4, <2>5 DEF PricedReply, Goto, HandlersOK, OthersKept, At
<1>8. ASSUME EndStream(r) PROVE Goal
  BY <1>8 DEF EndStream, Goto, HandlersOK, OthersKept, At
<1>9. ASSUME LookUp(r) PROVE Goal
  BY <1>9 DEF LookUp, gateVars, HandlersOK, OthersKept
<1>10. ASSUME ProviderFails(r) PROVE Goal
  <2>1. PICK status \in Statuses : Reply(r, status)
    BY <1>10 DEF ProviderFails, Statuses, Errors
  <2>. QED
    BY <1>10, <2>1, ReplyEffect DEF ProviderFails, HandlersOK, OthersKept
<1>11. ASSUME ProviderOK(r) PROVE Goal
  <2>1. CASE Costs(r)
    BY <1>11, <2>1 DEF ProviderOK, Goto, HandlersOK, OthersKept, At
  <2>2. CASE ~Costs(r)
    <3>1. 200 \in Statuses /\ Reply(r, 200)
      BY <1>11, <2>2 DEF ProviderOK, Statuses
    <3>. QED
      BY <1>11, <3>1, ReplyEffect DEF ProviderOK, HandlersOK, OthersKept
  <2>. QED
    BY <2>1, <2>2
<1>12. ASSUME OpenStream(r) PROVE Goal
  <2>1. 200 \in Statuses /\ WriteHeader(r, 200)
    BY <1>12 DEF OpenStream, Statuses
  <2>. QED
    BY <1>12, <2>1, WriteHeaderEffect DEF OpenStream, Goto, HandlersOK, OthersKept, At
<1>13. ASSUME FinishChunkComes(r) PROVE Goal
  BY <1>13 DEF FinishChunkComes, Goto, HandlersOK, OthersKept, At
<1>14. ASSUME StreamBreaks(r) PROVE Goal
  BY <1>14 DEF StreamBreaks, Goto, HandlersOK, OthersKept, At
<1>. QED
  BY <1>1, <1>2, <1>3, <1>4, <1>5, <1>6, <1>7, <1>8, <1>9, <1>10, <1>11, <1>12, <1>13, <1>14
  DEF Handle, Upstream

\* No step of the gateway leaves the types.
LEMMA HandlersTypeStep == HandlersOK /\ [NextGateway]_vars => HandlersOK'
<1>. SUFFICES ASSUME HandlersOK, [NextGateway]_vars PROVE HandlersOK'
  OBVIOUS
<1>1. CASE UNCHANGED vars
  BY <1>1 DEF HandlersOK, vars, gateVars
<1>2. CASE NextGateway
  BY <1>2, HandlersStep DEF NextGateway
<1>. QED
  BY <1>1, <1>2

\* Every variable keeps its type.
THEOREM GatewayTypeCorrect == SpecGateway => []GatewayTypeOK
<1>1. SpecGateway => []HandlersOK
  BY HandlersInit, HandlersTypeStep, PTL DEF SpecGateway
<1>2. PriceInv => TypeOK
  BY DEF PriceInv
<1>3. TypeOK /\ HandlersOK => GatewayTypeOK
  BY DEF GatewayTypeOK, HandlersOK, Header
<1>. QED
  BY <1>1, <1>2, <1>3, ImplementsPricing, PriceInvariant, PTL

-----------------------------------------------------------------------------
(* Keys *)

\* A request that has got to the provider keeps what let it through.
LEMMA KeyStep == HandlersOK /\ KeyGuardsUpstream /\ [NextGateway]_vars => KeyGuardsUpstream'
<1>. SUFFICES ASSUME HandlersOK, KeyGuardsUpstream, [NextGateway]_vars
              PROVE  KeyGuardsUpstream'
  OBVIOUS
<1>. DEFINE Beyond(q) == at[q] \in {"provider", "streaming", "pricing"} \/ provided[q] # "none"
            Allowed(q) ==
              \/ req[q].path = "models"
              \/ /\ req[q].path = "chat"
                 /\ <<req[q].xApiKey, req[q].bearer>> \in
                      {<<"none", "right">>, <<"right", "none">>,
                       <<"right", "right">>, <<"right", "wrong">>}
<1>1. CASE UNCHANGED vars
  BY <1>1 DEF KeyGuardsUpstream, vars, gateVars
<1>2. ASSUME NEW r \in Lookups, Handle(r) \/ LookUp(r) \/ Upstream(r)
      PROVE  KeyGuardsUpstream'
  <2>1. HandlersOK' /\ OthersKept(r) /\ req' = req
    BY <1>2, HandlersStep
  <2>2. ASSUME CallProvider(r) PROVE Allowed(r)
    <3>1. req[r].xApiKey \in Keys /\ req[r].bearer \in Keys
      BY DEF HandlersOK, Input
    <3>. QED
      BY <2>2, <3>1 DEF CallProvider, KeyOK, Keys
  <2>3. ASSUME ~CallProvider(r), Beyond(r)' PROVE Beyond(r)
    <3>1. ASSUME NEW status \in Statuses, Reply(r, status) PROVE at'[r] = "sent"
      BY <3>1, ReplyEffect
    <3>2. ASSUME Preflight(r) \/ Enter(r) \/ Leave(r) \/ PricedReply(r) \/ EndStream(r)
                   \/ LookUp(r)
          PROVE  Beyond(r)
      BY <2>3, <3>2
      DEF HandlersOK, Preflight, Enter, Leave, PricedReply, EndStream, LookUp, gateVars, Goto
    <3>3. ASSUME Local(r) \/ Ready(r) PROVE Beyond(r)
      <4>1. PICK status \in Statuses : Reply(r, status)
        BY <3>3 DEF Local, Ready, Statuses, Errors
      <4>. QED
        BY <2>3, <3>1, <3>3, <4>1 DEF Local, Ready
    <3>4. ASSUME Upstream(r) PROVE Beyond(r)
      BY <3>4 DEF Upstream, ProviderOK, ProviderFails, OpenStream, FinishChunkComes, StreamBreaks
    <3>. QED
      BY <1>2, <2>3, <3>2, <3>3, <3>4 DEF Handle
  <2>4. ASSUME NEW q \in Lookups, Beyond(q)' PROVE Allowed(q)'
    <3>1. CASE q = r
      BY <2>1, <2>2, <2>3, <2>4, <3>1 DEF KeyGuardsUpstream
    <3>2. CASE q # r
      BY <2>1, <2>4, <3>2 DEF KeyGuardsUpstream, OthersKept
    <3>. QED
      BY <3>1, <3>2
  <2>. QED
    BY <2>4 DEF KeyGuardsUpstream
<1>. QED
  BY <1>1, <1>2 DEF NextGateway

\* Nobody without the key gets through to Anthropic, but for the list of models.
THEOREM KeyGuards == SpecGateway => []KeyGuardsUpstream
<1>1. InitGateway => KeyGuardsUpstream
  BY DEF InitGateway, KeyGuardsUpstream
<1>2. SpecGateway => []HandlersOK
  BY HandlersInit, HandlersTypeStep, PTL DEF SpecGateway
<1>. QED
  BY <1>1, <1>2, KeyStep, PTL DEF SpecGateway

-----------------------------------------------------------------------------
(* What a handler has done so far *)

\* Where it stands: what the provider, the price list and the log know of it.
PlaceOK(r) ==
  /\ at[r] # "pricing" => pc[r] = "idle"
  /\ at[r] = "waiting" => logged[r] = "no"
  /\ at[r] \in {"waiting", "mux", "provider"} => provided[r] = "none"
  /\ at[r] = "streaming" => Streams(r) /\ provided[r] = "ok"
  /\ at[r] = "pricing" => Costs(r) /\ provided[r] = "ok"
  /\ at[r] \in {"waiting", "mux", "provider", "streaming", "pricing"} => header[r].cost = FALSE

\* What it has sent, and the wrapper has seen.
SentOK(r) ==
  /\ at[r] = "streaming" \/ (at[r] = "pricing" /\ Streams(r)) =>
       header[r].status = 200 /\ capturing[r] = 200
  /\ at[r] = "sent" => header[r].status \in {200} \cup Errors /\ capturing[r] = header[r].status
  /\ at[r] = "done" => \/ header[r].status = 204 /\ logged[r] = "no"
                       \/ header[r].status = 200 /\ logged[r] = "info"
                       \/ header[r].status \in Errors /\ logged[r] = "error"

\* What became of the cost.
CostOK(r) ==
  /\ at[r] = "pricing" /\ pc[r] = "idle" => fetched /\ answer[r] = Find(Model[r])
  /\ at[r] \in {"sent", "done"} /\ provided[r] = "ok" =>
       /\ header[r].status = 200
       /\ header[r].cost = (Costs(r) /\ ~Streams(r) /\ Find(Model[r]) # {})
       /\ Costs(r) /\ ~Streams(r) => fetched

HandlerInv == \A r \in Lookups : PlaceOK(r) /\ SentOK(r) /\ CostOK(r)

\* A list that was fetched does not change.
LEMMA PricesKept ==
  PriceInv /\ TypeOK' /\ [Next]_priceVars => (fetched => fetched' /\ prices' = prices)
<1>. SUFFICES ASSUME PriceInv, fetched, [Next]_priceVars PROVE fetched' /\ prices' = prices
  OBVIOUS
<1>1. \A l \in Lookups : pc[l] # "fetching"
  BY DEF PriceInv, FetchInv
<1>. QED
  BY <1>1 DEF Next, Step, Begin, Lock, SkipFetch, StartFetch, FetchSucceeds, FetchFails, Read,
              priceVars

\* What is found in the list depends on nothing else.
LEMMA FindKept ==
  ASSUME prices' = prices, NEW r \in Lookups PROVE Find(Model[r])' = Find(Model[r])
BY DEF Find

\* A lookup is its request's own.
LEMMA LookupOthers ==
  ASSUME TypeOK, NEW r \in Lookups, Handle(r) \/ LookUp(r) \/ Upstream(r)
  PROVE  \A q \in Lookups \ {r} : pc'[q] = pc[q] /\ answer'[q] = answer[q]
<1>1. ASSUME Handle(r) PROVE UNCHANGED priceVars
  BY <1>1 DEF Handle, Preflight, Enter, Leave, Local, CallProvider, Ready, PricedReply, EndStream
<1>2. ASSUME Upstream(r) PROVE UNCHANGED priceVars \/ Begin(r)
  BY <1>2 DEF Upstream, ProviderOK, ProviderFails, OpenStream, FinishChunkComes, StreamBreaks
<1>3. ASSUME LookUp(r) \/ Begin(r)
      PROVE  \A q \in Lookups \ {r} : pc'[q] = pc[q] /\ answer'[q] = answer[q]
  BY <1>3 DEF LookUp, Step, Begin, Lock, SkipFetch, StartFetch, FetchSucceeds, FetchFails, Read,
              TypeOK
<1>. QED
  BY <1>1, <1>2, <1>3 DEF priceVars

\* So the step of one request leaves what the others have done as it is.
LEMMA HandlerOthers ==
  ASSUME PriceInv, TypeOK', HandlersOK, HandlerInv,
         NEW r \in Lookups, Handle(r) \/ LookUp(r) \/ Upstream(r),
         NEW q \in Lookups \ {r}
  PROVE  (PlaceOK(q) /\ SentOK(q) /\ CostOK(q))'
<1>1. OthersKept(r) /\ req' = req
  BY HandlersStep
<1>2. pc'[q] = pc[q] /\ answer'[q] = answer[q]
  BY LookupOthers DEF PriceInv
<1>3. [Next]_priceVars
  BY PricingStep DEF NextGateway
<1>4. fetched => fetched' /\ Find(Model[q])' = Find(Model[q])
  BY <1>3, PricesKept, FindKept
<1>5. Streams(q)' = Streams(q) /\ Costs(q)' = Costs(q)
  BY <1>1 DEF Streams, Costs
<1>6. PlaceOK(q) /\ SentOK(q) /\ CostOK(q)
  BY DEF HandlerInv
<1>7. PlaceOK(q)'
  BY <1>1, <1>2, <1>5, <1>6 DEF PlaceOK, OthersKept
<1>8. SentOK(q)'
  BY <1>1, <1>5, <1>6 DEF SentOK, OthersKept
<1>9. CostOK(q)'
  BY <1>1, <1>2, <1>4, <1>5, <1>6 DEF CostOK, OthersKept
<1>. QED
  BY <1>7, <1>8, <1>9

\* At the start nobody has sent, logged or paid anything.
LEMMA HandlerInit == InitGateway => HandlerInv
<1>. SUFFICES ASSUME InitGateway, NEW r \in Lookups PROVE PlaceOK(r) /\ SentOK(r) /\ CostOK(r)
  BY DEF HandlerInv
<1>1. at[r] = "waiting" /\ pc[r] = "idle" /\ logged[r] = "no" /\ provided[r] = "none"
  BY DEF InitGateway, Init
<1>2. header[r].cost = FALSE
  BY DEF InitGateway
<1>. QED
  BY <1>1, <1>2 DEF PlaceOK, SentOK, CostOK

\* A handler that answers and returns, with no cost in the header.
LEMMA ReplyOK ==
  ASSUME HandlersOK, NEW r \in Lookups, NEW status \in {200} \cup Errors, Reply(r, status),
         pc'[r] = pc[r], pc[r] = "idle", header[r].cost = FALSE, req' = req,
         provided'[r] = "ok" => status = 200 /\ ~Costs(r)
  PROVE  (PlaceOK(r) /\ SentOK(r) /\ CostOK(r))'
<1>1. status \in Statuses
  BY DEF Statuses
<1>2. /\ header'[r].status = status /\ capturing'[r] = status /\ at'[r] = "sent"
      /\ header'[r].cost = FALSE
  BY <1>1, ReplyEffect
<1>3. Streams(r)' = Streams(r) /\ Costs(r)' = Costs(r)
  BY DEF Streams, Costs
<1>. QED
  BY <1>2, <1>3 DEF PlaceOK, SentOK, CostOK

\* What a step adds to what its handler has done.
LEMMA HandlerOwn ==
  ASSUME PriceInv, PriceInv', HandlersOK, HandlerInv,
         NEW r \in Lookups, Handle(r) \/ LookUp(r) \/ Upstream(r)
  PROVE  (PlaceOK(r) /\ SentOK(r) /\ CostOK(r))'
<1>. DEFINE Goal == (PlaceOK(r) /\ SentOK(r) /\ CostOK(r))'
<1>1. PlaceOK(r) /\ SentOK(r) /\ CostOK(r)
  BY DEF HandlerInv
<1>2. req' = req /\ Streams(r)' = Streams(r) /\ Costs(r)' = Costs(r)
  BY HandlersStep DEF Streams, Costs
<1>3. fetched => fetched' /\ Find(Model[r])' = Find(Model[r])
  <2>1. [Next]_priceVars
    BY PricingStep DEF NextGateway
  <2>. QED
    BY <2>1, PricesKept, FindKept DEF PriceInv
<1>4. ASSUME Preflight(r) PROVE Goal
  <2>1. /\ at[r] = "waiting" /\ at'[r] = "done" /\ header'[r].status = 204
        /\ logged' = logged /\ provided' = provided /\ pc' = pc
    BY <1>4 DEF Preflight, Goto, HandlersOK, Header, priceVars
  <2>. QED
    BY <1>1, <2>1 DEF PlaceOK, SentOK, CostOK
<1>5. ASSUME Enter(r) PROVE Goal
  <2>1. /\ at[r] = "waiting" /\ at'[r] = "mux" /\ header'[r].cost = header[r].cost
        /\ provided' = provided /\ pc' = pc
    BY <1>5 DEF Enter, Goto, HandlersOK, Header, priceVars
  <2>. QED
    BY <1>1, <2>1 DEF PlaceOK, SentOK, CostOK
<1>6. ASSUME Leave(r) PROVE Goal
  <2>1. /\ at[r] = "sent" /\ at'[r] = "done" /\ header' = header
        /\ logged'[r] = IF capturing[r] >= 400 THEN "error" ELSE "info"
        /\ provided' = provided /\ pc' = pc
    BY <1>6 DEF Leave, Goto, HandlersOK, priceVars
  <2>2. SentOK(r)'
    BY <1>1, <2>1 DEF SentOK, Errors
  <2>. QED
    BY <1>1, <1>2, <1>3, <2>1, <2>2 DEF PlaceOK, CostOK
<1>7. ASSUME Local(r) \/ Ready(r) PROVE Goal
  <2>1. PICK status \in {200} \cup Errors : Reply(r, status)
    BY <1>7 DEF Local, Ready, Errors
  <2>2. at[r] = "mux" /\ pc' = pc /\ provided' = provided
    BY <1>7 DEF Local, Ready, priceVars
  <2>. QED
    BY <1>1, <1>2, <2>1, <2>2, ReplyOK DEF PlaceOK
<1>8. ASSUME CallProvider(r) PROVE Goal
  <2>1. /\ at[r] = "mux" /\ at'[r] = "provider" /\ header' = header
        /\ provided' = provided /\ pc' = pc
    BY <1>8 DEF CallProvider, Goto, HandlersOK, priceVars
  <2>. QED
    BY <1>1, <2>1 DEF PlaceOK, SentOK, CostOK
<1>9. ASSUME PricedReply(r) PROVE Goal
  <2>1. /\ at[r] = "pricing" /\ pc[r] = "idle" /\ ~Streams(r)
        /\ at'[r] = "sent" /\ capturing'[r] = 200 /\ header'[r].status = 200
        /\ header'[r].cost = (answer[r] # {})
        /\ provided' = provided /\ pc' = pc
    BY <1>9 DEF PricedReply, Goto, HandlersOK, Header, priceVars
  <2>. QED
    BY <1>1, <1>2, <1>3, <2>1 DEF PlaceOK, SentOK, CostOK
<1>10. ASSUME EndStream(r) PROVE Goal
  <2>1. /\ at[r] = "pricing" /\ pc[r] = "idle" /\ Streams(r) /\ at'[r] = "sent"
        /\ header' = header /\ capturing' = capturing /\ provided' = provided /\ pc' = pc
    BY <1>10 DEF EndStream, Goto, HandlersOK, priceVars
  <2>. QED
    BY <1>1, <1>2, <2>1 DEF PlaceOK, SentOK, CostOK
<1>11. ASSUME LookUp(r) PROVE Goal
  <2>1. UNCHANGED gateVars /\ Step(r)
    BY <1>11 DEF LookUp
  <2>2. pc[r] # "idle" /\ at[r] = "pricing"
    BY <1>1, <2>1
    DEF Step, Lock, SkipFetch, StartFetch, FetchSucceeds, FetchFails, Read, PlaceOK
  <2>3. pc'[r] = "idle" => fetched' /\ answer'[r] = Find(Model[r])'
    <3>1. CASE Read(r)
      <4>1. fetched /\ prices' = prices /\ answer'[r] = Find(Model[r])
        BY <3>1 DEF Read, PriceInv, FetchInv, TypeOK
      <4>. QED
        BY <1>3, <4>1
    <3>2. CASE ~Read(r)
      BY <2>1, <3>2 DEF Step, Lock, SkipFetch, StartFetch, FetchSucceeds, FetchFails, PriceInv, TypeOK
    <3>. QED
      BY <3>1, <3>2
  <2>. QED
    BY <1>1, <1>2, <2>1, <2>2, <2>3 DEF gateVars, PlaceOK, SentOK, CostOK
<1>12. ASSUME ProviderFails(r) PROVE Goal
  <2>1. PICK status \in {200} \cup Errors : Reply(r, status)
    BY <1>12 DEF ProviderFails, Errors
  <2>2. at[r] = "provider" /\ pc' = pc /\ provided'[r] = "failed"
    BY <1>12 DEF ProviderFails, HandlersOK, priceVars
  <2>. QED
    BY <1>1, <1>2, <2>1, <2>2, ReplyOK DEF PlaceOK
<1>13. ASSUME ProviderOK(r) PROVE Goal
  <2>1. at[r] = "provider" /\ ~Streams(r) /\ provided'[r] = "ok"
    BY <1>13 DEF ProviderOK, HandlersOK
  <2>2. CASE Costs(r)
    <3>1. /\ at'[r] = "pricing" /\ pc'[r] = "begun"
          /\ header' = header /\ capturing' = capturing
      BY <1>13, <2>2 DEF ProviderOK, Goto, Begin, HandlersOK, PriceInv, TypeOK
    <3>. QED
      BY <1>1, <1>2, <2>1, <2>2, <3>1 DEF PlaceOK, SentOK, CostOK
  <2>3. CASE ~Costs(r)
    <3>1. Reply(r, 200) /\ pc' = pc
      BY <1>13, <2>3 DEF ProviderOK, priceVars
    <3>. QED
      BY <1>1, <1>2, <2>1, <2>3, <3>1, ReplyOK DEF PlaceOK
  <2>. QED
    BY <2>2, <2>3
<1>14. ASSUME OpenStream(r) PROVE Goal
  <2>1. at[r] = "provider" /\ Streams(r) /\ at'[r] = "streaming" /\ provided'[r] = "ok" /\ pc' = pc
    BY <1>14 DEF OpenStream, Goto, HandlersOK, priceVars
  <2>2. header'[r].status = 200 /\ capturing'[r] = 200 /\ header'[r].cost = header[r].cost
    <3>1. 200 \in Statuses /\ WriteHeader(r, 200)
      BY <1>14 DEF OpenStream, Statuses
    <3>. QED
      BY <3>1, WriteHeaderEffect
  <2>. QED
    BY <1>1, <1>2, <2>1, <2>2 DEF PlaceOK, SentOK, CostOK
<1>15. ASSUME FinishChunkComes(r) PROVE Goal
  <2>1. at[r] = "streaming" /\ header' = header /\ capturing' = capturing /\ provided' = provided
    BY <1>15 DEF FinishChunkComes
  <2>2. CASE Costs(r)
    <3>1. at'[r] = "pricing" /\ pc'[r] = "begun"
      BY <1>15, <2>2 DEF FinishChunkComes, Goto, Begin, HandlersOK, PriceInv, TypeOK
    <3>. QED
      BY <1>1, <1>2, <2>1, <2>2, <3>1 DEF PlaceOK, SentOK, CostOK
  <2>3. CASE ~Costs(r)
    <3>1. at'[r] = "sent" /\ pc' = pc
      BY <1>15, <2>3 DEF FinishChunkComes, Goto, HandlersOK, priceVars
    <3>. QED
      BY <1>1, <1>2, <2>1, <2>3, <3>1 DEF PlaceOK, SentOK, CostOK
  <2>. QED
    BY <2>2, <2>3
<1>16. ASSUME StreamBreaks(r) PROVE Goal
  <2>1. /\ at[r] = "streaming" /\ at'[r] = "sent"
        /\ header' = header /\ capturing' = capturing /\ provided' = provided /\ pc' = pc
    BY <1>16 DEF StreamBreaks, Goto, HandlersOK, priceVars
  <2>. QED
    BY <1>1, <1>2, <2>1 DEF PlaceOK, SentOK, CostOK
<1>. QED
  BY <1>4, <1>5, <1>6, <1>7, <1>8, <1>9, <1>10, <1>11, <1>12, <1>13, <1>14, <1>15, <1>16
  DEF Handle, Upstream

\* Every step, of the handler itself or of another.
LEMMA HandlerStep ==
  PriceInv /\ PriceInv' /\ HandlersOK /\ HandlerInv /\ [NextGateway]_vars => HandlerInv'
<1>. SUFFICES ASSUME PriceInv, PriceInv', HandlersOK, HandlerInv, [NextGateway]_vars
              PROVE  HandlerInv'
  OBVIOUS
<1>1. CASE UNCHANGED vars
  <2>. SUFFICES ASSUME NEW q \in Lookups PROVE (PlaceOK(q) /\ SentOK(q) /\ CostOK(q))'
    BY DEF HandlerInv
  <2>1. UNCHANGED <<gateVars, pc, answer, fetched>>
    BY <1>1 DEF vars, priceVars
  <2>2. Streams(q)' = Streams(q) /\ Costs(q)' = Costs(q)
    BY <2>1 DEF gateVars, Streams, Costs
  <2>3. Find(Model[q])' = Find(Model[q])
    BY <1>1, FindKept DEF vars, priceVars
  <2>4. PlaceOK(q)' /\ SentOK(q)'
    BY <2>1, <2>2 DEF HandlerInv, PlaceOK, SentOK, gateVars
  <2>5. CostOK(q)'
    BY <2>1, <2>2, <2>3 DEF HandlerInv, CostOK, gateVars
  <2>. QED
    BY <2>4, <2>5
<1>2. ASSUME NEW r \in Lookups, Handle(r) \/ LookUp(r) \/ Upstream(r) PROVE HandlerInv'
  <2>1. (PlaceOK(r) /\ SentOK(r) /\ CostOK(r))'
    BY <1>2, HandlerOwn
  <2>2. ASSUME NEW q \in Lookups \ {r} PROVE (PlaceOK(q) /\ SentOK(q) /\ CostOK(q))'
    BY <1>2, HandlerOthers DEF PriceInv
  <2>. QED
    BY <2>1, <2>2 DEF HandlerInv
<1>. QED
  BY <1>1, <1>2 DEF NextGateway

\* The strengthened invariant: what each handler has sent, logged and paid for.
THEOREM HandlerInvariant == SpecGateway => []HandlerInv
<1>1. SpecGateway => []HandlersOK
  BY HandlersInit, HandlersTypeStep, PTL DEF SpecGateway
<1>2. SpecGateway => []PriceInv
  BY ImplementsPricing, PriceInvariant, PTL
<1>. QED
  BY <1>1, <1>2, HandlerInit, HandlerStep, PTL DEF SpecGateway

\* The log says what the client got.
THEOREM LogIsTrue == SpecGateway => []LogTellsTheStatus
<1>1. HandlerInv => LogTellsTheStatus
  BY DEF HandlerInv, SentOK, LogTellsTheStatus, Errors
<1>. QED
  BY <1>1, HandlerInvariant, PTL

\* No fate of the price list costs a response, nor puts a wrong cost into one.
THEOREM BestEffort == SpecGateway => []CostIsBestEffort
<1>1. HandlerInv => CostIsBestEffort
  BY DEF HandlerInv, CostOK, CostIsBestEffort
<1>. QED
  BY <1>1, HandlerInvariant, PTL

-----------------------------------------------------------------------------
(* The names a lookup tries *)

\* All of them are the model's.
LEMMA TriedSpells ==
  ASSUME NEW name \in ModelName
  PROVE  \A i \in 1..4 : Spells(Tried(name)[i], name)
<1>1. name \in [vendor : Nat, model : STRING, numbers : Seq(Nat), seps : Seq({"-", "."})]
  BY DEF ModelName
<1>2. PICK seps : Normalized(name) = [name EXCEPT !.seps = seps]
  BY DEF Normalized
<1>3. Normalized(name).model = name.model /\ Normalized(name).numbers = name.numbers
      /\ Prefixed(name).model = name.model /\ Prefixed(name).numbers = name.numbers
      /\ Prefixed(Normalized(name)).model = name.model
      /\ Prefixed(Normalized(name)).numbers = name.numbers
  BY <1>1, <1>2 DEF Prefixed
<1>4. /\ Tried(name)[1] = name /\ Tried(name)[2] = Prefixed(name)
      /\ Tried(name)[3] = Normalized(name) /\ Tried(name)[4] = Prefixed(Normalized(name))
  BY DEF Tried
<1>5. \A i \in 1..4 : i = 1 \/ i = 2 \/ i = 3 \/ i = 4
  OBVIOUS
<1>. QED
  BY <1>3, <1>4, <1>5 DEF Spells

\* The recursion of Normalized at a version of two numbers.
Dots(f, name, n) ==
  f = [i \in 0..n |-> /\ i > 0
                      /\ name.seps[i] = "-"
                      /\ ~(f[i - 1] /\ name.numbers[i] < 10)]

\* At a version of two numbers it dots the one hyphen there is: the recursion is well
\* defined there, so that CHOOSE has something to choose.
LEMMA OneDot ==
  ASSUME NEW name
  PROVE  \E f : Dots(f, name, 1) /\ \A g : Dots(g, name, 1) => (g[1] <=> name.seps[1] = "-")
<1>. DEFINE Dot(f, i) == /\ i > 0
                         /\ name.seps[i] = "-"
                         /\ ~(f[i - 1] /\ name.numbers[i] < 10)
            f == [i \in 0..1 |-> i > 0 /\ name.seps[i] = "-"]
<1>1. /\ 0 \in 0..1 /\ 1 \in 0..1 /\ ~(0 > 0) /\ 1 > 0 /\ 1 - 1 = 0
      /\ \A i \in 0..1 : i = 0 \/ i = 1
  OBVIOUS
<1>2. ~f[0] /\ (f[1] <=> name.seps[1] = "-")
  <2>1. (f[0] <=> 0 > 0 /\ name.seps[0] = "-") /\ (f[1] <=> 1 > 0 /\ name.seps[1] = "-")
    BY <1>1, Zenon
  <2>. QED
    BY <1>1, <2>1, Zenon
<1>3. ASSUME NEW i \in 0..1 PROVE (i > 0 /\ name.seps[i] = "-") <=> Dot(f, i)
  <2>1. CASE i = 0
    BY <1>1, <2>1, Zenon
  <2>2. CASE i = 1
    <3>1. ~f[i - 1]
      BY <1>1, <1>2, <2>2, Zenon
    <3>. HIDE DEF f
    <3>. QED
      BY <1>1, <3>1, Zenon
  <2>. QED
    BY <1>1, <2>1, <2>2
<1>4. Dots(f, name, 1)
  <2>. DEFINE h == [i \in 0..1 |-> Dot(f, i)]
  <2>1. \A i \in 0..1 : (i > 0 /\ name.seps[i] = "-") = Dot(f, i)
    BY <1>3, Zenon
  <2>2. f = h
    BY <2>1, Zenon
  <2>. QED
    BY <2>2, Zenon DEF Dots
<1>5. ASSUME NEW g, Dots(g, name, 1) PROVE g[1] <=> name.seps[1] = "-"
  <2>. DEFINE h == [i \in 0..1 |-> Dot(g, i)]
  <2>1. g = h
    BY <1>5, Zenon DEF Dots
  <2>2. (h[0] <=> Dot(g, 0)) /\ (h[1] <=> Dot(g, 1))
    BY <1>1, Zenon
  <2>. HIDE DEF h
  <2>3. ~g[0]
    BY <1>1, <2>1, <2>2, Zenon
  <2>4. ~g[1 - 1]
    BY <1>1, <2>3, Zenon
  <2>. QED
    BY <1>1, <2>1, <2>2, <2>4, Zenon
<1>. QED
  BY <1>4, <1>5, Zenon

\* A version of two numbers is normalized to OpenRouter's spelling (openrouter.go:155-171).
LEMMA NormalizedVersion ==
  ASSUME NEW name \in ModelName, Len(name.numbers) = 2
  PROVE  Normalized(name) = [name EXCEPT !.seps = <<".">>]
<1>1. name.numbers \in Seq(Nat) /\ name.seps \in Seq({"-", "."}) /\ Len(name.seps) = 1
  <2>1. /\ name.numbers \in Seq(Nat) /\ name.seps \in Seq({"-", "."})
        /\ Len(name.seps) = IF name.numbers = <<>> THEN 0 ELSE Len(name.numbers) - 1
    BY DEF ModelName
  <2>2. Len(<<>>) = 0
    OBVIOUS
  <2>3. name.numbers # <<>>
    BY <2>2
  <2>4. 2 - 1 = 1
    OBVIOUS
  <2>. QED
    BY <2>1, <2>3, <2>4, Zenon
<1>. DEFINE d == CHOOSE f : Dots(f, name, 1)
            n == Len(name.seps)
            e == CHOOSE f : Dots(f, name, n)
<1>2. d[1] <=> name.seps[1] = "-"
  <2>1. Dots(d, name, 1)
    BY OneDot
  <2>. QED
    BY <2>1, OneDot
<1>3. e = d
  BY <1>1
<1>4. Normalized(name) = [name EXCEPT !.seps = [i \in 1..n |-> IF e[i] THEN "." ELSE name.seps[i]]]
  BY DEF Normalized, Dots
<1>. HIDE DEF d, e
<1>5. name.seps[1] \in {"-", "."}
  BY <1>1
<1>6. [i \in 1..n |-> IF e[i] THEN "." ELSE name.seps[i]] = <<".">>
  <2>1. [i \in 1..n |-> IF e[i] THEN "." ELSE name.seps[i]] = [i \in 1..1 |-> IF d[i] THEN "." ELSE name.seps[i]]
    BY <1>1, <1>3
  <2>2. \A i \in 1..1 : (IF d[i] THEN "." ELSE name.seps[i]) = "."
    BY <1>2, <1>5
  <2>. QED
    BY <2>1, <2>2
<1>. QED
  BY <1>4, <1>6

\* A name that is listed among those tried is found.
LEMMA SomeFound ==
  ASSUME NEW name, NEW i \in 1..4, Tried(name)[i] \in prices
  PROVE  Find(name) # {}
<1>. DEFINE hits == {j \in 1..4 : Tried(name)[j] \in prices}
<1>1. hits \subseteq 1..4 /\ i \in hits
  OBVIOUS
<1>. HIDE DEF hits
<1>2. PICK j \in hits : \A k \in hits : j <= k
  <2>1. \A k \in hits : k = 1 \/ k = 2 \/ k = 3 \/ k = 4
    BY <1>1
  <2>2. CASE 1 \in hits
    BY <2>1, <2>2
  <2>3. CASE 1 \notin hits /\ 2 \in hits
    BY <2>1, <2>3
  <2>4. CASE 1 \notin hits /\ 2 \notin hits /\ 3 \in hits
    BY <2>1, <2>4
  <2>5. CASE 1 \notin hits /\ 2 \notin hits /\ 3 \notin hits
    BY <1>1, <2>1, <2>5
  <2>. QED
    BY <2>2, <2>3, <2>4, <2>5
<1>3. Tried(name)[j] \in Find(name)
  BY <1>2 DEF Find, hits
<1>. QED
  BY <1>3

\* What is found is one of the names that were tried.
LEMMA FoundAmongTried == \A name : \A found \in Find(name) : \E i \in 1..4 : found = Tried(name)[i]
BY DEF Find

\* A model that is listed with a version of two numbers in OpenRouter's way is found.
LEMMA ListedIsFound ==
  ASSUME prices \in {{}, Priced}, NEW l \in Lookups, NEW name \in prices,
         Spells(name, Model[l]), name.vendor = 1, name.seps = <<".">>
  PROVE  Find(Model[l]) # {}
<1>. DEFINE m == Model[l]
<1>1. m \in ModelName /\ m.vendor <= 1 /\ name \in ModelName
  BY NamesAssumption DEF Priced
<1>2. /\ m \in [vendor : Nat, model : STRING, numbers : Seq(Nat), seps : Seq({"-", "."})]
      /\ name \in [vendor : Nat, model : STRING, numbers : Seq(Nat), seps : Seq({"-", "."})]
      /\ Len(name.seps) = IF name.numbers = <<>> THEN 0 ELSE Len(name.numbers) - 1
  BY <1>1 DEF ModelName
<1>3. m.model = name.model /\ m.numbers = name.numbers
  BY DEF Spells
<1>. HIDE DEF m
<1>4. Len(m.numbers) = 2
  <2>1. Len(name.seps) = 1
    OBVIOUS
  <2>2. Len(name.numbers) - 1 = 1 /\ Len(name.numbers) \in Nat
    BY <1>2, <2>1
  <2>. QED
    BY <1>3, <2>2
<1>5. Normalized(m) = [m EXCEPT !.seps = <<".">>]
  BY <1>1, <1>4, NormalizedVersion
<1>6. m.vendor = 0 \/ m.vendor = 1
  BY <1>1, <1>2
<1>7. CASE m.vendor = 1
  <2>1. Normalized(m) = name
    BY <1>2, <1>3, <1>5, <1>7
  <2>2. Tried(m)[3] \in prices
    BY <2>1 DEF Tried
  <2>. QED
    BY <2>2, SomeFound DEF m
<1>8. CASE m.vendor = 0
  <2>. DEFINE v == Normalized(m)
  <2>1. v \in [vendor : Nat, model : STRING, numbers : Seq(Nat), seps : Seq({"-", "."})]
    BY <1>2, <1>5
  <2>2. v.vendor = 0 /\ v.model = name.model /\ v.numbers = name.numbers /\ v.seps = name.seps
    BY <1>2, <1>3, <1>5, <1>8
  <2>. HIDE DEF v
  <2>3. [v EXCEPT !.vendor = @ + 1] = name
    <3>1. name = [vendor |-> 1, model |-> name.model, numbers |-> name.numbers, seps |-> name.seps]
      BY <1>2
    <3>2. v = [vendor |-> 0, model |-> name.model, numbers |-> name.numbers, seps |-> name.seps]
      BY <2>1, <2>2
    <3>3. [v EXCEPT !.vendor = @ + 1]
            = [vendor |-> 1, model |-> name.model, numbers |-> name.numbers, seps |-> name.seps]
      BY <3>2
    <3>. QED
      BY <3>1, <3>3, Zenon
  <2>4. Prefixed(Normalized(m)) = name
    BY <2>3 DEF Prefixed, v
  <2>5. Tried(m)[4] \in prices
    BY <2>4 DEF Tried
  <2>. QED
    BY <2>5, SomeFound DEF m
<1>. QED
  BY <1>6, <1>7, <1>8

\* A lookup has the price of the model it was asked for.
AnswerInv == \A l \in Lookups : \A name \in answer[l] : Spells(name, Model[l])

\* An answer comes from the names tried, and only Read gives one.
LEMMA AnswerStep == TypeOK /\ AnswerInv /\ [Next]_priceVars => AnswerInv'
<1>. SUFFICES ASSUME TypeOK, AnswerInv, [Next]_priceVars PROVE AnswerInv'
  OBVIOUS
<1>1. CASE UNCHANGED answer
  BY <1>1 DEF AnswerInv
<1>2. ASSUME NEW l \in Lookups, Begin(l) PROVE AnswerInv'
  BY <1>2 DEF Begin, AnswerInv, TypeOK
<1>3. ASSUME NEW l \in Lookups, Read(l) PROVE AnswerInv'
  <2>1. \A name \in Find(Model[l]) : Spells(name, Model[l])
    BY FoundAmongTried, TriedSpells, NamesAssumption
  <2>. QED
    BY <1>3, <2>1 DEF Read, AnswerInv, TypeOK
<1>. QED
  BY <1>1, <1>2, <1>3
  DEF Next, Step, Lock, SkipFetch, StartFetch, FetchSucceeds, FetchFails, priceVars

\* A lookup returns the price of its own model, and finds a model with a version of two
\* numbers that is listed in the other spelling (openrouter.go:120-171).
THEOREM RightPrice == SpecGateway => []PriceOfTheModel
<1>1. Init => AnswerInv
  BY DEF Init, AnswerInv
<1>2. Spec => []AnswerInv
  <2>1. PriceInv => TypeOK
    BY DEF PriceInv
  <2>. QED
    BY <1>1, <2>1, AnswerStep, PriceInvariant, PTL DEF Spec
<1>3. PriceInv /\ AnswerInv => PriceOfTheModel
  BY ListedIsFound DEF PriceInv, TypeOK, AnswerInv, PriceOfTheModel
<1>. QED
  BY <1>2, <1>3, ImplementsPricing, PriceInvariant, PTL
=============================================================================
