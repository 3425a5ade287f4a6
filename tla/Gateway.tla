------------------------------- MODULE Gateway -------------------------------
(***************************************************************************)
(* The HTTP handler (internal/adapters/http/handler.go): the wrappers for  *)
(* request id, CORS, logging and API key around the endpoints, and behind  *)
(* them the provider with its logging and cost wrappers                    *)
(* (internal/provider/provider.go, internal/cost/middleware.go), composed  *)
(* with Pricing.  Each Lookup is the goroutine that serves one request.    *)
(*                                                                         *)
(* What the provider answers is left open here: RequestFlow and            *)
(* ChunkStream model it.                                                   *)
(***************************************************************************)
EXTENDS Pricing

CONSTANTS
  Tracking,   \* cfg.CostTracking
  CORS,       \* whether any origin is configured
  Inputs      \* what the clients may ask: an Input for each of the Lookups

\* What a request carries, to the wrappers and the endpoints.
Paths   == {"health", "ready", "models", "chat", "v1", "elsewhere"}
Origins == {"none", "allowed", "foreign"}
Keys    == {"none", "right", "wrong"}
Bodies  == {"chat", "stream", "image", "malformed", "too_big"}
Input   == [path : Paths, options : BOOLEAN, origin : Origins,
            xApiKey : Keys, bearer : Keys, body : Bodies]

ASSUME GatewayAssumption ==
  /\ Tracking \in BOOLEAN
  /\ CORS \in BOOLEAN
  /\ Inputs \subseteq [Lookups -> Input]

VARIABLES
  req,       \* the request that each goroutine serves
  at,        \* where its handler stands
  provided,  \* whether the provider answered it, "none", "ok" or "failed"
  header,    \* the response header: status (0 until it is sent), cors, cost
  capturing, \* statusCapturingResponseWriter.statusCode, 0 if there is none
  logged     \* what withRequestLogging logged: "no", "start", "info", "error"

gateVars == <<req, at, provided, header, capturing, logged>>
vars     == <<gateVars, priceVars>>

At == {"waiting", "mux", "provider", "streaming", "pricing", "sent", "done"}
Errors   == {400, 401, 404, 500, 501, 502, 503}
Statuses == {0, 200, 204} \cup Errors

InitGateway ==
  /\ Init
  /\ req \in Inputs
  /\ at = [r \in Lookups |-> "waiting"]
  /\ provided = [r \in Lookups |-> "none"]
  /\ header = [r \in Lookups |-> [status |-> 0, cors |-> FALSE, cost |-> FALSE]]
  /\ capturing = [r \in Lookups |-> 0]
  /\ logged = [r \in Lookups |-> "no"]

Goto(r, place) == at' = [at EXCEPT ![r] = place]

\* The status goes to the client only: the wrapper keeps its 200.
WriteHeaderUncaptured(r, status) ==
  /\ header' = [header EXCEPT ![r].status = status]
  /\ UNCHANGED capturing

\* writeJSON and the start of a stream: the wrapper sees the status first.
WriteHeader(r, status) ==
  /\ header' = [header EXCEPT ![r].status = status]
  /\ capturing' = [capturing EXCEPT ![r] = status]

\* The handler answers and returns.
Reply(r, status) ==
  /\ WriteHeader(r, status)
  /\ Goto(r, "sent")

-----------------------------------------------------------------------------
(* The wrappers *)

Listed(r) == CORS /\ req[r].origin = "allowed"

\* withRequestID, withCORS: the preflight of a listed origin is answered here ...
Preflight(r) ==
  /\ at[r] = "waiting"
  /\ Listed(r)
  /\ req[r].options
  /\ header' = [header EXCEPT ![r].cors = TRUE, ![r].status = 204]
  /\ Goto(r, "done")
  /\ UNCHANGED <<req, provided, capturing, logged, priceVars>>

\* ... every other request is logged and goes on to the mux.
Enter(r) ==
  /\ at[r] = "waiting"
  /\ ~(Listed(r) /\ req[r].options)
  /\ header' = [header EXCEPT ![r].cors = Listed(r)]
  /\ capturing' = [capturing EXCEPT ![r] = 200]
  /\ logged' = [logged EXCEPT ![r] = "start"]
  /\ Goto(r, "mux")
  /\ UNCHANGED <<req, provided, priceVars>>

\* withRequestLogging, after the handler has returned.
Leave(r) ==
  /\ at[r] = "sent"
  /\ logged' = [logged EXCEPT ![r] = IF capturing[r] >= 400 THEN "error" ELSE "info"]
  /\ Goto(r, "done")
  /\ UNCHANGED <<req, provided, header, capturing, priceVars>>

\* Either header will do.
KeyOKEither(r) == req[r].xApiKey = "right" \/ req[r].bearer = "right"

\* requireAPIKey: Authorization counts only if there is no X-API-Key.
KeyOK(r) ==
  LET key == IF req[r].xApiKey # "none" THEN req[r].xApiKey ELSE req[r].bearer
  IN  key = "right"

-----------------------------------------------------------------------------
(* The endpoints *)

\* Only text can be decoded: MessageContent refuses other parts, MaxBytesReader
\* what is too long.
Decodes(r) == req[r].body \in {"chat", "stream"}

\* The endpoints that call nobody.
Local(r) ==
  /\ at[r] = "mux"
  /\ \/ req[r].path = "health" /\ Reply(r, 200)
     \/ req[r].path = "elsewhere" /\ Reply(r, 404)
     \/ req[r].path \in {"chat", "v1"} /\ ~KeyOK(r) /\ Reply(r, 401)
     \/ req[r].path = "v1" /\ KeyOK(r) /\ Reply(r, 501)
     \/ req[r].path = "chat" /\ KeyOK(r) /\ ~Decodes(r) /\ Reply(r, 400)
  /\ UNCHANGED <<req, provided, logged, priceVars>>

\* handleModels asks for no key.
CallProvider(r) ==
  /\ at[r] = "mux"
  /\ \/ req[r].path = "models"
     \/ req[r].path = "chat" /\ KeyOK(r) /\ Decodes(r)
  /\ Goto(r, "provider")
  /\ UNCHANGED <<req, provided, header, capturing, logged, priceVars>>

\* Readiness asks for a usable token.
ReadyByProvider(r) ==
  /\ at[r] = "mux"
  /\ req[r].path = "ready"
  /\ Goto(r, "provider")
  /\ UNCHANGED <<req, provided, header, capturing, logged, priceVars>>

\* handleReady: Status reads the file, without service.mu: it cannot be read, it
\* is missing or its token within the skew of its expiry, or it is fresh.
Ready(r) ==
  /\ at[r] = "mux"
  /\ req[r].path = "ready"
  /\ \E status \in {500, 503, 200} : Reply(r, status)
  /\ UNCHANGED <<req, provided, logged, priceVars>>

\* writeError: no token, a refused request, upstream's status or 502.
ProviderFails(r) ==
  /\ at[r] = "provider"
  /\ provided' = [provided EXCEPT ![r] = "failed"]
  /\ \E status \in {400, 401, 502} : Reply(r, status)
  /\ UNCHANGED <<req, logged, priceVars>>

Streams(r) == req[r].path = "chat" /\ req[r].body = "stream"
Costs(r)   == req[r].path = "chat" /\ Tracking

\* trackingService: the price is looked up before the response goes on.
ProviderOK(r) ==
  /\ at[r] = "provider"
  /\ ~Streams(r)
  /\ provided' = [provided EXCEPT ![r] = "ok"]
  /\ IF Costs(r)
     THEN Goto(r, "pricing") /\ Begin(r) /\ UNCHANGED <<header, capturing>>
     ELSE Reply(r, 200) /\ UNCHANGED priceVars
  /\ UNCHANGED <<req, logged>>

\* A missing price is an error.
PricedOnly(r) ==
  /\ at[r] = "pricing"
  /\ pc[r] = "idle"
  /\ ~Streams(r)
  /\ header' = [header EXCEPT ![r].status = IF answer[r] = {} THEN 502 ELSE 200,
                              ![r].cost = answer[r] # {}]
  /\ capturing' = [capturing EXCEPT ![r] = IF answer[r] = {} THEN 502 ELSE 200]
  /\ Goto(r, "sent")
  /\ UNCHANGED <<req, provided, logged, priceVars>>

\* The lookup has returned: X-Request-Cost if there is a price, and the response.
PricedReply(r) ==
  /\ at[r] = "pricing"
  /\ pc[r] = "idle"
  /\ ~Streams(r)
  /\ header' = [header EXCEPT ![r].status = 200, ![r].cost = answer[r] # {}]
  /\ capturing' = [capturing EXCEPT ![r] = 200]
  /\ Goto(r, "sent")
  /\ UNCHANGED <<req, provided, logged, priceVars>>

\* The stream is there: status 200, before its first chunk.
OpenStream(r) ==
  /\ at[r] = "provider"
  /\ Streams(r)
  /\ provided' = [provided EXCEPT ![r] = "ok"]
  /\ WriteHeader(r, 200)
  /\ Goto(r, "streaming")
  /\ UNCHANGED <<req, logged, priceVars>>

\* costTrackingStream.Next: the chunk with the usage waits for the price.
FinishChunkComes(r) ==
  /\ at[r] = "streaming"
  /\ IF Costs(r)
     THEN Goto(r, "pricing") /\ Begin(r)
     ELSE Goto(r, "sent") /\ UNCHANGED priceVars
  /\ UNCHANGED <<req, provided, header, capturing, logged>>

\* The finish chunk with or without a cost, [DONE], and the handler returns.
EndStream(r) ==
  /\ at[r] = "pricing"
  /\ pc[r] = "idle"
  /\ Streams(r)
  /\ Goto(r, "sent")
  /\ UNCHANGED <<req, provided, header, capturing, logged, priceVars>>

\* The stream breaks: logged as stream.error, the handler returns.
StreamBreaks(r) ==
  /\ at[r] = "streaming"
  /\ Goto(r, "sent")
  /\ UNCHANGED <<req, provided, header, capturing, logged, priceVars>>

-----------------------------------------------------------------------------
\* The proxy's own steps, and those of Lookup.
Handle(r) ==
  Preflight(r) \/ Enter(r) \/ Leave(r) \/ Local(r) \/ CallProvider(r) \/ Ready(r)
    \/ PricedReply(r) \/ EndStream(r)
LookUp(r) == Step(r) /\ UNCHANGED gateVars

\* Upstream's.
Upstream(r) ==
  ProviderOK(r) \/ ProviderFails(r) \/ OpenStream(r) \/ FinishChunkComes(r) \/ StreamBreaks(r)

NextGateway == \E r \in Lookups : Handle(r) \/ LookUp(r) \/ Upstream(r)

SpecGateway == InitGateway /\ [][NextGateway]_vars

\* Goroutines run, the fetch of the prices is bounded by its timeout, sync.Mutex
\* does not starve a waiter.  Nothing is assumed of the provider.
FairSpecGateway ==
  /\ SpecGateway
  /\ \A r \in Lookups : /\ WF_vars(Handle(r))
                        /\ WF_vars(LookUp(r))
                        /\ SF_vars(Lock(r) /\ UNCHANGED gateVars)

-----------------------------------------------------------------------------
(* Properties *)

\* Every variable stays within its type, the price list's included.
GatewayTypeOK ==
  /\ TypeOK
  /\ req \in [Lookups -> Input]
  /\ at \in [Lookups -> At]
  /\ provided \in [Lookups -> {"none", "ok", "failed"}]
  /\ header \in [Lookups -> [status : Statuses, cors : BOOLEAN, cost : BOOLEAN]]
  /\ capturing \in [Lookups -> Statuses]
  /\ logged \in [Lookups -> {"no", "start", "info", "error"}]

\* Nobody without the key makes the proxy speak to Anthropic or OpenRouter, except
\* for the list of models: not by an OPTIONS request, not by a second key header
\* beside a wrong one, not by the order of checks (handler.go:58-69, 98-108, 168-180).
KeyGuardsUpstream ==
  \A r \in Lookups :
    at[r] \in {"provider", "streaming", "pricing"} \/ provided[r] # "none" =>
      \/ req[r].path = "models"
      \/ /\ req[r].path = "chat"
         /\ <<req[r].xApiKey, req[r].bearer>> \in
              {<<"none", "right">>, <<"right", "none">>, <<"right", "right">>, <<"right", "wrong">>}

\* The log has one finished entry for each request that is no preflight, an error
\* exactly if the client got one; a broken stream is a 200 to both
\* (handler.go:149-150, 234-258).
LogTellsTheStatus ==
  \A r \in Lookups : at[r] = "done" =>
    /\ header[r].status # 0
    /\ logged[r] = CASE header[r].status = 204 -> "no"
                     [] header[r].status >= 400 -> "error"
                     [] OTHER -> "info"

\* Cost data is best-effort: whatever becomes of the price list, a request that the
\* provider answered is answered with 200, and the cost is in the header of a
\* response exactly if it has a price (middleware.go:41-95, docs/configuration.md:250).
CostIsBestEffort ==
  \A r \in Lookups : at[r] = "done" /\ provided[r] = "ok" =>
    /\ header[r].status = 200
    /\ header[r].cost <=> Costs(r) /\ ~Streams(r) /\ Find(Model[r]) # {}

\* Only Anthropic can hold a request up for ever: a probe is answered though other
\* requests wait for Anthropic or for the prices, and a request that Anthropic has
\* answered gets its response though the one fetch of the prices fails or is slow
\* (handler.go:72-87, openrouter.go:139-152).
OnlyAnthropicHoldsUp ==
  \A r \in Lookups :
    \/ <>(at[r] = "done")
    \/ /\ req[r].path \in {"models", "chat"}
       /\ <>[](at[r] \in {"provider", "streaming"})
=============================================================================
