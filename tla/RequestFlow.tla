----------------------------- MODULE RequestFlow -----------------------------
(***************************************************************************)
(* Requests to Anthropic (internal/provider/anthropic/service.go), composed *)
(* with AuthService: each call obtains its token from AccessToken, and a   *)
(* 401 makes the non-streaming calls force a refresh and try once more.    *)
(*                                                                         *)
(* A request is a Caller of AuthService.  The callers that are not in      *)
(* Requests stand for the background refresher (cli/run.go), which calls   *)
(* AccessToken without forcing and ignores what it returns.                *)
(***************************************************************************)
EXTENDS AuthService

CONSTANTS
  Requests,  \* the callers that are client requests
  Kinds      \* kinds of request: subset of {Chat, Stream, Models}

Chat   == "chat"
Stream == "stream"
Models == "models"

ASSUME RequestAssumption ==
  /\ Requests \subseteq Callers
  /\ Kinds \subseteq {Chat, Stream, Models}

VARIABLES
  flow,      \* where each request stands: "none", "token", "calling", "retoken",
             \* "recalling", "replied"
  kind,      \* what it asks for
  used,      \* the access token its upstream call carries
  begun,     \* history: `issued' when the request began
  outcome,   \* what its client gets: "none", "ok", "error" (a response, or an event
             \* stream that is cut off), "unauthorized" (the same by upstream's 401)
  rejected   \* upstream: access tokens it answers with 401

request  == <<flow, kind, used, begun, outcome>>
flowVars == <<vars, request, rejected>>

InitFlow ==
  /\ Init
  /\ flow = [c \in Callers |-> "none"]
  /\ kind = [c \in Callers |-> "none"]
  /\ used = [c \in Callers |-> 0]
  /\ begun = [c \in Callers |-> 0]
  /\ outcome = [c \in Callers |-> "none"]
  /\ rejected = {0}

Finish(c, o) ==
  /\ flow' = [flow EXCEPT ![c] = "replied"]
  /\ outcome' = [outcome EXCEPT ![c] = o]

-----------------------------------------------------------------------------
\* client(ctx, false): the request asks for a token.
Begin(c, k) ==
  /\ flow[c] = "none"
  /\ Call(c, FALSE)
  /\ flow' = [flow EXCEPT ![c] = "token"]
  /\ kind' = [kind EXCEPT ![c] = k]
  /\ begun' = [begun EXCEPT ![c] = issued]
  /\ UNCHANGED <<used, outcome, rejected>>

\* AccessToken failed: its error is the reply, at the first and at the forced
\* call alike.
NoTokenAtFirst(c) ==
  /\ flow[c] = "token"
  /\ result[c].code # "ok"
  /\ Collect(c)
  /\ Finish(c, "error")
  /\ UNCHANGED <<kind, used, begun, rejected>>

NoToken(c) ==
  /\ flow[c] \in {"token", "retoken"}
  /\ result[c].code # "ok"
  /\ Collect(c)
  /\ Finish(c, "error")
  /\ UNCHANGED <<kind, used, begun, rejected>>

\* messageParams refuses the request.  It runs after the token was obtained, so
\* a bad request may have cost a refresh.
BadRequest(c) ==
  /\ flow[c] = "token"
  /\ result[c].code = "ok"
  /\ kind[c] # Models
  /\ Collect(c)
  /\ Finish(c, "error")
  /\ UNCHANGED <<kind, used, begun, rejected>>

\* The retry goes out with the client of the first attempt.
CallUpstreamSameClient(c) ==
  /\ flow[c] \in {"token", "retoken"}
  /\ result[c].code = "ok"
  /\ Collect(c)
  /\ used' = [used EXCEPT ![c] = IF flow[c] = "token" THEN result[c].acc ELSE @]
  /\ flow' = [flow EXCEPT ![c] = IF @ = "token" THEN "calling" ELSE "recalling"]
  /\ UNCHANGED <<kind, begun, outcome, rejected>>

CallUpstream(c) ==
  /\ flow[c] \in {"token", "retoken"}
  /\ result[c].code = "ok"
  /\ Collect(c)
  /\ used' = [used EXCEPT ![c] = result[c].acc]
  /\ flow' = [flow EXCEPT ![c] = IF @ = "token" THEN "calling" ELSE "recalling"]
  /\ UNCHANGED <<kind, begun, outcome, rejected>>

Served(c) ==
  /\ flow[c] \in {"calling", "recalling"}
  /\ used[c] \notin rejected
  /\ Finish(c, "ok")
  /\ UNCHANGED <<vars, kind, used, begun, rejected>>

\* RequestTimeout (not for streams), a dropped connection, any status but 401.
UpstreamFails(c) ==
  /\ flow[c] \in {"calling", "recalling"}
  /\ Finish(c, "error")
  /\ UNCHANGED <<vars, kind, used, begun, rejected>>

Unauthorized(c) ==
  /\ flow[c] \in {"calling", "recalling"}
  /\ used[c] \in rejected

\* client(ctx, true): the first 401 of a call that is not a stream.
Retry(c) ==
  /\ Unauthorized(c)
  /\ flow[c] = "calling"
  /\ kind[c] # Stream
  /\ Call(c, TRUE)
  /\ flow' = [flow EXCEPT ![c] = "retoken"]
  /\ UNCHANGED <<kind, used, begun, outcome, rejected>>

\* The second 401 is translated into the reply.
GiveUpUnauthorized(c) ==
  /\ Unauthorized(c)
  /\ flow[c] = "recalling"
  /\ Finish(c, "unauthorized")
  /\ UNCHANGED <<vars, kind, used, begun, rejected>>

\* A stream meets its 401 in the first Next, when the handler has already sent
\* status 200: nothing is retried and the event stream ends without [DONE].
StreamUnauthorized(c) ==
  /\ Unauthorized(c)
  /\ kind[c] = Stream
  /\ Finish(c, "unauthorized")
  /\ UNCHANGED <<vars, kind, used, begun, rejected>>

Done(c) ==
  /\ flow[c] = "replied"
  /\ flow' = [flow EXCEPT ![c] = "none"]
  /\ outcome' = [outcome EXCEPT ![c] = "none"]
  /\ used' = [used EXCEPT ![c] = 0]
  /\ begun' = [begun EXCEPT ![c] = 0]
  /\ kind' = [kind EXCEPT ![c] = "none"]
  /\ UNCHANGED <<vars, rejected>>

-----------------------------------------------------------------------------
(* The environment *)

\* Upstream stops accepting an access token: it expired there or was revoked.
Revoke(n) ==
  /\ n \in 1..issued
  /\ rejected' = rejected \cup {n}
  /\ UNCHANGED <<vars, request>>

\* The process dies with the requests it serves.
Die ==
  /\ Crash
  /\ flow' = [c \in Callers |-> "none"]
  /\ outcome' = [c \in Callers |-> "none"]
  /\ used' = [c \in Callers |-> 0]
  /\ begun' = [c \in Callers |-> 0]
  /\ kind' = [c \in Callers |-> "none"]
  /\ UNCHANGED rejected

-----------------------------------------------------------------------------
RequestStep(c) ==
  \/ NoToken(c)
  \/ BadRequest(c)
  \/ CallUpstream(c)
  \/ Served(c)
  \/ UpstreamFails(c)
  \/ Retry(c)
  \/ GiveUpUnauthorized(c)
  \/ StreamUnauthorized(c)

Tick(c) == Call(c, FALSE) \/ Collect(c)

NextFlow ==
  \/ \E c \in Requests, k \in Kinds : Begin(c, k)
  \/ \E c \in Requests : RequestStep(c) \/ Done(c)
  \/ \E n \in 1..MaxIssued : Revoke(n)
  \/ \E c \in Callers \ Requests : Tick(c) /\ UNCHANGED <<request, rejected>>
  \/ \E c \in Callers : Step(c) /\ UNCHANGED <<request, rejected>>
  \/ Outside /\ UNCHANGED <<request, rejected>>
  \/ Die

SpecFlow == InitFlow /\ [][NextFlow]_flowVars

\* The proxy's own steps.  RequestTimeout bounds the calls that are not streams;
\* nothing bounds a stream, so a stream may wait for upstream for ever.
OwnStep(c) ==
  \/ NoToken(c)
  \/ BadRequest(c)
  \/ CallUpstream(c)
  \/ UpstreamFails(c) /\ kind[c] # Stream

\* The scheduler runs every goroutine.  sync.Mutex hands the lock to a waiter
\* that has starved for 1ms, so a waiter that finds the mutex free again and
\* again gets it; the client timeout ends every wait for the token endpoint.
FairSpecFlow ==
  /\ SpecFlow
  /\ \A c \in Requests : WF_flowVars(OwnStep(c))
  /\ \A c \in Callers :
       /\ WF_flowVars(Step(c) /\ UNCHANGED <<request, rejected>>)
       /\ SF_flowVars(Acquire(c) /\ UNCHANGED <<request, rejected>>)

\* autoRefreshWithInterval calls AccessToken at every tick, for ever; the
\* token endpoint, asked again and again, in the end answers.
Refreshing ==
  /\ \A c \in Callers \ Requests :
       WF_flowVars(Tick(c) /\ UNCHANGED <<request, rejected>>)
  /\ \A c \in Callers :
       SF_flowVars(\E k \in Answers : Answered(c, k) /\ UNCHANGED <<request, rejected>>)

-----------------------------------------------------------------------------
(* Properties *)

\* A client is turned away because of upstream's 401 only if upstream rejected
\* a token that was issued after the request came in: the 401 of an older token
\* is always answered by a forced refresh, and the retry carries what that
\* refresh returned even when other requests refresh at the same time
\* (anthropic/service.go:62-76 and 89-103).  A token endpoint that issues no
\* access token at all is outside the promise.
No401OfAnOldToken ==
  \A c \in Requests :
    outcome[c] = "unauthorized" => used[c] > begun[c] \/ used[c] = 0

\* Every request that is not a stream is answered: no queue behind the mutex
\* and no stream that hangs on upstream holds it up for ever
\* (anthropic/service.go:206-233).
EveryRequestAnswered ==
  \A c \in Requests :
    flow[c] = "token" /\ kind[c] # Stream ~> flow[c] \in {"replied", "none"}

\* The session can be renewed: a readable file with a refresh token the
\* endpoint honours, and answers left within the bound.
Renewable == /\ Readable(file)
             /\ file.ref # 0
             /\ Honours(file.ref)
             /\ issued < MaxIssued

\* The background refresher renews an expired session, unless the session is
\* lost on the way or the process crashes for ever: no failed tick ends it
\* (cli/run.go:266-283).
Renewal ==
  Refreshing /\ <>[][~Crash]_vars
    => (Renewable /\ Expired(file) ~> ~Renewable \/ ~Expired(file))
=============================================================================
