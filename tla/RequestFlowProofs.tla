------------------------- MODULE RequestFlowProofs -------------------------
(***************************************************************************)
(* Theorems about the requests that use the session, for any number of     *)
(* requests and other callers, logins, crashes and kinds of answer.  The   *)
(* composition takes no step that AuthService does not take, so that what  *)
(* is proved of the session holds beneath the requests; what a forced call *)
(* returns is then what rules out the 401 of an old token.                 *)
(***************************************************************************)
EXTENDS RequestFlow, AuthServiceProofs

-----------------------------------------------------------------------------
(* The composition *)

\* Every step of the composition is one of the session or leaves it alone.
LEMMA SessionStep == [NextFlow]_flowVars => [Next]_vars
<1> SUFFICES ASSUME [NextFlow]_flowVars PROVE [Next]_vars
  OBVIOUS
<1> USE RequestAssumption
<1>1. CASE \E c \in Requests, k \in Kinds : Begin(c, k)
  BY <1>1 DEF Begin, Next
<1>2. ASSUME NEW c \in Requests, RequestStep(c) \/ Done(c) PROVE [Next]_vars
  <2>1. CASE NoToken(c) \/ BadRequest(c) \/ CallUpstream(c)
    BY <2>1 DEF NoToken, BadRequest, CallUpstream, Next
  <2>2. CASE Served(c) \/ UpstreamFails(c) \/ GiveUpUnauthorized(c)
               \/ StreamUnauthorized(c) \/ Done(c)
    BY <2>2 DEF Served, UpstreamFails, GiveUpUnauthorized, StreamUnauthorized, Done
  <2>3. CASE Retry(c)
    BY <2>3 DEF Retry, Next
  <2>. QED
    BY <1>2, <2>1, <2>2, <2>3 DEF RequestStep
<1>3. CASE \E n \in 1..MaxIssued : Revoke(n)
  BY <1>3 DEF Revoke
<1>4. CASE \E c \in Callers \ Requests : Tick(c) /\ UNCHANGED <<request, rejected>>
  BY <1>4 DEF Tick, Next
<1>5. CASE \E c \in Callers : Step(c) /\ UNCHANGED <<request, rejected>>
  BY <1>5 DEF Next
<1>6. CASE Outside /\ UNCHANGED <<request, rejected>>
  BY <1>6 DEF Next
<1>7. CASE Die
  BY <1>7 DEF Die, Next
<1>8. CASE UNCHANGED flowVars
  BY <1>8 DEF flowVars
<1>. QED
  BY <1>1, <1>2, <1>3, <1>4, <1>5, <1>6, <1>7, <1>8 DEF NextFlow

\* The requests and the refresher use the session as AuthService allows: all
\* that is proved of it holds in the composition (anthropic/service.go:62-103).
THEOREM RequestsUseTheSession == SpecFlow => Spec
<1>1. InitFlow => Init
  BY DEF InitFlow
<1>. QED
  BY <1>1, SessionStep, PTL DEF SpecFlow, Spec

-----------------------------------------------------------------------------
(* The retry *)

FlowTypes ==
  /\ flow \in [Callers -> {"none", "token", "calling", "retoken", "recalling", "replied"}]
  /\ kind \in [Callers -> Kinds \cup {"none"}]
  /\ used \in [Callers -> 0..MaxIssued]
  /\ begun \in [Callers -> 0..MaxIssued]
  /\ outcome \in [Callers -> {"none", "ok", "error", "unauthorized"}]

\* What request c knows: it began before now; its second token is asked for with
\* force, later than it began; the token of its second call is newer than the
\* request, and nothing else ends in "unauthorized".
Knows(c) ==
  /\ begun[c] <= issued
  /\ flow[c] = "retoken" => pc[c] # "idle" /\ force[c] /\ since[c].issued >= begun[c]
  /\ flow[c] = "recalling" => used[c] > begun[c] \/ used[c] = 0
  /\ outcome[c] = "unauthorized" =>
       flow[c] = "replied" /\ (used[c] > begun[c] \/ used[c] = 0)

FlowInv == FlowTypes /\ \A c \in Requests : Knows(c)

\* The endpoint's count does not go back.
LEMMA CountGrows == TypeOK /\ [Next]_vars => issued' \in Nat /\ issued' >= issued
<1> SUFFICES ASSUME TypeOK, [Next]_vars PROVE issued' \in Nat /\ issued' >= issued
  OBVIOUS
<1>0. issued \in Nat
  BY ConstantsAssumption DEF TypeOK, ServerOK
<1>1. CASE \E c \in Callers, f \in BOOLEAN : Call(c, f)
  BY <1>0, <1>1 DEF Call, server
<1>2. CASE \E c \in Callers : Step(c)
  BY <1>0, <1>2 DEF Step, Acquire, LoadFails, Load, ReturnSaved, NoRefreshToken, Send, Refused,
         GiveUp, LoseAnswer, SaveFails, SaveAndReturn, server
<1>3. CASE \E c \in Callers : Collect(c)
  BY <1>0, <1>3 DEF Collect, server
<1>4. CASE Outside
  BY <1>0, <1>4 DEF Outside, Answered, AnswerOrphan, Issue, Expire, LoginExchange, LoginSave,
         LoginFails, Logout, server
<1>5. CASE Crash
  BY <1>0, <1>5 DEF Crash
<1>6. CASE UNCHANGED vars
  BY <1>0, <1>6 DEF vars
<1>. QED
  BY <1>1, <1>2, <1>3, <1>4, <1>5, <1>6 DEF Next

\* A call that is under way stays under way, forced or not, until its caller
\* collects the result or the process dies.
LEMMA CallGoesOn ==
  ASSUME TypeOK, NEW c \in Callers, pc[c] # "idle",
         \/ \E d \in Callers : Step(d)
         \/ Outside
         \/ \E d \in Callers \ {c} : Collect(d) \/ \E f \in BOOLEAN : Call(d, f)
  PROVE  pc'[c] # "idle" /\ force'[c] = force[c] /\ since'[c] = since[c]
<1> USE DEF TypeOK, CallersOK
<1>1. CASE \E d \in Callers : Step(d)
  <2> PICK d \in Callers : Step(d)
    BY <1>1
  <2>1. CASE Acquire(d) \/ Load(d) \/ Send(d)
    BY <2>1 DEF Acquire, Load, Send
  <2>2. CASE LoadFails(d) \/ ReturnSaved(d) \/ NoRefreshToken(d) \/ Refused(d) \/ GiveUp(d)
               \/ LoseAnswer(d) \/ SaveFails(d) \/ SaveAndReturn(d)
    BY <2>2 DEF LoadFails, ReturnSaved, NoRefreshToken, Refused, GiveUp, LoseAnswer, SaveFails,
           SaveAndReturn, Return
  <2>. QED
    BY <2>1, <2>2 DEF Step
<1>2. CASE Outside
  BY <1>2 DEF Outside, Answered, AnswerOrphan, Expire, LoginExchange, LoginSave, LoginFails,
         Logout, caller
<1>3. ASSUME NEW d \in Callers \ {c}, Collect(d) \/ \E f \in BOOLEAN : Call(d, f)
      PROVE  pc'[c] # "idle" /\ force'[c] = force[c] /\ since'[c] = since[c]
  BY <1>3 DEF Collect, Call
<1>. QED
  BY <1>1, <1>2, <1>3

\* The request of caller d moves on: the other requests know what they knew.
LEMMA OthersKnow ==
  ASSUME TypeOK, FlowInv, NEW c \in Requests, NEW d \in Callers \ {c}, [Next]_vars,
         Collect(d) \/ (\E f \in BOOLEAN : Call(d, f)) \/ UNCHANGED vars,
         flow'[c] = flow[c], used'[c] = used[c], begun'[c] = begun[c], outcome'[c] = outcome[c]
  PROVE  Knows(c)'
<1>1. issued' \in Nat /\ issued' >= issued
  BY CountGrows
<1>2. issued \in Nat /\ begun[c] \in Nat
  BY ConstantsAssumption, RequestAssumption DEF TypeOK, ServerOK, FlowInv, FlowTypes
<1>3. flow[c] = "retoken" =>
        pc'[c] # "idle" /\ force'[c] = force[c] /\ since'[c] = since[c]
  <2>1. CASE UNCHANGED vars
    BY <2>1 DEF vars, FlowInv, Knows
  <2>2. CASE Collect(d) \/ (\E f \in BOOLEAN : Call(d, f))
    BY <2>2, CallGoesOn, RequestAssumption DEF FlowInv, Knows
  <2>. QED
    BY <2>1, <2>2
<1>. QED
  BY <1>1, <1>2, <1>3 DEF FlowInv, Knows

\* The session moves on beneath the requests.
LEMMA RequestsKnow ==
  ASSUME TypeOK, FlowInv, [Next]_vars,
         \/ \E d \in Callers : Step(d)
         \/ Outside
         \/ \E d \in Callers \ Requests : Collect(d) \/ (\E f \in BOOLEAN : Call(d, f))
         \/ UNCHANGED vars,
         UNCHANGED request
  PROVE  FlowInv'
<1>1. issued' \in Nat /\ issued' >= issued
  BY CountGrows
<1>2. ASSUME NEW c \in Requests PROVE Knows(c)'
  <2>2. issued \in Nat /\ begun[c] \in Nat
    BY ConstantsAssumption, RequestAssumption DEF TypeOK, ServerOK, FlowInv, FlowTypes
  <2>3. flow[c] = "retoken" =>
          pc'[c] # "idle" /\ force'[c] = force[c] /\ since'[c] = since[c]
    <3>1. CASE UNCHANGED vars
      BY <3>1 DEF vars, FlowInv, Knows
    <3>2. CASE ~UNCHANGED vars
      BY <3>2, CallGoesOn, RequestAssumption DEF FlowInv, Knows
    <3>. QED
      BY <3>1, <3>2
  <2>. QED
    BY <1>1, <2>2, <2>3 DEF FlowInv, Knows, request
<1>. QED
  BY <1>2 DEF FlowInv, FlowTypes, request

\* Each step of a request.
LEMMA RequestKnows ==
  ASSUME ReplayInv, ReturnInv, FlowInv, Stream \notin Kinds, [Next]_vars,
         NEW c \in Requests, RequestStep(c) \/ Done(c) \/ (\E k \in Kinds : Begin(c, k))
  PROVE  FlowInv'
<1> USE RequestAssumption, ConstantsAssumption
<1>0. c \in Callers /\ TypeOK
  BY DEF ReplayInv
<1>1. /\ result[c].acc \in 0..MaxIssued /\ issued \in 0..MaxIssued
      /\ begun[c] \in 0..MaxIssued /\ used[c] \in 0..MaxIssued
  BY <1>0 DEF TypeOK, CallersOK, ServerOK, Result, FlowInv, FlowTypes
<1>2. /\ flow' = [flow EXCEPT ![c] = flow'[c]] /\ kind' = [kind EXCEPT ![c] = kind'[c]]
      /\ used' = [used EXCEPT ![c] = used'[c]] /\ begun' = [begun EXCEPT ![c] = begun'[c]]
      /\ outcome' = [outcome EXCEPT ![c] = outcome'[c]]
      /\ Collect(c) \/ (\E f \in BOOLEAN : Call(c, f)) \/ UNCHANGED vars
  <2>0. FlowTypes
    BY DEF FlowInv
  <2>1. CASE NoToken(c) \/ BadRequest(c)
    BY <1>0, <2>0, <2>1 DEF NoToken, BadRequest, Finish, FlowTypes
  <2>2. CASE CallUpstream(c)
    BY <1>0, <2>0, <2>2 DEF CallUpstream, FlowTypes
  <2>3. CASE Served(c) \/ UpstreamFails(c)
    BY <1>0, <2>0, <2>3 DEF Served, UpstreamFails, Finish, FlowTypes
  <2>4. CASE Retry(c)
    BY <1>0, <2>0, <2>4 DEF Retry, FlowTypes
  <2>5. CASE GiveUpUnauthorized(c) \/ StreamUnauthorized(c)
    BY <1>0, <2>0, <2>5 DEF GiveUpUnauthorized, StreamUnauthorized, Finish, FlowTypes
  <2>6. CASE Done(c)
    BY <1>0, <2>0, <2>6 DEF Done, FlowTypes
  <2>7. CASE \E k \in Kinds : Begin(c, k)
    BY <1>0, <2>0, <2>7 DEF Begin, FlowTypes
  <2>. QED
    BY <2>1, <2>2, <2>3, <2>4, <2>5, <2>6, <2>7 DEF RequestStep
<1>3. /\ flow'[c] \in {"none", "token", "calling", "retoken", "recalling", "replied"}
      /\ kind'[c] \in Kinds \cup {"none"}
      /\ used'[c] \in 0..MaxIssued
      /\ begun'[c] \in 0..MaxIssued
      /\ outcome'[c] \in {"none", "ok", "error", "unauthorized"}
      /\ Knows(c)'
  <2>0. /\ FlowTypes /\ Knows(c) /\ kind[c] # Stream
        /\ flow[c] \in {"none", "token", "calling", "retoken", "recalling", "replied"}
        /\ kind[c] \in Kinds \cup {"none"}
        /\ outcome[c] \in {"none", "ok", "error", "unauthorized"}
    BY <1>0 DEF FlowInv, FlowTypes, Stream
  <2>1. CASE NoToken(c) \/ BadRequest(c)
    BY <1>0, <1>1, <2>0, <2>1
       DEF NoToken, BadRequest, Finish, Collect, FlowTypes, Knows, server
  <2>2. CASE CallUpstream(c)
    <3>1. flow[c] = "retoken" => result[c].acc > begun[c] \/ result[c].acc = 0
      <4>1. since[c].issued \in 0..MaxIssued
        BY <1>0 DEF TypeOK, CallersOK, Since
      <4>2. pc[c] = "done" /\ result[c].code = "ok"
        BY <2>2 DEF CallUpstream, Collect
      <4>. QED
        BY <1>0, <1>1, <2>0, <4>1, <4>2 DEF ReturnInv, Delivers, Knows
    <3>2. /\ used'[c] = result[c].acc /\ begun'[c] = begun[c] /\ kind'[c] = kind[c]
          /\ outcome'[c] = outcome[c] /\ issued' = issued
          /\ \/ flow[c] = "token" /\ flow'[c] = "calling"
             \/ flow[c] = "retoken" /\ flow'[c] = "recalling"
      BY <1>0, <2>0, <2>2 DEF CallUpstream, Collect, FlowTypes, server
    <3>3. outcome[c] # "unauthorized"
      BY <2>0, <3>2 DEF Knows
    <3>. QED
      BY <1>1, <2>0, <3>1, <3>2, <3>3 DEF Knows
  <2>3. CASE Served(c) \/ UpstreamFails(c)
    BY <1>0, <1>1, <2>0, <2>3 DEF Served, UpstreamFails, Finish, FlowTypes, Knows, vars, server
  <2>4. CASE Retry(c)
    BY <1>0, <1>1, <2>0, <2>4 DEF Retry, Call, FlowTypes, Knows, server, TypeOK, CallersOK
  <2>5. CASE GiveUpUnauthorized(c)
    BY <1>0, <1>1, <2>0, <2>5 DEF GiveUpUnauthorized, Finish, FlowTypes, Knows, vars
  <2>6. CASE StreamUnauthorized(c)
    BY <2>0, <2>6 DEF StreamUnauthorized
  <2>7. CASE Done(c)
    BY <1>0, <1>1, <2>0, <2>7 DEF Done, FlowTypes, Knows, vars
  <2>8. CASE \E k \in Kinds : Begin(c, k)
    <3>1. /\ used'[c] = used[c] /\ begun'[c] = issued /\ kind'[c] \in Kinds
          /\ outcome'[c] = outcome[c] /\ issued' = issued /\ flow'[c] = "token"
      BY <1>0, <2>0, <2>8 DEF Begin, Call, FlowTypes, server
    <3>2. outcome[c] # "unauthorized"
      BY <2>0, <2>8 DEF Begin, Knows
    <3>. QED
      BY <1>1, <2>0, <3>1, <3>2 DEF Knows
  <2>. QED
    BY <2>1, <2>2, <2>3, <2>4, <2>5, <2>6, <2>7, <2>8 DEF RequestStep
<1>4. FlowTypes'
  BY <1>0, <1>2, <1>3 DEF FlowInv, FlowTypes
<1>5. ASSUME NEW d \in Requests, d # c PROVE Knows(d)'
  <2>1. /\ flow'[d] = flow[d] /\ used'[d] = used[d] /\ begun'[d] = begun[d]
        /\ outcome'[d] = outcome[d]
    BY <1>0, <1>2, <1>5 DEF FlowInv, FlowTypes
  <2>. QED
    BY <1>0, <1>2, <1>5, <2>1, OthersKnow
<1>. QED
  BY <1>3, <1>4, <1>5 DEF FlowInv

\* All of it: every step of the composition.
LEMMA FlowStep ==
  ASSUME Stream \notin Kinds
  PROVE  ReplayInv /\ ReturnInv /\ FlowInv /\ [NextFlow]_flowVars => FlowInv'
<1> SUFFICES ASSUME ReplayInv, ReturnInv, FlowInv, [NextFlow]_flowVars PROVE FlowInv'
  OBVIOUS
<1>0. TypeOK /\ [Next]_vars
  BY SessionStep DEF ReplayInv
<1>1. CASE \E c \in Requests, k \in Kinds : Begin(c, k)
  BY <1>0, <1>1, RequestKnows
<1>2. CASE \E c \in Requests : RequestStep(c) \/ Done(c)
  BY <1>0, <1>2, RequestKnows
<1>3. CASE \E n \in 1..MaxIssued : Revoke(n)
  BY <1>0, <1>3, RequestsKnow DEF Revoke
<1>4. CASE \E c \in Callers \ Requests : Tick(c) /\ UNCHANGED <<request, rejected>>
  BY <1>0, <1>4, RequestsKnow DEF Tick
<1>5. CASE \E c \in Callers : Step(c) /\ UNCHANGED <<request, rejected>>
  BY <1>0, <1>5, RequestsKnow
<1>6. CASE Outside /\ UNCHANGED <<request, rejected>>
  BY <1>0, <1>6, RequestsKnow
<1>7. CASE Die
  BY <1>0, <1>7, RequestAssumption, ConstantsAssumption
     DEF Die, Crash, FlowInv, FlowTypes, Knows, TypeOK, ServerOK
<1>8. CASE UNCHANGED flowVars
  BY <1>0, <1>8, RequestsKnow DEF flowVars
<1>. QED
  BY <1>1, <1>2, <1>3, <1>4, <1>5, <1>6, <1>7, <1>8 DEF NextFlow

\* Without streams, no client is turned away by the 401 of a token that was
\* issued before its request: the retry carries the token of the forced refresh,
\* which is newer than the request, whatever the other requests, the logins and
\* the clock do in between (anthropic/service.go:62-76 and 89-103).  The run
\* flow_stream shows that streams have to be left out.
THEOREM RetryIsNew ==
  ASSUME Stream \notin Kinds PROVE SpecFlow => []No401OfAnOldToken
<1>1. InitFlow => FlowInv
  BY RequestAssumption, ConstantsAssumption DEF InitFlow, Init, FlowInv, FlowTypes, Knows
<1>2. FlowInv => No401OfAnOldToken
  BY DEF FlowInv, Knows, No401OfAnOldToken
<1>3. ReplayInv /\ ReturnInv /\ FlowInv /\ [NextFlow]_flowVars => FlowInv'
  BY FlowStep
<1>. QED
  BY <1>1, <1>2, <1>3, RequestsUseTheSession, ReplayInvariant, ReturnInvariant, PTL DEF SpecFlow
=============================================================================
