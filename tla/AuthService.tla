---------------------------- MODULE AuthService ----------------------------
(***************************************************************************)
(* The OAuth session of one `serve` process (internal/auth/service.go) on  *)
(* its token file (internal/tokens/store.go), with `login` and `logout`    *)
(* run beside it by other processes and Anthropic's token endpoint as the  *)
(* environment.                                                            *)
(*                                                                         *)
(* Every goroutine that calls AccessToken -- a request handler, runServe   *)
(* at its start, the background refresher -- is a Caller.  Callers of      *)
(* the process share service.mu; a CLI process has a mutex of its own, so  *)
(* its saves and deletes are not ordered with the callers at all.          *)
(*                                                                         *)
(* Tokens are named by the answer of the token endpoint that issued them:  *)
(* answer n carries access token n and, when it rotates, refresh token n.  *)
(* 0 is the empty string.  Time is abstracted to the set `stale' of the    *)
(* access tokens for which TokenSet.Expired answers true; the clock only   *)
(* ever adds to it.                                                        *)
(***************************************************************************)
EXTENDS Naturals, FiniteSets

CONSTANTS
  Callers,    \* goroutines of the serve process that call AccessToken
  Logins,     \* processes that run `login` on the same token file
  NoCaller,   \* holder of a free mutex
  Absent,     \* what the path of the token file holds when there is no file
  MaxIssued,  \* bound: successful answers of the token endpoint
  Answers,    \* kinds of successful answer the token endpoint may give
  Seeded      \* whether a seed file is configured (FallbackStore)

Rotate == "rotate"  \* a new access token and a new refresh token
Keep   == "keep"    \* a new access token, no refresh token in the answer
Blank  == "blank"   \* a 200 with a new refresh token, no access token

TokenSet == [acc : 0..MaxIssued, ref : 0..MaxIssued]
Empty    == [acc |-> 0, ref |-> 0]
First    == [acc |-> 1, ref |-> 1]

ASSUME ConstantsAssumption ==
  /\ MaxIssued \in Nat \ {0}
  /\ NoCaller \notin Callers
  /\ Absent \notin TokenSet
  /\ Answers \subseteq {Rotate, Keep, Blank}
  /\ Seeded \in BOOLEAN

VARIABLES
  pc,       \* where each caller stands in AccessToken
  force,    \* AccessTokenInput.ForceRefresh
  held,     \* tokenSet, the local variable read by Load
  answer,   \* what the token endpoint answered the caller
  result,   \* what the call returned: [code, acc]
  mu,       \* holder of service.mu
  file,     \* the token file
  cli,      \* each login process: the tokens it obtained and has yet to save
  issued,   \* token endpoint: successful answers so far
  heir,     \* token endpoint: the answer that replaced a refresh token, or 0
  orphans,  \* refresh requests on the wire that nobody waits for any more
  stale,    \* access tokens that are within the skew of their expiry
  saved,    \* history: every access token the file has held
  lost,     \* history: answers that never reached the process's save
  since     \* history: when the call began, `issued' if forced, else `stale'

caller == <<pc, force, held, answer, result, mu, since>>
server == <<issued, heir, orphans>>
disk   == <<file, saved, lost>>
vars   == <<pc, force, held, answer, result, mu, file, cli, issued, heir,
            orphans, stale, saved, lost, since>>

InMutex == {"locked", "loaded", "sent", "answered"}
PC      == {"idle", "wait", "done"} \cup InMutex
Codes   == {"none", "ok", "TOKEN_MISSING", "TOKEN_LOAD_FAILED",
            "REFRESH_TOKEN_MISSING", "TOKEN_EXCHANGE_FAILED",
            "TOKEN_REQUEST_FAILED", "TOKEN_SAVE_FAILED"}
NoResult == [code |-> "none", acc |-> 0]

-----------------------------------------------------------------------------
(* The token file *)

Readable(f) == f # Absent /\ f.acc # 0

\* What Load yields: the primary file or, if reading it fails for whatever
\* reason, the seed file.
Loadable == Readable(file) \/ Seeded
LoadedPrimary == file  \* the seed forgotten
Loaded   == IF Readable(file) THEN file ELSE First

LoadError == IF file = Absent THEN "TOKEN_MISSING" ELSE "TOKEN_LOAD_FAILED"

Expired(ts) == ts.acc \in stale

Write(ts) == /\ file' = ts
             /\ saved' = saved \cup {ts.acc}
             /\ lost' = lost

-----------------------------------------------------------------------------
(* The token endpoint *)

\* Answer `issued + 1' of kind k, to a request that presents refresh token r
\* (r = 0: a login, which presents none).
Issue(r, k) ==
  /\ issued < MaxIssued
  /\ issued' = issued + 1
  /\ heir' = IF r # 0 /\ k # Keep THEN [heir EXCEPT ![r] = issued + 1] ELSE heir

TokensOf(n, k) == [acc |-> IF k = Blank THEN 0 ELSE n,
                   ref |-> IF k = Keep THEN 0 ELSE n]

Spent(r) == heir[r] # 0

\* A token endpoint honours a refresh token until it has replaced it.
Honours(r) == ~Spent(r)

-----------------------------------------------------------------------------
(* AccessToken *)

Init ==
  /\ pc = [c \in Callers |-> "idle"]
  /\ force = [c \in Callers |-> FALSE]
  /\ held = [c \in Callers |-> Empty]
  /\ answer = [c \in Callers |-> Empty]
  /\ result = [c \in Callers |-> NoResult]
  /\ mu = NoCaller
  /\ file \in IF Seeded THEN {Absent} ELSE {Absent, First}
  /\ cli = [p \in Logins |-> Absent]
  /\ issued = 1
  /\ heir = [r \in 1..MaxIssued |-> 0]
  /\ orphans = {}
  /\ stale = {}
  /\ saved = IF file = Absent THEN {} ELSE {file.acc}
  /\ lost = {}
  /\ since = [c \in Callers |-> [issued |-> 0, stale |-> {}]]

\* The call begins and queues for the mutex.  Lock does not look at ctx.
Call(c, f) ==
  /\ pc[c] = "idle"
  /\ pc' = [pc EXCEPT ![c] = "wait"]
  /\ force' = [force EXCEPT ![c] = f]
  /\ since' = [since EXCEPT ![c] = IF f THEN [issued |-> issued, stale |-> {}]
                                          ELSE [issued |-> 0, stale |-> stale]]
  /\ UNCHANGED <<held, answer, result, mu, cli, stale, server, disk>>

\* The mutex taken without waiting for it.
AcquireBusy(c) ==
  /\ pc[c] = "wait"
  /\ mu' = c
  /\ pc' = [pc EXCEPT ![c] = "locked"]
  /\ UNCHANGED <<force, held, answer, result, since, cli, stale, server, disk>>

Acquire(c) ==
  /\ pc[c] = "wait"
  /\ mu = NoCaller
  /\ mu' = c
  /\ pc' = [pc EXCEPT ![c] = "locked"]
  /\ UNCHANGED <<force, held, answer, result, since, cli, stale, server, disk>>

\* Every return runs the deferred Unlock.
Return(c, code, acc) ==
  /\ pc' = [pc EXCEPT ![c] = "done"]
  /\ result' = [result EXCEPT ![c] = [code |-> code, acc |-> acc]]
  /\ held' = [held EXCEPT ![c] = Empty]
  /\ answer' = [answer EXCEPT ![c] = Empty]
  /\ mu' = NoCaller
  /\ UNCHANGED <<force, since, cli, stale>>

\* An early return that leaves the mutex locked.
LoadFailsLocked(c) ==
  /\ pc[c] = "locked"
  /\ ~Loadable
  /\ pc' = [pc EXCEPT ![c] = "done"]
  /\ result' = [result EXCEPT ![c] = [code |-> LoadError, acc |-> 0]]
  /\ UNCHANGED <<force, held, answer, mu, since, cli, stale, server, disk>>

LoadFails(c) ==
  /\ pc[c] = "locked"
  /\ ~Loadable
  /\ Return(c, LoadError, 0)
  /\ UNCHANGED <<server, disk>>

Load(c) ==
  /\ pc[c] = "locked"
  /\ Loadable
  /\ held' = [held EXCEPT ![c] = Loaded]
  /\ pc' = [pc EXCEPT ![c] = "loaded"]
  /\ UNCHANGED <<force, answer, result, mu, since, cli, stale, server, disk>>

\* The expiry is not looked at ...
NeedsRefreshIfForced(c) == force[c]

\* ... or ForceRefresh is not.
NeedsRefreshIfExpired(c) == Expired(held[c])

NeedsRefresh(c) == force[c] \/ Expired(held[c])

ReturnSaved(c) ==
  /\ pc[c] = "loaded"
  /\ ~NeedsRefresh(c)
  /\ Return(c, "ok", held[c].acc)
  /\ UNCHANGED <<server, disk>>

NoRefreshToken(c) ==
  /\ pc[c] = "loaded"
  /\ NeedsRefresh(c)
  /\ held[c].ref = 0
  /\ Return(c, "REFRESH_TOKEN_MISSING", 0)
  /\ UNCHANGED <<server, disk>>

Send(c) ==
  /\ pc[c] = "loaded"
  /\ NeedsRefresh(c)
  /\ held[c].ref # 0
  /\ pc' = [pc EXCEPT ![c] = "sent"]
  /\ UNCHANGED <<force, held, answer, result, mu, since, cli, stale, server, disk>>

\* The endpoint refuses: an unknown or spent token, or any failure of its own.
Refused(c) ==
  /\ pc[c] = "sent"
  /\ Return(c, "TOKEN_EXCHANGE_FAILED", 0)
  /\ UNCHANGED <<server, disk>>

\* The 15s client timeout, a cancelled request context or a broken connection
\* ends the wait while the request may still reach the endpoint.
GiveUp(c) ==
  /\ pc[c] = "sent"
  /\ orphans' = orphans \cup {held[c].ref}
  /\ Return(c, "TOKEN_REQUEST_FAILED", 0)
  /\ UNCHANGED <<issued, heir, disk>>

\* The answer is lost or unreadable on its way back.
LoseAnswer(c) ==
  /\ pc[c] = "answered"
  /\ lost' = lost \cup {answer[c].ref}
  /\ Return(c, "TOKEN_REQUEST_FAILED", 0)
  /\ UNCHANGED <<server, file, saved>>

\* The rotated refresh token is dropped.
RefreshedDropsRotation(c) == [answer[c] EXCEPT !.ref = held[c].ref]

\* postToken and AccessToken both keep the old refresh token when the answer
\* has none.
Refreshed(c) ==
  IF answer[c].ref = 0 THEN [answer[c] EXCEPT !.ref = held[c].ref] ELSE answer[c]

\* A failed save is ignored.
SaveFailsUnnoticed(c) ==
  /\ pc[c] = "answered"
  /\ Return(c, "ok", answer[c].acc)
  /\ UNCHANGED <<server, disk>>

SaveFails(c) ==
  /\ pc[c] = "answered"
  /\ lost' = lost \cup {answer[c].ref}
  /\ Return(c, "TOKEN_SAVE_FAILED", 0)
  /\ UNCHANGED <<server, file, saved>>

SaveAndReturn(c) ==
  /\ pc[c] = "answered"
  /\ Write(Refreshed(c))
  /\ Return(c, "ok", answer[c].acc)
  /\ UNCHANGED server

\* The caller takes the result.
Collect(c) ==
  /\ pc[c] = "done"
  /\ pc' = [pc EXCEPT ![c] = "idle"]
  /\ force' = [force EXCEPT ![c] = FALSE]
  /\ result' = [result EXCEPT ![c] = NoResult]
  /\ since' = [since EXCEPT ![c] = [issued |-> 0, stale |-> {}]]
  /\ UNCHANGED <<held, answer, mu, cli, stale, server, disk>>

-----------------------------------------------------------------------------
(* The environment *)

Answered(c, k) ==
  /\ pc[c] = "sent"
  /\ Honours(held[c].ref)
  /\ Issue(held[c].ref, k)
  /\ answer' = [answer EXCEPT ![c] = TokensOf(issued + 1, k)]
  /\ pc' = [pc EXCEPT ![c] = "answered"]
  /\ UNCHANGED <<force, held, result, mu, since, cli, stale, orphans, disk>>

\* The endpoint serves a request whose sender has gone: what it issues is lost.
AnswerOrphan(r, k) ==
  /\ r \in orphans
  /\ orphans' = orphans \ {r}
  /\ \/ /\ Honours(r)
        /\ Issue(r, k)
        /\ lost' = lost \cup {TokensOf(issued + 1, k).ref}
     \/ UNCHANGED <<issued, heir, lost>>
  /\ UNCHANGED <<caller, cli, stale, file, saved>>

\* A token comes within the skew of its expiry.
Expire(n) ==
  /\ n \notin stale
  /\ n <= issued
  /\ stale' = stale \cup {n}
  /\ UNCHANGED <<caller, cli, server, disk>>

\* The serve process dies in the middle of a call and is started again.
Crash ==
  /\ \E c \in Callers : pc[c] \notin {"idle", "done"}
  /\ pc' = [c \in Callers |-> "idle"]
  /\ force' = [c \in Callers |-> FALSE]
  /\ held' = [c \in Callers |-> Empty]
  /\ answer' = [c \in Callers |-> Empty]
  /\ result' = [c \in Callers |-> NoResult]
  /\ since' = [c \in Callers |-> [issued |-> 0, stale |-> {}]]
  /\ mu' = NoCaller
  /\ orphans' = orphans \cup {held[c].ref : c \in {d \in Callers : pc[d] = "sent"}}
  /\ lost' = lost \cup {answer[c].ref : c \in {d \in Callers : pc[d] = "answered"}}
  /\ UNCHANGED <<cli, issued, heir, stale, file, saved>>

-----------------------------------------------------------------------------
(* login and logout, in processes of their own *)

\* CompleteLogin: the endpoint exchanges the authorization code ...
LoginExchange(p, k) ==
  /\ cli[p] = Absent
  /\ Issue(0, k)
  /\ cli' = [cli EXCEPT ![p] = TokensOf(issued + 1, k)]
  /\ UNCHANGED <<caller, orphans, stale, disk>>

\* ... and the tokens are saved, without the serve process's mutex,
LoginSave(p) ==
  /\ cli[p] # Absent
  /\ Write(cli[p])
  /\ cli' = [cli EXCEPT ![p] = Absent]
  /\ UNCHANGED <<caller, stale, server>>

\* ... or the process fails between the two.
LoginFails(p) ==
  /\ cli[p] # Absent
  /\ cli' = [cli EXCEPT ![p] = Absent]
  /\ UNCHANGED <<caller, stale, server, disk>>

Logout ==
  /\ file # Absent
  /\ file' = Absent
  /\ UNCHANGED <<caller, cli, stale, server, saved, lost>>

-----------------------------------------------------------------------------
\* The steps the process takes by itself once a call has begun.
Step(c) ==
  \/ Acquire(c)
  \/ LoadFails(c)
  \/ Load(c)
  \/ ReturnSaved(c)
  \/ NoRefreshToken(c)
  \/ Send(c)
  \/ Refused(c)
  \/ GiveUp(c)
  \/ LoseAnswer(c)
  \/ SaveFails(c)
  \/ SaveAndReturn(c)

Outside ==
  \/ \E c \in Callers, k \in Answers : Answered(c, k)
  \/ \E r \in orphans, k \in Answers : AnswerOrphan(r, k)
  \/ \E n \in 1..MaxIssued : Expire(n)
  \/ \E p \in Logins, k \in Answers : LoginExchange(p, k)
  \/ \E p \in Logins : LoginSave(p) \/ LoginFails(p)
  \/ Logout

Next ==
  \/ \E c \in Callers, f \in BOOLEAN : Call(c, f)
  \/ \E c \in Callers : Step(c) \/ Collect(c)
  \/ Outside
  \/ Crash

Spec == Init /\ [][Next]_vars
-----------------------------------------------------------------------------
(* Properties *)

Result == [code : Codes, acc : 0..MaxIssued]
Since  == [issued : 0..MaxIssued, stale : SUBSET (1..MaxIssued)]

CallersOK ==
  /\ pc \in [Callers -> PC]
  /\ force \in [Callers -> BOOLEAN]
  /\ held \in [Callers -> TokenSet]
  /\ answer \in [Callers -> TokenSet]
  /\ result \in [Callers -> Result]
  /\ mu \in Callers \cup {NoCaller}
  /\ since \in [Callers -> Since]

ServerOK ==
  /\ issued \in 1..MaxIssued
  /\ heir \in [1..MaxIssued -> 0..MaxIssued]
  /\ orphans \subseteq 1..MaxIssued
  /\ stale \subseteq 1..MaxIssued

DiskOK ==
  /\ file \in TokenSet \cup {Absent}
  /\ cli \in [Logins -> TokenSet \cup {Absent}]
  /\ saved \subseteq 0..MaxIssued
  /\ lost \subseteq 0..MaxIssued

\* Every variable stays within its type.
TypeOK == CallersOK /\ ServerOK /\ DiskOK

\* r is dead and what replaced it is not lost: it was saved, or could have been.
Superseded(r) == Spent(r) /\ heir[r] \notin lost

\* AccessToken never presents a refresh token that the endpoint has replaced,
\* unless the answer with the replacement was lost on the wire, in a crash or
\* in a failed save: no queue of callers that find the token expired at once,
\* no login and no logout makes it fall back behind a replacement it received
\* (service.go:191-217).  The one exception is the seed file, which nothing
\* ever rewrites (store.go:148-153).
NoReplay ==
  \A c \in Callers :
    pc[c] = "sent" => \/ ~Superseded(held[c].ref)
                      \/ Seeded /\ held[c].ref = First.ref

\* A token is handed out only after it is on disk: a crash right after the
\* call returns does not lose the session the caller is using
\* (service.go:214-217; the seed counts as disk).
DurableBeforeUse ==
  \A c \in Callers :
    pc[c] = "done" /\ result[c].code = "ok" =>
      \/ result[c].acc \in saved
      \/ Seeded /\ result[c].acc = First.acc

\* No unforced call returns a token that was already expired when it began,
\* however long it queued behind refreshes of other callers
\* (service.go:192-203: the file is read and judged under the mutex).
NeverExpiredOnArrival ==
  \A c \in Callers :
    pc[c] = "done" /\ result[c].code = "ok" => result[c].acc \notin since[c].stale

\* A forced call returns a token issued after the call began, never the one
\* its caller wants to be rid of (service.go:201-217), unless the endpoint
\* answered without an access token.
ForcedIsNew ==
  \A c \in Callers :
    pc[c] = "done" /\ result[c].code = "ok" /\ force[c] /\ result[c].acc # 0
      => result[c].acc > since[c].issued

\* At most one refresh of the process is under way, and its caller holds the
\* mutex (service.go:192-193).
OneAtATime == \A c \in Callers : pc[c] \in InMutex <=> mu = c

Newest(ts) == IF ts.acc > ts.ref THEN ts.acc ELSE ts.ref

\* Tokens on disk are only ever replaced by tokens issued later
\* (service.go:191-218, a read-modify-write of the file).
OnlyNewerTokens ==
  [][Readable(file) /\ file' # file /\ file' # Absent
       => Newest(file') > Newest(file)]_vars

\* Every call of AccessToken returns (or its process dies), although Lock and
\* the file operations ignore the caller's context.
EveryCallReturns == \A c \in Callers : pc[c] = "wait" ~> pc[c] \in {"done", "idle"}
-----------------------------------------------------------------------------
(* What makes the properties inductive *)

\* A caller has tokens in hand only between Load and its return, what the
\* endpoint said only between the answer and its return, and presents no empty
\* refresh token (service.go:194-217).
HandsEmpty ==
  \A c \in Callers :
    /\ pc[c] \notin {"loaded", "sent", "answered"} => held[c] = Empty
    /\ pc[c] # "answered" => answer[c] = Empty
    /\ pc[c] \in {"sent", "answered"} => held[c].ref # 0

\* Nobody has or remembers a token that has not been issued: the callers, ...
IssuedToCallers ==
  \A c \in Callers : /\ held[c].ref <= issued
                     /\ answer[c].ref <= issued
                     /\ since[c].issued <= issued
                     /\ since[c].stale \subseteq stale

\* ... the file, the logins, the endpoint and the histories.
Issued ==
  /\ file # Absent => file.ref <= issued
  /\ \A p \in Logins : cli[p] # Absent => cli[p].ref <= issued
  /\ \A r \in 1..MaxIssued : r > issued => heir[r] = 0
  /\ \A r \in orphans : r <= issued
  /\ \A n \in stale : n <= issued
  /\ \A n \in lost : n <= issued

\* Refresh token r is known to no caller that loaded it, to no request that is
\* still on the wire, and is not in the file, nor is it the seed's.
Unseen(r) ==
  /\ ~Spent(r)
  /\ r \notin orphans
  /\ r # First.ref
  /\ file # Absent => file.ref # r
  /\ \A c \in Callers : held[c].ref # r

\* A refresh token that was issued and has yet to be saved is unseen, and no two
\* processes have the same: nobody can spend it before it reaches the file.
Secret ==
  /\ \A c \in Callers : answer[c].ref # 0 => Unseen(answer[c].ref)
  /\ \A p \in Logins : cli[p] # Absent /\ cli[p].ref # 0 =>
       /\ Unseen(cli[p].ref)
       /\ \A c \in Callers : answer[c].ref # cli[p].ref
       /\ \A q \in Logins \ {p} : cli[q] # Absent => cli[q].ref # cli[p].ref

\* r may be presented without replaying it.
Usable(r) == r = 0 \/ ~Superseded(r) \/ (Seeded /\ r = First.ref)

\* Caller c has the answer that replaced r in its hands.
Replacing(c, r) == pc[c] = "answered" /\ answer[c].ref # 0 /\ heir[r] = answer[c].ref

\* The refresh token in the file is usable, except while the caller in the mutex
\* has its replacement and is about to save it; the refresh token a caller read
\* stays usable until the endpoint replaces it in an answer to that caller.
Current ==
  /\ file # Absent => \/ Usable(file.ref)
                      \/ \E c \in Callers : Replacing(c, file.ref)
  /\ \A c \in Callers : Usable(held[c].ref) \/ Replacing(c, held[c].ref)

ReplayInv == TypeOK /\ OneAtATime /\ HandsEmpty /\ IssuedToCallers /\ Issued
               /\ Secret /\ Current

\* Access token n survives the process.
OnDisk(n) == n \in saved \/ (Seeded /\ n = First.acc)

\* What caller c read is on disk; what the endpoint gave it is newer than its
\* call; what it returned is both, as far as the call asks for it.
Delivers(c) ==
  /\ pc[c] \in {"loaded", "sent", "answered"} => OnDisk(held[c].acc)
  /\ pc[c] = "answered" /\ answer[c].acc # 0 =>
       answer[c].acc > since[c].issued /\ answer[c].acc \notin since[c].stale
  /\ pc[c] = "done" /\ result[c].code = "ok" =>
       /\ OnDisk(result[c].acc)
       /\ result[c].acc \notin since[c].stale
       /\ force[c] /\ result[c].acc # 0 => result[c].acc > since[c].issued

ReturnInv ==
  /\ file # Absent => file.acc \in saved
  /\ \A c \in Callers : Delivers(c)

\* The file holds nothing newer than what was issued, and an answer on its way
\* to the file is newer than the file and the token it was obtained with.
WriterInv ==
  /\ file # Absent => Newest(file) <= issued
  /\ \A c \in Callers : pc[c] = "answered" =>
       /\ held[c].ref < Newest(answer[c])
       /\ Newest(answer[c]) <= issued
       /\ file # Absent => Newest(file) < Newest(answer[c])
=============================================================================
