-------------------------- MODULE AuthServiceProofs --------------------------
(***************************************************************************)
(* Theorems about AuthService, for any number of callers and logins, any   *)
(* bound on what is issued, with and without a seed file.                  *)
(*                                                                         *)
(* NoReplay is not inductive: that no caller presents a replaced refresh   *)
(* token depends on what the file holds (Current), which depends on nobody *)
(* knowing a token on its way to the file (Secret), which depends on tokens*)
(* being new when they are issued (Issued, IssuedToCallers) and on one     *)
(* caller at a time being in the mutex (OneAtATime).  ReplayInv is all of  *)
(* them together.  ReturnInv rests on it and gives what AccessToken        *)
(* promises about the tokens it returns.                                   *)
(***************************************************************************)
EXTENDS AuthService, TLAPS

-----------------------------------------------------------------------------
(* Types *)

\* The constant token sets are token sets.
LEMMA TokenSets == Empty \in TokenSet /\ First \in TokenSet
BY ConstantsAssumption DEF Empty, First, TokenSet

\* What Load yields is a token set.
LEMMA LoadedType == DiskOK /\ Loadable => Loaded \in TokenSet
BY TokenSets DEF DiskOK, Loaded, Loadable, Readable

\* So is what the endpoint issues,
LEMMA TokensOfType ==
  ASSUME NEW n \in 1..MaxIssued, NEW k PROVE TokensOf(n, k) \in TokenSet
BY ConstantsAssumption DEF TokensOf, TokenSet

\* and what a caller saves.
LEMMA RefreshedType ==
  ASSUME CallersOK, NEW c \in Callers PROVE Refreshed(c) \in TokenSet
BY DEF CallersOK, Refreshed, TokenSet

\* A return keeps the types of the callers' variables.
LEMMA ReturnType ==
  ASSUME CallersOK, NEW c \in Callers, NEW code \in Codes, NEW acc \in 0..MaxIssued,
         Return(c, code, acc)
  PROVE  CallersOK' /\ cli' = cli /\ stale' = stale
<1>1. [code |-> code, acc |-> acc] \in Result
  BY DEF Result
<1>2. result' \in [Callers -> Result]
  BY <1>1 DEF Return, CallersOK
<1>3. held' \in [Callers -> TokenSet] /\ answer' \in [Callers -> TokenSet]
  BY TokenSets DEF Return, CallersOK
<1>. QED
  BY <1>2, <1>3 DEF Return, CallersOK, PC

\* An answer keeps the types of the endpoint's books.
LEMMA IssueType ==
  ASSUME ServerOK, NEW r \in 0..MaxIssued, NEW k, Issue(r, k)
  PROVE  /\ issued' \in 1..MaxIssued
         /\ heir' \in [1..MaxIssued -> 0..MaxIssued]
         /\ issued + 1 \in 1..MaxIssued
         /\ TokensOf(issued + 1, k) \in TokenSet
<1>1. issued + 1 \in 1..MaxIssued
  BY ConstantsAssumption DEF ServerOK, Issue
<1>. QED
  BY <1>1, TokensOfType, ConstantsAssumption DEF ServerOK, Issue

\* The types hold at the start, ...
LEMMA InitType == Init => TypeOK
<1>1. Init => CallersOK
  <2>1. NoResult \in Result /\ [issued |-> 0, stale |-> {}] \in Since
    BY ConstantsAssumption DEF NoResult, Result, Since, Codes
  <2>. QED
    BY <2>1, TokenSets DEF Init, CallersOK, PC
<1>2. Init => ServerOK /\ DiskOK
  BY TokenSets, ConstantsAssumption DEF Init, ServerOK, DiskOK, First
<1>. QED
  BY <1>1, <1>2 DEF TypeOK

\* ... in every step of AccessToken, ...
LEMMA StepType ==
  ASSUME TypeOK, HandsEmpty, NEW c \in Callers, Step(c) PROVE TypeOK'
<1> USE DEF TypeOK, Codes
<1>0. held[c] \in TokenSet /\ answer[c] \in TokenSet
  BY DEF CallersOK
<1>1. held[c].acc \in 0..MaxIssued /\ answer[c].acc \in 0..MaxIssued
      /\ held[c].ref \in 0..MaxIssued /\ answer[c].ref \in 0..MaxIssued
  BY <1>0 DEF TokenSet
<1>2. 0 \in 0..MaxIssued /\ LoadError \in Codes
  BY ConstantsAssumption DEF LoadError
<1>a. CASE Acquire(c)
  BY <1>a DEF Acquire, CallersOK, ServerOK, DiskOK, server, disk, PC, InMutex
<1>b. CASE LoadFails(c)
  <2>1. CallersOK' /\ cli' = cli /\ stale' = stale
    BY <1>b, <1>2, ReturnType DEF LoadFails
  <2>. QED
    BY <1>b, <2>1 DEF LoadFails, ServerOK, DiskOK, server, disk
<1>c. CASE Load(c)
  <2>1. Loaded \in TokenSet
    BY <1>c, LoadedType DEF Load
  <2>. QED
    BY <1>c, <2>1 DEF Load, CallersOK, ServerOK, DiskOK, server, disk, PC, InMutex
<1>d. CASE ReturnSaved(c)
  <2>1. CallersOK' /\ cli' = cli /\ stale' = stale
    BY <1>d, <1>1, ReturnType DEF ReturnSaved
  <2>. QED
    BY <1>d, <2>1 DEF ReturnSaved, ServerOK, DiskOK, server, disk
<1>e. CASE NoRefreshToken(c)
  <2>1. CallersOK' /\ cli' = cli /\ stale' = stale
    BY <1>e, <1>2, ReturnType DEF NoRefreshToken
  <2>. QED
    BY <1>e, <2>1 DEF NoRefreshToken, ServerOK, DiskOK, server, disk
<1>f. CASE Send(c)
  BY <1>f DEF Send, CallersOK, ServerOK, DiskOK, server, disk, PC, InMutex
<1>g. CASE Refused(c)
  <2>1. CallersOK' /\ cli' = cli /\ stale' = stale
    BY <1>g, <1>2, ReturnType DEF Refused
  <2>. QED
    BY <1>g, <2>1 DEF Refused, ServerOK, DiskOK, server, disk
<1>h. CASE GiveUp(c)
  <2>1. CallersOK' /\ cli' = cli /\ stale' = stale
    BY <1>h, <1>2, ReturnType DEF GiveUp
  <2>2. held[c].ref \in 1..MaxIssued
    BY <1>h, <1>1, ConstantsAssumption DEF GiveUp, HandsEmpty
  <2>. QED
    BY <1>h, <2>1, <2>2 DEF GiveUp, ServerOK, DiskOK, disk
<1>i. CASE LoseAnswer(c) \/ SaveFails(c)
  <2>1. CallersOK' /\ cli' = cli /\ stale' = stale
    BY <1>i, <1>2, ReturnType DEF LoseAnswer, SaveFails
  <2>. QED
    BY <1>i, <1>1, <2>1 DEF LoseAnswer, SaveFails, ServerOK, DiskOK, server
<1>j. CASE SaveAndReturn(c)
  <2>1. CallersOK' /\ cli' = cli /\ stale' = stale
    BY <1>j, <1>1, ReturnType DEF SaveAndReturn
  <2>2. Refreshed(c) \in TokenSet /\ Refreshed(c).acc \in 0..MaxIssued
    BY RefreshedType DEF TokenSet
  <2>. QED
    BY <1>j, <2>1, <2>2 DEF SaveAndReturn, Write, ServerOK, DiskOK, server
<1>. QED
  BY <1>a, <1>b, <1>c, <1>d, <1>e, <1>f, <1>g, <1>h, <1>i, <1>j DEF Step

\* ... in every step of the endpoint, the clock, login and logout, ...
LEMMA OutsideType == TypeOK /\ HandsEmpty /\ Outside => TypeOK'
<1> SUFFICES ASSUME TypeOK, HandsEmpty, Outside PROVE TypeOK'
  OBVIOUS
<1> USE DEF TypeOK
<1>1. ASSUME NEW c \in Callers, NEW k \in Answers, Answered(c, k) PROVE TypeOK'
  <2>1. held[c].ref \in 0..MaxIssued
    BY DEF CallersOK, TokenSet
  <2>. QED
    BY <1>1, <2>1, IssueType
    DEF Answered, CallersOK, ServerOK, DiskOK, disk, PC, InMutex
<1>2. ASSUME NEW r \in orphans, NEW k \in Answers, AnswerOrphan(r, k) PROVE TypeOK'
  <2>1. r \in 0..MaxIssued
    BY ConstantsAssumption DEF ServerOK
  <2>2. ServerOK'
    BY <1>2, <2>1, IssueType DEF AnswerOrphan, ServerOK
  <2>3. lost' \subseteq 0..MaxIssued
    <3>1. CASE Issue(r, k) /\ lost' = lost \cup {TokensOf(issued + 1, k).ref}
      <4>1. TokensOf(issued + 1, k).ref \in 0..MaxIssued
        BY <2>1, <3>1, IssueType DEF TokenSet
      <4>. QED
        BY <3>1, <4>1 DEF DiskOK
    <3>2. CASE lost' = lost
      BY <3>2 DEF DiskOK
    <3>. QED
      BY <1>2, <3>1, <3>2 DEF AnswerOrphan
  <2>. QED
    BY <1>2, <2>2, <2>3 DEF AnswerOrphan, CallersOK, DiskOK, caller
<1>3. ASSUME NEW n \in 1..MaxIssued, Expire(n) PROVE TypeOK'
  BY <1>3 DEF Expire, CallersOK, ServerOK, DiskOK, caller, server, disk
<1>4. ASSUME NEW p \in Logins, NEW k \in Answers, LoginExchange(p, k) PROVE TypeOK'
  <2>1. 0 \in 0..MaxIssued
    BY ConstantsAssumption
  <2>. QED
    BY <1>4, <2>1, IssueType DEF LoginExchange, CallersOK, ServerOK, DiskOK, caller, disk
<1>5. ASSUME NEW p \in Logins, LoginSave(p) PROVE TypeOK'
  <2>1. cli[p] \in TokenSet /\ cli[p].acc \in 0..MaxIssued
    BY <1>5 DEF LoginSave, DiskOK, TokenSet
  <2>. QED
    BY <1>5, <2>1 DEF LoginSave, Write, CallersOK, ServerOK, DiskOK, caller, server
<1>6. ASSUME NEW p \in Logins, LoginFails(p) PROVE TypeOK'
  BY <1>6 DEF LoginFails, CallersOK, ServerOK, DiskOK, caller, server, disk
<1>7. CASE Logout
  BY <1>7 DEF Logout, CallersOK, ServerOK, DiskOK, caller, server
<1>. QED
  BY <1>1, <1>2, <1>3, <1>4, <1>5, <1>6, <1>7 DEF Outside

\* ... and when the process dies.
LEMMA CrashType == TypeOK /\ HandsEmpty /\ Crash => TypeOK'
<1> SUFFICES ASSUME TypeOK, HandsEmpty, Crash PROVE TypeOK'
  OBVIOUS
<1>1. CallersOK'
  <2>1. NoResult \in Result /\ [issued |-> 0, stale |-> {}] \in Since
    BY ConstantsAssumption DEF NoResult, Result, Since, Codes
  <2>. QED
    BY <2>1, TokenSets DEF Crash, CallersOK, PC
<1>2. \A c \in Callers : held[c].ref \in 0..MaxIssued /\ answer[c].ref \in 0..MaxIssued
  BY DEF TypeOK, CallersOK, TokenSet
<1>3. \A c \in Callers : pc[c] = "sent" => held[c].ref \in 1..MaxIssued
  BY <1>2, ConstantsAssumption DEF HandsEmpty
<1>4. ServerOK'
  BY <1>3 DEF Crash, TypeOK, ServerOK
<1>5. DiskOK'
  BY <1>2 DEF Crash, TypeOK, DiskOK
<1>. QED
  BY <1>1, <1>4, <1>5 DEF TypeOK

\* The types are kept by every step.
LEMMA TypeStep == TypeOK /\ HandsEmpty /\ [Next]_vars => TypeOK'
<1> SUFFICES ASSUME TypeOK, HandsEmpty, [Next]_vars PROVE TypeOK'
  OBVIOUS
<1>1. ASSUME NEW c \in Callers, NEW f \in BOOLEAN, Call(c, f) PROVE TypeOK'
  <2>1. /\ [issued |-> issued, stale |-> {}] \in Since
        /\ [issued |-> 0, stale |-> stale] \in Since
    BY ConstantsAssumption DEF TypeOK, ServerOK, Since
  <2>. QED
    BY <1>1, <2>1 DEF Call, TypeOK, CallersOK, ServerOK, DiskOK, server, disk, PC
<1>2. ASSUME NEW c \in Callers, Collect(c) PROVE TypeOK'
  <2>1. NoResult \in Result /\ [issued |-> 0, stale |-> {}] \in Since
    BY ConstantsAssumption DEF NoResult, Result, Since, Codes
  <2>. QED
    BY <1>2, <2>1 DEF Collect, TypeOK, CallersOK, ServerOK, DiskOK, server, disk, PC
<1>3. CASE UNCHANGED vars
  BY <1>3 DEF vars, TypeOK, CallersOK, ServerOK, DiskOK
<1>. QED
  BY <1>1, <1>2, <1>3, StepType, OutsideType, CrashType DEF Next

-----------------------------------------------------------------------------
(* The mutex *)

\* Every way out of AccessToken unlocks, and only Acquire locks.
LEMMA MutexStep == TypeOK /\ OneAtATime /\ [Next]_vars => OneAtATime'
<1> SUFFICES ASSUME TypeOK, OneAtATime, [Next]_vars PROVE OneAtATime'
  OBVIOUS
<1> USE ConstantsAssumption DEF TypeOK, CallersOK, OneAtATime, PC, InMutex
<1>1. ASSUME NEW c \in Callers, Acquire(c) PROVE OneAtATime'
  BY <1>1 DEF Acquire
<1>2. ASSUME NEW c \in Callers, Load(c) \/ Send(c) PROVE OneAtATime'
  BY <1>2 DEF Load, Send
<1>3. ASSUME NEW c \in Callers, NEW code, NEW acc, pc[c] \in InMutex, Return(c, code, acc)
      PROVE  OneAtATime'
  BY <1>3 DEF Return
<1>4. ASSUME NEW c \in Callers, Step(c) PROVE OneAtATime'
  BY <1>1, <1>2, <1>3, <1>4
  DEF Step, LoadFails, ReturnSaved, NoRefreshToken, Refused, GiveUp, LoseAnswer,
      SaveFails, SaveAndReturn
<1>5. ASSUME NEW c \in Callers, NEW k \in Answers, Answered(c, k) PROVE OneAtATime'
  BY <1>5 DEF Answered
<1>6. CASE \/ \E r \in orphans, k \in Answers : AnswerOrphan(r, k)
           \/ \E n \in 1..MaxIssued : Expire(n)
           \/ \E p \in Logins, k \in Answers : LoginExchange(p, k)
           \/ \E p \in Logins : LoginSave(p) \/ LoginFails(p)
           \/ Logout
           \/ UNCHANGED vars
  <2>1. UNCHANGED <<pc, mu>>
    BY <1>6 DEF AnswerOrphan, Expire, LoginExchange, LoginSave, LoginFails, Logout,
                caller, vars
  <2>. QED
    BY <2>1
<1>7. ASSUME NEW c \in Callers, NEW f \in BOOLEAN, Call(c, f) PROVE OneAtATime'
  BY <1>7 DEF Call
<1>8. ASSUME NEW c \in Callers, Collect(c) PROVE OneAtATime'
  BY <1>8 DEF Collect
<1>9. CASE Crash
  BY <1>9 DEF Crash
<1>. QED
  BY <1>4, <1>5, <1>6, <1>7, <1>8, <1>9 DEF Next, Outside

\* Load fills a caller's hands and every return empties them.
LEMMA HandsStep == TypeOK /\ HandsEmpty /\ [Next]_vars => HandsEmpty'
<1> SUFFICES ASSUME TypeOK, HandsEmpty, [Next]_vars PROVE HandsEmpty'
  OBVIOUS
<1> USE DEF TypeOK, CallersOK, HandsEmpty
<1>1. ASSUME NEW c \in Callers, Acquire(c) \/ Load(c) \/ Send(c) PROVE HandsEmpty'
  BY <1>1 DEF Acquire, Load, Send
<1>2. ASSUME NEW c \in Callers, NEW code, NEW acc, Return(c, code, acc) PROVE HandsEmpty'
  BY <1>2 DEF Return
<1>3. ASSUME NEW c \in Callers, Step(c) PROVE HandsEmpty'
  BY <1>1, <1>2, <1>3
  DEF Step, LoadFails, ReturnSaved, NoRefreshToken, Refused, GiveUp, LoseAnswer,
      SaveFails, SaveAndReturn
<1>4. ASSUME NEW c \in Callers, NEW k \in Answers, Answered(c, k) PROVE HandsEmpty'
  BY <1>4 DEF Answered
<1>5. CASE \/ \E r \in orphans, k \in Answers : AnswerOrphan(r, k)
           \/ \E n \in 1..MaxIssued : Expire(n)
           \/ \E p \in Logins, k \in Answers : LoginExchange(p, k)
           \/ \E p \in Logins : LoginSave(p) \/ LoginFails(p)
           \/ Logout
           \/ UNCHANGED vars
  <2>1. UNCHANGED <<pc, held, answer>>
    BY <1>5 DEF AnswerOrphan, Expire, LoginExchange, LoginSave, LoginFails, Logout,
                caller, vars
  <2>. QED
    BY <2>1
<1>6. ASSUME NEW c \in Callers, (\E f \in BOOLEAN : Call(c, f)) \/ Collect(c)
      PROVE  HandsEmpty'
  BY <1>6 DEF Call, Collect
<1>7. CASE Crash
  BY <1>7 DEF Crash
<1>. QED
  BY <1>3, <1>4, <1>5, <1>6, <1>7 DEF Next, Outside

-----------------------------------------------------------------------------
(* What a step of AccessToken may touch *)

\* A step of caller c leaves the endpoint's books and the other callers alone,
\* takes tokens in hand only by Load and writes the file only by its save.
LEMMA StepEffect ==
  ASSUME CallersOK, NEW c \in Callers, Step(c)
  PROVE  /\ UNCHANGED <<issued, heir, stale, since, cli>>
         /\ \A d \in Callers : answer'[d] = answer[d] \/ answer'[d] = Empty
         /\ \A d \in Callers : \/ held'[d] = held[d]
                               \/ held'[d] = Empty
                               \/ Load(c) /\ d = c /\ held'[d] = Loaded
         /\ orphans' = orphans \/ orphans' = orphans \cup {held[c].ref}
         /\ file' = file \/ (SaveAndReturn(c) /\ file' = Refreshed(c))
         /\ lost' = lost \/ lost' = lost \cup {answer[c].ref}
<1> USE DEF CallersOK, server, disk
<1>1. CASE Acquire(c)
  BY <1>1 DEF Acquire
<1>2. CASE Load(c)
  BY <1>2 DEF Load
<1>3. CASE Send(c)
  BY <1>3 DEF Send
<1>4. CASE LoadFails(c) \/ ReturnSaved(c) \/ NoRefreshToken(c) \/ Refused(c)
  BY <1>4 DEF LoadFails, ReturnSaved, NoRefreshToken, Refused, Return
<1>5. CASE GiveUp(c)
  BY <1>5 DEF GiveUp, Return
<1>6. CASE LoseAnswer(c) \/ SaveFails(c)
  BY <1>6 DEF LoseAnswer, SaveFails, Return
<1>7. CASE SaveAndReturn(c)
  BY <1>7 DEF SaveAndReturn, Return, Write
<1>. QED
  BY <1>1, <1>2, <1>3, <1>4, <1>5, <1>6, <1>7 DEF Step

\* The refresh tokens anybody holds are numbers.
LEMMA Numbers ==
  ASSUME TypeOK
  PROVE  /\ issued \in Nat /\ issued >= 1 /\ issued <= MaxIssued
         /\ \A c \in Callers : /\ held[c].ref \in 0..MaxIssued
                               /\ answer[c].ref \in 0..MaxIssued
                               /\ since[c].issued \in Nat
         /\ file # Absent => file.ref \in 0..MaxIssued
         /\ \A p \in Logins : cli[p] # Absent => cli[p].ref \in 0..MaxIssued
         /\ Empty.ref = 0 /\ First.ref = 1
<1>1. issued \in Nat /\ issued >= 1 /\ issued <= MaxIssued
  BY ConstantsAssumption DEF TypeOK, ServerOK
<1>2. \A c \in Callers : /\ held[c].ref \in 0..MaxIssued
                         /\ answer[c].ref \in 0..MaxIssued
                         /\ since[c].issued \in Nat
  BY DEF TypeOK, CallersOK, TokenSet, Since
<1>3. /\ file # Absent => file.ref \in 0..MaxIssued
      /\ \A p \in Logins : cli[p] # Absent => cli[p].ref \in 0..MaxIssued
  BY DEF TypeOK, DiskOK, TokenSet
<1>. QED
  BY <1>1, <1>2, <1>3 DEF Empty, First

\* What a caller takes from the file or the seed is a token set that is there.
LEMMA LoadedFrom ==
  ASSUME NEW c \in Callers, Load(c)
  PROVE  \/ Loaded = file /\ file # Absent
         \/ Loaded = First /\ Seeded
<1>1. CASE Readable(file)
  BY <1>1 DEF Loaded, Readable
<1>2. CASE ~Readable(file)
  BY <1>2 DEF Load, Loaded, Loadable
<1>. QED
  BY <1>1, <1>2

\* What a caller saves has the refresh token of the answer, or the one it sent.
LEMMA RefreshedRef ==
  ASSUME TypeOK, NEW c \in Callers
  PROVE  Refreshed(c).ref = IF answer[c].ref = 0 THEN held[c].ref ELSE answer[c].ref
BY DEF Refreshed, TypeOK, CallersOK, TokenSet

-----------------------------------------------------------------------------
(* Only tokens that were issued are about *)

\* A caller receives no token before it is issued.
LEMMA IssuedToCallersStep ==
  TypeOK /\ TypeOK' /\ IssuedToCallers /\ Issued /\ [Next]_vars => IssuedToCallers'
<1> SUFFICES ASSUME TypeOK, TypeOK', IssuedToCallers, Issued, [Next]_vars
             PROVE  IssuedToCallers'
  OBVIOUS
<1>0. /\ issued \in Nat /\ issued >= 1 /\ Empty.ref = 0 /\ First.ref = 1
      /\ \A c \in Callers : since[c].issued \in Nat
  BY Numbers
<1>1. ASSUME issued' \in Nat, issued <= issued', stale \subseteq stale', since' = since,
             \A d \in Callers : held'[d].ref <= issued \/ held'[d] = held[d],
             \A d \in Callers : answer'[d].ref <= issued' \/ answer'[d] = answer[d]
      PROVE  IssuedToCallers'
  <2>1. \A d \in Callers : held'[d].ref \in Nat /\ answer'[d].ref \in Nat
    BY DEF TypeOK, CallersOK, TokenSet
  <2>2. \A d \in Callers : held'[d].ref <= issued /\ since[d].stale \subseteq stale
                           /\ since[d].issued <= issued
    BY <1>1 DEF IssuedToCallers
  <2>3. \A d \in Callers : answer'[d].ref <= issued'
    <3>1. \A d \in Callers : answer'[d] = answer[d] => answer'[d].ref <= issued
      BY DEF IssuedToCallers
    <3>. QED
      BY <1>0, <1>1, <2>1, <3>1
  <2>. QED
    BY <1>0, <1>1, <2>1, <2>2, <2>3 DEF IssuedToCallers
<1>2. ASSUME NEW c \in Callers, Step(c) PROVE IssuedToCallers'
  <2>1. /\ UNCHANGED <<issued, stale, since>>
        /\ \A d \in Callers : answer'[d] = answer[d] \/ answer'[d] = Empty
        /\ \A d \in Callers : \/ held'[d] = held[d]
                              \/ held'[d] = Empty
                              \/ Load(c) /\ held'[d] = Loaded
    BY <1>2, StepEffect DEF TypeOK
  <2>2. Load(c) => Loaded.ref <= issued
    BY <1>0, LoadedFrom DEF Issued
  <2>. QED
    BY <1>0, <1>1, <2>1, <2>2
<1>3. ASSUME NEW c \in Callers, NEW k \in Answers, Answered(c, k) PROVE IssuedToCallers'
  <2>1. issued' = issued + 1 /\ UNCHANGED <<held, since, stale>>
    BY <1>3 DEF Answered, Issue
  <2>2. TokensOf(issued + 1, k).ref <= issued'
    BY <1>0, <2>1 DEF TokensOf
  <2>3. \A d \in Callers : answer'[d] = answer[d] \/ answer'[d] = TokensOf(issued + 1, k)
    BY <1>3 DEF Answered, TypeOK, CallersOK
  <2>. QED
    BY <1>0, <1>1, <2>1, <2>2, <2>3
<1>4. CASE \/ \E r \in orphans, k \in Answers : AnswerOrphan(r, k)
           \/ \E n \in 1..MaxIssued : Expire(n)
           \/ \E p \in Logins, k \in Answers : LoginExchange(p, k)
           \/ \E p \in Logins : LoginSave(p) \/ LoginFails(p)
           \/ Logout
  <2>1. issued' \in {issued, issued + 1} /\ stale \subseteq stale' /\ UNCHANGED caller
    BY <1>4 DEF AnswerOrphan, Expire, LoginExchange, LoginSave, LoginFails, Logout,
                Write, Issue, server, disk
  <2>. QED
    BY <1>0, <1>1, <2>1 DEF caller
<1>5. ASSUME NEW c \in Callers, NEW f \in BOOLEAN, Call(c, f) PROVE IssuedToCallers'
  BY <1>0, <1>5 DEF Call, IssuedToCallers, TypeOK, CallersOK, server
<1>6. ASSUME NEW c \in Callers, Collect(c) PROVE IssuedToCallers'
  BY <1>0, <1>6 DEF Collect, IssuedToCallers, TypeOK, CallersOK, server
<1>7. CASE Crash
  BY <1>0, <1>7 DEF Crash, IssuedToCallers
<1>8. CASE UNCHANGED vars
  BY <1>8 DEF vars, IssuedToCallers
<1>. QED
  BY <1>2, <1>3, <1>4, <1>5, <1>6, <1>7, <1>8 DEF Next, Outside

\* Neither does the file, a login, the endpoint or a history.
LEMMA IssuedStep ==
  TypeOK /\ TypeOK' /\ IssuedToCallers /\ Issued /\ [Next]_vars => Issued'
<1> SUFFICES ASSUME TypeOK, TypeOK', IssuedToCallers, Issued, [Next]_vars PROVE Issued'
  OBVIOUS
<1>0. /\ issued \in Nat /\ issued >= 1
      /\ \A c \in Callers : held[c].ref <= issued /\ answer[c].ref <= issued
  BY Numbers DEF IssuedToCallers
<1>t. /\ heir \in [1..MaxIssued -> 0..MaxIssued]
      /\ orphans \subseteq Nat /\ stale \subseteq Nat /\ lost \subseteq Nat
      /\ file # Absent => file.ref \in Nat
      /\ \A p \in Logins : cli[p] # Absent => cli[p].ref \in Nat
  BY Numbers DEF TypeOK, ServerOK, DiskOK
<1>1. ASSUME NEW c \in Callers, Step(c) PROVE Issued'
  <2>1. /\ UNCHANGED <<issued, heir, stale, since, cli>>
        /\ orphans' = orphans \/ orphans' = orphans \cup {held[c].ref}
        /\ file' = file \/ file' = Refreshed(c)
        /\ lost' = lost \/ lost' = lost \cup {answer[c].ref}
    BY <1>1, StepEffect DEF TypeOK
  <2>2. Refreshed(c).ref <= issued
    BY <1>0, RefreshedRef
  <2>. QED
    BY <1>0, <2>1, <2>2 DEF Issued
<1>2. ASSUME NEW r \in 0..MaxIssued, NEW k, Issue(r, k)
      PROVE  /\ issued' = issued + 1
             /\ TokensOf(issued + 1, k).ref <= issued'
             /\ \A s \in 1..MaxIssued : s > issued' => heir'[s] = 0 \/ s = r
  <2>1. issued' = issued + 1 /\ \A s \in 1..MaxIssued : heir'[s] = heir[s] \/ s = r
    BY <1>2, <1>t DEF Issue
  <2>2. TokensOf(issued + 1, k).ref <= issued'
    BY <1>0, <2>1 DEF TokensOf
  <2>3. \A s \in 1..MaxIssued : s > issued' => s > issued
    BY <1>0, <2>1
  <2>. QED
    BY <2>1, <2>2, <2>3 DEF Issued
<1>3. ASSUME NEW c \in Callers, NEW k \in Answers, Answered(c, k) PROVE Issued'
  <2>1. held[c].ref \in 0..MaxIssued /\ held[c].ref <= issued
    BY <1>0, Numbers
  <2>2. /\ issued' = issued + 1
        /\ \A s \in 1..MaxIssued : s > issued' => heir'[s] = 0 \/ s = held[c].ref
    BY <1>2, <1>3, <2>1 DEF Answered
  <2>3. UNCHANGED <<file, cli, orphans, stale, lost>>
    BY <1>3 DEF Answered, disk
  <2>. QED
    BY <1>0, <1>t, <2>1, <2>2, <2>3 DEF Issued
<1>4. ASSUME NEW r \in orphans, NEW k \in Answers, AnswerOrphan(r, k) PROVE Issued'
  <2>1. r \in 0..MaxIssued /\ r <= issued /\ orphans' = orphans \ {r}
        /\ UNCHANGED <<file, cli, stale>>
    BY <1>4 DEF AnswerOrphan, Issued, TypeOK, ServerOK
  <2>2. CASE Issue(r, k) /\ lost' = lost \cup {TokensOf(issued + 1, k).ref}
    <3>1. /\ issued' = issued + 1
          /\ TokensOf(issued + 1, k).ref <= issued'
          /\ \A s \in 1..MaxIssued : s > issued' => heir'[s] = 0 \/ s = r
      BY <1>2, <2>1, <2>2
    <3>. QED
      BY <1>0, <1>t, <2>1, <2>2, <3>1 DEF Issued
  <2>3. CASE UNCHANGED <<issued, heir, lost>>
    BY <2>1, <2>3 DEF Issued
  <2>. QED
    BY <1>4, <2>2, <2>3 DEF AnswerOrphan
<1>5. ASSUME NEW p \in Logins, NEW k \in Answers, LoginExchange(p, k) PROVE Issued'
  <2>1. /\ issued' = issued + 1
        /\ TokensOf(issued + 1, k).ref <= issued'
        /\ heir' = heir
    BY <1>2, <1>5, ConstantsAssumption DEF LoginExchange, Issue
  <2>2. /\ \A q \in Logins : cli'[q] = cli[q] \/ cli'[q] = TokensOf(issued + 1, k)
        /\ UNCHANGED <<file, orphans, stale, lost>>
    BY <1>5 DEF LoginExchange, disk, TypeOK, DiskOK
  <2>. QED
    BY <1>0, <1>t, <2>1, <2>2 DEF Issued
<1>6. CASE \/ \E n \in 1..MaxIssued : Expire(n)
           \/ \E p \in Logins : LoginSave(p) \/ LoginFails(p)
           \/ Logout
  <2>1. /\ UNCHANGED <<issued, heir, orphans, lost>>
        /\ stale' = stale \/ \E n \in 1..MaxIssued : n <= issued /\ stale' = stale \cup {n}
        /\ \A p \in Logins : cli'[p] = cli[p] \/ cli'[p] = Absent
        /\ \/ file' = file
           \/ file' = Absent
           \/ \E p \in Logins : cli[p] # Absent /\ file' = cli[p]
    BY <1>6 DEF Expire, LoginSave, LoginFails, Logout, Write, server, disk, TypeOK, DiskOK
  <2>. QED
    BY <1>0, <2>1 DEF Issued
<1>7. ASSUME NEW c \in Callers, (\E f \in BOOLEAN : Call(c, f)) \/ Collect(c) PROVE Issued'
  BY <1>7 DEF Call, Collect, Issued, server, disk
<1>8. CASE Crash
  BY <1>0, <1>8 DEF Crash, Issued
<1>9. CASE UNCHANGED vars
  BY <1>9 DEF vars, Issued
<1>. QED
  BY <1>1, <1>3, <1>4, <1>5, <1>6, <1>7, <1>8, <1>9 DEF Next, Outside

-----------------------------------------------------------------------------
(* Tokens on their way to the file are known to nobody else *)

\* Only the caller in the mutex has an answer in its hands.
LEMMA OneAnswer ==
  ASSUME OneAtATime, HandsEmpty, NEW c \in Callers, NEW d \in Callers,
         pc[c] \in InMutex, d # c
  PROVE  pc[d] \notin InMutex /\ answer[d] = Empty /\ held[d] = Empty
BY DEF OneAtATime, HandsEmpty, InMutex

\* A step of AccessToken shows an unseen token to nobody, unless it is the one
\* the caller saves.
LEMMA StepUnseen ==
  ASSUME TypeOK, NEW c \in Callers, Step(c), NEW r \in 1..MaxIssued, Unseen(r),
         SaveAndReturn(c) => answer[c].ref # r
  PROVE  Unseen(r)'
<1>1. heir' = heir
  BY StepEffect DEF TypeOK
<1>2. r \notin orphans'
  BY StepEffect DEF TypeOK, Unseen
<1>3. file' # Absent => file'.ref # r
  <2>1. held[c].ref # r
    BY DEF Unseen
  <2>2. SaveAndReturn(c) => Refreshed(c).ref # r
    BY <2>1, RefreshedRef
  <2>. QED
    BY <2>2, StepEffect DEF TypeOK, Unseen
<1>4. ASSUME NEW d \in Callers PROVE held'[d].ref # r
  <2>1. Load(c) => Loaded.ref # r
    BY LoadedFrom DEF Unseen
  <2>2. Empty.ref # r
    BY Numbers
  <2>3. held'[d] = held[d] \/ held'[d] = Empty \/ (Load(c) /\ held'[d] = Loaded)
    BY StepEffect DEF TypeOK
  <2>. QED
    BY <2>1, <2>2, <2>3 DEF Unseen
<1>. QED
  BY <1>1, <1>2, <1>3, <1>4 DEF Unseen, Spent

\* An answer of the endpoint shows no unseen token to anybody, and what it
\* issues is unseen.
LEMMA IssueUnseen ==
  ASSUME TypeOK, IssuedToCallers, Issued,
         NEW s \in 0..MaxIssued, s \notin 1..MaxIssued \/ ~Unseen(s) \/ heir' = heir,
         NEW k, Issue(s, k), UNCHANGED <<held, file>>, orphans' \subseteq orphans,
         s <= issued
  PROVE  /\ \A r \in 1..MaxIssued : Unseen(r) => Unseen(r)'
         /\ issued + 1 \in 1..MaxIssued
         /\ \A r \in 1..MaxIssued : r = issued + 1 => Unseen(r)'
<1>0. /\ issued \in Nat /\ issued >= 1 /\ First.ref = 1 /\ issued + 1 \in 1..MaxIssued
      /\ heir \in [1..MaxIssued -> 0..MaxIssued]
  BY Numbers, IssueType DEF TypeOK, ServerOK
<1>1. \A r \in 1..MaxIssued : heir'[r] = heir[r] \/ r = s
  BY <1>0 DEF Issue
<1>2. ASSUME NEW r \in 1..MaxIssued, Unseen(r) PROVE Unseen(r)'
  <2>1. heir'[r] = heir[r]
    BY <1>1, <1>2
  <2>. QED
    BY <1>2, <2>1 DEF Unseen, Spent
<1>3. ASSUME NEW r \in 1..MaxIssued, r = issued + 1 PROVE Unseen(r)'
  <2>1. r # s /\ r # First.ref /\ ~(r <= issued)
    BY <1>0, <1>3
  <2>2. heir'[r] = 0
    BY <1>0, <1>1, <1>3, <2>1 DEF Issued
  <2>3. r \notin orphans' /\ (file' # Absent => file'.ref # r)
    BY <2>1 DEF Issued
  <2>4. \A c \in Callers : held'[c].ref # r
    BY <2>1 DEF IssuedToCallers
  <2>. QED
    BY <2>1, <2>2, <2>3, <2>4 DEF Unseen, Spent
<1>. QED
  BY <1>0, <1>2, <1>3

\* What is issued is new to everybody, and reaches the file before it is read.
LEMMA SecretStep == ReplayInv /\ TypeOK' /\ [Next]_vars => Secret'
<1> SUFFICES ASSUME ReplayInv, TypeOK', [Next]_vars PROVE Secret'
  OBVIOUS
<1>0. TypeOK /\ OneAtATime /\ HandsEmpty /\ IssuedToCallers /\ Issued /\ Secret
  BY DEF ReplayInv
<1>n. /\ issued \in Nat /\ Empty.ref = 0
      /\ \A c \in Callers : answer[c].ref \in 0..MaxIssued /\ answer[c].ref <= issued
      /\ \A p \in Logins : cli[p] # Absent =>
           cli[p].ref \in 0..MaxIssued /\ cli[p].ref <= issued
  BY <1>0, Numbers DEF IssuedToCallers, Issued
<1>a. \A c \in Callers, r \in 1..MaxIssued : answer[c].ref = r => Unseen(r)
  BY <1>0, <1>n DEF Secret
<1>l. \A p \in Logins, r \in 1..MaxIssued : cli[p] # Absent /\ cli[p].ref = r =>
        /\ Unseen(r)
        /\ \A c \in Callers : answer[c].ref # r
        /\ \A q \in Logins \ {p} : cli[q] # Absent => cli[q].ref # r
  BY <1>0, <1>n DEF Secret
<1>s. ASSUME \A c \in Callers, r \in 1..MaxIssued : answer'[c].ref = r => Unseen(r)',
             \A p \in Logins, r \in 1..MaxIssued : cli'[p] # Absent /\ cli'[p].ref = r =>
               /\ Unseen(r)'
               /\ \A c \in Callers : answer'[c].ref # r
               /\ \A q \in Logins \ {p} : cli'[q] # Absent => cli'[q].ref # r
      PROVE  Secret'
  <2>1. /\ \A c \in Callers : answer'[c].ref \in 0..MaxIssued
        /\ \A p \in Logins : cli'[p] # Absent => cli'[p].ref \in 0..MaxIssued
    BY DEF TypeOK, CallersOK, DiskOK, TokenSet
  <2>. QED
    BY <1>s, <2>1 DEF Secret
<1>1. ASSUME NEW c \in Callers, Step(c) PROVE Secret'
  <2>1. /\ cli' = cli
        /\ \A d \in Callers : answer'[d] = answer[d] \/ answer'[d] = Empty
        /\ SaveAndReturn(c) => answer'[c] = Empty
    BY <1>0, <1>1, StepEffect DEF TypeOK, SaveAndReturn, Return, CallersOK
  <2>2. ASSUME NEW d \in Callers, NEW r \in 1..MaxIssued, answer'[d].ref = r PROVE Unseen(r)'
    <3>1. answer[d].ref = r
      BY <1>n, <2>1, <2>2
    <3>2. SaveAndReturn(c) => d # c
      BY <1>n, <2>1, <2>2
    <3>3. SaveAndReturn(c) => answer[c].ref # r
      BY <1>0, <1>n, <3>1, <3>2, OneAnswer DEF SaveAndReturn, InMutex, HandsEmpty, OneAtATime
    <3>. QED
      BY <1>0, <1>1, <1>a, <3>1, <3>3, StepUnseen
  <2>3. ASSUME NEW p \in Logins, NEW r \in 1..MaxIssued, cli[p] # Absent, cli[p].ref = r
        PROVE  Unseen(r)' /\ \A d \in Callers : answer'[d].ref # r
    BY <1>0, <1>1, <1>l, <1>n, <2>1, <2>3, StepUnseen
  <2>. QED
    BY <1>l, <1>s, <2>1, <2>2, <2>3
<1>2. ASSUME NEW c \in Callers, NEW k \in Answers, Answered(c, k) PROVE Secret'
  <2>1. /\ Issue(held[c].ref, k) /\ UNCHANGED <<held, file, orphans, cli>>
        /\ \A d \in Callers : answer'[d] = answer[d] \/ answer'[d] = TokensOf(issued + 1, k)
    BY <1>0, <1>2 DEF Answered, disk, TypeOK, CallersOK
  <2>2. held[c].ref \in 0..MaxIssued /\ held[c].ref <= issued /\ ~Unseen(held[c].ref)
    BY <1>0, Numbers DEF IssuedToCallers, Unseen
  <2>3. /\ \A r \in 1..MaxIssued : Unseen(r) => Unseen(r)'
        /\ issued + 1 \in 1..MaxIssued
        /\ \A r \in 1..MaxIssued : r = issued + 1 => Unseen(r)'
    BY <1>0, <2>1, <2>2, IssueUnseen
  <2>4. TokensOf(issued + 1, k).ref \in {0, issued + 1}
    BY DEF TokensOf
  <2>5. \A d \in Callers, r \in 1..MaxIssued : answer'[d].ref = r => Unseen(r)'
    BY <1>a, <2>1, <2>3, <2>4
  <2>6. \A p \in Logins, r \in 1..MaxIssued : cli[p] # Absent /\ cli[p].ref = r =>
          Unseen(r)' /\ \A d \in Callers : answer'[d].ref # r
    BY <1>l, <1>n, <2>1, <2>3, <2>4
  <2>. QED
    BY <1>l, <1>s, <2>1, <2>5, <2>6
<1>3. ASSUME NEW s \in orphans, NEW k \in Answers, AnswerOrphan(s, k) PROVE Secret'
  <2>1. UNCHANGED <<held, answer, file, cli>> /\ orphans' \subseteq orphans
    BY <1>3 DEF AnswerOrphan, caller
  <2>2. s \in 0..MaxIssued /\ s <= issued /\ ~Unseen(s)
    BY <1>0 DEF Unseen, Issued, TypeOK, ServerOK
  <2>3. \A r \in 1..MaxIssued : Unseen(r) => Unseen(r)'
    <3>1. CASE Issue(s, k)
      BY <1>0, <2>1, <2>2, <3>1, IssueUnseen
    <3>2. CASE heir' = heir
      BY <2>1, <3>2 DEF Unseen, Spent
    <3>. QED
      BY <1>3, <3>1, <3>2 DEF AnswerOrphan
  <2>. QED
    BY <1>a, <1>l, <1>s, <2>1, <2>3
<1>4. ASSUME NEW p \in Logins, NEW k \in Answers, LoginExchange(p, k) PROVE Secret'
  <2>1. /\ Issue(0, k) /\ heir' = heir /\ UNCHANGED <<held, answer, file, orphans>>
        /\ cli' = [cli EXCEPT ![p] = TokensOf(issued + 1, k)]
    BY <1>4 DEF LoginExchange, Issue, caller, disk
  <2>2. /\ \A r \in 1..MaxIssued : Unseen(r) => Unseen(r)'
        /\ \A r \in 1..MaxIssued : r = issued + 1 => Unseen(r)'
    BY <1>0, <1>n, <2>1, IssueUnseen, ConstantsAssumption
  <2>3. TokensOf(issued + 1, k).ref \in {0, issued + 1}
    BY DEF TokensOf
  <2>4. cli'[p].ref \in {0, issued + 1} /\ \A q \in Logins \ {p} : cli'[q] = cli[q]
    BY <1>0, <2>1, <2>3 DEF TypeOK, DiskOK
  <2>5. \A q \in Logins \ {p}, r \in 1..MaxIssued : cli[q] # Absent /\ cli[q].ref = r =>
          r <= issued /\ Unseen(r)' /\ cli'[p].ref # r
    BY <1>l, <1>n, <2>2, <2>4
  <2>6. \A q \in Logins, r \in 1..MaxIssued : cli'[q] # Absent /\ cli'[q].ref = r =>
          /\ Unseen(r)'
          /\ \A c \in Callers : answer'[c].ref # r
          /\ \A o \in Logins \ {q} : cli'[o] # Absent => cli'[o].ref # r
    <3>1. ASSUME NEW r \in 1..MaxIssued, cli'[p].ref = r
          PROVE  /\ Unseen(r)'
                 /\ \A c \in Callers : answer'[c].ref # r
                 /\ \A o \in Logins \ {p} : cli'[o] # Absent => cli'[o].ref # r
      BY <1>n, <2>1, <2>2, <2>4, <3>1
    <3>2. ASSUME NEW q \in Logins \ {p}, NEW r \in 1..MaxIssued,
                 cli'[q] # Absent, cli'[q].ref = r
          PROVE  /\ Unseen(r)'
                 /\ \A c \in Callers : answer'[c].ref # r
                 /\ \A o \in Logins \ {q} : cli'[o] # Absent => cli'[o].ref # r
      BY <1>l, <2>1, <2>4, <2>5, <3>2
    <3>. QED
      BY <3>1, <3>2
  <2>. QED
    BY <1>a, <1>s, <2>1, <2>2, <2>6
<1>5. ASSUME NEW p \in Logins, LoginSave(p) \/ LoginFails(p) PROVE Secret'
  <2>1. /\ UNCHANGED <<held, answer, heir, orphans>>
        /\ cli' = [cli EXCEPT ![p] = Absent]
        /\ file' = file \/ (cli[p] # Absent /\ file' = cli[p])
    BY <1>5 DEF LoginSave, LoginFails, Write, caller, server, disk
  <2>2. cli'[p] = Absent /\ \A q \in Logins \ {p} : cli'[q] = cli[q]
    BY <1>0, <2>1 DEF TypeOK, DiskOK
  <2>3. \A r \in 1..MaxIssued :
          Unseen(r) /\ (cli[p] # Absent => cli[p].ref # r) => Unseen(r)'
    BY <2>1 DEF Unseen, Spent
  <2>4. \A c \in Callers, r \in 1..MaxIssued : answer'[c].ref = r => Unseen(r)'
    BY <1>a, <1>l, <2>1, <2>3
  <2>5. \A q \in Logins \ {p}, r \in 1..MaxIssued : cli[q] # Absent /\ cli[q].ref = r =>
          Unseen(r)'
    BY <1>l, <2>3
  <2>. QED
    BY <1>l, <1>s, <2>1, <2>2, <2>4, <2>5
<1>6. CASE \/ \E n \in 1..MaxIssued : Expire(n)
           \/ Logout
           \/ \E c \in Callers, f \in BOOLEAN : Call(c, f)
           \/ \E c \in Callers : Collect(c)
           \/ UNCHANGED vars
  <2>1. UNCHANGED <<held, answer, heir, orphans, cli>> /\ file' \in {file, Absent}
    BY <1>6 DEF Expire, Logout, Call, Collect, vars, caller, server, disk
  <2>2. \A r \in 1..MaxIssued : Unseen(r) => Unseen(r)'
    BY <2>1 DEF Unseen, Spent
  <2>. QED
    BY <1>a, <1>l, <1>s, <2>1, <2>2
<1>7. CASE Crash
  <2>1. /\ UNCHANGED <<heir, file, cli>>
        /\ \A c \in Callers : held'[c].ref = 0 /\ answer'[c].ref = 0
        /\ \A r \in orphans' : r \in orphans \/ \E c \in Callers : held[c].ref = r
    BY <1>7, <1>n DEF Crash
  <2>2. \A r \in 1..MaxIssued : Unseen(r) => Unseen(r)'
    BY <2>1 DEF Unseen, Spent
  <2>. QED
    BY <1>l, <1>s, <2>1, <2>2
<1>. QED
  BY <1>1, <1>2, <1>3, <1>4, <1>5, <1>6, <1>7 DEF Next, Outside

-----------------------------------------------------------------------------
(* The file and its readers fall behind only an answer that is being saved *)

\* What is usable stays usable as long as the endpoint replaces nothing, and
\* what is lost is never found again.
LEMMA UsableKept ==
  ASSUME heir' = heir, lost \subseteq lost', NEW r \in 0..MaxIssued, Usable(r)
  PROVE  Usable(r)'
BY DEF Usable, Superseded, Spent

\* A token set whose refresh token is unseen is usable.
LEMMA UnseenUsable == ASSUME NEW r, Unseen(r) PROVE Usable(r)
BY DEF Unseen, Usable, Superseded

\* The file's refresh token is replaced under the eyes of the caller in the
\* mutex, which saves the replacement, or is known to have lost it.
LEMMA CurrentStep == ReplayInv /\ TypeOK' /\ [Next]_vars => Current'
<1> SUFFICES ASSUME ReplayInv, TypeOK', [Next]_vars PROVE Current'
  OBVIOUS
<1>0. /\ TypeOK /\ OneAtATime /\ HandsEmpty /\ IssuedToCallers /\ Issued /\ Secret
      /\ Current
  BY DEF ReplayInv
<1>n. /\ Empty.ref = 0 /\ Usable(0)' /\ 0 \in 0..MaxIssued
      /\ heir \in [1..MaxIssued -> 0..MaxIssued]
      /\ \A c \in Callers : /\ held[c].ref \in 0..MaxIssued
                            /\ answer[c].ref \in 0..MaxIssued
      /\ file # Absent => file.ref \in 0..MaxIssued
      /\ \A p \in Logins : cli[p] # Absent => cli[p].ref \in 0..MaxIssued
  BY <1>0, Numbers, ConstantsAssumption DEF TypeOK, ServerOK, Usable
<1>u. \A c \in Callers : Usable(held[c].ref) \/ Replacing(c, held[c].ref)
  BY <1>0 DEF Current
<1>f. file # Absent => \/ Usable(file.ref)
                       \/ \E c \in Callers : Replacing(c, file.ref)
  BY <1>0 DEF Current
<1>1. ASSUME NEW c \in Callers, Step(c) PROVE Current'
  <2>0. heir' = heir /\ lost \subseteq lost' /\ (file' = file \/ SaveAndReturn(c))
    BY <1>0, <1>1, StepEffect DEF TypeOK
  <2>1. \A r \in 0..MaxIssued : Usable(r) => Usable(r)'
    BY <2>0, UsableKept
  <2>2. \A d \in Callers \ {c} : pc[d] # "answered" /\ held'[d] = held[d]
    <3>1. pc[c] \in InMutex \/ Acquire(c)
      BY <1>1 DEF Step, LoadFails, Load, ReturnSaved, NoRefreshToken, Send, Refused,
                  GiveUp, LoseAnswer, SaveFails, SaveAndReturn, InMutex
    <3>2. CASE Acquire(c)
      BY <1>0, <3>2, ConstantsAssumption DEF Acquire, OneAtATime, InMutex
    <3>3. CASE pc[c] \in InMutex
      <4>1. \A d \in Callers \ {c} : pc[d] # "answered" /\ held[d] = Empty
        BY <1>0, <3>3, OneAnswer DEF InMutex
      <4>2. \A d \in Callers \ {c} : held'[d] = held[d] \/ held'[d] = Empty
        BY <1>0, <1>1, StepEffect DEF TypeOK
      <4>. QED
        BY <4>1, <4>2
    <3>. QED
      BY <3>1, <3>2, <3>3
  <2>3. \A d \in Callers \ {c}, r \in 0..MaxIssued : held'[d].ref = r => Usable(r)'
    BY <1>u, <2>1, <2>2 DEF Replacing
  <2>s. ASSUME \A r \in 0..MaxIssued : held'[c].ref = r => Usable(r)',
               \A r \in 0..MaxIssued : file' # Absent /\ file'.ref = r => Usable(r)'
        PROVE  Current'
    <3>1. /\ \A d \in Callers : held'[d].ref \in 0..MaxIssued
          /\ file' # Absent => file'.ref \in 0..MaxIssued
      BY DEF TypeOK, CallersOK, DiskOK, TokenSet
    <3>. QED
      BY <2>3, <2>s, <3>1 DEF Current
  <2>4. CASE pc[c] # "answered"
    <3>1. Usable(held[c].ref) /\ (file # Absent => Usable(file.ref))
      BY <1>u, <1>f, <2>2, <2>4 DEF Replacing
    <3>2. Load(c) => Usable(Loaded.ref) /\ Loaded.ref \in 0..MaxIssued
      BY <1>0, <1>n, <3>1, LoadedFrom, Numbers, ConstantsAssumption DEF Usable
    <3>3. held'[c] = held[c] \/ held'[c] = Empty \/ (Load(c) /\ held'[c] = Loaded)
      BY <1>0, <1>1, StepEffect DEF TypeOK
    <3>4. file' = file
      BY <2>0, <2>4 DEF SaveAndReturn
    <3>. QED
      BY <1>n, <2>1, <2>s, <3>1, <3>2, <3>3, <3>4
  <2>5. CASE LoseAnswer(c) \/ SaveFails(c)
    <3>1. held'[c] = Empty /\ file' = file /\ lost' = lost \cup {answer[c].ref}
      BY <1>0, <2>5 DEF LoseAnswer, SaveFails, Return, TypeOK, CallersOK
    <3>2. \A r \in 0..MaxIssued : Replacing(c, r) => Usable(r)'
      BY <2>0, <3>1 DEF Replacing, Usable, Superseded
    <3>. QED
      BY <1>n, <1>f, <2>1, <2>2, <2>s, <3>1, <3>2 DEF Replacing
  <2>6. CASE SaveAndReturn(c)
    <3>1. held'[c] = Empty /\ file' = Refreshed(c)
      BY <1>0, <2>6 DEF SaveAndReturn, Return, Write, TypeOK, CallersOK
    <3>2. CASE answer[c].ref = 0
      BY <1>0, <1>n, <1>u, <2>1, <2>s, <3>1, <3>2, RefreshedRef DEF Replacing
    <3>3. CASE answer[c].ref # 0
      <4>1. Usable(answer[c].ref)
        BY <1>0, <3>3, UnseenUsable DEF Secret
      <4>. QED
        BY <1>0, <1>n, <2>1, <2>s, <3>1, <3>3, <4>1, RefreshedRef
    <3>. QED
      BY <3>2, <3>3
  <2>. QED
    BY <1>1, <2>4, <2>5, <2>6
    DEF Step, Acquire, LoadFails, Load, ReturnSaved, NoRefreshToken, Send, Refused, GiveUp
<1>2. ASSUME NEW c \in Callers, NEW k \in Answers, Answered(c, k) PROVE Current'
  <2>1. /\ pc[c] = "sent" /\ heir[held[c].ref] = 0 /\ UNCHANGED <<held, file, lost>>
        /\ pc' = [pc EXCEPT ![c] = "answered"]
        /\ answer' = [answer EXCEPT ![c] = TokensOf(issued + 1, k)]
        /\ Issue(held[c].ref, k)
    BY <1>2 DEF Answered, Honours, Spent, disk
  <2>2. held[c].ref \in 1..MaxIssued
    BY <1>0, <1>n, <2>1, ConstantsAssumption DEF HandsEmpty
  <2>3. \A d \in Callers, r \in 0..MaxIssued : ~Replacing(d, r)
    BY <1>0, <2>1, OneAnswer DEF Replacing, InMutex
  <2>4. \A r \in 0..MaxIssued : Usable(r) /\ r # held[c].ref => Usable(r)'
    <3>1. \A r \in 1..MaxIssued : r # held[c].ref => heir'[r] = heir[r]
      BY <1>n, <2>1, <2>2 DEF Issue
    <3>. QED
      BY <2>1, <3>1 DEF Usable, Superseded, Spent
  <2>5. Usable(held[c].ref)' \/ Replacing(c, held[c].ref)'
    <3>1. CASE k = Keep
      <4>1. heir' = heir
        BY <2>1, <3>1 DEF Issue
      <4>2. Usable(held[c].ref)
        BY <1>u, <2>1 DEF Replacing
      <4>3. \A r \in 0..MaxIssued : Usable(r) => Usable(r)'
        BY <2>1, <4>1, UsableKept
      <4>. QED
        BY <1>n, <2>1, <4>2, <4>3
    <3>2. CASE k # Keep
      <4>1. heir'[held[c].ref] = issued + 1
        BY <1>n, <2>1, <2>2, <3>2 DEF Issue
      <4>2. answer'[c].ref = issued + 1 /\ pc'[c] = "answered" /\ issued + 1 # 0
        BY <1>0, <2>1, <3>2, Numbers DEF TokensOf, TypeOK, CallersOK
      <4>. QED
        BY <2>1, <4>1, <4>2 DEF Replacing
    <3>. QED
      BY <3>1, <3>2
  <2>6. \A r \in 0..MaxIssued : Usable(r) => Usable(r)' \/ Replacing(c, r)'
    BY <2>1, <2>4, <2>5
  <2>7. \A d \in Callers \ {c} : held[d].ref = 0
    BY <1>0, <1>n, <2>1, OneAnswer DEF InMutex
  <2>8. file' # Absent => \/ Usable(file.ref)'
                          \/ \E d \in Callers : Replacing(d, file.ref)'
    BY <1>f, <1>n, <2>1, <2>3, <2>6
  <2>9. \A d \in Callers : Usable(held[d].ref)' \/ Replacing(d, held[d].ref)'
    BY <1>n, <2>1, <2>5, <2>7
  <2>. QED
    BY <2>8, <2>9 DEF Current
<1>3. ASSUME lost \subseteq lost', UNCHANGED <<pc, held, answer, file>>,
             \A r \in 1..MaxIssued : heir'[r] = heir[r] \/ Usable(r)',
             \A r \in 1..MaxIssued : heir[r] # 0 => heir'[r] = heir[r]
      PROVE  Current'
  <2>1. \A r \in 0..MaxIssued : Usable(r) => Usable(r)'
    BY <1>3, <1>n DEF Usable, Superseded, Spent
  <2>2. \A d \in Callers, r \in 1..MaxIssued : Replacing(d, r) => Replacing(d, r)'
    BY <1>3 DEF Replacing
  <2>. QED
    BY <1>f, <1>n, <1>u, <1>3, <2>1, <2>2 DEF Current
<1>4. ASSUME NEW s \in orphans, NEW k \in Answers, AnswerOrphan(s, k) PROVE Current'
  <2>1. UNCHANGED <<pc, held, answer, file>> /\ s \in 1..MaxIssued
    BY <1>0, <1>4 DEF AnswerOrphan, caller, TypeOK, ServerOK
  <2>2. CASE /\ Honours(s)
             /\ Issue(s, k)
             /\ lost' = lost \cup {TokensOf(issued + 1, k).ref}
    <3>1. \A r \in 1..MaxIssued :
          heir'[r] = heir[r] \/ (r = s /\ k # Keep /\ heir'[r] = issued + 1)
      BY <1>n, <2>1, <2>2 DEF Issue
    <3>2. k # Keep => issued + 1 \in lost'
      BY <2>2 DEF TokensOf
    <3>3. \A r \in 1..MaxIssued : heir'[r] = heir[r] \/ Usable(r)'
      BY <3>1, <3>2 DEF Usable, Superseded
    <3>4. heir[s] = 0
      BY <2>2 DEF Honours, Spent
    <3>. QED
      BY <1>3, <2>1, <2>2, <3>1, <3>3, <3>4
  <2>3. CASE UNCHANGED <<issued, heir, lost>>
    BY <1>3, <2>1, <2>3
  <2>. QED
    BY <1>4, <2>2, <2>3 DEF AnswerOrphan
<1>5. CASE \/ \E n \in 1..MaxIssued : Expire(n)
           \/ \E p \in Logins, k \in Answers : LoginExchange(p, k)
           \/ \E p \in Logins : LoginFails(p)
           \/ UNCHANGED vars
  <2>1. UNCHANGED <<pc, held, answer, file, lost, heir>>
    BY <1>5 DEF Expire, LoginExchange, LoginFails, Issue, vars, caller, server, disk
  <2>. QED
    BY <1>3, <2>1
<1>6. CASE (\E p \in Logins : LoginSave(p)) \/ Logout
  <2>1. /\ UNCHANGED <<pc, held, answer, heir, lost>>
        /\ \/ file' = Absent
           \/ \E p \in Logins : cli[p] # Absent /\ file' = cli[p]
    BY <1>6 DEF LoginSave, Logout, Write, caller, server
  <2>2. \A p \in Logins : cli[p] # Absent => Usable(cli[p].ref)
    BY <1>0, UnseenUsable DEF Secret, Usable
  <2>3. \A r \in 0..MaxIssued : Usable(r) => Usable(r)'
    BY <2>1, UsableKept
  <2>4. \A d \in Callers, r \in 0..MaxIssued : Replacing(d, r) => Replacing(d, r)'
    BY <2>1 DEF Replacing
  <2>5. \A r \in 0..MaxIssued : file' # Absent /\ file'.ref = r => Usable(r)'
    BY <1>n, <2>1, <2>2, <2>3
  <2>6. file' # Absent => file'.ref \in 0..MaxIssued
    BY DEF TypeOK, DiskOK, TokenSet
  <2>. QED
    BY <1>n, <1>u, <2>1, <2>3, <2>4, <2>5, <2>6 DEF Current
<1>7. ASSUME NEW c \in Callers, (\E f \in BOOLEAN : Call(c, f)) \/ Collect(c) PROVE Current'
  <2>1. /\ UNCHANGED <<held, answer, file, heir, lost>>
        /\ pc[c] \in {"idle", "done"} /\ \A d \in Callers \ {c} : pc'[d] = pc[d]
    BY <1>0, <1>7 DEF Call, Collect, server, disk, TypeOK, CallersOK
  <2>2. \A r \in 0..MaxIssued : Usable(r) => Usable(r)'
    BY <2>1, UsableKept
  <2>3. \A d \in Callers, r \in 0..MaxIssued : Replacing(d, r) => Replacing(d, r)'
    BY <2>1 DEF Replacing
  <2>. QED
    BY <1>f, <1>n, <1>u, <2>1, <2>2, <2>3 DEF Current
<1>8. CASE Crash
  <2>1. /\ UNCHANGED <<heir, file>>
        /\ \A d \in Callers : held'[d] = Empty
        /\ lost' = lost \cup {answer[d].ref : d \in {e \in Callers : pc[e] = "answered"}}
    BY <1>8 DEF Crash
  <2>2. \A r \in 0..MaxIssued : Usable(r) => Usable(r)'
    BY <2>1, UsableKept
  <2>3. \A d \in Callers, r \in 0..MaxIssued : Replacing(d, r) => Usable(r)'
    BY <2>1 DEF Replacing, Usable, Superseded
  <2>. QED
    BY <1>f, <1>n, <2>1, <2>2, <2>3 DEF Current
<1>. QED
  BY <1>1, <1>2, <1>4, <1>5, <1>6, <1>7, <1>8 DEF Next, Outside

-----------------------------------------------------------------------------
(* Theorems about the refresh tokens *)

\* At the start nobody has the mutex.
LEMMA MutexInit == Init => OneAtATime
BY ConstantsAssumption DEF Init, OneAtATime, InMutex

\* ReplayInv holds at the start, ...
LEMMA ReplayInit == Init => ReplayInv
<1> SUFFICES ASSUME Init PROVE ReplayInv
  OBVIOUS
<1>1. TypeOK /\ OneAtATime
  BY InitType, MutexInit
<1>2. HandsEmpty
  BY DEF Init, HandsEmpty
<1>3. IssuedToCallers /\ Issued
  BY ConstantsAssumption DEF Init, IssuedToCallers, Issued, Empty, First
<1>4. Secret
  BY DEF Init, Secret, Empty
<1>5. Current
  BY ConstantsAssumption DEF Init, Current, Usable, Superseded, Spent, Empty, First
<1>. QED
  BY <1>1, <1>2, <1>3, <1>4, <1>5 DEF ReplayInv

\* ... and is kept by every step.
LEMMA ReplayStep == ReplayInv /\ [Next]_vars => ReplayInv'
<1> SUFFICES ASSUME ReplayInv, [Next]_vars PROVE ReplayInv'
  OBVIOUS
<1>1. TypeOK'
  BY TypeStep DEF ReplayInv
<1>2. OneAtATime' /\ HandsEmpty'
  BY MutexStep, HandsStep DEF ReplayInv
<1>3. IssuedToCallers' /\ Issued'
  BY <1>1, IssuedToCallersStep, IssuedStep DEF ReplayInv
<1>4. Secret' /\ Current'
  BY <1>1, SecretStep, CurrentStep
<1>. QED
  BY <1>1, <1>2, <1>3, <1>4 DEF ReplayInv

\* The refresh tokens in the file, in the callers' hands, on the wire and on
\* their way to the file are always as ReplayInv says.
THEOREM ReplayInvariant == Spec => []ReplayInv
BY ReplayInit, ReplayStep, PTL DEF Spec

\* Every variable of the session stays within its type.
THEOREM TypeCorrect == Spec => []TypeOK
<1>1. ReplayInv => TypeOK
  BY DEF ReplayInv
<1>. QED
  BY <1>1, ReplayInvariant, PTL

\* AccessToken runs its body for one caller at a time, whatever the number of
\* callers and however calls end (service.go:192-193).
THEOREM MutualExclusion == Spec => []OneAtATime
<1>1. ReplayInv => OneAtATime
  BY DEF ReplayInv
<1>. QED
  BY <1>1, ReplayInvariant, PTL

\* No refresh token whose replacement the process received and did not lose is
\* ever presented again, for any number of callers, logins, logouts, crashes and
\* lost answers (service.go:191-218, store.go:148-153).
THEOREM NeverReplays == Spec => []NoReplay
<1>1. ReplayInv => NoReplay
  BY DEF ReplayInv, Current, HandsEmpty, Usable, Replacing, NoReplay
<1>. QED
  BY <1>1, ReplayInvariant, PTL

-----------------------------------------------------------------------------
(* What AccessToken returns *)

\* A step of one caller leaves what the others read and return alone.
LEMMA StepOthers ==
  ASSUME CallersOK, NEW c \in Callers, Step(c), NEW d \in Callers \ {c}
  PROVE  /\ pc'[d] = pc[d] /\ held'[d] = held[d] /\ answer'[d] = answer[d]
         /\ result'[d] = result[d] /\ force'[d] = force[d] /\ since'[d] = since[d]
<1>1. CASE Acquire(c) \/ Load(c) \/ Send(c)
  BY <1>1 DEF Acquire, Load, Send, CallersOK
<1>2. CASE \/ LoadFails(c) \/ ReturnSaved(c) \/ NoRefreshToken(c) \/ Refused(c)
           \/ GiveUp(c) \/ LoseAnswer(c) \/ SaveFails(c) \/ SaveAndReturn(c)
  BY <1>2 DEF LoadFails, ReturnSaved, NoRefreshToken, Refused, GiveUp, LoseAnswer,
              SaveFails, SaveAndReturn, Return, CallersOK
<1>. QED
  BY <1>1, <1>2 DEF Step

\* A call that fails returns no token.
LEMMA ReturnError ==
  ASSUME CallersOK, NEW c \in Callers, NEW code, code # "ok", Return(c, code, 0)
  PROVE  Delivers(c)'
BY DEF Return, CallersOK, Delivers

\* A caller that is not between Load and its return keeps what it delivers.
LEMMA DeliversKept ==
  ASSUME NEW c \in Callers, Delivers(c), saved \subseteq saved',
         pc'[c] = pc[c], held'[c] = held[c], answer'[c] = answer[c],
         result'[c] = result[c], force'[c] = force[c], since'[c] = since[c]
  PROVE  Delivers(c)'
BY DEF Delivers, OnDisk

\* A returned token was on disk before, or is now, and the file only ever holds
\* tokens that were saved.
LEMMA ReturnStep == ReplayInv /\ TypeOK' /\ ReturnInv /\ [Next]_vars => ReturnInv'
<1> SUFFICES ASSUME ReplayInv, TypeOK', ReturnInv, [Next]_vars PROVE ReturnInv'
  OBVIOUS
<1>0. /\ CallersOK /\ ServerOK /\ DiskOK /\ TypeOK
      /\ file # Absent => file.acc \in saved
      /\ \A c \in Callers : Delivers(c)
  BY DEF ReplayInv, TypeOK, ReturnInv
<1>1. ASSUME NEW c \in Callers, Step(c) PROVE ReturnInv'
  <2>1. saved \subseteq saved' /\ (file' # Absent => file'.acc \in saved')
    <3>1. CASE SaveAndReturn(c)
      BY <3>1 DEF SaveAndReturn, Write
    <3>2. CASE ~SaveAndReturn(c)
      BY <1>0, <1>1, <3>2
      DEF Step, Acquire, LoadFails, Load, ReturnSaved, NoRefreshToken, Send, Refused,
          GiveUp, LoseAnswer, SaveFails, disk
    <3>. QED
      BY <3>1, <3>2
  <2>2. \A d \in Callers \ {c} : Delivers(d)'
    BY <1>0, <1>1, <2>1, StepOthers, DeliversKept
  <2>3. Delivers(c)'
    <3>1. CASE Acquire(c)
      BY <1>0, <3>1 DEF Acquire, Delivers, CallersOK
    <3>2. CASE Load(c)
      <4>1. pc'[c] = "loaded" /\ held'[c] = Loaded
        BY <1>0, <3>2 DEF Load, CallersOK
      <4>2. OnDisk(Loaded.acc)
        BY <1>0, <3>2, LoadedFrom DEF OnDisk
      <4>. QED
        BY <2>1, <4>1, <4>2 DEF Delivers, OnDisk
    <3>3. CASE Send(c)
      BY <1>0, <3>3 DEF Send, Delivers, OnDisk, CallersOK, disk
    <3>4. CASE LoadFails(c) \/ NoRefreshToken(c) \/ Refused(c) \/ GiveUp(c)
               \/ LoseAnswer(c) \/ SaveFails(c)
      BY <1>0, <3>4, ReturnError DEF LoadFails, NoRefreshToken, Refused, GiveUp,
         LoseAnswer, SaveFails, LoadError
    <3>5. CASE ReturnSaved(c)
      <4>1. /\ pc'[c] = "done" /\ result'[c].acc = held[c].acc
            /\ UNCHANGED <<force, since, saved>>
        BY <1>0, <3>5 DEF ReturnSaved, Return, CallersOK, disk
      <4>2. ~force[c] /\ held[c].acc \notin stale /\ OnDisk(held[c].acc)
        BY <1>0, <3>5 DEF ReturnSaved, NeedsRefresh, Expired, Delivers
      <4>3. since[c].stale \subseteq stale
        BY DEF ReplayInv, IssuedToCallers
      <4>. QED
        BY <4>1, <4>2, <4>3 DEF Delivers, OnDisk
    <3>6. CASE SaveAndReturn(c)
      <4>1. /\ pc[c] = "answered" /\ pc'[c] = "done" /\ result'[c].acc = answer[c].acc
            /\ UNCHANGED <<force, since>> /\ Refreshed(c).acc \in saved'
        BY <1>0, <3>6 DEF SaveAndReturn, Return, CallersOK, Write
      <4>2. Refreshed(c).acc = answer[c].acc
        BY <1>0 DEF Refreshed, CallersOK, TokenSet
      <4>3. since[c].stale \subseteq 1..MaxIssued
        BY <1>0 DEF CallersOK, Since
      <4>. QED
        BY <1>0, <4>1, <4>2, <4>3, ConstantsAssumption DEF Delivers, OnDisk
    <3>. QED
      BY <1>1, <3>1, <3>2, <3>3, <3>4, <3>5, <3>6 DEF Step
  <2>. QED
    BY <2>1, <2>2, <2>3 DEF ReturnInv
<1>2. ASSUME NEW c \in Callers, NEW k \in Answers, Answered(c, k) PROVE ReturnInv'
  <2>1. /\ pc[c] = "sent" /\ pc' = [pc EXCEPT ![c] = "answered"]
        /\ answer' = [answer EXCEPT ![c] = TokensOf(issued + 1, k)]
        /\ UNCHANGED <<held, result, force, since, file, saved>>
    BY <1>2 DEF Answered, disk
  <2>2. \A d \in Callers \ {c} : Delivers(d)'
    BY <1>0, <2>1, DeliversKept DEF CallersOK
  <2>3. TokensOf(issued + 1, k).acc \in {0, issued + 1}
    BY DEF TokensOf
  <2>4. since[c].issued <= issued /\ since[c].stale \subseteq stale
    BY DEF ReplayInv, IssuedToCallers
  <2>5. \A n \in stale : n <= issued /\ n \in Nat
    BY <1>0 DEF ReplayInv, Issued, ServerOK
  <2>6. issued \in Nat /\ since[c].issued \in Nat
    BY <1>0, Numbers
  <2>7. issued + 1 > since[c].issued /\ issued + 1 \notin since[c].stale
    BY <2>4, <2>5, <2>6
  <2>8. /\ pc'[c] = "answered" /\ answer'[c].acc \in {0, issued + 1}
        /\ OnDisk(held[c].acc)
    BY <1>0, <2>1, <2>3 DEF CallersOK, Delivers
  <2>9. Delivers(c)'
    BY <2>1, <2>7, <2>8 DEF Delivers, OnDisk
  <2>. QED
    BY <1>0, <2>1, <2>2, <2>9 DEF ReturnInv
<1>3. CASE \/ \E r \in orphans, k \in Answers : AnswerOrphan(r, k)
           \/ \E n \in 1..MaxIssued : Expire(n)
           \/ \E p \in Logins, k \in Answers : LoginExchange(p, k)
           \/ \E p \in Logins : LoginSave(p) \/ LoginFails(p)
           \/ Logout
           \/ UNCHANGED vars
  <2>1. /\ saved \subseteq saved' /\ UNCHANGED caller
        /\ file' # Absent => file'.acc \in saved'
    BY <1>0, <1>3 DEF AnswerOrphan, Expire, LoginExchange, LoginSave, LoginFails, Logout,
       Write, caller, disk, vars
  <2>. QED
    BY <1>0, <2>1, DeliversKept DEF ReturnInv, caller
<1>4. ASSUME NEW c \in Callers, (\E f \in BOOLEAN : Call(c, f)) \/ Collect(c) PROVE ReturnInv'
  <2>1. /\ pc'[c] \in {"wait", "idle"} /\ UNCHANGED <<held, answer, file, saved>>
        /\ \A d \in Callers \ {c} : /\ pc'[d] = pc[d] /\ result'[d] = result[d]
                                    /\ force'[d] = force[d] /\ since'[d] = since[d]
    BY <1>0, <1>4 DEF Call, Collect, disk, CallersOK
  <2>2. \A d \in Callers \ {c} : Delivers(d)'
    BY <1>0, <2>1, DeliversKept
  <2>3. Delivers(c)'
    BY <2>1 DEF Delivers
  <2>. QED
    BY <1>0, <2>1, <2>2, <2>3 DEF ReturnInv
<1>5. CASE Crash
  BY <1>0, <1>5 DEF Crash, ReturnInv, Delivers
<1>. QED
  BY <1>1, <1>2, <1>3, <1>4, <1>5 DEF Next, Outside

\* What is read, obtained and returned is as ReturnInv says.
THEOREM ReturnInvariant == Spec => []ReturnInv
<1>1. Init => ReturnInv
  BY DEF Init, ReturnInv, Delivers
<1>2. ReplayInv /\ ReplayInv' /\ ReturnInv /\ [Next]_vars => ReturnInv'
  BY ReturnStep DEF ReplayInv
<1>. QED
  BY <1>1, <1>2, ReplayInvariant, PTL DEF Spec

\* No token is handed to a caller that is not on disk: a crash after the call
\* does not lose the session (service.go:214-217).
THEOREM TokensAreDurable == Spec => []DurableBeforeUse
<1>1. ReturnInv => DurableBeforeUse
  BY DEF ReturnInv, Delivers, OnDisk, DurableBeforeUse
<1>. QED
  BY <1>1, ReturnInvariant, PTL

\* No call that is not forced returns a token that was expired when the call
\* began, however long the queue for the mutex (service.go:192-203).
THEOREM NoStaleToken == Spec => []NeverExpiredOnArrival
<1>1. ReturnInv => NeverExpiredOnArrival
  BY DEF ReturnInv, Delivers, NeverExpiredOnArrival
<1>. QED
  BY <1>1, ReturnInvariant, PTL

\* A forced call returns a token issued after it began (service.go:201-217).
THEOREM ForcedRefreshIsNew == Spec => []ForcedIsNew
<1>1. ReturnInv => ForcedIsNew
  BY DEF ReturnInv, Delivers, ForcedIsNew
<1>. QED
  BY <1>1, ReturnInvariant, PTL

-----------------------------------------------------------------------------
(* One process writes the file *)

\* The newest token of a token set is a number, and what is saved is as new as
\* the answer it comes from.
LEMMA NewestOfRefreshed ==
  ASSUME TypeOK, NEW c \in Callers, held[c].ref < Newest(answer[c])
  PROVE  Newest(Refreshed(c)) = Newest(answer[c])
<1>1. /\ held[c].ref \in Nat /\ answer[c].acc \in Nat /\ answer[c].ref \in Nat
      /\ Refreshed(c).acc = answer[c].acc
  BY DEF Refreshed, TypeOK, CallersOK, TokenSet
<1>. QED
  BY <1>1, RefreshedRef DEF Newest

\* Without a login beside the process, what it is about to save is newer than
\* what is there.
LEMMA WriterStep ==
  ASSUME Logins = {}, ReplayInv, WriterInv, [Next]_vars
  PROVE  /\ WriterInv'
         /\ file # Absent /\ file' # file /\ file' # Absent => Newest(file') > Newest(file)
<1> DEFINE Ahead == file # Absent /\ file' # file /\ file' # Absent
                      => Newest(file') > Newest(file)
<1>0. /\ TypeOK /\ CallersOK /\ issued \in Nat
      /\ file # Absent => Newest(file) \in Nat /\ Newest(file) <= issued
      /\ \A c \in Callers : /\ Newest(answer[c]) \in Nat
                            /\ held[c].ref \in Nat /\ held[c].ref <= issued
  <2>1. TypeOK
    BY DEF ReplayInv
  <2>2. \A t \in TokenSet : Newest(t) \in Nat
    BY DEF TokenSet, Newest
  <2>3. issued \in Nat /\ \A c \in Callers : held[c].ref \in Nat
    BY <2>1, Numbers
  <2>4. \A c \in Callers : held[c].ref <= issued
    BY DEF ReplayInv, IssuedToCallers
  <2>. QED
    BY <2>1, <2>2, <2>3, <2>4 DEF TypeOK, CallersOK, DiskOK, WriterInv
<1>1. ASSUME NEW c \in Callers, SaveAndReturn(c) PROVE WriterInv' /\ Ahead
  <2>1. /\ pc[c] = "answered" /\ file' = Refreshed(c) /\ issued' = issued
        /\ pc' = [pc EXCEPT ![c] = "done"]
    BY <1>1 DEF SaveAndReturn, Return, Write, server
  <2>2. Newest(file') = Newest(answer[c])
    BY <1>0, <2>1, NewestOfRefreshed DEF WriterInv
  <2>3. \A d \in Callers : pc'[d] # "answered"
    BY <1>0, <2>1, OneAnswer DEF ReplayInv, InMutex, CallersOK
  <2>. QED
    BY <1>0, <2>1, <2>2, <2>3 DEF WriterInv
<1>2. ASSUME NEW c \in Callers, NEW k \in Answers, Answered(c, k) PROVE WriterInv' /\ Ahead
  <2>1. /\ pc' = [pc EXCEPT ![c] = "answered"] /\ issued' = issued + 1
        /\ answer' = [answer EXCEPT ![c] = TokensOf(issued + 1, k)]
        /\ held' = held /\ file' = file /\ pc[c] = "sent"
    BY <1>2 DEF Answered, Issue, disk
  <2>2. \A d \in Callers : pc'[d] = "answered" => d = c
    BY <1>0, <2>1, OneAnswer DEF ReplayInv, InMutex, CallersOK
  <2>3. Newest(TokensOf(issued + 1, k)) = issued + 1
    BY <1>0, ConstantsAssumption DEF TokensOf, Newest, Rotate, Keep, Blank
  <2>4. answer'[c] = TokensOf(issued + 1, k)
    BY <1>0, <2>1 DEF CallersOK
  <2>. QED
    BY <1>0, <2>1, <2>2, <2>3, <2>4 DEF WriterInv
<1>3. ASSUME issued \in Nat, issued' \in Nat, issued <= issued',
             file' = file \/ file' = Absent,
             \A d \in Callers : pc'[d] = "answered" =>
               pc[d] = "answered" /\ held'[d] = held[d] /\ answer'[d] = answer[d]
      PROVE  WriterInv' /\ Ahead
  BY <1>0, <1>3 DEF WriterInv
<1>4. ASSUME NEW c \in Callers, Step(c), ~SaveAndReturn(c) PROVE WriterInv' /\ Ahead
  <2>1. file' = file /\ issued' = issued
    BY <1>0, <1>4, StepEffect
  <2>2. pc'[c] # "answered"
    BY <1>0, <1>4
    DEF Step, Acquire, LoadFails, Load, ReturnSaved, NoRefreshToken, Send, Refused, GiveUp,
        LoseAnswer, SaveFails, Return, CallersOK
  <2>3. \A d \in Callers \ {c} :
          pc'[d] = pc[d] /\ held'[d] = held[d] /\ answer'[d] = answer[d]
    BY <1>0, <1>4, StepOthers
  <2>. QED
    BY <1>0, <1>3, <2>1, <2>2, <2>3
<1>5. CASE \/ \E r \in orphans, k \in Answers : AnswerOrphan(r, k)
           \/ \E n \in 1..MaxIssued : Expire(n)
           \/ Logout
           \/ UNCHANGED vars
  <2>1. /\ UNCHANGED <<pc, held, answer>> /\ issued' \in {issued, issued + 1}
        /\ file' \in {file, Absent}
    BY <1>5 DEF AnswerOrphan, Expire, Logout, Issue, caller, server, disk, vars
  <2>. QED
    BY <1>0, <1>3, <2>1
<1>6. ASSUME NEW c \in Callers, (\E f \in BOOLEAN : Call(c, f)) \/ Collect(c)
      PROVE  WriterInv' /\ Ahead
  <2>1. /\ UNCHANGED <<held, answer, issued, file>> /\ pc'[c] \in {"wait", "idle"}
        /\ \A d \in Callers \ {c} : pc'[d] = pc[d]
    BY <1>0, <1>6 DEF Call, Collect, server, disk, CallersOK
  <2>. QED
    BY <1>0, <1>3, <2>1
<1>7. CASE Crash
  BY <1>0, <1>3, <1>7 DEF Crash
<1>. QED
  BY <1>1, <1>2, <1>4, <1>5, <1>6, <1>7 DEF Next, Outside

\* When no login runs beside the serve process, every token set in the file
\* gives way to a newer one only: the read-modify-write of AccessToken loses no
\* update of its own callers (service.go:191-218).  With a login it does, as
\* the run AuthLoginRace shows.
THEOREM SingleWriter ==
  ASSUME Logins = {} PROVE Spec => OnlyNewerTokens
<1>1. Init => WriterInv
  BY ConstantsAssumption DEF Init, WriterInv, Newest, First
<1>2. /\ ReplayInv /\ WriterInv /\ [Next]_vars => WriterInv'
      /\ ReplayInv /\ WriterInv /\ [Next]_vars =>
           [Readable(file) /\ file' # file /\ file' # Absent
              => Newest(file') > Newest(file)]_vars
  BY WriterStep DEF Readable
<1>. QED
  BY <1>1, <1>2, ReplayInvariant, PTL DEF Spec, OnlyNewerTokens
=============================================================================
