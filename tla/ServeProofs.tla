---------------------------- MODULE ServeProofs ----------------------------
(***************************************************************************)
(* Theorems about the life of a process, for every configuration, token    *)
(* file, operator and moment of a signal: nothing is served without a      *)
(* session, the code that was pasted is the one that is exchanged, and     *)
(* what is accepted as a configuration works.                              *)
(*                                                                         *)
(* main does not say by which way it got to the listener; that every way   *)
(* there went through a session is SessionInv.  Nor does it say where the  *)
(* code and the configuration came from; that is OriginInv.                *)
(***************************************************************************)
EXTENDS Serve, SequenceFacts

\* From the moment startup is over, also while the goroutines are started and
\* the listener is not there yet, there has been a session; and the listener is
\* open only then (run.go:80-122).
SessionInv ==
  /\ server = "listening" => main \in {"serving", "exited"}
  /\ main \in {"start", "listen", "serving"} \/ server = "listening" =>
       (AutoLogin => logins)

\* A step that leaves what the process was started as alone asks for the same.
LEMMA SameAutoLogin == invoked' = invoked /\ app' = app => (AutoLogin' <=> AutoLogin)
BY DEF AutoLogin

\* The commands other than serve never come near the listener; the App is built
\* before anything else.
LEMMA CommandKeeps == ASSUME SessionInv, Command PROVE SessionInv'
<1>1. CASE Usage
  BY <1>1, SameAutoLogin DEF Usage, Exit, background, others, SessionInv
<1>2. CASE Validate
  BY <1>2, SameAutoLogin DEF Validate, Exit, background, others, SessionInv
<1>3. CASE ConfigureFails
  BY <1>3, SameAutoLogin DEF ConfigureFails, Exit, background, others, SessionInv
<1>4. CASE Configure
  <2>1. main' \in {"login", "status", "logout", "inspect"}
    BY <1>4 DEF Configure, NeedApp
  <2>2. server' # "listening"
    BY <1>4 DEF Configure, others, SessionInv
  <2>. QED
    BY <2>1, <2>2 DEF SessionInv
<1>5. CASE Status
  BY <1>5, SameAutoLogin DEF Status, Exit, background, others, SessionInv
<1>6. CASE Logout
  BY <1>6, SameAutoLogin DEF Logout, Exit, background, others, SessionInv
<1>. QED
  BY <1>1, <1>2, <1>3, <1>4, <1>5, <1>6 DEF Command

\* Startup goes on to start only with a session, or if it is told not to log in.
LEMMA StartupKeeps == ASSUME SessionInv, Startup PROVE SessionInv'
<1>1. CASE Inspect
  BY <1>1, SameAutoLogin DEF Inspect, Exit, background, others, SessionInv
<1>2. CASE SessionOK
  BY <1>2, SameAutoLogin DEF SessionOK, background, others, SessionInv
<1>3. CASE SessionFails
  BY <1>3, SameAutoLogin DEF SessionFails, background, others, SessionInv
<1>4. CASE SkipLogin
  BY <1>4, SameAutoLogin DEF SkipLogin, background, others, SessionInv
<1>5. CASE StartGoroutines
  BY <1>5, SameAutoLogin DEF StartGoroutines, started, SessionInv
<1>6. CASE Listen
  BY <1>6, SameAutoLogin DEF Listen, started, SessionInv
<1>7. CASE ListenFails
  BY <1>7, SameAutoLogin DEF ListenFails, Exit, background, others, SessionInv
<1>. QED
  BY <1>1, <1>2, <1>3, <1>4, <1>5, <1>6, <1>7 DEF Startup

\* A login that succeeds is a session, one that fails ends the process.
LEMMA LoginKeeps ==
  ASSUME SessionInv, LoginFlow \/ Paste \/ PromptEnds PROVE SessionInv'
<1>1. CASE Prepare
  BY <1>1, SameAutoLogin DEF Prepare, Exchange, Exit, background, others, SessionInv
<1>2. CASE Login
  BY <1>2, SameAutoLogin DEF Login, Exit, background, others, SessionInv
<1>3. CASE LoginFails
  BY <1>3, SameAutoLogin DEF LoginFails, Exit, background, others, SessionInv
<1>4. CASE Paste
  BY <1>4, SameAutoLogin DEF Paste, Exchange, background, others, SessionInv
<1>5. CASE PromptEnds
  BY <1>5, SameAutoLogin DEF PromptEnds, Exit, background, others, SessionInv
<1>. QED
  BY <1>1, <1>2, <1>3, <1>4, <1>5 DEF LoginFlow

\* After startup the listener is only closed, and no session is forgotten.
LEMMA ServingKeeps ==
  ASSUME SessionInv,
         \/ Signal \/ BeginShutdown \/ EndShutdown \/ ShutdownTimeout \/ Return
         \/ (\E r \in Requests : Accept(r) \/ Finish(r))
         \/ Tick \/ TickEnds \/ RefresherStops \/ FileChanges
  PROVE  SessionInv'
<1>1. CASE Signal \/ BeginShutdown \/ EndShutdown \/ ShutdownTimeout
  BY <1>1, SameAutoLogin
     DEF Signal, BeginShutdown, EndShutdown, ShutdownTimeout, started, SessionInv
<1>2. CASE Return
  BY <1>2, SameAutoLogin DEF Return, Exit, background, others, SessionInv
<1>3. CASE \E r \in Requests : Accept(r) \/ Finish(r)
  BY <1>3, SameAutoLogin DEF Accept, Finish, started, SessionInv
<1>4. CASE Tick \/ TickEnds \/ RefresherStops
  BY <1>4, SameAutoLogin DEF Tick, TickEnds, RefresherStops, started, SessionInv
<1>5. CASE FileChanges
  BY <1>5, SameAutoLogin DEF FileChanges, process, SessionInv
<1>. QED
  BY <1>1, <1>2, <1>3, <1>4, <1>5

\* Unless it is told not to log in, the process serves nothing before it has had
\* a session: there is no way from the inspection of the file, a failed
\* AccessToken or a failed login to the listener (run.go:80-106).
THEOREM ServesWithSession == Spec => []ServesAuthenticated
<1>1. Init => SessionInv
  BY DEF Init, SessionInv
<1>2. SessionInv /\ [Next]_vars => SessionInv'
  <2>1. CASE Next
    BY <2>1, CommandKeeps, StartupKeeps, LoginKeeps, ServingKeeps DEF Next
  <2>2. CASE UNCHANGED vars
    BY <2>2, SameAutoLogin DEF vars, process, SessionInv
  <2>. QED
    BY <2>1, <2>2
<1>3. SessionInv => ServesAuthenticated
  BY DEF SessionInv, ServesAuthenticated
<1>. QED
  BY <1>1, <1>2, <1>3, PTL DEF Spec

-----------------------------------------------------------------------------
(* The login code *)

\* A part of a sequence and its items.
LEMMA Slice ==
  ASSUME NEW T, NEW s \in Seq(T), NEW a \in 1..(Len(s) + 1), NEW b \in 0..Len(s), a <= b + 1
  PROVE  /\ SubSeq(s, a, b) \in Seq(T) /\ Len(SubSeq(s, a, b)) = b - a + 1
         /\ \A i \in 1..(b - a + 1) : SubSeq(s, a, b)[i] = s[a + i - 1]
<1>1. Len(s) \in Nat
  BY LenProperties
<1>. QED
  BY <1>1, SubSeqProperties

\* The positions of what is left of n items from p on.
LEMMA TailLength ==
  \A n \in Nat : \A p \in 1..n :
    /\ n - p + 1 > 0 /\ 1 \in 1..(n - p + 1) /\ p + 1 - 1 = p
    /\ p = n => n - p + 1 = 1
    /\ p # n => 2 \in 1..(n - p + 1) /\ p + 2 - 1 = p + 1
OBVIOUS

\* A sequence of length 1 is its one item.
LEMMA Single == ASSUME NEW T, NEW s \in Seq(T), Len(s) = 1 PROVE s = <<s[1]>>
OBVIOUS

\* A line up to the first separator,
LEMMA UntilFirst ==
  ASSUME NEW T, NEW line \in Seq(T), NEW S,
         NEW q \in 1..Len(line), line[q] \in S, \A i \in 1..(q - 1) : line[i] \notin S
  PROVE  Until(line, S) = SubSeq(line, 1, q - 1)
<1>. DEFINE I == {i \in 1..Len(line) : line[i] \in S}
<1>1. I # {} /\ q \in I /\ \A i \in I : q <= i
  BY LenProperties
<1>2. \A m \in I : (\A i \in I : m <= i) => m = q
  BY <1>1
<1>3. SelectInSeq(line, LAMBDA t : t \in S) = IF I # {} THEN Min(I) ELSE 0
  BY DEF SelectInSeq
<1>4. Min(I) = q
  BY <1>1, <1>2 DEF Min
<1>5. SelectInSeq(line, LAMBDA t : t \in S) = q
  BY <1>1, <1>3, <1>4
<1>. HIDE DEF I
<1>6. q # 0
  OBVIOUS
<1>7. Until(line, S) = LET first == SelectInSeq(line, LAMBDA t : t \in S) IN
  IF first = 0 THEN line ELSE SubSeq(line, 1, first - 1)
  BY Zenon DEF Until
<1>. QED
  BY <1>5, <1>6, <1>7

\* or all of it if there is none.
LEMMA UntilAbsent ==
  ASSUME NEW T, NEW line \in Seq(T), NEW S, \A i \in 1..Len(line) : line[i] \notin S
  PROVE  Until(line, S) = line
<1>. DEFINE I == {i \in 1..Len(line) : line[i] \in S}
<1>1. I = {}
  OBVIOUS
<1>2. SelectInSeq(line, LAMBDA t : t \in S) = IF I # {} THEN Min(I) ELSE 0
  BY DEF SelectInSeq
<1>3. SelectInSeq(line, LAMBDA t : t \in S) = 0
  BY <1>1, <1>2
<1>. QED
  BY <1>3, Zenon DEF Until

\* A line after the first occurrence of a token,
LEMMA AfterFirst ==
  ASSUME NEW T, NEW line \in Seq(T), NEW token,
         NEW q \in 1..Len(line), line[q] = token, \A i \in 1..(q - 1) : line[i] # token
  PROVE  After(line, token) = SubSeq(line, q + 1, Len(line))
<1>. DEFINE I == {i \in 1..Len(line) : line[i] = token}
<1>1. I # {} /\ q \in I /\ \A i \in I : q <= i
  BY LenProperties
<1>2. \A m \in I : (\A i \in I : m <= i) => m = q
  BY <1>1
<1>3. SelectInSeq(line, LAMBDA t : t = token) = IF I # {} THEN Min(I) ELSE 0
  BY DEF SelectInSeq
<1>4. Min(I) = q
  BY <1>1, <1>2 DEF Min
<1>5. SelectInSeq(line, LAMBDA t : t = token) = q
  BY <1>1, <1>3, <1>4
<1>. HIDE DEF I
<1>6. q # 0
  OBVIOUS
<1>7. After(line, token) = LET first == SelectInSeq(line, LAMBDA t : t = token) IN
  IF first = 0 THEN <<>> ELSE SubSeq(line, first + 1, Len(line))
  BY Zenon DEF After
<1>. QED
  BY <1>5, <1>6, <1>7

\* or nothing if there is none.
LEMMA AfterAbsent ==
  ASSUME NEW T, NEW line \in Seq(T), NEW token, \A i \in 1..Len(line) : line[i] # token
  PROVE  After(line, token) = <<>>
<1>. DEFINE I == {i \in 1..Len(line) : line[i] = token}
<1>1. I = {}
  OBVIOUS
<1>2. SelectInSeq(line, LAMBDA t : t = token) = IF I # {} THEN Min(I) ELSE 0
  BY DEF SelectInSeq
<1>3. SelectInSeq(line, LAMBDA t : t = token) = 0
  BY <1>1, <1>2
<1>. QED
  BY <1>3, Zenon DEF After

\* There is nothing before or after anything in the empty line.
LEMMA NothingLeft == ASSUME NEW S, NEW token PROVE Until(<<>>, S) = <<>> /\ After(<<>>, token) = <<>>
<1>1. <<>> \in Seq({}) /\ Len(<<>>) = 0
  BY EmptySeq
<1>2. \A i \in 1..Len(<<>>) : <<>>[i] \notin S /\ <<>>[i] # token
  BY <1>1
<1>. QED
  BY <1>1, <1>2, UntilAbsent, AfterAbsent

\* A line has a first of the separators in it, or none.
LEMMA FirstOrAbsent ==
  ASSUME NEW T, NEW line \in Seq(T), NEW S
  PROVE  \/ \A i \in 1..Len(line) : line[i] \notin S
         \/ \E q \in 1..Len(line) : line[q] \in S /\ \A i \in 1..(q - 1) : line[i] \notin S
<1>. DEFINE I == {i \in 1..Len(line) : line[i] \in S}
<1>. SUFFICES ASSUME I # {}
     PROVE  \E q \in 1..Len(line) : line[q] \in S /\ \A i \in 1..(q - 1) : line[i] \notin S
  OBVIOUS
<1>1. PICK q \in I : \A i \in I : q <= i
  <2>1. I \subseteq Nat
    OBVIOUS
  <2>. HIDE DEF I
  <2>. QED
    BY <2>1, Least
<1>2. Len(line) \in Nat
  BY LenProperties
<1>3. ASSUME NEW i \in 1..(q - 1) PROVE line[i] \notin S
  <2>1. i \in 1..Len(line) /\ ~(q <= i)
    BY <1>2
  <2>. QED
    BY <1>1, <2>1
<1>. QED
  BY <1>3

\* What is before the separator is one token if the second of the line is one.
LEMMA OneToken ==
  ASSUME NEW T, NEW line \in Seq(T), NEW S, Len(line) > 0, line[1] \notin S,
         Len(line) = 1 \/ line[2] \in S
  PROVE  Until(line, S) = <<line[1]>>
<1>1. Len(line) \in Nat
  BY LenProperties
<1>2. CASE Len(line) = 1
  <2>1. Until(line, S) = line
    BY <1>2, UntilAbsent
  <2>. QED
    BY <1>2, <2>1
<1>3. CASE Len(line) > 1 /\ line[2] \in S
  <2>1. 2 \in 1..Len(line) /\ \A i \in 1..(2 - 1) : line[i] \notin S
    BY <1>1, <1>3
  <2>2. Until(line, S) = SubSeq(line, 1, 2 - 1)
    BY <1>3, <2>1, UntilFirst
  <2>3. 1 \in 1..(Len(line) + 1) /\ 1 \in 0..Len(line)
    BY <1>1, <1>3
  <2>4. /\ SubSeq(line, 1, 1) \in Seq(T) /\ Len(SubSeq(line, 1, 1)) = 1
        /\ SubSeq(line, 1, 1)[1] = line[1]
    BY <2>3, Slice
  <2>5. SubSeq(line, 1, 1) = <<SubSeq(line, 1, 1)[1]>>
    BY <2>4, Single
  <2>. QED
    BY <2>2, <2>4, <2>5
<1>4. Len(line) = 1 \/ Len(line) > 1
  <2>1. \A k \in Nat : k > 0 => k = 1 \/ k > 1
    OBVIOUS
  <2>. QED
    BY <1>1, <2>1
<1>. QED
  BY <1>2, <1>3, <1>4

\* The query of an address has the code or no parameter "code".
LEMMA QueryCodeIs ==
  ASSUME NEW T, NEW line \in Seq(T), NEW p \in 1..Len(line),
         line[p] \notin {"?", "&", "#", "code="},
         \A i \in 1..Len(line) : line[i] = "code=" <=> i = p - 1,
         p = Len(line) \/ line[p + 1] \in {"&", "#"}
  PROVE  QueryCode(line) \in {<<>>, <<line[p]>>}
<1>. DEFINE base  == Until(line, {"#"})
            query == After(base, "?")
            value == After(query, "code=")
<1>1. Len(line) \in Nat
  BY LenProperties
<1>2. PICK n \in 0..Len(line) :
        /\ base = SubSeq(line, 1, n)
        /\ n = Len(line) \/ line[n + 1] = "#"
        /\ \A i \in 1..n : line[i] # "#"
  <2>1. CASE \A i \in 1..Len(line) : line[i] \notin {"#"}
    <3>1. base = SubSeq(line, 1, Len(line))
      BY <2>1, UntilAbsent, SubSeqFull
    <3>. QED
      BY <1>1, <2>1, <3>1
  <2>2. CASE \E q \in 1..Len(line) : line[q] \in {"#"} /\ \A i \in 1..(q - 1) : line[i] \notin {"#"}
    <3>1. PICK q \in 1..Len(line) : line[q] \in {"#"} /\ \A i \in 1..(q - 1) : line[i] \notin {"#"}
      BY <2>2
    <3>2. base = SubSeq(line, 1, q - 1)
      BY <3>1, UntilFirst
    <3>3. q - 1 \in 0..Len(line) /\ (q - 1) + 1 = q
      BY <1>1
    <3>. QED
      BY <3>1, <3>2, <3>3
  <2>. QED
    BY <2>1, <2>2, FirstOrAbsent
<1>3. base \in Seq(T) /\ Len(base) = n /\ \A i \in 1..n : base[i] = line[i]
  BY <1>1, <1>2
<1>. HIDE DEF base
<1>4. query = <<>> \/ \E r \in 1..n : query = SubSeq(base, r + 1, n) /\ line[r] = "?"
  <2>1. CASE \A i \in 1..Len(base) : base[i] \notin {"?"}
    BY <1>3, <2>1, AfterAbsent
  <2>2. CASE \E q \in 1..Len(base) : base[q] \in {"?"} /\ \A i \in 1..(q - 1) : base[i] \notin {"?"}
    BY <1>3, <2>2, AfterFirst
  <2>. QED
    BY <2>1, <2>2, <1>3, FirstOrAbsent
<1>5. QueryCode(line) = Until(value, {"&"})
  BY DEF QueryCode, base
<1>6. CASE query = <<>>
  <2>1. value = <<>>
    BY <1>6, NothingLeft
  <2>2. Until(<<>>, {"&"}) = <<>>
    BY NothingLeft
  <2>. QED
    BY <1>5, <2>1, <2>2
<1>7. CASE \E r \in 1..n : query = SubSeq(base, r + 1, n) /\ line[r] = "?"
  <2>1. PICK r \in 1..n : query = SubSeq(base, r + 1, n) /\ line[r] = "?"
    BY <1>7
  <2>2. query \in Seq(T) /\ Len(query) = n - r /\ \A i \in 1..(n - r) : query[i] = line[r + i]
    <3>1. /\ r + 1 \in 1..(Len(base) + 1) /\ n \in 0..Len(base) /\ r + 1 <= n + 1
          /\ n - (r + 1) + 1 = n - r
      BY <1>1, <1>3
    <3>. HIDE DEF query, value
    <3>2. /\ query \in Seq(T) /\ Len(query) = n - r
          /\ \A i \in 1..(n - r) : query[i] = base[(r + 1) + i - 1]
      BY <1>3, <2>1, <3>1, Slice
    <3>3. \A i \in 1..(n - r) : (r + 1) + i - 1 = r + i /\ r + i \in 1..n
      BY <1>1
    <3>. QED
      BY <1>3, <3>2, <3>3
  <2>. HIDE DEF query
  <2>3. CASE r + 1 <= p - 1 /\ p - 1 <= n
    <3>0. DEFINE q == (p - 1) - r
    <3>1. q \in 1..Len(query)
      BY <1>1, <2>2, <2>3
    <3>2. query[q] = "code="
      <4>1. query[q] = line[r + q] /\ r + q = p - 1 /\ p - 1 \in 1..Len(line)
        BY <1>1, <2>2, <3>1, <2>3
      <4>. QED
        BY <4>1
    <3>3. ASSUME NEW i \in 1..(q - 1) PROVE query[i] # "code="
      <4>1. query[i] = line[r + i] /\ r + i # p - 1 /\ r + i \in 1..Len(line)
        BY <1>1, <2>2, <3>1, <2>3
      <4>. QED
        BY <4>1
    <3>4. value = SubSeq(query, q + 1, Len(query))
      <4>. HIDE DEF q
      <4>. QED
        BY <2>2, <3>1, <3>2, <3>3, AfterFirst
    <3>5. p <= n
      BY <1>1, <1>2, <2>3
    <3>6. value \in Seq(T) /\ Len(value) = n - p + 1 /\ \A i \in 1..(n - p + 1) : value[i] = query[q + i]
      <4>1. /\ q + 1 \in 1..(Len(query) + 1) /\ Len(query) \in 0..Len(query)
            /\ q + 1 <= Len(query) + 1 /\ Len(query) - (q + 1) + 1 = n - p + 1
        BY <1>1, <2>2, <2>3, <3>1, <3>5
      <4>2. \A i \in 1..(n - p + 1) : (q + 1) + i - 1 = q + i
        BY <1>1, <3>1
      <4>. HIDE DEF q, value
      <4>3. /\ SubSeq(query, q + 1, Len(query)) \in Seq(T)
            /\ Len(SubSeq(query, q + 1, Len(query))) = n - p + 1
            /\ \A i \in 1..(n - p + 1) : SubSeq(query, q + 1, Len(query))[i] = query[(q + 1) + i - 1]
        <5>1. query \in Seq(T) /\ q + 1 \in 1..(Len(query) + 1)
              /\ Len(query) \in 0..Len(query) /\ q + 1 <= Len(query) + 1
          BY <2>2, <4>1
        <5>2. /\ SubSeq(query, q + 1, Len(query)) \in Seq(T)
              /\ Len(SubSeq(query, q + 1, Len(query))) = Len(query) - (q + 1) + 1
              /\ \A i \in 1..(Len(query) - (q + 1) + 1) :
                   SubSeq(query, q + 1, Len(query))[i] = query[(q + 1) + i - 1]
          BY <5>1, Slice
        <5>. QED
          BY <4>1, <5>2
      <4>. QED
        BY <3>4, <4>2, <4>3
    <3>7. value[1] = line[p]
      <4>1. 1 \in 1..(n - p + 1) /\ q + 1 \in 1..(n - r) /\ r + (q + 1) = p
        BY <1>1, <2>3, <3>5
      <4>. QED
        BY <2>2, <3>6, <4>1
    <3>8. Len(value) = 1 \/ value[2] \in {"&"}
      <4>. HIDE DEF value
      <4>1. CASE p = n
        <5>1. n - p + 1 = 1
          BY <1>1, <4>1
        <5>. QED
          BY <3>6, <5>1
      <4>2. CASE p # n
        <5>1. 2 \in 1..(n - p + 1) /\ q + 2 \in 1..(n - r) /\ r + (q + 2) = p + 1 /\ p + 1 \in 1..n
          BY <1>1, <2>3, <3>5, <4>2
        <5>2. value[2] = line[p + 1]
          BY <2>2, <3>6, <5>1
        <5>3. p # Len(line) /\ line[p + 1] # "#"
          BY <1>1, <1>2, <5>1
        <5>. QED
          BY <5>2, <5>3
      <4>. QED
        BY <4>1, <4>2
    <3>. HIDE DEF value
    <3>9. Len(value) > 0 /\ value[1] \notin {"&"}
      BY <1>1, <3>5, <3>6, <3>7
    <3>10. Until(value, {"&"}) = <<value[1]>>
      BY <3>6, <3>8, <3>9, OneToken
    <3>. QED
      BY <1>5, <3>7, <3>10
  <2>4. CASE ~(r + 1 <= p - 1 /\ p - 1 <= n)
    <3>1. ASSUME NEW i \in 1..Len(query) PROVE query[i] # "code="
      <4>1. query[i] = line[r + i] /\ r + i \in 1..Len(line) /\ r + i # p - 1
        BY <1>1, <2>2, <2>4
      <4>. QED
        BY <4>1
    <3>2. value = <<>>
      BY <2>2, <3>1, AfterAbsent
    <3>3. Until(<<>>, {"&"}) = <<>>
      BY NothingLeft
    <3>. QED
      BY <1>5, <3>2, <3>3
  <2>. QED
    BY <2>3, <2>4
<1>. QED
  BY <1>4, <1>6, <1>7

\* Of a line with the code in one of the documented forms normalizeCode leaves the
\* code (run.go:244-264).
LEMMA CodeAlone ==
  ASSUME NEW T, NEW line \in Seq(T), NEW token, token \notin {"?", "&", "#", "code="},
         CarriesCode(line, token)
  PROVE  NormalizeCode(line) = <<token>>
<1>1. Len(line) \in Nat /\ DOMAIN line = 1..Len(line)
  BY LenProperties
<1>2. PICK p \in 1..Len(line) :
        /\ line[p] = token
        /\ \A i \in 1..Len(line) : line[i] = "code=" <=> i = p - 1
        /\ p = Len(line) \/ line[p + 1] \in {"&", "#"}
  BY <1>1 DEF CarriesCode
<1>3. QueryCode(line) \in {<<>>, <<token>>}
  BY <1>2, QueryCodeIs
<1>. DEFINE rest == IF Holds(line, "code=") THEN After(line, "code=") ELSE line
<1>4. NormalizeCode(line) = IF QueryCode(line) # <<>> THEN QueryCode(line)
                            ELSE Until(rest, {"&", "#"})
  BY DEF NormalizeCode
<1>5. rest = SubSeq(line, p, Len(line))
  <2>1. CASE p = 1
    <3>1. ~Holds(line, "code=")
      BY <1>1, <1>2, <2>1 DEF Holds
    <3>. QED
      BY <2>1, <3>1, SubSeqFull
  <2>2. CASE p > 1
    <3>0. p - 1 \in 1..Len(line) /\ \A i \in 1..((p - 1) - 1) : i \in 1..Len(line) /\ i # p - 1
      BY <1>1, <2>2
    <3>1. p - 1 \in 1..Len(line) /\ line[p - 1] = "code="
      BY <1>2, <3>0
    <3>2. \A i \in 1..((p - 1) - 1) : line[i] # "code="
      BY <1>2, <3>0
    <3>3. After(line, "code=") = SubSeq(line, (p - 1) + 1, Len(line))
      BY <3>1, <3>2, AfterFirst
    <3>4. Holds(line, "code=")
      BY <1>1, <3>1 DEF Holds
    <3>. QED
      BY <1>1, <3>3, <3>4
  <2>. QED
    BY <1>1, <2>1, <2>2
<1>. HIDE DEF rest
<1>6. /\ rest \in Seq(T) /\ Len(rest) = Len(line) - p + 1
      /\ \A i \in 1..(Len(line) - p + 1) : rest[i] = line[p + i - 1]
  <2>1. /\ p \in 1..(Len(line) + 1) /\ Len(line) \in 0..Len(line) /\ p <= Len(line) + 1
    BY <1>1
  <2>. QED
    BY <1>5, <2>1, Slice
<1>7. Len(rest) > 0 /\ rest[1] = token
  <2>1. 1 \in 1..(Len(line) - p + 1) /\ p + 1 - 1 = p /\ Len(rest) > 0
    BY <1>1, <1>6, TailLength
  <2>. QED
    BY <1>2, <1>6, <2>1
<1>8. Len(rest) = 1 \/ rest[2] \in {"&", "#"}
  <2>1. CASE p = Len(line)
    BY <1>6, <2>1, TailLength, <1>1
  <2>2. CASE p # Len(line)
    <3>1. 2 \in 1..(Len(line) - p + 1) /\ p + 2 - 1 = p + 1
      BY <1>1, <2>2, TailLength
    <3>. QED
      BY <1>2, <1>6, <2>2, <3>1
  <2>. QED
    BY <2>1, <2>2
<1>9. Until(rest, {"&", "#"}) = <<token>>
  <2>1. rest[1] \notin {"&", "#"}
    BY <1>7
  <2>. QED
    BY <1>6, <1>7, <1>8, <2>1, OneToken
<1>. QED
  BY <1>3, <1>4, <1>9

-----------------------------------------------------------------------------
(* Types, and what the command, its configuration and the code say *)

\* What is exchanged comes from the line; the configuration stays the one the
\* process was started with; config validate says 0 only to a valid one.
OriginInv ==
  /\ main = "exchange" => code = NormalizeCode(pasted)
  /\ cfg = WithFlags(ConfigFromEnv(invoked.env), invoked.flags)
  /\ invoked.command = "validate" =>
       main \in {"configure", "exited"} /\ (exit = "0" => Valid(cfg))

\* The commands.
LEMMA CommandTyped == ASSUME TypeOK, OriginInv, Command PROVE TypeOK' /\ OriginInv'
<1>1. CASE Usage
  BY <1>1 DEF Usage, Exit, background, others, TypeOK, Main, OriginInv
<1>2. CASE Validate
  BY <1>2 DEF Validate, Exit, background, others, TypeOK, Main, OriginInv
<1>3. CASE ConfigureFails
  BY <1>3 DEF ConfigureFails, NeedApp, Exit, background, others, TypeOK, Main, OriginInv
<1>4. CASE Configure
  <2>1. main' \in {"login", "status", "logout", "inspect"} /\ invoked.command # "validate"
    BY <1>4 DEF Configure, NeedApp
  <2>2. TypeOK'
    BY <1>4, <2>1 DEF Configure, others, TypeOK, Main
  <2>3. OriginInv'
    BY <1>4, <2>1 DEF Configure, others, OriginInv
  <2>. QED
    BY <2>2, <2>3
<1>5. CASE Status
  BY <1>5 DEF Status, Exit, background, others, TypeOK, Main, OriginInv
<1>6. CASE Logout
  BY <1>6 DEF Logout, Exit, background, others, files, TypeOK, Main, OriginInv
<1>. QED
  BY <1>1, <1>2, <1>3, <1>4, <1>5, <1>6 DEF Command

\* Startup.
LEMMA StartupTyped == ASSUME TypeOK, OriginInv, Startup PROVE TypeOK' /\ OriginInv'
<1>1. CASE Inspect
  BY <1>1 DEF Inspect, Exit, background, others, TypeOK, Main, OriginInv
<1>2. CASE SessionOK
  BY <1>2 DEF SessionOK, background, others, files, TypeOK, Main, OriginInv
<1>3. CASE SessionFails
  BY <1>3 DEF SessionFails, background, others, TypeOK, Main, OriginInv
<1>4. CASE SkipLogin
  BY <1>4 DEF SkipLogin, background, others, TypeOK, Main, OriginInv
<1>5. CASE StartGoroutines
  BY <1>5 DEF StartGoroutines, started, TypeOK, Main, OriginInv
<1>6. CASE Listen
  BY <1>6 DEF Listen, started, TypeOK, Main, OriginInv
<1>7. CASE ListenFails
  BY <1>7 DEF ListenFails, Exit, background, others, TypeOK, Main, OriginInv
<1>. QED
  BY <1>1, <1>2, <1>3, <1>4, <1>5, <1>6, <1>7 DEF Startup

\* The login.
LEMMA LoginTyped ==
  ASSUME TypeOK, OriginInv, LoginFlow \/ Paste \/ PromptEnds PROVE TypeOK' /\ OriginInv'
<1>1. CASE Prepare
  BY <1>1 DEF Prepare, Exchange, Exit, background, others, TypeOK, Main, OriginInv
<1>2. CASE Login
  BY <1>2 DEF Login, Forget, Exit, background, others, files, TypeOK, Main, OriginInv
<1>3. CASE LoginFails
  BY <1>3 DEF LoginFails, Forget, Exit, background, others, TypeOK, Main, OriginInv
<1>4. CASE Paste
  BY <1>4 DEF Paste, Exchange, background, others, TypeOK, Main, OriginInv
<1>5. CASE PromptEnds
  BY <1>5 DEF PromptEnds, Exit, background, others, TypeOK, Main, OriginInv
<1>. QED
  BY <1>1, <1>2, <1>3, <1>4, <1>5 DEF LoginFlow

\* Serving, the signal and the end.
LEMMA ServingTyped ==
  ASSUME TypeOK, OriginInv,
         \/ Signal \/ BeginShutdown \/ EndShutdown \/ ShutdownTimeout \/ Return
         \/ (\E r \in Requests : Accept(r) \/ Finish(r))
         \/ Tick \/ TickEnds \/ RefresherStops \/ FileChanges
  PROVE  TypeOK' /\ OriginInv'
<1>1. CASE Signal \/ BeginShutdown \/ EndShutdown \/ ShutdownTimeout
  <2>1. CASE Signal
    BY <2>1 DEF Signal, started, TypeOK, OriginInv
  <2>2. CASE BeginShutdown
    BY <2>2 DEF BeginShutdown, started, TypeOK, OriginInv
  <2>3. CASE EndShutdown
    BY <2>3 DEF EndShutdown, started, TypeOK, OriginInv
  <2>4. CASE ShutdownTimeout
    BY <2>4 DEF ShutdownTimeout, started, TypeOK, OriginInv
  <2>. QED
    BY <1>1, <2>1, <2>2, <2>3, <2>4
<1>2. CASE Return
  BY <1>2 DEF Return, Exit, background, others, TypeOK, Main, OriginInv
<1>3. CASE \E r \in Requests : Accept(r) \/ Finish(r)
  BY <1>3 DEF Accept, Finish, started, TypeOK, OriginInv
<1>4. CASE Tick \/ TickEnds \/ RefresherStops
  BY <1>4 DEF Tick, TickEnds, RefresherStops, started, files, TypeOK, OriginInv
<1>5. CASE FileChanges
  BY <1>5 DEF FileChanges, process, files, TypeOK, OriginInv
<1>. QED
  BY <1>1, <1>2, <1>3, <1>4, <1>5

\* Types, and where configuration and code come from, in every state.
LEMMA StateTheorem == Spec => [](TypeOK /\ OriginInv)
<1>1. Init => TypeOK /\ OriginInv
  <2>. SUFFICES ASSUME Init PROVE TypeOK /\ OriginInv
    OBVIOUS
  <2>1. invoked \in Invocations /\ invoked.command \in Commands
    BY ServeAssumption DEF Init
  <2>2. DOMAIN cfg = Settings
    BY DEF Init, WithFlags
  <2>3. TypeOK
    BY <2>1, <2>2 DEF Init, TypeOK, Main
  <2>4. OriginInv
    BY DEF Init, OriginInv
  <2>. QED
    BY <2>3, <2>4
<1>2. TypeOK /\ OriginInv /\ [Next]_vars => TypeOK' /\ OriginInv'
  <2>1. ASSUME TypeOK, OriginInv, Next PROVE TypeOK' /\ OriginInv'
    BY <2>1, CommandTyped, StartupTyped, LoginTyped, ServingTyped DEF Next
  <2>2. ASSUME TypeOK, OriginInv, UNCHANGED vars PROVE TypeOK' /\ OriginInv'
    BY <2>2 DEF vars, process, TypeOK, OriginInv
  <2>. QED
    BY <2>1, <2>2
<1>. QED
  BY <1>1, <1>2, PTL DEF Spec

\* Every variable stays within its type (run.go:20-310).
THEOREM TypeCorrect == Spec => []TypeOK
BY StateTheorem, PTL

\* The code alone is exchanged, whatever form it is pasted in (run.go:244-264).
THEOREM PastedCodeIsExchanged == Spec => []PastedCodeArrives
<1>1. TypeOK /\ OriginInv => PastedCodeArrives
  <2>. SUFFICES ASSUME TypeOK, OriginInv, Holds(pasted, Code) PROVE code = <<Code>>
    BY DEF PastedCodeArrives
  <2>1. pasted # <<>>
    <3>1. ~Holds(<<>>, Code)
      BY DEF Holds
    <3>. QED
      BY <3>1
  <2>2. code = NormalizeCode(pasted)
    BY <2>1 DEF TypeOK, OriginInv
  <2>3. pasted \in Lines \cup {i.code : i \in Invocations}
    BY <2>1 DEF TypeOK
  <2>4. pasted \in Seq(STRING) /\ CarriesCode(pasted, Code)
    BY <2>3, ServeAssumption
  <2>5. Code \notin {"?", "&", "#", "code="}
    BY ServeAssumption
  <2>. QED
    BY <2>2, <2>4, <2>5, CodeAlone
<1>. QED
  BY <1>1, StateTheorem, PTL

\* Whatever size Validate lets through, the limit is positive, also when the
\* product wraps around.
LEMMA LimitPositive ==
  ASSUME NEW c, c.MaxRequestBody \in [n : Int, unit : 0..3] PROVE Limit(c) > 0
<1>. DEFINE size == c.MaxRequestBody
            m == Multiplier(size.unit)
            half == Word \div 2
<1>1. Kilo \in Nat /\ Kilo > 0 /\ Word \in Nat /\ Word > 0
  BY ConfigAssumption
<1>2. \A k \in Nat : k > 0 => k * k \in Nat /\ k * k > 0
  OBVIOUS
<1>3. Kilo * Kilo \in Nat /\ Kilo * Kilo > 0
  BY <1>1, <1>2
<1>4. Kilo * Kilo * Kilo \in Int
  BY <1>1, <1>3
<1>5. m \in Int
  BY <1>1, <1>3, <1>4 DEF Multiplier
<1>6. size.n \in Int
  OBVIOUS
<1>7. \A a, b \in Int : a * b \in Int
  OBVIOUS
<1>. HIDE DEF m
<1>8. size.n * m \in Int
  BY <1>5, <1>6, <1>7
<1>9. half \in Int
  BY <1>1
<1>. HIDE DEF half, size
<1>10. (size.n * m + half) % Word \in Int
  <2>1. \A a \in Int : a % Word \in Int
    BY <1>1
  <2>. QED
    BY <1>8, <1>9, <2>1
<1>11. ByteSize(size) \in Int
  <2>1. ByteSize(size) = ((size.n * m + half) % Word) - half
    BY DEF ByteSize, m, half
  <2>. QED
    BY <1>9, <1>10, <2>1
<1>12. 10 * Kilo * Kilo > 0
  <2>1. \A k \in Nat : k > 0 => 10 * k * k = 10 * (k * k)
    OBVIOUS
  <2>. QED
    BY <1>1, <1>3, <2>1
<1>. QED
  BY <1>11, <1>12 DEF Limit, size

\* What config validate accepts, the other commands start with, and the limit, the
\* interval and the skew they work with are positive (config.go:175-236).
THEOREM AcceptedMeansWorking == Spec => []AcceptedSettingsWork
<1>1. TypeOK /\ OriginInv => AcceptedSettingsWork
  <2>. SUFFICES ASSUME TypeOK, OriginInv PROVE AcceptedSettingsWork
    OBVIOUS
  <2>1. ASSUME Valid(cfg)
        PROVE  Builds(cfg) /\ Limit(cfg) > 0 /\ Interval(cfg) > 0 /\ Skew(cfg) > 0
    <3>1. /\ \A s \in Durations : invoked.env[s] \in {Blank, Malformed} \cup Int
          /\ invoked.env.MaxRequestBody \in {Blank, Malformed} \cup [n : Int, unit : 0..3]
          /\ DOMAIN invoked.flags \subseteq {"ListenAddr", "APIKey", "CostTracking"}
      BY ServeAssumption DEF TypeOK
    <3>2. /\ cfg.RefreshSkew = IF invoked.env.RefreshSkew = Blank THEN 300
                               ELSE invoked.env.RefreshSkew
          /\ cfg.RefreshInterval = IF invoked.env.RefreshInterval = Blank THEN 60
                                   ELSE invoked.env.RefreshInterval
          /\ cfg.MaxRequestBody = IF invoked.env.MaxRequestBody = Blank THEN [n |-> 10, unit |-> 2]
                                  ELSE invoked.env.MaxRequestBody
      BY <3>1 DEF OriginInv, WithFlags, ConfigFromEnv, DefaultConfig, Settings, Durations,
                  Switches, Required
    <3>3. /\ cfg.RefreshSkew # Malformed /\ cfg.RefreshInterval # Malformed
          /\ cfg.MaxRequestBody # Malformed
      BY <2>1 DEF Valid, Durations, ParsesSize
    <3>4. cfg.RefreshSkew \in Int /\ cfg.RefreshInterval \in Int
      BY <3>1, <3>2, <3>3 DEF Durations
    <3>5. cfg.MaxRequestBody \in [n : Int, unit : 0..3]
      BY <3>1, <3>2, <3>3
    <3>6. Limit(cfg) > 0
      BY <3>5, LimitPositive
    <3>7. Interval(cfg) > 0 /\ Skew(cfg) > 0
      BY <3>4 DEF Interval, Skew
    <3>. QED
      BY <2>1, <3>6, <3>7 DEF Builds, Valid
  <2>2. invoked.command = "validate" /\ exit = "0" => Valid(cfg)
    BY DEF OriginInv
  <2>3. ASSUME app # NoApp PROVE app.limit > 0 /\ app.interval > 0 /\ app.skew > 0
    <3>1. Valid(cfg) /\ app = NewApp(cfg)
      BY <2>3 DEF TypeOK, Builds
    <3>. QED
      BY <2>1, <3>1 DEF NewApp
  <2>. QED
    BY <2>1, <2>2, <2>3 DEF AcceptedSettingsWork
<1>. QED
  BY <1>1, StateTheorem, PTL
=============================================================================
