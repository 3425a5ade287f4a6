--------------------------- MODULE SequenceFacts ---------------------------
(***************************************************************************)
(* Facts about sequences that the proofs share: Filter and Total of Loops, *)
(* for sequences of any length, and what they rest on.                     *)
(*                                                                         *)
(* An induction is made over a set: if S contains <<>> (or 0) and is not   *)
(* left by Append (or + 1), it contains every sequence (or number).  This  *)
(* follows from the well-foundedness of the subsets 1..n, by way of a      *)
(* least counterexample; no theorem with an operator as a parameter is     *)
(* used.  A recursive function is chosen by what defines it, so that its   *)
(* equations hold once something is shown to satisfy them: LoopExists.     *)
(***************************************************************************)
EXTENDS Loops, FiniteSetTheorems, SequenceTheorems, WellFoundedInduction, TLAPS

\* A set of natural numbers that is not empty has a smallest.
LEMMA Least ==
  ASSUME NEW T, T \subseteq Nat, T # {}
  PROVE  \E n \in T : \A m \in T : n <= m
<1>. DEFINE Below == {1..n : n \in T}
<1>1. Below \subseteq FiniteSubsetsOf(Nat)
  BY FS_Interval DEF FiniteSubsetsOf
<1>2. IsWellFoundedOn(StrictSubsetOrdering(Nat), FiniteSubsetsOf(Nat))
  BY FS_StrictSubsetOrderingWellFounded
<1>3. PICK x \in Below : \A y \in Below : ~(<<y, x>> \in StrictSubsetOrdering(Nat))
  <2>. Below # {}
    OBVIOUS
  <2>. HIDE DEF Below
  <2>. QED
    BY <1>1, <1>2, WFMin
<1>4. PICK n \in T : x = 1..n
  OBVIOUS
<1>5. ASSUME NEW m \in T, m < n PROVE FALSE
  <2>1. 1..m \in Below
    OBVIOUS
  <2>2. <<1..m, 1..n>> \in StrictSubsetOrdering(Nat)
    BY <1>5 DEF StrictSubsetOrdering
  <2>. QED
    BY <1>3, <1>4, <2>1, <2>2
<1>. QED
  BY <1>5

\* Induction over the natural numbers, for a set of them.
LEMMA NatInductionSet ==
  ASSUME NEW P, 0 \in P, \A n \in Nat : n \in P => n + 1 \in P
  PROVE  Nat \subseteq P
<1>. SUFFICES ASSUME Nat \ P # {} PROVE FALSE
  OBVIOUS
<1>1. PICK n \in Nat \ P : \A m \in Nat \ P : n <= m
  BY Least
<1>2. n - 1 \in Nat /\ n - 1 \in P
  BY <1>1
<1>. QED
  BY <1>1, <1>2

\* Induction over sequences, for a set of them that append does not leave.
LEMMA SeqInductionSet ==
  ASSUME NEW T, NEW P, <<>> \in P,
         \A s \in Seq(T), e \in T : s \in P => Append(s, e) \in P
  PROVE  Seq(T) \subseteq P
<1>. DEFINE N == {n \in Nat : \A s \in Seq(T) : Len(s) = n => s \in P}
<1>1. 0 \in N
  BY EmptySeq
<1>2. ASSUME NEW n \in Nat, n \in N PROVE n + 1 \in N
  <2>. SUFFICES ASSUME NEW s \in Seq(T), Len(s) = n + 1 PROVE s \in P
    OBVIOUS
  <2>1. /\ SubSeq(s, 1, n) \in Seq(T)
        /\ Len(SubSeq(s, 1, n)) = n
        /\ s[n + 1] \in T
    BY SubSeqProperties, ElementOfSeq
  <2>2. s = Append(SubSeq(s, 1, n), s[n + 1])
    BY <2>1
  <2>. QED
    BY <1>2, <2>1, <2>2
<1>3. Nat \subseteq N
  <2>. HIDE DEF N
  <2>. QED
    BY <1>1, <1>2, NatInductionSet
<1>. QED
  BY <1>3, LenProperties

\* A bounded set of natural numbers that is not empty has a greatest.
LEMMA Greatest ==
  ASSUME NEW n \in Nat, NEW T, T \subseteq 0..n, T # {}
  PROVE  \E m \in T : \A k \in T : k <= m
<1>. DEFINE U == {n - k : k \in T}
<1>1. U \subseteq Nat /\ U # {}
  <2>1. \A k \in T : n - k \in Nat
    OBVIOUS
  <2>2. PICK k : k \in T
    OBVIOUS
  <2>. QED
    BY <2>1, <2>2
<1>2. PICK m \in T : \A k \in T : n - m <= n - k
  <2>. HIDE DEF U
  <2>1. PICK u \in U : \A v \in U : u <= v
    BY <1>1, Least
  <2>. QED
    BY <2>1 DEF U
<1>. QED
  BY <1>2

\* A set of positions is finite.
LEMMA Positions ==
  ASSUME NEW n \in Nat, NEW T, T \subseteq 1..n
  PROVE  IsFiniteSet(T)
<1>1. IsFiniteSet(1..n)
  BY FS_Interval
<1>. QED
  BY <1>1, FS_Subset

\* Numbers that are all found in a finite set when d is added are as few.
LEMMA Shift ==
  ASSUME NEW S, NEW T, S \subseteq Int, IsFiniteSet(T), NEW d \in Int,
         \A i \in S : i + d \in T
  PROVE  IsFiniteSet(S) /\ Cardinality(S) <= Cardinality(T)
<1>. DEFINE f == [i \in S |-> i + d]
<1>1. f \in Injection(S, T)
  BY DEF Injection, IsInjective
<1>. QED
  BY <1>1, FS_Injection

\* Concatenation is associative.
LEMMA Associative ==
  ASSUME NEW T
  PROVE  \A s, t, u \in Seq(T) : (s \o t) \o u = s \o (t \o u)
BY ConcatAssociative

\* The prefixes of a concatenation that are at least as long as its first part.
LEMMA PrefixOfConcat ==
  ASSUME NEW T, NEW s \in Seq(T), NEW t \in Seq(T), NEW i \in 0..Len(t)
  PROVE  SubSeq(s \o t, 1, Len(s) + i) = s \o SubSeq(t, 1, i)
<1>1. /\ Len(s) \in Nat /\ Len(t) \in Nat /\ s \o t \in Seq(T)
      /\ Len(s \o t) = Len(s) + Len(t)
      /\ \A j \in 1..(Len(s) + Len(t)) :
           (s \o t)[j] = IF j <= Len(s) THEN s[j] ELSE t[j - Len(s)]
  BY LenProperties, ConcatProperties
<1>2. /\ SubSeq(t, 1, i) \in Seq(T) /\ Len(SubSeq(t, 1, i)) = i
      /\ \A j \in 1..i : SubSeq(t, 1, i)[j] = t[j]
  BY <1>1
<1>. DEFINE l == SubSeq(s \o t, 1, Len(s) + i)
            r == s \o SubSeq(t, 1, i)
<1>3. /\ l \in Seq(T) /\ Len(l) = Len(s) + i
      /\ \A j \in 1..(Len(s) + i) : l[j] = (s \o t)[j]
  BY <1>1
<1>4. /\ r \in Seq(T) /\ Len(r) = Len(s) + i
      /\ \A j \in 1..(Len(s) + i) : r[j] = IF j <= Len(s) THEN s[j] ELSE SubSeq(t, 1, i)[j - Len(s)]
  BY <1>2, ConcatProperties
<1>5. ASSUME NEW j \in 1..(Len(s) + i) PROVE l[j] = r[j]
  <2>1. CASE j <= Len(s)
    BY <1>1, <1>3, <1>4, <2>1
  <2>2. CASE j > Len(s)
    <3>1. j - Len(s) \in 1..i /\ j \in 1..(Len(s) + Len(t))
      BY <1>1, <2>2
    <3>. QED
      BY <1>1, <1>2, <1>3, <1>4, <2>2, <3>1
  <2>. QED
    BY <1>1, <2>1, <2>2
<1>. HIDE DEF l, r
<1>6. l = r
  BY <1>3, <1>4, <1>5, SeqEqual
<1>. QED
  BY <1>6 DEF l, r

-----------------------------------------------------------------------------
(* Loops *)

\* f is what a loop over t that begins with base has after each item.
Runs(f, t, base, step) ==
  f[0] = base /\ \A i \in 1..Len(t) : f[i] = step[<<f[i - 1], t[i]>>]

\* Every loop is well defined.
LEMMA LoopExists ==
  ASSUME NEW T, NEW X, NEW base \in X, NEW step \in [X \X T -> X], NEW s \in Seq(T)
  PROVE  \E f \in [0..Len(s) -> X] : Runs(f, s, base, step)
<1>. DEFINE P == {t \in Seq(T) : \E f \in [0..Len(t) -> X] : Runs(f, t, base, step)}
<1>1. <<>> \in P
  <2>. DEFINE f == [i \in 0..0 |-> base]
  <2>1. f \in [0..Len(<<>>) -> X] /\ Runs(f, <<>>, base, step)
    BY EmptySeq DEF Runs
  <2>. HIDE DEF f
  <2>. QED
    BY <2>1
<1>2. ASSUME NEW t \in Seq(T), NEW e \in T, t \in P PROVE Append(t, e) \in P
  <2>1. PICK f \in [0..Len(t) -> X] : Runs(f, t, base, step)
    BY <1>2
  <2>. DEFINE n == Len(t)
              u == Append(t, e)
              g == [i \in 0..(n + 1) |-> IF i <= n THEN f[i] ELSE step[<<f[n], e>>]]
  <2>2. /\ n \in Nat /\ Len(u) = n + 1 /\ u \in Seq(T)
        /\ u[n + 1] = e /\ \A i \in 1..n : u[i] = t[i]
    BY LenProperties, AppendProperties
  <2>3. \A i \in 0..n : g[i] = f[i] /\ f[i] \in X
    <3>1. \A i \in 0..n : i \in 0..(n + 1) /\ i <= n
      BY <2>2
    <3>. QED
      BY <3>1
  <2>4. g[n + 1] = step[<<f[n], e>>] /\ g[n + 1] \in X
    <3>1. f[n] \in X /\ n + 1 \in 0..(n + 1) /\ ~(n + 1 <= n)
      BY <2>2
    <3>2. g[n + 1] = step[<<f[n], e>>]
      BY <3>1
    <3>. QED
      BY <3>1, <3>2
  <2>5. g \in [0..(n + 1) -> X]
    BY <2>2
  <2>. HIDE DEF g, u
  <2>6. ASSUME NEW i \in 1..(n + 1) PROVE g[i] = step[<<g[i - 1], u[i]>>]
    <3>1. CASE i \in 1..n
      <4>1. i - 1 \in 0..n /\ i \in 0..n
        BY <2>2, <3>1
      <4>2. f[i] = step[<<f[i - 1], t[i]>>]
        BY <2>1, <3>1 DEF Runs
      <4>. QED
        BY <4>1, <4>2, <2>2, <2>3, <3>1
    <3>2. CASE i = n + 1
      BY <2>2, <2>3, <2>4, <3>2
    <3>. QED
      BY <2>2, <3>1, <3>2
  <2>7. g[0] = base
    BY <2>1, <2>2, <2>3 DEF Runs
  <2>8. Runs(g, u, base, step)
    BY <2>2, <2>6, <2>7 DEF Runs
  <2>. QED
    BY <2>2, <2>5, <2>8 DEF u
<1>3. Seq(T) \subseteq P
  <2>. HIDE DEF P
  <2>. QED
    BY <1>1, <1>2, SeqInductionSet
<1>. QED
  BY <1>3

\* One item more is one step more.
LEMMA LoopAppend ==
  ASSUME NEW T, NEW base, NEW step, NEW s \in Seq(T), NEW e \in T
  PROVE  \A f, g : Runs(f, s, base, step) /\ Runs(g, Append(s, e), base, step)
                   => g[Len(Append(s, e))] = step[<<f[Len(s)], e>>]
<1>. SUFFICES ASSUME NEW f, Runs(f, s, base, step), NEW g, Runs(g, Append(s, e), base, step)
              PROVE  g[Len(Append(s, e))] = step[<<f[Len(s)], e>>]
  OBVIOUS
<1>. DEFINE n == Len(s)
            u == Append(s, e)
            P == {i \in Nat : i <= n => g[i] = f[i]}
<1>1. /\ n \in Nat /\ Len(u) = n + 1 /\ u[n + 1] = e /\ \A i \in 1..n : u[i] = s[i]
  BY LenProperties, AppendProperties
<1>. HIDE DEF u
<1>2. 0 \in P
  BY DEF Runs
<1>3. ASSUME NEW i \in Nat, i \in P PROVE i + 1 \in P
  <2>. SUFFICES ASSUME i + 1 <= n PROVE g[i + 1] = f[i + 1]
    OBVIOUS
  <2>1. i + 1 \in 1..n /\ i + 1 \in 1..Len(u) /\ (i + 1) - 1 = i
    BY <1>1
  <2>2. f[i + 1] = step[<<f[i], s[i + 1]>>]
    BY <2>1 DEF Runs
  <2>3. g[i + 1] = step[<<g[i], u[i + 1]>>]
    BY <2>1 DEF Runs, u
  <2>. QED
    BY <1>1, <1>3, <2>1, <2>2, <2>3
<1>4. Nat \subseteq P
  <2>. HIDE DEF P
  <2>. QED
    BY <1>2, <1>3, NatInductionSet
<1>5. g[n] = f[n]
  BY <1>1, <1>4
<1>6. n + 1 \in 1..Len(u) /\ (n + 1) - 1 = n
  BY <1>1
<1>7. g[n + 1] = step[<<g[n], u[n + 1]>>]
  BY <1>6 DEF Runs, u
<1>. QED
  BY <1>1, <1>5, <1>7 DEF u

-----------------------------------------------------------------------------
(* The loop of Filter *)

\* kept is what the loop has appended after each item.
Keeps(kept, s, S) ==
  kept = [i \in 0..Len(s) |->
    IF i = 0 THEN <<>>
    ELSE IF s[i] \in S THEN Append(kept[i - 1], s[i]) ELSE kept[i - 1]]

Kept(s, S) == CHOOSE kept : Keeps(kept, s, S)

\* The loop is well defined.
LEMMA KeptExists ==
  ASSUME NEW T, NEW S, NEW s \in Seq(T)
  PROVE  \E kept : Keeps(kept, s, S)
<1>. DEFINE n == Len(s)
            step == [p \in Seq(T) \X T |-> IF p[2] \in S THEN Append(p[1], p[2]) ELSE p[1]]
<1>1. step \in [Seq(T) \X T -> Seq(T)]
  BY AppendProperties
<1>2. \A a \in Seq(T), e \in T : step[<<a, e>>] = IF e \in S THEN Append(a, e) ELSE a
  OBVIOUS
<1>3. <<>> \in Seq(T) /\ n \in Nat /\ \A i \in 1..n : s[i] \in T
  BY EmptySeq, LenProperties, ElementOfSeq
<1>. HIDE DEF step
<1>4. PICK f \in [0..n -> Seq(T)] : Runs(f, s, <<>>, step)
  BY <1>1, <1>3, LoopExists
<1>5. ASSUME NEW i \in 0..n
      PROVE  f[i] = IF i = 0 THEN <<>> ELSE IF s[i] \in S THEN Append(f[i - 1], s[i]) ELSE f[i - 1]
  <2>1. CASE i = 0
    BY <1>4, <2>1 DEF Runs
  <2>2. CASE i \in 1..n
    <3>1. f[i] = step[<<f[i - 1], s[i]>>]
      BY <1>4, <2>2 DEF Runs
    <3>2. i - 1 \in 0..n /\ i # 0
      BY <1>3, <2>2
    <3>. QED
      BY <1>2, <1>3, <2>2, <3>1, <3>2
  <2>. QED
    BY <1>3, <2>1, <2>2
<1>6. f = [i \in 0..n |-> f[i]]
  OBVIOUS
<1>. HIDE DEF n
<1>7. f = [i \in 0..n |-> IF i = 0 THEN <<>>
               ELSE IF s[i] \in S THEN Append(f[i - 1], s[i]) ELSE f[i - 1]]
  BY <1>5, <1>6
<1>. QED
  BY <1>7 DEF n, Keeps

\* The equations of the loop.
LEMMA KeptDef ==
  ASSUME NEW T, NEW S, NEW s \in Seq(T)
  PROVE  /\ Filter(s, S) = Kept(s, S)[Len(s)]
         /\ Kept(s, S)[0] = <<>>
         /\ \A i \in 1..Len(s) : Kept(s, S)[i] =
              IF s[i] \in S THEN Append(Kept(s, S)[i - 1], s[i]) ELSE Kept(s, S)[i - 1]
<1>1. Filter(s, S) = Kept(s, S)[Len(s)]
  BY DEF Filter, Kept, Keeps
<1>2. Keeps(Kept(s, S), s, S)
  BY KeptExists DEF Kept
<1>3. Len(s) \in Nat
  BY LenProperties
<1>4. 0 \in 0..Len(s) /\ \A i \in 1..Len(s) : i \in 0..Len(s) /\ i # 0
  BY <1>3
<1>. QED
  BY <1>1, <1>2, <1>4 DEF Keeps

\* Filter of nothing.
LEMMA FilterEmpty == ASSUME NEW S PROVE Filter(<<>>, S) = <<>>
<1>1. <<>> \in Seq({}) /\ Len(<<>>) = 0
  BY EmptySeq
<1>2. ASSUME NEW s \in Seq({}), Len(s) = 0 PROVE Filter(s, S) = <<>>
  <2>1. Filter(s, S) = Kept(s, S)[Len(s)] /\ Kept(s, S)[0] = <<>>
    BY KeptDef
  <2>. QED
    BY <1>2, <2>1
<1>. QED
  BY <1>1, <1>2

\* Filter of one item more.
LEMMA FilterAppend ==
  ASSUME NEW T, NEW S, NEW s \in Seq(T), NEW e \in T
  PROVE  Filter(Append(s, e), S) =
           IF e \in S THEN Append(Filter(s, S), e) ELSE Filter(s, S)
<1>. DEFINE n == Len(s)
            u == Append(s, e)
            P == {i \in Nat : i <= n => Kept(u, S)[i] = Kept(s, S)[i]}
<1>1. /\ n \in Nat /\ u \in Seq(T) /\ Len(u) = n + 1
      /\ u[n + 1] = e /\ \A i \in 1..n : u[i] = s[i]
  BY LenProperties, AppendProperties
<1>. HIDE DEF u
<1>2. 0 \in P
  BY <1>1, KeptDef
<1>3. ASSUME NEW i \in Nat, i \in P PROVE i + 1 \in P
  <2>. SUFFICES ASSUME i + 1 <= n PROVE Kept(u, S)[i + 1] = Kept(s, S)[i + 1]
    OBVIOUS
  <2>1. i + 1 \in 1..n /\ i + 1 \in 1..Len(u) /\ (i + 1) - 1 = i
    BY <1>1
  <2>. QED
    BY <1>1, <1>3, <2>1, KeptDef
<1>4. Nat \subseteq P
  <2>. HIDE DEF P
  <2>. QED
    BY <1>2, <1>3, NatInductionSet
<1>5. Kept(u, S)[n] = Filter(s, S)
  BY <1>1, <1>4, KeptDef
<1>6. n + 1 \in 1..Len(u) /\ (n + 1) - 1 = n
  BY <1>1
<1>7. Filter(u, S) = Kept(u, S)[n + 1]
  BY <1>1, KeptDef
<1>8. Kept(u, S)[n + 1] = IF u[n + 1] \in S THEN Append(Kept(u, S)[n], u[n + 1]) ELSE Kept(u, S)[n]
  BY <1>1, <1>6, KeptDef
<1>. QED
  BY <1>1, <1>5, <1>7, <1>8 DEF u

\* Filter keeps items of the sequence, and only those of the set.
LEMMA FilterType ==
  ASSUME NEW T, NEW S, NEW s \in Seq(T)
  PROVE  Filter(s, S) \in Seq(T \cap S) /\ Filter(s, S) \in Seq(T)
<1>. DEFINE P == {t \in Seq(T) : Filter(t, S) \in Seq(T \cap S)}
<1>1. <<>> \in P
  BY FilterEmpty, EmptySeq
<1>2. ASSUME NEW t \in Seq(T), NEW e \in T, t \in P PROVE Append(t, e) \in P
  <2>1. Append(t, e) \in Seq(T)
    BY AppendProperties
  <2>2. CASE e \in S
    <3>1. Append(Filter(t, S), e) \in Seq(T \cap S)
      BY <1>2, <2>2, AppendProperties
    <3>. QED
      BY <2>1, <2>2, <3>1, FilterAppend
  <2>3. CASE e \notin S
    BY <1>2, <2>1, <2>3, FilterAppend
  <2>. QED
    BY <2>2, <2>3
<1>3. Seq(T) \subseteq P
  <2>. HIDE DEF P
  <2>. QED
    BY <1>1, <1>2, SeqInductionSet
<1>4. Filter(s, S) \in Seq(T \cap S)
  BY <1>3
<1>5. T \cap S \subseteq T
  OBVIOUS
<1>6. Filter(s, S) \in Seq(T)
  BY <1>4, <1>5, SeqMonotonic
<1>. QED
  BY <1>4, <1>6

\* Filter distributes over concatenation.
LEMMA FilterConcat ==
  ASSUME NEW T, NEW S, NEW s \in Seq(T), NEW t \in Seq(T)
  PROVE  Filter(s \o t, S) = Filter(s, S) \o Filter(t, S)
<1>. DEFINE P == {u \in Seq(T) : Filter(s \o u, S) = Filter(s, S) \o Filter(u, S)}
<1>. DEFINE F(x) == Filter(x, S)
<1>1. /\ \A x \in Seq(T) : F(x) \in Seq(T)
      /\ \A x \in Seq(T), e \in T : F(Append(x, e)) = IF e \in S THEN Append(F(x), e) ELSE F(x)
      /\ F(<<>>) = <<>>
  BY FilterType, FilterAppend, FilterEmpty
<1>. HIDE DEF F
<1>2. <<>> \in P
  <2>1. s \o <<>> = s /\ F(s) \o <<>> = F(s)
    BY <1>1, ConcatEmptySeq
  <2>. QED
    BY <1>1, <2>1, EmptySeq DEF F
<1>3. ASSUME NEW u \in Seq(T), NEW e \in T, u \in P PROVE Append(u, e) \in P
  <2>1. /\ s \o u \in Seq(T) /\ Append(u, e) \in Seq(T)
        /\ s \o Append(u, e) = Append(s \o u, e)
    BY AppendProperties, ConcatProperties
  <2>2. F(s \o Append(u, e)) = IF e \in S THEN Append(F(s \o u), e) ELSE F(s \o u)
    BY <1>1, <2>1
  <2>3. F(s) \o Append(F(u), e) = Append(F(s) \o F(u), e)
    BY <1>1
  <2>4. F(s \o u) = F(s) \o F(u)
    BY <1>3 DEF F
  <2>5. F(s \o Append(u, e)) = F(s) \o F(Append(u, e))
    BY <1>1, <2>2, <2>3, <2>4
  <2>. QED
    BY <2>1, <2>5 DEF F
<1>4. Seq(T) \subseteq P
  <2>. HIDE DEF P
  <2>. QED
    BY <1>2, <1>3, SeqInductionSet
<1>. QED
  BY <1>4

\* Filter keeps as many items as there are of the set.
LEMMA FilterLen ==
  ASSUME NEW T, NEW S, NEW s \in Seq(T)
  PROVE  /\ IsFiniteSet({i \in 1..Len(s) : s[i] \in S})
         /\ Len(Filter(s, S)) = Cardinality({i \in 1..Len(s) : s[i] \in S})
<1>. DEFINE In(t) == {i \in 1..Len(t) : t[i] \in S}
            P == {t \in Seq(T) : IsFiniteSet(In(t)) /\ Len(Filter(t, S)) = Cardinality(In(t))}
<1>1. <<>> \in P
  <2>1. In(<<>>) = {}
    BY EmptySeq
  <2>. QED
    BY <2>1, FilterEmpty, EmptySeq, FS_EmptySet
<1>2. ASSUME NEW t \in Seq(T), NEW e \in T, t \in P PROVE Append(t, e) \in P
  <2>. DEFINE n == Len(t)
              u == Append(t, e)
  <2>1. /\ n \in Nat /\ u \in Seq(T) /\ Len(u) = n + 1
        /\ u[n + 1] = e /\ \A i \in 1..n : u[i] = t[i]
    BY LenProperties, AppendProperties
  <2>. HIDE DEF u
  <2>2. Filter(t, S) \in Seq(T)
    BY FilterType
  <2>3. CASE e \in S
    <3>1. In(u) = In(t) \cup {n + 1} /\ n + 1 \notin In(t)
      BY <2>1, <2>3
    <3>2. IsFiniteSet(In(u)) /\ Cardinality(In(u)) = Cardinality(In(t)) + 1
      <4>1. IsFiniteSet(In(t))
        BY <1>2
      <4>. HIDE DEF In
      <4>. QED
        BY <3>1, <4>1, FS_AddElement
    <3>3. Filter(u, S) = Append(Filter(t, S), e)
      BY <2>3, FilterAppend DEF u
    <3>4. Len(Filter(u, S)) = Len(Filter(t, S)) + 1
      BY <2>2, <3>3, AppendProperties
    <3>. QED
      BY <1>2, <2>1, <3>2, <3>4 DEF u
  <2>4. CASE e \notin S
    <3>1. In(u) = In(t)
      BY <2>1, <2>4
    <3>2. Filter(u, S) = Filter(t, S)
      BY <2>4, FilterAppend DEF u
    <3>. QED
      BY <1>2, <2>1, <3>1, <3>2 DEF u
  <2>. QED
    BY <2>3, <2>4
<1>3. Seq(T) \subseteq P
  <2>. HIDE DEF P
  <2>. QED
    BY <1>1, <1>2, SeqInductionSet
<1>. QED
  BY <1>3

\* To filter twice is to filter by both sets.
LEMMA FilterTwice ==
  ASSUME NEW T, NEW S, NEW R, NEW s \in Seq(T)
  PROVE  Filter(Filter(s, S), R) = Filter(s, S \cap R)
<1>. DEFINE P == {t \in Seq(T) : Filter(Filter(t, S), R) = Filter(t, S \cap R)}
<1>1. <<>> \in P
  BY FilterEmpty, EmptySeq
<1>2. ASSUME NEW t \in Seq(T), NEW e \in T, t \in P PROVE Append(t, e) \in P
  <2>1. Append(t, e) \in Seq(T) /\ Filter(t, S) \in Seq(T)
    <3>1. Append(t, e) \in Seq(T)
      OBVIOUS
    <3>. QED
      BY <3>1, FilterType
  <2>2. Filter(Append(t, e), S \cap R) =
          IF e \in S \cap R THEN Append(Filter(t, S \cap R), e) ELSE Filter(t, S \cap R)
    BY FilterAppend
  <2>3. CASE e \in S
    <3>1. Filter(Append(t, e), S) = Append(Filter(t, S), e)
      BY <2>3, FilterAppend
    <3>2. Filter(Append(Filter(t, S), e), R) =
            IF e \in R THEN Append(Filter(Filter(t, S), R), e) ELSE Filter(Filter(t, S), R)
      BY <2>1, FilterAppend
    <3>3. Filter(Filter(Append(t, e), S), R) = Filter(Append(t, e), S \cap R)
      BY <1>2, <2>2, <2>3, <3>1, <3>2
    <3>. QED
      BY <2>1, <3>3
  <2>4. CASE e \notin S
    <3>1. Filter(Append(t, e), S) = Filter(t, S)
      BY <2>4, FilterAppend
    <3>2. Filter(Filter(Append(t, e), S), R) = Filter(Append(t, e), S \cap R)
      BY <1>2, <2>2, <2>4, <3>1
    <3>. QED
      BY <2>1, <3>2
  <2>. QED
    BY <2>3, <2>4
<1>3. Seq(T) \subseteq P
  <2>. HIDE DEF P
  <2>. QED
    BY <1>1, <1>2, SeqInductionSet
<1>. QED
  BY <1>3

-----------------------------------------------------------------------------
(* The loop of Total *)

Sums(sum, counts) ==
  sum = [i \in 0..Len(counts) |-> IF i = 0 THEN 0 ELSE sum[i - 1] + counts[i]]

Adding == [p \in Nat \X Nat |-> p[1] + p[2]]

\* The sums that Total makes are those of a loop.
LEMMA TotalRuns ==
  ASSUME NEW counts \in Seq(Nat)
  PROVE  \E sum \in [0..Len(counts) -> Nat] :
           Runs(sum, counts, 0, Adding) /\ Total(counts) = sum[Len(counts)]
<1>1. Len(counts) \in Nat /\ \A i \in 1..Len(counts) : counts[i] \in Nat
  BY LenProperties, ElementOfSeq
<1>2. Adding \in [Nat \X Nat -> Nat] /\ \A a, b \in Nat : Adding[<<a, b>>] = a + b
  BY DEF Adding
<1>. HIDE DEF Adding
<1>3. PICK f \in [0..Len(counts) -> Nat] : Runs(f, counts, 0, Adding)
  BY <1>2, LoopExists
<1>4. Sums(f, counts)
  <2>1. f[0] = 0
    BY <1>3 DEF Runs
  <2>2. ASSUME NEW i \in 1..Len(counts) PROVE f[i] = f[i - 1] + counts[i]
    <3>1. f[i] = Adding[<<f[i - 1], counts[i]>>]
      BY <1>3 DEF Runs
    <3>2. f[i - 1] \in Nat
      <4>1. i - 1 \in 0..Len(counts)
        BY <1>1
      <4>. QED
        BY <4>1
    <3>. QED
      BY <1>1, <1>2, <3>1, <3>2
  <2>3. f = [i \in 0..Len(counts) |-> f[i]]
    OBVIOUS
  <2>4. \A i \in 0..Len(counts) : i = 0 \/ i \in 1..Len(counts)
    BY <1>1
  <2>5. \A i \in 0..Len(counts) : f[i] = IF i = 0 THEN 0 ELSE f[i - 1] + counts[i]
    BY <2>1, <2>2, <2>4
  <2>. QED
    BY <2>3, <2>5 DEF Sums
<1>. DEFINE sum == CHOOSE g : Sums(g, counts)
<1>5. Sums(sum, counts)
  BY <1>4
<1>6. Total(counts) = sum[Len(counts)]
  BY DEF Total, Sums
<1>. HIDE DEF sum
<1>7. sum[0] = 0 /\ \A i \in 1..Len(counts) : sum[i] = sum[i - 1] + counts[i]
  <2>1. 0 \in 0..Len(counts) /\ \A i \in 1..Len(counts) : i \in 0..Len(counts) /\ i # 0
    BY <1>1
  <2>. QED
    BY <1>5, <2>1 DEF Sums
<1>. DEFINE P == {i \in Nat : i <= Len(counts) => sum[i] \in Nat}
<1>8. 0 \in P
  BY <1>7
<1>9. ASSUME NEW i \in Nat, i \in P PROVE i + 1 \in P
  <2>. SUFFICES ASSUME i + 1 <= Len(counts) PROVE sum[i + 1] \in Nat
    OBVIOUS
  <2>1. i + 1 \in 1..Len(counts) /\ (i + 1) - 1 = i /\ i <= Len(counts)
    BY <1>1
  <2>2. sum[i + 1] = sum[i] + counts[i + 1]
    BY <1>7, <2>1
  <2>3. sum[i] \in Nat /\ counts[i + 1] \in Nat
    BY <1>1, <1>9, <2>1
  <2>. QED
    BY <2>2, <2>3
<1>10. Nat \subseteq P
  <2>. HIDE DEF P
  <2>. QED
    BY <1>8, <1>9, NatInductionSet
<1>11. sum \in [0..Len(counts) -> Nat]
  <2>1. sum = [i \in 0..Len(counts) |-> sum[i]]
    BY <1>5 DEF Sums
  <2>2. \A i \in 0..Len(counts) : sum[i] \in Nat
    BY <1>1, <1>10
  <2>. QED
    BY <2>1, <2>2
<1>12. Runs(sum, counts, 0, Adding)
  <2>1. \A i \in 1..Len(counts) : sum[i - 1] \in Nat
    <3>1. \A i \in 1..Len(counts) : i - 1 \in 0..Len(counts)
      BY <1>1
    <3>. QED
      BY <1>11, <3>1
  <2>. QED
    BY <1>1, <1>2, <1>7, <2>1 DEF Runs
<1>. QED
  BY <1>6, <1>11, <1>12

\* One number more is one sum more.
LEMMA AddOnce ==
  ASSUME NEW N, NEW counts \in Seq(N), NEW c \in N
  PROVE  \A zero, add, f, g : Runs(f, counts, zero, add) /\ Runs(g, Append(counts, c), zero, add)
                              => g[Len(Append(counts, c))] = add[<<f[Len(counts)], c>>]
BY LoopAppend

\* Total of one number more.
LEMMA TotalAppend ==
  ASSUME NEW counts \in Seq(Nat), NEW c \in Nat
  PROVE  Total(counts) \in Nat /\ Total(Append(counts, c)) = Total(counts) + c
<1>1. Append(counts, c) \in Seq(Nat) /\ Len(counts) \in Nat
  BY AppendProperties, LenProperties
<1>2. PICK f \in [0..Len(counts) -> Nat] :
        Runs(f, counts, 0, Adding) /\ Total(counts) = f[Len(counts)]
  BY TotalRuns
<1>3. PICK g : Runs(g, Append(counts, c), 0, Adding)
               /\ Total(Append(counts, c)) = g[Len(Append(counts, c))]
  BY <1>1, TotalRuns
<1>4. Total(Append(counts, c)) = Adding[<<f[Len(counts)], c>>]
  <2>1. \A zero, add, h, k : Runs(h, counts, zero, add) /\ Runs(k, Append(counts, c), zero, add)
                             => k[Len(Append(counts, c))] = add[<<h[Len(counts)], c>>]
    BY AddOnce
  <2>2. Runs(f, counts, 0, Adding) /\ Runs(g, Append(counts, c), 0, Adding)
    BY <1>2, <1>3, Zenon
  <2>3. g[Len(Append(counts, c))] = Adding[<<f[Len(counts)], c>>]
    BY <2>1, <2>2, Zenon
  <2>. QED
    BY <1>3, <2>3, Zenon
<1>5. f[Len(counts)] \in Nat
  BY <1>1
<1>. QED
  BY <1>2, <1>4, <1>5 DEF Adding

\* Total of nothing.
LEMMA TotalEmpty == Total(<<>>) = 0
<1>1. <<>> \in Seq(Nat) /\ Len(<<>>) = 0
  BY EmptySeq
<1>. QED
  BY <1>1, TotalRuns DEF Runs
=============================================================================
