------------------------------ MODULE DataLemmas ------------------------------
(***************************************************************************)
(* What the operators on sets of numbers, sequences and folds compute that *)
(* the parser is built from.  The provers have no induction of their own;  *)
(* here it is drawn from the well-foundedness of < on the naturals.        *)
(***************************************************************************)
EXTENDS Integers, SequencesExt, WellFoundedInduction, FiniteSetTheorems,
        SequenceTheorems, TLAPS

(***************************************************************************)
(* Least elements and induction.                                           *)
(***************************************************************************)
\* A set of naturals that is not empty has a least element.
LEMMA LeastElement ==
  ASSUME NEW S \in SUBSET Nat, S # {}
  PROVE  \E m \in S : \A n \in S : m <= n
<1>1. PICK m \in S : \A n \in S : <<n, m>> \notin OpToRel(<, Nat)
  BY NatLessThanWellFounded, WFMin
<1>2. \A n \in S : ~(n < m)
  BY <1>1 DEF OpToRel
<1>. QED
  BY <1>2

\* A set that holds 0, and the successor of every natural it holds, holds all
\* naturals.
LEMMA Induction ==
  ASSUME NEW S, 0 \in S, \A n \in Nat : n \in S => n + 1 \in S
  PROVE  Nat \subseteq S
<1>. SUFFICES ASSUME Nat \ S # {}
              PROVE  FALSE
  OBVIOUS
<1>1. PICK m \in Nat \ S : \A n \in Nat \ S : m <= n
  BY LeastElement
<1>2. m # 0 /\ m - 1 \in Nat /\ ~(m <= m - 1)
  OBVIOUS
<1>3. m - 1 \in S
  BY <1>1, <1>2
<1>4. m - 1 + 1 \in S
  BY <1>2, <1>3
<1>. QED
  BY <1>1, <1>4

\* Min of a set of naturals is its least element.
LEMMA MinLemma ==
  ASSUME NEW S \in SUBSET Nat, S # {}
  PROVE  Min(S) \in S /\ \A n \in S : Min(S) <= n
  BY LeastElement DEF Min

-----------------------------------------------------------------------------
(***************************************************************************)
(* The elements of a set in increasing order.                              *)
(***************************************************************************)
Increasing(s) == \A j, k \in DOMAIN s : j < k => s[j] < s[k]

Enumerates(s, n, S) ==
  /\ s \in [1 .. n -> S]
  /\ Increasing(s)
  /\ \A p \in S : \E k \in 1 .. n : s[k] = p

\* A finite set of positive numbers can be enumerated in increasing order.
LEMMA EnumerationExists ==
  ASSUME NEW m \in Nat, NEW S \in SUBSET (1 .. m)
  PROVE  \E n \in Nat : \E s : Enumerates(s, n, S)
<1>. DEFINE I == {b \in Nat : \A T \in SUBSET (1 .. b) :
                                \E n \in Nat : \E s : Enumerates(s, n, T)}
<1>1. 0 \in I
  <2>1. \A T \in SUBSET (1 .. 0) : T = {}
    OBVIOUS
  <2>2. Enumerates([k \in 1 .. 0 |-> 0], 0, {})
    BY DEF Enumerates, Increasing
  <2>. QED
    BY <2>1, <2>2
<1>2. ASSUME NEW b \in Nat, b \in I
      PROVE  b + 1 \in I
  <2>. SUFFICES ASSUME NEW T \in SUBSET (1 .. b + 1)
                PROVE  \E n \in Nat : \E s : Enumerates(s, n, T)
    OBVIOUS
  <2>1. T \ {b + 1} \in SUBSET (1 .. b)
    OBVIOUS
  <2>2. PICK n \in Nat : \E s : Enumerates(s, n, T \ {b + 1})
    BY <1>2, <2>1
  <2>6. PICK s : Enumerates(s, n, T \ {b + 1})
    BY <2>2
  <2>3. CASE b + 1 \notin T
    <3>1. T \ {b + 1} = T
      BY <2>3
    <3>. QED
      BY <2>6, <3>1
  <2>4. CASE b + 1 \in T
    <3>. DEFINE t == [k \in 1 .. n + 1 |-> IF k = n + 1 THEN b + 1 ELSE s[k]]
    <3>1. \A k \in 1 .. n : s[k] \in T /\ s[k] \in 1 .. b
      BY <2>1, <2>6 DEF Enumerates
    <3>2. t \in [1 .. n + 1 -> T]
      BY <2>4, <3>1
    <3>3. Increasing(t)
      <4>. SUFFICES ASSUME NEW j \in 1 .. n + 1, NEW k \in 1 .. n + 1, j < k
                    PROVE  t[j] < t[k]
        BY DEF Increasing
      <4>1. j \in 1 .. n /\ t[j] = s[j]
        OBVIOUS
      <4>2. CASE k = n + 1
        BY <3>1, <4>1, <4>2
      <4>3. CASE k \in 1 .. n
        BY <2>6, <4>1, <4>3 DEF Enumerates, Increasing
      <4>. QED
        BY <4>2, <4>3
    <3>4. ASSUME NEW p \in T
          PROVE  \E k \in 1 .. n + 1 : t[k] = p
      <4>1. CASE p = b + 1
        <5>1. t[n + 1] = p
          BY <4>1
        <5>. QED
          BY <5>1
      <4>2. CASE p # b + 1
        <5>1. PICK k \in 1 .. n : s[k] = p
          BY <2>6, <4>2 DEF Enumerates
        <5>2. t[k] = p /\ k \in 1 .. n + 1
          BY <5>1
        <5>. QED
          BY <5>2
      <4>. QED
        BY <4>1, <4>2
    <3>5. Enumerates(t, n + 1, T)
      BY <3>2, <3>3, <3>4 DEF Enumerates
    <3>. QED
      BY <3>5
  <2>. QED
    BY <2>3, <2>4
<1>3. Nat \subseteq I
  <2>. HIDE DEF I
  <2>. QED
    BY <1>1, <1>2, Induction
<1>. QED
  BY <1>3

\* There is one such enumeration only.
LEMMA EnumerationUnique ==
  ASSUME NEW S \in SUBSET Nat, NEW n \in Nat, NEW s, NEW t,
         Enumerates(s, n, S), Enumerates(t, n, S)
  PROVE  s = t
<1>. DEFINE D == {k \in 1 .. n : s[k] # t[k]}
<1>1. ASSUME D # {}
      PROVE  FALSE
  <2>1. PICK k \in D : \A j \in D : k <= j
    <3>1. D \in SUBSET Nat
      OBVIOUS
    <3>. QED
      BY <1>1, <3>1, LeastElement
  <2>2. k \in 1 .. n /\ \A j \in 1 .. n : j < k => s[j] = t[j]
    BY <2>1
  <2>3. s[k] \in Nat /\ t[k] \in Nat /\ s[k] # t[k]
    BY <2>1 DEF Enumerates
  <2>4. CASE s[k] < t[k]
    <3>1. PICK j \in 1 .. n : t[j] = s[k]
      BY <2>2 DEF Enumerates
    <3>2. j < k
      BY <2>2, <2>3, <2>4, <3>1 DEF Enumerates, Increasing
    <3>. QED
      BY <2>2, <2>3, <3>1, <3>2 DEF Enumerates, Increasing
  <2>5. CASE t[k] < s[k]
    <3>1. PICK j \in 1 .. n : s[j] = t[k]
      BY <2>2 DEF Enumerates
    <3>2. j < k
      BY <2>2, <2>3, <2>5, <3>1 DEF Enumerates, Increasing
    <3>. QED
      BY <2>2, <2>3, <3>1, <3>2 DEF Enumerates, Increasing
  <2>. QED
    BY <2>3, <2>4, <2>5
<1>. QED
  BY <1>1 DEF Enumerates

\* A set that is enumerated has as many elements as the enumeration, and what
\* is increasing and as long enumerates it.
LEMMA EnumerationSize ==
  ASSUME NEW S \in SUBSET Nat, NEW n \in Nat, NEW s, Enumerates(s, n, S)
  PROVE  /\ IsFiniteSet(S) /\ Cardinality(S) = n
         /\ \A t \in [1 .. n -> S] : Increasing(t) => Enumerates(t, n, S)
<1>1. ASSUME NEW t \in [1 .. n -> S], Increasing(t)
      PROVE  t \in Injection(1 .. n, S)
  <2>1. ASSUME NEW j \in 1 .. n, NEW k \in 1 .. n, t[j] = t[k]
        PROVE  j = k
    <3>1. t[j] \in Nat /\ t[k] \in Nat
      OBVIOUS
    <3>2. ~(j < k) /\ ~(k < j)
      BY <1>1, <2>1, <3>1 DEF Increasing
    <3>. QED
      BY <3>2
  <2>. QED
    BY <2>1 DEF Injection, IsInjective
<1>2. s \in Bijection(1 .. n, S)
  BY <1>1 DEF Enumerates, Bijection, Surjection
<1>3. IsFiniteSet(1 .. n) /\ Cardinality(1 .. n) = n
  BY FS_Interval
<1>4. IsFiniteSet(S) /\ Cardinality(S) = n
  BY <1>2, <1>3, FS_Bijection DEF ExistsBijection
<1>5. ASSUME NEW t \in [1 .. n -> S], Increasing(t)
      PROVE  Enumerates(t, n, S)
  <2>1. t \in Surjection(1 .. n, S)
    BY <1>1, <1>3, <1>4, <1>5, FS_Injection
  <2>. QED
    BY <1>5, <2>1 DEF Surjection, Enumerates
<1>. QED
  BY <1>4, <1>5

-----------------------------------------------------------------------------
(***************************************************************************)
(* Running sums: off[k] is off[0] and the first k of the n numbers d.      *)
(***************************************************************************)
Sums(off, n, d) == \A k \in 1 .. n : off[k] = off[k - 1] + d[k]

\* Every position from the start up to a sum is between two neighbours.
Covers(off, n, d) ==
  \A m \in 0 .. n : \A p \in off[0] + 1 .. off[m] :
    \E k \in 1 .. m : \E j \in 1 .. d[k] : p = off[k - 1] + j

\* No position is between two pairs of neighbours, or twice between one.
Apart(off, n, d) ==
  \A k \in 1 .. n : \A l \in 1 .. n : \A i \in 1 .. d[k] : \A j \in 1 .. d[l] :
    off[k - 1] + i = off[l - 1] + j => k = l /\ i = j

\* Every row of numbers has its running sums from any start.
LEMMA SumsExist ==
  ASSUME NEW n \in Nat, NEW d \in [1 .. n -> Nat], NEW start \in Nat
  PROVE  \E off \in [0 .. n -> Nat] : off[0] = start /\ Sums(off, n, d)
<1>. DEFINE I == {m \in Nat : m <= n => \E off \in [0 .. m -> Nat] : off[0] = start /\ Sums(off, m, d)}
<1>1. 0 \in I
  <2>. DEFINE f == [k \in 0 .. 0 |-> start]
  <2>1. f \in [0 .. 0 -> Nat] /\ f[0] = start /\ Sums(f, 0, d)
    BY DEF Sums
  <2>. QED
    BY <2>1
<1>2. ASSUME NEW m \in Nat, m \in I
      PROVE  m + 1 \in I
  <2>1. ASSUME m + 1 <= n
        PROVE  \E off \in [0 .. m + 1 -> Nat] : off[0] = start /\ Sums(off, m + 1, d)
    <3>1. m <= n /\ m + 1 \in 1 .. n /\ d[m + 1] \in Nat
      BY <2>1
    <3>2. PICK off \in [0 .. m -> Nat] : off[0] = start /\ Sums(off, m, d)
      BY <1>2, <3>1
    <3>. DEFINE more == [k \in 0 .. m + 1 |-> IF k = m + 1 THEN off[m] + d[m + 1] ELSE off[k]]
    <3>3. off \in [0 .. m -> Nat] /\ off[0] = start /\ off[m] \in Nat
      BY <3>2 DEF Sums
    <3>4. more \in [0 .. m + 1 -> Nat]
      <4>1. \A k \in 0 .. m + 1 : k # m + 1 => k \in 0 .. m
        OBVIOUS
      <4>. QED
        BY <3>1, <3>3, <4>1
    <3>5. more[0] = start
      BY <3>3
    <3>6. ASSUME NEW k \in 1 .. m + 1
          PROVE  more[k] = more[k - 1] + d[k]
      <4>1. CASE k = m + 1
        <5>1. k - 1 = m /\ m # m + 1 /\ m \in 0 .. m + 1 /\ m + 1 \in 0 .. m + 1
          BY <4>1
        <5>2. more[m + 1] = off[m] + d[m + 1] /\ more[m] = off[m]
          BY <5>1
        <5>. QED
          BY <4>1, <5>1, <5>2
      <4>2. CASE k # m + 1
        <5>1. k \in 1 .. m /\ k \in 0 .. m + 1 /\ k - 1 \in 0 .. m + 1 /\ k - 1 # m + 1
          BY <4>2
        <5>2. more[k] = off[k] /\ more[k - 1] = off[k - 1]
          BY <4>2, <5>1
        <5>. QED
          BY <3>2, <5>1, <5>2 DEF Sums
      <4>. QED
        BY <4>1, <4>2
    <3>7. Sums(more, m + 1, d)
      <4>. HIDE DEF more
      <4>. QED
        BY <3>4, <3>5, <3>6 DEF Sums
    <3>. QED
      BY <3>4, <3>5, <3>7
  <2>. QED
    BY <2>1
<1>3. n \in I
  <2>. HIDE DEF I
  <2>. QED
    BY <1>1, <1>2, Induction
<1>. QED
  BY <1>3

\* Running sums do not fall.
LEMMA SumsGrow ==
  ASSUME NEW n \in Nat, NEW d \in [1 .. n -> Nat], NEW off \in [0 .. n -> Nat], Sums(off, n, d),
         NEW k \in 0 .. n, NEW j \in 0 .. k
  PROVE  off[j] <= off[k]
<1>. DEFINE I == {m \in Nat : m <= n => \A l \in 0 .. m : off[l] <= off[m]}
<1>1. \A m \in 0 .. n : off[m] \in Nat
  BY DEF Sums
<1>2. 0 \in I
  BY <1>1
<1>3. ASSUME NEW m \in Nat, m \in I
      PROVE  m + 1 \in I
  <2>1. ASSUME m + 1 <= n, NEW l \in 0 .. m + 1
        PROVE  off[l] <= off[m + 1]
    <3>1. m \in 0 .. n /\ m + 1 \in 1 .. n /\ m + 1 \in 0 .. n /\ m + 1 - 1 = m
      BY <2>1
    <3>2. off[m + 1] = off[m] + d[m + 1] /\ d[m + 1] \in Nat
      BY <3>1 DEF Sums
    <3>3. CASE l = m + 1
      BY <1>1, <3>1, <3>3
    <3>4. CASE l \in 0 .. m
      <4>1. off[l] <= off[m] /\ l \in 0 .. n
        BY <1>3, <3>1, <3>4
      <4>. QED
        BY <1>1, <3>1, <3>2, <4>1
    <3>. QED
      BY <3>3, <3>4
  <2>. QED
    BY <2>1
<1>4. Nat \subseteq I
  <2>. HIDE DEF I
  <2>. QED
    BY <1>2, <1>3, Induction
<1>. QED
  BY <1>4

\* Every position from the start up to a sum is between two neighbours.
LEMMA SumsCover ==
  ASSUME NEW n \in Nat, NEW d \in [1 .. n -> Nat], NEW off \in [0 .. n -> Nat], Sums(off, n, d)
  PROVE  Covers(off, n, d)
<1>. SUFFICES ASSUME NEW m \in 0 .. n, NEW p \in off[0] + 1 .. off[m]
              PROVE  \E k \in 1 .. m : \E j \in 1 .. d[k] : p = off[k - 1] + j
  BY DEF Covers
<1>. DEFINE E == {k \in 0 .. m : p <= off[k]}
<1>1. off[0] \in Nat /\ off[m] \in Nat /\ p \in Nat
  OBVIOUS
<1>2. m \in E /\ E \in SUBSET Nat /\ 0 \notin E
  BY <1>1
<1>3. PICK k \in E : \A j \in E : k <= j
  <2>. HIDE DEF E
  <2>. QED
    BY <1>2, LeastElement
<1>4. k # 0
  BY <1>2
<1>5. k - 1 \in 0 .. m /\ k \in 1 .. m /\ k \in 1 .. n /\ k - 1 \in 0 .. n /\ k \in 0 .. n
  BY <1>3, <1>4
<1>6. ~(p <= off[k - 1])
  BY <1>3, <1>5
<1>7. off[k] = off[k - 1] + d[k] /\ p <= off[k]
  BY <1>5 DEF Sums
<1>8. off[k] \in Nat /\ off[k - 1] \in Nat /\ d[k] \in Nat
  BY <1>5
<1>9. p - off[k - 1] \in 1 .. d[k] /\ p = off[k - 1] + (p - off[k - 1])
  BY <1>1, <1>6, <1>7, <1>8, SMTT(30)
<1>. QED
  BY <1>5, <1>9

\* Positions between different neighbours differ.
LEMMA SumsApart ==
  ASSUME NEW n \in Nat, NEW d \in [1 .. n -> Nat], NEW off \in [0 .. n -> Nat], Sums(off, n, d)
  PROVE  Apart(off, n, d)
<1>1. ASSUME NEW k \in 1 .. n, NEW l \in 1 .. n, NEW i \in 1 .. d[k], NEW j \in 1 .. d[l],
             k < l
      PROVE  off[k - 1] + i < off[l - 1] + j
  <2>1. k \in 0 .. l - 1 /\ l - 1 \in 0 .. n /\ k - 1 \in 0 .. n /\ k \in 0 .. n
    BY <1>1
  <2>2. off[k] <= off[l - 1]
    BY <2>1, SumsGrow
  <2>3. /\ off[k] \in Nat /\ off[k - 1] \in Nat /\ off[l - 1] \in Nat /\ d[k] \in Nat
        /\ d[l] \in Nat /\ i \in Nat /\ i <= d[k] /\ j \in Nat /\ 1 <= j
    BY <2>1
  <2>4. off[k] = off[k - 1] + d[k]
    BY DEF Sums
  <2>. QED
    BY <2>2, <2>3, <2>4, SMTT(30)
<1>. SUFFICES ASSUME NEW k \in 1 .. n, NEW l \in 1 .. n, NEW i \in 1 .. d[k], NEW j \in 1 .. d[l],
                     off[k - 1] + i = off[l - 1] + j
              PROVE  k = l /\ i = j
  BY DEF Apart
<1>2. /\ k - 1 \in 0 .. n /\ l - 1 \in 0 .. n /\ d[k] \in Nat /\ d[l] \in Nat
      /\ off[k - 1] \in Nat /\ off[l - 1] \in Nat /\ i \in Nat /\ j \in Nat
  OBVIOUS
<1>3. ~(k < l) /\ ~(l < k)
  BY <1>1, <1>2, SMTT(30)
<1>4. k = l
  BY <1>3
<1>. QED
  BY <1>2, <1>4

-----------------------------------------------------------------------------
(***************************************************************************)
(* Sequences laid one after the other: off[k] is where the k-th ends.      *)
(***************************************************************************)
\* A function on 1 .. n is a sequence of length n.
LEMMA FunctionIsSeq ==
  ASSUME NEW S, NEW n \in Nat, NEW f \in [1 .. n -> S]
  PROVE  f \in Seq(S) /\ Len(f) = n
  OBVIOUS

Joins(u, s, t) ==
  /\ Len(u) = Len(s) + Len(t)
  /\ \A i \in 1 .. Len(s) : u[i] = s[i]
  /\ \A j \in 1 .. Len(t) : u[Len(s) + j] = t[j]

\* Where the elements of two joined sequences stand.
LEMMA ConcatAt ==
  ASSUME NEW S, NEW s \in Seq(S), NEW t \in Seq(S)
  PROVE  s \o t \in Seq(S) /\ Joins(s \o t, s, t)
<1>1. Len(s) \in Nat /\ Len(t) \in Nat
  OBVIOUS
<1>2. ASSUME NEW j \in 1 .. Len(t)
      PROVE  (s \o t)[Len(s) + j] = t[j]
  <2>1. Len(s) + j \in 1 .. Len(s) + Len(t) /\ ~(Len(s) + j <= Len(s)) /\ Len(s) + j - Len(s) = j
    BY <1>1
  <2>. QED
    BY <2>1, ConcatProperties
<1>3. \A i \in 1 .. Len(s) : i \in 1 .. Len(s) + Len(t) /\ i <= Len(s)
  BY <1>1
<1>. QED
  BY <1>2, <1>3, ConcatProperties DEF Joins

\* The n sequences, d[k] long, stand in u one after the other.
Placed(u, n, seqs, d, off) ==
  /\ Len(u) = off[n]
  /\ \A k \in 1 .. n : \A j \in 1 .. d[k] : u[off[k - 1] + j] = seqs[k][j]

\* FlattenSeq puts the sequences where their running lengths say.
LEMMA FlattenLemma ==
  ASSUME NEW S, NEW n \in Nat, NEW seqs \in [1 .. n -> Seq(S)],
         NEW d \in [1 .. n -> Nat], \A k \in 1 .. n : Len(seqs[k]) = d[k],
         NEW off \in [0 .. n -> Nat], off[0] = 0, Sums(off, n, d)
  PROVE  FlattenSeq(seqs) \in Seq(S) /\ Placed(FlattenSeq(seqs), n, seqs, d, off)
<1>1. \A k \in 1 .. n : seqs[k] \in Seq(S) /\ Len(seqs[k]) \in Nat
                         /\ seqs[k] \in [1 .. Len(seqs[k]) -> S]
  OBVIOUS
<1>2. \A k \in 1 .. n : d[k] = Len(seqs[k]) /\ d[k] \in Nat
  OBVIOUS
<1>3. Len(seqs) = n
  OBVIOUS
<1>4. /\ \A m \in 0 .. n : off[m] \in Nat
      /\ off[0] = 0
      /\ \A k \in 1 .. n : off[k] = off[k - 1] + d[k]
  BY DEF Sums
<1>20. Covers(off, n, d) /\ Apart(off, n, d)
  BY SumsCover, SumsApart
<1>21. ASSUME NEW m \in 1 .. n, NEW p \in 1 .. off[m]
       PROVE  \E k \in 1 .. m : \E j \in 1 .. d[k] : p = off[k - 1] + j
  <2>1. m \in 0 .. n /\ p \in off[0] + 1 .. off[m]
    BY <1>4
  <2>. QED
    BY <1>20, <2>1, Zenon DEF Covers
<1>. DEFINE At(p, k) == \E j \in 1 .. d[k] : p = off[k - 1] + j
            Piece(p) == CHOOSE k \in 1 .. n : At(p, k)
            At1(p, k) == seqs[k][p - off[k - 1]]
            Text(m) == [p \in 1 .. off[m] |-> At1(p, Piece(p))]
<1>5. ASSUME NEW k \in 1 .. n, NEW j \in 1 .. d[k]
      PROVE  Piece(off[k - 1] + j) = k
  <2>. DEFINE piece == Piece(off[k - 1] + j)
  <2>1. At(off[k - 1] + j, k)
    OBVIOUS
  <2>. HIDE DEF At
  <2>2. piece \in 1 .. n /\ At(off[k - 1] + j, piece)
    BY <2>1
  <2>3. \A l \in 1 .. n : At(off[k - 1] + j, l) => l = k
    BY <1>20, Zenon DEF At, Apart
  <2>4. piece = k
    <3>. HIDE DEF piece
    <3>. QED
      BY <2>2, <2>3
  <2>. QED
    BY <2>4
<1>6. ASSUME NEW m \in 1 .. n, NEW k \in 1 .. m, NEW j \in 1 .. d[k]
      PROVE  off[k - 1] + j \in 1 .. off[m] /\ Text(m)[off[k - 1] + j] = seqs[k][j]
  <2>1. k \in 1 .. n /\ k - 1 \in 0 .. n /\ m \in 0 .. n /\ k \in 0 .. m
    BY <1>1
  <2>2. off[k] <= off[m]
    BY <2>1, SumsGrow
  <2>3. off[k] = off[k - 1] + d[k] /\ off[k] \in Nat /\ off[k - 1] \in Nat /\ off[m] \in Nat
    BY <1>4, <2>1, SMTT(30)
  <2>4. d[k] \in Nat
    BY <1>2, <2>1
  <2>5. off[k - 1] + j \in 1 .. off[m] /\ (off[k - 1] + j) - off[k - 1] = j
    BY <2>2, <2>3, <2>4, SMTT(30)
  <2>6. Piece(off[k - 1] + j) = k
    BY <1>5, <2>1
  <2>7. Text(m)[off[k - 1] + j] = At1(off[k - 1] + j, Piece(off[k - 1] + j))
    <3>. HIDE DEF At1, Piece
    <3>. QED
      BY <2>5
  <2>8. At1(off[k - 1] + j, k) = seqs[k][j]
    BY <2>5
  <2>. HIDE DEF At1, Piece, Text
  <2>. QED
    BY <2>5, <2>6, <2>7, <2>8
<1>7. ASSUME NEW m \in 1 .. n
      PROVE  Text(m) \in Seq(S) /\ Len(Text(m)) = off[m]
  <2>1. ASSUME NEW p \in 1 .. off[m]
        PROVE  Text(m)[p] \in S
    <3>1. PICK k \in 1 .. m : \E j \in 1 .. d[k] : p = off[k - 1] + j
      BY <1>21
    <3>2. PICK j \in 1 .. d[k] : p = off[k - 1] + j
      BY <3>1
    <3>3. Text(m)[p] = seqs[k][j]
      <4>. HIDE DEF Text
      <4>. QED
        BY <1>6, <3>2
    <3>4. k \in 1 .. n
      BY <1>1
    <3>5. seqs[k][j] \in S
      BY <1>1, <1>2, <3>4
    <3>. HIDE DEF Text
    <3>. QED
      BY <3>3, <3>5
  <2>2. Text(m) = [p \in 1 .. off[m] |-> Text(m)[p]]
    <3>. HIDE DEF At1, Piece
    <3>. QED
      OBVIOUS
  <2>3. off[m] \in Nat
    BY <1>1, <1>4
  <2>. DEFINE t == Text(m)
  <2>. HIDE DEF Text, t
  <2>4. t = [p \in 1 .. off[m] |-> t[p]] /\ \A p \in 1 .. off[m] : t[p] \in S
    BY <2>1, <2>2 DEF t
  <2>5. t \in [1 .. off[m] -> S]
    BY <2>4
  <2>6. t \in Seq(S) /\ Len(t) = off[m]
    BY <2>3, <2>5, FunctionIsSeq
  <2>. QED
    BY <2>6 DEF t
<1>. HIDE DEF Text, Piece, At1, At
<1>8. ASSUME NEW m \in 1 .. n, NEW t \in Seq(S), Len(t) = off[m],
             \A k \in 1 .. m : \A j \in 1 .. d[k] : t[off[k - 1] + j] = seqs[k][j]
      PROVE  t = Text(m)
  <2>1. ASSUME NEW p \in 1 .. off[m]
        PROVE  t[p] = Text(m)[p]
    <3>1. PICK k \in 1 .. m : \E j \in 1 .. d[k] : p = off[k - 1] + j
      BY <1>21
    <3>2. PICK j \in 1 .. d[k] : p = off[k - 1] + j
      BY <3>1
    <3>. QED
      BY <1>6, <1>8, <3>2
  <2>. QED
    BY <1>7, <1>8, <2>1, SeqEqual
<1>9. ASSUME NEW m \in 1 .. n, m # 1
      PROVE  Text(m - 1) \o seqs[m] = Text(m)
  <2>. DEFINE a == Text(m - 1)
              b == seqs[m]
  <2>1. m - 1 \in 1 .. n /\ off[m] = off[m - 1] + d[m] /\ off[m] \in Nat /\ off[m - 1] \in Nat
        /\ d[m] \in Nat
    BY <1>1, <1>2, <1>4, <1>9
  <2>2. a \in Seq(S) /\ Len(a) = off[m - 1]
    BY <1>7, <2>1
  <2>3. b \in Seq(S) /\ Len(b) = d[m]
    BY <1>1, <1>2
  <2>. DEFINE ab == a \o b
  <2>. HIDE DEF a, b
  <2>4. /\ ab \in Seq(S)
        /\ Len(ab) = off[m]
        /\ \A p \in 1 .. off[m - 1] : ab[p] = a[p]
        /\ \A j \in 1 .. d[m] : ab[off[m - 1] + j] = b[j]
    <3>1. ab \in Seq(S) /\ Joins(ab, a, b)
      BY <2>2, <2>3, ConcatAt
    <3>. HIDE DEF ab
    <3>. QED
      BY <2>1, <2>2, <2>3, <3>1 DEF Joins
  <2>. HIDE DEF ab
  <2>5. ASSUME NEW k \in 1 .. m, NEW j \in 1 .. d[k]
        PROVE  ab[off[k - 1] + j] = seqs[k][j]
    <3>1. CASE k = m
      BY <2>4, <3>1 DEF b
    <3>2. CASE k # m
      <4>1. k \in 1 .. m - 1
        BY <2>1, <3>2
      <4>2. off[k - 1] + j \in 1 .. off[m - 1] /\ a[off[k - 1] + j] = seqs[k][j]
        BY <1>6, <2>1, <4>1 DEF a
      <4>. QED
        BY <2>4, <4>2
    <3>. QED
      BY <3>1, <3>2
  <2>6. ab = Text(m)
    BY <1>8, <2>4, <2>5
  <2>. QED
    BY <2>6 DEF ab, a, b
<1>10. n # 0 => 1 \in 1 .. n /\ seqs[1] = Text(1)
  <2>. SUFFICES ASSUME n # 0
                PROVE  1 \in 1 .. n /\ seqs[1] = Text(1)
    OBVIOUS
  <2>1. 1 \in 1 .. n /\ off[1] = d[1] /\ off[1 - 1] = 0 /\ d[1] \in Nat
    <3>1. 1 \in 1 .. n /\ 1 - 1 = 0
      BY <1>1
    <3>. QED
      BY <1>2, <1>4, <3>1
  <2>2. seqs[1] \in Seq(S) /\ Len(seqs[1]) = off[1]
    BY <1>1, <1>2, <2>1
  <2>3. ASSUME NEW k \in 1 .. 1, NEW j \in 1 .. d[k]
        PROVE  seqs[1][off[k - 1] + j] = seqs[k][j]
    <3>1. k = 1
      OBVIOUS
    <3>2. off[k - 1] + j = j
      BY <2>1, <3>1
    <3>. QED
      BY <3>1, <3>2
  <2>. QED
    BY <1>8, <2>1, <2>2, <2>3
<1>. DEFINE Def(f) == f = [i \in 1 .. n |-> IF i = 1 THEN seqs[i] ELSE f[i - 1] \o seqs[i]]
            whole == [i \in 1 .. n |-> Text(i)]
<1>11. Def(whole)
  <2>. DEFINE step == [i \in 1 .. n |-> IF i = 1 THEN seqs[i] ELSE whole[i - 1] \o seqs[i]]
  <2>1. ASSUME NEW i \in 1 .. n
        PROVE  whole[i] = step[i]
    <3>1. whole[i] = Text(i)
      OBVIOUS
    <3>2. CASE i = 1
      <4>1. step[i] = seqs[i]
        BY <3>2
      <4>2. Text(i) = seqs[i]
        BY <1>1, <1>10, <3>2
      <4>. QED
        BY <3>1, <4>1, <4>2
    <3>3. CASE i # 1
      <4>1. i - 1 \in 1 .. n
        BY <1>1, <3>3
      <4>2. step[i] = Text(i - 1) \o seqs[i]
        BY <3>3, <4>1
      <4>. QED
        BY <1>9, <3>1, <3>3, <4>2
    <3>. QED
      BY <3>2, <3>3
  <2>2. whole = [i \in 1 .. n |-> whole[i]] /\ step = [i \in 1 .. n |-> step[i]]
    OBVIOUS
  <2>3. whole = step
    <3>. HIDE DEF whole, step
    <3>. QED
      BY <2>1, <2>2
  <2>. QED
    BY <2>3
<1>12. ASSUME NEW f, Def(f)
       PROVE  \A i \in 1 .. n : f[i] = Text(i)
  <2>. DEFINE I == {i \in Nat : i + 1 <= n => f[i + 1] = Text(i + 1)}
  <2>1. \A i \in 1 .. n : f[i] = IF i = 1 THEN seqs[i] ELSE f[i - 1] \o seqs[i]
    BY <1>12
  <2>. HIDE DEF Def
  <2>2. 0 \in I
    <3>1. ASSUME 1 <= n
          PROVE  f[1] = Text(1)
      <4>1. n # 0
        BY <1>1, <3>1
      <4>. QED
        BY <1>10, <2>1, <4>1
    <3>. QED
      BY <3>1
  <2>3. ASSUME NEW i \in Nat, i \in I
        PROVE  i + 1 \in I
    <3>1. ASSUME i + 1 + 1 <= n
          PROVE  f[i + 1 + 1] = Text(i + 1 + 1)
      <4>. DEFINE m == i + 1 + 1
      <4>1. m \in 1 .. n /\ m - 1 = i + 1 /\ m # 1 /\ i + 1 <= n
        BY <1>1, <3>1
      <4>2. f[i + 1] = Text(i + 1)
        BY <2>3, <4>1
      <4>. HIDE DEF m
      <4>3. f[m] = f[m - 1] \o seqs[m]
        BY <2>1, <4>1
      <4>4. f[m] = Text(m)
        BY <1>9, <4>1, <4>2, <4>3
      <4>. QED
        BY <4>4 DEF m
    <3>. QED
      BY <3>1
  <2>4. Nat \subseteq I
    <3>. HIDE DEF I
    <3>. QED
      BY <2>2, <2>3, Induction
  <2>5. ASSUME NEW i \in 1 .. n
        PROVE  f[i] = Text(i)
    <3>1. i - 1 \in Nat /\ i - 1 + 1 = i /\ i <= n
      BY <1>1
    <3>2. i - 1 + 1 <= n => f[i - 1 + 1] = Text(i - 1 + 1)
      BY <2>4, <3>1
    <3>. QED
      BY <3>1, <3>2
  <2>. QED
    BY <2>5
<1>13. CASE n = 0
  <2>1. FlattenSeq(seqs) = seqs /\ seqs = <<>>
    BY <1>3, <1>13 DEF FlattenSeq
  <2>2. FlattenSeq(seqs) \in Seq(S) /\ Len(FlattenSeq(seqs)) = 0
    BY <2>1
  <2>3. off[n] = 0 /\ 1 .. n = {}
    BY <1>4, <1>13
  <2>. QED
    BY <2>2, <2>3 DEF Placed
<1>14. CASE n # 0
  <2>. DEFINE flatten == CHOOSE f : Def(f)
  <2>1. FlattenSeq(seqs) = flatten[n]
    BY <1>3, <1>14 DEF FlattenSeq
  <2>2. Def(flatten)
    <3>. HIDE DEF Def, whole
    <3>. QED
      BY <1>11
  <2>3. n \in 1 .. n
    BY <1>1, <1>14
  <2>4. FlattenSeq(seqs) = Text(n)
    <3>. HIDE DEF flatten, Def
    <3>. QED
      BY <1>12, <2>1, <2>2, <2>3
  <2>5. \A k \in 1 .. n : \A j \in 1 .. d[k] :
          FlattenSeq(seqs)[off[k - 1] + j] = seqs[k][j]
    BY <1>6, <2>3, <2>4, SMTT(30)
  <2>6. FlattenSeq(seqs) \in Seq(S) /\ Len(FlattenSeq(seqs)) = off[n]
    BY <1>7, <2>3, <2>4
  <2>. QED
    BY <2>5, <2>6 DEF Placed
<1>. QED
  BY <1>13, <1>14
===============================================================================
