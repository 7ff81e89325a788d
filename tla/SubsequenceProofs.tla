------------------------- MODULE SubsequenceProofs -------------------------
(***************************************************************************)
(* Lemmas about Subsequences: positions are visited in order, each once.   *)
(***************************************************************************)
EXTENDS Subsequences, FiniteSetTheorems, SequenceTheorems, TLAPS

UpTo(at, i) == {j \in at : j <= i}

LEMMA IntervalSize ==
  ASSUME NEW n \in Nat PROVE IsFiniteSet(1 .. n) /\ Cardinality(1 .. n) = n
BY FS_Interval

LEMMA PositionsAreFinite ==
  ASSUME NEW m \in Nat, NEW at \in SUBSET (1 .. m)
  PROVE  IsFiniteSet(at) /\ Cardinality(at) \in Nat
<1>1. IsFiniteSet(1 .. m)
  BY IntervalSize
<1>. QED  BY <1>1, FS_Subset, FS_CardinalityType

LEMMA UpToIsFinite ==
  ASSUME NEW m \in Nat, NEW at \in SUBSET (1 .. m), NEW i
  PROVE  /\ IsFiniteSet(UpTo(at, i)) /\ Cardinality(UpTo(at, i)) \in Nat
         /\ Cardinality(UpTo(at, i)) <= Cardinality(at)
<1>1. UpTo(at, i) \in SUBSET at
  BY DEF UpTo
<1>2. IsFiniteSet(at)
  BY PositionsAreFinite
<1>3. IsFiniteSet(UpTo(at, i)) /\ Cardinality(UpTo(at, i)) <= Cardinality(at)
  BY <1>1, <1>2, FS_Subset
<1>4. Cardinality(UpTo(at, i)) \in Nat
  BY <1>3, FS_CardinalityType
<1>. QED  BY <1>3, <1>4

\* An enumeration of the positions from left to right is the one.
Lists(f, n, at, m) ==
    /\ m \in Nat /\ at \in SUBSET (1 .. m) /\ n \in Nat /\ f \in [1 .. n -> at]
    /\ \A k, l \in 1 .. n : k < l => f[k] < f[l]
    /\ \A i \in at : \E k \in 1 .. n : f[k] = i

LEMMA NthIs ==
  ASSUME NEW m \in Nat, NEW at \in SUBSET (1 .. m), NEW n \in Nat, NEW f \in [1 .. n -> at]
  PROVE  Lists(f, n, at, m) => Cardinality(at) = n /\ \A k \in 1 .. n : Nth(at, k) = f[k]
<1>a. SUFFICES ASSUME \A k, l \in 1 .. n : k < l => f[k] < f[l],
                      \A i \in at : \E k \in 1 .. n : f[k] = i
               PROVE  Cardinality(at) = n /\ \A k \in 1 .. n : Nth(at, k) = f[k]
  BY Zenon DEF Lists
<1>p. \A i \in at : i \in Nat
  OBVIOUS
<1>0. ASSUME NEW k \in 1 .. n PROVE f[k] \in Nat
  <2>1. f[k] \in at
    OBVIOUS
  <2>. QED  BY <1>p, <2>1, Zenon
<1>1. ASSUME NEW k \in 1 .. n, NEW l \in 1 .. n PROVE f[k] <= f[l] <=> k <= l
  <2>1. f[k] \in Nat /\ f[l] \in Nat
    BY <1>0
  <2>2. (k < l => f[k] < f[l]) /\ (l < k => f[l] < f[k])
    BY <1>a
  <2>3. k \in Nat /\ l \in Nat /\ (k = l => f[k] = f[l])
    OBVIOUS
  <2>4. (k < l \/ k = l \/ l < k) /\ ~(f[k] < f[l] /\ f[l] < f[k])
    BY <2>1, <2>3
  <2>. QED  BY <2>1, <2>2, <2>3, <2>4
<1>2. ASSUME NEW k \in 0 .. n, NEW S, S = {f[l] : l \in 1 .. k}
      PROVE  Cardinality(S) = k
  <2>1. [l \in 1 .. k |-> f[l]] \in Bijection(1 .. k, S)
    <3>1. ASSUME NEW p \in 1 .. k, NEW q \in 1 .. k, f[p] = f[q] PROVE p = q
      <4>1. p \in 1 .. n /\ q \in 1 .. n
        OBVIOUS
      <4>2. f[p] <= f[q] /\ f[q] <= f[p]
        BY <1>0, <3>1, <4>1
      <4>. QED  BY <1>1, <4>1, <4>2
    <3>. QED  BY <1>2, <3>1 DEF Bijection, Injection, Surjection, IsInjective
  <2>2. IsFiniteSet(1 .. k) /\ Cardinality(1 .. k) = k
    BY IntervalSize
  <2>. QED  BY <2>1, <2>2, FS_Bijection DEF ExistsBijection
<1>3. at = {f[l] : l \in 1 .. n}
  BY <1>a
<1>4. Cardinality(at) = n
  BY <1>2, <1>3
<1>5. ASSUME NEW k \in 1 .. n PROVE Cardinality(UpTo(at, f[k])) = k
  <2>1. UpTo(at, f[k]) = {f[l] : l \in 1 .. k}
    <3>1. ASSUME NEW i \in UpTo(at, f[k]) PROVE i \in {f[l] : l \in 1 .. k}
      <4>1. PICK l \in 1 .. n : f[l] = i
        BY <1>a DEF UpTo
      <4>2. l \in 1 .. k
        BY <1>1, <4>1 DEF UpTo
      <4>. QED  BY <4>1, <4>2
    <3>2. ASSUME NEW l \in 1 .. k PROVE f[l] \in UpTo(at, f[k])
      BY <1>1 DEF UpTo
    <3>. QED  BY <3>1, <3>2
  <2>. QED  BY <1>2, <2>1
<1>6. ASSUME NEW k \in 1 .. n PROVE Nth(at, k) = f[k]
  <2>1. f[k] \in at /\ Cardinality(UpTo(at, f[k])) = k
    BY <1>5
  <2>2. \A i \in at : Cardinality(UpTo(at, i)) = k => i = f[k]
    <3>. SUFFICES ASSUME NEW i \in at, Cardinality(UpTo(at, i)) = k PROVE i = f[k]
      OBVIOUS
    <3>1. PICK l \in 1 .. n : f[l] = i
      BY <1>a
    <3>. QED  BY <1>5, <3>1
  <2>. QED  BY <2>1, <2>2 DEF Nth, UpTo
<1>. QED  BY <1>4, <1>6

\* The same, of anything that lists the positions.
LEMMA NthListed ==
  ASSUME NEW m, NEW at, NEW n, NEW f, Lists(f, n, at, m)
  PROVE  Cardinality(at) = n /\ \A k \in 1 .. n : Nth(at, k) = f[k]
<1>1. m \in Nat /\ at \in SUBSET (1 .. m) /\ n \in Nat /\ f \in [1 .. n -> at]
  BY Zenon DEF Lists
<1>. QED  BY <1>1, NthIs, Zenon

\* What two sequences put together are, and in which grouping does not matter.
IsConcat(S, s, t) ==
    /\ s \o t \in Seq(S) /\ Len(s \o t) = Len(s) + Len(t)
    /\ \A i \in 1 .. Len(s) + Len(t) : (s \o t)[i] = IF i <= Len(s) THEN s[i] ELSE t[i - Len(s)]

LEMMA Concatenated == ASSUME NEW S, NEW s \in Seq(S), NEW t \in Seq(S) PROVE IsConcat(S, s, t)
BY ConcatProperties DEF IsConcat

Associative(S) == \A a, b, c \in Seq(S) : (a \o b) \o c = a \o (b \o c)

LEMMA Regrouped == ASSUME NEW S PROVE Associative(S)
BY ConcatAssociative DEF Associative

\* Positions are visited from left to right, and each of them is.
LEMMA NthInOrder ==
  ASSUME NEW m \in Nat, NEW at \in SUBSET (1 .. m)
  PROVE  /\ Cardinality(at) \in Nat
         /\ \A n \in 1 .. Cardinality(at) : Nth(at, n) \in at
         /\ \A n, k \in 1 .. Cardinality(at) : n < k => Nth(at, n) < Nth(at, k)
         /\ \A i \in at : \E n \in 1 .. Cardinality(at) : Nth(at, n) = i
<1>. DEFINE c == Cardinality(at)  rank == [i \in at |-> Cardinality(UpTo(at, i))]
<1>1. IsFiniteSet(at) /\ c \in Nat
  BY PositionsAreFinite
<1>2. \A i \in at : i \in Nat
  OBVIOUS
<1>3. ASSUME NEW i \in at, NEW j \in at, i < j PROVE rank[i] < rank[j]
  <2>0. i \in Nat /\ j \in Nat
    BY <1>2
  <2>1. UpTo(at, i) \in SUBSET UpTo(at, j)
    <3>. SUFFICES ASSUME NEW k \in at, k <= i PROVE k <= j
      BY DEF UpTo
    <3>. QED  BY <1>2, <1>3, <2>0
  <2>2. j \in UpTo(at, j) /\ j \notin UpTo(at, i)
    BY <1>3, <2>0 DEF UpTo
  <2>3. IsFiniteSet(UpTo(at, j)) /\ Cardinality(UpTo(at, i)) \in Nat /\ Cardinality(UpTo(at, j)) \in Nat
    BY UpToIsFinite
  <2>4. /\ Cardinality(UpTo(at, i)) <= Cardinality(UpTo(at, j))
        /\ Cardinality(UpTo(at, j)) = Cardinality(UpTo(at, i)) => UpTo(at, j) = UpTo(at, i)
    BY <2>1, <2>3, FS_Subset
  <2>. QED  BY <2>2, <2>3, <2>4
<1>4. ASSUME NEW i \in at PROVE rank[i] \in 1 .. c
  <2>1. i \in UpTo(at, i)
    BY <1>2 DEF UpTo
  <2>2. /\ IsFiniteSet(UpTo(at, i)) /\ Cardinality(UpTo(at, i)) \in Nat
        /\ Cardinality(UpTo(at, i)) <= c
    BY UpToIsFinite
  <2>3. Cardinality(UpTo(at, i)) # 0
    BY <2>1, <2>2, FS_EmptySet
  <2>. QED  BY <1>1, <2>2, <2>3
<1>5. rank \in Injection(at, 1 .. c)
  <2>1. rank \in [at -> 1 .. c]
    BY <1>4
  <2>2. \A i, j \in at : rank[i] = rank[j] => i = j
    <3>1. \A i \in at : rank[i] \in Nat
      BY <1>4
    <3>. QED  BY <1>2, <1>3, <3>1
  <2>. QED  BY <2>1, <2>2 DEF Injection, IsInjective
<1>6. rank \in Surjection(at, 1 .. c)
  <2>1. IsFiniteSet(1 .. c) /\ Cardinality(1 .. c) = c
    BY <1>1, IntervalSize
  <2>. QED  BY <1>5, <2>1, FS_Injection
<1>7. ASSUME NEW n \in 1 .. c PROVE Nth(at, n) \in at /\ rank[Nth(at, n)] = n
  <2>1. \E i \in at : Cardinality(UpTo(at, i)) = n
    BY <1>6 DEF Surjection
  <2>. QED  BY <2>1 DEF Nth, UpTo
<1>8. ASSUME NEW i \in at PROVE Nth(at, rank[i]) = i
  <2>1. rank[i] \in 1 .. c
    BY <1>4
  <2>2. Nth(at, rank[i]) \in at /\ rank[Nth(at, rank[i])] = rank[i]
    BY <1>7, <2>1
  <2>. QED  BY <1>5, <2>2 DEF Injection, IsInjective
<1>9. ASSUME NEW n \in 1 .. c, NEW k \in 1 .. c, n < k PROVE Nth(at, n) < Nth(at, k)
  <2>1. Nth(at, n) \in at /\ Nth(at, k) \in at /\ rank[Nth(at, n)] = n /\ rank[Nth(at, k)] = k
    BY <1>7
  <2>2. \A i, j \in at : ~(i < j) => ~(rank[i] < rank[j])
    <3>. SUFFICES ASSUME NEW i \in at, NEW j \in at, ~(i < j) PROVE ~(rank[i] < rank[j])
      OBVIOUS
    <3>1. i = j \/ j < i
      BY <1>2
    <3>2. rank[i] \in Nat /\ rank[j] \in Nat
      BY <1>4
    <3>. QED  BY <1>3, <3>1, <3>2
  <2>. QED  BY <1>9, <2>1, <2>2
<1>. QED  BY <1>1, <1>4, <1>7, <1>8, <1>9

\* What is picked is what is there, in its order.
LEMMA PickedInOrder ==
  ASSUME NEW S, NEW s \in Seq(S), NEW at \in SUBSET (1 .. Len(s))
  PROVE  /\ Picked(s, at) \in Seq(S) /\ Len(Picked(s, at)) = Cardinality(at)
         /\ DOMAIN Picked(s, at) = 1 .. Cardinality(at) /\ Cardinality(at) \in Nat
         /\ \A i \in at : \E n \in DOMAIN Picked(s, at) : Picked(s, at)[n] = s[i]
         /\ \A n \in DOMAIN Picked(s, at) : Nth(at, n) \in at /\ Picked(s, at)[n] = s[Nth(at, n)]
         /\ \A n, k \in DOMAIN Picked(s, at) : n < k => Nth(at, n) < Nth(at, k)
<1>. DEFINE c == Cardinality(at)  t == Picked(s, at)
<1>0. Len(s) \in Nat
  BY LenProperties
<1>1. /\ c \in Nat
      /\ \A n \in 1 .. c : Nth(at, n) \in at
      /\ \A n, k \in 1 .. c : n < k => Nth(at, n) < Nth(at, k)
      /\ \A i \in at : \E n \in 1 .. c : Nth(at, n) = i
  BY <1>0, NthInOrder
<1>2. DOMAIN t = 1 .. c /\ \A n \in 1 .. c : t[n] = s[Nth(at, n)]
  BY DEF Picked
<1>3. t \in Seq(S) /\ Len(t) = c
  <2>1. ASSUME NEW n \in 1 .. c PROVE s[Nth(at, n)] \in S
    <3>1. Nth(at, n) \in at
      BY <1>1, Zenon
    <3>2. Nth(at, n) \in 1 .. Len(s)
      BY <3>1, Zenon
    <3>. QED  BY <3>2, ElementOfSeq
  <2>2. t \in [1 .. c -> S]
    BY <2>1 DEF Picked
  <2>3. c \in Nat
    BY <1>1
  <2>. HIDE DEF t, c
  <2>. QED  BY <2>2, <2>3
<1>. HIDE DEF t, c
<1>. QED  BY <1>1, <1>2, <1>3 DEF t, c

\* The first position is the least.
LEMMA FirstIsLeast ==
  ASSUME NEW m \in Nat, NEW at \in SUBSET (1 .. m), at # {}
  PROVE  Nth(at, 1) \in at /\ \A i \in at : Nth(at, 1) <= i
<1>1. /\ Cardinality(at) \in Nat
      /\ \A n \in 1 .. Cardinality(at) : Nth(at, n) \in at
      /\ \A n, k \in 1 .. Cardinality(at) : n < k => Nth(at, n) < Nth(at, k)
      /\ \A i \in at : \E n \in 1 .. Cardinality(at) : Nth(at, n) = i
  BY NthInOrder
<1>2. 1 \in 1 .. Cardinality(at)
  <2>1. PICK n \in 1 .. Cardinality(at) : TRUE
    BY <1>1
  <2>. QED  BY <1>1, <2>1
<1>3. ASSUME NEW i \in at PROVE Nth(at, 1) <= i
  <2>1. PICK n \in 1 .. Cardinality(at) : Nth(at, n) = i
    BY <1>1
  <2>2. n = 1 \/ 1 < n
    BY <1>1
  <2>3. Nth(at, 1) \in at
    BY <1>1, <1>2
  <2>4. Nth(at, 1) \in 1 .. m /\ i \in 1 .. m
    BY <2>3, Zenon
  <2>. QED  BY <1>1, <1>2, <2>1, <2>2, <2>4
<1>. QED  BY <1>1, <1>2, <1>3
=============================================================================
