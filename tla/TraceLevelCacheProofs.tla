---------------------- MODULE TraceLevelCacheProofs -----------------------
(***************************************************************************)
(* Proofs about the cache of filter decisions, for every number of         *)
(* entries, every hash function and every threshold of uthash.h.           *)
(*                                                                         *)
(* The argument goes up in layers: doubly-linked lists as functions on     *)
(* 1..n; the chains of the buckets; each macro of uthash.h, field by       *)
(* field; the table as a whole (Table(H, L, n): H links the n elements of  *)
(* L in this order, and each is in the bucket of its hash value); the      *)
(* history of the words looked up; and the invariant CacheInv, which says  *)
(* that for some list L the table is one of L, and what its entries and    *)
(* the history have to do with each other.                                 *)
(*                                                                         *)
(* The recursive functions of UtHash are unfolded and the inductions made  *)
(* with UpTo: a set of numbers stands for the predicate.                   *)
(***************************************************************************)
EXTENDS TraceLevelCache, FiniteSetTheorems, SequenceTheorems, WellFoundedInduction, TLAPS

-----------------------------------------------------------------------------
(* Induction: the provers cannot instantiate a predicate, but a set of     *)
(* counterexamples is a value, and it has a least element.                 *)

(* Every set of naturals that is not empty has a least element.            *)
LEMMA Least ==
  ASSUME NEW T \in SUBSET Nat, T # {}
  PROVE  \E n \in T : \A m \in T : n <= m
<1> DEFINE R == OpToRel(<, Nat)
<1>1. \A x, y \in Nat : y < x => <<y, x>> \in R
  BY DEF OpToRel
<1>2. IsWellFoundedOn(R, Nat)
  BY NatLessThanWellFounded
<1> HIDE DEF R
<1>3. PICK x \in T : \A y \in T : ~ (<<y, x>> \in R)
  BY <1>2, WFMin, Zenon
<1>4. \A y \in T : ~ (y < x)
  BY <1>1, <1>3, Zenon
<1>5. \A y \in T : x <= y
  BY <1>4
<1> QED BY <1>5

(* A set that has 0, and the successor of each of its numbers up to n, has *)
(* all of them.                                                            *)
LEMMA UpTo ==
  ASSUME NEW n \in Nat, NEW S, 0 \in S,
         \A i \in 0..(n - 1) : i \in S => i + 1 \in S
  PROVE  \A i \in 0..n : i \in S
<1> SUFFICES ASSUME NEW i \in 0..n, i \notin S
             PROVE  FALSE
  OBVIOUS
<1> DEFINE T == {j \in 0..n : j \notin S}
<1>1. PICK m \in T : \A j \in T : m <= j
  <2>1. T \in SUBSET Nat /\ T # {}
    OBVIOUS
  <2> QED BY <2>1, Least
<1>2. m # 0 /\ m - 1 \in 0..(n - 1) /\ m - 1 \notin T
  BY <1>1
<1>3. m - 1 \in S
  BY <1>2
<1>4. (m - 1) + 1 \in S
  BY <1>2, <1>3
<1> QED BY <1>1, <1>4

(* The remainders of a positive divisor                                    *)
LEMMA Remainder ==
  ASSUME NEW m \in Nat, NEW n \in Nat \ {0}
  PROVE  m % n \in 0..(n - 1)
OBVIOUS

-----------------------------------------------------------------------------
(* Doubly-linked lists.  A list of n elements is a function on 1..n.       *)

Pointer == Entries \cup {NULL}

Injective(L, n) == \A i, j \in 1..n : L[i] = L[j] => i = j

(* The pointers nx and pv link the n elements of L, each of them once, and *)
(* first points to the first of them.                                      *)
Linked(nx, pv, first, L, n) ==
  /\ n \in Nat
  /\ L \in [1..n -> Entries]
  /\ Injective(L, n)
  /\ first = IF n = 0 THEN NULL ELSE L[1]
  /\ \A i \in 1..n : nx[L[i]] = IF i = n THEN NULL ELSE L[i + 1]
  /\ \A i \in 1..n : pv[L[i]] = IF i = 1 THEN NULL ELSE L[i - 1]

Without(L, n, j) == [i \in 1..(n - 1) |-> IF i < j THEN L[i] ELSE L[i + 1]]
Pushed(e, L, n) == [i \in 1..(n + 1) |-> IF i = 1 THEN e ELSE L[i - 1]]
Appended(L, n, e) == [i \in 1..(n + 1) |-> IF i = n + 1 THEN e ELSE L[i]]

(* What a list has once one of its elements is gone                        *)
LEMMA WithoutProperties ==
  ASSUME NEW S, NEW n \in Nat, NEW L \in [1..n -> S], NEW j \in 1..n, Injective(L, n)
  PROVE  /\ Without(L, n, j) \in [1..(n - 1) -> S]
         /\ n - 1 \in Nat
         /\ \A i \in 1..(n - 1) : Without(L, n, j)[i] = IF i < j THEN L[i] ELSE L[i + 1]
         /\ Injective(Without(L, n, j), n - 1)
<1> DEFINE W == Without(L, n, j)
<1>1. W \in [1..(n - 1) -> S]
  BY DEF Without
<1>3. \A i \in 1..(n - 1) : W[i] = IF i < j THEN L[i] ELSE L[i + 1]
  BY DEF Without
<1> HIDE DEF W
<1>4. \A i, k \in 1..(n - 1) : W[i] = W[k] => i = k
  BY <1>3 DEF Injective
<1>5. Injective(W, n - 1)
  BY <1>4 DEF Injective
<1> QED BY <1>1, <1>3, <1>5 DEF W

(* All of the others are still there.                                      *)
LEMMA WithoutRange ==
  ASSUME NEW S, NEW n \in Nat, NEW L \in [1..n -> S], NEW j \in 1..n, Injective(L, n)
  PROVE  \A e : e \in Range(Without(L, n, j)) <=> e \in Range(L) \ {L[j]}
<1> DEFINE W == Without(L, n, j)
<1>1. W \in [1..(n - 1) -> S]
  BY DEF Without
<1>3. \A i \in 1..(n - 1) : W[i] = IF i < j THEN L[i] ELSE L[i + 1]
  BY DEF Without
<1> HIDE DEF W
<1>5. ASSUME NEW e
      PROVE  e \in Range(W) <=> e \in Range(L) /\ e # L[j]
  <2>1. ASSUME NEW i \in 1..(n - 1), e = W[i]
        PROVE  e \in Range(L) /\ e # L[j]
    BY <1>3, <2>1 DEF Range, Injective
  <2>2. ASSUME NEW i \in 1..n, e = L[i], e # L[j]
        PROVE  e \in Range(W)
    <3>1. CASE i < j
      BY <1>1, <1>3, <2>2, <3>1 DEF Range
    <3>2. CASE i > j
      <4>1. i - 1 \in 1..(n - 1) /\ W[i - 1] = L[i]
        BY <1>3, <3>2
      <4> QED BY <1>1, <2>2, <4>1 DEF Range
    <3> QED BY <2>2, <3>1, <3>2
  <2> QED BY <1>1, <2>1, <2>2 DEF Range
<1> QED BY <1>5 DEF W

(* HASH_DELETE and HASH_DEL_IN_BKT: the neighbours of an element are made  *)
(* to point to each other.                                                 *)
LEMMA Unlink ==
  ASSUME NEW nx, NEW pv, NEW first, NEW L, NEW n, Linked(nx, pv, first, L, n),
         NEW j \in 1..n, NEW nx2, NEW pv2, NEW first2,
         \A e \in Entries : e # L[j] =>
           /\ nx2[e] = IF e = pv[L[j]] THEN nx[L[j]] ELSE nx[e]
           /\ pv2[e] = IF e = nx[L[j]] THEN pv[L[j]] ELSE pv[e],
         first2 = IF first = L[j] THEN nx[L[j]] ELSE first
  PROVE  Linked(nx2, pv2, first2, Without(L, n, j), n - 1)
<1> DEFINE W == Without(L, n, j)
<1>1. /\ n \in Nat \ {0}
      /\ L \in [1..n -> Entries]
      /\ \A i, k \in 1..n : L[i] = L[k] => i = k
      /\ Injective(L, n)
      /\ first = L[1]
      /\ \A i \in 1..n : nx[L[i]] = IF i = n THEN NULL ELSE L[i + 1]
      /\ \A i \in 1..n : pv[L[i]] = IF i = 1 THEN NULL ELSE L[i - 1]
  BY DEF Linked, Injective
<1>2. /\ W \in [1..(n - 1) -> Entries]
      /\ n - 1 \in Nat
      /\ \A i \in 1..(n - 1) : W[i] = IF i < j THEN L[i] ELSE L[i + 1]
      /\ Injective(W, n - 1)
  <2>1. n \in Nat
    BY <1>1
  <2> QED BY <1>1, <2>1, WithoutProperties, Zenon
<1> HIDE DEF W
<1>3. first2 = IF n - 1 = 0 THEN NULL ELSE W[1]
  BY <1>1, <1>2
<1>4. ASSUME NEW i \in 1..(n - 1)
      PROVE  nx2[W[i]] = IF i = n - 1 THEN NULL ELSE W[i + 1]
  <2>1. CASE i < j - 1
    <3>1. W[i] = L[i] /\ W[i + 1] = L[i + 1] /\ i # n /\ i # n - 1
      BY <1>1, <1>2, <2>1
    <3>2. L[i] \in Entries /\ L[i] # L[j] /\ L[i] # pv[L[j]]
      BY <1>1, <2>1, NullAssumption
    <3>3. nx[L[i]] = L[i + 1]
      BY <1>1, <3>1
    <3> QED BY <3>1, <3>2, <3>3
  <2>2. CASE i = j - 1
    BY <1>1, <1>2, <2>2, NullAssumption
  <2>3. CASE i >= j
    <3>1. W[i] = L[i + 1] /\ i + 1 \in 1..n /\ (i # n - 1 => W[i + 1] = L[i + 1 + 1])
      BY <1>1, <1>2, <2>3
    <3>2. L[i + 1] \in Entries /\ L[i + 1] # L[j] /\ L[i + 1] # pv[L[j]]
      BY <1>1, <2>3, NullAssumption
    <3>3. nx[L[i + 1]] = IF i + 1 = n THEN NULL ELSE L[i + 1 + 1]
      BY <1>1, <3>1
    <3> QED BY <1>1, <3>1, <3>2, <3>3
  <2> QED BY <1>1, <2>1, <2>2, <2>3
<1>5. ASSUME NEW i \in 1..(n - 1)
      PROVE  pv2[W[i]] = IF i = 1 THEN NULL ELSE W[i - 1]
  <2>1. CASE i < j
    <3>1. W[i] = L[i] /\ (i # 1 => W[i - 1] = L[i - 1])
      BY <1>1, <1>2, <2>1
    <3>2. i \in 1..n /\ L[i] \in Entries /\ L[i] # L[j]
      BY <1>1, <2>1
    <3>3. L[i] # nx[L[j]]
      BY <1>1, <2>1, <3>2, NullAssumption
    <3> QED BY <1>1, <3>1, <3>2, <3>3
  <2>2. CASE i = j
    BY <1>1, <1>2, <2>2, NullAssumption
  <2>3. CASE i > j
    <3>1. W[i] = L[i + 1] /\ i + 1 \in 1..n /\ W[i - 1] = L[i] /\ i # 1
      BY <1>1, <1>2, <2>3
    <3>2. L[i + 1] \in Entries /\ L[i + 1] # L[j] /\ L[i + 1] # nx[L[j]]
      BY <1>1, <2>3, NullAssumption
    <3>3. pv[L[i + 1]] = L[i]
      BY <1>1, <3>1
    <3> QED BY <3>1, <3>2, <3>3
  <2> QED BY <1>1, <2>1, <2>2, <2>3
<1> QED BY <1>2, <1>3, <1>4, <1>5 DEF Linked, W

(* HASH_ADD_TO_BKT and HASH_EXPAND_BUCKETS: an element becomes the first.  *)
LEMMA PushFront ==
  ASSUME NEW nx, NEW pv, NEW first, NEW L, NEW n, Linked(nx, pv, first, L, n),
         NEW d \in Entries, d \notin Range(L), NEW nx2, NEW pv2,
         nx2[d] = first, pv2[d] = NULL,
         \A e \in Entries : e # d =>
           /\ nx2[e] = nx[e]
           /\ pv2[e] = IF e = first THEN d ELSE pv[e]
  PROVE  Linked(nx2, pv2, d, Pushed(d, L, n), n + 1)
<1> DEFINE P == Pushed(d, L, n)
<1>1. /\ n \in Nat
      /\ L \in [1..n -> Entries]
      /\ \A i, k \in 1..n : L[i] = L[k] => i = k
      /\ first = IF n = 0 THEN NULL ELSE L[1]
      /\ \A i \in 1..n : nx[L[i]] = IF i = n THEN NULL ELSE L[i + 1]
      /\ \A i \in 1..n : pv[L[i]] = IF i = 1 THEN NULL ELSE L[i - 1]
      /\ \A i \in 1..n : L[i] # d /\ L[i] \in Entries
  BY DEF Linked, Injective, Range
<1>2. /\ P \in [1..(n + 1) -> Entries]
      /\ n + 1 \in Nat
      /\ P[1] = d
      /\ \A i \in 1..(n + 1) : i # 1 => P[i] = L[i - 1]
  BY <1>1 DEF Pushed
<1> HIDE DEF P
<1>3. Injective(P, n + 1)
  <2> SUFFICES ASSUME NEW i \in 1..(n + 1), NEW k \in 1..(n + 1), P[i] = P[k]
               PROVE  i = k
    BY DEF Injective
  <2> QED BY <1>1, <1>2
<1>4. ASSUME NEW i \in 1..(n + 1)
      PROVE  nx2[P[i]] = IF i = n + 1 THEN NULL ELSE P[i + 1]
  <2>1. CASE i = 1
    BY <1>1, <1>2, <2>1
  <2>2. CASE i # 1
    <3>1. i - 1 \in 1..n /\ P[i] = L[i - 1] /\ (i # n + 1 => P[i + 1] = L[i])
      BY <1>1, <1>2, <2>2
    <3>2. nx[L[i - 1]] = IF i - 1 = n THEN NULL ELSE L[i - 1 + 1]
      BY <1>1, <3>1
    <3>3. nx2[L[i - 1]] = nx[L[i - 1]]
      BY <1>1, <3>1
    <3> QED BY <1>1, <3>1, <3>2, <3>3
  <2> QED BY <2>1, <2>2
<1>5. ASSUME NEW i \in 1..(n + 1)
      PROVE  pv2[P[i]] = IF i = 1 THEN NULL ELSE P[i - 1]
  <2>1. CASE i = 1
    BY <1>1, <1>2, <2>1
  <2>2. CASE i = 2
    BY <1>1, <1>2, <2>2
  <2>3. CASE i > 2
    <3>1. i - 1 \in 1..n /\ P[i] = L[i - 1] /\ P[i - 1] = L[i - 1 - 1] /\ n # 0
      BY <1>1, <1>2, <2>3
    <3>2. L[i - 1] # first /\ L[i - 1] \in Entries /\ L[i - 1] # d
      BY <1>1, <2>3, <3>1
    <3>3. pv[L[i - 1]] = L[i - 1 - 1]
      BY <1>1, <2>3, <3>1
    <3>4. pv2[L[i - 1]] = pv[L[i - 1]]
      BY <3>2
    <3> QED BY <2>3, <3>1, <3>3, <3>4
  <2> QED BY <1>1, <2>1, <2>2, <2>3
<1> QED BY <1>2, <1>3, <1>4, <1>5, <1>1 DEF Linked, P

(* HASH_ADD: an element becomes the last.                                  *)
LEMMA PushBack ==
  ASSUME NEW nx, NEW pv, NEW first, NEW L, NEW n, Linked(nx, pv, first, L, n),
         NEW d \in Entries, d \notin Range(L), NEW nx2, NEW pv2, NEW last, NEW first2,
         last = IF n = 0 THEN NULL ELSE L[n],
         first2 = IF n = 0 THEN d ELSE first,
         nx2[d] = NULL, pv2[d] = last,
         \A e \in Entries : e # d =>
           /\ nx2[e] = IF e = last THEN d ELSE nx[e]
           /\ pv2[e] = pv[e]
  PROVE  Linked(nx2, pv2, first2, Appended(L, n, d), n + 1)
<1> DEFINE P == Appended(L, n, d)
<1>1. /\ n \in Nat
      /\ L \in [1..n -> Entries]
      /\ \A i, k \in 1..n : L[i] = L[k] => i = k
      /\ first = IF n = 0 THEN NULL ELSE L[1]
      /\ \A i \in 1..n : nx[L[i]] = IF i = n THEN NULL ELSE L[i + 1]
      /\ \A i \in 1..n : pv[L[i]] = IF i = 1 THEN NULL ELSE L[i - 1]
      /\ \A i \in 1..n : L[i] # d /\ L[i] \in Entries
  BY DEF Linked, Injective, Range
<1>2. /\ P \in [1..(n + 1) -> Entries]
      /\ n + 1 \in Nat
      /\ P[n + 1] = d
      /\ \A i \in 1..n : P[i] = L[i]
  BY <1>1 DEF Appended
<1> HIDE DEF P
<1>3. Injective(P, n + 1)
  <2> SUFFICES ASSUME NEW i \in 1..(n + 1), NEW k \in 1..(n + 1), P[i] = P[k]
               PROVE  i = k
    BY DEF Injective
  <2>1. i \in 1..n \/ i = n + 1
    BY <1>1
  <2>2. k \in 1..n \/ k = n + 1
    BY <1>1
  <2> QED BY <1>1, <1>2, <2>1, <2>2
<1>4. ASSUME NEW i \in 1..(n + 1)
      PROVE  nx2[P[i]] = IF i = n + 1 THEN NULL ELSE P[i + 1]
  <2>1. CASE i = n + 1
    BY <1>1, <1>2, <2>1
  <2>2. CASE i = n
    BY <1>1, <1>2, <2>2
  <2>3. CASE i < n
    <3>1. i \in 1..n /\ P[i] = L[i] /\ P[i + 1] = L[i + 1] /\ n # 0
      BY <1>1, <1>2, <2>3
    <3>2. L[i] # last /\ L[i] \in Entries /\ L[i] # d
      BY <1>1, <2>3, <3>1
    <3>3. nx[L[i]] = L[i + 1]
      BY <1>1, <2>3, <3>1
    <3> QED BY <1>1, <2>3, <3>1, <3>2, <3>3
  <2> QED BY <1>1, <2>1, <2>2, <2>3
<1>5. ASSUME NEW i \in 1..(n + 1)
      PROVE  pv2[P[i]] = IF i = 1 THEN NULL ELSE P[i - 1]
  <2>1. CASE i = n + 1
    <3>0. n \in Nat
      BY <1>1
    <3>1. i # 1 => i - 1 = n /\ n \in 1..n
      BY <2>1, <3>0
    <3>2. i = 1 => n = 0
      BY <2>1, <3>0
    <3> QED BY <1>1, <1>2, <2>1, <3>1, <3>2
  <2>2. CASE i \in 1..n
    <3>1. P[i] = L[i] /\ (i # 1 => P[i - 1] = L[i - 1])
      BY <1>1, <1>2, <2>2
    <3> QED BY <1>1, <2>2, <3>1
  <2> QED BY <1>1, <2>1, <2>2
<1>6. first2 = IF n + 1 = 0 THEN NULL ELSE P[1]
  BY <1>1, <1>2
<1> QED BY <1>2, <1>3, <1>4, <1>5, <1>6 DEF Linked, P

(* A list is what it was when its pointers are.                            *)
LEMMA Frame ==
  ASSUME NEW nx, NEW pv, NEW first, NEW L, NEW n, Linked(nx, pv, first, L, n),
         NEW nx2, NEW pv2,
         \A e \in Range(L) : nx2[e] = nx[e] /\ pv2[e] = pv[e]
  PROVE  Linked(nx2, pv2, first, L, n)
<1>1. \A i \in 1..n : L[i] \in Range(L)
  BY DEF Linked, Range
<1> QED BY <1>1 DEF Linked

(* No list of different elements is longer than the array.                 *)
LEMMA ListFits ==
  ASSUME NEW n \in Nat, NEW L \in [1..n -> Entries], Injective(L, n)
  PROVE  /\ n <= Cardinality(Entries)
         /\ Cardinality(Entries) \in Nat
         /\ Cardinality(Entries) = CacheSize
         /\ IsFiniteSet(Entries)
<1>1. /\ IsFiniteSet(1..n)
      /\ Cardinality(1..n) = n
  <2>1. 1 \in Int /\ n \in Int /\ ~ (1 > n) => n - 1 + 1 = n
    OBVIOUS
  <2> QED BY <2>1, FS_Interval
<1>2. /\ IsFiniteSet(Entries)
      /\ Cardinality(Entries) = CacheSize
  BY CacheSizeAssumption, FS_Interval DEF Entries
<1>3. L \in Injection(1..n, Entries)
  BY DEF Injection, Injective, IsInjective
<1>4. Cardinality(1..n) <= Cardinality(Entries)
  BY <1>1, <1>2, <1>3, FS_Injection
<1> QED BY <1>1, <1>2, <1>4, CacheSizeAssumption

(* Following the pointers of a field visits the elements that it links.    *)
LEMMA ChainIs ==
  ASSUME NEW hh, NEW p, NEW field, NEW n \in Nat, NEW L \in [1..n -> Entries],
         Injective(L, n),
         p = IF n = 0 THEN NULL ELSE L[1],
         \A i \in 1..n : hh[L[i]][field] = IF i = n THEN NULL ELSE L[i + 1]
  PROVE  Chain(hh, p, field) = L
<1> DEFINE N == Cardinality(Entries)
           Walk(w) == [i \in 0..N |-> IF i = 0 THEN p
                                      ELSE IF w[i - 1] = NULL THEN NULL ELSE hh[w[i - 1]][field]]
           v == [i \in 0..N |-> IF i < n THEN L[i + 1] ELSE NULL]
           walk == CHOOSE w : w = Walk(w)
           visited == {i \in DOMAIN walk : walk[i] # NULL}
<1>1. N \in Nat /\ n <= N
  BY ListFits
<1>2. Chain(hh, p, field) = [i \in 1..Cardinality(visited) |-> walk[i - 1]]
  BY DEF Chain
<1> HIDE DEF N
<1>3. \A i \in 1..n : L[i] # NULL
  BY NullAssumption
<1>4. v = Walk(v)
  <2>1. ASSUME NEW i \in 0..N
        PROVE  v[i] = Walk(v)[i]
    <3>1. CASE i = 0
      BY <1>1, <3>1
    <3>2. CASE i # 0 /\ i <= n
      <4>1. i \in 1..n /\ v[i - 1] = L[i] /\ L[i] # NULL
        BY <1>1, <1>3, <3>2
      <4>2. Walk(v)[i] = hh[L[i]][field]
        BY <4>1
      <4> QED BY <1>1, <4>1, <4>2
    <3>3. CASE i > n
      <4>1. v[i - 1] = NULL /\ v[i] = NULL /\ i # 0
        BY <1>1, <3>3
      <4> QED BY <4>1
    <3> QED BY <1>1, <3>1, <3>2, <3>3
  <2>2. /\ v = [i \in 0..N |-> v[i]]
        /\ Walk(v) = [i \in 0..N |-> Walk(v)[i]]
    OBVIOUS
  <2> HIDE DEF v, Walk
  <2> QED BY <2>1, <2>2
<1>5. walk = Walk(walk)
  <2> HIDE DEF Walk, v
  <2> QED BY <1>4
<1>6. walk = v
  <2> HIDE DEF walk, v
  <2> DEFINE S == {i \in 0..N : walk[i] = v[i]}
  <2>0. /\ walk = [i \in 0..N |-> walk[i]]
        /\ v = [i \in 0..N |-> v[i]]
        /\ walk[0] = p
        /\ v[0] = p
    BY <1>1, <1>4, <1>5
  <2>1. \A i \in 0..(N - 1) : i \in S => i + 1 \in S
    <3> SUFFICES ASSUME NEW i \in 0..(N - 1), walk[i] = v[i]
                 PROVE  walk[i + 1] = v[i + 1]
      BY <1>1
    <3>1. i + 1 \in 0..N /\ i + 1 # 0 /\ (i + 1) - 1 = i
      BY <1>1
    <3>2. walk[i + 1] = Walk(walk)[i + 1] /\ v[i + 1] = Walk(v)[i + 1]
      BY <1>4, <1>5
    <3> QED BY <3>1, <3>2
  <2>2. 0 \in S
    BY <1>1, <2>0
  <2>3. \A i \in 0..N : i \in S
    <3> HIDE DEF S
    <3> QED BY <1>1, <2>1, <2>2, UpTo
  <2> QED BY <2>0, <2>3
<1>7. visited = 0..(n - 1)
  <2>1. visited = {i \in 0..N : v[i] # NULL}
    <3>1. DOMAIN v = 0..N
      OBVIOUS
    <3> HIDE DEF v, walk
    <3> QED BY <1>6, <3>1
  <2>2. \A i \in 0..N : v[i] # NULL <=> i < n
    BY <1>1, <1>3
  <2> HIDE DEF visited, v
  <2> QED BY <1>1, <2>1, <2>2
<1>8. Cardinality(visited) = n
  <2>1. Cardinality(0..(n - 1)) = n
    BY FS_Interval
  <2> QED BY <1>7, <2>1
<1>9. [i \in 1..n |-> walk[i - 1]] = L
  <2>1. \A i \in 1..n : v[i - 1] = L[i]
    BY <1>1
  <2> QED BY <1>6, <2>1
<1> QED BY <1>2, <1>8, <1>9

-----------------------------------------------------------------------------
(* The chains of the buckets.                                              *)

Handle ==
  [prev : Pointer, next : Pointer, hh_prev : Pointer, hh_next : Pointer, hashv : Nat]
Bucket == [hh_head : Pointer, count : Nat, expand_mult : Nat]

Nexts(hh) == [e \in Entries |-> hh[e].next]
Prevs(hh) == [e \in Entries |-> hh[e].prev]
BktNexts(hh) == [e \in Entries |-> hh[e].hh_next]
BktPrevs(hh) == [e \in Entries |-> hh[e].hh_prev]

(* The chain of a bucket has the elements of M, its count of them.         *)
Holds(hh, bkt, M) ==
  \E S : /\ Linked(BktNexts(hh), BktPrevs(hh), bkt.hh_head, S, bkt.count)
         /\ Range(S) = M

(* The pointers of a chain do not leave it.                                *)
LEMMA HoldsClosed ==
  ASSUME NEW hh, NEW bkt, NEW M, Holds(hh, bkt, M)
  PROVE  /\ M \subseteq Entries
         /\ bkt.hh_head \in M \cup {NULL}
         /\ \A e \in M : hh[e].hh_next \in M \cup {NULL} /\ hh[e].hh_prev \in M \cup {NULL}
<1>1. PICK S : /\ Linked(BktNexts(hh), BktPrevs(hh), bkt.hh_head, S, bkt.count)
               /\ Range(S) = M
  BY DEF Holds
<1>2. PICK n \in Nat : n = bkt.count
  BY <1>1 DEF Linked
<1>3. /\ S \in [1..n -> Entries]
      /\ bkt.hh_head = IF n = 0 THEN NULL ELSE S[1]
      /\ \A i \in 1..n : BktNexts(hh)[S[i]] = IF i = n THEN NULL ELSE S[i + 1]
      /\ \A i \in 1..n : BktPrevs(hh)[S[i]] = IF i = 1 THEN NULL ELSE S[i - 1]
  BY <1>1, <1>2 DEF Linked
<1>4. \A i \in 1..n : S[i] \in M /\ S[i] \in Entries
  BY <1>1, <1>3 DEF Range
<1>5. \A e \in M : \E i \in 1..n : e = S[i]
  BY <1>1, <1>3 DEF Range
<1>6. bkt.hh_head \in M \cup {NULL}
  BY <1>3, <1>4
<1>7. ASSUME NEW e \in M
      PROVE  /\ e \in Entries
             /\ hh[e].hh_next \in M \cup {NULL}
             /\ hh[e].hh_prev \in M \cup {NULL}
  <2>1. PICK i \in 1..n : e = S[i]
    BY <1>5
  <2>2. BktNexts(hh)[e] = hh[e].hh_next /\ BktPrevs(hh)[e] = hh[e].hh_prev
    BY <1>4, <2>1 DEF BktNexts, BktPrevs
  <2>3. BktNexts(hh)[e] \in M \cup {NULL}
    BY <1>3, <1>4, <2>1
  <2>4. BktPrevs(hh)[e] \in M \cup {NULL}
    BY <1>3, <1>4, <2>1
  <2> QED BY <1>4, <2>1, <2>2, <2>3, <2>4
<1> QED BY <1>6, <1>7

(* A bucket keeps its chain while the links of its elements stay.          *)
LEMMA HoldsFrame ==
  ASSUME NEW hh, NEW bkt, NEW M, Holds(hh, bkt, M), NEW hh2, NEW bkt2,
         \A e \in M : hh2[e].hh_next = hh[e].hh_next /\ hh2[e].hh_prev = hh[e].hh_prev,
         bkt2.hh_head = bkt.hh_head, bkt2.count = bkt.count
  PROVE  Holds(hh2, bkt2, M)
<1>1. PICK S : /\ Linked(BktNexts(hh), BktPrevs(hh), bkt.hh_head, S, bkt.count)
               /\ Range(S) = M
  BY DEF Holds
<1>2. M \subseteq Entries
  BY HoldsClosed
<1>3. \A e \in Range(S) : /\ BktNexts(hh2)[e] = BktNexts(hh)[e]
                          /\ BktPrevs(hh2)[e] = BktPrevs(hh)[e]
  BY <1>1, <1>2 DEF BktNexts, BktPrevs
<1>4. Linked(BktNexts(hh2), BktPrevs(hh2), bkt.hh_head, S, bkt.count)
  BY <1>1, <1>3, Frame
<1> QED BY <1>1, <1>4 DEF Holds

(* An element added at the head of a chain                                 *)
LEMMA HoldsAdded ==
  ASSUME NEW hh, NEW bkt, NEW M, Holds(hh, bkt, M), NEW hh2, NEW bkt2,
         NEW d \in Entries, d \notin M,
         hh2[d].hh_next = bkt.hh_head, hh2[d].hh_prev = NULL,
         \A e \in Entries : e # d =>
           /\ hh2[e].hh_next = hh[e].hh_next
           /\ hh2[e].hh_prev = IF e = bkt.hh_head THEN d ELSE hh[e].hh_prev,
         bkt2.hh_head = d, bkt2.count = bkt.count + 1
  PROVE  Holds(hh2, bkt2, M \cup {d})
<1>1. PICK S : /\ Linked(BktNexts(hh), BktPrevs(hh), bkt.hh_head, S, bkt.count)
               /\ Range(S) = M
  BY DEF Holds
<1> DEFINE nx == BktNexts(hh)  pv == BktPrevs(hh)  nx2 == BktNexts(hh2)  pv2 == BktPrevs(hh2)
           n == bkt.count
           P == Pushed(d, S, n)
<1>2. /\ nx2[d] = bkt.hh_head
      /\ pv2[d] = NULL
      /\ \A e \in Entries : e # d =>
           /\ nx2[e] = nx[e]
           /\ pv2[e] = IF e = bkt.hh_head THEN d ELSE pv[e]
  BY DEF BktNexts, BktPrevs
<1>3. Linked(nx, pv, bkt.hh_head, S, n) /\ d \notin Range(S)
  BY <1>1
<1> HIDE DEF nx, pv, nx2, pv2, n
<1>4. Linked(nx2, pv2, d, P, n + 1)
  BY <1>2, <1>3, PushFront
<1>5. Range(P) = M \cup {d}
  <2>1. n \in Nat /\ S \in [1..n -> Entries]
    BY <1>3 DEF Linked
  <2>2. /\ P = [i \in 1..(n + 1) |-> P[i]]
        /\ P[1] = d
        /\ \A i \in 1..n : P[i + 1] = S[i]
    BY <2>1 DEF Pushed
  <2> HIDE DEF P
  <2>3. \A i \in 1..(n + 1) : i = 1 \/ (i - 1 \in 1..n /\ (i - 1) + 1 = i)
    BY <2>1
  <2>4. \A i \in 1..n : i + 1 \in 1..(n + 1)
    BY <2>1
  <2>0. \A e : e \in M <=> \E i \in 1..n : e = S[i]
    BY <1>1, <2>1 DEF Range
  <2>5. ASSUME NEW i \in 1..(n + 1)
        PROVE  P[i] \in M \cup {d}
    <3>1. CASE i = 1
      BY <2>2, <3>1
    <3>2. CASE i - 1 \in 1..n /\ (i - 1) + 1 = i
      <4>1. P[i] = S[i - 1]
        BY <2>2, <3>2
      <4> QED BY <2>0, <3>2, <4>1
    <3> QED BY <2>3, <3>1, <3>2
  <2>6. \A e \in M : \E i \in 1..(n + 1) : e = P[i]
    BY <2>0, <2>2, <2>4
  <2>7. 1 \in 1..(n + 1) /\ DOMAIN P = 1..(n + 1)
    BY <2>1, <2>2
  <2> QED BY <2>2, <2>5, <2>6, <2>7 DEF Range
<1> QED BY <1>4, <1>5 DEF Holds, nx2, pv2, n

(* An element unlinked from a chain                                        *)
LEMMA HoldsDeleted ==
  ASSUME NEW hh, NEW bkt, NEW M, Holds(hh, bkt, M), NEW hh2, NEW bkt2, NEW d \in M,
         \A e \in Entries : e # d =>
           /\ hh2[e].hh_next = IF e = hh[d].hh_prev THEN hh[d].hh_next ELSE hh[e].hh_next
           /\ hh2[e].hh_prev = IF e = hh[d].hh_next THEN hh[d].hh_prev ELSE hh[e].hh_prev,
         bkt2.hh_head = IF bkt.hh_head = d THEN hh[d].hh_next ELSE bkt.hh_head,
         bkt2.count = bkt.count - 1
  PROVE  Holds(hh2, bkt2, M \ {d})
<1>1. PICK S : /\ Linked(BktNexts(hh), BktPrevs(hh), bkt.hh_head, S, bkt.count)
               /\ Range(S) = M
  BY DEF Holds
<1> DEFINE nx == BktNexts(hh)  pv == BktPrevs(hh)  nx2 == BktNexts(hh2)  pv2 == BktPrevs(hh2)
           n == bkt.count
<1>2. /\ d \in Entries
      /\ nx[d] = hh[d].hh_next
      /\ pv[d] = hh[d].hh_prev
      /\ \A e \in Entries : e # d =>
           /\ nx2[e] = IF e = pv[d] THEN nx[d] ELSE nx[e]
           /\ pv2[e] = IF e = nx[d] THEN pv[d] ELSE pv[e]
  <2>1. d \in Entries
    BY HoldsClosed
  <2> QED BY <2>1 DEF BktNexts, BktPrevs
<1>3. Linked(nx, pv, bkt.hh_head, S, n)
  BY <1>1
<1> HIDE DEF nx, pv, nx2, pv2, n
<1>4. n \in Nat /\ S \in [1..n -> Entries] /\ Injective(S, n)
  BY <1>3 DEF Linked
<1>5. PICK j \in 1..n : S[j] = d
  BY <1>1, <1>4 DEF Range
<1> DEFINE W == Without(S, n, j)
<1>6. Linked(nx2, pv2, bkt2.hh_head, W, n - 1)
  <2>1. \A e \in Entries : e # S[j] =>
           /\ nx2[e] = IF e = pv[S[j]] THEN nx[S[j]] ELSE nx[e]
           /\ pv2[e] = IF e = nx[S[j]] THEN pv[S[j]] ELSE pv[e]
    BY <1>2, <1>5
  <2>2. bkt2.hh_head = IF bkt.hh_head = S[j] THEN nx[S[j]] ELSE bkt.hh_head
    BY <1>2, <1>5
  <2> HIDE DEF W
  <2> QED BY <1>3, <2>1, <2>2, Unlink DEF W
<1>7. Range(W) = M \ {d}
  <2>1. Range(W) = Range(S) \ {S[j]}
    BY <1>4, WithoutRange
  <2> QED BY <1>1, <1>5, <2>1
<1> HIDE DEF W
<1> QED BY <1>6, <1>7 DEF Holds, nx2, pv2, n

(* The elements of M that belong into bucket b of n                        *)
InBucket(hh, n, M, b) == {e \in M : hh[e].hashv % n = b}

(* The buckets have the elements of M, each where its hash value says.     *)
Chains(hh, buckets, n, M) ==
  /\ n \in Nat \ {0}
  /\ M \subseteq Entries
  /\ buckets \in [0..(n - 1) -> Bucket]
  /\ \A b \in 0..(n - 1) : Holds(hh, buckets[b], InBucket(hh, n, M, b))

(* The links of the elements once d is linked before first                 *)
BktLinks(hh, d, first, hh2) ==
  /\ hh \in [Entries -> Handle]
  /\ hh2 \in [Entries -> Handle]
  /\ hh2[d].hh_next = first
  /\ hh2[d].hh_prev = NULL
  /\ \A e \in Entries : hh2[e].hashv = hh[e].hashv
  /\ \A e \in Entries : e # d =>
       /\ hh2[e].hh_next = hh[e].hh_next
       /\ hh2[e].hh_prev = IF e = first THEN d ELSE hh[e].hh_prev

(* The links of the elements once d is unlinked                            *)
BktUnlinks(hh, d, hh2) ==
  /\ hh \in [Entries -> Handle]
  /\ hh2 \in [Entries -> Handle]
  /\ \A e \in Entries : hh2[e].hashv = hh[e].hashv
  /\ \A e \in Entries : e # d =>
       /\ hh2[e].hh_next = IF e = hh[d].hh_prev THEN hh[d].hh_next ELSE hh[e].hh_next
       /\ hh2[e].hh_prev = IF e = hh[d].hh_next THEN hh[d].hh_prev ELSE hh[e].hh_prev

(* The buckets once b0 has another head and count                          *)
BktChanges(buckets, n, b0, head, count, buckets2) ==
  /\ buckets2 \in [0..(n - 1) -> Bucket]
  /\ buckets2[b0].hh_head = head
  /\ buckets2[b0].count = count
  /\ \A b \in 0..(n - 1) : b # b0 => buckets2[b] = buckets[b]

(* HASH_ADD_TO_BKT, and a step of HASH_EXPAND_BUCKETS                      *)
LEMMA ChainsAdded ==
  ASSUME NEW hh, NEW buckets, NEW n, NEW M, Chains(hh, buckets, n, M),
         NEW d \in Entries, d \notin M, NEW b0, b0 = hh[d].hashv % n,
         NEW hh2, BktLinks(hh, d, buckets[b0].hh_head, hh2),
         NEW buckets2, BktChanges(buckets, n, b0, d, buckets[b0].count + 1, buckets2)
  PROVE  Chains(hh2, buckets2, n, M \cup {d})
<1> USE DEF BktLinks, BktChanges
<1>1. /\ n \in Nat \ {0}
      /\ M \subseteq Entries
      /\ \A b \in 0..(n - 1) : Holds(hh, buckets[b], InBucket(hh, n, M, b))
  BY DEF Chains
<1>2. hh[d].hashv \in Nat
  BY DEF Handle
<1>3. b0 \in 0..(n - 1)
  BY <1>1, <1>2, Remainder
<1>4. ASSUME NEW b \in 0..(n - 1)
      PROVE  InBucket(hh2, n, M \cup {d}, b) =
               IF b = b0 THEN InBucket(hh, n, M, b) \cup {d} ELSE InBucket(hh, n, M, b)
  BY <1>1 DEF InBucket
<1>5. ASSUME NEW b \in 0..(n - 1)
      PROVE  Holds(hh2, buckets2[b], InBucket(hh2, n, M \cup {d}, b))
  <2>1. CASE b = b0
    <3>1. Holds(hh, buckets[b], InBucket(hh, n, M, b)) /\ d \notin InBucket(hh, n, M, b)
      BY <1>1 DEF InBucket
    <3>2. Holds(hh2, buckets2[b], InBucket(hh, n, M, b) \cup {d})
      BY <2>1, <3>1, HoldsAdded
    <3> QED BY <1>4, <2>1, <3>2
  <2>2. CASE b # b0
    <3>1. Holds(hh, buckets[b], InBucket(hh, n, M, b))
      BY <1>1
    <3>2. buckets[b0].hh_head \in InBucket(hh, n, M, b0) \cup {NULL}
      BY <1>1, <1>3, HoldsClosed
    <3>3. \A e \in InBucket(hh, n, M, b) :
            e \in Entries /\ e # d /\ e # buckets[b0].hh_head
      BY <1>1, <2>2, <3>2, NullAssumption DEF InBucket
    <3>4. \A e \in InBucket(hh, n, M, b) :
            hh2[e].hh_next = hh[e].hh_next /\ hh2[e].hh_prev = hh[e].hh_prev
      BY <3>3
    <3>5. buckets2[b].hh_head = buckets[b].hh_head /\ buckets2[b].count = buckets[b].count
      BY <2>2
    <3>6. Holds(hh2, buckets2[b], InBucket(hh, n, M, b))
      BY <3>1, <3>4, <3>5, HoldsFrame
    <3> QED BY <1>4, <2>2, <3>6
  <2> QED BY <2>1, <2>2
<1> QED BY <1>1, <1>5 DEF Chains

(* HASH_DEL_IN_BKT                                                         *)
LEMMA ChainsDeleted ==
  ASSUME NEW hh, NEW buckets, NEW n, NEW M, Chains(hh, buckets, n, M),
         NEW d \in M, NEW b0, b0 = hh[d].hashv % n,
         NEW hh2, BktUnlinks(hh, d, hh2), NEW buckets2, NEW first,
         first = IF buckets[b0].hh_head = d THEN hh[d].hh_next ELSE buckets[b0].hh_head,
         BktChanges(buckets, n, b0, first, buckets[b0].count - 1, buckets2)
  PROVE  Chains(hh2, buckets2, n, M \ {d})
<1> USE DEF BktUnlinks, BktChanges
<1>1. /\ n \in Nat \ {0}
      /\ M \subseteq Entries
      /\ \A b \in 0..(n - 1) : Holds(hh, buckets[b], InBucket(hh, n, M, b))
  BY DEF Chains
<1>2. hh[d].hashv \in Nat
  BY <1>1 DEF Handle
<1>3. b0 \in 0..(n - 1) /\ d \in InBucket(hh, n, M, b0)
  BY <1>1, <1>2, Remainder DEF InBucket
<1>4. ASSUME NEW b \in 0..(n - 1)
      PROVE  InBucket(hh2, n, M \ {d}, b) =
               IF b = b0 THEN InBucket(hh, n, M, b) \ {d} ELSE InBucket(hh, n, M, b)
  BY <1>1 DEF InBucket
<1>5. ASSUME NEW b \in 0..(n - 1)
      PROVE  Holds(hh2, buckets2[b], InBucket(hh2, n, M \ {d}, b))
  <2>1. CASE b = b0
    <3>1. Holds(hh, buckets[b], InBucket(hh, n, M, b)) /\ d \in InBucket(hh, n, M, b)
      BY <1>1, <1>3, <2>1
    <3>2. Holds(hh2, buckets2[b], InBucket(hh, n, M, b) \ {d})
      BY <2>1, <3>1, HoldsDeleted
    <3> QED BY <1>4, <2>1, <3>2
  <2>2. CASE b # b0
    <3>1. Holds(hh, buckets[b], InBucket(hh, n, M, b))
      BY <1>1
    <3>2. /\ hh[d].hh_next \in InBucket(hh, n, M, b0) \cup {NULL}
          /\ hh[d].hh_prev \in InBucket(hh, n, M, b0) \cup {NULL}
      BY <1>1, <1>3, HoldsClosed
    <3>3. \A e \in InBucket(hh, n, M, b) :
            e \in Entries /\ e # d /\ e # hh[d].hh_next /\ e # hh[d].hh_prev
      BY <1>1, <2>2, <3>2, NullAssumption DEF InBucket
    <3>4. \A e \in InBucket(hh, n, M, b) :
            hh2[e].hh_next = hh[e].hh_next /\ hh2[e].hh_prev = hh[e].hh_prev
      BY <3>3
    <3>5. buckets2[b].hh_head = buckets[b].hh_head /\ buckets2[b].count = buckets[b].count
      BY <2>2
    <3>6. Holds(hh2, buckets2[b], InBucket(hh, n, M, b))
      BY <3>1, <3>4, <3>5, HoldsFrame
    <3> QED BY <1>4, <2>2, <3>6
  <2> QED BY <2>1, <2>2
<1> QED BY <1>1, <1>5 DEF Chains

-----------------------------------------------------------------------------
(* The macros, field by field.                                             *)

TableRecord ==
  [buckets : UNION {[0..(n - 1) -> Bucket] : n \in Nat \ {0}}, num_buckets : Nat \ {0},
   num_items : Nat, tail : Pointer, ineff_expands : Nat, noexpand : BOOLEAN]
HashRecord == [head : Pointer, tbl : TableRecord \cup {NULL}, hh : [Entries -> Handle]]

(* A write through a pointer changes one field of one element.             *)
LEMMA LinkNext ==
  ASSUME NEW hh \in [Entries -> Handle], NEW p \in Pointer, NEW v \in Pointer
  PROVE  /\ Link(hh, p, "next", v) \in [Entries -> Handle]
         /\ \A e \in Entries :
              /\ Link(hh, p, "next", v)[e].next = IF e = p THEN v ELSE hh[e].next
              /\ Link(hh, p, "next", v)[e].prev = hh[e].prev
              /\ Link(hh, p, "next", v)[e].hh_next = hh[e].hh_next
              /\ Link(hh, p, "next", v)[e].hh_prev = hh[e].hh_prev
              /\ Link(hh, p, "next", v)[e].hashv = hh[e].hashv
BY NullAssumption DEF Link, Pointer, Handle

(* The same for prev                                                       *)
LEMMA LinkPrev ==
  ASSUME NEW hh \in [Entries -> Handle], NEW p \in Pointer, NEW v \in Pointer
  PROVE  /\ Link(hh, p, "prev", v) \in [Entries -> Handle]
         /\ \A e \in Entries :
              /\ Link(hh, p, "prev", v)[e].next = hh[e].next
              /\ Link(hh, p, "prev", v)[e].prev = IF e = p THEN v ELSE hh[e].prev
              /\ Link(hh, p, "prev", v)[e].hh_next = hh[e].hh_next
              /\ Link(hh, p, "prev", v)[e].hh_prev = hh[e].hh_prev
              /\ Link(hh, p, "prev", v)[e].hashv = hh[e].hashv
BY NullAssumption DEF Link, Pointer, Handle

(* The same for hh_next                                                    *)
LEMMA LinkBktNext ==
  ASSUME NEW hh \in [Entries -> Handle], NEW p \in Pointer, NEW v \in Pointer
  PROVE  /\ Link(hh, p, "hh_next", v) \in [Entries -> Handle]
         /\ \A e \in Entries :
              /\ Link(hh, p, "hh_next", v)[e].next = hh[e].next
              /\ Link(hh, p, "hh_next", v)[e].prev = hh[e].prev
              /\ Link(hh, p, "hh_next", v)[e].hh_next = IF e = p THEN v ELSE hh[e].hh_next
              /\ Link(hh, p, "hh_next", v)[e].hh_prev = hh[e].hh_prev
              /\ Link(hh, p, "hh_next", v)[e].hashv = hh[e].hashv
BY NullAssumption DEF Link, Pointer, Handle

(* The same for hh_prev                                                    *)
LEMMA LinkBktPrev ==
  ASSUME NEW hh \in [Entries -> Handle], NEW p \in Pointer, NEW v \in Pointer
  PROVE  /\ Link(hh, p, "hh_prev", v) \in [Entries -> Handle]
         /\ \A e \in Entries :
              /\ Link(hh, p, "hh_prev", v)[e].next = hh[e].next
              /\ Link(hh, p, "hh_prev", v)[e].prev = hh[e].prev
              /\ Link(hh, p, "hh_prev", v)[e].hh_next = hh[e].hh_next
              /\ Link(hh, p, "hh_prev", v)[e].hh_prev = IF e = p THEN v ELSE hh[e].hh_prev
              /\ Link(hh, p, "hh_prev", v)[e].hashv = hh[e].hashv
BY NullAssumption DEF Link, Pointer, Handle

(* A bucket that loses an element                                          *)
LEMMA BktWithoutFields ==
  ASSUME NEW bkt \in Bucket, NEW d, NEW p \in Pointer, bkt.count # 0
  PROVE  /\ BktWithout(bkt, d, p) \in Bucket
         /\ BktWithout(bkt, d, p).count = bkt.count - 1
         /\ BktWithout(bkt, d, p).hh_head = IF bkt.hh_head = d THEN p ELSE bkt.hh_head
BY DEF BktWithout, Bucket

(* A bucket that gets an element                                           *)
LEMMA BktWithFields ==
  ASSUME NEW bkt \in Bucket, NEW d \in Entries
  PROVE  /\ BktWith(bkt, d) \in Bucket
         /\ BktWith(bkt, d).count = bkt.count + 1
         /\ BktWith(bkt, d).hh_head = d
BY DEF BktWith, Bucket, Pointer

(* What HASH_DEL_IN_BKT leaves                                             *)
LEMMA DelInBktFields ==
  ASSUME NEW H \in HashRecord, H.tbl \in TableRecord,
         NEW n, n = H.tbl.num_buckets, H.tbl.buckets \in [0..(n - 1) -> Bucket],
         NEW b \in 0..(n - 1), H.tbl.buckets[b].count # 0, NEW d \in Entries
  PROVE  LET R == HASH_DEL_IN_BKT(H, b, d)
             t == H.tbl
         IN  /\ R \in HashRecord
             /\ R.head = H.head
             /\ R.tbl \in TableRecord
             /\ R.tbl.tail = t.tail /\ R.tbl.num_items = t.num_items /\ R.tbl.num_buckets = n
             /\ R.tbl.buckets \in [0..(n - 1) -> Bucket]
             /\ R.tbl.buckets[b].count = t.buckets[b].count - 1
             /\ R.tbl.buckets[b].hh_head =
                  IF t.buckets[b].hh_head = d THEN H.hh[d].hh_next ELSE t.buckets[b].hh_head
             /\ \A c \in 0..(n - 1) : c # b => R.tbl.buckets[c] = t.buckets[c]
             /\ R.hh \in [Entries -> Handle]
             /\ \A e \in Entries :
                  /\ R.hh[e].next = H.hh[e].next
                  /\ R.hh[e].prev = H.hh[e].prev
                  /\ R.hh[e].hashv = H.hh[e].hashv
                  /\ R.hh[e].hh_next =
                       IF e = H.hh[d].hh_prev THEN H.hh[d].hh_next ELSE H.hh[e].hh_next
                  /\ R.hh[e].hh_prev =
                       IF e = H.hh[d].hh_next THEN H.hh[d].hh_prev ELSE H.hh[e].hh_prev
<1> DEFINE R == HASH_DEL_IN_BKT(H, b, d)
           t == H.tbl
           del == H.hh[d]
           hh1 == Link(H.hh, del.hh_prev, "hh_next", del.hh_next)
           hh2 == Link(hh1, del.hh_next, "hh_prev", del.hh_prev)
           head2 == IF t.buckets[b].hh_head = d THEN del.hh_next ELSE t.buckets[b].hh_head
           bkt2 == BktWithout(t.buckets[b], d, del.hh_next)
           buckets2 == [t.buckets EXCEPT ![b] = bkt2]
<1>0. t.buckets[b] \in Bucket
  OBVIOUS
<1>1. H.hh \in [Entries -> Handle]
  BY DEF HashRecord
<1>2. del.hh_prev \in Pointer /\ del.hh_next \in Pointer
  BY <1>1 DEF Handle
<1>3. /\ hh1 \in [Entries -> Handle]
      /\ \A e \in Entries :
           /\ hh1[e].next = H.hh[e].next
           /\ hh1[e].prev = H.hh[e].prev
           /\ hh1[e].hh_next = IF e = del.hh_prev THEN del.hh_next ELSE H.hh[e].hh_next
           /\ hh1[e].hh_prev = H.hh[e].hh_prev
           /\ hh1[e].hashv = H.hh[e].hashv
  BY <1>1, <1>2, LinkBktNext
<1>4. /\ hh2 \in [Entries -> Handle]
      /\ \A e \in Entries :
           /\ hh2[e].next = hh1[e].next
           /\ hh2[e].prev = hh1[e].prev
           /\ hh2[e].hh_next = hh1[e].hh_next
           /\ hh2[e].hh_prev = IF e = del.hh_next THEN del.hh_prev ELSE hh1[e].hh_prev
           /\ hh2[e].hashv = hh1[e].hashv
  <2> HIDE DEF hh1
  <2> QED BY <1>2, <1>3, LinkBktPrev
<1>5. bkt2 \in Bucket /\ bkt2.count = t.buckets[b].count - 1 /\ bkt2.hh_head = head2
  BY <1>0, <1>2, BktWithoutFields
<1>6. /\ buckets2 \in [0..(n - 1) -> Bucket]
      /\ buckets2[b].count = t.buckets[b].count - 1
      /\ buckets2[b].hh_head = head2
      /\ \A c \in 0..(n - 1) : c # b => buckets2[c] = t.buckets[c]
  <2> HIDE DEF bkt2, head2
  <2> QED BY <1>5
<1>7. R = [head |-> H.head, tbl |-> [t EXCEPT !.buckets = buckets2], hh |-> hh2]
  <2>1. R = [H EXCEPT !.tbl.buckets[b] = bkt2, !.hh = hh2]
    BY DEF HASH_DEL_IN_BKT
  <2> HIDE DEF R, bkt2, hh2
  <2> QED BY <2>1 DEF HashRecord, TableRecord
<1> HIDE DEF R, hh1, hh2, buckets2
<1>8. /\ R.head = H.head
      /\ R.hh = hh2
      /\ R.tbl = [t EXCEPT !.buckets = buckets2]
  BY <1>7
<1>9. /\ R.tbl \in TableRecord
      /\ R.tbl.buckets = buckets2
      /\ R.tbl.tail = t.tail
      /\ R.tbl.num_items = t.num_items
      /\ R.tbl.num_buckets = n
  BY <1>6, <1>8 DEF TableRecord
<1>10. R \in HashRecord
  BY <1>4, <1>7, <1>8, <1>9 DEF HashRecord
<1> QED BY <1>3, <1>4, <1>6, <1>8, <1>9, <1>10 DEF R

(* What HASH_DELETE leaves before the bucket's turn                        *)
LEMMA UnlinkedFields ==
  ASSUME NEW H \in HashRecord, H.tbl \in TableRecord, H.tbl.num_items # 0, NEW d \in Entries
  PROVE  LET U == Unlinked(H, d)
             t == H.tbl
         IN  /\ U \in HashRecord
             /\ U.head = IF H.hh[d].prev = NULL THEN H.hh[d].next ELSE H.head
             /\ U.tbl \in TableRecord
             /\ U.tbl.tail = IF t.tail = d THEN H.hh[d].prev ELSE t.tail
             /\ U.tbl.num_items = t.num_items - 1
             /\ U.tbl.num_buckets = t.num_buckets
             /\ U.tbl.buckets = t.buckets
             /\ U.hh \in [Entries -> Handle]
             /\ \A e \in Entries :
                  /\ U.hh[e].next = IF e = H.hh[d].prev THEN H.hh[d].next ELSE H.hh[e].next
                  /\ U.hh[e].prev = IF e = H.hh[d].next THEN H.hh[d].prev ELSE H.hh[e].prev
                  /\ U.hh[e].hashv = H.hh[e].hashv
                  /\ U.hh[e].hh_next = H.hh[e].hh_next
                  /\ U.hh[e].hh_prev = H.hh[e].hh_prev
<1> DEFINE U == Unlinked(H, d)
           t == H.tbl
           del == H.hh[d]
           hh1 == Link(H.hh, del.prev, "next", del.next)
           hh2 == Link(hh1, del.next, "prev", del.prev)
           head2 == IF del.prev = NULL THEN del.next ELSE H.head
           tail2 == IF t.tail = d THEN del.prev ELSE t.tail
           t2 == [t EXCEPT !.tail = tail2, !.num_items = @ - 1]
<1>1. H.hh \in [Entries -> Handle] /\ H.head \in Pointer
  BY DEF HashRecord
<1>2. del.prev \in Pointer /\ del.next \in Pointer
  BY <1>1 DEF Handle
<1>3. /\ hh1 \in [Entries -> Handle]
      /\ \A e \in Entries :
           /\ hh1[e].next = IF e = del.prev THEN del.next ELSE H.hh[e].next
           /\ hh1[e].prev = H.hh[e].prev
           /\ hh1[e].hh_next = H.hh[e].hh_next
           /\ hh1[e].hh_prev = H.hh[e].hh_prev
           /\ hh1[e].hashv = H.hh[e].hashv
  BY <1>1, <1>2, LinkNext
<1>4. /\ hh2 \in [Entries -> Handle]
      /\ \A e \in Entries :
           /\ hh2[e].next = hh1[e].next
           /\ hh2[e].prev = IF e = del.next THEN del.prev ELSE hh1[e].prev
           /\ hh2[e].hh_next = hh1[e].hh_next
           /\ hh2[e].hh_prev = hh1[e].hh_prev
           /\ hh2[e].hashv = hh1[e].hashv
  <2> HIDE DEF hh1
  <2> QED BY <1>2, <1>3, LinkPrev
<1>5. tail2 \in Pointer /\ head2 \in Pointer /\ t.num_items - 1 \in Nat
  BY <1>1, <1>2 DEF TableRecord
<1>6. U = [head |-> head2, tbl |-> t2, hh |-> hh2]
  BY DEF Unlinked
<1> HIDE DEF U, hh1, hh2, head2, tail2
<1>7. /\ t2 \in TableRecord
      /\ t2.tail = tail2
      /\ t2.num_items = t.num_items - 1
      /\ t2.num_buckets = t.num_buckets
      /\ t2.buckets = t.buckets
  BY <1>5 DEF TableRecord
<1> HIDE DEF t2
<1>8. U \in HashRecord /\ U.head = head2 /\ U.tbl = t2 /\ U.hh = hh2
  BY <1>4, <1>5, <1>6, <1>7 DEF HashRecord
<1> QED BY <1>3, <1>4, <1>7, <1>8 DEF U, head2, tail2

-----------------------------------------------------------------------------
(* The table as a whole.                                                   *)

(* The hash table H has the n elements of L, added in this order.          *)
Table(H, L, n) ==
  /\ H \in HashRecord
  /\ Linked(Nexts(H.hh), Prevs(H.hh), H.head, L, n)
  /\ n = 0 => H.tbl = NULL
  /\ n # 0 => /\ H.tbl \in TableRecord
              /\ H.tbl.tail = L[n]
              /\ H.tbl.num_items = n
              /\ Chains(H.hh, H.tbl.buckets, H.tbl.num_buckets, Range(L))

(* A bucket that has an element counts it.                                 *)
LEMMA HoldsCount ==
  ASSUME NEW hh, NEW bkt, NEW M, Holds(hh, bkt, M), NEW d \in M
  PROVE  bkt.count \in Nat \ {0}
<1>1. PICK S : /\ Linked(BktNexts(hh), BktPrevs(hh), bkt.hh_head, S, bkt.count)
               /\ Range(S) = M
  BY DEF Holds
<1> QED BY <1>1 DEF Linked, Range

(* The elements a table links                                              *)
LEMMA TableLinks ==
  ASSUME NEW H, NEW L, NEW n, Table(H, L, n)
  PROVE  /\ H.hh \in [Entries -> Handle]
         /\ n \in Nat
         /\ L \in [1..n -> Entries]
         /\ Injective(L, n)
         /\ H.head = IF n = 0 THEN NULL ELSE L[1]
         /\ \A i \in 1..n : H.hh[L[i]].next = IF i = n THEN NULL ELSE L[i + 1]
         /\ \A i \in 1..n : H.hh[L[i]].prev = IF i = 1 THEN NULL ELSE L[i - 1]
         /\ \A i \in 1..n : L[i] \in Range(L)
<1>1. /\ n \in Nat
      /\ L \in [1..n -> Entries]
      /\ Injective(L, n)
      /\ H.head = IF n = 0 THEN NULL ELSE L[1]
      /\ \A i \in 1..n : Nexts(H.hh)[L[i]] = IF i = n THEN NULL ELSE L[i + 1]
      /\ \A i \in 1..n : Prevs(H.hh)[L[i]] = IF i = 1 THEN NULL ELSE L[i - 1]
  BY DEF Table, Linked
<1>2. \A i \in 1..n : L[i] \in Entries /\ L[i] \in Range(L)
  BY <1>1 DEF Range
<1>3. \A e \in Entries : Nexts(H.hh)[e] = H.hh[e].next /\ Prevs(H.hh)[e] = H.hh[e].prev
  BY DEF Nexts, Prevs
<1>4. H.hh \in [Entries -> Handle]
  BY DEF Table, HashRecord
<1> QED BY <1>1, <1>2, <1>3, <1>4

(* HASH_DELETE takes an element out of the list and of its bucket.         *)
LEMMA TableDeleted ==
  ASSUME NEW H, NEW L, NEW n, Table(H, L, n), NEW j \in 1..n
  PROVE  /\ Table(HASH_DELETE(H, L[j]), Without(L, n, j), n - 1)
         /\ \A e \in Entries : HASH_DELETE(H, L[j]).hh[e].hashv = H.hh[e].hashv
<1> DEFINE d == L[j]
           R == HASH_DELETE(H, d)
           W == Without(L, n, j)
<1>1. /\ H.hh \in [Entries -> Handle]
      /\ n \in Nat \ {0}
      /\ L \in [1..n -> Entries]
      /\ Injective(L, n)
      /\ H.head = L[1]
      /\ \A i \in 1..n : H.hh[L[i]].next = IF i = n THEN NULL ELSE L[i + 1]
      /\ \A i \in 1..n : H.hh[L[i]].prev = IF i = 1 THEN NULL ELSE L[i - 1]
      /\ d \in Range(L) /\ d \in Entries
  BY TableLinks
<1>2. /\ H \in HashRecord
      /\ Linked(Nexts(H.hh), Prevs(H.hh), H.head, L, n)
      /\ H.tbl \in TableRecord
      /\ H.tbl.tail = L[n]
      /\ H.tbl.num_items = n
      /\ Chains(H.hh, H.tbl.buckets, H.tbl.num_buckets, Range(L))
  BY <1>1 DEF Table
<1>3. CASE n = 1
  <2>1. H.hh[d].prev = NULL /\ H.hh[d].next = NULL
    BY <1>1, <1>3
  <2>2. R = [head |-> NULL, tbl |-> NULL, hh |-> H.hh]
    BY <2>1 DEF HASH_DELETE
  <2>3. /\ R.head = NULL /\ R.tbl = NULL /\ R.hh = H.hh
    BY <2>2
  <2>4. R \in HashRecord
    BY <1>1, <2>2 DEF HashRecord, Pointer
  <2>5. n - 1 = 0 /\ 1..(n - 1) = {}
    BY <1>3
  <2>6. W \in [1..(n - 1) -> Entries]
    BY <2>5 DEF Without
  <2> HIDE DEF R, W
  <2>7. Linked(Nexts(R.hh), Prevs(R.hh), R.head, W, n - 1)
    BY <2>3, <2>5, <2>6 DEF Linked, Injective
  <2>8. Table(R, W, n - 1)
    BY <2>3, <2>4, <2>5, <2>7 DEF Table
  <2> QED BY <2>3, <2>8 DEF R, W
<1>4. CASE n # 1
  <2> DEFINE t == H.tbl
             N == t.num_buckets
             del == H.hh[d]
             b == del.hashv % N
             U == Unlinked(H, d)
  <2>1. ~ (del.prev = NULL /\ del.next = NULL)
    BY <1>1, <1>4, NullAssumption
  <2>2. R = HASH_DEL_IN_BKT(U, b, d)
    BY <2>1 DEF HASH_DELETE, HASH_TO_BKT
  <2>3. /\ N \in Nat \ {0}
        /\ t.buckets \in [0..(N - 1) -> Bucket]
        /\ \A c \in 0..(N - 1) : Holds(H.hh, t.buckets[c], InBucket(H.hh, N, Range(L), c))
    BY <1>2 DEF Chains
  <2>4. b \in 0..(N - 1)
    <3>1. del.hashv \in Nat
      BY <1>1 DEF Handle
    <3> QED BY <2>3, <3>1, Remainder
  <2>5. t.buckets[b].count # 0
    <3>1. d \in InBucket(H.hh, N, Range(L), b)
      BY <1>1 DEF InBucket
    <3>2. Holds(H.hh, t.buckets[b], InBucket(H.hh, N, Range(L), b))
      BY <2>3, <2>4
    <3> HIDE DEF b, t, N, d
    <3>3. t.buckets[b].count \in Nat \ {0}
      BY <3>1, <3>2, HoldsCount
    <3> QED BY <3>3
  <2>6. /\ U \in HashRecord
        /\ U.head = IF del.prev = NULL THEN del.next ELSE H.head
        /\ U.tbl \in TableRecord
        /\ U.tbl.tail = IF t.tail = d THEN del.prev ELSE t.tail
        /\ U.tbl.num_items = n - 1
        /\ U.tbl.num_buckets = N
        /\ U.tbl.buckets = t.buckets
        /\ U.hh \in [Entries -> Handle]
        /\ \A e \in Entries :
             /\ U.hh[e].next = IF e = del.prev THEN del.next ELSE H.hh[e].next
             /\ U.hh[e].prev = IF e = del.next THEN del.prev ELSE H.hh[e].prev
             /\ U.hh[e].hashv = H.hh[e].hashv
             /\ U.hh[e].hh_next = H.hh[e].hh_next
             /\ U.hh[e].hh_prev = H.hh[e].hh_prev
    BY <1>1, <1>2, UnlinkedFields
  <2> HIDE DEF U, R, b, N
  <2>7. /\ R \in HashRecord
        /\ R.head = U.head
        /\ R.tbl \in TableRecord
        /\ R.tbl.tail = U.tbl.tail /\ R.tbl.num_items = n - 1 /\ R.tbl.num_buckets = N
        /\ R.tbl.buckets \in [0..(N - 1) -> Bucket]
        /\ R.tbl.buckets[b].count = t.buckets[b].count - 1
        /\ R.tbl.buckets[b].hh_head =
             IF t.buckets[b].hh_head = d THEN U.hh[d].hh_next ELSE t.buckets[b].hh_head
        /\ \A c \in 0..(N - 1) : c # b => R.tbl.buckets[c] = t.buckets[c]
        /\ R.hh \in [Entries -> Handle]
        /\ \A e \in Entries :
             /\ R.hh[e].next = U.hh[e].next
             /\ R.hh[e].prev = U.hh[e].prev
             /\ R.hh[e].hashv = U.hh[e].hashv
             /\ R.hh[e].hh_next = IF e = U.hh[d].hh_prev THEN U.hh[d].hh_next ELSE U.hh[e].hh_next
             /\ R.hh[e].hh_prev = IF e = U.hh[d].hh_next THEN U.hh[d].hh_prev ELSE U.hh[e].hh_prev
    <3>1. N = U.tbl.num_buckets /\ U.tbl.buckets \in [0..(N - 1) -> Bucket]
      BY <2>3, <2>6
    <3>2. U.tbl.buckets[b].count # 0
      BY <2>5, <2>6
    <3>3. R = HASH_DEL_IN_BKT(U, b, d)
      BY <2>2
    <3>4. U \in HashRecord /\ U.tbl \in TableRecord /\ d \in Entries
      BY <1>1, <2>6
    <3> HIDE DEF d, t
    <3>5. /\ R \in HashRecord
          /\ R.head = U.head
          /\ R.tbl \in TableRecord
          /\ R.tbl.tail = U.tbl.tail /\ R.tbl.num_items = U.tbl.num_items /\ R.tbl.num_buckets = N
          /\ R.tbl.buckets \in [0..(N - 1) -> Bucket]
          /\ R.tbl.buckets[b].count = U.tbl.buckets[b].count - 1
          /\ R.tbl.buckets[b].hh_head =
               IF U.tbl.buckets[b].hh_head = d THEN U.hh[d].hh_next ELSE U.tbl.buckets[b].hh_head
          /\ \A c \in 0..(N - 1) : c # b => R.tbl.buckets[c] = U.tbl.buckets[c]
          /\ R.hh \in [Entries -> Handle]
          /\ \A e \in Entries :
               /\ R.hh[e].next = U.hh[e].next
               /\ R.hh[e].prev = U.hh[e].prev
               /\ R.hh[e].hashv = U.hh[e].hashv
               /\ R.hh[e].hh_next =
                    IF e = U.hh[d].hh_prev THEN U.hh[d].hh_next ELSE U.hh[e].hh_next
               /\ R.hh[e].hh_prev =
                    IF e = U.hh[d].hh_next THEN U.hh[d].hh_prev ELSE U.hh[e].hh_prev
      BY <2>4, <3>1, <3>2, <3>3, <3>4, DelInBktFields
    <3> QED BY <2>6, <3>5
  <2>14. \A e \in Entries : R.hh[e].hashv = H.hh[e].hashv
    <3>1. \A e \in Entries : R.hh[e].hashv = U.hh[e].hashv
      BY <2>7, Zenon
    <3>2. \A e \in Entries : U.hh[e].hashv = H.hh[e].hashv
      BY <2>6, Zenon
    <3> QED BY <3>1, <3>2
  <2>8. /\ \A e \in Entries : Nexts(R.hh)[e] = R.hh[e].next /\ Prevs(R.hh)[e] = R.hh[e].prev
        /\ \A e \in Entries : Nexts(H.hh)[e] = H.hh[e].next /\ Prevs(H.hh)[e] = H.hh[e].prev
    BY DEF Nexts, Prevs
  <2>9. Linked(Nexts(R.hh), Prevs(R.hh), R.head, W, n - 1)
    <3>1. \A e \in Entries : e # L[j] =>
            /\ Nexts(R.hh)[e] =
                 IF e = Prevs(H.hh)[L[j]] THEN Nexts(H.hh)[L[j]] ELSE Nexts(H.hh)[e]
            /\ Prevs(R.hh)[e] =
                 IF e = Nexts(H.hh)[L[j]] THEN Prevs(H.hh)[L[j]] ELSE Prevs(H.hh)[e]
      BY <1>1, <2>6, <2>7, <2>8
    <3>2. del.prev = NULL <=> H.head = L[j]
      BY <1>1, NullAssumption DEF Injective
    <3>3. R.head = IF H.head = L[j] THEN Nexts(H.hh)[L[j]] ELSE H.head
      BY <1>1, <2>6, <2>7, <2>8, <3>2
    <3> QED BY <1>2, <3>1, <3>3, Unlink
  <2>10. R.tbl.tail = W[n - 1]
    <3>1. W[n - 1] = IF n - 1 < j THEN L[n - 1] ELSE L[(n - 1) + 1]
      BY <1>1, <1>4 DEF Without
    <3>2. (n - 1) + 1 = n /\ (n - 1 < j <=> j = n)
      BY <1>1
    <3>3. j = n <=> t.tail = d
      BY <1>1, <1>2 DEF Injective
    <3>4. j = n => del.prev = L[n - 1]
      BY <1>1, <1>4
    <3> QED BY <1>2, <2>6, <2>7, <3>1, <3>2, <3>3, <3>4
  <2>11. Chains(R.hh, R.tbl.buckets, N, Range(L) \ {d})
    <3>1. /\ \A e \in Entries : R.hh[e].hashv = H.hh[e].hashv
          /\ \A e \in Entries : e # d =>
               /\ R.hh[e].hh_next =
                    IF e = H.hh[d].hh_prev THEN H.hh[d].hh_next ELSE H.hh[e].hh_next
               /\ R.hh[e].hh_prev =
                    IF e = H.hh[d].hh_next THEN H.hh[d].hh_prev ELSE H.hh[e].hh_prev
          /\ R.tbl.buckets[b].hh_head =
               IF t.buckets[b].hh_head = d THEN H.hh[d].hh_next ELSE t.buckets[b].hh_head
      <4>1. \A e \in Entries : /\ U.hh[e].hh_next = H.hh[e].hh_next
                               /\ U.hh[e].hh_prev = H.hh[e].hh_prev
        BY <2>6, Zenon
      <4>2. /\ \A e \in Entries :
                 /\ R.hh[e].hh_next =
                      IF e = U.hh[d].hh_prev THEN U.hh[d].hh_next ELSE U.hh[e].hh_next
                 /\ R.hh[e].hh_prev =
                      IF e = U.hh[d].hh_next THEN U.hh[d].hh_prev ELSE U.hh[e].hh_prev
            /\ R.tbl.buckets[b].hh_head =
                 IF t.buckets[b].hh_head = d THEN U.hh[d].hh_next ELSE t.buckets[b].hh_head
        BY <2>7, Zenon
      <4>3. d \in Entries
        BY <1>1
      <4> HIDE DEF d, t
      <4> QED BY <2>14, <4>1, <4>2, <4>3
    <3>2. b = H.hh[d].hashv % N
      BY DEF b
    <3>3. Chains(H.hh, t.buckets, N, Range(L))
      BY <1>2 DEF N
    <3>4. /\ H.hh \in [Entries -> Handle]
          /\ d \in Range(L)
          /\ R.hh \in [Entries -> Handle]
          /\ R.tbl.buckets \in [0..(N - 1) -> Bucket]
          /\ R.tbl.buckets[b].count = t.buckets[b].count - 1
          /\ \A c \in 0..(N - 1) : c # b => R.tbl.buckets[c] = t.buckets[c]
      BY <1>1, <2>7
    <3> DEFINE first == IF t.buckets[b].hh_head = d THEN H.hh[d].hh_next ELSE t.buckets[b].hh_head
    <3>5. BktUnlinks(H.hh, d, R.hh)
      BY <3>1, <3>4 DEF BktUnlinks
    <3>6. BktChanges(t.buckets, N, b, first, t.buckets[b].count - 1, R.tbl.buckets)
      BY <3>1, <3>4 DEF BktChanges
    <3> HIDE DEF d, t
    <3> QED BY <3>2, <3>3, <3>4, <3>5, <3>6, ChainsDeleted
  <2>12. Range(W) = Range(L) \ {d}
    <3>1. \A e : e \in Range(W) <=> e \in Range(L) \ {L[j]}
      BY <1>1, WithoutRange
    <3> HIDE DEF W
    <3> QED BY <3>1
  <2> HIDE DEF W
  <2>13. Table(R, W, n - 1)
    BY <1>1, <1>4, <2>7, <2>9, <2>10, <2>11, <2>12 DEF Table
  <2> QED BY <2>13, <2>14 DEF R, W
<1> QED BY <1>3, <1>4

(* An element linked at the head of a chain                                *)
LEMMA LinkFirstFields ==
  ASSUME NEW hh \in [Entries -> Handle], NEW p \in Pointer, NEW d \in Entries, p # d
  PROVE  /\ BktLinks(hh, d, p, LinkFirst(hh, p, d))
         /\ \A e \in Entries : /\ LinkFirst(hh, p, d)[e].next = hh[e].next
                               /\ LinkFirst(hh, p, d)[e].prev = hh[e].prev
<1> DEFINE hh1 == [hh EXCEPT ![d].hh_next = p, ![d].hh_prev = NULL]
           hh2 == Link(hh1, p, "hh_prev", d)
<1>1. /\ hh1 \in [Entries -> Handle]
      /\ \A e \in Entries :
           /\ hh1[e].next = hh[e].next
           /\ hh1[e].prev = hh[e].prev
           /\ hh1[e].hashv = hh[e].hashv
           /\ hh1[e].hh_next = IF e = d THEN p ELSE hh[e].hh_next
           /\ hh1[e].hh_prev = IF e = d THEN NULL ELSE hh[e].hh_prev
  BY ZenonT(30) DEF Handle, Pointer
<1>2. d \in Pointer
  BY DEF Pointer
<1> HIDE DEF hh1
<1>3. /\ hh2 \in [Entries -> Handle]
      /\ \A e \in Entries :
           /\ hh2[e].next = hh1[e].next
           /\ hh2[e].prev = hh1[e].prev
           /\ hh2[e].hh_next = hh1[e].hh_next
           /\ hh2[e].hh_prev = IF e = p THEN d ELSE hh1[e].hh_prev
           /\ hh2[e].hashv = hh1[e].hashv
  BY <1>1, <1>2, LinkBktPrev
<1>4. LinkFirst(hh, p, d) = hh2
  BY DEF LinkFirst, hh1
<1> HIDE DEF hh2
<1> QED BY <1>1, <1>3, <1>4 DEF BktLinks

(* What HASH_ADD_TO_BKT leaves if it does not expand the table             *)
LEMMA AddedToBktFields ==
  ASSUME NEW H \in HashRecord, H.tbl \in TableRecord,
         NEW n, n = H.tbl.num_buckets, H.tbl.buckets \in [0..(n - 1) -> Bucket],
         NEW b \in 0..(n - 1), NEW d \in Entries, H.tbl.buckets[b].hh_head # d
  PROVE  LET R == AddedToBkt(H, b, d)
             t == H.tbl
         IN  /\ R \in HashRecord
             /\ R.head = H.head
             /\ R.tbl \in TableRecord
             /\ R.tbl.tail = t.tail /\ R.tbl.num_items = t.num_items /\ R.tbl.num_buckets = n
             /\ BktChanges(t.buckets, n, b, d, t.buckets[b].count + 1, R.tbl.buckets)
             /\ BktLinks(H.hh, d, t.buckets[b].hh_head, R.hh)
             /\ \A e \in Entries : R.hh[e].next = H.hh[e].next /\ R.hh[e].prev = H.hh[e].prev
<1> DEFINE R == AddedToBkt(H, b, d)
           t == H.tbl
           p == t.buckets[b].hh_head
           hh2 == LinkFirst(H.hh, p, d)
           bkt2 == BktWith(t.buckets[b], d)
           buckets2 == [t.buckets EXCEPT ![b] = bkt2]
<1>0. t.buckets[b] \in Bucket
  OBVIOUS
<1>1. H.hh \in [Entries -> Handle] /\ p \in Pointer
  BY <1>0 DEF HashRecord, Bucket
<1>2. /\ BktLinks(H.hh, d, p, hh2)
      /\ \A e \in Entries : hh2[e].next = H.hh[e].next /\ hh2[e].prev = H.hh[e].prev
  BY <1>1, LinkFirstFields
<1>5. bkt2 \in Bucket /\ bkt2.count = t.buckets[b].count + 1 /\ bkt2.hh_head = d
  BY <1>0, BktWithFields
<1>7. R = [head |-> H.head, tbl |-> [t EXCEPT !.buckets = buckets2], hh |-> hh2]
  <2>1. R = [H EXCEPT !.tbl.buckets[b] = bkt2, !.hh = hh2]
    BY DEF AddedToBkt
  <2> HIDE DEF R, bkt2, hh2
  <2> QED BY <2>1 DEF HashRecord, TableRecord
<1> HIDE DEF bkt2
<1>6. BktChanges(t.buckets, n, b, d, t.buckets[b].count + 1, buckets2)
  BY <1>5 DEF BktChanges
<1> HIDE DEF R, hh2, buckets2
<1>8. /\ R.head = H.head
      /\ R.hh = hh2
      /\ R.tbl = [t EXCEPT !.buckets = buckets2]
  BY <1>7
<1>9. /\ R.tbl \in TableRecord
      /\ R.tbl.buckets = buckets2
      /\ R.tbl.tail = t.tail
      /\ R.tbl.num_items = t.num_items
      /\ R.tbl.num_buckets = n
  <2>1. buckets2 \in [0..(n - 1) -> Bucket]
    BY <1>6 DEF BktChanges
  <2> QED BY <1>8, <2>1 DEF TableRecord
<1>10. hh2 \in [Entries -> Handle]
  BY <1>2 DEF BktLinks
<1>11. R \in HashRecord
  BY <1>7, <1>8, <1>9, <1>10 DEF HashRecord
<1> QED BY <1>2, <1>6, <1>8, <1>9, <1>11 DEF R

(* Buckets that are all empty                                              *)
LEMMA EmptyChains ==
  ASSUME NEW hh, NEW n \in Nat \ {0}
  PROVE  Chains(hh, Buckets(n), n, {})
<1> DEFINE S == [i \in 1..0 |-> NULL]
<1>1. /\ Buckets(n) \in [0..(n - 1) -> Bucket]
      /\ \A b \in 0..(n - 1) : Buckets(n)[b].hh_head = NULL /\ Buckets(n)[b].count = 0
  BY DEF Buckets, UT_hash_bucket, Bucket, Pointer
<1>2. /\ S \in [1..0 -> Entries]
      /\ Range(S) = {}
  BY DEF Range
<1> HIDE DEF S
<1>3. ASSUME NEW b \in 0..(n - 1)
      PROVE  Holds(hh, Buckets(n)[b], InBucket(hh, n, {}, b))
  <2>1. Linked(BktNexts(hh), BktPrevs(hh), NULL, S, 0)
    BY <1>2 DEF Linked, Injective
  <2>2. InBucket(hh, n, {}, b) = {}
    BY DEF InBucket
  <2> QED BY <1>1, <1>2, <2>1, <2>2 DEF Holds
<1> QED BY <1>1, <1>3 DEF Chains

(* Chains stay while the links and the hash values of their elements do.   *)
LEMMA ChainsFrame ==
  ASSUME NEW hh, NEW buckets, NEW n, NEW M, Chains(hh, buckets, n, M), NEW hh2,
         \A e \in M : /\ hh2[e].hh_next = hh[e].hh_next
                      /\ hh2[e].hh_prev = hh[e].hh_prev
                      /\ hh2[e].hashv = hh[e].hashv
  PROVE  Chains(hh2, buckets, n, M)
<1>1. ASSUME NEW b \in 0..(n - 1)
      PROVE  Holds(hh2, buckets[b], InBucket(hh2, n, M, b))
  <2>1. Holds(hh, buckets[b], InBucket(hh, n, M, b))
    BY DEF Chains
  <2>2. InBucket(hh2, n, M, b) = InBucket(hh, n, M, b)
    BY DEF InBucket
  <2>3. \A e \in InBucket(hh, n, M, b) :
          hh2[e].hh_next = hh[e].hh_next /\ hh2[e].hh_prev = hh[e].hh_prev
    BY DEF InBucket
  <2> QED BY <2>1, <2>2, <2>3, HoldsFrame
<1> QED BY <1>1 DEF Chains

(* The table HASH_ADD starts from                                          *)
StartTable(H, d) == IF H.head = NULL THEN HASH_MAKE_TABLE(d) ELSE H.tbl

(* A new table                                                             *)
LEMMA MadeTable ==
  ASSUME NEW d \in Entries
  PROVE  LET t == HASH_MAKE_TABLE(d)
         IN  /\ t \in TableRecord
             /\ t.num_items = 0
             /\ t.num_buckets \in Nat \ {0}
             /\ t.buckets = Buckets(t.num_buckets)
<1> DEFINE n == HASH_INITIAL_NUM_BUCKETS
<1>1. n \in Nat \ {0}
  BY BucketsAssumption
<1>2. Buckets(n) \in [0..(n - 1) -> Bucket]
  BY DEF Buckets, UT_hash_bucket, Bucket, Pointer
<1> QED BY <1>1, <1>2 DEF HASH_MAKE_TABLE, TableRecord, Pointer

(* What HASH_ADD leaves before the bucket's turn                           *)
LEMMA LinkedLastFields ==
  ASSUME NEW H \in HashRecord, NEW d \in Entries, NEW k \in Words,
         NEW t \in TableRecord, t = StartTable(H, d),
         NEW last \in Pointer, last = (IF H.head = NULL THEN NULL ELSE H.tbl.tail), last # d
  PROVE  LET R == LinkedLast(H, d, k)
         IN  /\ R \in HashRecord
             /\ R.head = IF H.head = NULL THEN d ELSE H.head
             /\ R.tbl \in TableRecord
             /\ R.tbl.tail = d
             /\ R.tbl.num_items = t.num_items + 1
             /\ R.tbl.num_buckets = t.num_buckets
             /\ R.tbl.buckets = t.buckets
             /\ R.hh[d].next = NULL /\ R.hh[d].prev = last /\ R.hh[d].hashv = HASH_FCN[k]
             /\ \A e \in Entries : /\ R.hh[e].hh_next = H.hh[e].hh_next
                                   /\ R.hh[e].hh_prev = H.hh[e].hh_prev
             /\ \A e \in Entries : e # d =>
                  /\ R.hh[e].next = IF e = last THEN d ELSE H.hh[e].next
                  /\ R.hh[e].prev = H.hh[e].prev
                  /\ R.hh[e].hashv = H.hh[e].hashv
<1> DEFINE R == LinkedLast(H, d, k)
           hh1 == [H.hh EXCEPT ![d].prev = last, ![d].next = NULL, ![d].hashv = HASH_FCN[k]]
           hh2 == Link(hh1, last, "next", d)
           t2 == [t EXCEPT !.tail = d, !.num_items = @ + 1]
           head2 == IF H.head = NULL THEN d ELSE H.head
<1>1. /\ H.hh \in [Entries -> Handle]
      /\ H.head \in Pointer
      /\ d \in Pointer
      /\ NULL \in Pointer
      /\ HASH_FCN[k] \in Nat
  BY HashAssumption DEF HashRecord, Pointer
<1>2. /\ hh1 \in [Entries -> Handle]
      /\ \A e \in Entries :
           /\ hh1[e].next = IF e = d THEN NULL ELSE H.hh[e].next
           /\ hh1[e].prev = IF e = d THEN last ELSE H.hh[e].prev
           /\ hh1[e].hashv = IF e = d THEN HASH_FCN[k] ELSE H.hh[e].hashv
           /\ hh1[e].hh_next = H.hh[e].hh_next
           /\ hh1[e].hh_prev = H.hh[e].hh_prev
  BY <1>1, SMTT(30) DEF Handle
<1>3. R = [head |-> head2, tbl |-> t2, hh |-> hh2]
  BY DEF LinkedLast, StartTable
<1> HIDE DEF hh1
<1>4. /\ hh2 \in [Entries -> Handle]
      /\ \A e \in Entries :
           /\ hh2[e].next = IF e = last THEN d ELSE hh1[e].next
           /\ hh2[e].prev = hh1[e].prev
           /\ hh2[e].hh_next = hh1[e].hh_next
           /\ hh2[e].hh_prev = hh1[e].hh_prev
           /\ hh2[e].hashv = hh1[e].hashv
  BY <1>1, <1>2, LinkNext
<1>5. /\ t2 \in TableRecord
      /\ t2.tail = d
      /\ t2.num_items = t.num_items + 1
      /\ t2.num_buckets = t.num_buckets
      /\ t2.buckets = t.buckets
  <2>1. t.num_items + 1 \in Nat
    BY DEF TableRecord
  <2> QED BY <1>1, <2>1 DEF TableRecord
<1>6. head2 \in Pointer
  BY <1>1
<1> HIDE DEF R, hh2, t2, head2
<1>7. R \in HashRecord /\ R.head = head2 /\ R.tbl = t2 /\ R.hh = hh2
  BY <1>3, <1>4, <1>5, <1>6 DEF HashRecord
<1> QED BY <1>2, <1>4, <1>5, <1>7 DEF R, head2

-----------------------------------------------------------------------------
(* HASH_EXPAND_BUCKETS.                                                    *)

(* The chain of a bucket is its elements, and the back links follow it.    *)
LEMMA HoldsChain ==
  ASSUME NEW hh, NEW bkt, NEW M, Holds(hh, bkt, M), NEW S, S = Chain(hh, bkt.hh_head, "hh_next")
  PROVE  /\ bkt.count \in Nat
         /\ S \in [1..bkt.count -> Entries]
         /\ Injective(S, bkt.count)
         /\ Range(S) = M
         /\ \A i \in 1..bkt.count : hh[S[i]].hh_prev = IF i = 1 THEN NULL ELSE S[i - 1]
<1>1. PICK L : /\ Linked(BktNexts(hh), BktPrevs(hh), bkt.hh_head, L, bkt.count)
               /\ Range(L) = M
  BY DEF Holds
<1>2. PICK n \in Nat : n = bkt.count
  BY <1>1 DEF Linked
<1>3. /\ L \in [1..n -> Entries]
      /\ Injective(L, n)
      /\ bkt.hh_head = IF n = 0 THEN NULL ELSE L[1]
      /\ \A i \in 1..n : BktNexts(hh)[L[i]] = IF i = n THEN NULL ELSE L[i + 1]
      /\ \A i \in 1..n : BktPrevs(hh)[L[i]] = IF i = 1 THEN NULL ELSE L[i - 1]
  BY <1>1, <1>2 DEF Linked
<1>4. \A e \in Entries : BktNexts(hh)[e] = hh[e].hh_next /\ BktPrevs(hh)[e] = hh[e].hh_prev
  BY DEF BktNexts, BktPrevs
<1>5. /\ \A i \in 1..n : hh[L[i]]["hh_next"] = IF i = n THEN NULL ELSE L[i + 1]
      /\ \A i \in 1..n : hh[L[i]].hh_prev = IF i = 1 THEN NULL ELSE L[i - 1]
  BY <1>3, <1>4
<1>6. S = L
  BY <1>3, <1>5, ChainIs
<1> QED BY <1>1, <1>2, <1>3, <1>5, <1>6

(* Two lists one after the other                                           *)
LEMMA ConcatLists ==
  ASSUME NEW m \in Nat, NEW A \in [1..m -> Entries], Injective(A, m),
         NEW n \in Nat, NEW B \in [1..n -> Entries], Injective(B, n),
         \A e \in Range(A) : e \notin Range(B)
  PROVE  /\ A \o B \in [1..(m + n) -> Entries]
         /\ Injective(A \o B, m + n)
         /\ \A e : e \in Range(A \o B) <=> e \in Range(A) \cup Range(B)
<1> DEFINE Z == A \o B
<1>1. A \in Seq(Entries) /\ B \in Seq(Entries) /\ Len(A) = m /\ Len(B) = n
  OBVIOUS
<1>2. /\ Z \in Seq(Entries)
      /\ Len(Z) = m + n
      /\ \A i \in 1..(m + n) : Z[i] = IF i <= m THEN A[i] ELSE B[i - m]
  BY <1>1, ConcatProperties
<1>3. Z \in [1..(m + n) -> Entries]
  BY <1>2, LenProperties
<1> HIDE DEF Z
<1>4. \A i \in 1..m : A[i] \in Range(A)
  BY DEF Range
<1>5. \A i \in 1..n : B[i] \in Range(B)
  BY DEF Range
<1>6. \A i \in 1..(m + n) : \/ i \in 1..m /\ Z[i] = A[i]
                            \/ i - m \in 1..n /\ Z[i] = B[i - m]
  BY <1>2
<1>7. Injective(Z, m + n)
  <2> SUFFICES ASSUME NEW i \in 1..(m + n), NEW k \in 1..(m + n), Z[i] = Z[k]
               PROVE  i = k
    BY DEF Injective
  <2>1. CASE i \in 1..m /\ Z[i] = A[i] /\ k \in 1..m /\ Z[k] = A[k]
    BY <2>1 DEF Injective
  <2>2. CASE i - m \in 1..n /\ Z[i] = B[i - m] /\ k - m \in 1..n /\ Z[k] = B[k - m]
    <3>1. i - m = k - m
      BY <2>2 DEF Injective
    <3> QED BY <3>1
  <2>3. CASE i \in 1..m /\ Z[i] = A[i] /\ k - m \in 1..n /\ Z[k] = B[k - m]
    BY <1>4, <1>5, <2>3
  <2>4. CASE i - m \in 1..n /\ Z[i] = B[i - m] /\ k \in 1..m /\ Z[k] = A[k]
    BY <1>4, <1>5, <2>4
  <2> QED BY <1>6, <2>1, <2>2, <2>3, <2>4
<1>8. \A i \in 1..(m + n) : Z[i] \in Range(A) \cup Range(B)
  BY <1>4, <1>5, <1>6
<1>9. \A i \in 1..m : i \in 1..(m + n) /\ Z[i] = A[i]
  BY <1>2
<1>10. ASSUME NEW i \in 1..n
       PROVE  i + m \in 1..(m + n) /\ Z[i + m] = B[i]
  <2>1. i + m \in 1..(m + n) /\ ~ (i + m <= m) /\ (i + m) - m = i
    OBVIOUS
  <2>2. Z[i + m] = B[(i + m) - m]
    BY <1>2, <2>1
  <2> QED BY <2>1, <2>2
<1>11. ASSUME NEW e \in Range(A) \cup Range(B)
       PROVE  \E i \in 1..(m + n) : e = Z[i]
  <2>1. (\E i \in 1..m : e = A[i]) \/ (\E i \in 1..n : e = B[i])
    BY DEF Range
  <2> QED BY <1>9, <1>10, <2>1
<1>12. \A e : e \in Range(Z) <=> e \in Range(A) \cup Range(B)
  <2>1. \A e : e \in Range(Z) <=> \E i \in 1..(m + n) : e = Z[i]
    BY <1>3 DEF Range
  <2> QED BY <1>8, <1>11, <2>1
<1> QED BY <1>3, <1>7, <1>12 DEF Z

(* The concatenations of the first of n sequences, from one on             *)
Flattens(f, seqs, n) == f = [i \in 1..n |-> IF i = 1 THEN seqs[i] ELSE f[i - 1] \o seqs[i]]

(* FlattenSeq is defined by recursion on a prefix.                         *)
LEMMA FlattenDefined ==
  ASSUME NEW n \in Nat \ {0}, NEW seqs, Len(seqs) = n
  PROVE  \E f : Flattens(f, seqs, n) /\ FlattenSeq(seqs) = f[n]
<1> DEFINE Flat(f, m) == [i \in 1..m |-> IF i = 1 THEN seqs[i] ELSE f[i - 1] \o seqs[i]]
           S == {m \in 0..n : \E f : f = Flat(f, m)}
<1>1. 0 \in S
  <2>1. [i \in 1..0 |-> 0] = Flat([i \in 1..0 |-> 0], 0)
    OBVIOUS
  <2> HIDE DEF Flat
  <2> QED BY <2>1
<1>2. ASSUME NEW m \in 0..(n - 1), m \in S
      PROVE  m + 1 \in S
  <2>1. PICK f : f = Flat(f, m)
    BY <1>2
  <2> DEFINE g == [i \in 1..(m + 1) |-> IF i <= m THEN f[i]
                                        ELSE IF i = 1 THEN seqs[i] ELSE f[i - 1] \o seqs[i]]
  <2>2. ASSUME NEW i \in 1..(m + 1)
        PROVE  g[i] = Flat(g, m + 1)[i]
    <3>1. i # 1 => i - 1 \in 1..(m + 1) /\ i - 1 <= m /\ g[i - 1] = f[i - 1]
      OBVIOUS
    <3>2. CASE i <= m
      <4>1. i \in 1..m /\ g[i] = f[i]
        BY <3>2
      <4>2. f[i] = IF i = 1 THEN seqs[i] ELSE f[i - 1] \o seqs[i]
        BY <2>1, <4>1
      <4> HIDE DEF g
      <4> QED BY <3>1, <4>1, <4>2
    <3>3. CASE i = m + 1
      <4>1. g[i] = IF i = 1 THEN seqs[i] ELSE f[i - 1] \o seqs[i]
        BY <3>3
      <4> HIDE DEF g
      <4> QED BY <3>1, <4>1
    <3> QED BY <3>2, <3>3
  <2>3. /\ g = [i \in 1..(m + 1) |-> g[i]]
        /\ Flat(g, m + 1) = [i \in 1..(m + 1) |-> Flat(g, m + 1)[i]]
    OBVIOUS
  <2> HIDE DEF g, Flat
  <2>4. g = Flat(g, m + 1)
    BY <2>2, <2>3
  <2> QED BY <2>4
<1>3. n \in S
  <2> HIDE DEF S
  <2>1. \A m \in 0..n : m \in S
    BY <1>1, <1>2, UpTo
  <2> QED BY <2>1
<1> DEFINE h == CHOOSE f : f = Flat(f, n)
<1>4. h = Flat(h, n)
  <2> HIDE DEF Flat
  <2> QED BY <1>3
<1>5. FlattenSeq(seqs) = h[n]
  BY DEF FlattenSeq
<1> HIDE DEF h
<1> QED BY <1>4, <1>5 DEF Flattens

(* The chains of the buckets have all elements, each of them once.         *)
LEMMA BucketOrderIs ==
  ASSUME NEW H, NEW N, N = H.tbl.num_buckets, NEW M, Chains(H.hh, H.tbl.buckets, N, M),
         H.hh \in [Entries -> Handle]
  PROVE  \E m \in Nat : /\ BucketOrder(H) \in [1..m -> Entries]
                        /\ Injective(BucketOrder(H), m)
                        /\ Range(BucketOrder(H)) = M
<1> DEFINE hh == H.hh
           buckets == H.tbl.buckets
           seqs == [i \in 1..N |-> BucketChain(H, i - 1)]
           In(i) == {e \in M : hh[e].hashv % N < i}
<1>1. /\ N \in Nat \ {0}
      /\ M \subseteq Entries
      /\ \A b \in 0..(N - 1) : Holds(hh, buckets[b], InBucket(hh, N, M, b))
  BY DEF Chains
<1>2. ASSUME NEW b \in 0..(N - 1)
      PROVE  \E n \in Nat : /\ seqs[b + 1] \in [1..n -> Entries]
                            /\ Injective(seqs[b + 1], n)
                            /\ Range(seqs[b + 1]) = InBucket(hh, N, M, b)
  <2>1. b + 1 \in 1..N /\ (b + 1) - 1 = b
    BY <1>1
  <2>2. seqs[b + 1] = Chain(hh, buckets[b].hh_head, "hh_next")
    BY <2>1 DEF BucketChain
  <2> HIDE DEF seqs
  <2>3. Holds(hh, buckets[b], InBucket(hh, N, M, b))
    BY <1>1
  <2> DEFINE s == seqs[b + 1]  bkt == buckets[b]  X == InBucket(hh, N, M, b)  handles == hh
  <2>4. s = Chain(handles, bkt.hh_head, "hh_next") /\ Holds(handles, bkt, X)
    BY <2>2, <2>3
  <2> HIDE DEF s, bkt, X, handles
  <2>5. /\ bkt.count \in Nat
        /\ s \in [1..bkt.count -> Entries]
        /\ Injective(s, bkt.count)
        /\ Range(s) = X
    BY <2>4, HoldsChain
  <2> QED BY <2>5 DEF s, X, handles
<1>3. Len(seqs) = N
  <2>1. DOMAIN seqs = 1..N
    OBVIOUS
  <2> QED BY <1>1
<1>4. BucketOrder(H) = FlattenSeq(seqs)
  BY DEF BucketOrder
<1> HIDE DEF seqs
<1>5. PICK f : Flattens(f, seqs, N) /\ BucketOrder(H) = f[N]
  BY <1>1, <1>3, <1>4, FlattenDefined
<1> DEFINE Good(i) == \E m \in Nat : /\ f[i] \in [1..m -> Entries]
                                     /\ Injective(f[i], m)
                                     /\ Range(f[i]) = In(i)
           S == {i \in 0..N : i # 0 => Good(i)}
<1>6. \A e \in M : hh[e].hashv % N \in 0..(N - 1)
  <2> SUFFICES ASSUME NEW e \in M
               PROVE  hh[e].hashv % N \in 0..(N - 1)
    OBVIOUS
  <2>1. hh[e].hashv \in Nat
    BY <1>1 DEF Handle
  <2> QED BY <1>1, <2>1, Remainder
<1>7. ASSUME NEW i \in 0..(N - 1)
      PROVE  /\ In(i + 1) = In(i) \cup InBucket(hh, N, M, i)
             /\ In(i) \cap InBucket(hh, N, M, i) = {}
  BY <1>1, <1>6 DEF InBucket
<1>8. In(0) = {} /\ In(N) = M
  BY <1>1, <1>6
<1> HIDE DEF In, hh, buckets
<1>9. 0 \in S
  BY <1>1
<1>10. ASSUME NEW i \in 0..(N - 1), i \in S
       PROVE  i + 1 \in S
  <2>1. PICK n \in Nat : /\ seqs[i + 1] \in [1..n -> Entries]
                         /\ Injective(seqs[i + 1], n)
                         /\ Range(seqs[i + 1]) = InBucket(hh, N, M, i)
    BY <1>2
  <2>2. i + 1 \in 1..N /\ (i + 1) - 1 = i
    BY <1>1
  <2>0. f[i + 1] = IF i = 0 THEN seqs[i + 1] ELSE f[i] \o seqs[i + 1]
    <3>1. f[i + 1] = IF i + 1 = 1 THEN seqs[i + 1] ELSE f[(i + 1) - 1] \o seqs[i + 1]
      BY <1>5, <2>2 DEF Flattens
    <3>2. i + 1 = 1 <=> i = 0
      BY <1>1
    <3> QED BY <2>2, <3>1, <3>2
  <2>3. CASE i = 0
    <3>1. f[i + 1] = seqs[i + 1]
      BY <2>0, <2>3
    <3>2. Range(f[i + 1]) = In(i + 1)
      BY <1>7, <1>8, <2>1, <2>3, <3>1
    <3>3. Good(i + 1)
      BY <2>1, <3>1, <3>2
    <3> QED BY <2>2, <3>3
  <2>4. CASE i # 0
    <3>1. f[i + 1] = f[i] \o seqs[i + 1]
      BY <2>0, <2>4
    <3>2. PICK m \in Nat : /\ f[i] \in [1..m -> Entries]
                           /\ Injective(f[i], m)
                           /\ Range(f[i]) = In(i)
      BY <1>10, <2>4
    <3>3. \A e \in Range(f[i]) : e \notin Range(seqs[i + 1])
      BY <1>7, <2>1, <3>2
    <3>4. /\ f[i + 1] \in [1..(m + n) -> Entries]
          /\ Injective(f[i + 1], m + n)
          /\ \A e : e \in Range(f[i + 1]) <=> e \in Range(f[i]) \cup Range(seqs[i + 1])
      <4> DEFINE A == f[i]  B == seqs[i + 1]
      <4>1. /\ A \in [1..m -> Entries] /\ Injective(A, m)
            /\ B \in [1..n -> Entries] /\ Injective(B, n)
            /\ \A e \in Range(A) : e \notin Range(B)
        BY <2>1, <3>2, <3>3
      <4>2. f[i + 1] = A \o B
        BY <3>1
      <4> HIDE DEF A, B
      <4>3. /\ A \o B \in [1..(m + n) -> Entries]
            /\ Injective(A \o B, m + n)
            /\ \A e : e \in Range(A \o B) <=> e \in Range(A) \cup Range(B)
        BY <4>1, ConcatLists
      <4> QED BY <4>2, <4>3 DEF A, B
    <3>5. m + n \in Nat /\ Range(f[i + 1]) = In(i + 1)
      BY <1>7, <2>1, <3>2, <3>4
    <3>6. Good(i + 1)
      BY <3>4, <3>5
    <3> QED BY <2>2, <3>6
  <2> QED BY <2>3, <2>4
<1>11. N \in S
  <2> HIDE DEF S
  <2>1. \A i \in 0..N : i \in S
    BY <1>1, <1>9, <1>10, UpTo
  <2> QED BY <1>1, <2>1
<1> QED BY <1>1, <1>5, <1>8, <1>11

NewRecord ==
  [buckets : UNION {[0..(n - 1) -> Bucket] : n \in Nat \ {0}}, hh : [Entries -> Handle],
   num_buckets : Nat \ {0}, nonideal_items : Nat, ideal_chain_maxlen : Nat \ {0}]

(* A quotient of naturals                                                  *)
LEMMA Quotient ==
  ASSUME NEW a \in Nat, NEW k \in Nat \ {0}
  PROVE  a \div k \in Nat /\ (a >= k => a \div k \in Nat \ {0})
OBVIOUS

(* What a step of HASH_EXPAND_BUCKETS leaves                               *)
LEMMA MoveItemFields ==
  ASSUME NEW new \in NewRecord, NEW n, n = 2 * new.num_buckets,
         new.buckets \in [0..(n - 1) -> Bucket], NEW d \in Entries,
         NEW b \in 0..(n - 1), b = new.hh[d].hashv % n, new.buckets[b].hh_head # d
  PROVE  LET R == MoveItem(new, d)
         IN  /\ R \in NewRecord
             /\ R.num_buckets = new.num_buckets
             /\ BktChanges(new.buckets, n, b, d, new.buckets[b].count + 1, R.buckets)
             /\ BktLinks(new.hh, d, new.buckets[b].hh_head, R.hh)
             /\ \A e \in Entries : R.hh[e].next = new.hh[e].next /\ R.hh[e].prev = new.hh[e].prev
<1> DEFINE R == MoveItem(new, d)
           p == new.buckets[b].hh_head
           hh2 == LinkFirst(new.hh, p, d)
           bkt == BktWith(new.buckets[b], d)
           nonideal == bkt.count > new.ideal_chain_maxlen
           bkt2 == IF nonideal
                   THEN [bkt EXCEPT !.expand_mult = bkt.count \div new.ideal_chain_maxlen]
                   ELSE bkt
           items2 == IF nonideal THEN new.nonideal_items + 1 ELSE new.nonideal_items
           buckets2 == [new.buckets EXCEPT ![b] = bkt2]
<1>0. new.buckets[b] \in Bucket
  OBVIOUS
<1>1. new.hh \in [Entries -> Handle] /\ p \in Pointer /\ new.ideal_chain_maxlen \in Nat \ {0}
  BY <1>0 DEF NewRecord, Bucket
<1>2. /\ BktLinks(new.hh, d, p, hh2)
      /\ \A e \in Entries : hh2[e].next = new.hh[e].next /\ hh2[e].prev = new.hh[e].prev
  BY <1>1, LinkFirstFields, ZenonT(30)
<1>3. bkt \in Bucket /\ bkt.count = new.buckets[b].count + 1 /\ bkt.hh_head = d
  BY <1>0, BktWithFields
<1>4. R = [new EXCEPT !.nonideal_items = items2, !.buckets[b] = bkt2, !.hh = hh2]
  BY DEF MoveItem, HASH_TO_BKT
<1> HIDE DEF bkt
<1>5. bkt2 \in Bucket /\ bkt2.count = new.buckets[b].count + 1 /\ bkt2.hh_head = d
  <2>1. bkt.count \div new.ideal_chain_maxlen \in Nat
    <3>1. bkt.count \in Nat
      BY <1>3 DEF Bucket
    <3> QED BY <1>1, <3>1, Quotient
  <2>2. PICK q \in Nat : q = bkt.count \div new.ideal_chain_maxlen
    BY <2>1
  <2>3. /\ [bkt EXCEPT !.expand_mult = q] \in Bucket
        /\ [bkt EXCEPT !.expand_mult = q].count = bkt.count
        /\ [bkt EXCEPT !.expand_mult = q].hh_head = bkt.hh_head
    BY <1>3 DEF Bucket
  <2> HIDE DEF nonideal
  <2>4. bkt2 = [bkt EXCEPT !.expand_mult = q] \/ bkt2 = bkt
    BY <2>2
  <2> HIDE DEF bkt2
  <2> QED BY <1>3, <2>3, <2>4
<1>6. items2 \in Nat
  <2>1. new.nonideal_items \in Nat
    BY DEF NewRecord
  <2> QED BY <2>1
<1> HIDE DEF R, bkt2, items2, hh2
<1>7. R = [buckets |-> buckets2, hh |-> hh2, num_buckets |-> new.num_buckets,
           nonideal_items |-> items2, ideal_chain_maxlen |-> new.ideal_chain_maxlen]
  BY <1>4 DEF NewRecord
<1>8. BktChanges(new.buckets, n, b, d, new.buckets[b].count + 1, buckets2)
  BY <1>5 DEF BktChanges
<1>9. buckets2 \in [0..(n - 1) -> Bucket] /\ n \in Nat \ {0} /\ new.num_buckets \in Nat \ {0}
  BY <1>8, SMTT(30) DEF BktChanges, NewRecord
<1>10. hh2 \in [Entries -> Handle]
  BY <1>2 DEF BktLinks
<1> HIDE DEF buckets2
<1>11. /\ R \in NewRecord
       /\ R.num_buckets = new.num_buckets
       /\ R.buckets = buckets2
       /\ R.hh = hh2
  BY <1>1, <1>6, <1>7, <1>9, <1>10 DEF NewRecord
<1> QED BY <1>2, <1>8, <1>11 DEF R

(* The table after each item of HASH_EXPAND_BUCKETS                        *)
Moves(f, H, items, m) ==
  f = [i \in 0..m |-> IF i = 0 THEN NewBuckets(H) ELSE MoveItem(f[i - 1], items[i])]

(* MoveItems is defined by recursion on the items moved.                   *)
LEMMA MoveItemsDefined ==
  ASSUME NEW H, NEW items, NEW n \in Nat, Len(items) = n
  PROVE  Moves(MoveItems(H, items), H, items, n)
<1> DEFINE Move(f, m) ==
             [i \in 0..m |-> IF i = 0 THEN NewBuckets(H) ELSE MoveItem(f[i - 1], items[i])]
           S == {m \in 0..n : \E f : f = Move(f, m)}
<1>1. 0 \in S
  <2> DEFINE g == [i \in 0..0 |-> NewBuckets(H)]
  <2>1. \A i \in 0..0 : g[i] = Move(g, 0)[i]
    OBVIOUS
  <2>2. /\ g = [i \in 0..0 |-> g[i]]
        /\ Move(g, 0) = [i \in 0..0 |-> Move(g, 0)[i]]
    OBVIOUS
  <2> HIDE DEF g, Move
  <2>3. g = Move(g, 0)
    BY <2>1, <2>2
  <2> QED BY <2>3
<1>2. ASSUME NEW m \in 0..(n - 1), m \in S
      PROVE  m + 1 \in S
  <2>1. PICK f : f = Move(f, m)
    BY <1>2
  <2> DEFINE g == [i \in 0..(m + 1) |-> IF i <= m THEN f[i] ELSE MoveItem(f[i - 1], items[i])]
  <2>2. ASSUME NEW i \in 0..(m + 1)
        PROVE  g[i] = Move(g, m + 1)[i]
    <3>1. i # 0 => i - 1 \in 0..(m + 1) /\ i - 1 <= m /\ g[i - 1] = f[i - 1]
      OBVIOUS
    <3>2. CASE i <= m
      <4>1. i \in 0..m /\ g[i] = f[i]
        BY <3>2
      <4>2. f[i] = IF i = 0 THEN NewBuckets(H) ELSE MoveItem(f[i - 1], items[i])
        BY <2>1, <4>1
      <4> HIDE DEF g
      <4> QED BY <3>1, <4>1, <4>2
    <3>3. CASE i = m + 1
      <4>1. g[i] = MoveItem(f[i - 1], items[i]) /\ i # 0
        BY <3>3
      <4> HIDE DEF g
      <4> QED BY <3>1, <4>1
    <3> QED BY <3>2, <3>3
  <2>3. /\ g = [i \in 0..(m + 1) |-> g[i]]
        /\ Move(g, m + 1) = [i \in 0..(m + 1) |-> Move(g, m + 1)[i]]
    OBVIOUS
  <2> HIDE DEF g, Move
  <2>4. g = Move(g, m + 1)
    BY <2>2, <2>3
  <2> QED BY <2>4
<1>3. n \in S
  <2> HIDE DEF S
  <2>1. \A m \in 0..n : m \in S
    BY <1>1, <1>2, UpTo
  <2> QED BY <2>1
<1> DEFINE h == CHOOSE f : f = Move(f, n)
<1>4. h = Move(h, n)
  <2> HIDE DEF Move
  <2> QED BY <1>3
<1>5. MoveItems(H, items) = h
  BY DEF MoveItems
<1> HIDE DEF h
<1> QED BY <1>4, <1>5 DEF Moves

(* HASH_EXPAND_BUCKETS after some of its items: they are in the new        *)
(* buckets, and the list of all elements is what it was.                   *)
Expanding(H, new, M) ==
  /\ new \in NewRecord
  /\ new.num_buckets = H.tbl.num_buckets
  /\ \A e \in Entries : /\ new.hh[e].next = H.hh[e].next
                        /\ new.hh[e].prev = H.hh[e].prev
                        /\ new.hh[e].hashv = H.hh[e].hashv
  /\ Chains(new.hh, new.buckets, 2 * H.tbl.num_buckets, M)

(* Before the first item                                                   *)
LEMMA NewBucketsFields ==
  ASSUME NEW H \in HashRecord, H.tbl \in TableRecord, H.tbl.num_items # 0
  PROVE  Expanding(H, NewBuckets(H), {})
<1> DEFINE N == H.tbl.num_buckets
           a == H.tbl.num_items + 2 * N - 1
           new == NewBuckets(H)
<1>1. N \in Nat \ {0} /\ H.tbl.num_items \in Nat \ {0}
  BY DEF TableRecord
<1>2. 2 * N \in Nat \ {0} /\ a \in Nat /\ a >= 2 * N
  BY <1>1
<1>3. a \div (2 * N) \in Nat \ {0}
  <2> HIDE DEF N, a
  <2> QED BY <1>2, Quotient
<1>4. PICK q \in Nat \ {0} : q = a \div (2 * N)
  BY <1>3
<1>5. new = [buckets |-> Buckets(2 * N), hh |-> H.hh, num_buckets |-> N, nonideal_items |-> 0,
             ideal_chain_maxlen |-> q]
  BY <1>4 DEF NewBuckets
<1>6. Chains(H.hh, Buckets(2 * N), 2 * N, {})
  <2> HIDE DEF N
  <2> QED BY <1>2, EmptyChains
<1>7. PICK k \in Nat \ {0} : k = 2 * N
  BY <1>2
<1>8. Buckets(2 * N) \in [0..(k - 1) -> Bucket]
  BY <1>6, <1>7 DEF Chains
<1>9. H.hh \in [Entries -> Handle]
  BY DEF HashRecord
<1> HIDE DEF new, N
<1>10. new \in NewRecord /\ new.num_buckets = N /\ new.hh = H.hh /\ new.buckets = Buckets(2 * N)
  BY <1>1, <1>5, <1>8, <1>9 DEF NewRecord
<1> QED BY <1>6, <1>10 DEF Expanding, new, N

(* One item more                                                           *)
LEMMA MoveItemExpands ==
  ASSUME NEW H, NEW new, NEW M, Expanding(H, new, M), NEW d \in Entries, d \notin M
  PROVE  Expanding(H, MoveItem(new, d), M \cup {d})
<1> DEFINE N == H.tbl.num_buckets
           n == 2 * N
           b == new.hh[d].hashv % n
           R == MoveItem(new, d)
<1>1. /\ new \in NewRecord
      /\ new.num_buckets = N
      /\ \A e \in Entries : /\ new.hh[e].next = H.hh[e].next
                            /\ new.hh[e].prev = H.hh[e].prev
                            /\ new.hh[e].hashv = H.hh[e].hashv
      /\ Chains(new.hh, new.buckets, n, M)
  BY DEF Expanding
<1>2. /\ n \in Nat \ {0}
      /\ M \subseteq Entries
      /\ new.buckets \in [0..(n - 1) -> Bucket]
      /\ \A c \in 0..(n - 1) : Holds(new.hh, new.buckets[c], InBucket(new.hh, n, M, c))
  BY <1>1 DEF Chains
<1>3. b \in 0..(n - 1)
  <2>1. new.hh[d].hashv \in Nat
    BY <1>1 DEF NewRecord, Handle
  <2> HIDE DEF n
  <2> QED BY <1>2, <2>1, Remainder
<1>4. n = 2 * new.num_buckets
  BY <1>1
<1>5. b = new.hh[d].hashv % n
  OBVIOUS
<1> HIDE DEF n, b, R
<1>6. new.buckets[b].hh_head # d
  <2>1. Holds(new.hh, new.buckets[b], InBucket(new.hh, n, M, b))
    BY <1>2, <1>3
  <2>2. new.buckets[b].hh_head \in InBucket(new.hh, n, M, b) \cup {NULL}
    BY <2>1, HoldsClosed
  <2> QED BY <2>2, NullAssumption DEF InBucket
<1>7. /\ R \in NewRecord
      /\ R.num_buckets = new.num_buckets
      /\ BktChanges(new.buckets, n, b, d, new.buckets[b].count + 1, R.buckets)
      /\ BktLinks(new.hh, d, new.buckets[b].hh_head, R.hh)
      /\ \A e \in Entries : R.hh[e].next = new.hh[e].next /\ R.hh[e].prev = new.hh[e].prev
  BY <1>1, <1>2, <1>3, <1>4, <1>5, <1>6, MoveItemFields, SMTT(30) DEF R
<1>8. Chains(R.hh, R.buckets, n, M \cup {d})
  BY <1>1, <1>5, <1>7, ChainsAdded
<1>9. \A e \in Entries : R.hh[e].hashv = new.hh[e].hashv
  BY <1>7 DEF BktLinks
<1> QED BY <1>1, <1>7, <1>8, <1>9 DEF Expanding, R, n

(* After the last item                                                     *)
LEMMA MoveItemsExpands ==
  ASSUME NEW H \in HashRecord, H.tbl \in TableRecord, H.tbl.num_items # 0,
         NEW m \in Nat, NEW items \in [1..m -> Entries], Injective(items, m)
  PROVE  Expanding(H, MoveItems(H, items)[Len(items)], Range(items))
<1> DEFINE f == MoveItems(H, items)
           First(i) == {items[j] : j \in 1..i}
           S == {i \in 0..m : Expanding(H, f[i], First(i))}
<1>1. Len(items) = m
  OBVIOUS
<1>2. Moves(f, H, items, m)
  BY <1>1, MoveItemsDefined
<1>3. First(0) = {} /\ First(m) = Range(items)
  BY DEF Range
<1>4. ASSUME NEW i \in 0..(m - 1)
      PROVE  /\ items[i + 1] \in Entries
             /\ items[i + 1] \notin First(i)
             /\ First(i + 1) = First(i) \cup {items[i + 1]}
  <2>1. i + 1 \in 1..m
    OBVIOUS
  <2>2. \A j \in 1..i : j \in 1..m /\ j # i + 1
    OBVIOUS
  <2>3. \A j \in 1..(i + 1) : j \in 1..i \/ j = i + 1
    OBVIOUS
  <2>4. \A j \in 1..i : j \in 1..(i + 1)
    OBVIOUS
  <2>5. i + 1 \in 1..(i + 1)
    OBVIOUS
  <2>6. items[i + 1] \notin First(i)
    BY <2>1, <2>2 DEF Injective
  <2>7. First(i + 1) = First(i) \cup {items[i + 1]}
    BY <2>3, <2>4, <2>5
  <2> QED BY <2>1, <2>6, <2>7
<1> HIDE DEF f, First
<1>5. 0 \in S
  <2>1. f[0] = NewBuckets(H)
    BY <1>2 DEF Moves
  <2>2. Expanding(H, f[0], First(0))
    BY <1>3, <2>1, NewBucketsFields
  <2> QED BY <2>2
<1>6. ASSUME NEW i \in 0..(m - 1), i \in S
      PROVE  i + 1 \in S
  <2>1. i + 1 \in 0..m /\ i + 1 # 0 /\ (i + 1) - 1 = i
    OBVIOUS
  <2>2. f[i + 1] = MoveItem(f[(i + 1) - 1], items[i + 1])
    BY <1>2, <2>1 DEF Moves
  <2>3. f[i + 1] = MoveItem(f[i], items[i + 1])
    BY <2>1, <2>2
  <2>4. Expanding(H, f[i], First(i))
    BY <1>6
  <2>5. Expanding(H, MoveItem(f[i], items[i + 1]), First(i) \cup {items[i + 1]})
    BY <1>4, <2>4, MoveItemExpands
  <2> QED BY <1>4, <2>1, <2>3, <2>5
<1>7. m \in S
  <2> HIDE DEF S
  <2>1. \A i \in 0..m : i \in S
    BY <1>5, <1>6, UpTo
  <2> QED BY <2>1
<1> QED BY <1>1, <1>3, <1>7 DEF f

(* HASH_EXPAND_BUCKETS doubles the buckets and keeps every element.        *)
LEMMA ExpandFields ==
  ASSUME NEW H \in HashRecord, H.tbl \in TableRecord, H.tbl.num_items # 0,
         NEW M, Chains(H.hh, H.tbl.buckets, H.tbl.num_buckets, M)
  PROVE  LET R == HASH_EXPAND_BUCKETS(H)
         IN  /\ R \in HashRecord
             /\ R.head = H.head
             /\ R.tbl \in TableRecord
             /\ R.tbl.tail = H.tbl.tail /\ R.tbl.num_items = H.tbl.num_items
             /\ \A e \in Entries : /\ R.hh[e].next = H.hh[e].next
                                   /\ R.hh[e].prev = H.hh[e].prev
                                   /\ R.hh[e].hashv = H.hh[e].hashv
             /\ Chains(R.hh, R.tbl.buckets, R.tbl.num_buckets, M)
<1> DEFINE R == HASH_EXPAND_BUCKETS(H)
           t == H.tbl
           N == t.num_buckets
           items == BucketOrder(H)
           new == MoveItems(H, items)[Len(items)]
           ineff == IF new.nonideal_items > t.num_items \div 2 THEN t.ineff_expands + 1 ELSE 0
           noexpand == t.noexpand \/ ineff > 1
           t2 == [t EXCEPT !.num_buckets = 2 * N, !.buckets = new.buckets,
                           !.ineff_expands = ineff, !.noexpand = noexpand]
<1>1. H.hh \in [Entries -> Handle]
  BY DEF HashRecord
<1>2. PICK m \in Nat : /\ items \in [1..m -> Entries]
                       /\ Injective(items, m)
                       /\ Range(items) = M
  BY <1>1, BucketOrderIs
<1>3. R = [H EXCEPT !.hh = new.hh, !.tbl = t2]
  BY DEF HASH_EXPAND_BUCKETS
<1> HIDE DEF items
<1>4. Expanding(H, new, M)
  BY <1>2, MoveItemsExpands
<1> HIDE DEF new
<1>5. /\ new \in NewRecord
      /\ \A e \in Entries : /\ new.hh[e].next = H.hh[e].next
                            /\ new.hh[e].prev = H.hh[e].prev
                            /\ new.hh[e].hashv = H.hh[e].hashv
      /\ Chains(new.hh, new.buckets, 2 * N, M)
  BY <1>4 DEF Expanding
<1>6. new.hh \in [Entries -> Handle]
  BY <1>5 DEF NewRecord
<1>7. PICK k \in Nat \ {0} : k = 2 * N
  BY <1>5 DEF Chains
<1>8. new.buckets \in [0..(k - 1) -> Bucket]
  BY <1>5, <1>7 DEF Chains
<1>9. ineff \in Nat
  <2>1. t.ineff_expands \in Nat
    BY DEF TableRecord
  <2> QED BY <2>1
<1>10. noexpand \in BOOLEAN
  OBVIOUS
<1> HIDE DEF R, ineff, noexpand
<1>11. /\ t2 \in TableRecord
       /\ t2.num_buckets = 2 * N
       /\ t2.buckets = new.buckets
       /\ t2.tail = t.tail
       /\ t2.num_items = t.num_items
  BY <1>7, <1>8, <1>9, <1>10 DEF TableRecord
<1> HIDE DEF t2
<1>12. R \in HashRecord /\ R.head = H.head /\ R.hh = new.hh /\ R.tbl = t2
  BY <1>3, <1>6, <1>11 DEF HashRecord
<1> QED BY <1>5, <1>11, <1>12 DEF R

-----------------------------------------------------------------------------
(* HASH_ADD and HASH_FIND of a table.                                      *)

(* What a list has once it has one more                                    *)
LEMMA AppendedRange ==
  ASSUME NEW n \in Nat, NEW L \in [1..n -> Entries], NEW d \in Entries
  PROVE  /\ Appended(L, n, d)[n + 1] = d
         /\ \A i \in 1..n : Appended(L, n, d)[i] = L[i]
         /\ \A e : e \in Range(Appended(L, n, d)) <=> e \in Range(L) \cup {d}
<1> DEFINE P == Appended(L, n, d)
<1>1. /\ DOMAIN P = 1..(n + 1)
      /\ P[n + 1] = d
      /\ \A i \in 1..n : P[i] = L[i]
  BY DEF Appended
<1>2. \A i \in 1..(n + 1) : i \in 1..n \/ i = n + 1
  OBVIOUS
<1>3. (\A i \in 1..n : i \in 1..(n + 1)) /\ n + 1 \in 1..(n + 1)
  OBVIOUS
<1> HIDE DEF P
<1>4. ASSUME NEW e
      PROVE  e \in Range(P) <=> e \in Range(L) \cup {d}
  BY <1>1, <1>2, <1>3 DEF Range
<1> QED BY <1>1, <1>4 DEF P

(* HASH_ADD before the bucket's turn: the element is the last of the list, *)
(* and the chains do not have it.                                          *)
LEMMA TableLinkedLast ==
  ASSUME NEW H, NEW L, NEW n, Table(H, L, n), NEW d \in Entries, d \notin Range(L),
         NEW k \in Words
  PROVE  LET R == LinkedLast(H, d, k)
         IN  /\ R \in HashRecord
             /\ Linked(Nexts(R.hh), Prevs(R.hh), R.head, Appended(L, n, d), n + 1)
             /\ R.tbl \in TableRecord
             /\ R.tbl.tail = d
             /\ R.tbl.num_items = n + 1
             /\ Chains(R.hh, R.tbl.buckets, R.tbl.num_buckets, Range(L))
             /\ R.hh[d].hashv = HASH_FCN[k]
             /\ \A e \in Entries : e # d => R.hh[e].hashv = H.hh[e].hashv
<1> DEFINE R == LinkedLast(H, d, k)
           t == StartTable(H, d)
           last == IF H.head = NULL THEN NULL ELSE H.tbl.tail
<1>1. /\ H.hh \in [Entries -> Handle]
      /\ n \in Nat
      /\ L \in [1..n -> Entries]
      /\ H.head = IF n = 0 THEN NULL ELSE L[1]
      /\ \A i \in 1..n : L[i] \in Range(L)
  BY TableLinks
<1>2. /\ H \in HashRecord
      /\ Linked(Nexts(H.hh), Prevs(H.hh), H.head, L, n)
      /\ n # 0 => /\ H.tbl \in TableRecord
                  /\ H.tbl.tail = L[n]
                  /\ H.tbl.num_items = n
                  /\ Chains(H.hh, H.tbl.buckets, H.tbl.num_buckets, Range(L))
  BY DEF Table
<1>3. H.head = NULL <=> n = 0
  <2>1. n # 0 => L[1] \in Entries
    BY <1>1
  <2> QED BY <1>1, <2>1, NullAssumption
<1>4. last = IF n = 0 THEN NULL ELSE L[n]
  BY <1>2, <1>3
<1>5. last \in Pointer /\ last # d
  <2>1. n # 0 => n \in 1..n /\ L[n] \in Entries /\ L[n] \in Range(L)
    BY <1>1
  <2> QED BY <1>4, <2>1, NullAssumption DEF Pointer
<1>6. /\ t \in TableRecord
      /\ t.num_items = n
      /\ Chains(H.hh, t.buckets, t.num_buckets, Range(L))
  <2>1. CASE n = 0
    <3> DEFINE q == HASH_MAKE_TABLE(d)
    <3>1. t = q
      BY <1>3, <2>1 DEF StartTable
    <3>2. /\ q \in TableRecord
          /\ q.num_items = 0
          /\ q.num_buckets \in Nat \ {0}
          /\ q.buckets = Buckets(q.num_buckets)
      BY MadeTable
    <3> HIDE DEF q, t
    <3>3. Chains(H.hh, q.buckets, q.num_buckets, {})
      BY <3>2, EmptyChains
    <3>4. Range(L) = {}
      BY <1>1, <2>1 DEF Range
    <3> QED BY <2>1, <3>1, <3>2, <3>3, <3>4
  <2>2. CASE n # 0
    <3>1. t = H.tbl
      BY <1>3, <2>2 DEF StartTable
    <3> QED BY <1>2, <2>2, <3>1
  <2> QED BY <2>1, <2>2
<1> HIDE DEF t, R
<1>7. /\ R \in HashRecord
      /\ R.head = IF H.head = NULL THEN d ELSE H.head
      /\ R.tbl \in TableRecord
      /\ R.tbl.tail = d
      /\ R.tbl.num_items = t.num_items + 1
      /\ R.tbl.num_buckets = t.num_buckets
      /\ R.tbl.buckets = t.buckets
      /\ R.hh[d].next = NULL /\ R.hh[d].prev = last /\ R.hh[d].hashv = HASH_FCN[k]
      /\ \A e \in Entries : /\ R.hh[e].hh_next = H.hh[e].hh_next
                            /\ R.hh[e].hh_prev = H.hh[e].hh_prev
      /\ \A e \in Entries : e # d =>
           /\ R.hh[e].next = IF e = last THEN d ELSE H.hh[e].next
           /\ R.hh[e].prev = H.hh[e].prev
           /\ R.hh[e].hashv = H.hh[e].hashv
  <2>1. t = StartTable(H, d)
    BY DEF t
  <2>2. last = (IF H.head = NULL THEN NULL ELSE H.tbl.tail)
    OBVIOUS
  <2> HIDE DEF last
  <2> QED BY <1>2, <1>5, <1>6, <2>1, <2>2, LinkedLastFields DEF R
<1> HIDE DEF last
<1>8. /\ \A e \in Entries : Nexts(R.hh)[e] = R.hh[e].next /\ Prevs(R.hh)[e] = R.hh[e].prev
      /\ \A e \in Entries : Nexts(H.hh)[e] = H.hh[e].next /\ Prevs(H.hh)[e] = H.hh[e].prev
  BY DEF Nexts, Prevs
<1>9. Linked(Nexts(R.hh), Prevs(R.hh), R.head, Appended(L, n, d), n + 1)
  <2>1. \A e \in Entries : e # d =>
           /\ Nexts(R.hh)[e] = IF e = last THEN d ELSE Nexts(H.hh)[e]
           /\ Prevs(R.hh)[e] = Prevs(H.hh)[e]
    BY <1>7, <1>8
  <2>2. R.head = IF n = 0 THEN d ELSE H.head
    BY <1>3, <1>7
  <2>3. Nexts(R.hh)[d] = NULL /\ Prevs(R.hh)[d] = last
    BY <1>7, <1>8
  <2> QED BY <1>2, <1>4, <2>1, <2>2, <2>3, PushBack
<1>10. Chains(R.hh, t.buckets, t.num_buckets, Range(L))
  <2>1. \A e \in Range(L) : e \in Entries /\ e # d
    BY <1>6 DEF Chains
  <2>2. \A e \in Range(L) : /\ R.hh[e].hh_next = H.hh[e].hh_next
                            /\ R.hh[e].hh_prev = H.hh[e].hh_prev
                            /\ R.hh[e].hashv = H.hh[e].hashv
    BY <1>7, <2>1
  <2> QED BY <1>6, <2>2, ChainsFrame
<1> QED BY <1>6, <1>7, <1>9, <1>10 DEF R

(* HASH_ADD puts an element that the table does not have at the end of the *)
(* list and into its bucket.                                               *)
LEMMA TableAdded ==
  ASSUME NEW H, NEW L, NEW n, Table(H, L, n), NEW d \in Entries, d \notin Range(L),
         NEW k \in Words
  PROVE  /\ Table(HASH_ADD(H, d, k), Appended(L, n, d), n + 1)
         /\ HASH_ADD(H, d, k).hh[d].hashv = HASH_FCN[k]
         /\ \A e \in Entries : e # d => HASH_ADD(H, d, k).hh[e].hashv = H.hh[e].hashv
<1> DEFINE R == HASH_ADD(H, d, k)
           K == LinkedLast(H, d, k)
           N == K.tbl.num_buckets
           b == HASH_TO_BKT(HASH_FCN[k], N)
           A == AddedToBkt(K, b, d)
           P == Appended(L, n, d)
<1>1. /\ K \in HashRecord
      /\ Linked(Nexts(K.hh), Prevs(K.hh), K.head, P, n + 1)
      /\ K.tbl \in TableRecord
      /\ K.tbl.tail = d
      /\ K.tbl.num_items = n + 1
      /\ Chains(K.hh, K.tbl.buckets, N, Range(L))
      /\ K.hh[d].hashv = HASH_FCN[k]
      /\ \A e \in Entries : e # d => K.hh[e].hashv = H.hh[e].hashv
  BY TableLinkedLast
<1>2. R = HASH_EXPAND_BUCKETS(A) \/ R = A
  BY DEF HASH_ADD, HASH_ADD_TO_BKT
<1>3. b = K.hh[d].hashv % N
  BY <1>1 DEF HASH_TO_BKT
<1>4. n \in Nat /\ L \in [1..n -> Entries]
  BY TableLinks
<1>5. /\ P[n + 1] = d
      /\ \A e : e \in Range(P) <=> e \in Range(L) \cup {d}
  BY <1>4, AppendedRange
<1> HIDE DEF R, b, K, P, A
<1>6. /\ N \in Nat \ {0}
      /\ K.tbl.buckets \in [0..(N - 1) -> Bucket]
      /\ \A c \in 0..(N - 1) :
           Holds(K.hh, K.tbl.buckets[c], InBucket(K.hh, N, Range(L), c))
  BY <1>1 DEF Chains
<1>7. b \in 0..(N - 1)
  <2>1. K.hh[d].hashv \in Nat
    BY <1>1 DEF HashRecord, Handle
  <2> QED BY <1>3, <1>6, <2>1, Remainder
<1>8. K.tbl.buckets[b].hh_head # d
  <2>1. Holds(K.hh, K.tbl.buckets[b], InBucket(K.hh, N, Range(L), b))
    BY <1>6, <1>7
  <2>2. K.tbl.buckets[b].hh_head \in InBucket(K.hh, N, Range(L), b) \cup {NULL}
    BY <2>1, HoldsClosed
  <2> QED BY <2>2, NullAssumption DEF InBucket
<1>9. /\ A \in HashRecord
      /\ A.head = K.head
      /\ A.tbl \in TableRecord
      /\ A.tbl.tail = K.tbl.tail /\ A.tbl.num_items = K.tbl.num_items /\ A.tbl.num_buckets = N
      /\ BktChanges(K.tbl.buckets, N, b, d, K.tbl.buckets[b].count + 1, A.tbl.buckets)
      /\ BktLinks(K.hh, d, K.tbl.buckets[b].hh_head, A.hh)
      /\ \A e \in Entries : A.hh[e].next = K.hh[e].next /\ A.hh[e].prev = K.hh[e].prev
  BY <1>1, <1>6, <1>7, <1>8, AddedToBktFields DEF A
<1>10. Chains(A.hh, A.tbl.buckets, A.tbl.num_buckets, Range(L) \cup {d})
  <2>1. Chains(A.hh, A.tbl.buckets, N, Range(L) \cup {d})
    BY <1>1, <1>3, <1>9, ChainsAdded
  <2> QED BY <1>9, <2>1
<1>11. \A e \in Entries : A.hh[e].hashv = K.hh[e].hashv
  BY <1>9 DEF BktLinks
<1>12. /\ R \in HashRecord
       /\ R.head = K.head
       /\ R.tbl \in TableRecord
       /\ R.tbl.tail = d /\ R.tbl.num_items = n + 1
       /\ \A e \in Entries : /\ R.hh[e].next = K.hh[e].next
                             /\ R.hh[e].prev = K.hh[e].prev
                             /\ R.hh[e].hashv = K.hh[e].hashv
       /\ Chains(R.hh, R.tbl.buckets, R.tbl.num_buckets, Range(L) \cup {d})
  <2>1. CASE R = A
    BY <1>1, <1>9, <1>10, <1>11, <2>1
  <2>2. CASE R = HASH_EXPAND_BUCKETS(A)
    <3>1. A.tbl.num_items # 0
      BY <1>1, <1>4, <1>9
    <3>2. /\ R \in HashRecord
          /\ R.head = A.head
          /\ R.tbl \in TableRecord
          /\ R.tbl.tail = A.tbl.tail /\ R.tbl.num_items = A.tbl.num_items
          /\ \A e \in Entries : /\ R.hh[e].next = A.hh[e].next
                                /\ R.hh[e].prev = A.hh[e].prev
                                /\ R.hh[e].hashv = A.hh[e].hashv
          /\ Chains(R.hh, R.tbl.buckets, R.tbl.num_buckets, Range(L) \cup {d})
      BY <1>9, <1>10, <2>2, <3>1, ExpandFields
    <3> QED BY <1>1, <1>9, <1>11, <3>2
  <2> QED BY <1>2, <2>1, <2>2
<1>13. Linked(Nexts(R.hh), Prevs(R.hh), R.head, P, n + 1)
  <2>1. Nexts(R.hh) = Nexts(K.hh) /\ Prevs(R.hh) = Prevs(K.hh)
    BY <1>12 DEF Nexts, Prevs
  <2> QED BY <1>1, <1>12, <2>1
<1>14. Range(P) = Range(L) \cup {d}
  BY <1>5
<1>15. n + 1 # 0
  BY <1>4
<1>16. Table(R, P, n + 1)
  BY <1>5, <1>12, <1>13, <1>14, <1>15 DEF Table
<1>17. /\ R.hh[d].hashv = HASH_FCN[k]
       /\ \A e \in Entries : e # d => R.hh[e].hashv = H.hh[e].hashv
  BY <1>1, <1>12
<1> QED BY <1>16, <1>17 DEF R, P

(* HASH_ITER visits the elements in the order of the list.                 *)
LEMMA AppOrderIs ==
  ASSUME NEW H, NEW L, NEW n, Table(H, L, n)
  PROVE  AppOrder(H) = L /\ Len(AppOrder(H)) = n
<1>1. /\ n \in Nat
      /\ L \in [1..n -> Entries]
      /\ Injective(L, n)
      /\ H.head = IF n = 0 THEN NULL ELSE L[1]
      /\ \A i \in 1..n : H.hh[L[i]]["next"] = IF i = n THEN NULL ELSE L[i + 1]
  BY TableLinks
<1>2. Chain(H.hh, H.head, "next") = L
  BY <1>1, ChainIs
<1>3. Len(L) = n
  BY <1>1
<1> QED BY <1>2, <1>3 DEF AppOrder

(* A list of different elements has as many as its length.                 *)
LEMMA RangeCount ==
  ASSUME NEW n \in Nat, NEW L \in [1..n -> Entries], Injective(L, n)
  PROVE  Cardinality(Range(L)) = n
<1>1. /\ IsFiniteSet(1..n)
      /\ Cardinality(1..n) = n
  <2>1. 1 \in Int /\ n \in Int /\ ~ (1 > n) => n - 1 + 1 = n
    OBVIOUS
  <2> QED BY <2>1, FS_Interval
<1>2. L \in Surjection(1..n, Range(L)) /\ L \in Injection(1..n, Range(L))
  BY DEF Injection, Injective, IsInjective, Surjection, Range
<1> QED BY <1>1, <1>2, FS_Surjection

(* A table passes its own verification.                                    *)
LEMMA FsckHolds ==
  ASSUME NEW H, NEW L, NEW n, Table(H, L, n)
  PROVE  HASH_FSCK(H)
<1> SUFFICES ASSUME H.head # NULL
             PROVE  HASH_FSCK(H)
  BY DEF HASH_FSCK
<1> DEFINE t == H.tbl
           N == t.num_buckets
<1>1. /\ H.hh \in [Entries -> Handle]
      /\ n \in Nat
      /\ L \in [1..n -> Entries]
      /\ Injective(L, n)
      /\ H.head = IF n = 0 THEN NULL ELSE L[1]
      /\ \A i \in 1..n : H.hh[L[i]].prev = IF i = 1 THEN NULL ELSE L[i - 1]
  BY TableLinks
<1>2. /\ t.num_items = n
      /\ Chains(H.hh, t.buckets, N, Range(L))
  BY <1>1 DEF Table
<1>3. /\ t.buckets \in [0..(N - 1) -> Bucket]
      /\ \A c \in 0..(N - 1) : Holds(H.hh, t.buckets[c], InBucket(H.hh, N, Range(L), c))
  BY <1>2 DEF Chains
<1>4. ASSUME NEW b \in DOMAIN t.buckets
      PROVE  /\ BackLinked(H, BucketChain(H, b), "hh_prev")
             /\ t.buckets[b].count = Len(BucketChain(H, b))
  <2> DEFINE S == BucketChain(H, b)
             bkt == t.buckets[b]
             M == InBucket(H.hh, N, Range(L), b)
  <2>1. S = Chain(H.hh, bkt.hh_head, "hh_next")
    BY DEF BucketChain
  <2>2. Holds(H.hh, bkt, M)
    BY <1>3
  <2> HIDE DEF S, bkt, M
  <2>3. /\ bkt.count \in Nat
        /\ S \in [1..bkt.count -> Entries]
        /\ \A i \in 1..bkt.count : H.hh[S[i]].hh_prev = IF i = 1 THEN NULL ELSE S[i - 1]
    BY <2>1, <2>2, HoldsChain
  <2>4. Len(S) = bkt.count /\ DOMAIN S = 1..bkt.count
    BY <2>3
  <2>5. BackLinked(H, S, "hh_prev")
    BY <2>3, <2>4 DEF BackLinked
  <2> QED BY <2>4, <2>5 DEF S, bkt
<1>5. t.num_items = Len(BucketOrder(H))
  <2> DEFINE B == BucketOrder(H)
             M == Range(L)
  <2>0. \E m \in Nat : /\ BucketOrder(H) \in [1..m -> Entries]
                       /\ Injective(BucketOrder(H), m)
                       /\ Range(BucketOrder(H)) = M
    <3>1. Chains(H.hh, H.tbl.buckets, H.tbl.num_buckets, M)
      BY <1>2
    <3>2. H.hh \in [Entries -> Handle]
      BY <1>1
    <3> HIDE DEF M
    <3> QED BY <3>1, <3>2, BucketOrderIs
  <2>1. PICK m \in Nat : B \in [1..m -> Entries] /\ Injective(B, m) /\ Range(B) = Range(L)
    BY <2>0
  <2> HIDE DEF B
  <2>2. Cardinality(Range(B)) = m
    BY <2>1, RangeCount
  <2>3. Cardinality(Range(L)) = n
    BY <1>1, RangeCount
  <2>4. Len(B) = m
    BY <2>1
  <2> QED BY <1>2, <2>1, <2>2, <2>3, <2>4 DEF B
<1>6. AppOrder(H) = L /\ Len(AppOrder(H)) = n
  BY AppOrderIs
<1>7. BackLinked(H, AppOrder(H), "prev")
  BY <1>1, <1>6 DEF BackLinked
<1> QED BY <1>2, <1>4, <1>5, <1>6, <1>7 DEF HASH_FSCK

(* HASH_FIND finds an element if and only if one has the key, provided the *)
(* elements were added under their keys.                                   *)
LEMMA FindSpec ==
  ASSUME NEW H, NEW L, NEW n, Table(H, L, n), NEW key, NEW k,
         \A e \in Range(L) : H.hh[e].hashv = HASH_FCN[key[e]], HASH_FCN[k] \in Nat
  PROVE  \/ HASH_FIND(H, key, k) = NULL /\ \A e \in Range(L) : key[e] # k
         \/ HASH_FIND(H, key, k) \in Range(L) /\ key[HASH_FIND(H, key, k)] = k
<1> DEFINE t == H.tbl
           N == t.num_buckets
           b == HASH_FCN[k] % N
           S == BucketChain(H, b)
           same == {i \in DOMAIN S : key[S[i]] = k}
           bkt == t.buckets[b]
           M == InBucket(H.hh, N, Range(L), b)
<1>1. /\ n \in Nat
      /\ L \in [1..n -> Entries]
      /\ H.head = IF n = 0 THEN NULL ELSE L[1]
  BY TableLinks
<1>2. CASE n = 0
  <2>1. HASH_FIND(H, key, k) = NULL
    BY <1>1, <1>2 DEF HASH_FIND
  <2>2. Range(L) = {}
    BY <1>1, <1>2 DEF Range
  <2> QED BY <2>1, <2>2
<1>3. CASE n # 0
  <2>1. H.head # NULL
    BY <1>1, <1>3, NullAssumption
  <2>2. HASH_FIND(H, key, k) =
          IF same = {} THEN NULL ELSE S[CHOOSE i \in same : \A j \in same : i <= j]
    BY <2>1 DEF HASH_FIND, HASH_TO_BKT
  <2>3. /\ N \in Nat \ {0}
        /\ \A c \in 0..(N - 1) : Holds(H.hh, t.buckets[c], InBucket(H.hh, N, Range(L), c))
    BY <1>3 DEF Table, Chains
  <2>4. b \in 0..(N - 1)
    <3> HIDE DEF N
    <3> QED BY <2>3, Remainder
  <2>5. Holds(H.hh, bkt, M)
    BY <2>3, <2>4
  <2>6. S = Chain(H.hh, bkt.hh_head, "hh_next")
    BY DEF BucketChain
  <2>7. \A e : e \in M <=> e \in Range(L) /\ H.hh[e].hashv % N = b
    BY DEF InBucket
  <2>8. \A e \in Range(L) : key[e] = k => e \in M
    BY <2>7
  <2> HIDE DEF S, bkt, M
  <2>9. bkt.count \in Nat /\ S \in [1..bkt.count -> Entries] /\ Range(S) = M
    BY <2>5, <2>6, HoldsChain
  <2>10. CASE same = {}
    <3>1. \A i \in DOMAIN S : key[S[i]] # k
      BY <2>10
    <3>2. \A e \in M : key[e] # k
      BY <2>9, <3>1 DEF Range
    <3> QED BY <2>2, <2>8, <2>10, <3>2
  <2>11. CASE same # {}
    <3>1. same \in SUBSET Nat
      BY <2>9
    <3> DEFINE i == CHOOSE i \in same : \A j \in same : i <= j
    <3>2. i \in same
      <4> HIDE DEF same
      <4>1. \E x \in same : \A j \in same : x <= j
        BY <2>11, <3>1, Least
      <4> QED BY <4>1
    <3> HIDE DEF i
    <3>3. S[i] \in M /\ key[S[i]] = k
      BY <2>9, <3>2 DEF Range
    <3>4. HASH_FIND(H, key, k) = S[i]
      BY <2>2, <2>11 DEF i
    <3> QED BY <2>7, <3>3, <3>4
  <2> QED BY <2>10, <2>11
<1> QED BY <1>2, <1>3

-----------------------------------------------------------------------------
(* The destructor.                                                         *)

(* The table after each HASH_DELETE of the destructor                      *)
Deletes(f, H, items, m) ==
  f = [i \in 0..m |-> IF i = 0 THEN H ELSE HASH_DELETE(f[i - 1], items[i])]

(* DeleteItems is defined by recursion on the items deleted.               *)
LEMMA DeleteItemsDefined ==
  ASSUME NEW H, NEW items, NEW n \in Nat, Len(items) = n
  PROVE  Deletes(DeleteItems(H, items), H, items, n)
<1> DEFINE Delete(f, m) ==
             [i \in 0..m |-> IF i = 0 THEN H ELSE HASH_DELETE(f[i - 1], items[i])]
           S == {m \in 0..n : \E f : f = Delete(f, m)}
<1>1. 0 \in S
  <2> DEFINE g == [i \in 0..0 |-> H]
  <2>1. \A i \in 0..0 : g[i] = Delete(g, 0)[i]
    OBVIOUS
  <2>2. /\ g = [i \in 0..0 |-> g[i]]
        /\ Delete(g, 0) = [i \in 0..0 |-> Delete(g, 0)[i]]
    OBVIOUS
  <2> HIDE DEF g, Delete
  <2>3. g = Delete(g, 0)
    BY <2>1, <2>2
  <2> QED BY <2>3
<1>2. ASSUME NEW m \in 0..(n - 1), m \in S
      PROVE  m + 1 \in S
  <2>1. PICK f : f = Delete(f, m)
    BY <1>2
  <2> DEFINE g == [i \in 0..(m + 1) |-> IF i <= m THEN f[i] ELSE HASH_DELETE(f[i - 1], items[i])]
  <2>2. ASSUME NEW i \in 0..(m + 1)
        PROVE  g[i] = Delete(g, m + 1)[i]
    <3>1. i # 0 => i - 1 \in 0..(m + 1) /\ i - 1 <= m /\ g[i - 1] = f[i - 1]
      OBVIOUS
    <3>2. CASE i <= m
      <4>1. i \in 0..m /\ g[i] = f[i]
        BY <3>2
      <4>2. f[i] = IF i = 0 THEN H ELSE HASH_DELETE(f[i - 1], items[i])
        BY <2>1, <4>1
      <4> HIDE DEF g
      <4> QED BY <3>1, <4>1, <4>2
    <3>3. CASE i = m + 1
      <4>1. g[i] = HASH_DELETE(f[i - 1], items[i]) /\ i # 0
        BY <3>3
      <4> HIDE DEF g
      <4> QED BY <3>1, <4>1
    <3> QED BY <3>2, <3>3
  <2>3. /\ g = [i \in 0..(m + 1) |-> g[i]]
        /\ Delete(g, m + 1) = [i \in 0..(m + 1) |-> Delete(g, m + 1)[i]]
    OBVIOUS
  <2> HIDE DEF g, Delete
  <2>4. g = Delete(g, m + 1)
    BY <2>2, <2>3
  <2> QED BY <2>4
<1>3. n \in S
  <2> HIDE DEF S
  <2>1. \A m \in 0..n : m \in S
    BY <1>1, <1>2, UpTo
  <2> QED BY <2>1
<1> DEFINE h == CHOOSE f : f = Delete(f, n)
<1>4. h = Delete(h, n)
  <2> HIDE DEF Delete
  <2> QED BY <1>3
<1>5. DeleteItems(H, items) = h
  BY DEF DeleteItems
<1> HIDE DEF h
<1> QED BY <1>4, <1>5 DEF Deletes

(* What is left of a list after its first i elements                       *)
Rest(L, n, i) == [j \in 1..(n - i) |-> L[i + j]]

(* Deleting every element of HASH_ITER frees the table.                    *)
LEMMA DeletedAll ==
  ASSUME NEW H, NEW L, NEW n, Table(H, L, n)
  PROVE  DeleteItems(H, AppOrder(H))[Len(AppOrder(H))].tbl = NULL
<1> DEFINE f == DeleteItems(H, L)
           S == {i \in 0..n : Table(f[i], Rest(L, n, i), n - i)}
<1>1. n \in Nat /\ L \in [1..n -> Entries]
  BY TableLinks
<1>2. AppOrder(H) = L /\ Len(AppOrder(H)) = n
  BY AppOrderIs
<1>3. Deletes(f, H, L, n)
  BY <1>1, <1>2, DeleteItemsDefined
<1> HIDE DEF f
<1>4. 0 \in S
  <2>1. f[0] = H
    BY <1>1, <1>3 DEF Deletes
  <2>2. Rest(L, n, 0) = L /\ n - 0 = n
    BY <1>1 DEF Rest
  <2> QED BY <1>1, <2>1, <2>2
<1>5. ASSUME NEW i \in 0..(n - 1), i \in S
      PROVE  i + 1 \in S
  <2> DEFINE Q == Rest(L, n, i)
  <2>1. i + 1 \in 0..n /\ i + 1 # 0 /\ (i + 1) - 1 = i /\ 1 \in 1..(n - i)
    BY <1>1
  <2>2. f[i + 1] = HASH_DELETE(f[(i + 1) - 1], L[i + 1])
    BY <1>3, <2>1 DEF Deletes
  <2>3. Q[1] = L[i + 1]
    BY <2>1 DEF Rest
  <2>4. Table(f[i], Q, n - i)
    BY <1>5
  <2>5. Without(Q, n - i, 1) = Rest(L, n, i + 1)
    <3>1. (n - i) - 1 = n - (i + 1)
      BY <1>1
    <3>2. \A j \in 1..((n - i) - 1) :
            ~ (j < 1) /\ j + 1 \in 1..(n - i) /\ i + (j + 1) = (i + 1) + j
      BY <1>1
    <3>3. \A j \in 1..((n - i) - 1) : Q[j + 1] = L[(i + 1) + j]
      BY <3>2 DEF Rest
    <3>4. \A j \in 1..((n - i) - 1) : (IF j < 1 THEN Q[j] ELSE Q[j + 1]) = L[(i + 1) + j]
      BY <3>2, <3>3
    <3> HIDE DEF Q
    <3> QED BY <3>1, <3>4 DEF Without, Rest
  <2> HIDE DEF Q
  <2>6. Table(HASH_DELETE(f[i], Q[1]), Without(Q, n - i, 1), (n - i) - 1)
    BY <2>1, <2>4, TableDeleted
  <2>7. (n - i) - 1 = n - (i + 1)
    BY <1>1
  <2>8. f[i + 1] = HASH_DELETE(f[i], Q[1])
    BY <2>1, <2>2, <2>3
  <2>9. Table(f[i + 1], Rest(L, n, i + 1), n - (i + 1))
    BY <2>5, <2>6, <2>7, <2>8
  <2> QED BY <2>1, <2>9
<1>6. n \in S
  <2> HIDE DEF S
  <2>1. \A i \in 0..n : i \in S
    BY <1>1, <1>4, <1>5, UpTo
  <2> QED BY <1>1, <2>1
<1>7. f[n].tbl = NULL
  <2>1. Table(f[n], Rest(L, n, n), n - n)
    BY <1>6
  <2>2. n - n = 0
    BY <1>1
  <2> QED BY <2>1, <2>2 DEF Table
<1> QED BY <1>2, <1>7 DEF f

-----------------------------------------------------------------------------
(* The words looked up.                                                    *)

(* Append on a list given as a function                                    *)
LEMMA AppendIs ==
  ASSUME NEW S, NEW m \in Nat, NEW V \in [1..m -> S], NEW w \in S
  PROVE  Append(V, w) = Appended(V, m, w)
<1> DEFINE Z == Append(V, w)
<1>1. V \in Seq(S) /\ Len(V) = m
  OBVIOUS
<1>2. /\ Z \in Seq(S)
      /\ Len(Z) = m + 1
      /\ \A i \in 1..m : Z[i] = V[i]
      /\ Z[m + 1] = w
  BY <1>1, AppendProperties
<1> HIDE DEF Z
<1>3. Z \in [1..(m + 1) -> S]
  BY <1>2, LenProperties
<1>4. \A i \in 1..(m + 1) : Z[i] = IF i = m + 1 THEN w ELSE V[i]
  <2>1. \A i \in 1..(m + 1) : i # m + 1 => i \in 1..m
    OBVIOUS
  <2> QED BY <1>2, <2>1
<1>5. Z = [i \in 1..(m + 1) |-> Z[i]]
  BY <1>3
<1> QED BY <1>4, <1>5 DEF Appended, Z

(* What a lookup makes of the history                                      *)
Used(u, w, u2) == u2 = Append(RemoveFirst(u, w), w)

(* The word used last, of m different words, is the last of the history.   *)
LEMMA UseIs ==
  ASSUME NEW m \in Nat, NEW u \in [1..m -> Words], Injective(u, m), NEW w \in Words,
         NEW u2, Used(u, w, u2)
  PROVE  \/ w \notin Range(u) /\ u2 = Appended(u, m, w)
         \/ \E q \in 1..m : u[q] = w /\ u2 = Appended(Without(u, m, q), m - 1, w)
<1> USE DEF Used
<1>1. u \in Seq(Words) /\ Len(u) = m
  OBVIOUS
<1>2. CASE ~ \E i \in 1..m : u[i] = w
  <2>1. RemoveFirst(u, w) = u
    BY <1>1, <1>2 DEF RemoveFirst
  <2>2. w \notin Range(u)
    BY <1>2 DEF Range
  <2>3. Append(u, w) = Appended(u, m, w)
    BY AppendIs
  <2> QED BY <2>1, <2>2, <2>3
<1>3. ASSUME NEW q \in 1..m, u[q] = w
      PROVE  u2 = Appended(Without(u, m, q), m - 1, w)
  <2> DEFINE I == {i \in 1..Len(u) : u[i] = w}
             V == Without(u, m, q)
  <2>1. I = {q}
    BY <1>1, <1>3 DEF Injective
  <2>2. RemoveFirst(u, w) = RemoveAt(u, IF I # {} THEN Min(I) ELSE 0)
    BY <1>1, <1>3 DEF RemoveFirst, SelectInSeq
  <2>3. Min(I) = q
    BY <2>1 DEF Min
  <2>4. RemoveFirst(u, w) = SubSeq(u, 1, q - 1) \o SubSeq(u, q + 1, m)
    <3> HIDE DEF I
    <3> QED BY <1>1, <2>1, <2>2, <2>3 DEF RemoveAt
  <2> DEFINE A == SubSeq(u, 1, q - 1)  B == SubSeq(u, q + 1, m)
  <2>5. /\ A \in Seq(Words) /\ Len(A) = q - 1
        /\ \A i \in 1..(q - 1) : A[i] = u[i]
    BY <1>1
  <2>6. /\ B \in Seq(Words) /\ Len(B) = m - q
        /\ \A i \in 1..(m - q) : B[i] = u[q + i]
    BY <1>1
  <2> HIDE DEF A, B
  <2>7. /\ A \o B \in Seq(Words) /\ Len(A \o B) = (q - 1) + (m - q)
        /\ \A i \in 1..((q - 1) + (m - q)) :
             (A \o B)[i] = IF i <= q - 1 THEN A[i] ELSE B[i - (q - 1)]
    <3>1. q - 1 \in Nat /\ m - q \in Nat
      OBVIOUS
    <3> DEFINE a == q - 1  b == m - q
    <3>2. a \in Nat /\ b \in Nat /\ A \in Seq(Words) /\ Len(A) = a /\ B \in Seq(Words) /\ Len(B) = b
      BY <2>5, <2>6, <3>1
    <3> HIDE DEF a, b
    <3>3. /\ A \o B \in Seq(Words) /\ Len(A \o B) = a + b
          /\ \A i \in 1..(a + b) : (A \o B)[i] = IF i <= a THEN A[i] ELSE B[i - a]
      BY <3>2, ConcatProperties
    <3> QED BY <3>3 DEF a, b
  <2>8. (q - 1) + (m - q) = m - 1
    OBVIOUS
  <2>9. ASSUME NEW i \in 1..(m - 1)
        PROVE  (A \o B)[i] = IF i < q THEN u[i] ELSE u[i + 1]
    <3>1. CASE i < q
      BY <2>5, <2>7, <2>8, <3>1
    <3>2. CASE ~ (i < q)
      <4>1. i - (q - 1) \in 1..(m - q) /\ q + (i - (q - 1)) = i + 1 /\ ~ (i <= q - 1)
        BY <3>2
      <4>2. B[i - (q - 1)] = u[q + (i - (q - 1))]
        BY <2>6, <4>1
      <4>3. (A \o B)[i] = B[i - (q - 1)]
        BY <2>7, <2>8, <4>1
      <4> QED BY <3>2, <4>1, <4>2, <4>3
    <3> QED BY <3>1, <3>2
  <2>10. A \o B = V
    <3> DEFINE Z == A \o B
    <3>1. Z \in Seq(Words) /\ Len(Z) = m - 1
      BY <2>7, <2>8
    <3> HIDE DEF Z
    <3>2. Z \in [1..(m - 1) -> Words]
      BY <3>1, LenProperties
    <3>3. Z = [i \in 1..(m - 1) |-> Z[i]]
      BY <3>2
    <3> QED BY <2>9, <3>3 DEF Without, Z
  <2>11. V \in [1..(m - 1) -> Words] /\ m - 1 \in Nat
    BY WithoutProperties
  <2>12. u2 = Append(V, w)
    BY <2>4, <2>10 DEF A, B
  <2> HIDE DEF V
  <2>13. Append(V, w) = Appended(V, m - 1, w)
    BY <2>11, AppendIs
  <2> QED BY <2>12, <2>13 DEF V
<1> QED BY <1>2, <1>3

(* The last n of the m words of the history are those of W.                *)
Recent(W, n, u, m) ==
  /\ m \in Nat
  /\ u \in [1..m -> Words]
  /\ Injective(u, m)
  /\ n \in 0..m
  /\ \A i \in 1..n : W[i] = u[(m - n) + i]

(* A word that a list does not have, appended to it                        *)
LEMMA AppendedWords ==
  ASSUME NEW m \in Nat, NEW u \in [1..m -> Words], Injective(u, m),
         NEW w \in Words, w \notin Range(u)
  PROVE  /\ m + 1 \in Nat
         /\ Appended(u, m, w) \in [1..(m + 1) -> Words]
         /\ Injective(Appended(u, m, w), m + 1)
         /\ Appended(u, m, w)[m + 1] = w
         /\ \A i \in 1..m : Appended(u, m, w)[i] = u[i]
<1> DEFINE P == Appended(u, m, w)
<1>1. /\ P \in [1..(m + 1) -> Words]
      /\ P[m + 1] = w
      /\ \A i \in 1..m : P[i] = u[i]
  BY DEF Appended
<1>2. \A i \in 1..m : u[i] # w
  BY DEF Range
<1>3. \A i \in 1..(m + 1) : i \in 1..m \/ i = m + 1
  OBVIOUS
<1> HIDE DEF P
<1>4. \A i, k \in 1..(m + 1) : P[i] = P[k] => i = k
  BY <1>1, <1>2, <1>3 DEF Injective
<1> QED BY <1>1, <1>4 DEF Injective, P

(* The q-th word of the history becomes the last.                          *)
Moved(u, m, q, w, P) == u[q] = w /\ P = Appended(Without(u, m, q), m - 1, w)

(* A word of the history that is used again                                *)
LEMMA MovedToEnd ==
  ASSUME NEW m \in Nat, NEW u \in [1..m -> Words], Injective(u, m), NEW q \in 1..m,
         NEW w, NEW P, Moved(u, m, q, w, P)
  PROVE  /\ P \in [1..m -> Words]
         /\ Injective(P, m)
         /\ P[m] = w
         /\ \A i \in 1..(m - 1) : P[i] = IF i < q THEN u[i] ELSE u[i + 1]
<1> DEFINE V == Without(u, m, q)
<1>1. /\ V \in [1..(m - 1) -> Words]
      /\ m - 1 \in Nat
      /\ \A i \in 1..(m - 1) : V[i] = IF i < q THEN u[i] ELSE u[i + 1]
      /\ Injective(V, m - 1)
  BY WithoutProperties
<1>2. u[q] \notin Range(V) /\ u[q] \in Words
  <2>1. \A e : e \in Range(V) <=> e \in Range(u) \ {u[q]}
    BY WithoutRange
  <2> QED BY <2>1
<1>3. (m - 1) + 1 = m /\ P = Appended(V, m - 1, w) /\ w \in Words /\ w \notin Range(V)
  BY <1>2 DEF Moved
<1> HIDE DEF V
<1>4. /\ P \in [1..((m - 1) + 1) -> Words]
      /\ Injective(P, (m - 1) + 1)
      /\ P[(m - 1) + 1] = w
      /\ \A i \in 1..(m - 1) : P[i] = V[i]
  BY <1>1, <1>3, AppendedWords
<1> QED BY <1>1, <1>3, <1>4

(* A hit moves a word of the cache to the end, in the history too.         *)
LEMMA RecentHit ==
  ASSUME NEW W, NEW n, NEW u, NEW m, Recent(W, n, u, m), NEW j \in 1..n,
         NEW u2, Used(u, W[j], u2),
         NEW W2, W2[n] = W[j],
         \A i \in 1..(n - 1) : W2[i] = IF i < j THEN W[i] ELSE W[i + 1]
  PROVE  Recent(W2, n, u2, m)
<1> DEFINE p == (m - n) + j
<1>1. /\ m \in Nat
      /\ u \in [1..m -> Words]
      /\ Injective(u, m)
      /\ n \in 1..m
      /\ \A i \in 1..n : W[i] = u[(m - n) + i]
  BY DEF Recent
<1>2. p \in 1..m /\ u[p] = W[j] /\ W[j] \in Words
  BY <1>1
<1> HIDE DEF p
<1>3. PICK q \in 1..m : u[q] = W[j] /\ u2 = Appended(Without(u, m, q), m - 1, W[j])
  <2>1. W[j] \in Range(u)
    BY <1>1, <1>2 DEF Range
  <2> DEFINE w == W[j]
  <2>2. w \in Words /\ w \in Range(u) /\ Used(u, w, u2)
    BY <1>2, <2>1
  <2> HIDE DEF w
  <2>3. \E q \in 1..m : u[q] = w /\ u2 = Appended(Without(u, m, q), m - 1, w)
    BY <1>1, <2>2, UseIs, SMTT(30)
  <2> QED BY <2>3 DEF w
<1>4. q = p
  BY <1>1, <1>2, <1>3 DEF Injective
<1>5. /\ u2 \in [1..m -> Words]
      /\ Injective(u2, m)
      /\ u2[m] = W[j]
      /\ \A i \in 1..(m - 1) : u2[i] = IF i < p THEN u[i] ELSE u[i + 1]
  <2>1. Moved(u, m, p, W[j], u2)
    BY <1>3, <1>4 DEF Moved
  <2>2. m \in Nat /\ u \in [1..m -> Words] /\ Injective(u, m) /\ p \in 1..m
    BY <1>1, <1>2
  <2> QED BY <2>1, <2>2, MovedToEnd
<1>6. ASSUME NEW i \in 1..n
      PROVE  W2[i] = u2[(m - n) + i]
  <2>1. CASE i = n
    <3>1. (m - n) + i = m
      BY <1>1, <2>1
    <3> QED BY <1>5, <2>1, <3>1
  <2>2. CASE i # n
    <3>1. /\ i \in 1..(n - 1)
          /\ (m - n) + i \in 1..(m - 1)
          /\ ((m - n) + i < p <=> i < j)
          /\ ((m - n) + i) + 1 = (m - n) + (i + 1)
          /\ i + 1 \in 1..n
      BY <1>1, <2>2 DEF p
    <3>2. u2[(m - n) + i] = IF i < j THEN u[(m - n) + i] ELSE u[(m - n) + (i + 1)]
      BY <1>5, <3>1
    <3> QED BY <1>1, <3>1, <3>2
  <2> QED BY <2>1, <2>2
<1> QED BY <1>1, <1>5, <1>6 DEF Recent

(* A miss with a vacant entry: the word is new to the history.             *)
LEMMA RecentNew ==
  ASSUME NEW W, NEW m, NEW u, Recent(W, m, u, m), NEW w \in Words,
         \A i \in 1..m : W[i] # w,
         NEW u2, Used(u, w, u2),
         NEW W2, W2[m + 1] = w, \A i \in 1..m : W2[i] = W[i]
  PROVE  Recent(W2, m + 1, u2, m + 1)
<1>1. /\ m \in Nat
      /\ u \in [1..m -> Words]
      /\ Injective(u, m)
      /\ \A i \in 1..m : W[i] = u[(m - m) + i]
  BY DEF Recent
<1>2. \A i \in 1..m : (m - m) + i = i
  BY <1>1
<1>3. \A i \in 1..m : W[i] = u[i]
  BY <1>1, <1>2
<1>4. \A i \in 1..m : u[i] # w
  BY <1>3
<1>5. w \notin Range(u)
  BY <1>1, <1>4 DEF Range
<1>6. u2 = Appended(u, m, w)
  BY <1>1, <1>4, UseIs
<1>7. /\ m + 1 \in Nat
      /\ u2 \in [1..(m + 1) -> Words]
      /\ Injective(u2, m + 1)
      /\ u2[m + 1] = w
      /\ \A i \in 1..m : u2[i] = u[i]
  BY <1>1, <1>5, <1>6, AppendedWords
<1>8. ASSUME NEW i \in 1..(m + 1)
      PROVE  W2[i] = u2[((m + 1) - (m + 1)) + i]
  <2>1. ((m + 1) - (m + 1)) + i = i /\ (i \in 1..m \/ i = m + 1)
    BY <1>1
  <2> QED BY <1>3, <1>7, <2>1
<1>9. m + 1 \in 0..(m + 1)
  BY <1>1
<1> QED BY <1>7, <1>8, <1>9 DEF Recent

(* A miss that evicts: the word is new or from before the cache's.         *)
LEMMA RecentEvict ==
  ASSUME NEW W, NEW n \in Nat \ {0}, NEW u, NEW m, Recent(W, n, u, m), NEW w \in Words,
         \A i \in 1..n : W[i] # w,
         NEW u2, Used(u, w, u2),
         NEW W2, W2[n] = w, \A i \in 1..(n - 1) : W2[i] = W[i + 1]
  PROVE  \E m2 : Recent(W2, n, u2, m2)
<1>1. /\ m \in Nat
      /\ u \in [1..m -> Words]
      /\ Injective(u, m)
      /\ n \in 1..m
      /\ \A i \in 1..n : W[i] = u[(m - n) + i]
  BY DEF Recent
<1>2. CASE w \notin Range(u) /\ u2 = Appended(u, m, w)
  <2>1. /\ m + 1 \in Nat
        /\ u2 \in [1..(m + 1) -> Words]
        /\ Injective(u2, m + 1)
        /\ u2[m + 1] = w
        /\ \A i \in 1..m : u2[i] = u[i]
    BY <1>1, <1>2, AppendedWords
  <2>2. ASSUME NEW i \in 1..n
        PROVE  W2[i] = u2[((m + 1) - n) + i]
    <3>1. CASE i = n
      <4>1. ((m + 1) - n) + i = m + 1
        BY <1>1, <3>1
      <4> QED BY <2>1, <3>1, <4>1
    <3>2. CASE i # n
      <4>1. /\ i \in 1..(n - 1)
            /\ i + 1 \in 1..n
            /\ ((m + 1) - n) + i = (m - n) + (i + 1)
            /\ (m - n) + (i + 1) \in 1..m
        BY <1>1, <3>2
      <4> QED BY <1>1, <2>1, <4>1
    <3> QED BY <3>1, <3>2
  <2>3. n \in 0..(m + 1)
    BY <1>1
  <2>4. Recent(W2, n, u2, m + 1)
    BY <2>1, <2>2, <2>3 DEF Recent
  <2> QED BY <2>4
<1>3. ASSUME NEW q \in 1..m, u[q] = w, u2 = Appended(Without(u, m, q), m - 1, w)
      PROVE  Recent(W2, n, u2, m)
  <2>1. q <= m - n
    <3> SUFFICES ASSUME ~ (q <= m - n)
                 PROVE  FALSE
      OBVIOUS
    <3>1. q - (m - n) \in 1..n /\ (m - n) + (q - (m - n)) = q
      BY <1>1
    <3>2. W[q - (m - n)] = u[(m - n) + (q - (m - n))]
      BY <1>1, <3>1
    <3> QED BY <1>3, <3>1, <3>2
  <2>2. /\ u2 \in [1..m -> Words]
        /\ Injective(u2, m)
        /\ u2[m] = w
        /\ \A i \in 1..(m - 1) : u2[i] = IF i < q THEN u[i] ELSE u[i + 1]
    <3>1. Moved(u, m, q, w, u2)
      BY <1>3 DEF Moved
    <3>2. m \in Nat /\ u \in [1..m -> Words] /\ Injective(u, m)
      BY <1>1
    <3> QED BY <3>1, <3>2, MovedToEnd
  <2>3. ASSUME NEW i \in 1..n
        PROVE  W2[i] = u2[(m - n) + i]
    <3>1. CASE i = n
      <4>1. (m - n) + i = m
        BY <1>1, <3>1
      <4> QED BY <2>2, <3>1, <4>1
    <3>2. CASE i # n
      <4>1. /\ i \in 1..(n - 1)
            /\ i + 1 \in 1..n
            /\ (m - n) + i \in 1..(m - 1)
            /\ ~ ((m - n) + i < q)
            /\ ((m - n) + i) + 1 = (m - n) + (i + 1)
        BY <1>1, <2>1, <3>2
      <4>2. u2[(m - n) + i] = u[(m - n) + (i + 1)]
        BY <2>2, <4>1
      <4> QED BY <1>1, <4>1, <4>2
    <3> QED BY <3>1, <3>2
  <2>4. n \in 0..m
    BY <1>1
  <2> QED BY <1>1, <2>2, <2>3, <2>4 DEF Recent
<1>4. \/ w \notin Range(u) /\ u2 = Appended(u, m, w)
      \/ \E q \in 1..m : u[q] = w /\ u2 = Appended(Without(u, m, q), m - 1, w)
  BY <1>1, UseIs
<1> QED BY <1>2, <1>3, <1>4

-----------------------------------------------------------------------------
(* The cache.                                                              *)

(* An element that leaves its place for the end of the list                *)
Turned(L, n, j) == Appended(Without(L, n, j), n - 1, L[j])

(* The list is as long as before, and has the same elements.               *)
LEMMA TurnedFields ==
  ASSUME NEW n \in Nat, NEW L \in [1..n -> Entries], Injective(L, n), NEW j \in 1..n
  PROVE  /\ Turned(L, n, j)[n] = L[j]
         /\ \A i \in 1..(n - 1) : Turned(L, n, j)[i] = IF i < j THEN L[i] ELSE L[i + 1]
         /\ \A e : e \in Range(Turned(L, n, j)) <=> e \in Range(L)
<1> DEFINE V == Without(L, n, j)
           P == Appended(V, n - 1, L[j])
<1>1. /\ V \in [1..(n - 1) -> Entries]
      /\ n - 1 \in Nat
      /\ \A i \in 1..(n - 1) : V[i] = IF i < j THEN L[i] ELSE L[i + 1]
      /\ Injective(V, n - 1)
  BY WithoutProperties, Zenon
<1>2. \A e : e \in Range(V) <=> e \in Range(L) \ {L[j]}
  BY WithoutRange
<1>3. (n - 1) + 1 = n
  OBVIOUS
<1> HIDE DEF V
<1>4. /\ P[(n - 1) + 1] = L[j]
      /\ \A i \in 1..(n - 1) : P[i] = V[i]
      /\ \A e : e \in Range(P) <=> e \in Range(V) \cup {L[j]}
  <2>1. L[j] \in Entries
    OBVIOUS
  <2> QED BY <1>1, <2>1, AppendedRange
<1>5. L[j] \in Range(L)
  BY DEF Range
<1>6. P = Turned(L, n, j)
  BY DEF Turned, V
<1> HIDE DEF P
<1>7. P[n] = L[j] /\ \A i \in 1..(n - 1) : P[i] = IF i < j THEN L[i] ELSE L[i + 1]
  BY <1>1, <1>3, <1>4
<1>8. \A e : e \in Range(P) <=> e \in Range(L)
  BY <1>2, <1>4, <1>5
<1> QED BY <1>6, <1>7, <1>8

(* HASH_DEL and HASH_ADD of an element: it is the last, under the key it   *)
(* is added with.                                                          *)
LEMMA TableTurned ==
  ASSUME NEW H, NEW L, NEW n, Table(H, L, n), NEW j \in 1..n, NEW w \in Words
  PROVE  LET R == HASH_ADD(HASH_DELETE(H, L[j]), L[j], w)
         IN  /\ Table(R, Turned(L, n, j), n)
             /\ R.hh[L[j]].hashv = HASH_FCN[w]
             /\ \A e \in Entries : e # L[j] => R.hh[e].hashv = H.hh[e].hashv
<1> DEFINE d == L[j]
           D == HASH_DELETE(H, d)
           W == Without(L, n, j)
           R == HASH_ADD(D, d, w)
<1>1. n \in Nat /\ L \in [1..n -> Entries] /\ Injective(L, n)
  BY TableLinks
<1>2. /\ Table(D, W, n - 1)
      /\ \A e \in Entries : D.hh[e].hashv = H.hh[e].hashv
  BY TableDeleted
<1>3. d \in Entries /\ d \notin Range(W)
  <2>1. \A e : e \in Range(W) <=> e \in Range(L) \ {L[j]}
    BY <1>1, WithoutRange
  <2> QED BY <1>1, <2>1
<1>4. Turned(L, n, j) = Appended(W, n - 1, d) /\ (n - 1) + 1 = n
  BY <1>1 DEF Turned
<1> HIDE DEF D, W, d
<1>5. /\ Table(R, Appended(W, n - 1, d), (n - 1) + 1)
      /\ R.hh[d].hashv = HASH_FCN[w]
      /\ \A e \in Entries : e # d => R.hh[e].hashv = D.hh[e].hashv
  BY <1>2, <1>3, TableAdded
<1> HIDE DEF R
<1> QED BY <1>2, <1>4, <1>5 DEF R, D, d

EntryRecord == [k : Keys \cup {LRU_NOT_FOUND}, v : Levels \cup {LRU_NOT_FOUND}]

(* The entries the table links are the first of the array, each is linked  *)
(* under its key and has the last decision of the filter for it.           *)
Contents(es, hh, dec, L, n) ==
  /\ es \in [Entries -> EntryRecord]
  /\ dec \in [Words -> Levels \cup {LRU_NOT_FOUND}]
  /\ \A e : e \in Range(L) <=> e \in 0..(n - 1)
  /\ \A e \in Entries : e \notin Range(L) => es[e] = Vacant
  /\ \A e \in Range(L) : /\ e \in Entries
                         /\ es[e].k \in Keys
                         /\ hh[e].hashv = HASH_FCN[Word[es[e].k]]
                         /\ es[e].v = dec[Word[es[e].k]]

WordsOf(es, L, n) == [i \in 1..n |-> Word[es[L[i]].k]]

(* They have the words used last: all of them, or as many as there are     *)
(* entries.                                                                *)
History(es, u, L, n) == \E m : Recent(WordsOf(es, L, n), n, u, m) /\ (n = m \/ n = CacheSize)

Answer(res, dec) == res = Vacant \/ (res.k \in Keys /\ res.v = dec[Word[res.k]])

(* The inductive invariant                                                 *)
CacheInv ==
  \E L, n : /\ Table(table, L, n)
            /\ Contents(entries, table.hh, decision, L, n)
            /\ History(entries, used, L, n)
            /\ Answer(result, decision)

(* The word of a key                                                       *)
LEMMA WordOfKey ==
  ASSUME NEW k \in Keys
  PROVE  Word[k] \in Words /\ HASH_FCN[Word[k]] \in Nat
BY HashAssumption DEF Words

(* A new cache                                                             *)
LEMMA EmptyCache ==
  \E L, n : /\ Table(NoTable, L, n)
            /\ Contents([e \in Entries |-> Vacant], NoTable.hh,
                        [w \in Words |-> LRU_NOT_FOUND], L, n)
            /\ History([e \in Entries |-> Vacant], <<>>, L, n)
            /\ Answer(Vacant, [w \in Words |-> LRU_NOT_FOUND])
<1> DEFINE L == [i \in 1..0 |-> NULL]
           es == [e \in Entries |-> Vacant]
           dec == [w \in Words |-> LRU_NOT_FOUND]
<1>1. L \in [1..0 -> Entries] /\ Range(L) = {}
  BY DEF Range
<1>2. /\ NoTable.head = NULL
      /\ NoTable.tbl = NULL
      /\ NoTable.hh \in [Entries -> Handle]
      /\ NoTable \in HashRecord
  BY DEF NoTable, UT_hash_handle, Handle, Pointer, HashRecord
<1>3. es \in [Entries -> EntryRecord]
  BY DEF EntryRecord, Vacant
<1>4. es = [e \in Entries |-> Vacant] /\ \A e \in Entries : es[e] = Vacant
  OBVIOUS
<1>5. dec \in [Words -> Levels \cup {LRU_NOT_FOUND}]
  OBVIOUS
<1> HIDE DEF L, es, dec
<1>6. Linked(Nexts(NoTable.hh), Prevs(NoTable.hh), NoTable.head, L, 0)
  BY <1>1, <1>2 DEF Linked, Injective
<1>7. Table(NoTable, L, 0)
  BY <1>2, <1>6 DEF Table
<1>8. Contents(es, NoTable.hh, dec, L, 0)
  BY <1>1, <1>3, <1>4, <1>5 DEF Contents
<1>9. Recent(WordsOf(es, L, 0), 0, <<>>, 0)
  <2>1. <<>> \in [1..0 -> Words]
    OBVIOUS
  <2> QED BY <2>1 DEF Recent, Injective
<1>10. History(es, <<>>, L, 0)
  BY <1>9 DEF History
<1> QED BY <1>7, <1>8, <1>10 DEF Answer, es, dec

(* LRU::find finds the entry of the word, if it is in the cache.           *)
LEMMA FindIs ==
  ASSUME NEW L, NEW n, Table(table, L, n), Contents(entries, table.hh, decision, L, n),
         NEW k \in Keys
  PROVE  /\ \A e \in Range(L) : KeyAt[e] = Word[entries[e].k]
         /\ \/ HASH_FIND_INT(k) = NULL /\ \A e \in Range(L) : Word[entries[e].k] # Word[k]
            \/ HASH_FIND_INT(k) \in Range(L) /\ Word[entries[HASH_FIND_INT(k)].k] = Word[k]
<1>1. \A e \in Range(L) : /\ e \in Entries
                          /\ entries[e].k \in Keys
                          /\ table.hh[e].hashv = HASH_FCN[Word[entries[e].k]]
  BY DEF Contents
<1>2. \A e \in Range(L) : entries[e] # Vacant
  BY <1>1, KeysAssumption DEF Vacant
<1>3. \A e \in Range(L) : KeyAt[e] = Word[entries[e].k]
  BY <1>1, <1>2 DEF KeyAt
<1>4. \A e \in Range(L) : table.hh[e].hashv = HASH_FCN[KeyAt[e]]
  BY <1>1, <1>3
<1>5. HASH_FCN[Word[k]] \in Nat
  BY WordOfKey
<1> DEFINE f == HASH_FIND(table, KeyAt, Word[k])
           K == KeyAt
           w == Word[k]
<1>6. \/ f = NULL /\ \A e \in Range(L) : KeyAt[e] # Word[k]
      \/ f \in Range(L) /\ KeyAt[f] = Word[k]
  <2>1. (\A e \in Range(L) : table.hh[e].hashv = HASH_FCN[K[e]]) /\ HASH_FCN[w] \in Nat
    BY <1>4, <1>5
  <2>2. f = HASH_FIND(table, K, w)
    OBVIOUS
  <2> HIDE DEF K, w, f
  <2>3. \/ HASH_FIND(table, K, w) = NULL /\ \A e \in Range(L) : K[e] # w
        \/ HASH_FIND(table, K, w) \in Range(L) /\ K[HASH_FIND(table, K, w)] = w
    BY <2>1, FindSpec
  <2> QED BY <2>2, <2>3 DEF K, w
<1>7. HASH_FIND_INT(k) = f
  BY DEF HASH_FIND_INT
<1> HIDE DEF f
<1> QED BY <1>3, <1>6, <1>7

(* An element of the table has its place in the list.                      *)
LEMMA PlaceOf ==
  ASSUME NEW H, NEW L, NEW n, Table(H, L, n), NEW e \in Range(L)
  PROVE  \E j \in 1..n : L[j] = e
<1>1. L \in [1..n -> Entries]
  BY TableLinks
<1> QED BY <1>1 DEF Range

(* A lookup that hits keeps the invariant: the entry goes to the end.      *)
LEMMA HitKeeps ==
  ASSUME NEW L, NEW n, Table(table, L, n), Contents(entries, table.hh, decision, L, n),
         History(entries, used, L, n), NEW k \in Keys, Hit(k)
  PROVE  CacheInv'
<1> DEFINE elem == HASH_FIND_INT(k)
           w == Word[k]
<1>1. /\ elem # NULL
      /\ result' = [k |-> k, v |-> entries[elem].v]
      /\ table' = Reinserted(elem)
      /\ Used(used, w, used')
      /\ entries' = entries
      /\ decision' = decision
  BY DEF Hit, Use, Used
<1>2. /\ \A e \in Range(L) : KeyAt[e] = Word[entries[e].k]
      /\ \/ elem = NULL
         \/ elem \in Range(L) /\ Word[entries[elem].k] = w
  BY FindIs
<1> HIDE DEF elem
<1>3. elem \in Range(L) /\ Word[entries[elem].k] = w /\ KeyAt[elem] = w
  BY <1>1, <1>2
<1>4. PICK j \in 1..n : L[j] = elem
  BY <1>3, PlaceOf
<1>5. n \in Nat /\ L \in [1..n -> Entries] /\ Injective(L, n)
  BY TableLinks
<1>6. w \in Words
  BY WordOfKey
<1> HIDE DEF w
<1> DEFINE T == Turned(L, n, j)
<1>7. /\ Table(table', T, n)
      /\ table'.hh[elem].hashv = HASH_FCN[w]
      /\ \A e \in Entries : e # elem => table'.hh[e].hashv = table.hh[e].hashv
  <2>1. table' = HASH_ADD(HASH_DELETE(table, L[j]), L[j], w)
    BY <1>1, <1>3, <1>4 DEF Reinserted
  <2>2. /\ Table(table', T, n)
        /\ table'.hh[L[j]].hashv = HASH_FCN[w]
        /\ \A e \in Entries : e # L[j] => table'.hh[e].hashv = table.hh[e].hashv
    BY <1>6, <2>1, TableTurned
  <2> HIDE DEF T
  <2> QED BY <1>4, <2>2
<1>8. /\ T[n] = L[j]
      /\ \A i \in 1..(n - 1) : T[i] = IF i < j THEN L[i] ELSE L[i + 1]
      /\ \A e : e \in Range(T) <=> e \in Range(L)
  BY <1>5, TurnedFields
<1> HIDE DEF T
<1>9. Contents(entries', table'.hh, decision', T, n)
  <2>1. /\ entries \in [Entries -> EntryRecord]
        /\ decision \in [Words -> Levels \cup {LRU_NOT_FOUND}]
        /\ \A e : e \in Range(L) <=> e \in 0..(n - 1)
        /\ \A e \in Entries : e \notin Range(L) => entries[e] = Vacant
        /\ \A e \in Range(L) : /\ e \in Entries
                               /\ entries[e].k \in Keys
                               /\ table.hh[e].hashv = HASH_FCN[Word[entries[e].k]]
                               /\ entries[e].v = decision[Word[entries[e].k]]
    BY DEF Contents
  <2>2. \A e \in Range(L) : table'.hh[e].hashv = HASH_FCN[Word[entries[e].k]]
    BY <1>3, <1>7, <2>1
  <2> QED BY <1>1, <1>8, <2>1, <2>2 DEF Contents
<1>10. History(entries', used', T, n)
  <2> DEFINE W == WordsOf(entries, L, n)
             W2 == WordsOf(entries, T, n)
  <2>1. PICK m : Recent(W, n, used, m) /\ (n = m \/ n = CacheSize)
    BY DEF History
  <2>2. /\ \A i \in 1..n : W[i] = Word[entries[L[i]].k]
        /\ \A i \in 1..n : W2[i] = Word[entries[T[i]].k]
    BY DEF WordsOf
  <2> HIDE DEF W, W2
  <2>3. W[j] = w
    BY <1>3, <1>4, <2>2
  <2>4. W2[n] = W[j]
    BY <1>5, <1>8, <2>2
  <2>5. \A i \in 1..(n - 1) : i \in 1..n /\ i + 1 \in 1..n
    BY <1>5
  <2>6. \A i \in 1..(n - 1) : W2[i] = IF i < j THEN W[i] ELSE W[i + 1]
    BY <1>8, <2>2, <2>5
  <2>7. Used(used, W[j], used')
    BY <1>1, <2>3
  <2>8. Recent(W2, n, used', m)
    BY <2>1, <2>4, <2>6, <2>7, RecentHit
  <2> QED BY <1>1, <2>1, <2>8 DEF History, W2
<1>11. Answer(result', decision')
  <2>1. entries[elem].v = decision[Word[entries[elem].k]]
    BY <1>3 DEF Contents
  <2> QED BY <1>1, <1>3, <2>1 DEF Answer, w
<1> QED BY <1>7, <1>9, <1>10, <1>11 DEF CacheInv

(* The number of elements is that of the list.                             *)
LEMMA CountIs ==
  ASSUME NEW H, NEW L, NEW n, Table(H, L, n)
  PROVE  HASH_COUNT(H) = n /\ (n # 0 => H.head = L[1])
<1>1. n \in Nat /\ L \in [1..n -> Entries] /\ H.head = IF n = 0 THEN NULL ELSE L[1]
  BY TableLinks
<1>2. n # 0 => L[1] \in Entries
  BY <1>1
<1> QED BY <1>1, <1>2, NullAssumption DEF HASH_COUNT, Table

(* A miss that stores the word's decision in an entry d keeps the contents *)
(* right.                                                                  *)
LEMMA StoredContents ==
  ASSUME NEW es, NEW hh, NEW dec, NEW L, NEW n, Contents(es, hh, dec, L, n),
         NEW k \in Keys, NEW level \in Levels, NEW d \in Entries,
         \A e \in Range(L) : Word[es[e].k] # Word[k],
         NEW hh2, hh2[d].hashv = HASH_FCN[Word[k]],
         \A e \in Entries : e # d => hh2[e].hashv = hh[e].hashv,
         NEW T, NEW n2, \A e : e \in Range(T) <=> e \in Range(L) \/ e = d,
         \A e : e \in Range(T) <=> e \in 0..(n2 - 1)
  PROVE  Contents([es EXCEPT ![d] = [k |-> k, v |-> level]], hh2,
                  [dec EXCEPT ![Word[k]] = level], T, n2)
<1> DEFINE r == [k |-> k, v |-> level]
           es2 == [es EXCEPT ![d] = r]
           w == Word[k]
           dec2 == [dec EXCEPT ![w] = level]
<1>1. /\ es \in [Entries -> EntryRecord]
      /\ dec \in [Words -> Levels \cup {LRU_NOT_FOUND}]
      /\ \A e \in Entries : e \notin Range(L) => es[e] = Vacant
      /\ \A e \in Range(L) : /\ e \in Entries
                             /\ es[e].k \in Keys
                             /\ hh[e].hashv = HASH_FCN[Word[es[e].k]]
                             /\ es[e].v = dec[Word[es[e].k]]
  BY DEF Contents
<1>2. r \in EntryRecord /\ r.k = k /\ r.v = level
  BY DEF EntryRecord
<1>3. w \in Words
  BY WordOfKey
<1> HIDE DEF r
<1>4. /\ es2 \in [Entries -> EntryRecord]
      /\ es2[d] = r
      /\ \A e \in Entries : e # d => es2[e] = es[e]
  BY <1>1, <1>2
<1>5. /\ dec2 \in [Words -> Levels \cup {LRU_NOT_FOUND}]
      /\ dec2[w] = level
      /\ \A x \in Words : x # w => dec2[x] = dec[x]
  <2> HIDE DEF w
  <2> QED BY <1>1, <1>3
<1> HIDE DEF es2, dec2
<1>6. ASSUME NEW e \in Range(T)
      PROVE  /\ e \in Entries
             /\ es2[e].k \in Keys
             /\ hh2[e].hashv = HASH_FCN[Word[es2[e].k]]
             /\ es2[e].v = dec2[Word[es2[e].k]]
  <2>1. CASE e = d
    BY <1>2, <1>4, <1>5, <2>1
  <2>2. CASE e # d
    <3>1. e \in Range(L)
      BY <2>2
    <3>2. e \in Entries /\ es2[e] = es[e] /\ es[e].k \in Keys
      BY <1>1, <1>4, <2>2, <3>1
    <3>3. Word[es[e].k] \in Words /\ Word[es[e].k] # w
      BY <3>1, <3>2, WordOfKey
    <3>4. dec2[Word[es[e].k]] = dec[Word[es[e].k]]
      BY <1>5, <3>3
    <3> QED BY <1>1, <2>2, <3>1, <3>2, <3>4
  <2> QED BY <2>1, <2>2
<1>7. \A e \in Entries : e \notin Range(T) => es2[e] = Vacant
  BY <1>1, <1>4
<1>8. Contents(es2, hh2, dec2, T, n2)
  BY <1>4, <1>5, <1>6, <1>7 DEF Contents
<1> QED BY <1>8 DEF es2, dec2, r

(* A lookup that misses while an entry is vacant                           *)
LEMMA MissKeepsVacant ==
  ASSUME NEW L, NEW n, Table(table, L, n), Contents(entries, table.hh, decision, L, n),
         History(entries, used, L, n), NEW k \in Keys, NEW level \in Levels, Miss(k, level),
         ~ Full
  PROVE  CacheInv'
<1> DEFINE w == Word[k]
           T == Appended(L, n, n)
<1>0. n \in Nat /\ L \in [1..n -> Entries] /\ Injective(L, n)
  BY TableLinks
<1>1. n \in Entries /\ n < CacheSize /\ Entry = n /\ Evicted = table
  <2>1. HASH_COUNT(table) = n
    BY CountIs
  <2>2. Entry = n /\ Evicted = table /\ ~ (n >= CacheSize)
    BY <2>1 DEF Full, Entry, Evicted
  <2> QED BY <1>0, <2>2, CacheSizeAssumption DEF Entries
<1>2. /\ HASH_FIND_INT(k) = NULL
      /\ entries' = [entries EXCEPT ![n] = [k |-> k, v |-> level]]
      /\ table' = HASH_ADD(table, n, w)
      /\ result' = [k |-> k, v |-> level]
      /\ Used(used, w, used')
      /\ decision' = [decision EXCEPT ![w] = level]
  BY <1>1 DEF Miss, Use, Used, Stored
<1>3. \A e \in Range(L) : Word[entries[e].k] # w
  <2>1. NULL \notin Range(L)
    BY NullAssumption DEF Contents
  <2> QED BY <1>2, <2>1, FindIs
<1>4. /\ entries \in [Entries -> EntryRecord]
      /\ decision \in [Words -> Levels \cup {LRU_NOT_FOUND}]
      /\ \A e : e \in Range(L) <=> e \in 0..(n - 1)
  BY DEF Contents
<1>5. n \notin Range(L)
  BY <1>0, <1>4
<1>6. w \in Words
  BY WordOfKey
<1>7. /\ Table(table', T, n + 1)
      /\ table'.hh[n].hashv = HASH_FCN[w]
      /\ \A e \in Entries : e # n => table'.hh[e].hashv = table.hh[e].hashv
  <2> HIDE DEF w
  <2> QED BY <1>1, <1>2, <1>5, <1>6, TableAdded
<1>8. /\ T[n + 1] = n
      /\ \A i \in 1..n : T[i] = L[i]
      /\ \A e : e \in Range(T) <=> e \in Range(L) \cup {n}
  BY <1>0, <1>1, AppendedRange
<1> HIDE DEF T
<1>9. Contents(entries', table'.hh, decision', T, n + 1)
  <2>1. \A e : e \in Range(T) <=> e \in Range(L) \/ e = n
    BY <1>8
  <2>2. \A e : e \in Range(T) <=> e \in 0..((n + 1) - 1)
    <3>1. \A e : e \in 0..((n + 1) - 1) <=> e \in 0..(n - 1) \/ e = n
      BY <1>0
    <3> QED BY <1>4, <2>1, <3>1
  <2> DEFINE hh2 == table'.hh
             d == n
             n2 == n + 1
  <2>3. /\ d \in Entries
        /\ hh2[d].hashv = HASH_FCN[Word[k]]
        /\ \A e \in Entries : e # d => hh2[e].hashv = table.hh[e].hashv
        /\ \A e : e \in Range(T) <=> e \in Range(L) \/ e = d
        /\ \A e : e \in Range(T) <=> e \in 0..(n2 - 1)
        /\ \A e \in Range(L) : Word[entries[e].k] # Word[k]
    BY <1>1, <1>3, <1>7, <2>1, <2>2
  <2>4. /\ entries' = [entries EXCEPT ![d] = [k |-> k, v |-> level]]
        /\ decision' = [decision EXCEPT ![Word[k]] = level]
    BY <1>2
  <2> HIDE DEF hh2, d, n2, w
  <2>5. Contents([entries EXCEPT ![d] = [k |-> k, v |-> level]], hh2,
                 [decision EXCEPT ![Word[k]] = level], T, n2)
    BY <2>3, StoredContents
  <2> QED BY <2>4, <2>5 DEF hh2, n2
<1>10. History(entries', used', T, n + 1)
  <2> DEFINE W == WordsOf(entries, L, n)
             W2 == WordsOf(entries', T, n + 1)
  <2>1. PICK m : Recent(W, n, used, m) /\ (n = m \/ n = CacheSize)
    BY DEF History
  <2>2. m = n
    BY <1>0, <1>1, <2>1, CacheSizeAssumption
  <2>3. /\ \A i \in 1..n : W[i] = Word[entries[L[i]].k]
        /\ \A i \in 1..(n + 1) : W2[i] = Word[entries'[T[i]].k]
    BY DEF WordsOf
  <2>4. /\ entries'[n].k = k
        /\ \A e \in Entries : e # n => entries'[e] = entries[e]
    BY <1>1, <1>2, <1>4
  <2> HIDE DEF W, W2
  <2>5. n + 1 \in 1..(n + 1) /\ \A i \in 1..n : i \in 1..(n + 1)
    BY <1>0
  <2>6. W2[n + 1] = w
    BY <1>8, <2>3, <2>4, <2>5
  <2>7. \A i \in 1..n : L[i] \in Entries /\ L[i] \in Range(L) /\ L[i] # n
    BY <1>0, <1>5 DEF Range
  <2>8. \A i \in 1..n : W2[i] = W[i]
    BY <1>8, <2>3, <2>4, <2>5, <2>7
  <2>9. \A i \in 1..n : W[i] # w
    BY <1>3, <2>3, <2>7
  <2> HIDE DEF w
  <2>10. Recent(W, n, used, n)
    BY <2>1, <2>2
  <2>11. Recent(W2, n + 1, used', n + 1)
    BY <1>2, <1>6, <2>6, <2>8, <2>9, <2>10, RecentNew
  <2> QED BY <2>11 DEF History, W2
<1>11. Answer(result', decision')
  <2>1. decision'[w] = level
    <3> HIDE DEF w
    <3> QED BY <1>2, <1>4, <1>6
  <2> QED BY <1>2, <2>1 DEF Answer
<1> QED BY <1>7, <1>9, <1>10, <1>11 DEF CacheInv

(* A lookup that misses while the cache is full: the entry used least      *)
(* recently is evicted and used again.                                     *)
LEMMA MissKeepsFull ==
  ASSUME NEW L, NEW n, Table(table, L, n), Contents(entries, table.hh, decision, L, n),
         History(entries, used, L, n), NEW k \in Keys, NEW level \in Levels, Miss(k, level),
         Full
  PROVE  CacheInv'
<1> DEFINE w == Word[k]
           d == L[1]
           T == Turned(L, n, 1)
<1>0. n \in Nat /\ L \in [1..n -> Entries] /\ Injective(L, n)
  BY TableLinks
<1>1. n = CacheSize /\ n \in Nat \ {0} /\ Entry = d /\ Evicted = HASH_DELETE(table, d)
  <2>1. HASH_COUNT(table) = n /\ (n # 0 => table.head = d)
    BY CountIs
  <2>2. n <= Cardinality(Entries) /\ Cardinality(Entries) = CacheSize
    BY <1>0, ListFits
  <2>3. n >= CacheSize
    BY <2>1 DEF Full
  <2>4. n = CacheSize /\ n # 0
    BY <1>0, <2>2, <2>3, CacheSizeAssumption
  <2> QED BY <1>0, <2>1, <2>4 DEF Entry, Evicted
<1>2. /\ HASH_FIND_INT(k) = NULL
      /\ entries' = [entries EXCEPT ![d] = [k |-> k, v |-> level]]
      /\ table' = HASH_ADD(HASH_DELETE(table, d), d, w)
      /\ result' = [k |-> k, v |-> level]
      /\ Used(used, w, used')
      /\ decision' = [decision EXCEPT ![w] = level]
  BY <1>1 DEF Miss, Use, Used, Stored
<1>3. \A e \in Range(L) : Word[entries[e].k] # w
  <2>1. NULL \notin Range(L)
    BY NullAssumption DEF Contents
  <2> QED BY <1>2, <2>1, FindIs
<1>4. /\ entries \in [Entries -> EntryRecord]
      /\ decision \in [Words -> Levels \cup {LRU_NOT_FOUND}]
      /\ \A e : e \in Range(L) <=> e \in 0..(n - 1)
  BY DEF Contents
<1>5. 1 \in 1..n /\ d \in Range(L) /\ d \in Entries
  BY <1>0, <1>1 DEF Range
<1>6. w \in Words
  BY WordOfKey
<1>7. /\ Table(table', T, n)
      /\ table'.hh[d].hashv = HASH_FCN[w]
      /\ \A e \in Entries : e # d => table'.hh[e].hashv = table.hh[e].hashv
  <2> HIDE DEF w
  <2> QED BY <1>2, <1>5, <1>6, TableTurned
<1>8. /\ T[n] = d
      /\ \A i \in 1..(n - 1) : T[i] = IF i < 1 THEN L[i] ELSE L[i + 1]
      /\ \A e : e \in Range(T) <=> e \in Range(L)
  BY <1>0, <1>5, TurnedFields
<1> HIDE DEF T
<1>9. Contents(entries', table'.hh, decision', T, n)
  <2> DEFINE hh2 == table'.hh
  <2>3. /\ d \in Entries
        /\ hh2[d].hashv = HASH_FCN[Word[k]]
        /\ \A e \in Entries : e # d => hh2[e].hashv = table.hh[e].hashv
        /\ \A e : e \in Range(T) <=> e \in Range(L) \/ e = d
        /\ \A e : e \in Range(T) <=> e \in 0..(n - 1)
        /\ \A e \in Range(L) : Word[entries[e].k] # Word[k]
    BY <1>3, <1>4, <1>5, <1>7, <1>8
  <2>4. /\ entries' = [entries EXCEPT ![d] = [k |-> k, v |-> level]]
        /\ decision' = [decision EXCEPT ![Word[k]] = level]
    BY <1>2
  <2> HIDE DEF hh2, d, w
  <2>5. Contents([entries EXCEPT ![d] = [k |-> k, v |-> level]], hh2,
                 [decision EXCEPT ![Word[k]] = level], T, n)
    BY <2>3, StoredContents
  <2> QED BY <2>4, <2>5 DEF hh2
<1>10. History(entries', used', T, n)
  <2> DEFINE W == WordsOf(entries, L, n)
             W2 == WordsOf(entries', T, n)
  <2>1. PICK m : Recent(W, n, used, m)
    BY DEF History
  <2>3. /\ \A i \in 1..n : W[i] = Word[entries[L[i]].k]
        /\ \A i \in 1..n : W2[i] = Word[entries'[T[i]].k]
    BY DEF WordsOf
  <2>4. /\ entries'[d].k = k
        /\ \A e \in Entries : e # d => entries'[e] = entries[e]
    <3> HIDE DEF d
    <3> QED BY <1>2, <1>4, <1>5
  <2> HIDE DEF W, W2
  <2>5. n \in 1..n
    BY <1>1
  <2>6. W2[n] = w
    BY <1>8, <2>3, <2>4, <2>5
  <2>7. \A i \in 1..n : L[i] \in Entries /\ L[i] \in Range(L)
    BY <1>0 DEF Range
  <2>8. ASSUME NEW i \in 1..(n - 1)
        PROVE  W2[i] = W[i + 1]
    <3>1. i \in 1..n /\ i + 1 \in 1..n /\ ~ (i < 1) /\ i + 1 # 1
      BY <1>1
    <3>2. T[i] = L[i + 1]
      BY <1>8, <3>1
    <3>3. L[i + 1] # d
      BY <1>0, <1>5, <3>1 DEF Injective
    <3> QED BY <2>3, <2>4, <2>7, <3>1, <3>2, <3>3
  <2>9. \A i \in 1..n : W[i] # w
    BY <1>3, <2>3, <2>7
  <2> HIDE DEF w
  <2>11. PICK m2 : Recent(W2, n, used', m2)
    BY <1>1, <1>2, <1>6, <2>1, <2>6, <2>8, <2>9, RecentEvict
  <2> QED BY <1>1, <2>11 DEF History, W2
<1>11. Answer(result', decision')
  <2>1. decision'[w] = level
    <3> HIDE DEF w
    <3> QED BY <1>2, <1>4, <1>6
  <2> QED BY <1>2, <2>1 DEF Answer
<1> QED BY <1>7, <1>9, <1>10, <1>11 DEF CacheInv

(* ~LRU frees the table, and the next LRU is a new cache.                  *)
LEMMA RenewKeeps ==
  ASSUME NEW L, NEW n, Table(table, L, n), Renew
  PROVE  CacheInv'
<1>1. Emptied.tbl = NULL
  BY DeletedAll DEF Emptied
<1>2. /\ table' = [NoTable EXCEPT !.tbl = Emptied.tbl]
      /\ entries' = [e \in Entries |-> Vacant]
      /\ result' = Vacant
      /\ used' = <<>>
      /\ decision' = [w \in Words |-> LRU_NOT_FOUND]
  BY DEF Renew
<1>3. table' = NoTable
  <2> DEFINE hh == [e \in Entries |-> UT_hash_handle]
  <2>1. NoTable = [head |-> NULL, tbl |-> NULL, hh |-> hh]
    BY DEF NoTable
  <2> HIDE DEF hh
  <2> QED BY <1>1, <1>2, <2>1
<1> QED BY <1>2, <1>3, EmptyCache DEF CacheInv

-----------------------------------------------------------------------------
(* Theorems.                                                               *)

(* The inductive invariant of the cache: the table is a hash table of the  *)
(* entries in use, in the order of their last use, each under its key and  *)
(* with the filter's last decision.                                        *)
THEOREM CacheInvariant == Spec => []CacheInv
<1>1. Init => CacheInv
  BY EmptyCache DEF Init, CacheInv
<1>2. CacheInv /\ [Next]_vars => CacheInv'
  <2> SUFFICES ASSUME CacheInv, [Next]_vars
               PROVE  CacheInv'
    OBVIOUS
  <2>1. PICK L, n : /\ Table(table, L, n)
                    /\ Contents(entries, table.hh, decision, L, n)
                    /\ History(entries, used, L, n)
                    /\ Answer(result, decision)
    BY DEF CacheInv
  <2>2. CASE Renew
    BY <2>1, <2>2, RenewKeeps
  <2>3. ASSUME NEW k \in Keys, Hit(k)
        PROVE  CacheInv'
    BY <2>1, <2>3, HitKeeps
  <2>4. ASSUME NEW k \in Keys, NEW level \in Levels, Miss(k, level)
        PROVE  CacheInv'
    <3>1. CASE Full
      BY <2>1, <2>4, <3>1, MissKeepsFull
    <3>2. CASE ~ Full
      BY <2>1, <2>4, <3>2, MissKeepsVacant
    <3> QED BY <3>1, <3>2
  <2>5. CASE UNCHANGED vars
    BY <2>1, <2>5 DEF vars, CacheInv
  <2> QED BY <2>2, <2>3, <2>4, <2>5 DEF Next
<1> QED BY <1>1, <1>2, PTL DEF Spec

(* uthash's own verification holds after every lookup, through hits,       *)
(* evictions, expansions of the buckets and the destructor, and no table   *)
(* outlives its last element.                                              *)
THEOREM TableIsIntact == Spec => []TableIntegrity
<1>1. CacheInv => TableIntegrity
  <2> SUFFICES ASSUME NEW L, NEW n, Table(table, L, n)
               PROVE  TableIntegrity
    BY DEF CacheInv
  <2>1. HASH_FSCK(table)
    BY FsckHolds
  <2>2. n \in Nat /\ L \in [1..n -> Entries] /\ table.head = IF n = 0 THEN NULL ELSE L[1]
    BY TableLinks
  <2>3. table.head = NULL => n = 0
    BY <2>2, NullAssumption
  <2> QED BY <2>1, <2>3 DEF TableIntegrity, Table
<1> QED BY <1>1, CacheInvariant, PTL

(* The comment in LRU::insert: the entries in use are the first of the     *)
(* array, and the table links each of them once.                           *)
THEOREM EntriesStayCompact == Spec => []EntriesCompact
<1>1. CacheInv => EntriesCompact
  <2> SUFFICES ASSUME NEW L, NEW n, Table(table, L, n),
                      Contents(entries, table.hh, decision, L, n)
               PROVE  EntriesCompact
    BY DEF CacheInv
  <2>1. AppOrder(table) = L /\ Len(AppOrder(table)) = n
    BY AppOrderIs
  <2>2. n \in Nat /\ L \in [1..n -> Entries] /\ Injective(L, n)
    BY TableLinks
  <2>3. Cardinality(Range(L)) = n
    BY <2>2, RangeCount
  <2>4. ToSet(L) = Range(L)
    BY DEF ToSet, Range
  <2>5. ToSet(L) = 0..(n - 1)
    BY <2>4 DEF Contents
  <2>6. \A e \in Entries : entries[e] = Vacant <=> e \notin ToSet(L)
    <3>1. \A e \in Range(L) : entries[e].k \in Keys
      BY DEF Contents
    <3>2. \A e \in Range(L) : entries[e] # Vacant
      BY <3>1, KeysAssumption DEF Vacant
    <3> QED BY <2>4, <3>2 DEF Contents
  <2> QED BY <2>1, <2>3, <2>4, <2>5, <2>6 DEF EntriesCompact
<1> QED BY <1>1, CacheInvariant, PTL

(* find_trace_level_or_call_filter returns what the filter said last of    *)
(* the word of the code object's address.                                  *)
THEOREM ReturnsDecision == Spec => []ReturnsItsDecision
<1>1. CacheInv => ReturnsItsDecision
  BY DEF CacheInv, Answer, ReturnsItsDecision
<1> QED BY <1>1, CacheInvariant, PTL

(* The cache is an LRU: what it has is the words looked up last, each      *)
(* once, in the order of their last use, as many as there are entries.     *)
THEOREM KeepsRecent == Spec => []KeepsMostRecent
<1>1. CacheInv => KeepsMostRecent
  <2> SUFFICES ASSUME NEW L, NEW n, Table(table, L, n),
                      Contents(entries, table.hh, decision, L, n),
                      History(entries, used, L, n)
               PROVE  KeepsMostRecent
    BY DEF CacheInv
  <2> DEFINE W == WordsOf(entries, L, n)
             size == IF Len(used) < CacheSize THEN Len(used) ELSE CacheSize
  <2>1. PICK m : Recent(W, n, used, m) /\ (n = m \/ n = CacheSize)
    BY DEF History
  <2>2. AppOrder(table) = L
    BY AppOrderIs
  <2>3. n \in Nat /\ L \in [1..n -> Entries] /\ Injective(L, n)
    BY TableLinks
  <2>4. n <= CacheSize
    <3>1. n <= Cardinality(Entries) /\ Cardinality(Entries) = CacheSize
      BY <2>3, ListFits
    <3> QED BY <3>1
  <2>5. /\ m \in Nat
        /\ used \in [1..m -> Words]
        /\ n \in 0..m
        /\ \A i \in 1..n : W[i] = used[(m - n) + i]
    BY <2>1 DEF Recent
  <2>6. Len(used) = m /\ used \in Seq(Words)
    BY <2>5
  <2>7. size = n
    BY <2>1, <2>3, <2>4, <2>5, <2>6, CacheSizeAssumption
  <2>8. CachedWords = W
    <3>1. \A e \in Range(L) : KeyAt[e] = Word[entries[e].k]
      <4>1. \A e \in Range(L) : e \in Entries /\ entries[e].k \in Keys
        BY DEF Contents
      <4>2. \A e \in Range(L) : entries[e] # Vacant
        BY <4>1, KeysAssumption DEF Vacant
      <4> QED BY <4>1, <4>2 DEF KeyAt
    <3>2. \A i \in 1..n : L[i] \in Range(L)
      BY <2>3 DEF Range
    <3>3. CachedWords = [i \in 1..n |-> KeyAt[L[i]]]
      BY <2>2, <2>3 DEF CachedWords
    <3> QED BY <3>1, <3>2, <3>3 DEF WordsOf
  <2>9. SubSeq(used, (m - n) + 1, m) = W
    <3> DEFINE Z == SubSeq(used, (m - n) + 1, m)
    <3>1. Z = [i \in 1..n |-> Z[i]]
      BY <2>3, <2>5, <2>6
    <3>2. \A i \in 1..n : Z[i] = used[(m - n) + i]
      BY <2>3, <2>5, <2>6
    <3>3. W = [i \in 1..n |-> W[i]]
      BY DEF WordsOf
    <3> HIDE DEF W, Z
    <3> QED BY <2>5, <3>1, <3>2, <3>3 DEF Z
  <2> HIDE DEF W
  <2> QED BY <2>6, <2>7, <2>8, <2>9 DEF KeepsMostRecent
<1> QED BY <1>1, CacheInvariant, PTL
=============================================================================
