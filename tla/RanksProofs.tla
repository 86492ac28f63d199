----------------------------- MODULE RanksProofs -----------------------------
(***************************************************************************)
(* Proofs about Ranks: a finite set of numbers has a number of every rank  *)
(* up to its cardinality, exactly one.  They rest on the least number of a *)
(* non-empty set, so that no induction is needed.                          *)
(***************************************************************************)
EXTENDS Ranks, Sequences, FiniteSetTheorems, TLAPS

-----------------------------------------------------------------------------
(* The k-th number of a finite set.                                        *)
LEMMA LeastByRelation ==
  ASSUME NEW S \in SUBSET Nat, S # {}, NEW R, IsWellFoundedOn(R, Nat),
         \A m, n \in Nat : n < m => <<n, m>> \in R
  PROVE  \E m \in S : \A n \in S : m <= n
<1>1. \E m \in S : \A n \in S : ~ (<<n, m>> \in R)
  BY WFMin
<1>2. PICK m \in S : \A n \in S : ~ (<<n, m>> \in R)
  BY <1>1
<1>3. ASSUME NEW n \in S
      PROVE  m <= n
  <2>1. m \in Nat /\ n \in Nat
    OBVIOUS
  <2>2. ~ (n < m)
    BY <1>2, <2>1
  <2> QED BY <2>1, <2>2
<1> QED BY <1>3

LEMMA LeastNumber ==
  ASSUME NEW S \in SUBSET Nat, S # {}
  PROVE  \E m \in S : \A n \in S : m <= n
<1>1. \A m, n \in Nat : n < m => <<n, m>> \in OpToRel(<, Nat)
  BY DEF OpToRel
<1> QED BY <1>1, NatLessThanWellFounded, LeastByRelation, Zenon

(* The numbers of a set up to one of them; the k-th is the one with k of   *)
(* them.                                                                   *)
UpTo(S, x) == {y \in S : y <= x}

LEMMA UpToFinite ==
  ASSUME NEW S \in SUBSET Nat, IsFiniteSet(S), NEW x \in Nat
  PROVE  /\ IsFiniteSet(UpTo(S, x))
         /\ Cardinality(UpTo(S, x)) \in 0 .. Cardinality(S)
<1>1. UpTo(S, x) \in SUBSET S
  BY DEF UpTo
<1>2. IsFiniteSet(UpTo(S, x)) /\ Cardinality(UpTo(S, x)) <= Cardinality(S)
  BY <1>1, FS_Subset
<1>3. Cardinality(UpTo(S, x)) \in Nat /\ Cardinality(S) \in Nat
  BY <1>2, FS_CardinalityType
<1> QED BY <1>2, <1>3

(* A greater number has more of them.                                      *)
LEMMA UpToGrows ==
  ASSUME NEW S \in SUBSET Nat, IsFiniteSet(S), NEW x \in S, NEW z \in S, x < z
  PROVE  Cardinality(UpTo(S, x)) < Cardinality(UpTo(S, z))
<1>1. IsFiniteSet(UpTo(S, z)) /\ UpTo(S, x) \in SUBSET UpTo(S, z)
  <2>1. IsFiniteSet(UpTo(S, z))
    BY UpToFinite
  <2>2. \A y \in S : y <= x => y <= z
    <3>1. \A y \in S : y \in Nat
      OBVIOUS
    <3> QED BY <3>1
  <2>3. UpTo(S, x) \in SUBSET UpTo(S, z)
    BY <2>2 DEF UpTo
  <2> QED BY <2>1, <2>3
<1>2. Cardinality(UpTo(S, x)) <= Cardinality(UpTo(S, z))
  BY <1>1, FS_Subset
<1>3. z \in UpTo(S, z) /\ z \notin UpTo(S, x)
  BY DEF UpTo
<1>4. Cardinality(UpTo(S, z)) # Cardinality(UpTo(S, x))
  BY <1>1, <1>3, FS_Subset
<1>5. Cardinality(UpTo(S, z)) \in Nat /\ Cardinality(UpTo(S, x)) \in Nat
  BY UpToFinite
<1> QED BY <1>2, <1>4, <1>5

(* A set has a k-th number for every k up to its size.                     *)
LEMMA NthExists ==
  ASSUME NEW S \in SUBSET Nat, IsFiniteSet(S), NEW n \in 1 .. Cardinality(S)
  PROVE  \E x \in S : Cardinality(UpTo(S, x)) = n
<1> DEFINE Missing == {k \in 1 .. Cardinality(S) : ~ \E x \in S : Cardinality(UpTo(S, x)) = k}
<1> SUFFICES ASSUME Missing # {}
             PROVE  FALSE
  OBVIOUS
<1>1. Cardinality(S) \in Nat /\ \A y \in S : y \in Nat
  BY FS_CardinalityType
<1>2. PICK k \in Missing : \A j \in Missing : k <= j
  <2>1. Missing \in SUBSET Nat
    BY <1>1
  <2> HIDE DEF Missing
  <2> QED BY <2>1, LeastNumber
<1>3. k \in 1 .. Cardinality(S) /\ ~ \E x \in S : Cardinality(UpTo(S, x)) = k
  BY <1>2
<1>4. CASE k = 1
  <2>1. S # {}
    BY <1>1, <1>3, FS_EmptySet
  <2>2. PICK x \in S : \A y \in S : x <= y
    BY <2>1, LeastNumber
  <2>3. UpTo(S, x) = {x}
    <3>1. \A y \in S : y <= x => y = x
      BY <1>1, <2>2
    <3>2. x <= x
      BY <1>1
    <3> QED BY <3>1, <3>2 DEF UpTo
  <2>4. Cardinality(UpTo(S, x)) = 1
    BY <2>3, FS_Singleton
  <2> QED BY <1>3, <1>4, <2>4
<1>5. CASE k > 1
  <2>1. k - 1 \in 1 .. Cardinality(S) /\ k - 1 \notin Missing
    BY <1>1, <1>2, <1>3, <1>5
  <2>2. PICK x \in S : Cardinality(UpTo(S, x)) = k - 1
    BY <2>1
  <2>3. UpTo(S, x) # S
    BY <1>1, <1>3, <2>2
  <2>4. {y \in S : y > x} # {} /\ {y \in S : y > x} \in SUBSET Nat
    <3>1. PICK y \in S : y \notin UpTo(S, x)
      BY <2>3, Zenon DEF UpTo
    <3>2. y > x
      BY <1>1, <3>1 DEF UpTo
    <3> QED BY <1>1, <3>2
  <2>5. PICK z \in {y \in S : y > x} : \A y \in {y \in S : y > x} : z <= y
    BY <2>4, LeastNumber
  <2>6. UpTo(S, z) = UpTo(S, x) \cup {z} /\ z \notin UpTo(S, x)
    <3>1. z \in S /\ z > x /\ \A y \in S : y > x => z <= y
      BY <2>5
    <3>2. \A y \in S : y <= z <=> y <= x \/ y = z
      BY <1>1, <3>1
    <3>3. ~ (z <= x)
      BY <1>1, <3>1
    <3> QED BY <3>1, <3>2, <3>3 DEF UpTo
  <2>7. Cardinality(UpTo(S, z)) = (k - 1) + 1
    <3>1. IsFiniteSet(UpTo(S, x))
      BY <1>1, UpToFinite
    <3> QED BY <2>2, <2>6, <3>1, FS_AddElement
  <2> QED BY <1>1, <1>3, <2>5, <2>7
<1> QED BY <1>1, <1>3, <1>4, <1>5

(* Nth finds it, and finds different ones for different k.                 *)
LEMMA NthProperty ==
  ASSUME NEW S \in SUBSET Nat, IsFiniteSet(S), NEW k \in 1 .. Cardinality(S)
  PROVE  Nth(S, k) \in S /\ Cardinality(UpTo(S, Nth(S, k))) = k
BY NthExists DEF Nth, UpTo

LEMMA NthOfEach ==
  ASSUME NEW S \in SUBSET Nat, IsFiniteSet(S), NEW x \in S
  PROVE  \E k \in 1 .. Cardinality(S) : Nth(S, k) = x
<1> DEFINE k == Cardinality(UpTo(S, x))
<1>1. k \in 0 .. Cardinality(S) /\ IsFiniteSet(UpTo(S, x)) /\ Cardinality(S) \in Nat
  BY UpToFinite, FS_CardinalityType
<1>2. x \in UpTo(S, x)
  BY DEF UpTo
<1>3. k # 0
  BY <1>1, <1>2, FS_EmptySet
<1>4. k \in 1 .. Cardinality(S)
  BY <1>1, <1>3
<1>5. Nth(S, k) \in S /\ Cardinality(UpTo(S, Nth(S, k))) = k
  BY <1>4, NthProperty
<1>6. ~ (x < Nth(S, k)) /\ ~ (Nth(S, k) < x)
  <2> HIDE DEF k
  <2>1. x < Nth(S, k) => Cardinality(UpTo(S, x)) < Cardinality(UpTo(S, Nth(S, k)))
    BY <1>5, UpToGrows
  <2>2. Nth(S, k) < x => Cardinality(UpTo(S, Nth(S, k))) < Cardinality(UpTo(S, x))
    BY <1>5, UpToGrows
  <2> QED BY <1>1, <1>5, <2>1, <2>2 DEF k
<1>7. x \in Nat /\ Nth(S, k) \in Nat
  BY <1>5
<1> QED BY <1>4, <1>6, <1>7

-----------------------------------------------------------------------------
(* The entries of a sequence at a set of places are those at its places,   *)
(* each of them.                                                           *)
LEMMA EntriesProperty ==
  ASSUME NEW T, NEW seq \in Seq(T), NEW S \in SUBSET DOMAIN seq
  PROVE  /\ S \in SUBSET Nat /\ IsFiniteSet(S) /\ Cardinality(S) \in Nat
         /\ Entries(seq, S) \in Seq(T) /\ Len(Entries(seq, S)) = Cardinality(S)
         /\ DOMAIN Entries(seq, S) = 1 .. Cardinality(S)
         /\ \A x \in S : \E k \in 1 .. Cardinality(S) : Entries(seq, S)[k] = seq[x]
<1>1. DOMAIN seq = 1 .. Len(seq) /\ Len(seq) \in Nat
  OBVIOUS
<1>2. S \in SUBSET Nat
  BY <1>1
<1>3. IsFiniteSet(S)
  <2>1. IsFiniteSet(1 .. Len(seq))
    BY <1>1, FS_Interval
  <2>2. S \in SUBSET (1 .. Len(seq))
    BY <1>1
  <2> QED BY <2>1, <2>2, FS_Subset
<1>4. Cardinality(S) \in Nat
  BY <1>3, FS_CardinalityType
<1>5. \A k \in 1 .. Cardinality(S) : Nth(S, k) \in S
  BY <1>2, <1>3, NthProperty
<1>6. \A k \in 1 .. Cardinality(S) : seq[Nth(S, k)] \in T
  BY <1>5
<1>7. Entries(seq, S) \in Seq(T) /\ Len(Entries(seq, S)) = Cardinality(S)
  BY <1>4, <1>6 DEF Entries
<1>8. DOMAIN Entries(seq, S) = 1 .. Cardinality(S)
  BY DEF Entries
<1>9. ASSUME NEW x \in S
      PROVE  \E k \in 1 .. Cardinality(S) : Entries(seq, S)[k] = seq[x]
  <2>1. PICK k \in 1 .. Cardinality(S) : Nth(S, k) = x
    BY <1>2, <1>3, NthOfEach
  <2> QED BY <2>1 DEF Entries
<1> QED BY <1>2, <1>3, <1>4, <1>7, <1>8, <1>9

(* Different ranks, different numbers.                                     *)
LEMMA NthDistinct ==
  ASSUME NEW S \in SUBSET Nat, IsFiniteSet(S), NEW j \in 1 .. Cardinality(S), NEW k \in 1 .. Cardinality(S),
         Nth(S, j) = Nth(S, k)
  PROVE  j = k
BY NthProperty

(* Entries of a sequence without duplicates have none, and no entry is     *)
(* from elsewhere.                                                         *)
LEMMA EntriesDistinct ==
  ASSUME NEW T, NEW seq \in Seq(T), NEW S \in SUBSET DOMAIN seq,
         \A i, j \in DOMAIN seq : seq[i] = seq[j] => i = j
  PROVE  /\ \A k \in 1 .. Cardinality(S) : \E i \in S : Entries(seq, S)[k] = seq[i]
         /\ \A j, k \in 1 .. Cardinality(S) : Entries(seq, S)[j] = Entries(seq, S)[k] => j = k
<1>1. S \in SUBSET Nat /\ IsFiniteSet(S)
  BY EntriesProperty
<1>2. ASSUME NEW k \in 1 .. Cardinality(S)
      PROVE  Nth(S, k) \in S /\ Entries(seq, S)[k] = seq[Nth(S, k)]
  BY <1>1, NthProperty DEF Entries
<1>3. ASSUME NEW j \in 1 .. Cardinality(S), NEW k \in 1 .. Cardinality(S),
             Entries(seq, S)[j] = Entries(seq, S)[k]
      PROVE  j = k
  <2>1. Nth(S, j) = Nth(S, k)
    BY <1>2, <1>3
  <2> QED BY <1>1, <2>1, NthDistinct
<1> QED BY <1>2, <1>3
=============================================================================
