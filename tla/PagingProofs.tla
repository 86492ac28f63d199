---------------------------- MODULE PagingProofs ----------------------------
(***************************************************************************)
(* Proofs about Paging, for every number and size of messages, every set   *)
(* of clients and requests, and every environment that starts the server.  *)
(*                                                                         *)
(* Everything rests on ranks: the ranks of the stored messages are the     *)
(* numbers from 0 on without a gap, a page is an interval of ranks, and    *)
(* what happens behind the place a walk goes on from is all that can lower *)
(* the rank of a message before it.                                        *)
(***************************************************************************)
EXTENDS Paging, RanksProofs, SequenceTheorems

-----------------------------------------------------------------------------
(* The box before and after a step.                                        *)
Boxes == [Msgs -> Int \cup {None}]

StoredIn(b) == {m \in Msgs : b[m] # None}
BeforeIn(b, x, y) == b[x] < b[y] \/ (b[x] = b[y] /\ x < y)
RankIn(b, m) == Cardinality({x \in StoredIn(b) : BeforeIn(b, x, m)})

LEMMA RanksOfBox ==
  /\ Stored = StoredIn(box)
  /\ \A m : Rank(m) = RankIn(box, m)
BY DEF Stored, StoredIn, Rank, RankIn, Before, BeforeIn

LEMMA StoredFinite ==
  ASSUME NEW b \in Boxes
  PROVE  /\ IsFiniteSet(StoredIn(b)) /\ Cardinality(StoredIn(b)) \in Nat /\ Cardinality(StoredIn(b)) <= N
         /\ \A m \in StoredIn(b) : m \in Nat /\ b[m] \in Int
<1>1. IsFiniteSet(Msgs) /\ Cardinality(Msgs) = N /\ N \in Nat
  BY PagingAssumption, FS_Interval DEF Msgs
<1>2. StoredIn(b) \in SUBSET Msgs
  BY DEF StoredIn
<1>3. IsFiniteSet(StoredIn(b)) /\ Cardinality(StoredIn(b)) <= N
  BY <1>1, <1>2, FS_Subset
<1>4. Cardinality(StoredIn(b)) \in Nat
  BY <1>3, FS_CardinalityType
<1>5. \A m \in StoredIn(b) : m \in Nat /\ b[m] \in Int
  BY PagingAssumption DEF StoredIn, Boxes, Msgs
<1> QED BY <1>1, <1>3, <1>4, <1>5

(* The messages before one: a finite set that does not have it.            *)
LEMMA RankTyped ==
  ASSUME NEW b \in Boxes, NEW m \in StoredIn(b)
  PROVE  /\ IsFiniteSet({x \in StoredIn(b) : BeforeIn(b, x, m)})
         /\ RankIn(b, m) \in Nat /\ RankIn(b, m) < Cardinality(StoredIn(b))
<1> DEFINE S == StoredIn(b)
           A == {x \in S : BeforeIn(b, x, m)}
<1>1. IsFiniteSet(S) /\ Cardinality(S) \in Nat /\ m \in Nat /\ b[m] \in Int
  BY StoredFinite
<1>2. A \in SUBSET S /\ m \notin A
  BY <1>1 DEF BeforeIn
<1>3. IsFiniteSet(A) /\ Cardinality(A) <= Cardinality(S)
  BY <1>1, <1>2, FS_Subset
<1>4. Cardinality(A) # Cardinality(S)
  BY <1>1, <1>2, FS_Subset
<1>5. Cardinality(A) \in Nat
  BY <1>3, FS_CardinalityType
<1> QED BY <1>1, <1>3, <1>4, <1>5 DEF RankIn

(* The order is total, and ranks follow it.                                *)
LEMMA RankFollowsOrder ==
  ASSUME NEW b \in Boxes, NEW x \in StoredIn(b), NEW y \in StoredIn(b)
  PROVE  /\ x # y => BeforeIn(b, x, y) \/ BeforeIn(b, y, x)
         /\ BeforeIn(b, x, y) => RankIn(b, x) < RankIn(b, y)
<1> DEFINE S == StoredIn(b)
           A == {z \in S : BeforeIn(b, z, x)}
           B == {z \in S : BeforeIn(b, z, y)}
<1>1. \A m \in S : m \in Nat /\ b[m] \in Int
  BY StoredFinite
<1>2. x # y => BeforeIn(b, x, y) \/ BeforeIn(b, y, x)
  BY <1>1 DEF BeforeIn
<1>3. ASSUME BeforeIn(b, x, y)
      PROVE  RankIn(b, x) < RankIn(b, y)
  <2>1. A \in SUBSET B
    BY <1>1, <1>3 DEF BeforeIn
  <2>2. x \in B /\ x \notin A
    BY <1>1, <1>3 DEF BeforeIn
  <2>3. IsFiniteSet(B) /\ Cardinality(A) \in Nat /\ Cardinality(B) \in Nat
    BY StoredFinite, RankTyped DEF RankIn
  <2>4. Cardinality(A) <= Cardinality(B) /\ Cardinality(A) # Cardinality(B)
    BY <2>1, <2>2, <2>3, FS_Subset
  <2> QED BY <2>3, <2>4 DEF RankIn
<1> QED BY <1>2, <1>3

(* A message of every rank, and only one.                                  *)
LEMMA OneOfEachRank ==
  ASSUME NEW b \in Boxes
  PROVE  /\ \A x, y \in StoredIn(b) : RankIn(b, x) = RankIn(b, y) => x = y
         /\ \A k \in 0 .. Cardinality(StoredIn(b)) - 1 : \E m \in StoredIn(b) : RankIn(b, m) = k
<1> DEFINE S == StoredIn(b)
           R == 0 .. Cardinality(S) - 1
           f == [m \in S |-> RankIn(b, m)]
<1>1. IsFiniteSet(S) /\ Cardinality(S) \in Nat
  BY StoredFinite
<1>2. \A m \in S : RankIn(b, m) \in R
  <2>1. ASSUME NEW m \in S
        PROVE  RankIn(b, m) \in R
    <3>1. RankIn(b, m) \in Nat /\ RankIn(b, m) < Cardinality(S)
      BY RankTyped
    <3> QED BY <1>1, <3>1
  <2> QED BY <2>1
<1>3. ASSUME NEW x \in S, NEW y \in S, RankIn(b, x) = RankIn(b, y)
      PROVE  x = y
  <2>1. /\ x # y => BeforeIn(b, x, y) \/ BeforeIn(b, y, x)
        /\ BeforeIn(b, x, y) => RankIn(b, x) < RankIn(b, y)
        /\ BeforeIn(b, y, x) => RankIn(b, y) < RankIn(b, x)
    BY RankFollowsOrder
  <2>2. RankIn(b, x) \in Int
    BY <1>2
  <2> QED BY <1>3, <2>1, <2>2
<1>4. f \in Injection(S, R)
  BY <1>2, <1>3 DEF Injection, IsInjective
<1>5. IsFiniteSet(R) /\ Cardinality(R) = Cardinality(S)
  BY <1>1, FS_Interval
<1>6. f \in Surjection(S, R)
  BY <1>4, <1>5, FS_Injection
<1>7. \A k \in R : \E m \in S : f[m] = k
  BY <1>6 DEF Surjection
<1> QED BY <1>3, <1>7

(* What is stored besides raises ranks.                                    *)
LEMMA InsertedRanks ==
  ASSUME NEW b \in Boxes, NEW c \in Boxes, \A m \in StoredIn(b) : c[m] = b[m],
         NEW x \in StoredIn(b)
  PROVE  RankIn(c, x) >= RankIn(b, x)
<1> DEFINE A == {z \in StoredIn(b) : BeforeIn(b, z, x)}
           B == {z \in StoredIn(c) : BeforeIn(c, z, x)}
<1>1. x \in StoredIn(c) /\ StoredIn(b) \subseteq StoredIn(c)
  BY DEF StoredIn
<1>2. A \in SUBSET B
  BY <1>1 DEF BeforeIn
<1>3. IsFiniteSet(B) /\ Cardinality(A) \in Nat /\ Cardinality(B) \in Nat
  BY <1>1, StoredFinite, RankTyped DEF RankIn
<1> QED BY <1>2, <1>3, FS_Subset DEF RankIn

(* What is taken away from the n-th on leaves the ranks from the n-th on   *)
(* there: the n messages before are still before.                          *)
LEMMA RemovedRanks ==
  ASSUME NEW b \in Boxes, NEW c \in Boxes, NEW n \in Nat,
         \A m \in StoredIn(b) : RankIn(b, m) < n => c[m] = b[m],
         NEW x \in StoredIn(b), c[x] = b[x], RankIn(b, x) >= n
  PROVE  RankIn(c, x) >= n
<1> DEFINE A == {y \in StoredIn(b) : RankIn(b, y) < n}
           B == {z \in StoredIn(c) : BeforeIn(c, z, x)}
           R == 0 .. n - 1
           f == [y \in A |-> RankIn(b, y)]
<1>1. x \in StoredIn(c)
  BY DEF StoredIn
<1>2. \A m \in StoredIn(b) : RankIn(b, m) \in Nat
  BY RankTyped, StoredFinite
<1>3. A \in SUBSET B
  <2> SUFFICES ASSUME NEW y \in A
               PROVE  y \in B
    OBVIOUS
  <2>1. y \in StoredIn(b) /\ RankIn(b, y) < n /\ c[y] = b[y]
    OBVIOUS
  <2>2. y # x /\ ~ (RankIn(b, x) < RankIn(b, y))
    BY <1>2, <2>1
  <2>3. BeforeIn(b, y, x)
    BY <2>1, <2>2, RankFollowsOrder
  <2>4. y \in StoredIn(c)
    BY <2>1 DEF StoredIn
  <2> QED BY <2>1, <2>3, <2>4 DEF BeforeIn
<1>4. IsFiniteSet(B) /\ Cardinality(B) \in Nat /\ IsFiniteSet(A) /\ Cardinality(A) <= Cardinality(B)
  <2>1. IsFiniteSet(B) /\ Cardinality(B) \in Nat
    BY <1>1, RankTyped, StoredFinite DEF RankIn
  <2> QED BY <1>3, <2>1, FS_Subset
<1>5. f \in Surjection(A, R)
  <2>1. f \in [A -> R]
    BY <1>2
  <2>2. ASSUME NEW k \in R
        PROVE  \E y \in A : f[y] = k
    <3>1. k \in 0 .. Cardinality(StoredIn(b)) - 1
      <4>1. RankIn(b, x) \in Nat /\ RankIn(b, x) < Cardinality(StoredIn(b))
        BY RankTyped
      <4>2. Cardinality(StoredIn(b)) \in Nat
        BY StoredFinite
      <4> QED BY <4>1, <4>2
    <3>2. PICK y \in StoredIn(b) : RankIn(b, y) = k
      BY <3>1, OneOfEachRank
    <3> QED BY <3>2
  <2> QED BY <2>1, <2>2 DEF Surjection
<1>6. Cardinality(R) = n /\ Cardinality(R) <= Cardinality(A)
  <2>1. Cardinality(R) <= Cardinality(A)
    BY <1>4, <1>5, FS_Surjection
  <2> QED BY <2>1, FS_Interval
<1>7. Cardinality(A) \in Nat
  BY <1>4, FS_CardinalityType
<1> QED BY <1>4, <1>6, <1>7 DEF RankIn

-----------------------------------------------------------------------------
(* Pages.                                                                  *)

(* The k-th message of the store's answer has rank k - 1.                  *)
LEMMA OrderedByRank ==
  ASSUME box \in Boxes
  PROVE  /\ StoredInOrder \in Seq(Msgs) /\ Len(StoredInOrder) = Cardinality(Stored)
         /\ \A k \in 1 .. Cardinality(Stored) : StoredInOrder[k] \in Stored /\ Rank(StoredInOrder[k]) = k - 1
<1>1. Cardinality(Stored) \in Nat /\ Stored \subseteq Msgs
  BY StoredFinite, RanksOfBox DEF StoredIn
<1>2. ASSUME NEW k \in 1 .. Cardinality(Stored)
      PROVE  StoredInOrder[k] \in Stored /\ Rank(StoredInOrder[k]) = k - 1
  <2>1. k - 1 \in 0 .. Cardinality(StoredIn(box)) - 1
    BY <1>1, RanksOfBox
  <2>2. \E m \in Stored : Rank(m) = k - 1
    BY <2>1, OneOfEachRank, RanksOfBox
  <2>3. StoredInOrder[k] = CHOOSE m \in Stored : Rank(m) = k - 1
    BY DEF StoredInOrder
  <2> QED BY <2>2, <2>3
<1>3. StoredInOrder \in [1 .. Cardinality(Stored) -> Msgs]
  BY <1>1, <1>2 DEF StoredInOrder
<1> QED BY <1>1, <1>2, <1>3

(* All entries of a sequence are the sequence.                             *)
LEMMA AllEntries ==
  ASSUME NEW T, NEW seq \in Seq(T)
  PROVE  Entries(seq, DOMAIN seq) = seq
<1> DEFINE n == Len(seq)
           S == 1 .. n
<1>1. n \in Nat /\ DOMAIN seq = S /\ S \in SUBSET Nat
  OBVIOUS
<1>2. IsFiniteSet(S) /\ Cardinality(S) = n
  BY <1>1, FS_Interval
<1>3. ASSUME NEW k \in S
      PROVE  Nth(S, k) = k
  <2>1. Nth(S, k) \in S /\ Cardinality(UpTo(S, Nth(S, k))) = k
    BY <1>1, <1>2, NthProperty
  <2>2. UpTo(S, Nth(S, k)) = 1 .. Nth(S, k)
    BY <1>1, <2>1 DEF UpTo
  <2>3. Cardinality(1 .. Nth(S, k)) = Nth(S, k)
    BY <1>1, <2>1, FS_Interval
  <2> QED BY <2>1, <2>2, <2>3
<1>4. Entries(seq, S) = [k \in S |-> seq[k]]
  BY <1>2, <1>3 DEF Entries
<1> QED BY <1>1, <1>4

LEMMA MatchingMessages ==
  ASSUME NEW all \in Seq(Msgs), NEW only
  PROVE  Matching(all, only) \in Seq(Msgs)
<1>1. {i \in DOMAIN all : only = None \/ all[i] = only} \in SUBSET DOMAIN all
  OBVIOUS
<1> QED BY <1>1, EntriesProperty DEF Matching

LEMMA AllMatch ==
  ASSUME NEW all \in Seq(Msgs)
  PROVE  Matching(all, None) = all
<1>1. {i \in DOMAIN all : None = None \/ all[i] = None} = DOMAIN all
  OBVIOUS
<1> QED BY <1>1, AllEntries DEF Matching

(* How many rows there are from the offset on, as far as they are fetched. *)
PageLength(length, offset, fetchLimit) ==
  IF length <= offset THEN 0 ELSE IF fetchLimit < length - offset THEN fetchLimit ELSE length - offset

LEMMA PageInterval ==
  ASSUME NEW length \in Nat, NEW offset \in Nat, NEW fetchLimit \in Nat,
         NEW n, n = PageLength(length, offset, fetchLimit)
  PROVE  /\ n \in Nat /\ n <= fetchLimit /\ (n > 0 => offset + n <= length)
         /\ n < fetchLimit => length <= offset + n
BY DEF PageLength

LEMMA PagePlaces ==
  ASSUME NEW length \in Nat, NEW offset \in Nat, NEW fetchLimit \in Nat,
         NEW n, n = PageLength(length, offset, fetchLimit), NEW i \in Int
  PROVE  (1 <= i /\ i <= length /\ i > offset /\ i <= offset + fetchLimit)
           <=> (offset + 1 <= i /\ i <= offset + n)
BY DEF PageLength

LEMMA PageShape ==
  ASSUME NEW all \in Seq(Msgs), NEW only, NEW offset \in Nat, NEW fetchLimit \in Nat,
         NEW matching, matching = Matching(all, only),
         NEW page, page = PageMessages(all, offset, fetchLimit, only)
  PROVE  /\ page \in Seq(Msgs) /\ Len(page) <= fetchLimit
         /\ Len(page) > 0 => offset + Len(page) <= Len(matching)
         /\ Len(page) < fetchLimit => Len(matching) <= offset + Len(page)
         /\ \A i \in 1 .. Len(page) : page[i] = matching[offset + i]
<1> DEFINE n == PageLength(Len(matching), offset, fetchLimit)
           places == {i \in DOMAIN matching : i > offset /\ i <= offset + fetchLimit}
<1>1. matching \in Seq(Msgs) /\ Len(matching) \in Nat /\ DOMAIN matching = 1 .. Len(matching)
  BY MatchingMessages
<1>2. /\ n \in Nat /\ n <= fetchLimit /\ (n > 0 => offset + n <= Len(matching))
      /\ n < fetchLimit => Len(matching) <= offset + n
  BY <1>1, PageInterval
<1> HIDE DEF n
<1>3. places = (offset + 1) .. (offset + n)
  <2>1. \A i \in Int : (1 <= i /\ i <= Len(matching) /\ i > offset /\ i <= offset + fetchLimit)
                          <=> (offset + 1 <= i /\ i <= offset + n)
    BY <1>1, PagePlaces DEF n
  <2> QED BY <1>1, <1>2, <2>1
<1>4. Cardinality(places) = n
  <2>1. Cardinality((offset + 1) .. (offset + n)) = n
    BY <1>2, FS_Interval
  <2> QED BY <1>3, <2>1
<1>5. page = [i \in 1 .. n |-> matching[offset + i]]
  BY <1>4 DEF PageMessages
<1>6. \A i \in 1 .. n : matching[offset + i] \in Msgs
  <2>1. \A i \in 1 .. n : offset + i \in 1 .. Len(matching)
    BY <1>1, <1>2
  <2> QED BY <1>1, <2>1
<1>7. page \in Seq(Msgs) /\ Len(page) = n
  BY <1>2, <1>5, <1>6
<1> QED BY <1>2, <1>5, <1>7

(* A page of everything there is.                                          *)
LEMMA WholePage ==
  ASSUME NEW all \in Seq(Msgs), NEW offset \in Nat, NEW fetchLimit \in Nat,
         NEW page, page = PageMessages(all, offset, fetchLimit, None)
  PROVE  /\ page \in Seq(Msgs) /\ Len(page) <= fetchLimit
         /\ Len(page) > 0 => offset + Len(page) <= Len(all)
         /\ Len(page) < fetchLimit => Len(all) <= offset + Len(page)
         /\ \A i \in 1 .. Len(page) : page[i] = all[offset + i]
<1>1. all = Matching(all, None)
  BY AllMatch
<1> QED BY <1>1, PageShape

(* What a page of the box holds: the messages of one interval of ranks.    *)
LEMMA PageOfBox ==
  ASSUME box \in Boxes, NEW offset \in Nat, NEW fetchLimit \in Nat,
         NEW rows, rows = PageMessages(StoredInOrder, offset, fetchLimit, None)
  PROVE  /\ rows \in Seq(Msgs) /\ Len(rows) <= fetchLimit
         /\ Len(rows) > 0 => offset + Len(rows) <= Cardinality(Stored)
         /\ Len(rows) < fetchLimit => Cardinality(Stored) <= offset + Len(rows)
         /\ \A i \in 1 .. Len(rows) : rows[i] \in Stored /\ Rank(rows[i]) = offset + i - 1
<1> DEFINE size == Cardinality(Stored)
           n == Len(rows)
<1>1. StoredInOrder \in Seq(Msgs) /\ Len(StoredInOrder) = size /\ size \in Nat
  BY OrderedByRank, StoredFinite, RanksOfBox
<1>2. /\ rows \in Seq(Msgs) /\ Len(rows) <= fetchLimit
      /\ Len(rows) > 0 => offset + Len(rows) <= Len(StoredInOrder)
      /\ Len(rows) < fetchLimit => Len(StoredInOrder) <= offset + Len(rows)
      /\ \A i \in 1 .. Len(rows) : rows[i] = StoredInOrder[offset + i]
  BY <1>1, WholePage
<1> HIDE DEF size
<1>3. rows \in Seq(Msgs) /\ n \in Nat /\ n <= fetchLimit /\ \A i \in 1 .. n : rows[i] = StoredInOrder[offset + i]
  BY <1>2
<1>4. (n > 0 => offset + n <= size) /\ (n < fetchLimit => size <= offset + n)
  BY <1>1, <1>2
<1> HIDE DEF n
<1>5. ASSUME NEW i \in 1 .. n
      PROVE  rows[i] \in Stored /\ Rank(rows[i]) = offset + i - 1
  <2>1. offset + i \in 1 .. size /\ rows[i] = StoredInOrder[offset + i]
    BY <1>1, <1>3, <1>4
  <2>2. (offset + i) - 1 = offset + i - 1
    OBVIOUS
  <2> QED BY <2>1, <2>2, OrderedByRank DEF size
<1> QED BY <1>3, <1>4, <1>5 DEF size, n

-----------------------------------------------------------------------------
(* The fallback of fallbackPageMessages pages as every store does, for any *)
(* box, offset and limit, and for one message asked for by id.             *)
LEMMA FallbackAgrees ==
  ASSUME NEW all \in Seq(Msgs), NEW only, NEW offset \in Nat, NEW fetchLimit \in Nat
  PROVE  FallbackPageMessages(all, offset, fetchLimit, only) = PageMessages(all, offset, fetchLimit, only)
<1> DEFINE matching == Matching(all, only)
           n == Len(PageMessages(all, offset, fetchLimit, only))
           end == offset + fetchLimit
           last == IF end > Len(matching) THEN Len(matching) ELSE end
<1>1. matching \in Seq(Msgs) /\ Len(matching) \in Nat
  BY MatchingMessages
<1>2. /\ PageMessages(all, offset, fetchLimit, only) = [i \in 1 .. n |-> matching[offset + i]]
      /\ n \in Nat /\ n <= fetchLimit /\ (n > 0 => offset + n <= Len(matching))
      /\ n < fetchLimit => Len(matching) <= offset + n
  <2> DEFINE page == PageMessages(all, offset, fetchLimit, only)
  <2> HIDE DEF page, matching
  <2>1. /\ page \in Seq(Msgs) /\ Len(page) <= fetchLimit
        /\ Len(page) > 0 => offset + Len(page) <= Len(matching)
        /\ Len(page) < fetchLimit => Len(matching) <= offset + Len(page)
        /\ \A i \in 1 .. Len(page) : page[i] = matching[offset + i]
    <3>1. matching = Matching(all, only) /\ page = PageMessages(all, offset, fetchLimit, only)
      BY DEF matching, page
    <3> QED BY <3>1, PageShape
  <2>2. page = [i \in 1 .. Len(page) |-> page[i]]
    BY <2>1
  <2>3. page = [i \in 1 .. Len(page) |-> matching[offset + i]]
    BY <2>1, <2>2
  <2> QED BY <2>1, <2>3 DEF page
<1>3. FallbackPageMessages(all, offset, fetchLimit, only) =
        IF offset >= Len(matching) THEN <<>> ELSE SubSeq(matching, offset + 1, last)
  BY DEF FallbackPageMessages, FallbackEnd
<1> HIDE DEF matching, n
<1>4. CASE offset >= Len(matching)
  <2>1. n = 0
    BY <1>1, <1>2, <1>4
  <2>2. [i \in 1 .. n |-> matching[offset + i]] = <<>>
    BY <2>1
  <2> QED BY <1>2, <1>3, <1>4, <2>2
<1>5. CASE offset < Len(matching)
  <2>1. last - offset = n /\ n \in Nat /\ last <= Len(matching) /\ last \in Nat
    <3>1. /\ n \in Nat /\ n <= fetchLimit /\ (n > 0 => offset + n <= Len(matching))
          /\ n < fetchLimit => Len(matching) <= offset + n
      BY <1>2
    <3> QED BY <1>1, <1>5, <3>1
  <2> HIDE DEF last
  <2>2. SubSeq(matching, offset + 1, last) = [i \in 1 .. n |-> matching[offset + i]]
    <3> DEFINE part == SubSeq(matching, offset + 1, last)
    <3>1. \A i \in offset + 1 .. last : matching[i] \in Msgs
      BY <1>1, <2>1
    <3>2. /\ part \in Seq(Msgs) /\ Len(part) = IF offset + 1 <= last THEN last - (offset + 1) + 1 ELSE 0
          /\ \A i \in 1 .. last - (offset + 1) + 1 : part[i] = matching[offset + 1 + i - 1]
      BY <2>1, <3>1, SubSeqProperties
    <3>3. last - (offset + 1) + 1 = n /\ \A i \in 1 .. n : offset + 1 + i - 1 = offset + i
      BY <2>1
    <3>4. Len(part) = n
      BY <2>1, <3>2, <3>3
    <3>5. \A i \in 1 .. n : part[i] = matching[offset + i]
      BY <3>2, <3>3
    <3> HIDE DEF part
    <3>6. part = [i \in 1 .. n |-> part[i]]
      BY <3>2, <3>4
    <3> QED BY <3>5, <3>6 DEF part
  <2>3. ~ (offset >= Len(matching))
    BY <1>1, <1>5
  <2>4. FallbackPageMessages(all, offset, fetchLimit, only) = SubSeq(matching, offset + 1, last)
    BY <1>3, <2>3 DEF last
  <2> QED BY <1>2, <2>2, <2>4, Zenon
<1> QED BY <1>1, <1>4, <1>5

-----------------------------------------------------------------------------
(* Budgets.                                                                *)

(* The count of the bytes is there and is what the loop of readMessagePage *)
(* counts: were it missing up to some row, then up to a least one, to      *)
(* which the count up to the row before extends.                           *)
Counts(f, rows, n) ==
  f = [k \in 0 .. n |-> IF k = 0 THEN Overhead ELSE f[k - 1] + Size[rows[k]]]

LEMMA CountExists ==
  ASSUME NEW rows \in Seq(Msgs)
  PROVE  \E f : Counts(f, rows, Len(rows))
<1> DEFINE n == Len(rows)
           Missing == {k \in 0 .. n : ~ \E f : Counts(f, rows, k)}
<1>1. n \in Nat
  OBVIOUS
<1> SUFFICES ASSUME Missing # {}
             PROVE  FALSE
  BY <1>1
<1>2. PICK k \in Missing : \A j \in Missing : k <= j
  <2>1. Missing \in SUBSET Nat
    BY <1>1
  <2> HIDE DEF Missing
  <2> QED BY <2>1, LeastNumber
<1>3. k \in Nat /\ k <= n /\ ~ \E f : Counts(f, rows, k)
  BY <1>1, <1>2
<1>4. CASE k = 0
  <2> DEFINE f == [j \in 0 .. 0 |-> Overhead]
  <2>1. Counts(f, rows, 0)
    BY DEF Counts
  <2> QED BY <1>3, <1>4, <2>1
<1>5. CASE k > 0
  <2>1. k - 1 \in 0 .. n /\ k - 1 \notin Missing
    BY <1>1, <1>2, <1>3, <1>5
  <2>2. PICK f : Counts(f, rows, k - 1)
    BY <2>1
  <2> DEFINE g == [j \in 0 .. k |-> IF j = 0 THEN Overhead ELSE f[j - 1] + Size[rows[j]]]
  <2>3. ASSUME NEW j \in 0 .. k - 1
        PROVE  g[j] = f[j]
    BY <1>3, <2>2 DEF Counts
  <2>4. \A j \in 0 .. k : j # 0 => g[j - 1] = f[j - 1]
    <3>1. \A j \in 0 .. k : j # 0 => j - 1 \in 0 .. k - 1
      BY <1>3
    <3> HIDE DEF g
    <3> QED BY <2>3, <3>1
  <2> DEFINE h == [j \in 0 .. k |-> IF j = 0 THEN Overhead ELSE g[j - 1] + Size[rows[j]]]
  <2>5. \A j \in 0 .. k : g[j] = h[j]
    BY <2>4
  <2>6. g = h
    BY <2>5
  <2>7. Counts(g, rows, k)
    BY <2>6 DEF Counts
  <2> QED BY <1>3, <2>7
<1> QED BY <1>3, <1>4, <1>5

LEMMA BytesCounted ==
  ASSUME NEW rows \in Seq(Msgs)
  PROVE  /\ EncodedBytes(rows)[0] = Overhead
         /\ \A k \in 1 .. Len(rows) : EncodedBytes(rows)[k] = EncodedBytes(rows)[k - 1] + Size[rows[k]]
<1> DEFINE b == EncodedBytes(rows)
<1>1. b = CHOOSE f : Counts(f, rows, Len(rows))
  BY DEF EncodedBytes, Counts
<1>2. Counts(b, rows, Len(rows))
  BY <1>1, CountExists
<1> HIDE DEF b
<1>3. Len(rows) \in Nat
  OBVIOUS
<1>4. b[0] = Overhead
  BY <1>2, <1>3 DEF Counts
<1>5. \A k \in 1 .. Len(rows) : b[k] = b[k - 1] + Size[rows[k]]
  BY <1>2, <1>3 DEF Counts
<1> QED BY <1>4, <1>5 DEF b

(* The count never falls.                                                  *)
LEMMA BytesGrow ==
  ASSUME NEW rows \in Seq(Msgs), NEW i \in 0 .. Len(rows), NEW j \in i .. Len(rows)
  PROVE  /\ EncodedBytes(rows)[j] \in Nat
         /\ EncodedBytes(rows)[i] <= EncodedBytes(rows)[j]
<1> DEFINE b == EncodedBytes(rows)
           n == Len(rows)
           Untyped == {k \in 0 .. n : b[k] \notin Nat}
           Fallen == {k \in i .. n : ~ (b[i] <= b[k])}
<1> HIDE DEF b
<1>1. n \in Nat /\ i \in Nat /\ j \in Nat
  OBVIOUS
<1>2. b[0] = Overhead /\ \A k \in 1 .. n : b[k] = b[k - 1] + Size[rows[k]]
  BY BytesCounted DEF b
<1>3. \A k \in 1 .. n : Size[rows[k]] \in Nat
  BY PagingAssumption
<1>4. Untyped = {}
  <2> SUFFICES ASSUME Untyped # {}
               PROVE  FALSE
    OBVIOUS
  <2>1. PICK k \in Untyped : \A l \in Untyped : k <= l
    <3>1. Untyped \in SUBSET Nat
      BY <1>1
    <3> HIDE DEF Untyped
    <3> QED BY <3>1, LeastNumber
  <2>2. k \in 0 .. n /\ b[k] \notin Nat
    BY <2>1
  <2>3. k # 0
    BY <1>2, <2>2, PagingAssumption
  <2>4. k \in 1 .. n /\ k - 1 \in 0 .. n /\ ~ (k <= k - 1)
    BY <1>1, <2>2, <2>3
  <2>5. b[k - 1] \in Nat
    BY <2>1, <2>4
  <2>6. b[k] = b[k - 1] + Size[rows[k]] /\ Size[rows[k]] \in Nat
    BY <1>2, <1>3, <2>4
  <2>7. b[k] \in Nat
    BY <2>5, <2>6
  <2> QED BY <2>2, <2>7
<1>5. \A k \in 0 .. n : b[k] \in Nat
  BY <1>4
<1>6. Fallen = {}
  <2> SUFFICES ASSUME Fallen # {}
               PROVE  FALSE
    OBVIOUS
  <2>1. PICK k \in Fallen : \A l \in Fallen : k <= l
    <3>1. Fallen \in SUBSET Nat
      BY <1>1
    <3> HIDE DEF Fallen
    <3> QED BY <3>1, LeastNumber
  <2>2. k \in i .. n /\ ~ (b[i] <= b[k])
    BY <2>1
  <2>3. k # i
    BY <1>1, <1>5, <2>2
  <2>4. k \in 1 .. n /\ k - 1 \in i .. n /\ k - 1 \in 0 .. n /\ ~ (k <= k - 1)
    BY <1>1, <2>2, <2>3
  <2>5. b[i] <= b[k - 1]
    BY <2>1, <2>4
  <2>6. b[k] = b[k - 1] + Size[rows[k]] /\ Size[rows[k]] \in Nat
    BY <1>2, <1>3, <2>4
  <2>7. b[k - 1] \in Nat /\ b[i] \in Nat
    BY <1>5, <2>4
  <2>8. b[i] <= b[k]
    BY <2>5, <2>6, <2>7
  <2> QED BY <2>2, <2>8
<1>7. b[i] <= b[j]
  BY <1>6
<1>8. b[j] \in Nat
  BY <1>1, <1>5
<1> QED BY <1>7, <1>8 DEF b

(* The rows a page takes are the ones the loop takes: every count on the   *)
(* way is within the budget, and the loop stops at the end, at the limit   *)
(* or before the first row that would exceed the budget.                   *)
LEMMA FittingIsTheLoop ==
  ASSUME NEW rows \in Seq(Msgs), NEW limit \in Nat \ {0}, bounds.MaxResponseBytes \in Int,
         NEW out, out = Fitting(rows, limit)
  PROVE  /\ out \in 0 .. Len(rows) /\ out <= limit
         /\ bounds.MaxResponseBytes # -1 =>
              \A k \in 1 .. out : EncodedBytes(rows)[k] <= bounds.MaxResponseBytes
         /\ \/ out = Len(rows) \/ out = limit
            \/ /\ bounds.MaxResponseBytes # -1
               /\ EncodedBytes(rows)[out + 1] > bounds.MaxResponseBytes
<1> DEFINE n == Len(rows)
           F == Fits(rows, limit)
           b == EncodedBytes(rows)
           G == {d \in 0 .. n : n - d \in F}
           max == bounds.MaxResponseBytes
<1> HIDE DEF b
<1>1. n \in Nat
  OBVIOUS
<1>2. \A k : k \in F <=> k \in 0 .. n /\ k <= limit /\ (k > 0 /\ max # -1 => b[k] <= max)
  BY DEF Fits, b
<1> HIDE DEF F, max
<1>3. 0 \in F
  BY <1>1, <1>2
<1>4. G \in SUBSET Nat /\ n \in G
  BY <1>1, <1>3
<1>5. PICK d \in G : \A e \in G : d <= e
  <2> HIDE DEF G
  <2> QED BY <1>4, LeastNumber
<1>6. n - d \in F /\ \A j \in F : j <= n - d
  <2>1. ASSUME NEW j \in F
        PROVE  j <= n - d
    <3>1. j \in 0 .. n
      BY <1>2
    <3>2. n - j \in G
      <4>1. n - (n - j) = j /\ n - j \in 0 .. n
        BY <1>1, <3>1
      <4> QED BY <4>1
    <3>3. d <= n - j /\ d \in Nat
      BY <1>1, <1>5, <3>2
    <3> QED BY <1>1, <3>1, <3>3
  <2> QED BY <1>5, <2>1
<1>7. out \in F /\ \A j \in F : j <= out
  <2>1. out = CHOOSE k \in F : \A j \in F : j <= k
    BY DEF Fitting, F
  <2> QED BY <1>6, <2>1
<1>8. out \in 0 .. n /\ out <= limit /\ (out > 0 /\ max # -1 => b[out] <= max)
  BY <1>2, <1>7
<1>9. ASSUME max # -1, NEW k \in 1 .. out
      PROVE  b[k] <= max
  <2>1. k \in 0 .. n /\ out \in k .. n /\ out > 0
    BY <1>1, <1>8
  <2>2. /\ b[out] \in Nat /\ b[k] <= b[out]
    BY <2>1, BytesGrow DEF b
  <2>3. b[k] \in Nat
    <3>1. k \in k .. n
      BY <2>1
    <3> QED BY <2>1, <3>1, BytesGrow DEF b
  <2>4. b[out] <= max /\ max \in Int
    BY <1>8, <1>9, <2>1 DEF max
  <2> QED BY <2>2, <2>3, <2>4
<1>10. ASSUME out # n, out # limit
       PROVE  max # -1 /\ b[out + 1] > max
  <2>1. out + 1 \in 0 .. n /\ out + 1 <= limit /\ out + 1 > 0 /\ ~ (out + 1 <= out)
    BY <1>1, <1>8, <1>10
  <2>2. out + 1 \notin F
    BY <1>7, <2>1
  <2>3. max # -1 /\ ~ (b[out + 1] <= max)
    BY <1>2, <2>1, <2>2
  <2>4. b[out + 1] \in Nat
    <3>1. out + 1 \in out + 1 .. n
      BY <2>1
    <3> QED BY <2>1, <3>1, BytesGrow DEF b
  <2> QED BY <2>3, <2>4 DEF max
<1> QED BY <1>8, <1>9, <1>10 DEF b, max

-----------------------------------------------------------------------------
(* A page that is read.                                                    *)
BoundsOK ==
  /\ \A f \in {"DefaultLimit", "MaxLimit", "MaxOffset", "MaxResponseBytes"} :
       bounds[f] \in Int /\ (bounds[f] = -1 \/ bounds[f] > 0)
  /\ bounds.MaxLimit # -1 => bounds.DefaultLimit <= bounds.MaxLimit

(* It is refused for its first message only; otherwise it holds the        *)
(* messages of an interval of ranks, which moves on if there are more and  *)
(* reaches the end if there are none.                                      *)
LEMMA PageRead ==
  ASSUME box \in Boxes, BoundsOK, NEW pag \in Paginations,
         NEW page, page = ReadMessagePage(pag)
  PROVE  \/ /\ page = None /\ bounds.MaxResponseBytes # -1
            /\ \E m \in Stored : Rank(m) = pag.offset /\ Overhead + Size[m] > bounds.MaxResponseBytes
         \/ /\ page \in Pages
            /\ Range(page.messages) \subseteq Msgs
            /\ \A m \in Stored : pag.offset <= Rank(m) /\ Rank(m) < page.nextOffset => m \in Range(page.messages)
            /\ page.hasMore => pag.offset < page.nextOffset /\ page.nextOffset <= N
            /\ ~ page.hasMore => \A m \in Stored : Rank(m) < page.nextOffset \/ Rank(m) < pag.offset
<1> DEFINE offset == pag.offset
           limit == pag.limit
           size == Cardinality(Stored)
           rows == PageMessages(StoredInOrder, offset, limit + 1, None)
           n == Len(rows)
           out == Fitting(rows, limit)
           b == EncodedBytes(rows)
           max == bounds.MaxResponseBytes
           shown == SubSeq(rows, 1, out)
<1>1. /\ offset \in Nat /\ limit \in Nat \ {0} /\ size \in Nat /\ size <= N /\ N \in Nat /\ max \in Int
      /\ limit + 1 \in Nat
  BY StoredFinite, RanksOfBox, PagingAssumption DEF Paginations, BoundsOK
<1>2. page = IF out = 0 /\ rows # <<>> THEN None
             ELSE [messages |-> shown, nextOffset |-> offset + out, hasMore |-> out < Len(rows)]
  BY DEF ReadMessagePage, TooLarge, NextOffset
<1>3. /\ rows \in Seq(Msgs) /\ Len(rows) = n /\ n \in Nat /\ n <= limit + 1
      /\ n > 0 => offset + n <= size
      /\ n < limit + 1 => size <= offset + n
      /\ \A i \in 1 .. n : rows[i] \in Stored /\ Rank(rows[i]) = offset + i - 1
  <2> DEFINE fetchLimit == limit + 1
  <2>1. rows = PageMessages(StoredInOrder, offset, fetchLimit, None) /\ fetchLimit \in Nat /\ offset \in Nat
    BY <1>1
  <2> HIDE DEF offset, limit, rows, fetchLimit
  <2>2. /\ rows \in Seq(Msgs) /\ Len(rows) <= fetchLimit
        /\ Len(rows) > 0 => offset + Len(rows) <= Cardinality(Stored)
        /\ Len(rows) < fetchLimit => Cardinality(Stored) <= offset + Len(rows)
        /\ \A i \in 1 .. Len(rows) : rows[i] \in Stored /\ Rank(rows[i]) = offset + i - 1
    BY <2>1, PageOfBox
  <2>3. Len(rows) \in Nat /\ fetchLimit = limit + 1
    BY <2>2 DEF fetchLimit
  <2> QED BY <2>2, <2>3
<1> HIDE DEF offset, limit, size, rows, n
<1>5. /\ out \in 0 .. n /\ out <= limit
      /\ \/ out = n \/ out = limit
         \/ max # -1 /\ b[out + 1] > max
  BY <1>1, <1>3, FittingIsTheLoop
<1> HIDE DEF out
<1>6. ASSUME NEW m \in Stored
      PROVE  Rank(m) \in Nat /\ Rank(m) < size
  BY RankTyped, RanksOfBox DEF size
<1>7. CASE out = 0 /\ rows # <<>>
  <2>1. n > 0
    BY <1>3, <1>7
  <2>2. max # -1 /\ b[1] > max
    BY <1>1, <1>5, <1>7, <2>1
  <2>3. b[1] = Overhead + Size[rows[1]]
    <3>1. 1 \in 1 .. Len(rows) /\ 1 - 1 = 0
      BY <1>3, <2>1
    <3>2. b[0] = Overhead /\ b[1] = b[1 - 1] + Size[rows[1]]
      BY <1>3, <3>1, BytesCounted
    <3> QED BY <3>1, <3>2
  <2>4. rows[1] \in Stored /\ Rank(rows[1]) = offset
    <3>1. 1 \in 1 .. n /\ offset + 1 - 1 = offset
      BY <1>1, <1>3, <2>1
    <3> QED BY <1>3, <3>1
  <2> QED BY <1>2, <1>7, <2>2, <2>3, <2>4 DEF offset
<1>8. CASE ~ (out = 0 /\ rows # <<>>)
  <2>1. page = [messages |-> shown, nextOffset |-> offset + out, hasMore |-> out < n]
    BY <1>2, <1>3, <1>8
  <2>2. shown \in Seq(Msgs) /\ Len(shown) = out /\ \A i \in 1 .. out : shown[i] = rows[i]
    <3>1. \A i \in 1 .. out : rows[i] \in Msgs
      BY <1>3, <1>5
    <3>2. /\ shown \in Seq(Msgs) /\ Len(shown) = IF 1 <= out THEN out - 1 + 1 ELSE 0
          /\ \A i \in 1 .. out - 1 + 1 : shown[i] = rows[1 + i - 1]
      BY <1>3, <1>5, <3>1, SubSeqProperties
    <3>3. out - 1 + 1 = out /\ \A i \in 1 .. out : 1 + i - 1 = i
      BY <1>3, <1>5
    <3> QED BY <1>3, <1>5, <3>2, <3>3
  <2> HIDE DEF shown
  <2>3. page \in Pages
    BY <1>1, <1>3, <1>5, <2>1, <2>2 DEF Pages
  <2>4. Range(shown) \subseteq Msgs
    BY <2>2 DEF Range
  <2>5. ASSUME NEW m \in Stored, offset <= Rank(m), Rank(m) < offset + out
        PROVE  m \in Range(shown)
    <3> DEFINE i == Rank(m) - offset + 1
    <3>1. i \in 1 .. out /\ i \in 1 .. n /\ offset + i - 1 = Rank(m)
      BY <1>1, <1>3, <1>5, <1>6, <2>5
    <3> HIDE DEF i
    <3>2. rows[i] \in Stored /\ Rank(rows[i]) = Rank(m)
      BY <1>3, <3>1
    <3>3. rows[i] = m
      BY <3>2, OneOfEachRank, RanksOfBox
    <3> QED BY <2>2, <3>1, <3>3 DEF Range
  <2>6. out < n => offset < offset + out /\ offset + out <= N
    BY <1>1, <1>3, <1>5, <1>8
  <2>7. ASSUME ~ (out < n), NEW m \in Stored
        PROVE  Rank(m) < offset + out
    <3>1. out = n /\ n < limit + 1
      BY <1>1, <1>3, <1>5, <2>7
    <3> QED BY <1>1, <1>3, <1>6, <3>1
  <2>8. page.messages = shown /\ page.nextOffset = offset + out /\ page.hasMore = (out < n)
    BY <2>1
  <2> QED BY <2>3, <2>4, <2>5, <2>6, <2>7, <2>8 DEF offset
<1> QED BY <1>7, <1>8

-----------------------------------------------------------------------------
(* The bounds that start the server.                                       *)
LEMMA ListBoundTyped ==
  ASSUME NEW e \in Environments, NEW k \in ListNumbers, NEW fallback \in Int, fallback > 0,
         NEW v, v = GetEnvListBound(e, k, fallback)
  PROVE  v = Malformed \/ (v \in Int /\ (v = -1 \/ v > 0))
<1> DEFINE u == GetEnv(e, k, fallback)
<1>1. u = Malformed \/ u \in Int
  BY PagingAssumption DEF GetEnv, IsSet
<1>2. v = IF u = Malformed \/ (u # -1 /\ u <= 0) THEN Malformed ELSE u
  BY DEF GetEnvListBound
<1> HIDE DEF u
<1> QED BY <1>1, <1>2

LEMMA ListBoundsOK ==
  ASSUME NEW e \in Environments, bounds = ListBounds(e), ~ BoundsRefused(bounds)
  PROVE  BoundsOK
<1> DEFINE F == {"DefaultLimit", "MaxLimit", "MaxOffset", "MaxResponseBytes"}
<1>1. DOMAIN bounds = F /\ \A f \in F : bounds[f] # Malformed
  BY DEF ListBounds, BoundsRefused
<1>2. bounds.MaxLimit # -1 => ~ (bounds.DefaultLimit > bounds.MaxLimit)
  BY DEF BoundsRefused
<1>3. /\ bounds.DefaultLimit = GetEnvListBound(e, "LIST_DEFAULT_LIMIT", 1000)
      /\ bounds.MaxLimit = GetEnvListBound(e, "LIST_MAX_LIMIT", 1000)
      /\ bounds.MaxOffset = GetEnvListBound(e, "LIST_MAX_OFFSET", 100000)
      /\ bounds.MaxResponseBytes = GetEnvListBound(e, "LIST_MAX_RESPONSE_BYTES", 8 * 1024 * 1024)
  BY DEF ListBounds
<1>4. \A k \in ListNumbers : \A fallback \in Int : fallback > 0 =>
        \A v : v = GetEnvListBound(e, k, fallback) => v = Malformed \/ (v \in Int /\ (v = -1 \/ v > 0))
  BY ListBoundTyped
<1>5. 1000 \in Int /\ 1000 > 0 /\ 100000 \in Int /\ 100000 > 0
      /\ 8 * 1024 * 1024 \in Int /\ 8 * 1024 * 1024 > 0
  OBVIOUS
<1>6. ASSUME NEW k, k \in ListNumbers, NEW fallback, fallback \in Int, fallback > 0,
             NEW f \in F, bounds[f] = GetEnvListBound(e, k, fallback)
      PROVE  bounds[f] \in Int /\ (bounds[f] = -1 \/ bounds[f] > 0)
  BY <1>1, <1>4, <1>6
<1>7. \A f \in F : bounds[f] \in Int /\ (bounds[f] = -1 \/ bounds[f] > 0)
  BY <1>3, <1>5, <1>6 DEF ListNumbers
<1> QED BY <1>2, <1>7 DEF BoundsOK

-----------------------------------------------------------------------------
(* What parseListPagination makes of a request.                            *)
LimitOK(limit) ==
  /\ limit \in 1 .. SafeInteger
  /\ bounds.MaxLimit # -1 => limit <= bounds.MaxLimit

LEMMA WholeValues ==
  ASSUME NEW n \in Int
  PROVE  /\ Whole(n) \in Values /\ Whole(n) # None
         /\ Whole(n).n = n /\ Whole(n).whole
<1>1. Whole(n) \in [whole: BOOLEAN, n: Int]
  BY Zenon DEF Whole
<1>2. Whole(n).n = n
  BY DEF Whole
<1>3. Whole(n).whole
  BY Zenon DEF Whole
<1> QED BY <1>1, <1>2, <1>3, NoneIsNothing DEF Values

LEMMA ParsedRequest ==
  ASSUME BoundsOK, NEW req \in [limit: Values, offset: Values, skip: Values],
         NEW pag, pag = ParseListPagination(req), pag # None
  PROVE  pag \in Paginations /\ LimitOK(pag.limit)
<1> DEFINE limit == IF req.limit = None THEN Whole(ConfiguredDefault) ELSE req.limit
           offset == IF req.offset # None THEN req.offset ELSE IF req.skip # None THEN req.skip ELSE Whole(0)
<1>1. SafeInteger \in Nat /\ ConfiguredDefault \in Int
  BY PagingAssumption DEF ConfiguredDefault, BoundsOK
<1>2. limit \in Values /\ limit # None /\ offset \in Values /\ offset # None
  BY <1>1, WholeValues
<1>3. limit.n \in Int /\ offset.n \in Int
  BY <1>2 DEF Values
<1>4. /\ Bounded(limit, 1, bounds.MaxLimit) /\ Bounded(offset, 0, bounds.MaxOffset)
      /\ pag = [limit |-> limit.n, offset |-> offset.n]
  BY DEF ParseListPagination
<1> HIDE DEF limit, offset
<1>5. limit.n <= SafeInteger /\ limit.n >= 1 /\ (bounds.MaxLimit # -1 => limit.n <= bounds.MaxLimit) /\ offset.n >= 0
  BY <1>4 DEF Bounded
<1>6. limit.n \in 1 .. SafeInteger /\ limit.n \in Nat \ {0} /\ offset.n \in Nat
  BY <1>1, <1>3, <1>5
<1> QED BY <1>4, <1>5, <1>6 DEF Paginations, LimitOK

(* A request that goes on where it was told to is refused past the largest *)
(* offset only.                                                            *)
LEMMA ParsedMore ==
  ASSUME BoundsOK, NEW limit, LimitOK(limit), NEW next \in 0 .. N,
         NEW pag, pag = ParseListPagination([limit |-> Whole(limit), offset |-> Whole(next), skip |-> None])
  PROVE  \/ pag = None /\ bounds.MaxOffset # -1 /\ next > bounds.MaxOffset
         \/ pag # None /\ pag \in Paginations /\ pag.limit = limit /\ pag.offset = next
<1>1. /\ SafeInteger \in Nat /\ SafeInteger >= N /\ N \in Nat /\ limit \in Int /\ next \in Int
      /\ bounds.MaxOffset \in Int /\ bounds.MaxLimit \in Int
  BY PagingAssumption DEF LimitOK, BoundsOK
<1>2. /\ Whole(limit) # None /\ Whole(limit).n = limit /\ Whole(limit).whole
      /\ Whole(next) # None /\ Whole(next).n = next /\ Whole(next).whole
  BY <1>1, WholeValues
<1>3. limit <= SafeInteger /\ limit >= - SafeInteger /\ limit >= 1 /\ (bounds.MaxLimit # -1 => limit <= bounds.MaxLimit)
  BY <1>1 DEF LimitOK
<1>4. next <= SafeInteger /\ next >= - SafeInteger /\ next >= 0
  BY <1>1
<1>5. Bounded(Whole(limit), 1, bounds.MaxLimit)
  BY <1>2, <1>3 DEF Bounded
<1>6. Bounded(Whole(next), 0, bounds.MaxOffset) <=> ~ (bounds.MaxOffset # -1 /\ next > bounds.MaxOffset)
  BY <1>1, <1>2, <1>4 DEF Bounded
<1>7. pag = IF ~ Bounded(Whole(next), 0, bounds.MaxOffset) THEN None ELSE [limit |-> limit, offset |-> next]
  BY <1>2, <1>5 DEF ParseListPagination
<1>8. [limit |-> limit, offset |-> next] \in Paginations
  BY <1>1, <1>3, <1>4 DEF Paginations
<1>9. [limit |-> limit, offset |-> next] # None
  BY <1>8, NoneIsNothing
<1> QED BY <1>6, <1>7, <1>8, <1>9

(* A request that names nothing is refused for its default only.           *)
LEMMA ParsedPlainly ==
  ASSUME BoundsOK
  PROVE  \/ bounds.DefaultLimit = -1 /\ bounds.MaxLimit # -1
         \/ bounds.DefaultLimit > SafeInteger
         \/ /\ ParseListPagination(PlainlyAsked) # None
            /\ ParseListPagination(PlainlyAsked).offset = 0
<1> DEFINE limit == ConfiguredDefault
           pag == [limit |-> limit, offset |-> 0]
<1> SUFFICES ASSUME ~ (bounds.DefaultLimit = -1 /\ bounds.MaxLimit # -1), ~ (bounds.DefaultLimit > SafeInteger)
             PROVE  ParseListPagination(PlainlyAsked) = pag /\ pag # None /\ pag.offset = 0
  OBVIOUS
<1>1. /\ SafeInteger \in Nat /\ SafeInteger > 0
      /\ bounds.DefaultLimit \in Int /\ bounds.MaxOffset \in Int /\ bounds.MaxLimit \in Int
      /\ bounds.DefaultLimit = -1 \/ bounds.DefaultLimit > 0
      /\ bounds.MaxOffset = -1 \/ bounds.MaxOffset > 0
      /\ bounds.MaxLimit # -1 => bounds.DefaultLimit <= bounds.MaxLimit
  BY PagingAssumption DEF BoundsOK
<1>2. /\ limit \in Nat \ {0} /\ limit <= SafeInteger /\ limit >= - SafeInteger /\ limit >= 1
      /\ (bounds.MaxLimit # -1 => limit <= bounds.MaxLimit)
  BY <1>1 DEF ConfiguredDefault
<1> HIDE DEF limit
<1>3. /\ Whole(limit).n = limit /\ Whole(limit).whole /\ Whole(0).n = 0 /\ Whole(0).whole
  BY <1>2, WholeValues
<1>4. Bounded(Whole(limit), 1, bounds.MaxLimit) /\ Bounded(Whole(0), 0, bounds.MaxOffset)
  BY <1>1, <1>2, <1>3 DEF Bounded
<1>5. pag # None
  <2>1. pag \in Paginations
    BY <1>2 DEF Paginations
  <2> QED BY <2>1, NoneIsNothing
<1>6. ParseListPagination(PlainlyAsked) = pag
  BY <1>3, <1>4 DEF ParseListPagination, PlainlyAsked, limit
<1> QED BY <1>5, <1>6

-----------------------------------------------------------------------------
(* The inductive invariant: the bounds are ones that start the server,     *)
(* what is stored was sent, and a walk that is under way and not shifted   *)
(* has shown everything it owes that ranks below the place it goes on      *)
(* from, which lies past the place it came from.                           *)
WalkStates ==
  [at: {"idle", "more", "done", "refused"}, asked: Requests \cup {None}, limit: Nat,
   from: Nat, next: Nat, due: SUBSET Msgs, seen: SUBSET Msgs, shifted: BOOLEAN]

WalkOK(w, b) ==
  /\ w.at = "idle" => w.next = 0
  /\ w.at = "more" => LimitOK(w.limit) /\ w.next > w.from /\ w.next <= N
  /\ w.due \subseteq StoredIn(b)
  /\ w.at = "more" /\ ~ w.shifted => \A m \in w.due \ w.seen : RankIn(b, m) >= w.next
  /\ w.at = "done" /\ ~ w.shifted => w.due \subseteq w.seen

PagingInv ==
  /\ BoundsOK
  /\ box \in Boxes
  /\ StoredIn(box) \subseteq sent /\ sent \subseteq Msgs
  /\ clock \in 1 .. MaxTime
  /\ walk \in [Walkers -> WalkStates]
  /\ \A c \in Walkers : WalkOK(walk[c], box)

LEMMA InitPaging == Init => PagingInv
<1> SUFFICES ASSUME Init
             PROVE  PagingInv
  OBVIOUS
<1>1. BoundsOK
  BY ListBoundsOK DEF Init
<1>2. box \in Boxes /\ StoredIn(box) = {}
  BY DEF Init, Boxes, StoredIn
<1>3. clock \in 1 .. MaxTime /\ sent = {}
  BY PagingAssumption DEF Init
<1>4. IdleWalk \in WalkStates /\ WalkOK(IdleWalk, box)
  BY DEF IdleWalk, WalkStates, WalkOK
<1>5. walk \in [Walkers -> WalkStates] /\ \A c \in Walkers : WalkOK(walk[c], box)
  BY <1>4 DEF Init
<1> QED BY <1>1, <1>2, <1>3, <1>5 DEF PagingInv

(* The bounds never change.                                                *)
LEMMA BoundsKept ==
  ASSUME UNCHANGED bounds
  PROVE  (BoundsOK <=> BoundsOK') /\ \A n : LimitOK(n) <=> LimitOK(n)'
BY DEF BoundsOK, LimitOK

LEMMA InsertInv ==
  ASSUME PagingInv, NEW m \in Msgs, InsertMessage(m)
  PROVE  PagingInv'
<1>1. m \notin StoredIn(box) /\ box \in Boxes
  BY DEF PagingInv, InsertMessage
<1>2. PICK at \in (clock - MaxLag) .. clock : box' = [box EXCEPT ![m] = at]
  BY DEF InsertMessage
<1>3. at \in Int
  BY <1>2, PagingAssumption DEF PagingInv
<1>4. box' \in Boxes /\ \A x \in StoredIn(box) : box'[x] = box[x]
  BY <1>1, <1>2, <1>3 DEF Boxes, StoredIn
<1>5. StoredIn(box') \subseteq StoredIn(box) \cup {m} /\ StoredIn(box) \subseteq StoredIn(box')
  BY <1>1, <1>2, <1>4 DEF Boxes, StoredIn
<1>6. \A x \in StoredIn(box) : RankIn(box', x) >= RankIn(box, x) /\ RankIn(box', x) \in Nat /\ RankIn(box, x) \in Nat
  BY <1>1, <1>4, <1>5, InsertedRanks, RankTyped
<1>7. UNCHANGED <<bounds, clock, walk>> /\ sent' = sent \cup {m}
  BY DEF InsertMessage
<1>8. ASSUME NEW c \in Walkers
      PROVE  WalkOK(walk[c], box)'
  <2> DEFINE w == walk[c]
  <2>1. WalkOK(w, box) /\ w \in WalkStates
    BY DEF PagingInv
  <2>2. w.next \in Nat
    BY <2>1 DEF WalkStates
  <2>3. w.at = "more" /\ ~ w.shifted => \A x \in w.due \ w.seen : RankIn(box', x) >= w.next
    BY <1>6, <2>1, <2>2 DEF WalkOK
  <2>4. walk'[c] = walk[c] /\ \A n : LimitOK(n) <=> LimitOK(n)'
    BY <1>7, BoundsKept
  <2> QED BY <1>5, <2>1, <2>3, <2>4 DEF WalkOK
<1>9. BoundsOK'
  BY <1>7, BoundsKept DEF PagingInv
<1> QED BY <1>4, <1>5, <1>7, <1>8, <1>9 DEF PagingInv

LEMMA AcknowledgeInv ==
  ASSUME PagingInv, NEW S \in SUBSET Msgs, AcknowledgeMessage(S)
  PROVE  PagingInv'
<1>1. box \in Boxes /\ S \subseteq StoredIn(box)
  BY RanksOfBox DEF PagingInv, AcknowledgeMessage
<1>2. box' = [m \in Msgs |-> IF m \in S THEN None ELSE box[m]]
  BY DEF AcknowledgeMessage
<1>3. box' \in Boxes /\ StoredIn(box') = StoredIn(box) \ S /\ \A m \in Msgs \ S : box'[m] = box[m]
  BY <1>1, <1>2 DEF Boxes, StoredIn
<1>4. UNCHANGED <<bounds, clock, sent>>
  BY DEF AcknowledgeMessage
<1>5. ASSUME NEW c \in Walkers
      PROVE  walk'[c] \in WalkStates /\ WalkOK(walk[c], box)'
  <2> DEFINE w == walk[c]
             shifted == w.shifted \/ \E m \in S : Rank(m) < w.next
  <2>1. WalkOK(w, box) /\ w \in WalkStates /\ w.next \in Nat
    BY DEF PagingInv, WalkStates
  <2>2. walk'[c] = [w EXCEPT !.shifted = shifted, !.due = w.due \ S]
    BY DEF AcknowledgeMessage
  <2>3. shifted \in BOOLEAN /\ w.due \ S \in SUBSET Msgs
    BY <2>1, Zenon DEF WalkStates
  <2>4. shifted = FALSE => ~ w.shifted /\ \A m \in S : ~ (RankIn(box, m) < w.next)
    BY RanksOfBox
  <2> HIDE DEF shifted, w
  <2>5. /\ walk'[c] \in WalkStates
        /\ walk'[c].at = w.at /\ walk'[c].limit = w.limit /\ walk'[c].from = w.from
        /\ walk'[c].next = w.next /\ walk'[c].seen = w.seen
        /\ walk'[c].due = w.due \ S /\ walk'[c].shifted = shifted
    BY <2>1, <2>2, <2>3 DEF WalkStates
  <2>6. ASSUME w.at = "more", ~ shifted, NEW m \in (w.due \ S) \ w.seen
        PROVE  RankIn(box', m) >= w.next
    <3>1. m \in StoredIn(box) /\ m \in Msgs \ S /\ RankIn(box, m) >= w.next
      BY <2>1, <2>3, <2>4, <2>6 DEF WalkOK, StoredIn
    <3>2. ASSUME NEW x \in StoredIn(box), RankIn(box, x) < w.next
          PROVE  box'[x] = box[x]
      BY <1>3, <2>3, <2>4, <2>6, <3>2 DEF StoredIn
    <3> QED BY <1>1, <1>3, <2>1, <3>1, <3>2, RemovedRanks
  <2>7. ~ shifted => ~ w.shifted
    BY <2>3, <2>4
  <2>8. \A n : LimitOK(n) <=> LimitOK(n)'
    BY <1>4, BoundsKept
  <2> QED BY <1>3, <2>1, <2>5, <2>6, <2>7, <2>8 DEF WalkOK
<1>6. walk' \in [Walkers -> WalkStates]
  <2>1. walk' = [c \in Walkers |-> walk'[c]]
    BY DEF AcknowledgeMessage
  <2> QED BY <1>5, <2>1
<1>7. BoundsOK'
  BY <1>4, BoundsKept DEF PagingInv
<1>8. StoredIn(box') \subseteq sent' /\ sent' \subseteq Msgs /\ clock' \in 1 .. MaxTime
  BY <1>3, <1>4 DEF PagingInv
<1> QED BY <1>3, <1>5, <1>6, <1>7, <1>8 DEF PagingInv

-----------------------------------------------------------------------------
(* A step of one walk alone.                                               *)
LEMMA WalkStep ==
  ASSUME PagingInv, UNCHANGED <<bounds, box, sent, clock>>, NEW c \in Walkers, NEW w,
         walk' = [walk EXCEPT ![c] = w], w \in WalkStates, WalkOK(w, box)
  PROVE  PagingInv'
<1>1. walk' \in [Walkers -> WalkStates]
  BY DEF PagingInv
<1>2. \A d \in Walkers : WalkOK(walk'[d], box)
  BY DEF PagingInv
<1>3. BoundsOK' /\ \A n : LimitOK(n) <=> LimitOK(n)'
  BY BoundsKept DEF PagingInv
<1>4. \A d \in Walkers : WalkOK(walk[d], box)'
  BY <1>2, <1>3 DEF WalkOK
<1> QED BY <1>1, <1>3, <1>4 DEF PagingInv

(* A page is shown to a walk that has shown what it owes below its place.  *)
LEMMA ShowInv ==
  ASSUME PagingInv, NEW c \in Walkers, NEW w \in WalkStates, NEW pag \in Paginations, LimitOK(pag.limit),
         w.due \subseteq StoredIn(box),
         ~ w.shifted => \A m \in w.due \ w.seen : RankIn(box, m) >= pag.offset,
         Show(c, w, pag)
  PROVE  PagingInv'
<1> DEFINE page == ReadMessagePage(pag)
           refused == [w EXCEPT !.at = "refused"]
           at == IF page.hasMore THEN "more" ELSE "done"
           shown == [w EXCEPT !.at = at, !.limit = pag.limit, !.from = pag.offset, !.next = page.nextOffset,
                              !.seen = w.seen \cup Range(page.messages)]
<1>1. box \in Boxes /\ BoundsOK /\ N \in Nat
  BY PagingAssumption DEF PagingInv
<1>2. UNCHANGED <<bounds, box, sent, clock>> /\ walk' = [walk EXCEPT ![c] = IF page = None THEN refused ELSE shown]
  BY DEF Show
<1>3. CASE page = None
  <2>1. refused \in WalkStates /\ WalkOK(refused, box)
    BY DEF WalkStates, WalkOK
  <2> HIDE DEF refused, page
  <2> QED BY <1>2, <1>3, <2>1, WalkStep
<1>4. CASE page # None
  <2>1. /\ page \in Pages /\ Range(page.messages) \subseteq Msgs
        /\ \A m \in Stored : pag.offset <= Rank(m) /\ Rank(m) < page.nextOffset => m \in Range(page.messages)
        /\ page.hasMore => pag.offset < page.nextOffset /\ page.nextOffset <= N
        /\ ~ page.hasMore => \A m \in Stored : Rank(m) < page.nextOffset \/ Rank(m) < pag.offset
    <3> HIDE DEF page
    <3> QED BY <1>1, <1>4, PageRead DEF page
  <2> HIDE DEF page
  <2>2. page.nextOffset \in Nat /\ page.hasMore \in BOOLEAN /\ pag.offset \in Nat /\ pag.limit \in Nat
    BY <2>1 DEF Pages, Paginations
  <2>3. \A m \in StoredIn(box) : RankIn(box, m) \in Nat
    BY <1>1, RankTyped
  <2>4. /\ shown \in WalkStates /\ shown.at = at /\ shown.limit = pag.limit
        /\ shown.from = pag.offset /\ shown.next = page.nextOffset
        /\ shown.due = w.due /\ shown.shifted = w.shifted /\ shown.seen = w.seen \cup Range(page.messages)
    BY <2>1, <2>2 DEF WalkStates
  <2> HIDE DEF shown
  <2>5. ASSUME ~ w.shifted, NEW m \in w.due \ shown.seen
        PROVE  page.hasMore /\ RankIn(box, m) >= page.nextOffset
    <3>1. m \in StoredIn(box) /\ RankIn(box, m) >= pag.offset /\ m \notin Range(page.messages) /\ RankIn(box, m) \in Nat
      BY <2>3, <2>4, <2>5
    <3>2. m \in Stored /\ Rank(m) = RankIn(box, m)
      BY <3>1, RanksOfBox
    <3>3. ~ (RankIn(box, m) < page.nextOffset)
      BY <2>1, <2>2, <3>1, <3>2
    <3>4. page.hasMore
      BY <2>1, <2>2, <3>1, <3>2, <3>3
    <3> QED BY <2>2, <3>1, <3>3, <3>4
  <2>6. WalkOK(shown, box)
    <3>1. at \in {"more", "done"} /\ (at = "more" <=> page.hasMore)
      BY <2>2
    <3>2. at = "more" => shown.next > shown.from
      BY <2>1, <2>2, <2>4, <3>1
    <3> HIDE DEF at
    <3> QED BY <2>1, <2>4, <2>5, <3>1, <3>2 DEF WalkOK
  <2> QED BY <1>2, <1>4, <2>4, <2>6, WalkStep
<1> QED BY <1>3, <1>4

LEMMA ListMessagesInv ==
  ASSUME PagingInv, NEW c \in Walkers, ListMessages(c)
  PROVE  PagingInv'
<1>1. PICK req \in Requests :
        LET pag == ParseListPagination(req) IN
        \/ /\ pag = None
           /\ walk' = [walk EXCEPT ![c].at = "refused", ![c].asked = req]
           /\ UNCHANGED <<bounds, box, sent, clock>>
        \/ /\ pag # None
           /\ Show(c, [IdleWalk EXCEPT !.asked = req, !.due = {m \in Stored : Rank(m) >= pag.offset}], pag)
  BY DEF ListMessages
<1> DEFINE pag == ParseListPagination(req)
           refused == [walk[c] EXCEPT !.at = "refused", !.asked = req]
           due == {m \in Stored : Rank(m) >= pag.offset}
           w == [IdleWalk EXCEPT !.asked = req, !.due = due]
<1>2. BoundsOK /\ req \in [limit: Values, offset: Values, skip: Values]
  BY PagingAssumption DEF PagingInv
<1>3. CASE pag = None
  <2>1. walk[c] \in WalkStates /\ WalkOK(walk[c], box)
    BY DEF PagingInv
  <2>2. refused \in WalkStates /\ WalkOK(refused, box)
    BY <2>1 DEF WalkStates, WalkOK
  <2>3. walk' = [walk EXCEPT ![c] = refused] /\ UNCHANGED <<bounds, box, sent, clock>>
    BY <1>1, <1>3
  <2> HIDE DEF refused
  <2> QED BY <2>2, <2>3, WalkStep
<1>4. CASE pag # None
  <2>1. Show(c, w, pag)
    BY <1>1, <1>4
  <2>2. pag \in Paginations /\ LimitOK(pag.limit)
    <3> HIDE DEF pag
    <3> QED BY <1>2, <1>4, ParsedRequest DEF pag
  <2> HIDE DEF pag
  <2>3. due \subseteq StoredIn(box) /\ due \in SUBSET Msgs /\ \A m \in due : RankIn(box, m) >= pag.offset
    BY RanksOfBox DEF StoredIn
  <2> HIDE DEF due
  <2>4. w \in WalkStates /\ w.due = due /\ w.seen = {}
    BY <2>3 DEF WalkStates, IdleWalk
  <2> HIDE DEF w
  <2> QED BY <2>1, <2>2, <2>3, <2>4, ShowInv
<1> QED BY <1>3, <1>4

LEMMA ListMoreInv ==
  ASSUME PagingInv, NEW c \in Walkers, ListMore(c)
  PROVE  PagingInv'
<1> DEFINE w == walk[c]
           pag == ParseListPagination([limit |-> Whole(w.limit), offset |-> Whole(w.next), skip |-> None])
           refused == [w EXCEPT !.at = "refused"]
<1>1. w \in WalkStates /\ WalkOK(w, box) /\ w.at = "more" /\ BoundsOK
  BY DEF PagingInv, ListMore
<1>2. LimitOK(w.limit) /\ w.next \in 0 .. N
  <2>1. w.next \in Nat /\ w.next <= N /\ N \in Nat
    BY <1>1, PagingAssumption DEF WalkOK, WalkStates
  <2> QED BY <1>1, <2>1 DEF WalkOK
<1>3. \/ pag = None
      \/ pag \in Paginations /\ pag.limit = w.limit /\ pag.offset = w.next
  <2> HIDE DEF pag, w
  <2> QED BY <1>1, <1>2, ParsedMore DEF pag
<1>4. CASE pag = None
  <2>1. refused \in WalkStates /\ WalkOK(refused, box)
    BY <1>1 DEF WalkStates, WalkOK
  <2>2. walk' = [walk EXCEPT ![c] = refused] /\ UNCHANGED <<bounds, box, sent, clock>>
    BY <1>4 DEF ListMore
  <2> HIDE DEF refused, w, pag
  <2> QED BY <2>1, <2>2, WalkStep
<1>5. CASE pag # None
  <2>1. Show(c, w, pag)
    BY <1>5 DEF ListMore
  <2> HIDE DEF pag, w
  <2>2. w.due \subseteq StoredIn(box) /\ (~ w.shifted => \A m \in w.due \ w.seen : RankIn(box, m) >= w.next)
    BY <1>1 DEF WalkOK
  <2> QED BY <1>1, <1>2, <1>3, <1>5, <2>1, <2>2, ShowInv
<1> QED BY <1>4, <1>5

LEMMA WalkEndsInv ==
  ASSUME PagingInv, NEW c \in Walkers, WalkEnds(c)
  PROVE  PagingInv'
<1>1. IdleWalk \in WalkStates /\ WalkOK(IdleWalk, box)
  BY DEF IdleWalk, WalkStates, WalkOK
<1> QED BY <1>1, WalkStep DEF WalkEnds

LEMMA StutterPaging ==
  ASSUME PagingInv, UNCHANGED <<bounds, box, sent, walk>>, clock' \in 1 .. MaxTime
  PROVE  PagingInv'
<1>1. BoundsOK' /\ \A n : LimitOK(n) <=> LimitOK(n)'
  BY BoundsKept DEF PagingInv
<1>2. \A d \in Walkers : WalkOK(walk[d], box)'
  BY <1>1 DEF PagingInv, WalkOK
<1> QED BY <1>1, <1>2 DEF PagingInv

LEMMA NextPaging == PagingInv /\ [Next]_vars => PagingInv'
<1> SUFFICES ASSUME PagingInv, [Next]_vars
             PROVE  PagingInv'
  OBVIOUS
<1>1. CASE Tick
  <2>1. clock' \in 1 .. MaxTime
    BY <1>1, PagingAssumption DEF Tick, PagingInv
  <2> QED BY <1>1, <2>1, StutterPaging DEF Tick
<1>2. CASE \E m \in Msgs : InsertMessage(m)
  BY <1>2, InsertInv
<1>3. CASE \E S \in SUBSET Msgs : AcknowledgeMessage(S)
  BY <1>3, AcknowledgeInv
<1>4. CASE \E c \in Walkers : ListMessages(c) \/ ListMore(c) \/ WalkEnds(c)
  BY <1>4, ListMessagesInv, ListMoreInv, WalkEndsInv
<1>5. CASE UNCHANGED vars
  BY <1>5, StutterPaging DEF vars, PagingInv
<1> QED BY <1>1, <1>2, <1>3, <1>4, <1>5 DEF Next

(* Every reachable state of the listing: the bounds in force are ones that *)
(* config.Load lets through, only messages that were sent are stored, a    *)
(* client that was told to go on has a limit that will be accepted again   *)
(* and an offset within the box that once was, and has been shown all it   *)
(* is owed before that offset, unless something behind it was acknowledged. *)
THEOREM PagingInvariant == Spec => []PagingInv
BY InitPaging, NextPaging, PTL DEF Spec

(* Following nextOffset through readMessagePage shows every message that   *)
(* was there at the start and still is: for any sizes and byte budget, any *)
(* number of clients, and messages arriving under any timestamp.           *)
THEOREM WalksShowAll == Spec => []WalkShowsAll
<1>1. PagingInv => WalkShowsAll
  BY DEF PagingInv, WalkOK, WalkShowsAll
<1> QED BY <1>1, PagingInvariant, PTL

(* Every page that tells a client to go on has moved it on: nextOffset is  *)
(* larger than the offset the page was read at, whatever the budget cuts,  *)
(* for a first page at any offset and for every later one.                 *)
THEOREM WalksMoveOn == Spec => []WalkMovesOn
<1>1. PagingInv => WalkMovesOn
  BY DEF PagingInv, WalkOK, WalkMovesOn
<1> QED BY <1>1, PagingInvariant, PTL

(* fallbackPageMessages and the stores' pagers give the same page of every *)
(* box that can come about, for every offset and limit around its end and  *)
(* for one message asked for by id.                                        *)
THEOREM PagersAlwaysAgree == Spec => []PagersAgree
<1>1. PagingInv => PagersAgree
  <2> SUFFICES ASSUME box \in Boxes
               PROVE  PagersAgree
    BY DEF PagingInv
  <2>1. StoredInOrder \in Seq(Msgs)
    BY OrderedByRank
  <2>2. 0 .. (Len(StoredInOrder) + 1) \subseteq Nat
    BY <2>1
  <2>3. \A offset \in Nat, fetchLimit \in Nat : \A only :
          FallbackPageMessages(StoredInOrder, offset, fetchLimit, only)
            = PageMessages(StoredInOrder, offset, fetchLimit, only)
    BY <2>1, FallbackAgrees
  <2> QED BY <2>2, <2>3 DEF PagersAgree
<1> QED BY <1>1, PagingInvariant, PTL

-----------------------------------------------------------------------------
(* A first row too large for any page.                                     *)
TooLargeAt(offset) ==
  /\ bounds.MaxResponseBytes # -1
  /\ \E m \in Stored : Rank(m) = offset /\ Overhead + Size[m] > bounds.MaxResponseBytes

(* What the client makes of the page it is shown.                          *)
LEMMA ShownWalk ==
  ASSUME PagingInv, NEW c \in Walkers, NEW w \in WalkStates, NEW pag \in Paginations, Show(c, w, pag)
  PROVE  /\ \A d \in Walkers \ {c} : walk'[d] = walk[d]
         /\ walk'[c].asked = w.asked
         /\ walk'[c].at = "refused" => TooLargeAt(pag.offset)
<1> DEFINE page == ReadMessagePage(pag)
           refused == [w EXCEPT !.at = "refused"]
           at == IF page.hasMore THEN "more" ELSE "done"
           shown == [w EXCEPT !.at = at, !.limit = pag.limit, !.from = pag.offset, !.next = page.nextOffset,
                              !.seen = w.seen \cup Range(page.messages)]
<1>1. walk' = [walk EXCEPT ![c] = IF page = None THEN refused ELSE shown]
  BY DEF Show
<1>2. box \in Boxes /\ BoundsOK /\ walk \in [Walkers -> WalkStates]
  BY DEF PagingInv
<1>3. \/ page = None /\ TooLargeAt(pag.offset)
      \/ page \in Pages
  <2> HIDE DEF page
  <2> QED BY <1>2, PageRead DEF page, TooLargeAt
<1> HIDE DEF page
<1>4. /\ refused.at = "refused" /\ refused.asked = w.asked
      /\ shown.at = at /\ shown.asked = w.asked
  BY DEF WalkStates
<1>5. page \in Pages => page # None
  BY NoneIsNothing
<1>6. walk'[c] = (IF page = None THEN refused ELSE shown) /\ \A d \in Walkers \ {c} : walk'[d] = walk[d]
  BY <1>1, <1>2
<1> HIDE DEF refused, shown
<1> QED BY <1>3, <1>4, <1>5, <1>6

(* What a step may do to one walk.                                         *)
LEMMA ListedStep ==
  ASSUME PagingInv, NEW c \in Walkers, ListMessages(c)
  PROVE  /\ \A d \in Walkers \ {c} : walk'[d] = walk[d]
         /\ walk[c].at = "idle" /\ walk[c].next = 0
         /\ walk'[c].at = "refused" /\ walk'[c].asked = PlainlyAsked =>
              \/ TooLargeAt(0)
              \/ bounds.DefaultLimit = -1 /\ bounds.MaxLimit # -1
              \/ bounds.DefaultLimit > SafeInteger
<1>1. PICK req \in Requests :
        LET pag == ParseListPagination(req) IN
        \/ /\ pag = None
           /\ walk' = [walk EXCEPT ![c].at = "refused", ![c].asked = req]
           /\ UNCHANGED <<bounds, box, sent, clock>>
        \/ /\ pag # None
           /\ Show(c, [IdleWalk EXCEPT !.asked = req, !.due = {m \in Stored : Rank(m) >= pag.offset}], pag)
  BY DEF ListMessages
<1> DEFINE pag == ParseListPagination(req)
           refused == [walk[c] EXCEPT !.at = "refused", !.asked = req]
           due == {m \in Stored : Rank(m) >= pag.offset}
           w == [IdleWalk EXCEPT !.asked = req, !.due = due]
<1>2. BoundsOK /\ req \in [limit: Values, offset: Values, skip: Values] /\ walk \in [Walkers -> WalkStates]
  BY PagingAssumption DEF PagingInv
<1>3. walk[c].at = "idle" /\ walk[c].next = 0
  BY DEF PagingInv, WalkOK, ListMessages
<1>4. CASE pag = None
  <2>1. walk' = [walk EXCEPT ![c] = refused]
    BY <1>1, <1>4
  <2>2. refused.at = "refused" /\ refused.asked = req
    BY <1>2 DEF WalkStates
  <2> HIDE DEF refused
  <2>3. walk'[c] = refused /\ \A d \in Walkers \ {c} : walk'[d] = walk[d]
    BY <1>2, <2>1
  <2>4. req = PlainlyAsked => \/ bounds.DefaultLimit = -1 /\ bounds.MaxLimit # -1
                              \/ bounds.DefaultLimit > SafeInteger
    BY <1>2, <1>4, ParsedPlainly
  <2> QED BY <1>3, <2>2, <2>3, <2>4
<1>5. CASE pag # None
  <2>1. Show(c, w, pag)
    BY <1>1, <1>5
  <2>2. pag \in Paginations
    <3> HIDE DEF pag
    <3> QED BY <1>2, <1>5, ParsedRequest DEF pag
  <2>3. req = PlainlyAsked => \/ bounds.DefaultLimit = -1 /\ bounds.MaxLimit # -1
                              \/ bounds.DefaultLimit > SafeInteger
                              \/ pag.offset = 0
    BY <1>2, ParsedPlainly
  <2> HIDE DEF pag
  <2>4. due \in SUBSET Msgs
    BY DEF Stored
  <2> HIDE DEF due
  <2>5. w \in WalkStates /\ w.asked = req
    BY <2>4 DEF WalkStates, IdleWalk
  <2> HIDE DEF w
  <2>6. /\ \A d \in Walkers \ {c} : walk'[d] = walk[d]
        /\ walk'[c].asked = req
        /\ walk'[c].at = "refused" => TooLargeAt(pag.offset)
    BY <2>1, <2>2, <2>5, ShownWalk
  <2> QED BY <1>3, <2>3, <2>6
<1> QED BY <1>4, <1>5

LEMMA MoreStep ==
  ASSUME PagingInv, NEW c \in Walkers, ListMore(c)
  PROVE  /\ \A d \in Walkers \ {c} : walk'[d] = walk[d]
         /\ walk[c].at = "more"
         /\ walk'[c].at = "refused" =>
              \/ bounds.MaxOffset # -1 /\ walk[c].next > bounds.MaxOffset
              \/ TooLargeAt(walk[c].next)
<1> DEFINE w == walk[c]
           pag == ParseListPagination([limit |-> Whole(w.limit), offset |-> Whole(w.next), skip |-> None])
           refused == [w EXCEPT !.at = "refused"]
<1>1. w \in WalkStates /\ WalkOK(w, box) /\ w.at = "more" /\ BoundsOK /\ walk \in [Walkers -> WalkStates]
  BY DEF PagingInv, ListMore
<1>2. LimitOK(w.limit) /\ w.next \in 0 .. N
  <2>1. w.next \in Nat /\ w.next <= N /\ N \in Nat
    BY <1>1, PagingAssumption DEF WalkOK, WalkStates
  <2> QED BY <1>1, <2>1 DEF WalkOK
<1>3. \/ pag = None /\ bounds.MaxOffset # -1 /\ w.next > bounds.MaxOffset
      \/ pag \in Paginations /\ pag # None /\ pag.offset = w.next
  <2> HIDE DEF pag, w
  <2> QED BY <1>1, <1>2, ParsedMore DEF pag
<1>4. CASE pag = None
  <2>1. walk' = [walk EXCEPT ![c] = refused]
    BY <1>4 DEF ListMore
  <2>2. walk'[c].at = "refused" /\ \A d \in Walkers \ {c} : walk'[d] = walk[d]
    BY <1>1, <2>1 DEF WalkStates
  <2> HIDE DEF pag
  <2> QED BY <1>1, <1>3, <1>4, <2>2
<1>5. CASE pag # None
  <2>1. Show(c, w, pag)
    BY <1>5 DEF ListMore
  <2> HIDE DEF pag, w
  <2>2. /\ \A d \in Walkers \ {c} : walk'[d] = walk[d]
        /\ walk'[c].at = "refused" => TooLargeAt(pag.offset)
    BY <1>1, <1>3, <1>5, <2>1, ShownWalk
  <2> QED BY <1>1, <1>3, <1>5, <2>2 DEF w
<1> QED BY <1>4, <1>5

(* A client that names nothing, or follows nextOffset, is refused past the *)
(* largest offset, for a message no page can hold, or for the default that *)
(* config.Load let through, and for no other reason: for every environment *)
(* that starts the server.                                                 *)
THEOREM RefusalsAtBoundsOnly == Spec => RefusedAtBoundsOnly
<1> DEFINE Explained(first, from) ==
      \/ bounds.MaxOffset # -1 /\ from > bounds.MaxOffset
      \/ /\ bounds.MaxResponseBytes # -1
         /\ \E m \in Stored : Rank(m) = from /\ Overhead + Size[m] > bounds.MaxResponseBytes
      \/ first /\ bounds.DefaultLimit = -1 /\ bounds.MaxLimit # -1
      \/ first /\ bounds.DefaultLimit > SafeInteger
<1>1. PagingInv /\ [Next]_vars =>
        [\A c \in Walkers :
           LET first == walk[c].at = "idle"
               from == walk[c].next
           IN walk'[c].at = "refused" /\ (IF first THEN walk'[c].asked = PlainlyAsked ELSE walk[c].at = "more") =>
                \/ bounds.MaxOffset # -1 /\ from > bounds.MaxOffset
                \/ /\ bounds.MaxResponseBytes # -1
                   /\ \E m \in Stored : Rank(m) = from /\ Overhead + Size[m] > bounds.MaxResponseBytes
                \/ first /\ bounds.DefaultLimit = -1 /\ bounds.MaxLimit # -1
                \/ first /\ bounds.DefaultLimit > SafeInteger]_vars
  <2> SUFFICES ASSUME PagingInv, Next, NEW c \in Walkers, walk'[c].at = "refused",
                      IF walk[c].at = "idle" THEN walk'[c].asked = PlainlyAsked ELSE walk[c].at = "more"
               PROVE  Explained(walk[c].at = "idle", walk[c].next)
    BY DEF vars
  <2>1. walk'[c].at # walk[c].at /\ walk'[c] # walk[c]
    OBVIOUS
  <2>2. CASE Tick \/ \E m \in Msgs : InsertMessage(m)
    BY <2>1, <2>2 DEF Tick, InsertMessage
  <2>3. ASSUME NEW S \in SUBSET Msgs, AcknowledgeMessage(S)
        PROVE  FALSE
    <3>1. walk[c] \in WalkStates
      BY DEF PagingInv
    <3>2. walk'[c].at = walk[c].at
      BY <2>3, <3>1 DEF AcknowledgeMessage, WalkStates
    <3> QED BY <2>1, <3>2
  <2>4. ASSUME NEW d \in Walkers, ListMessages(d)
        PROVE  Explained(walk[c].at = "idle", walk[c].next)
    <3>1. /\ \A x \in Walkers \ {d} : walk'[x] = walk[x]
          /\ walk[d].at = "idle" /\ walk[d].next = 0
          /\ walk'[d].at = "refused" /\ walk'[d].asked = PlainlyAsked =>
               \/ TooLargeAt(0)
               \/ bounds.DefaultLimit = -1 /\ bounds.MaxLimit # -1
               \/ bounds.DefaultLimit > SafeInteger
      BY <2>4, ListedStep
    <3>2. c = d
      BY <2>1, <3>1
    <3> QED BY <3>1, <3>2 DEF TooLargeAt
  <2>5. ASSUME NEW d \in Walkers, ListMore(d)
        PROVE  Explained(walk[c].at = "idle", walk[c].next)
    <3>1. /\ \A x \in Walkers \ {d} : walk'[x] = walk[x]
          /\ walk'[d].at = "refused" =>
               \/ bounds.MaxOffset # -1 /\ walk[d].next > bounds.MaxOffset
               \/ TooLargeAt(walk[d].next)
      BY <2>5, MoreStep
    <3>2. c = d
      BY <2>1, <3>1
    <3> QED BY <3>1, <3>2 DEF TooLargeAt
  <2>6. ASSUME NEW d \in Walkers, WalkEnds(d)
        PROVE  FALSE
    <3>1. walk' = [walk EXCEPT ![d] = IdleWalk] /\ IdleWalk.at = "idle" /\ walk \in [Walkers -> WalkStates]
      BY <2>6 DEF WalkEnds, IdleWalk, PagingInv
    <3> QED BY <2>1, <3>1
  <2> QED BY <2>2, <2>3, <2>4, <2>5, <2>6 DEF Next
<1> QED BY <1>1, PagingInvariant, PTL DEF Spec, RefusedAtBoundsOnly
=============================================================================
