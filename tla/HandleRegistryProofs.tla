------------------------- MODULE HandleRegistryProofs -------------------------
(***************************************************************************)
(* Proofs about HandleRegistry, for every set of requests, handles, keys   *)
(* and fold tables and every cooldown, skew and clock bound.               *)
(*                                                                         *)
(* Every change of the collection is the write of one request, MayApply,   *)
(* whether its reply reaches the caller or not.  So what the collection    *)
(* keeps is proved once per kind of write, and what a request carries once *)
(* per step of a request.  What it answers, in the second half, is proved  *)
(* from the observers of what an atomic registry would have said.          *)
(***************************************************************************)
EXTENDS HandleRegistry, TLAPS

(* What a request in the middle of a claim or a release carries: Parse has *)
(* checked the certificate, and the clock was read before now.             *)
Carries(call, in) ==
  /\ call # "idle" => /\ in \in Inputs
                      /\ in.now <= clock
                      /\ in.kind # "revoke" => /\ in.cert \in Certificates
                                               /\ in.cert.handle = in.handle
  /\ call \in ClaimCalls => /\ in.kind = "claim"
                            /\ in.skeleton \in Skeletons
                            /\ \E fold \in Folds : in.skeleton = fold[in.handle]
                            /\ in.cert.released = FALSE
  /\ call \in ReleaseCalls => in.kind # "claim"

RequestsCarry == \A r \in Requests : Carries(pc[r], input[r])

(* A handle without a document has never been dated, held or folded.       *)
AbsentRows == \A h \in Handles : ~ Exists(rows[h]) => rows[h] = NoRow

(* What the unique indexes leave: no two documents share a skeleton,       *)
(* released ones included, and no key holds two handles.                   *)
Unique ==
  \A g, h \in Handles : g # h =>
    /\ Exists(rows[g]) /\ Exists(rows[h]) => rows[g].skeleton # rows[h].skeleton
    /\ Active(rows[g]) /\ Active(rows[h]) => rows[g].identityKey # rows[h].identityKey

Inv == TypeOK /\ RequestsCarry /\ AbsentRows /\ Unique /\ CertificateMatchesRow

-----------------------------------------------------------------------------
(* The collection changes only by the write of a request.                  *)
LEMMA OnlyWrites ==
  ASSUME Next
  PROVE  UNCHANGED rows \/ \E r \in Requests : MayApply(r)
<1>1. CASE Tick
  BY <1>1 DEF Tick
<1>2. ASSUME NEW r \in Requests, PutHandle(r) \/ AdminReleaseHandle(r)
      PROVE  UNCHANGED rows
  BY <1>2 DEF PutHandle, AdminReleaseHandle, Arrive
<1>3. ASSUME NEW r \in Requests, ClaimStep(r)
      PROVE  UNCHANGED rows \/ MayApply(r)
  <2>1. CASE OwnerUpdate(r)
    BY <2>1 DEF OwnerUpdate, MayApply, Goto
  <2>2. CASE Reclaim(r)
    BY <2>2 DEF Reclaim, MayApply, Goto
  <2>3. CASE Insert(r)
    BY <2>3 DEF Insert, MayApply, Goto
  <2>4. CASE DiagnoseHandle(r)
    BY <2>4 DEF DiagnoseHandle, Goto
  <2>5. CASE DiagnoseKey(r)
    BY <2>5 DEF DiagnoseKey, Goto
  <2>6. CASE DiagnoseSkeleton(r)
    BY <2>6 DEF DiagnoseSkeleton, RetryOnce
  <2> QED BY <1>3, <2>1, <2>2, <2>3, <2>4, <2>5, <2>6 DEF ClaimStep
<1>4. ASSUME NEW r \in Requests, ReleaseStep(r)
      PROVE  UNCHANGED rows \/ MayApply(r)
  BY <1>4 DEF ReleaseStep, ReleaseHandle, DiagnoseRelease, MayApply, Goto
<1>5. ASSUME NEW r \in Requests, StoreFails(r)
      PROVE  UNCHANGED rows \/ MayApply(r)
  BY <1>5 DEF StoreFails
<1> QED BY <1>1, <1>2, <1>3, <1>4, <1>5 DEF Next

(* Every answer the rules can give is an answer.                           *)
LEMMA OutcomeType ==
  ASSUME NEW docs, NEW in
  PROVE  Outcome(docs, in) \in Answers
<1>1. ClaimOutcome(docs, in) \in Answers
  BY DEF ClaimOutcome, Answers
<1>2. ReleaseOutcome(docs, in) \in Answers
  BY DEF ReleaseOutcome, Answers
<1> QED BY <1>1, <1>2 DEF Outcome

-----------------------------------------------------------------------------
(* Which handle a write touches and what it leaves there.                  *)
LEMMA WriteShape ==
  ASSUME Inv, NEW r \in Requests, MayApply(r)
  PROVE  \E h \in Handles :
           /\ h = input[r].handle
           /\ \/ /\ input[r].kind = "claim"
                 /\ OwnerUpdateFilter(rows[h], input[r].cert)
                 /\ UniqueIndexes(rows')
                 /\ rows' = [rows EXCEPT ![h] = OwnerUpdated(rows[h], input[r].cert, input[r].skeleton)]
              \/ /\ input[r].kind = "claim"
                 /\ \/ ReclaimFilter(rows[h], input[r].cert, input[r].now)
                    \/ ~ Exists(rows[h])
                 /\ UniqueIndexes(rows')
                 /\ rows' = [rows EXCEPT ![h] = Claimed(input[r].cert, input[r].skeleton)]
              \/ /\ input[r].kind # "claim"
                 /\ ReleaseFilter(rows[h], input[r])
                 /\ rows' = [rows EXCEPT ![h] = ReleasedRow(rows[h], input[r])]
<1>1. Carries(pc[r], input[r])
  BY DEF Inv, RequestsCarry
<1>2. pc[r] \in ClaimCalls \cup ReleaseCalls /\ pc[r] # "idle"
  BY DEF MayApply, ClaimCalls, ReleaseCalls
<1>3. input[r].handle \in Handles
  BY <1>1, <1>2 DEF Carries, Inputs
<1>4. pc[r] \in {"update", "reclaim", "insert"} => input[r].kind = "claim"
  BY <1>1 DEF Carries, ClaimCalls
<1>5. pc[r] = "release" => input[r].kind # "claim"
  BY <1>1 DEF Carries, ReleaseCalls
<1> QED BY <1>3, <1>4, <1>5 DEF MayApply, Accepts, Put

(* What a claim carries, in the terms of the document it writes.           *)
LEMMA ClaimCarries ==
  ASSUME Inv, NEW r \in Requests, MayApply(r), input[r].kind = "claim"
  PROVE  /\ input[r].cert \in Certificates
         /\ input[r].cert.handle = input[r].handle
         /\ input[r].cert.released = FALSE
         /\ input[r].skeleton \in Skeletons
         /\ input[r].now \in Times
         /\ input[r].now <= clock
<1>1. Carries(pc[r], input[r])
  BY DEF Inv, RequestsCarry
<1>2. pc[r] \in ClaimCalls /\ pc[r] # "idle"
  BY <1>1 DEF MayApply, ClaimCalls, ReleaseCalls, Carries
<1> QED BY <1>1, <1>2 DEF Carries, Inputs

(* The documents the three kinds of write leave are documents.             *)
LEMMA ClaimRowType ==
  ASSUME NEW row \in Rows, NEW c \in Certificates, NEW s \in Skeletons
  PROVE  OwnerUpdated(row, c, s) \in Rows /\ Claimed(c, s) \in Rows
<1>1. c.identityKey \in Keys /\ c.serialNumber \in Serials /\ c.issuedAt \in Dates
  BY DEF Certificates
<1>2. OwnerUpdated(row, c, s) \in Rows
  BY <1>1 DEF OwnerUpdated, Rows
<1>3. Claimed(c, s) \in Rows
  BY <1>1 DEF Claimed, Rows
<1> QED BY <1>2, <1>3

(* What a release leaves is a document, with or without a tombstone.       *)
LEMMA ReleasedRowType ==
  ASSUME NEW row \in Rows, NEW in \in Inputs,
         in.kind = "tombstone" => in.cert \in Certificates
  PROVE  ReleasedRow(row, in) \in Rows
<1>1. in.kind = "tombstone" => in.cert.issuedAt \in Dates
  BY DEF Certificates
<1>2. in.cooldownUntil \in Nat \cup {None}
  BY DEF Inputs
<1> QED BY <1>1, <1>2 DEF ReleasedRow, Rows

(* A write leaves documents only.                                          *)
LEMMA WriteRowsType ==
  ASSUME Inv, NEW r \in Requests, MayApply(r)
  PROVE  rows' \in [Handles -> Rows]
<1>0. rows \in [Handles -> Rows]
  BY DEF Inv, TypeOK
<1>1. PICK h \in Handles :
           /\ h = input[r].handle
           /\ \/ /\ input[r].kind = "claim"
                 /\ rows' = [rows EXCEPT ![h] = OwnerUpdated(rows[h], input[r].cert, input[r].skeleton)]
              \/ /\ input[r].kind = "claim"
                 /\ rows' = [rows EXCEPT ![h] = Claimed(input[r].cert, input[r].skeleton)]
              \/ /\ input[r].kind # "claim"
                 /\ rows' = [rows EXCEPT ![h] = ReleasedRow(rows[h], input[r])]
  BY WriteShape
<1>2. ASSUME input[r].kind = "claim"
      PROVE  /\ OwnerUpdated(rows[h], input[r].cert, input[r].skeleton) \in Rows
             /\ Claimed(input[r].cert, input[r].skeleton) \in Rows
  <2>1. input[r].cert \in Certificates /\ input[r].skeleton \in Skeletons
    BY <1>2, ClaimCarries
  <2> QED BY <1>0, <2>1, ClaimRowType
<1>3. ASSUME input[r].kind # "claim"
      PROVE  ReleasedRow(rows[h], input[r]) \in Rows
  <2>1. /\ input[r] \in Inputs
        /\ input[r].kind = "tombstone" => input[r].cert \in Certificates
    BY DEF Inv, RequestsCarry, Carries, MayApply
  <2> QED BY <1>0, <2>1, ReleasedRowType
<1> QED BY <1>0, <1>1, <1>2, <1>3

(* The three kinds of write, one field at a time.                          *)
LEMMA OwnerUpdatedFields ==
  ASSUME NEW row \in Rows, NEW c, NEW s
  PROVE  LET d == OwnerUpdated(row, c, s) IN
         /\ d.skeleton = s
         /\ d.identityKey = row.identityKey
         /\ d.lastIdentityKey = row.lastIdentityKey
         /\ d.certificate = c
         /\ d.serialNumber = c.serialNumber
         /\ d.issuedAt = c.issuedAt
         /\ d.cooldownUntil = row.cooldownUntil
         /\ d.releasedBy = row.releasedBy
BY DEF OwnerUpdated, Rows

(* A release, one field at a time.                                         *)
LEMMA ReleasedRowFields ==
  ASSUME NEW row \in Rows, NEW in
  PROVE  LET d == ReleasedRow(row, in) IN
         /\ d.skeleton = row.skeleton
         /\ d.identityKey = None
         /\ d.lastIdentityKey = row.lastIdentityKey
         /\ d.certificate = None
         /\ d.issuedAt = IF in.kind = "tombstone" THEN in.cert.issuedAt ELSE row.issuedAt
         /\ d.cooldownUntil = in.cooldownUntil
         /\ d.releasedBy = IF in.kind = "tombstone" THEN Owner ELSE Operator
BY DEF ReleasedRow, Rows

(* No write disturbs what the collection promises.                         *)
LEMMA WriteKeepsRows ==
  ASSUME Inv, NEW r \in Requests, MayApply(r)
  PROVE  AbsentRows' /\ Unique' /\ CertificateMatchesRow'
<1>0. /\ rows \in [Handles -> Rows]
      /\ AbsentRows /\ Unique /\ CertificateMatchesRow
  BY DEF Inv, TypeOK
<1>1. PICK h \in Handles :
           /\ h = input[r].handle
           /\ \/ /\ input[r].kind = "claim"
                 /\ OwnerUpdateFilter(rows[h], input[r].cert)
                 /\ UniqueIndexes(rows')
                 /\ rows' = [rows EXCEPT ![h] = OwnerUpdated(rows[h], input[r].cert, input[r].skeleton)]
              \/ /\ input[r].kind = "claim"
                 /\ \/ ReclaimFilter(rows[h], input[r].cert, input[r].now)
                    \/ ~ Exists(rows[h])
                 /\ UniqueIndexes(rows')
                 /\ rows' = [rows EXCEPT ![h] = Claimed(input[r].cert, input[r].skeleton)]
              \/ /\ input[r].kind # "claim"
                 /\ ReleaseFilter(rows[h], input[r])
                 /\ rows' = [rows EXCEPT ![h] = ReleasedRow(rows[h], input[r])]
  BY WriteShape
<1> DEFINE c == input[r].cert
           d == rows'[h]
<1>2. /\ \A g \in Handles \ {h} : rows'[g] = rows[g]
      /\ rows[h] \in Rows
  BY <1>0, <1>1
<1>3. CASE /\ input[r].kind = "claim"
           /\ OwnerUpdateFilter(rows[h], c)
           /\ UniqueIndexes(rows')
           /\ d = OwnerUpdated(rows[h], c, input[r].skeleton)
  <2>1. c \in Certificates /\ c.handle = h /\ c.released = FALSE /\ c.identityKey \in Keys
    BY <1>1, <1>3, ClaimCarries DEF Certificates
  <2>2. /\ rows[h].identityKey = c.identityKey
        /\ Active(rows[h]) /\ Exists(rows[h])
    BY <1>0, <1>3, <2>1, RegistryAssumption
       DEF OwnerUpdateFilter, Active, CertificateMatchesRow, Served, Exists
  <2>3. /\ d.identityKey = c.identityKey
        /\ d.lastIdentityKey = c.identityKey
        /\ d.certificate = c
        /\ d.serialNumber = c.serialNumber
        /\ d.issuedAt = c.issuedAt
        /\ d.releasedBy = None /\ d.cooldownUntil = None
    BY <1>0, <1>2, <1>3, <2>2, OwnerUpdatedFields DEF CertificateMatchesRow, Served
  <2>4. AbsentRows'
    BY <1>0, <1>2, <2>1, <2>3, RegistryAssumption DEF AbsentRows, Exists
  <2>5. Unique'
    BY <1>3 DEF Unique, UniqueIndexes, SkeletonIndex, IdentityKeyIndex
  <2>6. Served(h, d)
    BY <2>1, <2>3, NoneAssumption, RegistryAssumption DEF Served, Active
  <2>7. CertificateMatchesRow'
    BY <1>0, <1>2, <2>6 DEF CertificateMatchesRow, Served
  <2> QED BY <2>4, <2>5, <2>7
<1>4. CASE /\ input[r].kind = "claim"
           /\ UniqueIndexes(rows')
           /\ d = Claimed(c, input[r].skeleton)
  <2>1. c \in Certificates /\ c.handle = h /\ c.released = FALSE /\ c.identityKey \in Keys
    BY <1>1, <1>4, ClaimCarries DEF Certificates
  <2>2. AbsentRows'
    BY <1>0, <1>2, <1>4, <2>1, RegistryAssumption DEF AbsentRows, Exists, Claimed
  <2>3. Unique'
    BY <1>4 DEF Unique, UniqueIndexes, SkeletonIndex, IdentityKeyIndex
  <2>4. Served(h, d)
    BY <1>4, <2>1, NoneAssumption, RegistryAssumption DEF Served, Active, Claimed
  <2>5. CertificateMatchesRow'
    BY <1>0, <1>2, <2>4 DEF CertificateMatchesRow, Served
  <2> QED BY <2>2, <2>3, <2>5
<1>5. CASE /\ ReleaseFilter(rows[h], input[r])
           /\ d = ReleasedRow(rows[h], input[r])
  <2>1. Active(rows[h]) /\ Exists(rows[h])
    BY <1>0, <1>5 DEF ReleaseFilter, CertificateMatchesRow, Served, Active, Exists
  <2>2. /\ d.skeleton = rows[h].skeleton
        /\ ~ Active(d)
        /\ d.lastIdentityKey = rows[h].lastIdentityKey
        /\ d.certificate = None
        /\ d.releasedBy \in {Owner, Operator}
    BY <1>2, <1>5, ReleasedRowFields DEF Active
  <2>3. Exists(d)
    BY <2>1, <2>2 DEF Exists
  <2>4. AbsentRows'
    BY <1>0, <1>2, <2>3 DEF AbsentRows, Exists
  <2>5. Unique'
    BY <1>0, <1>2, <2>1, <2>2 DEF Unique, Active, Exists
  <2>6. Served(h, d)
    BY <2>2, <2>3, NoneAssumption DEF Served
  <2>7. CertificateMatchesRow'
    BY <1>0, <1>2, <2>6 DEF CertificateMatchesRow, Served
  <2> QED BY <2>4, <2>5, <2>7
<1> QED BY <1>0, <1>1, <1>3, <1>4, <1>5

-----------------------------------------------------------------------------
(* What the steps do to the requests, whatever they do to the collection.  *)

RequestTypes ==
  /\ clock \in Times
  /\ pc \in [Requests -> Calls \cup {"idle"}]
  /\ input \in [Requests -> Inputs \cup {None}]
  /\ attempt \in [Requests -> {1, 2}]
  /\ read \in [Requests -> Rows]
  /\ reply \in Replies \cup {None}

(* The observers record answers and a bounded count.                       *)
LEMMA ObserverTypes ==
  ASSUME Inv, Observe
  PROVE  /\ possible' \in [Requests -> SUBSET Answers]
         /\ foreign' \in [Requests -> 0 .. MaxForeign]
<1>1. possible' \in [Requests -> SUBSET Answers]
  <2>1. possible \in [Requests -> SUBSET Answers]
    BY DEF Inv, TypeOK
  <2>2. \A r \in Requests : Outcome(rows', input'[r]) \in Answers
    BY OutcomeType
  <2> QED BY <2>1, <2>2 DEF Observe
<1>2. foreign' \in [Requests -> 0 .. MaxForeign]
  BY RegistryAssumption DEF Observe, Inv, TypeOK
<1> QED BY <1>1, <1>2

(* The row of a handle nobody ever claimed is well formed.                 *)
LEMMA NoRowType == NoRow \in Rows
BY DEF NoRow, Rows

(* A request that arrives is well formed.                                  *)
LEMMA ArriveKeeps ==
  ASSUME Inv, NEW r \in Requests, NEW call \in Calls, NEW in \in Inputs,
         Carries(call, in), Arrive(r, call, in)
  PROVE  (RequestTypes /\ RequestsCarry)'
<1>1. RequestTypes'
  BY DEF Inv, TypeOK, Arrive, RequestTypes
<1>2. RequestsCarry'
  BY DEF Inv, TypeOK, Arrive, RequestsCarry, Carries
<1> QED BY <1>1, <1>2

(* So is one that goes on to its next call.                                *)
LEMMA GotoKeeps ==
  ASSUME Inv, NEW r \in Requests, NEW call, Goto(r, call),
         \/ pc[r] \in ClaimCalls /\ call \in ClaimCalls
         \/ pc[r] \in ReleaseCalls /\ call \in ReleaseCalls
  PROVE  (RequestTypes /\ RequestsCarry)'
<1>1. RequestTypes'
  BY DEF Inv, TypeOK, Goto, RequestTypes, Calls
<1>2. RequestsCarry'
  BY DEF Inv, TypeOK, Goto, RequestsCarry, Carries, ClaimCalls, ReleaseCalls
<1> QED BY <1>1, <1>2

(* Boolean fields are kept away from the arithmetic of the others.         *)
LEMMA ReportKeeps ==
  ASSUME Inv, NEW r \in Requests, NEW a \in Answers, pc[r] \in Calls, Report(r, a)
  PROVE  (RequestTypes /\ RequestsCarry)'
<1>1. pc[r] # "idle" /\ input[r] \in Inputs
  BY DEF Inv, RequestsCarry, Carries, Calls, ClaimCalls, ReleaseCalls
<1>2. reply' \in Replies
  <2>1. (a \in possible[r]) \in BOOLEAN /\ (KeyHasHandle \in possible[r]) \in BOOLEAN
    OBVIOUS
  <2>2. foreign[r] \in 0 .. MaxForeign
    BY DEF Inv, TypeOK
  <2>3. input[r].kind \in {"claim", "tombstone", "revoke"}
    BY <1>1 DEF Inputs
  <2> QED BY <2>1, <2>2, <2>3 DEF Report, Replies
<1>3. RequestTypes'
  BY <1>2, NoRowType DEF Inv, TypeOK, Report, RequestTypes
<1>4. RequestsCarry'
  BY DEF Inv, TypeOK, Report, RequestsCarry, Carries, ClaimCalls, ReleaseCalls
<1> QED BY <1>3, <1>4

-----------------------------------------------------------------------------
(* Every step keeps the requests well formed.                              *)
LEMMA RequestsKept ==
  ASSUME Inv, Next
  PROVE  (RequestTypes /\ RequestsCarry)' /\ Observe
<1> USE DEF Calls, ClaimCalls, ReleaseCalls
<1>1. CASE Tick
  <2>1. RequestTypes'
    BY <1>1, RegistryAssumption DEF Tick, Inv, TypeOK, RequestTypes, Times
  <2>2. RequestsCarry'
    BY <1>1, RegistryAssumption DEF Tick, Inv, TypeOK, RequestsCarry, Carries, Times, Inputs
  <2> QED BY <1>1, <2>1, <2>2 DEF Tick
<1>2. ASSUME NEW r \in Requests, PutHandle(r)
      PROVE  (RequestTypes /\ RequestsCarry)' /\ Observe
  <2>1. PICK h \in Handles, k \in Keys, s \in Serials, b \in Bodies, t \in 1 .. (clock + MaxClockSkew) :
          \/ \E fold \in Folds :
               Arrive(r, "update",
                 [kind |-> "claim", handle |-> h, skeleton |-> fold[h], cooldownUntil |-> None, now |-> clock,
                  cert |-> [handle |-> h, identityKey |-> k, serialNumber |-> s, issuedAt |-> t,
                            released |-> FALSE, body |-> b]])
          \/ Arrive(r, "release",
               [kind |-> "tombstone", handle |-> h, skeleton |-> None, cooldownUntil |-> clock + Cooldown,
                now |-> clock,
                cert |-> [handle |-> h, identityKey |-> k, serialNumber |-> s, issuedAt |-> t,
                          released |-> TRUE, body |-> b]])
    BY <1>2 DEF PutHandle
  <2>2. clock \in Times /\ clock + Cooldown \in Nat /\ t \in Dates
    BY RegistryAssumption DEF Inv, TypeOK, Times, Dates
  <2> DEFINE profile == [handle |-> h, identityKey |-> k, serialNumber |-> s, issuedAt |-> t,
                         released |-> FALSE, body |-> b]
             tombstone == [handle |-> h, identityKey |-> k, serialNumber |-> s, issuedAt |-> t,
                           released |-> TRUE, body |-> b]
  <2>3. profile \in Certificates /\ tombstone \in Certificates
    BY <2>2 DEF Certificates
  <2>4. CASE \E fold \in Folds :
               Arrive(r, "update",
                 [kind |-> "claim", handle |-> h, skeleton |-> fold[h], cooldownUntil |-> None, now |-> clock,
                  cert |-> profile])
    <3>1. PICK fold \in Folds :
               Arrive(r, "update",
                 [kind |-> "claim", handle |-> h, skeleton |-> fold[h], cooldownUntil |-> None, now |-> clock,
                  cert |-> profile])
      BY <2>4
    <3>2. profile.handle = h /\ profile.released = FALSE
      OBVIOUS
    <3> HIDE DEF profile, tombstone
    <3> DEFINE in == [kind |-> "claim", handle |-> h, skeleton |-> fold[h], cooldownUntil |-> None,
                      now |-> clock, cert |-> profile]
    <3>3. fold[h] \in Skeletons
      BY RegistryAssumption
    <3>4. in \in Inputs
      BY <2>2, <2>3, <3>3 DEF Inputs
    <3>5. Carries("update", in)
      BY <2>2, <2>3, <3>2, <3>3, <3>4 DEF Carries, Times
    <3>6. Arrive(r, "update", in)
      BY <3>1
    <3> QED BY <3>4, <3>5, <3>6, ArriveKeeps DEF Arrive
  <2>5. CASE Arrive(r, "release",
               [kind |-> "tombstone", handle |-> h, skeleton |-> None, cooldownUntil |-> clock + Cooldown,
                now |-> clock, cert |-> tombstone])
    <3>2. tombstone.handle = h
      OBVIOUS
    <3> HIDE DEF profile, tombstone
    <3> DEFINE in == [kind |-> "tombstone", handle |-> h, skeleton |-> None,
                      cooldownUntil |-> clock + Cooldown, now |-> clock, cert |-> tombstone]
    <3>4. in \in Inputs
      BY <2>2, <2>3 DEF Inputs
    <3>5. Carries("release", in)
      BY <2>2, <2>3, <3>2, <3>4 DEF Carries, Times
    <3>6. Arrive(r, "release", in)
      BY <2>5
    <3> QED BY <3>4, <3>5, <3>6, ArriveKeeps DEF Arrive
  <2> QED BY <2>1, <2>4, <2>5
<1>3. ASSUME NEW r \in Requests, AdminReleaseHandle(r)
      PROVE  (RequestTypes /\ RequestsCarry)' /\ Observe
  <2>1. PICK h \in Handles, skipCooldown \in BOOLEAN :
          Arrive(r, "release",
            [kind |-> "revoke", handle |-> h, skeleton |-> None, cert |-> None, now |-> clock,
             cooldownUntil |-> IF skipCooldown THEN None ELSE clock + Cooldown])
    BY <1>3 DEF AdminReleaseHandle
  <2> DEFINE in == [kind |-> "revoke", handle |-> h, skeleton |-> None, cert |-> None, now |-> clock,
                    cooldownUntil |-> IF skipCooldown THEN None ELSE clock + Cooldown]
  <2>2. clock \in Times /\ clock + Cooldown \in Nat
    BY RegistryAssumption DEF Inv, TypeOK, Times
  <2>3. in \in Inputs
    BY <2>2 DEF Inputs
  <2>4. Carries("release", in)
    BY <2>2, <2>3 DEF Carries, Times
  <2>5. Arrive(r, "release", in)
    BY <2>1
  <2> QED BY <2>3, <2>4, <2>5, ArriveKeeps DEF Arrive
<1>4. ASSUME NEW r \in Requests, ClaimStep(r)
      PROVE  (RequestTypes /\ RequestsCarry)' /\ Observe
  <2> USE ReportKeeps, GotoKeeps DEF Answers
  <2>1. CASE OwnerUpdate(r)
    BY <2>1 DEF OwnerUpdate
  <2>2. CASE Reclaim(r)
    BY <2>2 DEF Reclaim
  <2>3. CASE Insert(r)
    BY <2>3 DEF Insert
  <2>4. CASE DiagnoseHandle(r)
    <3> DEFINE row == rows[input[r].handle]
    <3>1. CASE \/ \E a \in Answers : Report(r, a)
               \/ Goto(r, "diagSkeleton")
      BY <2>4, <3>1 DEF DiagnoseHandle
    <3>2. CASE /\ pc' = [pc EXCEPT ![r] = "diagKey"]
               /\ read' = [read EXCEPT ![r] = row]
               /\ reply' = None
               /\ UNCHANGED <<rows, clock, input, attempt>>
      <4>1. pc[r] \in ClaimCalls /\ Observe
        BY <2>4 DEF DiagnoseHandle
      <4>2. row \in Rows
        BY <4>1 DEF Inv, TypeOK, RequestsCarry, Carries, Inputs
      <4>3. RequestTypes'
        BY <3>2, <4>2 DEF Inv, TypeOK, RequestTypes
      <4>4. RequestsCarry'
        BY <3>2, <4>1 DEF Inv, TypeOK, RequestsCarry, Carries
      <4> QED BY <4>1, <4>3, <4>4
    <3> QED BY <2>4, <3>1, <3>2 DEF DiagnoseHandle
  <2>5. CASE DiagnoseKey(r)
    BY <2>5 DEF DiagnoseKey
  <2>6. CASE DiagnoseSkeleton(r)
    <3>1. CASE \E a \in Answers : Report(r, a)
      BY <2>6, <3>1 DEF DiagnoseSkeleton
    <3>2. CASE /\ attempt' = [attempt EXCEPT ![r] = 2]
               /\ pc' = [pc EXCEPT ![r] = "update"]
               /\ read' = [read EXCEPT ![r] = NoRow]
               /\ reply' = None
               /\ UNCHANGED <<rows, clock, input>>
      <4>1. pc[r] \in ClaimCalls /\ Observe
        BY <2>6 DEF DiagnoseSkeleton
      <4>2. RequestTypes'
        BY <3>2, NoRowType DEF Inv, TypeOK, RequestTypes
      <4>3. RequestsCarry'
        BY <3>2, <4>1 DEF Inv, TypeOK, RequestsCarry, Carries
      <4> QED BY <4>1, <4>2, <4>3
    <3> QED BY <2>6, <3>1, <3>2 DEF DiagnoseSkeleton, RetryOnce
  <2> QED BY <1>4, <2>1, <2>2, <2>3, <2>4, <2>5, <2>6 DEF ClaimStep
<1>5. ASSUME NEW r \in Requests, ReleaseStep(r)
      PROVE  (RequestTypes /\ RequestsCarry)' /\ Observe
  <2> USE ReportKeeps, GotoKeeps DEF Answers
  <2>1. CASE ReleaseHandle(r)
    BY <2>1 DEF ReleaseHandle
  <2>2. CASE DiagnoseRelease(r)
    BY <2>2 DEF DiagnoseRelease
  <2> QED BY <1>5, <2>1, <2>2 DEF ReleaseStep
<1>6. ASSUME NEW r \in Requests, StoreFails(r)
      PROVE  (RequestTypes /\ RequestsCarry)' /\ Observe
  BY <1>6, ReportKeeps DEF StoreFails, Answers
<1> QED BY <1>1, <1>2, <1>3, <1>4, <1>5, <1>6 DEF Next

-----------------------------------------------------------------------------
(* The inductive invariant holds in an empty collection,                   *)
LEMMA InvInit == Init => Inv
<1> SUFFICES ASSUME Init PROVE Inv
  OBVIOUS
<1>1. TypeOK
  BY NoRowType, RegistryAssumption DEF Init, TypeOK, Times
<1>2. RequestsCarry
  BY DEF Init, RequestsCarry, Carries, ClaimCalls, ReleaseCalls
<1>3. AbsentRows /\ Unique /\ CertificateMatchesRow
  BY DEF Init, AbsentRows, Unique, CertificateMatchesRow, Served, Active, Exists, NoRow
<1> QED BY <1>1, <1>2, <1>3 DEF Inv

(* is kept by every step,                                                  *)
LEMMA InvStep == Inv /\ [Next]_vars => Inv'
<1> SUFFICES ASSUME Inv, [Next]_vars PROVE Inv'
  OBVIOUS
<1>1. CASE Next
  <2>1. (RequestTypes /\ RequestsCarry)' /\ Observe
    BY <1>1, RequestsKept
  <2>2. rows' \in [Handles -> Rows] /\ (AbsentRows /\ Unique /\ CertificateMatchesRow)'
    <3>1. CASE UNCHANGED rows
      BY <3>1 DEF Inv, TypeOK, AbsentRows, Unique, CertificateMatchesRow
    <3>2. CASE \E r \in Requests : MayApply(r)
      BY <3>2, WriteRowsType, WriteKeepsRows
    <3> QED BY <1>1, <3>1, <3>2, OnlyWrites
  <2>3. TypeOK'
    BY <2>1, <2>2, ObserverTypes DEF TypeOK, RequestTypes
  <2> QED BY <2>1, <2>2, <2>3 DEF Inv
<1>2. CASE UNCHANGED vars
  BY <1>2 DEF vars, Inv, TypeOK, RequestsCarry, Carries, AbsentRows, Unique, CertificateMatchesRow
<1> QED BY <1>1, <1>2

(* and so holds throughout.                                                *)
LEMMA InvHolds == Spec => []Inv
BY InvInit, InvStep, PTL DEF Spec

(* Every variable keeps its type, whichever requests interleave, and a     *)
(* claim is in its first or second attempt, as ClaimHandle's loop has it.  *)
THEOREM TypesCorrect == Spec => []TypeOK
<1>1. Inv => TypeOK
  BY DEF Inv
<1> QED BY <1>1, InvHolds, PTL

(* What a lookup serves is a certificate of the handle by its holder, with *)
(* the date and the serial the replay guard compares.                      *)
THEOREM CertificateServed == Spec => []CertificateMatchesRow
<1>1. Inv => CertificateMatchesRow
  BY DEF Inv
<1> QED BY <1>1, InvHolds, PTL

-----------------------------------------------------------------------------
(* The cooldown: a claim judges it by the clock it read on arrival, which  *)
(* is never ahead of the clock at the write.                               *)
THEOREM CooldownHonouredByAll == Spec => CooldownHonoured
<1> DEFINE Honoured ==
      \A h \in Handles :
        LET old == rows[h] IN
        Exists(old) /\ ~ Active(old) /\ Active(rows'[h])
          => \/ old.cooldownUntil = None
             \/ old.cooldownUntil # None /\ old.cooldownUntil <= clock
             \/ CooldownExempt(old, rows'[h].identityKey)
<1>1. ASSUME Inv, Next
      PROVE  Honoured
  <2>1. CASE UNCHANGED rows
    BY <2>1
  <2>2. ASSUME NEW r \in Requests, MayApply(r)
        PROVE  Honoured
    <3> SUFFICES ASSUME NEW h \in Handles, Exists(rows[h]), ~ Active(rows[h]), Active(rows'[h])
                 PROVE  \/ rows[h].cooldownUntil = None
                        \/ rows[h].cooldownUntil # None /\ rows[h].cooldownUntil <= clock
                        \/ CooldownExempt(rows[h], rows'[h].identityKey)
      OBVIOUS
    <3>0. rows \in [Handles -> Rows] /\ clock \in Times /\ rows[h].cooldownUntil \in Nat \cup {None}
      BY <1>1 DEF Inv, TypeOK, Rows
    <3>1. h = input[r].handle
      BY <1>1, <2>2, <3>0, WriteShape
    <3>2. ~ OwnerUpdateFilter(rows[h], input[r].cert) \/ input[r].kind # "claim"
      <4> SUFFICES ASSUME input[r].kind = "claim" PROVE ~ OwnerUpdateFilter(rows[h], input[r].cert)
        OBVIOUS
      <4>1. input[r].cert.identityKey \in Keys
        BY <1>1, <2>2, ClaimCarries DEF Certificates
      <4> QED BY <4>1, RegistryAssumption DEF OwnerUpdateFilter, Active
    <3>3. ~ ReleaseFilter(rows[h], input[r])
      BY DEF ReleaseFilter
    <3>4. /\ input[r].kind = "claim"
          /\ ReclaimFilter(rows[h], input[r].cert, input[r].now)
          /\ rows'[h].identityKey = input[r].cert.identityKey
      BY <1>1, <2>2, <3>0, <3>1, <3>2, <3>3, WriteShape DEF Claimed
    <3>5. input[r].now \in Times /\ input[r].now <= clock
      BY <1>1, <2>2, <3>4, ClaimCarries
    <3> QED BY <3>0, <3>4, <3>5 DEF ReclaimFilter, CooldownExempt, Times
  <2> QED BY <1>1, <2>1, <2>2, OnlyWrites
<1>2. ASSUME UNCHANGED vars
      PROVE  Honoured
  BY <1>2 DEF vars
<1>3. Inv /\ [Next]_vars => [Honoured]_vars
  BY <1>1, <1>2
<1> QED BY <1>3, InvHolds, PTL DEF Spec, CooldownHonoured

-----------------------------------------------------------------------------
(* The registry implements the directory: every write is a registration, a *)
(* renewal, a tombstone or a revocation, and nothing else changes it.      *)

(* The empty collection is the empty directory.                            *)
LEMMA DirectoryInit == Init => Directory!Init
BY DEF Init, Directory!Init, NoRow

(* A write that applies is a step of the directory.                        *)
LEMMA WriteInDirectory ==
  ASSUME Inv, NEW r \in Requests, MayApply(r)
  PROVE  Directory!Next
<1> DEFINE holder == [h \in Handles |-> rows[h].identityKey]
           newest == [h \in Handles |-> rows[h].issuedAt]
           holderAfter == [h \in Handles |-> rows'[h].identityKey]
           newestAfter == [h \in Handles |-> rows'[h].issuedAt]
<1>0. /\ rows \in [Handles -> Rows]
      /\ AbsentRows /\ CertificateMatchesRow
  BY DEF Inv, TypeOK
<1>1. PICK h \in Handles :
           /\ h = input[r].handle
           /\ \/ /\ input[r].kind = "claim"
                 /\ OwnerUpdateFilter(rows[h], input[r].cert)
                 /\ UniqueIndexes(rows')
                 /\ rows' = [rows EXCEPT ![h] = OwnerUpdated(rows[h], input[r].cert, input[r].skeleton)]
              \/ /\ input[r].kind = "claim"
                 /\ \/ ReclaimFilter(rows[h], input[r].cert, input[r].now)
                    \/ ~ Exists(rows[h])
                 /\ UniqueIndexes(rows')
                 /\ rows' = [rows EXCEPT ![h] = Claimed(input[r].cert, input[r].skeleton)]
              \/ /\ input[r].kind # "claim"
                 /\ ReleaseFilter(rows[h], input[r])
                 /\ rows' = [rows EXCEPT ![h] = ReleasedRow(rows[h], input[r])]
  BY WriteShape
<1> DEFINE c == input[r].cert
           k == c.identityKey
           t == c.issuedAt
           d == rows'[h]
<1>2. /\ \A g \in Handles \ {h} : rows'[g] = rows[g]
      /\ rows[h] \in Rows /\ rows[h].issuedAt \in Nat
  BY <1>0, <1>1, RegistryAssumption DEF Rows, Dates
<1>3. input[r].kind # "revoke" => k \in Keys /\ t \in Dates /\ k # None /\ t \in Nat
  <2>1. input[r].kind # "revoke" => c \in Certificates
    BY DEF Inv, RequestsCarry, Carries, MayApply
  <2> QED BY <2>1, RegistryAssumption DEF Certificates, Dates
<1>4. CASE /\ input[r].kind = "claim"
           /\ OwnerUpdateFilter(rows[h], c)
           /\ d = OwnerUpdated(rows[h], c, input[r].skeleton)
  <2>1. d.identityKey = rows[h].identityKey /\ d.issuedAt = t
    BY <1>2, <1>4, OwnerUpdatedFields
  <2>2. holderAfter = holder
    BY <1>2, <2>1
  <2>3. newestAfter = [newest EXCEPT ![h] = t]
    BY <1>2, <2>1
  <2>4. holder[h] = k /\ t > newest[h]
    BY <1>2, <1>3, <1>4 DEF OwnerUpdateFilter
  <2>5. Directory!Renew(h, k, t)
    BY <2>2, <2>3, <2>4 DEF Directory!Renew
  <2>6. PICK key \in Keys, date \in Dates : key = k /\ date = t
    BY <1>3, <1>4
  <2>7. Directory!Renew(h, key, date)
    BY <2>5, <2>6 DEF Directory!Renew
  <2> QED BY <2>7, Zenon DEF Directory!Next
<1>5. CASE /\ input[r].kind = "claim"
           /\ ReclaimFilter(rows[h], c, input[r].now) \/ ~ Exists(rows[h])
           /\ UniqueIndexes(rows')
           /\ d = Claimed(c, input[r].skeleton)
  <2>1. d.identityKey = k /\ d.issuedAt = t
    BY <1>5 DEF Claimed
  <2>2. rows[h].identityKey = None /\ t > rows[h].issuedAt
    <3>1. CASE ReclaimFilter(rows[h], c, input[r].now)
      BY <1>2, <1>3, <1>5, <3>1 DEF ReclaimFilter, Active
    <3>2. CASE ~ Exists(rows[h])
      BY <1>0, <1>3, <1>5, <3>2 DEF AbsentRows, NoRow, Dates
    <3> QED BY <1>5, <3>1, <3>2
  <2>3. \A g \in Handles : rows[g].identityKey # k
    BY <1>2, <1>3, <1>5, <2>1, <2>2 DEF UniqueIndexes, IdentityKeyIndex, Active
  <2>4. holderAfter = [holder EXCEPT ![h] = k]
    BY <1>2, <2>1
  <2>5. newestAfter = [newest EXCEPT ![h] = t]
    BY <1>2, <2>1
  <2>6. Directory!Register(h, k, t)
    BY <2>2, <2>3, <2>4, <2>5 DEF Directory!Register
  <2>7. PICK key \in Keys, date \in Dates : key = k /\ date = t
    BY <1>3, <1>5
  <2>8. Directory!Register(h, key, date)
    BY <2>6, <2>7 DEF Directory!Register
  <2> QED BY <2>8, Zenon DEF Directory!Next
<1>6. CASE /\ input[r].kind # "claim"
           /\ ReleaseFilter(rows[h], input[r])
           /\ d = ReleasedRow(rows[h], input[r])
  <2>1. /\ d.identityKey = None
        /\ d.issuedAt = IF input[r].kind = "tombstone" THEN t ELSE rows[h].issuedAt
    BY <1>2, <1>6, ReleasedRowFields
  <2>2. holderAfter = [holder EXCEPT ![h] = None]
    BY <1>2, <2>1
  <2>3. CASE input[r].kind = "tombstone"
    <3>1. newestAfter = [newest EXCEPT ![h] = t]
      BY <1>2, <2>1, <2>3
    <3>2. holder[h] = k /\ t > newest[h]
      BY <1>2, <1>3, <1>6, <2>3 DEF ReleaseFilter
    <3>3. Directory!Tombstone(h, k, t)
      BY <2>2, <3>1, <3>2 DEF Directory!Tombstone
    <3>4. PICK key \in Keys, date \in Dates : key = k /\ date = t
      BY <1>3, <2>3
    <3>5. Directory!Tombstone(h, key, date)
      BY <3>3, <3>4 DEF Directory!Tombstone
    <3> QED BY <3>5, Zenon DEF Directory!Next
  <2>4. CASE input[r].kind # "tombstone"
    <3>1. newestAfter = newest
      BY <1>2, <2>1, <2>4
    <3>2. holder[h] # None
      BY <1>6 DEF ReleaseFilter, Active
    <3>3. Directory!Revoke(h)
      BY <2>2, <3>1, <3>2 DEF Directory!Revoke
    <3> QED BY <3>3 DEF Directory!Next
  <2> QED BY <2>3, <2>4
<1> QED BY <1>0, <1>1, <1>4, <1>5, <1>6

(* Every behaviour of the registry, seen through who holds a handle and    *)
(* the date of its newest certificate, is a behaviour of the directory.    *)
THEOREM RegistryImplementsDirectory == Spec => ImplementsDirectory
<1>1. Inv /\ [Next]_vars => [Directory!Next]_(Directory!vars)
  <2> SUFFICES ASSUME Inv, [Next]_vars
               PROVE  [Directory!Next]_(Directory!vars)
    OBVIOUS
  <2>1. CASE UNCHANGED rows
    BY <2>1 DEF Directory!vars
  <2>2. CASE \E r \in Requests : MayApply(r)
    BY <2>2, WriteInDirectory
  <2> QED BY <2>1, <2>2, OnlyWrites DEF vars
<1> QED BY <1>1, DirectoryInit, InvHolds, PTL DEF Spec, ImplementsDirectory, Directory!Spec

-----------------------------------------------------------------------------
(* Availability.                                                           *)

(* A document reserves a look-alike class, and only a document does.       *)
LEMMA SkeletonMeansDocument ==
  ASSUME Inv, NEW h \in Handles
  PROVE  /\ rows[h].skeleton # None => Exists(rows[h])
         /\ rows[h].identityKey # None => Exists(rows[h])
BY DEF Inv, AbsentRows, CertificateMatchesRow, Served, Active, Exists, NoRow

(* While the rows were written under one fold table, unavailableReason     *)
(* says "available" exactly when a claim dated now, by a key new to the    *)
(* handle and without one, is accepted.                                    *)
THEOREM AvailabilityAgreed == Spec => []AvailabilityAgrees
<1>1. ASSUME Inv
      PROVE  AvailabilityAgrees
  <2> SUFFICES ASSUME NEW h \in Handles, NEW k \in Keys, NEW s \in Serials, NEW b \in Bodies,
                      NEW fold \in Folds,
                      \A g \in Handles : Exists(rows[g]) => rows[g].identityKey # k /\ rows[g].skeleton = fold[g],
                      rows[h].lastIdentityKey # k
               PROVE  UnavailableReason(h, fold) = "available" <=>
                      ClaimOutcome(rows,
                        [kind |-> "claim", handle |-> h, skeleton |-> fold[h], cooldownUntil |-> None,
                         now |-> clock,
                         cert |-> [handle |-> h, identityKey |-> k, serialNumber |-> s,
                                   issuedAt |-> clock, released |-> FALSE, body |-> b]]) = Created
    BY DEF AvailabilityAgrees
  <2> DEFINE c == [handle |-> h, identityKey |-> k, serialNumber |-> s,
                   issuedAt |-> clock, released |-> FALSE, body |-> b]
             in == [kind |-> "claim", handle |-> h, skeleton |-> fold[h], cooldownUntil |-> None,
                    now |-> clock, cert |-> c]
             row == rows[h]
             sim == {g \in Handles : Exists(rows[g]) /\ rows[g].skeleton = fold[h]}
             cooling == row.cooldownUntil # None /\ row.cooldownUntil > clock
  <2>1. /\ in.handle = h /\ in.skeleton = fold[h] /\ in.now = clock /\ in.cert = c
        /\ c.identityKey = k /\ c.issuedAt = clock
    OBVIOUS
  <2>2. k # None /\ fold[h] # None
    BY RegistryAssumption
  <2>3. row \in Rows /\ clock \in Nat /\ clock > 0 /\ row.issuedAt \in Nat
    <3>1. rows[h] \in Rows /\ clock \in Times
      BY <1>1 DEF Inv, TypeOK
    <3>2. clock \in Nat /\ clock > 0
      BY <3>1, RegistryAssumption DEF Times
    <3>3. rows[h].issuedAt \in Nat
      BY <3>1, RegistryAssumption DEF Rows, Dates
    <3> QED BY <3>1, <3>2, <3>3
  <2>4. ~ HoldsOther(rows, k, h)
    BY <1>1, <2>2, SkeletonMeansDocument DEF HoldsOther
  <2>5. LooksLikeOther(rows, fold[h], h) <=> \E g \in sim : g # h
    BY <1>1, <2>2, SkeletonMeansDocument DEF LooksLikeOther
  <2>6. Exists(row) <=> h \in sim
    OBVIOUS
  <2>7. h \in sim => ~ LooksLikeOther(rows, fold[h], h)
    BY <1>1, <2>5 DEF Inv, Unique
  <2>8. Active(row) => Exists(row)
    BY <1>1, SkeletonMeansDocument DEF Active
  <2>9. ~ Exists(row) => row.issuedAt = 0 /\ row.cooldownUntil = None
    BY <1>1 DEF Inv, AbsentRows, NoRow
  <2>10. UnavailableReason(h, fold) = "available"
           <=> sim = {} \/ (h \in sim /\ ~ Active(row) /\ ~ cooling /\ row.issuedAt < clock)
    BY DEF UnavailableReason
  <2> HIDE DEF in, c, sim
  <2>11. ClaimOutcome(rows, in) = Created
           <=> /\ ~ Active(row) /\ ~ (clock <= row.issuedAt) /\ ~ HoldsOther(rows, k, h)
               /\ ~ cooling /\ ~ LooksLikeOther(rows, fold[h], h)
    BY <2>1 DEF ClaimOutcome, Created, Taken, Unchanged, Stale, KeyHasHandle, InCooldown, TooSimilar, Updated
  <2>12. ClaimOutcome(rows, in) = Created
           <=> ~ Active(row) /\ row.issuedAt < clock /\ ~ cooling /\ ~ LooksLikeOther(rows, fold[h], h)
    BY <2>3, <2>4, <2>11
  <2>13. ~ Exists(row) => ~ cooling /\ row.issuedAt < clock
    BY <2>3, <2>9
  <2>14. sim = {} <=> h \notin sim /\ ~ LooksLikeOther(rows, fold[h], h)
    BY <2>5, Zenon
  <2> HIDE DEF row, cooling
  <2>15. UnavailableReason(h, fold) = "available" <=> ClaimOutcome(rows, in) = Created
    <3>1. CASE h \in sim
      BY <2>7, <2>10, <2>12, <3>1, Zenon
    <3>2. CASE h \notin sim
      BY <2>6, <2>8, <2>10, <2>12, <2>13, <2>14, <3>2, Zenon
    <3> QED BY <3>1, <3>2
  <2> QED BY <2>15 DEF in, c
<1> QED BY <1>1, InvHolds, PTL

-----------------------------------------------------------------------------
(* Answers.  The observers note what an atomic registry would answer after *)
(* every step, so the answer on the present documents is always noted.     *)
Answerable == \A r \in Requests : pc[r] # "idle" => Outcome(rows, input[r]) \in possible[r]

LEMMA NotedNext ==
  ASSUME Inv, Answerable, [Next]_vars
  PROVE  Answerable'
<1>1. CASE Next
  <2>1. Observe
    BY <1>1, RequestsKept
  <2> QED BY <2>1 DEF Observe, Answerable
<1>2. CASE UNCHANGED vars
  BY <1>2 DEF vars, Answerable
<1> QED BY <1>1, <1>2

LEMMA Noted == Spec => [](Inv /\ Answerable)
<1>1. Init => Answerable
  BY DEF Init, Answerable
<1>2. Inv /\ Answerable /\ [Next]_vars => Answerable'
  BY NotedNext
<1> QED BY <1>1, <1>2, InvHolds, PTL DEF Spec

(* What a response says.                                                   *)
LEMMA ReportSays ==
  ASSUME NEW r, NEW a, Report(r, a)
  PROVE  /\ reply'.kind = input[r].kind /\ reply'.answer = a /\ reply'.foreign = foreign[r]
         /\ reply'.explained <=> a \in possible[r]
         /\ reply'.keyHeld <=> KeyHasHandle \in possible[r]
BY DEF Report

(* The steps that write no response, and those that say only that storage  *)
(* failed.                                                                 *)
LEMMA Silent ==
  ASSUME Next
  PROVE  \/ reply' = None
         \/ \E r \in Requests : ClaimStep(r) \/ ReleaseStep(r) \/ StoreFails(r)
BY DEF Next, Tick, PutHandle, AdminReleaseHandle, Arrive

(* A release is decided by its one write, or on the one document read.     *)
LEMMA ReleaseExplained ==
  ASSUME Inv, Answerable, NEW r \in Requests, ReleaseStep(r), reply' # None
  PROVE  \E a : Report(r, a) /\ (a \in {Failed, Stale} \/ a \in possible[r])
<1> DEFINE in == input[r]
           row == rows[in.handle]
<1>1. pc[r] \in ReleaseCalls
  BY DEF ReleaseStep, ReleaseHandle, DiagnoseRelease, ReleaseCalls
<1>2. in.kind # "claim" /\ in.handle \in Handles /\ pc[r] # "idle"
  BY <1>1 DEF Inv, RequestsCarry, Carries, Inputs, ReleaseCalls
<1>3. ReleaseOutcome(rows, in) \in possible[r]
  BY <1>2 DEF Answerable, Outcome
<1>4. CASE ReleaseHandle(r)
  <2>1. ReleaseFilter(row, in) /\ Report(r, Released)
    BY <1>4 DEF ReleaseHandle, Goto
  <2>2. ~ (in.kind = "tombstone" /\ in.cert.issuedAt <= row.issuedAt)
    <3>1. ASSUME in.kind = "tombstone"
          PROVE  in.cert.issuedAt \in Nat /\ row.issuedAt \in Nat /\ row.issuedAt < in.cert.issuedAt
      <4>1. in.cert \in Certificates /\ row \in Rows
        BY <1>1, <1>2, <3>1 DEF Inv, TypeOK, RequestsCarry, Carries
      <4>2. in.cert.issuedAt \in Dates /\ row.issuedAt \in Dates \cup {0}
        BY <4>1 DEF Certificates, Rows
      <4>3. row.issuedAt < in.cert.issuedAt
        BY <2>1, <3>1 DEF ReleaseFilter
      <4> QED BY <4>2, <4>3, RegistryAssumption DEF Dates
    <3> QED BY <3>1
  <2>3. ReleaseOutcome(rows, in) = Released
    BY <2>1, <2>2 DEF ReleaseOutcome, ReleaseFilter
  <2> QED BY <1>3, <2>1, <2>3
<1>5. CASE DiagnoseRelease(r)
  <2> DEFINE applied == ReleaseAlreadyApplied(row, in)
  <2>1. applied => Exists(row) \/ Active(row)
    BY <1>2, NoneAssumption DEF Inv, CertificateMatchesRow, Served, ReleaseAlreadyApplied
  <2>2. \/ ~ Active(row) /\ applied /\ Report(r, Released)
        \/ ~ Active(row) /\ ~ applied /\ Report(r, NotFound)
        \/ /\ Active(row) /\ in.kind = "tombstone" /\ row.identityKey # in.cert.identityKey
           /\ Report(r, Taken)
        \/ Report(r, Stale) \/ Report(r, Failed)
    BY <1>5, <2>1 DEF DiagnoseRelease
  <2>3. ~ Active(row) /\ applied => ReleaseOutcome(rows, in) = Released
    BY DEF ReleaseOutcome, ReleaseAlreadyApplied
  <2>4. ~ Active(row) /\ ~ applied => ReleaseOutcome(rows, in) = NotFound
    BY DEF ReleaseOutcome, ReleaseAlreadyApplied
  <2>5. Active(row) /\ in.kind = "tombstone" /\ row.identityKey # in.cert.identityKey
          => ReleaseOutcome(rows, in) = Taken
    BY DEF ReleaseOutcome
  <2> QED BY <1>3, <2>2, <2>3, <2>4, <2>5
<1> QED BY <1>4, <1>5 DEF ReleaseStep

(* A claim's response answers a claim.                                     *)
LEMMA ClaimResponds ==
  ASSUME Inv, NEW r \in Requests, ClaimStep(r)
  PROVE  reply' = None \/ (input[r].kind = "claim" /\ \E a : Report(r, a))
<1>1. pc[r] \in ClaimCalls
  BY DEF ClaimStep, OwnerUpdate, Reclaim, Insert, DiagnoseHandle, DiagnoseKey, DiagnoseSkeleton, ClaimCalls
<1>2. input[r].kind = "claim"
  BY <1>1 DEF Inv, RequestsCarry, Carries
<1>3. reply' = None \/ \E a : Report(r, a)
  <2>1. CASE OwnerUpdate(r)
    BY <2>1 DEF OwnerUpdate, Goto
  <2>2. CASE Reclaim(r)
    BY <2>2 DEF Reclaim, Goto
  <2>3. CASE Insert(r)
    BY <2>3 DEF Insert, Goto
  <2>4. CASE DiagnoseHandle(r)
    BY <2>4 DEF DiagnoseHandle, Goto
  <2>5. CASE DiagnoseKey(r)
    BY <2>5 DEF DiagnoseKey, Goto
  <2>6. CASE DiagnoseSkeleton(r)
    BY <2>6 DEF DiagnoseSkeleton, RetryOnce
  <2> QED BY <2>1, <2>2, <2>3, <2>4, <2>5, <2>6 DEF ClaimStep
<1> QED BY <1>2, <1>3

(* What ReleaseHandle and DiagnoseRelease answer is right at some instant  *)
(* of the request, a stale tombstone's answer aside.                       *)
THEOREM ReleasesExplained == Spec => []ReleaseAnswersExplained
<1>1. ASSUME Inv, Answerable, ReleaseAnswersExplained, [Next]_vars
      PROVE  ReleaseAnswersExplained'
  <2> SUFFICES ASSUME Next, reply' # None, reply'.kind # "claim", reply'.answer \notin {Failed, Stale}
               PROVE  reply'.explained
    BY <1>1 DEF ReleaseAnswersExplained, vars
  <2>1. PICK r \in Requests : ClaimStep(r) \/ ReleaseStep(r) \/ StoreFails(r)
    BY Silent
  <2>2. CASE ClaimStep(r)
    BY <1>1, <2>2, ClaimResponds, ReportSays
  <2>3. CASE ReleaseStep(r)
    BY <1>1, <2>3, ReleaseExplained, ReportSays
  <2>4. CASE StoreFails(r)
    BY <2>4, ReportSays DEF StoreFails
  <2> QED BY <2>1, <2>2, <2>3, <2>4
<1>2. Init => ReleaseAnswersExplained
  BY DEF Init, ReleaseAnswersExplained
<1>3. (Inv /\ Answerable) /\ ReleaseAnswersExplained /\ [Next]_vars => ReleaseAnswersExplained'
  BY <1>1
<1> QED BY <1>2, <1>3, Noted, PTL DEF Spec

-----------------------------------------------------------------------------
(* What the unique indexes accept and refuse.                              *)
LEMMA IndexesDecide ==
  ASSUME Inv, NEW h \in Handles, NEW d, NEW k \in Keys, NEW s \in Skeletons,
         d.identityKey = k, d.skeleton = s, Exists(d)
  PROVE  Accepts(h, d) <=> ~ HoldsOther(rows, k, h) /\ ~ LooksLikeOther(rows, s, h)
<1> DEFINE docs == Put(h, d)
<1>1. rows \in [Handles -> Rows] /\ Unique
  BY DEF Inv, TypeOK
<1>2. docs[h] = d /\ \A g \in Handles \ {h} : docs[g] = rows[g]
  BY <1>1 DEF Put
<1>3. k # None /\ s # None
  BY RegistryAssumption
<1>4. \A g \in Handles : rows[g].skeleton = s => Exists(rows[g])
  BY <1>3, SkeletonMeansDocument
<1> HIDE DEF docs
<1>5. SkeletonIndex(docs) <=> ~ LooksLikeOther(rows, s, h)
  <2>1. ASSUME SkeletonIndex(docs), NEW g \in Handles \ {h}
        PROVE  rows[g].skeleton # s
    BY <1>2, <1>4, <2>1 DEF SkeletonIndex
  <2>2. ASSUME ~ LooksLikeOther(rows, s, h), NEW g1 \in Handles, NEW g2 \in Handles, g1 # g2,
               Exists(docs[g1]), Exists(docs[g2])
        PROVE  docs[g1].skeleton # docs[g2].skeleton
    <3>1. CASE g1 = h
      BY <1>2, <2>2, <3>1 DEF LooksLikeOther
    <3>2. CASE g2 = h
      BY <1>2, <2>2, <3>2 DEF LooksLikeOther
    <3>3. CASE g1 # h /\ g2 # h
      BY <1>1, <1>2, <2>2, <3>3 DEF Unique
    <3> QED BY <3>1, <3>2, <3>3
  <2>3. SkeletonIndex(docs) => ~ LooksLikeOther(rows, s, h)
    BY <2>1 DEF LooksLikeOther
  <2>4. ~ LooksLikeOther(rows, s, h) => SkeletonIndex(docs)
    BY <2>2 DEF SkeletonIndex
  <2> QED BY <2>3, <2>4
<1>6. IdentityKeyIndex(docs) <=> ~ HoldsOther(rows, k, h)
  <2>1. ASSUME IdentityKeyIndex(docs), NEW g \in Handles \ {h}
        PROVE  rows[g].identityKey # k
    BY <1>2, <1>3, <2>1 DEF IdentityKeyIndex, Active
  <2>2. ASSUME ~ HoldsOther(rows, k, h), NEW g1 \in Handles, NEW g2 \in Handles, g1 # g2,
               Active(docs[g1])
        PROVE  docs[g1].identityKey # docs[g2].identityKey
    <3>1. CASE g1 = h
      BY <1>2, <2>2, <3>1 DEF HoldsOther
    <3>2. CASE g2 = h
      BY <1>2, <2>2, <3>2 DEF HoldsOther
    <3>3. CASE g1 # h /\ g2 # h
      BY <1>1, <1>2, <2>2, <3>3 DEF Unique, Active
    <3> QED BY <3>1, <3>2, <3>3
  <2>3. IdentityKeyIndex(docs) => ~ HoldsOther(rows, k, h)
    BY <2>1 DEF HoldsOther
  <2>4. ~ HoldsOther(rows, k, h) => IdentityKeyIndex(docs)
    BY <2>2 DEF IdentityKeyIndex
  <2> QED BY <2>3, <2>4
<1>7. Accepts(h, d) <=> SkeletonIndex(docs) /\ IdentityKeyIndex(docs)
  BY DEF Accepts, UniqueIndexes, docs
<1> QED BY <1>5, <1>6, <1>7

(* What a claim works with.                                                *)
LEMMA ClaimFacts ==
  ASSUME Inv, NEW r \in Requests, pc[r] \in ClaimCalls
  PROVE  LET in == input[r]
             c == in.cert
             row == rows[in.handle]
         IN /\ in.kind = "claim" /\ in.handle \in Handles /\ in.now \in Nat
            /\ c \in Certificates /\ c.identityKey \in Keys /\ c.identityKey # None
            /\ c.issuedAt \in Nat /\ c.issuedAt > 0
            /\ in.skeleton \in Skeletons /\ \E fold \in Folds : in.skeleton = fold[in.handle]
            /\ row \in Rows /\ row.issuedAt \in Nat /\ row.cooldownUntil \in Nat \cup {None}
            /\ Served(in.handle, row)
            /\ ~ Exists(row) => row = NoRow
<1> DEFINE in == input[r]
<1>1. pc[r] # "idle" /\ Carries(pc[r], in)
  BY DEF Inv, RequestsCarry, ClaimCalls
<1>2. /\ in \in Inputs /\ in.kind = "claim" /\ in.skeleton \in Skeletons /\ in.cert \in Certificates
      /\ \E fold \in Folds : in.skeleton = fold[in.handle]
  BY <1>1 DEF Carries
<1>3. in.handle \in Handles /\ in.now \in Times
  BY <1>2 DEF Inputs
<1>4. in.cert.identityKey \in Keys /\ in.cert.issuedAt \in Dates
  BY <1>2 DEF Certificates
<1>5. rows[in.handle] \in Rows /\ Served(in.handle, rows[in.handle])
  BY <1>3 DEF Inv, TypeOK, CertificateMatchesRow
<1>6. rows[in.handle].issuedAt \in Dates \cup {0} /\ rows[in.handle].cooldownUntil \in Nat \cup {None}
  BY <1>5 DEF Rows
<1>7. ~ Exists(rows[in.handle]) => rows[in.handle] = NoRow
  BY <1>3 DEF Inv, AbsentRows
<1>8. in.cert.issuedAt \in Nat /\ in.cert.issuedAt > 0 /\ rows[in.handle].issuedAt \in Nat /\ in.now \in Nat
  BY <1>3, <1>4, <1>6, RegistryAssumption DEF Dates, Times
<1>9. in.cert.identityKey # None
  BY <1>4, RegistryAssumption
<1> QED BY <1>2, <1>3, <1>4, <1>5, <1>6, <1>7, <1>8, <1>9

(* The document is in its cooldown for the claim.                          *)
Cooling(row, in) ==
  /\ Exists(row)
  /\ row.cooldownUntil # None
  /\ row.cooldownUntil > in.now
  /\ ~ CooldownExempt(row, in.cert.identityKey)

(* The handle is free for the claim, as far as its document says.          *)
Free(row, in) == ~ Active(row) /\ (Exists(row) => in.cert.issuedAt > row.issuedAt)

(* What the rules decide on the documents, in the terms of the code.       *)
LEMMA RulesDecide ==
  ASSUME Inv, NEW r \in Requests, pc[r] \in ClaimCalls
  PROVE  LET in == input[r]
             c == in.cert
             row == rows[in.handle]
             held == HoldsOther(rows, c.identityKey, in.handle)
             alike == LooksLikeOther(rows, in.skeleton, in.handle)
             out == ClaimOutcome(rows, in)
         IN /\ Active(row) /\ row.identityKey # c.identityKey => out = Taken
            /\ row.identityKey = c.identityKey /\ SameCertificate(row, c) => out = Unchanged
            /\ /\ row.identityKey = c.identityKey /\ ~ SameCertificate(row, c)
               /\ ~ OwnerUpdateFilter(row, c)
               => out = Stale
            /\ ~ Active(row) /\ Exists(row) /\ ~ Free(row, in) => out = Stale
            /\ OwnerUpdateFilter(row, c) /\ ~ alike => out = Updated
            /\ OwnerUpdateFilter(row, c) /\ alike => out = TooSimilar
            /\ Free(row, in) /\ held => out = KeyHasHandle
            /\ Free(row, in) /\ ~ held /\ Cooling(row, in) => out = InCooldown
            /\ Free(row, in) /\ ~ held /\ ~ Cooling(row, in) /\ alike => out = TooSimilar
            /\ Free(row, in) /\ ~ held /\ ~ Cooling(row, in) /\ ~ alike => out = Created
<1> DEFINE in == input[r]
           c == in.cert
           row == rows[in.handle]
           held == HoldsOther(rows, c.identityKey, in.handle)
           alike == LooksLikeOther(rows, in.skeleton, in.handle)
           out == ClaimOutcome(rows, in)
           parked == /\ row.cooldownUntil # None /\ row.cooldownUntil > in.now
                     /\ ~ (row.releasedBy = Owner /\ row.lastIdentityKey = c.identityKey)
<1>1. /\ in.handle \in Handles /\ in.now \in Nat /\ c \in Certificates /\ c.identityKey # None
      /\ c.issuedAt \in Nat /\ c.issuedAt > 0 /\ row \in Rows /\ row.issuedAt \in Nat
      /\ row.cooldownUntil \in Nat \cup {None} /\ Served(in.handle, row)
      /\ ~ Exists(row) => row = NoRow
  BY ClaimFacts
<1>2. out = IF Active(row) /\ row.identityKey # c.identityKey THEN Taken
            ELSE IF Active(row) /\ row.certificate = c THEN Unchanged
            ELSE IF c.issuedAt <= row.issuedAt THEN Stale
            ELSE IF Active(row) /\ c.serialNumber = row.serialNumber THEN Stale
            ELSE IF held THEN KeyHasHandle
            ELSE IF parked THEN InCooldown
            ELSE IF alike THEN TooSimilar
            ELSE IF Active(row) THEN Updated
            ELSE Created
  BY DEF ClaimOutcome
<1>3. row.identityKey = c.identityKey => Active(row) /\ ~ held
  <2>1. row.identityKey = c.identityKey => Active(row)
    BY <1>1 DEF Active
  <2>2. row.identityKey = c.identityKey => ~ held
    BY <1>1 DEF Inv, Unique, HoldsOther, Active
  <2> QED BY <2>1, <2>2
<1>4. /\ Active(row) => /\ row.certificate.serialNumber = row.serialNumber
                        /\ row.certificate.issuedAt = row.issuedAt
                        /\ row.cooldownUntil = None
      /\ ~ Active(row) => row.certificate = None
  BY <1>1 DEF Served
<1>5. Active(row) => (SameCertificate(row, c) <=> row.certificate = c)
  BY <1>4 DEF SameCertificate
<1>6. c.issuedAt <= row.issuedAt <=> ~ (row.issuedAt < c.issuedAt)
  BY <1>1
<1>7. ~ Active(row) => (Free(row, in) <=> row.issuedAt < c.issuedAt)
  BY <1>1 DEF Free, NoRow
<1>8. ~ Active(row) => (Cooling(row, in) <=> parked)
  BY <1>1 DEF Cooling, CooldownExempt, NoRow
<1>9. Free(row, in) => ~ Active(row)
  BY DEF Free
<1>10. OwnerUpdateFilter(row, c)
         <=> row.identityKey = c.identityKey /\ row.issuedAt < c.issuedAt /\ row.serialNumber # c.serialNumber
  BY DEF OwnerUpdateFilter
<1>11. Active(row) => ~ parked
  BY <1>4
<1> HIDE DEF in, c, row, held, alike, out, parked
<1>12. Active(row) /\ row.identityKey # c.identityKey => out = Taken
  BY <1>2
<1>13. row.identityKey = c.identityKey /\ SameCertificate(row, c) => out = Unchanged
  BY <1>2, <1>3, <1>5
<1>14. row.identityKey = c.identityKey /\ ~ SameCertificate(row, c) /\ ~ OwnerUpdateFilter(row, c)
         => out = Stale
  BY <1>2, <1>3, <1>5, <1>6, <1>10
<1>15. ~ Active(row) /\ Exists(row) /\ ~ Free(row, in) => out = Stale
  BY <1>2, <1>6, <1>7
<1>16. /\ OwnerUpdateFilter(row, c) /\ ~ alike => out = Updated
       /\ OwnerUpdateFilter(row, c) /\ alike => out = TooSimilar
  <2>1. OwnerUpdateFilter(row, c) => row.certificate # c
    BY <1>3, <1>4, <1>10
  <2> QED BY <1>2, <1>3, <1>6, <1>10, <1>11, <2>1
<1>17. /\ Free(row, in) /\ held => out = KeyHasHandle
       /\ Free(row, in) /\ ~ held /\ Cooling(row, in) => out = InCooldown
       /\ Free(row, in) /\ ~ held /\ ~ Cooling(row, in) /\ alike => out = TooSimilar
       /\ Free(row, in) /\ ~ held /\ ~ Cooling(row, in) /\ ~ alike => out = Created
  BY <1>2, <1>6, <1>7, <1>8, <1>9
<1> QED BY <1>12, <1>13, <1>14, <1>15, <1>16, <1>17 DEF in, c, row, held, alike, out

-----------------------------------------------------------------------------
(* The requests do not meddle with each other.                             *)
Untouched(r) ==
  pc'[r] = pc[r] /\ input'[r] = input[r] /\ attempt'[r] = attempt[r] /\ read'[r] = read[r]

StepOf(r) ==
  PutHandle(r) \/ AdminReleaseHandle(r) \/ ClaimStep(r) \/ ReleaseStep(r) \/ StoreFails(r)

LEMMA OthersUntouched ==
  ASSUME Inv, Next, NEW r \in Requests
  PROVE  Untouched(r) \/ StepOf(r)
<1> SUFFICES ASSUME ~ StepOf(r)
             PROVE  Untouched(r)
  OBVIOUS
<1>0. /\ DOMAIN pc = Requests /\ DOMAIN input = Requests
      /\ DOMAIN attempt = Requests /\ DOMAIN read = Requests
  BY DEF Inv, TypeOK
<1>1. CASE Tick
  BY <1>1 DEF Tick, Untouched
<1>2. ASSUME NEW x \in Requests, StepOf(x)
      PROVE  Untouched(r)
  <2>0. x # r
    BY <1>2
  <2>1. ASSUME NEW call, NEW in, Arrive(x, call, in)
        PROVE  Untouched(r)
    BY <1>0, <2>0, <2>1 DEF Arrive, Untouched
  <2>2. ASSUME NEW call, Goto(x, call)
        PROVE  Untouched(r)
    BY <1>0, <2>0, <2>2 DEF Goto, Untouched
  <2>3. ASSUME NEW a, Report(x, a)
        PROVE  Untouched(r)
    BY <1>0, <2>0, <2>3 DEF Report, Untouched
  <2>4. CASE PutHandle(x) \/ AdminReleaseHandle(x)
    <3>1. \E call, in : Arrive(x, call, in)
      BY <2>4 DEF PutHandle, AdminReleaseHandle
    <3> QED BY <2>1, <3>1
  <2>5. CASE OwnerUpdate(x) \/ Reclaim(x) \/ Insert(x)
    BY <2>2, <2>3, <2>5 DEF OwnerUpdate, Reclaim, Insert
  <2>6. CASE DiagnoseHandle(x)
    <3>1. CASE \/ \E a : Report(x, a)
               \/ \E call : Goto(x, call)
      BY <2>2, <2>3, <3>1
    <3>2. CASE /\ pc' = [pc EXCEPT ![x] = "diagKey"]
               /\ read' = [read EXCEPT ![x] = rows[input[x].handle]]
               /\ UNCHANGED <<rows, clock, input, attempt>>
      BY <1>0, <2>0, <3>2 DEF Untouched
    <3> QED BY <2>6, <3>1, <3>2 DEF DiagnoseHandle
  <2>7. CASE DiagnoseKey(x)
    BY <2>2, <2>3, <2>7 DEF DiagnoseKey
  <2>8. CASE DiagnoseSkeleton(x)
    <3>1. CASE \E a : Report(x, a)
      BY <2>3, <3>1
    <3>2. CASE /\ attempt' = [attempt EXCEPT ![x] = 2]
               /\ pc' = [pc EXCEPT ![x] = "update"]
               /\ read' = [read EXCEPT ![x] = NoRow]
               /\ UNCHANGED <<rows, clock, input>>
      BY <1>0, <2>0, <3>2 DEF Untouched
    <3> QED BY <2>8, <3>1, <3>2 DEF DiagnoseSkeleton, RetryOnce
  <2>9. CASE ReleaseStep(x)
    BY <2>2, <2>3, <2>9 DEF ReleaseStep, ReleaseHandle, DiagnoseRelease
  <2>10. CASE StoreFails(x)
    BY <2>3, <2>10 DEF StoreFails
  <2> QED BY <1>2, <2>4, <2>5, <2>6, <2>7, <2>8, <2>9, <2>10 DEF StepOf, ClaimStep
<1> QED BY <1>1, <1>2 DEF Next, StepOf

-----------------------------------------------------------------------------
(* A skeleton on file is the one that some fold table gave the handle.     *)
FoldedRows == \A h \in Handles : Exists(rows[h]) => \E fold \in Folds : rows[h].skeleton = fold[h]

LEMMA FoldedNext ==
  ASSUME Inv, FoldedRows, [Next]_vars
  PROVE  FoldedRows'
<1>1. CASE UNCHANGED rows
  BY <1>1 DEF FoldedRows
<1>2. ASSUME NEW r \in Requests, MayApply(r)
      PROVE  FoldedRows'
  <2>0. rows \in [Handles -> Rows]
    BY DEF Inv, TypeOK
  <2>1. PICK h \in Handles :
           /\ h = input[r].handle
           /\ \/ /\ input[r].kind = "claim"
                 /\ rows' = [rows EXCEPT ![h] = OwnerUpdated(rows[h], input[r].cert, input[r].skeleton)]
              \/ /\ input[r].kind = "claim"
                 /\ rows' = [rows EXCEPT ![h] = Claimed(input[r].cert, input[r].skeleton)]
              \/ /\ ReleaseFilter(rows[h], input[r])
                 /\ rows' = [rows EXCEPT ![h] = ReleasedRow(rows[h], input[r])]
    BY <1>2, WriteShape
  <2>2. \A g \in Handles \ {h} : rows'[g] = rows[g]
    BY <2>0, <2>1
  <2>3. input[r].kind = "claim" => \E fold \in Folds : input[r].skeleton = fold[h]
    <3>1. pc[r] # "idle" /\ (input[r].kind = "claim" => pc[r] \in ClaimCalls)
      BY <1>2 DEF MayApply, Inv, RequestsCarry, Carries, ClaimCalls, ReleaseCalls
    <3> QED BY <2>1, <3>1 DEF Inv, RequestsCarry, Carries
  <2>4. \/ input[r].kind = "claim" /\ rows'[h].skeleton = input[r].skeleton
        \/ Exists(rows[h]) /\ rows'[h].skeleton = rows[h].skeleton
    <3>1. CASE rows'[h] = OwnerUpdated(rows[h], input[r].cert, input[r].skeleton) /\ input[r].kind = "claim"
      BY <2>0, <3>1, OwnerUpdatedFields
    <3>2. CASE rows'[h] = Claimed(input[r].cert, input[r].skeleton) /\ input[r].kind = "claim"
      BY <3>2 DEF Claimed
    <3>3. CASE ReleaseFilter(rows[h], input[r]) /\ rows'[h] = ReleasedRow(rows[h], input[r])
      <4>1. Exists(rows[h])
        BY <3>3, SkeletonMeansDocument DEF ReleaseFilter, Active
      <4> QED BY <2>0, <3>3, <4>1, ReleasedRowFields
    <3> QED BY <2>0, <2>1, <3>1, <3>2, <3>3
  <2> QED BY <2>2, <2>3, <2>4 DEF FoldedRows
<1> QED BY <1>1, <1>2, OnlyWrites DEF vars

(* A cooldown that a claim has read of was the answer at that instant, but *)
(* for a handle that the key held.                                         *)
CoolingNoted ==
  \A r \in Requests :
    pc[r] = "diagKey" /\ Cooling(read[r], input[r])
      => InCooldown \in possible[r] \/ KeyHasHandle \in possible[r]

LEMMA CoolingNext ==
  ASSUME Inv, Answerable, CoolingNoted, [Next]_vars
  PROVE  CoolingNoted'
<1> SUFFICES ASSUME Next, NEW r \in Requests, pc'[r] = "diagKey", Cooling(read'[r], input'[r])
             PROVE  InCooldown \in possible'[r] \/ KeyHasHandle \in possible'[r]
  BY DEF CoolingNoted, Cooling, vars
<1>1. Observe
  BY RequestsKept
<1>2. possible[r] \subseteq possible'[r]
  BY <1>1 DEF Observe
<1>3. CASE Untouched(r)
  BY <1>2, <1>3 DEF CoolingNoted, Untouched
<1>4. CASE StepOf(r)
  <2>0. pc \in [Requests -> Calls \cup {"idle"}] /\ read \in [Requests -> Rows]
    BY DEF Inv, TypeOK
  <2>1. DiagnoseHandle(r)
    <3>1. \A a : ~ Report(r, a)
      BY <2>0 DEF Report
    <3>2. \A call : Goto(r, call) => call = "diagKey"
      BY <2>0 DEF Goto
    <3>3. \A call, in : Arrive(r, call, in) => call = "diagKey"
      BY <2>0 DEF Arrive
    <3>4. ~ PutHandle(r) /\ ~ AdminReleaseHandle(r)
      BY <3>3 DEF PutHandle, AdminReleaseHandle
    <3>5. ~ OwnerUpdate(r) /\ ~ Reclaim(r) /\ ~ Insert(r) /\ ~ DiagnoseKey(r)
      BY <3>1, <3>2 DEF OwnerUpdate, Reclaim, Insert, DiagnoseKey
    <3>6. ~ DiagnoseSkeleton(r)
      BY <2>0, <3>1 DEF DiagnoseSkeleton, RetryOnce
    <3>7. ~ ReleaseStep(r) /\ ~ StoreFails(r)
      BY <3>1, <3>2 DEF ReleaseStep, ReleaseHandle, DiagnoseRelease, StoreFails
    <3> QED BY <1>4, <3>4, <3>5, <3>6, <3>7 DEF StepOf, ClaimStep
  <2> DEFINE in == input[r]
             row == rows[in.handle]
  <2>2. pc[r] = "diagHandle" /\ pc[r] # "idle" /\ pc[r] \in ClaimCalls
    BY <2>1 DEF DiagnoseHandle, ClaimCalls
  <2>3. ~ Active(row) /\ (Exists(row) => in.cert.issuedAt > row.issuedAt) /\ read'[r] = row /\ input'[r] = in
    <3>1. \A a : ~ Report(r, a)
      BY <2>0 DEF Report
    <3>2. ~ Goto(r, "diagSkeleton")
      BY <2>0 DEF Goto
    <3> QED BY <2>0, <2>1, <3>1, <3>2 DEF DiagnoseHandle
  <2>4. Free(row, in) /\ Cooling(row, in)
    BY <2>3 DEF Free
  <2>5. ClaimOutcome(rows, in) \in {InCooldown, KeyHasHandle}
    BY <2>2, <2>4, RulesDecide
  <2>6. in.kind = "claim"
    BY <2>2, ClaimFacts
  <2>7. ClaimOutcome(rows, in) \in possible[r]
    BY <2>2, <2>6 DEF Answerable, Outcome
  <2> QED BY <1>2, <2>5, <2>7
<1> QED BY <1>3, <1>4, OthersUntouched

-----------------------------------------------------------------------------
(* One fold table: every replica runs the same release of the server.      *)
OneTable == \A f, g \in Folds : f = g

(* What claimOnce and DiagnoseClaim answer.                                *)
Explained(r, a) ==
  \/ a \in possible[r]
  \/ a \in {InCooldown, TooSimilar} /\ KeyHasHandle \in possible[r]

(* A write that applies and the first read of the diagnosis answer what an *)
(* atomic registry would on the documents they meet.                       *)
LEMMA ClaimDecided ==
  ASSUME Inv, Answerable, NEW r \in Requests, ClaimStep(r), reply' # None
  PROVE  \/ \E a : Report(r, a) /\ a \in possible[r]
         \/ DiagnoseKey(r) \/ DiagnoseSkeleton(r)
<1> DEFINE in == input[r]
           c == in.cert
           h == in.handle
           k == c.identityKey
           row == rows[h]
           held == HoldsOther(rows, k, h)
           alike == LooksLikeOther(rows, in.skeleton, h)
           out == ClaimOutcome(rows, in)
<1>1. pc[r] \in ClaimCalls /\ pc[r] # "idle"
  BY DEF ClaimStep, OwnerUpdate, Reclaim, Insert, DiagnoseHandle, DiagnoseKey, DiagnoseSkeleton, ClaimCalls
<1>2. /\ in.kind = "claim" /\ h \in Handles /\ in.now \in Nat /\ k \in Keys /\ k # None
      /\ c.issuedAt \in Nat /\ c.issuedAt > 0
      /\ in.skeleton \in Skeletons
      /\ row \in Rows /\ row.issuedAt \in Nat /\ row.cooldownUntil \in Nat \cup {None}
      /\ ~ Exists(row) => row = NoRow
  BY <1>1, ClaimFacts
<1>3. out \in possible[r]
  BY <1>1, <1>2 DEF Answerable, Outcome
<1>4. /\ Active(row) /\ row.identityKey # k => out = Taken
      /\ row.identityKey = k /\ SameCertificate(row, c) => out = Unchanged
      /\ row.identityKey = k /\ ~ SameCertificate(row, c) /\ ~ OwnerUpdateFilter(row, c) => out = Stale
      /\ ~ Active(row) /\ Exists(row) /\ ~ Free(row, in) => out = Stale
      /\ OwnerUpdateFilter(row, c) /\ ~ alike => out = Updated
      /\ Free(row, in) /\ held => out = KeyHasHandle
      /\ Free(row, in) /\ ~ held /\ Cooling(row, in) => out = InCooldown
      /\ Free(row, in) /\ ~ held /\ ~ Cooling(row, in) /\ alike => out = TooSimilar
      /\ Free(row, in) /\ ~ held /\ ~ Cooling(row, in) /\ ~ alike => out = Created
  BY <1>1, RulesDecide
<1>5. Accepts(h, Claimed(c, in.skeleton)) => ~ held /\ ~ alike
  <2> DEFINE d == Claimed(c, in.skeleton)
  <2>1. d.identityKey = k /\ d.skeleton = in.skeleton /\ Exists(d)
    BY <1>2 DEF Claimed, Exists
  <2> HIDE DEF d
  <2>2. Accepts(h, d) <=> ~ held /\ ~ alike
    BY <1>2, <2>1, IndexesDecide
  <2> QED BY <2>2 DEF d
<1>6. OwnerUpdateFilter(row, c) /\ Accepts(h, OwnerUpdated(row, c, in.skeleton)) => ~ alike
  <2> DEFINE d == OwnerUpdated(row, c, in.skeleton)
  <2> SUFFICES ASSUME OwnerUpdateFilter(row, c), Accepts(h, d)
               PROVE  ~ alike
    OBVIOUS
  <2>1. row.identityKey = k /\ Exists(row)
    BY <1>2, SkeletonMeansDocument DEF OwnerUpdateFilter
  <2>2. d.identityKey = k /\ d.skeleton = in.skeleton /\ Exists(d)
    BY <1>2, <2>1, OwnerUpdatedFields DEF Exists
  <2> HIDE DEF d
  <2> QED BY <1>2, <2>2, IndexesDecide
<1> HIDE DEF in, c, h, k, row, held, alike, out
<1>7. CASE OwnerUpdate(r)
  <2>1. OwnerUpdateFilter(row, c) /\ Accepts(h, OwnerUpdated(row, c, in.skeleton)) /\ Report(r, Updated)
    BY <1>7 DEF OwnerUpdate, Goto, in, c, h, row
  <2> QED BY <1>3, <1>4, <1>6, <2>1
<1>8. CASE Reclaim(r)
  <2>1. ReclaimFilter(row, c, in.now) /\ Accepts(h, Claimed(c, in.skeleton)) /\ Report(r, Created)
    BY <1>8 DEF Reclaim, Goto, in, c, h, row
  <2>2. Free(row, in) /\ ~ Cooling(row, in)
    BY <1>2, <2>1 DEF ReclaimFilter, Free, Cooling, CooldownExempt, c, k
  <2> QED BY <1>3, <1>4, <1>5, <2>1, <2>2
<1>9. CASE Insert(r)
  <2>1. ~ Exists(row) /\ Accepts(h, Claimed(c, in.skeleton)) /\ Report(r, Created)
    BY <1>9 DEF Insert, Goto, in, c, h, row
  <2>2. Free(row, in) /\ ~ Cooling(row, in)
    BY <1>2, <2>1 DEF Free, Cooling, Active, NoRow
  <2> QED BY <1>3, <1>4, <1>5, <2>1, <2>2
<1>10. CASE DiagnoseHandle(r)
  <2>1. \/ Active(row) /\ row.identityKey # k /\ Report(r, Taken)
        \/ row.identityKey = k /\ SameCertificate(row, c) /\ Report(r, Unchanged)
        \/ row.identityKey = k /\ ~ SameCertificate(row, c) /\ ~ OwnerUpdateFilter(row, c) /\ Report(r, Stale)
        \/ ~ Active(row) /\ Exists(row) /\ ~ Free(row, in) /\ Report(r, Stale)
    <3>1. c.issuedAt > row.issuedAt <=> row.issuedAt < c.issuedAt
      BY <1>2
    <3> QED BY <1>10, <3>1 DEF DiagnoseHandle, Goto, OwnerUpdateFilter, Free, in, c, h, k, row
  <2> QED BY <1>3, <1>4, <2>1
<1> QED BY <1>7, <1>8, <1>9, <1>10 DEF ClaimStep

LEMMA ClaimExplained ==
  ASSUME Inv, Answerable, FoldedRows, CoolingNoted, OneTable,
         NEW r \in Requests, ClaimStep(r), reply' # None
  PROVE  \E a : Report(r, a) /\ (a \in {Raced, KeyHasHandle} \/ Explained(r, a))
<1> DEFINE in == input[r]
           c == in.cert
           h == in.handle
           k == c.identityKey
           row == rows[h]
           held == HoldsOther(rows, k, h)
           alike == LooksLikeOther(rows, in.skeleton, h)
           out == ClaimOutcome(rows, in)
<1>1. pc[r] \in ClaimCalls /\ pc[r] # "idle"
  BY DEF ClaimStep, OwnerUpdate, Reclaim, Insert, DiagnoseHandle, DiagnoseKey, DiagnoseSkeleton, ClaimCalls
<1>2. /\ in.kind = "claim" /\ h \in Handles /\ in.now \in Nat /\ k \in Keys /\ k # None
      /\ c.issuedAt \in Nat /\ c.issuedAt > 0
      /\ in.skeleton \in Skeletons /\ \E fold \in Folds : in.skeleton = fold[h]
      /\ row \in Rows /\ row.issuedAt \in Nat /\ row.cooldownUntil \in Nat \cup {None}
      /\ ~ Exists(row) => row = NoRow
  BY <1>1, ClaimFacts
<1>3. out \in possible[r]
  BY <1>1, <1>2 DEF Answerable, Outcome
<1>4. /\ Active(row) /\ row.identityKey # k => out = Taken
      /\ row.identityKey = k /\ SameCertificate(row, c) => out = Unchanged
      /\ row.identityKey = k /\ ~ SameCertificate(row, c) /\ ~ OwnerUpdateFilter(row, c) => out = Stale
      /\ ~ Active(row) /\ Exists(row) /\ ~ Free(row, in) => out = Stale
      /\ OwnerUpdateFilter(row, c) /\ ~ alike => out = Updated
      /\ Free(row, in) /\ held => out = KeyHasHandle
      /\ Free(row, in) /\ ~ held /\ Cooling(row, in) => out = InCooldown
      /\ Free(row, in) /\ ~ held /\ ~ Cooling(row, in) /\ alike => out = TooSimilar
      /\ Free(row, in) /\ ~ held /\ ~ Cooling(row, in) /\ ~ alike => out = Created
  BY <1>1, RulesDecide
<1> HIDE DEF in, c, h, k, row, held, alike, out
<1>5. CASE \E a : Report(r, a) /\ a \in possible[r]
  BY <1>5 DEF Explained
<1>6. CASE DiagnoseKey(r)
  <2>1. Report(r, KeyHasHandle) \/ (pc[r] = "diagKey" /\ Cooling(read[r], in) /\ Report(r, InCooldown))
    BY <1>6 DEF DiagnoseKey, Goto, Cooling, in
  <2> QED BY <2>1 DEF CoolingNoted, Explained, in
<1>7. CASE DiagnoseSkeleton(r)
  <2>1. (SkeletonHeldByOther(in) /\ Report(r, TooSimilar)) \/ Report(r, Raced)
    BY <1>7 DEF DiagnoseSkeleton, RetryOnce, in
  <2>2. ASSUME SkeletonHeldByOther(in)
        PROVE  out \in {KeyHasHandle, TooSimilar}
    <3>1. PICK g \in Handles : g # h /\ Exists(rows[g]) /\ rows[g].skeleton = in.skeleton
      BY <2>2 DEF SkeletonHeldByOther, h
    <3>2. alike
      BY <3>1 DEF alike, LooksLikeOther
    <3>3. ~ Exists(row)
      <4> SUFFICES ASSUME Exists(row)
                   PROVE  FALSE
        OBVIOUS
      <4>1. row.skeleton # rows[g].skeleton
        BY <1>2, <3>1 DEF Inv, Unique, row
      <4>2. PICK f1 \in Folds : row.skeleton = f1[h]
        BY <1>2 DEF FoldedRows, row
      <4>3. PICK f2 \in Folds : in.skeleton = f2[h]
        BY <1>2
      <4> QED BY <3>1, <4>1, <4>2, <4>3 DEF OneTable
    <3>4. Free(row, in) /\ ~ Cooling(row, in)
      BY <1>2, <3>3 DEF Free, Cooling, Active, NoRow
    <3> QED BY <1>4, <3>2, <3>4
  <2> QED BY <1>3, <2>1, <2>2 DEF Explained
<1> QED BY <1>5, <1>6, <1>7, ClaimDecided

(* While one release of the server is deployed, a claim is answered as an  *)
(* atomic registry would have answered it at some instant of the request;  *)
(* only a cooldown or a look-alike may be told to a key that had a handle. *)
THEOREM ClaimsExplained == Spec => [](OneTable => ClaimAnswersExplained)
<1> DEFINE Kept == FoldedRows /\ CoolingNoted /\ (OneTable => ClaimAnswersExplained)
<1>1. ASSUME Inv, Answerable, FoldedRows, CoolingNoted, OneTable, ClaimAnswersExplained, [Next]_vars
      PROVE  ClaimAnswersExplained'
  <2> SUFFICES ASSUME Next, reply' # None, reply'.kind = "claim",
                      reply'.answer \notin {Raced, Failed, KeyHasHandle}
               PROVE  reply'.explained \/ (reply'.answer \in {InCooldown, TooSimilar} /\ reply'.keyHeld)
    BY <1>1 DEF ClaimAnswersExplained, vars
  <2>1. PICK r \in Requests : ClaimStep(r) \/ ReleaseStep(r) \/ StoreFails(r)
    BY Silent
  <2>2. CASE ClaimStep(r)
    <3>1. PICK a : Report(r, a) /\ (a \in {Raced, KeyHasHandle} \/ Explained(r, a))
      BY <1>1, <2>2, ClaimExplained
    <3> QED BY <3>1, ReportSays DEF Explained
  <2>3. CASE ReleaseStep(r)
    <3>1. pc[r] \in ReleaseCalls
      BY <2>3 DEF ReleaseStep, ReleaseHandle, DiagnoseRelease, ReleaseCalls
    <3>2. input[r].kind # "claim"
      BY <1>1, <3>1 DEF Inv, RequestsCarry, Carries
    <3>3. \E a : Report(r, a)
      BY <1>1, <2>3, ReleaseExplained
    <3> QED BY <3>2, <3>3, ReportSays
  <2>4. CASE StoreFails(r)
    BY <2>4, ReportSays DEF StoreFails
  <2> QED BY <2>1, <2>2, <2>3, <2>4
<1>2. Init => Kept
  BY DEF Init, FoldedRows, CoolingNoted, ClaimAnswersExplained, Exists, NoRow
<1>3. (Inv /\ Answerable) /\ Kept /\ [Next]_vars => Kept'
  BY <1>1, FoldedNext, CoolingNext
<1>4. Kept => (OneTable => ClaimAnswersExplained)
  OBVIOUS
<1> QED BY <1>2, <1>3, <1>4, Noted, PTL DEF Spec

-----------------------------------------------------------------------------
(* ErrClaimRaced.  As long as nobody else wrote since a pass of claimOnce  *)
(* began, the writes it has tried do not apply to the present documents,   *)
(* and what its diagnosis has read is what is there.                       *)
NoneApplies(docs, in) ==
  LET h == in.handle
      c == in.cert
      row == docs[h]
  IN /\ ~ (/\ OwnerUpdateFilter(row, c)
           /\ UniqueIndexes([docs EXCEPT ![h] = OwnerUpdated(row, c, in.skeleton)]))
     /\ ~ (/\ ReclaimFilter(row, c, in.now) \/ ~ Exists(row)
           /\ UniqueIndexes([docs EXCEPT ![h] = Claimed(c, in.skeleton)]))

Tried(docs, call, in, seen) ==
  LET row == docs[in.handle]
      c == in.cert
  IN /\ call \in {"reclaim", "insert"} => ~ OwnerUpdateFilter(row, c)
     /\ call = "insert" => ~ ReclaimFilter(row, c, in.now)
     /\ call \in {"diagHandle", "diagKey", "diagSkeleton"} => NoneApplies(docs, in)
     /\ call = "diagKey" => Free(row, in) /\ seen = row
     /\ call = "diagSkeleton" =>
          \/ OwnerUpdateFilter(row, c)
          \/ /\ Free(row, in) /\ ~ Cooling(row, in)
             /\ \A g \in Handles : docs[g].identityKey # c.identityKey

(* The first pass is undisturbed while foreign is 0, the second, which a   *)
(* write of another in the first has caused, while it is 1.                *)
Contended ==
  \A r \in Requests :
    /\ foreign[r] >= attempt[r] - 1
    /\ foreign[r] < attempt[r] => Tried(rows, pc[r], input[r], read[r])

(* A pass that nobody disturbed finds the look-alike that stopped it.      *)
LEMMA UndisturbedIsExplained ==
  ASSUME Inv, NEW r \in Requests, pc[r] = "diagSkeleton", Tried(rows, pc[r], input[r], read[r])
  PROVE  SkeletonHeldByOther(input[r])
<1> DEFINE in == input[r]
           c == in.cert
           h == in.handle
           row == rows[h]
           held == HoldsOther(rows, c.identityKey, h)
           alike == LooksLikeOther(rows, in.skeleton, h)
<1>1. pc[r] \in ClaimCalls
  BY DEF ClaimCalls
<1>2. /\ h \in Handles /\ c.identityKey \in Keys /\ c.identityKey # None /\ in.skeleton \in Skeletons
      /\ row \in Rows /\ in.now \in Nat /\ row.cooldownUntil \in Nat \cup {None}
      /\ row.issuedAt \in Nat /\ c.issuedAt \in Nat
  BY <1>1, ClaimFacts
<1>3. /\ NoneApplies(rows, in)
      /\ \/ OwnerUpdateFilter(row, c)
         \/ /\ Free(row, in) /\ ~ Cooling(row, in)
            /\ \A g \in Handles : rows[g].identityKey # c.identityKey
  BY DEF Tried
<1>4. CASE OwnerUpdateFilter(row, c)
  <2> DEFINE d == OwnerUpdated(row, c, in.skeleton)
  <2>1. row.identityKey = c.identityKey /\ Exists(row)
    BY <1>2, <1>4, SkeletonMeansDocument DEF OwnerUpdateFilter
  <2>2. d.identityKey = c.identityKey /\ d.skeleton = in.skeleton /\ Exists(d)
    BY <1>2, <2>1, OwnerUpdatedFields DEF Exists
  <2>3. ~ Accepts(h, d)
    BY <1>3, <1>4 DEF NoneApplies, Accepts, Put
  <2>4. ~ held
    BY <1>2, <2>1 DEF Inv, Unique, HoldsOther, Active
  <2> HIDE DEF d
  <2>5. alike
    BY <1>2, <2>2, <2>3, <2>4, IndexesDecide
  <2> QED BY <1>2, <2>5, RegistryAssumption, SkeletonMeansDocument DEF LooksLikeOther, SkeletonHeldByOther
<1>5. CASE /\ Free(row, in) /\ ~ Cooling(row, in)
           /\ \A g \in Handles : rows[g].identityKey # c.identityKey
  <2> DEFINE d == Claimed(c, in.skeleton)
  <2>1. d.identityKey = c.identityKey /\ d.skeleton = in.skeleton /\ Exists(d)
    BY <1>2 DEF Claimed, Exists
  <2>2. ReclaimFilter(row, c, in.now) \/ ~ Exists(row)
    BY <1>2, <1>5 DEF Free, Cooling, CooldownExempt, ReclaimFilter
  <2>3. ~ Accepts(h, d)
    BY <1>3, <2>2 DEF NoneApplies, Accepts, Put
  <2>4. ~ held
    BY <1>5 DEF HoldsOther
  <2> HIDE DEF d
  <2>5. alike
    BY <1>2, <2>1, <2>3, <2>4, IndexesDecide
  <2> QED BY <1>2, <2>5, RegistryAssumption, SkeletonMeansDocument DEF LooksLikeOther, SkeletonHeldByOther
<1> QED BY <1>3, <1>4, <1>5

(* The next call of a claim, on the documents as they are.                 *)
LEMMA TriedOn ==
  ASSUME Inv, NEW r \in Requests, ClaimStep(r), pc'[r] # "idle", attempt'[r] = attempt[r],
         Tried(rows, pc[r], input[r], read[r])
  PROVE  rows' = rows /\ input'[r] = input[r] /\ Tried(rows, pc'[r], input[r], read'[r])
<1> DEFINE in == input[r]
           c == in.cert
           h == in.handle
           row == rows[h]
<1>0. /\ pc \in [Requests -> Calls \cup {"idle"}] /\ DOMAIN read = Requests /\ DOMAIN attempt = Requests
      /\ attempt[r] \in {1, 2}
  BY DEF Inv, TypeOK
<1>1. pc[r] \in ClaimCalls
  BY DEF ClaimStep, OwnerUpdate, Reclaim, Insert, DiagnoseHandle, DiagnoseKey, DiagnoseSkeleton, ClaimCalls
<1>2. /\ h \in Handles /\ c.identityKey # None
      /\ row \in Rows /\ row.issuedAt \in Nat /\ c.issuedAt \in Nat
  BY <1>1, ClaimFacts
<1>3. \A a : ~ Report(r, a)
  BY <1>0 DEF Report
<1>4. \A call : Goto(r, call) => pc'[r] = call /\ rows' = rows /\ input' = input /\ read' = read
  BY <1>0 DEF Goto
<1>5. ReclaimFilter(row, c, in.now) => Exists(row) /\ ~ OwnerUpdateFilter(row, c)
  BY <1>2 DEF ReclaimFilter, OwnerUpdateFilter, Active
<1>6. OwnerUpdateFilter(row, c) => Exists(row) /\ ~ ReclaimFilter(row, c, in.now)
  BY <1>2, <1>5, SkeletonMeansDocument DEF OwnerUpdateFilter
<1>7. CASE OwnerUpdate(r)
  <2>1. \/ /\ Goto(r, "diagHandle")
           /\ OwnerUpdateFilter(row, c) /\ ~ Accepts(h, OwnerUpdated(row, c, in.skeleton))
        \/ Goto(r, "reclaim") /\ ~ OwnerUpdateFilter(row, c)
    BY <1>3, <1>7 DEF OwnerUpdate
  <2> QED BY <1>4, <1>6, <2>1 DEF Tried, NoneApplies, Accepts, Put
<1>8. CASE Reclaim(r)
  <2>1. \/ /\ Goto(r, "diagHandle")
           /\ ReclaimFilter(row, c, in.now) /\ ~ Accepts(h, Claimed(c, in.skeleton))
        \/ Goto(r, "insert") /\ ~ ReclaimFilter(row, c, in.now)
    BY <1>3, <1>8 DEF Reclaim
  <2>2. pc[r] = "reclaim"
    BY <1>8 DEF Reclaim
  <2>3. ~ OwnerUpdateFilter(row, c)
    BY <2>2 DEF Tried
  <2> QED BY <1>4, <1>5, <2>1, <2>3 DEF Tried, NoneApplies, Accepts, Put
<1>9. CASE Insert(r)
  <2>1. /\ Goto(r, "diagHandle") /\ pc[r] = "insert"
        /\ Exists(row) \/ ~ Accepts(h, Claimed(c, in.skeleton))
    BY <1>3, <1>9 DEF Insert
  <2>2. ~ OwnerUpdateFilter(row, c) /\ ~ ReclaimFilter(row, c, in.now)
    BY <2>1 DEF Tried
  <2> QED BY <1>4, <2>1, <2>2 DEF Tried, NoneApplies, Accepts, Put
<1>10. CASE DiagnoseHandle(r)
  <2>1. pc[r] = "diagHandle"
    BY <1>10 DEF DiagnoseHandle
  <2>2. NoneApplies(rows, in)
    BY <2>1 DEF Tried
  <2>3. CASE Goto(r, "diagSkeleton") /\ OwnerUpdateFilter(row, c)
    BY <1>4, <2>2, <2>3 DEF Tried
  <2>4. CASE /\ Free(row, in) /\ pc' = [pc EXCEPT ![r] = "diagKey"]
             /\ read' = [read EXCEPT ![r] = row] /\ UNCHANGED <<rows, input>>
    <3>1. pc'[r] = "diagKey" /\ read'[r] = row /\ rows' = rows /\ input' = input
      BY <1>0, <2>4
    <3> QED BY <2>2, <2>4, <3>1 DEF Tried
  <2>5. c.issuedAt > row.issuedAt <=> row.issuedAt < c.issuedAt
    BY <1>2
  <2> QED BY <1>3, <1>10, <2>3, <2>4, <2>5 DEF DiagnoseHandle, OwnerUpdateFilter, Free
<1>11. CASE DiagnoseKey(r)
  <2>1. pc[r] = "diagKey"
    BY <1>11 DEF DiagnoseKey
  <2>2. NoneApplies(rows, in) /\ Free(row, in) /\ read[r] = row
    BY <2>1 DEF Tried
  <2>3. /\ Goto(r, "diagSkeleton") /\ ~ Cooling(read[r], in)
        /\ \A g \in Handles : rows[g].identityKey # c.identityKey
    BY <1>3, <1>11 DEF DiagnoseKey, Cooling
  <2> QED BY <1>4, <2>2, <2>3 DEF Tried
<1>12. CASE DiagnoseSkeleton(r)
  <2>1. attempt[r] = 1 /\ attempt' = [attempt EXCEPT ![r] = 2]
    BY <1>3, <1>12 DEF DiagnoseSkeleton, RetryOnce
  <2>2. attempt'[r] = 2
    BY <1>0, <2>1
  <2> QED BY <2>1, <2>2
<1> QED BY <1>7, <1>8, <1>9, <1>10, <1>11, <1>12 DEF ClaimStep

(* A request that goes on keeps its count.                                 *)
LEMMA CountKept ==
  ASSUME Inv, Next, NEW r \in Requests
  PROVE  /\ foreign[r] \in Nat /\ attempt[r] \in {1, 2}
         /\ pc'[r] = "idle" => foreign'[r] = 0
         /\ pc'[r] # "idle" => /\ foreign'[r] \in Nat /\ foreign'[r] >= foreign[r]
                               /\ rows' = rows => foreign'[r] = foreign[r]
                               /\ rows' # rows => foreign'[r] >= 2 \/ foreign'[r] = foreign[r] + 1
<1>1. Observe
  BY RequestsKept
<1>2. foreign[r] \in 0 .. MaxForeign /\ attempt[r] \in {1, 2}
  BY DEF Inv, TypeOK
<1>3. foreign'[r] = IF pc'[r] = "idle" THEN 0
                    ELSE IF rows' # rows /\ foreign[r] < MaxForeign THEN foreign[r] + 1
                    ELSE foreign[r]
  BY <1>1 DEF Observe
<1>4. MaxForeign \in Nat /\ MaxForeign >= 2
  BY RegistryAssumption
<1> QED BY <1>2, <1>3, <1>4

(* The four ways in which a request moves.                                 *)
LEMMA StepKinds ==
  ASSUME Inv, NEW r \in Requests, StepOf(r)
  PROVE  \/ pc'[r] = "idle" /\ attempt'[r] = 1
         \/ pc[r] = "idle" /\ pc'[r] \in {"update", "release"} /\ attempt'[r] = attempt[r]
         \/ pc'[r] = "diagRelease" /\ attempt'[r] = attempt[r]
         \/ ClaimStep(r) /\ pc'[r] # "idle"
<1>0. DOMAIN pc = Requests /\ DOMAIN attempt = Requests
  BY DEF Inv, TypeOK
<1>1. \A a : Report(r, a) => pc'[r] = "idle" /\ attempt'[r] = 1
  BY <1>0 DEF Report
<1>2. CASE PutHandle(r) \/ AdminReleaseHandle(r)
  <2>1. \E in : Arrive(r, "update", in) \/ Arrive(r, "release", in)
    BY <1>2 DEF PutHandle, AdminReleaseHandle
  <2> QED BY <1>0, <2>1 DEF Arrive
<1>3. CASE ReleaseStep(r)
  <2>1. Goto(r, "diagRelease") \/ \E a : Report(r, a)
    BY <1>3 DEF ReleaseStep, ReleaseHandle, DiagnoseRelease
  <2> QED BY <1>0, <1>1, <2>1 DEF Goto
<1>4. CASE StoreFails(r)
  BY <1>1, <1>4 DEF StoreFails
<1>5. CASE ClaimStep(r)
  <2>1. SUFFICES ASSUME pc'[r] = "idle"
                 PROVE  \E a : Report(r, a)
    BY <1>1, <1>5
  <2>2. \A call : Goto(r, call) => call = "idle"
    BY <1>0, <2>1 DEF Goto
  <2>3. CASE OwnerUpdate(r) \/ Reclaim(r) \/ Insert(r)
    BY <2>2, <2>3 DEF OwnerUpdate, Reclaim, Insert
  <2>4. CASE DiagnoseHandle(r)
    <3>1. pc' # [pc EXCEPT ![r] = "diagKey"]
      BY <1>0, <2>1
    <3> QED BY <2>2, <2>4, <3>1 DEF DiagnoseHandle
  <2>5. CASE DiagnoseKey(r)
    BY <2>2, <2>5 DEF DiagnoseKey
  <2>6. CASE DiagnoseSkeleton(r)
    <3>1. pc' # [pc EXCEPT ![r] = "update"]
      BY <1>0, <2>1
    <3> QED BY <2>6, <3>1 DEF DiagnoseSkeleton, RetryOnce
  <2> QED BY <1>5, <2>3, <2>4, <2>5, <2>6 DEF ClaimStep
<1> QED BY <1>2, <1>3, <1>4, <1>5 DEF StepOf

IdleFirst == \A r \in Requests : pc[r] = "idle" => attempt[r] = 1

LEMMA ContendedNext ==
  ASSUME Inv, IdleFirst, Contended, [Next]_vars
  PROVE  IdleFirst' /\ Contended'
<1>1. CASE UNCHANGED vars
  BY <1>1 DEF IdleFirst, Contended, vars
<1>2. ASSUME Next, NEW r \in Requests
      PROVE  /\ pc'[r] = "idle" => attempt'[r] = 1
             /\ foreign'[r] >= attempt'[r] - 1
             /\ foreign'[r] < attempt'[r] => Tried(rows', pc'[r], input'[r], read'[r])
  <2> DEFINE f == foreign[r]
             g == foreign'[r]
  <2>0. /\ f >= attempt[r] - 1
        /\ f < attempt[r] => Tried(rows, pc[r], input[r], read[r])
        /\ pc[r] = "idle" => attempt[r] = 1
    BY DEF Contended, IdleFirst
  <2>1. /\ f \in Nat /\ attempt[r] \in {1, 2}
        /\ pc'[r] = "idle" => g = 0
        /\ pc'[r] # "idle" => /\ g \in Nat /\ g >= f
                              /\ rows' = rows => g = f
                              /\ rows' # rows => g >= 2 \/ g = f + 1
    BY <1>2, CountKept
  <2> HIDE DEF f, g
  <2>2. \A call, in, seen : call \in {"idle", "update", "release", "diagRelease"} => Tried(rows', call, in, seen)
    BY DEF Tried
  <2>3. CASE pc'[r] = "idle" /\ attempt'[r] = 1
    BY <2>1, <2>2, <2>3 DEF g
  <2>4. CASE pc'[r] \in {"update", "release", "diagRelease"} /\ attempt'[r] = attempt[r]
    <3>1. g >= attempt'[r] - 1
      BY <2>0, <2>1, <2>4
    <3> QED BY <2>2, <2>4, <3>1 DEF g
  <2>5. CASE Untouched(r) /\ pc[r] # "idle"
    <3>1. pc'[r] = pc[r] /\ input'[r] = input[r] /\ attempt'[r] = attempt[r] /\ read'[r] = read[r]
      BY <2>5 DEF Untouched
    <3>2. CASE rows' = rows
      <4>1. g = f
        BY <2>1, <2>5, <3>1, <3>2
      <4>2. f < attempt[r] => Tried(rows', pc'[r], input'[r], read'[r])
        BY <2>0, <3>1, <3>2
      <4> QED BY <2>0, <2>5, <3>1, <4>1, <4>2 DEF g
    <3>3. CASE rows' # rows
      <4>1. g >= attempt'[r] /\ g \in Nat
        BY <2>0, <2>1, <2>5, <3>1, <3>3
      <4> QED BY <2>1, <2>5, <3>1, <4>1 DEF g
    <3> QED BY <3>2, <3>3
  <2>6. CASE Untouched(r) /\ pc[r] = "idle"
    BY <2>0, <2>3, <2>6 DEF Untouched
  <2>7. CASE ClaimStep(r) /\ pc'[r] # "idle" /\ attempt'[r] = attempt[r]
    <3>1. CASE f < attempt[r]
      <4>1. rows' = rows /\ input'[r] = input[r] /\ Tried(rows, pc'[r], input[r], read'[r])
        BY <2>0, <2>7, <3>1, TriedOn
      <4>2. Tried(rows', pc'[r], input'[r], read'[r])
        BY <4>1
      <4> QED BY <2>0, <2>1, <2>7, <4>1, <4>2 DEF g
    <3>2. CASE ~ (f < attempt[r])
      <4>1. g >= attempt'[r] /\ g \in Nat
        BY <2>1, <2>7, <3>2
      <4> QED BY <2>1, <2>7, <4>1 DEF g
    <3> QED BY <3>1, <3>2
  <2>8. CASE ClaimStep(r) /\ pc'[r] # "idle" /\ attempt'[r] # attempt[r]
    <3>0. DOMAIN pc = Requests /\ DOMAIN attempt = Requests
      BY DEF Inv, TypeOK
    <3>1. \A a : ~ Report(r, a)
      BY <2>8, <3>0 DEF Report
    <3>2. ~ UNCHANGED attempt
      BY <2>8
    <3>3. DiagnoseSkeleton(r)
      BY <2>8, <3>1, <3>2 DEF ClaimStep, OwnerUpdate, Reclaim, Insert, DiagnoseHandle, DiagnoseKey, Goto
    <3>4. /\ pc[r] = "diagSkeleton" /\ ~ SkeletonHeldByOther(input[r])
          /\ attempt[r] = 1 /\ attempt' = [attempt EXCEPT ![r] = 2] /\ pc' = [pc EXCEPT ![r] = "update"]
      BY <3>1, <3>3 DEF DiagnoseSkeleton, RetryOnce
    <3>5. attempt'[r] = 2 /\ pc'[r] = "update"
      BY <3>0, <3>4
    <3>6. ~ (f < attempt[r])
      BY <2>0, <3>4, UndisturbedIsExplained
    <3>7. g >= 1
      BY <2>1, <2>8, <3>4, <3>6
    <3> QED BY <2>1, <2>2, <2>8, <3>5, <3>7 DEF g
  <2>9. CASE StepOf(r)
    BY <2>3, <2>4, <2>7, <2>8, <2>9, StepKinds
  <2> QED BY <1>2, <2>5, <2>6, <2>9, OthersUntouched
<1> QED BY <1>1, <1>2 DEF IdleFirst, Contended

(* ClaimHandle's one retry gets past one write of another: ErrClaimRaced   *)
(* reaches the caller only after two.                                      *)
THEOREM RacesNeedTwoWrites == Spec => []RacedOnlyUnderContention
<1> DEFINE Kept == IdleFirst /\ Contended /\ RacedOnlyUnderContention
<1>1. ASSUME Inv, Contended, RacedOnlyUnderContention, [Next]_vars
      PROVE  RacedOnlyUnderContention'
  <2> SUFFICES ASSUME Next, reply' # None, reply'.answer = Raced
               PROVE  reply'.foreign >= 2
    BY <1>1 DEF RacedOnlyUnderContention, vars
  <2> USE DEF Created, Updated, Unchanged, Released, Taken, TooSimilar, KeyHasHandle, InCooldown, Stale,
              NotFound, Raced, Failed
  <2>1. PICK r \in Requests : ClaimStep(r) \/ ReleaseStep(r) \/ StoreFails(r)
    BY Silent
  <2>2. \A a : Report(r, a) => a = Raced
    BY ReportSays
  <2>3. ~ StoreFails(r)
    BY <2>2 DEF StoreFails
  <2>4. ~ ReleaseStep(r)
    BY <2>2 DEF ReleaseStep, ReleaseHandle, DiagnoseRelease, Goto
  <2>5. DiagnoseSkeleton(r)
    BY <2>1, <2>2, <2>3, <2>4 DEF ClaimStep, OwnerUpdate, Reclaim, Insert, DiagnoseHandle, DiagnoseKey, Goto
  <2>6. pc[r] = "diagSkeleton" /\ ~ SkeletonHeldByOther(input[r]) /\ attempt[r] = 2 /\ Report(r, Raced)
    BY <2>2, <2>5 DEF DiagnoseSkeleton, RetryOnce
  <2>7. ~ (foreign[r] < attempt[r])
    BY <1>1, <2>6, UndisturbedIsExplained DEF Contended
  <2>8. foreign[r] \in Nat
    BY <1>1, CountKept
  <2> QED BY <2>6, <2>7, <2>8, ReportSays
<1>2. Init => Kept
  <2> SUFFICES ASSUME Init
               PROVE  Kept
    OBVIOUS
  <2>1. \A r \in Requests : pc[r] = "idle" /\ attempt[r] = 1 /\ foreign[r] = 0
    BY DEF Init
  <2>2. \A call, in, seen : call = "idle" => Tried(rows, call, in, seen)
    BY DEF Tried
  <2>3. IdleFirst /\ Contended
    BY <2>1, <2>2 DEF IdleFirst, Contended
  <2>4. RacedOnlyUnderContention
    BY DEF Init, RacedOnlyUnderContention
  <2> QED BY <2>3, <2>4
<1>3. Inv /\ Kept /\ [Next]_vars => Kept'
  BY <1>1, ContendedNext
<1>4. Kept => RacedOnlyUnderContention
  OBVIOUS
<1> QED BY <1>2, <1>3, <1>4, InvHolds, PTL DEF Spec

-----------------------------------------------------------------------------
(* A request during which nobody else writes.  Its release write has been  *)
(* tried on the documents its diagnosis reads, like the writes of a claim. *)
ReleaseTried ==
  \A r \in Requests :
    pc[r] = "diagRelease" /\ foreign[r] = 0 => ~ ReleaseFilter(rows[input[r].handle], input[r])

LEMMA ReleaseTriedNext ==
  ASSUME Inv, ReleaseTried, [Next]_vars
  PROVE  ReleaseTried'
<1> SUFFICES ASSUME Next, NEW r \in Requests, pc'[r] = "diagRelease", foreign'[r] = 0
             PROVE  ~ ReleaseFilter(rows'[input'[r].handle], input'[r])
  BY DEF ReleaseTried, vars
<1>1. rows' = rows /\ foreign[r] = 0
  BY CountKept
<1>2. CASE Untouched(r)
  BY <1>1, <1>2 DEF ReleaseTried, Untouched
<1>3. CASE StepOf(r)
  <2>0. pc \in [Requests -> Calls \cup {"idle"}]
    BY DEF Inv, TypeOK
  <2>1. \A a : ~ Report(r, a)
    BY <2>0 DEF Report
  <2>2. \A call : Goto(r, call) => call = "diagRelease"
    BY <2>0 DEF Goto
  <2>3. \A call, in : Arrive(r, call, in) => call = "diagRelease"
    BY <2>0 DEF Arrive
  <2>4. ~ PutHandle(r) /\ ~ AdminReleaseHandle(r) /\ ~ StoreFails(r)
    BY <2>1, <2>3 DEF PutHandle, AdminReleaseHandle, StoreFails
  <2>5. ~ OwnerUpdate(r) /\ ~ Reclaim(r) /\ ~ Insert(r) /\ ~ DiagnoseKey(r)
    BY <2>1, <2>2 DEF OwnerUpdate, Reclaim, Insert, DiagnoseKey
  <2>6. ~ DiagnoseSkeleton(r)
    BY <2>0, <2>1 DEF DiagnoseSkeleton, RetryOnce
  <2>7. ~ DiagnoseHandle(r)
    <3>1. pc' # [pc EXCEPT ![r] = "diagKey"]
      BY <2>0
    <3> QED BY <2>1, <2>2, <3>1 DEF DiagnoseHandle
  <2>8. ReleaseHandle(r)
    BY <1>3, <2>1, <2>4, <2>5, <2>6, <2>7 DEF StepOf, ClaimStep, ReleaseStep, DiagnoseRelease
  <2>9. ~ ReleaseFilter(rows[input[r].handle], input[r]) /\ input' = input
    BY <2>1, <2>8 DEF ReleaseHandle, Goto
  <2> QED BY <1>1, <2>9
<1> QED BY <1>2, <1>3, OthersUntouched

(* A claim that nobody disturbs reports the one right answer.              *)
LEMMA UndisturbedClaim ==
  ASSUME Inv, Answerable, NEW r \in Requests, ClaimStep(r), reply' # None,
         Tried(rows, pc[r], input[r], read[r])
  PROVE  \E a : Report(r, a) /\ a \in possible[r]
<1> DEFINE in == input[r]
           c == in.cert
           h == in.handle
           k == c.identityKey
           row == rows[h]
           held == HoldsOther(rows, k, h)
           alike == LooksLikeOther(rows, in.skeleton, h)
           out == ClaimOutcome(rows, in)
<1>1. pc[r] \in ClaimCalls /\ pc[r] # "idle"
  BY DEF ClaimStep, OwnerUpdate, Reclaim, Insert, DiagnoseHandle, DiagnoseKey, DiagnoseSkeleton, ClaimCalls
<1>2. in.kind = "claim" /\ h \in Handles /\ k # None
  BY <1>1, ClaimFacts
<1>3. out \in possible[r]
  BY <1>1, <1>2 DEF Answerable, Outcome
<1>4. /\ OwnerUpdateFilter(row, c) /\ alike => out = TooSimilar
      /\ Free(row, in) /\ held => out = KeyHasHandle
      /\ Free(row, in) /\ ~ held /\ Cooling(row, in) => out = InCooldown
      /\ Free(row, in) /\ ~ held /\ ~ Cooling(row, in) /\ alike => out = TooSimilar
  BY <1>1, RulesDecide
<1> HIDE DEF out
<1>5. CASE DiagnoseKey(r)
  <2>1. pc[r] = "diagKey"
    BY <1>5 DEF DiagnoseKey
  <2>2. Free(row, in) /\ read[r] = row
    BY <2>1 DEF Tried
  <2>3. held <=> \E g \in Handles : rows[g].identityKey = k
    BY <1>2, <2>2 DEF HoldsOther, Free, Active
  <2>4. (held /\ Report(r, KeyHasHandle)) \/ (~ held /\ Cooling(read[r], in) /\ Report(r, InCooldown))
    BY <1>5, <2>3 DEF DiagnoseKey, Goto, Cooling
  <2> QED BY <1>3, <1>4, <2>2, <2>4
<1>6. CASE DiagnoseSkeleton(r)
  <2>1. pc[r] = "diagSkeleton"
    BY <1>6 DEF DiagnoseSkeleton
  <2>2. SkeletonHeldByOther(in)
    BY <2>1, UndisturbedIsExplained
  <2>3. Report(r, TooSimilar)
    BY <1>6, <2>2 DEF DiagnoseSkeleton
  <2>4. alike
    BY <2>2 DEF SkeletonHeldByOther, LooksLikeOther
  <2>5. \/ OwnerUpdateFilter(row, c)
        \/ /\ Free(row, in) /\ ~ Cooling(row, in)
           /\ \A g \in Handles : rows[g].identityKey # k
    BY <2>1 DEF Tried
  <2>6. out = TooSimilar
    BY <1>4, <2>4, <2>5 DEF HoldsOther
  <2> QED BY <1>3, <2>3, <2>6
<1> QED BY <1>5, <1>6, ClaimDecided

(* So does a release, but that it may say storage failed where a release   *)
(* by an operator finds the document active again.                         *)
LEMMA UndisturbedRelease ==
  ASSUME Inv, Answerable, ReleaseTried, NEW r \in Requests, foreign[r] = 0, ReleaseStep(r), reply' # None
  PROVE  \E a : Report(r, a) /\ (a = Failed \/ a \in possible[r])
<1> DEFINE in == input[r]
           row == rows[in.handle]
<1>1. PICK a : Report(r, a) /\ (a \in {Failed, Stale} \/ a \in possible[r])
  BY ReleaseExplained
<1>2. CASE a # Stale
  BY <1>1, <1>2
<1>3. CASE a = Stale
  <2>1. \A b : Report(r, b) => b = Stale
    BY <1>1, <1>3, ReportSays
  <2>2. /\ DiagnoseRelease(r) /\ pc[r] = "diagRelease"
        /\ Active(row) /\ in.kind = "tombstone" /\ row.identityKey = in.cert.identityKey
    <3> USE DEF Released, NotFound, Taken, Stale, Failed
    <3>1. ~ ReleaseHandle(r)
      BY <2>1 DEF ReleaseHandle, Goto
    <3> QED BY <2>1, <3>1 DEF ReleaseStep, DiagnoseRelease
  <2>3. ~ (row.issuedAt < in.cert.issuedAt)
    BY <2>2 DEF ReleaseTried, ReleaseFilter
  <2>4. in.cert \in Certificates /\ in.handle \in Handles
    BY <2>2 DEF Inv, RequestsCarry, Carries, Inputs
  <2>5. in.cert.issuedAt \in Nat /\ row.issuedAt \in Nat
    <3>1. in.cert.issuedAt \in Dates /\ row.issuedAt \in Dates \cup {0}
      BY <2>4 DEF Inv, TypeOK, Certificates, Rows
    <3> QED BY <3>1, RegistryAssumption DEF Dates
  <2>6. in.cert.issuedAt <= row.issuedAt
    BY <2>3, <2>5
  <2>7. ReleaseOutcome(rows, in) = Stale
    BY <2>2, <2>6 DEF ReleaseOutcome
  <2>8. ReleaseOutcome(rows, in) \in possible[r]
    BY <2>2 DEF Answerable, Outcome
  <2> QED BY <1>1, <1>3, <2>7, <2>8
<1> QED BY <1>2, <1>3

(* What is said of a request during which the collection did not change.   *)
UndisturbedExplained ==
  reply # None /\ reply.answer # Failed /\ reply.foreign = 0 => reply.explained

Undisturbed == IdleFirst /\ Contended /\ ReleaseTried

LEMMA UndisturbedHolds == Spec => [](Inv /\ Answerable /\ Undisturbed)
<1>1. Init => Undisturbed
  <2> SUFFICES ASSUME Init
               PROVE  Undisturbed
    OBVIOUS
  <2>1. \A r \in Requests : pc[r] = "idle" /\ attempt[r] = 1 /\ foreign[r] = 0
    BY DEF Init
  <2>2. \A call, in, seen : call = "idle" => Tried(rows, call, in, seen)
    BY DEF Tried
  <2>3. IdleFirst /\ Contended
    BY <2>1, <2>2 DEF IdleFirst, Contended
  <2>4. ReleaseTried
    BY <2>1 DEF ReleaseTried
  <2> QED BY <2>3, <2>4 DEF Undisturbed
<1>2. (Inv /\ Answerable) /\ Undisturbed /\ [Next]_vars => Undisturbed'
  BY ContendedNext, ReleaseTriedNext DEF Undisturbed
<1> QED BY <1>1, <1>2, Noted, PTL DEF Spec

(* Every answer to a request during which the collection did not change is *)
(* the one an atomic registry gives: the order in which claimOnce tries    *)
(* its writes and DiagnoseClaim and DiagnoseRelease explain a miss agrees  *)
(* with the rules, whatever else runs and whichever fold tables are in use. *)
THEOREM UndisturbedAnswers == Spec => []UndisturbedExplained
<1>1. ASSUME Inv, Answerable, Undisturbed, UndisturbedExplained, [Next]_vars
      PROVE  UndisturbedExplained'
  <2> SUFFICES ASSUME Next, reply' # None, reply'.answer # Failed, reply'.foreign = 0
               PROVE  reply'.explained
    BY <1>1 DEF UndisturbedExplained, vars
  <2>1. PICK r \in Requests : ClaimStep(r) \/ ReleaseStep(r) \/ StoreFails(r)
    BY Silent
  <2>2. \A a : Report(r, a) => foreign[r] = 0
    BY ReportSays
  <2>3. CASE ClaimStep(r)
    <3>1. foreign[r] = 0
      BY <1>1, <2>2, <2>3, ClaimResponds
    <3>2. attempt[r] \in {1, 2}
      BY <1>1, CountKept
    <3>3. Tried(rows, pc[r], input[r], read[r])
      BY <1>1, <3>1, <3>2 DEF Undisturbed, Contended
    <3> QED BY <1>1, <2>3, <3>3, UndisturbedClaim, ReportSays
  <2>4. CASE ReleaseStep(r)
    <3>1. foreign[r] = 0
      BY <1>1, <2>2, <2>4, ReleaseExplained
    <3> QED BY <1>1, <2>4, <3>1, UndisturbedRelease, ReportSays DEF Undisturbed
  <2>5. CASE StoreFails(r)
    BY <2>5, ReportSays DEF StoreFails
  <2> QED BY <2>1, <2>3, <2>4, <2>5
<1>2. Init => UndisturbedExplained
  BY DEF Init, UndisturbedExplained
<1>3. (Inv /\ Answerable /\ Undisturbed) /\ UndisturbedExplained /\ [Next]_vars => UndisturbedExplained'
  BY <1>1
<1> QED BY <1>2, <1>3, UndisturbedHolds, PTL DEF Spec

(* One request at a time.                                                  *)
OneRequest == \A r, s \in Requests : r = s

(* Then nobody else writes: a request that writes has ended.               *)
AloneCounts == OneRequest => (\A r \in Requests : foreign[r] = 0) /\ (reply # None => reply.foreign = 0)

LEMMA WriterEnds ==
  ASSUME Inv, NEW r \in Requests, StepOf(r), rows' # rows
  PROVE  pc'[r] = "idle"
<1>0. DOMAIN pc = Requests
  BY DEF Inv, TypeOK
<1>1. \A a : Report(r, a) => pc'[r] = "idle"
  BY <1>0 DEF Report
<1>2. ~ PutHandle(r) /\ ~ AdminReleaseHandle(r)
  BY DEF PutHandle, AdminReleaseHandle, Arrive
<1>3. CASE ClaimStep(r)
  <2>1. ~ DiagnoseHandle(r)
    BY DEF DiagnoseHandle, Goto
  <2>2. ~ DiagnoseKey(r) /\ ~ DiagnoseSkeleton(r)
    BY DEF DiagnoseKey, DiagnoseSkeleton, Goto, RetryOnce
  <2> QED BY <1>1, <1>3, <2>1, <2>2 DEF ClaimStep, OwnerUpdate, Reclaim, Insert, Goto
<1>4. CASE ReleaseStep(r)
  BY <1>1, <1>4 DEF ReleaseStep, ReleaseHandle, DiagnoseRelease, Goto
<1>5. CASE StoreFails(r)
  BY <1>1, <1>5 DEF StoreFails
<1> QED BY <1>2, <1>3, <1>4, <1>5 DEF StepOf

LEMMA AloneNext ==
  ASSUME Inv, AloneCounts, [Next]_vars
  PROVE  AloneCounts'
<1> SUFFICES ASSUME OneRequest, Next
             PROVE  (\A r \in Requests : foreign'[r] = 0) /\ (reply' # None => reply'.foreign = 0)
  BY DEF AloneCounts, OneRequest, vars
<1>1. ASSUME NEW r \in Requests
      PROVE  foreign'[r] = 0
  <2>1. foreign[r] = 0
    BY DEF AloneCounts
  <2>2. CASE rows' = rows
    BY <2>1, <2>2, CountKept
  <2>3. CASE rows' # rows
    <3>1. PICK x \in Requests : StepOf(x)
      BY <2>3 DEF Next, Tick, StepOf
    <3>2. x = r
      BY DEF OneRequest
    <3>3. pc'[r] = "idle"
      BY <2>3, <3>1, <3>2, WriterEnds
    <3> QED BY <3>3, CountKept
  <2> QED BY <2>2, <2>3
<1>2. ASSUME reply' # None
      PROVE  reply'.foreign = 0
  <2>1. PICK r \in Requests : ClaimStep(r) \/ ReleaseStep(r) \/ StoreFails(r)
    BY <1>2, Silent
  <2>2. \E a : Report(r, a)
    BY <1>2, <2>1, ClaimResponds
       DEF ReleaseStep, ReleaseHandle, DiagnoseRelease, StoreFails, Goto
  <2>3. foreign[r] = 0
    BY DEF AloneCounts
  <2> QED BY <2>2, <2>3, ReportSays
<1> QED BY <1>1, <1>2

(* With one request at a time every answer of PUT /api/handle and of the   *)
(* release endpoint is the right one of the twelve, for all handles, keys, *)
(* certificates and fold tables; ErrClaimRaced is then never an answer.    *)
THEOREM AnswersAreExplained == Spec => [](OneRequest => AnswersExplained)
<1>1. Init => AloneCounts
  BY DEF Init, AloneCounts
<1>2. Inv /\ AloneCounts /\ [Next]_vars => AloneCounts'
  BY AloneNext
<1>3. AloneCounts /\ UndisturbedExplained => (OneRequest => AnswersExplained)
  BY DEF AloneCounts, UndisturbedExplained, AnswersExplained
<1> QED BY <1>1, <1>2, <1>3, InvHolds, UndisturbedAnswers, PTL DEF Spec
=============================================================================
