---------------------------- MODULE HandleRegistry ----------------------------
(***************************************************************************)
(* The handle registry: PUT /api/handle and POST /admin/handle/release     *)
(* over the Mongo collection "handles".                                    *)
(*                                                                         *)
(* A request is a goroutine that makes several database calls, and every   *)
(* call is one atomic step: the owner update, the reclaim and the insert   *)
(* of mongostore's claimOnce, the up to three reads of                     *)
(* storage.DiagnoseClaim, the release write and the read of                *)
(* storage.DiagnoseRelease.  Steps of different requests interleave.  Any  *)
(* call may fail, and a write whose reply is lost may still have applied.  *)
(*                                                                         *)
(* The module promises HandleDirectory; the property at the end states the *)
(* refinement.                                                             *)
(***************************************************************************)
EXTENDS Naturals, FiniteSets

CONSTANTS
  Requests,      \* request goroutines of all replicas
  Handles, Keys, \* names and identity keys
  Skeletons,     \* look-alike classes of names
  Folds,         \* fold tables of the deployed releases: subset of [Handles -> Skeletons]
  Serials,       \* certificate serial numbers
  Bodies,        \* whatever else a certificate says
  Cooldown,      \* HANDLE_COOLDOWN_DAYS
  MaxClockSkew,  \* how far ahead of the server a certificate may be dated
  MaxTime,       \* bound on the clock
  MaxForeign,    \* how far the observers count the writes of others, at least to 2
  None           \* an absent field, an absent answer

ASSUME RegistryAssumption ==
  /\ Cooldown \in Nat
  /\ MaxClockSkew \in Nat
  /\ MaxTime \in Nat \ {0}
  /\ MaxForeign \in Nat \ {0, 1}
  /\ Folds \subseteq [Handles -> Skeletons]
  /\ None \notin Keys /\ None \notin Skeletons /\ None \notin Serials
  /\ None \notin Nat

Owner == "owner"         \* storage.ReleasedByOwner
Operator == "operator"   \* an admin's key, or the lapse sweep

(* The clock starts at 1, so 0 is older than every certificate.            *)
Times == 1 .. MaxTime
Dates == 1 .. (MaxTime + MaxClockSkew)

(* A signed profile certificate, of which storage keeps the document.      *)
Certificates ==
  [handle: Handles, identityKey: Keys, serialNumber: Serials, issuedAt: Dates,
   released: BOOLEAN, body: Bodies]

(* A document of the collection.  createdAt, updatedAt and releasedAt are  *)
(* left out: nothing reads them back.                                      *)
Rows ==
  [skeleton: Skeletons \cup {None}, identityKey: Keys \cup {None},
   lastIdentityKey: Keys \cup {None}, certificate: Certificates \cup {None},
   serialNumber: Serials \cup {None}, issuedAt: Dates \cup {0},
   cooldownUntil: Nat \cup {None}, releasedBy: {None, Owner, Operator}]

(* The handle has never been claimed: there is no document.                *)
NoRow ==
  [skeleton |-> None, identityKey |-> None, lastIdentityKey |-> None,
   certificate |-> None, serialNumber |-> None, issuedAt |-> 0,
   cooldownUntil |-> None, releasedBy |-> None]

(* Every document names the last key that held the handle.                 *)
Exists(row) == row.lastIdentityKey # None
Active(row) == row.identityKey # None

(* What a request carries: a claim (HandleClaim), an owner's tombstone or  *)
(* an operator's release (HandleRelease).  handle and now are read by all  *)
(* three, cert and skeleton not by an operator's release, cooldownUntil    *)
(* by the releases only.                                                   *)
Inputs ==
  [kind: {"claim", "tombstone", "revoke"}, handle: Handles,
   cert: Certificates \cup {None}, skeleton: Skeletons \cup {None},
   cooldownUntil: Nat \cup {None}, now: Times]

(* An absent field is told apart from everything stored in one.            *)
ASSUME NoneAssumption ==
  None \notin Certificates /\ None \notin Inputs /\ None \notin {Owner, Operator}

Created == "created"
Updated == "updated"
Unchanged == "unchanged"
Released == "released"
Taken == "ERR_HANDLE_TAKEN"
TooSimilar == "ERR_HANDLE_TOO_SIMILAR"
KeyHasHandle == "ERR_KEY_HAS_HANDLE"
InCooldown == "ERR_HANDLE_COOLDOWN"
Stale == "ERR_STALE_CERTIFICATE"
NotFound == "ERR_HANDLE_NOT_FOUND"
Raced == "ErrClaimRaced"          \* reaches the client as ERR_INTERNAL
Failed == "ERR_INTERNAL"          \* the database did not answer

Answers == {Created, Updated, Unchanged, Released, Taken, TooSimilar,
            KeyHasHandle, InCooldown, Stale, NotFound, Raced, Failed}

(* A response, with the claim or release it answers and what the observers *)
(* below saw of it.                                                        *)
Replies ==
  [kind: {"claim", "tombstone", "revoke"}, answer: Answers,
   explained: BOOLEAN, keyHeld: BOOLEAN, foreign: 0 .. MaxForeign]

VARIABLES
  rows,     \* the collection
  clock,    \* the server's clock
  pc,       \* pc[r]: the database call request r makes next
  input,    \* input[r]: what r carries
  attempt,  \* attempt[r]: which of ClaimHandle's two passes r is in
  read,     \* read[r]: the document the diagnosis of r has read
  reply,    \* the response the last step wrote, None if it wrote none
  (* observers of the run, never read by the server *)
  possible, \* possible[r]: what an atomic registry could have answered r so far
  foreign   \* foreign[r]: writes of others during r, counted up to MaxForeign

vars == <<rows, clock, pc, input, attempt, read, reply, possible, foreign>>

ClaimCalls == {"update", "reclaim", "insert", "diagHandle", "diagKey", "diagSkeleton"}
ReleaseCalls == {"release", "diagRelease"}
Calls == ClaimCalls \cup ReleaseCalls

-----------------------------------------------------------------------------
(* What an atomic registry answers: the whole of a claim or a release      *)
(* decided on one state of the collection, by the rules of the contract    *)
(* and not by the order in which the code finds them out.                  *)

HoldsOther(docs, k, h) == \E g \in Handles \ {h} : docs[g].identityKey = k
LooksLikeOther(docs, s, h) == \E g \in Handles \ {h} : docs[g].skeleton = s

ClaimOutcome(docs, in) ==
  LET c == in.cert
      row == docs[in.handle]
      exempt == row.releasedBy = Owner /\ row.lastIdentityKey = c.identityKey
      parked == row.cooldownUntil # None /\ row.cooldownUntil > in.now /\ ~ exempt
  IN IF Active(row) /\ row.identityKey # c.identityKey THEN Taken
     ELSE IF Active(row) /\ row.certificate = c THEN Unchanged
     ELSE IF c.issuedAt <= row.issuedAt THEN Stale
     ELSE IF Active(row) /\ c.serialNumber = row.serialNumber THEN Stale
     ELSE IF HoldsOther(docs, c.identityKey, in.handle) THEN KeyHasHandle
     ELSE IF parked THEN InCooldown
     ELSE IF LooksLikeOther(docs, in.skeleton, in.handle) THEN TooSimilar
     ELSE IF Active(row) THEN Updated
     ELSE Created

ReleaseOutcome(docs, in) ==
  LET row == docs[in.handle]
      owned == in.kind = "tombstone"
      applied == /\ owned /\ row.releasedBy = Owner
                 /\ row.lastIdentityKey = in.cert.identityKey
                 /\ row.issuedAt = in.cert.issuedAt
  IN IF ~ Active(row) THEN (IF applied THEN Released ELSE NotFound)
     ELSE IF owned /\ row.identityKey # in.cert.identityKey THEN Taken
     ELSE IF owned /\ in.cert.issuedAt <= row.issuedAt THEN Stale
     ELSE Released

Outcome(docs, in) ==
  IF in.kind = "claim" THEN ClaimOutcome(docs, in) ELSE ReleaseOutcome(docs, in)

(* Ghost state: what could have been answered so far, and how often others *)
(* wrote while the request was running.                                    *)
Observe ==
  /\ possible' = [r \in Requests |->
       IF pc'[r] = "idle" THEN {} ELSE possible[r] \cup {Outcome(rows', input'[r])}]
  /\ foreign' = [r \in Requests |->
       IF pc'[r] = "idle" THEN 0
       ELSE IF rows' # rows /\ foreign[r] < MaxForeign THEN foreign[r] + 1
       ELSE foreign[r]]

-----------------------------------------------------------------------------
(* The unique indexes of the collection: a skeleton is reserved by one     *)
(* document whatever its state, an identity key holds one handle.  The     *)
(* third key, _id, is the domain of rows.                                  *)
SkeletonIndex(docs) ==
  \A g, h \in Handles :
    g # h /\ Exists(docs[g]) /\ Exists(docs[h]) => docs[g].skeleton # docs[h].skeleton

IdentityKeyIndex(docs) ==
  \A g, h \in Handles : g # h /\ Active(docs[g]) => docs[g].identityKey # docs[h].identityKey

UniqueIndexes(docs) == SkeletonIndex(docs) /\ IdentityKeyIndex(docs)

(* The filters of the four conditional writes and the documents they leave. *)
OwnerUpdateFilter(row, c) ==
  /\ row.identityKey = c.identityKey
  /\ row.issuedAt < c.issuedAt
  /\ row.serialNumber # c.serialNumber

OwnerUpdated(row, c, skeleton) ==
  [row EXCEPT !.skeleton = skeleton, !.certificate = c,
              !.serialNumber = c.serialNumber, !.issuedAt = c.issuedAt]

(* Mutant: whoever held the handle last skips the cooldown.                *)
ReclaimFilterAnyLeaver(row, c, now) ==
  /\ Exists(row) /\ ~ Active(row)
  /\ row.issuedAt < c.issuedAt
  /\ \/ row.lastIdentityKey = c.identityKey
     \/ row.cooldownUntil = None
     \/ row.cooldownUntil # None /\ row.cooldownUntil <= now

(* Mutant: a reclaim does not compare dates.                               *)
ReclaimFilterAnyDate(row, c, now) ==
  /\ Exists(row) /\ ~ Active(row)
  /\ \/ row.lastIdentityKey = c.identityKey /\ row.releasedBy = Owner
     \/ row.cooldownUntil = None
     \/ row.cooldownUntil # None /\ row.cooldownUntil <= now

ReclaimFilter(row, c, now) ==
  /\ Exists(row) /\ ~ Active(row)
  /\ row.issuedAt < c.issuedAt
  /\ \/ row.lastIdentityKey = c.identityKey /\ row.releasedBy = Owner
     \/ row.cooldownUntil = None
     \/ row.cooldownUntil # None /\ row.cooldownUntil <= now

(* The document a reclaim leaves is the document an insert writes.         *)
Claimed(c, skeleton) ==
  [skeleton |-> skeleton, identityKey |-> c.identityKey,
   lastIdentityKey |-> c.identityKey, certificate |-> c,
   serialNumber |-> c.serialNumber, issuedAt |-> c.issuedAt,
   cooldownUntil |-> None, releasedBy |-> None]

ReleaseFilter(row, in) ==
  /\ Active(row)
  /\ in.kind = "tombstone" => /\ row.identityKey = in.cert.identityKey
                              /\ row.issuedAt < in.cert.issuedAt

(* Mutant: the certificate outlives the release.                           *)
ReleasedRowKeepsCertificate(row, in) ==
  [row EXCEPT !.identityKey = None,
              !.issuedAt = IF in.kind = "tombstone" THEN in.cert.issuedAt ELSE @,
              !.cooldownUntil = in.cooldownUntil,
              !.releasedBy = IF in.kind = "tombstone" THEN Owner ELSE Operator]

ReleasedRow(row, in) ==
  [row EXCEPT !.identityKey = None, !.certificate = None,
              !.issuedAt = IF in.kind = "tombstone" THEN in.cert.issuedAt ELSE @,
              !.cooldownUntil = in.cooldownUntil,
              !.releasedBy = IF in.kind = "tombstone" THEN Owner ELSE Operator]

(* Document d replaces the one of handle h, if the indexes allow it.       *)
Put(h, d) == [rows EXCEPT ![h] = d]
Accepts(h, d) == UniqueIndexes(Put(h, d))

-----------------------------------------------------------------------------
Init ==
  /\ rows = [h \in Handles |-> NoRow]
  /\ clock = 1
  /\ pc = [r \in Requests |-> "idle"]
  /\ input = [r \in Requests |-> None]
  /\ attempt = [r \in Requests |-> 1]
  /\ read = [r \in Requests |-> NoRow]
  /\ reply = None
  /\ possible = [r \in Requests |-> {}]
  /\ foreign = [r \in Requests |-> 0]

Tick ==
  /\ clock < MaxTime
  /\ clock' = clock + 1
  /\ reply' = None
  /\ UNCHANGED <<rows, pc, input, attempt, read>>
  /\ Observe

Arrive(r, call, in) ==
  /\ pc[r] = "idle"
  /\ pc' = [pc EXCEPT ![r] = call]
  /\ input' = [input EXCEPT ![r] = in]
  /\ reply' = None
  /\ UNCHANGED <<rows, clock, attempt, read>>
  /\ Observe

(* The request makes another call next.                                    *)
Goto(r, call) ==
  /\ pc' = [pc EXCEPT ![r] = call]
  /\ reply' = None
  /\ UNCHANGED <<rows, clock, input, attempt, read>>

(* The response is written and the goroutine ends.                         *)
Report(r, a) ==
  /\ pc' = [pc EXCEPT ![r] = "idle"]
  /\ input' = [input EXCEPT ![r] = None]
  /\ attempt' = [attempt EXCEPT ![r] = 1]
  /\ read' = [read EXCEPT ![r] = NoRow]
  /\ reply' = [kind |-> input[r].kind, answer |-> a,
               explained |-> a \in possible[r], keyHeld |-> KeyHasHandle \in possible[r],
               foreign |-> foreign[r]]
  /\ UNCHANGED clock

(* Mutant: ErrClaimRaced is not retried.                                   *)
RetryNever(r) == Report(r, Raced) /\ UNCHANGED rows

(* Mutant: ClaimHandle retries for as long as it is raced.                 *)
RetryForever(r) ==
  /\ attempt' = [attempt EXCEPT ![r] = @ + 1]
  /\ pc' = [pc EXCEPT ![r] = "update"]
  /\ read' = [read EXCEPT ![r] = NoRow]
  /\ reply' = None
  /\ UNCHANGED <<rows, clock, input>>

(* ErrClaimRaced: ClaimHandle runs claimOnce a second time, and only once. *)
RetryOnce(r) ==
  \/ /\ attempt[r] = 1
     /\ attempt' = [attempt EXCEPT ![r] = 2]
     /\ pc' = [pc EXCEPT ![r] = "update"]
     /\ read' = [read EXCEPT ![r] = NoRow]
     /\ reply' = None
     /\ UNCHANGED <<rows, clock, input>>
  \/ /\ attempt[r] = 2
     /\ Report(r, Raced) /\ UNCHANGED rows

(* A certificate is presented: PutHandle reads the clock once, refuses a   *)
(* certificate dated too far ahead, and routes a tombstone to              *)
(* ReleaseHandle and anything else to ClaimHandle with the skeleton this   *)
(* release's fold table gives the handle.                                  *)
PutHandle(r) ==
  \E h \in Handles, k \in Keys, s \in Serials, b \in Bodies, t \in 1 .. (clock + MaxClockSkew) :
    \/ \E fold \in Folds :
         Arrive(r, "update",
           [kind |-> "claim", handle |-> h, skeleton |-> fold[h], cooldownUntil |-> None, now |-> clock,
            cert |-> [handle |-> h, identityKey |-> k, serialNumber |-> s, issuedAt |-> t,
                      released |-> FALSE, body |-> b]])
    \/ Arrive(r, "release",
         [kind |-> "tombstone", handle |-> h, skeleton |-> None, cooldownUntil |-> clock + Cooldown,
          now |-> clock,
          cert |-> [handle |-> h, identityKey |-> k, serialNumber |-> s, issuedAt |-> t,
                    released |-> TRUE, body |-> b]])

(* adminReleaseHandle: no cooldown unless the operator asks for one.       *)
AdminReleaseHandle(r) ==
  \E h \in Handles, skipCooldown \in BOOLEAN :
    Arrive(r, "release",
      [kind |-> "revoke", handle |-> h, skeleton |-> None, cert |-> None, now |-> clock,
       cooldownUntil |-> IF skipCooldown THEN None ELSE clock + Cooldown])

-----------------------------------------------------------------------------
(* claimOnce: three conditional writes, tried in this order.               *)

OwnerUpdate(r) ==
  LET h == input[r].handle
      c == input[r].cert
      d == OwnerUpdated(rows[h], c, input[r].skeleton)
  IN /\ pc[r] = "update"
     /\ \/ /\ OwnerUpdateFilter(rows[h], c)
           /\ Accepts(h, d)
           /\ rows' = Put(h, d)
           /\ Report(r, Updated)
        \/ /\ OwnerUpdateFilter(rows[h], c)
           /\ ~ Accepts(h, d)
           /\ Goto(r, "diagHandle")
        \/ /\ ~ OwnerUpdateFilter(rows[h], c)
           /\ Goto(r, "reclaim")
     /\ Observe

Reclaim(r) ==
  LET h == input[r].handle
      c == input[r].cert
      d == Claimed(c, input[r].skeleton)
  IN /\ pc[r] = "reclaim"
     /\ \/ /\ ReclaimFilter(rows[h], c, input[r].now)
           /\ Accepts(h, d)
           /\ rows' = Put(h, d)
           /\ Report(r, Created)
        \/ /\ ReclaimFilter(rows[h], c, input[r].now)
           /\ ~ Accepts(h, d)
           /\ Goto(r, "diagHandle")
        \/ /\ ~ ReclaimFilter(rows[h], c, input[r].now)
           /\ Goto(r, "insert")
     /\ Observe

Insert(r) ==
  LET h == input[r].handle
      d == Claimed(input[r].cert, input[r].skeleton)
  IN /\ pc[r] = "insert"
     /\ \/ /\ ~ Exists(rows[h])
           /\ Accepts(h, d)
           /\ rows' = Put(h, d)
           /\ Report(r, Created)
        \/ /\ Exists(rows[h]) \/ ~ Accepts(h, d)
           /\ Goto(r, "diagHandle")
     /\ Observe

-----------------------------------------------------------------------------
(* DiagnoseClaim: one read per step, decided on what that read returned.   *)

(* Mutant: a certificate is recognised by its serial alone.                *)
SameSerial(row, c) == row.serialNumber = c.serialNumber

SameCertificate(row, c) ==
  /\ row.serialNumber = c.serialNumber
  /\ row.issuedAt = c.issuedAt
  /\ row.certificate = c

CooldownExempt(row, k) == row.lastIdentityKey = k /\ row.releasedBy = Owner

DiagnoseHandle(r) ==
  LET c == input[r].cert
      row == rows[input[r].handle]
      newer == c.issuedAt > row.issuedAt
      own == Active(row) /\ row.identityKey = c.identityKey
      updatable == newer /\ c.serialNumber # row.serialNumber
  IN /\ pc[r] = "diagHandle"
     /\ \/ /\ Active(row) /\ ~ own
           /\ Report(r, Taken) /\ UNCHANGED rows
        \/ /\ own /\ SameCertificate(row, c)
           /\ Report(r, Unchanged) /\ UNCHANGED rows
        \/ /\ own /\ ~ SameCertificate(row, c) /\ updatable
           /\ Goto(r, "diagSkeleton")
        \/ /\ own /\ ~ SameCertificate(row, c) /\ ~ updatable
           /\ Report(r, Stale) /\ UNCHANGED rows
        \/ /\ Exists(row) /\ ~ Active(row) /\ ~ newer
           /\ Report(r, Stale) /\ UNCHANGED rows
        \/ /\ ~ Active(row) /\ (Exists(row) => newer)
           /\ pc' = [pc EXCEPT ![r] = "diagKey"]
           /\ read' = [read EXCEPT ![r] = row]
           /\ reply' = None
           /\ UNCHANGED <<rows, clock, input, attempt>>
     /\ Observe

(* GetHandleByIdentityKey; the cooldown is then judged on the document     *)
(* read earlier.                                                           *)
DiagnoseKey(r) ==
  LET k == input[r].cert.identityKey
      held == \E g \in Handles : rows[g].identityKey = k
      cooling == /\ Exists(read[r])
                 /\ read[r].cooldownUntil # None
                 /\ read[r].cooldownUntil > input[r].now
                 /\ ~ CooldownExempt(read[r], k)
  IN /\ pc[r] = "diagKey"
     /\ \/ /\ held
           /\ Report(r, KeyHasHandle) /\ UNCHANGED rows
        \/ /\ ~ held /\ cooling
           /\ Report(r, InCooldown) /\ UNCHANGED rows
        \/ /\ ~ held /\ ~ cooling
           /\ Goto(r, "diagSkeleton")
     /\ Observe

(* GetHandleBySkeleton returned the document of another handle.            *)
SkeletonHeldByOther(in) ==
  \E g \in Handles : g # in.handle /\ Exists(rows[g]) /\ rows[g].skeleton = in.skeleton

(* The last read of both paths: a claim of a free handle and an owner      *)
(* update with a certificate the row would take.                           *)
DiagnoseSkeleton(r) ==
  /\ pc[r] = "diagSkeleton"
  /\ \/ /\ SkeletonHeldByOther(input[r])
        /\ Report(r, TooSimilar) /\ UNCHANGED rows
     \/ /\ ~ SkeletonHeldByOther(input[r])
        /\ RetryOnce(r)
  /\ Observe

-----------------------------------------------------------------------------
(* ReleaseHandle: one conditional write, and one read to explain a miss.   *)

ReleaseHandle(r) ==
  LET h == input[r].handle
  IN /\ pc[r] = "release"
     /\ \/ /\ ReleaseFilter(rows[h], input[r])
           /\ rows' = Put(h, ReleasedRow(rows[h], input[r]))
           /\ Report(r, Released)
        \/ /\ ~ ReleaseFilter(rows[h], input[r])
           /\ Goto(r, "diagRelease")
     /\ Observe

(* Mutant: a repeated tombstone is not recognised.                         *)
ReleaseNeverApplied(row, in) == FALSE

ReleaseAlreadyApplied(row, in) ==
  /\ in.kind = "tombstone"
  /\ row.releasedBy = Owner
  /\ row.lastIdentityKey = in.cert.identityKey
  /\ row.issuedAt = in.cert.issuedAt

DiagnoseRelease(r) ==
  LET in == input[r]
      row == rows[in.handle]
      owned == in.kind = "tombstone"
      other == owned /\ row.identityKey # in.cert.identityKey
  IN /\ pc[r] = "diagRelease"
     /\ \/ /\ ~ Active(row) /\ Exists(row) /\ ReleaseAlreadyApplied(row, in)
           /\ Report(r, Released)
        \/ /\ ~ Active(row) /\ ~ (Exists(row) /\ ReleaseAlreadyApplied(row, in))
           /\ Report(r, NotFound)
        \/ /\ Active(row) /\ other
           /\ Report(r, Taken)
        \/ /\ Active(row) /\ owned /\ ~ other
           /\ Report(r, Stale)
        \/ /\ Active(row) /\ ~ owned
           /\ Report(r, Failed)
     /\ UNCHANGED rows
     /\ Observe

-----------------------------------------------------------------------------
(* The database does not answer a call: a timeout, a dropped reply, a      *)
(* stepdown.  A write may have applied all the same; the caller is told    *)
(* only that storage failed.                                               *)
MayApply(r) ==
  LET h == input[r].handle
      c == input[r].cert
  IN \/ /\ pc[r] = "update" /\ OwnerUpdateFilter(rows[h], c)
        /\ Accepts(h, OwnerUpdated(rows[h], c, input[r].skeleton))
        /\ rows' = Put(h, OwnerUpdated(rows[h], c, input[r].skeleton))
     \/ /\ \/ pc[r] = "reclaim" /\ ReclaimFilter(rows[h], c, input[r].now)
           \/ pc[r] = "insert" /\ ~ Exists(rows[h])
        /\ Accepts(h, Claimed(c, input[r].skeleton))
        /\ rows' = Put(h, Claimed(c, input[r].skeleton))
     \/ /\ pc[r] = "release" /\ ReleaseFilter(rows[h], input[r])
        /\ rows' = Put(h, ReleasedRow(rows[h], input[r]))

StoreFails(r) ==
  /\ pc[r] \in Calls
  /\ MayApply(r) \/ UNCHANGED rows
  /\ Report(r, Failed)
  /\ Observe

ClaimStep(r) ==
  \/ OwnerUpdate(r) \/ Reclaim(r) \/ Insert(r)
  \/ DiagnoseHandle(r) \/ DiagnoseKey(r) \/ DiagnoseSkeleton(r)

ReleaseStep(r) == ReleaseHandle(r) \/ DiagnoseRelease(r)

Next ==
  \/ Tick
  \/ \E r \in Requests :
       \/ PutHandle(r) \/ AdminReleaseHandle(r)
       \/ ClaimStep(r) \/ ReleaseStep(r)
       \/ StoreFails(r)

Spec == Init /\ [][Next]_vars

-----------------------------------------------------------------------------
(* Every variable has its type.                                            *)
TypeOK ==
  /\ rows \in [Handles -> Rows]
  /\ clock \in Times
  /\ pc \in [Requests -> Calls \cup {"idle"}]
  /\ input \in [Requests -> Inputs \cup {None}]
  /\ attempt \in [Requests -> {1, 2}]
  /\ read \in [Requests -> Rows]
  /\ reply \in Replies \cup {None}
  /\ possible \in [Requests -> SUBSET Answers]
  /\ foreign \in [Requests -> 0 .. MaxForeign]

(* What a lookup of h may find in its row.                                 *)
Served(h, row) ==
  IF Active(row)
  THEN /\ row.certificate # None
       /\ row.certificate.handle = h
       /\ row.certificate.identityKey = row.identityKey
       /\ row.certificate.serialNumber = row.serialNumber
       /\ row.certificate.issuedAt = row.issuedAt
       /\ ~ row.certificate.released
       /\ row.lastIdentityKey = row.identityKey
       /\ row.releasedBy = None /\ row.cooldownUntil = None
  ELSE /\ row.certificate = None
       /\ Exists(row) <=> row.releasedBy # None

(* A lookup serves the certificate of the row.  While a handle is held,    *)
(* that certificate names the handle and the holder, carries the serial    *)
(* and the date the replay guard compares with, and is not a tombstone;    *)
(* once it is released there is none.                                      *)
CertificateMatchesRow == \A h \in Handles : Served(h, rows[h])

(* A stranger never takes a released handle before its cooldown has run    *)
(* out by the clock, although claims judge it by the clock they read when  *)
(* they arrived; the key that gave the handle up may, the key an operator  *)
(* removed may not.                                                        *)
CooldownHonoured ==
  [][\A h \in Handles :
       LET old == rows[h] IN
       Exists(old) /\ ~ Active(old) /\ Active(rows'[h])
         => \/ old.cooldownUntil = None
            \/ old.cooldownUntil # None /\ old.cooldownUntil <= clock
            \/ CooldownExempt(old, rows'[h].identityKey)]_vars

(* With nobody else writing, the three writes and the diagnosis answer     *)
(* exactly what an atomic registry decides on the documents: every answer  *)
(* is the right one of the twelve, and no claim is ever raced.             *)
AnswersExplained == reply # None /\ reply.answer # Failed => reply.explained

(* A claim's answer is one an atomic registry would have given at some     *)
(* instant while the request was running, so a success is reported by the  *)
(* request whose write applied, a conflict existed, and a certificate that *)
(* is already stored is acknowledged.  ErrClaimRaced and a silent database *)
(* claim nothing.  ERR_KEY_HAS_HANDLE is left out: a claim that races with *)
(* another of the same key may be told so of the very handle it asks for.  *)
(* And where the rules put that conflict first, the claim may be told of   *)
(* the cooldown or the look-alike it reads before or after.  This is for   *)
(* one fold table: while two are deployed, a look-alike can appear and     *)
(* vanish between two reads.                                               *)
ClaimAnswersExplained ==
  reply # None /\ reply.kind = "claim" /\ reply.answer \notin {Raced, Failed, KeyHasHandle}
    => reply.explained \/ (reply.answer \in {InCooldown, TooSimilar} /\ reply.keyHeld)

(* The same of a release.  ERR_STALE_CERTIFICATE is left out: a tombstone  *)
(* that overtakes the claim it is for may be called stale though its date  *)
(* beats every date the row had.                                           *)
ReleaseAnswersExplained ==
  reply # None /\ reply.kind # "claim" /\ reply.answer \notin {Failed, Stale}
    => reply.explained

(* One retry is enough for one write racing with a claim: the caller sees  *)
(* ErrClaimRaced only when others wrote twice during the call, as when a   *)
(* release lands in the first pass and in the second the claim that        *)
(* another device of the same key makes with an older certificate.         *)
RacedOnlyUnderContention ==
  reply # None /\ reply.answer = Raced => reply.foreign >= 2

(* Mutant: off by one at the date of the last tombstone.                   *)
UnavailableReasonSameDate(h, fold) ==
  LET sim == {g \in Handles : Exists(rows[g]) /\ rows[g].skeleton = fold[h]}
      row == rows[h]
  IN IF sim = {} THEN "available"
     ELSE IF h \notin sim THEN "too_similar"
     ELSE IF Active(row) THEN "taken"
     ELSE IF row.cooldownUntil # None /\ row.cooldownUntil > clock THEN "cooldown"
     ELSE IF ~ (row.issuedAt <= clock) THEN "stale"
     ELSE "available"

(* unavailableReason (GET /api/handle/available) on the current documents. *)
UnavailableReason(h, fold) ==
  LET sim == {g \in Handles : Exists(rows[g]) /\ rows[g].skeleton = fold[h]}
      row == rows[h]
  IN IF sim = {} THEN "available"
     ELSE IF h \notin sim THEN "too_similar"
     ELSE IF Active(row) THEN "taken"
     ELSE IF row.cooldownUntil # None /\ row.cooldownUntil > clock THEN "cooldown"
     ELSE IF ~ (row.issuedAt < clock) THEN "stale"
     ELSE "available"

(* While the rows were written under one fold table, a handle is           *)
(* advertised as available exactly when a key that holds nothing and never *)
(* held this handle would get it with a certificate dated now.             *)
AvailabilityAgrees ==
  \A h \in Handles, k \in Keys, s \in Serials, b \in Bodies, fold \in Folds :
    (/\ \A g \in Handles : Exists(rows[g]) => rows[g].identityKey # k /\ rows[g].skeleton = fold[g]
     /\ rows[h].lastIdentityKey # k)
      => (UnavailableReason(h, fold) = "available" <=>
          ClaimOutcome(rows,
            [kind |-> "claim", handle |-> h, skeleton |-> fold[h], cooldownUntil |-> None,
             now |-> clock,
             cert |-> [handle |-> h, identityKey |-> k, serialNumber |-> s,
                       issuedAt |-> clock, released |-> FALSE, body |-> b]]) = Created)

(* The registry implements the directory.                                  *)
Directory ==
  INSTANCE HandleDirectory WITH
    holder <- [h \in Handles |-> rows[h].identityKey],
    newest <- [h \in Handles |-> rows[h].issuedAt]

ImplementsDirectory == Directory!Spec
=============================================================================
