-------------------------------- MODULE Devices --------------------------------
(***************************************************************************)
(* Device registrations in MongoDB and the pushes that read them, across a *)
(* rolling deploy: replicas of this release register, unregister, push and *)
(* migrate the collection at boot, while replicas of the previous one      *)
(* still write documents in the old shape.                                 *)
(*                                                                         *)
(* A document of the old shape is keyed by its token; one of this release  *)
(* has a key the server assigns, and belongs to one identity and token.    *)
(***************************************************************************)
EXTENDS Naturals, FiniteSets

CONSTANTS
  Identities, Tokens,
  Registrations, Pushes, Boots, \* what may be running
  MaxSeq,                       \* bound on the counter of registrations
  MaxOld,                       \* bound on the registrations of old replicas
  None

ASSUME DevicesAssumption ==
  /\ MaxSeq \in Nat /\ MaxOld \in Nat
  /\ None \notin Identities /\ None \notin Tokens

VARIABLES
  legacy,   \* legacy[t]: the document keyed by token t, or None
  fresh,    \* fresh[k][t]: the document of this release for k and t, or None
  seq,      \* the counter behind registrationId
  old,      \* how many registrations old replicas took
  reg,      \* reg[g]: a running POST /registerDevice
  push,     \* push[p]: a running SendFCMNotification
  boot,     \* boot[b]: a running backfillDeviceTokens
  (* observers, never read by the server *)
  mine,     \* pairs registered through this release, see OldRegister
  gone,     \* pairs unregistered, and not registered since
  refused   \* documents whose token FCM refused, see Accepted

vars == <<legacy, fresh, seq, old, reg, push, boot, mine, gone, refused>>

Ids == 0 .. MaxSeq  \* 0: the document has no registrationId
LegacyDocs == [owner: Identities, hasToken: BOOLEAN, active: BOOLEAN, id: Ids]
FreshDocs == [active: BOOLEAN, id: Ids]

ASSUME NoneIsNoDocument == None \notin LegacyDocs \cup FreshDocs

RegStates ==
  [at: {"idle", "upsert", "insert", "fill", "read"}, key: Identities \cup {None},
   token: Tokens \cup {None}, seq: 0 .. MaxSeq, attempt: {0, 1}]
PushStates ==
  [at: {"idle", "send", "deactivate"}, todo: SUBSET Tokens, token: Tokens \cup {None}]
BootStates ==
  [at: {"idle", "many", "list", "one", "drop"}, todo: SUBSET Tokens, token: Tokens \cup {None}]

IdleReg == [at |-> "idle", key |-> None, token |-> None, seq |-> 0, attempt |-> 0]
IdlePush == [at |-> "idle", todo |-> {}, token |-> None]
IdleBoot == [at |-> "idle", todo |-> {}, token |-> None]

-----------------------------------------------------------------------------
(* byPair: the old document that has its fcmToken, or one of this release. *)
LegacyPair(k, t) == legacy[t] # None /\ legacy[t].owner = k /\ legacy[t].hasToken
Pair(k, t) == LegacyPair(k, t) \/ fresh[k][t] # None

(* A document of the old shape whose fcmToken is still missing.            *)
Lacking(t) == legacy[t] # None /\ ~ legacy[t].hasToken

(* Mutant: an old replica's twin of a registration is not left out.        *)
TwinListedToo(k, t, activeOnly) == FALSE

(* listDevices leaves out a document without fcmToken when another listed  *)
(* one has that token.                                                     *)
Twin(k, t, activeOnly) ==
  ~ legacy[t].hasToken /\ fresh[k][t] # None /\ (activeOnly => fresh[k][t].active)

(* listDevices for k: the documents of each token, by kind.                *)
ListDevices(k, activeOnly) ==
  {<<"legacy", t>> : t \in {x \in Tokens : /\ legacy[x] # None /\ legacy[x].owner = k
                                           /\ activeOnly => legacy[x].active
                                           /\ ~ Twin(k, x, activeOnly)}}
    \cup {<<"fresh", t>> : t \in {x \in Tokens : /\ fresh[k][x] # None
                                                 /\ activeOnly => fresh[k][x].active}}

(* GET /devices: the tokens an identity is told of.                        *)
Told(k) == {d[2] : d \in ListDevices(k, FALSE)}

-----------------------------------------------------------------------------
(* What the previous release left: documents without fcmToken.             *)
Init ==
  /\ legacy \in [Tokens -> {None} \cup
                   {d \in LegacyDocs : ~ d.hasToken /\ d.active /\ d.id = 0}]
  /\ fresh = [k \in Identities |-> [t \in Tokens |-> None]]
  /\ seq = 0 /\ old = 0
  /\ reg = [g \in Registrations |-> IdleReg]
  /\ push = [p \in Pushes |-> IdlePush]
  /\ boot = [b \in Boots |-> IdleBoot]
  /\ mine = {} /\ gone = {} /\ refused = {}

RegGoes(g, r) ==
  /\ reg' = [reg EXCEPT ![g] = r]
  /\ UNCHANGED <<old, push, boot>>

(* The documents of a token: the one keyed by it is None's.                *)
DocsOf(t) == (Identities \cup {None}) \X {t}

(* A document that is written for a registration leaves FCM's refusals of  *)
(* its token behind, but for those a push has in hand.                     *)
InHand(t) == \E p \in Pushes : push[p].at = "deactivate" /\ push[p].token = t
Accepted(k, t) == refused' = IF InHand(t) THEN refused ELSE refused \ {<<k, t>>}

(* k's registration of t through this release is in the collection.        *)
Registered(k, t) ==
  /\ mine' = mine \cup {<<k, t>>}
  /\ gone' = gone \ {<<k, t>>}

(* nextSeq: one atomic increment of the counter.                           *)
NextSeq == seq < MaxSeq /\ seq' = seq + 1

(* POST /registerDevice allocates a number before anything is looked up.   *)
RegisterDevice(g) ==
  /\ reg[g].at = "idle"
  /\ NextSeq
  /\ \E k \in Identities, t \in Tokens :
       RegGoes(g, [at |-> "upsert", key |-> k, token |-> t, seq |-> seq', attempt |-> 0])
  /\ UNCHANGED <<legacy, fresh, mine, gone, refused>>

(* Mutant: a registration that exists is given the new number.             *)
MatchedIdRenewed(r, id) == IF id > 0 THEN r.seq ELSE id

(* $setOnInsert leaves the number of a document that exists.               *)
MatchedId(r, id) == id

(* The upsert finds the pair, and reactivates it, or does not.             *)
Upsert(g) ==
  LET r == reg[g] IN
  /\ r.at = "upsert"
  /\ \/ /\ LegacyPair(r.key, r.token)
        /\ legacy' = [legacy EXCEPT ![r.token].active = TRUE, ![r.token].id = MatchedId(r, @)]
        /\ RegGoes(g, IF legacy[r.token].id > 0 THEN IdleReg ELSE [r EXCEPT !.at = "fill"])
        /\ Registered(r.key, r.token) /\ Accepted(None, r.token)
        /\ UNCHANGED fresh
     \/ /\ fresh[r.key][r.token] # None
        /\ fresh' = [fresh EXCEPT ![r.key][r.token].active = TRUE,
                                  ![r.key][r.token].id = MatchedId(r, @)]
        /\ RegGoes(g, IdleReg)
        /\ Registered(r.key, r.token) /\ Accepted(r.key, r.token)
        /\ UNCHANGED legacy
     \/ /\ ~ Pair(r.key, r.token)
        /\ RegGoes(g, [r EXCEPT !.at = "insert"])
        /\ UNCHANGED <<legacy, fresh, mine, gone, refused>>
  /\ UNCHANGED seq

(* Mutant: one attempt too many.                                           *)
RetriesTwice(r) == r.attempt <= 1

Retries(r) == r.attempt < 1

(* It found none and inserts; the unique index refuses a second document   *)
(* of the pair, and the upsert is tried once more.                         *)
UpsertInsert(g) ==
  LET r == reg[g] IN
  /\ r.at = "insert"
  /\ \/ /\ ~ Pair(r.key, r.token)
        /\ fresh' = [fresh EXCEPT ![r.key][r.token] = [active |-> TRUE, id |-> r.seq]]
        /\ RegGoes(g, IdleReg)
        /\ Registered(r.key, r.token) /\ Accepted(r.key, r.token)
     \/ /\ Pair(r.key, r.token)
        /\ RegGoes(g, IF Retries(r) THEN [r EXCEPT !.at = "upsert", !.attempt = @ + 1] ELSE IdleReg)
        /\ UNCHANGED <<fresh, mine, gone, refused>>
  /\ UNCHANGED <<legacy, seq>>

(* A document without a number, which only the previous release leaves:    *)
(* the number is filled in if it is still missing, and read back.          *)
FillId(g) ==
  LET t == reg[g].token IN
  /\ reg[g].at = "fill"
  /\ legacy' = IF legacy[t] # None /\ legacy[t].id = 0
               THEN [legacy EXCEPT ![t].id = reg[g].seq] ELSE legacy
  /\ RegGoes(g, [reg[g] EXCEPT !.at = "read"])
  /\ UNCHANGED <<fresh, seq, mine, gone, refused>>

ReadId(g) ==
  /\ reg[g].at = "read"
  /\ RegGoes(g, IdleReg)
  /\ UNCHANGED <<legacy, fresh, seq, mine, gone, refused>>

(* Mutant: only documents that have their fcmToken are deleted.            *)
UnregisteredByField(k, t) == IF LegacyPair(k, t) THEN [legacy EXCEPT ![t] = None] ELSE legacy

(* byToken, and the identity.                                              *)
Unregistered(k, t) ==
  IF legacy[t] # None /\ legacy[t].owner = k THEN [legacy EXCEPT ![t] = None] ELSE legacy

(* POST /unregisterDevice.                                                 *)
UnregisterDevice(k, t) ==
  /\ legacy' = Unregistered(k, t)
  /\ fresh' = [fresh EXCEPT ![k][t] = None]
  /\ mine' = mine \ {<<k, t>>}
  /\ gone' = gone \cup {<<k, t>>}
  /\ UNCHANGED <<seq, old, reg, push, boot, refused>>

-----------------------------------------------------------------------------
(* A push to one identity: the active devices, then one after the other.   *)
PushGoes(p, s) ==
  /\ push' = [push EXCEPT ![p] = s]
  /\ UNCHANGED <<seq, old, reg, boot, mine, gone>>

ListActiveDevices(p) ==
  /\ push[p].at = "idle"
  /\ \E k \in Identities :
       /\ ListDevices(k, TRUE) # {}
       /\ PushGoes(p, [IdlePush EXCEPT !.at = "send", !.todo = {d[2] : d \in ListDevices(k, TRUE)}])
  /\ UNCHANGED <<legacy, fresh, refused>>

(* IsUnregistered, or IsInvalidArgument.                                   *)
IsInvalidTokenError(outcome) == outcome \in {"unregistered", "invalidArgument"}

(* What FCM answers: the token is unregistered; an argument is invalid,    *)
(* which a payload it refuses gets as well, for a token that works; or the *)
(* send fails otherwise.                                                   *)
Outcomes == {"delivered", "unregistered", "invalidArgument", "failed"}

SendFCM(p) ==
  /\ push[p].at = "send"
  /\ \E t \in push[p].todo, outcome \in Outcomes :
       /\ refused' = IF outcome \in {"unregistered", "invalidArgument"}
                     THEN refused \cup DocsOf(t) ELSE refused
       /\ PushGoes(p, IF IsInvalidTokenError(outcome)
                      THEN [push[p] EXCEPT !.at = "deactivate", !.token = t]
                      ELSE IF push[p].todo = {t} THEN IdlePush
                      ELSE [push[p] EXCEPT !.todo = @ \ {t}])
  /\ UNCHANGED <<legacy, fresh>>

(* DeactivateDevice: every document of the token.  The push goes on to the *)
(* next device, even if that failed.                                       *)
DeactivateDevice(p) ==
  LET s == push[p] IN
  /\ s.at = "deactivate"
  /\ \/ /\ legacy' = IF legacy[s.token] # None THEN [legacy EXCEPT ![s.token].active = FALSE] ELSE legacy
        /\ fresh' = [k \in Identities |->
             IF fresh[k][s.token] # None THEN [fresh[k] EXCEPT ![s.token].active = FALSE] ELSE fresh[k]]
     \/ UNCHANGED <<legacy, fresh>>
  /\ PushGoes(p, IF s.todo = {s.token} THEN IdlePush
                 ELSE [IdlePush EXCEPT !.at = "send", !.todo = s.todo \ {s.token}])
  /\ UNCHANGED refused

-----------------------------------------------------------------------------
(* backfillDeviceTokens gives the documents it finds lacking their         *)
(* fcmToken: all in one command, which stops at the first that collides    *)
(* with a registration of this release, and then one by one.               *)
BootGoes(b, s) ==
  /\ boot' = [boot EXCEPT ![b] = s]
  /\ UNCHANGED <<fresh, seq, old, reg, push, mine, gone, refused>>

Filled(t) == [legacy EXCEPT ![t].hasToken = TRUE]
Collides(t) == fresh[legacy[t].owner][t] # None
After(s, t) == IF s.todo = {t} THEN IdleBoot ELSE [s EXCEPT !.todo = @ \ {t}]

BackfillStart(b) ==
  /\ boot[b].at \in {"idle", "list"}
  /\ LET todo == {t \in Tokens : Lacking(t)} IN
     BootGoes(b, IF todo = {} THEN IdleBoot
                 ELSE [IdleBoot EXCEPT !.at = IF boot[b].at = "idle" THEN "many" ELSE "one",
                                       !.todo = todo])
  /\ UNCHANGED legacy

(* Mutant: the documents are not looked at again.                          *)
StillLackingAny(t) == legacy[t] # None

(* The filter of every write: a replica that got there first is not undone. *)
StillLacking(t) == Lacking(t)

BackfillStep(b) ==
  LET s == boot[b] IN
  /\ s.at \in {"many", "one"}
  /\ \E t \in s.todo :
       \/ /\ ~ StillLacking(t)
          /\ BootGoes(b, After(s, t))
          /\ UNCHANGED legacy
       \/ /\ StillLacking(t) /\ ~ Collides(t)
          /\ legacy' = Filled(t)
          /\ BootGoes(b, After(s, t))
       \/ /\ StillLacking(t) /\ Collides(t)
          /\ BootGoes(b, IF s.at = "many" THEN [IdleBoot EXCEPT !.at = "list"]
                         ELSE [s EXCEPT !.at = "drop", !.token = t])
          /\ UNCHANGED legacy

(* The duplicate of a registration is dropped.                             *)
BackfillDrop(b) ==
  LET s == boot[b] IN
  /\ s.at = "drop"
  /\ legacy' = IF StillLacking(s.token) THEN [legacy EXCEPT ![s.token] = None] ELSE legacy
  /\ BootGoes(b, After([s EXCEPT !.at = "one", !.token = None], s.token))

-----------------------------------------------------------------------------
(* The previous release upserts on the token alone, whoever holds it, and  *)
(* may number a document it inserts.  Taking a document that was k's is    *)
(* what it always did, and ends k's registration.                          *)
OldRegister(k, t) ==
  /\ old < MaxOld
  /\ old' = old + 1
  /\ \/ /\ legacy[t] = None
        /\ seq' \in {seq, seq + 1} /\ seq' <= MaxSeq
        /\ legacy' = [legacy EXCEPT ![t] =
             [owner |-> k, hasToken |-> FALSE, active |-> TRUE, id |-> IF seq' > seq THEN seq' ELSE 0]]
        /\ UNCHANGED mine
     \/ /\ legacy[t] # None /\ ~ (legacy[t].hasToken /\ fresh[k][t] # None)
        /\ legacy' = [legacy EXCEPT ![t].owner = k, ![t].active = TRUE]
        /\ mine' = IF LegacyPair(legacy[t].owner, t) /\ legacy[t].owner # k
                   THEN mine \ {<<legacy[t].owner, t>>} ELSE mine
        /\ UNCHANGED seq
  /\ gone' = gone \ {<<k, t>>}
  /\ Accepted(None, t)
  /\ UNCHANGED <<fresh, reg, push, boot>>

(* Mutant: a document of this release has a string for its key.            *)
DecodesAlways(d) == TRUE

(* The key of a document of this release is an ObjectID, which the         *)
(* previous release cannot decode.                                         *)
Decodes(d) == d[1] = "legacy"

(* A push of the previous release reads every key as a token: it sends     *)
(* nothing to an identity with a key it cannot decode, and deactivates the *)
(* document whose key FCM refuses.                                         *)
OldDeactivate(k) ==
  LET listed == {<<"legacy", t>> : t \in {x \in Tokens : legacy[x] # None /\ legacy[x].owner = k /\ legacy[x].active}}
                  \cup {<<"fresh", t>> : t \in {x \in Tokens : fresh[k][x] # None /\ fresh[k][x].active}}
  IN /\ \A d \in listed : Decodes(d)
     /\ \E d \in listed :
          /\ refused' = IF d[1] = "legacy" THEN refused \cup {<<None, d[2]>>} ELSE refused
          /\ legacy' = IF d[1] = "legacy" THEN [legacy EXCEPT ![d[2]].active = FALSE] ELSE legacy
          /\ fresh' = IF d[1] = "fresh" THEN [fresh EXCEPT ![k][d[2]].active = FALSE] ELSE fresh
     /\ UNCHANGED <<seq, old, reg, push, boot, mine, gone>>

-----------------------------------------------------------------------------
(* A call fails, or the process ends.                                      *)
Fails ==
  /\ UNCHANGED <<legacy, fresh, seq, old, mine, gone, refused>>
  /\ \/ \E g \in Registrations :
          reg[g].at # "idle" /\ reg' = [reg EXCEPT ![g] = IdleReg] /\ UNCHANGED <<push, boot>>
     \/ \E p \in Pushes :
          push[p].at # "idle" /\ push' = [push EXCEPT ![p] = IdlePush] /\ UNCHANGED <<reg, boot>>
     \/ \E b \in Boots :
          boot[b].at # "idle" /\ boot' = [boot EXCEPT ![b] = IdleBoot] /\ UNCHANGED <<reg, push>>

Next ==
  \/ \E g \in Registrations :
       RegisterDevice(g) \/ Upsert(g) \/ UpsertInsert(g) \/ FillId(g) \/ ReadId(g)
  \/ \E k \in Identities, t \in Tokens : UnregisterDevice(k, t) \/ OldRegister(k, t)
  \/ \E p \in Pushes : ListActiveDevices(p) \/ SendFCM(p) \/ DeactivateDevice(p)
  \/ \E b \in Boots : BackfillStart(b) \/ BackfillStep(b) \/ BackfillDrop(b)
  \/ \E k \in Identities : OldDeactivate(k)
  \/ Fails

Spec == Init /\ [][Next]_vars

-----------------------------------------------------------------------------
(* Every variable has its type, and a registration is attempted twice at   *)
(* most.                                                                   *)
TypeOK ==
  /\ legacy \in [Tokens -> LegacyDocs \cup {None}]
  /\ fresh \in [Identities -> [Tokens -> FreshDocs \cup {None}]]
  /\ seq \in 0 .. MaxSeq /\ old \in 0 .. MaxOld
  /\ reg \in [Registrations -> RegStates]
  /\ push \in [Pushes -> PushStates] /\ boot \in [Boots -> BootStates]
  /\ mine \subseteq Identities \X Tokens /\ gone \subseteq Identities \X Tokens
  /\ refused \subseteq (Identities \cup {None}) \X Tokens

(* A registration taken by this release stays until its own identity ends  *)
(* it: no other identity's call, no boot and no replica of the previous    *)
(* release that leaves its document alone makes it disappear.              *)
RegistrationKept ==
  \A pair \in mine : pair[2] \in Told(pair[1])

(* An identity that gave a token up is not pushed to there again, although *)
(* an old replica may have written the pair a second time and boots rewrite *)
(* documents meanwhile.                                                    *)
StaysUnregistered ==
  \A pair \in gone : pair[2] \notin Told(pair[1])

(* A push goes to a device once, whatever shapes its registration is       *)
(* stored in.                                                              *)
ListedOnce ==
  \A k \in Identities, activeOnly \in BOOLEAN :
    \A d, e \in ListDevices(k, activeOnly) : d[2] = e[2] => d = e

(* A document is inactive only if FCM refused its token since the document *)
(* was last written for a registration, or in an answer that a push had in *)
(* hand by then: no push deactivates by what an earlier one was told, and  *)
(* no replica of the previous release gives up a document of this one.     *)
DeactivatedOnRefusal ==
  \A t \in Tokens :
    /\ legacy[t] # None /\ <<None, t>> \notin refused => legacy[t].active
    /\ \A k \in Identities :
         fresh[k][t] # None /\ <<k, t>> \notin refused => fresh[k][t].active

(* The number a registration is answered with, 0 without one.              *)
NumberOf(k, t) ==
  IF fresh[k][t] # None THEN fresh[k][t].id ELSE IF LegacyPair(k, t) THEN legacy[t].id ELSE 0

(* The number of a registration never changes, and no two share one:       *)
(* concurrent registrations of a document without a number agree on one.   *)
NumbersStable ==
  [][\A k \in Identities, t \in Tokens :
       /\ NumberOf(k, t) > 0 /\ Pair(k, t)' => NumberOf(k, t)' = NumberOf(k, t)
       /\ \A j \in Identities, u \in Tokens :
            NumberOf(k, t)' > 0 /\ NumberOf(k, t)' = NumberOf(j, u)' => j = k /\ u = t]_vars
=============================================================================
