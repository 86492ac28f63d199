---------------------------- MODULE DevicesProofs ----------------------------
(***************************************************************************)
(* Proofs about Devices, for every set of identities, tokens and running   *)
(* registrations, pushes and boots, and every bound.                       *)
(***************************************************************************)
EXTENDS Devices, TLAPS

(* A call in the middle of its work knows what it works on.                *)
CallsCarry ==
  /\ \A g \in Registrations :
       reg[g].at # "idle" => reg[g].key \in Identities /\ reg[g].token \in Tokens
  /\ \A p \in Pushes : push[p].at = "deactivate" => push[p].token \in Tokens
  /\ \A b \in Boots : boot[b].at = "drop" => boot[b].token \in Tokens

Typed == TypeOK /\ CallsCarry

(* The unique index: k and t have one document with its fcmToken.          *)
OnePerPair ==
  \A k \in Identities, t \in Tokens : ~ (LegacyPair(k, t) /\ fresh[k][t] # None)

(* A registration of this release is a document with its fcmToken, so no   *)
(* boot takes it for a duplicate of another.                               *)
MineStored == \A k \in Identities, t \in Tokens : <<k, t>> \in mine => Pair(k, t)

(* A pair given up has no document of either shape.                        *)
GoneAbsent ==
  \A k \in Identities, t \in Tokens :
    <<k, t>> \in gone => fresh[k][t] = None /\ (legacy[t] # None => legacy[t].owner # k)

Stored == OnePerPair /\ MineStored /\ GoneAbsent

(* A push deactivates by an answer in its hand, which nothing written      *)
(* meanwhile makes undone.                                                 *)
PushCarries ==
  \A p \in Pushes : push[p].at = "deactivate" => DocsOf(push[p].token) \subseteq refused

Refusals == PushCarries /\ DeactivatedOnRefusal

(* What a step must leave of the collection and the observers.             *)
DocsOK ==
  /\ legacy \in [Tokens -> LegacyDocs \cup {None}]
  /\ fresh \in [Identities -> [Tokens -> FreshDocs \cup {None}]]
  /\ refused \subseteq (Identities \cup {None}) \X Tokens
  /\ mine \subseteq Identities \X Tokens /\ gone \subseteq Identities \X Tokens
  /\ Stored /\ Refusals

Inv == Typed /\ Stored /\ Refusals

-----------------------------------------------------------------------------
(* The collection has documents of its two shapes, whatever is done to it. *)
LEMMA TypedInit ==
  ASSUME Init
  PROVE  Typed
<1>1. legacy \in [Tokens -> LegacyDocs \cup {None}]
  BY DEF Init
<1> QED BY <1>1, DevicesAssumption
        DEF Init, Typed, TypeOK, CallsCarry, IdleReg, IdlePush, IdleBoot, RegStates, PushStates, BootStates

(* A step of a registration, whatever it does to the collection.           *)
LEMMA TypedRegistration ==
  ASSUME Typed, NEW g \in Registrations,
         RegisterDevice(g) \/ Upsert(g) \/ UpsertInsert(g) \/ FillId(g) \/ ReadId(g)
  PROVE  /\ reg' \in [Registrations -> RegStates]
         /\ reg'[g].at # "idle" => reg'[g].key \in Identities /\ reg'[g].token \in Tokens
         /\ \A h \in Registrations : h # g => reg'[h] = reg[h]
         /\ seq' \in 0 .. MaxSeq
         /\ UNCHANGED <<old, push, boot>>
<1> USE DevicesAssumption DEF Typed, TypeOK, CallsCarry
<1>1. ASSUME NEW r \in RegStates, RegGoes(g, r),
             r.at # "idle" => r.key \in Identities /\ r.token \in Tokens, seq' \in 0 .. MaxSeq
      PROVE  /\ reg' \in [Registrations -> RegStates]
             /\ reg'[g].at # "idle" => reg'[g].key \in Identities /\ reg'[g].token \in Tokens
             /\ \A h \in Registrations : h # g => reg'[h] = reg[h]
             /\ UNCHANGED <<old, push, boot>>
  BY <1>1 DEF RegGoes
<1>2. IdleReg \in RegStates /\ IdleReg.at = "idle"
  BY DEF IdleReg, RegStates
<1>3. reg[g] \in RegStates
  OBVIOUS
<1>4. CASE RegisterDevice(g)
  <2>1. seq' \in 0 .. MaxSeq
    BY <1>4 DEF RegisterDevice, NextSeq
  <2>2. PICK k \in Identities, t \in Tokens :
          RegGoes(g, [at |-> "upsert", key |-> k, token |-> t, seq |-> seq', attempt |-> 0])
    BY <1>4 DEF RegisterDevice
  <2>3. [at |-> "upsert", key |-> k, token |-> t, seq |-> seq', attempt |-> 0] \in RegStates
    BY <2>1 DEF RegStates
  <2> QED BY <1>1, <2>1, <2>2, <2>3
<1>5. CASE Upsert(g)
  <2>1. /\ [reg[g] EXCEPT !.at = "fill"] \in RegStates /\ [reg[g] EXCEPT !.at = "insert"] \in RegStates
        /\ [reg[g] EXCEPT !.at = "fill"].key = reg[g].key /\ [reg[g] EXCEPT !.at = "fill"].token = reg[g].token
        /\ [reg[g] EXCEPT !.at = "insert"].key = reg[g].key /\ [reg[g] EXCEPT !.at = "insert"].token = reg[g].token
    BY <1>3 DEF RegStates
  <2>2. reg[g].key \in Identities /\ reg[g].token \in Tokens
    BY <1>5 DEF Upsert
  <2>3. seq' \in 0 .. MaxSeq
    BY <1>5 DEF Upsert
  <2>4. RegGoes(g, IdleReg) \/ RegGoes(g, [reg[g] EXCEPT !.at = "fill"]) \/ RegGoes(g, [reg[g] EXCEPT !.at = "insert"])
    <3>1. CASE legacy[reg[g].token].id > 0
      BY <1>5, <3>1, Zenon DEF Upsert
    <3>2. CASE ~ (legacy[reg[g].token].id > 0)
      BY <1>5, <3>2, Zenon DEF Upsert
    <3> QED BY <3>1, <3>2
  <2> QED BY <1>1, <1>2, <2>1, <2>2, <2>3, <2>4
<1>6. CASE UpsertInsert(g)
  <2>1. ASSUME reg[g].attempt < 1
        PROVE  /\ [reg[g] EXCEPT !.at = "upsert", !.attempt = @ + 1] \in RegStates
               /\ [reg[g] EXCEPT !.at = "upsert", !.attempt = @ + 1].key = reg[g].key
               /\ [reg[g] EXCEPT !.at = "upsert", !.attempt = @ + 1].token = reg[g].token
    <3>1. reg[g].attempt + 1 = 1
      BY <1>3, <2>1 DEF RegStates
    <3> QED BY <1>3, <3>1 DEF RegStates
  <2>2. reg[g].key \in Identities /\ reg[g].token \in Tokens
    BY <1>6 DEF UpsertInsert
  <2>3. seq' \in 0 .. MaxSeq
    BY <1>6 DEF UpsertInsert
  <2>4. RegGoes(g, IdleReg) \/ (reg[g].attempt < 1 /\ RegGoes(g, [reg[g] EXCEPT !.at = "upsert", !.attempt = @ + 1]))
    BY <1>6 DEF UpsertInsert, Retries
  <2> QED BY <1>1, <1>2, <2>1, <2>2, <2>3, <2>4
<1>7. CASE FillId(g)
  <2>1. /\ [reg[g] EXCEPT !.at = "read"] \in RegStates
        /\ [reg[g] EXCEPT !.at = "read"].key = reg[g].key /\ [reg[g] EXCEPT !.at = "read"].token = reg[g].token
    BY <1>3 DEF RegStates
  <2>2. reg[g].key \in Identities /\ reg[g].token \in Tokens
    BY <1>7 DEF FillId
  <2>3. seq' \in 0 .. MaxSeq /\ RegGoes(g, [reg[g] EXCEPT !.at = "read"])
    BY <1>7 DEF FillId
  <2> QED BY <1>1, <2>1, <2>2, <2>3
<1>8. CASE ReadId(g)
  BY <1>1, <1>2, <1>8 DEF ReadId
<1>9. seq' \in 0 .. MaxSeq
  BY <1>4, <1>5, <1>6, <1>7, <1>8 DEF RegisterDevice, NextSeq, Upsert, UpsertInsert, FillId, ReadId
<1> QED BY <1>4, <1>5, <1>6, <1>7, <1>8, <1>9

-----------------------------------------------------------------------------
(* No document comes, goes or changes hands: who is registered is settled  *)
(* as before, also when a registration is confirmed.                       *)
LEMMA SameShape ==
  ASSUME Stored,
         \A t \in Tokens :
           /\ legacy'[t] = None <=> legacy[t] = None
           /\ legacy[t] # None => /\ legacy'[t].owner = legacy[t].owner
                                  /\ legacy'[t].hasToken = legacy[t].hasToken,
         \A k \in Identities, t \in Tokens : fresh'[k][t] = None <=> fresh[k][t] = None,
         \/ UNCHANGED <<mine, gone>>
         \/ \E k \in Identities, t \in Tokens : Pair(k, t) /\ Registered(k, t)
  PROVE  Stored'
<1>1. \A k \in Identities, t \in Tokens : LegacyPair(k, t)' <=> LegacyPair(k, t)
  BY DEF LegacyPair
<1>2. OnePerPair'
  BY <1>1 DEF Stored, OnePerPair
<1>3. \A k \in Identities, t \in Tokens : <<k, t>> \in mine' => <<k, t>> \in mine \/ Pair(k, t)
  BY DEF Registered
<1>4. MineStored'
  BY <1>1, <1>3 DEF Stored, MineStored, Pair
<1>5. gone' \subseteq gone
  BY DEF Registered
<1>6. GoneAbsent'
  BY <1>5 DEF Stored, GoneAbsent
<1> QED BY <1>2, <1>4, <1>6 DEF Stored

(* A document of this release is inserted where the pair had none.         *)
LEMMA FreshInserted ==
  ASSUME Stored, NEW k \in Identities, NEW t \in Tokens,
         ~ Pair(k, t), Registered(k, t), UNCHANGED legacy, fresh'[k][t] # None,
         \A j \in Identities, x \in Tokens : <<j, x>> # <<k, t>> => fresh'[j][x] = fresh[j][x]
  PROVE  Stored'
<1>1. \A j \in Identities, x \in Tokens : LegacyPair(j, x)' <=> LegacyPair(j, x)
  BY DEF LegacyPair
<1>2. OnePerPair'
  BY <1>1 DEF Stored, OnePerPair, Pair
<1>3. MineStored'
  BY <1>1 DEF Stored, MineStored, Pair, Registered
<1>4. GoneAbsent'
  BY DEF Stored, GoneAbsent, Registered
<1> QED BY <1>2, <1>3, <1>4 DEF Stored

(* The identity's documents of a token are deleted, of both shapes.        *)
LEMMA PairDeleted ==
  ASSUME Stored, NEW k \in Identities, NEW t \in Tokens,
         legacy'[t] = IF legacy[t] # None /\ legacy[t].owner = k THEN None ELSE legacy[t],
         \A x \in Tokens : x # t => legacy'[x] = legacy[x],
         fresh'[k][t] = None,
         \A j \in Identities, x \in Tokens : <<j, x>> # <<k, t>> => fresh'[j][x] = fresh[j][x],
         mine' = mine \ {<<k, t>>}, gone' = gone \cup {<<k, t>>}
  PROVE  Stored'
<1>1. \A j \in Identities, x \in Tokens :
        <<j, x>> # <<k, t>> => (LegacyPair(j, x)' <=> LegacyPair(j, x))
  BY DEF LegacyPair
<1>2. OnePerPair'
  BY <1>1 DEF Stored, OnePerPair
<1>3. MineStored'
  BY <1>1 DEF Stored, MineStored, Pair
<1>4. GoneAbsent'
  BY DEF Stored, GoneAbsent
<1> QED BY <1>2, <1>3, <1>4 DEF Stored

(* A document that lacks its fcmToken is given it, where that collides     *)
(* with no document of this release, or dropped.                           *)
LEMMA LackingSettled ==
  ASSUME Stored, NEW t \in Tokens, Lacking(t), legacy[t].owner \in Identities,
         \/ legacy'[t] = None
         \/ ~ Collides(t) /\ legacy'[t] # None /\ legacy'[t].owner = legacy[t].owner,
         \A x \in Tokens : x # t => legacy'[x] = legacy[x],
         UNCHANGED <<fresh, mine, gone>>
  PROVE  Stored'
<1>1. \A j \in Identities, x \in Tokens : LegacyPair(j, x) => LegacyPair(j, x)'
  BY DEF LegacyPair, Lacking
<1>2. OnePerPair'
  BY DEF Stored, OnePerPair, LegacyPair, Collides
<1>3. MineStored'
  BY <1>1 DEF Stored, MineStored, Pair
<1>4. GoneAbsent'
  BY DEF Stored, GoneAbsent, Lacking
<1> QED BY <1>2, <1>3, <1>4 DEF Stored

(* An old replica writes a document on the token alone.                    *)
LEMMA TokenTaken ==
  ASSUME Stored, NEW k \in Identities, NEW t \in Tokens,
         legacy'[t] # None, legacy'[t].owner = k,
         legacy'[t].hasToken => legacy[t] # None /\ legacy[t].hasToken /\ fresh[k][t] = None,
         legacy[t] # None /\ legacy[t].hasToken => legacy'[t].hasToken,
         \A x \in Tokens : x # t => legacy'[x] = legacy[x],
         UNCHANGED fresh,
         mine' = IF legacy[t] # None /\ LegacyPair(legacy[t].owner, t) /\ legacy[t].owner # k
                 THEN mine \ {<<legacy[t].owner, t>>} ELSE mine,
         gone' = gone \ {<<k, t>>}
  PROVE  Stored'
<1>1. OnePerPair'
  BY DEF Stored, OnePerPair, LegacyPair
<1>2. MineStored'
  <2> SUFFICES ASSUME NEW j \in Identities, NEW x \in Tokens, <<j, x>> \in mine'
               PROVE  Pair(j, x)'
    BY DEF MineStored
  <2>1. Pair(j, x)
    BY DEF Stored, MineStored
  <2>2. CASE x # t
    BY <2>1, <2>2 DEF Pair, LegacyPair
  <2>3. CASE x = t
    BY <2>1, <2>3 DEF Pair, LegacyPair
  <2> QED BY <2>2, <2>3
<1>3. GoneAbsent'
  BY DEF Stored, GoneAbsent
<1> QED BY <1>1, <1>2, <1>3 DEF Stored

-----------------------------------------------------------------------------
(* What a step leaves alone, spelled out once for all actions.             *)
LEMMA CollectionKept ==
  ASSUME Stored, Refusals, UNCHANGED <<legacy, fresh, mine, gone>>, refused \subseteq refused',
         \A p \in Pushes :
           push'[p].at = "deactivate" =>
             push'[p] = push[p] \/ DocsOf(push'[p].token) \subseteq refused'
  PROVE  Stored' /\ Refusals'
<1>1. Stored'
  BY SameShape
<1>2. DeactivatedOnRefusal'
  BY DEF Refusals, DeactivatedOnRefusal
<1>3. PushCarries'
  BY DEF Refusals, PushCarries, DocsOf
<1> QED BY <1>1, <1>2, <1>3 DEF Refusals

(* A document that is written for a registration is the only one whose     *)
(* refusals are forgotten, and none that a push has in hand is.            *)
LEMMA AcceptedKeeps ==
  ASSUME Refusals, refused \subseteq (Identities \cup {None}) \X Tokens, UNCHANGED push,
         NEW k \in Identities \cup {None}, NEW t \in Tokens, Accepted(k, t)
  PROVE  /\ PushCarries' /\ refused' \subseteq (Identities \cup {None}) \X Tokens
         /\ \A j \in Identities \cup {None}, x \in Tokens :
              <<j, x>> # <<k, t>> /\ <<j, x>> \in refused => <<j, x>> \in refused'
<1>1. CASE InHand(t)
  BY <1>1 DEF Accepted, Refusals, PushCarries, DocsOf
<1>2. CASE ~ InHand(t)
  <2>1. refused' = refused \ {<<k, t>>}
    BY <1>2 DEF Accepted
  <2>2. ASSUME NEW p \in Pushes, push[p].at = "deactivate"
        PROVE  DocsOf(push[p].token) \subseteq refused'
    <3>1. push[p].token # t
      BY <1>2, <2>2 DEF InHand
    <3>2. DocsOf(push[p].token) \subseteq refused
      BY <2>2 DEF Refusals, PushCarries
    <3>3. <<k, t>> \notin DocsOf(push[p].token)
      BY <3>1 DEF DocsOf
    <3> QED BY <2>1, <3>2, <3>3
  <2>3. PushCarries'
    <3>1. \A p \in Pushes : DocsOf(push[p].token)' = DocsOf(push[p].token)
      BY DEF DocsOf
    <3> QED BY <2>2, <3>1 DEF PushCarries
  <2> QED BY <2>1, <2>3
<1> QED BY <1>1, <1>2

(* The upsert finds its document and reactivates it, or finds none.        *)
LEMMA UpsertKeeps ==
  ASSUME Inv, NEW g \in Registrations, Upsert(g)
  PROVE  Inv'
<1>1. PICK k \in Identities, t \in Tokens : k = reg[g].key /\ t = reg[g].token
  BY DEF Inv, Typed, CallsCarry, Upsert
<1>2. /\ legacy \in [Tokens -> LegacyDocs \cup {None}]
      /\ fresh \in [Identities -> [Tokens -> FreshDocs \cup {None}]]
      /\ refused \subseteq (Identities \cup {None}) \X Tokens /\ Stored /\ Refusals
  BY DEF Inv, Typed, TypeOK
<1>3. push' = push
  BY DEF Upsert, RegGoes
<1>4. DocsOK'
  <2>1. CASE /\ LegacyPair(k, t)
             /\ legacy' = [legacy EXCEPT ![t].active = TRUE, ![t].id = @]
             /\ Registered(k, t) /\ Accepted(None, t)
             /\ UNCHANGED fresh
    <3>0. /\ PushCarries' /\ refused' \subseteq (Identities \cup {None}) \X Tokens
          /\ \A j \in Identities \cup {None}, x \in Tokens :
               <<j, x>> # <<None, t>> /\ <<j, x>> \in refused => <<j, x>> \in refused'
      BY <1>2, <1>3, <2>1, AcceptedKeeps
    <3>1. legacy[t] \in LegacyDocs
      BY <1>2, <2>1 DEF LegacyPair
    <3>2. /\ legacy' \in [Tokens -> LegacyDocs \cup {None}]
          /\ \A x \in Tokens : x # t => legacy'[x] = legacy[x]
          /\ legacy'[t] \in LegacyDocs
          /\ legacy'[t].owner = legacy[t].owner
          /\ legacy'[t].hasToken = legacy[t].hasToken /\ legacy'[t].active
      BY <1>2, <2>1, <3>1 DEF LegacyDocs
    <3>3. legacy'[t] # None
      BY <3>2, NoneIsNoDocument
    <3>4. Stored'
      BY <1>2, <2>1, <3>2, <3>3, SameShape DEF LegacyPair, Pair
    <3>5. DeactivatedOnRefusal'
      BY <1>2, <2>1, <3>2, <3>0, DevicesAssumption DEF Refusals, DeactivatedOnRefusal
    <3>6. mine' \subseteq Identities \X Tokens /\ gone' \subseteq Identities \X Tokens
      BY <2>1 DEF Registered, Inv, Typed, TypeOK
    <3> QED BY <1>2, <2>1, <3>2, <3>4, <3>5, <3>6, <3>0 DEF DocsOK, Refusals
  <2>2. CASE /\ fresh[k][t] # None
             /\ fresh' = [fresh EXCEPT ![k][t].active = TRUE, ![k][t].id = @]
             /\ Registered(k, t) /\ Accepted(k, t)
             /\ UNCHANGED legacy
    <3>0. /\ PushCarries' /\ refused' \subseteq (Identities \cup {None}) \X Tokens
          /\ \A j \in Identities \cup {None}, x \in Tokens :
               <<j, x>> # <<k, t>> /\ <<j, x>> \in refused => <<j, x>> \in refused'
      BY <1>2, <1>3, <2>2, AcceptedKeeps
    <3>1. fresh[k][t] \in FreshDocs
      BY <1>2, <2>2
    <3>2. /\ fresh' \in [Identities -> [Tokens -> FreshDocs \cup {None}]]
          /\ \A j \in Identities, x \in Tokens : <<j, x>> # <<k, t>> => fresh'[j][x] = fresh[j][x]
          /\ fresh'[k][t] \in FreshDocs /\ fresh'[k][t].active
      BY <1>2, <2>2, <3>1 DEF FreshDocs
    <3>3. fresh'[k][t] # None
      BY <3>2, NoneIsNoDocument
    <3>4. Stored'
      BY <1>2, <2>2, <3>2, <3>3, SameShape DEF Pair
    <3>5. DeactivatedOnRefusal'
      BY <1>2, <2>2, <3>2, <3>0, DevicesAssumption DEF Refusals, DeactivatedOnRefusal
    <3>6. mine' \subseteq Identities \X Tokens /\ gone' \subseteq Identities \X Tokens
      BY <2>2 DEF Registered, Inv, Typed, TypeOK
    <3> QED BY <1>2, <2>2, <3>2, <3>4, <3>5, <3>6, <3>0 DEF DocsOK, Refusals
  <2>3. CASE UNCHANGED <<legacy, fresh, mine, gone, refused>>
    BY <1>2, <1>3, <2>3, CollectionKept DEF Inv, Typed, TypeOK, DocsOK
  <2> QED BY <1>1, <2>1, <2>2, <2>3 DEF Upsert, MatchedId
<1> QED BY <1>4, TypedRegistration DEF Inv, Typed, TypeOK, CallsCarry, DocsOK

(* The insert puts a document where the pair has none, or changes nothing. *)
LEMMA InsertKeeps ==
  ASSUME Inv, NEW g \in Registrations, UpsertInsert(g)
  PROVE  Inv'
<1>1. PICK k \in Identities, t \in Tokens : k = reg[g].key /\ t = reg[g].token
  BY DEF Inv, Typed, CallsCarry, UpsertInsert
<1>2. DocsOK /\ reg[g].seq \in Ids
  BY DEF Inv, Typed, TypeOK, DocsOK, RegStates, Ids
<1>3. push' = push
  BY DEF UpsertInsert, RegGoes
<1>4. DocsOK'
  <2>1. CASE /\ ~ Pair(k, t)
             /\ fresh' = [fresh EXCEPT ![k][t] = [active |-> TRUE, id |-> reg[g].seq]]
             /\ Registered(k, t) /\ Accepted(k, t)
             /\ UNCHANGED legacy
    <3>0. /\ PushCarries' /\ refused' \subseteq (Identities \cup {None}) \X Tokens
          /\ \A j \in Identities \cup {None}, x \in Tokens :
               <<j, x>> # <<k, t>> /\ <<j, x>> \in refused => <<j, x>> \in refused'
      BY <1>2, <1>3, <2>1, AcceptedKeeps DEF DocsOK
    <3>1. [active |-> TRUE, id |-> reg[g].seq] \in FreshDocs
      BY <1>2 DEF FreshDocs
    <3>2. /\ fresh' \in [Identities -> [Tokens -> FreshDocs \cup {None}]]
          /\ \A j \in Identities, x \in Tokens : <<j, x>> # <<k, t>> => fresh'[j][x] = fresh[j][x]
          /\ fresh'[k][t] \in FreshDocs /\ fresh'[k][t].active
      BY <1>2, <2>1, <3>1 DEF DocsOK
    <3>3. fresh'[k][t] # None
      BY <3>2, NoneIsNoDocument
    <3>4. Stored'
      BY <1>2, <2>1, <3>2, <3>3, FreshInserted DEF DocsOK
    <3>5. DeactivatedOnRefusal'
      BY <1>2, <2>1, <3>2, <3>0, DevicesAssumption DEF Refusals, DeactivatedOnRefusal, DocsOK
    <3>6. mine' \subseteq Identities \X Tokens /\ gone' \subseteq Identities \X Tokens
      BY <1>2, <2>1 DEF Registered, DocsOK
    <3> QED BY <1>2, <2>1, <3>2, <3>4, <3>5, <3>6, <3>0 DEF DocsOK, Refusals
  <2>2. CASE UNCHANGED <<legacy, fresh, mine, gone, refused>>
    BY <1>2, <1>3, <2>2, CollectionKept DEF DocsOK
  <2> QED BY <1>1, <2>1, <2>2 DEF UpsertInsert
<1> QED BY <1>4, TypedRegistration DEF Inv, Typed, TypeOK, CallsCarry, DocsOK

(* Only a number is filled in.                                             *)
LEMMA FillIdKeeps ==
  ASSUME Inv, NEW g \in Registrations, FillId(g)
  PROVE  Inv'
<1>1. PICK t \in Tokens : t = reg[g].token
  BY DEF Inv, Typed, CallsCarry, FillId
<1>2. DocsOK /\ reg[g].seq \in Ids
  BY DEF Inv, Typed, TypeOK, DocsOK, RegStates, Ids
<1>3. UNCHANGED <<fresh, push, mine, gone, refused>>
  BY DEF FillId, RegGoes
<1>4. DocsOK'
  <2>1. CASE /\ legacy[t] # None
             /\ legacy' = [legacy EXCEPT ![t].id = reg[g].seq]
    <3>1. legacy[t] \in LegacyDocs
      BY <1>2, <2>1 DEF DocsOK
    <3>2. /\ legacy' \in [Tokens -> LegacyDocs \cup {None}]
          /\ \A x \in Tokens : x # t => legacy'[x] = legacy[x]
          /\ legacy'[t] \in LegacyDocs
          /\ legacy'[t].owner = legacy[t].owner
          /\ legacy'[t].hasToken = legacy[t].hasToken /\ legacy'[t].active = legacy[t].active
      BY <1>2, <2>1, <3>1 DEF LegacyDocs, DocsOK
    <3>3. legacy'[t] # None
      BY <3>2, NoneIsNoDocument
    <3>4. Stored'
      BY <1>2, <1>3, <2>1, <3>2, <3>3, SameShape DEF DocsOK
    <3>5. Refusals'
      BY <1>2, <1>3, <2>1, <3>2 DEF Refusals, PushCarries, DocsOf, DeactivatedOnRefusal, DocsOK
    <3> QED BY <1>2, <1>3, <3>2, <3>4, <3>5 DEF DocsOK
  <2>2. CASE UNCHANGED legacy
    BY <1>2, <1>3, <2>2, CollectionKept DEF DocsOK
  <2> QED BY <1>1, <2>1, <2>2 DEF FillId
<1> QED BY <1>4, TypedRegistration DEF Inv, Typed, TypeOK, CallsCarry, DocsOK

(* POST /unregisterDevice deletes the pair's documents and no other.       *)
LEMMA UnregisterKeeps ==
  ASSUME Inv, NEW k \in Identities, NEW t \in Tokens, UnregisterDevice(k, t)
  PROVE  Inv'
<1>1. DocsOK
  BY DEF Inv, Typed, TypeOK, DocsOK
<1>2. /\ legacy' \in [Tokens -> LegacyDocs \cup {None}]
      /\ legacy'[t] = IF legacy[t] # None /\ legacy[t].owner = k THEN None ELSE legacy[t]
      /\ \A x \in Tokens : x # t => legacy'[x] = legacy[x]
  BY <1>1 DEF UnregisterDevice, Unregistered, DocsOK
<1>3. /\ fresh' \in [Identities -> [Tokens -> FreshDocs \cup {None}]]
      /\ fresh'[k][t] = None
      /\ \A j \in Identities, x \in Tokens : <<j, x>> # <<k, t>> => fresh'[j][x] = fresh[j][x]
  BY <1>1 DEF UnregisterDevice, DocsOK
<1>4. mine' = mine \ {<<k, t>>} /\ gone' = gone \cup {<<k, t>>}
  BY DEF UnregisterDevice
<1>5. UNCHANGED <<seq, old, reg, push, boot, refused>>
  BY DEF UnregisterDevice
<1>6. Stored'
  BY <1>1, <1>2, <1>3, <1>4, PairDeleted DEF DocsOK
<1>7. Refusals'
  BY <1>1, <1>2, <1>3, <1>5 DEF Refusals, PushCarries, DocsOf, DeactivatedOnRefusal, DocsOK
<1>8. mine' \subseteq Identities \X Tokens /\ gone' \subseteq Identities \X Tokens
  BY <1>1, <1>4 DEF DocsOK
<1> QED BY <1>2, <1>3, <1>5, <1>6, <1>7, <1>8 DEF Inv, Typed, TypeOK, CallsCarry

(* An old replica inserts a document on the token, or takes the one there. *)
LEMMA OldRegisterKeeps ==
  ASSUME Inv, NEW k \in Identities, NEW t \in Tokens, OldRegister(k, t)
  PROVE  Inv'
<1>1. DocsOK /\ seq \in 0 .. MaxSeq /\ old \in 0 .. MaxOld
  BY DEF Inv, Typed, TypeOK, DocsOK
<1>2. /\ old' \in 0 .. MaxOld
      /\ gone' = gone \ {<<k, t>>}
      /\ Accepted(None, t)
      /\ UNCHANGED <<fresh, reg, push, boot>>
  BY <1>1, DevicesAssumption DEF OldRegister
<1>3. /\ seq' \in 0 .. MaxSeq
      /\ legacy' \in [Tokens -> LegacyDocs \cup {None}]
      /\ \A x \in Tokens : x # t => legacy'[x] = legacy[x]
      /\ legacy'[t] \in LegacyDocs /\ legacy'[t].owner = k /\ legacy'[t].active
      /\ legacy'[t].hasToken => legacy[t] # None /\ legacy[t].hasToken /\ fresh[k][t] = None
      /\ legacy[t] # None /\ legacy[t].hasToken => legacy'[t].hasToken
      /\ mine' = IF legacy[t] # None /\ LegacyPair(legacy[t].owner, t) /\ legacy[t].owner # k
                 THEN mine \ {<<legacy[t].owner, t>>} ELSE mine
  <2>1. CASE /\ legacy[t] = None
             /\ seq' \in {seq, seq + 1} /\ seq' <= MaxSeq
             /\ legacy' = [legacy EXCEPT ![t] =
                  [owner |-> k, hasToken |-> FALSE, active |-> TRUE, id |-> IF seq' > seq THEN seq' ELSE 0]]
             /\ UNCHANGED mine
    <3>1. seq' \in 0 .. MaxSeq
      BY <1>1, <2>1, DevicesAssumption
    <3>2. [owner |-> k, hasToken |-> FALSE, active |-> TRUE, id |-> IF seq' > seq THEN seq' ELSE 0] \in LegacyDocs
      BY <1>1, <3>1, DevicesAssumption DEF LegacyDocs, Ids
    <3> QED BY <1>1, <2>1, <3>1, <3>2 DEF DocsOK
  <2>2. CASE /\ legacy[t] # None /\ ~ (legacy[t].hasToken /\ fresh[k][t] # None)
             /\ legacy' = [legacy EXCEPT ![t].owner = k, ![t].active = TRUE]
             /\ mine' = IF LegacyPair(legacy[t].owner, t) /\ legacy[t].owner # k
                        THEN mine \ {<<legacy[t].owner, t>>} ELSE mine
             /\ UNCHANGED seq
    <3>1. legacy[t] \in LegacyDocs
      BY <1>1, <2>2 DEF DocsOK
    <3>2. /\ legacy' \in [Tokens -> LegacyDocs \cup {None}]
          /\ \A x \in Tokens : x # t => legacy'[x] = legacy[x]
          /\ legacy'[t] \in LegacyDocs /\ legacy'[t].owner = k /\ legacy'[t].active
          /\ legacy'[t].hasToken = legacy[t].hasToken
      BY <1>1, <2>2, <3>1 DEF LegacyDocs, DocsOK
    <3> QED BY <1>1, <2>2, <3>2
  <2> QED BY <2>1, <2>2 DEF OldRegister
<1>4. legacy'[t] # None
  BY <1>3, NoneIsNoDocument
<1>5. Stored'
  BY <1>1, <1>2, <1>3, <1>4, TokenTaken DEF DocsOK
<1>6. Refusals' /\ refused' \subseteq (Identities \cup {None}) \X Tokens
  <2>1. /\ PushCarries' /\ refused' \subseteq (Identities \cup {None}) \X Tokens
        /\ \A j \in Identities \cup {None}, x \in Tokens :
             <<j, x>> # <<None, t>> /\ <<j, x>> \in refused => <<j, x>> \in refused'
    BY <1>1, <1>2, AcceptedKeeps DEF DocsOK
  <2>2. DeactivatedOnRefusal'
    BY <1>1, <1>2, <1>3, <2>1, DevicesAssumption DEF DocsOK, Refusals, DeactivatedOnRefusal
  <2> QED BY <2>1, <2>2 DEF Refusals
<1>7. mine' \subseteq Identities \X Tokens /\ gone' \subseteq Identities \X Tokens
  BY <1>1, <1>2, <1>3 DEF DocsOK
<1> QED BY <1>1, <1>2, <1>3, <1>5, <1>6, <1>7 DEF Inv, Typed, TypeOK, CallsCarry, DocsOK

-----------------------------------------------------------------------------
(* Which documents listDevices lists.                                      *)
LEMMA ListedDocs ==
  ASSUME NEW k, NEW activeOnly, NEW d
  PROVE  d \in ListDevices(k, activeOnly) <=>
           \E t \in Tokens :
             \/ /\ d = <<"legacy", t>> /\ legacy[t] # None /\ legacy[t].owner = k
                /\ activeOnly => legacy[t].active
                /\ ~ Twin(k, t, activeOnly)
             \/ /\ d = <<"fresh", t>> /\ fresh[k][t] # None
                /\ activeOnly => fresh[k][t].active
BY Zenon DEF ListDevices

(* A push holds tokens.                                                    *)
LEMMA TypedPush ==
  ASSUME Typed, NEW p \in Pushes, NEW s \in PushStates, PushGoes(p, s),
         s.at = "deactivate" => s.token \in Tokens,
         refused' \subseteq (Identities \cup {None}) \X Tokens,
         legacy' \in [Tokens -> LegacyDocs \cup {None}],
         fresh' \in [Identities -> [Tokens -> FreshDocs \cup {None}]]
  PROVE  Typed'
BY DEF Typed, TypeOK, CallsCarry, PushGoes

(* Listing and sending change no document, and what is sent back with a    *)
(* refusal is on record with it.                                           *)
LEMMA PushKeeps ==
  ASSUME Inv, NEW p \in Pushes, NEW s \in PushStates, PushGoes(p, s), UNCHANGED <<legacy, fresh>>,
         refused \subseteq refused', refused' \subseteq (Identities \cup {None}) \X Tokens,
         s.at = "deactivate" => s.token \in Tokens /\ DocsOf(s.token) \subseteq refused'
  PROVE  Inv'
<1>1. /\ push'[p] = s /\ \A q \in Pushes : q # p => push'[q] = push[q]
      /\ UNCHANGED <<mine, gone>>
  BY DEF PushGoes, Inv, Typed, TypeOK
<1>2. \A q \in Pushes :
        push'[q].at = "deactivate" =>
          push'[q] = push[q] \/ DocsOf(push'[q].token) \subseteq refused'
  BY <1>1
<1>3. Stored' /\ Refusals'
  BY <1>1, <1>2, CollectionKept DEF Inv
<1>4. Typed'
  BY TypedPush DEF Inv, Typed, TypeOK
<1> QED BY <1>3, <1>4 DEF Inv

LEMMA SendKeeps ==
  ASSUME Inv, NEW p \in Pushes, ListActiveDevices(p) \/ SendFCM(p)
  PROVE  Inv'
<1>1. DocsOK /\ push[p] \in PushStates /\ Typed
  BY DEF Inv, Typed, TypeOK, DocsOK
<1>2. CASE ListActiveDevices(p)
  <2>1. PICK k \in Identities :
          PushGoes(p, [IdlePush EXCEPT !.at = "send", !.todo = {d[2] : d \in ListDevices(k, TRUE)}])
    BY <1>2 DEF ListActiveDevices
  <2>2. {d[2] : d \in ListDevices(k, TRUE)} \subseteq Tokens
    <3> SUFFICES ASSUME NEW d \in ListDevices(k, TRUE)
                 PROVE  d[2] \in Tokens
      OBVIOUS
    <3>1. \E t \in Tokens : d = <<"legacy", t>> \/ d = <<"fresh", t>>
      BY Zenon DEF ListDevices
    <3> QED BY <3>1
  <2>3. \A T \in SUBSET Tokens :
          /\ [IdlePush EXCEPT !.at = "send", !.todo = T] \in PushStates
          /\ [IdlePush EXCEPT !.at = "send", !.todo = T].at = "send"
    BY DEF IdlePush, PushStates
  <2>4. UNCHANGED <<legacy, fresh, refused>>
    BY <1>2 DEF ListActiveDevices
  <2> QED BY <1>1, <2>1, <2>2, <2>3, <2>4, PushKeeps DEF DocsOK
<1>3. CASE SendFCM(p)
  <2>1. PICK t \in push[p].todo, outcome \in Outcomes :
          /\ refused' = IF IsInvalidTokenError(outcome) THEN refused \cup DocsOf(t) ELSE refused
          /\ PushGoes(p, IF IsInvalidTokenError(outcome)
                         THEN [push[p] EXCEPT !.at = "deactivate", !.token = t]
                         ELSE IF push[p].todo = {t} THEN IdlePush
                         ELSE [push[p] EXCEPT !.todo = @ \ {t}])
    BY <1>3, Zenon DEF SendFCM, IsInvalidTokenError
  <2>2. t \in Tokens /\ UNCHANGED <<legacy, fresh>>
    BY <1>1, <1>3 DEF PushStates, SendFCM
  <2>3. CASE IsInvalidTokenError(outcome)
    <3>1. /\ [push[p] EXCEPT !.at = "deactivate", !.token = t] \in PushStates
          /\ [push[p] EXCEPT !.at = "deactivate", !.token = t].token = t
      BY <1>1, <2>2 DEF PushStates
    <3>2. refused' = refused \cup DocsOf(t) /\ DocsOf(t) \subseteq (Identities \cup {None}) \X Tokens
      BY <2>1, <2>2, <2>3 DEF DocsOf
    <3>3. PushGoes(p, [push[p] EXCEPT !.at = "deactivate", !.token = t])
      BY <2>1, <2>3
    <3> QED BY <1>1, <2>2, <3>1, <3>2, <3>3, PushKeeps DEF DocsOK
  <2>4. CASE ~ IsInvalidTokenError(outcome) /\ push[p].todo = {t}
    <3>1. IdlePush \in PushStates /\ IdlePush.at = "idle"
      BY DEF IdlePush, PushStates
    <3>2. refused' = refused /\ PushGoes(p, IdlePush)
      BY <2>1, <2>4
    <3> QED BY <1>1, <2>2, <3>1, <3>2, PushKeeps DEF DocsOK
  <2>5. CASE ~ IsInvalidTokenError(outcome) /\ push[p].todo # {t}
    <3>1. /\ [push[p] EXCEPT !.todo = @ \ {t}] \in PushStates
          /\ [push[p] EXCEPT !.todo = @ \ {t}].at = "send"
      BY <1>1, <1>3 DEF PushStates, SendFCM
    <3>2. refused' = refused /\ PushGoes(p, [push[p] EXCEPT !.todo = @ \ {t}])
      BY <2>1, <2>5
    <3> QED BY <1>1, <2>2, <3>1, <3>2, PushKeeps DEF DocsOK
  <2> QED BY <2>3, <2>4, <2>5
<1> QED BY <1>2, <1>3

(* DeactivateDevice gives up every document of a token that was refused.   *)
LEMMA DeactivateKeeps ==
  ASSUME Inv, NEW p \in Pushes, DeactivateDevice(p)
  PROVE  Inv'
<1>1. DocsOK /\ push[p] \in PushStates /\ Typed
  BY DEF Inv, Typed, TypeOK, DocsOK
<1>2. PICK t \in Tokens : t = push[p].token
  BY <1>1 DEF Typed, CallsCarry, DeactivateDevice
<1>3. DocsOf(t) \subseteq refused
  BY <1>1, <1>2 DEF DocsOK, Refusals, PushCarries, DeactivateDevice
<1>4. \E s \in PushStates : s.at # "deactivate" /\ PushGoes(p, s)
  <2>1. IdlePush \in PushStates /\ IdlePush.at # "deactivate"
    BY DEF IdlePush, PushStates
  <2>2. /\ [IdlePush EXCEPT !.at = "send", !.todo = push[p].todo \ {t}] \in PushStates
        /\ [IdlePush EXCEPT !.at = "send", !.todo = push[p].todo \ {t}].at # "deactivate"
    BY <1>1 DEF IdlePush, PushStates
  <2>3. CASE push[p].todo = {push[p].token}
    BY <2>1, <2>3 DEF DeactivateDevice
  <2>4. CASE push[p].todo # {push[p].token}
    BY <1>2, <2>2, <2>4 DEF DeactivateDevice
  <2> QED BY <2>3, <2>4
<1>5. /\ UNCHANGED <<mine, gone, refused>>
      /\ \A q \in Pushes : push'[q].at = "deactivate" => push'[q] = push[q]
  BY <1>4 DEF DeactivateDevice, PushGoes, Typed, TypeOK, Inv
<1>6. DocsOK'
  <2>1. CASE /\ legacy' = IF legacy[t] # None THEN [legacy EXCEPT ![t].active = FALSE] ELSE legacy
             /\ fresh' = [k \in Identities |->
                  IF fresh[k][t] # None THEN [fresh[k] EXCEPT ![t].active = FALSE] ELSE fresh[k]]
    <3>1. /\ legacy' \in [Tokens -> LegacyDocs \cup {None}]
          /\ \A x \in Tokens : x # t => legacy'[x] = legacy[x]
          /\ legacy[t] = None => legacy'[t] = None
      BY <1>1, <2>1 DEF DocsOK, LegacyDocs
    <3>2. ASSUME legacy[t] # None
          PROVE  /\ legacy'[t] \in LegacyDocs
                 /\ legacy'[t].owner = legacy[t].owner /\ legacy'[t].hasToken = legacy[t].hasToken
      BY <1>1, <2>1, <3>2 DEF DocsOK, LegacyDocs
    <3>3. ASSUME NEW k \in Identities
          PROVE  /\ fresh'[k] \in [Tokens -> FreshDocs \cup {None}]
                 /\ \A x \in Tokens : x # t => fresh'[k][x] = fresh[k][x]
                 /\ fresh[k][t] = None => fresh'[k][t] = None
                 /\ fresh[k][t] # None => fresh'[k][t] \in FreshDocs
      <4>1. CASE fresh[k][t] = None
        BY <1>1, <2>1, <4>1 DEF DocsOK
      <4>2. CASE fresh[k][t] # None
        <5>1. fresh[k] \in [Tokens -> FreshDocs \cup {None}] /\ fresh[k][t] \in FreshDocs
          BY <1>1, <4>2 DEF DocsOK
        <5>2. fresh'[k] = [fresh[k] EXCEPT ![t].active = FALSE]
          BY <2>1, <4>2
        <5> QED BY <4>2, <5>1, <5>2 DEF FreshDocs
      <4> QED BY <4>1, <4>2
    <3>4. fresh' \in [Identities -> [Tokens -> FreshDocs \cup {None}]]
      BY <2>1, <3>3
    <3>5. Stored'
      BY <1>1, <1>5, <3>1, <3>2, <3>3, SameShape, NoneIsNoDocument DEF DocsOK
    <3>6. DeactivatedOnRefusal'
      <4>1. <<None, t>> \in refused /\ \A k \in Identities : <<k, t>> \in refused
        BY <1>2, <1>3 DEF DocsOf
      <4> QED BY <1>1, <1>5, <3>1, <3>3, <4>1 DEF DeactivatedOnRefusal, Refusals, DocsOK
    <3>7. PushCarries'
      BY <1>1, <1>5 DEF PushCarries, DocsOf, Refusals, DocsOK
    <3> QED BY <1>1, <1>5, <3>1, <3>4, <3>5, <3>6, <3>7 DEF DocsOK, Refusals
  <2>2. CASE UNCHANGED <<legacy, fresh>>
    BY <1>1, <1>5, <2>2, CollectionKept DEF DocsOK
  <2> QED BY <1>2, <2>1, <2>2 DEF DeactivateDevice
<1>7. Typed'
  BY <1>1, <1>6, <1>4, TypedPush DEF DocsOK
<1> QED BY <1>6, <1>7 DEF DocsOK, Inv

-----------------------------------------------------------------------------
(* A boot holds tokens.                                                    *)
LEMMA TypedBoot ==
  ASSUME Typed, NEW b \in Boots, NEW s \in BootStates, BootGoes(b, s),
         s.at = "drop" => s.token \in Tokens,
         legacy' \in [Tokens -> LegacyDocs \cup {None}]
  PROVE  Typed'
BY DEF Typed, TypeOK, CallsCarry, BootGoes

(* What is left to do after one document.                                  *)
LEMMA AfterType ==
  ASSUME NEW s \in BootStates, NEW t, s.at # "drop"
  PROVE  After(s, t) \in BootStates /\ After(s, t).at # "drop"
<1>1. IdleBoot \in BootStates /\ IdleBoot.at = "idle"
  BY DEF IdleBoot, BootStates
<1>2. [s EXCEPT !.todo = @ \ {t}] \in BootStates /\ [s EXCEPT !.todo = @ \ {t}].at = s.at
  BY DEF BootStates
<1> QED BY <1>1, <1>2 DEF After

(* Looking for documents without fcmToken changes none.                    *)
LEMMA BackfillStartKeeps ==
  ASSUME Inv, NEW b \in Boots, BackfillStart(b)
  PROVE  Inv'
<1>1. DocsOK /\ Typed
  BY DEF Inv, Typed, TypeOK, DocsOK
<1>2. UNCHANGED <<legacy, fresh, push, mine, gone, refused>>
  BY DEF BackfillStart, BootGoes
<1>3. Typed'
  <2> DEFINE todo == {t \in Tokens : Lacking(t)}
  <2>1. \A at \in {"many", "one"} :
          LET s == [IdleBoot EXCEPT !.at = at, !.todo = todo] IN s \in BootStates /\ s.at = at
    BY DEF IdleBoot, BootStates
  <2>2. IdleBoot \in BootStates /\ IdleBoot.at = "idle"
    BY DEF IdleBoot, BootStates
  <2>3. CASE todo = {}
    BY <1>1, <1>2, <2>2, <2>3, TypedBoot DEF BackfillStart, DocsOK
  <2>4. CASE todo # {} /\ boot[b].at = "idle"
    BY <1>1, <1>2, <2>1, <2>4, TypedBoot DEF BackfillStart, DocsOK
  <2>5. CASE todo # {} /\ boot[b].at # "idle"
    BY <1>1, <1>2, <2>1, <2>5, TypedBoot DEF BackfillStart, DocsOK
  <2> QED BY <2>3, <2>4, <2>5
<1> QED BY <1>1, <1>2, <1>3, CollectionKept DEF DocsOK, Inv

(* A document that lacks its fcmToken is given it, or left for its twin.   *)
LEMMA BackfillStepKeeps ==
  ASSUME Inv, NEW b \in Boots, BackfillStep(b)
  PROVE  Inv'
<1>1. DocsOK /\ Typed /\ boot[b] \in BootStates
  BY DEF Inv, Typed, TypeOK, DocsOK
<1>2. UNCHANGED <<fresh, push, mine, gone, refused>>
  BY DEF BackfillStep, BootGoes
<1>3. PICK t \in boot[b].todo :
        \/ ~ Lacking(t) /\ BootGoes(b, After(boot[b], t)) /\ UNCHANGED legacy
        \/ Lacking(t) /\ ~ Collides(t) /\ legacy' = Filled(t) /\ BootGoes(b, After(boot[b], t))
        \/ /\ BootGoes(b, IF boot[b].at = "many" THEN [IdleBoot EXCEPT !.at = "list"]
                          ELSE [boot[b] EXCEPT !.at = "drop", !.token = t])
           /\ UNCHANGED legacy
  BY Zenon DEF BackfillStep, StillLacking
<1>4. t \in Tokens /\ boot[b].at # "drop"
  BY <1>1 DEF BackfillStep, BootStates
<1>5. CASE UNCHANGED legacy
  <2>1. Typed'
    <3>1. CASE BootGoes(b, After(boot[b], t))
      BY <1>1, <1>4, <1>5, <3>1, AfterType, TypedBoot DEF DocsOK
    <3>2. CASE BootGoes(b, [IdleBoot EXCEPT !.at = "list"])
      <4>1. [IdleBoot EXCEPT !.at = "list"] \in BootStates /\ [IdleBoot EXCEPT !.at = "list"].at = "list"
        BY DEF IdleBoot, BootStates
      <4> QED BY <1>1, <1>5, <3>2, <4>1, TypedBoot DEF DocsOK
    <3>3. CASE BootGoes(b, [boot[b] EXCEPT !.at = "drop", !.token = t])
      <4>1. LET s == [boot[b] EXCEPT !.at = "drop", !.token = t] IN s \in BootStates /\ s.token = t
        BY <1>1, <1>4 DEF BootStates
      <4> QED BY <1>1, <1>4, <1>5, <3>3, <4>1, TypedBoot DEF DocsOK
    <3>4. \/ BootGoes(b, After(boot[b], t))
          \/ BootGoes(b, [IdleBoot EXCEPT !.at = "list"])
          \/ BootGoes(b, [boot[b] EXCEPT !.at = "drop", !.token = t])
      <4>1. CASE boot[b].at = "many"
        BY <1>3, <4>1, Zenon
      <4>2. CASE boot[b].at # "many"
        BY <1>3, <4>2, Zenon
      <4> QED BY <4>1, <4>2
    <3> QED BY <3>1, <3>2, <3>3, <3>4
  <2> QED BY <1>1, <1>2, <1>5, <2>1, CollectionKept DEF DocsOK, Inv
<1>6. CASE Lacking(t) /\ ~ Collides(t) /\ legacy' = Filled(t) /\ BootGoes(b, After(boot[b], t))
  <2>1. legacy[t] \in LegacyDocs /\ legacy[t].owner \in Identities
    BY <1>1, <1>4, <1>6 DEF DocsOK, Lacking, LegacyDocs
  <2>2. /\ legacy' \in [Tokens -> LegacyDocs \cup {None}]
        /\ \A x \in Tokens : x # t => legacy'[x] = legacy[x]
        /\ legacy'[t] \in LegacyDocs
        /\ legacy'[t].owner = legacy[t].owner /\ legacy'[t].active = legacy[t].active
    BY <1>1, <1>4, <1>6, <2>1 DEF Filled, LegacyDocs, DocsOK
  <2>3. legacy'[t] # None
    BY <2>2, NoneIsNoDocument
  <2>4. Stored'
    BY <1>1, <1>2, <1>4, <1>6, <2>1, <2>2, <2>3, LackingSettled DEF DocsOK
  <2>5. Refusals'
    BY <1>1, <1>2, <1>6, <2>2 DEF Refusals, PushCarries, DocsOf, DeactivatedOnRefusal, DocsOK, Lacking
  <2>6. Typed'
    BY <1>1, <1>4, <1>6, <2>2, AfterType, TypedBoot
  <2> QED BY <2>4, <2>5, <2>6 DEF Inv
<1> QED BY <1>3, <1>5, <1>6

(* Only a document that still lacks its fcmToken is dropped.               *)
LEMMA BackfillDropKeeps ==
  ASSUME Inv, NEW b \in Boots, BackfillDrop(b)
  PROVE  Inv'
<1>1. DocsOK /\ Typed /\ boot[b] \in BootStates
  BY DEF Inv, Typed, TypeOK, DocsOK
<1>2. PICK t \in Tokens : t = boot[b].token
  BY DEF Inv, Typed, CallsCarry, BackfillDrop
<1>3. UNCHANGED <<fresh, push, mine, gone, refused>>
  BY DEF BackfillDrop, BootGoes
<1>4. DocsOK'
  <2>1. CASE Lacking(t) /\ legacy' = [legacy EXCEPT ![t] = None]
    <3>1. legacy[t].owner \in Identities
      BY <1>1, <2>1 DEF DocsOK, Lacking, LegacyDocs
    <3>2. /\ legacy' \in [Tokens -> LegacyDocs \cup {None}]
          /\ \A x \in Tokens : x # t => legacy'[x] = legacy[x]
          /\ legacy'[t] = None
      BY <1>1, <2>1 DEF DocsOK
    <3>3. Stored'
      BY <1>1, <1>3, <2>1, <3>1, <3>2, LackingSettled DEF DocsOK
    <3>4. Refusals'
      BY <1>1, <1>3, <3>2 DEF Refusals, PushCarries, DocsOf, DeactivatedOnRefusal, DocsOK
    <3> QED BY <1>1, <1>3, <3>2, <3>3, <3>4 DEF DocsOK
  <2>2. CASE UNCHANGED legacy
    BY <1>1, <1>3, <2>2, CollectionKept DEF DocsOK
  <2> QED BY <1>2, <2>1, <2>2 DEF BackfillDrop, StillLacking
<1>5. Typed'
  <2>1. LET s == [boot[b] EXCEPT !.at = "one", !.token = None] IN s \in BootStates /\ s.at = "one"
    BY <1>1 DEF BootStates
  <2> QED BY <1>1, <1>4, <2>1, AfterType, TypedBoot DEF BackfillDrop, DocsOK
<1> QED BY <1>4, <1>5 DEF DocsOK, Inv

-----------------------------------------------------------------------------
(* The decoding of an ObjectID fails, so an old replica reaches only       *)
(* documents of its own shape.                                             *)
LEMMA OldDeactivateShape ==
  ASSUME NEW k \in Identities, OldDeactivate(k)
  PROVE  \E t \in Tokens :
           /\ legacy[t] # None /\ refused' = refused \cup {<<None, t>>}
           /\ legacy' = [legacy EXCEPT ![t].active = FALSE] /\ fresh' = fresh
<1> DEFINE old1 == {<<"legacy", t>> : t \in {x \in Tokens : legacy[x] # None /\ legacy[x].owner = k /\ legacy[x].active}}
           new1 == {<<"fresh", t>> : t \in {x \in Tokens : fresh[k][x] # None /\ fresh[k][x].active}}
<1>1. PICK d \in old1 \cup new1 :
        /\ d[1] = "legacy"
        /\ refused' = IF d[1] = "legacy" THEN refused \cup {<<None, d[2]>>} ELSE refused
        /\ legacy' = IF d[1] = "legacy" THEN [legacy EXCEPT ![d[2]].active = FALSE] ELSE legacy
        /\ fresh' = IF d[1] = "fresh" THEN [fresh EXCEPT ![k][d[2]].active = FALSE] ELSE fresh
  BY Zenon DEF OldDeactivate, Decodes
<1>2. PICK t \in Tokens : (d = <<"legacy", t>> /\ legacy[t] # None) \/ d = <<"fresh", t>>
  BY Zenon
<1>3. d = <<"legacy", t>> /\ legacy[t] # None /\ d[2] = t
  BY <1>1, <1>2
<1> QED BY <1>1, <1>3

(* An old replica deactivates only a document of the old shape, keyed by   *)
(* the token that FCM refused it.                                          *)
LEMMA OldDeactivateKeeps ==
  ASSUME Inv, NEW k \in Identities, OldDeactivate(k)
  PROVE  Inv'
<1>1. DocsOK
  BY DEF Inv, Typed, TypeOK, DocsOK
<1>2. UNCHANGED <<seq, old, reg, push, boot, mine, gone>>
  BY DEF OldDeactivate
<1>3. PICK t \in Tokens :
        /\ legacy[t] # None /\ refused' = refused \cup {<<None, t>>}
        /\ legacy' = [legacy EXCEPT ![t].active = FALSE] /\ fresh' = fresh
  BY OldDeactivateShape
<1>4. legacy[t] \in LegacyDocs
  BY <1>1, <1>3 DEF DocsOK
<1>5. /\ legacy' \in [Tokens -> LegacyDocs \cup {None}]
      /\ \A x \in Tokens : x # t => legacy'[x] = legacy[x]
      /\ legacy'[t] \in LegacyDocs
      /\ legacy'[t].owner = legacy[t].owner /\ legacy'[t].hasToken = legacy[t].hasToken
  BY <1>1, <1>3, <1>4 DEF DocsOK, LegacyDocs
<1>6. Stored'
  BY <1>1, <1>2, <1>3, <1>5, SameShape, NoneIsNoDocument DEF DocsOK
<1>7. Refusals' /\ refused' \subseteq (Identities \cup {None}) \X Tokens
  BY <1>1, <1>2, <1>3, <1>5 DEF Refusals, PushCarries, DocsOf, DeactivatedOnRefusal, DocsOK
<1> QED BY <1>1, <1>2, <1>3, <1>5, <1>6, <1>7 DEF Inv, Typed, TypeOK, CallsCarry, DocsOK

(* Calls that begin and calls that end change no document.                 *)
LEMMA QuietKeeps ==
  ASSUME Inv,
         \/ \E g \in Registrations : RegisterDevice(g) \/ ReadId(g)
         \/ Fails
         \/ UNCHANGED vars
  PROVE  Inv'
<1>1. DocsOK
  BY DEF Inv, Typed, TypeOK, DocsOK
<1>2. /\ UNCHANGED <<legacy, fresh, mine, gone, refused>>
      /\ \A p \in Pushes : push'[p].at = "deactivate" => push'[p] = push[p]
  <2>1. IdlePush.at = "idle"
    BY DEF IdlePush
  <2> QED BY <2>1 DEF RegisterDevice, ReadId, RegGoes, Fails, vars, Inv, Typed, TypeOK
<1>3. Stored' /\ Refusals'
  BY <1>1, <1>2, CollectionKept DEF DocsOK
<1>4. Typed'
  <2>1. ASSUME NEW g \in Registrations, RegisterDevice(g) \/ ReadId(g)
        PROVE  Typed'
    BY <1>1, <1>2, <2>1, TypedRegistration DEF Inv, Typed, TypeOK, CallsCarry, DocsOK
  <2>3. CASE Fails
    <3>1. /\ IdleReg \in RegStates /\ IdleReg.at = "idle"
          /\ IdlePush \in PushStates /\ IdlePush.at = "idle"
          /\ IdleBoot \in BootStates /\ IdleBoot.at = "idle"
      BY DevicesAssumption DEF IdleReg, RegStates, IdlePush, PushStates, IdleBoot, BootStates
    <3> QED BY <2>3, <3>1 DEF Fails, Inv, Typed, TypeOK, CallsCarry
  <2>4. CASE UNCHANGED vars
    BY <2>4 DEF vars, Inv, Typed, TypeOK, CallsCarry
  <2> QED BY <2>1, <2>3, <2>4
<1> QED BY <1>3, <1>4 DEF Inv

LEMMA InvInit ==
  ASSUME Init
  PROVE  Inv
<1>1. Stored
  BY DEF Init, Stored, OnePerPair, MineStored, GoneAbsent
<1>2. Refusals
  BY DEF Init, Refusals, PushCarries, IdlePush, DeactivatedOnRefusal
<1> QED BY <1>1, <1>2, TypedInit DEF Inv

LEMMA InvStep ==
  ASSUME Inv, [Next]_vars
  PROVE  Inv'
<1>1. ASSUME NEW g \in Registrations,
             RegisterDevice(g) \/ Upsert(g) \/ UpsertInsert(g) \/ FillId(g) \/ ReadId(g)
      PROVE  Inv'
  BY <1>1, QuietKeeps, UpsertKeeps, InsertKeeps, FillIdKeeps
<1>2. ASSUME NEW k \in Identities, NEW t \in Tokens, UnregisterDevice(k, t) \/ OldRegister(k, t)
      PROVE  Inv'
  BY <1>2, UnregisterKeeps, OldRegisterKeeps
<1>3. ASSUME NEW p \in Pushes, ListActiveDevices(p) \/ SendFCM(p) \/ DeactivateDevice(p)
      PROVE  Inv'
  BY <1>3, SendKeeps, DeactivateKeeps
<1>4. ASSUME NEW b \in Boots, BackfillStart(b) \/ BackfillStep(b) \/ BackfillDrop(b)
      PROVE  Inv'
  BY <1>4, BackfillStartKeeps, BackfillStepKeeps, BackfillDropKeeps
<1>5. ASSUME NEW k \in Identities, OldDeactivate(k)
      PROVE  Inv'
  BY <1>5, OldDeactivateKeeps
<1>6. CASE Fails \/ UNCHANGED vars
  BY <1>6, QuietKeeps
<1> QED BY <1>1, <1>2, <1>3, <1>4, <1>5, <1>6 DEF Next

LEMMA InvHolds == Spec => []Inv
BY InvInit, InvStep, PTL DEF Spec

-----------------------------------------------------------------------------
(* Every variable has its type, and a registration is attempted twice at   *)
(* most (pushstore's upsert and its one retry).                            *)
THEOREM DevicesTyped == Spec => []TypeOK
BY InvHolds, PTL DEF Inv, Typed

(* No registration of this release disappears from GET /devices until its  *)
(* own identity ends it, whatever other calls, boots and old replicas do.  *)
THEOREM RegistrationsKept == Spec => []RegistrationKept
<1>1. ASSUME Inv, NEW k \in Identities, NEW t \in Tokens, <<k, t>> \in mine
      PROVE  t \in Told(k)
  <2>1. CASE fresh[k][t] # None
    <3>1. <<"fresh", t>> \in ListDevices(k, FALSE)
      BY <2>1, ListedDocs
    <3>2. <<"fresh", t>>[2] = t
      OBVIOUS
    <3> QED BY <3>1, <3>2, Zenon DEF Told
  <2>2. CASE LegacyPair(k, t)
    <3>1. ~ Twin(k, t, FALSE)
      BY <2>2 DEF Twin, LegacyPair
    <3>2. <<"legacy", t>> \in ListDevices(k, FALSE)
      BY <2>2, <3>1, ListedDocs DEF LegacyPair
    <3>3. <<"legacy", t>>[2] = t
      OBVIOUS
    <3> QED BY <3>2, <3>3, Zenon DEF Told
  <2> QED BY <1>1, <2>1, <2>2 DEF Inv, Stored, MineStored, Pair
<1>2. Inv => RegistrationKept
  BY <1>1 DEF RegistrationKept, Inv, Typed, TypeOK
<1> QED BY <1>2, InvHolds, PTL

(* A pair given up through POST /unregisterDevice is listed for nobody's   *)
(* push again until it is registered again.                                *)
THEOREM UnregistrationsKept == Spec => []StaysUnregistered
<1>1. ASSUME Inv, NEW k \in Identities, NEW t \in Tokens, <<k, t>> \in gone, t \in Told(k)
      PROVE  FALSE
  <2>1. PICK d \in ListDevices(k, FALSE) : d[2] = t
    BY <1>1 DEF Told
  <2>2. PICK x \in Tokens : \/ d = <<"legacy", x>> /\ legacy[x] # None /\ legacy[x].owner = k
                            \/ d = <<"fresh", x>> /\ fresh[k][x] # None
    BY Zenon DEF ListDevices
  <2>3. x = t
    BY <2>1, <2>2
  <2> QED BY <1>1, <2>2, <2>3 DEF Inv, Stored, GoneAbsent
<1>2. Inv => StaysUnregistered
  BY <1>1 DEF StaysUnregistered, Inv, Typed, TypeOK
<1> QED BY <1>2, InvHolds, PTL

(* listDevices lists a device of an identity once, whatever shapes its     *)
(* registration is stored in, so a push reaches it once.                   *)
THEOREM DevicesListedOnce == Spec => []ListedOnce
<1>1. ASSUME Inv, NEW k \in Identities, NEW activeOnly \in BOOLEAN,
             NEW d \in ListDevices(k, activeOnly), NEW e \in ListDevices(k, activeOnly), d[2] = e[2]
      PROVE  d = e
  <2> DEFINE Old(x, t) == x = <<"legacy", t>> /\ legacy[t] # None /\ legacy[t].owner = k /\ ~ Twin(k, t, activeOnly)
             New(x, t) == x = <<"fresh", t>> /\ fresh[k][t] # None /\ (activeOnly => fresh[k][t].active)
  <2>1. PICK t \in Tokens : Old(d, t) \/ New(d, t)
    BY Zenon DEF ListDevices
  <2>2. PICK u \in Tokens : Old(e, u) \/ New(e, u)
    BY Zenon DEF ListDevices
  <2>3. t = u
    BY <1>1, <2>1, <2>2
  <2>4. ~ (legacy[t] # None /\ legacy[t].owner = k /\ ~ Twin(k, t, activeOnly)
             /\ fresh[k][t] # None /\ (activeOnly => fresh[k][t].active))
    BY <1>1 DEF Twin, Inv, Stored, OnePerPair, LegacyPair
  <2> QED BY <2>1, <2>2, <2>3, <2>4
<1>2. Inv => ListedOnce
  BY <1>1 DEF ListedOnce
<1> QED BY <1>2, InvHolds, PTL

(* A document is inactive only if FCM refused its token since the document *)
(* was last written for a registration, or in an answer in hand by then,   *)
(* whichever replicas push, register and deactivate meanwhile.             *)
THEOREM DeactivationsOnRefusal == Spec => []DeactivatedOnRefusal
BY InvHolds, PTL DEF Inv, Refusals

-----------------------------------------------------------------------------
(* Numbers.  A number is with the registration that drew it, or in one     *)
(* document, and never in two places.                                      *)
LegacyId(t) == IF legacy[t] # None THEN legacy[t].id ELSE 0
FreshId(k, t) == IF fresh[k][t] # None THEN fresh[k][t].id ELSE 0
Holds(g) == reg[g].at \in {"upsert", "insert", "fill"}

NumbersDrawn ==
  /\ \A t \in Tokens : LegacyId(t) \in 0 .. seq
  /\ \A k \in Identities, t \in Tokens : FreshId(k, t) \in 0 .. seq
  /\ \A g \in Registrations : Holds(g) => reg[g].seq \in 1 .. seq

NumbersApart ==
  /\ \A t, u \in Tokens : LegacyId(t) > 0 /\ LegacyId(t) = LegacyId(u) => t = u
  /\ \A k, j \in Identities, t, u \in Tokens :
       FreshId(k, t) > 0 /\ FreshId(k, t) = FreshId(j, u) => k = j /\ t = u
  /\ \A k \in Identities, t, u \in Tokens : LegacyId(t) > 0 => LegacyId(t) # FreshId(k, u)
  /\ \A g, h \in Registrations : Holds(g) /\ Holds(h) /\ reg[g].seq = reg[h].seq => g = h
  /\ \A g \in Registrations, t \in Tokens : Holds(g) => reg[g].seq # LegacyId(t)
  /\ \A g \in Registrations, k \in Identities, t \in Tokens : Holds(g) => reg[g].seq # FreshId(k, t)

Numbered == seq \in Nat /\ NumbersDrawn /\ NumbersApart

(* A registration that is there before and after keeps its number.         *)
Steady ==
  \A k \in Identities, t \in Tokens :
    NumberOf(k, t) > 0 /\ Pair(k, t)' => NumberOf(k, t)' = NumberOf(k, t)

(* Numbers stay where they are, or are given up.                           *)
LEMMA NumbersStay ==
  ASSUME Numbered, seq' = seq,
         \A t \in Tokens : LegacyId(t)' \in {LegacyId(t), 0},
         \A k \in Identities, t \in Tokens : FreshId(k, t)' \in {FreshId(k, t), 0},
         \A g \in Registrations : Holds(g)' => Holds(g) /\ reg'[g].seq = reg[g].seq
  PROVE  Numbered'
<1>1. NumbersDrawn'
  BY DEF Numbered, NumbersDrawn
<1>2. NumbersApart'
  BY DEF Numbered, NumbersDrawn, NumbersApart
<1> QED BY <1>1, <1>2 DEF Numbered

(* A registration puts the number it drew in one document.                 *)
LEMMA NumberFiled ==
  ASSUME Numbered, seq' = seq, NEW g \in Registrations, Holds(g), ~ Holds(g)',
         \A h \in Registrations : h # g => reg'[h] = reg[h],
         \/ /\ \A k \in Identities, t \in Tokens : FreshId(k, t)' = FreshId(k, t)
            /\ \E t \in Tokens : /\ LegacyId(t)' = reg[g].seq
                                 /\ \A x \in Tokens : x # t => LegacyId(x)' = LegacyId(x)
         \/ /\ \A t \in Tokens : LegacyId(t)' = LegacyId(t)
            /\ \E k \in Identities, t \in Tokens :
                 /\ FreshId(k, t)' = reg[g].seq
                 /\ \A j \in Identities, x \in Tokens :
                      <<j, x>> # <<k, t>> => FreshId(j, x)' = FreshId(j, x)
  PROVE  Numbered'
<1>1. \A h \in Registrations : h # g => (Holds(h)' <=> Holds(h))
  BY DEF Holds
<1>2. NumbersDrawn'
  BY <1>1 DEF Numbered, NumbersDrawn
<1>3. NumbersApart'
  BY <1>1 DEF Numbered, NumbersDrawn, NumbersApart
<1> QED BY <1>2, <1>3 DEF Numbered

(* The counter is stepped, and the number drawn is used once.              *)
LEMMA NumberDrawn ==
  ASSUME Numbered, seq' = seq + 1,
         \A k \in Identities, t \in Tokens : FreshId(k, t)' = FreshId(k, t),
         \/ /\ \A t \in Tokens : LegacyId(t)' = LegacyId(t)
            /\ \E g \in Registrations : /\ reg'[g].seq = seq'
                                        /\ \A h \in Registrations : h # g => reg'[h] = reg[h]
         \/ /\ reg' = reg
            /\ \E t \in Tokens : /\ LegacyId(t)' = seq'
                                 /\ \A x \in Tokens : x # t => LegacyId(x)' = LegacyId(x)
  PROVE  Numbered'
<1>1. NumbersDrawn'
  BY DEF Numbered, NumbersDrawn, Holds
<1>2. NumbersApart'
  BY DEF Numbered, NumbersDrawn, NumbersApart, Holds
<1> QED BY <1>1, <1>2 DEF Numbered

(* No document's number changes, and none of this release appears.         *)
LEMMA SteadyIds ==
  ASSUME Stored,
         \A t \in Tokens : legacy'[t] # None /\ legacy[t] # None => legacy'[t].id = legacy[t].id \/ legacy[t].id = 0,
         \A k \in Identities, t \in Tokens :
           /\ fresh'[k][t] # None => fresh[k][t] # None /\ fresh'[k][t].id = fresh[k][t].id
           /\ fresh[k][t] # None => ~ LegacyPair(k, t)'
  PROVE  Steady
<1> SUFFICES ASSUME NEW k \in Identities, NEW t \in Tokens, NumberOf(k, t) > 0, Pair(k, t)'
             PROVE  NumberOf(k, t)' = NumberOf(k, t)
  BY DEF Steady
<1>1. CASE fresh[k][t] # None
  BY <1>1 DEF NumberOf, Pair
<1>2. CASE fresh[k][t] = None /\ LegacyPair(k, t)
  BY <1>2 DEF NumberOf, Pair, LegacyPair
<1>3. CASE fresh[k][t] = None /\ ~ LegacyPair(k, t)
  BY <1>3 DEF NumberOf
<1> QED BY <1>1, <1>2, <1>3

(* A step of a registration leaves its number with it, files it or drops   *)
(* it.                                                                     *)
LEMMA RegistrationHolds ==
  ASSUME Inv, NEW g \in Registrations, Upsert(g) \/ UpsertInsert(g) \/ FillId(g) \/ ReadId(g)
  PROVE  Holds(g)' => Holds(g) /\ reg'[g].seq = reg[g].seq
<1>1. reg[g] \in RegStates /\ reg \in [Registrations -> RegStates]
  BY DEF Inv, Typed, TypeOK
<1>2. \A r : RegGoes(g, r) => reg'[g] = r
  BY <1>1 DEF RegGoes
<1>3. IdleReg.at = "idle"
  BY DEF IdleReg
<1>4. CASE Upsert(g)
  <2>1. RegGoes(g, IdleReg) \/ RegGoes(g, [reg[g] EXCEPT !.at = "fill"]) \/ RegGoes(g, [reg[g] EXCEPT !.at = "insert"])
    <3>1. CASE legacy[reg[g].token].id > 0
      BY <1>4, <3>1, Zenon DEF Upsert
    <3>2. CASE ~ (legacy[reg[g].token].id > 0)
      BY <1>4, <3>2, Zenon DEF Upsert
    <3> QED BY <3>1, <3>2
  <2>2. /\ [reg[g] EXCEPT !.at = "fill"].seq = reg[g].seq
        /\ [reg[g] EXCEPT !.at = "insert"].seq = reg[g].seq
    BY <1>1 DEF RegStates
  <2>3. reg[g].at = "upsert"
    BY <1>4 DEF Upsert
  <2> QED BY <1>2, <1>3, <2>1, <2>2, <2>3 DEF Holds
<1>5. CASE UpsertInsert(g)
  <2>1. RegGoes(g, IdleReg) \/ RegGoes(g, [reg[g] EXCEPT !.at = "upsert", !.attempt = @ + 1])
    BY <1>5 DEF UpsertInsert
  <2>2. [reg[g] EXCEPT !.at = "upsert", !.attempt = @ + 1].seq = reg[g].seq
    BY <1>1 DEF RegStates
  <2>3. reg[g].at = "insert"
    BY <1>5 DEF UpsertInsert
  <2> QED BY <1>2, <1>3, <2>1, <2>2, <2>3 DEF Holds
<1>6. CASE FillId(g)
  <2>1. [reg[g] EXCEPT !.at = "read"].at = "read"
    BY <1>1 DEF RegStates
  <2> QED BY <1>2, <1>6, <2>1 DEF FillId, Holds
<1>7. CASE ReadId(g)
  BY <1>2, <1>3, <1>7 DEF ReadId, Holds
<1> QED BY <1>4, <1>5, <1>6, <1>7

(* Registering through this release: the number drawn is kept for one      *)
(* document, and a document that has one keeps it.                         *)
LEMMA RegistrationNumbers ==
  ASSUME Inv, Numbered, NEW g \in Registrations,
         RegisterDevice(g) \/ Upsert(g) \/ UpsertInsert(g) \/ FillId(g) \/ ReadId(g)
  PROVE  Numbered' /\ Steady
<1>1. DocsOK /\ reg[g].seq \in Ids
  BY DEF Inv, Typed, TypeOK, DocsOK, RegStates, Ids
<1>2. \A h \in Registrations : h # g => reg'[h] = reg[h]
  BY TypedRegistration DEF Inv
<1>3. \A k \in Identities, t \in Tokens : fresh[k][t] # None => ~ LegacyPair(k, t)
  BY <1>1 DEF DocsOK, Stored, OnePerPair
<1>4. CASE RegisterDevice(g)
  <2>1. UNCHANGED <<legacy, fresh>> /\ seq' = seq + 1 /\ reg'[g].seq = seq'
    BY <1>4 DEF RegisterDevice, NextSeq, RegGoes, Inv, Typed, TypeOK
  <2>2. Numbered'
    BY <1>2, <2>1, NumberDrawn DEF LegacyId, FreshId
  <2>3. Steady
    BY <1>1, <1>3, <2>1, SteadyIds DEF DocsOK, LegacyPair
  <2> QED BY <2>2, <2>3
<1>5. ASSUME Upsert(g) \/ UpsertInsert(g) \/ FillId(g) \/ ReadId(g),
             UNCHANGED <<legacy, fresh, seq>>
      PROVE  Numbered' /\ Steady
  <2>1. Numbered'
    BY <1>2, <1>5, RegistrationHolds, NumbersStay DEF LegacyId, FreshId, Holds
  <2>2. Steady
    BY <1>1, <1>3, <1>5, SteadyIds DEF DocsOK, LegacyPair
  <2> QED BY <2>1, <2>2
<1>6. CASE Upsert(g)
  <2>1. PICK k \in Identities, t \in Tokens : k = reg[g].key /\ t = reg[g].token
    BY <1>6 DEF Inv, Typed, CallsCarry, Upsert
  <2>2. seq' = seq
    BY <1>6 DEF Upsert
  <2>3. CASE /\ LegacyPair(k, t)
             /\ legacy' = [legacy EXCEPT ![t].active = TRUE, ![t].id = @]
             /\ UNCHANGED fresh
    <3>1. legacy[t] \in LegacyDocs
      BY <1>1, <2>3 DEF LegacyPair, DocsOK
    <3>2. /\ \A x \in Tokens : x # t => legacy'[x] = legacy[x]
          /\ legacy'[t] \in LegacyDocs /\ legacy'[t].id = legacy[t].id
          /\ legacy'[t].owner = legacy[t].owner /\ legacy'[t].hasToken = legacy[t].hasToken
      BY <1>1, <2>3, <3>1 DEF LegacyDocs, DocsOK
    <3>3. \A x \in Tokens : LegacyId(x)' = LegacyId(x)
      <4>1. legacy'[t] # None
        BY <3>2, NoneIsNoDocument
      <4>2. legacy[t] # None
        BY <2>3 DEF LegacyPair
      <4>3. LegacyId(t)' = LegacyId(t)
        BY <3>2, <4>1, <4>2 DEF LegacyId
      <4>4. \A x \in Tokens : x # t => LegacyId(x)' = LegacyId(x)
        BY <3>2 DEF LegacyId
      <4> QED BY <4>3, <4>4
    <3>4. Numbered'
      BY <1>2, <1>6, <2>2, <2>3, <3>3, RegistrationHolds, NumbersStay DEF FreshId, Holds
    <3>5. \A j \in Identities, x \in Tokens : LegacyPair(j, x)' => LegacyPair(j, x)
      BY <2>3, <3>2 DEF LegacyPair
    <3>6. Steady
      BY <1>1, <1>3, <2>3, <3>2, <3>5, SteadyIds DEF DocsOK
    <3> QED BY <3>4, <3>6
  <2>4. CASE /\ fresh[k][t] # None
             /\ fresh' = [fresh EXCEPT ![k][t].active = TRUE, ![k][t].id = @]
             /\ UNCHANGED legacy
    <3>1. fresh[k][t] \in FreshDocs
      BY <1>1, <2>4 DEF DocsOK
    <3>2. /\ \A j \in Identities, x \in Tokens : <<j, x>> # <<k, t>> => fresh'[j][x] = fresh[j][x]
          /\ fresh'[k][t] \in FreshDocs /\ fresh'[k][t].id = fresh[k][t].id
      BY <1>1, <2>4, <3>1 DEF FreshDocs, DocsOK
    <3>3. \A j \in Identities, x \in Tokens : FreshId(j, x)' = FreshId(j, x)
      <4>1. fresh'[k][t] # None
        BY <3>2, NoneIsNoDocument
      <4>2. fresh[k][t] # None
        BY <2>4
      <4>3. FreshId(k, t)' = FreshId(k, t)
        BY <3>2, <4>1, <4>2 DEF FreshId
      <4>4. \A j \in Identities, x \in Tokens : <<j, x>> # <<k, t>> => FreshId(j, x)' = FreshId(j, x)
        BY <3>2 DEF FreshId
      <4> QED BY <4>3, <4>4
    <3>4. Numbered'
      BY <1>2, <1>6, <2>2, <2>4, <3>3, RegistrationHolds, NumbersStay DEF LegacyId, Holds
    <3>5. Steady
      BY <1>1, <1>3, <2>4, <3>2, SteadyIds DEF DocsOK, LegacyPair
    <3> QED BY <3>4, <3>5
  <2>5. CASE UNCHANGED <<legacy, fresh>>
    BY <1>5, <1>6, <2>2, <2>5
  <2> QED BY <1>6, <2>1, <2>3, <2>4, <2>5 DEF Upsert, MatchedId
<1>7. CASE UpsertInsert(g)
  <2>1. PICK k \in Identities, t \in Tokens : k = reg[g].key /\ t = reg[g].token
    BY <1>7 DEF Inv, Typed, CallsCarry, UpsertInsert
  <2>2. UNCHANGED <<legacy, seq>> /\ Holds(g)
    BY <1>7 DEF UpsertInsert, Holds
  <2>3. CASE /\ ~ Pair(k, t)
             /\ fresh' = [fresh EXCEPT ![k][t] = [active |-> TRUE, id |-> reg[g].seq]]
             /\ RegGoes(g, IdleReg)
    <3>1. [active |-> TRUE, id |-> reg[g].seq] \in FreshDocs
      BY <1>1 DEF FreshDocs
    <3>2. /\ \A j \in Identities, x \in Tokens : <<j, x>> # <<k, t>> => fresh'[j][x] = fresh[j][x]
          /\ fresh'[k][t] \in FreshDocs /\ fresh'[k][t].id = reg[g].seq
      BY <1>1, <2>3, <3>1 DEF DocsOK
    <3>3. ~ Holds(g)'
      BY <2>3 DEF RegGoes, IdleReg, Holds, Inv, Typed, TypeOK
    <3>4. /\ FreshId(k, t)' = reg[g].seq
          /\ \A j \in Identities, x \in Tokens : <<j, x>> # <<k, t>> => FreshId(j, x)' = FreshId(j, x)
          /\ \A x \in Tokens : LegacyId(x)' = LegacyId(x)
      BY <2>2, <3>2, NoneIsNoDocument DEF FreshId, LegacyId
    <3>5. Numbered'
      BY <1>2, <2>2, <3>3, <3>4, NumberFiled
    <3>6. Steady
      <4>1. ~ (NumberOf(k, t) > 0)
        BY <2>3 DEF NumberOf, Pair
      <4>2. \A j \in Identities, x \in Tokens : LegacyPair(j, x)' <=> LegacyPair(j, x)
        BY <2>2 DEF LegacyPair
      <4>3. \A j \in Identities, x \in Tokens : <<j, x>> # <<k, t>> => NumberOf(j, x)' = NumberOf(j, x)
        BY <2>2, <3>2, <4>2 DEF NumberOf
      <4> QED BY <4>1, <4>3 DEF Steady
    <3> QED BY <3>5, <3>6
  <2>4. CASE UNCHANGED fresh
    BY <1>5, <1>7, <2>2, <2>4
  <2> QED BY <1>7, <2>1, <2>3, <2>4 DEF UpsertInsert
<1>8. CASE FillId(g)
  <2>1. PICK t \in Tokens : t = reg[g].token
    BY <1>8 DEF Inv, Typed, CallsCarry, FillId
  <2>2. UNCHANGED <<fresh, seq>> /\ Holds(g)
    BY <1>8 DEF FillId, Holds
  <2>3. CASE /\ legacy[t] # None /\ legacy[t].id = 0
             /\ legacy' = [legacy EXCEPT ![t].id = reg[g].seq]
    <3>1. legacy[t] \in LegacyDocs
      BY <1>1, <2>3 DEF DocsOK
    <3>2. /\ \A x \in Tokens : x # t => legacy'[x] = legacy[x]
          /\ legacy'[t] \in LegacyDocs /\ legacy'[t].id = reg[g].seq
          /\ legacy'[t].owner = legacy[t].owner /\ legacy'[t].hasToken = legacy[t].hasToken
      BY <1>1, <2>3, <3>1 DEF LegacyDocs, DocsOK
    <3>3. /\ LegacyId(t)' = reg[g].seq
          /\ \A x \in Tokens : x # t => LegacyId(x)' = LegacyId(x)
          /\ \A j \in Identities, x \in Tokens : FreshId(j, x)' = FreshId(j, x)
      <4>1. legacy'[t] # None
        BY <3>2, NoneIsNoDocument
      <4>2. LegacyId(t)' = reg[g].seq
        BY <3>2, <4>1 DEF LegacyId
      <4>3. \A x \in Tokens : x # t => LegacyId(x)' = LegacyId(x)
        BY <3>2 DEF LegacyId
      <4>4. \A j \in Identities, x \in Tokens : FreshId(j, x)' = FreshId(j, x)
        BY <2>2 DEF FreshId
      <4> QED BY <4>2, <4>3, <4>4
    <3>4. ~ Holds(g)'
      <4>1. [reg[g] EXCEPT !.at = "read"].at = "read"
        BY DEF Inv, Typed, TypeOK, RegStates
      <4> QED BY <1>8, <4>1 DEF FillId, RegGoes, Holds, Inv, Typed, TypeOK
    <3>5. Numbered'
      BY <1>2, <2>2, <3>3, <3>4, NumberFiled
    <3>6. \A j \in Identities, x \in Tokens : LegacyPair(j, x)' => LegacyPair(j, x)
      BY <2>3, <3>2 DEF LegacyPair
    <3>7. Steady
      BY <1>1, <1>3, <2>2, <2>3, <3>2, <3>6, SteadyIds DEF DocsOK
    <3> QED BY <3>5, <3>7
  <2>4. CASE UNCHANGED legacy
    BY <1>5, <1>8, <2>2, <2>4
  <2> QED BY <1>8, <2>1, <2>3, <2>4 DEF FillId
<1>9. CASE ReadId(g)
  BY <1>5, <1>9 DEF ReadId
<1> QED BY <1>4, <1>6, <1>7, <1>8, <1>9

(* An unregistration gives up the pair's numbers and no other's.           *)
LEMMA UnregisterNumbers ==
  ASSUME Inv, Numbered, NEW k \in Identities, NEW t \in Tokens, UnregisterDevice(k, t)
  PROVE  Numbered' /\ Steady
<1>1. DocsOK
  BY DEF Inv, Typed, TypeOK, DocsOK
<1>2. /\ legacy'[t] \in {legacy[t], None} /\ (legacy[t] # None /\ legacy[t].owner = k => legacy'[t] = None)
      /\ \A x \in Tokens : x # t => legacy'[x] = legacy[x]
  BY <1>1 DEF UnregisterDevice, Unregistered, DocsOK
<1>3. /\ fresh'[k][t] = None
      /\ \A j \in Identities, x \in Tokens : <<j, x>> # <<k, t>> => fresh'[j][x] = fresh[j][x]
  BY <1>1 DEF UnregisterDevice, DocsOK
<1>4. UNCHANGED <<seq, reg>>
  BY DEF UnregisterDevice
<1>5. Numbered'
  BY <1>2, <1>3, <1>4, NumbersStay DEF LegacyId, FreshId, Holds
<1>6. \A j \in Identities, x \in Tokens : fresh[j][x] # None => ~ LegacyPair(j, x)'
  <2>1. \A j \in Identities, x \in Tokens : LegacyPair(j, x)' => LegacyPair(j, x)
    BY <1>2 DEF LegacyPair
  <2> QED BY <1>1, <2>1 DEF DocsOK, Stored, OnePerPair
<1>7. Steady
  BY <1>1, <1>2, <1>3, <1>6, SteadyIds DEF DocsOK
<1> QED BY <1>5, <1>7

(* An old replica numbers only a document it inserts, with a number it     *)
(* draws.                                                                  *)
LEMMA OldRegisterNumbers ==
  ASSUME Inv, Numbered, NEW k \in Identities, NEW t \in Tokens, OldRegister(k, t)
  PROVE  Numbered' /\ Steady
<1>1. DocsOK /\ seq \in Nat
  BY DEF Inv, Typed, TypeOK, DocsOK, Numbered
<1>2. UNCHANGED <<fresh, reg>>
  BY DEF OldRegister
<1>3. CASE /\ legacy[t] = None
           /\ seq' \in {seq, seq + 1}
           /\ legacy' = [legacy EXCEPT ![t] =
                [owner |-> k, hasToken |-> FALSE, active |-> TRUE, id |-> IF seq' > seq THEN seq' ELSE 0]]
  <2>1. \A x \in Tokens : x # t => legacy'[x] = legacy[x]
    BY <1>1, <1>3 DEF DocsOK
  <2>2. /\ legacy'[t].id = IF seq' > seq THEN seq' ELSE 0
        /\ ~ legacy'[t].hasToken
    BY <1>1, <1>3 DEF DocsOK
  <2>3. \A x \in Tokens : x # t => LegacyId(x)' = LegacyId(x)
    BY <2>1 DEF LegacyId
  <2>4. \A j \in Identities, x \in Tokens : FreshId(j, x)' = FreshId(j, x)
    BY <1>2 DEF FreshId
  <2>5. Numbered'
    <3>1. CASE seq' = seq
      <4>1. LegacyId(t)' = 0
        BY <1>1, <2>2, <3>1 DEF LegacyId
      <4> QED BY <1>2, <2>3, <2>4, <3>1, <4>1, NumbersStay DEF Holds
    <3>2. CASE seq' = seq + 1
      <4>1. legacy'[t] \in LegacyDocs /\ legacy'[t] # None
        <5>1. seq' \in Ids
          BY <1>1, <3>2, DevicesAssumption, <1>3 DEF Ids, OldRegister
        <5>2. [owner |-> k, hasToken |-> FALSE, active |-> TRUE, id |-> IF seq' > seq THEN seq' ELSE 0] \in LegacyDocs
          BY <1>1, <3>2, <5>1 DEF LegacyDocs
        <5>3. legacy'[t] = [owner |-> k, hasToken |-> FALSE, active |-> TRUE, id |-> IF seq' > seq THEN seq' ELSE 0]
          BY <1>1, <1>3 DEF DocsOK
        <5> QED BY <5>2, <5>3, NoneIsNoDocument
      <4>2. LegacyId(t)' = seq'
        BY <1>1, <2>2, <3>2, <4>1 DEF LegacyId
      <4> QED BY <1>2, <2>3, <2>4, <3>2, <4>2, NumberDrawn
    <3> QED BY <1>3, <3>1, <3>2
  <2>6. \A j \in Identities, x \in Tokens : LegacyPair(j, x)' => LegacyPair(j, x)
    BY <2>1, <2>2 DEF LegacyPair
  <2>7. Steady
    BY <1>1, <1>2, <1>3, <2>1, <2>6, SteadyIds DEF DocsOK, Stored, OnePerPair
  <2> QED BY <2>5, <2>7
<1>4. CASE /\ legacy[t] # None /\ ~ (legacy[t].hasToken /\ fresh[k][t] # None)
           /\ legacy' = [legacy EXCEPT ![t].owner = k, ![t].active = TRUE]
           /\ seq' = seq
  <2>1. legacy[t] \in LegacyDocs
    BY <1>1, <1>4 DEF DocsOK
  <2>2. /\ \A x \in Tokens : x # t => legacy'[x] = legacy[x]
        /\ legacy'[t].id = legacy[t].id /\ legacy'[t].owner = k
        /\ legacy'[t].hasToken = legacy[t].hasToken
    BY <1>1, <1>4, <2>1 DEF LegacyDocs, DocsOK
  <2>3. \A x \in Tokens : LegacyId(x)' \in {LegacyId(x), 0}
    <3>1. LegacyId(t)' \in {LegacyId(t), 0}
      <4>1. LegacyId(t) = legacy[t].id
        BY <1>4 DEF LegacyId
      <4> QED BY <2>2, <4>1 DEF LegacyId
    <3>2. \A x \in Tokens : x # t => LegacyId(x)' = LegacyId(x)
      BY <2>2 DEF LegacyId
    <3> QED BY <3>1, <3>2
  <2>4. Numbered'
    BY <1>2, <1>4, <2>3, NumbersStay DEF FreshId, Holds
  <2>5. \A j \in Identities, x \in Tokens : fresh[j][x] # None => ~ LegacyPair(j, x)'
    <3>1. \A j \in Identities : fresh[j][t] # None => ~ LegacyPair(j, t)'
      <4>1. ~ (legacy[t].hasToken /\ fresh[k][t] # None)
        BY <1>4
      <4> QED BY <2>2, <4>1 DEF LegacyPair
    <3>2. \A j \in Identities, x \in Tokens : x # t => (LegacyPair(j, x)' <=> LegacyPair(j, x))
      BY <2>2 DEF LegacyPair
    <3> QED BY <1>1, <3>1, <3>2 DEF DocsOK, Stored, OnePerPair
  <2>6. Steady
    BY <1>1, <1>2, <2>2, <2>5, SteadyIds DEF DocsOK
  <2> QED BY <2>4, <2>6
<1> QED BY <1>3, <1>4 DEF OldRegister

(* Pushes, boots and calls that end renumber nothing.                      *)
LEMMA OthersNumbers ==
  ASSUME Inv, Numbered, UNCHANGED seq,
         UNCHANGED reg \/ \E g \in Registrations : reg' = [reg EXCEPT ![g] = IdleReg],
         \A t \in Tokens :
           \/ legacy'[t] = legacy[t]
           \/ legacy'[t] = None
           \/ /\ legacy[t] # None /\ legacy'[t].id = legacy[t].id
              /\ legacy'[t].owner = legacy[t].owner
              /\ \/ legacy'[t].hasToken = legacy[t].hasToken
                 \/ fresh[legacy[t].owner][t] = None,
         \A k \in Identities, t \in Tokens :
           fresh'[k][t] = fresh[k][t] \/ (fresh[k][t] # None /\ fresh'[k][t].id = fresh[k][t].id)
  PROVE  Numbered' /\ Steady
<1>1. DocsOK
  BY DEF Inv, Typed, TypeOK, DocsOK
<1>2. \A t \in Tokens : LegacyId(t)' \in {LegacyId(t), 0}
  BY DEF LegacyId
<1>3. \A k \in Identities, t \in Tokens : FreshId(k, t)' \in {FreshId(k, t), 0}
  BY DEF FreshId
<1>4. \A h \in Registrations : Holds(h)' => Holds(h) /\ reg'[h].seq = reg[h].seq
  BY DEF Holds, IdleReg, Inv, Typed, TypeOK
<1>5. Numbered'
  BY <1>2, <1>3, <1>4, NumbersStay
<1>6. \A k \in Identities, t \in Tokens : fresh[k][t] # None => ~ LegacyPair(k, t)'
  BY <1>1 DEF DocsOK, Stored, OnePerPair, LegacyPair
<1>7. Steady
  BY <1>1, <1>6, SteadyIds DEF DocsOK
<1> QED BY <1>5, <1>7

LEMMA NumbersStep ==
  ASSUME Inv, Numbered, [Next]_vars
  PROVE  Numbered' /\ Steady
<1>1. DocsOK
  BY DEF Inv, Typed, TypeOK, DocsOK
<1>2. ASSUME NEW g \in Registrations,
             RegisterDevice(g) \/ Upsert(g) \/ UpsertInsert(g) \/ FillId(g) \/ ReadId(g)
      PROVE  Numbered' /\ Steady
  BY <1>2, RegistrationNumbers
<1>3. ASSUME NEW k \in Identities, NEW t \in Tokens, UnregisterDevice(k, t) \/ OldRegister(k, t)
      PROVE  Numbered' /\ Steady
  BY <1>3, UnregisterNumbers, OldRegisterNumbers
<1>4. ASSUME NEW p \in Pushes, DeactivateDevice(p)
      PROVE  Numbered' /\ Steady
  <2>1. PICK t \in Tokens : t = push[p].token
    BY <1>4 DEF Inv, Typed, CallsCarry, DeactivateDevice
  <2>2. UNCHANGED <<seq, reg>>
    BY <1>4 DEF DeactivateDevice, PushGoes
  <2>3. CASE UNCHANGED <<legacy, fresh>>
    BY <2>2, <2>3, OthersNumbers
  <2>4. CASE /\ legacy' = IF legacy[t] # None THEN [legacy EXCEPT ![t].active = FALSE] ELSE legacy
             /\ fresh' = [k \in Identities |->
                  IF fresh[k][t] # None THEN [fresh[k] EXCEPT ![t].active = FALSE] ELSE fresh[k]]
    <3>1. /\ \A x \in Tokens : x # t => legacy'[x] = legacy[x]
          /\ legacy[t] = None => legacy'[t] = legacy[t]
      BY <1>1, <2>4 DEF DocsOK
    <3>2. ASSUME legacy[t] # None
          PROVE  /\ legacy'[t].owner = legacy[t].owner /\ legacy'[t].hasToken = legacy[t].hasToken
                 /\ legacy'[t].id = legacy[t].id
      BY <1>1, <2>4, <3>2 DEF DocsOK, LegacyDocs
    <3>3. ASSUME NEW k \in Identities, NEW x \in Tokens
          PROVE  fresh'[k][x] = fresh[k][x] \/ (fresh[k][x] # None /\ fresh'[k][x].id = fresh[k][x].id)
      <4>1. CASE fresh[k][t] = None
        BY <2>4, <4>1
      <4>2. CASE fresh[k][t] # None
        <5>1. fresh[k] \in [Tokens -> FreshDocs \cup {None}] /\ fresh[k][t] \in FreshDocs
          BY <1>1, <4>2 DEF DocsOK
        <5>2. fresh'[k] = [fresh[k] EXCEPT ![t].active = FALSE]
          BY <2>4, <4>2
        <5> QED BY <4>2, <5>1, <5>2 DEF FreshDocs
      <4> QED BY <4>1, <4>2
    <3> QED BY <2>2, <3>1, <3>2, <3>3, OthersNumbers
  <2> QED BY <1>4, <2>1, <2>3, <2>4 DEF DeactivateDevice
<1>5. ASSUME NEW b \in Boots, BackfillStep(b)
      PROVE  Numbered' /\ Steady
  <2>1. PICK t \in boot[b].todo : UNCHANGED legacy \/ (Lacking(t) /\ ~ Collides(t) /\ legacy' = Filled(t))
    BY <1>5, Zenon DEF BackfillStep, StillLacking
  <2>2. t \in Tokens /\ UNCHANGED <<seq, reg, fresh>>
    BY <1>5 DEF BackfillStep, BootGoes, Inv, Typed, TypeOK, BootStates
  <2>3. CASE UNCHANGED legacy
    BY <2>2, <2>3, OthersNumbers
  <2>4. CASE Lacking(t) /\ ~ Collides(t) /\ legacy' = Filled(t)
    <3>1. legacy[t] \in LegacyDocs /\ legacy[t] # None /\ fresh[legacy[t].owner][t] = None
      BY <1>1, <2>2, <2>4 DEF DocsOK, Lacking, Collides
    <3>2. /\ \A x \in Tokens : x # t => legacy'[x] = legacy[x]
          /\ legacy'[t].owner = legacy[t].owner /\ legacy'[t].id = legacy[t].id
      BY <1>1, <2>2, <2>4, <3>1 DEF Filled, LegacyDocs, DocsOK
    <3> QED BY <2>2, <3>1, <3>2, OthersNumbers
  <2> QED BY <2>1, <2>3, <2>4
<1>6. ASSUME NEW b \in Boots, BackfillDrop(b)
      PROVE  Numbered' /\ Steady
  <2>1. PICK t \in Tokens : t = boot[b].token
    BY <1>6 DEF Inv, Typed, CallsCarry, BackfillDrop
  <2>2. UNCHANGED <<seq, reg, fresh>>
    BY <1>6 DEF BackfillDrop, BootGoes
  <2>3. \A x \in Tokens : legacy'[x] = legacy[x] \/ legacy'[x] = None
    BY <1>1, <1>6, <2>1 DEF BackfillDrop, DocsOK
  <2> QED BY <2>2, <2>3, OthersNumbers
<1>7. ASSUME NEW k \in Identities, OldDeactivate(k)
      PROVE  Numbered' /\ Steady
  <2>1. PICK t \in Tokens :
          legacy[t] # None /\ legacy' = [legacy EXCEPT ![t].active = FALSE] /\ fresh' = fresh
    BY <1>7, OldDeactivateShape
  <2>2. legacy[t] \in LegacyDocs
    BY <1>1, <2>1 DEF DocsOK
  <2>3. /\ \A x \in Tokens : x # t => legacy'[x] = legacy[x]
        /\ legacy'[t].owner = legacy[t].owner /\ legacy'[t].hasToken = legacy[t].hasToken
        /\ legacy'[t].id = legacy[t].id
    BY <1>1, <2>1, <2>2 DEF DocsOK, LegacyDocs
  <2>4. UNCHANGED <<seq, reg>>
    BY <1>7 DEF OldDeactivate
  <2> QED BY <2>1, <2>3, <2>4, OthersNumbers
<1>8. ASSUME \/ \E p \in Pushes : ListActiveDevices(p) \/ SendFCM(p)
             \/ \E b \in Boots : BackfillStart(b)
             \/ Fails
             \/ UNCHANGED vars
      PROVE  Numbered' /\ Steady
  <2>1. UNCHANGED <<legacy, fresh, seq>>
    BY <1>8 DEF ListActiveDevices, SendFCM, PushGoes, BackfillStart, BootGoes, Fails, vars
  <2>2. UNCHANGED reg \/ \E g \in Registrations : reg' = [reg EXCEPT ![g] = IdleReg]
    BY <1>8 DEF ListActiveDevices, SendFCM, PushGoes, BackfillStart, BootGoes, Fails, vars
  <2> QED BY <2>1, <2>2, OthersNumbers
<1> QED BY <1>2, <1>3, <1>4, <1>5, <1>6, <1>7, <1>8 DEF Next

(* Numbers that are apart are no two registrations' number.                *)
LEMMA NumbersDistinct ==
  ASSUME NEW k \in Identities, NEW t \in Tokens, NEW j \in Identities, NEW u \in Tokens, Numbered',
         NumberOf(k, t)' > 0, NumberOf(k, t)' = NumberOf(j, u)'
  PROVE  j = k /\ u = t
<1>1. \A i \in Identities, x \in Tokens :
        NumberOf(i, x)' > 0 => \/ NumberOf(i, x)' = FreshId(i, x)'
                               \/ NumberOf(i, x)' = LegacyId(x)' /\ legacy'[x].owner = i
  BY DEF NumberOf, FreshId, LegacyId, LegacyPair
<1> QED BY <1>1 DEF Numbered, NumbersApart

(* The number POST /registerDevice answers with never changes while the    *)
(* registration stands, and no two registrations share one, although two   *)
(* concurrent calls may fill in the number of one document.                *)
THEOREM NumbersAreStable == Spec => NumbersStable
<1>1. Init => Inv /\ Numbered
  <2>1. Init => Numbered
    BY DEF Init, Numbered, NumbersDrawn, NumbersApart, LegacyId, FreshId, Holds, IdleReg
  <2> QED BY <2>1, InvInit
<1>2. Inv /\ Numbered /\ [Next]_vars => (Inv /\ Numbered)'
  BY InvStep, NumbersStep
<1>3. Inv /\ Numbered /\ (Inv /\ Numbered)' /\ [Next]_vars =>
        [\A k \in Identities, t \in Tokens :
           /\ NumberOf(k, t) > 0 /\ Pair(k, t)' => NumberOf(k, t)' = NumberOf(k, t)
           /\ \A j \in Identities, u \in Tokens :
                NumberOf(k, t)' > 0 /\ NumberOf(k, t)' = NumberOf(j, u)' => j = k /\ u = t]_vars
  <2> SUFFICES ASSUME Inv, Numbered, Inv', Numbered', [Next]_vars, NEW k \in Identities, NEW t \in Tokens
               PROVE  /\ NumberOf(k, t) > 0 /\ Pair(k, t)' => NumberOf(k, t)' = NumberOf(k, t)
                      /\ \A j \in Identities, u \in Tokens :
                           NumberOf(k, t)' > 0 /\ NumberOf(k, t)' = NumberOf(j, u)' => j = k /\ u = t
    OBVIOUS
  <2>1. Steady
    BY NumbersStep
  <2> QED BY <2>1, NumbersDistinct DEF Steady
<1> QED BY <1>1, <1>2, <1>3, PTL DEF Spec, NumbersStable
=============================================================================
