------------------------------ MODULE PaidHandles ------------------------------
(***************************************************************************)
(* Paid handles: the subscriptions that pay for handles, over the Mongo    *)
(* collection "handle_subscriptions" and the handle registry.              *)
(*                                                                         *)
(* Three kinds of goroutine run side by side, one database or store call   *)
(* per step: a PUT that must show a purchase (requirePurchase,             *)
(* bindSubscription, then the claim), a store notification (refreshByID,   *)
(* adoptLinkedToken) and the hourly sweep of every replica                 *)
(* (SweepLapsedSubscriptions, releaseLapsed).                              *)
(*                                                                         *)
(* The registry is taken at its promise, HandleDirectory: a claim          *)
(* registers a free handle for a key that holds none or is refused, and a  *)
(* release frees a held one.  Google and Apple are external.               *)
(***************************************************************************)
EXTENDS Naturals, FiniteSets

CONSTANTS
  Requests, Notices, Sweepers, \* the goroutines
  Handles, Keys,
  Subs,       \* subscription ids
  Generated,  \* the handles that are free
  Tiers,      \* handle lengths a product is sold for
  TierOf,     \* TierOf[h]: the tier handle h needs
  Sold,       \* Sold[s]: the tiers s may be bought or renewed in
  Links,      \* Links[s]: the purchase token s replaces, or None
  Forgotten,  \* subscriptions the store drops some time after they ended
  Period, Grace, Batch, \* billing period, HANDLE_GRACE_DAYS, sweepBatch
  MaxLag,     \* how many ticks a request or a sweep may last
  MaxTime,    \* bound on the clock
  Observed,   \* the sweeps whose run the observer follows
  LastSale,   \* the last time a period is sold, so that the clock outlives it
  None

ASSUME PaidAssumption ==
  /\ Period \in Nat \ {0} /\ Grace \in Nat /\ Batch \in Nat
  /\ MaxLag \in Nat /\ MaxTime \in Nat \ {0} /\ LastSale \in Nat
  /\ Generated \subseteq Handles /\ Observed \subseteq Sweepers
  /\ TierOf \in [Handles -> Tiers] /\ Sold \in [Subs -> SUBSET Tiers]
  /\ Links \in [Subs -> Subs \cup {None}]
  /\ None \notin Keys /\ None \notin Subs

Times == 1 .. MaxTime
Expiries == 0 .. (MaxTime + Period)

(* SubscriptionStatus.  "active" is every state paid up to expiresAt       *)
(* (active, canceled), "ended" every state without access (on_hold,        *)
(* expired, revoked, pending).                                             *)
Statuses ==
  [state: {"active", "grace", "ended", "wrong_tier"}, tier: Tiers, expiresAt: Expiries]

(* A document of the collection; None before the first bind.               *)
Rows == [handle: Handles, key: Keys, status: Statuses, released: BOOLEAN]

ASSUME NoneIsNoRow == None \notin Rows

(* A goroutine: the call it makes next, and what it has read.              *)
PutStates ==
  [at: {"idle", "check", "verify", "bindRead", "bindHeld", "bindWrite", "claim"},
   handle: Handles \cup {None}, key: Keys \cup {None}, sub: Subs \cup {None},
   now: Times \cup {0}, tries: 0 .. 3, cur: Rows \cup {None}, v: Statuses \cup {None}]

NoticeStates ==
  [at: {"idle", "read", "ask", "apply", "adoptAsk", "adoptRead", "adoptBind"},
   sub: Subs \cup {None}, row: Rows \cup {None}, v: Statuses \cup {None}]

Candidates == [id: Subs, row: Rows]

SweepStates ==
  [at: {"idle", "next", "apply", "others", "get", "release", "mark"},
   now: Times \cup {0}, todo: SUBSET Candidates, id: Subs \cup {None},
   row: Rows \cup {None}, v: Statuses \cup {None}, paid: BOOLEAN]

VARIABLES
  holder,   \* holder[h]: the key the registry says holds h
  subs,     \* subs[s]: the row of subscription s
  clock,
  store,    \* store[s]: what the store says of s now
  known,    \* the subscriptions the store still knows
  outage,   \* the sweeps' calls may fail
  put,      \* put[r]: a PUT /api/handle
  notice,   \* notice[n]: a notification being handled
  sweep,    \* sweep[w]: a replica's sweep
  (* observers, never read by the server *)
  payer,    \* payer[h]: the subscription verified for the claim that registered h
  overdue   \* overdue[w]: what the store let lapse for a handle since w's sweep began

vars == <<holder, subs, clock, store, known, outage, put, notice, sweep, payer, overdue>>

IdlePut ==
  [at |-> "idle", handle |-> None, key |-> None, sub |-> None, now |-> 0,
   tries |-> 0, cur |-> None, v |-> None]
IdleNotice == [at |-> "idle", sub |-> None, row |-> None, v |-> None]
IdleSweep ==
  [at |-> "idle", now |-> 0, todo |-> {}, id |-> None, row |-> None, v |-> None, paid |-> FALSE]

Entitled(st, now) ==
  \/ st.state = "active" /\ st.expiresAt > now
  \/ st.state = "grace"

(* A status whose handle is due: no access, and past the grace days.       *)
Due(st, now) == ~ Entitled(st, now) /\ st.expiresAt + Grace < now

(* applyStatus: a renewal into a tier that does not fit the handle does    *)
(* not extend it.                                                          *)
Fitted(row, v) ==
  IF v.tier = TierOf[row.handle] THEN v
  ELSE [v EXCEPT !.state = "wrong_tier",
                 !.expiresAt = IF @ > row.status.expiresAt THEN row.status.expiresAt ELSE @]

Bound(s, h, k) == subs[s] # None /\ subs[s].handle = h /\ subs[s].key = k

(* The store, asked about s now, has let it lapse for handle h.            *)
StoreLapsed(s, h) ==
  s \notin known \/ store[s].tier # TierOf[h] \/ Due(store[s], clock)

(* Ghost state: what lapsed while a sweep was running.                     *)
Observe ==
  overdue' = [w \in Sweepers |->
    IF sweep'[w].at = "idle" \/ w \notin Observed THEN {}
    ELSE overdue[w] \cup {p \in Subs \X Handles : StoreLapsed(p[1], p[2])'}]

-----------------------------------------------------------------------------
Init ==
  /\ holder = [h \in Handles |-> None]
  /\ subs = [s \in Subs |-> None]
  /\ clock = 1
  /\ \E t \in Tiers : store = [s \in Subs |-> [state |-> "ended", tier |-> t, expiresAt |-> 0]]
  /\ known = {}
  /\ outage = TRUE
  /\ put = [r \in Requests |-> IdlePut]
  /\ notice = [n \in Notices |-> IdleNotice]
  /\ sweep = [w \in Sweepers |-> IdleSweep]
  /\ payer = [h \in Handles |-> None]
  /\ overdue = [w \in Sweepers |-> {}]

Tick ==
  /\ clock < MaxTime
  /\ \A r \in Requests : put[r].at # "idle" => clock < put[r].now + MaxLag
  /\ \A w \in Sweepers : sweep[w].at # "idle" => clock < sweep[w].now + MaxLag
  /\ clock' = clock + 1
  /\ UNCHANGED <<holder, subs, store, known, outage, put, notice, sweep, payer>>
  /\ Observe

(* The store: a purchase or a renewal, into whatever tier; a failed        *)
(* renewal with access kept; an end, a refund included; and a token that   *)
(* is dropped.  A purchase that replaces another ends it for good.         *)
Ended(st) == [st EXCEPT !.state = "ended", !.expiresAt = IF @ > clock THEN clock ELSE @]

SetStore(s, st) ==
  /\ store' = [store EXCEPT ![s] = st]
  /\ UNCHANGED <<holder, subs, clock, known, outage, put, notice, sweep, payer>>
  /\ Observe

StoreRenews(s) ==
  /\ s \in known \/ store[s].expiresAt = 0
  /\ clock <= LastSale
  /\ \A t \in Subs : Links[t] = s => store[t].expiresAt = 0
  /\ \E t \in Sold[s] :
       store' = [u \in Subs |->
         IF u = s THEN [state |-> "active", tier |-> t, expiresAt |-> clock + Period]
         ELSE IF u = Links[s] THEN Ended(store[u])
         ELSE store[u]]
  /\ known' = known \cup {s}
  /\ UNCHANGED <<holder, subs, clock, outage, put, notice, sweep, payer>>
  /\ Observe

StoreGrants(s) ==
  /\ store[s].state = "active" /\ store[s].expiresAt <= clock
  /\ SetStore(s, [store[s] EXCEPT !.state = "grace"])

StoreEnds(s) ==
  /\ store[s].state # "ended"
  /\ SetStore(s, Ended(store[s]))

StoreForgets(s) ==
  /\ s \in known \cap Forgotten
  /\ store[s].state = "ended"
  /\ known' = known \ {s}
  /\ UNCHANGED <<holder, subs, clock, store, outage, put, notice, sweep, payer>>
  /\ Observe

StoreStep(s) == StoreRenews(s) \/ StoreGrants(s) \/ StoreEnds(s) \/ StoreForgets(s)

(* Calls are answered and processes stay up from now on.                  *)
OutageEnds ==
  /\ outage
  /\ outage' = FALSE
  /\ UNCHANGED <<holder, subs, clock, store, known, put, notice, sweep, payer>>
  /\ Observe

(* An owner's tombstone or an operator's release.                          *)
Release(h) ==
  /\ holder[h] # None
  /\ holder' = [holder EXCEPT ![h] = None]
  /\ payer' = [payer EXCEPT ![h] = None]
  /\ UNCHANGED <<subs, clock, store, known, outage, put, notice, sweep>>
  /\ Observe

-----------------------------------------------------------------------------
(* PUT /api/handle.                                                        *)

PutGoes(r, p) ==
  /\ put' = [put EXCEPT ![r] = p]
  /\ UNCHANGED <<clock, store, known, outage, notice, sweep>>
  /\ Observe

PutHandle(r) ==
  /\ put[r].at = "idle"
  /\ \E h \in Handles, k \in Keys, s \in Subs \cup {None} :
       PutGoes(r, [IdlePut EXCEPT !.at = IF h \in Generated THEN "claim" ELSE "check",
                                  !.handle = h, !.key = k, !.sub = s, !.now = clock])
  /\ UNCHANGED <<holder, subs, payer>>

(* What the App Store and Play answer, to a purchase that is verified and  *)
(* to a row that is refreshed: the status, or that there is no such        *)
(* subscription.                                                           *)
Rejects(s) == s \notin known
Answer(s) == store[s]

(* requirePurchase: a key that holds the handle already shows nothing.     *)
CheckHolder(r) ==
  LET p == put[r] IN
  /\ p.at = "check"
  /\ \/ /\ holder[p.handle] = p.key
        /\ PutGoes(r, [p EXCEPT !.at = "claim"])
     \/ /\ holder[p.handle] # p.key /\ p.sub = None
        /\ PutGoes(r, IdlePut)
     \/ /\ holder[p.handle] # p.key /\ p.sub # None
        /\ PutGoes(r, [p EXCEPT !.at = "verify"])
  /\ UNCHANGED <<holder, subs, payer>>

(* The store is asked; it must know the purchase, of this tier and active. *)
Verify(r) ==
  LET p == put[r]
      good == /\ ~ Rejects(p.sub)
              /\ Answer(p.sub).tier = TierOf[p.handle]
              /\ Entitled(Answer(p.sub), p.now)
  IN /\ p.at = "verify"
     /\ \/ /\ good
           /\ PutGoes(r, [p EXCEPT !.at = "bindRead", !.v = Answer(p.sub), !.tries = 1])
        \/ /\ ~ good
           /\ PutGoes(r, IdlePut)
     /\ UNCHANGED <<holder, subs, payer>>

(* bindSubscription: read the row, see whether the handle it is bound to   *)
(* is still held, write if the binding has not moved; three tries.         *)
BindRead(r) ==
  LET p == put[r]
      cur == subs[p.sub]
      elsewhere == cur # None /\ ~ Bound(p.sub, p.handle, p.key)
  IN /\ p.at = "bindRead"
     /\ PutGoes(r, [p EXCEPT !.at = IF elsewhere THEN "bindHeld" ELSE "bindWrite", !.cur = cur])
     /\ UNCHANGED <<holder, subs, payer>>

StillHeld(cur) == holder[cur.handle] = cur.key

BindHeld(r) ==
  LET p == put[r] IN
  /\ p.at = "bindHeld"
  /\ \/ /\ StillHeld(p.cur)
        /\ PutGoes(r, IdlePut)
     \/ /\ ~ StillHeld(p.cur)
        /\ PutGoes(r, [p EXCEPT !.at = "bindWrite"])
  /\ UNCHANGED <<holder, subs, payer>>

(* BindSubscription's condition: no row yet, or the binding that was read. *)
BindMatches(s, cur) ==
  IF cur = None THEN subs[s] = None ELSE Bound(s, cur.handle, cur.key)

(* Mutant: one try too many.                                               *)
BindRetriesOneMore(p) == p.tries <= 3

BindRetries(p) == p.tries < 3

BindWrite(r) ==
  LET p == put[r] IN
  /\ p.at = "bindWrite"
  /\ \/ /\ BindMatches(p.sub, p.cur)
        /\ subs' = [subs EXCEPT ![p.sub] =
             [handle |-> p.handle, key |-> p.key, status |-> p.v, released |-> FALSE]]
        /\ PutGoes(r, [p EXCEPT !.at = "claim", !.cur = None])
     \/ /\ ~ BindMatches(p.sub, p.cur) /\ BindRetries(p)
        /\ PutGoes(r, [p EXCEPT !.at = "bindRead", !.cur = None, !.tries = @ + 1])
        /\ UNCHANGED subs
     \/ /\ ~ BindMatches(p.sub, p.cur) /\ ~ BindRetries(p)
        /\ PutGoes(r, IdlePut)
        /\ UNCHANGED subs
  /\ UNCHANGED <<holder, payer>>

(* ClaimHandle: the registry registers the handle, or it changes nothing   *)
(* here: a refusal, or a newer certificate of the holder.                  *)
Claim(r) ==
  LET p == put[r] IN
  /\ p.at = "claim"
  /\ \/ /\ holder[p.handle] = None
        /\ \A g \in Handles : holder[g] # p.key
        /\ holder' = [holder EXCEPT ![p.handle] = p.key]
        /\ payer' = [payer EXCEPT ![p.handle] = IF p.v = None THEN None ELSE p.sub]
     \/ UNCHANGED <<holder, payer>>
  /\ PutGoes(r, IdlePut)
  /\ UNCHANGED subs

(* The client goes away, a call fails or the process dies.                 *)
PutFails(r) ==
  /\ put[r].at # "idle"
  /\ PutGoes(r, IdlePut)
  /\ UNCHANGED <<holder, subs, payer>>

PutStep(r) ==
  \/ PutHandle(r) \/ CheckHolder(r) \/ Verify(r)
  \/ BindRead(r) \/ BindHeld(r) \/ BindWrite(r) \/ Claim(r) \/ PutFails(r)

-----------------------------------------------------------------------------
(* A store notification: it only says whom to ask.                         *)

NoticeGoes(n, m) ==
  /\ notice' = [notice EXCEPT ![n] = m]
  /\ UNCHANGED <<holder, clock, store, known, outage, put, sweep, payer>>
  /\ Observe

Notify(n) ==
  /\ notice[n].at = "idle"
  /\ \E s \in Subs : NoticeGoes(n, [IdleNotice EXCEPT !.at = "read", !.sub = s])
  /\ UNCHANGED subs

(* GetSubscription; a token without a row may replace one that has one.    *)
NoticeRead(n) ==
  LET m == notice[n] IN
  /\ m.at = "read"
  /\ \/ /\ subs[m.sub] # None
        /\ NoticeGoes(n, [m EXCEPT !.at = "ask", !.row = subs[m.sub]])
     \/ /\ subs[m.sub] = None /\ Links[m.sub] # None
        /\ NoticeGoes(n, [m EXCEPT !.at = "adoptAsk"])
     \/ /\ subs[m.sub] = None /\ Links[m.sub] = None
        /\ NoticeGoes(n, IdleNotice)
  /\ UNCHANGED subs

(* The store's answer, then either UpdateSubscriptionStatus or, for a new  *)
(* token, the row of its predecessor.  A purchase the store rejects is     *)
(* acknowledged.                                                           *)
NoticeAsk(n) ==
  LET m == notice[n] IN
  /\ m.at \in {"ask", "adoptAsk"}
  /\ \/ /\ ~ Rejects(m.sub)
        /\ NoticeGoes(n, [m EXCEPT !.at = IF m.at = "ask" THEN "apply" ELSE "adoptRead",
                                   !.v = Answer(m.sub)])
     \/ /\ Rejects(m.sub)
        /\ NoticeGoes(n, IdleNotice)
  /\ UNCHANGED subs

NoticeApply(n) ==
  LET m == notice[n] IN
  /\ m.at = "apply"
  /\ subs' = [subs EXCEPT ![m.sub].status = Fitted(m.row, m.v)]
  /\ NoticeGoes(n, IdleNotice)

AdoptRead(n) ==
  LET m == notice[n]
      old == subs[Links[m.sub]]
  IN /\ m.at = "adoptRead"
     /\ \/ /\ old # None
           /\ NoticeGoes(n, [m EXCEPT !.at = "adoptBind", !.row = old])
        \/ /\ old = None
           /\ NoticeGoes(n, IdleNotice)
     /\ UNCHANGED subs

(* The new token is bound to what its predecessor pays for, unless a       *)
(* concurrent delivery or claim bound it first.                            *)
AdoptedStatus(old, v) ==
  IF v.tier = TierOf[old.handle] THEN v
  ELSE [v EXCEPT !.state = "wrong_tier", !.expiresAt = old.status.expiresAt]

AdoptBind(n) ==
  LET m == notice[n] IN
  /\ m.at = "adoptBind"
  /\ \/ /\ subs[m.sub] = None
        /\ subs' = [subs EXCEPT ![m.sub] =
             [handle |-> m.row.handle, key |-> m.row.key,
              status |-> AdoptedStatus(m.row, m.v), released |-> FALSE]]
     \/ /\ subs[m.sub] # None
        /\ UNCHANGED subs
  /\ NoticeGoes(n, IdleNotice)

(* A call fails or the store cannot be reached: the store redelivers.      *)
NoticeFails(n) ==
  /\ notice[n].at # "idle"
  /\ NoticeGoes(n, IdleNotice)
  /\ UNCHANGED subs

NoticeStep(n) ==
  \/ Notify(n) \/ NoticeRead(n) \/ NoticeAsk(n) \/ NoticeApply(n)
  \/ AdoptRead(n) \/ AdoptBind(n) \/ NoticeFails(n)

-----------------------------------------------------------------------------
(* SweepLapsedSubscriptions.  A candidate is a row as it was listed; the   *)
(* sweep keeps working on that copy.                                       *)

SweepGoes(w, m) ==
  /\ sweep' = [sweep EXCEPT ![w] = m]
  /\ UNCHANGED <<clock, store, known, outage, put, notice>>
  /\ Observe

(* On to the next candidate of the batch.                                  *)
Skip(m) == [m EXCEPT !.at = "next", !.id = None, !.row = None, !.v = None, !.paid = FALSE]

Earliest(cands) ==
  {c \in cands : \A d \in cands : c.row.status.expiresAt <= d.row.status.expiresAt}

Lapsed ==
  {[id |-> s, row |-> subs[s]] :
     s \in {t \in Subs : /\ subs[t] # None /\ ~ subs[t].released
                         /\ subs[t].status.expiresAt + Grace < clock}}

(* ListLapsedSubscriptions: the Batch rows that expired first.             *)
SweepList(w) ==
  /\ sweep[w].at = "idle"
  /\ Lapsed # {}
  /\ \E todo \in SUBSET Lapsed :
       /\ Cardinality(todo) = IF Cardinality(Lapsed) > Batch THEN Batch ELSE Cardinality(Lapsed)
       /\ \A c \in todo, d \in Lapsed \ todo : c.row.status.expiresAt <= d.row.status.expiresAt
       /\ SweepGoes(w, [IdleSweep EXCEPT !.at = "next", !.now = clock, !.todo = todo])
  /\ UNCHANGED <<holder, subs, payer>>

SweepEnds(w) ==
  /\ sweep[w].at = "next" /\ sweep[w].todo = {}
  /\ SweepGoes(w, IdleSweep)
  /\ UNCHANGED <<holder, subs, payer>>

(* The candidate with what is known of it now is due, or it is left alone. *)
Judge(m) == IF Due(m.row.status, m.now) THEN [m EXCEPT !.at = "others"] ELSE Skip(m)

(* Mutant: the row on file is believed and the store not asked.            *)
SweepAskNobody(w, c) ==
  /\ sweep[w].at = "next" /\ c \in Earliest(sweep[w].todo)
  /\ SweepGoes(w, Judge([sweep[w] EXCEPT !.todo = @ \ {c}, !.id = c.id, !.row = c.row]))
  /\ UNCHANGED <<holder, subs, payer>>

(* refresh: ask the store.  What it has forgotten is judged on file.       *)
SweepAsk(w, c) ==
  LET m == [sweep[w] EXCEPT !.todo = @ \ {c}, !.id = c.id, !.row = c.row] IN
  /\ sweep[w].at = "next" /\ c \in Earliest(sweep[w].todo)
  /\ \/ /\ ~ Rejects(c.id)
        /\ SweepGoes(w, [m EXCEPT !.at = "apply", !.v = Answer(c.id)])
     \/ /\ Rejects(c.id)
        /\ SweepGoes(w, Judge(m))
  /\ UNCHANGED <<holder, subs, payer>>

SweepApply(w) ==
  LET m == sweep[w]
      status == Fitted(m.row, m.v)
  IN /\ m.at = "apply"
     /\ subs' = [subs EXCEPT ![m.id].status = status]
     /\ SweepGoes(w, Judge([m EXCEPT !.row.status = status, !.v = None]))
     /\ UNCHANGED <<holder, payer>>

(* releaseLapsed: does another subscription of the key pay for the handle, *)
(* does the key hold it, release it, mark the row done.                    *)
SweepOthers(w) ==
  LET m == sweep[w]
      paid == \E s \in Subs \ {m.id} :
                /\ Bound(s, m.row.handle, m.row.key)
                /\ subs[s].status.tier = TierOf[m.row.handle]
                /\ Entitled(subs[s].status, m.now)
  IN /\ m.at = "others"
     /\ SweepGoes(w, [m EXCEPT !.at = "get", !.paid = paid])
     /\ UNCHANGED <<holder, subs, payer>>

SweepGet(w) ==
  LET m == sweep[w] IN
  /\ m.at = "get"
  /\ \/ /\ ~ m.paid /\ holder[m.row.handle] = m.row.key
        /\ SweepGoes(w, [m EXCEPT !.at = "release"])
     \/ /\ m.paid \/ holder[m.row.handle] # m.row.key
        /\ SweepGoes(w, [m EXCEPT !.at = "mark"])
  /\ UNCHANGED <<holder, subs, payer>>

(* ReleaseHandle names no owner: whoever holds the handle loses it.        *)
SweepRelease(w) ==
  LET m == sweep[w] IN
  /\ m.at = "release"
  /\ holder' = [holder EXCEPT ![m.row.handle] = None]
  /\ payer' = [payer EXCEPT ![m.row.handle] = None]
  /\ SweepGoes(w, [m EXCEPT !.at = "mark"])
  /\ UNCHANGED subs

SweepMark(w) ==
  LET m == sweep[w] IN
  /\ m.at = "mark"
  /\ subs' = [subs EXCEPT ![m.id].released = TRUE]
  /\ SweepGoes(w, Skip(m))
  /\ UNCHANGED <<holder, payer>>

(* Mutant: a release that fails is marked done all the same.               *)
SweepFailsDone(w) ==
  /\ outage /\ sweep[w].at # "idle"
  /\ \/ /\ sweep[w].at = "release"
        /\ SweepGoes(w, [sweep[w] EXCEPT !.at = "mark"])
     \/ SweepGoes(w, IdleSweep)
  /\ UNCHANGED <<holder, subs, payer>>

(* The store is out of reach or a call fails, and the sweep goes on with   *)
(* the next candidate; or the process dies.                                *)
SweepFails(w) ==
  /\ outage /\ sweep[w].at # "idle"
  /\ \/ /\ sweep[w].at # "next"
        /\ SweepGoes(w, Skip(sweep[w]))
     \/ /\ sweep[w].at = "next"
        /\ \E c \in Earliest(sweep[w].todo) : SweepGoes(w, [sweep[w] EXCEPT !.todo = @ \ {c}])
     \/ SweepGoes(w, IdleSweep)
  /\ UNCHANGED <<holder, subs, payer>>

SweepWork(w) ==
  \/ SweepList(w) \/ SweepEnds(w) \/ (\E c \in sweep[w].todo : SweepAsk(w, c)) \/ SweepApply(w)
  \/ SweepOthers(w) \/ SweepGet(w) \/ SweepRelease(w) \/ SweepMark(w)

Next ==
  \/ Tick \/ OutageEnds
  \/ \E s \in Subs : StoreStep(s)
  \/ \E h \in Handles : Release(h)
  \/ \E r \in Requests : PutStep(r)
  \/ \E n \in Notices : NoticeStep(n)
  \/ \E w \in Sweepers : SweepWork(w) \/ SweepFails(w)

Spec == Init /\ [][Next]_vars

(* Time passes, between the calls of a sweep or between sweeps, and every  *)
(* replica keeps sweeping.  Calls fail and processes die any number of     *)
(* times, but an outage ends.                                              *)
Fairness ==
  /\ SF_vars(Tick) /\ WF_vars(OutageEnds)
  /\ \A w \in Sweepers : WF_vars(SweepWork(w))

-----------------------------------------------------------------------------
(* Every variable has its type; a bind is tried at most three times.       *)
TypeOK ==
  /\ holder \in [Handles -> Keys \cup {None}]
  /\ subs \in [Subs -> Rows \cup {None}]
  /\ clock \in Times
  /\ store \in [Subs -> Statuses]
  /\ known \subseteq Subs /\ outage \in BOOLEAN
  /\ put \in [Requests -> PutStates] /\ notice \in [Notices -> NoticeStates]
  /\ sweep \in [Sweepers -> SweepStates]
  /\ payer \in [Handles -> Subs \cup {None}]

(* No subscription was the purchase of two handles that are held at the    *)
(* same time, whichever keys hold them.                                    *)
OneSubscriptionOneHandle ==
  \A g, h \in Handles : g # h /\ payer[g] # None => payer[g] # payer[h]

(* A sweep is about to release a handle only if, at some moment since it   *)
(* began, the store itself would have said that the subscription no longer *)
(* pays for it: a renewal whose notification was lost costs nobody their   *)
(* handle, however old the row.                                            *)
SweepAsksFirst ==
  \A w \in Observed :
    sweep[w].at = "release" => <<sweep[w].id, sweep[w].row.handle>> \in overdue[w]

(* A handle that is not of the generated kind is registered only for a     *)
(* purchase: one shown with the request, or one on file for that key that  *)
(* the sweep still looks after.                                            *)
NothingForFree ==
  [][\A h \in Handles \ Generated :
       holder[h] = None /\ holder'[h] # None
         => \/ payer'[h] # None
            \/ \E s \in Subs : Bound(s, h, holder'[h]) /\ ~ subs[s].released]_vars

(* A sweep takes a handle only from the key its subscription was bound for. *)
SweepReleasesItsKey ==
  [][\A w \in Sweepers :
       LET h == sweep[w].row.handle IN
       sweep[w].at = "release" /\ sweep'[w].at = "mark" /\ holder[h] # None
         => holder[h] = sweep[w].row.key]_vars

(* The subscriptions on file for a handle and the key that holds it.       *)
OnFile(h) == {s \in Subs : holder[h] # None /\ Bound(s, h, holder[h])}

(* A held handle that is not of the generated kind has a subscription on   *)
(* file for its holder, and where that is the only one the sweep still     *)
(* looks after it: whatever failed or came late, its row is not marked     *)
(* done, so that a lapse can be noticed.  Of two, each may be marked on    *)
(* the strength of the other.                                              *)
Watched ==
  \A h \in Handles \ Generated :
    holder[h] # None =>
      \E s \in OnFile(h) : ~ subs[s].released \/ OnFile(h) # {s}

(* Some subscription is on file for the handle's holder, and the store has *)
(* let every one of them lapse.  Left out are two rows on file that pay    *)
(* for good: one that the store has forgotten in its billing grace period, *)
(* by the last word on file, and one that was marked done before it was    *)
(* renewed, or before an older answer of the store was written.            *)
LapsedHeld(h) ==
  /\ OnFile(h) # {}
  /\ \A s \in OnFile(h) :
       /\ StoreLapsed(s, h)
       /\ s \in known \/ subs[s].status.state # "grace"
       /\ subs[s].released => ~ Entitled(subs[s].status, clock)

(* Take a moment at which no sweep is under way, the subscriptions of a    *)
(* held handle have all lapsed, and the sweep still looks after one of     *)
(* them.  The handle does not stay held: it is released, one of them is    *)
(* renewed, or its holder changes.                                         *)
LapseReleased ==
  LET quiet == \A w \in Sweepers : sweep[w].at = "idle"
      watched(h) == \E s \in OnFile(h) : ~ subs[s].released
  IN \A h \in Handles : (LapsedHeld(h) /\ watched(h) /\ quiet) ~> ~ LapsedHeld(h)
=============================================================================
