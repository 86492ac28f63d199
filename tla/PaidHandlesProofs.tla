--------------------------- MODULE PaidHandlesProofs ---------------------------
(***************************************************************************)
(* Theorems about PaidHandles: its types, that a sweep has the store's     *)
(* word for every handle it is about to release, and that the sweep goes   *)
(* on looking after a handle with one subscription.                        *)
(***************************************************************************)
EXTENDS PaidHandles, TLAPS

(* What a goroutine carries at the call it makes next.                     *)
PutCarries(p) ==
  /\ p.at # "idle" => p.handle \in Handles /\ p.key \in Keys
  /\ p.at \in {"verify", "bindRead", "bindHeld", "bindWrite"} => p.sub \in Subs
  /\ p.at \in {"bindRead", "bindHeld", "bindWrite"} => p.v \in Statuses

NoticeCarries(m) ==
  /\ m.at # "idle" => m.sub \in Subs
  /\ m.at \in {"ask", "apply"} => subs[m.sub] # None
  /\ m.at \in {"ask", "apply", "adoptBind"} => m.row \in Rows
  /\ m.at \in {"adoptAsk", "adoptRead"} => Links[m.sub] \in Subs
  /\ m.at \in {"apply", "adoptRead", "adoptBind"} => m.v \in Statuses

SweepCarries(m) ==
  /\ m.at # "idle" => m.now \in Times /\ m.now <= clock
  /\ \A c \in m.todo : subs[c.id] # None
  /\ m.at \notin {"idle", "next"} => m.id \in Subs /\ m.row \in Rows /\ subs[m.id] # None
  /\ m.at = "apply" => m.v \in Statuses

(* The store, the clock, the registry and the collection.                  *)
DataOK ==
  /\ holder \in [Handles -> Keys \cup {None}] /\ payer \in [Handles -> Subs \cup {None}]
  /\ subs \in [Subs -> Rows \cup {None}] /\ clock \in Times
  /\ store \in [Subs -> Statuses] /\ known \subseteq Subs /\ outage \in BOOLEAN

PutsOK == put \in [Requests -> PutStates] /\ \A r \in Requests : PutCarries(put[r])
NoticesOK == notice \in [Notices -> NoticeStates] /\ \A n \in Notices : NoticeCarries(notice[n])
SweepsOK == sweep \in [Sweepers -> SweepStates] /\ \A w \in Sweepers : SweepCarries(sweep[w])

(* A sweep that has been told that a handle may go has seen the store let  *)
(* its subscription lapse, and so has one with an answer that says so.     *)
Asked(m, heard) ==
  LET pair == <<m.id, m.row.handle>>
  IN /\ m.at = "apply" /\ (m.v.tier # TierOf[m.row.handle] \/ Due(m.v, m.now)) => pair \in heard
     /\ m.at \in {"others", "get", "release"} => pair \in heard

TypeInv == DataOK /\ PutsOK /\ NoticesOK /\ SweepsOK
AskedInv == overdue = [w \in Sweepers |-> overdue[w]] /\ \A w \in Observed : Asked(sweep[w], overdue[w])

(* Time goes on, and a row that is on file stays.                          *)
Grows == clock <= clock' /\ \A s \in Subs : subs[s] # None => subs'[s] # None

-----------------------------------------------------------------------------
(* Statuses.                                                               *)

LEMMA TimesAreNumbers == Times \subseteq Nat /\ Expiries \subseteq Nat /\ 1 \in Times
BY PaidAssumption DEF Times, Expiries

(* applyStatus makes a status of a status.                                 *)
LEMMA FittedStatus ==
  ASSUME NEW row \in Rows, NEW v \in Statuses
  PROVE  Fitted(row, v) \in Statuses
<1>1. row.status.expiresAt \in Expiries /\ v.expiresAt \in Expiries
  BY DEF Rows, Statuses
<1>2. CASE v.tier = TierOf[row.handle]
  BY <1>2 DEF Fitted
<1>3. CASE v.tier # TierOf[row.handle]
  <2> DEFINE e == IF v.expiresAt > row.status.expiresAt THEN row.status.expiresAt ELSE v.expiresAt
  <2>1. e \in Expiries
    BY <1>1
  <2>2. Fitted(row, v) = [v EXCEPT !.state = "wrong_tier", !.expiresAt = e]
    BY <1>3 DEF Fitted
  <2> HIDE DEF e
  <2> QED BY <2>1, <2>2 DEF Statuses
<1> QED BY <1>2, <1>3

LEMMA AdoptedIsStatus ==
  ASSUME NEW row \in Rows, NEW v \in Statuses
  PROVE  AdoptedStatus(row, v) \in Statuses
<1>1. row.status.expiresAt \in Expiries
  BY DEF Rows, Statuses
<1> QED BY <1>1 DEF AdoptedStatus, Statuses

LEMMA EndedStatus ==
  ASSUME clock \in Times, NEW st \in Statuses
  PROVE  Ended(st) \in Statuses
<1> DEFINE e == IF st.expiresAt > clock THEN clock ELSE st.expiresAt
<1>1. st.expiresAt \in Expiries /\ clock \in Expiries
  BY PaidAssumption DEF Statuses, Times, Expiries
<1>2. e \in Expiries
  BY <1>1
<1>3. Ended(st) = [st EXCEPT !.state = "ended", !.expiresAt = e]
  BY DEF Ended
<1> HIDE DEF e
<1> QED BY <1>2, <1>3 DEF Statuses

(* Only a status changes, or only the mark.                                *)
LEMMA RowUpdated ==
  ASSUME NEW row \in Rows, NEW st \in Statuses
  PROVE  [row EXCEPT !.status = st] \in Rows /\ [row EXCEPT !.released = TRUE] \in Rows
BY DEF Rows

LEMMA RowWritten ==
  ASSUME NEW h \in Handles, NEW k \in Keys, NEW st \in Statuses
  PROVE  [handle |-> h, key |-> k, status |-> st, released |-> FALSE] \in Rows
BY DEF Rows

-----------------------------------------------------------------------------
(* What steps do to the collection, the registry and the store.            *)

(* A row that is written is a row.                                         *)
LEMMA RowsKept ==
  ASSUME DataOK, NEW s \in Subs, NEW row \in Rows, subs' = [subs EXCEPT ![s] = row],
         UNCHANGED <<holder, payer, clock, store, known, outage>>
  PROVE  DataOK' /\ Grows
<1>1. row # None
  BY NoneIsNoRow
<1> QED BY <1>1, TimesAreNumbers DEF DataOK, Grows

LEMMA StoreData ==
  ASSUME DataOK, NEW s \in Subs, StoreStep(s)
  PROVE  DataOK' /\ Grows
<1>1. clock \in Times /\ clock \in Nat /\ store \in [Subs -> Statuses]
  BY TimesAreNumbers DEF DataOK
<1>2. CASE StoreRenews(s)
  <2>1. PICK t \in Sold[s] :
          store' = [u \in Subs |->
            IF u = s THEN [state |-> "active", tier |-> t, expiresAt |-> clock + Period]
            ELSE IF u = Links[s] THEN Ended(store[u])
            ELSE store[u]]
    BY <1>2 DEF StoreRenews
  <2>2. t \in Tiers /\ clock + Period \in Expiries
    BY <1>1, PaidAssumption DEF Times, Expiries
  <2>3. [state |-> "active", tier |-> t, expiresAt |-> clock + Period] \in Statuses
    BY <2>2 DEF Statuses
  <2>4. \A u \in Subs : store[u] \in Statuses /\ Ended(store[u]) \in Statuses
    BY <1>1, EndedStatus
  <2>5. store' \in [Subs -> Statuses]
    BY <2>1, <2>3, <2>4
  <2>6. UNCHANGED <<holder, subs, clock, outage, payer>> /\ known' = known \cup {s}
    BY <1>2 DEF StoreRenews
  <2> QED BY <1>1, <2>5, <2>6 DEF DataOK, Grows
<1>3. CASE StoreGrants(s) \/ StoreEnds(s)
  <2>1. PICK st \in Statuses : SetStore(s, st)
    <3>1. store[s] \in Statuses /\ Ended(store[s]) \in Statuses
      BY <1>1, EndedStatus
    <3>2. [store[s] EXCEPT !.state = "grace"] \in Statuses
      BY <3>1 DEF Statuses
    <3> QED BY <1>3, <3>1, <3>2 DEF StoreGrants, StoreEnds
  <2> QED BY <1>1, <2>1 DEF SetStore, DataOK, Grows
<1>4. CASE StoreForgets(s)
  BY <1>1, <1>4 DEF StoreForgets, DataOK, Grows
<1> QED BY <1>2, <1>3, <1>4 DEF StoreStep

LEMMA PutData ==
  ASSUME TypeInv, NEW r \in Requests, PutStep(r)
  PROVE  DataOK' /\ Grows
<1> DEFINE p == put[r]
<1>0. DataOK /\ clock \in Nat /\ p \in PutStates /\ PutCarries(p)
  BY TimesAreNumbers DEF TypeInv, DataOK, PutsOK
<1>1. CASE UNCHANGED <<holder, subs, payer>>
  <2>1. UNCHANGED <<clock, store, known, outage>>
    BY DEF PutStep, PutHandle, CheckHolder, Verify, BindRead, BindHeld, BindWrite, Claim, PutFails, PutGoes
  <2> QED BY <1>0, <1>1, <2>1 DEF DataOK, Grows
<1>2. CASE BindWrite(r)
  <2>1. CASE UNCHANGED subs
    BY <1>1, <1>2, <2>1 DEF BindWrite
  <2>2. CASE ~ UNCHANGED subs
    <3>1. /\ p.at = "bindWrite"
          /\ subs' = [subs EXCEPT ![p.sub] = [handle |-> p.handle, key |-> p.key, status |-> p.v, released |-> FALSE]]
          /\ UNCHANGED <<holder, payer, clock, store, known, outage>>
      BY <1>2, <2>2 DEF BindWrite, PutGoes
    <3>2. p.handle \in Handles /\ p.key \in Keys /\ p.sub \in Subs /\ p.v \in Statuses
      BY <1>0, <3>1 DEF PutCarries
    <3> HIDE DEF p
    <3>3. [handle |-> p.handle, key |-> p.key, status |-> p.v, released |-> FALSE] \in Rows
      BY <3>2, RowWritten
    <3> QED BY <1>0, <3>1, <3>2, <3>3, RowsKept
  <2> QED BY <2>1, <2>2
<1>3. CASE Claim(r)
  <2>1. CASE UNCHANGED <<holder, payer>>
    BY <1>1, <1>3, <2>1 DEF Claim
  <2>2. CASE ~ UNCHANGED <<holder, payer>>
    <3>1. /\ p.at = "claim"
          /\ holder' = [holder EXCEPT ![p.handle] = p.key]
          /\ payer' = [payer EXCEPT ![p.handle] = IF p.v = None THEN None ELSE p.sub]
          /\ UNCHANGED <<subs, clock, store, known, outage>>
      BY <1>3, <2>2 DEF Claim, PutGoes
    <3>2. p.handle \in Handles /\ p.key \in Keys /\ p.sub \in Subs \cup {None}
      BY <1>0, <3>1 DEF PutCarries, PutStates
    <3> HIDE DEF p
    <3> QED BY <1>0, <3>1, <3>2 DEF DataOK, Grows
  <2> QED BY <2>1, <2>2
<1>4. CASE PutHandle(r) \/ CheckHolder(r) \/ Verify(r) \/ BindRead(r) \/ BindHeld(r) \/ PutFails(r)
  BY <1>1, <1>4 DEF PutHandle, CheckHolder, Verify, BindRead, BindHeld, PutFails
<1> QED BY <1>2, <1>3, <1>4 DEF PutStep

LEMMA NoticeData ==
  ASSUME TypeInv, NEW n \in Notices, NoticeStep(n)
  PROVE  DataOK' /\ Grows
<1> DEFINE m == notice[n]
<1>0. /\ DataOK /\ clock \in Nat /\ NoticeCarries(m) /\ subs \in [Subs -> Rows \cup {None}]
      /\ UNCHANGED <<holder, payer, clock, store, known, outage>>
  BY TimesAreNumbers DEF TypeInv, DataOK, NoticesOK, NoticeStep, Notify, NoticeRead, NoticeAsk, NoticeApply, AdoptRead,
     AdoptBind, NoticeFails, NoticeGoes
<1>1. CASE UNCHANGED subs
  BY <1>0, <1>1 DEF DataOK, Grows
<1>2. CASE NoticeApply(n)
  <2>1. m.at = "apply" /\ subs' = [subs EXCEPT ![m.sub].status = Fitted(m.row, m.v)]
    BY <1>2 DEF NoticeApply
  <2>2. m.sub \in Subs /\ subs[m.sub] # None /\ m.row \in Rows /\ m.v \in Statuses
    BY <1>0, <2>1 DEF NoticeCarries
  <2> DEFINE row == [subs[m.sub] EXCEPT !.status = Fitted(m.row, m.v)]
  <2> HIDE DEF m
  <2>3. row \in Rows
    <3>1. subs[m.sub] \in Rows
      BY <1>0, <2>2
    <3> QED BY <2>2, <3>1, FittedStatus, RowUpdated
  <2>4. subs' = [subs EXCEPT ![m.sub] = row]
    BY <2>1
  <2> HIDE DEF row
  <2> QED BY <1>0, <2>2, <2>3, <2>4, RowsKept
<1>3. CASE AdoptBind(n) /\ ~ UNCHANGED subs
  <2> DEFINE row == [handle |-> m.row.handle, key |-> m.row.key, status |-> AdoptedStatus(m.row, m.v), released |-> FALSE]
  <2>1. m.at = "adoptBind" /\ subs' = [subs EXCEPT ![m.sub] = row]
    BY <1>3 DEF AdoptBind
  <2>2. m.sub \in Subs /\ m.row \in Rows /\ m.v \in Statuses
    BY <1>0, <2>1 DEF NoticeCarries
  <2> HIDE DEF m
  <2>3. row \in Rows
    <3>1. m.row.handle \in Handles /\ m.row.key \in Keys
      BY <2>2 DEF Rows
    <3>2. AdoptedStatus(m.row, m.v) \in Statuses
      BY <2>2, AdoptedIsStatus
    <3> QED BY <3>1, <3>2, RowWritten
  <2> HIDE DEF row
  <2> QED BY <1>0, <2>1, <2>2, <2>3, RowsKept
<1>4. CASE Notify(n) \/ NoticeRead(n) \/ NoticeAsk(n) \/ AdoptRead(n) \/ NoticeFails(n)
  BY <1>1, <1>4 DEF Notify, NoticeRead, NoticeAsk, AdoptRead, NoticeFails
<1> QED BY <1>1, <1>2, <1>3, <1>4 DEF NoticeStep

LEMMA SweepData ==
  ASSUME TypeInv, NEW w \in Sweepers, SweepWork(w) \/ SweepFails(w)
  PROVE  DataOK' /\ Grows
<1> DEFINE m == sweep[w]
<1>0. /\ DataOK /\ clock \in Nat /\ SweepCarries(m) /\ subs \in [Subs -> Rows \cup {None}]
      /\ UNCHANGED <<clock, store, known, outage>>
  BY TimesAreNumbers DEF TypeInv, DataOK, SweepsOK, SweepWork, SweepList, SweepEnds, SweepAsk, SweepApply, SweepOthers, SweepGet,
     SweepRelease, SweepMark, SweepFails, SweepGoes
<1>1. CASE UNCHANGED <<holder, subs, payer>>
  BY <1>0, <1>1 DEF DataOK, Grows
<1>2. CASE SweepApply(w)
  <2>1. m.at = "apply" /\ subs' = [subs EXCEPT ![m.id].status = Fitted(m.row, m.v)] /\ UNCHANGED <<holder, payer>>
    BY <1>2 DEF SweepApply
  <2>2. m.id \in Subs /\ subs[m.id] # None /\ m.row \in Rows /\ m.v \in Statuses
    BY <1>0, <2>1 DEF SweepCarries
  <2> DEFINE row == [subs[m.id] EXCEPT !.status = Fitted(m.row, m.v)]
  <2> HIDE DEF m
  <2>3. row \in Rows
    <3>1. subs[m.id] \in Rows
      BY <1>0, <2>2
    <3> QED BY <2>2, <3>1, FittedStatus, RowUpdated
  <2>4. subs' = [subs EXCEPT ![m.id] = row]
    BY <2>1
  <2> HIDE DEF row
  <2> QED BY <1>0, <2>1, <2>2, <2>3, <2>4, RowsKept
<1>3. CASE SweepRelease(w)
  <2>1. /\ m.at = "release" /\ holder' = [holder EXCEPT ![m.row.handle] = None]
        /\ payer' = [payer EXCEPT ![m.row.handle] = None] /\ UNCHANGED subs
    BY <1>3 DEF SweepRelease
  <2>2. m.row.handle \in Handles
    BY <1>0, <2>1 DEF SweepCarries, Rows
  <2>3. clock <= clock'
    BY <1>0
  <2>4. holder' \in [Handles -> Keys \cup {None}] /\ payer' \in [Handles -> Subs \cup {None}]
    <3> HIDE DEF m
    <3> QED BY <1>0, <2>1, <2>2 DEF DataOK
  <2> HIDE DEF m
  <2> QED BY <1>0, <2>1, <2>3, <2>4 DEF DataOK, Grows
<1>4. CASE SweepMark(w)
  <2>1. m.at = "mark" /\ subs' = [subs EXCEPT ![m.id].released = TRUE] /\ UNCHANGED <<holder, payer>>
    BY <1>4 DEF SweepMark
  <2>2. m.id \in Subs /\ subs[m.id] # None
    BY <1>0, <2>1 DEF SweepCarries
  <2> DEFINE row == [subs[m.id] EXCEPT !.released = TRUE]
  <2> HIDE DEF m
  <2>3. row \in Rows
    <3>1. subs[m.id] \in Rows
      BY <1>0, <2>2
    <3> QED BY <3>1 DEF Rows
  <2>4. subs' = [subs EXCEPT ![m.id] = row]
    BY <2>1
  <2> HIDE DEF row
  <2> QED BY <1>0, <2>1, <2>2, <2>3, <2>4, RowsKept
<1>5. CASE \/ SweepList(w) \/ SweepEnds(w) \/ (\E c \in sweep[w].todo : SweepAsk(w, c))
           \/ SweepOthers(w) \/ SweepGet(w) \/ SweepFails(w)
  BY <1>1, <1>5 DEF SweepList, SweepEnds, SweepAsk, SweepOthers, SweepGet, SweepFails
<1> QED BY <1>2, <1>3, <1>4, <1>5 DEF SweepWork

LEMMA DataNext == TypeInv /\ [Next]_vars => DataOK' /\ Grows
<1> SUFFICES ASSUME TypeInv, [Next]_vars
             PROVE  DataOK' /\ Grows
  OBVIOUS
<1>1. DataOK /\ clock \in Nat
  BY TimesAreNumbers DEF TypeInv, DataOK
<1>2. CASE Tick
  <2>1. clock' \in Times /\ clock <= clock' /\ UNCHANGED <<holder, subs, store, known, outage, payer>>
    BY <1>1, <1>2, PaidAssumption DEF Tick, DataOK, Times
  <2> QED BY <1>1, <2>1 DEF DataOK, Grows
<1>3. CASE OutageEnds \/ UNCHANGED vars
  <2>1. UNCHANGED <<holder, subs, clock, store, known, payer>> /\ (outage' = FALSE \/ outage' = outage)
    BY <1>3 DEF OutageEnds, vars
  <2>2. clock <= clock'
    BY <1>1, <2>1
  <2> QED BY <1>1, <2>1, <2>2 DEF DataOK, Grows
<1>4. ASSUME NEW h \in Handles, Release(h)
      PROVE  DataOK' /\ Grows
  BY <1>1, <1>4 DEF Release, DataOK, Grows
<1> QED BY <1>1, <1>2, <1>3, <1>4, StoreData, PutData, NoticeData, SweepData DEF Next

-----------------------------------------------------------------------------
(* What steps do to the goroutines.                                        *)

LEMMA PutsNext == TypeInv /\ [Next]_vars => PutsOK'
<1> SUFFICES ASSUME TypeInv, [Next]_vars
             PROVE  PutsOK'
  OBVIOUS
<1>1. CASE UNCHANGED put
  BY <1>1 DEF TypeInv, PutsOK
<1>2. ASSUME NEW r \in Requests, NEW q \in PutStates, PutCarries(q), put' = [put EXCEPT ![r] = q]
      PROVE  PutsOK'
  BY <1>2 DEF TypeInv, PutsOK
<1>3. IdlePut \in PutStates /\ PutCarries(IdlePut)
  BY DEF IdlePut, PutStates, PutCarries
<1>4. ASSUME NEW r \in Requests, PutStep(r)
      PROVE  PutsOK'
  <2> DEFINE p == put[r]
  <2>0. p \in PutStates /\ PutCarries(p) /\ clock \in Times /\ DataOK
    BY DEF TypeInv, PutsOK, DataOK
  <2>1. CASE PutGoes(r, IdlePut)
    BY <1>2, <1>3, <2>1 DEF PutGoes
  <2>2. CASE PutHandle(r)
    <3>1. PICK h \in Handles, k \in Keys, s \in Subs \cup {None} :
            PutGoes(r, [IdlePut EXCEPT !.at = IF h \in Generated THEN "claim" ELSE "check",
                                       !.handle = h, !.key = k, !.sub = s, !.now = clock])
      BY <2>2 DEF PutHandle
    <3> DEFINE at == IF h \in Generated THEN "claim" ELSE "check"
               q == [IdlePut EXCEPT !.at = at, !.handle = h, !.key = k, !.sub = s, !.now = clock]
    <3>2. at \in {"claim", "check"} /\ put' = [put EXCEPT ![r] = q]
      BY <3>1 DEF PutGoes
    <3> HIDE DEF at
    <3>3. q \in PutStates /\ q.at = at /\ q.handle = h /\ q.key = k
      BY <1>3, <2>0, <3>2 DEF PutStates
    <3>4. PutCarries(q)
      BY <3>2, <3>3 DEF PutCarries
    <3> QED BY <1>2, <3>2, <3>3, <3>4
  <2>3. CASE CheckHolder(r) /\ ~ PutGoes(r, IdlePut)
    <3>1. PICK at \in {"claim", "verify"} :
            /\ put' = [put EXCEPT ![r] = [p EXCEPT !.at = at]] /\ p.at = "check"
            /\ at = "verify" => p.sub # None
      BY <2>3 DEF CheckHolder, PutGoes
    <3> DEFINE q == [p EXCEPT !.at = at]
    <3> HIDE DEF p
    <3>2. /\ q \in PutStates /\ q.at = at /\ q.handle = p.handle /\ q.key = p.key /\ q.sub = p.sub
          /\ p.sub \in Subs \cup {None}
      BY <2>0, <3>1 DEF PutStates
    <3>3. PutCarries(q)
      BY <2>0, <3>1, <3>2 DEF PutCarries
    <3> QED BY <1>2, <3>1, <3>2, <3>3
  <2>4. CASE Verify(r) /\ ~ PutGoes(r, IdlePut)
    <3> DEFINE st == Answer(p.sub)
               q == [p EXCEPT !.at = "bindRead", !.v = st, !.tries = 1]
    <3>1. p.at = "verify" /\ put' = [put EXCEPT ![r] = q]
      BY <2>4 DEF Verify, PutGoes
    <3>2. p.sub \in Subs /\ p.handle \in Handles /\ p.key \in Keys
      BY <2>0, <3>1 DEF PutCarries
    <3>3. st \in Statuses
      BY <2>0, <3>2 DEF Answer, DataOK
    <3> HIDE DEF p, st
    <3>4. /\ q \in PutStates /\ q.at = "bindRead" /\ q.v = st /\ q.handle = p.handle /\ q.key = p.key /\ q.sub = p.sub
      <4>1. 1 \in 0 .. 3
        OBVIOUS
      <4> QED BY <2>0, <3>3, <4>1 DEF PutStates
    <3>5. PutCarries(q)
      BY <3>2, <3>3, <3>4 DEF PutCarries
    <3> QED BY <1>2, <3>1, <3>4, <3>5
  <2>5. CASE BindRead(r)
    <3>1. PICK at \in {"bindHeld", "bindWrite"} :
            put' = [put EXCEPT ![r] = [p EXCEPT !.at = at, !.cur = subs[p.sub]]] /\ p.at = "bindRead"
      BY <2>5 DEF BindRead, PutGoes
    <3>2. p.sub \in Subs /\ p.handle \in Handles /\ p.key \in Keys /\ p.v \in Statuses
      BY <2>0, <3>1 DEF PutCarries
    <3> DEFINE cur == subs[p.sub]
               q == [p EXCEPT !.at = at, !.cur = cur]
    <3>3. cur \in Rows \cup {None}
      BY <2>0, <3>2 DEF DataOK
    <3> HIDE DEF p, cur
    <3>4. /\ q \in PutStates /\ q.at = at /\ q.v = p.v /\ q.handle = p.handle /\ q.key = p.key /\ q.sub = p.sub
      BY <2>0, <3>1, <3>3 DEF PutStates
    <3>5. PutCarries(q)
      BY <3>1, <3>2, <3>4 DEF PutCarries
    <3>6. put' = [put EXCEPT ![r] = q]
      BY <3>1 DEF cur
    <3> QED BY <1>2, <3>4, <3>5, <3>6
  <2>6. CASE BindHeld(r) /\ ~ PutGoes(r, IdlePut)
    <3> DEFINE q == [p EXCEPT !.at = "bindWrite"]
    <3>1. p.at = "bindHeld" /\ put' = [put EXCEPT ![r] = q]
      BY <2>6 DEF BindHeld, PutGoes
    <3>2. p.sub \in Subs /\ p.handle \in Handles /\ p.key \in Keys /\ p.v \in Statuses
      BY <2>0, <3>1 DEF PutCarries
    <3> HIDE DEF p
    <3>3. /\ q \in PutStates /\ q.at = "bindWrite" /\ q.v = p.v /\ q.handle = p.handle /\ q.key = p.key /\ q.sub = p.sub
      BY <2>0 DEF PutStates
    <3>4. PutCarries(q)
      BY <3>2, <3>3 DEF PutCarries
    <3> QED BY <1>2, <3>1, <3>3, <3>4
  <2>7. CASE BindWrite(r) /\ ~ PutGoes(r, IdlePut)
    <3>1. PICK at \in {"claim", "bindRead"}, tries \in {p.tries, p.tries + 1} :
            /\ put' = [put EXCEPT ![r] = [p EXCEPT !.at = at, !.cur = None, !.tries = tries]] /\ p.at = "bindWrite"
            /\ tries # p.tries => p.tries < 3
      <4>1. CASE put' = [put EXCEPT ![r] = [p EXCEPT !.at = "claim", !.cur = None]]
        <5>1. [p EXCEPT !.at = "claim", !.cur = None] = [p EXCEPT !.at = "claim", !.cur = None, !.tries = p.tries]
          <6> HIDE DEF p
          <6> QED BY <2>0 DEF PutStates
        <5> QED BY <2>7, <4>1, <5>1 DEF BindWrite
      <4>2. CASE put' # [put EXCEPT ![r] = [p EXCEPT !.at = "claim", !.cur = None]]
        BY <2>7, <4>2 DEF BindWrite, PutGoes, BindRetries
      <4> QED BY <4>1, <4>2
    <3>2. p.sub \in Subs /\ p.handle \in Handles /\ p.key \in Keys /\ p.v \in Statuses
      BY <2>0, <3>1 DEF PutCarries
    <3>3. tries \in 0 .. 3
      <4>1. p.tries \in 0 .. 3
        BY <2>0 DEF PutStates
      <4> HIDE DEF p
      <4> QED BY <3>1, <4>1
    <3> DEFINE q == [p EXCEPT !.at = at, !.cur = None, !.tries = tries]
    <3> HIDE DEF p
    <3>4. /\ q \in PutStates /\ q.at = at /\ q.v = p.v /\ q.handle = p.handle /\ q.key = p.key /\ q.sub = p.sub
      BY <2>0, <3>1, <3>3 DEF PutStates
    <3>5. PutCarries(q)
      BY <3>1, <3>2, <3>4 DEF PutCarries
    <3> QED BY <1>2, <3>1, <3>4, <3>5
  <2>8. CASE Claim(r) \/ PutFails(r)
    BY <2>1, <2>8 DEF Claim, PutFails
  <2> QED BY <1>4, <2>1, <2>2, <2>3, <2>4, <2>5, <2>6, <2>7, <2>8 DEF PutStep
<1>5. CASE \/ Tick \/ OutageEnds \/ (\E s \in Subs : StoreStep(s)) \/ (\E h \in Handles : Release(h))
           \/ (\E n \in Notices : NoticeStep(n)) \/ (\E w \in Sweepers : SweepWork(w) \/ SweepFails(w))
           \/ UNCHANGED vars
  <2>1. UNCHANGED put
    BY <1>5 DEF Tick, OutageEnds, StoreStep, StoreRenews, StoreGrants, StoreEnds, StoreForgets, SetStore, Release,
       NoticeStep, Notify, NoticeRead, NoticeAsk, NoticeApply, AdoptRead, AdoptBind, NoticeFails, NoticeGoes,
       SweepWork, SweepList, SweepEnds, SweepAsk, SweepApply, SweepOthers, SweepGet, SweepRelease, SweepMark,
       SweepFails, SweepGoes, vars
  <2> QED BY <1>1, <2>1
<1> QED BY <1>4, <1>5 DEF Next

LEMMA NoticesNext == TypeInv /\ [Next]_vars => NoticesOK'
<1> SUFFICES ASSUME TypeInv, [Next]_vars
             PROVE  NoticesOK'
  OBVIOUS
<1>0. Grows /\ subs \in [Subs -> Rows \cup {None}]
  BY DataNext DEF TypeInv, DataOK
<1>1. ASSUME NEW m \in NoticeStates, NoticeCarries(m)
      PROVE  NoticeCarries(m)'
  BY <1>0, <1>1 DEF NoticeCarries, Grows
<1>2. CASE UNCHANGED notice
  BY <1>1, <1>2 DEF TypeInv, NoticesOK
<1>3. ASSUME NEW n \in Notices, NEW q \in NoticeStates, NoticeCarries(q), notice' = [notice EXCEPT ![n] = q]
      PROVE  NoticesOK'
  <2>1. \A i \in Notices : notice'[i] \in NoticeStates /\ NoticeCarries(notice'[i])
    BY <1>3 DEF TypeInv, NoticesOK
  <2>2. ASSUME NEW i \in Notices
        PROVE  NoticeCarries(notice[i])'
    <3> DEFINE m == notice'[i]
    <3>1. m \in NoticeStates /\ NoticeCarries(m)
      BY <2>1
    <3> HIDE DEF m
    <3>2. \A s \in Subs : subs[s] # None => subs'[s] # None
      BY <1>0 DEF Grows
    <3>3. /\ m.at # "idle" => m.sub \in Subs
          /\ m.at \in {"ask", "apply"} => subs'[m.sub] # None
          /\ m.at \in {"ask", "apply", "adoptBind"} => m.row \in Rows
          /\ m.at \in {"adoptAsk", "adoptRead"} => Links[m.sub] \in Subs
          /\ m.at \in {"apply", "adoptRead", "adoptBind"} => m.v \in Statuses
      BY <3>1, <3>2 DEF NoticeCarries
    <3> QED BY <3>3 DEF m, NoticeCarries
  <2>3. notice' \in [Notices -> NoticeStates]
    BY <1>3 DEF TypeInv, NoticesOK
  <2> QED BY <2>2, <2>3 DEF NoticesOK
<1>4. IdleNotice \in NoticeStates /\ NoticeCarries(IdleNotice)
  BY DEF IdleNotice, NoticeStates, NoticeCarries
<1>5. ASSUME NEW n \in Notices, NoticeStep(n)
      PROVE  NoticesOK'
  <2> DEFINE m == notice[n]
  <2>0. m \in NoticeStates /\ NoticeCarries(m) /\ DataOK
    BY DEF TypeInv, NoticesOK
  <2>1. CASE NoticeGoes(n, IdleNotice)
    BY <1>3, <1>4, <2>1 DEF NoticeGoes
  <2>2. CASE Notify(n)
    <3>1. PICK s \in Subs : notice' = [notice EXCEPT ![n] = [IdleNotice EXCEPT !.at = "read", !.sub = s]]
      BY <2>2 DEF Notify, NoticeGoes
    <3> DEFINE q == [IdleNotice EXCEPT !.at = "read", !.sub = s]
    <3>2. q \in NoticeStates /\ q.at = "read" /\ q.sub = s
      BY <1>4 DEF NoticeStates
    <3>3. NoticeCarries(q)
      BY <3>2 DEF NoticeCarries
    <3> QED BY <1>3, <3>1, <3>2, <3>3
  <2>3. CASE NoticeRead(n) /\ ~ NoticeGoes(n, IdleNotice)
    <3>0. m.at = "read" /\ m.sub \in Subs
      BY <2>0, <2>3 DEF NoticeRead, NoticeCarries
    <3>1. CASE subs[m.sub] # None
      <4> DEFINE row == subs[m.sub]
                 q == [m EXCEPT !.at = "ask", !.row = row]
      <4>1. notice' = [notice EXCEPT ![n] = q]
        BY <2>3, <3>1 DEF NoticeRead, NoticeGoes
      <4>2. row \in Rows
        BY <1>0, <3>0, <3>1
      <4> HIDE DEF m, row
      <4>3. q \in NoticeStates /\ q.at = "ask" /\ q.sub = m.sub /\ q.row = row
        BY <2>0, <4>2 DEF NoticeStates
      <4>4. NoticeCarries(q)
        BY <3>0, <3>1, <4>2, <4>3 DEF NoticeCarries
      <4> QED BY <1>3, <4>1, <4>3, <4>4
    <3>2. CASE subs[m.sub] = None
      <4> DEFINE q == [m EXCEPT !.at = "adoptAsk"]
      <4>1. notice' = [notice EXCEPT ![n] = q] /\ Links[m.sub] # None
        BY <2>3, <3>2 DEF NoticeRead, NoticeGoes
      <4>2. Links[m.sub] \in Subs
        BY <3>0, <4>1, PaidAssumption
      <4> HIDE DEF m
      <4>3. q \in NoticeStates /\ q.at = "adoptAsk" /\ q.sub = m.sub
        BY <2>0 DEF NoticeStates
      <4>4. NoticeCarries(q)
        BY <3>0, <4>2, <4>3 DEF NoticeCarries
      <4> QED BY <1>3, <4>1, <4>3, <4>4
    <3> QED BY <3>1, <3>2
  <2>4. CASE NoticeAsk(n) /\ ~ NoticeGoes(n, IdleNotice)
    <3> DEFINE at == IF m.at = "ask" THEN "apply" ELSE "adoptRead"
               st == Answer(m.sub)
               q == [m EXCEPT !.at = at, !.v = st]
    <3>1. m.at \in {"ask", "adoptAsk"} /\ notice' = [notice EXCEPT ![n] = q]
      BY <2>4 DEF NoticeAsk, NoticeGoes
    <3>2. m.sub \in Subs /\ st \in Statuses
      BY <2>0, <3>1 DEF NoticeCarries, Answer, DataOK
    <3>3. at \in {"apply", "adoptRead"} /\ (at = "apply" <=> m.at = "ask")
      OBVIOUS
    <3> HIDE DEF m, st, at
    <3>4. q \in NoticeStates /\ q.at = at /\ q.sub = m.sub /\ q.row = m.row /\ q.v = st
      BY <2>0, <3>2, <3>3 DEF NoticeStates
    <3>5. NoticeCarries(q)
      BY <2>0, <3>1, <3>2, <3>3, <3>4 DEF NoticeCarries
    <3> QED BY <1>3, <3>1, <3>4, <3>5
  <2>5. CASE AdoptRead(n) /\ ~ NoticeGoes(n, IdleNotice)
    <3> DEFINE old == subs[Links[m.sub]]
               q == [m EXCEPT !.at = "adoptBind", !.row = old]
    <3>1. m.at = "adoptRead" /\ old # None /\ notice' = [notice EXCEPT ![n] = q]
      BY <2>5 DEF AdoptRead, NoticeGoes
    <3>2. m.sub \in Subs /\ Links[m.sub] \in Subs /\ m.v \in Statuses
      BY <2>0, <3>1 DEF NoticeCarries
    <3>3. old \in Rows
      BY <1>0, <3>1, <3>2
    <3> HIDE DEF m, old
    <3>4. q \in NoticeStates /\ q.at = "adoptBind" /\ q.sub = m.sub /\ q.row = old /\ q.v = m.v
      BY <2>0, <3>3 DEF NoticeStates
    <3>5. NoticeCarries(q)
      BY <3>2, <3>3, <3>4 DEF NoticeCarries
    <3> QED BY <1>3, <3>1, <3>4, <3>5
  <2>6. CASE NoticeApply(n) \/ AdoptBind(n) \/ NoticeFails(n)
    BY <2>1, <2>6 DEF NoticeApply, AdoptBind, NoticeFails
  <2> QED BY <1>5, <2>1, <2>2, <2>3, <2>4, <2>5, <2>6 DEF NoticeStep
<1>6. CASE \/ Tick \/ OutageEnds \/ (\E s \in Subs : StoreStep(s)) \/ (\E h \in Handles : Release(h))
           \/ (\E r \in Requests : PutStep(r)) \/ (\E w \in Sweepers : SweepWork(w) \/ SweepFails(w))
           \/ UNCHANGED vars
  <2>1. UNCHANGED notice
    BY <1>6 DEF Tick, OutageEnds, StoreStep, StoreRenews, StoreGrants, StoreEnds, StoreForgets, SetStore, Release,
       PutStep, PutHandle, CheckHolder, Verify, BindRead, BindHeld, BindWrite, Claim, PutFails, PutGoes,
       SweepWork, SweepList, SweepEnds, SweepAsk, SweepApply, SweepOthers, SweepGet, SweepRelease, SweepMark,
       SweepFails, SweepGoes, vars
  <2> QED BY <1>2, <2>1
<1> QED BY <1>5, <1>6 DEF Next

-----------------------------------------------------------------------------
(* Sweeps.                                                                 *)

(* The observer forgets nothing while a sweep runs, and sees every lapse.  *)
LEMMA SweepHears ==
  ASSUME Observe, NEW w \in Observed, sweep'[w].at # "idle"
  PROVE  /\ overdue[w] \subseteq overdue'[w]
         /\ \A s \in Subs, h \in Handles : StoreLapsed(s, h)' => <<s, h>> \in overdue'[w]
<1>1. w \in Sweepers
  BY PaidAssumption
<1>2. overdue'[w] = overdue[w] \cup {p \in Subs \X Handles : StoreLapsed(p[1], p[2])'}
  BY <1>1 DEF Observe
<1>3. ASSUME NEW s \in Subs, NEW h \in Handles, StoreLapsed(s, h)'
      PROVE  <<s, h>> \in {p \in Subs \X Handles : StoreLapsed(p[1], p[2])'}
  BY <1>3
<1> QED BY <1>2, <1>3

(* A status that was due when the sweep began is due now.                  *)
LEMMA DueStays ==
  ASSUME NEW st \in Statuses, NEW then \in Nat, NEW now \in Nat, then <= now, Due(st, then)
  PROVE  Due(st, now)
<1>1. st.expiresAt \in Nat /\ Grace \in Nat
  BY TimesAreNumbers, PaidAssumption DEF Statuses
<1> QED BY <1>1 DEF Due, Entitled

LEMMA Skipped ==
  ASSUME NEW m \in SweepStates, SweepCarries(m), m.at # "idle"
  PROVE  /\ Skip(m) \in SweepStates /\ SweepCarries(Skip(m)) /\ \A heard : Asked(Skip(m), heard)
         /\ Skip(m).at = "next"
<1> DEFINE q == Skip(m)
<1>1. q \in SweepStates /\ q.at = "next" /\ q.now = m.now /\ q.todo = m.todo
  BY DEF Skip, SweepStates
<1> HIDE DEF q
<1>2. SweepCarries(q)
  BY <1>1 DEF SweepCarries
<1>3. \A heard : Asked(q, heard)
  BY <1>1 DEF Asked
<1> QED BY <1>1, <1>2, <1>3 DEF q

(* A candidate is judged: it goes on only if its row is due.               *)
LEMMA Judged ==
  ASSUME NEW m \in SweepStates, m.now \in Times, m.now <= clock,
         \A c \in m.todo : subs[c.id] # None,
         m.id \in Subs, m.row \in Rows, subs[m.id] # None, m.at # "idle",
         NEW heard, Due(m.row.status, m.now) => <<m.id, m.row.handle>> \in heard
  PROVE  Judge(m) \in SweepStates /\ SweepCarries(Judge(m)) /\ Asked(Judge(m), heard) /\ Judge(m).at # "idle"
<1>1. CASE Due(m.row.status, m.now)
  <2> DEFINE q == [m EXCEPT !.at = "others"]
  <2>1. q \in SweepStates /\ q.at = "others" /\ q.now = m.now /\ q.todo = m.todo /\ q.id = m.id /\ q.row = m.row
    BY DEF SweepStates
  <2>2. Judge(m) = q
    BY <1>1 DEF Judge
  <2> HIDE DEF q
  <2>3. SweepCarries(q) /\ Asked(q, heard)
    BY <1>1, <2>1 DEF SweepCarries, Asked
  <2> QED BY <2>1, <2>2, <2>3
<1>2. CASE ~ Due(m.row.status, m.now)
  <2> DEFINE q == Skip(m)
  <2>1. q \in SweepStates /\ q.at = "next" /\ q.now = m.now /\ q.todo = m.todo
    BY DEF Skip, SweepStates
  <2>2. Judge(m) = q
    BY <1>2 DEF Judge
  <2> HIDE DEF q
  <2>3. SweepCarries(q) /\ Asked(q, heard)
    BY <2>1 DEF SweepCarries, Asked
  <2> QED BY <2>1, <2>2, <2>3
<1> QED BY <1>1, <1>2

(* Every step of a sweep: what it carries on, and that it has the store's  *)
(* word before it goes on towards a release.                               *)
LEMMA SweepStepped ==
  ASSUME TypeInv, AskedInv, NEW w \in Sweepers, SweepWork(w) \/ SweepFails(w)
  PROVE  \E q \in SweepStates :
           sweep' = [sweep EXCEPT ![w] = q] /\ SweepCarries(q) /\ (w \in Observed => Asked(q, overdue'[w]))
<1> DEFINE m == sweep[w]
           Carried == \E q \in SweepStates :
             sweep' = [sweep EXCEPT ![w] = q] /\ SweepCarries(q) /\ (w \in Observed => Asked(q, overdue'[w]))
<1>0. /\ m \in SweepStates /\ SweepCarries(m) /\ DataOK /\ sweep \in [Sweepers -> SweepStates]
      /\ clock \in Times /\ clock \in Nat /\ subs \in [Subs -> Rows \cup {None}] /\ store \in [Subs -> Statuses]
      /\ w \in Observed => Asked(m, overdue[w])
  BY TimesAreNumbers DEF TypeInv, SweepsOK, DataOK, AskedInv
<1>1. Observe /\ UNCHANGED <<clock, store, known>>
  BY DEF SweepWork, SweepList, SweepEnds, SweepAsk, SweepApply, SweepOthers, SweepGet, SweepRelease, SweepMark,
     SweepFails, SweepGoes
<1>2. ASSUME NEW q \in SweepStates, sweep' = [sweep EXCEPT ![w] = q], q.at # "idle", w \in Observed
      PROVE  /\ overdue[w] \subseteq overdue'[w]
             /\ \A s \in Subs, h \in Handles : StoreLapsed(s, h) => <<s, h>> \in overdue'[w]
  <2>1. sweep'[w].at # "idle"
    BY <1>0, <1>2
  <2>2. \A s, h : StoreLapsed(s, h) => StoreLapsed(s, h)'
    BY <1>1 DEF StoreLapsed
  <2> QED BY <1>1, <1>2, <2>1, <2>2, SweepHears
<1>3. CASE sweep' = [sweep EXCEPT ![w] = IdleSweep]
  <2>1. IdleSweep \in SweepStates /\ SweepCarries(IdleSweep) /\ \A heard : Asked(IdleSweep, heard)
    BY DEF IdleSweep, SweepStates, SweepCarries, Asked
  <2> QED BY <1>3, <2>1
<1>4. CASE sweep' = [sweep EXCEPT ![w] = Skip(m)] /\ m.at # "idle"
  <2> HIDE DEF m
  <2> QED BY <1>0, <1>4, Skipped
<1>5. CASE SweepList(w)
  <2>1. PICK todo \in SUBSET Lapsed :
          sweep' = [sweep EXCEPT ![w] = [IdleSweep EXCEPT !.at = "next", !.now = clock, !.todo = todo]]
    BY <1>5 DEF SweepList, SweepGoes
  <2> DEFINE q == [IdleSweep EXCEPT !.at = "next", !.now = clock, !.todo = todo]
  <2>2. \A c \in Lapsed : c \in Candidates /\ subs[c.id] # None
    BY <1>0 DEF Lapsed, Candidates
  <2>3. IdleSweep \in SweepStates
    BY DEF IdleSweep, SweepStates
  <2>4. q \in SweepStates /\ q.at = "next" /\ q.now = clock /\ q.todo = todo
    BY <1>0, <2>1, <2>2, <2>3 DEF SweepStates
  <2> HIDE DEF q
  <2>5. SweepCarries(q) /\ \A heard : Asked(q, heard)
    BY <1>0, <2>1, <2>2, <2>4 DEF SweepCarries, Asked
  <2> QED BY <2>1, <2>4, <2>5 DEF q
<1>6. ASSUME NEW c \in m.todo, SweepAsk(w, c)
      PROVE  Carried
  <2> DEFINE a == [m EXCEPT !.todo = @ \ {c}, !.id = c.id, !.row = c.row]
  <2>1. m.at = "next" /\ c \in Candidates /\ subs[c.id] # None /\ m.now \in Times /\ m.now <= clock
    BY <1>0, <1>6 DEF SweepAsk, SweepCarries, SweepStates
  <2>2. c.id \in Subs /\ c.row \in Rows /\ c.row.handle \in Handles
    BY <2>1 DEF Candidates, Rows
  <2>3. /\ a \in SweepStates /\ a.at = "next" /\ a.now = m.now /\ a.todo = m.todo \ {c} /\ a.id = c.id /\ a.row = c.row
    <3> HIDE DEF m
    <3> QED BY <1>0, <2>1, <2>2 DEF SweepStates
  <2>4. \A d \in a.todo : subs[d.id] # None
    BY <1>0, <2>3 DEF SweepCarries
  <2>5. CASE ~ Rejects(c.id)
    <3> DEFINE st == store[c.id]
               q == [a EXCEPT !.at = "apply", !.v = st]
    <3>1. sweep' = [sweep EXCEPT ![w] = q]
      BY <1>6, <2>5 DEF SweepAsk, SweepGoes, Answer
    <3>2. st \in Statuses
      BY <1>0, <2>2
    <3> HIDE DEF a
    <3>3. /\ q \in SweepStates /\ q.at = "apply" /\ q.now = m.now /\ q.todo = a.todo /\ q.id = c.id /\ q.row = c.row
          /\ q.v = st
      <4> HIDE DEF st, m
      <4> QED BY <2>3, <3>2 DEF SweepStates
    <3> HIDE DEF q, m
    <3>4. SweepCarries(q)
      BY <2>1, <2>2, <2>4, <3>2, <3>3 DEF SweepCarries
    <3>5. ASSUME w \in Observed, st.tier # TierOf[c.row.handle] \/ Due(st, m.now)
          PROVE  <<c.id, c.row.handle>> \in overdue'[w]
      <4>1. Due(st, m.now) => Due(st, clock)
        BY <1>0, <2>1, <3>2, DueStays, TimesAreNumbers
      <4>2. StoreLapsed(c.id, c.row.handle)
        BY <3>5, <4>1 DEF StoreLapsed
      <4> QED BY <1>2, <2>2, <3>1, <3>3, <3>5, <4>2
    <3>6. w \in Observed => Asked(q, overdue'[w])
      BY <3>3, <3>5 DEF Asked
    <3> QED BY <3>1, <3>3, <3>4, <3>6
  <2>6. CASE Rejects(c.id)
    <3> DEFINE q == Judge(a)
    <3>1. sweep' = [sweep EXCEPT ![w] = q]
      BY <1>6, <2>6 DEF SweepAsk, SweepGoes
    <3> HIDE DEF a, m
    <3>2. ASSUME NEW heard, <<c.id, c.row.handle>> \in heard
          PROVE  q \in SweepStates /\ SweepCarries(q) /\ Asked(q, heard) /\ q.at # "idle"
      BY <2>1, <2>2, <2>3, <2>4, <3>2, Judged
    <3> HIDE DEF q
    <3>3. q \in SweepStates /\ SweepCarries(q) /\ q.at # "idle"
      <4>1. <<c.id, c.row.handle>> \in {<<c.id, c.row.handle>>}
        OBVIOUS
      <4> QED BY <3>2, <4>1
    <3>4. ASSUME w \in Observed
          PROVE  Asked(q, overdue'[w])
      <4>1. StoreLapsed(c.id, c.row.handle)
        BY <2>6 DEF Rejects, StoreLapsed
      <4>2. <<c.id, c.row.handle>> \in overdue'[w]
        BY <1>2, <2>2, <3>1, <3>3, <3>4, <4>1
      <4> QED BY <3>2, <4>2
    <3> QED BY <3>1, <3>3, <3>4
  <2> QED BY <2>5, <2>6
<1>7. CASE SweepApply(w)
  <2> DEFINE status == Fitted(m.row, m.v)
             a == [m EXCEPT !.row.status = status, !.v = None]
             q == Judge(a)
  <2>1. m.at = "apply" /\ sweep' = [sweep EXCEPT ![w] = q]
    BY <1>7 DEF SweepApply, SweepGoes
  <2>2. /\ m.now \in Times /\ m.now <= clock /\ m.id \in Subs /\ m.row \in Rows /\ subs[m.id] # None /\ m.v \in Statuses
        /\ \A d \in m.todo : subs[d.id] # None
    BY <1>0, <2>1 DEF SweepCarries
  <2>3. status \in Statuses
    BY <2>2, FittedStatus
  <2>4. ASSUME w \in Observed, Due(status, m.now)
        PROVE  <<m.id, m.row.handle>> \in overdue[w]
    <3>1. m.v.tier # TierOf[m.row.handle] \/ Due(m.v, m.now)
      BY <2>4 DEF Fitted
    <3> QED BY <1>0, <2>1, <2>4, <3>1 DEF Asked
  <2> HIDE DEF status, m
  <2> DEFINE row == [m.row EXCEPT !.status = status]
  <2>5. row \in Rows /\ row.status = status /\ row.handle = m.row.handle
    BY <2>2, <2>3 DEF Rows
  <2>6. a = [m EXCEPT !.row = row, !.v = None]
    BY <1>0 DEF SweepStates
  <2> HIDE DEF row, a
  <2>7. a \in SweepStates /\ a.at = "apply" /\ a.now = m.now /\ a.todo = m.todo /\ a.id = m.id /\ a.row = row
    BY <1>0, <2>1, <2>5, <2>6 DEF SweepStates
  <2>8. ASSUME NEW heard, Due(status, m.now) => <<m.id, m.row.handle>> \in heard
        PROVE  q \in SweepStates /\ SweepCarries(q) /\ Asked(q, heard) /\ q.at # "idle"
    BY <2>2, <2>5, <2>7, <2>8, Judged
  <2> HIDE DEF q
  <2>9. q \in SweepStates /\ SweepCarries(q) /\ q.at # "idle"
    <3>1. <<m.id, m.row.handle>> \in {<<m.id, m.row.handle>>}
      OBVIOUS
    <3> QED BY <2>8, <3>1
  <2>10. w \in Observed => Asked(q, overdue'[w])
    <3>1. w \in Observed => overdue[w] \subseteq overdue'[w]
      BY <1>2, <2>1, <2>9
    <3> QED BY <2>4, <2>8, <3>1
  <2> QED BY <2>1, <2>9, <2>10
<1>8. CASE SweepOthers(w) \/ SweepGet(w) \/ SweepRelease(w)
  <2>1. PICK at \in {"get", "release", "mark"}, paid \in BOOLEAN :
          /\ m.at \in {"others", "get", "release"}
          /\ sweep' = [sweep EXCEPT ![w] = [m EXCEPT !.at = at, !.paid = paid]]
    <3>1. m.paid \in BOOLEAN /\ \A at : [m EXCEPT !.at = at] = [m EXCEPT !.at = at, !.paid = m.paid]
      <4> HIDE DEF m
      <4> QED BY <1>0 DEF SweepStates
    <3>2. CASE SweepOthers(w)
      <4> DEFINE paid == \E s \in Subs \ {m.id} :
                   /\ Bound(s, m.row.handle, m.row.key)
                   /\ subs[s].status.tier = TierOf[m.row.handle]
                   /\ Entitled(subs[s].status, m.now)
      <4>1. paid \in BOOLEAN /\ m.at = "others" /\ sweep' = [sweep EXCEPT ![w] = [m EXCEPT !.at = "get", !.paid = paid]]
        BY <3>2 DEF SweepOthers, SweepGoes
      <4> HIDE DEF paid
      <4> QED BY <4>1
    <3>3. CASE SweepGet(w)
      <4>1. PICK at \in {"release", "mark"} : m.at = "get" /\ sweep' = [sweep EXCEPT ![w] = [m EXCEPT !.at = at]]
        BY <3>3 DEF SweepGet, SweepGoes
      <4> QED BY <3>1, <4>1
    <3>4. CASE SweepRelease(w)
      <4>1. m.at = "release" /\ sweep' = [sweep EXCEPT ![w] = [m EXCEPT !.at = "mark"]]
        BY <3>4 DEF SweepRelease, SweepGoes
      <4> QED BY <3>1, <4>1
    <3> QED BY <1>8, <3>2, <3>3, <3>4
  <2> DEFINE q == [m EXCEPT !.at = at, !.paid = paid]
  <2>2. /\ m.now \in Times /\ m.now <= clock /\ m.id \in Subs /\ m.row \in Rows /\ subs[m.id] # None
        /\ \A d \in m.todo : subs[d.id] # None
        /\ w \in Observed => <<m.id, m.row.handle>> \in overdue[w]
    BY <1>0, <2>1 DEF SweepCarries, Asked
  <2> HIDE DEF m
  <2>3. q \in SweepStates /\ q.at = at /\ q.now = m.now /\ q.todo = m.todo /\ q.id = m.id /\ q.row = m.row
    BY <1>0, <2>1 DEF SweepStates
  <2> HIDE DEF q
  <2>4. SweepCarries(q)
    BY <2>1, <2>2, <2>3 DEF SweepCarries
  <2>5. w \in Observed => overdue[w] \subseteq overdue'[w]
    BY <1>2, <2>1, <2>3 DEF q
  <2>6. w \in Observed => Asked(q, overdue'[w])
    BY <2>1, <2>2, <2>3, <2>5 DEF Asked
  <2> QED BY <2>1, <2>3, <2>4, <2>6 DEF q
<1>9. CASE SweepFails(w) /\ m.at = "next"
  <2>1. CASE sweep' = [sweep EXCEPT ![w] = IdleSweep]
    BY <1>3, <2>1
  <2>2. CASE sweep' # [sweep EXCEPT ![w] = IdleSweep]
    <3>1. PICK c \in Earliest(m.todo) : sweep' = [sweep EXCEPT ![w] = [m EXCEPT !.todo = m.todo \ {c}]]
      BY <1>9, <2>2 DEF SweepFails, SweepGoes
    <3> DEFINE q == [m EXCEPT !.todo = m.todo \ {c}]
    <3>2. m.now \in Times /\ m.now <= clock /\ \A d \in m.todo : subs[d.id] # None
      BY <1>0, <1>9 DEF SweepCarries
    <3>3. q \in SweepStates /\ q.at = "next" /\ q.now = m.now /\ q.todo = m.todo \ {c}
      <4>1. m.at = "next"
        BY <1>9
      <4> HIDE DEF m
      <4> QED BY <1>0, <4>1 DEF SweepStates
    <3> HIDE DEF q, m
    <3>4. SweepCarries(q) /\ \A heard : Asked(q, heard)
      BY <3>2, <3>3 DEF SweepCarries, Asked
    <3> QED BY <3>1, <3>3, <3>4 DEF q
  <2> QED BY <2>1, <2>2
<1>10. CASE SweepEnds(w) \/ SweepMark(w) \/ (SweepFails(w) /\ m.at # "next")
  BY <1>3, <1>4, <1>10 DEF SweepEnds, SweepMark, SweepFails, SweepGoes
<1> QED BY <1>5, <1>6, <1>7, <1>8, <1>9, <1>10 DEF SweepWork

LEMMA SweepsNext == TypeInv /\ AskedInv /\ [Next]_vars => SweepsOK' /\ AskedInv'
<1> SUFFICES ASSUME TypeInv, AskedInv, [Next]_vars
             PROVE  SweepsOK' /\ AskedInv'
  OBVIOUS
<1>0. /\ sweep \in [Sweepers -> SweepStates] /\ \A w \in Sweepers : SweepCarries(sweep[w])
      /\ clock \in Nat /\ clock' \in Nat /\ clock <= clock' /\ \A s \in Subs : subs[s] # None => subs'[s] # None
  BY DataNext, TimesAreNumbers DEF TypeInv, SweepsOK, Grows, DataOK
<1>1. ASSUME NEW w \in Sweepers, NEW m \in SweepStates, sweep'[w] = m, SweepCarries(m)
      PROVE  SweepCarries(sweep[w])'
  <2>1. m.now \in Times => m.now \in Nat
    BY TimesAreNumbers
  <2>2. m.now \in Times /\ m.now <= clock => m.now <= clock'
    BY <1>0, <2>1
  <2>3. \A c \in m.todo : subs[c.id] # None => subs'[c.id] # None
    BY <1>0 DEF SweepStates, Candidates
  <2>4. /\ m.at # "idle" => m.now \in Times /\ m.now <= clock'
        /\ \A c \in m.todo : subs'[c.id] # None
        /\ m.at \notin {"idle", "next"} => m.id \in Subs /\ m.row \in Rows /\ subs'[m.id] # None
        /\ m.at = "apply" => m.v \in Statuses
    BY <1>0, <1>1, <2>2, <2>3 DEF SweepCarries
  <2> QED BY <1>1, <2>4 DEF SweepCarries
<1>2. overdue' = [w \in Sweepers |-> overdue'[w]]
  <2>1. CASE UNCHANGED vars
    BY <2>1 DEF AskedInv, vars
  <2>2. CASE Observe
    BY <2>2 DEF Observe
  <2>3. Observe \/ UNCHANGED vars
    BY DEF Next, Tick, OutageEnds, StoreStep, StoreRenews, StoreGrants, StoreEnds, StoreForgets, SetStore, Release,
       PutStep, PutHandle, CheckHolder, Verify, BindRead, BindHeld, BindWrite, Claim, PutFails, PutGoes,
       NoticeStep, Notify, NoticeRead, NoticeAsk, NoticeApply, AdoptRead, AdoptBind, NoticeFails, NoticeGoes,
       SweepWork, SweepList, SweepEnds, SweepAsk, SweepApply, SweepOthers, SweepGet, SweepRelease, SweepMark,
       SweepFails, SweepGoes
  <2> QED BY <2>1, <2>2, <2>3
<1>3. ASSUME NEW w \in Observed, sweep'[w] = sweep[w], Observe \/ UNCHANGED overdue
      PROVE  Asked(sweep'[w], overdue'[w])
  <2>1. Asked(sweep[w], overdue[w])
    BY DEF AskedInv
  <2>2. sweep'[w].at # "idle" => overdue[w] \subseteq overdue'[w]
    BY <1>3, SweepHears
  <2>3. CASE sweep[w].at = "idle"
    BY <1>3, <2>3 DEF Asked
  <2>4. CASE sweep[w].at # "idle"
    BY <1>3, <2>1, <2>2, <2>4 DEF Asked
  <2> QED BY <2>3, <2>4
<1>4. CASE UNCHANGED sweep /\ (Observe \/ UNCHANGED overdue)
  <2>1. SweepsOK'
    BY <1>0, <1>1, <1>4 DEF SweepsOK
  <2> QED BY <1>2, <1>3, <1>4, <2>1 DEF AskedInv
<1>5. ASSUME NEW w \in Sweepers, SweepWork(w) \/ SweepFails(w)
      PROVE  SweepsOK' /\ AskedInv'
  <2>1. PICK q \in SweepStates :
          sweep' = [sweep EXCEPT ![w] = q] /\ SweepCarries(q) /\ (w \in Observed => Asked(q, overdue'[w]))
    BY <1>5, SweepStepped
  <2>2. sweep' \in [Sweepers -> SweepStates] /\ sweep'[w] = q /\ \A v \in Sweepers \ {w} : sweep'[v] = sweep[v]
    BY <1>0, <2>1
  <2>3. ASSUME NEW v \in Sweepers
        PROVE  SweepCarries(sweep[v])'
    <3>1. CASE v = w
      BY <1>1, <2>1, <2>2, <3>1
    <3>2. CASE v # w
      BY <1>0, <1>1, <2>2, <3>2
    <3> QED BY <3>1, <3>2
  <2>4. Observe
    BY <1>5 DEF SweepWork, SweepList, SweepEnds, SweepAsk, SweepApply, SweepOthers, SweepGet, SweepRelease, SweepMark,
       SweepFails, SweepGoes
  <2>5. ASSUME NEW v \in Observed
        PROVE  Asked(sweep'[v], overdue'[v])
    <3>1. CASE v = w
      BY <2>1, <2>2, <2>5, <3>1
    <3>2. CASE v # w
      <4>1. v \in Sweepers
        BY PaidAssumption
      <4> QED BY <1>3, <2>2, <2>4, <3>2, <4>1
    <3> QED BY <3>1, <3>2
  <2> QED BY <1>2, <2>2, <2>3, <2>5 DEF SweepsOK, AskedInv
<1>6. CASE \/ Tick \/ OutageEnds \/ (\E s \in Subs : StoreStep(s)) \/ (\E h \in Handles : Release(h))
           \/ (\E r \in Requests : PutStep(r)) \/ (\E n \in Notices : NoticeStep(n)) \/ UNCHANGED vars
  <2>1. UNCHANGED sweep /\ (Observe \/ UNCHANGED overdue)
    BY <1>6 DEF Tick, OutageEnds, StoreStep, StoreRenews, StoreGrants, StoreEnds, StoreForgets, SetStore, Release,
       PutStep, PutHandle, CheckHolder, Verify, BindRead, BindHeld, BindWrite, Claim, PutFails, PutGoes,
       NoticeStep, Notify, NoticeRead, NoticeAsk, NoticeApply, AdoptRead, AdoptBind, NoticeFails, NoticeGoes, vars
  <2> QED BY <1>4, <2>1
<1> QED BY <1>5, <1>6 DEF Next

-----------------------------------------------------------------------------
LEMMA PaidInit == Init => TypeInv /\ AskedInv
<1> SUFFICES ASSUME Init
             PROVE  TypeInv /\ AskedInv
  OBVIOUS
<1>1. DataOK
  <2>1. PICK t \in Tiers : store = [s \in Subs |-> [state |-> "ended", tier |-> t, expiresAt |-> 0]]
    BY DEF Init
  <2>2. [state |-> "ended", tier |-> t, expiresAt |-> 0] \in Statuses
    BY PaidAssumption DEF Statuses, Expiries
  <2> QED BY <2>1, <2>2, TimesAreNumbers DEF Init, DataOK
<1>2. PutsOK
  <2>1. IdlePut \in PutStates /\ PutCarries(IdlePut)
    BY DEF IdlePut, PutStates, PutCarries
  <2> QED BY <2>1 DEF Init, PutsOK
<1>3. NoticesOK
  <2>1. IdleNotice \in NoticeStates /\ NoticeCarries(IdleNotice)
    BY DEF IdleNotice, NoticeStates, NoticeCarries
  <2> QED BY <2>1 DEF Init, NoticesOK
<1>4. SweepsOK /\ AskedInv
  <2>1. IdleSweep \in SweepStates /\ SweepCarries(IdleSweep) /\ \A heard : Asked(IdleSweep, heard)
    BY DEF IdleSweep, SweepStates, SweepCarries, Asked
  <2> QED BY <2>1, PaidAssumption DEF Init, SweepsOK, AskedInv
<1> QED BY <1>1, <1>2, <1>3, <1>4 DEF TypeInv

(* The invariant: types, what the goroutines carry from call to call, and *)
(* that an answer which lets a handle go was the store's own.              *)
THEOREM PaidInvariant == Spec => [](TypeInv /\ AskedInv)
<1>1. TypeInv /\ AskedInv /\ [Next]_vars => TypeInv' /\ AskedInv'
  BY DataNext, PutsNext, NoticesNext, SweepsNext DEF TypeInv
<1> QED BY <1>1, PaidInit, PTL DEF Spec

(* Every variable of the paid handles keeps its type, and a bind is tried  *)
(* at most three times.                                                    *)
THEOREM PaidTyped == Spec => []TypeOK
<1>1. TypeInv => TypeOK
  BY DEF TypeInv, DataOK, PutsOK, NoticesOK, SweepsOK, TypeOK
<1> QED BY <1>1, PaidInvariant, PTL

(* However many requests, notifications and sweeps overlap, a sweep is     *)
(* about to release a handle only if the store had let its subscription    *)
(* lapse at some moment of that sweep.                                     *)
THEOREM SweepsAskFirst == Spec => []SweepAsksFirst
<1>1. AskedInv => SweepAsksFirst
  BY DEF AskedInv, Asked, SweepAsksFirst
<1> QED BY <1>1, PaidInvariant, PTL

-----------------------------------------------------------------------------
(* While no request is under way, nobody is given a handle and no row is   *)
(* bound again, so that the mark of a sweep can be relied on.              *)

(* The row on file for s is still bound as row was.                        *)
SameBinding(s, row) == Bound(s, row.handle, row.key)

(* Another subscription is on file for what row pays for.                  *)
Another(s, row) == \E t \in Subs \ {s} : Bound(t, row.handle, row.key)

(* The key of row does not hold its handle, or has another subscription    *)
(* on file for it.                                                         *)
MayBeDone(s, row) == holder[row.handle] # row.key \/ Another(s, row)

(* A sweep works on rows bound as they are on file, finds another that     *)
(* pays only where there is another, and marks only what may be done with. *)
Follows(m) ==
  /\ \A c \in m.todo : SameBinding(c.id, c.row)
  /\ m.at \notin {"idle", "next"} => SameBinding(m.id, m.row)
  /\ m.at = "get" /\ m.paid => Another(m.id, m.row)
  /\ m.at = "mark" => MayBeDone(m.id, m.row)

WatchInv ==
  /\ \A w \in Sweepers : Follows(sweep[w])
  /\ \A s \in Subs : subs[s] # None /\ subs[s].handle \notin Generated /\ subs[s].released
                       => MayBeDone(s, subs[s])
  /\ \A h \in Handles \ Generated : holder[h] # None => OnFile(h) # {}

(* Nobody is at work, and every held handle that needs one has its row.    *)
Quiet ==
  /\ TypeOK /\ Watched
  /\ put = [r \in Requests |-> IdlePut] /\ notice = [n \in Notices |-> IdleNotice]
  /\ sweep = [w \in Sweepers |-> IdleSweep] /\ overdue = [w \in Sweepers |-> {}]

(* What a step may do to the registry and to the rows on file.             *)
Settled ==
  /\ \A h \in Handles : holder'[h] \in {holder[h], None}
  /\ \A s \in Subs : subs[s] # None
       => subs'[s] # None /\ subs'[s].handle = subs[s].handle /\ subs'[s].key = subs[s].key
  /\ \A s \in Subs : subs'[s] # None /\ subs'[s].released
       => \/ subs[s] # None /\ subs[s].released
          \/ \E w \in Sweepers : sweep[w].at = "mark" /\ sweep[w].id = s
(* Every step of a request changes the call it makes next.                 *)
LEMMA RequestsShow ==
  ASSUME TypeInv, NEW r \in Requests, PutStep(r)
  PROVE  put' # put
<1> DEFINE p == put[r]
<1>1. put \in [Requests -> PutStates] /\ p \in PutStates
  BY DEF TypeInv, PutsOK
<1>2. ASSUME NEW q, put' = [put EXCEPT ![r] = q], q.at # p.at
      PROVE  put' # put
  <2>1. put'[r] = q
    BY <1>1, <1>2
  <2> QED BY <1>2, <2>1
<1>3. IdlePut.at = "idle" /\ IdlePut \in PutStates
  BY DEF IdlePut, PutStates
<1>4. CASE PutHandle(r)
  <2>1. PICK h \in Handles, k \in Keys, s \in Subs \cup {None} :
          put' = [put EXCEPT ![r] = [IdlePut EXCEPT !.at = IF h \in Generated THEN "claim" ELSE "check",
                                       !.handle = h, !.key = k, !.sub = s, !.now = clock]]
    BY <1>4 DEF PutHandle, PutGoes
  <2> DEFINE q == [IdlePut EXCEPT !.at = IF h \in Generated THEN "claim" ELSE "check",
                                  !.handle = h, !.key = k, !.sub = s, !.now = clock]
  <2>2. p.at = "idle" /\ q.at # "idle"
    BY <1>3, <1>4 DEF PutHandle, PutStates
  <2> HIDE DEF q
  <2> QED BY <1>2, <2>1, <2>2 DEF q
<1>5. CASE put' = [put EXCEPT ![r] = IdlePut] /\ p.at # "idle"
  BY <1>2, <1>3, <1>5
<1>6. CASE CheckHolder(r) \/ Verify(r) \/ BindRead(r) \/ BindHeld(r) \/ BindWrite(r)
  <2>1. p.at # "idle"
    BY <1>6 DEF CheckHolder, Verify, BindRead, BindHeld, BindWrite
  <2>2. CASE put' # [put EXCEPT ![r] = IdlePut]
    <3>1. PICK q : put' = [put EXCEPT ![r] = q] /\ q.at # p.at
      <4>1. CASE CheckHolder(r)
        BY <1>1, <2>2, <4>1 DEF CheckHolder, PutGoes, PutStates
      <4>2. CASE Verify(r)
        <5> DEFINE q == [p EXCEPT !.at = "bindRead", !.v = Answer(p.sub), !.tries = 1]
        <5>1. p.at = "verify" /\ put' = [put EXCEPT ![r] = q]
          BY <2>2, <4>2 DEF Verify, PutGoes
        <5>2. q.at = "bindRead"
          BY <1>1 DEF PutStates
        <5> QED BY <5>1, <5>2
      <4>3. CASE BindRead(r)
        <5> DEFINE at == IF subs[p.sub] # None /\ ~ Bound(p.sub, p.handle, p.key) THEN "bindHeld" ELSE "bindWrite"
                   q == [p EXCEPT !.at = at, !.cur = subs[p.sub]]
        <5>1. put' = [put EXCEPT ![r] = q] /\ p.at = "bindRead" /\ at # "bindRead"
          BY <4>3 DEF BindRead, PutGoes
        <5> HIDE DEF at
        <5>2. q.at = at
          BY <1>1 DEF PutStates
        <5> QED BY <5>1, <5>2
      <4>4. CASE BindHeld(r)
        BY <1>1, <2>2, <4>4 DEF BindHeld, PutGoes, PutStates
      <4>5. CASE BindWrite(r)
        <5> DEFINE a == [p EXCEPT !.at = "claim", !.cur = None]
                   b == [p EXCEPT !.at = "bindRead", !.cur = None, !.tries = @ + 1]
        <5>1. /\ p.at = "bindWrite"
              /\ put' = [put EXCEPT ![r] = a] \/ put' = [put EXCEPT ![r] = b]
          BY <2>2, <4>5 DEF BindWrite, PutGoes
        <5>2. a.at = "claim" /\ b.at = "bindRead"
          BY <1>1 DEF PutStates
        <5> HIDE DEF a, b
        <5> QED BY <5>1, <5>2
      <4> QED BY <1>6, <4>1, <4>2, <4>3, <4>4, <4>5
    <3> QED BY <1>2, <3>1
  <2> QED BY <1>5, <2>1, <2>2
<1>7. CASE Claim(r) \/ PutFails(r)
  BY <1>5, <1>7 DEF Claim, PutFails, PutGoes
<1> QED BY <1>4, <1>6, <1>7 DEF PutStep

(* A row keeps its binding when its status is written, or its mark.        *)
LEMMA RowRewritten ==
  ASSUME DataOK, NEW s \in Subs, subs[s] # None, NEW row,
         subs' = [subs EXCEPT ![s] = row], row.handle = subs[s].handle, row.key = subs[s].key, row # None,
         row.released => subs[s].released \/ \E w \in Sweepers : sweep[w].at = "mark" /\ sweep[w].id = s,
         \A h \in Handles : holder'[h] \in {holder[h], None}
  PROVE  Settled
BY DEF DataOK, Settled

(* Without requests no step gives a handle to anybody, moves a row or      *)
(* drops one, and only a sweep that is about to marks one.                 *)
LEMMA SettledNext ==
  ASSUME TypeInv, [Next /\ UNCHANGED put]_vars
  PROVE  Settled
<1>0. DataOK /\ subs \in [Subs -> Rows \cup {None}]
  BY DEF TypeInv, DataOK
<1>1. CASE UNCHANGED subs /\ \A h \in Handles : holder'[h] \in {holder[h], None}
  BY <1>1 DEF Settled
<1>2. CASE \/ Tick \/ OutageEnds \/ (\E s \in Subs : StoreStep(s)) \/ UNCHANGED vars
  BY <1>1, <1>2 DEF Tick, OutageEnds, StoreStep, StoreRenews, StoreGrants, StoreEnds, StoreForgets, SetStore, vars
<1>3. ASSUME NEW h \in Handles, Release(h)
      PROVE  Settled
  BY <1>0, <1>1, <1>3 DEF Release, DataOK
<1>4. ASSUME NEW n \in Notices, NoticeStep(n)
      PROVE  Settled
  <2> DEFINE m == notice[n]
  <2>0. UNCHANGED holder /\ NoticeCarries(m)
    BY <1>4 DEF TypeInv, NoticesOK, NoticeStep, Notify, NoticeRead, NoticeAsk, NoticeApply, AdoptRead,
       AdoptBind, NoticeFails, NoticeGoes
  <2>1. CASE UNCHANGED subs
    BY <1>1, <2>0, <2>1
  <2>2. CASE NoticeApply(n)
    <3> DEFINE row == [subs[m.sub] EXCEPT !.status = Fitted(m.row, m.v)]
    <3>1. m.at = "apply" /\ subs' = [subs EXCEPT ![m.sub] = row]
      BY <2>2 DEF NoticeApply
    <3>2. m.sub \in Subs /\ subs[m.sub] # None /\ m.row \in Rows /\ m.v \in Statuses
      BY <2>0, <3>1 DEF NoticeCarries
    <3> HIDE DEF m
    <3>3. subs[m.sub] \in Rows
      BY <1>0, <3>2
    <3>4. row \in Rows /\ row.handle = subs[m.sub].handle /\ row.key = subs[m.sub].key /\ row.released = subs[m.sub].released
      BY <3>2, <3>3, FittedStatus DEF Rows
    <3> HIDE DEF row
    <3> QED BY <1>0, <2>0, <3>1, <3>2, <3>4, RowRewritten, NoneIsNoRow
  <2>3. CASE AdoptBind(n) /\ ~ UNCHANGED subs
    <3> DEFINE row == [handle |-> m.row.handle, key |-> m.row.key, status |-> AdoptedStatus(m.row, m.v), released |-> FALSE]
    <3>1. subs[m.sub] = None /\ subs' = [subs EXCEPT ![m.sub] = row] /\ ~ row.released
      BY <2>3 DEF AdoptBind
    <3> HIDE DEF row, m
    <3>2. \A s \in Subs : s # m.sub => subs'[s] = subs[s]
      BY <1>0, <3>1
    <3>3. m.sub \in Subs => subs'[m.sub] = row
      BY <1>0, <3>1
    <3> QED BY <2>0, <3>1, <3>2, <3>3 DEF Settled
  <2>4. CASE Notify(n) \/ NoticeRead(n) \/ NoticeAsk(n) \/ AdoptRead(n) \/ NoticeFails(n)
    BY <2>1, <2>4 DEF Notify, NoticeRead, NoticeAsk, AdoptRead, NoticeFails
  <2> QED BY <1>4, <2>1, <2>2, <2>3, <2>4 DEF NoticeStep
<1>5. ASSUME NEW w \in Sweepers, SweepWork(w) \/ SweepFails(w)
      PROVE  Settled
  <2> DEFINE m == sweep[w]
  <2>0. SweepCarries(m)
    BY DEF TypeInv, SweepsOK
  <2>1. CASE UNCHANGED <<holder, subs>>
    BY <1>1, <2>1
  <2>2. CASE SweepApply(w)
    <3> DEFINE row == [subs[m.id] EXCEPT !.status = Fitted(m.row, m.v)]
    <3>1. m.at = "apply" /\ subs' = [subs EXCEPT ![m.id] = row] /\ UNCHANGED holder
      BY <2>2 DEF SweepApply
    <3>2. m.id \in Subs /\ subs[m.id] # None /\ m.row \in Rows /\ m.v \in Statuses
      BY <2>0, <3>1 DEF SweepCarries
    <3> HIDE DEF m
    <3>3. subs[m.id] \in Rows
      BY <1>0, <3>2
    <3>4. row \in Rows /\ row.handle = subs[m.id].handle /\ row.key = subs[m.id].key /\ row.released = subs[m.id].released
      BY <3>2, <3>3, FittedStatus DEF Rows
    <3> HIDE DEF row
    <3> QED BY <1>0, <3>1, <3>2, <3>4, RowRewritten, NoneIsNoRow
  <2>3. CASE SweepRelease(w)
    <3>1. UNCHANGED subs /\ holder' = [holder EXCEPT ![m.row.handle] = None]
      BY <2>3 DEF SweepRelease
    <3> HIDE DEF m
    <3> QED BY <1>0, <1>1, <3>1 DEF DataOK
  <2>4. CASE SweepMark(w)
    <3> DEFINE row == [subs[m.id] EXCEPT !.released = TRUE]
    <3>1. m.at = "mark" /\ subs' = [subs EXCEPT ![m.id] = row] /\ UNCHANGED holder
      BY <2>4 DEF SweepMark
    <3>2. m.id \in Subs /\ subs[m.id] # None
      BY <2>0, <3>1 DEF SweepCarries
    <3>3. \E v \in Sweepers : sweep[v].at = "mark" /\ sweep[v].id = m.id
      BY <3>1
    <3> HIDE DEF m
    <3>4. subs[m.id] \in Rows
      BY <1>0, <3>2
    <3>5. row \in Rows /\ row.handle = subs[m.id].handle /\ row.key = subs[m.id].key
      BY <3>4 DEF Rows
    <3> HIDE DEF row
    <3> QED BY <1>0, <3>1, <3>2, <3>3, <3>5, RowRewritten, NoneIsNoRow
  <2>5. CASE \/ SweepList(w) \/ SweepEnds(w) \/ (\E c \in sweep[w].todo : SweepAsk(w, c))
             \/ SweepOthers(w) \/ SweepGet(w) \/ SweepFails(w)
    BY <2>1, <2>5 DEF SweepList, SweepEnds, SweepAsk, SweepOthers, SweepGet, SweepFails
  <2> QED BY <1>5, <2>2, <2>3, <2>4, <2>5 DEF SweepWork
<1> QED BY <1>2, <1>3, <1>4, <1>5, RequestsShow DEF Next

(* What is bound stays bound, and what may be done with stays so.          *)
LEMMA StaysDone ==
  ASSUME TypeInv, Settled, NEW s, NEW row \in Rows
  PROVE  /\ s \in Subs /\ SameBinding(s, row) => SameBinding(s, row)'
         /\ Another(s, row) => Another(s, row)'
         /\ MayBeDone(s, row) => MayBeDone(s, row)'
<1>1. row.handle \in Handles /\ row.key \in Keys /\ row.key # None
  BY PaidAssumption DEF Rows
<1>2. \A t \in Subs : Bound(t, row.handle, row.key) => Bound(t, row.handle, row.key)'
  BY DEF Settled, Bound
<1>3. holder[row.handle] # row.key => holder'[row.handle] # row.key
  BY <1>1 DEF Settled
<1> QED BY <1>2, <1>3 DEF SameBinding, Another, MayBeDone

(* A sweep that follows the collection still does after a step of another. *)
LEMMA FollowsStays ==
  ASSUME TypeInv, Settled, NEW m \in SweepStates, SweepCarries(m), Follows(m)
  PROVE  /\ \A c \in m.todo : SameBinding(c.id, c.row)'
         /\ m.at \notin {"idle", "next"} => SameBinding(m.id, m.row)'
         /\ m.at = "get" /\ m.paid => Another(m.id, m.row)'
         /\ m.at = "mark" => MayBeDone(m.id, m.row)'
<1>1. \A c \in m.todo : c.id \in Subs /\ c.row \in Rows
  BY DEF SweepStates, Candidates
<1>2. m.at \notin {"idle", "next"} => m.id \in Subs /\ m.row \in Rows
  BY DEF SweepCarries
<1> QED BY <1>1, <1>2, StaysDone DEF Follows

(* What a sweep goes on with follows the collection.                       *)
LEMMA FollowsStepped ==
  ASSUME TypeInv, Settled, NEW w \in Sweepers, SweepWork(w) \/ SweepFails(w),
         NEW m, m = sweep[w], NEW q, q = sweep'[w], Follows(m)
  PROVE  Follows(q)'
<1>0. /\ m \in SweepStates /\ SweepCarries(m) /\ sweep \in [Sweepers -> SweepStates]
      /\ subs \in [Subs -> Rows \cup {None}] /\ holder \in [Handles -> Keys \cup {None}]
  BY DEF TypeInv, SweepsOK, DataOK
<1>1. /\ \A c \in m.todo : SameBinding(c.id, c.row)'
      /\ m.at \notin {"idle", "next"} => SameBinding(m.id, m.row)'
      /\ m.at = "get" /\ m.paid => Another(m.id, m.row)'
  BY <1>0, FollowsStays
<1>2. ASSUME \A c \in q.todo : SameBinding(c.id, c.row)', q.at \notin {"idle", "next"} => SameBinding(q.id, q.row)',
             q.at = "get" /\ q.paid => Another(q.id, q.row)', q.at = "mark" => MayBeDone(q.id, q.row)'
      PROVE  Follows(q)'
  BY <1>2 DEF Follows
<1>3. ASSUME NEW a, sweep' = [sweep EXCEPT ![w] = a]
      PROVE  q = a
  BY <1>0, <1>3
<1>4. ASSUME q.at \in {"idle", "next"}, q.todo \subseteq m.todo
      PROVE  Follows(q)'
  BY <1>1, <1>2, <1>4
<1>5. CASE sweep' = [sweep EXCEPT ![w] = IdleSweep]
  BY <1>3, <1>4, <1>5 DEF IdleSweep
<1>6. CASE sweep' = [sweep EXCEPT ![w] = Skip(m)]
  <2>1. q.at = "next" /\ q.todo = m.todo
    BY <1>0, <1>3, <1>6 DEF Skip, SweepStates
  <2> QED BY <1>4, <2>1
<1>7. CASE SweepList(w)
  <2>1. PICK todo \in SUBSET Lapsed :
          sweep' = [sweep EXCEPT ![w] = [IdleSweep EXCEPT !.at = "next", !.now = clock, !.todo = todo]]
    BY <1>7 DEF SweepList, SweepGoes
  <2>2. q.at = "next" /\ q.todo = todo
    BY <1>3, <2>1 DEF IdleSweep
  <2>3. ASSUME NEW c \in todo
        PROVE  SameBinding(c.id, c.row)'
    <3>1. c.id \in Subs /\ c.row = subs[c.id] /\ subs[c.id] # None
      BY <2>1 DEF Lapsed
    <3>2. c.row \in Rows /\ SameBinding(c.id, c.row)
      BY <1>0, <3>1 DEF SameBinding, Bound
    <3> QED BY <3>1, <3>2, StaysDone
  <2> QED BY <1>2, <2>2, <2>3
<1>8. ASSUME NEW a \in SweepStates, q = Judge(a), \A c \in a.todo : SameBinding(c.id, c.row)', SameBinding(a.id, a.row)'
      PROVE  Follows(q)'
  <2>1. CASE q = Skip(a)
    <3>1. q.at = "next" /\ q.todo = a.todo
      BY <2>1 DEF Skip, SweepStates
    <3> QED BY <1>2, <1>8, <3>1
  <2>2. CASE q = [a EXCEPT !.at = "others"]
    <3>1. q.at = "others" /\ q.todo = a.todo /\ q.id = a.id /\ q.row = a.row
      BY <2>2 DEF SweepStates
    <3> QED BY <1>2, <1>8, <3>1
  <2> QED BY <1>8, <2>1, <2>2 DEF Judge
<1>9. ASSUME NEW c \in m.todo, SweepAsk(w, c)
      PROVE  Follows(q)'
  <2> DEFINE a == [m EXCEPT !.todo = @ \ {c}, !.id = c.id, !.row = c.row]
             b == [a EXCEPT !.at = "apply", !.v = Answer(c.id)]
  <2>1. c \in Candidates /\ SameBinding(c.id, c.row)'
    BY <1>0, <1>1 DEF SweepStates
  <2>2. a \in SweepStates /\ a.todo = m.todo \ {c} /\ a.id = c.id /\ a.row = c.row
    BY <1>0, <2>1 DEF SweepStates, Candidates
  <2>3. sweep' = [sweep EXCEPT ![w] = b] \/ sweep' = [sweep EXCEPT ![w] = Judge(a)]
    BY <1>9 DEF SweepAsk, SweepGoes
  <2> HIDE DEF a
  <2>4. b.at = "apply" /\ b.todo = a.todo /\ b.id = a.id /\ b.row = a.row
    BY <2>2 DEF SweepStates
  <2> HIDE DEF b
  <2>5. CASE q = b
    BY <1>1, <1>2, <2>1, <2>2, <2>4, <2>5
  <2>6. CASE q = Judge(a)
    BY <1>1, <1>8, <2>1, <2>2, <2>6
  <2> QED BY <1>3, <2>3, <2>5, <2>6
<1>10. CASE SweepApply(w)
  <2> DEFINE st == Fitted(m.row, m.v)
             a == [m EXCEPT !.row.status = st, !.v = None]
  <2>1. m.at = "apply" /\ sweep' = [sweep EXCEPT ![w] = Judge(a)]
    BY <1>10 DEF SweepApply, SweepGoes
  <2>2. m.id \in Subs /\ m.row \in Rows /\ st \in Statuses
    BY <1>0, <2>1, FittedStatus DEF SweepCarries
  <2> DEFINE row == [m.row EXCEPT !.status = st]
  <2>3. row \in Rows /\ row.handle = m.row.handle /\ row.key = m.row.key
    <3> HIDE DEF st
    <3> QED BY <2>2 DEF Rows
  <2>4. a = [m EXCEPT !.row = row, !.v = None]
    OBVIOUS
  <2>5. SameBinding(m.id, row)'
    <3>1. SameBinding(m.id, m.row)'
      BY <1>1, <2>1
    <3> HIDE DEF row
    <3> QED BY <2>3, <3>1 DEF SameBinding
  <2> HIDE DEF row
  <2>6. a \in SweepStates /\ a.todo = m.todo /\ a.id = m.id /\ a.row = row
    <3> HIDE DEF a
    <3> QED BY <1>0, <2>3, <2>4 DEF SweepStates
  <2> HIDE DEF a
  <2> QED BY <1>1, <1>3, <1>8, <2>1, <2>5, <2>6
<1>11. CASE SweepOthers(w)
  <2> DEFINE paid == \E s \in Subs \ {m.id} :
               /\ Bound(s, m.row.handle, m.row.key)
               /\ subs[s].status.tier = TierOf[m.row.handle]
               /\ Entitled(subs[s].status, m.now)
  <2>1. m.at = "others" /\ sweep' = [sweep EXCEPT ![w] = [m EXCEPT !.at = "get", !.paid = paid]]
    BY <1>11 DEF SweepOthers, SweepGoes
  <2>2. paid => Another(m.id, m.row)
    BY DEF Another
  <2>3. m.row \in Rows
    BY <1>0, <2>1 DEF SweepCarries
  <2>4. paid => Another(m.id, m.row)'
    BY <2>2, <2>3, StaysDone
  <2> HIDE DEF paid
  <2>5. q.at = "get" /\ q.todo = m.todo /\ q.id = m.id /\ q.row = m.row /\ q.paid = paid
    BY <1>0, <1>3, <2>1 DEF SweepStates
  <2> QED BY <1>1, <1>2, <2>1, <2>4, <2>5
<1>12. CASE SweepGet(w)
  <2>1. PICK at \in {"release", "mark"} :
          /\ m.at = "get" /\ sweep' = [sweep EXCEPT ![w] = [m EXCEPT !.at = at]]
          /\ at = "mark" => m.paid \/ holder[m.row.handle] # m.row.key
    BY <1>12 DEF SweepGet, SweepGoes
  <2>2. q.at = at /\ q.todo = m.todo /\ q.id = m.id /\ q.row = m.row
    BY <1>0, <1>3, <2>1 DEF SweepStates
  <2>3. m.row \in Rows
    BY <1>0, <2>1 DEF SweepCarries
  <2>4. at = "mark" => MayBeDone(m.id, m.row)
    BY <2>1 DEF MayBeDone, Follows
  <2>5. at = "mark" => MayBeDone(m.id, m.row)'
    BY <2>3, <2>4, StaysDone
  <2> QED BY <1>1, <1>2, <2>1, <2>2, <2>5
<1>13. CASE SweepRelease(w)
  <2>1. /\ m.at = "release" /\ sweep' = [sweep EXCEPT ![w] = [m EXCEPT !.at = "mark"]]
        /\ holder' = [holder EXCEPT ![m.row.handle] = None]
    BY <1>13 DEF SweepRelease, SweepGoes
  <2>2. q.at = "mark" /\ q.todo = m.todo /\ q.id = m.id /\ q.row = m.row
    BY <1>0, <1>3, <2>1 DEF SweepStates
  <2>3. m.row.handle \in Handles /\ m.row.key \in Keys
    BY <1>0, <2>1 DEF SweepCarries, Rows
  <2>4. MayBeDone(m.id, m.row)'
    <3>1. holder'[m.row.handle] # m.row.key
      <4> QED BY <1>0, <2>1, <2>3, PaidAssumption
    <3>2. \A s, row : holder'[row.handle] # row.key => MayBeDone(s, row)'
      BY DEF MayBeDone
    <3> QED BY <2>2, <3>1, <3>2
  <2> QED BY <1>1, <1>2, <2>1, <2>2, <2>4
<1>14. CASE SweepEnds(w) \/ SweepMark(w)
  BY <1>5, <1>6, <1>14 DEF SweepEnds, SweepMark, SweepGoes
<1>15. CASE SweepFails(w)
  <2>1. CASE m.at = "next" /\ sweep' # [sweep EXCEPT ![w] = IdleSweep]
    <3>1. PICK c \in Earliest(m.todo) : sweep' = [sweep EXCEPT ![w] = [m EXCEPT !.todo = @ \ {c}]]
      BY <1>15, <2>1 DEF SweepFails, SweepGoes
    <3>2. q.at = "next" /\ q.todo = m.todo \ {c}
      BY <1>0, <1>3, <2>1, <3>1 DEF SweepStates
    <3> QED BY <1>4, <3>2
  <2> QED BY <1>5, <1>6, <1>15, <2>1 DEF SweepFails, SweepGoes
<1> QED BY <1>7, <1>9, <1>10, <1>11, <1>12, <1>13, <1>14, <1>15 DEF SweepWork

LEMMA WatchNext ==
  ASSUME TypeInv, WatchInv, [Next /\ UNCHANGED put]_vars
  PROVE  WatchInv'
<1>1. Settled
  BY SettledNext
<1>2. /\ sweep \in [Sweepers -> SweepStates] /\ \A w \in Sweepers : SweepCarries(sweep[w]) /\ Follows(sweep[w])
      /\ subs \in [Subs -> Rows \cup {None}] /\ holder \in [Handles -> Keys \cup {None}]
  BY DEF TypeInv, SweepsOK, DataOK, WatchInv
<1>3. ASSUME NEW w \in Sweepers
      PROVE  Follows(sweep[w])'
  <2>0. PICK q : q = sweep'[w]
    OBVIOUS
  <2>1. CASE sweep'[w] = sweep[w]
    <3>1. q \in SweepStates /\ SweepCarries(q) /\ Follows(q)
      BY <1>2, <2>0, <2>1
    <3>2. Follows(q)'
      BY <1>1, <3>1, FollowsStays DEF Follows
    <3> QED BY <2>0, <3>2
  <2>2. CASE SweepWork(w) \/ SweepFails(w)
    <3>1. PICK m : m = sweep[w]
      OBVIOUS
    <3>2. Follows(m)
      BY <1>2, <3>1
    <3>3. Follows(q)'
      BY <1>1, <2>0, <2>2, <3>1, <3>2, FollowsStepped
    <3> QED BY <2>0, <3>3
  <2>3. sweep'[w] = sweep[w] \/ SweepWork(w) \/ SweepFails(w)
    <3>1. ASSUME NEW v \in Sweepers, v # w, SweepWork(v) \/ SweepFails(v)
          PROVE  sweep'[w] = sweep[w]
      <4>1. \E a : sweep' = [sweep EXCEPT ![v] = a]
        BY <3>1 DEF SweepWork, SweepList, SweepEnds, SweepAsk, SweepApply, SweepOthers, SweepGet, SweepRelease, SweepMark,
           SweepFails, SweepGoes
      <4> QED BY <1>2, <3>1, <4>1
    <3>2. CASE \/ Tick \/ OutageEnds \/ (\E s \in Subs : StoreStep(s)) \/ (\E h \in Handles : Release(h))
               \/ (\E r \in Requests : PutStep(r)) \/ (\E n \in Notices : NoticeStep(n)) \/ UNCHANGED vars
      BY <3>2 DEF Tick, OutageEnds, StoreStep, StoreRenews, StoreGrants, StoreEnds, StoreForgets, SetStore, Release,
         PutStep, PutHandle, CheckHolder, Verify, BindRead, BindHeld, BindWrite, Claim, PutFails, PutGoes,
         NoticeStep, Notify, NoticeRead, NoticeAsk, NoticeApply, AdoptRead, AdoptBind, NoticeFails, NoticeGoes, vars
    <3> QED BY <3>1, <3>2 DEF Next
  <2> QED BY <2>1, <2>2, <2>3
<1>4. ASSUME NEW s \in Subs, subs'[s] # None, subs'[s].handle \notin Generated, subs'[s].released
      PROVE  MayBeDone(s, subs[s])'
  <2> DEFINE Done == subs[s] # None /\ MayBeDone(s, subs[s])
  <2>1. Done
    <3>1. CASE subs[s] # None /\ subs[s].released
      BY <1>1, <1>4, <3>1 DEF Settled, WatchInv
    <3>2. ASSUME NEW w \in Sweepers, sweep[w].at = "mark", sweep[w].id = s
          PROVE  Done
      <4> DEFINE row == sweep[w].row
      <4>1. subs[s] # None /\ SameBinding(s, row) /\ MayBeDone(s, row)
        BY <1>2, <3>2 DEF SweepCarries, Follows
      <4>2. subs[s].handle = row.handle /\ subs[s].key = row.key
        BY <4>1 DEF SameBinding, Bound
      <4> HIDE DEF row
      <4> QED BY <4>1, <4>2 DEF MayBeDone, Another
    <3> QED BY <1>1, <1>4, <3>1, <3>2 DEF Settled
  <2>2. PICK row : row = subs[s]
    OBVIOUS
  <2>3. row \in Rows /\ MayBeDone(s, row)
    BY <1>2, <2>1, <2>2
  <2>4. MayBeDone(s, row)'
    BY <1>1, <2>3, StaysDone
  <2>5. row.handle = subs'[s].handle /\ row.key = subs'[s].key
    BY <1>1, <2>1, <2>2 DEF Settled
  <2> QED BY <2>4, <2>5 DEF MayBeDone, Another
<1>5. ASSUME NEW h \in Handles \ Generated, holder'[h] # None
      PROVE  OnFile(h)' # {}
  <2>1. holder'[h] = holder[h]
    BY <1>1, <1>5 DEF Settled
  <2>2. PICK s \in Subs : Bound(s, h, holder[h])
    BY <1>5, <2>1 DEF WatchInv, OnFile
  <2>3. subs'[s] # None /\ subs'[s].handle = h /\ subs'[s].key = holder[h]
    BY <1>1, <2>2 DEF Settled, Bound
  <2> QED BY <1>5, <2>1, <2>3 DEF OnFile, Bound
<1> QED BY <1>3, <1>4, <1>5 DEF WatchInv

(* From any state in which nobody is at work and every held handle that    *)
(* needs one has its row, and as long as no request runs: whatever the     *)
(* store does, whichever notifications come, late, twice or never, and     *)
(* however many sweeps overlap, fail or die, a held handle keeps its row,  *)
(* and the sweep goes on looking after it while it is the only one.        *)
THEOREM HandlesStayWatched == Quiet /\ [][Next /\ UNCHANGED put]_vars => []Watched
<1>1. Quiet => TypeInv /\ AskedInv /\ WatchInv
  <2> SUFFICES ASSUME Quiet
               PROVE  TypeInv /\ AskedInv /\ WatchInv
    OBVIOUS
  <2>1. PutCarries(IdlePut) /\ NoticeCarries(IdleNotice) /\ SweepCarries(IdleSweep) /\ \A heard : Asked(IdleSweep, heard)
    BY DEF IdlePut, PutCarries, IdleNotice, NoticeCarries, IdleSweep, SweepCarries, Asked
  <2>2. TypeInv
    BY <2>1 DEF Quiet, TypeOK, TypeInv, DataOK, PutsOK, NoticesOK, SweepsOK
  <2>3. AskedInv
    BY <2>1, PaidAssumption DEF Quiet, AskedInv
  <2>4. \A w \in Sweepers : Follows(sweep[w])
    BY DEF Quiet, Follows, IdleSweep
  <2>5. ASSUME NEW s \in Subs, subs[s] # None, subs[s].handle \notin Generated, subs[s].released
        PROVE  MayBeDone(s, subs[s])
    <3> DEFINE h == subs[s].handle
    <3>1. subs[s] \in Rows /\ h \in Handles \ Generated /\ subs[s].key # None
      BY <2>5, PaidAssumption DEF Quiet, TypeOK, Rows
    <3>2. CASE holder[h] = subs[s].key
      <4>1. s \in OnFile(h)
        BY <2>5, <3>1, <3>2 DEF OnFile, Bound
      <4>2. PICK t \in OnFile(h) : ~ subs[t].released \/ OnFile(h) # {t}
        BY <3>1, <3>2 DEF Quiet, Watched
      <4>3. PICK u \in OnFile(h) : u # s
        BY <2>5, <4>1, <4>2
      <4> QED BY <3>2, <4>3 DEF OnFile, MayBeDone, Another
    <3>3. CASE holder[h] # subs[s].key
      BY <3>3 DEF MayBeDone
    <3> QED BY <3>2, <3>3
  <2>6. \A h \in Handles \ Generated : holder[h] # None => OnFile(h) # {}
    BY DEF Quiet, Watched
  <2> QED BY <2>2, <2>3, <2>4, <2>5, <2>6 DEF WatchInv
<1>2. TypeInv /\ AskedInv /\ WatchInv /\ [Next /\ UNCHANGED put]_vars => (TypeInv /\ AskedInv /\ WatchInv)'
  <2>1. [Next /\ UNCHANGED put]_vars => [Next]_vars
    OBVIOUS
  <2> QED BY <2>1, DataNext, PutsNext, NoticesNext, SweepsNext, WatchNext DEF TypeInv
<1>3. WatchInv => Watched
  <2> SUFFICES ASSUME WatchInv, NEW h \in Handles \ Generated, holder[h] # None
               PROVE  \E s \in OnFile(h) : ~ subs[s].released \/ OnFile(h) # {s}
    BY DEF Watched
  <2>1. PICK s \in OnFile(h) : TRUE
    BY DEF WatchInv
  <2>2. s \in Subs /\ subs[s] # None /\ subs[s].handle = h /\ subs[s].key = holder[h]
    BY <2>1 DEF OnFile, Bound
  <2>3. CASE subs[s].released
    <3>1. Another(s, subs[s])
      BY <2>2, <2>3 DEF WatchInv, MayBeDone
    <3>2. PICK t \in Subs \ {s} : Bound(t, h, holder[h])
      BY <2>2, <3>1 DEF Another
    <3> QED BY <2>1, <3>2 DEF OnFile
  <2> QED BY <2>1, <2>3
<1> QED BY <1>1, <1>2, <1>3, PTL
=============================================================================
