------------------------------ MODULE HandleSearch ------------------------------
(***************************************************************************)
(* GET /api/handle/{query}: one read for the exact handle and one for each *)
(* tier of matches, with handles registered and released in between.       *)
(*                                                                         *)
(* Handles are numbers, in the order the registry sorts them.  A query is  *)
(* what its text matches: the handles it equals, begins, begins when both  *)
(* are folded, or is part of; and whether it may be asked at all, is long  *)
(* enough when folded, and long enough for a substring.                    *)
(***************************************************************************)
EXTENDS Naturals, Sequences, FiniteSets, Functions, Ranks

CONSTANTS
  Searchers,      \* who serves a search, one at a time
  Handles,
  Queries,
  SearchLimit,
  NoHandle

ASSUME SearchAssumption ==
  /\ Handles \subseteq Nat /\ IsFiniteSet(Handles) /\ NoHandle \notin Handles
  /\ SearchLimit \in Nat \ {0}
  /\ \A q \in Queries :
       /\ {q.ok, q.folded, q.long} \subseteq BOOLEAN
       /\ q.exact \in Handles \cup {NoHandle} /\ q.prefix \subseteq q.contains
       /\ q.contains \cup q.skeleton \subseteq Handles
       /\ q.exact # NoHandle => q.exact \in q.prefix

VARIABLES
  active,    \* the handles that are registered, each with a certificate
  search     \* search[p]: a running search, or the last one p has answered

searchVars == <<active, search>>

(* normaliseQuery turns down a query that can match nothing here.          *)
Nothing == [ok |-> FALSE, exact |-> NoHandle, prefix |-> {}, skeleton |-> {}, contains |-> {},
            folded |-> FALSE, long |-> FALSE]

Idle == [open |-> FALSE, tier |-> 0, query |-> Nothing, certs |-> <<>>, throughout |-> {}]

(* searchTiers, best first.                                                *)
SearchTiers(q) ==
  <<q.prefix>> \o (IF q.folded THEN <<q.skeleton>> ELSE <<>>) \o (IF q.long THEN <<q.contains>> ELSE <<>>)

(* add: a handle counts once, and not beyond the limit.                    *)
Added(certs, records) ==
  LET new == Entries(records, {i \in DOMAIN records : records[i] \notin Range(certs)})
      room == SearchLimit - Len(certs)
  IN certs \o SubSeq(new, 1, IF Len(new) < room THEN Len(new) ELSE room)

(* Mutant: a tier is asked for what is missing only.                       *)
TierLimitMissing(certs) == SearchLimit - Len(certs)

(* A tier is asked for a full answer, whatever has been found.             *)
TierLimit(certs) == SearchLimit

(* FindHandles: the first matches that are registered, in their order.     *)
FindHandles(matches, limit) ==
  LET all == matches \cap active
      n == Cardinality(all)
  IN [k \in 1 .. IF n < limit THEN n ELSE limit |-> Nth(all, k)]

(* An open search reads the exact handle next, at 0, or a tier.            *)
SearchStart(p, q) ==
  /\ ~ search[p].open
  /\ search' = [search EXCEPT ![p] =
       [open |-> q.ok, tier |-> 0, query |-> q, certs |-> <<>>, throughout |-> active]]
  /\ UNCHANGED active

(* The search goes on to the next tier, or is answered.                    *)
Found(p, certs) ==
  LET s == search[p]
      answered == Len(certs) >= SearchLimit \/ s.tier = Len(SearchTiers(s.query))
  IN /\ search' = [search EXCEPT ![p] = [s EXCEPT !.certs = certs, !.tier = @ + 1, !.open = ~ answered]]
     /\ UNCHANGED active

ReadExact(p) ==
  /\ search[p].open /\ search[p].tier = 0
  /\ Found(p, IF search[p].query.exact \in active THEN <<search[p].query.exact>> ELSE <<>>)

ReadTier(p) ==
  LET s == search[p]
  IN /\ s.open /\ s.tier > 0
     /\ Found(p, Added(s.certs, FindHandles(SearchTiers(s.query)[s.tier], TierLimit(s.certs))))

(* A read fails, and the client is told so; or the process ends.           *)
SearchEnds(p) == search' = [search EXCEPT ![p] = Idle] /\ UNCHANGED active
SearchFails(p) == search[p].open /\ SearchEnds(p)

(* A handle is registered or released, see HandleRegistry.                 *)
Registry(h) ==
  /\ active' = IF h \in active THEN active \ {h} ELSE active \cup {h}
  /\ search' = [p \in Searchers |-> [search[p] EXCEPT !.throughout = IF search[p].open THEN @ \ {h} ELSE @]]

-----------------------------------------------------------------------------
SearchTypeOK ==
  /\ active \subseteq Handles
  /\ \A p \in Searchers : search[p].query \in Queries \cup {Nothing} /\ search[p].tier \in 0 .. 4

(* An answer is short of nothing: unless it is full, it has every handle   *)
(* the query matches that was registered throughout, although tiers        *)
(* overlap, each is cut off at the limit, and handles come and go between  *)
(* the reads.  The exact handle leads, and none is there twice.            *)
SearchComplete ==
  \A p \in Searchers : LET s == search[p] IN ~ s.open /\ s.query.ok =>
    /\ Len(s.certs) <= SearchLimit /\ IsInjective(s.certs)
    /\ s.query.exact \in s.throughout => s.certs # <<>> /\ s.certs[1] = s.query.exact
    /\ Len(s.certs) < SearchLimit =>
         \A i \in DOMAIN SearchTiers(s.query) : SearchTiers(s.query)[i] \cap s.throughout \subseteq Range(s.certs)
=============================================================================
