----------------------------- MODULE MCPaidHandles -----------------------------
(***************************************************************************)
(* Instances of PaidHandles for TLC.                                       *)
(***************************************************************************)
EXTENDS PaidHandles, TLC

CONSTANTS h1, h2, k1, k2, s1, s2

\* Every handle is of the one length sold.
OneTier == [h \in Handles |-> 1]

\* Every subscription is sold in every tier, or only s2 may change its tier.
AnyTier == [s \in Subs |-> Tiers]
Crossgrade == s1 :> {1} @@ s2 :> {1, 2}

\* No purchase token replaces another, or s2 replaces s1.
NoLinks == [s \in Subs |-> None]
Replaced == s1 :> None @@ s2 :> s1

\* A state Init leads to: k1 has claimed h1 with s1, which is paid up until 2.
Claimed ==
  /\ holder = [h \in Handles |-> IF h = h1 THEN k1 ELSE None]
  /\ payer = [h \in Handles |-> IF h = h1 THEN s1 ELSE None]
  /\ clock = 1
  /\ store = [s \in Subs |->
       IF s = s1 THEN [state |-> "active", tier |-> TierOf[h1], expiresAt |-> 2]
       ELSE [state |-> "ended", tier |-> TierOf[h1], expiresAt |-> 0]]
  /\ subs = [s \in Subs |->
       IF s = s1 THEN [handle |-> h1, key |-> k1, status |-> store[s1], released |-> FALSE]
       ELSE None]
  /\ known = {s1}
  /\ outage = TRUE
  /\ put = [r \in Requests |-> IdlePut]
  /\ notice = [n \in Notices |-> IdleNotice]
  /\ sweep = [w \in Sweepers |-> IdleSweep]
  /\ overdue = [w \in Sweepers |-> {}]

ClaimedSpec == Claimed /\ [][Next]_vars /\ Fairness

Symmetry == Permutations(Keys) \cup Permutations(Requests)
=============================================================================
