--------------------------- MODULE HandleDirectory ---------------------------
(***************************************************************************)
(* What the handle registry promises, with its storage left out: a         *)
(* directory in which every handle belongs to at most one identity key,    *)
(* every key to at most one handle, and the date of the newest certificate *)
(* accepted for a handle only ever moves forward, whoever holds it.        *)
(*                                                                         *)
(* storage.HandleStore (src/pkg/storage/handles.go) is the contract this   *)
(* abstracts; HandleRegistry is the code that implements it.               *)
(***************************************************************************)
EXTENDS Naturals

CONSTANTS Handles,  \* the names that can be registered
          Keys,     \* identity keys
          Dates,    \* the dates a certificate can carry, a set of positive numbers
          None      \* no key

VARIABLES holder,   \* holder[h]: the key that holds h, or None
          newest    \* newest[h]: issuedAt of the newest certificate accepted for h

vars == <<holder, newest>>

Init == /\ holder = [h \in Handles |-> None]
        /\ newest = [h \in Handles |-> 0]

(* k takes a handle nobody holds.  First come, first served: k must hold   *)
(* nothing else, and its certificate must be newer than every certificate  *)
(* and tombstone the handle has seen.                                      *)
Register(h, k, t) ==
  /\ holder[h] = None
  /\ \A g \in Handles : holder[g] # k
  /\ t > newest[h]
  /\ holder' = [holder EXCEPT ![h] = k]
  /\ newest' = [newest EXCEPT ![h] = t]

(* The holder replaces its certificate by a newer one.                     *)
Renew(h, k, t) ==
  /\ holder[h] = k
  /\ t > newest[h]
  /\ newest' = [newest EXCEPT ![h] = t]
  /\ UNCHANGED holder

(* The holder gives the handle up with a tombstone newer than its          *)
(* certificate; the date survives.                                         *)
Tombstone(h, k, t) ==
  /\ holder[h] = k
  /\ t > newest[h]
  /\ holder' = [holder EXCEPT ![h] = None]
  /\ newest' = [newest EXCEPT ![h] = t]

(* An operator, or the lapse sweep, takes the handle away; the date stays. *)
Revoke(h) ==
  /\ holder[h] # None
  /\ holder' = [holder EXCEPT ![h] = None]
  /\ UNCHANGED newest

Next ==
  \E h \in Handles :
    \/ Revoke(h)
    \/ \E k \in Keys, t \in Dates :
         Register(h, k, t) \/ Renew(h, k, t) \/ Tombstone(h, k, t)

Spec == Init /\ [][Next]_vars
=============================================================================
