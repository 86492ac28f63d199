------------------------------ MODULE MCDevices ------------------------------
(***************************************************************************)
(* Instances of Devices for TLC.                                           *)
(***************************************************************************)
EXTENDS Devices, TLC

Symmetry ==
  Permutations(Identities) \cup Permutations(Tokens) \cup Permutations(Registrations) \cup Permutations(Boots)
=============================================================================
