--------------------------- MODULE MCHandleRegistry ---------------------------
(***************************************************************************)
(* Instances of HandleRegistry for TLC.                                    *)
(***************************************************************************)
EXTENDS HandleRegistry, TLC

CONSTANTS h1, h2, sk1, sk2, sk3

\* A registry of one handle.
SingleHandle == {h1 :> sk1}

\* One release of the server: the two handles do not look alike.
OneFold == {h1 :> sk1 @@ h2 :> sk2}

\* Two releases side by side: the newer one moves h1 to a skeleton of its own
\* and folds h2 onto the one that h1 had.
TwoFolds == OneFold \cup {h1 :> sk3 @@ h2 :> sk1}

\* Requests, keys and serials are interchangeable, bodies too.
Symmetry == Permutations(Requests) \cup Permutations(Keys) \cup Permutations(Serials)
DataSymmetry == Permutations(Keys) \cup Permutations(Serials) \cup Permutations(Bodies)
=============================================================================
