--------------------------- MODULE CardAccessMC ------------------------------
(* An instance of CardAccess for model checking. *)
EXTENDS CardAccess, TLC

CONSTANTS p1, p2, w1, c1, c2, s1

\* The development client hashes the wallet and its owner.
DevToken == w1 :> "token"

Interchangeable == Permutations({p1, p2}) \cup Permutations({c1, c2})
=============================================================================
