--------------------------- MODULE CardLifecycleMC ---------------------------
(* Instances of CardLifecycle for model checking. *)
EXTENDS CardLifecycle, TLC

CONSTANTS p1, p2, w1, c1, c2

\* The development client hashes the wallet and its owner.
DevToken == w1 :> "token"

Interchangeable == Permutations({p1, p2}) \cup Permutations({c1, c2})
=============================================================================
