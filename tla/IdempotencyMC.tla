---------------------------- MODULE IdempotencyMC ----------------------------
(* Instances of Idempotency for model checking. *)
EXTENDS Idempotency, TLC

CONSTANTS q1, q2, q3, q4

\* Three copies of one request and one request that reuses its key.
ThreeAlike == q1 :> "a" @@ q2 :> "a" @@ q3 :> "a" @@ q4 :> "b"

\* The three copies are interchangeable.
Copies == Permutations({q1, q2, q3})
=============================================================================
