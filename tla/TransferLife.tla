------------------------------ MODULE TransferLife ------------------------------
(***************************************************************************)
(* What is promised of a funding transfer however the handlers that move   *)
(* it overlap, fail and are repeated: it is created waiting for its        *)
(* authorization and never waits for it again, and it is credited only as  *)
(* the step from AWAITING_SETTLEMENT to COMPLETED.  The order of the other *)
(* states is not promised, since they overwrite each other.                *)
(***************************************************************************)
EXTENDS Naturals

CONSTANT Transfers

VARIABLES
  state,     \* payment_state of each transfer, "none" before there is a row
  credits    \* CREDIT entries of each transfer

\* The states of a transfer that the sponsor or a bank, a job or staff touched.
Later == {"authorizing", "awaiting_settlement", "completed", "failed", "expired",
          "cancelled"}

Init ==
  /\ state   = [t \in Transfers |-> "none"]
  /\ credits = [t \in Transfers |-> 0]

Initiate(t) ==
  /\ state[t] = "none"
  /\ state' = [state EXCEPT ![t] = "awaiting_authorization"]
  /\ UNCHANGED credits

Move(t, s) ==
  /\ state[t] # "none"
  /\ state' = [state EXCEPT ![t] = s]
  /\ UNCHANGED credits

Credit(t) ==
  /\ state[t] = "awaiting_settlement"
  /\ state'   = [state EXCEPT ![t] = "completed"]
  /\ credits' = [credits EXCEPT ![t] = @ + 1]

Next ==
  \E t \in Transfers : Initiate(t) \/ Credit(t) \/ \E s \in Later : Move(t, s)

Spec == Init /\ [][Next]_<<state, credits>>
=============================================================================
