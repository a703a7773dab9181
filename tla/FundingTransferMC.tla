-------------------------- MODULE FundingTransferMC --------------------------
(* An instance of FundingTransfer for model checking. *)
EXTENDS FundingTransfer, TLC

CONSTANTS p1, p2, t1
=============================================================================
