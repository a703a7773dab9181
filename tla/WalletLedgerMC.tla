---------------------------- MODULE WalletLedgerMC ----------------------------
(* An instance of WalletLedger for model checking. *)
EXTENDS WalletLedger, TLC

CONSTANTS w1, w2, r1, r2, r3, t1, t2

\* Two holds that exhaust the first deposit of w1 between them, one hold on
\* w2, which is funded last, and clearings below, at and above every hold.
ChargedWallet == r1 :> w1 @@ r2 :> w1 @@ r3 :> w2
Holds         == r1 :> 1 @@ r2 :> 2 @@ r3 :> 1
FundedWallet  == t1 :> w1 @@ t2 :> w2
Deposits      == t1 :> 3 @@ t2 :> 1
Cleared       == -1 .. 3
Debited       == -1 .. 2
=============================================================================
