------------------------- MODULE CardTransactionsMC -------------------------
(* Instances of CardTransactions for model checking. *)
EXTENDS CardTransactions, TLC

CONSTANTS p1, p2, w1, w2, c1, c2, r1, r2, r3, r4, t1, t2

\* One wallet and card, two authorizations that together exceed the credit.
OneWallet   == c1 :> w1
BothOnCard  == r1 :> c1 @@ r2 :> c1
TwoHolds    == r1 :> 1 @@ r2 :> 2
OneInto     == t1 :> w1
OneDeposit  == t1 :> 2
NoLimit     == c1 :> None

\* Three authorizations, each as large as the daily limit of their card: one
\* takes the card to its limit, all three overrun it and exceed the credit.
ThreeOnCard == r1 :> c1 @@ r2 :> c1 @@ r3 :> c1
ThreeHolds  == r1 :> 1 @@ r2 :> 1 @@ r3 :> 1
LimitOne    == c1 :> 1

\* Two wallets with a card and a deposit each; the first card has a daily
\* limit of 3, and an authorization on the second names a negative amount.
TwoWallets  == c1 :> w1 @@ c2 :> w2
FourOnTwo   == r1 :> c1 @@ r2 :> c1 @@ r3 :> c2 @@ r4 :> c2
FourHolds   == r1 :> 2 @@ r2 :> 2 @@ r3 :> 1 @@ r4 :> -1
TwoInto     == t1 :> w1 @@ t2 :> w2
TwoDeposits == t1 :> 5 @@ t2 :> 1
LimitThree  == c1 :> 3 @@ c2 :> None
=============================================================================
