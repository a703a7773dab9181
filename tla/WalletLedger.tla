---------------------------- MODULE WalletLedger ----------------------------
(***************************************************************************)
(* What the wallet and transaction services promise about money: every     *)
(* operation on a wallet is one indivisible step on the wallet row, the    *)
(* ledger totals and the authorization it belongs to.                      *)
(*                                                                         *)
(* The services themselves take several SQL statements per operation;      *)
(* CardTransactions models those, and implements this module when requests *)
(* do not overlap.                                                         *)
(***************************************************************************)
EXTENDS Integers, Sequences, Functions

CONSTANTS
  Wallets,         \* wallet rows
  Refs,            \* processor_auth_ref of the card authorizations
  Transfers,       \* funding transfers
  WalletOf,        \* wallet an authorization is charged to
  Hold,            \* amount an authorization asks for, as the processor sent it
  Into,            \* wallet a funding transfer credits
  Deposit,         \* dest_amount of a funding transfer
  ClearedAmounts,  \* amounts the processor may send with a clearing
  DebitAmounts,    \* amounts debit_wallet may be called with
  MaxSettlements   \* bound on how often a transfer begins to await settlement

\* Only amounts of transfers are known to be positive (initiate_funding checks
\* them); the processor's amounts are any integers.
ASSUME LedgerAssumption ==
  /\ WalletOf \in [Refs -> Wallets]
  /\ Hold     \in [Refs -> Int]
  /\ Into     \in [Transfers -> Wallets]
  /\ Deposit  \in [Transfers -> Nat \ {0}]
  /\ ClearedAmounts \in SUBSET Int
  /\ DebitAmounts   \in SUBSET Int
  /\ MaxSettlements \in Nat

VARIABLES
  wallet,     \* wallet rows: available and reserved balance
  auths,      \* status of each authorization row, "none" when there is no row
  clearings,  \* amounts of the clearing rows of each authorization
  waiting,    \* funding transfers in state AWAITING_SETTLEMENT
  settlements,  \* how often each of them was moved to that state
  credits,    \* per wallet, the sum of its CREDIT ledger entries
  debits      \* per wallet, the sum of its DEBIT ledger entries

transfers == <<waiting, settlements>>
vars == <<wallet, auths, clearings, waiting, settlements, credits, debits>>

AuthStatus == {"none", "authorized", "declined", "cleared", "reversed"}

Init ==
  /\ wallet    = [w \in Wallets |-> [available |-> 0, reserved |-> 0]]
  /\ auths     = [r \in Refs |-> "none"]
  /\ clearings = [r \in Refs |-> << >>]
  /\ waiting   = {}
  /\ settlements = [t \in Transfers |-> 0]
  /\ credits   = [w \in Wallets |-> 0]
  /\ debits    = [w \in Wallets |-> 0]

-----------------------------------------------------------------------------
(* The operations                                                          *)

\* Mutant: a status the enumeration does not have.
DeclinePending(r) ==
  /\ auths[r] = "none"
  /\ auths' = [auths EXCEPT ![r] = "pending"]
  /\ UNCHANGED <<wallet, clearings, transfers, credits, debits>>

\* An authorization refused for whatever reason leaves an audit row only.
Decline(r) ==
  /\ auths[r] = "none"
  /\ auths' = [auths EXCEPT ![r] = "declined"]
  /\ UNCHANGED <<wallet, clearings, transfers, credits, debits>>

\* Mutant: the hold is taken from available and recorded nowhere.
ApproveUnreserved(r) ==
  /\ auths[r] = "none"
  /\ wallet[WalletOf[r]].available >= Hold[r]
  /\ auths'  = [auths EXCEPT ![r] = "authorized"]
  /\ wallet' = [wallet EXCEPT ![WalletOf[r]].available = @ - Hold[r]]
  /\ UNCHANGED <<clearings, transfers, credits, debits>>

\* An approved authorization moves its amount from available to reserved.
Approve(r) ==
  LET w == WalletOf[r]
  IN /\ auths[r] = "none"
     /\ Hold[r] > 0
     /\ wallet[w].available >= Hold[r]
     /\ auths'  = [auths EXCEPT ![r] = "authorized"]
     /\ wallet' = [wallet EXCEPT ![w] =
                     [available |-> @.available - Hold[r],
                      reserved  |-> @.reserved + Hold[r]]]
     /\ UNCHANGED <<clearings, transfers, credits, debits>>

\* Mutant: settles the held amount instead of the amount sent.
ClearHold(r, n) ==
  LET w == WalletOf[r]
  IN /\ auths[r] = "authorized"
     /\ wallet[w].reserved >= Hold[r]
     /\ auths'     = [auths EXCEPT ![r] = "cleared"]
     /\ clearings' = [clearings EXCEPT ![r] = Append(@, n)]
     /\ wallet'    = [wallet EXCEPT ![w].reserved = @ - Hold[r]]
     /\ debits'    = [debits EXCEPT ![w] = @ + n]
     /\ UNCHANGED <<transfers, credits>>

\* Clearing turns n of the wallet's reserved balance into a DEBIT entry.
\* The processor chooses n; it need not be the amount that was held.
Clear(r, n) ==
  LET w == WalletOf[r]
  IN /\ auths[r] = "authorized"
     /\ clearings[r] = << >>
     /\ wallet[w].reserved >= n
     /\ auths'     = [auths EXCEPT ![r] = "cleared"]
     /\ clearings' = [clearings EXCEPT ![r] = Append(@, n)]
     /\ wallet'    = [wallet EXCEPT ![w].reserved = @ - n]
     /\ debits'    = [debits EXCEPT ![w] = @ + n]
     /\ UNCHANGED <<transfers, credits>>

\* Mutants: a release that does not look at the reserved balance, and one
\* that lowers it without raising the available balance.
ReverseUnchecked(r) ==
  LET w == WalletOf[r]
  IN /\ auths[r] = "authorized"
     /\ auths'  = [auths EXCEPT ![r] = "reversed"]
     /\ wallet' = [wallet EXCEPT ![w] =
                     [available |-> @.available + Hold[r],
                      reserved  |-> @.reserved - Hold[r]]]
     /\ UNCHANGED <<clearings, transfers, credits, debits>>

ReverseForfeit(r) ==
  LET w == WalletOf[r]
  IN /\ auths[r] = "authorized"
     /\ wallet[w].reserved >= Hold[r]
     /\ auths'  = [auths EXCEPT ![r] = "reversed"]
     /\ wallet' = [wallet EXCEPT ![w].reserved = @ - Hold[r]]
     /\ UNCHANGED <<clearings, transfers, credits, debits>>

\* Reversal gives the whole hold back to the available balance.
Reverse(r) ==
  LET w == WalletOf[r]
  IN /\ auths[r] = "authorized"
     /\ wallet[w].reserved >= Hold[r]
     /\ auths'  = [auths EXCEPT ![r] = "reversed"]
     /\ wallet' = [wallet EXCEPT ![w] =
                     [available |-> @.available + Hold[r],
                      reserved  |-> @.reserved - Hold[r]]]
     /\ UNCHANGED <<clearings, transfers, credits, debits>>

\* A funding transfer begins to await settlement, or no longer does, without
\* a credit; nothing says it happens once.
Move(t) ==
  /\ \/ /\ t \notin waiting
        /\ settlements[t] < MaxSettlements
        /\ waiting' = waiting \cup {t}
        /\ settlements' = [settlements EXCEPT ![t] = @ + 1]
     \/ /\ t \in waiting
        /\ waiting' = waiting \ {t}
        /\ UNCHANGED settlements
  /\ UNCHANGED <<wallet, auths, clearings, credits, debits>>

\* A transfer that awaits settlement credits its wallet and is completed.
Credit(t) ==
  LET w == Into[t]
  IN /\ t \in waiting
     /\ waiting' = waiting \ {t}
     /\ wallet'  = [wallet EXCEPT ![w].available = @ + Deposit[t]]
     /\ credits' = [credits EXCEPT ![w] = @ + Deposit[t]]
     /\ UNCHANGED <<auths, clearings, settlements, debits>>

\* A debit of n, which must be positive and covered.  Nothing but the tests
\* calls debit_wallet yet.
Debit(w, n) ==
  /\ n > 0
  /\ wallet[w].available >= n
  /\ wallet' = [wallet EXCEPT ![w].available = @ - n]
  /\ debits' = [debits EXCEPT ![w] = @ + n]
  /\ UNCHANGED <<auths, clearings, transfers, credits>>

Next ==
  \/ \E r \in Refs : Decline(r) \/ Approve(r) \/ Reverse(r)
  \/ \E w \in Wallets : \E n \in DebitAmounts : Debit(w, n)
  \/ \E r \in Refs : \E n \in ClearedAmounts : Clear(r, n)
  \/ \E t \in Transfers : Move(t) \/ Credit(t)

Spec == Init /\ [][Next]_vars

-----------------------------------------------------------------------------
(* Properties                                                              *)

WalletRow == [available : Int, reserved : Int]

TypeOK ==
  /\ wallet    \in [Wallets -> WalletRow]
  /\ auths     \in [Refs -> AuthStatus]
  /\ clearings \in [Refs -> Seq(Int)]
  /\ waiting   \in SUBSET Transfers
  /\ settlements \in [Transfers -> 0 .. MaxSettlements]
  /\ credits   \in [Wallets -> Int]
  /\ debits    \in [Wallets -> Int]

\* Neither balance of a wallet ever drops below zero, whatever amounts the
\* processor sends: reserve_balance, settle_reserve and release_reserve each
\* compare the balance they lower with the amount before they write.
NoOverdraft ==
  \A w \in Wallets : wallet[w].available >= 0 /\ wallet[w].reserved >= 0

\* The ledger explains the balances: what was credited and not debited is
\* either available or reserved.  Holds and releases write no ledger entry,
\* so they must move money between the two columns without loss.
LedgerMatchesBalances ==
  \A w \in Wallets :
    credits[w] - debits[w] = wallet[w].available + wallet[w].reserved

\* Authorizations of wallet w in status s.
Charged(w, s) == {r \in Refs : WalletOf[r] = w /\ auths[r] = s}

\* Total held by the authorizations of w that are neither cleared nor reversed.
Outstanding(w) == SumFunctionOnSet(Hold, Charged(w, "authorized"))

\* What clearing r left behind in reserved: the hold minus what was settled.
Residue == [r \in Refs |->
              Hold[r] - (IF clearings[r] = << >> THEN 0 ELSE clearings[r][1])]

\* The reserved balance is exactly the outstanding holds plus, for every
\* cleared authorization, the part of its hold the processor did not settle
\* (nobody gives that part back) or minus what it settled beyond the hold.
ReservedExplained ==
  \A w \in Wallets :
    wallet[w].reserved =
      Outstanding(w) + SumFunctionOnSet(Residue, Charged(w, "cleared"))

\* As long as no clearing settled more than its authorization held, every
\* outstanding hold can still be cleared or reversed in full: the checks of
\* settle_reserve and release_reserve look at the wallet's total only.
HoldsCovered ==
  (\A r \in Refs : Residue[r] >= 0 \/ auths[r] # "cleared")
    => \A w \in Wallets : wallet[w].reserved >= Outstanding(w)
=============================================================================
