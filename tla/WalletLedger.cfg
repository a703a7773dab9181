\* Indivisible operations on two wallets, with any amount cleared.
CONSTANTS
  w1 = w1
  w2 = w2
  r1 = r1
  r2 = r2
  r3 = r3
  t1 = t1
  t2 = t2
  Wallets = {w1, w2}
  Refs = {r1, r2, r3}
  Transfers = {t1, t2}
  WalletOf <- ChargedWallet
  Hold <- Holds
  Into <- FundedWallet
  Deposit <- Deposits
  ClearedAmounts <- Cleared
  DebitAmounts <- Debited
  MaxSettlements = 1
SPECIFICATION Spec
INVARIANTS TypeOK NoOverdraft LedgerMatchesBalances ReservedExplained HoldsCovered
CHECK_DEADLOCK FALSE
