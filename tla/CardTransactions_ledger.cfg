\* Two overlapping requests on one wallet.
CONSTANTS
  None = None
  p1 = p1
  p2 = p2
  w1 = w1
  w2 = w2
  c1 = c1
  c2 = c2
  r1 = r1
  r2 = r2
  r3 = r3
  r4 = r4
  t1 = t1
  t2 = t2
  Workers = {p1, p2}
  Wallets = {w1}
  Cards = {c1}
  Refs = {r1, r2}
  Transfers = {t1}
  CardWallet <- OneWallet
  CardOf <- BothOnCard
  Hold <- TwoHolds
  DailyLimit <- NoLimit
  Into <- OneInto
  Deposit <- OneDeposit
  ClearedAmounts = {1, 2}
  MaxSettlements = 1
SPECIFICATION Spec
INVARIANT LedgerMatchesBalances
