\* Two wallets, and two requests that overlap on different ones.
CONSTANTS
  None = None
  p1 = p1
  p2 = p2
  w1 = w1
  w2 = w2
  c1 = c1
  c2 = c2
  r1 = r1
  r2 = r2
  r3 = r3
  r4 = r4
  t1 = t1
  t2 = t2
  Workers = {p1, p2}
  Wallets = {w1, w2}
  Cards = {c1, c2}
  Refs = {r1, r2, r3, r4}
  Transfers = {t1, t2}
  CardWallet <- TwoWallets
  CardOf <- FourOnTwo
  Hold <- FourHolds
  DailyLimit <- LimitThree
  Into <- TwoInto
  Deposit <- TwoDeposits
  ClearedAmounts = {0, 3}
  MaxSettlements = 1
SPECIFICATION SerialSpec
PROPERTIES ImplementsLedger
