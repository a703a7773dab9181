\* Two overlapping requests on one wallet, and a card with a daily limit.
CONSTANTS
  None = None
  p1 = p1
  p2 = p2
  w1 = w1
  w2 = w2
  c1 = c1
  c2 = c2
  r1 = r1
  r2 = r2
  r3 = r3
  r4 = r4
  t1 = t1
  t2 = t2
  Workers = {p1, p2}
  Wallets = {w1}
  Cards = {c1}
  Refs = {r1, r2, r3}
  Transfers = {t1}
  CardWallet <- OneWallet
  CardOf <- ThreeOnCard
  Hold <- ThreeHolds
  DailyLimit <- LimitOne
  Into <- OneInto
  Deposit <- OneDeposit
  ClearedAmounts = {2}
  MaxSettlements = 1
SPECIFICATION Spec
INVARIANTS TypeOK NoOverdraft ClearedAtMostOnce CreditedOncePerSettlement OverrunByOverlap
PROPERTIES DecidedOnce EveryRequestEnds
