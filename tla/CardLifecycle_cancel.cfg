\* A cancellation and a freeze of the same card overlap.
CONSTANTS
  None = None
  p1 = p1
  p2 = p2
  w1 = w1
  c1 = c1
  c2 = c2
  Workers = {p1, p2}
  Wallets = {w1}
  Cards = {c1, c2}
  TokenOf <- DevToken
  MaxEvents = 1
SPECIFICATION Spec
CHECK_DEADLOCK FALSE
PROPERTIES CancelledIsFinal
