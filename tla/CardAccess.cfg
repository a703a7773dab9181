\* Two overlapping requests of a sponsor and of staff, on one wallet, with one
\* request of each kind after another on a card, more where they overlap.
CONSTANTS
  None = None
  Staff = Staff
  p1 = p1
  p2 = p2
  w1 = w1
  c1 = c1
  c2 = c2
  s1 = s1
  Workers = {p1, p2}
  Wallets = {w1}
  Sponsors = {s1}
  Cards = {c1, c2}
  TokenOf <- DevToken
  MaxEvents = 1
SPECIFICATION AccessSpec
SYMMETRY Interchangeable
INVARIANTS TypeOK OneLiveCard ProcessorToldFirst TrustedWhenAsked
PROPERTIES CancelledSettles
