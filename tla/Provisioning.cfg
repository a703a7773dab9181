\* Two overlapping requests, two accounts, one beneficiary.
CONSTANTS
  None = None
  p1 = p1
  p2 = p2
  u1 = u1
  u2 = u2
  b1 = b1
  Workers = {p1, p2}
  Accounts = {u1, u2}
  Beneficiaries = {b1}
  Tokens <- SignUps
SPECIFICATION Spec
CHECK_DEADLOCK FALSE
INVARIANTS TypeOK WalletWithRole LinkedRoles
