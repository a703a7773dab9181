\* One transfer, paid over any channel that has an aggregator, and two workers.
CONSTANTS
  None = None
  p1 = p1
  p2 = p2
  t1 = t1
  Workers = {p1, p2}
  Transfers = {t1}
  Channels = {"yapily", "truelayer", "card"}
  MaxCredits = 2
SPECIFICATION Spec
INVARIANTS TypeOK InitiatedAlone RememberedWhenApplied
PROPERTIES CreditedInSettlement FinishedStays ImplementsLife AuthorizationEnds
