CONSTANTS
  None = None
  p1 = p1
  p2 = p2
  t1 = t1
  Workers = {p1}
  Transfers = {t1}
  Channels = {"truelayer"}
  MaxCredits = 2
SPECIFICATION ServedSpec
PROPERTY ExecutedCompletes
