\* Duplicates in the handler together.
CONSTANTS
  None = None
  q1 = q1
  q2 = q2
  q3 = q3
  q4 = q4
  Requests = {q1, q2, q3, q4}
  Body <- ThreeAlike
SPECIFICATION Spec
SYMMETRY Copies
CHECK_DEADLOCK FALSE
INVARIANTS DuplicatesExcluded
