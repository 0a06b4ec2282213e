SPECIFICATION Spec
CONSTANTS
  Windows = {w1}
  Cases = {c1, c2}
  Posts = {p1, p2}
  Models = {m1, m2}
  Stale = 1
  Timeout = 0
  MaxTime = 1
  MaxConsents = 2
  None = None
SYMMETRY Symmetry
CHECK_DEADLOCK FALSE
INVARIANTS
  PaidOncePerConsent
  InTimeAlone
PROPERTIES
  FateIsFinal
  SavedUnderConsent
