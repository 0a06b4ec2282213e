SPECIFICATION Spec
CONSTANTS
  r1 = r1  r2 = r2  r3 = r3  f1 = f1  e1 = e1  e2 = e2  p1 = p1  p2 = p2  x1 = x1  x2 = x2
  None = None
  Requests = {r1, r2, r3}
  Founders = {f1}
  Emails = {e1, e2}
  Passwords = {p1, p2}
  First = p1
  Rests = {x1, x2}
  Kinds <- AllKinds
  Attempts = 2
SYMMETRY Interchangeable
INVARIANTS
  SessionsKnowThePassword
  SessionsAreOfActiveMembers
  LinksAreUsable
  AccountsFollowRoster
PROPERTIES
  RevokedNeverSave
  ImplementsAccountAccess
