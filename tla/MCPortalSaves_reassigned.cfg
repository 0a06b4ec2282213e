SPECIFICATION Spec
CONSTANTS
  p1 = p1  p2 = p2  boss = boss  amy = amy  bob = bob  c1 = c1  c2 = c2
  None = None
  Pages = {p1, p2}
  Admin = boss
  Partners = {amy, bob}
  UserOf <- BothUsers
  Cases = {c1, c2}
  FirstOwner <- AmysCase
  DraftOf <- AmysDraft
  MaxStage = 2
  Attempts = 2
  MaxEdits = 2
  MaxMoves = 0
  MaxEvents = 0
INVARIANTS
  SavedEditsAreStored
