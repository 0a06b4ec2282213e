SPECIFICATION Spec
CONSTANTS
  p1 = p1  p2 = p2  boss = boss  amy = amy  bob = bob  c1 = c1  c2 = c2
  None = None
  Pages = {p1}
  Admin = boss
  Partners = {amy, bob}
  UserOf <- OneUser
  Cases = {c1}
  FirstOwner <- AmysCase
  DraftOf <- NoDraft
  MaxStage = 2
  Attempts = 2
  MaxEdits = 1
  MaxMoves = 1
  MaxEvents = 1
PROPERTIES
  LifeIsChosen
