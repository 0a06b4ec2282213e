SPECIFICATION Spec
CONSTANTS
  f1 = f1  f2 = f2  k1 = k1  old = old  b1 = b1
  amy = amy  boss = boss  u1 = u1  u2 = u2  d1a = d1a  d2a = d2a  s1 = s1  g1 = g1
  None = None
  FileIds = {f1, f2}
  ExistingFiles = {f1}
  Keys = {k1, old}
  Bytes = {b1}
  Users = {amy}
  Admin = boss
  Uploaders = {u1, u2}
  Deleters = {d1a}
  Savers = {s1}
  Readers = {}
  UserOf <- MemberSends
  Key <- SameKey
  LegacyKeys <- OldSpelling
  BytesOf <- SameBytes
  MaxEdits = 1
  MaxInterrupts = 1
CONSTRAINT OneDisturbance
SYMMETRY Interchangeable
INVARIANTS
  OneOriginalPerKey
  LinkedOriginalsAreStored
  CommittedOriginalsAreIntact
  DeletedBytesHaveAnOwner
  DeleteAnswersHold
PROPERTIES
  AcknowledgedMeansStored
  ImplementsLifecycle
