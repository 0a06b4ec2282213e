SPECIFICATION FairSpec
CONSTANTS
  f1 = f1  f2 = f2  k1 = k1  old = old  b1 = b1
  amy = amy  boss = boss  u1 = u1  u2 = u2  d1a = d1a  d2a = d2a  s1 = s1  g1 = g1
  None = None
  FileIds = {f1}
  ExistingFiles = {}
  Keys = {k1}
  Bytes = {b1}
  Users = {amy}
  Admin = boss
  Uploaders = {u1, u2}
  Deleters = {d1a}
  Savers = {}
  Readers = {g1}
  UserOf <- MemberReads
  Key <- SameKey
  LegacyKeys <- NoLegacy
  BytesOf <- SameBytes
  MaxEdits = 1
  MaxInterrupts = 1
PROPERTIES
  ServedBodiesAreCurrent
  DeletesComplete
  UploadsSettle
