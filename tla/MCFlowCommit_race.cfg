SPECIFICATION Spec
CONSTANTS
  q1 = q1  q2 = q2  q3 = q3  ann = ann  ben = ben  c1 = c1  c2 = c2
  recording = recording  source = source  copy = copy  note = note
  None = None
  Requests = {q1, q2}
  Actors = {ann, ben}
  Commands = {c1, c2}
  Prints = {recording, source, copy, note}
  Attachments <- AttachmentsOf
  Imports = {copy}
  MaxLog = 2
SYMMETRY Names
INVARIANTS
  FlowFilesAreStored
  NothingIsLost
  AppliedToWhatWasSeen
PROPERTIES
  RevokedNeverCommit
  ImplementsCommandLog
