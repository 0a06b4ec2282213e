SPECIFICATION ConsultedSpec
CONSTANTS
  ann = ann  ben = ben  t1 = t1  t2 = t2  s1 = s1  s2 = s2  f1 = f1  f2 = f2
  None = None
  Runners = {ann}
  Transcripts = {t1}
  Sources = {}
  Documents = {f1}
  MaxReports = 7
  MaxMeetings = 2
  MaxRecordings = 1
  MaxRequests = 1
  MaxJobs = 1
  MaxDecisions = 2
  MaxReviews = 1
  MaxClaims = 1
  MaxDeposit = 2
CHECK_DEADLOCK FALSE
INVARIANTS
  ContractRestsOnEvidence
  FlowsReadBack
PROPERTIES
  EvidenceIsFrozen
