SPECIFICATION EachSpec
CONSTANTS
  ann = ann  ben = ben  t1 = t1  t2 = t2  s1 = s1  s2 = s2  f1 = f1  f2 = f2
  None = None
  Runners = {ann, ben}
  Transcripts = {t1, t2}
  Sources = {s1, s2}
  Documents = {f1, f2}
  MaxReports = 4
  MaxMeetings = 1
  MaxRecordings = 2
  MaxRequests = 0
  MaxJobs = 2
  MaxDecisions = 1
  MaxReviews = 2
  MaxClaims = 2
  MaxDeposit = 2
SYMMETRY Names
CHECK_DEADLOCK FALSE
INVARIANTS
  AiReportsMatchTheirTranscript
  FirstMeetingWasPrepared
  OneResultPerJob
PROPERTIES
  AnswersAreFresh
  AcceptedByCommit
  AdmittedByDatabase
