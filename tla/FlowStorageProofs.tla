------------------------- MODULE FlowStorageProofs -------------------------
(***************************************************************************)
(* Every update of a case passes the two later statements of its rules,    *)
(* for any number of reports, meetings, recordings, requests, jobs and     *)
(* concurrent AI runs: one lemma for each command and each step of a run.  *)
(***************************************************************************)
EXTENDS FlowStorage, ConsultingFlowProofs, FiniteSetTheorems

\* What an update may touch, from what it leaves alone.
LEMMA TouchesOnly ==
  ASSUME NEW S,
         reports' = reports \/ "reports" \in S, analysis' = analysis \/ "analysis" \in S,
         meetings' = meetings \/ "meetings" \in S,
         recordings' = recordings \/ "recordings" \in S,
         requests' = requests \/ "requests" \in S, decision' = decision \/ "decision" \in S,
         contract' = contract \/ "contract" \in S, paid' = paid \/ "payments" \in S,
         execution' = execution \/ "execution" \in S,
         aftercare' = aftercare \/ "aftercare" \in S,
         enabled' = enabled \/ "policy" \in S, source' = source \/ "source" \in S,
         jobs' = jobs \/ "jobs" \in S
  PROVE  Rules!Touched \subseteq S
BY DEF Rules!Touched, Rules!Part

LEMMA Scopes ==
  /\ \A a \in {"import_intake_source", "save_source", "exclude_source"} :
       Rules!Scope[a] = {"source"}
  /\ Rules!Scope["set_ai_policy"] = {"policy", "jobs"}
  /\ Rules!Scope["queue_report1"] = {"jobs"} /\ Rules!Scope["retry_job"] = {"jobs"}
  /\ Rules!Scope["save_report"] = {"reports", "analysis"}
  /\ Rules!Scope["confirm_analysis"] = {"analysis"}
  /\ \A a \in {"book_meeting", "complete_meeting", "cancel_meeting"} :
       Rules!Scope[a] = {"meetings"}
  /\ \A a \in {"save_recording", "save_transcript"} : Rules!Scope[a] = {"recordings", "jobs"}
  /\ Rules!Scope["confirm_solutions"] = {"decision"}
  /\ \A a \in {"request_document", "mark_request_sent", "receive_document",
               "review_document"} : Rules!Scope[a] = {"requests"}
  /\ Rules!Scope["record_contract"] = {"contract", "meetings"}
  /\ Rules!Scope["confirm_payment"] = {"payments", "execution"}
  /\ Rules!Scope["start_aftercare"] = {"aftercare"}
BY DEF Rules!Scope

\* What both layers ask of the jobs in an update by a command.
Jobs == /\ Rules!JobsAdmitted /\ Rules!NoAiTransition
        /\ JobsAccepted
        /\ \A j \in DOMAIN jobs : ~Started(j) /\ ~Finished(j)

LEMMA JobsAlone == ASSUME TypeOK, jobs' = jobs PROVE Jobs
BY Lists DEF Jobs, Rules!JobsAdmitted, Rules!NoAiTransition, JobsAccepted, Started, Finished

Passes == Accepted /\ Rules!Next

\* The same objects in both layers.
LEMMA SameNames ==
  /\ Rules!LatestFirst = LatestReport(1) /\ Rules!LatestRecording = LatestRecording
  /\ Rules!NoContract <=> ~Contracted
  /\ Rules!RequiredKey = DocumentsKey
  /\ Rules!Stage = Stage
  /\ \A stage : Rules!Generating(stage) <=> Active(stage)
<1>1. Rules!LatestFirst = LatestReport(1) /\ Rules!LatestRecording = LatestRecording
      /\ (Rules!NoContract <=> ~Contracted) /\ Rules!Stage = Stage
  BY DEF Rules!LatestFirst, LatestReport, Rules!LatestRecording, LatestRecording,
         Rules!NoContract, Contracted, Rules!Stage, Stage
<1>2. Rules!RequiredKey = DocumentsKey
  BY DEF Rules!RequiredKey, DocumentsKey, Required
<1>3. \A stage : Rules!Generating(stage) <=> Active(stage)
  BY DEF Rules!Generating, Active
<1>4. QED
  BY <1>1, <1>2, <1>3

LEMMA SourcePasses ==
  ASSUME TypeOK,
         \/ \E new \in Sources : ImportIntakeSource(new) \/ SaveSource(new)
         \/ \E new \in Sources \cup {None} : ExcludeSource(new)
  PROVE  Passes
<1>1. UNCHANGED <<evidence, signed, enabled, jobs>>
  BY DEF ImportIntakeSource, SaveSource, ExcludeSource
<1>2. Rules!Touched \subseteq Rules!Scope["save_source"]
  BY <1>1, TouchesOnly, Scopes DEF evidence, signed
<1>3. Jobs
  BY <1>1, JobsAlone
<1>4. QED
  BY <1>2, <1>3 DEF Passes, Jobs, Accepted, CommandAccepted, Rules!Next, Rules!CommandStep

LEMMA AnalysisPasses ==
  ASSUME TypeOK, NEW actor \in Role, ConfirmAnalysis(actor)
  PROVE  Passes
<1>1. UNCHANGED <<reports, meetings, recordings, requests, decision, signed, ai>>
  BY DEF ConfirmAnalysis
<1>2. Rules!Touched \subseteq Rules!Scope["confirm_analysis"]
  BY <1>1, TouchesOnly, Scopes DEF ai, signed
<1>3. Jobs
  BY <1>1, JobsAlone DEF ai
<1>4. ConfirmsAnalysis(actor) /\ Rules!ConfirmAnalysis(actor) /\ actor \in {"admin", "partner"}
  BY SameNames DEF ConfirmAnalysis, ConfirmsAnalysis, Rules!ConfirmAnalysis, Role
<1>5. QED
  BY <1>2, <1>3, <1>4 DEF Passes, Jobs, Accepted, CommandAccepted, Rules!Next, Rules!CommandStep

LEMMA SameAnalysis == Rules!AnalysisConfirmed <=> AnalysisDone
BY SameNames DEF Rules!AnalysisConfirmed, AnalysisDone

LEMMA SamePreparation ==
  ASSUME TypeOK, PreparationDone
  PROVE  Rules!BuiltOnLatestFirst(2) /\ Rules!BuiltOnLatestFirst(3)
<1>1. \A st \in {2, 3} : reports[st] # <<>>
  BY DEF PreparationDone, LatestReport
<1>2. QED
  BY <1>1, SameNames DEF PreparationDone, LatestReport, Rules!BuiltOnLatestFirst

\* The SQL asks of the decision's report only that it is one on the newest sources.
LEMMA SigningReady ==
  ASSUME TypeOK, SigningPreparationDone, ~Contracted
  PROVE  Rules!ReadyToSign
<1>1. decision.id # 0 /\ decision.report \in DOMAIN reports[4]
      /\ reports[4][decision.report].src = LatestReport(1)
      /\ reports[4][decision.report].rec = LatestRecording
  BY DEF SigningPreparationDone, DocumentsDone, IsDeepReport, DeepReports
<1>2. /\ decision.documents => \E i \in DOMAIN requests : requests[i].required
      /\ \A i \in DOMAIN requests : requests[i].required => requests[i].status = "verified"
  BY DEF SigningPreparationDone, DocumentsDone, Required
<1>3. \A st \in {5, 6} : Rules!MadeForDecision(st)
  BY SameNames DEF SigningPreparationDone, LatestReport, Rules!MadeForDecision
<1>4. QED
  BY <1>1, <1>2, <1>3, SameNames DEF Rules!ReadyToSign

LEMMA AttendsSame ==
  ASSUME TypeOK, NEW actor \in Role, NEW m \in DOMAIN meetings, CanAttend(actor, m)
  PROVE  Rules!Attends(actor, m)
BY DEF CanAttend, Rules!Attends, Role

\* Changing the status of one meeting.
LEMMA OneMeeting ==
  ASSUME TypeOK, NEW m \in DOMAIN meetings, NEW st,
         meetings' = [meetings EXCEPT ![m].status = st]
  PROVE  /\ Rules!OnlyTarget(meetings, meetings', m)
         /\ meetings'[m] = [meetings[m] EXCEPT !.status = st]
<1>1. meetings \in Seq(Meeting)
  BY DEF TypeOK
<1>2. Len(meetings') = Len(meetings)
  BY <1>1
<1>3. QED
  BY <1>1, <1>2 DEF Rules!OnlyTarget

LEMMA BookingPasses ==
  ASSUME TypeOK, NEW kind \in {"first", "followup", "contract"},
         NEW attendance \in Role \cup {"both"}, BookMeeting(kind, attendance)
  PROVE  Passes
<1> DEFINE new == [kind |-> kind, attendance |-> attendance, status |-> "scheduled"]
<1>1. UNCHANGED <<reports, analysis, recordings, requests, decision, signed, ai>>
  BY DEF BookMeeting
<1>2. Rules!Touched \subseteq Rules!Scope["book_meeting"]
  BY <1>1, TouchesOnly, Scopes DEF ai, signed
<1>3. Jobs
  BY <1>1, JobsAlone DEF ai
<1>4. Rules!Appended(meetings, meetings') /\ meetings'[Len(meetings) + 1] = new
  <2>1. meetings' = Append(meetings, new) /\ meetings \in Seq(Meeting) /\ new \in Meeting
    BY DEF BookMeeting, TypeOK, Meeting
  <2>2. QED
    BY <2>1, AppendProperties, LenProperties DEF Rules!Appended
<1>5. Bookable(kind, attendance)
  BY DEF BookMeeting
<1>6. BooksMeeting
  <2>1. /\ kind = "first" => /\ AnalysisDone /\ FirstMeetings = {}
                             /\ attendance = "both"
        /\ kind = "followup" => FirstCompleted
        /\ kind = "contract" => SigningPreparationDone /\ ~Contracted
    BY <1>5 DEF Bookable
  <2>2. Appended(meetings, meetings')
    BY <1>4 DEF Appended
  <2>3. CASE kind = "first"
    BY <1>4, <2>1, <2>2, <2>3 DEF BooksMeeting
  <2>4. CASE kind = "followup"
    BY <1>4, <2>1, <2>2, <2>4 DEF BooksMeeting
  <2>5. CASE kind = "contract"
    BY <1>4, <2>1, <2>2, <2>5 DEF BooksMeeting
  <2>6. QED
    BY <2>3, <2>4, <2>5
<1>7. Rules!BookMeeting
  <2>1. CASE kind = "first"
    <3>1. \A m \in DOMAIN meetings : meetings[m].kind = "first" =>
                                       meetings[m].status = "cancelled"
      BY <1>5, <2>1 DEF Bookable, FirstMeetings
    <3>2. Rules!AnalysisConfirmed /\ attendance = "both"
      BY <1>5, <2>1, SameAnalysis DEF Bookable
    <3>3. QED
      BY <1>4, <2>1, <3>1, <3>2 DEF Rules!BookMeeting
  <2>2. CASE kind = "followup"
    BY <1>4, <1>5, <2>2 DEF Bookable, FirstCompleted, Rules!BookMeeting
  <2>3. CASE kind = "contract"
    <3>1. Rules!ReadyToSign
      BY <1>5, <2>3, SigningReady DEF Bookable
    <3>2. QED
      BY <1>4, <2>3, <3>1 DEF Rules!BookMeeting
  <2>4. QED
    BY <2>1, <2>2, <2>3
<1>8. QED
  BY <1>2, <1>3, <1>6, <1>7
  DEF Passes, Jobs, Accepted, CommandAccepted, Rules!Next, Rules!CommandStep

LEMMA MeetingPasses ==
  ASSUME TypeOK, NEW actor \in Role, NEW m \in DOMAIN meetings,
         CompleteMeeting(actor, m) \/ CancelMeeting(actor, m)
  PROVE  Passes
<1>1. UNCHANGED <<reports, analysis, recordings, requests, decision, signed, ai>>
  BY DEF CompleteMeeting, CancelMeeting
<1>2. \A a \in {"complete_meeting", "cancel_meeting"} : Rules!Touched \subseteq Rules!Scope[a]
  BY <1>1, TouchesOnly, Scopes DEF ai, signed
<1>3. Jobs
  BY <1>1, JobsAlone DEF ai
<1>4. meetings[m].status = "scheduled" /\ CanAttend(actor, m) /\ Rules!Attends(actor, m)
      /\ actor \in {"admin", "partner"}
  BY AttendsSame DEF CompleteMeeting, CancelMeeting, Role
<1>5. CASE CompleteMeeting(actor, m)
  <2>1. /\ Rules!OnlyTarget(meetings, meetings', m)
        /\ meetings'[m] = [meetings[m] EXCEPT !.status = "completed"]
    BY <1>5, OneMeeting DEF CompleteMeeting
  <2>2. CompletesMeeting(actor, m)
    BY <1>4, <1>5, <2>1 DEF CompletesMeeting, CompleteMeeting, OnlyTarget
  <2>3. Rules!CompleteMeeting(actor, m)
    BY <1>4, <1>5, <2>1, SameAnalysis, SamePreparation, SameNames
    DEF Rules!CompleteMeeting, CompleteMeeting
  <2>4. QED
    BY <1>2, <1>3, <1>4, <2>2, <2>3
    DEF Passes, Jobs, Accepted, CommandAccepted, Rules!Next, Rules!CommandStep
<1>6. CASE CancelMeeting(actor, m)
  <2>1. /\ Rules!OnlyTarget(meetings, meetings', m)
        /\ meetings'[m] = [meetings[m] EXCEPT !.status = "cancelled"]
    BY <1>6, OneMeeting DEF CancelMeeting
  <2>2. CancelsMeeting(actor, m) /\ Rules!CancelMeeting(actor, m)
    BY <1>4, <2>1 DEF CancelsMeeting, OnlyTarget, Rules!CancelMeeting
  <2>3. QED
    BY <1>2, <1>3, <1>4, <2>2
    DEF Passes, Jobs, Accepted, CommandAccepted, Rules!Next, Rules!CommandStep
<1>7. QED
  BY <1>5, <1>6

LEMMA ContractPasses ==
  ASSUME TypeOK, NEW actor \in Role, NEW m \in DOMAIN meetings,
         NEW deposit \in 1 .. MaxDeposit, RecordContract(actor, m, deposit)
  PROVE  Passes
<1>1. UNCHANGED <<reports, analysis, recordings, requests, decision, paid, execution,
                  aftercare, ai>>
  BY DEF RecordContract
<1>2. Rules!Touched \subseteq Rules!Scope["record_contract"]
  BY <1>1, TouchesOnly, Scopes DEF ai
<1>3. Jobs
  BY <1>1, JobsAlone DEF ai
<1>4. /\ Rules!OnlyTarget(meetings, meetings', m)
      /\ meetings'[m] = [meetings[m] EXCEPT !.status = "completed"]
  BY OneMeeting DEF RecordContract
<1>5. /\ meetings[m].kind = "contract" /\ meetings[m].status \in {"scheduled", "completed"}
      /\ Rules!Attends(actor, m) /\ CanAttend(actor, m) /\ actor \in {"admin", "partner"}
      /\ Rules!ReadyToSign
  <2>1. meetings[m] \in Meeting
    BY Lists
  <2>2. QED
    BY <2>1, AttendsSame, SigningReady DEF RecordContract, Role, Meeting
<1>6. contract'.meeting = m /\ contract'.report = LatestReport(6)
      /\ contract'.deposit \in Nat \ {0}
  BY FlowAssumption DEF RecordContract
<1>7. RecordsContract(actor, m)
  BY <1>4, <1>5, <1>6 DEF RecordsContract, RecordContract, OnlyTarget
<1>8. Rules!RecordContract(actor, m)
  BY <1>4, <1>5, <1>6
  DEF Rules!RecordContract, Rules!ContractMeeting, Rules!ContractEvidence, LatestReport
<1>9. QED
  BY <1>2, <1>3, <1>5, <1>7, <1>8
  DEF Passes, Jobs, Accepted, CommandAccepted, Rules!Next, Rules!CommandStep

\* A recording implies the joint analysis of a first report.
LEMMA RecordedHasFirst ==
  ASSUME TypeOK, StageInv, LatestRecording # 0
  PROVE  LatestReport(1) # 0
BY DEF StageInv, StagesInOrder, FirstMeetingWasPrepared, AnalysisDone, LatestRecording

\* A stage that is open has the sources of its report.
LEMMA SavedHasSources ==
  ASSUME TypeOK, StageInv, NEW stage \in Stage, StageReady(stage)
  PROVE  /\ stage # 1 => LatestReport(1) # 0
         /\ stage = 4 => LatestRecording # 0
         /\ stage >= 5 => decision.id # 0
<1>1. CASE stage = 1
  BY <1>1
<1>2. CASE stage \in {2, 3}
  BY <1>2 DEF StageReady, AnalysisDone
<1>3. CASE stage = 4
  BY <1>3, RecordedHasFirst DEF StageReady
<1>4. CASE stage \in {5, 6}
  <2>1. DocumentsDone
    BY <1>4 DEF StageReady
  <2>2. decision.id # 0 /\ LatestRecording # 0
    BY <2>1 DEF DocumentsDone, IsDeepReport, DeepReports
  <2>3. QED
    BY <1>4, <2>2, RecordedHasFirst
<1>5. QED
  BY <1>1, <1>2, <1>3, <1>4 DEF Stage

LEMMA ReportPasses ==
  ASSUME TypeOK, StageInv, NEW stage \in Stage, SaveReport(stage)
  PROVE  Passes
<1> DEFINE r == [src |-> IF stage = 1 THEN 0 ELSE LatestReport(1),
                 rec |-> IF stage = 4 THEN LatestRecording ELSE 0,
                 decision |-> IF stage >= 5 THEN decision.id ELSE 0,
                 key |-> IF stage >= 5 THEN DocumentsKey ELSE {},
                 job |-> 0, body |-> "manual"]
<1>1. UNCHANGED <<meetings, recordings, requests, decision, signed, ai>>
  BY DEF SaveReport
<1>2. Rules!Touched \subseteq Rules!Scope["save_report"]
  BY <1>1, TouchesOnly, Scopes DEF ai, signed
<1>3. Jobs
  BY <1>1, JobsAlone DEF ai
<1>4. AddReport(stage, r)
  BY DEF SaveReport
<1>5. r \in Report
  <2>1. LatestReport(1) \in Nat /\ LatestRecording \in Nat
    BY Lists DEF LatestReport, LatestRecording, Stage
  <2>2. decision.id \in Nat
    BY DEF TypeOK
  <2>3. QED
    BY <2>1, <2>2, KeyType DEF Report
<1>6. /\ Rules!Appended(reports[stage], reports'[stage])
      /\ \A other \in Stage \ {stage} : reports'[other] = reports[other]
      /\ reports'[stage][Len(reports[stage]) + 1] = r
  BY <1>4, <1>5, AddReportEffect DEF Rules!Appended
<1>7. analysis' = IF stage = 1
                  THEN [report |-> LatestReport(1) + 1, admin |-> FALSE, partner |-> FALSE]
                  ELSE analysis
  BY <1>4 DEF AddReport, LatestReport
<1>8. /\ stage # 1 => LatestReport(1) # 0
      /\ stage = 4 => LatestRecording # 0
      /\ stage >= 5 => decision.id # 0
  BY SavedHasSources DEF SaveReport
<1>9. SavesReport
  <2> DEFINE new == reports'[stage][Len(reports[stage]) + 1]
  <2>1. /\ new.body = "manual" /\ new.job = 0
        /\ new.src = IF stage = 1 THEN 0 ELSE LatestReport(1)
        /\ new.rec = IF stage = 4 THEN LatestRecording ELSE 0
        /\ new.decision = IF stage >= 5 THEN decision.id ELSE 0
        /\ new.key = IF stage >= 5 THEN DocumentsKey ELSE {}
    BY <1>6
  <2> HIDE DEF new
  <2>2. QED
    BY <1>6, <1>7, <2>1 DEF SavesReport, Appended, new
<1>10. Rules!SaveReport
  <2> DEFINE new == reports'[stage][Len(reports[stage]) + 1]
  <2>1. new.body = "manual" /\ new.job = 0
    BY <1>6
  <2>2. IF stage = 1 THEN new.src = 0
        ELSE Rules!LatestFirst # 0 /\ new.src = Rules!LatestFirst
    BY <1>6, <1>8, SameNames
  <2>3. IF stage = 4 THEN Rules!LatestRecording # 0 /\ new.rec = Rules!LatestRecording
        ELSE new.rec = 0
    BY <1>6, <1>8, SameNames
  <2>4. IF stage >= 5
        THEN decision.id # 0 /\ new.decision = decision.id /\ new.key = Rules!RequiredKey
        ELSE new.decision = 0 /\ new.key = {}
    BY <1>6, <1>8, SameNames
  <2>5. stage \in Rules!Stage
    BY SameNames
  <2> HIDE DEF new
  <2>6. QED
    BY <1>6, <1>7, <2>1, <2>2, <2>3, <2>4, <2>5, SameNames DEF Rules!SaveReport, new
<1>11. QED
  BY <1>2, <1>3, <1>9, <1>10
  DEF Passes, Jobs, Accepted, CommandAccepted, Rules!Next, Rules!CommandStep

LEMMA DecisionPasses ==
  ASSUME TypeOK, NEW documents \in BOOLEAN, ConfirmSolutions(documents)
  PROVE  Passes
<1>1. UNCHANGED <<reports, analysis, meetings, recordings, requests, signed, ai>>
  BY DEF ConfirmSolutions
<1>2. Rules!Touched \subseteq Rules!Scope["confirm_solutions"]
  BY <1>1, TouchesOnly, Scopes DEF ai, signed
<1>3. Jobs
  BY <1>1, JobsAlone DEF ai
<1>4. PICK v \in DeepReports :
        /\ IsDeepReport(v)
        /\ decision' = [id |-> decision.id + 1, report |-> v, documents |-> documents]
  BY DEF ConfirmSolutions
<1>5. decision.id \in Nat
  BY DEF TypeOK
<1>6. decision'.id # decision.id /\ decision'.id # 0 /\ decision'.report = v
  BY <1>4, <1>5
<1>7. ConfirmsSolutions
  BY <1>4, <1>6 DEF ConfirmsSolutions, ConfirmSolutions
<1>8. Rules!ConfirmSolutions
  BY <1>4, <1>6, SameNames
  DEF Rules!ConfirmSolutions, ConfirmSolutions, IsDeepReport, DeepReports
<1>9. QED
  BY <1>2, <1>3, <1>7, <1>8
  DEF Passes, Jobs, Accepted, CommandAccepted, Rules!Next, Rules!CommandStep

LEMMA OneRequest ==
  ASSUME TypeOK, NEW i \in DOMAIN requests, NEW q, requests' = [requests EXCEPT ![i] = q]
  PROVE  Rules!OnlyTarget(requests, requests', i) /\ requests'[i] = q
<1>1. requests \in Seq(Request)
  BY DEF TypeOK
<1>2. Len(requests') = Len(requests)
  BY <1>1
<1>3. QED
  BY <1>1, <1>2 DEF Rules!OnlyTarget

LEMMA RequestPasses ==
  ASSUME TypeOK, NEW required \in BOOLEAN, RequestDocument(required)
  PROVE  Passes
<1> DEFINE new == [required |-> required, file |-> None, sent |-> FALSE,
                   status |-> "requested", reviews |-> 0, verified |-> 0]
<1>1. UNCHANGED <<reports, analysis, meetings, recordings, decision, signed, ai>>
  BY DEF RequestDocument
<1>2. Rules!Touched \subseteq Rules!Scope["request_document"]
  BY <1>1, TouchesOnly, Scopes DEF ai, signed
<1>3. Jobs
  BY <1>1, JobsAlone DEF ai
<1>4. Rules!Appended(requests, requests') /\ requests'[Len(requests) + 1] = new
  <2>1. requests' = Append(requests, new) /\ requests \in Seq(Request) /\ new \in Request
    BY DEF RequestDocument, TypeOK, Request
  <2>2. QED
    BY <2>1, AppendProperties, LenProperties DEF Rules!Appended
<1>5. RequestsDocument /\ Rules!RequestDocument
  BY <1>4, SameNames DEF RequestsDocument, Appended, RequestDocument, Rules!RequestDocument
<1>6. QED
  BY <1>2, <1>3, <1>5
  DEF Passes, Jobs, Accepted, CommandAccepted, Rules!Next, Rules!CommandStep

LEMMA SentPasses ==
  ASSUME TypeOK, NEW i \in DOMAIN requests, MarkRequestSent(i)
  PROVE  Passes
<1>1. UNCHANGED <<reports, analysis, meetings, recordings, decision, signed, ai>>
  BY DEF MarkRequestSent
<1>2. Rules!Touched \subseteq Rules!Scope["mark_request_sent"]
  BY <1>1, TouchesOnly, Scopes DEF ai, signed
<1>3. Jobs
  BY <1>1, JobsAlone DEF ai
<1>4. requests' = [requests EXCEPT ![i] = [requests[i] EXCEPT !.sent = TRUE]]
  BY DEF MarkRequestSent
<1>5. MarksSent(i) /\ Rules!MarkRequestSent(i)
  BY <1>4, OneRequest DEF MarksSent, OnlyTarget, Rules!MarkRequestSent
<1>6. QED
  BY <1>2, <1>3, <1>5
  DEF Passes, Jobs, Accepted, CommandAccepted, Rules!Next, Rules!CommandStep

LEMMA ReceiptPasses ==
  ASSUME TypeOK, NEW i \in DOMAIN requests, NEW file \in Documents, ReceiveDocument(i, file)
  PROVE  Passes
<1> DEFINE n == IF requests[i].file # file \/ requests[i].status # "received"
                THEN 0 ELSE requests[i].verified
           q == [requests[i] EXCEPT !.file = file, !.status = "received", !.verified = n]
<1>1. UNCHANGED <<reports, analysis, meetings, recordings, decision, signed, ai>>
  BY DEF ReceiveDocument
<1>2. Rules!Touched \subseteq Rules!Scope["receive_document"]
  BY <1>1, TouchesOnly, Scopes DEF ai, signed
<1>3. Jobs
  BY <1>1, JobsAlone DEF ai
<1>4. Rules!OnlyTarget(requests, requests', i) /\ requests'[i] = q
  <2>1. requests' = [requests EXCEPT ![i] = q]
    BY DEF ReceiveDocument
  <2>2. QED
    BY <2>1, OneRequest
<1>5. requests[i] \in Request /\ file # None /\ ~Contracted
  BY Lists, FlowAssumption DEF ReceiveDocument
<1>6. q.file = file /\ q.status = "received" /\ q.verified = n
      /\ q.required = requests[i].required /\ q.sent = requests[i].sent
  BY <1>5 DEF Request
<1>7. ReceivesDocument(i)
  BY <1>4, <1>5, <1>6 DEF ReceivesDocument, OnlyTarget
<1>8. Rules!ReceiveDocument(i)
  BY <1>4, <1>5, <1>6, SameNames DEF Rules!ReceiveDocument
<1>9. QED
  BY <1>2, <1>3, <1>7, <1>8
  DEF Passes, Jobs, Accepted, CommandAccepted, Rules!Next, Rules!CommandStep

\* That a new approval is not the old one rests on the numbers of the reviews.
LEMMA ReviewPasses ==
  ASSUME TypeOK, ReviewsNumbered, NEW i \in DOMAIN requests, NEW approved \in BOOLEAN,
         ReviewDocument(i, approved)
  PROVE  Passes
<1> DEFINE n == requests[i].reviews + 1
           st == IF approved THEN "verified" ELSE "needs_fix"
           v == IF approved THEN n ELSE 0
           q == [requests[i] EXCEPT !.status = st, !.reviews = n, !.verified = v]
<1>1. UNCHANGED <<reports, analysis, meetings, recordings, decision, signed, ai>>
  BY DEF ReviewDocument
<1>2. Rules!Touched \subseteq Rules!Scope["review_document"]
  BY <1>1, TouchesOnly, Scopes DEF ai, signed
<1>3. Jobs
  BY <1>1, JobsAlone DEF ai
<1>4. Rules!OnlyTarget(requests, requests', i) /\ requests'[i] = q
  <2>1. requests' = [requests EXCEPT ![i] = q]
    BY DEF ReviewDocument
  <2>2. QED
    BY <2>1, OneRequest
<1>5. /\ requests[i] \in Request /\ ~Contracted
      /\ requests[i].status # "requested" /\ requests[i].file # None
      /\ requests[i].verified <= requests[i].reviews
  BY Lists DEF ReviewDocument, ReviewsNumbered
<1>6. requests[i].reviews \in Nat /\ requests[i].verified \in Nat
      /\ n # requests[i].reviews /\ n \notin {0, requests[i].verified}
  BY <1>5 DEF Request
<1>7. /\ q.status = st /\ q.reviews = n /\ q.verified = v /\ q.file = requests[i].file
      /\ q.required = requests[i].required /\ q.sent = requests[i].sent
  BY <1>5 DEF Request
<1>8. ReviewsDocument(i)
  <2>1. approved <=> st = "verified"
    OBVIOUS
  <2>2. q = [requests[i] EXCEPT !.status = q.status, !.reviews = q.reviews,
               !.verified = IF q.status = "verified" THEN q.reviews ELSE 0]
    BY <1>7, <2>1
  <2> HIDE DEF q, n, v
  <2>3. QED
    BY <1>4, <1>5, <1>6, <1>7, <2>2 DEF ReviewsDocument, OnlyTarget
<1>9. Rules!ReviewDocument(i)
  BY <1>4, <1>5, <1>6, <1>7, SameNames DEF Rules!ReviewDocument
<1>10. QED
  BY <1>2, <1>3, <1>8, <1>9
  DEF Passes, Jobs, Accepted, CommandAccepted, Rules!Next, Rules!CommandStep

LEMMA MoneyPasses ==
  ASSUME TypeOK, StageInv, (\E amount \in 1 .. MaxDeposit : ConfirmPayment(amount)) \/ StartAftercare
  PROVE  Passes
<1>1. UNCHANGED <<evidence, contract, ai>>
  BY DEF ConfirmPayment, StartAftercare
<1>2. Jobs
  BY <1>1, JobsAlone DEF ai
<1>3. ASSUME NEW amount \in 1 .. MaxDeposit, ConfirmPayment(amount)
      PROVE  Passes
  <2>1. Rules!Touched \subseteq Rules!Scope["confirm_payment"]
    BY <1>1, <1>3, TouchesOnly, Scopes DEF ai, evidence, ConfirmPayment
  <2>2. paid' > paid /\ paid' = paid + amount
    BY <1>3, FlowAssumption DEF ConfirmPayment, TypeOK
  <2>3. ConfirmsPayment /\ Rules!ConfirmPayment
    BY <1>3, <2>2, SameNames DEF ConfirmsPayment, ConfirmPayment, Rules!ConfirmPayment
  <2>4. QED
    BY <1>2, <2>1, <2>3
    DEF Passes, Jobs, Accepted, CommandAccepted, Rules!Next, Rules!CommandStep
<1>4. CASE StartAftercare
  <2>1. Rules!Touched \subseteq Rules!Scope["start_aftercare"]
    BY <1>1, <1>4, TouchesOnly, Scopes DEF ai, evidence, StartAftercare
  <2>2. execution
    BY <1>4 DEF StartAftercare, StageInv, ExecutionIsPaid
  <2>3. StartsAftercare /\ Rules!StartAftercare
    BY <1>4, <2>2, SameNames
    DEF StartsAftercare, StartAftercare, DepositComplete, Rules!StartAftercare
  <2>4. QED
    BY <1>2, <2>1, <2>3
    DEF Passes, Jobs, Accepted, CommandAccepted, Rules!Next, Rules!CommandStep
<1>5. QED
  BY <1>3, <1>4

-----------------------------------------------------------------------------
(* Commands that add or move jobs *)

\* A job made by a command: the sources of a new fourth-stage job are the newest.
LEMMA AddedJob ==
  ASSUME TypeOK, NEW job \in Job, jobs' = Append(jobs, job),
         job.status \in {"queued", "blocked"}, job.lease = 0,
         \/ job.stage = 1 /\ job.rec = 0 /\ job.src = 0
         \/ /\ job.stage = 4
            /\ job.rec = Len(recordings') /\ recordings' # <<>>
            /\ job.src = Len(reports'[1]) /\ reports'[1] # <<>>
  PROVE  Jobs /\ Rules!Appended(jobs, jobs') /\ jobs'[Len(jobs) + 1] = job
<1>1. /\ Len(jobs) \in Nat /\ DOMAIN jobs = 1 .. Len(jobs)
      /\ Len(jobs') = Len(jobs) + 1 /\ DOMAIN jobs' = 1 .. (Len(jobs) + 1)
      /\ \A j \in DOMAIN jobs : jobs'[j] = jobs[j]
      /\ jobs'[Len(jobs) + 1] = job
  BY Lists, AppendProperties, LenProperties DEF TypeOK
<1>2. DOMAIN jobs \subseteq DOMAIN jobs' /\ DOMAIN jobs' \ DOMAIN jobs = {Len(jobs) + 1}
  BY <1>1
<1>3. Rules!JobsAdmitted /\ Rules!NoAiTransition
  <2>1. Rules!JobsTransition
    BY <1>1, <1>2 DEF Rules!JobsTransition
  <2>2. Rules!JobIdentity /\ Rules!JobStatus /\ Rules!NoAiTransition
    BY <1>1 DEF Rules!JobIdentity, Rules!JobStatus, Rules!NoAiTransition
  <2>3. Rules!JobLifecycle
    BY <1>1 DEF Rules!JobLifecycle
  <2>4. Rules!JobCreation
    BY <1>1, <1>2 DEF Rules!JobCreation
  <2>5. QED
    BY <2>1, <2>2, <2>3, <2>4 DEF Rules!JobsAdmitted
<1>4. JobsAccepted
  <2>1. ASSUME NEW j \in DOMAIN jobs
        PROVE  /\ [jobs'[j] EXCEPT !.status = jobs[j].status, !.lease = jobs[j].lease] = jobs[j]
               /\ KeepsLifecycle(jobs[j], jobs'[j])
    <3>1. jobs'[j] = jobs[j] /\ jobs[j] \in Job
      BY <1>1, Lists
    <3>2. QED
      BY <3>1 DEF Job, KeepsLifecycle
  <2>2. \A j \in DOMAIN jobs' \ DOMAIN jobs : NewJobOK(jobs'[j])
    BY <1>1, <1>2 DEF NewJobOK
  <2>3. QED
    BY <1>2, <2>1, <2>2 DEF JobsAccepted
<1>5. \A j \in DOMAIN jobs : ~Started(j) /\ ~Finished(j)
  BY <1>1 DEF Started, Finished
<1>6. Rules!Appended(jobs, jobs')
  BY <1>1 DEF Rules!Appended
<1>7. QED
  BY <1>1, <1>3, <1>4, <1>5, <1>6 DEF Jobs

\* How a command moves a job: it waits, or waits for the administrator.
CommandMove(was, is) ==
  \/ is = was
  \/ \E st \in {"queued", "blocked"} :
       /\ is = [was EXCEPT !.status = st, !.lease = 0]
       /\ IF st = "queued" THEN was.status \in {"blocked", "failed", "processing"}
          ELSE was.status \in {"queued", "blocked"}

LEMMA MovedJobs ==
  ASSUME TypeOK, DOMAIN jobs' = DOMAIN jobs,
         \A j \in DOMAIN jobs : CommandMove(jobs[j], jobs'[j])
  PROVE  Jobs
<1>1. ASSUME NEW j \in DOMAIN jobs
      PROVE  /\ jobs'[j] \in Job
             /\ [jobs'[j] EXCEPT !.status = jobs[j].status, !.lease = jobs[j].lease] = jobs[j]
             /\ jobs'[j].stage = jobs[j].stage
             /\ jobs'[j].rec = jobs[j].rec /\ jobs'[j].src = jobs[j].src
             /\ \/ jobs'[j].status = jobs[j].status /\ jobs'[j].lease = jobs[j].lease
                \/ /\ jobs[j].status \in {"blocked", "failed", "processing"}
                   /\ jobs'[j].status = "queued" /\ jobs'[j].lease = 0
                \/ /\ jobs[j].status \in {"queued", "blocked"}
                   /\ jobs'[j].status = "blocked" /\ jobs'[j].lease = 0
  <2>1. jobs[j] \in Job /\ CommandMove(jobs[j], jobs'[j])
    BY Lists
  <2>2. CASE jobs'[j] = jobs[j]
    BY <2>1, <2>2 DEF Job
  <2>3. ASSUME NEW st \in {"queued", "blocked"},
               jobs'[j] = [jobs[j] EXCEPT !.status = st, !.lease = 0],
               IF st = "queued" THEN jobs[j].status \in {"blocked", "failed", "processing"}
               ELSE jobs[j].status \in {"queued", "blocked"}
        PROVE  /\ jobs'[j] \in Job
               /\ [jobs'[j] EXCEPT !.status = jobs[j].status, !.lease = jobs[j].lease] = jobs[j]
               /\ jobs'[j].stage = jobs[j].stage
               /\ jobs'[j].rec = jobs[j].rec /\ jobs'[j].src = jobs[j].src
               /\ jobs'[j].status = st /\ jobs'[j].lease = 0
    <3>1. /\ jobs'[j] \in Job
          /\ jobs'[j].stage = jobs[j].stage
          /\ jobs'[j].rec = jobs[j].rec /\ jobs'[j].src = jobs[j].src
          /\ jobs'[j].status = st /\ jobs'[j].lease = 0
      <4> DEFINE is == [jobs[j] EXCEPT !.status = st, !.lease = 0]
      <4>1. jobs[j] \in Job
        BY <2>1
      <4>2. /\ is \in Job /\ is.stage = jobs[j].stage /\ is.rec = jobs[j].rec
            /\ is.src = jobs[j].src /\ is.status = st /\ is.lease = 0
        BY <4>1 DEF Job
      <4>3. jobs'[j] = is
        BY <2>3
      <4> HIDE DEF is
      <4>4. QED
        BY <4>2, <4>3
    <3>2. [jobs'[j] EXCEPT !.status = jobs[j].status, !.lease = jobs[j].lease] \in Job
      BY <2>1, <3>1 DEF Job
    <3>3. [jobs'[j] EXCEPT !.status = jobs[j].status, !.lease = jobs[j].lease] = jobs[j]
      BY <2>1, <3>1, <3>2 DEF Job
    <3>4. QED
      BY <3>1, <3>3
  <2>4. QED
    BY <2>1, <2>2, <2>3 DEF CommandMove
<1>2. \A j \in DOMAIN jobs : KeepsLifecycle(jobs[j], jobs'[j])
  BY <1>1 DEF KeepsLifecycle
<1>3. JobsAccepted
  BY <1>1, <1>2 DEF JobsAccepted
<1>4. Rules!JobIdentity /\ Rules!JobStatus /\ Rules!JobsTransition /\ Rules!JobCreation
  BY <1>1 DEF Rules!JobIdentity, Rules!JobStatus, Rules!JobsTransition, Rules!JobCreation
<1>5. Rules!JobLifecycle
  BY <1>1 DEF Rules!JobLifecycle
<1>6. Rules!NoAiTransition /\ \A j \in DOMAIN jobs : ~Started(j) /\ ~Finished(j)
  BY <1>1 DEF Rules!NoAiTransition, Started, Finished
<1>7. QED
  BY <1>3, <1>4, <1>5, <1>6 DEF Jobs, Rules!JobsAdmitted

LEMMA PolicyPasses ==
  ASSUME TypeOK, JobsWait, NEW on \in BOOLEAN, SetAiPolicy(on)
  PROVE  Passes
<1>1. UNCHANGED <<evidence, signed, source>>
  BY DEF SetAiPolicy
<1>2. Rules!Touched \subseteq Rules!Scope["set_ai_policy"]
  BY <1>1, TouchesOnly, Scopes DEF evidence, signed
<1>3. SetsPolicy /\ Rules!SetAiPolicy
  BY DEF SetAiPolicy, SetsPolicy, Rules!SetAiPolicy
<1>4. DOMAIN jobs' = DOMAIN jobs
  BY DEF SetAiPolicy
<1>5. ASSUME NEW j \in DOMAIN jobs
      PROVE  CommandMove(jobs[j], jobs'[j])
  <2>1. jobs[j] \in Job /\ (jobs[j].status = "queued" => jobs[j].lease = 0)
    BY Lists DEF JobsWait
  <2>2. CASE ~on /\ jobs[j].status = "queued"
    <3>1. jobs'[j] = [jobs[j] EXCEPT !.status = "blocked"]
      BY <2>2 DEF SetAiPolicy
    <3>2. jobs'[j] = [jobs[j] EXCEPT !.status = "blocked", !.lease = 0]
      BY <2>1, <2>2, <3>1 DEF Job
    <3>3. QED
      BY <2>2, <3>2 DEF CommandMove
  <2>3. CASE ~(~on /\ jobs[j].status = "queued")
    BY <2>3 DEF SetAiPolicy, CommandMove
  <2>4. QED
    BY <2>2, <2>3
<1>6. Jobs
  BY <1>4, <1>5, MovedJobs
<1>7. QED
  BY <1>2, <1>3, <1>6
  DEF Passes, Jobs, Accepted, CommandAccepted, Rules!Next, Rules!CommandStep

LEMMA QueuePasses ==
  ASSUME TypeOK, QueueReport1
  PROVE  Passes
<1> DEFINE job == [stage |-> 1, rec |-> 0, src |-> 0, lease |-> 0,
                   status |-> IF enabled /\ TRUE THEN "queued" ELSE "blocked"]
<1>1. UNCHANGED <<evidence, signed, enabled, source>>
  BY DEF QueueReport1
<1>2. Rules!Touched \subseteq Rules!Scope["queue_report1"]
  BY <1>1, TouchesOnly, Scopes DEF evidence, signed
<1>3. jobs' = Append(jobs, job) /\ job \in Job
  BY DEF QueueReport1, CreateJob, Job
<1>4. Jobs /\ Rules!Appended(jobs, jobs') /\ jobs'[Len(jobs) + 1] = job
  BY <1>3, AddedJob
<1>5. QueuesReport1 /\ Rules!QueueReport1
  BY <1>1, <1>3, <1>4 DEF QueuesReport1, AddsJob, Rules!QueueReport1, Rules!NewJob
<1>6. QED
  BY <1>2, <1>4, <1>5
  DEF Passes, Jobs, Accepted, CommandAccepted, Rules!Next, Rules!CommandStep

\* A recording follows a completed meeting, so the first report exists.
LEMMA RecordingPasses ==
  ASSUME TypeOK, StageInv, NEW m \in DOMAIN meetings, NEW t \in Transcripts \cup {None},
         SaveRecording(m, t)
  PROVE  Passes
<1> DEFINE job == [stage |-> 4, rec |-> Len(recordings) + 1, src |-> LatestReport(1),
                   lease |-> 0, status |-> IF enabled /\ t # None THEN "queued" ELSE "blocked"]
           new == [meeting |-> m, transcript |-> t]
<1>1. UNCHANGED <<reports, analysis, meetings, requests, decision, signed, enabled, source>>
  BY DEF SaveRecording
<1>2. Rules!Touched \subseteq Rules!Scope["save_recording"]
  BY <1>1, TouchesOnly, Scopes DEF signed
<1>3. /\ Len(recordings') = Len(recordings) + 1 /\ Len(recordings) \in Nat
      /\ Rules!Appended(recordings, recordings') /\ recordings'[Len(recordings) + 1] = new
  <2>1. recordings' = Append(recordings, new) /\ recordings \in Seq(Recording)
        /\ new \in Recording
    BY Lists DEF SaveRecording, TypeOK, Recording
  <2>2. QED
    BY <2>1, AppendProperties, LenProperties DEF Rules!Appended
<1>4. LatestReport(1) # 0 /\ LatestReport(1) \in Nat
  <2>1. meetings[m].status = "completed"
    BY DEF SaveRecording
  <2>2. FirstCompleted
    BY <2>1 DEF StageInv, StagesInOrder, FirstCompleted
  <2>3. QED
    BY <2>2, Lists DEF StageInv, FirstMeetingWasPrepared, AnalysisDone, LatestReport, Stage
<1>5. jobs' = Append(jobs, job) /\ job \in Job
  BY <1>3, <1>4 DEF SaveRecording, CreateJob, Job
<1>6. /\ recordings' # <<>> /\ reports'[1] # <<>>
      /\ LatestReport(1) = Len(reports'[1])
  BY <1>1, <1>3, <1>4 DEF LatestReport
<1>7. Jobs /\ Rules!Appended(jobs, jobs') /\ jobs'[Len(jobs) + 1] = job
  BY <1>3, <1>5, <1>6, AddedJob
<1>8. SavesRecording
  BY <1>1, <1>3, <1>5 DEF SaveRecording, SavesRecording, AddsJob, Appended, LatestRecording
<1>9. Rules!SaveRecording
  BY <1>3, <1>4, <1>7, SameNames
  DEF SaveRecording, Rules!SaveRecording, Rules!NewJob, LatestRecording
<1>10. QED
  BY <1>2, <1>7, <1>8, <1>9
  DEF Passes, Jobs, Accepted, CommandAccepted, Rules!Next, Rules!CommandStep

LEMMA TranscriptPasses ==
  ASSUME TypeOK, JobsWait, NEW t \in Transcripts, SaveTranscript(t)
  PROVE  Passes
<1> DEFINE n == LatestRecording
<1>1. UNCHANGED <<reports, analysis, meetings, requests, decision, signed, enabled, source>>
  BY DEF SaveTranscript
<1>2. Rules!Touched \subseteq Rules!Scope["save_transcript"]
  BY <1>1, TouchesOnly, Scopes DEF signed
<1>3. n \in DOMAIN recordings /\ n # 0 /\ recordings[n] \in Recording
  <2>1. Len(recordings) # 0 /\ n = Len(recordings)
    BY DEF SaveTranscript, LatestRecording
  <2>2. Len(recordings) \in Nat /\ DOMAIN recordings = 1 .. Len(recordings)
    BY Lists
  <2>3. n \in DOMAIN recordings /\ n # 0
    BY <2>1, <2>2
  <2>4. QED
    BY <2>3, Lists
<1>4. /\ Rules!OnlyTarget(recordings, recordings', n)
      /\ recordings'[n] = [recordings[n] EXCEPT !.transcript = t]
  <2>1. recordings' = [recordings EXCEPT ![n].transcript = t] /\ recordings \in Seq(Recording)
    BY DEF SaveTranscript, TypeOK
  <2>2. Len(recordings') = Len(recordings)
    BY <2>1
  <2>3. QED
    BY <1>3, <2>1, <2>2 DEF Rules!OnlyTarget
<1>5. /\ recordings'[n].transcript = t /\ recordings'[n].meeting = recordings[n].meeting
      /\ recordings'[n] # recordings[n]
  BY <1>3, <1>4 DEF SaveTranscript, Recording
<1>6. \A j \in DOMAIN jobs :
        jobs[j].rec = n <=> /\ jobs[j].rec = n
                            /\ \A k \in DOMAIN jobs : jobs[k].rec = n => k <= j
  BY <1>3, Lists DEF JobsWait
<1>7. jobs' = [j \in DOMAIN jobs |->
                IF jobs[j].rec = n /\ (jobs[j].status = "failed" => enabled)
                THEN [jobs[j] EXCEPT !.status = IF enabled THEN "queued" ELSE "blocked",
                                     !.lease = 0]
                ELSE jobs[j]]
  BY DEF SaveTranscript
<1>8. Rules!SaveTranscript
  <2>1. Rules!TranscriptJobs
    BY <1>6, <1>7, SameNames DEF Rules!TranscriptJobs, Rules!Again
  <2>2. QED
    BY <1>4, <1>5, <2>1, SameNames DEF Rules!SaveTranscript, Rules!TranscriptTarget
<1>9. SavesTranscript
  <2>1. enabled' = enabled
    BY <1>1
  <2>2. QED
    BY <1>4, <1>5, <1>6, <1>7, <2>1 DEF SavesTranscript, OnlyTarget
<1>10. ASSUME NEW j \in DOMAIN jobs
       PROVE  CommandMove(jobs[j], jobs'[j])
  <2>1. jobs[j] \in Job /\ (jobs[j].status = "queued" => jobs[j].lease = 0)
    BY Lists DEF JobsWait
  <2>2. CASE jobs[j].rec = n /\ (jobs[j].status = "failed" => enabled)
    <3>1. jobs'[j] = [jobs[j] EXCEPT !.status = IF enabled THEN "queued" ELSE "blocked",
                                     !.lease = 0]
      BY <1>7, <2>2
    <3>2. jobs[j].status \notin {"processing", "complete"}
      BY <2>2 DEF SaveTranscript
    <3>3. jobs[j].status \in {"queued", "blocked"} \/ (jobs[j].status = "failed" /\ enabled)
      BY <2>1, <2>2, <3>2 DEF Job
    <3>4. CASE enabled /\ jobs[j].status = "queued"
      <4>1. jobs'[j] = [jobs[j] EXCEPT !.status = "queued", !.lease = 0]
            /\ jobs[j].status = "queued" /\ jobs[j].lease = 0
        BY <2>1, <3>1, <3>4
      <4>2. [jobs[j] EXCEPT !.status = "queued"] = jobs[j]
        BY <2>1, <4>1 DEF Job
      <4>3. [jobs[j] EXCEPT !.lease = 0] = jobs[j]
        BY <2>1, <4>1 DEF Job
      <4>4. jobs'[j] = jobs[j]
        BY <4>1, <4>2, <4>3
      <4>5. QED
        BY <4>4 DEF CommandMove
    <3>5. CASE ~(enabled /\ jobs[j].status = "queued")
      BY <3>1, <3>3, <3>5 DEF CommandMove
    <3>6. QED
      BY <3>4, <3>5
  <2>3. CASE ~(jobs[j].rec = n /\ (jobs[j].status = "failed" => enabled))
    BY <1>7, <2>3 DEF CommandMove
  <2>4. QED
    BY <2>2, <2>3
<1>11. Jobs
  BY <1>7, <1>10, MovedJobs
<1>12. QED
  BY <1>2, <1>8, <1>9, <1>11
  DEF Passes, Jobs, Accepted, CommandAccepted, Rules!Next, Rules!CommandStep

LEMMA RetryPasses ==
  ASSUME TypeOK, NEW j \in DOMAIN jobs, RetryJob(j)
  PROVE  Passes
<1>1. UNCHANGED <<evidence, signed, enabled, source>>
  BY DEF RetryJob
<1>2. Rules!Touched \subseteq Rules!Scope["retry_job"]
  BY <1>1, TouchesOnly, Scopes DEF evidence, signed
<1>3. /\ jobs[j].status \in {"blocked", "failed", "processing"}
      /\ jobs' = [jobs EXCEPT ![j].status = "queued", ![j].lease = 0]
  BY DEF RetryJob
<1>4. jobs' = [jobs EXCEPT ![j] = [jobs[j] EXCEPT !.status = "queued", !.lease = 0]]
  BY <1>3, Lists
<1>5. \A k \in DOMAIN jobs : CommandMove(jobs[k], jobs'[k])
  BY <1>3, <1>4 DEF CommandMove
<1>6. Jobs
  BY <1>4, <1>5, MovedJobs
<1>7. RetriesJob
  BY <1>3 DEF RetriesJob
<1>8. Rules!RetryJob
  BY <1>3, <1>4 DEF Rules!RetryJob, Rules!Again
<1>9. QED
  BY <1>2, <1>6, <1>7, <1>8
  DEF Passes, Jobs, Accepted, CommandAccepted, Rules!Next, Rules!CommandStep

-----------------------------------------------------------------------------
(* Steps of an AI run *)

\* How a run moves the job it found or owns.
RunMove(was, is) ==
  \/ /\ was.status = "queued" /\ is.status = "processing" /\ is.lease # 0
  \/ /\ was.status = "queued" /\ is.status = "blocked" /\ is.lease = was.lease
  \/ /\ was.status = "processing" /\ is.status \in {"blocked", "failed", "complete"}
     /\ is.lease = was.lease

LEMMA RunMoved ==
  ASSUME TypeOK, JobsWait, NEW j \in DOMAIN jobs,
         NEW st \in {"processing", "blocked", "failed", "complete"}, NEW l \in Nat,
         jobs' = [jobs EXCEPT ![j] = [jobs[j] EXCEPT !.status = st, !.lease = l]],
         RunMove(jobs[j], [jobs[j] EXCEPT !.status = st, !.lease = l])
  PROVE  /\ Rules!JobsAdmitted /\ JobsAccepted
         /\ Rules!NonCommandTarget(j) /\ Rules!NonCommandTransition(j)
         /\ Rules!OnlyTarget(jobs, jobs', j) /\ jobs'[j].status = st
         /\ Started(j) \/ Finished(j) \/ (jobs[j].status = "queued" /\ jobs'[j].status = "blocked")
<1> DEFINE is == [jobs[j] EXCEPT !.status = st, !.lease = l]
<1>1. /\ jobs[j] \in Job /\ (jobs[j].status = "queued" => jobs[j].lease = 0)
      /\ jobs \in Seq(Job)
  BY Lists DEF JobsWait, TypeOK
<1>2. /\ is \in Job /\ is.stage = jobs[j].stage /\ is.rec = jobs[j].rec
      /\ is.src = jobs[j].src /\ is.status = st /\ is.lease = l
      /\ [is EXCEPT !.status = jobs[j].status, !.lease = jobs[j].lease] = jobs[j]
  <2>1. /\ is \in Job /\ is.stage = jobs[j].stage /\ is.rec = jobs[j].rec
        /\ is.src = jobs[j].src /\ is.status = st /\ is.lease = l
    BY <1>1 DEF Job
  <2>2. [is EXCEPT !.status = jobs[j].status, !.lease = jobs[j].lease] \in Job
    BY <1>1, <2>1 DEF Job
  <2>3. [is EXCEPT !.status = jobs[j].status, !.lease = jobs[j].lease] = jobs[j]
    BY <1>1, <2>2 DEF Job
  <2>4. QED
    BY <2>1, <2>3
<1>3. jobs' = [jobs EXCEPT ![j] = is] /\ RunMove(jobs[j], is)
  OBVIOUS
<1> HIDE DEF is
<1>4. /\ DOMAIN jobs' = DOMAIN jobs /\ Len(jobs') = Len(jobs)
      /\ jobs'[j] = is /\ \A k \in DOMAIN jobs : k # j => jobs'[k] = jobs[k]
  BY <1>1, <1>3
<1>5. RunMove(jobs[j], jobs'[j])
  BY <1>3, <1>4
<1>6. Rules!OnlyTarget(jobs, jobs', j)
  BY <1>4 DEF Rules!OnlyTarget
<1>7. Rules!NonCommandTarget(j) /\ Rules!NonCommandTransition(j)
  BY <1>5, <1>6 DEF Rules!NonCommandTarget, Rules!NonCommandTransition, RunMove
<1>8. Rules!JobsAdmitted
  <2>1. Rules!JobsTransition /\ Rules!JobCreation
    BY <1>4 DEF Rules!JobsTransition, Rules!JobCreation
  <2>2. Rules!JobIdentity
    BY <1>2, <1>4 DEF Rules!JobIdentity
  <2>3. Rules!JobStatus
    BY <1>4, <1>5 DEF Rules!JobStatus, RunMove
  <2>4. Rules!JobLifecycle
    BY <1>1, <1>4, <1>5 DEF Rules!JobLifecycle, RunMove
  <2>5. QED
    BY <2>1, <2>2, <2>3, <2>4 DEF Rules!JobsAdmitted
<1>9. JobsAccepted
  <2>1. ASSUME NEW k \in DOMAIN jobs
        PROVE  /\ [jobs'[k] EXCEPT !.status = jobs[k].status, !.lease = jobs[k].lease] = jobs[k]
               /\ KeepsLifecycle(jobs[k], jobs'[k])
    <3>1. CASE k = j
      BY <1>1, <1>2, <1>4, <1>5, <3>1 DEF KeepsLifecycle, RunMove
    <3>2. CASE k # j
      <4>1. jobs'[k] = jobs[k] /\ jobs[k] \in Job
        BY <1>4, <3>2, Lists
      <4>2. QED
        BY <4>1 DEF Job, KeepsLifecycle
    <3>3. QED
      BY <3>1, <3>2
  <2>2. QED
    BY <1>4, <2>1 DEF JobsAccepted
<1>10. Started(j) \/ Finished(j) \/ (jobs[j].status = "queued" /\ jobs'[j].status = "blocked")
  BY <1>5 DEF Started, Finished, RunMove
<1>11. QED
  BY <1>2, <1>4, <1>6, <1>7, <1>8, <1>9, <1>10

\* A step that moves one job and nothing else, and does not complete it.
LEMMA MovePasses ==
  ASSUME TypeOK, JobsWait, NEW j \in DOMAIN jobs,
         NEW st \in {"processing", "blocked", "failed"}, NEW l \in Nat,
         jobs' = [jobs EXCEPT ![j] = [jobs[j] EXCEPT !.status = st, !.lease = l]],
         RunMove(jobs[j], [jobs[j] EXCEPT !.status = st, !.lease = l]),
         UNCHANGED <<evidence, signed, enabled, source>>
  PROVE  Passes
<1>1. Rules!Touched \subseteq {"jobs"}
  BY TouchesOnly DEF evidence, signed
<1>2. /\ Rules!JobsAdmitted /\ JobsAccepted
      /\ Rules!NonCommandTarget(j) /\ Rules!NonCommandTransition(j)
      /\ Rules!OnlyTarget(jobs, jobs', j) /\ jobs'[j].status = st
      /\ Started(j) \/ Finished(j) \/ (jobs[j].status = "queued" /\ jobs'[j].status = "blocked")
  BY RunMoved
<1>3. ~Rules!Completes(j) /\ jobs'[j].status # "complete"
  BY <1>2 DEF Rules!Completes
<1>4. Rules!NonCommandScope(j)
  BY <1>1, <1>3 DEF Rules!NonCommandScope
<1>5. RunAccepted
  BY <1>1, <1>2, <1>3 DEF RunAccepted, OnlyTarget
<1>6. Rules!AiStep
  BY <1>2, <1>3, <1>4 DEF Rules!AiStep
<1>7. QED
  BY <1>2, <1>5, <1>6 DEF Passes, Accepted, Rules!Next

LEMMA ClaimPasses ==
  ASSUME TypeOK, JobsWait, NEW r \in Runners, NEW j \in DOMAIN jobs, Claim(r, j)
  PROVE  Passes
<1>1. /\ jobs[j] \in Job /\ jobs[j].status = "queued" /\ jobs[j].lease = 0
      /\ UNCHANGED <<evidence, signed, enabled, source>> /\ claims \in Nat
  BY Lists DEF Claim, FirstQueued, JobsWait, TypeOK
<1>2. CASE JobIsCurrent(j)
  <2> DEFINE is == [jobs[j] EXCEPT !.status = "processing", !.lease = claims + 1]
  <2>1. jobs' = [jobs EXCEPT ![j] = is]
    BY <1>2, Lists DEF Claim
  <2>2. is.status = "processing" /\ is.lease = claims + 1
    BY <1>1 DEF Job
  <2>3. RunMove(jobs[j], is) /\ claims + 1 \in Nat
    BY <1>1, <2>2 DEF RunMove
  <2>4. QED
    BY <1>1, <2>1, <2>3, MovePasses
<1>3. CASE ~JobIsCurrent(j)
  <2> DEFINE is == [jobs[j] EXCEPT !.status = "blocked", !.lease = 0]
  <2>1. jobs' = [jobs EXCEPT ![j] = [jobs[j] EXCEPT !.status = "blocked"]]
    BY <1>3, Lists DEF Claim
  <2>2. [jobs[j] EXCEPT !.status = "blocked"] = is
    BY <1>1 DEF Job
  <2>3. is.status = "blocked" /\ is.lease = 0
    BY <1>1 DEF Job
  <2>4. RunMove(jobs[j], is)
    BY <1>1, <2>3 DEF RunMove
  <2>5. jobs' = [jobs EXCEPT ![j] = is] /\ 0 \in Nat
    BY <2>1, <2>2
  <2>6. QED
    BY <1>1, <2>4, <2>5, MovePasses
<1>4. QED
  BY <1>2, <1>3

LEMMA FailurePasses ==
  ASSUME TypeOK, JobsWait, NEW r \in Runners, StoreFailure(r)
  PROVE  Passes
<1> DEFINE j == runners[r].job
<1>1. /\ j \in DOMAIN jobs /\ jobs[j].status = "processing"
      /\ UNCHANGED <<evidence, signed, enabled, source>>
  BY DEF StoreFailure, Keep
<1>2. jobs[j] \in Job /\ jobs[j].lease \in Nat
  BY <1>1, Lists DEF Job
<1>3. \E st \in {"failed", "blocked"} : jobs' = [jobs EXCEPT ![j].status = st]
  BY DEF StoreFailure
<1>4. PICK st \in {"failed", "blocked"} : jobs' = [jobs EXCEPT ![j].status = st]
  BY <1>3
<1> DEFINE is == [jobs[j] EXCEPT !.status = st, !.lease = jobs[j].lease]
<1>5. jobs' = [jobs EXCEPT ![j] = [jobs[j] EXCEPT !.status = st]]
  BY <1>1, <1>4, Lists
<1>6. [jobs[j] EXCEPT !.status = st] = is /\ is.status = st /\ is.lease = jobs[j].lease
  BY <1>2 DEF Job
<1>7. RunMove(jobs[j], is)
  BY <1>1, <1>6 DEF RunMove
<1>8. QED
  BY <1>1, <1>2, <1>5, <1>6, <1>7, MovePasses

\* The answer adds one report of the stage of its job, from the sources of the job.
LEMMA AnswerPasses ==
  ASSUME TypeOK, JobsWait, NEW r \in Runners, StoreAnswer(r)
  PROVE  Passes
<1> DEFINE j == runners[r].job
           stage == jobs[j].stage
           report == [src |-> jobs[j].src, rec |-> jobs[j].rec, decision |-> 0,
                      key |-> {}, job |-> j, body |-> runners[r].seen]
<1>1. /\ j \in DOMAIN jobs /\ jobs[j].status = "processing"
      /\ UNCHANGED <<meetings, recordings, requests, decision, signed, enabled, source>>
  BY DEF StoreAnswer, Keep
<1>2. jobs[j] \in Job /\ jobs[j].lease \in Nat /\ stage \in Stage /\ stage \in {1, 4}
  <2>1. jobs[j] \in Job
    BY <1>1, Lists
  <2>2. QED
    BY <2>1 DEF Job, Stage
<1>3. report \in Report
  <2>1. runners[r].seen \in Transcripts \cup Sources /\ j \in Nat
    BY <1>1, Lists DEF StoreAnswer, TypeOK, Runner
  <2>2. QED
    BY <1>2, <2>1 DEF Report, Job
<1>4. AddReport(stage, report)
  BY DEF StoreAnswer
<1>5. /\ Rules!Appended(reports[stage], reports'[stage])
      /\ \A other \in Stage \ {stage} : reports'[other] = reports[other]
      /\ reports'[stage][Len(reports[stage]) + 1] = report
  BY <1>2, <1>3, <1>4, AddReportEffect DEF Rules!Appended
<1>6. analysis' = IF stage = 1
                  THEN [report |-> LatestReport(1) + 1, admin |-> FALSE, partner |-> FALSE]
                  ELSE analysis
  BY <1>4 DEF AddReport, LatestReport
<1>7. /\ report.job = j /\ report.decision = 0 /\ report.key = {}
      /\ report.src = jobs[j].src /\ report.rec = jobs[j].rec
  OBVIOUS
<1> DEFINE is == [jobs[j] EXCEPT !.status = "complete", !.lease = jobs[j].lease]
<1>8. jobs' = [jobs EXCEPT ![j] = is]
  <2>1. jobs' = [jobs EXCEPT ![j] = [jobs[j] EXCEPT !.status = "complete"]]
    BY <1>1, Lists DEF StoreAnswer
  <2>2. [jobs[j] EXCEPT !.status = "complete"] = is
    BY <1>2 DEF Job
  <2>3. QED
    BY <2>1, <2>2
<1>9. RunMove(jobs[j], is)
  BY <1>1, <1>2 DEF RunMove, Job
<1>10. /\ Rules!JobsAdmitted /\ JobsAccepted
       /\ Rules!NonCommandTarget(j) /\ Rules!NonCommandTransition(j)
       /\ Rules!OnlyTarget(jobs, jobs', j) /\ jobs'[j].status = "complete"
       /\ Started(j) \/ Finished(j) \/ (jobs[j].status = "queued" /\ jobs'[j].status = "blocked")
  BY <1>1, <1>2, <1>8, <1>9, RunMoved
<1>11. Rules!Touched \subseteq {"jobs", "reports", "analysis"}
  BY <1>1, TouchesOnly DEF signed
<1> HIDE DEF j, report
<1>12. ResultAccepted(j)
  BY <1>5, <1>6, <1>7 DEF ResultAccepted, Appended
<1>13. Rules!AiResultReport(j)
  BY <1>5, <1>6, <1>7, SameNames DEF Rules!AiResultReport
<1>14. RunAccepted
  BY <1>1, <1>10, <1>11, <1>12 DEF RunAccepted, OnlyTarget
<1>15. Rules!AiStep
  BY <1>1, <1>10, <1>11, <1>13 DEF Rules!AiStep, Rules!NonCommandScope, Rules!Completes
<1>16. QED
  BY <1>10, <1>14, <1>15 DEF Passes, Accepted, Rules!Next

-----------------------------------------------------------------------------
(* The strengthening, and the theorems *)

\* What a command does to the jobs, for JobsWait: no lease on a job that waits, and
\* a job on a recording is the only one on it.
LEMMA JobsWaitKept ==
  ASSUME TypeOK, JobsRefer, StoreInv, Next
  PROVE  JobsWait'
<1>1. JobsWait /\ \A j \in DOMAIN jobs : jobs[j] \in Job
  BY Lists DEF StoreInv
<1>2. ASSUME jobs' = jobs PROVE JobsWait'
  BY <1>1, <1>2 DEF JobsWait
<1>3. ASSUME DOMAIN jobs' = DOMAIN jobs,
             \A j \in DOMAIN jobs : /\ jobs'[j].rec = jobs[j].rec
                                    /\ jobs'[j].status = "queued" => jobs'[j].lease = 0
      PROVE  JobsWait'
  BY <1>1, <1>3 DEF JobsWait
<1>4. ASSUME NEW job \in Job, jobs' = Append(jobs, job), job.lease = 0,
             job.rec = 0 \/ job.rec = Len(recordings) + 1
      PROVE  JobsWait'
  <2>1. /\ Len(jobs) \in Nat /\ DOMAIN jobs = 1 .. Len(jobs)
        /\ DOMAIN jobs' = 1 .. (Len(jobs) + 1) /\ jobs'[Len(jobs) + 1] = job
        /\ \A j \in DOMAIN jobs : jobs'[j] = jobs[j]
    BY <1>4, Lists, AppendProperties, LenProperties DEF TypeOK
  <2>2. \A j \in DOMAIN jobs : jobs[j].rec # 0 => jobs[j].rec # Len(recordings) + 1
    BY <1>1, Lists DEF JobsRefer, Job
  <2>3. \A j \in DOMAIN jobs' : j \in DOMAIN jobs \/ j = Len(jobs) + 1
    BY <2>1
  <2>4. QED
    BY <1>1, <1>4, <2>1, <2>2, <2>3 DEF JobsWait
<1>5. ASSUME NEW on \in BOOLEAN, SetAiPolicy(on) PROVE JobsWait'
  <2>1. ASSUME NEW j \in DOMAIN jobs
        PROVE  /\ jobs'[j].rec = jobs[j].rec
               /\ jobs'[j].status = "queued" => jobs'[j].lease = 0
    <3>1. CASE ~on /\ jobs[j].status = "queued"
      <4>1. jobs'[j] = [jobs[j] EXCEPT !.status = "blocked"]
        BY <1>5, <3>1 DEF SetAiPolicy
      <4>2. QED
        BY <1>1, <4>1 DEF Job
    <3>2. CASE ~(~on /\ jobs[j].status = "queued")
      BY <1>1, <1>5, <3>2 DEF SetAiPolicy, JobsWait
    <3>3. QED
      BY <3>1, <3>2
  <2>2. QED
    BY <1>3, <1>5, <2>1 DEF SetAiPolicy
<1>6. ASSUME QueueReport1 PROVE JobsWait'
  <2> DEFINE job == [stage |-> 1, rec |-> 0, src |-> 0, lease |-> 0,
                     status |-> IF enabled /\ TRUE THEN "queued" ELSE "blocked"]
  <2>1. jobs' = Append(jobs, job) /\ job \in Job
    BY <1>6 DEF QueueReport1, CreateJob, Job
  <2>2. QED
    BY <1>4, <2>1
<1>7. ASSUME NEW m \in DOMAIN meetings, NEW t \in Transcripts \cup {None}, SaveRecording(m, t)
      PROVE  JobsWait'
  <2> DEFINE job == [stage |-> 4, rec |-> Len(recordings) + 1, src |-> LatestReport(1),
                     lease |-> 0,
                     status |-> IF enabled /\ t # None THEN "queued" ELSE "blocked"]
  <2>1. LatestReport(1) \in Nat /\ Len(recordings) + 1 \in Nat
    BY Lists DEF LatestReport, Stage
  <2>2. jobs' = Append(jobs, job) /\ job \in Job
    BY <1>7, <2>1 DEF SaveRecording, CreateJob, Job
  <2>3. QED
    BY <1>4, <2>2
<1>8. ASSUME NEW t \in Transcripts, SaveTranscript(t) PROVE JobsWait'
  <2>1. ASSUME NEW j \in DOMAIN jobs
        PROVE  /\ jobs'[j].rec = jobs[j].rec
               /\ jobs'[j].status = "queued" => jobs'[j].lease = 0
    <3>1. CASE jobs[j].rec = LatestRecording /\ (jobs[j].status = "failed" => enabled)
      <4>1. jobs'[j] = [jobs[j] EXCEPT !.status = IF enabled THEN "queued" ELSE "blocked",
                                       !.lease = 0]
        BY <1>8, <3>1 DEF SaveTranscript
      <4>2. QED
        BY <1>1, <4>1 DEF Job
    <3>2. CASE ~(jobs[j].rec = LatestRecording /\ (jobs[j].status = "failed" => enabled))
      BY <1>1, <1>8, <3>2 DEF SaveTranscript, JobsWait
    <3>3. QED
      BY <3>1, <3>2
  <2>2. QED
    BY <1>3, <1>8, <2>1 DEF SaveTranscript
<1>9. ASSUME NEW j \in DOMAIN jobs, NEW st \in {"queued", "processing", "blocked", "failed",
                                                "complete"},
             NEW l \in Nat, st = "queued" => l = 0,
             jobs' = [jobs EXCEPT ![j] = [jobs[j] EXCEPT !.status = st, !.lease = l]]
      PROVE  JobsWait'
  <2>1. ASSUME NEW k \in DOMAIN jobs
        PROVE  /\ jobs'[k].rec = jobs[k].rec
               /\ jobs'[k].status = "queued" => jobs'[k].lease = 0
    <3>1. CASE k = j
      BY <1>1, <1>9, <3>1 DEF Job
    <3>2. CASE k # j
      BY <1>1, <1>9, <3>2 DEF JobsWait
    <3>3. QED
      BY <3>1, <3>2
  <2>2. QED
    BY <1>3, <1>9, <2>1
<1>10. ASSUME NEW j \in DOMAIN jobs, RetryJob(j) PROVE JobsWait'
  <2>1. jobs' = [jobs EXCEPT ![j] = [jobs[j] EXCEPT !.status = "queued", !.lease = 0]]
        /\ 0 \in Nat
    BY <1>10, Lists DEF RetryJob
  <2>2. QED
    BY <1>9, <2>1
<1>11. ASSUME NEW j \in DOMAIN jobs, NEW st \in {"blocked", "failed", "complete"},
              jobs' = [jobs EXCEPT ![j].status = st]
       PROVE  JobsWait'
  <2>1. jobs[j].lease \in Nat
    BY <1>1 DEF Job
  <2>2. jobs' = [jobs EXCEPT ![j] = [jobs[j] EXCEPT !.status = st, !.lease = jobs[j].lease]]
    <3>1. jobs' = [jobs EXCEPT ![j] = [jobs[j] EXCEPT !.status = st]]
      BY <1>11, Lists
    <3>2. [jobs[j] EXCEPT !.status = st] = [jobs[j] EXCEPT !.status = st, !.lease = jobs[j].lease]
      BY <1>1 DEF Job
    <3>3. QED
      BY <3>1, <3>2
  <2>3. QED
    BY <1>9, <2>1, <2>2
<1>12. ASSUME NEW r \in Runners, NEW j \in DOMAIN jobs, Claim(r, j) PROVE JobsWait'
  <2>1. CASE JobIsCurrent(j)
    <3>1. jobs' = [jobs EXCEPT ![j] = [jobs[j] EXCEPT !.status = "processing",
                                                      !.lease = claims + 1]]
          /\ claims + 1 \in Nat
      BY <1>12, <2>1, Lists DEF Claim, TypeOK
    <3>2. QED
      BY <1>9, <3>1
  <2>2. CASE ~JobIsCurrent(j)
    BY <1>11, <1>12, <2>2 DEF Claim
  <2>3. QED
    BY <2>1, <2>2
<1>13. ASSUME NEW r \in Runners, StoreAnswer(r) \/ StoreFailure(r) PROVE JobsWait'
  <2>1. runners[r].job \in DOMAIN jobs
    BY <1>13 DEF StoreAnswer, StoreFailure, Keep
  <2>2. \E st \in {"blocked", "failed", "complete"} :
          jobs' = [jobs EXCEPT ![runners[r].job].status = st]
    BY <1>13 DEF StoreAnswer, StoreFailure
  <2>3. QED
    BY <1>11, <2>1, <2>2
<1>14. \/ UNCHANGED jobs
       \/ \E on \in BOOLEAN : SetAiPolicy(on)
       \/ QueueReport1
       \/ \E m \in DOMAIN meetings, t \in Transcripts \cup {None} : SaveRecording(m, t)
       \/ \E t \in Transcripts : SaveTranscript(t)
       \/ \E j \in DOMAIN jobs : RetryJob(j)
       \/ \E r \in Runners, j \in DOMAIN jobs : Claim(r, j)
       \/ \E r \in Runners : StoreAnswer(r) \/ StoreFailure(r)
  BY DEF Next, Run, BeforeRequest, RunLost, Command, ImportIntakeSource, SaveSource,
       ExcludeSource, SaveReport, ConfirmAnalysis, ConfirmSolutions, RequestDocument,
       MarkRequestSent, ReceiveDocument, ReviewDocument, RecordContract, ConfirmPayment,
       StartAftercare, BookMeeting, CompleteMeeting, CancelMeeting, ai
<1>15. QED
  BY <1>2, <1>5, <1>6, <1>7, <1>8, <1>10, <1>12, <1>13, <1>14

LEMMA ReviewsKept ==
  ASSUME TypeOK, ReviewsNumbered, Next
  PROVE  ReviewsNumbered'
<1>1. ASSUME NEW i \in DOMAIN requests, NEW q, requests' = [requests EXCEPT ![i] = q],
             q.verified <= q.reviews
      PROVE  ReviewsNumbered'
  BY <1>1 DEF ReviewsNumbered
<1>2. \A i \in DOMAIN requests : /\ requests[i] \in Request
                                 /\ requests[i].verified <= requests[i].reviews
                                 /\ requests[i].verified \in Nat /\ requests[i].reviews \in Nat
  BY Lists DEF ReviewsNumbered, Request
<1>3. ASSUME NEW required \in BOOLEAN, RequestDocument(required) PROVE ReviewsNumbered'
  <2> DEFINE new == [required |-> required, file |-> None, sent |-> FALSE,
                     status |-> "requested", reviews |-> 0, verified |-> 0]
  <2>1. /\ Len(requests) \in Nat /\ DOMAIN requests = 1 .. Len(requests)
        /\ DOMAIN requests' = 1 .. (Len(requests) + 1)
        /\ \A i \in DOMAIN requests : requests'[i] = requests[i]
        /\ requests'[Len(requests) + 1] = new
    <3>1. requests' = Append(requests, new) /\ requests \in Seq(Request) /\ new \in Request
      BY <1>3 DEF RequestDocument, TypeOK, Request
    <3>2. QED
      BY <3>1, Lists, AppendProperties, LenProperties
  <2>2. QED
    BY <1>2, <2>1 DEF ReviewsNumbered
<1>4. ASSUME NEW i \in DOMAIN requests, MarkRequestSent(i) PROVE ReviewsNumbered'
  <2> DEFINE q == [requests[i] EXCEPT !.sent = TRUE]
  <2>1. requests' = [requests EXCEPT ![i] = q] /\ q.verified <= q.reviews
    BY <1>2, <1>4 DEF MarkRequestSent, Request
  <2>2. QED
    BY <1>1, <2>1
<1>5. ASSUME NEW i \in DOMAIN requests, NEW file \in Documents, ReceiveDocument(i, file)
      PROVE  ReviewsNumbered'
  <2> DEFINE n == IF requests[i].file # file \/ requests[i].status # "received"
                  THEN 0 ELSE requests[i].verified
             q == [requests[i] EXCEPT !.file = file, !.status = "received", !.verified = n]
  <2>1. requests' = [requests EXCEPT ![i] = q]
    BY <1>5 DEF ReceiveDocument
  <2>2. q.verified <= q.reviews
    BY <1>2 DEF Request
  <2>3. QED
    BY <1>1, <2>1, <2>2
<1>6. ASSUME NEW i \in DOMAIN requests, NEW approved \in BOOLEAN, ReviewDocument(i, approved)
      PROVE  ReviewsNumbered'
  <2> DEFINE n == requests[i].reviews + 1
             q == [requests[i] EXCEPT !.status = IF approved THEN "verified" ELSE "needs_fix",
                     !.reviews = n, !.verified = IF approved THEN n ELSE 0]
  <2>1. requests' = [requests EXCEPT ![i] = q]
    BY <1>6 DEF ReviewDocument
  <2>2. q.verified <= q.reviews
    BY <1>2 DEF Request
  <2>3. QED
    BY <1>1, <2>1, <2>2
<1>7. \/ UNCHANGED requests
      \/ \E required \in BOOLEAN : RequestDocument(required)
      \/ \E i \in DOMAIN requests : MarkRequestSent(i)
      \/ \E i \in DOMAIN requests, file \in Documents : ReceiveDocument(i, file)
      \/ \E i \in DOMAIN requests, approved \in BOOLEAN : ReviewDocument(i, approved)
  BY DEF Next, Run, Claim, BeforeRequest, StoreAnswer, StoreFailure, RunLost, Command,
       ImportIntakeSource, SaveSource, ExcludeSource, SetAiPolicy, QueueReport1, SaveReport,
       ConfirmAnalysis, ConfirmSolutions, SaveRecording, SaveTranscript, RetryJob,
       RecordContract, ConfirmPayment, StartAftercare, BookMeeting, CompleteMeeting,
       CancelMeeting, evidence
<1>8. CASE UNCHANGED requests
  BY <1>8 DEF ReviewsNumbered
<1>9. QED
  BY <1>3, <1>4, <1>5, <1>6, <1>7, <1>8

\* A saved report takes its sources from an open stage, the answer to a job from
\* its job, which is still about the newest ones.
LEMMA SourcesKept ==
  ASSUME TypeOK, StageInv, JobsRefer, ReportsHaveSources, Next
  PROVE  ReportsHaveSources'
<1>1. ASSUME NEW st \in Stage, NEW r \in Report, AddReport(st, r),
             st # 1 => r.src # 0, st = 4 => r.rec # 0, st >= 5 => r.decision # 0
      PROVE  ReportsHaveSources'
  <2>1. /\ \A k \in Stage : k # st => reports'[k] = reports[k]
        /\ \A v \in DOMAIN reports[st] : reports'[st][v] = reports[st][v]
        /\ DOMAIN reports'[st] = DOMAIN reports[st] \cup {Len(reports[st]) + 1}
        /\ reports'[st][Len(reports[st]) + 1] = r
    BY <1>1, AddReportEffect
  <2>2. \A k \in Stage : \A v \in DOMAIN reports'[k] :
          \/ v \in DOMAIN reports[k] /\ reports'[k][v] = reports[k][v]
          \/ k = st /\ reports'[k][v] = r
    BY <2>1
  <2>3. QED
    BY <1>1, <2>2 DEF ReportsHaveSources
<1>2. ASSUME NEW stage \in Stage, SaveReport(stage) PROVE ReportsHaveSources'
  <2> DEFINE r == [src |-> IF stage = 1 THEN 0 ELSE LatestReport(1),
                   rec |-> IF stage = 4 THEN LatestRecording ELSE 0,
                   decision |-> IF stage >= 5 THEN decision.id ELSE 0,
                   key |-> IF stage >= 5 THEN DocumentsKey ELSE {},
                   job |-> 0, body |-> "manual"]
  <2>1. LatestReport(1) \in Nat /\ LatestRecording \in Nat /\ decision.id \in Nat
    BY Newest
  <2>2. r \in Report /\ AddReport(stage, r)
    BY <1>2, <2>1, KeyType DEF Report, SaveReport
  <2>3. stage # 1 => r.src # 0
    BY <1>2, SavedHasSources DEF SaveReport
  <2>4. stage = 4 => r.rec # 0
    BY <1>2, SavedHasSources DEF SaveReport
  <2>5. stage >= 5 => r.decision # 0
    BY <1>2, SavedHasSources DEF SaveReport
  <2> HIDE DEF r
  <2>6. QED
    BY <1>1, <2>2, <2>3, <2>4, <2>5
<1>3. ASSUME NEW runner \in Runners, StoreAnswer(runner) PROVE ReportsHaveSources'
  <2> DEFINE j == runners[runner].job
             r == [src |-> jobs[j].src, rec |-> jobs[j].rec, decision |-> 0,
                   key |-> {}, job |-> j, body |-> runners[runner].seen]
  <2>1. j \in DOMAIN jobs /\ JobIsCurrent(j) /\ AddReport(jobs[j].stage, r)
    BY <1>3 DEF StoreAnswer, Keep
  <2>2. jobs[j] \in Job /\ jobs[j].stage \in {1, 4} /\ j \in Nat
    BY <2>1, Lists DEF Job
  <2>3. r \in Report /\ jobs[j].stage \in Stage
    <3>1. runners[runner].seen \in Transcripts \cup Sources
      BY <1>3 DEF StoreAnswer, TypeOK, Runner
    <3>2. QED
      BY <2>2, <3>1 DEF Report, Job, Stage
  <2>4. jobs[j].stage = 4 => r.rec # 0 /\ r.src # 0
    <3>1. SUFFICES ASSUME jobs[j].stage = 4 PROVE r.rec # 0 /\ r.src # 0
      OBVIOUS
    <3>2. jobs[j].rec \in DOMAIN recordings /\ jobs[j].rec = LatestRecording
          /\ jobs[j].src = LatestReport(1)
      BY <2>1, <3>1 DEF JobIsCurrent, JobsRefer
    <3>3. LatestRecording # 0
      BY <3>2, Lists DEF LatestRecording
    <3>4. QED
      BY <3>2, <3>3, RecordedHasFirst
  <2> HIDE DEF r, j
  <2>5. QED
    BY <1>1, <2>1, <2>2, <2>3, <2>4
<1>4. CASE UNCHANGED reports
  BY <1>4 DEF ReportsHaveSources
<1>5. \/ UNCHANGED reports
      \/ \E stage \in Stage : SaveReport(stage)
      \/ \E r \in Runners : StoreAnswer(r)
  BY DEF Next, Run, Claim, BeforeRequest, StoreFailure, RunLost, Command,
       ImportIntakeSource, SaveSource, ExcludeSource, SetAiPolicy, QueueReport1,
       ConfirmAnalysis, ConfirmSolutions, SaveRecording, SaveTranscript, RetryJob,
       RecordContract, ConfirmPayment, StartAftercare, BookMeeting, CompleteMeeting,
       CancelMeeting, RequestDocument, MarkRequestSent, ReceiveDocument, ReviewDocument,
       evidence
<1>6. QED
  BY <1>2, <1>3, <1>4, <1>5

\* The invariant: the flow's own, with what the layers count on.
LEMMA StoreInvariant == Spec => [](FlowInv /\ StoreInv)
<1>1. Init => StoreInv
  BY DEF Init, StoreInv, JobsWait, ReviewsNumbered, ReportsHaveSources
<1>2. FlowInv /\ StoreInv /\ [Next]_vars => StoreInv'
  <2>1. ASSUME FlowInv, StoreInv, Next PROVE StoreInv'
    <3>1. TypeOK /\ StageInv /\ JobsRefer /\ ReviewsNumbered /\ ReportsHaveSources
      BY <2>1 DEF FlowInv, StageInv, StoreInv
    <3>2. QED
      BY <2>1, <3>1, JobsWaitKept, ReviewsKept, SourcesKept DEF StoreInv
  <2>2. ASSUME StoreInv, UNCHANGED vars PROVE StoreInv'
    BY <2>2 DEF vars, evidence, ai, StoreInv, JobsWait, ReviewsNumbered,
                ReportsHaveSources
  <2>3. QED
    BY <2>1, <2>2
<1>3. QED
  BY <1>1, <1>2, FlowInvariant, PTL DEF Spec

LEMMA StepPasses ==
  ASSUME FlowInv, StoreInv, Next
  PROVE  Passes \/ UNCHANGED <<evidence, signed, ai>>
<1>1. TypeOK /\ StageInv /\ JobsWait /\ ReviewsNumbered
  BY DEF FlowInv, StageInv, StoreInv
<1>2. ASSUME Command PROVE Passes
  BY <1>1, <1>2, SourcePasses, PolicyPasses, QueuePasses, ReportPasses, AnalysisPasses,
     BookingPasses, MeetingPasses, RecordingPasses, TranscriptPasses, RetryPasses,
     DecisionPasses, RequestPasses, SentPasses, ReceiptPasses, ReviewPasses, ContractPasses,
     MoneyPasses
  DEF Command
<1>3. ASSUME Run PROVE Passes \/ UNCHANGED <<evidence, signed, ai>>
  <2>1. PICK r \in Runners : \/ \E j \in DOMAIN jobs : Claim(r, j)
                             \/ BeforeRequest(r) \/ StoreAnswer(r)
                             \/ StoreFailure(r) \/ RunLost(r)
    BY <1>3 DEF Run
  <2>2. CASE BeforeRequest(r) \/ RunLost(r)
    BY <2>2 DEF BeforeRequest, RunLost
  <2>3. QED
    BY <1>1, <2>1, <2>2, ClaimPasses, AnswerPasses, FailurePasses
<1>4. QED
  BY <1>2, <1>3 DEF Next

\* No update that the code makes of a case is refused by commitFlow.
THEOREM CommitAccepts == Spec => AcceptedByCommit
<1>1. FlowInv /\ StoreInv /\ [Next]_vars => [Accepted]_<<evidence, signed, ai>>
  BY StepPasses DEF Passes, vars
<1>2. QED
  BY <1>1, StoreInvariant, PTL DEF Spec, AcceptedByCommit

\* And none is aborted by a trigger of the database.
THEOREM DatabaseAdmits == Spec => AdmittedByDatabase
<1>1. FlowInv /\ StoreInv /\ [Next]_vars => [Rules!Next]_<<evidence, signed, ai>>
  BY StepPasses DEF Passes, vars
<1>2. QED
  BY <1>1, StoreInvariant, PTL DEF Spec, AdmittedByDatabase

-----------------------------------------------------------------------------
(* The two statements of the rules agree *)

\* The parts of a case that an update within S leaves alone.
LEMMA Untouched ==
  ASSUME NEW S, Rules!Touched \subseteq S
  PROVE  /\ "policy" \notin S => enabled' = enabled
         /\ "reports" \notin S => reports' = reports
         /\ "jobs" \notin S => jobs' = jobs
<1>1. "policy" \notin S => enabled' = enabled
  BY DEF Rules!Touched, Rules!Part
<1>2. "reports" \notin S => reports' = reports
  BY DEF Rules!Touched, Rules!Part
<1>3. "jobs" \notin S => jobs' = jobs
  BY DEF Rules!Touched, Rules!Part
<1>4. QED
  BY <1>1, <1>2, <1>3

\* The lifecycles are the same; the database alone asks that the sources of a new
\* job exist.
LEMMA JobsAgree ==
  ASSUME TypeOK, TypeOK', JobsAccepted,
         \A j \in DOMAIN jobs' \ DOMAIN jobs :
           jobs'[j].stage = 4 => recordings' # <<>> /\ reports'[1] # <<>>
  PROVE  Rules!JobsAdmitted
<1>1. CASE jobs' = jobs
  BY <1>1 DEF Rules!JobsAdmitted
<1>2. CASE jobs' # jobs
  <2>1. /\ DOMAIN jobs \subseteq DOMAIN jobs'
        /\ \A j \in DOMAIN jobs :
             /\ [jobs'[j] EXCEPT !.status = jobs[j].status, !.lease = jobs[j].lease] = jobs[j]
             /\ KeepsLifecycle(jobs[j], jobs'[j])
        /\ \A j \in DOMAIN jobs' \ DOMAIN jobs : NewJobOK(jobs'[j])
    BY <1>2 DEF JobsAccepted
  <2>2. \A j \in DOMAIN jobs' : jobs'[j] \in Job
    <3>1. jobs' \in Seq(Job)
      BY DEF TypeOK
    <3>2. QED
      BY <3>1, ElementOfSeq, LenProperties
  <2>3. Rules!JobsTransition
    BY <2>1 DEF Rules!JobsTransition, NewJobOK
  <2>4. Rules!JobIdentity
    <3> SUFFICES ASSUME NEW j \in DOMAIN jobs
                 PROVE  /\ jobs'[j].stage = jobs[j].stage
                        /\ jobs'[j].rec = jobs[j].rec /\ jobs'[j].src = jobs[j].src
      BY DEF Rules!JobIdentity
    <3> DEFINE same == [jobs'[j] EXCEPT !.status = jobs[j].status, !.lease = jobs[j].lease]
    <3>1. jobs'[j] \in Job /\ same = jobs[j]
      BY <2>1, <2>2
    <3>2. same.stage = jobs'[j].stage /\ same.rec = jobs'[j].rec /\ same.src = jobs'[j].src
      BY <3>1 DEF Job
    <3> HIDE DEF same
    <3>3. QED
      BY <3>1, <3>2
  <2>5. Rules!JobStatus
    BY <2>1 DEF Rules!JobStatus, KeepsLifecycle
  <2>6. Rules!JobLifecycle
    BY <2>1 DEF Rules!JobLifecycle, KeepsLifecycle
  <2>7. Rules!JobCreation
    BY <2>1, <2>2 DEF Rules!JobCreation, NewJobOK, Job
  <2>8. QED
    BY <2>3, <2>4, <2>5, <2>6, <2>7 DEF Rules!JobsAdmitted
<1>3. QED
  BY <1>1, <1>2

\* The store compares the sources of a saved report with those of the case; that
\* they exist is asked by the database alone.
LEMMA ReportAgrees ==
  ASSUME TypeOK, TypeOK', SavesReport, ReportsHaveSources'
  PROVE  Rules!SaveReport
<1>1. PICK stage \in Stage :
        LET new == reports'[stage][Len(reports[stage]) + 1] IN
        /\ Appended(reports[stage], reports'[stage])
        /\ \A other \in Stage \ {stage} : reports'[other] = reports[other]
        /\ new.body = "manual" /\ new.job = 0
        /\ new.src = IF stage = 1 THEN 0 ELSE LatestReport(1)
        /\ new.rec = IF stage = 4 THEN LatestRecording ELSE 0
        /\ new.decision = IF stage >= 5 THEN decision.id ELSE 0
        /\ new.key = IF stage >= 5 THEN DocumentsKey ELSE {}
        /\ analysis' = IF stage = 1
                       THEN [report |-> LatestReport(1) + 1, admin |-> FALSE, partner |-> FALSE]
                       ELSE analysis
  BY DEF SavesReport
<1> DEFINE n   == Len(reports[stage]) + 1
           new == reports'[stage][n]
<1>2. n \in DOMAIN reports'[stage]
  <2>1. Len(reports'[stage]) = n /\ Len(reports[stage]) \in Nat
    BY <1>1, Lists DEF Appended, Rules!Appended
  <2>2. reports'[stage] \in Seq(Report)
    BY DEF TypeOK
  <2>3. QED
    BY <2>1, <2>2, LenProperties
<1>3. /\ stage # 1 => new.src # 0
      /\ stage = 4 => new.rec # 0
      /\ stage >= 5 => new.decision # 0
  BY <1>2 DEF ReportsHaveSources
<1>4. /\ Rules!Appended(reports[stage], reports'[stage]) /\ stage \in Rules!Stage
      /\ \A other \in Rules!Stage \ {stage} : reports'[other] = reports[other]
      /\ new.body = "manual" /\ new.job = 0
  BY <1>1, SameNames DEF Appended
<1>5. /\ IF stage = 1 THEN new.src = 0
         ELSE Rules!LatestFirst # 0 /\ new.src = Rules!LatestFirst
      /\ IF stage = 4 THEN Rules!LatestRecording # 0 /\ new.rec = Rules!LatestRecording
         ELSE new.rec = 0
  BY <1>1, <1>3, SameNames
<1>6. IF stage >= 5
      THEN decision.id # 0 /\ new.decision = decision.id /\ new.key = Rules!RequiredKey
      ELSE new.decision = 0 /\ new.key = {}
  BY <1>1, <1>3, SameNames
<1>7. analysis' = IF stage = 1
                  THEN [report |-> Rules!LatestFirst + 1, admin |-> FALSE, partner |-> FALSE]
                  ELSE analysis
  BY <1>1, SameNames
<1> HIDE DEF new, n
<1>8. QED
  BY <1>4, <1>5, <1>6, <1>7 DEF Rules!SaveReport, new, n

LEMMA BookingAgrees ==
  ASSUME TypeOK, TypeOK', BooksMeeting
  PROVE  Rules!BookMeeting
<1> DEFINE new == meetings'[Len(meetings) + 1]
<1>1. /\ Rules!Appended(meetings, meetings') /\ new.status = "scheduled"
      /\ CASE new.kind = "first" -> /\ AnalysisDone /\ FirstMeetings = {}
                                    /\ new.attendance = "both"
           [] new.kind = "followup" -> FirstCompleted
           [] new.kind = "contract" -> SigningPreparationDone /\ ~Contracted
  BY DEF BooksMeeting, Appended
<1>2. new \in Meeting
  <2>1. Len(meetings') = Len(meetings) + 1 /\ Len(meetings) \in Nat
    BY <1>1, Lists DEF Rules!Appended
  <2>2. meetings' \in Seq(Meeting)
    BY DEF TypeOK
  <2>3. QED
    BY <2>1, <2>2, ElementOfSeq
<1>3. new.kind \in {"first", "followup", "contract"}
  BY <1>2 DEF Meeting
<1> HIDE DEF new
<1>4. CASE new.kind = "first"
  <2>1. AnalysisDone /\ FirstMeetings = {} /\ new.attendance = "both"
    BY <1>1, <1>4
  <2>2. \A m \in DOMAIN meetings : meetings[m].kind = "first" =>
                                     meetings[m].status = "cancelled"
    BY <2>1 DEF FirstMeetings
  <2>3. QED
    BY <1>1, <1>4, <2>1, <2>2, SameAnalysis DEF Rules!BookMeeting, new
<1>5. CASE new.kind = "followup"
  <2>1. FirstCompleted
    BY <1>1, <1>5
  <2>2. QED
    BY <1>1, <1>5, <2>1 DEF FirstCompleted, Rules!BookMeeting, new
<1>6. CASE new.kind = "contract"
  <2>1. SigningPreparationDone /\ ~Contracted
    BY <1>1, <1>6
  <2>2. Rules!ReadyToSign
    BY <2>1, SigningReady
  <2>3. QED
    BY <1>1, <1>6, <2>2 DEF Rules!BookMeeting, new
<1>7. QED
  BY <1>3, <1>4, <1>5, <1>6

LEMMA MeetingAgrees ==
  ASSUME TypeOK, NEW actor \in Role, NEW m \in DOMAIN meetings
  PROVE  /\ CompletesMeeting(actor, m) => Rules!CompleteMeeting(actor, m)
         /\ CancelsMeeting(actor, m) => Rules!CancelMeeting(actor, m)
<1>1. CanAttend(actor, m) => Rules!Attends(actor, m)
  BY AttendsSame
<1>2. ASSUME CompletesMeeting(actor, m) PROVE Rules!CompleteMeeting(actor, m)
  BY <1>1, <1>2, SameAnalysis, SamePreparation, SameNames
  DEF CompletesMeeting, Rules!CompleteMeeting, OnlyTarget
<1>3. ASSUME CancelsMeeting(actor, m) PROVE Rules!CancelMeeting(actor, m)
  BY <1>1, <1>3 DEF CancelsMeeting, Rules!CancelMeeting, OnlyTarget
<1>4. QED
  BY <1>2, <1>3

LEMMA ContractAgrees ==
  ASSUME TypeOK, NEW actor \in Role, NEW m \in DOMAIN meetings, RecordsContract(actor, m)
  PROVE  Rules!RecordContract(actor, m)
<1>1. Rules!Attends(actor, m) /\ Rules!ReadyToSign
  BY AttendsSame, SigningReady DEF RecordsContract
<1>2. Rules!ContractMeeting(actor, m)
  BY <1>1 DEF RecordsContract, Rules!ContractMeeting, OnlyTarget
<1>3. Rules!ContractEvidence(m)
  BY DEF RecordsContract, Rules!ContractEvidence, LatestReport
<1>4. QED
  BY <1>2, <1>3 DEF Rules!RecordContract

LEMMA DecisionAgreed ==
  ASSUME ConfirmsSolutions
  PROVE  Rules!ConfirmSolutions
BY SameNames DEF ConfirmsSolutions, Rules!ConfirmSolutions, IsDeepReport, DeepReports

LEMMA DocumentAgrees ==
  ASSUME TypeOK, NEW i \in DOMAIN requests
  PROVE  /\ MarksSent(i) => Rules!MarkRequestSent(i)
         /\ ReceivesDocument(i) => Rules!ReceiveDocument(i)
<1>1. requests[i] \in Request
  BY Lists
<1>2. ASSUME MarksSent(i) PROVE Rules!MarkRequestSent(i)
  BY <1>2 DEF MarksSent, Rules!MarkRequestSent, OnlyTarget
<1>3. ASSUME ReceivesDocument(i) PROVE Rules!ReceiveDocument(i)
  <2> DEFINE file == requests'[i].file
             n == IF file # requests[i].file \/ requests[i].status # "received"
                  THEN 0 ELSE requests[i].verified
             q == [requests[i] EXCEPT !.file = file, !.status = "received", !.verified = n]
  <2>1. ~Contracted /\ Rules!OnlyTarget(requests, requests', i) /\ file # None
        /\ requests'[i] = q
    BY <1>3 DEF ReceivesDocument, OnlyTarget
  <2>2. q.status = "received" /\ q.verified = n
        /\ q.required = requests[i].required /\ q.sent = requests[i].sent
    BY <1>1 DEF Request
  <2> HIDE DEF q
  <2>3. QED
    BY <2>1, <2>2, SameNames DEF Rules!ReceiveDocument
<1>4. QED
  BY <1>2, <1>3

\* A new approval is later than the one it replaces.
LEMMA ReviewAgrees ==
  ASSUME TypeOK, TypeOK', ReviewsNumbered, NEW i \in DOMAIN requests, ReviewsDocument(i),
         requests'[i].reviews >= requests[i].reviews
  PROVE  Rules!ReviewDocument(i)
<1> DEFINE status == requests'[i].status
           n == requests'[i].reviews
           v == IF status = "verified" THEN n ELSE 0
           q == [requests[i] EXCEPT !.status = status, !.reviews = n, !.verified = v]
<1>1. /\ ~Contracted /\ Rules!OnlyTarget(requests, requests', i)
      /\ requests[i].status # "requested" /\ requests[i].file # None
      /\ status \in {"verified", "needs_fix"} /\ n # requests[i].reviews
      /\ requests'[i] = q
  BY DEF ReviewsDocument, OnlyTarget
<1>2. /\ requests[i] \in Request /\ requests[i].reviews \in Nat
      /\ requests[i].verified \in Nat /\ requests[i].verified <= requests[i].reviews
  BY Lists DEF Request, ReviewsNumbered
<1>3. n \in Nat
  <2>1. i \in 1 .. Len(requests') /\ requests' \in Seq(Request)
    BY <1>1, Lists DEF Rules!OnlyTarget, TypeOK
  <2>2. requests'[i] \in Request
    BY <2>1, ElementOfSeq
  <2>3. QED
    BY <2>2 DEF Request
<1>4. n \notin {0, requests[i].verified}
  BY <1>1, <1>2, <1>3
<1>5. q.verified = v /\ q.file = requests[i].file
      /\ q.required = requests[i].required /\ q.sent = requests[i].sent
  BY <1>2 DEF Request
<1> HIDE DEF q
<1>6. QED
  BY <1>1, <1>4, <1>5, SameNames DEF Rules!ReviewDocument

LEMMA MoneyAgrees ==
  /\ ConfirmsPayment => Rules!ConfirmPayment
  /\ StartsAftercare => Rules!StartAftercare
BY SameNames DEF ConfirmsPayment, Rules!ConfirmPayment, StartsAftercare, DepositComplete,
                 Rules!StartAftercare

\* A job added at the end of the list.
LEMMA JobAppended ==
  ASSUME TypeOK, NEW stage, NEW rec, NEW src, NEW ready, AddsJob(stage, rec, src, ready),
         enabled' = enabled, TypeOK'
  PROVE  /\ Rules!NewJob(stage, rec, src, ready)
         /\ DOMAIN jobs' \ DOMAIN jobs = {Len(jobs) + 1}
         /\ jobs'[Len(jobs) + 1].stage = stage
<1> DEFINE job == [stage |-> stage, rec |-> rec, src |-> src, lease |-> 0,
                   status |-> IF enabled /\ ready THEN "queued" ELSE "blocked"]
<1>1. jobs' = Append(jobs, job) /\ jobs \in Seq(Job)
  BY DEF AddsJob, TypeOK
<1>2. /\ Len(jobs') = Len(jobs) + 1 /\ Len(jobs) \in Nat
      /\ DOMAIN jobs' = 1 .. Len(jobs) + 1 /\ DOMAIN jobs = 1 .. Len(jobs)
      /\ jobs'[Len(jobs) + 1] = job
      /\ \A j \in DOMAIN jobs : jobs'[j] = jobs[j]
  BY <1>1, Lists
<1>3. job.stage = stage
  OBVIOUS
<1>4. QED
  BY <1>2, <1>3 DEF Rules!NewJob, Rules!Appended

\* A recording is of a completed meeting, so the first report exists.
LEMMA RecordingAgrees ==
  ASSUME TypeOK, StageInv, SavesRecording, enabled' = enabled, reports' = reports, TypeOK'
  PROVE  /\ Rules!SaveRecording
         /\ recordings' # <<>> /\ reports'[1] # <<>>
<1> DEFINE new == recordings'[LatestRecording + 1]
<1>1. /\ Rules!Appended(recordings, recordings')
      /\ new.meeting \in DOMAIN meetings /\ meetings[new.meeting].status = "completed"
      /\ AddsJob(4, LatestRecording + 1, LatestReport(1), new.transcript # None)
  BY DEF SavesRecording, Appended
<1>2. LatestReport(1) # 0
  <2>1. FirstCompleted
    BY <1>1 DEF StageInv, StagesInOrder, FirstCompleted
  <2>2. QED
    BY <2>1 DEF StageInv, FirstMeetingWasPrepared, AnalysisDone
<1>3. Rules!NewJob(4, LatestRecording + 1, LatestReport(1), new.transcript # None)
  BY <1>1, JobAppended
<1>4. Rules!SaveRecording
  BY <1>1, <1>2, <1>3, SameNames DEF Rules!SaveRecording
<1>5. Len(recordings') # 0 /\ Len(reports'[1]) # 0
  BY <1>1, <1>2, Lists DEF Rules!Appended, LatestReport
<1>6. QED
  BY <1>4, <1>5

LEMMA TranscriptAgrees ==
  ASSUME TypeOK, SavesTranscript, enabled' = enabled
  PROVE  Rules!SaveTranscript
<1> DEFINE n == LatestRecording
<1>1. /\ Rules!OnlyTarget(recordings, recordings', n)
      /\ recordings'[n] = [recordings[n] EXCEPT !.transcript = recordings'[n].transcript]
      /\ recordings'[n] # recordings[n]
  BY DEF SavesTranscript, OnlyTarget
<1>2. recordings'[n].meeting = recordings[n].meeting
  <2>1. recordings[n] \in Recording
    BY <1>1, Lists DEF Rules!OnlyTarget
  <2>2. QED
    BY <1>1, <2>1 DEF Recording
<1>3. Rules!TranscriptTarget
  BY <1>1, <1>2, SameNames DEF Rules!TranscriptTarget
<1>4. Rules!TranscriptJobs
  BY SameNames DEF SavesTranscript, Rules!TranscriptJobs, Rules!Again
<1>5. QED
  BY <1>3, <1>4 DEF Rules!SaveTranscript

LEMMA RetryAgrees == ASSUME TypeOK, RetriesJob PROVE Rules!RetryJob
<1>1. PICK j \in DOMAIN jobs :
        /\ jobs[j].status \in {"blocked", "failed", "processing"}
        /\ jobs' = [jobs EXCEPT ![j].status = "queued", ![j].lease = 0]
  BY DEF RetriesJob
<1>2. jobs' = [jobs EXCEPT ![j] = [jobs[j] EXCEPT !.status = "queued", !.lease = 0]]
  BY <1>1, Lists
<1>3. QED
  BY <1>1, <1>2 DEF Rules!RetryJob, Rules!Again

\* An update without a command moves one job, and nothing else but with a result.
LEMMA RunAgrees ==
  ASSUME TypeOK, TypeOK', JobsAccepted, RunAccepted
  PROVE  Rules!AiStep
<1>1. PICK j \in DOMAIN jobs :
        /\ Rules!OnlyTarget(jobs, jobs', j)
        /\ Started(j) \/ Finished(j)
             \/ (jobs[j].status = "queued" /\ jobs'[j].status = "blocked")
        /\ IF jobs'[j].status = "complete"
           THEN Rules!Touched \subseteq {"jobs", "reports", "analysis"} /\ ResultAccepted(j)
           ELSE Rules!Touched \subseteq {"jobs"}
  BY DEF RunAccepted, OnlyTarget
<1>2. Rules!Completes(j) <=> jobs'[j].status = "complete"
  BY <1>1 DEF Started, Finished, Rules!Completes
<1>3. Rules!NonCommandScope(j)
  BY <1>1, <1>2 DEF Rules!NonCommandScope
<1>4. Rules!NonCommandTarget(j) /\ Rules!NonCommandTransition(j)
  BY <1>1 DEF Rules!NonCommandTarget, Rules!NonCommandTransition, Started, Finished
<1>5. Rules!Completes(j) => Rules!AiResultReport(j)
  <2>1. ResultAccepted(j) => Rules!AiResultReport(j)
    BY SameNames DEF ResultAccepted, Rules!AiResultReport, Appended
  <2>2. QED
    BY <1>1, <1>2, <2>1
<1>6. DOMAIN jobs' \ DOMAIN jobs = {}
  <2>1. jobs' \in Seq(Job) /\ jobs \in Seq(Job)
    BY DEF TypeOK
  <2>2. QED
    BY <1>1, <2>1, LenProperties DEF Rules!OnlyTarget
<1>7. Rules!JobsAdmitted
  BY <1>6, JobsAgree
<1>8. QED
  BY <1>3, <1>4, <1>5, <1>7 DEF Rules!AiStep

LEMMA CommandAgrees ==
  ASSUME TypeOK, TypeOK', StageInv, ReviewsNumbered, ReportsHaveSources',
         \A i \in DOMAIN requests : requests'[i].reviews >= requests[i].reviews,
         JobsAccepted, CommandAccepted
  PROVE  Rules!CommandStep
<1> DEFINE Within(action) == Rules!Touched \subseteq Rules!Scope[action]
<1>1. Rules!NoAiTransition
  BY DEF CommandAccepted, Started, Finished, Rules!NoAiTransition
<1>2. ASSUME jobs' = jobs PROVE Rules!JobsAdmitted
  BY <1>2 DEF Rules!JobsAdmitted
<1>3. ASSUME DOMAIN jobs' = DOMAIN jobs PROVE Rules!JobsAdmitted
  BY <1>3, JobsAgree
<1>4. ASSUME NEW action \in {"import_intake_source", "save_source", "exclude_source"},
             Within(action)
      PROVE  Rules!CommandStep
  <2>1. Rules!JobsAdmitted
    BY <1>2, <1>4, Scopes, Untouched
  <2>2. QED
    BY <1>1, <1>4, <2>1 DEF Rules!CommandStep
<1>5. ASSUME Within("set_ai_policy"), SetsPolicy PROVE Rules!CommandStep
  <2>1. Rules!JobsAdmitted
    BY <1>3, <1>5 DEF SetsPolicy
  <2>2. Rules!SetAiPolicy
    BY <1>5 DEF SetsPolicy, Rules!SetAiPolicy
  <2>3. QED
    BY <1>1, <1>5, <2>1, <2>2 DEF Rules!CommandStep
<1>6. ASSUME Within("queue_report1"), QueuesReport1 PROVE Rules!CommandStep
  <2>1. enabled' = enabled
    BY <1>6, Scopes, Untouched
  <2>2. /\ Rules!NewJob(1, 0, 0, TRUE) /\ DOMAIN jobs' \ DOMAIN jobs = {Len(jobs) + 1}
        /\ jobs'[Len(jobs) + 1].stage = 1
    BY <1>6, <2>1, JobAppended DEF QueuesReport1
  <2>3. Rules!JobsAdmitted
    BY <2>2, JobsAgree
  <2>4. QED
    BY <1>1, <1>6, <2>2, <2>3 DEF Rules!CommandStep, Rules!QueueReport1
<1>7. ASSUME Within("save_report"), SavesReport PROVE Rules!CommandStep
  <2>1. Rules!JobsAdmitted
    BY <1>2, <1>7, Scopes, Untouched
  <2>2. QED
    BY <1>1, <1>7, <2>1, ReportAgrees DEF Rules!CommandStep
<1>8. ASSUME Within("confirm_analysis"), NEW actor \in Role, ConfirmsAnalysis(actor)
      PROVE  Rules!CommandStep
  <2>1. Rules!JobsAdmitted
    BY <1>2, <1>8, Scopes, Untouched
  <2>2. Rules!ConfirmAnalysis(actor) /\ actor \in {"admin", "partner"}
    BY <1>8, SameNames DEF ConfirmsAnalysis, Rules!ConfirmAnalysis, Role
  <2>3. QED
    BY <1>1, <1>8, <2>1, <2>2 DEF Rules!CommandStep
<1>9. ASSUME Within("book_meeting"), BooksMeeting PROVE Rules!CommandStep
  <2>1. Rules!JobsAdmitted
    BY <1>2, <1>9, Scopes, Untouched
  <2>2. QED
    BY <1>1, <1>9, <2>1, BookingAgrees DEF Rules!CommandStep
<1>10. ASSUME NEW actor \in Role, NEW m \in DOMAIN meetings,
              \/ Within("complete_meeting") /\ CompletesMeeting(actor, m)
              \/ Within("cancel_meeting") /\ CancelsMeeting(actor, m)
       PROVE  Rules!CommandStep
  <2>1. Rules!JobsAdmitted
    BY <1>2, <1>10, Scopes, Untouched
  <2>2. actor \in {"admin", "partner"}
    BY DEF Role
  <2>3. CASE Within("complete_meeting") /\ CompletesMeeting(actor, m)
    BY <1>1, <2>1, <2>2, <2>3, MeetingAgrees DEF Rules!CommandStep
  <2>4. CASE Within("cancel_meeting") /\ CancelsMeeting(actor, m)
    BY <1>1, <2>1, <2>2, <2>4, MeetingAgrees DEF Rules!CommandStep
  <2>5. QED
    BY <1>10, <2>3, <2>4
<1>11. ASSUME Within("save_recording"), SavesRecording PROVE Rules!CommandStep
  <2>1. enabled' = enabled /\ reports' = reports
    BY <1>11, Scopes, Untouched
  <2>2. Rules!SaveRecording /\ recordings' # <<>> /\ reports'[1] # <<>>
    BY <1>11, <2>1, RecordingAgrees
  <2>3. Rules!JobsAdmitted
    BY <2>2, JobsAgree
  <2>4. QED
    BY <1>1, <1>11, <2>2, <2>3 DEF Rules!CommandStep
<1>12. ASSUME Within("save_transcript"), SavesTranscript PROVE Rules!CommandStep
  <2>1. enabled' = enabled
    BY <1>12, Scopes, Untouched
  <2>2. DOMAIN jobs' = DOMAIN jobs
    BY <1>12 DEF SavesTranscript
  <2>3. Rules!JobsAdmitted
    BY <1>3, <2>2
  <2>4. QED
    BY <1>1, <1>12, <2>1, <2>3, TranscriptAgrees DEF Rules!CommandStep
<1>13. ASSUME Within("retry_job"), RetriesJob PROVE Rules!CommandStep
  <2>1. DOMAIN jobs' = DOMAIN jobs
    BY <1>13 DEF RetriesJob
  <2>2. QED
    BY <1>1, <1>3, <1>13, <2>1, RetryAgrees DEF Rules!CommandStep
<1>14. ASSUME Within("confirm_solutions"), ConfirmsSolutions PROVE Rules!CommandStep
  <2>1. Rules!JobsAdmitted
    BY <1>2, <1>14, Scopes, Untouched
  <2>2. QED
    BY <1>1, <1>14, <2>1, DecisionAgreed DEF Rules!CommandStep
<1>15. ASSUME Within("request_document"), RequestsDocument PROVE Rules!CommandStep
  <2>1. Rules!JobsAdmitted
    BY <1>2, <1>15, Scopes, Untouched
  <2>2. Rules!RequestDocument
    BY <1>15, SameNames DEF RequestsDocument, Rules!RequestDocument, Appended
  <2>3. QED
    BY <1>1, <1>15, <2>1, <2>2 DEF Rules!CommandStep
<1>16. ASSUME NEW i \in DOMAIN requests,
              \/ Within("mark_request_sent") /\ MarksSent(i)
              \/ Within("receive_document") /\ ReceivesDocument(i)
              \/ Within("review_document") /\ ReviewsDocument(i)
       PROVE  Rules!CommandStep
  <2>1. Rules!JobsAdmitted
    BY <1>2, <1>16, Scopes, Untouched
  <2>2. CASE Within("mark_request_sent") /\ MarksSent(i)
    BY <1>1, <2>1, <2>2, DocumentAgrees DEF Rules!CommandStep
  <2>3. CASE Within("receive_document") /\ ReceivesDocument(i)
    BY <1>1, <2>1, <2>3, DocumentAgrees DEF Rules!CommandStep
  <2>4. CASE Within("review_document") /\ ReviewsDocument(i)
    BY <1>1, <2>1, <2>4, ReviewAgrees DEF Rules!CommandStep
  <2>5. QED
    BY <1>16, <2>2, <2>3, <2>4
<1>17. ASSUME Within("record_contract"), NEW actor \in Role, NEW m \in DOMAIN meetings,
              RecordsContract(actor, m)
       PROVE  Rules!CommandStep
  <2>1. Rules!JobsAdmitted
    BY <1>2, <1>17, Scopes, Untouched
  <2>2. actor \in {"admin", "partner"}
    BY DEF Role
  <2>3. QED
    BY <1>1, <1>17, <2>1, <2>2, ContractAgrees DEF Rules!CommandStep
<1>18. ASSUME \/ Within("confirm_payment") /\ ConfirmsPayment
              \/ Within("start_aftercare") /\ StartsAftercare
       PROVE  Rules!CommandStep
  <2>1. Rules!JobsAdmitted
    BY <1>2, <1>18, Scopes, Untouched
  <2>2. QED
    BY <1>1, <1>18, <2>1, MoneyAgrees DEF Rules!CommandStep
<1>19. QED
  BY <1>4, <1>5, <1>6, <1>7, <1>8, <1>9, <1>10, <1>11, <1>12, <1>13, <1>14, <1>15, <1>16,
     <1>17, <1>18
  DEF CommandAccepted

\* Whatever update of a reachable case the commit check lets through, and not only
\* those the commands make, the triggers admit: the database adds no refusal of its
\* own to a case whose reports have their sources and whose reviews are numbered in
\* the order of their times.
THEOREM AcceptedIsAdmitted ==
  ASSUME FlowInv, StoreInv, Accepted, TypeOK', ReportsHaveSources',
         \A i \in DOMAIN requests : requests'[i].reviews >= requests[i].reviews
  PROVE  Rules!Next
<1>1. TypeOK /\ StageInv /\ ReviewsNumbered
  BY DEF FlowInv, StageInv, StoreInv
<1>2. CommandAccepted => Rules!CommandStep
  BY <1>1, CommandAgrees DEF Accepted
<1>3. RunAccepted => Rules!AiStep
  BY <1>1, RunAgrees DEF Accepted
<1>4. QED
  BY <1>2, <1>3 DEF Accepted, Rules!Next

\* Every step of the case is such an update: it leaves the reports with their sources
\* and its reviews come after the earlier ones.
LEMMA StepsQualify ==
  ASSUME FlowInv, StoreInv, Next
  PROVE  /\ TypeOK' /\ ReportsHaveSources'
         /\ \A i \in DOMAIN requests : requests'[i].reviews >= requests[i].reviews
<1>1. TypeOK /\ StageInv /\ JobsRefer /\ ReportsHaveSources
  BY DEF FlowInv, StageInv, StoreInv
<1>2. \A i \in DOMAIN requests : requests[i] \in Request /\ requests[i].reviews \in Nat
  BY <1>1, Lists DEF Request
<1>3. ASSUME NEW i \in DOMAIN requests, NEW q, requests' = [requests EXCEPT ![i] = q],
             q.reviews >= requests[i].reviews
      PROVE  \A k \in DOMAIN requests : requests'[k].reviews >= requests[k].reviews
  BY <1>2, <1>3
<1>4. ASSUME NEW required \in BOOLEAN, RequestDocument(required)
      PROVE  \A k \in DOMAIN requests : requests'[k].reviews >= requests[k].reviews
  <2> DEFINE new == [required |-> required, file |-> None, sent |-> FALSE,
                     status |-> "requested", reviews |-> 0, verified |-> 0]
  <2>1. requests' = Append(requests, new) /\ requests \in Seq(Request) /\ new \in Request
    BY <1>1, <1>4 DEF RequestDocument, TypeOK, Request
  <2>2. \A k \in DOMAIN requests : requests'[k] = requests[k]
    BY <1>1, <2>1, Lists, AppendProperties
  <2>3. QED
    BY <1>2, <2>2
<1>5. ASSUME NEW i \in DOMAIN requests,
             \/ MarkRequestSent(i)
             \/ \E file \in Documents : ReceiveDocument(i, file)
             \/ \E approved \in BOOLEAN : ReviewDocument(i, approved)
      PROVE  \A k \in DOMAIN requests : requests'[k].reviews >= requests[k].reviews
  <2>1. CASE MarkRequestSent(i)
    <3>1. [requests[i] EXCEPT !.sent = TRUE].reviews >= requests[i].reviews
      BY <1>2 DEF Request
    <3>2. QED
      BY <1>3, <2>1, <3>1 DEF MarkRequestSent
  <2>2. ASSUME NEW file \in Documents, ReceiveDocument(i, file)
        PROVE  \A k \in DOMAIN requests : requests'[k].reviews >= requests[k].reviews
    <3> DEFINE n == IF requests[i].file # file \/ requests[i].status # "received"
                    THEN 0 ELSE requests[i].verified
               q == [requests[i] EXCEPT !.file = file, !.status = "received", !.verified = n]
    <3>1. requests' = [requests EXCEPT ![i] = q]
      BY <2>2 DEF ReceiveDocument
    <3>2. q.reviews >= requests[i].reviews
      BY <1>2 DEF Request
    <3>3. QED
      BY <1>3, <3>1, <3>2
  <2>3. ASSUME NEW approved \in BOOLEAN, ReviewDocument(i, approved)
        PROVE  \A k \in DOMAIN requests : requests'[k].reviews >= requests[k].reviews
    <3> DEFINE n == requests[i].reviews + 1
               q == [requests[i] EXCEPT !.status = IF approved THEN "verified" ELSE "needs_fix",
                       !.reviews = n, !.verified = IF approved THEN n ELSE 0]
    <3>1. requests' = [requests EXCEPT ![i] = q]
      BY <2>3 DEF ReviewDocument
    <3>2. q.reviews >= requests[i].reviews
      BY <1>2 DEF Request
    <3>3. QED
      BY <1>3, <3>1, <3>2
  <2>4. QED
    BY <1>5, <2>1, <2>2, <2>3
<1>6. \/ UNCHANGED requests
      \/ \E required \in BOOLEAN : RequestDocument(required)
      \/ \E i \in DOMAIN requests : MarkRequestSent(i)
      \/ \E i \in DOMAIN requests, file \in Documents : ReceiveDocument(i, file)
      \/ \E i \in DOMAIN requests, approved \in BOOLEAN : ReviewDocument(i, approved)
  BY DEF Next, Run, Claim, BeforeRequest, StoreAnswer, StoreFailure, RunLost, Command,
       ImportIntakeSource, SaveSource, ExcludeSource, SetAiPolicy, QueueReport1, SaveReport,
       ConfirmAnalysis, ConfirmSolutions, SaveRecording, SaveTranscript, RetryJob,
       RecordContract, ConfirmPayment, StartAftercare, BookMeeting, CompleteMeeting,
       CancelMeeting, evidence
<1>7. \A i \in DOMAIN requests : requests'[i].reviews >= requests[i].reviews
  BY <1>2, <1>4, <1>5, <1>6
<1>8. QED
  BY <1>1, <1>7, NextType, SourcesKept

-----------------------------------------------------------------------------
(* The shape of a stored case *)

\* The report a step may add: from sources the case has, under its decision, by
\* hand or as the result of a job that was running.
NewReport(st, p) ==
  /\ AddReport(st, p) /\ ReportCount < MaxReports
  /\ ReportHolds(p) /\ p.decision \in {0, decision.id}
  /\ UNCHANGED <<recordings, decision>>
  /\ \/ p.job = 0 /\ UNCHANGED jobs
     \/ /\ p.job \in DOMAIN jobs /\ jobs[p.job].status = "processing"
        /\ jobs[p.job].stage = st
        /\ jobs' = [jobs EXCEPT ![p.job].status = "complete"]

SameReports ==
  /\ UNCHANGED reports
  /\ analysis' = analysis \/ analysis'.report = LatestReport(1)
  /\ DecisionAgrees => DecisionAgrees'
  /\ decision' = decision \/ decision'.report \in DeepReports
  /\ \A j \in DOMAIN jobs : jobs'[j].status = "complete" => jobs[j].status = "complete"

LEMMA SavedShape ==
  ASSUME TypeOK, NEW stage \in Stage, SaveReport(stage)
  PROVE  \E p \in Report : NewReport(stage, p)
<1> DEFINE report ==
      [src |-> IF stage = 1 THEN 0 ELSE LatestReport(1),
       rec |-> IF stage = 4 THEN LatestRecording ELSE 0,
       decision |-> IF stage >= 5 THEN decision.id ELSE 0,
       key |-> IF stage >= 5 THEN DocumentsKey ELSE {},
       job |-> 0, body |-> "manual"]
<1>1. /\ LatestReport(1) \in Nat /\ DOMAIN reports[1] = 1 .. LatestReport(1)
      /\ LatestRecording \in Nat /\ DOMAIN recordings = 1 .. LatestRecording
      /\ decision.id \in Nat
  <2>1. 1 \in Stage
    BY DEF Stage
  <2>2. QED
    BY <2>1, Newest, Lists DEF LatestReport, LatestRecording
<1>2. report \in Report
  BY <1>1, KeyType DEF Report
<1>3. AddReport(stage, report) /\ ReportCount < MaxReports
      /\ UNCHANGED <<recordings, decision, jobs>>
  BY DEF SaveReport, ai
<1>4. /\ report.src \in {0} \cup DOMAIN reports[1]
      /\ report.rec \in {0} \cup DOMAIN recordings
      /\ report.decision \in {0, decision.id} /\ report.job = 0
  BY <1>1
<1>5. QED
  BY <1>2, <1>3, <1>4 DEF NewReport, ReportHolds

LEMMA AnsweredShape ==
  ASSUME TypeOK, JobsReferenceHold, NEW r \in Runners, StoreAnswer(r)
  PROVE  \E st \in Stage, p \in Report : NewReport(st, p)
<1> DEFINE j == runners[r].job
           report == [src |-> jobs[j].src, rec |-> jobs[j].rec, decision |-> 0,
                      key |-> {}, job |-> j, body |-> runners[r].seen]
<1>1. j \in DOMAIN jobs /\ jobs[j].status = "processing"
  BY DEF StoreAnswer, Keep
<1>2. jobs[j] \in Job /\ j \in Nat
  BY <1>1, Lists
<1>3. report \in Report
  BY <1>2 DEF StoreAnswer, TypeOK, Runner, Report, Job
<1>4. AddReport(jobs[j].stage, report) /\ ReportCount < MaxReports
      /\ UNCHANGED <<recordings, decision>>
      /\ jobs' = [jobs EXCEPT ![j].status = "complete"]
  BY DEF StoreAnswer
<1>5. ReportHolds(report)
  BY <1>1 DEF JobsReferenceHold, ReportHolds
<1>6. jobs[j].stage \in Stage /\ report.decision = 0 /\ report.job = j
  BY <1>2 DEF Job, Stage
<1>7. NewReport(jobs[j].stage, report)
  BY <1>1, <1>4, <1>5, <1>6 DEF NewReport
<1>8. QED
  BY <1>3, <1>6, <1>7

LEMMA ReportsStep ==
  ASSUME TypeOK, JobsReferenceHold, Next
  PROVE  SameReports \/ \E st \in Stage, p \in Report : NewReport(st, p)
<1>1. CASE \E stage \in Stage : SaveReport(stage)
  BY <1>1, SavedShape
<1>2. CASE \E r \in Runners : StoreAnswer(r)
  BY <1>2, AnsweredShape
<1>3. ASSUME UNCHANGED <<reports, analysis, decision, jobs>> PROVE SameReports
  BY <1>3 DEF SameReports, DecisionAgrees
<1>4. ASSUME NEW actor \in Role, ConfirmAnalysis(actor) PROVE SameReports
  <2>1. analysis' = analysis \/ analysis'.report = LatestReport(1)
    <3>1. analysis \in [report : Nat, admin : BOOLEAN, partner : BOOLEAN]
      BY DEF TypeOK
    <3>2. QED
      BY <1>4, <3>1 DEF ConfirmAnalysis
  <2>2. QED
    BY <1>4, <2>1 DEF SameReports, DecisionAgrees, ConfirmAnalysis, ai
<1>5. ASSUME NEW documents \in BOOLEAN, ConfirmSolutions(documents) PROVE SameReports
  BY <1>5 DEF SameReports, ConfirmSolutions, ai
<1>6. ASSUME UNCHANGED <<reports, analysis, decision>>,
             \A j \in DOMAIN jobs : jobs'[j].status = "complete" => jobs[j].status = "complete"
      PROVE  SameReports
  BY <1>6 DEF SameReports, DecisionAgrees
<1>7. ASSUME NEW on \in BOOLEAN, SetAiPolicy(on) PROVE SameReports
  <2>1. \A j \in DOMAIN jobs : jobs[j] \in Job
    BY Lists
  <2>2. QED
    BY <1>6, <1>7, <2>1 DEF SetAiPolicy, Job, evidence
<1>8. ASSUME NEW st \in {1, 4}, NEW rec \in Nat, NEW src \in Nat, NEW ready \in BOOLEAN,
             CreateJob(st, rec, src, ready)
      PROVE  \A j \in DOMAIN jobs : jobs'[j] = jobs[j]
  <2> DEFINE job == [stage |-> st, rec |-> rec, src |-> src, lease |-> 0,
                     status |-> IF enabled /\ ready THEN "queued" ELSE "blocked"]
  <2>1. job \in Job /\ jobs' = Append(jobs, job)
    BY <1>8 DEF Job, CreateJob
  <2>2. QED
    BY <2>1, Lists, AppendProperties DEF TypeOK
<1>9. CASE QueueReport1
  BY <1>6, <1>8, <1>9 DEF QueueReport1, evidence
<1>10. ASSUME NEW m \in DOMAIN meetings, NEW t \in Transcripts \cup {None}, SaveRecording(m, t)
       PROVE  SameReports
  <2>1. Len(recordings) + 1 \in Nat /\ LatestReport(1) \in Nat
    BY Lists DEF LatestReport, Stage
  <2>2. QED
    BY <1>6, <1>8, <1>10, <2>1 DEF SaveRecording
<1>11. ASSUME NEW t \in Transcripts, SaveTranscript(t) PROVE SameReports
  <2>1. \A j \in DOMAIN jobs : jobs[j] \in Job
    BY Lists
  <2>2. \A j \in DOMAIN jobs : jobs'[j].status = "complete" => jobs[j].status = "complete"
    BY <1>11, <2>1 DEF SaveTranscript, Job
  <2>3. QED
    BY <1>6, <1>11, <2>2 DEF SaveTranscript
<1>12. ASSUME NEW j \in DOMAIN jobs, NEW st \in {"queued", "processing", "blocked", "failed"},
              NEW l, \/ jobs' = [jobs EXCEPT ![j].status = st]
                     \/ jobs' = [jobs EXCEPT ![j].status = st, ![j].lease = l]
       PROVE  \A k \in DOMAIN jobs : jobs'[k].status = "complete" => jobs[k].status = "complete"
  <2>1. \A k \in DOMAIN jobs : jobs[k] \in Job
    BY Lists
  <2>2. QED
    BY <1>12, <2>1, Lists DEF Job
<1>13. ASSUME NEW j \in DOMAIN jobs, RetryJob(j) PROVE SameReports
  BY <1>6, <1>12, <1>13 DEF RetryJob, evidence
<1>14. ASSUME NEW r \in Runners, NEW j \in DOMAIN jobs, Claim(r, j) PROVE SameReports
  BY <1>6, <1>12, <1>14 DEF Claim, evidence
<1>15. ASSUME NEW r \in Runners, StoreFailure(r) PROVE SameReports
  <2>1. runners[r].job \in DOMAIN jobs
    BY <1>15 DEF StoreFailure, Keep
  <2>2. QED
    BY <1>6, <1>12, <1>15, <2>1 DEF StoreFailure, evidence
<1>16. \/ UNCHANGED <<reports, analysis, decision, jobs>>
       \/ \E stage \in Stage : SaveReport(stage)
       \/ \E r \in Runners : StoreAnswer(r) \/ StoreFailure(r)
       \/ \E actor \in Role : ConfirmAnalysis(actor)
       \/ \E documents \in BOOLEAN : ConfirmSolutions(documents)
       \/ \E on \in BOOLEAN : SetAiPolicy(on)
       \/ QueueReport1
       \/ \E m \in DOMAIN meetings, t \in Transcripts \cup {None} : SaveRecording(m, t)
       \/ \E t \in Transcripts : SaveTranscript(t)
       \/ \E j \in DOMAIN jobs : RetryJob(j)
       \/ \E r \in Runners, j \in DOMAIN jobs : Claim(r, j)
  BY DEF Next, Run, BeforeRequest, RunLost, Command, ImportIntakeSource, SaveSource,
       ExcludeSource, RequestDocument, MarkRequestSent, ReceiveDocument, ReviewDocument,
       RecordContract, ConfirmPayment, StartAftercare, BookMeeting, CompleteMeeting,
       CancelMeeting, ai, evidence
<1>17. QED
  BY <1>1, <1>2, <1>3, <1>4, <1>5, <1>7, <1>9, <1>10, <1>11, <1>13, <1>14, <1>15, <1>16

\* The number of reports of the six stages, and after one more of stage st.
LEMMA SixCounts ==
  ASSUME NEW a \in Nat, NEW b \in Nat, NEW c \in Nat,
         NEW d \in Nat, NEW e \in Nat, NEW f \in Nat
  PROVE  a + b + c + d + e + f \in Nat
OBVIOUS

LEMMA OneMoreCount ==
  ASSUME NEW n, NEW m, NEW st \in Stage,
         \A k \in Stage : n[k] \in Nat,
         \A k \in Stage : m[k] = IF k = st THEN n[k] + 1 ELSE n[k]
  PROVE  m[1] + m[2] + m[3] + m[4] + m[5] + m[6]
         = (n[1] + n[2] + n[3] + n[4] + n[5] + n[6]) + 1
<1>1. /\ n[1] \in Nat /\ n[2] \in Nat /\ n[3] \in Nat
      /\ n[4] \in Nat /\ n[5] \in Nat /\ n[6] \in Nat
  BY DEF Stage
<1>2. /\ m[1] = IF 1 = st THEN n[1] + 1 ELSE n[1]
      /\ m[2] = IF 2 = st THEN n[2] + 1 ELSE n[2]
      /\ m[3] = IF 3 = st THEN n[3] + 1 ELSE n[3]
      /\ m[4] = IF 4 = st THEN n[4] + 1 ELSE n[4]
      /\ m[5] = IF 5 = st THEN n[5] + 1 ELSE n[5]
      /\ m[6] = IF 6 = st THEN n[6] + 1 ELSE n[6]
  BY DEF Stage
<1>3. st = 1 \/ st = 2 \/ st = 3 \/ st = 4 \/ st = 5 \/ st = 6
  BY DEF Stage
<1>4. QED
  BY <1>1, <1>2, <1>3, SMT

\* Every list of a case only grows, up to its limit.
LEMMA LimitsKept ==
  ASSUME TypeOK, JobsReferenceHold, LimitsHold, Next
  PROVE  LimitsHold'
<1>1. ReportCount' <= MaxReports
  <2>1. /\ Len(reports[1]) \in Nat /\ Len(reports[2]) \in Nat /\ Len(reports[3]) \in Nat
        /\ Len(reports[4]) \in Nat /\ Len(reports[5]) \in Nat /\ Len(reports[6]) \in Nat
        /\ MaxReports \in Nat
    BY Lists, FlowAssumption DEF Stage
  <2>2. ReportCount \in Nat
    BY <2>1, SixCounts DEF ReportCount
  <2>3. ASSUME NEW st \in Stage, NEW p \in Report, NewReport(st, p)
        PROVE  ReportCount' = ReportCount + 1
    <3> DEFINE n == [k \in Stage |-> Len(reports[k])]
               m == [k \in Stage |-> Len(reports'[k])]
    <3>1. /\ \A k \in Stage : k # st => reports'[k] = reports[k]
          /\ Len(reports'[st]) = Len(reports[st]) + 1
      BY <2>3, AddReportEffect DEF NewReport
    <3>2. /\ \A k \in Stage : n[k] \in Nat
          /\ \A k \in Stage : m[k] = IF k = st THEN n[k] + 1 ELSE n[k]
      BY <3>1, Lists
    <3>3. /\ ReportCount = n[1] + n[2] + n[3] + n[4] + n[5] + n[6]
          /\ ReportCount' = m[1] + m[2] + m[3] + m[4] + m[5] + m[6]
      BY DEF ReportCount, Stage
    <3> HIDE DEF n, m
    <3>4. m[1] + m[2] + m[3] + m[4] + m[5] + m[6]
          = (n[1] + n[2] + n[3] + n[4] + n[5] + n[6]) + 1
      BY <3>2, OneMoreCount
    <3>5. QED
      BY <3>3, <3>4
  <2>4. ASSUME UNCHANGED reports PROVE ReportCount' = ReportCount
    BY <2>4 DEF ReportCount
  <2>5. ASSUME NEW st \in Stage, NEW p \in Report, NewReport(st, p)
        PROVE  ReportCount' <= MaxReports
    <3>1. ReportCount < MaxReports
      BY <2>5 DEF NewReport
    <3>2. QED
      BY <2>1, <2>2, <2>3, <2>5, <3>1
  <2>6. QED
    BY <2>2, <2>4, <2>5, ReportsStep DEF LimitsHold, SameReports
<1>2. /\ MaxMeetings \in Nat /\ MaxRecordings \in Nat /\ MaxRequests \in Nat /\ MaxJobs \in Nat
      /\ Len(meetings) \in Nat /\ Len(recordings) \in Nat
      /\ Len(requests) \in Nat /\ Len(jobs) \in Nat
  BY FlowAssumption, Lists
<1>3. ASSUME NEW S, NEW s \in Seq(S), NEW e \in S PROVE Len(Append(s, e)) = Len(s) + 1
  BY <1>3, AppendProperties
<1>4. ASSUME NEW S, NEW s \in Seq(S), NEW f \in Seq(S), DOMAIN f = DOMAIN s
      PROVE  Len(f) = Len(s)
  BY <1>4, LenProperties
<1>5. TypeOK'
  BY NextType
<1>6. Len(meetings') <= MaxMeetings
  <2>1. ASSUME NEW kind \in {"first", "followup", "contract"},
               NEW attendance \in Role \cup {"both"}, BookMeeting(kind, attendance)
        PROVE  Len(meetings') = Len(meetings) + 1 /\ Len(meetings) < MaxMeetings
    <3> DEFINE e == [kind |-> kind, attendance |-> attendance, status |-> "scheduled"]
    <3>1. e \in Meeting /\ meetings' = Append(meetings, e)
      BY <2>1 DEF BookMeeting, Meeting
    <3>2. QED
      BY <1>3, <2>1, <3>1 DEF TypeOK, BookMeeting
  <2>2. ASSUME DOMAIN meetings' = DOMAIN meetings PROVE Len(meetings') = Len(meetings)
    BY <1>4, <1>5, <2>2 DEF TypeOK
  <2>3. \/ DOMAIN meetings' = DOMAIN meetings
        \/ \E kind \in {"first", "followup", "contract"}, attendance \in Role \cup {"both"} :
             BookMeeting(kind, attendance)
    BY DEF Next, Run, Claim, BeforeRequest, StoreAnswer, StoreFailure, RunLost, Command,
       ImportIntakeSource, SaveSource, ExcludeSource, SetAiPolicy, QueueReport1, SaveReport,
       ConfirmAnalysis, ConfirmSolutions, SaveRecording, SaveTranscript, RetryJob,
       RequestDocument, MarkRequestSent, ReceiveDocument, ReviewDocument, RecordContract,
       ConfirmPayment, StartAftercare, CompleteMeeting, CancelMeeting, evidence
  <2>4. QED
    BY <1>2, <2>1, <2>2, <2>3 DEF LimitsHold
<1>7. ASSUME NEW m \in DOMAIN meetings, NEW t \in Transcripts \cup {None}, SaveRecording(m, t)
      PROVE  /\ Len(recordings') = Len(recordings) + 1 /\ Len(recordings) < MaxRecordings
             /\ Len(jobs') = Len(jobs) + 1 /\ Len(jobs) < MaxJobs
  <2> DEFINE rec == [meeting |-> m, transcript |-> t]
             job == [stage |-> 4, rec |-> Len(recordings) + 1, src |-> LatestReport(1),
                     lease |-> 0,
                     status |-> IF enabled /\ t # None THEN "queued" ELSE "blocked"]
  <2>1. m \in Nat /\ Len(recordings) + 1 \in Nat /\ LatestReport(1) \in Nat
    BY Lists DEF LatestReport, Stage
  <2>2. rec \in Recording /\ recordings' = Append(recordings, rec)
    BY <1>7, <2>1 DEF SaveRecording, Recording
  <2>3. job \in Job /\ jobs' = Append(jobs, job)
    BY <1>7, <2>1 DEF SaveRecording, CreateJob, Job
  <2>4. Len(recordings) < MaxRecordings /\ Len(jobs) < MaxJobs
    BY <1>7 DEF SaveRecording
  <2>5. QED
    BY <1>3, <2>2, <2>3, <2>4 DEF TypeOK
<1>8. Len(recordings') <= MaxRecordings
  <2>1. ASSUME DOMAIN recordings' = DOMAIN recordings PROVE Len(recordings') = Len(recordings)
    BY <1>4, <1>5, <2>1 DEF TypeOK
  <2>2. \/ DOMAIN recordings' = DOMAIN recordings
        \/ \E m \in DOMAIN meetings, t \in Transcripts \cup {None} : SaveRecording(m, t)
    BY DEF Next, Run, Claim, BeforeRequest, StoreAnswer, StoreFailure, RunLost, Command,
       ImportIntakeSource, SaveSource, ExcludeSource, SetAiPolicy, QueueReport1, SaveReport,
       ConfirmAnalysis, ConfirmSolutions, SaveTranscript, RetryJob, RequestDocument,
       MarkRequestSent, ReceiveDocument, ReviewDocument, RecordContract, ConfirmPayment,
       StartAftercare, BookMeeting, CompleteMeeting, CancelMeeting, evidence
  <2>3. QED
    BY <1>2, <1>7, <2>1, <2>2 DEF LimitsHold
<1>9. Len(requests') <= MaxRequests
  <2>1. ASSUME NEW required \in BOOLEAN, RequestDocument(required)
        PROVE  Len(requests') = Len(requests) + 1 /\ Len(requests) < MaxRequests
    <3> DEFINE e == [required |-> required, file |-> None, sent |-> FALSE,
                     status |-> "requested", reviews |-> 0, verified |-> 0]
    <3>1. e \in Request /\ requests' = Append(requests, e)
      BY <2>1 DEF RequestDocument, Request
    <3>2. QED
      BY <1>3, <2>1, <3>1 DEF TypeOK, RequestDocument
  <2>2. ASSUME DOMAIN requests' = DOMAIN requests PROVE Len(requests') = Len(requests)
    BY <1>4, <1>5, <2>2 DEF TypeOK
  <2>3. \/ DOMAIN requests' = DOMAIN requests
        \/ \E required \in BOOLEAN : RequestDocument(required)
    BY DEF Next, Run, Claim, BeforeRequest, StoreAnswer, StoreFailure, RunLost, Command,
       ImportIntakeSource, SaveSource, ExcludeSource, SetAiPolicy, QueueReport1, SaveReport,
       ConfirmAnalysis, ConfirmSolutions, SaveRecording, SaveTranscript, RetryJob,
       MarkRequestSent, ReceiveDocument, ReviewDocument, RecordContract, ConfirmPayment,
       StartAftercare, BookMeeting, CompleteMeeting, CancelMeeting, evidence
  <2>4. QED
    BY <1>2, <2>1, <2>2, <2>3 DEF LimitsHold
<1>10. Len(jobs') <= MaxJobs
  <2>1. ASSUME DOMAIN jobs' = DOMAIN jobs PROVE Len(jobs') = Len(jobs)
    BY <1>4, <1>5, <2>1 DEF TypeOK
  <2>2. ASSUME QueueReport1 PROVE Len(jobs') = Len(jobs) + 1 /\ Len(jobs) < MaxJobs
    <3> DEFINE job == [stage |-> 1, rec |-> 0, src |-> 0, lease |-> 0,
                       status |-> IF enabled /\ TRUE THEN "queued" ELSE "blocked"]
    <3>1. job \in Job /\ jobs' = Append(jobs, job)
      BY <2>2 DEF QueueReport1, CreateJob, Job
    <3>2. QED
      BY <1>3, <2>2, <3>1 DEF TypeOK, QueueReport1
  <2>3. \/ DOMAIN jobs' = DOMAIN jobs
        \/ QueueReport1
        \/ \E m \in DOMAIN meetings, t \in Transcripts \cup {None} : SaveRecording(m, t)
    BY DEF Next, Run, Claim, BeforeRequest, StoreAnswer, StoreFailure, RunLost, Command,
       ImportIntakeSource, SaveSource, ExcludeSource, SetAiPolicy, SaveReport,
       ConfirmAnalysis, ConfirmSolutions, SaveTranscript, RetryJob, RequestDocument,
       MarkRequestSent, ReceiveDocument, ReviewDocument, RecordContract, ConfirmPayment,
       StartAftercare, BookMeeting, CompleteMeeting, CancelMeeting, ai
  <2>4. QED
    BY <1>2, <1>7, <2>1, <2>2, <2>3 DEF LimitsHold
<1>11. QED
  BY <1>1, <1>6, <1>8, <1>9, <1>10 DEF LimitsHold

\* A recording stays with its meeting, and a new one is of a meeting of the case.
LEMMA RecordingsStep ==
  ASSUME TypeOK, Next
  PROVE  /\ DOMAIN recordings \subseteq DOMAIN recordings'
         /\ \A r \in DOMAIN recordings' :
              IF r \in DOMAIN recordings
              THEN recordings'[r].meeting = recordings[r].meeting
              ELSE recordings'[r].meeting \in DOMAIN meetings
<1>1. ASSUME NEW m \in DOMAIN meetings, NEW t \in Transcripts \cup {None}, SaveRecording(m, t)
      PROVE  /\ DOMAIN recordings' = DOMAIN recordings \cup {Len(recordings) + 1}
             /\ \A r \in DOMAIN recordings : recordings'[r] = recordings[r]
             /\ recordings'[Len(recordings) + 1].meeting = m
  <2> DEFINE rec == [meeting |-> m, transcript |-> t]
  <2>1. m \in Nat
    BY Lists
  <2>2. rec \in Recording /\ recordings' = Append(recordings, rec) /\ rec.meeting = m
    BY <1>1, <2>1 DEF SaveRecording, Recording
  <2>3. recordings \in Seq(Recording)
    BY DEF TypeOK
  <2>4. /\ Len(recordings') = Len(recordings) + 1 /\ recordings' \in Seq(Recording)
        /\ \A r \in 1 .. Len(recordings) : recordings'[r] = recordings[r]
        /\ recordings'[Len(recordings) + 1] = rec
    BY <2>2, <2>3, AppendProperties
  <2>5. DOMAIN recordings' = 1 .. Len(recordings) + 1
    BY <2>4, LenProperties
  <2>6. QED
    BY <2>2, <2>4, <2>5, Lists
<1>2. ASSUME NEW t \in Transcripts, SaveTranscript(t)
      PROVE  /\ DOMAIN recordings' = DOMAIN recordings
             /\ \A r \in DOMAIN recordings : recordings'[r].meeting = recordings[r].meeting
  BY <1>2, Lists DEF SaveTranscript, Recording
<1>3. \/ UNCHANGED recordings
      \/ \E m \in DOMAIN meetings, t \in Transcripts \cup {None} : SaveRecording(m, t)
      \/ \E t \in Transcripts : SaveTranscript(t)
  BY DEF Next, Run, Claim, BeforeRequest, StoreAnswer, StoreFailure, RunLost, Command,
       ImportIntakeSource, SaveSource, ExcludeSource, SetAiPolicy, QueueReport1, SaveReport,
       ConfirmAnalysis, ConfirmSolutions, RetryJob, RequestDocument,
       MarkRequestSent, ReceiveDocument, ReviewDocument, RecordContract, ConfirmPayment,
       StartAftercare, BookMeeting, CompleteMeeting, CancelMeeting, evidence
<1>4. QED
  BY <1>1, <1>2, <1>3

\* What ReportsStep means for the reports: the old ones stay, at most one is new.
LEMMA ReportsGrow ==
  ASSUME TypeOK, NEW st \in Stage, NEW p \in Report, NewReport(st, p)
  PROVE  /\ \A k \in Stage : \A v \in DOMAIN reports[k] :
              v \in DOMAIN reports'[k] /\ reports'[k][v] = reports[k][v]
         /\ \A k \in Stage : \A v \in DOMAIN reports'[k] :
              \/ v \in DOMAIN reports[k] /\ reports'[k][v] = reports[k][v]
              \/ k = st /\ v = Len(reports[st]) + 1 /\ reports'[k][v] = p
         /\ Len(reports[st]) + 1 \in DOMAIN reports'[st]
         /\ Len(reports[st]) + 1 \notin DOMAIN reports[st]
         /\ reports'[st][Len(reports[st]) + 1] = p
<1>1. /\ \A k \in Stage : k # st => reports'[k] = reports[k]
      /\ \A v \in DOMAIN reports[st] : reports'[st][v] = reports[st][v]
      /\ DOMAIN reports'[st] = DOMAIN reports[st] \cup {Len(reports[st]) + 1}
      /\ reports'[st][Len(reports[st]) + 1] = p
  BY AddReportEffect DEF NewReport
<1>2. Len(reports[st]) \in Nat /\ DOMAIN reports[st] = 1 .. Len(reports[st])
  BY Lists
<1>3. QED
  BY <1>1, <1>2

LEMMA StatesFollow == ASSUME StageInv PROVE StatesHold
BY DEF StageInv, StatesHold, ExecutionIsPaid, ContractRestsOnEvidence, StagesInOrder

LEMMA ReferencesKept ==
  ASSUME TypeOK, TypeOK', StageInv', ReferencesHold, JobsReferenceHold, Next
  PROVE  ReferencesHold'
<1>1. Contracted' => /\ contract'.meeting \in DOMAIN meetings'
                     /\ meetings'[contract'.meeting].kind = "contract"
                     /\ contract'.report \in DOMAIN reports'[6]
  <2>1. SUFFICES ASSUME Contracted'
                 PROVE  /\ contract'.meeting \in DOMAIN meetings'
                        /\ meetings'[contract'.meeting].kind = "contract"
                        /\ contract'.report \in DOMAIN reports'[6]
    OBVIOUS
  <2>2. /\ contract'.meeting \in DOMAIN meetings'
        /\ meetings'[contract'.meeting].kind = "contract"
        /\ contract'.report = Len(reports'[6]) /\ Len(reports'[6]) # 0
    BY <2>1 DEF StageInv, StagesInOrder, ContractRestsOnEvidence, SigningPreparationDone,
       LatestReport
  <2>3. reports'[6] \in Seq(Report)
    BY DEF TypeOK, Stage
  <2>4. QED
    BY <2>2, <2>3, LenProperties
<1>2. \A r \in DOMAIN recordings' : recordings'[r].meeting \in DOMAIN meetings'
  BY RecordingsStep, MeetingsStep DEF MeetingsGrow, ReferencesHold
<1>3. DOMAIN recordings \subseteq DOMAIN recordings'
  BY RecordingsStep
<1>4. /\ 1 \in Stage /\ 4 \in Stage
      /\ LatestReport(1) \in {0} \cup DOMAIN reports[1]
      /\ DeepReports \subseteq DOMAIN reports[4]
  <2>1. 1 \in Stage /\ 4 \in Stage
    BY DEF Stage
  <2>2. Len(reports[1]) \in Nat /\ DOMAIN reports[1] = 1 .. Len(reports[1])
    BY <2>1, Lists
  <2>3. QED
    BY <2>1, <2>2 DEF LatestReport, DeepReports
<1>5. CASE SameReports
  <2>1. \A stage \in Stage : \A v \in DOMAIN reports'[stage] : ReportHolds(reports[stage][v])'
    BY <1>3, <1>5 DEF SameReports, ReferencesHold, ReportHolds
  <2>2. /\ analysis'.report \in {0} \cup DOMAIN reports'[1]
        /\ DecisionAgrees'
        /\ decision'.id # 0 => decision'.report \in DOMAIN reports'[4]
    BY <1>4, <1>5 DEF SameReports, ReferencesHold
  <2>3. QED
    BY <1>1, <1>2, <2>1, <2>2 DEF ReferencesHold
<1>6. ASSUME NEW st \in Stage, NEW p \in Report, NewReport(st, p) PROVE ReferencesHold'
  <2>1. /\ \A k \in Stage : \A v \in DOMAIN reports[k] : v \in DOMAIN reports'[k]
        /\ \A k \in Stage : \A v \in DOMAIN reports'[k] :
             \/ v \in DOMAIN reports[k] /\ reports'[k][v] = reports[k][v]
             \/ reports'[k][v] = p
        /\ Len(reports[st]) + 1 \in DOMAIN reports'[st]
    BY <1>6, ReportsGrow
  <2>2. /\ UNCHANGED <<recordings, decision>> /\ ReportHolds(p) /\ p.decision \in {0, decision.id}
    BY <1>6 DEF NewReport
  <2>3. \A stage \in Stage : \A v \in DOMAIN reports'[stage] : ReportHolds(reports[stage][v])'
    BY <1>4, <2>1, <2>2 DEF ReferencesHold, ReportHolds
  <2>4. DecisionAgrees'
    BY <2>1, <2>2 DEF ReferencesHold, DecisionAgrees
  <2>5. analysis'.report \in {0} \cup DOMAIN reports'[1]
    <3>1. CASE st = 1
      <4>1. analysis'.report = Len(reports[1]) + 1
        BY <1>6, <3>1 DEF NewReport, AddReport
      <4>2. QED
        BY <2>1, <3>1, <4>1
    <3>2. CASE st # 1
      <4>1. analysis' = analysis
        BY <1>6, <3>2 DEF NewReport, AddReport
      <4>2. QED
        BY <1>4, <2>1, <4>1 DEF ReferencesHold
    <3>3. QED
      BY <3>1, <3>2
  <2>6. decision'.id # 0 => decision'.report \in DOMAIN reports'[4]
    BY <1>4, <2>1, <2>2 DEF ReferencesHold
  <2>7. QED
    BY <1>1, <1>2, <2>3, <2>4, <2>5, <2>6 DEF ReferencesHold
<1>7. QED
  BY <1>5, <1>6, ReportsStep

\* The reviews of a request are numbered, so an approved one has the number of its
\* review, and a request without a file has not been received.
LEMMA RequestsHoldKept ==
  ASSUME TypeOK, Next, \A i \in DOMAIN requests : RequestHolds(requests[i])
  PROVE  \A i \in DOMAIN requests' : RequestHolds(requests'[i])
<1> DEFINE Kept == \A i \in DOMAIN requests' : RequestHolds(requests'[i])
<1>1. ASSUME NEW i \in DOMAIN requests, NEW q, requests' = [requests EXCEPT ![i] = q],
             RequestHolds(q)
      PROVE  Kept
  BY <1>1
<1>2. \A i \in DOMAIN requests : requests[i] \in Request /\ RequestHolds(requests[i])
  BY Lists
<1>3. None \notin Documents
  BY FlowAssumption
<1>4. ASSUME NEW required \in BOOLEAN, RequestDocument(required) PROVE Kept
  <2> DEFINE new == [required |-> required, file |-> None, sent |-> FALSE,
                     status |-> "requested", reviews |-> 0, verified |-> 0]
  <2>1. /\ Len(requests) \in Nat /\ DOMAIN requests = 1 .. Len(requests)
        /\ DOMAIN requests' = 1 .. (Len(requests) + 1)
        /\ \A i \in DOMAIN requests : requests'[i] = requests[i]
        /\ requests'[Len(requests) + 1] = new
    <3>1. requests' = Append(requests, new) /\ requests \in Seq(Request) /\ new \in Request
      BY <1>4 DEF RequestDocument, TypeOK, Request
    <3>2. QED
      BY <3>1, Lists, AppendProperties, LenProperties
  <2>2. RequestHolds(new)
    BY DEF RequestHolds
  <2>3. QED
    BY <1>2, <2>1, <2>2
<1>5. ASSUME NEW i \in DOMAIN requests, MarkRequestSent(i) PROVE Kept
  <2> DEFINE q == [requests[i] EXCEPT !.sent = TRUE]
  <2>1. requests' = [requests EXCEPT ![i] = q]
    BY <1>5 DEF MarkRequestSent
  <2>2. RequestHolds(q)
    BY <1>2 DEF Request, RequestHolds
  <2>3. QED
    BY <1>1, <2>1, <2>2
<1>6. ASSUME NEW i \in DOMAIN requests, NEW file \in Documents, ReceiveDocument(i, file)
      PROVE  Kept
  <2> DEFINE n == IF requests[i].file # file \/ requests[i].status # "received"
                  THEN 0 ELSE requests[i].verified
             q == [requests[i] EXCEPT !.file = file, !.status = "received", !.verified = n]
  <2>1. requests' = [requests EXCEPT ![i] = q]
    BY <1>6 DEF ReceiveDocument
  <2>2. q.status = "received" /\ q.file = file /\ q.verified = 0
    BY <1>2 DEF Request, RequestHolds
  <2>3. RequestHolds(q)
    BY <1>3, <2>2 DEF RequestHolds
  <2>4. QED
    BY <1>1, <2>1, <2>3
<1>7. ASSUME NEW i \in DOMAIN requests, NEW approved \in BOOLEAN, ReviewDocument(i, approved)
      PROVE  Kept
  <2> DEFINE n == requests[i].reviews + 1
             q == [requests[i] EXCEPT !.status = IF approved THEN "verified" ELSE "needs_fix",
                     !.reviews = n, !.verified = IF approved THEN n ELSE 0]
  <2>1. requests' = [requests EXCEPT ![i] = q] /\ requests[i].file # None
    BY <1>7 DEF ReviewDocument
  <2>2. q.file # None /\ q.status = (IF approved THEN "verified" ELSE "needs_fix")
        /\ q.verified = IF approved THEN n ELSE 0
    BY <1>2, <2>1 DEF Request
  <2>3. n # 0
    BY <1>2 DEF Request
  <2>4. RequestHolds(q)
    BY <2>2, <2>3 DEF RequestHolds
  <2>5. QED
    BY <1>1, <2>1, <2>4
<1>8. \/ UNCHANGED requests
      \/ \E required \in BOOLEAN : RequestDocument(required)
      \/ \E i \in DOMAIN requests : MarkRequestSent(i)
      \/ \E i \in DOMAIN requests, file \in Documents : ReceiveDocument(i, file)
      \/ \E i \in DOMAIN requests, approved \in BOOLEAN : ReviewDocument(i, approved)
  BY DEF Next, Run, Claim, BeforeRequest, StoreAnswer, StoreFailure, RunLost, Command,
       ImportIntakeSource, SaveSource, ExcludeSource, SetAiPolicy, QueueReport1, SaveReport,
       ConfirmAnalysis, ConfirmSolutions, SaveRecording, SaveTranscript, RetryJob,
       RecordContract, ConfirmPayment, StartAftercare, BookMeeting, CompleteMeeting,
       CancelMeeting, evidence
<1>9. CASE UNCHANGED requests
  BY <1>9
<1>10. QED
  BY <1>4, <1>5, <1>6, <1>7, <1>8, <1>9

\* What a step does to the jobs, as the commit sees it.
LEMMA JobsReferenceKept ==
  ASSUME TypeOK, JobsReferenceHold, JobsAccepted, Next, TypeOK'
  PROVE  JobsReferenceHold'
<1>1. DOMAIN recordings \subseteq DOMAIN recordings'
  BY RecordingsStep
<1>2. DOMAIN reports[1] \subseteq DOMAIN reports'[1]
  <2>1. 1 \in Stage
    BY DEF Stage
  <2>2. QED
    BY <2>1, ReportsStep, ReportsGrow DEF SameReports
<1>3. ASSUME NEW j \in DOMAIN jobs', j \in DOMAIN jobs,
             jobs'[j].rec = jobs[j].rec, jobs'[j].src = jobs[j].src
      PROVE  /\ jobs'[j].rec \in {0} \cup DOMAIN recordings'
             /\ jobs'[j].src \in {0} \cup DOMAIN reports'[1]
  BY <1>1, <1>2, <1>3 DEF JobsReferenceHold
<1>4. /\ Len(recordings') \in {0} \cup DOMAIN recordings'
      /\ Len(reports'[1]) \in {0} \cup DOMAIN reports'[1]
  <2>1. recordings' \in Seq(Recording) /\ reports'[1] \in Seq(Report)
    BY DEF TypeOK, Stage
  <2>2. QED
    BY <2>1, LenProperties
<1>5. CASE jobs' = jobs
  BY <1>3, <1>5 DEF JobsReferenceHold
<1>6. CASE /\ DOMAIN jobs \subseteq DOMAIN jobs'
           /\ \A j \in DOMAIN jobs :
                [jobs'[j] EXCEPT !.status = jobs[j].status, !.lease = jobs[j].lease] = jobs[j]
           /\ \A j \in DOMAIN jobs' \ DOMAIN jobs : NewJobOK(jobs'[j])
  <2>1. \A j \in DOMAIN jobs' : jobs'[j] \in Job
    <3>1. jobs' \in Seq(Job)
      BY DEF TypeOK
    <3>2. QED
      BY <3>1, ElementOfSeq, LenProperties
  <2>2. ASSUME NEW j \in DOMAIN jobs
        PROVE  jobs'[j].rec = jobs[j].rec /\ jobs'[j].src = jobs[j].src
    <3>1. jobs'[j] \in Job
      BY <1>6, <2>1
    <3>2. [jobs'[j] EXCEPT !.status = jobs[j].status, !.lease = jobs[j].lease] = jobs[j]
      BY <1>6
    <3>3. /\ [jobs'[j] EXCEPT !.status = jobs[j].status, !.lease = jobs[j].lease].rec = jobs'[j].rec
          /\ [jobs'[j] EXCEPT !.status = jobs[j].status, !.lease = jobs[j].lease].src = jobs'[j].src
      BY <3>1 DEF Job
    <3>4. QED
      BY <3>2, <3>3
  <2>3. ASSUME NEW j \in DOMAIN jobs', j \notin DOMAIN jobs
        PROVE  /\ jobs'[j].rec \in {0} \cup DOMAIN recordings'
               /\ jobs'[j].src \in {0} \cup DOMAIN reports'[1]
    <3>1. NewJobOK(jobs'[j]) /\ jobs'[j].stage \in {1, 4}
      BY <1>6, <2>1, <2>3 DEF Job
    <3>2. QED
      BY <1>4, <3>1 DEF NewJobOK
  <2>4. QED
    BY <1>3, <2>2, <2>3 DEF JobsReferenceHold
<1>7. QED
  BY <1>5, <1>6 DEF JobsAccepted

\* A report is of a job that was running, which it completes; no other step
\* completes a job.
LEMMA ResultsKept ==
  ASSUME TypeOK, TypeOK', JobsReferenceHold, JobsAccepted, Next, ReportsNameJobs,
         \A j \in DOMAIN jobs : JobHolds(j)
  PROVE  ReportsNameJobs' /\ \A j \in DOMAIN jobs' : JobHolds(j)'
<1>1. 0 \notin DOMAIN jobs /\ 0 \notin DOMAIN jobs'
  <2>1. jobs \in Seq(Job) /\ jobs' \in Seq(Job)
    BY DEF TypeOK
  <2>2. QED
    BY <2>1, LenProperties
<1>2. ASSUME SameReports PROVE ReportsNameJobs' /\ \A j \in DOMAIN jobs' : JobHolds(j)'
  <2>1. DOMAIN jobs \subseteq DOMAIN jobs'
    BY DEF JobsAccepted
  <2>2. \A j : Reported(j)' = Reported(j)
    BY <1>2 DEF SameReports, Reported
  <2>3. ReportsNameJobs'
    BY <1>2, <2>1 DEF SameReports, ReportsNameJobs
  <2>4. ASSUME NEW j \in DOMAIN jobs PROVE JobHolds(j)'
    <3>1. CASE jobs'[j] = jobs[j]
      BY <2>2, <2>4, <3>1 DEF JobHolds
    <3>2. CASE jobs' # jobs
      <4>1. KeepsLifecycle(jobs[j], jobs'[j])
            /\ [jobs'[j] EXCEPT !.status = jobs[j].status, !.lease = jobs[j].lease] = jobs[j]
        BY <3>2 DEF JobsAccepted
      <4>2. jobs'[j] \in Job /\ jobs[j] \in Job
        <5>1. jobs' \in Seq(Job) /\ j \in DOMAIN jobs'
          BY <2>1 DEF TypeOK
        <5>2. QED
          BY <5>1, ElementOfSeq, LenProperties, Lists
      <4>3. [jobs'[j] EXCEPT !.status = jobs[j].status, !.lease = jobs[j].lease].stage
            = jobs'[j].stage
        BY <4>2 DEF Job
      <4>4. jobs'[j].stage = jobs[j].stage
        BY <4>1, <4>3
      <4>5. jobs'[j].status = "complete" => jobs[j].status = "complete"
        BY <1>2 DEF SameReports
      <4>6. QED
        BY <2>2, <2>4, <4>1, <4>2, <4>4, <4>5 DEF JobHolds, KeepsLifecycle, Job
    <3>3. QED
      BY <3>1, <3>2
  <2>5. ASSUME NEW j \in DOMAIN jobs', j \notin DOMAIN jobs PROVE JobHolds(j)'
    <3>1. NewJobOK(jobs'[j])
      BY <2>5 DEF JobsAccepted
    <3>2. Reported(j) = {}
      BY <1>1, <2>5 DEF ReportsNameJobs, Reported
    <3>3. QED
      BY <2>2, <3>1, <3>2 DEF NewJobOK, JobHolds
  <2>6. QED
    BY <2>3, <2>4, <2>5
<1>3. ASSUME NEW st \in Stage, NEW p \in Report, NewReport(st, p)
      PROVE  ReportsNameJobs' /\ \A j \in DOMAIN jobs' : JobHolds(j)'
  <2> DEFINE n == Len(reports[st]) + 1
  <2>1. /\ \A k \in Stage : \A v \in DOMAIN reports[k] :
             v \in DOMAIN reports'[k] /\ reports'[k][v] = reports[k][v]
        /\ \A k \in Stage : \A v \in DOMAIN reports'[k] :
             \/ v \in DOMAIN reports[k] /\ reports'[k][v] = reports[k][v]
             \/ k = st /\ v = n /\ reports'[k][v] = p
        /\ n \in DOMAIN reports'[st] /\ n \notin DOMAIN reports[st] /\ reports'[st][n] = p
    BY <1>3, ReportsGrow
  <2> HIDE DEF n
  <2>2. \A j : j # p.job => Reported(j)' = Reported(j)
    BY <2>1 DEF Reported
  <2>3. Reported(p.job)' = Reported(p.job) \cup {st}
    BY <2>1 DEF Reported
  <2>4. CASE p.job = 0 /\ UNCHANGED jobs
    <3>1. ReportsNameJobs'
      <4> SUFFICES ASSUME NEW stage \in Stage, NEW v \in DOMAIN reports'[stage],
                          reports'[stage][v].job # 0
                   PROVE  LET j == reports'[stage][v].job IN
                          /\ j \in DOMAIN jobs'
                          /\ \A other \in Stage : \A w \in DOMAIN reports'[other] :
                               reports'[other][w].job = j => other = stage /\ w = v
        BY DEF ReportsNameJobs
      <4>1. v \in DOMAIN reports[stage] /\ reports'[stage][v] = reports[stage][v]
        BY <2>1, <2>4
      <4>2. QED
        BY <2>1, <2>4, <4>1 DEF ReportsNameJobs
    <3>2. ASSUME NEW j \in DOMAIN jobs' PROVE JobHolds(j)'
      <4>1. Reported(j)' = Reported(j)
        BY <1>1, <2>2, <2>4
      <4>2. QED
        BY <2>4, <4>1 DEF JobHolds
    <3>3. QED
      BY <3>1, <3>2
  <2>5. CASE /\ p.job \in DOMAIN jobs /\ jobs[p.job].status = "processing"
             /\ jobs[p.job].stage = st
             /\ jobs' = [jobs EXCEPT ![p.job].status = "complete"]
    <3>1. jobs[p.job] \in Job /\ \A j \in DOMAIN jobs : jobs[j] \in Job
      BY <2>5, Lists
    <3>2. /\ Reported(p.job) = {} /\ jobs[p.job].lease # 0
      BY <2>5 DEF JobHolds
    <3>3. /\ DOMAIN jobs' = DOMAIN jobs
          /\ \A j \in DOMAIN jobs : j # p.job => jobs'[j] = jobs[j]
          /\ jobs'[p.job].status = "complete" /\ jobs'[p.job].stage = st
          /\ jobs'[p.job].lease = jobs[p.job].lease
      BY <2>5, <3>1 DEF Job
    <3>4. ReportsNameJobs'
      <4> SUFFICES ASSUME NEW stage \in Stage, NEW v \in DOMAIN reports'[stage],
                          reports'[stage][v].job # 0
                   PROVE  LET j == reports'[stage][v].job IN
                          /\ j \in DOMAIN jobs'
                          /\ \A other \in Stage : \A w \in DOMAIN reports'[other] :
                               reports'[other][w].job = j => other = stage /\ w = v
        BY DEF ReportsNameJobs
      <4>1. CASE v \in DOMAIN reports[stage] /\ reports'[stage][v] = reports[stage][v]
        <5>1. reports[stage][v].job # p.job
          BY <3>2, <4>1 DEF Reported
        <5>2. QED
          BY <2>1, <3>3, <4>1, <5>1 DEF ReportsNameJobs
      <4>2. CASE stage = st /\ v = n /\ reports'[stage][v] = p
        <5>1. \A other \in Stage : \A w \in DOMAIN reports[other] :
                reports[other][w].job # p.job
          BY <3>2 DEF Reported
        <5>2. QED
          BY <2>1, <2>5, <3>3, <4>2, <5>1
      <4>3. QED
        BY <2>1, <4>1, <4>2
    <3>5. ASSUME NEW j \in DOMAIN jobs', j # p.job PROVE JobHolds(j)'
      BY <2>2, <3>3, <3>5 DEF JobHolds
    <3>6. JobHolds(p.job)'
      BY <2>3, <3>2, <3>3 DEF JobHolds
    <3>7. QED
      BY <3>4, <3>5, <3>6
  <2>6. QED
    BY <1>3, <2>4, <2>5 DEF NewReport
<1>4. QED
  BY <1>2, <1>3, ReportsStep

\* A contract agrees on a deposit.
LEMMA WellFormedKept ==
  ASSUME TypeOK', StageInv', WellFormed, Next
  PROVE  WellFormed'
<1>1. /\ ReportsWellFormed' /\ MeetingsWellFormed' /\ RecordingsWellFormed'
      /\ decision' \in [id : Nat, report : Nat, documents : BOOLEAN]
      /\ contract' \in [meeting : Nat, report : Nat, deposit : Nat]
  BY DEF TypeOK, ReportsWellFormed, MeetingsWellFormed, RecordingsWellFormed
<1>2. Contracted' => contract'.report # 0
  BY DEF StageInv, ContractRestsOnEvidence, SigningPreparationDone
<1>3. Contracted' => contract'.deposit # 0
  <2>1. CASE contract' = contract
    BY <2>1 DEF WellFormed, AgreementsWellFormed, Contracted
  <2>2. CASE \E actor \in Role, m \in DOMAIN meetings, deposit \in 1 .. MaxDeposit :
               RecordContract(actor, m, deposit)
    BY <2>2 DEF RecordContract
  <2>3. contract' = contract \/ \E actor \in Role, m \in DOMAIN meetings,
                                   deposit \in 1 .. MaxDeposit : RecordContract(actor, m, deposit)
    BY DEF Next, Run, Claim, BeforeRequest, StoreAnswer, StoreFailure, RunLost, Command,
       ImportIntakeSource, SaveSource, ExcludeSource, SetAiPolicy, QueueReport1, SaveReport,
       ConfirmAnalysis, ConfirmSolutions, SaveRecording, SaveTranscript, RetryJob,
       RequestDocument, MarkRequestSent, ReceiveDocument, ReviewDocument, ConfirmPayment,
       StartAftercare, BookMeeting, CompleteMeeting, CancelMeeting, signed
  <2>4. QED
    BY <2>1, <2>2, <2>3
<1>4. QED
  BY <1>1, <1>2, <1>3 DEF WellFormed, AgreementsWellFormed

\* What a step keeps of the shape, with the strengthening.
ShapeInv == FlowsReadBack /\ ReportsNameJobs

LEMMA ShapeKept ==
  ASSUME FlowInv, FlowInv', StoreInv, ShapeInv, Next
  PROVE  ShapeInv'
<1>1. /\ TypeOK /\ TypeOK' /\ StageInv' /\ WellFormed
      /\ LimitsHold /\ ReferencesHold /\ JobsReferenceHold /\ ReportsNameJobs
      /\ \A i \in DOMAIN requests : RequestHolds(requests[i])
      /\ \A j \in DOMAIN jobs : JobHolds(j)
  BY DEF FlowInv, StageInv, ShapeInv, FlowsReadBack
<1>2. JobsAccepted
  <2>1. Passes \/ UNCHANGED <<evidence, signed, ai>>
    BY StepPasses
  <2>2. QED
    BY <2>1 DEF Passes, Accepted, JobsAccepted, ai
<1>3. LimitsHold' /\ WellFormed'
  BY <1>1, LimitsKept, WellFormedKept
<1>4. ReferencesHold' /\ JobsReferenceHold'
  BY <1>1, <1>2, ReferencesKept, JobsReferenceKept
<1>5. \A i \in DOMAIN requests' : RequestHolds(requests'[i])
  BY <1>1, RequestsHoldKept
<1>6. ReportsNameJobs' /\ \A j \in DOMAIN jobs' : JobHolds(j)'
  BY <1>1, <1>2, ResultsKept
<1>7. StatesHold'
  BY <1>1 DEF StageInv, StatesHold, ExecutionIsPaid, ContractRestsOnEvidence, StagesInOrder
<1>8. QED
  BY <1>3, <1>4, <1>5, <1>6, <1>7 DEF ShapeInv, FlowsReadBack, RequestHolds

LEMMA ShapeInit == ASSUME Init PROVE ShapeInv
<1>1. /\ reports = [st \in Stage |-> <<>>] /\ meetings = <<>> /\ recordings = <<>>
      /\ requests = <<>> /\ jobs = <<>> /\ analysis.report = 0 /\ decision.id = 0
      /\ contract = [meeting |-> 0, report |-> 0, deposit |-> 0] /\ paid = 0
      /\ execution = FALSE /\ aftercare = FALSE
  BY DEF Init
<1>2. ReportCount = 0 /\ LimitsHold
  BY <1>1, FlowAssumption DEF ReportCount, LimitsHold, Stage
<1>3. ~Contracted
  BY <1>1 DEF Contracted
<1>4. WellFormed
  BY <1>3, InitType DEF TypeOK, WellFormed, ReportsWellFormed, MeetingsWellFormed,
     RecordingsWellFormed, AgreementsWellFormed
<1>5. QED
  BY <1>1, <1>2, <1>3, <1>4 DEF ShapeInv, FlowsReadBack, ReferencesHold, DecisionAgrees,
     JobsReferenceHold, StatesHold, DepositComplete, ReportsNameJobs

LEMMA ShapeInvariant == Spec => []ShapeInv
<1>1. FlowInv /\ FlowInv' /\ StoreInv /\ ShapeInv /\ [Next]_vars => ShapeInv'
  <2>1. ASSUME ShapeInv, UNCHANGED vars PROVE ShapeInv'
    <3>1. UNCHANGED <<reports, analysis, meetings, recordings, requests, decision, contract,
                      paid, execution, aftercare, jobs>>
      BY <2>1 DEF vars, evidence, signed, ai
    <3>2. LimitsHold' /\ WellFormed'
      BY <2>1, <3>1 DEF ShapeInv, FlowsReadBack, LimitsHold, ReportCount, WellFormed,
         ReportsWellFormed, MeetingsWellFormed, RecordingsWellFormed, AgreementsWellFormed,
         Contracted
    <3>3. ReferencesHold' /\ JobsReferenceHold'
      BY <2>1, <3>1 DEF ShapeInv, FlowsReadBack, ReferencesHold, ReportHolds, DecisionAgrees,
         Contracted, JobsReferenceHold
    <3>4. (\A i \in DOMAIN requests : RequestHolds(requests[i]))'
      BY <2>1, <3>1 DEF ShapeInv, FlowsReadBack, RequestHolds
    <3>5. (\A j \in DOMAIN jobs : JobHolds(j))'
      BY <2>1, <3>1 DEF ShapeInv, FlowsReadBack, JobHolds, Reported
    <3>6. StatesHold' /\ ReportsNameJobs'
      BY <2>1, <3>1 DEF ShapeInv, FlowsReadBack, StatesHold, Contracted, DepositComplete,
         ReportsNameJobs
    <3>7. QED
      BY <3>2, <3>3, <3>4, <3>5, <3>6 DEF ShapeInv, FlowsReadBack
  <2>2. QED
    BY <2>1, ShapeKept
<1>2. Init => ShapeInv
  BY ShapeInit
<1>3. QED
  BY <1>1, <1>2, StoreInvariant, PTL DEF Spec

\* Every case the commands and the runs leave passes the check of the next read.
THEOREM FlowsRead == Spec => []FlowsReadBack
<1>1. ShapeInv => FlowsReadBack
  BY DEF ShapeInv
<1>2. QED
  BY <1>1, ShapeInvariant, PTL

\* A job has one result, and exactly when it is complete.
THEOREM OneResult == Spec => []OneResultPerJob
<1>1. ASSUME TypeOK, ShapeInv PROVE OneResultPerJob
  <2> SUFFICES ASSUME NEW j \in DOMAIN jobs
               PROVE  LET Results(stage) == {v \in DOMAIN reports[stage] :
                                               reports[stage][v].job = j}
                      IN  /\ Cardinality(Results(1)) + Cardinality(Results(4)) <= 1
                          /\ Results(1) \cup Results(4) # {} <=> jobs[j].status = "complete"
    BY DEF OneResultPerJob
  <2> DEFINE Results(stage) == {v \in DOMAIN reports[stage] : reports[stage][v].job = j}
  <2>1. j # 0 /\ jobs[j].stage \in {1, 4} /\ 1 \in Stage /\ 4 \in Stage
    BY <1>1, Lists DEF Job, Stage
  <2>2. JobHolds(j) /\ ReportsNameJobs
    BY <1>1 DEF ShapeInv, FlowsReadBack
  <2>3. CASE jobs[j].status # "complete"
    <3>1. Reported(j) = {}
      BY <2>2, <2>3 DEF JobHolds
    <3>2. Results(1) = {} /\ Results(4) = {}
      BY <2>1, <3>1 DEF Reported
    <3>3. Cardinality(Results(1)) = 0 /\ Cardinality(Results(4)) = 0
      BY <3>2, FS_EmptySet
    <3>4. QED
      BY <2>3, <3>2, <3>3
  <2>4. CASE jobs[j].status = "complete"
    <3>1. Reported(j) = {jobs[j].stage}
      BY <2>2, <2>4 DEF JobHolds
    <3>2. PICK v \in DOMAIN reports[jobs[j].stage] : reports[jobs[j].stage][v].job = j
      BY <3>1 DEF Reported
    <3>3. /\ Results(jobs[j].stage) = {v}
          /\ \A other \in Stage \ {jobs[j].stage} : Results(other) = {}
      BY <2>1, <2>2, <3>2 DEF ReportsNameJobs
    <3>4. \/ Results(1) = {v} /\ Results(4) = {}
          \/ Results(4) = {v} /\ Results(1) = {}
      BY <2>1, <3>3
    <3>5. Cardinality({v}) = 1 /\ Cardinality({}) = 0
      BY FS_EmptySet, FS_Singleton
    <3>6. Cardinality(Results(1)) + Cardinality(Results(4)) = 1
      <4>1. \/ Cardinality(Results(1)) = 1 /\ Cardinality(Results(4)) = 0
            \/ Cardinality(Results(1)) = 0 /\ Cardinality(Results(4)) = 1
        BY <3>4, <3>5
      <4> HIDE DEF Results
      <4>2. QED
        BY <4>1
    <3>7. Results(1) \cup Results(4) # {}
      BY <3>4
    <3>8. QED
      BY <2>4, <3>6, <3>7
  <2>5. QED
    BY <2>3, <2>4
<1>2. QED
  BY <1>1, TypeCorrect, ShapeInvariant, PTL
=============================================================================
