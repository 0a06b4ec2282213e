----------------------- MODULE ConsultingFlowProofs -----------------------
(***************************************************************************)
(* Proofs about ConsultingFlow, for every number of reports, meetings,     *)
(* recordings, requests, jobs and concurrent AI runs.                      *)
(***************************************************************************)
EXTENDS ConsultingFlow, SequenceTheorems, TLAPS

\* A function on 1 .. n with values in S is a sequence of length n.
LEMMA MapSeq ==
  ASSUME NEW S, NEW n \in Nat, NEW f \in [1 .. n -> S]
  PROVE  f \in Seq(S) /\ Len(f) = n /\ DOMAIN f = 1 .. n
<1>1. f \in Seq(S)
  BY SeqDef
<1>2. QED
  BY <1>1, LenProperties

\* A map over a sequence that yields elements of S is a sequence of S.
LEMMA SameLength ==
  ASSUME NEW S, NEW s \in Seq(S), NEW f \in [DOMAIN s -> S]
  PROVE  f \in Seq(S) /\ Len(f) = Len(s) /\ DOMAIN f = DOMAIN s
<1>1. Len(s) \in Nat /\ DOMAIN s = 1 .. Len(s)
  BY LenProperties
<1>2. QED
  BY <1>1, MapSeq

\* The lengths and the elements of the lists of a case.
LEMMA Lists ==
  ASSUME TypeOK
  PROVE  /\ \A st \in Stage : /\ reports[st] \in Seq(Report)
                              /\ Len(reports[st]) \in Nat
                              /\ DOMAIN reports[st] = 1 .. Len(reports[st])
                              /\ \A v \in DOMAIN reports[st] : reports[st][v] \in Report
         /\ Len(meetings) \in Nat /\ DOMAIN meetings = 1 .. Len(meetings)
         /\ \A m \in DOMAIN meetings : meetings[m] \in Meeting
         /\ Len(recordings) \in Nat /\ DOMAIN recordings = 1 .. Len(recordings)
         /\ \A r \in DOMAIN recordings : recordings[r] \in Recording
         /\ Len(requests) \in Nat /\ DOMAIN requests = 1 .. Len(requests)
         /\ \A i \in DOMAIN requests : requests[i] \in Request
         /\ Len(jobs) \in Nat /\ DOMAIN jobs = 1 .. Len(jobs)
         /\ \A j \in DOMAIN jobs : jobs[j] \in Job
<1>1. \A st \in Stage : reports[st] \in Seq(Report)
  BY DEF TypeOK
<1>2. meetings \in Seq(Meeting) /\ recordings \in Seq(Recording)
      /\ requests \in Seq(Request) /\ jobs \in Seq(Job)
  BY DEF TypeOK
<1>3. QED
  BY <1>1, <1>2, LenProperties, ElementOfSeq

\* The newest reports, recording and decision have numbers.
LEMMA Newest ==
  ASSUME TypeOK
  PROVE  /\ \A stage \in Stage : LatestReport(stage) \in Nat
         /\ LatestReport(1) \in Nat /\ LatestReport(6) \in Nat
         /\ LatestRecording \in Nat /\ decision.id \in Nat
<1>1. \A stage \in Stage : LatestReport(stage) \in Nat
  BY Lists DEF LatestReport
<1>2. 1 \in Stage /\ 6 \in Stage
  BY DEF Stage
<1>3. LatestRecording \in Nat
  BY Lists DEF LatestRecording
<1>4. decision.id \in Nat
  BY DEF TypeOK
<1>5. QED
  BY <1>1, <1>2, <1>3, <1>4

\* The key of the verified documents has the type the reports record.
LEMMA KeyType ==
  ASSUME TypeOK
  PROVE  DocumentsKey \in SUBSET (Nat \X (Documents \cup {None}) \X Nat)
<1>1. \A i \in Required : /\ i \in Nat /\ requests[i].file \in Documents \cup {None}
                          /\ requests[i].verified \in Nat
  BY Lists DEF Required, Request
<1>2. QED
  BY <1>1 DEF DocumentsKey

\* Adding a report keeps the types, and changes its stage only.
LEMMA AddReportType ==
  ASSUME TypeOK, NEW st \in Stage, NEW r \in Report, AddReport(st, r)
  PROVE  /\ reports' \in [Stage -> Seq(Report)]
         /\ analysis' \in [report : Nat, admin : BOOLEAN, partner : BOOLEAN]
<1>1. Append(reports[st], r) \in Seq(Report) /\ Len(reports[st]) \in Nat
  BY Lists, AppendProperties
<1>2. reports' \in [Stage -> Seq(Report)]
  BY <1>1 DEF TypeOK, AddReport
<1>3. QED
  BY <1>1, <1>2 DEF TypeOK, AddReport

LEMMA CreateJobType ==
  ASSUME TypeOK, NEW st \in {1, 4}, NEW rec \in Nat, NEW src \in Nat,
         NEW ready \in BOOLEAN, CreateJob(st, rec, src, ready)
  PROVE  jobs' \in Seq(Job)
<1> DEFINE job == [stage |-> st, rec |-> rec, src |-> src, lease |-> 0,
                   status |-> IF enabled /\ ready THEN "queued" ELSE "blocked"]
<1>1. job \in Job
  BY DEF Job
<1>2. jobs' = Append(jobs, job)
  BY DEF CreateJob
<1>3. QED
  BY <1>1, <1>2, AppendProperties DEF TypeOK

\* Evidence and the approval of the AI.
LEMMA SourceType ==
  ASSUME TypeOK,
         \/ \E new \in Sources : ImportIntakeSource(new) \/ SaveSource(new)
         \/ \E new \in Sources \cup {None} : ExcludeSource(new)
         \/ \E on \in BOOLEAN : SetAiPolicy(on)
         \/ QueueReport1
  PROVE  TypeOK'
<1>1. CASE \/ \E new \in Sources : ImportIntakeSource(new) \/ SaveSource(new)
           \/ \E new \in Sources \cup {None} : ExcludeSource(new)
  BY <1>1 DEF TypeOK, ImportIntakeSource, SaveSource, ExcludeSource, evidence, signed, runs
<1>2. ASSUME NEW on \in BOOLEAN, SetAiPolicy(on)
      PROVE  TypeOK'
  <2>1. \A j \in DOMAIN jobs : [jobs[j] EXCEPT !.status = "blocked"] \in Job
    BY Lists DEF Job
  <2>2. jobs' \in [DOMAIN jobs -> Job]
    BY <1>2, <2>1, Lists DEF SetAiPolicy
  <2>3. jobs' \in Seq(Job)
    BY <2>2, SameLength DEF TypeOK
  <2>4. QED
    BY <1>2, <2>3 DEF TypeOK, SetAiPolicy, evidence, signed, runs
<1>3. CASE QueueReport1
  <2>1. jobs' \in Seq(Job)
    BY <1>3, CreateJobType DEF QueueReport1
  <2>2. QED
    BY <1>3, <2>1 DEF TypeOK, QueueReport1, evidence, signed, runs
<1>4. QED
  BY <1>1, <1>2, <1>3

\* Reports and their confirmation.
LEMMA ReportType ==
  ASSUME TypeOK, \/ \E stage \in Stage : SaveReport(stage)
                 \/ \E actor \in Role : ConfirmAnalysis(actor)
  PROVE  TypeOK'
<1>1. ASSUME NEW stage \in Stage, SaveReport(stage)
      PROVE  TypeOK'
  <2> DEFINE report ==
        [src |-> IF stage = 1 THEN 0 ELSE LatestReport(1),
         rec |-> IF stage = 4 THEN LatestRecording ELSE 0,
         decision |-> IF stage >= 5 THEN decision.id ELSE 0,
         key |-> IF stage >= 5 THEN DocumentsKey ELSE {},
         job |-> 0, body |-> "manual"]
  <2>1. LatestReport(1) \in Nat /\ LatestRecording \in Nat /\ decision.id \in Nat
    BY Newest
  <2>2. report \in Report
    BY <2>1, KeyType DEF Report
  <2>3. AddReport(stage, report)
    BY <1>1 DEF SaveReport
  <2>4. /\ reports' \in [Stage -> Seq(Report)]
        /\ analysis' \in [report : Nat, admin : BOOLEAN, partner : BOOLEAN]
    BY <2>2, <2>3, AddReportType
  <2>5. QED
    BY <1>1, <2>4 DEF TypeOK, SaveReport, signed, ai, runs
<1>2. ASSUME NEW actor \in Role, ConfirmAnalysis(actor)
      PROVE  TypeOK'
  <2>1. LatestReport(1) \in Nat
    BY Lists DEF LatestReport, Stage
  <2>2. analysis' \in [report : Nat, admin : BOOLEAN, partner : BOOLEAN]
    BY <1>2, <2>1 DEF ConfirmAnalysis, TypeOK
  <2>3. QED
    BY <1>2, <2>2 DEF TypeOK, ConfirmAnalysis, signed, ai, runs
<1>3. QED
  BY <1>1, <1>2

\* Meetings and the contract, which completes one.
LEMMA MeetingType ==
  ASSUME TypeOK,
         \/ \E kind \in {"first", "followup", "contract"}, attendance \in Role \cup {"both"} :
              BookMeeting(kind, attendance)
         \/ \E actor \in Role, m \in DOMAIN meetings :
              CompleteMeeting(actor, m) \/ CancelMeeting(actor, m)
         \/ \E actor \in Role, m \in DOMAIN meetings, deposit \in 1 .. MaxDeposit :
              RecordContract(actor, m, deposit)
  PROVE  TypeOK'
<1>1. ASSUME NEW kind \in {"first", "followup", "contract"},
             NEW attendance \in Role \cup {"both"}, BookMeeting(kind, attendance)
      PROVE  TypeOK'
  <2>1. [kind |-> kind, attendance |-> attendance, status |-> "scheduled"] \in Meeting
    BY DEF Meeting
  <2>2. meetings' \in Seq(Meeting)
    BY <1>1, <2>1, AppendProperties DEF BookMeeting, TypeOK
  <2>3. QED
    BY <1>1, <2>2 DEF TypeOK, BookMeeting, signed, ai, runs
<1>2. ASSUME NEW m \in DOMAIN meetings, NEW st \in {"completed", "cancelled"}
      PROVE  [meetings EXCEPT ![m].status = st] \in Seq(Meeting)
  <2>1. [meetings[m] EXCEPT !.status = st] \in Meeting
    BY Lists DEF Meeting
  <2>2. [meetings EXCEPT ![m].status = st] \in [DOMAIN meetings -> Meeting]
    BY <2>1, Lists
  <2>3. QED
    BY <2>2, SameLength DEF TypeOK
<1>3. ASSUME NEW actor \in Role, NEW m \in DOMAIN meetings,
             CompleteMeeting(actor, m) \/ CancelMeeting(actor, m)
      PROVE  TypeOK'
  BY <1>2, <1>3 DEF TypeOK, CompleteMeeting, CancelMeeting, signed, ai, runs
<1>4. ASSUME NEW actor \in Role, NEW m \in DOMAIN meetings,
             NEW deposit \in 1 .. MaxDeposit, RecordContract(actor, m, deposit)
      PROVE  TypeOK'
  <2>1. LatestReport(6) \in Nat
    BY Newest
  <2>2. m \in Nat
    BY Lists
  <2>3. deposit \in Nat
    BY FlowAssumption
  <2>4. QED
    BY <1>2, <1>4, <2>1, <2>2, <2>3 DEF TypeOK, RecordContract, ai, runs
<1>5. QED
  BY <1>1, <1>3, <1>4

\* Recordings, transcripts and retried jobs.
LEMMA RecordingType ==
  ASSUME TypeOK,
         \/ \E m \in DOMAIN meetings, t \in Transcripts \cup {None} : SaveRecording(m, t)
         \/ \E t \in Transcripts : SaveTranscript(t)
         \/ \E j \in DOMAIN jobs : RetryJob(j)
  PROVE  TypeOK'
<1>1. ASSUME NEW m \in DOMAIN meetings, NEW t \in Transcripts \cup {None},
             SaveRecording(m, t)
      PROVE  TypeOK'
  <2>1. m \in Nat /\ Len(recordings) + 1 \in Nat /\ LatestReport(1) \in Nat
    BY Lists DEF LatestReport, Stage
  <2>2. [meeting |-> m, transcript |-> t] \in Recording
    BY <2>1 DEF Recording
  <2>3. recordings' \in Seq(Recording)
    BY <1>1, <2>2, AppendProperties DEF SaveRecording, TypeOK
  <2>4. CreateJob(4, Len(recordings) + 1, LatestReport(1), t # None)
    BY <1>1 DEF SaveRecording
  <2>5. jobs' \in Seq(Job)
    BY <2>1, <2>4, CreateJobType
  <2>6. QED
    BY <1>1, <2>3, <2>5 DEF TypeOK, SaveRecording, signed, runs
<1>2. ASSUME NEW t \in Transcripts, SaveTranscript(t)
      PROVE  TypeOK'
  <2>1. LatestRecording \in DOMAIN recordings
    <3>1. Len(recordings) # 0 /\ LatestRecording = Len(recordings)
      BY <1>2 DEF SaveTranscript, LatestRecording
    <3>2. Len(recordings) \in Nat /\ DOMAIN recordings = 1 .. Len(recordings)
      BY Lists
    <3>3. QED
      BY <3>1, <3>2
  <2>2. [recordings[LatestRecording] EXCEPT !.transcript = t] \in Recording
    BY <2>1, Lists DEF Recording
  <2>3. recordings' \in [DOMAIN recordings -> Recording]
    BY <1>2, <2>1, <2>2, Lists DEF SaveTranscript
  <2>4. \A j \in DOMAIN jobs, st \in {"queued", "blocked"} :
          [jobs[j] EXCEPT !.status = st, !.lease = 0] \in Job
    BY Lists DEF Job
  <2>5. jobs' \in [DOMAIN jobs -> Job]
    BY <1>2, <2>4, Lists DEF SaveTranscript
  <2>6. recordings' \in Seq(Recording) /\ jobs' \in Seq(Job)
    BY <2>3, <2>5, SameLength DEF TypeOK
  <2>7. QED
    BY <1>2, <2>6 DEF TypeOK, SaveTranscript, signed, runs
<1>3. ASSUME NEW j \in DOMAIN jobs, RetryJob(j)
      PROVE  TypeOK'
  <2>1. [jobs[j] EXCEPT !.status = "queued", !.lease = 0] \in Job
    BY Lists DEF Job
  <2>2. jobs' = [jobs EXCEPT ![j] = [jobs[j] EXCEPT !.status = "queued", !.lease = 0]]
    BY <1>3, Lists DEF RetryJob
  <2>3. jobs' \in [DOMAIN jobs -> Job]
    BY <2>1, <2>2, Lists
  <2>4. jobs' \in Seq(Job)
    BY <2>3, SameLength DEF TypeOK
  <2>5. QED
    BY <1>3, <2>4 DEF TypeOK, RetryJob, evidence, signed, runs
<1>4. QED
  BY <1>1, <1>2, <1>3

\* The decision, the documents, the payments and the aftercare.
LEMMA DocumentType ==
  ASSUME TypeOK,
         \/ \E documents \in BOOLEAN : ConfirmSolutions(documents)
         \/ \E required \in BOOLEAN : RequestDocument(required)
         \/ \E i \in DOMAIN requests : MarkRequestSent(i)
         \/ \E i \in DOMAIN requests, file \in Documents : ReceiveDocument(i, file)
         \/ \E i \in DOMAIN requests, approved \in BOOLEAN : ReviewDocument(i, approved)
         \/ \E amount \in 1 .. MaxDeposit : ConfirmPayment(amount)
         \/ StartAftercare
  PROVE  TypeOK'
<1>1. ASSUME NEW documents \in BOOLEAN, ConfirmSolutions(documents)
      PROVE  TypeOK'
  <2>1. DeepReports \subseteq Nat
    BY Lists DEF DeepReports, Stage
  <2>2. decision' \in [id : Nat, report : Nat, documents : BOOLEAN]
    BY <1>1, <2>1 DEF ConfirmSolutions, TypeOK
  <2>3. QED
    BY <1>1, <2>2 DEF TypeOK, ConfirmSolutions, signed, ai, runs
<1>2. ASSUME NEW required \in BOOLEAN, RequestDocument(required)
      PROVE  TypeOK'
  <2>1. [required |-> required, file |-> None, sent |-> FALSE, status |-> "requested",
         reviews |-> 0, verified |-> 0] \in Request
    BY DEF Request
  <2>2. requests' \in Seq(Request)
    BY <1>2, <2>1, AppendProperties DEF RequestDocument, TypeOK
  <2>3. QED
    BY <1>2, <2>2 DEF TypeOK, RequestDocument, signed, ai, runs
<1>3. ASSUME NEW i \in DOMAIN requests, NEW q \in Request,
             requests' = [requests EXCEPT ![i] = q],
             UNCHANGED <<reports, analysis, meetings, recordings, decision, signed, ai, runs>>
      PROVE  TypeOK'
  <2>1. requests' \in [DOMAIN requests -> Request]
    BY <1>3, Lists
  <2>2. requests' \in Seq(Request)
    BY <2>1, SameLength DEF TypeOK
  <2>3. QED
    BY <1>3, <2>2 DEF TypeOK, signed, ai, runs
<1>4. ASSUME NEW i \in DOMAIN requests, MarkRequestSent(i)
      PROVE  TypeOK'
  <2> DEFINE q == [requests[i] EXCEPT !.sent = TRUE]
  <2>1. q \in Request /\ requests' = [requests EXCEPT ![i] = q]
    BY <1>4, Lists DEF MarkRequestSent, Request
  <2>2. QED
    BY <1>3, <1>4, <2>1 DEF MarkRequestSent
<1>5. ASSUME NEW i \in DOMAIN requests, NEW file \in Documents, ReceiveDocument(i, file)
      PROVE  TypeOK'
  <2> DEFINE n == IF requests[i].file # file \/ requests[i].status # "received"
                  THEN 0 ELSE requests[i].verified
             q == [requests[i] EXCEPT !.file = file, !.status = "received", !.verified = n]
  <2>1. q \in Request /\ requests' = [requests EXCEPT ![i] = q]
    BY <1>5, Lists DEF ReceiveDocument, Request
  <2>2. QED
    BY <1>3, <1>5, <2>1 DEF ReceiveDocument
<1>6. ASSUME NEW i \in DOMAIN requests, NEW approved \in BOOLEAN, ReviewDocument(i, approved)
      PROVE  TypeOK'
  <2> DEFINE n == requests[i].reviews + 1
             q == [requests[i] EXCEPT !.status = IF approved THEN "verified" ELSE "needs_fix",
                     !.reviews = n, !.verified = IF approved THEN n ELSE 0]
  <2>1. requests[i] \in Request /\ n \in Nat
    BY Lists DEF Request
  <2>2. q \in Request
    BY <2>1 DEF Request
  <2>3. requests' = [requests EXCEPT ![i] = q]
    BY <1>6, Lists DEF ReviewDocument
  <2>4. QED
    BY <1>3, <1>6, <2>2, <2>3 DEF ReviewDocument
<1>7. CASE (\E amount \in 1 .. MaxDeposit : ConfirmPayment(amount)) \/ StartAftercare
  <2>1. 1 .. MaxDeposit \subseteq Nat
    BY FlowAssumption
  <2>2. paid' \in Nat /\ execution' \in BOOLEAN /\ aftercare' \in BOOLEAN
    <3>1. CASE StartAftercare
      BY <3>1 DEF TypeOK, StartAftercare
    <3>2. ASSUME NEW amount \in 1 .. MaxDeposit, ConfirmPayment(amount)
          PROVE  paid' \in Nat /\ execution' \in BOOLEAN /\ aftercare' \in BOOLEAN
      <4>1. paid' = paid + amount /\ paid \in Nat /\ amount \in Nat
        BY <2>1, <3>2 DEF ConfirmPayment, TypeOK
      <4>2. execution' = TRUE \/ execution' = FALSE
        BY <3>2, Zenon DEF ConfirmPayment
      <4>3. aftercare' \in BOOLEAN
        BY <3>2 DEF ConfirmPayment, TypeOK
      <4>4. execution' \in BOOLEAN
        BY <4>2
      <4>5. paid' \in Nat
        BY <4>1
      <4>6. QED
        BY <4>3, <4>4, <4>5
    <3>3. QED
      BY <1>7, <3>1, <3>2
  <2>3. UNCHANGED <<evidence, contract, ai, runs>>
    BY <1>7 DEF ConfirmPayment, StartAftercare
  <2>4. QED
    BY <2>2, <2>3 DEF TypeOK, evidence, ai, runs
<1>8. QED
  BY <1>1, <1>2, <1>4, <1>5, <1>6, <1>7

\* The AI runs.
LEMMA RunType == ASSUME TypeOK, Run PROVE TypeOK'
<1> SUFFICES ASSUME NEW r \in Runners,
                    \/ \E j \in DOMAIN jobs : Claim(r, j)
                    \/ BeforeRequest(r) \/ StoreAnswer(r) \/ StoreFailure(r) \/ RunLost(r)
             PROVE  TypeOK'
  BY DEF Run
<1>0. ASSUME NEW j \in DOMAIN jobs, NEW job \in Job,
             jobs' = [jobs EXCEPT ![j] = job]
      PROVE  jobs' \in Seq(Job)
  BY <1>0, Lists, SameLength DEF TypeOK
<1>00. Idle \in Runner
  BY DEF Idle, Runner
<1>1. ASSUME NEW j \in DOMAIN jobs, Claim(r, j)
      PROVE  TypeOK'
  <2>1. CASE JobIsCurrent(j)
    <3>1. Evidence(j) \in Transcripts \cup Sources \cup {None}
      BY Lists DEF Evidence, TypeOK, Recording
    <3>2. j \in Nat /\ claims + 1 \in Nat
      BY Lists DEF TypeOK
    <3>3. [pc |-> "claimed", job |-> j, lease |-> claims + 1, seen |-> Evidence(j)]
            \in Runner
      BY <3>1, <3>2 DEF Runner
    <3>4. [jobs[j] EXCEPT !.status = "processing", !.lease = claims + 1] \in Job
      BY <3>2, Lists DEF Job
    <3>5. jobs' = [jobs EXCEPT ![j] =
                     [jobs[j] EXCEPT !.status = "processing", !.lease = claims + 1]]
      BY <1>1, <2>1, Lists DEF Claim
    <3>6. jobs' \in Seq(Job)
      BY <1>0, <3>4, <3>5
    <3>7. runners' \in [Runners -> Runner] /\ claims' \in Nat
      BY <1>1, <2>1, <3>2, <3>3 DEF Claim, TypeOK
    <3>8. ASSUME NEW q \in Runners, runners'[q].pc = "called"
          PROVE  runners'[q].seen # None
      <4>1. CASE q = r
        <5>1. runners' = [runners EXCEPT ![r] = [pc |-> "claimed", job |-> j,
                            lease |-> claims + 1, seen |-> Evidence(j)]]
          BY <1>1, <2>1 DEF Claim
        <5>2. runners'[r].pc = "claimed"
          BY <5>1 DEF TypeOK
        <5>3. QED
          BY <3>8, <4>1, <5>2
      <4>2. CASE q # r
        BY <1>1, <2>1, <3>8, <4>2 DEF Claim, TypeOK
      <4>3. QED
        BY <4>1, <4>2
    <3>9. UNCHANGED <<evidence, signed, enabled, source>>
      BY <1>1 DEF Claim
    <3>10. QED
      BY <3>6, <3>7, <3>8, <3>9 DEF TypeOK, evidence, signed
  <2>2. CASE ~JobIsCurrent(j)
    <3>1. [jobs[j] EXCEPT !.status = "blocked"] \in Job
      BY Lists DEF Job
    <3>2. jobs' = [jobs EXCEPT ![j] = [jobs[j] EXCEPT !.status = "blocked"]]
      BY <1>1, <2>2, Lists DEF Claim
    <3>3. jobs' \in Seq(Job)
      BY <1>0, <3>1, <3>2
    <3>4. QED
      BY <1>1, <2>2, <3>3 DEF TypeOK, Claim, evidence, signed, runs
  <2>3. QED
    BY <2>1, <2>2
<1>2. CASE BeforeRequest(r)
  <2>1. \A pc \in {"called", "refused"} : [runners[r] EXCEPT !.pc = pc] \in Runner
    BY DEF TypeOK, Runner
  <2>2. runners' \in [Runners -> Runner]
    BY <1>2, <2>1 DEF BeforeRequest, TypeOK
  <2>3. ASSUME NEW q \in Runners, runners'[q].pc = "called"
        PROVE  runners'[q].seen # None
    <3>1. CASE q # r
      BY <1>2, <2>3, <3>1 DEF BeforeRequest, TypeOK
    <3>2. CASE q = r
      <4>1. runners[r].seen # None
        <5>1. CASE runners' = [runners EXCEPT ![r].pc = "refused"]
          <6>1. runners'[r].pc = "refused"
            BY <5>1 DEF TypeOK, Runner
          <6>2. QED
            BY <2>3, <3>2, <6>1
        <5>2. QED
          BY <1>2, <5>1 DEF BeforeRequest
      <4>2. \E pc \in {"called", "refused"} : runners' = [runners EXCEPT ![r].pc = pc]
        BY <1>2 DEF BeforeRequest
      <4>3. QED
        BY <3>2, <4>1, <4>2 DEF TypeOK, Runner
    <3>3. QED
      BY <3>1, <3>2
  <2>4. UNCHANGED <<evidence, signed, ai, claims>>
    BY <1>2 DEF BeforeRequest
  <2>5. QED
    BY <2>2, <2>3, <2>4 DEF TypeOK, evidence, signed, ai
<1>3. CASE StoreAnswer(r)
  <2> DEFINE j == runners[r].job
             report == [src |-> jobs[j].src, rec |-> jobs[j].rec, decision |-> 0,
                        key |-> {}, job |-> j, body |-> runners[r].seen]
  <2>1. j \in DOMAIN jobs
    BY <1>3 DEF StoreAnswer, Keep
  <2>2. jobs[j] \in Job /\ j \in Nat
    BY <2>1, Lists
  <2>3. report \in Report
    BY <1>3, <2>2 DEF StoreAnswer, TypeOK, Runner, Report, Job
  <2>4. jobs[j].stage \in Stage /\ AddReport(jobs[j].stage, report)
    BY <1>3, <2>2 DEF StoreAnswer, Job, Stage
  <2>5. /\ reports' \in [Stage -> Seq(Report)]
        /\ analysis' \in [report : Nat, admin : BOOLEAN, partner : BOOLEAN]
    BY <2>3, <2>4, AddReportType
  <2>6. [jobs[j] EXCEPT !.status = "complete"] \in Job
    BY <2>2 DEF Job
  <2>7. jobs' = [jobs EXCEPT ![j] = [jobs[j] EXCEPT !.status = "complete"]]
    BY <1>3, <2>1, Lists DEF StoreAnswer
  <2>8. jobs' \in Seq(Job)
    BY <1>0, <2>1, <2>6, <2>7
  <2>9. QED
    BY <1>3, <1>00, <2>5, <2>8 DEF TypeOK, StoreAnswer, Idle, signed
<1>4. CASE StoreFailure(r)
  <2> DEFINE j == runners[r].job
  <2>1. j \in DOMAIN jobs
    BY <1>4 DEF StoreFailure, Keep
  <2>2. PICK st \in {"failed", "blocked"} :
          jobs' = [jobs EXCEPT ![j].status = st]
    BY <1>4 DEF StoreFailure
  <2>3. [jobs[j] EXCEPT !.status = st] \in Job
    BY <2>1, Lists DEF Job
  <2>4. jobs' = [jobs EXCEPT ![j] = [jobs[j] EXCEPT !.status = st]]
    BY <2>1, <2>2, Lists
  <2>5. jobs' \in Seq(Job)
    BY <1>0, <2>1, <2>3, <2>4
  <2>6. QED
    BY <1>4, <1>00, <2>5 DEF TypeOK, StoreFailure, evidence, signed, Idle
<1>5. CASE RunLost(r)
  BY <1>5, <1>00 DEF TypeOK, RunLost, evidence, signed, ai, Idle
<1>6. QED
  BY <1>1, <1>2, <1>3, <1>4, <1>5

LEMMA InitType == Init => TypeOK
<1> SUFFICES ASSUME Init PROVE TypeOK
  OBVIOUS
<1>1. /\ <<>> \in Seq(Report) /\ <<>> \in Seq(Meeting) /\ <<>> \in Seq(Recording)
      /\ <<>> \in Seq(Request) /\ <<>> \in Seq(Job)
  BY EmptySeq
<1>2. Idle \in Runner
  BY DEF Idle, Runner
<1>3. reports \in [Stage -> Seq(Report)] /\ runners \in [Runners -> Runner]
  BY <1>1, <1>2 DEF Init
<1>4. \A r \in Runners : runners[r].pc = "idle"
  BY DEF Init, Idle
<1>5. QED
  BY <1>1, <1>3, <1>4 DEF Init, TypeOK

\* A case has the shape that the stored document is read back with.
LEMMA NextType == ASSUME TypeOK, [Next]_vars PROVE TypeOK'
<1>1. CASE UNCHANGED vars
  BY <1>1 DEF TypeOK, vars, evidence, signed, ai, runs
<1>2. CASE Command
  BY <1>2, SourceType, ReportType, MeetingType, RecordingType, DocumentType DEF Command
<1>3. QED
  BY <1>1, <1>2, RunType DEF Next

\* A case, its jobs and its runs keep the shape of lib/consulting-flow-shape.ts
\* under every command and every answer.
THEOREM TypeCorrect == Spec => []TypeOK
<1>1. Init => TypeOK
  BY InitType
<1>2. TypeOK /\ [Next]_vars => TypeOK'
  BY NextType
<1>3. QED
  BY <1>1, <1>2, PTL DEF Spec

-----------------------------------------------------------------------------
(* The stages *)

StageInv == StagesInOrder /\ FirstMeetingWasPrepared /\ ContractRestsOnEvidence
            /\ ExecutionIsPaid

\* What a step may do to the meetings: none disappears or changes its kind, and
\* a completed one stays completed.
MeetingsGrow ==
  /\ DOMAIN meetings \subseteq DOMAIN meetings'
  /\ \A m \in DOMAIN meetings :
       /\ meetings'[m].kind = meetings[m].kind
       /\ meetings[m].status = "completed" => meetings'[m].status = "completed"

LEMMA MeetingsStep == ASSUME TypeOK, Next PROVE MeetingsGrow
<1>1. CASE UNCHANGED meetings
  BY <1>1 DEF MeetingsGrow
<1>2. ASSUME NEW e \in Meeting, meetings' = Append(meetings, e)
      PROVE  MeetingsGrow
  BY <1>2, Lists, AppendProperties DEF MeetingsGrow, TypeOK
<1>3. ASSUME NEW m \in DOMAIN meetings, NEW st \in {"completed", "cancelled"},
             meetings[m].status = "completed" => st = "completed",
             meetings' = [meetings EXCEPT ![m].status = st]
      PROVE  MeetingsGrow
  BY <1>3, Lists DEF MeetingsGrow, Meeting
<1>4. ASSUME NEW kind \in {"first", "followup", "contract"},
             NEW attendance \in Role \cup {"both"}, BookMeeting(kind, attendance)
      PROVE  MeetingsGrow
  <2>1. [kind |-> kind, attendance |-> attendance, status |-> "scheduled"] \in Meeting
    BY DEF Meeting
  <2>2. QED
    BY <1>2, <1>4, <2>1 DEF BookMeeting
<1>5. ASSUME NEW actor \in Role, NEW m \in DOMAIN meetings,
             CompleteMeeting(actor, m) \/ CancelMeeting(actor, m)
      PROVE  MeetingsGrow
  <2>1. meetings[m].status # "completed"
    BY <1>5 DEF CompleteMeeting, CancelMeeting
  <2>2. QED
    BY <1>3, <1>5, <2>1 DEF CompleteMeeting, CancelMeeting
<1>6. ASSUME NEW actor \in Role, NEW m \in DOMAIN meetings,
             NEW deposit \in 1 .. MaxDeposit, RecordContract(actor, m, deposit)
      PROVE  MeetingsGrow
  BY <1>3, <1>6 DEF RecordContract
<1>7. CASE Run
  BY <1>1, <1>7 DEF Run, Claim, BeforeRequest, StoreAnswer, StoreFailure, RunLost, evidence
<1>8. ASSUME Command,
             ~\E kind \in {"first", "followup", "contract"},
                attendance \in Role \cup {"both"} : BookMeeting(kind, attendance),
             ~\E actor \in Role, m \in DOMAIN meetings :
                CompleteMeeting(actor, m) \/ CancelMeeting(actor, m),
             ~\E actor \in Role, m \in DOMAIN meetings, deposit \in 1 .. MaxDeposit :
                RecordContract(actor, m, deposit)
      PROVE  UNCHANGED meetings
  BY <1>8 DEF Command, ImportIntakeSource, SaveSource, ExcludeSource, SetAiPolicy,
       QueueReport1, SaveReport, ConfirmAnalysis, SaveRecording, SaveTranscript, RetryJob,
       ConfirmSolutions, RequestDocument, MarkRequestSent, ReceiveDocument, ReviewDocument,
       ConfirmPayment, StartAftercare, evidence
<1>9. QED
  BY <1>1, <1>4, <1>5, <1>6, <1>7, <1>8 DEF Next

\* A completed first meeting stays completed.
LEMMA FirstStays == ASSUME MeetingsGrow, FirstCompleted PROVE FirstCompleted'
BY DEF MeetingsGrow, FirstCompleted

\* The documents are the ones a decision and a quote rest on.
LEMMA DocumentsFollowFirst ==
  ASSUME TypeOK, StagesInOrder, DocumentsDone
  PROVE  FirstCompleted
<1>1. Len(recordings) # 0
  BY DEF DocumentsDone, IsDeepReport, DeepReports, LatestRecording
<1>2. recordings # <<>>
  BY <1>1
<1>3. QED
  BY <1>2 DEF StagesInOrder

\* What a report added to stage st leaves of the other stages and of its own.
LEMMA AddReportEffect ==
  ASSUME TypeOK, NEW st \in Stage, NEW r \in Report, AddReport(st, r)
  PROVE  /\ \A k \in Stage : k # st => reports'[k] = reports[k]
         /\ Len(reports'[st]) = Len(reports[st]) + 1
         /\ \A v \in DOMAIN reports[st] : reports'[st][v] = reports[st][v]
         /\ DOMAIN reports'[st] = DOMAIN reports[st] \cup {Len(reports[st]) + 1}
         /\ reports'[st][Len(reports[st]) + 1] = r
         /\ st # 1 => analysis' = analysis
<1>1. reports' = [reports EXCEPT ![st] = Append(reports[st], r)]
  BY DEF AddReport, TypeOK
<1>2. reports'[st] = Append(reports[st], r)
  BY <1>1 DEF TypeOK
<1>3. /\ Len(Append(reports[st], r)) = Len(reports[st]) + 1
      /\ \A v \in 1 .. Len(reports[st]) : Append(reports[st], r)[v] = reports[st][v]
      /\ Append(reports[st], r)[Len(reports[st]) + 1] = r
      /\ Append(reports[st], r) \in Seq(Report)
  BY Lists, AppendProperties
<1>4. DOMAIN Append(reports[st], r) = 1 .. Len(reports[st]) + 1
  BY <1>3, LenProperties
<1>5. \A k \in Stage : k # st => reports'[k] = reports[k]
  BY <1>1 DEF TypeOK
<1>6. DOMAIN reports[st] = 1 .. Len(reports[st]) /\ Len(reports[st]) \in Nat
  BY Lists
<1>7. st # 1 => analysis' = analysis
  BY DEF AddReport
<1>8. QED
  BY <1>2, <1>3, <1>4, <1>5, <1>6, <1>7

\* The report a save adds is a report.
LEMMA SavedReport ==
  ASSUME TypeOK, NEW stage \in Stage, SaveReport(stage)
  PROVE  \E r \in Report : /\ AddReport(stage, r) /\ r.job = 0
                           /\ stage # 1 => r.src = LatestReport(1)
<1> DEFINE report ==
      [src |-> IF stage = 1 THEN 0 ELSE LatestReport(1),
       rec |-> IF stage = 4 THEN LatestRecording ELSE 0,
       decision |-> IF stage >= 5 THEN decision.id ELSE 0,
       key |-> IF stage >= 5 THEN DocumentsKey ELSE {},
       job |-> 0, body |-> "manual"]
<1>1. LatestReport(1) \in Nat /\ LatestRecording \in Nat /\ decision.id \in Nat
  BY Newest
<1>2. report \in Report
  BY <1>1, KeyType DEF Report
<1>3. AddReport(stage, report)
  BY DEF SaveReport
<1>4. report.job = 0 /\ (stage # 1 => report.src = LatestReport(1))
  OBVIOUS
<1>5. QED
  BY <1>2, <1>3, <1>4

\* The report an answer adds: of its job's stage, from what its run was given.
LEMMA AnsweredReport ==
  ASSUME TypeOK, NEW r \in Runners, StoreAnswer(r)
  PROVE  LET j == runners[r].job IN
         /\ j \in DOMAIN jobs /\ jobs[j].stage \in {1, 4}
         /\ \E p \in Report : /\ AddReport(jobs[j].stage, p) /\ p.job = j
                              /\ p.rec = jobs[j].rec /\ p.src = jobs[j].src
                              /\ p.body = runners[r].seen
<1> DEFINE j == runners[r].job
           report == [src |-> jobs[j].src, rec |-> jobs[j].rec, decision |-> 0,
                      key |-> {}, job |-> j, body |-> runners[r].seen]
<1>1. j \in DOMAIN jobs
  BY DEF StoreAnswer, Keep
<1>2. jobs[j] \in Job /\ j \in Nat
  BY <1>1, Lists
<1>3. report \in Report
  BY <1>2 DEF StoreAnswer, TypeOK, Runner, Report, Job
<1>4. AddReport(jobs[j].stage, report)
  BY DEF StoreAnswer
<1>5. jobs[j].stage \in {1, 4}
  BY <1>2 DEF Job
<1>6. /\ report.job = j /\ report.rec = jobs[j].rec /\ report.src = jobs[j].src
      /\ report.body = runners[r].seen
  OBVIOUS
<1>7. QED
  BY <1>1, <1>3, <1>4, <1>5, <1>6

\* The joint analysis and the preparation are not disturbed by a report of a
\* later stage.
LEMMA LaterReportKeeps ==
  ASSUME TypeOK, NEW st \in Stage \ {1}, NEW r \in Report, AddReport(st, r),
         st \in {2, 3} => r.src = LatestReport(1),
         AnalysisDone, PreparationDone
  PROVE  AnalysisDone' /\ PreparationDone'
<1>1. /\ \A k \in Stage : k # st => reports'[k] = reports[k]
      /\ Len(reports'[st]) = Len(reports[st]) + 1
      /\ reports'[st][Len(reports[st]) + 1] = r
      /\ analysis' = analysis
  BY AddReportEffect
<1>2. LatestReport(1)' = LatestReport(1)
  BY <1>1 DEF LatestReport, Stage
<1>3. AnalysisDone'
  BY <1>1, <1>2 DEF AnalysisDone
<1>4. ASSUME NEW k \in {2, 3}
      PROVE  LatestReport(k)' # 0 /\ reports'[k][LatestReport(k)'].src = LatestReport(1)
  <2>1. CASE k # st
    BY <1>1, <1>4, <2>1 DEF PreparationDone, LatestReport, Stage
  <2>2. CASE k = st
    <3>1. Len(reports[st]) \in Nat
      BY Lists
    <3>2. LatestReport(k)' = Len(reports[st]) + 1
      BY <1>1, <2>2 DEF LatestReport
    <3>3. QED
      BY <1>1, <1>4, <2>2, <3>1, <3>2
  <2>3. QED
    BY <2>1, <2>2
<1>5. PreparationDone'
  BY <1>2, <1>3, <1>4 DEF PreparationDone, AnalysisDone
<1>6. QED
  BY <1>3, <1>5

\* What is prepared stays prepared after the first meeting.
LEMMA PreparedStays ==
  ASSUME TypeOK, Next, FirstCompleted, AnalysisDone, PreparationDone
  PROVE  AnalysisDone' /\ PreparationDone'
<1>1. CASE UNCHANGED <<reports, analysis>>
  BY <1>1 DEF AnalysisDone, PreparationDone, LatestReport
<1>2. ASSUME NEW stage \in Stage, SaveReport(stage)
      PROVE  AnalysisDone' /\ PreparationDone'
  <2>1. stage # 1
    BY <1>2 DEF SaveReport, StageReady
  <2>2. QED
    BY <1>2, <2>1, SavedReport, LaterReportKeeps
<1>3. ASSUME NEW actor \in Role, ConfirmAnalysis(actor)
      PROVE  AnalysisDone' /\ PreparationDone'
  <2>1. reports' = reports
    BY <1>3 DEF ConfirmAnalysis
  <2>2. analysis' = [analysis EXCEPT !.admin = TRUE] \/ analysis' = [analysis EXCEPT !.partner = TRUE]
    BY <1>3 DEF ConfirmAnalysis, AnalysisDone
  <2>3. analysis'.report = analysis.report /\ analysis'.admin /\ analysis'.partner
    BY <2>2 DEF AnalysisDone, TypeOK
  <2>4. QED
    BY <2>1, <2>3 DEF AnalysisDone, PreparationDone, LatestReport
<1>4. ASSUME NEW r \in Runners, StoreAnswer(r)
      PROVE  AnalysisDone' /\ PreparationDone'
  <2> DEFINE j == runners[r].job
  <2>1. JobIsCurrent(j)
    BY <1>4 DEF StoreAnswer
  <2>2. jobs[j].stage # 1
    BY <2>1 DEF JobIsCurrent
  <2>3. PICK p \in Report : AddReport(jobs[j].stage, p) /\ jobs[j].stage = 4
    BY <1>4, <2>2, AnsweredReport
  <2>4. QED
    BY <2>3, LaterReportKeeps DEF Stage
<1>5. ASSUME ~\E stage \in Stage : SaveReport(stage),
             ~\E actor \in Role : ConfirmAnalysis(actor),
             ~\E r \in Runners : StoreAnswer(r)
      PROVE  UNCHANGED <<reports, analysis>>
  BY <1>5 DEF Next, Command, Run, ImportIntakeSource, SaveSource, ExcludeSource, SetAiPolicy,
       QueueReport1, BookMeeting, CompleteMeeting, CancelMeeting, SaveRecording,
       SaveTranscript, RetryJob, ConfirmSolutions, RequestDocument, MarkRequestSent,
       ReceiveDocument, ReviewDocument, RecordContract, ConfirmPayment, StartAftercare,
       Claim, BeforeRequest, StoreFailure, RunLost, evidence
<1>6. QED
  BY <1>1, <1>2, <1>3, <1>4, <1>5

\* A first meeting is completed only when it is prepared.
LEMMA FirstPrepared ==
  ASSUME TypeOK, StageInv, Next
  PROVE  FirstMeetingWasPrepared'
<1>1. CASE FirstCompleted
  BY <1>1, PreparedStays DEF StageInv, FirstMeetingWasPrepared
<1>2. ASSUME ~FirstCompleted, FirstCompleted'
      PROVE  AnalysisDone' /\ PreparationDone'
  <2>1. ~UNCHANGED meetings
    BY <1>2 DEF FirstCompleted
  <2>2. ASSUME NEW kind \in {"first", "followup", "contract"},
               NEW attendance \in Role \cup {"both"}, BookMeeting(kind, attendance)
        PROVE  FALSE
    <3> DEFINE e == [kind |-> kind, attendance |-> attendance, status |-> "scheduled"]
    <3>1. e \in Meeting /\ meetings' = Append(meetings, e)
      BY <2>2 DEF BookMeeting, Meeting
    <3>2. /\ DOMAIN meetings' = DOMAIN meetings \cup {Len(meetings) + 1}
          /\ \A m \in DOMAIN meetings : meetings'[m] = meetings[m]
          /\ meetings'[Len(meetings) + 1].status = "scheduled"
      BY <3>1, Lists, AppendProperties DEF TypeOK
    <3>3. QED
      BY <1>2, <3>2 DEF FirstCompleted
  <2>3. ASSUME NEW actor \in Role, NEW m \in DOMAIN meetings, CancelMeeting(actor, m)
        PROVE  FALSE
    BY <1>2, <2>3, Lists DEF CancelMeeting, FirstCompleted, Meeting
  <2>4. ASSUME NEW actor \in Role, NEW m \in DOMAIN meetings, CompleteMeeting(actor, m)
        PROVE  AnalysisDone' /\ PreparationDone'
    <3>1. meetings[m].kind = "first"
      BY <1>2, <2>4, Lists DEF CompleteMeeting, FirstCompleted, Meeting
    <3>2. QED
      BY <2>4, <3>1 DEF CompleteMeeting, AnalysisDone, PreparationDone, LatestReport
  <2>5. ASSUME NEW actor \in Role, NEW m \in DOMAIN meetings,
               NEW deposit \in 1 .. MaxDeposit, RecordContract(actor, m, deposit)
        PROVE  FALSE
    BY <1>2, <2>5, Lists DEF RecordContract, FirstCompleted, Meeting
  <2>6. QED
    BY <2>1, <2>2, <2>3, <2>4, <2>5 DEF Next, Command, Run, ImportIntakeSource, SaveSource,
       ExcludeSource, SetAiPolicy, QueueReport1, SaveReport, ConfirmAnalysis, SaveRecording,
       SaveTranscript, RetryJob, ConfirmSolutions, RequestDocument, MarkRequestSent,
       ReceiveDocument, ReviewDocument, ConfirmPayment, StartAftercare,
       Claim, BeforeRequest, StoreAnswer, StoreFailure, RunLost, evidence
<1>3. QED
  BY <1>1, <1>2 DEF FirstMeetingWasPrepared

\* The contract is about a meeting of the case, and no payment precedes it.
LEMMA ContractAndPaid ==
  ASSUME TypeOK, StageInv, MeetingsGrow, Next
  PROVE  /\ Contracted' => contract'.meeting \in DOMAIN meetings'
         /\ ~Contracted' => paid' = 0
<1>1. CASE UNCHANGED <<contract, paid>>
  BY <1>1 DEF StageInv, StagesInOrder, Contracted, MeetingsGrow
<1>2. ASSUME NEW actor \in Role, NEW m \in DOMAIN meetings,
             NEW deposit \in 1 .. MaxDeposit, RecordContract(actor, m, deposit)
      PROVE  contract'.meeting = m /\ m # 0 /\ m \in DOMAIN meetings'
  BY <1>2, Lists DEF RecordContract, MeetingsGrow
<1>3. ASSUME NEW amount \in 1 .. MaxDeposit, ConfirmPayment(amount)
      PROVE  Contracted /\ UNCHANGED contract
  BY <1>3 DEF ConfirmPayment
<1>4. \/ UNCHANGED <<contract, paid>>
      \/ \E amount \in 1 .. MaxDeposit : ConfirmPayment(amount)
      \/ \E actor \in Role, m \in DOMAIN meetings, deposit \in 1 .. MaxDeposit :
           RecordContract(actor, m, deposit)
  BY DEF Next, Command, Run, ImportIntakeSource, SaveSource,
       ExcludeSource, SetAiPolicy, QueueReport1, SaveReport, ConfirmAnalysis, SaveRecording,
       SaveTranscript, RetryJob, ConfirmSolutions, RequestDocument, MarkRequestSent,
       ReceiveDocument, ReviewDocument, StartAftercare, BookMeeting, CompleteMeeting,
       CancelMeeting, Claim, BeforeRequest, StoreAnswer, StoreFailure, RunLost, signed
<1>5. QED
  BY <1>1, <1>2, <1>3, <1>4 DEF StageInv, StagesInOrder, Contracted, MeetingsGrow

\* Recordings and later meetings come after the first meeting.
LEMMA OrderKept ==
  ASSUME TypeOK, StageInv, Next
  PROVE  StagesInOrder'
<1>0. MeetingsGrow
  BY MeetingsStep
<1>1. CASE FirstCompleted
  <2>1. FirstCompleted'
    BY <1>0, <1>1, FirstStays
  <2>2. QED
    BY <2>1, <1>0, ContractAndPaid DEF StagesInOrder
<1>2. CASE ~FirstCompleted
  <2>1. /\ recordings = <<>>
        /\ \A m \in DOMAIN meetings : meetings[m].kind = "first"
        /\ \A m \in DOMAIN meetings : meetings[m].status # "completed"
        /\ ~DocumentsDone /\ ~SigningPreparationDone
    BY <1>2, DocumentsFollowFirst DEF StageInv, StagesInOrder, FirstCompleted,
       SigningPreparationDone
  <2>2. recordings' = <<>>
    BY <2>1, Lists DEF Next, Command, Run, ImportIntakeSource, SaveSource,
       ExcludeSource, SetAiPolicy, QueueReport1, SaveReport, ConfirmAnalysis, SaveRecording,
       SaveTranscript, RetryJob, ConfirmSolutions, RequestDocument, MarkRequestSent,
       ReceiveDocument, ReviewDocument, RecordContract, ConfirmPayment, StartAftercare,
       Claim, BeforeRequest, StoreAnswer, StoreFailure, RunLost, evidence, BookMeeting,
       CompleteMeeting, CancelMeeting, LatestRecording
  <2>3. ASSUME NEW kind \in {"first", "followup", "contract"},
               NEW attendance \in Role \cup {"both"}, BookMeeting(kind, attendance)
        PROVE  \A m \in DOMAIN meetings' : meetings'[m].kind = "first"
    <3> DEFINE e == [kind |-> kind, attendance |-> attendance, status |-> "scheduled"]
    <3>1. e \in Meeting /\ meetings' = Append(meetings, e)
      BY <2>3 DEF BookMeeting, Meeting
    <3>2. kind = "first"
      BY <1>2, <2>1, <2>3 DEF BookMeeting, Bookable
    <3>3. /\ DOMAIN meetings' = DOMAIN meetings \cup {Len(meetings) + 1}
          /\ \A m \in DOMAIN meetings : meetings'[m] = meetings[m]
          /\ meetings'[Len(meetings) + 1].kind = kind
      BY <3>1, Lists, AppendProperties DEF TypeOK
    <3>4. QED
      BY <2>1, <3>2, <3>3
  <2>4. ASSUME NEW actor \in Role, NEW m \in DOMAIN meetings,
               CompleteMeeting(actor, m) \/ CancelMeeting(actor, m)
        PROVE  \A k \in DOMAIN meetings' : meetings'[k].kind = "first"
    BY <2>1, <2>4, Lists DEF CompleteMeeting, CancelMeeting, Meeting
  <2>5. \A m \in DOMAIN meetings' : meetings'[m].kind = "first"
    BY <2>1, <2>3, <2>4 DEF Next, Command, Run, ImportIntakeSource, SaveSource,
       ExcludeSource, SetAiPolicy, QueueReport1, SaveReport, ConfirmAnalysis, SaveRecording,
       SaveTranscript, RetryJob, ConfirmSolutions, RequestDocument, MarkRequestSent,
       ReceiveDocument, ReviewDocument, RecordContract, ConfirmPayment, StartAftercare,
       Claim, BeforeRequest, StoreAnswer, StoreFailure, RunLost, evidence
  <2>6. QED
    BY <2>2, <2>5, <1>0, ContractAndPaid DEF StagesInOrder
<1>3. QED
  BY <1>1, <1>2

\* After the contract a step changes no report, recording, decision or contract,
\* of a request only its sent mark, and of the analysis only confirmations.
FrozenStep ==
  /\ UNCHANGED <<reports, recordings, decision, contract>>
  /\ DOMAIN requests' = DOMAIN requests
  /\ \A i \in DOMAIN requests :
       requests'[i] = [requests[i] EXCEPT !.sent = requests'[i].sent]

LEMMA Frozen ==
  ASSUME TypeOK, Contracted, Next
  PROVE  FrozenStep
<1>1. UNCHANGED <<reports, recordings, decision, contract>>
  <2>1. \A stage \in Stage : ~SaveReport(stage)
    BY DEF SaveReport
  <2>2. \A r \in Runners : ~StoreAnswer(r)
    BY DEF StoreAnswer, JobIsCurrent
  <2>3. QED
    BY <2>1, <2>2 DEF Next, Command, Run, ImportIntakeSource, SaveSource,
       ExcludeSource, SetAiPolicy, QueueReport1, ConfirmAnalysis, SaveRecording,
       SaveTranscript, RetryJob, ConfirmSolutions, RequestDocument, MarkRequestSent,
       ReceiveDocument, ReviewDocument, RecordContract, ConfirmPayment, StartAftercare,
       BookMeeting, CompleteMeeting, CancelMeeting,
       Claim, BeforeRequest, StoreFailure, RunLost, evidence, signed
<1>2. CASE UNCHANGED requests
  <2>1. \A i \in DOMAIN requests : requests[i] = [requests[i] EXCEPT !.sent = requests[i].sent]
    BY Lists DEF Request
  <2>2. QED
    BY <1>1, <1>2, <2>1 DEF FrozenStep
<1>3. ASSUME NEW i \in DOMAIN requests, MarkRequestSent(i)
      PROVE  FrozenStep
  <2>1. requests' = [requests EXCEPT ![i].sent = TRUE]
    BY <1>3 DEF MarkRequestSent
  <2>2. \A k \in DOMAIN requests : k # i => requests'[k] = requests[k]
    BY <2>1, Lists
  <2>3. requests'[i] = [requests[i] EXCEPT !.sent = TRUE]
    BY <2>1, Lists
  <2>4. \A k \in DOMAIN requests : requests[k] = [requests[k] EXCEPT !.sent = requests[k].sent]
    BY Lists DEF Request
  <2>5. requests'[i].sent = TRUE
    BY <2>3, Lists DEF Request
  <2>6. DOMAIN requests' = DOMAIN requests
    BY <2>1
  <2>7. ASSUME NEW k \in DOMAIN requests
        PROVE  requests'[k] = [requests[k] EXCEPT !.sent = requests'[k].sent]
    BY <2>2, <2>3, <2>4, <2>5
  <2>8. QED
    BY <1>1, <2>6, <2>7 DEF FrozenStep
<1>4. UNCHANGED requests \/ \E i \in DOMAIN requests : MarkRequestSent(i)
  BY DEF Next, Command, Run, ImportIntakeSource, SaveSource,
       ExcludeSource, SetAiPolicy, QueueReport1, ConfirmAnalysis, SaveRecording,
       SaveReport, SaveTranscript, RetryJob, ConfirmSolutions, RequestDocument,
       ReceiveDocument, ReviewDocument, RecordContract, ConfirmPayment, StartAftercare,
       BookMeeting, CompleteMeeting, CancelMeeting,
       Claim, BeforeRequest, StoreAnswer, StoreFailure, RunLost, evidence, signed
<1>5. QED
  BY <1>2, <1>3, <1>4

\* A sent mark does not disturb what the contract documents rest on.
LEMMA FrozenKeepsDocuments ==
  ASSUME TypeOK, FrozenStep, SigningPreparationDone
  PROVE  SigningPreparationDone'
<1>1. ASSUME NEW i \in DOMAIN requests
      PROVE  /\ requests'[i].required = requests[i].required
             /\ requests'[i].file = requests[i].file
             /\ requests'[i].verified = requests[i].verified
             /\ requests'[i].status = requests[i].status
  BY Lists DEF FrozenStep, Request
<1>2. Required' = Required
  BY <1>1 DEF Required, FrozenStep
<1>3. DocumentsKey' = DocumentsKey
  BY <1>1, <1>2 DEF DocumentsKey, Required
<1>4. DeepReports' = DeepReports
  BY DEF DeepReports, LatestRecording, LatestReport, FrozenStep
<1>5. DocumentsDone'
  <2>1. IsDeepReport(decision.report)' 
    BY <1>4 DEF IsDeepReport, FrozenStep, SigningPreparationDone, DocumentsDone
  <2>2. decision' = decision
    BY DEF FrozenStep
  <2>3. QED
    BY <1>1, <1>2, <2>1, <2>2 DEF SigningPreparationDone, DocumentsDone, Required
<1>6. QED
  BY <1>3, <1>5 DEF SigningPreparationDone, FrozenStep, LatestReport

LEMMA ContractKept ==
  ASSUME TypeOK, StageInv, Next, FirstMeetingWasPrepared'
  PROVE  ContractRestsOnEvidence'
<1>0. MeetingsGrow
  BY MeetingsStep
<1>1. CASE Contracted
  <2>1. FrozenStep
    BY <1>1, Frozen
  <2>2. SigningPreparationDone'
    BY <1>1, <2>1, FrozenKeepsDocuments DEF StageInv, ContractRestsOnEvidence
  <2>3. FirstCompleted'
    BY <1>0, <1>1, FirstStays DEF StageInv, ContractRestsOnEvidence
  <2>4. AnalysisDone' /\ PreparationDone'
    BY <2>3 DEF FirstMeetingWasPrepared
  <2>5. contract' = contract /\ contract.meeting \in DOMAIN meetings
    BY <1>1, <2>1 DEF FrozenStep, StageInv, StagesInOrder
  <2>6. /\ meetings'[contract.meeting].kind = "contract"
        /\ meetings'[contract.meeting].status = "completed"
    BY <1>0, <1>1, <2>5 DEF MeetingsGrow, StageInv, ContractRestsOnEvidence
  <2>7. contract.report = LatestReport(6)'
    BY <1>1, <2>1 DEF FrozenStep, StageInv, ContractRestsOnEvidence, LatestReport
  <2>8. QED
    BY <2>2, <2>3, <2>4, <2>5, <2>6, <2>7 DEF ContractRestsOnEvidence
<1>2. ASSUME ~Contracted, NEW actor \in Role, NEW m \in DOMAIN meetings,
             NEW deposit \in 1 .. MaxDeposit, RecordContract(actor, m, deposit)
      PROVE  ContractRestsOnEvidence'
  <2>1. UNCHANGED <<reports, analysis, recordings, requests, decision>>
    BY <1>2 DEF RecordContract
  <2>2. FirstCompleted
    BY <1>2, DocumentsFollowFirst DEF RecordContract, SigningPreparationDone, StageInv
  <2>3. FirstCompleted'
    BY <1>0, <2>2, FirstStays
  <2>4. AnalysisDone' /\ PreparationDone'
    BY <2>3 DEF FirstMeetingWasPrepared
  <2>5. SigningPreparationDone'
    BY <1>2, <2>1 DEF RecordContract, SigningPreparationDone, DocumentsDone, IsDeepReport,
         DeepReports, LatestReport, LatestRecording, Required, DocumentsKey
  <2>6. contract' = [meeting |-> m, report |-> LatestReport(6), deposit |-> deposit]
    BY <1>2 DEF RecordContract
  <2>7. meetings'[m].kind = "contract" /\ meetings'[m].status = "completed"
    BY <1>2, Lists DEF RecordContract, Meeting
  <2>8. contract'.report = LatestReport(6)'
    BY <2>1, <2>6 DEF LatestReport
  <2>9. QED
    BY <2>3, <2>4, <2>5, <2>6, <2>7, <2>8 DEF ContractRestsOnEvidence
<1>3. ASSUME ~Contracted,
             ~\E actor \in Role, m \in DOMAIN meetings, deposit \in 1 .. MaxDeposit :
                RecordContract(actor, m, deposit)
      PROVE  UNCHANGED contract
  BY <1>3 DEF Next, Command, Run, ImportIntakeSource, SaveSource,
       ExcludeSource, SetAiPolicy, QueueReport1, SaveReport, ConfirmAnalysis, SaveRecording,
       SaveTranscript, RetryJob, ConfirmSolutions, RequestDocument, MarkRequestSent,
       ReceiveDocument, ReviewDocument, ConfirmPayment, StartAftercare, BookMeeting,
       CompleteMeeting, CancelMeeting, Claim, BeforeRequest, StoreAnswer, StoreFailure,
       RunLost, signed
<1>4. QED
  BY <1>1, <1>2, <1>3 DEF ContractRestsOnEvidence, Contracted

LEMMA PaidKept ==
  ASSUME TypeOK, StageInv, Next
  PROVE  ExecutionIsPaid'
<1>1. CASE UNCHANGED signed
  BY <1>1 DEF StageInv, ExecutionIsPaid, DepositComplete, Contracted, signed
<1>2. ASSUME NEW actor \in Role, NEW m \in DOMAIN meetings,
             NEW deposit \in 1 .. MaxDeposit, RecordContract(actor, m, deposit)
      PROVE  ExecutionIsPaid'
  <2>1. ~Contracted /\ paid = 0 /\ UNCHANGED <<paid, execution, aftercare>>
    BY <1>2 DEF RecordContract, StageInv, StagesInOrder
  <2>2. ~execution /\ ~aftercare
    BY <2>1 DEF StageInv, ExecutionIsPaid, DepositComplete
  <2>3. contract'.deposit = deposit /\ deposit \in Nat \ {0}
    BY <1>2, FlowAssumption DEF RecordContract
  <2>4. ~DepositComplete'
    BY <2>1, <2>3 DEF DepositComplete
  <2>5. QED
    BY <2>1, <2>2, <2>4 DEF ExecutionIsPaid
<1>3. ASSUME NEW amount \in 1 .. MaxDeposit, ConfirmPayment(amount)
      PROVE  ExecutionIsPaid'
  <2>1. /\ Contracted /\ UNCHANGED <<contract, aftercare>>
        /\ paid' = paid + amount
        /\ execution' = (execution \/ paid + amount >= contract.deposit)
    BY <1>3 DEF ConfirmPayment
  <2>2. amount \in Nat /\ paid \in Nat /\ contract.deposit \in Nat
    BY FlowAssumption DEF TypeOK
  <2>3. DepositComplete' <=> paid + amount >= contract.deposit
    BY <2>1 DEF DepositComplete, Contracted
  <2>4. execution => paid + amount >= contract.deposit
    BY <2>2 DEF StageInv, ExecutionIsPaid, DepositComplete
  <2>5. execution' <=> paid + amount >= contract.deposit
    BY <2>1, <2>4, Zenon
  <2>6. aftercare' => execution'
    BY <2>1, Zenon DEF StageInv, ExecutionIsPaid
  <2>7. QED
    BY <2>3, <2>5, <2>6 DEF ExecutionIsPaid
<1>4. CASE StartAftercare
  <2>1. DepositComplete /\ UNCHANGED <<contract, paid, execution>>
    BY <1>4 DEF StartAftercare
  <2>2. DepositComplete' /\ execution'
    BY <2>1 DEF StageInv, ExecutionIsPaid, DepositComplete, Contracted
  <2>3. QED
    BY <2>2 DEF ExecutionIsPaid
<1>5. \/ UNCHANGED signed \/ StartAftercare
      \/ \E amount \in 1 .. MaxDeposit : ConfirmPayment(amount)
      \/ \E actor \in Role, m \in DOMAIN meetings, deposit \in 1 .. MaxDeposit :
           RecordContract(actor, m, deposit)
  BY DEF Next, Command, Run, ImportIntakeSource, SaveSource,
       ExcludeSource, SetAiPolicy, QueueReport1, SaveReport, ConfirmAnalysis, SaveRecording,
       SaveTranscript, RetryJob, ConfirmSolutions, RequestDocument, MarkRequestSent,
       ReceiveDocument, ReviewDocument, BookMeeting, CompleteMeeting,
       CancelMeeting, Claim, BeforeRequest, StoreAnswer, StoreFailure, RunLost
<1>6. QED
  BY <1>1, <1>2, <1>3, <1>4, <1>5

LEMMA InitStages == Init => StageInv
BY DEF Init, StageInv, StagesInOrder, FirstMeetingWasPrepared, ContractRestsOnEvidence,
     ExecutionIsPaid, FirstCompleted, Contracted, DepositComplete

LEMMA NextStages == ASSUME TypeOK, StageInv, [Next]_vars PROVE StageInv'
<1>1. CASE Next
  BY <1>1, OrderKept, FirstPrepared, ContractKept, PaidKept DEF StageInv
<1>2. CASE UNCHANGED vars
  BY <1>2 DEF vars, evidence, signed, StageInv, StagesInOrder, FirstMeetingWasPrepared,
     ContractRestsOnEvidence, ExecutionIsPaid, FirstCompleted, Contracted, DepositComplete,
     AnalysisDone, PreparationDone, SigningPreparationDone, DocumentsDone, IsDeepReport,
     DeepReports, LatestReport, LatestRecording, Required, DocumentsKey
<1>3. QED
  BY <1>1, <1>2

LEMMA StagesAlways == Spec => [](TypeOK /\ StageInv)
<1>1. Init => TypeOK /\ StageInv
  BY InitType, InitStages
<1>2. TypeOK /\ StageInv /\ [Next]_vars => (TypeOK /\ StageInv)'
  BY NextType, NextStages
<1>3. QED
  BY <1>1, <1>2, PTL DEF Spec

\* A recorded contract rests on every stage before it, for as long as the case
\* lives (record_contract, and every command that might undo one of them).
THEOREM ContractHolds == Spec => []ContractRestsOnEvidence
<1>1. StageInv => ContractRestsOnEvidence
  BY DEF StageInv
<1>2. QED
  BY <1>1, StagesAlways, PTL

\* What prepared the first meeting is not replaced after it, by hand or by a late
\* answer of the AI.
THEOREM FirstMeetingHolds == Spec => []FirstMeetingWasPrepared
<1>1. StageInv => FirstMeetingWasPrepared
  BY DEF StageInv
<1>2. QED
  BY <1>1, StagesAlways, PTL

\* Execution starts exactly with the agreed deposit, and aftercare follows it
\* (confirm_payment, start_aftercare).
THEOREM ExecutionHolds == Spec => []ExecutionIsPaid
<1>1. StageInv => ExecutionIsPaid
  BY DEF StageInv
<1>2. QED
  BY <1>1, StagesAlways, PTL

\* No command and no late answer of the AI changes the evidence of a contract.
THEOREM EvidenceFrozen == Spec => EvidenceIsFrozen
<1>1. ASSUME TypeOK, [Next]_vars, ~UNCHANGED vars, Contracted
      PROVE  /\ UNCHANGED <<reports, recordings, decision, contract>>
             /\ DOMAIN requests' = DOMAIN requests
             /\ \A i \in DOMAIN requests :
                  requests'[i] = [requests[i] EXCEPT !.sent = requests'[i].sent]
  BY <1>1, Frozen DEF FrozenStep
<1>2. TypeOK /\ [Next]_vars =>
        [Contracted =>
           /\ UNCHANGED <<reports, recordings, decision, contract>>
           /\ DOMAIN requests' = DOMAIN requests
           /\ \A i \in DOMAIN requests :
                requests'[i] = [requests[i] EXCEPT !.sent = requests'[i].sent]]_vars
  BY <1>1
<1>3. QED
  BY <1>2, TypeCorrect, PTL DEF Spec, EvidenceIsFrozen

-----------------------------------------------------------------------------
(* The AI runs *)

RunInv == JobsRefer /\ RunsOwnEvidence /\ ReportsHaveJobs

\* What a command may do to the jobs: it starts none, keeps what each is about,
\* leaves a complete one alone, and adds jobs that are neither running nor done.
JobsKept ==
  /\ DOMAIN jobs \subseteq DOMAIN jobs'
  /\ \A j \in DOMAIN jobs :
       /\ jobs'[j].stage = jobs[j].stage /\ jobs'[j].rec = jobs[j].rec
       /\ jobs'[j].src = jobs[j].src
       /\ jobs'[j].lease \in {jobs[j].lease, 0}
       /\ jobs'[j].status = "processing" => jobs'[j] = jobs[j]
       /\ jobs[j].status = "complete" => jobs'[j] = jobs[j]
  /\ \A j \in DOMAIN jobs' \ DOMAIN jobs :
       /\ jobs'[j].lease = 0 /\ jobs'[j].status \notin {"processing", "complete"}
       /\ jobs'[j].stage = 1 => jobs'[j].rec = 0
       /\ jobs'[j].stage = 4 => jobs'[j].rec \in DOMAIN recordings'

LEMMA CreatedJob ==
  ASSUME TypeOK, NEW st \in {1, 4}, NEW rec \in Nat, NEW src \in Nat,
         NEW ready \in BOOLEAN, CreateJob(st, rec, src, ready),
         st = 1 => rec = 0, st = 4 => rec \in DOMAIN recordings'
  PROVE  JobsKept
<1> DEFINE job == [stage |-> st, rec |-> rec, src |-> src, lease |-> 0,
                   status |-> IF enabled /\ ready THEN "queued" ELSE "blocked"]
<1>1. job \in Job /\ jobs' = Append(jobs, job)
  BY DEF Job, CreateJob
<1>2. /\ DOMAIN jobs' = DOMAIN jobs \cup {Len(jobs) + 1}
      /\ \A j \in DOMAIN jobs : jobs'[j] = jobs[j]
      /\ jobs'[Len(jobs) + 1] = job
  BY <1>1, Lists, AppendProperties DEF TypeOK
<1>3. /\ job.lease = 0 /\ job.status \notin {"processing", "complete"}
      /\ job.stage = st /\ job.rec = rec
  OBVIOUS
<1>4. QED
  BY <1>2, <1>3 DEF JobsKept

LEMMA CommandJobs == ASSUME TypeOK, Command PROVE JobsKept
<1>1. CASE UNCHANGED jobs
  BY <1>1 DEF JobsKept
<1>2. ASSUME NEW on \in BOOLEAN, SetAiPolicy(on)
      PROVE  JobsKept
  <2>1. DOMAIN jobs' = DOMAIN jobs
    BY <1>2 DEF SetAiPolicy
  <2>2. ASSUME NEW j \in DOMAIN jobs
        PROVE  \/ jobs'[j] = jobs[j]
               \/ /\ jobs'[j] = [jobs[j] EXCEPT !.status = "blocked"]
                  /\ jobs[j].status = "queued"
    BY <1>2 DEF SetAiPolicy
  <2>3. QED
    BY <2>1, <2>2, Lists DEF JobsKept, Job
<1>3. CASE QueueReport1
  <2>1. CreateJob(1, 0, 0, TRUE)
    BY <1>3 DEF QueueReport1
  <2>2. (1 = 1 => 0 = 0) /\ (1 = 4 => 0 \in DOMAIN recordings')
    OBVIOUS
  <2>3. QED
    BY <2>1, <2>2, CreatedJob
<1>4. ASSUME NEW m \in DOMAIN meetings, NEW t \in Transcripts \cup {None},
             SaveRecording(m, t)
      PROVE  JobsKept
  <2>1. m \in Nat /\ Len(recordings) + 1 \in Nat /\ LatestReport(1) \in Nat
    BY Lists DEF LatestReport, Stage
  <2>2. [meeting |-> m, transcript |-> t] \in Recording
    BY <2>1 DEF Recording
  <2>3. Len(recordings) + 1 \in DOMAIN recordings'
    BY <1>4, <2>1, <2>2, Lists, AppendProperties DEF SaveRecording, TypeOK
  <2>4. CreateJob(4, Len(recordings) + 1, LatestReport(1), t # None)
    BY <1>4 DEF SaveRecording
  <2>5. /\ 4 = 1 => Len(recordings) + 1 = 0
        /\ 4 = 4 => Len(recordings) + 1 \in DOMAIN recordings'
    BY <2>3
  <2>6. QED
    BY <2>1, <2>4, <2>5, CreatedJob
<1>5. ASSUME NEW t \in Transcripts, SaveTranscript(t)
      PROVE  JobsKept
  <2>1. DOMAIN jobs' = DOMAIN jobs
    BY <1>5 DEF SaveTranscript
  <2>2. ASSUME NEW j \in DOMAIN jobs
        PROVE  \/ jobs'[j] = jobs[j]
               \/ \E st \in {"queued", "blocked"} :
                    /\ jobs'[j] = [jobs[j] EXCEPT !.status = st, !.lease = 0]
                    /\ jobs[j].status # "complete"
    BY <1>5 DEF SaveTranscript
  <2>3. ASSUME NEW j \in DOMAIN jobs, NEW st \in {"queued", "blocked"},
               jobs'[j] = [jobs[j] EXCEPT !.status = st, !.lease = 0]
        PROVE  /\ jobs'[j].stage = jobs[j].stage /\ jobs'[j].rec = jobs[j].rec
               /\ jobs'[j].src = jobs[j].src /\ jobs'[j].lease = 0
               /\ jobs'[j].status # "processing"
    BY <2>3, Lists DEF Job
  <2>4. QED
    BY <2>1, <2>2, <2>3 DEF JobsKept
<1>6. ASSUME NEW i \in DOMAIN jobs, RetryJob(i)
      PROVE  JobsKept
  <2>1. DOMAIN jobs' = DOMAIN jobs /\ \A j \in DOMAIN jobs : j # i => jobs'[j] = jobs[j]
    BY <1>6 DEF RetryJob
  <2>2. /\ jobs'[i] = [jobs[i] EXCEPT !.status = "queued", !.lease = 0]
        /\ jobs[i].status # "complete"
    BY <1>6, Lists DEF RetryJob
  <2>3. /\ jobs'[i].stage = jobs[i].stage /\ jobs'[i].rec = jobs[i].rec
        /\ jobs'[i].src = jobs[i].src /\ jobs'[i].lease = 0 /\ jobs'[i].status = "queued"
    <3>1. i \in DOMAIN jobs /\ jobs[i] \in Job
      BY <1>6, Lists
    <3>2. QED
      BY <2>2, <3>1 DEF Job
  <2>4. QED
    BY <2>1, <2>2, <2>3 DEF JobsKept
<1>7. ASSUME ~QueueReport1, ~\E on \in BOOLEAN : SetAiPolicy(on),
             ~\E m \in DOMAIN meetings, t \in Transcripts \cup {None} : SaveRecording(m, t),
             ~\E t \in Transcripts : SaveTranscript(t),
             ~\E j \in DOMAIN jobs : RetryJob(j)
      PROVE  UNCHANGED jobs
  BY <1>7 DEF Command, ImportIntakeSource, SaveSource, ExcludeSource, SaveReport,
       ConfirmAnalysis, ConfirmSolutions, RequestDocument, MarkRequestSent,
       ReceiveDocument, ReviewDocument, RecordContract, ConfirmPayment, StartAftercare,
       BookMeeting, CompleteMeeting, CancelMeeting, ai
<1>8. QED
  BY <1>1, <1>2, <1>3, <1>4, <1>5, <1>6, <1>7

\* Commands change no recording that a running or complete job is about, and no
\* source while a first report is generated.
EvidenceKept ==
  /\ DOMAIN recordings \subseteq DOMAIN recordings'
  /\ \A j \in DOMAIN jobs :
       /\ jobs[j].status \in {"processing", "complete"} /\ jobs[j].rec \in DOMAIN recordings
            => recordings'[jobs[j].rec] = recordings[jobs[j].rec]
       /\ jobs[j].status = "processing" /\ jobs[j].stage = 1 => source' = source

LEMMA CommandEvidence == ASSUME TypeOK, Command PROVE EvidenceKept
<1>1. CASE UNCHANGED <<recordings, source>>
  BY <1>1 DEF EvidenceKept
<1>2. ASSUME ~Active(1), UNCHANGED recordings
      PROVE  EvidenceKept
  BY <1>2 DEF EvidenceKept, Active
<1>3. ASSUME NEW m \in DOMAIN meetings, NEW t \in Transcripts \cup {None},
             SaveRecording(m, t)
      PROVE  EvidenceKept
  <2>1. [meeting |-> m, transcript |-> t] \in Recording
    BY Lists DEF Recording
  <2>2. /\ DOMAIN recordings \subseteq DOMAIN recordings'
        /\ \A r \in DOMAIN recordings : recordings'[r] = recordings[r]
    BY <1>3, <2>1, Lists, AppendProperties DEF SaveRecording, TypeOK
  <2>3. source' = source
    BY <1>3 DEF SaveRecording
  <2>4. QED
    BY <2>2, <2>3 DEF EvidenceKept
<1>4. ASSUME NEW t \in Transcripts, SaveTranscript(t)
      PROVE  EvidenceKept
  <2>1. /\ DOMAIN recordings' = DOMAIN recordings /\ source' = source
        /\ \A r \in DOMAIN recordings :
             r # LatestRecording => recordings'[r] = recordings[r]
    BY <1>4 DEF SaveTranscript
  <2>2. \A j \in DOMAIN jobs : jobs[j].status \in {"processing", "complete"}
                               => jobs[j].rec # LatestRecording
    BY <1>4 DEF SaveTranscript
  <2>3. QED
    BY <2>1, <2>2 DEF EvidenceKept
<1>5. \/ UNCHANGED <<recordings, source>>
      \/ ~Active(1) /\ UNCHANGED recordings
      \/ \E m \in DOMAIN meetings, t \in Transcripts \cup {None} : SaveRecording(m, t)
      \/ \E t \in Transcripts : SaveTranscript(t)
  BY DEF Command, ImportIntakeSource, SaveSource, ExcludeSource, SetAiPolicy, QueueReport1,
       SaveReport, ConfirmAnalysis, ConfirmSolutions, RequestDocument, MarkRequestSent,
       ReceiveDocument, ReviewDocument, RecordContract, ConfirmPayment, StartAftercare,
       BookMeeting, CompleteMeeting, CancelMeeting, RetryJob, ai, evidence
<1>6. QED
  BY <1>1, <1>2, <1>3, <1>4, <1>5

\* Commands add no report of the AI.
LEMMA CommandReports ==
  ASSUME TypeOK, Command
  PROVE  /\ DOMAIN reports[4] \subseteq DOMAIN reports'[4]
         /\ \A v \in DOMAIN reports[4] : reports'[4][v] = reports[4][v]
         /\ \A v \in DOMAIN reports'[4] \ DOMAIN reports[4] : reports'[4][v].job = 0
<1>1. CASE UNCHANGED reports
  BY <1>1
<1>2. ASSUME NEW stage \in Stage, SaveReport(stage)
      PROVE  /\ DOMAIN reports[4] \subseteq DOMAIN reports'[4]
             /\ \A v \in DOMAIN reports[4] : reports'[4][v] = reports[4][v]
             /\ \A v \in DOMAIN reports'[4] \ DOMAIN reports[4] : reports'[4][v].job = 0
  <2>1. PICK r \in Report : AddReport(stage, r) /\ r.job = 0
    BY <1>2, SavedReport
  <2>2. /\ \A k \in Stage : k # stage => reports'[k] = reports[k]
        /\ \A v \in DOMAIN reports[stage] : reports'[stage][v] = reports[stage][v]
        /\ DOMAIN reports'[stage] = DOMAIN reports[stage] \cup {Len(reports[stage]) + 1}
        /\ reports'[stage][Len(reports[stage]) + 1] = r
    BY <2>1, AddReportEffect
  <2>3. CASE stage = 4
    BY <2>1, <2>2, <2>3
  <2>4. CASE stage # 4
    BY <2>2, <2>4 DEF Stage
  <2>5. QED
    BY <2>3, <2>4
<1>3. UNCHANGED reports \/ \E stage \in Stage : SaveReport(stage)
  BY DEF Command, ImportIntakeSource, SaveSource, ExcludeSource, SetAiPolicy, QueueReport1,
       ConfirmAnalysis, ConfirmSolutions, RequestDocument, MarkRequestSent, SaveRecording,
       SaveTranscript, ReceiveDocument, ReviewDocument, RecordContract, ConfirmPayment,
       StartAftercare, BookMeeting, CompleteMeeting, CancelMeeting, RetryJob, evidence
<1>4. QED
  BY <1>1, <1>2, <1>3

\* Commands leave the runs what they were given.
LEMMA CommandRuns ==
  ASSUME TypeOK, RunInv, Command
  PROVE  RunInv'
<1>0. JobsKept /\ EvidenceKept /\ UNCHANGED runs
  <2>1. UNCHANGED runs
    BY DEF Command, ImportIntakeSource, SaveSource, ExcludeSource, SetAiPolicy, QueueReport1,
       SaveReport, ConfirmAnalysis, ConfirmSolutions, RequestDocument, MarkRequestSent,
       ReceiveDocument, ReviewDocument, RecordContract, ConfirmPayment, StartAftercare,
       BookMeeting, CompleteMeeting, CancelMeeting, RetryJob, SaveRecording, SaveTranscript
  <2>2. QED
    BY <2>1, CommandJobs, CommandEvidence
<1>1. JobsRefer'
  <2>1. ASSUME NEW j \in DOMAIN jobs
        PROVE  JobsRefer!(j)'
    <3>1. jobs'[j].lease \in {jobs[j].lease, 0} /\ claims' = claims /\ claims \in Nat
      BY <1>0 DEF JobsKept, runs, TypeOK
    <3>2. jobs'[j].lease <= claims'
      BY <3>1 DEF RunInv, JobsRefer
    <3>3. jobs'[j].stage = jobs[j].stage /\ jobs'[j].rec = jobs[j].rec
      BY <1>0 DEF JobsKept
    <3>4. QED
      BY <1>0, <3>2, <3>3 DEF RunInv, JobsRefer, EvidenceKept
  <2>2. ASSUME NEW j \in DOMAIN jobs' \ DOMAIN jobs
        PROVE  JobsRefer!(j)'
    <3>1. jobs'[j].lease = 0 /\ claims' = claims /\ claims \in Nat
      BY <1>0 DEF JobsKept, runs, TypeOK
    <3>2. QED
      BY <1>0, <3>1 DEF JobsKept
  <2>3. QED
    BY <2>1, <2>2 DEF JobsRefer
<1>2. ASSUME NEW r \in Runners, runners'[r].pc # "idle"
      PROVE  RunsOwnEvidence!(r)'
  <2> DEFINE j == runners[r].job
  <2>1. runners' = runners /\ claims' = claims
    BY <1>0 DEF runs
  <2>2. j \in DOMAIN jobs /\ runners[r].lease <= claims
    BY <1>2, <2>1 DEF RunInv, RunsOwnEvidence
  <2>3. j \in DOMAIN jobs'
    BY <1>0, <2>2 DEF JobsKept
  <2>4. ASSUME Keep(r)'
        PROVE  runners[r].seen = Evidence(j)'
    <3>1. jobs'[j] = jobs[j]
      BY <1>0, <2>1, <2>2, <2>4 DEF Keep, JobsKept
    <3>2. Keep(r)
      BY <2>1, <2>2, <2>4, <3>1 DEF Keep
    <3>3. runners[r].seen = Evidence(j)
      BY <1>2, <2>1, <3>2 DEF RunInv, RunsOwnEvidence
    <3>4. jobs[j].status = "processing"
      BY <3>2 DEF Keep
    <3>5. CASE jobs[j].stage = 1
      BY <1>0, <2>1, <2>2, <3>1, <3>3, <3>4, <3>5 DEF Evidence, EvidenceKept
    <3>6. CASE jobs[j].stage = 4
      <4>1. jobs[j].rec \in DOMAIN recordings
        BY <2>2, <3>6 DEF RunInv, JobsRefer
      <4>2. recordings'[jobs[j].rec] = recordings[jobs[j].rec]
            /\ jobs[j].rec \in DOMAIN recordings'
        BY <1>0, <2>2, <3>4, <4>1 DEF EvidenceKept
      <4>3. QED
        BY <2>1, <3>1, <3>3, <3>6, <4>1, <4>2 DEF Evidence
    <3>7. QED
      BY <2>2, <3>5, <3>6, Lists DEF Job
  <2>5. QED
    BY <2>1, <2>2, <2>3, <2>4
<1>3. ASSUME NEW v \in DOMAIN reports'[4], reports'[4][v].job # 0
      PROVE  ReportsHaveJobs!(v)'
  <2> DEFINE j == reports[4][v].job
  <2>1. v \in DOMAIN reports[4] /\ reports'[4][v] = reports[4][v]
    BY <1>3, CommandReports
  <2>2. /\ j \in DOMAIN jobs /\ jobs[j].status = "complete"
        /\ jobs[j].stage = 4 /\ jobs[j].rec = reports[4][v].rec
        /\ reports[4][v].rec \in DOMAIN recordings
        /\ reports[4][v].body = recordings[reports[4][v].rec].transcript
    BY <1>3, <2>1 DEF RunInv, ReportsHaveJobs
  <2>3. j \in DOMAIN jobs' /\ jobs'[j] = jobs[j]
    BY <1>0, <2>2 DEF JobsKept
  <2>4. /\ reports[4][v].rec \in DOMAIN recordings'
        /\ recordings'[reports[4][v].rec] = recordings[reports[4][v].rec]
    BY <1>0, <2>2 DEF EvidenceKept
  <2>5. QED
    BY <2>1, <2>2, <2>3, <2>4
<1>4. RunsOwnEvidence'
  BY <1>2 DEF RunsOwnEvidence
<1>5. ReportsHaveJobs'
  BY <1>3 DEF ReportsHaveJobs
<1>6. QED
  BY <1>1, <1>4, <1>5 DEF RunInv

\* A step of a run that changes at most its own job and adds no report of the
\* fourth stage leaves the other runs what they were given.
LEMMA OwnJobRuns ==
  ASSUME TypeOK, RunInv, NEW r \in Runners, NEW j \in DOMAIN jobs, NEW job \in Job,
         jobs[j].status \in {"queued", "processing"},
         job.status \in {"processing", "blocked", "failed", "complete"},
         job.status = "processing" => job.lease = claims + 1 /\ jobs[j].status = "queued",
         job.stage = jobs[j].stage, job.rec = jobs[j].rec,
         job.lease \in {jobs[j].lease, claims'},
         jobs' = [jobs EXCEPT ![j] = job],
         claims' \in Nat, claims <= claims',
         \A q \in Runners \ {r} : runners'[q] = runners[q],
         UNCHANGED <<recordings, source>>
  PROVE  /\ JobsRefer'
         /\ \A q \in Runners \ {r} : RunsOwnEvidence!(q)'
         /\ \A i \in DOMAIN jobs : jobs[i].status = "complete" => jobs'[i] = jobs[i]
<1>1. /\ DOMAIN jobs' = DOMAIN jobs /\ jobs'[j] = job
      /\ \A i \in DOMAIN jobs : i # j => jobs'[i] = jobs[i]
  OBVIOUS
<1>2. \A i \in DOMAIN jobs : jobs[i].lease \in Nat /\ jobs[i].lease <= claims
  BY Lists DEF RunInv, JobsRefer, Job
<1>3. claims \in Nat
  BY DEF TypeOK
<1>4. JobsRefer'
  <2>1. ASSUME NEW i \in DOMAIN jobs
        PROVE  jobs'[i].lease <= claims'
    BY <1>1, <1>2, <1>3
  <2>2. ASSUME NEW i \in DOMAIN jobs
        PROVE  jobs'[i].stage = jobs[i].stage /\ jobs'[i].rec = jobs[i].rec
    BY <1>1
  <2>3. QED
    BY <1>1, <2>1, <2>2 DEF JobsRefer, RunInv
<1>5. ASSUME NEW q \in Runners \ {r}, runners[q].pc # "idle"
      PROVE  /\ runners[q].job \in DOMAIN jobs'
             /\ runners[q].lease <= claims'
             /\ Keep(q)' => runners[q].seen = Evidence(runners[q].job)'
  <2> DEFINE i == runners[q].job
  <2>1. i \in DOMAIN jobs /\ runners[q].lease <= claims /\ runners[q].lease \in Nat
    BY <1>5 DEF RunInv, RunsOwnEvidence, TypeOK, Runner
  <2>2. runners'[q] = runners[q]
    BY <1>5
  <2>3. ASSUME Keep(q)'
        PROVE  jobs'[i] = jobs[i]
    <3>1. jobs'[i].status = "processing" /\ jobs'[i].lease = runners[q].lease
      BY <2>2, <2>3 DEF Keep
    <3>2. ASSUME i = j PROVE FALSE
      <4>1. runners[q].lease = claims + 1
        BY <1>1, <3>1, <3>2
      <4>2. QED
        BY <1>3, <2>1, <4>1
    <3>3. QED
      BY <1>1, <2>1, <3>2
  <2>4. ASSUME Keep(q)'
        PROVE  runners[q].seen = Evidence(i)'
    <3>1. Keep(q)
      BY <2>1, <2>2, <2>3, <2>4 DEF Keep
    <3>2. runners[q].seen = Evidence(i)
      BY <1>5, <3>1 DEF RunInv, RunsOwnEvidence
    <3>3. QED
      BY <2>2, <2>3, <2>4, <3>2 DEF Evidence
  <2>5. QED
    BY <1>1, <1>3, <2>1, <2>2, <2>4
<1>6. ASSUME NEW q \in Runners \ {r}
      PROVE  RunsOwnEvidence!(q)'
  <2>1. runners'[q] = runners[q]
    OBVIOUS
  <2>2. QED
    BY <1>5, <2>1
<1>7. \A i \in DOMAIN jobs : jobs[i].status = "complete" => jobs'[i] = jobs[i]
  BY <1>1
<1>8. QED
  BY <1>4, <1>6, <1>7

\* The reports of the fourth stage keep their jobs while complete jobs and the
\* recordings stay.
LEMMA ReportsKeepJobs ==
  ASSUME RunInv, UNCHANGED <<reports, recordings>>, DOMAIN jobs \subseteq DOMAIN jobs',
         \A i \in DOMAIN jobs : jobs[i].status = "complete" => jobs'[i] = jobs[i]
  PROVE  ReportsHaveJobs'
BY DEF RunInv, ReportsHaveJobs

\* A run that has ended, or that changes neither its job nor what it was given.
LEMMA QuietRuns ==
  ASSUME TypeOK, RunInv, NEW r \in Runners,
         \A q \in Runners \ {r} : runners'[q] = runners[q],
         \/ runners'[r].pc = "idle"
         \/ /\ runners[r].pc # "idle" /\ runners'[r].job = runners[r].job
            /\ runners'[r].lease = runners[r].lease /\ runners'[r].seen = runners[r].seen,
         UNCHANGED <<reports, recordings, source, jobs, claims>>
  PROVE  RunInv'
<1>1. ASSUME NEW q \in Runners, runners'[q].pc # "idle"
      PROVE  RunsOwnEvidence!(q)'
  <2>1. /\ runners[q].pc # "idle" /\ runners'[q].job = runners[q].job
        /\ runners'[q].lease = runners[q].lease /\ runners'[q].seen = runners[q].seen
    BY <1>1
  <2>2. RunsOwnEvidence!(q)
    BY DEF RunInv, RunsOwnEvidence
  <2>3. QED
    BY <2>1, <2>2 DEF Keep, Evidence
<1>2. RunsOwnEvidence'
  BY <1>1 DEF RunsOwnEvidence
<1>3. JobsRefer' /\ ReportsHaveJobs'
  BY DEF RunInv, JobsRefer, ReportsHaveJobs
<1>4. QED
  BY <1>2, <1>3 DEF RunInv

\* A queued job that a run takes.
LEMMA LeasedJob ==
  ASSUME NEW x \in Job, NEW lease \in Nat
  PROVE  LET job == [x EXCEPT !.status = "processing", !.lease = lease] IN
         /\ job \in Job /\ job.status = "processing" /\ job.lease = lease
         /\ job.stage = x.stage /\ job.rec = x.rec
BY DEF Job

LEMMA RunRuns ==
  ASSUME TypeOK, RunInv, Run
  PROVE  RunInv'
<1> SUFFICES ASSUME NEW r \in Runners,
                    \/ \E j \in DOMAIN jobs : Claim(r, j)
                    \/ BeforeRequest(r) \/ StoreAnswer(r) \/ StoreFailure(r) \/ RunLost(r)
             PROVE  RunInv'
  BY DEF Run
<1>0. runners \in [Runners -> Runner] /\ claims \in Nat
  BY DEF TypeOK
<1>1. ASSUME NEW j \in DOMAIN jobs, Claim(r, j)
      PROVE  RunInv'
  <2>0. jobs[j].status = "queued" /\ jobs[j] \in Job
    BY <1>1, Lists DEF Claim, FirstQueued
  <2>00. UNCHANGED <<reports, recordings, source>>
    BY <1>1 DEF Claim, evidence
  <2>1. CASE JobIsCurrent(j)
    <3> DEFINE job == [jobs[j] EXCEPT !.status = "processing", !.lease = claims + 1]
    <3>1. job \in Job /\ job.status = "processing" /\ job.lease = claims + 1
          /\ job.stage = jobs[j].stage /\ job.rec = jobs[j].rec
      <4>1. claims + 1 \in Nat
        BY <1>0
      <4>2. QED
        BY <2>0, <4>1, LeasedJob
    <3>2. /\ jobs' = [jobs EXCEPT ![j] = job] /\ claims' = claims + 1
          /\ runners' = [runners EXCEPT ![r] = [pc |-> "claimed", job |-> j,
                            lease |-> claims + 1, seen |-> Evidence(j)]]
      BY <1>1, <2>1, Lists DEF Claim
    <3>3. \A q \in Runners \ {r} : runners'[q] = runners[q]
      BY <1>0, <3>2
    <3>4. claims' \in Nat /\ claims <= claims' /\ job.lease \in {jobs[j].lease, claims'}
      BY <1>0, <3>1, <3>2
    <3>5. /\ JobsRefer'
          /\ \A q \in Runners \ {r} : RunsOwnEvidence!(q)'
          /\ \A i \in DOMAIN jobs : jobs[i].status = "complete" => jobs'[i] = jobs[i]
      BY <2>0, <2>00, <3>1, <3>2, <3>3, <3>4, OwnJobRuns
    <3>6. RunsOwnEvidence!(r)'
      <4>1. /\ runners'[r].job = j /\ runners'[r].lease = claims'
            /\ runners'[r].seen = Evidence(j)
        BY <1>0, <3>2
      <4>2. j \in DOMAIN jobs' /\ jobs'[j].stage = jobs[j].stage /\ jobs'[j].rec = jobs[j].rec
        BY <3>1, <3>2
      <4>3. Evidence(j)' = Evidence(j)
        BY <2>00, <4>2 DEF Evidence
      <4>4. QED
        BY <3>4, <4>1, <4>2, <4>3 DEF Evidence
    <3>7. RunsOwnEvidence'
      BY <3>5, <3>6 DEF RunsOwnEvidence
    <3>8. ReportsHaveJobs'
      BY <2>00, <3>2, <3>5, ReportsKeepJobs
    <3>9. QED
      BY <3>5, <3>7, <3>8 DEF RunInv
  <2>2. CASE ~JobIsCurrent(j)
    <3> DEFINE job == [jobs[j] EXCEPT !.status = "blocked"]
    <3>1. job \in Job /\ job.status = "blocked" /\ job.lease = jobs[j].lease
          /\ job.stage = jobs[j].stage /\ job.rec = jobs[j].rec
      BY <2>0 DEF Job
    <3>2. /\ jobs' = [jobs EXCEPT ![j] = job] /\ claims' = claims /\ runners' = runners
      BY <1>1, <2>2, Lists DEF Claim, runs
    <3>4. claims' \in Nat /\ claims <= claims' /\ job.lease \in {jobs[j].lease, claims'}
      BY <1>0, <3>1, <3>2
    <3>5. /\ JobsRefer'
          /\ \A q \in Runners \ {r} : RunsOwnEvidence!(q)'
          /\ \A i \in DOMAIN jobs : jobs[i].status = "complete" => jobs'[i] = jobs[i]
      BY <2>0, <2>00, <3>1, <3>2, <3>4, OwnJobRuns
    <3>6. runners'[r].pc = "idle"
      BY <1>1, <3>2 DEF Claim
    <3>7. RunsOwnEvidence'
      BY <3>5, <3>6 DEF RunsOwnEvidence
    <3>8. ReportsHaveJobs'
      BY <2>00, <3>2, <3>5, ReportsKeepJobs
    <3>9. QED
      BY <3>5, <3>7, <3>8 DEF RunInv
  <2>3. QED
    BY <2>1, <2>2
<1>2. CASE BeforeRequest(r)
  <2>1. PICK pc \in {"called", "refused"} : runners' = [runners EXCEPT ![r].pc = pc]
    BY <1>2 DEF BeforeRequest
  <2>2. /\ \A q \in Runners \ {r} : runners'[q] = runners[q]
        /\ runners'[r].job = runners[r].job /\ runners'[r].lease = runners[r].lease
        /\ runners'[r].seen = runners[r].seen
    BY <1>0, <2>1 DEF Runner
  <2>3. runners[r].pc # "idle" /\ UNCHANGED <<reports, recordings, source, jobs, claims>>
    BY <1>2 DEF BeforeRequest, evidence, ai
  <2>4. QED
    BY <2>2, <2>3, QuietRuns
<1>3. CASE StoreAnswer(r)
  <2> DEFINE j == runners[r].job
             job == [jobs[j] EXCEPT !.status = "complete"]
  <2>1. j \in DOMAIN jobs /\ jobs[j].status = "processing" /\ jobs[j] \in Job
    BY <1>3, Lists DEF StoreAnswer, Keep
  <2>2. job \in Job /\ job.status = "complete" /\ job.lease = jobs[j].lease
        /\ job.stage = jobs[j].stage /\ job.rec = jobs[j].rec
    BY <2>1 DEF Job
  <2>3. /\ jobs' = [jobs EXCEPT ![j] = job] /\ claims' = claims
        /\ runners' = [runners EXCEPT ![r] = Idle] /\ UNCHANGED <<recordings, source>>
    BY <1>3, <2>1, Lists DEF StoreAnswer
  <2>4. \A q \in Runners \ {r} : runners'[q] = runners[q]
    BY <1>0, <2>3
  <2>5. runners'[r].pc = "idle"
    BY <1>0, <2>3 DEF Idle
  <2>6. claims' \in Nat /\ claims <= claims' /\ job.lease \in {jobs[j].lease, claims'}
    BY <1>0, <2>2, <2>3
  <2>7. /\ JobsRefer'
        /\ \A q \in Runners \ {r} : RunsOwnEvidence!(q)'
        /\ \A i \in DOMAIN jobs : jobs[i].status = "complete" => jobs'[i] = jobs[i]
    BY <2>1, <2>2, <2>3, <2>4, <2>6, OwnJobRuns
  <2>8. RunsOwnEvidence'
    BY <2>5, <2>7 DEF RunsOwnEvidence
  <2>9. ReportsHaveJobs'
    <3>1. PICK p \in Report : /\ AddReport(jobs[j].stage, p) /\ p.job = j
                              /\ p.rec = jobs[j].rec /\ p.body = runners[r].seen
                              /\ jobs[j].stage \in {1, 4}
      BY <1>3, AnsweredReport
    <3>2. DOMAIN jobs' = DOMAIN jobs /\ jobs'[j] = job
      BY <2>1, <2>3
    <3>3. ASSUME NEW v \in DOMAIN reports[4], reports'[4][v] = reports[4][v],
                 reports[4][v].job # 0
          PROVE  ReportsHaveJobs!(v)'
      BY <2>3, <2>7, <3>2, <3>3 DEF RunInv, ReportsHaveJobs
    <3>4. CASE jobs[j].stage = 1
      <4>1. reports'[4] = reports[4]
        BY <3>1, <3>4, AddReportEffect DEF Stage
      <4>2. QED
        BY <3>3, <4>1 DEF ReportsHaveJobs
    <3>5. CASE jobs[j].stage = 4
      <4>1. /\ \A v \in DOMAIN reports[4] : reports'[4][v] = reports[4][v]
            /\ DOMAIN reports'[4] = DOMAIN reports[4] \cup {Len(reports[4]) + 1}
            /\ reports'[4][Len(reports[4]) + 1] = p
        BY <3>1, <3>5, AddReportEffect DEF Stage
      <4>2. jobs[j].rec \in DOMAIN recordings
        BY <2>1, <3>5 DEF RunInv, JobsRefer
      <4>3. runners[r].seen = Evidence(j)
        BY <1>3 DEF StoreAnswer, RunInv, RunsOwnEvidence
      <4>4. p.body = recordings[p.rec].transcript /\ p.rec \in DOMAIN recordings
        BY <3>1, <3>5, <4>2, <4>3 DEF Evidence
      <4>5. /\ p.job \in DOMAIN jobs' /\ jobs'[p.job].status = "complete"
            /\ jobs'[p.job].stage = 4 /\ jobs'[p.job].rec = p.rec
            /\ p.rec \in DOMAIN recordings' /\ p.body = recordings'[p.rec].transcript
        BY <2>1, <2>2, <2>3, <3>1, <3>2, <3>5, <4>4
      <4>6. ASSUME NEW v \in DOMAIN reports'[4], reports'[4][v].job # 0
            PROVE  ReportsHaveJobs!(v)'
        <5>1. CASE v \in DOMAIN reports[4]
          BY <3>3, <4>1, <4>6, <5>1
        <5>2. CASE v = Len(reports[4]) + 1
          BY <4>1, <4>5, <5>2
        <5>3. QED
          BY <4>1, <4>6, <5>1, <5>2
      <4>7. QED
        BY <4>6 DEF ReportsHaveJobs
    <3>6. QED
      BY <3>1, <3>4, <3>5
  <2>10. QED
    BY <2>7, <2>8, <2>9 DEF RunInv
<1>4. CASE StoreFailure(r)
  <2> DEFINE j == runners[r].job
  <2>1. j \in DOMAIN jobs /\ jobs[j].status = "processing" /\ jobs[j] \in Job
    BY <1>4, Lists DEF StoreFailure, Keep
  <2>2. PICK st \in {"failed", "blocked"} : jobs' = [jobs EXCEPT ![j].status = st]
    BY <1>4 DEF StoreFailure
  <2> DEFINE job == [jobs[j] EXCEPT !.status = st]
  <2>3. job \in Job /\ job.status = st /\ job.lease = jobs[j].lease
        /\ job.stage = jobs[j].stage /\ job.rec = jobs[j].rec
    BY <2>1 DEF Job
  <2>4. /\ jobs' = [jobs EXCEPT ![j] = job] /\ claims' = claims
        /\ runners' = [runners EXCEPT ![r] = Idle] /\ UNCHANGED <<reports, recordings, source>>
    BY <1>4, <2>1, <2>2, Lists DEF StoreFailure, evidence
  <2>5. \A q \in Runners \ {r} : runners'[q] = runners[q]
    BY <1>0, <2>4
  <2>6. runners'[r].pc = "idle"
    BY <1>0, <2>4 DEF Idle
  <2>7. claims' \in Nat /\ claims <= claims' /\ job.lease \in {jobs[j].lease, claims'}
    BY <1>0, <2>3, <2>4
  <2>8. /\ JobsRefer'
        /\ \A q \in Runners \ {r} : RunsOwnEvidence!(q)'
        /\ \A i \in DOMAIN jobs : jobs[i].status = "complete" => jobs'[i] = jobs[i]
    BY <2>1, <2>3, <2>4, <2>5, <2>7, OwnJobRuns
  <2>9. RunsOwnEvidence'
    BY <2>6, <2>8 DEF RunsOwnEvidence
  <2>10. ReportsHaveJobs'
    BY <2>4, <2>8, ReportsKeepJobs
  <2>11. QED
    BY <2>8, <2>9, <2>10 DEF RunInv
<1>5. CASE RunLost(r)
  <2>1. runners' = [runners EXCEPT ![r] = Idle]
        /\ UNCHANGED <<reports, recordings, source, jobs, claims>>
    BY <1>5 DEF RunLost, evidence, ai
  <2>2. runners'[r].pc = "idle" /\ \A q \in Runners \ {r} : runners'[q] = runners[q]
    BY <1>0, <2>1 DEF Idle
  <2>3. QED
    BY <2>1, <2>2, QuietRuns
<1>6. QED
  BY <1>1, <1>2, <1>3, <1>4, <1>5

LEMMA InitRuns == Init => RunInv
BY DEF Init, RunInv, JobsRefer, RunsOwnEvidence, ReportsHaveJobs, Idle, Stage

LEMMA NextRuns == ASSUME TypeOK, RunInv, [Next]_vars PROVE RunInv'
<1>1. CASE UNCHANGED vars
  BY <1>1 DEF vars, evidence, ai, runs, RunInv, JobsRefer, RunsOwnEvidence, ReportsHaveJobs,
     Keep, Evidence
<1>2. QED
  BY <1>1, CommandRuns, RunRuns DEF Next

\* The whole inductive invariant of the case, its jobs and its runs.
THEOREM FlowInvariant == Spec => []FlowInv
<1>1. Init => TypeOK /\ RunInv
  BY InitType, InitRuns
<1>2. TypeOK /\ RunInv /\ [Next]_vars => (TypeOK /\ RunInv)'
  BY NextType, NextRuns
<1>3. TypeOK /\ StageInv /\ RunInv => FlowInv
  BY DEF StageInv, RunInv, FlowInv
<1>4. QED
  BY <1>1, <1>2, <1>3, StagesAlways, PTL DEF Spec

\* The transcript that a fourth report of the AI was generated from is the one its
\* recording still has, whatever was retried, lost or overtaken.
THEOREM TranscriptsHold == Spec => []AiReportsMatchTheirTranscript
<1>1. FlowInv => AiReportsMatchTheirTranscript
  BY DEF FlowInv, ReportsHaveJobs, AiReportsMatchTheirTranscript
<1>2. QED
  BY <1>1, FlowInvariant, PTL

\* What AnswersAreFresh asks of a step that makes the reports of stage longer.
FreshAt(stage) ==
  Len(reports'[stage]) > Len(reports[stage]) =>
    LET new == reports'[stage][Len(reports'[stage])] IN
    new.job # 0 =>
      IF stage = 1 THEN new.body = source
      ELSE /\ new.rec = LatestRecording /\ new.src = LatestReport(1)
           /\ new.body = recordings[new.rec].transcript

LEMMA FreshStep ==
  ASSUME TypeOK, RunInv, Next, NEW stage \in {1, 4}
  PROVE  FreshAt(stage)
<1>0. Len(reports[stage]) \in Nat
  BY Lists DEF Stage
<1>1. CASE UNCHANGED reports
  BY <1>0, <1>1 DEF FreshAt
<1>2. ASSUME NEW st \in Stage, SaveReport(st)
      PROVE  FreshAt(stage)
  <2>1. PICK p \in Report : AddReport(st, p) /\ p.job = 0
    BY <1>2, SavedReport
  <2>2. CASE st = stage
    BY <1>0, <2>1, <2>2, AddReportEffect DEF FreshAt
  <2>3. CASE st # stage
    <3>1. reports'[stage] = reports[stage]
      BY <2>1, <2>3, AddReportEffect DEF Stage
    <3>2. QED
      BY <1>0, <3>1 DEF FreshAt
  <2>4. QED
    BY <2>2, <2>3
<1>3. ASSUME NEW r \in Runners, StoreAnswer(r)
      PROVE  FreshAt(stage)
  <2> DEFINE j == runners[r].job
  <2>1. j \in DOMAIN jobs /\ jobs[j].stage \in {1, 4} /\ jobs[j].stage \in Stage
    BY <1>3, AnsweredReport DEF Stage
  <2>2. PICK p \in Report : /\ AddReport(jobs[j].stage, p) /\ p.rec = jobs[j].rec
                            /\ p.src = jobs[j].src /\ p.body = runners[r].seen
    BY <1>3, AnsweredReport
  <2>3. runners[r].seen = Evidence(j)
    BY <1>3 DEF StoreAnswer, RunInv, RunsOwnEvidence
  <2>4. JobIsCurrent(j)
    BY <1>3 DEF StoreAnswer
  <2>5. CASE jobs[j].stage # stage
    <3>1. reports'[stage] = reports[stage]
      BY <2>1, <2>2, <2>5, AddReportEffect DEF Stage
    <3>2. QED
      BY <1>0, <3>1 DEF FreshAt
  <2>6. CASE jobs[j].stage = stage
    <3>1. reports'[stage][Len(reports'[stage])] = p
      BY <2>1, <2>2, <2>6, AddReportEffect
    <3>2. CASE stage = 1
      BY <2>2, <2>3, <2>6, <3>1, <3>2 DEF Evidence, FreshAt
    <3>3. CASE stage = 4
      <4>1. jobs[j].rec \in DOMAIN recordings
        BY <2>1, <2>6, <3>3 DEF RunInv, JobsRefer
      <4>2. p.body = recordings[p.rec].transcript
        BY <2>2, <2>3, <2>6, <3>3, <4>1 DEF Evidence
      <4>3. p.rec = LatestRecording /\ p.src = LatestReport(1)
        BY <2>2, <2>4, <2>6, <3>3 DEF JobIsCurrent
      <4>4. QED
        BY <3>1, <3>3, <4>2, <4>3 DEF FreshAt
    <3>4. QED
      BY <3>2, <3>3
  <2>7. QED
    BY <2>5, <2>6
<1>4. \/ UNCHANGED reports \/ \E st \in Stage : SaveReport(st)
      \/ \E r \in Runners : StoreAnswer(r)
  BY DEF Next, Run, Claim, BeforeRequest, StoreFailure, RunLost,
       Command, ImportIntakeSource, SaveSource, ExcludeSource, SetAiPolicy, QueueReport1,
       ConfirmAnalysis, ConfirmSolutions, RequestDocument, MarkRequestSent, SaveRecording,
       SaveTranscript, ReceiveDocument, ReviewDocument, RecordContract, ConfirmPayment,
       StartAftercare, BookMeeting, CompleteMeeting, CancelMeeting, RetryJob, evidence
<1>5. QED
  BY <1>1, <1>2, <1>3, <1>4

\* An answer of the provider is stored only for the evidence it was generated from:
\* the source of the first report, the transcript and first report of a fourth.
THEOREM AnswersFresh == Spec => AnswersAreFresh
<1>1. TypeOK /\ RunInv /\ [Next]_vars => [\A stage \in {1, 4} : FreshAt(stage)]_vars
  BY FreshStep
<1>2. FlowInv => TypeOK /\ RunInv
  BY DEF FlowInv, RunInv
<1>3. QED
  BY <1>1, <1>2, FlowInvariant, PTL DEF Spec, AnswersAreFresh, FreshAt
=============================================================================
