---------------------------- MODULE FlowStorage ----------------------------
(***************************************************************************)
(* The case of ConsultingFlow in its store.  The rules of a case are       *)
(* stated three times: by the commands of lib/consulting-flow.ts, by       *)
(* assertFlowCommitTransition of lib/consulting-flow-store.ts, which       *)
(* compares the case before and after an update with the receipt that the  *)
(* update adds, and by the triggers of db/schema.ts (FlowRules).  A        *)
(* command that one of the later two refuses can never be given.           *)
(*                                                                         *)
(* As in FlowRules an update is accepted when some receipt explains it.    *)
(***************************************************************************)
EXTENDS FlowShape

Rules == INSTANCE FlowRules

Appended(old, new)           == Rules!Appended(old, new)
OnlyTarget(old, new, target) == Rules!OnlyTarget(old, new, target)

-----------------------------------------------------------------------------
(* What each command may do, by the predicates of lib/consulting-flow.ts *)

SetsPolicy == jobs' = [j \in DOMAIN jobs |->
                         IF ~enabled' /\ jobs[j].status = "queued"
                         THEN [jobs[j] EXCEPT !.status = "blocked"] ELSE jobs[j]]

AddsJob(stage, rec, src, ready) ==
  jobs' = Append(jobs, [stage |-> stage, rec |-> rec, src |-> src, lease |-> 0,
                        status |-> IF enabled' /\ ready THEN "queued" ELSE "blocked"])

QueuesReport1 == AddsJob(1, 0, 0, TRUE)

\* The report and its sources; the stage is not asked for here either.
SavesReport ==
  \E stage \in Stage :
    LET new == reports'[stage][Len(reports[stage]) + 1] IN
    /\ Appended(reports[stage], reports'[stage])
    /\ \A other \in Stage \ {stage} : reports'[other] = reports[other]
    /\ new.body = "manual" /\ new.job = 0
    /\ new.src = IF stage = 1 THEN 0 ELSE LatestReport(1)
    /\ new.rec = IF stage = 4 THEN LatestRecording ELSE 0
    /\ new.decision = IF stage >= 5 THEN decision.id ELSE 0
    /\ new.key = IF stage >= 5 THEN DocumentsKey ELSE {}
    /\ analysis' = IF stage = 1
                   THEN [report |-> LatestReport(1) + 1, admin |-> FALSE, partner |-> FALSE]
                   ELSE analysis

ConfirmsAnalysis(actor) ==
  /\ LatestReport(1) # 0
  /\ LET of == IF analysis.report = LatestReport(1) THEN analysis
               ELSE [report |-> LatestReport(1), admin |-> FALSE, partner |-> FALSE]
     IN  analysis' = IF actor = "admin" THEN [of EXCEPT !.admin = TRUE]
                                        ELSE [of EXCEPT !.partner = TRUE]

BooksMeeting ==
  LET new == meetings'[Len(meetings) + 1] IN
  /\ Appended(meetings, meetings')
  /\ new.status = "scheduled"
  /\ CASE new.kind = "first" -> /\ AnalysisDone /\ FirstMeetings = {}
                                /\ new.attendance = "both"
       [] new.kind = "followup" -> FirstCompleted
       [] new.kind = "contract" -> SigningPreparationDone /\ ~Contracted

CompletesMeeting(actor, m) ==
  /\ OnlyTarget(meetings, meetings', m)
  /\ meetings[m].status = "scheduled" /\ CanAttend(actor, m)
  /\ meetings'[m] = [meetings[m] EXCEPT !.status = "completed"]
  /\ meetings[m].kind = "first" => AnalysisDone /\ PreparationDone /\ ~Active(1)

CancelsMeeting(actor, m) ==
  /\ OnlyTarget(meetings, meetings', m)
  /\ meetings[m].status = "scheduled" /\ CanAttend(actor, m)
  /\ meetings'[m] = [meetings[m] EXCEPT !.status = "cancelled"]

ConfirmsSolutions ==
  /\ ~Contracted
  /\ IsDeepReport(decision'.report)
  /\ decision'.id \notin {0, decision.id}

RequestsDocument ==
  /\ ~Contracted
  /\ Appended(requests, requests')
  /\ LET new == requests'[Len(requests) + 1]
     IN  new.status = "requested" /\ new.file = None /\ ~new.sent /\ new.verified = 0

MarksSent(i) == /\ OnlyTarget(requests, requests', i)
                /\ requests'[i] = [requests[i] EXCEPT !.sent = TRUE]

\* Another file, or a file for a request that was reviewed, is to be reviewed anew.
ReceivesDocument(i) ==
  /\ ~Contracted
  /\ OnlyTarget(requests, requests', i)
  /\ LET file == requests'[i].file
         anew == file # requests[i].file \/ requests[i].status # "received"
     IN  /\ file # None
         /\ requests'[i] = [requests[i] EXCEPT
              !.file = file, !.status = "received",
              !.verified = IF anew THEN 0 ELSE requests[i].verified]

\* The time of the review is the time of the update.
ReviewsDocument(i) ==
  /\ ~Contracted
  /\ OnlyTarget(requests, requests', i)
  /\ requests[i].status # "requested" /\ requests[i].file # None
  /\ LET status == requests'[i].status
     IN  /\ status \in {"verified", "needs_fix"}
         /\ requests'[i].reviews # requests[i].reviews
         /\ requests'[i] = [requests[i] EXCEPT
              !.status = status, !.reviews = requests'[i].reviews,
              !.verified = IF status = "verified" THEN requests'[i].reviews ELSE 0]

\* Variant: a contract meeting that is over already may not be signed at.
SignsScheduled(actor, m) ==
  /\ ~Contracted /\ SigningPreparationDone
  /\ OnlyTarget(meetings, meetings', m)
  /\ meetings[m].kind = "contract" /\ meetings[m].status = "scheduled"
  /\ CanAttend(actor, m)
  /\ meetings'[m] = [meetings[m] EXCEPT !.status = "completed"]
  /\ contract'.meeting = m /\ contract'.report = LatestReport(6)
  /\ contract'.deposit \in Nat \ {0}

RecordsContract(actor, m) ==
  /\ ~Contracted /\ SigningPreparationDone
  /\ OnlyTarget(meetings, meetings', m)
  /\ meetings[m].kind = "contract" /\ meetings[m].status \in {"scheduled", "completed"}
  /\ CanAttend(actor, m)
  /\ meetings'[m] = [meetings[m] EXCEPT !.status = "completed"]
  /\ contract'.meeting = m /\ contract'.report = LatestReport(6)
  /\ contract'.deposit \in Nat \ {0}

\* Execution keeps the time it started, or starts with the payment that completes
\* the deposit.
ConfirmsPayment ==
  /\ Contracted
  /\ paid' > paid
  /\ execution' = (execution \/ paid' >= contract.deposit)

StartsAftercare == DepositComplete /\ execution /\ aftercare' = TRUE

SavesRecording ==
  LET new == recordings'[LatestRecording + 1] IN
  /\ Appended(recordings, recordings')
  /\ new.meeting \in DOMAIN meetings /\ meetings[new.meeting].status = "completed"
  /\ AddsJob(4, LatestRecording + 1, LatestReport(1), new.transcript # None)

\* Only the newest job of the newest recording runs again.
SavesTranscript ==
  LET Newest(j) == /\ jobs[j].rec = LatestRecording
                   /\ \A k \in DOMAIN jobs : jobs[k].rec = LatestRecording => k <= j
  IN  /\ OnlyTarget(recordings, recordings', LatestRecording)
      /\ recordings'[LatestRecording] =
           [recordings[LatestRecording] EXCEPT
              !.transcript = recordings'[LatestRecording].transcript]
      /\ recordings'[LatestRecording] # recordings[LatestRecording]
      /\ jobs' = [j \in DOMAIN jobs |->
                    IF Newest(j) /\ ~(jobs[j].status = "failed" /\ ~enabled')
                    THEN [jobs[j] EXCEPT !.status = IF enabled' THEN "queued" ELSE "blocked",
                                         !.lease = 0]
                    ELSE jobs[j]]

RetriesJob ==
  \E j \in DOMAIN jobs :
    /\ jobs[j].status \in {"blocked", "failed", "processing"}
    /\ jobs' = [jobs EXCEPT ![j].status = "queued", ![j].lease = 0]

-----------------------------------------------------------------------------
(* What every update may do to the jobs *)

\* The start of a run stays with it and with its outcome.
KeepsLifecycle(was, is) ==
  \/ is.status = was.status
     /\ is.lease \in IF was.status = "blocked" THEN {was.lease, 0} ELSE {was.lease}
  \/ was.status = "queued" /\ is.status = "processing" /\ is.lease # 0
  \/ was.status = "queued" /\ is.status = "blocked" /\ is.lease = 0
  \/ was.status \in {"blocked", "failed", "processing"} /\ is.status = "queued" /\ is.lease = 0
  \/ /\ was.status = "processing" /\ is.status \in {"blocked", "failed", "complete"}
     /\ is.lease = was.lease

\* A new job waits, and is about the newest recording and the newest first report.
NewJobOK(job) ==
  /\ job.status \in {"queued", "blocked"} /\ job.lease = 0
  /\ job.stage = 1 => job.rec = 0 /\ job.src = 0
  /\ job.stage = 4 => job.rec = Len(recordings') /\ job.src = Len(reports'[1])

JobsAccepted ==
  \/ jobs' = jobs
  \/ /\ DOMAIN jobs \subseteq DOMAIN jobs'
     /\ \A j \in DOMAIN jobs :
          /\ [jobs'[j] EXCEPT !.status = jobs[j].status, !.lease = jobs[j].lease] = jobs[j]
          /\ KeepsLifecycle(jobs[j], jobs'[j])
     /\ \A j \in DOMAIN jobs' \ DOMAIN jobs : NewJobOK(jobs'[j])

Started(j)  == jobs[j].status = "queued" /\ jobs'[j].status = "processing"
Finished(j) == /\ jobs[j].status = "processing"
               /\ jobs'[j].status \in {"blocked", "failed", "complete"}

CommandAccepted ==
  /\ \A j \in DOMAIN jobs : ~Started(j) /\ ~Finished(j)
  /\ \E touched \in {Rules!Touched} :
     LET Within(action) == touched \subseteq Rules!Scope[action] IN
     \/ \E action \in {"import_intake_source", "save_source", "exclude_source"} :
          Within(action)
     \/ Within("set_ai_policy") /\ SetsPolicy
     \/ Within("queue_report1") /\ QueuesReport1
     \/ Within("save_report") /\ SavesReport
     \/ Within("confirm_analysis") /\ \E actor \in Role : ConfirmsAnalysis(actor)
     \/ Within("book_meeting") /\ BooksMeeting
     \/ Within("complete_meeting") /\ \E actor \in Role, m \in DOMAIN meetings :
                                        CompletesMeeting(actor, m)
     \/ Within("cancel_meeting") /\ \E actor \in Role, m \in DOMAIN meetings :
                                      CancelsMeeting(actor, m)
     \/ Within("save_recording") /\ SavesRecording
     \/ Within("save_transcript") /\ SavesTranscript
     \/ Within("retry_job") /\ RetriesJob
     \/ Within("confirm_solutions") /\ ConfirmsSolutions
     \/ Within("request_document") /\ RequestsDocument
     \/ Within("mark_request_sent") /\ \E i \in DOMAIN requests : MarksSent(i)
     \/ Within("receive_document") /\ \E i \in DOMAIN requests : ReceivesDocument(i)
     \/ Within("review_document") /\ \E i \in DOMAIN requests : ReviewsDocument(i)
     \/ Within("record_contract") /\ \E actor \in Role, m \in DOMAIN meetings :
                                       RecordsContract(actor, m)
     \/ Within("confirm_payment") /\ ConfirmsPayment
     \/ Within("start_aftercare") /\ StartsAftercare

\* The one report a finished run adds, from the sources of its job.
ResultAccepted(j) ==
  LET stage == jobs[j].stage
      new   == reports'[stage][Len(reports[stage]) + 1]
  IN  /\ Appended(reports[stage], reports'[stage])
      /\ \A other \in Stage \ {stage} : reports'[other] = reports[other]
      /\ new.job = j /\ new.decision = 0 /\ new.key = {}
      /\ new.src = jobs[j].src /\ new.rec = jobs[j].rec
      /\ analysis' = IF stage = 1
                     THEN [report |-> LatestReport(1) + 1, admin |-> FALSE, partner |-> FALSE]
                     ELSE analysis

\* An update without a command moves one job; only a result moves anything else.
\* (The code looks at such an update only when a job moved; no run makes another.)
RunAccepted ==
  \E j \in DOMAIN jobs :
    /\ OnlyTarget(jobs, jobs', j)
    /\ Started(j) \/ Finished(j) \/ (jobs[j].status = "queued" /\ jobs'[j].status = "blocked")
    /\ IF jobs'[j].status = "complete"
       THEN Rules!Touched \subseteq {"jobs", "reports", "analysis"} /\ ResultAccepted(j)
       ELSE Rules!Touched \subseteq {"jobs"}

Accepted == JobsAccepted /\ (CommandAccepted \/ RunAccepted)

-----------------------------------------------------------------------------
(* Properties *)

\* Every update the code makes of a case, by a command or by a run of the AI, is
\* one that assertFlowCommitTransition lets through: no accepted command ends in
\* the error that asks for the administrator's repair.
AcceptedByCommit == [][Accepted]_<<evidence, signed, ai>>

\* And one that the database admits: no accepted command is aborted by a trigger.
AdmittedByDatabase == [][Rules!Next]_<<evidence, signed, ai>>

-----------------------------------------------------------------------------
(* Strengthening of FlowInv for the proofs *)

\* A job that waits was not started, and a recording has one job.
JobsWait ==
  \A j \in DOMAIN jobs :
    /\ jobs[j].status = "queued" => jobs[j].lease = 0
    /\ \A i \in DOMAIN jobs : jobs[i].rec = jobs[j].rec /\ jobs[j].rec # 0 => i = j

\* The review that approved a file is one of its reviews.
ReviewsNumbered == \A i \in DOMAIN requests : requests[i].verified <= requests[i].reviews

\* A report after the first has the first report it was made from, a fourth the
\* recording, a quote and a contract document the decision.
ReportsHaveSources ==
  \A stage \in Stage : \A v \in DOMAIN reports[stage] :
    /\ stage # 1 => reports[stage][v].src # 0
    /\ stage = 4 => reports[stage][v].rec # 0
    /\ stage >= 5 => reports[stage][v].decision # 0

StoreInv == JobsWait /\ ReviewsNumbered /\ ReportsHaveSources
=============================================================================
