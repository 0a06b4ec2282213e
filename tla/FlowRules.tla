----------------------------- MODULE FlowRules -----------------------------
(***************************************************************************)
(* What the database admits of one consulting case: the triggers on        *)
(* consulting_flows in db/schema.ts.  They compare the row before and      *)
(* after an update with the receipt of the command that it adds, and       *)
(* abort the update when they differ from what that command may do.        *)
(*                                                                         *)
(* A rule relates the case before (unprimed) and after (primed) without    *)
(* knowing how the code computed it.  Receipt, command id and audit entry  *)
(* are hidden: an update is admitted when some receipt explains it.        *)
(* Objects are numbered as in ConsultingFlow.                              *)
(***************************************************************************)
EXTENDS Naturals, Sequences

CONSTANT None

VARIABLES reports, analysis, meetings, recordings, requests, decision, contract,
          paid, execution, aftercare, enabled, source, jobs

Stage == 1 .. 6

\* The parts of a case that an update changes, as the scopes name them; aftercare,
\* the amounts paid and the start of execution are one part each.
Part(name, old, new) == IF old = new THEN {} ELSE {name}

Touched ==
  UNION {Part("reports", reports, reports'), Part("analysis", analysis, analysis'),
         Part("meetings", meetings, meetings'),
         Part("recordings", recordings, recordings'),
         Part("requests", requests, requests'), Part("decision", decision, decision'),
         Part("contract", contract, contract'), Part("payments", paid, paid'),
         Part("execution", execution, execution'),
         Part("aftercare", aftercare, aftercare'), Part("policy", enabled, enabled'),
         Part("source", source, source'), Part("jobs", jobs, jobs')}

\* FLOW_COMMAND_STATE_SCOPE_PATHS
Scope ==
  [import_intake_source |-> {"source"}, save_source |-> {"source"},
   exclude_source |-> {"source"}, set_ai_policy |-> {"policy", "jobs"},
   queue_report1 |-> {"jobs"}, retry_job |-> {"jobs"},
   save_report |-> {"reports", "analysis"}, confirm_analysis |-> {"analysis"},
   book_meeting |-> {"meetings"}, complete_meeting |-> {"meetings"},
   cancel_meeting |-> {"meetings"},
   save_recording |-> {"recordings", "jobs"}, save_transcript |-> {"recordings", "jobs"},
   confirm_solutions |-> {"decision"},
   request_document |-> {"requests"}, mark_request_sent |-> {"requests"},
   receive_document |-> {"requests"}, review_document |-> {"requests"},
   record_contract |-> {"contract", "meetings"},
   confirm_payment |-> {"payments", "execution"}, start_aftercare |-> {"aftercare"}]

\* json_array_length + 1, and every previous element as it was.
Appended(old, new) == /\ Len(new) = Len(old) + 1
                      /\ \A i \in DOMAIN old : new[i] = old[i]

\* The elements are as many as before, and all but the target are as they were.
OnlyTarget(old, new, target) ==
  /\ target \in DOMAIN old
  /\ Len(new) = Len(old)
  /\ \A i \in DOMAIN old \ {target} : new[i] = old[i]

-----------------------------------------------------------------------------
(* Conditions on the case before the update *)

LatestFirst     == Len(reports[1])
LatestRecording == Len(recordings)
NoContract      == contract.meeting = 0

AnalysisConfirmed == /\ LatestFirst # 0
                     /\ analysis.report = LatestFirst
                     /\ analysis.admin /\ analysis.partner

BuiltOnLatestFirst(stage) ==
  /\ reports[stage] # <<>>
  /\ reports[stage][Len(reports[stage])].src = LatestFirst

Generating(stage) == \E j \in DOMAIN jobs : /\ jobs[j].stage = stage
                                            /\ jobs[j].status \in {"queued", "processing"}

\* json_group_array over the required requests.
RequiredKey == {<<i, requests[i].file, requests[i].verified>> :
                  i \in {k \in DOMAIN requests : requests[k].required}}

\* The newest report of the stage was made for the decision and its documents.
MadeForDecision(stage) ==
  /\ reports[stage] # <<>>
  /\ reports[stage][Len(reports[stage])].decision = decision.id
  /\ reports[stage][Len(reports[stage])].key = RequiredKey

\* What booking a contract meeting and recording the contract ask for.
ReadyToSign ==
  /\ NoContract /\ decision.id # 0
  /\ decision.report \in DOMAIN reports[4]
  /\ reports[4][decision.report].src = LatestFirst
  /\ reports[4][decision.report].rec = LatestRecording
  /\ decision.documents => \E i \in DOMAIN requests : requests[i].required
  /\ \A i \in DOMAIN requests : requests[i].required => requests[i].status = "verified"
  /\ MadeForDecision(5) /\ MadeForDecision(6)

\* The administrator always, the partner when the meeting is theirs.
Attends(actor, m) == actor = "admin" \/ meetings[m].attendance \in {"both", "partner"}

-----------------------------------------------------------------------------
(* Reports, analysis, meetings *)

\* A report saved by hand names what it was made from; a first one starts the joint
\* analysis anew.  Whether its stage is open is not asked here.
SaveReport ==
  \E stage \in Stage :
    LET new == reports'[stage][Len(reports[stage]) + 1] IN
    /\ Appended(reports[stage], reports'[stage])
    /\ \A other \in Stage \ {stage} : reports'[other] = reports[other]
    /\ new.body = "manual" /\ new.job = 0
    /\ IF stage = 1 THEN new.src = 0 ELSE LatestFirst # 0 /\ new.src = LatestFirst
    /\ IF stage = 4 THEN LatestRecording # 0 /\ new.rec = LatestRecording ELSE new.rec = 0
    /\ IF stage >= 5
       THEN decision.id # 0 /\ new.decision = decision.id /\ new.key = RequiredKey
       ELSE new.decision = 0 /\ new.key = {}
    /\ analysis' = IF stage = 1
                   THEN [report |-> LatestFirst + 1, admin |-> FALSE, partner |-> FALSE]
                   ELSE analysis

ConfirmAnalysis(actor) ==
  /\ LatestFirst # 0
  /\ LET of == IF analysis.report = LatestFirst THEN analysis
               ELSE [report |-> LatestFirst, admin |-> FALSE, partner |-> FALSE]
     IN  analysis' = IF actor = "admin" THEN [of EXCEPT !.admin = TRUE]
                                        ELSE [of EXCEPT !.partner = TRUE]

BookMeeting ==
  LET new == meetings'[Len(meetings) + 1] IN
  /\ Appended(meetings, meetings')
  /\ new.status = "scheduled"
  /\ \/ /\ new.kind = "first" /\ new.attendance = "both" /\ AnalysisConfirmed
        /\ \A m \in DOMAIN meetings : meetings[m].kind = "first" =>
                                        meetings[m].status = "cancelled"
     \/ /\ new.kind = "followup"
        /\ \E m \in DOMAIN meetings : /\ meetings[m].kind = "first"
                                      /\ meetings[m].status = "completed"
     \/ new.kind = "contract" /\ ReadyToSign

CompleteMeeting(actor, m) ==
  /\ OnlyTarget(meetings, meetings', m)
  /\ meetings[m].status = "scheduled" /\ Attends(actor, m)
  /\ meetings'[m] = [meetings[m] EXCEPT !.status = "completed"]
  /\ meetings[m].kind = "first" =>
       AnalysisConfirmed /\ BuiltOnLatestFirst(2) /\ BuiltOnLatestFirst(3) /\ ~Generating(1)

CancelMeeting(actor, m) ==
  /\ OnlyTarget(meetings, meetings', m)
  /\ meetings[m].status = "scheduled" /\ Attends(actor, m)
  /\ meetings'[m] = [meetings[m] EXCEPT !.status = "cancelled"]

ConfirmSolutions ==
  /\ NoContract
  /\ \E v \in DOMAIN reports[4] :
       /\ reports[4][v].src = LatestFirst /\ reports[4][v].rec = LatestRecording
       /\ \A w \in DOMAIN reports[4] :
            reports[4][w].src = LatestFirst /\ reports[4][w].rec = LatestRecording => w <= v
       /\ decision'.report = v
  /\ decision'.id # decision.id /\ decision'.id # 0

-----------------------------------------------------------------------------
(* Documents *)

RequestDocument ==
  LET new == requests'[Len(requests) + 1] IN
  /\ NoContract
  /\ Appended(requests, requests')
  /\ new.status = "requested" /\ new.file = None /\ ~new.sent /\ new.verified = 0

MarkRequestSent(i) ==
  /\ OnlyTarget(requests, requests', i)
  /\ requests'[i] = [requests[i] EXCEPT !.sent = TRUE]

\* Variant: only another file takes the approval back.
ReceivedAgain(i) ==
  /\ NoContract
  /\ OnlyTarget(requests, requests', i)
  /\ requests'[i].file # None /\ requests'[i].status = "received"
  /\ requests'[i].verified =
       IF requests'[i].file # requests[i].file THEN 0 ELSE requests[i].verified

\* Another file, or any file for a request that is not waiting for its review,
\* takes the approval back.  Exactly one request has to change.
ReceiveDocument(i) ==
  /\ NoContract
  /\ OnlyTarget(requests, requests', i)
  /\ requests'[i].file # None /\ requests'[i].status = "received"
  /\ requests'[i].verified =
       IF requests'[i].file # requests[i].file \/ requests[i].status # "received"
       THEN 0 ELSE requests[i].verified
  /\ requests'[i].required = requests[i].required
  /\ requests'[i].sent = requests[i].sent

\* An approval is new: it is the time of this update.
ReviewDocument(i) ==
  /\ NoContract
  /\ OnlyTarget(requests, requests', i)
  /\ requests[i].status # "requested" /\ requests[i].file # None
  /\ \/ requests'[i].status = "verified" /\ requests'[i].verified \notin {0, requests[i].verified}
     \/ requests'[i].status = "needs_fix" /\ requests'[i].verified = 0
  /\ requests'[i].file = requests[i].file
  /\ requests'[i].required = requests[i].required
  /\ requests'[i].sent = requests[i].sent

-----------------------------------------------------------------------------
(* Contract, payments, aftercare *)

\* A scheduled contract meeting is completed by the contract, a completed one kept.
ContractMeeting(actor, m) ==
  /\ OnlyTarget(meetings, meetings', m)
  /\ meetings[m].kind = "contract" /\ meetings[m].status \in {"scheduled", "completed"}
  /\ Attends(actor, m)
  /\ meetings'[m] = [meetings[m] EXCEPT !.status = "completed"]
  /\ ReadyToSign

\* The contract names that meeting, the newest contract document and a deposit.
ContractEvidence(m) ==
  /\ contract'.meeting = m
  /\ contract'.report = Len(reports[6])
  /\ contract'.deposit \in Nat \ {0}

RecordContract(actor, m) == ContractMeeting(actor, m) /\ ContractEvidence(m)

ConfirmPayment ==
  /\ ~NoContract
  /\ paid' > paid
  /\ execution' = (execution \/ paid' >= contract.deposit)

StartAftercare ==
  /\ ~NoContract /\ execution /\ paid >= contract.deposit
  /\ aftercare' = TRUE

-----------------------------------------------------------------------------
(* Jobs made or moved by a command *)

\* What json_set and json_remove make of a job that is to run again.
Again(job, status) == [job EXCEPT !.status = status, !.lease = 0]

NewJob(stage, rec, src, ready) ==
  /\ Appended(jobs, jobs')
  /\ jobs'[Len(jobs) + 1] = [stage |-> stage, rec |-> rec, src |-> src, lease |-> 0,
                             status |-> IF enabled /\ ready THEN "queued" ELSE "blocked"]

\* Switching the AI off blocks what waits, and nothing else.
SetAiPolicy ==
  jobs' = [j \in DOMAIN jobs |-> IF ~enabled' /\ jobs[j].status = "queued"
                                 THEN [jobs[j] EXCEPT !.status = "blocked"] ELSE jobs[j]]

QueueReport1 == NewJob(1, 0, 0, TRUE)

SaveRecording ==
  LET new == recordings'[LatestRecording + 1] IN
  /\ Appended(recordings, recordings')
  /\ new.meeting \in DOMAIN meetings /\ meetings[new.meeting].status = "completed"
  /\ LatestFirst # 0
  /\ NewJob(4, LatestRecording + 1, LatestFirst, new.transcript # None)

\* The newest job of the newest recording runs again with the new transcript.
TranscriptJobs ==
  LET Last(j) == /\ jobs[j].rec = LatestRecording
                 /\ \A k \in DOMAIN jobs : jobs[k].rec = LatestRecording => k <= j
  IN  jobs' = [j \in DOMAIN jobs |->
                 IF Last(j) /\ ~(jobs[j].status = "failed" /\ ~enabled)
                 THEN Again(jobs[j], IF enabled THEN "queued" ELSE "blocked")
                 ELSE jobs[j]]

\* The receipt names the newest recording, and only its transcript changes.
TranscriptTarget ==
  /\ OnlyTarget(recordings, recordings', LatestRecording)
  /\ recordings'[LatestRecording].meeting = recordings[LatestRecording].meeting
  /\ recordings'[LatestRecording] # recordings[LatestRecording]

SaveTranscript == TranscriptTarget /\ TranscriptJobs

RetryJob ==
  \E j \in DOMAIN jobs :
    /\ jobs[j].status \in {"blocked", "failed", "processing"}
    /\ jobs' = [jobs EXCEPT ![j] = Again(jobs[j], "queued")]

-----------------------------------------------------------------------------
(* What holds of the jobs in every update *)

\* No job disappears; a new one waits, and was never started.
JobsTransition ==
  /\ DOMAIN jobs \subseteq DOMAIN jobs'
  /\ \A j \in DOMAIN jobs' \ DOMAIN jobs :
       jobs'[j].status \in {"queued", "blocked"} /\ jobs'[j].lease = 0

JobIdentity ==
  \A j \in DOMAIN jobs : /\ jobs'[j].stage = jobs[j].stage
                         /\ jobs'[j].rec = jobs[j].rec /\ jobs'[j].src = jobs[j].src

JobStatus ==
  \A j \in DOMAIN jobs :
    LET was == jobs[j].status  is == jobs'[j].status
    IN  \/ is = was
        \/ was = "queued" /\ is \in {"processing", "blocked"}
        \/ was \in {"blocked", "failed"} /\ is = "queued"
        \/ was = "processing" /\ is \in {"queued", "blocked", "failed", "complete"}

\* The start of a run is recorded when it begins, kept while it lasts and in its
\* outcome, and removed when the job waits again.
JobLifecycle ==
  \A j \in DOMAIN jobs :
    LET was == jobs[j]  is == jobs'[j]
    IN  CASE is.status = was.status ->
               is.lease = was.lease \/ (was.status = "blocked" /\ is.lease = 0)
          [] is.status # was.status /\ is.status = "processing" -> is.lease # 0
          [] is.status # was.status /\ (is.status = "queued" \/ was.status = "queued")
               /\ is.status # "processing" -> is.lease = 0
          [] OTHER -> is.lease = was.lease

\* A job of the first stage has no sources, one of the fourth the newest ones.
JobCreation ==
  \A j \in DOMAIN jobs' \ DOMAIN jobs :
    \/ jobs'[j].stage = 1 /\ jobs'[j].rec = 0 /\ jobs'[j].src = 0
    \/ /\ jobs'[j].stage = 4
       /\ jobs'[j].rec = Len(recordings') /\ recordings' # <<>>
       /\ jobs'[j].src = Len(reports'[1]) /\ reports'[1] # <<>>

JobsAdmitted ==
  jobs' = jobs \/ (JobsTransition /\ JobIdentity /\ JobStatus /\ JobLifecycle /\ JobCreation)

\* A command neither starts nor finishes a run of the AI.
NoAiTransition ==
  \A j \in DOMAIN jobs :
    /\ ~(jobs[j].status = "queued" /\ jobs'[j].status = "processing")
    /\ ~(jobs[j].status = "processing" /\ jobs'[j].status \in {"blocked", "failed", "complete"})

CommandStep ==
  /\ JobsAdmitted /\ NoAiTransition
  /\ \E touched \in {Touched} :
     LET Within(action) == touched \subseteq Scope[action] IN
     \/ \E action \in {"import_intake_source", "save_source", "exclude_source"} :
          Within(action)
     \/ Within("set_ai_policy") /\ SetAiPolicy
     \/ Within("queue_report1") /\ QueueReport1
     \/ Within("save_report") /\ SaveReport
     \/ Within("confirm_analysis") /\ \E actor \in {"admin", "partner"} :
                                         ConfirmAnalysis(actor)
     \/ Within("book_meeting") /\ BookMeeting
     \/ Within("complete_meeting") /\ \E actor \in {"admin", "partner"} :
                                   \E m \in DOMAIN meetings : CompleteMeeting(actor, m)
     \/ Within("cancel_meeting") /\ \E actor \in {"admin", "partner"} :
                                   \E m \in DOMAIN meetings : CancelMeeting(actor, m)
     \/ Within("save_recording") /\ SaveRecording
     \/ Within("save_transcript") /\ SaveTranscript
     \/ Within("retry_job") /\ RetryJob
     \/ Within("confirm_solutions") /\ ConfirmSolutions
     \/ Within("request_document") /\ RequestDocument
     \/ Within("mark_request_sent") /\ \E i \in DOMAIN requests : MarkRequestSent(i)
     \/ Within("receive_document") /\ \E i \in DOMAIN requests : ReceiveDocument(i)
     \/ Within("review_document") /\ \E i \in DOMAIN requests : ReviewDocument(i)
     \/ Within("record_contract") /\ \E actor \in {"admin", "partner"} :
                                   \E m \in DOMAIN meetings : RecordContract(actor, m)
     \/ Within("confirm_payment") /\ ConfirmPayment
     \/ Within("start_aftercare") /\ StartAftercare

-----------------------------------------------------------------------------
(* Updates without a command: the steps of an AI run *)

Completes(j) == jobs[j].status = "processing" /\ jobs'[j].status = "complete"

\* Only reports, the analysis and jobs move, the first two only with a result.
NonCommandScope(j) ==
  Touched \subseteq IF Completes(j) THEN {"jobs", "reports", "analysis"} ELSE {"jobs"}

NonCommandTarget(j) == OnlyTarget(jobs, jobs', j) /\ jobs'[j] # jobs[j]

NonCommandTransition(j) ==
  \/ jobs'[j].status = jobs[j].status
  \/ jobs[j].status = "queued" /\ jobs'[j].status \in {"processing", "blocked"}
  \/ jobs[j].status = "processing" /\ jobs'[j].status \in {"blocked", "failed", "complete"}

\* The result of a job is one report of its stage, made from the sources of the job.
AiResultReport(j) ==
  LET stage == jobs[j].stage
      new   == reports'[stage][Len(reports[stage]) + 1]
  IN  /\ Appended(reports[stage], reports'[stage])
      /\ \A other \in Stage \ {stage} : reports'[other] = reports[other]
      /\ new.job = j /\ new.decision = 0 /\ new.key = {}
      /\ new.src = jobs[j].src /\ new.rec = jobs[j].rec
      /\ analysis' = IF stage = 1
                     THEN [report |-> LatestFirst + 1, admin |-> FALSE, partner |-> FALSE]
                     ELSE analysis

AiStep ==
  \E j \in DOMAIN jobs :
    /\ NonCommandScope(j) /\ NonCommandTarget(j) /\ NonCommandTransition(j)
    /\ Completes(j) => AiResultReport(j)
    /\ JobsAdmitted

Next == CommandStep \/ AiStep
=============================================================================
