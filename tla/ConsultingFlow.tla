--------------------------- MODULE ConsultingFlow ---------------------------
(***************************************************************************)
(* One consulting case: the commands of lib/consulting-flow.ts, the AI     *)
(* jobs of lib/consulting-flow-jobs.ts and the runner of                   *)
(* lib/consulting-flow-ai.ts.                                              *)
(*                                                                         *)
(* The case is one JSON document that every command reads, changes and     *)
(* commits against the revision it read (lib/consulting-flow-store.ts), so *)
(* a command is one atomic action here.  A run of an AI job is not: it     *)
(* claims the job in one commit, checks again, calls the provider, and     *)
(* stores the answer in another commit, while commands go on.              *)
(*                                                                         *)
(* Identifiers are positions: a report is its version within its stage, a  *)
(* meeting, recording, request or job its index; 0 is "no such object".    *)
(* Wall-clock guards (a meeting has begun, bookings do not overlap, a      *)
(* lease is older than 180 s) are met by letting time pass or by another   *)
(* slot, so any step may follow any other here.  Consents, names, notes    *)
(* and sizes are required inputs that no later step reads.                 *)
(***************************************************************************)
EXTENDS Naturals, Sequences, FiniteSets

CONSTANTS
  Runners,        \* concurrent POSTs of the run route
  Transcripts,    \* reviewed transcripts
  Sources,        \* states of the masked evidence for the first report
  Documents,      \* files received for a document request
  None,
  MaxReports,     \* FLOW_COLLECTION_LIMITS.reports
  MaxMeetings,    \* ... .meetings
  MaxRecordings,  \* ... .recordings
  MaxRequests,    \* ... .requests
  MaxJobs,        \* ... .jobs
  MaxDecisions, MaxReviews, MaxClaims,  \* bounds: decisions, reviews, leases
  MaxDeposit      \* bound: the agreed deposit; no payment exceeds it

ASSUME FlowAssumption ==
  /\ None \notin Transcripts \cup Sources \cup Documents
  /\ {MaxReports, MaxMeetings, MaxRecordings, MaxRequests, MaxJobs, MaxDecisions,
      MaxReviews, MaxClaims, MaxDeposit} \subseteq Nat

VARIABLES
  reports,     \* the reports of each stage, oldest first
  analysis,    \* the joint analysis of a first report
  meetings, recordings, requests,
  decision,    \* the solutions chosen from a fourth report
  contract, paid, execution, aftercare,
  enabled,     \* the external AI is approved
  source,      \* the evidence for the first report
  jobs,        \* AI jobs
  claims,      \* leases given so far (job.startedAt)
  runners      \* the AI runs in progress

evidence == <<reports, analysis, meetings, recordings, requests, decision>>
signed   == <<contract, paid, execution, aftercare>>
ai       == <<enabled, source, jobs>>
runs     == <<claims, runners>>
vars     == <<evidence, signed, ai, runs>>

Stage   == 1 .. 6
Role    == {"admin", "partner"}
\* body is what an AI report was generated from, and "manual" for an uploaded one.
Report  == [src : Nat, rec : Nat, decision : Nat, job : Nat,
            key : SUBSET (Nat \X (Documents \cup {None}) \X Nat),
            body : Transcripts \cup Sources \cup {"manual"}]
Meeting == [kind : {"first", "followup", "contract"},
            attendance : Role \cup {"both"},
            status : {"scheduled", "completed", "cancelled"}]
Recording == [meeting : Nat, transcript : Transcripts \cup {None}]
\* reviews counts representative reviews; verified is the one that approved the
\* file (verifiedAt), or 0.
Request == [required : BOOLEAN, file : Documents \cup {None}, sent : BOOLEAN,
            status : {"requested", "received", "needs_fix", "verified"},
            reviews : Nat, verified : Nat]
Job     == [stage : {1, 4}, rec : Nat, src : Nat, lease : Nat,
            status : {"queued", "processing", "blocked", "failed", "complete"}]
Runner  == [pc : {"idle", "claimed", "called", "refused"}, job : Nat, lease : Nat,
            seen : Transcripts \cup Sources \cup {None}]

TypeOK ==
  /\ reports \in [Stage -> Seq(Report)]
  /\ analysis \in [report : Nat, admin : BOOLEAN, partner : BOOLEAN]
  /\ meetings \in Seq(Meeting)
  /\ recordings \in Seq(Recording)
  /\ requests \in Seq(Request)
  /\ decision \in [id : Nat, report : Nat, documents : BOOLEAN]
  /\ contract \in [meeting : Nat, report : Nat, deposit : Nat]
  /\ paid \in Nat
  /\ execution \in BOOLEAN
  /\ aftercare \in BOOLEAN
  /\ enabled \in BOOLEAN
  /\ source \in Sources \cup {None}
  /\ jobs \in Seq(Job)
  /\ claims \in Nat
  /\ runners \in [Runners -> Runner]
  /\ \A r \in Runners : runners[r].pc = "called" => runners[r].seen # None

Idle == [pc |-> "idle", job |-> 0, lease |-> 0, seen |-> None]

Init ==
  /\ reports = [st \in Stage |-> <<>>]
  /\ analysis = [report |-> 0, admin |-> FALSE, partner |-> FALSE]
  /\ meetings = <<>> /\ recordings = <<>> /\ requests = <<>>
  /\ decision = [id |-> 0, report |-> 0, documents |-> FALSE]
  /\ contract = [meeting |-> 0, report |-> 0, deposit |-> 0]
  /\ paid = 0 /\ execution = FALSE /\ aftercare = FALSE
  /\ enabled = FALSE /\ source = None /\ jobs = <<>>
  /\ claims = 0 /\ runners = [r \in Runners |-> Idle]

-----------------------------------------------------------------------------
(* What the case has reached *)

LatestReport(stage) == Len(reports[stage])
LatestRecording     == Len(recordings)
Contracted          == contract.meeting # 0

AnalysisDone ==
  /\ LatestReport(1) # 0
  /\ analysis.report = LatestReport(1)
  /\ analysis.admin /\ analysis.partner

\* firstMeeting: book_meeting keeps it unique.
FirstMeetings  == {m \in DOMAIN meetings : /\ meetings[m].kind = "first"
                                           /\ meetings[m].status # "cancelled"}
FirstCompleted == \E m \in DOMAIN meetings : /\ meetings[m].kind = "first"
                                             /\ meetings[m].status = "completed"

PreparationDone ==
  /\ LatestReport(1) # 0
  /\ \A stage \in {2, 3} : /\ LatestReport(stage) # 0
                           /\ reports[stage][LatestReport(stage)].src = LatestReport(1)

\* The fourth reports on the latest recording and the latest first report.
DeepReports ==
  {v \in DOMAIN reports[4] : /\ LatestRecording # 0
                             /\ reports[4][v].rec = LatestRecording
                             /\ reports[4][v].src = LatestReport(1)}
IsDeepReport(v) == v \in DeepReports /\ \A w \in DeepReports : w <= v

Required == {i \in DOMAIN requests : requests[i].required}
DocumentsKey == {<<i, requests[i].file, requests[i].verified>> : i \in Required}

DocumentsDone ==
  /\ decision.id # 0
  /\ IsDeepReport(decision.report)
  /\ decision.documents => Required # {}
  /\ \A i \in Required : requests[i].status = "verified"

SigningPreparationDone ==
  /\ DocumentsDone
  /\ \A stage \in {5, 6} :
       /\ LatestReport(stage) # 0
       /\ reports[stage][LatestReport(stage)].decision = decision.id
       /\ reports[stage][LatestReport(stage)].key = DocumentsKey

DepositComplete == Contracted /\ paid >= contract.deposit

Active(stage) == \E j \in DOMAIN jobs : /\ jobs[j].stage = stage
                                        /\ jobs[j].status \in {"queued", "processing"}

\* Variant: a contract does not void the jobs that are running.
CurrentAfterContract(j) ==
  /\ enabled
  /\ IF jobs[j].stage = 1
     THEN ~FirstCompleted
     ELSE jobs[j].rec = LatestRecording /\ jobs[j].src = LatestReport(1)

\* Whether the answer to a job would still be about the current evidence.
JobIsCurrent(j) ==
  /\ enabled /\ ~Contracted
  /\ IF jobs[j].stage = 1
     THEN ~FirstCompleted
     ELSE jobs[j].rec = LatestRecording /\ jobs[j].src = LatestReport(1)

ReportCount == Len(reports[1]) + Len(reports[2]) + Len(reports[3])
             + Len(reports[4]) + Len(reports[5]) + Len(reports[6])

CanAttend(actor, m) == actor = "admin" \/ meetings[m].attendance \in {"both", actor}

-----------------------------------------------------------------------------
(* Evidence for the first report, and the approval of the external AI *)

ImportIntakeSource(new) ==
  /\ ~Contracted /\ ~FirstCompleted /\ ~Active(1)
  /\ source' = new
  /\ UNCHANGED <<evidence, signed, enabled, jobs, runs>>

SaveSource(new) ==
  /\ ~Contracted /\ ~Active(1)
  /\ source' = new
  /\ UNCHANGED <<evidence, signed, enabled, jobs, runs>>

\* Variant: evidence may be excluded while the first report is generated.
ExcludesWhileGenerating(new) ==
  /\ source # None
  /\ source' = new
  /\ UNCHANGED <<evidence, signed, enabled, jobs, runs>>

ExcludeSource(new) ==
  /\ source # None /\ ~Active(1)
  /\ source' = new
  /\ UNCHANGED <<evidence, signed, enabled, jobs, runs>>

SetAiPolicy(on) ==
  /\ enabled' = on
  /\ jobs' = [j \in DOMAIN jobs |->
                IF ~on /\ jobs[j].status = "queued"
                THEN [jobs[j] EXCEPT !.status = "blocked"] ELSE jobs[j]]
  /\ UNCHANGED <<evidence, signed, source, runs>>

-----------------------------------------------------------------------------
(* Reports and the joint analysis *)

CreateJob(stage, rec, src, ready) ==
  jobs' = Append(jobs, [stage |-> stage, rec |-> rec, src |-> src, lease |-> 0,
                        status |-> IF enabled /\ ready THEN "queued" ELSE "blocked"])

QueueReport1 ==
  /\ ~FirstCompleted /\ ~Contracted /\ source # None /\ ~Active(1)
  /\ Len(jobs) < MaxJobs
  /\ CreateJob(1, 0, 0, TRUE)
  /\ UNCHANGED <<evidence, signed, enabled, source, runs>>

\* Adding a report; a first report starts a new joint analysis.
AddReport(stage, report) ==
  /\ reports' = [reports EXCEPT ![stage] = Append(@, report)]
  /\ analysis' = IF stage = 1
                 THEN [report |-> Len(reports[1]) + 1, admin |-> FALSE, partner |-> FALSE]
                 ELSE analysis

\* Variant: the first report may be replaced after the first meeting.
ReplacesFirstReport(stage) ==
  CASE stage = 1 -> TRUE
    [] stage \in {2, 3} -> AnalysisDone /\ FirstMeetings # {}
    [] stage = 4 -> LatestRecording # 0
    [] OTHER -> DocumentsDone

\* A second and a third report prepare a booked first meeting, a fourth is on a
\* recording, a quote (5) and a contract document (6) on the verified documents.
StageReady(stage) ==
  CASE stage = 1 -> ~FirstCompleted
    [] stage \in {2, 3} -> AnalysisDone /\ FirstMeetings # {}
    [] stage = 4 -> LatestRecording # 0
    [] OTHER -> DocumentsDone

SaveReport(stage) ==
  /\ ~Contracted /\ ~Active(stage) /\ StageReady(stage)
  /\ ReportCount < MaxReports
  /\ AddReport(stage,
       [src |-> IF stage = 1 THEN 0 ELSE LatestReport(1),
        rec |-> IF stage = 4 THEN LatestRecording ELSE 0,
        decision |-> IF stage >= 5 THEN decision.id ELSE 0,
        key |-> IF stage >= 5 THEN DocumentsKey ELSE {},
        job |-> 0, body |-> "manual"])
  /\ UNCHANGED <<meetings, recordings, requests, decision, signed, ai, runs>>

ConfirmAnalysis(actor) ==
  /\ LatestReport(1) # 0
  /\ analysis' =
       LET a == IF analysis.report = LatestReport(1) THEN analysis
                ELSE [report |-> LatestReport(1), admin |-> FALSE, partner |-> FALSE]
       IN  IF actor = "admin" THEN [a EXCEPT !.admin = TRUE]
                              ELSE [a EXCEPT !.partner = TRUE]
  /\ UNCHANGED <<reports, meetings, recordings, requests, decision, signed, ai, runs>>

-----------------------------------------------------------------------------
(* Meetings *)

Bookable(kind, attendance) ==
  CASE kind = "first" -> AnalysisDone /\ FirstMeetings = {} /\ attendance = "both"
    [] kind = "followup" -> FirstCompleted
    [] OTHER -> SigningPreparationDone /\ ~Contracted

BookMeeting(kind, attendance) ==
  /\ Len(meetings) < MaxMeetings
  /\ Bookable(kind, attendance)
  /\ meetings' = Append(meetings, [kind |-> kind, attendance |-> attendance,
                                   status |-> "scheduled"])
  /\ UNCHANGED <<reports, analysis, recordings, requests, decision, signed, ai, runs>>

CompleteMeeting(actor, m) ==
  /\ meetings[m].status = "scheduled" /\ CanAttend(actor, m)
  /\ meetings[m].kind = "first" => AnalysisDone /\ PreparationDone /\ ~Active(1)
  /\ meetings' = [meetings EXCEPT ![m].status = "completed"]
  /\ UNCHANGED <<reports, analysis, recordings, requests, decision, signed, ai, runs>>

CancelMeeting(actor, m) ==
  /\ meetings[m].status = "scheduled" /\ CanAttend(actor, m)
  /\ meetings' = [meetings EXCEPT ![m].status = "cancelled"]
  /\ UNCHANGED <<reports, analysis, recordings, requests, decision, signed, ai, runs>>

-----------------------------------------------------------------------------
(* Recordings and their transcripts *)

SaveRecording(m, transcript) ==
  /\ meetings[m].status = "completed" /\ ~Contracted
  /\ transcript # None =>
       ~\E r \in DOMAIN recordings : /\ recordings[r].meeting = m
                                     /\ recordings[r].transcript = transcript
  /\ Len(recordings) < MaxRecordings /\ Len(jobs) < MaxJobs
  /\ recordings' = Append(recordings, [meeting |-> m, transcript |-> transcript])
  /\ CreateJob(4, Len(recordings) + 1, LatestReport(1), transcript # None)
  /\ UNCHANGED <<reports, analysis, meetings, requests, decision, signed, enabled,
                 source, runs>>

\* Variant: only a running generation protects a transcript, not a finished one.
RewritesReported(transcript) ==
  /\ ~Contracted /\ LatestRecording # 0
  /\ \A j \in DOMAIN jobs : jobs[j].rec = LatestRecording => jobs[j].status # "processing"
  /\ recordings[LatestRecording].transcript # transcript
  /\ recordings' = [recordings EXCEPT ![LatestRecording].transcript = transcript]
  /\ UNCHANGED <<reports, analysis, meetings, requests, decision, signed, ai, runs>>

\* The job of the recording runs again, unless it failed and the AI is disabled.
SaveTranscript(transcript) ==
  /\ ~Contracted /\ LatestRecording # 0
  /\ \A j \in DOMAIN jobs :
       jobs[j].rec = LatestRecording => jobs[j].status \notin {"processing", "complete"}
  /\ recordings[LatestRecording].transcript # transcript
  /\ recordings' = [recordings EXCEPT ![LatestRecording].transcript = transcript]
  /\ jobs' = [j \in DOMAIN jobs |->
                IF jobs[j].rec = LatestRecording /\ (jobs[j].status = "failed" => enabled)
                THEN [jobs[j] EXCEPT !.status = IF enabled THEN "queued" ELSE "blocked",
                                     !.lease = 0]
                ELSE jobs[j]]
  /\ UNCHANGED <<reports, analysis, meetings, requests, decision, signed, enabled,
                 source, runs>>

\* Variant: a complete job may be retried as well.
RetriesComplete(j) ==
  /\ jobs[j].status \in {"blocked", "failed", "processing", "complete"}
  /\ enabled /\ ~Contracted
  /\ jobs[j].stage = 1 => ~FirstCompleted
  /\ jobs[j].stage = 4 => /\ jobs[j].rec = LatestRecording
                          /\ jobs[j].src = LatestReport(1)
                          /\ recordings[jobs[j].rec].transcript # None
  /\ jobs' = [jobs EXCEPT ![j].status = "queued", ![j].lease = 0]
  /\ UNCHANGED <<evidence, signed, enabled, source, runs>>

\* Variant: the lease is set to null instead of being removed.
RetriesWithNull(j) ==
  /\ jobs[j].status \in {"blocked", "failed", "processing"}
  /\ enabled /\ ~Contracted
  /\ jobs' = [jobs EXCEPT ![j].status = "queued", ![j].lease = None]
  /\ UNCHANGED <<evidence, signed, enabled, source, runs>>

\* retry_job; a job in processing whose runner is lost is retried after its lease.
RetryJob(j) ==
  /\ jobs[j].status \in {"blocked", "failed", "processing"}
  /\ enabled /\ ~Contracted
  /\ jobs[j].stage = 1 => ~FirstCompleted
  /\ jobs[j].stage = 4 => /\ jobs[j].rec = LatestRecording
                          /\ jobs[j].src = LatestReport(1)
                          /\ recordings[jobs[j].rec].transcript # None
  /\ jobs' = [jobs EXCEPT ![j].status = "queued", ![j].lease = 0]
  /\ UNCHANGED <<evidence, signed, enabled, source, runs>>

-----------------------------------------------------------------------------
(* Decision and documents *)

\* Every report that names a decision names the one the case has: the commit refuses
\* another (hasReferenceIntegrity).
DecisionAgrees ==
  \A stage \in Stage : \A v \in DOMAIN reports[stage] :
    reports[stage][v].decision \in {0, decision.id}

\* Variant: the commit lets a new decision past the documents made for the old one.
ConfirmsBeside(documents) ==
  /\ ~Contracted /\ DeepReports # {}
  /\ decision.id < MaxDecisions
  /\ \E v \in DeepReports :
       /\ IsDeepReport(v)
       /\ decision' = [id |-> decision.id + 1, report |-> v, documents |-> documents]
  /\ UNCHANGED <<reports, analysis, meetings, recordings, requests, signed, ai, runs>>

\* A new decision; the quote and the contract document keep the one they were made
\* for, so with such a document the commit fails.
ConfirmSolutions(documents) ==
  /\ ~Contracted /\ DeepReports # {}
  /\ decision.id < MaxDecisions
  /\ \E v \in DeepReports :
       /\ IsDeepReport(v)
       /\ decision' = [id |-> decision.id + 1, report |-> v, documents |-> documents]
  /\ UNCHANGED <<reports, analysis, meetings, recordings, requests, signed, ai, runs>>
  /\ DecisionAgrees'

RequestDocument(required) ==
  /\ ~Contracted /\ Len(requests) < MaxRequests
  /\ requests' = Append(requests,
       [required |-> required, file |-> None, sent |-> FALSE, status |-> "requested",
        reviews |-> 0, verified |-> 0])
  /\ UNCHANGED <<reports, analysis, meetings, recordings, decision, signed, ai, runs>>

\* The command asks for nothing; the commit fails when the request would be sent
\* after its document was received (validRequest).
MarkRequestSent(i) ==
  /\ requests[i].status = "requested"
  /\ requests' = [requests EXCEPT ![i].sent = TRUE]
  /\ UNCHANGED <<reports, analysis, meetings, recordings, decision, signed, ai, runs>>

\* Variant: documents are still received after the contract.
ReceivesAfterContract(i, file) ==
  /\ requests' =
       [requests EXCEPT ![i].file = file, ![i].status = "received", ![i].verified = 0]
  /\ UNCHANGED <<reports, analysis, meetings, recordings, decision, signed, ai, runs>>

\* Another file, or the file of a reviewed request again, starts a new review.
ReceiveDocument(i, file) ==
  /\ ~Contracted
  /\ requests' =
       [requests EXCEPT ![i].file = file, ![i].status = "received",
          ![i].verified = IF requests[i].file # file \/ requests[i].status # "received"
                          THEN 0 ELSE requests[i].verified]
  /\ UNCHANGED <<reports, analysis, meetings, recordings, decision, signed, ai, runs>>

ReviewDocument(i, approved) ==
  /\ ~Contracted /\ requests[i].status # "requested" /\ requests[i].file # None
  /\ requests[i].reviews < MaxReviews
  /\ requests' =
       [requests EXCEPT ![i].status = IF approved THEN "verified" ELSE "needs_fix",
          ![i].reviews = requests[i].reviews + 1,
          ![i].verified = IF approved THEN requests[i].reviews + 1 ELSE 0]
  /\ UNCHANGED <<reports, analysis, meetings, recordings, decision, signed, ai, runs>>

-----------------------------------------------------------------------------
(* Contract, deposit, aftercare *)

RecordContract(actor, m, deposit) ==
  /\ ~Contracted /\ SigningPreparationDone
  /\ meetings[m].kind = "contract" /\ meetings[m].status # "cancelled"
  /\ CanAttend(actor, m)
  /\ contract' = [meeting |-> m, report |-> LatestReport(6), deposit |-> deposit]
  /\ meetings' = [meetings EXCEPT ![m].status = "completed"]
  /\ UNCHANGED <<reports, analysis, recordings, requests, decision, paid, execution,
                 aftercare, ai, runs>>

\* Variant: any payment starts the execution.
StartsOnAnyPayment(amount) ==
  /\ Contracted
  /\ paid < MaxDeposit
  /\ paid' = paid + amount
  /\ execution' = TRUE
  /\ UNCHANGED <<evidence, contract, aftercare, ai, runs>>

ConfirmPayment(amount) ==
  /\ Contracted
  /\ paid < MaxDeposit
  /\ paid' = paid + amount
  /\ execution' = (execution \/ paid + amount >= contract.deposit)
  /\ UNCHANGED <<evidence, contract, aftercare, ai, runs>>

StartAftercare ==
  /\ DepositComplete
  /\ aftercare' = TRUE
  /\ UNCHANGED <<evidence, contract, paid, execution, ai, runs>>

-----------------------------------------------------------------------------
(* The AI run: claim, check again before the call, store the answer *)

\* Variant: the job, not the lease, tells whether the run still owns it.
AnyLease(r) == /\ runners[r].job \in DOMAIN jobs
               /\ jobs[runners[r].job].status = "processing"

\* The run still owns its job.
Keep(r) == /\ runners[r].job \in DOMAIN jobs
           /\ jobs[runners[r].job].status = "processing"
           /\ jobs[runners[r].job].lease = runners[r].lease

\* What the provider is given.
Evidence(j) == IF jobs[j].stage = 1 THEN source
               ELSE IF jobs[j].rec \in DOMAIN recordings
                    THEN recordings[jobs[j].rec].transcript ELSE None

FirstQueued(j) == /\ j \in DOMAIN jobs /\ jobs[j].status = "queued"
                  /\ \A i \in DOMAIN jobs : jobs[i].status = "queued" => j <= i

\* A queued job that is not current any more is blocked by the run that finds it.
Claim(r, j) ==
  /\ runners[r].pc = "idle" /\ FirstQueued(j)
  /\ IF JobIsCurrent(j)
     THEN /\ ReportCount < MaxReports /\ claims < MaxClaims
          /\ claims' = claims + 1
          /\ jobs' = [jobs EXCEPT ![j].status = "processing", ![j].lease = claims + 1]
          /\ runners' = [runners EXCEPT ![r] = [pc |-> "claimed", job |-> j,
                                                lease |-> claims + 1,
                                                seen |-> Evidence(j)]]
     ELSE /\ jobs' = [jobs EXCEPT ![j].status = "blocked"]
          /\ UNCHANGED runs
  /\ UNCHANGED <<evidence, signed, enabled, source>>

\* generate: the source blocks, then beforeRequest, which authorises the user and
\* reads the case again.  Every failure is an error that the run tries to store.
BeforeRequest(r) ==
  /\ runners[r].pc = "claimed"
  /\ \/ /\ runners[r].seen # None /\ Keep(r) /\ JobIsCurrent(runners[r].job)
        /\ runners' = [runners EXCEPT ![r].pc = "called"]
     \/ runners' = [runners EXCEPT ![r].pc = "refused"]
  /\ UNCHANGED <<evidence, signed, ai, claims>>

\* finishFlowJob on the case as it is now; a lost lease stores nothing.
StoreAnswer(r) ==
  LET j == runners[r].job IN
  /\ runners[r].pc = "called" /\ Keep(r)
  /\ JobIsCurrent(j) /\ ReportCount < MaxReports
  /\ AddReport(jobs[j].stage,
       [src |-> jobs[j].src, rec |-> jobs[j].rec, decision |-> 0, key |-> {},
        job |-> j, body |-> runners[r].seen])
  /\ jobs' = [jobs EXCEPT ![j].status = "complete"]
  /\ runners' = [runners EXCEPT ![r] = Idle]
  /\ UNCHANGED <<meetings, recordings, requests, decision, signed, enabled, source, claims>>

StoreFailure(r) ==
  LET j == runners[r].job IN
  /\ runners[r].pc \in {"called", "refused"} /\ Keep(r)
  /\ IF JobIsCurrent(j)
     THEN jobs' = [jobs EXCEPT ![j].status = "failed"]
     ELSE jobs' = [jobs EXCEPT ![j].status = "blocked"]
  /\ runners' = [runners EXCEPT ![r] = Idle]
  /\ UNCHANGED <<evidence, signed, enabled, source, claims>>

\* The lease is lost, five commits in a row met another revision, the result does
\* not fit, or the deployment cut the request off: the job stays as it is.
RunLost(r) ==
  /\ runners[r].pc # "idle"
  /\ runners' = [runners EXCEPT ![r] = Idle]
  /\ UNCHANGED <<evidence, signed, ai, claims>>

-----------------------------------------------------------------------------
Command ==
  \/ \E new \in Sources : ImportIntakeSource(new) \/ SaveSource(new)
  \/ \E new \in Sources \cup {None} : ExcludeSource(new)
  \/ \E on \in BOOLEAN : SetAiPolicy(on)
  \/ QueueReport1
  \/ \E stage \in Stage : SaveReport(stage)
  \/ \E actor \in Role : ConfirmAnalysis(actor)
  \/ \E kind \in {"first", "followup", "contract"}, attendance \in Role \cup {"both"} :
       BookMeeting(kind, attendance)
  \/ \E actor \in Role, m \in DOMAIN meetings :
       CompleteMeeting(actor, m) \/ CancelMeeting(actor, m)
  \/ \E m \in DOMAIN meetings, t \in Transcripts \cup {None} : SaveRecording(m, t)
  \/ \E t \in Transcripts : SaveTranscript(t)
  \/ \E j \in DOMAIN jobs : RetryJob(j)
  \/ \E documents \in BOOLEAN : ConfirmSolutions(documents)
  \/ \E required \in BOOLEAN : RequestDocument(required)
  \/ \E i \in DOMAIN requests : MarkRequestSent(i)
  \/ \E i \in DOMAIN requests, file \in Documents : ReceiveDocument(i, file)
  \/ \E i \in DOMAIN requests, approved \in BOOLEAN : ReviewDocument(i, approved)
  \/ \E actor \in Role, m \in DOMAIN meetings, deposit \in 1 .. MaxDeposit :
       RecordContract(actor, m, deposit)
  \/ \E amount \in 1 .. MaxDeposit : ConfirmPayment(amount)
  \/ StartAftercare

Run == \E r \in Runners :
  \/ \E j \in DOMAIN jobs : Claim(r, j)
  \/ BeforeRequest(r) \/ StoreAnswer(r) \/ StoreFailure(r) \/ RunLost(r)

Next == Command \/ Run
Spec == Init /\ [][Next]_vars

-----------------------------------------------------------------------------
(* Properties *)

\* A recorded contract rests on every stage before it, for as long as the case
\* lives: the joint analysis of the first report, a completed first meeting
\* prepared from that report, the decision on the current fourth report, every
\* required document verified, and a quote and contract document made from
\* exactly those documents.
ContractRestsOnEvidence ==
  Contracted =>
    /\ AnalysisDone /\ PreparationDone /\ FirstCompleted /\ SigningPreparationDone
    /\ contract.report = LatestReport(6)
    /\ meetings[contract.meeting].kind = "contract"
    /\ meetings[contract.meeting].status = "completed"

\* Once the first meeting is completed its preparation stays what it was: the
\* first report is not replaced (by hand or by a late AI answer), the joint
\* analysis stays confirmed and the second and third report stay on it.
FirstMeetingWasPrepared == FirstCompleted => AnalysisDone /\ PreparationDone

\* After the contract no command and no AI answer changes a report, a recording,
\* the decision or a reviewed document; only the sent mark may still be set.
EvidenceIsFrozen ==
  [][Contracted =>
       /\ UNCHANGED <<reports, recordings, decision, contract>>
       /\ DOMAIN requests' = DOMAIN requests
       /\ \A i \in DOMAIN requests :
            requests'[i] = [requests[i] EXCEPT !.sent = requests'[i].sent]]_vars

\* An AI report is stored only if it was generated from the evidence the case has
\* at that moment: a transcript, a first report or a source changed during the
\* provider's call makes the answer void.
AnswersAreFresh ==
  [][\A stage \in {1, 4} :
       Len(reports'[stage]) > Len(reports[stage]) =>
         LET new == reports'[stage][Len(reports'[stage])] IN
         new.job # 0 =>
           IF stage = 1 THEN new.body = source
           ELSE /\ new.rec = LatestRecording /\ new.src = LatestReport(1)
                /\ new.body = recordings[new.rec].transcript]_vars

\* The transcript of a recording never differs from the one its AI report was
\* generated from.
AiReportsMatchTheirTranscript ==
  \A v \in DOMAIN reports[4] :
    reports[4][v].job # 0 => reports[4][v].body = recordings[reports[4][v].rec].transcript

\* A job yields one report, however often it is claimed, lost and retried, and
\* exactly when it is complete.
OneResultPerJob ==
  \A j \in DOMAIN jobs :
    LET Results(stage) == {v \in DOMAIN reports[stage] : reports[stage][v].job = j}
    IN  /\ Cardinality(Results(1)) + Cardinality(Results(4)) <= 1
        /\ Results(1) \cup Results(4) # {} <=> jobs[j].status = "complete"

\* Execution has started exactly when the confirmed payments reach the deposit
\* that the recorded contract agreed on, and aftercare follows it.
ExecutionIsPaid == /\ execution <=> DepositComplete
                   /\ aftercare => execution

-----------------------------------------------------------------------------
(* The inductive invariant of the proofs *)

\* A recording, a follow-up and a contract meeting come after the first meeting,
\* a payment after the contract.
StagesInOrder ==
  /\ recordings # <<>> => FirstCompleted
  /\ \A m \in DOMAIN meetings : meetings[m].kind # "first" => FirstCompleted
  /\ Contracted => contract.meeting \in DOMAIN meetings
  /\ ~Contracted => paid = 0

\* A job is about an existing recording, and about none in the first stage; its
\* lease is one that was given.
JobsRefer ==
  \A j \in DOMAIN jobs :
    /\ jobs[j].lease <= claims
    /\ jobs[j].stage = 1 => jobs[j].rec = 0
    /\ jobs[j].stage = 4 => jobs[j].rec \in DOMAIN recordings

\* While a run owns its job, the evidence it was given does not change.
RunsOwnEvidence ==
  \A r \in Runners :
    runners[r].pc # "idle" =>
      /\ runners[r].job \in DOMAIN jobs
      /\ runners[r].lease <= claims
      /\ Keep(r) => runners[r].seen = Evidence(runners[r].job)

\* An AI report of the fourth stage belongs to a complete job on its recording.
ReportsHaveJobs ==
  \A v \in DOMAIN reports[4] :
    LET j == reports[4][v].job IN
    j # 0 => /\ j \in DOMAIN jobs /\ jobs[j].status = "complete"
             /\ jobs[j].stage = 4 /\ jobs[j].rec = reports[4][v].rec
             /\ reports[4][v].rec \in DOMAIN recordings
             /\ reports[4][v].body = recordings[reports[4][v].rec].transcript

FlowInv == /\ TypeOK
           /\ StagesInOrder
           /\ FirstMeetingWasPrepared
           /\ ContractRestsOnEvidence
           /\ ExecutionIsPaid
           /\ JobsRefer
           /\ RunsOwnEvidence
           /\ ReportsHaveJobs
=============================================================================
