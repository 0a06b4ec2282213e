----------------------------- MODULE FlowShape -----------------------------
(***************************************************************************)
(* hasStoredConsultingFlowStructure of lib/consulting-flow-shape.ts: what  *)
(* a stored case must satisfy to be read.  Every request reads the case    *)
(* through it (storedFlowFromRow) and every commit asks it of the case it  *)
(* is about to write (assertFlowCommitTransition), so a command that leads *)
(* out of it is refused, and a case outside it is lost to every command.   *)
(*                                                                         *)
(* The commands of lib/consulting-flow.ts do not consult it.  Two of them  *)
(* may lead out of it and carry the refusal as a guard in ConsultingFlow   *)
(* (ConfirmSolutions, MarkRequestSent); FlowsReadBack says that no other   *)
(* step does.                                                              *)
(*                                                                         *)
(* Identifiers are positions, so they are distinct; names, texts, sizes    *)
(* and calendar dates are well-formed by the checks on the command.        *)
(***************************************************************************)
EXTENDS ConsultingFlow

\* The fields of each object have their types; the stored case has none of the runs.
ReportsWellFormed    == reports \in [Stage -> Seq(Report)]
MeetingsWellFormed   == meetings \in Seq(Meeting)
RecordingsWellFormed == recordings \in Seq(Recording)
AgreementsWellFormed ==
  /\ decision \in [id : Nat, report : Nat, documents : BOOLEAN]
  /\ contract \in [meeting : Nat, report : Nat, deposit : Nat]
  /\ Contracted => contract.report # 0 /\ contract.deposit # 0

WellFormed == /\ ReportsWellFormed /\ MeetingsWellFormed
              /\ RecordingsWellFormed /\ AgreementsWellFormed

\* The stages with a report that names the job (its reportId).
Reported(j) == {stage \in Stage : \E v \in DOMAIN reports[stage] :
                                     reports[stage][v].job = j}

LimitsHold ==
  /\ ReportCount <= MaxReports
  /\ Len(meetings) <= MaxMeetings
  /\ Len(recordings) <= MaxRecordings
  /\ Len(requests) <= MaxRequests
  /\ Len(jobs) <= MaxJobs

\* The file and the times of a request say the same as its status.
RequestHolds(request) ==
  CASE request.status = "requested" -> request.file = None /\ request.verified = 0
    [] request.status = "verified"  -> request.file # None /\ request.verified # 0
    [] OTHER                        -> request.file # None /\ request.verified = 0

\* Likewise the start and the report of a job; the report is of the job's stage.
JobHolds(j) ==
  CASE jobs[j].status = "queued"   -> jobs[j].lease = 0 /\ Reported(j) = {}
    [] jobs[j].status = "complete" -> jobs[j].lease # 0 /\ Reported(j) = {jobs[j].stage}
    [] jobs[j].status = "blocked"  -> Reported(j) = {}
    [] OTHER                       -> jobs[j].lease # 0 /\ Reported(j) = {}

\* hasReferenceIntegrity; the decision of a report is DecisionAgrees.
ReportHolds(report) ==
  /\ report.src \in {0} \cup DOMAIN reports[1]
  /\ report.rec \in {0} \cup DOMAIN recordings

ReferencesHold ==
  /\ analysis.report \in {0} \cup DOMAIN reports[1]
  /\ \A stage \in Stage : \A v \in DOMAIN reports[stage] : ReportHolds(reports[stage][v])
  /\ DecisionAgrees
  /\ decision.id # 0 => decision.report \in DOMAIN reports[4]
  /\ Contracted => /\ contract.meeting \in DOMAIN meetings
                   /\ meetings[contract.meeting].kind = "contract"
                   /\ contract.report \in DOMAIN reports[6]
  /\ \A r \in DOMAIN recordings : recordings[r].meeting \in DOMAIN meetings

JobsReferenceHold ==
  \A j \in DOMAIN jobs : /\ jobs[j].rec \in {0} \cup DOMAIN recordings
                         /\ jobs[j].src \in {0} \cup DOMAIN reports[1]

\* hasStateIntegrity
StatesHold ==
  /\ Contracted => meetings[contract.meeting].status = "completed"
  /\ paid # 0 => Contracted
  /\ execution <=> DepositComplete
  /\ aftercare => execution

\* Every case that the commands and the runs of the AI leave is one that the next
\* request can read: no step leaves a report without its sources, a job that says
\* it is complete without a report, a reviewed request without its file, a payment
\* without a contract, or more objects than the case may have.
FlowsReadBack ==
  /\ WellFormed /\ LimitsHold
  /\ ReferencesHold /\ JobsReferenceHold
  /\ \A i \in DOMAIN requests : RequestHolds(requests[i])
  /\ \A j \in DOMAIN jobs : JobHolds(j)
  /\ StatesHold

\* The page offers the confirmation of solutions until the contract, whatever was
\* prepared from an earlier one: "on a new confirmation the fifth and sixth document
\* are prepared again to suit the new decision".
DecisionsMayBeReplaced ==
  ~Contracted /\ DeepReports # {} /\ decision.id < MaxDecisions =>
    ENABLED \E documents \in BOOLEAN : ConfirmSolutions(documents)

-----------------------------------------------------------------------------
(* Strengthening for the proofs *)

\* A report of the AI names an existing job, and no other report names it.
ReportsNameJobs ==
  \A stage \in Stage : \A v \in DOMAIN reports[stage] :
    LET j == reports[stage][v].job IN
    j # 0 => /\ j \in DOMAIN jobs
             /\ \A other \in Stage : \A w \in DOMAIN reports[other] :
                  reports[other][w].job = j => other = stage /\ w = v
=============================================================================
