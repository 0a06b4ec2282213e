# Partner Hub: specifications and proofs

Partner Hub is a portal for consulting partners: a Next.js application (`app/api`,
`components`) over a library (`lib`), with D1 or Postgres for the ledgers, R2, Supabase
Storage or Vercel Blob for the originals, and one JSON document, the *portal payload*,
for everything the portal screens edit. This directory holds TLA+ specifications of the
parts of it whose correctness depends on the order in which requests, retries, crashes
and revocations interleave, the TLC models that check them, and TLAPS proofs of the
properties that matter most.

## 1. The system

| Component | State it keeps | Operations | Talks to |
|---|---|---|---|
| Company originals (`lib/company-file-post.ts`, `company-upload-store.ts`, `app/api/files/[id]`) | upload-request, file-row, integrity, checksum, metadata and key ledgers; bucket objects | upload with retries, legacy-key migration, download, delete | portal payload (authorisation, links), bucket |
| Portal payload (`lib/portal-state.ts`, `app/api/state`) | one JSON payload, compare-and-swap on its text | read, merge and save, login statistics | everything: members, cards, pipelines are in it |
| Save queue of the browser (`lib/portal-save-queue.ts`) | draft, save in flight, acknowledged base, stored draft | edit, flush, response, failure, reload | `PUT /api/state` |
| Password access (`lib/password-store.ts`, `password-handlers.ts`) | credential, credential version, setup tokens, sessions, attempt windows | issue/redeem a setup link, log in, change, suspend | portal payload (member status) |
| Consulting flow (`lib/consulting-flow.ts`, `consulting-flow-store.ts`, `consulting-flow-handlers.ts`, `consulting-flow-jobs.ts`) | one flow document per case with a revision, receipts, upload reservations, AI jobs | 21 commands, commit by revision, AI runner claim/finish | bucket, AI provider, portal payload |
| Storage adaptors (`lib/supabase-storage-bucket.ts` with its manifest and HTTP client; `vercel-blob-bucket.ts`, `r2-http.ts`) | heads and versions of objects; nothing for the others | put/get/head/delete with conditions | the providers |
| File inventory and recovery (`lib/file-inventory-store.ts`, `file-recovery-store.ts`) | nothing of their own | list, reassign an orphan | ledgers, bucket, flows |
| File transfer (`lib/file-transfer-*.ts`, `supabase-file-transfer.ts`, `vercel-blob-transfer.ts`) | signed tickets, staged objects | direct upload/download | bucket |
| Step 0 of the AI diagnosis (`lib/ai-diagnosis.ts`, `app/api/ai-diagnosis/step-zero`, its form in `app/page.tsx`) | diagnosis runs; consent and request id of a window | claim, complete, fail, expire | AI provider |
| Application drafts (`lib/application-draft-store.ts`, `app/api/application-draft`) | one draft for each author, with a revision | save, read, discard, and the check when it is submitted | portal payload |
| Partner registration, portal authentication (`lib/partner-registration*.ts`, `portal-auth.ts`) | registration requests, sessions | apply, approve, sign in | portal payload, password access |
| User interface (`components/`) | view state | forms, boards | the routes above |
| Schema and migrations (`db/schema.ts`, `drizzle/`, `supabase/`) | tables, triggers | immutability and lifecycle triggers | — |
| Operations scripts (`scripts/`) | snapshots | backup, verify, import | database, bucket |

What is hard about it: every route is a sequence of `await`ed statements against two or
three stores without a common transaction; authorisation comes from a document that
other users save at any moment; clients retry whatever was not answered; deployments cut
requests off between two statements; and each ledger is written at most once, so a wrong
order cannot be repaired later. The properties per component follow from that:

* originals: a linked original is stored; stored bytes are what the ledgers say; a
  deletion is final and finished; a retry is answered with the first send's file;
* portal payload and save queue: no acknowledged edit is lost, no revoked account saves;
* password access: a link is redeemed once and only for the account it was issued for;
  a reset or suspension wins against an overlapping login;
* consulting flow: stages are never skipped, evidence belongs to the current generation,
  a stale AI answer is not taken, a command is applied once per request id;
* storage adaptors: operations on a key act one after another, and a reader gets one version
  of an object, whole;
* store and database: what the commands allow, the commit and the triggers admit, and what they
  write can be read again;
* Step 0: a consent is paid for once, and a result is stored in its time and under its consent;
* drafts: an application enters only as its draft was submitted.

## 2. The plan

| | Module | Models | Abstract specification | State |
|---|---|---|---|---|
| 1 | `CompanyUpload` | originals: upload, migration, download, delete | `FileLifecycle` | checked, proved |
| 2 | `ConsultingFlow` | the flow of one case, its commands and AI runs | — | checked, proved |
| 3 | `FlowCommit` | how one command is received, uploaded and committed | `CommandLog` | checked, proved |
| 4 | `PasswordAccess` | roster, credentials, links, sessions | `AccountAccess` | checked, proved |
| 5 | `PortalSaves` | save queues, merge, If-Match, refresh | — | checked, proved |
| 6 | `SupabaseBucket` | the Supabase adaptor, request by request (`supabase-storage-bucket.ts`, `supabase-storage-manifest.ts`, `supabase-storage-http.ts`) | `ObjectStore`, which 1 and 3 assume | checked, proved |
| 7 | `FlowCommit`, extended | intake imports: the original that is copied into a case while it is deleted or changed (`consulting-flow-handlers.ts:281`) | `CommandLog` | checked, proved |
| 8 | `PortalSaves`, extended | the submission of a draft that another window changes, with the guard in the compare-and-swap (`portal-state.ts:202`) | — | checked, proved |
| 9 | `StepZeroRuns` | consent, claim, time limit and completion of a Step 0 run (`ai-diagnosis.ts`) | — | checked, proved |
| 10 | `FlowRules`, `FlowStorage` | the rules of a case as the triggers and as `assertFlowCommitTransition` state them | every update of 2 is admitted by both | checked, proved |
| 11 | `FlowShape` | what a stored case must satisfy to be read | every case that 2 leaves can be read | checked, proved |
| 12 | `PasswordAccess`, extended | ChatGPT identity bindings and replays of a registration | `AccountAccess` | planned |
| 13 | `CompanyUpload`, extended | recovery of an original without a card (`file-recovery-store.ts`) | `FileLifecycle` | planned |
| 14 | `StagedUploads` | direct uploads of the Supabase deployment: reservations with expiry and a limit, and the cleaning of what was staged (`supabase-file-transfer.ts`, `scripts/supabase-staging-cleanup.mjs`) | a staged object is kept while its ticket may still be used | planned |

The order is by what a mistake costs: a lost or exposed original cannot be repaired, a wrong
stage or contract binds the parties, a session that outlives its credential is not seen by
anybody. Modules 1, 3, 4 and 6 share the pattern of statements interleaved over stores; each has
an abstract specification in which an operation is one step, and a refinement. 2, 5 and 9 are
sequential data with few hard interleavings, so they are stated by invariants and action
properties. 10 and 11 are about 2: the same rules written a second and a third time.

How the modules compose. `CompanyUpload` and `FlowCommit` take a bucket whose operations are
atomic; that the Supabase adaptor is one is `ImplementsObjectStore`. `FlowCommit` takes the case
as a list of commands; what a command does to it is `ConsultingFlow`, whose steps `FlowStorage`
(EXTENDS `FlowShape`, which EXTENDS `ConsultingFlow`; INSTANCE `FlowRules`) holds against the
commit and the triggers. What a flow decides of the portal document is a step of `PortalSaves`;
who may save at all is `PasswordAccess`.

Runs and bounds of what is planned: 12 widens `access_all` by one binding for one address; 13
adds to `company_retry` a save that links an original nobody's card names; 14 needs one
ticket, its retry, one upload, one cleaning and a clock of three ticks. Theorems planned: that
12 and 13 keep the refinements there are, with `Reads` and `LinksInv` extended; that what 14
cleans is never completed later. Of what is modelled, every safety property that a run checks is
proved.

## 3. Company originals

`CompanyUpload.tla` models four kinds of request and one kind of edit, all interleaved at
every statement: `storeCompanyUpload` with the reservation, migration and commit
statements (`BeginUpload` … `Reply`), `DELETE /api/files/[id]` (`BeginDelete` …
`PurgeRow`), `GET` (`BeginRead` … `EndServed`), a portal save that adds a document card
for an original (`BeginSave` … `CommitSave`), and a save of the member list
(`SaveMembers`). One action is one statement of one store (one D1 statement or batch, one
bucket call), with the early returns that follow it. A bucket call is atomic, as section 9 shows of
the Supabase adaptor.

| State | Code |
|---|---|
| `status`, `reqKey`, `print` | `company_file_upload_requests`: status, `request_key`, fingerprint |
| `row`, `ledger` | `company_file_objects`; what its integrity and checksum ledgers recorded |
| `object` | the bucket at `company-source/<id>`: bytes and content type |
| `payload` | the part of the portal payload these routes look at: which originals cards refer to, which accounts are active |
| `upc`, `ufile`, `usnap`, `uhead` | the next statement of an upload; its record, payload snapshot and head result |
| `dpc`…, `spc`…, `gpc`… | the same for a delete, a save, a download |
| `acked`, `interrupted` | history: what was answered 201; whose writer was interrupted |

Abstractions. Metadata and bytes are one value (their fingerprint); the ETag and SHA-256
of an object are functions of its contents. Authorisation is "administrator, or an
active account": the role and assignment checks are decided on the same snapshot. A
lost response, a failing store and a killed worker are one action, the request stops
(`InterruptUpload`, `InterruptDelete`), after any statement. The initial states are those
earlier versions may have left: rows without a request, requests under an older key
spelling in any stage. `KeyVariantsAssumption` is what `companyUploadKeyVariants` computes:
every spelling is mapped to the current one, so a current key is never a legacy key.

`FileLifecycle.tla` is the promise: a file is reserved, stored once with contents that do
not change, linked only while stored, deleted for good only while not linked. It is
implemented (`ImplementsLifecycle`) although the bytes are written before the row, by
several requests, and removed after the tombstone.

| Run | Instance | Question |
|---|---|---|
| `company_retry` | 2 files, one of them from an earlier version, under an old spelling of the key; 2 sends of one upload, 1 delete, 1 save; one disturbance (an edit of the members or an interruption) | one original per key, the ledgers, the bucket and the cards, and the refinement |
| `company_live` | 1 file, 2 sends, 1 delete, 1 download by a member, 1 edit and 1 interruption, fairness | everything is answered and finished; what a download sends |

Bounds. Two sends, a delete and a save overlap in every pair, and a send can be overtaken by
each of the others; one interruption leaves the partial state any crash leaves, and the client's
retry starts from it. `OneDisturbance` constrains `company_retry` to a revocation or an
interruption, not both in one behaviour; `company_live` has both. Files do not interact except
through a shared key, which the file of an earlier version has in `company_retry`. More
requests of a kind, two deletes among them, are covered by the proofs. `company_retry` has
2.1 million distinct states with symmetric uploads, `company_live` 330,000 without (symmetry is
not sound for liveness).

Fairness. A request that runs is run to its end by the worker (`WF` of `UploadStep`,
`DeleteStep`) unless interrupted, at most `MaxInterrupts` times. That a sender retries is an
assumption on the client, stated as `SF` of `BeginUpload` and of deleting a file that is
tombstoned but not gone: the routes' messages ask for exactly that, and without it a
crashed worker's request stays pending for ever.

Worth knowing. `DELETE` looks for the row (route line 191) and, without one, for a running
upload (line 195). If the upload commits and another delete writes its tombstone between the two
reads, it answers 204 with the row and the object still there. They are left to
the other delete, or to its retry, so this is not counted as a finding; what does hold of every
204 is `DeleteAnswersHold`: the deletion is decided and no card refers to the file.

Proofs (`CompanyUploadProofs.tla`). Types first (`TypeCorrect`, with `LocalsOK`: a running
request knows its file, since the ledgers are indexed by it). `IInv` is inductive and has six
parts: `LedgersInv` (the ledgers of one file and the bucket), `KeysInv`, `LinksInv` (no card
without a row, no tombstone on a linked file), `UploadsInv` (what a running upload may
rely on at each statement — in particular that once it has written, the bucket has its
bytes unless the file was deleted), `DeletesInv`, and `OrphansInv` (who accounts for
bytes without a row). `LinkedOriginalsAreStored` is not inductive alone: that a linked
file's object is intact needs that a late writer writes the same bytes, which needs that all
uploads of a record have its fingerprint. `InvariantHolds` is proved action by action, and
the safety properties, the two action properties `TombstonesAreFinal` (proved only, no run
repeats it) and `AcknowledgedMeansStored`, and the refinement follow from it. `StoredOnce` is what
the refinement says of the bytes, read back into the bucket and the ledgers: while an original can
be served, they stay as they were first stored (proved only).

Two properties look at what was answered before, and need an invariant of their own beside `IInv`.
`OneOriginal` rests on `AnsweredInv`: a key that was answered 201 is a spelling of today, and the
file it was answered for has that key in its request. A migration looks only at files under older
spellings, so no later `Migrate` renames the request of an answered file (`UploadAnswers`), and
`KeysInv` leaves one file for a key. `ServedBodies` rests on `ReadersInv`: a download that has come
to its last SELECT carries the payload on which its account was admitted, and the SELECT compares
that payload. The row, the ledger and the object agree at that read by `LedgersInv`, so what the
route compared two statements earlier is not needed. `AnsweredInv` and `ReadersInv` were checked as
invariants of the two runs before they were proved. The two liveness properties are model-checked
only.

## 4. Consulting flow

`ConsultingFlow.tla` models one case document: the 21 commands of `applyFlowCommand`
(`lib/consulting-flow.ts`), one action each, and the AI runs of
`lib/consulting-flow-jobs.ts` and `lib/consulting-flow-ai.ts`. A command reads, changes
and commits the document against the revision it read, so it is atomic; a run is not:
`Claim` (the commit that takes the lease), `BeforeRequest` (the second look just before
the provider is called), `StoreAnswer` or `StoreFailure` (the commit of `finishFlowJob`),
or `RunLost` at any point. Commands and other runs go on in between.

| State | Code |
|---|---|
| `reports` | `flow.reports` by stage; a report is its version, `src`, `rec`, `decision`, `key` are `sourceReportId`, `sourceRecordingId`, `decisionId`, `documentsKey`; `body` is what it was generated from |
| `analysis` | `flow.analysis`: the report and who confirmed it |
| `meetings`, `recordings`, `requests` | the arrays of these names; `verified` stands for `verifiedAt` |
| `decision`, `contract`, `paid`, `execution`, `aftercare` | `flow.decision`, `flow.contract`, the sum of `flow.payments`, `executionStartedAt`, `aftercare` |
| `enabled`, `source` | `flow.ai.enabled`; the text and files of the first stage's evidence |
| `jobs` | `flow.jobs`; `lease` is `startedAt`, 0 when it is undefined |
| `claims` | leases given so far: two leases are never equal |
| `runners` | the runs in progress: next step, job, lease, and the evidence the provider was given |

Abstractions. An identifier is a position, since every array only grows. Guards on the
clock (a meeting has begun, bookings do not overlap, a lease is older than 180 seconds)
can be met by waiting or by another slot, so they are not guards here: every order they
allow is checked, and more. Consent, names, notes, dates and sizes are inputs that no later
step reads. The audit limit is folded into the report limit (both refuse the same steps).

What must hold is what a contract rests on (`ContractRestsOnEvidence`), what the first
meeting was prepared with (`FirstMeetingWasPrepared`), that the evidence of a contract is
never changed afterwards (`EvidenceIsFrozen`), that execution follows the money
(`ExecutionIsPaid`), and for the AI that an answer is stored for the evidence the case still
has (`AnswersAreFresh`, `AiReportsMatchTheirTranscript`) and once (`OneResultPerJob`). The
phase the user interface shows is a function of this state, so these are what the phases
mean.

| Run | Instance | Question |
|---|---|---|
| `flow_answers` | from a new case, one whose first meeting is over, and one that is ready to sign: 2 runs, 2 sources, 2 transcripts, 2 recordings, 2 jobs, 2 leases, 4 reports, 1 decision, 2 reviews | what the AI stores, the preparation of the first meeting, and whether store and database admit every update |
| `flow_contract` | from a case whose first meeting is over: 1 run, 7 reports, 2 meetings, 2 decisions, 1 recording, 1 request, 2 payments | all later stages in every order, and the AI against the contract; whether every case can be read again |
| `flow_redecide` | the same instance | the finding below |

Bounds. One report per later stage and one more is what it takes to replace each; two jobs
and two runs overlap every pair of claim, answer and retry; two leases let a run be lost and
retried. `Consulted` is reachable by the seven commands named there, `Signing` by those that
follow; the runs start there too so that their states are spent on what comes after, and the
bounds on what may still be added are the same for each start. Runs, transcripts, sources and
documents are symmetric. Deadlock is not checked: at its bounds a case may have nothing left to
do. Liveness is not stated: nothing runs a queued job but a user who opens the case.
`flow_answers` has 916,000 distinct states, `flow_contract` 3.1 million.

Finding. `flow_redecide`: the page offers the confirmation of solutions until the contract, and
says that on a new one the fifth and sixth document are prepared again to suit it. But the shape
a stored case must have (`lib/consulting-flow-shape.ts:807`) asks every report with a decision to
name the decision in force, so as soon as a quote exists every new decision is refused by the
commit with 503. `ConfirmSolutions` has that refusal as its guard (`DecisionAgrees'`).

Worth knowing, and not a violation of anything the repository says: `retry_job` does not
look for another first-stage job in progress, `queue_report1` does. Two runs may then
each add a first report; the second starts a new joint analysis, and the properties hold.
A job whose result no longer fits (report or audit limit) stays in `processing` until an
administrator retries it after its lease.

Proofs (`ConsultingFlowProofs.tla`), for any number of everything above:
`TypeCorrect`, then three layers, each using the ones before.
1. `StageInv`: `StagesInOrder`, `FirstMeetingWasPrepared`, `ContractRestsOnEvidence`,
   `ExecutionIsPaid`. What makes the contract inductive is that after it nothing it rests on
   may change (`Frozen`), and before it that `StagesInOrder` ties recordings and later
   meetings to a completed first meeting. `EvidenceFrozen` is the same lemma as an action
   property.
2. `RunInv`: `JobsRefer`, `RunsOwnEvidence`, `ReportsHaveJobs`. `RunsOwnEvidence` is the
   heart: while a run still owns its lease, the evidence it was given cannot change, because
   every command that would change it is refused while the job is in processing, and every
   step that takes the lease away makes it unequal to all leases given before. Commands are
   summarised once (`JobsKept`, `EvidenceKept`) and the three parts follow from the summary.
3. `FlowInvariant` joins them; `TranscriptsHold` and `AnswersFresh` follow.

`TypeOK` and `ExecutionIsPaid` are proved and not among the properties of a run. `OneResultPerJob`
is proved in `FlowStorageProofs` (section 5).

## 5. The rules of a case in the store and in the database

The rules of a case are written three times: by the commands (section 4), by
`assertFlowCommitTransition` of `lib/consulting-flow-store.ts`, which compares the case before and
after an update with the receipt that the update adds, and by the triggers on `consulting_flows` of
`db/schema.ts`, which do the same in SQL. A command that one of the later two refuses can never be
given, whatever its own code says; a rule that has become too weak protects nothing. And what is
stored is read again through `hasStoredConsultingFlowStructure` (`lib/consulting-flow-shape.ts`): a
case outside that shape is lost to every later request.

`FlowRules.tla` states the triggers, `FlowStorage.tla` the test of the commit, both as relations
between the state before and after over the variables of `ConsultingFlow`, each written from its own
source; `FlowShape.tla` is the shape as a predicate. They add no state and no step.

| Definition | Code |
|---|---|
| `FlowRules!Scope`, `Touched` | the parts of a case that a command may change, `FLOW_COMMAND_STATE_SCOPE_PATHS` |
| `FlowRules!CommandStep` | the triggers for updates with a receipt: one disjunct for each command |
| `FlowRules!AiStep`, `JobsAdmitted` | those for updates without one, and for the jobs in every update |
| `FlowStorage!CommandAccepted`, `RunAccepted`, `JobsAccepted` | the same three parts of `assertFlowCommitTransition` |
| `FlowShape!FlowsReadBack` | limits, references, the status of requests and jobs, contract and payments of a case that can be read |

Abstractions. Receipt, audit entry and command id are hidden: an update passes when some receipt
explains it, and the receipt the code adds is the one of its own command. Dates, texts and files
are left out, and with them the rules on them; SQL counts the length of a text in code points and
the code in UTF-16 units, which therefore is not seen here. A document received again with the same
file and status changes nothing, so it is a stutter here; in the code the audit entry is new and the
rule, which asks for a changed request, would refuse it. The test of the commit looks at an update
without a command only when a job moved; no run makes another. Neither layer asks whether the stage
of a report saved by hand is open, and both ask of a decision only that its report is a current
fourth one, not the newest, when a contract is signed: these are weaker than the commands, so a
command never meets them.

`AcceptedByCommit` and `AdmittedByDatabase` say that every update of `ConsultingFlow` passes, as
action properties of `flow_answers`, whose three starts reach every command but
`request_document` and `mark_request_sent`; for those two the proofs below are the only check.
`FlowsReadBack` is an invariant of `flow_contract`, where they are given. Two commands may lead out of the shape and
carry its refusal as their guard in `ConsultingFlow`: a decision confirmed again (the finding of
section 4) and a request marked as sent.

Worth knowing. The page offers "실제 발송 완료" for every request that is not marked as sent
(`components/consulting-workflow.tsx:1285`), also for one whose document was received already; the
shape refuses a received request that is marked as sent afterwards, so that button ends in 503.
Nothing in the repository says that it must work, so this is a remark and not a finding.

Proofs (`FlowStorageProofs.tla`), for every value of the constants. `CommitAccepts` and
`DatabaseAdmits` go command by command, both layers at once (`Passes`, `StepPasses`): first that the
command touches only its scope, then its rule, then that of the jobs. Three facts of the state are
needed that a single command does not know: a queued job was never started and a recording has one
job (`JobsWait`), a review is numbered not after the last (`ReviewsNumbered`), and where there is a
recording there is a first report, since a recording is of a completed meeting
(`StagesInOrder` and `FirstMeetingWasPrepared` of section 4). `FlowsRead` strengthens the shape by
`ReportsNameJobs`: a report of the AI names a job, and no other report names it; without it, a run
that completes a job could find a report of it there. `ShapeInv` joins the two and is kept by every
step, on top of the invariants of section 4. `OneResult` is a corollary of it.

`AcceptedIsAdmitted` compares the two layers with each other, and not with the commands: whatever
update of a reachable case the test of the commit lets through, the triggers admit. It goes
through every command and the steps of a run (`CommandAgrees`, `RunAgrees`). What it needs
beyond the test itself says where the two layers differ:
* the triggers want the sources of a new report to be there (`schema.ts:621` to `770`: the first
  report, for the fourth the recording, for quote and contract document the decision); the test of
  the commit compares them with the newest of their kind, which may be none
  (`consulting-flow-store.ts:1590`). Hence `ReportsHaveSources`, before and after. That it holds of
  every reachable case is proved (`SavedHasSources`, `SourcesKept`);
* the test lets a review take any number; that it is not before the last is a condition on dates
  which the model has left out, and a hypothesis here.

`StepsQualify` proves both hypotheses of every step of the code, so the theorem is about all that can
happen and more. The converse does not hold and is not claimed: the triggers admit that an update
without a command takes the lease of a blocked job away, which the test of the commit refuses.

## 6. How a command reaches the case document

`FlowCommit.tla` models `POST /api/consulting-flow/[caseId]` as what it is: a sequence of
statements of two stores without a common transaction. One action is one statement, or a
run of local checks before the next one:

`Send` → `ReadFlow` → `Check` (access, receipt, revision) → `CheckContent` → `Lookup` →
`Insert` → `Reread` (the reservation) → `CheckReserved` → `HeadObject` → `PutObject`
(→ `Winner`) once per attachment, `CheckSecond` between two → `CheckAccess` → `Verify` →
`Commit` → `Answer`. A command without attachments goes from `Check` to `CheckAccess`. The
import of an intake original is a command whose one attachment is the copy of an original of
section 3, whose bytes the server reads itself.

Between any two of them other requests move, the AI commits a revision (`RunAi`), or the
portal payload changes (`SavePortal`), or the original that a copy is made of is deleted or moved to
another company (`LoseOriginal`). `Fail` ends a request at any step: a refusal, a cut connection, a
store that does not answer. Nothing is undone by the code, and nothing is in
the model. A retry is another request, with the same id or another one, for the same content
or another one.

| State | Code |
|---|---|
| `log` | the case document: an entry is a command id with its receipt (`who`, `print`), the revision its sender saw and the files it added; the length is `revision`. AI commits are entries without a command |
| `reserved` | `consulting_flow_upload_requests`; `done` is the row of `consulting_flow_upload_completions`, `None` while the status is `pending` |
| `proof` | the four ledgers of a file (owner, metadata, integrity, checksum), written by one batch |
| `object` | the bucket under `consulting-flow/<file id>` |
| `portal` | what access depends on in the portal payload |
| `original` | is the intake original that imports copy kept, as it was reviewed (`assertCurrentSource`) |
| `pc`, `input`, `seen`, `files`, `bound`, `head`, `access` | the request: next step, body, revision read, reserved files, files written, the object found before a put, the payload it was authorised on |

Abstractions. A fingerprint stands for the command's content and its attachments' bytes,
names and types, so it decides the slots; bytes are the fingerprint they belong to, and an
ETag or SHA-256 is a function of them. What a command does to the document is section 4;
here the document is its history. A file id is the request and slot it was made in, which is
what `randomUUID` promises. The server looks at the original of an import right after each
look at the access, and once more in the statement that commits (`CopyAdmitted`, the trigger on
imports). An original that was lost and comes back, by moving it twice, is left out; therefore the
two looks are one step: found at the second, it was there at the first. Which originals a draft makes
visible to an account is part of `original`. The commit is one batch of the database: revision, payload,
ledgers, completions and their triggers are one step, and any of them fails the whole.

`CommandLog.tla` is what senders may rely on: a history to which a command is added at most
once, and answers only for what is in it. `ImplementsCommandLog` maps the document's log to
that history and the answered requests to its answers.

| Run | Instance | Question |
|---|---|---|
| `commit_race` | 2 requests, 2 accounts, 2 ids; a recording with audio, a source, the copy of an intake original, a bare command; 2 revisions | retries, lost answers, other contents under one id, other accounts, revocation, the original of a copy lost meanwhile |

Bounds. Two requests are a send and its retry or competitor, in every overlap; a second
revision lets one of them, or the AI, be first; two ids are needed for a retry under a new
id, two contents of the same slots for an id used again (769,000 distinct states). What a third
request could add is proved for any number. Requests, accounts and ids are symmetric. No
fairness: nothing here promises that a request ends well, only what is true if it does.

Proofs (`FlowCommitProofs.tla`), for any number of requests, accounts, ids, contents and
revisions. The invariant `IInv` ties each request to the stores. What a request knows stays
true because the stores only grow (`StoreGrows`: entries stay, a reservation keeps its account
and content, an object stays), so that `OthersKept` is proved once for all requests that do
not move. `SeenInv` says that a request past its check has a fresh id in a log that can only
be extended by others; the revision compared in `Commit` turns that into "applied once".
`FilesInv` says that the files of a request hold its own content, and `FreshFiles` that
nobody else's reservation uses its ids. From `IInv` follow the state properties
(`RetriesShareFiles` is proved only), `AnswersAgree` (a command id used again with another
content is never answered as a success; proved only, from `SeenInv` and `LogOnce`),
`RevocationHolds` (with the payload comparison of the commit), and `Refinement`.

Worth knowing. A retry of an import takes over its open reservation and dates the copy, and with
it the case (`updatedAt`), by the reservation (`consulting-flow-handlers.ts:229`). If a run of the
AI committed its result after that moment, the result is younger than the case would be, which the
shape of a stored case forbids (`consulting-flow-shape.ts:880`); every retry of the import then ends
with 503, although the message asks to send the same material again. Dates are not in the model, so
this was found by reading, not by a run.

## 7. How a partner gets in

`PasswordAccess.tla` models self-registration, direct registration by the administrator,
sign-in, sign-out, setup links and their redemption, and `PUT /api/state` as far as it changes
or consults the roster. The roster lies in the portal payload, written by compare-and-swap on
its text; credentials, sessions and links are three tables. A handler reads payload and tables
one statement at a time, hashes a password or validates a roster for as long as it takes, and
writes in one batch whose statements repeat the conditions. So a request has three steps,
`...Read`, `...Check` and `...Commit`, and everything may happen between them.

| State | Code |
|---|---|
| `portal` | the payload: `members` (address and status by id), `membersRevision`, and `rest`, all the rest |
| `accounts` | `portal_password_accounts`; `version` is `credential_version` |
| `sessions`, `links` | `portal_password_sessions`, `portal_password_links`; `expired` is `expires_at` against the clock |
| `input` | what the request was sent; for a save the page it was made on (its state and If-Match) |
| `payload`, `row` | the payload, and the account, link or member, that the request has read |
| `tries` | failed compare-and-swaps of `registerPassword` or `mutatePortalState` |

Ids, versions and tokens are random in the code; here they are the request that makes them, so
that two of them are never equal and every one is traced to its origin. Expiry is an action of
the clock that may come at any time; a link is compared with the time at which its request
began, as in the code, so one that expires during the request is still redeemed. A roster that
is saved is any that `mergeStateForPortalUser` lets through (`Edits`): no new member, no address
twice, no active member deleted, and the transitions of `portalMemberStatusTransitions`.

Left out: ChatGPT identities and their bindings, standalone administrator sessions (an
administrator may always save), the attempt limiter, names, permissions and other columns,
replays of a direct registration by its `requestId`, deletions refused because records are
assigned to the member, and metrics. The test that a save repeats after its first
`requirePortalUser` stands for both, since the first writes nothing.

`AccountAccess.tla` is what the handlers promise: every request one step on the roster, the
password in force, the usable links and the sessions as they are at that moment; no versions,
revisions or retries. `ImplementsAccountAccess` maps a session to its member, a link to its
member until it is consumed, and an account to its password.

| Run | Instance | Question |
|---|---|---|
| `access_all` | 3 requests of all seven kinds, 1 founder, 2 addresses, 2 passwords, 2 rests | every property and the refinement |

Bounds. `Attempts` is 2 where the code has 4: one retry shows that a second reading replaces
everything of the first, more repeat it. Three requests are the two that race and the one that
prepares: a link, its redemption and the login they overtake, or a link and two redemptions. A
second address is what a move needs; a founder may have a credential at the start or not. A
partner's save keeps the roster and its revision, so only a second rest lets it change the portal:
with one, `RevokedNeverSave` would ask nothing. That such a save is made is checked by the negation
`[][~\E r \in Requests : SavedBy(r)]_vars`, which TLC refutes on this instance with a login and a save
and finds true with one rest. A longer history adds nothing that is not proved below for any number
of requests. Requests, addresses and rests are symmetric (1.8 million distinct states). No fairness: nothing is promised about when a request ends. Deadlock is
checked; the end of all requests is a step of its own (`Idle`).

Proofs (`PasswordAccessProofs.tla`), for any number of requests, founders, addresses, passwords
and attempts. The properties are not inductive: that a session's login knew the password in force
needs a reason why the row read by a login can still be trusted. The reason is in `IInv`: a
version stands for one password for ever (`VersionsAreSecrets`, `Stable`), a session is of a
version (`SessionsFollowAccounts`), an id or token has no rows before its request is answered
(`IdsAreFresh`), and what a request has read is related to what its batch will compare (`Reads`).
`Others`, `SessionsStay`, `LinksStay` and `OthersRead` say once what a step leaves alone;
`Quiet` covers all steps that write nothing; then there is one lemma for each batch. `Left` is
what remains after a change of the roster. From `IInv` follow the state properties
(`UsedOnce`, that a link is redeemed once, is proved only),
`RevokedNever` (with the payload comparison), and `Refinement`.

## 8. The save queues of the open pages

`PortalSaves.tla` models the open pages of the portal and the cases of the portal document.
A page holds the cases its user may see; its queue (`lib/portal-save-queue.ts`) sends all of
them, one save at a time. The server reads the document and the flows, merges the body by the
role of the user, lets the flows and the lifecycle overrule the result, compares If-Match, and
writes by compare-and-swap.

| State | Code |
|---|---|
| `doc` | the cases of the portal payload; a revision (`portalRevision`, a digest) is the document itself |
| `flow` | `consulting_flows`: stage and partner of a managed case |
| `revised` | drafts (`application_drafts`) that were saved anew or discarded since they were submitted |
| `latest`, `confirmed` | `latest`, `confirmedKey` of the page's `PortalSaveQueue`; the screen is `latest` |
| `timer`, `flight`, `failed` | the fields of these names; `closing` lies between the last answer and `finally` |
| `rev` | `saveStateRevisionRef` of the page, sent as If-Match |
| `known` | history: the content the page loaded, or had acknowledged, with `rev` |
| `calls` | saves on their way: one of each page, and those whose page no longer waits |
| `copy` | the answer to `GET /api/state` asked for after a flow command, not applied yet |
| `chosen` | history: the lifecycle the administrator chose last for a case |

A case has a stage, the fields written with it (`step`: next action, dates), a lifecycle
(`unset` on the page that has just submitted the case), a partner and the mark that a flow
manages it. The screens edit the stage, the partner and the lifecycle and submit applications,
as the buttons of the page allow. A save is two steps of the server, the reading of document
and flows, and all the rest with the second reading of the flows; a flow may move and other
saves may commit in between, and both steps may come long after the page gave the save up.

An application is submitted from a draft, and its author may have another window in which the same
draft is saved anew or discarded (`ReviseDraft`). The server asks whether the draft is still the one
that was submitted when it reads the document (`DraftStands`) and in the statement that writes
(`DraftGuard`). That the application was accepted does not stop such a change:
`app/api/application-draft/route.ts` reads the document before its conditional update, so a
submission in between leaves an acknowledged change of a draft that was submitted already.

| Run | Instance | Question |
|---|---|---|
| `saves_two` | the administrator and a partner, one case and one application, 2 edits or changes of the draft, 1 flow step, 1 lost answer or refresh | what is saved, overwritten, submitted and settles |
| `saves_reassigned` | as before, without flows and losses | finding 1 |
| `saves_refreshed` | the administrator alone, a refresh | finding 2 |

`SavedMeansStored` says for every page whose queue has settled that the document of its revision
agrees with the screen, as far as its user may decide it: `Agree` leaves out what a flow or a
closed lifecycle decides and, for a partner, cases assigned to somebody else by now.
`NoBlindOverwrite` compares the values a commit replaces with what its page had seen, and holds
even for saves carried out late. `DraftsEnterUnrevised` says that an application enters the document
only as its draft was submitted, also when the save is carried out late. `EditsSettle` says that
every edit is saved in the end, or shown as failed; that none waits without a timer, a save or that
message (`NoStrandedEdit`) is proved and follows from it under fairness.

Bounds. Two edits are an edit and one that overtakes it, or one of each page; one flow step
opens a flow under a page that does not know of it; one lost answer leaves one late save. 425,000
distinct states. `Attempts` is 2 where
the code has 4. A page may be loaded again whenever it has no save on its way. Fairness, for
`EditsSettle` only: timers fire, a request on its way is carried out and its answer taken. No
button has to be pressed, and a save whose answer was lost may never be carried out. Deadlock is
checked; a page may always be loaded again.

Findings.
1. `saves_reassigned`: a partner edits a case that was assigned to another partner since the
   page was loaded. The merge keeps the stored record, so the save, although stale, changes
   nothing and is accepted (`app/api/state/route.ts:399`, meant for the repetition of a save
   whose answer was lost), and the page shows the edit as stored.
2. `saves_refreshed`: a refresh of the board replaces managed cases on the screen whole
   (`app/page.tsx:4122`). One that was read before a save of the lifecycle commits and is applied
   while it is in flight puts the old lifecycle back; the next save has the new revision, and the
   server takes it for a choice of the administrator.

Observed and not counted as findings: a failed edit of a case that becomes managed leaves the
screen with the next refresh, though the message says it stays there (`app/page.tsx:4326`); after a
lost answer the repetition is accepted only while the screen and the flows are what they were;
and a stage edited on a page that does not know that the flow was opened is acknowledged and
overruled, which is the rule for managed cases.

Left out: the other collections of the payload, which `mergeOwnedRecords` treats as cases; the
roster (`PasswordAccess`); drafts before their submission, one row for each author written by
revision; a draft that is submitted again after the page was loaded again or the draft revised; the
fields of `Project` that change with the date only; and an application that is sent again after a
refresh changed the screen since it was prepared. The draft is read after the merge in the code and
with the document in the model; a change in between is one that the guard of the write finds. The document and the flows are read together and the
compare-and-swap comes with the second reading of the flows. A flow step between them is as one
just before or just after, except one admitted between the second reading and the
compare-and-swap of a save that closes its case, which the model refuses; what a command may
rely on there is `RevokedNeverCommit` of `FlowCommit`.

Proofs (`PortalSavesProofs.tla`), for any number of pages, partners, cases, edits, moves, lost
answers and attempts. `SavedMeansStored` is not inductive: an acknowledgement confirms what was sent,
so that the document of the answer agrees with it must be known when the answer is given, and a
case the save adds must not be in the document under another content. `IInv` adds that an id is never taken
twice (`IdsInv`), that what a page knows agrees with its revision and what it takes for saved is
what it knows (`PageInv`), and the same for every save on its way (`CallFits`, with the flows it
has read: flows are opened, never closed). The one lemma on the code's data is `AgreeNext`:
what `NextDocument` makes of a body agrees with it, if the cases it adds are new. From it, with one lemma for each action, follow `SavedIsStored` and
`NothingUnseenIsOverwritten`. `DraftsEnterAsSubmitted` needs that the document only grows by what a
save adds (`OnlySavesChange`). `EditsSettle` is model-checked only.

## 9. The bucket of the Supabase deployment

Sections 3 and 6 take it that put, get, head and delete of one key happen at once. With R2 and
Vercel Blob the adaptor passes each of them to the provider as one conditional call. With Supabase
it does not: the provider has no conditions, so `lib/supabase-storage-bucket.ts` writes every version
under a path of its own and publishes it by moving a row in PostgreSQL, the head of the key.

`SupabaseBucket.tla` models one key. A client is one call, one action one request to the database
or to the storage: `Begin` (reads the head and, for a put, compares its condition), `Upload`,
`Verify` (the object is read back and compared), `Publish` (one batch: the version is inserted, the
head moves if it is still the one that was read), `Remove`, and for a read `Stat` and `Fetch`.

| State | Code |
|---|---|
| `head` | `storage_object_heads`: the revision of the key; after a removal it is one without a version |
| `versions` | `storage_object_versions` |
| `blob` | the provider's object at the path of a revision: none, whole, stored in part, or lost later |
| `pc`, `op`, `seen`, `told` | the call: next step, what was asked, the head it read, its answer |

A call may be cut off after any step (`Fail`). Its caller is told "unknown", and a statement that
was on its way still arrives at any later time (`late`). The provider may store part of what it is
sent and may lose or alter an object afterwards (`Lose`).

Abstractions. A revision is the call that draws it. The same bytes always get the same ETag, which
is what the adaptor computes. Keys share no row and no path, so one key stands for all. The client
that retries is the caller, another call here.

`ObjectStore.tla` is what the callers rely on: each operation takes effect at one moment between
its call and its answer; if the answer is "unknown", then, later or never. A condition is refused
only if it did not hold at some moment or something else was written meanwhile: the adaptor compares
revisions, not contents, so a put may be refused although the ETag is again the one it asked for.

| Run | Instance | Question |
|---|---|---|
| `bucket_race` | 3 overlapping calls of any kind at one key, 2 contents | do they act one after another, whatever is cut off, stored in part or lost? |

Bounds. Three calls are a writer, one that overtakes it with the same or another content, and one
that removes or reads in between; two contents are what a condition needs to hold, to fail, and to
hold again (299,000 distinct states with symmetry). No fairness: the adaptor promises nothing about
when. Deadlock is not checked, since every call ends.

Proofs (`SupabaseBucketProofs.tla`), for any number of calls and contents. `IInv` says where each
kind of call can be (`Place`), that what it compares with is a head it has seen (`Reading`,
`WrittenHead`), that a version was verified whole before it could be written (`Bytes`), and that a
caller is told what happened (`Telling`). A step of a call disturbs nobody else (`Others`,
`OtherInv`), and its own step keeps its own part (`OwnInv`). From it follow `PublishedWhole`,
`ReplacedAsAsked` (what `CompanyUpload` and `FlowCommit` rely on: a `put` that asks for absence
never replaces an object, though its statement may run long after the read it was decided on)
and `Refinement`. The latter needs that what a head stands for never changes, so that an equal
revision means the same object (`Settled`), and that a call that finds another revision was
overtaken.

## 10. Step 0 of the AI diagnosis

`StepZeroRuns.tla` models the form of `app/page.tsx` and `POST /api/ai-diagnosis/step-zero` with its
ledger in `lib/ai-diagnosis.ts`. The administrator consents to the text that goes to the provider
and presses a button; the call costs money; it lasts up to 85 seconds; its answer may be lost, and
the button pressed again. The handler claims a row (`Expire`, `Insert`, `Look`), calls the provider
(`Call`, `Answer`, `NoAnswer`), looks at the state of the case once more (`Recheck`), and completes or
fails its row (`Save`, `Fail`); it may be cut off at any step (`Cut`). Meanwhile the window edits,
selects another case or posts again, consents of the case are withdrawn (`Reconsider`), and the
model is changed (`Deploy`).

| State | Code |
|---|---|
| `page` | the form: case, consent (0 until the box is ticked), kept request id, running request |
| `post` | the requests: what was sent, where the handler is, what it read (`stamp` is `createdAt`, `until` the time limit), whether the window still waits |
| `run` | `ai_diagnosis_runs`: status, and the case, consent and model it was claimed for |
| `now`, `model`, `eligible` | the clock, `ANTHROPIC_MODEL`, what the preflight says of a case |
| `lapsed` | history: answered posts whose case was not eligible at any moment since the answer |

Abstractions. A request id is named by the first post that carries it. The text that is sent is
represented by the consent given for it, since an edit takes the consent back; so the fingerprint of
a request is its consent. Contents of results are left out.

`Recheck` is one step where the route makes three reads after the answer (`route.ts:351-358`): the
portal state, the administrator's session, and the rows and objects of the originals that the preflight
wants. Consent, case and choice of originals are all of the one portal state. What may change between
that read and the others is that the session ends or an original is deleted, and neither comes back
under its name; the one condition of a row on the portal, that the entry of a draft case's file is
there (`companyFileIntakeFilter`), holds when that state is read, since the entry was taken from it.
So a recheck that passes would have passed as a whole at its first read, the moment that the one step
stands for.

What must hold: a consent pays for one call, however often the button is pressed
(`PaidOncePerConsent`); until its limit has passed, the claim of a worker stands and is the only one
of its case (`InTimeAlone`); a completed run never changes, and one that was given up is never
completed by a late answer (`FateIsFinal`); and a result is stored only if the case was eligible at
some moment after the answer (`SavedUnderConsent`).

| Run | Instance | Question |
|---|---|---|
| `step_zero` | 1 window, 2 cases, 2 posts, 2 models, 2 consents, a clock of 2 ticks, one of them the limit of a pending run | all four properties |

Bounds. A tick is `STEP_ZERO_PENDING_STALE_MS`, five minutes; the time limit of the call, 85 seconds,
lies within one (`Timeout` is 0). One tick is enough for a run to be given up while its worker is still
there. Two posts are a send and its repetition, or the claim that expires it; what a second
window could add is proved for any number (2.1 million distinct states with symmetry). Deadlock is
not checked: when all posts are used there is nothing left to do. No fairness, since nothing is
promised about when a run ends: a worker that is cut off leaves its row pending until the next claim
for that case.

Proofs (`StepZeroProofs.tla`), for any number of windows, cases, posts, models and consents and any
limits. `IInv` has three parts beside the types. `NameInv`: all posts with an id were sent for one
case under one consent, and a window that still has its consent has the id of all that was sent
under it. `WorkInv`: one post at most holds the row of an id, one row at most of a case is pending,
and a working handler's row is pending until its limit (`InTime`; `Expire` compares with the moment
its own post was admitted, which is not after now). `LapseInv`: a post that has passed the second look
has not lapsed. `PaidOnce` is the first two together: two posts under one consent have one id, and
one of them holds its row.

## 11. What is not modelled, and what is only model-checked

Not modelled, and planned (section 2): identity bindings and replays of a registration, recovery
of originals, and the direct uploads of the Supabase deployment. The last have the most state of
their own: a reservation with an expiry and a limit for each account, a staged object that the
browser writes itself, the copy into the ledgers by the upload routes, and the cleaning of what
was not fetched, which is a script.

Not modelled, and not planned:
* the user interface, but for what a page does to the document it saves (section 8) and the form
  of Step 0 (section 10): its requests are inputs of the modelled routes, in any order and number.
  It is the largest part of the source, forms, boards and texts;
* the file inventory: it lists what the ledgers and the bucket say, and writes nothing;
* metrics and login statistics: nothing reads them back;
* direct transfer by the signed tickets of Vercel Blob: it ends in the routes that are modelled;
* the adaptors of R2 and Vercel Blob: each operation is one call of the provider, and what those
  promise is outside of this repository;
* the schema as such: the triggers on cases are `FlowRules`, other constraints and triggers that
  decide the outcome of a modelled statement are part of its action; those that repeat a check of
  the code, and migrations, are left out;
* the administrator of an independent deployment: one account that nothing changes;
* operations scripts: run by hand on a system that is stopped.

Proved for every value of the constants: type correctness of `CompanyUpload`, `ConsultingFlow`,
`FlowCommit`, `PasswordAccess`, `PortalSaves`, `SupabaseBucket` and `StepZeroRuns`; the safety
invariants and action properties named under `theorems` in `PROJECT.json`; that `CompanyUpload`
implements `FileLifecycle`, `FlowCommit` implements `CommandLog`, `PasswordAccess` implements
`AccountAccess`, and `SupabaseBucket` implements `ObjectStore`; that every update of
`ConsultingFlow` passes the commit and the triggers and leaves a case that can be read; and that
what the commit lets through the triggers admit. Assumed
are only the named assumptions on the constants, which TLC evaluates in every run: that model
values differ, that bounds are natural numbers.

Model-checked only: what depends on fairness (`DeletesComplete`, `UploadsSettle`,
`EditsSettle`), because the prover does not treat `ENABLED`; and the findings, which are
counterexamples. No module uses a recursive definition.
