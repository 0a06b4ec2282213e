----------------------------- MODULE FlowCommit -----------------------------
(***************************************************************************)
(* How a command reaches the case document: postConsultingFlow in          *)
(* lib/consulting-flow-handlers.ts with reserveFlowUploads, commitFlow and *)
(* recheckFlowAccess of lib/consulting-flow-store.ts, and the receipts of  *)
(* lib/flow-command-receipt.ts.                                            *)
(*                                                                         *)
(* One case.  A request is a sequence of statements of two stores, the     *)
(* database (the case document, the ledgers of uploads and files, the      *)
(* portal payload) and the bucket, and one action is one of them.  Other   *)
(* requests, portal saves and AI runs happen in between.  A request whose  *)
(* next check fails ends, as does one that is cut off or whose store does  *)
(* not answer (Fail); nothing it did is undone.                            *)
(*                                                                         *)
(* A fingerprint stands for the command's content and the bytes, names and *)
(* types of its attachments; it decides which slots it has.  What the      *)
(* command does to the document is ConsultingFlow's subject; here the      *)
(* document is the list of commands applied, and its revision the length.  *)
(***************************************************************************)
EXTENDS Naturals, Sequences

CONSTANTS
  Requests,     \* HTTP requests
  Actors,       \* accounts that may work on the case
  Commands,     \* command ids, made by browsers
  Prints,       \* fingerprints
  Attachments,  \* the slots of a fingerprint
  Imports,      \* fingerprints of a copy of the intake original
  None,
  MaxLog        \* bound: the revision

Slots == {"file", "audio"}

VARIABLES
  log,       \* commandIds with commandReceipts and the files each added
  reserved,  \* consulting_flow_upload_requests with ..._completions
  proof,     \* owner, metadata, integrity and checksum ledger of a file
  object,    \* the bucket
  portal,    \* the portal payload: who may work on the case, is it stopped
  original,  \* is the intake original kept?
  pc,        \* next step of a request
  input,     \* what it was sent
  seen,      \* the revision it read
  files,     \* the reserved files it works with
  bound,     \* those it has written
  head,      \* what it found at the key of the next one
  access     \* the portal payload it was authorised on

store == <<log, reserved, proof, object, portal, original>>
own   == <<pc, input, seen, files, bound, head, access>>
vars  == <<log, reserved, proof, object, portal, original, pc, input, seen, files, bound, head, access>>

\* describeUpload gives every attachment of every request an id of its own.
File   == Requests \X Slots
Input  == [who : Actors, cmd : Commands, print : Prints, rev : Nat]
Entry  == [who : Actors \cup {None}, cmd : Commands \cup {None},
           print : Prints \cup {None}, saw : Nat, files : SUBSET File]
\* done is the command that completed the reservation: its status is 'ready'.
Reservation == [who : Actors, cmd : Commands, print : Prints, done : Commands \cup {None}]
Portal == [allowed : SUBSET Actors, stopped : BOOLEAN]

ASSUME CommitAssumption ==
  /\ None \notin Actors \cup Commands \cup Prints
  /\ None \notin Reservation \cup Input \cup Portal
  /\ Attachments \in [Prints -> SUBSET Slots]
  /\ Imports \subseteq Prints
  /\ \A p \in Imports : Attachments[p] = {"file"}
  /\ MaxLog \in Nat

Step   == {"new", "read", "check", "content", "lookup", "insert", "reread", "reserved",
           "head", "put", "winner", "second", "access", "verify", "commit", "committed",
           "ok", "duplicate", "failed"}
Ended  == {"new", "ok", "duplicate", "failed"}

TypeOK ==
  /\ log \in Seq(Entry)
  /\ reserved \in [File -> Reservation \cup {None}]
  /\ proof \in [File -> Prints \cup {None}]
  /\ object \in [File -> Prints \cup {None}]
  /\ portal \in Portal
  /\ original \in BOOLEAN
  /\ pc \in [Requests -> Step]
  /\ input \in [Requests -> Input \cup {None}]
  /\ seen \in [Requests -> Nat]
  /\ files \in [Requests -> SUBSET File]
  /\ bound \in [Requests -> SUBSET File]
  /\ head \in [Requests -> Prints \cup {None}]
  /\ access \in [Requests -> Portal \cup {None}]
  /\ \A r \in Requests : pc[r] # "new" => input[r] # None

\* The case document is made by its first command.
Init ==
  /\ log = <<>>
  /\ reserved = [f \in File |-> None]
  /\ proof = [f \in File |-> None]
  /\ object = [f \in File |-> None]
  /\ portal = [allowed |-> Actors, stopped |-> FALSE]
  /\ original = TRUE
  /\ pc = [r \in Requests |-> "new"]
  /\ input = [r \in Requests |-> None]
  /\ seen = [r \in Requests |-> 0]
  /\ files = [r \in Requests |-> {}]
  /\ bound = [r \in Requests |-> {}]
  /\ head = [r \in Requests |-> None]
  /\ access = [r \in Requests |-> None]

Goto(r, step) == pc' = [pc EXCEPT ![r] = step]
At(r, step)   == pc[r] = step

\* requirePortalUser, resolveFlowAssignment, the upload permission and
\* assertFlowLifecycleActive on the payload as it is now.
Allowed(r) == input[r].who \in portal.allowed /\ ~portal.stopped

\* assertCurrentSource: the original that an import copies is there, as it was
\* reviewed.  It does not come back, so that a look at it a statement after one
\* at the payload finds it only if both would have passed at the first.
Stands(r) == input[r].print \in Imports => original

-----------------------------------------------------------------------------
(* Access, receipt and revision *)

\* The sender's view may be of any earlier revision.
Send(r) ==
  /\ At(r, "new")
  /\ \E who \in Actors, cmd \in Commands, print \in Prints, rev \in 0 .. Len(log) :
       /\ who \in portal.allowed /\ ~portal.stopped
       /\ input' = [input EXCEPT ![r] = [who |-> who, cmd |-> cmd, print |-> print, rev |-> rev]]
  /\ Goto(r, "read")
  /\ UNCHANGED <<store, seen, files, bound, head, access>>

ReadFlow(r) ==
  /\ At(r, "read")
  /\ seen' = [seen EXCEPT ![r] = Len(log)]
  /\ Goto(r, "check")
  /\ UNCHANGED <<store, input, files, bound, head, access>>

\* Variant: the receipt of an earlier send is not looked for.
NoRetry(r) == FALSE

\* isFlowCommandRetry, on the document as it was read: the id is there, ...
IsRetry(r) == \E i \in 1 .. seen[r] : log[i].cmd = input[r].cmd
\* ... and was used by the same account for the same content.
SameReceipt(r) == \E i \in 1 .. seen[r] : /\ log[i].cmd = input[r].cmd
                                          /\ log[i].who = input[r].who
                                          /\ log[i].print = input[r].print

\* Variant: a command is applied to a revision its sender has not seen.
AnyView(r) == TRUE
SeenLatest(r) == input[r].rev = seen[r]

Check(r) ==
  /\ At(r, "check") /\ Allowed(r)
  /\ \/ IsRetry(r) /\ SameReceipt(r) /\ Goto(r, "duplicate")
     \/ /\ ~IsRetry(r) /\ SeenLatest(r)
        /\ Goto(r, IF Attachments[input[r].print] = {} THEN "access" ELSE "content")
  /\ UNCHANGED <<store, input, seen, files, bound, head, access>>

\* The access is checked again after the attachments were inspected, or the
\* original was read for a copy (prepareIntakeImport).
CheckContent(r) ==
  /\ At(r, "content") /\ Allowed(r) /\ Stands(r)
  /\ Goto(r, "lookup")
  /\ UNCHANGED <<store, input, seen, files, bound, head, access>>

-----------------------------------------------------------------------------
(* Reservations *)

Reserved(f)   == reserved[f] # None
Pending(f)    == Reserved(f) /\ reserved[f].done = None
ByCommand(r)  == {f \in File : /\ Reserved(f) /\ reserved[f].who = input[r].who
                               /\ reserved[f].cmd = input[r].cmd}
ByContent(r)  == {f \in File : /\ Pending(f) /\ reserved[f].who = input[r].who
                               /\ reserved[f].print = input[r].print}

\* Variant: a reservation of the same command is taken whatever its content.
AnyContent(r, F) ==
  /\ \A f \in F : Pending(f)
  /\ {f[2] : f \in F} = Attachments[input[r].print]
  /\ \A f, g \in F : reserved[f].cmd = reserved[g].cmd

\* validateFlowUploadReservationRows: pending, of one command, this content,
\* exactly these slots (a slot is part of the key, so no two rows have the same).
Valid(r, F) ==
  /\ \A f \in F : Pending(f) /\ reserved[f].print = input[r].print
  /\ {f[2] : f \in F} = Attachments[input[r].print]
  /\ \A f, g \in F : reserved[f].cmd = reserved[g].cmd

\* readReusableFlowUploadReservation: the rows of this command, or those left
\* pending for the same content under another id.
Reuse(r) ==
  \E F \in {ByCommand(r), ByContent(r)} :
    /\ ByCommand(r) # {} => F = ByCommand(r)
    /\ F # {} /\ Valid(r, F)
    /\ files' = [files EXCEPT ![r] = F]
    /\ Goto(r, "reserved")

Lookup(r) ==
  /\ At(r, "lookup")
  /\ \/ Reuse(r)
     \/ ByCommand(r) \cup ByContent(r) = {} /\ Goto(r, "insert") /\ UNCHANGED files
  /\ UNCHANGED <<store, input, seen, bound, head, access>>

\* The primary key (DO NOTHING), the fingerprint trigger and the index on pending
\* fingerprints (the batch aborts) all leave what is there.
Inserts(r) == ByCommand(r) = {} /\ ByContent(r) = {}

Insert(r) ==
  /\ At(r, "insert")
  /\ reserved' = [f \in File |->
       IF Inserts(r) /\ f \in {r} \X Attachments[input[r].print]
       THEN [who |-> input[r].who, cmd |-> input[r].cmd, print |-> input[r].print,
             done |-> None]
       ELSE reserved[f]]
  /\ Goto(r, "reread")
  /\ UNCHANGED <<log, proof, object, portal, original, input, seen, files, bound, head, access>>

Reread(r) ==
  /\ At(r, "reread") /\ Reuse(r)
  /\ UNCHANGED <<store, input, seen, bound, head, access>>

CheckReserved(r) ==
  /\ At(r, "reserved") /\ Allowed(r) /\ Stands(r)
  /\ Goto(r, "head")
  /\ UNCHANGED <<store, input, seen, files, bound, head, access>>

-----------------------------------------------------------------------------
(* The bucket: writeReservedFlowUpload, the file before the recording *)

\* The reserved file to write next.
NextFile(r, f) == /\ f \in files[r] \ bound[r]
                  /\ f[2] = "file" \/ \A g \in files[r] \ bound[r] : g[2] = "audio"

HeadObject(r) ==
  /\ At(r, "head")
  /\ \E f \in File : NextFile(r, f) /\ head' = [head EXCEPT ![r] = object[f]]
  /\ Goto(r, "put")
  /\ UNCHANGED <<store, input, seen, files, bound, access>>

\* Another file follows after one more look at the access, or the final one.
Written(r, f) ==
  /\ bound' = [bound EXCEPT ![r] = @ \cup {f}]
  /\ Goto(r, IF files[r] \subseteq bound[r] \cup {f} THEN "access" ELSE "second")

\* The condition is the ETag that was found, or that there is no object.
PutObject(r) ==
  /\ At(r, "put")
  /\ \E f \in File :
       /\ NextFile(r, f)
       /\ IF object[f] = head[r]
          THEN object' = [object EXCEPT ![f] = input[r].print] /\ Written(r, f)
          ELSE Goto(r, "winner") /\ UNCHANGED <<object, bound>>
  /\ UNCHANGED <<log, reserved, proof, portal, original, input, seen, files, head, access>>

\* A writer that was faster left the same bytes.
Winner(r) ==
  /\ At(r, "winner")
  /\ \E f \in File : NextFile(r, f) /\ object[f] = input[r].print /\ Written(r, f)
  /\ UNCHANGED <<store, input, seen, files, head, access>>

CheckSecond(r) ==
  /\ At(r, "second") /\ Allowed(r)
  /\ Goto(r, "head")
  /\ UNCHANGED <<store, input, seen, files, bound, head, access>>

-----------------------------------------------------------------------------
(* Commit *)

CheckAccess(r) ==
  /\ At(r, "access") /\ Allowed(r) /\ Stands(r)
  /\ access' = [access EXCEPT ![r] = portal]
  /\ Goto(r, "verify")
  /\ UNCHANGED <<store, input, seen, files, bound, head>>

Verify(r) ==
  /\ At(r, "verify")
  /\ \A f \in files[r] : object[f] = input[r].print
  /\ Goto(r, "commit")
  /\ UNCHANGED <<store, input, seen, files, bound, head, access>>

\* Variant: no trigger looks at the original of an import.
CopyUnguarded(r) == TRUE
\* The trigger on imports asks once more, in the statement that commits.
CopyAdmitted(r) == Stands(r)

\* Variant: only the revision is compared.
CommitsRevoked(r) == Len(log) = seen[r] /\ \A f \in files[r] : Pending(f) /\ proof[f] = None

\* The revision and the portal payload are what they were; the file ledgers are
\* written once, the reservation completed once (their triggers abort the batch).
Commits(r) == /\ Len(log) = seen[r] /\ portal = access[r] /\ CopyAdmitted(r)
              /\ \A f \in files[r] : Pending(f) /\ proof[f] = None

\* Variant: the ledgers of a second attachment are forgotten.
ClaimsFirst(r) == {f \in files[r] : f[2] = "file"}
Claims(r) == files[r]

Applied(r) == [who |-> input[r].who, cmd |-> input[r].cmd, print |-> input[r].print,
               saw |-> input[r].rev, files |-> files[r]]

Commit(r) ==
  /\ At(r, "commit") /\ Commits(r) /\ Len(log) < MaxLog
  /\ log' = Append(log, Applied(r))
  /\ proof' = [f \in File |-> IF f \in Claims(r) THEN input[r].print ELSE proof[f]]
  /\ reserved' = [f \in File |-> IF f \in files[r]
                                 THEN [reserved[f] EXCEPT !.done = input[r].cmd]
                                 ELSE reserved[f]]
  /\ Goto(r, "committed")
  /\ UNCHANGED <<object, portal, original, input, seen, files, bound, head, access>>

\* The completed reservations are read back before the answer.
Answer(r) ==
  /\ At(r, "committed")
  /\ \A f \in files[r] : Reserved(f) /\ reserved[f].done = input[r].cmd
  /\ Goto(r, "ok")
  /\ UNCHANGED <<store, input, seen, files, bound, head, access>>

\* Refused, cut off, or a store did not answer.
Fail(r) ==
  /\ pc[r] \notin Ended
  /\ Goto(r, "failed")
  /\ UNCHANGED <<store, input, seen, files, bound, head, access>>

-----------------------------------------------------------------------------
(* The others *)

\* A commit of an AI run (ConsultingFlow): no command, the next revision.
Generated == [who |-> None, cmd |-> None, print |-> None, saw |-> Len(log), files |-> {}]
RunAi ==
  /\ Len(log) \in 1 .. MaxLog - 1
  /\ log' = Append(log, Generated)
  /\ UNCHANGED <<reserved, proof, object, portal, original, own>>

\* A portal save that suspends or restores accounts, or stops the case.
SavePortal ==
  /\ portal' \in Portal \ {portal}
  /\ UNCHANGED <<log, reserved, proof, object, original, own>>

\* The original is deleted (CompanyUpload), or moved to another company or case.
LoseOriginal ==
  /\ original /\ original' = FALSE
  /\ UNCHANGED <<log, reserved, proof, object, portal, own>>

RequestStep(r) ==
  \/ Send(r) \/ ReadFlow(r) \/ Check(r) \/ CheckContent(r)
  \/ Lookup(r) \/ Insert(r) \/ Reread(r) \/ CheckReserved(r)
  \/ HeadObject(r) \/ PutObject(r) \/ Winner(r) \/ CheckSecond(r)
  \/ CheckAccess(r) \/ Verify(r) \/ Commit(r) \/ Answer(r) \/ Fail(r)

Next == (\E r \in Requests : RequestStep(r)) \/ RunAi \/ SavePortal \/ LoseOriginal
Spec == Init /\ [][Next]_vars

-----------------------------------------------------------------------------
(* Properties *)

\* What an entry of a command says is attached is attached: every slot of its
\* content, with the bytes that were fingerprinted in the bucket and their proof
\* in the ledgers, under a reservation of the same account that this command
\* completed (commitFlow's batch, which never sees the bucket).
FlowFilesAreStored ==
  \A i \in DOMAIN log : log[i].cmd # None =>
    /\ {f[2] : f \in log[i].files} = Attachments[log[i].print]
    /\ \A f \in log[i].files :
         /\ object[f] = log[i].print /\ proof[f] = log[i].print
         /\ Reserved(f) /\ reserved[f].who = log[i].who /\ reserved[f].done = log[i].cmd

\* Uploaded bytes can always be found again from the database: each object has a
\* reservation of its content, and one that is not pending belongs to an entry.
NothingIsLost ==
  \A f \in File :
    /\ object[f] # None => Reserved(f) /\ reserved[f].print = object[f]
    /\ Reserved(f) => \/ Pending(f)
                      \/ \E i \in DOMAIN log : /\ log[i].cmd = reserved[f].done
                                               /\ f \in log[i].files

\* However often a browser sends the same content, under whatever ids, one
\* reservation of a slot is open, and no file is attached by two commands.
RetriesShareFiles ==
  /\ \A f, g \in File :
       /\ Pending(f) /\ Pending(g) /\ f[2] = g[2]
       /\ reserved[f].who = reserved[g].who /\ reserved[f].print = reserved[g].print
       => f = g
  /\ \A i, j \in DOMAIN log : i # j => log[i].files \cap log[j].files = {}

\* A command is applied to the revision its sender was looking at, whatever other
\* requests and AI runs committed while its attachments were uploaded.
AppliedToWhatWasSeen ==
  \A i \in DOMAIN log : log[i].cmd # None => log[i].saw = i - 1

\* An account that was suspended, lost the case or saw it stopped during its
\* request does not commit, nor does a copy whose original was lost meanwhile: the
\* portal payload and the original are compared in the same statement.
RevokedNeverCommit ==
  [][\A r \in Requests : pc[r] # "committed" /\ pc'[r] = "committed" =>
       Allowed(r) /\ Stands(r)]_vars

\* The log as the senders of commands know it.
Told(e) == [who |-> e.who, cmd |-> e.cmd, print |-> e.print]
History == [i \in DOMAIN log |-> IF log[i].cmd = None THEN None ELSE Told(log[i])]
Answered == {Told(input[r]) : r \in {q \in Requests : pc[q] \in {"ok", "duplicate"}}}

Promise == INSTANCE CommandLog WITH history <- History, answered <- Answered, Work <- None

\* Retries, lost answers and races never apply a command twice, and no answer
\* says that something was applied which is not in the document.
ImplementsCommandLog == Promise!Spec

-----------------------------------------------------------------------------
(* The inductive invariant *)

\* Each command is there once; an AI run attaches nothing.
LogOnce ==
  \A i \in DOMAIN log :
    /\ log[i].cmd # None => log[i].who # None /\ log[i].print # None
    /\ log[i].cmd # None => \A j \in DOMAIN log : log[j].cmd = log[i].cmd => i = j
    /\ log[i].cmd = None => log[i].files = {}

Checked == {"content", "lookup", "insert", "reread", "reserved", "head", "put", "winner",
            "second", "access", "verify", "commit"}
Empty   == {"new", "read", "check", "content", "lookup", "insert", "reread"}

\* What a request knows about the log is still so: the log only grows.
SeenInv(r) ==
  /\ seen[r] <= Len(log)
  /\ pc[r] \in Checked => input[r].rev = seen[r] /\ ~IsRetry(r)
  /\ pc[r] \in {"committed", "ok", "duplicate"} =>
       \E i \in DOMAIN log : log[i].cmd # None /\ Told(log[i]) = Told(input[r])

\* The files of a request hold its content, and were verified before the commit.
FilesInv(r) ==
  /\ pc[r] \in Empty => files[r] = {}
  /\ \A f \in files[r] : /\ Reserved(f) /\ reserved[f].who = input[r].who
                         /\ reserved[f].print = input[r].print
  /\ pc[r] \in Checked \ Empty => {f[2] : f \in files[r]} = Attachments[input[r].print]
  /\ (pc[r] = "commit") => \A f \in files[r] : object[f] = input[r].print

\* The payload a request was authorised on allowed it.
AccessInv(r) ==
  pc[r] \in {"verify", "commit"} =>
    access[r] # None /\ input[r].who \in access[r].allowed /\ ~access[r].stopped

\* The ids a request gave its attachments are in nobody's reservation before its own.
FreshFiles == \A f \in File : Reserved(f) => pc[f[1]] \notin Empty \ {"reread"}

IInv ==
  /\ TypeOK /\ LogOnce /\ FreshFiles /\ FlowFilesAreStored /\ NothingIsLost
  /\ RetriesShareFiles /\ AppliedToWhatWasSeen
  /\ \A r \in Requests : SeenInv(r) /\ FilesInv(r) /\ AccessInv(r)
=============================================================================
