--------------------------- MODULE CompanyUpload ---------------------------
(***************************************************************************)
(* The life of a company original: lib/company-upload-store.ts (upload and *)
(* its retries), app/api/files/[id]/route.ts (download and delete), the    *)
(* portal save that links an original to a document card                   *)
(* (lib/company-document-file-provenance.ts) and the membership change     *)
(* that revokes a user in the middle of all of it.                         *)
(*                                                                         *)
(* Three stores are shared by requests that interleave at every await: the *)
(* D1/Postgres ledgers, the private object bucket and the portal payload.  *)
(* One step of an action is one atomic statement of one store: one D1      *)
(* statement or batch, one bucket call.  A crash, or a response that is    *)
(* lost, is the action Interrupt, which may follow any step.               *)
(***************************************************************************)
EXTENDS Naturals, FiniteSets

CONSTANTS
  FileIds,      \* file identifiers (crypto.randomUUID and earlier files)
  Keys,         \* request keys: one <owner_key, request_key> pair each
  Bytes,        \* fingerprints: the metadata and the bytes of an upload
  Users,        \* portal accounts
  Admin,        \* the platform administrator: no member record, never revoked
  Uploaders, Deleters, Savers, Readers,   \* the requests that may be running
  UserOf,       \* the account of each of these requests
  Key,          \* the (current) request key of each upload
  LegacyKeys,   \* the older spellings of that key the upload accepts
  BytesOf,      \* what each upload sends
  MaxEdits,     \* bound: membership changes
  MaxInterrupts,\* bound: crashed requests and lost responses
  ExistingFiles,\* files that earlier versions may have left behind
  None

ASSUME ConstantsAssumption ==
  /\ Key \in [Uploaders -> Keys]
  /\ BytesOf \in [Uploaders -> Bytes]
  /\ LegacyKeys \in [Uploaders -> SUBSET Keys]
  /\ UserOf \in [Uploaders \cup Deleters \cup Savers \cup Readers
                   -> Users \cup {Admin}]
  /\ ExistingFiles \subseteq FileIds
  /\ None \notin FileIds \cup Keys \cup Bytes
  /\ MaxEdits \in Nat /\ MaxInterrupts \in Nat

\* companyUploadKeyVariants hashes the same normalised form into the current key
\* of every spelling: no current key is a legacy key, and uploads that share a
\* legacy key share the current one.
ASSUME KeyVariantsAssumption ==
  \A u, v \in Uploaders :
    /\ Key[u] \notin LegacyKeys[v]
    /\ LegacyKeys[u] \cap LegacyKeys[v] # {} => Key[u] = Key[v]

VARIABLES
  status,       \* company_file_upload_requests.status of a file, or "none"
  reqKey,       \* ... its request_key, or None
  print,        \* ... its fingerprint
  row,          \* company_file_objects has the file (and its child ledgers)
  ledger,       \* company_file_object_integrity/checksums: what was stored
  object,       \* the bucket's object at company-source/<id>
  payload,      \* portal_state.payload: linked originals, active accounts
  upc, ufile, usnap, uhead,      \* an upload: next statement and its locals
  dpc, dfile, dsnap,             \* a delete
  spc, sfile, ssnap,             \* a portal save that links an original
  gpc, gfile, gsnap, gbody,      \* a download
  acked,        \* history: <<key, file>> pairs answered 201
  interrupted,  \* history: files one of whose writers was interrupted
  edits, interrupts              \* the two bounds' counters

d1       == <<status, reqKey, print, row, ledger>>
uploader == <<upc, ufile, usnap, uhead>>
deleter  == <<dpc, dfile, dsnap>>
saver    == <<spc, sfile, ssnap>>
reader   == <<gpc, gfile, gsnap, gbody>>
history  == <<acked, interrupted, edits, interrupts>>
vars     == <<d1, object, payload, uploader, deleter, saver, reader, history>>

\* An object is its bytes and the content type it was written with: "std" is the
\* normalised type of today's uploads, "raw" the browser's, which older uploads
\* stored.  The ETag and the SHA-256 of the bucket are functions of it.
Stored  == [bytes : Bytes, mime : {"std", "raw"}]
Payload == [linked : SUBSET FileIds, members : SUBSET Users]
\* None stands for "no snapshot taken"; it is not a payload, nor an object.
ASSUME NoneAssumption == None \notin Stored \cup Payload

Statuses == {"none", "pending", "ready", "deleted"}

\* The steps of an upload at which it has called bucket.put and not yet read
\* the request's status again.
Unsettled == {"checkWritten", "authCommit", "checkRevoked", "commit", "status",
              "cleanup"}
UploadSteps == Unsettled \cup
  {"idle", "findCurrent", "findLegacy", "migrate", "reserve", "lookup",
   "authPut", "head", "put", "winner", "readSaved", "authSaved", "authStored",
   "readStored", "checkSaved", "headSaved", "authReply", "checkReply"}
DeleteSteps == {"idle", "access", "noRow", "decide", "undecided", "purgeObject",
                "purgeRow", "gone"}
SaveSteps   == {"idle", "checkRow", "checkObject", "commit"}
ReadSteps   == {"idle", "checkDeleted", "get", "recheck", "final", "served"}

TypeOK ==
  /\ status \in [FileIds -> Statuses]
  /\ reqKey \in [FileIds -> Keys \cup {None}]
  /\ print  \in [FileIds -> Bytes \cup {None}]
  /\ row    \in [FileIds -> BOOLEAN]
  /\ ledger \in [FileIds -> Stored \cup {None}]
  /\ object \in [FileIds -> Stored \cup {None}]
  /\ payload \in Payload
  /\ upc \in [Uploaders -> UploadSteps]
  /\ ufile \in [Uploaders -> FileIds \cup {None}]
  /\ usnap \in [Uploaders -> Payload \cup {None}]
  /\ uhead \in [Uploaders -> Stored \cup {None}]
  /\ dpc \in [Deleters -> DeleteSteps]
  /\ dfile \in [Deleters -> FileIds \cup {None}]
  /\ dsnap \in [Deleters -> Payload \cup {None}]
  /\ spc \in [Savers -> SaveSteps]
  /\ sfile \in [Savers -> FileIds \cup {None}]
  /\ ssnap \in [Savers -> Payload \cup {None}]
  /\ gpc \in [Readers -> ReadSteps]
  /\ gfile \in [Readers -> FileIds \cup {None}]
  /\ gsnap \in [Readers -> Payload \cup {None}]
  /\ gbody \in [Readers -> Stored \cup {None}]
  /\ acked \subseteq Keys \X FileIds
  /\ interrupted \subseteq FileIds
  /\ edits \in Nat /\ interrupts \in Nat

\* Before these steps an upload has not found its request record.
NoFileSteps == {"idle", "findCurrent", "findLegacy", "reserve", "lookup"}

\* A request that is under way knows which file it is about.
LocalsOK ==
  /\ \A u \in Uploaders : upc[u] \notin NoFileSteps => ufile[u] \in FileIds
  /\ \A d \in Deleters : dpc[d] # "idle" => dfile[d] \in FileIds
  /\ \A s \in Savers : spc[s] # "idle" => sfile[s] \in FileIds
  /\ \A g \in Readers : gpc[g] # "idle" => gfile[g] \in FileIds

-----------------------------------------------------------------------------
(* Initial states: a portal whose existing files were stored by any earlier  *)
(* version, each consistent on its own.                                      *)

OldKeys == UNION {LegacyKeys[u] : u \in Uploaders}

Unused == [status |-> "none", reqKey |-> None, print |-> None,
           row |-> FALSE, object |-> None]
\* A file from before the upload ledger: a row, no request.
Unledgered == [status : {"none"}, reqKey : {None}, print : {None},
               row : {TRUE}, object : Stored]
\* Requests under an older spelling of their key.
Requested(st, stored, objects) ==
  {p \in [status : {st}, reqKey : OldKeys, print : Bytes,
          row : {stored}, object : objects] :
     p.object # None => p.object.bytes = p.print}

Past == {Unused} \cup Unledgered
        \cup Requested("pending", FALSE, Stored \cup {None})
        \cup Requested("ready", TRUE, Stored)
        \cup Requested("deleted", FALSE, {None})

Init ==
  /\ \E past \in [FileIds -> Past] :
       /\ \A f \in FileIds \ ExistingFiles : past[f] = Unused
       /\ \A f, g \in FileIds :
            past[f].reqKey = past[g].reqKey /\ past[f].reqKey # None => f = g
       /\ status = [f \in FileIds |-> past[f].status]
       /\ reqKey = [f \in FileIds |-> past[f].reqKey]
       /\ print  = [f \in FileIds |-> past[f].print]
       /\ row    = [f \in FileIds |-> past[f].row]
       /\ object = [f \in FileIds |-> past[f].object]
       /\ ledger = [f \in FileIds |-> IF past[f].row THEN past[f].object ELSE None]
  /\ payload \in {p \in Payload : /\ p.members = Users
                                  /\ \A f \in p.linked : row[f]}
  /\ upc = [u \in Uploaders |-> "idle"] /\ ufile = [u \in Uploaders |-> None]
  /\ usnap = [u \in Uploaders |-> None] /\ uhead = [u \in Uploaders |-> None]
  /\ dpc = [d \in Deleters |-> "idle"] /\ dfile = [d \in Deleters |-> None]
  /\ dsnap = [d \in Deleters |-> None]
  /\ spc = [s \in Savers |-> "idle"] /\ sfile = [s \in Savers |-> None]
  /\ ssnap = [s \in Savers |-> None]
  /\ gpc = [g \in Readers |-> "idle"] /\ gfile = [g \in Readers |-> None]
  /\ gsnap = [g \in Readers |-> None] /\ gbody = [g \in Readers |-> None]
  /\ acked = {} /\ interrupted = {} /\ edits = 0 /\ interrupts = 0

-----------------------------------------------------------------------------
(* Shared reads and guards.  Before some definitions stands a variant of it  *)
(* with a defect the code could have; no specification uses a variant.       *)

\* requirePortalUser plus the role and permission checks of the request.
Authorized(r) == UserOf[r] = Admin \/ UserOf[r] \in payload.members

HasRequest(f, key) == reqKey[f] = key
Available(f) == row[f] /\ status[f] \in {"none", "ready"}
\* companyFileObjectMatchesIntegrity: key, size, content type, ETag and SHA-256.
ObjectMatches(f) == row[f] /\ object[f] # None /\ object[f] = ledger[f]

Sent(u) == [bytes |-> BytesOf[u], mime |-> "std"]

-----------------------------------------------------------------------------
(* Upload: storeCompanyUpload *)

Goto(u, step) == upc' = [upc EXCEPT ![u] = step]
\* The request ends: with an error response, or (Reply) with 201.
EndUpload(u) ==
  /\ Goto(u, "idle")
  /\ ufile' = [ufile EXCEPT ![u] = None]
  /\ usnap' = [usnap EXCEPT ![u] = None]
  /\ uhead' = [uhead EXCEPT ![u] = None]

\* A client sends, or sends again, the request; the first authorize().
BeginUpload(u) ==
  /\ upc[u] = "idle"
  /\ Authorized(u)
  /\ Goto(u, IF LegacyKeys[u] = {} THEN "reserve" ELSE "findCurrent")
  /\ usnap' = [usnap EXCEPT ![u] = payload]
  /\ UNCHANGED <<ufile, uhead, d1, object, payload, deleter, saver, reader, history>>

FindCurrent(u) ==
  /\ upc[u] = "findCurrent"
  /\ Goto(u, IF \E f \in FileIds : HasRequest(f, Key[u])
             THEN "reserve" ELSE "findLegacy")
  /\ UNCHANGED <<ufile, usnap, uhead, d1, object, payload, deleter, saver, reader,
                 history>>

LegacyRequests(u) == {f \in FileIds : reqKey[f] \in LegacyKeys[u]}

\* The one legacy record is taken over for the same bytes only.
Adopts(u, f) == LegacyRequests(u) = {f} /\ status[f] # "deleted" /\ print[f] = BytesOf[u]

FindLegacy(u) ==
  /\ upc[u] = "findLegacy"
  /\ \/ /\ LegacyRequests(u) = {}
        /\ Goto(u, "reserve")
        /\ UNCHANGED <<ufile, usnap, uhead>>
     \/ \E f \in LegacyRequests(u) :
          /\ Adopts(u, f)
          /\ Goto(u, "migrate")
          /\ ufile' = [ufile EXCEPT ![u] = f]
          /\ UNCHANGED <<usnap, uhead>>
     \/ /\ LegacyRequests(u) # {} /\ \A f \in FileIds : ~Adopts(u, f)
        /\ EndUpload(u)
  /\ UNCHANGED <<d1, object, payload, deleter, saver, reader, history>>

\* The guarded UPDATE of request_key; the lifecycle trigger aborts it for a
\* request that was deleted in the meantime.
Migrate(u) ==
  /\ upc[u] = "migrate"
  /\ LET f == ufile[u]
         applies == /\ reqKey[f] \in LegacyKeys[u]
                    /\ \A g \in FileIds : ~HasRequest(g, Key[u])
                    /\ payload = usnap[u]
     IN \/ /\ applies /\ status[f] # "deleted"
           /\ reqKey' = [reqKey EXCEPT ![f] = Key[u]]
           /\ print' = [print EXCEPT ![f] = BytesOf[u]]
           /\ Goto(u, "reserve")
           /\ ufile' = [ufile EXCEPT ![u] = None]
           /\ UNCHANGED <<usnap, uhead>>
        \/ /\ ~applies
           /\ Goto(u, "reserve")
           /\ ufile' = [ufile EXCEPT ![u] = None]
           /\ UNCHANGED <<reqKey, print, usnap, uhead>>
        \/ /\ applies /\ status[f] = "deleted"
           /\ EndUpload(u)
           /\ UNCHANGED <<reqKey, print>>
  /\ UNCHANGED <<status, row, ledger, object, payload, deleter, saver, reader, history>>

\* INSERT ... WHERE <payload unchanged> ON CONFLICT DO NOTHING, with a fresh id.
ReservesAgain(u) == payload = usnap[u]
Reserves(u) == payload = usnap[u] /\ \A f \in FileIds : ~HasRequest(f, Key[u])

Reserve(u) ==
  /\ upc[u] = "reserve"
  /\ Goto(u, "lookup")
  /\ usnap' = [usnap EXCEPT ![u] = None]
  /\ IF Reserves(u)
     THEN \E f \in FileIds :
            /\ status[f] = "none" /\ ~row[f]
            /\ status' = [status EXCEPT ![f] = "pending"]
            /\ reqKey' = [reqKey EXCEPT ![f] = Key[u]]
            /\ print' = [print EXCEPT ![f] = BytesOf[u]]
     ELSE UNCHANGED <<status, reqKey, print>>
  /\ UNCHANGED <<ufile, uhead, row, ledger, object, payload, deleter, saver, reader,
                 history>>

\* The record is for the same bytes and not deleted: a retry goes on with it.
ResumesReady(u, f)  == HasRequest(f, Key[u]) /\ print[f] = BytesOf[u] /\ status[f] = "ready"
Resumes(u, f) == /\ HasRequest(f, Key[u]) /\ print[f] = BytesOf[u]
                 /\ status[f] \in {"pending", "ready"}

\* What the record says decides: go on, answer from the stored file, or refuse.
Lookup(u) ==
  /\ upc[u] = "lookup"
  /\ \/ \E f \in FileIds :
          /\ Resumes(u, f)
          /\ Goto(u, IF status[f] = "ready" THEN "readSaved" ELSE "authPut")
          /\ ufile' = [ufile EXCEPT ![u] = f]
          /\ UNCHANGED <<usnap, uhead>>
     \/ /\ \A f \in FileIds : ~Resumes(u, f)
        /\ EndUpload(u)
  /\ UNCHANGED <<d1, object, payload, deleter, saver, reader, history>>

\* authorize() where its snapshot is dropped: it only decides whether to go on.
Reauthorize(u, from, to) ==
  /\ upc[u] = from
  /\ IF Authorized(u) THEN Goto(u, to) /\ UNCHANGED <<ufile, usnap, uhead>>
     ELSE EndUpload(u)
  /\ UNCHANGED <<d1, object, payload, deleter, saver, reader, history>>

Head(u) ==
  /\ upc[u] = "head"
  /\ Goto(u, "put")
  /\ uhead' = [uhead EXCEPT ![u] = object[ufile[u]]]
  /\ UNCHANGED <<ufile, usnap, d1, object, payload, deleter, saver, reader, history>>

SameEtag(o, p) == (o = None /\ p = None) \/ (o # None /\ p # None /\ o.bytes = p.bytes)

\* Conditional put: onlyIf the bucket still has the ETag (or the absence) that
\* head returned.
Put(u) ==
  /\ upc[u] = "put"
  /\ uhead' = [uhead EXCEPT ![u] = None]
  /\ IF SameEtag(object[ufile[u]], uhead[u])
     THEN /\ object' = [object EXCEPT ![ufile[u]] = Sent(u)]
          /\ Goto(u, "checkWritten")
     ELSE /\ Goto(u, "winner")
          /\ UNCHANGED object
  /\ UNCHANGED <<ufile, usnap, d1, payload, deleter, saver, reader, history>>

\* The put lost: another upload's object must hold the same bytes and type.
Winner(u) ==
  /\ upc[u] = "winner"
  /\ IF object[ufile[u]] = Sent(u)
     THEN Goto(u, "checkWritten") /\ UNCHANGED <<ufile, usnap, uhead>>
     ELSE EndUpload(u)
  /\ UNCHANGED <<d1, object, payload, deleter, saver, reader, history>>

\* assertNotDeleted(wroteBytes = true): an explicit deletion that was decided
\* while the bytes were written wins, and the bytes are removed again.
CheckWrittenOnly(u) ==
  /\ upc[u] = "checkWritten"
  /\ IF status[ufile[u]] = "deleted" THEN EndUpload(u)
     ELSE Goto(u, "authCommit") /\ UNCHANGED <<ufile, usnap, uhead>>
  /\ UNCHANGED <<d1, object, payload, deleter, saver, reader, history>>
CheckWritten(u) ==
  /\ upc[u] = "checkWritten"
  /\ Goto(u, IF status[ufile[u]] = "deleted" THEN "cleanup" ELSE "authCommit")
  /\ UNCHANGED <<ufile, usnap, uhead, d1, object, payload, deleter, saver, reader,
                 history>>

AuthorizeCommit(u) ==
  /\ upc[u] = "authCommit"
  /\ IF Authorized(u)
     THEN Goto(u, "commit") /\ usnap' = [usnap EXCEPT ![u] = payload]
     ELSE Goto(u, "checkRevoked") /\ UNCHANGED usnap
  /\ UNCHANGED <<ufile, uhead, d1, object, payload, deleter, saver, reader, history>>

\* A refusal must not hide that the file was deleted: the bytes go first.
CheckRevoked(u) ==
  /\ upc[u] = "checkRevoked"
  /\ IF status[ufile[u]] = "deleted"
     THEN Goto(u, "cleanup") /\ UNCHANGED <<ufile, usnap, uhead>>
     ELSE EndUpload(u)
  /\ UNCHANGED <<d1, object, payload, deleter, saver, reader, history>>

\* The batch: file row, integrity, checksum, metadata and key ledgers, and the
\* request to 'ready', each guarded by the request still being pending and the
\* payload being the one authorised.
CommitsDeleted(u) == payload = usnap[u]
Commits(u) == status[ufile[u]] = "pending" /\ payload = usnap[u]

Commit(u) ==
  /\ upc[u] = "commit"
  /\ Goto(u, "status")
  /\ usnap' = [usnap EXCEPT ![u] = None]
  /\ IF Commits(u)
     THEN /\ row' = [row EXCEPT ![ufile[u]] = TRUE]
          /\ ledger' = [ledger EXCEPT ![ufile[u]] = Sent(u)]
          /\ status' = [status EXCEPT ![ufile[u]] = "ready"]
     ELSE UNCHANGED <<row, ledger, status>>
  /\ UNCHANGED <<ufile, uhead, reqKey, print, object, payload, deleter, saver, reader,
                 history>>

\* A pending request means that the payload moved: conflict.
ReadStatus(u) ==
  /\ upc[u] = "status"
  /\ \/ /\ status[ufile[u]] = "deleted"
        /\ Goto(u, "cleanup") /\ UNCHANGED <<ufile, usnap, uhead>>
     \/ /\ status[ufile[u]] = "pending"
        /\ EndUpload(u)
     \/ /\ status[ufile[u]] = "ready"
        /\ Goto(u, "authStored") /\ UNCHANGED <<ufile, usnap, uhead>>
  /\ UNCHANGED <<d1, object, payload, deleter, saver, reader, history>>

Cleanup(u) ==
  /\ upc[u] = "cleanup"
  /\ object' = [object EXCEPT ![ufile[u]] = None]
  /\ EndUpload(u)
  /\ UNCHANGED <<d1, payload, deleter, saver, reader, history>>

\* findCompanyFile on the way to an answer.
ReadRow(u, from, to) ==
  /\ upc[u] = from
  /\ IF row[ufile[u]] THEN Goto(u, to) /\ UNCHANGED <<ufile, usnap, uhead>>
     ELSE EndUpload(u)
  /\ UNCHANGED <<d1, object, payload, deleter, saver, reader, history>>

\* assertNotDeleted(wroteBytes = false) before the object is compared.
CheckSaved(u) ==
  /\ upc[u] = "checkSaved"
  /\ IF status[ufile[u]] # "deleted"
     THEN Goto(u, "headSaved") /\ UNCHANGED <<ufile, usnap, uhead>>
     ELSE EndUpload(u)
  /\ UNCHANGED <<d1, object, payload, deleter, saver, reader, history>>

\* The bucket's object against the ledgers and the bytes just sent.
HeadSaved(u) ==
  /\ upc[u] = "headSaved"
  /\ IF ObjectMatches(ufile[u]) /\ object[ufile[u]].bytes = BytesOf[u]
     THEN Goto(u, "authReply") /\ UNCHANGED <<ufile, usnap, uhead>>
     ELSE EndUpload(u)
  /\ UNCHANGED <<d1, object, payload, deleter, saver, reader, history>>

\* The last assertNotDeleted, and the 201 answer.
AcknowledgesAll(u) == TRUE
Acknowledges(u) == status[ufile[u]] # "deleted"

Reply(u) ==
  /\ upc[u] = "checkReply"
  /\ acked' = IF Acknowledges(u)
              THEN acked \cup {<<Key[u], ufile[u]>>} ELSE acked
  /\ EndUpload(u)
  /\ UNCHANGED <<interrupted, edits, interrupts, d1, object, payload, deleter, saver, reader>>

\* Every step of an upload that its own code takes once it has begun.
UploadStep(u) ==
  \/ FindCurrent(u) \/ FindLegacy(u) \/ Migrate(u) \/ Reserve(u) \/ Lookup(u)
  \/ Reauthorize(u, "authPut", "head") \/ Head(u) \/ Put(u) \/ Winner(u)
  \/ CheckWritten(u) \/ AuthorizeCommit(u) \/ CheckRevoked(u) \/ Commit(u)
  \/ ReadStatus(u) \/ Cleanup(u)
  \/ ReadRow(u, "readSaved", "authSaved") \/ Reauthorize(u, "authSaved", "checkSaved")
  \/ Reauthorize(u, "authStored", "readStored") \/ ReadRow(u, "readStored", "checkSaved")
  \/ CheckSaved(u) \/ HeadSaved(u) \/ Reauthorize(u, "authReply", "checkReply") \/ Reply(u)

\* The worker dies, a store fails, or the response of the last statement is lost:
\* "D1/R2 errors never trigger destructive compensation".
Compensate(u) ==
  /\ upc[u] # "idle"
  /\ interrupts < MaxInterrupts
  /\ interrupts' = interrupts + 1
  /\ object' = IF upc[u] \in Unsettled THEN [object EXCEPT ![ufile[u]] = None] ELSE object
  /\ EndUpload(u)
  /\ UNCHANGED <<acked, interrupted, edits, d1, payload, deleter, saver, reader>>
InterruptUpload(u) ==
  /\ upc[u] # "idle"
  /\ interrupts < MaxInterrupts
  /\ interrupts' = interrupts + 1
  /\ interrupted' = IF upc[u] \in Unsettled
                    THEN interrupted \cup {ufile[u]} ELSE interrupted
  /\ EndUpload(u)
  /\ UNCHANGED <<acked, edits, d1, object, payload, deleter, saver, reader>>

-----------------------------------------------------------------------------
(* Delete: DELETE /api/files/[id] *)

EndDelete(d, step) ==
  /\ dpc' = [dpc EXCEPT ![d] = step]
  /\ dsnap' = [dsnap EXCEPT ![d] = None]
  /\ dfile' = IF step = "idle" THEN [dfile EXCEPT ![d] = None] ELSE dfile

\* A client deletes a file it has an identifier of; findCompanyFile.
BeginDeleteOnce(d, f) ==
  /\ dpc[d] \in {"idle", "gone"}
  /\ Authorized(d)
  /\ row[f] /\ status[f] # "deleted"
  /\ dpc' = [dpc EXCEPT ![d] = "access"]
  /\ dfile' = [dfile EXCEPT ![d] = f]
  /\ UNCHANGED <<dsnap, d1, object, payload, uploader, saver, reader, history>>
BeginDelete(d, f) ==
  /\ dpc[d] \in {"idle", "gone"}
  /\ Authorized(d)
  /\ row[f] \/ status[f] # "none"
  /\ dpc' = [dpc EXCEPT ![d] = IF row[f] THEN "access" ELSE "noRow"]
  /\ dfile' = [dfile EXCEPT ![d] = f]
  /\ UNCHANGED <<dsnap, d1, object, payload, uploader, saver, reader, history>>

\* No row: an upload still running answers 409, anything else 204.
NoRow(d) ==
  /\ dpc[d] = "noRow"
  /\ EndDelete(d, IF ~Authorized(d) \/ status[dfile[d]] \in {"pending", "ready"}
                  THEN "idle" ELSE "gone")
  /\ UNCHANGED <<d1, object, payload, uploader, saver, reader, history>>

\* currentFileAccess, canDelete and isLinkedPortalOriginal on one snapshot.
AccessDelete(d) ==
  /\ dpc[d] = "access"
  /\ IF Authorized(d) /\ dfile[d] \notin payload.linked
     THEN /\ dpc' = [dpc EXCEPT ![d] = "decide"]
          /\ dsnap' = [dsnap EXCEPT ![d] = payload]
          /\ UNCHANGED dfile
     ELSE EndDelete(d, "idle")
  /\ UNCHANGED <<d1, object, payload, uploader, saver, reader, history>>

\* The tombstone: guarded by the row, by fileUnlinkedGuard and by the payload
\* being the snapshot the decision was authorised on.
Decides(d) == row[dfile[d]] /\ dfile[d] \notin dsnap[d].linked /\ payload = dsnap[d]

Decide(d) ==
  /\ dpc[d] = "decide"
  /\ IF Decides(d)
     THEN /\ status' = [status EXCEPT ![dfile[d]] = "deleted"]
          /\ dpc' = [dpc EXCEPT ![d] = "purgeObject"]
          /\ dsnap' = [dsnap EXCEPT ![d] = None]
     ELSE /\ dpc' = [dpc EXCEPT ![d] = "undecided"]
          /\ dsnap' = [dsnap EXCEPT ![d] = None]
          /\ UNCHANGED status
  /\ UNCHANGED <<dfile, reqKey, print, row, ledger, object, payload, uploader, saver,
                 reader, history>>

\* changes # 1: conflict while the row is there, 204 when somebody purged it.
UndecidedGone(d) ==
  /\ dpc[d] = "undecided"
  /\ EndDelete(d, IF ~Authorized(d) THEN "idle" ELSE "gone")
  /\ UNCHANGED <<d1, object, payload, uploader, saver, reader, history>>
Undecided(d) ==
  /\ dpc[d] = "undecided"
  /\ EndDelete(d, IF ~Authorized(d) \/ row[dfile[d]] THEN "idle" ELSE "gone")
  /\ UNCHANGED <<d1, object, payload, uploader, saver, reader, history>>

PurgeObject(d) ==
  /\ dpc[d] = "purgeObject"
  /\ object' = [object EXCEPT ![dfile[d]] = None]
  /\ dpc' = [dpc EXCEPT ![d] = "purgeRow"]
  /\ UNCHANGED <<dfile, dsnap, d1, payload, uploader, saver, reader, history>>

\* The row with its child ledgers (foreign-key cascade); the request row stays.
PurgeRow(d) ==
  /\ dpc[d] = "purgeRow"
  /\ row' = [row EXCEPT ![dfile[d]] = FALSE]
  /\ ledger' = [ledger EXCEPT ![dfile[d]] = None]
  /\ EndDelete(d, "gone")
  /\ UNCHANGED <<status, reqKey, print, object, payload, uploader, saver, reader, history>>

DeleteStep(d) == NoRow(d) \/ AccessDelete(d) \/ Decide(d) \/ Undecided(d)
                 \/ PurgeObject(d) \/ PurgeRow(d)

InterruptDelete(d) ==
  /\ dpc[d] \notin {"idle", "gone"}
  /\ interrupts < MaxInterrupts
  /\ interrupts' = interrupts + 1
  /\ EndDelete(d, "idle")
  /\ UNCHANGED <<acked, interrupted, edits, d1, object, payload, uploader, saver, reader>>

-----------------------------------------------------------------------------
(* Portal saves: PUT /api/state through mutatePortalState *)

EndSave(s) ==
  /\ spc' = [spc EXCEPT ![s] = "idle"]
  /\ sfile' = [sfile EXCEPT ![s] = None]
  /\ ssnap' = [ssnap EXCEPT ![s] = None]
Proceed(s, step) == spc' = [spc EXCEPT ![s] = step] /\ UNCHANGED <<sfile, ssnap>>

\* A save that adds a document card for original f; existing links stay
\* (companyDocumentFileMetadataMutationError).
BeginSave(s, f) ==
  /\ spc[s] = "idle"
  /\ Authorized(s)
  /\ f \notin payload.linked
  /\ spc' = [spc EXCEPT ![s] = "checkRow"]
  /\ sfile' = [sfile EXCEPT ![s] = f]
  /\ ssnap' = [ssnap EXCEPT ![s] = payload]
  /\ UNCHANGED <<d1, object, payload, uploader, deleter, reader, history>>

\* checkNewCompanyDocumentFileProvenance: the ledgers, then the bucket.
CheckRow(s) ==
  /\ spc[s] = "checkRow"
  /\ IF Available(sfile[s]) THEN Proceed(s, "checkObject") ELSE EndSave(s)
  /\ UNCHANGED <<d1, object, payload, uploader, deleter, reader, history>>

CheckObject(s) ==
  /\ spc[s] = "checkObject"
  /\ IF ObjectMatches(sfile[s]) THEN Proceed(s, "commit") ELSE EndSave(s)
  /\ UNCHANGED <<d1, object, payload, uploader, deleter, reader, history>>

\* UPDATE portal_state ... WHERE payload = <snapshot> AND <provenance>: the
\* ledgers are checked once more inside the statement, the bucket is not.
LinksUnguarded(s) == payload = ssnap[s]
Links(s) == payload = ssnap[s] /\ Available(sfile[s])

CommitSave(s) ==
  /\ spc[s] = "commit"
  /\ payload' = IF Links(s)
                THEN [payload EXCEPT !.linked = @ \cup {sfile[s]}] ELSE payload
  /\ EndSave(s)
  /\ UNCHANGED <<d1, object, uploader, deleter, reader, history>>

SaveStep(s) == CheckRow(s) \/ CheckObject(s) \/ CommitSave(s)

\* An administrator's save of the member list (compare-and-swap on the payload).
SaveMembers(m) ==
  /\ edits < MaxEdits
  /\ m # payload.members
  /\ payload' = [payload EXCEPT !.members = m]
  /\ edits' = edits + 1
  /\ UNCHANGED <<acked, interrupted, interrupts, d1, object, uploader, deleter, saver, reader>>

-----------------------------------------------------------------------------
(* Download: GET /api/files/[id] *)

EndRead(g) ==
  /\ gpc' = [gpc EXCEPT ![g] = "idle"]
  /\ gfile' = [gfile EXCEPT ![g] = None]
  /\ gsnap' = [gsnap EXCEPT ![g] = None]
  /\ gbody' = [gbody EXCEPT ![g] = None]
Fetch(g, step) == gpc' = [gpc EXCEPT ![g] = step]

BeginRead(g, f) ==
  /\ gpc[g] = "idle"
  /\ Authorized(g) /\ row[f]
  /\ Fetch(g, "checkDeleted")
  /\ gfile' = [gfile EXCEPT ![g] = f]
  /\ UNCHANGED <<gsnap, gbody, d1, object, payload, uploader, deleter, saver, history>>

CheckDeleted(g) ==
  /\ gpc[g] = "checkDeleted"
  /\ IF status[gfile[g]] # "deleted" THEN Fetch(g, "get") /\ UNCHANGED <<gfile, gsnap, gbody>>
     ELSE EndRead(g)
  /\ UNCHANGED <<d1, object, payload, uploader, deleter, saver, history>>

\* The body is fetched here and sent only after the checks that follow.
Get(g) ==
  /\ gpc[g] = "get"
  /\ IF ObjectMatches(gfile[g])
     THEN /\ Fetch(g, "recheck")
          /\ gbody' = [gbody EXCEPT ![g] = object[gfile[g]]]
          /\ UNCHANGED <<gfile, gsnap>>
     ELSE EndRead(g)
  /\ UNCHANGED <<d1, object, payload, uploader, deleter, saver, history>>

Recheck(g) ==
  /\ gpc[g] = "recheck"
  /\ IF Authorized(g) /\ row[gfile[g]] /\ ledger[gfile[g]] = gbody[g]
     THEN /\ Fetch(g, "final")
          /\ gsnap' = [gsnap EXCEPT ![g] = payload]
          /\ UNCHANGED <<gfile, gbody>>
     ELSE EndRead(g)
  /\ UNCHANGED <<d1, object, payload, uploader, deleter, saver, history>>

\* One SELECT: the row, its ledgers, no tombstone, the payload of the recheck.
ServesRevoked(g) == /\ row[gfile[g]] /\ ledger[gfile[g]] = gbody[g]
                    /\ status[gfile[g]] # "deleted"
Serves(g) == /\ row[gfile[g]] /\ ledger[gfile[g]] = gbody[g]
             /\ status[gfile[g]] # "deleted"
             /\ payload = gsnap[g]

FinalSelect(g) ==
  /\ gpc[g] = "final"
  /\ IF Serves(g) THEN Fetch(g, "served") /\ UNCHANGED <<gfile, gsnap, gbody>>
     ELSE EndRead(g)
  /\ UNCHANGED <<d1, object, payload, uploader, deleter, saver, history>>

\* The response body has been sent; the client may ask again.
EndServed(g) ==
  /\ gpc[g] = "served"
  /\ EndRead(g)
  /\ UNCHANGED <<d1, object, payload, uploader, deleter, saver, history>>

ReadStep(g) == CheckDeleted(g) \/ Get(g) \/ Recheck(g) \/ FinalSelect(g) \/ EndServed(g)

-----------------------------------------------------------------------------
Next ==
  \/ \E u \in Uploaders : BeginUpload(u) \/ UploadStep(u) \/ InterruptUpload(u)
  \/ \E d \in Deleters : \/ \E f \in FileIds : BeginDelete(d, f)
                         \/ DeleteStep(d) \/ InterruptDelete(d)
  \/ \E s \in Savers : (\E f \in FileIds : BeginSave(s, f)) \/ SaveStep(s)
  \/ \E m \in SUBSET Users : SaveMembers(m)
  \/ \E g \in Readers : (\E f \in FileIds : BeginRead(g, f)) \/ ReadStep(g)

Spec == Init /\ [][Next]_vars

\* The code runs a request to its end unless it is interrupted; a client that got
\* no final answer sends the same request again, and so does an administrator
\* whose delete did not answer 204 ("same file, same key" is what every error
\* message of these routes asks for).  Nothing is assumed of downloads, of saves,
\* of who interrupts whom, or of the order in which the requests run.
BeginAnyDelete(d) == \E f \in FileIds : status[f] = "deleted" /\ row[f] /\ BeginDelete(d, f)
Fairness ==
  /\ \A u \in Uploaders : WF_vars(UploadStep(u)) /\ SF_vars(BeginUpload(u))
  /\ \A d \in Deleters : WF_vars(DeleteStep(d)) /\ SF_vars(BeginAnyDelete(d))
FairSpec == Spec /\ Fairness

-----------------------------------------------------------------------------
(* Properties *)

\* A document card of the portal always has its original: whatever uploads,
\* deletes and saves overlap, the row is there, no tombstone, and the bucket
\* holds the bytes the ledgers recorded (the link/delete race that
\* companyDocumentFileProvenanceCommitCondition and fileUnlinkedGuard close).
LinkedOriginalsAreStored ==
  \A f \in payload.linked : Available(f) /\ ObjectMatches(f)

\* A file that is not tombstoned and has a row can be read: late, repeated or
\* interrupted writers never leave the bucket different from the ledgers, and the
\* stored bytes are those the request key was reserved for.
CommittedOriginalsAreIntact ==
  \A f \in FileIds :
    /\ row[f] /\ status[f] # "deleted" => ObjectMatches(f)
    /\ status[f] = "ready" => row[f] /\ ledger[f].bytes = print[f]

\* "Only a durable explicit deletion allows cleanup of bytes written by this
\* in-flight upload": after a completed delete, bytes remain only while a late
\* writer is on its way to remove them, or where a writer was interrupted.
DeletedBytesHaveAnOwner ==
  \A f \in FileIds :
    status[f] = "deleted" /\ ~row[f] /\ object[f] # None =>
      f \in interrupted \/ \E u \in Uploaders : ufile[u] = f /\ upc[u] \in Unsettled

\* 204 is never taken back: the deletion is decided, no card is or will be linked
\* to the file, and its request key is burnt.
DeleteAnswersHold ==
  \A d \in Deleters :
    dpc[d] = "gone" => status[dfile[d]] = "deleted" /\ dfile[d] \notin payload.linked

\* The retries of one upload, from whatever tab and however they overlap, are
\* answered with one file.
OneOriginalPerKey ==
  \A a, b \in acked : a[1] = b[1] => a[2] = b[2]

\* 201 is only ever answered for an original that is stored, undeleted and has
\* the sender's bytes at the moment of the last check.
AcknowledgedMeansStored ==
  [][\A u \in Uploaders :
       acked' # acked /\ upc[u] = "checkReply" /\ upc'[u] = "idle" =>
         /\ status[ufile[u]] = "ready" /\ ObjectMatches(ufile[u])
         /\ object[ufile[u]].bytes = BytesOf[u]]_vars

\* A tombstone is final: no retry, save or download started before it brings the
\* file back, links it, acknowledges it or serves it.
TombstonesAreFinal ==
  [][\A f \in FileIds : status[f] = "deleted" =>
       /\ status'[f] = "deleted" /\ (row'[f] => row[f])
       /\ f \in payload'.linked => f \in payload.linked
       /\ \A k \in Keys : <<k, f>> \in acked' => <<k, f>> \in acked
       /\ \A g \in Readers : gfile[g] = f /\ gpc'[g] = "served" => gpc[g] = "served"]_vars

\* A body fetched before the last look at the ledgers is sent only to an account
\* that may still read it, and only if it is what the ledgers record.
ServedBodiesAreCurrent ==
  [][\A g \in Readers : gpc[g] = "final" /\ gpc'[g] = "served" =>
       /\ Authorized(g) /\ status[gfile[g]] # "deleted" /\ ObjectMatches(gfile[g])
       /\ gbody[g] = object[gfile[g]]]_vars

\* A decided deletion is finished: rows do not stay behind their tombstone.
DeletesComplete ==
  \A f \in FileIds : (status[f] = "deleted" /\ row[f]) ~> ~row[f]

\* An upload whose sender stays authorised and keeps retrying is answered, unless
\* its key was deleted or belongs to other bytes.
UploadsSettle ==
  \A u \in Uploaders : UserOf[u] = Admin =>
    <>(\E f \in FileIds : \/ <<Key[u], f>> \in acked
                          \/ reqKey[f] \in {Key[u]} \cup LegacyKeys[u] /\
                             (status[f] = "deleted" \/ print[f] # BytesOf[u])
                          \/ Cardinality(LegacyRequests(u)) > 1)

-----------------------------------------------------------------------------
(* The inductive invariant *)

\* The ledgers of one file agree with each other and with the bucket.
LedgersInv ==
  \A f \in FileIds :
    /\ status[f] = "none" => reqKey[f] = None /\ (row[f] \/ object[f] = None)
    /\ status[f] \in {"pending", "ready"} => reqKey[f] # None /\ print[f] \in Bytes
    /\ status[f] = "pending" => ~row[f]
    /\ status[f] = "pending" /\ object[f] # None => object[f].bytes = print[f]
    /\ status[f] = "ready" => row[f] /\ ledger[f].bytes = print[f]
    /\ row[f] => ledger[f] # None
    /\ row[f] /\ status[f] # "deleted" => object[f] = ledger[f]

\* One request per key; no card for a file that is not there.
KeysInv  == \A f, g \in FileIds : reqKey[f] = reqKey[g] /\ reqKey[f] # None => f = g
LinksInv == \A f \in payload.linked : row[f] /\ status[f] \in {"none", "ready"}

\* From the lookup of its record to the end, an upload's file is reserved for its
\* key and its bytes; while it may still write, the file was not stored before it.
WriteSteps == {"authPut", "head", "put", "winner"} \cup Unsettled
AnswerSteps == {"readSaved", "authSaved", "authStored", "readStored", "checkSaved",
                "headSaved", "authReply", "checkReply"}
UploadsInv ==
  \A u \in Uploaders :
    /\ upc[u] = "migrate" => status[ufile[u]] # "none" /\ print[ufile[u]] = BytesOf[u]
    /\ upc[u] \notin NoFileSteps \cup {"migrate"} =>
         /\ status[ufile[u]] # "none"
         /\ reqKey[ufile[u]] = Key[u] /\ print[ufile[u]] = BytesOf[u]
    /\ upc[u] \in WriteSteps /\ status[ufile[u]] = "ready" => ledger[ufile[u]] = Sent(u)
    /\ upc[u] \in {"checkWritten", "authCommit", "checkRevoked", "commit", "status"} =>
         object[ufile[u]] = Sent(u) \/ status[ufile[u]] = "deleted"
    /\ upc[u] = "cleanup" => status[ufile[u]] = "deleted"
    /\ upc[u] \in AnswerSteps => status[ufile[u]] \in {"ready", "deleted"}

DeletesInv ==
  \A d \in Deleters :
    /\ dpc[d] \in {"access", "decide", "undecided"} =>
         row[dfile[d]] \/ status[dfile[d]] = "deleted"
    /\ dpc[d] = "decide" => dsnap[d] \in Payload
    /\ dpc[d] = "noRow" => status[dfile[d]] # "none"
    /\ dpc[d] \in {"purgeObject", "purgeRow", "gone"} => status[dfile[d]] = "deleted"

\* Bytes that outlive the decision to delete them have somebody to account for
\* them: a writer, an interrupted writer, or the delete that has not purged yet.
OrphansInv ==
  \A f \in FileIds :
    status[f] = "deleted" /\ object[f] # None =>
      \/ f \in interrupted
      \/ \E u \in Uploaders : ufile[u] = f /\ upc[u] \in Unsettled
      \/ row[f] /\ \A d \in Deleters : dpc[d] = "purgeRow" => dfile[d] # f

IInv == LedgersInv /\ KeysInv /\ LinksInv /\ UploadsInv /\ DeletesInv /\ OrphansInv

\* A key that was answered is a current one and still the key of that file: a
\* migration takes over older spellings only, and no record changes hands.
AnsweredInv ==
  \A a \in acked : (\E u \in Uploaders : a[1] = Key[u]) /\ reqKey[a[2]] = a[1]

\* The payload that the last look of a download asks for admitted its reader.
ReadersInv ==
  \A g \in Readers : gpc[g] = "final" =>
    gsnap[g] \in Payload /\ (UserOf[g] = Admin \/ UserOf[g] \in gsnap[g].members)

-----------------------------------------------------------------------------
(* Refinement: what is promised of a file, FileLifecycle *)

LifeOf(f) == CASE status[f] = "deleted" -> "deleted"
               [] row[f] /\ status[f] # "deleted" -> "stored"
               [] ~row[f] /\ status[f] = "pending" -> "reserved"
               [] OTHER -> "absent"
life    == [f \in FileIds |-> LifeOf(f)]
content == [f \in FileIds |-> IF LifeOf(f) = "stored" THEN object[f] ELSE None]

Lifecycle == INSTANCE FileLifecycle
               WITH Contents <- Stored, linked <- payload.linked

\* Every behaviour of the routes is one of FileLifecycle: what a reader gets of a
\* stored original is fixed by one step, although the bucket is written by several
\* requests, before and after that step, and never together with the ledgers.
ImplementsLifecycle == Lifecycle!Spec
=============================================================================
