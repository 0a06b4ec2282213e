------------------------ MODULE CompanyUploadProofs ------------------------
(***************************************************************************)
(* Proofs about CompanyUpload, for every value of its constants.           *)
(***************************************************************************)
EXTENDS CompanyUpload, TLAPS

\* A file of an earlier version is of one of the shapes of Past.
LEMMA PastType ==
  ASSUME NEW p \in Past
  PROVE  /\ p.status \in Statuses /\ p.reqKey \in Keys \cup {None}
         /\ p.print \in Bytes \cup {None} /\ p.row \in BOOLEAN
         /\ p.object \in Stored \cup {None}
<1>0. OldKeys \subseteq Keys
  BY ConstantsAssumption DEF OldKeys
<1>1. CASE p = Unused
  BY <1>1 DEF Unused, Statuses
<1>2. CASE p \in Unledgered
  BY <1>2 DEF Unledgered, Statuses
<1>3. ASSUME NEW st \in Statuses, NEW b \in BOOLEAN,
             NEW O \in SUBSET (Stored \cup {None}), p \in Requested(st, b, O)
      PROVE  /\ p.status \in Statuses /\ p.reqKey \in Keys \cup {None}
             /\ p.print \in Bytes \cup {None} /\ p.row \in BOOLEAN
             /\ p.object \in Stored \cup {None}
  BY <1>0, <1>3 DEF Requested, Statuses
<1>4. QED
  BY <1>1, <1>2, <1>3 DEF Past, Statuses

\* Types of the variables and of the locals of running requests, together: the
\* steps index the ledgers with the locals.
TypeInv == TypeOK /\ LocalsOK

\* The initial states have the types, whatever earlier versions left behind.
LEMMA InitType == Init => TypeInv
<1> SUFFICES ASSUME Init PROVE TypeInv
  OBVIOUS
<1>1. PICK past \in [FileIds -> Past] :
        /\ status = [f \in FileIds |-> past[f].status]
        /\ reqKey = [f \in FileIds |-> past[f].reqKey]
        /\ print  = [f \in FileIds |-> past[f].print]
        /\ row    = [f \in FileIds |-> past[f].row]
        /\ object = [f \in FileIds |-> past[f].object]
        /\ ledger = [f \in FileIds |-> IF past[f].row THEN past[f].object ELSE None]
  BY DEF Init
<1>2. /\ status \in [FileIds -> Statuses] /\ reqKey \in [FileIds -> Keys \cup {None}]
      /\ print \in [FileIds -> Bytes \cup {None}] /\ row \in [FileIds -> BOOLEAN]
      /\ object \in [FileIds -> Stored \cup {None}]
      /\ ledger \in [FileIds -> Stored \cup {None}]
  BY <1>1, PastType
<1>3. QED
  BY <1>2 DEF Init, TypeInv, TypeOK, LocalsOK, NoFileSteps, UploadSteps, DeleteSteps, SaveSteps, ReadSteps

\* What an upload stores is an object.
LEMMA SentType == \A u \in Uploaders : Sent(u) \in Stored
BY ConstantsAssumption DEF Sent, Stored

\* An upload's own steps keep the types.
LEMMA UploadType ==
  ASSUME TypeInv, NEW u \in Uploaders,
         BeginUpload(u) \/ UploadStep(u) \/ InterruptUpload(u)
  PROVE  TypeInv'
<1> USE DEF TypeInv, TypeOK, LocalsOK, EndUpload, Goto, UploadSteps, Unsettled, NoFileSteps,
            d1, deleter, saver, reader, history
<1>1. CASE BeginUpload(u)
  BY <1>1 DEF BeginUpload
<1>2. CASE FindCurrent(u)
  BY <1>2 DEF FindCurrent
<1>3. CASE FindLegacy(u)
  BY <1>3 DEF FindLegacy, LegacyRequests
<1>4. CASE Migrate(u)
  <2>1. Key[u] \in Keys /\ BytesOf[u] \in Bytes
    BY ConstantsAssumption
  <2>2. reqKey' \in [FileIds -> Keys \cup {None}] /\ print' \in [FileIds -> Bytes \cup {None}]
    BY <1>4, <2>1 DEF Migrate
  <2>3. QED
    BY <1>4, <2>2 DEF Migrate
<1>5. CASE Reserve(u)
  <2>1. Key[u] \in Keys /\ BytesOf[u] \in Bytes
    BY ConstantsAssumption
  <2>2. status' \in [FileIds -> Statuses] /\ reqKey' \in [FileIds -> Keys \cup {None}]
        /\ print' \in [FileIds -> Bytes \cup {None}]
    BY <1>5, <2>1 DEF Reserve, Statuses
  <2>3. QED
    BY <1>5, <2>2 DEF Reserve
<1>6. CASE Lookup(u)
  BY <1>6 DEF Lookup
<1>7. CASE Head(u)
  BY <1>7 DEF Head
<1>8. CASE Put(u)
  <2>1. object' \in [FileIds -> Stored \cup {None}]
    BY <1>8, SentType DEF Put
  <2>2. QED
    BY <1>8, <2>1 DEF Put
<1>9. CASE Winner(u)
  BY <1>9 DEF Winner
<1>10. CASE CheckWritten(u)
  BY <1>10 DEF CheckWritten
<1>11. CASE AuthorizeCommit(u)
  BY <1>11 DEF AuthorizeCommit
<1>12. CASE CheckRevoked(u)
  BY <1>12 DEF CheckRevoked
<1>13. CASE Commit(u)
  <2>1. row' \in [FileIds -> BOOLEAN] /\ status' \in [FileIds -> Statuses]
        /\ ledger' \in [FileIds -> Stored \cup {None}]
    BY <1>13, SentType DEF Commit, Statuses
  <2>2. QED
    BY <1>13, <2>1 DEF Commit
<1>14. CASE ReadStatus(u)
  BY <1>14 DEF ReadStatus
<1>15. CASE Cleanup(u)
  BY <1>15 DEF Cleanup
<1>16. CASE CheckSaved(u)
  BY <1>16 DEF CheckSaved
<1>17. CASE HeadSaved(u)
  BY <1>17 DEF HeadSaved
<1>18. CASE Reply(u)
  <2>1. <<Key[u], ufile[u]>> \in Keys \X FileIds
    BY <1>18, ConstantsAssumption DEF Reply
  <2>2. acked' \subseteq Keys \X FileIds
    BY <1>18, <2>1 DEF Reply
  <2>3. QED
    BY <1>18, <2>2 DEF Reply
<1>19. CASE InterruptUpload(u)
  BY <1>19 DEF InterruptUpload
<1>20. ASSUME NEW from \in UploadSteps \ NoFileSteps, NEW to \in UploadSteps,
               Reauthorize(u, from, to) \/ ReadRow(u, from, to)
        PROVE  TypeInv'
  BY <1>20 DEF Reauthorize, ReadRow
<1>21. QED
  BY <1>1, <1>2, <1>3, <1>4, <1>5, <1>6, <1>7, <1>8, <1>9, <1>10, <1>11, <1>12, <1>13, <1>14, <1>15, <1>16, <1>17, <1>18, <1>19, <1>20 DEF UploadStep

\* A delete's own steps keep the types.
LEMMA DeleteType ==
  ASSUME TypeInv, NEW d \in Deleters,
         (\E f \in FileIds : BeginDelete(d, f)) \/ DeleteStep(d) \/ InterruptDelete(d)
  PROVE  TypeInv'
<1> USE DEF TypeInv, TypeOK, LocalsOK, EndDelete, DeleteSteps, d1, uploader, saver, reader, history
<1>1. CASE \E f \in FileIds : BeginDelete(d, f)
  BY <1>1 DEF BeginDelete
<1>2. CASE NoRow(d)
  BY <1>2 DEF NoRow
<1>3. CASE AccessDelete(d)
  BY <1>3 DEF AccessDelete
<1>4. CASE Decide(d)
  BY <1>4 DEF Decide, Statuses
<1>5. CASE Undecided(d)
  BY <1>5 DEF Undecided
<1>6. CASE PurgeObject(d)
  BY <1>6 DEF PurgeObject
<1>7. CASE PurgeRow(d)
  BY <1>7 DEF PurgeRow
<1>8. CASE InterruptDelete(d)
  BY <1>8 DEF InterruptDelete
<1>9. QED
  BY <1>1, <1>2, <1>3, <1>4, <1>5, <1>6, <1>7, <1>8 DEF DeleteStep

\* A portal save's own steps keep the types.
LEMMA SaveType ==
  ASSUME TypeInv, NEW s \in Savers, (\E f \in FileIds : BeginSave(s, f)) \/ SaveStep(s)
  PROVE  TypeInv'
<1> USE DEF TypeInv, TypeOK, LocalsOK, EndSave, Proceed, SaveSteps, d1, uploader, deleter, reader, history
<1>1. CASE \E f \in FileIds : BeginSave(s, f)
  BY <1>1 DEF BeginSave
<1>2. CASE CheckRow(s)
  BY <1>2 DEF CheckRow
<1>3. CASE CheckObject(s)
  BY <1>3 DEF CheckObject
<1>4. CASE CommitSave(s)
  BY <1>4 DEF CommitSave, Links, Payload
<1>5. QED
  BY <1>1, <1>2, <1>3, <1>4 DEF SaveStep

\* A download's own steps keep the types.
LEMMA ReadType ==
  ASSUME TypeInv, NEW g \in Readers, (\E f \in FileIds : BeginRead(g, f)) \/ ReadStep(g)
  PROVE  TypeInv'
<1> USE DEF TypeInv, TypeOK, LocalsOK, EndRead, Fetch, ReadSteps, d1, uploader, deleter, saver, history
<1>1. CASE \E f \in FileIds : BeginRead(g, f)
  BY <1>1 DEF BeginRead
<1>2. CASE CheckDeleted(g)
  BY <1>2 DEF CheckDeleted
<1>3. CASE Get(g)
  BY <1>3 DEF Get, ObjectMatches
<1>4. CASE Recheck(g)
  BY <1>4 DEF Recheck
<1>5. CASE FinalSelect(g)
  BY <1>5 DEF FinalSelect
<1>6. CASE EndServed(g)
  BY <1>6 DEF EndServed
<1>7. QED
  BY <1>1, <1>2, <1>3, <1>4, <1>5, <1>6 DEF ReadStep

\* A save of the member list keeps the types.
LEMMA MembersType ==
  ASSUME TypeInv, NEW m \in SUBSET Users, SaveMembers(m)
  PROVE  TypeInv'
BY DEF TypeInv, TypeOK, LocalsOK, SaveMembers, Payload, d1, uploader, deleter, saver, reader

\* Every variable of CompanyUpload keeps its type, and so do the locals.
THEOREM TypeCorrect == Spec => [](TypeOK /\ LocalsOK)
<1>1. TypeInv /\ [Next]_vars => TypeInv'
  <2> SUFFICES ASSUME TypeInv, [Next]_vars PROVE TypeInv'
    OBVIOUS
  <2>1. CASE Next
    BY <2>1, UploadType, DeleteType, SaveType, ReadType, MembersType DEF Next
  <2>2. CASE UNCHANGED vars
    BY <2>2 DEF TypeInv, TypeOK, LocalsOK, vars, d1, uploader, deleter, saver, reader, history
  <2>3. QED
    BY <2>1, <2>2
<1>2. QED
  BY InitType, <1>1, PTL DEF Spec, TypeInv

-----------------------------------------------------------------------------
(* The inductive invariant IInv *)

\* A file of an earlier version is consistent on its own.
LEMMA PastConsistent ==
  ASSUME NEW p \in Past
  PROVE  /\ p.status = "none" => p.reqKey = None /\ (p.row \/ p.object = None)
         /\ p.status \in {"pending", "ready"} => p.reqKey # None /\ p.print \in Bytes
         /\ p.status = "pending" => ~p.row
         /\ p.status \in {"pending", "ready"} /\ p.object # None => p.object.bytes = p.print
         /\ p.status = "ready" => p.row
         /\ p.status = "deleted" => ~p.row /\ p.object = None
         /\ p.row => p.object \in Stored
<1> DEFINE Good ==
         /\ p.status = "none" => p.reqKey = None /\ (p.row \/ p.object = None)
         /\ p.status \in {"pending", "ready"} => p.reqKey # None /\ p.print \in Bytes
         /\ p.status = "pending" => ~p.row
         /\ p.status \in {"pending", "ready"} /\ p.object # None => p.object.bytes = p.print
         /\ p.status = "ready" => p.row
         /\ p.status = "deleted" => ~p.row /\ p.object = None
         /\ p.row => p.object \in Stored
<1>0. None \notin OldKeys
  BY ConstantsAssumption DEF OldKeys
<1>1. CASE p = Unused
  BY <1>1 DEF Unused
<1>2. CASE p \in Unledgered
  BY <1>2 DEF Unledgered
<1>3. CASE p \in Requested("pending", FALSE, Stored \cup {None})
  BY <1>0, <1>3 DEF Requested
<1>4. CASE p \in Requested("ready", TRUE, Stored)
  BY <1>0, <1>4 DEF Requested
<1>5. CASE p \in Requested("deleted", FALSE, {None})
  BY <1>5 DEF Requested
<1>6. QED
  BY <1>1, <1>2, <1>3, <1>4, <1>5 DEF Past

\* The invariant holds of every portal an earlier version may have left.
LEMMA InitInv == Init => IInv
<1> SUFFICES ASSUME Init PROVE IInv
  OBVIOUS
<1>0. TypeInv
  BY InitType
<1>1. PICK past \in [FileIds -> Past] :
        /\ \A f, g \in FileIds :
             past[f].reqKey = past[g].reqKey /\ past[f].reqKey # None => f = g
        /\ status = [f \in FileIds |-> past[f].status]
        /\ reqKey = [f \in FileIds |-> past[f].reqKey]
        /\ print  = [f \in FileIds |-> past[f].print]
        /\ row    = [f \in FileIds |-> past[f].row]
        /\ object = [f \in FileIds |-> past[f].object]
        /\ ledger = [f \in FileIds |-> IF past[f].row THEN past[f].object ELSE None]
  BY DEF Init
<1>2. LedgersInv
  <2> SUFFICES ASSUME NEW f \in FileIds
               PROVE  LedgersInv!(f)
    BY DEF LedgersInv
  <2>1. past[f] \in Past
    OBVIOUS
  <2>2. /\ status[f] = past[f].status /\ reqKey[f] = past[f].reqKey
        /\ print[f] = past[f].print /\ row[f] = past[f].row /\ object[f] = past[f].object
        /\ ledger[f] = IF past[f].row THEN past[f].object ELSE None
    BY <1>1
  <2>3. QED
    BY <2>1, <2>2, PastConsistent, NoneAssumption
<1>3. KeysInv
  BY <1>1 DEF KeysInv
<1>4. LinksInv
  <2> SUFFICES ASSUME NEW f \in payload.linked
               PROVE  row[f] /\ status[f] \in {"none", "ready"}
    BY DEF LinksInv
  <2>1. f \in FileIds /\ row[f]
    BY DEF Init, Payload
  <2>2. past[f] \in Past /\ past[f].row /\ status[f] = past[f].status
    BY <1>1, <2>1
  <2>3. QED
    BY <2>1, <2>2, PastConsistent, PastType DEF Statuses
<1>5. UploadsInv
  BY DEF Init, UploadsInv, NoFileSteps, WriteSteps, Unsettled, AnswerSteps
<1>6. DeletesInv
  BY DEF Init, DeletesInv
<1>7. OrphansInv
  <2> SUFFICES ASSUME NEW f \in FileIds, status[f] = "deleted"
               PROVE  object[f] = None
    BY DEF OrphansInv
  <2>1. past[f] \in Past /\ past[f].status = "deleted" /\ object[f] = past[f].object
    BY <1>1
  <2>2. QED
    BY <2>1, PastConsistent
<1>8. QED
  BY <1>2, <1>3, <1>4, <1>5, <1>6, <1>7 DEF IInv

\* A step of an upload that only moves the upload itself: it keeps the invariant
\* if what is claimed of the upload at its new step holds, and if it does not
\* stop accounting for bytes it may have written to a deleted file.
LEMMA LocalStep ==
  ASSUME TypeInv, IInv, NEW u \in Uploaders,
         UNCHANGED <<d1, object, payload, deleter, interrupted>>,
         \A v \in Uploaders \ {u} : upc'[v] = upc[v] /\ ufile'[v] = ufile[v],
         UploadsInv!(u)',
         upc[u] \in Unsettled =>
           status[ufile[u]] # "deleted" \/ (upc'[u] \in Unsettled /\ ufile'[u] = ufile[u])
  PROVE  IInv'
<1>1. LedgersInv' /\ KeysInv' /\ LinksInv' /\ DeletesInv'
  BY DEF IInv, LedgersInv, KeysInv, LinksInv, DeletesInv, d1, deleter
<1>2. UploadsInv'
  <2> SUFFICES ASSUME NEW v \in Uploaders PROVE UploadsInv!(v)'
    BY DEF UploadsInv
  <2>1. CASE v = u
    BY <2>1
  <2>2. CASE v # u
    BY <2>2 DEF IInv, UploadsInv, d1
  <2>3. QED
    BY <2>1, <2>2
<1>3. OrphansInv'
  BY DEF IInv, OrphansInv, d1, deleter
<1>4. QED
  BY <1>1, <1>2, <1>3 DEF IInv

\* An upload that ends claims nothing.
LEMMA EndStep ==
  ASSUME TypeInv, IInv, NEW u \in Uploaders, EndUpload(u),
         UNCHANGED <<d1, object, payload, deleter, interrupted>>,
         upc[u] \in Unsettled => status[ufile[u]] # "deleted"
  PROVE  IInv'
<1>1. upc'[u] = "idle" /\ \A v \in Uploaders \ {u} : upc'[v] = upc[v] /\ ufile'[v] = ufile[v]
  BY DEF TypeInv, TypeOK, EndUpload, Goto
<1>2. UploadsInv!(u)'
  BY <1>1 DEF NoFileSteps, WriteSteps, Unsettled, AnswerSteps
<1>3. QED
  BY <1>1, <1>2, LocalStep

\* The upload's steps that change nothing but itself keep the invariant.
LEMMA UploadLocalInv ==
  ASSUME TypeInv, IInv, NEW u \in Uploaders,
         BeginUpload(u) \/ FindCurrent(u) \/ FindLegacy(u) \/ Lookup(u) \/ Head(u)
           \/ Winner(u) \/ CheckWritten(u) \/ AuthorizeCommit(u) \/ CheckRevoked(u) \/ ReadStatus(u)
           \/ CheckSaved(u) \/ HeadSaved(u) \/ Reply(u)
  PROVE  IInv'
<1> USE DEF TypeInv, TypeOK, LocalsOK, Goto
<1>0. UploadsInv!(u)
  BY DEF IInv, UploadsInv
<1> USE <1>0, LocalStep, EndStep DEF NoFileSteps, WriteSteps, Unsettled, AnswerSteps, UploadSteps
<1>1. CASE BeginUpload(u)
  BY <1>1 DEF BeginUpload, d1, deleter, history
<1>2. CASE FindCurrent(u)
  BY <1>2 DEF FindCurrent, d1, deleter, history
<1>3. CASE FindLegacy(u)
  <2>1. \A f \in LegacyRequests(u) : f \in FileIds /\ status[f] # "none"
    BY ConstantsAssumption DEF LegacyRequests, IInv, LedgersInv
  <2>2. QED
    BY <1>3, <2>1 DEF FindLegacy, Adopts, d1, deleter, history
<1>4. CASE Lookup(u)
  <2>1. CASE EndUpload(u)
    BY <1>4, <2>1 DEF Lookup, d1, deleter, history
  <2>2. CASE ~EndUpload(u)
    <3>1. PICK f \in FileIds :
            /\ Resumes(u, f)
            /\ Goto(u, IF status[f] = "ready" THEN "readSaved" ELSE "authPut")
            /\ ufile' = [ufile EXCEPT ![u] = f] /\ UNCHANGED <<usnap, uhead>>
      BY <1>4, <2>2 DEF Lookup
    <3>2. QED
      BY <1>4, <3>1 DEF Lookup, Resumes, HasRequest, d1, deleter, history
  <2>3. QED
    BY <2>1, <2>2
<1>5. CASE Head(u)
  BY <1>5 DEF Head, d1, deleter, history
<1>6. CASE Winner(u)
  BY <1>6 DEF Winner, d1, deleter, history
<1>7. CASE CheckWritten(u)
  BY <1>7 DEF CheckWritten, d1, deleter, history
<1>8. CASE AuthorizeCommit(u)
  BY <1>8 DEF AuthorizeCommit, d1, deleter, history
<1>9. CASE CheckRevoked(u)
  BY <1>9 DEF CheckRevoked, d1, deleter, history
<1>10. CASE ReadStatus(u)
  BY <1>10 DEF ReadStatus, d1, deleter, history
<1>11. CASE CheckSaved(u)
  BY <1>11 DEF CheckSaved, d1, deleter, history
<1>12. CASE HeadSaved(u)
  BY <1>12 DEF HeadSaved, d1, deleter, history
<1>13. CASE Reply(u)
  BY <1>13 DEF Reply, d1, deleter, history
<1>20. QED
  BY <1>1, <1>2, <1>3, <1>4, <1>5, <1>6, <1>7, <1>8, <1>9, <1>10, <1>11, <1>12, <1>13

\* Two uploads that have the same request record send the same bytes.
LEMMA SameRequestSameBytes ==
  ASSUME TypeInv, IInv, NEW u \in Uploaders, NEW v \in Uploaders,
         upc[u] \notin NoFileSteps, upc[v] \notin NoFileSteps, ufile[u] = ufile[v]
  PROVE  Sent(u) = Sent(v)
BY DEF IInv, UploadsInv, Sent

\* Moving a record to the current spelling of its key keeps the invariant.
LEMMA MigrateInv ==
  ASSUME TypeInv, IInv, NEW u \in Uploaders, Migrate(u)
  PROVE  IInv'
<1> USE DEF TypeInv, TypeOK, LocalsOK, Goto
<1>1. CASE UNCHANGED <<reqKey, print>>
  BY <1>1, LocalStep, EndStep
     DEF Migrate, EndUpload, NoFileSteps, WriteSteps, Unsettled, AnswerSteps, UploadSteps,
         d1, deleter, history
<1>2. CASE ~UNCHANGED <<reqKey, print>>
  <2> DEFINE f == ufile[u]
  <2>1. /\ f \in FileIds /\ reqKey[f] \in LegacyKeys[u] /\ status[f] \notin {"none", "deleted"}
        /\ \A g \in FileIds : reqKey[g] # Key[u]
        /\ reqKey' = [reqKey EXCEPT ![f] = Key[u]]
        /\ print' = [print EXCEPT ![f] = BytesOf[u]] /\ print[f] = BytesOf[u]
        /\ upc' = [upc EXCEPT ![u] = "reserve"] /\ ufile' = [ufile EXCEPT ![u] = None]
        /\ UNCHANGED <<status, row, ledger, object, payload, deleter, interrupted>>
    BY <1>2 DEF Migrate, HasRequest, NoFileSteps, history, IInv, UploadsInv
  <2>2. Key[u] \in Keys /\ Key[u] # None
    BY ConstantsAssumption
  <2>9. \A g \in FileIds : print'[g] = print[g]
    BY <2>1
  <2>3. LedgersInv'
    BY <2>1, <2>2, <2>9 DEF IInv, LedgersInv
  <2>4. KeysInv'
    BY <2>1, <2>2 DEF IInv, KeysInv
  <2>5. LinksInv' /\ DeletesInv'
    BY <2>1 DEF IInv, LinksInv, DeletesInv, deleter
  <2>6. UploadsInv'
    <3> SUFFICES ASSUME NEW v \in Uploaders PROVE UploadsInv!(v)'
      BY DEF UploadsInv
    <3>1. CASE v = u
      BY <2>1, <3>1 DEF NoFileSteps, WriteSteps, Unsettled, AnswerSteps
    <3>2. CASE v # u
      <4>1. upc'[v] = upc[v] /\ ufile'[v] = ufile[v]
        BY <2>1, <3>2
      <4>2. upc[v] \notin NoFileSteps \cup {"migrate"} => ufile[v] # f
        BY <2>1, KeyVariantsAssumption DEF IInv, UploadsInv
      <4>3. QED
        BY <2>1, <2>2, <2>9, <4>1, <4>2 DEF IInv, UploadsInv, NoFileSteps, WriteSteps, Unsettled, AnswerSteps, Sent
    <3>3. QED
      BY <3>1, <3>2
  <2>7. OrphansInv'
    BY <2>1 DEF IInv, OrphansInv, Unsettled, deleter
  <2>8. QED
    BY <2>3, <2>4, <2>5, <2>6, <2>7 DEF IInv
<1>3. QED
  BY <1>1, <1>2

\* Reserving a fresh identifier for a key keeps the invariant.
LEMMA ReserveInv ==
  ASSUME TypeInv, IInv, NEW u \in Uploaders, Reserve(u)
  PROVE  IInv'
<1> USE DEF TypeInv, TypeOK, LocalsOK, Goto
<1>1. CASE UNCHANGED <<status, reqKey, print>>
  BY <1>1, LocalStep
     DEF Reserve, NoFileSteps, WriteSteps, Unsettled, AnswerSteps, UploadSteps, d1, deleter, history
<1>2. CASE ~UNCHANGED <<status, reqKey, print>>
  <2>1. PICK f \in FileIds :
          /\ status[f] = "none" /\ ~row[f] /\ \A g \in FileIds : reqKey[g] # Key[u]
          /\ status' = [status EXCEPT ![f] = "pending"]
          /\ reqKey' = [reqKey EXCEPT ![f] = Key[u]]
          /\ print' = [print EXCEPT ![f] = BytesOf[u]]
          /\ upc[u] = "reserve" /\ upc' = [upc EXCEPT ![u] = "lookup"]
          /\ UNCHANGED <<ufile, row, ledger, object, payload, deleter, interrupted>>
    BY <1>2 DEF Reserve, Reserves, HasRequest, history
  <2>2. Key[u] \in Keys /\ Key[u] # None /\ BytesOf[u] \in Bytes
    BY ConstantsAssumption
  <2>3. LedgersInv'
    BY <2>1, <2>2 DEF IInv, LedgersInv
  <2>4. KeysInv'
    BY <2>1, <2>2 DEF IInv, KeysInv
  <2>5. LinksInv' /\ DeletesInv'
    BY <2>1 DEF IInv, LinksInv, DeletesInv, deleter
  <2>6. UploadsInv'
    BY <2>1 DEF IInv, UploadsInv, NoFileSteps, WriteSteps, Unsettled, AnswerSteps, Sent
  <2>7. OrphansInv'
    BY <2>1 DEF IInv, OrphansInv, Unsettled, deleter
  <2>8. QED
    BY <2>3, <2>4, <2>5, <2>6, <2>7 DEF IInv
<1>3. QED
  BY <1>1, <1>2

\* A conditional put keeps the invariant: whoever wins, the bytes are the same.
LEMMA PutInv ==
  ASSUME TypeInv, IInv, NEW u \in Uploaders, Put(u)
  PROVE  IInv'
<1> USE DEF TypeInv, TypeOK, LocalsOK, Goto
<1> DEFINE f == ufile[u]
<1>0. UploadsInv!(u) /\ f \in FileIds /\ upc[u] = "put"
  BY DEF IInv, UploadsInv, Put, NoFileSteps
<1>1. CASE UNCHANGED object
  BY <1>0, <1>1, LocalStep
     DEF Put, NoFileSteps, WriteSteps, Unsettled, AnswerSteps, UploadSteps, d1, deleter, history
<1>2. CASE ~UNCHANGED object
  <2>1. /\ object' = [object EXCEPT ![f] = Sent(u)]
        /\ upc' = [upc EXCEPT ![u] = "checkWritten"]
        /\ UNCHANGED <<ufile, status, reqKey, print, row, ledger, payload, deleter, interrupted>>
    BY <1>2 DEF Put, d1, history
  <2>2. /\ status[f] # "none" /\ print[f] = BytesOf[u]
        /\ status[f] = "ready" => ledger[f] = Sent(u)
    BY <1>0 DEF NoFileSteps, WriteSteps
  <2>3. Sent(u).bytes = BytesOf[u]
    BY DEF Sent
  <2>4. LedgersInv'
    <3> SUFFICES ASSUME NEW g \in FileIds PROVE LedgersInv!(g)'
      BY DEF LedgersInv
    <3>1. CASE g # f
      BY <2>1, <3>1 DEF IInv, LedgersInv
    <3>2. CASE g = f
      BY <1>0, <2>1, <2>2, <2>3, <3>2 DEF IInv, LedgersInv, Statuses
    <3>3. QED
      BY <3>1, <3>2
  <2>5. KeysInv' /\ LinksInv' /\ DeletesInv'
    BY <2>1 DEF IInv, KeysInv, LinksInv, DeletesInv, deleter
  <2>6. UploadsInv'
    <3> SUFFICES ASSUME NEW v \in Uploaders PROVE UploadsInv!(v)'
      BY DEF UploadsInv
    <3>1. CASE v = u
      BY <1>0, <2>1, <3>1 DEF NoFileSteps, WriteSteps, Unsettled, AnswerSteps, UploadSteps, Sent
    <3>2. CASE v # u
      <4>1. upc'[v] = upc[v] /\ Sent(v)' = Sent(v) /\ UploadsInv!(v)
        BY <2>1, <3>2 DEF IInv, UploadsInv, Sent
      <4>2. upc[v] \in Unsettled /\ ufile[v] = f => Sent(v) = Sent(u)
        BY <1>0, SameRequestSameBytes DEF NoFileSteps, Unsettled
      <4>3. upc[v] \in Unsettled => ufile[v] \in FileIds
        BY DEF NoFileSteps, Unsettled
      <4>4. QED
        BY <2>1, <4>1, <4>2, <4>3 DEF Unsettled
    <3>3. QED
      BY <3>1, <3>2
  <2>7. OrphansInv'
    <3> SUFFICES ASSUME NEW g \in FileIds PROVE OrphansInv!(g)'
      BY DEF OrphansInv
    <3>1. CASE g = f
      BY <1>0, <2>1, <3>1 DEF Unsettled
    <3>2. CASE g # f
      BY <1>0, <2>1, <3>2 DEF IInv, OrphansInv, Unsettled, deleter
    <3>3. QED
      BY <3>1, <3>2
  <2>8. QED
    BY <2>4, <2>5, <2>6, <2>7 DEF IInv
<1>3. QED
  BY <1>1, <1>2

\* The commit keeps the invariant: what it records is what is in the bucket.
LEMMA CommitInv ==
  ASSUME TypeInv, IInv, NEW u \in Uploaders, Commit(u)
  PROVE  IInv'
<1> USE DEF TypeInv, TypeOK, LocalsOK, Goto
<1> DEFINE f == ufile[u]
<1>0. UploadsInv!(u) /\ f \in FileIds /\ upc[u] = "commit"
  BY DEF IInv, UploadsInv, Commit, NoFileSteps
<1>1. CASE UNCHANGED <<row, ledger, status>>
  BY <1>0, <1>1, LocalStep
     DEF Commit, NoFileSteps, WriteSteps, Unsettled, AnswerSteps, UploadSteps, d1, deleter, history
<1>2. CASE ~UNCHANGED <<row, ledger, status>>
  <2>1. /\ status[f] = "pending" /\ status' = [status EXCEPT ![f] = "ready"]
        /\ row' = [row EXCEPT ![f] = TRUE] /\ ledger' = [ledger EXCEPT ![f] = Sent(u)]
        /\ upc' = [upc EXCEPT ![u] = "status"]
        /\ UNCHANGED <<ufile, reqKey, print, object, payload, deleter, interrupted>>
    BY <1>2 DEF Commit, Commits, history
  <2>2. /\ print[f] = BytesOf[u] /\ object[f] = Sent(u) /\ Sent(u).bytes = BytesOf[u]
        /\ Sent(u) # None
    BY <1>0, <2>1, SentType, NoneAssumption DEF NoFileSteps, Sent, Unsettled
  <2>3. LedgersInv'
    <3> SUFFICES ASSUME NEW g \in FileIds PROVE LedgersInv!(g)'
      BY DEF LedgersInv
    <3>1. CASE g # f
      BY <2>1, <3>1 DEF IInv, LedgersInv
    <3>2. CASE g = f
      BY <1>0, <2>1, <2>2, <3>2 DEF IInv, LedgersInv
    <3>3. QED
      BY <3>1, <3>2
  <2>4. KeysInv' /\ DeletesInv'
    BY <2>1 DEF IInv, KeysInv, DeletesInv, deleter
  <2>5. LinksInv'
    BY <2>1 DEF IInv, LinksInv, Payload
  <2>6. UploadsInv'
    <3> SUFFICES ASSUME NEW v \in Uploaders PROVE UploadsInv!(v)'
      BY DEF UploadsInv
    <3>1. UploadsInv!(v) /\ Sent(v)' = Sent(v)
      BY DEF IInv, UploadsInv, Sent
    <3>2. CASE v = u
      BY <1>0, <2>1, <2>2, <3>1, <3>2
         DEF NoFileSteps, WriteSteps, Unsettled, AnswerSteps, UploadSteps
    <3>3. CASE v # u
      <4>1. upc'[v] = upc[v]
        BY <2>1, <3>3
      <4>2. upc[v] \in WriteSteps /\ ufile[v] = f => Sent(v) = Sent(u)
        BY <1>0, SameRequestSameBytes DEF NoFileSteps, WriteSteps, Unsettled
      <4>3. upc[v] \notin NoFileSteps => ufile[v] \in FileIds
        OBVIOUS
      <4>4. QED
        BY <2>1, <3>1, <4>1, <4>2, <4>3 DEF NoFileSteps, WriteSteps, Unsettled, AnswerSteps
    <3>4. QED
      BY <3>2, <3>3
  <2>7. OrphansInv'
    BY <1>0, <2>1 DEF IInv, OrphansInv, Unsettled, deleter
  <2>8. QED
    BY <2>3, <2>4, <2>5, <2>6, <2>7 DEF IInv
<1>3. QED
  BY <1>1, <1>2

\* Removing what was written to a deleted file keeps the invariant.
LEMMA CleanupInv ==
  ASSUME TypeInv, IInv, NEW u \in Uploaders, Cleanup(u)
  PROVE  IInv'
<1> USE DEF TypeInv, TypeOK, LocalsOK, Goto
<1> DEFINE f == ufile[u]
<1>1. /\ f \in FileIds /\ status[f] = "deleted" /\ object' = [object EXCEPT ![f] = None]
      /\ upc[u] = "cleanup" /\ upc' = [upc EXCEPT ![u] = "idle"]
      /\ ufile' = [ufile EXCEPT ![u] = None]
      /\ UNCHANGED <<status, reqKey, print, row, ledger, payload, deleter, interrupted>>
  BY DEF IInv, UploadsInv, Cleanup, EndUpload, NoFileSteps, d1, history
<1>2. LedgersInv' /\ KeysInv' /\ LinksInv' /\ DeletesInv'
  BY <1>1 DEF IInv, LedgersInv, KeysInv, LinksInv, DeletesInv, deleter
<1>3. UploadsInv'
  <2> SUFFICES ASSUME NEW v \in Uploaders PROVE UploadsInv!(v)'
    BY DEF UploadsInv
  <2>1. CASE v = u
    BY <1>1, <2>1 DEF NoFileSteps, WriteSteps, Unsettled, AnswerSteps
  <2>2. CASE v # u
    <3>1. UploadsInv!(v) /\ upc'[v] = upc[v] /\ ufile'[v] = ufile[v] /\ Sent(v)' = Sent(v)
      BY <1>1, <2>2 DEF IInv, UploadsInv, Sent
    <3>2. upc[v] \notin NoFileSteps => object'[ufile[v]] = object[ufile[v]] \/ ufile[v] = f
      BY <1>1
    <3>3. QED
      BY <1>1, <3>1, <3>2 DEF NoFileSteps
  <2>3. QED
    BY <2>1, <2>2
<1>4. OrphansInv'
  BY <1>1 DEF IInv, OrphansInv, Unsettled, deleter
<1>5. QED
  BY <1>2, <1>3, <1>4 DEF IInv

\* A crashed upload is remembered for the bytes it may leave behind.
LEMMA InterruptInv ==
  ASSUME TypeInv, IInv, NEW u \in Uploaders, InterruptUpload(u)
  PROVE  IInv'
<1> USE DEF TypeInv, TypeOK, LocalsOK, Goto
<1>1. /\ upc' = [upc EXCEPT ![u] = "idle"] /\ ufile' = [ufile EXCEPT ![u] = None]
      /\ interrupted \subseteq interrupted'
      /\ upc[u] \in Unsettled => ufile[u] \in interrupted'
      /\ UNCHANGED <<status, reqKey, print, row, ledger, object, payload, deleter>>
  BY DEF InterruptUpload, EndUpload, d1
<1>2. LedgersInv' /\ KeysInv' /\ LinksInv' /\ DeletesInv'
  BY <1>1 DEF IInv, LedgersInv, KeysInv, LinksInv, DeletesInv, deleter
<1>3. UploadsInv'
  <2> SUFFICES ASSUME NEW v \in Uploaders PROVE UploadsInv!(v)'
    BY DEF UploadsInv
  <2>1. CASE v = u
    BY <1>1, <2>1 DEF NoFileSteps, WriteSteps, Unsettled, AnswerSteps
  <2>2. CASE v # u
    BY <1>1, <2>2 DEF IInv, UploadsInv, Sent
  <2>3. QED
    BY <2>1, <2>2
<1>4. OrphansInv'
  BY <1>1 DEF IInv, OrphansInv, Unsettled, deleter
<1>5. QED
  BY <1>2, <1>3, <1>4 DEF IInv

\* Every step of an upload keeps the invariant.
LEMMA UploadInv ==
  ASSUME TypeInv, IInv, NEW u \in Uploaders,
         BeginUpload(u) \/ UploadStep(u) \/ InterruptUpload(u)
  PROVE  IInv'
<1>1. ASSUME NEW from \in UploadSteps, NEW to \in UploadSteps,
             Reauthorize(u, from, to) \/ ReadRow(u, from, to),
             \/ from \in AnswerSteps /\ to \in AnswerSteps
             \/ from = "authPut" /\ to = "head"
      PROVE  IInv'
  <2> USE DEF TypeInv, TypeOK, LocalsOK, Goto
  <2>1. UploadsInv!(u)
    BY DEF IInv, UploadsInv
  <2>2. QED
    BY <1>1, <2>1, LocalStep, EndStep
       DEF Reauthorize, ReadRow, NoFileSteps, WriteSteps, Unsettled, AnswerSteps, UploadSteps,
           d1, deleter, history
<1>2. QED
  BY <1>1, UploadLocalInv, MigrateInv, ReserveInv, PutInv, CommitInv, CleanupInv, InterruptInv
     DEF UploadStep, AnswerSteps, UploadSteps

\* Every step of a delete keeps the invariant.
LEMMA DeleteInv ==
  ASSUME TypeInv, IInv, NEW d \in Deleters,
         (\E f \in FileIds : BeginDelete(d, f)) \/ DeleteStep(d) \/ InterruptDelete(d)
  PROVE  IInv'
<1> USE DEF TypeInv, TypeOK, LocalsOK, DeleteSteps
<1>1. ASSUME UNCHANGED <<d1, object, payload, uploader, interrupted>>,
             dpc'[d] # "purgeRow",
             \A e \in Deleters \ {d} : /\ dpc'[e] = dpc[e] /\ dfile'[e] = dfile[e]
                                     /\ dsnap'[e] = dsnap[e],
             DeletesInv!(d)'
      PROVE  IInv'
  <2>1. LedgersInv' /\ KeysInv' /\ LinksInv'
    BY <1>1 DEF IInv, LedgersInv, KeysInv, LinksInv, d1
  <2>2. UploadsInv'
    BY <1>1 DEF IInv, UploadsInv, Sent, d1, uploader
  <2>3. DeletesInv'
    <3> SUFFICES ASSUME NEW e \in Deleters PROVE DeletesInv!(e)'
      BY DEF DeletesInv
    <3>1. CASE e = d
      BY <1>1, <3>1
    <3>2. CASE e # d
      BY <1>1, <3>2 DEF IInv, DeletesInv, d1
    <3>3. QED
      BY <3>1, <3>2
  <2>4. OrphansInv'
    BY <1>1 DEF IInv, OrphansInv, d1, uploader
  <2>5. QED
    BY <2>1, <2>2, <2>3, <2>4 DEF IInv
<1>2. CASE (\E f \in FileIds : BeginDelete(d, f)) \/ NoRow(d) \/ AccessDelete(d)
           \/ Undecided(d) \/ InterruptDelete(d)
  <2>1. DeletesInv!(d) /\ (dpc[d] # "idle" => status[dfile[d]] \in Statuses)
    BY DEF IInv, DeletesInv
  <2>2. QED
    BY <1>1, <1>2, <2>1
       DEF BeginDelete, NoRow, AccessDelete, Undecided, InterruptDelete, EndDelete, Statuses,
           d1, uploader, history
<1>3. CASE Decide(d)
  <2> DEFINE f == dfile[d]
  <2>0. DeletesInv!(d) /\ f \in FileIds /\ dpc[d] = "decide"
    BY <1>3 DEF IInv, DeletesInv, Decide
  <2>1. CASE UNCHANGED status
    <3>1. CASE dpc'[d] = "undecided"
      BY <1>1, <1>3, <2>0, <2>1, <3>1 DEF Decide, d1, uploader, history
    <3>2. CASE dpc'[d] = "purgeObject"
      <4>1. status'[f] = "deleted"
        BY <1>3, <2>0, <3>2 DEF Decide
      <4>2. QED
        BY <1>1, <1>3, <2>0, <2>1, <3>2, <4>1 DEF Decide, d1, uploader, history
    <3>3. QED
      BY <1>3, <3>1, <3>2 DEF Decide
  <2>2. CASE ~UNCHANGED status
    <3>1. /\ row[f] /\ f \notin payload.linked /\ status' = [status EXCEPT ![f] = "deleted"]
          /\ dpc' = [dpc EXCEPT ![d] = "purgeObject"]
          /\ \A e \in Deleters \ {d} : dsnap'[e] = dsnap[e]
          /\ UNCHANGED <<dfile, reqKey, print, row, ledger, object, payload, uploader, interrupted>>
      BY <1>3, <2>2 DEF Decide, Decides, history
    <3>2. status[f] # "deleted"
      BY <2>0, <2>2, <3>1
    <3>3. LedgersInv' /\ KeysInv'
      BY <3>1 DEF IInv, LedgersInv, KeysInv
    <3>4. LinksInv'
      BY <3>1 DEF IInv, LinksInv, Payload
    <3>5. UploadsInv'
      <4> SUFFICES ASSUME NEW v \in Uploaders PROVE UploadsInv!(v)'
        BY DEF UploadsInv
      <4>1. /\ UploadsInv!(v) /\ upc'[v] = upc[v] /\ ufile'[v] = ufile[v] /\ Sent(v)' = Sent(v)
            /\ upc[v] \notin NoFileSteps => ufile[v] \in FileIds
        BY <3>1 DEF IInv, UploadsInv, Sent, uploader
      <4>2. QED
        BY <3>1, <4>1 DEF NoFileSteps, WriteSteps, Unsettled, AnswerSteps
    <3>6. DeletesInv'
      BY <2>0, <3>1 DEF IInv, DeletesInv
    <3>7. OrphansInv'
      BY <2>0, <3>1, <3>2 DEF IInv, OrphansInv, DeletesInv, uploader
    <3>8. QED
      BY <3>3, <3>4, <3>5, <3>6, <3>7 DEF IInv
  <2>3. QED
    BY <2>1, <2>2
<1>4. CASE PurgeObject(d)
  <2> DEFINE f == dfile[d]
  <2>1. /\ f \in FileIds /\ status[f] = "deleted" /\ object' = [object EXCEPT ![f] = None]
        /\ dpc' = [dpc EXCEPT ![d] = "purgeRow"]
        /\ UNCHANGED <<dfile, dsnap, status, reqKey, print, row, ledger, payload, uploader,
                       interrupted>>
    BY <1>4 DEF IInv, DeletesInv, PurgeObject, d1, history
  <2>2. LedgersInv' /\ KeysInv' /\ LinksInv'
    BY <2>1 DEF IInv, LedgersInv, KeysInv, LinksInv
  <2>3. UploadsInv'
    <3> SUFFICES ASSUME NEW v \in Uploaders PROVE UploadsInv!(v)'
      BY DEF UploadsInv
    <3>1. /\ UploadsInv!(v) /\ upc'[v] = upc[v] /\ ufile'[v] = ufile[v] /\ Sent(v)' = Sent(v)
          /\ upc[v] \notin NoFileSteps => ufile[v] \in FileIds
      BY <2>1 DEF IInv, UploadsInv, Sent, uploader
    <3>2. QED
      BY <2>1, <3>1 DEF NoFileSteps
  <2>4. DeletesInv'
    BY <2>1 DEF IInv, DeletesInv
  <2>5. OrphansInv'
    BY <2>1 DEF IInv, OrphansInv, uploader
  <2>6. QED
    BY <2>2, <2>3, <2>4, <2>5 DEF IInv
<1>5. CASE PurgeRow(d)
  <2> DEFINE f == dfile[d]
  <2>1. /\ f \in FileIds /\ status[f] = "deleted" /\ row' = [row EXCEPT ![f] = FALSE]
        /\ ledger' = [ledger EXCEPT ![f] = None]
        /\ dpc[d] = "purgeRow" /\ dpc' = [dpc EXCEPT ![d] = "gone"] /\ dfile' = dfile
        /\ \A e \in Deleters \ {d} : dsnap'[e] = dsnap[e]
        /\ UNCHANGED <<status, reqKey, print, object, payload, uploader, interrupted>>
    BY <1>5 DEF IInv, DeletesInv, PurgeRow, EndDelete, history
  <2>2. LedgersInv' /\ KeysInv'
    BY <2>1 DEF IInv, LedgersInv, KeysInv
  <2>3. LinksInv'
    BY <2>1 DEF IInv, LinksInv, Payload
  <2>4. UploadsInv'
    <3> SUFFICES ASSUME NEW v \in Uploaders PROVE UploadsInv!(v)'
      BY DEF UploadsInv
    <3>1. /\ UploadsInv!(v) /\ upc'[v] = upc[v] /\ ufile'[v] = ufile[v] /\ Sent(v)' = Sent(v)
          /\ upc[v] \notin NoFileSteps => ufile[v] \in FileIds
      BY <2>1 DEF IInv, UploadsInv, Sent, uploader
    <3>2. QED
      BY <2>1, <3>1 DEF NoFileSteps, WriteSteps, Unsettled
  <2>5. DeletesInv'
    <3> SUFFICES ASSUME NEW e \in Deleters PROVE DeletesInv!(e)'
      BY DEF DeletesInv
    <3>1. DeletesInv!(e) /\ (dpc[e] # "idle" => dfile[e] \in FileIds)
      BY DEF IInv, DeletesInv
    <3>2. CASE e = d
      BY <2>1, <3>2
    <3>3. CASE e # d
      BY <2>1, <3>1, <3>3
    <3>4. QED
      BY <3>2, <3>3
  <2>6. OrphansInv'
    BY <2>1 DEF IInv, OrphansInv, uploader
  <2>7. QED
    BY <2>2, <2>3, <2>4, <2>5, <2>6 DEF IInv
<1>6. QED
  BY <1>2, <1>3, <1>4, <1>5 DEF DeleteStep

\* Every step of a portal save, of a download and of the member list keeps it.
LEMMA OthersInv ==
  ASSUME TypeInv, IInv,
         \/ \E s \in Savers : (\E f \in FileIds : BeginSave(s, f)) \/ SaveStep(s)
         \/ \E m \in SUBSET Users : SaveMembers(m)
         \/ \E g \in Readers : (\E f \in FileIds : BeginRead(g, f)) \/ ReadStep(g)
  PROVE  IInv'
<1>1. /\ UNCHANGED <<d1, object, uploader, deleter, interrupted>>
      /\ \A f \in payload'.linked : f \in payload.linked \/ Available(f)
  <2>1. CASE \E s \in Savers : (\E f \in FileIds : BeginSave(s, f)) \/ SaveStep(s)
    BY <2>1 DEF BeginSave, SaveStep, CheckRow, CheckObject, CommitSave, Links, TypeInv, TypeOK,
                Payload, history
  <2>2. CASE \E m \in SUBSET Users : SaveMembers(m)
    BY <2>2 DEF SaveMembers, TypeInv, TypeOK, Payload
  <2>3. CASE \E g \in Readers : (\E f \in FileIds : BeginRead(g, f)) \/ ReadStep(g)
    BY <2>3 DEF BeginRead, ReadStep, CheckDeleted, Get, Recheck, FinalSelect, EndServed, history
  <2>4. QED
    BY <2>1, <2>2, <2>3
<1>2. LedgersInv' /\ KeysInv' /\ UploadsInv' /\ DeletesInv' /\ OrphansInv'
  BY <1>1 DEF IInv, LedgersInv, KeysInv, UploadsInv, DeletesInv, OrphansInv, Sent,
              d1, uploader, deleter
<1>3. LinksInv'
  BY <1>1 DEF IInv, LinksInv, Available, d1
<1>4. QED
  BY <1>2, <1>3 DEF IInv

\* What every step starts from.
Consistent == TypeInv /\ IInv

\* The ledgers, the bucket, the cards and the requests in flight always agree in
\* the way IInv says, for any number of files, requests, interruptions and edits.
THEOREM InvariantHolds == Spec => []IInv
<1>1. Consistent /\ [Next]_vars => IInv'
  <2> SUFFICES ASSUME Consistent, [Next]_vars PROVE IInv'
    OBVIOUS
  <2>1. CASE Next
    BY <2>1, UploadInv, DeleteInv, OthersInv DEF Next, Consistent
  <2>2. CASE UNCHANGED vars
    <3>1. LedgersInv' /\ KeysInv' /\ LinksInv'
      BY <2>2 DEF Consistent, IInv, LedgersInv, KeysInv, LinksInv, vars, d1
    <3>2. UploadsInv' /\ DeletesInv' /\ OrphansInv'
      BY <2>2 DEF Consistent, IInv, UploadsInv, DeletesInv, OrphansInv, Sent, vars, d1, uploader,
                  deleter, history
    <3>3. QED
      BY <3>1, <3>2 DEF IInv
  <2>3. QED
    BY <2>1, <2>2
<1>2. QED
  BY InitInv, <1>1, TypeCorrect, PTL DEF Spec, Consistent, TypeInv

\* A document card always has its original, readable as recorded.
THEOREM LinkedOriginals == Spec => []LinkedOriginalsAreStored
<1>1. TypeInv /\ IInv => LinkedOriginalsAreStored
  <2> SUFFICES ASSUME TypeInv, IInv, NEW f \in payload.linked
               PROVE  Available(f) /\ ObjectMatches(f)
    BY DEF LinkedOriginalsAreStored
  <2>1. f \in FileIds
    BY DEF TypeInv, TypeOK, Payload
  <2>2. QED
    BY <2>1 DEF IInv, LinksInv, LedgersInv, Available, ObjectMatches
<1>2. QED
  BY <1>1, InvariantHolds, TypeCorrect, PTL DEF TypeInv

\* A stored, undeleted original is in the bucket exactly as the ledgers say, and
\* has the bytes its key was reserved for.
THEOREM CommittedOriginals == Spec => []CommittedOriginalsAreIntact
<1>1. IInv => CommittedOriginalsAreIntact
  BY DEF IInv, LedgersInv, CommittedOriginalsAreIntact, ObjectMatches
<1>2. QED
  BY <1>1, InvariantHolds, PTL

\* Bytes of a purged file have a writer who will remove them or was interrupted.
THEOREM DeletedBytes == Spec => []DeletedBytesHaveAnOwner
<1>1. IInv => DeletedBytesHaveAnOwner
  BY DEF IInv, OrphansInv, DeletedBytesHaveAnOwner
<1>2. QED
  BY <1>1, InvariantHolds, PTL

\* A delete that answered 204 was decided, and no card refers to its file.
THEOREM DeleteAnswers == Spec => []DeleteAnswersHold
<1>1. TypeInv /\ IInv => DeleteAnswersHold
  BY DEF IInv, DeletesInv, LinksInv, DeleteAnswersHold
<1>2. QED
  BY <1>1, InvariantHolds, TypeCorrect, PTL DEF TypeInv

-----------------------------------------------------------------------------
(* Who was answered *)

\* An upload changes the key of a record only when it takes over one under an older
\* spelling, or reserves a new one; only its own answer adds to the answers.
LEMMA UploadAnswers ==
  ASSUME TypeInv, IInv, AnsweredInv, NEW u \in Uploaders,
         BeginUpload(u) \/ UploadStep(u) \/ InterruptUpload(u)
  PROVE  AnsweredInv'
<1> USE DEF TypeInv, TypeOK, LocalsOK
<1>0. CASE UNCHANGED <<reqKey, acked>>
  BY <1>0 DEF AnsweredInv
<1>1. CASE Migrate(u)
  <2>1. CASE UNCHANGED reqKey
    BY <1>0, <1>1, <2>1 DEF Migrate, history
  <2>2. CASE ~UNCHANGED reqKey
    <3>1. /\ reqKey[ufile[u]] \in LegacyKeys[u] /\ acked' = acked
          /\ reqKey' = [reqKey EXCEPT ![ufile[u]] = Key[u]]
      BY <1>1, <2>2 DEF Migrate, history
    <3>2. \A a \in acked : a[2] \in FileIds /\ a[2] # ufile[u]
      BY <3>1, KeyVariantsAssumption DEF AnsweredInv
    <3>3. QED
      BY <3>1, <3>2 DEF AnsweredInv
  <2>3. QED
    BY <2>1, <2>2
<1>2. CASE Reserve(u)
  <2>1. CASE UNCHANGED reqKey
    BY <1>0, <1>2, <2>1 DEF Reserve, history
  <2>2. CASE ~UNCHANGED reqKey
    <3>1. PICK f \in FileIds : /\ status[f] = "none" /\ acked' = acked
                               /\ reqKey' = [reqKey EXCEPT ![f] = Key[u]]
      BY <1>2, <2>2 DEF Reserve, history
    <3>2. \A a \in acked : a[2] \in FileIds /\ a[2] # f
      BY <3>1, ConstantsAssumption DEF AnsweredInv, IInv, LedgersInv
    <3>3. QED
      BY <3>1, <3>2 DEF AnsweredInv
  <2>3. QED
    BY <2>1, <2>2
<1>3. CASE Reply(u)
  <2>1. reqKey[ufile[u]] = Key[u]
    BY <1>3 DEF Reply, IInv, UploadsInv, NoFileSteps
  <2>2. acked' \subseteq acked \cup {<<Key[u], ufile[u]>>} /\ reqKey' = reqKey
    BY <1>3 DEF Reply, d1
  <2>3. QED
    BY <2>1, <2>2 DEF AnsweredInv
<1>4. CASE BeginUpload(u) \/ FindCurrent(u) \/ FindLegacy(u) \/ Lookup(u) \/ Head(u) \/ Put(u)
           \/ Winner(u) \/ CheckWritten(u) \/ AuthorizeCommit(u) \/ CheckRevoked(u) \/ Commit(u)
           \/ ReadStatus(u) \/ Cleanup(u) \/ CheckSaved(u) \/ HeadSaved(u) \/ InterruptUpload(u)
  BY <1>0, <1>4 DEF BeginUpload, FindCurrent, FindLegacy, Lookup, Head, Put, Winner,
              CheckWritten, AuthorizeCommit, CheckRevoked, Commit, ReadStatus, Cleanup,
              CheckSaved, HeadSaved, InterruptUpload, d1, history
<1>5. ASSUME NEW from, NEW to, Reauthorize(u, from, to) \/ ReadRow(u, from, to)
      PROVE  UNCHANGED <<reqKey, acked>>
  BY <1>5 DEF Reauthorize, ReadRow, d1, history
<1>6. QED
  BY <1>0, <1>1, <1>2, <1>3, <1>4, <1>5 DEF UploadStep

\* No delete, save or download re-keys a record or answers an upload.
LEMMA OthersAnswerNothing ==
  ASSUME \/ \E d \in Deleters : \/ \E f \in FileIds : BeginDelete(d, f)
                                \/ DeleteStep(d) \/ InterruptDelete(d)
         \/ \E s \in Savers : (\E f \in FileIds : BeginSave(s, f)) \/ SaveStep(s)
         \/ \E m \in SUBSET Users : SaveMembers(m)
         \/ \E g \in Readers : (\E f \in FileIds : BeginRead(g, f)) \/ ReadStep(g)
  PROVE  UNCHANGED <<reqKey, acked>>
BY DEF BeginDelete, DeleteStep, NoRow, AccessDelete, Decide, Undecided, PurgeObject, PurgeRow,
       InterruptDelete, BeginSave, SaveStep, CheckRow, CheckObject, CommitSave, SaveMembers,
       BeginRead, ReadStep, CheckDeleted, Get, Recheck, FinalSelect, EndServed, d1, history

\* All 201 answers for one key name one file, for any number of sends and of
\* spellings: what was answered stays the one record of its key.
THEOREM OneOriginal == Spec => []OneOriginalPerKey
<1>1. Init => AnsweredInv
  BY DEF Init, AnsweredInv
<1>2. Consistent /\ AnsweredInv /\ [Next]_vars => AnsweredInv'
  <2> SUFFICES ASSUME Consistent, AnsweredInv, [Next]_vars PROVE AnsweredInv'
    OBVIOUS
  <2>1. CASE UNCHANGED <<reqKey, acked>>
    BY <2>1 DEF AnsweredInv
  <2>2. CASE Next
    BY <2>1, <2>2, UploadAnswers, OthersAnswerNothing DEF Next, Consistent
  <2>3. CASE UNCHANGED vars
    BY <2>1, <2>3 DEF vars, d1, history
  <2>4. QED
    BY <2>2, <2>3
<1>3. Consistent /\ AnsweredInv => OneOriginalPerKey
  <2> SUFFICES ASSUME Consistent, AnsweredInv, NEW a \in acked, NEW b \in acked, a[1] = b[1]
               PROVE  a[2] = b[2]
    BY DEF OneOriginalPerKey
  <2>1. a[2] \in FileIds /\ b[2] \in FileIds /\ a[1] # None
    BY ConstantsAssumption DEF Consistent, TypeInv, TypeOK
  <2>2. QED
    BY <2>1 DEF AnsweredInv, Consistent, IInv, KeysInv
<1>4. QED
  BY <1>1, <1>2, <1>3, InvariantHolds, TypeCorrect, PTL DEF Spec, Consistent, TypeInv

-----------------------------------------------------------------------------
(* What a step may never do *)

\* The steps of an upload that change a tombstoned file do not bring it back.
LEMMA UploadTombstone ==
  ASSUME TypeInv, IInv, NEW u \in Uploaders, NEW f \in FileIds, status[f] = "deleted",
         BeginUpload(u) \/ UploadStep(u) \/ InterruptUpload(u)
  PROVE  /\ status'[f] = "deleted" /\ row'[f] = row[f] /\ UNCHANGED <<payload, reader>>
         /\ \A k \in Keys : <<k, f>> \in acked' => <<k, f>> \in acked
<1> USE DEF TypeInv, TypeOK, LocalsOK
<1>1. CASE Reserve(u)
  BY <1>1 DEF Reserve, history
<1>2. CASE Commit(u)
  BY <1>2 DEF Commit, Commits, history
<1>3. CASE Reply(u)
  BY <1>3 DEF Reply, Acknowledges, d1
<1>4. CASE BeginUpload(u) \/ FindCurrent(u) \/ FindLegacy(u) \/ Migrate(u) \/ Lookup(u)
           \/ Head(u) \/ Put(u) \/ Winner(u) \/ CheckWritten(u) \/ AuthorizeCommit(u)
           \/ CheckRevoked(u) \/ ReadStatus(u) \/ Cleanup(u) \/ CheckSaved(u) \/ HeadSaved(u)
           \/ InterruptUpload(u)
  BY <1>4 DEF BeginUpload, FindCurrent, FindLegacy, Migrate, Lookup, Head, Put, Winner,
              CheckWritten, AuthorizeCommit, CheckRevoked, ReadStatus, Cleanup, CheckSaved,
              HeadSaved, InterruptUpload, d1, history
<1>5. ASSUME NEW from, NEW to, Reauthorize(u, from, to) \/ ReadRow(u, from, to)
      PROVE  UNCHANGED <<d1, payload, reader, acked>>
  BY <1>5 DEF Reauthorize, ReadRow, history
<1>6. QED
  BY <1>1, <1>2, <1>3, <1>4, <1>5 DEF UploadStep, d1

\* Nothing that started before a tombstone undoes it: no retry, save or download.
THEOREM Tombstones == Spec => TombstonesAreFinal
<1> DEFINE Final(f) ==
       status[f] = "deleted" =>
         /\ status'[f] = "deleted" /\ (row'[f] => row[f])
         /\ f \in payload'.linked => f \in payload.linked
         /\ \A k \in Keys : <<k, f>> \in acked' => <<k, f>> \in acked
         /\ \A g \in Readers : gfile[g] = f /\ gpc'[g] = "served" => gpc[g] = "served"
<1>1. Consistent /\ [Next]_vars => [\A f \in FileIds : Final(f)]_vars
  <2> SUFFICES ASSUME Consistent, Next, NEW f \in FileIds, status[f] = "deleted"
               PROVE  Final(f)
    OBVIOUS
  <2> USE DEF Consistent, TypeInv, TypeOK, LocalsOK
  <2>1. CASE \E u \in Uploaders : BeginUpload(u) \/ UploadStep(u) \/ InterruptUpload(u)
    BY <2>1, UploadTombstone DEF reader
  <2>2. CASE \E d \in Deleters : \/ \E g \in FileIds : BeginDelete(d, g)
                                 \/ DeleteStep(d) \/ InterruptDelete(d)
    BY <2>2 DEF BeginDelete, DeleteStep, NoRow, AccessDelete, Decide, Undecided, PurgeObject,
                PurgeRow, InterruptDelete, d1, reader, history
  <2>3. CASE \E s \in Savers : (\E g \in FileIds : BeginSave(s, g)) \/ SaveStep(s)
    BY <2>3 DEF BeginSave, SaveStep, CheckRow, CheckObject, CommitSave, Links, Available, Payload,
                d1, reader, history
  <2>4. CASE \E m \in SUBSET Users : SaveMembers(m)
    BY <2>4 DEF SaveMembers, Payload, d1, reader
  <2>5. CASE \E g \in Readers : (\E h \in FileIds : BeginRead(g, h)) \/ ReadStep(g)
    <3>1. UNCHANGED <<d1, payload, acked>>
      BY <2>5 DEF BeginRead, ReadStep, CheckDeleted, Get, Recheck, FinalSelect, EndServed, history
    <3>2. \A g \in Readers : gfile[g] = f /\ gpc'[g] = "served" => gpc[g] = "served"
      BY <2>5 DEF BeginRead, ReadStep, CheckDeleted, Get, Recheck, FinalSelect, Serves,
                  EndServed, EndRead, Fetch
    <3>3. QED
      BY <3>1, <3>2 DEF d1
  <2>6. QED
    BY <2>1, <2>2, <2>3, <2>4, <2>5 DEF Next
<1>2. QED
  BY <1>1, InvariantHolds, TypeCorrect, PTL DEF Spec, Consistent, TypeInv, TombstonesAreFinal

\* 201 is answered for an original that is stored, undeleted and the sender's.
THEOREM Acknowledged == Spec => AcknowledgedMeansStored
<1> DEFINE Acks == \A u \in Uploaders :
       acked' # acked /\ upc[u] = "checkReply" /\ upc'[u] = "idle" =>
         /\ status[ufile[u]] = "ready" /\ ObjectMatches(ufile[u])
         /\ object[ufile[u]].bytes = BytesOf[u]
<1>1. Consistent /\ [Next]_vars => [Acks]_vars
  <2> SUFFICES ASSUME Consistent, Next, NEW u \in Uploaders,
                      acked' # acked, upc[u] = "checkReply", upc'[u] = "idle"
               PROVE  /\ status[ufile[u]] = "ready" /\ ObjectMatches(ufile[u])
                      /\ object[ufile[u]].bytes = BytesOf[u]
    OBVIOUS
  <2>1. PICK v \in Uploaders : Reply(v)
    <3>1. ASSUME NEW v \in Uploaders, NEW from, NEW to,
                 Reauthorize(v, from, to) \/ ReadRow(v, from, to)
          PROVE  UNCHANGED acked
      BY <3>1 DEF Reauthorize, ReadRow, history
    <3>2. QED
      BY <3>1 DEF Next, UploadStep, BeginUpload, FindCurrent, FindLegacy, Migrate, Reserve, Lookup, Head,
             Put, Winner, CheckWritten, AuthorizeCommit, CheckRevoked, Commit, ReadStatus, Cleanup,
             CheckSaved, HeadSaved, InterruptUpload, BeginDelete, DeleteStep, NoRow, AccessDelete,
             Decide, Undecided, PurgeObject, PurgeRow, InterruptDelete, BeginSave, SaveStep,
             CheckRow, CheckObject, CommitSave, SaveMembers, BeginRead, ReadStep, CheckDeleted,
             Get, Recheck, FinalSelect, EndServed, history
  <2>2. v = u
    BY <2>1 DEF Reply, EndUpload, Goto, Consistent, TypeInv, TypeOK
  <2>3. UploadsInv!(u) /\ ufile[u] \in FileIds /\ status[ufile[u]] # "deleted"
    BY <2>1, <2>2 DEF Reply, Acknowledges, Consistent, IInv, UploadsInv, TypeInv, LocalsOK, NoFileSteps
  <2>4. status[ufile[u]] = "ready" /\ print[ufile[u]] = BytesOf[u]
    BY <2>3 DEF AnswerSteps, NoFileSteps
  <2>5. QED
    BY <2>3, <2>4 DEF Consistent, IInv, LedgersInv, ObjectMatches
<1>2. QED
  BY <1>1, InvariantHolds, TypeCorrect, PTL DEF Spec, Consistent, TypeInv, AcknowledgedMeansStored

\* A step that moves a download is a download's own.
LEMMA ReaderMoves ==
  ASSUME [Next]_vars, ~UNCHANGED reader
  PROVE  \E g \in Readers : (\E f \in FileIds : BeginRead(g, f)) \/ ReadStep(g)
<1>1. ASSUME NEW u \in Uploaders, BeginUpload(u) \/ UploadStep(u) \/ InterruptUpload(u)
      PROVE  UNCHANGED reader
  <2>1. ASSUME NEW from, NEW to, Reauthorize(u, from, to) \/ ReadRow(u, from, to)
        PROVE  UNCHANGED reader
    BY <2>1 DEF Reauthorize, ReadRow
  <2>2. QED
    BY <1>1, <2>1 DEF BeginUpload, UploadStep, FindCurrent, FindLegacy, Migrate, Reserve, Lookup,
       Head, Put, Winner, CheckWritten, AuthorizeCommit, CheckRevoked, Commit, ReadStatus, Cleanup,
       CheckSaved, HeadSaved, Reply, InterruptUpload
<1>2. ASSUME \/ \E d \in Deleters : \/ \E f \in FileIds : BeginDelete(d, f)
                                    \/ DeleteStep(d) \/ InterruptDelete(d)
             \/ \E s \in Savers : (\E f \in FileIds : BeginSave(s, f)) \/ SaveStep(s)
             \/ \E m \in SUBSET Users : SaveMembers(m)
      PROVE  UNCHANGED reader
  BY <1>2 DEF BeginDelete, DeleteStep, NoRow, AccessDelete, Decide, Undecided, PurgeObject,
       PurgeRow, InterruptDelete, BeginSave, SaveStep, CheckRow, CheckObject, CommitSave,
       SaveMembers
<1>3. QED
  BY <1>1, <1>2 DEF Next, vars

\* The snapshot of a download's last look is one that admitted its reader.
LEMMA ReadersKept ==
  ASSUME TypeInv, ReadersInv, [Next]_vars
  PROVE  ReadersInv'
<1> USE DEF TypeInv, TypeOK
<1>1. CASE UNCHANGED reader
  BY <1>1 DEF ReadersInv, reader
<1>2. ASSUME NEW g \in Readers, (\E f \in FileIds : BeginRead(g, f)) \/ ReadStep(g)
      PROVE  ReadersInv'
  <2>1. \A h \in Readers \ {g} : gpc'[h] = gpc[h] /\ gsnap'[h] = gsnap[h]
    BY <1>2 DEF BeginRead, ReadStep, CheckDeleted, Get, Recheck, FinalSelect, EndServed, EndRead,
                Fetch
  <2>2. gpc'[g] = "final" => Authorized(g) /\ gsnap'[g] = payload
    BY <1>2 DEF BeginRead, ReadStep, CheckDeleted, Get, Recheck, FinalSelect, EndServed, EndRead,
                Fetch
  <2>3. QED
    BY <2>1, <2>2 DEF ReadersInv, Authorized
<1>3. QED
  BY <1>1, <1>2, ReaderMoves

\* What a download sends is the current, undeleted original, to a reader who is
\* admitted at that moment, though the body was fetched two statements earlier.
THEOREM ServedBodies == Spec => ServedBodiesAreCurrent
<1> DEFINE Current(g) ==
       gpc[g] = "final" /\ gpc'[g] = "served" =>
         /\ Authorized(g) /\ status[gfile[g]] # "deleted" /\ ObjectMatches(gfile[g])
         /\ gbody[g] = object[gfile[g]]
<1>1. Init => ReadersInv
  BY DEF Init, ReadersInv
<1>2. TypeInv /\ ReadersInv /\ [Next]_vars => ReadersInv'
  BY ReadersKept
<1>3. Consistent /\ ReadersInv /\ [Next]_vars => [\A g \in Readers : Current(g)]_vars
  <2> SUFFICES ASSUME Consistent, ReadersInv, [Next]_vars, NEW g \in Readers,
                      gpc[g] = "final", gpc'[g] = "served"
               PROVE  Current(g)
    OBVIOUS
  <2>1. gfile[g] \in FileIds /\ gpc \in [Readers -> ReadSteps]
    BY DEF Consistent, TypeInv, TypeOK, LocalsOK
  <2>2. Serves(g)
    <3>1. PICK h \in Readers : (\E f \in FileIds : BeginRead(h, f)) \/ ReadStep(h)
      BY ReaderMoves DEF reader
    <3>2. QED
      BY <2>1, <3>1 DEF BeginRead, ReadStep, CheckDeleted, Get, Recheck, FinalSelect, EndServed,
                        EndRead, Fetch
  <2>3. row[gfile[g]] /\ object[gfile[g]] = ledger[gfile[g]] /\ ledger[gfile[g]] # None
    BY <2>1, <2>2 DEF Serves, Consistent, IInv, LedgersInv
  <2>4. Authorized(g)
    BY <2>2 DEF Serves, ReadersInv, Authorized
  <2>5. QED
    BY <2>2, <2>3, <2>4 DEF Serves, ObjectMatches
<1>4. QED
  BY <1>1, <1>2, <1>3, InvariantHolds, TypeCorrect, PTL
     DEF Spec, Consistent, TypeInv, ServedBodiesAreCurrent

-----------------------------------------------------------------------------
(* The routes implement FileLifecycle *)

\* A step that leaves the ledgers of every file in their stage, and the contents
\* of the stored ones and the cards alone, is none of FileLifecycle's.
LEMMA LifeStutters ==
  ASSUME TypeInv, payload'.linked = payload.linked,
         \A f \in FileIds : LifeOf(f)' = LifeOf(f),
         \A f \in FileIds : LifeOf(f) = "stored" => object'[f] = object[f]
  PROVE  UNCHANGED Lifecycle!vars
<1>1. life' = life
  BY DEF life
<1>2. content' = content
  BY DEF content
<1>3. QED
  BY <1>1, <1>2 DEF Lifecycle!vars

\* The states a portal may start in are states of FileLifecycle.
LEMMA InitLife == Init => Lifecycle!Init
<1> SUFFICES ASSUME Init PROVE Lifecycle!Init
  OBVIOUS
<1>1. TypeInv /\ IInv
  BY InitType, InitInv
<1>2. life \in [FileIds -> {"absent", "reserved", "stored", "deleted"}]
  BY DEF life, LifeOf
<1>3. content \in [FileIds -> Stored \cup {None}]
  BY <1>1 DEF content, TypeInv, TypeOK
<1>4. \A f \in FileIds : content[f] # None <=> life[f] = "stored"
  <2> SUFFICES ASSUME NEW f \in FileIds PROVE content[f] # None <=> life[f] = "stored"
    OBVIOUS
  <2>1. LifeOf(f) = "stored" => object[f] # None
    BY <1>1 DEF LifeOf, IInv, LedgersInv, TypeInv, TypeOK, Statuses
  <2>2. QED
    BY <2>1 DEF content, life
<1>5. \A f \in payload.linked : f \in FileIds /\ life[f] = "stored"
  BY <1>1 DEF IInv, LinksInv, TypeInv, TypeOK, Payload, life, LifeOf
<1>6. QED
  BY <1>2, <1>3, <1>4, <1>5 DEF Lifecycle!Init

\* Every step of an upload is a reservation, the storing of a file, or nothing.
LEMMA UploadLife ==
  ASSUME TypeInv, IInv, NEW u \in Uploaders,
         BeginUpload(u) \/ UploadStep(u) \/ InterruptUpload(u)
  PROVE  [Lifecycle!Next]_(Lifecycle!vars)
<1> USE DEF TypeInv, TypeOK, LocalsOK
<1>1. CASE UNCHANGED <<status, row, object, payload>>
  BY <1>1, LifeStutters DEF LifeOf
<1>2. CASE Reserve(u) /\ ~UNCHANGED status
  <2>1. PICK f \in FileIds : /\ status[f] = "none" /\ ~row[f]
                             /\ status' = [status EXCEPT ![f] = "pending"]
                             /\ UNCHANGED <<row, object, payload>>
    BY <1>2 DEF Reserve
  <2>2. LifeOf(f) = "absent" /\ LifeOf(f)' = "reserved"
        /\ \A g \in FileIds \ {f} : LifeOf(g)' = LifeOf(g)
    BY <2>1 DEF LifeOf
  <2>3. life[f] = "absent" /\ life' = [life EXCEPT ![f] = "reserved"]
    BY <2>2 DEF life
  <2>4. content' = content
    BY <2>1, <2>2 DEF content
  <2>5. Lifecycle!Reserve(f)
    BY <2>1, <2>3, <2>4 DEF Lifecycle!Reserve
  <2>6. QED
    BY <2>5 DEF Lifecycle!Next
<1>3. CASE Commit(u) /\ Commits(u)
  <2>1. PICK f \in FileIds :
        /\ status[f] = "pending" /\ object[f] = Sent(u) /\ ~row[f]
        /\ status' = [status EXCEPT ![f] = "ready"] /\ row' = [row EXCEPT ![f] = TRUE]
        /\ UNCHANGED <<object, payload>>
    BY <1>3 DEF Commit, Commits, NoFileSteps, IInv, UploadsInv, LedgersInv
  <2>2. LifeOf(f) = "reserved" /\ LifeOf(f)' = "stored"
        /\ \A g \in FileIds \ {f} : LifeOf(g)' = LifeOf(g)
    BY <2>1 DEF LifeOf
  <2>3. life[f] = "reserved" /\ life' = [life EXCEPT ![f] = "stored"]
    BY <2>1, <2>2 DEF life
  <2>4. content' = [content EXCEPT ![f] = Sent(u)]
    BY <2>1, <2>2 DEF content
  <2>5. Lifecycle!Store(f, Sent(u))
    BY <2>1, <2>3, <2>4 DEF Lifecycle!Store
  <2>6. QED
    BY <2>1, <2>5, SentType DEF Lifecycle!Next
<1>4. CASE Put(u)
  <2>1. UploadsInv!(u) /\ ufile[u] \in FileIds /\ status[ufile[u]] \in {"pending", "ready", "deleted"}
    BY <1>4 DEF IInv, UploadsInv, Put, NoFileSteps, Statuses
  <2>2. LifeOf(ufile[u]) = "stored" => object[ufile[u]] = Sent(u)
    BY <1>4, <2>1 DEF LifeOf, Put, WriteSteps, IInv, LedgersInv
  <2>3. QED
    BY <1>4, <2>1, <2>2, LifeStutters DEF Put, LifeOf, d1
<1>5. CASE Cleanup(u)
  <2>1. ufile[u] \in FileIds /\ status[ufile[u]] = "deleted"
    BY <1>5 DEF IInv, UploadsInv, Cleanup, NoFileSteps
  <2>2. QED
    BY <1>5, <2>1, LifeStutters DEF Cleanup, LifeOf, d1
<1>6. CASE Migrate(u) \/ (Reserve(u) /\ UNCHANGED status) \/ (Commit(u) /\ ~Commits(u))
  BY <1>1, <1>6 DEF Migrate, Reserve, Commit
<1>7. ASSUME NEW from, NEW to, Reauthorize(u, from, to) \/ ReadRow(u, from, to)
      PROVE  UNCHANGED <<status, row, object, payload>>
  BY <1>7 DEF Reauthorize, ReadRow, d1
<1>8. CASE BeginUpload(u) \/ FindCurrent(u) \/ FindLegacy(u) \/ Lookup(u) \/ Head(u)
           \/ Winner(u) \/ CheckWritten(u) \/ AuthorizeCommit(u) \/ CheckRevoked(u)
           \/ ReadStatus(u) \/ CheckSaved(u) \/ HeadSaved(u) \/ Reply(u) \/ InterruptUpload(u)
  BY <1>1, <1>8 DEF BeginUpload, FindCurrent, FindLegacy, Lookup, Head, Winner, CheckWritten,
              AuthorizeCommit, CheckRevoked, ReadStatus, CheckSaved, HeadSaved, Reply,
              InterruptUpload, d1
<1>9. QED
  BY <1>1, <1>2, <1>3, <1>4, <1>5, <1>6, <1>7, <1>8 DEF UploadStep

\* Every step of a delete is the deletion of an unlinked file, or nothing.
LEMMA DeleteLife ==
  ASSUME TypeInv, IInv, NEW d \in Deleters,
         (\E f \in FileIds : BeginDelete(d, f)) \/ DeleteStep(d) \/ InterruptDelete(d)
  PROVE  [Lifecycle!Next]_(Lifecycle!vars)
<1> USE DEF TypeInv, TypeOK, LocalsOK
<1>1. CASE UNCHANGED <<status, row, object, payload>>
  BY <1>1, LifeStutters DEF LifeOf
<1>2. CASE Decide(d) /\ ~UNCHANGED status
  <2>1. PICK f \in FileIds :
        /\ row[f] /\ f \notin payload.linked /\ status[f] # "deleted"
        /\ status' = [status EXCEPT ![f] = "deleted"] /\ UNCHANGED <<row, object, payload>>
    BY <1>2 DEF Decide, Decides
  <2>2. LifeOf(f) = "stored" /\ LifeOf(f)' = "deleted"
        /\ \A g \in FileIds \ {f} : LifeOf(g)' = LifeOf(g)
    BY <2>1 DEF LifeOf
  <2>3. life[f] = "stored" /\ life' = [life EXCEPT ![f] = "deleted"]
    BY <2>1, <2>2 DEF life
  <2>4. content' = [content EXCEPT ![f] = None]
    BY <2>1, <2>2 DEF content
  <2>5. Lifecycle!Delete(f)
    BY <2>1, <2>3, <2>4 DEF Lifecycle!Delete
  <2>6. QED
    BY <2>1, <2>5 DEF Lifecycle!Next
<1>3. CASE PurgeObject(d) \/ PurgeRow(d)
  <2>1. dfile[d] \in FileIds /\ status[dfile[d]] = "deleted"
    BY <1>3 DEF PurgeObject, PurgeRow, IInv, DeletesInv
  <2>2. QED
    BY <1>3, <2>1, LifeStutters DEF PurgeObject, PurgeRow, LifeOf, d1
<1>4. CASE (\E g \in FileIds : BeginDelete(d, g)) \/ NoRow(d) \/ AccessDelete(d)
           \/ Undecided(d) \/ InterruptDelete(d) \/ (Decide(d) /\ UNCHANGED status)
  BY <1>1, <1>4 DEF BeginDelete, NoRow, AccessDelete, Undecided, InterruptDelete, Decide, d1
<1>5. QED
  BY <1>2, <1>3, <1>4 DEF DeleteStep

\* Every portal save links a stored file, or nothing; downloads do nothing.
LEMMA OthersLife ==
  ASSUME TypeInv, IInv,
         \/ \E s \in Savers : (\E f \in FileIds : BeginSave(s, f)) \/ SaveStep(s)
         \/ \E m \in SUBSET Users : SaveMembers(m)
         \/ \E g \in Readers : (\E f \in FileIds : BeginRead(g, f)) \/ ReadStep(g)
  PROVE  [Lifecycle!Next]_(Lifecycle!vars)
<1> USE DEF TypeInv, TypeOK, LocalsOK
<1>1. CASE UNCHANGED <<status, row, object>> /\ payload'.linked = payload.linked
  BY <1>1, LifeStutters DEF LifeOf
<1>2. ASSUME NEW s \in Savers, CommitSave(s), payload'.linked # payload.linked
      PROVE  [Lifecycle!Next]_(Lifecycle!vars)
  <2> DEFINE f == sfile[s]
  <2>1. /\ f \in FileIds /\ Available(f) /\ payload'.linked = payload.linked \cup {f}
        /\ UNCHANGED <<status, row, object>>
    BY <1>2 DEF CommitSave, Links, Payload, d1
  <2>2. life[f] = "stored" /\ life' = life /\ content' = content
    BY <2>1 DEF life, content, LifeOf, Available
  <2>3. Lifecycle!Link(f)
    BY <2>1, <2>2 DEF Lifecycle!Link
  <2>4. QED
    BY <2>1, <2>3 DEF Lifecycle!Next
<1>3. ASSUME NEW s \in Savers,
             (\E f \in FileIds : BeginSave(s, f)) \/ CheckRow(s) \/ CheckObject(s)
             \/ (CommitSave(s) /\ payload'.linked = payload.linked)
      PROVE  [Lifecycle!Next]_(Lifecycle!vars)
  BY <1>1, <1>3 DEF BeginSave, CheckRow, CheckObject, CommitSave, d1
<1>4. CASE \E m \in SUBSET Users : SaveMembers(m)
  BY <1>1, <1>4 DEF SaveMembers, Payload, d1
<1>5. CASE \E g \in Readers : (\E f \in FileIds : BeginRead(g, f)) \/ ReadStep(g)
  BY <1>1, <1>5 DEF BeginRead, ReadStep, CheckDeleted, Get, Recheck, FinalSelect, EndServed, d1
<1>6. QED
  BY <1>2, <1>3, <1>4, <1>5 DEF SaveStep

\* One step of any request, save or crash is one of FileLifecycle's, or none.
LEMMA LifeStep == Consistent /\ [Next]_vars => [Lifecycle!Next]_(Lifecycle!vars)
<1> SUFFICES ASSUME Consistent, [Next]_vars PROVE [Lifecycle!Next]_(Lifecycle!vars)
  OBVIOUS
<1>1. CASE Next
  BY <1>1, UploadLife, DeleteLife, OthersLife DEF Next, Consistent
<1>2. CASE UNCHANGED vars
  BY <1>2, LifeStutters DEF Consistent, vars, d1, LifeOf
<1>3. QED
  BY <1>1, <1>2

\* Uploads, deletes, downloads, saves and crashes, statement by statement, are
\* together an implementation of the one-step promises of FileLifecycle.
THEOREM Refinement == Spec => ImplementsLifecycle
BY LifeStep, InitLife, InvariantHolds, TypeCorrect, PTL
   DEF Spec, Consistent, TypeInv, ImplementsLifecycle, Lifecycle!Spec

\* As long as an original can be served, its bytes are the ones it was first stored
\* with: neither a retry, nor a second tab, nor a delete that is refused, nor an
\* upload interrupted before this one replaces them (putIfAbsent and its readers).
THEOREM StoredOnce ==
  Spec => [][\A f \in FileIds :
               LifeOf(f) = "stored" /\ LifeOf(f)' = "stored" => object'[f] = object[f]]_vars
<1>1. Consistent /\ [Next]_vars =>
        [\A f \in FileIds :
           LifeOf(f) = "stored" /\ LifeOf(f)' = "stored" => object'[f] = object[f]]_vars
  <2> SUFFICES ASSUME Consistent, [Next]_vars, NEW f \in FileIds,
                      LifeOf(f) = "stored", LifeOf(f)' = "stored"
               PROVE  object'[f] = object[f]
    OBVIOUS
  <2>1. life[f] = "stored" /\ life'[f] = "stored"
    BY DEF life
  <2>2. content[f] = object[f] /\ content'[f] = object'[f]
    BY DEF content
  <2>3. CASE UNCHANGED Lifecycle!vars
    BY <2>2, <2>3 DEF Lifecycle!vars
  <2>4. ASSUME NEW g \in FileIds, Lifecycle!Reserve(g) \/ Lifecycle!Link(g)
        PROVE  content'[f] = content[f]
    BY <2>4 DEF Lifecycle!Reserve, Lifecycle!Link
  <2>5. ASSUME NEW g \in FileIds, NEW c \in Stored, Lifecycle!Store(g, c)
        PROVE  content'[f] = content[f]
    <3>1. f # g
      BY <2>1, <2>5 DEF Lifecycle!Store
    <3>2. QED
      BY <2>5, <3>1 DEF Lifecycle!Store, content
  <2>6. ASSUME NEW g \in FileIds, Lifecycle!Delete(g)
        PROVE  content'[f] = content[f]
    <3>1. f # g
      BY <2>1, <2>6 DEF Lifecycle!Delete, life
    <3>2. QED
      BY <2>6, <3>1 DEF Lifecycle!Delete, content
  <2>7. QED
    BY <2>2, <2>3, <2>4, <2>5, <2>6, LifeStep DEF Lifecycle!Next
<1>2. QED
  BY <1>1, InvariantHolds, TypeCorrect, PTL DEF Spec, Consistent, TypeInv

=============================================================================
