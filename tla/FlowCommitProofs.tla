-------------------------- MODULE FlowCommitProofs --------------------------
(***************************************************************************)
(* Proofs about FlowCommit, for every number of requests, accounts,        *)
(* commands, contents and revisions.                                       *)
(***************************************************************************)
EXTENDS FlowCommit, SequenceTheorems, TLAPS

-----------------------------------------------------------------------------
(* Types *)

\* The log as a function, and the fields of what a request was sent.
LEMMA Basics ==
  ASSUME TypeOK
  PROVE  /\ Len(log) \in Nat /\ DOMAIN log = 1 .. Len(log)
         /\ \A i \in DOMAIN log : log[i] \in Entry
         /\ \A r \in Requests : pc[r] # "new" =>
              /\ input[r] \in Input /\ input[r].who \in Actors
              /\ input[r].cmd \in Commands /\ input[r].print \in Prints
              /\ input[r].rev \in Nat
<1>1. log \in Seq(Entry)
  BY DEF TypeOK
<1>2. \A r \in Requests : pc[r] # "new" => input[r] \in Input
  BY DEF TypeOK
<1>3. QED
  BY <1>1, <1>2, LenProperties, ElementOfSeq DEF Input

\* One more entry leaves those before it.
LEMMA Appended ==
  ASSUME TypeOK, NEW e \in Entry, log' = Append(log, e)
  PROVE  /\ log' \in Seq(Entry) /\ Len(log') = Len(log) + 1
         /\ DOMAIN log' = DOMAIN log \cup {Len(log) + 1}
         /\ \A i \in DOMAIN log : log'[i] = log[i]
         /\ log'[Len(log) + 1] = e
<1>1. log \in Seq(Entry) /\ Len(log) \in Nat /\ DOMAIN log = 1 .. Len(log)
  BY Basics DEF TypeOK
<1>2. /\ log' \in Seq(Entry) /\ Len(log') = Len(log) + 1
      /\ \A i \in 1 .. Len(log) : log'[i] = log[i]
      /\ log'[Len(log) + 1] = e
  BY <1>1, AppendProperties
<1>3. DOMAIN log' = 1 .. Len(log) + 1
  BY <1>2, LenProperties
<1>4. QED
  BY <1>1, <1>2, <1>3

\* The entry of a command.
LEMMA AppliedType ==
  ASSUME TypeOK, NEW r \in Requests, pc[r] # "new"
  PROVE  Applied(r) \in Entry
<1>1. /\ input[r].who \in Actors /\ input[r].cmd \in Commands
      /\ input[r].print \in Prints /\ input[r].rev \in Nat
  BY Basics
<1>2. files[r] \in SUBSET File
  BY DEF TypeOK
<1>3. QED
  BY <1>1, <1>2 DEF Applied, Entry

\* The entry of an AI run.
LEMMA GeneratedType ==
  ASSUME TypeOK
  PROVE  Generated \in Entry
BY Basics DEF Generated, Entry

\* The types of what a request keeps for itself.
LEMMA OwnTypes ==
  ASSUME TypeOK, NEW r \in Requests,
         \/ Send(r) \/ ReadFlow(r) \/ Check(r) \/ CheckContent(r) \/ Lookup(r)
         \/ Reread(r) \/ CheckReserved(r) \/ HeadObject(r) \/ Winner(r)
         \/ CheckSecond(r) \/ CheckAccess(r) \/ Verify(r) \/ Answer(r) \/ Fail(r)
  PROVE  TypeOK'
<1> USE DEF TypeOK, Goto, Step, store, At
<1>1. CASE Send(r)
  <2>1. PICK who \in Actors, cmd \in Commands, print \in Prints, rev \in 0 .. Len(log) :
          input' = [input EXCEPT ![r] = [who |-> who, cmd |-> cmd, print |-> print, rev |-> rev]]
    BY <1>1 DEF Send
  <2>2. [who |-> who, cmd |-> cmd, print |-> print, rev |-> rev] \in Input
    BY Basics DEF Input
  <2>3. [who |-> who, cmd |-> cmd, print |-> print, rev |-> rev] # None
    BY <2>2, CommitAssumption
  <2>4. QED
    BY <1>1, <2>1, <2>2, <2>3 DEF Send
<1>2. CASE ReadFlow(r)
  BY <1>2, Basics DEF ReadFlow
<1>3. CASE Check(r)
  BY <1>3 DEF Check
<1>4. CASE Lookup(r) \/ Reread(r)
  <2>1. ByCommand(r) \subseteq File /\ ByContent(r) \subseteq File
    BY DEF ByCommand, ByContent
  <2>2. files' \in [Requests -> SUBSET File]
    BY <1>4, <2>1 DEF Lookup, Reread, Reuse
  <2>3. pc' \in [Requests -> Step] /\ (pc'[r] # "new" => pc[r] # "new")
        /\ \A q \in Requests \ {r} : pc'[q] = pc[q]
    BY <1>4 DEF Lookup, Reread, Reuse
  <2>4. QED
    BY <1>4, <2>2, <2>3 DEF Lookup, Reread
<1>5. CASE HeadObject(r)
  BY <1>5 DEF HeadObject
<1>6. CASE Winner(r)
  BY <1>6 DEF Winner, Written
<1>7. CASE CheckAccess(r)
  BY <1>7 DEF CheckAccess
<1>8. CASE CheckContent(r) \/ CheckReserved(r) \/ CheckSecond(r) \/ Verify(r) \/ Answer(r)
           \/ Fail(r)
  BY <1>8 DEF CheckContent, CheckReserved, CheckSecond, Verify, Answer, Fail, Ended
<1>9. QED
  BY <1>1, <1>2, <1>3, <1>4, <1>5, <1>6, <1>7, <1>8

\* The types of the two stores.
LEMMA StoreTypes ==
  ASSUME TypeOK,
         \/ \E r \in Requests : Insert(r) \/ PutObject(r) \/ Commit(r)
         \/ RunAi \/ SavePortal \/ LoseOriginal
  PROVE  TypeOK'
<1> USE DEF TypeOK, Goto, Step, At
<1>1. ASSUME NEW r \in Requests, Insert(r)
      PROVE  TypeOK'
  <2>1. [who |-> input[r].who, cmd |-> input[r].cmd, print |-> input[r].print,
         done |-> None] \in Reservation
    BY <1>1, Basics DEF Insert, Reservation
  <2>2. reserved' \in [File -> Reservation \cup {None}]
    BY <1>1, <2>1 DEF Insert
  <2>3. QED
    BY <1>1, <2>2 DEF Insert
<1>2. ASSUME NEW r \in Requests, PutObject(r)
      PROVE  TypeOK'
  <2>1. input[r].print \in Prints
    BY <1>2, Basics DEF PutObject
  <2>2. object' \in [File -> Prints \cup {None}] /\ bound' \in [Requests -> SUBSET File]
    <3>1. PICK f \in File :
            /\ object' = object \/ object' = [object EXCEPT ![f] = input[r].print]
            /\ bound' = bound \/ bound' = [bound EXCEPT ![r] = @ \cup {f}]
      BY <1>2 DEF PutObject, Written
    <3>2. object' \in [File -> Prints \cup {None}]
      BY <2>1, <3>1
    <3>3. bound[r] \cup {f} \in SUBSET File
      OBVIOUS
    <3>4. bound' \in [Requests -> SUBSET File]
      BY <3>1, <3>3
    <3>5. QED
      BY <3>2, <3>4
  <2>3. pc' \in [Requests -> Step] /\ \A q \in Requests : pc'[q] # "new" => pc[q] # "new"
    BY <1>2 DEF PutObject, Written
  <2>4. QED
    BY <1>2, <2>2, <2>3 DEF PutObject
<1>3. ASSUME NEW r \in Requests, Commit(r)
      PROVE  TypeOK'
  <2>1. input[r].print \in Prints /\ input[r].cmd \in Commands
    BY <1>3, Basics DEF Commit
  <2>2. log' \in Seq(Entry)
    BY <1>3, AppliedType, Appended DEF Commit
  <2>3. \A f \in files[r] : reserved[f] \in Reservation
    BY <1>3 DEF Commit, Commits, Pending, Reserved
  <2>4. \A f \in files[r] : [reserved[f] EXCEPT !.done = input[r].cmd] \in Reservation
    BY <2>1, <2>3 DEF Reservation
  <2>5. /\ reserved' \in [File -> Reservation \cup {None}]
        /\ proof' \in [File -> Prints \cup {None}]
    BY <1>3, <2>1, <2>4 DEF Commit
  <2>6. QED
    BY <1>3, <2>2, <2>5 DEF Commit
<1>4. CASE RunAi
  <2>1. log' \in Seq(Entry)
    BY <1>4, GeneratedType, Appended DEF RunAi
  <2>2. QED
    BY <1>4, <2>1 DEF RunAi, own
<1>5. CASE SavePortal \/ LoseOriginal
  BY <1>5 DEF SavePortal, LoseOriginal, own
<1>6. QED
  BY <1>1, <1>2, <1>3, <1>4, <1>5

\* Every variable keeps its type, and a request that has begun was sent something.
THEOREM TypeCorrect == Spec => []TypeOK
<1>1. Init => TypeOK
  BY EmptySeq DEF Init, TypeOK, Portal, Step
<1>2. TypeOK /\ [Next]_vars => TypeOK'
  <2> SUFFICES ASSUME TypeOK, [Next]_vars PROVE TypeOK'
    OBVIOUS
  <2>1. CASE Next
    BY <2>1, OwnTypes, StoreTypes DEF Next, RequestStep
  <2>2. CASE UNCHANGED vars
    BY <2>2 DEF TypeOK, vars
  <2>3. QED
    BY <2>1, <2>2
<1>3. QED
  BY <1>1, <1>2, PTL DEF Spec

-----------------------------------------------------------------------------
(* What a step leaves as it was *)

\* The log only grows; a reservation keeps its account and content; an object stays.
StoreGrows ==
  /\ Len(log) <= Len(log')
  /\ \A i \in DOMAIN log : i \in DOMAIN log' /\ log'[i] = log[i]
  /\ \A f \in File : Reserved(f) =>
       /\ Reserved(f)' /\ reserved'[f].who = reserved[f].who
       /\ reserved'[f].print = reserved[f].print
  /\ \A f \in File : object[f] # None => object'[f] = object[f]

\* Unchanged stores count as grown.
LEMMA SameStoreGrows ==
  ASSUME TypeOK, UNCHANGED store
  PROVE  StoreGrows
BY Basics DEF store, StoreGrows, Reserved

\* What is known of a request that does not move stays true when the stores grow.
LEMMA OthersKept ==
  ASSUME IInv, StoreGrows, NEW q \in Requests,
         pc'[q] = pc[q], input'[q] = input[q], seen'[q] = seen[q],
         files'[q] = files[q], access'[q] = access[q], Len(log') \in Nat
  PROVE  SeenInv(q)' /\ FilesInv(q)' /\ AccessInv(q)'
<1>1. /\ TypeOK /\ SeenInv(q) /\ FilesInv(q) /\ AccessInv(q)
      /\ Len(log) \in Nat /\ DOMAIN log = 1 .. Len(log) /\ seen[q] \in Nat
      /\ files[q] \subseteq File
  BY Basics DEF IInv, TypeOK
<1>2. SeenInv(q)'
  <2>1. seen'[q] <= Len(log')
    BY <1>1 DEF SeenInv, StoreGrows
  <2>2. IsRetry(q)' <=> IsRetry(q)
    BY <1>1 DEF SeenInv, IsRetry, StoreGrows
  <2>3. \A i \in DOMAIN log : Told(log'[i]) = Told(log[i])
    BY DEF StoreGrows
  <2>4. Told(input'[q]) = Told(input[q])
    OBVIOUS
  <2>5. pc'[q] \in {"committed", "ok", "duplicate"} =>
          \E i \in DOMAIN log' : log'[i].cmd # None /\ Told(log'[i]) = Told(input'[q])
    BY <1>1, <2>3, <2>4 DEF SeenInv, StoreGrows
  <2>6. QED
    BY <1>1, <2>1, <2>2, <2>5 DEF SeenInv
<1>3. FilesInv(q)'
  <2>1. \A f \in files[q] : /\ Reserved(f)' /\ reserved'[f].who = input[q].who
                            /\ reserved'[f].print = input[q].print
    BY <1>1 DEF FilesInv, StoreGrows
  <2>2. pc[q] = "commit" => \A f \in files[q] : object'[f] = input[q].print
    <3>1. pc[q] = "commit" => \A f \in files[q] : object[f] = input[q].print /\ object[f] # None
      BY <1>1, Basics, CommitAssumption DEF FilesInv
    <3>2. QED
      BY <1>1, <3>1 DEF StoreGrows
  <2>3. QED
    BY <1>1, <2>1, <2>2 DEF FilesInv
<1>4. AccessInv(q)'
  BY <1>1 DEF AccessInv
<1>5. QED
  BY <1>2, <1>3, <1>4

\* The properties of the stores do not change while these do not.
LEMMA SameStore ==
  ASSUME LogOnce, FlowFilesAreStored, NothingIsLost, RetriesShareFiles,
         AppliedToWhatWasSeen, UNCHANGED store
  PROVE  /\ LogOnce' /\ FlowFilesAreStored' /\ NothingIsLost'
         /\ RetriesShareFiles' /\ AppliedToWhatWasSeen'
<1> USE DEF store
<1>1. LogOnce' /\ AppliedToWhatWasSeen'
  BY DEF LogOnce, AppliedToWhatWasSeen
<1>2. FlowFilesAreStored'
  BY DEF FlowFilesAreStored, Reserved
<1>3. NothingIsLost'
  BY DEF NothingIsLost, Reserved, Pending
<1>4. RetriesShareFiles'
  BY DEF RetriesShareFiles, Reserved, Pending
<1>5. QED
  BY <1>1, <1>2, <1>3, <1>4

-----------------------------------------------------------------------------
(* Steps that change nothing but the request *)

\* Before its files are known: access, receipt and revision.
LEMMA EarlySteps ==
  ASSUME IInv, NEW r \in Requests,
         Send(r) \/ ReadFlow(r) \/ Check(r) \/ CheckContent(r)
  PROVE  SeenInv(r)' /\ FilesInv(r)' /\ AccessInv(r)'
<1>1. /\ TypeOK /\ SeenInv(r) /\ FilesInv(r) /\ Len(log) \in Nat
      /\ DOMAIN log = 1 .. Len(log) /\ pc \in [Requests -> Step]
      /\ input \in [Requests -> Input \cup {None}] /\ seen \in [Requests -> Nat]
  BY Basics DEF IInv, TypeOK
<1>2. UNCHANGED <<store, files>>
  BY DEF Send, ReadFlow, Check, CheckContent
<1>3. files[r] = {}
  BY <1>1 DEF Send, ReadFlow, Check, CheckContent, FilesInv, Empty, At
<1>4. CASE Send(r)
  <2>1. pc'[r] = "read" /\ seen'[r] = seen[r]
    BY <1>1, <1>4 DEF Send, Goto
  <2>2. QED
    BY <1>1, <1>2, <1>3, <2>1 DEF store, SeenInv, FilesInv, AccessInv, Checked, Empty
<1>5. CASE ReadFlow(r)
  <2>1. pc'[r] = "check" /\ seen'[r] = Len(log)
    BY <1>1, <1>5 DEF ReadFlow, Goto
  <2>2. QED
    BY <1>1, <1>2, <1>3, <2>1 DEF store, SeenInv, FilesInv, AccessInv, Checked, Empty
<1>6. CASE CheckContent(r)
  <2>1. pc[r] = "content" /\ pc'[r] = "lookup" /\ UNCHANGED <<seen, input>>
    BY <1>1, <1>6 DEF CheckContent, Goto, At
  <2>2. SeenInv(r)'
    BY <1>1, <1>2, <2>1 DEF store, SeenInv, Checked, IsRetry
  <2>3. QED
    BY <1>1, <1>2, <1>3, <2>1, <2>2 DEF store, FilesInv, AccessInv, Checked, Empty
<1>7. CASE Check(r)
  <2>1. pc[r] = "check" /\ UNCHANGED <<seen, input>>
    BY <1>7 DEF Check, At
  <2>2. CASE SameReceipt(r) /\ Goto(r, "duplicate")
    <3>1. PICK i \in 1 .. seen[r] : /\ log[i].cmd = input[r].cmd
                                    /\ log[i].who = input[r].who
                                    /\ log[i].print = input[r].print
      BY <2>2 DEF SameReceipt
    <3>2. i \in DOMAIN log /\ log[i].cmd # None
      BY <1>1, <2>1, <3>1, Basics, CommitAssumption DEF SeenInv
    <3>3. Told(log[i]) = Told(input[r])
      BY <3>1 DEF Told
    <3>4. pc'[r] = "duplicate"
      BY <1>1, <2>2 DEF Goto
    <3>5. SeenInv(r)'
      BY <1>1, <1>2, <2>1, <3>2, <3>3, <3>4 DEF store, SeenInv, Checked
    <3>6. QED
      BY <1>2, <1>3, <3>4, <3>5 DEF store, FilesInv, AccessInv, Checked, Empty
  <2>3. CASE /\ ~IsRetry(r) /\ SeenLatest(r)
             /\ Goto(r, IF Attachments[input[r].print] = {} THEN "access" ELSE "content")
    <3>1. pc'[r] = IF Attachments[input[r].print] = {} THEN "access" ELSE "content"
      BY <1>1, <2>3 DEF Goto
    <3>2. SeenInv(r)'
      BY <1>1, <1>2, <2>1, <2>3, <3>1 DEF store, SeenInv, SeenLatest, IsRetry
    <3>3. {f[2] : f \in files'[r]} = {}
      BY <1>2, <1>3 DEF store
    <3>4. FilesInv(r)'
      BY <1>2, <1>3, <2>1, <3>1, <3>3 DEF store, FilesInv, Checked, Empty
    <3>5. QED
      BY <3>1, <3>2, <3>4 DEF AccessInv
  <2>4. QED
    BY <1>7, <2>2, <2>3 DEF Check
<1>8. QED
  BY <1>4, <1>5, <1>6, <1>7

\* A reservation that is taken is of this account and content, and complete.
LEMMA ReuseInv ==
  ASSUME IInv, NEW r \in Requests, Lookup(r) \/ Reread(r)
  PROVE  SeenInv(r)' /\ FilesInv(r)' /\ AccessInv(r)'
<1>1. /\ TypeOK /\ SeenInv(r) /\ FilesInv(r)
      /\ pc \in [Requests -> Step] /\ files \in [Requests -> SUBSET File]
      /\ UNCHANGED <<store, seen, input>>
  BY DEF IInv, TypeOK, Lookup, Reread
<1>2. pc[r] \in {"lookup", "reread"} /\ pc'[r] \in {"reserved", "insert"}
  BY <1>1 DEF Lookup, Reread, Reuse, At, Goto
<1>3. SeenInv(r)'
  BY <1>1, <1>2 DEF store, SeenInv, Checked, IsRetry
<1>4. AccessInv(r)'
  BY <1>2 DEF AccessInv
<1>5. CASE Reuse(r)
  <2>1. PICK F \in {ByCommand(r), ByContent(r)} :
          Valid(r, F) /\ files' = [files EXCEPT ![r] = F] /\ Goto(r, "reserved")
    BY <1>5 DEF Reuse
  <2>2. files'[r] = F /\ pc'[r] = "reserved"
    BY <1>1, <2>1 DEF Goto
  <2>3. \A f \in F : /\ Reserved(f) /\ reserved[f].who = input[r].who
                     /\ reserved[f].print = input[r].print
    BY <2>1 DEF ByCommand, ByContent, Valid, Pending
  <2>4. {f[2] : f \in F} = Attachments[input[r].print]
    BY <2>1 DEF Valid
  <2>5. FilesInv(r)'
    BY <1>1, <2>2, <2>3, <2>4 DEF store, FilesInv, Empty, Checked, Reserved
  <2>6. QED
    BY <1>3, <1>4, <2>5
<1>6. CASE ~Reuse(r)
  <2>1. pc[r] = "lookup" /\ pc'[r] = "insert" /\ UNCHANGED files
    BY <1>1, <1>6 DEF Lookup, Reread, Goto, At
  <2>2. FilesInv(r)'
    BY <1>1, <2>1 DEF store, FilesInv, Empty, Checked
  <2>3. QED
    BY <1>3, <1>4, <2>2
<1>7. QED
  BY <1>5, <1>6

\* With its files: the bucket is read, the access checked, the answer sent.
LEMMA LateSteps ==
  ASSUME IInv, NEW r \in Requests,
         \/ CheckReserved(r) \/ HeadObject(r) \/ Winner(r) \/ CheckSecond(r)
         \/ CheckAccess(r) \/ Verify(r) \/ Answer(r) \/ Fail(r)
  PROVE  SeenInv(r)' /\ FilesInv(r)' /\ AccessInv(r)'
<1>1. /\ TypeOK /\ SeenInv(r) /\ FilesInv(r) /\ AccessInv(r)
      /\ pc \in [Requests -> Step] /\ access \in [Requests -> Portal \cup {None}]
      /\ portal \in Portal /\ UNCHANGED <<store, seen, input, files>>
  BY DEF IInv, TypeOK, CheckReserved, HeadObject, Winner, CheckSecond, CheckAccess,
         Verify, Answer, Fail, Written
<1>2. CASE CheckReserved(r) \/ HeadObject(r) \/ Winner(r) \/ CheckSecond(r)
  <2>1. /\ pc[r] \in {"reserved", "head", "winner", "second"}
        /\ pc'[r] \in {"head", "put", "second", "access"}
    BY <1>1, <1>2 DEF CheckReserved, HeadObject, Winner, Written, CheckSecond, At, Goto
  <2>2. SeenInv(r)'
    BY <1>1, <2>1 DEF store, SeenInv, Checked, IsRetry
  <2>3. FilesInv(r)'
    BY <1>1, <2>1 DEF store, FilesInv, Checked, Empty, Reserved
  <2>4. QED
    BY <2>1, <2>2, <2>3 DEF AccessInv
<1>3. CASE CheckAccess(r)
  <2>1. /\ pc[r] = "access" /\ pc'[r] = "verify" /\ access'[r] = portal
        /\ Allowed(r)
    BY <1>1, <1>3 DEF CheckAccess, At, Goto
  <2>2. SeenInv(r)'
    BY <1>1, <2>1 DEF store, SeenInv, Checked, IsRetry
  <2>3. FilesInv(r)'
    BY <1>1, <2>1 DEF store, FilesInv, Checked, Empty, Reserved
  <2>4. portal # None
    BY <1>1, CommitAssumption
  <2>5. AccessInv(r)'
    BY <1>1, <2>1, <2>4 DEF AccessInv, Allowed
  <2>6. QED
    BY <2>2, <2>3, <2>5
<1>4. CASE Verify(r)
  <2>1. /\ pc[r] = "verify" /\ pc'[r] = "commit" /\ access'[r] = access[r]
        /\ \A f \in files[r] : object[f] = input[r].print
    BY <1>1, <1>4 DEF Verify, At, Goto
  <2>2. SeenInv(r)'
    BY <1>1, <2>1 DEF store, SeenInv, Checked, IsRetry
  <2>3. FilesInv(r)'
    BY <1>1, <2>1 DEF store, FilesInv, Checked, Empty, Reserved
  <2>4. AccessInv(r)'
    BY <1>1, <2>1 DEF AccessInv
  <2>5. QED
    BY <2>2, <2>3, <2>4
<1>5. CASE Answer(r) \/ Fail(r)
  <2>1. pc'[r] = "failed" \/ (pc[r] = "committed" /\ pc'[r] = "ok")
    <3>1. CASE Answer(r)
      BY <1>1, <3>1 DEF Answer, At, Goto
    <3>2. CASE Fail(r)
      BY <1>1, <3>2 DEF Fail, Goto
    <3>3. QED
      BY <1>5, <3>1, <3>2
  <2>2. SeenInv(r)'
    BY <1>1, <2>1 DEF store, SeenInv, Checked
  <2>3. FilesInv(r)'
    BY <1>1, <2>1 DEF store, FilesInv, Checked, Empty, Reserved
  <2>4. QED
    BY <2>1, <2>2, <2>3 DEF AccessInv
<1>6. QED
  BY <1>2, <1>3, <1>4, <1>5

-----------------------------------------------------------------------------
(* Steps of the stores *)

\* A reservation is added only where none is open for this content.
LEMMA InsertInv ==
  ASSUME IInv, NEW r \in Requests, Insert(r)
  PROVE  /\ StoreGrows
         /\ LogOnce' /\ FlowFilesAreStored' /\ NothingIsLost'
         /\ RetriesShareFiles' /\ AppliedToWhatWasSeen'
         /\ SeenInv(r)' /\ FilesInv(r)' /\ AccessInv(r)'
<1> DEFINE new == {r} \X Attachments[input[r].print]
           row == [who |-> input[r].who, cmd |-> input[r].cmd, print |-> input[r].print,
                   done |-> None]
<1>1. /\ TypeOK /\ SeenInv(r) /\ FilesInv(r) /\ LogOnce /\ FlowFilesAreStored
      /\ NothingIsLost /\ RetriesShareFiles /\ AppliedToWhatWasSeen
      /\ pc \in [Requests -> Step] /\ files[r] \subseteq File
      /\ UNCHANGED <<log, proof, object, portal, original, input, seen, files, bound, head, access>>
  BY DEF IInv, TypeOK, Insert
<1>2. pc[r] = "insert" /\ pc'[r] = "reread"
  BY <1>1 DEF Insert, At, Goto
<1>3. row # None
  <2>1. row \in Reservation
    BY <1>1, <1>2, Basics DEF Reservation
  <2>2. QED
    BY <2>1, CommitAssumption
<1>4. \A f \in File : reserved'[f] = IF Inserts(r) /\ f \in new THEN row ELSE reserved[f]
  BY DEF Insert
<1>5. \A f \in File : f \in new => ~Reserved(f) /\ f[1] = r
  BY <1>2 DEF IInv, FreshFiles, Empty
<1>6. \A f \in File : /\ Reserved(f) => reserved'[f] = reserved[f]
                      /\ Pending(f)' => \/ Pending(f) /\ reserved'[f] = reserved[f]
                                        \/ Inserts(r) /\ f \in new /\ reserved'[f] = row
  BY <1>4, <1>5 DEF Reserved, Pending
<1>7. StoreGrows
  BY <1>1, <1>6, Basics DEF StoreGrows, Reserved
<1>8. LogOnce' /\ AppliedToWhatWasSeen'
  BY <1>1 DEF LogOnce, AppliedToWhatWasSeen
<1>9. FlowFilesAreStored'
  BY <1>1, <1>6, Basics DEF FlowFilesAreStored, Reserved, Entry
<1>10. NothingIsLost'
  <2> SUFFICES ASSUME NEW f \in File
               PROVE  /\ object[f] # None => Reserved(f)' /\ reserved'[f].print = object[f]
                      /\ Reserved(f)' => \/ Pending(f)'
                                         \/ \E i \in DOMAIN log :
                                              log[i].cmd = reserved'[f].done /\ f \in log[i].files
    BY <1>1 DEF NothingIsLost
  <2>1. CASE Reserved(f)
    BY <1>1, <1>6, <2>1 DEF NothingIsLost, Reserved, Pending
  <2>2. CASE ~Reserved(f)
    <3>1. object[f] = None
      BY <1>1, <2>2 DEF NothingIsLost
    <3>2. Reserved(f)' => reserved'[f] = row
      BY <1>4, <2>2 DEF Reserved
    <3>3. QED
      BY <1>3, <3>1, <3>2 DEF Reserved, Pending
  <2>3. QED
    BY <2>1, <2>2
<1>11. RetriesShareFiles'
  <2> SUFFICES ASSUME NEW f \in File, NEW g \in File, Pending(f)', Pending(g)', f[2] = g[2],
                      reserved'[f].who = reserved'[g].who,
                      reserved'[f].print = reserved'[g].print
               PROVE  f = g
    BY <1>1 DEF RetriesShareFiles
  <2>1. ASSUME NEW h \in File, Pending(h), reserved[h].who = input[r].who,
               reserved[h].print = input[r].print
        PROVE  ~Inserts(r)
    BY <2>1 DEF Inserts, ByContent
  <2>2. CASE f \in new /\ g \in new
    BY <2>2 DEF File
  <2>3. CASE Inserts(r) /\ (f \in new) /\ (g \notin new)
    BY <1>4, <1>6, <2>1, <2>3
  <2>4. CASE Inserts(r) /\ (f \notin new) /\ (g \in new)
    BY <1>4, <1>6, <2>1, <2>4
  <2>5. CASE /\ Pending(f) /\ reserved'[f] = reserved[f]
             /\ Pending(g) /\ reserved'[g] = reserved[g]
    BY <1>1, <2>5 DEF RetriesShareFiles
  <2>6. QED
    BY <1>6, <2>2, <2>3, <2>4, <2>5
<1>12. SeenInv(r)'
  BY <1>1, <1>2 DEF SeenInv, Checked, IsRetry
<1>13. FilesInv(r)'
  <2>1. files'[r] = {}
    BY <1>1, <1>2 DEF FilesInv, Empty
  <2>2. QED
    BY <1>2, <2>1 DEF FilesInv, Checked, Empty
<1>14. AccessInv(r)'
  BY <1>2 DEF AccessInv
<1>15. QED
  BY <1>7, <1>8, <1>9, <1>10, <1>11, <1>12, <1>13, <1>14

\* Only the reserved content is written at a reserved key.
LEMMA PutInv ==
  ASSUME IInv, NEW r \in Requests, PutObject(r)
  PROVE  /\ StoreGrows
         /\ LogOnce' /\ FlowFilesAreStored' /\ NothingIsLost'
         /\ RetriesShareFiles' /\ AppliedToWhatWasSeen'
         /\ SeenInv(r)' /\ FilesInv(r)' /\ AccessInv(r)'
<1>1. /\ TypeOK /\ SeenInv(r) /\ FilesInv(r) /\ LogOnce /\ FlowFilesAreStored
      /\ NothingIsLost /\ RetriesShareFiles /\ AppliedToWhatWasSeen
      /\ pc \in [Requests -> Step] /\ files[r] \subseteq File
      /\ object \in [File -> Prints \cup {None}]
      /\ UNCHANGED <<log, reserved, proof, portal, original, input, seen, files, head, access>>
  BY DEF IInv, TypeOK, PutObject
<1>2. pc[r] = "put" /\ pc'[r] \in {"second", "access", "winner"}
  BY <1>1 DEF PutObject, Written, At, Goto
<1>3. PICK f \in files[r] :
        object' = object \/ object' = [object EXCEPT ![f] = input[r].print]
  BY DEF PutObject, NextFile
<1>4. /\ f \in File /\ Reserved(f) /\ reserved[f].print = input[r].print
      /\ (object[f] # None => object[f] = input[r].print)
  BY <1>1 DEF FilesInv, NothingIsLost
<1>5. \A g \in File : /\ (object[g] # None => object'[g] = object[g])
                      /\ object'[g] = object[g] \/ (g = f /\ object'[g] = input[r].print)
  BY <1>1, <1>3, <1>4
<1>6. StoreGrows
  BY <1>1, <1>5, Basics DEF StoreGrows, Reserved
<1>7. LogOnce' /\ AppliedToWhatWasSeen'
  BY <1>1 DEF LogOnce, AppliedToWhatWasSeen
<1>8. FlowFilesAreStored'
  <2>1. \A i \in DOMAIN log : log[i].cmd # None =>
          /\ log[i].print # None /\ log[i].files \subseteq File
    BY <1>1, Basics DEF LogOnce, Entry
  <2>2. QED
    BY <1>1, <1>5, <2>1 DEF FlowFilesAreStored, Reserved
<1>9. NothingIsLost'
  BY <1>1, <1>4, <1>5 DEF NothingIsLost, Reserved, Pending
<1>10. RetriesShareFiles'
  BY <1>1 DEF RetriesShareFiles, Reserved, Pending
<1>11. SeenInv(r)'
  BY <1>1, <1>2 DEF SeenInv, Checked, IsRetry
<1>12. FilesInv(r)'
  BY <1>1, <1>2 DEF FilesInv, Checked, Empty, Reserved
<1>13. AccessInv(r)'
  BY <1>2 DEF AccessInv
<1>14. QED
  BY <1>6, <1>7, <1>8, <1>9, <1>10, <1>11, <1>12, <1>13

\* The commit: what it appends was applied to what was seen, once, with its files.
LEMMA CommitInv ==
  ASSUME IInv, NEW r \in Requests, Commit(r)
  PROVE  /\ StoreGrows
         /\ LogOnce' /\ FlowFilesAreStored' /\ NothingIsLost'
         /\ RetriesShareFiles' /\ AppliedToWhatWasSeen'
         /\ SeenInv(r)' /\ FilesInv(r)' /\ AccessInv(r)'
         /\ \A i \in DOMAIN log : log[i].cmd # input[r].cmd
<1> DEFINE n == Len(log) + 1
           e == Applied(r)
<1>1. /\ TypeOK /\ SeenInv(r) /\ FilesInv(r) /\ LogOnce /\ FlowFilesAreStored
      /\ NothingIsLost /\ RetriesShareFiles /\ AppliedToWhatWasSeen
      /\ pc \in [Requests -> Step] /\ files[r] \subseteq File
      /\ reserved \in [File -> Reservation \cup {None}]
      /\ UNCHANGED <<object, portal, original, input, seen, files, bound, head, access>>
  BY DEF IInv, TypeOK, Commit
<1>2. /\ pc[r] = "commit" /\ pc'[r] = "committed" /\ Len(log) = seen[r]
      /\ \A f \in files[r] : Pending(f)
  BY <1>1 DEF Commit, Commits, At, Goto
<1>3. /\ input[r].who \in Actors /\ input[r].cmd \in Commands
      /\ input[r].print \in Prints /\ input[r].rev \in Nat
      /\ input[r].who # None /\ input[r].cmd # None /\ input[r].print # None
      /\ Len(log) \in Nat /\ DOMAIN log = 1 .. Len(log)
      /\ \A i \in DOMAIN log : log[i] \in Entry
  BY <1>1, <1>2, Basics, CommitAssumption
<1>4. /\ e.who = input[r].who /\ e.cmd = input[r].cmd /\ e.print = input[r].print
      /\ e.saw = input[r].rev /\ e.files = files[r]
  BY DEF Applied
<1>5. /\ Len(log') = n /\ DOMAIN log' = DOMAIN log \cup {n}
      /\ \A i \in DOMAIN log : log'[i] = log[i] /\ i # n
      /\ log'[n] = e
  <2>1. e \in Entry /\ log' = Append(log, e)
    BY <1>1, <1>2, AppliedType DEF Commit
  <2>2. \A i \in DOMAIN log : i # n
    BY <1>3
  <2>3. QED
    BY <1>1, <2>1, <2>2, Appended
<1> HIDE DEF n, e
<1>6. \A i \in DOMAIN log : log[i].cmd # input[r].cmd
  BY <1>1, <1>2, <1>3 DEF SeenInv, Checked, IsRetry
<1>7. \A f \in File :
        /\ proof'[f] = IF f \in files[r] THEN input[r].print ELSE proof[f]
        /\ f \notin files[r] => reserved'[f] = reserved[f]
        /\ f \in files[r] => reserved'[f] = [reserved[f] EXCEPT !.done = input[r].cmd]
  BY <1>1 DEF Commit, Claims, TypeOK
<1>8. \A f \in files[r] :
        /\ Reserved(f) /\ Reserved(f)' /\ reserved'[f].done = input[r].cmd
        /\ reserved'[f].who = reserved[f].who /\ reserved'[f].print = reserved[f].print
        /\ reserved[f].who = input[r].who /\ reserved[f].print = input[r].print
  <2> SUFFICES ASSUME NEW f \in files[r]
               PROVE  /\ Reserved(f) /\ Reserved(f)' /\ reserved'[f].done = input[r].cmd
                      /\ reserved'[f].who = reserved[f].who
                      /\ reserved'[f].print = reserved[f].print
                      /\ reserved[f].who = input[r].who /\ reserved[f].print = input[r].print
    OBVIOUS
  <2>1. /\ Reserved(f) /\ reserved[f].who = input[r].who
        /\ reserved[f].print = input[r].print
    BY <1>1 DEF FilesInv
  <2>2. reserved[f] \in Reservation
    BY <1>1, <2>1 DEF Reserved
  <2>3. reserved'[f] = [reserved[f] EXCEPT !.done = input[r].cmd]
    BY <1>1, <1>7
  <2>4. /\ reserved'[f].done = input[r].cmd /\ reserved'[f].who = reserved[f].who
        /\ reserved'[f].print = reserved[f].print /\ reserved'[f] \in Reservation
    BY <1>3, <2>2, <2>3 DEF Reservation
  <2>5. Reserved(f)'
    BY <2>4, CommitAssumption DEF Reserved
  <2>6. QED
    BY <2>1, <2>4, <2>5
<1>9. \A i \in DOMAIN log : \A f \in log[i].files :
        /\ f \in File /\ f \notin files[r]
        /\ log[i].cmd # None
  <2> SUFFICES ASSUME NEW i \in DOMAIN log, NEW f \in log[i].files
               PROVE  f \in File /\ f \notin files[r] /\ log[i].cmd # None
    OBVIOUS
  <2>1. f \in File /\ log[i].cmd # None
    BY <1>1, <1>3 DEF Entry, LogOnce
  <2>2. reserved[f].done # None
    BY <1>1, <2>1 DEF FlowFilesAreStored
  <2>3. QED
    BY <1>2, <2>1, <2>2 DEF Pending
<1>10. StoreGrows
  <2>1. Len(log) <= Len(log')
    BY <1>3, <1>5 DEF n
  <2>2. \A f \in File : Reserved(f) =>
          /\ Reserved(f)' /\ reserved'[f].who = reserved[f].who
          /\ reserved'[f].print = reserved[f].print
    <3> SUFFICES ASSUME NEW f \in File, Reserved(f)
                 PROVE  /\ Reserved(f)' /\ reserved'[f].who = reserved[f].who
                        /\ reserved'[f].print = reserved[f].print
      OBVIOUS
    <3>1. CASE f \in files[r]
      BY <1>8, <3>1
    <3>2. CASE f \notin files[r]
      BY <1>7, <3>2 DEF Reserved
    <3>3. QED
      BY <3>1, <3>2
  <2>3. QED
    BY <1>1, <1>5, <2>1, <2>2 DEF StoreGrows
<1>11. LogOnce'
  BY <1>1, <1>3, <1>4, <1>5, <1>6 DEF LogOnce
<1>12. FlowFilesAreStored'
  <2> SUFFICES ASSUME NEW i \in DOMAIN log', log'[i].cmd # None
               PROVE  /\ {f[2] : f \in log'[i].files} = Attachments[log'[i].print]
                      /\ \A f \in log'[i].files :
                           /\ object'[f] = log'[i].print /\ proof'[f] = log'[i].print
                           /\ Reserved(f)' /\ reserved'[f].who = log'[i].who
                           /\ reserved'[f].done = log'[i].cmd
    BY DEF FlowFilesAreStored
  <2>1. CASE i \in DOMAIN log
    <3>1. /\ log'[i] = log[i] /\ log[i].cmd # None
          /\ {f[2] : f \in log[i].files} = Attachments[log[i].print]
      BY <1>1, <1>5, <2>1 DEF FlowFilesAreStored
    <3>2. ASSUME NEW f \in log[i].files
          PROVE  /\ object'[f] = log[i].print /\ proof'[f] = log[i].print
                 /\ Reserved(f)' /\ reserved'[f].who = log[i].who
                 /\ reserved'[f].done = log[i].cmd
      <4>1. f \in File /\ f \notin files[r]
        BY <1>9, <2>1
      <4>2. proof'[f] = proof[f] /\ reserved'[f] = reserved[f]
        BY <1>7, <4>1
      <4>3. QED
        BY <1>1, <2>1, <3>1, <4>2 DEF FlowFilesAreStored, Reserved
    <3>3. QED
      BY <3>1, <3>2
  <2>2. CASE i = n
    <3>1. /\ {f[2] : f \in files[r]} = Attachments[input[r].print]
          /\ \A f \in files[r] : object[f] = input[r].print
      BY <1>1, <1>2 DEF FilesInv, Checked, Empty
    <3>2. log'[i].files = files[r] /\ log'[i].print = input[r].print
          /\ log'[i].who = input[r].who /\ log'[i].cmd = input[r].cmd
      BY <1>4, <1>5, <2>2
    <3>3. ASSUME NEW f \in files[r]
          PROVE  /\ object'[f] = input[r].print /\ proof'[f] = input[r].print
                 /\ Reserved(f)' /\ reserved'[f].who = input[r].who
                 /\ reserved'[f].done = input[r].cmd
      <4>1. f \in File /\ object' = object
        BY <1>1
      <4>2. object'[f] = input[r].print
        BY <3>1, <4>1
      <4>3. proof'[f] = input[r].print
        BY <1>7, <4>1
      <4>4. /\ Reserved(f)' /\ reserved'[f].who = input[r].who
            /\ reserved'[f].done = input[r].cmd
        BY <1>8
      <4>5. QED
        BY <4>2, <4>3, <4>4
    <3>4. QED
      BY <3>1, <3>2, <3>3
  <2>3. QED
    BY <1>5, <2>1, <2>2
<1>13. NothingIsLost'
  <2> SUFFICES ASSUME NEW f \in File
               PROVE  /\ object[f] # None => Reserved(f)' /\ reserved'[f].print = object[f]
                      /\ Reserved(f)' => \/ Pending(f)'
                                         \/ \E i \in DOMAIN log' :
                                              log'[i].cmd = reserved'[f].done /\ f \in log'[i].files
    BY <1>1 DEF NothingIsLost
  <2>1. CASE f \in files[r]
    BY <1>1, <1>4, <1>5, <1>8, <2>1 DEF NothingIsLost
  <2>2. CASE f \notin files[r]
    <3>1. reserved'[f] = reserved[f]
      BY <1>7, <2>2
    <3>2. object[f] # None => Reserved(f)' /\ reserved'[f].print = object[f]
      BY <1>1, <3>1 DEF NothingIsLost, Reserved
    <3>3. ASSUME Reserved(f)', ~Pending(f)'
          PROVE  \E i \in DOMAIN log' : log'[i].cmd = reserved'[f].done /\ f \in log'[i].files
      <4>1. PICK i \in DOMAIN log : log[i].cmd = reserved[f].done /\ f \in log[i].files
        BY <1>1, <3>1, <3>3 DEF NothingIsLost, Reserved, Pending
      <4>2. QED
        BY <1>5, <3>1, <4>1
    <3>4. QED
      BY <3>2, <3>3
  <2>3. QED
    BY <2>1, <2>2
<1>14. RetriesShareFiles'
  <2>1. \A f \in File : Pending(f)' => Pending(f) /\ reserved'[f] = reserved[f]
    BY <1>3, <1>7, <1>8 DEF Pending, Reserved
  <2>2. \A f, g \in File :
          /\ Pending(f)' /\ Pending(g)' /\ f[2] = g[2]
          /\ reserved'[f].who = reserved'[g].who /\ reserved'[f].print = reserved'[g].print
          => f = g
    BY <1>1, <2>1 DEF RetriesShareFiles
  <2>3. \A i, j \in DOMAIN log' : i # j => log'[i].files \cap log'[j].files = {}
    BY <1>1, <1>4, <1>5, <1>9 DEF RetriesShareFiles
  <2>4. QED
    BY <2>2, <2>3 DEF RetriesShareFiles
<1>15. AppliedToWhatWasSeen'
  <2>1. e.saw = n - 1
    BY <1>1, <1>2, <1>3, <1>4 DEF SeenInv, Checked, n
  <2>2. QED
    BY <1>1, <1>5, <2>1 DEF AppliedToWhatWasSeen
<1>16. SeenInv(r)'
  <2>1. seen'[r] <= Len(log')
    BY <1>1, <1>2, <1>3, <1>5 DEF n
  <2>2. log'[n].cmd # None /\ Told(log'[n]) = Told(input'[r])
    BY <1>1, <1>3, <1>4, <1>5 DEF Told
  <2>3. QED
    BY <1>2, <1>5, <2>1, <2>2 DEF SeenInv, Checked
<1>17. FilesInv(r)'
  BY <1>1, <1>2, <1>8 DEF FilesInv, Checked, Empty
<1>18. AccessInv(r)'
  BY <1>2 DEF AccessInv
<1>19. QED
  BY <1>6, <1>10, <1>11, <1>12, <1>13, <1>14, <1>15, <1>16, <1>17, <1>18

\* An AI run commits a revision without a command.
LEMMA RunAiInv ==
  ASSUME IInv, RunAi
  PROVE  /\ StoreGrows
         /\ LogOnce' /\ FlowFilesAreStored' /\ NothingIsLost'
         /\ RetriesShareFiles' /\ AppliedToWhatWasSeen'
<1> DEFINE n == Len(log) + 1
<1>1. /\ TypeOK /\ LogOnce /\ FlowFilesAreStored
      /\ NothingIsLost /\ RetriesShareFiles /\ AppliedToWhatWasSeen
      /\ UNCHANGED <<reserved, proof, object, portal, original, own>>
      /\ Len(log) \in Nat /\ DOMAIN log = 1 .. Len(log)
      /\ \A i \in DOMAIN log : log[i] \in Entry
  BY Basics DEF IInv, RunAi
<1>2. /\ Len(log') = n /\ DOMAIN log' = DOMAIN log \cup {n}
      /\ \A i \in DOMAIN log : log'[i] = log[i] /\ i # n
      /\ log'[n] = Generated
  <2>1. Generated \in Entry /\ log' = Append(log, Generated)
    BY <1>1, GeneratedType DEF RunAi
  <2>2. \A i \in DOMAIN log : i # n
    BY <1>1
  <2>3. QED
    BY <1>1, <2>1, <2>2, Appended
<1>3. Generated.cmd = None /\ Generated.files = {}
  BY DEF Generated
<1>4. StoreGrows
  BY <1>1, <1>2 DEF StoreGrows, Reserved
<1> HIDE DEF n
<1>5. LogOnce'
  BY <1>1, <1>2, <1>3 DEF LogOnce
<1>6. FlowFilesAreStored'
  <2> SUFFICES ASSUME NEW i \in DOMAIN log', log'[i].cmd # None
               PROVE  /\ {f[2] : f \in log'[i].files} = Attachments[log'[i].print]
                      /\ \A f \in log'[i].files :
                           /\ object'[f] = log'[i].print /\ proof'[f] = log'[i].print
                           /\ Reserved(f)' /\ reserved'[f].who = log'[i].who
                           /\ reserved'[f].done = log'[i].cmd
    BY DEF FlowFilesAreStored
  <2>1. i \in DOMAIN log /\ log'[i] = log[i]
    BY <1>2, <1>3
  <2>2. QED
    BY <1>1, <2>1 DEF FlowFilesAreStored, Reserved
<1>7. NothingIsLost'
  BY <1>1, <1>2 DEF NothingIsLost, Reserved, Pending
<1>8. RetriesShareFiles'
  BY <1>1, <1>2, <1>3 DEF RetriesShareFiles, Reserved, Pending
<1>9. AppliedToWhatWasSeen'
  BY <1>1, <1>2, <1>3 DEF AppliedToWhatWasSeen
<1>10. QED
  BY <1>4, <1>5, <1>6, <1>7, <1>8, <1>9

-----------------------------------------------------------------------------
(* The invariant *)

\* No request goes back to where its attachments have no reservation.
LEMMA Forward ==
  ASSUME TypeOK, NEW r \in Requests, RequestStep(r)
  PROVE  /\ \A q \in Requests \ {r} : /\ pc'[q] = pc[q] /\ input'[q] = input[q]
                                      /\ seen'[q] = seen[q] /\ files'[q] = files[q]
                                      /\ access'[q] = access[q]
         /\ pc'[r] \in Empty \ {"reread"} => pc[r] \in Empty \ {"reread"}
<1>1. /\ pc \in [Requests -> Step] /\ input \in [Requests -> Input \cup {None}]
      /\ seen \in [Requests -> Nat] /\ files \in [Requests -> SUBSET File]
      /\ access \in [Requests -> Portal \cup {None}]
  BY DEF TypeOK
<1> USE DEF Goto, At, Empty
<1>2. CASE Send(r) \/ ReadFlow(r) \/ Check(r) \/ CheckContent(r)
  BY <1>1, <1>2 DEF Send, ReadFlow, Check, CheckContent
<1>3. CASE Lookup(r) \/ Reread(r) \/ Insert(r)
  BY <1>1, <1>3 DEF Lookup, Reread, Reuse, Insert
<1>4. CASE CheckReserved(r) \/ HeadObject(r) \/ PutObject(r) \/ Winner(r) \/ CheckSecond(r)
  BY <1>1, <1>4 DEF CheckReserved, HeadObject, PutObject, Winner, Written, CheckSecond
<1>5. CASE CheckAccess(r) \/ Verify(r) \/ Commit(r) \/ Answer(r) \/ Fail(r)
  BY <1>1, <1>5 DEF CheckAccess, Verify, Commit, Answer, Fail
<1>6. QED
  BY <1>2, <1>3, <1>4, <1>5 DEF RequestStep

\* A reservation that appears is of the request that inserts.
LEMMA FreshStep ==
  ASSUME IInv, NEW r \in Requests, RequestStep(r)
  PROVE  FreshFiles'
<1>1. /\ TypeOK /\ FreshFiles /\ pc \in [Requests -> Step]
      /\ reserved \in [File -> Reservation \cup {None}]
  BY DEF IInv, TypeOK
<1>2. CASE Insert(r)
  <2>1. pc'[r] = "reread" /\ \A q \in Requests \ {r} : pc'[q] = pc[q]
    BY <1>1, <1>2 DEF Insert, Goto
  <2>2. \A f \in File : Reserved(f)' => Reserved(f) \/ f[1] = r
    BY <1>2 DEF Insert, Reserved
  <2>3. \A f \in File : f[1] \in Requests
    BY DEF File
  <2>4. QED
    BY <1>1, <2>1, <2>2, <2>3 DEF FreshFiles, Empty
<1>3. CASE ~Insert(r)
  <2>1. \A f \in File : Reserved(f)' => Reserved(f)
    <3>1. CASE Commit(r)
      <4>1. \A f \in files[r] : Reserved(f)
        BY <3>1 DEF Commit, Commits, Pending
      <4>2. \A f \in File \ files[r] : reserved'[f] = reserved[f]
        BY <3>1 DEF Commit
      <4>3. QED
        BY <4>1, <4>2 DEF Reserved
    <3>2. CASE ~Commit(r)
      <4>1. reserved' = reserved
        BY <1>3, <3>2 DEF RequestStep, Send, ReadFlow, Check, CheckContent, Lookup, Reread,
             CheckReserved, HeadObject, PutObject, Winner, CheckSecond, CheckAccess, Verify,
             Answer, Fail, store
      <4>2. QED
        BY <4>1 DEF Reserved
    <3>3. QED
      BY <3>1, <3>2
  <2>2. \A f \in File : f[1] \in Requests
    BY DEF File
  <2>3. \A q \in Requests : pc'[q] \in Empty \ {"reread"} => pc[q] \in Empty \ {"reread"}
    BY <1>1, Forward
  <2>4. QED
    BY <1>1, <2>1, <2>2, <2>3 DEF FreshFiles
<1>4. QED
  BY <1>2, <1>3

\* A step of one request keeps what is known of the stores and of every request.
LEMMA RequestInv ==
  ASSUME IInv, NEW r \in Requests, RequestStep(r)
  PROVE  IInv'
<1>1. /\ TypeOK /\ LogOnce /\ FlowFilesAreStored /\ NothingIsLost /\ RetriesShareFiles
      /\ AppliedToWhatWasSeen
  BY DEF IInv
<1>2. TypeOK'
  BY <1>1, OwnTypes, StoreTypes DEF RequestStep
<1>3. FreshFiles'
  BY FreshStep
<1>4. /\ StoreGrows
      /\ LogOnce' /\ FlowFilesAreStored' /\ NothingIsLost'
      /\ RetriesShareFiles' /\ AppliedToWhatWasSeen'
      /\ SeenInv(r)' /\ FilesInv(r)' /\ AccessInv(r)'
  <2>1. CASE Insert(r)
    BY <2>1, InsertInv
  <2>2. CASE PutObject(r)
    BY <2>2, PutInv
  <2>3. CASE Commit(r)
    BY <2>3, CommitInv
  <2>4. CASE ~Insert(r) /\ ~PutObject(r) /\ ~Commit(r)
    <3>1. UNCHANGED store
      BY <2>4 DEF RequestStep, Send, ReadFlow, Check, CheckContent, Lookup, Reread,
           CheckReserved, HeadObject, Winner, CheckSecond, CheckAccess, Verify, Answer, Fail
    <3>2. SeenInv(r)' /\ FilesInv(r)' /\ AccessInv(r)'
      BY <2>4, EarlySteps, ReuseInv, LateSteps DEF RequestStep
    <3>3. QED
      BY <1>1, <3>1, <3>2, SameStore, SameStoreGrows
  <2>5. QED
    BY <2>1, <2>2, <2>3, <2>4
<1>5. Len(log') \in Nat
  BY <1>2, LenProperties DEF TypeOK
<1>6. ASSUME NEW q \in Requests \ {r}
      PROVE  SeenInv(q)' /\ FilesInv(q)' /\ AccessInv(q)'
  <2>1. /\ pc'[q] = pc[q] /\ input'[q] = input[q] /\ seen'[q] = seen[q]
        /\ files'[q] = files[q] /\ access'[q] = access[q]
    BY <1>1, Forward
  <2>2. QED
    BY <1>4, <1>5, <2>1, OthersKept
<1>7. QED
  BY <1>2, <1>3, <1>4, <1>6 DEF IInv

\* The inductive invariant.
LEMMA Inductive == IInv /\ [Next]_vars => IInv'
<1> SUFFICES ASSUME IInv, [Next]_vars PROVE IInv'
  OBVIOUS
<1>1. TypeOK /\ FreshFiles
  BY DEF IInv
<1>2. ASSUME NEW r \in Requests, RequestStep(r)
      PROVE  IInv'
  BY <1>2, RequestInv
<1>3. CASE RunAi
  <2>1. TypeOK'
    BY <1>1, <1>3, StoreTypes
  <2>2. Len(log') \in Nat
    BY <2>1, LenProperties DEF TypeOK
  <2>3. \A q \in Requests : SeenInv(q)' /\ FilesInv(q)' /\ AccessInv(q)'
    BY <1>3, <2>2, RunAiInv, OthersKept DEF RunAi, own
  <2>4. FreshFiles'
    BY <1>1, <1>3 DEF RunAi, own, FreshFiles, Reserved
  <2>5. QED
    BY <1>3, <2>1, <2>3, <2>4, RunAiInv DEF IInv
<1>4. CASE SavePortal \/ LoseOriginal
  <2>1. TypeOK'
    BY <1>1, <1>4, StoreTypes
  <2>2. UNCHANGED <<log, reserved, proof, object, own>>
    BY <1>4 DEF SavePortal, LoseOriginal
  <2>3. StoreGrows
    BY <1>1, <2>2, Basics DEF StoreGrows, Reserved
  <2>4. Len(log') \in Nat
    BY <2>1, LenProperties DEF TypeOK
  <2>5. \A q \in Requests : SeenInv(q)' /\ FilesInv(q)' /\ AccessInv(q)'
    BY <2>2, <2>3, <2>4, OthersKept DEF own
  <2>6. LogOnce' /\ AppliedToWhatWasSeen'
    BY <2>2 DEF IInv, LogOnce, AppliedToWhatWasSeen
  <2>7. FlowFilesAreStored' /\ NothingIsLost'
    BY <2>2 DEF IInv, FlowFilesAreStored, NothingIsLost, Reserved, Pending
  <2>8. RetriesShareFiles' /\ FreshFiles'
    BY <2>2 DEF IInv, RetriesShareFiles, FreshFiles, Reserved, Pending, own
  <2>9. QED
    BY <2>1, <2>5, <2>6, <2>7, <2>8 DEF IInv
<1>5. CASE UNCHANGED vars
  <2>1. TypeOK' /\ FreshFiles'
    BY <1>1, <1>5 DEF vars, TypeOK, FreshFiles, Reserved
  <2>2. Len(log') \in Nat /\ StoreGrows
    BY <1>1, <1>5, Basics DEF vars, StoreGrows, Reserved
  <2>3. \A q \in Requests : SeenInv(q)' /\ FilesInv(q)' /\ AccessInv(q)'
    BY <1>5, <2>2, OthersKept DEF vars
  <2>4. /\ LogOnce' /\ FlowFilesAreStored' /\ NothingIsLost'
        /\ RetriesShareFiles' /\ AppliedToWhatWasSeen'
    BY <1>5, SameStore DEF IInv, vars, store
  <2>5. QED
    BY <2>1, <2>3, <2>4 DEF IInv
<1>6. QED
  BY <1>2, <1>3, <1>4, <1>5 DEF Next

\* It holds of a case without commands.
LEMMA Initially == Init => IInv
<1> SUFFICES ASSUME Init PROVE IInv
  OBVIOUS
<1>1. TypeOK
  BY EmptySeq DEF Init, TypeOK, Portal, Step
<1>2. Len(log) = 0 /\ DOMAIN log = {}
  BY <1>1, Basics, EmptySeq DEF Init
<1>3. LogOnce /\ FlowFilesAreStored /\ AppliedToWhatWasSeen
  BY <1>2 DEF LogOnce, FlowFilesAreStored, AppliedToWhatWasSeen
<1>4. FreshFiles /\ NothingIsLost /\ RetriesShareFiles
  BY <1>2 DEF Init, FreshFiles, NothingIsLost, RetriesShareFiles, Reserved, Pending
<1>5. \A r \in Requests : SeenInv(r) /\ FilesInv(r) /\ AccessInv(r)
  <2> SUFFICES ASSUME NEW r \in Requests
               PROVE  SeenInv(r) /\ FilesInv(r) /\ AccessInv(r)
    OBVIOUS
  <2>1. pc[r] = "new" /\ seen[r] = 0 /\ files[r] = {}
    BY DEF Init
  <2>2. QED
    BY <1>2, <2>1 DEF SeenInv, FilesInv, AccessInv, Checked, Empty
<1>6. QED
  BY <1>1, <1>3, <1>4, <1>5 DEF IInv

\* What commands, reservations, files and every request in progress have in common,
\* in every reachable state (postConsultingFlow as a whole).
THEOREM CommitInvariant == Spec => []IInv
BY Initially, Inductive, PTL DEF Spec

\* What the document says is attached is stored, proved and reserved by its command.
THEOREM FilesStored == Spec => []FlowFilesAreStored
<1>1. IInv => FlowFilesAreStored
  BY DEF IInv
<1>2. QED
  BY <1>1, CommitInvariant, PTL

\* Uploaded bytes are always found again from the database.
THEOREM NeverLost == Spec => []NothingIsLost
<1>1. IInv => NothingIsLost
  BY DEF IInv
<1>2. QED
  BY <1>1, CommitInvariant, PTL

\* One open reservation of a content, one command for a file.
THEOREM RetriesShare == Spec => []RetriesShareFiles
<1>1. IInv => RetriesShareFiles
  BY DEF IInv
<1>2. QED
  BY <1>1, CommitInvariant, PTL

\* A command is applied to the revision its sender saw.
THEOREM SeenApplied == Spec => []AppliedToWhatWasSeen
<1>1. IInv => AppliedToWhatWasSeen
  BY DEF IInv
<1>2. QED
  BY <1>1, CommitInvariant, PTL

\* Two requests that were told their command is applied, and name the same command,
\* sent the same content on behalf of the same account: a command id that is used
\* again for something else is never answered as a success (isFlowCommandRetry).
THEOREM AnswersAgree ==
  Spec => [](\A a, b \in Answered : a.cmd = b.cmd => a = b)
<1>1. IInv => \A a, b \in Answered : a.cmd = b.cmd => a = b
  <2> SUFFICES ASSUME IInv, NEW a \in Answered, NEW b \in Answered, a.cmd = b.cmd
               PROVE  a = b
    OBVIOUS
  <2>1. PICK i \in DOMAIN log : log[i].cmd # None /\ Told(log[i]) = a
    BY DEF Answered, IInv, SeenInv
  <2>2. PICK j \in DOMAIN log : log[j].cmd # None /\ Told(log[j]) = b
    BY DEF Answered, IInv, SeenInv
  <2>3. log[i].cmd = log[j].cmd
    BY <2>1, <2>2 DEF Told
  <2>4. i = j
    BY <2>1, <2>3 DEF IInv, LogOnce
  <2>5. QED
    BY <2>1, <2>2, <2>4
<1>2. QED
  BY <1>1, CommitInvariant, PTL

-----------------------------------------------------------------------------
(* Revocation and the promise *)

\* The payload compared by the commit is the one that allowed the request, and the
\* original of an import is looked for by the commit itself.
THEOREM RevocationHolds == Spec => RevokedNeverCommit
<1>1. IInv /\ [Next]_vars =>
        [\A r \in Requests : pc[r] # "committed" /\ pc'[r] = "committed" =>
             Allowed(r) /\ Stands(r)]_vars
  <2> SUFFICES ASSUME IInv, Next, NEW r \in Requests,
                      pc[r] # "committed", pc'[r] = "committed"
               PROVE  Allowed(r) /\ Stands(r)
    OBVIOUS
  <2>1. TypeOK /\ AccessInv(r) /\ pc \in [Requests -> Step]
    BY DEF IInv, TypeOK
  <2>2. PICK q \in Requests : RequestStep(q)
    BY DEF Next, RunAi, SavePortal, LoseOriginal, own
  <2>3. q = r
    BY <2>1, <2>2, Forward
  <2>4. Commit(r)
    BY <2>1, <2>2, <2>3 DEF RequestStep, Send, ReadFlow, Check, CheckContent, Lookup, Reuse,
         Insert, Reread, CheckReserved, HeadObject, PutObject, Winner, Written, CheckSecond,
         CheckAccess, Verify, Answer, Fail, Goto
  <2>5. pc[r] = "commit" /\ portal = access[r] /\ Stands(r)
    BY <2>4 DEF Commit, Commits, CopyAdmitted, At
  <2>6. QED
    BY <2>1, <2>5 DEF AccessInv, Allowed
<1>2. QED
  BY <1>1, CommitInvariant, PTL DEF Spec, RevokedNeverCommit

\* What an entry is told as.
Tellings == {Told(e) : e \in Entry} \cup {None}
Telling(e) == IF e.cmd = None THEN None ELSE Told(e)

\* A log as the promise sees it.
LEMMA TellingsSeq ==
  ASSUME NEW s \in Seq(Entry), NEW h, h = [i \in DOMAIN s |-> Telling(s[i])]
  PROVE  h \in Seq(Tellings) /\ Len(h) = Len(s)
<1>1. Len(s) \in Nat /\ DOMAIN s = 1 .. Len(s)
  BY LenProperties
<1>2. \A i \in DOMAIN s : s[i] \in Entry
  BY <1>1, ElementOfSeq
<1>3. h \in [1 .. Len(s) -> Tellings]
  BY <1>1, <1>2 DEF Tellings, Telling
<1>4. h \in Seq(Tellings)
  BY <1>1, <1>3, SeqDef
<1>5. QED
  BY <1>1, <1>3, <1>4, LenProperties

\* An entry appended to the log is appended to the history.
LEMMA HistoryGrows ==
  ASSUME TypeOK, NEW e \in Entry, log' = Append(log, e)
  PROVE  History' = Append(History, Telling(e))
<1>1. /\ log' \in Seq(Entry) /\ Len(log') = Len(log) + 1
      /\ DOMAIN log' = DOMAIN log \cup {Len(log) + 1}
      /\ \A i \in DOMAIN log : log'[i] = log[i]
      /\ log'[Len(log) + 1] = e
  BY Appended
<1>2. /\ Len(log) \in Nat /\ DOMAIN log = 1 .. Len(log) /\ log \in Seq(Entry)
  BY Basics DEF TypeOK
<1>3. /\ History = [i \in DOMAIN log |-> Telling(log[i])]
      /\ History' = [i \in DOMAIN log' |-> Telling(log'[i])]
  BY DEF History, Telling
<1>4. /\ History \in Seq(Tellings) /\ Len(History) = Len(log)
      /\ History' \in Seq(Tellings) /\ Len(History') = Len(log) + 1
      /\ Telling(e) \in Tellings
  BY <1>1, <1>2, <1>3, TellingsSeq DEF Tellings, Telling
<1>5. /\ Append(History, Telling(e)) \in Seq(Tellings)
      /\ Len(Append(History, Telling(e))) = Len(log) + 1
      /\ \A i \in 1 .. Len(log) : Append(History, Telling(e))[i] = History[i]
      /\ Append(History, Telling(e))[Len(log) + 1] = Telling(e)
  BY <1>4, AppendProperties
<1>6. \A i \in 1 .. Len(log) : History'[i] = History[i]
  BY <1>1, <1>2, <1>3
<1>7. History'[Len(log) + 1] = Telling(e)
  BY <1>1, <1>2, <1>3
<1>8. \A i \in 1 .. Len(log) + 1 : History'[i] = Append(History, Telling(e))[i]
  BY <1>2, <1>5, <1>6, <1>7
<1>9. QED
  BY <1>4, <1>5, <1>8, SeqEqual

\* A request that was answered does nothing more; the answer of one is one answer.
LEMMA AnsweredGrows ==
  ASSUME TypeOK, NEW r \in Requests, RequestStep(r)
  PROVE  /\ pc'[r] \notin {"ok", "duplicate"} => Answered' = Answered
         /\ pc'[r] \in {"ok", "duplicate"} =>
              /\ Answered' = Answered \cup {Told(input[r])}
              /\ UNCHANGED <<log, input>> /\ pc[r] \in {"committed", "check"}
<1>1. pc[r] \notin {"ok", "duplicate"}
  BY DEF RequestStep, Send, ReadFlow, Check, CheckContent, Lookup, Insert, Reread,
     CheckReserved, HeadObject, PutObject, Winner, CheckSecond, CheckAccess, Verify, Commit,
     Answer, Fail, At, Ended
<1>2. \A q \in Requests \ {r} : pc'[q] = pc[q] /\ Told(input'[q]) = Told(input[q])
  BY Forward
<1>3. pc'[r] \notin {"ok", "duplicate"} => Answered' = Answered
  BY <1>1, <1>2 DEF Answered
<1>4. ASSUME pc'[r] \in {"ok", "duplicate"}
      PROVE  UNCHANGED <<log, input>> /\ pc[r] \in {"committed", "check"}
  <2>1. pc \in [Requests -> Step]
    BY DEF TypeOK
  <2>2. Answer(r) \/ Check(r)
    BY <1>4, <2>1 DEF RequestStep, Send, ReadFlow, CheckContent, Lookup, Reuse, Insert,
       Reread, CheckReserved, HeadObject, PutObject, Winner, Written, CheckSecond,
       CheckAccess, Verify, Commit, Fail, Goto
  <2>3. QED
    BY <2>2 DEF Answer, Check, At, store
<1>5. ASSUME pc'[r] \in {"ok", "duplicate"}
      PROVE  Answered' = Answered \cup {Told(input[r])}
  <2>1. input' = input
    BY <1>4, <1>5
  <2>2. {q \in Requests : pc'[q] \in {"ok", "duplicate"}} =
          {q \in Requests : pc[q] \in {"ok", "duplicate"}} \cup {r}
    BY <1>2, <1>5
  <2>3. QED
    BY <2>1, <2>2 DEF Answered
<1>6. QED
  BY <1>3, <1>4, <1>5

\* A step of a request is a step of the promise, or none.
LEMMA RequestPromise ==
  ASSUME IInv, NEW r \in Requests, RequestStep(r)
  PROVE  [Promise!Next]_(Promise!vars)
<1>1. TypeOK /\ pc \in [Requests -> Step]
  BY DEF IInv, TypeOK
<1>2. pc[r] # "new" => Told(input[r]) \in Promise!Sent
  BY <1>1, Basics DEF Told, Promise!Sent
<1>3. CASE Commit(r)
  <2>1. pc[r] = "commit" /\ pc'[r] = "committed" /\ log' = Append(log, Applied(r))
    BY <1>1, <1>3 DEF Commit, At, Goto
  <2>2. /\ Applied(r) \in Entry /\ Applied(r).cmd # None
        /\ Told(Applied(r)) = Told(input[r])
    <3>1. Applied(r).cmd = input[r].cmd /\ input[r].cmd \in Commands
      BY <1>1, <2>1, Basics DEF Applied
    <3>2. Applied(r).cmd # None
      BY <3>1, CommitAssumption
    <3>3. QED
      BY <1>1, <2>1, <3>2, AppliedType DEF Told, Applied
  <2>3. History' = Append(History, Told(input[r]))
    BY <1>1, <2>1, <2>2, HistoryGrows DEF Telling
  <2>4. Answered' = Answered
    BY <1>1, <2>1, AnsweredGrows
  <2>5. \A i \in DOMAIN log : log[i].cmd # input[r].cmd
    BY <1>3, CommitInv
  <2>6. \A i \in DOMAIN History : History[i] # None => History[i].cmd # Told(input[r]).cmd
    BY <2>5 DEF History, Told
  <2>7. Promise!Apply(Told(input[r]))
    BY <2>3, <2>4, <2>6 DEF Promise!Apply
  <2>8. QED
    BY <1>2, <2>1, <2>7 DEF Promise!Next
<1>4. CASE pc'[r] \in {"ok", "duplicate"}
  <2>1. /\ Answered' = Answered \cup {Told(input[r])}
        /\ UNCHANGED <<log, input>> /\ pc[r] \in {"committed", "check"}
    BY <1>1, <1>4, AnsweredGrows
  <2>2. History' = History
    BY <2>1 DEF History
  <2>3. PICK i \in DOMAIN log' : log'[i].cmd # None /\ Told(log'[i]) = Told(input'[r])
    <3>1. SeenInv(r)'
      BY RequestInv DEF IInv
    <3>2. QED
      BY <1>4, <3>1 DEF SeenInv
  <2>4. i \in DOMAIN History /\ History[i] = Told(input[r])
    BY <2>1, <2>3 DEF History
  <2>5. Promise!Answer(Told(input[r]))
    BY <2>1, <2>2, <2>4 DEF Promise!Answer
  <2>6. QED
    BY <1>2, <2>1, <2>5 DEF Promise!Next
<1>5. CASE ~Commit(r) /\ pc'[r] \notin {"ok", "duplicate"}
  <2>1. Answered' = Answered
    BY <1>1, <1>5, AnsweredGrows
  <2>2. log' = log
    BY <1>5 DEF RequestStep, Send, ReadFlow, Check, CheckContent, Lookup, Insert, Reread,
       CheckReserved, HeadObject, PutObject, Winner, CheckSecond, CheckAccess, Verify, Answer,
       Fail, store
  <2>3. QED
    BY <2>1, <2>2 DEF History, Promise!vars
<1>6. QED
  BY <1>3, <1>4, <1>5

\* Commands are applied once and only what was applied is reported, whatever was
\* retried, lost or overtaken: FlowCommit implements CommandLog.
THEOREM Refinement == Spec => ImplementsCommandLog
<1>1. Init => Promise!Init
  <2> SUFFICES ASSUME Init PROVE Promise!Init
    OBVIOUS
  <2>1. History = <<>>
    <3>1. TypeOK /\ Len(log) = 0
      BY Initially, EmptySeq DEF IInv, Init
    <3>2. History \in Seq(Tellings) /\ Len(History) = 0
      BY <3>1, TellingsSeq DEF TypeOK, History, Telling
    <3>3. QED
      BY <3>2, EmptySeq
  <2>2. Answered = {}
    BY DEF Init, Answered
  <2>3. QED
    BY <2>1, <2>2 DEF Promise!Init
<1>2. IInv /\ [Next]_vars => [Promise!Next]_(Promise!vars)
  <2> SUFFICES ASSUME IInv, [Next]_vars PROVE [Promise!Next]_(Promise!vars)
    OBVIOUS
  <2>1. ASSUME NEW r \in Requests, RequestStep(r)
        PROVE  [Promise!Next]_(Promise!vars)
    BY <2>1, RequestPromise
  <2>2. CASE RunAi
    <3>1. History' = Append(History, None)
      BY <2>2, GeneratedType, HistoryGrows DEF IInv, RunAi, Generated, Telling
    <3>2. Answered' = Answered
      BY <2>2 DEF RunAi, own, Answered
    <3>3. QED
      BY <3>1, <3>2 DEF Promise!Next, Promise!DoWork
  <2>3. CASE SavePortal \/ LoseOriginal \/ UNCHANGED vars
    BY <2>3 DEF SavePortal, LoseOriginal, own, vars, History, Answered, Promise!vars
  <2>4. QED
    BY <2>1, <2>2, <2>3 DEF Next
<1>3. QED
  BY <1>1, <1>2, CommitInvariant, PTL DEF Spec, ImplementsCommandLog, Promise!Spec
=============================================================================
