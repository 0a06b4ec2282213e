------------------------ MODULE SupabaseBucketProofs ------------------------
(***************************************************************************)
(* Proofs about SupabaseBucket, for every number of calls and every bytes. *)
(***************************************************************************)
EXTENDS SupabaseBucket, TLAPS

-----------------------------------------------------------------------------
(* Types *)

\* Operations have the fields that their kind says.
LEMMA OpFields ==
  ASSUME NEW o \in Ops
  PROVE  /\ o # None
         /\ o.kind \in {"head", "get", "put", "delete"}
         /\ o.kind \in {"head", "get"} <=> o \in Reads
         /\ o.kind = "put" => o.body \in Contents /\ o.body # None
                              /\ o.cond \in {"none", "absent"} \cup Contents
BY BucketAssumption DEF Ops, Reads, Puts

\* The first step of a call is one of the steps.
LEMMA FirstType ==
  ASSUME NEW o \in Ops
  PROVE  /\ First(o) \in Steps /\ First(o) \notin {"new", "late", "ended"}
         /\ o.kind = "put" => First(o) \in {"upload", "refused"}
         /\ o.kind = "delete" => First(o) \in {"write", "deleted"}
         /\ o.kind \in {"head", "get"} => First(o) \in {"stat", "absent"}
BY OpFields DEF First, Steps

-----------------------------------------------------------------------------
(* The inductive invariant *)

\* A call that has not begun has left no trace.
Unborn(c) == (pc[c] = "new") =>
  op[c] = None /\ seen[c] = None /\ told[c] = None /\ c \notin versions /\ c # head

\* One that has begun keeps the operation it was asked for.
Born(c) == (pc[c] # "new") => op[c] \in Ops

\* A head is a call that wrote; calls compare with the heads they have seen.
WrittenHead(h) == (h # None) =>
  /\ h \in Clients /\ pc[h] \in {"stored", "deleted"} /\ op[h] \in Ops
  /\ op[h].kind = "put" => h \in versions

\* Where each kind of call can be.
Place(c) == (pc[c] # "new") =>
  /\ op[c].kind = "put" =>
       pc[c] \in {"upload", "verify", "write", "late", "stored", "refused", "ended"}
  /\ op[c].kind = "delete" => pc[c] \in {"write", "late", "deleted", "ended"}
  /\ op[c].kind \in {"head", "get"} => pc[c] \in {"stat", "fetch", "absent", "ended"}

\* What was read when the call began is what it works on.
Reading(c) ==
  /\ (pc[c] # "new" /\ op[c].kind \in {"head", "get"} /\ pc[c] # "absent") => Live(seen[c])
  /\ pc[c] \in {"upload", "verify", "write", "late"} =>
       IF op[c].kind = "put" THEN Meets(op[c], seen[c]) ELSE Live(seen[c])
  /\ pc[c] \in {"upload", "verify", "write", "late"} => c # head

\* The bytes of a version were verified before it could be written.
Bytes(c) ==
  /\ (c \in versions) => blob[c] \in {"whole", "lost"}
  /\ pc[c] \in {"write", "late"} /\ op[c].kind = "put" => blob[c] \in {"whole", "lost"}
  /\ pc[c] \in {"upload", "verify", "write", "late"} => c \notin versions

\* A caller is told what happened, or that it is unknown.
Telling(c) ==
  /\ (pc[c] = "late") => told[c] = "unknown"
  /\ pc[c] \in {"stat", "fetch", "upload", "verify", "write"} => told[c] = None

CallInv(c) == /\ Unborn(c) /\ Born(c) /\ Place(c) /\ Reading(c) /\ Bytes(c) /\ Telling(c)
              /\ WrittenHead(seen[c])

IInv == TypeOK /\ WrittenHead(head) /\ \A c \in Clients : CallInv(c)

LEMMA Initially == Init => IInv
BY BucketAssumption DEF Init, IInv, CallInv, TypeOK, Steps, Unborn, Born, Place, Reading, Bytes,
   Telling, WrittenHead

\* What a head stands for never changes.
LEMMA Settled ==
  ASSUME IInv, [Next]_vars, NEW h \in Clients, pc[h] # "new"
  PROVE  /\ op'[h] = op[h] /\ seen'[h] = seen[h] /\ pc'[h] # "new"
         /\ Object(h)' = Object(h)
         /\ Live(h)' = Live(h)
<1>1. op'[h] = op[h] /\ seen'[h] = seen[h] /\ pc'[h] # "new"
  BY FirstType DEF IInv, TypeOK, Next, vars, Begin, Stat, Fetch, Upload, Verify, Publish, Remove,
     Return, Fail, Lose, At, Goto, Leave
<1>2. QED
  BY <1>1 DEF Object, Live

\* No step but its own touches a call; heads and versions grow by calls that write.
LEMMA Others ==
  ASSUME IInv, NEW c \in Clients, NEW d \in Clients, d # c,
         \/ Begin(c) \/ Stat(c) \/ Fetch(c) \/ Upload(c) \/ Verify(c)
         \/ Publish(c) \/ Remove(c) \/ Return(c) \/ Fail(c) \/ Lose(c)
  PROVE  /\ pc'[d] = pc[d] /\ op'[d] = op[d] /\ seen'[d] = seen[d] /\ told'[d] = told[d]
         /\ blob'[d] = blob[d] /\ (d \in versions' <=> d \in versions)
         /\ d = head' => d = head
BY DEF IInv, TypeOK, Begin, Stat, Fetch, Upload, Verify, Publish, Remove,
   Return, Fail, Lose, At, Goto, Tell, Leave

\* Types are kept.
LEMMA TypeStep ==
  ASSUME IInv, [Next]_vars
  PROVE  TypeOK'
<1> USE DEF At, Goto, Tell, Leave
<1>1. ASSUME NEW c \in Clients, Begin(c)
      PROVE  TypeOK'
  <2>1. PICK o \in Ops : op' = [op EXCEPT ![c] = o] /\ pc' = [pc EXCEPT ![c] = First(o)]
    BY <1>1 DEF Begin
  <2>2. First(o) \in Steps
    BY FirstType
  <2>3. QED
    BY <1>1, <2>1, <2>2 DEF Begin, IInv, TypeOK
<1>2. ASSUME NEW c \in Clients, Stat(c) \/ Fetch(c)
      PROVE  TypeOK'
  <2>1. Live(seen[c])
    BY <1>2 DEF Stat, Fetch, IInv, CallInv, Reading, Place, Born, TypeOK, Ops, Puts, Reads
  <2>2. seen[c] \in Clients /\ op[seen[c]] \in Ops
    BY <2>1 DEF IInv, CallInv, WrittenHead, Live
  <2>3. op[seen[c]].body \in Contents
    BY <2>1, <2>2, OpFields DEF Live
  <2>4. QED
    BY <1>2, <2>3 DEF Stat, Fetch, IInv, TypeOK, Steps
<1>3. ASSUME NEW c \in Clients,
             \/ Upload(c) \/ Verify(c) \/ Publish(c) \/ Remove(c) \/ Return(c) \/ Lose(c)
      PROVE  TypeOK'
  BY <1>3 DEF Upload, Verify, Publish, Remove, Return, Lose, IInv, TypeOK, Steps, Verdicts
<1>4. ASSUME NEW c \in Clients, Fail(c)
      PROVE  TypeOK'
  BY <1>4 DEF Fail, IInv, TypeOK, Steps, Verdicts
<1>5. CASE UNCHANGED vars
  BY <1>5 DEF vars, IInv, TypeOK
<1>6. QED
  BY <1>1, <1>2, <1>3, <1>4, <1>5 DEF Next

\* What a head is known by stays, whatever the step.
LEMMA HeadStays ==
  ASSUME IInv, [Next]_vars, NEW h \in Clients \cup {None}, WrittenHead(h)
  PROVE  WrittenHead(h)'
<1>1. CASE h = None
  BY <1>1 DEF WrittenHead
<1>2. CASE h # None
  <2>1. /\ h \in Clients /\ pc[h] \in {"stored", "deleted"} /\ op[h] \in Ops
        /\ op[h].kind = "put" => h \in versions
    BY <1>2 DEF WrittenHead
  <2>2. op'[h] = op[h]
    BY <2>1, Settled
  <2>3. pc'[h] = pc[h] /\ (h \in versions => h \in versions')
    BY <2>1 DEF IInv, TypeOK, Next, vars, Begin, Stat, Fetch, Upload, Verify, Publish, Remove,
       Return, Fail, Lose, At, Goto, Tell, Leave, Verdicts
  <2>4. QED
    BY <2>1, <2>2, <2>3 DEF WrittenHead
<1>3. QED
  BY <1>1, <1>2

\* What a call relies on is not disturbed by others.
LEMMA OtherInv ==
  ASSUME IInv, NEW c \in Clients, NEW d \in Clients, d # c,
         \/ Begin(c) \/ Stat(c) \/ Fetch(c) \/ Upload(c) \/ Verify(c)
         \/ Publish(c) \/ Remove(c) \/ Return(c) \/ Fail(c) \/ Lose(c)
  PROVE  CallInv(d)'
<1>1. [Next]_vars
  BY DEF Next
<1>2. /\ pc'[d] = pc[d] /\ op'[d] = op[d] /\ seen'[d] = seen[d] /\ told'[d] = told[d]
      /\ blob'[d] = blob[d] /\ (d \in versions' <=> d \in versions)
      /\ d = head' => d = head
  BY Others
<1>3. CallInv(d) /\ seen[d] \in Clients \cup {None}
  BY DEF IInv, TypeOK
<1>4. WrittenHead(seen[d])'
  BY <1>1, <1>2, <1>3, HeadStays DEF CallInv, WrittenHead
<1>5. Live(seen[d])' = Live(seen[d]) /\ (Live(seen[d]) => op'[seen[d]] = op[seen[d]])
  <2>1. CASE seen[d] = None
    BY <1>2, <2>1 DEF Live
  <2>2. CASE seen[d] # None
    <3>1. seen[d] \in Clients /\ pc[seen[d]] # "new"
      BY <1>3, <2>2 DEF CallInv, WrittenHead
    <3>2. QED
      BY <1>1, <1>2, <3>1, Settled DEF Live
  <2>3. QED
    BY <2>1, <2>2
<1>6. Meets(op[d], seen[d]) => Meets(op[d], seen[d])'
  BY <1>2, <1>5 DEF Meets
<1>7. Reading(d)'
  BY <1>2, <1>3, <1>5, <1>6 DEF CallInv, Reading
<1>8. Unborn(d)' /\ Born(d)' /\ Place(d)'
  BY <1>2, <1>3 DEF CallInv, Unborn, Born, Place
<1>9. Bytes(d)' /\ Telling(d)'
  BY <1>2, <1>3 DEF CallInv, Bytes, Telling
<1>10. QED
  BY <1>4, <1>7, <1>8, <1>9 DEF CallInv

\* The step a call takes keeps what is known of it.
LEMMA OwnInv ==
  ASSUME IInv, NEW c \in Clients,
         \/ Begin(c) \/ Stat(c) \/ Fetch(c) \/ Upload(c) \/ Verify(c)
         \/ Publish(c) \/ Remove(c) \/ Return(c) \/ Fail(c) \/ Lose(c)
  PROVE  CallInv(c)' /\ WrittenHead(head)'
<1> USE DEF At, Goto, Tell, Leave
<1>1. [Next]_vars /\ TypeOK /\ CallInv(c) /\ WrittenHead(head) /\ TypeOK'
  BY TypeStep DEF Next, IInv
<1>2. head \in Clients \cup {None} /\ seen[c] \in Clients \cup {None}
  BY <1>1 DEF TypeOK
<1>3. WrittenHead(head)' \/ head' # head
  BY <1>1, <1>2, HeadStays DEF WrittenHead
<1>4. (pc[c] # "new") => WrittenHead(seen[c])'
  <2>1. SUFFICES ASSUME pc[c] # "new" PROVE WrittenHead(seen[c])'
    OBVIOUS
  <2>2. seen'[c] = seen[c]
    BY <1>1, <2>1, Settled
  <2>3. QED
    BY <1>1, <1>2, <2>2, HeadStays DEF CallInv, WrittenHead
<1>5. (pc[c] # "new") => op'[c] = op[c] /\ seen'[c] = seen[c]
                         /\ Live(seen[c])' = Live(seen[c])
                         /\ (Live(seen[c]) => op'[seen[c]] = op[seen[c]])
  <2>1. CASE seen[c] = None
    BY <1>1, <2>1, Settled DEF Live
  <2>2. CASE seen[c] # None
    <3>1. seen[c] \in Clients /\ pc[seen[c]] # "new"
      BY <1>1, <2>2 DEF CallInv, WrittenHead
    <3>2. QED
      BY <1>1, <3>1, Settled DEF Live
  <2>3. QED
    BY <2>1, <2>2
<1>6. (pc[c] # "new") => (Meets(op[c], seen[c]) => Meets(op[c], seen[c])')
  BY <1>5 DEF Meets
<1>7. CASE Begin(c)
  <2>1. PICK o \in Ops : op' = [op EXCEPT ![c] = o] /\ pc' = [pc EXCEPT ![c] = First(o)]
    BY <1>7 DEF Begin
  <2>2. /\ op'[c] = o /\ pc'[c] = First(o) /\ seen'[c] = head /\ told'[c] = None
        /\ UNCHANGED <<head, versions, blob>> /\ c # head /\ c \notin versions
    BY <1>1, <1>7, <2>1 DEF Begin, TypeOK, CallInv, Unborn
  <2>3. WrittenHead(head)' /\ WrittenHead(seen[c])'
    BY <1>3, <2>2 DEF WrittenHead
  <2>4. Live(head)' = Live(head) /\ (Meets(o, head)' <=> Meets(o, head))
    <3>1. head # None => op'[head] = op[head]
      BY <1>1, <2>1, <2>2 DEF WrittenHead, TypeOK
    <3>2. QED
      BY <2>2, <3>1 DEF Live, Meets
  <2>5. pc'[c] \notin {"new", "late", "ended"} /\ o.kind \in {"head", "get", "put", "delete"}
    BY <2>2, FirstType, OpFields
  <2>6. Place(c)'
    BY <2>2, FirstType DEF Place
  <2>7. Reading(c)'
    <3>1. pc'[c] = "upload" => o.kind = "put" /\ Meets(o, head)
      BY <2>2, FirstType, OpFields DEF First
    <3>2. pc'[c] \in {"stat", "write"} => o.kind # "put" /\ Live(head)
      BY <2>2, FirstType, OpFields DEF First
    <3>3. pc'[c] \notin {"verify", "late"}
      BY <2>2, <2>5, FirstType
    <3>4. o.kind \in {"head", "get"} => pc'[c] \in {"stat", "absent"}
      BY <2>2, FirstType
    <3>5. Meets(op[c], seen[c])' = Meets(o, head)
      BY <2>2, <2>4 DEF Meets
    <3>6. Live(seen[c])' = Live(head)
      BY <2>2, <2>4 DEF Live
    <3>7. QED
      BY <2>2, <3>1, <3>2, <3>3, <3>4, <3>5, <3>6 DEF Reading
  <2>8. Bytes(c)' /\ Telling(c)' /\ Unborn(c)' /\ Born(c)'
    BY <2>2, <2>5, FirstType DEF Bytes, Telling, Unborn, Born
  <2>9. QED
    BY <2>3, <2>6, <2>7, <2>8 DEF CallInv
<1>8. CASE Stat(c) \/ Fetch(c) \/ Upload(c) \/ Verify(c)
  <2>1. pc[c] # "new" /\ UNCHANGED <<head, versions>> /\ op[c] \in Ops
    BY <1>1, <1>8 DEF Stat, Fetch, Upload, Verify, CallInv, Born, TypeOK
  <2>2. op[c].kind \in {"head", "get", "put", "delete"}
    BY <2>1, OpFields
  <2>3. Unborn(c)' /\ Born(c)' /\ Place(c)' /\ Telling(c)' /\ WrittenHead(seen[c])'
    BY <1>1, <1>4, <1>5, <1>8, <2>1, <2>2
       DEF Stat, Fetch, Upload, Verify, CallInv, Unborn, Born, Place, Telling, TypeOK
  <2>4. Reading(c)'
    BY <1>1, <1>5, <1>6, <1>8, <2>1, <2>2
       DEF Stat, Fetch, Upload, Verify, CallInv, Reading, Place, TypeOK
  <2>5. Bytes(c)'
    BY <1>1, <1>5, <1>8, <2>1, <2>2
       DEF Stat, Fetch, Upload, Verify, Verified, CallInv, Bytes, Place, TypeOK
  <2>6. QED
    BY <1>3, <2>1, <2>3, <2>4, <2>5 DEF CallInv
<1>9. CASE Publish(c) \/ Remove(c)
  <2>1. /\ pc[c] \in {"write", "late"} /\ op[c] \in Ops /\ pc'[c] \in {"stored", "refused", "deleted"}
        /\ op[c].kind \in {"put", "delete"} /\ op'[c] = op[c] /\ seen'[c] = seen[c] /\ blob' = blob
        /\ op[c].kind = "put" => pc'[c] \in {"stored", "refused"} /\ c \in versions'
        /\ op[c].kind = "delete" => pc'[c] = "deleted" /\ versions' = versions
        /\ head' = head \/ (head' = c /\ pc'[c] \in {"stored", "deleted"})
    BY <1>1, <1>9 DEF Publish, Remove, CallInv, Born, TypeOK
  <2>2. WrittenHead(head)'
    BY <1>3, <2>1 DEF WrittenHead
  <2>3. Unborn(c)' /\ Born(c)' /\ Place(c)' /\ Telling(c)' /\ WrittenHead(seen[c])'
    BY <1>4, <2>1 DEF Unborn, Born, Place, Telling
  <2>4. Reading(c)' /\ Bytes(c)'
    BY <1>1, <2>1 DEF CallInv, Reading, Bytes
  <2>5. QED
    BY <2>2, <2>3, <2>4 DEF CallInv
<1>10. CASE Return(c)
  <2>1. /\ pc[c] \in Verdicts /\ UNCHANGED <<head, versions, blob, pc, op, seen>>
    BY <1>10 DEF Return
  <2>2. Live(seen[c])' = Live(seen[c])
    BY <2>1 DEF Live
  <2>3. QED
    BY <1>1, <1>3, <1>4, <2>1, <2>2
       DEF Verdicts, CallInv, Unborn, Born, Place, Reading, Bytes, Telling, WrittenHead
<1>11. CASE Fail(c)
  <2>1. /\ pc[c] \notin {"new", "late", "ended"} /\ told'[c] = "unknown"
        /\ UNCHANGED <<head, versions, blob, op, seen>>
        /\ pc[c] = "write" => pc'[c] = "late"
        /\ pc[c] \in Verdicts => pc'[c] = pc[c]
        /\ pc[c] \notin {"write"} \cup Verdicts => pc'[c] = "ended"
    BY <1>1, <1>11 DEF Fail, TypeOK, Verdicts
  <2>2. WrittenHead(head)'
    BY <1>3, <2>1
  <2>3. Unborn(c)' /\ Born(c)' /\ Place(c)' /\ Telling(c)' /\ WrittenHead(seen[c])' /\ Bytes(c)'
    BY <1>1, <1>4, <2>1 DEF Verdicts, CallInv, Unborn, Born, Place, Telling, Bytes
  <2>4. Reading(c)'
    BY <1>1, <1>5, <1>6, <2>1 DEF Verdicts, CallInv, Reading
  <2>5. QED
    BY <2>2, <2>3, <2>4 DEF CallInv
<1>12. CASE Lose(c)
  <2>1. /\ blob[c] = "whole" /\ blob'[c] = "lost"
        /\ UNCHANGED <<head, versions, pc, op, seen, told>>
    BY <1>1, <1>12 DEF Lose, TypeOK
  <2>2. /\ Live(seen[c])' = Live(seen[c]) /\ (Meets(op[c], seen[c])' <=> Meets(op[c], seen[c]))
        /\ (WrittenHead(seen[c])' <=> WrittenHead(seen[c])) /\ (WrittenHead(head)' <=> WrittenHead(head))
    BY <2>1 DEF Live, Meets, WrittenHead
  <2>3. Bytes(c)' /\ Reading(c)'
    BY <1>1, <2>1, <2>2 DEF CallInv, Bytes, Reading
  <2>4. QED
    BY <1>1, <2>1, <2>2, <2>3 DEF CallInv, Unborn, Born, Place, Telling
<1>13. QED
  BY <1>7, <1>8, <1>9, <1>10, <1>11, <1>12

LEMMA Inductive == IInv /\ [Next]_vars => IInv'
<1> SUFFICES ASSUME IInv, [Next]_vars PROVE IInv'
  OBVIOUS
<1>1. TypeOK'
  BY TypeStep
<1>2. ASSUME NEW c \in Clients,
             \/ Begin(c) \/ Stat(c) \/ Fetch(c) \/ Upload(c) \/ Verify(c)
             \/ Publish(c) \/ Remove(c) \/ Return(c) \/ Fail(c) \/ Lose(c)
      PROVE  WrittenHead(head)' /\ \A d \in Clients : CallInv(d)'
  BY <1>2, OwnInv, OtherInv
<1>3. CASE UNCHANGED vars
  BY <1>3 DEF vars, IInv, TypeOK, CallInv, Unborn, Born, Place, Reading, Bytes, Telling,
     WrittenHead, Live, Meets
<1>4. QED
  BY <1>1, <1>2, <1>3 DEF Next, IInv

\* The inductive invariant, for any number of overlapping calls.
THEOREM Invariant == Spec => []IInv
BY Initially, Inductive, PTL DEF Spec

\* Type correctness.
THEOREM TypeCorrect == Spec => []TypeOK
<1>1. IInv => TypeOK
  BY DEF IInv
<1>2. QED
  BY <1>1, Invariant, PTL

\* Whatever became of uploads and their replies, a published version was read back
\* whole: only a loss in the provider can make it unreadable.
THEOREM PublishedWhole == Spec => []PublishedWereWhole
<1>1. IInv => PublishedWereWhole
  BY DEF IInv, TypeOK, CallInv, Bytes, PublishedWereWhole
<1>2. QED
  BY <1>1, Invariant, PTL

-----------------------------------------------------------------------------
(* The refinement *)

Overtaken == {c \in Clients : op[c] # None /\ head \notin {seen[c], c}}
Outcomes  == [c \in Clients |-> Outcome(c)]

\* Conditions are about the object that the head stands for.
LEMMA MeetsHolds ==
  ASSUME NEW o \in Ops, o.kind = "put", NEW h, WrittenHead(h), Object(h) = Object(head)
  PROVE  Meets(o, h) <=> Promise!Holds(o.cond)
<1>1. o.cond \in {"none", "absent"} \cup Contents
  BY OpFields
<1>2. Live(h) => Object(h) = op[h].body /\ op[h].body \in Contents /\ op[h].body # None
  BY OpFields DEF Live, Object, WrittenHead
<1>3. ~Live(h) => Object(h) = None
  BY DEF Object
<1>4. \A x \in Contents : x # None /\ x # "none" /\ x # "absent"
  BY BucketAssumption
<1>5. QED
  BY <1>1, <1>2, <1>3, <1>4 DEF Meets, Promise!Holds

\* The abstract object is there exactly while the head is live.
LEMMA LiveObject ==
  ASSUME NEW h, WrittenHead(h)
  PROVE  Live(h) <=> Object(h) # None
<1>1. Live(h) => Object(h) = op[h].body /\ op[h] \in Ops /\ op[h].kind = "put"
  BY DEF Live, Object, WrittenHead
<1>2. QED
  BY <1>1, OpFields DEF Object

\* A step of a call changes no other call's outcome.
LEMMA OutcomeKept ==
  ASSUME IInv, [Next]_vars, NEW d \in Clients,
         pc'[d] = pc[d], op'[d] = op[d], seen'[d] = seen[d]
  PROVE  Outcome(d)' = Outcome(d)
<1>1. CASE pc[d] # "new" /\ op[d].kind \in {"head", "get"} /\ pc[d] \notin Verdicts
  <2>1. Live(seen[d]) /\ seen[d] \in Clients /\ pc[seen[d]] # "new"
    BY <1>1 DEF Verdicts, IInv, CallInv, Reading, Live, WrittenHead
  <2>2. Object(seen[d])' = Object(seen[d])
    BY <2>1, Settled DEF Object, Live
  <2>3. QED
    BY <1>1, <2>2 DEF Outcome
<1>2. CASE ~(pc[d] # "new" /\ op[d].kind \in {"head", "get"} /\ pc[d] \notin Verdicts)
  BY <1>2 DEF Outcome
<1>3. QED
  BY <1>1, <1>2

\* So after a step of c the outcomes are those of before but for c's.
LEMMA OutcomesStep ==
  ASSUME IInv, [Next]_vars, NEW c \in Clients,
         \A d \in Clients \ {c} : pc'[d] = pc[d] /\ op'[d] = op[d] /\ seen'[d] = seen[d]
  PROVE  Outcomes' = [Outcomes EXCEPT ![c] = Outcome(c)']
<1>1. \A d \in Clients \ {c} : Outcome(d)' = Outcome(d)
  BY OutcomeKept
<1>2. QED
  BY <1>1 DEF Outcomes

\* A call begins, and takes effect at once if it reads or is refused.
LEMMA BeginPromise ==
  ASSUME IInv, NEW c \in Clients, Begin(c)
  PROVE  Promise!Next
<1>1. PICK o \in Ops : op' = [op EXCEPT ![c] = o] /\ pc' = [pc EXCEPT ![c] = First(o)]
  BY DEF Begin, Goto
<1>2. /\ op \in [Clients -> Ops \cup {None}] /\ op[c] = None /\ c # head /\ o # None
      /\ op'[c] = o /\ pc'[c] = First(o) /\ seen'[c] = head /\ pc[c] = "new"
      /\ UNCHANGED <<head, versions, blob, told>>
  BY <1>1, OpFields DEF Begin, At, IInv, TypeOK, CallInv, Unborn
<1>3. \A d \in Clients \ {c} : pc'[d] = pc[d] /\ op'[d] = op[d] /\ seen'[d] = seen[d]
  BY <1>1 DEF Begin, IInv, TypeOK
<1>4. [Next]_vars /\ WrittenHead(head)
  BY DEF Next, IInv
<1>5. Outcomes' = [Outcomes EXCEPT ![c] = Outcome(c)']
  BY <1>3, <1>4, OutcomesStep
<1>6. Overtaken' = Overtaken
  BY <1>2, <1>3 DEF Overtaken
<1>7. Object(head)' = Object(head) /\ Live(head)' = Live(head)
  <2>1. CASE head = None
    BY <1>2, <2>1 DEF Object, Live
  <2>2. CASE head # None
    <3>1. head \in Clients /\ pc[head] # "new"
      BY <1>4, <2>2 DEF WrittenHead
    <3>2. QED
      BY <1>2, <1>4, <3>1, Settled
  <2>3. QED
    BY <2>1, <2>2
<1>8. Outcome(c) = None
  BY <1>2 DEF Outcome, Verdicts
<1>9. Outcome(c)' = IF First(o) \in Verdicts THEN First(o)
                    ELSE IF o.kind \in {"head", "get"} THEN Object(head) ELSE None
  <2>1. First(o) # "new"
    BY FirstType
  <2>2. Object(seen[c])' = Object(head)
    BY <1>2, <1>7 DEF Object, Live
  <2>3. QED
    BY <1>2, <2>1, <2>2 DEF Outcome
<1>10. Promise!Serve(c, o) \/ Outcomes' = Outcomes
  <2>1. CASE o.kind = "put"
    <3>1. Meets(o, head) <=> Promise!Holds(o.cond)
      BY <1>4, <2>1, MeetsHolds
    <3>2. CASE Meets(o, head)
      <4>1. Outcome(c)' = None
        BY <1>9, <2>1, <3>2 DEF First, Verdicts
      <4>2. QED
        BY <1>5, <1>8, <4>1 DEF Outcomes
    <3>3. CASE ~Meets(o, head)
      <4>1. Outcome(c)' = "refused" /\ o.cond # "none"
        BY <1>9, <2>1, <3>3 DEF First, Verdicts, Meets
      <4>2. QED
        BY <1>2, <1>5, <1>6, <1>7, <2>1, <3>1, <3>3, <4>1
           DEF Promise!Serve, Promise!Is, Outcomes, Overtaken
    <3>4. QED
      BY <3>2, <3>3
  <2>2. CASE o.kind = "delete"
    <3>1. CASE Live(head)
      <4>1. Outcome(c)' = None
        BY <1>9, <2>2, <3>1 DEF First, Verdicts
      <4>2. QED
        BY <1>5, <1>8, <4>1 DEF Outcomes
    <3>2. CASE ~Live(head)
      <4>1. Outcome(c)' = "deleted" /\ Object(head) = None
        BY <1>9, <2>2, <3>2 DEF First, Verdicts, Object
      <4>2. QED
        BY <1>5, <1>6, <1>7, <2>2, <4>1 DEF Promise!Serve, Promise!Is, Outcomes, Overtaken
    <3>3. QED
      BY <3>1, <3>2
  <2>3. CASE o.kind \in {"head", "get"}
    <3>1. Outcome(c)' = IF Object(head) = None THEN "absent" ELSE Object(head)
      BY <1>4, <1>9, <2>3, LiveObject DEF First, Verdicts
    <3>2. QED
      BY <1>5, <1>6, <1>7, <2>3, <3>1 DEF Promise!Serve, Promise!Is, Outcomes, Overtaken
  <2>4. QED
    BY <2>1, <2>2, <2>3, OpFields
<1>11. Promise!Begin(c, o)
  BY <1>1, <1>2, <1>6, <1>7, <1>10 DEF Promise!Begin, Outcomes, Overtaken
<1>12. QED
  BY <1>11 DEF Promise!Next

\* A statement that moves the head, or finds that it has moved.
LEMMA WritePromise ==
  ASSUME IInv, NEW c \in Clients, Publish(c) \/ Remove(c)
  PROVE  Promise!Next
<1>1. /\ pc[c] \in {"write", "late"} /\ op[c] \in Ops /\ op[c] # None
      /\ UNCHANGED <<op, seen, told>> /\ c # head
      /\ WrittenHead(head) /\ WrittenHead(seen[c])
      /\ op[c].kind = "put" => Meets(op[c], seen[c])
      /\ op[c].kind = "delete" => Live(seen[c])
  BY OpFields DEF Publish, Remove, Leave, IInv, CallInv, Born, Reading, Live
<1>2. \A d \in Clients \ {c} : pc'[d] = pc[d] /\ op'[d] = op[d] /\ seen'[d] = seen[d]
  BY DEF Publish, Remove, Leave, Goto, IInv, TypeOK
<1>3. [Next]_vars
  BY DEF Next
<1>4. Outcomes' = [Outcomes EXCEPT ![c] = Outcome(c)']
  BY <1>2, <1>3, OutcomesStep
<1>5. Outcome(c) = None
  <2>1. op[c].kind \in {"put", "delete"}
    BY DEF Publish, Remove
  <2>2. QED
    BY <1>1, <2>1 DEF Outcome, Verdicts
<1>6. pc'[c] \in Verdicts => Outcome(c)' = pc'[c]
  BY DEF Outcome
<1>7. \A d \in Clients : seen[d] # c
  BY <1>1, BucketAssumption DEF IInv, CallInv, WrittenHead
<1>8. ASSUME head' = c
      PROVE  Overtaken' = (Overtaken \ {c}) \cup {d \in Clients \ {c} : op[d] # None}
  BY <1>1, <1>7, <1>8 DEF Overtaken
<1>9. CASE Publish(c)
  <2>1. op[c].kind = "put"
    BY <1>9 DEF Publish
  <2>2. CASE Swaps(c)
    <3>1. head' = c /\ pc'[c] = "stored"
      BY <1>9, <2>2 DEF Publish, Leave, Goto, IInv, TypeOK
    <3>2. Object(head)' = op[c].body
      BY <1>1, <2>1, <3>1, BucketAssumption DEF Object, Live, IInv, TypeOK
    <3>3. Promise!Holds(op[c].cond)
      BY <1>1, <2>1, <2>2, MeetsHolds DEF Swaps, Promise!Holds
    <3>4. Promise!Serve(c, op[c])
      BY <1>4, <1>6, <1>8, <2>1, <3>1, <3>2, <3>3
         DEF Promise!Serve, Promise!Change, Promise!Is, Outcomes, Overtaken, Verdicts
    <3>5. QED
      BY <1>1, <1>5, <3>4 DEF Promise!Continue, Promise!Next
  <2>3. CASE ~Swaps(c)
    <3>1. /\ head' = head /\ pc'[c] = "refused" /\ op[c].cond # "none" /\ head # seen[c]
          /\ op' = op
      BY <1>1, <1>9, <2>1, <2>3 DEF Publish, Leave, Goto, Swaps, IInv, TypeOK
    <3>2. c \in Overtaken /\ Overtaken' = Overtaken /\ Object(head)' = Object(head)
      BY <1>1, <3>1 DEF Overtaken, Object, Live
    <3>3. Promise!Serve(c, op[c])
      BY <1>4, <1>6, <2>1, <3>1, <3>2
         DEF Promise!Serve, Promise!Is, Outcomes, Overtaken, Verdicts
    <3>4. QED
      BY <1>1, <1>5, <3>3 DEF Promise!Continue, Promise!Next
  <2>4. QED
    BY <2>2, <2>3
<1>10. CASE Remove(c)
  <2>1. op[c].kind = "delete" /\ head = seen[c] /\ head' = c /\ pc'[c] = "deleted"
    BY <1>10 DEF Remove, Swaps, Leave, Goto, IInv, TypeOK
  <2>2. Object(head) # None
    BY <1>1, <2>1, LiveObject
  <2>3. Object(head)' = None
    BY <1>1, <2>1 DEF Object, Live
  <2>4. Promise!Serve(c, op[c])
    BY <1>4, <1>6, <1>8, <2>1, <2>2, <2>3
       DEF Promise!Serve, Promise!Change, Promise!Is, Outcomes, Overtaken, Verdicts
  <2>5. QED
    BY <1>1, <1>5, <2>4 DEF Promise!Continue, Promise!Next
<1>11. QED
  BY <1>9, <1>10

\* Answers tell the outcome, or that it is unknown.
LEMMA TellPromise ==
  ASSUME IInv, NEW c \in Clients, Stat(c) \/ Fetch(c) \/ Return(c) \/ Fail(c)
  PROVE  [Promise!Next]_(Promise!vars)
<1>1. /\ UNCHANGED <<head, op, seen>> /\ pc[c] # "new" /\ op[c] # None
      /\ \A d \in Clients \ {c} : pc'[d] = pc[d]
  BY OpFields DEF Stat, Fetch, Return, Fail, At, Goto, IInv, CallInv, Born, TypeOK, Verdicts
<1>2. Object(head)' = Object(head) /\ Overtaken' = Overtaken
  BY <1>1 DEF Object, Live, Overtaken
<1>3. Outcome(c)' = Outcome(c)
  <2>1. Object(seen[c])' = Object(seen[c])
    BY <1>1 DEF Object, Live
  <2>2. /\ pc'[c] # "new"
        /\ pc'[c] \in Verdicts \/ pc[c] \in Verdicts => pc'[c] = pc[c]
    <3>1. CASE Stat(c) \/ Fetch(c)
      BY <3>1 DEF Stat, Fetch, At, Goto, IInv, TypeOK, Verdicts
    <3>2. CASE Return(c)
      BY <1>1, <3>2 DEF Return
    <3>3. CASE Fail(c)
      BY <3>3 DEF Fail, Goto, IInv, TypeOK, Verdicts
    <3>4. QED
      BY <3>1, <3>2, <3>3
  <2>3. QED
    BY <1>1, <2>1, <2>2 DEF Outcome
<1>4. Outcomes' = Outcomes
  <2>1. [Next]_vars
    BY DEF Next
  <2>2. \A d \in Clients \ {c} : pc'[d] = pc[d] /\ op'[d] = op[d] /\ seen'[d] = seen[d]
    BY <1>1
  <2>3. Outcomes' = [Outcomes EXCEPT ![c] = Outcome(c)]
    BY <1>3, <2>1, <2>2, OutcomesStep
  <2>4. QED
    BY <2>3 DEF Outcomes
<1>5. told' = told \/ (told[c] = None /\ \E what \in {Outcome(c), "unknown"} \ {None} :
                                           told' = [told EXCEPT ![c] = what])
  <2>1. "unknown" # None
    BY BucketAssumption
  <2>2. CASE Stat(c) \/ Fetch(c)
    <3>1. pc[c] \in {"stat", "fetch"} /\ op[c].kind \in {"head", "get"}
      BY <2>2, OpFields DEF Stat, Fetch, At, IInv, CallInv, Born, Place
    <3>2. Live(seen[c]) /\ WrittenHead(seen[c]) /\ told[c] = None
      BY <3>1 DEF IInv, CallInv, Reading, Telling
    <3>3. Outcome(c) = op[seen[c]].body /\ Outcome(c) # None
      BY <3>1, <3>2, LiveObject DEF Outcome, Object, Verdicts
    <3>4. QED
      BY <2>2, <3>2, <3>3 DEF Stat, Fetch, Tell
  <2>3. CASE Return(c)
    <3>1. Outcome(c) = pc[c] /\ Outcome(c) # None
      BY <2>3, BucketAssumption DEF Return, Outcome
    <3>2. QED
      BY <2>3, <3>1 DEF Return, Tell
  <2>4. CASE Fail(c)
    BY <2>1, <2>4 DEF Fail, Tell
  <2>5. QED
    BY <2>2, <2>3, <2>4
<1>6. CASE told' = told
  BY <1>1, <1>2, <1>4, <1>6 DEF Promise!vars, Outcomes, Overtaken
<1>7. CASE told[c] = None /\ \E what \in {Outcome(c), "unknown"} \ {None} :
                              told' = [told EXCEPT ![c] = what]
  <2>1. Promise!Tell(c)
    BY <1>1, <1>2, <1>4, <1>7 DEF Promise!Tell, Outcomes, Overtaken
  <2>2. QED
    BY <2>1 DEF Promise!Next
<1>8. QED
  BY <1>5, <1>6, <1>7

\* What happens at the provider is not seen until it is read.
LEMMA SilentPromise ==
  ASSUME IInv, NEW c \in Clients, Upload(c) \/ Verify(c) \/ Lose(c)
  PROVE  UNCHANGED Promise!vars
<1>1. /\ UNCHANGED <<head, op, seen, told>> /\ \A d \in Clients \ {c} : pc'[d] = pc[d]
      /\ pc'[c] = pc[c] \/ {pc[c], pc'[c]} \subseteq {"upload", "verify", "write"}
  BY DEF Upload, Verify, Lose, At, Goto, IInv, TypeOK
<1>2. Object(head)' = Object(head) /\ Overtaken' = Overtaken
  BY <1>1 DEF Object, Live, Overtaken
<1>3. [Next]_vars
  BY DEF Next
<1>4. Outcome(c)' = Outcome(c)
  <2>1. CASE pc'[c] = pc[c]
    BY <1>1, <1>3, <2>1, OutcomeKept
  <2>2. CASE pc[c] \in {"upload", "verify"} /\ pc'[c] \in {"verify", "write"}
    <3>1. op[c] \in Ops /\ op[c].kind \notin {"head", "get"}
      BY <2>2, OpFields DEF IInv, CallInv, Born, Place
    <3>2. QED
      BY <1>1, <2>2, <3>1 DEF Outcome, Verdicts
  <2>3. QED
    BY <2>1, <2>2 DEF Upload, Verify, Lose, At, Goto, IInv, TypeOK
<1>5. Outcomes' = Outcomes
  <2>1. Outcomes' = [Outcomes EXCEPT ![c] = Outcome(c)]
    BY <1>1, <1>3, <1>4, OutcomesStep
  <2>2. QED
    BY <2>1 DEF Outcomes
<1>6. QED
  BY <1>1, <1>2, <1>5 DEF Promise!vars, Outcomes, Overtaken

\* However calls overlap, fail or reach the database late, they act on the key one
\* after another: SupabaseBucket implements ObjectStore.
THEOREM Refinement == Spec => ImplementsObjectStore
<1>1. Init => Promise!Init
  BY DEF Init, Promise!Init, Object, Live, Outcome, Verdicts
<1>2. IInv /\ [Next]_vars => [Promise!Next]_(Promise!vars)
  <2> SUFFICES ASSUME IInv, [Next]_vars PROVE [Promise!Next]_(Promise!vars)
    OBVIOUS
  <2>1. CASE UNCHANGED vars
    BY <2>1 DEF vars, Promise!vars, Object, Live, Outcome
  <2>2. CASE Next
    BY <2>2, BeginPromise, WritePromise, TellPromise, SilentPromise DEF Next
  <2>3. QED
    BY <2>1, <2>2
<1>3. QED
  BY <1>1, <1>2, Invariant, PTL DEF Spec, ImplementsObjectStore, Promise!Spec

\* What is stored at a key changes only by a call that asked for that: a removal, a
\* put without a condition, or one whose condition holds of what it replaces, at the
\* moment its statement runs, however long before it had read the head.  So an object
\* that put(ifAbsent) stored is never replaced by another such put.
THEOREM ReplacedAsAsked ==
  Spec => [][Object(head)' # Object(head) =>
               \E c \in Clients :
                 \/ op[c].kind = "delete"
                 \/ op[c].kind = "put" /\ Promise!Holds(op[c].cond)]_vars
<1>1. IInv /\ [Next]_vars =>
        [Object(head)' # Object(head) =>
           \E c \in Clients : \/ op[c].kind = "delete"
                              \/ op[c].kind = "put" /\ Promise!Holds(op[c].cond)]_vars
  <2> SUFFICES ASSUME IInv, Next, Object(head)' # Object(head)
               PROVE  \E c \in Clients :
                        \/ op[c].kind = "delete"
                        \/ op[c].kind = "put" /\ Promise!Holds(op[c].cond)
    OBVIOUS
  <2>1. PICK c \in Clients : \/ Begin(c) \/ Stat(c) \/ Fetch(c) \/ Upload(c) \/ Verify(c)
                             \/ Publish(c) \/ Remove(c) \/ Return(c) \/ Fail(c) \/ Lose(c)
    BY DEF Next
  <2>2. Begin(c) => Object(head)' = Object(head)
    <3> SUFFICES ASSUME Begin(c) PROVE Object(head)' = Object(head)
      OBVIOUS
    <3>1. head' = head /\ head # c /\ \A d \in Clients \ {c} : op'[d] = op[d]
      BY DEF Begin, At, IInv, TypeOK, CallInv, Unborn
    <3>2. QED
      BY <3>1 DEF Object, Live, IInv, TypeOK
  <2>3. Publish(c) \/ Remove(c)
    BY <2>1, <2>2 DEF Stat, Fetch, Upload, Verify, Return, Fail, Lose, Object, Live
  <2>4. CASE Remove(c)
    BY <2>4 DEF Remove
  <2>5. CASE Publish(c)
    <3>1. /\ op[c] \in Ops /\ op[c].kind = "put" /\ Swaps(c)
          /\ WrittenHead(head) /\ Meets(op[c], seen[c])
      BY <2>5 DEF Publish, Leave, IInv, CallInv, Born, Reading, Object, Live
    <3>2. Promise!Holds(op[c].cond)
      BY <3>1, MeetsHolds DEF Swaps, Promise!Holds
    <3>3. QED
      BY <3>1, <3>2
  <2>6. QED
    BY <2>3, <2>4, <2>5
<1>2. QED
  BY <1>1, Invariant, PTL DEF Spec
=============================================================================
