--------------------------- MODULE SupabaseBucket ---------------------------
(***************************************************************************)
(* The bucket of the Supabase deployment: createSupabaseStorageBucket of   *)
(* lib/supabase-storage-bucket.ts over the manifest in PostgreSQL          *)
(* (lib/supabase-storage-manifest.ts) and the provider's objects           *)
(* (lib/supabase-storage-http.ts).                                         *)
(*                                                                         *)
(* One key: keys share no row and no path.  A client is one call of        *)
(* head, get, put or delete, and one action is one request of it to the    *)
(* database or to the storage.  A call draws a fresh revision, which also  *)
(* names the path it writes, so clients stand for revisions and paths.  An *)
(* ETag is what the same bytes always get.  The call may end with an       *)
(* unknown outcome at every step; a statement on its way to the database   *)
(* then may still be carried out (Late).  The provider may store less than *)
(* it was sent, and lose or alter an object later.                         *)
(***************************************************************************)
CONSTANTS
  Clients,    \* calls, each with the revision it draws
  Contents,   \* bytes
  None

VARIABLES
  head,      \* storage_object_heads: the revision of the key
  versions,  \* storage_object_versions
  blob,      \* the provider's object at the path of a revision
  pc,        \* next step of a call
  op,        \* what was called
  seen,      \* the head it read
  told       \* its answer

vars == <<head, versions, blob, pc, op, seen, told>>

Reads    == [kind : {"head", "get"}]
Puts     == [kind : {"put"}, cond : {"none", "absent"} \cup Contents, body : Contents]
Ops      == Reads \cup Puts \cup [kind : {"delete"}]
Steps    == {"new", "stat", "fetch", "upload", "verify", "write", "late",
             "stored", "deleted", "refused", "absent", "ended"}
Verdicts == {"stored", "deleted", "refused", "absent"}

ASSUME BucketAssumption ==
  /\ None \notin Clients \cup Ops \cup Verdicts \cup {"unknown"} \cup Contents
  /\ Contents \cap (Verdicts \cup {"unknown", "none", "absent"}) = {}

TypeOK ==
  /\ head \in Clients \cup {None}
  /\ versions \in SUBSET Clients
  /\ blob \in [Clients -> {"none", "whole", "partial", "lost"}]
  /\ pc \in [Clients -> Steps]
  /\ op \in [Clients -> Ops \cup {None}]
  /\ seen \in [Clients -> Clients \cup {None}]
  /\ told \in [Clients -> Verdicts \cup {"unknown"} \cup Contents \cup {None}]

Init ==
  /\ head = None
  /\ versions = {}
  /\ blob = [c \in Clients |-> "none"]
  /\ pc = [c \in Clients |-> "new"]
  /\ op = [c \in Clients |-> None]
  /\ seen = [c \in Clients |-> None]
  /\ told = [c \in Clients |-> None]

At(c, step)   == pc[c] = step
Goto(c, step) == pc' = [pc EXCEPT ![c] = step]
Tell(c, what) == told' = [told EXCEPT ![c] = what]

\* The object a head stands for: none before the first put and after a removal.
Live(h)   == h # None /\ op[h].kind = "put"
Object(h) == IF Live(h) THEN op[h].body ELSE None

\* The condition of a put, on the head it read.
Meets(o, h) == \/ o.cond = "none"
               \/ o.cond = "absent" /\ ~Live(h)
               \/ Live(h) /\ o.cond = op[h].body

\* Where a call goes after manifest.read.
First(o) ==
  IF o.kind = "put"
  THEN IF Meets(o, head) THEN "upload" ELSE "refused"
  ELSE IF Live(head)
       THEN IF o.kind = "delete" THEN "write" ELSE "stat"
       ELSE IF o.kind = "delete" THEN "deleted" ELSE "absent"

Begin(c) ==
  /\ At(c, "new")
  /\ \E o \in Ops : op' = [op EXCEPT ![c] = o] /\ Goto(c, First(o))
  /\ seen' = [seen EXCEPT ![c] = head]
  /\ UNCHANGED <<head, versions, blob, told>>

-----------------------------------------------------------------------------
(* head and get *)

\* Variant: the bytes received are not compared with the recorded digest.
Unchecked(c) == blob[seen[c]] # "none"

\* The provider's object is the one the version describes.
Intact(c) == blob[seen[c]] = "whole"

\* current: size, ETag and date are those of the version.
Stat(c) ==
  /\ At(c, "stat") /\ Intact(c)
  /\ IF op[c].kind = "head" THEN Goto(c, "ended") /\ Tell(c, op[seen[c]].body)
                            ELSE Goto(c, "fetch") /\ UNCHANGED told
  /\ UNCHANGED <<head, versions, blob, op, seen>>

\* Read to its end, the body is the version's; otherwise reading it fails.
Fetch(c) ==
  /\ At(c, "fetch") /\ Intact(c)
  /\ Goto(c, "ended") /\ Tell(c, op[seen[c]].body)
  /\ UNCHANGED <<head, versions, blob, op, seen>>

-----------------------------------------------------------------------------
(* put and delete *)

\* The path is new (x-upsert: false); what arrives there may be incomplete.
Upload(c) ==
  /\ At(c, "upload")
  /\ \E how \in {"whole", "partial"} : blob' = [blob EXCEPT ![c] = how]
  /\ Goto(c, "verify")
  /\ UNCHANGED <<head, versions, op, seen, told>>

\* Variant: the reply to the upload is believed.
Believed(c) == TRUE

\* put of lib/supabase-storage-http.ts reads the object back before it returns.
Verified(c) == blob[c] = "whole"

Verify(c) ==
  /\ At(c, "verify") /\ Verified(c)
  /\ Goto(c, "write")
  /\ UNCHANGED <<head, versions, blob, op, seen, told>>

\* Variant: the revision is compared only when a version was there.
SwapsIfSeen(c) == \/ op[c].kind = "put" /\ op[c].cond = "none"
                  \/ seen[c] = None \/ head = seen[c]

\* The condition of the statement that moves the head.
Swaps(c) == \/ op[c].kind = "put" /\ op[c].cond = "none"
            \/ head = seen[c]

\* A call whose client has given up is nobody's: its statement still runs.
Leave(c, step) == Goto(c, step) /\ UNCHANGED told

\* The version is inserted in the same batch, whether or not the head moves.
Publish(c) ==
  /\ pc[c] \in {"write", "late"} /\ op[c].kind = "put"
  /\ versions' = versions \cup {c}
  /\ IF Swaps(c) THEN head' = c /\ Leave(c, "stored")
                 ELSE UNCHANGED head /\ Leave(c, "refused")
  /\ UNCHANGED <<blob, op, seen>>

\* The head gets a revision of its own, without a version.
Remove(c) ==
  /\ pc[c] \in {"write", "late"} /\ op[c].kind = "delete" /\ Swaps(c)
  /\ head' = c /\ Leave(c, "deleted")
  /\ UNCHANGED <<versions, blob, op, seen>>

-----------------------------------------------------------------------------

Return(c) ==
  /\ pc[c] \in Verdicts /\ told[c] = None
  /\ Tell(c, pc[c])
  /\ UNCHANGED <<head, versions, blob, pc, op, seen>>

\* SUPABASE_STORAGE_FAILED_OR_OUTCOME_UNKNOWN, or the call is cut off.
Fail(c) ==
  /\ pc[c] \notin {"new", "late", "ended"} /\ told[c] = None
  /\ Tell(c, "unknown")
  /\ Goto(c, CASE pc[c] = "write"     -> "late"
               [] pc[c] \in Verdicts  -> pc[c]
               [] OTHER               -> "ended")
  /\ UNCHANGED <<head, versions, blob, op, seen>>

\* The provider loses or alters an object.
Lose(c) ==
  /\ blob[c] = "whole"
  /\ blob' = [blob EXCEPT ![c] = "lost"]
  /\ UNCHANGED <<head, versions, pc, op, seen, told>>

Next ==
  \E c \in Clients : \/ Begin(c) \/ Stat(c) \/ Fetch(c) \/ Upload(c) \/ Verify(c)
                     \/ Publish(c) \/ Remove(c) \/ Return(c) \/ Fail(c) \/ Lose(c)

Spec == Init /\ [][Next]_vars

-----------------------------------------------------------------------------
(* Properties *)

\* A version is published only after all its bytes were read back: whatever became
\* of uploads and their replies, only a loss in the provider can make it unreadable.
PublishedWereWhole == \A c \in versions : blob[c] \in {"whole", "lost"}

\* How a call came out; a read is what it will deliver, if it delivers anything.
Outcome(c) == IF pc[c] \in Verdicts THEN pc[c]
              ELSE IF pc[c] # "new" /\ op[c].kind \in {"head", "get"} THEN Object(seen[c])
              ELSE None

Promise == INSTANCE ObjectStore WITH
  object    <- Object(head),
  asked     <- op,
  overtaken <- {c \in Clients : op[c] # None /\ head \notin {seen[c], c}},
  outcome   <- [c \in Clients |-> Outcome(c)]

\* Calls that overlap, end in the middle or reach the database late act on the key
\* one after another: no conditional put replaces what it was not meant for, and a
\* reader gets what was stored at one moment of its call, or an error.
ImplementsObjectStore == Promise!Spec
=============================================================================
