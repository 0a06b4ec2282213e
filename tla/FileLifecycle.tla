--------------------------- MODULE FileLifecycle ---------------------------
(***************************************************************************)
(* What the company-file routes promise about one original, whatever       *)
(* requests, retries and failures lie behind it: it is reserved, stored    *)
(* once with contents that never change, may be linked to a document card  *)
(* while it is stored, and may be deleted for good while it is not linked. *)
(***************************************************************************)
CONSTANTS FileIds, Contents, None

VARIABLES
  life,      \* of each file: "absent", "reserved", "stored" or "deleted"
  content,   \* what a reader of a stored file gets
  linked     \* the files document cards refer to

vars == <<life, content, linked>>

\* Files of earlier versions may be there already, in any stage, linked or not.
Init ==
  /\ life \in [FileIds -> {"absent", "reserved", "stored", "deleted"}]
  /\ content \in [FileIds -> Contents \cup {None}]
  /\ \A f \in FileIds : content[f] # None <=> life[f] = "stored"
  /\ linked \in SUBSET {f \in FileIds : life[f] = "stored"}

Reserve(f) ==
  /\ life[f] = "absent"
  /\ life' = [life EXCEPT ![f] = "reserved"]
  /\ UNCHANGED <<content, linked>>

Store(f, c) ==
  /\ life[f] = "reserved"
  /\ life' = [life EXCEPT ![f] = "stored"]
  /\ content' = [content EXCEPT ![f] = c]
  /\ UNCHANGED linked

Link(f) ==
  /\ life[f] = "stored"
  /\ linked' = linked \cup {f}
  /\ UNCHANGED <<life, content>>

Delete(f) ==
  /\ life[f] = "stored" /\ f \notin linked
  /\ life' = [life EXCEPT ![f] = "deleted"]
  /\ content' = [content EXCEPT ![f] = None]
  /\ UNCHANGED linked

Next == \E f \in FileIds :
          Reserve(f) \/ (\E c \in Contents : Store(f, c)) \/ Link(f) \/ Delete(f)

Spec == Init /\ [][Next]_vars
=============================================================================
