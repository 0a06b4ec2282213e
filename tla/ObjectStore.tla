---------------------------- MODULE ObjectStore ----------------------------
(***************************************************************************)
(* What a bucket promises those who use it, at one key: every operation    *)
(* takes effect at one moment between its call and its answer, or its      *)
(* answer is "unknown" and it takes effect then, later or never.           *)
(***************************************************************************)
CONSTANTS Clients,    \* one operation each
          Ops, Contents, None

VARIABLES
  object,     \* what is stored at the key
  asked,      \* operations that have begun
  overtaken,  \* those during which another one changed the object
  outcome,    \* how an operation came out
  told        \* what its caller was told

vars == <<object, asked, overtaken, outcome, told>>

Init ==
  /\ object = None
  /\ asked = [c \in Clients |-> None]
  /\ overtaken = {}
  /\ outcome = [c \in Clients |-> None]
  /\ told = [c \in Clients |-> None]

Holds(cond) == \/ cond = "none"
               \/ cond = "absent" /\ object = None
               \/ cond # "none" /\ cond # "absent" /\ cond = object

Change(c, to) ==
  /\ object' = to
  /\ overtaken' = (overtaken \ {c}) \cup {d \in Clients \ {c} : asked[d] # None}

Is(c, how) == outcome' = [outcome EXCEPT ![c] = how]

\* A condition is refused only if it did not hold at some moment, or if something
\* else was written meanwhile.
Serve(c, op) ==
  \/ op.kind = "put" /\ Holds(op.cond) /\ Change(c, op.body) /\ Is(c, "stored")
  \/ /\ op.kind = "put" /\ op.cond # "none"
     /\ c \in overtaken \/ ~Holds(op.cond)
     /\ Is(c, "refused") /\ UNCHANGED <<object, overtaken>>
  \/ op.kind = "delete" /\ object # None /\ Change(c, None) /\ Is(c, "deleted")
  \/ /\ op.kind = "delete" /\ object = None
     /\ Is(c, "deleted") /\ UNCHANGED <<object, overtaken>>
  \/ /\ op.kind \in {"head", "get"}
     /\ Is(c, IF object = None THEN "absent" ELSE object) /\ UNCHANGED <<object, overtaken>>

Begin(c, op) ==
  /\ asked[c] = None
  /\ asked' = [asked EXCEPT ![c] = op]
  /\ Serve(c, op) \/ UNCHANGED <<object, overtaken, outcome>>
  /\ UNCHANGED told

Continue(c) ==
  /\ asked[c] # None /\ outcome[c] = None
  /\ Serve(c, asked[c])
  /\ UNCHANGED <<asked, told>>

Tell(c) ==
  /\ asked[c] # None /\ told[c] = None
  /\ \E what \in {outcome[c], "unknown"} \ {None} : told' = [told EXCEPT ![c] = what]
  /\ UNCHANGED <<object, asked, overtaken, outcome>>

Next == \E c \in Clients : (\E op \in Ops : Begin(c, op)) \/ Continue(c) \/ Tell(c)

Spec == Init /\ [][Next]_vars
=============================================================================
