----------------------------- MODULE CommandLog -----------------------------
(***************************************************************************)
(* What POST /api/consulting-flow/[caseId] promises the senders of         *)
(* commands, whatever was retried, lost or overtaken: one history to which *)
(* a command is added at most once, and an answer only for what is in it.  *)
(***************************************************************************)
EXTENDS Naturals, Sequences

CONSTANTS Actors, Commands, Prints,
          Work   \* an entry that no command made

VARIABLES
  history,   \* the commands applied and the work in between, oldest first
  answered   \* the commands reported as applied

vars == <<history, answered>>

\* A command with its sender and content.
Sent == [who : Actors, cmd : Commands, print : Prints]

Init == history = <<>> /\ answered = {}

Apply(a) ==
  /\ \A i \in DOMAIN history : history[i] # Work => history[i].cmd # a.cmd
  /\ history' = Append(history, a)
  /\ UNCHANGED answered

DoWork == history' = Append(history, Work) /\ UNCHANGED answered

Answer(a) ==
  /\ \E i \in DOMAIN history : history[i] = a
  /\ answered' = answered \cup {a}
  /\ UNCHANGED history

Next == DoWork \/ \E a \in Sent : Apply(a) \/ Answer(a)

Spec == Init /\ [][Next]_vars
=============================================================================
