-------------------------- MODULE MCConsultingFlow --------------------------
(***************************************************************************)
(* Instances of ConsultingFlow for TLC.                                    *)
(***************************************************************************)
EXTENDS FlowStorage, TLC

CONSTANTS ann, ben, t1, t2, s1, s2, f1, f2

\* Only their inequality matters.
Names == Permutations(Runners) \cup Permutations(Transcripts)
         \cup Permutations(Sources) \cup Permutations(Documents)

\* A case after its first meeting, with the external AI approved: where Next leads
\* after report 1, two confirmations, the booking, reports 2 and 3, the meeting
\* and the approval.  The runs that start here spend their states on what follows.
Manual(src) == [src |-> src, rec |-> 0, decision |-> 0, key |-> {}, job |-> 0,
                body |-> "manual"]
Consulted ==
  /\ reports = [st \in Stage |-> IF st = 1 THEN <<Manual(0)>>
                                 ELSE IF st <= 3 THEN <<Manual(1)>> ELSE <<>>]
  /\ analysis = [report |-> 1, admin |-> TRUE, partner |-> TRUE]
  /\ meetings = <<[kind |-> "first", attendance |-> "both", status |-> "completed"]>>
  /\ recordings = <<>> /\ requests = <<>>
  /\ decision = [id |-> 0, report |-> 0, documents |-> FALSE]
  /\ contract = [meeting |-> 0, report |-> 0, deposit |-> 0]
  /\ paid = 0 /\ execution = FALSE /\ aftercare = FALSE
  /\ enabled = TRUE /\ source = None /\ jobs = <<>>
  /\ claims = 0 /\ runners = [r \in Runners |-> Idle]
ConsultedSpec == Consulted /\ [][Next]_vars

\* A case ready to sign: a fourth report on a recording, a decision that asks for
\* one document, received and verified, a quote and a contract document made from
\* it, and the contract meeting booked.
Signing(file) ==
  LET made == [src |-> 1, rec |-> 0, decision |-> 1, key |-> {<<1, file, 1>>}, job |-> 0,
               body |-> "manual"]
      met(kind, status) == [kind |-> kind, attendance |-> "both", status |-> status]
  IN
  /\ reports = [st \in Stage |-> <<CASE st = 1 -> Manual(0)
                                     [] st \in {2, 3} -> Manual(1)
                                     [] st = 4 -> [Manual(1) EXCEPT !.rec = 1]
                                     [] OTHER -> made>>]
  /\ analysis = [report |-> 1, admin |-> TRUE, partner |-> TRUE]
  /\ meetings = <<met("first", "completed"), met("contract", "scheduled")>>
  /\ recordings = <<[meeting |-> 1, transcript |-> None]>>
  /\ requests = <<[required |-> TRUE, file |-> file, sent |-> FALSE,
                   status |-> "verified", reviews |-> 1, verified |-> 1]>>
  /\ decision = [id |-> 1, report |-> 1, documents |-> TRUE]
  /\ contract = [meeting |-> 0, report |-> 0, deposit |-> 0]
  /\ paid = 0 /\ execution = FALSE /\ aftercare = FALSE
  /\ enabled = TRUE /\ source = None
  /\ jobs = <<[stage |-> 4, rec |-> 1, src |-> 1, lease |-> 0, status |-> "blocked"]>>
  /\ claims = 0 /\ runners = [r \in Runners |-> Idle]

\* A new case, one that has met and one that is ready to sign: the bounds on what
\* may still be added are the same for the three.
EachSpec == (Init \/ Consulted \/ \E f \in Documents : Signing(f)) /\ [][Next]_vars
=============================================================================
