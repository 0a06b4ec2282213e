---------------------------- MODULE MCFlowCommit ----------------------------
(***************************************************************************)
(* Instances of FlowCommit for TLC.                                        *)
(***************************************************************************)
EXTENDS FlowCommit, TLC

CONSTANTS q1, q2, q3, ann, ben, c1, c2, recording, source, copy, note

\* A recording with its audio, a source, the copy of an intake original, and a
\* command without attachments.
Kinds == recording :> {"file", "audio"} @@ source :> {"file"} @@ copy :> {"file"} @@ note :> {}
\* The contents a run sends.
AttachmentsOf == [p \in Prints |-> Kinds[p]]

\* Only their inequality matters.
Names == Permutations(Requests) \cup Permutations(Actors) \cup Permutations(Commands)
=============================================================================
