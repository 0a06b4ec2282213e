-------------------------- MODULE MCCompanyUpload --------------------------
(***************************************************************************)
(* Instances of CompanyUpload for TLC.                                     *)
(***************************************************************************)
EXTENDS CompanyUpload, TLC

CONSTANTS f1, f2, k1, old, b1, amy, boss, u1, u2, d1a, d2a, s1, g1

Requests == Uploaders \cup Deleters \cup Savers \cup Readers

\* Two sends of one form attachment: one key, one content.
SameKey   == [u \in Uploaders |-> k1]
SameBytes == [u \in Uploaders |-> b1]

NoLegacy    == [u \in Uploaders |-> {}]
OldSpelling == [u \in Uploaders |-> {old}]

\* A member sends and reads; the administrator deletes and links.
MemberSends == [r \in Requests |-> IF r \in Uploaders \cup Readers THEN amy ELSE boss]
\* A member reads; the administrator does the rest.
MemberReads == [r \in Requests |-> IF r \in Readers THEN amy ELSE boss]

\* One revocation or one interruption.
OneDisturbance == edits + interrupts <= 1

\* The two uploads, and the two deletes, differ in nothing but their names.
Interchangeable == Permutations(Uploaders) \cup Permutations(Deleters)
=============================================================================
