-------------------------- MODULE MCPasswordAccess --------------------------
(***************************************************************************)
(* An instance of PasswordAccess for TLC.  Requests differ only in what    *)
(* they are sent, and addresses and rests are only compared, so each of    *)
(* these sets may be permuted; passwords may not, for First is one of them.*)
(***************************************************************************)
EXTENDS PasswordAccess, TLC

CONSTANTS r1, r2, r3, f1, e1, e2, p1, p2, x1, x2

Interchangeable ==
  Permutations(Requests) \cup Permutations(Emails) \cup Permutations(Rests)

AllKinds == {"register", "add", "login", "logout", "link", "setup", "save"}
=============================================================================
