---------------------------- MODULE AccountAccess ----------------------------
(***************************************************************************)
(* What password access promises, as if every request were one step on     *)
(* the accounts as they are at that moment: who may sign in, what a setup  *)
(* link is good for, and what a change of the roster takes away.  There    *)
(* are no credential versions, revisions or retries here.                  *)
(***************************************************************************)
CONSTANTS
  Members, Emails, Passwords,
  Tokens,      \* of sessions and of setup links
  None

Statuses == {"invited", "pending", "active", "suspended"}

\* A roster, in which no two members have the same address.
Roster == {r \in [Members -> [email : Emails, status : Statuses] \cup {None}] :
             \A m, o \in Members : m # o /\ r[m] # None /\ r[o] # None => r[m].email # r[o].email}

VARIABLES
  roster,      \* address and status of a member
  credential,  \* the password in force
  open,        \* the member a setup link can still be used for
  signed       \* the member a session is of

vars == <<roster, credential, open, signed>>

Init ==
  /\ roster \in Roster
  /\ credential \in [Members -> Passwords \cup {None}]
  /\ \A m \in Members : credential[m] # None => roster[m] # None
  /\ open = [t \in Tokens |-> None]
  /\ signed = [t \in Tokens |-> None]

Usable(m) == roster[m] # None /\ roster[m].status # "suspended"
Active(m) == roster[m] # None /\ roster[m].status = "active"

\* A member with an address of its own, with a password if it joined by itself.
Join(m, e) ==
  /\ roster[m] = None
  /\ \A o \in Members : roster[o] # None => roster[o].email # e
  /\ \/ /\ roster' = [roster EXCEPT ![m] = [email |-> e, status |-> "active"]]
        /\ UNCHANGED credential
     \/ \E p \in Passwords :
          /\ roster' = [roster EXCEPT ![m] = [email |-> e, status |-> "pending"]]
          /\ credential' = [credential EXCEPT ![m] = p]
  /\ UNCHANGED <<open, signed>>

\* A new link replaces the member's earlier one; old links of others may go.
Invite(t, m) ==
  /\ Usable(m)
  /\ \E gone \in SUBSET Tokens :
       open' = [x \in Tokens |-> IF x = t THEN m
                                 ELSE IF open[x] = m \/ x \in gone THEN None
                                 ELSE open[x]]
  /\ UNCHANGED <<roster, credential, signed>>

\* A link is used once, and ends the sessions opened with the old password.
Redeem(t, p) ==
  /\ open[t] # None
  /\ Usable(open[t])
  /\ credential' = [credential EXCEPT ![open[t]] = p]
  /\ open' = [open EXCEPT ![t] = None]
  /\ signed' = [x \in Tokens |-> IF signed[x] = open[t] THEN None ELSE signed[x]]
  /\ UNCHANGED roster

\* Only with the password in force, and only an active member.
Enter(t, m, p) ==
  /\ Active(m)
  /\ credential[m] = p
  /\ \E gone \in SUBSET Tokens :
       signed' = [x \in Tokens |-> IF x = t THEN m ELSE IF x \in gone THEN None ELSE signed[x]]
  /\ UNCHANGED <<roster, credential, open>>

Leave(gone) ==
  /\ signed' = [x \in Tokens |-> IF x \in gone THEN None ELSE signed[x]]
  /\ UNCHANGED <<roster, credential, open>>

\* What a member keeps when the roster changes depends on its entry alone.
Restaff ==
  LET Same(m)    == roster'[m] # None /\ roster'[m].email = roster[m].email
      Invited(m) == Same(m) /\ roster'[m].status # "suspended"
  IN
  /\ roster' \in Roster
  /\ \A m \in Members : roster'[m] # None => roster[m] # None
  /\ credential' = [m \in Members |->
       IF credential[m] # None /\ Same(m) THEN credential[m] ELSE None]
  /\ open' = [t \in Tokens |-> IF open[t] # None /\ Invited(open[t]) THEN open[t] ELSE None]
  /\ signed' = [t \in Tokens |->
       IF signed[t] # None /\ roster'[signed[t]] = roster[signed[t]] THEN signed[t] ELSE None]

Next ==
  \/ \E m \in Members, e \in Emails : Join(m, e)
  \/ \E t \in Tokens, m \in Members : Invite(t, m)
  \/ \E t \in Tokens, p \in Passwords : Redeem(t, p)
  \/ \E t \in Tokens, m \in Members, p \in Passwords : Enter(t, m, p)
  \/ \E gone \in SUBSET Tokens : Leave(gone)
  \/ Restaff

Spec == Init /\ [][Next]_vars
=============================================================================
