------------------------ MODULE PasswordAccessProofs ------------------------
(***************************************************************************)
(* Proofs about PasswordAccess, for every number of requests, members,     *)
(* addresses, passwords and attempts.                                      *)
(***************************************************************************)
EXTENDS PasswordAccess, TLAPS

-----------------------------------------------------------------------------
(* Types *)

\* The fields of what a request was sent, by its kind.
LEMMA Fields ==
  ASSUME TypeOK, NEW r \in Requests, pc[r] # "new"
  PROVE  /\ input[r] \in Input
         /\ input[r].kind \in Joins => input[r].email \in Emails
         /\ input[r].kind = "register" => input[r].password \in Passwords
         /\ input[r].kind = "login" =>
              /\ input[r].email \in Emails /\ input[r].password \in Passwords
              /\ input[r].token \in Requests \cup {None}
         /\ input[r].kind = "logout" => input[r].token \in Requests
         /\ input[r].kind = "link" => input[r].member \in Members
         /\ input[r].kind = "setup" =>
              input[r].token \in Requests /\ input[r].password \in Passwords
         /\ input[r].kind = "save" =>
              /\ input[r].token \in Requests \cup {None} /\ input[r].page \in Portal
              /\ input[r].members \in Roster /\ input[r].rest \in Rests
<1>1. input[r] \in Input
  BY DEF TypeOK
<1>2. QED
  BY <1>1 DEF Input, Joins

\* What is edited is a roster of the same members.
LEMMA EditsType ==
  ASSUME NEW old \in Roster, NEW new \in Edits(old)
  PROVE  /\ new \in Roster /\ Unambiguous(new)
         /\ \A m \in Members : new[m] # None => old[m] # None
<1> DEFINE there == {m \in Members : old[m] # None}
<1>1. PICK f \in [there -> Entry \cup {None}] :
        new = [m \in Members |-> IF m \in there THEN f[m] ELSE None]
  BY DEF Edits
<1>2. Unambiguous(new)
  BY DEF Edits
<1>3. QED
  BY <1>1, <1>2 DEF Roster

\* Only the row of one request changes, and not when it has been answered.
Others(r) ==
  /\ \A q \in Requests : q # r \/ pc[q] \in {"ok", "failed"} =>
       /\ pc'[q] = pc[q] /\ input'[q] = input[q]
       /\ payload'[q] = payload[q] /\ row'[q] = row[q]
  /\ pc[r] # "new" => input'[r] = input[r]

LEMMA StepOthers ==
  ASSUME TypeOK, NEW r \in Requests, Asks(r) \/ Steps(r)
  PROVE  Others(r) /\ pc[r] \notin {"ok", "failed"}
<1> USE DEF TypeOK, Others, Goto, At, Retry, Reject, own, tables
<1>1. CASE Asks(r)
  BY <1>1 DEF Asks, Ask, AskRegister, AskAdd, AskLogin, AskLogout, AskLink, AskSetup, AskSave
<1>2. CASE JoinRead(r) \/ JoinCheck(r) \/ JoinRefused(r)
  BY <1>2 DEF JoinRead, JoinCheck, JoinRefused
<1>3. CASE RegisterCommit(r) \/ AddCommit(r)
  BY <1>3 DEF RegisterCommit, AddCommit
<1>4. CASE LoginRead(r) \/ LoginCheck(r) \/ LoginRefused(r) \/ LoginCommit(r) \/ Logout(r)
  BY <1>4 DEF LoginRead, LoginCheck, LoginRefused, LoginCommit, Logout
<1>5. CASE LinkRead(r) \/ LinkRefused(r) \/ LinkCommit(r)
  BY <1>5 DEF LinkRead, LinkRefused, LinkCommit
<1>6. CASE SetupRead(r) \/ SetupCheck(r) \/ SetupRefused(r) \/ SetupCommit(r)
  BY <1>6 DEF SetupRead, SetupCheck, SetupRefused, SetupCommit
<1>7. CASE SaveRead(r) \/ SaveCheck(r) \/ SaveCommit(r)
  BY <1>7 DEF SaveRead, SaveCheck, SaveCommit
<1>8. QED
  BY <1>1, <1>2, <1>3, <1>4, <1>5, <1>6, <1>7 DEF Steps

\* The credential of an answered request is there to stay.
LEMMA Stable ==
  ASSUME TypeOK, NEW r \in Requests, Others(r), NEW v \in Members, Made(v)
  PROVE  Made(v)' /\ Secret(v)' = Secret(v)
BY AccessAssumption DEF Others, Made, Secret, Members

-----------------------------------------------------------------------------
(* Requests that only read *)

Reading(r) ==
  \/ Asks(r)
  \/ JoinRead(r) \/ JoinCheck(r) \/ JoinRefused(r)
  \/ LoginRead(r) \/ LoginCheck(r) \/ LoginRefused(r)
  \/ LinkRead(r) \/ LinkRefused(r)
  \/ SetupRead(r) \/ SetupCheck(r) \/ SetupRefused(r)
  \/ SaveRead(r) \/ SaveCheck(r)

LEMMA AsksType ==
  ASSUME TypeOK, NEW r \in Requests, Asks(r)
  PROVE  TypeOK'
<1>1. PICK x \in Input : input' = [input EXCEPT ![r] = x]
  <2>1. CASE AskRegister(r)
    BY <2>1 DEF AskRegister, Input
  <2>2. CASE AskAdd(r)
    BY <2>2 DEF AskAdd, Input
  <2>3. CASE AskLogin(r)
    BY <2>3 DEF AskLogin, Input
  <2>4. CASE AskLogout(r)
    BY <2>4 DEF AskLogout, Input
  <2>5. CASE AskLink(r)
    BY <2>5 DEF AskLink, Input
  <2>6. CASE AskSetup(r)
    BY <2>6 DEF AskSetup, Input
  <2>7. CASE AskSave(r)
    <3>1. portal \in Portal /\ portal.members \in Roster
      BY DEF TypeOK, Portal
    <3>2. PICK t \in Requests \cup {None}, members \in Edits(portal.members), rest \in Rests :
            input' = [input EXCEPT ![r] = [kind |-> "save", token |-> t, page |-> portal,
                                           members |-> members, rest |-> rest]]
      BY <2>7 DEF AskSave
    <3>3. members \in Roster
      BY <3>1, EditsType
    <3>4. [kind |-> "save", token |-> t, page |-> portal, members |-> members, rest |-> rest]
            \in Input
      BY <3>1, <3>3 DEF Input
    <3>5. QED
      BY <3>2, <3>4
  <2>8. QED
    BY <2>1, <2>2, <2>3, <2>4, <2>5, <2>6, <2>7 DEF Asks
<1>2. x # None
  BY AccessAssumption
<1>3. /\ UNCHANGED <<portal, accounts, sessions, links, payload, row, tries>>
      /\ pc' = [pc EXCEPT ![r] = "read"]
  BY DEF Asks, Ask, Goto, tables, AskRegister, AskAdd, AskLogin, AskLogout, AskLink,
     AskSetup, AskSave
<1>4. QED
  BY <1>1, <1>2, <1>3 DEF TypeOK

LEMMA ReadingType ==
  ASSUME TypeOK, NEW r \in Requests, Reading(r)
  PROVE  TypeOK'
<1>1. CASE Asks(r)
  BY <1>1, AsksType
<1> USE DEF TypeOK, Goto, At, Reject, tables
<1>2. CASE JoinRead(r) \/ JoinCheck(r) \/ JoinRefused(r)
  BY <1>2 DEF JoinRead, JoinCheck, JoinRefused
<1>3. CASE LoginRead(r)
  <2>1. PICK m \in Members :
          /\ Owns(m, input[r].email)
          /\ row' = [row EXCEPT ![r] = Found(m, input[r].email, accounts[m].version)]
    BY <1>3 DEF LoginRead
  <2>2. accounts[m] \in Account /\ input[r].email = accounts[m].email
    BY <2>1 DEF Owns
  <2>3. Found(m, input[r].email, accounts[m].version) \in Row
    BY <2>2 DEF Found, Row, Account
  <2>4. row' \in [Requests -> Row \cup {None}]
    BY <2>1, <2>3
  <2>5. QED
    BY <1>3, <2>4 DEF LoginRead
<1>4. CASE LoginCheck(r) \/ LoginRefused(r)
  BY <1>4 DEF LoginCheck, LoginRefused
<1>5. CASE LinkRead(r)
  <2>1. pc[r] # "new" /\ input[r].kind = "link"
    BY <1>5 DEF LinkRead
  <2>2. input[r].member \in Members
    BY <2>1, Fields
  <2>3. portal.members[input[r].member] \in Entry
    BY <1>5, <2>2 DEF LinkRead, Portal, Roster
  <2>4. Found(input[r].member, portal.members[input[r].member].email, None) \in Row
    BY <2>2, <2>3 DEF Found, Row, Entry
  <2>5. row' \in [Requests -> Row \cup {None}]
    BY <1>5, <2>4 DEF LinkRead
  <2>6. QED
    BY <1>5, <2>5 DEF LinkRead
<1>6. CASE SetupRead(r)
  <2>1. pc[r] # "new" /\ input[r].kind = "setup"
    BY <1>6 DEF SetupRead
  <2>2. links[input[r].token] \in Link
    BY <1>6, <2>1, Fields DEF SetupRead
  <2>3. Found(links[input[r].token].member, links[input[r].token].email, None) \in Row
    BY <2>2 DEF Found, Row, Link
  <2>4. row' \in [Requests -> Row \cup {None}]
    BY <1>6, <2>3 DEF SetupRead
  <2>5. QED
    BY <1>6, <2>4 DEF SetupRead
<1>7. CASE LinkRefused(r) \/ SetupCheck(r) \/ SetupRefused(r) \/ SaveRead(r)
  BY <1>7 DEF LinkRefused, SetupCheck, SetupRefused, SaveRead
<1>8. CASE SaveCheck(r)
  <2>1. pc[r] # "new" /\ input[r].kind = "save"
    BY <1>8 DEF SaveCheck
  <2>2. row' \in [Requests -> Row \cup {None}]
    <3>1. CASE row' = row
      BY <3>1
    <3>2. CASE row' # row
      <4>1. /\ input[r].token # None /\ Live(input[r].token)
            /\ row' = [row EXCEPT ![r] = Found(sessions[input[r].token].member,
                                               sessions[input[r].token].email, None)]
        BY <1>8, <3>2 DEF SaveCheck, Authorised
      <4>2. sessions[input[r].token] \in Session
        BY <2>1, <4>1, Fields DEF Live
      <4>3. Found(sessions[input[r].token].member, sessions[input[r].token].email, None) \in Row
        BY <4>2 DEF Found, Row, Session
      <4>4. QED
        BY <4>1, <4>3
    <3>3. QED
      BY <3>1, <3>2
  <2>3. pc' \in [Requests -> {"new", "read", "check", "commit", "ok", "failed"}]
        /\ \A q \in Requests : pc'[q] # "new" => pc[q] # "new"
    BY <1>8 DEF SaveCheck
  <2>4. QED
    BY <1>8, <2>2, <2>3 DEF SaveCheck
<1>9. QED
  BY <1>1, <1>2, <1>3, <1>4, <1>5, <1>6, <1>7, <1>8 DEF Reading

-----------------------------------------------------------------------------
(* What a step leaves alone *)

\* The credentials that stay are of the same requests.
LEMMA VersionsStay ==
  ASSUME TypeOK, VersionsAreSecrets, NEW r \in Requests, Others(r),
         NEW m \in Members, accounts'[m] # None, accounts'[m] = accounts[m]
  PROVE  (Made(accounts[m].version) /\ accounts[m].password = Secret(accounts[m].version))'
<1>1. accounts[m].version \in Members
  BY AccessAssumption DEF TypeOK, Account
<1>2. PICK v \in Members : v = accounts[m].version
  BY <1>1
<1>3. Made(v) /\ accounts[m].password = Secret(v)
  BY <1>2 DEF VersionsAreSecrets
<1>4. Made(v)' /\ Secret(v)' = Secret(v)
  BY <1>3, Stable
<1>5. accounts'[m].version = v /\ accounts'[m].password = accounts[m].password
  BY <1>2
<1>6. QED
  BY <1>3, <1>4, <1>5 DEF Made, Secret

\* A session stays with its member and with the account it was opened for.
Stays(t) ==
  LET m == sessions[t].member IN
  /\ sessions[t] # None
  /\ sessions'[t].member = m /\ sessions'[t].email = sessions[t].email
  /\ sessions'[t].version = sessions[t].version
  /\ accounts'[m] = accounts[m]
  /\ portal'.members[m] = portal.members[m]

\* What SessionsFollowAccounts says of one session.
Follows(t) ==
  /\ pc[t] = "ok" /\ input[t].kind = "login"
  /\ Active(portal, sessions[t].member, sessions[t].email)
  /\ accounts[sessions[t].member] # None
  /\ accounts[sessions[t].member].version = sessions[t].version
  /\ sessions[t].email = input[t].email
  /\ Secret(sessions[t].version) = input[t].password

LEMMA SessionsStay ==
  ASSUME TypeOK, VersionsAreSecrets, SessionsFollowAccounts, NEW r \in Requests, Others(r),
         NEW t \in Requests, Stays(t)
  PROVE  Follows(t)'
<1>1. sessions[t] \in Session
  BY DEF Stays, TypeOK
<1>2. PICK m \in Members, v \in Members : m = sessions[t].member /\ v = sessions[t].version
  BY <1>1 DEF Session
<1>3. /\ pc[t] = "ok" /\ input[t].kind = "login"
      /\ Active(portal, m, sessions[t].email)
      /\ accounts[m] # None
      /\ accounts[m].version = v
      /\ sessions[t].email = input[t].email
      /\ Secret(v) = input[t].password
  BY <1>2 DEF SessionsFollowAccounts, Stays
<1>4. pc'[t] = "ok" /\ input'[t] = input[t]
  BY <1>3 DEF Others
<1>5. Made(v)
  BY <1>3 DEF VersionsAreSecrets
<1>6. Secret(v)' = Secret(v)
  BY <1>5, Stable
<1>7. sessions'[t].member = m /\ sessions'[t].email = sessions[t].email
      /\ sessions'[t].version = v /\ accounts'[m] = accounts[m]
      /\ portal'.members[m] = portal.members[m]
  BY <1>2 DEF Stays
<1>8. Active(portal, sessions[t].member, sessions[t].email)'
  BY <1>3, <1>7 DEF Active, Usable
<1>9. Secret(sessions[t].version)' = input'[t].password
  BY <1>3, <1>4, <1>6, <1>7 DEF Secret
<1>10. QED
  BY <1>3, <1>4, <1>7, <1>8, <1>9 DEF Follows

\* An unused link stays with its member, who may still use it.
LEMMA LinksStay ==
  ASSUME TypeOK, LinksAreUsable,
         \A t \in Requests : links'[t] # None =>
           /\ links[t] # None
           /\ links'[t].member = links[t].member /\ links'[t].email = links[t].email
           /\ links'[t].consumed = None =>
                /\ links[t].consumed = None
                /\ Usable(portal, links[t].member, links[t].email)
                     => Usable(portal', links[t].member, links[t].email)
  PROVE  LinksAreUsable'
<1> SUFFICES ASSUME NEW t \in Requests, links'[t] # None, links'[t].consumed = None
             PROVE  (/\ Usable(portal, links[t].member, links[t].email)
                     /\ \A o \in Requests \ {t} : links[o] # None =>
                          links[o].member # links[t].member)'
  BY DEF LinksAreUsable
<1>1. Usable(portal, links[t].member, links[t].email)
  BY DEF LinksAreUsable
<1>2. (Usable(portal, links[t].member, links[t].email))'
  BY <1>1 DEF Usable
<1>3. QED
  BY <1>2 DEF LinksAreUsable

\* A step that answers no request for a password with "ok".
LEMMA OnceStays ==
  ASSUME TypeOK, LinksAreUsedOnce, NEW r \in Requests, Others(r),
         pc'[r] = "ok" => input'[r].kind # "setup"
  PROVE  LinksAreUsedOnce'
BY DEF Others, LinksAreUsedOnce

\* What the other requests have read stays good.
LEMMA OthersRead ==
  ASSUME TypeOK, NEW r \in Requests, Others(r), NEW q \in Requests \ {r}, Reads(q),
         \A t \in Requests : links'[t] # None =>
           \/ links[t] # None /\ links'[t].member = links[t].member
           \/ \A p \in Requests : pc[p] # "new" /\ input[p].kind = "setup" => input[p].token # t
  PROVE  Reads(q)'
<1>1. /\ pc'[q] = pc[q] /\ input'[q] = input[q]
      /\ payload'[q] = payload[q] /\ row'[q] = row[q]
  BY DEF Others
<1>2. ASSUME At(q, {"login"}, "check") \/ At(q, {"login"}, "commit")
      PROVE  (Made(row[q].version) /\ Secret(row[q].version) = input[q].password)'
  <2>1. /\ row[q] # None /\ row[q].version # None
        /\ Made(row[q].version) /\ Secret(row[q].version) = input[q].password
    BY <1>2 DEF Reads
  <2>2. PICK v \in Members : v = row[q].version
    BY <2>1 DEF TypeOK, Row
  <2>3. Made(v)' /\ Secret(v)' = Secret(v)
    BY <2>1, <2>2, Stable
  <2>4. row'[q].version = v
    BY <1>1, <2>2
  <2>5. QED
    BY <1>1, <2>1, <2>2, <2>3, <2>4 DEF Made, Secret
<1>3. ASSUME At(q, {"setup"}, "check") \/ At(q, {"setup"}, "commit"),
             links'[input[q].token] # None
      PROVE  links'[input[q].token].member = row[q].member
  <2>1. input[q].token \in Requests
    BY <1>3, Fields DEF At
  <2>2. links[input[q].token] # None /\ links'[input[q].token].member = links[input[q].token].member
    BY <1>3, <2>1 DEF At
  <2>3. QED
    BY <1>3, <2>2 DEF Reads
<1>4. Result(q)' = Result(q)
  BY <1>1 DEF Result
<1>5. QED
  BY <1>1, <1>2, <1>3, <1>4 DEF Reads, At, Usable, Active, Taken

\* A step that writes nothing, and answers "ok" to a save only.
LEMMA Quiet ==
  ASSUME IInv, TypeOK', NEW r \in Requests, Others(r), UNCHANGED <<portal, tables>>, Reads(r)',
         pc[r] \notin {"ok", "failed"}, pc'[r] = "ok" => input'[r].kind = "save",
         input'[r].kind = "setup" => pc'[input'[r].token] = "ok"
  PROVE  IInv'
<1> USE DEF tables
<1>1. AccountsFollowRoster'
  BY DEF IInv, AccountsFollowRoster, Unambiguous
<1>2. VersionsAreSecrets'
  BY VersionsStay DEF IInv, VersionsAreSecrets
<1>3. SessionsFollowAccounts'
  <2>1. \A t \in Requests : sessions'[t] # None => Stays(t)
    BY DEF Stays
  <2>2. QED
    BY <2>1, SessionsStay DEF IInv, SessionsFollowAccounts, Follows
<1>4. LinksAreUsable'
  BY LinksStay DEF IInv
<1>5. LinksAreUsedOnce'
  BY OnceStays DEF IInv
<1>6. IdsAreFresh'
  <2>1. \A q \in Requests : pc[q] = "ok" => q # r
    BY DEF Others
  <2>2. \A q \in Requests : pc'[q] = "ok" /\ input'[q].kind # "save" => q # r
    OBVIOUS
  <2>3. (\A q \in Requests : portal.members[q] # None => pc[q] = "ok" /\ input[q].kind \in Joins)'
    BY <2>1 DEF IInv, IdsAreFresh, Others
  <2>4. (\A t \in Requests : links[t] # None => pc[t] = "ok" /\ input[t].kind = "link")'
    BY <2>1 DEF IInv, IdsAreFresh, Others
  <2>5. ASSUME NEW q \in Requests, pc'[q] # "new", input'[q].kind = "setup"
        PROVE  /\ pc'[input'[q].token] = "ok"
               /\ pc'[q] = "ok" /\ links'[input'[q].token] # None =>
                    links'[input'[q].token].consumed # None
    <3>1. CASE q = r
      BY <2>5, <3>1
    <3>2. CASE q # r
      <4>1. pc[q] = pc'[q] /\ input'[q] = input[q]
        BY <3>2 DEF Others
      <4>2. input[q].token \in Requests
        BY <2>5, <4>1, Fields DEF IInv
      <4>3. /\ pc[input[q].token] = "ok"
            /\ pc[q] = "ok" /\ links[input[q].token] # None => links[input[q].token].consumed # None
        BY <2>5, <4>1 DEF IInv, IdsAreFresh
      <4>4. pc'[input[q].token] = "ok"
        BY <2>1, <4>2, <4>3 DEF Others
      <4>5. QED
        BY <4>1, <4>3, <4>4
    <3>3. QED
      BY <3>1, <3>2
  <2>6. QED
    BY <2>3, <2>4, <2>5 DEF IdsAreFresh
<1>7. \A q \in Requests : Reads(q)'
  <2>1. \A q \in Requests \ {r} : Reads(q)'
    BY OthersRead DEF IInv
  <2>2. QED
    BY <2>1
<1>8. QED
  BY <1>1, <1>2, <1>3, <1>4, <1>5, <1>6, <1>7 DEF IInv

\* What a request reads is what its batch will expect.
LEMMA ReadingReads ==
  ASSUME IInv, NEW r \in Requests, Reading(r)
  PROVE  /\ Reads(r)' /\ UNCHANGED <<portal, tables>>
         /\ pc'[r] # "ok"
         /\ input'[r].kind = "setup" => pc'[input'[r].token] = "ok"
<1> USE DEF IInv, TypeOK, Goto, At, Reject, tables
<1>1. CASE Asks(r)
  <2>1. /\ pc' = [pc EXCEPT ![r] = "read"] /\ pc[r] = "new"
        /\ UNCHANGED <<portal, accounts, sessions, links, payload, row>>
    BY <1>1 DEF Asks, Ask, AskRegister, AskAdd, AskLogin, AskLogout, AskLink, AskSetup, AskSave
  <2>2. CASE AskSave(r)
    <3>1. portal.members \in Roster
      BY DEF Portal
    <3>2. PICK t \in Requests \cup {None}, members \in Edits(portal.members), rest \in Rests :
            input' = [input EXCEPT ![r] = [kind |-> "save", token |-> t, page |-> portal,
                                           members |-> members, rest |-> rest]]
      BY <2>2 DEF AskSave
    <3>3. Unambiguous(members) /\ \A m \in Members : members[m] # None => portal.members[m] # None
      BY <3>1, EditsType
    <3>4. /\ input'[r].kind = "save" /\ input'[r].members = members
          /\ input'[r].page = portal
      BY <3>2
    <3>5. (Unambiguous(input[r].members))'
      BY <3>3, <3>4 DEF Unambiguous
    <3>6. QED
      BY <2>1, <3>3, <3>4, <3>5 DEF Reads, Joins
  <2>3. CASE AskSetup(r)
    <3>1. PICK t \in Requests, p \in Passwords :
            /\ links[t] # None
            /\ input' = [input EXCEPT ![r] = [kind |-> "setup", token |-> t, password |-> p]]
      BY <2>3 DEF AskSetup
    <3>2. pc[t] = "ok"
      BY <3>1 DEF IdsAreFresh
    <3>3. QED
      BY <2>1, <3>1, <3>2 DEF Reads, Joins
  <2>4. CASE AskRegister(r) \/ AskAdd(r)
    <3>1. input'[r].kind \in Joins
      BY <2>4 DEF AskRegister, AskAdd, Joins
    <3>2. QED
      BY <2>1, <3>1 DEF Reads, Joins
  <2>5. CASE AskLogin(r) \/ AskLogout(r) \/ AskLink(r)
    <3>1. input'[r].kind \in {"login", "logout", "link"}
      BY <2>5 DEF AskLogin, AskLogout, AskLink
    <3>2. QED
      BY <2>1, <3>1 DEF Reads, Joins
  <2>6. QED
    BY <1>1, <2>2, <2>3, <2>4, <2>5 DEF Asks
<1>2. CASE JoinRead(r)
  BY <1>2, AccessAssumption DEF JoinRead, Reads, Joins, Taken
<1>3. CASE JoinCheck(r)
  BY <1>3 DEF JoinCheck, Reads, Joins, Taken
<1>4. CASE JoinRefused(r)
  BY <1>4 DEF JoinRefused, Reads, Joins
<1>5. CASE LoginRead(r)
  <2>1. PICK m \in Members :
          /\ Owns(m, input[r].email)
          /\ accounts[m].password = input[r].password
          /\ row' = [row EXCEPT ![r] = Found(m, input[r].email, accounts[m].version)]
    BY <1>5 DEF LoginRead
  <2>2. accounts[m] \in Account
    BY <2>1 DEF Owns
  <2>3. Made(accounts[m].version) /\ Secret(accounts[m].version) = input[r].password
    BY <2>1 DEF VersionsAreSecrets, Owns
  <2>4. Others(r)
    BY <1>5, StepOthers DEF Steps
  <2>5. PICK v \in Members : v = accounts[m].version
    BY <2>2 DEF Account
  <2>6. Made(v)' /\ Secret(v)' = input[r].password
    BY <2>3, <2>4, <2>5, Stable
  <2>7. Found(m, input[r].email, v) \in Row
    BY <2>1, <2>2 DEF Found, Row, Account, Owns
  <2>8. /\ row'[r] # None /\ row'[r].email = input[r].email /\ row'[r].version = v
    BY <2>1, <2>5, <2>7, AccessAssumption DEF Found
  <2>9. v # None
    BY <2>5, AccessAssumption DEF Members
  <2>10. pc'[r] = "check" /\ input' = input /\ input[r].kind = "login"
    BY <1>5 DEF LoginRead
  <2>11. (Made(row[r].version) /\ Secret(row[r].version) = input[r].password)'
    BY <2>6, <2>8, <2>10 DEF Made, Secret
  <2>12. QED
    BY <1>5, <2>8, <2>9, <2>10, <2>11 DEF LoginRead, Reads, Joins
<1>6. CASE LoginCheck(r)
  BY <1>6 DEF LoginCheck, Reads, Joins, Made, Secret
<1>7. CASE LoginRefused(r) \/ LinkRefused(r)
  BY <1>7 DEF LoginRefused, LinkRefused, Reads, Joins
<1>8. CASE LinkRead(r)
  <2>1. input[r].member \in Members
    BY <1>8, Fields DEF LinkRead
  <2>2. portal.members[input[r].member] \in Entry
    BY <1>8, <2>1 DEF LinkRead, Portal, Roster
  <2>3. Found(input[r].member, portal.members[input[r].member].email, None) \in Row
    BY <2>1, <2>2 DEF Found, Row, Entry
  <2>4. row'[r] # None
    BY <1>8, <2>3, AccessAssumption DEF LinkRead
  <2>5. QED
    BY <1>8, <2>4 DEF LinkRead, Reads, Joins
<1>9. CASE SetupRead(r)
  <2>1. input[r].token \in Requests
    BY <1>9, Fields DEF SetupRead
  <2>2. links[input[r].token] \in Link
    BY <1>9, <2>1 DEF SetupRead
  <2>3. Found(links[input[r].token].member, links[input[r].token].email, None) \in Row
    BY <2>2 DEF Found, Row, Link
  <2>4. row'[r] # None /\ row'[r].member = links[input[r].token].member
    BY <1>9, <2>3, AccessAssumption DEF SetupRead, Found
  <2>5. pc[input[r].token] = "ok"
    BY <1>9 DEF SetupRead, IdsAreFresh
  <2>6. QED
    BY <1>9, <2>1, <2>4, <2>5 DEF SetupRead, Reads, Joins
<1>10. CASE SetupCheck(r) \/ SetupRefused(r)
  <2>1. pc[input[r].token] = "ok" /\ input[r].token \in Requests
    BY <1>10, Fields DEF SetupCheck, SetupRefused, IdsAreFresh
  <2>2. QED
    BY <1>10, <2>1 DEF SetupCheck, SetupRefused, Reads, Joins
<1>11. CASE SaveRead(r)
  BY <1>11, AccessAssumption DEF SaveRead, Reads, Joins
<1>12. CASE SaveCheck(r)
  <2>1. /\ input' = input /\ payload' = payload /\ UNCHANGED <<portal, tables>>
        /\ input[r].kind = "save" /\ pc[r] = "check"
        /\ pc' = [pc EXCEPT ![r] = "commit"] \/ pc' = [pc EXCEPT ![r] = "failed"]
    BY <1>12 DEF SaveCheck
  <2>2. ASSUME pc'[r] = "commit"
        PROVE  /\ input[r].page = payload[r] \/ Result(r) = payload[r]
               /\ input[r].token # None =>
                    row'[r] # None /\ Active(payload[r], row'[r].member, row'[r].email)
    <3>1. /\ Authorised(r)
          /\ input[r].page = payload[r] \/ Result(r) = payload[r]
          /\ row' = IF input[r].token = None THEN row
                    ELSE [row EXCEPT ![r] = Found(sessions[input[r].token].member,
                                                  sessions[input[r].token].email, None)]
      BY <1>12, <2>2 DEF SaveCheck
    <3>2. ASSUME input[r].token # None
          PROVE  row'[r] # None /\ Active(payload[r], row'[r].member, row'[r].email)
      <4>1. Live(input[r].token)
            /\ Active(payload[r], sessions[input[r].token].member, sessions[input[r].token].email)
        BY <3>1, <3>2 DEF Authorised
      <4>2. input[r].token \in Requests
        BY <2>1, <3>2, Fields
      <4>3. sessions[input[r].token] \in Session
        BY <4>1, <4>2 DEF Live
      <4>4. Found(sessions[input[r].token].member, sessions[input[r].token].email, None) \in Row
        BY <4>3 DEF Found, Row, Session
      <4>5. QED
        BY <3>1, <3>2, <4>1, <4>4, AccessAssumption DEF Found
    <3>3. QED
      BY <3>1, <3>2
  <2>3. Result(r)' = Result(r)
    BY <2>1 DEF Result
  <2>4. payload[r] # None
    BY <2>1 DEF Reads
  <2>5. (Unambiguous(input[r].members))' <=> Unambiguous(input[r].members)
    BY <2>1 DEF Unambiguous
  <2>6. (pc'[r] = "commit" \/ pc'[r] = "failed") /\ pc[r] # "new"
    BY <2>1
  <2>7. ASSUME pc'[r] = "commit", input[r].token # None
        PROVE  (Active(payload[r], row[r].member, row[r].email))'
    BY <2>1, <2>2, <2>7 DEF Active, Usable
  <2>8. Reads(r)'
    BY <2>1, <2>2, <2>3, <2>4, <2>5, <2>6, <2>7 DEF Reads, Joins
  <2>9. QED
    BY <2>1, <2>6, <2>8
<1>13. QED
  BY <1>1, <1>2, <1>3, <1>4, <1>5, <1>6, <1>7, <1>8, <1>9, <1>10, <1>11, <1>12 DEF Reading

LEMMA ReadingInductive ==
  ASSUME IInv, NEW r \in Requests, Reading(r)
  PROVE  IInv'
<1>1. TypeOK
  BY DEF IInv
<1>2. TypeOK'
  BY <1>1, ReadingType
<1>3. Asks(r) \/ Steps(r)
  BY DEF Reading, Steps
<1>4. Others(r) /\ pc[r] \notin {"ok", "failed"}
  BY <1>1, <1>3, StepOthers
<1>5. QED
  BY <1>2, <1>4, ReadingReads, Quiet

-----------------------------------------------------------------------------
(* Joining *)

\* A batch that fails leaves the request to read again, or to give up.
LEMMA FailedInductive ==
  ASSUME IInv, NEW r \in Requests, Others(r), UNCHANGED <<portal, tables, input, payload, row>>,
         \/ Goto(r, "failed") /\ tries' = tries
         \/ Retry(r),
         pc[r] \notin {"new", "ok", "failed"}
  PROVE  IInv'
<1>1. /\ pc' \in [Requests -> {"new", "read", "check", "commit", "ok", "failed"}]
      /\ pc'[r] \in {"read", "failed"}
      /\ \A q \in Requests : pc'[q] # "new" => pc[q] # "new"
  BY DEF IInv, TypeOK, Goto, Retry
<1>2. tries' \in [Requests -> Nat]
  BY DEF IInv, TypeOK, Retry
<1>3. TypeOK'
  BY <1>1, <1>2 DEF IInv, TypeOK, tables
<1>4. (Unambiguous(input[r].members))' <=> Unambiguous(input[r].members)
  BY DEF Unambiguous
<1>5. Reads(r)'
  BY <1>1, <1>4 DEF IInv, Reads, At
<1>6. input'[r].kind = "setup" => pc'[input'[r].token] = "ok"
  <2>1. SUFFICES ASSUME input[r].kind = "setup"
                 PROVE  pc'[input[r].token] = "ok"
    OBVIOUS
  <2>2. input[r].token \in Requests /\ pc[input[r].token] = "ok"
    BY <2>1, Fields DEF IInv, IdsAreFresh
  <2>3. input[r].token # r
    BY <2>2 DEF Others
  <2>4. QED
    BY <2>2, <2>3 DEF Others
<1>7. QED
  BY <1>1, <1>3, <1>5, <1>6, Quiet

\* The id of a request that has not been answered is nobody's.
LEMMA FreshId ==
  ASSUME IInv, NEW r \in Requests, pc[r] # "ok"
  PROVE  /\ portal.members[r] = None /\ accounts[r] = None
         /\ sessions[r] = None /\ links[r] = None
         /\ \A q \in Requests : pc[q] # "new" /\ input[q].kind = "setup" => input[q].token # r
         /\ \A t \in Requests : sessions[t] # None => sessions[t].member # r
BY DEF IInv, IdsAreFresh, AccountsFollowRoster, SessionsFollowAccounts, Members, Active, Usable

\* A new member with a free address, and with a password of its own or none.
LEMMA JoinInductive ==
  ASSUME IInv, NEW r \in Requests, Others(r), At(r, Joins, "commit"), Unchanged(r),
         NEW status \in Statuses, portal' = With(payload[r], r, status),
         Goto(r, "ok"), UNCHANGED <<sessions, links, input, payload, row, tries>>,
         \/ accounts' = accounts
         \/ /\ input[r].kind = "register"
            /\ \A m \in Members : ~Owns(m, input[r].email)
            /\ accounts' = [accounts EXCEPT ![r] = Credential(r, input[r].email)]
  PROVE  IInv'
<1> DEFINE e == input[r].email
           new == [email |-> e, status |-> status]
<1>1. /\ TypeOK /\ pc[r] = "commit" /\ input[r].kind \in Joins /\ r \in Members
      /\ payload[r] = portal /\ pc[r] # "ok" /\ r \notin Founders
  BY AccessAssumption DEF IInv, At, Members, Unchanged
<1>2. e \in Emails /\ new \in Entry /\ new # None
  <2>1. e \in Emails
    BY <1>1, Fields
  <2>2. new \in Entry
    BY <2>1 DEF Entry
  <2>3. QED
    BY <2>1, <2>2, AccessAssumption
<1>3. /\ portal \in Portal /\ portal.members \in Roster /\ portal.revision \in Nat
  BY <1>1 DEF TypeOK, Portal
<1>4. /\ portal' \in Portal
      /\ portal'.members = [portal.members EXCEPT ![r] = new]
  <2>1. /\ portal' = [portal EXCEPT !.members = [portal.members EXCEPT ![r] = new],
                                    !.revision = portal.revision + 1]
    BY <1>1 DEF With
  <2>2. [portal.members EXCEPT ![r] = new] \in Roster
    BY <1>1, <1>2, <1>3 DEF Roster
  <2>3. portal.revision + 1 \in Nat
    BY <1>3
  <2>4. QED
    BY <1>3, <2>1, <2>2, <2>3 DEF Portal
<1>5. /\ portal'.members[r] = new
      /\ \A m \in Members : m # r => portal'.members[m] = portal.members[m]
  BY <1>1, <1>3, <1>4 DEF Roster
<1>6. ~Taken(portal, e)
  BY <1>1 DEF IInv, Reads, At
<1>7. /\ portal.members[r] = None /\ accounts[r] = None
      /\ \A t \in Requests : sessions[t] # None => sessions[t].member # r
  BY <1>1, FreshId
<1>8. /\ accounts' \in [Members -> Account \cup {None}]
      /\ \A m \in Members : m # r => accounts'[m] = accounts[m]
      /\ accounts'[r] # None => /\ accounts'[r] = Credential(r, e)
                                /\ input[r].kind = "register"
  <2>1. CASE accounts' = accounts
    BY <1>1, <1>7, <2>1 DEF TypeOK
  <2>2. CASE accounts' # accounts
    <3>1. /\ input[r].kind = "register"
          /\ accounts' = [accounts EXCEPT ![r] = Credential(r, e)]
      BY <2>2
    <3>2. input[r].password \in Passwords
      BY <1>1, <3>1, Fields
    <3>3. Credential(r, e) \in Account
      BY <1>1, <1>2, <3>2 DEF Credential, Account
    <3>4. QED
      BY <1>1, <3>1, <3>3 DEF TypeOK
  <2>3. QED
    BY <2>1, <2>2
<1>9. /\ pc' \in [Requests -> {"new", "read", "check", "commit", "ok", "failed"}]
      /\ pc'[r] = "ok"
      /\ \A q \in Requests : pc'[q] # "new" => pc[q] # "new"
  BY <1>1 DEF TypeOK, Goto
<1>10. TypeOK'
  BY <1>1, <1>4, <1>8, <1>9 DEF TypeOK
<1>11. AccountsFollowRoster'
  <2>1. (Unambiguous(portal.members))'
    BY <1>1, <1>3, <1>5, <1>6 DEF IInv, AccountsFollowRoster, Unambiguous, Taken
  <2>2. ASSUME NEW m \in Members, accounts'[m] # None
        PROVE  portal'.members[m] # None /\ portal'.members[m].email = accounts'[m].email
    <3>1. CASE m = r
      BY <1>2, <1>5, <1>8, <2>2, <3>1 DEF Credential
    <3>2. CASE m # r
      BY <1>5, <1>8, <2>2, <3>2 DEF IInv, AccountsFollowRoster
    <3>3. QED
      BY <3>1, <3>2
  <2>3. QED
    BY <2>1, <2>2 DEF AccountsFollowRoster
<1>12. VersionsAreSecrets'
  <2>1. SUFFICES ASSUME NEW m \in Members, accounts'[m] # None
                 PROVE  (Made(accounts[m].version) /\ accounts[m].password = Secret(accounts[m].version))'
    BY DEF VersionsAreSecrets
  <2>2. CASE m = r
    BY <1>1, <1>8, <1>9, <2>1, <2>2 DEF Credential, Made, Secret
  <2>3. CASE m # r
    BY <1>1, <1>8, <2>1, <2>3, VersionsStay DEF IInv
  <2>4. QED
    BY <2>2, <2>3
<1>13. SessionsFollowAccounts'
  <2>1. ASSUME NEW t \in Requests, sessions'[t] # None
        PROVE  Stays(t)
    <3>1. sessions[t].member \in Members /\ sessions[t].member # r
      BY <1>1, <1>7, <2>1, AccessAssumption DEF TypeOK, Session
    <3>2. QED
      BY <1>5, <1>8, <2>1, <3>1 DEF Stays
  <2>2. QED
    BY <1>1, <2>1, SessionsStay DEF IInv, SessionsFollowAccounts, Follows
<1>14. LinksAreUsable'
  <2>1. ASSUME NEW t \in Requests, links[t] # None, links[t].consumed = None
        PROVE  Usable(portal', links[t].member, links[t].email)
    <3>1. links[t].member \in Members
      BY <1>1, <2>1, AccessAssumption DEF TypeOK, Link
    <3>2. Usable(portal, links[t].member, links[t].email)
      BY <2>1 DEF IInv, LinksAreUsable
    <3>3. QED
      BY <1>5, <1>7, <3>1, <3>2 DEF Usable
  <2>2. QED
    BY <1>1, <2>1, LinksStay DEF IInv
<1>15. LinksAreUsedOnce'
  BY <1>1, OnceStays DEF IInv, Joins
<1>16. IdsAreFresh'
  <2>1. (\A q \in Requests : portal.members[q] # None => pc[q] = "ok" /\ input[q].kind \in Joins)'
    BY <1>1, <1>5, <1>9 DEF IInv, IdsAreFresh, Others, Members
  <2>2. (\A t \in Requests : links[t] # None => pc[t] = "ok" /\ input[t].kind = "link")'
    BY <1>1 DEF IInv, IdsAreFresh, Others
  <2>3. ASSUME NEW q \in Requests, pc'[q] # "new", input[q].kind = "setup"
        PROVE  /\ pc'[input[q].token] = "ok"
               /\ pc'[q] = "ok" /\ links[input[q].token] # None =>
                    links[input[q].token].consumed # None
    <3>1. pc[q] # "new" /\ q # r
      BY <1>1, <1>9, <2>3 DEF Joins
    <3>2. input[q].token \in Requests
      BY <1>1, <2>3, <3>1, Fields
    <3>3. QED
      BY <1>1, <2>3, <3>1, <3>2 DEF IInv, IdsAreFresh, Others
  <2>4. QED
    BY <2>1, <2>2, <2>3 DEF IdsAreFresh
<1>17. \A q \in Requests : Reads(q)'
  <2>1. \A q \in Requests \ {r} : Reads(q)'
    BY <1>1, OthersRead DEF IInv
  <2>2. Reads(r)'
    BY <1>1, <1>9 DEF Reads, At, Joins
  <2>3. QED
    BY <2>1, <2>2
<1>18. QED
  BY <1>10, <1>11, <1>12, <1>13, <1>14, <1>15, <1>16, <1>17 DEF IInv

LEMMA RegisterInductive ==
  ASSUME IInv, NEW r \in Requests, RegisterCommit(r)
  PROVE  IInv'
<1>1. At(r, Joins, "commit") /\ input[r].kind = "register" /\ pc[r] \notin {"new", "ok", "failed"}
  BY DEF RegisterCommit, At, Joins
<1>2. Others(r)
  BY StepOthers DEF IInv, Steps
<1>3. CASE Inserted(r) /\ Goto(r, "ok")
  <2>1. portal' = With(payload[r], r, "pending") /\ "pending" \in Statuses /\ tries' = tries
        /\ accounts' = [accounts EXCEPT ![r] = Credential(r, input[r].email)]
    BY <1>3 DEF RegisterCommit, Statuses
  <2>2. UNCHANGED <<sessions, links, input, payload, row>>
    BY DEF RegisterCommit
  <2>3. QED
    BY <1>1, <1>2, <1>3, <2>1, <2>2, JoinInductive DEF Inserted
<1>4. CASE ~(Inserted(r) /\ Goto(r, "ok"))
  <2>1. Retry(r) /\ UNCHANGED <<portal, tables, input, payload, row>>
    BY <1>4 DEF RegisterCommit, tables
  <2>2. QED
    BY <1>1, <1>2, <2>1, FailedInductive
<1>5. QED
  BY <1>3, <1>4

LEMMA AddInductive ==
  ASSUME IInv, NEW r \in Requests, AddCommit(r)
  PROVE  IInv'
<1>1. At(r, Joins, "commit") /\ pc[r] \notin {"new", "ok", "failed"}
  BY DEF AddCommit, At, Joins
<1>2. Others(r)
  BY StepOthers DEF IInv, Steps
<1>3. CASE Unchanged(r) /\ Goto(r, "ok")
  <2>1. portal' = With(payload[r], r, "active") /\ "active" \in Statuses /\ tries' = tries
    BY <1>3 DEF AddCommit, Statuses
  <2>2. accounts' = accounts /\ UNCHANGED <<sessions, links, input, payload, row>>
    BY DEF AddCommit, tables
  <2>3. QED
    BY <1>1, <1>2, <1>3, <2>1, <2>2, JoinInductive
<1>4. CASE ~(Unchanged(r) /\ Goto(r, "ok"))
  <2>1. Retry(r) /\ UNCHANGED <<portal, tables, input, payload, row>>
    BY <1>4 DEF AddCommit, tables
  <2>2. QED
    BY <1>1, <1>2, <2>1, FailedInductive
<1>5. QED
  BY <1>3, <1>4

-----------------------------------------------------------------------------
(* Signing in and out *)

\* A step that answers a request and changes sessions only.
LEMMA SessionsOnly ==
  ASSUME IInv, NEW r \in Requests, Others(r), At(r, {"login", "logout"}, pc[r]),
         pc[r] \notin {"new", "ok", "failed"}, Goto(r, "ok") \/ Goto(r, "failed"),
         UNCHANGED <<portal, accounts, links, input, payload, row, tries>>,
         sessions' \in [Requests -> Session \cup {None}], SessionsFollowAccounts'
  PROVE  IInv'
<1>1. /\ pc' \in [Requests -> {"new", "read", "check", "commit", "ok", "failed"}]
      /\ pc'[r] \in {"ok", "failed"}
      /\ \A q \in Requests : pc'[q] # "new" => pc[q] # "new"
  BY DEF IInv, TypeOK, Goto
<1>2. TypeOK'
  BY <1>1 DEF IInv, TypeOK
<1>3. AccountsFollowRoster'
  BY DEF IInv, AccountsFollowRoster, Unambiguous
<1>4. VersionsAreSecrets'
  BY VersionsStay DEF IInv, VersionsAreSecrets
<1>5. LinksAreUsable'
  BY LinksStay DEF IInv
<1>6. LinksAreUsedOnce'
  BY OnceStays DEF IInv, At
<1>7. IdsAreFresh'
  <2>1. (\A q \in Requests : portal.members[q] # None => pc[q] = "ok" /\ input[q].kind \in Joins)'
    BY DEF IInv, IdsAreFresh, Others
  <2>2. (\A t \in Requests : links[t] # None => pc[t] = "ok" /\ input[t].kind = "link")'
    BY DEF IInv, IdsAreFresh, Others
  <2>3. ASSUME NEW q \in Requests, pc'[q] # "new", input[q].kind = "setup"
        PROVE  /\ pc'[input[q].token] = "ok"
               /\ pc'[q] = "ok" /\ links[input[q].token] # None =>
                    links[input[q].token].consumed # None
    <3>1. pc[q] # "new" /\ q # r
      BY <1>1, <2>3 DEF At
    <3>2. input[q].token \in Requests
      BY <2>3, <3>1, Fields DEF IInv
    <3>3. QED
      BY <2>3, <3>1, <3>2 DEF IInv, IdsAreFresh, Others
  <2>4. QED
    BY <2>1, <2>2, <2>3 DEF IdsAreFresh
<1>8. \A q \in Requests : Reads(q)'
  <2>1. \A q \in Requests \ {r} : Reads(q)'
    BY OthersRead DEF IInv
  <2>2. Reads(r)'
    BY <1>1 DEF Reads, At, Joins
  <2>3. QED
    BY <2>1, <2>2
<1>9. QED
  BY <1>2, <1>3, <1>4, <1>5, <1>6, <1>7, <1>8 DEF IInv

LEMMA LoginInductive ==
  ASSUME IInv, NEW r \in Requests, LoginCommit(r)
  PROVE  IInv'
<1>1. /\ TypeOK /\ At(r, {"login", "logout"}, pc[r]) /\ pc[r] = "commit" /\ input[r].kind = "login"
      /\ Goto(r, "ok") \/ Goto(r, "failed")
      /\ UNCHANGED <<portal, accounts, links, input, payload, row, tries>>
  BY DEF IInv, LoginCommit, At
<1>2. Others(r)
  BY <1>1, StepOthers DEF Steps
<1>3. /\ row[r] # None /\ row[r].email = input[r].email /\ row[r].version # None
      /\ Made(row[r].version) /\ Secret(row[r].version) = input[r].password
  BY <1>1 DEF IInv, Reads, At
<1>4. row[r] \in Row
  BY <1>1, <1>3 DEF TypeOK
<1>5. Opened(r) \in Session
  BY <1>3, <1>4 DEF Row, Opened, Session
<1>6. Purged(r) \in [Requests -> Session \cup {None}]
  BY <1>1 DEF TypeOK, Purged
<1>7. sessions' \in [Requests -> Session \cup {None}]
  BY <1>5, <1>6 DEF LoginCommit
<1>8. SessionsFollowAccounts'
  <2>1. SUFFICES ASSUME NEW t \in Requests, sessions'[t] # None
                 PROVE  Follows(t)'
    BY DEF SessionsFollowAccounts, Follows
  <2>2. CASE sessions'[t] = sessions[t]
    <3>1. Stays(t)
      BY <1>1, <2>1, <2>2 DEF Stays
    <3>2. QED
      BY <1>1, <1>2, <3>1, SessionsStay DEF IInv
  <2>3. CASE sessions'[t] # sessions[t]
    <3>1. t = r /\ Confirmed(r) /\ sessions'[r] = Opened(r) /\ Goto(r, "ok")
      BY <1>1, <1>6, <2>1, <2>3 DEF LoginCommit, Purged
    <3>2. PICK v \in Members : v = row[r].version
      BY <1>3, <1>4 DEF Row
    <3>3. Secret(v)' = input[r].password
      BY <1>1, <1>2, <1>3, <3>2, Stable
    <3>4. /\ sessions'[t].member = row[r].member /\ sessions'[t].email = row[r].email
          /\ sessions'[t].version = v
      BY <3>1, <3>2 DEF Opened
    <3>5. /\ pc'[t] = "ok" /\ input'[t].kind = "login" /\ input'[t] = input[r]
      BY <1>1, <3>1 DEF TypeOK, Goto
    <3>6. Active(portal, row[r].member, row[r].email)'
      BY <1>1, <3>1 DEF Confirmed, Active, Usable
    <3>7. (Active(portal, sessions[t].member, sessions[t].email))'
      BY <1>1, <3>4, <3>6 DEF Active, Usable
    <3>8. /\ accounts'[sessions'[t].member] # None
          /\ accounts'[sessions'[t].member].version = sessions'[t].version
      BY <1>1, <3>1, <3>2, <3>4 DEF Confirmed, Owns
    <3>9. (Secret(sessions[t].version) = input[t].password)'
      BY <3>3, <3>4, <3>5 DEF Secret
    <3>10. QED
      BY <1>3, <3>4, <3>5, <3>7, <3>8, <3>9 DEF Follows
  <2>4. QED
    BY <2>2, <2>3
<1>9. QED
  BY <1>1, <1>2, <1>7, <1>8, SessionsOnly

LEMMA LogoutInductive ==
  ASSUME IInv, NEW r \in Requests, Logout(r)
  PROVE  IInv'
<1>1. /\ TypeOK /\ At(r, {"login", "logout"}, pc[r]) /\ pc[r] = "read" /\ input[r].kind = "logout"
      /\ Goto(r, "ok")
      /\ UNCHANGED <<portal, accounts, links, input, payload, row, tries>>
      /\ sessions' = [sessions EXCEPT ![input[r].token] = None]
  BY DEF IInv, Logout, At
<1>2. Others(r)
  BY <1>1, StepOthers DEF Steps
<1>3. sessions' \in [Requests -> Session \cup {None}]
  BY <1>1 DEF TypeOK
<1>4. SessionsFollowAccounts'
  <2>1. \A t \in Requests : sessions'[t] # None => Stays(t)
    BY <1>1 DEF TypeOK, Stays
  <2>2. QED
    BY <1>1, <1>2, <2>1, SessionsStay DEF IInv, SessionsFollowAccounts, Follows
<1>5. QED
  BY <1>1, <1>2, <1>3, <1>4, SessionsOnly

-----------------------------------------------------------------------------
(* Setup links *)

LEMMA LinkInductive ==
  ASSUME IInv, NEW r \in Requests, LinkCommit(r)
  PROVE  IInv'
<1> DEFINE m == row[r].member
           issued == [member |-> m, email |-> row[r].email, expired |-> FALSE, consumed |-> None]
<1>1. /\ TypeOK /\ pc[r] = "commit" /\ input[r].kind = "link"
      /\ UNCHANGED <<portal, accounts, sessions, input, payload, row, tries>>
  BY DEF IInv, LinkCommit, At
<1>2. Others(r)
  BY <1>1, StepOthers DEF Steps
<1>3. CASE Goto(r, "failed") /\ links' = links
  BY <1>1, <1>2, <1>3, FailedInductive DEF tables
<1>4. CASE ~(Goto(r, "failed") /\ links' = links)
  <2>1. /\ Usable(portal, m, row[r].email)
        /\ links' = [t \in Requests |->
             IF t = r THEN issued
             ELSE IF links[t] # None /\ (links[t].member = m \/ links[t].expired) THEN None
             ELSE links[t]]
        /\ Goto(r, "ok")
    BY <1>4 DEF LinkCommit
  <2>2. row[r] # None
    BY <1>1 DEF IInv, Reads, At
  <2>3. row[r] \in Row
    BY <1>1, <2>2 DEF TypeOK
  <2>4. issued \in Link
    BY <2>3 DEF Row, Link
  <2>5. /\ pc' \in [Requests -> {"new", "read", "check", "commit", "ok", "failed"}]
        /\ pc'[r] = "ok"
        /\ \A q \in Requests : pc'[q] # "new" => pc[q] # "new"
    BY <1>1, <2>1 DEF TypeOK, Goto
  <2>6. /\ links'[r] = issued /\ issued # None
        /\ \A t \in Requests : t # r /\ links'[t] # None =>
             links'[t] = links[t] /\ links[t] # None /\ links[t].member # m
    BY <2>1, <2>4, AccessAssumption
  <2>7. links' \in [Requests -> Link \cup {None}]
    BY <1>1, <2>1, <2>4 DEF TypeOK
  <2>8. TypeOK'
    BY <1>1, <2>5, <2>7 DEF TypeOK
  <2>9. AccountsFollowRoster'
    BY <1>1 DEF IInv, AccountsFollowRoster, Unambiguous
  <2>10. VersionsAreSecrets'
    BY <1>1, <1>2, VersionsStay DEF IInv, VersionsAreSecrets
  <2>11. SessionsFollowAccounts'
    <3>1. \A t \in Requests : sessions'[t] # None => Stays(t)
      BY <1>1 DEF Stays
    <3>2. QED
      BY <1>1, <1>2, <3>1, SessionsStay DEF IInv, SessionsFollowAccounts, Follows
  <2>12. LinksAreUsable'
    <3>1. SUFFICES ASSUME NEW t \in Requests, links'[t] # None, links'[t].consumed = None
                   PROVE  /\ Usable(portal', links'[t].member, links'[t].email)
                          /\ \A o \in Requests \ {t} : links'[o] # None =>
                               links'[o].member # links'[t].member
      BY DEF LinksAreUsable
    <3>2. CASE t = r
      BY <1>1, <2>1, <2>6, <3>2 DEF Usable
    <3>3. CASE t # r
      <4>1. links'[t] = links[t] /\ links[t].member # m
        BY <2>6, <3>1, <3>3
      <4>2. /\ Usable(portal, links[t].member, links[t].email)
            /\ \A o \in Requests \ {t} : links[o] # None => links[o].member # links[t].member
        BY <3>1, <4>1 DEF IInv, LinksAreUsable
      <4>3. QED
        BY <1>1, <2>6, <4>1, <4>2
    <3>4. QED
      BY <3>2, <3>3
  <2>13. LinksAreUsedOnce'
    BY <1>1, <1>2, OnceStays DEF IInv
  <2>14. pc[r] # "ok" /\ \A q \in Requests : pc[q] # "new" /\ input[q].kind = "setup" => input[q].token # r
    BY <1>1, FreshId
  <2>15. IdsAreFresh'
    <3>1. (\A q \in Requests : portal.members[q] # None => pc[q] = "ok" /\ input[q].kind \in Joins)'
      BY <1>1, <1>2 DEF IInv, IdsAreFresh, Others
    <3>2. (\A t \in Requests : links[t] # None => pc[t] = "ok" /\ input[t].kind = "link")'
      BY <1>1, <1>2, <2>5, <2>6 DEF IInv, IdsAreFresh, Others
    <3>3. ASSUME NEW q \in Requests, pc'[q] # "new", input[q].kind = "setup"
          PROVE  /\ pc'[input[q].token] = "ok"
                 /\ pc'[q] = "ok" /\ links'[input[q].token] # None =>
                      links'[input[q].token].consumed # None
      <4>1. pc[q] # "new" /\ q # r
        BY <1>1, <2>5, <3>3
      <4>2. input[q].token \in Requests /\ input[q].token # r
        BY <1>1, <2>14, <3>3, <4>1, Fields
      <4>3. /\ pc[input[q].token] = "ok" /\ pc'[q] = pc[q]
            /\ pc[q] = "ok" /\ links[input[q].token] # None => links[input[q].token].consumed # None
        BY <1>2, <3>3, <4>1 DEF IInv, IdsAreFresh, Others
      <4>4. QED
        BY <1>2, <2>6, <4>2, <4>3 DEF Others
    <3>4. QED
      BY <1>1, <3>1, <3>2, <3>3 DEF IdsAreFresh
  <2>16. \A q \in Requests : Reads(q)'
    <3>1. \A t \in Requests : links'[t] # None =>
            \/ links[t] # None /\ links'[t].member = links[t].member
            \/ \A p \in Requests : pc[p] # "new" /\ input[p].kind = "setup" => input[p].token # t
      BY <2>6, <2>14
    <3>2. \A q \in Requests \ {r} : Reads(q)'
      BY <1>1, <1>2, <3>1, OthersRead DEF IInv
    <3>3. Reads(r)'
      BY <1>1, <2>5 DEF Reads, At, Joins
    <3>4. QED
      BY <3>2, <3>3
  <2>17. QED
    BY <2>8, <2>9, <2>10, <2>11, <2>12, <2>13, <2>15, <2>16 DEF IInv
<1>5. QED
  BY <1>3, <1>4

\* What a redeemed link changes, and what it was redeemed for.
LEMMA SetupDone ==
  ASSUME IInv, NEW r \in Requests, SetupCommit(r), ~(Goto(r, "failed") /\ UNCHANGED tables)
  PROVE  \E t \in Requests, m \in Members :
           /\ t = input[r].token /\ t # r /\ links[t] \in Link /\ m = links[t].member
           /\ m = row[r].member
           /\ Redeemable(t)
           /\ \A o \in Members \ {m} : ~Owns(o, links[t].email)
           /\ Credential(r, links[t].email) \in Account
           /\ accounts' = [accounts EXCEPT ![m] = Credential(r, links[t].email)]
           /\ links' = [links EXCEPT ![t].consumed = r]
           /\ sessions' = SessionsEnded(m)
           /\ Goto(r, "ok")
<1> DEFINE t == input[r].token
           m == links[t].member
<1>1. TypeOK /\ pc[r] = "commit" /\ input[r].kind = "setup"
  BY DEF IInv, SetupCommit, At
<1>2. t \in Requests /\ input[r].password \in Passwords
  BY <1>1, Fields
<1>3. /\ Redeemable(t) /\ \A o \in Members \ {m} : ~Owns(o, links[t].email)
      /\ accounts' = [accounts EXCEPT ![m] = Credential(r, links[t].email)]
      /\ links' = [links EXCEPT ![t].consumed = r]
      /\ sessions' = SessionsEnded(row[r].member)
      /\ Goto(r, "ok")
  BY DEF SetupCommit
<1>4. links[t] \in Link
  BY <1>1, <1>2, <1>3 DEF TypeOK, Redeemable
<1>5. m \in Members /\ links[t].email \in Emails
  BY <1>4 DEF Link
<1>6. m = row[r].member
  BY <1>1, <1>3 DEF IInv, Reads, At, Redeemable
<1>7. t # r
  BY <1>1 DEF IInv, IdsAreFresh
<1>8. Credential(r, links[t].email) \in Account
  BY <1>2, <1>5 DEF Credential, Account, Members
<1>9. sessions' = SessionsEnded(m)
  BY <1>3, <1>6
<1>10. QED
  BY <1>2, <1>3, <1>4, <1>5, <1>6, <1>7, <1>8, <1>9

LEMMA SetupInductive ==
  ASSUME IInv, NEW r \in Requests, SetupCommit(r)
  PROVE  IInv'
<1>1. /\ TypeOK /\ pc[r] = "commit" /\ input[r].kind = "setup"
      /\ UNCHANGED <<portal, input, payload, row, tries>>
  BY DEF IInv, SetupCommit, At
<1>2. Others(r)
  BY <1>1, StepOthers DEF Steps
<1>3. CASE Goto(r, "failed") /\ UNCHANGED tables
  BY <1>1, <1>2, <1>3, FailedInductive DEF tables
<1>4. CASE ~(Goto(r, "failed") /\ UNCHANGED tables)
  <2>1. PICK t \in Requests, m \in Members :
          /\ t = input[r].token /\ t # r /\ links[t] \in Link /\ m = links[t].member
          /\ Redeemable(t)
          /\ \A o \in Members \ {m} : ~Owns(o, links[t].email)
          /\ Credential(r, links[t].email) \in Account
          /\ accounts' = [accounts EXCEPT ![m] = Credential(r, links[t].email)]
          /\ links' = [links EXCEPT ![t].consumed = r]
          /\ sessions' = SessionsEnded(m)
          /\ Goto(r, "ok")
    BY <1>4, SetupDone
  <2>2. /\ pc' \in [Requests -> {"new", "read", "check", "commit", "ok", "failed"}]
        /\ pc'[r] = "ok"
        /\ \A q \in Requests : pc'[q] # "new" => pc[q] # "new"
    BY <1>1, <2>1 DEF TypeOK, Goto
  <2>3. /\ accounts' \in [Members -> Account \cup {None}]
        /\ accounts'[m] = Credential(r, links[t].email)
        /\ \A o \in Members : o # m => accounts'[o] = accounts[o]
    BY <1>1, <2>1 DEF TypeOK
  <2>4. [links[t] EXCEPT !.consumed = r] \in Link
    BY <2>1 DEF Link
  <2>5. /\ links' \in [Requests -> Link \cup {None}]
        /\ \A x \in Requests : x # t => links'[x] = links[x]
        /\ links'[t] # None /\ links'[t].consumed = r /\ links'[t].member = m
        /\ links'[t].email = links[t].email
    BY <1>1, <2>1, <2>4, AccessAssumption DEF TypeOK, Link
  <2>6. /\ sessions' \in [Requests -> Session \cup {None}]
        /\ \A x \in Requests : sessions'[x] # None => sessions'[x] = sessions[x] /\ sessions[x].member # m
    BY <1>1, <2>1 DEF TypeOK, SessionsEnded
  <2>7. TypeOK'
    BY <1>1, <2>2, <2>3, <2>5, <2>6 DEF TypeOK
  <2>8. AccountsFollowRoster'
    <3>1. portal.members[m] # None /\ portal.members[m].email = links[t].email
      BY <2>1 DEF Redeemable, Usable
    <3>2. Unambiguous(portal.members)'
      BY <1>1 DEF IInv, AccountsFollowRoster, Unambiguous
    <3>3. \A o \in Members : accounts'[o] # None =>
            portal.members[o] # None /\ portal.members[o].email = accounts'[o].email
      BY <2>3, <3>1 DEF IInv, AccountsFollowRoster, Credential
    <3>4. QED
      BY <1>1, <3>2, <3>3 DEF AccountsFollowRoster
  <2>9. VersionsAreSecrets'
    <3>1. SUFFICES ASSUME NEW o \in Members, accounts'[o] # None
                   PROVE  (Made(accounts[o].version)
                           /\ accounts[o].password = Secret(accounts[o].version))'
      BY DEF VersionsAreSecrets
    <3>2. CASE o = m
      BY <1>1, <2>2, <2>3, <3>2, AccessAssumption DEF Credential, Made, Secret
    <3>3. CASE o # m
      BY <1>1, <1>2, <2>3, <3>1, <3>3, VersionsStay DEF IInv
    <3>4. QED
      BY <3>2, <3>3
  <2>10. SessionsFollowAccounts'
    <3>1. ASSUME NEW x \in Requests, sessions'[x] # None
          PROVE  Stays(x)
      <4>1. sessions[x].member \in Members
        BY <1>1, <2>6, <3>1, AccessAssumption DEF TypeOK, Session
      <4>2. QED
        BY <1>1, <2>3, <2>6, <3>1, <4>1 DEF Stays
    <3>2. QED
      BY <1>1, <1>2, <3>1, SessionsStay DEF IInv, SessionsFollowAccounts, Follows
  <2>11. LinksAreUsable'
    <3>1. r # None
      BY AccessAssumption
    <3>2. links[t] # None
      BY <2>1 DEF Redeemable
    <3>3. QED
      BY <1>1, <2>1, <2>5, <3>1, <3>2, LinksStay DEF IInv
  <2>12. LinksAreUsedOnce'
    <3>1. ASSUME NEW q \in Requests, q # r, pc'[q] = "ok", input[q].kind = "setup",
                 input[q].token = t
          PROVE  FALSE
      <4>1. pc[q] = "ok"
        BY <1>2, <3>1 DEF Others
      <4>2. links[t].consumed # None
        BY <2>1, <3>1, <4>1 DEF IInv, IdsAreFresh, Redeemable
      <4>3. QED
        BY <2>1, <4>2 DEF Redeemable
    <3>2. QED
      BY <1>1, <1>2, <2>1, <3>1 DEF IInv, LinksAreUsedOnce, Others
  <2>13. IdsAreFresh'
    <3>1. (\A q \in Requests : portal.members[q] # None => pc[q] = "ok" /\ input[q].kind \in Joins)'
      BY <1>1, <1>2 DEF IInv, IdsAreFresh, Others
    <3>2. (\A x \in Requests : links[x] # None => pc[x] = "ok" /\ input[x].kind = "link")'
      BY <1>1, <1>2, <2>1, <2>5 DEF IInv, IdsAreFresh, Others, Redeemable
    <3>3. ASSUME NEW q \in Requests, pc'[q] # "new", input[q].kind = "setup"
          PROVE  /\ pc'[input[q].token] = "ok"
                 /\ pc'[q] = "ok" /\ links'[input[q].token] # None =>
                      links'[input[q].token].consumed # None
      <4>1. pc[q] # "new"
        BY <2>2, <3>3
      <4>2. input[q].token \in Requests
        BY <1>1, <3>3, <4>1, Fields
      <4>3. /\ pc[input[q].token] = "ok"
            /\ pc[q] = "ok" /\ links[input[q].token] # None => links[input[q].token].consumed # None
        BY <3>3, <4>1 DEF IInv, IdsAreFresh
      <4>4. pc'[input[q].token] = "ok"
        BY <1>2, <4>2, <4>3 DEF Others
      <4>5. CASE input[q].token = t
        BY <2>5, <4>4, <4>5, AccessAssumption
      <4>6. CASE input[q].token # t
        BY <1>2, <2>1, <2>5, <4>2, <4>3, <4>4, <4>6 DEF Others
      <4>7. QED
        BY <4>5, <4>6
    <3>4. QED
      BY <1>1, <3>1, <3>2, <3>3 DEF IdsAreFresh
  <2>14. \A q \in Requests : Reads(q)'
    <3>1. \A x \in Requests : links'[x] # None => links[x] # None /\ links'[x].member = links[x].member
      BY <2>1, <2>5 DEF Redeemable
    <3>2. \A q \in Requests \ {r} : Reads(q)'
      BY <1>1, <1>2, <3>1, OthersRead DEF IInv
    <3>3. Reads(r)'
      BY <1>1, <2>2 DEF Reads, At, Joins
    <3>4. QED
      BY <3>2, <3>3
  <2>15. QED
    BY <2>7, <2>8, <2>9, <2>10, <2>11, <2>12, <2>13, <2>14 DEF IInv
<1>5. QED
  BY <1>3, <1>4

-----------------------------------------------------------------------------
(* Saving *)

\* A save that writes: a roster of the same members, and what it takes away.
LEMMA SaveDone ==
  ASSUME IInv, NEW r \in Requests, SaveCommit(r), Unchanged(r)
  PROVE  /\ portal' \in Portal
         /\ Unambiguous(portal'.members)
         /\ \A m \in Members : portal'.members[m] # None => portal.members[m] # None
         /\ \/ UNCHANGED tables /\ portal'.members = portal.members
            \/ input[r].token = None /\ Revoke(portal, portal')
<1>1. /\ TypeOK /\ pc[r] = "commit" /\ input[r].kind = "save" /\ payload[r] = portal
  BY DEF IInv, SaveCommit, At, Unchanged
<1>2. /\ portal' = Result(r)
      /\ IF input[r].token = None THEN Revoke(portal, Result(r)) ELSE UNCHANGED tables
  BY <1>1 DEF SaveCommit
<1>3. /\ input[r].members \in Roster /\ input[r].rest \in Rests
      /\ portal \in Portal
  BY <1>1, Fields DEF TypeOK
<1>4. portal.members \in Roster /\ portal.revision \in Nat
  BY <1>3 DEF Portal
<1>5. /\ Unambiguous(input[r].members)
      /\ \A m \in Members : input[r].members[m] # None => input[r].page.members[m] # None
      /\ input[r].page = portal \/ Result(r) = portal
  BY <1>1 DEF IInv, Reads, At
<1>6. portal' \in Portal
  BY <1>1, <1>2, <1>3, <1>4 DEF Result, Portal
<1>7. portal'.members = IF input[r].token = None THEN input[r].members ELSE portal.members
  BY <1>1, <1>2 DEF Result
<1>8. Unambiguous(portal'.members)
  BY <1>5, <1>7 DEF IInv, AccountsFollowRoster
<1>9. \A m \in Members : portal'.members[m] # None => portal.members[m] # None
  BY <1>2, <1>5, <1>7
<1>10. \/ UNCHANGED tables /\ portal'.members = portal.members
       \/ input[r].token = None /\ Revoke(portal, portal')
  <2>1. CASE input[r].token = None
    BY <1>2, <2>1
  <2>2. CASE input[r].token # None
    BY <1>2, <1>7, <2>2
  <2>3. QED
    BY <2>1, <2>2
<1>11. QED
  BY <1>6, <1>8, <1>9, <1>10

\* What is left after a save, and of whom.
LEMMA Left ==
  ASSUME IInv, NEW r \in Requests, SaveCommit(r), Unchanged(r)
  PROVE  /\ accounts' \in [Members -> Account \cup {None}]
         /\ sessions' \in [Requests -> Session \cup {None}]
         /\ links' \in [Requests -> Link \cup {None}]
         /\ \A m \in Members : accounts'[m] # None =>
              accounts'[m] = accounts[m] /\ ~Moved(portal, portal', m)
         /\ \A t \in Requests : sessions'[t] # None =>
              /\ sessions'[t] = sessions[t]
              /\ ~SessionsRevoked(portal, portal', sessions[t].member)
              /\ accounts'[sessions[t].member] = accounts[sessions[t].member]
         /\ \A t \in Requests : links'[t] # None => links'[t] = links[t]
              /\ (links[t].consumed = None => ~LinksRevoked(portal, portal', links[t].member))
<1>1. TypeOK
  BY DEF IInv
<1>2. CASE UNCHANGED tables /\ portal'.members = portal.members
  <2>1. accounts' = accounts /\ sessions' = sessions /\ links' = links
    BY <1>2 DEF tables
  <2>2. \A m \in Members : ~Moved(portal, portal', m)
    BY <1>2 DEF Moved
  <2>3. ASSUME NEW t \in Requests, sessions[t] # None
        PROVE  ~SessionsRevoked(portal, portal', sessions[t].member)
    BY <1>2 DEF SessionsRevoked, Moved
  <2>4. ASSUME NEW t \in Requests, links[t] # None, links[t].consumed = None
        PROVE  ~LinksRevoked(portal, portal', links[t].member)
    BY <1>2, <2>4 DEF LinksRevoked, Moved, IInv, LinksAreUsable, Usable
  <2>5. QED
    BY <1>1, <2>1, <2>2, <2>3, <2>4 DEF TypeOK
<1>3. CASE Revoke(portal, portal')
  <2>1. \A m \in Members : accounts'[m] =
          IF AccountsRevoked(portal, portal', m) THEN None ELSE accounts[m]
    BY <1>3 DEF Revoke
  <2>2. \A t \in Requests : sessions'[t] =
          IF sessions[t] # None /\ SessionsRevoked(portal, portal', sessions[t].member) THEN None
          ELSE sessions[t]
    BY <1>3 DEF Revoke
  <2>3. \A t \in Requests : links'[t] =
          IF links[t] # None /\ LinksRevoked(portal, portal', links[t].member) THEN None
          ELSE links[t]
    BY <1>3 DEF Revoke
  <2>4. /\ accounts' \in [Members -> Account \cup {None}]
        /\ sessions' \in [Requests -> Session \cup {None}]
        /\ links' \in [Requests -> Link \cup {None}]
    BY <1>1, <1>3 DEF Revoke, TypeOK
  <2>5. ASSUME NEW t \in Requests, sessions'[t] # None
        PROVE  accounts'[sessions[t].member] = accounts[sessions[t].member]
    <3>1. sessions[t].member \in Members
      BY <1>1, <2>2, <2>5 DEF TypeOK, Session
    <3>2. ~AccountsRevoked(portal, portal', sessions[t].member)
      BY <2>2, <2>5 DEF SessionsRevoked, AccountsRevoked
    <3>3. QED
      BY <2>1, <3>1, <3>2
  <2>6. QED
    BY <2>1, <2>2, <2>3, <2>4, <2>5 DEF AccountsRevoked
<1>4. QED
  BY <1>2, <1>3, SaveDone

LEMMA WrittenInductive ==
  ASSUME IInv, NEW r \in Requests, SaveCommit(r), Unchanged(r)
  PROVE  IInv'
<1>1. /\ TypeOK /\ pc[r] = "commit" /\ input[r].kind = "save" /\ payload[r] = portal
      /\ Goto(r, "ok") /\ UNCHANGED <<input, payload, row, tries>>
  BY DEF IInv, SaveCommit, At, Unchanged
<1>2. Others(r)
  BY <1>1, StepOthers DEF Steps
<1>3. /\ portal' \in Portal
      /\ Unambiguous(portal'.members)
      /\ \A m \in Members : portal'.members[m] # None => portal.members[m] # None
  BY SaveDone
<1>4. /\ pc' \in [Requests -> {"new", "read", "check", "commit", "ok", "failed"}]
      /\ pc'[r] = "ok"
      /\ \A q \in Requests : pc'[q] # "new" => pc[q] # "new"
  BY <1>1 DEF TypeOK, Goto
<1>5. /\ accounts' \in [Members -> Account \cup {None}]
      /\ sessions' \in [Requests -> Session \cup {None}]
      /\ links' \in [Requests -> Link \cup {None}]
  BY Left
<1>6. TypeOK'
  BY <1>1, <1>3, <1>4, <1>5 DEF TypeOK
<1>7. AccountsFollowRoster'
  <2>1. Unambiguous(portal.members)'
    BY <1>3 DEF Unambiguous
  <2>2. ASSUME NEW m \in Members, accounts'[m] # None
        PROVE  portal'.members[m] # None /\ portal'.members[m].email = accounts'[m].email
    <3>1. accounts'[m] = accounts[m] /\ ~Moved(portal, portal', m)
      BY <2>2, Left
    <3>2. portal.members[m] # None /\ portal.members[m].email = accounts[m].email
      BY <2>2, <3>1 DEF IInv, AccountsFollowRoster
    <3>3. QED
      BY <3>1, <3>2 DEF Moved
  <2>3. QED
    BY <2>1, <2>2 DEF AccountsFollowRoster
<1>8. VersionsAreSecrets'
  <2>1. SUFFICES ASSUME NEW m \in Members, accounts'[m] # None
                 PROVE  (Made(accounts[m].version) /\ accounts[m].password = Secret(accounts[m].version))'
    BY DEF VersionsAreSecrets
  <2>2. accounts'[m] = accounts[m]
    BY <2>1, Left
  <2>3. QED
    BY <1>1, <1>2, <2>1, <2>2, VersionsStay DEF IInv
<1>9. SessionsFollowAccounts'
  <2>1. ASSUME NEW t \in Requests, sessions'[t] # None
        PROVE  Stays(t)
    <3>1. /\ sessions'[t] = sessions[t]
          /\ ~SessionsRevoked(portal, portal', sessions[t].member)
          /\ accounts'[sessions[t].member] = accounts[sessions[t].member]
      BY <2>1, Left
    <3>2. PICK m \in Members : m = sessions[t].member
      BY <1>1, <2>1, <3>1, AccessAssumption DEF TypeOK, Session
    <3>3. portal.members[m] # None
      BY <2>1, <3>1, <3>2 DEF IInv, SessionsFollowAccounts, Active, Usable
    <3>4. /\ portal'.members[m] # None
          /\ portal'.members[m].email = portal.members[m].email
          /\ portal'.members[m].status = portal.members[m].status
      BY <3>1, <3>2, <3>3 DEF SessionsRevoked, Moved
    <3>5. portal.members[m] \in Entry /\ portal'.members[m] \in Entry
      BY <1>1, <1>6, <3>3, <3>4 DEF TypeOK, Portal, Roster
    <3>6. portal'.members[m] = portal.members[m]
      BY <3>4, <3>5 DEF Entry
    <3>7. QED
      BY <2>1, <3>1, <3>2, <3>6 DEF Stays
  <2>2. QED
    BY <1>1, <1>2, <2>1, SessionsStay DEF IInv, SessionsFollowAccounts, Follows
<1>10. LinksAreUsable'
  <2>1. ASSUME NEW t \in Requests, links'[t] # None, links'[t].consumed = None,
               Usable(portal, links[t].member, links[t].email)
        PROVE  Usable(portal', links[t].member, links[t].email)
    <3>1. links'[t] = links[t] /\ ~LinksRevoked(portal, portal', links[t].member)
      BY <2>1, Left
    <3>2. QED
      BY <2>1, <3>1 DEF LinksRevoked, Moved, Usable
  <2>2. \A t \in Requests : links'[t] # None => links'[t] = links[t]
    BY Left
  <2>3. QED
    BY <1>1, <2>1, <2>2, LinksStay DEF IInv
<1>11. LinksAreUsedOnce'
  BY <1>1, <1>2, OnceStays DEF IInv
<1>12. IdsAreFresh'
  <2>1. (\A q \in Requests : portal.members[q] # None => pc[q] = "ok" /\ input[q].kind \in Joins)'
    BY <1>2, <1>3 DEF IInv, IdsAreFresh, Others, Members
  <2>2. \A t \in Requests : links'[t] # None => links'[t] = links[t]
    BY Left
  <2>3. (\A t \in Requests : links[t] # None => pc[t] = "ok" /\ input[t].kind = "link")'
    BY <1>2, <2>2 DEF IInv, IdsAreFresh, Others
  <2>4. ASSUME NEW q \in Requests, pc'[q] # "new", input[q].kind = "setup"
        PROVE  /\ pc'[input[q].token] = "ok"
               /\ pc'[q] = "ok" /\ links'[input[q].token] # None =>
                    links'[input[q].token].consumed # None
    <3>1. pc[q] # "new" /\ q # r
      BY <1>1, <1>4, <2>4
    <3>2. input[q].token \in Requests
      BY <1>1, <2>4, <3>1, Fields
    <3>3. /\ pc[input[q].token] = "ok" /\ pc'[q] = pc[q]
          /\ pc[q] = "ok" /\ links[input[q].token] # None => links[input[q].token].consumed # None
      BY <1>2, <2>4, <3>1 DEF IInv, IdsAreFresh, Others
    <3>4. pc'[input[q].token] = "ok"
      BY <1>2, <3>2, <3>3 DEF Others
    <3>5. QED
      BY <2>2, <3>2, <3>3, <3>4
  <2>5. QED
    BY <1>1, <2>1, <2>3, <2>4 DEF IdsAreFresh
<1>13. \A q \in Requests : Reads(q)'
  <2>1. \A t \in Requests : links'[t] # None => links[t] # None /\ links'[t].member = links[t].member
    BY Left
  <2>2. \A q \in Requests \ {r} : Reads(q)'
    BY <1>1, <1>2, <2>1, OthersRead DEF IInv
  <2>3. (Unambiguous(input[r].members))' <=> Unambiguous(input[r].members)
    BY <1>1 DEF Unambiguous
  <2>4. Reads(r)'
    BY <1>1, <1>4, <2>3 DEF IInv, Reads, At, Joins
  <2>5. QED
    BY <2>2, <2>4
<1>14. QED
  BY <1>6, <1>7, <1>8, <1>9, <1>10, <1>11, <1>12, <1>13 DEF IInv

LEMMA SaveInductive ==
  ASSUME IInv, NEW r \in Requests, SaveCommit(r)
  PROVE  IInv'
<1>1. /\ TypeOK /\ pc[r] = "commit" /\ input[r].kind = "save"
      /\ UNCHANGED <<input, payload, row>>
  BY DEF IInv, SaveCommit, At
<1>2. Others(r)
  BY <1>1, StepOthers DEF Steps
<1>3. CASE Unchanged(r)
  BY <1>3, WrittenInductive
<1>4. CASE ~Unchanged(r) /\ Result(r) = payload[r]
  <2>1. Goto(r, "ok") /\ UNCHANGED <<portal, tables, tries>>
    BY <1>4 DEF SaveCommit
  <2>2. /\ pc' \in [Requests -> {"new", "read", "check", "commit", "ok", "failed"}]
        /\ pc'[r] = "ok"
        /\ \A q \in Requests : pc'[q] # "new" => pc[q] # "new"
    BY <1>1, <2>1 DEF TypeOK, Goto
  <2>3. TypeOK'
    BY <1>1, <2>1, <2>2 DEF TypeOK, tables
  <2>4. (Unambiguous(input[r].members))' <=> Unambiguous(input[r].members)
    BY <1>1 DEF Unambiguous
  <2>5. Reads(r)'
    BY <1>1, <2>2, <2>4 DEF IInv, Reads, At, Joins
  <2>6. QED
    BY <1>1, <1>2, <2>1, <2>3, <2>5, Quiet
<1>5. CASE ~Unchanged(r) /\ Result(r) # payload[r]
  <2>1. Retry(r) /\ UNCHANGED <<portal, tables>>
    BY <1>5 DEF SaveCommit
  <2>2. QED
    BY <1>1, <1>2, <2>1, FailedInductive
<1>6. QED
  BY <1>3, <1>4, <1>5

-----------------------------------------------------------------------------
(* Expiry *)

\* A step of the clock changes no request, and no more than "expired".
LEMMA ExpiryInductive ==
  ASSUME IInv, NEW t \in Requests, SessionExpires(t) \/ LinkExpires(t)
  PROVE  IInv'
<1>1. TypeOK /\ UNCHANGED <<portal, accounts, pc, input, payload, row, tries>>
  BY DEF IInv, SessionExpires, LinkExpires, own
<1>2. /\ sessions' \in [Requests -> Session \cup {None}]
      /\ \A x \in Requests : sessions'[x] # None =>
           /\ sessions[x] # None /\ sessions'[x].member = sessions[x].member
           /\ sessions'[x].email = sessions[x].email /\ sessions'[x].version = sessions[x].version
  <2>1. CASE SessionExpires(t)
    <3>1. sessions[t] \in Session /\ sessions' = [sessions EXCEPT ![t].expired = TRUE]
      BY <1>1, <2>1 DEF SessionExpires, TypeOK
    <3>2. [sessions[t] EXCEPT !.expired = TRUE] \in Session
      BY <3>1 DEF Session
    <3>3. sessions[t] # None
      BY <2>1 DEF SessionExpires
    <3>4. QED
      BY <1>1, <3>1, <3>2, <3>3 DEF TypeOK, Session
  <2>2. CASE LinkExpires(t)
    BY <1>1, <2>2 DEF LinkExpires, TypeOK
  <2>3. QED
    BY <2>1, <2>2
<1>3. /\ links' \in [Requests -> Link \cup {None}]
      /\ \A x \in Requests : links'[x] # None =>
           /\ links[x] # None /\ links'[x].member = links[x].member
           /\ links'[x].email = links[x].email /\ links'[x].consumed = links[x].consumed
  <2>1. CASE LinkExpires(t)
    <3>1. links[t] \in Link /\ links' = [links EXCEPT ![t].expired = TRUE]
      BY <1>1, <2>1 DEF LinkExpires, TypeOK
    <3>2. [links[t] EXCEPT !.expired = TRUE] \in Link
      BY <3>1 DEF Link
    <3>3. links[t] # None
      BY <2>1 DEF LinkExpires
    <3>4. QED
      BY <1>1, <3>1, <3>2, <3>3 DEF TypeOK, Link
  <2>2. CASE SessionExpires(t)
    BY <1>1, <2>2 DEF SessionExpires, TypeOK
  <2>3. QED
    BY <2>1, <2>2
<1>4. Others(t)
  BY <1>1 DEF Others
<1>5. TypeOK'
  BY <1>1, <1>2, <1>3 DEF TypeOK
<1>6. AccountsFollowRoster'
  BY <1>1 DEF IInv, AccountsFollowRoster, Unambiguous
<1>7. VersionsAreSecrets'
  BY <1>1, <1>4, VersionsStay DEF IInv, VersionsAreSecrets
<1>8. SessionsFollowAccounts'
  <2>1. \A x \in Requests : sessions'[x] # None => Stays(x)
    BY <1>1, <1>2 DEF Stays
  <2>2. QED
    BY <1>1, <1>4, <2>1, SessionsStay DEF IInv, SessionsFollowAccounts, Follows
<1>9. LinksAreUsable'
  BY <1>1, <1>3, LinksStay DEF IInv
<1>10. LinksAreUsedOnce'
  BY <1>1 DEF IInv, LinksAreUsedOnce
<1>11. IdsAreFresh'
  <2>1. \A q \in Requests : pc[q] # "new" /\ input[q].kind = "setup" => input[q].token \in Requests
    BY <1>1, Fields
  <2>2. QED
    BY <1>1, <1>3, <2>1 DEF IInv, IdsAreFresh
<1>12. \A q \in Requests : Reads(q)'
  <2>1. \A q \in Requests \ {t} : Reads(q)'
    BY <1>1, <1>3, <1>4, OthersRead DEF IInv
  <2>2. pc[t] = "ok" /\ input[t].kind \in {"login", "link"}
    BY DEF SessionExpires, LinkExpires, IInv, SessionsFollowAccounts, IdsAreFresh
  <2>3. Reads(t)'
    BY <1>1, <2>2 DEF Reads, At, Joins
  <2>4. QED
    BY <2>1, <2>3
<1>13. QED
  BY <1>5, <1>6, <1>7, <1>8, <1>9, <1>10, <1>11, <1>12 DEF IInv

-----------------------------------------------------------------------------
(* The invariant *)

LEMMA Initially == Init => IInv
<1> SUFFICES ASSUME Init PROVE IInv
  OBVIOUS
<1>1. PICK members \in Roster, rest \in Rests :
        /\ \A m \in Requests : members[m] = None
        /\ Unambiguous(members)
        /\ portal = [members |-> members, revision |-> 0, rest |-> rest]
  BY DEF Init
<1>2. portal \in Portal /\ portal.members = members
  BY <1>1 DEF Portal
<1>3. PICK with \in SUBSET {m \in Founders : portal.members[m] # None} :
        accounts = [m \in Members |->
          IF m \in with THEN [email |-> portal.members[m].email, password |-> First, version |-> m]
          ELSE None]
  BY DEF Init
<1>4. ASSUME NEW m \in with
      PROVE  /\ m \in Members /\ m \in Founders /\ members[m] # None
             /\ accounts[m] = [email |-> members[m].email, password |-> First, version |-> m]
             /\ accounts[m] \in Account
  <2>1. m \in Members /\ m \in Founders /\ members[m] # None
    BY <1>2, <1>3, <1>4 DEF Members
  <2>2. accounts[m] = [email |-> members[m].email, password |-> First, version |-> m]
    BY <1>2, <1>3, <1>4, <2>1
  <2>3. members[m] \in Entry
    BY <2>1 DEF Roster
  <2>4. members[m].email \in Emails
    BY <2>3 DEF Entry
  <2>5. First \in Passwords
    BY AccessAssumption
  <2>6. QED
    BY <2>1, <2>2, <2>4, <2>5 DEF Account
<1>5. \A m \in Members : accounts[m] # None => m \in with
  BY <1>3
<1>6. accounts \in [Members -> Account \cup {None}]
  <2>1. \A m \in Members : accounts[m] \in Account \cup {None}
    BY <1>4, <1>5
  <2>2. QED
    BY <1>3, <2>1
<1>7. TypeOK
  BY <1>2, <1>6 DEF Init, TypeOK
<1>8. AccountsFollowRoster
  <2>1. Unambiguous(portal.members)
    BY <1>1, <1>2
  <2>2. ASSUME NEW m \in Members, accounts[m] # None
        PROVE  portal.members[m] # None /\ portal.members[m].email = accounts[m].email
    <3>1. members[m] # None /\ accounts[m] = [email |-> members[m].email, password |-> First, version |-> m]
      BY <1>4, <1>5, <2>2
    <3>2. QED
      BY <1>2, <3>1
  <2>3. QED
    BY <2>1, <2>2 DEF AccountsFollowRoster
<1>9. VersionsAreSecrets
  <2>1. SUFFICES ASSUME NEW m \in Members, accounts[m] # None
                 PROVE  Made(accounts[m].version) /\ accounts[m].password = Secret(accounts[m].version)
    BY DEF VersionsAreSecrets
  <2>2. m \in Founders /\ accounts[m] = [email |-> members[m].email, password |-> First, version |-> m]
    BY <1>4, <1>5, <2>1
  <2>3. accounts[m].version = m /\ accounts[m].password = First
    BY <2>2
  <2>4. QED
    BY <2>2, <2>3 DEF Made, Secret
<1>10. SessionsFollowAccounts /\ LinksAreUsable /\ LinksAreUsedOnce
  BY DEF Init, SessionsFollowAccounts, LinksAreUsable, LinksAreUsedOnce
<1>11. IdsAreFresh
  BY <1>1, <1>2 DEF Init, IdsAreFresh
<1>12. \A r \in Requests : Reads(r)
  BY DEF Init, Reads, At
<1>13. QED
  BY <1>7, <1>8, <1>9, <1>10, <1>11, <1>12 DEF IInv

LEMMA Inductive == IInv /\ [Next]_vars => IInv'
<1> SUFFICES ASSUME IInv, [Next]_vars PROVE IInv'
  OBVIOUS
<1>1. ASSUME NEW r \in Requests, Asks(r) \/ Steps(r) PROVE IInv'
  <2>1. CASE Reading(r)
    BY <2>1, ReadingInductive
  <2>2. CASE RegisterCommit(r) \/ AddCommit(r)
    BY <2>2, RegisterInductive, AddInductive
  <2>3. CASE LoginCommit(r) \/ Logout(r)
    BY <2>3, LoginInductive, LogoutInductive
  <2>4. CASE LinkCommit(r) \/ SetupCommit(r)
    BY <2>4, LinkInductive, SetupInductive
  <2>5. CASE SaveCommit(r)
    BY <2>5, SaveInductive
  <2>6. QED
    BY <1>1, <2>1, <2>2, <2>3, <2>4, <2>5 DEF Steps, Reading
<1>2. ASSUME NEW t \in Requests, SessionExpires(t) \/ LinkExpires(t) PROVE IInv'
  BY <1>2, ExpiryInductive
<1>3. CASE UNCHANGED vars
  <2>1. UNCHANGED <<portal, accounts, sessions, links, pc, input, payload, row, tries>>
    BY <1>3 DEF vars
  <2>2. TypeOK'
    BY <2>1 DEF IInv, TypeOK
  <2>3. AccountsFollowRoster' /\ VersionsAreSecrets' /\ SessionsFollowAccounts'
    BY <2>1 DEF IInv, AccountsFollowRoster, Unambiguous, VersionsAreSecrets, Made, Secret,
       SessionsFollowAccounts, Active, Usable
  <2>4. LinksAreUsable' /\ LinksAreUsedOnce' /\ IdsAreFresh'
    BY <2>1 DEF IInv, LinksAreUsable, Usable, LinksAreUsedOnce, IdsAreFresh
  <2>5. \A r \in Requests : Reads(r)'
    BY <2>1 DEF IInv, Reads, At, Made, Secret, Result, Taken, Unambiguous, Active, Usable
  <2>6. QED
    BY <2>2, <2>3, <2>4, <2>5 DEF IInv
<1>4. QED
  BY <1>1, <1>2, <1>3 DEF Next, Idle

\* The invariant all the others follow from.
THEOREM AccessInvariant == Spec => []IInv
BY Initially, Inductive, PTL DEF Spec

\* Every row has the columns of its table, after any number of retries.
THEOREM TypeCorrect == Spec => []TypeOK
<1>1. IInv => TypeOK
  BY DEF IInv
<1>2. QED
  BY <1>1, AccessInvariant, PTL

\* Credentials are of members, at their own addresses, and no two members have
\* the same address: registration, setup and saving against each other.
THEOREM AccountsFollow == Spec => []AccountsFollowRoster
<1>1. IInv => AccountsFollowRoster
  BY DEF IInv
<1>2. QED
  BY <1>1, AccessInvariant, PTL

\* No session outlives a suspension, a deletion or a change of address.
THEOREM ActiveSessions == Spec => []SessionsAreOfActiveMembers
<1>1. IInv => SessionsAreOfActiveMembers
  BY DEF IInv, SessionsFollowAccounts, SessionsAreOfActiveMembers
<1>2. QED
  BY <1>1, AccessInvariant, PTL

\* No session outlives the password it was opened with: a login that read the
\* account before a reset does not get one after it.
THEOREM PasswordKnown == Spec => []SessionsKnowThePassword
<1>1. IInv => SessionsKnowThePassword
  <2>1. SUFFICES ASSUME IInv, NEW t \in Requests, sessions[t] # None
                 PROVE  /\ Owns(sessions[t].member, input[t].email)
                        /\ accounts[sessions[t].member].password = input[t].password
    BY DEF SessionsKnowThePassword
  <2>2. PICK m \in Members : m = sessions[t].member
    BY <2>1, AccessAssumption DEF IInv, TypeOK, Session
  <2>3. /\ Active(portal, m, sessions[t].email) /\ accounts[m] # None
        /\ accounts[m].version = sessions[t].version
        /\ sessions[t].email = input[t].email
        /\ Secret(sessions[t].version) = input[t].password
    BY <2>1, <2>2 DEF IInv, SessionsFollowAccounts
  <2>4. accounts[m].email = input[t].email
    BY <2>1, <2>2, <2>3 DEF IInv, AccountsFollowRoster, Active, Usable
  <2>5. accounts[m].password = Secret(accounts[m].version)
    BY <2>1, <2>2, <2>3 DEF IInv, VersionsAreSecrets
  <2>6. QED
    BY <2>2, <2>3, <2>4, <2>5 DEF Owns
<1>2. QED
  BY <1>1, AccessInvariant, PTL

\* A member has at most one unused link, and can use it.
THEOREM LinksUsable == Spec => []LinksAreUsable
<1>1. IInv => LinksAreUsable
  BY DEF IInv
<1>2. QED
  BY <1>1, AccessInvariant, PTL

\* However many requests come with a link, one of them sets a password.
THEOREM UsedOnce == Spec => []LinksAreUsedOnce
<1>1. IInv => LinksAreUsedOnce
  BY DEF IInv
<1>2. QED
  BY <1>1, AccessInvariant, PTL

\* A partner's save does not follow the suspension of its account, though the
\* save was authorised before.
THEOREM RevokedNever == Spec => RevokedNeverSave
<1>1. IInv /\ [Next]_vars =>
        [\A r \in Requests : SavedBy(r) => Active(portal, row[r].member, row[r].email)]_vars
  <2>1. SUFFICES ASSUME IInv, [Next]_vars, NEW r \in Requests, SavedBy(r)
                 PROVE  Active(portal, row[r].member, row[r].email)
    OBVIOUS
  <2>2. /\ pc[r] = "commit" /\ input[r].kind = "save" /\ pc'[r] = "ok" /\ portal' # portal
        /\ input[r].token # None
    BY <2>1 DEF SavedBy, At
  <2>3. ASSUME NEW q \in Requests, q # r, Asks(q) \/ Steps(q) PROVE FALSE
    BY <2>1, <2>2, <2>3, StepOthers DEF IInv, Others
  <2>4. ASSUME NEW t \in Requests, SessionExpires(t) \/ LinkExpires(t) PROVE FALSE
    BY <2>2, <2>4 DEF SessionExpires, LinkExpires
  <2>5. Asks(r) \/ Steps(r)
    BY <2>1, <2>2, <2>3, <2>4 DEF Next, Idle, vars
  <2>6. ASSUME Reading(r) PROVE FALSE
    BY <2>1, <2>2, <2>6, ReadingReads
  <2>7. SaveCommit(r)
    BY <2>2, <2>5, <2>6 DEF Steps, Reading, RegisterCommit, AddCommit, LoginCommit, Logout,
       LinkCommit, SetupCommit, At
  <2>8. payload[r] = portal
    BY <2>2, <2>7 DEF SaveCommit, Unchanged
  <2>9. QED
    BY <2>1, <2>2, <2>8 DEF IInv, Reads, At
<1>2. QED
  BY <1>1, AccessInvariant, PTL DEF Spec, RevokedNeverSave

-----------------------------------------------------------------------------
(* The refinement *)

\* Which password, member of a link, and member of a session there is.
Password(m) == IF accounts[m] = None THEN None ELSE accounts[m].password
Opener(t)   == IF links[t] = None THEN None
               ELSE IF links[t].consumed = None THEN links[t].member ELSE None
Signer(t)   == IF sessions[t] = None THEN None ELSE sessions[t].member

LEMMA RosterType ==
  ASSUME NEW members \in Roster, Unambiguous(members)
  PROVE  members \in Access!Roster
BY DEF Roster, Unambiguous, Access!Roster, Access!Statuses, Entry, Statuses

LEMMA StutterStep ==
  ASSUME portal'.members = portal.members,
         \A m \in Members : Password(m)' = Password(m),
         \A t \in Requests : Opener(t)' = Opener(t) /\ Signer(t)' = Signer(t)
  PROVE  UNCHANGED Access!vars
BY DEF Access!vars, Password, Opener, Signer

LEMMA InitStep ==
  ASSUME Init, IInv
  PROVE  Access!Init
<1>1. portal.members \in Access!Roster
  BY RosterType DEF IInv, TypeOK, Portal, AccountsFollowRoster
<1>2. \A m \in Members : Password(m) \in Passwords \cup {None}
  BY DEF IInv, TypeOK, Account, Password
<1>3. \A m \in Members : Password(m) # None => portal.members[m] # None
  BY DEF IInv, AccountsFollowRoster, Password
<1>4. \A t \in Requests : Opener(t) = None /\ Signer(t) = None
  BY DEF Init, Opener, Signer
<1>5. QED
  BY <1>1, <1>2, <1>3, <1>4 DEF Access!Init, Password, Opener, Signer

LEMMA JoinStep ==
  ASSUME IInv, NEW r \in Requests, RegisterCommit(r) \/ AddCommit(r), pc'[r] = "ok"
  PROVE  \E m \in Members, e \in Emails : Access!Join(m, e)
<1>1. /\ TypeOK /\ pc[r] = "commit" /\ input[r].kind \in Joins /\ r \in Members
      /\ sessions' = sessions /\ links' = links
  BY DEF IInv, RegisterCommit, AddCommit, At, Joins, Members, tables
<1>2. PICK e \in Emails : e = input[r].email
  BY <1>1, Fields
<1>3. portal = payload[r] /\ portal.members[r] = None /\ accounts[r] = None
      /\ ~Taken(portal, e)
  <2>1. ~Retry(r)
    BY <1>1 DEF Retry, Goto, TypeOK
  <2>2. portal = payload[r]
    BY <2>1 DEF RegisterCommit, AddCommit, Inserted, Unchanged
  <2>3. ~Taken(payload[r], e)
    BY <1>1, <1>2 DEF IInv, Reads, At
  <2>4. QED
    BY <1>1, <2>2, <2>3, FreshId
<1>4. portal.members \in Roster
  BY <1>1 DEF TypeOK, Portal
<1>5. CASE AddCommit(r)
  <2>1. portal' = With(portal, r, "active") /\ accounts' = accounts
    BY <1>1, <1>3, <1>5 DEF AddCommit, Retry, Goto, TypeOK, tables
  <2>2. portal'.members = [portal.members EXCEPT ![r] = [email |-> e, status |-> "active"]]
    BY <1>1, <1>2, <2>1 DEF With, TypeOK, Portal
  <2>3. Access!Join(r, e)
    BY <1>1, <1>3, <2>1, <2>2 DEF Access!Join, Taken
  <2>4. QED
    BY <1>1, <1>2, <2>3
<1>6. CASE RegisterCommit(r)
  <2>1. /\ portal' = With(portal, r, "pending")
        /\ accounts' = [accounts EXCEPT ![r] = Credential(r, e)]
    BY <1>1, <1>2, <1>3, <1>6 DEF RegisterCommit, Retry, Goto, TypeOK
  <2>2. portal'.members = [portal.members EXCEPT ![r] = [email |-> e, status |-> "pending"]]
    BY <1>1, <1>2, <2>1 DEF With, TypeOK, Portal
  <2>3. PICK p \in Passwords : p = input[r].password /\ input[r].kind = "register"
    BY <1>1, <1>6, Fields DEF RegisterCommit, At
  <2>4. Credential(r, e) \in Account /\ Credential(r, e).password = p
    BY <1>1, <1>2, <2>3 DEF Credential, Account
  <2>5. \A m \in Members : Password(m)' = IF m = r THEN p ELSE Password(m)
    BY <1>1, <2>1, <2>4, AccessAssumption DEF Password, TypeOK
  <2>6. [m \in Members |-> IF accounts[m] = None THEN None ELSE accounts[m].password]' =
          [[m \in Members |-> IF accounts[m] = None THEN None ELSE accounts[m].password]
             EXCEPT ![r] = p]
    BY <1>1, <2>5 DEF Password
  <2>7. Access!Join(r, e)
    BY <1>1, <1>3, <2>2, <2>3, <2>6 DEF Access!Join, Taken
  <2>8. QED
    BY <1>1, <1>2, <2>7
<1>7. QED
  BY <1>5, <1>6

LEMMA LoginStep ==
  ASSUME IInv, NEW r \in Requests, LoginCommit(r)
  PROVE  Access!Next
<1>1. /\ TypeOK /\ pc[r] = "commit" /\ input[r].kind = "login"
      /\ UNCHANGED <<portal, accounts, links>>
  BY DEF IInv, LoginCommit, At
<1>2. PICK gone \in SUBSET Requests :
        \A t \in Requests :
          t \in gone <=> sessions[t] # None /\ (sessions[t].expired \/ t = input[r].token)
  <2> WITNESS {t \in Requests : sessions[t] # None /\ (sessions[t].expired \/ t = input[r].token)}
                \in SUBSET Requests
  <2> QED
    OBVIOUS
<1>3. \A t \in Requests : Purged(r)[t] = IF t \in gone THEN None ELSE sessions[t]
  BY <1>2 DEF Purged
<1>4. CASE Confirmed(r) /\ sessions' = [Purged(r) EXCEPT ![r] = Opened(r)]
  <2>1. row[r] # None /\ Secret(row[r].version) = input[r].password
    BY <1>1 DEF IInv, Reads, At
  <2>2. PICK m \in Members : row[r] \in Row /\ m = row[r].member
    BY <1>1, <2>1 DEF TypeOK, Row
  <2>3. /\ accounts[m] # None /\ accounts[m].version = row[r].version
        /\ Active(portal, m, row[r].email)
    BY <1>4, <2>2 DEF Confirmed, Owns
  <2>4. PICK p \in Passwords : p = input[r].password
    BY <1>1, Fields
  <2>5. accounts[m].password = p
    BY <2>1, <2>2, <2>3, <2>4 DEF IInv, VersionsAreSecrets
  <2>6. sessions'[r] = Opened(r) /\ Opened(r) \in Session /\ Opened(r).member = m
    BY <1>1, <1>4, <2>1, <2>2, <2>3 DEF Purged, Opened, Session, Row, Confirmed, Owns, TypeOK, Account
  <2>7. \A t \in Requests : Signer(t)' = IF t = r THEN m ELSE IF t \in gone THEN None ELSE Signer(t)
    BY <1>3, <1>4, <2>6, AccessAssumption DEF Signer, Purged
  <2>8. Access!Active(m)
    BY <2>3 DEF Access!Active, Active, Usable
  <2>9. Access!Enter(r, m, p)
    BY <1>1, <2>2, <2>3, <2>5, <2>7, <2>8 DEF Access!Enter, Signer
  <2>10. QED
    BY <2>9 DEF Access!Next
<1>5. CASE sessions' = Purged(r)
  <2>1. \A t \in Requests : Signer(t)' = IF t \in gone THEN None ELSE Signer(t)
    BY <1>3, <1>5 DEF Signer
  <2>2. Access!Leave(gone)
    BY <1>1, <2>1 DEF Access!Leave, Signer
  <2>3. QED
    BY <2>2 DEF Access!Next
<1>6. QED
  BY <1>4, <1>5 DEF LoginCommit

LEMMA LogoutStep ==
  ASSUME IInv, NEW r \in Requests, Logout(r)
  PROVE  Access!Next
<1>1. /\ TypeOK /\ pc[r] # "new" /\ input[r].kind = "logout"
      /\ UNCHANGED <<portal, accounts, links>>
      /\ sessions' = [sessions EXCEPT ![input[r].token] = None]
  BY DEF IInv, Logout, At
<1>2. PICK gone \in SUBSET Requests : gone = {input[r].token} /\ input[r].token \in Requests
  BY <1>1, Fields
<1>3. \A t \in Requests : Signer(t)' = IF t \in gone THEN None ELSE Signer(t)
  BY <1>1, <1>2 DEF Signer, TypeOK
<1>4. Access!Leave(gone)
  BY <1>1, <1>3 DEF Access!Leave, Signer
<1>5. QED
  BY <1>4 DEF Access!Next

LEMMA LinkStep ==
  ASSUME IInv, NEW r \in Requests, LinkCommit(r), links' # links
  PROVE  Access!Next
<1> DEFINE gone == {t \in Requests : links[t] # None /\ links[t].expired}
           issued == [member |-> row[r].member, email |-> row[r].email, expired |-> FALSE, consumed |-> None]
<1>1. /\ TypeOK /\ pc[r] = "commit" /\ input[r].kind = "link"
      /\ UNCHANGED <<portal, accounts, sessions>>
      /\ Usable(portal, row[r].member, row[r].email)
      /\ links' = [t \in Requests |->
           IF t = r THEN issued
           ELSE IF links[t] # None /\ (links[t].member = row[r].member \/ links[t].expired) THEN None
           ELSE links[t]]
  BY DEF IInv, LinkCommit, At
<1>2. row[r] # None
  BY <1>1 DEF IInv, Reads, At
<1>3. PICK m \in Members : row[r] \in Row /\ m = row[r].member
  BY <1>1, <1>2 DEF TypeOK, Row
<1>4. issued \in Link /\ issued # None /\ m # None
  <2>1. issued \in Link
    BY <1>3 DEF Row, Link
  <2>2. QED
    BY <1>3, <2>1, AccessAssumption DEF Members
<1>5. \A t \in Requests : Opener(t)' =
        IF t = r THEN m ELSE IF Opener(t) = m \/ t \in gone THEN None ELSE Opener(t)
  BY <1>1, <1>3, <1>4 DEF Opener
<1>6. Access!Usable(m)
  BY <1>1, <1>3 DEF Access!Usable, Usable
<1>7. Access!Invite(r, m)
  BY <1>1, <1>5, <1>6 DEF Access!Invite, Opener
<1>8. QED
  BY <1>7 DEF Access!Next

LEMMA SetupStep ==
  ASSUME IInv, NEW r \in Requests, SetupCommit(r), ~(Goto(r, "failed") /\ UNCHANGED tables)
  PROVE  Access!Next
<1>1. /\ TypeOK /\ pc[r] = "commit" /\ input[r].kind = "setup" /\ portal' = portal
  BY DEF IInv, SetupCommit, At
<1>2. PICK t \in Requests, m \in Members :
        /\ t = input[r].token /\ links[t] \in Link /\ m = links[t].member
        /\ Redeemable(t)
        /\ Credential(r, links[t].email) \in Account
        /\ accounts' = [accounts EXCEPT ![m] = Credential(r, links[t].email)]
        /\ links' = [links EXCEPT ![t].consumed = r]
        /\ sessions' = SessionsEnded(m)
  BY SetupDone
<1>3. PICK p \in Passwords : p = input[r].password
  BY <1>1, Fields
<1>4. Opener(t) = m /\ m # None /\ r # None
  BY <1>2, AccessAssumption DEF Opener, Redeemable, Members
<1>5. Access!Usable(m)
  BY <1>2 DEF Access!Usable, Usable, Redeemable
<1>6. \A o \in Members : Password(o)' = IF o = m THEN p ELSE Password(o)
  <2>1. accounts'[m] # None /\ accounts'[m].password = p
    BY <1>1, <1>2, <1>3, AccessAssumption DEF TypeOK, Credential
  <2>2. \A o \in Members : o # m => accounts'[o] = accounts[o]
    BY <1>1, <1>2 DEF TypeOK
  <2>3. QED
    BY <2>1, <2>2 DEF Password
<1>7. \A x \in Requests : Opener(x)' = IF x = t THEN None ELSE Opener(x)
  <2>1. links'[t].consumed = r
    BY <1>1, <1>2 DEF TypeOK, Link
  <2>2. \A x \in Requests : x # t => links'[x] = links[x]
    BY <1>1, <1>2 DEF TypeOK
  <2>3. QED
    BY <1>4, <2>1, <2>2 DEF Opener
<1>8. \A x \in Requests : Signer(x)' = IF Signer(x) = m THEN None ELSE Signer(x)
  BY <1>2, <1>4 DEF Signer, SessionsEnded
<1> DEFINE credential == [o \in Members |-> IF accounts[o] = None THEN None ELSE accounts[o].password]
           open   == [x \in Requests |-> IF links[x] = None THEN None
                                         ELSE IF links[x].consumed = None THEN links[x].member
                                         ELSE None]
           signed == [x \in Requests |-> IF sessions[x] = None THEN None ELSE sessions[x].member]
<1>9. open[t] = m
  BY <1>4 DEF Opener
<1>10. credential' = [credential EXCEPT ![m] = p]
  BY <1>6 DEF Password
<1>11. open' = [open EXCEPT ![t] = None]
  BY <1>7 DEF Opener
<1>12. signed' = [x \in Requests |-> IF signed[x] = m THEN None ELSE signed[x]]
  BY <1>8 DEF Signer
<1> HIDE DEF credential, open, signed
<1>13. /\ open[t] # None
       /\ portal.members[open[t]] # None /\ portal.members[open[t]].status # "suspended"
       /\ credential' = [credential EXCEPT ![open[t]] = p]
       /\ open' = [open EXCEPT ![t] = None]
       /\ signed' = [x \in Requests |-> IF signed[x] = open[t] THEN None ELSE signed[x]]
       /\ portal'.members = portal.members
  BY <1>1, <1>4, <1>5, <1>9, <1>10, <1>11, <1>12 DEF Access!Usable
<1>14. Access!Redeem(t, p)
  BY <1>13, Zenon DEF Access!Redeem, Access!Usable, credential, open, signed
<1>15. QED
  BY <1>14 DEF Access!Next

LEMMA SaveStep ==
  ASSUME IInv, NEW r \in Requests, SaveCommit(r), Revoke(portal, portal'),
         portal' \in Portal, Unambiguous(portal'.members),
         \A m \in Members : portal'.members[m] # None => portal.members[m] # None
  PROVE  Access!Restaff
<1> DEFINE Same(m) == portal'.members[m] # None /\ portal'.members[m].email = portal.members[m].email
<1>1. TypeOK /\ portal.members \in Roster /\ portal'.members \in Roster
  BY DEF IInv, TypeOK, Portal
<1>2. portal'.members \in Access!Roster
  BY <1>1, RosterType
<1>3. ASSUME NEW m \in Members
      PROVE  Password(m)' = IF Password(m) # None /\ Same(m) THEN Password(m) ELSE None
  <2>1. accounts'[m] = IF AccountsRevoked(portal, portal', m) THEN None ELSE accounts[m]
    BY DEF Revoke
  <2>2. accounts[m] # None => portal.members[m] # None
    BY DEF IInv, AccountsFollowRoster
  <2>3. accounts[m] # None => (AccountsRevoked(portal, portal', m) <=> ~Same(m))
    BY <2>2 DEF AccountsRevoked, Moved
  <2>4. accounts[m] # None => accounts[m].password # None
    BY <1>1, AccessAssumption DEF TypeOK, Account
  <2>5. QED
    BY <2>1, <2>3, <2>4 DEF Password
<1>4. ASSUME NEW t \in Requests
      PROVE  Opener(t)' = IF Opener(t) # None /\ Same(Opener(t))
                               /\ portal'.members[Opener(t)].status # "suspended"
                          THEN Opener(t) ELSE None
  <2>1. links'[t] = IF links[t] # None /\ LinksRevoked(portal, portal', links[t].member) THEN None
                    ELSE links[t]
    BY DEF Revoke
  <2>2. CASE links[t] = None \/ links[t].consumed # None
    BY <2>1, <2>2 DEF Opener
  <2>3. CASE links[t] # None /\ links[t].consumed = None
    <3>1. PICK m \in Members : m = links[t].member
      BY <1>1, <2>3 DEF TypeOK, Link
    <3>2. portal.members[m] # None /\ portal.members[m].status # "suspended"
      BY <2>3, <3>1 DEF IInv, LinksAreUsable, Usable
    <3>3. LinksRevoked(portal, portal', m) <=>
            ~(Same(m) /\ portal'.members[m].status # "suspended")
      BY <3>2 DEF LinksRevoked, Moved
    <3>4. Opener(t) = m /\ m # None
      BY <2>3, <3>1, AccessAssumption DEF Opener, Members
    <3>5. QED
      BY <2>1, <2>3, <3>1, <3>3, <3>4 DEF Opener
  <2>4. QED
    BY <2>2, <2>3
<1>5. ASSUME NEW t \in Requests
      PROVE  Signer(t)' = IF Signer(t) # None /\ portal'.members[Signer(t)] = portal.members[Signer(t)]
                          THEN Signer(t) ELSE None
  <2>1. sessions'[t] = IF sessions[t] # None /\ SessionsRevoked(portal, portal', sessions[t].member)
                       THEN None ELSE sessions[t]
    BY DEF Revoke
  <2>2. CASE sessions[t] = None
    BY <2>1, <2>2 DEF Signer
  <2>3. CASE sessions[t] # None
    <3>1. PICK m \in Members : m = sessions[t].member
      BY <1>1, <2>3 DEF TypeOK, Session
    <3>2. portal.members[m] # None
      BY <2>3, <3>1 DEF IInv, SessionsFollowAccounts, Active, Usable
    <3>3. portal.members[m] \in Entry /\ portal'.members[m] \in Entry \cup {None}
      BY <1>1, <3>2 DEF Roster
    <3>4. SessionsRevoked(portal, portal', m) <=> portal'.members[m] # portal.members[m]
      <4>1. CASE portal'.members[m] = None
        BY <3>2, <4>1 DEF SessionsRevoked, Moved
      <4>2. CASE portal'.members[m] # None
        BY <3>2, <3>3, <4>2 DEF SessionsRevoked, Moved, Entry
      <4>3. QED
        BY <4>1, <4>2
    <3>5. Signer(t) = m /\ m # None
      BY <2>3, <3>1, AccessAssumption DEF Signer, Members
    <3>6. QED
      BY <2>1, <2>3, <3>1, <3>4, <3>5 DEF Signer
  <2>4. QED
    BY <2>2, <2>3
<1>6. QED
  BY <1>2, <1>3, <1>4, <1>5 DEF Access!Restaff, Password, Opener, Signer

\* A request that was not answered with "ok" has not changed an account.
LEMMA FailedStep ==
  ASSUME UNCHANGED <<portal, tables>>
  PROVE  UNCHANGED Access!vars
BY DEF tables, Access!vars

LEMMA RequestStep ==
  ASSUME IInv, NEW r \in Requests, Asks(r) \/ Steps(r)
  PROVE  [Access!Next]_(Access!vars)
<1>1. CASE Reading(r)
  BY <1>1, ReadingReads, FailedStep
<1>2. CASE RegisterCommit(r) \/ AddCommit(r)
  <2>1. CASE pc'[r] = "ok"
    BY <1>2, <2>1, JoinStep DEF Access!Next
  <2>2. CASE pc'[r] # "ok"
    <3>1. ~Goto(r, "ok")
      BY <2>2 DEF IInv, TypeOK, Goto
    <3>2. UNCHANGED <<portal, tables>>
      BY <1>2, <3>1 DEF RegisterCommit, AddCommit, tables
    <3>3. QED
      BY <3>2, FailedStep
  <2>3. QED
    BY <2>1, <2>2
<1>3. CASE LoginCommit(r) \/ Logout(r)
  BY <1>3, LoginStep, LogoutStep
<1>4. CASE LinkCommit(r)
  <2>1. CASE links' = links
    BY <1>4, <2>1, FailedStep DEF LinkCommit, tables
  <2>2. QED
    BY <1>4, <2>1, LinkStep
<1>5. CASE SetupCommit(r)
  <2>1. CASE Goto(r, "failed") /\ UNCHANGED tables
    BY <1>5, <2>1, FailedStep DEF SetupCommit
  <2>2. QED
    BY <1>5, <2>1, SetupStep
<1>6. CASE SaveCommit(r) /\ Unchanged(r)
  <2>1. CASE UNCHANGED tables /\ portal'.members = portal.members
    BY <2>1 DEF tables, Access!vars
  <2>2. CASE Revoke(portal, portal')
    BY <1>6, <2>2, SaveDone, SaveStep DEF Access!Next
  <2>3. QED
    BY <1>6, <2>1, <2>2, SaveDone
<1>7. CASE SaveCommit(r) /\ ~Unchanged(r)
  BY <1>7, FailedStep DEF SaveCommit
<1>8. QED
  BY <1>1, <1>2, <1>3, <1>4, <1>5, <1>6, <1>7 DEF Steps, Reading

\* Expiry is not visible: a row that has expired is only no longer of use.
LEMMA ExpiryStep ==
  ASSUME IInv, NEW t \in Requests, SessionExpires(t) \/ LinkExpires(t)
  PROVE  UNCHANGED Access!vars
<1>1. TypeOK /\ portal' = portal /\ accounts' = accounts
  BY DEF IInv, SessionExpires, LinkExpires
<1>2. \A x \in Requests : Opener(x)' = Opener(x) /\ Signer(x)' = Signer(x)
  <2>1. CASE SessionExpires(t)
    <3>1. sessions[t] \in Session /\ sessions' = [sessions EXCEPT ![t].expired = TRUE] /\ links' = links
      BY <1>1, <2>1 DEF SessionExpires, TypeOK
    <3>2. [sessions[t] EXCEPT !.expired = TRUE] # None /\ sessions[t] # None
      BY <3>1, AccessAssumption DEF Session
    <3>3. \A x \in Requests : Signer(x)' = Signer(x)
      BY <1>1, <3>1, <3>2 DEF Signer, TypeOK, Session
    <3>4. \A x \in Requests : Opener(x)' = Opener(x)
      BY <3>1 DEF Opener
    <3>5. QED
      BY <3>3, <3>4
  <2>2. CASE LinkExpires(t)
    <3>1. links[t] \in Link /\ links' = [links EXCEPT ![t].expired = TRUE] /\ sessions' = sessions
      BY <1>1, <2>2 DEF LinkExpires, TypeOK
    <3>2. [links[t] EXCEPT !.expired = TRUE] # None /\ links[t] # None
      BY <3>1, AccessAssumption DEF Link
    <3>3. \A x \in Requests : Opener(x)' = Opener(x)
      BY <1>1, <3>1, <3>2 DEF Opener, TypeOK, Link
    <3>4. \A x \in Requests : Signer(x)' = Signer(x)
      BY <3>1 DEF Signer
    <3>5. QED
      BY <3>3, <3>4
  <2>3. QED
    BY <2>1, <2>2
<1>3. \A m \in Members : Password(m)' = Password(m)
  BY <1>1 DEF Password
<1>4. QED
  BY <1>1, <1>2, <1>3, StutterStep

\* Every request is one step on the accounts as they are when it takes effect,
\* whatever it read and however often it retried.
THEOREM Refinement == Spec => ImplementsAccountAccess
<1>1. Init => Access!Init
  BY Initially, InitStep
<1>2. IInv /\ [Next]_vars => [Access!Next]_(Access!vars)
  <2> SUFFICES ASSUME IInv, [Next]_vars PROVE [Access!Next]_(Access!vars)
    OBVIOUS
  <2>1. ASSUME NEW r \in Requests, Asks(r) \/ Steps(r) PROVE [Access!Next]_(Access!vars)
    BY <2>1, RequestStep
  <2>2. ASSUME NEW t \in Requests, SessionExpires(t) \/ LinkExpires(t)
        PROVE  [Access!Next]_(Access!vars)
    BY <2>2, ExpiryStep
  <2>3. CASE UNCHANGED vars
    BY <2>3, FailedStep DEF vars, tables
  <2>4. QED
    BY <2>1, <2>2, <2>3 DEF Next, Idle
<1>3. QED
  BY <1>1, <1>2, AccessInvariant, PTL DEF Spec, ImplementsAccountAccess, Access!Spec
=============================================================================
