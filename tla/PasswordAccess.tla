--------------------------- MODULE PasswordAccess ---------------------------
(***************************************************************************)
(* How a partner gets into the portal: lib/password-handlers.ts (join,     *)
(* sign in, sign out, issue and redeem a setup link), lib/password-store.ts*)
(* (sessions, and what a change of the roster revokes), and PUT /api/state *)
(* with mutatePortalState, which changes the roster.                       *)
(*                                                                         *)
(* The roster is part of the portal payload, which is written by compare-  *)
(* and-swap on its text; accounts, sessions and links are tables.  A       *)
(* request reads them one statement at a time, and then writes in one      *)
(* batch, a transaction whose statements repeat the conditions.  An action *)
(* is one statement or one batch, so that anything may happen between what *)
(* a request read and what it writes.                                      *)
(*                                                                         *)
(* Ids, credential versions and tokens are random and stand here for the   *)
(* request that made them, or for the founder.  The early rejection of a save by the first     *)
(* requirePortalUser, which the save repeats, is left out, as are requests *)
(* with a token that no row has: neither writes anything.                  *)
(***************************************************************************)
EXTENDS Naturals

CONSTANTS
  Requests,   \* HTTP requests
  Founders,   \* the members when the portal starts
  Emails, Passwords,
  First,      \* the password of the founders that have one then
  Rests,      \* everything else in the payload
  None,
  Kinds,      \* the requests that are made
  Attempts    \* bound of the loops in registerPassword and mutatePortalState

Members  == Founders \cup Requests
Statuses == {"invited", "pending", "active", "suspended"}

VARIABLES
  portal,    \* the payload of portal_state
  accounts,  \* portal_password_accounts
  sessions,  \* portal_password_sessions
  links,     \* portal_password_links
  pc,        \* next step of a request
  input,     \* what it was sent
  payload,   \* the payload it read
  row,       \* the account, link or member it read
  tries      \* its failed compare-and-swaps

tables == <<accounts, sessions, links>>
own    == <<pc, input, payload, row, tries>>
vars   == <<portal, accounts, sessions, links, pc, input, payload, row, tries>>

Entry   == [email : Emails, status : Statuses]
Roster  == [Members -> Entry \cup {None}]
Portal  == [members : Roster, revision : Nat, rest : Rests]
Account == [email : Emails, password : Passwords, version : Members]
Session == [member : Members, email : Emails, version : Members, expired : BOOLEAN]
Link    == [member : Members, email : Emails, expired : BOOLEAN,
            consumed : Requests \cup {None}]
Row     == [member : Members, email : Emails, version : Members \cup {None}]

Input ==
  [kind : {"register"}, email : Emails, password : Passwords]
    \cup [kind : {"add"}, email : Emails]
    \cup [kind : {"login"}, email : Emails, password : Passwords, token : Requests \cup {None}]
    \cup [kind : {"logout"}, token : Requests]
    \cup [kind : {"link"}, member : Members]
    \cup [kind : {"setup"}, token : Requests, password : Passwords]
    \cup [kind : {"save"}, token : Requests \cup {None}, page : Portal,
          members : Roster, rest : Rests]

ASSUME AccessAssumption ==
  /\ Founders \cap Requests = {}
  /\ None \notin Requests \cup Founders \cup Emails \cup Passwords
  /\ None \notin Entry \cup Portal \cup Account \cup Session \cup Link \cup Row \cup Input
  /\ First \in Passwords
  /\ Attempts \in Nat \ {0}

TypeOK ==
  /\ portal \in Portal
  /\ accounts \in [Members -> Account \cup {None}]
  /\ sessions \in [Requests -> Session \cup {None}]
  /\ links \in [Requests -> Link \cup {None}]
  /\ pc \in [Requests -> {"new", "read", "check", "commit", "ok", "failed"}]
  /\ input \in [Requests -> Input \cup {None}]
  /\ payload \in [Requests -> Portal \cup {None}]
  /\ row \in [Requests -> Row \cup {None}]
  /\ tries \in [Requests -> Nat]
  /\ \A r \in Requests : pc[r] # "new" => input[r] # None

\* No two members of a roster have the same address.
Unambiguous(members) ==
  \A m, o \in Members :
    m # o /\ members[m] # None /\ members[o] # None => members[m].email # members[o].email

Init ==
  /\ \E members \in {f \in Roster : \A m \in Requests : f[m] = None}, rest \in Rests :
       /\ Unambiguous(members)
       /\ portal = [members |-> members, revision |-> 0, rest |-> rest]
  /\ \E with \in SUBSET {m \in Founders : portal.members[m] # None} :
       accounts = [m \in Members |->
         IF m \in with THEN [email |-> portal.members[m].email, password |-> First, version |-> m]
         ELSE None]
  /\ sessions = [t \in Requests |-> None]
  /\ links = [t \in Requests |-> None]
  /\ pc = [r \in Requests |-> "new"]
  /\ input = [r \in Requests |-> None]
  /\ payload = [r \in Requests |-> None]
  /\ row = [r \in Requests |-> None]
  /\ tries = [r \in Requests |-> 0]

-----------------------------------------------------------------------------
(* Conditions the handlers and their statements share *)

At(r, kinds, step) == pc[r] = step /\ input[r].kind \in kinds
Goto(r, step) == pc' = [pc EXCEPT ![r] = step]

\* usableMember, and portalMemberExistsSql with status 'not-suspended'.
Usable(p, m, e) ==
  p.members[m] # None /\ p.members[m].email = e /\ p.members[m].status # "suspended"
\* portalMemberExistsSql with status 'active', and the end of requirePortalUser.
Active(p, m, e) == Usable(p, m, e) /\ p.members[m].status = "active"

Taken(p, e) == \E m \in Members : p.members[m] # None /\ p.members[m].email = e

\* The account that an address signs in to: the column is unique.
Owns(m, e) == accounts[m] # None /\ accounts[m].email = e

\* passwordSessionStatement: the session is not older than the password.
Live(t) ==
  /\ sessions[t] # None
  /\ ~sessions[t].expired
  /\ Owns(sessions[t].member, sessions[t].email)
  /\ accounts[sessions[t].member].version = sessions[t].version

\* Variant: the payload is written over whatever is there.
Overwrite(r) == TRUE
\* ... AND payload = ?: nobody has written since it was read.
Unchanged(r) == portal = payload[r]

Retry(r) ==
  /\ IF tries[r] + 1 < Attempts THEN Goto(r, "read") ELSE Goto(r, "failed")
  /\ tries' = [tries EXCEPT ![r] = @ + 1]

\* An early return, or an error.
Reject(r) == Goto(r, "failed") /\ UNCHANGED <<portal, tables, input, payload, row, tries>>

-----------------------------------------------------------------------------
(* Requests *)

Ask(r, kind) == /\ pc[r] = "new" /\ kind \in Kinds
                /\ Goto(r, "read")
                /\ UNCHANGED <<portal, tables, payload, row, tries>>

\* A member that PUT /api/state may write in place of another.
Transition == {<<"active", "suspended">>, <<"suspended", "active">>,
               <<"pending", "active">>, <<"invited", "active">>}
              \cup {<<s, s>> : s \in Statuses}

\* mergeStateForPortalUser: no invented member, no address twice, no active
\* member deleted, and only the changes of status that are listed.
Edits(old) ==
  LET there == {m \in Members : old[m] # None}
      Edited(m, new) == IF new = None THEN old[m].status # "active"
                        ELSE <<old[m].status, new.status>> \in Transition
  IN  {new \in {[m \in Members |-> IF m \in there THEN f[m] ELSE None] :
                  f \in {g \in [there -> Entry \cup {None}] : \A m \in there : Edited(m, g[m])}} :
         Unambiguous(new)}

AskRegister(r) == /\ Ask(r, "register")
                  /\ \E e \in Emails, p \in Passwords :
                       input' = [input EXCEPT ![r] = [kind |-> "register", email |-> e, password |-> p]]

AskAdd(r) == /\ Ask(r, "add")
             /\ \E e \in Emails :
                  input' = [input EXCEPT ![r] = [kind |-> "add", email |-> e]]

AskLogin(r) == /\ Ask(r, "login")
               /\ \E e \in Emails, p \in Passwords, t \in Requests \cup {None} :
                    /\ t # None => sessions[t] # None
                    /\ input' = [input EXCEPT ![r] = [kind |-> "login", email |-> e,
                                                      password |-> p, token |-> t]]

AskLogout(r) == /\ Ask(r, "logout")
                /\ \E t \in Requests :
                     /\ sessions[t] # None
                     /\ input' = [input EXCEPT ![r] = [kind |-> "logout", token |-> t]]

AskLink(r) == /\ Ask(r, "link")
              /\ \E m \in Members :
                   input' = [input EXCEPT ![r] = [kind |-> "link", member |-> m]]

AskSetup(r) == /\ Ask(r, "setup")
               /\ \E t \in Requests, p \in Passwords :
                    /\ links[t] # None
                    /\ input' = [input EXCEPT ![r] = [kind |-> "setup", token |-> t,
                                                      password |-> p]]

\* The page a save was made on is the payload of some time, and If-Match its
\* revision.  A token is a partner's; the administrator signs in elsewhere.
AskSave(r) == /\ Ask(r, "save")
              /\ \E t \in Requests \cup {None}, members \in Edits(portal.members), rest \in Rests :
                   /\ t # None => sessions[t] # None /\ members = portal.members
                   /\ input' = [input EXCEPT ![r] = [kind |-> "save", token |-> t, page |-> portal,
                                                     members |-> members, rest |-> rest]]

-----------------------------------------------------------------------------
(* Joining: registerPassword, and POST /api/admin/partners *)

Joins == {"register", "add"}

\* The two look at the roster and at the accounts, and refuse on either.
JoinRead(r) ==
  /\ At(r, Joins, "read")
  /\ ~Taken(portal, input[r].email)
  /\ payload' = [payload EXCEPT ![r] = portal]
  /\ Goto(r, "check")
  /\ UNCHANGED <<portal, tables, input, row, tries>>

JoinCheck(r) ==
  /\ At(r, Joins, "check")
  /\ \A m \in Members : ~Owns(m, input[r].email)
  /\ Goto(r, "commit")
  /\ UNCHANGED <<portal, tables, input, payload, row, tries>>

JoinRefused(r) ==
  \/ At(r, Joins, "read") /\ Taken(portal, input[r].email) /\ Reject(r)
  \/ At(r, Joins, "check") /\ (\E m \in Members : Owns(m, input[r].email)) /\ Reject(r)

With(p, r, status) ==
  [p EXCEPT !.members[r] = [email |-> input[r].email, status |-> status],
            !.revision = @ + 1]

\* INSERT ... ON CONFLICT DO NOTHING, and the UPDATE that needs its row.
Inserted(r) == Unchanged(r) /\ \A m \in Members : ~Owns(m, input[r].email)

Credential(r, e) == [email |-> e, password |-> input[r].password, version |-> r]

RegisterCommit(r) ==
  /\ At(r, {"register"}, "commit")
  /\ \/ /\ Inserted(r)
        /\ accounts' = [accounts EXCEPT ![r] = Credential(r, input[r].email)]
        /\ portal' = With(payload[r], r, "pending")
        /\ Goto(r, "ok")
        /\ UNCHANGED tries
     \/ ~Inserted(r) /\ Retry(r) /\ UNCHANGED <<portal, accounts>>
  /\ UNCHANGED <<sessions, links, input, payload, row>>

AddCommit(r) ==
  /\ At(r, {"add"}, "commit")
  /\ \/ /\ Unchanged(r)
        /\ portal' = With(payload[r], r, "active")
        /\ Goto(r, "ok")
        /\ UNCHANGED tries
     \/ ~Unchanged(r) /\ Retry(r) /\ UNCHANGED portal
  /\ UNCHANGED <<tables, input, payload, row>>

-----------------------------------------------------------------------------
(* Signing in and out *)

Found(m, e, v) == [member |-> m, email |-> e, version |-> v]

LoginRead(r) ==
  /\ At(r, {"login"}, "read")
  /\ \E m \in Members :
       /\ Owns(m, input[r].email)
       /\ accounts[m].password = input[r].password
       /\ row' = [row EXCEPT ![r] = Found(m, input[r].email, accounts[m].version)]
  /\ Goto(r, "check")
  /\ UNCHANGED <<portal, tables, input, payload, tries>>

LoginCheck(r) ==
  /\ At(r, {"login"}, "check")
  /\ Active(portal, row[r].member, row[r].email)
  /\ Goto(r, "commit")
  /\ UNCHANGED <<portal, tables, input, payload, row, tries>>

LoginRefused(r) ==
  \/ /\ At(r, {"login"}, "read")
     /\ \A m \in Members : Owns(m, input[r].email) => accounts[m].password # input[r].password
     /\ Reject(r)
  \/ At(r, {"login"}, "check") /\ ~Active(portal, row[r].member, row[r].email) /\ Reject(r)

\* Variant: the account read before is not looked at again.
StillActive(r) == Active(portal, row[r].member, row[r].email)
\* The conditions of the INSERT into portal_password_sessions.
Confirmed(r) ==
  /\ Owns(row[r].member, row[r].email)
  /\ accounts[row[r].member].version = row[r].version
  /\ Active(portal, row[r].member, row[r].email)

\* Expired sessions and the one of the cookie go, also when the INSERT fails.
Purged(r) == [t \in Requests |->
  IF sessions[t] # None /\ (sessions[t].expired \/ t = input[r].token) THEN None
  ELSE sessions[t]]

Opened(r) == [member |-> row[r].member, email |-> row[r].email,
              version |-> row[r].version, expired |-> FALSE]

LoginCommit(r) ==
  /\ At(r, {"login"}, "commit")
  /\ \/ Confirmed(r) /\ sessions' = [Purged(r) EXCEPT ![r] = Opened(r)] /\ Goto(r, "ok")
     \/ ~Confirmed(r) /\ sessions' = Purged(r) /\ Goto(r, "failed")
  /\ UNCHANGED <<portal, accounts, links, input, payload, row, tries>>

Logout(r) ==
  /\ At(r, {"logout"}, "read")
  /\ sessions' = [sessions EXCEPT ![input[r].token] = None]
  /\ Goto(r, "ok")
  /\ UNCHANGED <<portal, accounts, links, input, payload, row, tries>>

-----------------------------------------------------------------------------
(* Setup links *)

LinkRead(r) ==
  /\ At(r, {"link"}, "read")
  /\ LET m == input[r].member IN
       /\ portal.members[m] # None
       /\ Usable(portal, m, portal.members[m].email)
       /\ row' = [row EXCEPT ![r] = Found(m, portal.members[m].email, None)]
  /\ Goto(r, "commit")
  /\ UNCHANGED <<portal, tables, input, payload, tries>>

LinkRefused(r) ==
  /\ At(r, {"link"}, "read")
  /\ LET m == input[r].member IN
       portal.members[m] # None => portal.members[m].status = "suspended"
  /\ Reject(r)

\* Both statements of the batch depend on the member as it is now.
LinkCommit(r) ==
  /\ At(r, {"link"}, "commit")
  /\ LET m == row[r].member
         issued == [member |-> m, email |-> row[r].email, expired |-> FALSE, consumed |-> None]
     IN
     \/ /\ Usable(portal, m, row[r].email)
        /\ links' = [t \in Requests |->
             IF t = r THEN issued
             ELSE IF links[t] # None /\ (links[t].member = m \/ links[t].expired) THEN None
             ELSE links[t]]
        /\ Goto(r, "ok")
     \/ ~Usable(portal, m, row[r].email) /\ Goto(r, "failed") /\ UNCHANGED links
  /\ UNCHANGED <<portal, accounts, sessions, input, payload, row, tries>>

\* The link is compared with the time at which the request began, here and in
\* the batch: a link that expires in between is still redeemed.
SetupRead(r) ==
  /\ At(r, {"setup"}, "read")
  /\ LET t == input[r].token IN
       /\ links[t] # None
       /\ ~links[t].expired
       /\ row' = [row EXCEPT ![r] = Found(links[t].member, links[t].email, None)]
  /\ Goto(r, "check")
  /\ UNCHANGED <<portal, tables, input, payload, tries>>

SetupCheck(r) ==
  /\ At(r, {"setup"}, "check")
  /\ Usable(portal, row[r].member, row[r].email)
  /\ Goto(r, "commit")
  /\ UNCHANGED <<portal, tables, input, payload, row, tries>>

SetupRefused(r) ==
  \/ /\ At(r, {"setup"}, "read")
     /\ links[input[r].token] # None => links[input[r].token].expired
     /\ Reject(r)
  \/ At(r, {"setup"}, "check") /\ ~Usable(portal, row[r].member, row[r].email) /\ Reject(r)

Redeemable(t) == /\ links[t] # None
                 /\ links[t].consumed = None
                 /\ Usable(portal, links[t].member, links[t].email)

SessionsEnded(m) == [t \in Requests |->
  IF sessions[t] # None /\ sessions[t].member = m THEN None ELSE sessions[t]]

\* An address that belongs to another account fails the whole batch.
SetupCommit(r) ==
  /\ At(r, {"setup"}, "commit")
  /\ LET t == input[r].token
         m == links[t].member
         fits == Redeemable(t) /\ \A o \in Members \ {m} : ~Owns(o, links[t].email)
     IN
     \/ /\ fits
        /\ accounts' = [accounts EXCEPT ![m] = Credential(r, links[t].email)]
        /\ links' = [links EXCEPT ![t].consumed = r]
        /\ sessions' = SessionsEnded(row[r].member)
        /\ Goto(r, "ok")
     \/ ~fits /\ Goto(r, "failed") /\ UNCHANGED tables
  /\ UNCHANGED <<portal, input, payload, row, tries>>

-----------------------------------------------------------------------------
(* PUT /api/state *)

SaveRead(r) ==
  /\ At(r, {"save"}, "read")
  /\ payload' = [payload EXCEPT ![r] = portal]
  /\ Goto(r, "check")
  /\ UNCHANGED <<portal, tables, input, row, tries>>

\* What is to be written: a partner's save keeps the roster.
Result(r) ==
  LET members == IF input[r].token = None THEN input[r].members ELSE payload[r].members
  IN  [members |-> members, rest |-> input[r].rest,
       revision |-> IF members = payload[r].members THEN payload[r].revision
                    ELSE payload[r].revision + 1]

\* passwordCredentialEmailConflictForStateChange: a new address is in use.
Conflict(r) ==
  \E m, o \in Members :
    LET new == input[r].members[m]  old == payload[r].members[m] IN
    /\ new # None /\ (old # None => old.email # new.email)
    /\ Owns(o, new.email) /\ (old # None => o # m)

\* requirePortalUser on the payload that was read; for the administrator the
\* addresses are compared with the accounts.
Authorised(r) ==
  LET t == input[r].token IN
  IF t = None THEN ~Conflict(r)
  ELSE Live(t) /\ Active(payload[r], sessions[t].member, sessions[t].email)

\* A roster made on an older one, or anything on an older page, is a conflict,
\* unless it changes nothing.
SaveCheck(r) ==
  /\ At(r, {"save"}, "check")
  /\ LET t == input[r].token
         passes == Authorised(r) /\ (input[r].page = payload[r] \/ Result(r) = payload[r])
     IN
     \/ /\ passes
        /\ Goto(r, "commit")
        /\ row' = IF t = None THEN row
                  ELSE [row EXCEPT ![r] = Found(sessions[t].member, sessions[t].email, None)]
     \/ ~passes /\ Goto(r, "failed") /\ UNCHANGED row
  /\ UNCHANGED <<portal, tables, input, payload, tries>>

(* passwordAccessRevocationForStateChange: what goes with a change of the   *)
(* roster from p to q.                                                      *)
Moved(p, q, m) ==
  p.members[m] # None /\ (q.members[m] # None => q.members[m].email # p.members[m].email)

\* Variant: a suspension does not end the sessions.
SessionsKept(p, q, m) == Moved(p, q, m)
SessionsRevoked(p, q, m) ==
  Moved(p, q, m) \/ (p.members[m] # None /\ q.members[m].status # p.members[m].status)

\* Variant: nor does it take back the links.
LinksKept(p, q, m) == Moved(p, q, m)
LinksRevoked(p, q, m) ==
  \/ Moved(p, q, m)
  \/ p.members[m] # None /\ "suspended" \in {p.members[m].status, q.members[m].status}

\* Variant: a credential outlives its member.
AccountsKept(p, q, m) == Moved(p, q, m) /\ q.members[m] # None
AccountsRevoked(p, q, m) == Moved(p, q, m)

Revoke(p, q) ==
  /\ sessions' = [t \in Requests |->
       IF sessions[t] # None /\ SessionsRevoked(p, q, sessions[t].member) THEN None ELSE sessions[t]]
  /\ links' = [t \in Requests |->
       IF links[t] # None /\ LinksRevoked(p, q, links[t].member) THEN None ELSE links[t]]
  /\ accounts' = [m \in Members |->
       IF AccountsRevoked(p, q, m) THEN None ELSE accounts[m]]

\* One batch.  An unchanged payload is not written and not compared either.
SaveCommit(r) ==
  /\ At(r, {"save"}, "commit")
  /\ \/ /\ Unchanged(r)
        /\ portal' = Result(r)
        /\ IF input[r].token = None THEN Revoke(payload[r], Result(r)) ELSE UNCHANGED tables
        /\ Goto(r, "ok") /\ UNCHANGED tries
     \/ /\ ~Unchanged(r) /\ Result(r) = payload[r]
        /\ Goto(r, "ok") /\ UNCHANGED <<portal, tables, tries>>
     \/ /\ ~Unchanged(r) /\ Result(r) # payload[r]
        /\ Retry(r) /\ UNCHANGED <<portal, tables>>
  /\ UNCHANGED <<input, payload, row>>

-----------------------------------------------------------------------------
SessionExpires(t) ==
  /\ sessions[t] # None /\ ~sessions[t].expired
  /\ sessions' = [sessions EXCEPT ![t].expired = TRUE]
  /\ UNCHANGED <<portal, accounts, links, own>>

LinkExpires(t) ==
  /\ links[t] # None /\ ~links[t].expired
  /\ links' = [links EXCEPT ![t].expired = TRUE]
  /\ UNCHANGED <<portal, accounts, sessions, own>>

Asks(r)  == \/ AskRegister(r) \/ AskAdd(r) \/ AskLogin(r) \/ AskLogout(r)
            \/ AskLink(r) \/ AskSetup(r) \/ AskSave(r)
Steps(r) == \/ JoinRead(r) \/ JoinCheck(r) \/ JoinRefused(r) \/ RegisterCommit(r) \/ AddCommit(r)
            \/ LoginRead(r) \/ LoginCheck(r) \/ LoginRefused(r) \/ LoginCommit(r) \/ Logout(r)
            \/ LinkRead(r) \/ LinkRefused(r) \/ LinkCommit(r)
            \/ SetupRead(r) \/ SetupCheck(r) \/ SetupRefused(r) \/ SetupCommit(r)
            \/ SaveRead(r) \/ SaveCheck(r) \/ SaveCommit(r)

\* Every request has been answered, and no further one is made.
Idle == /\ \A r \in Requests : pc[r] \in {"new", "ok", "failed"}
        /\ UNCHANGED vars

Next == \/ \E r \in Requests : Asks(r) \/ Steps(r) \/ SessionExpires(r) \/ LinkExpires(r)
        \/ Idle

Spec == Init /\ [][Next]_vars

-----------------------------------------------------------------------------
(* What access rests on *)

\* A credential belongs to a member at that member's own address, and an
\* address to one member: registerPassword, setupPassword and the revocations
\* of PUT /api/state keep three stores in step without locking them.
AccountsFollowRoster ==
  /\ Unambiguous(portal.members)
  /\ \A m \in Members : accounts[m] # None =>
       portal.members[m] # None /\ portal.members[m].email = accounts[m].email

\* No session is left of a member who was suspended, deleted or moved, not even
\* by a login that read the roster before: loginPassword against PUT /api/state.
SessionsAreOfActiveMembers ==
  \A t \in Requests : sessions[t] # None =>
    Active(portal, sessions[t].member, sessions[t].email)

\* Whoever holds a session knew the password in force: a reset ends the others,
\* and a login that overlaps it fails (loginPassword against setupPassword).
SessionsKnowThePassword ==
  \A t \in Requests : sessions[t] # None =>
    /\ Owns(sessions[t].member, input[t].email)
    /\ accounts[sessions[t].member].password = input[t].password

\* An unused link is the only one of its member, who may use it: createPasswordLink
\* against itself and against a suspension or change of address.
LinksAreUsable ==
  \A t \in Requests : links[t] # None /\ links[t].consumed = None =>
    /\ Usable(portal, links[t].member, links[t].email)
    /\ \A o \in Requests \ {t} : links[o] # None => links[o].member # links[t].member

\* Of all the requests with one link at most one sets a password: setupPassword.
LinksAreUsedOnce ==
  \A r, s \in Requests :
    /\ pc[r] = "ok" /\ input[r].kind = "setup"
    /\ pc[s] = "ok" /\ input[s].kind = "setup"
    /\ input[r].token = input[s].token
    => r = s

\* What a partner saves is written while the account is still active: a save
\* authorised before a suspension does not follow it (mutatePortalState).
SavedBy(r) == At(r, {"save"}, "commit") /\ input[r].token # None /\ pc'[r] = "ok" /\ portal' # portal
RevokedNeverSave ==
  [][\A r \in Requests : SavedBy(r) => Active(portal, row[r].member, row[r].email)]_vars

\* Why these hold.  A version stands for one password, ...
Secret(v) == IF v \in Founders THEN First ELSE input[v].password
Made(v)   == v \in Founders \/ (pc[v] = "ok" /\ input[v].kind \in {"register", "setup"})
VersionsAreSecrets ==
  \A m \in Members : accounts[m] # None =>
    Made(accounts[m].version) /\ accounts[m].password = Secret(accounts[m].version)

\* ... a session is of the version that its login was given the password of, ...
SessionsFollowAccounts ==
  \A t \in Requests : sessions[t] # None =>
    /\ pc[t] = "ok" /\ input[t].kind = "login"
    /\ Active(portal, sessions[t].member, sessions[t].email)
    /\ accounts[sessions[t].member] # None
    /\ accounts[sessions[t].member].version = sessions[t].version
    /\ sessions[t].email = input[t].email
    /\ Secret(sessions[t].version) = input[t].password

\* ... an id or token is there after its request only, ...
IdsAreFresh ==
  /\ \A r \in Requests : portal.members[r] # None => pc[r] = "ok" /\ input[r].kind \in Joins
  /\ \A t \in Requests : links[t] # None => pc[t] = "ok" /\ input[t].kind = "link"
  /\ \A r \in Requests : pc[r] # "new" /\ input[r].kind = "setup" =>
       /\ pc[input[r].token] = "ok"
       /\ pc[r] = "ok" /\ links[input[r].token] # None => links[input[r].token].consumed # None

\* ... and a request keeps what it read until its batch compares it.
Reads(r) ==
  /\ At(r, {"login"}, "check") \/ At(r, {"login"}, "commit") =>
       /\ row[r] # None /\ row[r].email = input[r].email /\ row[r].version # None
       /\ Made(row[r].version) /\ Secret(row[r].version) = input[r].password
  /\ At(r, {"link"}, "commit") => row[r] # None
  /\ At(r, {"setup"}, "check") \/ At(r, {"setup"}, "commit") =>
       /\ row[r] # None
       /\ links[input[r].token] # None => links[input[r].token].member = row[r].member
  /\ At(r, Joins, "check") \/ At(r, Joins, "commit") =>
       payload[r] # None /\ ~Taken(payload[r], input[r].email)
  /\ pc[r] # "new" /\ input[r].kind = "save" =>
       /\ Unambiguous(input[r].members)
       /\ \A m \in Members : input[r].members[m] # None => input[r].page.members[m] # None
  /\ At(r, {"save"}, "check") => payload[r] # None
  /\ At(r, {"save"}, "commit") =>
       /\ payload[r] # None
       /\ input[r].page = payload[r] \/ Result(r) = payload[r]
       /\ input[r].token # None =>
            row[r] # None /\ Active(payload[r], row[r].member, row[r].email)

IInv ==
  /\ TypeOK
  /\ AccountsFollowRoster
  /\ VersionsAreSecrets
  /\ SessionsFollowAccounts
  /\ LinksAreUsable
  /\ LinksAreUsedOnce
  /\ IdsAreFresh
  /\ \A r \in Requests : Reads(r)

\* Every request takes effect in one step, on the accounts as they are then.
Access == INSTANCE AccountAccess WITH
  Tokens     <- Requests,
  roster     <- portal.members,
  credential <- [m \in Members |-> IF accounts[m] = None THEN None ELSE accounts[m].password],
  open       <- [t \in Requests |-> IF links[t] = None THEN None
                                    ELSE IF links[t].consumed = None THEN links[t].member ELSE None],
  signed     <- [t \in Requests |-> IF sessions[t] = None THEN None ELSE sessions[t].member]

ImplementsAccountAccess == Access!Spec
=============================================================================
