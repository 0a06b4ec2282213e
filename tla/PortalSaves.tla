----------------------------- MODULE PortalSaves -----------------------------
(***************************************************************************)
(* The save queues of the open pages and the portal document they save.    *)
(*                                                                         *)
(* Every open page of the portal holds the part of the portal document its *)
(* user may see, edits it on the screen, and saves all of it: a queue      *)
(* (lib/portal-save-queue.ts) waits for a pause, has at most one save on   *)
(* its way, and stops at a failure until the user asks for it again.  The  *)
(* server (PUT /api/state) merges what it is sent into the document by the *)
(* role of the user, lets the consulting flows and the lifecycle overrule  *)
(* it, compares the revision the page started from with the document's,    *)
(* and writes by compare-and-swap.  Answers may be lost, and a save whose  *)
(* answer was lost may still be carried out, at any later time.            *)
(*                                                                         *)
(* The document is its cases; a case is the fields that different actors   *)
(* write.  A revision is a digest of the document, modelled as the         *)
(* document itself: a document that returns to an earlier content returns  *)
(* to its revision.  An application enters the document with the save of   *)
(* the page that submits it, and only while its draft is the one that was  *)
(* submitted: another window of its author may save the draft anew or      *)
(* discard it.  Who may use the portal at all is PasswordAccess.           *)
(***************************************************************************)
EXTENDS Integers, FiniteSets

CONSTANTS
  Pages,        \* the open pages
  Admin,        \* the administrator
  Partners,     \* the partner accounts
  UserOf,       \* the user of each page
  Cases,        \* case ids
  FirstOwner,   \* the cases of the first document, with the partner of each
  DraftOf,      \* the other cases: the page that submits the application
  MaxStage,     \* stages are 1 .. MaxStage; a case starts at 1
  Attempts,     \* rounds of the compare-and-swap, 4 in the code
  MaxEdits,     \* bound: edits on the screens
  MaxMoves,     \* bound: steps of consulting flows
  MaxEvents,    \* bound: answers lost and refreshes asked for, together
  None

FirstCases == DOMAIN FirstOwner

ASSUME PortalSavesAssumption ==
  /\ Admin \notin Partners
  /\ UserOf \in [Pages -> Partners \cup {Admin}]
  /\ FirstCases \subseteq Cases
  /\ FirstOwner \in [FirstCases -> Partners]
  /\ DraftOf \in [Cases \ FirstCases -> Pages]
  /\ MaxStage \in Nat \ {0}
  /\ Attempts \in Nat \ {0}
  /\ MaxEdits \in Nat /\ MaxMoves \in Nat /\ MaxEvents \in Nat
  /\ Pages \cap Nat = {}

(***************************************************************************)
(* Data.  "step" stands for the fields an edit of the stage writes beside  *)
(* it (nextAction, updatedAt, idleDays).  A case just submitted has no     *)
(* lifecycle on the page that submitted it: "unset".                       *)
(***************************************************************************)
Stages == 1 .. MaxStage
Record == [stage : Stages, step : Stages, life : {"unset", "active", "discontinued"},
           owner : Partners, managed : BOOLEAN]
Content == UNION {[ids -> Record] : ids \in SUBSET Cases}
Flow == [stage : Stages, owner : Partners]
Flows == [Cases -> Flow \cup {None}]
NoFlows == [c \in Cases |-> None]

\* A save on its way: "known" is what its page had last loaded or had saved
\* when it sent it; "base" is the document read and, once it is accepted, the
\* document whose revision the answer carries.
Request == [page : Pages, ifMatch : Content, body : Content, known : Content,
            at : {"sent", "read", "ok", "refused"}, base : Content \cup {None},
            seen : Flows, tries : 0 .. Attempts]
Slots == Pages \cup 1 .. MaxEvents   \* a page's own save; saves it gave up on

ASSUME NoneAssumption == None \notin Content /\ None \notin Request /\ None \notin Flow

VARIABLES
  doc,        \* the portal document
  flow,       \* the consulting flow of each case
  revised,    \* drafts saved anew or discarded since they were submitted
  latest,     \* page -> what is on the screen
  confirmed,  \* page -> what its queue takes for saved, None after a failure
  timer,      \* page -> a save is scheduled
  flight,     \* page -> no save, one on its way, or one ended and not cleaned up
  failed,     \* page -> the last save failed
  rev,        \* page -> the revision it sends with the next save
  known,      \* page -> the content it loaded or had acknowledged with rev
  calls,      \* slot -> the save on its way
  copy,       \* page -> the answer to a refresh, not applied yet
  submitted,  \* cases whose application was submitted
  chosen,     \* case -> the lifecycle the administrator chose last
  edits, moves, copies, faults   \* what the bounds count

storeVars == <<doc, flow, revised>>
queueVars == <<latest, confirmed, timer, flight, failed>>
boundVars == <<edits, moves, copies, faults>>
vars == <<doc, flow, revised, latest, confirmed, timer, flight, failed, rev, known, calls, copy,
          submitted, chosen, edits, moves, copies, faults>>

-----------------------------------------------------------------------------
(***************************************************************************)
(* What the server makes of a document and of a save.                      *)
(***************************************************************************)
\* A flow decides the stage, the next step and the partner of its case.
Project(content, flows) ==
  [c \in DOMAIN content |->
     IF flows[c] = None THEN [content[c] EXCEPT !.managed = FALSE]
     ELSE [content[c] EXCEPT !.stage = flows[c].stage, !.step = flows[c].stage,
                             !.owner = flows[c].owner, !.managed = TRUE]]

\* A partner sees the cases assigned to it.
View(content, user) ==
  [c \in {d \in DOMAIN content : user = Admin \/ content[d].owner = user} |-> content[c]]

\* The administrator's save replaces the cases.  A partner's replaces those the
\* document assigns to the partner, and adds those the document does not have.
\* (The code first drops cases the body assigns to somebody else; a partner's
\* page has none.)
Merge(user, base, body) ==
  IF user = Admin THEN body
  ELSE [c \in DOMAIN base \cup DOMAIN body |->
          IF c \in DOMAIN base /\ (c \notin DOMAIN body \/ base[c].owner # user)
          THEN base[c] ELSE [body[c] EXCEPT !.owner = user]]

\* Only the administrator discontinues or reopens a case, and while it stays
\* discontinued its stage stays; a new case starts active, at the first stage.
Lifecycle(user, stored, want) ==
  LET life == IF user = Admin /\ want.life # "unset" THEN want.life ELSE stored.life
  IN  [want EXCEPT !.life = life,
                   !.stage = IF stored.life = "discontinued" /\ life = "discontinued"
                             THEN stored.stage ELSE @]

NewLifecycle(want) == [want EXCEPT !.life = "active", !.stage = 1]

Protect(user, stored, merged) ==
  [c \in DOMAIN merged |-> IF c \in DOMAIN stored THEN Lifecycle(user, stored[c], merged[c])
                           ELSE NewLifecycle(merged[c])]

\* The document a save asks for.  The flows are read twice: with the document,
\* and once more after the merge.
NextDocument(r, flows) ==
  LET stored == Project(r.base, r.seen)
      user   == UserOf[r.page]
  IN  Protect(user, stored, Project(Merge(user, stored, r.body), flows))

-----------------------------------------------------------------------------
(***************************************************************************)
(* The queue of a page.                                                    *)
(***************************************************************************)
\* update(): the screen shows a new content.  A save on its way is waited for,
\* a failed one is not repeated by itself.
Update(p, content) ==
  IF content = latest[p] THEN UNCHANGED <<latest, timer, failed>>
  ELSE /\ latest' = [latest EXCEPT ![p] = content]
       /\ timer' = [timer EXCEPT ![p] = /\ flight[p] = "none"
                                        /\ content # confirmed[p]
                                        /\ ~failed[p]]
       /\ failed' = [failed EXCEPT ![p] = @ /\ ~(flight[p] = "none" /\ content = confirmed[p])]

Unsaved(p) == flight[p] # "none" \/ latest[p] # confirmed[p]

NewRequest(p, revision, base) ==
  [page |-> p, ifMatch |-> revision, body |-> latest[p], known |-> base,
   at |-> "sent", base |-> None, seen |-> NoFlows, tries |-> 0]

\* From its submission until it is acknowledged an application locks the page.
Locked(p) == ~(DOMAIN latest[p] \subseteq DOMAIN known[p])

\* An edit on the screen.
Edit(p, content) ==
  /\ ~Locked(p)
  /\ edits < MaxEdits /\ edits' = edits + 1
  /\ Update(p, content)
  /\ UNCHANGED <<storeVars, confirmed, flight, rev, known, calls, copy, moves, copies, faults>>

EditStage(p, c, s) ==
  /\ ~latest[p][c].managed /\ latest[p][c].life # "discontinued" /\ latest[p][c].stage # s
  /\ Edit(p, [latest[p] EXCEPT ![c].stage = s, ![c].step = s])
  /\ UNCHANGED <<submitted, chosen>>

EditOwner(p, c, o) ==
  /\ UserOf[p] = Admin /\ ~latest[p][c].managed /\ latest[p][c].owner # o
  /\ Edit(p, [latest[p] EXCEPT ![c].owner = o])
  /\ UNCHANGED <<submitted, chosen>>

EditLife(p, c) ==
  /\ UserOf[p] = Admin /\ latest[p][c].life # "unset"
  /\ LET life == IF latest[p][c].life = "active" THEN "discontinued" ELSE "active"
     IN  /\ Edit(p, [latest[p] EXCEPT ![c].life = life])
         /\ chosen' = [chosen EXCEPT ![c] = life]
  /\ UNCHANGED submitted

\* An application: the case of a draft, added by the page that submits it once
\* everything else is saved.
Submit(p, c, o) ==
  /\ ~Unsaved(p)
  /\ c \in DOMAIN DraftOf /\ DraftOf[c] = p /\ c \notin submitted
  /\ UserOf[p] \in {Admin, o}
  /\ Edit(p, [d \in DOMAIN latest[p] \cup {c} |->
                IF d # c THEN latest[p][d]
                ELSE [stage |-> 1, step |-> 1, life |-> "unset", owner |-> o, managed |-> FALSE]])
  /\ submitted' = submitted \cup {c}
  /\ UNCHANGED chosen

\* flush() and the first round of drain().
StartSave(p) ==
  /\ flight[p] = "none" /\ latest[p] # confirmed[p]
  /\ timer' = [timer EXCEPT ![p] = FALSE]
  /\ failed' = [failed EXCEPT ![p] = FALSE]
  /\ flight' = [flight EXCEPT ![p] = "sending"]
  /\ calls' = [calls EXCEPT ![p] = NewRequest(p, rev[p], known[p])]
  /\ UNCHANGED <<storeVars, latest, confirmed, rev, known, copy, submitted, chosen, boundVars>>

TimerFires(p) == timer[p] /\ StartSave(p)
SaveAgain(p)  == failed[p] /\ StartSave(p)

\* Variant: what is on the screen is taken for saved.
AcknowledgedLatest(p) ==
  /\ calls[p] # None /\ calls[p].at = "ok"
  /\ confirmed' = [confirmed EXCEPT ![p] = latest[p]]
  /\ known' = [known EXCEPT ![p] = latest[p]]
  /\ rev' = [rev EXCEPT ![p] = calls[p].base]
  /\ calls' = [calls EXCEPT ![p] = None]
  /\ flight' = [flight EXCEPT ![p] = "closing"]
  /\ UNCHANGED <<storeVars, latest, timer, failed, copy, submitted, chosen, boundVars>>

\* An acknowledgement: what was sent is saved, with a new revision; what was
\* edited meanwhile is sent at once.
Acknowledged(p) ==
  /\ calls[p] # None /\ calls[p].at = "ok"
  /\ LET r == calls[p] IN
       /\ confirmed' = [confirmed EXCEPT ![p] = r.body]
       /\ known' = [known EXCEPT ![p] = r.body]
       /\ rev' = [rev EXCEPT ![p] = r.base]
       /\ IF latest[p] # r.body
          THEN /\ calls' = [calls EXCEPT ![p] = NewRequest(p, r.base, r.body)]
               /\ UNCHANGED flight
          ELSE /\ calls' = [calls EXCEPT ![p] = None]
               /\ flight' = [flight EXCEPT ![p] = "closing"]
  /\ UNCHANGED <<storeVars, latest, timer, failed, copy, submitted, chosen, boundVars>>

\* Variant: a failure is not shown, and the save is repeated at once.
FailAndRepeat(p) ==
  /\ confirmed' = [confirmed EXCEPT ![p] = None]
  /\ flight' = [flight EXCEPT ![p] = "closing"]
  /\ UNCHANGED <<storeVars, latest, timer, failed, rev, known, copy, submitted, chosen, edits, moves, copies>>

\* A failure: nothing is taken for saved until a save is confirmed again.
Fail(p) ==
  /\ failed' = [failed EXCEPT ![p] = TRUE]
  /\ confirmed' = [confirmed EXCEPT ![p] = None]
  /\ flight' = [flight EXCEPT ![p] = "closing"]
  /\ UNCHANGED <<storeVars, latest, timer, rev, known, copy, submitted, chosen, edits, moves, copies>>

\* The server refused the save.
Refused(p) ==
  /\ calls[p] # None /\ calls[p].at = "refused"
  /\ calls' = [calls EXCEPT ![p] = None]
  /\ Fail(p) /\ UNCHANGED faults

\* The answer is lost, whatever the server has done and whatever it will do.
AnswerLost(p) ==
  /\ calls[p] # None /\ faults + copies < MaxEvents
  /\ faults' = faults + 1
  /\ calls' = [calls EXCEPT ![p] = None,
                            ![faults + 1] = IF calls[p].at \in {"sent", "read"} THEN calls[p] ELSE None]
  /\ Fail(p)

\* The end of flush(): an edit that arrived since the last answer is scheduled.
Cleanup(p) ==
  /\ flight[p] = "closing"
  /\ flight' = [flight EXCEPT ![p] = "none"]
  /\ timer' = [timer EXCEPT ![p] = @ \/ (~failed[p] /\ latest[p] # confirmed[p])]
  /\ UNCHANGED <<storeVars, latest, confirmed, failed, rev, known, calls, copy, submitted, chosen, boundVars>>

\* The page is opened again; what was not saved is given up.
Reload(p) ==
  /\ flight[p] = "none"
  /\ LET shown == View(Project(doc, flow), UserOf[p]) IN
       /\ latest' = [latest EXCEPT ![p] = shown]
       /\ confirmed' = [confirmed EXCEPT ![p] = shown]
       /\ known' = [known EXCEPT ![p] = shown]
  /\ rev' = [rev EXCEPT ![p] = doc]
  /\ timer' = [timer EXCEPT ![p] = FALSE]
  /\ failed' = [failed EXCEPT ![p] = FALSE]
  /\ copy' = [copy EXCEPT ![p] = None]
  /\ UNCHANGED <<storeVars, flight, calls, submitted, chosen, boundVars>>

(***************************************************************************)
(* The refresh after a command of a consulting flow: a copy of the         *)
(* document is read, and of the cases a flow manages it replaces what is   *)
(* on the screen.  A later refresh makes an earlier one void.              *)
(***************************************************************************)
ReadCopy(p) ==
  /\ faults + copies < MaxEvents /\ copies' = copies + 1
  /\ copy' = [copy EXCEPT ![p] = View(Project(doc, flow), UserOf[p])]
  /\ UNCHANGED <<storeVars, queueVars, rev, known, calls, submitted, chosen, edits, moves, faults>>

ApplyCopy(p) ==
  /\ copy[p] # None
  /\ Update(p, [c \in DOMAIN latest[p] |->
                  IF c \in DOMAIN copy[p] /\ copy[p][c].managed THEN copy[p][c] ELSE latest[p][c]])
  /\ copy' = [copy EXCEPT ![p] = None]
  /\ UNCHANGED <<storeVars, confirmed, flight, rev, known, calls, submitted, chosen, boundVars>>

-----------------------------------------------------------------------------
(***************************************************************************)
(* The server.  A save reads the document and the flows, and in a second   *)
(* step the flows again and the document by compare-and-swap.              *)
(***************************************************************************)
Answer(r, at, base) == [r EXCEPT !.at = at, !.base = base, !.seen = NoFlows]

\* Variant: the write does not ask for the draft.
Unguarded(r) == TRUE

\* The drafts of the applications a save adds are what was submitted.  It is
\* asked when the document is read, and by the statement that writes.
DraftStands(r, stored) == (DOMAIN r.body \ DOMAIN stored) \cap revised = {}
DraftGuard(r) == DraftStands(r, r.base)

ReadDocument(i) ==
  /\ calls[i] # None /\ calls[i].at = "sent"
  /\ LET r == calls[i] IN
       calls' = [calls EXCEPT ![i] =
                   IF DraftStands(r, doc)
                   THEN [r EXCEPT !.at = "read", !.base = doc, !.seen = flow]
                   ELSE Answer(r, "refused", None)]
  /\ UNCHANGED <<storeVars, queueVars, rev, known, copy, submitted, chosen, boundVars>>

\* Variant: the revision is not compared.
RevisionIgnored(r) == FALSE

\* A page that started from another revision is refused, unless its save
\* changes nothing.
StaleRevision(r) == r.ifMatch # r.base

Outcome(i, next) ==
  LET r == calls[i]
      set(new) == calls' = [calls EXCEPT ![i] = new]
  IN  \/ /\ StaleRevision(r) /\ next # r.base
         /\ set(Answer(r, "refused", None)) /\ UNCHANGED doc
      \/ /\ next = r.base
         /\ set(Answer(r, "ok", r.base)) /\ UNCHANGED doc
      \/ /\ ~StaleRevision(r) /\ next # r.base /\ doc = r.base /\ DraftGuard(r)
         /\ set(Answer(r, "ok", next)) /\ doc' = next
      \/ /\ ~StaleRevision(r) /\ next # r.base /\ ~(doc = r.base /\ DraftGuard(r))
         /\ IF r.tries + 1 < Attempts
            THEN set([Answer(r, "sent", None) EXCEPT !.tries = @ + 1])
            ELSE set(Answer(r, "refused", None))
         /\ UNCHANGED doc

Save(i) ==
  /\ calls[i] # None /\ calls[i].at = "read"
  /\ Outcome(i, NextDocument(calls[i], flow))
  /\ UNCHANGED <<flow, revised, queueVars, rev, known, copy, submitted, chosen, boundVars>>

ServerStep(i) == ReadDocument(i) \/ Save(i)

\* A command of a consulting flow, which opens the flow or takes it to another
\* stage; refused while the case is discontinued (FlowCommit).
FlowMoves(c, s) ==
  /\ moves < MaxMoves /\ moves' = moves + 1
  /\ c \in DOMAIN doc /\ doc[c].life # "discontinued"
  /\ flow[c] # None => flow[c].stage # s
  /\ flow' = [flow EXCEPT ![c] =
                [stage |-> s, owner |-> IF flow[c] = None THEN doc[c].owner ELSE flow[c].owner]]
  /\ UNCHANGED <<doc, revised, queueVars, rev, known, calls, copy, submitted, chosen, edits, copies, faults>>

\* Another window of its author saves a submitted draft anew or discards it,
\* whatever has become of the application: the state that tells it was
\* accepted is read before the draft is written.
ReviseDraft(c) ==
  /\ edits < MaxEdits /\ edits' = edits + 1
  /\ c \in submitted \ revised
  /\ revised' = revised \cup {c}
  /\ UNCHANGED <<doc, flow, queueVars, rev, known, calls, copy, submitted, chosen, moves, copies, faults>>

-----------------------------------------------------------------------------
FirstDocument ==
  [c \in FirstCases |-> [stage |-> 1, step |-> 1, life |-> "active",
                         owner |-> FirstOwner[c], managed |-> FALSE]]

\* Every page has loaded the first document.
Init ==
  /\ doc = FirstDocument /\ flow = NoFlows /\ revised = {}
  /\ latest = [p \in Pages |-> View(FirstDocument, UserOf[p])]
  /\ confirmed = latest /\ known = latest
  /\ timer = [p \in Pages |-> FALSE] /\ failed = timer
  /\ flight = [p \in Pages |-> "none"]
  /\ rev = [p \in Pages |-> FirstDocument]
  /\ calls = [i \in Slots |-> None]
  /\ copy = [p \in Pages |-> None]
  /\ submitted = {}
  /\ chosen = [c \in Cases |-> "active"]
  /\ edits = 0 /\ moves = 0 /\ copies = 0 /\ faults = 0

UserEdits(p) ==
  \/ \E c \in DOMAIN latest[p] :
       \/ \E s \in Stages : EditStage(p, c, s)
       \/ \E o \in Partners : EditOwner(p, c, o)
       \/ EditLife(p, c)
  \/ \E c \in Cases, o \in Partners : Submit(p, c, o)

PageStep(p) ==
  \/ UserEdits(p)
  \/ TimerFires(p) \/ SaveAgain(p)
  \/ Acknowledged(p) \/ Refused(p) \/ AnswerLost(p) \/ Cleanup(p)
  \/ Reload(p) \/ ReadCopy(p) \/ ApplyCopy(p)

Next ==
  \/ \E p \in Pages : PageStep(p)
  \/ \E i \in Slots : ServerStep(i)
  \/ \E c \in Cases, s \in Stages : FlowMoves(c, s)
  \/ \E c \in Cases : ReviseDraft(c)

Spec == Init /\ [][Next]_vars

\* A timer fires, a request that is on its way is answered, and what awaits an
\* answer continues; nobody has to press a button, and a save whose answer was
\* lost need not be carried out.
FairSpec ==
  /\ Spec
  /\ \A p \in Pages : /\ WF_vars(TimerFires(p)) /\ WF_vars(ServerStep(p))
                      /\ WF_vars(Acknowledged(p)) /\ WF_vars(Refused(p)) /\ WF_vars(Cleanup(p))

-----------------------------------------------------------------------------
(***************************************************************************)
(* Properties                                                              *)
(***************************************************************************)
\* Every variable keeps its type; a page has a save on its way exactly while
\* its queue waits for one, and that save is its own.
TypeOK ==
  /\ doc \in Content /\ flow \in Flows
  /\ latest \in [Pages -> Content] /\ confirmed \in [Pages -> Content \cup {None}]
  /\ timer \in [Pages -> BOOLEAN] /\ failed \in [Pages -> BOOLEAN]
  /\ flight \in [Pages -> {"none", "sending", "closing"}]
  /\ rev \in [Pages -> Content] /\ known \in [Pages -> Content]
  /\ calls \in [Slots -> Request \cup {None}]
  /\ \A p \in Pages : /\ calls[p] # None <=> flight[p] = "sending"
                      /\ calls[p] # None => calls[p].page = p
  /\ copy \in [Pages -> Content \cup {None}]
  /\ submitted \subseteq DOMAIN DraftOf /\ revised \subseteq submitted
  /\ chosen \in [Cases -> {"active", "discontinued"}]
  /\ edits \in 0 .. MaxEdits /\ moves \in 0 .. MaxMoves
  /\ copies \in 0 .. MaxEvents /\ faults \in 0 .. MaxEvents /\ faults + copies <= MaxEvents

\* A page's record of a case says what the document says of it, as far as the
\* user may decide it: not the stage of a case that a flow manages or that is
\* discontinued, not the partner of a managed case, and, for a partner, not
\* the lifecycle and nothing of a case assigned to another partner.
Managed(mine, stored) == mine.managed \/ stored.managed
SameStage(mine, stored) ==
  Managed(mine, stored) \/ (/\ mine.step = stored.step
                            /\ stored.life = "discontinued" \/ mine.stage = stored.stage)
SameLife(mine, stored)  == mine.life \in {"unset", stored.life}
SameOwner(mine, stored) == Managed(mine, stored) \/ mine.owner = stored.owner

Agree(user, mine, stored) ==
  /\ user = Admin => DOMAIN mine = DOMAIN stored
  /\ \A c \in DOMAIN mine :
       /\ c \in DOMAIN stored
       /\ user \in {Admin, stored[c].owner} => SameStage(mine[c], stored[c])
       /\ user = Admin => SameLife(mine[c], stored[c]) /\ SameOwner(mine[c], stored[c])

Saved(p) == ~Unsaved(p) /\ ~failed[p]

\* What a page shows as saved was saved: once its queue has settled, the
\* document whose revision the page holds says what the screen says, through
\* lost answers, retries, and saves that were accepted because they change
\* nothing.  (lib/portal-save-queue.ts, drain; app/api/state/route.ts, PUT)
SavedMeansStored == \A p \in Pages : Saved(p) => Agree(UserOf[p], latest[p], rev[p])

\* The user's edit of a case is not lost without a word: the same for every
\* case on the screen of a partner, whoever it is assigned to by now.
\* (app/page.tsx: a settled queue is shown as saved in the database)
SavedEditsAreStored ==
  \A p \in Pages : Saved(p) =>
    \A c \in DOMAIN latest[p] : /\ c \in DOMAIN rev[p]
                                /\ SameStage(latest[p][c], rev[p][c])

\* A step of the server that changes the document on behalf of a save.
Commits(i) == doc' # doc /\ calls[i] # None /\ calls'[i] # calls[i]

\* No save overwrites what its page has not seen: it drops no case, and where
\* it changes the stage, the lifecycle or the partner of a case, the page had
\* loaded, or had had acknowledged, the value it replaces.  So it is for saves
\* that are carried out long after the page gave them up.
NoBlindOverwrite ==
  [][\A i \in Slots : Commits(i) =>
       LET seenBy == calls[i].known IN
       /\ DOMAIN doc \subseteq DOMAIN doc'
       /\ \A c \in DOMAIN doc :
            /\ ~doc'[c].managed /\ doc'[c].step # doc[c].step =>
                 c \in DOMAIN seenBy /\ SameStage(seenBy[c], doc[c])
            /\ doc'[c].life # doc[c].life =>
                 c \in DOMAIN seenBy /\ SameLife(seenBy[c], doc[c])
            /\ ~doc'[c].managed /\ doc'[c].owner # doc[c].owner =>
                 c \in DOMAIN seenBy /\ SameOwner(seenBy[c], doc[c])]_vars

\* An application enters the document only as its draft was submitted: a draft
\* saved anew or discarded after that, also while the save is being merged or
\* long after its page gave it up, keeps it out.
\* (lib/portal-state.ts: mutatePortalState, the guard of the write)
DraftsEnterUnrevised == [][DOMAIN doc' \cap revised \subseteq DOMAIN doc]_vars

\* A case is discontinued or reopened only as the administrator last chose.
LifeIsChosen ==
  [][\A c \in DOMAIN doc \cap DOMAIN doc' :
       doc'[c].life # doc[c].life => doc'[c].life = chosen[c]]_vars

\* No edit is stranded: what is not saved is on its way, scheduled, or shown
\* as failed, also when it arrives between the last answer and the cleanup.
NoStrandedEdit ==
  \A p \in Pages : Unsaved(p) => timer[p] \/ flight[p] # "none" \/ failed[p]

\* Every edit settles: it is saved, or shown as failed.
EditsSettle == \A p \in Pages : Unsaved(p) ~> (~Unsaved(p) \/ failed[p])
=============================================================================
