---------------------------- MODULE StepZeroRuns ----------------------------
(***************************************************************************)
(* Step 0 of the AI diagnosis: one paid call to the provider for a consent  *)
(* that the administrator gives in a window (app/page.tsx), through the     *)
(* POST of app/api/ai-diagnosis/step-zero/route.ts, with the ledger of      *)
(* lib/ai-diagnosis.ts that claims, completes and fails a run.              *)
(*                                                                         *)
(* A request id is named by the first post that carries it, since a window  *)
(* draws a new UUID for it.  The text that is sent is represented by the    *)
(* consent given for it: an edit of the text takes the consent back.        *)
(***************************************************************************)
EXTENDS Integers

CONSTANTS
  Windows,      \* windows of the administrator
  Cases,
  Posts,        \* POST requests
  Models,       \* values of ANTHROPIC_MODEL
  Stale,        \* STEP_ZERO_PENDING_STALE_MS
  Timeout,      \* STEP_ZERO_REQUEST_TIMEOUT_MS
  MaxTime,      \* bound of the clock
  MaxConsents,  \* bound of the consents given
  None

ASSUME TimeAssumption == Stale \in Nat /\ Timeout \in Nat /\ MaxTime \in Nat /\ MaxConsents \in Nat

Page == [case : Cases, consent : 0..MaxConsents, id : Posts \cup {None}, busy : BOOLEAN]
Working == {"claimed", "calling", "answered", "saving"}
At == {"sent", "expire", "insert", "look", "failing", "done", "refused", "cut"} \cup Working
Post == [window : Windows, case : Cases, consent : 1..MaxConsents, id : Posts, at : At,
         waiting : BOOLEAN, called : BOOLEAN, stamp : Nat, model : Models, until : Nat]
Run == [state : {"pending", "done", "failed"}, case : Cases, consent : 1..MaxConsents,
        model : Models, created : Nat]

ASSUME NoneAssumption ==
  /\ None \notin Posts /\ None \notin Post /\ None \notin Run
  /\ Models # {}

VARIABLES
  now,       \* the clock
  model,     \* ANTHROPIC_MODEL of the deployment
  eligible,  \* what stepZeroPreflight and requirePortalUser say of a case
  page,      \* the form of a window
  consents,  \* consents given so far
  post,      \* the requests, and where their handlers are
  run,       \* the rows of ai_diagnosis_runs
  lapsed     \* answered posts whose case was not eligible since the answer (history)

env == <<now, model, eligible>>
vars == <<now, model, eligible, page, consents, post, run, lapsed>>

\* Clocks, consents, windows, requests and rows are what they are declared to be.
TypeOK ==
  /\ now \in Nat
  /\ model \in Models
  /\ eligible \in [Cases -> BOOLEAN]
  /\ page \in [Windows -> Page]
  /\ consents \in 0..MaxConsents
  /\ post \in [Posts -> Post \cup {None}]
  /\ run \in [Posts -> Run \cup {None}]
  /\ lapsed \subseteq Posts

Init ==
  /\ now = 0
  /\ model \in Models
  /\ eligible = [c \in Cases |-> TRUE]
  /\ page \in [Windows -> {[case |-> c, consent |-> 0, id |-> None, busy |-> FALSE] : c \in Cases}]
  /\ consents = 0
  /\ post = [p \in Posts |-> None]
  /\ run = [r \in Posts |-> None]
  /\ lapsed = {}

IsAt(p, at) == post[p] # None /\ post[p].at = at
Goes(p, at) == post' = [post EXCEPT ![p].at = at]

-----------------------------------------------------------------------------
(* What surrounds the handlers. *)

Tick ==
  /\ now < MaxTime
  /\ now' = now + 1
  /\ UNCHANGED <<model, eligible, page, consents, post, run, lapsed>>

\* The consent or the evidence of a case changes, or the account is suspended.
Reconsider(c) ==
  /\ eligible' = [eligible EXCEPT ![c] = ~@]
  /\ lapsed' = IF eligible[c] THEN lapsed ELSE {p \in lapsed : post[p].case # c}
  /\ UNCHANGED <<now, model, page, consents, post, run>>

Deploy(m) ==
  /\ model' = m
  /\ UNCHANGED <<now, eligible, page, consents, post, run, lapsed>>

-----------------------------------------------------------------------------
(* The window. *)

Select(w, c) ==
  /\ page' = [page EXCEPT ![w] = [case |-> c, consent |-> 0, id |-> None, busy |-> FALSE]]
  /\ UNCHANGED <<env, consents, post, run, lapsed>>

\* The text is edited, or the box is cleared.
Edit(w) ==
  /\ page' = [page EXCEPT ![w].consent = 0, ![w].id = None]
  /\ UNCHANGED <<env, consents, post, run, lapsed>>

Consent(w) ==
  /\ page[w].consent = 0
  /\ consents < MaxConsents
  /\ consents' = consents + 1
  /\ page' = [page EXCEPT ![w].consent = consents + 1, ![w].id = None]
  /\ UNCHANGED <<env, post, run, lapsed>>

\* Variant: every press draws a new id.
FreshId(w, p) == p

\* pilotRequestId: kept until the form is changed or a run has succeeded.
RequestId(w, p) == IF page[w].id = None THEN p ELSE page[w].id

\* generatePilotStepZero, up to its fetch.
Press(w, p) ==
  /\ ~page[w].busy /\ page[w].consent # 0
  /\ post[p] = None
  /\ page' = [page EXCEPT ![w].id = RequestId(w, p), ![w].busy = TRUE]
  /\ post' = [post EXCEPT ![p] = [window |-> w, case |-> page[w].case, consent |-> page[w].consent,
                                  id |-> RequestId(w, p), at |-> "sent", waiting |-> TRUE,
                                  called |-> FALSE, stamp |-> 0, model |-> model, until |-> 0]]
  /\ UNCHANGED <<env, consents, run, lapsed>>

\* The run is shown; the next one needs another consent.
Succeed(p) ==
  /\ IsAt(p, "done") /\ post[p].waiting
  /\ post' = [post EXCEPT ![p].waiting = FALSE]
  /\ page' = [page EXCEPT ![post[p].window].busy = FALSE, ![post[p].window].consent = 0,
                          ![post[p].window].id = None]
  /\ UNCHANGED <<env, consents, run, lapsed>>

\* An error is answered, or the connection is lost, whatever the handler goes on to do:
\* the window keeps its id and the consent.
Disappoint(p) ==
  /\ post[p] # None /\ post[p].waiting
  /\ post' = [post EXCEPT ![p].waiting = FALSE]
  /\ page' = [page EXCEPT ![post[p].window].busy = FALSE]
  /\ UNCHANGED <<env, consents, run, lapsed>>

-----------------------------------------------------------------------------
(* The handler. *)

\* The origin, the account, the body, the preflight or the policy for external processing.
Refuse(p) ==
  /\ IsAt(p, "sent")
  /\ Goes(p, "refused")
  /\ UNCHANGED <<env, page, consents, run, lapsed>>

\* The preflight passes; createdAt of the claim and the model are read.
Admit(p) ==
  /\ IsAt(p, "sent") /\ eligible[post[p].case]
  /\ post' = [post EXCEPT ![p].at = "expire", ![p].stamp = now, ![p].model = model]
  /\ UNCHANGED <<env, page, consents, run, lapsed>>

Pending(r) == run[r] # None /\ run[r].state = "pending"
\* Variant: a run is given up as soon as the provider may have answered.
OverdueEarly(p, r) == Pending(r) /\ run[r].case = post[p].case /\ run[r].created + Timeout <= post[p].stamp

\* A pending run of the case that is older than the limit.
Overdue(p, r) == Pending(r) /\ run[r].case = post[p].case /\ run[r].created + Stale <= post[p].stamp

\* claimStepZeroRequest, its first statement.
Expire(p) ==
  /\ IsAt(p, "expire")
  /\ run' = [r \in Posts |-> IF Overdue(p, r) THEN [run[r] EXCEPT !.state = "failed"] ELSE run[r]]
  /\ Goes(p, "insert")
  /\ UNCHANGED <<env, page, consents, lapsed>>

Claimable(p) ==
  /\ run[post[p].id] = None
  /\ \A r \in Posts : Pending(r) => run[r].case # post[p].case

\* INSERT ... WHERE NOT EXISTS ... ON CONFLICT(id) DO NOTHING.
Insert(p) ==
  /\ IsAt(p, "insert")
  /\ IF Claimable(p)
     THEN /\ run' = [run EXCEPT ![post[p].id] =
                       [state |-> "pending", case |-> post[p].case, consent |-> post[p].consent,
                        model |-> post[p].model, created |-> post[p].stamp]]
          /\ Goes(p, "claimed")
     ELSE /\ UNCHANGED run
          /\ Goes(p, "look")
  /\ UNCHANGED <<env, page, consents, lapsed>>

SameRequest(p) ==
  LET r == run[post[p].id]
  IN  r.case = post[p].case /\ r.consent = post[p].consent /\ r.model = post[p].model

\* The row of the id decides what is answered: a completed run is given again, all else
\* (no row, another content, a failed or a pending run) is refused.
Look(p) ==
  /\ IsAt(p, "look")
  /\ Goes(p, IF run[post[p].id] # None /\ SameRequest(p) /\ run[post[p].id].state = "done"
             THEN "done" ELSE "refused")
  /\ UNCHANGED <<env, page, consents, run, lapsed>>

\* The call to the provider, with its time limit.
Call(p) ==
  /\ IsAt(p, "claimed")
  /\ post' = [post EXCEPT ![p].at = "calling", ![p].called = TRUE, ![p].until = now + Timeout]
  /\ UNCHANGED <<env, page, consents, run, lapsed>>

\* A complete answer in time.
Answer(p) ==
  /\ IsAt(p, "calling") /\ now <= post[p].until
  /\ Goes(p, "answered")
  /\ lapsed' = IF eligible[post[p].case] THEN lapsed ELSE lapsed \cup {p}
  /\ UNCHANGED <<env, page, consents, run>>

\* An error status, an answer that is not complete, the time limit, or an exception of a read
\* or a statement that follows the call.
NoAnswer(p) ==
  /\ post[p] # None /\ post[p].at \in {"calling", "answered", "saving"}
  /\ Goes(p, "failing")
  /\ UNCHANGED <<env, page, consents, run, lapsed>>

\* Variant: what was eligible before the call is not looked at again.
RecheckNothing(p) ==
  /\ IsAt(p, "answered")
  /\ post' = [post EXCEPT ![p].at = "saving", ![p].stamp = now]
  /\ UNCHANGED <<env, page, consents, run, lapsed>>

\* The state is read again after the answer; createdAt of the completed run is read.
Recheck(p) ==
  /\ IsAt(p, "answered")
  /\ post' = IF eligible[post[p].case]
             THEN [post EXCEPT ![p].at = "saving", ![p].stamp = now]
             ELSE [post EXCEPT ![p].at = "failing"]
  /\ UNCHANGED <<env, page, consents, run, lapsed>>

\* Variant: a late completion is stored whatever the row has become.
Exists(p) == run[post[p].id] # None

\* The condition of the UPDATEs that complete and fail a run.
Open(p) == Pending(post[p].id) /\ run[post[p].id].case = post[p].case
                               /\ run[post[p].id].consent = post[p].consent

\* completeStepZeroRequest.  The answer of its UPDATE may be lost.
Save(p) ==
  /\ IsAt(p, "saving")
  /\ IF Open(p)
     THEN /\ run' = [run EXCEPT ![post[p].id].state = "done", ![post[p].id].model = post[p].model,
                                ![post[p].id].created = post[p].stamp]
          /\ \E at \in {"done", "failing"} : Goes(p, at)
     ELSE UNCHANGED run /\ Goes(p, "failing")
  /\ UNCHANGED <<env, page, consents, lapsed>>

\* failStepZeroRequest.
Fail(p) ==
  /\ IsAt(p, "failing")
  /\ run' = IF Open(p) THEN [run EXCEPT ![post[p].id].state = "failed"] ELSE run
  /\ Goes(p, "refused")
  /\ UNCHANGED <<env, page, consents, lapsed>>

\* The worker is cut off.
Cut(p) ==
  /\ post[p] # None /\ post[p].at \notin {"done", "refused", "cut"}
  /\ Goes(p, "cut")
  /\ UNCHANGED <<env, page, consents, run, lapsed>>

Handler(p) ==
  \/ Refuse(p) \/ Admit(p) \/ Expire(p) \/ Insert(p) \/ Look(p)
  \/ Call(p) \/ Answer(p) \/ NoAnswer(p) \/ Recheck(p) \/ Save(p) \/ Fail(p) \/ Cut(p)

Window(w) ==
  \/ Edit(w) \/ Consent(w)
  \/ \E c \in Cases : Select(w, c)
  \/ \E p \in Posts : Press(w, p)

Next ==
  \/ Tick
  \/ \E c \in Cases : Reconsider(c)
  \/ \E m \in Models : Deploy(m)
  \/ \E w \in Windows : Window(w)
  \/ \E p \in Posts : Succeed(p) \/ Disappoint(p) \/ Handler(p)

Spec == Init /\ [][Next]_vars

-----------------------------------------------------------------------------
(* Properties. *)

\* One consent pays for one call, however often the button is pressed, an answer is lost or
\* a post is refused (page.tsx: usage arises only when the administrator runs it).
PaidOncePerConsent ==
  \A p, q \in Posts :
    /\ post[p] # None /\ post[p].called
    /\ post[q] # None /\ post[q].called
    /\ post[p].consent = post[q].consent
    => p = q

\* A completed run is never changed, and a run that was given up is never completed by the
\* late answer of its worker (AI_STALE_LOCK_RECOVERY_INTEGRITY).
FateIsFinal ==
  [][\A r \in Posts : run[r] # None /\ ~Pending(r) => run'[r] = run[r]]_vars

\* A result is stored only if its case was eligible at some moment after the provider had
\* answered: a consent withdrawn during the call is noticed.
SavedUnderConsent ==
  [][\A r \in Posts : Pending(r) /\ run'[r] # None /\ run'[r].state = "done"
       => \E p \in Posts : post[p] # None /\ post[p].id = r /\ post[p].called /\ p \notin lapsed]_vars

IsWorking(p) == post[p] # None /\ post[p].at \in Working

\* Until its time limit has passed, the claim of a worker stands, and no other worker of the
\* case holds one: a timeout of one request never lets two of them answer for a case.
InTimeAlone ==
  \A p \in Posts : IsWorking(p) /\ now < run[post[p].id].created + Stale =>
    /\ Pending(post[p].id)
    /\ \A q \in Posts \ {p} :
         IsWorking(q) /\ post[q].case = post[p].case => ~Pending(post[q].id)
=============================================================================
