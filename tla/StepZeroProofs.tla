---------------------------- MODULE StepZeroProofs ----------------------------
(***************************************************************************)
(* Proofs about StepZeroRuns, for any number of windows, cases and posts.   *)
(***************************************************************************)
EXTENDS StepZeroRuns, TLAPS

-----------------------------------------------------------------------------
(* Types *)

LEMMA InitType == Init => TypeOK
<1> SUFFICES ASSUME Init PROVE TypeOK
  OBVIOUS
<1>1. \A c \in Cases : [case |-> c, consent |-> 0, id |-> None, busy |-> FALSE] \in Page
  BY TimeAssumption DEF Page
<1>2. page \in [Windows -> Page]
  BY <1>1 DEF Init
<1>3. QED
  BY <1>2, TimeAssumption DEF Init, TypeOK

\* What a record of a request, a page or a row is made of.
LEMMA Fields ==
  ASSUME TypeOK
  PROVE  /\ None \notin Posts
         /\ \A p \in Posts : post[p] # None => post[p] \in Post
         /\ \A r \in Posts : run[r] # None => run[r] \in Run
         /\ \A w \in Windows : page[w] \in Page
BY NoneAssumption DEF TypeOK

\* The form without its consent, and without its mark of a running request.
LEMMA Cleared ==
  ASSUME NEW form \in Page
  PROVE  /\ [form EXCEPT !.consent = 0, !.id = None] \in Page
         /\ [form EXCEPT !.busy = FALSE, !.consent = 0, !.id = None] \in Page
         /\ [form EXCEPT !.busy = FALSE] \in Page
<1>1. 0 \in 0..MaxConsents
  BY TimeAssumption
<1>2. QED
  BY <1>1 DEF Page

LEMMA WindowType ==
  ASSUME TypeOK, NEW w \in Windows, Window(w)
  PROVE  TypeOK'
<1>1. CASE Edit(w)
  <2>1. [page[w] EXCEPT !.consent = 0, !.id = None] \in Page
    BY Fields, Cleared
  <2>2. page' = [page EXCEPT ![w] = [page[w] EXCEPT !.consent = 0, !.id = None]]
    BY <1>1 DEF Edit
  <2>3. page' \in [Windows -> Page]
    BY <2>1, <2>2 DEF TypeOK
  <2>4. QED
    BY <1>1, <2>3 DEF Edit, env, TypeOK
<1>2. CASE Consent(w)
  <2>1. consents + 1 \in 0..MaxConsents
    <3>1. consents \in 0..MaxConsents /\ consents < MaxConsents
      BY <1>2 DEF Consent, TypeOK
    <3>2. QED
      BY <3>1, TimeAssumption
  <2>2. [page[w] EXCEPT !.consent = consents + 1, !.id = None] \in Page
    BY <2>1, Fields DEF Page
  <2>3. page' = [page EXCEPT ![w] = [page[w] EXCEPT !.consent = consents + 1, !.id = None]]
    BY <1>2 DEF Consent
  <2>4. page' \in [Windows -> Page]
    BY <2>2, <2>3 DEF TypeOK
  <2>5. QED
    BY <1>2, <2>1, <2>4 DEF Consent, env, TypeOK
<1>3. ASSUME NEW c \in Cases, Select(w, c) PROVE TypeOK'
  <2>1. [case |-> c, consent |-> 0, id |-> None, busy |-> FALSE] \in Page
    BY TimeAssumption DEF Page
  <2>2. page' \in [Windows -> Page]
    BY <1>3, <2>1 DEF Select, TypeOK
  <2>3. QED
    BY <1>3, <2>2 DEF Select, env, TypeOK
<1>4. ASSUME NEW p \in Posts, Press(w, p) PROVE TypeOK'
  <2>1. RequestId(w, p) \in Posts /\ page[w] \in Page
    BY Fields DEF RequestId, Page
  <2>2. page' \in [Windows -> Page]
    <3>1. [page[w] EXCEPT !.id = RequestId(w, p), !.busy = TRUE] \in Page
      BY <2>1 DEF Page
    <3>2. page' = [page EXCEPT ![w] = [page[w] EXCEPT !.id = RequestId(w, p), !.busy = TRUE]]
      BY <1>4 DEF Press
    <3>3. QED
      BY <3>1, <3>2 DEF TypeOK
  <2>3. page[w].consent \in 1..MaxConsents
    BY <1>4, <2>1, TimeAssumption DEF Press, Page
  <2>4. [window |-> w, case |-> page[w].case, consent |-> page[w].consent,
         id |-> RequestId(w, p), at |-> "sent", waiting |-> TRUE,
         called |-> FALSE, stamp |-> 0, model |-> model, until |-> 0] \in Post
    BY <2>1, <2>3 DEF Post, At, Page, TypeOK
  <2>5. post' \in [Posts -> Post \cup {None}]
    BY <1>4, <2>4 DEF Press, TypeOK
  <2>6. QED
    BY <1>4, <2>2, <2>5 DEF Press, env, TypeOK
<1>5. QED
  BY <1>1, <1>2, <1>3, <1>4 DEF Window

LEMMA AnswerType ==
  ASSUME TypeOK, NEW p \in Posts, Succeed(p) \/ Disappoint(p)
  PROVE  TypeOK'
<1>1. post[p] \in Post /\ page[post[p].window] \in Page /\ post[p].window \in Windows
  BY Fields DEF Succeed, Disappoint, IsAt, Post
<1>2. post' \in [Posts -> Post \cup {None}]
  <2>1. [post[p] EXCEPT !.waiting = FALSE] \in Post
    BY <1>1 DEF Post
  <2>2. post' = [post EXCEPT ![p] = [post[p] EXCEPT !.waiting = FALSE]]
    BY DEF Succeed, Disappoint
  <2>3. QED
    BY <2>1, <2>2 DEF TypeOK
<1>3. page' \in [Windows -> Page]
  <2> DEFINE w == post[p].window
  <2>1. /\ [page[w] EXCEPT !.busy = FALSE, !.consent = 0, !.id = None] \in Page
        /\ [page[w] EXCEPT !.busy = FALSE] \in Page
    BY <1>1, Cleared
  <2>2. \/ page' = [page EXCEPT ![w] = [page[w] EXCEPT !.busy = FALSE, !.consent = 0, !.id = None]]
        \/ page' = [page EXCEPT ![w] = [page[w] EXCEPT !.busy = FALSE]]
    BY DEF Succeed, Disappoint
  <2>3. QED
    <3>1. page \in [Windows -> Page] /\ w \in Windows
      BY <1>1 DEF TypeOK
    <3>2. QED
      BY <2>1, <2>2, <3>1
<1>4. QED
  BY <1>2, <1>3 DEF Succeed, Disappoint, env, TypeOK

\* A handler moves its own post only, and leaves alone what was asked.
Moved(p) ==
  /\ \A q \in Posts \ {p} : post'[q] = post[q]
  /\ post[p] # None /\ post'[p] # None /\ post'[p] \in Post
  /\ post'[p].window = post[p].window /\ post'[p].case = post[p].case
  /\ post'[p].consent = post[p].consent /\ post'[p].id = post[p].id
  /\ post'[p].waiting = post[p].waiting
  /\ UNCHANGED <<env, page, consents>>

LEMMA Moving ==
  ASSUME TypeOK, NEW p \in Posts, post[p] # None, NEW new \in Post,
         new.window = post[p].window, new.case = post[p].case, new.consent = post[p].consent,
         new.id = post[p].id, new.waiting = post[p].waiting,
         post' = [post EXCEPT ![p] = new], UNCHANGED <<env, page, consents>>
  PROVE  Moved(p)
BY NoneAssumption DEF Moved, TypeOK

LEMMA MovesTo ==
  ASSUME TypeOK, NEW p \in Posts, post[p] # None, NEW at \in At, Goes(p, at),
         UNCHANGED <<env, page, consents>>
  PROVE  Moved(p)
<1> DEFINE new == [post[p] EXCEPT !.at = at]
<1>1. new \in Post /\ post[p] \in Post
  BY Fields DEF Post
<1>2. post' = [post EXCEPT ![p] = new]
  BY DEF Goes
<1>3. /\ new.window = post[p].window /\ new.case = post[p].case /\ new.consent = post[p].consent
      /\ new.id = post[p].id /\ new.waiting = post[p].waiting
  BY <1>1 DEF Post
<1>4. QED
  BY <1>1, <1>2, <1>3, Moving

LEMMA HandlerMoves ==
  ASSUME TypeOK, NEW p \in Posts, Handler(p)
  PROVE  Moved(p)
<1>1. CASE Admit(p)
  <2> DEFINE new == [post[p] EXCEPT !.at = "expire", !.stamp = now, !.model = model]
  <2>1. new \in Post /\ post[p] \in Post /\ post[p] # None
    BY <1>1, Fields DEF Admit, IsAt, Post, At, TypeOK
  <2>2. post' = [post EXCEPT ![p] = new] /\ UNCHANGED <<env, page, consents>>
    BY <1>1 DEF Admit
  <2>3. /\ new.window = post[p].window /\ new.case = post[p].case /\ new.consent = post[p].consent
        /\ new.id = post[p].id /\ new.waiting = post[p].waiting
    BY <2>1 DEF Post
  <2>4. QED
    BY <2>1, <2>2, <2>3, Moving
<1>2. CASE Call(p)
  <2> DEFINE new == [post[p] EXCEPT !.at = "calling", !.called = TRUE, !.until = now + Timeout]
  <2>1. new \in Post /\ post[p] \in Post /\ post[p] # None
    <3>1. now + Timeout \in Nat
      BY TimeAssumption DEF TypeOK
    <3>2. QED
      BY <1>2, <3>1, Fields DEF Call, IsAt, Post, At, Working
  <2>2. post' = [post EXCEPT ![p] = new] /\ UNCHANGED <<env, page, consents>>
    BY <1>2 DEF Call
  <2>3. /\ new.window = post[p].window /\ new.case = post[p].case /\ new.consent = post[p].consent
        /\ new.id = post[p].id /\ new.waiting = post[p].waiting
    BY <2>1 DEF Post
  <2>4. QED
    BY <2>1, <2>2, <2>3, Moving
<1>3. CASE Recheck(p)
  <2> DEFINE new == [post[p] EXCEPT !.at = "saving", !.stamp = now]
  <2>1. new \in Post /\ post[p] \in Post /\ post[p] # None
    BY <1>3, Fields DEF Recheck, IsAt, Post, At, Working, TypeOK
  <2>2. /\ post' = [post EXCEPT ![p] = new] \/ Goes(p, "failing")
        /\ UNCHANGED <<env, page, consents>>
    BY <1>3 DEF Recheck, Goes
  <2>3. /\ new.window = post[p].window /\ new.case = post[p].case /\ new.consent = post[p].consent
        /\ new.id = post[p].id /\ new.waiting = post[p].waiting
    BY <2>1 DEF Post
  <2>4. "failing" \in At
    BY DEF At
  <2>5. QED
    BY <2>1, <2>2, <2>3, <2>4, Moving, MovesTo
<1>4. ASSUME ~Admit(p), ~Call(p), ~Recheck(p)
      PROVE  \E at \in At : Goes(p, at) /\ post[p] # None /\ UNCHANGED <<env, page, consents>>
  BY <1>4 DEF Handler, Refuse, Expire, Insert, Look, Answer, NoAnswer, Save, Fail, Cut, IsAt, At, Working
<1>5. QED
  BY <1>1, <1>2, <1>3, <1>4, MovesTo

\* The rows that a handler writes are rows.
LEMMA HandlerRuns ==
  ASSUME TypeOK, NEW p \in Posts, Handler(p)
  PROVE  run' \in [Posts -> Run \cup {None}]
<1>1. run \in [Posts -> Run \cup {None}]
  BY DEF TypeOK
<1>2. CASE Expire(p)
  <2>1. \A r \in Posts : Pending(r) => [run[r] EXCEPT !.state = "failed"] \in Run
    BY <1>1 DEF Pending, Run
  <2>2. QED
    BY <1>1, <1>2, <2>1 DEF Expire, Overdue
<1>3. CASE Insert(p)
  <2>1. post[p] \in Post
    BY <1>3, Fields DEF Insert, IsAt
  <2>2. [state |-> "pending", case |-> post[p].case, consent |-> post[p].consent,
         model |-> post[p].model, created |-> post[p].stamp] \in Run
    BY <2>1 DEF Post, Run
  <2>3. QED
    BY <1>1, <1>3, <2>2 DEF Insert
<1>4. CASE Save(p)
  <2> DEFINE r == post[p].id
             new == [run[r] EXCEPT !.state = "done", !.model = post[p].model, !.created = post[p].stamp]
  <2>1. post[p] \in Post /\ r \in Posts
    BY <1>4, Fields DEF Save, IsAt, Post
  <2>2. Open(p) => new \in Run
    <3>1. post[p].model \in Models /\ post[p].stamp \in Nat
      BY <2>1 DEF Post
    <3>2. Open(p) => run[r] \in Run
      BY <1>1, <2>1 DEF Open, Pending
    <3>3. QED
      BY <3>1, <3>2 DEF Run
  <2>3. run' = run \/ (Open(p) /\ run' = [run EXCEPT ![r] = new])
    BY <1>4 DEF Save
  <2>4. QED
    BY <1>1, <2>1, <2>2, <2>3
<1>5. CASE Fail(p)
  <2> DEFINE r == post[p].id
             new == [run[r] EXCEPT !.state = "failed"]
  <2>1. post[p] \in Post /\ r \in Posts
    BY <1>5, Fields DEF Fail, IsAt, Post
  <2>2. Open(p) => new \in Run
    BY <1>1, <2>1 DEF Open, Pending, Run
  <2>3. run' = run \/ (Open(p) /\ run' = [run EXCEPT ![r] = new])
    BY <1>5 DEF Fail
  <2>4. QED
    BY <1>1, <2>1, <2>2, <2>3
<1>6. CASE UNCHANGED run
  BY <1>1, <1>6
<1>7. QED
  BY <1>2, <1>3, <1>4, <1>5, <1>6
  DEF Handler, Refuse, Admit, Look, Call, Answer, NoAnswer, Recheck, Cut

LEMMA HandlerType ==
  ASSUME TypeOK, NEW p \in Posts, Handler(p)
  PROVE  TypeOK'
<1>1. Moved(p)
  BY HandlerMoves
<1>2. lapsed' \subseteq Posts
  BY DEF Handler, Refuse, Admit, Expire, Insert, Look, Call, Answer, NoAnswer, Recheck, Save, Fail, Cut, TypeOK
<1>3. DOMAIN post' = Posts /\ post' = [q \in Posts |-> post'[q]]
  BY DEF Handler, Refuse, Admit, Expire, Insert, Look, Call, Answer, NoAnswer, Recheck, Save, Fail, Cut, Goes, TypeOK
<1>4. post' \in [Posts -> Post \cup {None}]
  BY <1>1, <1>3, Fields DEF Moved
<1>5. QED
  BY <1>1, <1>2, <1>4, HandlerRuns DEF Moved, env, TypeOK

\* The clock, the eligibility and the model type-check as well.
LEMMA StepType ==
  ASSUME TypeOK, [Next]_vars
  PROVE  TypeOK'
<1>1. CASE Tick
  BY <1>1 DEF Tick, TypeOK
<1>2. ASSUME NEW c \in Cases, Reconsider(c) PROVE TypeOK'
  BY <1>2 DEF Reconsider, TypeOK
<1>3. ASSUME NEW m \in Models, Deploy(m) PROVE TypeOK'
  BY <1>3 DEF Deploy, TypeOK
<1>4. CASE UNCHANGED vars
  BY <1>4 DEF vars, TypeOK
<1>5. QED
  BY <1>1, <1>2, <1>3, <1>4, WindowType, AnswerType, HandlerType DEF Next

\* The variables of StepZeroRuns keep their types.
THEOREM TypeCorrect == Spec => []TypeOK
BY InitType, StepType, PTL DEF Spec

-----------------------------------------------------------------------------
(* Consents and ids *)

\* The first post with an id is the one the id is named by, and all posts with that id were
\* sent from one window for one case under one consent.
Named(p) == (post[p] # None) =>
  LET first == post[post[p].id]
  IN  /\ first # None /\ first.id = post[p].id
      /\ first.case = post[p].case /\ first.consent = post[p].consent

\* So is the id that a window keeps.
Kept(w) == (page[w].id # None) =>
  LET first == post[page[w].id]
  IN  /\ first # None /\ first.id = page[w].id
      /\ first.case = page[w].case /\ first.consent = page[w].consent

\* A consent belongs to one window, and all that was sent under it has the window's id.
Owned(w) == (page[w].consent # 0) =>
  /\ page[w].consent <= consents
  /\ \A v \in Windows \ {w} : page[v].consent # page[w].consent
  /\ \A p \in Posts : post[p] # None /\ post[p].consent = page[w].consent => post[p].id = page[w].id

\* A consent is given once.
Given(p) == (post[p] # None) =>
  /\ post[p].consent <= consents
  /\ \A q \in Posts : post[q] # None /\ post[q].consent = post[p].consent => post[q].id = post[p].id

NameInv ==
  /\ \A p \in Posts : Named(p) /\ Given(p)
  /\ \A w \in Windows : Kept(w) /\ Owned(w)

LEMMA InitNames == Init => NameInv
BY NoneAssumption DEF Init, NameInv, Named, Given, Kept, Owned

LEMMA SelectNames ==
  ASSUME TypeOK, NameInv, NEW w \in Windows, NEW c \in Cases, Select(w, c)
  PROVE  NameInv'
BY DEF Select, NameInv, Named, Given, Kept, Owned, TypeOK

LEMMA EditNames ==
  ASSUME TypeOK, NameInv, NEW w \in Windows, Edit(w)
  PROVE  NameInv'
<1>1. /\ page'[w].consent = 0 /\ page'[w].id = None
      /\ \A v \in Windows \ {w} : page'[v] = page[v]
      /\ UNCHANGED <<consents, post>>
  BY Fields DEF Edit, TypeOK, Page
<1>2. QED
  BY <1>1 DEF NameInv, Named, Given, Kept, Owned

LEMMA ConsentNames ==
  ASSUME TypeOK, NameInv, NEW w \in Windows, Consent(w)
  PROVE  NameInv'
<1>1. /\ page'[w].consent = consents + 1 /\ page'[w].id = None
      /\ \A v \in Windows \ {w} : page'[v] = page[v]
      /\ consents' = consents + 1 /\ UNCHANGED post
  BY Fields DEF Consent, TypeOK, Page
<1>2. /\ consents \in Nat
      /\ \A p \in Posts : post[p] # None => post[p].consent \in Nat
      /\ \A v \in Windows : page[v].consent \in Nat
  BY Fields, TimeAssumption DEF TypeOK, Post, Page
<1>3. \A p \in Posts : Named(p)' /\ Given(p)'
  BY <1>1, <1>2 DEF NameInv, Named, Given
<1>4. \A v \in Windows : Kept(v)'
  BY <1>1 DEF NameInv, Kept
<1>5. Owned(w)'
  BY <1>1, <1>2 DEF NameInv, Given, Owned
<1>6. \A v \in Windows \ {w} : Owned(v)'
  BY <1>1, <1>2 DEF NameInv, Owned
<1>7. QED
  BY <1>3, <1>4, <1>5, <1>6 DEF NameInv

\* The post that Press sends, and what it leaves alone.
LEMMA Pressed ==
  ASSUME TypeOK, NEW w \in Windows, NEW p \in Posts, Press(w, p)
  PROVE  /\ page[w].consent # 0 /\ post[p] = None
         /\ page'[w].id = RequestId(w, p) /\ page'[w].case = page[w].case
         /\ page'[w].consent = page[w].consent
         /\ \A v \in Windows \ {w} : page'[v] = page[v]
         /\ post'[p] # None /\ post'[p].id = RequestId(w, p) /\ post'[p].case = page[w].case
         /\ post'[p].consent = page[w].consent /\ post'[p].at = "sent" /\ ~post'[p].called
         /\ \A q \in Posts \ {p} : post'[q] = post[q]
         /\ UNCHANGED <<env, consents, run, lapsed>>
<1>1. TypeOK'
  BY WindowType DEF Window
<1>2. post'[p] = [window |-> w, case |-> page[w].case, consent |-> page[w].consent,
                  id |-> RequestId(w, p), at |-> "sent", waiting |-> TRUE,
                  called |-> FALSE, stamp |-> 0, model |-> model, until |-> 0]
  BY DEF Press, TypeOK
<1>3. page[w].consent \in 1..MaxConsents /\ page[w].case \in Cases /\ RequestId(w, p) \in Posts
  BY Fields, TimeAssumption DEF Press, Page, RequestId
<1>4. post'[p] \in Post
  BY <1>2, <1>3 DEF Post, At, TypeOK
<1>5. page' = [page EXCEPT ![w] = [page[w] EXCEPT !.id = RequestId(w, p), !.busy = TRUE]]
  BY DEF Press
<1>6. QED
  BY <1>2, <1>4, <1>5, Fields, NoneAssumption DEF Press, TypeOK, Page

LEMMA PressNames ==
  ASSUME TypeOK, NameInv, NEW w \in Windows, NEW p \in Posts, Press(w, p)
  PROVE  NameInv'
<1> DEFINE id == RequestId(w, p)
<1>1. /\ Kept(w) /\ Owned(w) /\ page[w] \in Page
      /\ \A q \in Posts : post[q] # None => post[q].id \in Posts
  BY Fields DEF NameInv, Post
<1>2. id \in Posts /\ post'[id] # None /\ post'[id].id = id
      /\ post'[id].case = page[w].case /\ post'[id].consent = page[w].consent
  <2>1. CASE page[w].id = None
    BY <2>1, Pressed DEF RequestId
  <2>2. CASE page[w].id # None
    BY <1>1, <2>2, Pressed DEF RequestId, Kept, Page
  <2>3. QED
    BY <2>1, <2>2
<1>3. \A q \in Posts : post[q] # None /\ post[q].consent = page[w].consent => post[q].id = id
  <2>1. CASE page[w].id = None
    <3>1. \A q \in Posts : post[q] # None => post[q].id # None
      BY <1>1, NoneAssumption
    <3>2. QED
      BY <1>1, <2>1, <3>1, Pressed DEF Owned
  <2>2. CASE page[w].id # None
    BY <1>1, <2>2, Pressed DEF Owned, RequestId
  <2>3. QED
    BY <2>1, <2>2
<1>4. \A q \in Posts : Named(q)'
  <2>1. Named(p)'
    BY <1>2, Pressed DEF Named
  <2>2. ASSUME NEW q \in Posts \ {p} PROVE Named(q)'
    BY <1>1, Pressed DEF NameInv, Named
  <2>3. QED
    BY <2>1, <2>2
<1>5. \A q \in Posts : Given(q)'
  BY <1>1, <1>3, Pressed DEF NameInv, Given, Owned
<1>6. \A v \in Windows : Kept(v)'
  <2>1. Kept(w)'
    BY <1>2, Pressed DEF Kept
  <2>2. ASSUME NEW v \in Windows \ {w} PROVE Kept(v)'
    <3>1. page[v].id # None => page[v].id \in Posts /\ page[v].id # p
      BY Fields, Pressed DEF NameInv, Kept, Page
    <3>2. QED
      BY <3>1, Pressed DEF NameInv, Kept
  <2>3. QED
    BY <2>1, <2>2
<1>7. \A v \in Windows : Owned(v)'
  <2>1. Owned(w)'
    BY <1>1, <1>3, Pressed DEF Owned
  <2>2. ASSUME NEW v \in Windows \ {w} PROVE Owned(v)'
    BY <1>1, Pressed DEF NameInv, Owned
  <2>3. QED
    BY <2>1, <2>2
<1>8. QED
  BY <1>4, <1>5, <1>6, <1>7 DEF NameInv

LEMMA AnswerNames ==
  ASSUME TypeOK, NameInv, NEW p \in Posts, Succeed(p) \/ Disappoint(p)
  PROVE  NameInv'
<1> DEFINE w == post[p].window
<1>1. w \in Windows /\ post[p] \in Post /\ page[w] \in Page
  BY Fields DEF Succeed, Disappoint, IsAt, Post
<1>2. /\ \A v \in Windows \ {w} : page'[v] = page[v]
      /\ \/ page'[w].consent = 0 /\ page'[w].id = None
         \/ /\ page'[w].consent = page[w].consent /\ page'[w].id = page[w].id
            /\ page'[w].case = page[w].case
  BY <1>1 DEF Succeed, Disappoint, TypeOK, Page
<1>3. post' = [post EXCEPT ![p] = [post[p] EXCEPT !.waiting = FALSE]]
  BY DEF Succeed, Disappoint
<1>4. [post[p] EXCEPT !.waiting = FALSE] \in Post
  BY <1>1 DEF Post
<1>5. \A q \in Posts : /\ (post'[q] # None) <=> (post[q] # None)
                       /\ post[q] # None => /\ post'[q].id = post[q].id
                                            /\ post'[q].case = post[q].case
                                            /\ post'[q].consent = post[q].consent
  BY <1>1, <1>3, <1>4, NoneAssumption DEF TypeOK, Post, Succeed, Disappoint, IsAt
<1>6. UNCHANGED consents
  BY DEF Succeed, Disappoint
<1>7. \A q \in Posts : Named(q)' /\ Given(q)'
  <2>1. \A q \in Posts : post[q] # None => post[q].id \in Posts
    BY Fields DEF Post
  <2>2. QED
    BY <1>5, <1>6, <2>1 DEF NameInv, Named, Given
<1>8. \A v \in Windows : Kept(v)'
  <2>1. \A v \in Windows : page[v].id # None => page[v].id \in Posts
    BY Fields DEF Page
  <2>2. QED
    BY <1>2, <1>5, <2>1 DEF NameInv, Kept
<1>9. \A v \in Windows : Owned(v)'
  BY <1>1, <1>2, <1>5, <1>6 DEF NameInv, Owned
<1>10. QED
  BY <1>7, <1>8, <1>9 DEF NameInv

LEMMA HandlerNames ==
  ASSUME TypeOK, NameInv, NEW p \in Posts, Handler(p)
  PROVE  NameInv'
<1>1. \A q \in Posts : /\ (post'[q] # None) <=> (post[q] # None)
                       /\ post[q] # None => /\ post'[q].id = post[q].id
                                            /\ post'[q].case = post[q].case
                                            /\ post'[q].consent = post[q].consent
  BY HandlerMoves DEF Moved
<1>2. UNCHANGED <<page, consents>>
  BY HandlerMoves DEF Moved
<1>3. /\ \A q \in Posts : post[q] # None => post[q].id \in Posts
      /\ \A v \in Windows : page[v].id # None => page[v].id \in Posts
  BY Fields DEF Post, Page
<1>4. \A q \in Posts : Named(q)' /\ Given(q)'
  BY <1>1, <1>2, <1>3 DEF NameInv, Named, Given
<1>5. \A v \in Windows : Kept(v)' /\ Owned(v)'
  BY <1>1, <1>2, <1>3 DEF NameInv, Kept, Owned
<1>6. QED
  BY <1>4, <1>5 DEF NameInv

LEMMA StepNames ==
  ASSUME TypeOK, NameInv, [Next]_vars
  PROVE  NameInv'
<1>1. CASE UNCHANGED <<page, post, consents>>
  BY <1>1 DEF NameInv, Named, Given, Kept, Owned
<1>2. QED
  BY <1>1, SelectNames, EditNames, ConsentNames, PressNames, AnswerNames, HandlerNames
  DEF Next, Tick, Reconsider, Deploy, Window, vars

-----------------------------------------------------------------------------
(* Claims *)

\* The post has claimed the row of its id.
Holds(p) == post[p] # None /\ (post[p].at = "claimed" \/ post[p].called)

\* A handler calls the provider with a claim, at most once.
Place(p) == (post[p] # None) =>
  /\ post[p].at \in {"sent", "expire", "insert", "look", "claimed"} => ~post[p].called
  /\ post[p].at \in {"calling", "answered", "saving", "failing"} => post[p].called
  /\ post[p].stamp <= now

\* A row is that of the post it is named by.
Row(r) == (run[r] # None) =>
  /\ post[r] # None /\ post[r].id = r
  /\ run[r].case = post[r].case /\ run[r].consent = post[r].consent

\* At most one post holds a row.
Alone(p) == Holds(p) =>
  /\ run[post[p].id] # None
  /\ \A q \in Posts : Holds(q) /\ post[q].id = post[p].id => q = p

\* Only one row of a case is pending.
OnePending == \A r, s \in Posts : Pending(r) /\ Pending(s) /\ run[r].case = run[s].case => r = s

\* A row stays pending until its time limit, if its handler is at work.
InTime(p) == (IsWorking(p) /\ now < run[post[p].id].created + Stale) => Pending(post[p].id)

WorkInv ==
  /\ \A p \in Posts : Place(p) /\ Row(p) /\ Alone(p) /\ InTime(p)
  /\ OnePending

LEMMA InitWork == Init => WorkInv
BY DEF Init, WorkInv, Place, Row, Alone, InTime, OnePending, Holds, IsWorking, Pending

\* What leaves the rows alone keeps the claims, if no handler comes to hold one.
LEMMA WorkKept ==
  ASSUME TypeOK, WorkInv, UNCHANGED run, now' \in Nat, now <= now',
         \A q \in Posts : /\ Place(q)'
                          /\ Holds(q)' => Holds(q)
                          /\ IsWorking(q)' => IsWorking(q)
                          /\ post[q] # None => /\ post'[q] # None /\ post'[q].id = post[q].id
                                               /\ post'[q].case = post[q].case
                                               /\ post'[q].consent = post[q].consent
  PROVE  WorkInv'
<1>1. \A q \in Posts : Row(q)'
  BY DEF WorkInv, Row
<1>2. \A q \in Posts : Alone(q)'
  BY DEF WorkInv, Alone, Holds
<1>3. OnePending'
  BY DEF WorkInv, OnePending, Pending
<1>4. ASSUME NEW q \in Posts PROVE InTime(q)'
  <2>1. SUFFICES ASSUME IsWorking(q)', now' < run[post[q].id].created + Stale
                 PROVE  Pending(post[q].id)
    BY DEF InTime, Pending, IsWorking
  <2>2. IsWorking(q) /\ post[q] \in Post /\ Holds(q)
    BY <2>1, Fields DEF IsWorking, WorkInv, Place, Holds, Working
  <2>3. run[post[q].id] \in Run /\ post[q].id \in Posts
    BY <2>2, Fields DEF WorkInv, Alone, Post
  <2>4. run[post[q].id].created \in Nat /\ now \in Nat
    BY <2>3 DEF Run, TypeOK
  <2>5. now < run[post[q].id].created + Stale
    BY <2>1, <2>4, TimeAssumption
  <2>6. QED
    BY <2>2, <2>5 DEF WorkInv, InTime
<1>5. QED
  BY <1>1, <1>2, <1>3, <1>4 DEF WorkInv

\* What the steps of a handler that leave the rows alone do to its post.
LEMMA QuietHandler ==
  ASSUME TypeOK, WorkInv, NEW p \in Posts,
         Refuse(p) \/ Admit(p) \/ Look(p) \/ Call(p) \/ Answer(p) \/ NoAnswer(p) \/ Recheck(p) \/ Cut(p)
  PROVE  Place(p)' /\ (Holds(p)' => Holds(p)) /\ (IsWorking(p)' => IsWorking(p))
<1>1. post[p] \in Post /\ post \in [Posts -> Post \cup {None}] /\ now \in Nat /\ Place(p)
  BY Fields DEF Refuse, Admit, Look, Call, Answer, NoAnswer, Recheck, Cut, IsAt, WorkInv, TypeOK
<1>2. UNCHANGED now
  BY DEF Refuse, Admit, Look, Call, Answer, NoAnswer, Recheck, Cut, env
<1> USE DEF Place, Holds, IsWorking, Working
<1>3. CASE Refuse(p)
  <2>1. /\ post[p].at = "sent"
        /\ post'[p].at = "refused" /\ post'[p].called = post[p].called /\ post'[p].stamp = post[p].stamp
    BY <1>1, <1>3 DEF Refuse, IsAt, Goes, Post
  <2>2. QED
    BY <1>1, <1>2, <2>1, <1>3 DEF Refuse, IsAt
<1>4. CASE Admit(p)
  <2>1. /\ post[p].at = "sent"
        /\ post'[p].at = "expire" /\ post'[p].called = post[p].called /\ post'[p].stamp = now
    BY <1>1, <1>4 DEF Admit, IsAt, Post
  <2>2. QED
    BY <1>1, <1>2, <2>1, <1>4 DEF Admit, IsAt
<1>5. CASE Look(p)
  <2>1. /\ post[p].at = "look"
        /\ post'[p].at \in {"done", "refused"} /\ post'[p].called = post[p].called
        /\ post'[p].stamp = post[p].stamp
    BY <1>1, <1>5 DEF Look, IsAt, Goes, Post
  <2>2. QED
    BY <1>1, <1>2, <2>1, <1>5 DEF Look, IsAt
<1>6. CASE Call(p)
  <2>1. /\ post[p].at = "claimed"
        /\ post'[p].at = "calling" /\ post'[p].called = TRUE /\ post'[p].stamp = post[p].stamp
    BY <1>1, <1>6 DEF Call, IsAt, Post
  <2>2. QED
    BY <1>1, <1>2, <2>1, <1>6 DEF Call, IsAt
<1>7. CASE Answer(p)
  <2>1. /\ post[p].at = "calling" /\ post'[p].at = "answered"
        /\ post'[p].called = post[p].called /\ post'[p].stamp = post[p].stamp
    BY <1>1, <1>7 DEF Answer, IsAt, Goes, Post
  <2>2. QED
    BY <1>1, <1>2, <2>1, <1>7 DEF Answer, IsAt
<1>8. CASE NoAnswer(p)
  <2>1. /\ post[p].at \in {"calling", "answered", "saving"} /\ post'[p].at = "failing"
        /\ post'[p].called = post[p].called /\ post'[p].stamp = post[p].stamp
    BY <1>1, <1>8 DEF NoAnswer, Goes, Post
  <2>2. QED
    BY <1>1, <1>2, <2>1, <1>8 DEF NoAnswer
<1>9. CASE Recheck(p)
  <2>1. /\ post[p].at = "answered"
        /\ post'[p].at \in {"saving", "failing"} /\ post'[p].called = post[p].called
        /\ post'[p].stamp \in {post[p].stamp, now}
    BY <1>1, <1>9 DEF Recheck, IsAt, Post
  <2>2. QED
    BY <1>1, <1>2, <2>1, <1>9 DEF Recheck, IsAt
<1>10. CASE Cut(p)
  <2>1. /\ post'[p].at = "cut" /\ post'[p].called = post[p].called /\ post'[p].stamp = post[p].stamp
    BY <1>1, <1>10 DEF Cut, Goes, Post
  <2>2. QED
    BY <1>1, <1>2, <2>1, <1>10 DEF Cut
<1>11. QED
  BY <1>3, <1>4, <1>5, <1>6, <1>7, <1>8, <1>9, <1>10

LEMMA QuietWork ==
  ASSUME TypeOK, WorkInv, NEW p \in Posts,
         Refuse(p) \/ Admit(p) \/ Look(p) \/ Call(p) \/ Answer(p) \/ NoAnswer(p) \/ Recheck(p) \/ Cut(p)
  PROVE  WorkInv'
<1>1. Moved(p)
  BY HandlerMoves DEF Handler
<1>2. UNCHANGED <<run, now>>
  BY DEF Refuse, Admit, Look, Call, Answer, NoAnswer, Recheck, Cut, env
<1>3. \A q \in Posts \ {p} : Place(q)' /\ Holds(q)' = Holds(q) /\ IsWorking(q)' = IsWorking(q)
  BY <1>1, <1>2 DEF Moved, WorkInv, Place, Holds, IsWorking
<1>4. now \in Nat
  BY DEF TypeOK
<1>5. QED
  BY <1>1, <1>2, <1>3, <1>4, QuietHandler, WorkKept DEF Moved

\* What follows a step of a handler p that writes a row.
LEMMA Holder ==
  ASSUME TypeOK, WorkInv, NEW q \in Posts, IsWorking(q)
  PROVE  /\ Holds(q) /\ post[q].id \in Posts
         /\ run[post[q].id] \in Run /\ run[post[q].id].created \in Nat
<1>1. Holds(q) /\ post[q] \in Post
  BY Fields DEF IsWorking, Working, WorkInv, Place, Holds
<1>2. post[q].id \in Posts /\ run[post[q].id] # None
  BY <1>1 DEF WorkInv, Alone, Post
<1>3. run[post[q].id] \in Run
  BY <1>2, Fields
<1>4. QED
  BY <1>1, <1>2, <1>3 DEF Run

LEMMA ExpireWork ==
  ASSUME TypeOK, WorkInv, NEW p \in Posts, Expire(p)
  PROVE  WorkInv'
<1>1. Moved(p) /\ TypeOK'
  BY HandlerMoves, HandlerType DEF Handler
<1>2. /\ post[p] \in Post /\ post[p].at = "expire" /\ UNCHANGED now
      /\ post'[p].at = "insert" /\ post'[p].called = post[p].called /\ post'[p].stamp = post[p].stamp
  BY Fields DEF Expire, IsAt, Goes, Post, env, TypeOK
<1>3. \A r \in Posts : /\ run'[r] # None <=> run[r] # None
                       /\ run[r] # None => /\ run'[r].case = run[r].case
                                           /\ run'[r].consent = run[r].consent
                                           /\ run'[r].created = run[r].created
                                           /\ run'[r].state = "pending" => run[r].state = "pending"
                       /\ ~Overdue(p, r) => run'[r] = run[r]
  <2>1. \A r \in Posts : run'[r] = IF Overdue(p, r) THEN [run[r] EXCEPT !.state = "failed"] ELSE run[r]
    BY DEF Expire
  <2>2. \A r \in Posts : Overdue(p, r) => run[r] \in Run /\ run[r] # None
    BY Fields DEF Overdue, Pending
  <2>3. ASSUME NEW r \in Posts, Overdue(p, r)
        PROVE  /\ run'[r] \in Run /\ run'[r].case = run[r].case /\ run'[r].consent = run[r].consent
               /\ run'[r].created = run[r].created /\ run'[r].state = "failed"
    BY <2>1, <2>2, <2>3 DEF Run
  <2>4. \A r \in Posts : ~Overdue(p, r) => run'[r] = run[r]
    BY <2>1
  <2>5. QED
    BY <2>2, <2>3, <2>4, NoneAssumption
<1>4. \A q \in Posts : Place(q)'
  BY <1>1, <1>2 DEF Moved, WorkInv, Place
<1>5. \A q \in Posts : Holds(q)' = Holds(q) /\ IsWorking(q)' = IsWorking(q)
  BY <1>1, <1>2 DEF Moved, Holds, IsWorking, Working
<1>6. \A r \in Posts : Row(r)'
  BY <1>1, <1>3 DEF Moved, WorkInv, Row
<1>7. \A q \in Posts : Alone(q)'
  <2>1. \A q \in Posts : post[q] # None => post[q].id \in Posts
    BY Fields DEF Post
  <2>2. QED
    BY <1>1, <1>3, <1>5, <2>1 DEF Moved, WorkInv, Alone, Holds
<1>8. OnePending'
  BY <1>3 DEF WorkInv, OnePending, Pending
<1>9. ASSUME NEW q \in Posts PROVE InTime(q)'
  <2> DEFINE r == post[q].id
  <2>1. SUFFICES ASSUME IsWorking(q), now < run'[r].created + Stale
                 PROVE  run'[r] # None /\ run'[r].state = "pending"
    BY <1>1, <1>2, <1>5 DEF InTime, Moved, IsWorking, Pending
  <2>2. r \in Posts /\ run[r] \in Run /\ run[r].created \in Nat /\ run[r] # None
    BY <2>1, Holder, NoneAssumption
  <2>3. now < run[r].created + Stale /\ Pending(r)
    BY <1>3, <2>1, <2>2 DEF WorkInv, InTime
  <2>4. post[p].stamp <= now /\ post[p].stamp \in Nat /\ now \in Nat
    BY <1>2, NoneAssumption DEF WorkInv, Place, Post, TypeOK
  <2>5. ~Overdue(p, r)
    BY <2>2, <2>3, <2>4, TimeAssumption DEF Overdue
  <2>6. QED
    BY <1>3, <2>2, <2>3, <2>5 DEF Pending
<1>10. QED
  BY <1>4, <1>6, <1>7, <1>8, <1>9 DEF WorkInv

LEMMA InsertWork ==
  ASSUME TypeOK, NameInv, WorkInv, NEW p \in Posts, Insert(p)
  PROVE  WorkInv'
<1> DEFINE i == post[p].id
<1>1. Moved(p) /\ TypeOK'
  BY HandlerMoves, HandlerType DEF Handler
<1>2. /\ post[p] \in Post /\ post[p].at = "insert" /\ UNCHANGED now /\ i \in Posts
      /\ post'[p].called = post[p].called /\ post'[p].stamp = post[p].stamp
  BY Fields DEF Insert, IsAt, Goes, Post, env, TypeOK
<1>3. CASE ~Claimable(p)
  <2>1. post'[p].at = "look" /\ UNCHANGED run
    BY <1>2, <1>3 DEF Insert, Goes, TypeOK, Post
  <2>2. \A q \in Posts : Place(q)'
    BY <1>1, <1>2, <2>1 DEF Moved, WorkInv, Place
  <2>3. \A q \in Posts : (Holds(q)' => Holds(q)) /\ (IsWorking(q)' => IsWorking(q))
    BY <1>1, <1>2, <2>1 DEF Moved, Holds, IsWorking, Working
  <2>4. now \in Nat
    BY DEF TypeOK
  <2>5. QED
    BY <1>1, <1>2, <2>1, <2>2, <2>3, <2>4, WorkKept DEF Moved
<1>4. CASE Claimable(p)
  <2> DEFINE row == [state |-> "pending", case |-> post[p].case, consent |-> post[p].consent,
                     model |-> post[p].model, created |-> post[p].stamp]
  <2>1. /\ post'[p].at = "claimed" /\ run[i] = None
        /\ run' = [run EXCEPT ![i] = row]
    BY <1>2, <1>4 DEF Insert, Claimable, Goes, TypeOK, Post
  <2>2. row \in Run /\ row # None /\ run'[i] = row /\ \A r \in Posts \ {i} : run'[r] = run[r]
    BY <1>2, <2>1, NoneAssumption DEF Run, Post, TypeOK
  <2>3. \A q \in Posts : Place(q)'
    BY <1>1, <1>2, <2>1 DEF Moved, WorkInv, Place
  <2>4. \A q \in Posts \ {p} : Holds(q)' = Holds(q) /\ IsWorking(q)' = IsWorking(q)
    BY <1>1 DEF Moved, Holds, IsWorking
  <2>5. \A r \in Posts : Row(r)'
    <3>1. post[i] # None /\ post[i].id = i /\ post[i].case = post[p].case
          /\ post[i].consent = post[p].consent
      BY <1>1 DEF NameInv, Named, Moved
    <3>2. Row(i)'
      BY <1>1, <1>2, <2>2, <3>1 DEF Row, Moved
    <3>3. QED
      BY <1>1, <2>2, <3>2 DEF WorkInv, Row, Moved
  <2>6. \A q \in Posts : Holds(q) => post[q].id # i /\ post[q].id \in Posts
    BY <2>1, Fields DEF WorkInv, Alone, Holds, Post
  <2>7. \A q \in Posts : Alone(q)'
    <3>1. Alone(p)'
      BY <1>1, <1>2, <2>2, <2>4, <2>6 DEF Alone, Moved, Holds
    <3>2. ASSUME NEW q \in Posts \ {p} PROVE Alone(q)'
      BY <1>1, <2>2, <2>4, <2>6 DEF Alone, Moved, Holds, WorkInv
    <3>3. QED
      BY <3>1, <3>2
  <2>8. OnePending'
    <3>1. \A r \in Posts : Pending(r) => run[r].case # post[p].case
      BY <1>4 DEF Claimable
    <3>2. QED
      BY <2>2, <3>1 DEF WorkInv, OnePending, Pending
  <2>9. \A q \in Posts : InTime(q)'
    <3>1. InTime(p)'
      BY <1>1, <2>2 DEF InTime, Pending, Moved
    <3>2. ASSUME NEW q \in Posts \ {p}, IsWorking(q)
          PROVE  run'[post[q].id] = run[post[q].id] /\ post'[q] = post[q]
      BY <1>1, <2>2, <2>6, <3>2, Holder DEF Moved
    <3>3. ASSUME NEW q \in Posts \ {p} PROVE InTime(q)'
      BY <1>2, <2>4, <3>2 DEF InTime, WorkInv, IsWorking, Pending
    <3>4. QED
      BY <3>1, <3>3
  <2>10. QED
    BY <2>3, <2>5, <2>7, <2>8, <2>9 DEF WorkInv
<1>5. QED
  BY <1>3, <1>4

\* A handler that ends its own claim.
LEMMA ClosingWork ==
  ASSUME TypeOK, WorkInv, NEW p \in Posts, Save(p) \/ Fail(p)
  PROVE  WorkInv'
<1> DEFINE i == post[p].id
<1>1. Moved(p)
  BY HandlerMoves DEF Handler
<1>2. /\ post[p] \in Post /\ post[p].at \in {"saving", "failing"} /\ UNCHANGED now /\ i \in Posts
      /\ post'[p].called = post[p].called /\ post'[p].stamp = post[p].stamp
      /\ post'[p].at \in {"done", "failing", "refused"}
  BY Fields DEF Save, Fail, IsAt, Goes, Post, env, TypeOK
<1>3. post[p] # None /\ post[p].called /\ Holds(p) /\ run[i] # None
  BY <1>2 DEF Save, Fail, IsAt, WorkInv, Place, Holds, Alone
<1>4. run[i] \in Run
  BY <1>2, <1>3, Fields
<1>5. /\ \A r \in Posts \ {i} : run'[r] = run[r]
      /\ run'[i] # None /\ run'[i].case = run[i].case /\ run'[i].consent = run[i].consent
      /\ run'[i] = run[i] \/ run'[i].state # "pending"
  <2>1. \/ run' = run
        \/ run' = [run EXCEPT ![i] = [run[i] EXCEPT !.state = "done", !.model = post[p].model,
                                                    !.created = post[p].stamp]]
        \/ run' = [run EXCEPT ![i] = [run[i] EXCEPT !.state = "failed"]]
    BY DEF Save, Fail
  <2>2. run' \in [Posts -> Run \cup {None}]
    BY HandlerRuns DEF Handler
  <2>3. /\ [run[i] EXCEPT !.state = "done", !.model = post[p].model, !.created = post[p].stamp] \in Run
        /\ [run[i] EXCEPT !.state = "failed"] \in Run
    BY <1>2, <1>4 DEF Run, Post
  <2>4. run \in [Posts -> Run \cup {None}]
    BY DEF TypeOK
  <2>5. ASSUME NEW new \in Run, new.case = run[i].case, new.consent = run[i].consent,
               new.state # "pending", run' = [run EXCEPT ![i] = new]
        PROVE  /\ \A r \in Posts \ {i} : run'[r] = run[r]
               /\ run'[i] # None /\ run'[i].case = run[i].case /\ run'[i].consent = run[i].consent
               /\ run'[i].state # "pending"
    BY <1>2, <2>4, <2>5, NoneAssumption
  <2>6. QED
    BY <1>2, <1>3, <1>4, <2>1, <2>3, <2>5 DEF Run
<1>6. \A q \in Posts : Place(q)'
  BY <1>1, <1>2, <1>3 DEF Moved, WorkInv, Place
<1>7. \A q \in Posts \ {p} : Holds(q)' = Holds(q) /\ IsWorking(q)' = IsWorking(q)
  BY <1>1 DEF Moved, Holds, IsWorking
<1>8. Holds(p)' /\ ~IsWorking(p)'
  BY <1>1, <1>2, <1>3 DEF Moved, Holds, IsWorking, Working
<1>9. \A r \in Posts : Row(r)'
  BY <1>1, <1>5, <1>3 DEF Moved, WorkInv, Row
<1>10. \A q \in Posts : Alone(q)'
  <2>1. \A q \in Posts : post[q] # None => post[q].id \in Posts
    BY Fields DEF Post
  <2>2. \A r \in Posts : run[r] # None => run'[r] # None
    BY <1>5
  <2>3. \A q \in Posts : Holds(q)' <=> Holds(q)
    BY <1>3, <1>7, <1>8
  <2>4. \A q \in Posts : Holds(q) => post'[q].id = post[q].id
    BY <1>1 DEF Moved, Holds
  <2>5. QED
    BY <2>1, <2>2, <2>3, <2>4 DEF WorkInv, Alone, Holds
<1>11. OnePending'
  BY <1>5 DEF WorkInv, OnePending, Pending
<1>12. ASSUME NEW q \in Posts PROVE InTime(q)'
  <2>1. CASE q = p
    BY <1>8, <2>1 DEF InTime
  <2>2. CASE q # p /\ IsWorking(q)
    <3>1. Holds(q) /\ post[q].id \in Posts
      BY <2>2, Holder
    <3>2. post[q].id # i
      BY <1>3, <2>2, <3>1 DEF WorkInv, Alone
    <3>3. run'[post[q].id] = run[post[q].id] /\ post'[q] = post[q]
      BY <1>1, <1>5, <2>2, <3>1, <3>2 DEF Moved
    <3>4. QED
      BY <1>2, <1>7, <2>2, <3>3 DEF InTime, WorkInv, IsWorking, Pending
  <2>3. CASE q # p /\ ~IsWorking(q)
    BY <1>7, <2>3 DEF InTime
  <2>4. QED
    BY <2>1, <2>2, <2>3
<1>13. QED
  BY <1>6, <1>9, <1>10, <1>11, <1>12 DEF WorkInv

LEMMA AroundWork ==
  ASSUME TypeOK, WorkInv, UNCHANGED run, now' \in Nat, now <= now',
         \A q \in Posts : \/ post'[q] = post[q]
                          \/ /\ post[q] = None /\ post'[q] # None
                             /\ post'[q].at = "sent" /\ ~post'[q].called /\ post'[q].stamp = 0
                          \/ /\ post[q] # None /\ post'[q] # None
                             /\ post'[q].id = post[q].id /\ post'[q].case = post[q].case
                             /\ post'[q].consent = post[q].consent /\ post'[q].at = post[q].at
                             /\ post'[q].called = post[q].called /\ post'[q].stamp = post[q].stamp
  PROVE  WorkInv'
<1>1. \A q \in Posts : post[q] # None => post[q].stamp \in Nat
  BY Fields DEF Post
<1>2. now \in Nat
  BY DEF TypeOK
<1>3. ASSUME NEW q \in Posts PROVE Place(q)'
  BY <1>1, <1>2 DEF WorkInv, Place
<1>4. \A q \in Posts : (Holds(q)' => Holds(q)) /\ (IsWorking(q)' => IsWorking(q))
  BY DEF Holds, IsWorking, Working
<1>5. QED
  BY <1>3, <1>4, WorkKept

LEMMA StepWork ==
  ASSUME TypeOK, NameInv, WorkInv, [Next]_vars
  PROVE  WorkInv'
<1>1. now \in Nat
  BY DEF TypeOK
<1>2. CASE Tick
  BY <1>1, <1>2, AroundWork DEF Tick
<1>3. CASE UNCHANGED <<now, run, post>>
  BY <1>1, <1>3, AroundWork
<1>4. ASSUME NEW w \in Windows, NEW p \in Posts, Press(w, p) PROVE WorkInv'
  <2>1. post'[p].stamp = 0
    BY <1>4 DEF Press, TypeOK
  <2>2. QED
    BY <1>1, <1>4, <2>1, Pressed, AroundWork DEF env
<1>5. ASSUME NEW p \in Posts, Succeed(p) \/ Disappoint(p) PROVE WorkInv'
  <2>1. post[p] \in Post /\ post' = [post EXCEPT ![p] = [post[p] EXCEPT !.waiting = FALSE]]
    BY <1>5, Fields DEF Succeed, Disappoint, IsAt
  <2>2. [post[p] EXCEPT !.waiting = FALSE] \in Post
    BY <2>1 DEF Post
  <2>3. UNCHANGED <<now, run>>
    BY <1>5 DEF Succeed, Disappoint, env
  <2>4. /\ \A q \in Posts \ {p} : post'[q] = post[q]
        /\ post[p] # None /\ post'[p] # None
        /\ post'[p].id = post[p].id /\ post'[p].case = post[p].case
        /\ post'[p].consent = post[p].consent /\ post'[p].at = post[p].at
        /\ post'[p].called = post[p].called /\ post'[p].stamp = post[p].stamp
    BY <2>1, <2>2, NoneAssumption DEF Post, TypeOK
  <2>5. \A q \in Posts : \/ post'[q] = post[q]
                         \/ /\ post[q] # None /\ post'[q] # None
                            /\ post'[q].id = post[q].id /\ post'[q].case = post[q].case
                            /\ post'[q].consent = post[q].consent /\ post'[q].at = post[q].at
                            /\ post'[q].called = post[q].called /\ post'[q].stamp = post[q].stamp
    BY <2>4
  <2>6. QED
    BY <1>1, <2>3, <2>5, AroundWork
<1>6. ASSUME NEW p \in Posts, Handler(p) PROVE WorkInv'
  BY <1>6, QuietWork, ExpireWork, InsertWork, ClosingWork DEF Handler
<1>7. QED
  BY <1>2, <1>3, <1>4, <1>5, <1>6
  DEF Next, Window, Select, Edit, Consent, Reconsider, Deploy, env, vars

-----------------------------------------------------------------------------
(* Eligibility *)

LapseInv == \A p \in lapsed :
  post[p] # None /\ post[p].at # "saving" /\ ~eligible[post[p].case]

LEMMA StepLapse ==
  ASSUME TypeOK, LapseInv, [Next]_vars
  PROVE  LapseInv'
<1>1. CASE UNCHANGED <<eligible, post, lapsed>>
  BY <1>1 DEF LapseInv
<1>2. ASSUME NEW c \in Cases, Reconsider(c) PROVE LapseInv'
  BY <1>2, Fields DEF Reconsider, LapseInv, TypeOK, Post
<1>3. ASSUME NEW w \in Windows, NEW p \in Posts, Press(w, p) PROVE LapseInv'
  BY <1>3, Pressed DEF LapseInv, TypeOK, env
<1>4. ASSUME NEW p \in Posts, Succeed(p) \/ Disappoint(p) PROVE LapseInv'
  <2>1. post[p] \in Post /\ post' = [post EXCEPT ![p] = [post[p] EXCEPT !.waiting = FALSE]]
    BY <1>4, Fields DEF Succeed, Disappoint, IsAt
  <2>2. [post[p] EXCEPT !.waiting = FALSE] \in Post
    BY <2>1 DEF Post
  <2>3. UNCHANGED <<eligible, lapsed>>
    BY <1>4 DEF Succeed, Disappoint, env
  <2>4. QED
    BY <2>1, <2>2, <2>3, NoneAssumption DEF LapseInv, Post, TypeOK
<1>5. ASSUME NEW p \in Posts, Handler(p) PROVE LapseInv'
  <2>1. Moved(p) /\ p \in Posts
    BY <1>5, HandlerMoves
  <2>2. UNCHANGED eligible
    BY <2>1 DEF Moved, env
  <2>3. ASSUME NEW q \in lapsed', q # p PROVE q \in lapsed
    BY <1>5, <2>3 DEF Handler, Refuse, Admit, Expire, Insert, Look, Call, Answer, NoAnswer, Recheck, Save, Fail, Cut
  <2>4. ASSUME p \in lapsed' PROVE ~eligible[post[p].case] /\ post'[p].at # "saving"
    <3>1. post[p] \in Post
      BY <2>1, Fields DEF Moved
    <3>2. CASE Answer(p)
      BY <2>4, <3>1, <3>2 DEF Answer, Goes, LapseInv, TypeOK, Post
    <3>3. CASE ~Answer(p)
      <4>1. p \in lapsed
        BY <1>5, <2>4, <3>3
        DEF Handler, Refuse, Admit, Expire, Insert, Look, Call, Answer, NoAnswer, Recheck, Save, Fail, Cut
      <4>2. ~eligible[post[p].case]
        BY <4>1 DEF LapseInv
      <4>3. post'[p].at # "saving"
        BY <1>5, <3>1, <3>3, <4>2
        DEF Handler, Refuse, Admit, Expire, Insert, Look, Call, Answer, NoAnswer, Recheck, Save, Fail, Cut,
            Goes, TypeOK, Post
      <4>4. QED
        BY <4>2, <4>3
    <3>4. QED
      BY <3>2, <3>3
  <2>5. QED
    <3>1. \A q \in lapsed : q \in Posts
      BY DEF TypeOK
    <3>2. ASSUME NEW q \in lapsed', q # p
          PROVE  post'[q] # None /\ post'[q].at # "saving" /\ ~eligible[post'[q].case]
      BY <2>1, <2>3, <3>1, <3>2 DEF LapseInv, Moved
    <3>3. p \in lapsed' => post'[p] # None /\ post'[p].at # "saving" /\ ~eligible[post'[p].case]
      BY <2>1, <2>4 DEF Moved
    <3>4. QED
      BY <2>2, <3>2, <3>3 DEF LapseInv
<1>6. QED
  BY <1>1, <1>2, <1>3, <1>4, <1>5
  DEF Next, Window, Tick, Select, Edit, Consent, Deploy, env, vars

-----------------------------------------------------------------------------
(* Theorems *)

IInv == TypeOK /\ NameInv /\ WorkInv /\ LapseInv

\* What holds of consents, ids, claims and eligibility at any moment.
THEOREM Invariant == Spec => []IInv
<1>1. Init => IInv
  BY InitType, InitNames, InitWork DEF Init, IInv, LapseInv
<1>2. IInv /\ [Next]_vars => IInv'
  BY StepType, StepNames, StepWork, StepLapse DEF IInv
<1>3. QED
  BY <1>1, <1>2, PTL DEF Spec

\* One consent pays for one call: the posts that were sent under it have one id, and one post
\* at most holds the row of an id.
THEOREM PaidOnce == Spec => []PaidOncePerConsent
<1>1. IInv => PaidOncePerConsent
  BY DEF IInv, NameInv, Given, WorkInv, Alone, Holds, PaidOncePerConsent
<1>2. QED
  BY <1>1, Invariant, PTL

\* A claim in time stands, and stands alone.
THEOREM ClaimsStand == Spec => []InTimeAlone
<1>1. ASSUME IInv PROVE InTimeAlone
  <2>1. SUFFICES ASSUME NEW p \in Posts, IsWorking(p), now < run[post[p].id].created + Stale
                 PROVE  /\ Pending(post[p].id)
                        /\ \A q \in Posts \ {p} : IsWorking(q) /\ post[q].case = post[p].case
                                                   => ~Pending(post[q].id)
    BY DEF InTimeAlone
  <2>2. Pending(post[p].id) /\ Holds(p) /\ post[p].id \in Posts
    BY <1>1, <2>1, Holder DEF IInv, WorkInv, InTime
  <2>3. ASSUME NEW q \in Posts \ {p}, IsWorking(q), post[q].case = post[p].case, Pending(post[q].id)
        PROVE  FALSE
    <3>1. Holds(q) /\ post[q].id \in Posts
      BY <1>1, <2>3, Holder DEF IInv
    <3>2. run[post[p].id].case = post[p].case /\ run[post[q].id].case = post[q].case
      BY <1>1, <2>2, <2>3, <3>1 DEF IInv, WorkInv, Row, Pending, NameInv, Named, Holds
    <3>3. post[p].id = post[q].id
      BY <1>1, <2>2, <2>3, <3>1, <3>2 DEF IInv, WorkInv, OnePending
    <3>4. QED
      BY <1>1, <2>2, <3>1, <3>3 DEF IInv, WorkInv, Alone
  <2>4. QED
    BY <2>2, <2>3
<1>2. QED
  BY <1>1, Invariant, PTL

\* The rows that a step changes.
LEMMA Writes ==
  ASSUME IInv, [Next]_vars, NEW r \in Posts, run[r] # None, run'[r] # run[r]
  PROVE  /\ Pending(r)
         /\ \/ run'[r].state = "failed"
            \/ \E p \in Posts : Save(p) /\ post[p].id = r
<1>1. PICK p \in Posts : Expire(p) \/ Insert(p) \/ Save(p) \/ Fail(p)
  BY DEF Next, Window, Tick, Select, Edit, Consent, Press, Reconsider, Deploy, Succeed, Disappoint, Handler,
         Refuse, Admit, Look, Call, Answer, NoAnswer, Recheck, Cut, vars
<1>2. run[r] \in Run /\ run \in [Posts -> Run \cup {None}]
  BY Fields DEF IInv, TypeOK
<1>3. CASE Expire(p)
  BY <1>2, <1>3 DEF Expire, Overdue, Run
<1>4. CASE Insert(p)
  BY <1>2, <1>4 DEF Insert, Claimable
<1>5. CASE Save(p)
  BY <1>2, <1>5 DEF Save, Open
<1>6. CASE Fail(p)
  BY <1>2, <1>6 DEF Fail, Open, Run
<1>7. QED
  BY <1>1, <1>3, <1>4, <1>5, <1>6

\* What a run has come to is final.
THEOREM FinalFate == Spec => FateIsFinal
<1>1. IInv /\ [Next]_vars => [\A r \in Posts : run[r] # None /\ ~Pending(r) => run'[r] = run[r]]_vars
  BY Writes
<1>2. QED
  BY <1>1, Invariant, PTL DEF Spec, FateIsFinal

\* Results are stored under a consent that held after the answer.
THEOREM ConsentedResults == Spec => SavedUnderConsent
<1>1. ASSUME IInv, [Next]_vars, NEW r \in Posts, Pending(r), run'[r] # None, run'[r].state = "done"
      PROVE  \E p \in Posts : post[p] # None /\ post[p].id = r /\ post[p].called /\ p \notin lapsed
  <2>1. run'[r] # run[r] /\ run[r] # None
    BY <1>1 DEF Pending
  <2>2. PICK p \in Posts : Save(p) /\ post[p].id = r
    BY <1>1, <2>1, Writes
  <2>3. post[p] # None /\ post[p].at = "saving"
    BY <2>2 DEF Save, IsAt
  <2>4. post[p].called /\ p \notin lapsed
    BY <1>1, <2>3 DEF IInv, WorkInv, Place, LapseInv
  <2>5. QED
    BY <2>2, <2>3, <2>4
<1>2. IInv /\ [Next]_vars =>
        [\A r \in Posts : Pending(r) /\ run'[r] # None /\ run'[r].state = "done"
           => \E p \in Posts : post[p] # None /\ post[p].id = r /\ post[p].called /\ p \notin lapsed]_vars
  BY <1>1
<1>3. QED
  BY <1>2, Invariant, PTL DEF Spec, SavedUnderConsent
=============================================================================
