------------------------- MODULE PortalSavesProofs -------------------------
(***************************************************************************)
(* Proofs about PortalSaves, for every number of pages, partners, cases,   *)
(* stages, edits, refreshes and lost answers.                              *)
(***************************************************************************)
EXTENDS PortalSaves, TLAPS

-----------------------------------------------------------------------------
(* Contents *)

LEMMA ContentOf ==
  ASSUME NEW S \in SUBSET Cases, NEW f \in [S -> Record]
  PROVE  f \in Content
BY DEF Content

LEMMA InContent ==
  ASSUME NEW x \in Content
  PROVE  /\ DOMAIN x \subseteq Cases
         /\ x \in [DOMAIN x -> Record]
         /\ \A c \in DOMAIN x : x[c] \in Record
         /\ x # None
<1>1. PICK S \in SUBSET Cases : x \in [S -> Record]
  BY DEF Content
<1>2. x # None
  BY NoneAssumption
<1>3. QED
  BY <1>1, <1>2

LEMMA ProjectType ==
  ASSUME NEW x \in Content, NEW fs \in Flows
  PROVE  /\ Project(x, fs) \in Content /\ DOMAIN Project(x, fs) = DOMAIN x
         /\ \A c \in DOMAIN x :
              /\ Project(x, fs)[c].life = x[c].life
              /\ fs[c] = None =>
                   /\ ~Project(x, fs)[c].managed
                   /\ Project(x, fs)[c].stage = x[c].stage
                   /\ Project(x, fs)[c].step = x[c].step
                   /\ Project(x, fs)[c].owner = x[c].owner
              /\ fs[c] # None => Project(x, fs)[c].managed
<1>1. /\ DOMAIN x \subseteq Cases
      /\ \A c \in DOMAIN x : x[c] \in Record
  BY InContent
<1>2. \A c \in DOMAIN x : fs[c] \in Flow \cup {None}
  BY <1>1 DEF Flows
<1>3. DOMAIN Project(x, fs) = DOMAIN x
  BY DEF Project
<1>4. ASSUME NEW c \in DOMAIN x
      PROVE  /\ Project(x, fs)[c] \in Record
             /\ Project(x, fs)[c].life = x[c].life
             /\ fs[c] = None =>
                  /\ ~Project(x, fs)[c].managed
                  /\ Project(x, fs)[c].stage = x[c].stage
                  /\ Project(x, fs)[c].step = x[c].step
                  /\ Project(x, fs)[c].owner = x[c].owner
             /\ fs[c] # None => Project(x, fs)[c].managed
  <2>1. x[c] \in Record /\ fs[c] \in Flow \cup {None}
    BY <1>1, <1>2
  <2>2. CASE fs[c] = None
    <3>1. Project(x, fs)[c] = [x[c] EXCEPT !.managed = FALSE]
      BY <2>2 DEF Project
    <3>2. QED
      BY <2>1, <2>2, <3>1 DEF Record
  <2>3. CASE fs[c] # None
    <3>1. Project(x, fs)[c] = [x[c] EXCEPT !.stage = fs[c].stage, !.step = fs[c].stage,
                                           !.owner = fs[c].owner, !.managed = TRUE]
      BY <2>3 DEF Project
    <3>2. fs[c] \in Flow
      BY <2>1, <2>3
    <3>3. QED
      BY <2>1, <2>3, <3>1, <3>2 DEF Record, Flow
  <2>4. QED
    BY <2>2, <2>3
<1>5. Project(x, fs) = [c \in DOMAIN x |-> Project(x, fs)[c]]
  BY DEF Project
<1>6. Project(x, fs) \in [DOMAIN x -> Record]
  BY <1>4, <1>5
<1>7. Project(x, fs) \in Content
  BY <1>1, <1>6, ContentOf
<1>8. QED
  BY <1>3, <1>4, <1>7

LEMMA ViewType ==
  ASSUME NEW x \in Content, NEW u
  PROVE  /\ View(x, u) \in Content
         /\ DOMAIN View(x, u) = {c \in DOMAIN x : u = Admin \/ x[c].owner = u}
         /\ \A c \in DOMAIN View(x, u) : View(x, u)[c] = x[c]
<1>1. /\ DOMAIN x \subseteq Cases
      /\ \A c \in DOMAIN x : x[c] \in Record
  BY InContent
<1>2. /\ DOMAIN View(x, u) = {c \in DOMAIN x : u = Admin \/ x[c].owner = u}
      /\ \A c \in DOMAIN View(x, u) : View(x, u)[c] = x[c]
  BY DEF View
<1>3. View(x, u) \in [{c \in DOMAIN x : u = Admin \/ x[c].owner = u} -> Record]
  BY <1>1 DEF View
<1>4. View(x, u) \in Content
  BY <1>1, <1>3, ContentOf
<1>5. QED
  BY <1>2, <1>4

LEMMA MergeType ==
  ASSUME NEW u \in Partners \cup {Admin}, NEW x \in Content, NEW b \in Content
  PROVE  /\ Merge(u, x, b) \in Content
         /\ u = Admin => Merge(u, x, b) = b
         /\ u # Admin =>
              /\ DOMAIN Merge(u, x, b) = DOMAIN x \cup DOMAIN b
              /\ \A c \in DOMAIN Merge(u, x, b) :
                   Merge(u, x, b)[c] =
                     IF c \in DOMAIN x /\ (c \notin DOMAIN b \/ x[c].owner # u)
                     THEN x[c] ELSE [b[c] EXCEPT !.owner = u]
<1>1. CASE u = Admin
  BY <1>1 DEF Merge
<1>2. CASE u # Admin
  <2>1. /\ DOMAIN x \subseteq Cases /\ DOMAIN b \subseteq Cases
        /\ \A c \in DOMAIN x : x[c] \in Record
        /\ \A c \in DOMAIN b : b[c] \in Record
    BY InContent
  <2>2. u \in Partners
    BY <1>2
  <2>3. Merge(u, x, b) = [c \in DOMAIN x \cup DOMAIN b |->
                            IF c \in DOMAIN x /\ (c \notin DOMAIN b \/ x[c].owner # u)
                            THEN x[c] ELSE [b[c] EXCEPT !.owner = u]]
    BY <1>2 DEF Merge
  <2>4. \A c \in DOMAIN b : [b[c] EXCEPT !.owner = u] \in Record
    BY <2>1, <2>2 DEF Record
  <2>5. Merge(u, x, b) \in [DOMAIN x \cup DOMAIN b -> Record]
    BY <2>1, <2>3, <2>4
  <2>6. Merge(u, x, b) \in Content
    BY <2>1, <2>5, ContentOf
  <2>7. QED
    BY <1>2, <2>3, <2>6
<1>3. QED
  BY <1>1, <1>2

LEMMA RecordOfLifecycle ==
  ASSUME NEW u, NEW s \in Record, NEW w \in Record
  PROVE  /\ Lifecycle(u, s, w) \in Record
         /\ Lifecycle(u, s, w).step = w.step
         /\ Lifecycle(u, s, w).owner = w.owner
         /\ Lifecycle(u, s, w).managed = w.managed
         /\ u # Admin => Lifecycle(u, s, w).life = s.life
         /\ u = Admin => w.life \in {"unset", Lifecycle(u, s, w).life}
         /\ \/ Lifecycle(u, s, w).stage = w.stage
            \/ Lifecycle(u, s, w).life = "discontinued"
BY DEF Lifecycle, Record

LEMMA RecordOfNewLifecycle ==
  ASSUME NEW w \in Record
  PROVE  /\ NewLifecycle(w) \in Record
         /\ NewLifecycle(w).step = w.step
         /\ NewLifecycle(w).owner = w.owner
         /\ NewLifecycle(w).managed = w.managed
         /\ NewLifecycle(w).stage = 1
<1>1. 1 \in Stages
  BY PortalSavesAssumption DEF Stages
<1>2. QED
  BY <1>1 DEF NewLifecycle, Record

LEMMA ProtectType ==
  ASSUME NEW u, NEW x \in Content, NEW m \in Content
  PROVE  /\ Protect(u, x, m) \in Content /\ DOMAIN Protect(u, x, m) = DOMAIN m
         /\ \A c \in DOMAIN m :
              Protect(u, x, m)[c] = IF c \in DOMAIN x THEN Lifecycle(u, x[c], m[c])
                                    ELSE NewLifecycle(m[c])
<1>1. /\ DOMAIN m \subseteq Cases
      /\ \A c \in DOMAIN x : x[c] \in Record
      /\ \A c \in DOMAIN m : m[c] \in Record
  BY InContent
<1>2. Protect(u, x, m) = [c \in DOMAIN m |-> IF c \in DOMAIN x THEN Lifecycle(u, x[c], m[c])
                                             ELSE NewLifecycle(m[c])]
  BY DEF Protect
<1>3. \A s \in Record, w \in Record : Lifecycle(u, s, w) \in Record
  BY RecordOfLifecycle
<1>4. \A w \in Record : NewLifecycle(w) \in Record
  BY RecordOfNewLifecycle
<1>5. Protect(u, x, m) \in [DOMAIN m -> Record]
  BY <1>1, <1>2, <1>3, <1>4
<1>6. Protect(u, x, m) \in Content
  BY <1>1, <1>5, ContentOf
<1>7. QED
  BY <1>2, <1>6

-----------------------------------------------------------------------------
(* The document a save asks for *)

LEMMA NextType ==
  ASSUME NEW r \in Request, r.base \in Content, NEW fs \in Flows,
         UserOf[r.page] \in Partners \cup {Admin}
  PROVE  /\ NextDocument(r, fs) \in Content
         /\ DOMAIN NextDocument(r, fs) =
              IF UserOf[r.page] = Admin THEN DOMAIN r.body ELSE DOMAIN r.base \cup DOMAIN r.body
<1> DEFINE u == UserOf[r.page]
           st == Project(r.base, r.seen)
           m  == Merge(u, st, r.body)
           pm == Project(m, fs)
<1>1. r.seen \in Flows /\ r.body \in Content
  BY DEF Request
<1>2. st \in Content /\ DOMAIN st = DOMAIN r.base
  BY <1>1, ProjectType
<1>3. /\ m \in Content
      /\ DOMAIN m = IF u = Admin THEN DOMAIN r.body ELSE DOMAIN r.base \cup DOMAIN r.body
  <2>0. u \in Partners \cup {Admin}
    OBVIOUS
  <2> HIDE DEF st, u
  <2>1. m \in Content
    BY <2>0, <1>1, <1>2, MergeType
  <2>2. u = Admin => m = r.body
    BY DEF Merge
  <2>3. u # Admin => DOMAIN m = DOMAIN st \cup DOMAIN r.body
    BY DEF Merge
  <2>4. QED
    BY <1>2, <2>1, <2>2, <2>3
<1>4. pm \in Content /\ DOMAIN pm = DOMAIN m
  BY <1>3, ProjectType
<1>5. Protect(u, st, pm) \in Content /\ DOMAIN Protect(u, st, pm) = DOMAIN pm
  BY <1>2, <1>4, ProtectType
<1>6. NextDocument(r, fs) = Protect(u, st, pm)
  BY DEF NextDocument
<1>7. QED
  BY <1>3, <1>4, <1>5, <1>6

LEMMA NextRecord ==
  ASSUME NEW r \in Request, r.base \in Content, NEW fs \in Flows,
         UserOf[r.page] \in Partners \cup {Admin},
         NEW c \in DOMAIN NextDocument(r, fs)
  PROVE  LET u    == UserOf[r.page]
             next == NextDocument(r, fs)[c]
             base == r.base[c]
             body == r.body[c]
         IN  /\ next.managed <=> fs[c] # None
             /\ u # Admin /\ c \in DOMAIN r.base => next.life = base.life
             /\ u = Admin /\ c \in DOMAIN r.base => body.life \in {"unset", next.life}
             /\ c \notin DOMAIN r.base => next.stage = 1
             /\ fs[c] = None /\ r.seen[c] = None =>
                  /\ u = Admin => next.step = body.step /\ next.owner = body.owner
                  /\ u # Admin /\ c \in DOMAIN r.base /\ (c \notin DOMAIN r.body \/ base.owner # u) =>
                       next.step = base.step /\ next.owner = base.owner
                  /\ u # Admin /\ c \in DOMAIN r.base /\ c \in DOMAIN r.body /\ base.owner = u =>
                       next.step = body.step /\ next.owner = u
                  /\ u # Admin /\ c \notin DOMAIN r.base => next.step = body.step
                  /\ c \in DOMAIN r.base /\ (u = Admin \/ (c \in DOMAIN r.body /\ base.owner = u)) =>
                       next.stage = body.stage \/ next.life = "discontinued"
<1> DEFINE u  == UserOf[r.page]
           st == Project(r.base, r.seen)
           m  == Merge(u, st, r.body)
           pm == Project(m, fs)
<1>1. r.seen \in Flows /\ r.body \in Content
  BY DEF Request
<1>2. /\ st \in Content /\ DOMAIN st = DOMAIN r.base
      /\ c \in DOMAIN r.base => st[c] \in Record /\ st[c].life = r.base[c].life
      /\ c \in DOMAIN r.base /\ r.seen[c] = None =>
           st[c].step = r.base[c].step /\ st[c].owner = r.base[c].owner
  BY <1>1, ProjectType, InContent
<1>3. /\ m \in Content
      /\ u = Admin => m = r.body
      /\ u # Admin =>
           /\ DOMAIN m = DOMAIN r.base \cup DOMAIN r.body
           /\ c \in DOMAIN m =>
                m[c] = IF c \in DOMAIN r.base /\ (c \notin DOMAIN r.body \/ st[c].owner # u)
                       THEN st[c] ELSE [r.body[c] EXCEPT !.owner = u]
  <2> HIDE DEF st
  <2>1. /\ m \in Content
        /\ u = Admin => m = r.body
        /\ u # Admin =>
             /\ DOMAIN m = DOMAIN st \cup DOMAIN r.body
             /\ \A d \in DOMAIN m :
                  m[d] = IF d \in DOMAIN st /\ (d \notin DOMAIN r.body \/ st[d].owner # u)
                         THEN st[d] ELSE [r.body[d] EXCEPT !.owner = u]
    BY <1>1, <1>2, MergeType
  <2>2. QED
    BY <1>2, <2>1
<1>4. /\ pm \in Content /\ DOMAIN pm = DOMAIN m
      /\ NextDocument(r, fs) = Protect(u, st, pm)
  BY <1>3, ProjectType DEF NextDocument
<1>5. c \in DOMAIN m /\ c \in DOMAIN pm
  BY <1>2, <1>4, ProtectType
<1>6. /\ m[c] \in Record /\ pm[c] \in Record
      /\ pm[c].life = m[c].life
      /\ fs[c] = None => /\ pm[c].stage = m[c].stage /\ pm[c].step = m[c].step
                         /\ pm[c].owner = m[c].owner
      /\ pm[c].managed <=> fs[c] # None
  BY <1>3, <1>4, <1>5, ProjectType, InContent
<1>7. NextDocument(r, fs)[c] = IF c \in DOMAIN r.base THEN Lifecycle(u, st[c], pm[c])
                               ELSE NewLifecycle(pm[c])
  BY <1>2, <1>4, <1>5, ProtectType
<1>8. c \in DOMAIN r.body => r.body[c] \in Record
  BY <1>1, InContent
<1> HIDE DEF st, m, pm
<1> DEFINE next == NextDocument(r, fs)[c]
<1>9. c \in DOMAIN r.base =>
        /\ next.step = pm[c].step /\ next.owner = pm[c].owner /\ next.managed = pm[c].managed
        /\ u # Admin => next.life = r.base[c].life
        /\ u = Admin => pm[c].life \in {"unset", next.life}
        /\ next.stage = pm[c].stage \/ next.life = "discontinued"
  BY <1>2, <1>6, <1>7, RecordOfLifecycle
<1>10. c \notin DOMAIN r.base =>
        /\ next.step = pm[c].step /\ next.owner = pm[c].owner /\ next.managed = pm[c].managed
        /\ next.stage = 1
  BY <1>6, <1>7, RecordOfNewLifecycle
<1>11. u # Admin /\ c \notin DOMAIN r.base => c \in DOMAIN r.body
  BY <1>3, <1>5
<1>12. u # Admin /\ c \in DOMAIN r.body /\ ~(c \in DOMAIN r.base /\ st[c].owner # u) =>
         m[c].step = r.body[c].step /\ m[c].stage = r.body[c].stage /\ m[c].owner = u
  BY <1>3, <1>5, <1>8 DEF Record
<1> HIDE DEF next
<1>13. next.managed <=> fs[c] # None
  BY <1>6, <1>9, <1>10
<1>14. u = Admin => m[c] = r.body[c]
  BY <1>3
<1>15. ASSUME fs[c] = None, r.seen[c] = None
       PROVE  /\ u = Admin => next.step = r.body[c].step /\ next.owner = r.body[c].owner
              /\ u # Admin /\ c \in DOMAIN r.base /\ (c \notin DOMAIN r.body \/ r.base[c].owner # u) =>
                   next.step = r.base[c].step /\ next.owner = r.base[c].owner
              /\ u # Admin /\ c \in DOMAIN r.base /\ c \in DOMAIN r.body /\ r.base[c].owner = u =>
                   next.step = r.body[c].step /\ next.owner = u
              /\ u # Admin /\ c \notin DOMAIN r.base => next.step = r.body[c].step
              /\ c \in DOMAIN r.base /\ (u = Admin \/ (c \in DOMAIN r.body /\ r.base[c].owner = u)) =>
                   next.stage = r.body[c].stage \/ next.life = "discontinued"
  <2>1. /\ next.step = m[c].step /\ next.owner = m[c].owner
        /\ c \in DOMAIN r.base => next.stage = m[c].stage \/ next.life = "discontinued"
    BY <1>6, <1>9, <1>10, <1>15
  <2>2. CASE u = Admin
    BY <2>1, <2>2, <1>14
  <2>3. CASE u # Admin /\ c \in DOMAIN r.base /\ (c \notin DOMAIN r.body \/ r.base[c].owner # u)
    BY <2>1, <2>3, <1>2, <1>3, <1>5, <1>15
  <2>4. CASE u # Admin /\ ~(c \in DOMAIN r.base /\ (c \notin DOMAIN r.body \/ r.base[c].owner # u))
    BY <2>1, <2>4, <1>2, <1>11, <1>12, <1>15
  <2>5. QED
    BY <2>2, <2>3, <2>4
<1>16. u = Admin /\ c \in DOMAIN r.base => r.body[c].life \in {"unset", next.life}
  BY <1>6, <1>9, <1>14
<1>17. QED
  BY <1>9, <1>10, <1>13, <1>15, <1>16 DEF next

-----------------------------------------------------------------------------
(***************************************************************************)
(* The inductive invariant                                                 *)
(***************************************************************************)
Users == Partners \cup {Admin}
Ids == FirstCases \cup submitted

\* A case that only its page knows: just submitted, at the first stage.
JustSubmitted(record) == record.stage = 1 /\ record.life = "unset"

\* Ids are never taken twice.
IdsInv ==
  /\ DOMAIN doc \subseteq Ids
  /\ \A p \in Pages : DOMAIN latest[p] \subseteq Ids /\ DOMAIN rev[p] \subseteq Ids

\* What a page holds fits together: what it knows agrees with the revision it
\* sends, what it takes for saved is what it knows, and a case it shows but
\* does not know is not in the document of that revision.
PageInv(p) ==
  /\ Agree(UserOf[p], known[p], rev[p])
  /\ confirmed[p] \in {None, known[p]}
  /\ DOMAIN known[p] \subseteq DOMAIN latest[p]
  /\ \A c \in DOMAIN latest[p] \ DOMAIN known[p] :
       c \notin DOMAIN rev[p] /\ (JustSubmitted(latest[p][c]) \/ c \in DOMAIN doc)
  /\ copy[p] # None => DOMAIN copy[p] \subseteq DOMAIN doc
  /\ calls[p] # None => DOMAIN calls[p].body = DOMAIN latest[p]

\* So does what a save carries; one that read the flows read no flow that is
\* not there any more, and one that is acknowledged is in its answer's document.
CallFits(r, ids, stored, flows) ==
  /\ Agree(UserOf[r.page], r.known, r.ifMatch)
  /\ DOMAIN r.known \subseteq DOMAIN r.body /\ DOMAIN r.body \subseteq ids
  /\ \A c \in DOMAIN r.body \ DOMAIN r.known :
       c \notin DOMAIN r.ifMatch /\ (JustSubmitted(r.body[c]) \/ c \in stored)
  /\ r.at = "read" => /\ r.base \in Content /\ DOMAIN r.base \subseteq ids
                      /\ \A c \in Cases : r.seen[c] # None => flows[c] # None
  /\ r.at = "ok" => /\ r.base \in Content /\ DOMAIN r.base \subseteq ids
                    /\ Agree(UserOf[r.page], r.body, r.base)

CallsInv == \A i \in Slots : calls[i] # None => CallFits(calls[i], Ids, DOMAIN doc, flow)

IInv ==
  /\ TypeOK
  /\ IdsInv
  /\ \A p \in Pages : PageInv(p)
  /\ CallsInv

-----------------------------------------------------------------------------
(* The contents that edits, refreshes and the server put in place *)

LEMMA FirstDocumentType ==
  /\ FirstDocument \in Content /\ DOMAIN FirstDocument = FirstCases
  /\ \A c \in FirstCases : ~FirstDocument[c].managed /\ FirstDocument[c].life = "active"
<1>1. 1 \in Stages
  BY PortalSavesAssumption DEF Stages
<1>2. FirstDocument \in [FirstCases -> Record]
  BY <1>1, PortalSavesAssumption DEF FirstDocument, Record
<1>3. FirstCases \in SUBSET Cases
  BY PortalSavesAssumption
<1>4. FirstDocument \in Content
  BY <1>2, <1>3, ContentOf
<1>5. QED
  BY <1>4 DEF FirstDocument

LEMMA UserType ==
  ASSUME NEW p \in Pages
  PROVE  UserOf[p] \in Partners \cup {Admin}
BY PortalSavesAssumption

LEMMA ExceptType ==
  ASSUME NEW x \in Content, NEW c \in DOMAIN x, NEW w \in Record
  PROVE  [x EXCEPT ![c] = w] \in Content /\ DOMAIN [x EXCEPT ![c] = w] = DOMAIN x
<1>1. DOMAIN x \in SUBSET Cases /\ x \in [DOMAIN x -> Record]
  BY InContent
<1>2. [x EXCEPT ![c] = w] \in [DOMAIN x -> Record]
  BY <1>1
<1>3. QED
  BY <1>1, <1>2, ContentOf

\* An edit puts the content x on the screen; S is the application it submits.
EditedTo(p, x, S) ==
  /\ Edit(p, x)
  /\ DOMAIN x = DOMAIN latest[p] \cup S
  /\ submitted' = submitted \cup S /\ S \cap submitted = {}
  /\ S # {} => ~Unsaved(p)
  /\ \A c \in S : JustSubmitted(x[c])
  /\ chosen' \in [Cases -> {"active", "discontinued"}]

LEMMA EditedContent ==
  ASSUME TypeOK, NEW p \in Pages, UserEdits(p)
  PROVE  \E x \in Content, S \in SUBSET DOMAIN DraftOf : EditedTo(p, x, S)
<1>1. /\ latest[p] \in Content /\ DOMAIN latest[p] \subseteq Cases
      /\ \A c \in DOMAIN latest[p] : latest[p][c] \in Record
  BY InContent DEF TypeOK
<1>2. chosen \in [Cases -> {"active", "discontinued"}]
  BY DEF TypeOK
<1>3. ASSUME NEW c \in DOMAIN latest[p], NEW w \in Record,
             Edit(p, [latest[p] EXCEPT ![c] = w]), submitted' = submitted,
             chosen' \in [Cases -> {"active", "discontinued"}]
      PROVE  \E x \in Content, S \in SUBSET DOMAIN DraftOf : EditedTo(p, x, S)
  <2>1. [latest[p] EXCEPT ![c] = w] \in Content
        /\ DOMAIN [latest[p] EXCEPT ![c] = w] = DOMAIN latest[p]
    BY <1>1, ExceptType
  <2>2. EditedTo(p, [latest[p] EXCEPT ![c] = w], {})
    BY <1>3, <2>1 DEF EditedTo
  <2>3. QED
    BY <2>1, <2>2
<1>4. ASSUME NEW c \in DOMAIN latest[p], NEW s \in Stages, EditStage(p, c, s)
      PROVE  \E x \in Content, S \in SUBSET DOMAIN DraftOf : EditedTo(p, x, S)
  <2> DEFINE w == [latest[p][c] EXCEPT !.stage = s, !.step = s]
  <2>1. w \in Record
    BY <1>1 DEF Record
  <2>2. [latest[p] EXCEPT ![c].stage = s, ![c].step = s] = [latest[p] EXCEPT ![c] = w]
    BY <1>1 DEF Record
  <2>3. Edit(p, [latest[p] EXCEPT ![c] = w]) /\ submitted' = submitted /\ chosen' = chosen
    BY <1>4, <2>2 DEF EditStage
  <2>4. QED
    BY <1>2, <1>3, <2>1, <2>3
<1>5. ASSUME NEW c \in DOMAIN latest[p], NEW o \in Partners, EditOwner(p, c, o)
      PROVE  \E x \in Content, S \in SUBSET DOMAIN DraftOf : EditedTo(p, x, S)
  <2> DEFINE w == [latest[p][c] EXCEPT !.owner = o]
  <2>1. w \in Record
    BY <1>1 DEF Record
  <2>2. [latest[p] EXCEPT ![c].owner = o] = [latest[p] EXCEPT ![c] = w]
    OBVIOUS
  <2>3. Edit(p, [latest[p] EXCEPT ![c] = w]) /\ submitted' = submitted /\ chosen' = chosen
    BY <1>5, <2>2 DEF EditOwner
  <2>4. QED
    BY <1>2, <1>3, <2>1, <2>3
<1>6. ASSUME NEW c \in DOMAIN latest[p], EditLife(p, c)
      PROVE  \E x \in Content, S \in SUBSET DOMAIN DraftOf : EditedTo(p, x, S)
  <2> DEFINE life == IF latest[p][c].life = "active" THEN "discontinued" ELSE "active"
             w == [latest[p][c] EXCEPT !.life = life]
  <2>1. w \in Record
    BY <1>1 DEF Record
  <2>2. [latest[p] EXCEPT ![c].life = life] = [latest[p] EXCEPT ![c] = w]
    OBVIOUS
  <2>3. /\ Edit(p, [latest[p] EXCEPT ![c] = w]) /\ submitted' = submitted
        /\ chosen' = [chosen EXCEPT ![c] = life]
    BY <1>6, <2>2 DEF EditLife
  <2>4. chosen' \in [Cases -> {"active", "discontinued"}]
    BY <1>1, <1>2, <2>3
  <2>5. QED
    BY <1>3, <2>1, <2>3, <2>4
<1>7. ASSUME NEW c \in Cases, NEW o \in Partners, Submit(p, c, o)
      PROVE  \E x \in Content, S \in SUBSET DOMAIN DraftOf : EditedTo(p, x, S)
  <2> DEFINE new == [stage |-> 1, step |-> 1, life |-> "unset", owner |-> o, managed |-> FALSE]
             x == [d \in DOMAIN latest[p] \cup {c} |-> IF d # c THEN latest[p][d] ELSE new]
  <2>1. new \in Record /\ JustSubmitted(new)
    BY PortalSavesAssumption DEF Record, Stages, JustSubmitted
  <2>2. x \in [DOMAIN latest[p] \cup {c} -> Record]
    BY <1>1, <2>1
  <2>3. x \in Content
    BY <1>1, <2>2, ContentOf
  <2>4. /\ Edit(p, x) /\ submitted' = submitted \cup {c} /\ ~Unsaved(p) /\ chosen' = chosen
        /\ c \in DOMAIN DraftOf /\ c \notin submitted
    BY <1>7 DEF Submit
  <2>5. JustSubmitted(x[c])
    BY <2>1
  <2> HIDE DEF x
  <2>6. EditedTo(p, x, {c}) /\ {c} \in SUBSET DOMAIN DraftOf
    BY <1>2, <2>2, <2>4, <2>5 DEF EditedTo
  <2>7. QED
    BY <2>3, <2>6
<1>8. QED
  BY <1>4, <1>5, <1>6, <1>7 DEF UserEdits

-----------------------------------------------------------------------------
(* Types *)

LEMMA UpdateType ==
  ASSUME TypeOK, NEW p \in Pages, NEW x \in Content, Update(p, x)
  PROVE  /\ latest' = [latest EXCEPT ![p] = x]
         /\ timer' \in [Pages -> BOOLEAN] /\ failed' \in [Pages -> BOOLEAN]
<1>1. /\ latest \in [Pages -> Content]
      /\ timer \in [Pages -> BOOLEAN] /\ failed \in [Pages -> BOOLEAN]
  BY DEF TypeOK
<1>2. CASE x = latest[p]
  <2>1. latest' = latest /\ timer' = timer /\ failed' = failed
    BY <1>2 DEF Update
  <2>2. QED
    BY <1>1, <1>2, <2>1
<1>3. CASE x # latest[p]
  <2>1. /\ latest' = [latest EXCEPT ![p] = x]
        /\ timer' = [timer EXCEPT ![p] = /\ flight[p] = "none"
                                         /\ x # confirmed[p]
                                         /\ ~failed[p]]
        /\ failed' = [failed EXCEPT ![p] = @ /\ ~(flight[p] = "none" /\ x = confirmed[p])]
    BY <1>3 DEF Update
  <2>2. (/\ flight[p] = "none" /\ x # confirmed[p] /\ ~failed[p]) \in BOOLEAN
    OBVIOUS
  <2>3. (failed[p] /\ ~(flight[p] = "none" /\ x = confirmed[p])) \in BOOLEAN
    OBVIOUS
  <2>4. QED
    BY <1>1, <2>1, <2>2, <2>3
<1>4. QED
  BY <1>2, <1>3

LEMMA NewRequestType ==
  ASSUME TypeOK, NEW p \in Pages, NEW v \in Content, NEW k \in Content
  PROVE  /\ NewRequest(p, v, k) \in Request /\ NewRequest(p, v, k) # None
         /\ NewRequest(p, v, k).page = p /\ NewRequest(p, v, k).at = "sent"
         /\ NewRequest(p, v, k).ifMatch = v /\ NewRequest(p, v, k).known = k
         /\ NewRequest(p, v, k).body = latest[p]
<1>1. latest[p] \in Content
  BY DEF TypeOK
<1>2. NoFlows \in Flows
  BY DEF NoFlows, Flows
<1>3. 0 \in 0 .. Attempts
  BY PortalSavesAssumption
<1>4. NewRequest(p, v, k) \in Request
  BY <1>1, <1>2, <1>3 DEF NewRequest, Request
<1>5. QED
  BY <1>4, NoneAssumption DEF NewRequest

LEMMA PageIsSlot ==
  ASSUME NEW p \in Pages
  PROVE  p \in Slots /\ \A n \in 1 .. MaxEvents : n # p
BY PortalSavesAssumption DEF Slots

LEMMA UserEditsType ==
  ASSUME TypeOK, NEW p \in Pages, UserEdits(p)
  PROVE  TypeOK'
<1>1. PICK x \in Content, S \in SUBSET DOMAIN DraftOf : EditedTo(p, x, S)
  BY EditedContent
<1>2. /\ Update(p, x) /\ edits' = edits + 1 /\ edits < MaxEdits
      /\ UNCHANGED <<doc, flow, revised, confirmed, flight, rev, known, calls, copy, moves, copies, faults>>
      /\ submitted' = submitted \cup S
      /\ chosen' \in [Cases -> {"active", "discontinued"}]
  BY <1>1 DEF EditedTo, Edit, storeVars
<1>3. /\ latest' = [latest EXCEPT ![p] = x]
      /\ timer' \in [Pages -> BOOLEAN] /\ failed' \in [Pages -> BOOLEAN]
  BY <1>2, UpdateType
<1>4. edits' \in 0 .. MaxEdits
  BY <1>2, PortalSavesAssumption DEF TypeOK
<1>5. latest' \in [Pages -> Content] /\ submitted' \subseteq DOMAIN DraftOf
  BY <1>2, <1>3 DEF TypeOK
<1>6. QED
  BY <1>2, <1>3, <1>4, <1>5 DEF TypeOK

LEMMA StartSaveType ==
  ASSUME TypeOK, NEW p \in Pages, StartSave(p)
  PROVE  TypeOK'
<1> DEFINE new == NewRequest(p, rev[p], known[p])
<1>1. new \in Request /\ new # None /\ new.page = p
  BY NewRequestType DEF TypeOK
<1> HIDE DEF new
<1>2. /\ timer' = [timer EXCEPT ![p] = FALSE] /\ failed' = [failed EXCEPT ![p] = FALSE]
      /\ flight' = [flight EXCEPT ![p] = "sending"] /\ calls' = [calls EXCEPT ![p] = new]
      /\ UNCHANGED <<doc, flow, revised, latest, confirmed, rev, known, copy, submitted, chosen,
                     edits, moves, copies, faults>>
  BY DEF StartSave, storeVars, boundVars, new
<1>3. /\ timer' \in [Pages -> BOOLEAN] /\ failed' \in [Pages -> BOOLEAN]
      /\ flight' \in [Pages -> {"none", "sending", "closing"}]
      /\ calls' \in [Slots -> Request \cup {None}]
  BY <1>1, <1>2 DEF TypeOK
<1>4. ASSUME NEW q \in Pages
      PROVE  /\ calls'[q] # None <=> flight'[q] = "sending"
             /\ calls'[q] # None => calls'[q].page = q
  BY <1>1, <1>2, PageIsSlot DEF TypeOK
<1>5. QED
  BY <1>2, <1>3, <1>4 DEF TypeOK

LEMMA AcknowledgedType ==
  ASSUME TypeOK, NEW p \in Pages, Acknowledged(p), calls[p].base \in Content
  PROVE  TypeOK'
<1> DEFINE r == calls[p]
           new == NewRequest(p, r.base, r.body)
<1>1. r \in Request /\ r # None /\ r.body \in Content
  BY PageIsSlot DEF TypeOK, Acknowledged, Request
<1>2. new \in Request /\ new # None /\ new.page = p
  BY <1>1, NewRequestType
<1> HIDE DEF new
<1>3. /\ confirmed' = [confirmed EXCEPT ![p] = r.body] /\ known' = [known EXCEPT ![p] = r.body]
      /\ rev' = [rev EXCEPT ![p] = r.base]
      /\ \/ calls' = [calls EXCEPT ![p] = new] /\ flight' = flight
         \/ calls' = [calls EXCEPT ![p] = None] /\ flight' = [flight EXCEPT ![p] = "closing"]
      /\ UNCHANGED <<doc, flow, revised, latest, timer, failed, copy, submitted, chosen,
                     edits, moves, copies, faults>>
  BY DEF Acknowledged, storeVars, boundVars, new
<1>4. /\ confirmed' \in [Pages -> Content \cup {None}] /\ known' \in [Pages -> Content]
      /\ rev' \in [Pages -> Content]
  BY <1>1, <1>3 DEF TypeOK
<1>5. /\ calls' \in [Slots -> Request \cup {None}]
      /\ flight' \in [Pages -> {"none", "sending", "closing"}]
  BY <1>2, <1>3 DEF TypeOK
<1>6. ASSUME NEW q \in Pages
      PROVE  /\ calls'[q] # None <=> flight'[q] = "sending"
             /\ calls'[q] # None => calls'[q].page = q
  BY <1>1, <1>2, <1>3, PageIsSlot DEF TypeOK
<1>7. QED
  BY <1>3, <1>4, <1>5, <1>6 DEF TypeOK

LEMMA FailType ==
  ASSUME TypeOK, NEW p \in Pages, Fail(p), calls' \in [Slots -> Request \cup {None}],
         calls'[p] = None, \A q \in Pages : q # p => calls'[q] = calls[q],
         faults' \in 0 .. MaxEvents, faults' + copies <= MaxEvents
  PROVE  TypeOK'
<1>1. /\ failed' = [failed EXCEPT ![p] = TRUE] /\ confirmed' = [confirmed EXCEPT ![p] = None]
      /\ flight' = [flight EXCEPT ![p] = "closing"]
      /\ UNCHANGED <<doc, flow, revised, latest, timer, rev, known, copy, submitted, chosen,
                     edits, moves, copies>>
  BY DEF Fail, storeVars
<1>2. /\ failed' \in [Pages -> BOOLEAN] /\ confirmed' \in [Pages -> Content \cup {None}]
      /\ flight' \in [Pages -> {"none", "sending", "closing"}]
  BY <1>1 DEF TypeOK
<1>3. ASSUME NEW q \in Pages
      PROVE  /\ calls'[q] # None <=> flight'[q] = "sending"
             /\ calls'[q] # None => calls'[q].page = q
  BY <1>1 DEF TypeOK
<1>4. QED
  BY <1>1, <1>2, <1>3 DEF TypeOK

LEMMA RefusedType ==
  ASSUME TypeOK, NEW p \in Pages, Refused(p)
  PROVE  TypeOK'
<1>1. calls' = [calls EXCEPT ![p] = None] /\ Fail(p) /\ faults' = faults
  BY DEF Refused
<1>2. /\ calls' \in [Slots -> Request \cup {None}] /\ calls'[p] = None
      /\ \A q \in Pages : q # p => calls'[q] = calls[q]
  BY <1>1, PageIsSlot DEF TypeOK
<1>3. QED
  BY <1>1, <1>2, FailType DEF TypeOK

LEMMA AnswerLostCalls ==
  ASSUME TypeOK, NEW p \in Pages, AnswerLost(p)
  PROVE  /\ calls' \in [Slots -> Request \cup {None}] /\ calls'[p] = None
         /\ \A q \in Pages : q # p => calls'[q] = calls[q]
         /\ \A i \in Slots : calls'[i] \in {None, calls[i], calls[p]}
<1>1. /\ faults + copies < MaxEvents
      /\ calls' = [calls EXCEPT ![p] = None,
                     ![faults + 1] = IF calls[p].at \in {"sent", "read"} THEN calls[p] ELSE None]
  BY DEF AnswerLost
<1>2. faults + 1 \in 1 .. MaxEvents
  BY <1>1, PortalSavesAssumption DEF TypeOK
<1>3. faults + 1 \in Slots /\ faults + 1 \notin Pages /\ p \in Slots
  BY <1>2, PageIsSlot DEF Slots
<1>4. calls \in [Slots -> Request \cup {None}] /\ Pages \subseteq Slots
  BY DEF TypeOK, Slots
<1>5. QED
  BY <1>1, <1>3, <1>4

LEMMA AnswerLostType ==
  ASSUME TypeOK, NEW p \in Pages, AnswerLost(p)
  PROVE  TypeOK'
<1>1. faults' = faults + 1 /\ faults + copies < MaxEvents /\ Fail(p)
  BY DEF AnswerLost
<1>2. faults' \in 0 .. MaxEvents /\ faults' + copies <= MaxEvents
  BY <1>1, PortalSavesAssumption DEF TypeOK
<1>3. QED
  BY <1>1, <1>2, AnswerLostCalls, FailType

LEMMA CleanupType ==
  ASSUME TypeOK, NEW p \in Pages, Cleanup(p)
  PROVE  TypeOK'
<1>1. /\ flight[p] = "closing" /\ flight' = [flight EXCEPT ![p] = "none"]
      /\ timer' = [timer EXCEPT ![p] = @ \/ (~failed[p] /\ latest[p] # confirmed[p])]
      /\ UNCHANGED <<doc, flow, revised, latest, confirmed, failed, rev, known, calls, copy, submitted,
                     chosen, edits, moves, copies, faults>>
  BY DEF Cleanup, storeVars, boundVars
<1>2. flight' \in [Pages -> {"none", "sending", "closing"}]
  BY <1>1 DEF TypeOK
<1>3. (timer[p] \/ (~failed[p] /\ latest[p] # confirmed[p])) \in BOOLEAN
  OBVIOUS
<1>4. timer' \in [Pages -> BOOLEAN]
  BY <1>1, <1>3 DEF TypeOK
<1>5. ASSUME NEW q \in Pages
      PROVE  /\ calls'[q] # None <=> flight'[q] = "sending"
             /\ calls'[q] # None => calls'[q].page = q
  BY <1>1 DEF TypeOK
<1>6. QED
  BY <1>1, <1>2, <1>4, <1>5 DEF TypeOK

\* What a page is given when it loads the document.
LEMMA ShownType ==
  ASSUME TypeOK, NEW u
  PROVE  /\ View(Project(doc, flow), u) \in Content
         /\ DOMAIN View(Project(doc, flow), u) \subseteq DOMAIN doc
<1>1. Project(doc, flow) \in Content /\ DOMAIN Project(doc, flow) = DOMAIN doc
  BY ProjectType DEF TypeOK
<1>2. QED
  BY <1>1, ViewType

LEMMA ReloadType ==
  ASSUME TypeOK, NEW p \in Pages, Reload(p)
  PROVE  TypeOK'
<1> DEFINE shown == View(Project(doc, flow), UserOf[p])
<1>1. shown \in Content
  BY ShownType
<1> HIDE DEF shown
<1>2. /\ latest' = [latest EXCEPT ![p] = shown] /\ confirmed' = [confirmed EXCEPT ![p] = shown]
      /\ known' = [known EXCEPT ![p] = shown] /\ rev' = [rev EXCEPT ![p] = doc]
      /\ timer' = [timer EXCEPT ![p] = FALSE] /\ failed' = [failed EXCEPT ![p] = FALSE]
      /\ copy' = [copy EXCEPT ![p] = None]
      /\ UNCHANGED <<doc, flow, revised, flight, calls, submitted, chosen, edits, moves, copies, faults>>
  BY DEF Reload, storeVars, boundVars, shown
<1>3. /\ latest' \in [Pages -> Content] /\ confirmed' \in [Pages -> Content \cup {None}]
      /\ known' \in [Pages -> Content] /\ rev' \in [Pages -> Content]
      /\ timer' \in [Pages -> BOOLEAN] /\ failed' \in [Pages -> BOOLEAN]
      /\ copy' \in [Pages -> Content \cup {None}]
  BY <1>1, <1>2 DEF TypeOK
<1>4. QED
  BY <1>2, <1>3 DEF TypeOK

LEMMA ReadCopyType ==
  ASSUME TypeOK, NEW p \in Pages, ReadCopy(p)
  PROVE  TypeOK'
<1> DEFINE shown == View(Project(doc, flow), UserOf[p])
<1>1. shown \in Content
  BY ShownType
<1> HIDE DEF shown
<1>2. /\ faults + copies < MaxEvents /\ copies' = copies + 1
      /\ copy' = [copy EXCEPT ![p] = shown]
      /\ UNCHANGED <<doc, flow, revised, latest, confirmed, timer, flight, failed, rev, known, calls,
                     submitted, chosen, edits, moves, faults>>
  BY DEF ReadCopy, storeVars, queueVars, shown
<1>3. copy' \in [Pages -> Content \cup {None}]
  BY <1>1, <1>2 DEF TypeOK
<1>4. copies' \in 0 .. MaxEvents /\ faults + copies' <= MaxEvents
  BY <1>2, PortalSavesAssumption DEF TypeOK
<1>5. QED
  BY <1>2, <1>3, <1>4 DEF TypeOK

\* What the screen shows once a refresh is applied.
Refreshed(p) ==
  [c \in DOMAIN latest[p] |->
     IF c \in DOMAIN copy[p] /\ copy[p][c].managed THEN copy[p][c] ELSE latest[p][c]]

LEMMA RefreshedType ==
  ASSUME TypeOK, NEW p \in Pages, copy[p] # None
  PROVE  /\ Refreshed(p) \in Content /\ DOMAIN Refreshed(p) = DOMAIN latest[p]
         /\ \A c \in DOMAIN latest[p] :
              Refreshed(p)[c] = latest[p][c] \/ c \in DOMAIN copy[p]
<1>1. /\ DOMAIN latest[p] \in SUBSET Cases
      /\ \A c \in DOMAIN latest[p] : latest[p][c] \in Record
      /\ \A c \in DOMAIN copy[p] : copy[p][c] \in Record
  BY InContent DEF TypeOK
<1>2. Refreshed(p) \in [DOMAIN latest[p] -> Record]
  BY <1>1 DEF Refreshed
<1>3. Refreshed(p) \in Content
  BY <1>1, <1>2, ContentOf
<1>4. QED
  BY <1>3 DEF Refreshed

LEMMA ApplyCopyType ==
  ASSUME TypeOK, NEW p \in Pages, ApplyCopy(p)
  PROVE  TypeOK'
<1>1. /\ copy[p] # None /\ Update(p, Refreshed(p)) /\ copy' = [copy EXCEPT ![p] = None]
      /\ UNCHANGED <<doc, flow, revised, confirmed, flight, rev, known, calls, submitted, chosen,
                     edits, moves, copies, faults>>
  BY DEF ApplyCopy, storeVars, boundVars, Refreshed
<1>2. Refreshed(p) \in Content
  BY <1>1, RefreshedType
<1>3. /\ latest' = [latest EXCEPT ![p] = Refreshed(p)]
      /\ timer' \in [Pages -> BOOLEAN] /\ failed' \in [Pages -> BOOLEAN]
  BY <1>1, <1>2, UpdateType
<1>4. latest' \in [Pages -> Content] /\ copy' \in [Pages -> Content \cup {None}]
  BY <1>1, <1>2, <1>3 DEF TypeOK
<1>5. QED
  BY <1>1, <1>3, <1>4 DEF TypeOK

\* The first step of a save reads the document, or refuses the save.
ReadTo(r, new) ==
  /\ new.page = r.page /\ new.ifMatch = r.ifMatch /\ new.body = r.body /\ new.known = r.known
  /\ \/ new.at = "read" /\ new.base = doc /\ new.seen = flow
     \/ new.at = "refused"

LEMMA ReadDocumentType ==
  ASSUME TypeOK, NEW i \in Slots, ReadDocument(i)
  PROVE  /\ TypeOK'
         /\ \E new \in Request : calls' = [calls EXCEPT ![i] = new] /\ ReadTo(calls[i], new)
<1> DEFINE r == calls[i]
           read == [r EXCEPT !.at = "read", !.base = doc, !.seen = flow]
           new == IF DraftStands(r, doc) THEN read ELSE Answer(r, "refused", None)
<1>1. r \in Request /\ r # None /\ r.at = "sent"
  BY DEF TypeOK, ReadDocument
<1>2. doc \in Content /\ flow \in Flows
  BY DEF TypeOK
<1>3. new \in Request /\ ReadTo(r, new)
  <2>1. read \in Request /\ ReadTo(r, read)
    BY <1>1, <1>2 DEF Request, ReadTo
  <2>2. Answer(r, "refused", None) \in Request /\ ReadTo(r, Answer(r, "refused", None))
    <3>1. NoFlows \in Flows
      BY DEF NoFlows, Flows
    <3>2. QED
      BY <1>1, <3>1 DEF Answer, Request, ReadTo
  <2> HIDE DEF read
  <2>3. QED
    BY <2>1, <2>2
<1>4. /\ calls' = [calls EXCEPT ![i] = new]
      /\ UNCHANGED <<doc, flow, revised, latest, confirmed, timer, flight, failed, rev, known, copy,
                     submitted, chosen, edits, moves, copies, faults>>
  BY DEF ReadDocument, storeVars, queueVars, boundVars
<1> HIDE DEF new
<1>5. new # None /\ new.page = r.page
  BY <1>3, NoneAssumption DEF ReadTo
<1>6. calls' \in [Slots -> Request \cup {None}]
  BY <1>3, <1>4 DEF TypeOK
<1>7. ASSUME NEW q \in Pages
      PROVE  /\ calls'[q] # None <=> flight'[q] = "sending"
             /\ calls'[q] # None => calls'[q].page = q
  BY <1>1, <1>4, <1>5, PageIsSlot DEF TypeOK
<1>8. TypeOK'
  BY <1>4, <1>6, <1>7 DEF TypeOK
<1>9. QED
  BY <1>3, <1>4, <1>8

\* What the second step of a save does.
SaveTo(r, new, next) ==
  /\ new.page = r.page /\ new.ifMatch = r.ifMatch /\ new.body = r.body /\ new.known = r.known
  /\ new.at \in {"sent", "ok", "refused"}
  /\ new.at = "ok" => new.base = next
  /\ \/ doc' = doc /\ (new.at = "ok" => next = r.base)
     \/ /\ doc' = next /\ doc = r.base /\ r.ifMatch = r.base
        /\ (DOMAIN r.body \ DOMAIN doc) \cap revised = {}

LEMMA SaveResult ==
  ASSUME TypeOK, NEW i \in Slots, Save(i), calls[i].base \in Content
  PROVE  /\ calls[i] \in Request /\ calls[i] # None /\ calls[i].at = "read"
         /\ UserOf[calls[i].page] \in Partners \cup {Admin}
         /\ NextDocument(calls[i], flow) \in Content
         /\ \E new \in Request : /\ calls' = [calls EXCEPT ![i] = new]
                                 /\ SaveTo(calls[i], new, NextDocument(calls[i], flow))
<1> DEFINE r == calls[i]
           next == NextDocument(r, flow)
<1>1. r \in Request /\ r # None /\ r.at = "read" /\ r.page \in Pages
  BY DEF TypeOK, Save, Request
<1>2. UserOf[r.page] \in Partners \cup {Admin}
  BY <1>1, UserType
<1>3. next \in Content
  BY <1>1, <1>2, NextType DEF TypeOK
<1>4. Outcome(i, next)
  BY DEF Save
<1> HIDE DEF next
<1>5. NoFlows \in Flows
  BY DEF NoFlows, Flows
<1>6. ASSUME NEW a \in {"ok", "refused", "sent"}, NEW b \in Content \cup {None}
      PROVE  /\ Answer(r, a, b) \in Request
             /\ Answer(r, a, b).page = r.page /\ Answer(r, a, b).ifMatch = r.ifMatch
             /\ Answer(r, a, b).body = r.body /\ Answer(r, a, b).known = r.known
             /\ Answer(r, a, b).at = a /\ Answer(r, a, b).base = b
             /\ Answer(r, a, b).tries = r.tries
  BY <1>1, <1>5 DEF Answer, Request
<1>7. CASE /\ StaleRevision(r) /\ next # r.base
           /\ calls' = [calls EXCEPT ![i] = Answer(r, "refused", None)] /\ UNCHANGED doc
  <2>1. Answer(r, "refused", None) \in Request /\ SaveTo(r, Answer(r, "refused", None), next)
    BY <1>6, <1>7 DEF SaveTo
  <2>2. QED
    BY <1>1, <1>2, <1>3, <1>7, <2>1 DEF next
<1>8. CASE /\ next = r.base
           /\ calls' = [calls EXCEPT ![i] = Answer(r, "ok", r.base)] /\ UNCHANGED doc
  <2>1. Answer(r, "ok", r.base) \in Request /\ SaveTo(r, Answer(r, "ok", r.base), next)
    BY <1>3, <1>6, <1>8 DEF SaveTo
  <2>2. QED
    BY <1>1, <1>2, <1>3, <1>8, <2>1 DEF next
<1>9. CASE /\ ~StaleRevision(r) /\ next # r.base /\ doc = r.base /\ DraftGuard(r)
           /\ calls' = [calls EXCEPT ![i] = Answer(r, "ok", next)] /\ doc' = next
  <2>1. Answer(r, "ok", next) \in Request /\ SaveTo(r, Answer(r, "ok", next), next)
    BY <1>3, <1>6, <1>9 DEF SaveTo, StaleRevision, DraftGuard, DraftStands
  <2>2. QED
    BY <1>1, <1>2, <1>3, <1>9, <2>1 DEF next
<1>10. CASE /\ r.tries + 1 < Attempts /\ UNCHANGED doc
            /\ calls' = [calls EXCEPT ![i] = [Answer(r, "sent", None) EXCEPT !.tries = @ + 1]]
  <2> DEFINE a == Answer(r, "sent", None)
             new == [a EXCEPT !.tries = @ + 1]
  <2>1. a \in Request /\ a.tries = r.tries /\ SaveTo(r, a, next)
    BY <1>6, <1>10 DEF SaveTo
  <2>2. a.at = "sent"
    BY <1>6
  <2> HIDE DEF a
  <2>3. a.tries + 1 \in 0 .. Attempts
    BY <1>10, <2>1, PortalSavesAssumption DEF Request
  <2>4. /\ new \in Request /\ new.page = a.page /\ new.ifMatch = a.ifMatch
        /\ new.body = a.body /\ new.known = a.known /\ new.at = a.at
    BY <2>1, <2>3 DEF Request
  <2> HIDE DEF new
  <2>5. SaveTo(r, new, next)
    BY <2>1, <2>2, <2>4, <1>10 DEF SaveTo
  <2>6. calls' = [calls EXCEPT ![i] = new]
    BY <1>10 DEF new, a
  <2>7. QED
    BY <1>1, <1>2, <1>3, <2>4, <2>5, <2>6 DEF next
<1>11. CASE /\ calls' = [calls EXCEPT ![i] = Answer(r, "refused", None)] /\ UNCHANGED doc
  <2>1. Answer(r, "refused", None) \in Request /\ SaveTo(r, Answer(r, "refused", None), next)
    BY <1>6, <1>11 DEF SaveTo
  <2>2. QED
    BY <1>1, <1>2, <1>3, <1>11, <2>1 DEF next
<1>12. QED
  BY <1>4, <1>7, <1>8, <1>9, <1>10, <1>11 DEF Outcome

LEMMA SaveType ==
  ASSUME TypeOK, NEW i \in Slots, Save(i), calls[i].base \in Content
  PROVE  TypeOK'
<1> DEFINE r == calls[i]
           next == NextDocument(r, flow)
<1>1. r # None /\ next \in Content
  BY SaveResult
<1>2. PICK new \in Request : calls' = [calls EXCEPT ![i] = new] /\ SaveTo(r, new, next)
  BY SaveResult
<1> HIDE DEF next
<1>3. UNCHANGED <<flow, revised, latest, confirmed, timer, flight, failed, rev, known, copy,
                  submitted, chosen, edits, moves, copies, faults>>
  BY DEF Save, queueVars, boundVars
<1>4. doc' \in Content /\ new.page = r.page /\ new # None
  BY <1>1, <1>2, NoneAssumption DEF SaveTo, TypeOK
<1>5. calls' \in [Slots -> Request \cup {None}]
  BY <1>2 DEF TypeOK
<1>6. ASSUME NEW q \in Pages
      PROVE  /\ calls'[q] # None <=> flight'[q] = "sending"
             /\ calls'[q] # None => calls'[q].page = q
  BY <1>1, <1>2, <1>3, <1>4, PageIsSlot DEF TypeOK
<1>7. QED
  BY <1>3, <1>4, <1>5, <1>6 DEF TypeOK

LEMMA FlowMovesType ==
  ASSUME TypeOK, NEW c \in Cases, NEW s \in Stages, FlowMoves(c, s)
  PROVE  /\ TypeOK'
         /\ \A d \in Cases : flow[d] # None => flow'[d] # None
<1> DEFINE o == IF flow[c] = None THEN doc[c].owner ELSE flow[c].owner
           f == [stage |-> s, owner |-> o]
<1>1. /\ moves < MaxMoves /\ moves' = moves + 1 /\ c \in DOMAIN doc
      /\ flow' = [flow EXCEPT ![c] = f]
      /\ UNCHANGED <<doc, revised, latest, confirmed, timer, flight, failed, rev, known, calls, copy,
                     submitted, chosen, edits, copies, faults>>
  BY DEF FlowMoves, queueVars
<1>2. doc[c] \in Record /\ flow \in Flows /\ flow[c] \in Flow \cup {None}
  BY <1>1, InContent DEF TypeOK, Flows
<1>3. o \in Partners
  BY <1>2 DEF Record, Flow
<1>4. f \in Flow
  BY <1>3 DEF Flow
<1> HIDE DEF f
<1>5. flow' \in Flows
  BY <1>1, <1>2, <1>4 DEF Flows
<1>6. moves' \in 0 .. MaxMoves
  BY <1>1, PortalSavesAssumption DEF TypeOK
<1>7. TypeOK'
  BY <1>1, <1>5, <1>6 DEF TypeOK
<1>8. \A d \in Cases : flow[d] # None => flow'[d] # None
  BY <1>1, <1>2, <1>4, NoneAssumption DEF Flows
<1>9. QED
  BY <1>7, <1>8

-----------------------------------------------------------------------------
(* What agrees *)

LEMMA AgreeDomain ==
  ASSUME NEW u, NEW mine, NEW stored, Agree(u, mine, stored)
  PROVE  /\ DOMAIN mine \subseteq DOMAIN stored
         /\ u = Admin => DOMAIN mine = DOMAIN stored
BY DEF Agree

LEMMA AgreeView ==
  ASSUME NEW u \in Users, NEW x \in Content, NEW y \in Content, DOMAIN y = DOMAIN x,
         \A c \in DOMAIN x :
           /\ y[c].life = x[c].life
           /\ \/ y[c].managed
              \/ y[c].stage = x[c].stage /\ y[c].step = x[c].step /\ y[c].owner = x[c].owner
  PROVE  Agree(u, View(y, u), x)
<1>1. /\ DOMAIN View(y, u) = {c \in DOMAIN y : u = Admin \/ y[c].owner = u}
      /\ \A c \in DOMAIN View(y, u) : View(y, u)[c] = y[c]
  BY ViewType
<1>2. \A c \in DOMAIN View(y, u) :
        /\ c \in DOMAIN x
        /\ SameStage(View(y, u)[c], x[c])
        /\ SameLife(View(y, u)[c], x[c])
        /\ SameOwner(View(y, u)[c], x[c])
  BY <1>1 DEF SameStage, SameLife, SameOwner, Managed
<1>3. QED
  BY <1>1, <1>2 DEF Agree

\* What a page loads agrees with the document whose revision comes with it.
LEMMA AgreeShown ==
  ASSUME NEW u \in Users, NEW x \in Content, NEW fs \in Flows
  PROVE  Agree(u, View(Project(x, fs), u), x)
<1>1. /\ Project(x, fs) \in Content /\ DOMAIN Project(x, fs) = DOMAIN x
      /\ \A c \in DOMAIN x :
           /\ Project(x, fs)[c].life = x[c].life
           /\ \/ Project(x, fs)[c].managed
              \/ /\ Project(x, fs)[c].stage = x[c].stage
                 /\ Project(x, fs)[c].step = x[c].step
                 /\ Project(x, fs)[c].owner = x[c].owner
  BY ProjectType
<1>2. QED
  BY <1>1, AgreeView

\* What a save asks for agrees with what it sent, when its new cases are new.
LEMMA AgreeNext ==
  ASSUME NEW r \in Request, r.base \in Content, NEW fs \in Flows,
         UserOf[r.page] \in Users,
         \A c \in Cases : r.seen[c] # None => fs[c] # None,
         \A c \in DOMAIN r.body \ DOMAIN r.base : JustSubmitted(r.body[c])
  PROVE  Agree(UserOf[r.page], r.body, NextDocument(r, fs))
<1> DEFINE u == UserOf[r.page]
           next == NextDocument(r, fs)
<1>1. u \in Partners \cup {Admin} /\ Admin \notin Partners
  BY PortalSavesAssumption DEF Users
<1>2. DOMAIN next = IF u = Admin THEN DOMAIN r.body ELSE DOMAIN r.base \cup DOMAIN r.body
  BY <1>1, NextType
<1>3. DOMAIN r.body \subseteq Cases
  BY InContent DEF Request
<1>4. ASSUME NEW c \in DOMAIN r.body
      PROVE  /\ c \in DOMAIN next
             /\ u \in {Admin, next[c].owner} => SameStage(r.body[c], next[c])
             /\ u = Admin => SameLife(r.body[c], next[c]) /\ SameOwner(r.body[c], next[c])
  <2>1. c \in DOMAIN next /\ c \in Cases
    BY <1>2, <1>3
  <2> DEFINE n == next[c]
  <2>2. /\ n.managed <=> fs[c] # None
        /\ u = Admin /\ c \in DOMAIN r.base => r.body[c].life \in {"unset", n.life}
        /\ c \notin DOMAIN r.base => n.stage = 1
        /\ fs[c] = None /\ r.seen[c] = None =>
             /\ u = Admin => n.step = r.body[c].step /\ n.owner = r.body[c].owner
             /\ u # Admin /\ c \in DOMAIN r.base /\ r.base[c].owner # u => n.owner = r.base[c].owner
             /\ u # Admin /\ c \in DOMAIN r.base /\ r.base[c].owner = u => n.step = r.body[c].step
             /\ u # Admin /\ c \notin DOMAIN r.base => n.step = r.body[c].step
             /\ c \in DOMAIN r.base /\ (u = Admin \/ r.base[c].owner = u) =>
                  n.stage = r.body[c].stage \/ n.life = "discontinued"
    BY <1>1, <2>1, NextRecord
  <2> HIDE DEF n
  <2>3. c \notin DOMAIN r.base => r.body[c].stage = 1 /\ r.body[c].life = "unset"
    BY DEF JustSubmitted
  <2>4. u \in {Admin, n.owner} => SameStage(r.body[c], n)
    <3>1. CASE fs[c] # None
      BY <2>2, <3>1 DEF SameStage, Managed
    <3>2. CASE fs[c] = None
      <4>1. r.seen[c] = None
        BY <2>1, <3>2
      <4>2. QED
        BY <2>2, <2>3, <3>2, <4>1 DEF SameStage
    <3>3. QED
      BY <3>1, <3>2
  <2>5. u = Admin => SameLife(r.body[c], n)
    BY <2>2, <2>3 DEF SameLife
  <2>6. u = Admin => SameOwner(r.body[c], n)
    <3>1. CASE fs[c] # None
      BY <2>2, <3>1 DEF SameOwner, Managed
    <3>2. CASE fs[c] = None
      BY <2>1, <2>2, <3>2 DEF SameOwner
    <3>3. QED
      BY <3>1, <3>2
  <2>7. QED
    BY <2>1, <2>4, <2>5, <2>6 DEF n
<1>5. QED
  BY <1>2, <1>4 DEF Agree

-----------------------------------------------------------------------------
(* What a step leaves alone *)

LEMMA PageFrame ==
  ASSUME NEW q \in Pages, PageInv(q),
         latest'[q] = latest[q], known'[q] = known[q], rev'[q] = rev[q],
         confirmed'[q] \in {None, confirmed[q]}, copy'[q] \in {None, copy[q]},
         calls'[q] # None => DOMAIN calls'[q].body = DOMAIN latest[q],
         DOMAIN doc \subseteq DOMAIN doc'
  PROVE  PageInv(q)'
BY DEF PageInv

LEMMA CallFrame ==
  ASSUME NEW r, NEW ids, NEW stored, NEW flows, CallFits(r, ids, stored, flows),
         NEW ids2, NEW stored2, NEW flows2, ids \subseteq ids2, stored \subseteq stored2,
         \A c \in Cases : flows[c] # None => flows2[c] # None
  PROVE  CallFits(r, ids2, stored2, flows2)
BY DEF CallFits

LEMMA CallsFrame ==
  ASSUME CallsInv, Ids \subseteq Ids', DOMAIN doc \subseteq DOMAIN doc',
         \A c \in Cases : flow[c] # None => flow'[c] # None,
         \A i \in Slots : \/ calls'[i] = None
                          \/ \E j \in Slots : calls[j] # None /\ calls'[i] = calls[j]
                          \/ CallFits(calls'[i], Ids', DOMAIN doc', flow')
  PROVE  CallsInv'
<1>1. ASSUME NEW i \in Slots, calls'[i] # None
      PROVE  CallFits(calls'[i], Ids', DOMAIN doc', flow')
  <2>1. CASE \E j \in Slots : calls[j] # None /\ calls'[i] = calls[j]
    <3>1. PICK j \in Slots : calls[j] # None /\ calls'[i] = calls[j]
      BY <2>1
    <3>2. CallFits(calls[j], Ids, DOMAIN doc, flow)
      BY <3>1 DEF CallsInv
    <3>3. CallFits(calls[j], Ids', DOMAIN doc', flow')
      BY <3>2, CallFrame
    <3>4. QED
      BY <3>1, <3>3
  <2>2. QED
    BY <1>1, <2>1
<1>2. QED
  BY <1>1 DEF CallsInv

LEMMA NewRequestFits ==
  ASSUME TypeOK, IdsInv, NEW p \in Pages, NEW v \in Content, NEW k \in Content,
         Agree(UserOf[p], k, v), DOMAIN k \subseteq DOMAIN latest[p],
         \A c \in DOMAIN latest[p] \ DOMAIN k :
           c \notin DOMAIN v /\ (JustSubmitted(latest[p][c]) \/ c \in DOMAIN doc)
  PROVE  CallFits(NewRequest(p, v, k), Ids, DOMAIN doc, flow)
<1>1. /\ NewRequest(p, v, k).page = p /\ NewRequest(p, v, k).at = "sent"
      /\ NewRequest(p, v, k).ifMatch = v /\ NewRequest(p, v, k).known = k
      /\ NewRequest(p, v, k).body = latest[p]
  BY NewRequestType
<1>2. QED
  BY <1>1 DEF CallFits, IdsInv

-----------------------------------------------------------------------------
(* Every step preserves the invariant *)

LEMMA InitInv == Init => IInv
<1> SUFFICES ASSUME Init PROVE IInv
  OBVIOUS
<1>1. /\ FirstDocument \in Content /\ DOMAIN FirstDocument = FirstCases
      /\ NoFlows \in Flows
      /\ \A p \in Pages : View(FirstDocument, UserOf[p]) \in Content
                          /\ DOMAIN View(FirstDocument, UserOf[p]) \subseteq FirstCases
  BY FirstDocumentType, ViewType DEF NoFlows, Flows
<1>2. /\ doc = FirstDocument /\ flow = NoFlows
      /\ latest = [p \in Pages |-> View(FirstDocument, UserOf[p])]
      /\ confirmed = latest /\ known = latest
      /\ timer = [p \in Pages |-> FALSE] /\ failed = timer
      /\ flight = [p \in Pages |-> "none"]
      /\ rev = [p \in Pages |-> FirstDocument]
      /\ calls = [i \in Slots |-> None] /\ copy = [p \in Pages |-> None]
      /\ revised = {} /\ submitted = {} /\ chosen = [c \in Cases |-> "active"]
      /\ edits = 0 /\ moves = 0 /\ copies = 0 /\ faults = 0
  BY DEF Init
<1>3. TypeOK
  <2>1. 0 \in 0 .. MaxEdits /\ 0 \in 0 .. MaxMoves /\ 0 \in 0 .. MaxEvents /\ 0 + 0 <= MaxEvents
    BY PortalSavesAssumption
  <2>2. /\ latest \in [Pages -> Content] /\ confirmed \in [Pages -> Content \cup {None}]
        /\ known \in [Pages -> Content] /\ rev \in [Pages -> Content]
    BY <1>1, <1>2
  <2>3. \A p \in Pages : calls[p] = None /\ flight[p] # "sending"
    BY <1>2, PageIsSlot
  <2>4. QED
    BY <1>1, <1>2, <2>1, <2>2, <2>3 DEF TypeOK
<1>4. IdsInv
  BY <1>1, <1>2 DEF IdsInv, Ids
<1>5. ASSUME NEW p \in Pages
      PROVE  PageInv(p)
  <2>1. Agree(UserOf[p], View(FirstDocument, UserOf[p]), FirstDocument)
    BY <1>1, UserType, AgreeView DEF Users
  <2>2. QED
    BY <1>2, <2>1, PageIsSlot DEF PageInv
<1>6. CallsInv
  BY <1>2 DEF CallsInv
<1>7. QED
  BY <1>3, <1>4, <1>5, <1>6 DEF IInv

LEMMA UserEditsInv ==
  ASSUME IInv, NEW p \in Pages, UserEdits(p)
  PROVE  IInv'
<1>1. PICK x \in Content, S \in SUBSET DOMAIN DraftOf : EditedTo(p, x, S)
  BY EditedContent DEF IInv
<1>2. TypeOK /\ IdsInv /\ CallsInv /\ \A q \in Pages : PageInv(q)
  BY DEF IInv
<1>3. /\ ~Locked(p) /\ Update(p, x)
      /\ UNCHANGED <<doc, flow, confirmed, flight, rev, known, calls, copy>>
      /\ DOMAIN x = DOMAIN latest[p] \cup S
      /\ submitted' = submitted \cup S /\ S \cap submitted = {}
      /\ S # {} => ~Unsaved(p)
      /\ \A c \in S : JustSubmitted(x[c])
  BY <1>1 DEF EditedTo, Edit, storeVars
<1>4. latest' = [latest EXCEPT ![p] = x]
  BY <1>2, <1>3, UpdateType
<1>5. latest'[p] = x /\ \A q \in Pages : q # p => latest'[q] = latest[q]
  BY <1>2, <1>4 DEF TypeOK
<1>6. S \cap FirstCases = {}
  BY PortalSavesAssumption
<1>7. TypeOK'
  BY <1>2, UserEditsType
<1>8. IdsInv'
  <2>1. Ids' = Ids \cup S
    BY <1>3 DEF Ids
  <2>2. ASSUME NEW q \in Pages
        PROVE  DOMAIN latest'[q] \subseteq Ids' /\ DOMAIN rev'[q] \subseteq Ids'
    BY <1>2, <1>3, <1>5, <2>1 DEF IdsInv
  <2>3. QED
    BY <1>2, <1>3, <2>1, <2>2 DEF IdsInv
<1>9. PageInv(p)'
  <2>1. S \cap DOMAIN rev[p] = {}
    BY <1>2, <1>3, <1>6 DEF IdsInv, Ids
  <2>2. DOMAIN latest[p] = DOMAIN known[p]
    BY <1>2, <1>3 DEF Locked, PageInv
  <2>3. calls[p] # None => S = {}
    BY <1>2, <1>3 DEF Unsaved, TypeOK
  <2>4. calls[p] # None => DOMAIN calls[p].body = DOMAIN x
    BY <1>2, <1>3, <2>3 DEF PageInv
  <2>5. QED
    BY <1>2, <1>3, <1>5, <2>1, <2>2, <2>4 DEF PageInv
<1>10. ASSUME NEW q \in Pages, q # p
       PROVE  PageInv(q)'
  BY <1>2, <1>3, <1>5, <1>10 DEF PageInv
<1>11. CallsInv'
  <2>1. Ids \subseteq Ids'
    BY <1>3 DEF Ids
  <2>2. QED
    BY <1>2, <1>3, <2>1, CallsFrame
<1>12. QED
  BY <1>7, <1>8, <1>9, <1>10, <1>11 DEF IInv

LEMMA StartSaveInv ==
  ASSUME IInv, NEW p \in Pages, StartSave(p)
  PROVE  IInv'
<1> DEFINE new == NewRequest(p, rev[p], known[p])
<1>1. TypeOK /\ IdsInv /\ CallsInv /\ \A q \in Pages : PageInv(q)
  BY DEF IInv
<1>2. CallFits(new, Ids, DOMAIN doc, flow)
  BY <1>1, NewRequestFits DEF TypeOK, PageInv
<1>3. new.body = latest[p]
  BY <1>1, NewRequestType DEF TypeOK
<1> HIDE DEF new
<1>4. /\ calls' = [calls EXCEPT ![p] = new]
      /\ UNCHANGED <<doc, flow, latest, confirmed, rev, known, copy, submitted>>
  BY DEF StartSave, storeVars, new
<1>5. calls'[p] = new /\ \A i \in Slots : i # p => calls'[i] = calls[i]
  BY <1>1, <1>4, PageIsSlot DEF TypeOK
<1>6. TypeOK'
  BY <1>1, StartSaveType
<1>7. IdsInv'
  BY <1>1, <1>4 DEF IdsInv, Ids
<1>8. ASSUME NEW q \in Pages
      PROVE  PageInv(q)'
  BY <1>1, <1>3, <1>4, <1>5, PageIsSlot DEF PageInv
<1>9. CallsInv'
  <2>1. Ids' = Ids
    BY <1>4 DEF Ids
  <2>2. QED
    BY <1>1, <1>2, <1>4, <1>5, <2>1, CallsFrame
<1>10. QED
  BY <1>6, <1>7, <1>8, <1>9 DEF IInv

LEMMA AcknowledgedInv ==
  ASSUME IInv, NEW p \in Pages, Acknowledged(p)
  PROVE  IInv'
<1> DEFINE r == calls[p]
           new == NewRequest(p, r.base, r.body)
<1>1. TypeOK /\ IdsInv /\ CallsInv /\ \A q \in Pages : PageInv(q)
  BY DEF IInv
<1>2. r # None /\ r.at = "ok" /\ r \in Request /\ r.page = p /\ r.body \in Content
  BY <1>1, PageIsSlot DEF Acknowledged, TypeOK, Request
<1>3. CallFits(r, Ids, DOMAIN doc, flow)
  BY <1>1, <1>2, PageIsSlot DEF CallsInv
<1>4. /\ r.base \in Content /\ DOMAIN r.base \subseteq Ids
      /\ Agree(UserOf[p], r.body, r.base) /\ DOMAIN r.body = DOMAIN latest[p]
  BY <1>1, <1>2, <1>3 DEF CallFits, PageInv
<1>5. CallFits(new, Ids, DOMAIN doc, flow)
  BY <1>1, <1>2, <1>4, NewRequestFits
<1>6. new.body = latest[p]
  BY <1>1, <1>2, <1>4, NewRequestType
<1> HIDE DEF new
<1>7. /\ confirmed' = [confirmed EXCEPT ![p] = r.body] /\ known' = [known EXCEPT ![p] = r.body]
      /\ rev' = [rev EXCEPT ![p] = r.base]
      /\ \/ calls' = [calls EXCEPT ![p] = new]
         \/ calls' = [calls EXCEPT ![p] = None]
      /\ UNCHANGED <<doc, flow, latest, copy, submitted>>
  BY DEF Acknowledged, storeVars, new
<1>8. /\ calls'[p] \in {None, new} /\ \A i \in Slots : i # p => calls'[i] = calls[i]
  BY <1>1, <1>7, PageIsSlot DEF TypeOK
<1>9. /\ confirmed'[p] = r.body /\ known'[p] = r.body /\ rev'[p] = r.base
      /\ \A q \in Pages : q # p =>
           confirmed'[q] = confirmed[q] /\ known'[q] = known[q] /\ rev'[q] = rev[q]
  BY <1>1, <1>7 DEF TypeOK
<1>10. TypeOK'
  BY <1>1, <1>4, AcknowledgedType
<1>11. IdsInv'
  BY <1>1, <1>4, <1>7, <1>9 DEF IdsInv, Ids
<1>12. PageInv(p)'
  BY <1>1, <1>4, <1>6, <1>7, <1>8, <1>9 DEF PageInv
<1>13. ASSUME NEW q \in Pages, q # p
       PROVE  PageInv(q)'
  BY <1>1, <1>7, <1>8, <1>9, <1>13, PageIsSlot DEF PageInv
<1>14. CallsInv'
  <2>1. Ids' = Ids
    BY <1>7 DEF Ids
  <2>2. QED
    BY <1>1, <1>5, <1>7, <1>8, <2>1, CallsFrame
<1>15. QED
  BY <1>10, <1>11, <1>12, <1>13, <1>14 DEF IInv

\* A step of a page that changes neither what it shows and knows nor the
\* document, and sends nothing.
LEMMA QuietStepInv ==
  ASSUME IInv, TypeOK',
         UNCHANGED <<doc, flow, latest, rev, known, submitted>>,
         \A q \in Pages : /\ confirmed'[q] \in {None, confirmed[q]}
                          /\ copy'[q] # None => DOMAIN copy'[q] \subseteq DOMAIN doc
                          /\ calls'[q] \in {None, calls[q]},
         \A i \in Slots : \/ calls'[i] = None
                          \/ \E j \in Slots : calls[j] # None /\ calls'[i] = calls[j]
  PROVE  IInv'
<1>1. TypeOK /\ IdsInv /\ CallsInv /\ \A q \in Pages : PageInv(q)
  BY DEF IInv
<1>2. IdsInv'
  BY <1>1 DEF IdsInv, Ids
<1>3. ASSUME NEW q \in Pages
      PROVE  PageInv(q)'
  BY <1>1 DEF PageInv
<1>4. CallsInv'
  <2>1. Ids' = Ids
    BY DEF Ids
  <2>2. QED
    BY <1>1, <2>1, CallsFrame
<1>5. QED
  BY <1>2, <1>3, <1>4 DEF IInv

LEMMA RefusedInv ==
  ASSUME IInv, NEW p \in Pages, Refused(p)
  PROVE  IInv'
<1>1. TypeOK /\ \A q \in Pages : PageInv(q)
  BY DEF IInv
<1>2. /\ calls' = [calls EXCEPT ![p] = None] /\ confirmed' = [confirmed EXCEPT ![p] = None]
      /\ UNCHANGED <<doc, flow, latest, rev, known, copy, submitted>>
  BY DEF Refused, Fail, storeVars
<1>3. \A i \in Slots : calls'[i] \in {None, calls[i]}
  BY <1>1, <1>2 DEF TypeOK
<1>4. \A q \in Pages : /\ confirmed'[q] \in {None, confirmed[q]}
                       /\ copy'[q] # None => DOMAIN copy'[q] \subseteq DOMAIN doc
                       /\ calls'[q] \in {None, calls[q]}
  BY <1>1, <1>2, <1>3, PageIsSlot DEF TypeOK, PageInv
<1>5. QED
  BY <1>1, <1>2, <1>3, <1>4, RefusedType, QuietStepInv

LEMMA AnswerLostInv ==
  ASSUME IInv, NEW p \in Pages, AnswerLost(p)
  PROVE  IInv'
<1>1. TypeOK /\ \A q \in Pages : PageInv(q)
  BY DEF IInv
<1>2. /\ calls[p] # None /\ confirmed' = [confirmed EXCEPT ![p] = None]
      /\ UNCHANGED <<doc, flow, latest, rev, known, copy, submitted>>
  BY DEF AnswerLost, Fail, storeVars
<1>3. /\ calls'[p] = None /\ \A q \in Pages : q # p => calls'[q] = calls[q]
      /\ \A i \in Slots : calls'[i] \in {None, calls[i], calls[p]}
  BY <1>1, AnswerLostCalls
<1>4. \A q \in Pages : /\ confirmed'[q] \in {None, confirmed[q]}
                       /\ copy'[q] # None => DOMAIN copy'[q] \subseteq DOMAIN doc
                       /\ calls'[q] \in {None, calls[q]}
  BY <1>1, <1>2, <1>3 DEF TypeOK, PageInv
<1>5. \A i \in Slots : \/ calls'[i] = None
                       \/ \E j \in Slots : calls[j] # None /\ calls'[i] = calls[j]
  BY <1>2, <1>3, PageIsSlot
<1>6. QED
  BY <1>1, <1>2, <1>4, <1>5, AnswerLostType, QuietStepInv

LEMMA CleanupInv ==
  ASSUME IInv, NEW p \in Pages, Cleanup(p)
  PROVE  IInv'
<1>1. TypeOK /\ \A q \in Pages : PageInv(q)
  BY DEF IInv
<1>2. UNCHANGED <<doc, flow, latest, confirmed, rev, known, calls, copy, submitted>>
  BY DEF Cleanup, storeVars
<1>3. \A q \in Pages : copy[q] # None => DOMAIN copy[q] \subseteq DOMAIN doc
  BY <1>1 DEF PageInv
<1>4. QED
  BY <1>1, <1>2, <1>3, CleanupType, QuietStepInv

LEMMA ReadCopyInv ==
  ASSUME IInv, NEW p \in Pages, ReadCopy(p)
  PROVE  IInv'
<1> DEFINE shown == View(Project(doc, flow), UserOf[p])
<1>1. TypeOK /\ \A q \in Pages : PageInv(q)
  BY DEF IInv
<1>2. DOMAIN shown \subseteq DOMAIN doc
  BY <1>1, ShownType
<1> HIDE DEF shown
<1>3. /\ copy' = [copy EXCEPT ![p] = shown]
      /\ UNCHANGED <<doc, flow, latest, confirmed, rev, known, calls, submitted>>
  BY DEF ReadCopy, storeVars, queueVars, shown
<1>4. \A q \in Pages : copy'[q] # None => DOMAIN copy'[q] \subseteq DOMAIN doc
  BY <1>1, <1>2, <1>3 DEF PageInv, TypeOK
<1>5. QED
  BY <1>1, <1>3, <1>4, ReadCopyType, QuietStepInv

LEMMA ReloadInv ==
  ASSUME IInv, NEW p \in Pages, Reload(p)
  PROVE  IInv'
<1> DEFINE shown == View(Project(doc, flow), UserOf[p])
<1>1. TypeOK /\ IdsInv /\ CallsInv /\ \A q \in Pages : PageInv(q)
  BY DEF IInv
<1>2. DOMAIN shown \subseteq DOMAIN doc /\ Agree(UserOf[p], shown, doc)
  BY <1>1, ShownType, AgreeShown, UserType DEF Users, TypeOK
<1> HIDE DEF shown
<1>3. /\ flight[p] = "none"
      /\ latest' = [latest EXCEPT ![p] = shown] /\ confirmed' = [confirmed EXCEPT ![p] = shown]
      /\ known' = [known EXCEPT ![p] = shown] /\ rev' = [rev EXCEPT ![p] = doc]
      /\ copy' = [copy EXCEPT ![p] = None]
      /\ UNCHANGED <<doc, flow, calls, submitted>>
  BY DEF Reload, storeVars, shown
<1>4. /\ latest'[p] = shown /\ confirmed'[p] = shown /\ known'[p] = shown
      /\ rev'[p] = doc /\ copy'[p] = None
      /\ \A q \in Pages : q # p =>
           /\ latest'[q] = latest[q] /\ confirmed'[q] = confirmed[q] /\ known'[q] = known[q]
           /\ rev'[q] = rev[q] /\ copy'[q] = copy[q]
  BY <1>1, <1>3 DEF TypeOK
<1>5. TypeOK'
  BY <1>1, ReloadType
<1>6. IdsInv'
  BY <1>1, <1>2, <1>3, <1>4 DEF IdsInv, Ids
<1>7. PageInv(p)'
  <2>1. calls'[p] = None
    BY <1>1, <1>3 DEF TypeOK
  <2>2. QED
    BY <1>2, <1>4, <2>1 DEF PageInv
<1>8. ASSUME NEW q \in Pages, q # p
      PROVE  PageInv(q)'
  BY <1>1, <1>3, <1>4, <1>8 DEF PageInv
<1>9. CallsInv'
  <2>1. Ids' = Ids
    BY <1>3 DEF Ids
  <2>2. QED
    BY <1>1, <1>3, <2>1, CallsFrame
<1>10. QED
  BY <1>5, <1>6, <1>7, <1>8, <1>9 DEF IInv

LEMMA ApplyCopyInv ==
  ASSUME IInv, NEW p \in Pages, ApplyCopy(p)
  PROVE  IInv'
<1> DEFINE x == Refreshed(p)
<1>1. TypeOK /\ IdsInv /\ CallsInv /\ \A q \in Pages : PageInv(q)
  BY DEF IInv
<1>2. /\ copy[p] # None /\ Update(p, x) /\ copy' = [copy EXCEPT ![p] = None]
      /\ UNCHANGED <<doc, flow, confirmed, rev, known, calls, submitted>>
  BY DEF ApplyCopy, storeVars, Refreshed
<1>3. /\ x \in Content /\ DOMAIN x = DOMAIN latest[p]
      /\ \A c \in DOMAIN latest[p] : x[c] = latest[p][c] \/ c \in DOMAIN copy[p]
  BY <1>1, <1>2, RefreshedType
<1> HIDE DEF x
<1>4. latest' = [latest EXCEPT ![p] = x]
  BY <1>1, <1>2, <1>3, UpdateType
<1>5. /\ latest'[p] = x /\ copy'[p] = None
      /\ \A q \in Pages : q # p => latest'[q] = latest[q] /\ copy'[q] = copy[q]
  BY <1>1, <1>2, <1>4 DEF TypeOK
<1>6. TypeOK'
  BY <1>1, ApplyCopyType
<1>7. IdsInv'
  BY <1>1, <1>2, <1>3, <1>5 DEF IdsInv, Ids
<1>8. PageInv(p)'
  <2>1. DOMAIN copy[p] \subseteq DOMAIN doc
    BY <1>1, <1>2 DEF PageInv
  <2>2. QED
    BY <1>1, <1>2, <1>3, <1>5, <2>1 DEF PageInv
<1>9. ASSUME NEW q \in Pages, q # p
      PROVE  PageInv(q)'
  BY <1>1, <1>2, <1>5, <1>9 DEF PageInv
<1>10. CallsInv'
  <2>1. Ids' = Ids
    BY <1>2 DEF Ids
  <2>2. QED
    BY <1>1, <1>2, <2>1, CallsFrame
<1>11. QED
  BY <1>6, <1>7, <1>8, <1>9, <1>10 DEF IInv

LEMMA ReadDocumentInv ==
  ASSUME IInv, NEW i \in Slots, ReadDocument(i)
  PROVE  IInv'
<1>1. TypeOK /\ IdsInv /\ CallsInv /\ \A q \in Pages : PageInv(q)
  BY DEF IInv
<1>2. PICK new \in Request :
        /\ calls' = [calls EXCEPT ![i] = new]
        /\ ReadTo(calls[i], new)
  BY <1>1, ReadDocumentType
<1>3. calls[i] # None /\ calls[i] \in Request
  BY <1>1 DEF ReadDocument, TypeOK
<1>4. /\ new.page = calls[i].page /\ new.known = calls[i].known /\ new.body = calls[i].body
      /\ new.ifMatch = calls[i].ifMatch
      /\ \/ new.at = "read" /\ new.base = doc /\ new.seen = flow
         \/ new.at = "refused"
  BY <1>2 DEF ReadTo
<1>5. UNCHANGED <<doc, flow, latest, confirmed, rev, known, copy, submitted>>
  BY DEF ReadDocument, storeVars, queueVars
<1>6. calls'[i] = new /\ \A j \in Slots : j # i => calls'[j] = calls[j]
  BY <1>1, <1>2 DEF TypeOK
<1>7. TypeOK'
  BY <1>1, ReadDocumentType
<1>8. IdsInv'
  BY <1>1, <1>5 DEF IdsInv, Ids
<1>9. ASSUME NEW q \in Pages
      PROVE  PageInv(q)'
  <2>1. calls'[q] # None => DOMAIN calls'[q].body = DOMAIN latest[q]
    BY <1>1, <1>3, <1>4, <1>6, PageIsSlot DEF PageInv
  <2>2. QED
    BY <1>1, <1>5, <2>1 DEF PageInv
<1>10. CallsInv'
  <2>1. CallFits(calls[i], Ids, DOMAIN doc, flow)
    BY <1>1, <1>3 DEF CallsInv
  <2>2. CallFits(new, Ids, DOMAIN doc, flow)
    BY <1>1, <1>4, <2>1 DEF CallFits, IdsInv, TypeOK
  <2>3. Ids' = Ids
    BY <1>5 DEF Ids
  <2>4. QED
    BY <1>1, <1>5, <1>6, <2>2, <2>3, CallsFrame
<1>11. QED
  BY <1>7, <1>8, <1>9, <1>10 DEF IInv

\* A save that is carried out started from the document it replaces, and drops
\* no case of it.
LEMMA SaveKeepsCases ==
  ASSUME NEW r \in Request, r.base \in Content, UserOf[r.page] \in Partners \cup {Admin},
         NEW ids, NEW stored, NEW fs \in Flows, CallFits(r, ids, stored, fs),
         r.ifMatch = r.base
  PROVE  DOMAIN r.base \subseteq DOMAIN NextDocument(r, fs)
<1>1. /\ UserOf[r.page] = Admin => DOMAIN r.known = DOMAIN r.ifMatch
      /\ DOMAIN r.known \subseteq DOMAIN r.body
  BY AgreeDomain DEF CallFits
<1>2. QED
  BY <1>1, NextType

LEMMA SaveInv ==
  ASSUME IInv, NEW i \in Slots, Save(i)
  PROVE  IInv'
<1> DEFINE r == calls[i]
           next == NextDocument(r, flow)
<1>1. TypeOK /\ IdsInv /\ CallsInv /\ \A q \in Pages : PageInv(q)
  BY DEF IInv
<1>2. r # None /\ r.at = "read"
  BY DEF Save
<1>3. CallFits(r, Ids, DOMAIN doc, flow)
  BY <1>1, <1>2 DEF CallsInv
<1>4. /\ r.base \in Content /\ DOMAIN r.base \subseteq Ids
      /\ \A c \in Cases : r.seen[c] # None => flow[c] # None
      /\ DOMAIN r.body \subseteq Ids
  BY <1>2, <1>3 DEF CallFits
<1>5. r \in Request /\ UserOf[r.page] \in Partners \cup {Admin} /\ next \in Content
  BY <1>1, <1>4, SaveResult
<1>6. PICK new \in Request : calls' = [calls EXCEPT ![i] = new] /\ SaveTo(r, new, next)
  BY <1>1, <1>4, SaveResult
<1>7. DOMAIN next \subseteq Ids /\ DOMAIN r.body \subseteq DOMAIN next
  <2>1. DOMAIN next = IF UserOf[r.page] = Admin THEN DOMAIN r.body
                      ELSE DOMAIN r.base \cup DOMAIN r.body
    BY <1>1, <1>4, <1>5, NextType DEF TypeOK
  <2> HIDE DEF next
  <2>2. QED
    BY <1>4, <2>1
<1>8. r.ifMatch = r.base => DOMAIN r.base \subseteq DOMAIN next
  BY <1>1, <1>3, <1>4, <1>5, SaveKeepsCases DEF TypeOK
<1>9. (\A c \in DOMAIN r.body \ DOMAIN r.base : JustSubmitted(r.body[c]))
        => Agree(UserOf[r.page], r.body, next)
  BY <1>1, <1>4, <1>5, AgreeNext DEF TypeOK, Users
<1> HIDE DEF next
<1>10. UNCHANGED <<flow, latest, confirmed, rev, known, copy, submitted>>
  BY DEF Save, queueVars
<1>11. DOMAIN doc \subseteq DOMAIN doc'
  BY <1>6, <1>8 DEF SaveTo
<1>12. new.at = "ok" => Agree(UserOf[r.page], r.body, next)
  <2>1. ASSUME new.at = "ok", NEW c \in DOMAIN r.body \ DOMAIN r.base
        PROVE  JustSubmitted(r.body[c])
    <3>1. next # r.base
      BY <1>7, <2>1
    <3>2. doc = r.base /\ r.ifMatch = r.base
      BY <1>6, <2>1, <3>1 DEF SaveTo
    <3>3. c \notin DOMAIN r.known
      BY <1>3, <2>1, <3>2, AgreeDomain DEF CallFits
    <3>4. QED
      BY <1>3, <2>1, <3>2, <3>3 DEF CallFits
  <2>2. QED
    BY <1>9, <2>1
<1>13. CallFits(new, Ids, DOMAIN doc', flow)
  BY <1>3, <1>5, <1>6, <1>7, <1>11, <1>12 DEF CallFits, SaveTo
<1>14. calls'[i] = new /\ \A j \in Slots : j # i => calls'[j] = calls[j]
  BY <1>1, <1>6 DEF TypeOK
<1>15. TypeOK'
  BY <1>1, <1>4, SaveType
<1>16. IdsInv'
  <2>1. DOMAIN doc' \subseteq Ids
    BY <1>1, <1>6, <1>7 DEF SaveTo, IdsInv
  <2>2. QED
    BY <1>1, <1>10, <2>1 DEF IdsInv, Ids
<1>17. ASSUME NEW q \in Pages
       PROVE  PageInv(q)'
  <2>1. calls'[q] # None => DOMAIN calls'[q].body = DOMAIN latest[q]
    BY <1>1, <1>2, <1>6, <1>14, PageIsSlot DEF PageInv, SaveTo
  <2>2. QED
    BY <1>1, <1>10, <1>11, <2>1, PageFrame
<1>18. CallsInv'
  <2>1. Ids' = Ids
    BY <1>10 DEF Ids
  <2>2. QED
    BY <1>1, <1>10, <1>11, <1>13, <1>14, <2>1, CallsFrame
<1>19. QED
  BY <1>15, <1>16, <1>17, <1>18 DEF IInv

LEMMA FlowMovesInv ==
  ASSUME IInv, NEW c \in Cases, NEW s \in Stages, FlowMoves(c, s)
  PROVE  IInv'
<1>1. TypeOK /\ IdsInv /\ CallsInv /\ \A q \in Pages : PageInv(q)
  BY DEF IInv
<1>2. UNCHANGED <<doc, latest, confirmed, rev, known, calls, copy, submitted>>
  BY DEF FlowMoves, queueVars
<1>3. TypeOK' /\ \A d \in Cases : flow[d] # None => flow'[d] # None
  BY <1>1, FlowMovesType
<1>4. IdsInv'
  BY <1>1, <1>2 DEF IdsInv, Ids
<1>5. ASSUME NEW q \in Pages
      PROVE  PageInv(q)'
  BY <1>1, <1>2 DEF PageInv
<1>6. CallsInv'
  <2>1. Ids' = Ids
    BY <1>2 DEF Ids
  <2>2. QED
    BY <1>1, <1>2, <1>3, <2>1, CallsFrame
<1>7. QED
  BY <1>3, <1>4, <1>5, <1>6 DEF IInv

LEMMA ReviseDraftInv ==
  ASSUME IInv, NEW c \in Cases, ReviseDraft(c)
  PROVE  IInv'
<1>1. TypeOK /\ \A q \in Pages : PageInv(q)
  BY DEF IInv
<1>2. /\ edits < MaxEdits /\ edits' = edits + 1 /\ c \in submitted
      /\ revised' = revised \cup {c}
      /\ UNCHANGED <<doc, flow, latest, confirmed, timer, flight, failed, rev, known, calls, copy,
                     submitted, chosen, moves, copies, faults>>
  BY DEF ReviseDraft, queueVars
<1>3. edits' \in 0 .. MaxEdits
  BY <1>1, <1>2, PortalSavesAssumption DEF TypeOK
<1>4. revised' \subseteq submitted'
  BY <1>1, <1>2 DEF TypeOK
<1>5. TypeOK'
  BY <1>1, <1>2, <1>3, <1>4 DEF TypeOK
<1>6. \A q \in Pages : copy[q] # None => DOMAIN copy[q] \subseteq DOMAIN doc
  BY <1>1 DEF PageInv
<1>7. QED
  BY <1>2, <1>5, <1>6, QuietStepInv

LEMMA NextInv == IInv /\ [Next]_vars => IInv'
<1> SUFFICES ASSUME IInv, [Next]_vars PROVE IInv'
  OBVIOUS
<1>1. ASSUME NEW p \in Pages, PageStep(p)
      PROVE  IInv'
  <2>1. CASE UserEdits(p)
    BY <2>1, UserEditsInv
  <2>2. CASE TimerFires(p) \/ SaveAgain(p)
    BY <2>2, StartSaveInv DEF TimerFires, SaveAgain
  <2>3. CASE Acknowledged(p)
    BY <2>3, AcknowledgedInv
  <2>4. CASE Refused(p)
    BY <2>4, RefusedInv
  <2>5. CASE AnswerLost(p)
    BY <2>5, AnswerLostInv
  <2>6. CASE Cleanup(p)
    BY <2>6, CleanupInv
  <2>7. CASE Reload(p)
    BY <2>7, ReloadInv
  <2>8. CASE ReadCopy(p)
    BY <2>8, ReadCopyInv
  <2>9. CASE ApplyCopy(p)
    BY <2>9, ApplyCopyInv
  <2>10. QED
    BY <1>1, <2>1, <2>2, <2>3, <2>4, <2>5, <2>6, <2>7, <2>8, <2>9 DEF PageStep
<1>2. ASSUME NEW i \in Slots, ServerStep(i)
      PROVE  IInv'
  BY <1>2, ReadDocumentInv, SaveInv DEF ServerStep
<1>3. ASSUME NEW c \in Cases, NEW s \in Stages, FlowMoves(c, s)
      PROVE  IInv'
  BY <1>3, FlowMovesInv
<1>4. ASSUME NEW c \in Cases, ReviseDraft(c)
      PROVE  IInv'
  BY <1>4, ReviseDraftInv
<1>5. CASE UNCHANGED vars
  <2>1. UNCHANGED <<doc, flow, revised, latest, confirmed, timer, flight, failed, rev, known, calls, copy,
                    submitted, chosen, edits, moves, copies, faults>>
    BY <1>5 DEF vars
  <2>2. TypeOK'
    BY <2>1 DEF TypeOK, IInv
  <2>3. QED
    BY <2>1, <2>2 DEF IInv, IdsInv, Ids, PageInv, CallsInv
<1>6. QED
  BY <1>1, <1>2, <1>3, <1>4, <1>5 DEF Next

-----------------------------------------------------------------------------
(* The theorems *)

\* The invariant holds for every number of pages, partners, cases and stages.
THEOREM Invariant == Spec => []IInv
<1>1. QED
  BY InitInv, NextInv, PTL DEF Spec

\* Every variable keeps its type, and a page has a save on its way exactly
\* while its queue waits for one (lib/portal-save-queue.ts, flight).
THEOREM TypeCorrect == Spec => []TypeOK
<1>1. IInv => TypeOK
  BY DEF IInv
<1>2. QED
  BY <1>1, Invariant, PTL

\* What a settled queue shows as saved is in the document whose revision the
\* page holds (lib/portal-save-queue.ts, drain; app/api/state/route.ts, PUT).
THEOREM SavedIsStored == Spec => []SavedMeansStored
<1>1. IInv => SavedMeansStored
  <2> SUFFICES ASSUME IInv, NEW p \in Pages, Saved(p)
               PROVE  Agree(UserOf[p], latest[p], rev[p])
    BY DEF SavedMeansStored
  <2>1. latest[p] = confirmed[p] /\ latest[p] \in Content /\ PageInv(p)
    BY DEF Saved, Unsaved, IInv, TypeOK
  <2>2. latest[p] = known[p]
    BY <2>1, InContent DEF PageInv
  <2>3. QED
    BY <2>1, <2>2 DEF PageInv
<1>2. QED
  BY <1>1, Invariant, PTL

\* Only the second step of a save changes the document.
LEMMA OnlySavesChange ==
  ASSUME [Next]_vars, doc' # doc
  PROVE  \E i \in Slots : Save(i)
<1>1. \A p \in Pages : PageStep(p) => doc' = doc
  <2>1. \A p, x : Edit(p, x) => doc' = doc
    BY DEF Edit, storeVars
  <2>2. \A p \in Pages : UserEdits(p) => doc' = doc
    BY <2>1 DEF UserEdits, EditStage, EditOwner, EditLife, Submit
  <2>3. \A p \in Pages : StartSave(p) \/ Acknowledged(p) \/ Fail(p) \/ Cleanup(p)
                         \/ Reload(p) \/ ReadCopy(p) \/ ApplyCopy(p) => doc' = doc
    BY DEF StartSave, Acknowledged, Fail, Cleanup, Reload, ReadCopy, ApplyCopy, storeVars
  <2>4. QED
    BY <2>2, <2>3 DEF PageStep, TimerFires, SaveAgain, Refused, AnswerLost
<1>2. \A i \in Slots : ReadDocument(i) => doc' = doc
  BY DEF ReadDocument, storeVars
<1>3. /\ \A c \in Cases, s \in Stages : FlowMoves(c, s) => doc' = doc
      /\ \A c \in Cases : ReviseDraft(c) => doc' = doc
  BY DEF FlowMoves, ReviseDraft
<1>4. QED
  BY <1>1, <1>2, <1>3 DEF Next, ServerStep, vars

\* A save that changes the document replaces only what its page had seen, and
\* drops no case (app/api/state/route.ts, the comparison of revisions in PUT).
THEOREM NothingUnseenIsOverwritten == Spec => NoBlindOverwrite
<1>1. ASSUME IInv, [Next]_vars, NEW j \in Slots, Commits(j)
      PROVE  Save(j)
  <2>1. doc' # doc /\ calls[j] # None /\ calls'[j] # calls[j]
    BY <1>1 DEF Commits
  <2>2. PICK i \in Slots : Save(i)
    BY <1>1, <2>1, OnlySavesChange
  <2>3. \E new : calls' = [calls EXCEPT ![i] = new]
    BY <2>2 DEF Save, Outcome
  <2>4. i = j
    BY <1>1, <2>1, <2>3 DEF IInv, TypeOK
  <2>5. QED
    BY <2>2, <2>4
<1>2. ASSUME IInv, NEW i \in Slots, Save(i), doc' # doc
      PROVE  LET seenBy == calls[i].known IN
             /\ DOMAIN doc \subseteq DOMAIN doc'
             /\ \A c \in DOMAIN doc :
                  /\ ~doc'[c].managed /\ doc'[c].step # doc[c].step =>
                       c \in DOMAIN seenBy /\ SameStage(seenBy[c], doc[c])
                  /\ doc'[c].life # doc[c].life =>
                       c \in DOMAIN seenBy /\ SameLife(seenBy[c], doc[c])
                  /\ ~doc'[c].managed /\ doc'[c].owner # doc[c].owner =>
                       c \in DOMAIN seenBy /\ SameOwner(seenBy[c], doc[c])
  <2> DEFINE r == calls[i]
             u == UserOf[r.page]
             next == NextDocument(r, flow)
  <2>1. TypeOK /\ CallsInv
    BY <1>2 DEF IInv
  <2>2. r # None /\ r.at = "read"
    BY <1>2 DEF Save
  <2>3. CallFits(r, Ids, DOMAIN doc, flow)
    BY <2>1, <2>2 DEF CallsInv
  <2>4. r.base \in Content /\ \A c \in Cases : r.seen[c] # None => flow[c] # None
    BY <2>2, <2>3 DEF CallFits
  <2>5. r \in Request /\ u \in Partners \cup {Admin} /\ Admin \notin Partners
    BY <1>2, <2>1, <2>4, SaveResult, PortalSavesAssumption
  <2>6. doc' = next /\ doc = r.base /\ r.ifMatch = doc
    <3>1. PICK new \in Request : SaveTo(r, new, next)
      BY <1>2, <2>1, <2>4, SaveResult
    <3>2. QED
      BY <1>2, <3>1 DEF SaveTo
  <2>7. DOMAIN doc \subseteq DOMAIN doc'
    BY <2>1, <2>3, <2>4, <2>5, <2>6, SaveKeepsCases DEF TypeOK
  <2>8. /\ u = Admin => DOMAIN r.known = DOMAIN doc
        /\ \A c \in DOMAIN r.known :
             /\ u \in {Admin, doc[c].owner} => SameStage(r.known[c], doc[c])
             /\ u = Admin => SameLife(r.known[c], doc[c]) /\ SameOwner(r.known[c], doc[c])
    BY <2>3, <2>6 DEF CallFits, Agree
  <2>9. \A c \in DOMAIN doc : c \in DOMAIN r.body => c \in DOMAIN r.known
    BY <2>3, <2>6 DEF CallFits
  <2>10. ASSUME NEW c \in DOMAIN doc
         PROVE  /\ ~doc'[c].managed /\ doc'[c].step # doc[c].step =>
                     c \in DOMAIN r.known /\ SameStage(r.known[c], doc[c])
                /\ doc'[c].life # doc[c].life =>
                     c \in DOMAIN r.known /\ SameLife(r.known[c], doc[c])
                /\ ~doc'[c].managed /\ doc'[c].owner # doc[c].owner =>
                     c \in DOMAIN r.known /\ SameOwner(r.known[c], doc[c])
    <3>1. CASE u = Admin
      BY <2>8, <3>1
    <3>2. CASE u # Admin
      <4>1. c \in DOMAIN next /\ c \in Cases
        BY <2>1, <2>6, <2>7, InContent DEF TypeOK
      <4>2. /\ doc'[c].managed <=> flow[c] # None
            /\ doc'[c].life = doc[c].life
            /\ flow[c] = None /\ r.seen[c] = None =>
                 /\ c \notin DOMAIN r.body \/ doc[c].owner # u =>
                      doc'[c].step = doc[c].step /\ doc'[c].owner = doc[c].owner
                 /\ c \in DOMAIN r.body /\ doc[c].owner = u => doc'[c].owner = u
        BY <2>1, <2>4, <2>5, <2>6, <3>2, <4>1, NextRecord DEF TypeOK
      <4>3. r.seen[c] # None => flow[c] # None
        BY <2>4, <4>1
      <4>4. QED
        BY <2>8, <2>9, <4>2, <4>3
    <3>3. QED
      BY <3>1, <3>2
  <2>11. QED
    BY <2>7, <2>10
<1>3. IInv /\ [Next]_vars =>
        [\A i \in Slots : Commits(i) =>
           LET seenBy == calls[i].known IN
           /\ DOMAIN doc \subseteq DOMAIN doc'
           /\ \A c \in DOMAIN doc :
                /\ ~doc'[c].managed /\ doc'[c].step # doc[c].step =>
                     c \in DOMAIN seenBy /\ SameStage(seenBy[c], doc[c])
                /\ doc'[c].life # doc[c].life =>
                     c \in DOMAIN seenBy /\ SameLife(seenBy[c], doc[c])
                /\ ~doc'[c].managed /\ doc'[c].owner # doc[c].owner =>
                     c \in DOMAIN seenBy /\ SameOwner(seenBy[c], doc[c])]_vars
  BY <1>1, <1>2 DEF Commits
<1>4. QED
  BY <1>3, Invariant, PTL DEF Spec, NoBlindOverwrite

\* An application enters the document only while its draft is what was
\* submitted (lib/portal-state.ts, the condition of the write on the draft).
THEOREM DraftsEnterAsSubmitted == Spec => DraftsEnterUnrevised
<1>1. ASSUME IInv, NEW i \in Slots, Save(i), doc' # doc
      PROVE  DOMAIN doc' \cap revised \subseteq DOMAIN doc
  <2> DEFINE r == calls[i]
             next == NextDocument(r, flow)
  <2>1. TypeOK /\ r # None /\ r.at = "read" /\ flow \in Flows
    BY <1>1 DEF IInv, Save, TypeOK
  <2>2. r.base \in Content
    BY <1>1, <2>1 DEF IInv, CallsInv, CallFits
  <2>3. r \in Request /\ UserOf[r.page] \in Partners \cup {Admin}
    BY <1>1, <2>1, <2>2, SaveResult
  <2>4. DOMAIN next \subseteq DOMAIN r.base \cup DOMAIN r.body
    BY <2>1, <2>2, <2>3, NextType
  <2> HIDE DEF next
  <2>5. doc' = next /\ doc = r.base /\ (DOMAIN r.body \ DOMAIN doc) \cap revised = {}
    <3>1. PICK new \in Request : SaveTo(r, new, next)
      BY <1>1, <2>1, <2>2, SaveResult DEF next
    <3>2. QED
      BY <1>1, <3>1 DEF SaveTo
  <2>6. QED
    BY <2>4, <2>5
<1>2. IInv /\ [Next]_vars => [DOMAIN doc' \cap revised \subseteq DOMAIN doc]_vars
  BY <1>1, OnlySavesChange
<1>3. QED
  BY <1>2, Invariant, PTL DEF Spec, DraftsEnterUnrevised

\* No edit is stranded between a save that ends and the next one
\* (lib/portal-save-queue.ts, update and the cleanup of flush).
THEOREM NothingIsStranded == Spec => []NoStrandedEdit
<1>1. Init => NoStrandedEdit
  BY DEF Init, NoStrandedEdit, Unsaved
<1>2. IInv /\ NoStrandedEdit /\ [Next]_vars => NoStrandedEdit'
  <2> SUFFICES ASSUME IInv, NoStrandedEdit, [Next]_vars, NEW q \in Pages, Unsaved(q)'
               PROVE  (timer[q] \/ flight[q] # "none" \/ failed[q])'
    BY DEF NoStrandedEdit
  <2>1. TypeOK /\ \A p \in Pages : Unsaved(p) => timer[p] \/ flight[p] # "none" \/ failed[p]
    BY DEF IInv, NoStrandedEdit
  <2>2. ASSUME NEW p \in Pages, NEW x, Update(p, x), UNCHANGED <<confirmed, flight>>
        PROVE  (timer[q] \/ flight[q] # "none" \/ failed[q])'
    <3>1. CASE x = latest[p]
      BY <2>1, <2>2, <3>1 DEF Update, Unsaved
    <3>2. CASE x # latest[p]
      BY <2>1, <2>2, <3>2 DEF Update, Unsaved, TypeOK
    <3>3. QED
      BY <3>1, <3>2
  <2>3. ASSUME NEW p \in Pages, PageStep(p)
        PROVE  (timer[q] \/ flight[q] # "none" \/ failed[q])'
    <3>1. CASE UserEdits(p)
      <4>1. PICK x \in Content, S \in SUBSET DOMAIN DraftOf : EditedTo(p, x, S)
        BY <2>1, <3>1, EditedContent
      <4>2. QED
        BY <2>2, <4>1 DEF EditedTo, Edit
    <3>2. CASE TimerFires(p) \/ SaveAgain(p)
      BY <2>1, <3>2 DEF TimerFires, SaveAgain, StartSave, Unsaved, TypeOK
    <3>3. CASE Acknowledged(p)
      BY <2>1, <3>3 DEF Acknowledged, Unsaved, TypeOK
    <3>4. CASE Refused(p) \/ AnswerLost(p)
      BY <2>1, <3>4 DEF Refused, AnswerLost, Fail, Unsaved, TypeOK
    <3>5. CASE Cleanup(p)
      BY <2>1, <3>5 DEF Cleanup, Unsaved, TypeOK
    <3>6. CASE Reload(p)
      BY <2>1, <3>6 DEF Reload, Unsaved, TypeOK
    <3>7. CASE ReadCopy(p)
      BY <2>1, <3>7 DEF ReadCopy, Unsaved, queueVars
    <3>8. CASE ApplyCopy(p)
      BY <2>2, <3>8 DEF ApplyCopy
    <3>9. QED
      BY <2>3, <3>1, <3>2, <3>3, <3>4, <3>5, <3>6, <3>7, <3>8 DEF PageStep
  <2>4. CASE UNCHANGED queueVars
    BY <2>1, <2>4 DEF Unsaved, queueVars
  <2>5. ASSUME NEW i \in Slots, ServerStep(i)
        PROVE  UNCHANGED queueVars
    BY <2>5 DEF ServerStep, ReadDocument, Save
  <2>6. /\ \A c \in Cases, s \in Stages : FlowMoves(c, s) => UNCHANGED queueVars
        /\ \A c \in Cases : ReviseDraft(c) => UNCHANGED queueVars
    BY DEF FlowMoves, ReviseDraft
  <2>7. CASE UNCHANGED vars
    BY <2>4, <2>7 DEF vars, queueVars
  <2>8. QED
    BY <2>3, <2>4, <2>5, <2>6, <2>7 DEF Next
<1>3. QED
  BY <1>1, <1>2, Invariant, PTL DEF Spec
=============================================================================
