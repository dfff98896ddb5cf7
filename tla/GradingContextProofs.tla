------------------------ MODULE GradingContextProofs ------------------------
(***************************************************************************)
(* Proofs about GradingContext, for any documents, sessions and schemas:   *)
(* what a grading run finds when it resolves its answer key and its        *)
(* rubric, and where the content of rubrics comes from.                    *)
(* A property of the committed rows needs what the sessions still open     *)
(* have loaded: that stays current as long as no two of them held the same *)
(* row, which is what overlap remembers.                                   *)
(***************************************************************************)
EXTENDS AuthoringProofs

Writing == {"edit", "publish", "apply"}

\* The row of d a session loaded is the row there is.
Current(t, d, st, dr) ==
    t.op \in Writing /\ t.doc = d =>
        t.was = st[d] /\ t.old = dr[d] /\ (t.op = "publish" => t.new = dr[d])

LoadedOK ==
    \A s \in Sessions : \A d \in Documents \ overlap : Current(tx[s], d, status, draft)

\* What two sessions hold at once is recorded.
OverlapSeen ==
    \A s, u \in Sessions : s # u => Held(tx[s]) \cap Held(tx[u]) \subseteq overlap

ExclusiveInv == AuthoringInv /\ OverlapSeen /\ LoadedOK /\ PublishedMeansLatest

-----------------------------------------------------------------------------
LEMMA ExclusiveInit == Init => OverlapSeen /\ LoadedOK /\ PublishedMeansLatest
BY DEF Init, OverlapSeen, LoadedOK, PublishedMeansLatest, Idle, Held, Current, Writing

LEMMA WriterHolds ==
    ASSUME NEW t, NEW d \in Documents, t.op \in Writing, t.doc = d
    PROVE  d \in Held(t)
BY NoneAssumption DEF Held, Writing

LEMMA IdleHolds == Held(Idle) = {} /\ \A d, st, dr : Current(Idle, d, st, dr)
BY DEF Held, Idle, Current, Writing

LEMMA OverlapStep ==
    ASSUME OverlapSeen, NEW s \in Sessions, NEW T, DOMAIN tx = Sessions,
           tx' = [tx EXCEPT ![s] = T], overlap \subseteq overlap',
           \A u \in Sessions \ {s} : Held(T) \cap Held(tx[u]) \subseteq overlap'
    PROVE  OverlapSeen'
<1>1. \A u \in Sessions : tx'[u] = IF u = s THEN T ELSE tx[u]
  OBVIOUS
<1>2. ASSUME NEW u \in Sessions, NEW v \in Sessions, u # v
      PROVE  Held(tx'[u]) \cap Held(tx'[v]) \subseteq overlap'
  <2>1. CASE u = s
    BY <1>1, <1>2, <2>1
  <2>2. CASE v = s
    BY <1>1, <1>2, <2>2
  <2>3. CASE u # s /\ v # s
    BY <1>1, <1>2, <2>3 DEF OverlapSeen
  <2> QED
    BY <2>1, <2>2, <2>3
<1>3. \A t : Held(t)' = Held(t)
  BY DEF Held
<1> QED
  BY <1>2 DEF OverlapSeen

\* Session s takes a step that changes no row of a document but d, one it holds.
LEMMA LoadedStep ==
    ASSUME LoadedOK, OverlapSeen, NEW s \in Sessions, NEW T, DOMAIN tx = Sessions,
           tx' = [tx EXCEPT ![s] = T], overlap \subseteq overlap',
           \A e \in Documents \ overlap' : Current(T, e, status', draft'),
           \A e \in Documents \ Held(tx[s]) : status'[e] = status[e] /\ draft'[e] = draft[e]
    PROVE  LoadedOK'
<1>1. ASSUME NEW u \in Sessions, NEW e \in Documents \ overlap'
      PROVE  Current(tx'[u], e, status', draft')
  <2>1. CASE u = s
    BY <2>1
  <2>2. CASE u # s
    <3>1. tx'[u] = tx[u] /\ Current(tx[u], e, status, draft)
      BY <2>2 DEF LoadedOK
    <3>2. CASE e \in Held(tx[s])
      <4>1. e \notin Held(tx[u])
        BY <2>2, <3>2 DEF OverlapSeen
      <4>2. ~(tx[u].op \in Writing /\ tx[u].doc = e)
        BY <4>1, WriterHolds
      <4> QED
        BY <3>1, <4>2 DEF Current
    <3>3. CASE e \notin Held(tx[s])
      BY <3>1, <3>3 DEF Current
    <3> QED
      BY <3>2, <3>3
  <2> QED
    BY <2>1, <2>2
<1> QED
  BY <1>1 DEF LoadedOK

-----------------------------------------------------------------------------
(* Steps that leave the documents alone                                    *)

LEMMA QuietStep ==
    ASSUME ExclusiveInv, NEW s \in Sessions, NEW T, tx' = [tx EXCEPT ![s] = T],
           overlap \subseteq overlap',
           UNCHANGED <<status, draft, latest, versions>>,
           \A u \in Sessions \ {s} : Held(T) \cap Held(tx[u]) \subseteq overlap',
           \A e \in Documents \ overlap' : Current(T, e, status, draft)
    PROVE  OverlapSeen' /\ LoadedOK' /\ PublishedMeansLatest'
<1>1. DOMAIN tx = Sessions
  BY DEF ExclusiveInv, AuthoringInv, Columns
<1>2. OverlapSeen'
  BY <1>1, OverlapStep DEF ExclusiveInv
<1>3. LoadedOK'
  BY <1>1, LoadedStep DEF ExclusiveInv
<1>4. PublishedMeansLatest'
  BY DEF ExclusiveInv, PublishedMeansLatest
<1> QED
  BY <1>2, <1>3, <1>4

LEMMA CloseQuietly ==
    ASSUME ExclusiveInv, NEW s \in Sessions, Close(s),
           UNCHANGED <<status, draft, latest, versions>>
    PROVE  OverlapSeen' /\ LoadedOK' /\ PublishedMeansLatest'
<1>1. tx' = [tx EXCEPT ![s] = Idle] /\ overlap' = overlap
  BY DEF Close
<1>2. \A u \in Sessions \ {s} : Held(Idle) \cap Held(tx[u]) \subseteq overlap'
  BY IdleHolds
<1>3. \A e \in Documents \ overlap' : Current(Idle, e, status, draft)
  BY IdleHolds
<1> QED
  BY <1>1, <1>2, <1>3, QuietStep

LEMMA RollbackExclusive ==
    ASSUME ExclusiveInv, NEW s \in Sessions, Rollback(s)
    PROVE  OverlapSeen' /\ LoadedOK' /\ PublishedMeansLatest'
<1>1. /\ tx' = [tx EXCEPT ![s] = RolledBack] /\ overlap' = overlap
      /\ UNCHANGED <<status, draft, latest, versions>>
  BY DEF Rollback, rows
<1>2. Held(RolledBack) = {} /\ \A e \in Documents : Current(RolledBack, e, status, draft)
  BY DEF Held, RolledBack, Idle, Current, Writing
<1> QED
  BY <1>1, <1>2, QuietStep

LEMMA BeginExclusive ==
    ASSUME ExclusiveInv, NEW s \in Sessions, NEW t, Begin(s, t),
           \A e \in Documents :
              Current([t EXCEPT !.began = clock + 1], e, status, draft),
           Held([t EXCEPT !.began = clock + 1]) = Held(t)
    PROVE  OverlapSeen' /\ LoadedOK' /\ PublishedMeansLatest'
<1> DEFINE T == [t EXCEPT !.began = clock + 1]
<1>1. /\ tx' = [tx EXCEPT ![s] = T]
      /\ overlap' = overlap \cup (Held(t) \cap UNION {Held(tx[u]) : u \in Sessions})
      /\ UNCHANGED <<status, draft, latest, versions>>
  BY DEF Begin, rows
<1>2. \A e \in Documents \ overlap' : Current(T, e, status, draft)
  OBVIOUS
<1>3. Held(T) = Held(t)
  OBVIOUS
<1> HIDE DEF T
<1>4. \A u \in Sessions \ {s} : Held(T) \cap Held(tx[u]) \subseteq overlap'
  BY <1>1, <1>3
<1> QED
  BY <1>1, <1>2, <1>4, QuietStep

LEMMA HeldOf ==
    ASSUME NEW t, NEW v, t.op = v.op, t.doc = v.doc, t.sugg = v.sugg, t.context = v.context
    PROVE  Held(t) = Held(v)
BY DEF Held

LEMMA BeginsExclusive ==
    ASSUME ExclusiveInv, NEW s \in Sessions, Begins(s)
    PROVE  OverlapSeen' /\ LoadedOK' /\ PublishedMeansLatest'
<1>1. ASSUME NEW op \in {"edit", "publish"}, NEW d \in Documents, NEW c,
             op = "publish" => c = draft[d], Begin(s, Loaded(op, d, c))
      PROVE  OverlapSeen' /\ LoadedOK' /\ PublishedMeansLatest'
  <2> DEFINE t == Loaded(op, d, c)
             T == [t EXCEPT !.began = clock + 1]
  <2>1. /\ T.op = op /\ T.doc = d /\ T.new = c /\ T.was = status[d] /\ T.old = draft[d]
        /\ T.op = t.op /\ T.doc = t.doc /\ T.sugg = t.sugg /\ T.context = t.context
    BY DEF Loaded, Idle
  <2>2. Begin(s, t)
    BY <1>1
  <2> HIDE DEF t
  <2>3. \A e \in Documents : Current(T, e, status, draft)
    <3> HIDE DEF T
    <3> QED
      BY <1>1, <2>1 DEF Current
  <2>4. Held(T) = Held(t)
    <3> HIDE DEF T
    <3> QED
      BY <2>1, HeldOf
  <2> QED
    BY <2>2, <2>3, <2>4, BeginExclusive
<1>2. ASSUME NEW op \in {"reject", "supersede", "accept"}, NEW g \in Suggestions, NEW payload,
             BeginDecision(s, op, g, payload)
      PROVE  OverlapSeen' /\ LoadedOK' /\ PublishedMeansLatest'
  <2> DEFINE t == [Idle EXCEPT !.op = op, !.sugg = g, !.doc = proposal[g].target,
                               !.new = payload]
             T == [t EXCEPT !.began = clock + 1]
  <2>1. /\ T.op = op
        /\ T.op = t.op /\ T.doc = t.doc /\ T.sugg = t.sugg /\ T.context = t.context
    BY DEF Idle
  <2>2. Begin(s, t)
    BY <1>2 DEF BeginDecision
  <2> HIDE DEF t
  <2>3. \A e \in Documents : Current(T, e, status, draft)
    <3> HIDE DEF T
    <3> QED
      BY <2>1 DEF Current, Writing
  <2>4. Held(T) = Held(t)
    <3> HIDE DEF T
    <3> QED
      BY <2>1, HeldOf
  <2> QED
    BY <2>2, <2>3, <2>4, BeginExclusive
<1>3. ASSUME NEW r, NEW n, NEW context, BeginBind(s, r, n, context)
      PROVE  OverlapSeen' /\ LoadedOK' /\ PublishedMeansLatest'
  <2> DEFINE t == [Idle EXCEPT !.op = "bind", !.doc = r, !.number = n, !.context = context]
             T == [t EXCEPT !.began = clock + 1]
  <2>1. /\ T.op = "bind"
        /\ T.op = t.op /\ T.doc = t.doc /\ T.sugg = t.sugg /\ T.context = t.context
    BY DEF Idle
  <2>2. Begin(s, t)
    BY <1>3 DEF BeginBind
  <2> HIDE DEF t
  <2>3. \A e \in Documents : Current(T, e, status, draft)
    <3> HIDE DEF T
    <3> QED
      BY <2>1 DEF Current, Writing
  <2>4. Held(T) = Held(t)
    <3> HIDE DEF T
    <3> QED
      BY <2>1, HeldOf
  <2> QED
    BY <2>2, <2>3, <2>4, BeginExclusive
<1>4. ASSUME NEW d \in Documents, NEW c \in Inputs(d), BeginEdit(s, d, c)
      PROVE  OverlapSeen' /\ LoadedOK' /\ PublishedMeansLatest'
  BY <1>1, <1>4 DEF BeginEdit
<1>5. ASSUME NEW d \in Documents, BeginPublish(s, d)
      PROVE  OverlapSeen' /\ LoadedOK' /\ PublishedMeansLatest'
  BY <1>1, <1>5 DEF BeginPublish
<1>6. ASSUME NEW g \in Suggestions, BeginReject(s, g) \/ BeginSupersede(s, g)
      PROVE  OverlapSeen' /\ LoadedOK' /\ PublishedMeansLatest'
  BY <1>2, <1>6 DEF BeginReject, BeginSupersede
<1>7. ASSUME NEW g \in Suggestions, NEW p \in EditedPayloads \cup {None}, BeginAccept(s, g, p)
      PROVE  OverlapSeen' /\ LoadedOK' /\ PublishedMeansLatest'
  BY <1>2, <1>7 DEF BeginAccept
<1> QED
  BY <1>3, <1>4, <1>5, <1>6, <1>7 DEF Begins

LEMMA ApplyExclusive ==
    ASSUME ExclusiveInv, NEW s \in Sessions, Apply(s)
    PROVE  OverlapSeen' /\ LoadedOK' /\ PublishedMeansLatest'
<1> DEFINE L == Loaded("apply", tx[s].doc, AppliedToDraft(s))
           T == [L EXCEPT !.sugg = tx[s].sugg, !.began = tx[s].began]
<1>1. /\ T.op = "apply" /\ T.doc = tx[s].doc /\ T.sugg = tx[s].sugg
      /\ T.was = status[T.doc] /\ T.old = draft[T.doc]
  BY DEF Loaded, Idle
<1>2. /\ tx[s].op = "accept"
      /\ tx' = [tx EXCEPT ![s] = T]
      /\ overlap' = overlap
      /\ UNCHANGED <<status, draft, latest, versions>>
  BY DEF Apply, rows
<1> HIDE DEF T
<1>3. Held(T) = Held(tx[s])
  BY <1>1, <1>2 DEF Held
<1>4. \A u \in Sessions \ {s} : Held(T) \cap Held(tx[u]) \subseteq overlap'
  BY <1>2, <1>3 DEF ExclusiveInv, OverlapSeen
<1>5. \A e \in Documents \ overlap' : Current(T, e, status, draft)
  BY <1>1 DEF Current
<1> QED
  BY <1>2, <1>4, <1>5, QuietStep

-----------------------------------------------------------------------------
(* Steps that change a document                                            *)

LEMMA ClosedOverlap ==
    ASSUME ExclusiveInv, NEW s \in Sessions, tx' = [tx EXCEPT ![s] = Idle], overlap' = overlap
    PROVE  OverlapSeen'
<1>1. \A u \in Sessions \ {s} : Held(Idle) \cap Held(tx[u]) \subseteq overlap'
  BY IdleHolds
<1>2. DOMAIN tx = Sessions /\ OverlapSeen /\ overlap \subseteq overlap'
  BY DEF ExclusiveInv, AuthoringInv, Columns
<1> QED
  BY <1>1, <1>2, OverlapStep

LEMMA SaveDraftExclusive ==
    ASSUME ExclusiveInv, NEW s \in Sessions, tx[s].op \in {"edit", "apply"},
           SaveDraft(s), Close(s), UNCHANGED <<latest, versions>>
    PROVE  OverlapSeen' /\ LoadedOK' /\ PublishedMeansLatest'
<1> DEFINE d == tx[s].doc
<1>1. /\ d \in Documents /\ d \in Held(tx[s])
      /\ DOMAIN tx = Sessions /\ DOMAIN draft = Documents /\ DOMAIN status = Documents
  BY WriterHolds DEF ExclusiveInv, AuthoringInv, Columns, SessionsOK, Sound, Writing
<1>2. /\ tx' = [tx EXCEPT ![s] = Idle] /\ overlap' = overlap
      /\ draft' = [draft EXCEPT ![d] = Written(draft[d], tx[s].old, tx[s].new)]
      /\ status' = [status EXCEPT ![d] = Written(status[d], tx[s].was, "draft")]
  BY DEF Close, SaveDraft
<1>3. \A e \in Documents : e # d => status'[e] = status[e] /\ draft'[e] = draft[e]
  BY <1>2
<1>7. d \notin overlap => tx[s].was = status[d]
  BY <1>1 DEF ExclusiveInv, LoadedOK, Current, Writing
<1>8. /\ tx' = [tx EXCEPT ![s] = Idle] /\ overlap \subseteq overlap'
      /\ DOMAIN tx = Sessions /\ OverlapSeen /\ LoadedOK
  BY <1>1, <1>2 DEF ExclusiveInv
<1> HIDE DEF d
<1>4. OverlapSeen'
  BY <1>2, ClosedOverlap
<1>5. LoadedOK'
  <2>1. \A e \in Documents \ overlap' : Current(Idle, e, status', draft')
    BY IdleHolds
  <2>2. \A e \in Documents \ Held(tx[s]) : status'[e] = status[e] /\ draft'[e] = draft[e]
    BY <1>1, <1>3
  <2> QED
    BY <1>8, <2>1, <2>2, LoadedStep
<1>6. PublishedMeansLatest'
  <2>1. ASSUME NEW e \in Documents \ overlap', status'[e] = "published"
        PROVE  latest'[e] > 0 /\ versions'[e][latest'[e]] = draft'[e]
    <3>1. CASE e = d
      <4>1. tx[s].was = status[d]
        BY <1>2, <1>7, <2>1, <3>1
      <4>2. status'[d] = "draft"
        BY <1>1, <1>2, <4>1 DEF Written
      <4> QED
        BY <2>1, <3>1, <4>2
    <3>2. CASE e # d
      BY <1>2, <1>3, <2>1, <3>2 DEF ExclusiveInv, PublishedMeansLatest
    <3> QED
      BY <3>1, <3>2
  <2> QED
    BY <2>1 DEF PublishedMeansLatest
<1> QED
  BY <1>4, <1>5, <1>6

LEMMA PublishExclusive ==
    ASSUME ExclusiveInv, NEW s \in Sessions, CommitPublish(s)
    PROVE  OverlapSeen' /\ LoadedOK' /\ PublishedMeansLatest'
<1> DEFINE t == tx[s]
           d == t.doc
           n == t.number
<1>1. /\ t.op = "publish"
      /\ versions' = [versions EXCEPT ![d][n] = t.new]
      /\ latest' = [latest EXCEPT ![d] = n]
      /\ status' = [status EXCEPT ![d] = Written(status[d], t.was, "published")]
      /\ tx' = [tx EXCEPT ![s] = Idle] /\ overlap' = overlap
      /\ draft' = draft
  BY DEF CommitPublish, Close
<1>2. /\ d \in Documents /\ d \in Held(t)
      /\ n \in Nat /\ 0 < n /\ n <= clock
  BY <1>1, WriterHolds DEF ExclusiveInv, AuthoringInv, SessionsOK, Sound, Writing
<1>3. /\ DOMAIN tx = Sessions /\ DOMAIN status = Documents /\ DOMAIN latest = Documents
      /\ DOMAIN versions = Documents /\ DOMAIN versions[d] = Numbers
      /\ n \in Numbers
  BY <1>2, MaxTransactionsAssumption DEF ExclusiveInv, AuthoringInv, Columns, Numbers
<1>7. d \notin overlap => t.was = status[d] /\ t.new = draft[d]
  BY <1>1, <1>2 DEF ExclusiveInv, LoadedOK, Current, Writing
<1>8. Held(t) = Held(tx[s])
  OBVIOUS
<1> HIDE DEF t, d, n
<1>4. OverlapSeen'
  BY <1>1, ClosedOverlap
<1>5. LoadedOK'
  <2>1. \A e \in Documents \ overlap' : Current(Idle, e, status', draft')
    BY IdleHolds
  <2>2. \A e \in Documents \ Held(tx[s]) : status'[e] = status[e] /\ draft'[e] = draft[e]
    BY <1>1, <1>2, <1>8
  <2> QED
    BY <1>1, <1>3, <2>1, <2>2, LoadedStep DEF ExclusiveInv
<1>6. PublishedMeansLatest'
  <2>1. ASSUME NEW e \in Documents \ overlap', status'[e] = "published"
        PROVE  latest'[e] > 0 /\ versions'[e][latest'[e]] = draft'[e]
    <3>1. CASE e = d
      <4>1. latest'[d] = n /\ versions'[d][n] = t.new
        BY <1>1, <1>2, <1>3
      <4>2. t.new = draft[d]
        BY <1>1, <1>7, <2>1, <3>1
      <4> QED
        BY <1>1, <1>2, <3>1, <4>1, <4>2
    <3>2. CASE e # d
      BY <1>1, <2>1, <3>2 DEF ExclusiveInv, PublishedMeansLatest
    <3> QED
      BY <3>1, <3>2
  <2> QED
    BY <2>1 DEF PublishedMeansLatest
<1> QED
  BY <1>4, <1>5, <1>6

LEMMA CreateExclusive ==
    ASSUME ExclusiveInv, NEW d \in Documents, NEW c, Create(d, c)
    PROVE  OverlapSeen' /\ LoadedOK' /\ PublishedMeansLatest'
<1>1. /\ status[d] = "absent"
      /\ status' = [status EXCEPT ![d] = "draft"]
      /\ draft' = [draft EXCEPT ![d] = c]
      /\ UNCHANGED <<latest, versions, tx, overlap>>
  BY DEF Create
<1>2. DOMAIN status = Documents /\ DOMAIN draft = Documents
  BY DEF ExclusiveInv, AuthoringInv, Columns
<1>3. OverlapSeen'
  BY <1>1 DEF ExclusiveInv, OverlapSeen
<1>4. LoadedOK'
  <2>1. ASSUME NEW u \in Sessions, NEW e \in Documents \ overlap'
        PROVE  Current(tx'[u], e, status', draft')
    <3>1. Current(tx[u], e, status, draft) /\ Sound(tx[u], status, latest, proposal, clock)
      BY <1>1 DEF ExclusiveInv, LoadedOK, AuthoringInv, SessionsOK
    <3>2. CASE e = d
      <4>1. ~(tx[u].op \in Writing /\ tx[u].doc = d)
        BY <1>1, <3>1 DEF Sound, Writing
      <4> QED
        BY <1>1, <3>2, <4>1 DEF Current
    <3>3. CASE e # d
      BY <1>1, <1>2, <3>1, <3>3 DEF Current
    <3> QED
      BY <3>2, <3>3
  <2> QED
    BY <2>1 DEF LoadedOK
<1>5. PublishedMeansLatest'
  BY <1>1, <1>2 DEF ExclusiveInv, PublishedMeansLatest
<1> QED
  BY <1>3, <1>4, <1>5

LEMMA SameDocuments ==
    ASSUME ExclusiveInv, UNCHANGED <<status, draft, latest, versions, tx, overlap>>
    PROVE  OverlapSeen' /\ LoadedOK' /\ PublishedMeansLatest'
BY DEF ExclusiveInv, OverlapSeen, LoadedOK, PublishedMeansLatest

LEMMA ExclusiveNext == ExclusiveInv /\ [Next]_vars => ExclusiveInv'
<1> SUFFICES ASSUME ExclusiveInv, [Next]_vars PROVE ExclusiveInv'
  OBVIOUS
<1>0. AuthoringInv'
  BY NextInv DEF ExclusiveInv
<1> SUFFICES OverlapSeen' /\ LoadedOK' /\ PublishedMeansLatest'
  BY <1>0 DEF ExclusiveInv
<1>1. ASSUME NEW d \in Documents, NEW c, Create(d, c)
      PROVE  OverlapSeen' /\ LoadedOK' /\ PublishedMeansLatest'
  BY <1>1, CreateExclusive
<1>2. ASSUME NEW g \in Suggestions, NEW p, CreateSuggestion(g, p)
      PROVE  OverlapSeen' /\ LoadedOK' /\ PublishedMeansLatest'
  BY <1>2, SameDocuments DEF CreateSuggestion
<1>3. ASSUME NEW s \in Sessions, Begins(s)
      PROVE  OverlapSeen' /\ LoadedOK' /\ PublishedMeansLatest'
  BY <1>3, BeginsExclusive
<1>4. ASSUME NEW s \in Sessions, CommitEdit(s) \/ CommitAccept(s)
      PROVE  OverlapSeen' /\ LoadedOK' /\ PublishedMeansLatest'
  BY <1>4, SaveDraftExclusive DEF CommitEdit, CommitAccept
<1>5. ASSUME NEW s \in Sessions, CommitPublish(s)
      PROVE  OverlapSeen' /\ LoadedOK' /\ PublishedMeansLatest'
  BY <1>5, PublishExclusive
<1>6. ASSUME NEW s \in Sessions, Apply(s)
      PROVE  OverlapSeen' /\ LoadedOK' /\ PublishedMeansLatest'
  BY <1>6, ApplyExclusive
<1>7. ASSUME NEW s \in Sessions,
             FailPublish(s) \/ RefuseApply(s) \/ CommitReject(s) \/ CommitBind(s)
      PROVE  OverlapSeen' /\ LoadedOK' /\ PublishedMeansLatest'
  BY <1>7, CloseQuietly DEF FailPublish, RefuseApply, CommitReject, CommitBind, rows
<1>8. CASE UNCHANGED vars
  BY <1>8, SameDocuments DEF vars
<1> QED
  BY <1>1, <1>2, <1>3, <1>4, <1>5, <1>6, <1>7, <1>8, RollbackExclusive DEF Next, Commits

\* A document whose status is published shows its latest version as its draft,
\* unless two sessions once held it together (rubrics.py:194,
\* rubric_authoring.py:44, answer_keys.py:61).
THEOREM PublishedShowsLatest == Spec => []PublishedMeansLatest
<1>1. Init => ExclusiveInv
  BY InitInv, ExclusiveInit DEF ExclusiveInv
<1>2. ExclusiveInv => PublishedMeansLatest
  BY DEF ExclusiveInv
<1> QED
  BY <1>1, <1>2, ExclusiveNext, PTL DEF Spec

\* Of the answer keys a grading run may resolve, none is a version the teacher
\* has edited since, or an old one (grading_orchestration.py:1396).
THEOREM ResolvedKeyCurrent == Spec => []ResolvedKeyIsCurrent
<1>1. Init => ExclusiveInv
  BY InitInv, ExclusiveInit DEF ExclusiveInv
<1>2. ExclusiveInv => ResolvedKeyIsCurrent
  <2> SUFFICES ASSUME ExclusiveInv, NEW v \in ResolvedKeys, v[1] \notin overlap
               PROVE  v[2] = latest[v[1]] /\ versions[v[1]][v[2]] = draft[v[1]]
    BY DEF ResolvedKeyIsCurrent
  <2> DEFINE k == v[1]
             n == v[2]
  <2>1. /\ k \in AnswerKeys /\ n \in Numbers
        /\ status[k] = "published" /\ versions[k][n] # None
        /\ \A w \in PublishedKeyVersions : w[2] <= n
    BY DEF ResolvedKeys, PublishedKeyVersions
  <2>2. k \in Documents /\ latest[k] > 0 /\ versions[k][latest[k]] = draft[k]
    BY <2>1 DEF ExclusiveInv, PublishedMeansLatest, Documents
  <2>3. /\ latest[k] \in Nat /\ latest[k] <= clock /\ clock \in 0..MaxTransactions
        /\ \A m \in Numbers : versions[k][m] # None <=> m <= latest[k]
    BY <2>2 DEF ExclusiveInv, AuthoringInv, VersionsOK, Numbered, Columns
  <2>4. latest[k] \in Numbers
    BY <2>2, <2>3, MaxTransactionsAssumption DEF Numbers
  <2>5. <<k, latest[k]>> \in PublishedKeyVersions
    BY <2>1, <2>3, <2>4 DEF PublishedKeyVersions
  <2>6. latest[k] <= n /\ n <= latest[k]
    BY <2>1, <2>3, <2>5
  <2> QED
    BY <2>1, <2>2, <2>3, <2>6 DEF Numbers
<1> QED
  BY <1>1, <1>2, ExclusiveNext, PTL DEF Spec

-----------------------------------------------------------------------------
(* Bindings                                                                *)

BindingRows == [rubric : Rubrics, number : Numbers, context : Contexts,
                created : 0..MaxTransactions]

\* A binding row binds a version there is, and began before now.
RowsBound(bs, vs, now) ==
    /\ bs \in Seq(BindingRows)
    /\ \A i \in DOMAIN bs :
          vs[bs[i].rubric][bs[i].number] # None /\ bs[i].created <= now

\* Of the rows of a context, one has the latest time.
HasNewest(bs, c) ==
    (\E i \in DOMAIN bs : bs[i].context = c) =>
        \E i \in DOMAIN bs :
            /\ bs[i].context = c
            /\ \A j \in DOMAIN bs : bs[j].context = c => bs[j].created <= bs[i].created

\* The rows of a context were committed in the order in which they began.
InOrder(bs, c) ==
    \A i, j \in DOMAIN bs :
        bs[i].context = c /\ bs[j].context = c /\ i < j => bs[i].created < bs[j].created

\* A session that binds a version there is, and, alone in its context, began
\* after every row of the context.
BindSound(t, bs, vs, now, ov) ==
    t.op = "bind" =>
        /\ t.doc \in Rubrics /\ t.number \in Numbers /\ t.context \in Contexts
        /\ vs[t.doc][t.number] # None
        /\ t.began \in 0..MaxTransactions /\ t.began <= now
        /\ t.context \notin ov =>
              \A i \in DOMAIN bs : bs[i].context = t.context => bs[i].created < t.began

BindingsInv ==
    /\ RowsBound(bindings, versions, clock)
    /\ \A c \in Contexts : HasNewest(bindings, c)
    /\ \A c \in Contexts \ overlap : InOrder(bindings, c)
    /\ \A s \in Sessions : BindSound(tx[s], bindings, versions, clock, overlap)

LEMMA BindingsInit == Init => BindingsInv
<1> SUFFICES ASSUME Init PROVE BindingsInv
  OBVIOUS
<1>1. bindings = <<>> /\ DOMAIN bindings = {} /\ bindings \in Seq(BindingRows)
  BY DEF Init
<1>2. \A s \in Sessions : BindSound(tx[s], bindings, versions, clock, overlap)
  BY DEF Init, BindSound, Idle
<1> QED
  BY <1>1, <1>2 DEF BindingsInv, RowsBound, HasNewest, InOrder

\* Versions stay, and the clock does not go back.
LEMMA VersionsStay ==
    ASSUME AuthoringInv, [Next]_vars
    PROVE  /\ \A d \in Documents : \A n \in Numbers :
                 versions[d][n] # None => versions'[d][n] # None
           /\ clock \in Nat /\ clock' \in Nat
<1>1. AuthoringInv'
  BY NextInv
<1>2. \A d \in Documents : latest[d] \in Nat /\ latest'[d] \in Nat
  BY <1>1 DEF AuthoringInv, Columns
<1>3. \A d \in Documents : latest[d] <= latest'[d]
  <2>1. CASE UNCHANGED <<versions, latest>>
    BY <1>2, <2>1
  <2>2. ASSUME NEW s \in Sessions, CommitPublish(s)
        PROVE  \A d \in Documents : latest[d] <= latest'[d]
    <3>1. PICK d \in Documents : latest' = [latest EXCEPT ![d] = latest[d] + 1]
      BY <2>2, PublicationStep
    <3> QED
      BY <1>2, <3>1 DEF AuthoringInv, Columns
  <2> QED
    BY <2>1, <2>2, HistoryStep
<1>4. ASSUME NEW d \in Documents, NEW n \in Numbers, versions[d][n] # None
      PROVE  versions'[d][n] # None
  <2>1. n <= latest[d] /\ latest[d] <= latest'[d] /\ n \in Nat
    BY <1>3, <1>4 DEF AuthoringInv, VersionsOK, Numbered, Numbers
  <2>2. n <= latest'[d]
    BY <1>2, <2>1
  <2> QED
    BY <1>1, <2>2 DEF AuthoringInv, VersionsOK, Numbered
<1> QED
  BY <1>1, <1>4, MaxTransactionsAssumption DEF AuthoringInv, Columns

LEMMA BindSoundStays ==
    ASSUME NEW t, NEW bs, NEW vs, NEW vs2, NEW now \in Nat, NEW now2 \in Nat, NEW ov, NEW ov2,
           BindSound(t, bs, vs, now, ov), now <= now2, ov \subseteq ov2,
           \A d \in Documents : \A n \in Numbers : vs[d][n] # None => vs2[d][n] # None
    PROVE  BindSound(t, bs, vs2, now2, ov2)
<1> SUFFICES ASSUME t.op = "bind" PROVE BindSound(t, bs, vs2, now2, ov2)
  BY DEF BindSound
<1>1. t.doc \in Documents /\ t.number \in Numbers /\ vs[t.doc][t.number] # None
  BY DEF BindSound, Documents
<1>2. t.began \in Nat /\ t.began <= now2
  BY MaxTransactionsAssumption DEF BindSound
<1> QED
  BY <1>1, <1>2 DEF BindSound

\* A step that adds no binding.
LEMMA NoBinding ==
    ASSUME AuthoringInv, BindingsInv, [Next]_vars, bindings' = bindings,
           clock <= clock', overlap \subseteq overlap',
           \A s \in Sessions : \/ tx'[s] = tx[s]
                               \/ BindSound(tx'[s], bindings, versions', clock', overlap')
    PROVE  BindingsInv'
<1>1. /\ \A d \in Documents : \A n \in Numbers :
             versions[d][n] # None => versions'[d][n] # None
      /\ clock \in Nat /\ clock' \in Nat
  BY VersionsStay
<1>2. ASSUME NEW s \in Sessions
      PROVE  BindSound(tx'[s], bindings, versions', clock', overlap')
  <2>1. BindSound(tx[s], bindings, versions, clock, overlap)
    BY DEF BindingsInv
  <2> QED
    BY <1>1, <2>1, BindSoundStays
<1>3. RowsBound(bindings, versions', clock')
  <2>1. ASSUME NEW i \in DOMAIN bindings
        PROVE  /\ versions'[bindings[i].rubric][bindings[i].number] # None
               /\ bindings[i].created <= clock'
    <3>1. /\ bindings[i] \in BindingRows
          /\ versions[bindings[i].rubric][bindings[i].number] # None
          /\ bindings[i].created <= clock
      BY DEF BindingsInv, RowsBound
    <3>2. /\ bindings[i].rubric \in Documents /\ bindings[i].number \in Numbers
          /\ bindings[i].created \in Nat
      BY <3>1, MaxTransactionsAssumption DEF BindingRows, Documents
    <3> QED
      BY <1>1, <3>1, <3>2
  <2> QED
    BY <2>1 DEF BindingsInv, RowsBound
<1>4. /\ \A c \in Contexts : HasNewest(bindings, c)
      /\ \A c \in Contexts \ overlap' : InOrder(bindings, c)
  BY DEF BindingsInv
<1> QED
  BY <1>2, <1>3, <1>4 DEF BindingsInv

\* A session that begins no binding is sound; one that does began after every row.
LEMMA BeginsBindSound ==
    ASSUME AuthoringInv, BindingsInv, NEW s \in Sessions, Begins(s)
    PROVE  /\ clock \in Nat /\ clock' = clock + 1 /\ clock' \in 0..MaxTransactions
           /\ overlap \subseteq overlap' /\ bindings' = bindings /\ versions' = versions
           /\ \A u \in Sessions : \/ tx'[u] = tx[u]
                                  \/ BindSound(tx'[u], bindings, versions, clock', overlap')
<1>1. ASSUME NEW t, Begin(s, t), t.op # "bind", [t EXCEPT !.began = clock + 1].op = t.op
      PROVE  \A u \in Sessions : \/ tx'[u] = tx[u]
                                 \/ BindSound(tx'[u], bindings, versions, clock', overlap')
  <2> DEFINE T == [t EXCEPT !.began = clock + 1]
  <2>1. tx' = [tx EXCEPT ![s] = T] /\ T.op # "bind"
    BY <1>1 DEF Begin
  <2> HIDE DEF T
  <2>2. DOMAIN tx = Sessions /\ BindSound(T, bindings, versions, clock', overlap')
    BY <2>1 DEF BindSound, AuthoringInv, Columns
  <2> QED
    BY <2>1, <2>2
<1>2. ASSUME NEW t, Begin(s, t)
      PROVE  /\ clock \in Nat /\ clock' = clock + 1 /\ clock' \in 0..MaxTransactions
             /\ overlap \subseteq overlap' /\ bindings' = bindings /\ versions' = versions
  <2>1. clock < MaxTransactions /\ clock' = clock + 1 /\ overlap \subseteq overlap'
        /\ bindings' = bindings /\ versions' = versions
    BY <1>2 DEF Begin, Tick, rows
  <2> QED
    BY <2>1, MaxTransactionsAssumption DEF AuthoringInv, Columns
<1>3. ASSUME NEW d \in Documents, NEW c, BeginEdit(s, d, c)
      PROVE  \E t : Begin(s, t) /\ t.op # "bind" /\ [t EXCEPT !.began = clock + 1].op = t.op
  <2> DEFINE t == Loaded("edit", d, c)
  <2>1. t.op = "edit" /\ [t EXCEPT !.began = clock + 1].op = t.op
    BY DEF Loaded, Idle
  <2>2. Begin(s, t)
    BY <1>3 DEF BeginEdit
  <2> HIDE DEF t
  <2> QED
    BY <2>1, <2>2
<1>4. ASSUME NEW d \in Documents, BeginPublish(s, d)
      PROVE  \E t : Begin(s, t) /\ t.op # "bind" /\ [t EXCEPT !.began = clock + 1].op = t.op
  <2> DEFINE t == Loaded("publish", d, draft[d])
  <2>1. t.op = "publish" /\ [t EXCEPT !.began = clock + 1].op = t.op
    BY DEF Loaded, Idle
  <2>2. Begin(s, t)
    BY <1>4 DEF BeginPublish
  <2> HIDE DEF t
  <2> QED
    BY <2>1, <2>2
<1>5. ASSUME NEW op \in {"reject", "supersede", "accept"}, NEW g, NEW payload,
             BeginDecision(s, op, g, payload)
      PROVE  \E t : Begin(s, t) /\ t.op # "bind" /\ [t EXCEPT !.began = clock + 1].op = t.op
  <2> DEFINE t == [Idle EXCEPT !.op = op, !.sugg = g, !.doc = proposal[g].target,
                               !.new = payload]
  <2>1. t.op = op /\ [t EXCEPT !.began = clock + 1].op = t.op
    BY DEF Idle
  <2>2. Begin(s, t)
    BY <1>5 DEF BeginDecision
  <2> HIDE DEF t
  <2> QED
    BY <2>1, <2>2
<1>6. ASSUME NEW r \in Rubrics, NEW n \in Numbers, NEW context \in Contexts,
             BeginBind(s, r, n, context)
      PROVE  /\ \E t : Begin(s, t)
             /\ \A u \in Sessions : \/ tx'[u] = tx[u]
                                    \/ BindSound(tx'[u], bindings, versions, clock', overlap')
  <2> DEFINE t == [Idle EXCEPT !.op = "bind", !.doc = r, !.number = n, !.context = context]
             T == [t EXCEPT !.began = clock + 1]
  <2>1. T.op = "bind" /\ T.doc = r /\ T.number = n /\ T.context = context /\ T.began = clock + 1
    BY DEF Idle
  <2>2. Begin(s, t) /\ versions[r][n] # None
    BY <1>6 DEF BeginBind
  <2>3. tx' = [tx EXCEPT ![s] = T]
    BY <2>2 DEF Begin
  <2>4. clock \in Nat /\ clock' = clock + 1 /\ clock' \in 0..MaxTransactions
    BY <2>2, <1>2
  <2> HIDE DEF t, T
  <2>5. \A i \in DOMAIN bindings : bindings[i].created < clock + 1
    <3>1. ASSUME NEW i \in DOMAIN bindings
          PROVE  bindings[i].created < clock + 1
      <4>1. bindings[i] \in BindingRows /\ bindings[i].created <= clock
        BY DEF BindingsInv, RowsBound
      <4> QED
        BY <2>4, <4>1, MaxTransactionsAssumption DEF BindingRows
    <3> QED
      BY <3>1
  <2>6. BindSound(T, bindings, versions, clock', overlap')
    BY <2>1, <2>2, <2>4, <2>5 DEF BindSound
  <2> QED
    BY <2>2, <2>3, <2>6 DEF AuthoringInv, Columns
<1>7. \/ \E t : Begin(s, t) /\ t.op # "bind" /\ [t EXCEPT !.began = clock + 1].op = t.op
      \/ \E r \in Rubrics, n \in Numbers, c \in Contexts : BeginBind(s, r, n, c)
  BY <1>3, <1>4, <1>5 DEF Begins, BeginReject, BeginSupersede, BeginAccept
<1> QED
  BY <1>1, <1>2, <1>6, <1>7

\* The new row is the newest of its context, if no other session was binding in it.
LEMMA CommitBindBindings ==
    ASSUME AuthoringInv, BindingsInv, OverlapSeen, NEW s \in Sessions, CommitBind(s)
    PROVE  BindingsInv'
<1> DEFINE t == tx[s]
           c == t.context
           row == [rubric |-> t.doc, number |-> t.number, context |-> c, created |-> t.began]
           n == Len(bindings) + 1
<1>1. /\ t.op = "bind" /\ bindings' = Append(bindings, row)
      /\ versions' = versions /\ clock' = clock /\ overlap' = overlap
      /\ tx' = [tx EXCEPT ![s] = Idle] /\ DOMAIN tx = Sessions
  BY DEF CommitBind, Close, AuthoringInv, Columns
<1>2. BindSound(t, bindings, versions, clock, overlap)
  BY DEF BindingsInv
<1>3. /\ row \in BindingRows
      /\ versions[row.rubric][row.number] # None /\ row.created <= clock
      /\ row.context = c /\ c \in Contexts
  BY <1>1, <1>2 DEF BindSound, BindingRows
<1>4. c \notin overlap =>
        \A i \in DOMAIN bindings : bindings[i].context = c => bindings[i].created < row.created
  BY <1>1, <1>2 DEF BindSound
<1>11. c \in Held(t)
  BY <1>1, <1>3, NoneAssumption DEF Held
<1> HIDE DEF t, c, row
<1>5. bindings \in Seq(BindingRows) /\ bindings' \in Seq(BindingRows)
  BY <1>1, <1>3 DEF BindingsInv, RowsBound
<1>6. /\ DOMAIN bindings = 1..Len(bindings) /\ Len(bindings) \in Nat
      /\ DOMAIN bindings' = 1..n
      /\ bindings'[n] = row
      /\ \A i \in DOMAIN bindings : bindings'[i] = bindings[i]
  BY <1>1, <1>3, <1>5
<1>10. \A i \in DOMAIN bindings' : i = n \/ (i \in DOMAIN bindings /\ i < n)
  BY <1>6
<1>12. n \in DOMAIN bindings' /\ DOMAIN bindings \subseteq DOMAIN bindings'
  BY <1>6
<1>13. \A i \in DOMAIN bindings : i < n /\ bindings[i].created \in Nat
  <2>1. ASSUME NEW i \in DOMAIN bindings
        PROVE  bindings[i].created \in Nat
    <3>1. bindings[i] \in BindingRows
      BY <1>5
    <3> QED
      BY <3>1, MaxTransactionsAssumption DEF BindingRows
  <2> QED
    BY <1>6, <2>1
<1>14. row.created \in Nat
  BY <1>3, MaxTransactionsAssumption DEF BindingRows
<1> HIDE DEF n
<1>7. RowsBound(bindings', versions', clock')
  <2>1. \A i \in DOMAIN bindings :
           versions[bindings[i].rubric][bindings[i].number] # None /\ bindings[i].created <= clock
    BY DEF BindingsInv, RowsBound
  <2> QED
    BY <1>1, <1>3, <1>5, <1>6, <1>10, <2>1 DEF RowsBound
<1>8. ASSUME NEW d \in Contexts
      PROVE  HasNewest(bindings', d)
  <2>1. HasNewest(bindings, d)
    BY DEF BindingsInv
  <2>2. CASE d # c
    <3>1. \A i \in DOMAIN bindings' :
             bindings'[i].context = d => i \in DOMAIN bindings /\ bindings'[i] = bindings[i]
      BY <1>3, <1>6, <1>10, <2>2
    <3> SUFFICES ASSUME \E i \in DOMAIN bindings' : bindings'[i].context = d
                 PROVE  \E i \in DOMAIN bindings' :
                           /\ bindings'[i].context = d
                           /\ \A j \in DOMAIN bindings' :
                                 bindings'[j].context = d => bindings'[j].created <= bindings'[i].created
      BY DEF HasNewest
    <3>2. \E i \in DOMAIN bindings : bindings[i].context = d
      BY <3>1
    <3>3. PICK k \in DOMAIN bindings :
            /\ bindings[k].context = d
            /\ \A j \in DOMAIN bindings :
                  bindings[j].context = d => bindings[j].created <= bindings[k].created
      BY <2>1, <3>2 DEF HasNewest
    <3>4. k \in DOMAIN bindings' /\ bindings'[k] = bindings[k]
      BY <1>6, <1>12, <3>3
    <3> QED
      BY <3>1, <3>3, <3>4
  <2>3. CASE d = c /\ ~ \E i \in DOMAIN bindings : bindings[i].context = c
    <3>1. \A j \in DOMAIN bindings' : bindings'[j].context = d => j = n
      BY <1>6, <1>10, <2>3
    <3>2. n \in DOMAIN bindings' /\ bindings'[n] = row /\ row.context = d
      BY <1>3, <1>6, <1>12, <2>3
    <3>3. row.created <= row.created
      BY <1>14
    <3> QED
      BY <3>1, <3>2, <3>3 DEF HasNewest
  <2>4. CASE d = c /\ \E i \in DOMAIN bindings : bindings[i].context = c
    <3>1. PICK k \in DOMAIN bindings :
            /\ bindings[k].context = c
            /\ \A j \in DOMAIN bindings :
                  bindings[j].context = c => bindings[j].created <= bindings[k].created
      BY <2>1, <2>4 DEF HasNewest
    <3>2. CASE row.created <= bindings[k].created
      <4>1. \A j \in DOMAIN bindings' :
               bindings'[j].context = c => bindings'[j].created <= bindings'[k].created
        BY <1>6, <1>10, <3>1, <3>2
      <4> QED
        BY <1>6, <1>12, <2>4, <3>1, <4>1 DEF HasNewest
    <3>3. CASE bindings[k].created <= row.created
      <4>1. ASSUME NEW j \in DOMAIN bindings', bindings'[j].context = c
            PROVE  bindings'[j].created <= row.created
        <5>1. CASE j = n
          BY <1>6, <1>14, <5>1
        <5>2. CASE j \in DOMAIN bindings
          BY <1>6, <1>13, <1>14, <3>1, <3>3, <4>1, <5>2
        <5> QED
          BY <1>10, <5>1, <5>2
      <4> QED
        BY <1>3, <1>6, <1>12, <2>4, <4>1 DEF HasNewest
    <3> QED
      BY <1>13, <1>14, <3>2, <3>3
  <2> QED
    BY <2>2, <2>3, <2>4
<1>9. ASSUME NEW d \in Contexts \ overlap'
      PROVE  InOrder(bindings', d)
  <2>1. InOrder(bindings, d)
    BY <1>1 DEF BindingsInv
  <2>2. ASSUME NEW i \in DOMAIN bindings', NEW j \in DOMAIN bindings',
               bindings'[i].context = d, bindings'[j].context = d, i < j
        PROVE  bindings'[i].created < bindings'[j].created
    <3>1. i \in DOMAIN bindings
      <4>1. ~(n < n) /\ \A k \in DOMAIN bindings : k < n /\ ~(n < k)
        BY <1>6, <1>13 DEF n
      <4> QED
        BY <1>10, <2>2, <4>1
    <3>2. CASE j = n
      BY <1>1, <1>3, <1>4, <1>6, <2>2, <3>1, <3>2
    <3>3. CASE j \in DOMAIN bindings
      BY <1>6, <2>1, <2>2, <3>1, <3>3 DEF InOrder
    <3> QED
      BY <1>10, <3>2, <3>3
  <2> QED
    BY <2>2 DEF InOrder
<1>15. ASSUME NEW u \in Sessions
       PROVE  BindSound(tx'[u], bindings', versions', clock', overlap')
  <2>1. CASE u = s
    <3>1. tx'[u] = Idle
      BY <1>1, <2>1
    <3> QED
      BY <3>1 DEF BindSound, Idle
  <2>2. CASE u # s
    <3> DEFINE w == tx[u]
    <3>1. tx'[u] = w /\ BindSound(w, bindings, versions, clock, overlap)
      BY <1>1, <2>2 DEF BindingsInv
    <3>2. w.op = "bind" /\ w.context \notin overlap => w.context # c
      <4> SUFFICES ASSUME w.op = "bind", w.context = c PROVE c \in overlap
        OBVIOUS
      <4>1. c \in Held(w)
        BY <1>3, NoneAssumption DEF Held
      <4>2. Held(tx[s]) \cap Held(tx[u]) \subseteq overlap
        BY <2>2 DEF OverlapSeen
      <4> QED
        BY <1>11, <4>1, <4>2 DEF t
    <3> HIDE DEF w
    <3>3. w.op = "bind" /\ w.context \notin overlap =>
            \A i \in DOMAIN bindings' :
               bindings'[i].context = w.context => bindings'[i].created < w.began
      BY <1>3, <1>6, <1>10, <3>1, <3>2 DEF BindSound
    <3> QED
      BY <1>1, <3>1, <3>3 DEF BindSound
  <2> QED
    BY <2>1, <2>2
<1> QED
  BY <1>7, <1>8, <1>9, <1>15 DEF BindingsInv

\* A session that ends, or loads its draft, binds nothing.
LEMMA NotBinding ==
    ASSUME AuthoringInv, BindingsInv, [Next]_vars, NEW s \in Sessions, NEW T,
           tx' = [tx EXCEPT ![s] = T], T.op # "bind", UNCHANGED <<bindings, clock, overlap>>
    PROVE  BindingsInv'
<1>1. BindSound(T, bindings, versions', clock', overlap')
  BY DEF BindSound
<1>2. \A u \in Sessions : \/ tx'[u] = tx[u]
                          \/ BindSound(tx'[u], bindings, versions', clock', overlap')
  BY <1>1 DEF AuthoringInv, Columns
<1>3. clock <= clock'
  BY MaxTransactionsAssumption DEF AuthoringInv, Columns
<1> QED
  BY <1>2, <1>3, NoBinding

LEMMA BindingsNext ==
    ASSUME ExclusiveInv, BindingsInv, [Next]_vars
    PROVE  BindingsInv'
<1>0. AuthoringInv /\ OverlapSeen
  BY DEF ExclusiveInv
<1>1. ASSUME UNCHANGED <<bindings, tx, overlap>>, clock <= clock'
      PROVE  BindingsInv'
  BY <1>0, <1>1, NoBinding
<1>2. ASSUME NEW d \in Documents, NEW c, Create(d, c)
      PROVE  BindingsInv'
  BY <1>0, <1>1, <1>2, MaxTransactionsAssumption DEF Create, Tick, AuthoringInv, Columns
<1>3. ASSUME NEW g \in Suggestions, NEW p, CreateSuggestion(g, p)
      PROVE  BindingsInv'
  BY <1>0, <1>1, <1>3, MaxTransactionsAssumption DEF CreateSuggestion, Tick, AuthoringInv, Columns
<1>4. ASSUME NEW s \in Sessions, Begins(s)
      PROVE  BindingsInv'
  <2>1. /\ clock \in Nat /\ clock' = clock + 1
        /\ overlap \subseteq overlap' /\ bindings' = bindings /\ versions' = versions
        /\ \A u \in Sessions : \/ tx'[u] = tx[u]
                               \/ BindSound(tx'[u], bindings, versions, clock', overlap')
    BY <1>0, <1>4, BeginsBindSound
  <2>2. clock <= clock'
    BY <2>1
  <2> QED
    BY <1>0, <2>1, <2>2, NoBinding
<1>5. ASSUME NEW s \in Sessions, Close(s), bindings' = bindings
      PROVE  BindingsInv'
  <2>1. Idle.op # "bind"
    BY DEF Idle
  <2> QED
    BY <1>0, <1>5, <2>1, NotBinding DEF Close
<1>6. ASSUME NEW s \in Sessions, Apply(s)
      PROVE  BindingsInv'
  <2> DEFINE L == Loaded("apply", tx[s].doc, AppliedToDraft(s))
             T == [L EXCEPT !.sugg = tx[s].sugg, !.began = tx[s].began]
  <2>1. T.op # "bind"
    BY DEF Loaded, Idle
  <2>2. tx' = [tx EXCEPT ![s] = T] /\ UNCHANGED <<bindings, clock, overlap>>
    BY <1>6 DEF Apply, rows
  <2> HIDE DEF T
  <2> QED
    BY <1>0, <2>1, <2>2, NotBinding
<1>7. ASSUME NEW s \in Sessions, Commits(s), ~CommitBind(s), ~Apply(s)
      PROVE  Close(s) /\ bindings' = bindings
  BY <1>7 DEF Commits, CommitEdit, CommitPublish, FailPublish, RefuseApply, CommitAccept,
     CommitReject, rows
<1>8. ASSUME NEW s \in Sessions, CommitBind(s)
      PROVE  BindingsInv'
  BY <1>0, <1>8, CommitBindBindings
<1>9. CASE UNCHANGED vars
  BY <1>0, <1>1, <1>9, MaxTransactionsAssumption DEF vars, AuthoringInv, Columns
<1>10. ASSUME NEW s \in Sessions, Rollback(s)
       PROVE  BindingsInv'
  <2>1. RolledBack.op # "bind"
    BY DEF RolledBack, Idle
  <2>2. tx' = [tx EXCEPT ![s] = RolledBack] /\ UNCHANGED <<bindings, clock, overlap>>
    BY <1>10 DEF Rollback, rows
  <2> QED
    BY <1>0, <2>1, <2>2, NotBinding
<1> QED
  BY <1>2, <1>3, <1>4, <1>5, <1>6, <1>7, <1>8, <1>9, <1>10 DEF Next

\* The newest row of a context that has one.
LEMMA NewestOf ==
    ASSUME BindingsInv, NEW c \in Contexts, RowsOf(c) # {}
    PROVE  \E k \in RowsOf(c) :
              /\ NewestBinding(c) = bindings[k]
              /\ \A j \in RowsOf(c) : bindings[j].created <= bindings[k].created
<1> DEFINE P(i) == \A j \in RowsOf(c) : bindings[j].created <= bindings[i].created
           k == CHOOSE i \in RowsOf(c) : P(i)
<1>1. \E i \in RowsOf(c) : P(i)
  <2>1. \A i : i \in RowsOf(c) <=> i \in DOMAIN bindings /\ bindings[i].context = c
    BY DEF RowsOf
  <2> QED
    BY <2>1 DEF BindingsInv, HasNewest
<1>2. k \in RowsOf(c) /\ P(k)
  BY <1>1
<1>3. NewestBinding(c) = bindings[k]
  BY DEF NewestBinding
<1> HIDE DEF k
<1> QED
  BY <1>2, <1>3

\* The rubric a grading run resolves is the one bound last in its context, unless
\* two sessions were binding there at once, and a version that cannot be graded
\* with has a null weight (grading_orchestration.py:1340, rubrics.py:74, :432).
THEOREM BindingResolved == Spec => []LastBindingResolves
<1>1. ExclusiveInv /\ BindingsInv => LastBindingResolves
  <2> SUFFICES ASSUME ExclusiveInv, BindingsInv PROVE LastBindingResolves
    OBVIOUS
  <2>1. ASSUME NEW c \in Contexts \ overlap, NEW i \in RowsOf(c),
               \A j \in RowsOf(c) : j <= i
        PROVE  NewestBinding(c) = bindings[i]
    <3>1. PICK k \in RowsOf(c) :
            /\ NewestBinding(c) = bindings[k]
            /\ \A j \in RowsOf(c) : bindings[j].created <= bindings[k].created
      BY <2>1, NewestOf
    <3>2. /\ InOrder(bindings, c) /\ bindings \in Seq(BindingRows)
          /\ \A j \in RowsOf(c) : j \in DOMAIN bindings /\ bindings[j].context = c
      BY DEF BindingsInv, RowsBound, RowsOf
    <3>3. \A j \in DOMAIN bindings : j \in Nat /\ bindings[j] \in BindingRows
      BY <3>2
    <3>4. bindings[k].created \in Nat /\ bindings[i].created \in Nat /\ k \in Nat /\ i \in Nat
      BY <3>2, <3>3, MaxTransactionsAssumption DEF BindingRows
    <3>5. ~(k < i)
      BY <3>1, <3>2, <3>4 DEF InOrder
    <3>6. k = i
      BY <2>1, <3>4, <3>5
    <3> QED
      BY <3>1, <3>6
  <2>2. ASSUME ResolvedBinding # None, ResolvedRubric = None
        PROVE  \E i \in DOMAIN BoundContent.criteria : BoundContent.criteria[i].weight = None
    <3>1. PICK c \in Contexts : RowsOf(c) # {} /\ ResolvedBinding = NewestBinding(c)
      BY <2>2 DEF ResolvedBinding, Contexts
    <3>2. PICK k \in RowsOf(c) : ResolvedBinding = bindings[k]
      BY <3>1, NewestOf
    <3> DEFINE r == bindings[k].rubric
               n == bindings[k].number
    <3>3. /\ bindings[k] \in BindingRows
          /\ versions[r][n] # None
      BY <3>2 DEF BindingsInv, RowsBound, RowsOf
    <3>4. r \in Rubrics /\ r \in Documents /\ n \in Numbers
      BY <3>3 DEF BindingRows, Documents
    <3>5. BoundContent = versions[r][n]
      BY <3>2 DEF BoundContent
    <3> HIDE DEF r, n
    <3>6. ValidSchema(BoundContent) /\ BoundContent # None
      BY <3>3, <3>4, <3>5 DEF ExclusiveInv, AuthoringInv, VersionsOK, ValidContent
    <3>7. ~Scores(BoundContent)
      BY <2>2, <3>6 DEF ResolvedRubric
    <3> QED
      BY <3>6, <3>7 DEF Scores
  <2> QED
    BY <2>1, <2>2 DEF LastBindingResolves
<1>2. Init => ExclusiveInv /\ BindingsInv
  BY InitInv, ExclusiveInit, BindingsInit DEF ExclusiveInv
<1>3. ExclusiveInv /\ BindingsInv /\ [Next]_vars => (ExclusiveInv /\ BindingsInv)'
  BY ExclusiveNext, BindingsNext
<1> QED
  BY <1>1, <1>2, <1>3, PTL DEF Spec

-----------------------------------------------------------------------------
(***************************************************************************)
(* What a rubric contains: every part that came from a suggestion is that  *)
(* of an accepted one, an accepted part stays, and no descriptor           *)
(* suggestion is ever accepted.                                            *)
(***************************************************************************)
Decided == {"accepted", "rejected", "superseded"}

Deciding == {"accept", "apply", "reject", "supersede"}

-----------------------------------------------------------------------------
(* Lists                                                                   *)

LEMMA SequenceIsList ==
    ASSUME NEW S, NEW list \in Seq(S)
    PROVE  IsList(list)
<1> DEFINE R == {list[i] : i \in DOMAIN list}
           n == Len(list)
<1>1. n \in Nat /\ DOMAIN list = 1..n /\ list = [i \in 1..n |-> list[i]]
  OBVIOUS
<1>2. \A i \in 1..n : list[i] \in R
  BY <1>1
<1> HIDE DEF R, n
<1>3. list \in [1..n -> R]
  BY <1>1, <1>2
<1>4. list \in Seq(R)
  BY <1>1, <1>3
<1> QED
  BY <1>4 DEF IsList, R

LEMMA AppendList ==
    ASSUME NEW list, NEW item, IsList(list)
    PROVE  /\ IsList(Append(list, item))
           /\ \A i \in DOMAIN list :
                 i \in DOMAIN Append(list, item) /\ Append(list, item)[i] = list[i]
           /\ Len(list) + 1 \in DOMAIN Append(list, item)
           /\ Append(list, item)[Len(list) + 1] = item
           /\ \A i \in DOMAIN Append(list, item) : i \in DOMAIN list \/ i = Len(list) + 1
<1> DEFINE S == {list[i] : i \in DOMAIN list} \cup {item}
           new == Append(list, item)
<1>1. list \in Seq(S) /\ item \in S
  BY DEF IsList
<1> HIDE DEF S
<1>2. /\ new \in Seq(S)
      /\ DOMAIN new = 1..(Len(list) + 1) /\ DOMAIN list = 1..Len(list) /\ Len(list) \in Nat
      /\ \A i \in DOMAIN list : new[i] = list[i]
      /\ new[Len(list) + 1] = item
  BY <1>1
<1> HIDE DEF new
<1>3. IsList(new)
  BY <1>2, SequenceIsList
<1> QED
  BY <1>2, <1>3 DEF new

LEMMA ConcatList ==
    ASSUME NEW list, NEW more, IsList(list), IsList(more)
    PROVE  /\ IsList(list \o more)
           /\ \A i \in DOMAIN more :
                 /\ Len(list) + i \in DOMAIN (list \o more)
                 /\ (list \o more)[Len(list) + i] = more[i]
<1> DEFINE S == {list[i] : i \in DOMAIN list} \cup {more[i] : i \in DOMAIN more}
           new == list \o more
<1>1. list \in Seq(S) /\ more \in Seq(S)
  BY DEF IsList
<1> HIDE DEF S
<1>2. /\ new \in Seq(S)
      /\ DOMAIN new = 1..(Len(list) + Len(more)) /\ DOMAIN more = 1..Len(more)
      /\ Len(list) \in Nat /\ Len(more) \in Nat
      /\ \A i \in 1..Len(more) : new[Len(list) + i] = more[i]
  BY <1>1
<1> HIDE DEF new
<1>3. IsList(new)
  BY <1>2, SequenceIsList
<1>4. \A i \in DOMAIN more : Len(list) + i \in DOMAIN new /\ new[Len(list) + i] = more[i]
  BY <1>2
<1> QED
  BY <1>3, <1>4 DEF new

-----------------------------------------------------------------------------
(* What an accepted suggestion does to a schema                            *)

\* A schema keeps what it had, gains nothing but from the suggestion applied, and
\* stays a schema.
LEMMA AppliedContent ==
    ASSUME NEW schema, NEW type, NEW payload, NEW g,
           IsSchema(schema), IsPayload(type, payload)
    PROVE  LET new == Applied(schema, type, payload, g) IN
           /\ IsSchema(new)
           /\ \A h : Contains(schema, h) => Contains(new, h)
           /\ \A h : Contains(new, h) => Contains(schema, h) \/ h = g
<1> DEFINE new == Applied(schema, type, payload, g)
<1>1. CASE type = "criterion"
  <2> DEFINE item == [payload.criterion EXCEPT
                        !.position = IF payload.criterion.position = Absent
                                     THEN NextPosition(schema.criteria)
                                     ELSE payload.criterion.position,
                        !.from = g]
             list == Append(schema.criteria, item)
             more == schema.descriptors \o payload.descriptors
  <2>1. item.from = g
    BY <1>1 DEF IsPayload
  <2>2. new = [schema EXCEPT !.criteria = list, !.descriptors = more]
    BY <1>1 DEF Applied, WithCriterion
  <2> HIDE DEF item
  <2>3. /\ IsList(list)
        /\ \A i \in DOMAIN schema.criteria : i \in DOMAIN list /\ list[i] = schema.criteria[i]
        /\ \A i \in DOMAIN list : i \in DOMAIN schema.criteria \/ list[i] = item
    BY AppendList DEF IsSchema
  <2>4. IsList(more)
    BY ConcatList DEF IsSchema, IsPayload
  <2> HIDE DEF list, more, new
  <2>5. /\ new.criteria = list /\ new.descriptors = more /\ new.notes = schema.notes
        /\ DOMAIN new = DOMAIN schema
    BY <2>2 DEF IsSchema
  <2>6. IsSchema(new)
    BY <2>3, <2>4, <2>5 DEF IsSchema
  <2>7. \A h : Contains(schema, h) => Contains(new, h)
    BY <2>3, <2>5 DEF Contains
  <2>8. \A h : Contains(new, h) => Contains(schema, h) \/ h = g
    BY <2>1, <2>3, <2>5 DEF Contains
  <2> QED
    BY <2>6, <2>7, <2>8 DEF new
<1>2. CASE type = "descriptor"
  <2> DEFINE more == schema.descriptors \o payload.descriptors
  <2>1. new = [schema EXCEPT !.descriptors = more]
    BY <1>2 DEF Applied
  <2>2. IsList(more)
    BY ConcatList DEF IsSchema, IsPayload
  <2> HIDE DEF more, new
  <2>3. /\ new.criteria = schema.criteria /\ new.descriptors = more /\ new.notes = schema.notes
        /\ DOMAIN new = DOMAIN schema
    BY <2>1 DEF IsSchema
  <2>4. IsSchema(new)
    BY <2>2, <2>3 DEF IsSchema
  <2>5. \A h : Contains(schema, h) <=> Contains(new, h)
    BY <2>3 DEF Contains
  <2> QED
    BY <2>4, <2>5 DEF new
<1>3. CASE type # "criterion" /\ type # "descriptor"
  <2> DEFINE list == Append(schema.notes, g)
  <2>1. new = [schema EXCEPT !.notes = list]
    BY <1>3 DEF Applied
  <2>2. /\ IsList(list)
        /\ \A i \in DOMAIN schema.notes : i \in DOMAIN list /\ list[i] = schema.notes[i]
        /\ \A i \in DOMAIN list : i \in DOMAIN schema.notes \/ list[i] = g
    BY AppendList DEF IsSchema
  <2> HIDE DEF list, new
  <2>3. /\ new.criteria = schema.criteria /\ new.descriptors = schema.descriptors
        /\ new.notes = list /\ DOMAIN new = DOMAIN schema
    BY <2>1 DEF IsSchema
  <2>4. IsSchema(new)
    BY <2>2, <2>3 DEF IsSchema
  <2>5. \A h : Contains(schema, h) => Contains(new, h)
    BY <2>2, <2>3 DEF Contains
  <2>6. \A h : Contains(new, h) => Contains(schema, h) \/ h = g
    BY <2>2, <2>3 DEF Contains
  <2> QED
    BY <2>4, <2>5, <2>6 DEF new
<1> QED
  BY <1>1, <1>2, <1>3

\* A valid schema describes every pair, so no new descriptor leaves it valid.
LEMMA DescriptorRefused ==
    ASSUME NEW schema, NEW payload, NEW g, IsSchema(schema), ValidSchema(schema),
           IsPayload("descriptor", payload), Applies(schema, "descriptor", payload),
           ValidSchema(Applied(schema, "descriptor", payload, g))
    PROVE  FALSE
<1> DEFINE new == Applied(schema, "descriptor", payload, g)
           more == schema.descriptors \o payload.descriptors
<1>1. new = [schema EXCEPT !.descriptors = more]
  BY DEF Applied
<1>2. \A i \in DOMAIN payload.descriptors : \E j \in DOMAIN more : more[j] = payload.descriptors[i]
  <2> DEFINE old == schema.descriptors
             add == payload.descriptors
  <2>1. IsList(old) /\ IsList(add)
    BY DEF IsSchema, IsPayload
  <2>2. more = old \o add
    OBVIOUS
  <2> HIDE DEF old, add, more
  <2>3. \A i \in DOMAIN add : /\ Len(old) + i \in DOMAIN (old \o add)
                              /\ (old \o add)[Len(old) + i] = add[i]
    BY <2>1, ConcatList
  <2>4. \A i \in DOMAIN add : \E j \in DOMAIN more : more[j] = add[i]
    BY <2>2, <2>3
  <2> QED
    BY <2>4 DEF add
<1> HIDE DEF more, new
<1>3. new.criteria = schema.criteria /\ new.descriptors = more /\ new.levels = schema.levels
  BY <1>1 DEF IsSchema
<1>4. {more[i] : i \in DOMAIN more}
        = {schema.descriptors[i] : i \in DOMAIN schema.descriptors}
  <2>1. {more[i] : i \in DOMAIN more} = Keys(schema.criteria) \X Keys(schema.levels)
    BY <1>3 DEF ValidSchema, Described, Each, Pair, new
  <2>2. {schema.descriptors[i] : i \in DOMAIN schema.descriptors}
          = Keys(schema.criteria) \X Keys(schema.levels)
    BY DEF ValidSchema, Described, Each, Pair
  <2> QED
    BY <2>1, <2>2
<1>5. 1 \in DOMAIN payload.descriptors
  <2>1. payload.descriptors # <<>>
        /\ payload.descriptors \in Seq({payload.descriptors[i] : i \in DOMAIN payload.descriptors})
    BY DEF IsPayload, IsList
  <2>2. Len(payload.descriptors) # 0
    BY <2>1
  <2> QED
    BY <2>1, <2>2
<1>6. payload.descriptors[1] \in {schema.descriptors[i] : i \in DOMAIN schema.descriptors}
  BY <1>2, <1>4, <1>5
<1>7. {payload.descriptors[i] : i \in DOMAIN payload.descriptors}
        \cap {schema.descriptors[i] : i \in DOMAIN schema.descriptors} = {}
  BY DEF Applies, NewDescriptors, Each, Pair
<1> QED
  BY <1>5, <1>6, <1>7

-----------------------------------------------------------------------------
(* The invariant                                                           *)

\* Suggestion g is where content of rubric r may have come from.
Traced(g, r, dec, prop, ov) ==
    g \notin Claimed =>
        dec[g] \in Decided /\ prop[g].target = r /\ (g \notin ov => dec[g] = "accepted")

\* What a session writes is a schema whose parts are traced, but for the part it
\* is about to accept; what it decides is undecided, unless another decides it too.
ContentSound(t, dr, dec, prop, ov) ==
    /\ t.op \in Writing /\ t.doc \in Rubrics =>
          /\ t.op # "publish" => IsSchema(t.new)
          /\ \A g \in Suggestions :
                Contains(t.new, g) /\ ~(t.op = "apply" /\ g = t.sugg) =>
                    Traced(g, t.doc, dec, prop, ov)
    /\ t.op \in {"accept", "apply"} => t.doc \in Rubrics /\ prop[t.sugg].target = t.doc
    /\ t.op = "accept" => IsPayload(prop[t.sugg].type, t.new)
    /\ t.op = "apply" =>
          /\ prop[t.sugg].type # "descriptor"
          /\ t.doc \notin ov =>
                \A g \in Suggestions : Contains(dr[t.doc], g) => Contains(t.new, g)
    /\ t.op \in Deciding /\ t.sugg \notin ov => dec[t.sugg] = "draft"

RubricsContent ==
    \A r \in Rubrics :
        /\ draft[r] # None => IsSchema(draft[r])
        /\ \A content \in Kept(r) : \A g \in Suggestions :
              Contains(content, g) => Traced(g, r, decision, proposal, overlap)

ProposalShapes ==
    \A g \in Suggestions :
        proposal[g] # None =>
            proposal[g].type \in SuggestionTypes /\ IsPayload(proposal[g].type, proposal[g].payload)

SessionsSound == \A s \in Sessions : ContentSound(tx[s], draft, decision, proposal, overlap)

ContentInv == RubricsContent /\ ProposalShapes /\ DescriptorNeverAccepted /\ SessionsSound

LEMMA ContentInit == Init => ContentInv
<1> SUFFICES ASSUME Init PROVE ContentInv
  OBVIOUS
<1>1. \A r \in Rubrics : Kept(r) = {} /\ draft[r] = None
  BY DEF Init, Kept, Documents
<1>2. RubricsContent
  BY <1>1 DEF RubricsContent
<1>3. ProposalShapes /\ DescriptorNeverAccepted
  BY DEF Init, ProposalShapes, DescriptorNeverAccepted
<1>4. SessionsSound
  BY DEF Init, SessionsSound, ContentSound, Idle, Writing, Deciding
<1> QED
  BY <1>2, <1>3, <1>4 DEF ContentInv

-----------------------------------------------------------------------------
(* Steps of others                                                         *)

\* A step changes no more than the rows in H, and takes no acceptance back that
\* one session alone decided.
Change(H) ==
    /\ overlap \subseteq overlap'
    /\ \A g \in Suggestions :
          decision[g] \in Decided =>
              /\ decision'[g] \in Decided
              /\ g \notin overlap' /\ decision[g] = "accepted" => decision'[g] = "accepted"
    /\ \A g \in Suggestions : proposal[g] # None => proposal'[g] = proposal[g]
    /\ \A d \in Documents \ H : status[d] # "absent" => draft'[d] = draft[d]
    /\ \A g \in Suggestions \ H : decision[g] = "draft" => decision'[g] = "draft"

LEMMA TracedStays ==
    ASSUME AuthoringInv, NEW H, Change(H), NEW g \in Suggestions, NEW r,
           Traced(g, r, decision, proposal, overlap)
    PROVE  Traced(g, r, decision', proposal', overlap')
<1> SUFFICES ASSUME g \notin Claimed PROVE Traced(g, r, decision', proposal', overlap')
  BY DEF Traced
<1>1. decision[g] \in Decided /\ proposal[g].target = r
  BY DEF Traced
<1>2. proposal[g] # None
  BY <1>1 DEF AuthoringInv, ProposalsOK, Decided
<1>3. proposal'[g] = proposal[g] /\ decision'[g] \in Decided
  BY <1>1, <1>2 DEF Change
<1>4. g \notin overlap' => decision'[g] = "accepted"
  BY <1>1 DEF Change, Traced
<1> QED
  BY <1>1, <1>3, <1>4 DEF Traced

LEMMA DeciderHolds ==
    ASSUME NEW t, t.sugg \in Suggestions, t.op \in Deciding
    PROVE  t.sugg \in Held(t)
BY NoneAssumption DEF Held, Deciding

LEMMA KeepSound ==
    ASSUME AuthoringInv, NEW H, Change(H), NEW t, H \cap Held(t) \subseteq overlap,
           Sound(t, status, latest, proposal, clock),
           ContentSound(t, draft, decision, proposal, overlap)
    PROVE  ContentSound(t, draft', decision', proposal', overlap')
<1>1. t.op \in Deciding => t.sugg \in Suggestions /\ proposal'[t.sugg] = proposal[t.sugg]
  BY DEF Sound, Change, Deciding
<1>2. ASSUME t.op \in Writing, t.doc \in Rubrics
      PROVE  /\ t.op # "publish" => IsSchema(t.new)
             /\ \A g \in Suggestions :
                   Contains(t.new, g) /\ ~(t.op = "apply" /\ g = t.sugg) =>
                       Traced(g, t.doc, decision', proposal', overlap')
  BY <1>2, TracedStays DEF ContentSound
<1>3. t.op \in {"accept", "apply"} => t.doc \in Rubrics /\ proposal'[t.sugg].target = t.doc
  BY <1>1 DEF ContentSound, Deciding
<1>4. t.op = "accept" => IsPayload(proposal'[t.sugg].type, t.new)
  BY <1>1 DEF ContentSound, Deciding
<1>5. ASSUME t.op = "apply"
      PROVE  /\ proposal'[t.sugg].type # "descriptor"
             /\ t.doc \notin overlap' =>
                   \A g \in Suggestions : Contains(draft'[t.doc], g) => Contains(t.new, g)
  <2>1. proposal'[t.sugg].type # "descriptor"
    BY <1>1, <1>5 DEF ContentSound, Deciding
  <2>2. t.doc \in Documents /\ status[t.doc] # "absent" /\ t.doc \in Held(t)
    BY <1>5, WriterHolds DEF Sound, Writing
  <2>3. t.doc \notin overlap' => draft'[t.doc] = draft[t.doc] /\ t.doc \notin overlap
    BY <2>2 DEF Change
  <2> QED
    BY <1>5, <2>1, <2>3 DEF ContentSound
<1>6. ASSUME t.op \in Deciding, t.sugg \notin overlap'
      PROVE  decision'[t.sugg] = "draft"
  <2>1. t.sugg \in Held(t) /\ t.sugg \in Suggestions /\ t.sugg \notin overlap
    BY <1>1, <1>6, DeciderHolds DEF Change
  <2>2. decision[t.sugg] = "draft"
    BY <1>6, <2>1 DEF ContentSound
  <2> QED
    BY <2>1, <2>2 DEF Change
<1> QED
  BY <1>2, <1>3, <1>4, <1>5, <1>6 DEF ContentSound

LEMMA OthersSound ==
    ASSUME ExclusiveInv, SessionsSound, NEW s \in Sessions, NEW T,
           tx' = [tx EXCEPT ![s] = T], Change(Held(tx[s])),
           ContentSound(T, draft', decision', proposal', overlap')
    PROVE  SessionsSound'
<1>1. DOMAIN tx = Sessions /\ AuthoringInv
  BY DEF ExclusiveInv, AuthoringInv, Columns
<1>2. ASSUME NEW u \in Sessions
      PROVE  ContentSound(tx'[u], draft', decision', proposal', overlap')
  <2>1. CASE u = s
    BY <1>1, <2>1
  <2>2. CASE u # s
    <3>1. Held(tx[s]) \cap Held(tx[u]) \subseteq overlap
      BY <2>2 DEF ExclusiveInv, OverlapSeen
    <3>2. Sound(tx[u], status, latest, proposal, clock)
      BY <1>1 DEF AuthoringInv, SessionsOK
    <3>3. ContentSound(tx[u], draft, decision, proposal, overlap)
      BY DEF SessionsSound
    <3>4. ContentSound(tx[u], draft', decision', proposal', overlap')
      BY <1>1, <3>1, <3>2, <3>3, KeepSound
    <3> QED
      BY <1>1, <2>2, <3>4
  <2> QED
    BY <2>1, <2>2
<1> QED
  BY <1>2 DEF SessionsSound

LEMMA RubricsStep ==
    ASSUME AuthoringInv, RubricsContent, NEW H, Change(H),
           \A r \in Rubrics : draft'[r] = draft[r] \/ IsSchema(draft'[r]),
           \A r \in Rubrics : \A content \in Kept(r)' :
              \/ content \in Kept(r)
              \/ \A g \in Suggestions :
                    Contains(content, g) => Traced(g, r, decision', proposal', overlap')
    PROVE  RubricsContent'
<1>1. ASSUME NEW r \in Rubrics, NEW content \in Kept(r)', NEW g \in Suggestions,
             Contains(content, g)
      PROVE  Traced(g, r, decision', proposal', overlap')
  <2>1. CASE content \in Kept(r)
    <3>1. Traced(g, r, decision, proposal, overlap)
      BY <1>1, <2>1 DEF RubricsContent
    <3> QED
      BY <3>1, TracedStays
  <2>2. CASE content \notin Kept(r)
    BY <1>1, <2>2
  <2> QED
    BY <2>1, <2>2
<1>2. \A r \in Rubrics : draft'[r] # None => IsSchema(draft'[r])
  BY DEF RubricsContent
<1> QED
  BY <1>1, <1>2 DEF RubricsContent

-----------------------------------------------------------------------------
(* Steps of a session that write nothing                                   *)

\* What a session does to its own state alone.
LEMMA OwnStep ==
    ASSUME ExclusiveInv, ContentInv, NEW s \in Sessions, NEW T,
           tx' = [tx EXCEPT ![s] = T], UNCHANGED rows, overlap \subseteq overlap',
           ContentSound(T, draft, decision, proposal, overlap')
    PROVE  ContentInv'
<1>1. /\ draft' = draft /\ decision' = decision /\ proposal' = proposal
      /\ versions' = versions /\ AuthoringInv
  BY DEF rows, ExclusiveInv
<1>2. Change(Held(tx[s]))
  BY <1>1 DEF Change
<1>3. SessionsSound'
  BY <1>1, <1>2, OthersSound DEF ContentInv
<1>4. RubricsContent'
  <2>1. \A r \in Rubrics : Kept(r)' = Kept(r)
    BY <1>1 DEF Kept
  <2> QED
    BY <1>1, <1>2, <2>1, RubricsStep DEF ContentInv
<1>5. ProposalShapes' /\ DescriptorNeverAccepted'
  BY <1>1 DEF ContentInv, ProposalShapes, DescriptorNeverAccepted
<1> QED
  BY <1>3, <1>4, <1>5 DEF ContentInv

LEMMA IdleContent ==
    ASSUME NEW dr, NEW dec, NEW prop, NEW ov
    PROVE  ContentSound(Idle, dr, dec, prop, ov)
BY DEF ContentSound, Idle, Writing, Deciding

LEMMA TracedLater ==
    ASSUME NEW g, NEW r, NEW ov, overlap \subseteq ov,
           Traced(g, r, decision, proposal, overlap)
    PROVE  Traced(g, r, decision, proposal, ov)
BY DEF Traced

LEMMA BeginContent ==
    ASSUME ExclusiveInv, ContentInv, NEW s \in Sessions, Begins(s)
    PROVE  ContentInv'
<1>1. ASSUME NEW t, Begin(s, t),
             ContentSound([t EXCEPT !.began = clock + 1], draft, decision, proposal, overlap')
      PROVE  ContentInv'
  <2>1. /\ tx' = [tx EXCEPT ![s] = [t EXCEPT !.began = clock + 1]]
        /\ UNCHANGED rows /\ overlap \subseteq overlap'
    BY <1>1 DEF Begin
  <2> QED
    BY <1>1, <2>1, OwnStep
<1>2. ASSUME NEW t, Begin(s, t)
      PROVE  overlap \subseteq overlap'
  BY <1>2 DEF Begin
<1>3. ASSUME NEW d \in Documents, NEW c \in Inputs(d), BeginEdit(s, d, c)
      PROVE  ContentInv'
  <2> DEFINE t == Loaded("edit", d, c)
             T == [t EXCEPT !.began = clock + 1]
  <2>1. T.op = "edit" /\ T.doc = d /\ T.new = c
    BY DEF Loaded, Idle
  <2>2. Begin(s, t)
    BY <1>3 DEF BeginEdit
  <2>3. d \in Rubrics =>
          /\ IsSchema(c)
          /\ \A g \in Suggestions :
                Contains(c, g) => Traced(g, d, decision, proposal, overlap')
    BY SchemasAssumption DEF Inputs, Claimed, Traced
  <2> HIDE DEF t
  <2>4. ContentSound(T, draft, decision, proposal, overlap')
    <3> HIDE DEF T
    <3> QED
      BY <2>1, <2>3 DEF ContentSound, Writing, Deciding
  <2> QED
    BY <1>1, <2>2, <2>4
<1>4. ASSUME NEW d \in Documents, BeginPublish(s, d)
      PROVE  ContentInv'
  <2> DEFINE t == Loaded("publish", d, draft[d])
             T == [t EXCEPT !.began = clock + 1]
  <2>1. T.op = "publish" /\ T.doc = d /\ T.new = draft[d]
    BY DEF Loaded, Idle
  <2>2. Begin(s, t) /\ draft[d] # None
    BY <1>4 DEF BeginPublish, ValidContent
  <2>3. d \in Rubrics =>
          \A g \in Suggestions :
             Contains(draft[d], g) => Traced(g, d, decision, proposal, overlap')
    <3>1. draft[d] \in Kept(d)
      BY <2>2 DEF Kept
    <3>2. overlap \subseteq overlap'
      BY <1>2, <2>2
    <3> QED
      BY <3>1, <3>2, TracedLater DEF ContentInv, RubricsContent
  <2> HIDE DEF t
  <2>4. ContentSound(T, draft, decision, proposal, overlap')
    <3> HIDE DEF T
    <3> QED
      BY <2>1, <2>3 DEF ContentSound, Writing, Deciding
  <2> QED
    BY <1>1, <2>2, <2>4
<1>5. ASSUME NEW op \in {"reject", "supersede", "accept"}, NEW g \in Suggestions, NEW payload,
             BeginDecision(s, op, g, payload),
             op = "accept" => IsPayload(proposal[g].type, payload)
      PROVE  ContentInv'
  <2> DEFINE t == [Idle EXCEPT !.op = op, !.sugg = g, !.doc = proposal[g].target,
                               !.new = payload]
             T == [t EXCEPT !.began = clock + 1]
  <2>1. T.op = op /\ T.sugg = g /\ T.doc = proposal[g].target /\ T.new = payload
    BY DEF Idle
  <2>2. Begin(s, t) /\ decision[g] = "draft"
    BY <1>5 DEF BeginDecision
  <2>3. proposal[g].target \in Rubrics
    BY <2>2 DEF ExclusiveInv, AuthoringInv, ProposalsOK
  <2> HIDE DEF t
  <2>4. ContentSound(T, draft, decision, proposal, overlap')
    <3> HIDE DEF T
    <3> QED
      BY <1>5, <2>1, <2>2, <2>3 DEF ContentSound, Writing
  <2> QED
    BY <1>1, <2>2, <2>4
<1>6. ASSUME NEW g \in Suggestions, BeginReject(s, g) \/ BeginSupersede(s, g)
      PROVE  ContentInv'
  BY <1>5, <1>6 DEF BeginReject, BeginSupersede
<1>7. ASSUME NEW g \in Suggestions, NEW p \in EditedPayloads \cup {None}, BeginAccept(s, g, p)
      PROVE  ContentInv'
  <2> DEFINE payload == IF p = None THEN proposal[g].payload ELSE p
  <2>1. BeginDecision(s, "accept", g, payload)
    BY <1>7 DEF BeginAccept
  <2>2. proposal[g] # None
    BY <2>1 DEF BeginDecision, ExclusiveInv, AuthoringInv, ProposalsOK
  <2>3. IsPayload(proposal[g].type, payload)
    BY <2>2, PayloadsAssumption DEF ContentInv, ProposalShapes
  <2> HIDE DEF payload
  <2> QED
    BY <1>5, <2>1, <2>3
<1>8. ASSUME NEW r \in Rubrics, NEW n, NEW c, BeginBind(s, r, n, c)
      PROVE  ContentInv'
  <2> DEFINE t == [Idle EXCEPT !.op = "bind", !.doc = r, !.number = n, !.context = c]
             T == [t EXCEPT !.began = clock + 1]
  <2>1. T.op = "bind"
    BY DEF Idle
  <2>2. Begin(s, t)
    BY <1>8 DEF BeginBind
  <2> HIDE DEF t
  <2>3. ContentSound(T, draft, decision, proposal, overlap')
    <3> HIDE DEF T
    <3> QED
      BY <2>1 DEF ContentSound, Writing, Deciding
  <2> QED
    BY <1>1, <2>2, <2>3
<1> QED
  BY <1>3, <1>4, <1>6, <1>7, <1>8 DEF Begins

LEMMA ApplyContent ==
    ASSUME ExclusiveInv, ContentInv, NEW s \in Sessions, Apply(s)
    PROVE  ContentInv'
<1> DEFINE r == tx[s].doc
           g == tx[s].sugg
           type == proposal[g].type
           payload == tx[s].new
           new == Applied(draft[r], type, payload, g)
           L == Loaded("apply", r, AppliedToDraft(s))
           T == [L EXCEPT !.sugg = g, !.began = tx[s].began]
<1>1. T.op = "apply" /\ T.doc = r /\ T.sugg = g /\ T.new = new
  BY DEF Loaded, Idle, AppliedToDraft
<1>2. /\ tx[s].op = "accept" /\ tx' = [tx EXCEPT ![s] = T]
      /\ UNCHANGED rows /\ overlap' = overlap
      /\ Applies(draft[r], type, payload) /\ ValidContent(r, new)
  BY DEF Apply, MayApply, AppliedToDraft
<1>3. /\ r \in Rubrics /\ r \in Documents /\ status[r] # "absent"
      /\ g \in Suggestions /\ proposal[g] # None
  BY <1>2 DEF ExclusiveInv, AuthoringInv, SessionsOK, Sound, Documents
<1>4. /\ proposal[g].target = r /\ IsPayload(type, payload)
      /\ g \notin overlap => decision[g] = "draft"
  BY <1>2 DEF ContentInv, SessionsSound, ContentSound, Deciding
<1>5. draft[r] # None /\ ValidSchema(draft[r]) /\ IsSchema(draft[r]) /\ draft[r] \in Kept(r)
  BY <1>3 DEF ExclusiveInv, AuthoringInv, DraftsOK, ValidContent, ContentInv, RubricsContent, Kept
<1>6. ValidSchema(new)
  BY <1>2, <1>3 DEF ValidContent
<1> HIDE DEF T
<1>7. type # "descriptor"
  BY <1>2, <1>4, <1>5, <1>6, DescriptorRefused
<1>8. /\ IsSchema(new)
      /\ \A h : Contains(draft[r], h) => Contains(new, h)
      /\ \A h : Contains(new, h) => Contains(draft[r], h) \/ h = g
  BY <1>4, <1>5, AppliedContent
<1> HIDE DEF new
<1>9. ASSUME NEW h \in Suggestions, Contains(new, h), h # g
      PROVE  Traced(h, r, decision, proposal, overlap')
  BY <1>2, <1>3, <1>5, <1>8, <1>9 DEF ContentInv, RubricsContent
<1> HIDE DEF r, g, type, payload
<1>10. ContentSound(T, draft, decision, proposal, overlap')
  BY <1>1, <1>2, <1>3, <1>4, <1>7, <1>8, <1>9 DEF ContentSound, Writing, Deciding, type
<1> QED
  BY <1>2, <1>10, OwnStep

-----------------------------------------------------------------------------
(* Steps that write                                                        *)

\* A draft is saved, and the suggestion of an acceptance is accepted.
LEMMA SaveContent ==
    ASSUME ExclusiveInv, ContentInv, NEW s \in Sessions, CommitEdit(s) \/ CommitAccept(s)
    PROVE  ContentInv'
<1> DEFINE t == tx[s]
           d == t.doc
           g == t.sugg
<1>1. /\ t.op \in {"edit", "apply"} /\ t.op \in Writing
      /\ draft' = [draft EXCEPT ![d] = Written(draft[d], t.old, t.new)]
      /\ tx' = [tx EXCEPT ![s] = Idle] /\ overlap' = overlap
      /\ versions' = versions /\ proposal' = proposal
      /\ t.op = "edit" => decision' = decision
      /\ t.op = "apply" => decision' = [decision EXCEPT ![g] = "accepted"]
  BY DEF CommitEdit, CommitAccept, SaveDraft, Accept, Close, Writing
<1>2. /\ d \in Documents /\ d \in Held(t) /\ DOMAIN draft = Documents
      /\ DOMAIN decision = Suggestions /\ AuthoringInv
      /\ t.op = "apply" => g \in Suggestions /\ g \in Held(t)
  BY <1>1, WriterHolds, DeciderHolds
  DEF ExclusiveInv, AuthoringInv, Columns, SessionsOK, Sound, Deciding
<1>3. ContentSound(t, draft, decision, proposal, overlap)
  BY DEF ContentInv, SessionsSound
<1>4. /\ \A e \in Documents : e # d => draft'[e] = draft[e]
      /\ draft'[d] \in {draft[d], t.new}
  BY <1>1, <1>2 DEF Written
<1>13. Held(t) = Held(tx[s])
  OBVIOUS
<1> HIDE DEF t, d, g
<1>5. \A h \in Suggestions : decision'[h] = decision[h] \/ (t.op = "apply" /\ h = g /\ decision'[h] = "accepted")
  BY <1>1, <1>2
<1>6. Change(Held(tx[s]))
  <2>1. \A h \in Suggestions :
          decision[h] \in Decided =>
              /\ decision'[h] \in Decided
              /\ h \notin overlap' /\ decision[h] = "accepted" => decision'[h] = "accepted"
    BY <1>5 DEF Decided
  <2>2. \A e \in Documents \ Held(tx[s]) : status[e] # "absent" => draft'[e] = draft[e]
    BY <1>2, <1>4, <1>13
  <2>3. \A h \in Suggestions \ Held(tx[s]) : decision[h] = "draft" => decision'[h] = "draft"
    BY <1>2, <1>5, <1>13
  <2> QED
    BY <1>1, <2>1, <2>2, <2>3 DEF Change
<1>7. SessionsSound'
  BY <1>1, <1>6, IdleContent, OthersSound DEF ContentInv
<1>8. ASSUME d \in Rubrics, NEW h \in Suggestions, Contains(t.new, h)
      PROVE  Traced(h, d, decision', proposal', overlap')
  <2>1. CASE t.op = "apply" /\ h = g
    <3>1. proposal[g].target = d
      BY <1>3, <2>1 DEF ContentSound, d, g
    <3>2. decision'[g] = "accepted"
      BY <1>1, <1>2, <2>1
    <3> QED
      BY <1>1, <2>1, <3>1, <3>2 DEF Traced, Decided
  <2>2. CASE ~(t.op = "apply" /\ h = g)
    <3>1. Traced(h, d, decision, proposal, overlap)
      BY <1>1, <1>3, <1>8, <2>2 DEF ContentSound, d, g
    <3> QED
      BY <1>2, <1>6, <3>1, TracedStays
  <2> QED
    BY <2>1, <2>2
<1>9. \A r \in Rubrics : draft'[r] = draft[r] \/ IsSchema(draft'[r])
  <2>1. d \in Rubrics => IsSchema(t.new)
    BY <1>1, <1>3 DEF ContentSound, d
  <2> QED
    BY <1>4, <2>1 DEF Documents
<1>10. \A r \in Rubrics : \A content \in Kept(r)' :
          content \in Kept(r) \/ (r = d /\ content = t.new)
  BY <1>1, <1>4 DEF Kept, Documents
<1>11. RubricsContent'
  <2>1. \A r \in Rubrics : \A content \in Kept(r)' :
           \/ content \in Kept(r)
           \/ \A h \in Suggestions :
                 Contains(content, h) => Traced(h, r, decision', proposal', overlap')
    BY <1>8, <1>10
  <2> QED
    BY <1>2, <1>6, <1>9, <2>1, RubricsStep DEF ContentInv
<1>12. ProposalShapes' /\ DescriptorNeverAccepted'
  <2>1. t.op = "apply" => proposal[g].type # "descriptor"
    BY <1>3 DEF ContentSound, g
  <2> QED
    BY <1>1, <1>5, <2>1 DEF ContentInv, ProposalShapes, DescriptorNeverAccepted
<1> QED
  BY <1>7, <1>11, <1>12 DEF ContentInv

LEMMA PublishContent ==
    ASSUME ExclusiveInv, ContentInv, NEW s \in Sessions, CommitPublish(s)
    PROVE  ContentInv'
<1> DEFINE t == tx[s]
           d == t.doc
           n == t.number
<1>1. /\ t.op = "publish" /\ t.op \in Writing
      /\ versions' = [versions EXCEPT ![d][n] = t.new]
      /\ tx' = [tx EXCEPT ![s] = Idle] /\ overlap' = overlap
      /\ draft' = draft /\ proposal' = proposal /\ decision' = decision
  BY DEF CommitPublish, Close, Writing
<1>2. ContentSound(t, draft, decision, proposal, overlap)
  BY DEF ContentInv, SessionsSound
<1>3. Change(Held(tx[s]))
  BY <1>1 DEF Change
<1>4. /\ DOMAIN versions = Documents /\ \A e \in Documents : DOMAIN versions[e] = Numbers
      /\ AuthoringInv
  BY DEF ExclusiveInv, AuthoringInv, Columns
<1>5. SessionsSound'
  BY <1>1, <1>3, IdleContent, OthersSound DEF ContentInv
<1>6. \A r \in Rubrics : \A content \in Kept(r)' :
         content \in Kept(r) \/ (r = d /\ content = t.new)
  <2>1. \A r \in Rubrics : \A k \in Numbers :
           versions'[r][k] = versions[r][k] \/ (r = d /\ versions'[r][k] = t.new)
    BY <1>1, <1>4 DEF Documents
  <2> HIDE DEF t, d, n
  <2> QED
    BY <1>1, <2>1 DEF Kept
<1>7. \A r \in Rubrics : \A content \in Kept(r)' :
         \/ content \in Kept(r)
         \/ \A h \in Suggestions :
               Contains(content, h) => Traced(h, r, decision', proposal', overlap')
  <2>1. d \in Rubrics => \A h \in Suggestions :
           Contains(t.new, h) => Traced(h, d, decision', proposal', overlap')
    BY <1>1, <1>2 DEF ContentSound
  <2> HIDE DEF t, d, n
  <2> QED
    BY <1>6, <2>1
<1>8. RubricsContent'
  BY <1>1, <1>3, <1>4, <1>7, RubricsStep DEF ContentInv
<1>9. ProposalShapes' /\ DescriptorNeverAccepted'
  BY <1>1 DEF ContentInv, ProposalShapes, DescriptorNeverAccepted
<1> QED
  BY <1>5, <1>8, <1>9 DEF ContentInv

LEMMA RejectContent ==
    ASSUME ExclusiveInv, ContentInv, NEW s \in Sessions, CommitReject(s)
    PROVE  ContentInv'
<1> DEFINE g == tx[s].sugg
<1>1. /\ tx[s].op \in {"reject", "supersede"}
      /\ \E v \in {"rejected", "superseded"} : decision' = [decision EXCEPT ![g] = v]
      /\ tx' = [tx EXCEPT ![s] = Idle] /\ overlap' = overlap
      /\ draft' = draft /\ versions' = versions /\ proposal' = proposal
  BY DEF CommitReject, Close
<1>2. /\ g \in Suggestions /\ g \in Held(tx[s]) /\ DOMAIN decision = Suggestions
      /\ AuthoringInv
  BY <1>1, DeciderHolds
  DEF ExclusiveInv, AuthoringInv, Columns, SessionsOK, Sound, Deciding
<1>3. g \notin overlap => decision[g] = "draft"
  BY <1>1 DEF ContentInv, SessionsSound, ContentSound, Deciding
<1> HIDE DEF g
<1>4. /\ \A h \in Suggestions : h # g => decision'[h] = decision[h]
      /\ decision'[g] \in {"rejected", "superseded"}
  BY <1>1, <1>2
<1>5. Change(Held(tx[s]))
  <2>1. \A h \in Suggestions :
          decision[h] \in Decided =>
              /\ decision'[h] \in Decided
              /\ h \notin overlap' /\ decision[h] = "accepted" => decision'[h] = "accepted"
    BY <1>1, <1>3, <1>4 DEF Decided
  <2> QED
    BY <1>1, <1>2, <1>4, <2>1 DEF Change
<1>6. SessionsSound'
  BY <1>1, <1>5, IdleContent, OthersSound DEF ContentInv
<1>7. RubricsContent'
  <2>1. \A r \in Rubrics : Kept(r)' = Kept(r)
    BY <1>1 DEF Kept
  <2> QED
    BY <1>1, <1>2, <1>5, <2>1, RubricsStep DEF ContentInv
<1>8. ProposalShapes' /\ DescriptorNeverAccepted'
  BY <1>1, <1>4 DEF ContentInv, ProposalShapes, DescriptorNeverAccepted
<1> QED
  BY <1>6, <1>7, <1>8 DEF ContentInv

LEMMA CloseContent ==
    ASSUME ExclusiveInv, ContentInv, NEW s \in Sessions, Close(s),
           UNCHANGED <<draft, versions, proposal, decision>>
    PROVE  ContentInv'
<1>1. tx' = [tx EXCEPT ![s] = Idle] /\ overlap' = overlap /\ AuthoringInv
  BY DEF Close, ExclusiveInv
<1>2. Change(Held(tx[s]))
  BY <1>1 DEF Change
<1>3. SessionsSound'
  BY <1>1, <1>2, IdleContent, OthersSound DEF ContentInv
<1>4. RubricsContent'
  <2>1. \A r \in Rubrics : Kept(r)' = Kept(r)
    BY DEF Kept
  <2> QED
    BY <1>1, <1>2, <2>1, RubricsStep DEF ContentInv
<1>5. ProposalShapes' /\ DescriptorNeverAccepted'
  BY DEF ContentInv, ProposalShapes, DescriptorNeverAccepted
<1> QED
  BY <1>3, <1>4, <1>5 DEF ContentInv

\* A step of no session: a new row.
LEMMA NewRowSessions ==
    ASSUME ExclusiveInv, SessionsSound, Change({}), tx' = tx
    PROVE  SessionsSound'
<1>1. ASSUME NEW u \in Sessions
      PROVE  ContentSound(tx[u], draft', decision', proposal', overlap')
  <2>1. Sound(tx[u], status, latest, proposal, clock) /\ AuthoringInv
    BY DEF ExclusiveInv, AuthoringInv, SessionsOK
  <2>2. ContentSound(tx[u], draft, decision, proposal, overlap)
    BY DEF SessionsSound
  <2> QED
    BY <2>1, <2>2, KeepSound
<1> QED
  BY <1>1 DEF SessionsSound

LEMMA CreateContent ==
    ASSUME ExclusiveInv, ContentInv, NEW d \in Documents, NEW c \in Inputs(d), Create(d, c)
    PROVE  ContentInv'
<1>1. /\ status[d] = "absent" /\ draft' = [draft EXCEPT ![d] = c]
      /\ UNCHANGED <<versions, proposal, decision, tx, overlap>>
      /\ DOMAIN draft = Documents /\ AuthoringInv
  BY DEF Create, ExclusiveInv, AuthoringInv, Columns
<1>2. Change({})
  BY <1>1 DEF Change
<1>3. SessionsSound'
  BY <1>1, <1>2, NewRowSessions DEF ContentInv
<1>4. d \in Rubrics =>
        /\ IsSchema(c)
        /\ \A g \in Suggestions :
              Contains(c, g) => Traced(g, d, decision', proposal', overlap')
  BY SchemasAssumption DEF Inputs, Claimed, Traced
<1>5. \A r \in Rubrics : draft'[r] = draft[r] \/ IsSchema(draft'[r])
  BY <1>1, <1>4 DEF Documents
<1>6. \A r \in Rubrics : \A content \in Kept(r)' : content \in Kept(r) \/ (r = d /\ content = c)
  BY <1>1 DEF Kept, Documents
<1>7. RubricsContent'
  BY <1>1, <1>2, <1>4, <1>5, <1>6, RubricsStep DEF ContentInv
<1>8. ProposalShapes' /\ DescriptorNeverAccepted'
  BY <1>1 DEF ContentInv, ProposalShapes, DescriptorNeverAccepted
<1> QED
  BY <1>3, <1>7, <1>8 DEF ContentInv

LEMMA CreateSuggestionContent ==
    ASSUME ExclusiveInv, ContentInv, NEW g \in Suggestions, NEW p \in Proposals,
           CreateSuggestion(g, p)
    PROVE  ContentInv'
<1>1. /\ decision[g] = "absent" /\ p.type \in SuggestionTypes
      /\ proposal' = [proposal EXCEPT ![g] = p]
      /\ decision' = [decision EXCEPT ![g] = "draft"]
      /\ UNCHANGED <<draft, versions, tx, overlap>>
      /\ DOMAIN proposal = Suggestions /\ DOMAIN decision = Suggestions /\ AuthoringInv
  BY DEF CreateSuggestion, ExclusiveInv, AuthoringInv, Columns
<1>2. proposal[g] = None
  BY <1>1 DEF AuthoringInv, ProposalsOK
<1>3. Change({})
  BY <1>1, <1>2 DEF Change, Decided
<1>4. SessionsSound'
  BY <1>1, <1>3, NewRowSessions DEF ContentInv
<1>5. RubricsContent'
  <2>1. \A r \in Rubrics : Kept(r)' = Kept(r)
    BY <1>1 DEF Kept
  <2> QED
    BY <1>1, <1>3, <2>1, RubricsStep DEF ContentInv
<1>6. ProposalShapes'
  BY <1>1, PayloadsAssumption DEF ContentInv, ProposalShapes
<1>7. DescriptorNeverAccepted'
  BY <1>1 DEF ContentInv, DescriptorNeverAccepted
<1> QED
  BY <1>4, <1>5, <1>6, <1>7 DEF ContentInv

LEMMA ContentNext ==
    ASSUME ExclusiveInv, ContentInv, [Next]_vars
    PROVE  ContentInv'
<1>1. ASSUME NEW d \in Documents, NEW c \in Inputs(d), Create(d, c)
      PROVE  ContentInv'
  BY <1>1, CreateContent
<1>2. ASSUME NEW g \in Suggestions, NEW p \in Proposals, CreateSuggestion(g, p)
      PROVE  ContentInv'
  BY <1>2, CreateSuggestionContent
<1>3. ASSUME NEW s \in Sessions, Begins(s)
      PROVE  ContentInv'
  BY <1>3, BeginContent
<1>4. ASSUME NEW s \in Sessions, FailPublish(s) \/ RefuseApply(s) \/ CommitBind(s)
      PROVE  ContentInv'
  BY <1>4, CloseContent DEF FailPublish, RefuseApply, CommitBind, rows
<1>5. ASSUME NEW s \in Sessions, Commits(s)
      PROVE  ContentInv'
  BY <1>4, <1>5, SaveContent, PublishContent, ApplyContent, RejectContent DEF Commits
<1>6. CASE UNCHANGED vars
  <2>1. \A r \in Rubrics : Kept(r)' = Kept(r)
    BY <1>6 DEF vars, Kept
  <2> QED
    BY <1>6, <2>1 DEF vars, ContentInv, RubricsContent, ProposalShapes,
                      DescriptorNeverAccepted, SessionsSound
<1>7. ASSUME NEW s \in Sessions, Rollback(s)
      PROVE  ContentInv'
  <2>1. tx' = [tx EXCEPT ![s] = RolledBack] /\ UNCHANGED rows /\ overlap' = overlap
    BY <1>7 DEF Rollback
  <2>2. ContentSound(RolledBack, draft, decision, proposal, overlap')
    BY DEF ContentSound, RolledBack, Idle, Writing, Deciding
  <2> QED
    BY <2>1, <2>2, OwnStep
<1> QED
  BY <1>1, <1>2, <1>3, <1>5, <1>6, <1>7 DEF Next

-----------------------------------------------------------------------------
(* Theorems                                                                *)

LEMMA ContentInvariant == Spec => [](ExclusiveInv /\ ContentInv)
<1>1. Init => ExclusiveInv /\ ContentInv
  BY InitInv, ExclusiveInit, ContentInit DEF ExclusiveInv
<1>2. ExclusiveInv /\ ContentInv /\ [Next]_vars => (ExclusiveInv /\ ContentInv)'
  BY ExclusiveNext, ContentNext
<1> QED
  BY <1>1, <1>2, PTL DEF Spec

\* Nothing a rubric contains or ever published came from a suggestion that was not
\* accepted, unless two sessions decided that suggestion at once, or a teacher's
\* own schema names it
\* (rubric_suggestions.py:125, :151-157).
THEOREM ContentIsTraced == Spec => []TracedToDecision
<1>1. ContentInv => TracedToDecision
  BY DEF ContentInv, RubricsContent, TracedToDecision, Traced, Decided
<1> QED
  BY <1>1, ContentInvariant, PTL

\* No interleaving accepts a descriptor suggestion, whatever the rubric
\* (rubric_suggestions.py:295, rubrics.py:103).
THEOREM DescriptorsRefused == Spec => []DescriptorNeverAccepted
<1>1. ContentInv => DescriptorNeverAccepted
  BY DEF ContentInv
<1> QED
  BY <1>1, ContentInvariant, PTL

\* What a rubric took from an accepted suggestion goes only when a teacher saves
\* the draft, or when two sessions held the rubric at once
\* (rubric_suggestions.py:142-152).
THEOREM AcceptedStays == Spec => DraftKeepsAccepted
<1> DEFINE Loses(g) ==
             LET r == proposal[g].target IN
             /\ proposal[g] # None
             /\ r \notin overlap
             /\ Contains(draft[r], g)
             /\ ~Contains(draft'[r], g)
           Saves(g) == \E s \in Sessions :
             tx[s].op = "edit" /\ tx[s].doc = proposal[g].target /\ tx'[s] = Idle
<1>1. ASSUME ExclusiveInv, ContentInv, [Next]_vars, NEW g \in Suggestions, Loses(g)
      PROVE  Saves(g)
  <2> DEFINE r == proposal[g].target
  <2>1. r \in Rubrics /\ r \in Documents /\ status[r] # "absent" /\ r \notin overlap
    BY <1>1 DEF ExclusiveInv, AuthoringInv, ProposalsOK, Documents
  <2>2. draft'[r] # draft[r] /\ Contains(draft[r], g) /\ ~Contains(draft'[r], g)
    BY <1>1
  <2> HIDE DEF r
  <2>3. \E s \in Sessions : CommitEdit(s) \/ CommitAccept(s)
    <3>1. ASSUME NEW d \in Documents, NEW c, Create(d, c)
          PROVE  FALSE
      <4>1. status[d] = "absent" /\ draft' = [draft EXCEPT ![d] = c]
        BY <3>1 DEF Create
      <4> QED
        BY <2>1, <2>2, <4>1
    <3>2. draft' # draft
      BY <2>2
    <3> QED
      BY <1>1, <3>1, <3>2, ZenonT(60)
      DEF Next, vars, rows, CreateSuggestion, Begins, BeginEdit, BeginPublish, BeginReject,
          BeginSupersede, BeginAccept, BeginDecision, BeginBind, Begin, Commits,
          CommitPublish, FailPublish, Apply, RefuseApply, CommitReject, CommitBind, Rollback
  <2>4. PICK s \in Sessions : CommitEdit(s) \/ CommitAccept(s)
    BY <2>3
  <2>5. /\ draft' = [draft EXCEPT ![tx[s].doc] = Written(draft[tx[s].doc], tx[s].old, tx[s].new)]
        /\ tx'[s] = Idle
    BY <1>1, <2>4 DEF CommitEdit, CommitAccept, SaveDraft, Close, ExclusiveInv, AuthoringInv, Columns
  <2>6. tx[s].doc = r
    BY <2>2, <2>5
  <2>7. CASE CommitEdit(s)
    BY <2>5, <2>6, <2>7 DEF CommitEdit, r
  <2>8. CASE CommitAccept(s)
    <3>1. tx[s].op = "apply"
      BY <2>8 DEF CommitAccept
    <3>2. Contains(tx[s].new, g)
      BY <1>1, <2>1, <2>2, <2>6, <3>1 DEF ContentInv, SessionsSound, ContentSound
    <3>3. draft'[r] \in {draft[r], tx[s].new}
      BY <1>1, <2>1, <2>5, <2>6 DEF Written, ExclusiveInv, AuthoringInv, Columns
    <3> QED
      BY <2>2, <3>2, <3>3
  <2> QED
    BY <2>4, <2>7, <2>8
<1>2. ExclusiveInv /\ ContentInv /\ [Next]_vars => \A g \in Suggestions : Loses(g) => Saves(g)
  BY <1>1
<1>3. ExclusiveInv /\ ContentInv /\ [Next]_vars =>
        [\A g \in Suggestions :
            LET r == proposal[g].target IN
            (/\ proposal[g] # None
             /\ r \notin overlap
             /\ Contains(draft[r], g)
             /\ ~Contains(draft'[r], g))
            => \E s \in Sessions : tx[s].op = "edit" /\ tx[s].doc = r /\ tx'[s] = Idle]_vars
  BY <1>2
<1> QED
  BY <1>3, ContentInvariant, PTL DEF Spec, DraftKeepsAccepted
=============================================================================
