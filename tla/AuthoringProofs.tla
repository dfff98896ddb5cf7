--------------------------- MODULE AuthoringProofs ---------------------------
(***************************************************************************)
(* Proofs about Authoring and GradingContext: the rows are well formed,    *)
(* and the published versions refine VersionHistory, for any rubrics,      *)
(* answer keys, suggestions and sessions.                                  *)
(***************************************************************************)
EXTENDS GradingContext, TLAPS

Operations ==
    {"idle", "rolledback", "edit", "publish", "reject", "supersede", "accept", "apply", "bind"}

\* What a session knows, of the rows st (status), lat (latest) and prop
\* (proposal) at time now: it works on rows that exist, what it is about to write
\* is valid, and the number it is about to publish is at most the next one.
Sound(t, st, lat, prop, now) ==
    /\ t.op \in Operations
    /\ t.op \in {"edit", "publish", "apply"} =>
          /\ t.doc \in Documents
          /\ st[t.doc] # "absent"
          /\ ValidContent(t.doc, t.new)
    /\ t.op = "publish" =>
          /\ t.number \in Nat
          /\ 0 < t.number /\ t.number <= now
          /\ t.number <= lat[t.doc] + 1
    /\ t.op \in {"accept", "apply", "reject", "supersede"} =>
          t.sugg \in Suggestions /\ prop[t.sugg] # None
    /\ t.op = "accept" => t.doc \in Rubrics /\ st[t.doc] # "absent"

\* Versions are numbered without a gap, up to latest_version_number.
Numbered(d) ==
    /\ latest[d] \in Nat
    /\ latest[d] <= clock
    /\ \A n \in Numbers : versions[d][n] # None <=> n <= latest[d]

Columns ==
    /\ status \in [Documents -> {"absent", "draft", "published"}]
    /\ DOMAIN draft = Documents
    /\ latest \in [Documents -> Nat]
    /\ DOMAIN versions = Documents
    /\ \A d \in Documents : DOMAIN versions[d] = Numbers
    /\ DOMAIN proposal = Suggestions
    /\ decision \in [Suggestions -> SuggestionStates]
    /\ DOMAIN tx = Sessions
    /\ clock \in 0..MaxTransactions

DraftsOK ==
    \A d \in Documents :
        /\ (draft[d] = None) <=> (status[d] = "absent")
        /\ draft[d] # None => ValidContent(d, draft[d])

VersionsOK ==
    \A d \in Documents :
        /\ Numbered(d)
        /\ \A n \in Numbers : versions[d][n] # None => ValidContent(d, versions[d][n])

ProposalsOK ==
    \A g \in Suggestions :
        /\ (proposal[g] = None) <=> (decision[g] = "absent")
        /\ proposal[g] # None => /\ proposal[g].target \in Rubrics
                                 /\ status[proposal[g].target] # "absent"

SessionsOK == \A s \in Sessions : Sound(tx[s], status, latest, proposal, clock)

AuthoringInv == Columns /\ DraftsOK /\ VersionsOK /\ ProposalsOK /\ SessionsOK

-----------------------------------------------------------------------------
LEMMA InitInv == Init => AuthoringInv
<1> SUFFICES ASSUME Init PROVE AuthoringInv
  OBVIOUS
<1>1. Columns
  BY MaxTransactionsAssumption DEF Init, Columns, SuggestionStates, Numbers
<1>2. DraftsOK /\ ProposalsOK
  BY DEF Init, DraftsOK, ProposalsOK
<1>3. VersionsOK
  BY MaxTransactionsAssumption DEF Init, VersionsOK, Numbered, Numbers
<1>4. SessionsOK
  BY DEF Init, SessionsOK, Sound, Operations, Idle
<1> QED
  BY <1>1, <1>2, <1>3, <1>4 DEF AuthoringInv

-----------------------------------------------------------------------------
(* Sessions: rows are never deleted, numbers and the clock never go back, so *)
(* what a session knows stays true.                                          *)

Grown(st, st2, lat, lat2, prop, prop2, now, now2) ==
    /\ \A d \in Documents : st[d] # "absent" => st2[d] # "absent"
    /\ \A d \in Documents : lat[d] \in Nat /\ lat2[d] \in Nat /\ lat[d] <= lat2[d]
    /\ \A g \in Suggestions : prop[g] # None => prop2[g] # None
    /\ now \in Nat /\ now2 \in Nat /\ now <= now2

GrownStep ==
    Grown(status, status', latest, latest', proposal, proposal', clock, clock')

LEMMA SoundStays ==
    ASSUME NEW t, NEW st, NEW st2, NEW lat, NEW lat2, NEW prop, NEW prop2, NEW now, NEW now2,
           Sound(t, st, lat, prop, now),
           Grown(st, st2, lat, lat2, prop, prop2, now, now2)
    PROVE  Sound(t, st2, lat2, prop2, now2)
<1>1. t.op = "accept" => t.doc \in Documents
  BY DEF Sound, Documents
<1>2. t.op = "publish" => t.doc \in Documents
  BY DEF Sound
<1> QED
  BY <1>1, <1>2 DEF Sound, Grown

LEMMA SessionStep ==
    ASSUME SessionsOK, DOMAIN tx = Sessions, GrownStep, NEW s \in Sessions, NEW t,
           tx' = [tx EXCEPT ![s] = t],
           Sound(t, status', latest', proposal', clock')
    PROVE  SessionsOK' /\ DOMAIN tx' = Sessions
<1>1. ASSUME NEW u \in Sessions
      PROVE  Sound(tx'[u], status', latest', proposal', clock')
  <2>1. CASE u = s
    BY <2>1
  <2>2. CASE u # s
    <3>1. Sound(tx[u], status, latest, proposal, clock)
      BY DEF SessionsOK
    <3>2. Sound(tx[u], status', latest', proposal', clock')
      BY <3>1, SoundStays DEF GrownStep
    <3> QED
      BY <2>2, <3>2
  <2> QED
    BY <2>1, <2>2
<1>2. SessionsOK'
  BY <1>1 DEF SessionsOK
<1> QED
  BY <1>2

LEMMA SessionsKept ==
    ASSUME SessionsOK, DOMAIN tx = Sessions, GrownStep, tx' = tx
    PROVE  SessionsOK' /\ DOMAIN tx' = Sessions
<1>1. ASSUME NEW u \in Sessions
      PROVE  Sound(tx'[u], status', latest', proposal', clock')
  <2>1. Sound(tx[u], status, latest, proposal, clock)
    BY DEF SessionsOK
  <2>2. Sound(tx[u], status', latest', proposal', clock')
    BY <2>1, SoundStays DEF GrownStep
  <2> QED
    BY <2>2
<1>2. SessionsOK'
  BY <1>1 DEF SessionsOK
<1> QED
  BY <1>2

LEMMA IdleSound ==
    ASSUME NEW st, NEW lat, NEW prop, NEW now
    PROVE  Sound(Idle, st, lat, prop, now)
BY DEF Sound, Operations, Idle

\* A step that leaves the rows alone, and a session that ends.
LEMMA NothingGrows ==
    ASSUME AuthoringInv, UNCHANGED rows, clock' \in 0..MaxTransactions, clock <= clock'
    PROVE  GrownStep
BY MaxTransactionsAssumption
DEF AuthoringInv, Columns, rows, GrownStep, Grown

\* A step of session s alone keeps the invariant.
LEMMA SessionAlone ==
    ASSUME AuthoringInv, UNCHANGED rows, clock' \in 0..MaxTransactions, clock <= clock',
           NEW s \in Sessions, NEW t, tx' = [tx EXCEPT ![s] = t],
           Sound(t, status, latest, proposal, clock')
    PROVE  AuthoringInv'
<1>1. GrownStep
  BY NothingGrows
<1>2. /\ status' = status /\ draft' = draft /\ latest' = latest /\ versions' = versions
      /\ proposal' = proposal /\ decision' = decision
  BY DEF rows
<1>3. SessionsOK' /\ DOMAIN tx' = Sessions
  BY <1>1, <1>2, SessionStep DEF AuthoringInv, Columns
<1>4. Columns'
  BY <1>2, <1>3 DEF AuthoringInv, Columns
<1>5. DraftsOK' /\ ProposalsOK'
  BY <1>2 DEF AuthoringInv, DraftsOK, ProposalsOK
<1>6. VersionsOK'
  <2>1. clock \in Int /\ clock' \in Int
    BY MaxTransactionsAssumption DEF AuthoringInv, Columns
  <2> QED
    BY <1>2, <2>1 DEF AuthoringInv, VersionsOK, Numbered
<1> QED
  BY <1>3, <1>4, <1>5, <1>6 DEF AuthoringInv

LEMMA SessionEnds ==
    ASSUME AuthoringInv, UNCHANGED rows, NEW s \in Sessions, Close(s)
    PROVE  AuthoringInv'
<1>1. tx' = [tx EXCEPT ![s] = Idle] /\ clock' = clock
  BY DEF Close
<1>2. clock' \in 0..MaxTransactions /\ clock <= clock'
  BY <1>1, MaxTransactionsAssumption DEF AuthoringInv, Columns
<1>3. Sound(Idle, status, latest, proposal, clock')
  BY IdleSound
<1> QED
  BY <1>1, <1>2, <1>3, SessionAlone

-----------------------------------------------------------------------------
(* Steps that begin a session                                                *)

LEMMA BeginStep ==
    ASSUME AuthoringInv, NEW s \in Sessions, NEW t, Begin(s, t),
           Sound([t EXCEPT !.began = clock + 1], status, latest, proposal, clock + 1)
    PROVE  AuthoringInv'
<1>1. /\ tx' = [tx EXCEPT ![s] = [t EXCEPT !.began = clock + 1]]
      /\ clock < MaxTransactions /\ clock' = clock + 1
      /\ UNCHANGED rows
  BY DEF Begin, Tick
<1>2. clock' \in 0..MaxTransactions /\ clock <= clock'
  BY <1>1, MaxTransactionsAssumption DEF AuthoringInv, Columns
<1> QED
  BY <1>1, <1>2, SessionAlone

LEMMA BeginEditInv ==
    ASSUME AuthoringInv, NEW s \in Sessions, NEW d \in Documents, NEW c, BeginEdit(s, d, c)
    PROVE  AuthoringInv'
<1> DEFINE t == Loaded("edit", d, c)
           T == [t EXCEPT !.began = clock + 1]
<1>1. T.op = "edit" /\ T.doc = d /\ T.new = c
  BY DEF Loaded, Idle
<1>2. status[d] # "absent" /\ ValidContent(d, c) /\ Begin(s, t)
  BY DEF BeginEdit
<1> HIDE DEF t
<1>3. Sound(T, status, latest, proposal, clock + 1)
  <2> HIDE DEF T
  <2> QED
    BY <1>1, <1>2 DEF Sound, Operations
<1> QED
  BY <1>2, <1>3, BeginStep

LEMMA BeginPublishInv ==
    ASSUME AuthoringInv, NEW s \in Sessions, NEW d \in Documents, BeginPublish(s, d)
    PROVE  AuthoringInv'
<1> DEFINE t == Loaded("publish", d, draft[d])
           T == [t EXCEPT !.began = clock + 1]
<1>1. T.op = "publish" /\ T.doc = d /\ T.new = draft[d] /\ T.number = latest[d] + 1
  BY DEF Loaded, Idle
<1>2. status[d] # "absent" /\ ValidContent(d, draft[d]) /\ Begin(s, t)
  BY DEF BeginPublish
<1>3. latest[d] \in Nat /\ latest[d] <= clock /\ clock \in Nat
  BY MaxTransactionsAssumption DEF AuthoringInv, Columns, VersionsOK, Numbered
<1> HIDE DEF t
<1>4. Sound(T, status, latest, proposal, clock + 1)
  <2> HIDE DEF T
  <2> QED
    BY <1>1, <1>2, <1>3 DEF Sound, Operations
<1> QED
  BY <1>2, <1>4, BeginStep

LEMMA BeginDecisionInv ==
    ASSUME AuthoringInv, NEW s \in Sessions, NEW g \in Suggestions, NEW payload,
           NEW op \in {"reject", "supersede", "accept"}, BeginDecision(s, op, g, payload)
    PROVE  AuthoringInv'
<1> DEFINE t == [Idle EXCEPT !.op = op, !.sugg = g, !.doc = proposal[g].target,
                             !.new = payload]
           T == [t EXCEPT !.began = clock + 1]
<1>1. T.op = op /\ T.sugg = g /\ T.doc = proposal[g].target
  BY DEF Idle
<1>2. decision[g] = "draft" /\ Begin(s, t)
  BY DEF BeginDecision
<1>3. /\ proposal[g] # None
      /\ proposal[g].target \in Rubrics
      /\ status[proposal[g].target] # "absent"
  BY <1>2 DEF AuthoringInv, ProposalsOK
<1> HIDE DEF t
<1>4. Sound(T, status, latest, proposal, clock + 1)
  <2> HIDE DEF T
  <2> QED
    BY <1>1, <1>3 DEF Sound, Operations
<1> QED
  BY <1>2, <1>4, BeginStep

LEMMA BeginBindInv ==
    ASSUME AuthoringInv, NEW s \in Sessions, NEW r, NEW n, NEW context,
           BeginBind(s, r, n, context)
    PROVE  AuthoringInv'
<1> DEFINE t == [Idle EXCEPT !.op = "bind", !.doc = r, !.number = n, !.context = context]
           T == [t EXCEPT !.began = clock + 1]
<1>1. T.op = "bind"
  BY DEF Idle
<1>2. Begin(s, t)
  BY DEF BeginBind
<1> HIDE DEF t
<1>3. Sound(T, status, latest, proposal, clock + 1)
  <2> HIDE DEF T
  <2> QED
    BY <1>1 DEF Sound, Operations
<1> QED
  BY <1>2, <1>3, BeginStep

LEMMA BeginsInv ==
    ASSUME AuthoringInv, NEW s \in Sessions, Begins(s)
    PROVE  AuthoringInv'
<1>1. ASSUME NEW d \in Documents, NEW c \in Inputs(d), BeginEdit(s, d, c)
      PROVE  AuthoringInv'
  BY <1>1, BeginEditInv
<1>2. ASSUME NEW d \in Documents, BeginPublish(s, d)
      PROVE  AuthoringInv'
  BY <1>2, BeginPublishInv
<1>3. ASSUME NEW g \in Suggestions, BeginReject(s, g) \/ BeginSupersede(s, g)
      PROVE  AuthoringInv'
  BY <1>3, BeginDecisionInv DEF BeginReject, BeginSupersede
<1>4. ASSUME NEW g \in Suggestions, NEW p \in EditedPayloads \cup {None}, BeginAccept(s, g, p)
      PROVE  AuthoringInv'
  BY <1>4, BeginDecisionInv DEF BeginAccept
<1>5. ASSUME NEW r \in Rubrics, NEW n \in Numbers, NEW c \in Contexts, BeginBind(s, r, n, c)
      PROVE  AuthoringInv'
  BY <1>5, BeginBindInv
<1> QED
  BY <1>1, <1>2, <1>3, <1>4, <1>5 DEF Begins

-----------------------------------------------------------------------------
(* Steps that write rows                                                     *)

\* The rows that have no draft change keep the invariant's parts about them.
LEMMA SaveDraftInv ==
    ASSUME AuthoringInv, NEW s \in Sessions, tx[s].op \in {"edit", "apply"},
           SaveDraft(s), Close(s), UNCHANGED <<latest, versions, proposal>>,
           decision' \in [Suggestions -> SuggestionStates],
           \A g \in Suggestions : decision'[g] = "absent" <=> decision[g] = "absent"
    PROVE  AuthoringInv'
<1> DEFINE d == tx[s].doc
<1>1. /\ d \in Documents /\ status[d] # "absent" /\ ValidContent(d, tx[s].new)
  BY DEF AuthoringInv, SessionsOK, Sound
<1>2. /\ draft' = [draft EXCEPT ![d] = Written(draft[d], tx[s].old, tx[s].new)]
      /\ status' = [status EXCEPT ![d] = Written(status[d], tx[s].was, "draft")]
  BY DEF SaveDraft
<1>3. /\ tx' = [tx EXCEPT ![s] = Idle] /\ clock' = clock
  BY DEF Close
<1> HIDE DEF d
<1>4. /\ \A e \in Documents : e # d => draft'[e] = draft[e] /\ status'[e] = status[e]
      /\ draft'[d] \in {draft[d], tx[s].new}
      /\ status'[d] \in {status[d], "draft"}
      /\ DOMAIN draft' = Documents
  BY <1>1, <1>2 DEF Written, AuthoringInv, Columns
<1>5. GrownStep
  BY <1>1, <1>3, <1>4, MaxTransactionsAssumption
  DEF AuthoringInv, Columns, GrownStep, Grown
<1>6. SessionsOK' /\ DOMAIN tx' = Sessions
  BY <1>3, <1>5, IdleSound, SessionStep DEF AuthoringInv, Columns
<1>7. status' \in [Documents -> {"absent", "draft", "published"}]
  BY <1>1, <1>2 DEF Written, AuthoringInv, Columns
<1>8. Columns'
  BY <1>3, <1>4, <1>6, <1>7 DEF AuthoringInv, Columns
<1>9. DraftsOK'
  <2>1. ASSUME NEW e \in Documents
        PROVE  /\ (draft'[e] = None) <=> (status'[e] = "absent")
               /\ draft'[e] # None => ValidContent(e, draft'[e])
    <3>1. CASE e = d
      <4>1. draft[d] # None /\ ValidContent(d, draft[d]) /\ tx[s].new # None
        BY <1>1 DEF AuthoringInv, DraftsOK, ValidContent
      <4> QED
        BY <3>1, <4>1, <1>1, <1>4
    <3>2. CASE e # d
      BY <3>2, <1>4 DEF AuthoringInv, DraftsOK
    <3> QED
      BY <3>1, <3>2
  <2> QED
    BY <2>1 DEF DraftsOK
<1>10. ProposalsOK'
  <2>1. ASSUME NEW g \in Suggestions, proposal[g] # None
        PROVE  proposal[g].target \in Rubrics /\ status'[proposal[g].target] # "absent"
    <3>1. proposal[g].target \in Rubrics /\ status[proposal[g].target] # "absent"
      BY <2>1 DEF AuthoringInv, ProposalsOK
    <3> QED
      BY <3>1, <1>1, <1>4 DEF Documents
  <2> QED
    BY <2>1 DEF AuthoringInv, ProposalsOK
<1>11. VersionsOK'
  BY <1>3 DEF AuthoringInv, VersionsOK, Numbered
<1> QED
  BY <1>6, <1>8, <1>9, <1>10, <1>11 DEF AuthoringInv

LEMMA CommitEditInv ==
    ASSUME AuthoringInv, NEW s \in Sessions, CommitEdit(s)
    PROVE  AuthoringInv'
<1>1. decision' = decision /\ decision \in [Suggestions -> SuggestionStates]
  BY DEF CommitEdit, AuthoringInv, Columns
<1> QED
  BY <1>1, SaveDraftInv DEF CommitEdit

LEMMA CommitAcceptInv ==
    ASSUME AuthoringInv, NEW s \in Sessions, CommitAccept(s)
    PROVE  AuthoringInv'
<1>1. tx[s].op = "apply"
  BY DEF CommitAccept
<1>2. tx[s].sugg \in Suggestions /\ proposal[tx[s].sugg] # None
  BY <1>1 DEF AuthoringInv, SessionsOK, Sound
<1>3. decision[tx[s].sugg] # "absent"
  BY <1>2 DEF AuthoringInv, ProposalsOK
<1>4. decision' = [decision EXCEPT ![tx[s].sugg] = "accepted"]
  BY DEF CommitAccept, Accept
<1>5. /\ decision' \in [Suggestions -> SuggestionStates]
      /\ \A g \in Suggestions : decision'[g] = "absent" <=> decision[g] = "absent"
  BY <1>2, <1>3, <1>4 DEF AuthoringInv, Columns, SuggestionStates
<1> QED
  BY <1>1, <1>5, SaveDraftInv DEF CommitAccept

LEMMA CommitPublishInv ==
    ASSUME AuthoringInv, NEW s \in Sessions, CommitPublish(s)
    PROVE  AuthoringInv'
<1> DEFINE t == tx[s]
           d == t.doc
           n == t.number
<1>1. /\ t.op = "publish"
      /\ versions[d][n] = None
      /\ versions' = [versions EXCEPT ![d][n] = t.new]
      /\ latest' = [latest EXCEPT ![d] = n]
      /\ status' = [status EXCEPT ![d] = Written(status[d], t.was, "published")]
      /\ UNCHANGED <<draft, proposal, decision>>
      /\ Close(s)
  BY DEF CommitPublish, IsNextVersion
<1>2. /\ d \in Documents /\ status[d] # "absent" /\ ValidContent(d, t.new)
      /\ n \in Nat /\ 0 < n /\ n <= clock /\ n <= latest[d] + 1
  BY <1>1 DEF AuthoringInv, SessionsOK, Sound
<1>3. clock \in Nat /\ clock <= MaxTransactions /\ clock' = clock /\ tx' = [tx EXCEPT ![s] = Idle]
  BY <1>1, MaxTransactionsAssumption DEF Close, AuthoringInv, Columns
<1>4. n \in Numbers
  BY <1>2, <1>3, MaxTransactionsAssumption DEF Numbers
<1>5. latest[d] \in Nat /\ n = latest[d] + 1
  BY <1>1, <1>2, <1>4 DEF AuthoringInv, VersionsOK, Numbered
<1> HIDE DEF t, d, n
<1>6. /\ \A e \in Documents : e # d => /\ versions'[e] = versions[e]
                                       /\ latest'[e] = latest[e]
                                       /\ status'[e] = status[e]
      /\ DOMAIN versions' = Documents
      /\ DOMAIN versions'[d] = Numbers
      /\ \A k \in Numbers : k # n => versions'[d][k] = versions[d][k]
      /\ versions'[d][n] = t.new
      /\ latest'[d] = n
      /\ latest' \in [Documents -> Nat]
      /\ status'[d] \in {status[d], "published"}
      /\ status' \in [Documents -> {"absent", "draft", "published"}]
  BY <1>1, <1>2, <1>4 DEF Written, AuthoringInv, Columns
<1>7. GrownStep
  BY <1>1, <1>2, <1>3, <1>5, <1>6 DEF AuthoringInv, Columns, GrownStep, Grown
<1>8. SessionsOK' /\ DOMAIN tx' = Sessions
  BY <1>3, <1>7, IdleSound, SessionStep DEF AuthoringInv, Columns
<1>9. Columns'
  BY <1>1, <1>3, <1>6, <1>8 DEF AuthoringInv, Columns
<1>10. DraftsOK'
  BY <1>1, <1>2, <1>6 DEF AuthoringInv, DraftsOK
<1>11. ProposalsOK'
  <2>1. ASSUME NEW g \in Suggestions, proposal[g] # None
        PROVE  proposal[g].target \in Rubrics /\ status'[proposal[g].target] # "absent"
    <3>1. proposal[g].target \in Rubrics /\ status[proposal[g].target] # "absent"
      BY <2>1 DEF AuthoringInv, ProposalsOK
    <3> QED
      BY <3>1, <1>2, <1>6 DEF Documents
  <2> QED
    BY <2>1, <1>1 DEF AuthoringInv, ProposalsOK
<1>12. VersionsOK'
  <2>1. ASSUME NEW e \in Documents
        PROVE  /\ Numbered(e)'
               /\ \A k \in Numbers : versions'[e][k] # None => ValidContent(e, versions'[e][k])
    <3>1. CASE e # d
      BY <3>1, <1>3, <1>6 DEF AuthoringInv, VersionsOK, Numbered
    <3>2. CASE e = d
      <4>1. t.new # None
        BY <1>2 DEF ValidContent
      <4>2. \A k \in Numbers : versions[d][k] # None <=> k <= latest[d]
        BY <1>2 DEF AuthoringInv, VersionsOK, Numbered
      <4>3. \A k \in Numbers : versions'[d][k] # None <=> k <= n
        BY <4>1, <4>2, <1>4, <1>5, <1>6, MaxTransactionsAssumption DEF Numbers
      <4>4. Numbered(e)'
        BY <3>2, <4>3, <1>2, <1>3, <1>6 DEF Numbered
      <4>5. \A k \in Numbers : versions'[d][k] # None => ValidContent(d, versions'[d][k])
        BY <1>2, <1>4, <1>6 DEF AuthoringInv, VersionsOK
      <4> QED
        BY <3>2, <4>4, <4>5
    <3> QED
      BY <3>1, <3>2
  <2> QED
    BY <2>1 DEF VersionsOK
<1> QED
  BY <1>8, <1>9, <1>10, <1>11, <1>12 DEF AuthoringInv

LEMMA ApplyInv ==
    ASSUME AuthoringInv, NEW s \in Sessions, Apply(s)
    PROVE  AuthoringInv'
<1> DEFINE L == Loaded("apply", tx[s].doc, AppliedToDraft(s))
           T == [L EXCEPT !.sugg = tx[s].sugg, !.began = tx[s].began]
<1>1. T.op = "apply" /\ T.doc = tx[s].doc /\ T.new = AppliedToDraft(s) /\ T.sugg = tx[s].sugg
  BY DEF Loaded, Idle
<1>2. /\ tx[s].op = "accept" /\ MayApply(s)
      /\ tx' = [tx EXCEPT ![s] = T]
      /\ clock' = clock
      /\ UNCHANGED rows
  BY DEF Apply
<1> HIDE DEF T
<1>3. /\ tx[s].doc \in Documents /\ status[tx[s].doc] # "absent"
      /\ tx[s].sugg \in Suggestions /\ proposal[tx[s].sugg] # None
  BY <1>2 DEF AuthoringInv, SessionsOK, Sound, Documents
<1>4. ValidContent(tx[s].doc, AppliedToDraft(s))
  BY <1>2 DEF MayApply
<1>5. Sound(T, status, latest, proposal, clock')
  BY <1>1, <1>3, <1>4 DEF Sound, Operations
<1>6. clock' \in 0..MaxTransactions /\ clock <= clock'
  BY <1>2, MaxTransactionsAssumption DEF AuthoringInv, Columns
<1> QED
  BY <1>2, <1>5, <1>6, SessionAlone

LEMMA CommitRejectInv ==
    ASSUME AuthoringInv, NEW s \in Sessions, CommitReject(s)
    PROVE  AuthoringInv'
<1>1. /\ tx[s].op \in {"reject", "supersede"}
      /\ \E v \in {"rejected", "superseded"} : decision' = [decision EXCEPT ![tx[s].sugg] = v]
      /\ UNCHANGED <<status, draft, latest, versions, proposal>>
      /\ tx' = [tx EXCEPT ![s] = Idle] /\ clock' = clock
  BY DEF CommitReject, Close
<1>2. tx[s].sugg \in Suggestions /\ proposal[tx[s].sugg] # None
  BY <1>1 DEF AuthoringInv, SessionsOK, Sound
<1>3. decision[tx[s].sugg] # "absent"
  BY <1>2 DEF AuthoringInv, ProposalsOK
<1>4. /\ decision' \in [Suggestions -> SuggestionStates]
      /\ \A g \in Suggestions : decision'[g] = "absent" <=> decision[g] = "absent"
  BY <1>1, <1>2, <1>3 DEF AuthoringInv, Columns, SuggestionStates
<1>5. GrownStep
  BY <1>1, MaxTransactionsAssumption DEF AuthoringInv, Columns, GrownStep, Grown
<1>6. SessionsOK' /\ DOMAIN tx' = Sessions
  BY <1>1, <1>5, IdleSound, SessionStep DEF AuthoringInv, Columns
<1>7. Columns' /\ DraftsOK' /\ ProposalsOK'
  BY <1>1, <1>4, <1>6 DEF AuthoringInv, Columns, DraftsOK, ProposalsOK
<1>8. VersionsOK'
  BY <1>1 DEF AuthoringInv, VersionsOK, Numbered
<1> QED
  BY <1>6, <1>7, <1>8 DEF AuthoringInv

LEMMA CommitBindInv ==
    ASSUME AuthoringInv, NEW s \in Sessions, CommitBind(s)
    PROVE  AuthoringInv'
<1>1. /\ UNCHANGED <<status, draft, latest, versions, proposal, decision>>
      /\ tx' = [tx EXCEPT ![s] = Idle] /\ clock' = clock
  BY DEF CommitBind, Close
<1>2. GrownStep
  BY <1>1, MaxTransactionsAssumption DEF AuthoringInv, Columns, GrownStep, Grown
<1>3. SessionsOK' /\ DOMAIN tx' = Sessions
  BY <1>1, <1>2, IdleSound, SessionStep DEF AuthoringInv, Columns
<1>4. Columns' /\ DraftsOK' /\ ProposalsOK'
  BY <1>1, <1>3 DEF AuthoringInv, Columns, DraftsOK, ProposalsOK
<1>5. VersionsOK'
  BY <1>1 DEF AuthoringInv, VersionsOK, Numbered
<1> QED
  BY <1>3, <1>4, <1>5 DEF AuthoringInv

LEMMA CommitsInv ==
    ASSUME AuthoringInv, NEW s \in Sessions, Commits(s)
    PROVE  AuthoringInv'
<1>1. ASSUME FailPublish(s) PROVE AuthoringInv'
  BY <1>1, SessionEnds DEF FailPublish
<1>2. ASSUME RefuseApply(s) PROVE AuthoringInv'
  BY <1>2, SessionEnds DEF RefuseApply
<1> QED
  BY <1>1, <1>2, CommitEditInv, CommitPublishInv, ApplyInv, CommitAcceptInv,
     CommitRejectInv, CommitBindInv
  DEF Commits

LEMMA CreateInv ==
    ASSUME AuthoringInv, NEW d \in Documents, NEW c, Create(d, c)
    PROVE  AuthoringInv'
<1>1. /\ status[d] = "absent" /\ ValidContent(d, c)
      /\ status' = [status EXCEPT ![d] = "draft"]
      /\ draft' = [draft EXCEPT ![d] = c]
      /\ clock < MaxTransactions /\ clock' = clock + 1
      /\ UNCHANGED <<latest, versions, proposal, decision, tx>>
  BY DEF Create, Tick
<1>2. clock \in Nat /\ clock' \in 0..MaxTransactions
  BY <1>1, MaxTransactionsAssumption DEF AuthoringInv, Columns
<1>3. GrownStep
  BY <1>1, <1>2 DEF AuthoringInv, Columns, GrownStep, Grown
<1>4. SessionsOK' /\ DOMAIN tx' = Sessions
  BY <1>1, <1>3, SessionsKept DEF AuthoringInv, Columns
<1>5. Columns'
  BY <1>1, <1>2, <1>4 DEF AuthoringInv, Columns
<1>6. DraftsOK'
  <2>1. c # None
    BY <1>1 DEF ValidContent
  <2> QED
    BY <2>1, <1>1 DEF AuthoringInv, Columns, DraftsOK
<1>7. ProposalsOK'
  <2>1. ASSUME NEW g \in Suggestions, proposal[g] # None
        PROVE  proposal[g].target \in Rubrics /\ status'[proposal[g].target] # "absent"
    <3>1. proposal[g].target \in Rubrics /\ status[proposal[g].target] # "absent"
      BY <2>1 DEF AuthoringInv, ProposalsOK
    <3> QED
      BY <3>1, <1>1 DEF Documents, AuthoringInv, Columns
  <2> QED
    BY <2>1, <1>1 DEF AuthoringInv, ProposalsOK
<1>8. VersionsOK'
  BY <1>1, <1>2 DEF AuthoringInv, VersionsOK, Numbered
<1> QED
  BY <1>4, <1>5, <1>6, <1>7, <1>8 DEF AuthoringInv

LEMMA CreateSuggestionInv ==
    ASSUME AuthoringInv, NEW g \in Suggestions, NEW p \in Proposals, p # None,
           CreateSuggestion(g, p)
    PROVE  AuthoringInv'
<1>1. /\ decision[g] = "absent" /\ status[p.target] # "absent"
      /\ proposal' = [proposal EXCEPT ![g] = p]
      /\ decision' = [decision EXCEPT ![g] = "draft"]
      /\ clock < MaxTransactions /\ clock' = clock + 1
      /\ UNCHANGED <<status, draft, latest, versions, tx>>
  BY DEF CreateSuggestion, Tick
<1>2. clock \in Nat /\ clock' \in 0..MaxTransactions
  BY <1>1, MaxTransactionsAssumption DEF AuthoringInv, Columns
<1>3. p.target \in Rubrics
  BY ProposalsAssumption
<1>4. GrownStep
  BY <1>1, <1>2 DEF AuthoringInv, Columns, GrownStep, Grown
<1>5. SessionsOK' /\ DOMAIN tx' = Sessions
  BY <1>1, <1>4, SessionsKept DEF AuthoringInv, Columns
<1>6. Columns'
  BY <1>1, <1>2, <1>5 DEF AuthoringInv, Columns, SuggestionStates
<1>7. DraftsOK'
  BY <1>1 DEF AuthoringInv, DraftsOK
<1>8. ProposalsOK'
  BY <1>1, <1>3 DEF AuthoringInv, Columns, ProposalsOK
<1>9. VersionsOK'
  BY <1>1, <1>2 DEF AuthoringInv, VersionsOK, Numbered
<1> QED
  BY <1>5, <1>6, <1>7, <1>8, <1>9 DEF AuthoringInv

LEMMA RollbackInv ==
    ASSUME AuthoringInv, NEW s \in Sessions, Rollback(s)
    PROVE  AuthoringInv'
<1>1. tx' = [tx EXCEPT ![s] = RolledBack] /\ clock' = clock /\ UNCHANGED rows
  BY DEF Rollback
<1>2. Sound(RolledBack, status, latest, proposal, clock')
  BY DEF Sound, RolledBack, Idle, Operations
<1>3. clock' \in 0..MaxTransactions /\ clock <= clock'
  BY <1>1, MaxTransactionsAssumption DEF AuthoringInv, Columns
<1> QED
  BY <1>1, <1>2, <1>3, SessionAlone

LEMMA NextInv ==
    ASSUME AuthoringInv, [Next]_vars
    PROVE  AuthoringInv'
<1>1. ASSUME NEW d \in Documents, NEW c \in Inputs(d), Create(d, c)
      PROVE  AuthoringInv'
  BY <1>1, CreateInv
<1>2. ASSUME NEW g \in Suggestions, NEW p \in Proposals, CreateSuggestion(g, p)
      PROVE  AuthoringInv'
  BY <1>2, CreateSuggestionInv, ProposalsAssumption
<1>3. ASSUME NEW s \in Sessions, Begins(s) \/ Commits(s) \/ Rollback(s)
      PROVE  AuthoringInv'
  BY <1>3, BeginsInv, CommitsInv, RollbackInv
<1>4. ASSUME UNCHANGED vars
      PROVE  AuthoringInv'
  <2>1. Columns' /\ DraftsOK' /\ ProposalsOK' /\ SessionsOK'
    BY <1>4 DEF vars, AuthoringInv, Columns, DraftsOK, ProposalsOK, SessionsOK
  <2>2. VersionsOK'
    BY <1>4 DEF vars, AuthoringInv, VersionsOK, Numbered
  <2> QED
    BY <2>1, <2>2 DEF AuthoringInv
<1> QED
  BY <1>1, <1>2, <1>3, <1>4 DEF Next

-----------------------------------------------------------------------------
(* Theorems                                                                  *)

\* The rows of rubrics, answer keys and suggestions are well formed: a stored
\* draft and every stored version are valid (rubrics.py:55, answer_keys.py:16),
\* however many sessions interleave.
THEOREM AuthoringTypeCorrect == Spec => []TypeOK
<1>1. Init => AuthoringInv
  BY InitInv
<1>2. AuthoringInv /\ [Next]_vars => AuthoringInv'
  BY NextInv
<1>3. AuthoringInv => TypeOK
  <2> SUFFICES ASSUME AuthoringInv PROVE TypeOK
    OBVIOUS
  <2>1. /\ \A d \in Documents : latest[d] \in Nat /\ latest[d] <= clock
        /\ latest \in [Documents -> Nat]
        /\ clock \in 0..MaxTransactions
    BY DEF AuthoringInv, Columns, VersionsOK, Numbered
  <2>2. latest \in [Documents -> 0..MaxTransactions]
    BY <2>1, MaxTransactionsAssumption
  <2> QED
    BY <2>1, <2>2 DEF AuthoringInv, Columns, DraftsOK, VersionsOK, ProposalsOK, TypeOK
<1> QED
  BY <1>1, <1>2, <1>3, PTL DEF Spec

\* A step publishes the next version of one document, or changes no version.
LEMMA HistoryStep ==
    ASSUME AuthoringInv, [Next]_vars
    PROVE  \/ UNCHANGED <<versions, latest>>
           \/ \E s \in Sessions : CommitPublish(s)
<1>1. ASSUME NEW s \in Sessions, Begins(s)
      PROVE  UNCHANGED <<versions, latest>>
  BY <1>1 DEF Begins, BeginEdit, BeginPublish, BeginReject, BeginSupersede, BeginAccept,
     BeginDecision, BeginBind, Begin, rows
<1>2. ASSUME NEW s \in Sessions, Commits(s), ~CommitPublish(s)
      PROVE  UNCHANGED <<versions, latest>>
  BY <1>2 DEF Commits, CommitEdit, FailPublish, Apply, RefuseApply, CommitAccept,
     CommitReject, CommitBind, rows
<1>6. ASSUME NEW s \in Sessions, Rollback(s)
      PROVE  UNCHANGED <<versions, latest>>
  BY <1>6 DEF Rollback, rows
<1>3. ASSUME NEW d \in Documents, NEW c, Create(d, c)
      PROVE  UNCHANGED <<versions, latest>>
  BY <1>3 DEF Create
<1>4. ASSUME NEW g \in Suggestions, NEW p, CreateSuggestion(g, p)
      PROVE  UNCHANGED <<versions, latest>>
  BY <1>4 DEF CreateSuggestion
<1>5. ASSUME UNCHANGED vars
      PROVE  UNCHANGED <<versions, latest>>
  BY <1>5 DEF vars
<1> QED
  BY <1>1, <1>2, <1>3, <1>4, <1>5, <1>6 DEF Next

\* What a publication does: the number is the next one, and nothing else changes.
LEMMA PublicationStep ==
    ASSUME AuthoringInv, NEW s \in Sessions, CommitPublish(s)
    PROVE  \E d \in Documents :
              /\ latest[d] + 1 \in Numbers
              /\ latest' = [latest EXCEPT ![d] = latest[d] + 1]
              /\ ValidContent(d, versions'[d][latest[d] + 1])
              /\ \A k \in Numbers : k <= latest[d] => versions'[d][k] = versions[d][k]
              /\ \A e \in Documents : e # d => versions'[e] = versions[e]
<1> DEFINE t == tx[s]
           d == t.doc
           n == t.number
<1>1. /\ t.op = "publish"
      /\ versions[d][n] = None
      /\ versions' = [versions EXCEPT ![d][n] = t.new]
      /\ latest' = [latest EXCEPT ![d] = n]
  BY DEF CommitPublish, IsNextVersion
<1>2. /\ d \in Documents /\ ValidContent(d, t.new)
      /\ n \in Nat /\ 0 < n /\ n <= clock /\ n <= latest[d] + 1
  BY <1>1 DEF AuthoringInv, SessionsOK, Sound
<1>3. n \in Numbers
  BY <1>2, MaxTransactionsAssumption DEF Numbers, AuthoringInv, Columns
<1>4. latest[d] \in Nat /\ n = latest[d] + 1
  BY <1>1, <1>2, <1>3 DEF AuthoringInv, VersionsOK, Numbered
<1> HIDE DEF t, d, n
<1>5. /\ \A e \in Documents : e # d => versions'[e] = versions[e]
      /\ \A k \in Numbers : k # n => versions'[d][k] = versions[d][k]
      /\ versions'[d][n] = t.new
  BY <1>1, <1>2, <1>3 DEF AuthoringInv, Columns
<1>6. \A k \in Numbers : k <= latest[d] => versions'[d][k] = versions[d][k]
  BY <1>4, <1>5 DEF Numbers
<1> QED
  BY <1>1, <1>2, <1>3, <1>4, <1>5, <1>6

\* The length of a sequence that is given by its elements.
LEMMA LengthOf ==
    ASSUME NEW k \in Nat, NEW f, DOMAIN f = 1..k, f = [i \in 1..k |-> f[i]]
    PROVE  Len(f) = k
<1> DEFINE S == {f[i] : i \in 1..k}
<1>1. f \in [1..k -> S]
  OBVIOUS
<1>2. f \in Seq(S)
  BY <1>1
<1> QED
  BY <1>2

LEMMA HistoryOf ==
    ASSUME NEW lat, NEW vers, NEW hist, NEW d \in Documents, lat[d] \in Nat,
           hist = [e \in Documents |-> [n \in 1..lat[e] |-> vers[e][n]]]
    PROVE  /\ DOMAIN hist[d] = 1..lat[d]
           /\ \A n \in 1..lat[d] : hist[d][n] = vers[d][n]
           /\ Len(hist[d]) = lat[d]
<1>1. hist[d] = [n \in 1..lat[d] |-> vers[d][n]]
  OBVIOUS
<1>2. Len(hist[d]) = lat[d]
  BY <1>1, LengthOf
<1> QED
  BY <1>1, <1>2

\* However sessions interleave, the versions of a document form one append-only
\* history without a gap (rubrics.py:176-193, answer_keys.py:75-91).
THEOREM PublicationRefines == Spec => ImplementsVersionHistory
<1>1. Init => Published!Init
  BY DEF Init, Published!Init, History
<1>2. AuthoringInv /\ AuthoringInv' /\ [Next]_vars => [Published!Next]_History
  <2> SUFFICES ASSUME AuthoringInv, AuthoringInv', [Next]_vars
               PROVE  [Published!Next]_History
    OBVIOUS
  <2>1. CASE UNCHANGED <<versions, latest>>
    BY <2>1 DEF History
  <2>2. ASSUME NEW s \in Sessions, CommitPublish(s)
        PROVE  Published!Next
    <3>1. PICK d \in Documents :
              /\ latest[d] + 1 \in Numbers
              /\ latest' = [latest EXCEPT ![d] = latest[d] + 1]
              /\ ValidContent(d, versions'[d][latest[d] + 1])
              /\ \A k \in Numbers : k <= latest[d] => versions'[d][k] = versions[d][k]
              /\ \A e \in Documents : e # d => versions'[e] = versions[e]
      BY <2>2, PublicationStep
    <3>2. \A e \in Documents : latest[e] \in Nat /\ latest'[e] \in Nat
      BY DEF AuthoringInv, Columns
    <3>3. \A e \in Documents :
              /\ DOMAIN History[e] = 1..latest[e]
              /\ \A n \in 1..latest[e] : History[e][n] = versions[e][n]
              /\ Len(History[e]) = latest[e]
      BY <3>2, HistoryOf DEF History
    <3>9. \A e \in Documents :
              /\ DOMAIN History'[e] = 1..latest'[e]
              /\ \A n \in 1..latest'[e] : History'[e][n] = versions'[e][n]
              /\ Len(History'[e]) = latest'[e]
      BY <3>2, HistoryOf DEF History
    <3>4. latest \in [Documents -> Nat]
      BY DEF AuthoringInv, Columns
    <3>5. /\ Len(History'[d]) = Len(History[d]) + 1
          /\ \A n \in 1..Len(History[d]) : History'[d][n] = History[d][n]
      BY <3>1, <3>2, <3>3, <3>9, <3>4, MaxTransactionsAssumption DEF Numbers
    <3>10. /\ Len(History[d]) + 1 = latest[d] + 1
           /\ latest'[d] = latest[d] + 1
      BY <3>1, <3>3, <3>4
    <3>11. latest[d] + 1 \in 1..latest'[d]
      BY <3>2, <3>10
    <3>12. History'[d][Len(History[d]) + 1] = versions'[d][latest[d] + 1]
      BY <3>9, <3>10, <3>11
    <3>6. ValidContent(d, History'[d][Len(History[d]) + 1])
      BY <3>1, <3>12, Zenon
    <3>7. \A e \in Documents \ {d} : History'[e] = History[e]
      BY <3>1, <3>4 DEF History
    <3>8. Published!Publish(d)
      BY <3>5, <3>6, <3>7 DEF Published!Publish, Published!Extends
    <3> QED
      BY <3>8 DEF Published!Next
  <2> QED
    BY <2>1, <2>2, HistoryStep
<1>3. Init => AuthoringInv
  BY InitInv
<1>4. AuthoringInv /\ [Next]_vars => AuthoringInv'
  BY NextInv
<1> QED
  BY <1>1, <1>2, <1>3, <1>4, PTL DEF Spec, ImplementsVersionHistory, Published!Spec
=============================================================================
