----------------------- MODULE AnswerLifecycleProofs -----------------------
(***************************************************************************)
(* Theorems about AnswerLifecycle for every set of packages, contexts and  *)
(* sessions.  The first part holds however the sessions interleave, the    *)
(* second when operations run one after the other (one session).           *)
(***************************************************************************)
EXTENDS AnswerLifecycle, TLAPS

\* What Begin does, whatever the operation: one session leaves idle with two
\* loaded rows that exist, and no row changes.
LEMMA BeginLoads ==
    ASSUME TypeOK, NEW s \in Sessions, Begin(s)
    PROVE  \E op \in Ops, p \in Packages, other, link \in Packages \cup {Null} :
             /\ Load(s, op, p, other, link)
             /\ Exists(p)
             /\ other # Null => Exists(other)
             /\ link = Null \/ link = supersedes[p]
             /\ op \in {"evidence", "submit"} => status[p] = "draft"
             /\ op = "submit" => link = supersedes[p]
             /\ op \in {"evidence", "revise", "withdraw", "archive"} => other = Null
             /\ op = "supersede" => /\ other # Null
                                    /\ status[p] = "submitted"
                                    /\ MaySupersede(other, status[other], p)
<1>1. CASE \E p \in Packages : BeginEvidence(s, p)
  BY <1>1 DEF BeginEvidence, Ops, Exists
<1>2. CASE \E p \in Packages, explicit \in Packages \cup {Null} : BeginSubmit(s, p, explicit)
  BY <1>2 DEF BeginSubmit, Ops, Exists, TypeOK
<1>3. CASE \E p \in Packages : BeginRevise(s, p)
  BY <1>3 DEF BeginRevise, Ops, Exists
<1>4. CASE \E previous, replacement \in Packages : BeginSupersede(s, previous, replacement)
  BY <1>4, NullAssumption DEF BeginSupersede, MaySupersede, Ops, Exists, TypeOK
<1>5. CASE \E p \in Packages : BeginWithdraw(s, p)
  BY <1>5 DEF BeginWithdraw, Ops, Exists
<1>6. CASE \E p \in Packages : BeginArchive(s, p)
  BY <1>6 DEF BeginArchive, Ops, Exists
<1>7. QED
  BY <1>1, <1>2, <1>3, <1>4, <1>5, <1>6 DEF Begin

-----------------------------------------------------------------------------
(* Types                                                                   *)

LEMMA TypeInit == Init => TypeOK
BY MaxEvidenceAssumption DEF Init, TypeOK, Idle, Transactions

LEMMA IdleIsTransaction == Idle \in Transactions /\ Idle.step = "idle"
BY MaxEvidenceAssumption DEF Idle, Transactions

\* A session that is done is idle again, and the others are as they were.
LEMMA DoneIsIdle ==
    ASSUME TypeOK, NEW s \in Sessions, Done(s)
    PROVE  /\ tx' \in [Sessions -> Transactions]
           /\ tx'[s].step = "idle"
           /\ \A r \in Sessions \ {s} : tx'[r] = tx[r]
           /\ \A r \in Sessions : tx'[r].step # "idle" => tx'[r].pkg \in Packages
BY IdleIsTransaction DEF Done, TypeOK

LEMMA TypeStep == TypeOK /\ [Next]_vars => TypeOK'
<1> SUFFICES ASSUME TypeOK, [Next]_vars PROVE TypeOK'
  OBVIOUS
<1>1. ASSUME NEW p \in Packages, NEW c \in Contexts, CreateDraft(p, c) PROVE TypeOK'
  BY <1>1 DEF TypeOK, CreateDraft, Statuses
<1>2. ASSUME NEW s \in Sessions, Begin(s) PROVE TypeOK'
  <2>1. PICK op \in Ops, p \in Packages, other, link \in Packages \cup {Null} :
          Load(s, op, p, other, link)
    BY <1>2, BeginLoads
  <2>2. tx' \in [Sessions -> Transactions] /\ tx'[s].pkg = p
        /\ \A r \in Sessions \ {s} : tx'[r] = tx[r]
    BY <2>1, MaxEvidenceAssumption DEF Load, TypeOK, Transactions
  <2>3. UNCHANGED rows
    BY <2>1 DEF Load
  <2>4. QED
    BY <2>2, <2>3 DEF rows, TypeOK
<1>3. ASSUME NEW s \in Sessions, CheckSubmit(s) PROVE TypeOK'
  <2>1. tx[s] \in Transactions /\ tx[s].step = "loaded" /\ tx[s].pkg \in Packages
    BY <1>3 DEF CheckSubmit, Pending, TypeOK
  <2>2. PreviousPackage(tx[s]) \in Packages \cup {Null} /\ evidence[tx[s].pkg] \in 0 .. MaxEvidence
    BY <2>1 DEF PreviousPackage, Transactions, TypeOK
  <2>3. tx'[s] \in Transactions /\ tx'[s].pkg = tx[s].pkg
    BY <1>3, <2>1, <2>2 DEF CheckSubmit, TypeOK, Transactions
  <2>4. tx' \in [Sessions -> Transactions] /\ \A r \in Sessions \ {s} : tx'[r] = tx[r]
    BY <1>3, <2>3 DEF CheckSubmit, TypeOK
  <2>5. QED
    BY <1>3, <2>1, <2>3, <2>4 DEF CheckSubmit, rows, TypeOK
<1>4. ASSUME NEW s \in Sessions, Commit(s) PROVE TypeOK'
  <2> USE <1>4
  <2>1. CASE CommitEvidence(s)
    <3>1. evidence' \in [Packages -> 0 .. MaxEvidence]
      BY <2>1, MaxEvidenceAssumption DEF CommitEvidence, Pending, TypeOK
    <3>2. QED
      BY <2>1, <3>1, DoneIsIdle DEF CommitEvidence, TypeOK
  <2>2. CASE CommitSubmit(s)
    <3>1. tx[s].count \in 0 .. MaxEvidence /\ tx[s].other \in Packages \cup {Null}
      BY DEF TypeOK, Transactions
    <3>2. tx[s].pkg \in Packages
      BY <2>2 DEF CommitSubmit, Pending, TypeOK
    <3>3. QED
      BY <2>2, <3>1, <3>2, DoneIsIdle
      DEF CommitSubmit, LinkSupersession, TypeOK, Statuses
  <2>3. CASE \E revision \in Packages : CommitRevise(s, revision)
    <3>1. tx[s].pkg \in Packages
      BY <2>3 DEF CommitRevise, Pending, TypeOK
    <3>2. QED
      BY <2>3, <3>1, DoneIsIdle DEF CommitRevise, TypeOK, Statuses
  <2>4. CASE CommitSupersede(s)
    <3>1. tx[s].pkg \in Packages /\ tx[s].other \in Packages \cup {Null}
      BY <2>4 DEF CommitSupersede, Pending, TypeOK, Transactions
    <3>2. QED
      BY <2>4, <3>1, DoneIsIdle DEF CommitSupersede, LinkSupersession, TypeOK, Statuses
  <2>5. CASE CommitWithdraw(s)
    BY <2>5, DoneIsIdle DEF CommitWithdraw, TypeOK, Statuses
  <2>6. CASE CommitArchive(s)
    BY <2>6, DoneIsIdle DEF CommitArchive, TypeOK, Statuses
  <2>7. QED
    BY <2>1, <2>2, <2>3, <2>4, <2>5, <2>6 DEF Commit
<1>5. ASSUME NEW s \in Sessions, Rollback(s) PROVE TypeOK'
  BY <1>5, DoneIsIdle DEF Rollback, Done, rows, TypeOK
<1>6. CASE UNCHANGED vars
  BY <1>6 DEF vars, TypeOK
<1>7. QED
  BY <1>1, <1>2, <1>3, <1>4, <1>5, <1>6 DEF Next

\* Every row and every open session is well formed in every reachable state.
THEOREM TypeCorrect == Spec => []TypeOK
<1>1. QED
  BY TypeInit, TypeStep, PTL DEF Spec

-----------------------------------------------------------------------------
(* Safety under any interleaving                                           *)

\* What no step undoes: a row stays, keeps its context and its evidence, and
\* does not become a draft again.
Grows ==
    \A p \in Packages : Exists(p) =>
        /\ Exists(p)'
        /\ context'[p] = context[p]
        /\ evidence[p] > 0 => evidence'[p] > 0
        /\ status[p] # "draft" => status'[p] # "draft"

\* What a session knows survives the commits of the other sessions.
LEMMA KnowledgeSurvives ==
    ASSUME TypeOK, Grows, NEW t \in Transactions, t.pkg \in Packages, SessionKnows(t)
    PROVE  SessionKnows(t)'
<1>1. t.other = Null \/ t.other \in Packages
  BY DEF Transactions
<1>2. QED
  BY <1>1, NullAssumption DEF SessionKnows, Grows, Exists

\* A step of session s that makes the rows grow preserves what the sessions
\* know, if s ends idle or knows what it should.
LEMMA SessionsKeepKnowing ==
    ASSUME TypeOK, SessionsKnow, Grows, NEW s \in Sessions,
           \A r \in Sessions \ {s} : tx'[r] = tx[r],
           tx'[s].step # "idle" => SessionKnows(tx[s])'
    PROVE  SessionsKnow'
<1> SUFFICES ASSUME NEW r \in Sessions, tx'[r].step # "idle" PROVE SessionKnows(tx[r])'
  BY DEF SessionsKnow
<1>1. CASE r = s
  BY <1>1
<1>2. CASE r # s
  <2>1. tx'[r] = tx[r] /\ tx[r] \in Transactions /\ tx[r].pkg \in Packages
    BY <1>2 DEF TypeOK
  <2>2. \A t : t = tx[r] => SessionKnows(t)'
    BY <2>1, KnowledgeSurvives DEF SessionsKnow
  <2>3. QED
    BY <2>1, <2>2 DEF SessionKnows, Exists
<1>3. QED
  BY <1>1, <1>2

LEMMA LifecycleInit == Init => LifecycleInv
<1> SUFFICES ASSUME Init PROVE LifecycleInv
  OBVIOUS
<1>1. TypeOK
  BY TypeInit
<1>2. QED
  BY <1>1 DEF Init, LifecycleInv, SupersededIffLinked, LinksStayInContext,
              GradableHasEvidence, LinkedRowsExist, SessionsKnow, Idle

\* The parts of the invariant that speak of the rows alone.
RowsInv == SupersededIffLinked /\ LinksStayInContext /\ GradableHasEvidence /\ LinkedRowsExist

LEMMA RowsUntouched == RowsInv /\ UNCHANGED rows => RowsInv' /\ Grows
BY DEF rows, RowsInv, SupersededIffLinked, LinksStayInContext, GradableHasEvidence,
       LinkedRowsExist, Grows, Exists

LEMMA CreateKeepsInv ==
    ASSUME LifecycleInv, NEW p \in Packages, NEW c \in Contexts, CreateDraft(p, c)
    PROVE  RowsInv' /\ Grows
<1> USE DEF CreateDraft, LifecycleInv, TypeOK
<1>1. SupersededIffLinked' /\ GradableHasEvidence' /\ Grows
  BY DEF SupersededIffLinked, GradableHasEvidence, Grows, Exists
<1>2. LinksStayInContext'
  BY DEF SupersededIffLinked, LinksStayInContext, LinkedRowsExist, Exists
<1>3. LinkedRowsExist'
  BY DEF LinkedRowsExist, Exists
<1>4. QED
  BY <1>1, <1>2, <1>3 DEF RowsInv

LEMMA EvidenceKeepsInv ==
    ASSUME LifecycleInv, NEW s \in Sessions, CommitEvidence(s)
    PROVE  RowsInv' /\ Grows
<1>1. tx[s].pkg \in Packages
  BY DEF CommitEvidence, Pending, LifecycleInv, TypeOK
<1>2. evidence' = [evidence EXCEPT ![tx[s].pkg] = @ + 1]
  BY DEF CommitEvidence
<1>3. \A p \in Packages : evidence[p] > 0 => evidence'[p] > 0
  BY <1>1, <1>2, MaxEvidenceAssumption DEF LifecycleInv, TypeOK
<1>4. QED
  BY <1>3 DEF CommitEvidence, RowsInv, LifecycleInv, SupersededIffLinked,
              LinksStayInContext, GradableHasEvidence, LinkedRowsExist, Grows, Exists

\* A session whose submit was checked, or that supersedes by itself.
LEMMA CheckedFacts ==
    ASSUME LifecycleInv, NEW s \in Sessions, tx[s].step # "idle",
           tx[s].step = "checked" \/ tx[s].op = "supersede"
    PROVE  /\ tx[s].pkg \in Packages /\ Exists(tx[s].pkg)
           /\ tx[s].step = "checked" => evidence[tx[s].pkg] > 0
           /\ tx[s].op = "supersede" => tx[s].other # Null /\ status[tx[s].pkg] # "draft"
           /\ tx[s].other # Null => /\ tx[s].other \in Packages
                                    /\ tx[s].other # tx[s].pkg
                                    /\ context[tx[s].other] = context[tx[s].pkg]
                                    /\ evidence[tx[s].other] > 0
                                    /\ Exists(tx[s].other)
BY DEF LifecycleInv, TypeOK, Transactions, SessionsKnow, SessionKnows

LEMMA SubmitKeepsInv ==
    ASSUME LifecycleInv, NEW s \in Sessions, CommitSubmit(s)
    PROVE  RowsInv' /\ Grows
<1> DEFINE p == tx[s].pkg
           previous == tx[s].other
<1>0. tx[s].step = "checked" /\ supersededBy[p] = Null
  BY DEF CommitSubmit, Pending, MayHoldOtherStatus
<1>1. /\ p \in Packages /\ Exists(p) /\ evidence[p] > 0
      /\ previous # Null => /\ previous \in Packages /\ previous # p /\ Exists(previous)
                            /\ context[previous] = context[p] /\ evidence[previous] > 0
  BY <1>0, CheckedFacts
<1> HIDE DEF p, previous
<1> USE DEF LifecycleInv, TypeOK
<1>2. CASE previous = Null
  <2>1. /\ status' = [status EXCEPT ![p] = "submitted"]
        /\ UNCHANGED <<supersedes, supersededBy, context, evidence>>
    BY <1>2 DEF CommitSubmit, p, previous
  <2>2. SupersededIffLinked' /\ LinksStayInContext' /\ GradableHasEvidence'
    BY <1>0, <1>1, <2>1 DEF SupersededIffLinked, LinksStayInContext, GradableHasEvidence
  <2>3. LinkedRowsExist' /\ Grows
    BY <1>1, <2>1 DEF LinkedRowsExist, Grows, Exists
  <2>4. QED
    BY <2>2, <2>3 DEF RowsInv
<1>3. CASE previous # Null
  <2>1. /\ status' = [status EXCEPT ![p] = "submitted", ![previous] = "superseded"]
        /\ supersededBy' = [supersededBy EXCEPT ![previous] = p]
        /\ UNCHANGED <<context, evidence>>
    BY <1>3 DEF CommitSubmit, LinkSupersession, p, previous
  <2>2. supersedes' = supersedes \/ supersedes' = [supersedes EXCEPT ![p] = previous]
    BY <1>3 DEF CommitSubmit, LinkSupersession, p, previous
  <2>3. SupersededIffLinked' /\ GradableHasEvidence'
    BY <1>0, <1>1, <1>3, <2>1, NullAssumption DEF SupersededIffLinked, GradableHasEvidence
  <2>4. LinksStayInContext'
    BY <1>1, <1>3, <2>1, <2>2 DEF LinksStayInContext
  <2>5. LinkedRowsExist' /\ Grows
    BY <1>1, <1>3, <2>1, <2>2 DEF LinkedRowsExist, Grows, Exists
  <2>6. QED
    BY <2>3, <2>4, <2>5 DEF RowsInv
<1>4. QED
  BY <1>2, <1>3

LEMMA SupersedeKeepsInv ==
    ASSUME LifecycleInv, NEW s \in Sessions, CommitSupersede(s)
    PROVE  RowsInv' /\ Grows
<1> DEFINE p == tx[s].pkg
           previous == tx[s].other
<1>1. /\ p \in Packages /\ Exists(p) /\ status[p] # "draft"
      /\ previous \in Packages /\ previous # p /\ Exists(previous)
      /\ context[previous] = context[p] /\ evidence[previous] > 0
  BY CheckedFacts DEF CommitSupersede, Pending
<1>2. /\ status' = [status EXCEPT ![previous] = "superseded"]
      /\ supersededBy' = [supersededBy EXCEPT ![previous] = p]
      /\ supersedes' = supersedes \/ supersedes' = [supersedes EXCEPT ![p] = previous]
      /\ UNCHANGED <<context, evidence>>
  BY DEF CommitSupersede, LinkSupersession
<1> HIDE DEF p, previous
<1> USE DEF LifecycleInv, TypeOK
<1>3. SupersededIffLinked' /\ GradableHasEvidence'
  BY <1>1, <1>2, NullAssumption DEF SupersededIffLinked, GradableHasEvidence
<1>4. LinksStayInContext'
  BY <1>1, <1>2 DEF LinksStayInContext
<1>5. LinkedRowsExist' /\ Grows
  BY <1>1, <1>2 DEF LinkedRowsExist, Grows, Exists
<1>6. QED
  BY <1>3, <1>4, <1>5 DEF RowsInv

LEMMA ReviseKeepsInv ==
    ASSUME LifecycleInv, NEW s \in Sessions, NEW revision \in Packages,
           CommitRevise(s, revision)
    PROVE  RowsInv' /\ Grows
<1> DEFINE p == tx[s].pkg
<1>1. p \in Packages /\ Exists(p)
  BY DEF CommitRevise, Pending, LifecycleInv, TypeOK, SessionsKnow, SessionKnows
<1>2. /\ status[revision] = "absent"
      /\ status' = [status EXCEPT ![revision] = "draft"]
      /\ context' = [context EXCEPT ![revision] = context[p]]
      /\ supersedes' = [supersedes EXCEPT ![revision] = p]
      /\ UNCHANGED <<supersededBy, evidence>>
  BY DEF CommitRevise
<1> HIDE DEF p
<1> USE DEF LifecycleInv, TypeOK
<1>3. SupersededIffLinked' /\ GradableHasEvidence' /\ Grows
  BY <1>1, <1>2 DEF SupersededIffLinked, GradableHasEvidence, Grows, Exists
<1>4. LinksStayInContext'
  BY <1>1, <1>2 DEF LinksStayInContext, LinkedRowsExist, SupersededIffLinked, Exists
<1>5. LinkedRowsExist'
  BY <1>1, <1>2 DEF LinkedRowsExist, Exists
<1>6. QED
  BY <1>3, <1>4, <1>5 DEF RowsInv

\* withdraw_submission and archive_submission change one status.
LEMMA CloseKeepsInv ==
    ASSUME LifecycleInv, NEW s \in Sessions, CommitWithdraw(s) \/ CommitArchive(s)
    PROVE  RowsInv' /\ Grows
<1> DEFINE p == tx[s].pkg
<1>1. p \in Packages /\ Exists(p) /\ supersededBy[p] = Null
  BY DEF CommitWithdraw, CommitArchive, Pending, MayHoldOtherStatus,
         LifecycleInv, TypeOK, SessionsKnow, SessionKnows
<1>2. PICK final \in {"withdrawn", "archived"} : status' = [status EXCEPT ![p] = final]
  BY DEF CommitWithdraw, CommitArchive
<1>3. UNCHANGED <<context, supersedes, supersededBy, evidence>>
  BY DEF CommitWithdraw, CommitArchive
<1> HIDE DEF p
<1> USE DEF LifecycleInv, TypeOK
<1>4. SupersededIffLinked' /\ GradableHasEvidence' /\ Grows
  BY <1>1, <1>2, <1>3 DEF SupersededIffLinked, GradableHasEvidence, Grows, Exists
<1>5. LinksStayInContext' /\ LinkedRowsExist'
  BY <1>1, <1>2, <1>3 DEF LinksStayInContext, LinkedRowsExist, Exists
<1>6. QED
  BY <1>4, <1>5 DEF RowsInv

\* A commit ends its session.
LEMMA CommitIsDone == ASSUME NEW s \in Sessions, Commit(s) PROVE Done(s)
BY DEF Commit, CommitEvidence, CommitSubmit, CommitRevise, CommitSupersede,
       CommitWithdraw, CommitArchive

LEMMA CommitKeepsInv ==
    ASSUME LifecycleInv, NEW s \in Sessions, Commit(s)
    PROVE  RowsInv' /\ Grows /\ SessionsKnow'
<1>1. RowsInv' /\ Grows
  BY EvidenceKeepsInv, SubmitKeepsInv, ReviseKeepsInv, SupersedeKeepsInv, CloseKeepsInv
  DEF Commit
<1>2. tx'[s].step = "idle" /\ \A r \in Sessions \ {s} : tx'[r] = tx[r]
  BY CommitIsDone, DoneIsIdle DEF LifecycleInv
<1>3. QED
  BY <1>1, <1>2, SessionsKeepKnowing DEF LifecycleInv

LEMMA BeginKnows ==
    ASSUME LifecycleInv, NEW s \in Sessions, Begin(s)
    PROVE  SessionsKnow'
<1>1. PICK op \in Ops, p \in Packages, other, link \in Packages \cup {Null} :
        /\ Load(s, op, p, other, link)
        /\ Exists(p)
        /\ other # Null => Exists(other)
        /\ op = "supersede" => /\ other # Null
                               /\ status[p] = "submitted"
                               /\ MaySupersede(other, status[other], p)
  BY BeginLoads DEF LifecycleInv
<1>2. UNCHANGED rows /\ \A r \in Sessions \ {s} : tx'[r] = tx[r]
  BY <1>1 DEF Load, LifecycleInv, TypeOK
<1>3. tx'[s] = [step |-> "loaded", op |-> op, pkg |-> p, other |-> other,
                otherStatus |-> IF other = Null THEN "absent" ELSE status[other],
                link |-> link, count |-> 0]
  BY <1>1 DEF Load, LifecycleInv, TypeOK
<1>4. other # Null /\ status[other] = "submitted" => evidence[other] > 0
  BY <1>1 DEF LifecycleInv, GradableHasEvidence
<1>5. SessionKnows(tx[s])'
  BY <1>1, <1>2, <1>3, <1>4 DEF SessionKnows, Exists, MaySupersede, rows
<1>6. QED
  BY <1>2, <1>5, RowsUntouched, SessionsKeepKnowing DEF LifecycleInv, RowsInv

LEMMA CheckKnows ==
    ASSUME LifecycleInv, NEW s \in Sessions, CheckSubmit(s)
    PROVE  SessionsKnow'
<1> DEFINE t == tx[s]
           previous == PreviousPackage(t)
<1>1. t \in Transactions /\ t.step = "loaded" /\ t.op = "submit" /\ t.pkg \in Packages
  BY DEF CheckSubmit, Pending, LifecycleInv, TypeOK
<1>2. SessionKnows(t)
  BY <1>1 DEF LifecycleInv, SessionsKnow
<1>3. /\ tx' = [tx EXCEPT ![s] = [t EXCEPT !.step = "checked", !.other = previous,
                                           !.count = evidence[t.pkg]]]
      /\ UNCHANGED rows
      /\ evidence[t.pkg] > 0
      /\ previous # Null => MaySupersede(previous, PreviousStatus(t), t.pkg)
  BY DEF CheckSubmit
<1>4. \A r \in Sessions \ {s} : tx'[r] = tx[r]
  BY <1>3 DEF LifecycleInv, TypeOK
<1>5. /\ tx'[s].step = "checked" /\ tx'[s].op = "submit" /\ tx'[s].pkg = t.pkg
      /\ tx'[s].other = previous /\ tx'[s].otherStatus = t.otherStatus
  BY <1>1, <1>3 DEF Transactions, LifecycleInv, TypeOK
<1>6. previous # Null => /\ previous \in Packages /\ previous # t.pkg
                         /\ context[previous] = context[t.pkg]
                         /\ Exists(previous) /\ evidence[previous] > 0
  <2> SUFFICES ASSUME previous # Null
               PROVE  /\ previous \in Packages /\ previous # t.pkg
                      /\ context[previous] = context[t.pkg]
                      /\ Exists(previous) /\ evidence[previous] > 0
    OBVIOUS
  <2>1. previous \in Packages
    BY <1>1 DEF PreviousPackage, Transactions
  <2>2. PreviousStatus(t) = "submitted" /\ previous # t.pkg
        /\ context[previous] = context[t.pkg]
    BY <1>3 DEF MaySupersede
  <2>3. CASE t.other # Null
    BY <1>2, <2>1, <2>2, <2>3 DEF PreviousPackage, PreviousStatus, SessionKnows
  <2>4. CASE t.other = Null
    BY <2>1, <2>2, <2>4
    DEF PreviousPackage, PreviousStatus, Exists, LifecycleInv, GradableHasEvidence
  <2>5. QED
    BY <2>3, <2>4
<1>7. t.otherStatus = "submitted" => t.other # Null
  BY <1>2, NullAssumption DEF SessionKnows
<1> HIDE DEF t, previous
<1>8. previous = Null => t.other = Null
  BY DEF previous, PreviousPackage, t
<1>9. t.otherStatus = "submitted" => previous \in Packages /\ evidence[previous] > 0
  BY <1>6, <1>7, <1>8
<1>10. SessionKnows(tx[s])'
  BY <1>2, <1>3, <1>5, <1>6, <1>9 DEF SessionKnows, Exists, rows, Ops
<1>11. QED
  BY <1>3, <1>4, <1>10, RowsUntouched, SessionsKeepKnowing DEF LifecycleInv, RowsInv

LEMMA RollbackKnows ==
    ASSUME LifecycleInv, NEW s \in Sessions, Rollback(s)
    PROVE  SessionsKnow'
<1>1. UNCHANGED rows /\ tx'[s].step = "idle" /\ \A r \in Sessions \ {s} : tx'[r] = tx[r]
  BY DoneIsIdle DEF Rollback, Done, LifecycleInv
<1>2. QED
  BY <1>1, RowsUntouched, SessionsKeepKnowing DEF LifecycleInv, RowsInv

LEMMA LifecycleStep == LifecycleInv /\ [Next]_vars => LifecycleInv'
<1> SUFFICES ASSUME LifecycleInv, [Next]_vars PROVE LifecycleInv'
  OBVIOUS
<1>1. TypeOK'
  BY TypeStep DEF LifecycleInv
<1>2. RowsInv
  BY DEF LifecycleInv, RowsInv
<1>3. ASSUME NEW p \in Packages, NEW c \in Contexts, CreateDraft(p, c)
      PROVE  RowsInv' /\ SessionsKnow'
  <2>1. RowsInv' /\ Grows /\ tx' = tx
    BY <1>3, CreateKeepsInv DEF CreateDraft
  <2>2. ASSUME NEW s \in Sessions PROVE SessionsKnow'
    <3>1. tx'[s].step # "idle" => SessionKnows(tx[s])'
      <4> SUFFICES ASSUME tx[s].step # "idle" PROVE SessionKnows(tx[s])'
        BY <2>1
      <4>1. tx[s] \in Transactions /\ tx[s].pkg \in Packages /\ SessionKnows(tx[s])
        BY DEF LifecycleInv, TypeOK, SessionsKnow
      <4>2. \A t : t = tx[s] => SessionKnows(t)'
        BY <2>1, <4>1, KnowledgeSurvives DEF LifecycleInv
      <4>3. QED
        BY <2>1, <4>2 DEF SessionKnows, Exists
    <3>2. QED
      BY <2>1, <3>1, SessionsKeepKnowing DEF LifecycleInv
  <2>3. QED
    BY <2>1, <2>2 DEF SessionsKnow
<1>4. ASSUME NEW s \in Sessions, Begin(s) PROVE RowsInv' /\ SessionsKnow'
  <2>1. UNCHANGED rows
    BY <1>4, BeginLoads DEF Load, LifecycleInv
  <2>2. QED
    BY <1>2, <1>4, <2>1, BeginKnows, RowsUntouched
<1>5. ASSUME NEW s \in Sessions, CheckSubmit(s) PROVE RowsInv' /\ SessionsKnow'
  BY <1>2, <1>5, CheckKnows, RowsUntouched DEF CheckSubmit
<1>6. ASSUME NEW s \in Sessions, Commit(s) PROVE RowsInv' /\ SessionsKnow'
  BY <1>6, CommitKeepsInv
<1>7. ASSUME NEW s \in Sessions, Rollback(s) PROVE RowsInv' /\ SessionsKnow'
  BY <1>2, <1>7, RollbackKnows, RowsUntouched DEF Rollback
<1>8. ASSUME UNCHANGED vars PROVE RowsInv' /\ SessionsKnow'
  <2>1. UNCHANGED rows /\ tx' = tx
    BY <1>8 DEF vars, rows
  <2>2. SessionsKnow'
    BY <2>1 DEF rows, LifecycleInv, SessionsKnow, SessionKnows, Exists
  <2>3. QED
    BY <1>2, <2>1, <2>2, RowsUntouched
<1>9. RowsInv' /\ SessionsKnow'
  BY <1>3, <1>4, <1>5, <1>6, <1>7, <1>8, Zenon DEF Next
<1>10. QED
  BY <1>1, <1>9 DEF LifecycleInv, RowsInv

\* However sessions interleave, an open session can rely on what it loaded to
\* the extent SessionsKnow says, which carries the other invariants.
THEOREM LifecycleInvariant == Spec => []LifecycleInv
BY LifecycleInit, LifecycleStep, PTL DEF Spec

\* However sessions interleave, packages and their links stay consistent: a
\* package has a successor exactly when it is superseded, links join distinct
\* packages of one context, and what grading may see holds evidence.
THEOREM LifecycleSafe ==
    Spec => [](SupersededIffLinked /\ LinksStayInContext /\ GradableHasEvidence)
<1>1. LifecycleInv => SupersededIffLinked /\ LinksStayInContext /\ GradableHasEvidence
  BY DEF LifecycleInv
<1>2. QED
  BY <1>1, LifecycleInvariant, PTL

-----------------------------------------------------------------------------
(* Safety when operations run one after the other                          *)

RowsSerialInv == OneCurrentPackage /\ EvidenceSealed /\ LinksAgree

LEMMA SerialInit == Init => SerialInv
BY DEF Init, SerialInv, OneCurrentPackage, EvidenceSealed, LinksAgree,
       SessionsAreCurrent, Idle

\* A step that leaves the one session idle leaves nothing to be current.
LEMMA IdleIsCurrent ==
    ASSUME OneSession, TypeOK, NEW s \in Sessions, Done(s)
    PROVE  SessionsAreCurrent'
BY DoneIsIdle DEF OneSession, SessionsAreCurrent

LEMMA RowsSerialUntouched == RowsSerialInv /\ UNCHANGED rows => RowsSerialInv'
BY DEF rows, RowsSerialInv, OneCurrentPackage, EvidenceSealed, LinksAgree

LEMMA SerialCreate ==
    ASSUME LifecycleInv, SerialInv, NEW p \in Packages, NEW c \in Contexts, CreateDraft(p, c)
    PROVE  SerialInv'
<1> USE DEF LifecycleInv, SerialInv, TypeOK, CreateDraft
<1>1. OneCurrentPackage' /\ EvidenceSealed'
  BY DEF OneCurrentPackage, EvidenceSealed
<1>2. LinksAgree'
  BY DEF LinksAgree
<1>3. ASSUME NEW s \in Sessions, tx[s].step # "idle" PROVE SessionIsCurrent(tx[s])'
  <2>1. SessionIsCurrent(tx[s]) /\ SessionKnows(tx[s])
    BY <1>3 DEF SessionsAreCurrent, SessionsKnow
  <2>2. tx[s].pkg \in Packages /\ tx[s].pkg # p /\ tx[s].other \in Packages \cup {Null}
    BY <1>3, <2>1 DEF SessionKnows, Exists, Transactions
  <2>3. tx[s].other # p
    BY <2>1, <2>2, NullAssumption DEF SessionKnows, Exists
  <2>4. CurrentBeside(tx[s].pkg)' = CurrentBeside(tx[s].pkg)
    BY <2>2 DEF CurrentBeside
  <2>5. tx[s].otherStatus = "submitted" => tx[s].other \in Packages
    BY <2>1 DEF SessionKnows
  <2>6. QED
    BY <2>1, <2>2, <2>3, <2>4, <2>5 DEF SessionIsCurrent
<1>4. QED
  BY <1>1, <1>2, <1>3 DEF SessionsAreCurrent

LEMMA SerialBegin ==
    ASSUME OneSession, LifecycleInv, SerialInv, NEW s \in Sessions, Begin(s)
    PROVE  SerialInv'
<1>1. PICK op \in Ops, p \in Packages, other, link \in Packages \cup {Null} :
        /\ Load(s, op, p, other, link)
        /\ op \in {"evidence", "submit"} => status[p] = "draft"
        /\ op = "submit" => link = supersedes[p]
        /\ op = "supersede" => /\ other # Null
                               /\ status[p] = "submitted"
                               /\ MaySupersede(other, status[other], p)
  BY BeginLoads DEF LifecycleInv
<1>2. UNCHANGED rows
  BY <1>1 DEF Load
<1>3. tx'[s] = [step |-> "loaded", op |-> op, pkg |-> p, other |-> other,
                otherStatus |-> IF other = Null THEN "absent" ELSE status[other],
                link |-> link, count |-> 0]
  BY <1>1 DEF Load, LifecycleInv, TypeOK
<1>4. op # "supersede"
  BY <1>1 DEF SerialInv, OneCurrentPackage, MaySupersede
<1>5. SessionIsCurrent(tx[s])'
  BY <1>1, <1>2, <1>3, <1>4 DEF SessionIsCurrent, rows
<1>6. QED
  BY <1>2, <1>5, RowsSerialUntouched
  DEF SerialInv, RowsSerialInv, SessionsAreCurrent, OneSession

LEMMA SerialCheck ==
    ASSUME OneSession, LifecycleInv, SerialInv, NEW s \in Sessions, CheckSubmit(s)
    PROVE  SerialInv'
<1> DEFINE t == tx[s]
           previous == PreviousPackage(t)
<1>1. /\ t \in Transactions /\ t.step = "loaded" /\ t.op = "submit" /\ t.pkg \in Packages
      /\ SessionIsCurrent(t)
  BY DEF CheckSubmit, Pending, LifecycleInv, TypeOK, SerialInv, SessionsAreCurrent
<1>2. /\ tx' = [tx EXCEPT ![s] = [t EXCEPT !.step = "checked", !.other = previous,
                                           !.count = evidence[t.pkg]]]
      /\ UNCHANGED rows
      /\ NoOtherCurrentPackage(t.pkg, previous)
      /\ previous # Null => MaySupersede(previous, PreviousStatus(t), t.pkg)
  BY DEF CheckSubmit
<1>3. /\ tx'[s].step = "checked" /\ tx'[s].op = "submit" /\ tx'[s].pkg = t.pkg
      /\ tx'[s].other = previous /\ tx'[s].otherStatus = t.otherStatus
      /\ tx'[s].link = t.link /\ tx'[s].count = evidence[t.pkg]
  BY <1>1, <1>2 DEF Transactions, LifecycleInv, TypeOK
<1>4. previous # Null => status[previous] = "submitted"
  BY <1>1, <1>2 DEF PreviousPackage, PreviousStatus, MaySupersede, SessionIsCurrent
<1>5. \A q \in CurrentBeside(t.pkg) : q = previous
  BY <1>2 DEF NoOtherCurrentPackage, CurrentBeside, SerialInv, OneCurrentPackage
<1>6. t.otherStatus = "submitted" => previous = t.other
  BY <1>1, NullAssumption
  DEF PreviousPackage, LifecycleInv, SessionsKnow, SessionKnows
<1>7. CurrentBeside(t.pkg)' = CurrentBeside(t.pkg)
  BY <1>2 DEF CurrentBeside, rows
<1> HIDE DEF previous
<1>8. SessionIsCurrent(tx[s])'
  BY <1>1, <1>2, <1>3, <1>4, <1>5, <1>6 DEF SessionIsCurrent, CurrentBeside, rows
<1>9. QED
  BY <1>2, <1>8, RowsSerialUntouched
  DEF SerialInv, RowsSerialInv, SessionsAreCurrent, OneSession

LEMMA SerialSubmit ==
    ASSUME LifecycleInv, SerialInv, NEW s \in Sessions, CommitSubmit(s)
    PROVE  RowsSerialInv'
<1> DEFINE p == tx[s].pkg
           previous == tx[s].other
<1>0. tx[s].step = "checked" /\ tx[s].op = "submit" /\ supersededBy[p] = Null
  BY DEF CommitSubmit, Pending, MayHoldOtherStatus
<1>1. /\ p \in Packages
      /\ previous # Null => previous \in Packages /\ previous # p
                            /\ context[previous] = context[p]
  BY <1>0, CheckedFacts
<1>2. /\ status[p] = "draft" /\ tx[s].link = supersedes[p] /\ tx[s].count = evidence[p]
      /\ previous # Null => status[previous] = "submitted"
      /\ \A q \in CurrentBeside(p) : q = previous
  BY <1>0 DEF SerialInv, SessionsAreCurrent, SessionIsCurrent
<1>3. sealed' = [sealed EXCEPT ![p] = evidence[p]] /\ UNCHANGED <<context, evidence>>
  BY <1>2 DEF CommitSubmit
<1>4. \A q \in Packages : status[q] = "submitted" /\ context[q] = context[p] => q = previous
  BY <1>1, <1>2 DEF CurrentBeside
<1>5. \A q \in Packages : supersededBy[q] # p
  BY <1>1, <1>2, NullAssumption DEF LifecycleInv, LinkedRowsExist
<1>6. CASE previous = Null
  <2>1. /\ status' = [status EXCEPT ![p] = "submitted"]
        /\ UNCHANGED <<supersedes, supersededBy>>
    BY <1>6 DEF CommitSubmit
  <2> HIDE DEF p, previous
  <2> USE DEF LifecycleInv, TypeOK, SerialInv
  <2>2. OneCurrentPackage'
    BY <1>1, <1>3, <1>4, <1>6, <2>1, NullAssumption DEF OneCurrentPackage
  <2>3. EvidenceSealed' /\ LinksAgree'
    BY <1>1, <1>3, <2>1 DEF EvidenceSealed, LinksAgree
  <2>4. QED
    BY <2>2, <2>3 DEF RowsSerialInv
<1>7. CASE previous # Null
  <2>1. /\ status' = [status EXCEPT ![p] = "submitted", ![previous] = "superseded"]
        /\ supersededBy' = [supersededBy EXCEPT ![previous] = p]
    BY <1>7 DEF CommitSubmit, LinkSupersession
  <2>2. supersedes' = [supersedes EXCEPT ![p] = previous]
    BY <1>1, <1>2, <1>7 DEF CommitSubmit, LinkSupersession, LifecycleInv, TypeOK
  <2> HIDE DEF p, previous
  <2> USE DEF LifecycleInv, TypeOK, SerialInv
  <2>3. OneCurrentPackage'
    BY <1>1, <1>3, <1>4, <1>7, <2>1 DEF OneCurrentPackage
  <2>4. EvidenceSealed'
    BY <1>1, <1>2, <1>3, <1>7, <2>1 DEF EvidenceSealed
  <2>5. LinksAgree'
    BY <1>1, <1>5, <1>7, <2>1, <2>2 DEF LinksAgree
  <2>6. QED
    BY <2>3, <2>4, <2>5 DEF RowsSerialInv
<1>8. QED
  BY <1>6, <1>7

LEMMA SerialCommit ==
    ASSUME OneSession, LifecycleInv, SerialInv, NEW s \in Sessions, Commit(s)
    PROVE  SerialInv'
<1>1. SessionsAreCurrent'
  BY CommitIsDone, IdleIsCurrent DEF LifecycleInv
<1>2. tx[s].step # "idle" => SessionIsCurrent(tx[s]) /\ SessionKnows(tx[s])
                             /\ tx[s].pkg \in Packages
  BY DEF SerialInv, SessionsAreCurrent, LifecycleInv, SessionsKnow, TypeOK
<1>3. RowsSerialInv'
  <2> USE DEF LifecycleInv, SerialInv, TypeOK
  <2>1. CASE CommitEvidence(s)
    <3>1. status[tx[s].pkg] = "draft"
      BY <1>2, <2>1 DEF CommitEvidence, Pending, SessionIsCurrent
    <3>2. QED
      BY <1>2, <2>1, <3>1
      DEF CommitEvidence, RowsSerialInv, OneCurrentPackage, EvidenceSealed, LinksAgree
  <2>2. CASE CommitSubmit(s)
    BY <2>2, SerialSubmit
  <2>3. CASE \E revision \in Packages : CommitRevise(s, revision)
    <3>1. PICK revision \in Packages : CommitRevise(s, revision)
      BY <2>3
    <3>2. \A q \in Packages : supersededBy[q] # revision
      BY <3>1, NullAssumption DEF CommitRevise, LinkedRowsExist
    <3>3. QED
      BY <3>1, <3>2
      DEF CommitRevise, RowsSerialInv, OneCurrentPackage, EvidenceSealed, LinksAgree
  <2>4. CASE CommitSupersede(s)
    BY <1>2, <2>4 DEF CommitSupersede, Pending, SessionIsCurrent
  <2>5. CASE CommitWithdraw(s) \/ CommitArchive(s)
    <3>1. PICK final \in {"withdrawn", "archived"} :
            status' = [status EXCEPT ![tx[s].pkg] = final]
      BY <2>5 DEF CommitWithdraw, CommitArchive
    <3>2. UNCHANGED <<context, supersedes, supersededBy, evidence, sealed>>
      BY <2>5 DEF CommitWithdraw, CommitArchive
    <3>3. QED
      BY <3>1, <3>2 DEF RowsSerialInv, OneCurrentPackage, EvidenceSealed, LinksAgree
  <2>6. QED
    BY <2>1, <2>2, <2>3, <2>4, <2>5 DEF Commit
<1>4. QED
  BY <1>1, <1>3 DEF SerialInv, RowsSerialInv

LEMMA SerialStep == OneSession /\ LifecycleInv /\ SerialInv /\ [Next]_vars => SerialInv'
<1> SUFFICES ASSUME OneSession, LifecycleInv, SerialInv, [Next]_vars PROVE SerialInv'
  OBVIOUS
<1>1. ASSUME NEW p \in Packages, NEW c \in Contexts, CreateDraft(p, c) PROVE SerialInv'
  BY <1>1, SerialCreate
<1>2. ASSUME NEW s \in Sessions, Begin(s) PROVE SerialInv'
  BY <1>2, SerialBegin
<1>3. ASSUME NEW s \in Sessions, CheckSubmit(s) PROVE SerialInv'
  BY <1>3, SerialCheck
<1>4. ASSUME NEW s \in Sessions, Commit(s) PROVE SerialInv'
  BY <1>4, SerialCommit
<1>5. ASSUME NEW s \in Sessions, Rollback(s) PROVE SerialInv'
  BY <1>5, IdleIsCurrent, RowsSerialUntouched
  DEF Rollback, Done, LifecycleInv, SerialInv, RowsSerialInv
<1>6. ASSUME UNCHANGED vars PROVE SerialInv'
  <2>1. UNCHANGED rows /\ tx' = tx
    BY <1>6 DEF vars, rows
  <2>2. SessionsAreCurrent'
    BY <2>1 DEF rows, SerialInv, SessionsAreCurrent, SessionIsCurrent, CurrentBeside
  <2>3. QED
    BY <2>1, <2>2, RowsSerialUntouched DEF SerialInv, RowsSerialInv
<1>7. QED
  BY <1>1, <1>2, <1>3, <1>4, <1>5, <1>6, Zenon DEF Next

\* When service calls run one after the other, what a session loaded is still
\* there when it commits, which carries the properties below.
THEOREM SerialInvariant ==
    ASSUME OneSession
    PROVE  Spec => []SerialInv
BY LifecycleInvariant, SerialInit, SerialStep, PTL DEF Spec

\* When service calls run one after the other, a learner has at most one
\* current answer package per context, what was sealed is what is there, and
\* the two link columns agree.
THEOREM SerialSafe ==
    ASSUME OneSession
    PROVE  Spec => [](OneCurrentPackage /\ EvidenceSealed /\ LinksAgree)
<1>1. SerialInv => OneCurrentPackage /\ EvidenceSealed /\ LinksAgree
  BY DEF SerialInv
<1>2. QED
  BY <1>1, SerialInvariant, PTL

-----------------------------------------------------------------------------
(* Refinement: operations one after the other implement PackageHistory     *)

\* What PackageHistory sees of the rows.
CurrentOf ==
    [c \in Contexts |-> IF CurrentIn(c) = {} THEN Null
                        ELSE CHOOSE p \in CurrentIn(c) : TRUE]

PastOf == {p \in Packages : status[p] \in {"superseded", "withdrawn", "archived"}}

\* Every row belongs to a learner and an assessment context.
ContextsKnown == \A p \in Packages : Exists(p) => context[p] \in Contexts

LEMMA ContextsStep == LifecycleInv /\ ContextsKnown /\ [Next]_vars => ContextsKnown'
<1> SUFFICES ASSUME LifecycleInv, ContextsKnown, [Next]_vars PROVE ContextsKnown'
  OBVIOUS
<1> USE DEF ContextsKnown, Exists
<1>1. ASSUME NEW p \in Packages, NEW c \in Contexts, CreateDraft(p, c)
      PROVE  ContextsKnown'
  BY <1>1 DEF CreateDraft, LifecycleInv, TypeOK
<1>2. ASSUME UNCHANGED rows PROVE ContextsKnown'
  BY <1>2 DEF rows
<1>3. ASSUME NEW s \in Sessions, Commit(s) PROVE ContextsKnown'
  <2> USE DEF LifecycleInv, TypeOK
  <2>1. tx[s].step # "idle" => SessionKnows(tx[s]) /\ tx[s].pkg \in Packages
    BY DEF SessionsKnow
  <2>2. CASE CommitEvidence(s)
    BY <2>2 DEF CommitEvidence
  <2>3. CASE CommitSubmit(s)
    <3>1. tx[s].step = "checked"
      BY <2>3 DEF CommitSubmit, Pending
    <3>2. context' = context /\ \A q \in Packages : Exists(q)' => Exists(q)
      BY <2>3, <3>1, CheckedFacts DEF CommitSubmit
    <3>3. QED
      BY <3>2
  <2>4. CASE \E revision \in Packages : CommitRevise(s, revision)
    <3>1. PICK revision \in Packages : CommitRevise(s, revision)
      BY <2>4
    <3>2. context[tx[s].pkg] \in Contexts
      BY <2>1, <3>1 DEF CommitRevise, Pending, SessionKnows
    <3>3. QED
      BY <3>1, <3>2 DEF CommitRevise
  <2>5. CASE CommitSupersede(s)
    <3>1. tx[s].step # "idle" /\ tx[s].op = "supersede"
      BY <2>5 DEF CommitSupersede, Pending
    <3>2. context' = context /\ \A q \in Packages : Exists(q)' => Exists(q)
      BY <2>5, <3>1, CheckedFacts DEF CommitSupersede
    <3>3. QED
      BY <3>2
  <2>6. CASE CommitWithdraw(s) \/ CommitArchive(s)
    <3>1. tx[s].step # "idle"
      BY <2>6 DEF CommitWithdraw, CommitArchive, Pending
    <3>2. context' = context /\ \A q \in Packages : Exists(q)' => Exists(q)
      BY <2>1, <2>6, <3>1 DEF CommitWithdraw, CommitArchive, SessionKnows
    <3>3. QED
      BY <3>2
  <2>7. QED
    BY <1>3, <2>2, <2>3, <2>4, <2>5, <2>6 DEF Commit
<1>4. ASSUME NEW s \in Sessions, Begin(s) \/ CheckSubmit(s) \/ Rollback(s)
      PROVE  UNCHANGED rows
  BY <1>4, BeginLoads DEF Load, CheckSubmit, Rollback, LifecycleInv
<1>5. ASSUME UNCHANGED vars PROVE UNCHANGED rows
  BY <1>5 DEF vars, rows
<1>6. QED
  BY <1>1, <1>2, <1>3, <1>4, <1>5, Zenon DEF Next

\* The abstract current package, from the packages of a context.
LEMMA CurrentFrom ==
    ASSUME NEW c \in Contexts
    PROVE  /\ CurrentIn(c) = {} => CurrentOf[c] = Null
           /\ \A p : CurrentIn(c) = {p} => CurrentOf[c] = p
           /\ CurrentIn(c)' = {} => CurrentOf'[c] = Null
           /\ \A p : CurrentIn(c)' = {p} => CurrentOf'[c] = p
BY DEF CurrentOf

LEMMA CurrentIs ==
    ASSUME OneCurrentPackage, NEW c \in Contexts
    PROVE  /\ \A q \in Packages : status[q] = "submitted" /\ context[q] = c =>
                                     CurrentIn(c) = {q} /\ CurrentOf[c] = q
           /\ CurrentOf[c] # Null =>
                 /\ CurrentOf[c] \in Packages
                 /\ status[CurrentOf[c]] = "submitted" /\ context[CurrentOf[c]] = c
<1>1. \A q \in Packages : status[q] = "submitted" /\ context[q] = c => CurrentIn(c) = {q}
  BY DEF OneCurrentPackage, CurrentIn
<1>2. \A q \in Packages : status[q] = "submitted" /\ context[q] = c => CurrentOf[c] = q
  BY <1>1, CurrentFrom
<1>3. ASSUME CurrentOf[c] # Null
      PROVE  \E q \in Packages : status[q] = "submitted" /\ context[q] = c
  BY <1>3, CurrentFrom DEF CurrentIn
<1>4. QED
  BY <1>1, <1>2, <1>3

LEMMA CurrentIsFunction ==
    /\ CurrentOf = [c \in Contexts |-> CurrentOf[c]]
    /\ CurrentOf' = [c \in Contexts |-> CurrentOf'[c]]
BY DEF CurrentOf

\* The abstract steps, over what is seen of the rows.
LEMMA AbstractSteps ==
    ASSUME NEW c \in Contexts, NEW p \in Packages, PastOf' \subseteq Packages
    PROVE  /\ /\ p \notin PastOf /\ \A d \in Contexts : CurrentOf[d] # p
              /\ CurrentOf' = [CurrentOf EXCEPT ![c] = p]
              /\ PastOf' = PastOf \cup ({CurrentOf[c]} \ {Null})
              => History!Next
           /\ /\ CurrentOf[c] # Null
              /\ CurrentOf' = [CurrentOf EXCEPT ![c] = Null]
              /\ PastOf' = PastOf \cup {CurrentOf[c]}
              => History!Next
           /\ /\ p \notin PastOf /\ \A d \in Contexts : CurrentOf[d] # p
              /\ PastOf' = PastOf \cup {p}
              /\ CurrentOf' = CurrentOf
              => History!Next
<1>1. /\ p \notin PastOf /\ \A d \in Contexts : CurrentOf[d] # p
      /\ CurrentOf' = [CurrentOf EXCEPT ![c] = p]
      /\ PastOf' = PastOf \cup ({CurrentOf[c]} \ {Null})
      => History!Publish(c, p)
  BY DEF History!Publish, History!Fresh, CurrentOf, PastOf
<1>2. /\ CurrentOf[c] # Null
      /\ CurrentOf' = [CurrentOf EXCEPT ![c] = Null]
      /\ PastOf' = PastOf \cup {CurrentOf[c]}
      => History!Retire(c)
  BY DEF History!Retire, CurrentOf, PastOf
<1>3. /\ p \notin PastOf /\ \A d \in Contexts : CurrentOf[d] # p
      /\ PastOf' = PastOf \cup {p}
      /\ CurrentOf' = CurrentOf
      => History!Discard(p)
  BY DEF History!Discard, History!Fresh, CurrentOf, PastOf
<1>4. QED
  BY <1>1, <1>2, <1>3 DEF History!Next

\* No context has another current package, and none is over that was not.
LEMMA NothingSeen ==
    ASSUME OneCurrentPackage,
           \A p \in Packages :
              \/ status'[p] = status[p] /\ context'[p] = context[p]
              \/ {status[p], status'[p]} \subseteq {"absent", "draft"}
              \/ {status[p], status'[p]} \subseteq {"superseded", "withdrawn", "archived"}
    PROVE  UNCHANGED History!vars
<1>1. \A c \in Contexts : CurrentIn(c)' = CurrentIn(c)
  BY DEF CurrentIn
<1>2. ASSUME NEW c \in Contexts PROVE CurrentOf'[c] = CurrentOf[c]
  <2>1. CASE CurrentIn(c) = {}
    BY <1>1, <2>1, CurrentFrom
  <2>2. ASSUME NEW q \in CurrentIn(c) PROVE CurrentOf'[c] = CurrentOf[c]
    <3>1. CurrentIn(c) = {q}
      BY <2>2, CurrentIs DEF CurrentIn
    <3>2. QED
      BY <1>1, <3>1, CurrentFrom
  <2>3. QED
    BY <2>1, <2>2
<1>3. CurrentOf' = CurrentOf
  BY <1>2, CurrentIsFunction
<1>4. PastOf' = PastOf
  BY DEF PastOf
<1>5. QED
  BY <1>3, <1>4 DEF History!vars, CurrentOf, PastOf

\* A package that is a draft has not been seen.
LEMMA DraftIsFresh ==
    ASSUME OneCurrentPackage, NEW p \in Packages, status[p] = "draft"
    PROVE  p \notin PastOf /\ \A d \in Contexts : CurrentOf[d] # p
BY CurrentIs, NullAssumption DEF PastOf

LEMMA SubmitPublishes ==
    ASSUME LifecycleInv, SerialInv, ContextsKnown, OneCurrentPackage',
           NEW s \in Sessions, CommitSubmit(s)
    PROVE  History!Next
<1>0. tx[s].step = "checked" /\ tx[s].op = "submit"
  BY DEF CommitSubmit, Pending
<1>1. PICK p \in Packages, previous \in Packages \cup {Null} :
        /\ p = tx[s].pkg /\ previous = tx[s].other
        /\ previous # Null => previous # p /\ context[previous] = context[p]
  BY <1>0, CheckedFacts
<1>2. /\ status[p] = "draft"
      /\ previous # Null => status[previous] = "submitted"
      /\ \A q \in CurrentBeside(p) : q = previous
  BY <1>0, <1>1 DEF SerialInv, SessionsAreCurrent, SessionIsCurrent
<1>3. PICK c \in Contexts : c = context[p]
  BY <1>2 DEF ContextsKnown, Exists
<1>4. /\ status' = IF previous = Null THEN [status EXCEPT ![p] = "submitted"]
                   ELSE [status EXCEPT ![p] = "submitted", ![previous] = "superseded"]
      /\ context' = context
  BY <1>1 DEF CommitSubmit
<1>5. /\ OneCurrentPackage /\ status \in [Packages -> Statuses \cup {"absent"}]
      /\ c = context[p] /\ (previous # Null => context[previous] = c)
  BY <1>1, <1>3 DEF SerialInv, LifecycleInv, TypeOK
<1>6. CurrentOf[c] = previous
  <2>1. CASE previous = Null
    <3>1. \A q \in Packages : ~(status[q] = "submitted" /\ context[q] = c)
      BY <1>1, <1>2, <1>5, <2>1, NullAssumption DEF CurrentBeside
    <3>2. CurrentIn(c) = {}
      BY <3>1 DEF CurrentIn
    <3>3. QED
      BY <1>3, <2>1, <3>2, CurrentFrom
  <2>2. CASE previous # Null
    BY <1>1, <1>2, <1>3, <1>5, <2>2, CurrentIs
  <2>3. QED
    BY <2>1, <2>2
<1>7. \A d \in Contexts : CurrentOf'[d] = IF d = c THEN p ELSE CurrentOf[d]
  <2>1. CurrentOf'[c] = p
    <3>1. status'[p] = "submitted" /\ context'[p] = c
      BY <1>1, <1>4, <1>5
    <3>2. \A q \in Packages : status'[q] = "submitted" /\ context'[q] = c => q = p
      BY <1>1, <3>1 DEF OneCurrentPackage
    <3>3. CurrentIn(c)' = {p}
      BY <1>1, <3>1, <3>2 DEF CurrentIn
    <3>4. QED
      BY <1>3, <3>3, CurrentFrom
  <2>2. ASSUME NEW d \in Contexts, d # c PROVE CurrentOf'[d] = CurrentOf[d]
    <3>1. CurrentIn(d)' = CurrentIn(d)
      BY <1>1, <1>4, <1>5, <2>2 DEF CurrentIn
    <3>2. CASE CurrentIn(d) = {}
      BY <3>1, <3>2, CurrentFrom
    <3>3. ASSUME NEW q \in CurrentIn(d) PROVE CurrentOf'[d] = CurrentOf[d]
      <4>1. CurrentIn(d) = {q}
        BY <1>5, <3>3, CurrentIs DEF CurrentIn
      <4>2. QED
        BY <3>1, <4>1, CurrentFrom
    <3>4. QED
      BY <3>2, <3>3
  <2>3. QED
    BY <2>1, <2>2
<1>8. CurrentOf' = [CurrentOf EXCEPT ![c] = p]
  BY <1>3, <1>7, CurrentIsFunction
<1>9. PastOf' = PastOf \cup ({CurrentOf[c]} \ {Null})
  BY <1>1, <1>2, <1>4, <1>5, <1>6, NullAssumption DEF PastOf
<1>10. p \notin PastOf /\ \A d \in Contexts : CurrentOf[d] # p
  BY <1>1, <1>2, <1>5, DraftIsFresh, NullAssumption
<1>11. QED
  BY <1>1, <1>3, <1>8, <1>9, <1>10, AbstractSteps DEF PastOf

\* Withdrawing or archiving a package.
LEMMA ClosingRetires ==
    ASSUME LifecycleInv, SerialInv, ContextsKnown, OneCurrentPackage',
           NEW p \in Packages, NEW final \in {"withdrawn", "archived"},
           Exists(p), MayHoldOtherStatus(p),
           status' = [status EXCEPT ![p] = final], context' = context
    PROVE  History!Next \/ UNCHANGED History!vars
<1>1. status[p] \in {"draft", "submitted", "withdrawn", "archived"}
  BY DEF LifecycleInv, TypeOK, Statuses, SupersededIffLinked, MayHoldOtherStatus, Exists
<1>2. OneCurrentPackage /\ status \in [Packages -> Statuses \cup {"absent"}]
  BY DEF SerialInv, LifecycleInv, TypeOK
<1>3. CASE status[p] \in {"withdrawn", "archived"}
  BY <1>2, <1>3, NothingSeen
<1>4. PastOf' = PastOf \cup {p}
  BY <1>2 DEF PastOf
<1>5. ASSUME NEW d \in Contexts, CurrentIn(d)' = CurrentIn(d)
      PROVE  CurrentOf'[d] = CurrentOf[d]
  <2>1. CASE CurrentIn(d) = {}
    BY <1>5, <2>1, CurrentFrom
  <2>2. ASSUME NEW q \in CurrentIn(d) PROVE CurrentOf'[d] = CurrentOf[d]
    <3>1. CurrentIn(d) = {q}
      BY <1>2, <2>2, CurrentIs DEF CurrentIn
    <3>2. QED
      BY <1>5, <3>1, CurrentFrom
  <2>3. QED
    BY <2>1, <2>2
<1>6. CASE status[p] = "draft"
  <2>1. \A d \in Contexts : CurrentIn(d)' = CurrentIn(d)
    BY <1>2, <1>6 DEF CurrentIn
  <2>2. CurrentOf' = CurrentOf
    BY <1>5, <2>1, CurrentIsFunction
  <2>3. p \notin PastOf /\ \A d \in Contexts : CurrentOf[d] # p
    BY <1>2, <1>6, DraftIsFresh, NullAssumption
  <2>4. context[p] \in Contexts
    BY DEF ContextsKnown
  <2>5. QED
    BY <1>4, <2>2, <2>3, <2>4, AbstractSteps DEF PastOf
<1>7. CASE status[p] = "submitted"
  <2>1. PICK c \in Contexts : c = context[p]
    BY DEF ContextsKnown
  <2>2. CurrentOf[c] = p /\ CurrentIn(c) = {p}
    BY <1>2, <1>7, <2>1, CurrentIs
  <2>3. CurrentIn(c)' = {}
    BY <1>2, <2>2 DEF CurrentIn
  <2>4. \A d \in Contexts : d # c => CurrentIn(d)' = CurrentIn(d)
    BY <1>2, <1>7, <2>1 DEF CurrentIn
  <2>5. CurrentOf' = [CurrentOf EXCEPT ![c] = Null]
    <3>1. CurrentOf'[c] = Null
      BY <2>1, <2>3, CurrentFrom
    <3>2. \A d \in Contexts : d # c => CurrentOf'[d] = CurrentOf[d]
      BY <1>5, <2>4
    <3>3. QED
      BY <2>1, <3>1, <3>2, CurrentIsFunction
  <2>6. QED
    BY <1>4, <2>1, <2>2, <2>5, AbstractSteps, NullAssumption DEF PastOf
<1>8. QED
  BY <1>1, <1>3, <1>6, <1>7

\* Service calls that run one after the other implement the history of one
\* current package per context: a package becomes current once, what it
\* replaces is over, and what is over stays over.
THEOREM SerialRefines ==
    ASSUME OneSession
    PROVE  Spec => ImplementsPackageHistory
<1>1. Init => LifecycleInv /\ SerialInv /\ ContextsKnown
  BY LifecycleInit, SerialInit DEF Init, ContextsKnown, Exists
<1>2. LifecycleInv /\ SerialInv /\ ContextsKnown /\ [Next]_vars
         => (LifecycleInv /\ SerialInv /\ ContextsKnown)'
  BY LifecycleStep, SerialStep, ContextsStep
<1>3. Init => History!Init
  <2> SUFFICES ASSUME Init PROVE History!Init
    OBVIOUS
  <2>1. \A c \in Contexts : CurrentIn(c) = {}
    BY DEF Init, CurrentIn
  <2>2. CurrentOf = [c \in Contexts |-> Null]
    BY <2>1, CurrentFrom, CurrentIsFunction
  <2>3. PastOf = {}
    BY DEF Init, PastOf
  <2>4. QED
    BY <2>2, <2>3 DEF History!Init, CurrentOf, PastOf
<1>4. /\ LifecycleInv /\ SerialInv /\ ContextsKnown
      /\ (LifecycleInv /\ SerialInv /\ ContextsKnown)'
      /\ [Next]_vars
      => [History!Next]_(History!vars)
  <2> SUFFICES ASSUME LifecycleInv, SerialInv, ContextsKnown, SerialInv', [Next]_vars
               PROVE  History!Next \/ UNCHANGED History!vars
    BY Zenon
  <2>1. OneCurrentPackage /\ OneCurrentPackage' /\ TypeOK
    BY DEF SerialInv, LifecycleInv
  <2>2. ASSUME UNCHANGED <<status, context>>
        PROVE  UNCHANGED History!vars
    BY <2>1, <2>2, NothingSeen
  <2>3. ASSUME NEW p \in Packages, NEW c \in Contexts, CreateDraft(p, c)
        PROVE  UNCHANGED History!vars
    <3>1. \A q \in Packages : \/ status'[q] = status[q] /\ context'[q] = context[q]
                              \/ {status[q], status'[q]} \subseteq {"absent", "draft"}
      BY <2>1, <2>3 DEF CreateDraft, TypeOK
    <3>2. QED
      BY <2>1, <3>1, NothingSeen
  <2>4. ASSUME NEW s \in Sessions, Begin(s) \/ CheckSubmit(s) \/ Rollback(s)
        PROVE  UNCHANGED <<status, context>>
    BY <2>1, <2>4, BeginLoads DEF Load, CheckSubmit, Rollback, rows
  <2>5. ASSUME NEW s \in Sessions, Commit(s)
        PROVE  History!Next \/ UNCHANGED History!vars
    <3>1. tx[s].step # "idle" => /\ SessionKnows(tx[s]) /\ SessionIsCurrent(tx[s])
                                 /\ tx[s].pkg \in Packages
      BY DEF SerialInv, SessionsAreCurrent, LifecycleInv, SessionsKnow, TypeOK
    <3>2. CASE CommitEvidence(s)
      BY <2>2, <3>2 DEF CommitEvidence
    <3>3. CASE CommitSubmit(s)
      BY <2>1, <3>3, SubmitPublishes
    <3>4. CASE \E revision \in Packages : CommitRevise(s, revision)
      <4>1. \A q \in Packages : \/ status'[q] = status[q] /\ context'[q] = context[q]
                                \/ {status[q], status'[q]} \subseteq {"absent", "draft"}
        BY <2>1, <3>4 DEF CommitRevise, TypeOK
      <4>2. QED
        BY <2>1, <4>1, NothingSeen
    <3>5. CASE CommitSupersede(s)
      BY <3>1, <3>5 DEF CommitSupersede, Pending, SessionIsCurrent
    <3>6. CASE CommitWithdraw(s) \/ CommitArchive(s)
      <4>1. PICK final \in {"withdrawn", "archived"} :
              /\ status' = [status EXCEPT ![tx[s].pkg] = final]
              /\ context' = context /\ MayHoldOtherStatus(tx[s].pkg)
              /\ tx[s].step # "idle"
        BY <3>6 DEF CommitWithdraw, CommitArchive, Pending
      <4>2. Exists(tx[s].pkg) /\ tx[s].pkg \in Packages
        BY <3>1, <4>1 DEF SessionKnows
      <4>3. QED
        BY <2>1, <4>1, <4>2, ClosingRetires
    <3>7. QED
      BY <2>5, <3>2, <3>3, <3>4, <3>5, <3>6 DEF Commit
  <2>6. CASE UNCHANGED vars
    BY <2>2, <2>6 DEF vars
  <2>7. QED
    BY <2>2, <2>3, <2>4, <2>5, <2>6, Zenon DEF Next
<1>5. QED
  BY <1>1, <1>2, <1>3, <1>4, PTL DEF Spec, ImplementsPackageHistory, History!Spec

-----------------------------------------------------------------------------
(* History is final when operations run one after the other                *)

\* A package about to be withdrawn is as it was loaded.
WithdrawsOpen ==
    \A s \in Sessions : tx[s].step # "idle" /\ tx[s].op = "withdraw" =>
        status[tx[s].pkg] \in {"draft", "submitted"}

LEMMA WithdrawsStep ==
    ASSUME OneSession, LifecycleInv, WithdrawsOpen, [Next]_vars
    PROVE  WithdrawsOpen'
<1> USE DEF LifecycleInv, TypeOK
<1>1. ASSUME NEW p \in Packages, NEW c \in Contexts, CreateDraft(p, c)
      PROVE  WithdrawsOpen'
  BY <1>1 DEF CreateDraft, WithdrawsOpen
<1>2. ASSUME NEW s \in Sessions, Begin(s) PROVE WithdrawsOpen'
  <2>1. PICK op \in Ops, p \in Packages, other, link \in Packages \cup {Null} :
          Load(s, op, p, other, link)
    BY <1>2, BeginLoads
  <2>2. tx'[s].op = op /\ tx'[s].pkg = p /\ status' = status
    BY <2>1 DEF Load, rows
  <2>3. op = "withdraw" => status[p] \in {"draft", "submitted"}
    <3>1. CASE \E q \in Packages : BeginWithdraw(s, q)
      <4>1. PICK q \in Packages : BeginWithdraw(s, q)
        BY <3>1
      <4>2. tx'[s].pkg = q /\ status[q] \in {"draft", "submitted"}
        BY <4>1 DEF BeginWithdraw, Load
      <4>3. QED
        BY <2>2, <4>2
    <3>2. CASE ~ \E q \in Packages : BeginWithdraw(s, q)
      <4>1. tx'[s].op # "withdraw"
        BY <1>2, <3>2 DEF Begin, BeginEvidence, BeginSubmit, BeginRevise, BeginSupersede,
                          BeginArchive, Load
      <4>2. QED
        BY <2>2, <4>1
    <3>3. QED
      BY <3>1, <3>2
  <2>4. QED
    BY <2>2, <2>3 DEF OneSession, WithdrawsOpen
<1>3. ASSUME NEW s \in Sessions, CheckSubmit(s) PROVE WithdrawsOpen'
  <2>1. tx'[s].op = "submit"
    BY <1>3 DEF CheckSubmit, Pending, Transactions
  <2>2. QED
    BY <2>1 DEF OneSession, WithdrawsOpen
<1>4. ASSUME NEW s \in Sessions, Commit(s) \/ Rollback(s) PROVE WithdrawsOpen'
  <2>1. Done(s)
    BY <1>4, CommitIsDone DEF Rollback, Done
  <2>2. QED
    BY <2>1, DoneIsIdle DEF OneSession, WithdrawsOpen
<1>5. CASE UNCHANGED vars
  BY <1>5 DEF vars, WithdrawsOpen
<1>6. QED
  BY <1>1, <1>2, <1>3, <1>4, <1>5, Zenon DEF Next

\* What a step may never do to a package.
StaysFinal(p) ==
    /\ status[p] = "superseded" => /\ status'[p] = "superseded"
                                   /\ supersededBy'[p] = supersededBy[p]
    /\ status[p] = "withdrawn" => status'[p] \in {"withdrawn", "archived"}
    /\ status[p] = "archived" => status'[p] = "archived"
    /\ status[p] = "submitted" => status'[p] # "draft"

LEMMA CommitsAreFinal ==
    ASSUME LifecycleInv, SerialInv, WithdrawsOpen,
           NEW s \in Sessions, Commit(s), NEW p \in Packages
    PROVE  StaysFinal(p)
<1> USE DEF LifecycleInv, TypeOK, StaysFinal
<1>1. tx[s].step # "idle" => /\ SessionKnows(tx[s]) /\ SessionIsCurrent(tx[s])
                             /\ tx[s].pkg \in Packages
  BY DEF SerialInv, SessionsAreCurrent, SessionsKnow
<1>2. CASE CommitEvidence(s)
  BY <1>2 DEF CommitEvidence
<1>3. CASE CommitSubmit(s)
  <2>1. tx[s].step = "checked" /\ tx[s].op = "submit"
    BY <1>3 DEF CommitSubmit, Pending
  <2>2. /\ status[tx[s].pkg] = "draft"
        /\ tx[s].other # Null => status[tx[s].other] = "submitted"
    BY <1>1, <2>1 DEF SessionIsCurrent
  <2>3. \A q \in Packages : q # tx[s].pkg /\ q # tx[s].other =>
            status'[q] = status[q] /\ supersededBy'[q] = supersededBy[q]
    BY <1>3 DEF CommitSubmit, LinkSupersession
  <2>4. tx[s].pkg # tx[s].other /\ tx[s].pkg \in Packages /\ status'[tx[s].pkg] = "submitted"
    <3>1. tx[s].pkg # tx[s].other /\ tx[s].pkg \in Packages
      BY <1>1, <2>1, <2>2, NullAssumption
    <3>2. QED
      BY <1>3, <3>1 DEF CommitSubmit
  <2>5. tx[s].other \in Packages => status'[tx[s].other] = "superseded"
    BY <1>3, <2>4, NullAssumption DEF CommitSubmit
  <2>6. QED
    BY <2>2, <2>3, <2>4, <2>5, NullAssumption
<1>4. CASE \E revision \in Packages : CommitRevise(s, revision)
  BY <1>4 DEF CommitRevise
<1>5. CASE CommitSupersede(s)
  BY <1>1, <1>5 DEF CommitSupersede, Pending, SessionIsCurrent
<1>6. CASE CommitWithdraw(s)
  BY <1>6 DEF CommitWithdraw, Pending, WithdrawsOpen
<1>7. CASE CommitArchive(s)
  <2>1. status[tx[s].pkg] # "superseded"
    BY <1>1, <1>7 DEF CommitArchive, Pending, MayHoldOtherStatus, SupersededIffLinked
  <2>2. QED
    BY <1>7, <2>1 DEF CommitArchive
<1>8. QED
  BY <1>2, <1>3, <1>4, <1>5, <1>6, <1>7 DEF Commit

\* When service calls run one after the other, history is final: a superseded
\* package keeps its successor, a withdrawn one can only be archived, and no
\* package goes back to draft.
THEOREM SerialIsFinal ==
    ASSUME OneSession
    PROVE  Spec => HistoryIsFinal
<1>1. Init => LifecycleInv /\ SerialInv /\ WithdrawsOpen
  BY LifecycleInit, SerialInit DEF Init, WithdrawsOpen, Idle
<1>2. LifecycleInv /\ SerialInv /\ WithdrawsOpen /\ [Next]_vars
         => (LifecycleInv /\ SerialInv /\ WithdrawsOpen)'
  BY LifecycleStep, SerialStep, WithdrawsStep
<1>3. LifecycleInv /\ SerialInv /\ WithdrawsOpen /\ [Next]_vars
         => [\A p \in Packages : StaysFinal(p)]_vars
  <2> SUFFICES ASSUME LifecycleInv, SerialInv, WithdrawsOpen, Next, NEW p \in Packages
               PROVE  StaysFinal(p)
    BY Zenon
  <2>1. ASSUME NEW q \in Packages, NEW c \in Contexts, CreateDraft(q, c)
        PROVE  StaysFinal(p)
    BY <2>1 DEF CreateDraft, StaysFinal, LifecycleInv, TypeOK
  <2>2. ASSUME NEW s \in Sessions, Begin(s) \/ CheckSubmit(s) \/ Rollback(s)
        PROVE  StaysFinal(p)
    <3>1. UNCHANGED <<status, supersededBy>>
      BY <2>2, BeginLoads DEF Load, CheckSubmit, Rollback, rows, LifecycleInv
    <3>2. QED
      BY <3>1 DEF StaysFinal
  <2>3. ASSUME NEW s \in Sessions, Commit(s) PROVE StaysFinal(p)
    BY <2>3, CommitsAreFinal
  <2>4. QED
    BY <2>1, <2>2, <2>3, Zenon DEF Next
<1>4. [\A p \in Packages : StaysFinal(p)]_vars =>
        [\A p \in Packages :
          /\ status[p] = "superseded" => /\ status'[p] = "superseded"
                                         /\ supersededBy'[p] = supersededBy[p]
          /\ status[p] = "withdrawn" => status'[p] \in {"withdrawn", "archived"}
          /\ status[p] = "archived" => status'[p] = "archived"
          /\ status[p] = "submitted" => status'[p] # "draft"]_vars
  BY DEF StaysFinal
<1>5. QED
  BY <1>1, <1>2, <1>3, <1>4, PTL DEF Spec, HistoryIsFinal

\* One step keeps the successors as they are, or gives one to a package that
\* had none, and the new successor has none itself.
LEMMA OneNewSuccessor ==
    ASSUME LifecycleInv, SerialInv, [Next]_vars
    PROVE  \/ supersededBy' = supersededBy
           \/ \E p, q \in Packages : /\ supersededBy[p] = Null
                                     /\ p # q
                                     /\ supersededBy' = [supersededBy EXCEPT ![q] = p]
<1>1. ASSUME NEW p \in Packages, NEW c \in Contexts, CreateDraft(p, c)
      PROVE  supersededBy' = supersededBy
  BY <1>1 DEF CreateDraft
<1>2. ASSUME NEW s \in Sessions, Begin(s) \/ CheckSubmit(s) \/ Rollback(s)
      PROVE  supersededBy' = supersededBy
  BY <1>2, BeginLoads DEF Load, CheckSubmit, Rollback, rows, LifecycleInv
<1>3. ASSUME NEW s \in Sessions, CommitSubmit(s)
      PROVE  \/ supersededBy' = supersededBy
             \/ \E p, q \in Packages : /\ supersededBy[p] = Null
                                       /\ p # q
                                       /\ supersededBy' = [supersededBy EXCEPT ![q] = p]
  <2>1. tx[s].step = "checked" /\ supersededBy[tx[s].pkg] = Null
    BY <1>3 DEF CommitSubmit, Pending, MayHoldOtherStatus
  <2>2. CASE tx[s].other = Null
    BY <1>3, <2>2 DEF CommitSubmit
  <2>3. CASE tx[s].other # Null
    <3>1. tx[s].pkg \in Packages /\ tx[s].other \in Packages /\ tx[s].pkg # tx[s].other
      BY <2>1, <2>3, CheckedFacts
    <3>2. supersededBy' = [supersededBy EXCEPT ![tx[s].other] = tx[s].pkg]
      BY <1>3, <2>3 DEF CommitSubmit, LinkSupersession
    <3>3. QED
      BY <2>1, <3>1, <3>2
  <2>4. QED
    BY <2>2, <2>3
<1>4. ASSUME NEW s \in Sessions, CommitSupersede(s) PROVE FALSE
  BY <1>4 DEF CommitSupersede, Pending, SerialInv, SessionsAreCurrent, SessionIsCurrent
<1>5. ASSUME NEW s \in Sessions, Commit(s), ~CommitSubmit(s), ~CommitSupersede(s)
      PROVE  supersededBy' = supersededBy
  BY <1>5 DEF Commit, CommitEvidence, CommitRevise, CommitWithdraw, CommitArchive
<1>6. CASE UNCHANGED vars
  BY <1>6 DEF vars
<1>7. QED
  BY <1>1, <1>2, <1>3, <1>4, <1>5, <1>6 DEF Next

LEMMA AcyclicStep ==
    ASSUME LifecycleInv, SerialInv, HistoryAcyclic, [Next]_vars
    PROVE  HistoryAcyclic'
<1>1. CASE supersededBy' = supersededBy
  BY <1>1 DEF HistoryAcyclic
<1>2. ASSUME NEW p \in Packages, NEW q \in Packages, supersededBy[p] = Null, p # q,
             supersededBy' = [supersededBy EXCEPT ![q] = p]
      PROVE  HistoryAcyclic'
  <2> SUFFICES ASSUME NEW S \in (SUBSET Packages) \ {{}}
               PROVE  \E x \in S : supersededBy'[x] \notin S
    BY DEF HistoryAcyclic
  <2>1. supersededBy \in [Packages -> Packages \cup {Null}] /\ Null \notin S
    BY NullAssumption DEF LifecycleInv, TypeOK
  <2>2. PICK x \in S : supersededBy[x] \notin S
    BY DEF HistoryAcyclic
  <2>3. CASE q \notin S
    BY <1>2, <2>1, <2>2, <2>3
  <2>4. CASE q \in S /\ p \notin S
    BY <1>2, <2>1, <2>4
  <2>5. CASE q \in S /\ p \in S
    BY <1>2, <2>1, <2>5
  <2>6. QED
    BY <2>3, <2>4, <2>5
<1>3. QED
  BY <1>1, <1>2, OneNewSuccessor

\* When service calls run one after the other, the chain of successors never
\* loops, however many packages a context has seen.
THEOREM SerialIsAcyclic ==
    ASSUME OneSession
    PROVE  Spec => []HistoryAcyclic
<1>1. Init => HistoryAcyclic
  BY NullAssumption DEF Init, HistoryAcyclic
<1>2. LifecycleInv /\ SerialInv /\ HistoryAcyclic /\ [Next]_vars => HistoryAcyclic'
  BY AcyclicStep
<1>3. QED
  BY <1>1, <1>2, LifecycleInvariant, SerialInvariant, PTL DEF Spec

=============================================================================
