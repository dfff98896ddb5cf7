------------------------- MODULE GradingReviewProofs -------------------------
(***************************************************************************)
(* Theorems about GradingReview for every set of packages, runs, sessions  *)
(* and signals.  The first part holds however requests interleave, the     *)
(* second when teachers' requests run one after the other.                 *)
(***************************************************************************)
EXTENDS GradingReview, TLAPS, SequenceTheorems

Reviews == [decision : Decisions, before : Nat \cup {Null}, after : Nat \cup {Null}]
Sessions == Graders \cup Teachers
Transactions ==
    [step : {"idle", "grading", "task", "result"}, run : Runs \cup {Null},
     pkg : Packages \cup {Null}, submitted : BOOLEAN, loaded : Rows]

-----------------------------------------------------------------------------
(* Types                                                                   *)

LEMMA NoResultIsRow == NoResult \in Rows
BY EmptySeq DEF NoResult, Rows

LEMMA IdleIsTransaction == Idle \in Transactions
BY NoResultIsRow DEF Idle, Transactions

\* What a grading request writes: a finalized result without a task, or a
\* result that needs review with an open one.
LEMMA GradedRow ==
    ASSUME NEW g \in Signals
    PROVE  LET row == Flushed(Proposed(g), Routed(g)) IN
           /\ row \in Rows
           /\ \/ row.status = "finalized" /\ row.type = "final" /\ TaskFor(g) = "none"
              \/ row.status = "needs_review" /\ row.type = "proposed" /\ TaskFor(g) = "open"
           /\ row.history = <<>>
<1> DEFINE score == ScoreAndConfidence(g.det, g.ai)
           p == [status |-> "proposed", type |-> "proposed", total |-> score.total,
                 max |-> score.max, routed |-> FALSE, history |-> <<>>]
<1>1. score.total \in Nat \cup {Null} /\ score.max \in Nat
  BY SignalsAssumption DEF ScoreIsSound
<1>2. Proposed(g) = p
  BY DEF Proposed
<1>3. <<>> \in Seq(Nat)
  BY EmptySeq
<1> HIDE DEF score
<1>4. CASE Route(g.policy, g.det, g.warnings, g.ai) = "auto_accept"
  <2> DEFINE object == [status |-> "finalized", type |-> "final", total |-> score.total,
                        max |-> score.max, routed |-> TRUE, history |-> <<>>]
             row == [status |-> "finalized", type |-> "final", total |-> score.total,
                     max |-> score.max, routed |-> FALSE, history |-> <<>>]
  <2>1. Routed(g) = [p EXCEPT !.status = "finalized", !.type = "final", !.routed = TRUE]
    BY <1>2, <1>4 DEF Routed
  <2>2. Routed(g) = object
    BY <2>1
  <2>3. Flushed(p, object) = row
    <3>1. p.routed = FALSE
      OBVIOUS
    <3>2. Flushed(p, object) = [object EXCEPT !.routed = p.routed]
      BY Zenon DEF Flushed
    <3>3. QED
      BY <3>1, <3>2
  <2>4. row \in Rows
    BY <1>1, <1>3 DEF Rows
  <2>5. row.status = "finalized" /\ row.type = "final" /\ row.history = <<>>
    OBVIOUS
  <2> HIDE DEF object, row, p
  <2>6. Flushed(Proposed(g), Routed(g)) = row
    BY <1>2, <2>2, <2>3
  <2>7. QED
    BY <1>4, <2>4, <2>5, <2>6 DEF TaskFor
<1>5. CASE Route(g.policy, g.det, g.warnings, g.ai) # "auto_accept"
  <2> DEFINE object == [status |-> "needs_review", type |-> "proposed", total |-> score.total,
                        max |-> score.max, routed |-> TRUE, history |-> <<>>]
             row == [status |-> "needs_review", type |-> "proposed", total |-> score.total,
                     max |-> score.max, routed |-> FALSE, history |-> <<>>]
  <2>1. Routed(g) = [p EXCEPT !.status = "needs_review", !.routed = TRUE]
    BY <1>2, <1>5 DEF Routed
  <2>2. Routed(g) = object
    BY <2>1
  <2>3. Flushed(p, object) = row
    <3>1. p.routed = FALSE
      OBVIOUS
    <3>2. Flushed(p, object) = [object EXCEPT !.routed = p.routed]
      BY Zenon DEF Flushed
    <3>3. QED
      BY <3>1, <3>2
  <2>4. row \in Rows
    BY <1>1, <1>3 DEF Rows
  <2>5. row.status = "needs_review" /\ row.type = "proposed" /\ row.history = <<>>
    OBVIOUS
  <2> HIDE DEF object, row, p
  <2>6. Flushed(Proposed(g), Routed(g)) = row
    BY <1>2, <2>2, <2>3
  <2>7. QED
    BY <1>5, <2>4, <2>5, <2>6 DEF TaskFor
<1>6. QED
  BY <1>4, <1>5

LEMMA HistoryIsSeq ==
    ASSUME TypeOK, NEW s \in Teachers, tx[s].run \in Runs
    PROVE  HistoryWith(s) \in Seq(Nat)
<1>1. reviews[tx[s].run] \in Seq(Reviews) /\ tx[s].loaded.history \in Seq(Nat)
  BY DEF TypeOK, Reviews, Rows
<1>2. Len(reviews[tx[s].run]) + 1 \in Nat
  BY <1>1, LenProperties
<1>3. QED
  BY <1>1, <1>2, AppendProperties DEF HistoryWith

LEMMA FinalizeRow ==
    ASSUME TypeOK, NEW s \in Teachers, tx[s].run \in Runs,
           NEW type \in {"reviewed", "overridden"}, NEW total \in Nat \cup {Null},
           Finalize(s, type, total)
    PROVE  \E row \in Rows :
             /\ result' = [result EXCEPT ![tx[s].run] = row]
             /\ row.status = "finalized" /\ row.type = type /\ row.history = HistoryWith(s)
             /\ row.total = IF total = tx[s].loaded.total THEN result[tx[s].run].total ELSE total
             /\ row.max = result[tx[s].run].max /\ row.routed = result[tx[s].run].routed
<1> DEFINE r == tx[s].run
           row == [result[r] EXCEPT !.status = "finalized", !.type = type, !.history = HistoryWith(s),
                     !.total = IF total = tx[s].loaded.total THEN result[r].total ELSE total]
<1>1. result[r] \in Rows /\ HistoryWith(s) \in Seq(Nat)
  BY HistoryIsSeq DEF TypeOK
<1>2. result' = [result EXCEPT ![r] = row]
  BY DEF Finalize
<1>3. /\ row \in Rows
      /\ row.status = "finalized" /\ row.type = type /\ row.history = HistoryWith(s)
      /\ row.total = IF total = tx[s].loaded.total THEN result[r].total ELSE total
      /\ row.max = result[r].max /\ row.routed = result[r].routed
  BY <1>1 DEF Rows
<1>4. QED
  BY <1>2, <1>3

-----------------------------------------------------------------------------
(* What the teacher actions have in common                                 *)

\* A decision d of session s on run r, with the score after it; row is the
\* result it leaves.
Decision(s, r, d, after, row) ==
    /\ tx' = [tx EXCEPT ![s] = Idle]
    /\ reviews' = [reviews EXCEPT ![r] = Append(@, Review(d, tx[s].loaded.total, after))]
    /\ task' = [task EXCEPT ![r] = "completed"]
    /\ result' = [result EXCEPT ![r] = row]
    /\ row.history = HistoryWith(s)
    /\ row.total = IF after = tx[s].loaded.total THEN result[r].total ELSE after
    /\ d # "adjust" => after = tx[s].loaded.total
    /\ d # "return_for_regrade" =>
          row.status = "finalized" /\ row.type = IF d = "approve" THEN "reviewed" ELSE "overridden"
    /\ d = "return_for_regrade" => row.status = result[r].status /\ row.type = result[r].type
    /\ UNCHANGED <<package, answered>>

Requeued(r, new) ==
    /\ Unused(new)
    /\ runStatus' = [runStatus EXCEPT ![new] = "queued"]
    /\ runOf' = [runOf EXCEPT ![new] = runOf[r]]
    /\ regrades' = [regrades EXCEPT ![new] = r]

NotRequeued == UNCHANGED <<runStatus, runOf, regrades>>

\* What decision d makes of the run queue.
Queueing(d, r) ==
    IF d = "return_for_regrade" THEN \E new \in Runs : Requeued(r, new) ELSE NotRequeued

Scores == Nat \cup {Null}

LEMMA DecisionEffect ==
    ASSUME TypeOK, NEW s \in Teachers, tx[s].run \in Runs, Decide(s)
    PROVE  /\ tx[s].step = "result"
           /\ \E d \in Decisions, after \in Scores, row \in Rows :
                /\ Decision(s, tx[s].run, d, after, row)
                /\ Queueing(d, tx[s].run)
<1> DEFINE r == tx[s].run
           Effect(d, after, row) ==
                /\ Decision(s, r, d, after, row)
                /\ Queueing(d, r)
<1>1. tx[s].loaded.total \in Scores /\ tx[s].loaded.max \in Nat
  BY DEF TypeOK, Rows, Scores
<1>2. CASE Approve(s)
  <2>1. PICK row \in Rows :
             /\ result' = [result EXCEPT ![r] = row]
             /\ row.status = "finalized" /\ row.type = "reviewed" /\ row.history = HistoryWith(s)
             /\ row.total = result[r].total
    <3>1. Finalize(s, "reviewed", tx[s].loaded.total)
      BY <1>2 DEF Approve
    <3>2. PICK row \in Rows :
             /\ result' = [result EXCEPT ![r] = row]
             /\ row.status = "finalized" /\ row.type = "reviewed" /\ row.history = HistoryWith(s)
             /\ row.total = IF tx[s].loaded.total = tx[s].loaded.total THEN result[r].total
                            ELSE tx[s].loaded.total
      BY <1>1, <3>1, FinalizeRow DEF Scores
    <3>3. row.total = result[r].total
      BY <3>2
    <3>4. QED
      BY <3>2, <3>3
  <2>2. Effect("approve", tx[s].loaded.total, row)
    BY <1>2, <2>1 DEF Approve, RecordReview, Close, Decision, Queueing, NotRequeued, runRows
  <2>3. QED
    BY <1>1, <1>2, <2>1, <2>2 DEF Approve, Decisions
<1>3. ASSUME NEW score \in 0 .. tx[s].loaded.max, AdjustScore(s, score)
      PROVE  tx[s].step = "result" /\ \E d \in Decisions, after \in Scores, row \in Rows : Effect(d, after, row)
  <2>1. score \in Scores
    BY <1>1 DEF Scores
  <2>2. PICK row \in Rows :
             /\ result' = [result EXCEPT ![r] = row]
             /\ row.status = "finalized" /\ row.type = "overridden" /\ row.history = HistoryWith(s)
             /\ row.total = IF score = tx[s].loaded.total THEN result[r].total ELSE score
    BY <1>3, <2>1, FinalizeRow DEF AdjustScore, Scores
  <2>3. Effect("adjust", score, row)
    BY <1>3, <2>2 DEF AdjustScore, RecordReview, Close, Decision, Queueing, NotRequeued, runRows
  <2>4. QED
    BY <1>3, <2>1, <2>2, <2>3 DEF AdjustScore, Decisions
<1>4. CASE OverrideDetail(s)
  <2>1. PICK row \in Rows :
             /\ result' = [result EXCEPT ![r] = row]
             /\ row.status = "finalized" /\ row.type = "overridden" /\ row.history = HistoryWith(s)
             /\ row.total = result[r].total
    <3>1. Finalize(s, "overridden", tx[s].loaded.total)
      BY <1>4 DEF OverrideDetail
    <3>2. PICK row \in Rows :
             /\ result' = [result EXCEPT ![r] = row]
             /\ row.status = "finalized" /\ row.type = "overridden" /\ row.history = HistoryWith(s)
             /\ row.total = IF tx[s].loaded.total = tx[s].loaded.total THEN result[r].total
                            ELSE tx[s].loaded.total
      BY <1>1, <3>1, FinalizeRow DEF Scores
    <3>3. row.total = result[r].total
      BY <3>2
    <3>4. QED
      BY <3>2, <3>3
  <2>2. Effect("override", tx[s].loaded.total, row)
    BY <1>4, <2>1 DEF OverrideDetail, RecordReview, Close, Decision, Queueing, NotRequeued, runRows
  <2>3. QED
    BY <1>1, <1>4, <2>1, <2>2 DEF OverrideDetail, Decisions
<1>5. ASSUME NEW new \in Runs, ReturnForRegrade(s, new)
      PROVE  tx[s].step = "result" /\ \E d \in Decisions, after \in Scores, row \in Rows : Effect(d, after, row)
  <2> DEFINE row == [result[r] EXCEPT !.history = HistoryWith(s)]
  <2>1. result[r] \in Rows /\ HistoryWith(s) \in Seq(Nat)
    BY HistoryIsSeq DEF TypeOK
  <2>2. /\ row \in Rows /\ row.status = result[r].status /\ row.type = result[r].type
        /\ row.history = HistoryWith(s) /\ row.total = result[r].total
    BY <2>1 DEF Rows
  <2>3. result' = [result EXCEPT ![r] = row]
    BY <1>5 DEF ReturnForRegrade
  <2> HIDE DEF row
  <2>4. Effect("return_for_regrade", tx[s].loaded.total, row)
    BY <1>5, <2>2, <2>3 DEF ReturnForRegrade, RecordReview, Close, Decision, Queueing, Requeued
  <2>5. QED
    BY <1>1, <1>5, <2>2, <2>4 DEF ReturnForRegrade, Decisions
<1>6. QED
  BY <1>2, <1>3, <1>4, <1>5 DEF Decide

-----------------------------------------------------------------------------
(* Types are preserved                                                     *)

LEMMA InitType == Init => TypeOK /\ RunsConsistent /\ SessionsConsistent
<1> SUFFICES ASSUME Init PROVE TypeOK /\ RunsConsistent /\ SessionsConsistent
  OBVIOUS
<1>1. TypeOK
  <2>1. <<>> \in Seq(Reviews)
    BY EmptySeq
  <2>2. Idle \in Transactions
    BY IdleIsTransaction
  <2>3. reviews \in [Runs -> Seq(Reviews)]
    BY <2>1 DEF Init
  <2>4. tx \in [Sessions -> Transactions]
    BY <2>2 DEF Init, Sessions
  <2>5. result \in [Runs -> Rows]
    BY NoResultIsRow DEF Init
  <2>6. QED
    BY <2>3, <2>4, <2>5 DEF Init, TypeOK, Reviews, Sessions, Transactions
<1>2. RunsConsistent
  BY DEF Init, RunsConsistent, RunConsistent, NoResult
<1>3. SessionsConsistent
  BY SessionsAssumption DEF Init, SessionsConsistent, GradersConsistent, TeachersConsistent, Idle
<1>4. QED
  BY <1>1, <1>2, <1>3

\* What a step may do to the session of its request.
LEMMA SessionType ==
    ASSUME TypeOK, NEW s \in Sessions, NEW t \in Transactions, tx' = [tx EXCEPT ![s] = t]
    PROVE  tx' \in [Sessions -> Transactions]
BY DEF TypeOK, Sessions, Transactions

LEMMA GradingType ==
    ASSUME TypeOK, SessionsConsistent, NEW s \in Graders, Grade(s)
    PROVE  TypeOK'
<1>1. s \in Sessions /\ Idle \in Transactions
  BY IdleIsTransaction DEF Sessions
<1>2. ASSUME NEW p \in Packages, NEW r \in Runs, BeginGrading(s, p, r)
      PROVE  TypeOK'
  <2>1. [Idle EXCEPT !.step = "grading", !.run = r, !.pkg = p] \in Transactions
    BY <1>1 DEF Transactions
  <2>2. tx' \in [Sessions -> Transactions]
    BY <1>1, <1>2, <2>1, SessionType DEF BeginGrading, Open
  <2>3. QED
    BY <1>2, <2>2 DEF BeginGrading, TypeOK, Sessions, Transactions
<1>3. ASSUME NEW g \in Signals, CommitGrading(s, g)
      PROVE  TypeOK'
  <2> DEFINE r == tx[s].run
  <2>1. r \in Runs /\ tx[s].pkg \in Packages
    BY <1>3 DEF CommitGrading, SessionsConsistent, GradersConsistent, TeachersConsistent
  <2>2. tx' \in [Sessions -> Transactions]
    BY <1>1, <1>3, SessionType DEF CommitGrading, Close
  <2>3. Flushed(Proposed(g), Routed(g)) \in Rows /\ TaskFor(g) \in {"none", "open"}
    BY GradedRow
  <2>4. result' \in [Runs -> Rows] /\ task' \in [Runs -> {"none", "open", "completed"}]
    BY <1>3, <2>1, <2>3 DEF CommitGrading, TypeOK
  <2>5. /\ runStatus' \in [Runs -> {"absent", "queued", "completed"}]
        /\ runOf' \in [Runs -> Packages \cup {Null}]
        /\ answered' \in [Runs -> {"no", "graded", "error"}]
    BY <1>3, <2>1 DEF CommitGrading, TypeOK
  <2>6. QED
    BY <1>3, <2>2, <2>4, <2>5 DEF CommitGrading, reviewRows, TypeOK, Sessions, Transactions
<1>4. CASE FailGrading(s)
  <2>1. tx' \in [Sessions -> Transactions]
    BY <1>1, <1>4, SessionType DEF FailGrading, Close
  <2>2. answered' \in [Runs -> {"no", "graded", "error"}]
    BY <1>4 DEF FailGrading, SessionsConsistent, GradersConsistent, TeachersConsistent, TypeOK
  <2>3. QED
    BY <1>4, <2>1, <2>2 DEF FailGrading, reviewRows, TypeOK, Sessions, Transactions
<1>5. QED
  BY <1>2, <1>3, <1>4 DEF Grade

LEMMA ReviewType ==
    ASSUME NEW d \in Decisions, NEW before \in Scores, NEW after \in Scores
    PROVE  Review(d, before, after) \in Reviews
BY DEF Review, Reviews, Scores

LEMMA DecisionType ==
    ASSUME TypeOK, SessionsConsistent, RunsConsistent, NEW s \in Teachers, tx[s].run \in Runs,
           NEW d \in Decisions, NEW after \in Scores, NEW row \in Rows,
           Decision(s, tx[s].run, d, after, row),
           NotRequeued \/ \E new \in Runs : Requeued(tx[s].run, new)
    PROVE  TypeOK'
<1> DEFINE r == tx[s].run
           e == Review(d, tx[s].loaded.total, after)
<1>1. tx[s].loaded.total \in Scores
  BY DEF TypeOK, Rows, Scores
<1>2. e \in Reviews
  BY <1>1, ReviewType
<1>3. reviews[r] \in Seq(Reviews)
  BY DEF TypeOK, Reviews
<1>4. Append(reviews[r], e) \in Seq(Reviews)
  BY <1>2, <1>3, AppendProperties
<1> HIDE DEF e
<1>5. reviews' = [reviews EXCEPT ![r] = Append(reviews[r], e)]
  BY DEF Decision, e
<1>6. reviews' \in [Runs -> Seq(Reviews)]
  BY <1>4, <1>5 DEF TypeOK, Reviews
<1>7. tx' \in [Sessions -> Transactions]
  BY IdleIsTransaction, SessionType DEF Decision, Sessions
<1>8. result' \in [Runs -> Rows] /\ task' \in [Runs -> {"none", "open", "completed"}]
  BY DEF Decision, TypeOK
<1>9. /\ runStatus' \in [Runs -> {"absent", "queued", "completed"}]
      /\ runOf' \in [Runs -> Packages \cup {Null}]
      /\ regrades' \in [Runs -> Runs \cup {Null}]
  <2>1. CASE NotRequeued
    BY <2>1 DEF NotRequeued, TypeOK
  <2>2. ASSUME NEW new \in Runs, Requeued(r, new)
        PROVE  /\ runStatus' \in [Runs -> {"absent", "queued", "completed"}]
               /\ runOf' \in [Runs -> Packages \cup {Null}]
               /\ regrades' \in [Runs -> Runs \cup {Null}]
    <3>1. runOf[r] \in Packages \cup {Null} /\ r \in Runs \cup {Null}
      BY DEF TypeOK
    <3>2. runStatus' \in [Runs -> {"absent", "queued", "completed"}]
      BY <2>2 DEF Requeued, TypeOK
    <3>3. runOf' \in [Runs -> Packages \cup {Null}]
      BY <2>2, <3>1 DEF Requeued, TypeOK
    <3>4. regrades' \in [Runs -> Runs \cup {Null}]
      BY <2>2, <3>1 DEF Requeued, TypeOK
    <3>5. QED
      BY <3>2, <3>3, <3>4
  <2>3. QED
    BY <2>1, <2>2
<1>10. QED
  BY <1>6, <1>7, <1>8, <1>9 DEF Decision, TypeOK, Reviews, Sessions, Transactions

LEMMA TypeStep ==
    ASSUME TypeOK, RunsConsistent, SessionsConsistent, [Next]_vars
    PROVE  TypeOK'
<1>1. ASSUME NEW p \in Packages, RetirePackage(p)
      PROVE  TypeOK'
  BY <1>1 DEF RetirePackage, TypeOK
<1>2. ASSUME NEW s \in Graders, Grade(s)
      PROVE  TypeOK'
  BY <1>2, GradingType
<1>3. ASSUME NEW s \in Teachers, Teach(s)
      PROVE  TypeOK'
  <2>1. s \in Sessions /\ Idle \in Transactions /\ tx[s] \in Transactions
    BY IdleIsTransaction DEF Sessions, TypeOK, Transactions
  <2>2. ASSUME NEW r \in Runs, LoadTask(s, r)
        PROVE  TypeOK'
    <3>1. [Idle EXCEPT !.step = "task", !.run = r] \in Transactions
      BY <2>1 DEF Transactions
    <3>2. tx' \in [Sessions -> Transactions]
      BY <2>1, <2>2, <3>1, SessionType DEF LoadTask, Open
    <3>3. QED
      BY <2>2, <3>2 DEF LoadTask, runRows, reviewRows, TypeOK, Sessions, Transactions
  <2>3. CASE LoadResult(s)
    <3> DEFINE r == tx[s].run
               seen == (package[runOf[r]] = "submitted")
    <3>1. r \in Runs
      BY <2>3 DEF LoadResult, SessionsConsistent, GradersConsistent, TeachersConsistent
    <3>2. result[r] \in Rows /\ seen \in BOOLEAN
      BY <3>1 DEF TypeOK
    <3>3. tx' = [tx EXCEPT ![s] = [tx[s] EXCEPT !.step = "result", !.loaded = result[r],
                                                !.submitted = seen]]
      BY <2>3 DEF LoadResult, Open
    <3> HIDE DEF seen
    <3>4. [tx[s] EXCEPT !.step = "result", !.loaded = result[r], !.submitted = seen] \in Transactions
      BY <2>1, <3>2 DEF Transactions
    <3>5. tx' \in [Sessions -> Transactions]
      BY <2>1, <3>3, <3>4, SessionType
    <3>6. QED
      BY <2>3, <3>5 DEF LoadResult, runRows, reviewRows, TypeOK, Sessions, Transactions
  <2>4. CASE Refuse(s)
    <3>1. tx' \in [Sessions -> Transactions]
      BY <2>1, <2>4, SessionType DEF Refuse, Close
    <3>2. QED
      BY <2>4, <3>1 DEF Refuse, runRows, reviewRows, TypeOK, Sessions, Transactions
  <2>5. CASE Decide(s)
    <3>1. tx[s].run \in Runs
      BY <2>5 DEF Decide, Approve, AdjustScore, OverrideDetail, ReturnForRegrade, SessionsConsistent, GradersConsistent, TeachersConsistent
    <3>2. QED
      BY <2>5, <3>1, DecisionEffect, DecisionType DEF Queueing
  <2>6. QED
    BY <1>3, <2>2, <2>3, <2>4, <2>5 DEF Teach
<1>4. CASE UNCHANGED vars
  BY <1>4 DEF vars, TypeOK
<1>5. QED
  BY <1>1, <1>2, <1>3, <1>4 DEF Next

-----------------------------------------------------------------------------
(* However requests interleave                                             *)

TablesInv ==
    /\ RunsConsistent
    /\ NoResultForgotten
    /\ FinalResultHasOrigin
    /\ TotalHasAuthor

LEMMA InitTables == Init => TablesInv
BY InitType DEF Init, TablesInv, NoResult, NoResultForgotten, FinalResultHasOrigin,
                TotalHasAuthor, Decided

\* A step that leaves the tables alone.
LEMMA SameTables ==
    ASSUME TablesInv, UNCHANGED <<runStatus, runOf, answered, result, task, reviews, regrades>>
    PROVE  TablesInv' /\ \A r \in Runs : GradedTotal(r)' = GradedTotal(r)
BY DEF TablesInv, RunsConsistent, RunConsistent, NoResultForgotten, FinalResultHasOrigin,
       TotalHasAuthor, Decided, GradedTotal

\* The client of a run that has no row is told of an error.
LEMMA FailTables ==
    ASSUME TypeOK, TablesInv, SessionsConsistent, NEW s \in Graders, FailGrading(s)
    PROVE  TablesInv'
<1> DEFINE r == tx[s].run
<1>1. r \in Runs /\ runStatus[r] = "absent" /\ answered[r] = "no"
  BY DEF FailGrading, SessionsConsistent, GradersConsistent, TeachersConsistent
<1>2. answered' = [answered EXCEPT ![r] = "error"]
  BY DEF FailGrading
<1>3. UNCHANGED <<runStatus, runOf, result, task, reviews, regrades>>
  BY DEF FailGrading, reviewRows
<1>4. answered'[r] = "error" /\ \A q \in Runs \ {r} : answered'[q] = answered[q]
  BY <1>1, <1>2 DEF TypeOK
<1> HIDE DEF r
<1>5. RunsConsistent'
  <2> SUFFICES ASSUME NEW q \in Runs PROVE RunConsistent(q)'
    BY DEF RunsConsistent
  <2>1. RunConsistent(q)
    BY DEF TablesInv, RunsConsistent
  <2>2. QED
    BY <1>1, <1>3, <1>4, <2>1 DEF RunConsistent, GradedTotal
<1>6. NoResultForgotten' /\ TotalHasAuthor'
  BY <1>3 DEF TablesInv, NoResultForgotten, TotalHasAuthor
<1>7. result[r].type # "final"
  BY <1>1 DEF TablesInv, RunsConsistent, RunConsistent
<1>8. FinalResultHasOrigin'
  BY <1>1, <1>3, <1>4, <1>7 DEF TablesInv, FinalResultHasOrigin, Decided
<1>9. QED
  BY <1>5, <1>6, <1>8 DEF TablesInv

\* A run appears together with its result and, if it has one, its task.
LEMMA CommitTables ==
    ASSUME TypeOK, TablesInv, SessionsConsistent, NEW s \in Graders, NEW g \in Signals,
           CommitGrading(s, g)
    PROVE  /\ TablesInv'
           /\ \A q \in Runs \ {tx[s].run} : GradedTotal(q)' = GradedTotal(q)
<1>0. PICK r \in Runs : r = tx[s].run
  BY DEF CommitGrading, SessionsConsistent, GradersConsistent, TeachersConsistent
<1> DEFINE row == Flushed(Proposed(g), Routed(g))
           queued == TaskFor(g)
<1>1. r \in Runs /\ runStatus[r] = "absent" /\ answered[r] = "no" /\ tx[s].pkg \in Packages
  BY <1>0 DEF CommitGrading, SessionsConsistent, GradersConsistent, TeachersConsistent
<1>2. RunConsistent(r)
  BY <1>1 DEF TablesInv, RunsConsistent
<1>3. /\ task[r] = "none" /\ reviews[r] = <<>> /\ regrades[r] = Null
      /\ \A q \in Runs : regrades[q] # r
  BY <1>1, <1>2, NullPackageAssumption DEF TablesInv, RunsConsistent, RunConsistent
<1>4. \/ row.status = "finalized" /\ row.type = "final" /\ queued = "none"
      \/ row.status = "needs_review" /\ row.type = "proposed" /\ queued = "open"
  BY GradedRow
<1> HIDE DEF row, queued
<1>5. /\ runStatus' = [runStatus EXCEPT ![r] = "completed"]
      /\ runOf' = [runOf EXCEPT ![r] = tx[s].pkg]
      /\ answered' = [answered EXCEPT ![r] = "graded"]
      /\ result' = [result EXCEPT ![r] = row]
      /\ task' = [task EXCEPT ![r] = queued]
      /\ UNCHANGED <<reviews, regrades>>
  BY <1>0 DEF CommitGrading, reviewRows, row, queued
<1>6. /\ runStatus'[r] = "completed" /\ runOf'[r] = tx[s].pkg /\ answered'[r] = "graded"
      /\ result'[r] = row /\ task'[r] = queued
  BY <1>1, <1>5 DEF TypeOK
<1>7. \A q \in Runs \ {r} :
        /\ runStatus'[q] = runStatus[q] /\ runOf'[q] = runOf[q] /\ answered'[q] = answered[q]
        /\ result'[q] = result[q] /\ task'[q] = task[q]
  BY <1>5 DEF TypeOK
<1>8. \A q \in Runs \ {r} : GradedTotal(q)' = GradedTotal(q)
  BY <1>5, <1>7 DEF GradedTotal
<1>9. RunsConsistent'
  <2> SUFFICES ASSUME NEW q \in Runs PROVE RunConsistent(q)'
    BY DEF RunsConsistent
  <2>1. RunConsistent(q)
    BY DEF TablesInv, RunsConsistent
  <2>2. CASE q = r
    <3>1. GradedTotal(r)' = row.total
      BY <1>3, <1>5, <1>6 DEF GradedTotal
    <3>2. QED
      BY <1>1, <1>3, <1>4, <1>5, <1>6, <2>2, <3>1 DEF RunConsistent
  <2>3. CASE q # r
    <3>1. regrades[q] # Null => regrades[q] \in Runs \ {r}
      BY <1>3 DEF TypeOK
    <3>2. QED
      BY <1>5, <1>7, <1>8, <2>1, <2>3, <3>1 DEF RunConsistent
  <2>4. QED
    BY <2>2, <2>3
<1>10. NoResultForgotten'
  <2> SUFFICES ASSUME NEW q \in Runs, result'[q].status = "needs_review"
               PROVE  \/ task'[q] = "open"
                      \/ \E new \in Runs : /\ regrades'[new] = q
                                           /\ runStatus'[new] = "queued" /\ runOf'[new] = runOf'[q]
    BY DEF NoResultForgotten
  <2>1. CASE q = r
    BY <1>4, <1>6, <2>1
  <2>2. CASE q # r
    BY <1>1, <1>5, <1>7, <2>2 DEF TablesInv, NoResultForgotten
  <2>3. QED
    BY <2>1, <2>2
<1>11. FinalResultHasOrigin'
  <2>1. ~Decided(r)'
    BY <1>3, <1>5 DEF Decided
  <2>2. \A q \in Runs : Decided(q)' <=> Decided(q)
    BY <1>5 DEF Decided
  <2>3. QED
    BY <1>1, <1>3, <1>4, <1>5, <1>6, <1>7, <2>1, <2>2 DEF TablesInv, FinalResultHasOrigin
<1>12. TotalHasAuthor'
  BY <1>3, <1>5, <1>7 DEF TablesInv, TotalHasAuthor
<1>13. QED
  BY <1>0, <1>8, <1>9, <1>10, <1>11, <1>12 DEF TablesInv

\* What a list of reviews with one more review looks like.
LEMMA OneMoreReview ==
    ASSUME NEW list \in Seq(Reviews), NEW e \in Reviews
    PROVE  LET longer == Append(list, e) IN
           /\ longer # <<>> /\ longer \in Seq(Reviews)
           /\ Len(longer) = Len(list) + 1 /\ Len(longer) \in DOMAIN longer
           /\ longer[Len(longer)] = e
           /\ DOMAIN longer = DOMAIN list \cup {Len(longer)}
           /\ \A i \in DOMAIN list : longer[i] = list[i]
           /\ list # <<>> => 1 \in DOMAIN list
           /\ list = <<>> => longer[1] = e
<1>1. Len(list) \in Nat /\ DOMAIN list = 1 .. Len(list)
  BY LenProperties
<1>2. /\ Append(list, e) \in Seq(Reviews) /\ Len(Append(list, e)) = Len(list) + 1
      /\ \A i \in 1 .. Len(list) : Append(list, e)[i] = list[i]
      /\ Append(list, e)[Len(list) + 1] = e
  BY AppendProperties
<1>3. DOMAIN Append(list, e) = 1 .. Len(list) + 1
  BY <1>2, LenProperties
<1>4. list # <<>> => Len(list) # 0
  BY EmptySeq
<1>5. list = <<>> => Len(list) = 0
  BY EmptySeq
<1>6. Append(list, e) # <<>>
  BY <1>1, <1>2, EmptySeq
<1>7. QED
  BY <1>1, <1>2, <1>3, <1>4, <1>5, <1>6

\* The decision d and the score after it join the reviews of r.
ReviewAdded(r, d, after) ==
    /\ reviews'[r] # <<>> /\ Len(reviews'[r]) = Len(reviews[r]) + 1
    /\ DOMAIN reviews'[r] = DOMAIN reviews[r] \cup {Len(reviews'[r])}
    /\ reviews'[r][Len(reviews'[r])] = Review(d, GradedTotal(r), after)
    /\ \A i \in DOMAIN reviews[r] : reviews'[r][i] = reviews[r][i]
    /\ reviews'[r][1].before = GradedTotal(r)

SameGrades == \A q \in Runs : GradedTotal(q)' = GradedTotal(q)

\* A decision keeps the score the run gave and every earlier review.
LEMMA DecisionReviews ==
    ASSUME TypeOK, SessionsConsistent, NEW s \in Teachers, NEW r \in Runs, r = tx[s].run,
           tx[s].step = "result",
           NEW d \in Decisions, NEW after \in Scores, NEW row \in Rows,
           Decision(s, r, d, after, row)
    PROVE  ReviewAdded(r, d, after) /\ SameGrades
<1> DEFINE e == Review(d, GradedTotal(r), after)
<1>1. tx[s].loaded.total = GradedTotal(r)
  BY DEF SessionsConsistent, GradersConsistent, TeachersConsistent
<1>2. tx[s].loaded.total \in Scores /\ reviews[r] \in Seq(Reviews)
  BY DEF TypeOK, Rows, Scores, Reviews
<1>3. e \in Reviews /\ e.before = GradedTotal(r)
  BY <1>1, <1>2, ReviewType DEF Review
<1>4. reviews'[r] = Append(reviews[r], e)
  BY <1>1 DEF Decision, TypeOK
<1> HIDE DEF e
<1>5. /\ reviews'[r] # <<>> /\ Len(reviews'[r]) = Len(reviews[r]) + 1
      /\ reviews'[r][Len(reviews'[r])] = e
      /\ DOMAIN reviews'[r] = DOMAIN reviews[r] \cup {Len(reviews'[r])}
      /\ \A i \in DOMAIN reviews[r] : reviews'[r][i] = reviews[r][i]
      /\ reviews[r] # <<>> => 1 \in DOMAIN reviews[r]
      /\ reviews[r] = <<>> => reviews'[r][1] = e
  BY <1>2, <1>3, <1>4, OneMoreReview
<1>6. reviews'[r][1].before = GradedTotal(r)
  BY <1>3, <1>5 DEF GradedTotal
<1>7. ASSUME NEW q \in Runs \ {r} PROVE GradedTotal(q)' = GradedTotal(q)
  <2>1. reviews'[q] = reviews[q] /\ result'[q] = result[q]
    BY <1>7 DEF Decision, TypeOK
  <2>2. QED
    BY <2>1 DEF GradedTotal
<1>8. GradedTotal(r)' = GradedTotal(r)
  BY <1>5, <1>6 DEF GradedTotal
<1>9. QED
  BY <1>5, <1>6, <1>7, <1>8 DEF e, ReviewAdded, SameGrades

LEMMA DecisionTables ==
    ASSUME TypeOK, TablesInv, SessionsConsistent,
           NEW s \in Teachers, NEW r \in Runs, r = tx[s].run, tx[s].step = "result",
           NEW d \in Decisions, NEW after \in Scores, NEW row \in Rows,
           Decision(s, r, d, after, row),
           Queueing(d, r)
    PROVE  TablesInv'
<1> DEFINE score == GradedTotal(r)
           e == Review(d, score, after)
           last == Len(reviews'[r])
<1>1. /\ task[r] # "none" /\ tx[s].loaded.total = score
  BY DEF SessionsConsistent, GradersConsistent, TeachersConsistent
<1>2. RunConsistent(r)
  BY DEF TablesInv, RunsConsistent
<1>3. runStatus[r] = "completed" /\ answered[r] = "graded" /\ runOf[r] \in Packages
      /\ result[r].status # "absent" /\ result[r].type # "final" /\ regrades[r] = Null
  <2>1. result[r].type = "final" => task[r] = "none"
    BY DEF TablesInv, FinalResultHasOrigin
  <2>2. QED
    BY <1>1, <1>2, <2>1 DEF RunConsistent
\* the tables of the run
<1>4. /\ reviews'[r] # <<>> /\ DOMAIN reviews'[r] = DOMAIN reviews[r] \cup {last}
      /\ reviews'[r][last] = e
      /\ \A i \in DOMAIN reviews[r] : reviews'[r][i] = reviews[r][i]
      /\ \A q \in Runs : GradedTotal(q)' = GradedTotal(q)
      /\ reviews'[r][1].before = score
  <2>1. ReviewAdded(r, d, after) /\ SameGrades
    BY DecisionReviews, Zenon
  <2>2. QED
    BY <2>1 DEF ReviewAdded, SameGrades
<1>5. e.decision = d /\ e.before = score /\ e.after = after
  BY DEF Review
<1>6. /\ result'[r] = row /\ task'[r] = "completed" /\ answered' = answered
      /\ row.total = IF after = score THEN result[r].total ELSE after
      /\ d # "adjust" => after = score
      /\ d # "return_for_regrade" =>
            row.status = "finalized" /\ row.type = IF d = "approve" THEN "reviewed" ELSE "overridden"
      /\ d = "return_for_regrade" => row.status = result[r].status /\ row.type = result[r].type
  BY <1>1 DEF Decision, TypeOK
<1> HIDE DEF score, e, last
\* the tables of the other runs
<1>7. \A q \in Runs \ {r} :
        result'[q] = result[q] /\ task'[q] = task[q] /\ reviews'[q] = reviews[q]
  BY DEF Decision, TypeOK
<1>8. \/ d # "return_for_regrade" /\ NotRequeued
      \/ \E new \in Runs : d = "return_for_regrade" /\ Requeued(r, new)
  BY DEF Queueing
<1>9. ASSUME NEW new \in Runs, Requeued(r, new)
      PROVE  /\ new # r /\ runStatus[new] = "absent" /\ answered[new] = "no"
             /\ runStatus'[new] = "queued" /\ runOf'[new] = runOf[r] /\ regrades'[new] = r
             /\ \A q \in Runs \ {new} : /\ runStatus'[q] = runStatus[q] /\ runOf'[q] = runOf[q]
                                         /\ regrades'[q] = regrades[q]
  BY <1>3, <1>9 DEF Requeued, Unused, TypeOK
<1>10. /\ runStatus'[r] = "completed" /\ runOf'[r] = runOf[r] /\ regrades'[r] = Null
  BY <1>3, <1>8, <1>9 DEF NotRequeued
<1>11. RunsConsistent'
  <2> SUFFICES ASSUME NEW q \in Runs PROVE RunConsistent(q)'
    BY DEF RunsConsistent
  <2>1. RunConsistent(q) /\ GradedTotal(q)' = GradedTotal(q)
    BY <1>4 DEF TablesInv, RunsConsistent
  <2>2. CASE q = r
    <3>1. row.status # "absent"
      BY <1>3, <1>6
    <3>2. row.status = "needs_review" => row.type = "proposed" /\ row.total = score
      BY <1>2, <1>6 DEF RunConsistent, score
    <3>3. GradedTotal(r)' = score
      BY <1>4 DEF score
    <3>4. QED
      BY <1>3, <1>6, <1>10, <2>2, <3>1, <3>2, <3>3 DEF RunConsistent
  <2>3. CASE q # r
    <3>1. result'[q] = result[q] /\ task'[q] = task[q] /\ reviews'[q] = reviews[q]
      BY <1>7, <2>3
    <3>2. CASE NotRequeued
      <4>1. regrades[q] # Null => regrades[q] \in Runs /\ task'[regrades[q]] = "completed"
        <5>1. regrades[q] # Null => regrades[q] \in Runs /\ task[regrades[q]] = "completed"
          BY <2>1 DEF RunConsistent, TypeOK
        <5>2. QED
          BY <1>6, <1>7, <5>1
      <4>2. QED
        BY <1>6, <2>1, <3>1, <3>2, <4>1 DEF RunConsistent, NotRequeued
    <3>3. ASSUME NEW new \in Runs, Requeued(r, new)
          PROVE  RunConsistent(q)'
      <4>1. CASE q = new
        BY <1>3, <1>6, <1>9, <1>10, <2>1, <3>1, <3>3, <4>1 DEF RunConsistent
      <4>2. CASE q # new
        <5>1. runStatus'[q] = runStatus[q] /\ runOf'[q] = runOf[q] /\ regrades'[q] = regrades[q]
          BY <1>9, <3>3, <4>2
        <5>2. regrades[q] # Null =>
                /\ regrades[q] \in Runs /\ runStatus[regrades[q]] = "completed"
                /\ task[regrades[q]] = "completed"
          BY <2>1 DEF RunConsistent, TypeOK
        <5>3. regrades[q] # Null =>
                /\ runStatus'[regrades[q]] = "completed" /\ task'[regrades[q]] = "completed"
                /\ runOf'[regrades[q]] = runOf[regrades[q]]
          BY <1>6, <1>7, <1>9, <3>3, <5>2
        <5>4. QED
          BY <1>6, <2>1, <3>1, <5>1, <5>3 DEF RunConsistent
      <4>3. QED
        BY <4>1, <4>2
    <3>4. QED
      BY <1>8, <3>2, <3>3
  <2>4. QED
    BY <2>2, <2>3
<1>12. NoResultForgotten'
  <2> SUFFICES ASSUME NEW q \in Runs, result'[q].status = "needs_review", task'[q] # "open"
               PROVE  \E new \in Runs : /\ regrades'[new] = q /\ runStatus'[new] = "queued"
                                        /\ runOf'[new] = runOf'[q]
    BY DEF NoResultForgotten
  <2>1. CASE q = r
    <3>1. d = "return_for_regrade"
      BY <1>6, <2>1
    <3>2. QED
      BY <1>8, <1>9, <1>10, <2>1, <3>1
  <2>2. CASE q # r
    <3>1. PICK new \in Runs : /\ regrades[new] = q /\ runStatus[new] = "queued"
                              /\ runOf[new] = runOf[q]
      BY <1>7, <2>2 DEF TablesInv, NoResultForgotten
    <3>2. runStatus[q] = "completed"
      BY <1>7, <2>2 DEF TablesInv, RunsConsistent, RunConsistent
    <3>3. CASE NotRequeued
      BY <3>1, <3>3 DEF NotRequeued
    <3>4. ASSUME NEW other \in Runs, Requeued(r, other)
          PROVE  regrades'[new] = q /\ runStatus'[new] = "queued" /\ runOf'[new] = runOf'[q]
      BY <1>9, <3>1, <3>2, <3>4
    <3>5. QED
      BY <1>8, <3>3, <3>4
  <2>3. QED
    BY <2>1, <2>2
<1>13. FinalResultHasOrigin'
  <2> SUFFICES ASSUME NEW q \in Runs
               PROVE  /\ task'[q] = "completed" <=> reviews'[q] # <<>>
                      /\ result'[q].status = "finalized" <=> result'[q].type = "final" \/ Decided(q)'
                      /\ result'[q].type = "final" => task'[q] = "none" /\ answered'[q] = "graded"
                      /\ result'[q].type = "reviewed" =>
                            \E i \in DOMAIN reviews'[q] : reviews'[q][i].decision = "approve"
                      /\ result'[q].type = "overridden" =>
                            \E i \in DOMAIN reviews'[q] : reviews'[q][i].decision \in {"adjust", "override"}
    BY DEF FinalResultHasOrigin
  <2>1. CASE q = r
    <3>1. Decided(r)' <=> Decided(r) \/ d # "return_for_regrade"
      BY <1>4, <1>5 DEF Decided
    <3>2. result[r].status = "finalized" <=> Decided(r)
      BY <1>3 DEF TablesInv, FinalResultHasOrigin
    <3>3. row.type # "final"
      BY <1>3, <1>6
    <3>4. result'[r].status = "finalized" <=> Decided(r)'
      BY <1>6, <3>1, <3>2
    <3>5. row.type = "reviewed" => \E i \in DOMAIN reviews'[r] : reviews'[r][i].decision = "approve"
      <4>1. CASE d = "approve"
        BY <1>4, <1>5, <4>1
      <4>2. CASE d # "approve"
        BY <1>4, <1>6, <4>2 DEF TablesInv, FinalResultHasOrigin
      <4>3. QED
        BY <4>1, <4>2
    <3>6. row.type = "overridden" =>
             \E i \in DOMAIN reviews'[r] : reviews'[r][i].decision \in {"adjust", "override"}
      <4>1. CASE d \in {"adjust", "override"}
        BY <1>4, <1>5, <4>1
      <4>2. CASE d \notin {"adjust", "override"}
        BY <1>4, <1>6, <4>2 DEF TablesInv, FinalResultHasOrigin, Decisions
      <4>3. QED
        BY <4>1, <4>2
    <3>7. QED
      BY <1>4, <1>6, <2>1, <3>3, <3>4, <3>5, <3>6
  <2>2. CASE q # r
    <3>1. Decided(q)' <=> Decided(q)
      BY <1>7, <2>2 DEF Decided
    <3>2. QED
      BY <1>6, <1>7, <2>2, <3>1 DEF TablesInv, FinalResultHasOrigin
  <2>3. QED
    BY <2>1, <2>2
<1>14. TotalHasAuthor'
  <2> SUFFICES ASSUME NEW q \in Runs, reviews'[q] # <<>>
               PROVE  /\ \A i \in DOMAIN reviews'[q] : reviews'[q][i].before = reviews'[q][1].before
                      /\ \/ result'[q].total = reviews'[q][1].before
                         \/ \E i \in DOMAIN reviews'[q] : /\ reviews'[q][i].decision = "adjust"
                                                           /\ result'[q].total = reviews'[q][i].after
    BY DEF TotalHasAuthor
  <2>1. CASE q = r
    <3>1. \A i \in DOMAIN reviews[r] : reviews[r][i].before = score
      <4> SUFFICES ASSUME NEW i \in DOMAIN reviews[r] PROVE reviews[r][i].before = score
        OBVIOUS
      <4>1. reviews[r] # <<>>
        BY EmptySeq
      <4>2. QED
        BY <4>1 DEF TablesInv, TotalHasAuthor, GradedTotal, score
    <3>2. \/ result[r].total = score
          \/ \E i \in DOMAIN reviews[r] : /\ reviews[r][i].decision = "adjust"
                                           /\ result[r].total = reviews[r][i].after
      BY DEF TablesInv, TotalHasAuthor, GradedTotal, score
    <3>3. \A i \in DOMAIN reviews'[r] : reviews'[r][i].before = score
      BY <1>4, <1>5, <3>1
    <3>4. \/ row.total = score
          \/ \E i \in DOMAIN reviews'[r] : /\ reviews'[r][i].decision = "adjust"
                                            /\ row.total = reviews'[r][i].after
      <4>1. CASE after = score
        BY <1>4, <1>6, <3>2, <4>1, ZenonT(30)
      <4>2. CASE after # score
        BY <1>4, <1>5, <1>6, <4>2
      <4>3. QED
        BY <4>1, <4>2
    <3>5. QED
      BY <1>4, <1>6, <2>1, <3>3, <3>4
  <2>2. CASE q # r
    BY <1>7, <2>2 DEF TablesInv, TotalHasAuthor
  <2>3. QED
    BY <2>1, <2>2
<1>15. QED
  BY <1>11, <1>12, <1>13, <1>14 DEF TablesInv

-----------------------------------------------------------------------------
(* Open requests                                                           *)

\* The steps of other requests do not touch the rows a grading request relies on.
LEMMA GradersKept ==
    ASSUME GradersConsistent,
           \A t \in Graders :
              \/ tx'[t] = Idle
              \/ /\ tx'[t] = tx[t]
                 /\ tx[t].step = "grading" =>
                      /\ runStatus'[tx[t].run] = runStatus[tx[t].run]
                      /\ answered'[tx[t].run] = answered[tx[t].run]
    PROVE  GradersConsistent'
<1>1. \A t \in Graders : tx'[t] = Idle => tx'[t].step = "idle" /\ tx'[t].run = Null
  BY DEF Idle
<1>2. QED
  BY <1>1 DEF GradersConsistent

\* Nor those a teacher's request relies on: a task stays, and so does the score
\* of the run.
LEMMA TeachersKept ==
    ASSUME TeachersConsistent,
           \A t \in Teachers :
              \/ tx'[t] = Idle
              \/ /\ tx'[t] = tx[t]
                 /\ tx[t].step # "idle" =>
                      /\ task'[tx[t].run] # "none"
                      /\ GradedTotal(tx[t].run)' = GradedTotal(tx[t].run)
    PROVE  TeachersConsistent'
<1> SUFFICES ASSUME NEW t \in Teachers
             PROVE  /\ tx'[t].step \in {"idle", "task", "result"}
                    /\ tx'[t].step # "idle" => tx'[t].run \in Runs /\ task'[tx'[t].run] # "none"
                    /\ tx'[t].step = "result" => tx'[t].loaded.total = GradedTotal(tx[t].run)'
  BY DEF TeachersConsistent
<1>1. CASE tx'[t] = Idle
  BY <1>1 DEF Idle
<1>2. CASE tx'[t] = tx[t] /\ tx'[t] # Idle
  BY <1>2 DEF TeachersConsistent
<1>3. QED
  BY <1>1, <1>2

LEMMA GraderSessions ==
    ASSUME TypeOK, TablesInv, SessionsConsistent, NEW s \in Graders, Grade(s)
    PROVE  SessionsConsistent'
<1>1. s \notin Teachers /\ s \in Sessions /\ \A t \in Graders \cup Teachers : t \in Sessions
  BY SessionsAssumption DEF Sessions
<1>2. tx \in [Sessions -> Transactions]
  BY DEF TypeOK, Sessions, Transactions
<1>3. ASSUME NEW p \in Packages, NEW r \in Runs, BeginGrading(s, p, r)
      PROVE  SessionsConsistent'
  <2> DEFINE begun == [Idle EXCEPT !.step = "grading", !.run = r, !.pkg = p]
  <2>1. begun.step = "grading" /\ begun.run = r /\ begun.pkg = p
    BY DEF Idle
  <2>2. tx' = [tx EXCEPT ![s] = begun]
    BY <1>3 DEF BeginGrading, Open
  <2> HIDE DEF begun
  <2>3. tx'[s] = begun /\ \A t \in Sessions \ {s} : tx'[t] = tx[t]
    BY <1>1, <1>2, <2>2
  <2>4. /\ UNCHANGED <<runStatus, answered, task>> /\ \A q \in Runs : GradedTotal(q)' = GradedTotal(q)
        /\ runStatus[r] = "absent" /\ answered[r] = "no"
        /\ \A t \in Graders : tx[t].run # r
    BY <1>3, SameTables DEF BeginGrading, Unused
  <2>5. GradersConsistent'
    BY <1>1, <2>1, <2>3, <2>4 DEF SessionsConsistent, GradersConsistent
  <2>6. \A t \in Teachers : tx'[t] = tx[t]
    BY <1>1, <2>3
  <2>7. TeachersConsistent'
    <3> SUFFICES ASSUME NEW t \in Teachers, tx[t].step # "idle"
                 PROVE  task'[tx[t].run] # "none" /\ GradedTotal(tx[t].run)' = GradedTotal(tx[t].run)
      BY <2>6, TeachersKept DEF SessionsConsistent
    <3>1. tx[t].run \in Runs /\ task[tx[t].run] # "none"
      BY DEF SessionsConsistent, TeachersConsistent
    <3>2. QED
      BY <2>4, <2>6, <3>1 DEF GradedTotal
  <2>8. QED
    BY <2>5, <2>7 DEF SessionsConsistent
<1>4. ASSUME \/ \E g \in Signals : CommitGrading(s, g)
             \/ FailGrading(s)
      PROVE  SessionsConsistent'
  <2>1. PICK r \in Runs : r = tx[s].run
    BY <1>4 DEF CommitGrading, FailGrading, SessionsConsistent, GradersConsistent
  <2>2. runStatus[r] = "absent" /\ r # Null
    BY <1>4, <2>1, NullPackageAssumption
    DEF CommitGrading, FailGrading, SessionsConsistent, GradersConsistent
  <2>3. task[r] = "none"
    BY <2>2 DEF TablesInv, RunsConsistent, RunConsistent
  <2>4. tx'[s] = Idle /\ \A t \in Sessions \ {s} : tx'[t] = tx[t]
    BY <1>1, <1>2, <1>4 DEF CommitGrading, FailGrading, Close
  <2>5. \A q \in Runs \ {r} :
          /\ runStatus'[q] = runStatus[q] /\ answered'[q] = answered[q] /\ task'[q] = task[q]
          /\ result'[q] = result[q] /\ reviews'[q] = reviews[q]
    BY <1>4, <2>1 DEF CommitGrading, FailGrading, reviewRows, TypeOK
  <2>6. \A t \in Graders \ {s} : tx[t].run # r
    BY <2>1, <2>2 DEF SessionsConsistent, GradersConsistent
  <2>7. GradersConsistent'
    BY <1>1, <2>4, <2>5, <2>6, GradersKept DEF SessionsConsistent, GradersConsistent
  <2>8. \A t \in Teachers : tx'[t] = tx[t]
    BY <1>1, <2>4
  <2>9. TeachersConsistent'
    <3> SUFFICES ASSUME NEW t \in Teachers, tx[t].step # "idle"
                 PROVE  task'[tx[t].run] # "none" /\ GradedTotal(tx[t].run)' = GradedTotal(tx[t].run)
      BY <2>8, TeachersKept DEF SessionsConsistent
    <3>1. tx[t].run \in Runs /\ task[tx[t].run] # "none"
      BY DEF SessionsConsistent, TeachersConsistent
    <3>2. tx[t].run \in Runs \ {r}
      BY <2>3, <3>1
    <3>3. QED
      BY <2>5, <2>8, <3>1, <3>2 DEF GradedTotal
  <2>10. QED
    BY <2>7, <2>9 DEF SessionsConsistent
<1>5. QED
  BY <1>3, <1>4 DEF Grade

LEMMA TeacherSessions ==
    ASSUME TypeOK, TablesInv, SessionsConsistent, NEW s \in Teachers, Teach(s)
    PROVE  SessionsConsistent'
<1>1. s \notin Graders /\ s \in Sessions /\ \A t \in Graders \cup Teachers : t \in Sessions
  BY SessionsAssumption DEF Sessions
<1>2. tx \in [Sessions -> Transactions]
  BY DEF TypeOK, Sessions, Transactions
<1>3. ASSUME NEW t \in Transactions, tx' = [tx EXCEPT ![s] = t],
             t.step \in {"task", "result"} => t.run \in Runs /\ task[t.run] # "none",
             t.step = "result" => t.loaded.total = GradedTotal(t.run),
             t.step # "grading",
             UNCHANGED <<runStatus, answered, result, task, reviews>>
      PROVE  SessionsConsistent'
  <2>1. tx'[s] = t /\ \A u \in Sessions \ {s} : tx'[u] = tx[u]
    BY <1>1, <1>2, <1>3
  <2>2. \A u \in Graders : tx'[u] = tx[u]
    BY <1>1, <2>1
  <2>3. GradersConsistent'
    BY <1>3, <2>2, GradersKept DEF SessionsConsistent
  <2>4. QED
    BY <1>1, <1>3, <2>1, <2>3 DEF SessionsConsistent, TeachersConsistent, GradedTotal, Transactions
<1>4. ASSUME NEW r \in Runs, LoadTask(s, r)
      PROVE  SessionsConsistent'
  <2> DEFINE loading == [Idle EXCEPT !.step = "task", !.run = r]
  <2>1. loading \in Transactions /\ loading.step = "task" /\ loading.run = r
    <3>1. loading.step = "task" /\ loading.run = r
      BY DEF Idle
    <3>2. QED
      BY <3>1, IdleIsTransaction DEF Transactions
  <2>2. tx' = [tx EXCEPT ![s] = loading] /\ task[r] = "open"
    BY <1>4 DEF LoadTask, Open
  <2>3. UNCHANGED <<runStatus, answered, result, task, reviews>>
    BY <1>4 DEF LoadTask, runRows, reviewRows
  <2> HIDE DEF loading
  <2>4. QED
    BY <1>3, <2>1, <2>2, <2>3
<1>5. ASSUME LoadResult(s)
      PROVE  SessionsConsistent'
  <2>1. PICK r \in Runs : r = tx[s].run
    BY <1>5 DEF LoadResult, SessionsConsistent, TeachersConsistent
  <2> DEFINE seen == (package[runOf[r]] = "submitted")
             loaded == [tx[s] EXCEPT !.step = "result", !.loaded = result[r], !.submitted = seen]
  <2>2. tx[s] \in Transactions /\ result[r] \in Rows /\ seen \in BOOLEAN
    BY <1>1, <1>2 DEF TypeOK
  <2>3. tx' = [tx EXCEPT ![s] = loaded] /\ result[r].status = "needs_review" /\ tx[s].step = "task"
    BY <1>5, <2>1 DEF LoadResult, Open
  <2>4. UNCHANGED <<runStatus, answered, result, task, reviews>>
    BY <1>5 DEF LoadResult, runRows, reviewRows
  <2> HIDE DEF seen
  <2>5. /\ loaded \in Transactions /\ loaded.step = "result" /\ loaded.run = r
        /\ loaded.loaded = result[r]
    BY <2>1, <2>2 DEF Transactions
  <2>6. result[r].total = GradedTotal(r) /\ task[r] # "none"
    BY <2>3 DEF TablesInv, RunsConsistent, RunConsistent
  <2> HIDE DEF loaded
  <2>7. QED
    BY <1>3, <2>3, <2>4, <2>5, <2>6
<1>6. ASSUME Refuse(s)
      PROVE  SessionsConsistent'
  <2>1. Idle \in Transactions /\ Idle.step = "idle"
    BY IdleIsTransaction DEF Idle
  <2>2. tx' = [tx EXCEPT ![s] = Idle] /\ UNCHANGED <<runStatus, answered, result, task, reviews>>
    BY <1>6 DEF Refuse, Close, runRows, reviewRows
  <2>3. QED
    BY <1>3, <2>1, <2>2
<1>7. ASSUME Decide(s)
      PROVE  SessionsConsistent'
  <2>1. PICK r \in Runs : r = tx[s].run
    BY <1>7 DEF Decide, Approve, AdjustScore, OverrideDetail, ReturnForRegrade,
                SessionsConsistent, TeachersConsistent
  <2>2. PICK d \in Decisions, after \in Scores, row \in Rows :
          /\ tx[s].step = "result"
          /\ Decision(s, r, d, after, row)
          /\ Queueing(d, r)
    BY <1>7, <2>1, DecisionEffect
  <2>3. SameGrades
    BY <2>1, <2>2, DecisionReviews
  <2>4. tx'[s] = Idle /\ \A t \in Sessions \ {s} : tx'[t] = tx[t]
    BY <1>1, <1>2, <2>2 DEF Decision
  <2>5. answered' = answered /\ \A q \in Runs : task[q] # "none" => task'[q] # "none"
    BY <2>2 DEF Decision, TypeOK
  <2>6. \/ runStatus' = runStatus
        \/ \E new \in Runs : /\ \A t \in Graders : tx[t].run # new
                             /\ \A q \in Runs \ {new} : runStatus'[q] = runStatus[q]
    BY <2>2 DEF Queueing, NotRequeued, Requeued, Unused, TypeOK
  <2>7. \A t \in Graders : tx[t].step = "grading" =>
          tx[t].run \in Runs /\ runStatus'[tx[t].run] = runStatus[tx[t].run]
    BY <2>6 DEF SessionsConsistent, GradersConsistent
  <2>8. GradersConsistent'
    BY <1>1, <2>4, <2>5, <2>7, GradersKept DEF SessionsConsistent
  <2>9. TeachersConsistent'
    <3>1. ASSUME NEW t \in Teachers, t # s, tx[t].step # "idle"
          PROVE  task'[tx[t].run] # "none" /\ GradedTotal(tx[t].run)' = GradedTotal(tx[t].run)
      <4>1. PICK q \in Runs : q = tx[t].run
        BY <3>1 DEF SessionsConsistent, TeachersConsistent
      <4>2. tx'[t] = tx[t]
        BY <1>1, <2>4, <3>1
      <4>3. task'[q] # "none" /\ GradedTotal(q)' = GradedTotal(q)
        BY <2>3, <2>5, <3>1, <4>1 DEF SessionsConsistent, TeachersConsistent, SameGrades
      <4>4. QED
        BY <4>1, <4>2, <4>3 DEF GradedTotal
    <3>2. QED
      BY <1>1, <2>4, <3>1, TeachersKept DEF SessionsConsistent
  <2>10. QED
    BY <2>8, <2>9 DEF SessionsConsistent
<1>8. QED
  BY <1>4, <1>5, <1>6, <1>7 DEF Teach

-----------------------------------------------------------------------------
(* The invariant                                                           *)

LEMMA TablesStep ==
    ASSUME ReviewInv, [Next]_vars
    PROVE  TablesInv'
<1>1. TypeOK /\ TablesInv /\ SessionsConsistent
  BY DEF ReviewInv, TablesInv
<1>2. ASSUME NEW s \in Graders, Grade(s)
      PROVE  TablesInv'
  <2>1. CASE \E p \in Packages, r \in Runs : BeginGrading(s, p, r)
    BY <1>1, <2>1, SameTables DEF BeginGrading
  <2>2. CASE \E g \in Signals : CommitGrading(s, g)
    BY <1>1, <2>2, CommitTables
  <2>3. CASE FailGrading(s)
    BY <1>1, <2>3, FailTables
  <2>4. QED
    BY <1>2, <2>1, <2>2, <2>3 DEF Grade
<1>3. ASSUME NEW s \in Teachers, Teach(s)
      PROVE  TablesInv'
  <2>1. CASE \/ \E r \in Runs : LoadTask(s, r)
             \/ LoadResult(s)
             \/ Refuse(s)
    <3>1. UNCHANGED <<runStatus, runOf, answered, result, task, reviews, regrades>>
      BY <2>1 DEF LoadTask, LoadResult, Refuse, runRows, reviewRows
    <3>2. QED
      BY <1>1, <3>1, SameTables
  <2>2. CASE Decide(s)
    <3>1. PICK r \in Runs : r = tx[s].run
      BY <1>1, <2>2 DEF Decide, Approve, AdjustScore, OverrideDetail, ReturnForRegrade,
                        SessionsConsistent, TeachersConsistent
    <3>2. PICK d \in Decisions, after \in Scores, row \in Rows :
            /\ tx[s].step = "result"
            /\ Decision(s, r, d, after, row)
            /\ Queueing(d, r)
      BY <1>1, <2>2, <3>1, DecisionEffect
    <3>3. QED
      BY <1>1, <3>1, <3>2, DecisionTables
  <2>3. QED
    BY <1>3, <2>1, <2>2 DEF Teach
<1>4. CASE \E p \in Packages : RetirePackage(p)
  BY <1>1, <1>4, SameTables DEF RetirePackage
<1>5. CASE UNCHANGED vars
  BY <1>1, <1>5, SameTables DEF vars
<1>6. QED
  BY <1>2, <1>3, <1>4, <1>5 DEF Next

LEMMA SessionsStep ==
    ASSUME ReviewInv, [Next]_vars
    PROVE  SessionsConsistent'
<1>1. TypeOK /\ TablesInv /\ SessionsConsistent
  BY DEF ReviewInv, TablesInv
<1>2. CASE (\E p \in Packages : RetirePackage(p)) \/ UNCHANGED vars
  <2>1. UNCHANGED <<runStatus, runOf, answered, result, task, reviews, regrades, tx>>
    BY <1>2 DEF RetirePackage, vars
  <2>2. QED
    BY <1>1, <2>1 DEF SessionsConsistent, GradersConsistent, TeachersConsistent, GradedTotal
<1>3. CASE \E s \in Graders : Grade(s)
  BY <1>1, <1>3, GraderSessions
<1>4. CASE \E s \in Teachers : Teach(s)
  BY <1>1, <1>4, TeacherSessions
<1>5. QED
  BY <1>2, <1>3, <1>4 DEF Next

LEMMA InitInv == Init => ReviewInv
BY InitType, InitTables DEF ReviewInv, TablesInv

LEMMA InvStep == ReviewInv /\ [Next]_vars => ReviewInv'
<1> SUFFICES ASSUME ReviewInv, [Next]_vars PROVE ReviewInv'
  OBVIOUS
<1>1. TypeOK'
  BY TypeStep DEF ReviewInv
<1>2. TablesInv' /\ SessionsConsistent'
  BY TablesStep, SessionsStep
<1>3. QED
  BY <1>1, <1>2 DEF ReviewInv, TablesInv

\* However requests interleave, the rows of a run agree with each other, and an
\* open request knows the score of the run it is about.
THEOREM ReviewInvariant == Spec => []ReviewInv
BY InitInv, InvStep, PTL DEF Spec

\* Every column of the review tables, and every row a session holds, has the
\* values the schema and the services give it.
THEOREM ReviewTypeCorrect == Spec => []TypeOK
<1>1. ReviewInv => TypeOK
  BY DEF ReviewInv
<1>2. QED
  BY <1>1, ReviewInvariant, PTL

\* However the requests of graders and teachers interleave, no result that
\* needs review drops out of the queue without a queued regrade, every final
\* result names its origin, and every score comes from the run or a teacher.
THEOREM ReviewSafe == Spec => [](NoResultForgotten /\ FinalResultHasOrigin /\ TotalHasAuthor)
<1>1. ReviewInv => NoResultForgotten /\ FinalResultHasOrigin /\ TotalHasAuthor
  BY DEF ReviewInv
<1>2. QED
  BY <1>1, ReviewInvariant, PTL

-----------------------------------------------------------------------------
(* When teachers' requests run one after the other                         *)

DecisionsShown ==
    /\ OneDecisionPerTask
    /\ HistoryComplete
    /\ ResultShowsDecision

LEMMA SameShown ==
    ASSUME DecisionsShown, UNCHANGED <<result, reviews, regrades>>
    PROVE  DecisionsShown'
BY DEF DecisionsShown, OneDecisionPerTask, HistoryComplete, ResultShowsDecision, Returned

\* What a teacher's request loaded is still there if its run is left alone.
LEMMA CurrentKept ==
    ASSUME TeacherIsCurrent,
           \A t \in Teachers :
              /\ tx'[t] = tx[t]
              /\ tx[t].step # "idle" =>
                   task'[tx[t].run] = task[tx[t].run] /\ result'[tx[t].run] = result[tx[t].run]
    PROVE  TeacherIsCurrent'
BY DEF TeacherIsCurrent

LEMMA EmptyHistory == [i \in DOMAIN << >> |-> i] = << >>
OBVIOUS

LEMMA FirstHistory ==
    ASSUME NEW list \in Seq(Reviews), Len(list) = 1
    PROVE  Append(<< >>, 1) = [i \in DOMAIN list |-> i]
<1>1. DOMAIN list = 1 .. 1
  BY LenProperties
<1>2. Append(<< >>, 1) = [i \in 1 .. 1 |-> i]
  OBVIOUS
<1>3. QED
  BY <1>1, <1>2

LEMMA CommitShown ==
    ASSUME ReviewInv, SerialInv, NEW s \in Graders, NEW g \in Signals, CommitGrading(s, g)
    PROVE  SerialInv'
<1>0. PICK r \in Runs : r = tx[s].run
  BY DEF CommitGrading, ReviewInv, SessionsConsistent, GradersConsistent
<1> DEFINE row == Flushed(Proposed(g), Routed(g))
<1>1. task[r] = "none" /\ reviews[r] = << >>
  BY <1>0 DEF CommitGrading, ReviewInv, SessionsConsistent, GradersConsistent,
              RunsConsistent, RunConsistent
<1>2. row.history = << >>
  BY GradedRow
<1> HIDE DEF row
<1>3. result'[r] = row /\ \A q \in Runs \ {r} : result'[q] = result[q] /\ task'[q] = task[q]
  BY <1>0 DEF CommitGrading, ReviewInv, TypeOK, row
<1>4. UNCHANGED <<reviews, regrades>>
  BY DEF CommitGrading, reviewRows
<1>5. OneDecisionPerTask' /\ ResultShowsDecision'
  BY <1>1, <1>3, <1>4 DEF SerialInv, OneDecisionPerTask, ResultShowsDecision, Returned
<1>6. HistoryComplete'
  <2>1. result'[r].history = [i \in DOMAIN reviews'[r] |-> i]
    BY <1>1, <1>2, <1>3, <1>4, EmptyHistory
  <2>2. QED
    BY <1>3, <1>4, <2>1 DEF SerialInv, HistoryComplete
<1>7. TeacherIsCurrent'
  <2>1. \A t \in Teachers : tx'[t] = tx[t]
    BY SessionsAssumption DEF CommitGrading, Close, ReviewInv, TypeOK
  <2>2. \A t \in Teachers : tx[t].step # "idle" => tx[t].run \in Runs \ {r}
    BY <1>1 DEF ReviewInv, SessionsConsistent, TeachersConsistent
  <2>3. QED
    BY <1>3, <2>1, <2>2, CurrentKept DEF SerialInv
<1>8. QED
  BY <1>5, <1>6, <1>7 DEF SerialInv

LEMMA DecisionShown ==
    ASSUME OneTeacher, ReviewInv, SerialInv,
           NEW s \in Teachers, NEW r \in Runs, r = tx[s].run, tx[s].step = "result",
           NEW d \in Decisions, NEW after \in Scores, NEW row \in Rows,
           Decision(s, r, d, after, row), Queueing(d, r), TypeOK'
    PROVE  SerialInv'
<1>1. task[r] = "open" /\ tx[s].loaded = result[r]
  BY DEF SerialInv, TeacherIsCurrent
<1>2. RunConsistent(r)
  BY DEF ReviewInv, RunsConsistent
<1>3. reviews[r] = << >> /\ result[r].type = "proposed"
  BY <1>1, <1>2 DEF RunConsistent
\* the first and only review
<1>4. ReviewAdded(r, d, after)
  BY DecisionReviews DEF ReviewInv
<1>5. Len(reviews'[r]) = 1 /\ reviews'[r] \in Seq(Reviews)
  <2>1. Len(reviews[r]) = 0
    BY <1>3, EmptySeq
  <2>2. Len(reviews'[r]) = Len(reviews[r]) + 1
    BY <1>4 DEF ReviewAdded
  <2>3. reviews' \in [Runs -> Seq(Reviews)]
    BY DEF TypeOK, Reviews
  <2>4. QED
    BY <2>1, <2>2, <2>3
<1>6. reviews'[r][Len(reviews'[r])] = Review(d, GradedTotal(r), after)
  BY <1>4 DEF ReviewAdded
<1>7. /\ result'[r] = row /\ row.history = HistoryWith(s)
      /\ row.total = after
      /\ row.type = CASE d = "approve" -> "reviewed"
                      [] d = "return_for_regrade" -> "proposed"
                      [] OTHER -> "overridden"
  BY <1>1, <1>3 DEF Decision, ReviewInv, TypeOK, Decisions
<1>8. \A q \in Runs \ {r} :
        result'[q] = result[q] /\ reviews'[q] = reviews[q]
  BY DEF Decision, ReviewInv, TypeOK
<1>9. OneDecisionPerTask'
  <2>1. \A q \in Runs \ {r} : Len(reviews'[q]) <= 1
    BY <1>8 DEF SerialInv, OneDecisionPerTask
  <2>2. Len(reviews'[r]) <= 1
    BY <1>5
  <2>3. QED
    BY <2>1, <2>2 DEF OneDecisionPerTask
<1>10. HistoryComplete'
  <2>1. result[r].history = << >>
    BY <1>3, EmptyHistory DEF SerialInv, HistoryComplete
  <2>2. HistoryWith(s) = Append(<< >>, 1)
    BY <1>1, <1>3, <2>1 DEF HistoryWith
  <2>3. result'[r].history = [i \in DOMAIN reviews'[r] |-> i]
    BY <1>5, <1>7, <2>2, FirstHistory
  <2>4. QED
    BY <1>8, <2>3 DEF SerialInv, HistoryComplete
<1>11. Returned(r)' <=> d = "return_for_regrade"
  <2>1. ~Returned(r)
    BY <1>1, NullPackageAssumption DEF Returned, ReviewInv, RunsConsistent, RunConsistent
  <2>2. CASE d = "return_for_regrade"
    <3>1. PICK new \in Runs : Requeued(r, new)
      BY <2>2 DEF Queueing
    <3>2. regrades'[new] = r
      BY <3>1 DEF Requeued, ReviewInv, TypeOK
    <3>3. QED
      BY <2>2, <3>2 DEF Returned
  <2>3. CASE d # "return_for_regrade"
    BY <2>1, <2>3 DEF Queueing, NotRequeued, Returned
  <2>4. QED
    BY <2>2, <2>3
<1>12. \A q \in Runs \ {r} : Returned(q)' <=> Returned(q)
  <2>1. CASE NotRequeued
    BY <2>1 DEF NotRequeued, Returned
  <2>2. ASSUME NEW new \in Runs, Requeued(r, new)
        PROVE  \A q \in Runs \ {r} : Returned(q)' <=> Returned(q)
    <3>1. regrades[new] = Null
      BY <2>2 DEF Requeued, Unused, ReviewInv, RunsConsistent, RunConsistent
    <3>2. regrades'[new] = r /\ \A p \in Runs \ {new} : regrades'[p] = regrades[p]
      BY <2>2 DEF Requeued, ReviewInv, TypeOK
    <3>3. QED
      BY <3>1, <3>2, NullPackageAssumption DEF Returned
  <2>3. QED
    BY <2>1, <2>2 DEF Queueing
<1>13. ResultShowsDecision'
  <2> SUFFICES ASSUME NEW q \in Runs, reviews'[q] # << >>
               PROVE  LET last == reviews'[q][Len(reviews'[q])] IN
                      /\ result'[q].total = last.after
                      /\ result'[q].type = CASE last.decision = "approve" -> "reviewed"
                                             [] last.decision = "return_for_regrade" -> "proposed"
                                             [] OTHER -> "overridden"
                      /\ last.decision = "return_for_regrade" <=> Returned(q)'
    BY DEF ResultShowsDecision
  <2>1. CASE q = r
    <3>1. /\ Review(d, GradedTotal(r), after).decision = d
          /\ Review(d, GradedTotal(r), after).after = after
      BY DEF Review
    <3>2. QED
      BY <1>6, <1>7, <1>11, <2>1, <3>1
  <2>2. CASE q # r
    BY <1>8, <1>12, <2>2 DEF SerialInv, ResultShowsDecision
  <2>3. QED
    BY <2>1, <2>2
<1>14. TeacherIsCurrent'
  <2>1. tx'[s] = Idle /\ \A t \in Teachers : t = s
    BY DEF Decision, ReviewInv, TypeOK, OneTeacher
  <2>2. Idle.step = "idle"
    BY DEF Idle
  <2>3. QED
    BY <2>1, <2>2 DEF TeacherIsCurrent
<1>15. QED
  BY <1>9, <1>10, <1>13, <1>14 DEF SerialInv

LEMMA SerialStep ==
    ASSUME OneTeacher, ReviewInv, SerialInv, [Next]_vars
    PROVE  SerialInv'
<1> USE DEF ReviewInv
<1>1. DecisionsShown /\ TeacherIsCurrent
  BY DEF SerialInv, DecisionsShown
<1>2. DecisionsShown' /\ TeacherIsCurrent' => SerialInv'
  BY DEF SerialInv, DecisionsShown
<1>3. CASE (\E p \in Packages : RetirePackage(p)) \/ UNCHANGED vars
  <2>1. UNCHANGED <<result, reviews, regrades, task, tx>>
    BY <1>3 DEF RetirePackage, vars
  <2>2. QED
    BY <1>1, <1>2, <2>1, SameShown, CurrentKept
<1>4. ASSUME NEW s \in Graders, Grade(s)
      PROVE  SerialInv'
  <2>1. CASE \E g \in Signals : CommitGrading(s, g)
    BY <2>1, CommitShown
  <2>2. CASE (\E p \in Packages, r \in Runs : BeginGrading(s, p, r)) \/ FailGrading(s)
    <3>1. UNCHANGED <<result, reviews, regrades, task>>
      BY <2>2 DEF BeginGrading, FailGrading, reviewRows
    <3>2. \A t \in Teachers : tx'[t] = tx[t]
      BY <2>2, SessionsAssumption DEF BeginGrading, FailGrading, Open, Close, TypeOK
    <3>3. QED
      BY <1>1, <1>2, <3>1, <3>2, SameShown, CurrentKept
  <2>3. QED
    BY <1>4, <2>1, <2>2 DEF Grade
<1>5. ASSUME NEW s \in Teachers, Teach(s)
      PROVE  SerialInv'
  <2>1. \A t \in Teachers : t = s
    BY DEF OneTeacher
  <2>2. ASSUME UNCHANGED <<result, reviews, regrades, task>>,
               tx'[s].step # "idle" => task[tx'[s].run] = "open",
               tx'[s].step = "result" => tx'[s].loaded = result[tx'[s].run]
        PROVE  SerialInv'
    <3>1. DecisionsShown'
      BY <1>1, <2>2, SameShown
    <3>2. TeacherIsCurrent'
      BY <2>1, <2>2 DEF TeacherIsCurrent
    <3>3. QED
      BY <1>2, <3>1, <3>2
  <2>3. ASSUME NEW r \in Runs, LoadTask(s, r)
        PROVE  SerialInv'
    <3>1. tx'[s].step = "task" /\ tx'[s].run = r /\ task[r] = "open"
      BY <2>3 DEF LoadTask, Open, TypeOK, Idle
    <3>2. UNCHANGED <<result, reviews, regrades, task>>
      BY <2>3 DEF LoadTask, runRows, reviewRows
    <3>3. QED
      BY <2>2, <3>1, <3>2
  <2>4. CASE LoadResult(s)
    <3>1. PICK r \in Runs : r = tx[s].run
      BY <2>4 DEF LoadResult, SessionsConsistent, TeachersConsistent
    <3> DEFINE seen == (package[runOf[r]] = "submitted")
               loaded == [tx[s] EXCEPT !.step = "result", !.loaded = result[r], !.submitted = seen]
    <3>2. tx[s] \in Transactions
      BY DEF TypeOK, Transactions
    <3>3. loaded.step = "result" /\ loaded.run = r /\ loaded.loaded = result[r]
      <4> HIDE DEF seen
      <4>1. QED
        BY <3>1, <3>2 DEF Transactions
    <3>4. tx' = [tx EXCEPT ![s] = loaded] /\ tx[s].step = "task"
      BY <2>4, <3>1 DEF LoadResult, Open
    <3> HIDE DEF loaded
    <3>5. tx'[s] = loaded
      BY <3>4 DEF TypeOK
    <3>6. task[r] = "open"
      BY <1>1, <3>1, <3>4 DEF TeacherIsCurrent
    <3>7. UNCHANGED <<result, reviews, regrades, task>>
      BY <2>4 DEF LoadResult, runRows, reviewRows
    <3>8. QED
      BY <2>2, <3>3, <3>5, <3>6, <3>7
  <2>5. CASE Refuse(s)
    <3>1. tx'[s].step = "idle"
      BY <2>5 DEF Refuse, Close, TypeOK, Idle
    <3>2. UNCHANGED <<result, reviews, regrades, task>>
      BY <2>5 DEF Refuse, runRows, reviewRows
    <3>3. QED
      BY <2>2, <3>1, <3>2
  <2>6. CASE Decide(s)
    <3>1. PICK r \in Runs : r = tx[s].run
      BY <2>6 DEF Decide, Approve, AdjustScore, OverrideDetail, ReturnForRegrade,
                  SessionsConsistent, TeachersConsistent
    <3>2. PICK d \in Decisions, after \in Scores, row \in Rows :
            tx[s].step = "result" /\ Decision(s, r, d, after, row) /\ Queueing(d, r)
      BY <2>6, <3>1, DecisionEffect
    <3>3. TypeOK'
      BY TypeStep
    <3>4. QED
      BY <3>1, <3>2, <3>3, DecisionShown
  <2>7. QED
    BY <1>5, <2>3, <2>4, <2>5, <2>6 DEF Teach
<1>6. QED
  BY <1>3, <1>4, <1>5 DEF Next

\* When teachers' requests run one after the other, what a request loaded is
\* still there when it decides, which carries the properties below.
THEOREM SerialReviewInvariant ==
    ASSUME OneTeacher
    PROVE  Spec => []SerialInv
<1>1. Init => SerialInv
  <2>1. Idle.step = "idle" /\ NoResult.history = << >>
    BY DEF Idle, NoResult
  <2>2. QED
    BY <2>1, EmptyHistory DEF Init, SerialInv, OneDecisionPerTask, HistoryComplete,
                              ResultShowsDecision, TeacherIsCurrent
<1>2. ReviewInv /\ SerialInv /\ [Next]_vars => SerialInv'
  BY SerialStep
<1>3. QED
  BY <1>1, <1>2, ReviewInvariant, PTL DEF Spec

\* When teachers' requests run one after the other, a task gets one decision,
\* the history lists it, and the result shows its type, score and regrade.
THEOREM SerialReview ==
    ASSUME OneTeacher
    PROVE  Spec => [](OneDecisionPerTask /\ HistoryComplete /\ ResultShowsDecision)
<1>1. SerialInv => OneDecisionPerTask /\ HistoryComplete /\ ResultShowsDecision
  BY DEF SerialInv
<1>2. QED
  BY <1>1, SerialReviewInvariant, PTL

-----------------------------------------------------------------------------
(* Refinement: with one teacher request at a time, results have an outcome *)

\* What ReviewOutcome sees of the tables.
GradeOf(r) == IF result[r].status = "finalized" THEN result[r].total ELSE Null
States == [r \in Runs |-> State(r)]
Grades == [r \in Runs |-> GradeOf(r)]

\* The scores of a row are scores that some run may give.
Possible(row) ==
    /\ 0 .. row.max \subseteq PossibleScores
    /\ row.total \in PossibleScores \cup {Null}

ScoresPossible == \A r \in Runs : result[r].status # "absent" => Possible(result[r])

LEMMA StateCases ==
    ASSUME NEW r \in Runs
    PROVE  /\ result[r].status = "absent" /\ result[r].type # "final" => State(r) = "none"
           /\ result[r].status = "finalized" /\ result[r].type = "final"
                 => State(r) = "accepted"
           /\ result[r].status = "finalized" /\ result[r].type # "final"
                 => State(r) = "decided"
           /\ result[r].status = "needs_review" /\ result[r].type = "proposed" =>
                 State(r) = IF task[r] = "open" THEN "pending" ELSE "returned"
BY DEF State

LEMMA StateCasesNext ==
    ASSUME NEW r \in Runs
    PROVE  /\ result'[r].status = "absent" /\ result'[r].type # "final" => State(r)' = "none"
           /\ result'[r].status = "finalized" /\ result'[r].type = "final"
                 => State(r)' = "accepted"
           /\ result'[r].status = "finalized" /\ result'[r].type # "final"
                 => State(r)' = "decided"
           /\ result'[r].status = "needs_review" /\ result'[r].type = "proposed" =>
                 State(r)' = IF task'[r] = "open" THEN "pending" ELSE "returned"
BY DEF State

\* A step on one result is an abstract step.
LEMMA OneOutcome ==
    ASSUME NEW r \in Runs,
           \A q \in Runs \ {r} : State(q)' = State(q) /\ GradeOf(q)' = GradeOf(q),
           \/ State(r) = "none" /\ State(r)' = "accepted" /\ GradeOf(r)' \in PossibleScores
           \/ State(r) = "none" /\ State(r)' = "pending" /\ GradeOf(r)' = GradeOf(r)
           \/ /\ State(r) = "pending" /\ State(r)' = "decided"
              /\ GradeOf(r)' \in PossibleScores \cup {Null}
           \/ State(r) = "pending" /\ State(r)' = "returned" /\ GradeOf(r)' = GradeOf(r)
    PROVE  Outcomes!Next
<1>1. /\ States' = [States EXCEPT ![r] = State(r)']
      /\ Grades' = [Grades EXCEPT ![r] = GradeOf(r)']
      /\ States[r] = State(r)
  BY DEF States, Grades
<1>2. GradeOf(r)' = GradeOf(r) => Grades' = Grades
  BY DEF Grades
<1>3. CASE State(r) = "none" /\ State(r)' = "accepted" /\ GradeOf(r)' \in PossibleScores
  <2>1. PICK score \in PossibleScores : score = GradeOf(r)'
    BY <1>3
  <2>2. Outcomes!Accept(r, score)
    BY <1>1, <1>3, <2>1 DEF Outcomes!Accept, States, Grades, GradeOf
  <2>3. QED
    BY <2>2 DEF Outcomes!Next
<1>4. CASE State(r) = "none" /\ State(r)' = "pending" /\ GradeOf(r)' = GradeOf(r)
  <2>1. Outcomes!Queue(r)
    BY <1>1, <1>2, <1>4 DEF Outcomes!Queue, States, Grades, GradeOf
  <2>2. QED
    BY <2>1 DEF Outcomes!Next
<1>5. CASE State(r) = "pending" /\ State(r)' = "decided"
           /\ GradeOf(r)' \in PossibleScores \cup {Null}
  <2>1. PICK score \in PossibleScores \cup {Null} : score = GradeOf(r)'
    BY <1>5
  <2>2. Outcomes!Decide(r, score)
    BY <1>1, <1>5, <2>1 DEF Outcomes!Decide, States, Grades, GradeOf
  <2>3. QED
    BY <2>2 DEF Outcomes!Next
<1>6. CASE State(r) = "pending" /\ State(r)' = "returned" /\ GradeOf(r)' = GradeOf(r)
  <2>1. Outcomes!Return(r)
    BY <1>1, <1>2, <1>6 DEF Outcomes!Return, States, Grades, GradeOf
  <2>2. QED
    BY <2>1 DEF Outcomes!Next
<1>7. QED
  BY <1>3, <1>4, <1>5, <1>6

LEMMA SameOutcomes ==
    ASSUME UNCHANGED <<result, task>>
    PROVE  UNCHANGED Outcomes!vars /\ (ScoresPossible => ScoresPossible')
<1>1. UNCHANGED <<States, Grades>>
  BY DEF States, Grades, State, GradeOf
<1>2. QED
  BY <1>1 DEF Outcomes!vars, States, Grades, GradeOf, ScoresPossible, Possible

\* A grading run gives a possible score, and one that is accepted gives some.
LEMMA GradedScore ==
    ASSUME NEW g \in Signals
    PROVE  LET row == Flushed(Proposed(g), Routed(g)) IN
           /\ Possible(row)
           /\ row.type = "final" => row.total # Null
<1> DEFINE score == ScoreAndConfidence(g.det, g.ai)
<1>1. /\ score.max \in Nat /\ score.total \in (0 .. score.max) \cup {Null}
      /\ score.total = Null => ~Scored(g.det) /\ ~HasPayload(g.ai)
      /\ Suggested(g.ai) # {} => HasPayload(g.ai)
  BY SignalsAssumption DEF ScoreIsSound
<1>2. 0 .. score.max \subseteq PossibleScores
  BY DEF PossibleScores
<1>3. /\ Flushed(Proposed(g), Routed(g)).total = score.total
      /\ Flushed(Proposed(g), Routed(g)).max = score.max
  BY DEF Flushed, Proposed, Routed
<1>4. Flushed(Proposed(g), Routed(g)).type = "final" =>
        Route(g.policy, g.det, g.warnings, g.ai) = "auto_accept"
  BY DEF Flushed, Proposed, Routed
<1>5. Route(g.policy, g.det, g.warnings, g.ai) = "auto_accept" => score.total # Null
  <2> SUFFICES ASSUME Route(g.policy, g.det, g.warnings, g.ai) = "auto_accept"
               PROVE  score.total # Null
    OBVIOUS
  <2>1. Reasons(g.policy, g.det, g.warnings, g.ai) = {}
    BY DEF Route
  <2>2. CoverageComplete(g.det, g.ai)
    BY <2>1 DEF Reasons, When
  <2>3. Scored(g.det) \/ HasPayload(g.ai)
    BY <1>1, <2>2, CriteriaAssumption DEF CoverageComplete, Covered, Scored, AiKeys
  <2>4. QED
    BY <1>1, <2>3
<1> HIDE DEF score
<1>6. QED
  BY <1>1, <1>2, <1>3, <1>4, <1>5 DEF Possible

LEMMA CommitOutcome ==
    ASSUME ReviewInv, ScoresPossible, NEW s \in Graders, NEW g \in Signals, CommitGrading(s, g)
    PROVE  Outcomes!Next /\ ScoresPossible'
<1>0. PICK r \in Runs : r = tx[s].run
  BY DEF CommitGrading, ReviewInv, SessionsConsistent, GradersConsistent
<1> DEFINE row == Flushed(Proposed(g), Routed(g))
<1>1. result[r].status = "absent" /\ result[r].type = "proposed"
  BY <1>0 DEF CommitGrading, ReviewInv, SessionsConsistent, GradersConsistent,
              RunsConsistent, RunConsistent, TypeOK, Rows
<1>2. /\ result' = [result EXCEPT ![r] = row] /\ task' = [task EXCEPT ![r] = TaskFor(g)]
  BY <1>0 DEF CommitGrading
<1>3. /\ \/ row.status = "finalized" /\ row.type = "final"
         \/ row.status = "needs_review" /\ row.type = "proposed" /\ TaskFor(g) = "open"
      /\ Possible(row)
      /\ row.type = "final" => row.total # Null
  BY GradedRow, GradedScore
<1>4. result'[r] = row /\ task'[r] = TaskFor(g)
      /\ \A q \in Runs \ {r} : result'[q] = result[q] /\ task'[q] = task[q]
  BY <1>2 DEF ReviewInv, TypeOK
<1> HIDE DEF row
<1>5. \A q \in Runs \ {r} : State(q)' = State(q) /\ GradeOf(q)' = GradeOf(q)
  BY <1>4 DEF State, GradeOf
<1>6. State(r) = "none" /\ GradeOf(r) = Null
  BY <1>1, StateCases DEF GradeOf
<1>7. ScoresPossible'
  <2>1. \A q \in Runs : result'[q].status # "absent" =>
            result'[q] = row \/ (result[q].status # "absent" /\ result'[q] = result[q])
    BY <1>4
  <2>2. QED
    BY <1>3, <2>1 DEF ScoresPossible, Possible
<1>8. CASE row.status = "finalized" /\ row.type = "final"
  <2>1. State(r)' = "accepted" /\ GradeOf(r)' \in PossibleScores
    BY <1>3, <1>4, <1>8, StateCasesNext DEF GradeOf, Possible
  <2>2. QED
    BY <1>5, <1>6, <1>7, <2>1, OneOutcome
<1>9. CASE row.status = "needs_review" /\ row.type = "proposed" /\ TaskFor(g) = "open"
  <2>1. State(r)' = "pending" /\ GradeOf(r)' = Null
    BY <1>4, <1>9, StateCasesNext DEF GradeOf
  <2>2. QED
    BY <1>5, <1>6, <1>7, <2>1, OneOutcome
<1>10. QED
  BY <1>3, <1>8, <1>9

\* What a decision makes of the row the request loaded.
LEMMA DecidedRow ==
    ASSUME TypeOK, NEW s \in Teachers, NEW r \in Runs, r = tx[s].run, Decide(s),
           tx[s].loaded = result[r]
    PROVE  \E row \in Rows :
             /\ result' = [result EXCEPT ![r] = row] /\ task' = [task EXCEPT ![r] = "completed"]
             /\ row.max = result[r].max
             /\ row.total \in (0 .. result[r].max) \cup {result[r].total}
             /\ \/ row.status = "finalized" /\ row.type \in {"reviewed", "overridden"}
                \/ row.status = result[r].status /\ row.type = result[r].type
                   /\ row.total = result[r].total
<1>1. result[r] \in Rows /\ result[r].total \in Nat \cup {Null} /\ result[r].max \in Nat
  BY DEF TypeOK, Rows
<1>2. ASSUME NEW type \in {"reviewed", "overridden"},
             NEW total \in (0 .. result[r].max) \cup {result[r].total},
             Finalize(s, type, total), task' = [task EXCEPT ![r] = "completed"]
      PROVE  \E row \in Rows :
             /\ result' = [result EXCEPT ![r] = row] /\ task' = [task EXCEPT ![r] = "completed"]
             /\ row.max = result[r].max
             /\ row.total \in (0 .. result[r].max) \cup {result[r].total}
             /\ row.status = "finalized" /\ row.type \in {"reviewed", "overridden"}
  <2>1. total \in Nat \cup {Null}
    BY <1>1
  <2>2. PICK row \in Rows :
             /\ result' = [result EXCEPT ![r] = row]
             /\ row.status = "finalized" /\ row.type = type
             /\ row.total = IF total = tx[s].loaded.total THEN result[r].total ELSE total
             /\ row.max = result[r].max
    BY <1>2, <2>1, FinalizeRow
  <2>3. row.total \in (0 .. result[r].max) \cup {result[r].total}
    BY <2>2
  <2>4. QED
    BY <1>2, <2>2, <2>3
<1>3. CASE Approve(s)
  BY <1>2, <1>3 DEF Approve, RecordReview
<1>4. ASSUME NEW score \in 0 .. tx[s].loaded.max, AdjustScore(s, score)
      PROVE  \E row \in Rows :
             /\ result' = [result EXCEPT ![r] = row] /\ task' = [task EXCEPT ![r] = "completed"]
             /\ row.max = result[r].max
             /\ row.total \in (0 .. result[r].max) \cup {result[r].total}
             /\ row.status = "finalized" /\ row.type \in {"reviewed", "overridden"}
  BY <1>2, <1>4 DEF AdjustScore, RecordReview
<1>5. CASE OverrideDetail(s)
  BY <1>2, <1>5 DEF OverrideDetail, RecordReview
<1>6. ASSUME NEW new \in Runs, ReturnForRegrade(s, new)
      PROVE  \E row \in Rows :
             /\ result' = [result EXCEPT ![r] = row] /\ task' = [task EXCEPT ![r] = "completed"]
             /\ row.max = result[r].max
             /\ row.total = result[r].total
             /\ row.status = result[r].status /\ row.type = result[r].type
  <2> DEFINE row == [result[r] EXCEPT !.history = HistoryWith(s)]
  <2>1. HistoryWith(s) \in Seq(Nat)
    BY HistoryIsSeq
  <2>2. /\ row \in Rows /\ row.status = result[r].status /\ row.type = result[r].type
        /\ row.max = result[r].max /\ row.total = result[r].total
    BY <1>1, <2>1 DEF Rows
  <2>3. result' = [result EXCEPT ![r] = row] /\ task' = [task EXCEPT ![r] = "completed"]
    BY <1>6 DEF ReturnForRegrade, RecordReview
  <2> HIDE DEF row
  <2>4. QED
    BY <2>2, <2>3
<1>7. QED
  BY <1>3, <1>4, <1>5, <1>6 DEF Decide

LEMMA DecisionOutcome ==
    ASSUME ReviewInv, SerialInv, ScoresPossible, NEW s \in Teachers, Decide(s)
    PROVE  Outcomes!Next /\ ScoresPossible'
<1>1. PICK r \in Runs : r = tx[s].run /\ tx[s].step = "result"
  BY DEF Decide, Approve, AdjustScore, OverrideDetail, ReturnForRegrade,
         ReviewInv, SessionsConsistent, TeachersConsistent
<1>2. task[r] = "open" /\ tx[s].loaded = result[r]
  BY <1>1 DEF SerialInv, TeacherIsCurrent
<1>3. result[r].status = "needs_review" /\ result[r].type = "proposed"
  BY <1>2 DEF ReviewInv, RunsConsistent, RunConsistent
<1>4. PICK row \in Rows :
        /\ result' = [result EXCEPT ![r] = row] /\ task' = [task EXCEPT ![r] = "completed"]
        /\ row.max = result[r].max
        /\ row.total \in (0 .. result[r].max) \cup {result[r].total}
        /\ \/ row.status = "finalized" /\ row.type \in {"reviewed", "overridden"}
           \/ row.status = result[r].status /\ row.type = result[r].type
              /\ row.total = result[r].total
  BY <1>1, <1>2, DecidedRow DEF ReviewInv
<1>5. result'[r] = row /\ task'[r] = "completed"
      /\ \A q \in Runs \ {r} : result'[q] = result[q] /\ task'[q] = task[q]
  BY <1>4 DEF ReviewInv, TypeOK
<1>6. \A q \in Runs \ {r} : State(q)' = State(q) /\ GradeOf(q)' = GradeOf(q)
  BY <1>5 DEF State, GradeOf
<1>7. State(r) = "pending" /\ GradeOf(r) = Null
  BY <1>2, <1>3, StateCases DEF GradeOf
<1>8. Possible(row)
  BY <1>3, <1>4 DEF ScoresPossible, Possible
<1>9. ScoresPossible'
  <2>1. \A q \in Runs : result'[q].status # "absent" =>
            result'[q] = row \/ (result[q].status # "absent" /\ result'[q] = result[q])
    BY <1>5
  <2>2. QED
    BY <1>8, <2>1 DEF ScoresPossible, Possible
<1>10. CASE row.status = "finalized" /\ row.type \in {"reviewed", "overridden"}
  <2>1. State(r)' = "decided" /\ GradeOf(r)' \in PossibleScores \cup {Null}
    BY <1>5, <1>8, <1>10, StateCasesNext DEF GradeOf, Possible
  <2>2. QED
    BY <1>6, <1>7, <1>9, <2>1, OneOutcome
<1>11. CASE row.status = result[r].status /\ row.type = result[r].type
  <2>1. State(r)' = "returned" /\ GradeOf(r)' = Null
    BY <1>3, <1>5, <1>11, StateCasesNext DEF GradeOf
  <2>2. QED
    BY <1>6, <1>7, <1>9, <2>1, OneOutcome
<1>12. QED
  BY <1>4, <1>10, <1>11

\* With one teacher request at a time, however grading requests interleave, a
\* result has one outcome: accepted with a score, or waiting until a teacher
\* decides or returns it, once, and its grade does not change after that.
THEOREM SerialOutcome ==
    ASSUME OneTeacher
    PROVE  Spec => ImplementsReviewOutcome
<1>1. Init => ScoresPossible /\ Outcomes!Init
  <2> SUFFICES ASSUME Init PROVE ScoresPossible /\ Outcomes!Init
    OBVIOUS
  <2>1. NoResult.status = "absent" /\ NoResult.type = "proposed"
    BY DEF NoResult
  <2>2. \A r \in Runs : result[r] = NoResult
    BY DEF Init
  <2>3. \A r \in Runs : State(r) = "none" /\ GradeOf(r) = Null
    BY <2>1, <2>2, StateCases DEF GradeOf
  <2>4. States = [r \in Runs |-> "none"] /\ Grades = [r \in Runs |-> Null]
    BY <2>3 DEF States, Grades
  <2>5. ScoresPossible
    BY <2>1, <2>2 DEF ScoresPossible
  <2>6. QED
    BY <2>4, <2>5 DEF Outcomes!Init, States, Grades, GradeOf
<1>2. ReviewInv /\ SerialInv /\ ScoresPossible /\ [Next]_vars
         => [Outcomes!Next]_(Outcomes!vars) /\ ScoresPossible'
  <2> SUFFICES ASSUME ReviewInv, SerialInv, ScoresPossible, [Next]_vars
               PROVE  (Outcomes!Next \/ UNCHANGED Outcomes!vars) /\ ScoresPossible'
    BY Zenon
  <2>1. ASSUME UNCHANGED <<result, task>>
        PROVE  (Outcomes!Next \/ UNCHANGED Outcomes!vars) /\ ScoresPossible'
    BY <2>1, SameOutcomes
  <2>2. CASE (\E p \in Packages : RetirePackage(p)) \/ UNCHANGED vars
    BY <2>1, <2>2 DEF RetirePackage, vars
  <2>3. ASSUME NEW s \in Graders, Grade(s)
        PROVE  (Outcomes!Next \/ UNCHANGED Outcomes!vars) /\ ScoresPossible'
    <3>1. CASE \E g \in Signals : CommitGrading(s, g)
      BY <3>1, CommitOutcome
    <3>2. CASE (\E p \in Packages, r \in Runs : BeginGrading(s, p, r)) \/ FailGrading(s)
      BY <2>1, <3>2 DEF BeginGrading, FailGrading
    <3>3. QED
      BY <2>3, <3>1, <3>2 DEF Grade
  <2>4. ASSUME NEW s \in Teachers, Teach(s)
        PROVE  (Outcomes!Next \/ UNCHANGED Outcomes!vars) /\ ScoresPossible'
    <3>1. CASE Decide(s)
      BY <3>1, DecisionOutcome
    <3>2. CASE (\E r \in Runs : LoadTask(s, r)) \/ LoadResult(s) \/ Refuse(s)
      BY <2>1, <3>2 DEF LoadTask, LoadResult, Refuse
    <3>3. QED
      BY <2>4, <3>1, <3>2 DEF Teach
  <2>5. QED
    BY <2>2, <2>3, <2>4, Zenon DEF Next
<1>3. QED
  BY <1>1, <1>2, ReviewInvariant, SerialReviewInvariant, PTL
  DEF Spec, ImplementsReviewOutcome, Outcomes!Spec

=============================================================================
