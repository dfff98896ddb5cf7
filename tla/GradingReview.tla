---------------------------- MODULE GradingReview ----------------------------
(***************************************************************************)
(* Grading runs, their results, the review queue and teacher decisions:    *)
(* the requests of app/pilot/fastapi_app.py on the services                *)
(* grading_orchestration.py and review_policy.py.                          *)
(*                                                                         *)
(* Each request is one database transaction at READ COMMITTED without row  *)
(* locks.  A grading request loads the package, waits for the provider,    *)
(* and commits the run, its result and its review task together.  A        *)
(* teacher's request loads the task, then the result and the package,      *)
(* validates what it loaded, and writes the columns it changed.  What the  *)
(* grading stages compute is ConfidencePolicy.                             *)
(***************************************************************************)
EXTENDS ConfidencePolicy

CONSTANTS
    Packages,   \* submissions
    Runs,       \* grading run ids; a run has one result and at most one task
    Graders,    \* sessions of grading requests
    Teachers,   \* sessions of teacher review requests
    Signals     \* what the stages of a run may have produced

ASSUME NullPackageAssumption == Null \notin Packages \cup Runs
\* GradingRunProofs shows this of whatever a run of GradingRun produces.
ASSUME SignalsAssumption == \A g \in Signals : ScoreIsSound(g.det, g.ai)
ASSUME SessionsAssumption == Graders \cap Teachers = {}

VARIABLES
    package,    \* submissions.status: submitted, or no longer current
    runStatus,  \* grading_runs.status; "absent" before the row exists
    runOf,      \* grading_runs.submission_id
    answered,   \* what the client of the request for a run was told
    result,     \* grading_results row of a run
    task,       \* review_tasks.status of the task on a run's result
    reviews,    \* teacher_reviews of that task, with their override, in commit order
    regrades,   \* context_payload.previous_grading_result_id of a queued regrade
    tx          \* open transactions

reviewRows == <<reviews, regrades>>
runRows == <<runStatus, runOf, answered>>
vars == <<package, runStatus, runOf, answered, result, task, reviews, regrades, tx>>

NoResult ==
    [status |-> "absent", type |-> "proposed", total |-> Null, max |-> 0,
     routed |-> FALSE, history |-> <<>>]

Idle == [step |-> "idle", run |-> Null, pkg |-> Null, submitted |-> FALSE,
         loaded |-> NoResult]

Init ==
    /\ package = [p \in Packages |-> "submitted"]
    /\ runStatus = [r \in Runs |-> "absent"]
    /\ runOf = [r \in Runs |-> Null]
    /\ answered = [r \in Runs |-> "no"]
    /\ result = [r \in Runs |-> NoResult]
    /\ task = [r \in Runs |-> "none"]
    /\ reviews = [r \in Runs |-> <<>>]
    /\ regrades = [r \in Runs |-> Null]
    /\ tx = [s \in Graders \cup Teachers |-> Idle]

Open(s, fields) == tx' = [tx EXCEPT ![s] = fields]
Close(s) == tx' = [tx EXCEPT ![s] = Idle]

\* A run id no request holds.
Unused(r) ==
    /\ runStatus[r] = "absent" /\ answered[r] = "no"
    /\ \A s \in Graders : tx[s].run # r

\* A withdraw, archive or supersession of the answer lifecycle commits.
RetirePackage(p) ==
    /\ package[p] = "submitted"
    /\ package' = [package EXCEPT ![p] = "retired"]
    /\ UNCHANGED <<runStatus, runOf, answered, result, task, reviews, regrades, tx>>

-----------------------------------------------------------------------------
(* POST /pilot/grading-runs                                                *)

\* Load the package, validate it, create the run and call the provider.
BeginGrading(s, p, r) ==
    /\ tx[s].step = "idle"
    /\ package[p] = "submitted"
    /\ Unused(r)
    /\ Open(s, [Idle EXCEPT !.step = "grading", !.run = r, !.pkg = p])
    /\ UNCHANGED <<package, runStatus, runOf, answered, result, task, reviews, regrades>>

\* The result as _build_grading_result flushes it.
Proposed(g) ==
    LET score == ScoreAndConfidence(g.det, g.ai) IN
    [status |-> "proposed", type |-> "proposed", total |-> score.total, max |-> score.max,
     routed |-> FALSE, history |-> <<>>]

\* Mutant: the status of a result that needs review is not assigned.
RoutedWithoutStatus(g) ==
    IF Route(g.policy, g.det, g.warnings, g.ai) = "auto_accept"
    THEN [Proposed(g) EXCEPT !.status = "finalized", !.type = "final", !.routed = TRUE]
    ELSE [Proposed(g) EXCEPT !.routed = TRUE]

\* The result object after _apply_routing_policy, in memory.
Routed(g) ==
    IF Route(g.policy, g.det, g.warnings, g.ai) = "auto_accept"
    THEN [Proposed(g) EXCEPT !.status = "finalized", !.type = "final", !.routed = TRUE]
    ELSE [Proposed(g) EXCEPT !.status = "needs_review", !.routed = TRUE]

\* What the next flush writes of it.  The routing is put into the dict of the
\* JSONB column in place, which the session does not notice: the column is not
\* part of the UPDATE and keeps its flushed value.
Flushed(before, object) == [object EXCEPT !.routed = before.routed]

\* Mutant: accepted results are queued, too.
TaskForAll(g) == "open"

TaskFor(g) ==
    IF Route(g.policy, g.det, g.warnings, g.ai) = "auto_accept" THEN "none" ELSE "open"

CommitGrading(s, g) ==
    LET r == tx[s].run IN
    /\ tx[s].step = "grading"
    /\ runStatus' = [runStatus EXCEPT ![r] = "completed"]
    /\ runOf' = [runOf EXCEPT ![r] = tx[s].pkg]
    /\ answered' = [answered EXCEPT ![r] = "graded"]
    /\ result' = [result EXCEPT ![r] = Flushed(Proposed(g), Routed(g))]
    /\ task' = [task EXCEPT ![r] = TaskFor(g)]
    /\ Close(s)
    /\ UNCHANGED <<package, reviewRows>>

\* execute_grading_run marks the run failed, flushes and raises; the route or
\* get_db rolls the session back, and the failed run with it.
FailGrading(s) ==
    /\ tx[s].step = "grading"
    /\ answered' = [answered EXCEPT ![tx[s].run] = "error"]
    /\ Close(s)
    /\ UNCHANGED <<package, runStatus, runOf, result, task, reviewRows>>

-----------------------------------------------------------------------------
(* POST /pilot/review-tasks/{id}/actions/{action}                          *)

\* Mutant: the status of the task is not checked.
LoadAnyTask(s, r) ==
    /\ tx[s].step = "idle"
    /\ task[r] # "none"
    /\ Open(s, [Idle EXCEPT !.step = "task", !.run = r])
    /\ UNCHANGED <<package, runRows, result, task, reviewRows>>

\* The task as loaded passes the status guard of _validate_review_context.
LoadTask(s, r) ==
    /\ tx[s].step = "idle"
    /\ task[r] = "open"
    /\ Open(s, [Idle EXCEPT !.step = "task", !.run = r])
    /\ UNCHANGED <<package, runRows, result, task, reviewRows>>

\* The result passes it as well; the package is looked at by a regrade only.
LoadResult(s) ==
    LET r == tx[s].run IN
    /\ tx[s].step = "task"
    /\ result[r].status = "needs_review"
    /\ Open(s, [tx[s] EXCEPT !.step = "result", !.loaded = result[r],
                             !.submitted = (package[runOf[r]] = "submitted")])
    /\ UNCHANGED <<package, runRows, result, task, reviewRows>>

\* A guard fails, or the client is lost: get_db closes the session.
Refuse(s) ==
    /\ tx[s].step \in {"task", "result"}
    /\ Close(s)
    /\ UNCHANGED <<package, runRows, result, task, reviewRows>>

\* Mutant: the override is recorded after the result has changed.
ReviewOfChanged(decision, before, after) ==
    [decision |-> decision, before |-> after, after |-> after]

\* _create_teacher_review, with the score override it leads to.
Review(decision, before, after) == [decision |-> decision, before |-> before, after |-> after]

\* Mutant: the history is not written back.
HistoryAsLoaded(s) == tx[s].loaded.history

\* _mark_human_reviewed appends to the history as loaded.
HistoryWith(s) == Append(tx[s].loaded.history, Len(reviews[tx[s].run]) + 1)

\* Mutant: the task stays open.
RecordReviewOnly(s, decision, after) ==
    LET r == tx[s].run IN
    /\ reviews' = [reviews EXCEPT ![r] = Append(@, Review(decision, tx[s].loaded.total, after))]
    /\ Close(s)
    /\ UNCHANGED task

RecordReview(s, decision, after) ==
    LET r == tx[s].run IN
    /\ reviews' = [reviews EXCEPT ![r] = Append(@, Review(decision, tx[s].loaded.total, after))]
    /\ task' = [task EXCEPT ![r] = "completed"]
    /\ Close(s)

\* Mutant: the total is not written.
FinalizeUnscored(s, type, total) ==
    LET r == tx[s].run IN
    result' = [result EXCEPT ![r] =
        [result[r] EXCEPT !.status = "finalized", !.type = type, !.history = HistoryWith(s)]]

\* Finalize with the columns that differ from the loaded ones.
Finalize(s, type, total) ==
    LET r == tx[s].run IN
    result' = [result EXCEPT ![r] =
        [result[r] EXCEPT !.status = "finalized", !.type = type, !.history = HistoryWith(s),
            !.total = IF total = tx[s].loaded.total THEN result[r].total ELSE total]]

\* approve_review_result and finalize_review_result
Approve(s) ==
    /\ tx[s].step = "result"
    /\ Finalize(s, "reviewed", tx[s].loaded.total)
    /\ RecordReview(s, "approve", tx[s].loaded.total)
    /\ UNCHANGED <<package, runRows, regrades>>

\* adjust_review_score
AdjustScore(s, score) ==
    /\ tx[s].step = "result"
    /\ score \in 0 .. tx[s].loaded.max
    /\ Finalize(s, "overridden", score)
    /\ RecordReview(s, "adjust", score)
    /\ UNCHANGED <<package, runRows, regrades>>

\* edit_review_feedback and override_criterion_result: neither changes the
\* total.  The texts and the teacher's criterion row are not modelled.
OverrideDetail(s) ==
    /\ tx[s].step = "result"
    /\ Finalize(s, "overridden", tx[s].loaded.total)
    /\ RecordReview(s, "override", tx[s].loaded.total)
    /\ UNCHANGED <<package, runRows, regrades>>

\* Mutant: the regrade run does not say which result it is for.
ReturnUnlinked(s, new) ==
    LET r == tx[s].run IN
    /\ tx[s].step = "result"
    /\ tx[s].submitted
    /\ Unused(new)
    /\ result' = [result EXCEPT ![r].history = HistoryWith(s)]
    /\ RecordReview(s, "return_for_regrade", tx[s].loaded.total)
    /\ runStatus' = [runStatus EXCEPT ![new] = "queued"]
    /\ runOf' = [runOf EXCEPT ![new] = runOf[r]]
    /\ UNCHANGED <<package, answered, regrades>>

\* return_review_for_regrade and request_regrade: a new queued run
ReturnForRegrade(s, new) ==
    LET r == tx[s].run IN
    /\ tx[s].step = "result"
    /\ tx[s].submitted
    /\ Unused(new)
    /\ result' = [result EXCEPT ![r].history = HistoryWith(s)]
    /\ RecordReview(s, "return_for_regrade", tx[s].loaded.total)
    /\ runStatus' = [runStatus EXCEPT ![new] = "queued"]
    /\ runOf' = [runOf EXCEPT ![new] = runOf[r]]
    /\ regrades' = [regrades EXCEPT ![new] = r]
    /\ UNCHANGED <<package, answered>>

-----------------------------------------------------------------------------
Grade(s) ==
    \/ \E p \in Packages, r \in Runs : BeginGrading(s, p, r)
    \/ \E g \in Signals : CommitGrading(s, g)
    \/ FailGrading(s)

Decide(s) ==
    \/ Approve(s)
    \/ \E score \in 0 .. tx[s].loaded.max : AdjustScore(s, score)
    \/ OverrideDetail(s)
    \/ \E new \in Runs : ReturnForRegrade(s, new)

Teach(s) ==
    \/ \E r \in Runs : LoadTask(s, r)
    \/ LoadResult(s)
    \/ Refuse(s)
    \/ Decide(s)

Next ==
    \/ \E p \in Packages : RetirePackage(p)
    \/ \E s \in Graders : Grade(s)
    \/ \E s \in Teachers : Teach(s)

Spec == Init /\ [][Next]_vars

-----------------------------------------------------------------------------
(* Properties                                                              *)

Rows ==
    [status : {"absent", "needs_review", "finalized"},
     type : {"proposed", "final", "reviewed", "overridden"},
     total : Nat \cup {Null}, max : Nat, routed : BOOLEAN, history : Seq(Nat)]

Decisions == {"approve", "adjust", "override", "return_for_regrade"}

TypeOK ==
    /\ package \in [Packages -> {"submitted", "retired"}]
    /\ runStatus \in [Runs -> {"absent", "queued", "completed"}]
    /\ runOf \in [Runs -> Packages \cup {Null}]
    /\ answered \in [Runs -> {"no", "graded", "error"}]
    /\ result \in [Runs -> Rows]
    /\ task \in [Runs -> {"none", "open", "completed"}]
    /\ reviews \in [Runs -> Seq([decision : Decisions, before : Nat \cup {Null},
                                  after : Nat \cup {Null}])]
    /\ regrades \in [Runs -> Runs \cup {Null}]
    /\ tx \in [Graders \cup Teachers ->
                [step : {"idle", "grading", "task", "result"}, run : Runs \cup {Null},
                 pkg : Packages \cup {Null}, submitted : BOOLEAN, loaded : Rows]]

Decided(r) == \E i \in DOMAIN reviews[r] : reviews[r][i].decision # "return_for_regrade"
Returned(r) == \E new \in Runs : regrades[new] = r

\* docs/logic/07-review-policy.md: a result that needs review is never lost.
\* However teachers' requests interleave, it has an open task in the queue, or
\* a teacher returned it and a regrade run of the same package is queued.
NoResultForgotten ==
    \A r \in Runs : result[r].status = "needs_review" =>
        \/ task[r] = "open"
        \/ \E new \in Runs : /\ regrades[new] = r
                             /\ runStatus[new] = "queued" /\ runOf[new] = runOf[r]

\* However requests interleave, only results a human must see enter the queue,
\* they leave it with a teacher review on record, and the final state of a
\* result names its origin: the policy, or a review that decided so.
FinalResultHasOrigin ==
    \A r \in Runs :
        /\ task[r] = "completed" <=> reviews[r] # <<>>
        /\ result[r].status = "finalized" <=> result[r].type = "final" \/ Decided(r)
        /\ result[r].type = "final" => task[r] = "none" /\ answered[r] = "graded"
        /\ result[r].type = "reviewed" =>
              \E i \in DOMAIN reviews[r] : reviews[r][i].decision = "approve"
        /\ result[r].type = "overridden" =>
              \E i \in DOMAIN reviews[r] : reviews[r][i].decision \in {"adjust", "override"}

\* However requests interleave, every score a reviewed result shows was given
\* by the grading run or by a teacher's adjustment, and the teacher_overrides
\* row of the adjustment still shows the run's score as the previous one.
TotalHasAuthor ==
    \A r \in Runs : reviews[r] # <<>> =>
        LET graded == reviews[r][1].before IN
        /\ \A i \in DOMAIN reviews[r] : reviews[r][i].before = graded
        /\ \/ result[r].total = graded
           \/ \E i \in DOMAIN reviews[r] : /\ reviews[r][i].decision = "adjust"
                                           /\ result[r].total = reviews[r][i].after

\* docs/logic/07-review-policy.md: teacher actions are allowed only for open
\* tasks whose result still needs review, so a task gets one decision.
OneDecisionPerTask == \A r \in Runs : Len(reviews[r]) <= 1

\* docs/logic/07-review-policy.md: the human review history is appended to the
\* explanation payload, which therefore lists every teacher review, in order.
HistoryComplete ==
    \A r \in Runs : result[r].history = [i \in DOMAIN reviews[r] |-> i]

\* docs/logic/07-review-policy.md, "Finalization" and "Return For Regrade": the
\* result shows what the last teacher decided: its type, its score, and
\* whether it waits for a regrade.
ResultShowsDecision ==
    \A r \in Runs : reviews[r] # <<>> =>
        LET last == reviews[r][Len(reviews[r])] IN
        /\ result[r].total = last.after
        /\ result[r].type = CASE last.decision = "approve" -> "reviewed"
                              [] last.decision = "return_for_regrade" -> "proposed"
                              [] OTHER -> "overridden"
        /\ last.decision = "return_for_regrade" <=> Returned(r)

\* docs/logic/06-confidence-policy.md: explanation_payload stores the routing
\* decision and reason codes of every result.
RoutingStored == \A r \in Runs : result[r].status # "absent" => result[r].routed

\* docs/logic/08-audit-logging.md: a failed grading run is recorded.  A client
\* that was told of an error finds the failed run.
FailureRecorded == \A r \in Runs : answered[r] = "error" => runStatus[r] = "failed"

-----------------------------------------------------------------------------
(* Refinement                                                              *)

State(r) ==
    CASE result[r].status = "absent" -> "none"
      [] result[r].type = "final" -> "accepted"
      [] result[r].status = "finalized" /\ result[r].type # "final" -> "decided"
      [] result[r].status = "needs_review" /\ task[r] = "open" -> "pending"
      [] OTHER -> "returned"

\* Every score within the maximum that some run gives.
PossibleScores == UNION {0 .. ScoreAndConfidence(g.det, g.ai).max : g \in Signals}

Outcomes == INSTANCE ReviewOutcome WITH
    Results <- Runs,
    Scores <- PossibleScores,
    state <- [r \in Runs |-> State(r)],
    grade <- [r \in Runs |-> IF result[r].status = "finalized" THEN result[r].total ELSE Null]

\* With one teacher request at a time, each result has one outcome.
ImplementsReviewOutcome == Outcomes!Spec

-----------------------------------------------------------------------------
(* What makes the safety properties inductive                              *)

\* The score of the run: the one the first review was shown.
GradedTotal(r) == IF reviews[r] = <<>> THEN result[r].total ELSE reviews[r][1].before

\* The rows of one run agree with each other.
RunConsistent(r) ==
    /\ runStatus[r] = "completed" <=> answered[r] = "graded"
    /\ runStatus[r] = "completed" <=> result[r].status # "absent"
    /\ runStatus[r] # "absent" => runOf[r] \in Packages
    /\ runStatus[r] = "queued" => answered[r] = "no"
    /\ runStatus[r] # "completed" =>
          task[r] = "none" /\ reviews[r] = <<>> /\ result[r].type = "proposed"
    /\ result[r].status = "needs_review" =>
          /\ result[r].type = "proposed"
          /\ result[r].total = GradedTotal(r)
          /\ task[r] # "none"
    /\ task[r] = "open" => reviews[r] = <<>> /\ result[r].status = "needs_review"
    /\ regrades[r] # Null =>
          /\ runStatus[r] = "queued"
          /\ runOf[r] = runOf[regrades[r]]
          /\ runStatus[regrades[r]] = "completed"
          /\ task[regrades[r]] = "completed"

RunsConsistent == \A r \in Runs : RunConsistent(r)

\* An open grading request holds a run id of its own.
GradersConsistent ==
    /\ \A s \in Graders :
          /\ tx[s].step \in {"idle", "grading"}
          /\ tx[s].step = "idle" => tx[s].run = Null
          /\ tx[s].step = "grading" =>
                /\ tx[s].run \in Runs /\ tx[s].pkg \in Packages
                /\ runStatus[tx[s].run] = "absent" /\ answered[tx[s].run] = "no"
    /\ \A s, t \in Graders : tx[s].run = tx[t].run /\ tx[s].run # Null => s = t

\* A teacher's request knows the score of the run, however old the rest of what
\* it loaded is.
TeachersConsistent ==
    \A s \in Teachers :
        /\ tx[s].step \in {"idle", "task", "result"}
        /\ tx[s].step # "idle" => tx[s].run \in Runs /\ task[tx[s].run] # "none"
        /\ tx[s].step = "result" => tx[s].loaded.total = GradedTotal(tx[s].run)

SessionsConsistent == GradersConsistent /\ TeachersConsistent

ReviewInv ==
    /\ TypeOK
    /\ RunsConsistent
    /\ SessionsConsistent
    /\ NoResultForgotten
    /\ FinalResultHasOrigin
    /\ TotalHasAuthor

\* One teacher request at a time: what it loaded is still there.
OneTeacher == \A s, t \in Teachers : s = t

TeacherIsCurrent ==
    \A s \in Teachers :
        /\ tx[s].step # "idle" => task[tx[s].run] = "open"
        /\ tx[s].step = "result" => tx[s].loaded = result[tx[s].run]

SerialInv ==
    /\ OneDecisionPerTask
    /\ HistoryComplete
    /\ ResultShowsDecision
    /\ TeacherIsCurrent

=============================================================================
