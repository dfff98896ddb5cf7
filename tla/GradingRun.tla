----------------------------- MODULE GradingRun -----------------------------
(***************************************************************************)
(* One execution of execute_grading_run, stage by stage, inside the        *)
(* transaction of its request: deterministic stage, provider call, result, *)
(* routing.  The answer key, the manual levels, the provider and the       *)
(* grading policy of the request are the environment.                      *)
(***************************************************************************)
EXTENDS ConfidencePolicy

CONSTANTS
    RequestPolicies,  \* the grading policies requests carry
    ForeignKeys,      \* criterion keys no criterion of the rubric has
    MaxSuggestions    \* bound: suggestions in one AI output

ASSUME RequestPoliciesAssumption == RequestPolicies \subseteq Policies
ASSUME ForeignKeysAssumption == ForeignKeys \cap Criteria = {}

VARIABLES
    status,    \* grading_runs.status
    stage,     \* the stage execute_grading_run reached
    policy,    \* GradingPolicy
    det,       \* criterion_scores of the deterministic payload
    warnings,  \* its warnings
    ai,        \* validated payload or error of the provider call
    result,    \* total_score, max_score and confidence of the grading result
    rows,      \* its criterion results
    routing    \* the decision, its reasons, the band and the task's priority

vars == <<status, stage, policy, det, warnings, ai, result, rows, routing>>

NoScores == [k \in {} |-> 0]
NoResult == [total |-> Null, max |-> 0, confidence |-> 0]
NoRouting == [decision |-> "none", reasons |-> {}, band |-> "none", priority |-> "none"]

Init ==
    /\ status = "queued"
    /\ stage = "created"
    /\ policy \in RequestPolicies
    /\ det = NoScores
    /\ warnings = {}
    /\ ai = NotUsed
    /\ result = NoResult
    /\ rows = {}
    /\ routing = NoRouting

\* A level, by its score, for some of the criteria.
Selections == UNION {[K -> LevelScores] : K \in SUBSET Criteria}

\* What a provider may return.
Suggestions == [key : Criteria \cup ForeignKeys, score : 0 .. RubricMax + 1, wellFormed : BOOLEAN]
Reply(suggestions, confidence) == [suggestions |-> suggestions, confidence |-> confidence]

-----------------------------------------------------------------------------
(* Stages                                                                  *)

\* _run_deterministic_stage: levels from answer-key rules, overridden by the
\* manual levels.  An answer key without rules is a warning; so is no level.
RunDeterministicStage(selected, keyHasNoRules) ==
    /\ stage = "created"
    /\ status' = "running"
    /\ stage' = "scored"
    /\ det' = CriterionScores(selected)
    /\ warnings' = When(keyHasNoRules, {"answer_key_no_rules"})
                   \cup When(~Scored(selected), {"partial_grading"})
    /\ UNCHANGED <<policy, ai, result, rows, routing>>

\* _invoke_and_validate_ai: any exception of the provider is an error outcome.
Advise(outcome) ==
    /\ stage = "scored"
    /\ policy.aiAllowed
    /\ stage' = "advised"
    /\ ai' = outcome
    /\ UNCHANGED <<status, policy, det, warnings, result, rows, routing>>

InvokeAI(reply) == Advise(Judged(reply))

ProviderFails == Advise(Failed)

\* AI not allowed, or no provider configured.
SkipAI ==
    /\ stage = "scored"
    /\ stage' = "advised"
    /\ UNCHANGED <<status, policy, det, warnings, ai, result, rows, routing>>

\* _build_grading_result
BuildResult ==
    /\ stage = "advised"
    /\ stage' = "proposed"
    /\ result' = ScoreAndConfidence(det, ai)
    /\ rows' = CriterionRows(det, ai)
    /\ UNCHANGED <<status, policy, det, warnings, ai, routing>>

\* _apply_routing_policy, and the completion of the run
ApplyRouting ==
    LET reasons == Reasons(policy, det, warnings, ai) IN
    /\ stage = "proposed"
    /\ stage' = "routed"
    /\ status' = "completed"
    /\ routing' = [decision |-> Route(policy, det, warnings, ai), reasons |-> reasons,
                   band |-> Band(policy, result.confidence), priority |-> Priority(reasons)]
    /\ UNCHANGED <<policy, det, warnings, ai, result, rows>>

\* An unknown level or rule type, or an error of the database.
Fail ==
    /\ stage \in {"created", "scored", "advised", "proposed"}
    /\ stage' = "failed"
    /\ status' = "failed"
    /\ UNCHANGED <<policy, det, warnings, ai, result, rows, routing>>

Next ==
    \/ \E selected \in Selections, none \in BOOLEAN : RunDeterministicStage(selected, none)
    \/ \E n \in 0 .. MaxSuggestions : \E suggestions \in [1 .. n -> Suggestions] :
          \E confidence \in 0 .. FullConfidence + 1 : InvokeAI(Reply(suggestions, confidence))
    \/ ProviderFails
    \/ SkipAI
    \/ BuildResult
    \/ ApplyRouting
    \/ Fail

Spec == Init /\ [][Next]_vars

-----------------------------------------------------------------------------
(* Properties                                                              *)

Scores(k) == 0 .. MaxScore[k]

\* Whatever the provider returns, every score is inside the bounds of the rubric
\* (grading_orchestration.py:445), and a result has a total exactly when it has a
\* criterion row (:1319).
TypeOK ==
    /\ status \in {"queued", "running", "completed", "failed"}
    /\ stage \in {"created", "scored", "advised", "proposed", "routed", "failed"}
    /\ policy \in RequestPolicies
    /\ DOMAIN det \subseteq Criteria
    /\ \A k \in DOMAIN det : det[k] \in Scores(k)
    /\ warnings \subseteq {"answer_key_no_rules", "partial_grading"}
    /\ ai.status \in {"not_used", "valid", "invalid", "failed"}
    /\ \A suggestion \in Suggested(ai) :
          suggestion.key \in Criteria /\ suggestion.score \in Scores(suggestion.key)
    /\ result.max \in Nat
    /\ result.total \in (0 .. result.max) \cup {Null}
    /\ result.confidence \in 0 .. FullConfidence
    /\ \A row \in rows : row.key \in Criteria /\ row.score \in Scores(row.key)
    /\ stage \in {"proposed", "routed"} => (result.total = Null <=> rows = {})

RowsOf(k) == {row \in rows : row.key = k}

\* docs/logic/05-grading-orchestration.md, "may auto-finalize only when": a
\* result the policy accepts without a human has a row for every criterion, no
\* score the two sources disagree on, no deterministic warning, enough
\* confidence, and no policy or missing AI output against it.
AutoAcceptIsEarned ==
    routing.decision = "auto_accept" =>
        /\ \A k \in Criteria : RowsOf(k) # {}
        /\ \A suggestion \in Suggested(ai) : \A row \in RowsOf(suggestion.key) :
              row.source = "deterministic" => row.score = suggestion.score
        /\ "answer_key_no_rules" \notin warnings
        /\ result.confidence >= policy.threshold
        /\ policy.aiRequired => ai.status = "valid"
        /\ policy.autoFinalize /\ ~policy.mandatoryReview

\* The other direction: a result reaches a teacher only for a cause the
\* documents name.  In particular an unusable optional AI output does not
\* hold back a complete deterministic score.
ReviewHasCause ==
    routing.decision = "review" =>
        \/ \E k \in Criteria : RowsOf(k) = {}
        \/ \E suggestion \in Suggested(ai) :
              \E row \in RowsOf(suggestion.key) : row.score # suggestion.score
        \/ "answer_key_no_rules" \in warnings
        \/ result.confidence < policy.threshold
        \/ policy.aiRequired /\ ai.status # "valid"
        \/ policy.mandatoryReview \/ ~policy.autoFinalize

\* docs/logic/05-grading-orchestration.md: invalid AI output is not used.
\* Whatever an invalid output or a failed provider said, the result is the
\* deterministic one.
UnusableOutputIsNotUsed ==
    stage \in {"proposed", "routed"} /\ ai.status # "valid" =>
        /\ \A row \in rows : row.source = "deterministic"
        /\ result.max = RubricMax
        /\ result.confidence \in {0, FullConfidence}

\* docs/logic/05-grading-orchestration.md: AI does not override deterministic
\* facts.  A criterion scored deterministically keeps that score as its only
\* row, and an AI that contradicts it sends the result to a teacher as urgent.
DeterministicPrevails ==
    /\ stage \in {"proposed", "routed"} =>
          \A k \in DOMAIN det : {row.score : row \in RowsOf(k)} = {det[k]}
    /\ stage = "routed" /\ Disagrees(det, ai) =>
          routing.decision = "review" /\ routing.priority = "high"

\* The confidence of a result is at most that of the AI output it used and zero
\* when nothing scored, and the band shown to a teacher is high exactly when low
\* confidence was no reason for a review (_score_and_confidence :1319,
\* _confidence_band :1487).  The edges of the lower bands are not in it.
ConfidenceIsWeakestSignal ==
    /\ stage \in {"proposed", "routed"} =>
          /\ ai.status = "valid" => result.confidence <= ai.confidence
          /\ rows = {} => result.confidence = 0
    /\ stage = "routed" =>
          (routing.band = "high" <=> "confidence_below_threshold" \notin routing.reasons)

\* docs/logic/06-confidence-policy.md: confidence is not a reason to finalize
\* incomplete rubric coverage.  The total of an automatically accepted result
\* covers the rows of all its criteria.
RowScores == [row \in rows |-> row.score]
TotalCoversRubric ==
    routing.decision = "auto_accept" => result.total = SumFunction(RowScores)

=============================================================================
