-------------------------- MODULE ConfidencePolicy --------------------------
(***************************************************************************)
(* What app/db/services/grading_orchestration.py computes for one grading  *)
(* run: the score and confidence of the result, the criterion rows, and    *)
(* the decision of the confidence policy.                                  *)
(*                                                                         *)
(* det is the function from the criteria the deterministic stage scored to *)
(* their scores; warnings is the set of its warnings.  ai is the outcome   *)
(* of the provider call.  Decimals are naturals in a fixed unit: scores in *)
(* the unit of the level scores, confidence in 1 / FullConfidence.         *)
(***************************************************************************)
EXTENDS Naturals, Sequences, FiniteSets, Functions

CONSTANTS
    Criteria,        \* criterion keys of the published rubric version
    Weight,          \* criterion weights
    LevelScores,     \* scores of the performance levels
    FullConfidence,  \* Decimal("1")
    Null             \* SQL NULL

\* validate_rubric_schema: a published rubric has criteria, a list of them;
\* weights are positive and level scores are not negative.
ASSUME CriteriaAssumption == Criteria # {} /\ IsFiniteSet(Criteria)
ASSUME WeightAssumption == Weight \in [Criteria -> Nat \ {0}]
ASSUME LevelScoresAssumption ==
    LevelScores \subseteq Nat /\ \E m \in LevelScores : \A l \in LevelScores : l <= m
ASSUME FullConfidenceAssumption == FullConfidence \in Nat \ {0}
ASSUME NullAssumption == Null \notin Nat

Policies ==
    [aiAllowed : BOOLEAN, aiRequired : BOOLEAN, autoFinalize : BOOLEAN,
     mandatoryReview : BOOLEAN, threshold : 0 .. FullConfidence,
     reviewThreshold : 0 .. FullConfidence]

-----------------------------------------------------------------------------
(* The rubric                                                              *)

MaxLevelScore == CHOOSE m \in LevelScores : \A l \in LevelScores : l <= m

\* _criterion_max_scores and _max_score_from_rubric
MaxScore == [k \in Criteria |-> MaxLevelScore * Weight[k]]
RubricMax == SumFunction(MaxScore)

\* calculate_deterministic_score: the scores of the criteria a level was
\* selected for.  A criterion without a level has no score, which is no error.
CriterionScores(selected) == [k \in DOMAIN selected |-> selected[k] * Weight[k]]

\* Mutant: the larger of two confidences.
Larger(a, b) == IF a < b THEN b ELSE a
Smaller(a, b) == IF a < b THEN a ELSE b

-----------------------------------------------------------------------------
(* The AI output                                                           *)

\* Mutant: the score is not compared with the criterion's maximum.
ValidReplyUnbounded(reply) ==
    /\ reply.suggestions # <<>>
    /\ \A i \in DOMAIN reply.suggestions :
          reply.suggestions[i].key \in Criteria /\ reply.suggestions[i].wellFormed
    /\ reply.confidence \in 0 .. FullConfidence

\* validate_ai_output.  A suggestion is wellFormed when its confidence,
\* explanation and evidence references pass; a key may occur twice.
ValidReply(reply) ==
    /\ reply.suggestions # <<>>
    /\ \A i \in DOMAIN reply.suggestions :
          LET suggestion == reply.suggestions[i] IN
          /\ suggestion.key \in Criteria
          /\ suggestion.score \in 0 .. MaxScore[suggestion.key]
          /\ suggestion.wellFormed
    /\ reply.confidence \in 0 .. FullConfidence

\* The payload is kept only when it is valid; otherwise an error is.
Outcome(status) == [status |-> status, confidence |-> 0, suggestions |-> <<>>]
NotUsed == Outcome("not_used")
Failed == Outcome("failed")
\* Mutant: an invalid output keeps its confidence.
JudgedKeepingConfidence(reply) ==
    [status |-> IF ValidReply(reply) THEN "valid" ELSE "invalid",
     confidence |-> Smaller(reply.confidence, FullConfidence),
     suggestions |-> IF ~ValidReply(reply) THEN <<>>
                     ELSE [i \in DOMAIN reply.suggestions |->
              [key |-> reply.suggestions[i].key, score |-> reply.suggestions[i].score]]]
Judged(reply) ==
    IF ValidReply(reply)
    THEN [status |-> "valid", confidence |-> reply.confidence,
          suggestions |-> [i \in DOMAIN reply.suggestions |->
              [key |-> reply.suggestions[i].key, score |-> reply.suggestions[i].score]]]
    ELSE Outcome("invalid")

HasPayload(ai) == ai.status = "valid"
HasError(ai) == ai.status \in {"invalid", "failed"}

Suggested(ai) == {ai.suggestions[i] : i \in DOMAIN ai.suggestions}
AiKeys(ai) == {suggestion.key : suggestion \in Suggested(ai)}

-----------------------------------------------------------------------------
(* The result                                                              *)

SuggestedTotal(ai) ==
    SumFunction([i \in DOMAIN ai.suggestions |-> ai.suggestions[i].score])
SuggestedMax(ai) ==
    SumFunction([i \in DOMAIN ai.suggestions |-> MaxScore[ai.suggestions[i].key]])

Scored(det) == DOMAIN det # {}

\* _score_and_confidence: deterministic scores, however few, set the total.
Confidence(det, ai) ==
    IF Scored(det)
    THEN IF HasPayload(ai) THEN Smaller(FullConfidence, ai.confidence) ELSE FullConfidence
    ELSE ai.confidence

ScoreAndConfidence(det, ai) ==
    [confidence |-> Confidence(det, ai),
     total |-> IF Scored(det) THEN SumFunction(det)
               ELSE IF HasPayload(ai) THEN SuggestedTotal(ai) ELSE Null,
     max |-> IF Scored(det) \/ ~HasPayload(ai) THEN RubricMax ELSE SuggestedMax(ai)]

\* What the score of a run may be: naturals (so no total is NULL), a total
\* within its maximum, none only if nothing scored.  Only a valid output suggests.
ScoreIsSound(det, ai) ==
    LET score == ScoreAndConfidence(det, ai) IN
    /\ score \in [confidence : Nat, total : Nat \cup {Null}, max : Nat]
    /\ score.total \in (0 .. score.max) \cup {Null}
    /\ score.total = Null => ~Scored(det) /\ ~HasPayload(ai)
    /\ Suggested(ai) # {} => HasPayload(ai)

\* _add_criterion_results: deterministic rows, then an AI row for every
\* suggestion on a criterion the deterministic stage did not score.
DeterministicRows(det) ==
    {[source |-> "deterministic", nth |-> 0, key |-> k, score |-> det[k]] : k \in DOMAIN det}
\* Mutant: AI rows for criteria the deterministic stage scored, too.
AiRowsForAll(det, ai) ==
    {[source |-> "ai", nth |-> i, key |-> ai.suggestions[i].key,
      score |-> ai.suggestions[i].score] : i \in DOMAIN ai.suggestions}
AiRows(det, ai) ==
    {[source |-> "ai", nth |-> i, key |-> ai.suggestions[i].key,
      score |-> ai.suggestions[i].score] :
        i \in {j \in DOMAIN ai.suggestions : ai.suggestions[j].key \notin DOMAIN det}}
CriterionRows(det, ai) == DeterministicRows(det) \cup AiRows(det, ai)

-----------------------------------------------------------------------------
(* The decision                                                            *)

Covered(det, ai) == DOMAIN det \cup AiKeys(ai)
\* Mutant: any covered criterion will do.
CoverageStarted(det, ai) == Criteria \cap Covered(det, ai) # {}
CoverageComplete(det, ai) == Criteria \subseteq Covered(det, ai)

\* _has_deterministic_ai_disagreement
Disagrees(det, ai) ==
    \E suggestion \in Suggested(ai) :
        suggestion.key \in DOMAIN det /\ suggestion.score # det[suggestion.key]

When(condition, reasons) == IF condition THEN reasons ELSE {}

\* Mutant: an AI error always needs a teacher.
ReasonsOfAnyError(policy, det, warnings, ai) ==
    When(policy.mandatoryReview, {"mandatory_review_policy"})
    \cup When(HasError(ai) \/ (policy.aiRequired /\ ~HasPayload(ai)), {"ai_validation_failed"})
    \cup When(~CoverageComplete(det, ai), {"partial_grading", "rubric_coverage_incomplete"})
    \cup When(Disagrees(det, ai), {"deterministic_ai_disagreement"})
    \cup When(~policy.autoFinalize, {"auto_finalize_disabled"})
    \cup When(Confidence(det, ai) < policy.threshold, {"confidence_below_threshold"})
    \cup (warnings \ When(CoverageComplete(det, ai), {"partial_grading"}))

\* _evaluate_confidence_policy: the reasons, without their order.
Reasons(policy, det, warnings, ai) ==
    When(policy.mandatoryReview, {"mandatory_review_policy"})
    \cup When(HasError(ai) /\ (policy.aiRequired \/ ~CoverageComplete(det, NotUsed)),
              {"ai_validation_failed"})
    \cup When(policy.aiRequired /\ ~HasPayload(ai), {"ai_validation_failed"})
    \cup When(~CoverageComplete(det, ai), {"partial_grading", "rubric_coverage_incomplete"})
    \cup When(Disagrees(det, ai), {"deterministic_ai_disagreement"})
    \cup When(~policy.autoFinalize, {"auto_finalize_disabled"})
    \cup When(Confidence(det, ai) < policy.threshold, {"confidence_below_threshold"})
    \cup (warnings \ When(CoverageComplete(det, ai), {"partial_grading"}))

Route(policy, det, warnings, ai) ==
    IF Reasons(policy, det, warnings, ai) = {} THEN "auto_accept" ELSE "review"

\* _confidence_band and _review_priority
Band(policy, confidence) ==
    CASE confidence >= policy.threshold -> "high"
      [] confidence < policy.threshold /\ confidence >= policy.reviewThreshold -> "medium"
      [] confidence < policy.threshold /\ confidence < policy.reviewThreshold
            /\ confidence > 0 -> "low"
      [] OTHER -> "blocked"

Priority(reasons) ==
    IF reasons \cap {"deterministic_ai_disagreement", "ai_validation_failed"} # {}
    THEN "high" ELSE "normal"

=============================================================================
