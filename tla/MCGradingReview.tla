--------------------------- MODULE MCGradingReview ---------------------------
(* One criterion with levels 0 and 1, and three things a run may produce. *)
EXTENDS GradingReview, TLC

CONSTANT criterion

MCWeight == [k \in Criteria |-> 1]

Default ==
    [aiAllowed |-> TRUE, aiRequired |-> FALSE, autoFinalize |-> TRUE,
     mandatoryReview |-> FALSE, threshold |-> 2, reviewThreshold |-> 1]

Suggest(score, confidence) ==
    Judged([suggestions |-> <<[key |-> criterion, score |-> score, wellFormed |-> TRUE]>>,
            confidence |-> confidence])

NoLevel == CriterionScores([k \in {} |-> 0])

MCSignals ==
    { \* every criterion has a deterministic score
      [policy |-> Default, det |-> CriterionScores([k \in Criteria |-> 1]),
       warnings |-> {}, ai |-> NotUsed],
      \* the AI scored everything and is not sure
      [policy |-> Default, det |-> NoLevel, warnings |-> {"partial_grading"}, ai |-> Suggest(1, 1)],
      \* nothing scored: no level and a failed provider
      [policy |-> Default, det |-> NoLevel, warnings |-> {"partial_grading"}, ai |-> Failed] }

Symmetry == Permutations(Packages) \cup Permutations(Runs)
                \cup Permutations(Graders) \cup Permutations(Teachers)

=============================================================================
