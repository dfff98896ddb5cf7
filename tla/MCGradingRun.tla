---------------------------- MODULE MCGradingRun ----------------------------
(* Two criteria of different weight, and the policies that differ in one
   respect from the default. *)
EXTENDS GradingRun

CONSTANTS first, second, unknown

MCWeight == [k \in Criteria |-> IF k = first THEN 1 ELSE 2]

Default ==
    [aiAllowed |-> TRUE, aiRequired |-> FALSE, autoFinalize |-> TRUE,
     mandatoryReview |-> FALSE, threshold |-> 2, reviewThreshold |-> 1]

MCRequestPolicies ==
    {Default,
     [Default EXCEPT !.aiAllowed = FALSE],
     [Default EXCEPT !.aiRequired = TRUE],
     [Default EXCEPT !.aiAllowed = FALSE, !.aiRequired = TRUE],
     [Default EXCEPT !.autoFinalize = FALSE],
     [Default EXCEPT !.mandatoryReview = TRUE],
     [Default EXCEPT !.threshold = 0, !.reviewThreshold = 0],
     [Default EXCEPT !.threshold = 1, !.reviewThreshold = 2]}

MCDefaultPolicy == {Default}

=============================================================================
