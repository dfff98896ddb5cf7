-------------------------- MODULE GradingRunProofs --------------------------
(***************************************************************************)
(* Proofs about GradingRun, for any rubric, grading policies and provider: *)
(* that scores stay within the bounds of the rubric, which results are     *)
(* accepted without a human and which are not, and what the AI can do to   *)
(* a result.                                                               *)
(***************************************************************************)
EXTENDS GradingRun, FoldLemmas

Stages == {"created", "scored", "advised", "proposed", "routed", "failed"}

\* Deterministic scores and the suggestions of an AI are scores of the rubric.
DetOK(scores) ==
    /\ DOMAIN scores \subseteq Criteria
    /\ \A k \in DOMAIN scores : scores[k] \in Scores(k)

SuggestionsOK(suggestions) ==
    /\ IsFiniteSet(DOMAIN suggestions)
    /\ \A i \in DOMAIN suggestions :
          suggestions[i].key \in Criteria /\ suggestions[i].score \in Scores(suggestions[i].key)

\* The outcome of a provider call: without a valid output it says nothing, with
\* one it says something.
OutcomeOK(outcome) ==
    /\ SuggestionsOK(outcome.suggestions)
    /\ outcome.status \in {"not_used", "valid", "invalid", "failed"}
    /\ outcome.confidence \in 0 .. FullConfidence
    /\ outcome.status # "valid" => outcome.suggestions = <<>> /\ outcome.confidence = 0
    /\ outcome.status = "valid" => DOMAIN outcome.suggestions # {}

\* What each stage leaves behind.
RunInv ==
    /\ stage \in Stages
    /\ policy \in RequestPolicies
    /\ DetOK(det)
    /\ warnings \subseteq {"answer_key_no_rules", "partial_grading"}
    /\ OutcomeOK(ai)
    /\ stage \in {"proposed", "routed"} =>
          result = ScoreAndConfidence(det, ai) /\ rows = CriterionRows(det, ai)
    /\ stage = "routed" =>
          LET reasons == Reasons(policy, det, warnings, ai) IN
          routing = [decision |-> Route(policy, det, warnings, ai), reasons |-> reasons,
                     band |-> Band(policy, result.confidence), priority |-> Priority(reasons)]
    /\ stage # "routed" => routing = NoRouting
    /\ stage \in {"created", "scored", "advised"} => result = NoResult /\ rows = {}
    /\ stage = "failed" =>
          \/ result = NoResult /\ rows = {}
          \/ result = ScoreAndConfidence(det, ai) /\ rows = CriterionRows(det, ai)
    /\ status \in {"queued", "running", "completed", "failed"}

-----------------------------------------------------------------------------
LEMMA NothingOK == SuggestionsOK(<<>>)
<1>1. DOMAIN <<>> = {}
  OBVIOUS
<1> QED
  BY <1>1, FS_EmptySet DEF SuggestionsOK

LEMMA JudgedOK ==
    ASSUME NEW n \in 0 .. MaxSuggestions, NEW suggestions \in [1 .. n -> Suggestions],
           NEW confidence
    PROVE  OutcomeOK(Judged(Reply(suggestions, confidence)))
<1> DEFINE reply == Reply(suggestions, confidence)
<1>0. reply.suggestions = suggestions
  BY DEF Reply
<1>1. CASE ValidReply(reply)
  <2>1. suggestions # <<>> /\ confidence \in 0 .. FullConfidence
    BY <1>1 DEF ValidReply, Reply
  <2>2. DOMAIN suggestions # {}
    <3>1. suggestions \in Seq(Suggestions)
      OBVIOUS
    <3>2. Len(suggestions) # 0
      BY <2>1, <3>1
    <3>3. 1 \in DOMAIN suggestions
      BY <3>1, <3>2
    <3> QED
      BY <3>3
  <2> DEFINE said == [i \in DOMAIN suggestions |->
                        [key |-> suggestions[i].key, score |-> suggestions[i].score]]
  <2>3. Judged(reply) = [status |-> "valid", confidence |-> confidence, suggestions |-> said]
    BY <1>1 DEF Judged, Reply
  <2>4. SuggestionsOK(said)
    <3>1. IsFiniteSet(DOMAIN suggestions)
      <4>1. DOMAIN suggestions = 1 .. n /\ n \in Int
        OBVIOUS
      <4> QED
        BY <4>1, FS_Interval
    <3>2. ASSUME NEW i \in DOMAIN suggestions
          PROVE  suggestions[i].key \in Criteria
                 /\ suggestions[i].score \in Scores(suggestions[i].key)
      BY <1>0, <1>1 DEF ValidReply, Scores
    <3> QED
      BY <3>1, <3>2 DEF SuggestionsOK
  <2>5. DOMAIN said = DOMAIN suggestions
    OBVIOUS
  <2> HIDE DEF reply, said
  <2>6. OutcomeOK([status |-> "valid", confidence |-> confidence, suggestions |-> said])
    BY <2>1, <2>2, <2>4, <2>5 DEF OutcomeOK
  <2> QED
    BY <2>3, <2>6 DEF reply
<1>2. CASE ~ValidReply(reply)
  <2>1. Judged(reply) = Outcome("invalid")
    BY <1>2 DEF Judged
  <2> QED
    BY <2>1, NothingOK, FullConfidenceAssumption DEF OutcomeOK, Outcome
<1> HIDE DEF reply
<1> QED
  BY <1>1, <1>2 DEF reply

LEMMA FailedOK == OutcomeOK(Failed) /\ OutcomeOK(NotUsed)
BY NothingOK, FullConfidenceAssumption DEF Failed, NotUsed, Outcome, OutcomeOK

\* The maximum of a criterion is a natural, and no level scores more.
LEMMA MaxScores ==
    ASSUME NEW k \in Criteria
    PROVE  /\ MaxScore[k] \in Nat
           /\ \A l \in LevelScores : l * Weight[k] \in Scores(k)
<1>1. Weight[k] \in Nat /\ LevelScores \subseteq Nat
  BY WeightAssumption, LevelScoresAssumption
<1>2. MaxLevelScore \in LevelScores /\ \A l \in LevelScores : l <= MaxLevelScore
  BY LevelScoresAssumption DEF MaxLevelScore
<1>3. MaxScore[k] = MaxLevelScore * Weight[k]
  BY DEF MaxScore
<1>4. ASSUME NEW l \in LevelScores PROVE l * Weight[k] \in 0 .. MaxLevelScore * Weight[k]
  <2>1. PICK w \in Nat, m \in Nat, n \in Nat :
          w = Weight[k] /\ m = MaxLevelScore /\ n = l /\ n <= m
    BY <1>1, <1>2
  <2>2. PICK d \in Nat : m = n + d
    <3>1. m - n \in Nat /\ m = n + (m - n)
      BY <2>1
    <3> QED
      BY <3>1
  <2>3. m * w = n * w + d * w
    BY <2>2
  <2>4. n * w \in Nat /\ d * w \in Nat /\ m * w \in Nat
    OBVIOUS
  <2>5. n * w <= m * w
    BY <2>3, <2>4
  <2> QED
    BY <2>1, <2>4, <2>5
<1>5. MaxLevelScore * Weight[k] \in Nat
  BY <1>1, <1>2
<1> QED
  BY <1>3, <1>4, <1>5 DEF Scores

LEMMA SelectedOK ==
    ASSUME NEW selected \in Selections
    PROVE  DetOK(CriterionScores(selected))
<1>1. PICK K \in SUBSET Criteria : selected \in [K -> LevelScores]
  BY DEF Selections
<1>2. ASSUME NEW k \in K PROVE CriterionScores(selected)[k] \in Scores(k)
  <2>1. CriterionScores(selected)[k] = selected[k] * Weight[k]
    BY <1>1 DEF CriterionScores
  <2> QED
    BY <1>1, <2>1, MaxScores
<1> QED
  BY <1>1, <1>2 DEF DetOK, CriterionScores

LEMMA InitInv == Init => RunInv
BY FailedOK DEF Init, RunInv, Stages, NoScores, DetOK

LEMMA AdviseStep ==
    ASSUME RunInv, NEW outcome, Advise(outcome), OutcomeOK(outcome)
    PROVE  RunInv'
BY DEF RunInv, Advise, Stages

LEMMA NextInv == RunInv /\ [Next]_vars => RunInv'
<1> SUFFICES ASSUME RunInv, [Next]_vars PROVE RunInv'
  OBVIOUS
<1>1. ASSUME NEW selected \in Selections, NEW none \in BOOLEAN,
             RunDeterministicStage(selected, none)
      PROVE  RunInv'
  <2>1. DetOK(CriterionScores(selected))
    BY SelectedOK
  <2>2. warnings' \subseteq {"answer_key_no_rules", "partial_grading"}
    BY <1>1 DEF RunDeterministicStage, When
  <2> QED
    BY <1>1, <2>1, <2>2 DEF RunInv, RunDeterministicStage, Stages
<1>2. ASSUME NEW n \in 0 .. MaxSuggestions, NEW suggestions \in [1 .. n -> Suggestions],
             NEW confidence, InvokeAI(Reply(suggestions, confidence))
      PROVE  RunInv'
  BY <1>2, JudgedOK, AdviseStep DEF InvokeAI
<1>3. CASE ProviderFails
  BY <1>3, FailedOK, AdviseStep DEF ProviderFails
<1>4. CASE SkipAI
  BY <1>4 DEF RunInv, SkipAI, Stages
<1>5. CASE BuildResult
  BY <1>5 DEF RunInv, BuildResult, Stages
<1>6. CASE ApplyRouting
  BY <1>6 DEF RunInv, ApplyRouting, Stages
<1>7. CASE Fail
  BY <1>7 DEF RunInv, Fail, Stages
<1>8. CASE UNCHANGED vars
  BY <1>8 DEF RunInv, vars
<1> QED
  BY <1>1, <1>2, <1>3, <1>4, <1>5, <1>6, <1>7, <1>8 DEF Next

LEMMA Invariance == Spec => []RunInv
BY InitInv, NextInv, PTL DEF Spec

-----------------------------------------------------------------------------
(* The criterion rows                                                      *)

\* Every row is that of a deterministic score or of a suggestion.
LEMMA RowSources ==
    ASSUME NEW d, NEW a, NEW row \in CriterionRows(d, a)
    PROVE  \/ row.source = "deterministic" /\ row.key \in DOMAIN d /\ row.score = d[row.key]
           \/ row.source = "ai" /\ row.key \notin DOMAIN d /\ row.key \in AiKeys(a)
BY DEF CriterionRows, DeterministicRows, AiRows, AiKeys, Suggested

\* A criterion has a row exactly when it is covered.
LEMMA RowsCover ==
    ASSUME NEW d, NEW a, NEW k
    PROVE  (\E row \in CriterionRows(d, a) : row.key = k) <=> k \in Covered(d, a)
<1>1. ASSUME NEW row \in CriterionRows(d, a), row.key = k
      PROVE  k \in Covered(d, a)
  BY <1>1, RowSources DEF Covered
<1>2. ASSUME k \in DOMAIN d
      PROVE  \E row \in CriterionRows(d, a) : row.key = k
  <2> DEFINE row == [source |-> "deterministic", nth |-> 0, key |-> k, score |-> d[k]]
  <2>1. row \in CriterionRows(d, a)
    BY <1>2 DEF CriterionRows, DeterministicRows
  <2> QED
    BY <2>1
<1>3. ASSUME k \in AiKeys(a), k \notin DOMAIN d
      PROVE  \E row \in CriterionRows(d, a) : row.key = k
  <2>1. PICK i \in DOMAIN a.suggestions : a.suggestions[i].key = k
    BY <1>3 DEF AiKeys, Suggested
  <2> DEFINE row == [source |-> "ai", nth |-> i, key |-> a.suggestions[i].key,
                     score |-> a.suggestions[i].score]
  <2>2. row \in CriterionRows(d, a)
    BY <1>3, <2>1 DEF CriterionRows, AiRows
  <2> QED
    BY <2>1, <2>2
<1> QED
  BY <1>1, <1>2, <1>3 DEF Covered

\* A criterion with a deterministic score has that row alone.
LEMMA DeterministicRow ==
    ASSUME NEW d, NEW a, NEW k \in DOMAIN d
    PROVE  {row.score : row \in {r \in CriterionRows(d, a) : r.key = k}} = {d[k]}
<1>1. \A row \in CriterionRows(d, a) : row.key = k => row.score = d[k]
  BY RowSources
<1>2. \E row \in CriterionRows(d, a) : row.key = k
  BY RowsCover DEF Covered
<1> QED
  BY <1>1, <1>2

\* An output that is not valid has no suggestion: nothing is scored by it.
LEMMA UnusableSuggestsNothing ==
    ASSUME NEW a, OutcomeOK(a), a.status # "valid"
    PROVE  Suggested(a) = {} /\ AiKeys(a) = {} /\ a.confidence = 0 /\ ~HasPayload(a)
BY DEF OutcomeOK, Suggested, AiKeys, HasPayload

-----------------------------------------------------------------------------
(* The score                                                               *)

\* The sum of some scores of the rubric is at most the sum of their maxima.
LEMMA DeterministicTotal ==
    ASSUME NEW d, DetOK(d)
    PROVE  SumFunction(d) \in Nat /\ RubricMax \in Nat /\ SumFunction(d) <= RubricMax
<1>1. IsFiniteSet(Criteria) /\ \A k \in Criteria : MaxScore[k] \in Nat
  BY CriteriaAssumption, MaxScores
<1>2. /\ DOMAIN d \in SUBSET Criteria
      /\ \A k \in DOMAIN d : d[k] \in Nat /\ d[k] <= MaxScore[k]
  BY <1>1 DEF DetOK, Scores
<1>3. SumFunctionOnSet(d, DOMAIN d) <= SumFunctionOnSet(MaxScore, Criteria)
  BY <1>1, <1>2, SumMonotone
<1>4. SumFunctionOnSet(MaxScore, Criteria) \in Nat
  BY <1>1, SumTakes
<1>5. SumFunctionOnSet(d, DOMAIN d) \in Nat
  <2>1. IsFiniteSet(DOMAIN d)
    BY <1>1, <1>2, FS_Subset
  <2> QED
    BY <1>2, <2>1, SumTakes
<1>6. DOMAIN MaxScore = Criteria
  BY DEF MaxScore
<1> QED
  BY <1>3, <1>4, <1>5, <1>6 DEF SumFunction, RubricMax

LEMMA SuggestionTotal ==
    ASSUME NEW a, SuggestionsOK(a.suggestions)
    PROVE  /\ SuggestedTotal(a) \in Nat /\ SuggestedMax(a) \in Nat
           /\ SuggestedTotal(a) <= SuggestedMax(a)
<1> DEFINE N == DOMAIN a.suggestions
           f == [i \in N |-> a.suggestions[i].score]
           g == [i \in N |-> MaxScore[a.suggestions[i].key]]
<1>1. IsFiniteSet(N)
  BY DEF SuggestionsOK
<1>2. \A i \in N : f[i] \in Nat /\ g[i] \in Nat /\ f[i] <= g[i]
  BY MaxScores DEF SuggestionsOK, Scores
<1>3. SuggestedTotal(a) = SumFunctionOnSet(f, N) /\ SuggestedMax(a) = SumFunctionOnSet(g, N)
  BY DEF SuggestedTotal, SuggestedMax, SumFunction
<1> HIDE DEF f, g, N
<1>4. SumFunctionOnSet(f, N) <= SumFunctionOnSet(g, N)
  BY <1>1, <1>2, SumMonotone
<1>5. SumFunctionOnSet(f, N) \in Nat /\ SumFunctionOnSet(g, N) \in Nat
  BY <1>1, <1>2, SumTakes
<1> QED
  BY <1>3, <1>4, <1>5

\* The score of a run is sound.
LEMMA Soundness ==
    ASSUME NEW d, NEW a, DetOK(d), OutcomeOK(a)
    PROVE  /\ ScoreIsSound(d, a)
           /\ ScoreAndConfidence(d, a).confidence \in 0 .. FullConfidence
<1>1. Confidence(d, a) \in 0 .. FullConfidence
  BY FullConfidenceAssumption DEF Confidence, Smaller, OutcomeOK
<1>2. /\ SumFunction(d) \in Nat /\ RubricMax \in Nat /\ SumFunction(d) <= RubricMax
      /\ SuggestedTotal(a) \in Nat /\ SuggestedMax(a) \in Nat
      /\ SuggestedTotal(a) <= SuggestedMax(a)
  BY DeterministicTotal, SuggestionTotal DEF OutcomeOK
<1>3. Suggested(a) # {} => HasPayload(a)
  BY DEF OutcomeOK, Suggested, HasPayload
<1> DEFINE total == IF Scored(d) THEN SumFunction(d)
                    ELSE IF HasPayload(a) THEN SuggestedTotal(a) ELSE Null
           max == IF Scored(d) \/ ~HasPayload(a) THEN RubricMax ELSE SuggestedMax(a)
<1>4. ScoreAndConfidence(d, a) = [confidence |-> Confidence(d, a), total |-> total, max |-> max]
  BY DEF ScoreAndConfidence
<1>5. /\ total \in Nat \cup {Null} /\ max \in Nat /\ total \in (0 .. max) \cup {Null}
      /\ total = Null => ~Scored(d) /\ ~HasPayload(a)
  BY <1>2, NullAssumption
<1>6. FullConfidence \in Nat
  BY FullConfidenceAssumption
<1> HIDE DEF total, max
<1> QED
  BY <1>1, <1>3, <1>4, <1>5, <1>6 DEF ScoreIsSound

\* Every row scores a criterion of the rubric within its bounds.
LEMMA RowWithinBounds ==
    ASSUME NEW d, NEW a, DetOK(d), OutcomeOK(a), NEW row \in CriterionRows(d, a)
    PROVE  row.key \in Criteria /\ row.score \in Scores(row.key)
<1>1. CASE row \in DeterministicRows(d)
  BY <1>1 DEF DeterministicRows, DetOK
<1>2. CASE row \in AiRows(d, a)
  BY <1>2 DEF AiRows, OutcomeOK, SuggestionsOK
<1> QED
  BY <1>1, <1>2 DEF CriterionRows

\* A result has a total exactly when it has a row.
LEMMA TotalIffRows ==
    ASSUME NEW d, NEW a, DetOK(d), OutcomeOK(a)
    PROVE  ScoreAndConfidence(d, a).total = Null <=> CriterionRows(d, a) = {}
<1>1. CriterionRows(d, a) = {} <=> Covered(d, a) = {}
  <2>1. ASSUME NEW row \in CriterionRows(d, a) PROVE row.key \in Covered(d, a)
    BY RowsCover
  <2>2. ASSUME NEW k \in Covered(d, a) PROVE CriterionRows(d, a) # {}
    BY RowsCover
  <2> QED
    BY <2>1, <2>2
<1>2. Covered(d, a) = {} <=> ~Scored(d) /\ ~HasPayload(a)
  <2>1. AiKeys(a) = {} <=> DOMAIN a.suggestions = {}
    BY DEF AiKeys, Suggested
  <2>2. DOMAIN a.suggestions = {} <=> ~HasPayload(a)
    BY DEF OutcomeOK, HasPayload
  <2> QED
    BY <2>1, <2>2 DEF Covered, Scored
<1>3. ScoreAndConfidence(d, a).total = Null <=> ~Scored(d) /\ ~HasPayload(a)
  <2>1. SumFunction(d) # Null /\ SuggestedTotal(a) # Null
    BY DeterministicTotal, SuggestionTotal, NullAssumption DEF OutcomeOK
  <2> QED
    BY <2>1 DEF ScoreAndConfidence
<1> QED
  BY <1>1, <1>2, <1>3

-----------------------------------------------------------------------------
(* The decision                                                            *)

\* A decision is only there on a routed run, and then it is that of the policy.
LEMMA Decided ==
    ASSUME RunInv, routing.decision \in {"auto_accept", "review"}
    PROVE  /\ stage = "routed"
           /\ routing.decision = "auto_accept" <=> Reasons(policy, det, warnings, ai) = {}
           /\ rows = CriterionRows(det, ai)
           /\ result.confidence = Confidence(det, ai)
BY DEF RunInv, NoRouting, Route, ScoreAndConfidence

\* The confidence policy finds no reason exactly when none of these holds.
LEMMA NoReason ==
    ASSUME NEW p, NEW d, NEW w, NEW a,
           w \subseteq {"answer_key_no_rules", "partial_grading"}
    PROVE  Reasons(p, d, w, a) = {} <=>
             /\ ~p.mandatoryReview
             /\ ~(HasError(a) /\ (p.aiRequired \/ ~CoverageComplete(d, NotUsed)))
             /\ ~(p.aiRequired /\ ~HasPayload(a))
             /\ CoverageComplete(d, a)
             /\ ~Disagrees(d, a)
             /\ p.autoFinalize
             /\ ~(Confidence(d, a) < p.threshold)
             /\ "answer_key_no_rules" \notin w
<1>1. \A c, S : When(c, S) = {} <=> ~c \/ S = {}
  BY DEF When
<1>2. CoverageComplete(d, a) =>
        (w \ When(CoverageComplete(d, a), {"partial_grading"}) = {} <=> "answer_key_no_rules" \notin w)
  BY DEF When
<1> DEFINE
      R1 == When(p.mandatoryReview, {"mandatory_review_policy"})
      R2 == When(HasError(a) /\ (p.aiRequired \/ ~CoverageComplete(d, NotUsed)),
                 {"ai_validation_failed"})
      R3 == When(p.aiRequired /\ ~HasPayload(a), {"ai_validation_failed"})
      R4 == When(~CoverageComplete(d, a), {"partial_grading", "rubric_coverage_incomplete"})
      R5 == When(Disagrees(d, a), {"deterministic_ai_disagreement"})
      R6 == When(~p.autoFinalize, {"auto_finalize_disabled"})
      R7 == When(Confidence(d, a) < p.threshold, {"confidence_below_threshold"})
      R8 == w \ When(CoverageComplete(d, a), {"partial_grading"})
<1>3. Reasons(p, d, w, a) = R1 \cup R2 \cup R3 \cup R4 \cup R5 \cup R6 \cup R7 \cup R8
  BY DEF Reasons
<1>4. /\ R1 = {} <=> ~p.mandatoryReview
      /\ R2 = {} <=> ~(HasError(a) /\ (p.aiRequired \/ ~CoverageComplete(d, NotUsed)))
      /\ R3 = {} <=> ~(p.aiRequired /\ ~HasPayload(a))
      /\ R4 = {} <=> CoverageComplete(d, a)
      /\ R5 = {} <=> ~Disagrees(d, a)
      /\ R6 = {} <=> p.autoFinalize
      /\ R7 = {} <=> ~(Confidence(d, a) < p.threshold)
  BY <1>1
<1>5. R4 = {} => (R8 = {} <=> "answer_key_no_rules" \notin w)
  BY <1>2, <1>4
<1> HIDE DEF R1, R2, R3, R4, R5, R6, R7, R8
<1>6. Reasons(p, d, w, a) = {} <=>
        R1 = {} /\ R2 = {} /\ R3 = {} /\ R4 = {} /\ R5 = {} /\ R6 = {} /\ R7 = {} /\ R8 = {}
  BY <1>3
<1> QED
  BY <1>4, <1>5, <1>6

\* Complete coverage is a row for every criterion.
LEMMA CoverageIsRows ==
    ASSUME RunInv, rows = CriterionRows(det, ai)
    PROVE  CoverageComplete(det, ai) <=> \A k \in Criteria : RowsOf(k) # {}
<1>1. \A k : RowsOf(k) # {} <=> k \in Covered(det, ai)
  BY RowsCover DEF RowsOf
<1> QED
  BY <1>1 DEF CoverageComplete

\* Without a deterministic score of any criterion, an AI error is complete
\* coverage's only obstacle: no suggestion of it counts.
LEMMA UnusableCoverage ==
    ASSUME RunInv, HasError(ai)
    PROVE  CoverageComplete(det, ai) <=> CoverageComplete(det, NotUsed)
<1>1. ai.status # "valid" /\ NotUsed.status # "valid"
  BY DEF HasError, NotUsed, Outcome
<1>2. AiKeys(ai) = {} /\ AiKeys(NotUsed) = {}
  BY <1>1, FailedOK, UnusableSuggestsNothing DEF RunInv
<1> QED
  BY <1>2 DEF CoverageComplete, Covered

-----------------------------------------------------------------------------
(* Theorems                                                                *)

\* validate_ai_output (grading_orchestration.py:445) and _score_and_confidence
\* (:1319): whatever rubric, answer key and provider, every row and suggestion
\* scores a criterion of the rubric within its maximum, a total is within the
\* maximum of its result, and a result has a total exactly when it has a row.
THEOREM ScoresWithinBounds == Spec => []TypeOK
<1>1. RunInv => TypeOK
  <2> SUFFICES ASSUME RunInv PROVE TypeOK
    OBVIOUS
  <2>1. DetOK(det) /\ OutcomeOK(ai)
    BY DEF RunInv
  <2>2. \A suggestion \in Suggested(ai) :
          suggestion.key \in Criteria /\ suggestion.score \in Scores(suggestion.key)
    BY <2>1 DEF OutcomeOK, SuggestionsOK, Suggested
  <2>3. CASE result = NoResult /\ rows = {}
    <3>1. stage \in {"proposed", "routed"} => (result.total = Null <=> rows = {})
      BY <2>3 DEF NoResult
    <3>2. result.max = 0 /\ result.total = Null /\ result.confidence = 0
      BY <2>3 DEF NoResult
    <3> QED
      BY <2>1, <2>2, <2>3, <3>1, <3>2, FullConfidenceAssumption
         DEF TypeOK, RunInv, Stages, DetOK, OutcomeOK
  <2>4. CASE result = ScoreAndConfidence(det, ai) /\ rows = CriterionRows(det, ai)
    <3>1. /\ result.max \in Nat /\ result.total \in (0 .. result.max) \cup {Null}
          /\ result.confidence \in 0 .. FullConfidence
      BY <2>1, <2>4, Soundness DEF ScoreIsSound
    <3>2. \A row \in rows : row.key \in Criteria /\ row.score \in Scores(row.key)
      BY <2>1, <2>4, RowWithinBounds
    <3>3. result.total = Null <=> rows = {}
      BY <2>1, <2>4, TotalIffRows
    <3> QED
      BY <2>1, <2>2, <3>1, <3>2, <3>3 DEF TypeOK, RunInv, Stages, DetOK, OutcomeOK
  <2> QED
    BY <2>3, <2>4 DEF RunInv, Stages
<1> QED
  BY <1>1, Invariance, PTL

\* What GradingReview assumes of the runs it grades is so for whatever a run
\* of execute_grading_run produces: no total is taken for NULL or exceeds its
\* maximum, and a run without a score has none.
THEOREM SignalsAreSound == Spec => []ScoreIsSound(det, ai)
<1>1. RunInv => ScoreIsSound(det, ai)
  BY Soundness DEF RunInv
<1> QED
  BY <1>1, Invariance, PTL

\* _apply_routing_policy (grading_orchestration.py:1075): whatever the rubric,
\* the policy, the answer key and the provider, a result accepted without a
\* human has a row for every criterion, agreeing sources, no warning, enough
\* confidence and the AI output the policy requires.
THEOREM AcceptanceIsEarned == Spec => []AutoAcceptIsEarned
<1>1. RunInv => AutoAcceptIsEarned
  <2> SUFFICES ASSUME RunInv, routing.decision = "auto_accept" PROVE AutoAcceptIsEarned
    BY DEF AutoAcceptIsEarned
  <2>1. /\ rows = CriterionRows(det, ai)
        /\ result.confidence = Confidence(det, ai)
        /\ Reasons(policy, det, warnings, ai) = {}
    BY Decided
  <2>2. /\ ~policy.mandatoryReview
        /\ ~(policy.aiRequired /\ ~HasPayload(ai))
        /\ CoverageComplete(det, ai)
        /\ ~Disagrees(det, ai)
        /\ policy.autoFinalize
        /\ ~(Confidence(det, ai) < policy.threshold)
        /\ "answer_key_no_rules" \notin warnings
    BY <2>1, NoReason DEF RunInv
  <2>3. \A k \in Criteria : RowsOf(k) # {}
    BY <2>1, <2>2, CoverageIsRows
  <2>4. ASSUME NEW suggestion \in Suggested(ai), NEW row \in RowsOf(suggestion.key),
               row.source = "deterministic"
        PROVE  row.score = suggestion.score
    <3>1. row.key = suggestion.key /\ row \in CriterionRows(det, ai)
      BY <2>1 DEF RowsOf
    <3>2. row.key \in DOMAIN det /\ row.score = det[row.key]
      BY <2>4, <3>1, RowSources
    <3> QED
      BY <2>2, <3>1, <3>2 DEF Disagrees
  <2>5. Confidence(det, ai) \in Nat /\ policy.threshold \in Nat
    BY FullConfidenceAssumption, RequestPoliciesAssumption
       DEF RunInv, Policies, OutcomeOK, Confidence, Smaller
  <2>6. result.confidence >= policy.threshold
    BY <2>1, <2>2, <2>5
  <2> QED
    BY <2>2, <2>3, <2>4, <2>6 DEF AutoAcceptIsEarned, HasPayload
<1> QED
  BY <1>1, Invariance, PTL

\* _evaluate_confidence_policy: a result waits for a teacher only when a
\* criterion has no row, the sources disagree, the answer key has no rules, the
\* confidence is low, a required AI output is missing or the policy says so.
THEOREM ReviewIsCaused == Spec => []ReviewHasCause
<1>1. RunInv => ReviewHasCause
  <2> SUFFICES ASSUME RunInv, routing.decision = "review",
                      ~ \E k \in Criteria : RowsOf(k) = {},
                      "answer_key_no_rules" \notin warnings,
                      ~(result.confidence < policy.threshold),
                      ~(policy.aiRequired /\ ai.status # "valid"),
                      ~(policy.mandatoryReview \/ ~policy.autoFinalize)
               PROVE  \E suggestion \in Suggested(ai) :
                        \E row \in RowsOf(suggestion.key) : row.score # suggestion.score
    BY DEF ReviewHasCause
  <2>1. /\ rows = CriterionRows(det, ai)
        /\ result.confidence = Confidence(det, ai)
        /\ Reasons(policy, det, warnings, ai) # {}
    BY Decided
  <2>2. CoverageComplete(det, ai)
    BY <2>1, CoverageIsRows
  <2>3. ~(HasError(ai) /\ (policy.aiRequired \/ ~CoverageComplete(det, NotUsed)))
    BY <2>2, UnusableCoverage DEF HasError
  <2>4. Disagrees(det, ai)
    BY <2>1, <2>2, <2>3, NoReason DEF RunInv, HasPayload
  <2>5. PICK suggestion \in Suggested(ai) :
          suggestion.key \in DOMAIN det /\ suggestion.score # det[suggestion.key]
    BY <2>4 DEF Disagrees
  <2>6. PICK row \in rows : row.key = suggestion.key
    BY <2>1, <2>5, RowsCover DEF Covered
  <2>7. row.score = det[suggestion.key]
    BY <2>1, <2>5, <2>6, RowSources
  <2> QED
    BY <2>5, <2>6, <2>7 DEF RowsOf
<1> QED
  BY <1>1, Invariance, PTL

\* _invoke_and_validate_ai (grading_orchestration.py:731): an output that does
\* not validate, or a provider that fails, leaves the deterministic result.
THEOREM UnusableIsNotUsed == Spec => []UnusableOutputIsNotUsed
<1>1. RunInv => UnusableOutputIsNotUsed
  <2> SUFFICES ASSUME RunInv, stage \in {"proposed", "routed"}, ai.status # "valid"
               PROVE  /\ \A row \in rows : row.source = "deterministic"
                      /\ result.max = RubricMax
                      /\ result.confidence \in {0, FullConfidence}
    BY DEF UnusableOutputIsNotUsed
  <2>1. result = ScoreAndConfidence(det, ai) /\ rows = CriterionRows(det, ai) /\ OutcomeOK(ai)
    BY DEF RunInv
  <2>2. AiKeys(ai) = {} /\ ai.confidence = 0 /\ ~HasPayload(ai)
    BY <2>1, UnusableSuggestsNothing
  <2>3. \A row \in rows : row.source = "deterministic"
    BY <2>1, <2>2, RowSources
  <2> QED
    BY <2>1, <2>2, <2>3 DEF ScoreAndConfidence, Confidence
<1> QED
  BY <1>1, Invariance, PTL

\* _add_criterion_results (:1006) and the routing: a deterministic score is the
\* only score of its criterion, and an AI that contradicts it makes an urgent
\* review task.
THEOREM DeterministicScoresPrevail == Spec => []DeterministicPrevails
<1>1. RunInv => DeterministicPrevails
  <2> SUFFICES ASSUME RunInv PROVE DeterministicPrevails
    OBVIOUS
  <2>1. ASSUME stage \in {"proposed", "routed"}, NEW k \in DOMAIN det
        PROVE  {row.score : row \in RowsOf(k)} = {det[k]}
    <3>1. rows = CriterionRows(det, ai)
      BY <2>1 DEF RunInv
    <3> QED
      BY <3>1, DeterministicRow DEF RowsOf
  <2>2. ASSUME stage = "routed", Disagrees(det, ai)
        PROVE  routing.decision = "review" /\ routing.priority = "high"
    <3>1. "deterministic_ai_disagreement" \in Reasons(policy, det, warnings, ai)
      BY <2>2 DEF Reasons, When
    <3> QED
      BY <2>2, <3>1 DEF RunInv, Route, Priority
  <2> QED
    BY <2>1, <2>2 DEF DeterministicPrevails
<1> QED
  BY <1>1, Invariance, PTL

\* _score_and_confidence (:1319) and _confidence_band (:1487): no result is
\* surer than the AI output it used, one that nothing scored is not sure at all,
\* and the band says high exactly when confidence was no reason for a review.
THEOREM ConfidenceIsWeakest == Spec => []ConfidenceIsWeakestSignal
<1>1. RunInv => ConfidenceIsWeakestSignal
  <2> SUFFICES ASSUME RunInv PROVE ConfidenceIsWeakestSignal
    OBVIOUS
  <2>1. ASSUME stage \in {"proposed", "routed"}
        PROVE  /\ result.confidence = Confidence(det, ai)
               /\ rows = CriterionRows(det, ai)
    BY <2>1 DEF RunInv, ScoreAndConfidence
  <2>2. ai.confidence \in Nat /\ ai.confidence <= FullConfidence /\ FullConfidence \in Nat
    BY FullConfidenceAssumption DEF RunInv, OutcomeOK
  <2>3. ASSUME stage \in {"proposed", "routed"}, ai.status = "valid"
        PROVE  result.confidence <= ai.confidence
    BY <2>1, <2>2, <2>3 DEF Confidence, Smaller, HasPayload
  <2>4. ASSUME stage \in {"proposed", "routed"}, rows = {}
        PROVE  result.confidence = 0
    <3>1. \A k : k \notin Covered(det, ai)
      BY <2>1, <2>4, RowsCover
    <3>2. DOMAIN det = {} /\ AiKeys(ai) = {}
      BY <3>1 DEF Covered
    <3>3. DOMAIN ai.suggestions = {}
      <4>1. \A i \in DOMAIN ai.suggestions : ai.suggestions[i].key \in AiKeys(ai)
        BY DEF AiKeys, Suggested
      <4> QED
        BY <3>2, <4>1
    <3>4. ai.status # "valid"
      BY <3>3 DEF RunInv, OutcomeOK
    <3> QED
      BY <2>1, <2>4, <3>2, <3>4 DEF RunInv, OutcomeOK, Confidence, Scored
  <2>5. ASSUME stage = "routed"
        PROVE  routing.band = "high" <=> "confidence_below_threshold" \notin routing.reasons
    <3>1. routing.band = Band(policy, result.confidence)
          /\ routing.reasons = Reasons(policy, det, warnings, ai)
      BY <2>5 DEF RunInv
    <3>2. result.confidence \in Nat /\ policy.threshold \in Nat
      BY <2>1, <2>2, <2>5, FullConfidenceAssumption, RequestPoliciesAssumption
         DEF Confidence, Smaller, RunInv, Policies
    <3>3. "confidence_below_threshold" \in Reasons(policy, det, warnings, ai)
            <=> Confidence(det, ai) < policy.threshold
      BY DEF RunInv, Reasons, When
    <3>4. Band(policy, result.confidence) = "high" <=> result.confidence >= policy.threshold
      BY <3>2 DEF Band
    <3> QED
      BY <2>1, <2>5, <3>1, <3>2, <3>3, <3>4
  <2> QED
    BY <2>3, <2>4, <2>5 DEF ConfidenceIsWeakestSignal
<1> QED
  BY <1>1, Invariance, PTL
=============================================================================
