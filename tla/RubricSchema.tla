---------------------------- MODULE RubricSchema ----------------------------
(***************************************************************************)
(* What a rubric draft and an answer key contain, the validators of        *)
(* app/db/services/rubrics.py and answer_keys.py, and what an accepted     *)
(* suggestion does to a draft (rubric_suggestions.py).                     *)
(*                                                                         *)
(* A schema is [criteria, levels, descriptors, notes]: criteria a sequence *)
(* of [key, position, weight, from] (from names the suggestion it came     *)
(* from), levels a sequence of [key, position, score], descriptors a       *)
(* sequence of <<criterion key, level key>>, notes the suggestions in its  *)
(* accepted_knowledge_suggestions.  An empty key is "", and so is an empty *)
(* answer.  Labels, narratives and hints are left out.                     *)
(***************************************************************************)
EXTENDS Integers, Sequences

CONSTANTS
    None,     \* JSON null, SQL NULL
    Absent    \* no such key in a JSON object

-----------------------------------------------------------------------------
(* Lists of keyed, positioned items                                        *)

\* The values of f over the items of a list.
Each(f(_), list) == {f(list[i]) : i \in DOMAIN list}

\* No two items of the list have the same f.
Distinct(f(_), list) ==
    \A i, j \in DOMAIN list : f(list[i]) = f(list[j]) => i = j

KeyOf(item) == item.key

PositionOf(item) == item.position

Pair(descriptor) == descriptor

\* _validate_keyed_items
ValidKeys(list) == "" \notin Each(KeyOf, list) /\ Distinct(KeyOf, list)

\* _validate_positions
ValidPositions(list) ==
    /\ \A i \in DOMAIN list : list[i].position >= 0
    /\ Distinct(PositionOf, list)

Keys(list) == Each(KeyOf, list)

-----------------------------------------------------------------------------
(* Validation                                                              *)

\* Every criterion weight, where there is one, is positive; no score is negative.
ValidAmounts(schema) ==
    /\ \A i \in DOMAIN schema.criteria :
          LET weight == schema.criteria[i].weight IN
          weight \notin {None, Absent} => weight > 0
    /\ \A i \in DOMAIN schema.levels : schema.levels[i].score >= 0

\* Mutant: a criterion may lack the descriptor of a level.
DescribedInPart(pairs, criterionKeys, levelKeys) ==
    pairs \subseteq criterionKeys \X levelKeys

\* Every criterion has a descriptor for every level.
Described(pairs, criterionKeys, levelKeys) == pairs = criterionKeys \X levelKeys

\* validate_rubric_schema
ValidSchema(schema) ==
    LET criteria == schema.criteria
        levels == schema.levels
    IN
    /\ criteria # <<>> /\ levels # <<>>
    /\ ValidKeys(criteria) /\ ValidKeys(levels)
    /\ ValidPositions(criteria) /\ ValidPositions(levels)
    /\ ValidAmounts(schema)
    /\ Distinct(Pair, schema.descriptors)
    /\ Described(Each(Pair, schema.descriptors), Keys(criteria), Keys(levels))

\* The conversions of calculate_deterministic_score: an absent weight counts
\* one, and a null one is no number.
Scores(schema) ==
    ValidSchema(schema) /\ \A i \in DOMAIN schema.criteria : schema.criteria[i].weight # None

\* validate_answer_key_payload: accepted is a list of answers, rules a list of
\* rule types, and at least one of the two is there.
ValidAnswerKey(payload) ==
    /\ payload.accepted # None \/ payload.rules # None
    /\ \A list \in {payload.accepted, payload.rules} \ {None} :
          list # <<>> /\ \A i \in DOMAIN list : list[i] # ""

\* The rows _materialize_version_structure inserts: one criterion or level per
\* key and per position, one descriptor per pair, each with both its rows.
Materializes(schema) ==
    /\ \A list \in {schema.criteria, schema.levels} :
          Distinct(KeyOf, list) /\ Distinct(PositionOf, list)
    /\ Distinct(Pair, schema.descriptors)
    /\ \A i \in DOMAIN schema.descriptors :
          /\ schema.descriptors[i][1] \in Keys(schema.criteria)
          /\ schema.descriptors[i][2] \in Keys(schema.levels)

-----------------------------------------------------------------------------
(* Suggestions.  A payload is [criterion, descriptors]: a criterion whose  *)
(* position may be Absent, and the pairs it describes.                     *)

\* The position of a criterion that names none.
NextPosition(criteria) ==
    IF criteria = <<>> THEN 0
    ELSE 1 + CHOOSE p \in Each(PositionOf, criteria) :
                 \A q \in Each(PositionOf, criteria) : q <= p

\* _append_criterion, for suggestion g.
WithCriterion(criteria, criterion, g) ==
    Append(criteria,
           [criterion EXCEPT !.position = IF @ = Absent THEN NextPosition(criteria) ELSE @,
                             !.from = g])

\* _append_descriptor refuses a pair the draft already describes.
NewDescriptors(schema, descriptors) ==
    /\ Each(Pair, descriptors) \cap Each(Pair, schema.descriptors) = {}
    /\ Distinct(Pair, descriptors)

\* The errors of _append_criterion and _append_descriptor.
Applies(schema, type, payload) ==
    CASE type = "criterion" ->
           /\ payload.criterion.key \notin Keys(schema.criteria) \cup {""}
           /\ NewDescriptors(schema, payload.descriptors)
      [] type = "descriptor" -> NewDescriptors(schema, payload.descriptors)
      [] OTHER -> TRUE

\* Mutant: the list of accepted suggestions starts anew.
AppliedAnew(schema, type, payload, g) ==
    CASE type = "criterion" ->
           [schema EXCEPT
              !.criteria = WithCriterion(@, payload.criterion, g),
              !.descriptors = @ \o payload.descriptors]
      [] type = "descriptor" -> [schema EXCEPT !.descriptors = @ \o payload.descriptors]
      [] OTHER -> [schema EXCEPT !.notes = <<g>>]

\* _apply_suggestion_to_draft_schema
Applied(schema, type, payload, g) ==
    CASE type = "criterion" ->
           [schema EXCEPT
              !.criteria = WithCriterion(@, payload.criterion, g),
              !.descriptors = @ \o payload.descriptors]
      [] type = "descriptor" -> [schema EXCEPT !.descriptors = @ \o payload.descriptors]
      [] OTHER -> [schema EXCEPT !.notes = Append(@, g)]

\* The shapes a request is parsed to: lists, and for a suggestion the criterion
\* or the one descriptor its type is about.
IsList(list) == list \in Seq({list[i] : i \in DOMAIN list})

IsSchema(schema) ==
    /\ {"criteria", "descriptors", "notes"} \subseteq DOMAIN schema
    /\ IsList(schema.criteria) /\ IsList(schema.descriptors) /\ IsList(schema.notes)

IsPayload(type, payload) ==
    /\ IsList(payload.descriptors)
    /\ type = "criterion" => "from" \in DOMAIN payload.criterion
    /\ type = "descriptor" => payload.descriptors # <<>>

\* What a schema took from suggestion g.
Contains(schema, g) ==
    \/ \E i \in DOMAIN schema.criteria : schema.criteria[i].from = g
    \/ \E i \in DOMAIN schema.notes : schema.notes[i] = g
=============================================================================
