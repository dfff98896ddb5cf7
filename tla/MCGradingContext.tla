-------------------------- MODULE MCGradingContext --------------------------
(* Small instances of GradingContext for TLC.                              *)
EXTENDS GradingContext

CONSTANTS r1, k1, g1, g2, s1, s2

Criterion(key, position, weight) ==
    [key |-> key, position |-> position, weight |-> weight, from |-> None]

Level(key, position) == [key |-> key, position |-> position, score |-> position]

Schema(criteria, levels, descriptors) ==
    [criteria |-> criteria, levels |-> levels, descriptors |-> descriptors, notes |-> <<>>]

\* Two rubrics of one criterion, the second with a null weight and a suggestion
\* it claims to come from, and one that is refused: its criterion has no
\* descriptor.
MCSchemas ==
    {Schema(<<Criterion("c", 0, Absent)>>, <<Level("l", 0)>>, <<<<"c", "l">>>>),
     Schema(<<[Criterion("d", 1, None) EXCEPT !.from = g2]>>, <<Level("l", 0)>>, <<<<"d", "l">>>>),
     Schema(<<Criterion("c", 0, 1)>>, <<Level("l", 0)>>, <<>>)}

MCPayloads ==
    {[accepted |-> <<"x">>, rules |-> None],
     [accepted |-> None, rules |-> <<"exact_text">>],
     [accepted |-> <<"x", "">>, rules |-> None]}

\* A new criterion with its descriptor, one that clashes with the position of
\* another, a descriptor, a note.
NewCriterion ==
    [criterion |-> Criterion("e", Absent, 1), descriptors |-> <<<<"e", "l">>>>]

NewDescriptor ==
    [criterion |-> None, descriptors |-> <<<<"c", "l">>>>]

FixedPosition ==
    [criterion |-> Criterion("f", 0, 1), descriptors |-> <<<<"f", "l">>>>]

MCProposals ==
    {[type |-> "criterion", target |-> r1, payload |-> NewCriterion],
     [type |-> "descriptor", target |-> r1, payload |-> NewDescriptor],
     [type |-> "rubric_note", target |-> r1, payload |-> NewCriterion]}

MCEdited == {FixedPosition}
=============================================================================
