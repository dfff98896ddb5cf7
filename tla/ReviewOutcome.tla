---------------------------- MODULE ReviewOutcome ----------------------------
(***************************************************************************)
(* What grading and review promise of each grading result: the policy      *)
(* accepts it with a score, or it waits for a teacher; a teacher decides   *)
(* it or returns it, once; and from then on its grade does not change.     *)
(***************************************************************************)
CONSTANTS
    Results,
    Scores,
    Null      \* no grade yet, or a teacher's decision without a score

VARIABLES
    state,   \* of each result
    grade    \* the final grade of a result

vars == <<state, grade>>

Init ==
    /\ state = [r \in Results |-> "none"]
    /\ grade = [r \in Results |-> Null]

Accept(r, score) ==
    /\ state[r] = "none"
    /\ state' = [state EXCEPT ![r] = "accepted"]
    /\ grade' = [grade EXCEPT ![r] = score]

Queue(r) ==
    /\ state[r] = "none"
    /\ state' = [state EXCEPT ![r] = "pending"]
    /\ UNCHANGED grade

Decide(r, score) ==
    /\ state[r] = "pending"
    /\ state' = [state EXCEPT ![r] = "decided"]
    /\ grade' = [grade EXCEPT ![r] = score]

Return(r) ==
    /\ state[r] = "pending"
    /\ state' = [state EXCEPT ![r] = "returned"]
    /\ UNCHANGED grade

Next ==
    \E r \in Results :
        \/ \E score \in Scores : Accept(r, score)
        \/ Queue(r)
        \/ \E score \in Scores \cup {Null} : Decide(r, score)
        \/ Return(r)

Spec == Init /\ [][Next]_vars

=============================================================================
