------------------------- MODULE MCAnswerLifecycle -------------------------
(* Instances of AnswerLifecycle for TLC: packages, contexts and sessions   *)
(* are sets of model values, interchangeable.                              *)
EXTENDS AnswerLifecycle, TLC

Symmetry ==
    Permutations(Packages) \cup Permutations(Contexts) \cup Permutations(Sessions)
============================================================================
