--------------------------- MODULE VersionHistory ---------------------------
(***************************************************************************)
(* What publication promises of a rubric or an answer key: an append-only  *)
(* history of valid contents.  A version never changes, and the next one   *)
(* gets the next number.                                                   *)
(***************************************************************************)
EXTENDS Naturals, Sequences

CONSTANTS
    Documents,      \* rubrics and answer keys
    Valid(_, _)     \* Valid(d, c): c may be published as a version of d

VARIABLE history    \* history[d][n] is version n of d

Init == history = [d \in Documents |-> <<>>]

Extends(old, new) ==
    /\ Len(new) = Len(old) + 1
    /\ \A n \in 1..Len(old) : new[n] = old[n]

\* One document gets one more version.
Publish(d) ==
    /\ Extends(history[d], history'[d])
    /\ Valid(d, history'[d][Len(history[d]) + 1])
    /\ \A e \in Documents \ {d} : history'[e] = history[e]

Next == \E d \in Documents : Publish(d)

Spec == Init /\ [][Next]_history
=============================================================================
