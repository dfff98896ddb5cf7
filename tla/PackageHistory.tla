-------------------------- MODULE PackageHistory ---------------------------
(***************************************************************************)
(* What the answer lifecycle promises to grading: a learner has at most    *)
(* one current answer package per assessment context, a package is current *)
(* once and at most once, and the packages that are over stay over.        *)
(***************************************************************************)
CONSTANTS Packages, Contexts, None

VARIABLES
    current,  \* the current package of each context, or None
    past      \* packages that were replaced, withdrawn, archived or discarded

vars == <<current, past>>

Fresh(p) == p \notin past /\ \A c \in Contexts : current[c] # p

Init ==
    /\ current = [c \in Contexts |-> None]
    /\ past = {}

\* The first package of a context, or a revision that replaces the current one.
Publish(c, p) ==
    /\ Fresh(p)
    /\ current' = [current EXCEPT ![c] = p]
    /\ past' = past \cup ({current[c]} \ {None})

\* The current package is withdrawn or archived, and none takes its place.
Retire(c) ==
    /\ current[c] # None
    /\ current' = [current EXCEPT ![c] = None]
    /\ past' = past \cup {current[c]}

\* A draft is withdrawn or archived without ever being current.
Discard(p) ==
    /\ Fresh(p)
    /\ past' = past \cup {p}
    /\ UNCHANGED current

Next ==
    \/ \E c \in Contexts, p \in Packages : Publish(c, p)
    \/ \E c \in Contexts : Retire(c)
    \/ \E p \in Packages : Discard(p)

Spec == Init /\ [][Next]_vars
============================================================================
