--------------------------- MODULE GradingContext ---------------------------
(***************************************************************************)
(* Which rubric version and which answer key version a grading run uses:   *)
(* resolve_grading_context and its queries in                              *)
(* app/db/services/grading_orchestration.py, over the rows that authoring  *)
(* sessions leave behind.  The submission answers one item of one          *)
(* assessment, the one every answer key and binding here belongs to.       *)
(***************************************************************************)
EXTENDS Authoring

\* The binding rows of a context, as positions in the commit order.
RowsOf(context) == {i \in DOMAIN bindings : bindings[i].context = context}

\* Mutant: the oldest binding is taken.
OldestBinding(context) ==
    bindings[CHOOSE i \in RowsOf(context) :
                 \A j \in RowsOf(context) : bindings[i].created <= bindings[j].created]

\* The query takes the row with the latest created_at, the time at which its
\* transaction began.
NewestBinding(context) ==
    bindings[CHOOSE i \in RowsOf(context) :
                 \A j \in RowsOf(context) : bindings[j].created <= bindings[i].created]

\* _resolve_active_rubric_binding: the item's bindings come first.
ResolvedBinding ==
    CASE RowsOf("assessment_item") # {} -> NewestBinding("assessment_item")
      [] RowsOf("assessment") # {} -> NewestBinding("assessment")
      [] OTHER -> None

\* _rubric_version_from_binding
BoundContent == versions[ResolvedBinding.rubric][ResolvedBinding.number]

\* _validate_published_rubric_version: the version must be one that scores.
ResolvedRubric ==
    IF ResolvedBinding # None /\ BoundContent # None /\ Scores(BoundContent)
    THEN BoundContent ELSE None

\* Mutant: the versions of a key that is being edited count.
VersionsInAnyState ==
    {v \in AnswerKeys \X Numbers : versions[v[1]][v[2]] # None}

\* The versions the answer key query joins: those of published keys.
PublishedKeyVersions ==
    {v \in AnswerKeys \X Numbers :
        status[v[1]] = "published" /\ versions[v[1]][v[2]] # None}

\* _resolve_latest_published_answer_key_version: the highest number of any
\* key; which of two equal ones comes first is up to the database.
ResolvedKeys ==
    {v \in PublishedKeyVersions : \A w \in PublishedKeyVersions : w[2] <= v[2]}

-----------------------------------------------------------------------------
(* Properties                                                              *)

SuggestionStates == {"absent", "draft", "accepted", "rejected", "superseded"}

\* A stored draft and every stored version are valid (rubrics.py:55,
\* answer_keys.py:16), whatever the interleaving, and so are the rows around
\* them: a version number is that of a published copy, and no document is ever
\* archived.
TypeOK ==
    /\ status \in [Documents -> {"absent", "draft", "published"}]
    /\ \A d \in Documents : (draft[d] = None) <=> (status[d] = "absent")
    /\ \A d \in Documents : draft[d] # None => ValidContent(d, draft[d])
    /\ latest \in [Documents -> 0..MaxTransactions]
    /\ \A d \in Documents, n \in Numbers :
          versions[d][n] # None => ValidContent(d, versions[d][n])
    /\ decision \in [Suggestions -> SuggestionStates]
    /\ \A g \in Suggestions : (proposal[g] = None) <=> (decision[g] = "absent")
    /\ clock \in 0..MaxTransactions

\* The versions of a document, by number.
History == [d \in Documents |-> [n \in 1..latest[d] |-> versions[d][n]]]

Published == INSTANCE VersionHistory WITH history <- History, Valid <- ValidContent

\* However sessions interleave, the versions of a document form one
\* append-only history without a gap, latest_version_number counts it, and
\* what was published never changes (rubrics.py:176-193, answer_keys.py:75-91,
\* the unique constraints of models/rubric.py).
ImplementsVersionHistory == Published!Spec

\* As long as no two sessions held the document at once, a document whose
\* status is published is the one that was published: its draft is its latest
\* version (rubrics.py:194, rubric_authoring.py:44, answer_keys.py:61).
PublishedMeansLatest ==
    \A d \in Documents \ overlap :
        status[d] = "published" => /\ latest[d] > 0
                                   /\ versions[d][latest[d]] = draft[d]

\* Content a draft took from an accepted suggestion leaves it only when a
\* teacher saves an edited draft, or when two sessions held the rubric at once
\* (rubric_suggestions.py:142-152).
DraftKeepsAccepted ==
    [][\A g \in Suggestions :
          LET r == proposal[g].target IN
          (/\ proposal[g] # None
           /\ r \notin overlap
           /\ Contains(draft[r], g)
           /\ ~Contains(draft'[r], g))
          => \E s \in Sessions : tx[s].op = "edit" /\ tx[s].doc = r /\ tx'[s] = Idle
      ]_vars

\* The contents a rubric has or had: its draft and its versions.
Kept(r) == ({draft[r]} \cup {versions[r][n] : n \in Numbers}) \ {None}

\* The suggestions a teacher's own schema names: update_rubric_draft takes any.
Claimed == {g \in Suggestions : \E schema \in Schemas : Contains(schema, g)}

\* Content that came from a suggestion is in the suggestion's own target, the
\* suggestion is decided, and accepted unless two sessions decided it at once:
\* a rejected, superseded or undecided suggestion leaves no trace, unless a
\* teacher wrote one into a schema (rubric_suggestions.py:125, :151-157, :312,
\* rubric_authoring.py:28).
TracedToDecision ==
    \A r \in Rubrics : \A content \in Kept(r) : \A g \in Suggestions \ Claimed :
        Contains(content, g) =>
            /\ decision[g] \notin {"absent", "draft"}
            /\ proposal[g].target = r
            /\ g \notin overlap => decision[g] = "accepted"

\* A descriptor suggestion is never accepted: a valid draft describes every
\* pair of its criteria and levels, and _append_descriptor refuses a pair that
\* is described (rubric_suggestions.py:295, rubrics.py:103).
DescriptorNeverAccepted ==
    \A g \in Suggestions :
        decision[g] = "accepted" => proposal[g].type # "descriptor"

\* Unless two binding sessions of one context were open at once, the binding a
\* grading run resolves is the one that was made last.  In every interleaving
\* its rubric version can be graded with, but for one reason: a null weight is
\* valid and published, and cannot be scored (grading_orchestration.py:1340,
\* rubrics.py:74, :333).
LastBindingResolves ==
    /\ \A context \in Contexts \ overlap : \A i \in RowsOf(context) :
          (\A j \in RowsOf(context) : j <= i) => NewestBinding(context) = bindings[i]
    /\ (ResolvedBinding # None /\ ResolvedRubric = None) =>
          \E i \in DOMAIN BoundContent.criteria : BoundContent.criteria[i].weight = None

\* An answer key version that a grading run resolves is what the teacher sees
\* as the key's draft, the latest of its key: a key that is being edited, or
\* was edited after its publication, is not graded with at all
\* (grading_orchestration.py:1396, answer_keys.py:61).
ResolvedKeyIsCurrent ==
    \A v \in ResolvedKeys :
        v[1] \notin overlap => /\ v[2] = latest[v[1]]
                               /\ versions[v[1]][v[2]] = draft[v[1]]

\* Whoever sets out to publish a version ends with that version published, by
\* this session or by the one that won the number, unless an error rolls this
\* session back: two publishers never hold each other up, and the constraint
\* refuses neither while the number is free (rubrics.py:165, :176,
\* answer_keys.py:66, models/rubric.py:66).
PublicationSettles ==
    /\ [][\A s \in Sessions :
             LET t == tx[s] IN
             t.op = "publish" /\ tx'[s] # t /\ tx'[s] # RolledBack
                 => versions'[t.doc][t.number] # None]_vars
    /\ \A s \in Sessions : (tx[s].op = "publish") ~> (tx[s].op # "publish")
=============================================================================
