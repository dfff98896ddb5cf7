----------------------------- MODULE Authoring -----------------------------
(***************************************************************************)
(* Rubrics, answer keys, rubric suggestions and rubric bindings of one     *)
(* organization: app/db/services/rubrics.py, rubric_authoring.py,          *)
(* rubric_suggestions.py and answer_keys.py.                               *)
(*                                                                         *)
(* Rubrics and answer keys are documents: a draft that is edited in place, *)
(* and numbered versions that are copies of it.  The services work on rows *)
(* the caller loaded, and write the columns that changed when the session  *)
(* flushes, without a lock or a version check, at READ COMMITTED: a step   *)
(* that loads, and a step that commits.  An operation whose guard fails    *)
(* raises, and its session is closed without a commit.                     *)
(***************************************************************************)
EXTENDS RubricSchema

CONSTANTS
    Rubrics,
    AnswerKeys,
    Suggestions,
    Sessions,         \* database sessions that may be open at the same time
    Schemas,          \* the rubric schemas a teacher may send
    Payloads,         \* the answer key payloads a teacher may send
    Proposals,        \* the [type, target, payload] a suggestion may have
    EditedPayloads,   \* the payloads a teacher may put in place of a proposal's
    MaxTransactions   \* bound: sessions begun

Documents == Rubrics \cup AnswerKeys

\* An item of an assessment is bound to rubrics directly or by its assessment.
Contexts == {"assessment_item", "assessment"}

SuggestionTypes ==
    {"criterion", "descriptor", "feedback_theme", "accepted_variant", "rubric_note"}

ASSUME NoneAssumption ==
    /\ None \notin Documents \cup Suggestions \cup Contexts
    /\ Rubrics \cap AnswerKeys = {} /\ Documents \cap Suggestions = {}
    /\ Documents \cap Contexts = {} /\ Suggestions \cap Contexts = {}
ASSUME MaxTransactionsAssumption == MaxTransactions \in Nat
ASSUME ProposalsAssumption ==
    None \notin Proposals /\ \A p \in Proposals : p.target \in Rubrics

\* A teacher's schema may name a suggestion as its origin: nothing looks it up.
ASSUME SchemasAssumption == \A schema \in Schemas : IsSchema(schema)
ASSUME PayloadsAssumption ==
    /\ \A p \in Proposals : IsPayload(p.type, p.payload)
    /\ \A payload \in EditedPayloads, type \in SuggestionTypes : IsPayload(type, payload)

VARIABLES
    status,     \* rubrics.status, answer_keys.status; "absent" before the row exists
    draft,      \* draft_schema, draft_key
    latest,     \* latest_version_number, 0 for NULL
    versions,   \* versions[d][n]: the content of version row (d, n), None if there is none
    proposal,   \* type, target and payload of a suggestion, None before the row exists
    decision,   \* rubric_suggestions.status
    bindings,   \* rubric_bindings rows, in the order they were committed
    clock,      \* the database clock: it advances when a transaction begins
    tx,         \* what each session has loaded and is about to write
    overlap     \* history: what two sessions held at the same time, ever

rows == <<status, draft, latest, versions, proposal, decision, bindings>>
vars == <<status, draft, latest, versions, proposal, decision, bindings,
          clock, tx, overlap>>

\* A version number is bounded by the transactions that could publish one.
Numbers == 1..MaxTransactions

\* A session: was and old are the status and draft of doc when it was loaded,
\* new what the session writes or publishes, number the version concerned.
Idle == [op |-> "idle", doc |-> None, sugg |-> None, context |-> None, number |-> 0,
         was |-> "absent", old |-> None, new |-> None, began |-> 0]

\* A session an error ended, until it is used again.
RolledBack == [Idle EXCEPT !.op = "rolledback"]

Init ==
    /\ status = [d \in Documents |-> "absent"]
    /\ draft = [d \in Documents |-> None]
    /\ latest = [d \in Documents |-> 0]
    /\ versions = [d \in Documents |-> [n \in Numbers |-> None]]
    /\ proposal = [g \in Suggestions |-> None]
    /\ decision = [g \in Suggestions |-> "absent"]
    /\ bindings = <<>>
    /\ clock = 0
    /\ tx = [s \in Sessions |-> Idle]
    /\ overlap = {}

-----------------------------------------------------------------------------
(* Sessions                                                                *)

\* The rows a session decides on.
Held(t) == (IF t.op = "bind" THEN {t.context} ELSE {t.doc, t.sugg}) \ {None}

\* A transaction begins: its clock reading is what now() returns in it.
Tick == clock < MaxTransactions /\ clock' = clock + 1

Begin(s, t) ==
    /\ tx[s].op \in {"idle", "rolledback"}
    /\ Tick
    /\ tx' = [tx EXCEPT ![s] = [t EXCEPT !.began = clock + 1]]
    /\ overlap' = overlap \cup (Held(t) \cap UNION {Held(tx[u]) : u \in Sessions})
    /\ UNCHANGED rows

\* The session is closed, by get_db or after its commit.
Close(s) ==
    /\ tx' = [tx EXCEPT ![s] = Idle]
    /\ UNCHANGED <<clock, overlap>>

\* Any error between the load and the commit closes the session, and what it
\* flushed is rolled back.
Rollback(s) ==
    /\ tx[s].op \notin {"idle", "rolledback"}
    /\ tx' = [tx EXCEPT ![s] = RolledBack]
    /\ UNCHANGED <<clock, overlap>>
    /\ UNCHANGED rows

\* A document is loaded for operation op.
Loaded(op, d, new) ==
    [Idle EXCEPT !.op = op, !.doc = d, !.number = latest[d] + 1,
                 !.was = status[d], !.old = draft[d], !.new = new]

\* A column is written if it differs from the value that was loaded.
Written(current, loaded, value) == IF value = loaded THEN current ELSE value

-----------------------------------------------------------------------------
(* Drafts                                                                  *)

\* The columns are not nullable.
ValidContent(d, content) ==
    /\ content # None
    /\ IF d \in Rubrics THEN ValidSchema(content) ELSE ValidAnswerKey(content)

Inputs(d) == IF d \in Rubrics THEN Schemas ELSE Payloads

\* create_rubric, create_answer_key
Create(d, content) ==
    /\ status[d] = "absent"
    /\ ValidContent(d, content)
    /\ status' = [status EXCEPT ![d] = "draft"]
    /\ draft' = [draft EXCEPT ![d] = content]
    /\ Tick
    /\ UNCHANGED <<latest, versions, proposal, decision, bindings, tx, overlap>>

\* update_rubric_draft, update_answer_key_draft
BeginEdit(s, d, content) ==
    /\ status[d] \notin {"absent", "archived"}
    /\ ValidContent(d, content)
    /\ Begin(s, Loaded("edit", d, content))

\* Mutant: an edit leaves a published document published.
SaveSilently(s) ==
    /\ draft' = [draft EXCEPT ![tx[s].doc] = Written(@, tx[s].old, tx[s].new)]
    /\ status' = status

\* The columns an edit or an accepted suggestion writes.
SaveDraft(s) ==
    /\ draft' = [draft EXCEPT ![tx[s].doc] = Written(@, tx[s].old, tx[s].new)]
    /\ status' = [status EXCEPT ![tx[s].doc] = Written(@, tx[s].was, "draft")]

CommitEdit(s) ==
    /\ tx[s].op = "edit"
    /\ SaveDraft(s)
    /\ Close(s)
    /\ UNCHANGED <<latest, versions, proposal, decision, bindings>>

-----------------------------------------------------------------------------
(* Publication                                                             *)

\* publish_rubric_version, publish_answer_key_version: the number and the
\* content come from the loaded row.
BeginPublish(s, d) ==
    /\ status[d] # "absent"
    /\ ValidContent(d, draft[d])
    /\ Begin(s, Loaded("publish", d, draft[d]))

\* Mutants: the table has no such constraint; a publication waits for every other
\* session that is about to insert the same number.
MayInsert(s) == TRUE
MayInsertAlone(s) ==
    /\ versions[tx[s].doc][tx[s].number] = None
    /\ \A u \in Sessions \ {s} :
          tx[u].op # "publish" \/ tx[u].doc # tx[s].doc \/ tx[u].number # tx[s].number

\* The unique constraint on (rubric_id, version_number), and the one on
\* (answer_key_id, version_number).
IsNextVersion(s) == versions[tx[s].doc][tx[s].number] = None

CommitPublish(s) ==
    LET t == tx[s] IN
    /\ t.op = "publish"
    /\ IsNextVersion(s)
    /\ t.doc \in Rubrics => Materializes(t.new)
    /\ versions' = [versions EXCEPT ![t.doc][t.number] = t.new]
    /\ latest' = [latest EXCEPT ![t.doc] = t.number]
    /\ status' = [status EXCEPT ![t.doc] = Written(@, t.was, "published")]
    /\ Close(s)
    /\ UNCHANGED <<draft, proposal, decision, bindings>>

\* The insertion violates the constraint: the number is another's.
FailPublish(s) ==
    /\ tx[s].op = "publish"
    /\ versions[tx[s].doc][tx[s].number] # None
    /\ Close(s)
    /\ UNCHANGED rows

-----------------------------------------------------------------------------
(* Suggestions                                                             *)

\* create_rubric_suggestion
CreateSuggestion(g, p) ==
    /\ decision[g] = "absent"
    /\ p.type \in SuggestionTypes
    /\ status[p.target] # "absent"
    /\ proposal' = [proposal EXCEPT ![g] = p]
    /\ decision' = [decision EXCEPT ![g] = "draft"]
    /\ Tick
    /\ UNCHANGED <<status, draft, latest, versions, bindings, tx, overlap>>

\* A draft suggestion is loaded for operation op.
BeginDecision(s, op, g, payload) ==
    /\ decision[g] = "draft"
    /\ Begin(s, [Idle EXCEPT !.op = op, !.sugg = g, !.doc = proposal[g].target,
                             !.new = payload])

\* reject_rubric_suggestion, supersede_rubric_suggestion
BeginReject(s, g) == BeginDecision(s, "reject", g, None)

BeginSupersede(s, g) == BeginDecision(s, "supersede", g, None)

CommitReject(s) ==
    /\ tx[s].op \in {"reject", "supersede"}
    /\ decision' = [decision EXCEPT ![tx[s].sugg] =
                        IF tx[s].op = "reject" THEN "rejected" ELSE "superseded"]
    /\ Close(s)
    /\ UNCHANGED <<status, draft, latest, versions, proposal, bindings>>

\* accept_rubric_suggestion, with the payload of the suggestion or another.
BeginAccept(s, g, edited) ==
    BeginDecision(s, "accept", g, IF edited = None THEN proposal[g].payload ELSE edited)

\* The target rubric is loaded after the suggestion.
AppliedToDraft(s) ==
    LET t == tx[s] IN Applied(draft[t.doc], proposal[t.sugg].type, t.new, t.sugg)

\* Mutant: the resulting draft is not validated.
MayApplyUnchecked(s) ==
    LET t == tx[s] IN
    /\ status[t.doc] # "archived"
    /\ Applies(draft[t.doc], proposal[t.sugg].type, t.new)

MayApply(s) ==
    LET t == tx[s] IN
    /\ status[t.doc] # "archived"
    /\ Applies(draft[t.doc], proposal[t.sugg].type, t.new)
    /\ ValidContent(t.doc, AppliedToDraft(s))

Apply(s) ==
    /\ tx[s].op = "accept"
    /\ MayApply(s)
    /\ tx' = [tx EXCEPT ![s] = [Loaded("apply", @.doc, AppliedToDraft(s)) EXCEPT
                                    !.sugg = tx[s].sugg, !.began = tx[s].began]]
    /\ UNCHANGED <<clock, overlap>>
    /\ UNCHANGED rows

RefuseApply(s) ==
    /\ tx[s].op = "accept"
    /\ ~MayApply(s)
    /\ Close(s)
    /\ UNCHANGED rows

\* Mutant: the suggestion keeps its status.
DecideLater(s) == decision' = decision

Accept(s) == decision' = [decision EXCEPT ![tx[s].sugg] = "accepted"]

CommitAccept(s) ==
    /\ tx[s].op = "apply"
    /\ SaveDraft(s)
    /\ Accept(s)
    /\ Close(s)
    /\ UNCHANGED <<latest, versions, proposal, bindings>>

-----------------------------------------------------------------------------
(* Bindings                                                                *)

\* bind_rubric_version finds a published version.
BeginBind(s, r, n, context) ==
    /\ versions[r][n] # None
    /\ Begin(s, [Idle EXCEPT !.op = "bind", !.doc = r, !.number = n, !.context = context])

\* The row is active, and every earlier one of the context stays active.
CommitBind(s) ==
    LET t == tx[s] IN
    /\ t.op = "bind"
    /\ bindings' = Append(bindings, [rubric |-> t.doc, number |-> t.number,
                                     context |-> t.context, created |-> t.began])
    /\ Close(s)
    /\ UNCHANGED <<status, draft, latest, versions, proposal, decision>>

-----------------------------------------------------------------------------
Begins(s) ==
    \/ \E d \in Documents : \E c \in Inputs(d) : BeginEdit(s, d, c)
    \/ \E d \in Documents : BeginPublish(s, d)
    \/ \E g \in Suggestions : BeginReject(s, g) \/ BeginSupersede(s, g)
    \/ \E g \in Suggestions : \E p \in EditedPayloads \cup {None} : BeginAccept(s, g, p)
    \/ \E r \in Rubrics, n \in Numbers, c \in Contexts : BeginBind(s, r, n, c)

Commits(s) ==
    \/ CommitEdit(s) \/ CommitPublish(s) \/ FailPublish(s)
    \/ Apply(s) \/ RefuseApply(s) \/ CommitAccept(s) \/ CommitReject(s)
    \/ CommitBind(s)

Next ==
    \/ \E d \in Documents : \E c \in Inputs(d) : Create(d, c)
    \/ \E g \in Suggestions, p \in Proposals : CreateSuggestion(g, p)
    \/ \E s \in Sessions : Begins(s) \/ Commits(s) \/ Rollback(s)

Spec == Init /\ [][Next]_vars

\* A request handler that has begun runs to its end; an error may end it, and
\* need not.
FairSpec == Spec /\ \A s \in Sessions : WF_vars(Commits(s))
=============================================================================
