-------------------------- MODULE AnswerLifecycle --------------------------
(***************************************************************************)
(* Answer packages: the submission rows of one organization, and the       *)
(* service operations of app/db/services/answer_lifecycle.py on them.      *)
(*                                                                         *)
(* Every operation is called with rows its caller loaded into a database   *)
(* session.  The session runs at READ COMMITTED, takes no row lock, keeps  *)
(* no version column, and writes the changed columns by primary key when   *)
(* it flushes.  So an operation is two steps or three: Begin loads the     *)
(* rows and takes the decisions that depend on their status, Check (submit *)
(* only) runs the queries, and Commit writes the columns and makes them    *)
(* visible.  Other sessions may commit in between.  An operation whose     *)
(* guard fails raises, and the session is closed without a commit: it      *)
(* changes nothing, so it is not a step.                                   *)
(***************************************************************************)
EXTENDS Naturals

CONSTANTS
    Packages,     \* submission ids
    Contexts,     \* (learner, assessment, assessment item) triples
    Sessions,     \* database sessions that may be open at the same time
    Null,         \* SQL NULL
    MaxEvidence   \* bound: evidence rows of one package

ASSUME NullAssumption == Null \notin Packages /\ Null \notin Contexts
ASSUME MaxEvidenceAssumption == MaxEvidence \in Nat \ {0}

VARIABLES
    status,        \* submissions.status; "absent" before the row exists
    context,       \* learner_id, assessment_id and assessment_item_id; Null before
    supersedes,    \* supersedes_submission_id
    supersededBy,  \* superseded_by_submission_id
    evidence,      \* number of submission_evidence rows
    sealed,        \* evidence_count of the last submission.evidence_sealed audit event
    tx             \* what each session has loaded and is about to write

rows == <<status, context, supersedes, supersededBy, evidence, sealed>>
vars == <<status, context, supersedes, supersededBy, evidence, sealed, tx>>

Ops == {"evidence", "submit", "revise", "withdraw", "archive", "supersede"}

\* A session: other is the superseded package, link the value of
\* supersedes_submission_id when pkg was loaded, count the evidence it saw.
Idle == [step |-> "idle", op |-> "none", pkg |-> Null, other |-> Null,
         otherStatus |-> "absent", link |-> Null, count |-> 0]

Exists(p) == status[p] # "absent"

Init ==
    /\ status = [p \in Packages |-> "absent"]
    /\ context = [p \in Packages |-> Null]
    /\ supersedes = [p \in Packages |-> Null]
    /\ supersededBy = [p \in Packages |-> Null]
    /\ evidence = [p \in Packages |-> 0]
    /\ sealed = [p \in Packages |-> 0]
    /\ tx = [s \in Sessions |-> Idle]

-----------------------------------------------------------------------------
(* The database                                                            *)

\* Mutant: the table has no such constraint.
MayHoldAnyStatus(p) == TRUE

\* The check constraint submission_superseded_by_requires_status lets a row
\* hold a status other than superseded only while it names no successor.
MayHoldOtherStatus(p) == supersededBy[p] = Null

\* get_db closes the session whatever happened: an error, a violated
\* constraint or a lost client all end in a rollback.
Rollback(s) ==
    /\ tx[s].step # "idle"
    /\ tx' = [tx EXCEPT ![s] = Idle]
    /\ UNCHANGED rows

\* A session loads package p for operation op.
Load(s, op, p, other, link) ==
    /\ tx[s].step = "idle"
    /\ tx' = [tx EXCEPT ![s] =
                [step |-> "loaded", op |-> op, pkg |-> p, other |-> other,
                 otherStatus |-> IF other = Null THEN "absent" ELSE status[other],
                 link |-> link, count |-> 0]]
    /\ UNCHANGED rows

\* The session is ready to flush op.
Pending(s, step, op) == tx[s].step = step /\ tx[s].op = op

Done(s) == tx' = [tx EXCEPT ![s] = Idle]

-----------------------------------------------------------------------------
(* create_draft_submission                                                 *)

CreateDraft(p, c) ==
    /\ status[p] = "absent"
    /\ status' = [status EXCEPT ![p] = "draft"]
    /\ context' = [context EXCEPT ![p] = c]
    /\ UNCHANGED <<supersedes, supersededBy, evidence, sealed, tx>>

\* Mutant: a submitted package still takes evidence.
BeginLateEvidence(s, p) ==
    /\ status[p] \in {"draft", "submitted"}
    /\ Load(s, "evidence", p, Null, Null)

(* add_submission_evidence: ensure_submission_content_mutable looks at the
   loaded row only. *)
BeginEvidence(s, p) ==
    /\ status[p] = "draft"
    /\ Load(s, "evidence", p, Null, Null)

CommitEvidence(s) ==
    LET p == tx[s].pkg IN
    /\ Pending(s, "loaded", "evidence")
    /\ evidence[p] < MaxEvidence
    /\ evidence' = [evidence EXCEPT ![p] = @ + 1]
    /\ Done(s)
    /\ UNCHANGED <<status, context, supersedes, supersededBy, sealed>>

-----------------------------------------------------------------------------
(* submit_submission                                                       *)

\* Mutant: the link of a revision is not loaded.
BeginSubmitUnlinked(s, p, explicit) ==
    /\ status[p] = "draft"
    /\ explicit # Null => Exists(explicit)
    /\ Load(s, "submit", p, explicit, Null)

\* explicit is the superseded_submission argument, Null when not given.
BeginSubmit(s, p, explicit) ==
    /\ status[p] = "draft"
    /\ explicit # Null => Exists(explicit)
    /\ Load(s, "submit", p, explicit, supersedes[p])

\* The other submitted packages of p's learner and assessment context.
CurrentBeside(p) ==
    {q \in Packages \ {p} : status[q] = "submitted" /\ context[q] = context[p]}

\* Mutant: the block is left to packages that supersede another.
OnlyForReplacements(p, allowed) == allowed = Null \/ allowed \in CurrentBeside(p)

\* The query returns the first match in no particular order.
NoOtherCurrentPackage(p, allowed) ==
    CurrentBeside(p) = {} \/ allowed \in CurrentBeside(p)

\* Mutants: a package may supersede itself, or one of another context.
MaySupersedeItself(previous, previousStatus, replacement) ==
    /\ previousStatus = "submitted"
    /\ context[previous] = context[replacement]
MaySupersedeAcross(previous, previousStatus, replacement) ==
    /\ previousStatus = "submitted"
    /\ previous # replacement

\* The guards of supersede_submission_package, given the status of the
\* previous package in this session.
MaySupersede(previous, previousStatus, replacement) ==
    /\ previousStatus = "submitted"
    /\ previous # replacement
    /\ context[previous] = context[replacement]

\* The package to supersede: the explicit argument, loaded by the caller, or
\* the package a revision names, looked up here.
PreviousPackage(t) == IF t.other # Null THEN t.other ELSE t.link

PreviousStatus(t) == IF t.other # Null THEN t.otherStatus ELSE status[t.link]

\* Mutant: the evidence is not validated.
CheckSubmitEmpty(s) ==
    LET p == tx[s].pkg
        previous == PreviousPackage(tx[s])
    IN
    /\ Pending(s, "loaded", "submit")
    /\ NoOtherCurrentPackage(p, previous)
    /\ previous # Null => MaySupersede(previous, PreviousStatus(tx[s]), p)
    /\ tx' = [tx EXCEPT ![s] = [@ EXCEPT !.step = "checked", !.other = previous,
                                         !.count = evidence[p]]]
    /\ UNCHANGED rows

\* Evidence and the current packages are read here.
CheckSubmit(s) ==
    LET p == tx[s].pkg
        previous == PreviousPackage(tx[s])
    IN
    /\ Pending(s, "loaded", "submit")
    /\ evidence[p] > 0
    /\ NoOtherCurrentPackage(p, previous)
    /\ previous # Null => MaySupersede(previous, PreviousStatus(tx[s]), p)
    /\ tx' = [tx EXCEPT ![s] = [@ EXCEPT !.step = "checked", !.other = previous,
                                         !.count = evidence[p]]]
    /\ UNCHANGED rows

\* Mutant: only the superseded package gets a link.
LinkOneWay(previous, replacement, link) ==
    /\ supersededBy' = [supersededBy EXCEPT ![previous] = replacement]
    /\ supersedes' = supersedes

\* The columns supersede_submission_package changes: a foreign key that
\* already holds the value is not written again.
LinkSupersession(previous, replacement, link) ==
    /\ supersededBy' = [supersededBy EXCEPT ![previous] = replacement]
    /\ supersedes' = IF link = previous THEN supersedes
                     ELSE [supersedes EXCEPT ![replacement] = previous]

CommitSubmit(s) ==
    LET p == tx[s].pkg
        previous == tx[s].other
    IN
    /\ Pending(s, "checked", "submit")
    /\ MayHoldOtherStatus(p)
    /\ IF previous = Null
       THEN /\ status' = [status EXCEPT ![p] = "submitted"]
            /\ UNCHANGED <<supersedes, supersededBy>>
       ELSE /\ status' = [status EXCEPT ![p] = "submitted",
                                        ![previous] = "superseded"]
            /\ LinkSupersession(previous, p, tx[s].link)
    /\ sealed' = [sealed EXCEPT ![p] = tx[s].count]
    /\ Done(s)
    /\ UNCHANGED <<context, evidence>>

-----------------------------------------------------------------------------
(* request_learner_revision: a new draft that names the package it revises *)

BeginRevise(s, p) ==
    /\ status[p] = "submitted"
    /\ Load(s, "revise", p, Null, Null)

\* Mutant: the revision does not inherit the context.
CommitReviseWithoutContext(s, revision) ==
    /\ Pending(s, "loaded", "revise")
    /\ status[revision] = "absent"
    /\ status' = [status EXCEPT ![revision] = "draft"]
    /\ supersedes' = [supersedes EXCEPT ![revision] = tx[s].pkg]
    /\ Done(s)
    /\ UNCHANGED <<context, supersededBy, evidence, sealed>>

CommitRevise(s, revision) ==
    LET p == tx[s].pkg IN
    /\ Pending(s, "loaded", "revise")
    /\ status[revision] = "absent"
    /\ status' = [status EXCEPT ![revision] = "draft"]
    /\ context' = [context EXCEPT ![revision] = context[p]]
    /\ supersedes' = [supersedes EXCEPT ![revision] = p]
    /\ Done(s)
    /\ UNCHANGED <<supersededBy, evidence, sealed>>

(* supersede_submission_package called by itself *)
BeginSupersede(s, previous, replacement) ==
    /\ status[replacement] = "submitted"
    /\ MaySupersede(previous, status[previous], replacement)
    /\ Load(s, "supersede", replacement, previous, supersedes[replacement])

CommitSupersede(s) ==
    LET previous == tx[s].other IN
    /\ Pending(s, "loaded", "supersede")
    /\ status' = [status EXCEPT ![previous] = "superseded"]
    /\ LinkSupersession(previous, tx[s].pkg, tx[s].link)
    /\ Done(s)
    /\ UNCHANGED <<context, evidence, sealed>>

\* Mutant: any package can be withdrawn.
BeginWithdrawAny(s, p) ==
    /\ Exists(p)
    /\ Load(s, "withdraw", p, Null, Null)

(* withdraw_submission *)
BeginWithdraw(s, p) ==
    /\ status[p] \in {"draft", "submitted"}
    /\ Load(s, "withdraw", p, Null, Null)

\* Mutant: a withdrawn package is editable again.
CommitReopen(s) ==
    /\ Pending(s, "loaded", "withdraw")
    /\ MayHoldOtherStatus(tx[s].pkg)
    /\ status' = [status EXCEPT ![tx[s].pkg] = "draft"]
    /\ Done(s)
    /\ UNCHANGED <<context, supersedes, supersededBy, evidence, sealed>>

CommitWithdraw(s) ==
    LET p == tx[s].pkg IN
    /\ Pending(s, "loaded", "withdraw")
    /\ MayHoldOtherStatus(p)
    /\ status' = [status EXCEPT ![p] = "withdrawn"]
    /\ Done(s)
    /\ UNCHANGED <<context, supersedes, supersededBy, evidence, sealed>>

(* archive_submission: its guard admits a superseded package, the check
   constraint does not. *)
BeginArchive(s, p) ==
    /\ status[p] \notin {"absent", "archived"}
    /\ Load(s, "archive", p, Null, Null)

CommitArchive(s) ==
    LET p == tx[s].pkg IN
    /\ Pending(s, "loaded", "archive")
    /\ MayHoldOtherStatus(p)
    /\ status' = [status EXCEPT ![p] = "archived"]
    /\ Done(s)
    /\ UNCHANGED <<context, supersedes, supersededBy, evidence, sealed>>

-----------------------------------------------------------------------------
Begin(s) ==
    \/ \E p \in Packages : BeginEvidence(s, p)
    \/ \E p \in Packages, explicit \in Packages \cup {Null} : BeginSubmit(s, p, explicit)
    \/ \E p \in Packages : BeginRevise(s, p)
    \/ \E previous, replacement \in Packages : BeginSupersede(s, previous, replacement)
    \/ \E p \in Packages : BeginWithdraw(s, p)
    \/ \E p \in Packages : BeginArchive(s, p)

Commit(s) ==
    \/ CommitEvidence(s)
    \/ CommitSubmit(s)
    \/ \E revision \in Packages : CommitRevise(s, revision)
    \/ CommitSupersede(s)
    \/ CommitWithdraw(s)
    \/ CommitArchive(s)

Next ==
    \/ \E p \in Packages, c \in Contexts : CreateDraft(p, c)
    \/ \E s \in Sessions : Begin(s) \/ CheckSubmit(s) \/ Commit(s) \/ Rollback(s)

Spec == Init /\ [][Next]_vars

-----------------------------------------------------------------------------
(* Properties                                                              *)

Statuses == {"draft", "submitted", "superseded", "withdrawn", "archived"}

Transactions ==
    [step : {"idle", "loaded", "checked"}, op : Ops \cup {"none"},
     pkg : Packages \cup {Null}, other : Packages \cup {Null},
     otherStatus : Statuses \cup {"absent"}, link : Packages \cup {Null},
     count : 0 .. MaxEvidence]

\* The type of every column and of every open session.
TypeOK ==
    /\ status \in [Packages -> Statuses \cup {"absent"}]
    /\ context \in [Packages -> Contexts \cup {Null}]
    /\ supersedes \in [Packages -> Packages \cup {Null}]
    /\ supersededBy \in [Packages -> Packages \cup {Null}]
    /\ evidence \in [Packages -> 0 .. MaxEvidence]
    /\ sealed \in [Packages -> 0 .. MaxEvidence]
    /\ tx \in [Sessions -> Transactions]
    /\ \A s \in Sessions : tx[s].step # "idle" => tx[s].pkg \in Packages

\* However the sessions interleave, a package has a successor exactly when it
\* is superseded: a stale withdraw, archive or submit of a package that was
\* superseded meanwhile never commits (submission_superseded_by_requires_status).
SupersededIffLinked ==
    \A p \in Packages : status[p] = "superseded" <=> supersededBy[p] # Null

\* However the sessions interleave, supersession and revision links join two
\* different packages of the same learner and assessment context.
LinksStayInContext ==
    \A p \in Packages :
        /\ supersededBy[p] # Null => /\ supersededBy[p] # p
                                     /\ context[supersededBy[p]] = context[p]
        /\ supersedes[p] # Null => /\ supersedes[p] # p
                                   /\ context[supersedes[p]] = context[p]

\* However the sessions interleave, a package that grading can see, or could
\* once see, holds at least one evidence record.
GradableHasEvidence ==
    \A p \in Packages : status[p] \in {"submitted", "superseded"} => evidence[p] > 0

\* docs/logic/04-answer-lifecycle.md: the lifecycle services block a second
\* current submitted package of the same learner and context.
OneCurrentPackage ==
    \A p, q \in Packages :
        status[p] = "submitted" /\ status[q] = "submitted" /\ context[p] = context[q]
            => p = q

\* docs/logic/04-answer-lifecycle.md: submitted evidence is immutable grading
\* input.  What the evidence_sealed audit event counted is what is there.
EvidenceSealed ==
    \A p \in Packages :
        status[p] \in {"submitted", "superseded"} => evidence[p] = sealed[p]

\* The two link columns agree: the package that superseded p says so itself,
\* so walking the history forwards and backwards gives the same chain.
LinksAgree ==
    \A p \in Packages : supersededBy[p] # Null => supersedes[supersededBy[p]] = p

\* The history of a context never loops: every superseded package is followed,
\* in the end, by one that is not superseded.
HistoryAcyclic ==
    \A S \in (SUBSET Packages) \ {{}} : \E p \in S : supersededBy[p] \notin S

\* History is final: a superseded package keeps its status and its successor,
\* a withdrawn package can only be archived, an archived one stays archived,
\* and no package goes back to draft.
HistoryIsFinal ==
    [][\A p \in Packages :
        /\ status[p] = "superseded" => /\ status'[p] = "superseded"
                                       /\ supersededBy'[p] = supersededBy[p]
        /\ status[p] = "withdrawn" => status'[p] \in {"withdrawn", "archived"}
        /\ status[p] = "archived" => status'[p] = "archived"
        /\ status[p] = "submitted" => status'[p] # "draft"]_vars

-----------------------------------------------------------------------------
(* Refinement                                                              *)

CurrentIn(c) == {p \in Packages : status[p] = "submitted" /\ context[p] = c}

History == INSTANCE PackageHistory WITH
    None <- Null,
    current <- [c \in Contexts |->
                  IF CurrentIn(c) = {} THEN Null
                  ELSE CHOOSE p \in CurrentIn(c) : TRUE],
    past <- {p \in Packages : status[p] \in {"superseded", "withdrawn", "archived"}}

\* Service calls that run one after the other implement the abstract history
\* of one current package per context.
ImplementsPackageHistory == History!Spec
-----------------------------------------------------------------------------
(* What makes the safety properties inductive                              *)

\* Both ends of a link are rows, and a successor has left the draft status.
LinkedRowsExist ==
    \A p \in Packages :
        /\ supersededBy[p] # Null => status[supersededBy[p]] \notin {"absent", "draft"}
        /\ supersedes[p] # Null => Exists(p) /\ Exists(supersedes[p])

\* What an open session still knows at its commit, whatever other sessions
\* committed since it loaded its rows: rows and evidence do not go away, and
\* a row keeps its context.
SessionKnows(t) ==
    /\ Exists(t.pkg)
    /\ t.op \in Ops
    /\ t.other # Null => Exists(t.other)
    /\ t.otherStatus = "submitted" => t.other \in Packages /\ evidence[t.other] > 0
    /\ t.step = "checked" => t.op = "submit" /\ evidence[t.pkg] > 0
    /\ t.op = "supersede" => t.other # Null /\ status[t.pkg] # "draft"
    /\ t.other # Null /\ (t.step = "checked" \/ t.op = "supersede") =>
           /\ t.other # t.pkg
           /\ context[t.other] = context[t.pkg]
           /\ evidence[t.other] > 0

SessionsKnow == \A s \in Sessions : tx[s].step # "idle" => SessionKnows(tx[s])

LifecycleInv ==
    /\ TypeOK
    /\ SupersededIffLinked
    /\ LinksStayInContext
    /\ GradableHasEvidence
    /\ LinkedRowsExist
    /\ SessionsKnow

\* What a session knows when no other session commits before it: the rows are
\* as it loaded them.
SessionIsCurrent(t) ==
    /\ t.op \in {"evidence", "submit"} => status[t.pkg] = "draft"
    /\ t.op = "submit" => t.link = supersedes[t.pkg]
    /\ t.otherStatus = "submitted" => status[t.other] = "submitted"
    /\ t.op # "supersede"
    /\ t.step = "checked" =>
           /\ t.count = evidence[t.pkg]
           /\ t.other # Null => status[t.other] = "submitted"
           /\ \A q \in CurrentBeside(t.pkg) : q = t.other

SessionsAreCurrent == \A s \in Sessions : tx[s].step # "idle" => SessionIsCurrent(tx[s])

\* The operations run one after the other.
OneSession == \A s, r \in Sessions : s = r

SerialInv ==
    /\ OneCurrentPackage
    /\ EvidenceSealed
    /\ LinksAgree
    /\ SessionsAreCurrent

============================================================================
