# RubriCore-STE: specifications

This directory holds TLA+ specifications of the RubriCore-STE backend
(`app/`), TLC configurations that check them on small instances, and TLAPS
proofs of the theorems that hold for every instance. `PROJECT.json` lists the
runs, ties every definition to the lines it models, and names the hazards of the
code with the properties that guard against them.

## The system

RubriCore-STE grades learners' answer packages against rubrics. Teachers write
rubrics and answer keys, take suggestions drawn from a knowledge library into
them, and publish numbered versions. A package (`submissions` row) is drafted,
filled with evidence and submitted; a grading request resolves the versions to
use, scores the package with answer-key rules and manual levels, asks an AI
provider for advice, and lets a confidence policy decide whether the result is
final or goes to a teacher; a teacher approves, overrides or returns it.

| Part | State | Operations | Depends on |
|---|---|---|---|
| Answer lifecycle (`services/answer_lifecycle.py`) | `submissions`, `submission_evidence`, audit events | create, add evidence, submit, revise, supersede, withdraw, archive, request regrade | session |
| Grading orchestration (`services/grading_orchestration.py`) | `grading_runs`, `grading_results`, `criterion_results`, `ai_interactions`, `review_tasks` | resolve versions, start run, deterministic stage, AI stage, build result, route | rubric versions, answer keys, provider, lifecycle |
| Review policy (`services/review_policy.py`) | `teacher_reviews`, `teacher_overrides`, results, tasks | approve, adjust score, edit feedback, override criterion, return for regrade | lifecycle (`request_regrade`) |
| Routes (`pilot/fastapi_app.py`, `workflows.py`, `db_loaders.py`, `authz.py`) | the transaction of a request | grade, act on a review task; read-only routes | all services |
| Database session (`db/session.py`) | an open transaction | load, flush, commit, rollback | PostgreSQL |
| Rubrics (`rubrics.py`, `rubric_authoring.py`) | drafts, published versions with their criteria, levels and descriptors, bindings | create, edit, publish, bind | session |
| Rubric suggestions (`rubric_suggestions.py`) | suggestions and the chunks they cite | create, accept with or without edits, reject, supersede | rubric drafts, knowledge chunks |
| Answer keys (`answer_keys.py`) | drafts, published versions | create, edit, publish | session |
| Knowledge library (`knowledge_library.py`) | sources and their versions, chunks | register, revise, convert, chunk, replace, retrieve, cite | artifacts |
| Subject packs, review queue, evaluation, calibration, import/export | mostly pure functions | - | - |

What makes it hard:

* Every request is one transaction at READ COMMITTED. Nothing takes a row lock or
  keeps a version column, and `autoflush` is off. A guard is evaluated on rows as
  they were loaded; the flush writes the changed columns by primary key.
  Whatever another request committed in between is not seen, and columns this
  request did not change are not written.
* What stands behind a guard in the database is a check or a unique constraint:
  a number or a position computed from a loaded row may be taken at the commit,
  and then the whole transaction is rolled back.
* A draft schema is one JSON column: taking a suggestion into it rewrites the whole.
* A grading request waits for the provider (up to two minutes) between its reads
  and its commit.
* JSONB columns are plain dictionaries: a change in place after a flush is not
  noticed, and a read-modify-write replaces the whole column.
* `created_at` is the time a transaction began, not the time it committed.
* An error closes the session without a commit, and takes with it what the
  error handler itself recorded.
* The routing decision combines nine conditions over two sources that may each
  be missing, partial, invalid or contradictory.

Correctness, by component: the lifecycle keeps one current package per learner and
assessment context with sealed evidence and a linear history; orchestration
accepts a result without a human only when that is earned, and never lets an
unusable or contradictory AI output into it; review loses no pending result,
decides each task once, and records who gave the score a result shows;
publication makes an append-only history of valid versions, and grading uses the
one last published and bound; nothing of a suggestion reaches a rubric without a
teacher's decision, and nothing accepted is lost; the active chunks of a source
are one of its texts, whole, and what a suggestion cites stays available.

## Modules

| Module | Models | State |
|---|---|---|
| `AnswerLifecycle` | `answer_lifecycle.py` on the packages of one organization, in any number of sessions | one function per column, and `tx`: what each session loaded |
| `PackageHistory` | abstract: one current package per context, a growing past | `current`, `past` |
| `ConfidencePolicy` | what a grading run computes: scores, coverage, disagreement, confidence, reasons, route, band | none (operators) |
| `GradingRun` | `execute_grading_run`, stage by stage, for one run; extends `ConfidencePolicy` | the run, the payloads of its stages, the result and the routing |
| `GradingReview` | the grading and review routes in concurrent transactions; extends `ConfidencePolicy` | one function per table over run ids, and `tx` |
| `ReviewOutcome` | abstract: a result is accepted or waits, and is decided or returned once | `state`, `grade` |
| `RubricSchema` | the validators of schemas and answer keys, the rows a publication inserts, what an accepted suggestion does to a schema | none (operators) |
| `Authoring` | rubrics, answer keys, suggestions and bindings in concurrent sessions; extends `RubricSchema` | one function per column over documents (rubrics and answer keys) and suggestions, `bindings`, `tx` |
| `GradingContext` | the versions a grading run resolves from those rows, and the properties of both; extends `Authoring` | - |
| `VersionHistory` | abstract: documents with an append-only history of valid contents | `history` |
| `KnowledgeLibrary` | sources, conversion, chunks, retrieval and citation in concurrent sessions; extends `MarkdownChunks` | `source`, `chunks`, `citations`, `tx` |
| `MarkdownChunks` | `build_markdown_chunk_drafts`: sections by heading, long sections cut in parts | none (operators) |
| `MCAnswerLifecycle`, `MCGradingRun`, `MCGradingReview`, `MCGradingContext`, `MCKnowledgeLibrary` | instances for TLC | - |
| `AnswerLifecycleProofs`, `GradingRunProofs`, `GradingReviewProofs`, `AuthoringProofs`, `GradingContextProofs`, `KnowledgeLibraryProofs`, `MarkdownChunksProofs` | theorems | - |
| `FoldLemmas` | lemmas on induction, folds and sums that the proofs share | - |

How the code becomes actions:

* **Operations are split where other sessions can commit.** `Begin...` loads the
  rows and evaluates the guards on them, `Commit...` writes the changed columns.
  In `AnswerLifecycle`, `CheckSubmit` in between runs the queries of a submission;
  in `Authoring`, `Apply` loads the rubric of a suggestion that was loaded before.
  In `GradingReview` a teacher's request is `LoadTask`, `LoadResult`, and one of
  `Approve`, `AdjustScore`, `OverrideDetail`, `ReturnForRegrade`, which is the
  service call with its flush and commit; a grading request is `BeginGrading` and
  `CommitGrading` or `FailGrading`. Within one transaction no further split is
  visible to the others: nothing is committed before the end. Operations that
  insert rows and depend on none that can change (`Create`, `CreateSuggestion`,
  `Register`, `Revise`) are one step.
* **Guards are evaluated on what was loaded**, writes touch the columns that
  differ from what was loaded (`LinkSupersession`, `Finalize`, `Written`).
* **A failing guard is no step**: the session is closed and nothing changed.
  `Rollback`, `Refuse`, `RefuseApply` and `FailGrading` are the steps that give up
  a session already open, for whatever error; `FailGrading` also tells the client.
* **Constraints are guards of the commit**: the check constraint on successors
  (`MayHoldOtherStatus`), the unique version number (`IsNextVersion`), the unique
  position of a chunk (`PositionsFree`). `FailPublish` is the transaction the
  constraint on versions rolls back, kept apart from `Rollback` because it must
  end where any other error only may.
* **In-place changes of JSONB columns are not stored** (`Flushed`).
* **`overlap` is a history variable**: the documents, suggestions, contexts or
  sources that two sessions ever held open at once. The code guards none of
  them, so several properties hold only of what is not in `overlap`; it lets one
  run check both what every interleaving keeps and what sequential use keeps. The
  races that lie in `overlap` are races the code loses: a lost update of a draft
  schema, two decisions on one suggestion, bindings that commit in the other order,
  an edit across a publication, a citation across a replacement, two conversions.
  No property catches them, and the hazards in `PROJECT.json` that name them
  list none. What the properties say is that nothing else goes wrong.
* **`clock` counts the transactions begun**, creations included; a binding takes
  its `created_at` from it. `MaxTransactions` is the bound on it.
* **Data.** Ids and keys are model values. Scores are naturals in the unit of the
  level scores, confidence is a multiple of 1/`FullConfidence`. Evidence is counted.
  The texts of feedback, reasons and explanations are left out. The answer-key
  rules and the manual levels of a run are reduced to what they yield: a level for
  some of the criteria (`Selections`). The provider may return any suggestions, on
  known or unknown keys, within or above the bounds, or fail. A schema keeps its
  keys, positions, weights, scores and pairs, and for each criterion or note the
  suggestion it came from (`from`), which the code keeps as text. A text is a
  sequence of blocks, the pieces between blank lines.
* **Formats.** A source goes by the format of a filename, or by the `source_format` a
  caller's metadata puts in its place. The row keeps the latter (`format`), or none
  after `RegisterMarkdown`, which stores the row converted and active under any
  filename. A conversion goes by the row and, where that says nothing, by the
  filename it is given (`FormatOf`); a revision chunks by its filename whatever
  the row says. So a source with chunks may become unsupported, and an unsupported
  one may be converted later. `Named` are the formats metadata may give, `Limits`
  the values of `max_characters`, an argument of every call that cuts.

Definitions named as mutants in their comment are not part of the model. Each is a
variant of the definition below it with a plausible bug; put in its place, the
property named in `PROJECT.json` fails, which shows that the property depends on
that line of the code.

## Runs

`CHECK_DEADLOCK` is off: the system may stop, since the packages, run ids and
transactions of an instance are used up.

| Run | Instance | Shows |
|---|---|---|
| `lifecycle_serial` | 3 packages, 2 contexts, 1 session, 2 evidence rows | operations in sequence keep one current package per context, sealed evidence, agreeing links, an acyclic and final history, and implement `PackageHistory` |
| `lifecycle_race` | 3 packages, 2 contexts, 2 sessions | what any interleaving keeps: a status that agrees with the successor column, links within one context, evidence behind everything gradable |
| `grading_run_policy` | 2 criteria (weights 1, 2), levels 0 and 1, confidence in thirds, all answers of up to 2 suggestions, 8 policies | acceptance is earned, review has a cause, unusable AI output leaves no trace, deterministic scores prevail, totals and rows are within bounds |
| `grading_context` | 1 rubric, 1 answer key, 2 suggestions, 2 sessions, 5 transactions | versions form an append-only history (`VersionHistory`); what is published is the latest version; accepted content is traced to its decision and stays; a run resolves the last binding and the current key; whoever sets out to publish ends with that version published or rolled back by an error, and two publishers never block each other (liveness) |
| `knowledge_library` | 2 sources, 1 suggestion, 2 sessions, 4 transactions, 3 formats, 2 lengths to cut at, symmetric in sources and sessions | active chunks are one text, cut once, whole and in order, each under its headings and none too long without a reason; cited chunks stay; a source is offered exactly when it is converted; a replacement replaces nothing. Its assumptions check the chunker on all documents of up to 4 blocks of 5 kinds |
| `review_serial` | 2 packages, 3 runs, 2 graders, 1 teacher | one decision per task, complete history, results that show the decision; implements `ReviewOutcome` |
| `review_race` | 1 package, 3 runs, 1 grader, 2 teachers | what any interleaving keeps: no pending result forgotten, an origin for every final result, an author for every score |
| `lifecycle_two_current`, `grading_run_mixed`, `review_two_decisions`, `review_routing`, `review_failure` | small | statements of the documents that the code does not keep, below |

Why the bounds are enough.

* The races need two sessions and two or three packages: a package, its
  replacement, and a third that competes or is a second link of the history. Two
  contexts let a link cross contexts. In `lifecycle_serial`, `MaxEvidence` 2
  distinguishes sealed from late evidence; `lifecycle_race` only tells some from
  none and has 1 (with 2, `EvidenceSealed` fails there, as the code makes no
  promise between its check and its insertion).
* Two criteria give no, partial and full coverage by either source; two
  suggestions give duplicates, overlaps and mixed coverage; the eight policies
  change one setting of the default each (and two change both thresholds, one
  with the review threshold above the acceptance threshold); a suggestion above
  the maximum and one on a foreign key stand for every invalid one.
* Three runs give a graded run, a competing one and a regrade. `MCSignals` has one
  signal for each path through `CommitGrading`: accepted, queued with a score,
  queued without one.
* Five authoring transactions fit a rubric, a suggestion and three racing requests:
  create, suggest, and accept against edit against publish; or create, publish and
  two bindings whose commits swap; or create and four publications of one
  document, with the numbers they compete for. `MCSchemas` has a rubric without
  weights, one with a null weight, which also names a suggestion as its origin although
  a teacher sent it, and one that is refused; `MCProposals` a criterion, a
  descriptor and a note, and an edited payload that clashes with a position.
* Four library transactions fit a registration with Markdown, a chunking, a
  citation and a replacement; a registration, two conversions under different names
  and a chunking; or two of these racing. `Limit` 1 makes the retrieval cut off. Of
  the two `Limits`, 9 cuts one section of the longer text in two and leaves
  another, as long, whole because of its fence, and 20 cuts nothing, so one text
  may be chunked in two ways. `Named` has a format with a converter and one without,
  each also the format of a filename, so row and filename may disagree. The five
  kinds of block are a heading at two levels, a short and a long paragraph and a
  fence; four in a row give nested and closing headings, a cut, and an open fence.

### Where the code and its documents differ

1. `lifecycle_two_current`: the block of a second current package
   (`docs/logic/04-answer-lifecycle.md`) is a query with no lock and no unique
   index behind it; two sessions submit two packages of one context.
2. `grading_run_mixed`: with deterministic scores for some criteria and AI scores
   for the rest, coverage is complete and the result is accepted, but its total
   is the deterministic one: the criteria of the AI count for nothing.
3. `review_two_decisions`: the guard on open tasks looks at loaded rows; two
   teachers decide one task, and the second commit overwrites the first.
4. `review_routing`: the routing decision is merged into `explanation_payload`
   in place after the row was flushed, and is never written.
5. `review_failure`: the failed status of a run and its audit event are rolled
   back with the request that failed.
6. `grading_context`, `DescriptorNeverAccepted`: a suggestion of type descriptor
   is never accepted. A valid draft describes every pair of its criteria and
   levels, and a pair that is described is refused.
7. `grading_context`, `LastBindingResolves`: a null weight is valid and published,
   and grading cannot score it; the second part of the property shows that this
   is the only such reason.
8. `knowledge_library`, `NothingReplacesChunks`: replacing the chunks of a source
   supersedes rows whose positions stay unique, so the new chunks are refused, and
   the one replacement that commits is by a text without chunks. It is also why a
   source converted again keeps offering its old text.

Findings 6 to 8 are properties that pass: the code always behaves so, where a
document says otherwise. `docs/design-system.md` further says that editing a
published answer key creates a new version; the code sets the key back to draft, and
grading stops resolving it until it is published again (`ResolvedKeyIsCurrent`).

Two more follow from the same models and have no run of their own: a package
withdrawn during the provider call is graded all the same (its status is read
once, before the call), and a second grading request leaves two current results
(`supersede_grading_result` has no caller).

## Fairness and liveness

`Authoring` has a fair specification, `FairSpec`: a session that has begun takes its
next step (weak fairness of `Commits(s)` for every session `s`). The code justifies
it where a request waits for nothing outside the database: after its reads, an
authoring handler computes, flushes and either commits or is rolled back, and the
insertion of a version number another transaction has inserted ends in an error,
not in a wait. Nothing is assumed of sessions that have not begun, nor of `Rollback`,
by which any error may end an open session and which is never relied on. Under it
`PublicationSettles` holds, in two parts. Every publication ends; and a step that
ends one finds the version it set out for published, by this session or by the one
that won the number, unless it is a `Rollback`: the constraint refuses a publisher
only when another has published that number. `RolledBack` marks a session that ended
by an error until it begins again, so that the two ends can be told apart. The
property breaks in the variant where each publisher waits for the other
(`MayInsertAlone`).

No other liveness is claimed. A grading request ends only if its client, the
provider and the database answer, and runs queued by a regrade are picked up by
nothing in the application, so no progress of theirs can be stated.

## Proofs

The proofs hold for every number of packages, runs, documents, sources and
sessions, for any schemas and texts, any policy and whatever the provider says.
Every property of a passing run but the liveness one is stated by a theorem.

| Theorem | States | Needs |
|---|---|---|
| `AnswerLifecycleProofs` | | |
| `TypeCorrect` | the type invariant of `AnswerLifecycle` | - |
| `LifecycleInvariant`, `LifecycleSafe` | `LifecycleInv`; `SupersededIffLinked`, `LinksStayInContext`, `GradableHasEvidence`, however sessions interleave | - |
| `SerialInvariant`, `SerialSafe` | `SerialInv`; `OneCurrentPackage`, `EvidenceSealed`, `LinksAgree` | `OneSession` |
| `SerialIsFinal` | `HistoryIsFinal`: no package goes back | `OneSession` |
| `SerialIsAcyclic` | `HistoryAcyclic`: successors never loop, in any set of packages | `OneSession` |
| `SerialRefines` | the refinement of `PackageHistory` | `OneSession` |
| `GradingRunProofs` | | |
| `ScoresWithinBounds` | the type invariant: totals, sums over any set of criteria, are within their maximum | - |
| `SignalsAreSound` | `ScoreIsSound`, which `GradingReview` assumes of the runs it takes as given | - |
| `AcceptanceIsEarned`, `ReviewIsCaused` | `AutoAcceptIsEarned`, `ReviewHasCause` | - |
| `UnusableIsNotUsed`, `DeterministicScoresPrevail`, `ConfidenceIsWeakest` | `UnusableOutputIsNotUsed`, `DeterministicPrevails`, `ConfidenceIsWeakestSignal` | - |
| `GradingReviewProofs` | | |
| `ReviewTypeCorrect` | the type invariant of `GradingReview` | - |
| `ReviewInvariant`, `ReviewSafe` | `ReviewInv`; `NoResultForgotten`, `FinalResultHasOrigin`, `TotalHasAuthor`, however requests interleave | - |
| `SerialReviewInvariant`, `SerialReview` | `SerialInv`; `OneDecisionPerTask`, `HistoryComplete`, `ResultShowsDecision` | `OneTeacher` |
| `SerialOutcome` | the refinement of `ReviewOutcome` | `OneTeacher` |
| `AuthoringProofs` | | |
| `AuthoringTypeCorrect` | the type invariant: stored drafts and versions are valid | - |
| `PublicationRefines` | the refinement of `VersionHistory`, however sessions interleave | - |
| `GradingContextProofs` | | |
| `PublishedShowsLatest`, `ResolvedKeyCurrent` | `PublishedMeansLatest`, `ResolvedKeyIsCurrent` | - |
| `BindingResolved` | `LastBindingResolves` | - |
| `ContentIsTraced`, `DescriptorsRefused`, `AcceptedStays` | `TracedToDecision`, `DescriptorNeverAccepted`, `DraftKeepsAccepted` | - |
| `KnowledgeLibraryProofs` | | |
| `KnowledgeTypeCorrect` | the type invariant: a converted source has Markdown, a pending one none, and a source with chunks keeps its own, whatever the formats | - |
| `ReplacementNeverReplaces` | `NothingReplacesChunks` | - |
| `KnowledgeSafe` | `CitedChunkStays`, `ActiveMeansConverted` | - |
| `ChunksAreReadBack` | `ChunksReadBack`: active chunks are one document that was sent, cut once at one of the limits | - |
| `MarkdownChunksProofs` | | |
| `ChunksPartitionDocument` | `Partitions`: the chunks of a document, put together, are the document | `IsDocument` |
| `ChunksKeepOutline` | `KeepsOutline`: no chunk crosses a heading, and its path is the outline there | `IsDocument` |
| `LongChunkHasReason` | `LongHasReason`: a chunk too long is one block or has a fence | `IsDocument` |

Every theorem rests on the named assumptions of its model, which TLC evaluates in
the runs: the values that stand for SQL NULL or an absent key are no ids
(`NullAssumption`, `NullPackageAssumption`, `NoneAssumption`), grading and teacher
sessions are distinct, bounds are naturals, weights are positive, a published
rubric has criteria, finitely many. The others say what the model is given:

* `SignalsAssumption`: the outcomes of grading runs that `GradingReview` takes as
  given satisfy `ScoreIsSound`: a score within the maximum, none only when neither
  stage scored, and suggestions only from a valid output. `SignalsAreSound` proves
  this of every run of `GradingRun`.
* `SchemasAssumption`, `PayloadsAssumption`, `ProposalsAssumption`: requests are
  parsed to lists of items, and a proposal has a target. A schema a teacher types in
  may name suggestions as the origin of its parts, which nothing looks up;
  `TracedToDecision` is about those that no such schema names (`Claimed`).
* `ContentsAssumption`, `IsDocument`: a text is a sequence of blocks, each with a
  level, a size and a fence or none.
* `ChunkedAssumption`: `Chunked` is `ChunkDrafts` on the documents and limits. It is a
  constant only so that an instance can compute it once for each.

A commit writes columns chosen from rows loaded earlier, so a property of the
rows is inductive only together with what an open session may still rely on. Each
module has its answer to that.

* **Lifecycle.** `LifecycleInv` adds `SessionsKnow`, the facts about loaded rows that
  no other commit can undo (rows exist and keep their context, the evidence a
  submission counted is not taken away), and `LinkedRowsExist`. Under `OneSession`,
  `SerialInv` adds that what a session loaded is still there (`SessionsAreCurrent`).
  The refinement maps `current` to the submitted package of a context and `past` to
  the packages that are over: `CommitSubmit`, `CommitRevise` and `CommitSupersede`
  publish, `CommitWithdraw` and `CommitArchive` retire or discard. A successor
  is a package without one, so a set of packages all of whose successors
  lie in it cannot come about. Finality needs one more fact of an open withdrawal
  (`WithdrawsOpen`).
* **Review.** `ReviewInv` adds `RunsConsistent`, the agreement of the rows of one run
  (a task is open only while its result waits and no review exists; a regrade
  belongs to a completed task of the same package), and `SessionsConsistent`: each
  grading request holds a run id of its own, and a teacher's request, however stale,
  knows the score of the run. The last is why `TotalHasAuthor` survives two decisions
  on one task: every review records that score as the previous one, and a total is
  written only where it differs from it. Under `OneTeacher`, `TeacherIsCurrent` makes
  the refinement go through; the grades of `ReviewOutcome` come from the scores a
  run or a teacher may give (`ScoresPossible`).
* **One run.** `RunInv` says that at each stage the result, the rows and the routing
  are what `ConfidencePolicy` computes from the deterministic levels, the outcome of
  the AI, the policy and the warnings. The theorems are then facts about
  these operators; `det`, `ai`, `policy` and `warnings` are arbitrary in them.
* **Authoring.** `AuthoringInv` says what each open session holds: valid content to
  write, and a number that is free or taken but never beyond the next. The unique constraint does
  the rest: a number is inserted once, and only as the next one, which is the step
  of `VersionHistory`. `ExclusiveInv` adds that rows outside `overlap` are still as
  loaded (`LoadedOK`), and that `overlap` misses nothing (`OverlapSeen`).
  `BindingsInv` orders the bindings of a context that never overlapped
  by their clock readings.
* **Rubric content.** `ContentInv` follows a suggestion from the draft that took it to the
  versions copied from it, and through the sessions that are about to write either.
  Descriptors are never accepted because every stored draft is valid, hence
  describes each pair of its keys already.
* **Knowledge library.** `KnowledgeInv` keeps that the chunks of a source are one batch
  that shares a status and contains position 0 (`OneBatch`). Another batch with any
  chunk would have a position 0 too, so it is refused, and superseded chunks
  are followed by none. `WholeOK` adds that the active rows of a source are the
  rows of all drafts of one document, since they are inserted together, from one text at one limit, and only
  where no active row is left. With the theorems on the chunker, they read back as that document.
* **Chunker.** The chunker is three nested folds, over the blocks of a document, the
  headings that are open and the blocks of a section. Each fold is a run of states,
  one per element (`ReaderRun`, `BelowRun`, `PartRun`, `DraftsRun`), and an invariant of
  the run is shown by induction on its place. `ReaderOK`: after k blocks, sections
  and current section cut the first k blocks in order, the stack selects the headings
  that are open there (`Selects`, `OpenHeadings`), and only a first block is a
  heading. `PartOK`: the parts cut the blocks read, `length` is at least the length of the
  current part, and while a fence is open that part has one. A cutting is an
  increasing function from pieces to places in the document (`Cutting`); cuttings
  of cuttings compose, which is what `InPlace` of all the drafts rests on.
* **Sums.** That a total is within its maximum compares sums over a set of criteria.
  The folds of the community modules choose an element at each step, so two sums
  need not go in the same order; `SumsAnyOrder` shows that they may, and `SumTakes`
  and `SumMonotone` follow. `FoldLemmas` gets induction over the naturals and over
  finite sets from the library's theorem on least elements (`WFMin`), stated with
  sets in place of predicates; that a recursively defined fold exists at all is the
  first thing to show with it (`FoldExists`, `LeftFoldExists`).

What the missing locks cost is visible in the assumptions `OneSession` and
`OneTeacher` and in `overlap`. The violation runs `lifecycle_two_current` and
`review_two_decisions` show that the first two cannot be dropped.

A proof of a step has one lemma per action or group of actions. The four teacher
actions share `DecisionEffect`, which reduces them to one form (`Decision`, with
`Queueing`), and the steps that leave the tables alone share `SameTables`. The
strengthenings `SerialInv`, `ReviewInv` and `LifecycleInv` are invariants of runs as
well, each with a mutant that breaks it.

Left to TLC:

* `PublicationSettles`: liveness under fairness.
* The violation runs: that the code reaches a state is shown by an example.
* Nothing else of the passing runs. Induction over a text and over sums is in reach
  because `FoldLemmas` states it with sets in place of predicates; each fold needs a
  lemma of its own (`ReaderRun` and the like), since no lemma can take an operator.
  The assumptions of `MCKnowledgeLibrary` on all documents of up to four blocks remain
  as a check of the definitions the three theorems on the chunker are about.

## Not modelled

* Subject packs (creation by tenant and key), the review queue (a query with an
  ordering), evaluation and calibration (functions of a batch of cases), answer-key
  rule matching (a function of a text and a rule): none keeps state that its
  operations race on, except that two sessions may create one subject pack at once.
* Tenancy and permissions: the models cover one organization and permitted
  callers.
* Contracts, adapters, pilot import and export, the Ollama client, seed data, the
  embedded page, migrations, scripts: conversions, I/O and constant data.
* Of `answer_lifecycle.py`, `supersede_grading_result`, which nothing calls; of the
  review actions, the teacher's criterion row and the texts.
* Of authoring, the flag `has_unpublished_knowledge_suggestions`, which nothing reads,
  and the evaluation contexts of bindings, which grading never looks up. A rubric a
  teacher edits by hand keeps of its parts the provenance the request gives them,
  true or not.
* Of the knowledge library, excerpts, the other metadata and the converters: a conversion
  yields the text the caller sent, or fails. The text a caller has chunked is any
  text, as in the code, which does not compare it with the stored Markdown.
* Reads that follow one another in a handler are one step: a commit of another
  session between two of them is seen by both or by neither, except where a module
  says so (`CheckSubmit`, `Apply`, `LoadResult`).

## Plan

1. Pure algorithms: answer-key rule matching, evaluation and calibration metrics,
   the review-queue order, against reference definitions.
2. Subject packs: two creations of one key, with and without an organization (a
   unique constraint does not count NULLs as equal).
3. Composition of `AnswerLifecycle` with `GradingReview` (revision and supersession
   during grading), and of `GradingContext` with `GradingRun`.
4. Tenancy of the loaders.
5. Liveness of a grading request under the provider's timeout.
