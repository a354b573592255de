# PE-Agent: specifications and proofs

PE-Agent investigates yield drops for process engineers. A case page asks a FastAPI service for an
analysis; a worker process claims the task, collects evidence through read-only platform tools, asks a
decision model one scored question, composes a report that cites its evidence, validates it, and settles
the task in one transaction; the page follows the task over snapshots and a server-sent event stream.

This directory holds TLA+ models of that program, TLC configurations that check them on small instances,
and TLAPS proofs of the properties that matter most for every instance. Paths are relative to the
repository: `worker/service.py` stands for `src/backend/src/pe_agent/worker/service.py`, and likewise for
the other Python files; `caseAnalysis.ts` is `src/frontend/src/store/caseAnalysis.ts`.

## 1. The system

| Part | State it keeps | Operations |
|---|---|---|
| Task table (`repositories.py`, `models.py`) | status, lease token, lease deadline, fence, idempotency key, `supersedes_task_id`; event feed; report; evidence rows | create, cancel, claim, renew, finalize |
| Checkpoints (`TaskCheckpointRepository`) | one row per task and stage (`collected`, `decided`) with the writer's fence | save (upsert), load |
| Worker (`worker/service.py`, `worker/__main__.py`) | locals of `run_once`: work item, collection, decision, outcome; a renewer task; a timeout | claim, resume, collect, decide, compose, explain, finalize |
| Workflow (`yield_drop_workflow.py`) | none between calls | plan by permission and entity, batches of three concurrent tool calls |
| Report rules (`reporting.py`) | none (pure) | `compose_report`, `validate_report`, `attach_expression` |
| Decision and explanation adapters | attempt counter of one request | ask, back off, retry, give up |
| Admission (`task_service.py`) | none; advisory locks and row locks of a transaction | `create_or_resume`, `retry` |
| Snapshots and stream (`task_service.py`, `api/routes/analysis.py`) | cursor of one response | `get_snapshot`, `stream_batch`, `_event_stream` |
| Store of the page (`caseAnalysis.ts`, `api/client.ts`) | view per task, last sequence, reports, active task, error, timers, abort controllers | open, accept a snapshot, apply an event, reconnect, hide and show, cancel, retry, review, archive |
| Drawer of the page (`caseAnalysis.ts`) | `requestEpoch`, the case and task shown, the skeleton, the error with the case it is about, the recovery record | open a case, close, retry, cancel, with answers about earlier cases still to come |
| Reviews and Case Book archive (`task_service.py`) | reviews by revision, archive rows with keys | submit a review, archive a case |
| Identity, configuration, platform adapters, prompts, schemas | none or static | checks at the edge |

**Interaction.** API and workers share nothing but the database. The worker's `finalize`, a user's
cancellation and a renewal are compare-and-set statements on one row. Checkpoints are written by one
worker and read by the next. The page talks to the API only through requests that may be answered late,
out of order or not at all.

**What is hard, and what makes each part correct.**

* *Two workers on one task.* A lease lapses while its holder is slow, on clocks that disagree. Correct:
  at most one process passes the compare; only the latest claim settles; a settled task never changes;
  a task that is submitted settles in spite of crashes, unless its evidence is stored already (section 6).
* *A worker that dies anywhere.* Its successor resumes from rows of a run it knows nothing about, perhaps
  in another release. Correct: the report shows the evidence that was saved, the judgement is the decision in
  hand under its own question set, and what it cites is in the report. That the decision was made about this
  very evidence the code does not ensure (section 6).
* *A finalize of several tables.* Correct: status, feed, report and evidence rows agree in every state.
* *Requests that race.* Correct: interleaved transactions amount to atomic ones; keys, starts and retries
  are deduplicated; no order of lock requests blocks for ever.
* *Snapshots and batches read statement by statement* under READ COMMITTED while the task settles.
  Correct: the page shows nothing uncommitted, skips no event and does not come to rest on an old state.
* *An engineer who moves on before the answer comes.* Openings, closings, retries and cancellations of
  several cases overlap. Correct: an answer or an error about one case is not shown in another's drawer,
  and the skeleton always has a request behind it.
* *Reviews and archives sent twice, late or by two people.* The page does not know whether a request that
  failed was served. Correct: concurrent transactions never collide on a unique key; what a page shows is
  what was recorded for its engineer; a key answers only the request it was used for.
* *Rules written twice* (`compose_report` makes a draft, `validate_report` checks it; the status and the
  list of gaps are derived apart). Correct: a draft is rejected only for faults of the evidence; a complete
  report hides no reservation of the sources that were asked (a source that is skipped is not among them,
  section 6); a partial one names its gaps; no text of the program claims a cause.

`PROJECT.json` lists each hazard at its line with the properties that cover it.

## 2. The modules

| Module | Models | Composed with |
|---|---|---|
| `TaskLifecycle` | what the table promises about one task: submitted, settled once, with report and feed | refined by `WorkerLease`, instantiated by `TaskStream` |
| `WorkerLease` | task, checkpoint and evidence tables; any number of worker processes | |
| `MCWorkerLease` | the case of one task and the symmetry of workers | |
| `WorkerLeaseProofs` | theorems about `WorkerLease` | |
| `TaskRegister` | admission as atomic operations | refined by `Admission`, instantiated by `CaseDrawer` |
| `Admission` | `create_or_resume` and `retry`, statement by statement, with their locks | |
| `MCAdmission` | the symmetry of clients, tasks, keys and cases | |
| `AdmissionProofs` | theorems about `Admission` | |
| `TaskStream` | one tab following one task: snapshot, stream, store | `Server == INSTANCE TaskLifecycle` |
| `TaskStreamProofs` | theorems about `TaskStream` | |
| `CaseDrawer` | the store while its engineer goes from case to case | `Server == INSTANCE TaskRegister` |
| `MCCaseDrawer` | the symmetry of cases | |
| `CaseDrawerProofs` | theorems about `CaseDrawer` | |
| `ReviewLedger` | what reviewing and archiving promise: reviews appended, keys recorded once | refined by `ReviewArchive` |
| `ReviewArchive` | `submit_review` and `archive_casebook`, statement by statement, and the pages that call them | |
| `MCReviewArchive` | two contents and the symmetry of engineers and transactions | |
| `ReviewArchiveProofs` | theorems about `ReviewArchive` | |
| `ReportRules` | the pure rules of `reporting.py` | used by `Analysis` |
| `Analysis` | one analysis from claim to finalize, with retries, time limit, crash and resume | EXTENDS `ReportRules` |
| `ReportRulesProofs` | theorems about `ReportRules` | used by `AnalysisProofs` |
| `AnalysisProofs` | theorems about `Analysis` | |
| `MCAnalysis` | what a small platform may answer | |

### WorkerLease

`status`, `remaining`, `token`, `fence` are the row of `ai_analysis_task`; `feed`, `report`, `owner` the
event, report and evidence tables (`owner[e]` is the task whose row has the primary key `e`);
`collected`, `decided` the checkpoints; `pc`, `job`, `held`, `coll`, `dec`, `outcome` the locals of each
process. Time is relative: `remaining` is the deadline minus the wall clock and `Tick` lowers it. A
statement carries the timestamp its process took before sending it, so every guarded statement is
evaluated with some drift `d \in -Skew..Skew`. A uuid4 token is written as the number of the claim that
drew it.

`Claim`, `Renew`, `Cancel`, `Create`, `Publish` are the transactions of `TaskRepository`; `Publish` writes
all tables at once. `FinalizeRejected` is the compare that fails, whose `False` nobody looks at.
`FinalizeRaises` is the `IntegrityError` of an evidence id that is already stored; it leaves `run_once`, so
the process ends. `LoadCollected` ... `Compose` are the stages of `_analyze_full` between two awaits, where
saving may fail (`SaveFails`) and a row may not parse; `Interrupt` is the task timeout or any exception,
after which no collection reaches finalize. What a collection contains is one of six kinds; what
`compose_report` makes of each kind is `Verdict`, which `Analysis` details. `_persist_evidence` writes every item
of a collection, so one of historical items alone ends FAILED with its rows stored, or clashes like any other.

Left out: `transition()`, which tests alone call; outbox, tool-execution and model-assessment rows, which
are written in the same transaction and never read; `status` values between CREATED and the final ones,
which nothing sets.

### Admission

A client is a transaction slot. `pc` is the statement it is at: key lock, replay lookup, then case lock and
running lookup (analysis) or row lock and successor lookup (retry), then the insert with its commit. `Abort`
is any exception, which rolls back and frees the locks. `Settle` is the rest of the program: the task ends. A
lookup sees what is committed when it runs; only the locks relate it to the insert. The conflict branch of the
insert is there although the key lock keeps it from ever being taken (`Informed` in `AdmissionProofs` is the
reason). One tenant and one permission scope; a Case is a case id at a version; statuses are kept by class.

### TaskStream

`status`, `published`, `feed` are `TaskLifecycle`'s. `view`, `seq`, `cached`, `active`, `error`, `visible` are
the store's. Up to three snapshots (`gets`, by the call that made them) and one cancellation are in flight,
each a record of its stage and of what it has read so far: row, report, sequence, reply. The stream has a
tab's end (`conn`), a server's end (`srv`: row, latest, events, per batch) and a wire that can be lost with
what is on it. `late` is the closing event in the buffer of a stream that was aborted (the tab hidden, a
running snapshot accepted) while the report announced before it was fetched: the parse loop goes on, and
`applyEvent` looks at epoch and sequence only (`LateEvent`). Abstractions: the report that a step announces is
fetched, or fails to be, within the step; one `reconnectFrom` snapshot at a time; heartbeats, the permission
re-check of a stream, 401 and 403 are left out; the text of errors and phases too.

### CaseDrawer

`epoch` is `requestEpoch`. Each opening, closing and activation has a number and at most one chain of
requests (`call[e]`): recover or look up the latest task, create one, load its snapshot, load its report.
`action` is the retry or cancellation that `actionPending` stands for. `open`, `active`, `cached`,
`loading`, `trouble`, `pinned` are `activeCase`, `activeTaskId`, the statuses in `tasksById`, `loading`,
`error` and the recovery record; `streaming` is the task whose events arrive. `Serve` and `ServeAction` are
the API answering, `Take` and its parts what the store does with the answer, `Fail` and `FailAction` the
catch blocks, `StreamDenied` a 401 or 403 on the stream. The answer to a cancellation may wait for its report
(`fetching`, `TakeCancelledReport`) while the drawer goes on. `Others` are workers, other engineers and requests
the page gave up on. `TakeReport` writes the recovery record without asking whether its chain is stale, as
`acceptSnapshot` does.

History variables: `strayed` says that a retry was activated in a drawer that shows another case;
`trouble.case` says what a failure was about, which the code does not keep. Left out: a reload of the page,
which begins again with the recovery record; the text of errors and phases; a task with a report has no
retry button, so PARTIAL_RESULT is one of the COMPLETED here.

### ReviewLedger and ReviewArchive

`reviews` and `archives` are the rows of one task, `rowLock` the task's row FOR UPDATE, `pc`, `serving`,
`number` the transactions. `Lock` ... `Insert` are their statements; a lookup that finds the key answers
with the row only if content and engineer match, or archive and revision. `Insert` looks at the unique keys
of the tables (`Collides`), whose violation nobody catches. `sent` keeps every request ever made: `Begin`
may serve any of them at any time, once, again or never, which is delay, loss, reordering and duplication.
`Post` is a click, `waits` the `reviewPending` and `archivePending` of a page with the answer on its way,
`Lose` a failure the page sees whatever the API did or will do. `Reuse` is a caller that is not the page
and repeats a key with another engineer or content. `Leave`, `Return`, `Reload` are the drawer and the
browser. `unseen` is a history variable: the keys of reviews whose answer a page never took.

A review is the four parts that decide whether it is accepted; notes and the mapping to the Case Book are
left out. A disabled archive is a 403, on which the page clears what it shows.

### ReportRules and Analysis

`ReportRules` has the operators of `reporting.py` over evidence records that keep what the rules look at:
kind, quality, times, warnings, and the flaws only validation sees (wording that claims a cause, an
entity out of scope, a raw reference that is no link). Left out: titles, wording, numbering, identity and
yield figures (copied from the input; the rounding of the drop stays below the tolerance of its check),
schema details that a composed report always satisfies, the JSON shape. The set of gaps stands for the
deduplicated list. Scores are in tenths.

The lists of the code are functions of positions. `Slots` are the places of the items in the results,
`StableOrder` is how `sorted` puts them (by time, then id, equal ones as they stood), and `Arrange` puts at
place n the element that n - 1 others precede; `Keep` is a list comprehension with a condition. They are not
recursive, so that what they give can be proved for every list. The records `Evidence` and `ToolResult` are
what the pydantic models accept.

`Analysis` runs one worker at a time (overlap is `WorkerLease`'s). `Plan` is the calls permissions and
entities allow, `Batch` the next three, `Answer` one answer in any order, `Gather` the results in the order of
the calls. `Retry`, `ModelUnavailable`, `ModelFails`, `Judged` are the request to the model; `Explained` and
`ExplainerFails` the request to the explainer, whose adapter has the same loop and here the same
`MaxAttempts`. `TimesOut` may strike at every await. `Crash`, `Restart`, `Resume` lose the locals, perhaps run
in another release, newer or older (with its `QUESTION_SET_VERSION`, and whether saved rows can be parsed),
and reload what was saved. A reloaded tool result goes through `Reloaded`: `ToolResult.model_validate_json`
without a type parameter gives back a dictionary, not the payload's class.

## 3. What the runs check

Every run is one of the configurations in this directory. "Pass" means TLC explored the whole state
space of the instance without an error.

| Run | Instance | States | Shows |
|---|---|---|---|
| `worker_safety` | 1 task, 2 interchangeable workers, 1 earlier task with stored evidence, lease 3, skew 1, verified or historical evidence, 3 claims, 1 crash, renewals may be late | 497,734 | `TypeOK`, `OneLeaseholder`, `EvidenceBacksReport`, `OnlyLatestClaimSettles`, `SettledIsFinal`, `ImplementsLifecycle` |
| `worker_live` | 1 task, 2 workers, 1 earlier task with stored evidence, verified, historical or duplicate evidence, lease 2, 3 claims, 2 crashes, renewals in time | 140,101 | `EveryTaskSettles`, `EveryWorkerReturns`, `NoWorkLostWhileRenewing` |
| `admission` | 3 clients, 3 tasks, 3 keys, 2 cases, symmetric | 185,591 | `TypeOK`, `OneStartPerCase`, `OneSuccessor`, `AnswerFitsRequest`, `NoDeadlock`, `RecordedKeyIsFinal`, `ImplementsRegister` |
| `admission_live` | 2 clients, 3 tasks, 3 keys, 1 case | 482,842 | `EveryRequestIsAnswered` |
| `stream` | replay limits 1 and 3, 2 failures, 2 times hidden, 2 openings | 73,832 | `TypeOK`, `ViewIsCommitted`, `NoEventSkipped`, `RestIsComplete`, `FinalViewStays`, `FollowedToTheEnd` |
| `drawer` | 2 interchangeable cases, 2 tasks, 3 epochs | 1,404,033 | `TypeOK`, `OnlyRetriesStray`, `LoadErrorsStayHome`, `WaitsForAnAnswer` |
| `review` | 2 engineers, 2 transactions, 3 keys, 3 requests sent, a valid and an invalid review, archiving on and off, symmetric | 469,154 | `TypeOK`, `InsertsNeverCollide`, `ShownIsRecorded`, `SavedIsNewest`, `ImplementsLedger` |
| `analysis` | 6 tools with 1 to 4 answers each, 2 permission sets, case with and without tool and recipe, 2 scores, 2 releases, 2 attempts, 1 crash | 268,120 | `TypeOK`, `CollectionFollowsPlan`, `DraftsAreValid`, `CompletedHidesNothing`, `PartialNamesItsGaps`, `JudgementIsGrounded`, `NoCausalClaim`, `SavedEvidenceIsReported` |

Four more runs check one property each that a document or test of the repository states, and that the code
does not have (section 6): `evidence_clash`, `torn_snapshot`, `resumed_conflict`, `archive_twice`.

**The bounds and why they suffice.** Tasks do not interact in `WorkerLease` except over evidence ids, so one
task and an earlier one that may own its ids have every interaction; two workers have every overlap of a
current and a superseded holder, and three claims let a worker be superseded, supersede in turn and be
superseded again; a lease of 3 with skew 1 is the smallest at which renewed, lapsed for some clocks and lapsed
for all are different. The theorems remove these bounds for safety. In `Admission` two transactions contend
for each lock and a third can wait behind them; three tasks allow an original, its successor and a fresh
analysis, and two concurrent retries of one task with room for both to insert (`Submit` is guarded so that a
transaction never runs out of task ids). A feed has at most three events, so a replay limit of 3 behaves as
the deployed 500 and a limit of 1 makes cursors expire; two failures, hidings and openings let each happen
while the consequence of an earlier one is pending. In `Analysis` every rule has an answer that triggers it
and one that does not, a batch boundary falls inside the plan, and the reduced permissions leave one batch. In
`CaseDrawer` three epochs let a chain be overtaken, and the chain that overtook it as well; two tasks are an
original and its retry, or the tasks of two cases. In `ReviewArchive` three requests are two that contend for
the row and one that repeats a key or archives what was reviewed, each served any number of times; two
transactions have every overlap, since each waits for the one row lock. Of the two contents one passes
validation and one does not; which of its conditions fails makes no difference to the steps. `MaxFence`,
`MaxCrashes`, `MaxFailures`, `MaxHides`, `MaxOpens`, `MaxTask`, `MaxEpoch`, `MaxSent` only bound the search;
`MaxAttempts` and `ReplayLimits` are settings of the program.

**Deadlock** is checked in the worker runs. Elsewhere the system may really stop: a tab that shows a final
report, an analysis that was finalized, an admission that has used up the bounded set of task rows, a drawer
nobody clicks in, an engineer who has nothing more to review.

**Fairness.** A process that is up takes its next step, a process that is down is restarted (the deployment's
restart policy) and time passes; nothing forces users, crashes or renewals. `worker_live` assumes `Timely`:
the renewer, which runs at half the lease, keeps ahead of the clock. Without it two slow workers can take a
task from each other for ever, within the bound on claims a task then stays unsettled. `admission_live`
assumes strong fairness of each client's next statement: PostgreSQL grants a lock in the order of its queue,
which a model with a bare lock holder does not show. `stream` assumes that requests are answered or fail, that
the task settles (which `worker_live` shows, with the exception below), that timers fire and that a hidden tab is shown again.
`analysis`, `drawer` and `review` state no liveness: engineers need not click, and a request may be lost for
ever.

`EveryTaskSettles` has one stated exception, a defect of its own: `FinalizeClashes`, a worker at a finalize
whose evidence is stored already (section 6). Without it the property fails: every later claim resumes the same
saved collection and dies at the same insert. `NoWorkLostWhileRenewing` exempts such a clash, cancellations
and processes that are killed.

`FollowedToTheEnd` has two stated exceptions, both defects of their own: `Deaf`, the torn snapshot of
section 6, and `Abandoned`, a snapshot that fails inside `reconnectFrom`, which nobody catches
(only reachable when a cursor expires). `RestIsComplete` and `FinalViewStays` are about deployments whose
replay limit is not exhausted (`NeverExpires`), such as the default.

## 4. What is proved

The proofs are checked by TLAPS. They hold for any number of tasks, workers, clients, keys, cases and
evidence ids, any lease duration and skew, and any value of the bounds, under the modules' named
assumptions: null values are not members of their sets, an earlier task is not one of the tasks, the lease
is longer than twice the skew, the contents of reviews are among those `ReviewLedger` knows, and what a
platform answers is a tool result of the tool that was called, as `ToolResult` validates it. Each bound in a
guard is a constant of the theorems as well.

`WorkerLeaseProofs`:

* `TypeCorrect` - `TypeOK`. Not inductive alone: that `Publish` writes a report of the right type depends
  on what each program counter knows of its locals. `TypeInv` adds `LocalInv`, which says so
  (`TypesHold`).
* `ExclusiveLease` - `OneLeaseholder`, from `LeasesFenced`. The inductive invariant `LeaseInv` says that a
  token never exceeds its fence, that a busy process's fence is at most the row's, and that two busy
  processes on one task hold different fences. `OneLeaseholder` alone does not survive a `Claim`: the new
  holder's fence has to differ from that of every process that still believes it works on the task, not
  only from the current holder's.
* `FeedsAgree` - `FeedInv`: the feed is the one the status calls for; needed because the refinement
  compares whole feeds while the code appends.
* `EvidenceStored` - `EvidenceBacksReport`, with `FeedInv`: a task owns rows only if it is settled.
* `StaleWorkersNeverSettle` - `OnlyLatestClaimSettles`; `SettledForGood` - `SettledIsFinal`: action properties
  from these invariants, one step per action.
* `NothingWasted` - `NoWorkLostWhileRenewing`: a result that reached finalize is stored, unless the task was
  cancelled, its evidence clashes or its process is killed. From `KeepUpInv`: while renewals keep up, a busy
  worker has the lease of its task with at least `Skew` left, so that nobody's clock lets it be claimed, or
  the task was cancelled. That the lease is longer than twice the skew is used in the step of a renewal.
* `Refinement` - `ImplementsLifecycle`, with `published` mapped to the tasks that have a report.

`AdmissionProofs`:

* `TransactionsIsolated` - the inductive invariant `IInv`. Its core says of each statement what the
  transaction has learnt and which lock keeps it true: past `replay` nobody else can record the key
  (`Secured`, `Informed`); past `running` nobody else can start an analysis of the case; past `successor`
  nobody else can supersede the task. Without these the three uniqueness properties are not inductive.
* `TypeCorrect`, `StartsDeduplicated`, `RetriesDeduplicated`, `AnswersFit`, `RecordedKeys`: `TypeOK`,
  `OneStartPerCase`, `OneSuccessor`, `AnswerFitsRequest`, `RecordedKeyIsFinal`.
* `Refinement` - `ImplementsRegister`.
* `DeadlockFree` - `NoDeadlock`, from `Placing`: the holder of a key is past the statement that waits for one,
  the holder of a case or a row is past every statement that waits. So a blocked transaction waits for one
  that is further on, and of any set the furthest waits for none (`HolderIsFurther`).

`TaskStreamProofs`, for any replay limits:

* `Inductive` - the invariant `IInv`. `RowInv`: the status fixes report and feed. `GetInv`: what a snapshot
  under way has read is committed, however old, and it misses the report only if its row was read before
  the end. `WireInv`: the events on the wire are consecutive, end at the server's cursor and begin no later
  than right after what the tab has applied. `LateInv`: an aborted stream holds a closing event only of a
  settled task. `FollowInv`, for a replay limit no feed exceeds: an opening
  excludes a reload and a stream (`OrderInv`), what is reloaded is final (`LoadInv`), and a view that is not
  complete has a stream, a timer, a request or the return of the engineer to bring the rest (`RestInv`).
  None of the properties is inductive without them: that the tab rests only on a complete view depends on
  what a snapshot sent long before had read.
* `TypeCorrect`, `ViewCommitted`, `NothingSkipped`, `RestComplete`, `FinalStays`: `TypeOK`,
  `ViewIsCommitted`, `NoEventSkipped`, `RestIsComplete`, `FinalViewStays`.

`CaseDrawerProofs`, for any number of cases, tasks and epochs:

* `TypeCorrect` - `TypeOK`, from `BaseInv`: a task that is known to a chain, an action or the cache exists
  and has the case it was asked for (`CallInv`, `ActionInv`, `CacheInv`).
* `StrayOnlyByRetry`, `ErrorsAtHome`, `NeverIdleWaiting` - `OnlyRetriesStray`, `LoadErrorsStayHome`,
  `WaitsForAnAnswer`, from `ViewInv`. Its `CurrentInv` says what a chain that is not stale may rely on: it is
  about the open case, nothing is shown before it knows its task, and then that task is shown unless an
  error cleared it. Without it an answer that passes the staleness check could be another case's.

`ReviewArchiveProofs`, for any number of engineers, keys, transactions and requests:

* `TypeCorrect` - `TypeOK`, from `TypeInv`.
* `NoCollision` - `InsertsNeverCollide`, from `SlotInv`: what a transaction past a lookup has found still holds
  while it has the row lock. `LedgerRefined` - `ImplementsLedger`, from the same invariant.
* `ShownRecorded`, `NewestShown` - `ShownIsRecorded`, `SavedIsNewest`, from `RecordInv`: keys of rows are
  distinct and were sent (`RowInv`), a review that is awaited is newer than the one shown and an archive
  entry is not (`AskedInv`), and a review that was sent is recorded up to the one shown, awaited, or unseen
  (`AccountInv`).

`ReportRulesProofs`, for any input whose results are tool results:

* Lemmas about the lists: what `Arrange` gives is each element once and in the order (`ArrangeLists`, by
  counting: what precedes two elements are sets of different size), what `Keep` gives is a subsequence
  (`KeepList`), `StableOrder` is a strict total order of the slots (`StableOrderOrders`). Hence what a report
  shows are the items of the results and nothing else, in order of time (`AllEvidenceListed`,
  `CurrentEvidenceListed`); whatever is cited is the id of one current item (`CitedIsCurrent`, which is where
  the preflight's search for duplicate ids is needed).
* `DraftsPass` - the two writings of the rules agree: the draft of an input that passes the preflight has none
  of the faults `validate_report` looks for in a composition (empty, duplicate or unknown references, a
  timeline out of order, an altered assessment, support by historical items alone). So a report fails
  validation only over the wording, scope and links of its evidence: `PublishedExactly`.
* `ComposeOutcome` - one of three statuses, a report in two of them, no error about the draft itself.
* `CompletedExactly` - a publication is COMPLETED if and only if every call was answered in full, no item or
  result has a reservation and the model was heard; `PartialPublication`, `GroundedPublication` - what a
  partial publication and a hypothesis always say.
* `PublicationIsClean`, `AttachedReport` - no published text claims a cause, and an explanation changes nothing
  but the expression.

`AnalysisProofs`, for any platform, model, release sequence, number of attempts and of crashes:

* `AnalysisInvariant` - the inductive invariant `AnalysisInv`, which TLC also checked on the instance of
  `analysis`. `CollectionInv`: the worker's results and the saved ones are, call by call, those of the plan's
  first calls, as answered or as loaded again (`Follows`), and what is in flight belongs to the batch; the
  saved list is part of it because a resume makes it the worker's own. `GroundInv`: a report in hand is the
  publication of the results and the decision the worker still has (`FromInput`), and once something was
  saved the worker's results have the saved evidence (`FromCheckpoint`); that is established by
  `SaveCollected` or by `Resume`, and no stage between asks the platform again. `ControlInv` and `OutcomeInv`
  are the types, and that no outcome fails over its own draft.
* `TypeCorrect`, `PlanFollowed`, `DraftsAreAlwaysValid`, `CompletedHidesNothingHolds`,
  `PartialReportsNameGaps`, `JudgementGrounded`, `NoClaimPublished`, `SavedEvidenceSurvives`: `TypeOK`,
  `CollectionFollowsPlan`, `DraftsAreValid`, `CompletedHidesNothing`, `PartialNamesItsGaps`,
  `JudgementIsGrounded`, `NoCausalClaim`, `SavedEvidenceIsReported`. The report properties follow from the
  invariant and the theorems about the rules.
* `EachCallOnce` - no tool is collected twice, and none without its permission and its entity.

Every invariant, action property and refinement of the passing runs is thus a theorem. Only model-checked are
the liveness properties `EveryTaskSettles`, `EveryWorkerReturns`, `EveryRequestIsAnswered` and
`FollowedToTheEnd`: fairness and ENABLED are out of the prover's reach. `NoDeadlock` is the part of
`EveryRequestIsAnswered` that is a safety property. The four disagreements of section 6 are counterexamples
and need no proof.

## 5. Each property has a mutant

For each property of a passing run, `PROJECT.json` names a mutated form of one mapped definition, such as a
dropped lock, a compare without the fence, a status derived from half of what it depends on. It stands
just before the definition, commented "Mutant". With it in place TLC finds the property violated.

## 6. Where the code and its documents disagree

* `evidence_clash` (`models.py:119`): the primary key of `ai_evidence` is the platform's evidence id without
  the task. A second analysis of a case cannot store its evidence; a validated report is rolled back and the
  worker process ends. The collected checkpoint was saved, so the worker that claims the task next resumes it
  and ends at the same insert, and so does every other: unless a cancellation, a timeout or a failure before
  finalize intervenes, the task is never settled. `data-flow.md` item 7 promises that a validated report is saved.
* `torn_snapshot` (`task_service.py:456`): a snapshot may combine a row from before the end with the sequence
  of the closing event; the tab then reconnects for ever to a stream that has nothing for it, where
  `data-flow.md` item 8 promises the authoritative snapshot in the end.
* `resumed_conflict` (`worker/service.py:563`): after a resume the payloads are dictionaries; the check for a
  yield conflict silently does not apply, and similar cases are lost. `test_reporting.py:192` is
  `test_yield_conflict_fails_without_publishing_a_report`.
* `archive_twice` (`caseAnalysis.ts:269`): every click on the archive button draws a new key, the API looks
  only the key up, and no unique key relates `ai_casebook_archive` to the review. A request that is served
  although its page saw it fail leaves a second entry when it is retried. `api-spec.md:64` says a retry
  cannot create a second record, `data-model.md:12` that a review has at most one.

The models have these behaviours too; no run is about them alone:

* A retry that is answered after the engineer opened another case is activated there
  (`caseAnalysis.ts:285`), where `state-management.md:11` says that late answers about an old case do not
  overwrite the current drawer. `OnlyRetriesStray` shows that nothing else strays.
* The decided checkpoint is loaded even if the collected one was not (`worker/service.py:297`), so a decision
  about one collection is published with another; the checkpoint's fence is compared neither on load nor
  on save.
* When the model refuses every attempt the task is FAILED (`adapters/decisions/typesafe.py:136`), where
  `model-integration.md` describes a PARTIAL_RESULT.
* A retry runs next to a fresh analysis of the same case and version (`task_service.py:268`), where PRD
  section 6 asks for deduplication. `OneStartPerCase` is therefore about fresh analyses.
* An idempotency key that was answered with a running task of another key is recorded nowhere
  (`task_service.py:149`): its repetition after that task has ended starts another.
* A review the page gave up on may be served after the one the engineer then saved and is the newer revision
  from then on; the page shows and archives the older (`caseAnalysis.ts:250`). The archive entry a page
  shows may be of an earlier revision than the review next to it.
* A 403 because archiving is disabled clears the whole page, as a lost permission does.
* A snapshot that fails inside `reconnectFrom` is caught by nobody (`caseAnalysis.ts:176`): the tab stays
  "recovering" and asks for nothing more. A snapshot it accepts may be older than what is shown (`:219`).
* The retry that is activated in another case's drawer leaves that drawer without a view, and whatever was opened
  meanwhile loses its skeleton when the retry's chain ends (`caseAnalysis.ts:312`).
* A chain that became stale while it fetched its report still writes the recovery record
  (`caseAnalysis.ts:142`).
* The task timeout during the explanation discards a validated report (`worker/service.py:426`).
* A source that is skipped, for want of a permission (`yield_drop_workflow.py:104`) or because the case names no
  tool or recipe (`:107`, `:124`), leaves no uncertainty, so a report without it may be COMPLETED;
  `compose_report` does not look at `skipped_sources`. `PRD-V1.md:61` and `investigation-workflow.md:8` ask for a
  gap. `CompletedHidesNothing` is about the sources that were asked.
* `renew_lease` has no deadline condition although its docstring mentions one.

## 7. Plan

Done, in this order: the table and its workers; admission; the stream; report rules and the analysis; the
drawer across cases; reviews and the Case Book archive; the theorems of section 4.

What is left would go further into parts that are now abstract: the parsing of model answers
(`adapters/decisions/questions.py`) as more than an answer or a failure; heartbeats and the permission
re-check of a long stream.

**Not modelled**, and why:

* Platform adapters: a synthetic data source and a template, data without state. What they may answer is
  `Answer` in `Analysis`.
* Identity, permissions and configuration: stateless checks at the edge of each request. The models have one
  tenant and one permission scope, and the permission sets of a plan.
* Prompts, schemas, migrations, deployment files and scripts: static.
* The layout of the drawer components; which buttons they offer when is in `CaseDrawer`, `TaskStream` and
  `ReviewArchive`.
* Outbox, tool-execution and model-assessment rows: written with the task and never read.
