------------------------------ MODULE Analysis ------------------------------
(***************************************************************************)
(* One analysis of one task from claim to finalize: the workflow's batches *)
(* of concurrent tool calls, the two checkpoints, the request to the       *)
(* decision model with its retries, composing and validating the report,   *)
(* the optional explanation, the task's time limit, and what a later       *)
(* worker process makes of it after a crash.  The processes of WorkerLease *)
(* may overlap; here one runs at a time, and what it works on is the data. *)
(***************************************************************************)
EXTENDS ReportRules

CONSTANTS
  Answers,        \* per tool, the results the platform may return
  Grants,         \* the permission sets a task may have been created with
  Links,          \* which of "tool" and "recipe" the case refers to
  Scores,         \* the model's score, in tenths
  Questions,      \* versions of the question set, one per release
  Explaining,     \* explanation_profile is not "disabled"
  MaxAttempts,    \* max_attempts of the decision and explanation adapters
  Now,            \* the worker's clock when it composes
  MaxCrashes      \* bound: crashes of worker processes

ToolOrder == <<"get_lot_yield", "get_tool_events", "get_recipe_snapshot",
               "get_spc_evidence", "get_fdc_evidence", "search_similar_cases">>
Tool == ToSet(ToolOrder)

Permission == [get_lot_yield |-> "yield", get_tool_events |-> "equipment",
               get_recipe_snapshot |-> "recipe", get_spc_evidence |-> "spc",
               get_fdc_evidence |-> "fdc", search_similar_cases |-> "casebook"]
Needs == [get_lot_yield |-> {}, get_tool_events |-> {"tool"},
          get_recipe_snapshot |-> {"recipe"}, get_spc_evidence |-> {"tool"},
          get_fdc_evidence |-> {"tool"}, search_similar_cases |-> {}]

ASSUME AnswersAssumption ==
  \A t \in Tool : \A r \in Answers[t] :
    r \in ToolResult /\ r.tool = t /\ WellFormed(r)
ASSUME BoundAssumption ==
  MaxAttempts \in Nat \ {0} /\ MaxCrashes \in Nat /\ Now \in Nat

VARIABLES
  pc,                  \* where the worker is
  granted, links,      \* the task's permissions, the case's entities
  results,             \* tool results, in the order of the plan
  answered,            \* answers of the batch in flight, by tool
  decision,            \* the model's decision, or the one resumed with
  attempt,             \* attempts of the request in flight
  outcome,             \* what is, or was, handed to finalize
  questions,           \* QUESTION_SET_VERSION of the running release
  collected, decided,  \* the task's checkpoints
  crashes

input  == <<granted, links>>
local  == <<results, answered, decision, attempt>>
saved  == <<collected, decided>>
vars   == <<pc, input, local, outcome, questions, saved, crashes>>

Pending == [status |-> "CREATED", report |-> NoReport, errors |-> {}]
NoCollected == [saved |-> FALSE, results |-> <<>>]

\* The calls the permissions and the case allow, the others being skipped.
Plan == Keep(ToolOrder, {i \in DOMAIN ToolOrder :
                           /\ Permission[ToolOrder[i]] \in granted
                           /\ Needs[ToolOrder[i]] \subseteq links})

\* The calls of the batch in flight: the next three.
Batch == LET done == Len(results)
             last == IF done + 3 < Len(Plan) THEN done + 3 ELSE Len(Plan)
         IN SubSeq(Plan, done + 1, last)

HasCurrent == CurrentEvidence(results) # <<>>

\* model_validate_json on an unparameterised ToolResult: the payload comes
\* back as a plain dictionary.
Reloaded(r) ==
  [tool     |-> r.tool,
   status   |-> r.status,
   data     |-> [r.data EXCEPT !.type = IF @ = "none" THEN "none" ELSE "dict"],
   evidence |-> r.evidence,
   notes    |-> r.notes]

ReportInput == [results   |-> results,
                decision  |-> decision,
                questions |-> questions,
                now       |-> Now]

Init ==
  /\ pc = "context"
  /\ granted \in Grants
  /\ links \in Links
  /\ results = <<>>
  /\ answered = <<>>
  /\ decision = NoDecision
  /\ attempt = 0
  /\ outcome = Pending
  /\ questions \in Questions
  /\ collected = NoCollected
  /\ decided = NoDecision
  /\ crashes = 0
-----------------------------------------------------------------------------
(* Ways to finish *)

End(o) == /\ pc' = "finalize"
          /\ outcome' = o
          /\ UNCHANGED <<input, local, questions, saved, crashes>>

Raise == End(Failed({"ANALYSIS_FAILED"}))

Awaiting == {"context", "collect", "resume", "saveCollected", "ask",
             "saveDecided", "explain"}

\* asyncio.timeout fires at whatever the analysis is waiting for.
TimesOut == pc \in Awaiting /\ End(TimedOut)

\* The guarded transaction of WorkerLease.
Finalize == /\ pc = "finalize"
            /\ pc' = "done"
            /\ UNCHANGED <<input, local, outcome, questions, saved, crashes>>
-----------------------------------------------------------------------------
(* Collecting *)

LoadContext ==
  /\ pc = "context"
  /\ pc' = "collect"
  /\ UNCHANGED <<input, local, outcome, questions, saved, crashes>>

\* One call of the batch is answered; the others are still in flight.
Answer(t, r) ==
  /\ pc = "collect"
  /\ t \in ToSet(Batch) \ DOMAIN answered
  /\ answered' = [u \in DOMAIN answered \cup {t} |-> IF u = t THEN r ELSE answered[u]]
  /\ UNCHANGED <<pc, input, results, decision, attempt, outcome, questions,
                 saved, crashes>>

\* Mutant: results are kept in the order in which they arrive.
Gather_AnyOrder ==
  /\ pc = "collect"
  /\ Batch # <<>>
  /\ DOMAIN answered = ToSet(Batch)
  /\ \E order \in Permutations(DOMAIN Batch) :
       results' = results \o [i \in DOMAIN Batch |-> answered[Batch[order[i]]]]
  /\ answered' = <<>>
  /\ UNCHANGED <<pc, input, decision, attempt, outcome, questions, saved, crashes>>

\* gather returns the results in the order of the calls.
Gather ==
  /\ pc = "collect"
  /\ Batch # <<>>
  /\ DOMAIN answered = ToSet(Batch)
  /\ results' = results \o [i \in DOMAIN Batch |-> answered[Batch[i]]]
  /\ answered' = <<>>
  /\ UNCHANGED <<pc, input, decision, attempt, outcome, questions, saved, crashes>>

Collected ==
  /\ pc = "collect"
  /\ Batch = <<>>
  /\ pc' = "saveCollected"
  /\ UNCHANGED <<input, local, outcome, questions, saved, crashes>>

\* An unreadable case, a stale version, an entity out of scope, an adapter
\* that raises or answers for another tool: nothing of the batch is kept.
PlatformRaises == pc \in {"context", "collect"} /\ Raise

\* Saving a checkpoint may fail, which is logged and ignored.
SaveCollected ==
  /\ pc = "saveCollected"
  /\ pc' = "decide"
  /\ collected' \in {collected, [saved |-> TRUE, results |-> results]}
  /\ UNCHANGED <<input, local, outcome, questions, decided, crashes>>
-----------------------------------------------------------------------------
(* Asking the model *)

\* A resumed decision is used if there is anything it can be about.
Reuse ==
  /\ pc = "decide"
  /\ HasCurrent /\ decision # NoDecision
  /\ pc' = "saveDecided"
  /\ UNCHANGED <<input, local, outcome, questions, saved, crashes>>

Ask ==
  /\ pc = "decide"
  /\ HasCurrent /\ decision = NoDecision
  /\ pc' = "ask"
  /\ attempt' = 1
  /\ UNCHANGED <<input, results, answered, decision, outcome, questions, saved,
                 crashes>>

NothingToAsk ==
  /\ pc = "decide"
  /\ ~ HasCurrent
  /\ pc' = "compose"
  /\ decision' = NoDecision
  /\ UNCHANGED <<input, results, answered, attempt, outcome, questions, saved,
                 crashes>>

Judged(score) ==
  /\ pc = "ask"
  /\ pc' = "saveDecided"
  /\ decision' = [score |-> score, questions |-> questions]
  /\ UNCHANGED <<input, results, answered, attempt, outcome, questions, saved,
                 crashes>>

\* Mutant: attempts are not counted against the limit.
Retry_Unbounded ==
  /\ pc \in {"ask", "explain"}
  /\ attempt' = attempt + 1
  /\ UNCHANGED <<pc, input, results, answered, decision, outcome, questions,
                 saved, crashes>>

\* 429 and 529 of the model, those and other 5xx of the explainer: back off
\* and ask again, while attempts are left.
Retry ==
  /\ pc \in {"ask", "explain"}
  /\ attempt < MaxAttempts
  /\ attempt' = attempt + 1
  /\ UNCHANGED <<pc, input, results, answered, decision, outcome, questions,
                 saved, crashes>>

\* The last attempt is refused like those before it: the model is overloaded.
ModelUnavailable == pc = "ask" /\ attempt = MaxAttempts /\ Raise

\* 401, 422, a malformed answer, no connection, the adapter's own timeout.
ModelFails == pc = "ask" /\ Raise

SaveDecided ==
  /\ pc = "saveDecided"
  /\ pc' = "compose"
  /\ decided' \in {decided, decision}
  /\ UNCHANGED <<input, local, outcome, questions, collected, crashes>>
-----------------------------------------------------------------------------
(* The report *)

ComposeReport ==
  /\ pc = "compose"
  /\ outcome' = Compose(ReportInput)
  /\ pc' = IF outcome'.report # NoReport /\ Explaining THEN "explain" ELSE "finalize"
  /\ attempt' = 1
  /\ UNCHANGED <<input, results, answered, decision, questions, saved, crashes>>

\* Mutant: the explanation is attached as it came.
Explained_Unchecked(text) ==
  /\ pc = "explain"
  /\ End([outcome EXCEPT !.report.expression = text])

Explained(text) == pc = "explain" /\ End(Attach(outcome, text))

\* Whatever goes wrong with the explanation, the report stays as it is.
ExplainerFails == pc = "explain" /\ End(outcome)
-----------------------------------------------------------------------------
(* Crashes *)

Crash ==
  /\ pc \notin {"done", "down"}
  /\ crashes < MaxCrashes
  /\ crashes' = crashes + 1
  /\ pc' = "down"
  /\ results' = <<>>
  /\ answered' = <<>>
  /\ decision' = NoDecision
  /\ attempt' = 0
  /\ outcome' = Pending
  /\ UNCHANGED <<input, questions, saved>>

\* The task is claimed again, perhaps by another release (a rollback too, or the
\* other half of a rolling deployment), to which a row it cannot parse is as
\* good as none.
Restart ==
  /\ pc = "down"
  /\ pc' = "resume"
  /\ questions' \in Questions
  /\ collected' \in {collected, NoCollected}
  /\ decided' \in {decided, NoDecision}
  /\ UNCHANGED <<input, local, outcome, crashes>>

\* The database fails while a checkpoint is loaded.
ResumeRaises == pc = "resume" /\ Raise

\* Mutant: the platform is asked again although its answers were saved.
Resume_CollectsAgain ==
  /\ pc = "resume"
  /\ pc' = "context"
  /\ decision' = decided
  /\ UNCHANGED <<input, results, answered, attempt, outcome, questions, saved,
                 crashes>>

\* What was saved is not computed again; missing stages are.
Resume ==
  /\ pc = "resume"
  /\ pc' = IF collected.saved THEN "decide" ELSE "context"
  /\ results' = [i \in DOMAIN collected.results |-> Reloaded(collected.results[i])]
  /\ decision' = decided
  /\ UNCHANGED <<input, answered, attempt, outcome, questions, saved, crashes>>

Next ==
  \/ LoadContext
  \/ \E t \in Tool : \E r \in Answers[t] : Answer(t, r)
  \/ Gather
  \/ Collected
  \/ PlatformRaises
  \/ SaveCollected
  \/ Reuse
  \/ Ask
  \/ NothingToAsk
  \/ \E score \in Scores : Judged(score)
  \/ Retry
  \/ ModelUnavailable
  \/ ModelFails
  \/ SaveDecided
  \/ ComposeReport
  \/ \E text \in {"prose", "claim"} : Explained(text)
  \/ ExplainerFails
  \/ TimesOut
  \/ Finalize
  \/ Crash
  \/ Restart
  \/ Resume
  \/ ResumeRaises

Spec == Init /\ [][Next]_vars
-----------------------------------------------------------------------------
(* Properties *)

Stage == Awaiting \cup {"decide", "compose", "finalize", "done", "down"}

IsDecision(d) == d = NoDecision \/ (d.score \in Scores /\ d.questions \in Questions)

\* Every local, checkpoint and outcome has its type.
TypeOK ==
  /\ pc \in Stage
  /\ granted \in Grants /\ links \in Links
  /\ \A i \in DOMAIN results :
       \E r \in Answers[results[i].tool] : results[i] \in {r, Reloaded(r)}
  /\ \A t \in DOMAIN answered : t \in ToSet(Batch) /\ answered[t] \in Answers[t]
  /\ IsDecision(decision) /\ IsDecision(decided)
  /\ attempt \in 0..MaxAttempts
  /\ outcome.status \in {"CREATED", "COMPLETED", "PARTIAL_RESULT", "FAILED", "TIMEOUT"}
  /\ outcome.report # NoReport => outcome.status \in {"COMPLETED", "PARTIAL_RESULT"}
  /\ questions \in Questions
  /\ collected.saved \in BOOLEAN
  /\ crashes \in 0..MaxCrashes

\* In whatever order the calls of a batch are answered, and after a resume as
\* well, the results are those of the plan's calls, each once, in its order.
CollectionFollowsPlan ==
  [i \in DOMAIN results |-> results[i].tool] = SubSeq(Plan, 1, Len(results))

\* compose_report and validate_report were written apart and agree: a report
\* is only ever rejected for what is wrong with the evidence itself.
DraftsAreValid == outcome.errors \cap DraftError = {}

Published == pc = "done" /\ outcome.report # NoReport
Items     == ToSet(outcome.report.evidence)

\* A report called complete hides nothing the analysis knew of: every call was
\* answered in full, every item is verified, nothing came with a warning, and
\* the model was heard.
CompletedHidesNothing ==
  Published /\ outcome.status = "COMPLETED" =>
    /\ \A r \in ToSet(results) : r.status = "SUCCEEDED" /\ r.notes = {}
    /\ \A e \in Items : e.quality = "VERIFIED" /\ e.notes = {}
    /\ decision # NoDecision

\* output-schema.md: a partial report names at least one gap; and each item
\* that is not verified is cited by one.
PartialNamesItsGaps ==
  Published /\ outcome.status = "PARTIAL_RESULT" =>
    /\ outcome.report.uncertainties # {}
    /\ \A e \in Items : e.quality # "VERIFIED" =>
         \E u \in outcome.report.uncertainties : e.id \in u.about

\* A hypothesis is supported by undisputed items of this case alone, names
\* the disputed ones, and carries the model's own answer to the question set
\* of the release that publishes it.
JudgementIsGrounded ==
  Published =>
    \A h \in outcome.report.hypotheses :
      /\ h.supporting # {}
      /\ \A e \in Items : e.id \in h.supporting =>
           IsCurrent(e) /\ e.pressure /\ e.quality # "CONFLICTING"
      /\ \A e \in Items : e.kind \in Process /\ e.pressure /\ e.quality = "CONFLICTING" =>
           e.id \in h.contradicting
      /\ h.assessment = decision /\ decision.questions = questions

\* Nothing the program writes itself claims a cause: not a finding or a
\* warning it repeats, and not the prose of the explainer.
NoCausalClaim ==
  Published =>
    /\ \A f \in ToSet(outcome.report.findings) : "claim" \notin f.flaws
    /\ \A u \in outcome.report.uncertainties : u.what # "claim"
    /\ outcome.report.expression # "claim"

\* Whatever crashed before, a report presents the evidence that was saved and
\* can be read, not what the platform may have returned another time.
SavedEvidenceIsReported ==
  Published /\ collected.saved =>
    outcome.report.evidence = AllEvidence(collected.results)

(* What the repository says and the code does not do *)

\* test_yield_conflict_fails_without_publishing_a_report: no report is
\* published when the yield the platform returned contradicts the case.
YieldConflictNotPublished ==
  Published =>
    \A r \in ToSet(collected.results) :
      r.tool = "get_lot_yield" /\ r.data.type = "yield" => r.data.agrees
=============================================================================
