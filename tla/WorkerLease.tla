---------------------------- MODULE WorkerLease ----------------------------
(***************************************************************************)
(* The durable half of an analysis: the task table with its leases and     *)
(* fences, the checkpoint and evidence tables, and the worker processes    *)
(* that claim a task, analyse it with an `await' between any two steps,    *)
(* and settle it with one compare-and-set transaction.                     *)
(*                                                                         *)
(* Time.  A deadline is kept relative to the wall clock: remaining[t] is   *)
(* lease_deadline - now, and a NULL deadline is one every clock has passed *)
(* (Lapsed).  A worker reads its own clock before it sends a statement, so *)
(* the timestamp a statement carries differs from the wall clock by some d *)
(* in Drift: process clocks disagree and timestamps age in flight.         *)
(*                                                                         *)
(* Data.  A uuid4 lease token is as fresh as the number of the claim that  *)
(* drew it and is written as that number, with 0 for NULL.  A collection   *)
(* is known by the fence of the run that made it and by what it contains;  *)
(* a decision is known by the collection it was asked about.               *)
(***************************************************************************)
EXTENDS Integers, Sequences

CONSTANTS
  Task, NoTask,    \* task ids
  EarlierTask,     \* tasks settled before, whose evidence rows are still there
  Worker,          \* worker processes
  EvidenceId,      \* ids the platform's tools attach to evidence
  CaseEvidence,    \* the ids returned for the case of each task
  Kinds,           \* what a collection pass may bring back
  LeaseDuration,   \* worker_lease_seconds
  Skew,            \* how far a statement's timestamp may be off
  MaxFence,        \* bound: claims of one task
  MaxCrashes,      \* bound: crashes of worker processes
  Timely           \* TRUE: renewals keep ahead of the clock

CollectionKind == {"verified", "degraded", "empty", "historical", "invalid",
                   "duplicate"}

ASSUME TaskAssumption     == /\ NoTask \notin Task
                             /\ EarlierTask \cap (Task \cup {NoTask}) = {}
ASSUME KindsAssumption    == Kinds \subseteq CollectionKind
ASSUME EvidenceAssumption == CaseEvidence \in [Task -> SUBSET EvidenceId]
ASSUME TimeAssumption     == /\ Skew \in Nat
                             /\ LeaseDuration \in Nat
                             /\ LeaseDuration > 2 * Skew
ASSUME BoundAssumption    == /\ MaxFence \in Nat
                             /\ MaxCrashes \in Nat
                             /\ Timely \in BOOLEAN

VARIABLES
  status, remaining, token, fence,   \* ai_analysis_task
  feed,                              \* ai_task_event, by task
  report,                            \* ai_report, by task
  owner,                             \* ai_evidence: the task that stored an id
  collected, decided,                \* ai_task_checkpoint, one row per stage
  pc, job, held, coll, dec, outcome, \* locals of each worker's run_once
  crashes

tableVars  == <<status, remaining, token, fence, feed, report, owner>>
cpVars     == <<collected, decided>>
workerVars == <<pc, job, held, coll, dec, outcome>>
vars       == <<tableVars, cpVars, workerVars, crashes>>

-----------------------------------------------------------------------------
(* Values *)

Reporting == {"COMPLETED", "PARTIAL_RESULT"}
Terminal  == Reporting \cup {"FAILED", "TIMEOUT", "CANCELLED"}
Active    == {"CREATED"}

Drift    == (-Skew)..Skew
Lapsed   == -Skew - 1
Deadline == Lapsed..(LeaseDuration + Skew)

Collection   == [by : 0..MaxFence, kind : CollectionKind]
NoCollection == [by |-> 0, kind |-> "empty"]
Decided      == [fence : 0..MaxFence, about : 0..MaxFence]
NoDecided    == [fence |-> 0, about |-> 0]
Report       == [coll : Collection, about : 0..MaxFence]
NoReport     == [coll |-> NoCollection, about |-> 0]

Analysing == {"resume", "resumeDecision", "collect", "saveCollected",
              "decide", "saveDecided", "compose"}
Busy      == Analysing \cup {"finalize"}

Closing == [COMPLETED      |-> "analysis_completed",
            PARTIAL_RESULT |-> "analysis_partial",
            FAILED         |-> "analysis_failed",
            TIMEOUT        |-> "analysis_failed",
            CANCELLED      |-> "analysis_cancelled"]

EventType == {"analysis_started", "report_generated", "analysis_completed",
              "analysis_partial", "analysis_failed", "analysis_cancelled"}

\* The status compose_report gives a collection of each kind.
Verdict == [verified  |-> "COMPLETED", degraded   |-> "PARTIAL_RESULT",
            empty     |-> "FAILED",    historical |-> "FAILED",
            invalid   |-> "FAILED",    duplicate  |-> "FAILED"]

\* Similar cases of the past are evidence, but none of the current case.
HasCurrentEvidence(c) == c.kind \notin {"empty", "historical"}

\* The evidence rows a finalizing run inserts for task t: all it was handed,
\* historical items and those of a failed analysis too.
Rows(t, c) == IF c.kind = "empty" THEN {} ELSE CaseEvidence[t]

\* Mutant: rows that exist are overwritten.
Clashes_Overwrite(t, c) == c.kind = "duplicate"

\* Inserting them breaks the primary key of ai_evidence, which is the id alone.
Clashes(t, c) == \/ c.kind = "duplicate"
                 \/ \E e \in Rows(t, c) : owner[e] # NoTask

\* The compare part of every statement a lease guards.
HoldsLease(w) == /\ fence[job[w]] = held[w]
                 /\ token[job[w]] = held[w]

\* Mutant: the compare leaves out the lease.
CanFinalize_AnyHolder(w, d) == /\ remaining[job[w]] >= d
                               /\ status[job[w]] \in Active

\* Mutant: the compare is strict, one tick earlier than claim's.
CanFinalize_Strict(w, d) == /\ HoldsLease(w)
                            /\ remaining[job[w]] > d
                            /\ status[job[w]] \in Active

CanFinalize(w, d) == /\ HoldsLease(w)
                     /\ remaining[job[w]] >= d
                     /\ status[job[w]] \in Active

\* Mutant: a lease is only ever given once.
Claimable_OnlyUnleased(t, d) == status[t] \in Active /\ token[t] = 0

\* No lease, or one whose deadline is past on the claimer's clock.
Claimable(t, d) == status[t] \in Active /\ remaining[t] < d

\* Mutant: only the first claim advances the fence.
NextFence_NotAdvanced(t) == IF fence[t] = 0 THEN 1 ELSE fence[t]

NextFence(t) == fence[t] + 1

-----------------------------------------------------------------------------
Init ==
  /\ status    = [t \in Task |-> "absent"]
  /\ remaining = [t \in Task |-> Lapsed]
  /\ token     = [t \in Task |-> 0]
  /\ fence     = [t \in Task |-> 0]
  /\ feed      = [t \in Task |-> <<>>]
  /\ report    = [t \in Task |-> NoReport]
  /\ owner \in [EvidenceId -> EarlierTask \cup {NoTask}]
  /\ collected = [t \in Task |-> NoCollection]
  /\ decided   = [t \in Task |-> NoDecided]
  /\ pc        = [w \in Worker |-> "idle"]
  /\ job       = [w \in Worker |-> NoTask]
  /\ held      = [w \in Worker |-> 0]
  /\ coll      = [w \in Worker |-> NoCollection]
  /\ dec       = [w \in Worker |-> 0]
  /\ outcome   = [w \in Worker |-> "none"]
  /\ crashes   = 0

(* The API side *)

\* create_idempotent: the row, its outbox row and its first event.
Create(t) ==
  /\ status[t] = "absent"
  /\ status' = [status EXCEPT ![t] = "CREATED"]
  /\ feed' = [feed EXCEPT ![t] = <<"analysis_started">>]
  /\ UNCHANGED <<remaining, token, fence, report, owner, cpVars, workerVars,
                 crashes>>

\* Mutant: the settled task is not looked for.
Cancel_Settled(t) ==
  /\ status[t] # "absent"
  /\ status' = [status EXCEPT ![t] = "CANCELLED"]
  /\ UNCHANGED <<remaining, token, feed, fence, report, owner, cpVars,
                 workerVars, crashes>>

\* cancel_visible: under the row lock, and a no-op on a settled task.
Cancel(t) ==
  /\ status[t] \in Active
  /\ status' = [status EXCEPT ![t] = "CANCELLED"]
  /\ remaining' = [remaining EXCEPT ![t] = Lapsed]
  /\ token' = [token EXCEPT ![t] = 0]
  /\ feed' = [feed EXCEPT ![t] = Append(@, Closing["CANCELLED"])]
  /\ UNCHANGED <<fence, report, owner, cpVars, workerVars, crashes>>

(* The worker side *)

Goto(w, label) == pc' = [pc EXCEPT ![w] = label]

\* Leave run_once with the locals gone.
Leave(w, label) ==
  /\ Goto(w, label)
  /\ job' = [job EXCEPT ![w] = NoTask]
  /\ held' = [held EXCEPT ![w] = 0]
  /\ coll' = [coll EXCEPT ![w] = NoCollection]
  /\ dec' = [dec EXCEPT ![w] = 0]
  /\ outcome' = [outcome EXCEPT ![w] = "none"]

\* FOR UPDATE SKIP LOCKED LIMIT 1: the oldest claimable task whose row nobody
\* has locked at that moment, which may be any claimable task.
Claim(w) ==
  /\ pc[w] = "idle"
  /\ \E t \in Task, d \in Drift :
       /\ Claimable(t, d)
       /\ fence[t] < MaxFence
       /\ fence' = [fence EXCEPT ![t] = NextFence(t)]
       /\ token' = [token EXCEPT ![t] = NextFence(t)]
       /\ remaining' = [remaining EXCEPT ![t] = d + LeaseDuration]
       /\ job' = [job EXCEPT ![w] = t]
       /\ held' = [held EXCEPT ![w] = NextFence(t)]
       /\ Goto(w, IF NextFence(t) > 1 THEN "resume" ELSE "collect")
  /\ UNCHANGED <<status, feed, report, owner, cpVars, coll, dec, outcome,
                 crashes>>

\* Mutant: the lease grows from its old deadline.
Renew_FromDeadline(w) ==
  /\ pc[w] \in Analysing
  /\ HoldsLease(w)
  /\ remaining' = [remaining EXCEPT ![job[w]] = @ + LeaseDuration]
  /\ UNCHANGED <<status, token, fence, feed, report, owner, cpVars, workerVars,
                 crashes>>

\* The renewer task runs beside the analysis until run_once cancels it.  A
\* renewal that matches no row ends the loop and changes nothing.
Renew(w) ==
  /\ pc[w] \in Analysing
  /\ HoldsLease(w)
  /\ status[job[w]] \notin Terminal
  /\ \E d \in Drift :
       remaining' = [remaining EXCEPT ![job[w]] = d + LeaseDuration]
  /\ UNCHANGED <<status, token, fence, feed, report, owner, cpVars, workerVars,
                 crashes>>

\* Nothing is reused when the row does not exist or no longer parses.
LoadCollected(w) ==
  /\ pc[w] = "resume"
  /\ \E c \in {collected[job[w]], NoCollection} :
       coll' = [coll EXCEPT ![w] = c]
  /\ Goto(w, "resumeDecision")
  /\ UNCHANGED <<tableVars, cpVars, job, held, dec, outcome, crashes>>

LoadDecided(w) ==
  /\ pc[w] = "resumeDecision"
  /\ \E about \in {decided[job[w]].about, 0} :
       dec' = [dec EXCEPT ![w] = about]
  /\ Goto(w, IF coll[w].by = 0 THEN "collect" ELSE "decide")
  /\ UNCHANGED <<tableVars, cpVars, job, held, coll, outcome, crashes>>

Collect(w) ==
  /\ pc[w] = "collect"
  /\ \E k \in Kinds :
       coll' = [coll EXCEPT ![w] = [by |-> held[w], kind |-> k]]
  /\ Goto(w, "saveCollected")
  /\ UNCHANGED <<tableVars, cpVars, job, held, dec, outcome, crashes>>

\* An upsert with no condition on the fence of the row it replaces.  The row's
\* fence is the collection's own: only the run that collected saves it.
SaveCollected(w) ==
  /\ pc[w] = "saveCollected"
  /\ collected' = [collected EXCEPT ![job[w]] = coll[w]]
  /\ Goto(w, "decide")
  /\ UNCHANGED <<tableVars, decided, job, held, coll, dec, outcome, crashes>>

\* A failed save is logged and the analysis goes on.
SaveFails(w) ==
  /\ \/ pc[w] = "saveCollected" /\ Goto(w, "decide")
     \/ pc[w] = "saveDecided" /\ Goto(w, "compose")
  /\ UNCHANGED <<tableVars, cpVars, job, held, coll, dec, outcome, crashes>>

\* A resumed decision is kept when there is any current evidence at all;
\* without current evidence there is no decision and nothing to save.
Decide(w) ==
  /\ pc[w] = "decide"
  /\ dec' = [dec EXCEPT ![w] = IF ~HasCurrentEvidence(coll[w]) THEN 0
                               ELSE IF @ # 0 THEN @ ELSE coll[w].by]
  /\ Goto(w, IF HasCurrentEvidence(coll[w]) THEN "saveDecided" ELSE "compose")
  /\ UNCHANGED <<tableVars, cpVars, job, held, coll, outcome, crashes>>

SaveDecided(w) ==
  /\ pc[w] = "saveDecided"
  /\ decided' = [decided EXCEPT ![job[w]] =
                   [fence |-> held[w], about |-> dec[w]]]
  /\ Goto(w, "compose")
  /\ UNCHANGED <<tableVars, collected, job, held, coll, dec, outcome, crashes>>

\* compose_report and the explanation, whose failure is swallowed.
Compose(w) ==
  /\ pc[w] = "compose"
  /\ outcome' = [outcome EXCEPT ![w] = Verdict[coll[w].kind]]
  /\ Goto(w, "finalize")
  /\ UNCHANGED <<tableVars, cpVars, job, held, coll, dec, crashes>>

\* Mutant: what was collected before the interruption is still handed over.
Interrupt_KeepsCollection(w) ==
  /\ pc[w] \in Analysing
  /\ \E s \in {"TIMEOUT", "FAILED"} : outcome' = [outcome EXCEPT ![w] = s]
  /\ Goto(w, "finalize")
  /\ UNCHANGED <<tableVars, cpVars, job, held, coll, dec, crashes>>

\* asyncio.timeout strikes, or any call of the analysis raises: the outcome is
\* TIMEOUT or FAILED and `analysis' is still None, so nothing collected or
\* decided by this run reaches finalize.
Interrupt(w) ==
  /\ pc[w] \in Analysing
  /\ \E s \in {"TIMEOUT", "FAILED"} : outcome' = [outcome EXCEPT ![w] = s]
  /\ coll' = [coll EXCEPT ![w] = NoCollection]
  /\ dec' = [dec EXCEPT ![w] = 0]
  /\ Goto(w, "finalize")
  /\ UNCHANGED <<tableVars, cpVars, job, held, crashes>>

\* The finalize transaction commits.
Publish(w) ==
  LET t == job[w]
      s == outcome[w]
  IN /\ pc[w] = "finalize"
     /\ \E d \in Drift : CanFinalize(w, d)
     /\ ~Clashes(t, coll[w])
     /\ status' = [status EXCEPT ![t] = s]
     /\ remaining' = [remaining EXCEPT ![t] = Lapsed]
     /\ token' = [token EXCEPT ![t] = 0]
     /\ report' = IF s \in Reporting
                  THEN [report EXCEPT ![t] = [coll |-> coll[w], about |-> dec[w]]]
                  ELSE report
     /\ feed' = [feed EXCEPT ![t] = @ \o (IF s \in Reporting
                                          THEN <<"report_generated", Closing[s]>>
                                          ELSE <<Closing[s]>>)]
     /\ owner' = [e \in EvidenceId |->
                    IF e \in Rows(t, coll[w]) THEN t ELSE owner[e]]
     /\ Leave(w, "idle")
     /\ UNCHANGED <<fence, cpVars, crashes>>

\* Mutant: a rejected result is offered again.
FinalizeRejected_Retries(w) ==
  /\ pc[w] = "finalize"
  /\ \E d \in Drift : ~CanFinalize(w, d)
  /\ UNCHANGED vars

\* The compare fails: finalize returns False, which run_once does not look at.
FinalizeRejected(w) ==
  /\ pc[w] = "finalize"
  /\ \E d \in Drift : ~CanFinalize(w, d)
  /\ Leave(w, "idle")
  /\ UNCHANGED <<tableVars, cpVars, crashes>>

\* An evidence row already exists: the transaction rolls back, the
\* IntegrityError leaves run_once and run_worker, and the process ends.
FinalizeRaises(w) ==
  /\ pc[w] = "finalize"
  /\ \E d \in Drift : CanFinalize(w, d)
  /\ Clashes(job[w], coll[w])
  /\ Leave(w, "down")
  /\ UNCHANGED <<tableVars, cpVars, crashes>>

\* A kill, a lost database connection outside the analysis, or a stop signal.
Crash(w) ==
  /\ pc[w] # "down"
  /\ crashes < MaxCrashes
  /\ crashes' = crashes + 1
  /\ Leave(w, "down")
  /\ UNCHANGED <<tableVars, cpVars>>

Restart(w) ==
  /\ pc[w] = "down"
  /\ Goto(w, "idle")
  /\ UNCHANGED <<tableVars, cpVars, job, held, coll, dec, outcome, crashes>>

(* Time *)

\* No live worker is about to see its lease lapse on somebody's clock.
RenewalsKeepUp ==
  \A w \in Worker : pc[w] \in Busy /\ HoldsLease(w) => remaining[job[w]] > Skew

Tick ==
  /\ Timely => RenewalsKeepUp
  /\ remaining' = [t \in Task |-> IF remaining[t] > Lapsed
                                  THEN remaining[t] - 1 ELSE Lapsed]
  /\ UNCHANGED <<status, token, fence, feed, report, owner, cpVars, workerVars,
                 crashes>>

\* The steps of run_once itself.
Step(w) ==
  \/ Claim(w)
  \/ LoadCollected(w)
  \/ LoadDecided(w)
  \/ Collect(w)
  \/ SaveCollected(w)
  \/ SaveFails(w)
  \/ Decide(w)
  \/ SaveDecided(w)
  \/ Compose(w)
  \/ Interrupt(w)
  \/ Publish(w)
  \/ FinalizeRejected(w)
  \/ FinalizeRaises(w)

Next ==
  \/ \E t \in Task : Create(t) \/ Cancel(t)
  \/ \E w \in Worker : Step(w) \/ Renew(w) \/ Crash(w) \/ Restart(w)
  \/ Tick

Spec == Init /\ [][Next]_vars

\* A process that is up runs; one that is down is restarted; time passes.
\* Nothing makes a user create or cancel a task, or a process crash or renew.
Fairness == /\ \A w \in Worker : WF_vars(Step(w)) /\ WF_vars(Restart(w))
            /\ WF_vars(Tick)

FairSpec == Spec /\ Fairness
-----------------------------------------------------------------------------
(* Properties *)

\* Every row and every local has its type.
TypeOK ==
  /\ status \in [Task -> {"absent"} \cup Active \cup Terminal]
  /\ remaining \in [Task -> Deadline]
  /\ token \in [Task -> 0..MaxFence]
  /\ fence \in [Task -> 0..MaxFence]
  /\ feed \in [Task -> Seq(EventType)]
  /\ report \in [Task -> Report]
  /\ owner \in [EvidenceId -> Task \cup EarlierTask \cup {NoTask}]
  /\ collected \in [Task -> Collection]
  /\ decided \in [Task -> Decided]
  /\ pc \in [Worker -> {"idle", "down"} \cup Busy]
  /\ job \in [Worker -> Task \cup {NoTask}]
  /\ held \in [Worker -> 0..MaxFence]
  /\ coll \in [Worker -> Collection]
  /\ dec \in [Worker -> 0..MaxFence]
  /\ outcome \in [Worker -> {"none"} \cup (Terminal \ {"CANCELLED"})]
  /\ crashes \in 0..MaxCrashes

\* At most one worker process would pass the compare part of a guarded
\* statement on a task, however many of them still believe they work on it.
OneLeaseholder ==
  \A w1, w2 \in Worker :
    /\ pc[w1] \in Busy /\ pc[w2] \in Busy
    /\ job[w1] = job[w2]
    /\ HoldsLease(w1) /\ HoldsLease(w2)
    => w1 = w2

\* A report that cites evidence finds every row of it in ai_evidence under its
\* own task, and a task owns rows only once a worker's finalize has committed:
\* a rolled-back, timed-out or cancelled analysis leaves none behind.
EvidenceBacksReport ==
  /\ \A t \in Task :
       status[t] \in Reporting =>
         \A e \in Rows(t, report[t].coll) : owner[e] = t
  /\ \A e \in EvidenceId :
       owner[e] \in Task => status[owner[e]] \in Reporting \cup {"FAILED"}

\* Only the process that made the latest claim of a task may settle it as a
\* worker does: the result of a superseded process never becomes the status.
OnlyLatestClaimSettles ==
  [][\A t \in Task :
       status[t] = "CREATED" /\ status'[t] \in Terminal \ {"CANCELLED"} =>
         \E w \in Worker : /\ pc[w] = "finalize"
                           /\ job[w] = t
                           /\ held[w] = fence[t]
                           /\ outcome[w] = status'[t]]_vars

\* Once a task is settled nothing about its result changes again: not by a
\* late worker, a cancellation that lost the race, a renewal in flight, or the
\* evidence of a later analysis of the same case.
SettledIsFinal ==
  [][/\ \A t \in Task :
          status[t] \in Terminal =>
            /\ status'[t] = status[t]
            /\ report'[t] = report[t]
            /\ feed'[t] = feed[t]
            /\ token'[t] = 0
            /\ remaining'[t] = Lapsed
     /\ \A e \in EvidenceId : owner[e] # NoTask => owner'[e] = owner[e]]_vars

\* While renewals keep up, an analysis that reaches finalize is settled as it
\* came out, unless the task was cancelled meanwhile, its evidence breaks the
\* primary key of ai_evidence, or its process is killed: the compare of the
\* lease never costs a result.
NoWorkLostWhileRenewing ==
  [][Timely =>
       \A w \in Worker :
         pc[w] = "finalize" /\ pc'[w] # "finalize" /\ crashes' = crashes
           => \/ status[job[w]] = "CANCELLED"
              \/ status'[job[w]] = outcome[w]
              \/ pc'[w] = "down" /\ Clashes(job[w], coll[w])]_vars

\* A finalize of task t is about to break the primary key of ai_evidence.
FinalizeClashes(t) ==
  \E w \in Worker : pc[w] = "finalize" /\ job[w] = t /\ Clashes(t, coll[w])

\* A submitted task is settled in the end, whatever crashes on the way, unless
\* its evidence is stored already.  Such a task need not end: the IntegrityError
\* ends the process, and every later claim resumes the saved collection and
\* raises again.
EveryTaskSettles ==
  \A t \in Task :
    status[t] = "CREATED" /\ fence[t] = 0
      ~> status[t] \in Terminal \/ FinalizeClashes(t)

\* A process that works on a task it has lost gets back to claiming work.
EveryWorkerReturns ==
  \A w \in Worker : pc[w] \in Busy ~> pc[w] = "idle"

\* The table implements the abstract life cycle of its tasks.
Lifecycle == INSTANCE TaskLifecycle
               WITH published <- {t \in Task : status[t] \in Reporting
                                               /\ report[t] # NoReport}
ImplementsLifecycle == Lifecycle!Spec

(* What the repository says and the code does not do *)

\* data-flow.md: once a report passed validation, one transaction saves it with
\* the task's final status.  A report whose lease is valid on every clock is
\* therefore not lost unless its process is killed.
ValidReportIsSaved ==
  [][\A w \in Worker :
       /\ pc[w] = "finalize"
       /\ outcome[w] \in Reporting
       /\ \A d \in Drift : CanFinalize(w, d)
       /\ pc'[w] # "finalize"
       /\ crashes' = crashes
       => status'[job[w]] = outcome[w]]_vars
=============================================================================
