------------------------- MODULE WorkerLeaseProofs -------------------------
(***************************************************************************)
(* Theorems about WorkerLease for every number of tasks and workers, every *)
(* lease length, clock skew and bound.                                     *)
(***************************************************************************)
EXTENDS WorkerLease, SequenceTheorems, TLAPS

USE TaskAssumption, KindsAssumption, EvidenceAssumption, TimeAssumption,
    BoundAssumption

-----------------------------------------------------------------------------
(* Type correctness *)

\* The program order of run_once: a busy worker has a task, and it reaches
\* finalize with an outcome that its collection accounts for.
LocalInv ==
  \A w \in Worker :
    /\ pc[w] \in Busy => job[w] \in Task
    /\ pc[w] = "finalize" => outcome[w] \in Terminal \ {"CANCELLED"}
    /\ outcome[w] \in Reporting => HasCurrentEvidence(coll[w])
    /\ outcome[w] = "TIMEOUT" => coll[w].kind = "empty"
    /\ pc[w] # "finalize" => outcome[w] = "none"

TypeInv == TypeOK /\ LocalInv

\* The null values and the deadlines a statement writes are in the types.
LEMMA NullsTyped ==
  /\ NoCollection \in Collection
  /\ NoDecided \in Decided
  /\ NoReport \in Report
  /\ Lapsed \in Deadline
  /\ \A d \in Drift : d + LeaseDuration \in Deadline
BY DEF NoCollection, Collection, CollectionKind, NoDecided, Decided, NoReport,
       Report, Lapsed, Deadline, Drift

\* The empty tables and the idle workers have their types.
LEMMA InitTypeInv == Init => TypeInv
BY NullsTyped DEF Init, TypeInv, TypeOK, LocalInv, Active, Busy, Analysing,
                  Reporting

\* What leaving run_once does to the types of a worker's locals.
LEMMA LeaveTyped ==
  ASSUME TypeOK, NEW w \in Worker, NEW label \in {"idle", "down"},
         Leave(w, label)
  PROVE  /\ pc' \in [Worker -> {"idle", "down"} \cup Busy]
         /\ job' \in [Worker -> Task \cup {NoTask}]
         /\ held' \in [Worker -> 0..MaxFence]
         /\ coll' \in [Worker -> Collection]
         /\ dec' \in [Worker -> 0..MaxFence]
         /\ outcome' \in [Worker -> {"none"} \cup (Terminal \ {"CANCELLED"})]
BY NullsTyped DEF TypeOK, Leave, Goto

\* The same, worker by worker.
LEMMA LeavePointwise ==
  ASSUME TypeOK, NEW w \in Worker, Leave(w, "idle") \/ Leave(w, "down")
  PROVE  /\ pc'[w] \notin Busy /\ outcome'[w] = "none"
         /\ \A v \in Worker : v # w => /\ pc'[v] = pc[v]
                                      /\ job'[v] = job[v]
                                      /\ held'[v] = held[v]
                                      /\ coll'[v] = coll[v]
                                      /\ outcome'[v] = outcome[v]
BY DEF TypeOK, Leave, Goto, Busy, Analysing

\* Every step of every process keeps the types.
LEMMA TypeStep == TypeInv /\ [Next]_vars => TypeOK'
  <1> SUFFICES ASSUME TypeInv, [Next]_vars PROVE TypeOK'
    OBVIOUS
  <1> USE DEF TypeOK, TypeInv
  <1>1. ASSUME NEW t \in Task, Create(t) PROVE TypeOK'
    <2>1. <<"analysis_started">> \in Seq(EventType)
      BY DEF EventType
    <2> QED BY <1>1, <2>1 DEF Create, cpVars, workerVars, Active
  <1>2. ASSUME NEW t \in Task, Cancel(t) PROVE TypeOK'
    <2>1. Append(feed[t], Closing["CANCELLED"]) \in Seq(EventType)
      BY AppendProperties DEF EventType, Closing
    <2> QED BY <1>2, <2>1, NullsTyped DEF Cancel, cpVars, workerVars, Terminal
  <1>3. ASSUME NEW w \in Worker, Claim(w) PROVE TypeOK'
    <2>1. PICK t \in Task, d \in Drift :
            /\ fence[t] < MaxFence
            /\ fence' = [fence EXCEPT ![t] = NextFence(t)]
            /\ token' = [token EXCEPT ![t] = NextFence(t)]
            /\ remaining' = [remaining EXCEPT ![t] = d + LeaseDuration]
            /\ job' = [job EXCEPT ![w] = t]
            /\ held' = [held EXCEPT ![w] = NextFence(t)]
            /\ Goto(w, IF NextFence(t) > 1 THEN "resume" ELSE "collect")
      BY <1>3 DEF Claim
    <2>2. NextFence(t) \in 0..MaxFence
      BY <2>1 DEF NextFence
    <2>3. pc' \in [Worker -> {"idle", "down"} \cup Busy]
      BY <2>1 DEF Goto, Busy, Analysing
    <2> QED BY <1>3, <2>1, <2>2, <2>3, NullsTyped DEF Claim, cpVars
  <1>4. ASSUME NEW w \in Worker, Renew(w) PROVE TypeOK'
    <2>1. PICK d \in Drift :
            remaining' = [remaining EXCEPT ![job[w]] = d + LeaseDuration]
      BY <1>4 DEF Renew
    <2>2. remaining' \in [Task -> Deadline]
      BY <2>1, NullsTyped
    <2> QED BY <1>4, <2>2 DEF Renew, cpVars, workerVars
  <1>5. ASSUME NEW w \in Worker, LoadCollected(w) PROVE TypeOK'
    <2>1. PICK c \in {collected[job[w]], NoCollection} :
            coll' = [coll EXCEPT ![w] = c]
      BY <1>5 DEF LoadCollected
    <2>2. job[w] \in Task
      BY <1>5 DEF LoadCollected, LocalInv, Busy, Analysing
    <2> QED BY <1>5, <2>1, <2>2, NullsTyped
        DEF LoadCollected, Goto, cpVars, tableVars, Busy, Analysing
  <1>6. ASSUME NEW w \in Worker, LoadDecided(w) PROVE TypeOK'
    <2>1. PICK about \in {decided[job[w]].about, 0} :
            dec' = [dec EXCEPT ![w] = about]
      BY <1>6 DEF LoadDecided
    <2>2. job[w] \in Task
      BY <1>6 DEF LoadDecided, LocalInv, Busy, Analysing
    <2>3. about \in 0..MaxFence
      BY <2>1, <2>2 DEF Decided
    <2> QED BY <1>6, <2>1, <2>3
        DEF LoadDecided, Goto, cpVars, tableVars, Busy, Analysing
  <1>7. ASSUME NEW w \in Worker, Collect(w) PROVE TypeOK'
    <2>1. PICK k \in Kinds :
            coll' = [coll EXCEPT ![w] = [by |-> held[w], kind |-> k]]
      BY <1>7 DEF Collect
    <2>2. [by |-> held[w], kind |-> k] \in Collection
      BY <2>1 DEF Collection
    <2> QED BY <1>7, <2>1, <2>2
        DEF Collect, Goto, cpVars, tableVars, Busy, Analysing
  <1>8. ASSUME NEW w \in Worker, SaveCollected(w) PROVE TypeOK'
    BY <1>8 DEF SaveCollected, Goto, tableVars, Busy, Analysing
  <1>9. ASSUME NEW w \in Worker, SaveFails(w) PROVE TypeOK'
    BY <1>9 DEF SaveFails, Goto, tableVars, cpVars, Busy, Analysing
  <1>10. ASSUME NEW w \in Worker, Decide(w) PROVE TypeOK'
    <2>1. coll[w].by \in 0..MaxFence
      BY DEF Collection
    <2> QED BY <1>10, <2>1 DEF Decide, Goto, tableVars, cpVars, Busy, Analysing
  <1>11. ASSUME NEW w \in Worker, SaveDecided(w) PROVE TypeOK'
    <2>1. [fence |-> held[w], about |-> dec[w]] \in Decided
      BY DEF Decided
    <2> QED BY <1>11, <2>1 DEF SaveDecided, Goto, tableVars, Busy, Analysing
  <1>12. ASSUME NEW w \in Worker, Compose(w) PROVE TypeOK'
    <2>1. Verdict[coll[w].kind] \in Terminal \ {"CANCELLED"}
      BY DEF Collection, CollectionKind, Verdict, Terminal, Reporting
    <2> QED BY <1>12, <2>1 DEF Compose, Goto, tableVars, cpVars, Busy
  <1>13. ASSUME NEW w \in Worker, Interrupt(w) PROVE TypeOK'
    <2>1. PICK s \in {"TIMEOUT", "FAILED"} :
            outcome' = [outcome EXCEPT ![w] = s]
      BY <1>13 DEF Interrupt
    <2> QED BY <1>13, <2>1, NullsTyped
        DEF Interrupt, Goto, tableVars, cpVars, Busy, Terminal
  <1>14. ASSUME NEW w \in Worker, Publish(w) PROVE TypeOK'
    <2>1. job[w] \in Task /\ outcome[w] \in Terminal \ {"CANCELLED"}
      BY <1>14 DEF Publish, LocalInv, Busy
    <2>2. feed' \in [Task -> Seq(EventType)]
      <3> DEFINE tail == IF outcome[w] \in Reporting
                         THEN <<"report_generated", Closing[outcome[w]]>>
                         ELSE <<Closing[outcome[w]]>>
      <3>1. Closing[outcome[w]] \in EventType /\ "report_generated" \in EventType
        BY <2>1 DEF Closing, Terminal, Reporting, EventType
      <3>2. tail \in Seq(EventType)
        <4>1. CASE outcome[w] \in Reporting
          BY <3>1, <4>1
        <4>2. CASE outcome[w] \notin Reporting
          BY <3>1, <4>2
        <4> QED BY <4>1, <4>2
      <3>3. feed[job[w]] \o tail \in Seq(EventType)
        BY <2>1, <3>2, ConcatProperties
      <3>4. feed' = [feed EXCEPT ![job[w]] = @ \o tail]
        BY <1>14 DEF Publish
      <3> QED BY <2>1, <3>3, <3>4
    <2>3. report' \in [Task -> Report]
      <3>1. [coll |-> coll[w], about |-> dec[w]] \in Report
        BY DEF Report
      <3> QED BY <1>14, <2>1, <3>1 DEF Publish
    <2>4. owner' \in [EvidenceId -> Task \cup EarlierTask \cup {NoTask}]
      BY <1>14, <2>1 DEF Publish
    <2>5. /\ status' \in [Task -> {"absent"} \cup Active \cup Terminal]
          /\ remaining' \in [Task -> Deadline]
          /\ token' \in [Task -> 0..MaxFence]
      BY <1>14, <2>1, NullsTyped DEF Publish
    <2>6. UNCHANGED <<fence, collected, decided, crashes>>
      BY <1>14 DEF Publish, cpVars
    <2>7. Leave(w, "idle")
      BY <1>14 DEF Publish
    <2> QED BY <2>2, <2>3, <2>4, <2>5, <2>6, <2>7, LeaveTyped
  <1>15. ASSUME NEW w \in Worker, FinalizeRejected(w) PROVE TypeOK'
    BY <1>15, LeaveTyped DEF FinalizeRejected, tableVars, cpVars
  <1>16. ASSUME NEW w \in Worker, FinalizeRaises(w) PROVE TypeOK'
    BY <1>16, LeaveTyped DEF FinalizeRaises, tableVars, cpVars
  <1>17. ASSUME NEW w \in Worker, Crash(w) PROVE TypeOK'
    BY <1>17, LeaveTyped DEF Crash, tableVars, cpVars
  <1>18. ASSUME NEW w \in Worker, Restart(w) PROVE TypeOK'
    BY <1>18 DEF Restart, Goto, tableVars, cpVars
  <1>19. CASE Tick
    <2>1. remaining' \in [Task -> Deadline]
      BY <1>19 DEF Tick, Deadline, Lapsed
    <2> QED BY <1>19, <2>1 DEF Tick, cpVars, workerVars
  <1>20. CASE UNCHANGED vars
    BY <1>20 DEF vars, tableVars, cpVars, workerVars
  <1> QED
    BY <1>1, <1>2, <1>3, <1>4, <1>5, <1>6, <1>7, <1>8, <1>9, <1>10, <1>11,
       <1>12, <1>13, <1>14, <1>15, <1>16, <1>17, <1>18, <1>19, <1>20
    DEF Next, Step

\* Every step keeps what a busy worker knows of its own task.
LEMMA LocalStep == TypeInv /\ [Next]_vars => LocalInv'
  <1> SUFFICES ASSUME TypeInv, [Next]_vars PROVE LocalInv'
    OBVIOUS
  <1> USE DEF TypeInv, LocalInv, Goto, Leave
  <1>1. ASSUME NEW t \in Task, Create(t) \/ Cancel(t) PROVE LocalInv'
    BY <1>1 DEF Create, Cancel, workerVars
  <1>2. ASSUME NEW w \in Worker, Claim(w) PROVE LocalInv'
    BY <1>2 DEF Claim, TypeOK, Busy, Analysing, Reporting
  <1>3. ASSUME NEW w \in Worker, Renew(w) PROVE LocalInv'
    BY <1>3 DEF Renew, workerVars
  <1>4. ASSUME NEW w \in Worker,
               \/ LoadCollected(w)
               \/ LoadDecided(w)
               \/ Collect(w)
               \/ SaveCollected(w)
               \/ SaveFails(w)
               \/ Decide(w)
               \/ SaveDecided(w)
        PROVE LocalInv'
    BY <1>4 DEF LoadCollected, LoadDecided, Collect, SaveCollected, SaveFails,
                Decide, SaveDecided, TypeOK, Busy, Analysing, Reporting
  <1>5. ASSUME NEW w \in Worker, Compose(w) PROVE LocalInv'
    <2>1. /\ Verdict[coll[w].kind] \in Terminal \ {"CANCELLED"}
          /\ Verdict[coll[w].kind] \in Reporting => HasCurrentEvidence(coll[w])
          /\ Verdict[coll[w].kind] # "TIMEOUT"
      BY DEF TypeOK, Collection, CollectionKind, Verdict, Terminal, Reporting,
             HasCurrentEvidence
    <2> QED BY <1>5, <2>1 DEF Compose, TypeOK, Busy, Analysing
  <1>6. ASSUME NEW w \in Worker, Interrupt(w) PROVE LocalInv'
    BY <1>6 DEF Interrupt, TypeOK, Busy, Analysing, Terminal, Reporting,
                NoCollection, HasCurrentEvidence
  <1>7. ASSUME NEW w \in Worker,
               \/ Publish(w)
               \/ FinalizeRejected(w)
               \/ FinalizeRaises(w)
               \/ Crash(w)
        PROVE LocalInv'
    <2>1. Leave(w, "idle") \/ Leave(w, "down")
      BY <1>7 DEF Publish, FinalizeRejected, FinalizeRaises, Crash
    <2>2. pc'[w] # "finalize"
      BY <2>1, LeavePointwise DEF Busy
    <2>3. \A v \in Worker : v = w \/ v # w
      OBVIOUS
    <2> HIDE DEF Leave, Goto
    <2> QED BY <2>1, <2>2, <2>3, LeavePointwise
        DEF Reporting, HasCurrentEvidence
  <1>8. ASSUME NEW w \in Worker, Restart(w) PROVE LocalInv'
    BY <1>8 DEF Restart, TypeOK, Busy, Analysing
  <1>9. CASE Tick
    BY <1>9 DEF Tick, workerVars
  <1>10. CASE UNCHANGED vars
    BY <1>10 DEF vars, workerVars
  <1> QED
    BY <1>1, <1>2, <1>3, <1>4, <1>5, <1>6, <1>7, <1>8, <1>9, <1>10
    DEF Next, Step

\* Every row of the tables and every local of a worker keeps its type, and a
\* busy worker has a task and, at finalize, an outcome.
THEOREM TypesHold == Spec => []TypeInv
  <1>1. TypeInv /\ [Next]_vars => TypeInv'
    BY TypeStep, LocalStep DEF TypeInv
  <1> QED BY InitTypeInv, <1>1, PTL DEF Spec

\* The type invariant of the run, for every instance.
THEOREM TypeCorrect == Spec => []TypeOK
  <1>1. TypeInv => TypeOK
    BY DEF TypeInv
  <1> QED BY TypesHold, <1>1, PTL

-----------------------------------------------------------------------------
(* Leases and fences *)

\* A token is the number of the task's latest claim or NULL, a task that is not
\* active has no lease, a busy worker made one of the claims of its task, and no
\* two busy workers made the same one.
LeaseInv ==
  /\ \A t \in Task : token[t] \in {0, fence[t]}
  /\ \A t \in Task : status[t] \notin Active => token[t] = 0 /\ remaining[t] = Lapsed
  /\ \A w \in Worker : pc[w] \in Busy => held[w] \in 1..fence[job[w]]
  /\ \A w1, w2 \in Worker :
       /\ pc[w1] \in Busy /\ pc[w2] \in Busy
       /\ job[w1] = job[w2] /\ held[w1] = held[w2]
       => w1 = w2

\* A step that moves no worker into or between claims keeps the last two parts.
LEMMA KeepsClaims ==
  ASSUME TypeInv, LeaseInv, NEW w \in Worker, UNCHANGED fence,
         \/ /\ pc[w] \in Busy
            /\ \E label \in {"idle", "down"} \cup Busy : Goto(w, label)
            /\ UNCHANGED <<job, held>>
         \/ Leave(w, "idle")
         \/ Leave(w, "down")
         \/ pc' = [pc EXCEPT ![w] = "idle"] /\ UNCHANGED <<job, held>>
  PROVE  /\ \A v \in Worker : pc'[v] \in Busy => held'[v] \in 1..fence'[job'[v]]
         /\ \A w1, w2 \in Worker :
              /\ pc'[w1] \in Busy /\ pc'[w2] \in Busy
              /\ job'[w1] = job'[w2] /\ held'[w1] = held'[w2]
              => w1 = w2
  <1>1. CASE Leave(w, "idle") \/ Leave(w, "down")
    <2>1. \A v \in Worker : pc'[v] \in Busy =>
            /\ pc[v] \in Busy /\ job'[v] = job[v] /\ held'[v] = held[v]
      BY <1>1, LeavePointwise DEF TypeInv
    <2> QED BY <2>1 DEF LeaseInv
  <1>2. CASE /\ pc[w] \in Busy
             /\ \E label \in {"idle", "down"} \cup Busy : Goto(w, label)
             /\ UNCHANGED <<job, held>>
    <2>1. \A v \in Worker : pc'[v] \in Busy => pc[v] \in Busy
      BY <1>2 DEF Goto, TypeInv, TypeOK
    <2> QED BY <1>2, <2>1 DEF LeaseInv
  <1>3. CASE pc' = [pc EXCEPT ![w] = "idle"] /\ UNCHANGED <<job, held>>
    <2>1. \A v \in Worker : pc'[v] \in Busy => pc[v] \in Busy
      BY <1>3 DEF TypeInv, TypeOK, Busy, Analysing
    <2> QED BY <1>3, <2>1 DEF LeaseInv
  <1> QED BY <1>1, <1>2, <1>3

\* Every step keeps the fencing invariant: a claim draws a number nobody holds.
LEMMA LeaseStep == TypeInv /\ LeaseInv /\ [Next]_vars => LeaseInv'
  <1> SUFFICES ASSUME TypeInv, LeaseInv, [Next]_vars PROVE LeaseInv'
    OBVIOUS
  <1>1. ASSUME NEW t \in Task, Create(t) PROVE LeaseInv'
    BY <1>1 DEF Create, workerVars, LeaseInv, TypeInv, TypeOK, Active
  <1>2. ASSUME NEW t \in Task, Cancel(t) PROVE LeaseInv'
    BY <1>2 DEF Cancel, workerVars, LeaseInv, TypeInv, TypeOK, Active
  <1>3. ASSUME NEW w \in Worker, Claim(w) PROVE LeaseInv'
    <2>1. PICK t \in Task, d \in Drift :
            /\ status[t] \in Active
            /\ fence' = [fence EXCEPT ![t] = fence[t] + 1]
            /\ token' = [token EXCEPT ![t] = fence[t] + 1]
            /\ remaining' = [remaining EXCEPT ![t] = d + LeaseDuration]
            /\ job' = [job EXCEPT ![w] = t]
            /\ held' = [held EXCEPT ![w] = fence[t] + 1]
            /\ Goto(w, IF fence[t] + 1 > 1 THEN "resume" ELSE "collect")
      BY <1>3 DEF Claim, Claimable, NextFence
    <2>2. pc[w] = "idle" /\ status' = status
      BY <1>3 DEF Claim
    <2>3. \A v \in Worker : v # w => pc'[v] = pc[v] /\ job'[v] = job[v] /\ held'[v] = held[v]
      BY <2>1 DEF Goto, TypeInv, TypeOK
    <2>4. job'[w] = t /\ held'[w] = fence[t] + 1
      BY <2>1 DEF TypeInv, TypeOK
    <2>5. \A u \in Task : fence'[u] = IF u = t THEN fence[t] + 1 ELSE fence[u]
      BY <2>1 DEF TypeInv, TypeOK
    <2>6. \A u \in Task : fence[u] \in Nat
      BY DEF TypeInv, TypeOK
    <2>7. \A v \in Worker : v # w /\ pc'[v] \in Busy =>
            job'[v] \in Task /\ held'[v] \in 1..fence[job'[v]]
      BY <2>3 DEF TypeInv, LocalInv, LeaseInv
    <2>8. \A v \in Worker : pc'[v] \in Busy => held'[v] \in 1..fence'[job'[v]]
      BY <2>4, <2>5, <2>6, <2>7
    <2>9. \A w1, w2 \in Worker :
            /\ pc'[w1] \in Busy /\ pc'[w2] \in Busy
            /\ job'[w1] = job'[w2] /\ held'[w1] = held'[w2]
            => w1 = w2
      <3> SUFFICES ASSUME NEW w1 \in Worker, NEW w2 \in Worker,
                          pc'[w1] \in Busy, pc'[w2] \in Busy,
                          job'[w1] = job'[w2], held'[w1] = held'[w2]
                   PROVE  w1 = w2
        OBVIOUS
      <3>1. CASE w1 # w /\ w2 # w
        BY <3>1, <2>3 DEF LeaseInv
      <3>2. CASE w1 = w /\ w2 # w
        BY <3>2, <2>4, <2>6, <2>7
      <3>3. CASE w1 # w /\ w2 = w
        BY <3>3, <2>4, <2>6, <2>7
      <3> QED BY <3>1, <3>2, <3>3
    <2>10. /\ \A u \in Task : token'[u] \in {0, fence'[u]}
           /\ \A u \in Task : status'[u] \notin Active =>
                                token'[u] = 0 /\ remaining'[u] = Lapsed
      BY <2>1, <2>2, <2>5 DEF LeaseInv, TypeInv, TypeOK
    <2> QED BY <2>8, <2>9, <2>10 DEF LeaseInv
  <1>4. ASSUME NEW w \in Worker, Renew(w) PROVE LeaseInv'
    <2>1. status[job[w]] \in Active
      BY <1>4 DEF Renew, TypeInv, TypeOK, LocalInv, Busy, LeaseInv, HoldsLease
    <2> QED BY <1>4, <2>1 DEF Renew, workerVars, LeaseInv, TypeInv, TypeOK
  <1>5. ASSUME NEW w \in Worker,
               \/ LoadCollected(w)
               \/ LoadDecided(w)
               \/ Collect(w)
               \/ SaveCollected(w)
               \/ SaveFails(w)
               \/ Decide(w)
               \/ SaveDecided(w)
               \/ Compose(w)
               \/ Interrupt(w)
        PROVE LeaseInv'
    <2>1. /\ pc[w] \in Busy
          /\ \E label \in {"idle", "down"} \cup Busy : Goto(w, label)
      BY <1>5 DEF LoadCollected, LoadDecided, Collect, SaveCollected, SaveFails,
                  Decide, SaveDecided, Compose, Interrupt, Busy, Analysing
    <2>2. UNCHANGED <<job, held, status, remaining, token, fence>>
      BY <1>5 DEF LoadCollected, LoadDecided, Collect, SaveCollected, SaveFails,
                  Decide, SaveDecided, Compose, Interrupt, tableVars
    <2> QED BY <2>1, <2>2, KeepsClaims DEF LeaseInv
  <1>6. ASSUME NEW w \in Worker, Publish(w) PROVE LeaseInv'
    <2>1. /\ Leave(w, "idle")
          /\ UNCHANGED fence
          /\ job[w] \in Task
          /\ status' = [status EXCEPT ![job[w]] = outcome[w]]
          /\ remaining' = [remaining EXCEPT ![job[w]] = Lapsed]
          /\ token' = [token EXCEPT ![job[w]] = 0]
      BY <1>6 DEF Publish, TypeInv, LocalInv, Busy
    <2>2. /\ \A t \in Task : token'[t] \in {0, fence'[t]}
          /\ \A t \in Task : status'[t] \notin Active =>
                               token'[t] = 0 /\ remaining'[t] = Lapsed
      BY <2>1 DEF LeaseInv, TypeInv, TypeOK
    <2> QED BY <2>1, <2>2, KeepsClaims DEF LeaseInv
  <1>7. ASSUME NEW w \in Worker,
               \/ FinalizeRejected(w)
               \/ FinalizeRaises(w)
               \/ Crash(w)
               \/ Restart(w)
        PROVE LeaseInv'
    <2>1. UNCHANGED <<status, remaining, token, fence>>
      BY <1>7 DEF FinalizeRejected, FinalizeRaises, Crash, Restart, tableVars
    <2>2. \/ Leave(w, "idle")
          \/ Leave(w, "down")
          \/ pc' = [pc EXCEPT ![w] = "idle"] /\ UNCHANGED <<job, held>>
      BY <1>7 DEF FinalizeRejected, FinalizeRaises, Crash, Restart, Goto
    <2> QED BY <2>1, <2>2, KeepsClaims DEF LeaseInv
  <1>8. CASE Tick
    BY <1>8 DEF Tick, workerVars, LeaseInv, TypeInv, TypeOK, Lapsed
  <1>9. CASE UNCHANGED vars
    BY <1>9 DEF vars, tableVars, workerVars, LeaseInv
  <1> QED
    BY <1>1, <1>2, <1>3, <1>4, <1>5, <1>6, <1>7, <1>8, <1>9 DEF Next, Step

\* Fencing: what a worker holds is a claim no other worker holds and no task
\* beyond its latest claim honours.
THEOREM LeasesFenced == Spec => []LeaseInv
  <1>1. Init => LeaseInv
    BY DEF Init, LeaseInv, Active, Busy, Analysing
  <1> QED BY <1>1, LeaseStep, TypesHold, PTL DEF Spec

\* At most one worker passes the compare of a guarded statement on a task.
THEOREM ExclusiveLease == Spec => []OneLeaseholder
  <1>1. LeaseInv => OneLeaseholder
    BY DEF LeaseInv, OneLeaseholder, HoldsLease
  <1> QED BY LeasesFenced, <1>1, PTL

-----------------------------------------------------------------------------
(* Results *)

\* The feed and the report of a task agree with its status.
FeedInv ==
  \A t \in Task :
    /\ status[t] = "absent" => feed[t] = <<>>
    /\ status[t] = "CREATED" => feed[t] = <<"analysis_started">>
    /\ status[t] \in Terminal => feed[t] = Lifecycle!SettledFeed(status[t])
    /\ report[t] # NoReport <=> status[t] \in Reporting

\* Appending to a feed and joining two feeds, element by element.
LEMMA ShortSequences ==
  ASSUME NEW a, NEW b, NEW c
  PROVE  /\ <<a>> \o <<b, c>> = <<a, b, c>>
         /\ <<a>> \o <<b>> = <<a, b>>
         /\ Append(<<a>>, b) = <<a, b>>
  <1> DEFINE S == {a, b, c}
  <1>1. /\ <<a>> \in Seq(S) /\ Len(<<a>>) = 1 /\ <<a>>[1] = a
        /\ <<b>> \in Seq(S) /\ Len(<<b>>) = 1 /\ <<b>>[1] = b
    OBVIOUS
  <1>2. /\ <<a, b>> \in Seq(S) /\ Len(<<a, b>>) = 2
        /\ <<a, b>>[1] = a /\ <<a, b>>[2] = b
        /\ <<b, c>> \in Seq(S) /\ Len(<<b, c>>) = 2
        /\ <<b, c>>[1] = b /\ <<b, c>>[2] = c
    OBVIOUS
  <1>3. /\ <<a, b, c>> \in Seq(S) /\ Len(<<a, b, c>>) = 3
        /\ <<a, b, c>>[1] = a /\ <<a, b, c>>[2] = b /\ <<a, b, c>>[3] = c
    OBVIOUS
  <1>4. /\ <<a>> \o <<b, c>> \in Seq(S)
        /\ Len(<<a>> \o <<b, c>>) = 3
        /\ \A i \in 1..3 : (<<a>> \o <<b, c>>)[i] = <<a, b, c>>[i]
    <2>1. /\ <<a>> \o <<b, c>> \in Seq(S)
          /\ Len(<<a>> \o <<b, c>>) = 1 + 2
          /\ \A i \in 1..3 : (<<a>> \o <<b, c>>)[i] =
                IF i <= 1 THEN <<a>>[i] ELSE <<b, c>>[i - 1]
      BY <1>1, <1>2, ConcatProperties
    <2> HIDE DEF S
    <2> QED BY <2>1, <1>1, <1>2, <1>3
  <1>5. <<a>> \o <<b, c>> = <<a, b, c>>
    BY <1>3, <1>4, SeqEqual
  <1>6. /\ <<a>> \o <<b>> \in Seq(S)
        /\ Len(<<a>> \o <<b>>) = 2
        /\ \A i \in 1..2 : (<<a>> \o <<b>>)[i] = <<a, b>>[i]
    <2>1. /\ <<a>> \o <<b>> \in Seq(S)
          /\ Len(<<a>> \o <<b>>) = 1 + 1
          /\ \A i \in 1..2 : (<<a>> \o <<b>>)[i] =
                IF i <= 1 THEN <<a>>[i] ELSE <<b>>[i - 1]
      BY <1>1, ConcatProperties
    <2> HIDE DEF S
    <2> QED BY <2>1, <1>1, <1>2
  <1>7. <<a>> \o <<b>> = <<a, b>>
    BY <1>2, <1>6, SeqEqual
  <1>8. Append(<<a>>, b) = <<a>> \o <<b>>
    BY <1>1, AppendIsConcat
  <1> QED BY <1>5, <1>7, <1>8

\* The feed of a settled task is its first event and what settling appended.
LEMMA SettledFeedParts ==
  /\ \A s \in Reporting :
       /\ s \in Terminal
       /\ <<"analysis_started">> \o <<"report_generated", Closing[s]>>
            = Lifecycle!SettledFeed(s)
  /\ \A s \in Terminal \ Reporting :
       /\ <<"analysis_started">> \o <<Closing[s]>> = Lifecycle!SettledFeed(s)
       /\ Append(<<"analysis_started">>, Closing[s]) = Lifecycle!SettledFeed(s)
  <1>1. \A s \in Terminal : Closing[s] = Lifecycle!Closing[s]
    BY DEF Terminal, Reporting, Closing, Lifecycle!Closing
  <1>2. Reporting \subseteq Terminal /\ Lifecycle!Reporting = Reporting
    BY DEF Terminal, Reporting, Lifecycle!Reporting
  <1>3. ASSUME NEW s \in Reporting
        PROVE  <<"analysis_started">> \o <<"report_generated", Closing[s]>>
                 = Lifecycle!SettledFeed(s)
    <2>1. Lifecycle!SettledFeed(s)
            = <<"analysis_started", "report_generated", Closing[s]>>
      BY <1>1, <1>2 DEF Lifecycle!SettledFeed
    <2> QED BY <2>1, ShortSequences
  <1>4. ASSUME NEW s \in Terminal \ Reporting
        PROVE  /\ <<"analysis_started">> \o <<Closing[s]>> = Lifecycle!SettledFeed(s)
               /\ Append(<<"analysis_started">>, Closing[s]) = Lifecycle!SettledFeed(s)
    <2>1. Lifecycle!SettledFeed(s) = <<"analysis_started", Closing[s]>>
      BY <1>1, <1>2 DEF Lifecycle!SettledFeed
    <2> QED BY <2>1, ShortSequences
  <1> QED BY <1>2, <1>3, <1>4

\* What a committed finalize does to its task and to nothing else.
LEMMA PublishResult ==
  ASSUME TypeInv, FeedInv, NEW w \in Worker, Publish(w)
  PROVE  LET t == job[w]
             s == outcome[w]
         IN /\ t \in Task
            /\ status[t] = "CREATED"
            /\ s \in Terminal \ {"CANCELLED"}
            /\ status' = [status EXCEPT ![t] = s]
            /\ feed' = [feed EXCEPT ![t] = Lifecycle!SettledFeed(s)]
            /\ report' = IF s \in Reporting
                         THEN [report EXCEPT ![t] = [coll  |-> coll[w],
                                                     about |-> dec[w]]]
                         ELSE report
            /\ [coll |-> coll[w], about |-> dec[w]] # NoReport \/ s \notin Reporting
  <1>1. /\ job[w] \in Task
        /\ status[job[w]] = "CREATED"
        /\ outcome[w] \in Terminal \ {"CANCELLED"}
    BY DEF Publish, CanFinalize, Active, TypeInv, LocalInv, Busy
  <1>2. feed[job[w]] = <<"analysis_started">>
    BY <1>1 DEF FeedInv
  <1>3. feed' = [feed EXCEPT ![job[w]] = Lifecycle!SettledFeed(outcome[w])]
    <2>1. CASE outcome[w] \in Reporting
      BY <1>1, <1>2, <2>1, SettledFeedParts DEF Publish
    <2>2. CASE outcome[w] \notin Reporting
      BY <1>1, <1>2, <2>2, SettledFeedParts DEF Publish
    <2> QED BY <2>1, <2>2
  <1>4. [coll |-> coll[w], about |-> dec[w]] # NoReport \/ outcome[w] \notin Reporting
    BY DEF TypeInv, LocalInv, HasCurrentEvidence, NoReport, NoCollection
  <1> QED BY <1>1, <1>3, <1>4 DEF Publish

\* What a cancellation does to its task and to nothing else.
LEMMA CancelResult ==
  ASSUME FeedInv, NEW t \in Task, Cancel(t)
  PROVE  /\ status[t] = "CREATED"
         /\ status' = [status EXCEPT ![t] = "CANCELLED"]
         /\ feed' = [feed EXCEPT ![t] = Lifecycle!SettledFeed("CANCELLED")]
         /\ UNCHANGED <<report, owner>>
  <1>1. feed[t] = <<"analysis_started">>
    BY DEF FeedInv, Cancel, Active
  <1>2. "CANCELLED" \in Terminal \ Reporting
    BY DEF Terminal, Reporting
  <1> QED BY <1>1, <1>2, SettledFeedParts DEF Cancel, Active

\* Every other step leaves the results alone or creates a task.
LEMMA OtherSteps ==
  ASSUME [Next]_vars
  PROVE  \/ \E t \in Task : Create(t) \/ Cancel(t)
         \/ \E w \in Worker : Publish(w)
         \/ UNCHANGED <<status, feed, report, owner>>
  <1>1. ASSUME NEW w \in Worker,
               \/ Step(w) /\ ~Publish(w)
               \/ Renew(w)
               \/ Crash(w)
               \/ Restart(w)
        PROVE UNCHANGED <<status, feed, report, owner>>
    BY <1>1 DEF Step, Claim, LoadCollected, LoadDecided, Collect, SaveCollected,
       SaveFails, Decide, SaveDecided, Compose, Interrupt, FinalizeRejected,
       FinalizeRaises, Renew, Crash, Restart, tableVars
  <1>2. CASE Tick \/ UNCHANGED vars
    BY <1>2 DEF Tick, vars, tableVars
  <1> QED BY <1>1, <1>2 DEF Next, Step

\* Every step keeps status, report and feed of a task in agreement.
LEMMA FeedStep == TypeInv /\ FeedInv /\ [Next]_vars => FeedInv'
  <1> SUFFICES ASSUME TypeInv, FeedInv, [Next]_vars PROVE FeedInv'
    OBVIOUS
  <1>1. ASSUME NEW t \in Task, Create(t) PROVE FeedInv'
    BY <1>1 DEF Create, FeedInv, TypeInv, TypeOK, Terminal, Reporting
  <1>2. ASSUME NEW t \in Task, Cancel(t) PROVE FeedInv'
    <2>1. "CANCELLED" \in Terminal \ Reporting /\ "CREATED" \notin Reporting
      BY DEF Terminal, Reporting
    <2> QED BY <1>2, <2>1, CancelResult DEF FeedInv, TypeInv, TypeOK
  <1>3. ASSUME NEW w \in Worker, Publish(w) PROVE FeedInv'
    <2>1. /\ "absent" \notin Terminal /\ "CREATED" \notin Terminal
          /\ Reporting \subseteq Terminal
      BY DEF Terminal, Reporting
    <2> DEFINE t == job[w]
    <2>2. /\ t \in Task
          /\ outcome[w] \in Terminal
          /\ status' = [status EXCEPT ![t] = outcome[w]]
          /\ feed' = [feed EXCEPT ![t] = Lifecycle!SettledFeed(outcome[w])]
          /\ status[t] = "CREATED"
          /\ \/ outcome[w] \in Reporting /\ report'[t] # NoReport
             \/ outcome[w] \notin Reporting /\ report'[t] = report[t]
          /\ \A u \in Task : u # t => report'[u] = report[u]
      BY <1>3, PublishResult DEF TypeInv, TypeOK
    <2>3. report[t] = NoReport
      BY <2>1, <2>2 DEF FeedInv, Reporting
    <2>4. \A u \in Task : u # t => status'[u] = status[u] /\ feed'[u] = feed[u]
      BY <2>2 DEF TypeInv, TypeOK
    <2>5. status'[t] = outcome[w] /\ feed'[t] = Lifecycle!SettledFeed(outcome[w])
      BY <2>2 DEF TypeInv, TypeOK
    <2> QED BY <2>1, <2>2, <2>3, <2>4, <2>5 DEF FeedInv
  <1>4. CASE UNCHANGED <<status, feed, report, owner>>
    BY <1>4 DEF FeedInv
  <1> QED BY <1>1, <1>2, <1>3, <1>4, OtherSteps

\* Status, report and event feed of a task always tell the same story.
THEOREM FeedsAgree == Spec => []FeedInv
  <1>1. Init => FeedInv
    <2> SUFFICES ASSUME Init, NEW t \in Task
                 PROVE  /\ status[t] = "absent"
                        /\ feed[t] = <<>>
                        /\ report[t] = NoReport
      BY DEF FeedInv, Terminal, Reporting
    <2>1. status[t] = "absent"
      BY DEF Init
    <2>2. feed[t] = <<>>
      BY DEF Init
    <2>3. report[t] = NoReport
      BY DEF Init
    <2> QED BY <2>1, <2>2, <2>3
  <1> QED BY <1>1, FeedStep, TypesHold, PTL DEF Spec

\* Every step keeps the evidence a report cites.
LEMMA EvidenceStep ==
  TypeInv /\ FeedInv /\ EvidenceBacksReport /\ [Next]_vars => EvidenceBacksReport'
  <1> SUFFICES ASSUME TypeInv, FeedInv, EvidenceBacksReport, [Next]_vars
               PROVE  EvidenceBacksReport'
    OBVIOUS
  <1>1. ASSUME NEW t \in Task, Create(t) PROVE EvidenceBacksReport'
    BY <1>1 DEF Create, EvidenceBacksReport, TypeInv, TypeOK, Reporting, Rows,
                HasCurrentEvidence
  <1>2. ASSUME NEW t \in Task, Cancel(t) PROVE EvidenceBacksReport'
    <2>1. /\ status[t] = "CREATED"
          /\ report' = report /\ owner' = owner
          /\ \A u \in Task : u # t => status'[u] = status[u]
          /\ status'[t] = "CANCELLED"
      BY <1>2, CancelResult DEF TypeInv, TypeOK
    <2>2. \A u \in Task : status'[u] \in Reporting => status[u] \in Reporting
      BY <2>1 DEF Reporting
    <2>3. \A e \in EvidenceId : owner[e] \in Task => owner[e] # t
      BY <2>1 DEF EvidenceBacksReport, Reporting
    <2>4. \A e \in EvidenceId : owner[e] \in Task =>
            status'[owner[e]] \in Reporting \cup {"FAILED"}
      BY <2>1, <2>3 DEF EvidenceBacksReport
    <2>5. \A u \in Task : status'[u] \in Reporting =>
            \A e \in Rows(u, report'[u].coll) : owner'[e] = u
      BY <2>1, <2>2 DEF EvidenceBacksReport
    <2> QED BY <2>1, <2>4, <2>5 DEF EvidenceBacksReport, Rows, HasCurrentEvidence
  <1>3. ASSUME NEW w \in Worker, Publish(w) PROVE EvidenceBacksReport'
    <2> DEFINE t == job[w]
    <2>1. /\ t \in Task
          /\ status[t] = "CREATED"
          /\ status' = [status EXCEPT ![t] = outcome[w]]
          /\ outcome[w] \in Terminal \ {"CANCELLED"}
          /\ report' = IF outcome[w] \in Reporting
                       THEN [report EXCEPT ![t] = [coll  |-> coll[w],
                                                   about |-> dec[w]]]
                       ELSE report
      BY <1>3, PublishResult
    <2>2. \A e \in Rows(t, coll[w]) : owner[e] = NoTask
      BY <1>3 DEF Publish, Clashes
    <2>3. \A e \in EvidenceId :
            owner'[e] = IF e \in Rows(t, coll[w]) THEN t ELSE owner[e]
      BY <1>3 DEF Publish
    <2>4. \A u \in Task : \A c : Rows(u, c) \subseteq EvidenceId
      BY DEF Rows
    <2>5. ASSUME NEW u \in Task, status'[u] \in Reporting,
                 NEW e \in Rows(u, report'[u].coll)
          PROVE  owner'[e] = u
      <3>1. CASE u = t
        <4>1. report'[u].coll = coll[w]
          BY <2>1, <2>5, <3>1 DEF TypeInv, TypeOK
        <4> QED BY <2>3, <2>4, <2>5, <3>1, <4>1
      <3>2. CASE u # t
        <4>1. status[u] \in Reporting /\ report'[u] = report[u]
          BY <2>1, <2>5, <3>2 DEF TypeInv, TypeOK
        <4>2. owner[e] = u
          BY <4>1, <2>5 DEF EvidenceBacksReport
        <4> QED BY <4>2, <2>2, <2>3, <2>4, <2>5
      <3> QED BY <3>1, <3>2
    <2>6. ASSUME NEW e \in EvidenceId, owner'[e] \in Task
          PROVE  status'[owner'[e]] \in Reporting \cup {"FAILED"}
      <3>1. CASE e \in Rows(t, coll[w])
        <4>1. outcome[w] # "TIMEOUT"
          BY <3>1 DEF Rows, TypeInv, LocalInv
        <4> QED BY <2>1, <2>3, <3>1, <4>1 DEF TypeInv, TypeOK, Terminal
      <3>2. CASE e \notin Rows(t, coll[w])
        <4>1. owner'[e] = owner[e] /\ status[owner[e]] \in Reporting \cup {"FAILED"}
          BY <2>3, <2>6, <3>2 DEF EvidenceBacksReport
        <4>2. owner[e] # t
          BY <2>1, <4>1 DEF Reporting
        <4> QED BY <2>1, <2>6, <4>1, <4>2 DEF TypeInv, TypeOK
      <3> QED BY <3>1, <3>2
    <2> QED BY <2>5, <2>6 DEF EvidenceBacksReport, Rows, HasCurrentEvidence
  <1>4. CASE UNCHANGED <<status, feed, report, owner>>
    BY <1>4 DEF EvidenceBacksReport, Rows, HasCurrentEvidence
  <1> QED BY <1>1, <1>2, <1>3, <1>4, OtherSteps

\* The rows a report cites are stored under its task, and only a committed
\* finalize stores rows.
THEOREM EvidenceStored == Spec => []EvidenceBacksReport
  <1>1. Init => EvidenceBacksReport
    BY DEF Init, EvidenceBacksReport, Reporting
  <1> QED BY <1>1, EvidenceStep, TypesHold, FeedsAgree, PTL DEF Spec

\* Only the process behind the latest claim of a task settles it as a worker.
THEOREM StaleWorkersNeverSettle == Spec => OnlyLatestClaimSettles
  <1>1. TypeInv /\ FeedInv /\ [Next]_vars =>
          [\A t \in Task :
             status[t] = "CREATED" /\ status'[t] \in Terminal \ {"CANCELLED"} =>
               \E w \in Worker : /\ pc[w] = "finalize"
                                 /\ job[w] = t
                                 /\ held[w] = fence[t]
                                 /\ outcome[w] = status'[t]]_vars
    <2> SUFFICES ASSUME TypeInv, FeedInv, [Next]_vars, NEW t \in Task,
                        status[t] = "CREATED",
                        status'[t] \in Terminal \ {"CANCELLED"}
                 PROVE  \E w \in Worker : /\ pc[w] = "finalize"
                                          /\ job[w] = t
                                          /\ held[w] = fence[t]
                                          /\ outcome[w] = status'[t]
      OBVIOUS
    <2>1. ASSUME NEW u \in Task, Create(u) \/ Cancel(u) PROVE FALSE
      BY <2>1, CancelResult DEF Create, TypeInv, TypeOK, Terminal, Reporting
    <2>2. ASSUME NEW w \in Worker, Publish(w)
          PROVE  /\ pc[w] = "finalize"
                 /\ job[w] = t
                 /\ held[w] = fence[t]
                 /\ outcome[w] = status'[t]
      <3>1. pc[w] = "finalize" /\ held[w] = fence[job[w]]
        BY <2>2 DEF Publish, CanFinalize, HoldsLease
      <3>2. job[w] \in Task /\ status' = [status EXCEPT ![job[w]] = outcome[w]]
        BY <2>2, PublishResult
      <3>3. job[w] = t
        BY <3>2 DEF TypeInv, TypeOK, Terminal, Reporting
      <3> QED BY <3>1, <3>2, <3>3 DEF TypeInv, TypeOK
    <2>3. ~ UNCHANGED <<status, feed, report, owner>>
      BY DEF Terminal, Reporting
    <2> QED BY <2>1, <2>2, <2>3, OtherSteps
  <1> QED BY <1>1, TypesHold, FeedsAgree, PTL DEF Spec, OnlyLatestClaimSettles

\* A settled task's status, report and feed and every stored evidence row stay
\* what they are, and the task never has a lease again.
THEOREM SettledForGood == Spec => SettledIsFinal
  <1> DEFINE Frozen ==
        /\ \A t \in Task :
             status[t] \in Terminal =>
               /\ status'[t] = status[t]
               /\ report'[t] = report[t]
               /\ feed'[t] = feed[t]
               /\ token'[t] = 0
               /\ remaining'[t] = Lapsed
        /\ \A e \in EvidenceId : owner[e] # NoTask => owner'[e] = owner[e]
  <1>1. TypeInv /\ FeedInv /\ LeaseInv /\ LeaseInv' /\ [Next]_vars => [Frozen]_vars
    <2> SUFFICES ASSUME TypeInv, FeedInv, LeaseInv, LeaseInv', [Next]_vars
                 PROVE  Frozen
      OBVIOUS
    <2>1. ASSUME NEW t \in Task, status[t] \in Terminal
          PROVE  status'[t] = status[t] /\ report'[t] = report[t] /\ feed'[t] = feed[t]
      <3>1. ASSUME NEW u \in Task, Create(u)
            PROVE  status'[t] = status[t] /\ report'[t] = report[t] /\ feed'[t] = feed[t]
        BY <2>1, <3>1 DEF Create, TypeInv, TypeOK, Terminal, Reporting
      <3>2. ASSUME NEW u \in Task, Cancel(u)
            PROVE  status'[t] = status[t] /\ report'[t] = report[t] /\ feed'[t] = feed[t]
        <4>1. t # u
          BY <2>1, <3>2, CancelResult DEF Terminal, Reporting
        <4> QED BY <3>2, <4>1, CancelResult DEF TypeInv, TypeOK
      <3>3. ASSUME NEW w \in Worker, Publish(w)
            PROVE  status'[t] = status[t] /\ report'[t] = report[t] /\ feed'[t] = feed[t]
        <4>1. t # job[w]
          BY <2>1, <3>3, PublishResult DEF Terminal, Reporting
        <4>2. report'[t] = report[t]
          BY <3>3, <4>1 DEF Publish, TypeInv, TypeOK
        <4>3. status'[t] = status[t] /\ feed'[t] = feed[t]
          BY <3>3, <4>1, PublishResult DEF TypeInv, TypeOK
        <4> QED BY <4>2, <4>3
      <3> QED BY <3>1, <3>2, <3>3, OtherSteps
    <2>2. ASSUME NEW e \in EvidenceId, owner[e] # NoTask
          PROVE  owner'[e] = owner[e]
      <3>1. ASSUME NEW w \in Worker, Publish(w)
            PROVE  owner'[e] = owner[e]
        BY <2>2, <3>1 DEF Publish, Clashes
      <3>2. ASSUME NEW u \in Task, Create(u) \/ Cancel(u)
            PROVE  owner'[e] = owner[e]
        BY <3>2 DEF Create, Cancel
      <3> QED BY <3>1, <3>2, OtherSteps
    <2>3. \A t \in Task : status'[t] \in Terminal =>
            token'[t] = 0 /\ remaining'[t] = Lapsed
      BY DEF LeaseInv, Active, Terminal, Reporting, Lapsed
    <2> QED BY <2>1, <2>2, <2>3
  <1> QED BY <1>1, TypesHold, FeedsAgree, LeasesFenced, PTL DEF Spec, SettledIsFinal

-----------------------------------------------------------------------------
(* Renewals that keep up *)

\* While renewals keep up, a busy worker has the lease of its task on every
\* clock, unless the task was cancelled under it.
KeepUpInv ==
  Timely =>
    \A w \in Worker :
      pc[w] \in Busy =>
        \/ status[job[w]] = "CANCELLED"
        \/ /\ status[job[w]] = "CREATED"
           /\ HoldsLease(w)
           /\ remaining[job[w]] >= Skew

\* The step that leaves alone the lease of every task and starts no analysis
\* keeps the invariant.
LEMMA KeepsLeases ==
  ASSUME KeepUpInv, UNCHANGED <<status, remaining, token, fence>>,
         \A v \in Worker : pc'[v] \in Busy =>
           pc[v] \in Busy /\ job'[v] = job[v] /\ held'[v] = held[v]
  PROVE  KeepUpInv'
BY DEF KeepUpInv, HoldsLease

\* Every step keeps the lease of a worker whose renewals keep up: nobody can
\* claim its task, and only its own finalize or a cancellation settles it.
LEMMA KeepUpStep ==
  TypeInv /\ LeaseInv /\ KeepUpInv /\ [Next]_vars => KeepUpInv'
  <1> SUFFICES ASSUME TypeInv, LeaseInv, KeepUpInv, [Next]_vars, Timely
               PROVE  KeepUpInv'
    BY DEF KeepUpInv
  <1>1. ASSUME NEW t \in Task, Create(t) PROVE KeepUpInv'
    <2>1. /\ status[t] = "absent" /\ status' = [status EXCEPT ![t] = "CREATED"]
          /\ UNCHANGED <<remaining, token, fence, pc, job, held>>
      BY <1>1 DEF Create, workerVars
    <2>2. \A w \in Worker : pc[w] \in Busy => job[w] \in Task /\ job[w] # t
      BY <2>1 DEF KeepUpInv, TypeInv, LocalInv
    <2> QED BY <2>1, <2>2 DEF KeepUpInv, HoldsLease, TypeInv, TypeOK
  <1>2. ASSUME NEW t \in Task, Cancel(t) PROVE KeepUpInv'
    <2>1. /\ status' = [status EXCEPT ![t] = "CANCELLED"]
          /\ remaining' = [remaining EXCEPT ![t] = Lapsed]
          /\ token' = [token EXCEPT ![t] = 0]
          /\ UNCHANGED <<fence, pc, job, held>>
      BY <1>2 DEF Cancel, workerVars
    <2>2. \A w \in Worker : pc[w] \in Busy => job[w] \in Task
      BY DEF TypeInv, LocalInv
    <2> QED BY <2>1, <2>2 DEF KeepUpInv, HoldsLease, TypeInv, TypeOK
  <1>3. ASSUME NEW w \in Worker, Claim(w) PROVE KeepUpInv'
    <2>1. PICK t \in Task, d \in Drift :
            /\ Claimable(t, d)
            /\ fence' = [fence EXCEPT ![t] = fence[t] + 1]
            /\ token' = [token EXCEPT ![t] = fence[t] + 1]
            /\ remaining' = [remaining EXCEPT ![t] = d + LeaseDuration]
            /\ job' = [job EXCEPT ![w] = t]
            /\ held' = [held EXCEPT ![w] = fence[t] + 1]
            /\ Goto(w, IF NextFence(t) > 1 THEN "resume" ELSE "collect")
      BY <1>3 DEF Claim, NextFence
    <2>2. status' = status /\ status[t] = "CREATED" /\ remaining[t] < Skew
      BY <1>3, <2>1 DEF Claim, Claimable, Active, Drift, TypeInv, TypeOK,
                        Deadline, Lapsed
    <2>3. \A v \in Worker : v # w =>
            pc'[v] = pc[v] /\ job'[v] = job[v] /\ held'[v] = held[v]
      BY <2>1 DEF Goto, TypeInv, TypeOK
    <2>4. job'[w] = t /\ held'[w] = fence[t] + 1
      BY <2>1 DEF TypeInv, TypeOK
    <2>5. fence'[t] = fence[t] + 1 /\ token'[t] = fence[t] + 1
      BY <2>1 DEF TypeInv, TypeOK
    <2>6. remaining'[t] >= Skew
      BY <2>1 DEF Drift, TypeInv, TypeOK
    <2>7. \A u \in Task : u # t => /\ remaining'[u] = remaining[u]
                                   /\ token'[u] = token[u]
                                   /\ fence'[u] = fence[u]
      BY <2>1 DEF TypeInv, TypeOK
    <2>8. \A v \in Worker : pc[v] \in Busy => job[v] \in Task /\ job[v] # t
      <3>1. \A v \in Worker : pc[v] \in Busy /\ job[v] = t => FALSE
        <4>1. remaining[t] \in Int
          BY DEF TypeInv, TypeOK, Deadline, Lapsed
        <4>2. ~(remaining[t] >= Skew)
          BY <2>2, <4>1
        <4> QED BY <2>2, <4>2 DEF KeepUpInv
      <3> QED BY <3>1 DEF TypeInv, LocalInv
    <2>9. ASSUME NEW v \in Worker, v # w, pc'[v] \in Busy
          PROVE  \/ status'[job'[v]] = "CANCELLED"
                 \/ /\ status'[job'[v]] = "CREATED"
                    /\ HoldsLease(v)'
                    /\ remaining'[job'[v]] >= Skew
      BY <2>2, <2>3, <2>7, <2>8, <2>9 DEF KeepUpInv, HoldsLease
    <2>10. status'[job'[w]] = "CREATED" /\ HoldsLease(w)' /\ remaining'[job'[w]] >= Skew
      BY <2>2, <2>4, <2>5, <2>6 DEF HoldsLease
    <2> QED BY <2>9, <2>10 DEF KeepUpInv
  <1>4. ASSUME NEW w \in Worker, Renew(w) PROVE KeepUpInv'
    <2>1. PICK d \in Drift :
            remaining' = [remaining EXCEPT ![job[w]] = d + LeaseDuration]
      BY <1>4 DEF Renew
    <2>2. UNCHANGED <<status, token, fence, pc, job, held>>
      BY <1>4 DEF Renew, workerVars
    <2>3. \A u \in Task : remaining'[u] = remaining[u] \/ remaining'[u] >= Skew
      BY <2>1 DEF Drift, TypeInv, TypeOK
    <2>4. \A v \in Worker : pc[v] \in Busy => job[v] \in Task
      BY DEF TypeInv, LocalInv
    <2> QED BY <2>2, <2>3, <2>4 DEF KeepUpInv, HoldsLease
  <1>5. ASSUME NEW w \in Worker,
               \/ LoadCollected(w)
               \/ LoadDecided(w)
               \/ Collect(w)
               \/ SaveCollected(w)
               \/ SaveFails(w)
               \/ Decide(w)
               \/ SaveDecided(w)
               \/ Compose(w)
               \/ Interrupt(w)
        PROVE KeepUpInv'
    <2>1. pc[w] \in Busy /\ \A v \in Worker : v # w => pc'[v] = pc[v]
      BY <1>5 DEF LoadCollected, LoadDecided, Collect, SaveCollected, SaveFails,
                  Decide, SaveDecided, Compose, Interrupt, Goto, Busy, Analysing,
                  TypeInv, TypeOK
    <2>2. UNCHANGED <<job, held, status, remaining, token, fence>>
      BY <1>5 DEF LoadCollected, LoadDecided, Collect, SaveCollected, SaveFails,
                  Decide, SaveDecided, Compose, Interrupt, tableVars
    <2>3. \A v \in Worker : pc'[v] \in Busy => pc[v] \in Busy
      BY <2>1
    <2> QED BY <2>2, <2>3, KeepsLeases
  <1>6. ASSUME NEW w \in Worker, Publish(w) PROVE KeepUpInv'
    <2>1. /\ Leave(w, "idle") /\ HoldsLease(w) /\ pc[w] \in Busy
          /\ status[job[w]] = "CREATED" /\ job[w] \in Task
          /\ fence' = fence
          /\ status' = [status EXCEPT ![job[w]] = outcome[w]]
          /\ remaining' = [remaining EXCEPT ![job[w]] = Lapsed]
          /\ token' = [token EXCEPT ![job[w]] = 0]
      BY <1>6 DEF Publish, CanFinalize, Active, Busy, TypeInv, LocalInv
    <2>2. ASSUME NEW v \in Worker, pc'[v] \in Busy
          PROVE  /\ pc[v] \in Busy /\ job[v] \in Task /\ job[v] # job[w]
                 /\ job'[v] = job[v] /\ held'[v] = held[v]
      <3>1. v # w /\ pc'[v] = pc[v] /\ job'[v] = job[v] /\ held'[v] = held[v]
        BY <2>1, <2>2, LeavePointwise DEF TypeInv
      <3>2. job[v] # job[w]
        BY <2>1, <2>2, <3>1 DEF KeepUpInv, LeaseInv, HoldsLease
      <3> QED BY <2>2, <3>1, <3>2 DEF TypeInv, LocalInv
    <2> QED BY <2>1, <2>2 DEF KeepUpInv, HoldsLease, TypeInv, TypeOK
  <1>7. ASSUME NEW w \in Worker,
               \/ FinalizeRejected(w)
               \/ FinalizeRaises(w)
               \/ Crash(w)
        PROVE KeepUpInv'
    <2>1. Leave(w, "idle") \/ Leave(w, "down")
      BY <1>7 DEF FinalizeRejected, FinalizeRaises, Crash
    <2>2. UNCHANGED <<status, remaining, token, fence>>
      BY <1>7 DEF FinalizeRejected, FinalizeRaises, Crash, tableVars
    <2>3. \A v \in Worker : pc'[v] \in Busy =>
            pc[v] \in Busy /\ job'[v] = job[v] /\ held'[v] = held[v]
      BY <2>1, LeavePointwise DEF TypeInv
    <2> QED BY <2>2, <2>3, KeepsLeases
  <1>8. ASSUME NEW w \in Worker, Restart(w) PROVE KeepUpInv'
    <2>1. \A v \in Worker : pc'[v] \in Busy => pc[v] \in Busy
      BY <1>8 DEF Restart, Goto, TypeInv, TypeOK, Busy, Analysing
    <2> QED BY <1>8, <2>1, KeepsLeases DEF Restart, tableVars
  <1>9. CASE Tick
    <2>1. UNCHANGED <<status, token, fence, pc, job, held>>
      BY <1>9 DEF Tick, workerVars
    <2>2. ASSUME NEW w \in Worker, pc[w] \in Busy, HoldsLease(w)
          PROVE  remaining'[job[w]] >= Skew
      <3>1. job[w] \in Task /\ remaining[job[w]] > Skew
        BY <1>9, <2>2 DEF Tick, RenewalsKeepUp, TypeInv, LocalInv
      <3>2. remaining[job[w]] \in Int
        BY <3>1 DEF TypeInv, TypeOK, Deadline, Lapsed
      <3>3. remaining'[job[w]] = remaining[job[w]] - 1
        BY <1>9, <3>1, <3>2 DEF Tick, Lapsed
      <3> QED BY <3>1, <3>2, <3>3
    <2> QED BY <2>1, <2>2 DEF KeepUpInv, HoldsLease
  <1>10. CASE UNCHANGED vars
    BY <1>10, KeepsLeases DEF vars, tableVars, workerVars
  <1> QED
    BY <1>1, <1>2, <1>3, <1>4, <1>5, <1>6, <1>7, <1>8, <1>9, <1>10
    DEF Next, Step

\* While renewals keep up, an analysis that reached finalize is settled as it
\* came out, unless a cancellation, an evidence clash or a kill prevents it.
THEOREM NothingWasted == Spec => NoWorkLostWhileRenewing
  <1> DEFINE Kept ==
        Timely =>
          \A w \in Worker :
            pc[w] = "finalize" /\ pc'[w] # "finalize" /\ crashes' = crashes
              => \/ status[job[w]] = "CANCELLED"
                 \/ status'[job[w]] = outcome[w]
                 \/ pc'[w] = "down" /\ Clashes(job[w], coll[w])
  <1>1. Init => KeepUpInv
    BY DEF Init, KeepUpInv, Busy, Analysing
  <1>2. TypeInv /\ LeaseInv /\ KeepUpInv /\ [Next]_vars => [Kept]_vars
    <2> SUFFICES ASSUME TypeInv, LeaseInv, KeepUpInv, [Next]_vars, Timely,
                        NEW w \in Worker, pc[w] = "finalize",
                        pc'[w] # "finalize", crashes' = crashes,
                        status[job[w]] # "CANCELLED"
                 PROVE  \/ status'[job[w]] = outcome[w]
                        \/ pc'[w] = "down" /\ Clashes(job[w], coll[w])
      OBVIOUS
    <2>1. /\ job[w] \in Task /\ status[job[w]] = "CREATED" /\ HoldsLease(w)
          /\ remaining[job[w]] >= Skew
      BY DEF KeepUpInv, Busy, TypeInv, LocalInv
    <2>2. \A d \in Drift : CanFinalize(w, d)
      BY <2>1 DEF CanFinalize, Drift, Active, TypeInv, TypeOK, Deadline, Lapsed
    <2>3. CASE Publish(w)
      BY <2>1, <2>3 DEF Publish, TypeInv, TypeOK
    <2>4. ~FinalizeRejected(w)
      BY <2>2 DEF FinalizeRejected
    <2>5. ~Crash(w)
      <3>1. crashes \in Nat
        BY DEF TypeInv, TypeOK
      <3> QED BY <3>1 DEF Crash
    <2>6. ASSUME FinalizeRaises(w)
          PROVE  pc'[w] = "down" /\ Clashes(job[w], coll[w])
      BY <2>6 DEF FinalizeRaises, Leave, Goto, TypeInv, TypeOK
    <2>7. ~Claim(w) /\ ~Restart(w)
      BY DEF Claim, Restart
    <2>8. ~(LoadCollected(w) \/ LoadDecided(w) \/ Collect(w) \/ SaveCollected(w)
            \/ SaveFails(w) \/ Decide(w) \/ SaveDecided(w) \/ Compose(w)
            \/ Interrupt(w) \/ Renew(w))
      BY DEF LoadCollected, LoadDecided, Collect, SaveCollected, SaveFails,
             Decide, SaveDecided, Compose, Interrupt, Renew, Analysing
    <2>9. ASSUME NEW v \in Worker, v # w, Step(v) \/ Crash(v) \/ Restart(v) \/ Renew(v)
          PROVE  FALSE
      <3>1. pc'[w] = pc[w]
        <4>1. CASE \/ Publish(v) \/ FinalizeRejected(v) \/ FinalizeRaises(v)
                   \/ Crash(v)
          BY <2>9, <4>1, LeavePointwise
          DEF Publish, FinalizeRejected, FinalizeRaises, Crash, TypeInv
        <4>2. CASE \/ Claim(v) \/ LoadCollected(v) \/ LoadDecided(v) \/ Collect(v)
                   \/ SaveCollected(v) \/ SaveFails(v) \/ Decide(v)
                   \/ SaveDecided(v) \/ Compose(v) \/ Interrupt(v) \/ Restart(v)
                   \/ Renew(v)
          BY <2>9, <4>2
          DEF Claim, LoadCollected, LoadDecided, Collect, SaveCollected, SaveFails,
              Decide, SaveDecided, Compose, Interrupt, Restart, Renew, Goto,
              workerVars, TypeInv, TypeOK
        <4> QED BY <2>9, <4>1, <4>2 DEF Step
      <3> QED BY <3>1
    <2>10. ASSUME \/ \E t \in Task : Create(t) \/ Cancel(t)
                  \/ Tick
                  \/ UNCHANGED vars
           PROVE  FALSE
      BY <2>10 DEF Create, Cancel, Tick, vars, workerVars
    <2> QED BY <2>3, <2>4, <2>5, <2>6, <2>7, <2>8, <2>9, <2>10 DEF Next, Step
  <1> QED BY <1>1, <1>2, KeepUpStep, TypesHold, LeasesFenced, PTL
          DEF Spec, NoWorkLostWhileRenewing

-----------------------------------------------------------------------------
(* Refinement *)

\* The task table implements TaskLifecycle: creating a row is Submit, whatever
\* settles it is Settle, and every other step of any process is a stutter.
THEOREM Refinement == Spec => ImplementsLifecycle
  <1> DEFINE withReport == {t \in Task : status[t] \in Reporting
                                         /\ report[t] # NoReport}
  <1>1. Lifecycle!Reporting = Reporting /\ Lifecycle!Terminal = Terminal
    BY DEF Reporting, Terminal, Lifecycle!Reporting, Lifecycle!Terminal
  <1>2. Init => Lifecycle!Init
    <2>1. Init => withReport = {}
      BY DEF Init, Reporting
    <2> QED BY <2>1 DEF Init, Lifecycle!Init
  <1>3. TypeInv /\ FeedInv /\ FeedInv' /\ [Next]_vars
          => [Lifecycle!Next]_(Lifecycle!lifecycleVars)
    <2> SUFFICES ASSUME TypeInv, FeedInv, FeedInv', [Next]_vars
                 PROVE  \/ Lifecycle!Next
                        \/ UNCHANGED <<status, withReport, feed>>
      BY DEF Lifecycle!lifecycleVars
    <2>1. /\ withReport = {t \in Task : status[t] \in Reporting}
          /\ withReport' = {t \in Task : status'[t] \in Reporting}
      BY DEF FeedInv, NoReport, NoCollection
    <2>2. ASSUME NEW t \in Task, Create(t)
          PROVE  Lifecycle!Submit(t)
      <3>1. withReport' = withReport
        BY <2>1, <2>2 DEF Create, TypeInv, TypeOK, Reporting
      <3> QED BY <2>2, <3>1 DEF Create, Lifecycle!Submit
    <2>3. ASSUME NEW t \in Task, NEW s \in Terminal,
                 status[t] = "CREATED",
                 status' = [status EXCEPT ![t] = s],
                 feed' = [feed EXCEPT ![t] = Lifecycle!SettledFeed(s)]
          PROVE  Lifecycle!Settle(t)
      <3>1. withReport' = IF s \in Reporting THEN withReport \cup {t} ELSE withReport
        BY <2>1, <2>3 DEF TypeInv, TypeOK, Reporting
      <3> QED BY <1>1, <2>3, <3>1 DEF Lifecycle!Settle
    <2>4. ASSUME NEW t \in Task, Cancel(t)
          PROVE  Lifecycle!Settle(t)
      <3>1. "CANCELLED" \in Terminal
        BY DEF Terminal
      <3> QED BY <2>3, <2>4, <3>1, CancelResult
    <2>5. ASSUME NEW w \in Worker, Publish(w)
          PROVE  \E t \in Task : Lifecycle!Settle(t)
      BY <2>3, <2>5, PublishResult
    <2>6. CASE UNCHANGED <<status, feed, report, owner>>
      BY <2>6
    <2> QED BY <2>2, <2>4, <2>5, <2>6, OtherSteps DEF Lifecycle!Next
  <1> QED BY <1>2, <1>3, TypesHold, FeedsAgree, PTL
          DEF Spec, ImplementsLifecycle, Lifecycle!Spec
=============================================================================
