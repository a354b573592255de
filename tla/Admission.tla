------------------------------ MODULE Admission ------------------------------
(***************************************************************************)
(* How requests become tasks: TaskService.create_or_resume and             *)
(* TaskService.retry, each a transaction of several statements that other  *)
(* transactions interleave with.  PostgreSQL runs them READ COMMITTED: a   *)
(* statement sees what was committed when it started, so nothing but the   *)
(* advisory locks, the row lock of a retry and the unique key of the table *)
(* relates what one statement read to what a later one writes.             *)
(*                                                                         *)
(* A client is one transaction slot of an API process; a client that lost  *)
(* its answer submits the same request again.  The insert and the commit   *)
(* after it are one step: an uncommitted row is seen by no other           *)
(* statement except an insert of the same key.  One tenant and permission  *)
(* scope; a Case is a case id at a version.                                *)
(***************************************************************************)
EXTENDS Naturals, FiniteSets

CONSTANTS Client, NoClient, Task, NoTask, Key, NoKey, Case, NoCase

ASSUME ClientAssumption == NoClient \notin Client
ASSUME TaskAssumption   == NoTask \notin Task
ASSUME KeyAssumption    == NoKey \notin Key
ASSUME CaseAssumption   == NoCase \notin Case

VARIABLES
  status, keyOf, caseOf, origin,   \* ai_analysis_task (see TaskRegister)
  keyLock, caseLock, rowLock,      \* who holds which lock
  pc, req, answer                  \* each client's statement, request, answer

rows  == <<status, keyOf, caseOf, origin>>
locks == <<keyLock, caseLock, rowLock>>
vars  == <<rows, locks, pc, req, answer>>

-----------------------------------------------------------------------------

Request == [kind : {"analyze"}, key : Key, case : Case, task : {NoTask}]
             \cup [kind : {"retry"}, key : Key, case : {NoCase}, task : Task]
NoRequest == [kind |-> "none", key |-> NoKey, case |-> NoCase, task |-> NoTask]

Statement == {"idle", "lockKey", "replay", "lockCase", "running", "lockTask",
              "successor", "insert"}

\* Mutant: a running task may be retried.
RetryableStatuses_Running == {"FAILED", "CREATED"}

\* Mutant: a task that does not exist may be retried.
RetryableStatuses_Absent == {"FAILED", "absent"}

RetryableStatuses == {"FAILED"}
Final             == {"COMPLETED", "FAILED"}

Recorded(k)   == {t \in Task : keyOf[t] = k}
Running(c)    == {t \in Task : status[t] = "CREATED" /\ caseOf[t] = c}
Successors(o) == {t \in Task : origin[t] = o}

\* create_or_resume answers a repeated key only if it recorded an analysis of
\* the same case; retry, only if it recorded a retry of the same task.
Matches(t, r) ==
  IF r.kind = "analyze"
  THEN caseOf[t] = r.case /\ origin[t] = NoTask
  ELSE origin[t] = r.task

Init ==
  /\ status   = [t \in Task |-> "absent"]
  /\ keyOf    = [t \in Task |-> NoKey]
  /\ caseOf   = [t \in Task |-> NoCase]
  /\ origin   = [t \in Task |-> NoTask]
  /\ keyLock  = [k \in Key |-> NoClient]
  /\ caseLock = [c \in Case |-> NoClient]
  /\ rowLock  = [t \in Task |-> NoClient]
  /\ pc       = [c \in Client |-> "idle"]
  /\ req      = [c \in Client |-> NoRequest]
  /\ answer   = [c \in Client |-> NoTask]

-----------------------------------------------------------------------------
(* One transaction *)

\* Every lock is a transaction lock: commit and rollback release all of them.
Freed(lock, c) == [x \in DOMAIN lock |-> IF lock[x] = c THEN NoClient ELSE lock[x]]

\* Mutant: the case lock is a session lock, which outlives the transaction.
Release_SessionLock(c) ==
  /\ keyLock' = Freed(keyLock, c)
  /\ rowLock' = Freed(rowLock, c)
  /\ UNCHANGED caseLock

Release(c) ==
  /\ keyLock'  = Freed(keyLock, c)
  /\ caseLock' = Freed(caseLock, c)
  /\ rowLock'  = Freed(rowLock, c)

\* The transaction ends; t is the task in the answer, NoTask an error.
Reply(c, t) ==
  /\ pc' = [pc EXCEPT ![c] = "idle"]
  /\ answer' = [answer EXCEPT ![c] = t]
  /\ UNCHANGED req
  /\ Release(c)

Goto(c, statement) ==
  /\ pc' = [pc EXCEPT ![c] = statement]
  /\ UNCHANGED <<req, answer>>

\* Bound: a request is taken only while every open transaction can still
\* draw a task id of its own.
Room == Cardinality({c \in Client : pc[c] # "idle"})
          < Cardinality({t \in Task : status[t] = "absent"})

Submit(c) ==
  /\ pc[c] = "idle"
  /\ Room
  /\ \E r \in Request :
       /\ req' = [req EXCEPT ![c] = r]
       /\ pc' = [pc EXCEPT ![c] = "lockKey"]
       /\ answer' = [answer EXCEPT ![c] = NoTask]
  /\ UNCHANGED <<rows, locks>>

\* Mutant: the requests of one key are not serialised.
LockKey_Unlocked(c) ==
  /\ pc[c] = "lockKey"
  /\ Goto(c, "replay")
  /\ UNCHANGED <<rows, locks>>

LockKey(c) ==
  /\ pc[c] = "lockKey"
  /\ keyLock[req[c].key] = NoClient
  /\ keyLock' = [keyLock EXCEPT ![req[c].key] = c]
  /\ Goto(c, "replay")
  /\ UNCHANGED <<rows, caseLock, rowLock>>

\* Mutant: a repeated key is answered whatever it was recorded for.
FindReplay_Unmatched(c) ==
  /\ pc[c] = "replay"
  /\ \/ \E t \in Recorded(req[c].key) : Reply(c, t)
     \/ /\ Recorded(req[c].key) = {}
        /\ Goto(c, IF req[c].kind = "analyze" THEN "lockCase" ELSE "lockTask")
        /\ UNCHANGED locks
  /\ UNCHANGED rows

FindReplay(c) ==
  /\ pc[c] = "replay"
  /\ \/ \E t \in Recorded(req[c].key) :
          Reply(c, IF Matches(t, req[c]) THEN t ELSE NoTask)
     \/ /\ Recorded(req[c].key) = {}
        /\ Goto(c, IF req[c].kind = "analyze" THEN "lockCase" ELSE "lockTask")
        /\ UNCHANGED locks
  /\ UNCHANGED rows

\* Mutant: the case lock is forgotten.
LockCase_Unlocked(c) ==
  /\ pc[c] = "lockCase"
  /\ Goto(c, "running")
  /\ UNCHANGED <<rows, locks>>

LockCase(c) ==
  /\ pc[c] = "lockCase"
  /\ caseLock[req[c].case] = NoClient
  /\ caseLock' = [caseLock EXCEPT ![req[c].case] = c]
  /\ Goto(c, "running")
  /\ UNCHANGED <<rows, keyLock, rowLock>>

\* Of several running tasks the one with the latest created_at is answered;
\* created_at is a clock reading of the process that made the row, in an
\* order of its own, so any of them may be it.
FindRunning(c) ==
  /\ pc[c] = "running"
  /\ \/ \E t \in Running(req[c].case) : Reply(c, t)
     \/ /\ Running(req[c].case) = {}
        /\ Goto(c, "insert")
        /\ UNCHANGED locks
  /\ UNCHANGED rows

\* Mutant: the original is read without FOR UPDATE.
LockTask_Unlocked(c) ==
  LET o == req[c].task IN
  /\ pc[c] = "lockTask"
  /\ \/ /\ status[o] \in RetryableStatuses
        /\ Goto(c, "successor")
        /\ UNCHANGED locks
     \/ /\ status[o] \notin RetryableStatuses
        /\ Reply(c, NoTask)
  /\ UNCHANGED rows

\* SELECT ... FOR UPDATE of the task to retry, and the check of its status.  A
\* task that is absent (TaskNotFoundError) or not retryable is an error.
LockTask(c) ==
  LET o == req[c].task IN
  /\ pc[c] = "lockTask"
  /\ rowLock[o] = NoClient
  /\ \/ /\ status[o] \in RetryableStatuses
        /\ rowLock' = [rowLock EXCEPT ![o] = c]
        /\ Goto(c, "successor")
        /\ UNCHANGED <<keyLock, caseLock>>
     \/ /\ status[o] \notin RetryableStatuses
        /\ Reply(c, NoTask)
  /\ UNCHANGED rows

FindSuccessor(c) ==
  /\ pc[c] = "successor"
  /\ \/ \E t \in Successors(req[c].task) : Reply(c, t)
     \/ /\ Successors(req[c].task) = {}
        /\ Goto(c, "insert")
        /\ UNCHANGED locks
  /\ UNCHANGED rows

\* INSERT ... ON CONFLICT (the unique key) DO NOTHING, then COMMIT: a key
\* recorded meanwhile is answered with the task that has it.
Insert(c) ==
  LET r == req[c] IN
  /\ pc[c] = "insert"
  /\ IF Recorded(r.key) # {}
     THEN \E t \in Recorded(r.key) : Reply(c, t) /\ UNCHANGED rows
     ELSE \E t \in Task :
            /\ status[t] = "absent"
            /\ status' = [status EXCEPT ![t] = "CREATED"]
            /\ keyOf'  = [keyOf EXCEPT ![t] = r.key]
            /\ caseOf' = [caseOf EXCEPT ![t] =
                            IF r.kind = "analyze" THEN r.case ELSE caseOf[r.task]]
            /\ origin' = [origin EXCEPT ![t] = r.task]
            /\ Reply(c, t)

\* The request is cancelled or its connection is lost: the transaction is
\* rolled back.
Abort(c) ==
  /\ pc[c] # "idle"
  /\ Reply(c, NoTask)
  /\ UNCHANGED rows

\* A worker settles the task or a client cancels it (WorkerLease has the
\* details); both update the row and so wait for a retry that has it locked.
Settle(t) ==
  /\ status[t] = "CREATED"
  /\ rowLock[t] = NoClient
  /\ \E s \in Final : status' = [status EXCEPT ![t] = s]
  /\ UNCHANGED <<keyOf, caseOf, origin, locks, pc, req, answer>>

Advance(c) ==
  \/ LockKey(c)  \/ FindReplay(c)
  \/ LockCase(c) \/ FindRunning(c)
  \/ LockTask(c) \/ FindSuccessor(c)
  \/ Insert(c)

Next ==
  \/ \E c \in Client : Submit(c) \/ Advance(c) \/ Abort(c)
  \/ \E t \in Task : Settle(t)

Spec == Init /\ [][Next]_vars

\* PostgreSQL grants a lock in the order of the queue, so a statement that is
\* granted again and again what it waits for is granted it at last.
FairSpec == Spec /\ \A c \in Client : SF_vars(Advance(c))

-----------------------------------------------------------------------------
(* Properties *)

\* Type invariant; the key and the case of a row are NOT NULL columns.
TypeOK ==
  /\ status \in [Task -> {"absent", "CREATED"} \cup Final]
  /\ keyOf \in [Task -> Key \cup {NoKey}]
  /\ caseOf \in [Task -> Case \cup {NoCase}]
  /\ origin \in [Task -> Task \cup {NoTask}]
  /\ keyLock \in [Key -> Client \cup {NoClient}]
  /\ caseLock \in [Case -> Client \cup {NoClient}]
  /\ rowLock \in [Task -> Client \cup {NoClient}]
  /\ pc \in [Client -> Statement]
  /\ req \in [Client -> Request \cup {NoRequest}]
  /\ answer \in [Client -> Task \cup {NoTask}]
  /\ \A t \in Task :
       status[t] # "absent" => keyOf[t] \in Key /\ caseOf[t] \in Case

\* Whatever requests race, a case at a version never has two running tasks that
\* both came from a request to analyse it: the second request is answered with
\* the first one's task (retries do not keep this promise, see below).
OneStartPerCase ==
  \A s, t \in Task :
    /\ {status[s], status[t]} = {"CREATED"}
    /\ caseOf[s] = caseOf[t]
    /\ origin[s] = NoTask
    /\ origin[t] = NoTask
    => s = t

\* However often and from wherever a task is retried, one task supersedes it.
OneSuccessor ==
  \A s, t \in Task : origin[s] = origin[t] /\ origin[s] # NoTask => s = t

\* An accepted answer is about what was asked: a task of the requested case, or
\* the successor of the requested task.  The task was found or made by one of
\* four statements, only one of which checks that it fits.
AnswerFitsRequest ==
  \A c \in Client :
    answer[c] # NoTask =>
      IF req[c].kind = "analyze" THEN caseOf[answer[c]] = req[c].case
                                 ELSE origin[answer[c]] = req[c].task

\* d holds the lock that c's statement asks for.
Blocks(d, c) ==
  \/ pc[c] = "lockKey"  /\ keyLock[req[c].key] = d
  \/ pc[c] = "lockCase" /\ caseLock[req[c].case] = d
  \/ pc[c] = "lockTask" /\ rowLock[req[c].task] = d

\* The locks are asked for in an order that never crosses: whoever holds one is
\* in a transaction, and of any transactions some one waits for none of the
\* others, so PostgreSQL never finds a deadlock to break.
NoDeadlock ==
  /\ \A c, d \in Client : Blocks(d, c) => pc[d] # "idle"
  /\ \A S \in SUBSET Client :
       S # {} => \E c \in S : \A d \in S : ~ Blocks(d, c)

\* Once a task has recorded a key, no request with that key is accepted with
\* another task, however early the request looked the key up.
RecordedKeyIsFinal ==
  [][\A c \in Client :
       pc[c] # "idle" /\ pc'[c] = "idle" /\ answer'[c] # NoTask =>
         Recorded(req[c].key) \subseteq {answer'[c]}]_vars

\* The interleaved transactions amount to atomic ones: every step is a step of
\* TaskRegister or leaves the table alone.
Register == INSTANCE TaskRegister
ImplementsRegister == Register!Spec

\* No order of lock requests leaves a request waiting for ever.
EveryRequestIsAnswered ==
  \A c \in Client : pc[c] # "idle" ~> pc[c] = "idle"
=============================================================================
