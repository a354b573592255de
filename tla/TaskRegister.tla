---------------------------- MODULE TaskRegister ----------------------------
(***************************************************************************)
(* What admission promises about the task table, with no word about        *)
(* transactions: an idempotency key is recorded on at most one task, an    *)
(* analysis is started only for a case no started analysis is running for, *)
(* and a retry follows a task that ended badly and has no successor yet.   *)
(* Every definition is over the rows of ai_analysis_task of one tenant and *)
(* permission scope; a Case is a case id at a version.                     *)
(***************************************************************************)

CONSTANTS Task, NoTask, Key, NoKey, Case, NoCase

VARIABLES status,   \* status column, by class; "absent" before the insert
          keyOf,    \* idempotency_key column
          caseOf,   \* case_id and case_version columns
          origin    \* supersedes_task_id column

rows == <<status, keyOf, caseOf, origin>>

\* The statuses are kept by class: CREATED stands for every active status,
\* FAILED for those in RETRYABLE_STATUSES, COMPLETED for the other final ones.
Final == {"COMPLETED", "FAILED"}

Recorded(k)   == {t \in Task : keyOf[t] = k}
Running(c)    == {t \in Task : status[t] = "CREATED" /\ caseOf[t] = c}
Successors(o) == {t \in Task : origin[t] = o}

Init ==
  /\ status = [t \in Task |-> "absent"]
  /\ keyOf  = [t \in Task |-> NoKey]
  /\ caseOf = [t \in Task |-> NoCase]
  /\ origin = [t \in Task |-> NoTask]

Enter(t, k, c, o) ==
  /\ status[t] = "absent"
  /\ Recorded(k) = {}
  /\ status' = [status EXCEPT ![t] = "CREATED"]
  /\ keyOf'  = [keyOf EXCEPT ![t] = k]
  /\ caseOf' = [caseOf EXCEPT ![t] = c]
  /\ origin' = [origin EXCEPT ![t] = o]

Start(t, k, c) ==
  /\ \A s \in Running(c) : origin[s] # NoTask
  /\ Enter(t, k, c, NoTask)

Supersede(t, k, o) ==
  /\ status[o] = "FAILED"
  /\ Successors(o) = {}
  /\ Enter(t, k, caseOf[o], o)

Settle(t) ==
  /\ status[t] = "CREATED"
  /\ \E s \in Final : status' = [status EXCEPT ![t] = s]
  /\ UNCHANGED <<keyOf, caseOf, origin>>

Next ==
  \E t \in Task :
    \/ \E k \in Key : \/ \E c \in Case : Start(t, k, c)
                      \/ \E o \in Task : Supersede(t, k, o)
    \/ Settle(t)

Spec == Init /\ [][Next]_rows
=============================================================================
