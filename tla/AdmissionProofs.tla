--------------------------- MODULE AdmissionProofs ---------------------------
(***************************************************************************)
(* Proofs about Admission.  What a transaction has read stays true until   *)
(* it writes (Informed), because it holds the locks under which it read    *)
(* (Secured); with that its insert is an atomic step of TaskRegister.  The *)
(* holder of a lock is past the statements that wait for it (Placing), so  *)
(* transactions never wait in a circle.                                    *)
(***************************************************************************)
EXTENDS Admission, TLAPS

Keyed  == {"replay", "lockCase", "running", "lockTask", "successor", "insert"}
Looked == Keyed \ {"replay"}

\* A transaction is at the statements of its own kind of request.
Placed(c) ==
  pc[c] # "idle" =>
    /\ req[c] \in Request
    /\ pc[c] \in {"lockCase", "running"} => req[c].kind = "analyze"
    /\ pc[c] \in {"lockTask", "successor"} => req[c].kind = "retry"

\* The locks it has by now.
Secured(c) ==
  /\ pc[c] \in Keyed => keyLock[req[c].key] = c
  /\ pc[c] \in {"running", "insert"} /\ req[c].kind = "analyze" =>
       caseLock[req[c].case] = c
  /\ pc[c] \in {"successor", "insert"} /\ req[c].kind = "retry" =>
       rowLock[req[c].task] = c

\* What it has read and still relies on.
Informed(c) ==
  /\ pc[c] \in Looked => \A s \in Task : keyOf[s] # req[c].key
  /\ pc[c] = "insert" /\ req[c].kind = "analyze" =>
       \A s \in Task :
         status[s] = "CREATED" /\ caseOf[s] = req[c].case => origin[s] # NoTask
  /\ pc[c] \in {"successor", "insert"} /\ req[c].kind = "retry" =>
       status[req[c].task] = "FAILED"
  /\ pc[c] = "insert" /\ req[c].kind = "retry" =>
       \A s \in Task : origin[s] # req[c].task

\* A slot no row has been written to is blank.
Blank == \A t \in Task : status[t] = "absent" => keyOf[t] = NoKey /\ origin[t] = NoTask

\* A key is recorded on one row: the unique key of the table.
OneTaskPerKey ==
  \A s, t \in Task : keyOf[s] = keyOf[t] /\ keyOf[s] # NoKey => s = t

IInv ==
  /\ TypeOK
  /\ \A c \in Client : Placed(c) /\ Secured(c) /\ Informed(c)
  /\ Blank
  /\ OneTaskPerKey
  /\ OneStartPerCase
  /\ OneSuccessor

-----------------------------------------------------------------------------

\* The fields of a request have the types its kind says.
LEMMA RequestFields ==
  ASSUME NEW r \in Request
  PROVE  /\ r.kind \in {"analyze", "retry"}
         /\ r.key \in Key
         /\ r.kind = "analyze" => r.case \in Case /\ r.task = NoTask
         /\ r.kind = "retry" => r.task \in Task /\ r.case = NoCase
BY DEF Request

\* The end of a transaction: its client is idle and has its answer, nothing
\* changed for another client, and another client's locks are kept.
LEMMA ReplyFacts ==
  ASSUME TypeOK, NEW c \in Client, NEW t \in Task \cup {NoTask}, Reply(c, t)
  PROVE  /\ pc' \in [Client -> Statement]
         /\ req' = req
         /\ answer' \in [Client -> Task \cup {NoTask}]
         /\ keyLock' \in [Key -> Client \cup {NoClient}]
         /\ caseLock' \in [Case -> Client \cup {NoClient}]
         /\ rowLock' \in [Task -> Client \cup {NoClient}]
         /\ pc'[c] = "idle"
         /\ answer'[c] = t
         /\ \A d \in Client : d # c => pc'[d] = pc[d] /\ answer'[d] = answer[d]
         /\ \A d \in Client : d # c =>
              /\ \A k \in Key : keyLock[k] = d => keyLock'[k] = d
              /\ \A x \in Case : caseLock[x] = d => caseLock'[x] = d
              /\ \A s \in Task : rowLock[s] = d => rowLock'[s] = d
<1>1. /\ pc' = [pc EXCEPT ![c] = "idle"]
      /\ answer' = [answer EXCEPT ![c] = t]
      /\ req' = req
  BY DEF Reply
<1>2. /\ keyLock'  = [k \in Key |-> IF keyLock[k] = c THEN NoClient ELSE keyLock[k]]
      /\ caseLock' = [k \in Case |-> IF caseLock[k] = c THEN NoClient ELSE caseLock[k]]
      /\ rowLock'  = [k \in Task |-> IF rowLock[k] = c THEN NoClient ELSE rowLock[k]]
  BY DEF Reply, Release, Freed, TypeOK
<1>3. /\ pc \in [Client -> Statement] /\ "idle" \in Statement
      /\ answer \in [Client -> Task \cup {NoTask}]
      /\ keyLock \in [Key -> Client \cup {NoClient}]
      /\ caseLock \in [Case -> Client \cup {NoClient}]
      /\ rowLock \in [Task -> Client \cup {NoClient}]
  BY DEF TypeOK, Statement
<1>4. /\ pc' \in [Client -> Statement]
      /\ answer' \in [Client -> Task \cup {NoTask}]
      /\ pc'[c] = "idle"
      /\ answer'[c] = t
      /\ \A d \in Client : d # c => pc'[d] = pc[d] /\ answer'[d] = answer[d]
  BY <1>1, <1>3
<1>5. /\ keyLock' \in [Key -> Client \cup {NoClient}]
      /\ caseLock' \in [Case -> Client \cup {NoClient}]
      /\ rowLock' \in [Task -> Client \cup {NoClient}]
  BY <1>2, <1>3
<1>6. \A d \in Client : d # c =>
        /\ \A k \in Key : keyLock[k] = d => keyLock'[k] = d
        /\ \A x \in Case : caseLock[x] = d => caseLock'[x] = d
        /\ \A s \in Task : rowLock[s] = d => rowLock'[s] = d
  BY <1>2
<1> QED BY <1>1, <1>4, <1>5, <1>6

\* A transaction that ends without a write keeps the invariant.
LEMMA ReplyStep ==
  ASSUME IInv, NEW c \in Client, NEW t \in Task \cup {NoTask}, Reply(c, t),
         UNCHANGED rows
  PROVE  IInv'
<1> USE DEF IInv
<1>1. /\ status' = status /\ keyOf' = keyOf /\ caseOf' = caseOf /\ origin' = origin
  BY DEF rows
<1>2. TypeOK'
  BY <1>1, ReplyFacts DEF TypeOK
<1>3. Blank' /\ OneTaskPerKey' /\ OneStartPerCase' /\ OneSuccessor'
  BY <1>1 DEF Blank, OneTaskPerKey, OneStartPerCase, OneSuccessor
<1>4. ASSUME NEW d \in Client
      PROVE  (Placed(d) /\ Secured(d) /\ Informed(d))'
  <2>1. CASE d = c
    BY <2>1, ReplyFacts DEF Placed, Secured, Informed, Keyed, Looked
  <2>2. CASE d # c
    <3>1. pc'[d] = pc[d] /\ req'[d] = req[d]
      BY <2>2, ReplyFacts
    <3>2. Placed(d)' /\ Informed(d)'
      BY <1>1, <3>1 DEF Placed, Informed
    <3>3. pc[d] \in Keyed => req[d] \in Request
      BY DEF Placed, Keyed
    <3>4. Secured(d)'
      BY <2>2, <3>1, <3>3, ReplyFacts, RequestFields DEF Secured, Keyed
    <3> QED BY <3>2, <3>4
  <2> QED BY <2>1, <2>2
<1> QED BY <1>2, <1>3, <1>4

\* A step to the next statement of the same transaction, which may take a lock
\* that was free, keeps the invariant if the client it concerns is still well
\* placed, secured and informed.
LEMMA GotoStep ==
  ASSUME IInv, NEW c \in Client, NEW s \in Statement, Goto(c, s), UNCHANGED rows,
         keyLock' \in [Key -> Client \cup {NoClient}],
         caseLock' \in [Case -> Client \cup {NoClient}],
         rowLock' \in [Task -> Client \cup {NoClient}],
         \A d \in Client : d # c =>
           /\ \A k \in Key : keyLock[k] = d => keyLock'[k] = d
           /\ \A x \in Case : caseLock[x] = d => caseLock'[x] = d
           /\ \A u \in Task : rowLock[u] = d => rowLock'[u] = d,
         Placed(c)', Secured(c)', Informed(c)'
  PROVE  IInv'
<1> USE DEF IInv
<1>1. /\ status' = status /\ keyOf' = keyOf /\ caseOf' = caseOf /\ origin' = origin
  BY DEF rows
<1>2. /\ pc' = [pc EXCEPT ![c] = s] /\ req' = req /\ answer' = answer
      /\ pc \in [Client -> Statement]
  BY DEF Goto, TypeOK
<1>3. TypeOK'
  BY <1>1, <1>2 DEF TypeOK
<1>4. Blank' /\ OneTaskPerKey' /\ OneStartPerCase' /\ OneSuccessor'
  BY <1>1 DEF Blank, OneTaskPerKey, OneStartPerCase, OneSuccessor
<1>5. ASSUME NEW d \in Client, d # c
      PROVE  (Placed(d) /\ Secured(d) /\ Informed(d))'
  <2>1. pc'[d] = pc[d] /\ req'[d] = req[d]
    BY <1>2, <1>5
  <2>2. Placed(d)' /\ Informed(d)'
    BY <1>1, <2>1 DEF Placed, Informed
  <2>3. pc[d] \in Keyed => req[d] \in Request
    BY DEF Placed, Keyed
  <2>4. Secured(d)'
    BY <1>5, <2>1, <2>3, RequestFields DEF Secured, Keyed
  <2> QED BY <2>2, <2>4
<1> QED BY <1>3, <1>4, <1>5

-----------------------------------------------------------------------------
(* Every step keeps the invariant *)

\* A new request holds no lock and has read nothing.
LEMMA SubmitStep ==
  ASSUME IInv, NEW c \in Client, Submit(c)
  PROVE  IInv'
<1> USE DEF IInv
<1>1. PICK r \in Request : /\ req' = [req EXCEPT ![c] = r]
                           /\ pc' = [pc EXCEPT ![c] = "lockKey"]
                           /\ answer' = [answer EXCEPT ![c] = NoTask]
  BY DEF Submit
<1>2. /\ status' = status /\ keyOf' = keyOf /\ caseOf' = caseOf /\ origin' = origin
      /\ keyLock' = keyLock /\ caseLock' = caseLock /\ rowLock' = rowLock
  BY DEF Submit, rows, locks
<1>3. TypeOK'
  BY <1>1, <1>2 DEF TypeOK, Statement
<1>4. Blank' /\ OneTaskPerKey' /\ OneStartPerCase' /\ OneSuccessor'
  BY <1>2 DEF Blank, OneTaskPerKey, OneStartPerCase, OneSuccessor
<1>5. ASSUME NEW d \in Client
      PROVE  (Placed(d) /\ Secured(d) /\ Informed(d))'
  <2>1. CASE d = c
    <3>1. pc'[c] = "lockKey" /\ req'[c] = r
      BY <1>1 DEF TypeOK
    <3> QED BY <2>1, <3>1 DEF Placed, Secured, Informed, Keyed, Looked
  <2>2. CASE d # c
    <3>1. pc'[d] = pc[d] /\ req'[d] = req[d]
      BY <1>1, <2>2 DEF TypeOK
    <3> QED BY <1>2, <3>1 DEF Placed, Secured, Informed
  <2> QED BY <2>1, <2>2
<1> QED BY <1>3, <1>4, <1>5

\* The three statements that take a lock.
LEMMA LockSteps ==
  ASSUME IInv, NEW c \in Client, LockKey(c) \/ LockCase(c) \/ LockTask(c)
  PROVE  IInv'
<1> USE DEF IInv
<1>0. TypeOK /\ pc[c] # "idle" /\ req[c] \in Request
  BY DEF LockKey, LockCase, LockTask, Placed
<1>t. NoClient \notin Client
  BY ClientAssumption
<1>1. CASE LockKey(c)
  <2>1. /\ pc[c] = "lockKey"
        /\ keyLock[req[c].key] = NoClient
        /\ keyLock' = [keyLock EXCEPT ![req[c].key] = c]
        /\ caseLock' = caseLock /\ rowLock' = rowLock
        /\ Goto(c, "replay") /\ UNCHANGED rows
    BY <1>1 DEF LockKey
  <2>2. req[c].key \in Key
    BY <1>0, RequestFields
  <2>3. pc'[c] = "replay" /\ req'[c] = req[c] /\ keyLock'[req[c].key] = c
    BY <2>1, <2>2 DEF Goto, TypeOK
  <2>4. Placed(c)' /\ Secured(c)' /\ Informed(c)'
    BY <1>0, <2>3 DEF Placed, Secured, Informed, Looked
  <2>5. /\ keyLock' \in [Key -> Client \cup {NoClient}]
        /\ \A d \in Client : d # c => \A k \in Key : keyLock[k] = d => keyLock'[k] = d
    BY <1>t, <2>1, <2>2 DEF TypeOK
  <2>6. /\ caseLock' \in [Case -> Client \cup {NoClient}]
        /\ rowLock' \in [Task -> Client \cup {NoClient}]
    BY <2>1 DEF TypeOK
  <2>7. "replay" \in Statement
    BY DEF Statement
  <2> QED BY <2>1, <2>4, <2>5, <2>6, <2>7, GotoStep
<1>2. CASE LockCase(c)
  <2>1. /\ pc[c] = "lockCase"
        /\ caseLock[req[c].case] = NoClient
        /\ caseLock' = [caseLock EXCEPT ![req[c].case] = c]
        /\ keyLock' = keyLock /\ rowLock' = rowLock
        /\ Goto(c, "running") /\ UNCHANGED rows
    BY <1>2 DEF LockCase
  <2>2. req[c].kind = "analyze" /\ req[c].case \in Case
    BY <1>0, <2>1, RequestFields DEF Placed
  <2>3. pc'[c] = "running" /\ req'[c] = req[c] /\ caseLock'[req[c].case] = c
    BY <2>1, <2>2 DEF Goto, TypeOK
  <2>4. Placed(c)' /\ Secured(c)' /\ Informed(c)'
    BY <1>0, <2>1, <2>2, <2>3 DEF Placed, Secured, Informed, Keyed, Looked, rows
  <2>5. /\ caseLock' \in [Case -> Client \cup {NoClient}]
        /\ \A d \in Client : d # c => \A x \in Case : caseLock[x] = d => caseLock'[x] = d
    BY <1>t, <2>1, <2>2 DEF TypeOK
  <2>6. /\ keyLock' \in [Key -> Client \cup {NoClient}]
        /\ rowLock' \in [Task -> Client \cup {NoClient}]
    BY <2>1 DEF TypeOK
  <2>7. "running" \in Statement
    BY DEF Statement
  <2> QED BY <2>1, <2>4, <2>5, <2>6, <2>7, GotoStep
<1>3. CASE LockTask(c)
  <2>1. pc[c] = "lockTask" /\ rowLock[req[c].task] = NoClient /\ UNCHANGED rows
    BY <1>3 DEF LockTask
  <2>2. req[c].kind = "retry" /\ req[c].task \in Task
    BY <1>0, <2>1, RequestFields DEF Placed
  <2>3. CASE /\ status[req[c].task] \in RetryableStatuses
             /\ rowLock' = [rowLock EXCEPT ![req[c].task] = c]
             /\ Goto(c, "successor")
             /\ UNCHANGED <<keyLock, caseLock>>
    <3>1. /\ pc'[c] = "successor" /\ req'[c] = req[c] /\ rowLock'[req[c].task] = c
          /\ keyLock' = keyLock /\ caseLock' = caseLock
      BY <2>2, <2>3 DEF Goto, TypeOK
    <3>2. status[req[c].task] = "FAILED"
      BY <2>3 DEF RetryableStatuses
    <3>3. Placed(c)' /\ Secured(c)' /\ Informed(c)'
      BY <1>0, <2>1, <2>2, <3>1, <3>2
      DEF Placed, Secured, Informed, Keyed, Looked, rows
    <3>4. /\ rowLock' \in [Task -> Client \cup {NoClient}]
          /\ \A d \in Client : d # c => \A s \in Task : rowLock[s] = d => rowLock'[s] = d
      BY <1>t, <2>1, <2>2, <2>3 DEF TypeOK
    <3>5. /\ keyLock' \in [Key -> Client \cup {NoClient}]
          /\ caseLock' \in [Case -> Client \cup {NoClient}]
      BY <3>1 DEF TypeOK
    <3>6. "successor" \in Statement
      BY DEF Statement
    <3> QED BY <2>1, <2>3, <3>1, <3>3, <3>4, <3>5, <3>6, GotoStep
  <2>4. CASE Reply(c, NoTask)
    BY <2>1, <2>4, ReplyStep
  <2> QED BY <1>3, <2>3, <2>4 DEF LockTask
<1> QED BY <1>1, <1>2, <1>3

\* The three statements that only read.
LEMMA FindSteps ==
  ASSUME IInv, NEW c \in Client, FindReplay(c) \/ FindRunning(c) \/ FindSuccessor(c)
  PROVE  IInv'
<1> USE DEF IInv
<1>0. TypeOK /\ pc[c] # "idle" /\ req[c] \in Request /\ UNCHANGED rows
  BY DEF FindReplay, FindRunning, FindSuccessor, Placed
<1>1. CASE \E t \in Task \cup {NoTask} : Reply(c, t)
  BY <1>0, <1>1, ReplyStep
<1> DEFINE next == IF pc[c] # "replay" THEN "insert"
                   ELSE IF req[c].kind = "analyze" THEN "lockCase" ELSE "lockTask"
<1>2. ASSUME Goto(c, next), UNCHANGED locks,
             pc[c] = "replay" => Recorded(req[c].key) = {},
             pc[c] = "running" => Running(req[c].case) = {},
             pc[c] = "successor" => Successors(req[c].task) = {},
             pc[c] \in {"replay", "running", "successor"}
      PROVE  IInv'
  <2>1. pc'[c] = next /\ req'[c] = req[c]
    BY <1>2 DEF Goto, TypeOK
  <2>2. /\ keyLock' = keyLock /\ caseLock' = caseLock /\ rowLock' = rowLock
        /\ status' = status /\ keyOf' = keyOf /\ caseOf' = caseOf /\ origin' = origin
    BY <1>0, <1>2 DEF locks, rows
  <2>3. req[c].kind \in {"analyze", "retry"}
    BY <1>0, RequestFields
  <2>4. Placed(c) /\ Secured(c) /\ Informed(c)
    OBVIOUS
  <2>5. Placed(c)'
    BY <1>0, <1>2, <2>1, <2>3 DEF Placed
  <2>6. Secured(c)'
    BY <1>2, <2>1, <2>2, <2>3, <2>4 DEF Secured, Placed, Keyed
  <2>7. Informed(c)'
    BY <1>2, <2>1, <2>2, <2>3, <2>4
    DEF Informed, Placed, Looked, Keyed, Recorded, Running, Successors
  <2>8. next \in Statement
    BY DEF Statement
  <2>9. /\ keyLock' \in [Key -> Client \cup {NoClient}]
        /\ caseLock' \in [Case -> Client \cup {NoClient}]
        /\ rowLock' \in [Task -> Client \cup {NoClient}]
    BY <2>2 DEF TypeOK
  <2> QED BY <1>0, <1>2, <2>2, <2>5, <2>6, <2>7, <2>8, <2>9, GotoStep
<1>3. CASE FindReplay(c)
  BY <1>1, <1>2, <1>3 DEF FindReplay, Recorded
<1>4. CASE FindRunning(c)
  BY <1>1, <1>2, <1>4 DEF FindRunning, Running
<1>5. CASE FindSuccessor(c)
  BY <1>1, <1>2, <1>5 DEF FindSuccessor, Successors
<1> QED BY <1>3, <1>4, <1>5

\* The key was not recorded when it was looked up and nobody recorded it since,
\* so the insert never meets a conflict.
LEMMA InsertFacts ==
  ASSUME IInv, NEW c \in Client, Insert(c)
  PROVE  \E t \in Task :
           /\ Reply(c, t)
           /\ status[t] = "absent"
           /\ status' = [status EXCEPT ![t] = "CREATED"]
           /\ keyOf'  = [keyOf EXCEPT ![t] = req[c].key]
           /\ caseOf' = [caseOf EXCEPT ![t] =
                 IF req[c].kind = "analyze" THEN req[c].case ELSE caseOf[req[c].task]]
           /\ origin' = [origin EXCEPT ![t] = req[c].task]
<1>1. Recorded(req[c].key) = {}
  BY DEF IInv, Insert, Informed, Keyed, Looked, Recorded
<1> QED BY <1>1 DEF Insert

\* The row of an insert is new, so it disturbs what another transaction has
\* read only if it shares a key, a case or an original with it, and then the
\* other one has not got the lock.
LEMMA InsertStep ==
  ASSUME IInv, NEW c \in Client, Insert(c)
  PROVE  IInv'
<1> USE DEF IInv
<1> DEFINE r == req[c]
<1>1. PICK t \in Task :
        /\ Reply(c, t)
        /\ status[t] = "absent"
        /\ status' = [status EXCEPT ![t] = "CREATED"]
        /\ keyOf'  = [keyOf EXCEPT ![t] = r.key]
        /\ caseOf' = [caseOf EXCEPT ![t] =
              IF r.kind = "analyze" THEN r.case ELSE caseOf[r.task]]
        /\ origin' = [origin EXCEPT ![t] = r.task]
  BY InsertFacts
<1>2. /\ pc[c] = "insert"
      /\ r \in Request
      /\ r.kind \in {"analyze", "retry"}
      /\ r.key \in Key
      /\ r.kind = "analyze" => r.case \in Case /\ r.task = NoTask
      /\ r.kind = "retry" => r.task \in Task
  BY RequestFields DEF Insert, Placed
<1>3. /\ status \in [Task -> {"absent", "CREATED"} \cup Final]
      /\ keyOf \in [Task -> Key \cup {NoKey}]
      /\ caseOf \in [Task -> Case \cup {NoCase}]
      /\ origin \in [Task -> Task \cup {NoTask}]
      /\ \A s \in Task : status[s] # "absent" => keyOf[s] \in Key /\ caseOf[s] \in Case
  BY DEF TypeOK
<1>4. /\ status'[t] = "CREATED"
      /\ keyOf'[t] = r.key
      /\ caseOf'[t] = IF r.kind = "analyze" THEN r.case ELSE caseOf[r.task]
      /\ origin'[t] = r.task
      /\ \A s \in Task : s # t =>
           /\ status'[s] = status[s]
           /\ keyOf'[s] = keyOf[s]
           /\ caseOf'[s] = caseOf[s]
           /\ origin'[s] = origin[s]
  BY <1>1, <1>3
<1>5. /\ \A s \in Task : keyOf[s] # r.key
      /\ r.kind = "analyze" =>
           /\ caseLock[r.case] = c
           /\ \A s \in Task :
                status[s] = "CREATED" /\ caseOf[s] = r.case => origin[s] # NoTask
      /\ r.kind = "retry" =>
           /\ rowLock[r.task] = c
           /\ status[r.task] = "FAILED"
           /\ \A s \in Task : origin[s] # r.task
      /\ keyLock[r.key] = c
  BY <1>2 DEF Secured, Informed, Keyed, Looked
<1>6. TypeOK'
  <2>1. caseOf'[t] \in Case
    BY <1>2, <1>3, <1>4, <1>5
  <2>2. /\ status' \in [Task -> {"absent", "CREATED"} \cup Final]
        /\ keyOf' \in [Task -> Key \cup {NoKey}]
        /\ origin' \in [Task -> Task \cup {NoTask}]
    BY <1>1, <1>2, <1>3
  <2>3. caseOf' \in [Task -> Case \cup {NoCase}]
    BY <1>1, <1>3, <1>4, <2>1
  <2>4. \A s \in Task : status'[s] # "absent" => keyOf'[s] \in Key /\ caseOf'[s] \in Case
    BY <1>2, <1>3, <1>4, <2>1
  <2> QED BY <1>1, <2>2, <2>3, <2>4, ReplyFacts DEF TypeOK
<1>7. Blank' /\ OneTaskPerKey'
  BY <1>4, <1>5 DEF Blank, OneTaskPerKey
<1>8. OneStartPerCase'
  BY <1>2, <1>4, <1>5, TaskAssumption DEF OneStartPerCase
<1>9. OneSuccessor'
  BY <1>2, <1>4, <1>5 DEF OneSuccessor
<1>10. ASSUME NEW d \in Client
       PROVE  (Placed(d) /\ Secured(d) /\ Informed(d))'
  <2>1. CASE d = c
    BY <1>1, <2>1, ReplyFacts DEF Placed, Secured, Informed, Keyed, Looked
  <2>2. CASE d # c
    <3>1. pc'[d] = pc[d] /\ req'[d] = req[d]
      BY <1>1, <2>2, ReplyFacts
    <3>2. Placed(d)'
      BY <3>1 DEF Placed
    <3>3. pc[d] \in Keyed => req[d] \in Request
      BY DEF Placed, Keyed
    <3>4. Secured(d)'
      BY <1>1, <2>2, <3>1, <3>3, ReplyFacts, RequestFields DEF Secured, Keyed
    <3>5. Secured(d) /\ Informed(d)
      OBVIOUS
    <3>6. pc[d] \in Looked => \A s \in Task : keyOf'[s] # req[d].key
      <4>1. SUFFICES ASSUME pc[d] \in Looked PROVE req[d].key # r.key
        BY <1>4, <3>5 DEF Informed
      <4>2. keyLock[req[d].key] = d
        BY <3>5, <4>1 DEF Secured, Looked
      <4> QED BY <1>5, <2>2, <4>2
    <3>7. pc[d] = "insert" /\ req[d].kind = "analyze" =>
            \A s \in Task :
              status'[s] = "CREATED" /\ caseOf'[s] = req[d].case => origin'[s] # NoTask
      <4>1. SUFFICES ASSUME pc[d] = "insert", req[d].kind = "analyze",
                            r.kind = "analyze"
                     PROVE  req[d].case # r.case
        BY <1>2, <1>4, <3>5, TaskAssumption DEF Informed
      <4>2. caseLock[req[d].case] = d
        BY <3>5, <4>1 DEF Secured
      <4> QED BY <1>5, <2>2, <4>1, <4>2
    <3>8. pc[d] \in {"successor", "insert"} /\ req[d].kind = "retry" =>
            status'[req[d].task] = "FAILED"
      BY <1>1, <1>3, <3>5 DEF Informed
    <3>9. pc[d] = "insert" /\ req[d].kind = "retry" =>
            \A s \in Task : origin'[s] # req[d].task
      <4>1. SUFFICES ASSUME pc[d] = "insert", req[d].kind = "retry"
                     PROVE  req[d].task # r.task
        BY <1>4, <3>5 DEF Informed
      <4>2. rowLock[req[d].task] = d /\ req[d].task \in Task
        BY <3>3, <3>5, <4>1, RequestFields DEF Secured, Keyed
      <4> QED BY <1>2, <1>5, <2>2, <4>2, TaskAssumption
    <3>10. Informed(d)'
      BY <3>1, <3>6, <3>7, <3>8, <3>9 DEF Informed
    <3> QED BY <3>2, <3>4, <3>10
  <2> QED BY <2>1, <2>2
<1> QED BY <1>6, <1>7, <1>8, <1>9, <1>10

\* A task that settles stops running, and only a running task settles: what a
\* transaction has read of it stays true.
LEMMA SettleStep ==
  ASSUME IInv, NEW t \in Task, Settle(t)
  PROVE  IInv'
<1> USE DEF IInv
<1>1. PICK s \in Final : /\ status' = [status EXCEPT ![t] = s]
                         /\ status[t] = "CREATED"
  BY DEF Settle
<1>2. /\ keyOf' = keyOf /\ caseOf' = caseOf /\ origin' = origin
      /\ keyLock' = keyLock /\ caseLock' = caseLock /\ rowLock' = rowLock
      /\ pc' = pc /\ req' = req /\ answer' = answer
  BY DEF Settle, locks
<1>3. /\ status' \in [Task -> {"absent", "CREATED"} \cup Final]
      /\ \A u \in Task : status'[u] = IF u = t THEN s ELSE status[u]
      /\ s # "CREATED" /\ s # "absent"
  BY <1>1 DEF TypeOK, Final
<1>4. TypeOK'
  BY <1>1, <1>2, <1>3 DEF TypeOK
<1>5. Blank' /\ OneTaskPerKey' /\ OneStartPerCase' /\ OneSuccessor'
  BY <1>1, <1>2, <1>3 DEF Blank, OneTaskPerKey, OneStartPerCase, OneSuccessor
<1>6. ASSUME NEW d \in Client
      PROVE  (Placed(d) /\ Secured(d) /\ Informed(d))'
  <2>1. Placed(d)' /\ Secured(d)'
    BY <1>2 DEF Placed, Secured
  <2>2. pc[d] \in {"successor", "insert"} /\ req[d].kind = "retry" => req[d].task \in Task
    BY RequestFields DEF Placed
  <2>3. Informed(d)'
    BY <1>1, <1>2, <1>3, <2>2 DEF Informed
  <2> QED BY <2>1, <2>3
<1> QED BY <1>4, <1>5, <1>6

\* The empty table satisfies the invariant.
LEMMA InitIInv == Init => IInv
<1> SUFFICES ASSUME Init PROVE IInv
  OBVIOUS
<1>1. TypeOK
  BY DEF Init, TypeOK, Statement
<1>2. Blank /\ OneTaskPerKey /\ OneStartPerCase /\ OneSuccessor
  BY DEF Init, Blank, OneTaskPerKey, OneStartPerCase, OneSuccessor
<1>3. \A c \in Client : Placed(c) /\ Secured(c) /\ Informed(c)
  BY DEF Init, Placed, Secured, Informed, Keyed, Looked
<1> QED BY <1>1, <1>2, <1>3 DEF IInv

\* Every step keeps the invariant.
LEMMA NextIInv == IInv /\ [Next]_vars => IInv'
<1> SUFFICES ASSUME IInv, [Next]_vars PROVE IInv'
  OBVIOUS
<1>1. ASSUME NEW c \in Client, Submit(c) PROVE IInv'
  BY <1>1, SubmitStep
<1>2. ASSUME NEW c \in Client, Advance(c) PROVE IInv'
  BY <1>2, LockSteps, FindSteps, InsertStep DEF Advance
<1>3. ASSUME NEW c \in Client, Abort(c) PROVE IInv'
  BY <1>3, ReplyStep DEF Abort
<1>4. ASSUME NEW t \in Task, Settle(t) PROVE IInv'
  BY <1>4, SettleStep
<1>5. CASE UNCHANGED vars
  <2>1. /\ status' = status /\ keyOf' = keyOf /\ caseOf' = caseOf /\ origin' = origin
        /\ keyLock' = keyLock /\ caseLock' = caseLock /\ rowLock' = rowLock
        /\ pc' = pc /\ req' = req /\ answer' = answer
    BY <1>5 DEF vars, rows, locks
  <2>2. TypeOK'
    BY <2>1 DEF IInv, TypeOK
  <2>3. Blank' /\ OneTaskPerKey' /\ OneStartPerCase' /\ OneSuccessor'
    BY <2>1 DEF IInv, Blank, OneTaskPerKey, OneStartPerCase, OneSuccessor
  <2>4. ASSUME NEW c \in Client PROVE (Placed(c) /\ Secured(c) /\ Informed(c))'
    BY <2>1 DEF IInv, Placed, Secured, Informed
  <2> QED BY <2>2, <2>3, <2>4 DEF IInv
<1> QED BY <1>1, <1>2, <1>3, <1>4, <1>5 DEF Next

-----------------------------------------------------------------------------
(* Theorems *)

\* The transactions of create_or_resume and retry keep what they rely on.
THEOREM TransactionsIsolated == Spec => []IInv
BY InitIInv, NextIInv, PTL DEF Spec

\* The columns of a row, and the locals of a request, have their types.
THEOREM TypeCorrect == Spec => []TypeOK
<1>1. IInv => TypeOK
  BY DEF IInv
<1> QED BY <1>1, TransactionsIsolated, PTL

\* Two running tasks of one case were not both made by create_or_resume.
THEOREM StartsDeduplicated == Spec => []OneStartPerCase
<1>1. IInv => OneStartPerCase
  BY DEF IInv
<1> QED BY <1>1, TransactionsIsolated, PTL

\* Racing retries of one task make one successor.
THEOREM RetriesDeduplicated == Spec => []OneSuccessor
<1>1. IInv => OneSuccessor
  BY DEF IInv
<1> QED BY <1>1, TransactionsIsolated, PTL

\* Every step of the interleaved transactions is an atomic step of
\* TaskRegister or leaves the table alone.
THEOREM Refinement == Spec => ImplementsRegister
<1> USE DEF Register!rows, rows
<1>1. Init => Register!Init
  BY DEF Init, Register!Init
<1>2. IInv /\ [Next]_vars => [Register!Next]_(Register!rows)
  <2> SUFFICES ASSUME IInv, [Next]_vars
               PROVE  Register!Next \/ UNCHANGED rows
    BY DEF Register!rows, rows
  <2>1. ASSUME NEW c \in Client, Submit(c) \/ Abort(c) PROVE UNCHANGED rows
    BY <2>1 DEF Submit, Abort
  <2>2. ASSUME NEW c \in Client, Advance(c), ~Insert(c) PROVE UNCHANGED rows
    BY <2>2 DEF Advance, LockKey, FindReplay, LockCase, FindRunning, LockTask,
                FindSuccessor
  <2>3. ASSUME NEW c \in Client, Insert(c) PROVE Register!Next
    <3>1. PICK t \in Task :
            /\ status[t] = "absent"
            /\ status' = [status EXCEPT ![t] = "CREATED"]
            /\ keyOf'  = [keyOf EXCEPT ![t] = req[c].key]
            /\ caseOf' = [caseOf EXCEPT ![t] =
                 IF req[c].kind = "analyze" THEN req[c].case ELSE caseOf[req[c].task]]
            /\ origin' = [origin EXCEPT ![t] = req[c].task]
      BY <2>3, InsertFacts
    <3>2. /\ pc[c] = "insert" /\ Secured(c) /\ Informed(c)
          /\ req[c] \in Request
      BY <2>3 DEF IInv, Insert, Placed
    <3>3. req[c].key \in Key /\ Register!Recorded(req[c].key) = {}
      BY <3>2, RequestFields DEF Informed, Looked, Keyed, Register!Recorded
    <3>4. CASE req[c].kind = "analyze"
      <4>1. req[c].case \in Case /\ req[c].task = NoTask
        BY <3>2, <3>4, RequestFields
      <4>2. \A s \in Register!Running(req[c].case) : origin[s] # NoTask
        BY <3>2, <3>4 DEF Informed, Register!Running
      <4>3. Register!Start(t, req[c].key, req[c].case)
        BY <3>1, <3>3, <3>4, <4>1, <4>2 DEF Register!Start, Register!Enter
      <4> QED BY <3>3, <4>1, <4>3 DEF Register!Next
    <3>5. CASE req[c].kind = "retry"
      <4>1. req[c].task \in Task
        BY <3>2, <3>5, RequestFields
      <4>2. /\ status[req[c].task] = "FAILED"
            /\ Register!Successors(req[c].task) = {}
        BY <3>2, <3>5 DEF Informed, Register!Successors
      <4>3. Register!Supersede(t, req[c].key, req[c].task)
        BY <3>1, <3>3, <3>5, <4>2 DEF Register!Supersede, Register!Enter
      <4> QED BY <3>3, <4>1, <4>3 DEF Register!Next
    <3> QED BY <3>2, <3>4, <3>5, RequestFields
  <2>4. ASSUME NEW t \in Task, Settle(t) PROVE Register!Next
    <3>1. Register!Settle(t)
      BY <2>4 DEF Settle, Register!Settle, Final, Register!Final
    <3> QED BY <3>1 DEF Register!Next
  <2>5. CASE UNCHANGED vars
    BY <2>5 DEF vars
  <2> QED BY <2>1, <2>2, <2>3, <2>4, <2>5 DEF Next
<1> QED BY <1>1, <1>2, TransactionsIsolated, PTL
        DEF Spec, ImplementsRegister, Register!Spec

\* A key that a task has recorded is never accepted with another task: the
\* lookup finds the one task, and later statements run only if there was none.
THEOREM RecordedKeys == Spec => RecordedKeyIsFinal
<1> DEFINE Kept == \A c \in Client :
                     pc[c] # "idle" /\ pc'[c] = "idle" /\ answer'[c] # NoTask =>
                       Recorded(req[c].key) \subseteq {answer'[c]}
<1>1. IInv /\ [Next]_vars => [Kept]_vars
  <2> SUFFICES ASSUME IInv, Next, NEW c \in Client,
                      pc[c] # "idle", pc'[c] = "idle", answer'[c] # NoTask
               PROVE  Recorded(req[c].key) \subseteq {answer'[c]}
    OBVIOUS
  <2>1. TypeOK /\ OneTaskPerKey /\ Informed(c) /\ Placed(c)
    BY DEF IInv
  <2>2. pc[c] \in Looked => Recorded(req[c].key) = {}
    BY <2>1 DEF Informed, Recorded
  <2>3. CASE pc[c] \in Looked
    BY <2>2, <2>3
  <2>4. CASE pc[c] \notin Looked
    <3>1. ASSUME NEW d \in Client, d # c, Submit(d) \/ Advance(d) \/ Abort(d)
          PROVE  FALSE
      <4>1. pc'[c] = pc[c]
        BY <2>1, <3>1 DEF Submit, Advance, LockKey, FindReplay, LockCase, FindRunning,
           LockTask, FindSuccessor, Insert, Abort, Goto, Reply, TypeOK
      <4> QED BY <4>1
    <3>2. ASSUME Submit(c) \/ LockKey(c)
          PROVE  FALSE
      BY <2>1, <3>2 DEF Submit, LockKey, Goto, TypeOK
    <3>3. ASSUME Abort(c)
          PROVE  FALSE
      BY <2>1, <3>3 DEF Abort, Reply, TypeOK
    <3>4. ASSUME NEW t \in Task, Settle(t)
          PROVE  FALSE
      BY <3>4 DEF Settle
    <3>5. CASE FindReplay(c)
      <4>1. CASE Recorded(req[c].key) = {}
        BY <4>1
      <4>2. CASE Recorded(req[c].key) # {}
        <5>1. PICK t \in Recorded(req[c].key) :
                Reply(c, IF Matches(t, req[c]) THEN t ELSE NoTask)
          BY <3>5, <4>2 DEF FindReplay
        <5>2. answer'[c] = t
          BY <2>1, <5>1 DEF Reply, TypeOK
        <5>3. req[c].key \in Key
          BY <2>1, RequestFields DEF Placed
        <5>4. \A s \in Recorded(req[c].key) : s = t
          BY <2>1, <5>1, <5>3, KeyAssumption DEF Recorded, OneTaskPerKey
        <5> QED BY <5>2, <5>4
      <4> QED BY <4>1, <4>2
    <3>6. ~LockCase(c) /\ ~FindRunning(c) /\ ~LockTask(c) /\ ~FindSuccessor(c) /\ ~Insert(c)
      BY <2>4 DEF LockCase, FindRunning, LockTask, FindSuccessor, Insert, Looked, Keyed
    <3> QED BY <3>1, <3>2, <3>3, <3>4, <3>5, <3>6 DEF Next, Advance
  <2> QED BY <2>3, <2>4
<1>2. [][Kept]_vars <=> RecordedKeyIsFinal
  BY DEF RecordedKeyIsFinal
<1> QED BY <1>1, <1>2, TransactionsIsolated, PTL DEF Spec

\* t is an answer to what c asked.
Fits(c, t) ==
  /\ status[t] # "absent"
  /\ req[c] \in Request
  /\ req[c].kind = "analyze" => caseOf[t] = req[c].case
  /\ req[c].kind = "retry" => origin[t] = req[c].task

Answered == \A c \in Client : answer[c] # NoTask => Fits(c, answer[c])

\* The columns an answer depends on are written with the row and never again.
LEMMA RowsLast ==
  ASSUME IInv, [Next]_vars, NEW s \in Task, status[s] # "absent"
  PROVE  status'[s] # "absent" /\ caseOf'[s] = caseOf[s] /\ origin'[s] = origin[s]
<1>1. CASE UNCHANGED rows
  BY <1>1 DEF rows
<1>2. ASSUME NEW c \in Client, Insert(c)
      PROVE  status'[s] # "absent" /\ caseOf'[s] = caseOf[s] /\ origin'[s] = origin[s]
  <2>1. PICK t \in Task :
          /\ status[t] = "absent"
          /\ status' = [status EXCEPT ![t] = "CREATED"]
          /\ caseOf' = [caseOf EXCEPT ![t] =
               IF req[c].kind = "analyze" THEN req[c].case ELSE caseOf[req[c].task]]
          /\ origin' = [origin EXCEPT ![t] = req[c].task]
    BY <1>2, InsertFacts
  <2>2. /\ status \in [Task -> {"absent", "CREATED"} \cup Final]
        /\ caseOf \in [Task -> Case \cup {NoCase}]
        /\ origin \in [Task -> Task \cup {NoTask}]
    BY DEF IInv, TypeOK
  <2> QED BY <2>1, <2>2
<1>3. ASSUME NEW t \in Task, Settle(t)
      PROVE  status'[s] # "absent" /\ caseOf'[s] = caseOf[s] /\ origin'[s] = origin[s]
  BY <1>3 DEF Settle, Final, IInv, TypeOK
<1>4. ASSUME NEW c \in Client, Submit(c) \/ Advance(c) \/ Abort(c), ~Insert(c)
      PROVE  UNCHANGED rows
  BY <1>4 DEF Submit, Abort, Advance, LockKey, FindReplay, LockCase, FindRunning,
              LockTask, FindSuccessor
<1>5. UNCHANGED vars => UNCHANGED rows
  BY DEF vars
<1> QED BY <1>1, <1>2, <1>3, <1>4, <1>5 DEF Next

\* Each of the four statements that accept a request answers it with a task
\* that fits: it was matched, found by case, found by origin, or just made.
LEMMA AcceptedFits ==
  ASSUME IInv, NEW c \in Client, Advance(c), pc'[c] = "idle", answer'[c] # NoTask
  PROVE  Fits(c, answer[c])'
<1> DEFINE u == answer'[c]
<1>0. TypeOK /\ Blank /\ Informed(c) /\ Placed(c)
  BY DEF IInv
<1>1. /\ pc \in [Client -> Statement]
      /\ answer \in [Client -> Task \cup {NoTask}]
  BY <1>0 DEF TypeOK
<1>2. ASSUME NEW s \in Statement, s # "idle", Goto(c, s)
      PROVE  FALSE
  BY <1>1, <1>2 DEF Goto
<1>3. ASSUME NEW t \in Task \cup {NoTask}, Reply(c, t)
      PROVE  u = t /\ req'[c] = req[c]
  BY <1>0, <1>3, ReplyFacts
<1>4. pc[c] # "idle" => req[c] \in Request /\ req[c].key \in Key
  BY <1>0, RequestFields DEF Placed
<1>5. ASSUME ~Insert(c)
      PROVE  status' = status /\ caseOf' = caseOf /\ origin' = origin
  BY <1>5 DEF Advance, LockKey, FindReplay, LockCase, FindRunning, LockTask,
              FindSuccessor, rows
<1>6. CASE LockKey(c) \/ LockCase(c)
  BY <1>2, <1>6 DEF LockKey, LockCase, Statement
<1>7. CASE LockTask(c)
  BY <1>2, <1>3, <1>7 DEF LockTask, Statement
<1>8. CASE FindReplay(c)
  <2>1. PICK t \in Recorded(req[c].key) :
          Reply(c, IF Matches(t, req[c]) THEN t ELSE NoTask)
    BY <1>2, <1>8 DEF FindReplay, Statement
  <2>2. t \in Task /\ u = t /\ Matches(t, req[c]) /\ req'[c] = req[c]
    BY <1>3, <2>1 DEF Recorded
  <2>3. pc[c] = "replay" /\ status[t] # "absent"
    BY <1>0, <1>4, <1>8, <2>1, KeyAssumption DEF FindReplay, Recorded, Blank
  <2>4. ~Insert(c)
    BY <2>3 DEF Insert
  <2> QED BY <1>4, <1>5, <2>2, <2>3, <2>4 DEF Fits, Matches
<1>9. CASE FindRunning(c)
  <2>1. PICK t \in Running(req[c].case) : Reply(c, t)
    BY <1>2, <1>9 DEF FindRunning, Statement
  <2>2. t \in Task /\ u = t /\ req'[c] = req[c] /\ caseOf[t] = req[c].case
        /\ status[t] = "CREATED"
    BY <1>3, <2>1 DEF Running
  <2>3. pc[c] = "running" /\ req[c].kind = "analyze" /\ ~Insert(c)
    BY <1>0, <1>9 DEF FindRunning, Placed, Insert
  <2> QED BY <1>4, <1>5, <2>2, <2>3 DEF Fits
<1>10. CASE FindSuccessor(c)
  <2>1. PICK t \in Successors(req[c].task) : Reply(c, t)
    BY <1>2, <1>10 DEF FindSuccessor, Statement
  <2>2. t \in Task /\ u = t /\ req'[c] = req[c] /\ origin[t] = req[c].task
    BY <1>3, <2>1 DEF Successors
  <2>3. pc[c] = "successor" /\ req[c].kind = "retry" /\ ~Insert(c)
    BY <1>0, <1>10 DEF FindSuccessor, Placed, Insert
  <2>4. req[c].task \in Task
    BY <1>4, <2>3, RequestFields
  <2>5. status[t] # "absent"
    BY <1>0, <2>2, <2>4, TaskAssumption DEF Blank
  <2> QED BY <1>4, <1>5, <2>2, <2>3, <2>5 DEF Fits
<1>11. CASE Insert(c)
  <2>1. PICK t \in Task :
          /\ Reply(c, t)
          /\ status' = [status EXCEPT ![t] = "CREATED"]
          /\ caseOf' = [caseOf EXCEPT ![t] =
               IF req[c].kind = "analyze" THEN req[c].case ELSE caseOf[req[c].task]]
          /\ origin' = [origin EXCEPT ![t] = req[c].task]
    BY <1>11, InsertFacts
  <2>2. u = t /\ req'[c] = req[c] /\ pc[c] = "insert"
    BY <1>3, <1>11, <2>1 DEF Insert
  <2> QED BY <1>0, <1>4, <2>1, <2>2 DEF Fits, TypeOK
<1> QED BY <1>6, <1>7, <1>8, <1>9, <1>10, <1>11 DEF Advance

\* Every step keeps the answers right.
LEMMA AnswerStep == IInv /\ Answered /\ [Next]_vars => Answered'
<1> SUFFICES ASSUME IInv, Answered, [Next]_vars, NEW d \in Client, answer'[d] # NoTask
             PROVE  Fits(d, answer[d])'
  BY DEF Answered
<1>0. TypeOK
  BY DEF IInv
<1>1. ASSUME answer'[d] = answer[d], req'[d] = req[d]
      PROVE  Fits(d, answer[d])'
  <2>1. answer[d] \in Task /\ Fits(d, answer[d])
    BY <1>0, <1>1 DEF Answered, TypeOK
  <2>2. /\ status'[answer[d]] # "absent"
        /\ caseOf'[answer[d]] = caseOf[answer[d]]
        /\ origin'[answer[d]] = origin[answer[d]]
    BY <2>1, RowsLast DEF Fits
  <2> QED BY <1>1, <2>1, <2>2 DEF Fits
<1>2. ASSUME NEW c \in Client, Submit(c) \/ Abort(c)
      PROVE  Fits(d, answer[d])'
  <2>1. d # c => answer'[d] = answer[d] /\ req'[d] = req[d]
    BY <1>0, <1>2 DEF Submit, Abort, Reply, TypeOK
  <2>2. answer'[c] = NoTask
    BY <1>0, <1>2 DEF Submit, Abort, Reply, TypeOK
  <2> QED BY <1>1, <2>1, <2>2
<1>3. ASSUME NEW c \in Client, Advance(c)
      PROVE  Fits(d, answer[d])'
  <2>1. \/ \E s \in Statement \ {"idle"} : Goto(c, s)
        \/ \E t \in Task \cup {NoTask} : Reply(c, t)
    BY <1>3 DEF Advance, LockKey, FindReplay, LockCase, FindRunning, LockTask,
                FindSuccessor, Insert, Statement, Recorded, Running, Successors
  <2>2. CASE \E s \in Statement \ {"idle"} : Goto(c, s)
    BY <1>1, <2>2 DEF Goto
  <2>3. CASE \E t \in Task \cup {NoTask} : Reply(c, t)
    <3>1. d # c => answer'[d] = answer[d] /\ req'[d] = req[d]
      BY <1>0, <2>3, ReplyFacts
    <3>2. pc'[c] = "idle"
      BY <1>0, <2>3, ReplyFacts
    <3> QED BY <1>1, <1>3, <3>1, <3>2, AcceptedFits
  <2> QED BY <2>1, <2>2, <2>3
<1>4. ASSUME NEW t \in Task, Settle(t)
      PROVE  Fits(d, answer[d])'
  BY <1>1, <1>4 DEF Settle
<1>5. CASE UNCHANGED vars
  BY <1>1, <1>5 DEF vars
<1> QED BY <1>2, <1>3, <1>4, <1>5 DEF Next

\* An accepted answer is about what was asked, whichever statement gave it.
THEOREM AnswersFit == Spec => []AnswerFitsRequest
<1>1. Init => Answered
  BY DEF Init, Answered
<1>2. Answered => AnswerFitsRequest
  BY RequestFields DEF Answered, AnswerFitsRequest, Fits
<1> QED BY <1>1, <1>2, AnswerStep, TransactionsIsolated, PTL DEF Spec

-----------------------------------------------------------------------------
(* Deadlocks *)

\* Where the holder of a lock is: with a key, past lockKey; with a case or a
\* row, past every statement that waits.
Placing ==
  /\ \A k \in Key :
       keyLock[k] # NoClient => pc[keyLock[k]] \in Keyed
  /\ \A x \in Case :
       caseLock[x] # NoClient => pc[caseLock[x]] \in {"running", "insert"}
  /\ \A t \in Task :
       rowLock[t] # NoClient => pc[rowLock[t]] \in {"successor", "insert"}

\* No transaction holds a lock at first.
LEMMA InitPlacing == Init => Placing
BY DEF Init, Placing

\* A holder only moves on to statements at which it may hold its locks, and the
\* end of its transaction frees them.
LEMMA PlacingStep == TypeOK /\ Placing /\ [Next]_vars => Placing'
<1> SUFFICES ASSUME TypeOK, Placing, [Next]_vars PROVE Placing'
  OBVIOUS
<1>0. /\ pc \in [Client -> Statement]
      /\ keyLock \in [Key -> Client \cup {NoClient}]
      /\ caseLock \in [Case -> Client \cup {NoClient}]
      /\ rowLock \in [Task -> Client \cup {NoClient}]
  BY DEF TypeOK
<1>1. ASSUME NEW c \in Client, NEW t, Reply(c, t)
      PROVE  Placing'
  <2>1. /\ \A k \in Key : keyLock'[k] = IF keyLock[k] = c THEN NoClient ELSE keyLock[k]
        /\ \A x \in Case : caseLock'[x] = IF caseLock[x] = c THEN NoClient ELSE caseLock[x]
        /\ \A u \in Task : rowLock'[u] = IF rowLock[u] = c THEN NoClient ELSE rowLock[u]
    BY <1>0, <1>1 DEF Reply, Release, Freed
  <2>2. \A d \in Client : d # c => pc'[d] = pc[d]
    BY <1>0, <1>1 DEF Reply
  <2> QED BY <1>0, <2>1, <2>2 DEF Placing
<1>2. ASSUME NEW c \in Client, Submit(c)
      PROVE  Placing'
  <2>1. /\ pc[c] = "idle"
        /\ \A d \in Client : d # c => pc'[d] = pc[d]
        /\ keyLock' = keyLock /\ caseLock' = caseLock /\ rowLock' = rowLock
    BY <1>0, <1>2 DEF Submit, locks
  <2> QED BY <1>0, <2>1 DEF Placing, Keyed
<1>3. ASSUME NEW c \in Client, NEW s \in Statement, Goto(c, s),
             \A k \in Key :
               keyLock'[k] = keyLock[k] \/ (keyLock'[k] = c /\ s = "replay"),
             \A x \in Case :
               caseLock'[x] = caseLock[x] \/ (caseLock'[x] = c /\ s = "running"),
             \A u \in Task :
               rowLock'[u] = rowLock[u] \/ (rowLock'[u] = c /\ s = "successor"),
             pc[c] \in Keyed => s \in Keyed,
             pc[c] \in {"running", "successor", "insert"} => s = "insert"
      PROVE  Placing'
  <2>1. pc'[c] = s /\ \A d \in Client : d # c => pc'[d] = pc[d]
    BY <1>0, <1>3 DEF Goto
  <2> QED BY <1>0, <1>3, <2>1 DEF Placing, Keyed
<1>4. ASSUME NEW c \in Client, Advance(c)
      PROVE  Placing'
  <2>1. CASE LockKey(c)
    BY <1>0, <1>3, <2>1 DEF LockKey, Statement, Keyed
  <2>2. CASE LockCase(c)
    BY <1>0, <1>3, <2>2 DEF LockCase, Statement, Keyed
  <2>3. CASE LockTask(c)
    BY <1>0, <1>1, <1>3, <2>3 DEF LockTask, Statement, Keyed
  <2>4. CASE FindReplay(c)
    BY <1>0, <1>1, <1>3, <2>4 DEF FindReplay, Statement, Keyed, locks
  <2>5. CASE FindRunning(c)
    BY <1>0, <1>1, <1>3, <2>5 DEF FindRunning, Statement, Keyed, locks
  <2>6. CASE FindSuccessor(c)
    BY <1>0, <1>1, <1>3, <2>6 DEF FindSuccessor, Statement, Keyed, locks
  <2>7. CASE Insert(c)
    BY <1>1, <2>7 DEF Insert
  <2> QED BY <1>4, <2>1, <2>2, <2>3, <2>4, <2>5, <2>6, <2>7 DEF Advance
<1>5. ASSUME NEW c \in Client, Abort(c)
      PROVE  Placing'
  BY <1>1, <1>5 DEF Abort
<1>6. CASE (\E t \in Task : Settle(t)) \/ UNCHANGED vars
  BY <1>6 DEF Settle, vars, locks, Placing
<1> QED BY <1>2, <1>4, <1>5, <1>6 DEF Next

\* A lock that is waited for is held by a transaction further on: one that waits
\* for a key, by one that has its key; one that waits for a case or a row, by
\* one that waits for nothing.
LEMMA HolderIsFurther ==
  ASSUME IInv, Placing, NEW c \in Client, NEW d \in Client, Blocks(d, c)
  PROVE  \/ pc[c] = "lockKey" /\ pc[d] \in Keyed
         \/ /\ pc[c] \in {"lockCase", "lockTask"}
            /\ pc[d] \in {"running", "successor", "insert"}
<1>1. pc[c] # "idle" => req[c] \in Request
  BY DEF IInv, Placed
<1>2. d # NoClient
  BY ClientAssumption
<1>3. CASE pc[c] = "lockKey" /\ keyLock[req[c].key] = d
  BY <1>1, <1>2, <1>3, RequestFields DEF Placing
<1>4. CASE pc[c] = "lockCase" /\ caseLock[req[c].case] = d
  <2>1. req[c].case \in Case
    BY <1>1, <1>4, RequestFields DEF IInv, Placed
  <2> QED BY <1>2, <1>4, <2>1 DEF Placing
<1>5. CASE pc[c] = "lockTask" /\ rowLock[req[c].task] = d
  <2>1. req[c].task \in Task
    BY <1>1, <1>5, RequestFields DEF IInv, Placed
  <2> QED BY <1>2, <1>5, <2>1 DEF Placing
<1> QED BY <1>3, <1>4, <1>5 DEF Blocks

\* The requests never deadlock over the key, case and row locks: of any
\* transactions, one that is furthest on waits for none of the others.
THEOREM DeadlockFree == Spec => []NoDeadlock
<1>1. IInv /\ Placing => NoDeadlock
  <2> SUFFICES ASSUME IInv, Placing PROVE NoDeadlock
    OBVIOUS
  <2>1. \A c, d \in Client : Blocks(d, c) => pc[d] # "idle"
    BY HolderIsFurther DEF Keyed
  <2>2. ASSUME NEW S \in SUBSET Client, S # {}
        PROVE  \E c \in S : \A d \in S : ~ Blocks(d, c)
    <3>1. CASE \E c \in S : pc[c] \in {"running", "successor", "insert"}
      BY <3>1, HolderIsFurther
    <3>2. CASE /\ \A c \in S : pc[c] \notin {"running", "successor", "insert"}
               /\ \E c \in S : pc[c] # "lockKey"
      BY <3>2, HolderIsFurther
    <3>3. CASE \A c \in S : pc[c] = "lockKey"
      BY <2>2, <3>3, HolderIsFurther DEF Keyed
    <3> QED BY <3>1, <3>2, <3>3
  <2> QED BY <2>1, <2>2 DEF NoDeadlock
<1>2. IInv => TypeOK
  BY DEF IInv
<1>3. Spec => []Placing
  BY <1>2, InitPlacing, PlacingStep, TransactionsIsolated, PTL DEF Spec
<1> QED BY <1>1, <1>3, TransactionsIsolated, PTL
=============================================================================
