----------------------------- MODULE CaseDrawerProofs -----------------------------
(***************************************************************************)
(* Theorems about CaseDrawer for every number of cases, tasks and epochs.  *)
(***************************************************************************)
EXTENDS CaseDrawer, TLAPS

USE CaseAssumption, BoundAssumption

-----------------------------------------------------------------------------
(* Rows, chains and what is known of tasks *)

\* A task that exists.
Present(t) == t \in Task /\ caseOf[t] # NoCase

\* A task is about a case from its insert on.
RowInv ==
  \A t \in Task : /\ status[t] = "absent" <=> caseOf[t] = NoCase
                  /\ origin[t] # NoTask => caseOf[t] # NoCase

\* A chain is about a case, or is an activation; and about tasks of its case.
ChainOK(c) ==
  /\ c.stage \in {"recover", "latest", "create", "open"} => c.case # NoCase
  /\ c.stage = "activate" => c.case = NoCase
  /\ c.stage \in {"recover", "open", "activate", "report"} => Present(c.task)
  /\ c.stage \in {"latest", "create"} /\ c.seen \notin {"pending", "absent"} =>
       Present(c.task)
  /\ c.case # NoCase /\ c.task # NoTask => caseOf[c.task] = c.case
  /\ c.seen = "absent" => c.stage = "latest"

\* Chains begin with the epochs.
CallInv ==
  \A e \in Epoch : ChainOK(call[e]) /\ (e > epoch => call[e].stage = "idle")

\* What is acted upon, and what answers, exists.
ActionInv ==
  /\ action.op # "none" => Present(action.task)
  /\ action.op = "retry" /\ action.seen # "pending" => Present(action.answer)
  /\ action.seen # "absent"

\* A task of which anything is known exists.
CacheInv == \A t \in Task : cached[t] # "absent" => caseOf[t] # NoCase

BaseInv == TypeOK /\ RowInv /\ CallInv /\ ActionInv /\ CacheInv

RowTypes ==
  /\ status \in [Task -> Status]
  /\ caseOf \in [Task -> Case \cup {NoCase}]
  /\ origin \in [Task -> Task \cup {NoTask}]

\* No step takes a task away from its case.
Grown == \A t \in Task : caseOf[t] # NoCase => caseOf'[t] = caseOf[t]

\* What the bounds make of the numbers.
LEMMA Numbers ==
  /\ NoTask \notin Task
  /\ epoch \in 0..MaxEpoch /\ epoch < MaxEpoch =>
       epoch + 1 \in Epoch /\ epoch + 1 \in 0..MaxEpoch /\ epoch + 1 # 0
  /\ epoch \in 0..MaxEpoch /\ epoch # 0 => epoch \in Epoch
BY DEF NoTask, Task, Epoch

\* An insert.
LEMMA EnterRows ==
  ASSUME RowTypes, RowInv, NEW t \in Task, NEW k, NEW c \in Case,
         NEW o \in Task \cup {NoTask}, Server!Enter(t, k, c, o)
  PROVE  RowTypes' /\ RowInv' /\ Grown /\ Present(t)' /\ caseOf'[t] = c
  <1>1. /\ status[t] = "absent" /\ status' = [status EXCEPT ![t] = "CREATED"]
        /\ caseOf' = [caseOf EXCEPT ![t] = c] /\ origin' = [origin EXCEPT ![t] = o]
    BY DEF Server!Enter
  <1>2. RowTypes'
    BY <1>1 DEF RowTypes, Status
  <1>3. /\ status'[t] = "CREATED" /\ caseOf'[t] = c
        /\ \A u \in Task : u # t => /\ status'[u] = status[u] /\ caseOf'[u] = caseOf[u]
                                    /\ origin'[u] = origin[u]
    BY <1>1 DEF RowTypes
  <1>4. c # NoCase
    OBVIOUS
  <1>5. RowInv'
    BY <1>3, <1>4 DEF RowInv
  <1>6. Grown
    BY <1>1, <1>3 DEF RowInv, Grown
  <1> QED BY <1>2, <1>3, <1>4, <1>5, <1>6 DEF Present

\* A task that ends.
LEMMA StatusRows ==
  ASSUME RowTypes, RowInv, NEW t \in Task, NEW s \in Server!Final, status[t] = "CREATED",
         status' = [status EXCEPT ![t] = s], UNCHANGED <<caseOf, origin>>
  PROVE  RowTypes' /\ RowInv' /\ Grown
  <1>1. RowTypes'
    BY DEF RowTypes, Status
  <1>2. \A u \in Task : status'[u] = "absent" <=> status[u] = "absent"
    BY DEF RowTypes, Server!Final
  <1> QED BY <1>1, <1>2 DEF RowInv, Grown

\* create_or_resume.
LEMMA CreateRows ==
  ASSUME RowTypes, RowInv, NEW c \in Case, NEW t \in Task, CreateOrResume(c, t)
  PROVE  RowTypes' /\ RowInv' /\ Grown /\ Present(t)' /\ caseOf'[t] = c
  <1>1. CASE t \in Server!Running(c) /\ UNCHANGED rows
    <2>1. caseOf[t] = c /\ UNCHANGED <<status, caseOf, origin>>
      BY <1>1 DEF Server!Running, rows
    <2> QED BY <2>1 DEF RowTypes, RowInv, Grown, Present
  <1>2. CASE Server!Start(t, t, c)
    BY <1>2, EnterRows DEF Server!Start
  <1> QED BY <1>1, <1>2 DEF CreateOrResume

\* retry.
LEMMA RetryRows ==
  ASSUME RowTypes, RowInv, NEW o \in Task, NEW t \in Task, RetryTask(o, t)
  PROVE  RowTypes' /\ RowInv' /\ Grown /\ Present(t)'
  <1>1. CASE t \in Server!Successors(o) /\ UNCHANGED rows
    <2>1. origin[t] = o /\ UNCHANGED <<status, caseOf, origin>>
      BY <1>1 DEF Server!Successors, rows
    <2> QED BY <2>1, Numbers DEF RowTypes, RowInv, Grown, Present
  <1>2. CASE Server!Supersede(t, t, o)
    <2>1. status[o] = "FAILED" /\ Server!Enter(t, t, caseOf[o], o)
      BY <1>2 DEF Server!Supersede
    <2>2. caseOf[o] \in Case
      BY <2>1 DEF RowTypes, RowInv
    <2> QED BY <2>1, <2>2, EnterRows
  <1> QED BY <1>1, <1>2 DEF RetryTask

\* cancel.
LEMMA CancelRows ==
  ASSUME RowTypes, RowInv, NEW t \in Task, Present(t), CancelTask(t)
  PROVE  RowTypes' /\ RowInv' /\ Grown /\ status'[t] \in Status \ {"absent"}
  <1>1. CASE status[t] = "CREATED"
    <2>1. status' = [status EXCEPT ![t] = "COMPLETED"] /\ UNCHANGED <<caseOf, origin>>
      BY <1>1 DEF CancelTask, RowTypes
    <2>2. "COMPLETED" \in Server!Final
      BY DEF Server!Final
    <2> QED BY <1>1, <2>1, <2>2, StatusRows DEF RowTypes, Status
  <1>2. CASE status[t] # "CREATED"
    <2>1. UNCHANGED <<status, caseOf, origin>>
      BY <1>2 DEF CancelTask, RowTypes
    <2> QED BY <2>1 DEF RowTypes, RowInv, Grown, Present
  <1> QED BY <1>1, <1>2

\* A step of the others.
LEMMA OthersRows ==
  ASSUME RowTypes, RowInv, Others
  PROVE  RowTypes' /\ RowInv' /\ Grown
  <1>1. PICK t \in Task :
          \/ Server!Settle(t)
          \/ New(t) /\ \/ \E c \in Case : Server!Start(t, t, c)
                       \/ \E o \in Task : Server!Supersede(t, t, o)
    BY DEF Others
  <1>2. CASE Server!Settle(t)
    BY <1>2, StatusRows DEF Server!Settle
  <1>3. ASSUME NEW c \in Case, Server!Start(t, t, c), New(t) PROVE RowTypes' /\ RowInv' /\ Grown
    BY <1>3, CreateRows DEF CreateOrResume
  <1>4. ASSUME NEW o \in Task, Server!Supersede(t, t, o), New(t)
        PROVE  RowTypes' /\ RowInv' /\ Grown
    BY <1>4, RetryRows DEF RetryTask
  <1> QED BY <1>1, <1>2, <1>3, <1>4

\* Growth of the table does not concern what was true of a task.
LEMMA ChainKept ==
  ASSUME Grown, NEW c \in Call, ChainOK(c)
  PROVE  ChainOK(c)'
  <1>1. c.task \in Task \cup {NoTask}
    BY DEF Call
  <1> QED BY <1>1, Numbers DEF ChainOK, Present, Grown

\* An epoch's chain goes on to another request, or ends.
LEMMA CallsStep ==
  ASSUME BaseInv, Grown, NEW e \in Epoch, NEW r \in Call, ChainOK(r)',
         call' = [call EXCEPT ![e] = r], epoch' \in 0..MaxEpoch, epoch <= epoch',
         r.stage = "idle" \/ e <= epoch'
  PROVE  /\ call' \in [Epoch -> Call] /\ CallInv'
         /\ \A f \in Epoch : call'[f] = IF f = e THEN r ELSE call[f]
  <1>1. call' \in [Epoch -> Call]
    BY DEF BaseInv, TypeOK
  <1>2. \A f \in Epoch : call'[f] = IF f = e THEN r ELSE call[f]
    BY DEF BaseInv, TypeOK
  <1>3. ASSUME NEW f \in Epoch PROVE ChainOK(call[f])'
    <2>1. PICK c \in Call : c = call'[f]
      BY <1>1
    <2>2. ChainOK(c)'
      <3>1. CASE f = e
        BY <1>2, <2>1, <3>1
      <3>2. CASE f # e
        BY <1>2, <2>1, <3>2, ChainKept DEF BaseInv, CallInv
      <3> QED BY <3>1, <3>2
    <2> QED BY <2>1, <2>2 DEF ChainOK
  <1>4. ASSUME NEW f \in Epoch, f > epoch' PROVE call'[f].stage = "idle"
    <2>1. f \in Nat /\ e \in Nat /\ epoch \in Nat
      BY DEF Epoch, BaseInv, TypeOK
    <2> QED BY <1>2, <1>4, <2>1 DEF BaseInv, CallInv
  <1> QED BY <1>1, <1>2, <1>3, <1>4 DEF CallInv

\* The null values are harmless.
LEMMA Nulls ==
  /\ NoCall \in Call /\ NoCall.stage = "idle" /\ ChainOK(NoCall)
  /\ NoCall.case = NoCase /\ NoAction \in Action /\ NoAction.op = "none"
  /\ NoAction.seen = "pending"
  /\ NoTrouble.op = "none" /\ NoTrouble.case = NoCase
BY DEF NoCall, Call, Stage, ChainOK, NoAction, Action, NoTrouble

-----------------------------------------------------------------------------
(* Type correctness *)

ViewTypes ==
  /\ open \in Case \cup {NoCase}
  /\ active \in Task \cup {NoTask}
  /\ pinned \in Task \cup {NoTask}
  /\ streaming \in Task \cup {NoTask}
  /\ cached \in [Task -> Status]
  /\ loading \in BOOLEAN /\ strayed \in BOOLEAN
  /\ trouble \in [op : {"none", "load", "stream", "retry", "cancel"},
                 case : Case \cup {NoCase}]

\* TypeOK by parts.
LEMMA TypeParts ==
  TypeOK <=> /\ RowTypes /\ ViewTypes /\ epoch \in 0..MaxEpoch
             /\ call \in [Epoch -> Call] /\ action \in Action
BY DEF TypeOK, RowTypes, ViewTypes

\* Growth of the table does not concern what is known.
LEMMA KnownKept ==
  ASSUME Grown, ActionInv, CacheInv, TypeOK
  PROVE  /\ action' = action => ActionInv'
         /\ cached' = cached => CacheInv'
  <1>1. action' = action => ActionInv'
    BY DEF Grown, ActionInv, Present
  <1>2. cached' = cached => CacheInv'
    BY DEF Grown, CacheInv
  <1> QED BY <1>1, <1>2

\* Rows that do not change grow.
LEMMA RowsKept ==
  ASSUME RowTypes, RowInv, UNCHANGED rows
  PROVE  RowTypes' /\ RowInv' /\ Grown /\ (\A t : Present(t)' <=> Present(t))
BY DEF RowTypes, RowInv, Grown, Present, rows

\* clearVisibleData.
LEMMA ClearTyped ==
  ASSUME BaseInv, Clear
  PROVE  /\ active' \in Task \cup {NoTask} /\ pinned' \in Task \cup {NoTask}
         /\ streaming' \in Task \cup {NoTask}
         /\ cached' \in [Task -> Status] /\ CacheInv'
  <1>1. cached' \in [Task -> Status]
    BY DEF Clear, Status
  <1>2. CacheInv'
    BY DEF Clear, CacheInv
  <1> QED BY <1>1, <1>2 DEF Clear

\* handleError.
LEMMA ReportTyped ==
  ASSUME BaseInv, NEW op \in {"load", "retry", "cancel"}, NEW c \in Case \cup {NoCase},
         Report(op, c), UNCHANGED rows
  PROVE  /\ active' \in Task \cup {NoTask} /\ pinned' \in Task \cup {NoTask}
         /\ streaming' \in Task \cup {NoTask}
         /\ cached' \in [Task -> Status] /\ CacheInv'
         /\ trouble' \in [op : {"none", "load", "stream", "retry", "cancel"},
                         case : Case \cup {NoCase}]
  <1>1. trouble' \in [op : {"none", "load", "stream", "retry", "cancel"},
                     case : Case \cup {NoCase}]
    BY DEF Report
  <1>2. CASE Clear
    BY <1>1, <1>2, ClearTyped
  <1>3. CASE UNCHANGED <<active, cached, pinned, streaming>>
    BY <1>1, <1>3 DEF BaseInv, TypeOK, CacheInv, rows
  <1> QED BY <1>2, <1>3 DEF Report

\* A chain ends.
LEMMA EndStep ==
  ASSUME BaseInv, NEW e \in Epoch, End(e), UNCHANGED <<rows, epoch>>
  PROVE  /\ call' \in [Epoch -> Call] /\ CallInv'
         /\ \A f \in Epoch : call'[f] = IF f = e THEN NoCall ELSE call[f]
         /\ loading' \in BOOLEAN
  <1>1. RowTypes /\ RowInv /\ epoch \in 0..MaxEpoch
    BY TypeParts DEF BaseInv
  <1>2. Grown
    BY <1>1, RowsKept
  <1>3. ChainOK(NoCall)'
    BY DEF NoCall, ChainOK
  <1>4. epoch' \in 0..MaxEpoch /\ epoch <= epoch'
    BY <1>1
  <1>5. call' = [call EXCEPT ![e] = NoCall] /\ loading' \in BOOLEAN
    BY DEF End
  <1> QED BY <1>2, <1>3, <1>4, <1>5, Nulls, CallsStep

\* A chain goes on to another request.
LEMMA GoOnStep ==
  ASSUME BaseInv, NEW e \in Epoch, NEW r \in Call, ChainOK(r), UNCHANGED <<rows, epoch>>,
         call[e].stage # "idle", call' = [call EXCEPT ![e] = r]
  PROVE  /\ call' \in [Epoch -> Call] /\ CallInv'
         /\ \A f \in Epoch : call'[f] = IF f = e THEN r ELSE call[f]
  <1>1. RowTypes /\ RowInv /\ epoch \in 0..MaxEpoch
    BY TypeParts DEF BaseInv
  <1>2. Grown
    BY <1>1, RowsKept
  <1>3. ChainOK(r)'
    BY <1>2, ChainKept
  <1>4. epoch' \in 0..MaxEpoch /\ epoch <= epoch' /\ e <= epoch'
    BY <1>1 DEF BaseInv, CallInv, Epoch
  <1> QED BY <1>2, <1>3, <1>4, CallsStep

\* acceptSnapshot of a task that exists.
LEMMA AcceptStep ==
  ASSUME BaseInv, NEW e \in Epoch, Accept(e), UNCHANGED <<rows, epoch>>,
         call[e].stage # "idle", Present(call[e].task),
         call[e].seen \in Status \ {"absent"}
  PROVE  /\ call' \in [Epoch -> Call] /\ CallInv'
         /\ \A f \in Epoch : f # e => call'[f] = call[f]
         /\ \/ call'[e].stage = "report" /\ call'[e].case = call[e].case
               /\ call'[e].task = call[e].task /\ loading' = loading
               /\ UNCHANGED <<pinned, streaming>>
            \/ End(e) /\ call'[e] = NoCall
               /\ streaming' \in {streaming, call[e].task} /\ pinned' = call[e].task
         /\ active' = call[e].task /\ cached' \in [Task -> Status] /\ CacheInv'
         /\ cached'[active'] # "absent"
         /\ loading' \in BOOLEAN
  <1> DEFINE t == call[e].task
  <1>1. t \in Task /\ caseOf[t] # NoCase /\ cached \in [Task -> Status]
    BY DEF Present, BaseInv, TypeOK
  <1>2. active' = t /\ cached' = [cached EXCEPT ![t] = call[e].seen]
    BY DEF Accept
  <1>3. cached' \in [Task -> Status] /\ cached'[t] # "absent"
    BY <1>1, <1>2
  <1>4. CacheInv'
    BY <1>1, <1>2 DEF BaseInv, CacheInv, rows
  <1>5. CASE /\ call' = [call EXCEPT ![e].stage = "report", ![e].seen = "pending"]
             /\ UNCHANGED <<loading, pinned, streaming>>
    <2> DEFINE r == [call[e] EXCEPT !.stage = "report", !.seen = "pending"]
    <2>1. call[e] \in Call /\ ChainOK(call[e])
      BY DEF BaseInv, TypeOK, CallInv
    <2>2. r \in Call
      BY <2>1 DEF Call, Stage
    <2>3. r.stage = "report" /\ r.case = call[e].case /\ r.task = t /\ r.seen = "pending"
      BY <2>1 DEF Call
    <2>4. ChainOK(r)
      BY <2>1, <2>3 DEF ChainOK
    <2>5. call' = [call EXCEPT ![e] = r]
      BY <1>5
    <2> HIDE DEF r
    <2>6. /\ call' \in [Epoch -> Call] /\ CallInv'
          /\ \A f \in Epoch : call'[f] = IF f = e THEN r ELSE call[f]
      BY <2>2, <2>4, <2>5, GoOnStep
    <2>7. loading' \in BOOLEAN
      BY <1>5 DEF BaseInv, TypeOK
    <2> QED BY <1>2, <1>3, <1>4, <1>5, <2>3, <2>6, <2>7
  <1>6. CASE /\ End(e) /\ pinned' = t
             /\ streaming' = IF call[e].seen = "CREATED" THEN t ELSE streaming
    BY <1>2, <1>3, <1>4, <1>6, EndStep
  <1> QED BY <1>5, <1>6 DEF Accept

\* What the answer to a chain's request is about.
LEMMA Answered ==
  ASSUME BaseInv, NEW e \in Epoch, call[e].seen # "pending"
  PROVE  /\ call[e] \in Call /\ ChainOK(call[e]) /\ call[e].seen \in Status
         /\ call[e].stage \in {"recover", "open", "activate", "report"} =>
              Present(call[e].task) /\ call[e].seen # "absent"
         /\ call[e].stage \in {"latest", "create"} /\ call[e].seen # "absent" =>
              Present(call[e].task)
         /\ call[e].stage \in {"recover", "latest", "create", "open"} =>
              call[e].case \in Case
  <1>1. call[e] \in Call /\ ChainOK(call[e])
    BY DEF BaseInv, TypeOK, CallInv
  <1>2. call[e].seen \in Status /\ call[e].case \in Case \cup {NoCase}
    BY <1>1 DEF Call
  <1> QED BY <1>1, <1>2 DEF ChainOK

\* A chain, once begun.
LEMMA BeginStep ==
  ASSUME BaseInv, NEW r \in Call, ChainOK(r), Begin(r), UNCHANGED rows
  PROVE  /\ call' \in [Epoch -> Call] /\ CallInv'
         /\ epoch' = epoch + 1 /\ epoch' \in 0..MaxEpoch /\ epoch' # 0 /\ epoch' \in Epoch
         /\ call'[epoch'] = r /\ streaming' = NoTask
         /\ Grown
  <1>1. RowTypes /\ RowInv /\ epoch \in 0..MaxEpoch
    BY TypeParts DEF BaseInv
  <1>2. Grown
    BY <1>1, RowsKept
  <1>3. /\ epoch' = epoch + 1 /\ epoch' \in 0..MaxEpoch /\ epoch' # 0 /\ epoch' \in Epoch
        /\ call' = [call EXCEPT ![epoch'] = r] /\ streaming' = NoTask
    BY <1>1, Numbers DEF Begin
  <1>4. ChainOK(r)'
    BY <1>2, ChainKept
  <1>5. PICK e \in Epoch : e = epoch'
    BY <1>3
  <1>6. epoch <= epoch' /\ e <= epoch'
    BY <1>1, <1>3, <1>5
  <1>7. call' = [call EXCEPT ![e] = r] /\ epoch' \in 0..MaxEpoch
    BY <1>3, <1>5
  <1>8. /\ call' \in [Epoch -> Call] /\ CallInv'
        /\ \A f \in Epoch : call'[f] = IF f = e THEN r ELSE call[f]
    BY <1>2, <1>4, <1>6, <1>7, CallsStep
  <1> QED BY <1>2, <1>3, <1>5, <1>8

\* What openCaseAnalysis asks first.
LEMMA FirstRequest ==
  ASSUME BaseInv, NEW c \in Case,
         NEW r \in {Request("create", c, NoTask), Request("latest", c, NoTask),
                    Request("recover", c, pinned)},
         r = Request("recover", c, pinned) => pinned \in Rows(c)
  PROVE  r \in Call /\ ChainOK(r) /\ r.case = c
         /\ r.stage \in {"recover", "latest", "create"}
  <1>1. pinned \in Task \cup {NoTask}
    BY TypeParts DEF BaseInv, ViewTypes
  <1>2. r \in Call
    BY <1>1 DEF Request, Call, Stage
  <1>3. CASE r = Request("recover", c, pinned)
    BY <1>2, <1>3 DEF Request, ChainOK, Present, Rows
  <1>4. CASE r = Request("create", c, NoTask) \/ r = Request("latest", c, NoTask)
    BY <1>2, <1>4 DEF Request, ChainOK
  <1> QED BY <1>2, <1>3, <1>4

\* The answers keep the types and what the chains rest on.
LEMMA ServeStep ==
  ASSUME BaseInv, NEW e \in Epoch, Serve(e)
  PROVE  /\ RowTypes' /\ RowInv' /\ Grown
         /\ call' \in [Epoch -> Call] /\ CallInv'
         /\ \A f \in Epoch : call'[f].stage = call[f].stage /\ call'[f].case = call[f].case
         /\ call[e].stage \notin {"create", "latest"} => call'[e].task = call[e].task
         /\ \A f \in Epoch : f # e => call'[f] = call[f]
         /\ UNCHANGED <<epoch, action, page>>
  <1>1. RowTypes /\ RowInv /\ epoch \in 0..MaxEpoch
    BY TypeParts DEF BaseInv
  <1>2. call[e] \in Call /\ ChainOK(call[e])
    BY DEF BaseInv, TypeOK, CallInv
  <1>3. ASSUME NEW t \in Task \cup {NoTask}, NEW s \in Status, Grown,
               call' = [call EXCEPT ![e].task = t, ![e].seen = s],
               call[e].stage # "idle", epoch' = epoch,
               \/ /\ call[e].stage \in {"create", "latest"}
                  /\ t \in Task /\ caseOf'[t] = call[e].case /\ s # "absent"
               \/ call[e].stage = "latest" /\ t = NoTask /\ s = "absent"
               \/ /\ call[e].stage \in {"recover", "open", "activate", "report"}
                  /\ t = call[e].task /\ s # "absent"
        PROVE  /\ call' \in [Epoch -> Call] /\ CallInv'
               /\ \A f \in Epoch : /\ call'[f].stage = call[f].stage
                                   /\ call'[f].case = call[f].case
               /\ t = call[e].task => call'[e].task = call[e].task
               /\ \A f \in Epoch : f # e => call'[f] = call[f]
    <2>1. PICK r \in Call : r = [call[e] EXCEPT !.task = t, !.seen = s]
      BY <1>2, <1>3 DEF Call
    <2>2. r.stage = call[e].stage /\ r.case = call[e].case /\ r.task = t /\ r.seen = s
      BY <1>2, <2>1 DEF Call
    <2>3. PICK c \in Call : c = call[e]
      BY <1>2
    <2>4. ChainOK(c)'
      BY <1>2, <1>3, <2>3, ChainKept
    <2>5. ChainOK(r)'
      BY <1>3, <2>2, <2>3, <2>4, Numbers DEF ChainOK, Present
    <2>6. call' = [call EXCEPT ![e] = r]
      BY <1>3, <2>1
    <2>7. epoch' \in 0..MaxEpoch /\ epoch <= epoch' /\ e <= epoch'
      BY <1>1, <1>3 DEF BaseInv, CallInv, Epoch
    <2>8. /\ call' \in [Epoch -> Call] /\ CallInv'
          /\ \A f \in Epoch : call'[f] = IF f = e THEN r ELSE call[f]
      BY <1>3, <2>5, <2>6, <2>7, CallsStep
    <2> QED BY <2>2, <2>8
  <1>4. UNCHANGED <<epoch, action, page>> /\ call[e].stage # "idle" /\ epoch' = epoch
    BY DEF Serve
  <1>5. CASE /\ call[e].stage = "create"
             /\ \E t \in Task : /\ CreateOrResume(call[e].case, t)
                                /\ call' = [call EXCEPT ![e].task = t, ![e].seen = "CREATED"]
    <2>1. PICK t \in Task : /\ CreateOrResume(call[e].case, t)
                            /\ call' = [call EXCEPT ![e].task = t, ![e].seen = "CREATED"]
      BY <1>5
    <2>2. call[e].case \in Case
      BY <1>2, <1>5 DEF ChainOK, Call
    <2>3. RowTypes' /\ RowInv' /\ Grown /\ caseOf'[t] = call[e].case
      BY <1>1, <2>1, <2>2, CreateRows
    <2>4. "CREATED" \in Status
      BY DEF Status
    <2> QED BY <1>3, <1>4, <1>5, <2>1, <2>3, <2>4
  <1>6. CASE /\ call[e].stage = "latest" /\ UNCHANGED rows
             /\ call' = [call EXCEPT ![e].task = NoTask, ![e].seen = "absent"]
    <2>1. RowTypes' /\ RowInv' /\ Grown
      BY <1>1, <1>6, RowsKept
    <2>2. "absent" \in Status
      BY DEF Status
    <2> QED BY <1>3, <1>4, <1>6, <2>1, <2>2
  <1>7. CASE /\ call[e].stage = "latest" /\ UNCHANGED rows
             /\ \E t \in Rows(call[e].case) :
                  call' = [call EXCEPT ![e].task = t, ![e].seen = status[t]]
    <2>1. PICK t \in Rows(call[e].case) :
            call' = [call EXCEPT ![e].task = t, ![e].seen = status[t]]
      BY <1>7
    <2>2. RowTypes' /\ RowInv' /\ Grown /\ caseOf' = caseOf
      BY <1>1, <1>7, RowsKept DEF rows
    <2>3. t \in Task /\ caseOf[t] = call[e].case /\ caseOf[t] # NoCase
      BY <1>2, <1>7 DEF Rows, ChainOK
    <2>4. status[t] \in Status /\ status[t] # "absent"
      BY <1>1, <2>3 DEF RowTypes, RowInv
    <2>5. PICK v \in Status : v = status[t]
      BY <2>4
    <2>6. call' = [call EXCEPT ![e].task = t, ![e].seen = v] /\ v # "absent"
      BY <2>1, <2>4, <2>5
    <2> QED BY <1>3, <1>4, <1>7, <2>2, <2>3, <2>6
  <1>8. CASE /\ call[e].stage \in {"recover", "open", "activate", "report"}
             /\ call' = [call EXCEPT ![e].task = call[e].task,
                                     ![e].seen = status[call[e].task]]
             /\ UNCHANGED rows
    <2>1. RowTypes' /\ RowInv' /\ Grown
      BY <1>1, <1>8, RowsKept
    <2>2. call[e].task \in Task /\ caseOf[call[e].task] # NoCase
      BY <1>2, <1>8 DEF ChainOK, Present
    <2>3. status[call[e].task] \in Status /\ status[call[e].task] # "absent"
      BY <1>1, <2>2 DEF RowTypes, RowInv
    <2>4. PICK t \in Task : t = call[e].task
      BY <2>2
    <2>5. PICK v \in Status : v = status[call[e].task]
      BY <2>3
    <2>6. call' = [call EXCEPT ![e].task = t, ![e].seen = v] /\ v # "absent"
      BY <1>8, <2>3, <2>4, <2>5
    <2> QED BY <1>3, <1>4, <1>8, <2>1, <2>4, <2>6
  <1> QED BY <1>4, <1>5, <1>6, <1>7, <1>8, Zenon DEF Serve

\* A chain takes its answer.
LEMMA TakeStep ==
  ASSUME BaseInv, NEW e \in Epoch, Take(e)
  PROVE  BaseInv'
  <1>1. /\ RowTypes /\ RowInv /\ epoch \in 0..MaxEpoch /\ ViewTypes /\ action \in Action
        /\ ActionInv /\ CacheInv /\ TypeOK
    BY TypeParts DEF BaseInv
  <1>2. UNCHANGED <<rows, epoch, action, open, trouble, strayed>>
    BY DEF Take
  <1>3. RowTypes' /\ RowInv' /\ Grown
    BY <1>1, <1>2, RowsKept
  <1>4. ActionInv'
    BY <1>1, <1>2, <1>3, KnownKept
  <1>5. /\ call[e] \in Call /\ ChainOK(call[e]) /\ call[e].seen \in Status
        /\ call[e].stage \in {"recover", "open", "activate", "report"} =>
             Present(call[e].task) /\ call[e].seen # "absent"
        /\ call[e].stage \in {"latest", "create"} /\ call[e].seen # "absent" =>
             Present(call[e].task)
        /\ call[e].stage \in {"recover", "latest", "create", "open"} => call[e].case \in Case
    BY Answered DEF Take
  <1>6. ASSUME /\ call' \in [Epoch -> Call] /\ CallInv' /\ cached' \in [Task -> Status]
               /\ CacheInv'
               /\ active' \in Task \cup {NoTask} /\ pinned' \in Task \cup {NoTask}
               /\ streaming' \in Task \cup {NoTask} /\ loading' \in BOOLEAN
        PROVE  BaseInv'
    <2>1. ViewTypes'
      BY <1>1, <1>2, <1>6 DEF ViewTypes
    <2>2. TypeOK'
      BY <1>1, <1>2, <1>3, <1>6, <2>1 DEF TypeOK, RowTypes, ViewTypes
    <2> QED BY <1>3, <1>4, <1>6, <2>2 DEF BaseInv
  <1>7. CASE Drop(e)
    <2>1. /\ call' \in [Epoch -> Call] /\ CallInv' /\ loading' \in BOOLEAN
      BY <1>2, <1>7, EndStep DEF Drop
    <2>2. UNCHANGED <<active, cached, pinned, streaming>>
      BY <1>7 DEF Drop
    <2>3. CacheInv'
      BY <1>1, <1>3, <2>2, KnownKept
    <2> QED BY <1>1, <1>6, <2>1, <2>2, <2>3 DEF ViewTypes
  <1>8. ASSUME Accept(e), call[e].stage \in {"recover", "latest", "open", "activate"},
               call[e].seen # "absent"
        PROVE  BaseInv'
    <2>1. Present(call[e].task) /\ call[e].seen \in Status \ {"absent"}
      BY <1>5, <1>8
    <2>2. /\ call' \in [Epoch -> Call] /\ CallInv' /\ loading' \in BOOLEAN
          /\ active' = call[e].task /\ cached' \in [Task -> Status] /\ CacheInv'
          /\ pinned' \in {pinned, call[e].task} /\ streaming' \in {streaming, call[e].task}
      BY <1>2, <1>8, <2>1, AcceptStep
    <2>3. call[e].task \in Task
      BY <2>1 DEF Present
    <2> QED BY <1>1, <1>6, <2>2, <2>3 DEF ViewTypes
  <1>9. ASSUME NEW r \in Call, GoOn(e, r), ChainOK(r), call[e].stage # "idle",
               active' \in Task \cup {NoTask}
        PROVE  BaseInv'
    <2>1. call' \in [Epoch -> Call] /\ CallInv'
      BY <1>2, <1>9, GoOnStep DEF GoOn
    <2>2. UNCHANGED <<loading, cached, pinned, streaming>>
      BY <1>9 DEF GoOn
    <2>3. CacheInv'
      BY <1>1, <1>3, <2>2, KnownKept
    <2> QED BY <1>1, <1>6, <1>9, <2>1, <2>2, <2>3 DEF ViewTypes
  <1>10. CASE TakeFound(e)
    <2>1. call[e].stage \in {"recover", "latest"}
      BY <1>10 DEF TakeFound
    <2>2. CASE /\ GoOn(e, Request("create", call[e].case, NoTask)) /\ UNCHANGED active
      <3>1. call[e].case \in Case
        BY <1>5, <2>1
      <3>2. Request("create", call[e].case, NoTask) \in Call
            /\ ChainOK(Request("create", call[e].case, NoTask))
        BY <3>1 DEF Request, ChainOK, Call, Stage
      <3>3. active' \in Task \cup {NoTask}
        BY <1>1, <2>2 DEF ViewTypes
      <3> QED BY <1>9, <2>1, <2>2, <3>2, <3>3
    <2> QED BY <1>7, <1>8, <1>10, <2>1, <2>2 DEF TakeFound
  <1>11. CASE TakeCreated(e)
    <2>1. call[e].stage = "create"
      BY <1>11 DEF TakeCreated
    <2>2. CASE /\ active' = call[e].task
               /\ GoOn(e, Request("open", call[e].case, call[e].task))
      <3>1. call[e].case \in Case /\ Present(call[e].task)
        BY <1>5, <2>1 DEF ChainOK
      <3>2. call[e].task \in Task /\ caseOf[call[e].task] = call[e].case
        BY <1>5, <2>1, <3>1, Numbers DEF ChainOK, Present
      <3>3. Request("open", call[e].case, call[e].task) \in Call
            /\ ChainOK(Request("open", call[e].case, call[e].task))
        BY <3>1, <3>2 DEF Request, ChainOK, Call, Stage, Present
      <3> QED BY <1>9, <2>1, <2>2, <3>2, <3>3
    <2> QED BY <1>7, <1>11, <2>2 DEF TakeCreated
  <1>12. CASE TakeSnapshot(e)
    BY <1>5, <1>7, <1>8, <1>12 DEF TakeSnapshot
  <1>13. CASE TakeReport(e)
    <2>1. call[e].stage = "report" /\ End(e) /\ pinned' = call[e].task
          /\ UNCHANGED <<active, cached, streaming>>
      BY <1>13 DEF TakeReport
    <2>2. /\ call' \in [Epoch -> Call] /\ CallInv' /\ loading' \in BOOLEAN
      BY <1>2, <2>1, EndStep
    <2>3. CacheInv'
      BY <1>1, <1>3, <2>1, KnownKept
    <2>4. call[e].task \in Task
      BY <1>5, <2>1 DEF Present
    <2> QED BY <1>1, <1>6, <2>1, <2>2, <2>3, <2>4 DEF ViewTypes
  <1> QED BY <1>10, <1>11, <1>12, <1>13 DEF Take

\* A request of a chain fails.
LEMMA FailStep ==
  ASSUME BaseInv, NEW e \in Epoch, Fail(e)
  PROVE  BaseInv'
  <1>1. /\ RowTypes /\ RowInv /\ epoch \in 0..MaxEpoch /\ ViewTypes /\ action \in Action
        /\ ActionInv /\ CacheInv /\ TypeOK
    BY TypeParts DEF BaseInv
  <1>2. UNCHANGED <<rows, epoch, action, open, strayed>> /\ End(e) /\ call[e].stage # "idle"
    BY DEF Fail
  <1>3. RowTypes' /\ RowInv' /\ Grown
    BY <1>1, <1>2, RowsKept
  <1>4. ActionInv'
    BY <1>1, <1>2, <1>3, KnownKept
  <1>5. call' \in [Epoch -> Call] /\ CallInv' /\ loading' \in BOOLEAN
    BY <1>2, EndStep
  <1>6. /\ active' \in Task \cup {NoTask} /\ pinned' \in Task \cup {NoTask}
        /\ streaming' \in Task \cup {NoTask}
        /\ cached' \in [Task -> Status] /\ CacheInv'
        /\ trouble' \in [op : {"none", "load", "stream", "retry", "cancel"},
                        case : Case \cup {NoCase}]
    <2>1. call[e] \in Call /\ ChainOK(call[e])
      BY DEF BaseInv, TypeOK, CallInv
    <2>2. call[e].case \in Case \cup {NoCase}
      BY <2>1 DEF Call
    <2>3. CASE Report("load", call[e].case)
      BY <1>2, <2>2, <2>3, ReportTyped
    <2>4. CASE call[e].case = NoCase /\ Report("retry", caseOf[call[e].task])
      <3>1. call[e].task \in Task
        BY <1>2, <2>1, <2>4 DEF ChainOK, Present, Call, Stage
      <3>2. caseOf[call[e].task] \in Case \cup {NoCase}
        BY <1>1, <3>1 DEF RowTypes
      <3> QED BY <1>2, <2>4, <3>2, ReportTyped
    <2>5. CASE UNCHANGED <<active, cached, pinned, streaming, trouble>>
      BY <1>1, <1>3, <2>5, KnownKept DEF ViewTypes
    <2> QED BY <2>3, <2>4, <2>5 DEF Fail
  <1>7. TypeOK'
    BY <1>1, <1>2, <1>3, <1>5, <1>6 DEF TypeOK, RowTypes, ViewTypes
  <1> QED BY <1>3, <1>4, <1>5, <1>6, <1>7 DEF BaseInv

\* Every step keeps the types, and chains and actions about tasks that exist.
LEMMA BaseStep == BaseInv /\ [Next]_vars => BaseInv'
  <1> SUFFICES ASSUME BaseInv, [Next]_vars PROVE BaseInv'
    OBVIOUS
  <1>1. /\ RowTypes /\ RowInv /\ epoch \in 0..MaxEpoch /\ ViewTypes /\ action \in Action
        /\ ActionInv /\ CacheInv /\ TypeOK /\ CallInv /\ call \in [Epoch -> Call]
    BY TypeParts DEF BaseInv
  <1>2. ASSUME RowTypes', RowInv', ViewTypes', epoch' \in 0..MaxEpoch,
               call' \in [Epoch -> Call], action' \in Action, CallInv', ActionInv', CacheInv'
        PROVE  BaseInv'
    BY <1>2 DEF BaseInv, TypeOK, RowTypes, ViewTypes
  <1>3. UNCHANGED rows => RowTypes' /\ RowInv' /\ Grown
    BY <1>1, RowsKept
  <1>4. Grown => /\ action' = action => ActionInv'
                 /\ cached' = cached => CacheInv'
    BY <1>1, KnownKept
  <1>5. UNCHANGED <<rows, epoch, call>> => call' \in [Epoch -> Call] /\ CallInv'
    BY <1>1 DEF CallInv, ChainOK, Present, rows
  <1>6. ASSUME NEW c \in Case, NEW startNew \in BOOLEAN, OpenCase(c, startNew)
        PROVE  BaseInv'
    <2>1. PICK r \in {Request("create", c, NoTask), Request("latest", c, NoTask),
                      Request("recover", c, pinned)} :
            Begin(r) /\ (r = Request("recover", c, pinned) => pinned \in Rows(c))
      <3>1. CASE startNew
        BY <1>6, <3>1 DEF OpenCase, Request
      <3>2. CASE ~startNew /\ pinned \in Rows(c)
        BY <1>6, <3>2 DEF OpenCase
      <3>3. CASE ~startNew /\ pinned \notin Rows(c)
        BY <1>6, <3>3 DEF OpenCase, Request
      <3> QED BY <3>1, <3>2, <3>3
    <2>2. r \in Call /\ ChainOK(r)
      BY <2>1, FirstRequest
    <2>3. /\ UNCHANGED <<rows, action, cached, pinned>>
          /\ open' = c /\ active' = NoTask /\ loading' = TRUE /\ trouble' = NoTrouble
          /\ strayed' = FALSE
      BY <1>6 DEF OpenCase
    <2>4. /\ call' \in [Epoch -> Call] /\ CallInv' /\ epoch' \in 0..MaxEpoch
          /\ streaming' = NoTask
      BY <2>1, <2>2, <2>3, BeginStep
    <2>5. ViewTypes'
      BY <1>1, <2>3, <2>4 DEF ViewTypes, NoTrouble
    <2> QED BY <1>1, <1>2, <1>3, <1>4, <2>3, <2>4, <2>5
  <1>7. CASE CloseDrawer
    <2>1. /\ UNCHANGED <<rows, action, cached, pinned>> /\ Begin(NoCall)
          /\ open' = NoCase /\ active' = NoTask /\ loading' = FALSE /\ trouble' = NoTrouble
          /\ strayed' = FALSE
      BY <1>7 DEF CloseDrawer
    <2>2. /\ call' \in [Epoch -> Call] /\ CallInv' /\ epoch' \in 0..MaxEpoch
          /\ streaming' = NoTask
      BY <2>1, Nulls, BeginStep
    <2>3. ViewTypes'
      BY <1>1, <2>1, <2>2 DEF ViewTypes, NoTrouble
    <2> QED BY <1>1, <1>2, <1>3, <1>4, <2>1, <2>2, <2>3
  <1>8. ASSUME NEW op \in {"retry", "cancel"}, NEW s \in {"FAILED", "CREATED"}, Click(op, s)
        PROVE  BaseInv'
    <2>1. /\ UNCHANGED <<rows, epoch, call, page>> /\ active # NoTask /\ cached[active] = s
          /\ action' = [NoAction EXCEPT !.op = op, !.task = active]
      BY <1>8 DEF Click
    <2>2. active \in Task /\ Present(active)
      BY <1>1, <2>1 DEF ViewTypes, CacheInv, Present
    <2>3. action' \in Action /\ action'.task = active /\ action'.seen = "pending"
      BY <2>1, <2>2 DEF NoAction, Action
    <2>4. ActionInv'
      BY <2>1, <2>2, <2>3 DEF ActionInv, Present, rows
    <2>5. ViewTypes' /\ cached' = cached
      BY <1>1, <2>1 DEF ViewTypes, page
    <2> QED BY <1>1, <1>2, <1>3, <1>4, <1>5, <2>1, <2>3, <2>4, <2>5
  <1>9. ASSUME NEW e \in Epoch, Serve(e) PROVE BaseInv'
    <2>1. /\ RowTypes' /\ RowInv' /\ Grown /\ call' \in [Epoch -> Call] /\ CallInv'
          /\ UNCHANGED <<epoch, action, page>>
      BY <1>9, ServeStep
    <2>2. ViewTypes' /\ cached' = cached
      BY <1>1, <2>1 DEF ViewTypes, page
    <2> QED BY <1>1, <1>2, <1>4, <2>1, <2>2
  <1>10. CASE ServeAction
    <2>1. /\ UNCHANGED <<epoch, call, page>> /\ action.op # "none"
          /\ action.task \in Task /\ Present(action.task)
      BY <1>1, <1>10 DEF ServeAction, ActionInv, Present
    <2>2. /\ RowTypes' /\ RowInv' /\ Grown /\ action' \in Action /\ ActionInv'
      <3>1. ASSUME NEW t \in Task, RetryTask(action.task, t),
                   action' = [action EXCEPT !.answer = t, !.seen = "CREATED"]
            PROVE  RowTypes' /\ RowInv' /\ Grown /\ action' \in Action /\ ActionInv'
        <4>1. RowTypes' /\ RowInv' /\ Grown /\ Present(t)'
          BY <1>1, <2>1, <3>1, RetryRows
        <4>2. /\ action' \in Action /\ action'.task = action.task /\ action'.answer = t
              /\ action'.seen = "CREATED"
          BY <1>1, <3>1 DEF Action, Status
        <4> QED BY <2>1, <4>1, <4>2 DEF ActionInv, Present, Grown
      <3>2. ASSUME CancelTask(action.task) \/ UNCHANGED rows, action.op = "cancel",
                   action' = [action EXCEPT !.seen = status'[action.task]]
            PROVE  RowTypes' /\ RowInv' /\ Grown /\ action' \in Action /\ ActionInv'
        <4>1. RowTypes' /\ RowInv' /\ Grown /\ status'[action.task] \in Status \ {"absent"}
          <5>1. CASE CancelTask(action.task)
            BY <1>1, <2>1, <5>1, CancelRows
          <5>2. CASE UNCHANGED rows
            <6>1. status[action.task] \in Status \ {"absent"}
              BY <1>1, <2>1 DEF RowTypes, RowInv, Present
            <6> QED BY <1>3, <5>2, <6>1 DEF rows
          <5> QED BY <3>2, <5>1, <5>2
        <4>2. /\ action' \in Action /\ action'.task = action.task /\ action'.op = "cancel"
              /\ action'.seen # "absent"
          BY <1>1, <3>2, <4>1 DEF Action
        <4> QED BY <2>1, <4>1, <4>2 DEF ActionInv, Present, Grown
      <3> QED BY <1>10, <3>1, <3>2 DEF ServeAction
    <2>3. call' \in [Epoch -> Call] /\ CallInv'
      <3>1. ASSUME NEW f \in Epoch PROVE ChainOK(call[f])'
        <4>1. PICK c \in Call : c = call[f]
          BY <1>1
        <4>2. ChainOK(c)'
          BY <1>1, <2>2, <4>1, ChainKept DEF CallInv
        <4> QED BY <2>1, <4>1, <4>2
      <3> QED BY <1>1, <2>1, <3>1 DEF CallInv
    <2>4. ViewTypes' /\ cached' = cached
      BY <1>1, <2>1 DEF ViewTypes, page
    <2> QED BY <1>1, <1>2, <1>4, <2>1, <2>2, <2>3, <2>4
  <1>11. CASE TakeRetry
    <2>1. /\ UNCHANGED <<rows, open, cached, trouble, pinned>>
          /\ Begin(Request("activate", NoCase, action.answer))
          /\ active' = action.answer /\ loading' = TRUE
          /\ strayed' = (caseOf[action.answer] # open)
          /\ action' = NoAction
      BY <1>11 DEF TakeRetry
    <2>2. action.answer \in Task /\ Present(action.answer)
      BY <1>1, <1>11 DEF TakeRetry, ActionInv, Present
    <2>3. /\ Request("activate", NoCase, action.answer) \in Call
          /\ ChainOK(Request("activate", NoCase, action.answer))
      BY <2>2 DEF Request, Call, Stage, ChainOK
    <2>4. /\ call' \in [Epoch -> Call] /\ CallInv' /\ epoch' \in 0..MaxEpoch
          /\ streaming' = NoTask
      BY <2>1, <2>3, BeginStep
    <2>5. ViewTypes'
      BY <1>1, <2>1, <2>2, <2>4 DEF ViewTypes
    <2>6. action' \in Action /\ ActionInv'
      BY <2>1, Nulls DEF ActionInv
    <2> QED BY <1>1, <1>2, <1>3, <1>4, <2>1, <2>4, <2>5, <2>6
  <1>12. CASE TakeCancelled
    <2> DEFINE fetching == [action EXCEPT !.seen = "pending", !.fetching = TRUE]
    <2>1. /\ UNCHANGED <<rows, epoch, call, open, active, loading, trouble, streaming, strayed>>
          /\ action.op = "cancel" /\ action.seen # "pending"
          /\ action' \in {NoAction, fetching}
          /\ cached' \in {cached, [cached EXCEPT ![action.task] = action.seen]}
          /\ pinned' \in {pinned, action.task}
      BY <1>12 DEF TakeCancelled
    <2>2. action.task \in Task /\ Present(action.task) /\ action.seen \in Status
      BY <1>1, <2>1 DEF ActionInv, Present, Action
    <2>3. cached' \in [Task -> Status] /\ pinned' \in Task \cup {NoTask}
      BY <1>1, <2>1, <2>2 DEF ViewTypes
    <2>4. CacheInv'
      BY <1>1, <2>1, <2>2 DEF CacheInv, ActionInv, ViewTypes, Present, rows
    <2>5. ViewTypes'
      BY <1>1, <2>1, <2>3 DEF ViewTypes
    <2>6. action' \in Action /\ ActionInv'
      <3>1. CASE action' = NoAction
        BY <3>1, Nulls DEF ActionInv
      <3>2. CASE action' = fetching
        <4>1. /\ fetching \in Action /\ fetching.op = "cancel"
              /\ fetching.task = action.task /\ fetching.seen = "pending"
          BY <1>1, <2>1 DEF Action
        <4> QED BY <2>1, <2>2, <3>2, <4>1 DEF ActionInv, Present, rows
      <3> QED BY <2>1, <3>1, <3>2
    <2> QED BY <1>1, <1>2, <1>3, <1>5, <2>1, <2>4, <2>5, <2>6
  <1>13. CASE TakeCancelledReport
    <2>1. /\ UNCHANGED <<rows, epoch, call, open, active, cached, loading, trouble,
                         streaming, strayed>>
          /\ action' = NoAction /\ pinned' = action.task
      BY <1>13 DEF TakeCancelledReport
    <2>2. action.task \in Task \cup {NoTask}
      BY <1>1 DEF Action
    <2>3. ViewTypes' /\ CacheInv'
      BY <1>1, <2>1, <2>2 DEF ViewTypes, CacheInv, Present, rows
    <2>4. action' \in Action /\ ActionInv'
      BY <2>1, Nulls DEF ActionInv
    <2> QED BY <1>1, <1>2, <1>3, <1>5, <2>1, <2>3, <2>4
  <1>14. CASE FailAction
    <2>1. /\ UNCHANGED <<rows, epoch, call, open, loading, strayed>>
          /\ Report(action.op, caseOf[action.task]) /\ action' = NoAction
          /\ action.op # "none"
      BY <1>14 DEF FailAction
    <2>2. action.op \in {"retry", "cancel"} /\ action.task \in Task
      BY <1>1, <2>1 DEF ActionInv, Present, Action
    <2>3. caseOf[action.task] \in Case \cup {NoCase}
      BY <1>1, <2>2 DEF RowTypes
    <2>4. /\ active' \in Task \cup {NoTask} /\ pinned' \in Task \cup {NoTask}
          /\ streaming' \in Task \cup {NoTask}
          /\ cached' \in [Task -> Status] /\ CacheInv'
          /\ trouble' \in [op : {"none", "load", "stream", "retry", "cancel"},
                          case : Case \cup {NoCase}]
      BY <2>1, <2>2, <2>3, ReportTyped
    <2>5. ViewTypes'
      BY <1>1, <2>1, <2>4 DEF ViewTypes
    <2>6. action' \in Action /\ ActionInv'
      BY <2>1, Nulls DEF ActionInv
    <2> QED BY <1>1, <1>2, <1>3, <1>5, <2>1, <2>4, <2>5, <2>6
  <1>15. CASE Follow
    <2>1. /\ UNCHANGED <<rows, epoch, call, action, open, active, loading, trouble, strayed>>
          /\ streaming # NoTask /\ pinned' = streaming /\ streaming' \in {streaming, NoTask}
          /\ cached' = [cached EXCEPT ![streaming] = status[streaming]]
      BY <1>15 DEF Follow
    <2>2. streaming \in Task
      BY <1>1, <2>1 DEF ViewTypes
    <2>3. cached' \in [Task -> Status]
      BY <1>1, <2>1, <2>2 DEF ViewTypes, RowTypes
    <2>4. CacheInv'
      BY <1>1, <2>1, <2>2 DEF ViewTypes, CacheInv, RowInv, rows
    <2>5. ViewTypes'
      BY <1>1, <2>1, <2>3 DEF ViewTypes
    <2> QED BY <1>1, <1>2, <1>3, <1>4, <1>5, <2>1, <2>4, <2>5
  <1>16. CASE Pause \/ Resume
    <2>1. /\ UNCHANGED <<rows, epoch, call, action, open, active, cached, loading, trouble,
                         pinned, strayed>>
          /\ streaming' \in {NoTask, active}
      BY <1>16 DEF Pause, Resume
    <2>2. ViewTypes'
      BY <1>1, <2>1 DEF ViewTypes
    <2> QED BY <1>1, <1>2, <1>3, <1>4, <1>5, <2>1, <2>2
  <1>17. CASE StreamDenied
    <2>1. /\ UNCHANGED <<rows, epoch, call, action, open, loading, strayed>>
          /\ trouble' = [op |-> "stream", case |-> caseOf[streaming]] /\ Clear
          /\ streaming # NoTask
      BY <1>17 DEF StreamDenied
    <2>2. caseOf[streaming] \in Case \cup {NoCase}
      BY <1>1, <2>1 DEF ViewTypes, RowTypes
    <2>3. CacheInv' /\ ViewTypes'
      BY <1>1, <2>1, <2>2, ClearTyped DEF ViewTypes
    <2> QED BY <1>1, <1>2, <1>3, <1>4, <1>5, <2>1, <2>3
  <1>18. CASE Others
    <2>1. RowTypes' /\ RowInv' /\ Grown /\ UNCHANGED <<epoch, call, action, page>>
      BY <1>1, <1>18, OthersRows DEF Others
    <2>2. call' \in [Epoch -> Call] /\ CallInv'
      <3>1. ASSUME NEW f \in Epoch PROVE ChainOK(call[f])'
        <4>1. PICK c \in Call : c = call[f]
          BY <1>1
        <4>2. ChainOK(c)'
          BY <1>1, <2>1, <4>1, ChainKept DEF CallInv
        <4> QED BY <2>1, <4>1, <4>2
      <3> QED BY <1>1, <2>1, <3>1 DEF CallInv
    <2>3. ViewTypes' /\ cached' = cached
      BY <1>1, <2>1 DEF ViewTypes, page
    <2> QED BY <1>1, <1>2, <1>4, <2>1, <2>2, <2>3
  <1>19. CASE UNCHANGED vars
    <2>1. UNCHANGED <<rows, epoch, call, action, page>>
      BY <1>19 DEF vars
    <2>2. ViewTypes' /\ cached' = cached
      BY <1>1, <2>1 DEF ViewTypes, page
    <2> QED BY <1>1, <1>2, <1>3, <1>4, <1>5, <2>1, <2>2
  <1> QED
    BY <1>6, <1>7, <1>8, <1>9, <1>10, <1>11, <1>12, <1>13, <1>14, <1>15, <1>16, <1>17,
       <1>18, <1>19, TakeStep, FailStep DEF Next, Retry, Cancel

\* The invariant at the beginning.
LEMMA InitBase == Init => BaseInv
  <1> SUFFICES ASSUME Init PROVE BaseInv
    OBVIOUS
  <1>1. RowTypes /\ RowInv
    BY DEF Init, Server!Init, RowTypes, RowInv, Status
  <1>2. call \in [Epoch -> Call] /\ CallInv
    BY Nulls DEF Init, CallInv
  <1>3. action \in Action /\ ActionInv
    BY Nulls DEF Init, ActionInv
  <1>4. ViewTypes /\ CacheInv
    BY DEF Init, ViewTypes, CacheInv, Status, NoTrouble
  <1>5. epoch \in 0..MaxEpoch
    BY DEF Init
  <1> QED BY <1>1, <1>2, <1>3, <1>4, <1>5, TypeParts DEF BaseInv

\* TypeOK: values keep their types.
THEOREM TypeCorrect == Spec => []TypeOK
  <1>1. BaseInv => TypeOK
    BY DEF BaseInv
  <1> QED BY <1>1, InitBase, BaseStep, PTL DEF Spec

-----------------------------------------------------------------------------
(* What the drawer shows *)

\* The chain of the current epoch is about the open case; it has shown nothing
\* before it knows the task, and then shows that task unless an error cleared it.
Current(c) ==
  c.stage # "idle" =>
    /\ c.case # NoCase => c.case = open
    /\ c.case = NoCase /\ ~strayed => caseOf[c.task] = open
    /\ c.stage \in {"recover", "latest", "create"} => active = NoTask
    /\ c.stage \in {"open", "activate"} /\ ~strayed /\ trouble.op = "none" =>
         c.task = active
    /\ c.stage = "report" /\ ~strayed /\ trouble.op = "none" =>
         active # NoTask /\ cached[active] # "absent"

CurrentInv ==
  /\ epoch # 0 => Current(call[epoch])
  /\ open # NoCase => epoch # 0
  /\ trouble.op = "none" => trouble = NoTrouble

ViewInv == CurrentInv /\ OnlyRetriesStray /\ LoadErrorsStayHome /\ WaitsForAnAnswer

\* An open drawer without a task, an error or the excuse of a retry from elsewhere.
Blank ==
  /\ open # NoCase /\ ~strayed /\ trouble = NoTrouble
  /\ active = NoTask \/ cached[active] = "absent"

\* WaitsForAnAnswer in these words.
LEMMA WaitsParts ==
  WaitsForAnAnswer <=> (loading \/ Blank => epoch # 0 /\ call[epoch].stage # "idle")
BY DEF WaitsForAnAnswer, Blank

\* A step that leaves the current chain and the drawer as they are, or tells more
\* of the shown task.
LEMMA ViewKept ==
  ASSUME BaseInv, ViewInv, Grown,
         UNCHANGED <<epoch, open, trouble, strayed, active>>,
         streaming' \in {streaming, NoTask},
         epoch # 0 => /\ call'[epoch].stage = call[epoch].stage
                      /\ call'[epoch].case = call[epoch].case
                      /\ call[epoch].stage \notin {"create", "latest"} =>
                           call'[epoch].task = call[epoch].task,
         loading' => loading,
         ~strayed /\ active # NoTask /\ cached'[active] = "absent" =>
           cached[active] = "absent"
  PROVE  ViewInv'
  <1>1. epoch # 0 => epoch \in Epoch /\ ChainOK(call[epoch])
    BY TypeParts, Numbers DEF BaseInv, CallInv
  <1>2. active # NoTask => active \in Task
    BY TypeParts DEF BaseInv, ViewTypes
  <1>3. OnlyRetriesStray'
    BY <1>2 DEF ViewInv, OnlyRetriesStray, Grown
  <1>4. LoadErrorsStayHome'
    BY DEF ViewInv, LoadErrorsStayHome
  <1>5. epoch # 0 => Current(call[epoch])'
    <2> SUFFICES ASSUME epoch # 0, call[epoch].stage # "idle"
                 PROVE  Current(call[epoch])'
      BY DEF Current
    <2>1. Current(call[epoch])
      BY DEF ViewInv, CurrentInv
    <2>2. call[epoch].case = NoCase =>
            /\ call[epoch].stage \notin {"create", "latest"}
            /\ call[epoch].task \in Task /\ caseOf[call[epoch].task] # NoCase
      <3>1. call[epoch] \in Call
        BY <1>1 DEF BaseInv, TypeOK
      <3> QED BY <1>1, <3>1 DEF ChainOK, Present, Call, Stage
    <2> QED BY <2>1, <2>2 DEF Current, Grown
  <1>6. WaitsForAnAnswer'
    <2>1. Blank' => Blank
      BY DEF Blank
    <2>2. loading \/ Blank => epoch # 0 /\ call[epoch].stage # "idle"
      BY WaitsParts DEF ViewInv
    <2>3. loading' \/ Blank' => epoch # 0 /\ call'[epoch].stage # "idle"
      BY <2>1, <2>2
    <2> QED BY <2>3 DEF WaitsForAnAnswer, Blank
  <1> QED BY <1>3, <1>4, <1>5, <1>6 DEF ViewInv, CurrentInv

\* A step that shows an error.
LEMMA TroubleShown ==
  ASSUME BaseInv, ViewInv, UNCHANGED <<caseOf, epoch, open, strayed>>,
         trouble'.op # "none", trouble'.op = "load" => trouble'.case = open,
         \/ active' = NoTask /\ streaming' = NoTask
         \/ UNCHANGED <<active, streaming>>,
         epoch # 0 => call'[epoch] = call[epoch] \/ call'[epoch] = NoCall,
         loading' => loading /\ call'[epoch] = call[epoch]
  PROVE  ViewInv'
  <1>1. OnlyRetriesStray'
    BY DEF ViewInv, OnlyRetriesStray
  <1>2. LoadErrorsStayHome'
    BY DEF LoadErrorsStayHome
  <1>3. epoch # 0 => Current(call[epoch])'
    BY Nulls DEF ViewInv, CurrentInv, Current
  <1>4. WaitsForAnAnswer'
    <2>1. ~Blank'
      BY Nulls DEF Blank
    <2>2. loading => epoch # 0 /\ call[epoch].stage # "idle"
      BY WaitsParts DEF ViewInv
    <2>3. loading' \/ Blank' => epoch # 0 /\ call'[epoch].stage # "idle"
      BY <2>1, <2>2
    <2> QED BY <2>3 DEF WaitsForAnAnswer, Blank
  <1> QED BY <1>1, <1>2, <1>3, <1>4 DEF ViewInv, CurrentInv

\* The current chain, when it ends, takes the skeleton away.
LEMMA LastEnds ==
  ASSUME ViewInv, epoch # 0, call[epoch].stage # "idle", End(epoch)
  PROVE  ~loading'
BY DEF ViewInv, CurrentInv, Current, End, Stale

\* A drawer whose current chain has ended and that shows its task.
LEMMA TaskShown ==
  ASSUME BaseInv, ViewInv, epoch # 0, UNCHANGED <<caseOf, epoch, open, trouble, strayed>>,
         call'[epoch].stage = "idle", ~loading',
         ~strayed /\ trouble = NoTrouble => active' # NoTask /\ cached'[active'] # "absent",
         ~strayed /\ active' # NoTask => open # NoCase /\ caseOf[active'] = open,
         streaming' # NoTask => streaming' = active' /\ open # NoCase
  PROVE  ViewInv'
  <1>1. OnlyRetriesStray' /\ LoadErrorsStayHome'
    BY DEF ViewInv, OnlyRetriesStray, LoadErrorsStayHome
  <1>2. WaitsForAnAnswer'
    BY DEF WaitsForAnAnswer
  <1> QED BY <1>1, <1>2 DEF ViewInv, CurrentInv, Current

\* The current chain finds its task.
LEMMA AcceptView ==
  ASSUME BaseInv, ViewInv, NEW e \in Epoch, e = epoch, Accept(e),
         UNCHANGED <<rows, epoch, open, trouble, strayed>>,
         call[e].stage # "idle", Present(call[e].task), caseOf[call[e].task] = open,
         call[e].seen \in Status \ {"absent"}, streaming \in {NoTask, call[e].task}
  PROVE  ViewInv'
  <1>1. /\ call[e].task \in Task /\ open # NoCase /\ epoch # 0 /\ caseOf' = caseOf
        /\ call[e].task # NoTask
    BY Numbers DEF Present, rows, Epoch
  <1>2. /\ \/ call'[e].stage = "report" /\ call'[e].case = call[e].case
              /\ call'[e].task = call[e].task /\ loading' = loading
              /\ UNCHANGED <<pinned, streaming>>
           \/ End(e) /\ call'[e] = NoCall
              /\ streaming' \in {streaming, call[e].task} /\ pinned' = call[e].task
        /\ active' = call[e].task /\ cached'[active'] # "absent"
    BY AcceptStep
  <1>3. /\ active' # NoTask /\ caseOf[active'] = open
        /\ streaming' # NoTask => streaming' = active'
    BY <1>1, <1>2
  <1>4. CASE End(e) /\ call'[e] = NoCall
    <2>1. ~loading'
      BY <1>1, <1>4, LastEnds
    <2> QED BY <1>1, <1>2, <1>3, <1>4, <2>1, Nulls, TaskShown
  <1>5. CASE /\ call'[e].stage = "report" /\ call'[e].case = call[e].case
             /\ call'[e].task = call[e].task
    <2>1. OnlyRetriesStray' /\ LoadErrorsStayHome'
      BY <1>1, <1>3 DEF ViewInv, OnlyRetriesStray, LoadErrorsStayHome
    <2>2. WaitsForAnAnswer'
      BY <1>1, <1>5 DEF WaitsForAnAnswer
    <2>3. Current(call[epoch])'
      BY <1>1, <1>2, <1>3, <1>5 DEF ViewInv, CurrentInv, Current
    <2> QED BY <1>1, <2>1, <2>2, <2>3 DEF ViewInv, CurrentInv
  <1> QED BY <1>2, <1>4, <1>5

\* A chain takes its answer.
LEMMA TakeView ==
  ASSUME BaseInv, ViewInv, NEW e \in Epoch, Take(e)
  PROVE  ViewInv'
  <1>1. UNCHANGED <<rows, epoch, action, open, trouble, strayed>> /\ caseOf' = caseOf /\ Grown
    BY TypeParts, RowsKept DEF BaseInv, Take, rows
  <1>2. /\ call[e] \in Call /\ ChainOK(call[e]) /\ call[e].seen \in Status
        /\ call[e].stage \in {"recover", "open", "activate", "report"} =>
             Present(call[e].task) /\ call[e].seen # "absent"
        /\ call[e].stage \in {"latest", "create"} /\ call[e].seen # "absent" =>
             Present(call[e].task)
        /\ call[e].stage \in {"recover", "latest", "create", "open"} => call[e].case \in Case
    BY Answered DEF Take
  <1>3. CASE e # epoch
    <2>1. End(e) /\ UNCHANGED <<active, cached, streaming>>
      BY <1>3 DEF Take, TakeFound, TakeCreated, TakeSnapshot, TakeReport, Drop, Stale
    <2>2. /\ \A f \in Epoch : call'[f] = IF f = e THEN NoCall ELSE call[f]
      BY <1>1, <2>1, EndStep
    <2>3. epoch # 0 => call'[epoch] = call[epoch]
      BY <1>3, <2>2, TypeParts, Numbers DEF BaseInv
    <2>4. loading' => loading
      BY <2>1 DEF End
    <2> QED BY <1>1, <2>1, <2>3, <2>4, ViewKept
  <1>4. CASE e = epoch
    <2>1. epoch # 0 /\ Current(call[e])
      BY <1>4 DEF ViewInv, CurrentInv, Epoch
    <2>2. OnlyRetriesStray
      BY DEF ViewInv
    <2>3. CASE TakeFound(e)
      <3>1. /\ call[e].stage \in {"recover", "latest"} /\ call[e].case \in Case
            /\ call[e].case = open /\ active = NoTask /\ ~Stale(e, call[e].case)
        BY <1>2, <1>4, <2>1, <2>3 DEF TakeFound, Current, Stale
      <3>2. streaming = NoTask
        BY <2>2, <3>1 DEF OnlyRetriesStray
      <3>3. CASE call[e].seen # "absent" /\ Accept(e)
        <4>1. Present(call[e].task)
          BY <1>2, <3>1, <3>3
        <4>2. caseOf[call[e].task] = open
          BY <1>2, <3>1, <4>1, Numbers DEF ChainOK, Present
        <4> QED BY <1>1, <1>2, <1>4, <3>1, <3>2, <3>3, <4>1, <4>2, AcceptView
      <3>4. CASE /\ GoOn(e, Request("create", call[e].case, NoTask)) /\ UNCHANGED active
        <4>1. /\ call' = [call EXCEPT ![e] = Request("create", call[e].case, NoTask)]
              /\ UNCHANGED <<loading, cached, streaming, active>>
          BY <3>4 DEF GoOn
        <4>2. /\ call'[e].stage = "create" /\ call'[e].case = open
          BY <3>1, <4>1 DEF Request, BaseInv, TypeOK
        <4>3. OnlyRetriesStray' /\ LoadErrorsStayHome'
          BY <1>1, <4>1 DEF ViewInv, OnlyRetriesStray, LoadErrorsStayHome
        <4>4. WaitsForAnAnswer'
          BY <1>1, <1>4, <2>1, <4>2 DEF WaitsForAnAnswer
        <4>5. Current(call[epoch])'
          BY <1>1, <1>4, <3>1, <4>1, <4>2 DEF Current
        <4> QED BY <1>1, <4>3, <4>4, <4>5 DEF ViewInv, CurrentInv
      <3> QED BY <2>3, <3>1, <3>3, <3>4 DEF TakeFound
    <2>4. CASE TakeCreated(e)
      <3>1. /\ call[e].stage = "create" /\ call[e].case \in Case
            /\ call[e].case = open /\ active = NoTask /\ ~Stale(e, call[e].case)
        BY <1>2, <1>4, <2>1, <2>4 DEF TakeCreated, Current, Stale
      <3>2. streaming = NoTask
        BY <2>2, <3>1 DEF OnlyRetriesStray
      <3>3. /\ call[e].task \in Task /\ caseOf[call[e].task] = open /\ call[e].task # NoTask
        BY <1>2, <3>1, Numbers DEF ChainOK, Present
      <3>4. /\ call' = [call EXCEPT ![e] = Request("open", call[e].case, call[e].task)]
            /\ UNCHANGED <<loading, cached, streaming>> /\ active' = call[e].task
        BY <2>4, <3>1 DEF TakeCreated, GoOn
      <3>5. /\ call'[e].stage = "open" /\ call'[e].case = open /\ call'[e].task = active'
        BY <3>1, <3>4 DEF Request, BaseInv, TypeOK
      <3>6. OnlyRetriesStray' /\ LoadErrorsStayHome'
        BY <1>1, <3>1, <3>2, <3>3, <3>4 DEF ViewInv, OnlyRetriesStray, LoadErrorsStayHome
      <3>7. WaitsForAnAnswer'
        BY <1>1, <1>4, <2>1, <3>5 DEF WaitsForAnAnswer
      <3>8. Current(call[epoch])'
        BY <1>1, <1>4, <3>1, <3>5 DEF Current
      <3> QED BY <1>1, <3>6, <3>7, <3>8 DEF ViewInv, CurrentInv
    <2>5. CASE TakeSnapshot(e)
      <3>1. call[e].stage \in {"open", "activate"} /\ Present(call[e].task)
            /\ call[e].seen # "absent"
        BY <1>2, <2>5 DEF TakeSnapshot
      <3>2. CASE /\ ~Stale(e, caseOf[call[e].task]) /\ call[e].task = active /\ Accept(e)
        <4>1. caseOf[call[e].task] = open
          BY <3>2 DEF Stale
        <4>2. streaming \in {NoTask, call[e].task}
          BY <2>2, <3>2 DEF OnlyRetriesStray
        <4> QED BY <1>1, <1>2, <1>4, <3>1, <3>2, <4>1, <4>2, AcceptView
      <3>3. CASE /\ ~(~Stale(e, caseOf[call[e].task]) /\ call[e].task = active) /\ Drop(e)
        <4>1. End(e) /\ UNCHANGED <<active, cached, streaming>>
          BY <3>3 DEF Drop
        <4>2. ~loading' /\ call'[e] = NoCall
          BY <1>1, <1>4, <2>1, <3>1, <4>1, LastEnds, EndStep
        <4>3. ~strayed => caseOf[call[e].task] = open
          BY <1>2, <2>1, <3>1, Numbers DEF ChainOK, Current, Present
        <4>4. ~(~strayed /\ trouble = NoTrouble)
          BY <1>4, <2>1, <3>1, <3>3, <4>3, Nulls DEF Current, Stale
        <4> QED BY <1>1, <1>4, <2>1, <2>2, <4>1, <4>2, <4>4, Nulls, TaskShown
            DEF OnlyRetriesStray
      <3> QED BY <2>5, <3>2, <3>3 DEF TakeSnapshot
    <2>6. CASE TakeReport(e)
      <3>1. call[e].stage = "report" /\ End(e) /\ UNCHANGED <<active, cached, streaming>>
        BY <2>6 DEF TakeReport
      <3>2. ~loading' /\ call'[e] = NoCall
        BY <1>1, <1>4, <2>1, <3>1, LastEnds, EndStep
      <3>3. ~strayed /\ trouble = NoTrouble => active # NoTask /\ cached[active] # "absent"
        BY <2>1, <3>1, Nulls DEF Current
      <3> QED BY <1>1, <1>4, <2>1, <2>2, <3>1, <3>2, <3>3, Nulls, TaskShown
          DEF OnlyRetriesStray
    <2> QED BY <2>3, <2>4, <2>5, <2>6 DEF Take
  <1> QED BY <1>3, <1>4

\* A request of a chain fails.
LEMMA FailView ==
  ASSUME BaseInv, ViewInv, NEW e \in Epoch, Fail(e)
  PROVE  ViewInv'
  <1>1. /\ UNCHANGED <<rows, epoch, action, open, strayed>> /\ caseOf' = caseOf /\ Grown
        /\ End(e) /\ call[e].stage # "idle"
    BY TypeParts, RowsKept DEF BaseInv, Fail, rows
  <1>2. \A f \in Epoch : call'[f] = IF f = e THEN NoCall ELSE call[f]
    BY <1>1, EndStep
  <1>3. ASSUME NEW op, NEW c, Report(op, c), op # "none", op = "load" => c = open, e = epoch
        PROVE  ViewInv'
    <2>1. /\ trouble'.op = op /\ trouble'.case = c
          /\ \/ active' = NoTask /\ streaming' = NoTask
             \/ UNCHANGED <<active, streaming>>
      BY <1>3 DEF Report, Clear
    <2>2. epoch # 0 /\ ~loading' /\ call'[epoch] = NoCall
      BY <1>1, <1>2, <1>3, LastEnds DEF Epoch
    <2> QED BY <1>1, <1>3, <2>1, <2>2, TroubleShown
  <1>4. CASE call[e].case # NoCase /\ ~Stale(e, call[e].case) /\ Report("load", call[e].case)
    BY <1>3, <1>4 DEF Stale
  <1>5. CASE /\ call[e].case = NoCase /\ e = epoch /\ Report("retry", caseOf[call[e].task])
    BY <1>3, <1>5
  <1>6. CASE /\ IF call[e].case # NoCase THEN Stale(e, call[e].case)
                ELSE e # epoch \/ call[e].task # active
             /\ UNCHANGED <<active, cached, pinned, streaming, trouble>>
    <2>1. CASE e # epoch
      <3>1. epoch # 0 => call'[epoch] = call[epoch]
        BY <1>1, <1>2, <2>1, TypeParts, Numbers DEF BaseInv
      <3>2. loading' => loading
        BY <1>1 DEF End
      <3> QED BY <1>1, <1>6, <3>1, <3>2, ViewKept
    <2>2. CASE e = epoch
      <3>1. epoch # 0 /\ Current(call[e]) /\ OnlyRetriesStray
        BY <2>2 DEF ViewInv, CurrentInv, Epoch
      <3>2. call[e].case = NoCase /\ call[e].task # active
        BY <1>1, <1>6, <2>2, <3>1 DEF Current, Stale
      <3>3. call[e].stage \in {"activate", "report"}
        <4>1. call[e] \in Call /\ ChainOK(call[e])
          BY DEF BaseInv, TypeOK, CallInv
        <4> QED BY <1>1, <3>2, <4>1 DEF ChainOK, Call, Stage
      <3>4. ~strayed /\ trouble = NoTrouble => active # NoTask /\ cached[active] # "absent"
        BY <3>1, <3>2, <3>3, Nulls DEF Current
      <3>5. ~loading' /\ call'[e] = NoCall
        BY <1>1, <1>2, <2>2, <3>1, LastEnds
      <3> QED BY <1>1, <1>6, <2>2, <3>1, <3>4, <3>5, Nulls, TaskShown DEF OnlyRetriesStray
    <2> QED BY <2>1, <2>2
  <1> QED BY <1>4, <1>5, <1>6 DEF Fail

\* Every step keeps the drawer true to its case.
LEMMA ViewStep ==
  ASSUME BaseInv, ViewInv, [Next]_vars
  PROVE  ViewInv'
  <1>1. /\ RowTypes /\ RowInv /\ epoch \in 0..MaxEpoch /\ ViewTypes /\ action \in Action
        /\ ActionInv /\ CacheInv /\ OnlyRetriesStray
    BY TypeParts DEF BaseInv, ViewInv
  <1>2. UNCHANGED rows => Grown /\ caseOf' = caseOf
    BY <1>1, RowsKept DEF rows
  <1>3. ASSUME Grown, UNCHANGED <<epoch, page>>,
               epoch # 0 => /\ call'[epoch].stage = call[epoch].stage
                            /\ call'[epoch].case = call[epoch].case
                            /\ call[epoch].stage \notin {"create", "latest"} =>
                                 call'[epoch].task = call[epoch].task
        PROVE  ViewInv'
    BY <1>3, ViewKept DEF page
  <1>4. ASSUME NEW c \in Case, NEW startNew \in BOOLEAN, OpenCase(c, startNew)
        PROVE  ViewInv'
    <2>1. PICK r \in {Request("create", c, NoTask), Request("latest", c, NoTask),
                      Request("recover", c, pinned)} :
            Begin(r) /\ (r = Request("recover", c, pinned) => pinned \in Rows(c))
      <3>1. CASE startNew
        BY <1>4, <3>1 DEF OpenCase, Request
      <3>2. CASE ~startNew /\ pinned \in Rows(c)
        BY <1>4, <3>2 DEF OpenCase
      <3>3. CASE ~startNew /\ pinned \notin Rows(c)
        BY <1>4, <3>3 DEF OpenCase, Request
      <3> QED BY <3>1, <3>2, <3>3
    <2>2. r \in Call /\ ChainOK(r) /\ r.case = c /\ r.stage \in {"recover", "latest", "create"}
      BY <2>1, FirstRequest
    <2>3. /\ UNCHANGED rows /\ open' = c /\ active' = NoTask /\ trouble' = NoTrouble
      BY <1>4 DEF OpenCase
    <2>4. epoch' # 0 /\ call'[epoch'] = r /\ streaming' = NoTask
      BY <2>1, <2>2, <2>3, BeginStep
    <2>5. OnlyRetriesStray' /\ LoadErrorsStayHome'
      BY <2>3, <2>4, Nulls DEF OnlyRetriesStray, LoadErrorsStayHome
    <2>6. WaitsForAnAnswer'
      BY <2>2, <2>4 DEF WaitsForAnAnswer
    <2>7. Current(call[epoch])'
      BY <2>2, <2>3, <2>4 DEF Current
    <2> QED BY <2>3, <2>4, <2>5, <2>6, <2>7 DEF ViewInv, CurrentInv
  <1>5. CASE CloseDrawer
    <2>1. /\ UNCHANGED rows /\ open' = NoCase /\ active' = NoTask /\ trouble' = NoTrouble
          /\ loading' = FALSE /\ Begin(NoCall)
      BY <1>5 DEF CloseDrawer
    <2>2. epoch' # 0 /\ call'[epoch'] = NoCall /\ streaming' = NoTask
      BY <2>1, Nulls, BeginStep
    <2>3. OnlyRetriesStray' /\ LoadErrorsStayHome' /\ WaitsForAnAnswer'
      BY <2>1, <2>2, Nulls DEF OnlyRetriesStray, LoadErrorsStayHome, WaitsForAnAnswer
    <2>4. Current(call[epoch])'
      BY <2>2, Nulls DEF Current
    <2> QED BY <2>1, <2>2, <2>3, <2>4 DEF ViewInv, CurrentInv
  <1>6. ASSUME NEW op \in {"retry", "cancel"}, NEW s \in {"FAILED", "CREATED"}, Click(op, s)
        PROVE  ViewInv'
    <2>1. UNCHANGED <<rows, epoch, call, page>>
      BY <1>6 DEF Click
    <2> QED BY <1>2, <1>3, <2>1
  <1>7. ASSUME NEW e \in Epoch, Serve(e) PROVE ViewInv'
    <2>1. /\ Grown /\ UNCHANGED <<epoch, action, page>>
          /\ \A f \in Epoch : call'[f].stage = call[f].stage /\ call'[f].case = call[f].case
          /\ call[e].stage \notin {"create", "latest"} => call'[e].task = call[e].task
          /\ \A f \in Epoch : f # e => call'[f] = call[f]
      BY <1>7, ServeStep
    <2>2. epoch # 0 => epoch \in Epoch
      BY <1>1, Numbers
    <2>3. epoch # 0 /\ call[epoch].stage \notin {"create", "latest"} =>
            call'[epoch].task = call[epoch].task
      <3>1. CASE e = epoch
        BY <2>1, <3>1
      <3>2. CASE e # epoch
        BY <2>1, <2>2, <3>2
      <3> QED BY <3>1, <3>2
    <2> QED BY <1>3, <2>1, <2>2, <2>3
  <1>8. CASE ServeAction
    <2>1. UNCHANGED <<epoch, call, page>> /\ action.task \in Task /\ Present(action.task)
      BY <1>1, <1>8 DEF ServeAction, ActionInv, Present
    <2>2. Grown
      <3>1. (\E t \in Task : RetryTask(action.task, t)) \/ CancelTask(action.task)
              \/ UNCHANGED rows
        BY <1>8 DEF ServeAction
      <3> QED BY <1>1, <1>2, <2>1, <3>1, RetryRows, CancelRows
    <2> QED BY <1>3, <2>1, <2>2
  <1>9. CASE TakeRetry
    <2>1. /\ UNCHANGED <<rows, open, trouble>>
          /\ Begin(Request("activate", NoCase, action.answer))
          /\ active' = action.answer /\ loading' = TRUE
          /\ strayed' = (caseOf[action.answer] # open)
      BY <1>9 DEF TakeRetry
    <2>2. action.answer \in Task /\ Present(action.answer)
      BY <1>1, <1>9 DEF TakeRetry, ActionInv, Present
    <2>3. /\ Request("activate", NoCase, action.answer) \in Call
          /\ ChainOK(Request("activate", NoCase, action.answer))
      BY <2>2 DEF Request, Call, Stage, ChainOK
    <2>4. /\ epoch' # 0 /\ streaming' = NoTask
          /\ call'[epoch'] = Request("activate", NoCase, action.answer)
      BY <2>1, <2>3, BeginStep
    <2>5. /\ call'[epoch'].stage = "activate" /\ call'[epoch'].case = NoCase
          /\ call'[epoch'].task = active'
      BY <2>1, <2>4 DEF Request
    <2>6. ~strayed' => caseOf[active'] = open /\ open # NoCase
      BY <2>1, <2>2 DEF Present
    <2>7. OnlyRetriesStray' /\ LoadErrorsStayHome'
      BY <1>2, <2>1, <2>4, <2>6 DEF ViewInv, OnlyRetriesStray, LoadErrorsStayHome
    <2>8. WaitsForAnAnswer'
      BY <2>4, <2>5 DEF WaitsForAnAnswer
    <2>9. Current(call[epoch])'
      BY <1>2, <2>1, <2>5, <2>6 DEF Current
    <2> QED BY <2>1, <2>4, <2>7, <2>8, <2>9 DEF ViewInv, CurrentInv
  <1>10. CASE TakeCancelled
    <2>1. /\ UNCHANGED <<rows, epoch, call, open, active, loading, trouble, streaming, strayed>>
          /\ action.op = "cancel" /\ action.seen # "pending"
          /\ \/ cached' = [cached EXCEPT ![action.task] = action.seen]
             \/ UNCHANGED cached
      BY <1>10 DEF TakeCancelled
    <2>2. action.task \in Task /\ action.seen # "absent"
      BY <1>1, <2>1 DEF ActionInv, Present
    <2>3. active # NoTask /\ cached'[active] = "absent" => cached[active] = "absent"
      BY <1>1, <2>1, <2>2 DEF ViewTypes
    <2> QED BY <1>2, <2>1, <2>3, ViewKept
  <1>11. CASE TakeCancelledReport
    <2>1. UNCHANGED <<rows, epoch, call, open, active, cached, loading, trouble,
                      streaming, strayed>>
      BY <1>11 DEF TakeCancelledReport
    <2> QED BY <1>2, <2>1, ViewKept
  <1>12. CASE FailAction
    <2>1. /\ UNCHANGED <<rows, epoch, call, open, loading, strayed>>
          /\ trouble'.op = action.op /\ action.op \in {"retry", "cancel"}
          /\ \/ active' = NoTask /\ streaming' = NoTask
             \/ UNCHANGED <<active, streaming>>
      BY <1>1, <1>12 DEF FailAction, Report, Clear, Action
    <2> QED BY <1>2, <2>1, TroubleShown
  <1>13. CASE Follow
    <2>1. /\ UNCHANGED <<rows, epoch, call, open, active, loading, trouble, strayed>>
          /\ streaming # NoTask /\ streaming' \in {streaming, NoTask}
          /\ cached' = [cached EXCEPT ![streaming] = status[streaming]]
      BY <1>13 DEF Follow
    <2>2. ~strayed /\ active # NoTask => cached'[active] # "absent"
      BY <1>1, <2>1 DEF OnlyRetriesStray, ViewTypes, RowInv
    <2> QED BY <1>2, <2>1, <2>2, ViewKept
  <1>14. CASE Pause
    <2>1. /\ UNCHANGED <<rows, epoch, call, open, active, cached, loading, trouble, strayed>>
          /\ streaming' = NoTask
      BY <1>14 DEF Pause
    <2> QED BY <1>2, <2>1, ViewKept
  <1>15. CASE Resume
    <2>1. /\ UNCHANGED <<rows, epoch, call, open, active, cached, loading, trouble, strayed>>
          /\ streaming' = active /\ open # NoCase /\ caseOf' = caseOf
      BY <1>2, <1>15 DEF Resume
    <2> QED BY <2>1 DEF ViewInv, CurrentInv, Current, OnlyRetriesStray, LoadErrorsStayHome,
                        WaitsForAnAnswer
  <1>16. CASE StreamDenied
    <2>1. /\ UNCHANGED <<rows, epoch, call, open, loading, strayed>>
          /\ trouble'.op = "stream" /\ active' = NoTask /\ streaming' = NoTask
      BY <1>16 DEF StreamDenied, Clear
    <2> QED BY <1>2, <2>1, TroubleShown
  <1>17. CASE Others
    <2>1. Grown /\ UNCHANGED <<epoch, call, page>>
      BY <1>1, <1>17, OthersRows DEF Others
    <2> QED BY <1>3, <2>1
  <1>18. CASE UNCHANGED vars
    <2>1. UNCHANGED <<rows, epoch, call, page>>
      BY <1>18 DEF vars
    <2> QED BY <1>2, <1>3, <2>1
  <1> QED
    BY <1>4, <1>5, <1>6, <1>7, <1>8, <1>9, <1>10, <1>11, <1>12, <1>13, <1>14, <1>15,
       <1>16, <1>17, <1>18, TakeView, FailView DEF Next, Retry, Cancel

\* What holds of the drawer in every state.
LEMMA DrawerInvariant == Spec => [](BaseInv /\ ViewInv)
  <1>1. Init => BaseInv /\ ViewInv
    BY InitBase DEF Init, ViewInv, CurrentInv, OnlyRetriesStray, LoadErrorsStayHome,
                    WaitsForAnAnswer, NoTrouble
  <1>2. BaseInv /\ ViewInv /\ [Next]_vars => (BaseInv /\ ViewInv)'
    BY BaseStep, ViewStep
  <1> QED BY <1>1, <1>2, PTL DEF Spec

\* OnlyRetriesStray: late answers reach no other case's drawer, but for retries.
THEOREM StrayOnlyByRetry == Spec => []OnlyRetriesStray
  <1>1. ViewInv => OnlyRetriesStray
    BY DEF ViewInv
  <1> QED BY <1>1, DrawerInvariant, PTL

\* LoadErrorsStayHome: a load error is about the case in the header.
THEOREM ErrorsAtHome == Spec => []LoadErrorsStayHome
  <1>1. ViewInv => LoadErrorsStayHome
    BY DEF ViewInv
  <1> QED BY <1>1, DrawerInvariant, PTL

\* WaitsForAnAnswer: a skeleton, or a blank drawer, has a request under way.
THEOREM NeverIdleWaiting == Spec => []WaitsForAnAnswer
  <1>1. ViewInv => WaitsForAnAnswer
    BY DEF ViewInv
  <1> QED BY <1>1, DrawerInvariant, PTL

=============================================================================
