----------------------------- MODULE CaseDrawer -----------------------------
(***************************************************************************)
(* The drawer of the frontend while its engineer goes from case to case:   *)
(* what openCaseAnalysis, retryAsNewTask, cancelTask and closeDrawer of    *)
(* the store have under way when the answers come late, in another order   *)
(* or not at all.                                                          *)
(*                                                                         *)
(* requestEpoch numbers the openings, closings and activations; each has   *)
(* at most one chain of requests, so call is indexed by it.  The server is *)
(* the TaskRegister that Admission implements, with a key of its own for   *)
(* every task; tasks are numbered in the order of created_at.  Following   *)
(* one task's events is TaskStream's subject; here the stream is only who  *)
(* is being followed.  A task whose report is there to show has no retry   *)
(* button: PARTIAL_RESULT is one of the COMPLETED here.                    *)
(***************************************************************************)
EXTENDS Integers

CONSTANTS
  Case, NoCase,
  MaxTask,       \* bound: tasks
  MaxEpoch       \* bound: openings, closings and activations

ASSUME CaseAssumption == NoCase \notin Case
ASSUME BoundAssumption == MaxTask \in Nat /\ MaxEpoch \in Nat

VARIABLES
  status, caseOf, origin,  \* ai_analysis_task: see TaskRegister
  epoch,       \* requestEpoch
  call,        \* per epoch: the request its chain waits for
  action,      \* the retry or the cancellation actionPending stands for
  open,        \* activeCase, NoCase when the drawer is closed
  active,      \* activeTaskId
  cached,      \* status of each task in tasksById, "absent" if not there
  loading,     \* the skeleton hides everything else
  trouble,     \* error: what failed, and the case it was about
  pinned,      \* the recovery record's task
  streaming,   \* the task whose events arrive
  strayed      \* a retry came back to another case, or to a closed drawer

Task   == 1..MaxTask
NoTask == 0
Epoch  == 1..MaxEpoch

rows  == <<status, caseOf, origin>>
page  == <<open, active, cached, loading, trouble, pinned, streaming, strayed>>
vars  == <<rows, epoch, call, action, page>>

-----------------------------------------------------------------------------
(* The server *)

Named == [t \in Task |-> IF status[t] = "absent" THEN NoTask ELSE t]

Server == INSTANCE TaskRegister WITH Key <- Task, NoKey <- NoTask, keyOf <- Named

Status == {"absent", "CREATED"} \cup Server!Final

New(t) == status[t] = "absent" /\ \A u \in 1..(t - 1) : status[u] # "absent"

Rows(c) == {t \in Task : caseOf[t] = c}

CreateOrResume(c, t) ==
  \/ t \in Server!Running(c) /\ UNCHANGED rows
  \/ New(t) /\ Server!Start(t, t, c)

RetryTask(o, t) ==
  \/ status[o] = "FAILED" /\ t \in Server!Successors(o) /\ UNCHANGED rows
  \/ New(t) /\ Server!Supersede(t, t, o)

CancelTask(t) ==
  /\ status' = [status EXCEPT ![t] = IF @ = "CREATED" THEN "COMPLETED" ELSE @]
  /\ UNCHANGED <<caseOf, origin>>

\* The workers, the other engineers, and requests this page gave up on.
Others ==
  /\ \E t \in Task :
       \/ Server!Settle(t)
       \/ New(t) /\ \/ \E c \in Case : Server!Start(t, t, c)
                    \/ \E o \in Task : Server!Supersede(t, t, o)
  /\ UNCHANGED <<epoch, call, action, page>>

-----------------------------------------------------------------------------
(* Values of the page *)

Stage == {"idle", "recover", "latest", "create", "open", "activate", "report"}

\* seen is the status the answer tells; case is NoCase in an activation.
Call == [stage : Stage, case : Case \cup {NoCase}, task : Task \cup {NoTask},
         seen : {"pending"} \cup Status]
NoCall == [stage |-> "idle", case |-> NoCase, task |-> NoTask, seen |-> "pending"]
Request(stage, c, t) == [stage |-> stage, case |-> c, task |-> t, seen |-> "pending"]

\* fetching: the cancellation was answered, and now the report is asked for.
Action == [op : {"none", "retry", "cancel"}, task : Task \cup {NoTask},
           answer : Task \cup {NoTask}, seen : {"pending"} \cup Status,
           fetching : BOOLEAN]
NoAction == [op |-> "none", task |-> NoTask, answer |-> NoTask, seen |-> "pending",
             fetching |-> FALSE]

NoTrouble == [op |-> "none", case |-> NoCase]

Init ==
  /\ Server!Init
  /\ epoch = 0
  /\ call = [e \in Epoch |-> NoCall]
  /\ action = NoAction
  /\ open = NoCase /\ active = NoTask
  /\ cached = [t \in Task |-> "absent"]
  /\ loading = FALSE
  /\ trouble = NoTrouble
  /\ pinned = NoTask /\ streaming = NoTask
  /\ strayed = FALSE

Stale(e, c) == e # epoch \/ c # open

Activating == \E e \in Epoch : call[e].stage # "idle" /\ call[e].case = NoCase
Busy == action.op # "none" \/ Activating

-----------------------------------------------------------------------------
(* Clicks *)

Begin(request) ==
  /\ epoch < MaxEpoch
  /\ epoch' = epoch + 1
  /\ call' = [call EXCEPT ![epoch + 1] = request]
  /\ streaming' = NoTask

\* openCaseAnalysis; startNew is the host's wish, or the error's retry button.
OpenCase(c, startNew) ==
  /\ Begin(IF startNew THEN Request("create", c, NoTask)
           ELSE IF pinned \in Rows(c) THEN Request("recover", c, pinned)
           ELSE Request("latest", c, NoTask))
  /\ open' = c /\ active' = NoTask
  /\ loading' = TRUE
  /\ trouble' = NoTrouble
  /\ strayed' = FALSE
  /\ UNCHANGED <<rows, action, cached, pinned>>

CloseDrawer ==
  /\ open # NoCase
  /\ Begin(NoCall)
  /\ open' = NoCase /\ active' = NoTask
  /\ loading' = FALSE
  /\ trouble' = NoTrouble
  /\ strayed' = FALSE
  /\ UNCHANGED <<rows, action, cached, pinned>>

\* The buttons of the shown task.
Click(op, s) ==
  /\ open # NoCase /\ ~loading /\ ~Busy
  /\ active # NoTask /\ cached[active] = s
  /\ action' = [NoAction EXCEPT !.op = op, !.task = active]
  /\ UNCHANGED <<rows, epoch, call, page>>

Retry  == Click("retry", "FAILED")
Cancel == Click("cancel", "CREATED")

-----------------------------------------------------------------------------
(* The chain of an epoch *)

\* The server answers the request that is waited for.
Serve(e) ==
  LET c == call[e]
      Answer(t, s) == call' = [call EXCEPT ![e].task = t, ![e].seen = s]
  IN
  /\ c.stage # "idle" /\ c.seen = "pending"
  /\ \/ /\ c.stage = "create"
        /\ \E t \in Task : CreateOrResume(c.case, t) /\ Answer(t, "CREATED")
     \/ /\ c.stage = "latest"
        /\ \/ Rows(c.case) = {} /\ Answer(NoTask, "absent")
           \/ \E t \in Rows(c.case) :
                /\ \A u \in Rows(c.case) : u <= t
                /\ Answer(t, status[t])
        /\ UNCHANGED rows
     \/ /\ c.stage \in {"recover", "open", "activate", "report"}
        /\ Answer(c.task, status[c.task])
        /\ UNCHANGED rows
  /\ UNCHANGED <<epoch, action, page>>

\* The finally of openCaseAnalysis, which asks whether it is stale, and of
\* activateCreatedTask, which does not.
End(e) ==
  /\ call' = [call EXCEPT ![e] = NoCall]
  /\ loading' = (loading /\ call[e].case # NoCase /\ Stale(e, call[e].case))

Drop(e) == End(e) /\ UNCHANGED <<active, cached, pinned, streaming>>

GoOn(e, request) ==
  /\ call' = [call EXCEPT ![e] = request]
  /\ UNCHANGED <<loading, cached, pinned, streaming>>

\* acceptSnapshot: the report of a finished task may have to be fetched first.
Accept(e) ==
  LET t == call[e].task  s == call[e].seen IN
  /\ active' = t
  /\ cached' = [cached EXCEPT ![t] = s]
  /\ \/ /\ s \in Server!Final
        /\ call' = [call EXCEPT ![e].stage = "report", ![e].seen = "pending"]
        /\ UNCHANGED <<loading, pinned, streaming>>
     \/ /\ End(e)
        /\ pinned' = t
        /\ streaming' = IF s = "CREATED" THEN t ELSE streaming

\* Mutant: the answer about an earlier opening is taken for the current one.
TakeFound_Late(e) ==
  LET c == call[e] IN
  /\ c.stage \in {"recover", "latest"}
  /\ \/ /\ c.seen = "absent"
        /\ GoOn(e, Request("create", c.case, NoTask))
        /\ UNCHANGED active
     \/ c.seen # "absent" /\ Accept(e)

\* The task to recover, or the latest of the case.
TakeFound(e) ==
  LET c == call[e] IN
  /\ c.stage \in {"recover", "latest"}
  /\ \/ Stale(e, c.case) /\ Drop(e)
     \/ /\ ~Stale(e, c.case) /\ c.seen = "absent"
        /\ GoOn(e, Request("create", c.case, NoTask))
        /\ UNCHANGED active
     \/ ~Stale(e, c.case) /\ c.seen # "absent" /\ Accept(e)

TakeCreated(e) ==
  LET c == call[e] IN
  /\ c.stage = "create"
  /\ \/ Stale(e, c.case) /\ Drop(e)
     \/ /\ ~Stale(e, c.case)
        /\ active' = c.task
        /\ GoOn(e, Request("open", c.case, c.task))

\* Mutant: a chain that gives up leaves the skeleton to the next one.
TakeSnapshot_NoFinally(e) ==
  LET c == call[e]
      Expected == ~Stale(e, caseOf[c.task]) /\ c.task = active
  IN
  /\ c.stage \in {"open", "activate"}
  /\ \/ /\ ~Expected
        /\ call' = [call EXCEPT ![e] = NoCall]
        /\ UNCHANGED <<loading, active, cached, pinned, streaming>>
     \/ Expected /\ Accept(e)

\* The snapshot of the task that was created, by openCaseAnalysis or a retry.
TakeSnapshot(e) ==
  LET c == call[e]
      Expected == ~Stale(e, caseOf[c.task]) /\ c.task = active
  IN
  /\ c.stage \in {"open", "activate"}
  /\ \/ ~Expected /\ Drop(e)
     \/ Expected /\ Accept(e)

\* The recovery record is written whatever the drawer shows by now.
TakeReport(e) ==
  /\ call[e].stage = "report"
  /\ End(e)
  /\ pinned' = call[e].task
  /\ UNCHANGED <<active, cached, streaming>>

Take(e) ==
  /\ call[e].seen # "pending"
  /\ TakeFound(e) \/ TakeCreated(e) \/ TakeSnapshot(e) \/ TakeReport(e)
  /\ UNCHANGED <<rows, epoch, action, open, trouble, strayed>>

\* clearVisibleData on a 401 or a 403.
Clear ==
  /\ active' = NoTask /\ pinned' = NoTask /\ streaming' = NoTask
  /\ cached' = [t \in Task |-> "absent"]

\* handleError.
Report(op, c) ==
  /\ trouble' = [op |-> op, case |-> c]
  /\ Clear \/ UNCHANGED <<active, cached, pinned, streaming>>

\* Mutant: the error is reported whatever the drawer shows by now.
Fail_Always(e) ==
  LET c == call[e] IN
  /\ c.stage # "idle"
  /\ End(e)
  /\ IF c.case # NoCase THEN Report("load", c.case)
                        ELSE Report("retry", caseOf[c.task])
  /\ UNCHANGED <<rows, epoch, action, open, strayed>>

\* A request fails, and with it the chain.
Fail(e) ==
  LET c == call[e] IN
  /\ c.stage # "idle"
  /\ End(e)
  /\ \/ c.case # NoCase /\ ~Stale(e, c.case) /\ Report("load", c.case)
     \/ /\ c.case = NoCase /\ e = epoch /\ c.task = active
        /\ Report("retry", caseOf[c.task])
     \/ /\ IF c.case # NoCase THEN Stale(e, c.case)
                              ELSE e # epoch \/ c.task # active
        /\ UNCHANGED <<active, cached, pinned, streaming, trouble>>
  /\ UNCHANGED <<rows, epoch, action, open, strayed>>

-----------------------------------------------------------------------------
(* Retrying and cancelling *)

ServeAction ==
  /\ action.op # "none" /\ action.seen = "pending"
  /\ \/ /\ action.op = "retry"
        /\ \E t \in Task : /\ RetryTask(action.task, t)
                           /\ action' = [action EXCEPT !.answer = t, !.seen = "CREATED"]
     \/ /\ action.op = "cancel"
        /\ IF action.fetching THEN UNCHANGED rows ELSE CancelTask(action.task)
        /\ action' = [action EXCEPT !.seen = status'[action.task]]
  /\ UNCHANGED <<epoch, call, page>>

\* activateCreatedTask.
TakeRetry ==
  /\ action.op = "retry" /\ action.seen # "pending"
  /\ Begin(Request("activate", NoCase, action.answer))
  /\ active' = action.answer
  /\ loading' = TRUE
  /\ strayed' = (caseOf[action.answer] # open)
  /\ action' = NoAction
  /\ UNCHANGED <<rows, open, cached, trouble, pinned>>

\* Mutant: cancelTask does not await the answer.
TakeCancelled_NoAwait ==
  LET t == action.task IN
  /\ action.op = "cancel" /\ ~action.fetching
  /\ IF t = active /\ caseOf[t] = open
     THEN /\ cached' = [cached EXCEPT ![t] = action.seen]
          /\ \/ action' = NoAction /\ pinned' = t
             \/ /\ action' = [action EXCEPT !.seen = "pending", !.fetching = TRUE]
                /\ UNCHANGED pinned
     ELSE action' = NoAction /\ UNCHANGED <<cached, pinned>>
  /\ UNCHANGED <<rows, epoch, call, open, active, loading, trouble, streaming, strayed>>

\* The answer to a cancellation: nothing in another drawer.  It may have lost to
\* the worker, whose report has to be fetched then.
TakeCancelled ==
  LET t == action.task IN
  /\ action.op = "cancel" /\ ~action.fetching /\ action.seen # "pending"
  /\ IF t = active /\ caseOf[t] = open
     THEN /\ cached' = [cached EXCEPT ![t] = action.seen]
          /\ \/ action' = NoAction /\ pinned' = t
             \/ /\ action' = [action EXCEPT !.seen = "pending", !.fetching = TRUE]
                /\ UNCHANGED pinned
     ELSE action' = NoAction /\ UNCHANGED <<cached, pinned>>
  /\ UNCHANGED <<rows, epoch, call, open, active, loading, trouble, streaming, strayed>>

\* As in TakeReport, whatever the drawer shows by now.
TakeCancelledReport ==
  /\ action.fetching /\ action.seen # "pending"
  /\ pinned' = action.task
  /\ action' = NoAction
  /\ UNCHANGED <<rows, epoch, call, open, active, cached, loading, trouble, streaming,
                 strayed>>

\* Refused by the server, or lost.
FailAction ==
  /\ action.op # "none"
  /\ Report(action.op, caseOf[action.task])
  /\ action' = NoAction
  /\ UNCHANGED <<rows, epoch, call, open, loading, strayed>>

-----------------------------------------------------------------------------
(* The stream *)

\* Events tell how the task stands; after the last one nothing is followed.
Follow ==
  /\ streaming # NoTask /\ cached[streaming] # status[streaming]
  /\ cached' = [cached EXCEPT ![streaming] = status[streaming]]
  /\ pinned' = streaming
  /\ streaming' = IF status[streaming] \in Server!Final THEN NoTask ELSE streaming
  /\ UNCHANGED <<rows, epoch, call, action, open, active, loading, trouble, strayed>>

\* The window is hidden or the connection ends.
Pause ==
  /\ streaming # NoTask
  /\ streaming' = NoTask
  /\ UNCHANGED <<rows, epoch, call, action, open, active, cached, loading, trouble,
                 pinned, strayed>>

\* The window is shown again, or the reconnect timer fires.
Resume ==
  /\ open # NoCase /\ active # NoTask /\ cached[active] = "CREATED"
  /\ streaming' = active
  /\ UNCHANGED <<rows, epoch, call, action, open, active, cached, loading, trouble,
                 pinned, strayed>>

StreamDenied ==
  /\ streaming # NoTask
  /\ trouble' = [op |-> "stream", case |-> caseOf[streaming]]
  /\ Clear
  /\ UNCHANGED <<rows, epoch, call, action, open, loading, strayed>>

Next ==
  \/ \E c \in Case, startNew \in BOOLEAN : OpenCase(c, startNew)
  \/ CloseDrawer
  \/ Retry \/ Cancel
  \/ \E e \in Epoch : Serve(e) \/ Take(e) \/ Fail(e)
  \/ ServeAction \/ TakeRetry \/ TakeCancelled \/ TakeCancelledReport \/ FailAction
  \/ Follow \/ Pause \/ Resume \/ StreamDenied
  \/ Others

Spec == Init /\ [][Next]_vars

-----------------------------------------------------------------------------
(* Properties *)

TypeOK ==
  /\ status \in [Task -> Status]
  /\ caseOf \in [Task -> Case \cup {NoCase}]
  /\ origin \in [Task -> Task \cup {NoTask}]
  /\ epoch \in 0..MaxEpoch
  /\ call \in [Epoch -> Call]
  /\ action \in Action
  /\ open \in Case \cup {NoCase}
  /\ {active, pinned, streaming} \subseteq Task \cup {NoTask}
  /\ cached \in [Task -> Status]
  /\ loading \in BOOLEAN /\ strayed \in BOOLEAN
  /\ trouble \in [op : {"none", "load", "stream", "retry", "cancel"},
                 case : Case \cup {NoCase}]

\* The answers of an earlier opening never put their task into the drawer of
\* another case, nor into a closed one, and the events that arrive are the shown
\* task's (isStale).  Only the answer to a retry, which is activated unasked, does.
OnlyRetriesStray ==
  /\ ~strayed /\ active # NoTask => open # NoCase /\ caseOf[active] = open
  /\ streaming # NoTask => streaming = active /\ open # NoCase

\* An error shown for a load is about the case in the header, so that its retry
\* button starts the analysis that failed (the catch of openCaseAnalysis).
LoadErrorsStayHome == trouble.op = "load" => trouble.case = open

\* Nobody waits for nothing: while the skeleton hides the drawer's buttons, and
\* while an open drawer has neither a task nor an error to show, the latest opening
\* or activation has a request under way.  A chain that gives up because it is
\* stale leaves neither behind; only a retry from elsewhere leaves a blank drawer.
WaitsForAnAnswer ==
  \/ loading
  \/ /\ open # NoCase /\ ~strayed /\ trouble = NoTrouble
     /\ active = NoTask \/ cached[active] = "absent"
  => epoch # 0 /\ call[epoch].stage # "idle"
=============================================================================
