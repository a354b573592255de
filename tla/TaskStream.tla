----------------------------- MODULE TaskStream -----------------------------
(***************************************************************************)
(* How one browser tab follows one submitted task: the snapshot endpoint,  *)
(* the event stream endpoint, and the part of the caseAnalysis store that  *)
(* loads a snapshot, reads the stream and reconnects it.  The task itself  *)
(* is TaskLifecycle's, which WorkerLease is shown to implement; here it is *)
(* settled at a moment of its own or cancelled by this tab.                *)
(*                                                                         *)
(* A snapshot and a stream batch are transactions of several READ          *)
(* COMMITTED statements, each with its own view of the tables.  Awaits of  *)
(* the store are separate steps, except that the report a step announces   *)
(* is fetched, or fails to be fetched, within that step; what an abort     *)
(* during the fetch of an announced report leads to is kept (late): the    *)
(* parse loop of the client goes on with what it had received.             *)
(***************************************************************************)
EXTENDS Naturals, Sequences

CONSTANTS
  task,
  ReplayLimits,   \* values sse_replay_limit may be deployed with
  MaxFailures,    \* bound: lost connections and failed requests
  MaxHides,       \* bound: times the tab goes to the background
  MaxOpens        \* bound: times the drawer is opened for the task

ASSUME LimitAssumption == ReplayLimits \subseteq Nat \ {0}
ASSUME BoundAssumption == {MaxFailures, MaxHides, MaxOpens} \subseteq Nat

VARIABLES
  status, published, feed,     \* the task's rows (see TaskLifecycle)
  limit,                       \* sse_replay_limit
  view,                        \* tasksById[task]
  seq,                         \* lastSequenceByTask[task]
  cached,                      \* the report is in reportsByTaskVersion
  active,                      \* activeTaskId is the task
  error,                       \* an error is shown
  visible,                     \* document.visibilityState
  gets,                        \* snapshot requests, by what made them
  cancelling,                  \* the cancel request
  conn, srv, wire,             \* the stream: tab's end, server's end, between
  late,                        \* an aborted stream still has the closing event
  failures, hides, opens       \* how much of each bound is used

backend == <<status, published, feed, limit>>
store  == <<view, seq, cached, active, error>>
stream == <<conn, srv, wire, late>>
bounds == <<failures, hides, opens>>
vars   == <<backend, store, visible, gets, cancelling, stream, bounds>>

Server == INSTANCE TaskLifecycle WITH Task <- {task}

Settled == status[task] \in Server!Terminal
Latest  == Len(feed[task])

-----------------------------------------------------------------------------
(* Values *)

NoView == [status |-> "none", last |-> 0, report |-> FALSE]
View   == [status : {"none", "CREATED"} \cup Server!Terminal,
           last : 0..3, report : BOOLEAN]

\* openCaseAnalysis, the reload after a closing event, reconnectFrom.
Kind  == {"open", "reload", "reconnect"}
\* The statement a snapshot is at, and what it has read so far.
NoGet == [at |-> "none", snap |-> NoView]
Get   == [at : {"none", "row", "report", "sequence", "reply"}, snap : View]

NoSrv == [at |-> "done", cursor |-> 0, terminal |-> FALSE, latest |-> 0]
Srv   == [at : {"row", "latest", "events", "done"}, cursor : 0..3,
          terminal : BOOLEAN, latest : 0..3]

Running == view.status = "CREATED"

\* Mutant: a partial analysis is shown as a complete one.
Shown_Rounded == [analysis_completed |-> "COMPLETED", analysis_partial |-> "COMPLETED",
                  analysis_failed |-> "FAILED", analysis_cancelled |-> "CANCELLED"]

\* What applyTerminalEvent makes of a closing event.
Shown == [analysis_completed |-> "COMPLETED", analysis_partial |-> "PARTIAL_RESULT",
          analysis_failed |-> "FAILED", analysis_cancelled |-> "CANCELLED"]

Init ==
  /\ status = [t \in {task} |-> "CREATED"]
  /\ published = {}
  /\ feed = [t \in {task} |-> <<"analysis_started">>]
  /\ limit \in ReplayLimits
  /\ view = NoView
  /\ seq = 0
  /\ cached = FALSE
  /\ active = FALSE
  /\ error = FALSE
  /\ visible = TRUE
  /\ gets = [k \in Kind |-> NoGet]
  /\ cancelling = "none"
  /\ conn = "off"
  /\ srv = NoSrv
  /\ wire = <<>>
  /\ late = FALSE
  /\ failures = 0
  /\ hides = 0
  /\ opens = 0

-----------------------------------------------------------------------------
(* The task *)

Settle ==
  /\ Server!Settle(task)
  /\ UNCHANGED <<limit, store, visible, gets, cancelling, stream, bounds>>

-----------------------------------------------------------------------------
(* The stream of the tab *)

Closing(n) == feed[task][n] \in DOMAIN Shown

\* The loop that hands on the blocks received together awaits each and does
\* not ask in between whether it was aborted.  The one real wait is for an
\* announced report, and the only event after that is the closing one.
LeavesBuffer ==
  /\ wire # <<>> /\ Closing(Head(wire))
  /\ seq > 0 /\ feed[task][seq] = "report_generated"

Aborts == UNCHANGED late \/ (LeavesBuffer /\ late' = TRUE)

Off == conn' = "off" /\ srv' = NoSrv /\ wire' = <<>>

\* stopStream.
Disconnect == Off /\ Aborts

\* connectStream in a tab that is looked at: what there was is aborted.
Connect(cursor) ==
  /\ Aborts
  /\ conn' = "on"
  /\ srv' = [at |-> "row", cursor |-> cursor, terminal |-> FALSE, latest |-> 0]
  /\ wire' = <<>>

\* scheduleReconnect: the timer runs.
Wait == conn' = "waiting" /\ srv' = NoSrv /\ wire' = <<>> /\ UNCHANGED late

Fail == failures < MaxFailures /\ failures' = failures + 1 /\ UNCHANGED <<hides, opens>>

-----------------------------------------------------------------------------
(* Snapshots *)

StartGet(g, k) == [g EXCEPT ![k] = [at |-> "row", snap |-> NoView]]

\* Mutant: the task stays active while it is loaded again.
Open_KeepsActive ==
  /\ opens < MaxOpens
  /\ opens' = opens + 1
  /\ error' = FALSE
  /\ gets' = StartGet([k \in Kind |-> NoGet], "open")
  /\ Off
  /\ late' = FALSE
  /\ UNCHANGED <<backend, view, seq, cached, active, visible, cancelling, failures, hides>>

\* openCaseAnalysis: a new epoch, in which no answer to an earlier snapshot
\* request and no event of an earlier stream is accepted.
Open ==
  /\ opens < MaxOpens
  /\ opens' = opens + 1
  /\ active' = FALSE
  /\ error' = FALSE
  /\ gets' = StartGet([k \in Kind |-> NoGet], "open")
  /\ Off
  /\ late' = FALSE
  /\ UNCHANGED <<backend, view, seq, cached, visible, cancelling, failures, hides>>

\* The three reads of get_snapshot, in the order of _snapshot.
Read(k, at, next, snap) ==
  /\ gets[k].at = at
  /\ gets' = [gets EXCEPT ![k] = [at |-> next, snap |-> snap]]
  /\ UNCHANGED <<backend, store, visible, cancelling, stream, bounds>>

ReadRow(k)      == Read(k, "row", "report", [NoView EXCEPT !.status = status[task]])
ReadReport(k)   == Read(k, "report", "sequence",
                        [gets[k].snap EXCEPT !.report = task \in published])
ReadSequence(k) == Read(k, "sequence", "reply", [gets[k].snap EXCEPT !.last = Latest])

\* acceptSnapshot up to the await of the report.
Adopt(snap) ==
  /\ view' = snap
  /\ seq' = IF snap.last > seq THEN snap.last ELSE seq
  /\ active' = TRUE

\* The rest of acceptSnapshot.  A hidden tab stops its stream and starts none.
FollowUp(snap) ==
  CASE snap.status # "CREATED" -> UNCHANGED stream
    [] snap.status = "CREATED" /\ visible -> Connect(snap.last)
    [] snap.status = "CREATED" /\ ~visible -> Disconnect

Accept(k) ==
  LET snap == gets[k].snap IN
  /\ gets[k].at = "reply"
  /\ Adopt(snap)
  /\ cached' = (cached \/ snap.report)
  /\ FollowUp(snap)
  /\ gets' = [gets EXCEPT ![k] = NoGet]
  /\ UNCHANGED <<backend, error, visible, cancelling, bounds>>

\* The snapshot is accepted but its report cannot be fetched: nothing after
\* the await happens.  A failure in reconnectFrom is caught by nobody.
AcceptWithoutReport(k) ==
  LET snap == gets[k].snap IN
  /\ gets[k].at = "reply"
  /\ snap.report /\ ~cached
  /\ Fail
  /\ Adopt(snap)
  /\ error' = (error \/ k # "reconnect")
  /\ gets' = [gets EXCEPT ![k] = NoGet]
  /\ UNCHANGED <<backend, cached, visible, cancelling, stream>>

LoadFails(k) ==
  /\ gets[k].at # "none"
  /\ Fail
  /\ error' = (error \/ k # "reconnect")
  /\ gets' = [gets EXCEPT ![k] = NoGet]
  /\ UNCHANGED <<backend, view, seq, cached, active, visible, cancelling, stream>>

-----------------------------------------------------------------------------
(* The server's end: stream_batch, again and again *)

SrvRow ==
  /\ srv.at = "row"
  /\ srv' = [srv EXCEPT !.at = "latest", !.terminal = Settled]
  /\ UNCHANGED <<backend, store, visible, gets, cancelling, conn, wire, late, bounds>>

TooFar == Latest - srv.cursor > limit

SrvLatest ==
  /\ srv.at = "latest"
  /\ ~TooFar
  /\ srv' = [srv EXCEPT !.at = "events", !.latest = Latest]
  /\ UNCHANGED <<backend, store, visible, gets, cancelling, conn, wire, late, bounds>>

\* The cursor is too old.  The first batch (no latest sequence is known yet)
\* makes it a 409, on which the tab loads a snapshot with reconnectFrom, at
\* most one at a time (bound); a later batch ends the response.
CursorExpires ==
  /\ srv.at = "latest"
  /\ TooFar
  /\ \/ /\ srv.latest = 0
        /\ gets' = StartGet(gets, "reconnect")
        /\ Disconnect
     \/ /\ srv.latest # 0
        /\ srv' = [srv EXCEPT !.at = "done"]
        /\ UNCHANGED <<gets, conn, wire, late>>
  /\ UNCHANGED <<backend, store, visible, cancelling, bounds>>

\* Mutant: an event beyond the last.
SrvEvents_OneMore ==
  /\ srv.at = "events"
  /\ wire' = wire \o [i \in 1..(Latest - srv.cursor + 1) |-> srv.cursor + i]
  /\ srv' = [srv EXCEPT !.at = IF srv.terminal THEN "done" ELSE "row",
                        !.cursor = Latest]
  /\ UNCHANGED <<backend, store, visible, gets, cancelling, conn, late, bounds>>

\* Mutant: a batch is closed at the sequence read before its events.
SrvEvents_ToLatest ==
  /\ srv.at = "events"
  /\ wire' = wire \o [i \in 1..(srv.latest - srv.cursor) |-> srv.cursor + i]
  /\ srv' = [srv EXCEPT !.at = IF srv.terminal THEN "done" ELSE "row",
                        !.cursor = Latest]
  /\ UNCHANGED <<backend, store, visible, gets, cancelling, conn, late, bounds>>

\* The batch ends with the response once the row was terminal and everything
\* up to the latest sequence is sent; otherwise it is followed by another.
SrvEvents ==
  /\ srv.at = "events"
  /\ wire' = wire \o [i \in 1..(Latest - srv.cursor) |-> srv.cursor + i]
  /\ srv' = [srv EXCEPT !.at = IF srv.terminal /\ Latest >= srv.latest
                               THEN "done" ELSE "row",
                        !.cursor = Latest]
  /\ UNCHANGED <<backend, store, visible, gets, cancelling, conn, late, bounds>>

-----------------------------------------------------------------------------
(* The tab's end *)

\* applyEvent, for an event already seen: nothing.
SkipEvent ==
  /\ wire # <<>>
  /\ Head(wire) <= seq
  /\ wire' = Tail(wire)
  /\ UNCHANGED <<backend, store, visible, gets, cancelling, conn, srv, late, bounds>>

\* analysis_started and report_generated.  A report that cannot be fetched is
\* reported to onError and the stream is read on.
ApplyEvent ==
  LET n == Head(wire) IN
  /\ wire # <<>>
  /\ n > seq
  /\ ~Closing(n)
  /\ wire' = Tail(wire)
  /\ seq' = n
  /\ view' = [view EXCEPT !.last = n,
                          !.report = @ \/ feed[task][n] = "report_generated"]
  /\ \/ /\ cached' = (cached \/ feed[task][n] = "report_generated")
        /\ UNCHANGED bounds
     \/ /\ feed[task][n] = "report_generated"
        /\ ~cached
        /\ Fail
        /\ UNCHANGED cached
  /\ UNCHANGED <<backend, active, error, visible, gets, cancelling, conn, srv, late>>

\* Mutant: the closing event is taken for the whole truth.
Finish_NoReload(n) ==
  /\ seq' = n
  /\ view' = [view EXCEPT !.last = n, !.status = Shown[feed[task][n]]]
  /\ Off
  /\ UNCHANGED gets

\* applyEvent, for a closing event: the stream is stopped and a snapshot loaded.
Finish(n) ==
  /\ seq' = n
  /\ view' = [view EXCEPT !.last = n, !.status = Shown[feed[task][n]]]
  /\ Off
  /\ gets' = StartGet(gets, "reload")

ApplyClosing ==
  /\ wire # <<>>
  /\ Head(wire) > seq
  /\ Closing(Head(wire))
  /\ Finish(Head(wire))
  /\ UNCHANGED <<backend, cached, active, error, visible, cancelling, late, bounds>>

\* The closing event out of the buffer of an aborted stream.  The epoch is the
\* one it was sent in, so it counts unless a snapshot brought its sequence.
LateEvent ==
  /\ late
  /\ late' = FALSE
  /\ IF Latest > seq THEN Finish(Latest)
     ELSE UNCHANGED <<view, seq, gets, conn, srv, wire>>
  /\ UNCHANGED <<backend, cached, active, error, visible, cancelling, bounds>>

\* Mutant: the end of a stream is taken for the end of the task.
StreamEnds_NoReconnect ==
  /\ conn = "on"
  /\ srv.at = "done"
  /\ wire = <<>>
  /\ Disconnect
  /\ UNCHANGED <<backend, store, visible, gets, cancelling, bounds>>

\* The response ends.
StreamEnds ==
  /\ conn = "on"
  /\ srv.at = "done"
  /\ wire = <<>>
  /\ IF Running THEN Wait ELSE Disconnect
  /\ UNCHANGED <<backend, store, visible, gets, cancelling, bounds>>

\* The connection is lost or refused, with whatever was on it.
StreamLost ==
  /\ conn = "on"
  /\ Fail
  /\ Wait
  /\ UNCHANGED <<backend, store, visible, gets, cancelling>>

\* The timer of scheduleReconnect fires.
Reconnect ==
  /\ conn = "waiting"
  /\ IF Running THEN Connect(view.last) ELSE Disconnect
  /\ UNCHANGED <<backend, store, visible, gets, cancelling, bounds>>

\* onVisibilityChange.
Hide ==
  /\ visible
  /\ hides < MaxHides
  /\ hides' = hides + 1
  /\ visible' = FALSE
  /\ Disconnect
  /\ UNCHANGED <<backend, store, gets, cancelling, failures, opens>>

Show ==
  /\ ~visible
  /\ visible' = TRUE
  /\ IF active /\ Running
     THEN Connect(view.last)
     ELSE UNCHANGED stream
  /\ UNCHANGED <<backend, store, gets, cancelling, bounds>>

-----------------------------------------------------------------------------
(* Cancellation: offered while the task is shown running *)

RequestCancel ==
  /\ active
  /\ Running
  /\ gets["open"].at = "none"
  /\ cancelling = "none"
  /\ cancelling' = "sent"
  /\ UNCHANGED <<backend, store, visible, gets, stream, bounds>>

\* cancel_visible and _snapshot, all under the row lock.
ServerCancels ==
  /\ cancelling = "sent"
  /\ cancelling' = "reply"
  /\ IF Settled THEN UNCHANGED backend
     ELSE /\ Server!Settle(task) /\ status'[task] = "CANCELLED"
          /\ UNCHANGED limit
  /\ UNCHANGED <<store, visible, gets, stream, bounds>>

\* The answer is the settled task; it is dropped when the task is not active.
\* A stream that is open is left to end by itself.
CancelReply ==
  LET snap == [status |-> status[task], last |-> Latest, report |-> task \in published]
  IN
  /\ cancelling = "reply"
  /\ cancelling' = "none"
  /\ \/ ~active /\ UNCHANGED <<store, bounds>>
     \/ /\ active
        /\ Adopt(snap)
        /\ cached' = (cached \/ snap.report)
        /\ UNCHANGED <<error, bounds>>
     \/ /\ active
        /\ snap.report /\ ~cached
        /\ Adopt(snap)
        /\ error' = TRUE
        /\ Fail
        /\ UNCHANGED cached
  /\ UNCHANGED <<backend, visible, gets, stream>>

CancelFails ==
  /\ cancelling # "none"
  /\ cancelling' = "none"
  /\ Fail
  /\ error' = TRUE
  /\ UNCHANGED <<backend, view, seq, cached, active, visible, gets, stream>>

-----------------------------------------------------------------------------

Load(k) == \/ ReadRow(k) \/ ReadReport(k) \/ ReadSequence(k)
           \/ Accept(k)

Serve == SrvRow \/ SrvLatest \/ CursorExpires \/ SrvEvents

Listen == \/ SkipEvent \/ ApplyEvent \/ ApplyClosing \/ LateEvent
          \/ StreamEnds \/ Reconnect

Next ==
  \/ Settle
  \/ Open
  \/ \E k \in Kind : Load(k) \/ AcceptWithoutReport(k) \/ LoadFails(k)
  \/ Serve \/ Listen \/ StreamLost
  \/ Hide \/ Show
  \/ RequestCancel \/ ServerCancels \/ CancelReply \/ CancelFails

Spec == Init /\ [][Next]_vars

\* Requests are answered or fail, the task settles (WorkerLease), timers fire,
\* and a tab that was hidden is looked at again.  The user need not open,
\* hide or cancel anything.
FairSpec ==
  /\ Spec
  /\ WF_vars(Settle)
  /\ \A k \in Kind : WF_vars(Load(k))
  /\ WF_vars(Serve) /\ WF_vars(Listen)
  /\ WF_vars(Show)
  /\ WF_vars(ServerCancels \/ CancelReply)

-----------------------------------------------------------------------------
(* Properties *)

TypeOK ==
  /\ status \in [{task} -> {"CREATED"} \cup Server!Terminal]
  /\ published \subseteq {task}
  /\ Latest \in 1..3
  /\ limit \in ReplayLimits
  /\ view \in View
  /\ seq \in 0..3
  /\ {cached, active, error, visible, late} \subseteq BOOLEAN
  /\ gets \in [Kind -> Get]
  /\ cancelling \in {"none", "sent", "reply"}
  /\ conn \in {"off", "on", "waiting"}
  /\ srv \in Srv
  /\ wire \in Seq(1..3)
  /\ failures \in 0..MaxFailures /\ hides \in 0..MaxHides /\ opens \in 0..MaxOpens

\* The tab shows nothing the database has not committed: a final status is
\* the task's own (a timeout looks like a failure until the reload), a report
\* it announces exists, and its sequences lie within the feed.
ViewIsCommitted ==
  /\ view.status \in Server!Terminal =>
       \/ view.status = status[task]
       \/ view.status = "FAILED" /\ status[task] = "TIMEOUT"
  /\ view.report => task \in published
  /\ view.last <= seq /\ seq <= Latest

\* Whatever the reconnections, lost connections and snapshots, a stream never
\* gets ahead of the tab: what it has delivered was applied or seen before.
NoEventSkipped == conn = "on" => srv.cursor - Len(wire) <= seq

\* The default limit is 500, more than a feed ever holds.
NeverExpires == limit >= 3

\* The tab is looked at, follows the task, and has nothing left to do or to
\* wait for.
AtRest ==
  /\ active /\ visible /\ ~error
  /\ \A k \in Kind : gets[k].at = "none"
  /\ cancelling = "none"
  /\ conn = "off"

\* The final status and its report are on the screen.
Complete == /\ Settled
            /\ view.status = status[task]
            /\ task \in published => view.report /\ cached

\* A tab at rest that shows no error shows the task as it ended: no order of
\* stream ends, hiding, failures and answers leaves it waiting for nothing.
RestIsComplete == NeverExpires /\ AtRest => Complete

\* A final status, once shown, is never replaced by a running one: no answer
\* read before the end is accepted after it.
FinalViewStays ==
  [][NeverExpires /\ view.status \in Server!Terminal
       => view'.status \in Server!Terminal]_vars

\* The closing event was skipped: a snapshot read the row before the end and
\* the sequence after it, so the stream has nothing new for a running view.
Deaf == Running /\ Settled /\ seq = Latest

\* A request of reconnectFrom failed and nothing follows: nobody catches it.
Abandoned == ~NeverExpires /\ failures > 0 /\ AtRest

\* An error is shown and nothing goes on behind it.
GaveUp == error /\ conn = "off"

\* A tab that follows a task shows how it ended, or an error, unless it has
\* been left deaf or abandoned.
FollowedToTheEnd ==
  <>[](opens = 0 \/ (active /\ Complete) \/ GaveUp \/ Deaf \/ Abandoned)

\* data-flow.md, item 6: in the end the client has the authoritative snapshot.
AuthoritativeInTheEnd == <>[](opens = 0 \/ (active /\ Complete) \/ GaveUp)
=============================================================================
