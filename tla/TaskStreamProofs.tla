-------------------------- MODULE TaskStreamProofs --------------------------
(***************************************************************************)
(* Safety of TaskStream for any task, replay limits and bounds: the tab    *)
(* shows only what is committed, its stream skips nothing, and with a      *)
(* replay limit no feed exceeds a tab at rest shows the task as it ended.  *)
(*                                                                         *)
(* The invariant says what the rows can be (RowInv), what a snapshot under *)
(* way has read (GetInv), where the events on the wire come from (WireInv) *)
(* and, when no cursor expires, who is still at work for the tab           *)
(* (FollowInv): a running view is looked after by a stream, a timer or a   *)
(* request, and a final view is complete unless a request is to complete   *)
(* it.                                                                     *)
(***************************************************************************)
EXTENDS TaskStream, TLAPS

\* The status fixes the other rows of the task.
RowInv ==
  /\ status \in [{task} -> {"CREATED"} \cup Server!Terminal]
  /\ published = IF status[task] \in Server!Reporting THEN {task} ELSE {}
  /\ feed = [t \in {task} |-> IF status[task] = "CREATED"
                              THEN <<"analysis_started">>
                              ELSE Server!SettledFeed(status[task])]

\* The statements a snapshot is at once it has read the row.
Answering == {"report", "sequence", "reply"}

\* What a snapshot has read is committed, however old: a status read is the
\* running one or the one the task has, and a report is missed only by a
\* snapshot whose row was read before the end.
Honest(get) ==
  /\ get.at \in {"none", "row"} => get.snap = NoView
  /\ get.at \in Answering => get.snap.status \in {"CREATED", status[task]}
  /\ get.snap.report => task \in published
  /\ get.at \in {"sequence", "reply"} /\ get.snap.status \in Server!Terminal
       => (task \in published => get.snap.report)
  /\ get.snap.last <= Latest

\* Every snapshot under way is honest.
GetInv == \A k \in Kind : Honest(gets[k])

\* The events on the wire are consecutive, end at the server's cursor and
\* begin no later than right after what the tab has applied.
WireInv ==
  /\ srv.cursor <= Latest
  /\ Len(wire) <= srv.cursor
  /\ \A i \in 1..Len(wire) : wire[i] = (srv.cursor - Len(wire)) + i
  /\ srv.cursor - Len(wire) <= seq
  /\ conn = "on" \/ (srv = NoSrv /\ wire = <<>>)

\* The closing event is in the buffer of an aborted stream only if there is one.
LateInv == late => Settled

\* Opening excludes everything else: the task is not active, and nothing is
\* reloaded or streamed; a cancel request is answered about a settled task.
OrderInv ==
  /\ gets["open"].at # "none" => ~active /\ gets["reload"].at = "none" /\ ~late
  /\ conn # "off" => active
  /\ cancelling = "reply" => Settled

\* No snapshot is asked for by reconnectFrom, a reload reads the final status,
\* and so does a snapshot of a task that is already shown as final.
LoadInv ==
  /\ gets["reconnect"].at = "none"
  /\ gets["reload"].at # "none" => Settled
  /\ gets["reload"].at \in Answering => gets["reload"].snap.status = status[task]
  /\ view.status \in Server!Terminal /\ gets["open"].at \in Answering
       => gets["open"].snap.status = status[task]

\* A snapshot request is under way.
Pending == \E k \in Kind : gets[k].at # "none"

\* With no snapshot under way and no error, the view is complete or is
\* running with somebody still to bring news: a stream, a timer, or the tab
\* being looked at again.
RestInv ==
  active /\ ~error /\ ~Pending => (Running /\ (visible => conn # "off")) \/ Complete

\* The part of the invariant that needs a replay limit no feed exceeds.
FollowInv == NeverExpires => OrderInv /\ LoadInv /\ RestInv

\* The inductive invariant.
IInv == TypeOK /\ RowInv /\ GetInv /\ ViewIsCommitted /\ WireInv /\ LateInv /\ FollowInv

-----------------------------------------------------------------------------

\* The events that close a stream and the status each makes the tab show.
LEMMA ClosingEvents ==
  /\ \A n : Closing(n) <=> feed[task][n] \in {"analysis_completed", "analysis_partial",
                                             "analysis_failed", "analysis_cancelled"}
  /\ Shown["analysis_completed"] = "COMPLETED"
  /\ Shown["analysis_partial"] = "PARTIAL_RESULT"
  /\ Shown["analysis_failed"] = "FAILED"
  /\ Shown["analysis_cancelled"] = "CANCELLED"
<1>1. DOMAIN Shown = {"analysis_completed", "analysis_partial",
                      "analysis_failed", "analysis_cancelled"}
  BY DEF Shown
<1> QED  BY <1>1 DEF Closing, Shown

\* A feed has one to three events, announces only a report that exists, and
\* closes only for a settled task, with the status the tab is to show.
LEMMA RowFacts ==
  ASSUME RowInv
  PROVE  /\ Latest \in 1..3
         /\ published \subseteq {task}
         /\ Settled => Closing(Latest)
         /\ \A n \in 1..Latest :
              /\ feed[task][n] = "report_generated" => task \in published
              /\ Closing(n) => /\ Settled
                               /\ \/ Shown[feed[task][n]] = status[task]
                                  \/ /\ Shown[feed[task][n]] = "FAILED"
                                     /\ status[task] = "TIMEOUT"
<1>1. CASE status[task] = "CREATED"
  <2>1. feed[task] = <<"analysis_started">> /\ published = {}
    BY <1>1 DEF RowInv, Server!Reporting
  <2>2. Latest = 1 /\ feed[task][1] = "analysis_started"
    BY <2>1 DEF Latest
  <2>3. ~Settled
    BY <1>1 DEF Settled, Server!Terminal, Server!Reporting
  <2> QED  BY <2>1, <2>2, <2>3, ClosingEvents
<1>2. CASE status[task] \in Server!Reporting
  <2>1. /\ feed[task] = <<"analysis_started", "report_generated",
                          Server!Closing[status[task]]>>
        /\ published = {task}
    BY <1>2 DEF RowInv, Server!Reporting, Server!SettledFeed
  <2>2. /\ Latest = 3 /\ feed[task][1] = "analysis_started"
        /\ feed[task][2] = "report_generated"
        /\ feed[task][3] = Server!Closing[status[task]]
    BY <2>1 DEF Latest
  <2>3. Settled  BY <1>2 DEF Settled, Server!Terminal
  <2>4. Shown[feed[task][3]] = status[task]
    BY <1>2, <2>2, ClosingEvents DEF Server!Reporting, Server!Closing
  <2>5. feed[task][3] \in {"analysis_completed", "analysis_partial"}
    BY <1>2, <2>2 DEF Server!Reporting, Server!Closing
  <2> QED
    BY <2>1, <2>2, <2>3, <2>4, <2>5, ClosingEvents
<1>3. CASE status[task] \in {"FAILED", "TIMEOUT", "CANCELLED"}
  <2>1. /\ feed[task] = <<"analysis_started", Server!Closing[status[task]]>>
        /\ published = {}
    BY <1>3 DEF RowInv, Server!Reporting, Server!SettledFeed
  <2>2. /\ Latest = 2 /\ feed[task][1] = "analysis_started"
        /\ feed[task][2] = Server!Closing[status[task]]
    BY <2>1 DEF Latest
  <2>3. Settled  BY <1>3 DEF Settled, Server!Terminal
  <2>4. feed[task][2] \in {"analysis_failed", "analysis_cancelled"}
    BY <1>3, <2>2 DEF Server!Closing
  <2>5. \/ Shown[feed[task][2]] = status[task]
        \/ Shown[feed[task][2]] = "FAILED" /\ status[task] = "TIMEOUT"
    BY <1>3, <2>2, ClosingEvents DEF Server!Closing
  <2> QED
    BY <2>1, <2>2, <2>3, <2>4, <2>5, ClosingEvents
<1> QED  BY <1>1, <1>2, <1>3 DEF RowInv, Server!Terminal

\* Settling moves the rows forward and keeps them consistent.
LEMMA SettleMoves ==
  ASSUME RowInv, Server!Settle(task)
  PROVE  /\ RowInv'
         /\ status[task] = "CREATED"
         /\ status'[task] \in Server!Terminal
         /\ published = {}
         /\ Latest = 1 /\ Latest' \in 2..3
<1>1. PICK s \in Server!Terminal :
        /\ status' = [status EXCEPT ![task] = s]
        /\ published' = IF s \in Server!Reporting THEN published \cup {task} ELSE published
        /\ feed' = [feed EXCEPT ![task] = Server!SettledFeed(s)]
  BY DEF Server!Settle
<1>2. status[task] = "CREATED" /\ published = {} /\ feed[task] = <<"analysis_started">>
  BY DEF Server!Settle, RowInv, Server!Reporting
<1>3. status'[task] = s /\ s # "CREATED"
  BY <1>1 DEF RowInv, Server!Terminal, Server!Reporting
<1>4. RowInv'
  BY <1>1, <1>2, <1>3 DEF RowInv
<1>5. Latest' \in 2..3
  <2>1. feed'[task] = Server!SettledFeed(s)  BY <1>1 DEF RowInv
  <2>2. CASE s \in Server!Reporting
    BY <2>1, <2>2 DEF Server!SettledFeed, Latest
  <2>3. CASE s \notin Server!Reporting
    BY <2>1, <2>3 DEF Server!SettledFeed, Latest
  <2> QED  BY <2>2, <2>3
<1> QED  BY <1>1, <1>2, <1>3, <1>4, <1>5 DEF Latest

-----------------------------------------------------------------------------

\* The numbers among the variables, out of the type invariant.
LEMMA Types ==
  ASSUME TypeOK
  PROVE  /\ seq \in 0..3 /\ view.last \in 0..3 /\ srv.cursor \in 0..3
         /\ \A k \in Kind : gets[k].snap.last \in 0..3
<1>1. view \in View /\ srv \in Srv /\ gets \in [Kind -> Get] /\ seq \in 0..3
  BY DEF TypeOK
<1>2. view.last \in 0..3
  BY <1>1 DEF View
<1>3. srv.cursor \in 0..3
  BY <1>1 DEF Srv
<1>4. \A k \in Kind : gets[k].snap.last \in 0..3
  BY <1>1 DEF Get, View
<1> QED  BY <1>1, <1>2, <1>3, <1>4

\* A sequence that counts up to c still does without its head.
LEMMA TailKeepsCount ==
  ASSUME NEW c \in Nat, NEW q \in Seq(1..3), Len(q) # 0,
         \A i \in 1..Len(q) : q[i] = (c - Len(q)) + i
  PROVE  \A i \in 1..Len(Tail(q)) : Tail(q)[i] = (c - Len(Tail(q))) + i
<1>1. PICK n \in Nat : n = Len(q)
  OBVIOUS
<1>2. PICK r \in Seq(1..3) : r = Tail(q)
  <2>1. q # <<>>
    OBVIOUS
  <2>2. Tail(q) \in Seq(1..3)
    BY <2>1
  <2> QED  BY <2>2
<1>3. Len(r) = n - 1 /\ \A i \in 1..(n - 1) : r[i] = q[i + 1]
  BY <1>1, <1>2
<1>4. \A i \in 1..(n - 1) : i + 1 \in 1..n /\ (c - n) + (i + 1) = (c - (n - 1)) + i
  BY <1>1
<1>5. \A i \in 1..(n - 1) : r[i] = (c - (n - 1)) + i
  BY <1>1, <1>3, <1>4
<1>6. \A i \in 1..Len(r) : r[i] = (c - Len(r)) + i
  BY <1>3, <1>5
<1> QED  BY <1>2, <1>6

\* The next event on the wire is the one after the last that left it.
LEMMA HeadOfWire ==
  ASSUME IInv, wire # <<>>
  PROVE  /\ conn = "on" /\ Len(wire) \in Nat \ {0} /\ Len(wire) <= srv.cursor
         /\ Head(wire) = (srv.cursor - Len(wire)) + 1
         /\ Head(wire) \in 1..Latest /\ Head(wire) \in 1..3
         /\ Tail(wire) \in Seq(1..3) /\ Len(Tail(wire)) = Len(wire) - 1
         /\ \A i \in 1..Len(Tail(wire)) : Tail(wire)[i] = (srv.cursor - Len(Tail(wire))) + i
<1>1. wire \in Seq(1..3) /\ srv.cursor \in 0..3
  BY Types DEF IInv, TypeOK
<1>2. /\ conn = "on" /\ srv.cursor <= Latest /\ Len(wire) <= srv.cursor
      /\ \A i \in 1..Len(wire) : wire[i] = (srv.cursor - Len(wire)) + i
  BY DEF IInv, WireInv
<1>3. Latest \in 1..3
  BY RowFacts DEF IInv
<1>4. Len(wire) \in Nat \ {0} /\ Head(wire) = wire[1]
  BY <1>1
<1>5. Head(wire) = (srv.cursor - Len(wire)) + 1
  BY <1>2, <1>4
<1>6. /\ Tail(wire) \in Seq(1..3) /\ Len(Tail(wire)) = Len(wire) - 1
      /\ \A i \in 1..Len(Tail(wire)) : Tail(wire)[i] = wire[i + 1]
  BY <1>1
<1>7. \A i \in 1..Len(Tail(wire)) : Tail(wire)[i] = (srv.cursor - Len(Tail(wire))) + i
  <2>1. srv.cursor \in Nat /\ Len(wire) # 0
    BY <1>1, <1>4
  <2> DEFINE c == srv.cursor
  <2>2. c \in Nat /\ \A i \in 1..Len(wire) : wire[i] = (c - Len(wire)) + i
    BY <1>2, <2>1
  <2> HIDE DEF c
  <2>3. \A i \in 1..Len(Tail(wire)) : Tail(wire)[i] = (c - Len(Tail(wire))) + i
    BY <1>1, <2>1, <2>2, TailKeepsCount, Zenon
  <2> QED  BY <2>3 DEF c
<1>8. Head(wire) \in 1..Latest /\ Head(wire) \in 1..3
  BY <1>1, <1>2, <1>3, <1>4, <1>5
<1> QED  BY <1>2, <1>4, <1>5, <1>6, <1>7, <1>8, Zenon

\* An abort leaves the closing event behind only where a stream carried it, and
\* with a task that is settled.
LEMMA LateStays ==
  ASSUME IInv, UNCHANGED late \/ late' = FALSE \/ Aborts, Settled => Settled'
  PROVE  /\ late' \in BOOLEAN /\ LateInv'
         /\ NeverExpires /\ late' => gets["open"].at = "none"
<1>1. late \in BOOLEAN
  BY DEF IInv, TypeOK
<1>2. LeavesBuffer => Settled /\ conn = "on"
  BY HeadOfWire, RowFacts DEF LeavesBuffer, IInv
<1>3. late' = late \/ late' = FALSE \/ (LeavesBuffer /\ late' = TRUE)
  BY DEF Aborts
<1>4. late' \in BOOLEAN
  BY <1>1, <1>3
<1>5. LateInv'
  BY <1>2, <1>3 DEF IInv, LateInv
<1>6. ASSUME NeverExpires, late' PROVE gets["open"].at = "none"
  BY <1>2, <1>3, <1>6 DEF IInv, FollowInv, OrderInv
<1> QED  BY <1>4, <1>5, <1>6

\* The invariant holds before the drawer is opened.
LEMMA InitInv == Init => IInv
<1> SUFFICES ASSUME Init PROVE IInv
  OBVIOUS
<1>1. RowInv  BY DEF Init, RowInv, Server!Reporting, Server!Terminal
<1>2. TypeOK
  <2>1. NoView \in View /\ NoGet \in Get /\ NoSrv \in Srv
    BY DEF NoView, View, NoGet, Get, NoSrv, Srv
  <2>2. /\ status \in [{task} -> {"CREATED"} \cup Server!Terminal]
        /\ published \subseteq {task} /\ Latest \in 1..3
    BY <1>1, RowFacts DEF RowInv
  <2>3. {cached, active, error, visible, late} \subseteq BOOLEAN
    BY DEF Init
  <2>4. failures \in 0..MaxFailures /\ hides \in 0..MaxHides /\ opens \in 0..MaxOpens
    BY BoundAssumption DEF Init
  <2>5. wire \in Seq(1..3)
    BY DEF Init
  <2> QED  BY <2>1, <2>2, <2>3, <2>4, <2>5 DEF Init, TypeOK
<1>3. GetInv
  <2> SUFFICES ASSUME NEW k \in Kind PROVE Honest(gets[k])
    BY DEF GetInv
  <2>1. gets[k] = NoGet /\ gets[k].at = "none" /\ gets[k].snap = NoView
        /\ gets[k].snap.report = FALSE /\ gets[k].snap.last = 0
    BY DEF Init, NoGet, NoView
  <2>2. 0 <= Latest
    BY <1>1, RowFacts
  <2> QED  BY <2>1, <2>2 DEF Honest, Answering
<1>4. ViewIsCommitted  BY <1>1, RowFacts DEF Init, ViewIsCommitted, NoView, Server!Terminal, Server!Reporting
<1>5. WireInv  BY <1>1, RowFacts DEF Init, WireInv, NoSrv
<1>6. LateInv  BY DEF Init, LateInv
<1>7. FollowInv  BY DEF Init, FollowInv, OrderInv, LoadInv, RestInv, Kind, NoGet, NoView, Server!Terminal, Server!Reporting, Answering
<1> QED  BY <1>1, <1>2, <1>3, <1>4, <1>5, <1>6, <1>7 DEF IInv

-----------------------------------------------------------------------------

\* The task may settle under a tab that does nothing: what is on the screen,
\* on the wire and in the snapshots stays true of the rows.
LEMMA SettleKeeps ==
  ASSUME IInv, Server!Settle(task), cancelling' \in {"none", "sent", "reply"},
         UNCHANGED <<limit, store, visible, gets, stream, bounds>>
  PROVE  IInv'
<1> USE DEF store, stream, bounds
<1>1. /\ RowInv' /\ status[task] = "CREATED" /\ status'[task] \in Server!Terminal
      /\ published = {} /\ Latest = 1 /\ Latest' \in 2..3
  BY SettleMoves DEF IInv
<1>2. TypeOK'
  BY <1>1, RowFacts DEF IInv, TypeOK, RowInv
<1>3. /\ seq \in 0..3 /\ view.last \in 0..3 /\ srv.cursor \in 0..3
      /\ \A k \in Kind : gets[k].snap.last \in 0..3
  BY Types DEF IInv
<1>4. GetInv'
  <2> SUFFICES ASSUME NEW k \in Kind PROVE Honest(gets[k])'
    BY DEF GetInv
  <2>1. Honest(gets[k]) /\ gets'[k] = gets[k]
    BY DEF IInv, GetInv
  <2>2. ~gets[k].snap.report
    BY <1>1, <2>1 DEF Honest
  <2>3. gets[k].at \in Answering => gets[k].snap.status = "CREATED"
    BY <1>1, <2>1 DEF Honest
  <2>4. gets[k].snap.last <= Latest'
    BY <1>1, <1>3, <2>1 DEF Honest
  <2>5. gets[k].at \in {"sequence", "reply"} => gets[k].snap.status \notin Server!Terminal
    BY <2>3 DEF Server!Terminal, Server!Reporting, Answering
  <2> QED  BY <1>1, <2>1, <2>2, <2>3, <2>4, <2>5 DEF Honest
<1>5. ViewIsCommitted'
  BY <1>1, <1>3 DEF IInv, ViewIsCommitted, Server!Terminal, Server!Reporting
<1>6. WireInv'
  BY <1>1, <1>3 DEF IInv, WireInv
<1>7. LateInv'
  BY <1>1 DEF LateInv, Settled
<1>8. FollowInv'
  <2> SUFFICES ASSUME NeverExpires PROVE OrderInv' /\ LoadInv' /\ RestInv'
    BY DEF FollowInv, NeverExpires
  <2>1. OrderInv /\ LoadInv /\ RestInv
    BY DEF IInv, FollowInv
  <2>2. ~Settled /\ Settled'
    BY <1>1 DEF Settled, Server!Terminal, Server!Reporting
  <2>3. view.status \notin Server!Terminal
    BY <1>1 DEF IInv, ViewIsCommitted, Server!Terminal, Server!Reporting
  <2>4. OrderInv'
    BY <2>1, <2>2 DEF OrderInv
  <2>5. LoadInv'
    BY <1>1, <2>1, <2>2, <2>3 DEF LoadInv, Answering
  <2>6. RestInv'
    BY <2>1, <2>2 DEF RestInv, Pending, Running, Complete
  <2> QED  BY <2>4, <2>5, <2>6
<1> QED  BY <1>1, <1>2, <1>4, <1>5, <1>6, <1>7, <1>8 DEF IInv

-----------------------------------------------------------------------------

\* What follows from the rows being left alone.
LEMMA SameRows ==
  ASSUME UNCHANGED backend, RowInv
  PROVE  /\ RowInv' /\ Latest' = Latest /\ Latest \in 1..3
         /\ Settled' = Settled /\ NeverExpires' = NeverExpires
         /\ status' = status /\ published' = published /\ feed' = feed /\ limit' = limit
<1>1. status' = status /\ published' = published /\ feed' = feed /\ limit' = limit
  BY DEF backend
<1> QED  BY <1>1, RowFacts DEF RowInv, Latest, Settled, NeverExpires

\* A stream that is stopped, given up to the timer or connected at a cursor
\* the tab has reached has nothing of its own on the wire.
LEMMA StreamSet ==
  ASSUME NEW c \in 0..3, Off \/ Wait \/ Connect(c),
         Latest' \in 1..3, seq' \in 0..3, c <= Latest', c <= seq'
  PROVE  /\ WireInv'
         /\ conn' \in {"off", "on", "waiting"} /\ srv' \in Srv /\ wire' \in Seq(1..3)
<1>1. Len(<<>>) = 0 /\ <<>> \in Seq(1..3)
  OBVIOUS
<1>2. NoSrv \in Srv /\ NoSrv.cursor = 0
  BY DEF NoSrv, Srv
<1>3. CASE Off
  BY <1>1, <1>2, <1>3 DEF Off, WireInv
<1>4. CASE Wait
  BY <1>1, <1>2, <1>4 DEF Wait, WireInv
<1>5. CASE Connect(c)
  <2>1. /\ conn' = "on" /\ wire' = <<>> /\ srv'.cursor = c
        /\ srv' = [at |-> "row", cursor |-> c, terminal |-> FALSE, latest |-> 0]
    BY <1>5 DEF Connect
  <2>2. srv' \in Srv
    BY <2>1 DEF Srv
  <2> QED  BY <1>1, <2>1, <2>2 DEF WireInv
<1> QED  BY <1>3, <1>4, <1>5

\* Applying more never puts a stream ahead of the tab.
LEMMA WireKept ==
  ASSUME WireInv, UNCHANGED stream, Latest' = Latest,
         seq \in 0..3, seq' \in 0..3, seq <= seq', srv.cursor \in 0..3
  PROVE  WireInv'
<1>1. conn' = conn /\ srv' = srv /\ wire' = wire
  BY DEF stream
<1> QED  BY <1>1 DEF WireInv

\* The counters stay within their bounds.
LEMMA BoundsKept ==
  ASSUME TypeOK, Fail \/ UNCHANGED bounds \/ Hide \/ Open
  PROVE  failures' \in 0..MaxFailures /\ hides' \in 0..MaxHides /\ opens' \in 0..MaxOpens
<1>1. /\ failures \in 0..MaxFailures /\ hides \in 0..MaxHides /\ opens \in 0..MaxOpens
      /\ MaxFailures \in Nat /\ MaxHides \in Nat /\ MaxOpens \in Nat
  BY BoundAssumption DEF TypeOK
<1>2. CASE Fail
  BY <1>1, <1>2 DEF Fail
<1>3. CASE UNCHANGED bounds
  BY <1>1, <1>3 DEF bounds
<1>4. CASE Hide
  BY <1>1, <1>4 DEF Hide
<1>5. CASE Open
  BY <1>1, <1>5 DEF Open
<1> QED  BY <1>2, <1>3, <1>4, <1>5

\* Hiding and showing the tab, the end of a stream, its loss and the timer: a
\* view that is running is left with a stream or with the timer.
LEMMA TabKeeps ==
  ASSUME IInv, Hide \/ Show \/ StreamEnds \/ StreamLost \/ Reconnect
  PROVE  IInv'
<1>1. UNCHANGED backend /\ UNCHANGED store /\ gets' = gets /\ cancelling' = cancelling
  BY DEF Hide, Show, StreamEnds, StreamLost, Reconnect
<1>2. view' = view /\ seq' = seq /\ cached' = cached /\ active' = active /\ error' = error
  BY <1>1 DEF store
<1>3. /\ RowInv' /\ Latest' = Latest /\ Latest \in 1..3 /\ Settled' = Settled
      /\ NeverExpires' = NeverExpires
      /\ status' = status /\ published' = published /\ feed' = feed /\ limit' = limit
  BY <1>1, SameRows DEF IInv
<1>4. seq \in 0..3 /\ view.last \in 0..3 /\ srv.cursor \in 0..3
      /\ view.last <= seq /\ seq <= Latest
  BY Types DEF IInv, ViewIsCommitted
<1>5. \/ Disconnect \/ Wait \/ Connect(view.last)
      \/ UNCHANGED stream
  BY DEF Hide, Show, StreamEnds, StreamLost, Reconnect
<1>6. late' \in BOOLEAN /\ LateInv' /\ (NeverExpires /\ late' => gets["open"].at = "none")
  <2>1. UNCHANGED late \/ late' = FALSE \/ Aborts
    BY <1>5 DEF Disconnect, Wait, Connect, stream
  <2> QED  BY <1>3, <2>1, LateStays
<1>7. view.last <= Latest'
  BY <1>3, <1>4
<1>8. /\ WireInv'
      /\ conn' \in {"off", "on", "waiting"} /\ srv' \in Srv /\ wire' \in Seq(1..3)
  <2>1. CASE UNCHANGED stream
    <3>1. conn' = conn /\ srv' = srv /\ wire' = wire
      BY <2>1 DEF stream
    <3> QED  BY <1>2, <1>3, <1>4, <2>1, <3>1, WireKept DEF IInv, TypeOK
  <2>2. CASE Disconnect \/ Wait \/ Connect(view.last)
    BY <1>2, <1>3, <1>4, <1>7, <2>2, StreamSet DEF Disconnect
  <2> QED  BY <1>5, <2>1, <2>2
<1>9. /\ visible' \in BOOLEAN
      /\ failures' \in 0..MaxFailures /\ hides' \in 0..MaxHides /\ opens' \in 0..MaxOpens
  <2>1. visible \in BOOLEAN
    BY DEF IInv, TypeOK
  <2>2. visible' \in BOOLEAN
    BY <2>1 DEF Hide, Show, StreamEnds, StreamLost, Reconnect
  <2>3. Fail \/ UNCHANGED bounds \/ Hide
    BY DEF Hide, Show, StreamEnds, StreamLost, Reconnect
  <2> QED  BY <2>2, <2>3, BoundsKept DEF IInv
<1>10. TypeOK'
  BY <1>1, <1>2, <1>3, <1>8, <1>9, <1>6 DEF IInv, TypeOK
<1>11. GetInv'
  BY <1>1, <1>3 DEF IInv, GetInv, Honest
<1>12. ViewIsCommitted'
  BY <1>2, <1>3 DEF IInv, ViewIsCommitted
<1>13. FollowInv'
  <2> SUFFICES ASSUME NeverExpires PROVE OrderInv' /\ LoadInv' /\ RestInv'
    BY <1>3 DEF FollowInv
  <2>1. OrderInv /\ LoadInv /\ RestInv
    BY DEF IInv, FollowInv
  <2>2. (Running' <=> Running) /\ (Complete' <=> Complete) /\ (Pending' <=> Pending)
    BY <1>1, <1>2, <1>3 DEF Running, Complete, Pending
  <2>3. conn' # "off" => active
    BY <2>1, <1>5 DEF Hide, Show, StreamEnds, StreamLost, Reconnect, Disconnect, Off, stream, OrderInv
  <2>4. OrderInv'
    BY <1>1, <1>2, <1>3, <1>6, <2>1, <2>3 DEF OrderInv
  <2>5. LoadInv'
    BY <1>1, <1>2, <1>3, <2>1 DEF LoadInv
  <2>6. RestInv'
    <3> SUFFICES ASSUME active, ~error, ~Pending, Running, ~Complete, visible'
                 PROVE  conn' # "off"
      BY <1>2, <2>1, <2>2 DEF RestInv
    <3> QED  BY <2>1 DEF Hide, Show, StreamEnds, StreamLost, Reconnect, Wait, Connect, RestInv
  <2> QED  BY <2>4, <2>5, <2>6
<1> QED  BY <1>3, <1>8, <1>10, <1>11, <1>12, <1>6, <1>13 DEF IInv

-----------------------------------------------------------------------------

\* A snapshot that has read the report is a snapshot.
LEMMA ReportSet ==
  ASSUME NEW snap \in View, NEW b \in BOOLEAN
  PROVE  [snap EXCEPT !.report = b] \in View
BY DEF View

\* A snapshot that has read the row is a snapshot.
LEMMA StatusSet ==
  ASSUME NEW snap \in View, NEW s \in {"CREATED"} \cup Server!Terminal
  PROVE  [snap EXCEPT !.status = s] \in View
BY DEF View

\* The three reads of a snapshot keep it honest: each is of its own moment,
\* and once the row was read as settled the others agree with it.
LEMMA ReadKeeps ==
  ASSUME IInv, NEW k \in Kind, ReadRow(k) \/ ReadReport(k) \/ ReadSequence(k)
  PROVE  IInv'
<1>1. UNCHANGED backend /\ UNCHANGED store /\ UNCHANGED stream /\ UNCHANGED bounds
      /\ visible' = visible /\ cancelling' = cancelling
  BY DEF ReadRow, ReadReport, ReadSequence, Read
<1>2. /\ view' = view /\ seq' = seq /\ cached' = cached /\ active' = active /\ error' = error
      /\ conn' = conn /\ srv' = srv /\ wire' = wire /\ late' = late
      /\ failures' = failures /\ hides' = hides /\ opens' = opens
  BY <1>1 DEF store, stream, bounds
<1>3. /\ RowInv' /\ Latest' = Latest /\ Latest \in 1..3 /\ Settled' = Settled
      /\ NeverExpires' = NeverExpires
      /\ status' = status /\ published' = published /\ feed' = feed /\ limit' = limit
  BY <1>1, SameRows DEF IInv
<1>4. seq \in 0..3 /\ srv.cursor \in 0..3 /\ gets \in [Kind -> Get]
  BY Types DEF IInv, TypeOK
<1>5. gets[k] \in Get /\ gets[k].snap \in View /\ Honest(gets[k])
  BY <1>4 DEF Get, IInv, GetInv
<1>6. PICK get \in Get :
        /\ gets' = [gets EXCEPT ![k] = get]
        /\ Honest(get)
        /\ gets[k].at # "none" /\ get.at \in Answering
        /\ gets[k].at = "row" => get.snap.status = status[task]
        /\ gets[k].at # "row" => gets[k].at \in Answering /\ get.snap.status = gets[k].snap.status
  <2>1. status[task] \in {"CREATED"} \cup Server!Terminal /\ published \subseteq {task}
    BY DEF IInv, RowInv, TypeOK
  <2>2. CASE ReadRow(k)
    <3> DEFINE get == [at |-> "report", snap |-> [NoView EXCEPT !.status = status[task]]]
    <3>1. /\ get.at = "report" /\ get.snap.status = status[task]
          /\ get.snap.report = FALSE /\ get.snap.last = 0
      BY DEF NoView
    <3>2. get \in Get
      <4>1. NoView \in View
        BY DEF NoView, View
      <4>2. get.snap \in View
        BY <2>1, <4>1, StatusSet
      <4> QED  BY <4>2 DEF Get
    <3>3. gets' = [gets EXCEPT ![k] = get] /\ gets[k].at = "row"
      BY <2>2 DEF ReadRow, Read
    <3>4. Honest(get)
      BY <3>1, <1>3 DEF Honest, Answering
    <3> HIDE DEF get
    <3> QED  BY <3>1, <3>2, <3>3, <3>4 DEF Answering
  <2>3. CASE ReadReport(k)
    <3> DEFINE get == [at |-> "sequence", snap |-> [gets[k].snap EXCEPT !.report = task \in published]]
    <3>1. /\ get.at = "sequence" /\ get.snap.status = gets[k].snap.status
          /\ get.snap.report = (task \in published) /\ get.snap.last = gets[k].snap.last
      BY <1>5 DEF View
    <3>2. get \in Get
      <4>1. (task \in published) \in BOOLEAN
        OBVIOUS
      <4>2. get.snap \in View
        BY <1>5, <4>1, ReportSet
      <4> QED  BY <4>2 DEF Get
    <3>3. gets' = [gets EXCEPT ![k] = get] /\ gets[k].at = "report"
      BY <2>3 DEF ReadReport, Read
    <3>4. Honest(get)
      BY <3>1, <3>3, <1>5 DEF Honest, Answering
    <3> HIDE DEF get
    <3> QED  BY <3>1, <3>2, <3>3, <3>4 DEF Answering
  <2>4. CASE ReadSequence(k)
    <3> DEFINE get == [at |-> "reply", snap |-> [gets[k].snap EXCEPT !.last = Latest]]
    <3>1. /\ get.at = "reply" /\ get.snap.status = gets[k].snap.status
          /\ get.snap.report = gets[k].snap.report /\ get.snap.last = Latest
      BY <1>5 DEF View
    <3>2. get \in Get
      BY <1>3, <1>5 DEF Get, View
    <3>3. gets' = [gets EXCEPT ![k] = get] /\ gets[k].at = "sequence"
      BY <2>4 DEF ReadSequence, Read
    <3>4. Honest(get)
      BY <3>1, <3>3, <1>3, <1>5 DEF Honest, Answering
    <3> HIDE DEF get
    <3> QED  BY <3>1, <3>2, <3>3, <3>4 DEF Answering
  <2> QED  BY <2>2, <2>3, <2>4
<1>7. gets'[k] = get /\ gets' \in [Kind -> Get] /\ \A j \in Kind \ {k} : gets'[j] = gets[j]
  BY <1>4, <1>6
<1>8. TypeOK'
  BY <1>1, <1>2, <1>3, <1>7 DEF IInv, TypeOK
<1>9. GetInv'
  <2> SUFFICES ASSUME NEW j \in Kind PROVE Honest(gets[j])'
    BY DEF GetInv
  <2>1. Honest(gets'[j])
    BY <1>6, <1>7 DEF IInv, GetInv
  <2> QED  BY <1>3, <2>1 DEF Honest
<1>10. ViewIsCommitted'
  BY <1>2, <1>3 DEF IInv, ViewIsCommitted
<1>11. WireInv'
  BY <1>1, <1>2, <1>3, <1>4, WireKept DEF IInv
<1>12. LateInv'
  BY <1>2, <1>3 DEF IInv, LateInv
<1>13. FollowInv'
  <2> SUFFICES ASSUME NeverExpires PROVE OrderInv' /\ LoadInv' /\ RestInv'
    BY <1>3 DEF FollowInv
  <2>1. OrderInv /\ LoadInv /\ RestInv
    BY DEF IInv, FollowInv
  <2>2. "open" \in Kind /\ "reload" \in Kind /\ "reconnect" \in Kind
    BY DEF Kind
  <2>3. gets'["open"].at # "none" => gets["open"].at # "none"
    BY <1>6, <1>7, <2>2
  <2>4. gets'["reload"].at # "none" => gets["reload"].at # "none"
    BY <1>6, <1>7, <2>2
  <2>5. OrderInv'
    BY <1>1, <1>2, <1>3, <2>1, <2>3, <2>4, <1>6, <1>7, <2>2 DEF OrderInv
  <2>6. view.status \in Server!Terminal => view.status = status[task] \/ status[task] = "TIMEOUT"
    BY DEF IInv, ViewIsCommitted
  <2>7. LoadInv'
    BY <1>2, <1>3, <1>6, <1>7, <2>1, <2>2, <2>4 DEF LoadInv
  <2>8. Pending'
    BY <1>6, <1>7 DEF Pending, Answering
  <2>9. RestInv'
    BY <2>8 DEF RestInv
  <2> QED  BY <2>5, <2>7, <2>9
<1> QED  BY <1>3, <1>8, <1>9, <1>10, <1>11, <1>12, <1>13 DEF IInv

\* A snapshot that fails leaves an error on the screen.
LEMMA LoadFailsKeeps ==
  ASSUME IInv, NEW k \in Kind, LoadFails(k)
  PROVE  IInv'
<1>1. /\ UNCHANGED backend /\ UNCHANGED stream /\ Fail
      /\ view' = view /\ seq' = seq /\ cached' = cached /\ active' = active
      /\ visible' = visible /\ cancelling' = cancelling
      /\ gets' = [gets EXCEPT ![k] = NoGet] /\ gets[k].at # "none"
      /\ error' = (error \/ k # "reconnect")
  BY DEF LoadFails
<1>2. conn' = conn /\ srv' = srv /\ wire' = wire /\ late' = late
  BY <1>1 DEF stream
<1>3. /\ RowInv' /\ Latest' = Latest /\ Latest \in 1..3 /\ Settled' = Settled
      /\ NeverExpires' = NeverExpires
      /\ status' = status /\ published' = published /\ feed' = feed /\ limit' = limit
  BY <1>1, SameRows DEF IInv
<1>4. seq \in 0..3 /\ srv.cursor \in 0..3 /\ gets \in [Kind -> Get] /\ error \in BOOLEAN
  BY Types DEF IInv, TypeOK
<1>5. NoGet \in Get /\ NoGet.at = "none" /\ Honest(NoGet)
  BY <1>3 DEF Get, NoGet, NoView, View, Honest, Answering
<1>6. gets'[k] = NoGet /\ gets' \in [Kind -> Get] /\ \A j \in Kind \ {k} : gets'[j] = gets[j]
  BY <1>1, <1>4, <1>5
<1>7. TypeOK'
  <2>1. error' \in BOOLEAN
    BY <1>1, <1>4
  <2>2. failures' \in 0..MaxFailures /\ hides' \in 0..MaxHides /\ opens' \in 0..MaxOpens
    BY <1>1, BoundsKept DEF IInv
  <2> QED  BY <1>1, <1>2, <1>3, <1>6, <2>1, <2>2 DEF IInv, TypeOK
<1>8. GetInv'
  <2> SUFFICES ASSUME NEW j \in Kind PROVE Honest(gets[j])'
    BY DEF GetInv
  <2>1. Honest(gets'[j])
    BY <1>5, <1>6 DEF IInv, GetInv
  <2> QED  BY <1>3, <2>1 DEF Honest
<1>9. ViewIsCommitted'
  BY <1>1, <1>3 DEF IInv, ViewIsCommitted
<1>10. WireInv'
  BY <1>1, <1>3, <1>4, WireKept DEF IInv
<1>11. LateInv'
  BY <1>2, <1>3 DEF IInv, LateInv
<1>12. FollowInv'
  <2> SUFFICES ASSUME NeverExpires PROVE OrderInv' /\ LoadInv' /\ RestInv'
    BY <1>3 DEF FollowInv
  <2>1. OrderInv /\ LoadInv /\ RestInv
    BY DEF IInv, FollowInv
  <2>2. "open" \in Kind /\ "reload" \in Kind /\ "reconnect" \in Kind
    BY DEF Kind
  <2>3. k # "reconnect"
    BY <1>1, <2>1 DEF LoadInv
  <2>4. OrderInv'
    BY <1>1, <1>2, <1>3, <1>5, <1>6, <2>1, <2>2 DEF OrderInv
  <2>5. LoadInv'
    BY <1>1, <1>3, <1>5, <1>6, <2>1, <2>2 DEF LoadInv, Answering
  <2>6. RestInv'
    BY <1>1, <2>3 DEF RestInv
  <2> QED  BY <2>4, <2>5, <2>6
<1> QED  BY <1>3, <1>7, <1>8, <1>9, <1>10, <1>11, <1>12 DEF IInv

\* Opening the drawer drops every request and the stream.
LEMMA OpenKeeps ==
  ASSUME IInv, Open
  PROVE  IInv'
<1>1. /\ UNCHANGED backend /\ Off /\ late' = FALSE
      /\ view' = view /\ seq' = seq /\ cached' = cached /\ active' = FALSE /\ error' = FALSE
      /\ visible' = visible /\ cancelling' = cancelling
      /\ gets' = StartGet([j \in Kind |-> NoGet], "open")
  BY DEF Open
<1>2. conn' = "off" /\ srv' = NoSrv /\ wire' = <<>>
  BY <1>1 DEF Off
<1>3. /\ RowInv' /\ Latest' = Latest /\ Latest \in 1..3 /\ Settled' = Settled
      /\ NeverExpires' = NeverExpires
      /\ status' = status /\ published' = published /\ feed' = feed /\ limit' = limit
  BY <1>1, SameRows DEF IInv
<1>4. seq \in 0..3
  BY Types DEF IInv
<1>5. "open" \in Kind /\ "reload" \in Kind /\ "reconnect" \in Kind
  BY DEF Kind
<1>6. /\ gets'["open"] = [at |-> "row", snap |-> NoView]
      /\ \A j \in Kind \ {"open"} : gets'[j] = NoGet
      /\ DOMAIN gets' = Kind /\ gets' = [j \in Kind |-> gets'[j]]
  BY <1>1, <1>5 DEF StartGet
<1>7. NoGet \in Get /\ [at |-> "row", snap |-> NoView] \in Get
  BY DEF Get, NoGet, NoView, View
<1>8. gets' \in [Kind -> Get]
  BY <1>6, <1>7
<1>9. /\ WireInv'
      /\ conn' \in {"off", "on", "waiting"} /\ srv' \in Srv /\ wire' \in Seq(1..3)
  <2>1. 0 \in 0..3 /\ 0 <= seq' /\ 0 <= Latest' /\ Latest' \in 1..3 /\ seq' \in 0..3
    BY <1>1, <1>3, <1>4
  <2> QED  BY <1>1, <2>1, StreamSet
<1>10. TypeOK'
  <2>1. failures' \in 0..MaxFailures /\ hides' \in 0..MaxHides /\ opens' \in 0..MaxOpens
    BY BoundsKept DEF IInv
  <2> QED  BY <1>1, <1>3, <1>8, <1>9, <2>1 DEF IInv, TypeOK
<1>11. GetInv'
  <2> SUFFICES ASSUME NEW j \in Kind PROVE Honest(gets[j])'
    BY DEF GetInv
  <2>1. gets'[j].snap = NoView /\ gets'[j].at \in {"none", "row"}
    BY <1>6 DEF NoGet
  <2>2. NoView.report = FALSE /\ NoView.last = 0 /\ 0 <= Latest'
    BY <1>3 DEF NoView
  <2> QED  BY <2>1, <2>2 DEF Honest, Answering
<1>12. ViewIsCommitted'
  BY <1>1, <1>3 DEF IInv, ViewIsCommitted
<1>13. LateInv'
  BY <1>1 DEF LateInv
<1>14. FollowInv'
  <2> SUFFICES ASSUME NeverExpires PROVE OrderInv' /\ LoadInv' /\ RestInv'
    BY <1>3 DEF FollowInv
  <2>1. OrderInv /\ LoadInv /\ RestInv
    BY DEF IInv, FollowInv
  <2>2. /\ gets'["open"].at = "row" /\ gets'["reload"].at = "none"
        /\ gets'["reconnect"].at = "none"
    BY <1>5, <1>6 DEF NoGet
  <2>3. OrderInv'
    BY <1>1, <1>2, <1>3, <2>1, <2>2 DEF OrderInv
  <2>4. LoadInv'
    BY <2>2 DEF LoadInv, Answering
  <2>5. RestInv'
    BY <1>1 DEF RestInv
  <2> QED  BY <2>3, <2>4, <2>5
<1> QED  BY <1>3, <1>9, <1>10, <1>11, <1>12, <1>13, <1>14 DEF IInv

-----------------------------------------------------------------------------

\* A committed snapshot may be shown; the sequence never goes back.
LEMMA AdoptKeeps ==
  ASSUME IInv, UNCHANGED backend, NEW snap \in View, Adopt(snap),
         snap.status \in {"CREATED", status[task]},
         snap.report => task \in published,
         snap.last <= Latest
  PROVE  /\ ViewIsCommitted'
         /\ view' = snap /\ active' = TRUE
         /\ seq' \in 0..3 /\ seq <= seq' /\ snap.last <= seq' /\ snap.last \in 0..3
<1>1. view' = snap /\ active' = TRUE /\ seq' = IF snap.last > seq THEN snap.last ELSE seq
  BY DEF Adopt
<1>2. /\ Latest' = Latest /\ Latest \in 1..3 /\ status' = status /\ published' = published
  BY SameRows DEF IInv
<1>3. seq \in 0..3 /\ snap.last \in 0..3 /\ seq <= Latest
  BY Types DEF IInv, View, ViewIsCommitted
<1>4. seq' \in 0..3 /\ seq <= seq' /\ snap.last <= seq' /\ seq' <= Latest
  BY <1>1, <1>2, <1>3
<1>5. snap.status \in Server!Terminal => snap.status = status[task]
  BY DEF Server!Terminal, Server!Reporting
<1>6. ViewIsCommitted'
  BY <1>1, <1>2, <1>4, <1>5 DEF ViewIsCommitted
<1> QED  BY <1>1, <1>3, <1>4, <1>6

\* An answer that is accepted either completes the view or, when it is of a
\* running task, is followed by a stream as soon as the tab is looked at.
LEMMA AcceptKeeps ==
  ASSUME IInv, NEW k \in Kind, Accept(k) \/ AcceptWithoutReport(k)
  PROVE  IInv'
<1> DEFINE snap == gets[k].snap
<1>1. /\ UNCHANGED backend /\ gets[k].at = "reply" /\ Adopt(snap)
      /\ gets' = [gets EXCEPT ![k] = NoGet]
      /\ visible' = visible /\ cancelling' = cancelling
  BY DEF Accept, AcceptWithoutReport
<1>2. /\ RowInv' /\ Latest' = Latest /\ Latest \in 1..3 /\ Settled' = Settled
      /\ NeverExpires' = NeverExpires
      /\ status' = status /\ published' = published /\ feed' = feed /\ limit' = limit
  BY <1>1, SameRows DEF IInv
<1>3. /\ seq \in 0..3 /\ srv.cursor \in 0..3 /\ gets \in [Kind -> Get] /\ visible \in BOOLEAN
      /\ error \in BOOLEAN /\ cached \in BOOLEAN
  BY Types DEF IInv, TypeOK
<1>4. snap \in View /\ Honest(gets[k])
  BY <1>3 DEF Get, IInv, GetInv
<1>5. /\ snap.status \in {"CREATED", status[task]}
      /\ snap.report => task \in published
      /\ snap.status \in Server!Terminal => (task \in published => snap.report)
      /\ snap.last <= Latest
  BY <1>1, <1>4 DEF Honest, Answering
<1> HIDE DEF snap
<1>6. /\ ViewIsCommitted'
      /\ view' = snap /\ active' = TRUE
      /\ seq' \in 0..3 /\ seq <= seq' /\ snap.last <= seq' /\ snap.last \in 0..3
  BY <1>1, <1>4, <1>5, AdoptKeeps
<1>7. \/ /\ Accept(k)
         /\ error' = error /\ cached' = (cached \/ snap.report) /\ UNCHANGED bounds
         /\ snap.status # "CREATED" => UNCHANGED stream
         /\ snap.status = "CREATED" /\ visible => Connect(snap.last)
         /\ snap.status = "CREATED" /\ ~visible => Disconnect
      \/ /\ AcceptWithoutReport(k)
         /\ error' = (error \/ k # "reconnect") /\ cached' = cached /\ Fail
         /\ UNCHANGED stream
  <2>1. CASE Accept(k)
    <3>1. error' = error /\ UNCHANGED bounds /\ cached' = (cached \/ snap.report)
          /\ FollowUp(snap)
      BY <2>1 DEF Accept, snap
    <3>2. /\ snap.status # "CREATED" => UNCHANGED stream
          /\ snap.status = "CREATED" /\ visible => Connect(snap.last)
          /\ snap.status = "CREATED" /\ ~visible => Disconnect
      BY <3>1 DEF FollowUp
    <3> QED  BY <2>1, <3>1, <3>2
  <2>2. CASE AcceptWithoutReport(k)
    BY <2>2 DEF AcceptWithoutReport
  <2> QED  BY <2>1, <2>2
<1>8. \/ UNCHANGED stream
      \/ snap.status = "CREATED" /\ visible /\ Connect(snap.last)
      \/ snap.status = "CREATED" /\ ~visible /\ Disconnect
  BY <1>7
<1>9. late' \in BOOLEAN /\ LateInv' /\ (NeverExpires /\ late' => gets["open"].at = "none")
  <2>1. UNCHANGED late \/ late' = FALSE \/ Aborts
    BY <1>8 DEF Disconnect, Connect, stream
  <2> QED  BY <1>2, <2>1, LateStays
<1>10. NoGet \in Get /\ NoGet.at = "none" /\ Honest(NoGet)
  BY <1>2 DEF Get, NoGet, NoView, View, Honest, Answering
<1>11. gets'[k] = NoGet /\ gets' \in [Kind -> Get] /\ \A j \in Kind \ {k} : gets'[j] = gets[j]
  BY <1>1, <1>3, <1>10
<1>12. /\ WireInv'
       /\ conn' \in {"off", "on", "waiting"} /\ srv' \in Srv /\ wire' \in Seq(1..3)
  <2>1. CASE UNCHANGED stream
    <3>1. conn' = conn /\ srv' = srv /\ wire' = wire
      BY <2>1 DEF stream
    <3> QED  BY <1>2, <1>3, <1>6, <2>1, <3>1, WireKept DEF IInv, TypeOK
  <2>2. CASE Connect(snap.last) \/ Disconnect
    <3>1. snap.last <= Latest' /\ Latest' \in 1..3
      BY <1>2, <1>5
    <3> QED  BY <1>6, <2>2, <3>1, StreamSet DEF Disconnect
  <2> QED  BY <1>8, <2>1, <2>2
<1>13. TypeOK'
  <2>1. error' \in BOOLEAN
    BY <1>3, <1>7
  <2>2. cached' \in BOOLEAN
    BY <1>3, <1>7
  <2>3. failures' \in 0..MaxFailures /\ hides' \in 0..MaxHides /\ opens' \in 0..MaxOpens
    BY <1>7, BoundsKept DEF IInv
  <2>4. {cached', active', error', visible'} \subseteq BOOLEAN
    BY <1>1, <1>3, <1>6, <2>1, <2>2
  <2> QED  BY <1>1, <1>2, <1>4, <1>6, <1>11, <1>12, <1>9, <2>3, <2>4 DEF IInv, TypeOK
<1>14. GetInv'
  <2> SUFFICES ASSUME NEW j \in Kind PROVE Honest(gets[j])'
    BY DEF GetInv
  <2>1. Honest(gets'[j])
    BY <1>10, <1>11 DEF IInv, GetInv
  <2> QED  BY <1>2, <2>1 DEF Honest
<1>15. FollowInv'
  <2> SUFFICES ASSUME NeverExpires PROVE OrderInv' /\ LoadInv' /\ RestInv'
    BY <1>2 DEF FollowInv
  <2>1. OrderInv /\ LoadInv /\ RestInv
    BY DEF IInv, FollowInv
  <2>2. "open" \in Kind /\ "reload" \in Kind /\ "reconnect" \in Kind
    BY DEF Kind
  <2>3. k # "reconnect"
    BY <1>1, <2>1 DEF LoadInv
  <2>4. gets'["open"].at = "none"
    BY <1>1, <1>10, <1>11, <2>1, <2>2, <2>3 DEF OrderInv, Kind
  <2>5. OrderInv'
    BY <1>1, <1>2, <1>6, <2>1, <2>4 DEF OrderInv
  <2>6. LoadInv'
    BY <1>2, <1>10, <1>11, <2>1, <2>2, <2>4 DEF LoadInv, Answering
  <2>7. RestInv'
    <3>1. CASE AcceptWithoutReport(k)
      <4>1. error'
        BY <3>1, <2>3 DEF AcceptWithoutReport
      <4> QED  BY <4>1 DEF RestInv
    <3>2. CASE Accept(k) /\ snap.status = "CREATED"
      <4>1. Running'
        BY <1>6, <3>2 DEF Running
      <4>2. FollowUp(snap)
        BY <3>2 DEF Accept, snap
      <4>3. visible => Connect(snap.last)
        BY <3>2, <4>2 DEF FollowUp
      <4>4. visible' => conn' # "off"
        BY <1>1, <4>3 DEF Connect
      <4> QED  BY <4>1, <4>4 DEF RestInv
    <3>3. CASE Accept(k) /\ snap.status # "CREATED"
      <4>1. snap.status = status[task] /\ Settled
        BY <1>5, <3>3 DEF Settled, IInv, RowInv
      <4>2. cached' = (cached \/ snap.report)
        BY <3>3 DEF Accept, snap
      <4>3. task \in published => snap.report /\ cached'
        BY <1>5, <4>1, <4>2 DEF Settled
      <4>4. Complete'
        BY <1>2, <1>6, <4>1, <4>3 DEF Complete
      <4> QED  BY <4>4 DEF RestInv
    <3> QED  BY <3>1, <3>2, <3>3
  <2> QED  BY <2>5, <2>6, <2>7
<1> QED  BY <1>2, <1>6, <1>12, <1>13, <1>14, <1>9, <1>15 DEF IInv

\* The answer to a cancel request completes the view.
LEMMA CancelKeeps ==
  ASSUME IInv, RequestCancel \/ ServerCancels \/ CancelReply \/ CancelFails
  PROVE  IInv'
<1>1. CASE ServerCancels /\ ~Settled
  <2>1. /\ Server!Settle(task) /\ cancelling' \in {"none", "sent", "reply"}
        /\ UNCHANGED <<limit, store, visible, gets, stream, bounds>>
    BY <1>1 DEF ServerCancels
  <2> QED  BY <2>1, SettleKeeps
<1>2. CASE RequestCancel \/ (ServerCancels /\ Settled) \/ CancelReply \/ CancelFails
  <2> DEFINE snap == [status |-> status[task], last |-> Latest, report |-> task \in published]
  <2>1. /\ UNCHANGED backend /\ UNCHANGED stream
        /\ gets' = gets /\ visible' = visible
        /\ cancelling' \in {"none", "sent", "reply"}
        /\ cancelling' = "reply" => Settled
    BY <1>2 DEF RequestCancel, ServerCancels, CancelReply, CancelFails
  <2>2. /\ RowInv' /\ Latest' = Latest /\ Latest \in 1..3 /\ Settled' = Settled
        /\ NeverExpires' = NeverExpires
        /\ status' = status /\ published' = published /\ feed' = feed /\ limit' = limit
    BY <2>1, SameRows DEF IInv
  <2>3. conn' = conn /\ srv' = srv /\ wire' = wire /\ late' = late
    BY <2>1 DEF stream
  <2>4. /\ snap.status = status[task] /\ snap.last = Latest
        /\ snap.report = (task \in published)
    OBVIOUS
  <2>5. snap \in View
    <3>1. status[task] \in {"none", "CREATED"} \cup Server!Terminal /\ Latest \in 0..3
      BY <2>2 DEF IInv, RowInv
    <3>2. (task \in published) \in BOOLEAN
      OBVIOUS
    <3> QED  BY <3>1, <3>2 DEF View
  <2>6. \/ /\ UNCHANGED bounds \/ Fail
           /\ view' = view /\ seq' = seq /\ cached' = cached /\ active' = active
           /\ error' = error \/ error' = TRUE
        \/ /\ cancelling = "reply" /\ active /\ Adopt(snap)
           /\ cached' = (cached \/ snap.report) /\ error' = error /\ UNCHANGED bounds
        \/ /\ cancelling = "reply" /\ active /\ Adopt(snap)
           /\ cached' = cached /\ error' = TRUE /\ Fail
    BY <1>2 DEF RequestCancel, ServerCancels, CancelReply, CancelFails, store
  <2> HIDE DEF snap
  <2>7. /\ seq \in 0..3 /\ srv.cursor \in 0..3
        /\ {cached, active, error, visible} \subseteq BOOLEAN
    BY Types DEF IInv, TypeOK
  <2>8. Latest <= Latest
    BY <2>2
  <2>9. Adopt(snap) => /\ ViewIsCommitted' /\ view' = snap /\ active' = TRUE
                       /\ seq' \in 0..3 /\ seq <= seq'
    BY <2>1, <2>4, <2>5, <2>8, AdoptKeeps
  <2>10. /\ ViewIsCommitted' /\ seq' \in 0..3 /\ seq <= seq'
         /\ view' \in View /\ active' \in BOOLEAN
    <3>1. CASE Adopt(snap)
      BY <2>5, <2>9, <3>1
    <3>2. CASE view' = view /\ seq' = seq /\ active' = active
      BY <2>2, <2>7, <3>2 DEF IInv, ViewIsCommitted, TypeOK
    <3> QED  BY <2>6, <3>1, <3>2
  <2>11. WireInv'
    BY <2>1, <2>2, <2>7, <2>10, WireKept DEF IInv
  <2>12. GetInv'
    BY <2>1, <2>2 DEF IInv, GetInv, Honest
  <2>13. TypeOK'
    <3>1. failures' \in 0..MaxFailures /\ hides' \in 0..MaxHides /\ opens' \in 0..MaxOpens
      BY <2>6, BoundsKept DEF IInv
    <3>2. cached' \in BOOLEAN
      BY <2>6, <2>7
    <3>3. error' \in BOOLEAN
      BY <2>6, <2>7
    <3> QED  BY <2>1, <2>2, <2>3, <2>10, <3>1, <3>2, <3>3 DEF IInv, TypeOK
  <2>14. LateInv'
    BY <2>2, <2>3 DEF IInv, LateInv
  <2>15. FollowInv'
    <3> SUFFICES ASSUME NeverExpires PROVE OrderInv' /\ LoadInv' /\ RestInv'
      BY <2>2 DEF FollowInv
    <3>1. OrderInv /\ LoadInv /\ RestInv
      BY DEF IInv, FollowInv
    <3>2. active' = active
      BY <2>6, <2>7, <2>9
    <3>3. OrderInv'
      BY <2>1, <2>2, <2>3, <3>1, <3>2 DEF OrderInv
    <3>4. Adopt(snap) /\ active => gets["open"].at = "none" /\ view' = snap
      BY <2>9, <3>1 DEF OrderInv
    <3>5. LoadInv'
      BY <2>1, <2>2, <2>6, <3>1, <3>4 DEF LoadInv, Answering
    <3>6. RestInv'
      <4>1. CASE error'
        BY <4>1 DEF RestInv
      <4>2. CASE /\ cancelling = "reply" /\ Adopt(snap)
                 /\ cached' = (cached \/ snap.report)
        <5>1. Settled
          BY <3>1, <4>2 DEF OrderInv
        <5>2. task \in published => snap.report /\ cached'
          BY <2>4, <4>2
        <5>3. Complete'
          BY <2>2, <2>4, <2>9, <4>2, <5>1, <5>2 DEF Complete
        <5> QED  BY <5>3 DEF RestInv
      <4>3. CASE view' = view /\ cached' = cached /\ error' = error
        BY <2>1, <2>2, <2>3, <3>1, <3>2, <4>3 DEF RestInv, Running, Complete, Pending
      <4>4. error' \/ error' = error
        BY <2>6
      <4> QED  BY <2>6, <4>1, <4>2, <4>3, <4>4
    <3> QED  BY <3>3, <3>5, <3>6
  <2> QED  BY <2>2, <2>10, <2>11, <2>12, <2>13, <2>14, <2>15 DEF IInv
<1> QED  BY <1>1, <1>2

-----------------------------------------------------------------------------

\* The server's end after a batch.
LEMMA SrvSet ==
  ASSUME NEW s \in Srv, NEW n \in 1..3, NEW a \in {"done", "row"}, NEW t,
         t = [s EXCEPT !.at = a, !.cursor = n]
  PROVE  t \in Srv /\ t.cursor = n
<1>1. a \in {"row", "latest", "events", "done"} /\ n \in 0..3
  OBVIOUS
<1> QED  BY <1>1 DEF Srv

\* The server's end after the latest sequence is read.
LEMMA LatestSet ==
  ASSUME NEW s \in Srv, NEW n \in 1..3, NEW t,
         t = [s EXCEPT !.at = "events", !.latest = n]
  PROVE  t \in Srv /\ t.cursor = s.cursor
<1>1. n \in 0..3
  OBVIOUS
<1> QED  BY <1>1 DEF Srv

\* A batch continues where the last one ended.
LEMMA ServeKeeps ==
  ASSUME IInv, SrvRow \/ SrvLatest \/ SrvEvents
  PROVE  IInv'
<1>1. /\ UNCHANGED backend /\ UNCHANGED store /\ UNCHANGED bounds
      /\ visible' = visible /\ gets' = gets /\ cancelling' = cancelling /\ conn' = conn
      /\ late' = late
      /\ srv.at # "done"
  BY DEF SrvRow, SrvLatest, SrvEvents
<1>2. /\ view' = view /\ seq' = seq /\ cached' = cached /\ active' = active /\ error' = error
      /\ failures' = failures /\ hides' = hides /\ opens' = opens
  BY <1>1 DEF store, bounds
<1>3. /\ RowInv' /\ Latest' = Latest /\ Latest \in 1..3 /\ Settled' = Settled
      /\ NeverExpires' = NeverExpires
      /\ status' = status /\ published' = published /\ feed' = feed /\ limit' = limit
  BY <1>1, SameRows DEF IInv
<1>4. /\ seq \in 0..3 /\ srv.cursor \in 0..3 /\ srv \in Srv /\ wire \in Seq(1..3)
      /\ Settled \in BOOLEAN
  BY Types DEF IInv, TypeOK, Settled
<1>5. conn = "on" /\ srv.cursor <= Latest /\ Len(wire) <= srv.cursor
      /\ srv.cursor - Len(wire) <= seq
      /\ \A i \in 1..Len(wire) : wire[i] = (srv.cursor - Len(wire)) + i
  BY <1>1 DEF IInv, WireInv, NoSrv
<1>6. WireInv' /\ srv' \in Srv /\ wire' \in Seq(1..3)
  <2>1. CASE SrvRow \/ SrvLatest
    <3>1. srv'.cursor = srv.cursor /\ wire' = wire /\ srv' \in Srv
      <4>1. CASE SrvRow
        BY <4>1, <1>4 DEF SrvRow, Srv
      <4>2. CASE SrvLatest
        <5>1. srv' = [srv EXCEPT !.at = "events", !.latest = Latest] /\ wire' = wire
          BY <4>2 DEF SrvLatest
        <5> QED  BY <1>3, <1>4, <5>1, LatestSet
      <4> QED  BY <2>1, <4>1, <4>2
    <3> QED  BY <1>1, <1>2, <1>3, <1>4, <1>5, <3>1 DEF WireInv
  <2>2. CASE SrvEvents
    <3> DEFINE more == [i \in 1..(Latest - srv.cursor) |-> srv.cursor + i]
    <3>1. wire' = wire \o more
      BY <2>2 DEF SrvEvents
    <3>2. srv'.cursor = Latest /\ srv' \in Srv
      <4> DEFINE a == IF srv.terminal /\ Latest >= srv.latest THEN "done" ELSE "row"
      <4>1. srv' = [srv EXCEPT !.at = a, !.cursor = Latest] /\ a \in {"done", "row"}
        BY <2>2 DEF SrvEvents
      <4> HIDE DEF a
      <4> QED  BY <1>3, <1>4, <4>1, SrvSet
    <3>3. Latest - srv.cursor \in Nat /\ Len(wire) \in Nat
      BY <1>3, <1>4, <1>5
    <3>4. more \in Seq(1..3) /\ Len(more) = Latest - srv.cursor
      BY <1>3, <1>4, <1>5, <3>3
    <3>5. \A i \in 1..Len(more) : more[i] = srv.cursor + i
      BY <3>4
    <3> HIDE DEF more
    <3>6. wire' \in Seq(1..3) /\ Len(wire') = Len(wire) + Len(more)
      BY <1>4, <3>1, <3>4, SMTT(30)
    <3>7. \A i \in 1..Len(wire') : wire'[i] = IF i <= Len(wire) THEN wire[i] ELSE more[i - Len(wire)]
      BY <1>4, <3>1, <3>4
    <3>8. Latest - Len(wire') = srv.cursor - Len(wire)
      BY <1>3, <1>4, <3>3, <3>4, <3>6, SMTT(30)
    <3>9. \A i \in 1..Len(wire') : wire'[i] = (Latest - Len(wire')) + i
      <4> SUFFICES ASSUME NEW i \in 1..Len(wire')
                   PROVE  wire'[i] = (srv.cursor - Len(wire)) + i
        BY <3>8
      <4>1. CASE i <= Len(wire)
        BY <1>5, <3>3, <3>7, <4>1
      <4>2. CASE i > Len(wire)
        <5>1. i - Len(wire) \in 1..Len(more)
          BY <3>3, <3>4, <3>6, <4>2
        <5> QED  BY <1>4, <3>3, <3>5, <3>7, <4>2, <5>1
      <4> QED  BY <3>3, <4>1, <4>2
    <3>10. Len(wire') <= Latest
      BY <1>3, <1>4, <1>5, <3>3, <3>4, <3>6
    <3> QED  BY <1>1, <1>2, <1>3, <1>5, <3>2, <3>6, <3>8, <3>9, <3>10 DEF WireInv
  <2> QED  BY <2>1, <2>2
<1>7. TypeOK'
  BY <1>1, <1>2, <1>3, <1>6 DEF IInv, TypeOK
<1>8. GetInv'
  BY <1>1, <1>3 DEF IInv, GetInv, Honest
<1>9. ViewIsCommitted'
  BY <1>2, <1>3 DEF IInv, ViewIsCommitted
<1>10. LateInv'
  BY <1>1, <1>3 DEF IInv, LateInv
<1>11. FollowInv'
  BY <1>1, <1>2, <1>3 DEF IInv, FollowInv, OrderInv, LoadInv, RestInv, Pending, Running, Complete
<1> QED  BY <1>3, <1>6, <1>7, <1>8, <1>9, <1>10, <1>11 DEF IInv

\* A cursor expires only under a replay limit that some feed exceeds.
LEMMA CursorKeeps ==
  ASSUME IInv, CursorExpires
  PROVE  IInv'
<1>1. /\ UNCHANGED backend /\ UNCHANGED store /\ UNCHANGED bounds
      /\ visible' = visible /\ cancelling' = cancelling
      /\ srv.at = "latest" /\ TooFar
      /\ \/ gets' = StartGet(gets, "reconnect") /\ Disconnect
         \/ srv' = [srv EXCEPT !.at = "done"] /\ gets' = gets /\ conn' = conn /\ wire' = wire
            /\ late' = late
  BY DEF CursorExpires
<1>2. /\ view' = view /\ seq' = seq /\ cached' = cached /\ active' = active /\ error' = error
      /\ failures' = failures /\ hides' = hides /\ opens' = opens
  BY <1>1 DEF store, bounds
<1>3. /\ RowInv' /\ Latest' = Latest /\ Latest \in 1..3 /\ Settled' = Settled
      /\ NeverExpires' = NeverExpires
      /\ status' = status /\ published' = published /\ feed' = feed /\ limit' = limit
  BY <1>1, SameRows DEF IInv
<1>4. /\ seq \in 0..3 /\ srv.cursor \in 0..3 /\ srv \in Srv /\ gets \in [Kind -> Get]
      /\ "reconnect" \in Kind /\ limit \in Nat
  BY Types, LimitAssumption DEF IInv, TypeOK, Kind
<1>5. ~NeverExpires
  BY <1>1, <1>3, <1>4 DEF TooFar, NeverExpires
<1>6. WireInv' /\ conn' \in {"off", "on", "waiting"} /\ srv' \in Srv /\ wire' \in Seq(1..3)
  <2>1. CASE Disconnect
    <3>1. 0 \in 0..3 /\ 0 <= seq' /\ 0 <= Latest' /\ Latest' \in 1..3 /\ seq' \in 0..3
      BY <1>2, <1>3, <1>4
    <3> QED  BY <2>1, <3>1, StreamSet DEF Disconnect
  <2>2. CASE srv' = [srv EXCEPT !.at = "done"] /\ conn' = conn /\ wire' = wire
    <3>1. srv' \in Srv /\ srv'.cursor = srv.cursor
      BY <1>4, <2>2 DEF Srv
    <3>2. conn = "on"
      BY <1>1 DEF IInv, WireInv, NoSrv
    <3>3. wire \in Seq(1..3) /\ conn \in {"off", "on", "waiting"}
      BY DEF IInv, TypeOK
    <3> QED  BY <1>2, <1>3, <2>2, <3>1, <3>2, <3>3 DEF IInv, WireInv
  <2> QED  BY <1>1, <2>1, <2>2
<1>7. gets' \in [Kind -> Get] /\ \A j \in Kind : Honest(gets'[j])
  <2>1. CASE gets' = gets
    BY <1>4, <2>1 DEF IInv, GetInv
  <2>2. CASE gets' = StartGet(gets, "reconnect")
    <3> DEFINE get == [at |-> "row", snap |-> NoView]
    <3>1. get \in Get
      BY DEF Get, NoView, View
    <3>2. gets' = [gets EXCEPT !["reconnect"] = get]
      BY <2>2 DEF StartGet
    <3>3. get.at = "row" /\ get.snap = NoView /\ NoView.report = FALSE /\ NoView.last = 0
      BY DEF NoView
    <3>4. Honest(get)
      BY <1>3, <3>3 DEF Honest, Answering
    <3> HIDE DEF get
    <3> QED  BY <1>4, <3>1, <3>2, <3>4 DEF IInv, GetInv
  <2> QED  BY <1>1, <2>1, <2>2
<1>8. late' \in BOOLEAN /\ LateInv'
  <2>1. UNCHANGED late \/ late' = FALSE \/ Aborts
    BY <1>1 DEF Disconnect
  <2> QED  BY <1>3, <2>1, LateStays
<1>9. TypeOK'
  BY <1>1, <1>2, <1>3, <1>6, <1>7, <1>8 DEF IInv, TypeOK
<1>10. GetInv'
  BY <1>3, <1>7 DEF GetInv, Honest
<1>11. ViewIsCommitted'
  BY <1>2, <1>3 DEF IInv, ViewIsCommitted
<1>12. FollowInv'
  BY <1>3, <1>5 DEF FollowInv
<1> QED  BY <1>3, <1>6, <1>9, <1>10, <1>11, <1>8, <1>12 DEF IInv

-----------------------------------------------------------------------------

\* An event already seen is dropped.
LEMMA SkipKeeps ==
  ASSUME IInv, SkipEvent
  PROVE  IInv'
<1>1. /\ UNCHANGED backend /\ UNCHANGED store /\ UNCHANGED bounds
      /\ visible' = visible /\ gets' = gets /\ cancelling' = cancelling
      /\ conn' = conn /\ srv' = srv /\ wire' = Tail(wire) /\ late' = late
      /\ wire # <<>> /\ Head(wire) <= seq
  BY DEF SkipEvent
<1>2. /\ view' = view /\ seq' = seq /\ cached' = cached /\ active' = active /\ error' = error
      /\ failures' = failures /\ hides' = hides /\ opens' = opens
  BY <1>1 DEF store, bounds
<1>3. /\ RowInv' /\ Latest' = Latest /\ Latest \in 1..3 /\ Settled' = Settled
      /\ NeverExpires' = NeverExpires
      /\ status' = status /\ published' = published /\ feed' = feed /\ limit' = limit
  BY <1>1, SameRows DEF IInv
<1>4. seq \in 0..3 /\ srv.cursor \in 0..3 /\ srv.cursor <= Latest
  BY Types DEF IInv, WireInv
<1>5. /\ conn = "on" /\ Len(wire) \in Nat \ {0} /\ Len(wire) <= srv.cursor
      /\ Head(wire) = (srv.cursor - Len(wire)) + 1
      /\ wire' \in Seq(1..3) /\ Len(wire') = Len(wire) - 1
      /\ \A i \in 1..Len(wire') : wire'[i] = (srv.cursor - Len(wire')) + i
  BY <1>1, HeadOfWire
<1>6. WireInv'
  <2>1. Len(wire') <= srv.cursor /\ srv.cursor - Len(wire') <= seq
    BY <1>1, <1>4, <1>5
  <2> QED  BY <1>1, <1>2, <1>3, <1>4, <1>5, <2>1 DEF WireInv
<1>7. TypeOK'
  BY <1>1, <1>2, <1>3, <1>5 DEF IInv, TypeOK
<1>8. GetInv'
  BY <1>1, <1>3 DEF IInv, GetInv, Honest
<1>9. ViewIsCommitted'
  BY <1>2, <1>3 DEF IInv, ViewIsCommitted
<1>10. LateInv'
  BY <1>1, <1>3 DEF IInv, LateInv
<1>11. FollowInv'
  BY <1>1, <1>2, <1>3 DEF IInv, FollowInv, OrderInv, LoadInv, RestInv, Pending, Running, Complete
<1> QED  BY <1>3, <1>6, <1>7, <1>8, <1>9, <1>10, <1>11 DEF IInv

\* A progress event moves the tab to it and announces what exists.
LEMMA ApplyKeeps ==
  ASSUME IInv, ApplyEvent
  PROVE  IInv'
<1> DEFINE n == Head(wire)
<1> DEFINE announced == feed[task][n] = "report_generated"
<1>1. /\ UNCHANGED backend
      /\ active' = active /\ error' = error
      /\ visible' = visible /\ gets' = gets /\ cancelling' = cancelling
      /\ conn' = conn /\ srv' = srv /\ wire' = Tail(wire) /\ late' = late
      /\ wire # <<>> /\ n > seq /\ ~Closing(n) /\ seq' = n
      /\ view' = [view EXCEPT !.last = n, !.report = @ \/ announced]
      /\ cached' = (cached \/ announced) \/ cached' = cached
      /\ UNCHANGED bounds \/ Fail
  BY DEF ApplyEvent
<1>2. /\ RowInv' /\ Latest' = Latest /\ Latest \in 1..3 /\ Settled' = Settled
      /\ NeverExpires' = NeverExpires
      /\ status' = status /\ published' = published /\ feed' = feed /\ limit' = limit
  BY <1>1, SameRows DEF IInv
<1>3. /\ seq \in 0..3 /\ srv.cursor \in 0..3 /\ view \in View /\ cached \in BOOLEAN
      /\ srv.cursor <= Latest
  BY Types DEF IInv, TypeOK, WireInv
<1>4. /\ conn = "on" /\ Len(wire) \in Nat \ {0} /\ Len(wire) <= srv.cursor
      /\ n = (srv.cursor - Len(wire)) + 1 /\ n \in 1..Latest /\ n \in 1..3
      /\ wire' \in Seq(1..3) /\ Len(wire') = Len(wire) - 1
      /\ \A i \in 1..Len(wire') : wire'[i] = (srv.cursor - Len(wire')) + i
  BY <1>1, HeadOfWire
<1>5. announced => task \in published
  BY <1>4, RowFacts DEF IInv
<1>6. announced \in BOOLEAN
  OBVIOUS
<1> HIDE DEF n, announced
<1>7. WireInv'
  <2>1. Len(wire') <= srv.cursor /\ srv.cursor - Len(wire') <= seq'
    BY <1>1, <1>3, <1>4
  <2> QED  BY <1>1, <1>2, <1>3, <1>4, <2>1 DEF WireInv
<1>8. /\ view' \in View /\ view'.status = view.status /\ view'.last = n
      /\ view'.report = (view.report \/ announced)
  <2> DEFINE b == view.report \/ announced
  <2>1. b \in BOOLEAN
    OBVIOUS
  <2>2. n \in 0..3
    BY <1>4
  <2>3. view' = [view EXCEPT !.last = n, !.report = b]
    BY <1>1, <1>3 DEF View
  <2>4. b = (view.report \/ announced)
    OBVIOUS
  <2> HIDE DEF b
  <2>5. view' \in View /\ view'.status = view.status /\ view'.last = n /\ view'.report = b
    BY <1>3, <2>1, <2>2, <2>3 DEF View
  <2> QED  BY <2>4, <2>5
<1>9. TypeOK'
  <2>1. failures' \in 0..MaxFailures /\ hides' \in 0..MaxHides /\ opens' \in 0..MaxOpens
    BY <1>1, BoundsKept DEF IInv
  <2>2. cached' \in BOOLEAN
    BY <1>1, <1>3, <1>6
  <2>3. seq' \in 0..3
    BY <1>1, <1>4
  <2> QED  BY <1>1, <1>2, <1>4, <1>8, <2>1, <2>2, <2>3 DEF IInv, TypeOK
<1>10. GetInv'
  BY <1>1, <1>2 DEF IInv, GetInv, Honest
<1>11. ViewIsCommitted'
  <2>1. view'.status \in Server!Terminal =>
          view'.status = status[task] \/ (view'.status = "FAILED" /\ status[task] = "TIMEOUT")
    <3>1. view'.status = view.status
      BY <1>8
    <3>2. view.status \in Server!Terminal =>
            view.status = status[task] \/ (view.status = "FAILED" /\ status[task] = "TIMEOUT")
      BY DEF IInv, ViewIsCommitted
    <3> QED  BY <3>1, <3>2
  <2>2. view'.report => task \in published
    BY <1>5, <1>8 DEF IInv, ViewIsCommitted
  <2>3. view'.last <= seq' /\ seq' <= Latest
    BY <1>1, <1>2, <1>4, <1>8
  <2> QED  BY <1>2, <2>1, <2>2, <2>3 DEF ViewIsCommitted
<1>12. LateInv'
  BY <1>1, <1>2 DEF IInv, LateInv
<1>13. FollowInv'
  <2> SUFFICES ASSUME NeverExpires PROVE OrderInv' /\ LoadInv' /\ RestInv'
    BY <1>2 DEF FollowInv
  <2>1. OrderInv /\ LoadInv /\ RestInv
    BY DEF IInv, FollowInv
  <2>2. OrderInv'
    BY <1>1, <1>2, <2>1 DEF OrderInv
  <2>3. LoadInv'
    BY <1>1, <1>2, <1>8, <2>1 DEF LoadInv
  <2>4. Running' <=> Running
    BY <1>8 DEF Running
  <2>5. Complete => Complete'
    <3>1. cached => cached'
      BY <1>1, <1>3
    <3> QED  BY <1>2, <1>8, <3>1 DEF Complete
  <2>6. Pending' <=> Pending
    BY <1>1 DEF Pending
  <2>7. RestInv'
    BY <1>1, <2>1, <2>4, <2>5, <2>6 DEF RestInv
  <2> QED  BY <2>2, <2>3, <2>7
<1> QED  BY <1>2, <1>7, <1>9, <1>10, <1>11, <1>12, <1>13 DEF IInv

\* A closing event, wherever it was kept, shows a final status the task has and
\* starts the reload that completes it.
LEMMA FinishKeeps ==
  ASSUME IInv, NEW n \in 1..Latest, Closing(n), Finish(n), late' \in {late, FALSE},
         UNCHANGED <<backend, cached, active, error, visible, cancelling, bounds>>,
         NeverExpires => gets["open"].at = "none"
  PROVE  IInv'
<1> DEFINE shown == Shown[feed[task][n]]
<1>1. /\ UNCHANGED backend /\ UNCHANGED bounds
      /\ cached' = cached /\ active' = active /\ error' = error
      /\ visible' = visible /\ cancelling' = cancelling
      /\ Closing(n) /\ seq' = n
      /\ view' = [view EXCEPT !.last = n, !.status = shown]
      /\ Off
      /\ gets' = StartGet(gets, "reload")
  BY DEF Finish
<1>2. /\ RowInv' /\ Latest' = Latest /\ Latest \in 1..3 /\ Settled' = Settled
      /\ NeverExpires' = NeverExpires
      /\ status' = status /\ published' = published /\ feed' = feed /\ limit' = limit
  BY <1>1, SameRows DEF IInv
<1>3. /\ seq \in 0..3 /\ srv.cursor \in 0..3 /\ view \in View /\ gets \in [Kind -> Get]
  BY Types DEF IInv, TypeOK
<1>4. late' \in BOOLEAN /\ LateInv' /\ (NeverExpires /\ late' => gets["open"].at = "none")
  <2>1. UNCHANGED late \/ late' = FALSE \/ Aborts
    OBVIOUS
  <2> QED  BY <1>2, <2>1, LateStays
<1>5. n \in 1..Latest /\ n \in 1..3
  BY <1>2
<1>6. /\ Settled
      /\ shown = status[task] \/ (shown = "FAILED" /\ status[task] = "TIMEOUT")
      /\ shown \in Server!Terminal
  <2>1. /\ Settled
        /\ shown = status[task] \/ (shown = "FAILED" /\ status[task] = "TIMEOUT")
    BY <1>1, <1>5, RowFacts DEF IInv
  <2>2. "FAILED" \in Server!Terminal
    BY DEF Server!Terminal
  <2> QED  BY <2>1, <2>2 DEF Settled
<1>7. "open" \in Kind /\ "reload" \in Kind /\ "reconnect" \in Kind
  BY DEF Kind
<1> DEFINE get == [at |-> "row", snap |-> NoView]
<1>8. get \in Get /\ get.at = "row" /\ get.snap = NoView /\ NoView.report = FALSE /\ NoView.last = 0
  BY DEF Get, NoView, View
<1>9. gets' = [gets EXCEPT !["reload"] = get]
  BY <1>1 DEF StartGet
<1> HIDE DEF shown, get
<1>10. /\ gets'["reload"] = get /\ gets' \in [Kind -> Get]
      /\ \A j \in Kind \ {"reload"} : gets'[j] = gets[j]
  BY <1>3, <1>7, <1>8, <1>9
<1>11. view' \in View /\ view'.status = shown /\ view'.last = n /\ view'.report = view.report
  <2>1. n \in 0..3
    BY <1>5
  <2> QED  BY <1>1, <1>3, <1>6, <2>1 DEF View
<1>12. WireInv' /\ conn' \in {"off", "on", "waiting"} /\ srv' \in Srv /\ wire' \in Seq(1..3)
  <2>1. 0 \in 0..3 /\ 0 <= seq' /\ 0 <= Latest' /\ Latest' \in 1..3 /\ seq' \in 0..3
    BY <1>1, <1>2, <1>5
  <2> QED  BY <1>1, <2>1, StreamSet
<1>13. TypeOK'
  <2>1. failures' = failures /\ hides' = hides /\ opens' = opens
    BY <1>1 DEF bounds
  <2>2. seq' \in 0..3
    BY <1>1, <1>5
  <2> QED  BY <1>1, <1>2, <1>10, <1>11, <1>12, <1>4, <2>1, <2>2 DEF IInv, TypeOK
<1>14. GetInv'
  <2> SUFFICES ASSUME NEW j \in Kind PROVE Honest(gets[j])'
    BY DEF GetInv
  <2>1. 0 <= Latest
    BY <1>2
  <2>2. Honest(get)
    BY <1>8, <2>1 DEF Honest, Answering
  <2>3. Honest(gets'[j])
    BY <1>10, <2>2 DEF IInv, GetInv
  <2> QED  BY <1>2, <2>3 DEF Honest
<1>15. ViewIsCommitted'
  <2>1. view'.report => task \in published
    BY <1>11 DEF IInv, ViewIsCommitted
  <2>2. view'.last <= seq' /\ seq' <= Latest
    BY <1>1, <1>2, <1>5, <1>11
  <2> QED  BY <1>2, <1>6, <1>11, <2>1, <2>2 DEF ViewIsCommitted
<1>16. FollowInv'
  <2> SUFFICES ASSUME NeverExpires PROVE OrderInv' /\ LoadInv' /\ RestInv'
    BY <1>2 DEF FollowInv
  <2>1. OrderInv /\ LoadInv /\ RestInv
    BY DEF IInv, FollowInv
  <2>2. gets'["open"].at = "none" /\ gets'["reconnect"].at = "none"
    BY <1>7, <1>10, <2>1 DEF LoadInv
  <2>3. conn' = "off"
    BY <1>1 DEF Off
  <2>4. OrderInv'
    BY <1>1, <1>2, <2>1, <2>2, <2>3 DEF OrderInv
  <2>5. LoadInv'
    BY <1>2, <1>6, <1>8, <1>10, <2>2 DEF LoadInv, Answering, Kind
  <2>6. Pending'
    BY <1>7, <1>8, <1>10 DEF Pending
  <2>7. RestInv'
    BY <2>6 DEF RestInv
  <2> QED  BY <2>4, <2>5, <2>7
<1> QED  BY <1>2, <1>12, <1>13, <1>14, <1>15, <1>4, <1>16 DEF IInv

\* A closing event from the stream of the tab.
LEMMA ClosingKeeps ==
  ASSUME IInv, ApplyClosing
  PROVE  IInv'
<1>1. /\ Closing(Head(wire)) /\ Finish(Head(wire)) /\ late' \in {late, FALSE}
      /\ UNCHANGED <<backend, cached, active, error, visible, cancelling, bounds>>
      /\ wire # <<>>
  BY DEF ApplyClosing
<1>2. conn = "on" /\ Head(wire) \in 1..Latest
  BY <1>1, HeadOfWire
<1>3. NeverExpires => gets["open"].at = "none"
  BY <1>2 DEF IInv, FollowInv, OrderInv
<1> QED  BY <1>1, <1>2, <1>3, FinishKeeps

\* A closing event from the buffer of an aborted stream: of use to the tab or
\* dropped.
LEMMA LateKeeps ==
  ASSUME IInv, LateEvent
  PROVE  IInv'
<1>1. /\ late /\ late' = FALSE
      /\ UNCHANGED <<backend, cached, active, error, visible, cancelling, bounds>>
      /\ Finish(Latest) \/ UNCHANGED <<view, seq, gets, conn, srv, wire>>
  BY DEF LateEvent
<1>2. CASE Finish(Latest)
  <2>1. Settled /\ (NeverExpires => gets["open"].at = "none")
    BY <1>1 DEF IInv, LateInv, FollowInv, OrderInv
  <2>2. Closing(Latest) /\ Latest \in 1..Latest
    BY <2>1, RowFacts DEF IInv
  <2> QED  BY <1>1, <1>2, <2>1, <2>2, FinishKeeps
<1>3. CASE UNCHANGED <<view, seq, gets, conn, srv, wire>>
  <2>1. UNCHANGED backend /\ UNCHANGED bounds
        /\ view' = view /\ seq' = seq /\ cached' = cached /\ active' = active /\ error' = error
        /\ visible' = visible /\ gets' = gets /\ cancelling' = cancelling
        /\ conn' = conn /\ srv' = srv /\ wire' = wire
    BY <1>1, <1>3
  <2>2. failures' = failures /\ hides' = hides /\ opens' = opens
    BY <2>1 DEF bounds
  <2>3. /\ RowInv' /\ Latest' = Latest /\ Latest \in 1..3 /\ Settled' = Settled
        /\ NeverExpires' = NeverExpires
        /\ status' = status /\ published' = published /\ feed' = feed /\ limit' = limit
    BY <2>1, SameRows DEF IInv
  <2>4. TypeOK'
    BY <1>1, <2>1, <2>2, <2>3 DEF IInv, TypeOK
  <2>5. GetInv'
    BY <2>1, <2>3 DEF IInv, GetInv, Honest
  <2>6. ViewIsCommitted'
    BY <2>1, <2>3 DEF IInv, ViewIsCommitted
  <2>7. WireInv' /\ LateInv'
    BY <1>1, <2>1, <2>3 DEF IInv, WireInv, LateInv
  <2>8. FollowInv'
    BY <1>1, <2>1, <2>3
    DEF IInv, FollowInv, OrderInv, LoadInv, RestInv, Pending, Running, Complete
  <2> QED  BY <2>3, <2>4, <2>5, <2>6, <2>7, <2>8 DEF IInv
<1> QED  BY <1>1, <1>2, <1>3

-----------------------------------------------------------------------------

\* A stuttering step keeps the invariant.
LEMMA StutterKeeps ==
  ASSUME IInv, UNCHANGED vars
  PROVE  IInv'
<1>1. /\ UNCHANGED backend /\ UNCHANGED store /\ UNCHANGED stream /\ UNCHANGED bounds
      /\ visible' = visible /\ gets' = gets /\ cancelling' = cancelling
  BY DEF vars
<1>2. /\ view' = view /\ seq' = seq /\ cached' = cached /\ active' = active /\ error' = error
      /\ failures' = failures /\ hides' = hides /\ opens' = opens
      /\ conn' = conn /\ srv' = srv /\ wire' = wire /\ late' = late
  BY <1>1 DEF store, bounds, stream
<1>3. /\ RowInv' /\ Latest' = Latest /\ Latest \in 1..3 /\ Settled' = Settled
      /\ NeverExpires' = NeverExpires
      /\ status' = status /\ published' = published /\ feed' = feed /\ limit' = limit
  BY <1>1, SameRows DEF IInv
<1>4. seq \in 0..3 /\ srv.cursor \in 0..3 /\ seq <= seq'
  BY <1>2, Types DEF IInv
<1>5. TypeOK'
  BY <1>1, <1>2, <1>3 DEF IInv, TypeOK
<1>6. GetInv'
  BY <1>1, <1>3 DEF IInv, GetInv, Honest
<1>7. ViewIsCommitted'
  BY <1>2, <1>3 DEF IInv, ViewIsCommitted
<1>8. WireInv'
  BY <1>1, <1>2, <1>3, <1>4, WireKept DEF IInv
<1>9. LateInv'
  BY <1>2, <1>3 DEF IInv, LateInv
<1>10. FollowInv'
  BY <1>1, <1>2, <1>3 DEF IInv, FollowInv, OrderInv, LoadInv, RestInv, Pending, Running, Complete
<1> QED  BY <1>3, <1>5, <1>6, <1>7, <1>8, <1>9, <1>10 DEF IInv

\* Every step keeps the invariant.
LEMMA StepInv == IInv /\ [Next]_vars => IInv'
<1> SUFFICES ASSUME IInv, [Next]_vars PROVE IInv'
  OBVIOUS
<1>1. CASE Settle
  <2>1. /\ Server!Settle(task) /\ cancelling' \in {"none", "sent", "reply"}
        /\ UNCHANGED <<limit, store, visible, gets, stream, bounds>>
    BY <1>1 DEF Settle, IInv, TypeOK
  <2> QED  BY <2>1, SettleKeeps
<1>2. CASE Open
  BY <1>2, OpenKeeps
<1>3. CASE \E k \in Kind : Load(k) \/ AcceptWithoutReport(k) \/ LoadFails(k)
  <2>1. PICK k \in Kind : Load(k) \/ AcceptWithoutReport(k) \/ LoadFails(k)
    BY <1>3
  <2>2. CASE ReadRow(k) \/ ReadReport(k) \/ ReadSequence(k)
    BY <2>2, ReadKeeps
  <2>3. CASE Accept(k) \/ AcceptWithoutReport(k)
    BY <2>3, AcceptKeeps
  <2>4. CASE LoadFails(k)
    BY <2>4, LoadFailsKeeps
  <2> QED  BY <2>1, <2>2, <2>3, <2>4 DEF Load
<1>4. CASE Serve
  BY <1>4, ServeKeeps, CursorKeeps DEF Serve
<1>5. CASE Listen
  BY <1>5, SkipKeeps, ApplyKeeps, ClosingKeeps, LateKeeps, TabKeeps DEF Listen
<1>6. CASE StreamLost \/ Hide \/ Show
  BY <1>6, TabKeeps
<1>7. CASE RequestCancel \/ ServerCancels \/ CancelReply \/ CancelFails
  BY <1>7, CancelKeeps
<1>8. CASE UNCHANGED vars
  BY <1>8, StutterKeeps
<1> QED  BY <1>1, <1>2, <1>3, <1>4, <1>5, <1>6, <1>7, <1>8 DEF Next

\* The invariant holds in every reachable state.
THEOREM Inductive == Spec => []IInv
BY InitInv, StepInv, PTL DEF Spec

\* Every variable keeps its type, the counters their bounds.
THEOREM TypeCorrect == Spec => []TypeOK
<1>1. IInv => TypeOK  BY DEF IInv
<1> QED  BY <1>1, Inductive, PTL

\* The tab never shows a status, a report or a sequence the database has not
\* committed.
THEOREM ViewCommitted == Spec => []ViewIsCommitted
<1>1. IInv => ViewIsCommitted  BY DEF IInv
<1> QED  BY <1>1, Inductive, PTL

\* No stream gets ahead of the tab: no event is lost to a reconnection.
THEOREM NothingSkipped == Spec => []NoEventSkipped
<1>1. IInv => NoEventSkipped  BY DEF IInv, WireInv, NoEventSkipped
<1> QED  BY <1>1, Inductive, PTL

\* A tab at rest without an error shows the task as it ended, report included,
\* if the replay limit is at least the length of a feed.
THEOREM RestComplete == Spec => []RestIsComplete
<1>1. IInv => RestIsComplete
  BY DEF IInv, FollowInv, RestInv, RestIsComplete, AtRest, Pending
<1> QED  BY <1>1, Inductive, PTL

\* No step replaces a final status on the screen by a running one.
LEMMA FinalKept ==
  ASSUME IInv, [Next]_vars, NeverExpires, view.status \in Server!Terminal
  PROVE  view'.status \in Server!Terminal
<1>1. OrderInv /\ LoadInv
  BY DEF IInv, FollowInv
<1>2. Settled
  BY DEF IInv, ViewIsCommitted, Settled, RowInv, Server!Terminal, Server!Reporting
<1>3. CASE view' = view
  BY <1>3
<1>4. ASSUME NEW k \in Kind, Accept(k) \/ AcceptWithoutReport(k)
      PROVE  view'.status \in Server!Terminal
  <2>1. gets[k].at = "reply" /\ view' = gets[k].snap
    BY <1>4 DEF Accept, AcceptWithoutReport, Adopt
  <2>2. gets[k].snap.status = status[task]
    BY <1>1, <2>1 DEF LoadInv, Kind, Answering
  <2> QED  BY <1>2, <2>1, <2>2 DEF Settled
<1>5. CASE ApplyEvent
  <2>1. view'.status = view.status
    BY <1>5 DEF ApplyEvent, IInv, TypeOK, View
  <2> QED  BY <2>1
<1>6. ASSUME NEW n, Closing(n), Finish(n)
      PROVE  view'.status \in Server!Terminal
  <2>1. view \in View
    BY DEF IInv, TypeOK
  <2>2. view'.status = Shown[feed[task][n]]
    BY <1>6, <2>1 DEF Finish, View
  <2> QED  BY <1>6, <2>2, ClosingEvents DEF Server!Terminal, Server!Reporting
<1>7. CASE CancelReply
  <2>1. view' = view \/ view'.status = status[task]
    BY <1>7 DEF CancelReply, Adopt, store
  <2> QED  BY <1>2, <2>1 DEF Settled
<1>8. CASE ApplyClosing
  BY <1>6, <1>8 DEF ApplyClosing
<1>9. CASE LateEvent
  <2>1. Closing(Latest)
    BY <1>2, RowFacts DEF IInv
  <2> QED  BY <1>3, <1>6, <1>9, <2>1 DEF LateEvent
<1> QED
  BY <1>3, <1>4, <1>5, <1>7, <1>8, <1>9
  DEF Next, Settle, Open, Load, ReadRow, ReadReport, ReadSequence, Read, LoadFails, Serve,
      SrvRow, SrvLatest, CursorExpires, SrvEvents, Listen, SkipEvent, StreamEnds, Reconnect,
      StreamLost, Hide, Show, RequestCancel, ServerCancels, CancelFails, store, vars

\* A final status, once shown, stays final, if no cursor expires.
THEOREM FinalStays == Spec => FinalViewStays
<1>1. IInv /\ [Next]_vars => [NeverExpires /\ view.status \in Server!Terminal
                                => view'.status \in Server!Terminal]_vars
  BY FinalKept
<1> QED  BY <1>1, Inductive, PTL DEF Spec, FinalViewStays
=============================================================================
