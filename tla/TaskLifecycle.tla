--------------------------- MODULE TaskLifecycle ---------------------------
(***************************************************************************)
(* What the persistence layer promises about an analysis task, with no     *)
(* word about who does the work: a submitted task is settled at most once, *)
(* by a single step that fixes its final status, publishes its report (for *)
(* the two statuses that carry one) and announces both on its event feed.  *)
(***************************************************************************)
EXTENDS Sequences

CONSTANT Task

VARIABLES status,     \* status column of each task, "absent" before submission
          published,  \* the tasks that have a report
          feed        \* the event types of each task, in sequence order

lifecycleVars == <<status, published, feed>>

Reporting == {"COMPLETED", "PARTIAL_RESULT"}
Terminal  == Reporting \cup {"FAILED", "TIMEOUT", "CANCELLED"}

Closing == [COMPLETED      |-> "analysis_completed",
            PARTIAL_RESULT |-> "analysis_partial",
            FAILED         |-> "analysis_failed",
            TIMEOUT        |-> "analysis_failed",
            CANCELLED      |-> "analysis_cancelled"]

\* The whole feed of a task that settled with final status s.
SettledFeed(s) ==
  IF s \in Reporting
  THEN <<"analysis_started", "report_generated", Closing[s]>>
  ELSE <<"analysis_started", Closing[s]>>

Init ==
  /\ status = [t \in Task |-> "absent"]
  /\ published = {}
  /\ feed = [t \in Task |-> <<>>]

Submit(t) ==
  /\ status[t] = "absent"
  /\ status' = [status EXCEPT ![t] = "CREATED"]
  /\ feed' = [feed EXCEPT ![t] = <<"analysis_started">>]
  /\ UNCHANGED published

Settle(t) ==
  /\ status[t] = "CREATED"
  /\ \E s \in Terminal :
       /\ status' = [status EXCEPT ![t] = s]
       /\ published' = IF s \in Reporting THEN published \cup {t} ELSE published
       /\ feed' = [feed EXCEPT ![t] = SettledFeed(s)]

Next == \E t \in Task : Submit(t) \/ Settle(t)

Spec == Init /\ [][Next]_lifecycleVars
=============================================================================
