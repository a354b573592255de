---------------------------- MODULE ReviewArchive ----------------------------
(***************************************************************************)
(* Reviewing the report of one task and archiving the review: the          *)
(* transactions of TaskService.submit_review and archive_casebook,         *)
(* statement by statement, and the pages that engineers click on.          *)
(*                                                                         *)
(* A request, once sent, may reach the API now, later, several times or    *)
(* never: a page that sees a failure does not know which.  sent keeps all  *)
(* of them.  PostgreSQL runs a transaction READ COMMITTED; its insert and  *)
(* its commit are one step.  Every statement is about one task, and the    *)
(* tables' unique keys are scoped to a task, so one task is modelled: a    *)
(* visible one that has its report.                                        *)
(***************************************************************************)
EXTENDS Naturals, Sequences, FiniteSets

CONSTANTS
  Engineer, Key,
  Slot, NoSlot,      \* transactions the API runs at a time
  Contents,          \* what callers write into a review
  NoContent, NoKey, NoEngineer,
  ArchiveSettings,   \* values archive_enabled may be deployed with
  MaxSent            \* bound: requests sent

ASSUME SlotAssumption == NoSlot \notin Slot
ASSUME SettingAssumption == ArchiveSettings \subseteq BOOLEAN
ASSUME BoundAssumption == MaxSent \in Nat

VARIABLES
  reviews,             \* rows of ai_engineer_review, by revision
  archives,            \* rows of ai_casebook_archive
  enabled,             \* archive_enabled
  rowLock,             \* who has the task's row FOR UPDATE
  pc, serving, number, \* each transaction's statement, request, next revision
  sent,                \* every request that was made
  shown,               \* per page: it shows the task and its report
  review,              \* per page: the revision in reviewsByTask, 0 if none
  archive,             \* per page: the revision of archivesByTask, 0 if none
  waits,               \* per page and kind: the request it waits for
  unseen               \* keys of reviews whose answer their page never took

tables == <<reviews, archives, enabled>>
slots  == <<rowLock, pc, serving, number>>
cache  == <<shown, review, archive>>
vars   == <<tables, slots, sent, cache, waits, unseen>>

Ledger == INSTANCE ReviewLedger

ASSUME ContentAssumption == Contents \subseteq Ledger!Content

-----------------------------------------------------------------------------
(* Values *)

Kind == {"review", "archive"}

Request ==
  [kind : {"review"}, by : Engineer, key : Key, content : Contents, revision : {0}]
    \cup [kind : {"archive"}, by : Engineer, key : Key, content : {NoContent},
          revision : Nat \ {0}]
NoRequest == [kind |-> "none", by |-> NoEngineer, key |-> NoKey,
              content |-> NoContent, revision |-> 0]

\* An answer is the revision that was recorded or archived; 0 is an error.
Wait  == [at : {"idle", "sent", "answered"}, req : Request \cup {NoRequest},
          revision : Nat]
NoWait == [at |-> "idle", req |-> NoRequest, revision |-> 0]

Statement == {"idle", "lock", "lookup", "number", "revision", "archived", "insert"}

\* crypto.randomUUID: a key no request carries, and it does not matter which.
Fresh == {k \in Key : \A m \in sent : m.key # k}
DrawnKey == CHOOSE k \in Fresh : TRUE

\* Mutant: the hypothesis is not looked up in the report.
Valid_AnyHypothesis(c) ==
  /\ c.version = Ledger!ReportVersion
  /\ c.status = "CONFIRMED" => c.hypothesis # "none"
  /\ c.status = "CORRECTED" => c.cause

\* The version check of submit_review, EngineerReview's validator and the
\* lookup of the hypothesis.
Valid(c) ==
  /\ c.version = Ledger!ReportVersion
  /\ c.status = "CONFIRMED" => c.hypothesis # "none"
  /\ c.status = "CORRECTED" => c.cause
  /\ c.hypothesis # "unknown"

\* What the form of the page can send.
Draft(c) ==
  /\ c.version = Ledger!ReportVersion
  /\ c.hypothesis = (IF c.status = "CONFIRMED" THEN "reported" ELSE "none")
  /\ c.cause <=> c.status = "CORRECTED"

Init ==
  /\ reviews = <<>>
  /\ archives = {}
  /\ enabled \in ArchiveSettings
  /\ rowLock = NoSlot
  /\ pc = [s \in Slot |-> "idle"]
  /\ serving = [s \in Slot |-> NoRequest]
  /\ number = [s \in Slot |-> 0]
  /\ sent = {}
  /\ shown = [e \in Engineer |-> TRUE]
  /\ review = [e \in Engineer |-> 0]
  /\ archive = [e \in Engineer |-> 0]
  /\ waits = [e \in Engineer |-> [k \in Kind |-> NoWait]]
  /\ unseen = {}

-----------------------------------------------------------------------------
(* The page *)

\* Mutant: the button does not wait.
Post_Impatient(e, m) ==
  /\ Cardinality(sent) < MaxSent
  /\ waits' = [waits EXCEPT ![e][m.kind] =
                 [at |-> "sent", req |-> m, revision |-> 0]]
  /\ sent' = sent \cup {m}
  /\ UNCHANGED <<tables, slots, cache, unseen>>

\* A click: reviewPending or archivePending keeps the button busy until the
\* request is answered or fails.
Post(e, m) ==
  /\ Cardinality(sent) < MaxSent
  /\ waits[e][m.kind] = NoWait
  /\ waits' = [waits EXCEPT ![e][m.kind] =
                 [at |-> "sent", req |-> m, revision |-> 0]]
  /\ sent' = sent \cup {m}
  /\ UNCHANGED <<tables, slots, cache, unseen>>

SubmitReview(e) ==
  /\ shown[e]
  /\ Fresh # {}
  /\ \E c \in {d \in Contents : Draft(d)} :
       Post(e, [kind |-> "review", by |-> e, key |-> DrawnKey, content |-> c,
                revision |-> 0])

\* Mutant: archiving is offered before there is a review.
ArchiveCaseBook_Early(e) ==
  /\ shown[e] /\ archive[e] = 0
  /\ Fresh # {}
  /\ Post(e, [kind |-> "archive", by |-> e, key |-> DrawnKey, content |-> NoContent,
              revision |-> review[e]])

\* Offered for the review the page knows until an archive is shown; every
\* click draws a key of its own.
ArchiveCaseBook(e) ==
  /\ shown[e] /\ review[e] # 0 /\ archive[e] = 0
  /\ Fresh # {}
  /\ Post(e, [kind |-> "archive", by |-> e, key |-> DrawnKey, content |-> NoContent,
              revision |-> review[e]])

\* A caller other than the page repeats a key with a request that may differ.
Reuse ==
  /\ Cardinality(sent) < MaxSent
  /\ \E m \in sent, e \in Engineer :
       IF m.kind = "review"
       THEN /\ \E c \in Contents :
                 sent' = sent \cup {[m EXCEPT !.by = e, !.content = c]}
            /\ unseen' = unseen \cup {m.key}
       ELSE /\ \E i \in 1..(Len(reviews) + 1) :
                 sent' = sent \cup {[m EXCEPT !.revision = i]}
            /\ UNCHANGED unseen
  /\ UNCHANGED <<tables, slots, cache, waits>>

Settle(e, kind) == waits' = [waits EXCEPT ![e][kind] = NoWait]

\* The answer to a review is kept if the page still shows the task.
TakeReview(e) ==
  LET w == waits[e]["review"] IN
  /\ w.at = "answered"
  /\ Settle(e, "review")
  /\ IF shown[e] /\ w.revision # 0
     THEN /\ review' = [review EXCEPT ![e] = w.revision]
          /\ UNCHANGED unseen
     ELSE /\ unseen' = unseen \cup {w.req.key}
          /\ UNCHANGED review
  /\ UNCHANGED <<tables, slots, sent, shown, archive>>

\* A refusal because archiving is not enabled is a 403, on which the page
\* clears what it shows (but not its reviews).
TakeArchive(e) ==
  LET w == waits[e]["archive"] IN
  /\ w.at = "answered"
  /\ Settle(e, "archive")
  /\ archive' = [archive EXCEPT ![e] =
                   IF shown[e] /\ w.revision # 0 THEN w.revision ELSE @]
  /\ shown' = [shown EXCEPT ![e] = @ /\ enabled]
  /\ UNCHANGED <<tables, slots, sent, review, unseen>>

\* The request fails for the page, whatever becomes of it at the API.
Lose(e, kind) ==
  LET w == waits[e][kind] IN
  /\ w.at # "idle"
  /\ Settle(e, kind)
  /\ unseen' = IF kind = "review" THEN unseen \cup {w.req.key} ELSE unseen
  /\ UNCHANGED <<tables, slots, sent, cache>>

\* The drawer is closed or shows another task; and comes back.
Leave(e) ==
  /\ shown[e]
  /\ shown' = [shown EXCEPT ![e] = FALSE]
  /\ UNCHANGED <<tables, slots, sent, review, archive, waits, unseen>>

Return(e) ==
  /\ ~shown[e]
  /\ shown' = [shown EXCEPT ![e] = TRUE]
  /\ UNCHANGED <<tables, slots, sent, review, archive, waits, unseen>>

\* The browser reloads the page: the snapshot has a status and no review.
Reload(e) ==
  /\ shown' = [shown EXCEPT ![e] = FALSE]
  /\ review' = [review EXCEPT ![e] = 0]
  /\ archive' = [archive EXCEPT ![e] = 0]
  /\ waits' = [waits EXCEPT ![e] = [k \in Kind |-> NoWait]]
  /\ unseen' = unseen \cup {m.key : m \in {n \in sent : n.by = e}}
  /\ UNCHANGED <<tables, slots, sent>>

-----------------------------------------------------------------------------
(* A transaction *)

Begin(s) ==
  /\ pc[s] = "idle"
  /\ \E m \in sent : serving' = [serving EXCEPT ![s] = m]
  /\ pc' = [pc EXCEPT ![s] = "lock"]
  /\ UNCHANGED <<tables, rowLock, number, sent, cache, waits, unseen>>

Finish(s) ==
  /\ pc' = [pc EXCEPT ![s] = "idle"]
  /\ serving' = [serving EXCEPT ![s] = NoRequest]
  /\ number' = [number EXCEPT ![s] = 0]
  /\ rowLock' = IF rowLock = s THEN NoSlot ELSE rowLock
  /\ UNCHANGED <<enabled, sent, cache, unseen>>

\* The transaction ends with an answer, which a page that waits for it gets.
Reply(s, revision) ==
  LET Awaits(w) == w.at = "sent" /\ w.req = serving[s]
  IN  /\ Finish(s)
      /\ waits' = [e \in Engineer |-> [k \in Kind |->
                     IF Awaits(waits[e][k])
                     THEN [waits[e][k] EXCEPT !.at = "answered", !.revision = revision]
                     ELSE waits[e][k]]]

Refuse(s) == Reply(s, 0) /\ UNCHANGED <<reviews, archives>>

\* The request is answered with 500, which its page sees as a failure.
Crash(s) == Finish(s) /\ UNCHANGED <<reviews, archives, waits>>

Goto(s, statement) ==
  /\ pc' = [pc EXCEPT ![s] = statement]
  /\ UNCHANGED <<tables, serving, sent, cache, waits, unseen>>

\* Mutant: get_visible without FOR UPDATE.
Lock_Shared(s) ==
  /\ pc[s] = "lock"
  /\ \/ serving[s].kind = "review" /\ Goto(s, "lookup") /\ UNCHANGED <<rowLock, number>>
     \/ serving[s].kind = "archive" /\ enabled /\ Goto(s, "revision")
          /\ UNCHANGED <<rowLock, number>>
     \/ serving[s].kind = "archive" /\ ~enabled /\ Refuse(s)

\* get_visible FOR UPDATE, and the check of archive_enabled.
Lock(s) ==
  /\ pc[s] = "lock"
  /\ rowLock = NoSlot
  /\ \/ /\ serving[s].kind = "review" \/ enabled
        /\ rowLock' = s
        /\ Goto(s, IF serving[s].kind = "review" THEN "lookup" ELSE "revision")
        /\ UNCHANGED number
     \/ /\ serving[s].kind = "archive" /\ ~enabled
        /\ Refuse(s)

\* Mutant: a key is answered whoever used it for whatever.
Matches_Key(row, m) == row.key = m.key

Matches(row, m) == row.content = m.content /\ row.by = m.by

\* find_by_idempotency_key; then the report and the validation.
FindReview(s) ==
  LET m == serving[s] IN
  /\ pc[s] = "lookup"
  /\ \/ \E i \in Ledger!Recorded(m.key) :
          /\ Reply(s, IF Matches(reviews[i], m) THEN i ELSE 0)
          /\ UNCHANGED <<reviews, archives>>
     \/ /\ Ledger!Recorded(m.key) = {}
        /\ Valid(m.content)
        /\ Goto(s, "number")
        /\ UNCHANGED <<rowLock, number>>
     \/ /\ Ledger!Recorded(m.key) = {}
        /\ ~Valid(m.content)
        /\ Refuse(s)

\* add_revision: one more than the largest revision.
Number(s) ==
  /\ pc[s] = "number"
  /\ number' = [number EXCEPT ![s] = Len(reviews) + 1]
  /\ Goto(s, "insert")
  /\ UNCHANGED rowLock

\* get_revision.
FindRevision(s) ==
  /\ pc[s] = "revision"
  /\ \/ /\ serving[s].revision \in DOMAIN reviews
        /\ Goto(s, "archived")
        /\ UNCHANGED <<rowLock, number>>
     \/ /\ serving[s].revision \notin DOMAIN reviews
        /\ Refuse(s)

\* find_by_idempotency_key of the archive.
FindArchive(s) ==
  LET m == serving[s] IN
  /\ pc[s] = "archived"
  /\ \/ \E a \in Ledger!Archived(m.key) :
          /\ Reply(s, IF a.revision = m.revision THEN m.revision ELSE 0)
          /\ UNCHANGED <<reviews, archives>>
     \/ /\ Ledger!Archived(m.key) = {}
        /\ Goto(s, "insert")
        /\ UNCHANGED <<rowLock, number>>

\* uq_review_revision, uq_review_idempotency_scope, uq_archive_idempotency_scope.
Collides(s) ==
  LET m == serving[s] IN
  IF m.kind = "review" THEN number[s] \in DOMAIN reviews \/ Ledger!Recorded(m.key) # {}
                       ELSE Ledger!Archived(m.key) # {}

\* An insert that violates a unique key is an IntegrityError, which nobody
\* catches.
Insert(s) ==
  LET m == serving[s] IN
  /\ pc[s] = "insert"
  /\ IF Collides(s) THEN Crash(s)
     ELSE IF m.kind = "review"
     THEN /\ reviews' = Append(reviews, [key |-> m.key, by |-> m.by,
                                         content |-> m.content])
          /\ UNCHANGED archives
          /\ Reply(s, number[s])
     ELSE /\ archives' = archives \cup {[key |-> m.key, revision |-> m.revision]}
          /\ UNCHANGED reviews
          /\ Reply(s, m.revision)

\* Any other exception, or the connection to the database is lost.
Abort(s) == pc[s] # "idle" /\ Crash(s)

Advance(s) ==
  \/ Lock(s)
  \/ FindReview(s)   \/ Number(s)
  \/ FindRevision(s) \/ FindArchive(s)
  \/ Insert(s)

Next ==
  \/ \E e \in Engineer :
       \/ SubmitReview(e) \/ ArchiveCaseBook(e)
       \/ TakeReview(e) \/ TakeArchive(e)
       \/ \E k \in Kind : Lose(e, k)
       \/ Leave(e) \/ Return(e) \/ Reload(e)
  \/ Reuse
  \/ \E s \in Slot : Begin(s) \/ Advance(s) \/ Abort(s)

Spec == Init /\ [][Next]_vars

-----------------------------------------------------------------------------
(* Properties *)

TypeOK ==
  /\ reviews \in Seq(Ledger!Row)
  /\ archives \subseteq Ledger!Archive
  /\ enabled \in ArchiveSettings
  /\ rowLock \in Slot \cup {NoSlot}
  /\ pc \in [Slot -> Statement]
  /\ serving \in [Slot -> Request \cup {NoRequest}]
  /\ number \in [Slot -> Nat]
  /\ sent \subseteq Request
  /\ shown \in [Engineer -> BOOLEAN]
  /\ {review, archive} \subseteq [Engineer -> Nat]
  /\ waits \in [Engineer -> [Kind -> Wait]]
  /\ unseen \subseteq Key

\* The largest revision plus one and a key that was not found are still free
\* when the row is inserted: the row lock of submit_review and archive_casebook
\* leaves uq_review_revision and the idempotency scopes nothing to catch, and no
\* request is answered with an unexplained 500.
InsertsNeverCollide == \A s \in Slot : pc[s] = "insert" => ~Collides(s)

\* What a page is told was saved is what its engineer sent, under the key it was
\* sent with, whoever else used that key; and what it goes on to show is a review
\* of its engineer and an archive entry of that review or of an earlier one
\* (the idempotent branches, and submitReview and archiveCaseBook of the store).
ShownIsRecorded ==
  \A e \in Engineer :
    /\ LET w == waits[e]["review"] IN
       w.at = "answered" /\ w.revision # 0 =>
         /\ w.revision \in DOMAIN reviews
         /\ reviews[w.revision] = [key |-> w.req.key, by |-> e,
                                   content |-> w.req.content]
    /\ LET w == waits[e]["archive"] IN
       w.at = "answered" /\ w.revision # 0 =>
         [key |-> w.req.key, revision |-> w.revision] \in archives
    /\ review[e] # 0 => review[e] \in DOMAIN reviews /\ reviews[review[e]].by = e
    /\ archive[e] # 0 => \E a \in archives : a.revision = archive[e]
    /\ archive[e] <= review[e]

\* An engineer who saw no failure looks at the last review that was recorded in
\* their name: a later one came from a request whose answer the page gave up on
\* or that it still waits for.  Only such a request can slip a revision past the
\* page, which then archives the earlier one.
SavedIsNewest ==
  \A e \in Engineer : \A i \in DOMAIN reviews :
    reviews[i].by = e /\ i > review[e] =>
      \/ reviews[i].key \in unseen
      \/ waits[e]["review"].at # "idle" /\ reviews[i].key = waits[e]["review"].req.key

\* Submitting and archiving, with their locks, repeats and lost answers, do
\* nothing but what ReviewLedger allows: definite reviews of the report appended
\* under keys of their own, and archive entries of reviews that exist.
ImplementsLedger == Ledger!Spec

\* docs/05-data/data-model.md:12 gives a review at most one archive entry,
\* and api-spec.md:64 lets archiving be retried without a second record.
ArchivedOnce ==
  \A a, b \in archives : a.revision = b.revision => a = b
=============================================================================
