------------------------- MODULE ReviewArchiveProofs -------------------------
(***************************************************************************)
(* Theorems about ReviewArchive for every number of engineers, keys and    *)
(* transactions, every set of contents and every bound.                    *)
(***************************************************************************)
EXTENDS ReviewArchive, SequenceTheorems, TLAPS

USE SlotAssumption, ContentAssumption, SettingAssumption, BoundAssumption

-----------------------------------------------------------------------------
(* Type correctness *)

\* The program order of the two transactions: a busy slot serves a request that
\* was sent, and each statement belongs to one kind of request.
OrderInv ==
  \A s \in Slot :
    /\ pc[s] # "idle" => serving[s] \in sent
    /\ pc[s] \in {"lookup", "number"} => serving[s].kind = "review"
    /\ pc[s] \in {"revision", "archived"} => serving[s].kind = "archive"

\* What a page waits for is a request it sent.
WaitInv ==
  \A e \in Engineer, k \in Kind :
    waits[e][k].at # "idle" => /\ waits[e][k].req \in sent
                              /\ waits[e][k].req.by = e
                              /\ waits[e][k].req.kind = k

TypeInv == TypeOK /\ OrderInv /\ WaitInv

\* The null values have the types of what they stand for.
LEMMA NullsTyped ==
  NoRequest \in Request \cup {NoRequest} /\ NoWait \in Wait
BY DEF NoWait, Wait

\* A drawn key is a key that no request carries.
LEMMA DrawnIsFresh ==
  ASSUME Fresh # {} PROVE DrawnKey \in Key /\ \A m \in sent : m.key # DrawnKey
BY DEF DrawnKey, Fresh

\* A page that stops waiting keeps the types.
LEMMA SettleTyped ==
  ASSUME TypeInv, NEW e \in Engineer, NEW k \in Kind, Settle(e, k), sent' = sent
  PROVE  waits' \in [Engineer -> [Kind -> Wait]] /\ WaitInv'
  <1>1. waits' \in [Engineer -> [Kind -> Wait]]
    BY NullsTyped DEF Settle, TypeInv, TypeOK
  <1>2. \A f \in Engineer, j \in Kind :
          waits'[f][j] = IF f = e /\ j = k THEN NoWait ELSE waits[f][j]
    BY DEF Settle, TypeInv, TypeOK
  <1>3. NoWait.at = "idle"
    BY DEF NoWait
  <1> QED BY <1>1, <1>2, <1>3 DEF TypeInv, WaitInv

\* What is waited for has a key.
LEMMA AwaitedKey ==
  ASSUME TypeInv, NEW e \in Engineer, NEW k \in Kind, waits[e][k].at # "idle"
  PROVE  waits[e][k].req \in Request /\ waits[e][k].req.key \in Key
BY DEF TypeInv, TypeOK, WaitInv, Request

\* What a click does.
LEMMA PostTyped ==
  ASSUME TypeInv, NEW e \in Engineer, NEW m \in Request, m.by = e, Post(e, m)
  PROVE  TypeInv'
  <1>1. m.kind \in Kind
    BY DEF Request, Kind
  <1> DEFINE w == [at |-> "sent", req |-> m, revision |-> 0]
  <1>2. w \in Wait
    BY DEF Wait
  <1>3. waits' = [waits EXCEPT ![e][m.kind] = w] /\ sent' = sent \cup {m}
    BY DEF Post
  <1>4. w.at = "sent" /\ w.req = m
    OBVIOUS
  <1> HIDE DEF w
  <1>5. waits' \in [Engineer -> [Kind -> Wait]]
    BY <1>1, <1>2, <1>3 DEF TypeInv, TypeOK
  <1>6. \A f \in Engineer, j \in Kind :
          waits'[f][j] = IF f = e /\ j = m.kind THEN w ELSE waits[f][j]
    BY <1>1, <1>3 DEF TypeInv, TypeOK
  <1>7. WaitInv'
    BY <1>3, <1>4, <1>6 DEF TypeInv, WaitInv
  <1> QED BY <1>3, <1>5, <1>7 DEF Post, TypeInv, TypeOK, OrderInv, tables, slots, cache

\* What the end of a transaction does to the slots.
LEMMA FinishTyped ==
  ASSUME TypeInv, NEW s \in Slot, Finish(s)
  PROVE  /\ rowLock' \in Slot \cup {NoSlot}
         /\ pc' \in [Slot -> Statement]
         /\ serving' \in [Slot -> Request \cup {NoRequest}]
         /\ number' \in [Slot -> Nat]
         /\ sent' \subseteq Request /\ sent' = sent
         /\ OrderInv'
  <1>1. pc' \in [Slot -> Statement]
    BY DEF Finish, TypeInv, TypeOK, Statement
  <1>2. OrderInv'
    BY DEF Finish, TypeInv, TypeOK, OrderInv
  <1> QED BY <1>1, <1>2 DEF Finish, TypeInv, TypeOK

\* An answer changes how a wait stands and never what it is for.
LEMMA ReplyWaits ==
  ASSUME TypeInv, NEW s \in Slot, NEW i \in Nat, Reply(s, i),
         NEW e \in Engineer, NEW k \in Kind
  PROVE  /\ waits'[e][k] \in Wait
         /\ waits'[e][k].req = waits[e][k].req
         /\ waits'[e][k].at = "idle" <=> waits[e][k].at = "idle"
         /\ \/ waits'[e][k] = waits[e][k]
            \/ /\ waits[e][k].at = "sent" /\ waits[e][k].req = serving[s]
               /\ waits'[e][k].at = "answered" /\ waits'[e][k].revision = i
  <1>1. waits[e][k] \in Wait
    BY DEF TypeInv, TypeOK
  <1>2. CASE waits[e][k].at = "sent" /\ waits[e][k].req = serving[s]
    <2>1. waits'[e][k] = [waits[e][k] EXCEPT !.at = "answered", !.revision = i]
      BY <1>2 DEF Reply
    <2> QED BY <1>1, <1>2, <2>1 DEF Wait
  <1>3. CASE ~(waits[e][k].at = "sent" /\ waits[e][k].req = serving[s])
    <2>1. waits'[e][k] = waits[e][k]
      BY <1>3 DEF Reply
    <2> QED BY <1>1, <2>1
  <1> QED BY <1>2, <1>3

\* What an answer does to the types.
LEMMA ReplyTyped ==
  ASSUME TypeInv, NEW s \in Slot, NEW i \in Nat, Reply(s, i),
         reviews' \in Seq(Ledger!Row), archives' \subseteq Ledger!Archive
  PROVE  TypeInv'
  <1>1. Finish(s)
    BY DEF Reply
  <1>2. waits' = [e \in Engineer |-> [k \in Kind |-> waits'[e][k]]]
    BY DEF Reply
  <1>3. waits' \in [Engineer -> [Kind -> Wait]]
    BY <1>2, ReplyWaits
  <1>4. WaitInv'
    BY <1>1, ReplyWaits DEF Finish, TypeInv, WaitInv
  <1> QED BY <1>1, <1>3, <1>4, FinishTyped DEF Finish, TypeInv, TypeOK, cache

\* A refusal writes no row.
LEMMA RefuseTyped ==
  ASSUME TypeInv, NEW s \in Slot, Refuse(s)
  PROVE  TypeInv'
BY ReplyTyped DEF Refuse, TypeInv, TypeOK

\* A crash answers nobody.
LEMMA CrashTyped ==
  ASSUME TypeInv, NEW s \in Slot, Crash(s)
  PROVE  TypeInv'
BY FinishTyped DEF Crash, Finish, TypeInv, TypeOK, WaitInv, cache

\* An empty ledger and idle pages and slots have the types.
LEMMA InitTypeInv == Init => TypeInv
  <1> SUFFICES ASSUME Init PROVE TypeInv
    OBVIOUS
  <1>1. waits \in [Engineer -> [Kind -> Wait]]
    BY NullsTyped DEF Init
  <1>2. reviews \in Seq(Ledger!Row)
    BY DEF Init
  <1>3. WaitInv
    BY DEF Init, WaitInv, NoWait
  <1> QED BY <1>1, <1>2, <1>3 DEF Init, TypeInv, TypeOK, OrderInv, Statement, Ledger!Archive

\* The row an insert writes has its type.
LEMMA InsertTyped ==
  ASSUME TypeInv, NEW s \in Slot, pc[s] # "idle"
  PROVE  /\ serving[s].kind = "review" =>
              [key |-> serving[s].key, by |-> serving[s].by,
               content |-> serving[s].content] \in Ledger!Row
         /\ serving[s].kind # "review" =>
              [key |-> serving[s].key, revision |-> serving[s].revision]
                \in Ledger!Archive
  <1>1. serving[s] \in Request
    BY DEF TypeInv, TypeOK, OrderInv
  <1>2. CASE serving[s].kind = "review"
    <2>1. serving[s].content \in Contents /\ serving[s].key \in Key
          /\ serving[s].by \in Engineer
      BY <1>1, <1>2 DEF Request
    <2> QED BY <1>2, <2>1 DEF Ledger!Row
  <1>3. CASE serving[s].kind # "review"
    <2>1. serving[s].revision \in Nat \ {0} /\ serving[s].key \in Key
      BY <1>1, <1>3 DEF Request
    <2> QED BY <1>3, <2>1 DEF Ledger!Archive
  <1> QED BY <1>2, <1>3

\* Every step keeps the types and the program order.
LEMMA TypeStep == TypeInv /\ [Next]_vars => TypeInv'
  <1> SUFFICES ASSUME TypeInv, [Next]_vars PROVE TypeInv'
    OBVIOUS
  <1>1. ASSUME NEW e \in Engineer, SubmitReview(e) PROVE TypeInv'
    <2>1. PICK c \in Contents :
            Post(e, [kind |-> "review", by |-> e, key |-> DrawnKey, content |-> c,
                     revision |-> 0])
      BY <1>1 DEF SubmitReview
    <2>2. DrawnKey \in Key
      BY <1>1, DrawnIsFresh DEF SubmitReview
    <2>3. [kind |-> "review", by |-> e, key |-> DrawnKey, content |-> c,
           revision |-> 0] \in Request
      BY <2>2 DEF Request
    <2> QED BY <2>1, <2>3, PostTyped
  <1>2. ASSUME NEW e \in Engineer, ArchiveCaseBook(e) PROVE TypeInv'
    <2>1. DrawnKey \in Key
      BY <1>2, DrawnIsFresh DEF ArchiveCaseBook
    <2>2. [kind |-> "archive", by |-> e, key |-> DrawnKey, content |-> NoContent,
           revision |-> review[e]] \in Request
      BY <1>2, <2>1 DEF Request, ArchiveCaseBook, TypeInv, TypeOK
    <2> QED BY <1>2, <2>2, PostTyped DEF ArchiveCaseBook
  <1>3. ASSUME NEW e \in Engineer, TakeReview(e) PROVE TypeInv'
    <2>1. "review" \in Kind /\ waits[e]["review"] \in Wait
      BY DEF TypeInv, TypeOK, Kind
    <2>2. waits' \in [Engineer -> [Kind -> Wait]] /\ WaitInv'
      BY <1>3, <2>1, SettleTyped DEF TakeReview
    <2>3. waits[e]["review"].revision \in Nat
      BY <2>1 DEF Wait
    <2>4. /\ waits[e]["review"].at = "answered"
          /\ archive' = archive
          /\ \/ /\ review' = [review EXCEPT ![e] = waits[e]["review"].revision]
                /\ unseen' = unseen
             \/ /\ review' = review
                /\ unseen' = unseen \cup {waits[e]["review"].req.key}
      BY <1>3, Zenon DEF TakeReview
    <2>5. review \in [Engineer -> Nat] /\ archive \in [Engineer -> Nat]
      BY DEF TypeInv, TypeOK
    <2>6. review' \in [Engineer -> Nat]
      BY <2>4, <2>3, <2>5
    <2>7. {review', archive'} \subseteq [Engineer -> Nat]
      BY <2>4, <2>5, <2>6
    <2>8. waits[e]["review"].req.key \in Key
      BY <2>4, <2>1, AwaitedKey
    <2>9. unseen' \subseteq Key
      BY <2>4, <2>8 DEF TypeInv, TypeOK
    <2> QED BY <1>3, <2>2, <2>7, <2>9
        DEF TakeReview, TypeInv, TypeOK, OrderInv, tables, slots
  <1>4. ASSUME NEW e \in Engineer, TakeArchive(e) PROVE TypeInv'
    <2>1. "archive" \in Kind /\ waits[e]["archive"] \in Wait
      BY DEF TypeInv, TypeOK, Kind
    <2>2. waits' \in [Engineer -> [Kind -> Wait]] /\ WaitInv'
      BY <1>4, <2>1, SettleTyped DEF TakeArchive
    <2>3. waits[e]["archive"].revision \in Nat /\ enabled \in BOOLEAN
      BY <2>1 DEF Wait, TypeInv, TypeOK
    <2>4. /\ {review', archive'} \subseteq [Engineer -> Nat]
          /\ shown' \in [Engineer -> BOOLEAN]
      BY <1>4, <2>3 DEF TakeArchive, TypeInv, TypeOK
    <2> QED BY <1>4, <2>2, <2>4 DEF TakeArchive, TypeInv, TypeOK, OrderInv, tables, slots
  <1>5. ASSUME NEW e \in Engineer, NEW k \in Kind, Lose(e, k) PROVE TypeInv'
    <2>1. waits' \in [Engineer -> [Kind -> Wait]] /\ WaitInv'
      BY <1>5, SettleTyped DEF Lose
    <2>2. unseen' \subseteq Key
      BY <1>5, AwaitedKey DEF Lose, TypeInv, TypeOK
    <2> QED BY <1>5, <2>1, <2>2 DEF Lose, TypeInv, TypeOK, OrderInv, tables, slots, cache
  <1>6. ASSUME NEW e \in Engineer, Leave(e) \/ Return(e) PROVE TypeInv'
    <2>1. shown' \in [Engineer -> BOOLEAN]
      BY <1>6 DEF Leave, Return, TypeInv, TypeOK
    <2>2. UNCHANGED <<tables, slots, sent, review, archive, waits, unseen>>
      BY <1>6 DEF Leave, Return
    <2> QED BY <2>1, <2>2 DEF TypeInv, TypeOK, OrderInv, WaitInv, tables, slots
  <1>7. ASSUME NEW e \in Engineer, Reload(e) PROVE TypeInv'
    <2>1. waits' = [waits EXCEPT ![e] = [k \in Kind |-> NoWait]] /\ sent' = sent
      BY <1>7 DEF Reload
    <2>2. [k \in Kind |-> NoWait] \in [Kind -> Wait]
      BY NullsTyped
    <2>3. waits' \in [Engineer -> [Kind -> Wait]]
      BY <2>1, <2>2 DEF TypeInv, TypeOK
    <2>4. \A f \in Engineer, j \in Kind :
            waits'[f][j] = IF f = e THEN NoWait ELSE waits[f][j]
      BY <2>1 DEF TypeInv, TypeOK
    <2>5. NoWait.at = "idle"
      BY DEF NoWait
    <2>6. WaitInv'
      BY <2>1, <2>4, <2>5 DEF TypeInv, WaitInv
    <2>7. unseen' \subseteq Key
      BY <1>7 DEF Reload, TypeInv, TypeOK, Request
    <2> QED BY <1>7, <2>3, <2>6, <2>7 DEF Reload, TypeInv, TypeOK, OrderInv, tables, slots
  <1>8. CASE Reuse
    <2>1. PICK m \in sent, e \in Engineer :
            IF m.kind = "review"
            THEN /\ \E c \in Contents :
                      sent' = sent \cup {[m EXCEPT !.by = e, !.content = c]}
                 /\ unseen' = unseen \cup {m.key}
            ELSE /\ \E i \in 1..(Len(reviews) + 1) :
                      sent' = sent \cup {[m EXCEPT !.revision = i]}
                 /\ UNCHANGED unseen
      BY <1>8 DEF Reuse
    <2>2. m \in Request /\ m.key \in Key /\ Len(reviews) \in Nat
      BY LenProperties DEF TypeInv, TypeOK, Request
    <2>3. sent' \subseteq Request /\ sent \subseteq sent' /\ unseen' \subseteq Key
      <3>1. CASE m.kind = "review"
        <4>1. PICK c \in Contents :
                sent' = sent \cup {[m EXCEPT !.by = e, !.content = c]}
          BY <2>1, <3>1
        <4>2. [m EXCEPT !.by = e, !.content = c] \in Request
          <5>1. /\ m \in [kind : {"review"}, by : Engineer, key : Key,
                          content : Contents, revision : {0}]
            BY <2>2, <3>1 DEF Request
          <5>2. [m EXCEPT !.by = e, !.content = c]
                  \in [kind : {"review"}, by : Engineer, key : Key,
                       content : Contents, revision : {0}]
            BY <5>1
          <5> QED BY <5>2 DEF Request
        <4> QED BY <2>1, <2>2, <3>1, <4>1, <4>2 DEF TypeInv, TypeOK
      <3>2. CASE m.kind # "review"
        <4>1. PICK i \in 1..(Len(reviews) + 1) :
                sent' = sent \cup {[m EXCEPT !.revision = i]}
          BY <2>1, <3>2
        <4>2. i \in Nat \ {0}
          BY <2>2
        <4>3. [m EXCEPT !.revision = i] \in Request
          <5>1. m \in [kind : {"archive"}, by : Engineer, key : Key,
                       content : {NoContent}, revision : Nat \ {0}]
            BY <2>2, <3>2 DEF Request
          <5>2. [m EXCEPT !.revision = i]
                  \in [kind : {"archive"}, by : Engineer, key : Key,
                       content : {NoContent}, revision : Nat \ {0}]
            BY <5>1, <4>2
          <5> QED BY <5>2 DEF Request
        <4> QED BY <2>1, <3>2, <4>1, <4>3 DEF TypeInv, TypeOK
      <3> QED BY <3>1, <3>2
    <2>4. UNCHANGED <<tables, slots, cache, waits>>
      BY <1>8 DEF Reuse
    <2>5. OrderInv' /\ WaitInv'
      BY <2>3, <2>4 DEF TypeInv, OrderInv, WaitInv, slots
    <2> QED BY <2>3, <2>4, <2>5 DEF TypeInv, TypeOK, tables, slots, cache
  <1>9. ASSUME NEW s \in Slot, Begin(s) PROVE TypeInv'
    BY <1>9 DEF Begin, TypeInv, TypeOK, OrderInv, WaitInv, Statement, tables, cache
  <1>10. ASSUME NEW s \in Slot, Lock(s) PROVE TypeInv'
    <2>1. CASE Refuse(s)
      BY <2>1, RefuseTyped
    <2>2. CASE /\ rowLock' = s
               /\ Goto(s, IF serving[s].kind = "review" THEN "lookup" ELSE "revision")
               /\ UNCHANGED number
      <3>1. serving[s] \in Request
        BY <1>10 DEF Lock, TypeInv, TypeOK, OrderInv
      <3>2. serving[s].kind \in {"review", "archive"}
        BY <3>1 DEF Request
      <3> QED BY <1>10, <2>2, <3>2
          DEF Lock, Goto, TypeInv, TypeOK, OrderInv, WaitInv, Statement, tables, cache
    <2> QED BY <1>10, <2>1, <2>2 DEF Lock
  <1>11. ASSUME NEW s \in Slot, FindReview(s) PROVE TypeInv'
    <2>1. CASE Refuse(s)
      BY <2>1, RefuseTyped
    <2>2. CASE \E i \in Ledger!Recorded(serving[s].key) :
                 /\ Reply(s, IF Matches(reviews[i], serving[s]) THEN i ELSE 0)
                 /\ UNCHANGED <<reviews, archives>>
      <3>1. PICK i \in Ledger!Recorded(serving[s].key) :
              Reply(s, IF Matches(reviews[i], serving[s]) THEN i ELSE 0)
        BY <2>2
      <3>2. i \in Nat /\ (IF Matches(reviews[i], serving[s]) THEN i ELSE 0) \in Nat
        BY LenProperties DEF Ledger!Recorded, TypeInv, TypeOK
      <3> QED BY <2>2, <3>1, <3>2, ReplyTyped DEF TypeInv, TypeOK
    <2>3. CASE Goto(s, "number") /\ UNCHANGED <<rowLock, number>>
      BY <1>11, <2>3 DEF FindReview, Goto, TypeInv, TypeOK, OrderInv, WaitInv,
                         Statement, tables, cache
    <2> QED BY <1>11, <2>1, <2>2, <2>3 DEF FindReview
  <1>12. ASSUME NEW s \in Slot, Number(s) PROVE TypeInv'
    <2>1. Len(reviews) + 1 \in Nat
      BY LenProperties DEF TypeInv, TypeOK
    <2> QED BY <1>12, <2>1 DEF Number, Goto, TypeInv, TypeOK, OrderInv, WaitInv,
                               Statement, tables, cache
  <1>13. ASSUME NEW s \in Slot, FindRevision(s) PROVE TypeInv'
    <2>1. CASE Refuse(s)
      BY <2>1, RefuseTyped
    <2>2. CASE Goto(s, "archived") /\ UNCHANGED <<rowLock, number>>
      BY <1>13, <2>2 DEF FindRevision, Goto, TypeInv, TypeOK, OrderInv, WaitInv,
                         Statement, tables, cache
    <2> QED BY <1>13, <2>1, <2>2 DEF FindRevision
  <1>14. ASSUME NEW s \in Slot, FindArchive(s) PROVE TypeInv'
    <2>1. serving[s].revision \in Nat
      BY <1>14 DEF FindArchive, TypeInv, TypeOK, OrderInv, Request
    <2>2. CASE \E a \in Ledger!Archived(serving[s].key) :
                 /\ Reply(s, IF a.revision = serving[s].revision
                             THEN serving[s].revision ELSE 0)
                 /\ UNCHANGED <<reviews, archives>>
      BY <2>1, <2>2, ReplyTyped DEF TypeInv, TypeOK
    <2>3. CASE Goto(s, "insert") /\ UNCHANGED <<rowLock, number>>
      BY <1>14, <2>3 DEF FindArchive, Goto, TypeInv, TypeOK, OrderInv, WaitInv,
                         Statement, tables, cache
    <2> QED BY <1>14, <2>2, <2>3 DEF FindArchive
  <1>15. ASSUME NEW s \in Slot, Insert(s) PROVE TypeInv'
    <2>1. pc[s] # "idle"
      BY <1>15 DEF Insert
    <2>2. CASE Crash(s)
      BY <2>2, CrashTyped
    <2>3. CASE /\ serving[s].kind = "review"
               /\ reviews' = Append(reviews, [key |-> serving[s].key,
                                              by |-> serving[s].by,
                                              content |-> serving[s].content])
               /\ UNCHANGED archives
               /\ Reply(s, number[s])
      <3>1. reviews' \in Seq(Ledger!Row)
        BY <2>1, <2>3, InsertTyped, AppendProperties DEF TypeInv, TypeOK
      <3>2. number[s] \in Nat
        BY DEF TypeInv, TypeOK
      <3> QED BY <2>3, <3>1, <3>2, ReplyTyped DEF TypeInv, TypeOK
    <2>4. CASE /\ serving[s].kind # "review"
               /\ archives' = archives \cup {[key |-> serving[s].key,
                                              revision |-> serving[s].revision]}
               /\ UNCHANGED reviews
               /\ Reply(s, serving[s].revision)
      <3>1. archives' \subseteq Ledger!Archive
        BY <2>1, <2>4, InsertTyped DEF TypeInv, TypeOK
      <3>2. serving[s].revision \in Nat
        BY <2>1 DEF TypeInv, TypeOK, OrderInv, Request
      <3> QED BY <2>4, <3>1, <3>2, ReplyTyped DEF TypeInv, TypeOK
    <2> QED BY <1>15, <2>2, <2>3, <2>4 DEF Insert
  <1>16. ASSUME NEW s \in Slot, Abort(s) PROVE TypeInv'
    BY <1>16, CrashTyped DEF Abort
  <1>17. CASE UNCHANGED vars
    BY <1>17 DEF vars, tables, slots, cache, TypeInv, TypeOK, OrderInv, WaitInv
  <1> QED
    BY <1>1, <1>2, <1>3, <1>4, <1>5, <1>6, <1>7, <1>8, <1>9, <1>10, <1>11, <1>12,
       <1>13, <1>14, <1>15, <1>16, <1>17 DEF Next, Advance

\* TypeOK: values keep their types.
THEOREM TypeCorrect == Spec => []TypeOK
  <1>1. Init => TypeInv
    BY InitTypeInv
  <1>2. TypeInv /\ [Next]_vars => TypeInv'
    BY TypeStep
  <1>3. TypeInv => TypeOK
    BY DEF TypeInv
  <1> QED BY <1>1, <1>2, <1>3, PTL DEF Spec
-----------------------------------------------------------------------------
(* The transactions *)

\* What a transaction has read since it locked the row is still so: it alone
\* holds the row, and the largest revision and the keys are those it found.
ReadStands(s) ==
  /\ rowLock = s <=> pc[s] \notin {"idle", "lock"}
  /\ pc[s] = "number" \/ (pc[s] = "insert" /\ serving[s].kind = "review") =>
       Ledger!Recorded(serving[s].key) = {} /\ Valid(serving[s].content)
  /\ pc[s] = "insert" /\ serving[s].kind = "review" =>
       number[s] = Len(reviews) + 1
  /\ pc[s] = "archived" \/ (pc[s] = "insert" /\ serving[s].kind = "archive") =>
       serving[s].revision \in DOMAIN reviews
  /\ pc[s] = "insert" /\ serving[s].kind = "archive" =>
       Ledger!Archived(serving[s].key) = {}
SlotInv == \A s \in Slot : ReadStands(s)

\* No other transaction reads while one holds the row.
LEMMA SlotAlone ==
  ASSUME SlotInv, NEW s \in Slot, NEW t \in Slot, t # s,
         pc[s] \notin {"idle", "lock"}
  PROVE  pc[t] \in {"idle", "lock"}
BY DEF SlotInv, ReadStands

\* A step that leaves a transaction and the rows alone leaves what it has read.
LEMMA SlotKept ==
  ASSUME NEW t \in Slot, ReadStands(t),
         pc[t]' = pc[t] /\ serving[t]' = serving[t] /\ number[t]' = number[t],
         (rowLock = t)' <=> rowLock = t,
         pc[t] \in {"idle", "lock"} \/ UNCHANGED <<reviews, archives>>
  PROVE  ReadStands(t)'
  <1>1. CASE pc[t] \in {"idle", "lock"}
    BY <1>1 DEF ReadStands
  <1>2. CASE UNCHANGED <<reviews, archives>>
    BY <1>2 DEF ReadStands, Ledger!Recorded, Ledger!Archived
  <1> QED BY <1>1, <1>2

\* A transaction that ends leaves the others where they were.
LEMMA FinishSlots ==
  ASSUME TypeInv, SlotInv, NEW s \in Slot, Finish(s),
         UNCHANGED <<reviews, archives>> \/ pc[s] \notin {"idle", "lock"}
  PROVE  SlotInv'
  <1>1. ReadStands(s)'
    BY DEF Finish, ReadStands, TypeInv, TypeOK
  <1>2. ASSUME NEW t \in Slot, t # s PROVE ReadStands(t)'
    <2>1. pc'[t] = pc[t] /\ serving'[t] = serving[t] /\ number'[t] = number[t]
      BY <1>2 DEF Finish, TypeInv, TypeOK
    <2>2. (rowLock = t)' <=> rowLock = t
      BY <1>2 DEF Finish
    <2>3. pc[t] \in {"idle", "lock"} \/ UNCHANGED <<reviews, archives>>
      BY <1>2, SlotAlone
    <2> QED BY <2>1, <2>2, <2>3, SlotKept DEF SlotInv
  <1> QED BY <1>1, <1>2 DEF SlotInv

\* What a statement that goes on does.
LEMMA GotoAt ==
  ASSUME TypeInv, NEW s \in Slot, NEW st \in Statement, Goto(s, st)
  PROVE  /\ pc'[s] = st
         /\ reviews' = reviews /\ archives' = archives /\ serving' = serving
         /\ \A k : Ledger!Recorded(k)' = Ledger!Recorded(k)
         /\ \A k : Ledger!Archived(k)' = Ledger!Archived(k)
  <1>1. pc'[s] = st /\ UNCHANGED <<reviews, archives, serving>>
    BY DEF Goto, TypeInv, TypeOK, tables
  <1> QED BY <1>1 DEF Ledger!Recorded, Ledger!Archived

\* A transaction that goes on leaves the others where they were.
LEMMA GotoSlots ==
  ASSUME TypeInv, SlotInv, NEW s \in Slot, NEW st \in Statement, Goto(s, st),
         rowLock' = rowLock \/ (rowLock = NoSlot /\ rowLock' = s),
         \A t \in Slot : t # s => number'[t] = number[t],
         ReadStands(s)'
  PROVE  SlotInv'
  <1>1. ASSUME NEW t \in Slot, t # s PROVE ReadStands(t)'
    <2>1. pc'[t] = pc[t] /\ serving'[t] = serving[t] /\ number'[t] = number[t]
      BY <1>1 DEF Goto, TypeInv, TypeOK
    <2>2. (rowLock = t)' <=> rowLock = t
      BY <1>1
    <2>3. UNCHANGED <<reviews, archives>>
      BY DEF Goto, tables
    <2> QED BY <2>1, <2>2, <2>3, SlotKept DEF SlotInv
  <1> QED BY <1>1 DEF SlotInv

\* An idle page's clicks do not concern the transactions.
LEMMA PageSlots ==
  ASSUME SlotInv, UNCHANGED slots, UNCHANGED tables
  PROVE  SlotInv'
BY DEF SlotInv, ReadStands, slots, tables, Ledger!Recorded, Ledger!Archived

\* Every step leaves what each transaction has read as it read it.
LEMMA SlotStep ==
  ASSUME TypeInv, TypeInv', SlotInv, [Next]_vars
  PROVE  SlotInv'
  <1>1. CASE UNCHANGED <<slots, tables>>
    BY <1>1, PageSlots
  <1>2. ASSUME NEW s \in Slot, Begin(s) PROVE SlotInv'
    <2>1. ReadStands(s)'
      BY <1>2 DEF Begin, ReadStands, SlotInv, TypeInv, TypeOK
    <2>2. ASSUME NEW t \in Slot, t # s PROVE ReadStands(t)'
      <3>1. pc'[t] = pc[t] /\ serving'[t] = serving[t] /\ number'[t] = number[t]
        BY <1>2, <2>2 DEF Begin, TypeInv, TypeOK
      <3>2. UNCHANGED <<rowLock, reviews, archives>>
        BY <1>2 DEF Begin, tables
      <3> QED BY <3>1, <3>2, SlotKept DEF SlotInv
    <2> QED BY <2>1, <2>2 DEF SlotInv
  <1>3. ASSUME NEW s \in Slot, Refuse(s) PROVE SlotInv'
    BY <1>3, FinishSlots DEF Refuse, Reply
  <1>4. ASSUME NEW s \in Slot, Crash(s) PROVE SlotInv'
    BY <1>4, FinishSlots DEF Crash
  <1>5. ASSUME NEW s \in Slot, Lock(s) PROVE SlotInv'
    <2>1. CASE Refuse(s)
      BY <2>1, <1>3
    <2>2. CASE /\ rowLock' = s
               /\ Goto(s, IF serving[s].kind = "review" THEN "lookup" ELSE "revision")
               /\ UNCHANGED number
      <3>1. ReadStands(s)'
        BY <2>2 DEF Goto, ReadStands, TypeInv, TypeOK
      <3> QED BY <1>5, <2>2, <3>1, GotoSlots DEF Lock, Statement
    <2> QED BY <1>5, <2>1, <2>2 DEF Lock
  <1>6. ASSUME NEW s \in Slot, FindReview(s) PROVE SlotInv'
    <2>1. CASE Refuse(s)
      BY <2>1, <1>3
    <2>2. CASE \E i \in Ledger!Recorded(serving[s].key) :
                 /\ Reply(s, IF Matches(reviews[i], serving[s]) THEN i ELSE 0)
                 /\ UNCHANGED <<reviews, archives>>
      BY <2>2, FinishSlots DEF Reply
    <2>3. CASE /\ Ledger!Recorded(serving[s].key) = {}
               /\ Valid(serving[s].content)
               /\ Goto(s, "number") /\ UNCHANGED <<rowLock, number>>
      <3>1. pc'[s] = "number" /\ UNCHANGED <<serving, reviews>>
        BY <2>3, GotoAt DEF Statement
      <3>2. Ledger!Recorded(serving[s].key)' = {}
        BY <2>3, <3>1 DEF Ledger!Recorded
      <3>3. rowLock' = s
        BY <1>6, <2>3 DEF FindReview, SlotInv, ReadStands
      <3>4. ReadStands(s)'
        BY <2>3, <3>2, <3>3, <3>1 DEF ReadStands
      <3>5. rowLock' = rowLock /\ number' = number
        BY <2>3
      <3>6. "number" \in Statement
        BY DEF Statement
      <3> QED BY <2>3, <3>4, <3>5, <3>6, GotoSlots
    <2> QED BY <1>6, <2>1, <2>2, <2>3 DEF FindReview
  <1>7. ASSUME NEW s \in Slot, Number(s) PROVE SlotInv'
    <2>1. serving[s].kind = "review"
      BY <1>7 DEF Number, TypeInv, OrderInv
    <2>2. pc'[s] = "insert" /\ UNCHANGED <<serving, rowLock, reviews>>
      BY <1>7, GotoAt DEF Number, Statement
    <2>3. number'[s] = Len(reviews) + 1
      BY <1>7 DEF Number, TypeInv, TypeOK
    <2>4. rowLock = s /\ Ledger!Recorded(serving[s].key) = {} /\ Valid(serving[s].content)
      BY <1>7 DEF Number, SlotInv, ReadStands
    <2>5. Ledger!Recorded(serving[s].key)' = {}
      BY <2>2, <2>4 DEF Ledger!Recorded
    <2>6. ReadStands(s)'
      BY <2>1, <2>2, <2>3, <2>4, <2>5 DEF ReadStands
    <2>7. \A t \in Slot : t # s => number'[t] = number[t]
      BY <1>7 DEF Number, TypeInv, TypeOK
    <2>8. Goto(s, "insert") /\ rowLock' = rowLock /\ "insert" \in Statement
      BY <1>7 DEF Number, Statement
    <2> QED BY <2>6, <2>7, <2>8, GotoSlots
  <1>8. ASSUME NEW s \in Slot, FindRevision(s) PROVE SlotInv'
    <2>1. CASE Refuse(s)
      BY <2>1, <1>3
    <2>2. CASE /\ serving[s].revision \in DOMAIN reviews
               /\ Goto(s, "archived") /\ UNCHANGED <<rowLock, number>>
      <3>1. pc'[s] = "archived" /\ UNCHANGED <<serving, reviews>>
        BY <2>2, GotoAt DEF Statement
      <3>2. rowLock' = s
        BY <1>8, <2>2 DEF FindRevision, SlotInv, ReadStands
      <3>3. ReadStands(s)'
        BY <2>2, <3>1, <3>2 DEF ReadStands
      <3>4. rowLock' = rowLock /\ number' = number /\ "archived" \in Statement
        BY <2>2 DEF Statement
      <3> QED BY <2>2, <3>3, <3>4, GotoSlots
    <2> QED BY <1>8, <2>1, <2>2 DEF FindRevision
  <1>9. ASSUME NEW s \in Slot, FindArchive(s) PROVE SlotInv'
    <2>1. CASE \E a \in Ledger!Archived(serving[s].key) :
                 /\ Reply(s, IF a.revision = serving[s].revision
                             THEN serving[s].revision ELSE 0)
                 /\ UNCHANGED <<reviews, archives>>
      BY <2>1, FinishSlots DEF Reply
    <2>2. CASE /\ Ledger!Archived(serving[s].key) = {}
               /\ Goto(s, "insert") /\ UNCHANGED <<rowLock, number>>
      <3>1. serving[s].kind = "archive"
        BY <1>9 DEF FindArchive, TypeInv, OrderInv
      <3>2. pc'[s] = "insert" /\ UNCHANGED <<serving, reviews, archives>>
        BY <2>2, GotoAt DEF Statement
      <3>3. rowLock' = s /\ serving[s].revision \in DOMAIN reviews
        BY <1>9, <2>2 DEF FindArchive, SlotInv, ReadStands
      <3>4. Ledger!Archived(serving[s].key)' = {}
        BY <2>2, <3>2 DEF Ledger!Archived
      <3>5. ReadStands(s)'
        BY <3>1, <3>2, <3>3, <3>4 DEF ReadStands
      <3>6. rowLock' = rowLock /\ number' = number /\ "insert" \in Statement
        BY <2>2 DEF Statement
      <3> QED BY <2>2, <3>5, <3>6, GotoSlots
    <2> QED BY <1>9, <2>1, <2>2 DEF FindArchive
  <1>10. ASSUME NEW s \in Slot, Insert(s) PROVE SlotInv'
    <2>1. pc[s] \notin {"idle", "lock"} /\ Finish(s)
      BY <1>10 DEF Insert, Crash, Reply
    <2> QED BY <2>1, FinishSlots
  <1>11. ASSUME NEW e \in Engineer, NEW m, Post(e, m) PROVE UNCHANGED <<slots, tables>>
    BY <1>11 DEF Post
  <1> QED
    BY <1>1, <1>2, <1>4, <1>5, <1>6, <1>7, <1>8, <1>9, <1>10, <1>11
    DEF Next, Advance, Abort, vars, SubmitReview, ArchiveCaseBook, TakeReview,
        TakeArchive, Lose, Leave, Return, Reload, Reuse

\* InsertsNeverCollide: no insert meets a unique key that is taken.
THEOREM NoCollision == Spec => []InsertsNeverCollide
  <1>1. Init => TypeInv /\ SlotInv
    BY InitTypeInv DEF Init, SlotInv, ReadStands
  <1>2. TypeInv /\ SlotInv /\ [Next]_vars => (TypeInv /\ SlotInv)'
    BY TypeStep, SlotStep
  <1>3. TypeInv /\ SlotInv => InsertsNeverCollide
    <2> SUFFICES ASSUME TypeInv, SlotInv, NEW s \in Slot, pc[s] = "insert"
                 PROVE  ~Collides(s)
      BY DEF InsertsNeverCollide
    <2>1. serving[s].kind \in {"review", "archive"}
      BY DEF TypeInv, TypeOK, OrderInv, Request
    <2>2. Len(reviews) + 1 \notin DOMAIN reviews
      BY LenProperties DEF TypeInv, TypeOK
    <2> QED BY <2>1, <2>2 DEF SlotInv, ReadStands, Collides
  <1> QED BY <1>1, <1>2, <1>3, PTL DEF Spec

-----------------------------------------------------------------------------
(* The ledger *)

\* What a step does to the rows.
LEMMA RowsStep ==
  ASSUME TypeInv, SlotInv, [Next]_vars
  PROVE  \/ UNCHANGED <<reviews, archives>>
         \/ \E s \in Slot : pc[s] = "insert" /\ Insert(s)
  <1>1. ASSUME NEW e \in Engineer, NEW m, Post(e, m) PROVE UNCHANGED tables
    BY <1>1 DEF Post
  <1>2. ASSUME NEW s \in Slot, NEW st, Goto(s, st) PROVE UNCHANGED tables
    BY <1>2 DEF Goto
  <1>3. ASSUME NEW s \in Slot, Lock(s) PROVE UNCHANGED <<reviews, archives>>
    BY <1>2, <1>3 DEF Lock, Refuse, tables
  <1>4. ASSUME NEW s \in Slot, FindReview(s) \/ FindRevision(s) \/ FindArchive(s)
        PROVE  UNCHANGED <<reviews, archives>>
    BY <1>2, <1>4 DEF FindReview, FindRevision, FindArchive, Refuse, tables
  <1>5. ASSUME NEW s \in Slot, Begin(s) \/ Number(s) \/ Abort(s)
        PROVE  UNCHANGED <<reviews, archives>>
    BY <1>2, <1>5 DEF Begin, Number, Abort, Crash, tables
  <1> QED
    BY <1>1, <1>3, <1>4, <1>5
    DEF Next, Advance, Insert, SubmitReview, ArchiveCaseBook, TakeReview,
        TakeArchive, Lose, Leave, Return, Reload, Reuse, vars, tables

\* What an insert that succeeds does.
LEMMA InsertRows ==
  ASSUME TypeInv, SlotInv, NEW s \in Slot, Insert(s)
  PROVE  \/ /\ serving[s].kind = "review"
            /\ Ledger!Recorded(serving[s].key) = {}
            /\ Valid(serving[s].content)
            /\ reviews' = Append(reviews, [key |-> serving[s].key, by |-> serving[s].by,
                                           content |-> serving[s].content])
            /\ archives' = archives
            /\ Reply(s, Len(reviews) + 1)
         \/ /\ serving[s].kind = "archive"
            /\ Ledger!Archived(serving[s].key) = {}
            /\ serving[s].revision \in DOMAIN reviews
            /\ archives' = archives \cup {[key |-> serving[s].key,
                                           revision |-> serving[s].revision]}
            /\ reviews' = reviews
            /\ Reply(s, serving[s].revision)
  <1>1. serving[s].kind \in {"review", "archive"} /\ pc[s] = "insert"
    BY DEF Insert, TypeInv, TypeOK, OrderInv, Request
  <1>2. ReadStands(s)
    BY DEF SlotInv
  <1>3. Len(reviews) + 1 \notin DOMAIN reviews
    BY LenProperties DEF TypeInv, TypeOK
  <1>4. ~Collides(s)
    BY <1>1, <1>2, <1>3 DEF ReadStands, Collides
  <1>5. CASE serving[s].kind = "review"
    BY <1>1, <1>2, <1>4, <1>5 DEF ReadStands, Insert
  <1>6. CASE serving[s].kind = "archive"
    BY <1>1, <1>2, <1>4, <1>6 DEF ReadStands, Insert
  <1> QED BY <1>1, <1>5, <1>6

\* A step of the API on the rows is a step of the ledger.
LEMMA LedgerStep ==
  ASSUME TypeInv, SlotInv, [Next]_vars
  PROVE  [Ledger!Next]_(Ledger!rows)
  <1>1. CASE UNCHANGED <<reviews, archives>>
    BY <1>1 DEF Ledger!rows
  <1>2. ASSUME NEW s \in Slot, pc[s] = "insert", Insert(s) PROVE Ledger!Next
    <2>1. PICK m \in Request : m = serving[s]
      BY <1>2 DEF TypeInv, TypeOK, OrderInv
    <2>2. m.key \in Key
      BY <2>1 DEF Request
    <2>3. CASE /\ m.kind = "review"
               /\ Ledger!Recorded(m.key) = {}
               /\ Valid(m.content)
               /\ reviews' = Append(reviews, [key |-> m.key, by |-> m.by,
                                              content |-> m.content])
               /\ archives' = archives
      <3>1. m.by \in Engineer /\ m.content \in Contents
        BY <2>1, <2>3 DEF Request
      <3>2. m.content \in Ledger!Content
        BY <3>1
      <3>3. m.content \in Ledger!Definite
        BY <2>3, <3>2 DEF Valid, Ledger!Content, Ledger!Definite
      <3>4. Ledger!Record(m.key, m.by, m.content)
        BY <2>3 DEF Ledger!Record
      <3>5. /\ Len(reviews) + 1 \in DOMAIN reviews'
            /\ reviews'[Len(reviews) + 1] = [key |-> m.key, by |-> m.by,
                                             content |-> m.content]
        BY <2>3, LenProperties, AppendProperties DEF TypeInv, TypeOK
      <3>6. Ledger!Recorded(m.key)' # Ledger!Recorded(m.key)
        BY <2>3, <3>5 DEF Ledger!Recorded
      <3> QED BY <2>2, <3>1, <3>3, <3>4, <3>6 DEF Ledger!Next
    <2>4. CASE /\ m.kind = "archive"
               /\ Ledger!Archived(m.key) = {}
               /\ m.revision \in DOMAIN reviews
               /\ archives' = archives \cup {[key |-> m.key, revision |-> m.revision]}
               /\ reviews' = reviews
      <3>1. Ledger!Enter(m.key, m.revision)
        BY <2>4 DEF Ledger!Enter
      <3>2. [key |-> m.key, revision |-> m.revision] \in Ledger!Archived(m.key)'
        BY <2>4 DEF Ledger!Archived
      <3> QED BY <2>2, <2>4, <3>1, <3>2 DEF Ledger!Next
    <2> QED BY <1>2, <2>1, <2>3, <2>4, InsertRows
  <1> QED BY <1>1, <1>2, RowsStep

\* ImplementsLedger: whatever is sent, lost, repeated or reordered, the rows
\* change as ReviewLedger says.
THEOREM LedgerRefined == Spec => ImplementsLedger
  <1>1. Init => TypeInv /\ SlotInv /\ Ledger!Init
    BY InitTypeInv DEF Init, SlotInv, ReadStands, Ledger!Init
  <1>2. TypeInv /\ SlotInv /\ [Next]_vars => (TypeInv /\ SlotInv)'
    BY TypeStep, SlotStep
  <1>3. TypeInv /\ SlotInv /\ [Next]_vars => [Ledger!Next]_(Ledger!rows)
    BY LedgerStep
  <1> QED BY <1>1, <1>2, <1>3, PTL DEF Spec, ImplementsLedger, Ledger!Spec

-----------------------------------------------------------------------------
(* What the pages show *)

\* Every review came from a request for it, and a key is recorded once.
RowInv ==
  /\ \A i \in DOMAIN reviews : \E m \in sent :
       m.kind = "review" /\ m.key = reviews[i].key /\ m.by = reviews[i].by
  /\ \A i, j \in DOMAIN reviews : reviews[i].key = reviews[j].key => i = j

\* What a page waits for is newer than the review it shows, and an archive
\* entry it waits for is not.
AskedInv ==
  \A e \in Engineer :
    /\ waits[e]["review"].at # "idle" =>
         \A i \in DOMAIN reviews :
           reviews[i].key = waits[e]["review"].req.key => i > review[e]
    /\ waits[e]["archive"].at # "idle" =>
         /\ waits[e]["archive"].req.revision <= review[e]
         /\ waits[e]["archive"].revision \in {0, waits[e]["archive"].req.revision}

\* Where a review request stands with the page that sent it.
Accounted(m) ==
  \/ m.key \in unseen
  \/ waits[m.by]["review"].at # "idle" /\ waits[m.by]["review"].req.key = m.key
  \/ \E i \in DOMAIN reviews : reviews[i].key = m.key /\ i <= review[m.by]
AccountInv == \A m \in sent : m.kind = "review" => Accounted(m)

RecordInv == RowInv /\ AskedInv /\ AccountInv /\ ShownIsRecorded /\ SavedIsNewest

\* A step that is not seen by any page.
LEMMA RecordsKept ==
  ASSUME RecordInv, UNCHANGED <<reviews, archives, sent, cache, waits, unseen>>
  PROVE  RecordInv'
BY DEF RecordInv, RowInv, AskedInv, AccountInv, Accounted, ShownIsRecorded,
       SavedIsNewest, cache

\* What an append leaves as it was.
LEMMA AppendGrows ==
  ASSUME NEW S, NEW q \in Seq(S), NEW r \in S
  PROVE  /\ Len(q) + 1 \in DOMAIN Append(q, r) /\ Append(q, r)[Len(q) + 1] = r
         /\ \A i \in DOMAIN q : i \in DOMAIN Append(q, r) /\ Append(q, r)[i] = q[i]
         /\ \A i \in DOMAIN Append(q, r) : i \in DOMAIN q \/ i = Len(q) + 1
         /\ \A i \in DOMAIN q : i \in Nat /\ i # 0 /\ i < Len(q) + 1
         /\ Len(q) \in Nat
BY AppendProperties, LenProperties

\* An answer that tells what was recorded, with or without a new row.
LEMMA ReplyRecords ==
  ASSUME TypeInv, RecordInv, NEW s \in Slot, NEW i \in Nat, Reply(s, i), pc[s] # "idle",
         archives \subseteq archives',
         \/ reviews' = reviews
         \/ /\ serving[s].kind = "review"
            /\ Ledger!Recorded(serving[s].key) = {}
            /\ reviews' = Append(reviews, [key |-> serving[s].key, by |-> serving[s].by,
                                           content |-> serving[s].content]),
         i # 0 /\ serving[s].kind = "review" =>
           /\ i \in DOMAIN reviews'
           /\ reviews'[i] = [key |-> serving[s].key, by |-> serving[s].by,
                             content |-> serving[s].content],
         i # 0 /\ serving[s].kind = "archive" =>
           /\ i = serving[s].revision
           /\ [key |-> serving[s].key, revision |-> i] \in archives'
  PROVE  RecordInv'
  <1> DEFINE row == [key |-> serving[s].key, by |-> serving[s].by,
                     content |-> serving[s].content]
  <1>1. serving[s] \in sent
    BY DEF TypeInv, OrderInv
  <1>2. UNCHANGED <<sent, review, archive, unseen>>
    BY DEF Reply, Finish, cache
  <1>3. \A e \in Engineer, k \in Kind :
          /\ waits'[e][k].req = waits[e][k].req
          /\ waits'[e][k].at = "idle" <=> waits[e][k].at = "idle"
          /\ \/ waits'[e][k] = waits[e][k]
             \/ /\ waits[e][k].at = "sent" /\ waits[e][k].req = serving[s]
                /\ waits'[e][k].at = "answered" /\ waits'[e][k].revision = i
    BY ReplyWaits
  <1>4. /\ \A j \in DOMAIN reviews : j \in DOMAIN reviews' /\ reviews'[j] = reviews[j]
        /\ \A j \in DOMAIN reviews' :
             \/ j \in DOMAIN reviews
             \/ /\ j = Len(reviews) + 1 /\ reviews'[j] = row
                /\ serving[s].kind = "review"
                /\ Ledger!Recorded(serving[s].key) = {}
        /\ \A j \in DOMAIN reviews : j \in Nat /\ j < Len(reviews) + 1
        /\ Len(reviews) \in Nat
    <2>1. serving[s].kind = "review" => row \in Ledger!Row
      BY InsertTyped
    <2>2. reviews \in Seq(Ledger!Row)
      BY DEF TypeInv, TypeOK
    <2>3. /\ \A j \in DOMAIN reviews : j \in Nat /\ j < Len(reviews) + 1
          /\ Len(reviews) \in Nat
      BY <2>2, LenProperties
    <2>4. CASE reviews' = reviews
      BY <2>3, <2>4
    <2>5. CASE /\ serving[s].kind = "review"
               /\ Ledger!Recorded(serving[s].key) = {}
               /\ reviews' = Append(reviews, row)
      BY <2>1, <2>2, <2>3, <2>5, AppendGrows
    <2> QED BY <2>4, <2>5
  <1>5. \A j \in DOMAIN reviews :
          Ledger!Recorded(serving[s].key) = {} => reviews[j].key # serving[s].key
    BY DEF Ledger!Recorded
  <1>6. row.key = serving[s].key /\ row.by = serving[s].by
    OBVIOUS
  <1>7. \A e \in Engineer : /\ review[e] \in Nat /\ archive[e] \in Nat
                            /\ review[e] < Len(reviews) + 1
    <2>1. review \in [Engineer -> Nat] /\ archive \in [Engineer -> Nat]
      BY DEF TypeInv, TypeOK
    <2>2. \A e \in Engineer : review[e] # 0 => review[e] \in DOMAIN reviews
      BY DEF RecordInv, ShownIsRecorded
    <2> QED BY <1>4, <2>1, <2>2
  <1> HIDE DEF row
  <1>8. RowInv'
    BY <1>1, <1>2, <1>4, <1>5, <1>6 DEF RecordInv, RowInv
  <1>9. AskedInv'
    <2> SUFFICES ASSUME NEW e \in Engineer
                 PROVE  /\ waits'[e]["review"].at # "idle" =>
                             \A j \in DOMAIN reviews' :
                               reviews'[j].key = waits'[e]["review"].req.key => j > review[e]
                        /\ waits'[e]["archive"].at # "idle" =>
                             /\ waits'[e]["archive"].req.revision <= review[e]
                             /\ waits'[e]["archive"].revision
                                  \in {0, waits'[e]["archive"].req.revision}
      BY <1>2 DEF AskedInv
    <2>1. "review" \in Kind /\ "archive" \in Kind
      BY DEF Kind
    <2>2. waits'[e]["review"].at # "idle" =>
            \A j \in DOMAIN reviews' :
              reviews'[j].key = waits'[e]["review"].req.key => j > review[e]
      BY <1>3, <1>4, <1>7, <2>1 DEF RecordInv, AskedInv
    <2>3. waits[e]["archive"].at # "idle" => waits[e]["archive"].req.kind = "archive"
      BY <2>1 DEF TypeInv, WaitInv
    <2>4. waits'[e]["archive"].at # "idle" =>
            /\ waits'[e]["archive"].req.revision <= review[e]
            /\ waits'[e]["archive"].revision \in {0, waits'[e]["archive"].req.revision}
      BY <1>3, <2>1, <2>3 DEF RecordInv, AskedInv
    <2> QED BY <2>2, <2>4
  <1>10. AccountInv'
    <2> SUFFICES ASSUME NEW m \in sent, m.kind = "review" PROVE Accounted(m)'
      BY <1>2 DEF AccountInv
    <2>1. Accounted(m)
      BY DEF RecordInv, AccountInv
    <2>2. "review" \in Kind /\ m.by \in Engineer
      BY DEF Kind, TypeInv, TypeOK, Request
    <2> QED BY <1>2, <1>3, <1>4, <2>1, <2>2 DEF Accounted
  <1>11. ShownIsRecorded'
    <2> SUFFICES ASSUME NEW e \in Engineer
                 PROVE  /\ waits'[e]["review"].at = "answered"
                             /\ waits'[e]["review"].revision # 0 =>
                             /\ waits'[e]["review"].revision \in DOMAIN reviews'
                             /\ reviews'[waits'[e]["review"].revision] =
                                  [key |-> waits'[e]["review"].req.key, by |-> e,
                                   content |-> waits'[e]["review"].req.content]
                        /\ waits'[e]["archive"].at = "answered"
                             /\ waits'[e]["archive"].revision # 0 =>
                             [key |-> waits'[e]["archive"].req.key,
                              revision |-> waits'[e]["archive"].revision] \in archives'
                        /\ review'[e] # 0 => /\ review'[e] \in DOMAIN reviews'
                                             /\ reviews'[review'[e]].by = e
                        /\ archive'[e] # 0 => \E a \in archives' : a.revision = archive'[e]
                        /\ archive'[e] <= review'[e]
      BY DEF ShownIsRecorded
    <2>1. "review" \in Kind /\ "archive" \in Kind
      BY DEF Kind
    <2>2. \A k \in Kind : waits[e][k].at # "idle" => /\ waits[e][k].req.kind = k
                                                    /\ waits[e][k].req.by = e
      BY DEF TypeInv, WaitInv
    <2>3. /\ review'[e] # 0 => review'[e] \in DOMAIN reviews' /\ reviews'[review'[e]].by = e
          /\ archive'[e] # 0 => \E a \in archives' : a.revision = archive'[e]
          /\ archive'[e] <= review'[e]
      BY <1>2, <1>4 DEF RecordInv, ShownIsRecorded
    <2>4. waits'[e]["review"].at = "answered" /\ waits'[e]["review"].revision # 0 =>
            /\ waits'[e]["review"].revision \in DOMAIN reviews'
            /\ reviews'[waits'[e]["review"].revision] =
                 [key |-> waits'[e]["review"].req.key, by |-> e,
                  content |-> waits'[e]["review"].req.content]
      <3>1. CASE waits'[e]["review"] = waits[e]["review"]
        <4>1. waits[e]["review"].at = "answered" /\ waits[e]["review"].revision # 0 =>
                /\ waits[e]["review"].revision \in DOMAIN reviews
                /\ reviews[waits[e]["review"].revision] =
                     [key |-> waits[e]["review"].req.key, by |-> e,
                      content |-> waits[e]["review"].req.content]
          BY DEF RecordInv, ShownIsRecorded
        <4> QED BY <1>4, <3>1, <4>1
      <3>2. CASE waits'[e]["review"] # waits[e]["review"]
        BY <1>3, <2>1, <2>2, <3>2
      <3> QED BY <3>1, <3>2
    <2>5. waits'[e]["archive"].at = "answered" /\ waits'[e]["archive"].revision # 0 =>
            [key |-> waits'[e]["archive"].req.key,
             revision |-> waits'[e]["archive"].revision] \in archives'
      <3>1. CASE waits'[e]["archive"] = waits[e]["archive"]
        BY <3>1 DEF RecordInv, ShownIsRecorded
      <3>2. CASE waits'[e]["archive"] # waits[e]["archive"]
        BY <1>3, <2>1, <2>2, <3>2
      <3> QED BY <3>1, <3>2
    <2> QED BY <2>3, <2>4, <2>5
  <1>12. SavedIsNewest'
    <2> SUFFICES ASSUME NEW e \in Engineer, NEW j \in DOMAIN reviews',
                        reviews'[j].by = e, j > review[e]
                 PROVE  \/ reviews'[j].key \in unseen
                        \/ /\ waits'[e]["review"].at # "idle"
                           /\ reviews'[j].key = waits'[e]["review"].req.key
      BY <1>2 DEF SavedIsNewest
    <2>1. "review" \in Kind
      BY DEF Kind
    <2>2. CASE j \in DOMAIN reviews
      BY <1>2, <1>3, <1>4, <2>1, <2>2 DEF RecordInv, SavedIsNewest
    <2>3. CASE j \notin DOMAIN reviews
      <3>1. /\ reviews'[j].key = serving[s].key /\ serving[s].by = e
            /\ serving[s].kind = "review" /\ Ledger!Recorded(serving[s].key) = {}
        BY <1>4, <1>6, <2>3
      <3>2. Accounted(serving[s])
        BY <1>1, <3>1 DEF RecordInv, AccountInv
      <3>3. \A n \in DOMAIN reviews : reviews[n].key # serving[s].key
        BY <1>5, <3>1
      <3> QED BY <1>3, <2>1, <3>1, <3>2, <3>3 DEF Accounted
    <2> QED BY <2>2, <2>3
  <1> QED BY <1>8, <1>9, <1>10, <1>11, <1>12 DEF RecordInv

\* ShownIsRecorded of one page: what it is told, and what it shows.
Told(e) ==
  /\ waits[e]["review"].at = "answered" /\ waits[e]["review"].revision # 0 =>
       /\ waits[e]["review"].revision \in DOMAIN reviews
       /\ reviews[waits[e]["review"].revision] =
            [key |-> waits[e]["review"].req.key, by |-> e,
             content |-> waits[e]["review"].req.content]
  /\ waits[e]["archive"].at = "answered" /\ waits[e]["archive"].revision # 0 =>
       [key |-> waits[e]["archive"].req.key,
        revision |-> waits[e]["archive"].revision] \in archives
Shows(e) ==
  /\ review[e] # 0 => review[e] \in DOMAIN reviews /\ reviews[review[e]].by = e
  /\ archive[e] # 0 => \E a \in archives : a.revision = archive[e]
  /\ archive[e] <= review[e]

\* The two parts make the whole.
LEMMA ShownParts == ShownIsRecorded <=> \A e \in Engineer : Told(e) /\ Shows(e)
BY DEF ShownIsRecorded, Told, Shows

\* A page that keeps waiting, or stops, is told nothing new.
LEMMA ToldKept ==
  ASSUME NEW e \in Engineer, Told(e), UNCHANGED <<reviews, archives>>,
         waits'[e]["review"] = waits[e]["review"] \/ waits'[e]["review"].at # "answered",
         waits'[e]["archive"] = waits[e]["archive"] \/ waits'[e]["archive"].at # "answered"
  PROVE  Told(e)'
  <1>1. CASE waits'[e]["review"].at = "answered" /\ waits'[e]["archive"].at = "answered"
    <2>1. /\ waits'[e]["review"] = waits[e]["review"]
          /\ waits'[e]["archive"] = waits[e]["archive"]
      BY <1>1
    <2> QED BY <2>1 DEF Told
  <1>2. CASE waits'[e]["review"].at # "answered" /\ waits'[e]["archive"].at = "answered"
    <2>1. waits'[e]["archive"] = waits[e]["archive"]
      BY <1>2
    <2> QED BY <1>2, <2>1 DEF Told
  <1>3. CASE waits'[e]["review"].at = "answered" /\ waits'[e]["archive"].at # "answered"
    <2>1. waits'[e]["review"] = waits[e]["review"]
      BY <1>3
    <2> QED BY <1>3, <2>1 DEF Told
  <1>4. CASE waits'[e]["review"].at # "answered" /\ waits'[e]["archive"].at # "answered"
    BY <1>4 DEF Told
  <1> QED BY <1>1, <1>2, <1>3, <1>4

\* A page that stops waiting.
LEMMA SettleAt ==
  ASSUME TypeInv, NEW e \in Engineer, NEW k \in Kind, Settle(e, k)
  PROVE  \A f \in Engineer, j \in Kind :
           /\ f = e /\ j = k => waits'[f][j].at = "idle"
           /\ ~(f = e /\ j = k) => waits'[f][j] = waits[f][j]
  <1>1. \A f \in Engineer, j \in Kind :
          waits'[f][j] = IF f = e /\ j = k THEN NoWait ELSE waits[f][j]
    BY DEF Settle, TypeInv, TypeOK
  <1> QED BY <1>1 DEF NoWait

\* A click.
LEMMA PostRecords ==
  ASSUME TypeInv, RecordInv, NEW e \in Engineer, NEW m \in Request, m.by = e, Post(e, m),
         m.kind = "review" => \A n \in sent : n.key # m.key,
         m.kind = "archive" => m.revision = review[e]
  PROVE  RecordInv'
  <1>1. /\ UNCHANGED <<reviews, archives, review, archive, unseen>>
        /\ sent' = sent \cup {m} /\ waits[e][m.kind] = NoWait
    BY DEF Post, tables, cache
  <1>2. m.kind \in Kind /\ "review" \in Kind /\ "archive" \in Kind
    BY DEF Request, Kind
  <1>3. waits[e][m.kind].at = "idle"
    BY <1>1 DEF NoWait
  <1>4. \A f \in Engineer, j \in Kind :
          /\ f = e /\ j = m.kind => /\ waits'[f][j].at = "sent" /\ waits'[f][j].req = m
                                    /\ waits'[f][j].revision = 0
          /\ ~(f = e /\ j = m.kind) => waits'[f][j] = waits[f][j]
    BY <1>2 DEF Post, TypeInv, TypeOK
  <1>5. review[e] \in Nat
    BY DEF TypeInv, TypeOK
  <1>6. RowInv'
    BY <1>1 DEF RecordInv, RowInv
  <1>7. AskedInv'
    <2>1. m.kind = "review" => \A i \in DOMAIN reviews : reviews[i].key # m.key
      BY DEF RecordInv, RowInv
    <2> QED BY <1>1, <1>2, <1>4, <1>5, <2>1 DEF RecordInv, AskedInv
  <1>8. AccountInv'
    <2> SUFFICES ASSUME NEW n \in sent', n.kind = "review" PROVE Accounted(n)'
      BY DEF AccountInv
    <2>1. CASE n = m
      BY <1>2, <1>4, <2>1 DEF Accounted
    <2>2. CASE n # m
      <3>1. n \in sent /\ Accounted(n)
        BY <1>1, <2>2 DEF RecordInv, AccountInv
      <3>2. n.by \in Engineer
        BY <3>1 DEF TypeInv, TypeOK, Request
      <3> QED BY <1>1, <1>2, <1>3, <1>4, <3>1, <3>2 DEF Accounted
    <2> QED BY <2>1, <2>2
  <1>9. ShownIsRecorded'
    <2> SUFFICES ASSUME NEW f \in Engineer PROVE (Told(f) /\ Shows(f))'
      BY DEF ShownIsRecorded, Told, Shows
    <2>1. Told(f) /\ Shows(f)
      BY ShownParts DEF RecordInv
    <2>2. Told(f)'
      BY <1>1, <1>2, <1>4, <2>1, ToldKept
    <2> QED BY <1>1, <2>1, <2>2 DEF Shows
  <1>10. SavedIsNewest'
    BY <1>1, <1>2, <1>3, <1>4 DEF RecordInv, SavedIsNewest
  <1> QED BY <1>6, <1>7, <1>8, <1>9, <1>10 DEF RecordInv

\* A page gives up on an answer, or takes one that is an error.
LEMMA DropRecords ==
  ASSUME TypeInv, RecordInv, NEW e \in Engineer, NEW k \in Kind, Settle(e, k),
         UNCHANGED <<reviews, archives, sent, review, archive>>, unseen \subseteq unseen',
         k = "review" => waits[e][k].req.key \in unseen'
  PROVE  RecordInv'
  <1>1. "review" \in Kind /\ "archive" \in Kind
    BY DEF Kind
  <1>2. \A f \in Engineer, j \in Kind :
          /\ f = e /\ j = k => waits'[f][j].at = "idle"
          /\ ~(f = e /\ j = k) => waits'[f][j] = waits[f][j]
    BY SettleAt
  <1>3. RowInv' /\ AskedInv'
    BY <1>1, <1>2 DEF RecordInv, RowInv, AskedInv
  <1>4. ShownIsRecorded'
    <2> SUFFICES ASSUME NEW f \in Engineer PROVE (Told(f) /\ Shows(f))'
      BY DEF ShownIsRecorded, Told, Shows
    <2>1. Told(f) /\ Shows(f)
      BY ShownParts DEF RecordInv
    <2>2. Told(f)'
      BY <1>1, <1>2, <2>1, ToldKept
    <2> QED BY <2>1, <2>2 DEF Shows
  <1>5. AccountInv'
    <2> SUFFICES ASSUME NEW n \in sent, n.kind = "review" PROVE Accounted(n)'
      BY DEF AccountInv
    <2>1. Accounted(n) /\ n.by \in Engineer
      BY DEF RecordInv, AccountInv, TypeInv, TypeOK, Request
    <2> QED BY <1>1, <1>2, <2>1 DEF Accounted
  <1>6. SavedIsNewest'
    BY <1>1, <1>2 DEF RecordInv, SavedIsNewest
  <1> QED BY <1>3, <1>5, <1>6, <1>4 DEF RecordInv

\* A page takes the revision its review was given.
LEMMA TakeReviewRecords ==
  ASSUME TypeInv, RecordInv, NEW e \in Engineer, Settle(e, "review"),
         waits[e]["review"].at = "answered", waits[e]["review"].revision # 0,
         review' = [review EXCEPT ![e] = waits[e]["review"].revision],
         UNCHANGED <<reviews, archives, sent, archive, unseen>>
  PROVE  RecordInv'
  <1> DEFINE w == waits[e]["review"]
  <1>1. "review" \in Kind /\ "archive" \in Kind
    BY DEF Kind
  <1>2. \A f \in Engineer, j \in Kind :
          /\ f = e /\ j = "review" => waits'[f][j].at = "idle"
          /\ ~(f = e /\ j = "review") => waits'[f][j] = waits[f][j]
    BY <1>1, SettleAt
  <1>3. review'[e] = w.revision /\ \A f \in Engineer : f # e => review'[f] = review[f]
    BY DEF TypeInv, TypeOK
  <1>4. /\ w.revision \in DOMAIN reviews /\ reviews[w.revision].by = e
        /\ reviews[w.revision].key = w.req.key
    <2>1. Told(e)
      BY ShownParts DEF RecordInv
    <2>2. reviews[w.revision] = [key |-> w.req.key, by |-> e, content |-> w.req.content]
          /\ w.revision \in DOMAIN reviews
      BY <2>1 DEF Told
    <2> QED BY <2>2
  <1>5. review[e] \in Nat /\ archive[e] \in Nat /\ w.revision > review[e] /\ w.revision \in Nat
    <2>1. w \in Wait /\ review[e] \in Nat /\ archive[e] \in Nat
      BY <1>1 DEF TypeInv, TypeOK
    <2>2. w.revision > review[e]
      BY <1>1, <1>4 DEF RecordInv, AskedInv
    <2> QED BY <2>1, <2>2 DEF Wait
  <1>6. RowInv'
    BY DEF RecordInv, RowInv
  <1>7. AskedInv'
    <2>1. waits[e]["archive"].at # "idle" =>
            /\ waits[e]["archive"].req.revision \in Nat
            /\ waits[e]["archive"].req.revision <= review[e]
      BY <1>1, AwaitedKey DEF RecordInv, AskedInv, Request
    <2> QED BY <1>1, <1>2, <1>3, <1>5, <2>1 DEF RecordInv, AskedInv
  <1>8. AccountInv'
    <2> SUFFICES ASSUME NEW n \in sent, n.kind = "review" PROVE Accounted(n)'
      BY DEF AccountInv
    <2>1. Accounted(n) /\ n.by \in Engineer
      BY DEF RecordInv, AccountInv, TypeInv, TypeOK, Request
    <2>2. CASE n.by # e
      BY <1>1, <1>2, <1>3, <2>1, <2>2 DEF Accounted
    <2>3. CASE n.by = e
      <3>1. DOMAIN reviews \subseteq Nat
        BY LenProperties DEF TypeInv, TypeOK
      <3> QED BY <1>3, <1>4, <1>5, <2>1, <2>3, <3>1 DEF Accounted
    <2> QED BY <2>2, <2>3
  <1>9. ShownIsRecorded'
    <2> SUFFICES ASSUME NEW f \in Engineer PROVE (Told(f) /\ Shows(f))'
      BY DEF ShownIsRecorded, Told, Shows
    <2>1. Told(f) /\ Shows(f)
      BY ShownParts DEF RecordInv
    <2>2. Told(f)'
      BY <1>1, <1>2, <2>1, ToldKept
    <2>3. CASE f # e
      BY <1>3, <2>1, <2>2, <2>3 DEF Shows
    <2>4. CASE f = e
      BY <1>3, <1>4, <1>5, <2>1, <2>2, <2>4 DEF Shows
    <2> QED BY <2>3, <2>4
  <1>10. SavedIsNewest'
    <2> SUFFICES ASSUME NEW f \in Engineer, NEW i \in DOMAIN reviews,
                        reviews[i].by = f, i > review'[f]
                 PROVE  \/ reviews[i].key \in unseen
                        \/ /\ waits'[f]["review"].at # "idle"
                           /\ reviews[i].key = waits'[f]["review"].req.key
      BY DEF SavedIsNewest
    <2>1. CASE f # e
      BY <1>1, <1>2, <1>3, <2>1 DEF RecordInv, SavedIsNewest
    <2>2. CASE f = e
      <3>1. i \in Nat
        BY LenProperties DEF TypeInv, TypeOK
      <3>2. i > review[e] /\ i # w.revision
        BY <1>3, <1>5, <2>2, <3>1
      <3>3. reviews[i].key # w.req.key
        BY <1>4, <3>2 DEF RecordInv, RowInv
      <3> QED BY <2>2, <3>2, <3>3 DEF RecordInv, SavedIsNewest
    <2> QED BY <2>1, <2>2
  <1> QED BY <1>6, <1>7, <1>8, <1>9, <1>10 DEF RecordInv

\* A page takes the revision that was archived.
LEMMA TakeArchiveRecords ==
  ASSUME TypeInv, RecordInv, NEW e \in Engineer, Settle(e, "archive"),
         waits[e]["archive"].at = "answered", waits[e]["archive"].revision # 0,
         archive' = [archive EXCEPT ![e] = waits[e]["archive"].revision],
         UNCHANGED <<reviews, archives, sent, review, unseen>>
  PROVE  RecordInv'
  <1> DEFINE w == waits[e]["archive"]
  <1>1. "review" \in Kind /\ "archive" \in Kind
    BY DEF Kind
  <1>2. \A f \in Engineer, j \in Kind :
          /\ f = e /\ j = "archive" => waits'[f][j].at = "idle"
          /\ ~(f = e /\ j = "archive") => waits'[f][j] = waits[f][j]
    BY <1>1, SettleAt
  <1>3. archive'[e] = w.revision /\ \A f \in Engineer : f # e => archive'[f] = archive[f]
    BY DEF TypeInv, TypeOK
  <1>4. [key |-> w.req.key, revision |-> w.revision] \in archives
    BY DEF RecordInv, ShownIsRecorded
  <1>5. w.revision <= review[e]
    BY <1>1 DEF RecordInv, AskedInv
  <1>6. RowInv' /\ AskedInv' /\ SavedIsNewest'
    BY <1>1, <1>2 DEF RecordInv, RowInv, AskedInv, SavedIsNewest
  <1>7. AccountInv'
    <2> SUFFICES ASSUME NEW n \in sent, n.kind = "review" PROVE Accounted(n)'
      BY DEF AccountInv
    <2>1. Accounted(n) /\ n.by \in Engineer
      BY DEF RecordInv, AccountInv, TypeInv, TypeOK, Request
    <2> QED BY <1>1, <1>2, <2>1 DEF Accounted
  <1>8. ShownIsRecorded'
    <2> SUFFICES ASSUME NEW f \in Engineer PROVE (Told(f) /\ Shows(f))'
      BY DEF ShownIsRecorded, Told, Shows
    <2>1. Told(f) /\ Shows(f)
      BY ShownParts DEF RecordInv
    <2>2. Told(f)'
      BY <1>1, <1>2, <2>1, ToldKept
    <2>3. CASE f # e
      BY <1>3, <2>1, <2>2, <2>3 DEF Shows
    <2>4. CASE f = e
      BY <1>3, <1>4, <1>5, <2>1, <2>2, <2>4 DEF Shows
    <2> QED BY <2>3, <2>4
  <1> QED BY <1>6, <1>7, <1>8 DEF RecordInv

\* A page that is reloaded waits for nothing and shows nothing.
LEMMA ReloadRecords ==
  ASSUME TypeInv, RecordInv, NEW e \in Engineer, Reload(e)
  PROVE  RecordInv'
  <1>1. "review" \in Kind /\ "archive" \in Kind
    BY DEF Kind
  <1>2. \A f \in Engineer, j \in Kind :
          /\ f = e => waits'[f][j].at = "idle"
          /\ f # e => waits'[f][j] = waits[f][j]
    <2>1. \A f \in Engineer, j \in Kind :
            waits'[f][j] = IF f = e THEN NoWait ELSE waits[f][j]
      BY DEF Reload, TypeInv, TypeOK
    <2> QED BY <2>1 DEF NoWait
  <1>3. /\ UNCHANGED <<reviews, archives, sent>> /\ unseen \subseteq unseen'
        /\ \A m \in sent : m.by = e => m.key \in unseen'
    BY DEF Reload, tables
  <1>4. /\ review'[e] = 0 /\ archive'[e] = 0
        /\ \A f \in Engineer : f # e => review'[f] = review[f] /\ archive'[f] = archive[f]
    BY DEF Reload, TypeInv, TypeOK
  <1>5. RowInv' /\ AskedInv' /\ ShownIsRecorded'
    BY <1>1, <1>2, <1>3, <1>4 DEF RecordInv, RowInv, AskedInv, ShownIsRecorded
  <1>6. AccountInv'
    <2> SUFFICES ASSUME NEW n \in sent, n.kind = "review" PROVE Accounted(n)'
      BY <1>3 DEF AccountInv
    <2>1. Accounted(n) /\ n.by \in Engineer
      BY DEF RecordInv, AccountInv, TypeInv, TypeOK, Request
    <2> QED BY <1>1, <1>2, <1>3, <1>4, <2>1 DEF Accounted
  <1>7. SavedIsNewest'
    <2>1. \A i \in DOMAIN reviews : reviews[i].by = e => reviews[i].key \in unseen'
      BY <1>3 DEF RecordInv, RowInv
    <2> QED BY <1>1, <1>2, <1>3, <1>4, <2>1 DEF RecordInv, SavedIsNewest
  <1> QED BY <1>5, <1>6, <1>7 DEF RecordInv

\* A caller that repeats a key.
LEMMA ReuseRecords ==
  ASSUME TypeInv, RecordInv, Reuse
  PROVE  RecordInv'
  <1>1. UNCHANGED <<reviews, archives, review, archive, waits>>
    BY DEF Reuse, tables, cache
  <1>2. PICK m \in sent, e \in Engineer :
          IF m.kind = "review"
          THEN /\ \E c \in Contents :
                    sent' = sent \cup {[m EXCEPT !.by = e, !.content = c]}
               /\ unseen' = unseen \cup {m.key}
          ELSE /\ \E i \in 1..(Len(reviews) + 1) :
                    sent' = sent \cup {[m EXCEPT !.revision = i]}
               /\ UNCHANGED unseen
    BY DEF Reuse
  <1>3. m \in Request
    BY DEF TypeInv, TypeOK
  <1>4. /\ sent \subseteq sent' /\ unseen \subseteq unseen'
        /\ \A n \in sent' : n.kind = "review" => n \in sent \/ n.key \in unseen'
    <2>1. CASE m.kind = "review"
      <3>1. PICK c \in Contents :
              sent' = sent \cup {[m EXCEPT !.by = e, !.content = c]}
        BY <1>2, <2>1
      <3>2. [m EXCEPT !.by = e, !.content = c].key = m.key
        BY <1>3 DEF Request
      <3> QED BY <1>2, <2>1, <3>1, <3>2
    <2>2. CASE m.kind # "review"
      <3>1. PICK i \in 1..(Len(reviews) + 1) : sent' = sent \cup {[m EXCEPT !.revision = i]}
        BY <1>2, <2>2
      <3>2. [m EXCEPT !.revision = i].kind # "review"
        BY <1>3, <2>2 DEF Request
      <3> QED BY <1>2, <2>2, <3>1, <3>2
    <2> QED BY <2>1, <2>2
  <1>5. RowInv' /\ AskedInv' /\ ShownIsRecorded' /\ SavedIsNewest'
    BY <1>1, <1>4 DEF RecordInv, RowInv, AskedInv, ShownIsRecorded, SavedIsNewest
  <1>6. AccountInv'
    BY <1>1, <1>4 DEF RecordInv, AccountInv, Accounted
  <1> QED BY <1>5, <1>6 DEF RecordInv

\* Every step keeps the requests accounted for and the pages true.
LEMMA RecordStep ==
  ASSUME TypeInv, SlotInv, RecordInv, [Next]_vars
  PROVE  RecordInv'
  <1>1. ASSUME NEW e \in Engineer, SubmitReview(e) PROVE RecordInv'
    <2>1. PICK c \in Contents :
            Post(e, [kind |-> "review", by |-> e, key |-> DrawnKey, content |-> c,
                     revision |-> 0])
      BY <1>1 DEF SubmitReview
    <2>2. DrawnKey \in Key /\ \A n \in sent : n.key # DrawnKey
      BY <1>1, DrawnIsFresh DEF SubmitReview
    <2> DEFINE m == [kind |-> "review", by |-> e, key |-> DrawnKey, content |-> c,
                     revision |-> 0]
    <2>3. m \in Request
      BY <2>2 DEF Request
    <2>4. m.by = e /\ m.kind = "review" /\ m.key = DrawnKey
      OBVIOUS
    <2> HIDE DEF m
    <2>5. Post(e, m)
      BY <2>1 DEF m
    <2> QED BY <2>2, <2>3, <2>4, <2>5, PostRecords
  <1>2. ASSUME NEW e \in Engineer, ArchiveCaseBook(e) PROVE RecordInv'
    <2> DEFINE m == [kind |-> "archive", by |-> e, key |-> DrawnKey,
                     content |-> NoContent, revision |-> review[e]]
    <2>1. DrawnKey \in Key
      BY <1>2, DrawnIsFresh DEF ArchiveCaseBook
    <2>2. m \in Request
      BY <1>2, <2>1 DEF Request, ArchiveCaseBook, TypeInv, TypeOK
    <2>3. m.by = e /\ m.kind = "archive" /\ m.revision = review[e]
      OBVIOUS
    <2>4. Post(e, m)
      BY <1>2 DEF ArchiveCaseBook
    <2> HIDE DEF m
    <2> QED BY <2>2, <2>3, <2>4, PostRecords
  <1>3. ASSUME NEW e \in Engineer, TakeReview(e) PROVE RecordInv'
    <2>1. /\ waits[e]["review"].at = "answered" /\ Settle(e, "review")
          /\ UNCHANGED <<reviews, archives, sent, archive>>
          /\ \/ /\ waits[e]["review"].revision # 0
                /\ review' = [review EXCEPT ![e] = waits[e]["review"].revision]
                /\ UNCHANGED unseen
             \/ /\ unseen' = unseen \cup {waits[e]["review"].req.key}
                /\ UNCHANGED review
      BY <1>3, Zenon DEF TakeReview, tables
    <2> QED BY <2>1, DropRecords, TakeReviewRecords DEF Kind
  <1>4. ASSUME NEW e \in Engineer, TakeArchive(e) PROVE RecordInv'
    <2>1. /\ waits[e]["archive"].at = "answered" /\ Settle(e, "archive")
          /\ UNCHANGED <<reviews, archives, sent, review, unseen>>
          /\ archive' = [archive EXCEPT ![e] =
                           IF shown[e] /\ waits[e]["archive"].revision # 0
                           THEN waits[e]["archive"].revision ELSE @]
      BY <1>4, Zenon DEF TakeArchive, tables
    <2>2. CASE shown[e] /\ waits[e]["archive"].revision # 0
      <3>1. archive' = [archive EXCEPT ![e] = waits[e]["archive"].revision]
        BY <2>1, <2>2
      <3> QED BY <2>1, <2>2, <3>1, TakeArchiveRecords
    <2>3. CASE ~(shown[e] /\ waits[e]["archive"].revision # 0)
      <3>1. archive' = archive
        BY <2>1, <2>3 DEF TypeInv, TypeOK
      <3> QED BY <2>1, <3>1, DropRecords DEF Kind
    <2> QED BY <2>2, <2>3
  <1>5. ASSUME NEW e \in Engineer, NEW k \in Kind, Lose(e, k) PROVE RecordInv'
    <2>1. /\ Settle(e, k) /\ UNCHANGED <<reviews, archives, sent, review, archive>>
          /\ unseen' = IF k = "review" THEN unseen \cup {waits[e][k].req.key} ELSE unseen
      BY <1>5 DEF Lose, tables, cache
    <2> QED BY <2>1, DropRecords
  <1>6. ASSUME NEW e \in Engineer, Leave(e) \/ Return(e) PROVE RecordInv'
    BY <1>6 DEF Leave, Return, tables, RecordInv, RowInv, AskedInv, AccountInv,
                Accounted, ShownIsRecorded, SavedIsNewest
  <1>7. ASSUME NEW e \in Engineer, Reload(e) PROVE RecordInv'
    BY <1>7, ReloadRecords
  <1>8. CASE Reuse
    BY <1>8, ReuseRecords
  <1>9. ASSUME NEW s \in Slot, NEW st, Goto(s, st) PROVE RecordInv'
    BY <1>9, RecordsKept DEF Goto, tables
  <1>10. ASSUME NEW s \in Slot, Begin(s) \/ Number(s) \/ Abort(s) PROVE RecordInv'
    BY <1>9, <1>10, RecordsKept DEF Begin, Number, Abort, Crash, Finish, tables
  <1>11. ASSUME NEW s \in Slot, Refuse(s), pc[s] # "idle" PROVE RecordInv'
    BY <1>11, ReplyRecords DEF Refuse
  <1>12. ASSUME NEW s \in Slot, Lock(s) PROVE RecordInv'
    BY <1>9, <1>11, <1>12 DEF Lock
  <1>13. ASSUME NEW s \in Slot, FindReview(s) PROVE RecordInv'
    <2>1. serving[s].kind = "review" /\ pc[s] # "idle"
      BY <1>13 DEF FindReview, TypeInv, OrderInv
    <2>2. ASSUME NEW i \in Ledger!Recorded(serving[s].key),
                 Reply(s, IF Matches(reviews[i], serving[s]) THEN i ELSE 0),
                 UNCHANGED <<reviews, archives>>
          PROVE  RecordInv'
      <3>1. i \in Nat /\ i \in DOMAIN reviews /\ reviews[i].key = serving[s].key
            /\ reviews[i] \in Ledger!Row
        BY LenProperties, ElementOfSeq DEF Ledger!Recorded, TypeInv, TypeOK
      <3>2. CASE Matches(reviews[i], serving[s])
        <4>1. reviews[i] = [key |-> serving[s].key, by |-> serving[s].by,
                            content |-> serving[s].content]
          BY <3>1, <3>2 DEF Matches, Ledger!Row
        <4> QED BY <2>1, <2>2, <3>1, <3>2, <4>1, ReplyRecords
      <3>3. CASE ~Matches(reviews[i], serving[s])
        BY <2>1, <2>2, <3>3, ReplyRecords
      <3> QED BY <3>2, <3>3
    <2> QED BY <1>9, <1>11, <1>13, <2>1, <2>2 DEF FindReview
  <1>14. ASSUME NEW s \in Slot, FindRevision(s) PROVE RecordInv'
    BY <1>9, <1>11, <1>14 DEF FindRevision
  <1>15. ASSUME NEW s \in Slot, FindArchive(s) PROVE RecordInv'
    <2>1. serving[s].kind = "archive" /\ pc[s] # "idle" /\ serving[s] \in Request
      BY <1>15 DEF FindArchive, TypeInv, TypeOK, OrderInv
    <2>2. ASSUME NEW a \in Ledger!Archived(serving[s].key),
                 Reply(s, IF a.revision = serving[s].revision
                          THEN serving[s].revision ELSE 0),
                 UNCHANGED <<reviews, archives>>
          PROVE  RecordInv'
      <3>1. a \in archives /\ a.key = serving[s].key /\ a \in Ledger!Archive
        BY DEF Ledger!Archived, TypeInv, TypeOK
      <3>2. serving[s].revision \in Nat
        BY <2>1 DEF Request
      <3>3. CASE a.revision = serving[s].revision
        <4>1. a = [key |-> serving[s].key, revision |-> serving[s].revision]
          BY <3>1, <3>3 DEF Ledger!Archive
        <4> QED BY <2>1, <2>2, <3>1, <3>2, <3>3, <4>1, ReplyRecords
      <3>4. CASE a.revision # serving[s].revision
        BY <2>1, <2>2, <3>4, ReplyRecords
      <3> QED BY <3>3, <3>4
    <2> QED BY <1>9, <1>15, <2>2 DEF FindArchive
  <1>16. ASSUME NEW s \in Slot, Insert(s) PROVE RecordInv'
    <2>1. pc[s] # "idle" /\ serving[s] \in Request
      BY <1>16 DEF Insert, TypeInv, TypeOK, OrderInv
    <2>2. CASE /\ serving[s].kind = "review"
               /\ Ledger!Recorded(serving[s].key) = {}
               /\ reviews' = Append(reviews, [key |-> serving[s].key, by |-> serving[s].by,
                                              content |-> serving[s].content])
               /\ archives' = archives
               /\ Reply(s, Len(reviews) + 1)
      <3>1. reviews \in Seq(Ledger!Row) /\ [key |-> serving[s].key, by |-> serving[s].by,
                                            content |-> serving[s].content] \in Ledger!Row
        BY <2>1, <2>2, InsertTyped DEF TypeInv, TypeOK
      <3>2. /\ Len(reviews) + 1 \in DOMAIN reviews' /\ Len(reviews) + 1 \in Nat
            /\ reviews'[Len(reviews) + 1] = [key |-> serving[s].key, by |-> serving[s].by,
                                             content |-> serving[s].content]
        BY <2>2, <3>1, AppendGrows
      <3> QED BY <2>1, <2>2, <3>2, ReplyRecords
    <2>3. CASE /\ serving[s].kind = "archive"
               /\ archives' = archives \cup {[key |-> serving[s].key,
                                              revision |-> serving[s].revision]}
               /\ reviews' = reviews
               /\ Reply(s, serving[s].revision)
      <3>1. serving[s].revision \in Nat
        BY <2>1 DEF Request
      <3> QED BY <2>1, <2>3, <3>1, ReplyRecords
    <2> QED BY <1>16, <2>2, <2>3, InsertRows
  <1>17. CASE UNCHANGED vars
    BY <1>17, RecordsKept DEF vars, tables
  <1> QED
    BY <1>1, <1>2, <1>3, <1>4, <1>5, <1>6, <1>7, <1>8, <1>10, <1>12, <1>13, <1>14,
       <1>15, <1>16, <1>17 DEF Next, Advance

\* The invariant of the whole.
ReviewInv == TypeInv /\ SlotInv /\ RecordInv

\* It holds in every state.
LEMMA ReviewInvariant == Spec => []ReviewInv
  <1>1. Init => ReviewInv
    <2> SUFFICES ASSUME Init PROVE ReviewInv
      OBVIOUS
    <2>1. TypeInv /\ SlotInv
      BY InitTypeInv DEF Init, SlotInv, ReadStands
    <2>2. RecordInv
      BY DEF Init, RecordInv, RowInv, AskedInv, AccountInv, ShownIsRecorded,
             SavedIsNewest, NoWait, Kind
    <2> QED BY <2>1, <2>2 DEF ReviewInv
  <1>2. ReviewInv /\ [Next]_vars => ReviewInv'
    BY TypeStep, SlotStep, RecordStep DEF ReviewInv
  <1> QED BY <1>1, <1>2, PTL DEF Spec

\* ShownIsRecorded: pages are told, and show, what was recorded for them.
THEOREM ShownRecorded == Spec => []ShownIsRecorded
  <1>1. ReviewInv => ShownIsRecorded
    BY DEF ReviewInv, RecordInv
  <1> QED BY <1>1, ReviewInvariant, PTL

\* SavedIsNewest: only a review whose answer was given up on, or is awaited, is
\* later than the one its engineer looks at.
THEOREM NewestShown == Spec => []SavedIsNewest
  <1>1. ReviewInv => SavedIsNewest
    BY DEF ReviewInv, RecordInv
  <1> QED BY <1>1, ReviewInvariant, PTL

=============================================================================
