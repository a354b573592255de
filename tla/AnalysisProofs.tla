--------------------------- MODULE AnalysisProofs ---------------------------
(***************************************************************************)
(* What an analysis collects and what its published report rests on, for   *)
(* every platform, model, release and number of crashes.                   *)
(***************************************************************************)
EXTENDS Analysis, ReportRulesProofs

\* The results in list are those of the first calls of the plan, as they were
\* answered or as they were loaded again.
Follows(list) ==
  /\ list \in Seq(ToolResult)
  /\ Len(list) <= Len(Plan)
  /\ \A i \in DOMAIN list :
       /\ list[i].tool = Plan[i]
       /\ \E r \in Answers[Plan[i]] : list[i] \in {r, Reloaded(r)}

\* What was collected follows the plan, and what is in flight are calls of the
\* batch.
CollectionInv ==
  /\ Follows(results) /\ Follows(collected.results)
  /\ \A t \in DOMAIN answered : t \in ToSet(Batch) /\ answered[t] \in Answers[t]
  /\ pc \in {"down", "resume"} => answered = <<>>

\* The other locals have their types.
ControlInv ==
  /\ pc \in Stage
  /\ granted \in Grants /\ links \in Links
  /\ IsDecision(decision) /\ IsDecision(decided)
  /\ attempt \in 0..MaxAttempts
  /\ questions \in Questions
  /\ collected.saved \in BOOLEAN
  /\ crashes \in 0..MaxCrashes

\* The statements at which a composed report is in hand.
Late == {"explain", "finalize", "done"}

\* A report is the publication of the results and the decision its worker
\* still has.
FromInput ==
  outcome.report # NoReport => pc \in Late /\ IsPublication(outcome, ReportInput)

\* Once the results were saved, or were loaded, they have the saved evidence.
FromCheckpoint ==
  /\ pc \in {"context", "collect", "saveCollected"} => ~ collected.saved
  /\ pc \in {"decide", "ask", "saveDecided", "compose"} /\ collected.saved =>
       AllEvidence(results) = AllEvidence(collected.results)
  /\ outcome.report # NoReport /\ collected.saved =>
       AllEvidence(results) = AllEvidence(collected.results)

GroundInv == FromInput /\ FromCheckpoint

\* A task has a report only if it ended well, and never fails over a fault of
\* the draft.
OutcomeInv ==
  /\ outcome.status \in {"CREATED", "COMPLETED", "PARTIAL_RESULT", "FAILED", "TIMEOUT"}
  /\ outcome.report # NoReport => outcome.status \in {"COMPLETED", "PARTIAL_RESULT"}
  /\ outcome.errors \cap DraftError = {}

-----------------------------------------------------------------------------
(* Collecting *)

\* The calls of the plan are tools of the workflow, each once, that the
\* permissions and the case allow.
LEMMA PlanType ==
  /\ Plan \in Seq(Tool) /\ Len(Plan) \in Nat /\ DOMAIN Plan = 1..Len(Plan)
  /\ \A i, j \in DOMAIN Plan : Plan[i] = Plan[j] => i = j
  /\ \A i \in DOMAIN Plan : /\ Permission[Plan[i]] \in granted
                            /\ Needs[Plan[i]] \subseteq links
<1> DEFINE I == {i \in DOMAIN ToolOrder :
                   /\ Permission[ToolOrder[i]] \in granted
                   /\ Needs[ToolOrder[i]] \subseteq links}
<1>1. Plan = Keep(ToolOrder, I)
  BY DEF Plan
<1>2. I \in SUBSET (DOMAIN ToolOrder)
  OBVIOUS
<1>3. \A k \in I : /\ Permission[ToolOrder[k]] \in granted
                   /\ Needs[ToolOrder[k]] \subseteq links
  OBVIOUS
<1> HIDE DEF I
<1>4. ToolOrder \in Seq(Tool)
  BY DEF ToolOrder, Tool, ToSet
<1>5. DOMAIN ToolOrder = 1..6
  BY DEF ToolOrder
<1>6. \A i, j \in 1..6 : ToolOrder[i] = ToolOrder[j] => i = j
  BY DEF ToolOrder
<1>7. /\ Plan \in Seq(Tool)
      /\ \E from \in [DOMAIN Plan -> I] :
           /\ \A m, n \in DOMAIN Plan : m < n => from[m] < from[n]
           /\ \A n \in DOMAIN Plan : Plan[n] = ToolOrder[from[n]]
  BY <1>1, <1>2, <1>4, KeepList, SMTT(30)
<1>8. Len(Plan) \in Nat /\ DOMAIN Plan = 1..Len(Plan)
  BY <1>7, LenProperties
<1>9. \A i, j \in DOMAIN Plan : Plan[i] = Plan[j] => i = j
  <2> SUFFICES ASSUME NEW i \in DOMAIN Plan, NEW j \in DOMAIN Plan, i < j
               PROVE  Plan[i] # Plan[j]
    BY <1>8
  <2>1. PICK from \in [DOMAIN Plan -> I] :
           /\ \A m, n \in DOMAIN Plan : m < n => from[m] < from[n]
           /\ \A n \in DOMAIN Plan : Plan[n] = ToolOrder[from[n]]
    BY <1>7
  <2>2. from[i] \in 1..6 /\ from[j] \in 1..6 /\ from[i] < from[j]
    BY <2>1, <1>2, <1>5
  <2> QED BY <2>1, <2>2, <1>6
<1>10. \A i \in DOMAIN Plan : /\ Permission[Plan[i]] \in granted
                             /\ Needs[Plan[i]] \subseteq links
  BY <1>7, <1>3
<1> QED BY <1>7, <1>8, <1>9, <1>10

\* What a tool answers, and what is loaded of it again, is a result of it.
LEMMA AnswerType ==
  ASSUME NEW t \in Tool, NEW r \in Answers[t]
  PROVE  /\ r \in ToolResult /\ r.tool = t
         /\ Reloaded(r) \in ToolResult /\ Reloaded(r).tool = t
         /\ Reloaded(Reloaded(r)) = Reloaded(r)
<1>1. r \in ToolResult /\ r.tool = t
  BY AnswersAssumption
<1>2. Reloaded(r) \in ToolResult /\ Reloaded(r).tool = t
  BY <1>1 DEF Reloaded, ToolResult, DataType
<1>3. Reloaded(Reloaded(r)) = Reloaded(r)
  BY <1>1 DEF Reloaded, ToolResult, DataType
<1> QED BY <1>1, <1>2, <1>3

\* No answers follow the plan.
LEMMA EmptyFollows == Follows(<<>>)
BY PlanType, EmptySeq DEF Follows

\* Loading a checkpoint again keeps it as long and in the same order.
LEMMA ReloadedFollows ==
  ASSUME NEW list, Follows(list)
  PROVE  Follows([i \in DOMAIN list |-> Reloaded(list[i])])
<1> DEFINE new == [i \in DOMAIN list |-> Reloaded(list[i])]
<1>1. /\ DOMAIN list = 1..Len(list) /\ Len(list) \in Nat /\ Len(list) <= Len(Plan)
      /\ \A i \in DOMAIN list : i \in DOMAIN Plan /\ Plan[i] \in Tool
  <2>1. DOMAIN list = 1..Len(list) /\ Len(list) \in Nat /\ Len(list) <= Len(Plan)
    BY LenProperties DEF Follows
  <2>2. \A i \in DOMAIN list : i \in DOMAIN Plan
    BY <2>1, PlanType
  <2>3. \A i \in DOMAIN Plan : Plan[i] \in Tool
    BY PlanType, ElementOfSeq
  <2> QED BY <2>1, <2>2, <2>3
<1>2. ASSUME NEW i \in DOMAIN list
      PROVE  /\ Reloaded(list[i]) \in ToolResult /\ Reloaded(list[i]).tool = Plan[i]
             /\ \E r \in Answers[Plan[i]] : Reloaded(list[i]) \in {r, Reloaded(r)}
  <2>1. PICK r \in Answers[Plan[i]] : list[i] \in {r, Reloaded(r)}
    BY DEF Follows
  <2>2. Reloaded(list[i]) = Reloaded(r)
    BY <1>1, <2>1, AnswerType
  <2> QED BY <1>1, <2>2, AnswerType
<1>3. new \in [1..Len(list) -> ToolResult]
  BY <1>1, <1>2
<1>4. new \in Seq(ToolResult) /\ Len(new) = Len(list) /\ DOMAIN new = DOMAIN list
  BY <1>1, <1>3, SeqDef, LenProperties
<1>5. \A i \in DOMAIN list : new[i] = Reloaded(list[i])
  OBVIOUS
<1> HIDE DEF new
<1>6. Follows(new)
  BY <1>1, <1>2, <1>4, <1>5 DEF Follows
<1> QED BY <1>6 DEF new

\* The batch is the next part of the plan.
LEMMA BatchType ==
  ASSUME Follows(results)
  PROVE  /\ Batch \in Seq(Tool) /\ DOMAIN Batch = 1..Len(Batch) /\ Len(Batch) \in Nat
         /\ Len(results) + Len(Batch) <= Len(Plan)
         /\ \A i \in DOMAIN Batch : Batch[i] = Plan[Len(results) + i]
<1> DEFINE done == Len(results)
           last == IF done + 3 < Len(Plan) THEN done + 3 ELSE Len(Plan)
<1>1. done \in Nat /\ done <= Len(Plan)
  BY LenProperties DEF Follows
<1>2. last \in Nat /\ done <= last /\ last <= Len(Plan)
  BY <1>1, PlanType
<1>3. Batch = SubSeq(Plan, done + 1, last)
  BY DEF Batch
<1> HIDE DEF done, last
<1>4. \A i \in done + 1 .. last : Plan[i] \in Tool
  BY <1>1, <1>2, PlanType, ElementOfSeq
<1>5. /\ Batch \in Seq(Tool)
      /\ Len(Batch) = IF done + 1 <= last THEN last - (done + 1) + 1 ELSE 0
      /\ \A i \in 1..(last - (done + 1) + 1) : Batch[i] = Plan[done + 1 + i - 1]
  BY <1>1, <1>2, <1>3, <1>4, SubSeqProperties
<1>6. Len(Batch) = last - done
  BY <1>1, <1>2, <1>5
<1>7. DOMAIN Batch = 1..Len(Batch)
  BY <1>5, LenProperties
<1>8. \A i \in DOMAIN Batch : Batch[i] = Plan[done + i]
  BY <1>1, <1>2, <1>5, <1>6, <1>7
<1> QED BY <1>1, <1>2, <1>5, <1>6, <1>7, <1>8 DEF done

\* A batch that was answered continues the plan where the results end.
LEMMA GatheredFollows ==
  ASSUME Follows(results), DOMAIN answered = ToSet(Batch),
         \A t \in DOMAIN answered : answered[t] \in Answers[t]
  PROVE  Follows(results \o [i \in DOMAIN Batch |-> answered[Batch[i]]])
<1> DEFINE done == Len(results)
           n    == Len(Batch)
           more == [i \in DOMAIN Batch |-> answered[Batch[i]]]
           new  == results \o more
<1>1. /\ Batch \in Seq(Tool) /\ DOMAIN Batch = 1..n /\ n \in Nat
      /\ done + n <= Len(Plan)
      /\ \A i \in 1..n : Batch[i] = Plan[done + i]
  BY BatchType
<1>2. /\ results \in Seq(ToolResult) /\ done \in Nat /\ DOMAIN results = 1..done
  BY LenProperties DEF Follows
<1>3. \A i \in 1..n : /\ Batch[i] \in Tool
                      /\ answered[Batch[i]] \in Answers[Batch[i]]
  BY <1>1, ElementOfSeq DEF ToSet
<1>4. \A i \in 1..n : /\ more[i] \in ToolResult /\ more[i].tool = Batch[i]
                      /\ more[i] \in Answers[Batch[i]]
  BY <1>1, <1>3, AnswerType
<1>5. more \in [1..n -> ToolResult]
  BY <1>1, <1>4
<1>6. more \in Seq(ToolResult) /\ Len(more) = n
  BY <1>1, <1>5, SeqDef, LenProperties
<1> HIDE DEF done, n, more
<1>7. /\ new \in Seq(ToolResult) /\ Len(new) = done + n
      /\ \A i \in 1..done + n : new[i] = IF i <= done THEN results[i] ELSE more[i - done]
  <2>1. /\ new \in Seq(ToolResult) /\ Len(new) = Len(results) + Len(more)
        /\ \A i \in 1..Len(results) + Len(more) :
             new[i] = IF i <= Len(results) THEN results[i] ELSE more[i - Len(results)]
    BY <1>2, <1>6, ConcatProperties
  <2> QED BY <2>1, <1>6 DEF done
<1>8. DOMAIN new = 1..done + n
  BY <1>7, LenProperties
<1>9. ASSUME NEW i \in 1..done + n
      PROVE  /\ new[i].tool = Plan[i]
             /\ \E r \in Answers[Plan[i]] : new[i] \in {r, Reloaded(r)}
  <2>1. CASE i <= done
    <3>1. i \in DOMAIN results /\ new[i] = results[i]
      BY <1>1, <1>2, <1>7, <2>1
    <3> QED BY <3>1 DEF Follows
  <2>2. CASE ~ i <= done
    <3> DEFINE j == i - done
    <3>1. j \in 1..n /\ i = done + j
      BY <1>1, <1>2, <2>2
    <3>2. new[i] = more[j]
      BY <1>7, <2>2
    <3>3. Plan[i] = Batch[j]
      BY <1>1, <3>1
    <3> HIDE DEF j
    <3> QED BY <1>4, <3>1, <3>2, <3>3
  <2> QED BY <2>1, <2>2
<1> HIDE DEF new
<1>10. Follows(new)
  BY <1>1, <1>7, <1>8, <1>9 DEF Follows
<1> QED BY <1>10 DEF new, more
-----------------------------------------------------------------------------
(* The steps *)

\* A worker has collected nothing at first.
LEMMA InitCollection == Init => CollectionInv
<1> SUFFICES ASSUME Init PROVE CollectionInv
  OBVIOUS
<1>1. results = <<>> /\ collected.results = <<>> /\ answered = <<>> /\ pc = "context"
  BY DEF Init, NoCollected
<1> QED BY <1>1, EmptyFollows DEF CollectionInv

\* The plan is fixed by the task and the case.
LEMMA SamePlan ==
  ASSUME UNCHANGED input
  PROVE  Plan' = Plan /\ \A list : Follows(list)' <=> Follows(list)
BY DEF input, Plan, Follows

\* The steps that leave what is collected alone, and in flight.
LEMMA CollectionQuiet ==
  ASSUME CollectionInv, UNCHANGED <<input, results, answered, collected>>,
         pc' \in {"down", "resume"} => pc \in {"down", "resume"}
  PROVE  CollectionInv'
<1>1. Plan' = Plan /\ Batch' = Batch
  BY SamePlan DEF Batch
<1>2. Follows(results)' /\ Follows(collected.results)'
  BY <1>1 DEF CollectionInv, Follows
<1> QED BY <1>1, <1>2 DEF CollectionInv

\* Every step keeps what is collected, and what is saved of it, on the plan.
LEMMA CollectionStep == CollectionInv /\ [Next]_vars => CollectionInv'
<1> SUFFICES ASSUME CollectionInv, [Next]_vars PROVE CollectionInv'
  OBVIOUS
<1> USE DEF local, saved
<1>1. Follows(results) /\ Follows(collected.results)
  BY DEF CollectionInv
<1>2. ASSUME LoadContext \/ Collected \/ Reuse \/ Ask \/ NothingToAsk \/ Retry
             \/ SaveDecided \/ ComposeReport \/ ExplainerFails \/ Finalize
             \/ (\E score \in Scores : Judged(score))
             \/ (\E text \in {"prose", "claim"} : Explained(text))
      PROVE  CollectionInv'
  BY <1>2, CollectionQuiet DEF LoadContext, Collected, Reuse, Ask, NothingToAsk,
     Retry, SaveDecided, ComposeReport, ExplainerFails, Finalize, Judged,
     Explained, End
<1>3. ASSUME PlatformRaises \/ ModelUnavailable \/ ModelFails \/ ResumeRaises
             \/ TimesOut
      PROVE  CollectionInv'
  BY <1>3, CollectionQuiet DEF PlatformRaises, ModelUnavailable, ModelFails,
     ResumeRaises, TimesOut, Raise, End
<1>4. ASSUME NEW t \in Tool, NEW r \in Answers[t], Answer(t, r) PROVE CollectionInv'
  <2>1. /\ t \in ToSet(Batch) /\ t \notin DOMAIN answered
        /\ answered' = [u \in DOMAIN answered \cup {t} |->
                          IF u = t THEN r ELSE answered[u]]
        /\ UNCHANGED <<pc, input, results, collected>> /\ pc = "collect"
    BY <1>4 DEF Answer
  <2>2. Plan' = Plan /\ Batch' = Batch
    BY <2>1, SamePlan DEF Batch
  <2>3. Follows(results)' /\ Follows(collected.results)'
    BY <1>1, <2>1, <2>2 DEF Follows
  <2>4. \A x \in DOMAIN answered' : x \in ToSet(Batch) /\ answered'[x] \in Answers[x]
    <3>1. /\ DOMAIN answered' = DOMAIN answered \cup {t}
          /\ \A x \in DOMAIN answered : answered'[x] = answered[x]
          /\ answered'[t] = r
      BY <2>1
    <3> QED BY <2>1, <3>1 DEF CollectionInv
  <2> QED BY <2>1, <2>2, <2>3, <2>4 DEF CollectionInv
<1>5. ASSUME Gather PROVE CollectionInv'
  <2>1. /\ DOMAIN answered = ToSet(Batch)
        /\ results' = results \o [i \in DOMAIN Batch |-> answered[Batch[i]]]
        /\ answered' = <<>>
        /\ UNCHANGED <<pc, input, collected>>
    BY <1>5 DEF Gather
  <2>2. Plan' = Plan
    BY <2>1, SamePlan
  <2>3. Follows(results \o [i \in DOMAIN Batch |-> answered[Batch[i]]])
    BY <1>1, <2>1, GatheredFollows DEF CollectionInv
  <2>4. Follows(results)' /\ Follows(collected.results)'
    BY <1>1, <2>1, <2>2, <2>3 DEF Follows
  <2> QED BY <2>1, <2>4 DEF CollectionInv
<1>6. ASSUME SaveCollected PROVE CollectionInv'
  <2>1. /\ UNCHANGED <<input, results, answered>> /\ pc' = "decide"
        /\ collected' \in {collected, [saved |-> TRUE, results |-> results]}
    BY <1>6 DEF SaveCollected
  <2>2. collected'.results \in {results, collected.results}
    BY <2>1
  <2>3. Plan' = Plan /\ Batch' = Batch
    BY <2>1, SamePlan DEF Batch
  <2>4. Follows(results)' /\ Follows(collected.results)'
    BY <1>1, <2>1, <2>2, <2>3 DEF Follows
  <2> QED BY <2>1, <2>3, <2>4 DEF CollectionInv
<1>7. ASSUME Crash PROVE CollectionInv'
  <2>1. UNCHANGED <<input, collected>> /\ results' = <<>> /\ answered' = <<>>
    BY <1>7 DEF Crash
  <2>2. Plan' = Plan
    BY <2>1, SamePlan
  <2>3. Follows(results)' /\ Follows(collected.results)'
    BY <1>1, <2>1, <2>2, EmptyFollows DEF Follows
  <2> QED BY <2>1, <2>3 DEF CollectionInv
<1>8. ASSUME Restart PROVE CollectionInv'
  <2>1. /\ UNCHANGED <<input, results, answered>> /\ pc = "down"
        /\ collected' \in {collected, NoCollected}
    BY <1>8 DEF Restart
  <2>2. collected'.results \in {<<>>, collected.results}
    BY <2>1 DEF NoCollected
  <2>3. Plan' = Plan
    BY <2>1, SamePlan
  <2>4. Follows(results)' /\ Follows(collected.results)'
    BY <1>1, <2>1, <2>2, <2>3, EmptyFollows DEF Follows
  <2>5. answered' = <<>>
    BY <2>1 DEF CollectionInv
  <2> QED BY <2>4, <2>5 DEF CollectionInv
<1>9. ASSUME Resume PROVE CollectionInv'
  <2>1. /\ UNCHANGED <<input, answered, collected>> /\ pc = "resume"
        /\ results' = [i \in DOMAIN collected.results |-> Reloaded(collected.results[i])]
    BY <1>9 DEF Resume
  <2>2. Plan' = Plan
    BY <2>1, SamePlan
  <2>3. Follows([i \in DOMAIN collected.results |-> Reloaded(collected.results[i])])
    BY <1>1, ReloadedFollows
  <2>4. Follows(results)' /\ Follows(collected.results)'
    BY <1>1, <2>1, <2>2, <2>3 DEF Follows
  <2>5. answered' = <<>>
    BY <2>1 DEF CollectionInv
  <2> QED BY <2>4, <2>5 DEF CollectionInv
<1>10. ASSUME UNCHANGED vars PROVE CollectionInv'
  BY <1>10, CollectionQuiet DEF vars
<1> QED BY <1>2, <1>3, <1>4, <1>5, <1>6, <1>7, <1>8, <1>9, <1>10 DEF Next

\* The rest of the state has its type.
LEMMA InitControl == Init => ControlInv
BY BoundAssumption DEF Init, ControlInv, Stage, Awaiting, IsDecision, NoCollected

\* Every step keeps the locals right for the worker's statement.
LEMMA ControlStep == ControlInv /\ [Next]_vars => ControlInv'
<1> SUFFICES ASSUME ControlInv, [Next]_vars PROVE ControlInv'
  OBVIOUS
<1> USE DEF local, saved, input
\* What any step may make of each of these variables.
<1>1. /\ pc' \in Stage
      /\ UNCHANGED input
      /\ \/ attempt' \in {0, 1, attempt}
         \/ attempt < MaxAttempts /\ attempt' = attempt + 1
      /\ \/ crashes' = crashes
         \/ crashes < MaxCrashes /\ crashes' = crashes + 1
      /\ questions' \in {questions} \cup Questions
      /\ decided' \in {decided, decision, NoDecision}
      /\ \/ decision' \in {decision, decided, NoDecision}
         \/ \E score \in Scores : decision' = [score |-> score, questions |-> questions]
      /\ collected' \in {collected, NoCollected, [saved |-> TRUE, results |-> results]}
  <2> USE DEF Stage, Awaiting
  <2>1. CASE LoadContext \/ (\E t \in Tool : \E r \in Answers[t] : Answer(t, r))
             \/ Gather \/ Collected \/ SaveCollected
    BY <2>1 DEF LoadContext, Answer, Gather, Collected, SaveCollected
  <2>2. CASE PlatformRaises \/ ModelUnavailable \/ ModelFails \/ ResumeRaises \/ TimesOut
    BY <2>2 DEF PlatformRaises, ModelUnavailable, ModelFails, ResumeRaises, TimesOut,
       Raise, End
  <2>3. CASE Reuse \/ Ask \/ NothingToAsk \/ (\E score \in Scores : Judged(score))
             \/ SaveDecided
    BY <2>3 DEF Reuse, Ask, NothingToAsk, Judged, SaveDecided
  <2>4. CASE Retry
    BY <2>4 DEF Retry, ControlInv
  <2>5. CASE ComposeReport
    BY <2>5 DEF ComposeReport
  <2>6. CASE (\E text \in {"prose", "claim"} : Explained(text)) \/ ExplainerFails \/ Finalize
    BY <2>6 DEF Explained, ExplainerFails, Finalize, End
  <2>7. CASE Crash
    BY <2>7 DEF Crash
  <2>8. CASE Restart
    BY <2>8 DEF Restart
  <2>9. CASE Resume
    BY <2>9 DEF Resume
  <2>10. CASE UNCHANGED vars
    BY <2>10 DEF vars, ControlInv
  <2> QED BY <2>1, <2>2, <2>3, <2>4, <2>5, <2>6, <2>7, <2>8, <2>9, <2>10 DEF Next
<1>2. attempt' \in 0..MaxAttempts /\ crashes' \in 0..MaxCrashes
  BY <1>1, BoundAssumption DEF ControlInv
<1>3. IsDecision(decision') /\ IsDecision(decided')
  <2>1. IsDecision(decision) /\ IsDecision(decided) /\ IsDecision(NoDecision)
    BY DEF ControlInv, IsDecision
  <2>2. \A score \in Scores : IsDecision([score |-> score, questions |-> questions])
    BY DEF IsDecision, ControlInv
  <2> QED BY <1>1, <2>1, <2>2
<1>4. collected'.saved \in BOOLEAN
  <2>1. NoCollected.saved = FALSE /\ [saved |-> TRUE, results |-> results].saved = TRUE
    BY DEF NoCollected
  <2> QED BY <1>1, <2>1 DEF ControlInv
<1> QED BY <1>1, <1>2, <1>3, <1>4 DEF ControlInv, IsDecision
-----------------------------------------------------------------------------
(* From the input to the report *)

\* What a payload loses on its way through a checkpoint is not evidence.
LEMMA ReloadedEvidence ==
  ASSUME NEW kept, Typed(kept)
  PROVE  AllEvidence([i \in DOMAIN kept |-> Reloaded(kept[i])]) = AllEvidence(kept)
<1> DEFINE new == [i \in DOMAIN kept |-> Reloaded(kept[i])]
<1>1. DOMAIN new = DOMAIN kept
  OBVIOUS
<1>2. \A i \in DOMAIN kept : new[i].evidence = kept[i].evidence
  BY DEF Reloaded
<1> HIDE DEF new
<1>3. AllEvidence(new) = AllEvidence(kept)
  BY <1>1, <1>2, SameEvidence
<1> QED BY <1>3 DEF new

\* No report is in hand at first.
LEMMA InitGround == Init => GroundInv
BY DEF Init, GroundInv, FromInput, FromCheckpoint, Pending, NoCollected

\* The steps that leave results and checkpoints alone, and have no report or
\* keep the one there is.
LEMMA QuietStep ==
  ASSUME GroundInv, UNCHANGED <<results, decision, questions>>,
         collected'.saved => collected' = collected,
         \/ outcome'.report = NoReport
         \/ outcome' = outcome /\ pc' \in Late,
         pc' \in {"context", "collect", "saveCollected"} =>
           pc \in {"context", "collect", "saveCollected"},
         pc' \in {"decide", "ask", "saveDecided", "compose"} =>
           pc \in {"decide", "ask", "saveDecided", "compose"}
  PROVE  GroundInv'
BY DEF GroundInv, FromInput, FromCheckpoint, ReportInput, Late

\* While the platform is asked nothing is saved and nothing is composed.
LEMMA CollectingStep ==
  ASSUME GroundInv, pc \in {"context", "collect", "saveCollected"},
         pc' \in {"context", "collect", "saveCollected"},
         UNCHANGED <<outcome, collected>>
  PROVE  GroundInv'
BY DEF GroundInv, FromInput, FromCheckpoint, Late

\* Before the report is composed the decision may change.
LEMMA DecidingStep ==
  ASSUME GroundInv, pc \in {"decide", "ask", "saveDecided"},
         pc' \in {"decide", "ask", "saveDecided", "compose"},
         UNCHANGED <<results, outcome, collected>>
  PROVE  GroundInv'
BY DEF GroundInv, FromInput, FromCheckpoint, Late

\* Every step keeps a report in hand grounded.
LEMMA GroundStep == CollectionInv /\ GroundInv /\ [Next]_vars => GroundInv'
<1> SUFFICES ASSUME CollectionInv, GroundInv, [Next]_vars PROVE GroundInv'
  OBVIOUS
<1> USE DEF input, local, saved
<1>1. Pending.report = NoReport
  BY DEF Pending
<1>2. ASSUME LoadContext PROVE GroundInv'
  BY <1>2, CollectingStep DEF LoadContext
<1>3. ASSUME NEW t \in Tool, NEW r \in Answers[t], Answer(t, r) PROVE GroundInv'
  BY <1>3, CollectingStep DEF Answer
<1>4. ASSUME Gather \/ Collected PROVE GroundInv'
  BY <1>4, CollectingStep DEF Gather, Collected
<1>5. ASSUME PlatformRaises \/ ModelUnavailable \/ ModelFails \/ ResumeRaises
             \/ TimesOut
      PROVE  GroundInv'
  BY <1>5, QuietStep DEF PlatformRaises, ModelUnavailable, ModelFails,
     ResumeRaises, TimesOut, Raise, End, Failed, TimedOut
<1>6. ASSUME SaveCollected PROVE GroundInv'
  <2>1. outcome.report = NoReport /\ ~ collected.saved
    BY <1>6 DEF SaveCollected, GroundInv, FromInput, FromCheckpoint, Late
  <2>2. collected'.saved => collected'.results = results /\ results' = results
    BY <1>6, <2>1 DEF SaveCollected
  <2> QED BY <1>6, <2>1, <2>2 DEF SaveCollected, GroundInv, FromInput, FromCheckpoint
<1>7. ASSUME Reuse \/ Ask \/ NothingToAsk \/ SaveDecided PROVE GroundInv'
  BY <1>7, DecidingStep DEF Reuse, Ask, NothingToAsk, SaveDecided
<1>8. ASSUME NEW score \in Scores, Judged(score) PROVE GroundInv'
  BY <1>8, DecidingStep DEF Judged
<1>9. ASSUME Retry PROVE GroundInv'
  <2>1. pc = "ask" => outcome.report = NoReport
    BY DEF GroundInv, FromInput, Late
  <2> QED BY <1>9, <2>1, QuietStep DEF Retry, Late
<1>10. ASSUME ComposeReport PROVE GroundInv'
  <2>1. outcome' = Compose(ReportInput)
    BY <1>10 DEF ComposeReport
  <2>2. UNCHANGED <<results, collected, decision, questions>> /\ pc = "compose"
    BY <1>10 DEF ComposeReport
  <2>3. pc' \in {"explain", "finalize"}
    BY <1>10 DEF ComposeReport
  <2>4. ReportInput' = ReportInput
    BY <2>2 DEF ReportInput
  <2>5. FromInput'
    BY <2>1, <2>2, <2>3, <2>4, ComposedReport DEF FromInput, Late
  <2>6. FromCheckpoint'
    BY <2>2, <2>3 DEF GroundInv, FromCheckpoint
  <2> QED BY <2>5, <2>6 DEF GroundInv
<1>11. ASSUME NEW text, Explained(text) PROVE GroundInv'
  <2>1. /\ pc' = "finalize" /\ outcome' = Attach(outcome, text)
        /\ UNCHANGED <<results, collected, decision, questions>>
    BY <1>11 DEF Explained, End
  <2>2. CASE outcome.report = NoReport
    BY <2>1, <2>2, QuietStep DEF Attach, Late
  <2>3. CASE outcome.report # NoReport
    <3>1. ReportInput' = ReportInput
      BY <2>1 DEF ReportInput
    <3>2. IsPublication(Attach(outcome, text), ReportInput)
      BY <2>3, AttachedReport DEF GroundInv, FromInput
    <3>3. FromInput'
      BY <2>1, <3>1, <3>2 DEF FromInput, Late
    <3>4. FromCheckpoint'
      BY <2>1, <2>3 DEF GroundInv, FromCheckpoint
    <3> QED BY <3>3, <3>4 DEF GroundInv
  <2> QED BY <2>2, <2>3
<1>12. ASSUME ExplainerFails \/ Finalize PROVE GroundInv'
  BY <1>12, QuietStep DEF ExplainerFails, Finalize, End, Late
<1>13. ASSUME Crash \/ Restart PROVE GroundInv'
  <2>1. outcome'.report = NoReport /\ pc' \in {"down", "resume"}
    BY <1>1, <1>13 DEF Crash, Restart, GroundInv, FromInput, Late
  <2> QED BY <2>1 DEF GroundInv, FromInput, FromCheckpoint
<1>14. ASSUME Resume PROVE GroundInv'
  <2>1. outcome'.report = NoReport /\ collected' = collected
    BY <1>14 DEF Resume, GroundInv, FromInput, Late
  <2>2. AllEvidence(results') = AllEvidence(collected.results)
    BY <1>14, ReloadedEvidence DEF Resume, CollectionInv, Follows, Typed
  <2>3. pc' = IF collected.saved THEN "decide" ELSE "context"
    BY <1>14 DEF Resume
  <2> QED BY <2>1, <2>2, <2>3 DEF GroundInv, FromInput, FromCheckpoint
<1>15. ASSUME UNCHANGED vars PROVE GroundInv'
  BY <1>15 DEF vars, GroundInv, FromInput, FromCheckpoint, ReportInput
<1> QED BY <1>2, <1>3, <1>4, <1>5, <1>6, <1>7, <1>8, <1>9, <1>10, <1>11, <1>12,
           <1>13, <1>14, <1>15 DEF Next
-----------------------------------------------------------------------------
(* What is handed to finalize *)

\* There is no outcome at first.
LEMMA InitOutcome == Init => OutcomeInv
BY DEF Init, OutcomeInv, Pending

\* What compose_report has to say is about the evidence, never about its own
\* draft; every other error is a word for how the analysis ended.
LEMMA OutcomeStep ==
  CollectionInv /\ GroundInv /\ OutcomeInv /\ [Next]_vars => OutcomeInv'
<1> SUFFICES ASSUME CollectionInv, GroundInv, OutcomeInv, [Next]_vars PROVE OutcomeInv'
  OBVIOUS
<1> USE DEF local, saved
<1>1. ASSUME outcome' \in {outcome, Pending} PROVE OutcomeInv'
  BY <1>1 DEF OutcomeInv, Pending
<1>2. ASSUME outcome' \in {Failed({"ANALYSIS_FAILED"}), TimedOut} PROVE OutcomeInv'
  <2>1. /\ outcome'.status \in {"FAILED", "TIMEOUT"} /\ outcome'.report = NoReport
        /\ outcome'.errors \in {{"ANALYSIS_FAILED"}, {"ANALYSIS_TIMEOUT"}}
    BY <1>2 DEF Failed, TimedOut
  <2>2. outcome'.errors \cap DraftError = {}
    BY <2>1 DEF DraftError
  <2> QED BY <2>1, <2>2 DEF OutcomeInv
<1>3. ASSUME LoadContext \/ (\E t \in Tool : \E r \in Answers[t] : Answer(t, r))
             \/ Gather \/ Collected \/ SaveCollected
      PROVE  OutcomeInv'
  BY <1>1, <1>3 DEF LoadContext, Answer, Gather, Collected, SaveCollected
<1>4. ASSUME PlatformRaises \/ ModelUnavailable \/ ModelFails \/ ResumeRaises
             \/ TimesOut
      PROVE  OutcomeInv'
  BY <1>2, <1>4 DEF PlatformRaises, ModelUnavailable, ModelFails, ResumeRaises,
     TimesOut, Raise, End
<1>5. ASSUME Reuse \/ Ask \/ NothingToAsk \/ (\E score \in Scores : Judged(score))
             \/ Retry \/ SaveDecided
      PROVE  OutcomeInv'
  BY <1>1, <1>5 DEF Reuse, Ask, NothingToAsk, Judged, Retry, SaveDecided
<1>6. ASSUME ComposeReport PROVE OutcomeInv'
  <2>1. outcome' = Compose(ReportInput)
    BY <1>6 DEF ComposeReport
  <2>2. Typed(ReportInput.results)
    BY DEF CollectionInv, Follows, Typed, ReportInput
  <2> QED BY <2>1, <2>2, ComposeOutcome DEF OutcomeInv
<1>7. ASSUME NEW text, Explained(text) PROVE OutcomeInv'
  <2>1. outcome' = Attach(outcome, text)
    BY <1>7 DEF Explained, End
  <2>2. CASE outcome.report = NoReport
    BY <1>1, <2>1, <2>2 DEF Attach
  <2>3. CASE outcome.report # NoReport
    <3>1. IsPublication(outcome, ReportInput)
      BY <2>3 DEF GroundInv, FromInput
    <3>2. IsPublication(outcome', ReportInput)
      BY <2>1, <3>1, AttachedReport
    <3>3. outcome'.status = outcome.status /\ outcome'.errors = {}
      BY <3>1, <3>2, PublicationParts
    <3> QED BY <2>3, <3>3 DEF OutcomeInv
  <2> QED BY <2>2, <2>3
<1>8. ASSUME ExplainerFails \/ Finalize \/ Crash \/ Restart \/ Resume PROVE OutcomeInv'
  BY <1>1, <1>8 DEF ExplainerFails, Finalize, End, Crash, Restart, Resume
<1>9. ASSUME UNCHANGED vars PROVE OutcomeInv'
  BY <1>1, <1>9 DEF vars
<1> QED BY <1>3, <1>4, <1>5, <1>6, <1>7, <1>8, <1>9 DEF Next
-----------------------------------------------------------------------------
(* What follows *)

AnalysisInv == CollectionInv /\ ControlInv /\ GroundInv /\ OutcomeInv

\* The inductive invariant of an analysis: what is collected follows the plan,
\* the control state has its type, and every report is the publication of what
\* its worker has and of what was saved.
THEOREM AnalysisInvariant == Spec => []AnalysisInv
<1>1. Init => AnalysisInv
  BY InitCollection, InitControl, InitGround, InitOutcome DEF AnalysisInv
<1>2. AnalysisInv /\ [Next]_vars => AnalysisInv'
  BY CollectionStep, ControlStep, GroundStep, OutcomeStep DEF AnalysisInv
<1> QED BY <1>1, <1>2, PTL DEF Spec

\* Every published report was composed from the results and the decision its
\* worker has, passed validation, and shows the evidence of the checkpoint.
THEOREM ReportsGrounded == Spec => []GroundInv
<1>1. AnalysisInv => GroundInv
  BY DEF AnalysisInv
<1> QED BY <1>1, AnalysisInvariant, PTL

\* Every local, checkpoint and outcome has its type.
THEOREM TypeCorrect == Spec => []TypeOK
<1>1. AnalysisInv => TypeOK
  <2> SUFFICES ASSUME AnalysisInv PROVE TypeOK
    OBVIOUS
  <2>1. \A i \in DOMAIN results :
          \E r \in Answers[results[i].tool] : results[i] \in {r, Reloaded(r)}
    BY DEF AnalysisInv, CollectionInv, Follows
  <2> QED BY <2>1 DEF AnalysisInv, CollectionInv, ControlInv, OutcomeInv, TypeOK
<1> QED BY <1>1, AnalysisInvariant, PTL

\* Whatever order the calls of a batch are answered in, and after a resume, the
\* results are those of the plan's calls in its order.
THEOREM PlanFollowed == Spec => []CollectionFollowsPlan
<1>1. AnalysisInv => CollectionFollowsPlan
  <2> SUFFICES ASSUME AnalysisInv PROVE CollectionFollowsPlan
    OBVIOUS
  <2> DEFINE n     == Len(results)
             tools == [i \in DOMAIN results |-> results[i].tool]
             part  == SubSeq(Plan, 1, n)
  <2>1. /\ n \in Nat /\ n <= Len(Plan) /\ DOMAIN results = 1..n
        /\ \A i \in 1..n : results[i].tool = Plan[i]
    BY LenProperties DEF AnalysisInv, CollectionInv, Follows
  <2>2. \A i \in 1..n : Plan[i] \in Tool
    BY <2>1, PlanType, ElementOfSeq
  <2>3. /\ part \in Seq(Tool) /\ Len(part) = IF 1 <= n THEN n - 1 + 1 ELSE 0
        /\ \A i \in 1..(n - 1 + 1) : part[i] = Plan[1 + i - 1]
    BY <2>1, <2>2, SubSeqProperties
  <2>4. DOMAIN part = 1..n
    BY <2>1, <2>3, LenProperties
  <2>5. \A i \in 1..n : part[i] = Plan[i]
    BY <2>1, <2>3, PlanType
  <2>6. part \in [1..n -> Tool]
    BY <2>3, <2>4, LenProperties
  <2>7. tools \in [1..n -> Tool]
    BY <2>1, <2>2
  <2>8. \A i \in 1..n : tools[i] = part[i]
    BY <2>1, <2>5
  <2> HIDE DEF tools, part
  <2>9. tools = part
    BY <2>6, <2>7, <2>8
  <2> QED BY <2>9 DEF tools, part, CollectionFollowsPlan
<1> QED BY <1>1, AnalysisInvariant, PTL

\* No call is made twice: each result is of another tool, of those the
\* permissions and the case allow.
CollectedOnce ==
  /\ \A i, j \in DOMAIN results : results[i].tool = results[j].tool => i = j
  /\ \A i \in DOMAIN results : /\ Permission[results[i].tool] \in granted
                               /\ Needs[results[i].tool] \subseteq links

\* However a batch is interrupted and retried, no tool is collected twice.
THEOREM EachCallOnce == Spec => []CollectedOnce
<1>1. AnalysisInv => CollectedOnce
  <2> SUFFICES ASSUME AnalysisInv PROVE CollectedOnce
    OBVIOUS
  <2>1. \A i \in DOMAIN results : i \in DOMAIN Plan /\ results[i].tool = Plan[i]
    <3>1. /\ Len(results) \in Nat /\ Len(results) <= Len(Plan)
          /\ DOMAIN results = 1..Len(results)
          /\ \A i \in DOMAIN results : results[i].tool = Plan[i]
      BY LenProperties DEF AnalysisInv, CollectionInv, Follows
    <3> QED BY <3>1, PlanType
  <2> QED BY <2>1, PlanType DEF CollectedOnce
<1> QED BY <1>1, AnalysisInvariant, PTL

\* compose_report and validate_report agree: no report is ever rejected for a
\* fault of its composition.
THEOREM DraftsAreAlwaysValid == Spec => []DraftsAreValid
<1>1. AnalysisInv => DraftsAreValid
  BY DEF AnalysisInv, OutcomeInv, DraftsAreValid
<1> QED BY <1>1, AnalysisInvariant, PTL

\* What a published report is the publication of.
LEMMA PublishedReport ==
  ASSUME AnalysisInv, Published
  PROVE  /\ IsPublication(outcome, ReportInput) /\ Typed(ReportInput.results)
         /\ ReportInput.results = results /\ ReportInput.decision = decision
         /\ ReportInput.questions = questions
BY DEF AnalysisInv, GroundInv, FromInput, CollectionInv, Follows, Typed, Published,
   ReportInput

\* A report called complete hides nothing the analysis knew of.
THEOREM CompletedHidesNothingHolds == Spec => []CompletedHidesNothing
<1>1. AnalysisInv => CompletedHidesNothing
  <2> SUFFICES ASSUME AnalysisInv, Published, outcome.status = "COMPLETED"
               PROVE  /\ \A r \in ToSet(results) : r.status = "SUCCEEDED" /\ r.notes = {}
                      /\ \A e \in Items : e.quality = "VERIFIED" /\ e.notes = {}
                      /\ decision # NoDecision
    BY DEF CompletedHidesNothing
  <2> QED BY PublishedReport, CompletePublication DEF Items
<1> QED BY <1>1, AnalysisInvariant, PTL

\* A partial report names a gap, and cites each item that is not verified.
THEOREM PartialReportsNameGaps == Spec => []PartialNamesItsGaps
<1>1. AnalysisInv => PartialNamesItsGaps
  <2> SUFFICES ASSUME AnalysisInv, Published, outcome.status = "PARTIAL_RESULT"
               PROVE  /\ outcome.report.uncertainties # {}
                      /\ \A e \in Items : e.quality # "VERIFIED" =>
                           \E u \in outcome.report.uncertainties : e.id \in u.about
    BY DEF PartialNamesItsGaps
  <2> QED BY PublishedReport, PartialPublication DEF Items
<1> QED BY <1>1, AnalysisInvariant, PTL

\* A hypothesis stands on undisputed current items, names the disputed ones,
\* and carries the model's answer to the running release's question set.
THEOREM JudgementGrounded == Spec => []JudgementIsGrounded
<1>1. AnalysisInv => JudgementIsGrounded
  <2> SUFFICES ASSUME AnalysisInv, Published, NEW h \in outcome.report.hypotheses
               PROVE  /\ h.supporting # {}
                      /\ \A e \in Items : e.id \in h.supporting =>
                           IsCurrent(e) /\ e.pressure /\ e.quality # "CONFLICTING"
                      /\ \A e \in Items :
                           e.kind \in Process /\ e.pressure /\ e.quality = "CONFLICTING" =>
                             e.id \in h.contradicting
                      /\ h.assessment = decision /\ decision.questions = questions
    BY DEF JudgementIsGrounded
  <2> QED BY PublishedReport, GroundedPublication DEF Items
<1> QED BY <1>1, AnalysisInvariant, PTL

\* Nothing published claims a cause.
THEOREM NoClaimPublished == Spec => []NoCausalClaim
<1>1. AnalysisInv => NoCausalClaim
  BY PublishedReport, PublicationIsClean DEF NoCausalClaim
<1> QED BY <1>1, AnalysisInvariant, PTL

\* A report shows the evidence that was saved, however often its worker was
\* replaced.
THEOREM SavedEvidenceSurvives == Spec => []SavedEvidenceIsReported
<1>1. AnalysisInv => SavedEvidenceIsReported
  <2> SUFFICES ASSUME AnalysisInv, Published, collected.saved
               PROVE  outcome.report.evidence = AllEvidence(collected.results)
    BY DEF SavedEvidenceIsReported
  <2>1. outcome.report.evidence = AllEvidence(results)
    BY PublishedReport, PublicationParts
  <2>2. AllEvidence(results) = AllEvidence(collected.results)
    BY DEF AnalysisInv, GroundInv, FromCheckpoint, Published
  <2> QED BY <2>1, <2>2
<1> QED BY <1>1, AnalysisInvariant, PTL
=============================================================================
