---------------------------- MODULE ReportRules ----------------------------
(***************************************************************************)
(* How an analysis report is composed from what the platform's tools       *)
(* returned and the model's assessment, and the rules it is validated by   *)
(* before it is published: compose_report, validate_report and             *)
(* attach_expression, which are pure functions.                            *)
(*                                                                         *)
(* An item of evidence is                                                  *)
(*   [id, kind, quality, at, got, notes, flaws, pressure, case]            *)
(* with at and got its event and retrieval times, notes its warnings,      *)
(* pressure whether its observation speaks of the chamber pressure, and    *)
(* case the historical case it is a record of.  flaws says what is wrong   *)
(* with it that only validation looks at: an observation that reads like a *)
(* causal claim, an entity outside the task's scope, a raw reference that  *)
(* is no source link.  A warning is "gap", or "claim" if it reads like a   *)
(* causal claim.  A tool result is [tool, status, data, evidence, notes].  *)
(* Titles, wording, numbering, identity and yield figures, which are       *)
(* copied from the input, are left out.                                    *)
(***************************************************************************)
EXTENDS Integers, Sequences, FiniteSets, SequencesExt

Process == {"SPC", "FDC"}
Advised == Process \cup {"RECIPE", "YIELD", "TOOL_EVENT"}
Kind    == Advised \cup {"CASE", "WAFER", "HISTORICAL_CASE"}
Quality == {"VERIFIED", "PARTIAL", "CONFLICTING"}
Note    == {"gap", "claim"}
Flaw    == {"claim", "scope", "link"}
DataType == {"yield", "history", "other", "dict", "none"}

\* Ids, like times, are numbers: all that is asked of them is their order.
Evidence ==
  [id : Nat, kind : Kind, quality : Quality, at : Nat, got : Nat,
   notes : SUBSET Note, flaws : SUBSET Flaw, pressure : BOOLEAN, case : STRING]

ToolResult ==
  [tool : STRING, status : {"SUCCEEDED", "PARTIAL", "FAILED"},
   data : [type : DataType, agrees : BOOLEAN, cases : Seq(STRING)],
   evidence : Seq(Evidence), notes : SUBSET Note]

\* What ToolResult's own validator accepts.
WellFormed(r) ==
  /\ r.status = "FAILED" <=> r.data.type = "none"
  /\ r.status = "FAILED" => r.evidence = <<>>

NoDecision == [score |-> -1, questions |-> 0]
NoReport   == [none |-> TRUE]

-----------------------------------------------------------------------------
(* Lists in order *)

\* The elements of S as a list, in the order R is of them: the n-th is the one
\* that n - 1 others come before.
Arrange(S, R) ==
  [n \in 1..Cardinality(S) |->
     CHOOSE x \in S : Cardinality({y \in S : <<y, x>> \in R}) = n - 1]

\* The elements of the list s at the positions I: [x for x in s if ...].
Keep(s, I) ==
  LET order == Arrange(I, {ij \in I \X I : ij[1] < ij[2]})
  IN [n \in DOMAIN order |-> s[order[n]]]
-----------------------------------------------------------------------------
(* What is in the results *)

\* Where an item stands: <<i, j>> for results[i].evidence[j].
Slots(results) == UNION {{i} \X DOMAIN results[i].evidence : i \in DOMAIN results}
ItemAt(results, p) == results[p[1]].evidence[p[2]]

Before(a, b) == a.at < b.at \/ (a.at = b.at /\ a.id < b.id)

\* sorted() is stable: what compares equal stays in the order of the slots.
StableOrder(results) ==
  {pq \in Slots(results) \X Slots(results) :
     LET p == pq[1]  q == pq[2]
         a == ItemAt(results, p)  b == ItemAt(results, q)
     IN \/ Before(a, b)
        \/ /\ ~ Before(b, a)
           /\ p[1] < q[1] \/ (p[1] = q[1] /\ p[2] < q[2])}

AllEvidence(results) ==
  LET order == Arrange(Slots(results), StableOrder(results))
  IN [n \in DOMAIN order |-> ItemAt(results, order[n])]

IsCurrent(e) == e.kind # "HISTORICAL_CASE"
CurrentEvidence(results) ==
  LET all == AllEvidence(results)
  IN Keep(all, {i \in DOMAIN all : IsCurrent(all[i])})

Ids(evidence) == {evidence[i].id : i \in DOMAIN evidence}
-----------------------------------------------------------------------------
(* compose_report *)

PreflightError == {"INSUFFICIENT_EVIDENCE", "DUPLICATE_EVIDENCE_ID",
                   "YIELD_EVIDENCE_CONFLICT", "DECISION_METADATA_MISMATCH"}

\* Mutant: ids are only compared within one source.
FailsPreflight_NoDuplicates(in, error) ==
  \/ /\ error = "INSUFFICIENT_EVIDENCE"
     /\ CurrentEvidence(in.results) = <<>>
  \/ /\ error = "DECISION_METADATA_MISMATCH"
     /\ in.decision # NoDecision
     /\ in.decision.questions # in.questions

\* in is the ReportInput: [results, decision, questions, now].
FailsPreflight(in, error) ==
  LET all == AllEvidence(in.results) IN
  \/ /\ error = "INSUFFICIENT_EVIDENCE"
     /\ CurrentEvidence(in.results) = <<>>
  \/ /\ error = "DUPLICATE_EVIDENCE_ID"
     /\ Cardinality(Ids(all)) < Len(all)
  \/ /\ error = "YIELD_EVIDENCE_CONFLICT"
     /\ \E r \in ToSet(in.results) : /\ r.tool = "get_lot_yield"
                                     /\ r.data.type = "yield"
                                     /\ ~ r.data.agrees
  \/ /\ error = "DECISION_METADATA_MISMATCH"
     /\ in.decision # NoDecision
     /\ in.decision.questions # in.questions

Gap(what, tool, about) == [what |-> what, tool |-> tool, about |-> about]

\* Mutant: a conflict with another source is not listed.
ItemGaps_NoConflicts(r, e) ==
  {Gap(n, "any", {e.id}) : n \in e.notes}
    \cup {Gap("partial evidence", r.tool, {e.id}) : q \in {e.quality} \cap {"PARTIAL"}}

\* The gaps one item stands for, in the result r it came with.
ItemGaps(r, e) ==
  {Gap(n, "any", {e.id}) : n \in e.notes}
    \cup {Gap("partial evidence", r.tool, {e.id}) : q \in {e.quality} \cap {"PARTIAL"}}
    \cup {Gap("conflict", r.tool, Ids(r.evidence)) : q \in {e.quality} \cap {"CONFLICTING"}}

SourceGaps(r) ==
  {Gap(s, r.tool, Ids(r.evidence)) : s \in {r.status} \cap {"FAILED", "PARTIAL"}}
    \cup {Gap(n, "any", Ids(r.evidence)) : n \in r.notes}
    \cup (UNION {ItemGaps(r, e) : e \in ToSet(r.evidence)})

Uncertainties(in) ==
  (UNION {SourceGaps(r) : r \in ToSet(in.results)})
    \cup {Gap("no model", "any", Ids(CurrentEvidence(in.results))) :
            d \in {in.decision} \cap {NoDecision}}

\* Temporal correlation of everything current, once two process items are.
Correlations(current) ==
  IF Cardinality({i \in DOMAIN current : current[i].kind \in Process}) < 2
    THEN {} ELSE {Ids(current)}

Level(score) == CASE score >= 25 -> "HIGH"
                  [] score \in 15..24 -> "MEDIUM"
                  [] OTHER -> "LOW"

\* Mutant: disputed items support the hypothesis like any other.
Hypotheses_AnyQuality(in) ==
  LET pressure == {e \in ToSet(CurrentEvidence(in.results)) :
                     e.kind \in Process /\ e.pressure}
  IN IF pressure = {} \/ in.decision = NoDecision THEN {}
     ELSE {[level         |-> Level(in.decision.score),
            supporting    |-> {e.id : e \in pressure},
            contradicting |-> {},
            assessment    |-> in.decision]}

\* The one hypothesis: scores are in tenths of the rubric's unit.
Hypotheses(in) ==
  LET pressure == {e \in ToSet(CurrentEvidence(in.results)) :
                     e.kind \in Process /\ e.pressure}
      contradicting == {e \in pressure : e.quality = "CONFLICTING"}
      supporting == pressure \ contradicting
  IN IF supporting = {} \/ in.decision = NoDecision THEN {}
     ELSE {[level         |-> Level(in.decision.score),
            supporting    |-> {e.id : e \in supporting},
            contradicting |-> {e.id : e \in contradicting},
            assessment    |-> in.decision]}

\* Cases the platform calls similar, with the last record of each.
SimilarCases(results) ==
  LET all == AllEvidence(results)
      records(c) == Keep(all, {i \in DOMAIN all : ~ IsCurrent(all[i]) /\ all[i].case = c})
      named == UNION {ToSet(r.data.cases) :
                        r \in {x \in ToSet(results) : x.data.type = "history"}}
  IN {[case |-> c, id |-> Last(records(c)).id] :
        c \in {x \in named : records(x) # <<>>}}

\* One recommendation for each kind there is a template for.
Recommendations(current) ==
  {{e.id : e \in {x \in ToSet(current) : x.kind = k}} :
     k \in Advised \cap {e.kind : e \in ToSet(current)}}

Draft(in) ==
  LET current == CurrentEvidence(in.results)
  IN [evidence        |-> AllEvidence(in.results),
      generated       |-> in.now,
      timeline        |-> [i \in DOMAIN current |-> current[i].at],
      findings        |-> current,
      correlations    |-> Correlations(current),
      hypotheses      |-> Hypotheses(in),
      similarCases    |-> SimilarCases(in.results),
      recommendations |-> Recommendations(current),
      uncertainties   |-> Uncertainties(in),
      expression      |-> "none"]
-----------------------------------------------------------------------------
(* validate_report *)

References(report) ==
  Ids(report.findings)
    \cup (UNION report.correlations)
    \cup (UNION report.recommendations)
    \cup (UNION {h.supporting \cup h.contradicting : h \in report.hypotheses})
    \cup {s.id : s \in report.similarCases}
    \cup (UNION {u.about : u \in report.uncertainties})

\* Faults of the evidence, which composing cannot mend.
DataError == {"schema: rawRef", "retrieved before its event",
              "unauthorized entity", "generated before retrieval",
              "causal claim"}
\* Faults of the composition itself.
DraftError == {"schema: empty references", "duplicate ids",
               "unknown reference", "timeline order",
               "assessment not preserved", "only historical support"}

Violates(report, in, error) ==
  LET items == ToSet(report.evidence)
      historical == {e.id : e \in {x \in items : ~ IsCurrent(x)}}
      cited == report.correlations \cup report.recommendations
                 \cup {{f.id} : f \in ToSet(report.findings)}
                 \cup {h.supporting : h \in report.hypotheses}
  IN
  \/ error = "schema: rawRef" /\ \E e \in items : "link" \in e.flaws
  \/ error = "schema: empty references" /\ {} \in cited
  \/ error = "duplicate ids" /\ Cardinality(Ids(report.evidence)) < Len(report.evidence)
  \/ error = "unknown reference" /\ ~ References(report) \subseteq Ids(report.evidence)
  \/ error = "timeline order" /\ \E i, j \in DOMAIN report.timeline :
                                    i < j /\ report.timeline[i] > report.timeline[j]
  \/ error = "retrieved before its event" /\ \E e \in items : e.got < e.at
  \/ error = "unauthorized entity" /\ \E e \in items : "scope" \in e.flaws
  \/ error = "generated before retrieval" /\ \E e \in items : report.generated < e.got
  \/ error = "assessment not preserved" /\ \E h \in report.hypotheses :
                                              h.assessment # in.decision
  \/ error = "only historical support" /\ \E c \in cited : c # {} /\ c \subseteq historical
  \/ error = "causal claim" /\ \/ \E f \in ToSet(report.findings) : "claim" \in f.flaws
                               \/ \E u \in report.uncertainties : u.what = "claim"

\* A report the schema rejects is not looked at any further.
ValidationErrors(report, in) ==
  LET errors == {x \in DataError \cup DraftError : Violates(report, in, x)}
      schema == errors \cap {"schema: rawRef", "schema: empty references"}
  IN IF schema # {} THEN schema ELSE errors
-----------------------------------------------------------------------------
(* Outcomes *)

Failed(errors)  == [status |-> "FAILED", report |-> NoReport, errors |-> errors]
TimedOut        == [status |-> "TIMEOUT", report |-> NoReport,
                    errors |-> {"ANALYSIS_TIMEOUT"}]

\* Mutant: only the listed gaps make a report partial.
StatusOf_GapsOnly(report) ==
  IF \E u \in report.uncertainties : u.what \notin Note
    THEN "PARTIAL_RESULT" ELSE "COMPLETED"

StatusOf(report) ==
  IF \/ report.uncertainties # {}
     \/ \E f \in ToSet(report.findings) : f.quality # "VERIFIED"
    THEN "PARTIAL_RESULT" ELSE "COMPLETED"

Compose(in) ==
  LET preflight == {x \in PreflightError : FailsPreflight(in, x)}
      report    == Draft(in)
      invalid   == ValidationErrors(report, in)
  IN IF preflight # {} THEN Failed(preflight)
     ELSE IF invalid # {} THEN Failed(invalid)
     ELSE [status |-> StatusOf(report), report |-> report, errors |-> {}]

\* attach_expression: prose that reads like a causal claim is dropped.
Attach(outcome, text) ==
  IF outcome.report = NoReport \/ text = "claim" THEN outcome
  ELSE [outcome EXCEPT !.report.expression = text]
=============================================================================
