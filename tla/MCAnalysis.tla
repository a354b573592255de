----------------------------- MODULE MCAnalysis -----------------------------
(* A small platform: what each tool may return about one case. *)
EXTENDS Analysis

Item(id, kind, quality) ==
  [id |-> id, kind |-> kind, quality |-> quality, at |-> 0, got |-> 1,
   notes |-> {}, flaws |-> {}, pressure |-> kind \in Process, case |-> "none"]

Data(type) == [type |-> type, agrees |-> TRUE, cases |-> <<>>]

Result(tool, evidence) ==
  [tool |-> tool, status |-> "SUCCEEDED", data |-> Data("other"),
   evidence |-> evidence, notes |-> {}]
Unavailable(tool) ==
  [Result(tool, <<>>) EXCEPT !.status = "FAILED", !.data.type = "none"]

MCAnswers ==
  LET yield  == [Result("get_lot_yield", <<Item(1, "YIELD", "VERIFIED")>>)
                   EXCEPT !.data.type = "yield"]
      events == Result("get_tool_events", <<Item(2, "TOOL_EVENT", "VERIFIED")>>)
      recipe == Result("get_recipe_snapshot", <<Item(3, "RECIPE", "VERIFIED")>>)
      spc    == Result("get_spc_evidence", <<Item(4, "SPC", "VERIFIED")>>)
      fdc    == Result("get_fdc_evidence", <<Item(5, "FDC", "VERIFIED")>>)
      record == [Item(6, "HISTORICAL_CASE", "VERIFIED") EXCEPT !.case = "h1"]
      casebook == [Result("search_similar_cases", <<record>>)
                     EXCEPT !.data.type = "history", !.data.cases = <<"h1", "h2">>]
  IN [get_lot_yield |->
        {yield, [yield EXCEPT !.data.agrees = FALSE], Unavailable("get_lot_yield")},
      get_tool_events |->
        {events, [events EXCEPT !.evidence = <<>>, !.notes = {"gap"}]},
      get_recipe_snapshot |->
        {recipe, [recipe EXCEPT !.evidence[1].at = 2, !.evidence[1].flaws = {"link"}]},
      get_spc_evidence |->
        {spc, [spc EXCEPT !.evidence[1].quality = "CONFLICTING"],
         Unavailable("get_spc_evidence")},
      get_fdc_evidence |->
        {fdc, [fdc EXCEPT !.evidence[1].id = 4],
         [fdc EXCEPT !.evidence[1].quality = "PARTIAL", !.status = "PARTIAL"],
         [fdc EXCEPT !.evidence[1].flaws = {"claim"}, !.notes = {"claim"}]},
      search_similar_cases |->
        {casebook, [casebook EXCEPT !.evidence[1].got = 3]}]

All == {"yield", "equipment", "recipe", "spc", "fdc", "casebook"}
MCGrants == {All, {"yield", "spc", "casebook"}}
MCLinks  == {{"tool", "recipe"}, {}}
=============================================================================
