---------------------------- MODULE MCJudgeStack ----------------------------
(***************************************************************************)
(* Instance of BaselineJudging for TLC: submissions that reach each of     *)
(* Judge A's outcomes, what runs of the baselines leave, judged against    *)
(* their corpus or against a later one, and answers that reach each branch *)
(* of the other judges.                                                    *)
(***************************************************************************)
EXTENDS BaselineJudging

CONSTANTS p1, p2

MCPapers == {p1, p2}

Clean == [missing |-> {}, graph |-> "valid", lemmas |-> "some", cited |-> "valid",
          cites |-> {p1}, leaks |-> {}, manifest |-> "absent"]

With(s, corpus) == [submission |-> s, corpus |-> [given |-> TRUE, ids |-> corpus]]

WithoutManifest(s) == [submission |-> s, corpus |-> [given |-> FALSE, ids |-> {}]]

Says(lemmas, deps) == [object |-> TRUE, lemmas |-> lemmas, deps |-> deps, names |-> MCPapers]

BRun(program, retrieved, plan, answer, leaks) ==
  [program |-> program, corpus |-> {p1}, retrieved |-> retrieved,
   plan |-> plan, answer |-> answer, leaks |-> leaks]

MCBaselineRuns ==
  {BRun("zero_shot", {}, NoObject, NoObject, {}),
   BRun("zero_shot", {}, NoObject, NoObject, {"final_proof.md"}),
   BRun("rag_synthesis", {p1}, NoObject, NoObject, {}),
   BRun("planner_verifier", {}, Says({"stated"}, {}), NoObject, {}),
   BRun("planner_verifier", {}, Says({"stated"}, {}), Says({"stray"}, {}), {}),
   BRun("agentic_self_critique", {p1}, NoObject, Says({"stated"}, {"stray", "claimed"}), {}),
   BRun("agentic_self_critique", {p1}, NoObject, Says({"stray", "no_statement"}, {"bad_id"}), {}),
   BRun("agentic_self_critique", {p1}, NoObject, Says({"stray"}, {"no_claim"}), {})}

MCBaselineInputs ==
  {With(Outputs(run), run.corpus) : run \in MCBaselineRuns} \cup
  {With(Outputs(run), {p2}) : run \in MCBaselineRuns}

MCInputs ==
  MCBaselineInputs \cup
  {With(Clean, {p1}),
   With([Clean EXCEPT !.lemmas = "none", !.manifest = "valid"], {p1, p2}),
   With([Clean EXCEPT !.graph = "invalid", !.lemmas = "none"], {p1}),
   With([Clean EXCEPT !.cited = "bad_json"], {}),
   WithoutManifest([Clean EXCEPT !.manifest = "not_object", !.cites = {p2}]),
   With([Clean EXCEPT !.cites = MCPapers], {p1}),
   With([Clean EXCEPT !.missing = {"trace.jsonl"}], {p1}),
   With([Clean EXCEPT !.missing = {"final_proof.md"}, !.leaks = {"final_proof.md"}], {p1}),
   With([Clean EXCEPT !.missing = {"proof_graph.json", "cited_sources.json"}], {p1}),
   With([Clean EXCEPT !.leaks = {"self_critique.md"}, !.cites = {p2}], {p1}),
   With([Clean EXCEPT !.leaks = {"self_critique.md"}, !.graph = "bad_json"], {p1}),
   With([Clean EXCEPT !.graph = "not_object"], {p1}),
   With([Clean EXCEPT !.cited = "stray_entry"], {p1}),
   WithoutManifest([Clean EXCEPT !.cited = "stray_entry"]),
   With([Clean EXCEPT !.cited = "stray_id"], {p1}),
   With([Clean EXCEPT !.cited = "not_list"], {p1})}

B(found, severity, action, passages, score) ==
  [found |-> found, severity |-> severity, action |-> action,
   passages |-> passages, score |-> score]

MCAnswersOfB ==
  {B(FALSE, "none", "rank", {}, 100),
   B(FALSE, "none", "rank", {}, 0),
   B(TRUE, "minor", "flag", {"other"}, 60),
   B(TRUE, "moderate", "rank", {"other", "conjecture"}, Absent),
   B(TRUE, "major", "rank", {"other"}, 0),
   B(TRUE, "major", "disqualify", {"conjecture"}, Absent),
   B(FALSE, "none", "disqualify", {"other"}, NaN),
   B(TRUE, "none", "contaminated_not_ranked", {}, Absent),
   B(TRUE, "major", "rank", {"bad_span"}, 0),
   B(FALSE, "none", "rank", {}, NotNumber)}

C(v, overall) == [matches |-> [axis \in MatchAxes |-> IF axis = "target" THEN v ELSE 0],
                  overall |-> overall]

MCAnswersOfC == {C(0, 0), C(100, NotNumber), C(100, 100)}

D(fatal, gap, correctness, resistance) ==
  [fatal |-> fatal, gap |-> gap, correctness |-> correctness, resistance |-> resistance]

MCAnswersOfD ==
  {D(FALSE, "minor", 100, 100), D(FALSE, "minor", 0, 0), D(FALSE, "fatal", 60, NotNumber),
   D(FALSE, "major", 100, 100), D(TRUE, "fatal", 100, 100), D(TRUE, "fatal", 0, Absent),
   D(TRUE, "minor", 100, 100)}

MCAnswersOfE ==
  {[class |-> "leak", novelty |-> Absent], [class |-> "novel_route", novelty |-> Absent],
   [class |-> "other", novelty |-> -5], [class |-> "wrong", novelty |-> 250]}
=============================================================================
