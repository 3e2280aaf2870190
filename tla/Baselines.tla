----------------------------- MODULE Baselines ------------------------------
(***************************************************************************)
(* What a baseline makes of its model's answers: the files a run leaves,   *)
(* as the submission Judge A will look at.  The baselines read free-form   *)
(* JSON (common/parse.py) and normalise what they keep of it; zero_shot    *)
(* and rag_synthesis write a fixed proof graph.                            *)
(***************************************************************************)
EXTENDS Judges

REGISTRY == {"zero_shot", "rag_synthesis", "planner_verifier", "agentic_self_critique"}

(* An answer, by what extract_object finds in it.                          *)
(*   object  whether it found an object, and not the empty one             *)
(*   lemmas  the kinds of entries of its new_lemmas: no object, an object  *)
(*           without a statement, or with one; none if it is no list       *)
(*   deps    those of its pre_cutoff_dependencies: no object, an id of the *)
(*           wrong shape, no claim, or all in order                        *)
(*   names   the papers those dependencies name                            *)
ModelAnswer ==
  {ans \in [object : BOOLEAN,
            lemmas : SUBSET {"stray", "no_statement", "stated"},
            deps   : SUBSET {"stray", "bad_id", "no_claim", "claimed"},
            names  : SUBSET Papers] :
     ~ans.object => ans.lemmas = {} /\ ans.deps = {} /\ ans.names = {}}

(* A run that ended well.                                                  *)
(*   corpus     the ids in corpus/manifest.jsonl when it ran               *)
(*   retrieved  the papers its retrievals found                            *)
(*   plan       the planner's answer (planner_verifier)                    *)
(*   answer     the last one: the revised plan, the final summary          *)
(*   leaks      the files the model's words brought a phrase into          *)
BaselineRun ==
  {run \in [program : REGISTRY, corpus : SUBSET Papers, retrieved : SUBSET Papers,
            plan : ModelAnswer, answer : ModelAnswer, leaks : SUBSET _SCAN_BASENAMES] :
     /\ run.retrieved \subseteq run.corpus
     /\ "self_critique.md" \notin run.leaks
     /\ run.program \in {"zero_shot", "rag_synthesis"} => "proof_graph.json" \notin run.leaks}

NoObject == [object |-> FALSE, lemmas |-> {}, deps |-> {}, names |-> {}]

(* The object the proof graph is made from: the planner falls back on the  *)
(* plan its reviser should have revised.                                   *)
RawGraph(run) ==
  CASE run.program = "planner_verifier" -> IF run.answer.object THEN run.answer ELSE run.plan
    [] run.program = "agentic_self_critique" -> run.answer
    [] OTHER -> NoObject

(* A plausible bug: an entry that is no object is made a lemma of. *)
KeepsEveryLemma(run) == RawGraph(run).lemmas

(* _normalise_lemma, and the loop of _normalise_graph: what is no object   *)
(* goes, what has no statement stays, with an empty one.                   *)
KeptLemmas(run) == RawGraph(run).lemmas \ {"stray"}

(* The agentic baseline also keeps the dependencies whose id has the shape *)
(* of one; if there are none it lists what it retrieved, with a claim.     *)
KeptDependencies(run) ==
  IF run.program = "agentic_self_critique"
  THEN RawGraph(run).deps \cap {"no_claim", "claimed"}
  ELSE {}

(* A plausible bug: the sources the model names are listed as well. *)
CitesNamed(run) ==
  IF run.program \in {"rag_synthesis", "agentic_self_critique"}
  THEN run.retrieved \cup run.answer.names
  ELSE {}

(* cited_sources.json: what was retrieved, never what the model says. *)
Cites(run) ==
  IF run.program \in {"rag_synthesis", "agentic_self_critique"} THEN run.retrieved ELSE {}

(* An empty statement, or an empty claim, breaks the schema of a graph. *)
BreaksSchema(run) == "no_statement" \in KeptLemmas(run) \/ "no_claim" \in KeptDependencies(run)

Outputs(run) ==
  [missing  |-> {},
   graph    |-> IF BreaksSchema(run) THEN "invalid" ELSE "valid",
   lemmas   |-> IF KeptLemmas(run) = {} THEN "none" ELSE "some",
   cited    |-> "valid",
   cites    |-> Cites(run),
   leaks    |-> run.leaks,
   manifest |-> "absent"]

(* The model offered no lemma: no object among new_lemmas, or no graph. *)
OffersNoLemma(run) == RawGraph(run).lemmas \subseteq {"stray"}
=============================================================================
