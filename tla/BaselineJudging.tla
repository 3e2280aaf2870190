-------------------------- MODULE BaselineJudging ---------------------------
(***************************************************************************)
(* The baselines and the judges together: what a run of a baseline leaves  *)
(* is a submission like any other, judged against the corpus there is then *)
(* (docs/PRODUCTION.md, "Re-baseline").                                    *)
(***************************************************************************)
EXTENDS JudgeStack, Baselines

CONSTANTS BaselineRuns      \* the runs whose outputs are judged

ASSUME BaselineAssumption == BaselineRuns \subseteq BaselineRun

(* baselines/rag_synthesis.py:124, zero_shot.py:88, "the rubric's          *)
(* survey-only cap (<=45) is expected to bind": a baseline whose model     *)
(* offered no lemma is never ranked nor scored above that cap, whatever    *)
(* the judges' models think of it.  The comments are those of two          *)
(* baselines; the claim is checked of all four, where a lemma of           *)
(* planner_verifier's plan, its fallback, counts as offered.               *)
BaselinesAreCapped ==
  \A run \in BaselineRuns :
    input.submission = Outputs(run) /\ OffersNoLemma(run) /\ report # None =>
      report.verdict # "RANKED" /\ report.final <= SURVEY_ONLY

(* common/corpus.py, "to give baselines real arXiv ids to cite": judged    *)
(* against a corpus that has all its run saw, a baseline whose model wrote *)
(* no forbidden phrase is not disqualified by Judge A, does not crash it,  *)
(* and has issues only for an empty statement or claim of its model's.     *)
(* After a rebuild that dropped a paper it may be disqualified.            *)
BaselinesKeepTheRules ==
  \A run \in BaselineRuns :
    /\ input.submission = Outputs(run) /\ run.leaks = {}
    /\ input.corpus.given => run.corpus \subseteq input.corpus.ids
    => /\ ~JudgeACrashes(input.submission, input.corpus)
       /\ a # None => ~Disqualifies(a) /\ (a.issues => BreaksSchema(run))
=============================================================================
