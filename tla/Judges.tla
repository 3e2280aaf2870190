------------------------------- MODULE Judges -------------------------------
(***************************************************************************)
(* What each judge concludes: Judge A from the files of a submission       *)
(* (judge/a_protocol.py), Judges B to E from the JSON object their model   *)
(* answered (judge/b_contamination.py, c_gold_graph.py, d_adversarial.py,  *)
(* e_novelty.py).  Pure functions; JudgeStack runs them in order.          *)
(*                                                                         *)
(* A model's answer is free-form JSON: a score may be missing, not a       *)
(* number, out of range, or NaN (json.loads accepts it).                   *)
(***************************************************************************)
EXTENDS Rubric

CONSTANTS
  Papers,      \* arXiv identifiers
  Absent,      \* a key the answer does not have
  NotNumber,   \* a JSON value float() refuses (null, a word, a list)
  NaN          \* float("nan")

ASSUME JudgesAssumption ==
  /\ Absent \notin Int /\ NotNumber \notin Int /\ NaN \notin Int
  /\ Absent # NotNumber /\ Absent # NaN /\ NotNumber # NaN

REQUIRED_OUTPUTS == {"final_proof.md", "proof_graph.json", "cited_sources.json",
                     "self_critique.md", "trace.jsonl"}
_SCAN_BASENAMES == {"final_proof.md", "self_critique.md", "proof_graph.json"}

(* The facts about a submission directory that Judge A looks at.           *)
(*   missing   required outputs that are not there                         *)
(*   graph     proof_graph.json: unparsable; not an object; an object that *)
(*             breaks the schema; valid                                    *)
(*   lemmas    whether its new_lemmas is the empty list                    *)
(*   cited     cited_sources.json: unparsable; not a list; a list with an  *)
(*             entry that is not an object, or that has an arxiv_id that   *)
(*             is not a string; one that breaks the schema otherwise; valid*)
(*   cites     the ids cited, with their "v2" suffix cut off               *)
(*   leaks     the files that hold a phrase of _LEAK_PATTERNS              *)
(*   manifest  run_manifest.json, an optional file                         *)
Submission ==
  [missing  : SUBSET REQUIRED_OUTPUTS,
   graph    : {"bad_json", "not_object", "invalid", "valid"},
   lemmas   : {"none", "some"},
   cited    : {"bad_json", "not_list", "stray_entry", "stray_id", "invalid", "valid"},
   cites    : SUBSET Papers,
   leaks    : SUBSET _SCAN_BASENAMES,
   manifest : {"absent", "bad_json", "not_object", "invalid", "valid"}]

(* corpus/manifest.jsonl as Judge A gets it: given only if the file is     *)
(* there (scripts/judge_submission.py:90), with the ids it lists.          *)
Corpus == [given : BOOLEAN, ids : SUBSET Papers]

-----------------------------------------------------------------------------
(* Judge A *)

HasGraph(s) == "proof_graph.json" \notin s.missing
HasCited(s) == "cited_sources.json" \notin s.missing

(* A value of another type than expected ends the program with an          *)
(* AttributeError: at `.get` of a proof graph or of an entry of the        *)
(* citations, or at `.split` of the arxiv_id of such an entry, which are   *)
(* read only to be compared with a corpus.                                 *)
JudgeACrashes(s, corpus) ==
  \/ HasGraph(s) /\ s.graph = "not_object"
  \/ HasCited(s) /\ s.cited \in {"stray_entry", "stray_id"} /\ corpus.given

(* Without a manifest nothing is compared. *)
citations_outside_corpus(s, corpus) ==
  IF HasCited(s) /\ s.cited \in {"stray_entry", "stray_id", "invalid", "valid"} /\ corpus.given
  THEN s.cites \ corpus.ids
  ELSE {}

contamination_hits(s) == s.leaks \ s.missing

schema_errors(s) ==
  \/ HasGraph(s) /\ s.graph # "valid"
  \/ HasCited(s) /\ s.cited # "valid"
  \/ s.manifest \in {"bad_json", "not_object", "invalid"}

no_new_lemmas(s) ==
  HasGraph(s) /\ s.graph \in {"invalid", "valid"} /\ s.lemmas = "none"

disqualifying_issues(s, corpus) ==
  \/ s.missing # {}
  \/ schema_errors(s)
  \/ citations_outside_corpus(s, corpus) # {}
  \/ contamination_hits(s) # {}

CapIf(condition, reason, cap) ==
  IF condition THEN {[reason |-> reason, cap |-> cap]} ELSE {}

JudgeA(s, corpus) ==
  LET issues == disqualifying_issues(s, corpus)
  IN  [issues   |-> issues,
       protocol |-> IF issues THEN 0 ELSE FullAxis,
       clarity  |-> IF s.missing # {} \/ issues THEN 0 ELSE FullAxis,
       caps     |-> CapIf(no_new_lemmas(s), "survey_only", SURVEY_ONLY)
                      \cup CapIf(citations_outside_corpus(s, corpus) # {},
                                 "cited_outside_corpus", DQ_VALUE)
                      \cup CapIf(contamination_hits(s) # {}, "phrase_bank", DQ_VALUE)
                      \cup CapIf(s.missing # {}, "missing_outputs", DQ_VALUE)]

-----------------------------------------------------------------------------
(* Scores in an answer, in points; results are in quarter points.  For     *)
(* Judge E a null score is Absent, for the others it is NotNumber.         *)

RawScore == Int \cup {Absent, NotNumber, NaN}

Quarters(v) == Clamp(v, 100) * QuarterPoints

(* min(100.0, nan) is 100.0 in Python: a NaN counts as full marks. *)
_clamp(raw) ==
  IF raw \in {Absent, NotNumber} THEN 0
  ELSE IF raw = NaN THEN FullAxis
  ELSE Quarters(raw)

(* Judge B *)

BadActions == {"contaminated_not_ranked", "disqualify"}

(*   passages  the kinds of suspect_passages: the public conjecture        *)
(*             statement; any other passage; one whose text_span is not a  *)
(*             string                                                      *)
AnswersB ==
  [found    : BOOLEAN,
   severity : {"none", "minor", "moderate", "major"},
   action   : {"rank", "flag"} \cup BadActions,
   passages : SUBSET {"conjecture", "other", "bad_span"},
   score    : RawScore]

(* re.search on a span that is no string, or float() of such a score,      *)
(* raises something that is not a JudgeError.                              *)
JudgeBCrashes(ans) == "bad_span" \in ans.passages \/ ans.score = NotNumber

(* _filter_conjecture_statements took every passage there was *)
OnlyConjecture(ans) == ans.passages = {"conjecture"}

CapReasonOf(action) ==
  IF action = "disqualify" THEN "b_disqualify" ELSE "b_contaminated_not_ranked"

JudgeB(ans) ==
  LET found    == ans.found /\ ~ OnlyConjecture(ans)
      severity == IF OnlyConjecture(ans) THEN "none" ELSE ans.severity
      action   == IF OnlyConjecture(ans) /\ ans.action \in BadActions
                  THEN "rank" ELSE ans.action
  IN  [found    |-> found,
       severity |-> severity,
       action   |-> action,
       protocol |-> IF ans.score = Absent THEN (IF found THEN 0 ELSE FullAxis)
                    ELSE _clamp(ans.score),
       caps     |-> CapIf(found /\ severity = "major", "b_major", DQ_VALUE)
                      \cup CapIf(found /\ severity = "moderate", "b_moderate",
                                 MEDIUM_CONTAMINATION_RISK)
                      \cup CapIf(action \in BadActions, CapReasonOf(action), DQ_VALUE)]

InconclusiveB ==
  [found |-> FALSE, severity |-> "unknown", action |-> "rank",
   protocol |-> 50 * QuarterPoints, caps |-> CapIf(TRUE, "b_inconclusive", NotBinding)]

(* Judge C *)

MatchAxes == {"target", "core", "chain", "final"}

AnswersC == [matches : [MatchAxes -> RawScore], overall : RawScore]

(* An overall score of zero beside a positive axis is replaced by the mean.*)
JudgeC(ans) ==
  LET m(axis) == _clamp(ans.matches[axis])
      overall == _clamp(ans.overall)
  IN  [overall |-> IF overall = 0 /\ \E axis \in MatchAxes : m(axis) > 0
                   THEN (m("target") + m("core") + m("chain") + m("final")) \div 4
                   ELSE overall,
       caps    |-> {}]

InconclusiveC == [overall |-> 0, caps |-> {}]

(* Judge D *)

(*   gap  the severity of first_fatal_gap; a gap that is null, or states   *)
(*        none, counts as "minor"                                          *)
AnswersD ==
  [fatal       : BOOLEAN,
   gap         : {"minor", "moderate", "major", "fatal"},
   correctness : RawScore,
   resistance  : RawScore]

JudgeD(ans) ==
  [fatal       |-> ans.fatal,
   gap         |-> ans.gap,
   correctness |-> _clamp(ans.correctness),
   resistance  |-> _clamp(ans.resistance),
   caps        |-> IF ans.fatal /\ ans.gap = "fatal"
                   THEN CapIf(TRUE, "d_fatal", FATAL_GAP)
                   ELSE CapIf(ans.gap = "major", "d_major", KEY_LEMMA_UNPROVED)]

InconclusiveD ==
  [fatal |-> FALSE, gap |-> "minor", correctness |-> 0, resistance |-> 0, caps |-> {}]

(* Judge E *)

Classes == {"leak", "wrong", "known", "pre_cutoff_combination", "novel_route"}

_BASE_NOVELTY == [leak |-> 0, wrong |-> 10, known |-> 25,
                  pre_cutoff_combination |-> 55, novel_route |-> 90]

(* "other" stands for a classification that is missing or not listed.      *)
AnswersE == [class : Classes \cup {"other"}, novelty : RawScore]

JudgeE(ans) ==
  LET class == IF ans.class \in Classes THEN ans.class ELSE "known"
  IN  [class   |-> class,
       novelty |-> IF ans.novelty = Absent THEN Quarters(_BASE_NOVELTY[class])
                   ELSE _clamp(ans.novelty),
       caps    |-> CapIf(class = "leak", "e_leak", DQ_VALUE)]

InconclusiveE == [class |-> "unknown", novelty |-> 0, caps |-> {}]

-----------------------------------------------------------------------------
(* The types of the results *)

AxisScore == 0 .. FullAxis
CapSet    == SUBSET Cap

ResultOfAType == [issues : BOOLEAN, protocol : {0, FullAxis}, clarity : {0, FullAxis},
                  caps : CapSet]
ResultOfBType == [found : BOOLEAN, action : {"rank", "flag"} \cup BadActions,
                  severity : {"none", "minor", "moderate", "major", "unknown"},
                  protocol : AxisScore, caps : CapSet]
ResultOfCType == [overall : AxisScore, caps : CapSet]
ResultOfDType == [fatal : BOOLEAN, gap : {"minor", "moderate", "major", "fatal"},
                  correctness : AxisScore, resistance : AxisScore, caps : CapSet]
ResultOfEType == [class : Classes \cup {"unknown"}, novelty : AxisScore, caps : CapSet]
=============================================================================
