----------------------------- MODULE JudgeStack -----------------------------
(***************************************************************************)
(* One run of scripts/judge_submission.py: the orchestrator                *)
(* (judge/orchestrator.py) runs Judge A on the submission's files, then,   *)
(* unless A already disqualifies, Judges B, C, D and E, each one call to a *)
(* language model through judge/client.py with up to three attempts; then  *)
(* it applies the rubric and writes evaluation_report.json.                *)
(*                                                                         *)
(* A call takes minutes, and docs/EVAL_VERSIONING.md has reviewers edit    *)
(* gold_graph.json in place: the file may change while an evaluation runs. *)
(***************************************************************************)
EXTENDS Judges, FiniteSets

CONSTANTS
  None,           \* not there yet
  Inputs,         \* the submissions, each with the corpus A checks it against
  AnswersOfB, AnswersOfC, AnswersOfD, AnswersOfE,   \* what the models may say
  MaxGoldEdits    \* bound on the edits of the gold graph

(* What the rubric and the orchestrator put in a report *)
ReportType == [weighted : 0 .. FullScore, final : 0 .. FullScore, applied : CapSet,
               verdict : Verdicts, gold : 0 .. MaxGoldEdits]

ASSUME StackAssumption ==
  /\ None \notin ReportType
  /\ Inputs \subseteq [submission : Submission, corpus : Corpus]
  /\ AnswersOfB \subseteq AnswersB /\ AnswersOfC \subseteq AnswersC
  /\ AnswersOfD \subseteq AnswersD /\ AnswersOfE \subseteq AnswersE
  /\ MaxGoldEdits \in Nat

(* stop_after_attempt(3) *)
MaxAttempts == 3

LLMJudges == {"B", "C", "D", "E"}
Ended     == {"done", "aborted"}

VARIABLES
  input,     \* the submission directory and the corpus, as they are
  pc,        \* the judge running, "report" before the report, or how it ended
  attempt,   \* failed attempts of the call being made
  called,    \* judges whose model was called at least once
  a, b, c, d, e,   \* the judges' results
  gold,      \* version of gold_graph.json on disk
  graded,    \* version Judge C sent to its model
  report     \* evaluation_report.json

vars == <<input, pc, attempt, called, a, b, c, d, e, gold, graded, report>>

-----------------------------------------------------------------------------
(* Pure parts of evaluate() *)

Disqualifies(result) == \E k \in result.caps : k.cap = DQ_VALUE

subscores ==
  [protocol       |-> (a.protocol + b.protocol) \div 2,
   gold_graph     |-> c.overall,
   correctness    |-> d.correctness,
   gap_resistance |-> d.resistance,
   novelty        |-> e.novelty,
   clarity        |-> a.clarity]

all_caps ==
  {k \in a.caps \cup b.caps \cup c.caps \cup d.caps \cup e.caps : k.cap < NotBinding}

(* Before the repair the comment at orchestrator.py:88 speaks of: the      *)
(* verdict looks only at the caps that bound the score.                    *)
ReportOfBindingCaps ==
  LET weighted == weighted_score(subscores)
      applied  == BindingCaps(weighted, all_caps)
      final    == FinalScore(weighted, all_caps)
  IN  [weighted |-> weighted, final |-> final, applied |-> applied,
       verdict |-> verdict_from(final, applied), gold |-> gold]

Report ==
  LET weighted == weighted_score(subscores)
      final    == FinalScore(weighted, all_caps)
  IN  [weighted |-> weighted,
       final    |-> final,
       applied  |-> BindingCaps(weighted, all_caps),
       verdict  |-> verdict_from(final, all_caps),
       gold     |-> gold]

-----------------------------------------------------------------------------
Init ==
  /\ input \in Inputs
  /\ pc = "A"
  /\ attempt = 0
  /\ called = {}
  /\ a = None /\ b = None /\ c = None /\ d = None /\ e = None
  /\ gold = 0
  /\ graded = None
  /\ report = None

(* A plausible bug: the other judges run on a disqualified submission too. *)
RunJudgeANoShortCircuit ==
  /\ pc = "A"
  /\ ~ JudgeACrashes(input.submission, input.corpus)
  /\ a' = JudgeA(input.submission, input.corpus)
  /\ pc' = "B"
  /\ UNCHANGED <<input, attempt, called, b, c, d, e, gold, graded, report>>

(* a_protocol.run, and the short circuit: no model is called for a         *)
(* submission that Judge A disqualifies.                                   *)
RunJudgeA ==
  /\ pc = "A"
  /\ ~ JudgeACrashes(input.submission, input.corpus)
  /\ a' = JudgeA(input.submission, input.corpus)
  /\ IF Disqualifies(a')
     THEN /\ b' = InconclusiveB /\ c' = InconclusiveC
          /\ d' = InconclusiveD /\ e' = InconclusiveE
          /\ pc' = "report"
     ELSE /\ UNCHANGED <<b, c, d, e>>
          /\ pc' = "B"
  /\ UNCHANGED <<input, attempt, called, gold, graded, report>>

CrashInJudgeA ==
  /\ pc = "A"
  /\ JudgeACrashes(input.submission, input.corpus)
  /\ pc' = "aborted"
  /\ UNCHANGED <<input, attempt, called, a, b, c, d, e, gold, graded, report>>

-----------------------------------------------------------------------------
(* JudgeClient.chat *)

Call(j) == pc = j /\ called' = called \cup {j}

(* A plausible bug: the count of attempts starts again. *)
TransportErrorForever(j) ==
  /\ Call(j)
  /\ attempt' = 1 - attempt
  /\ UNCHANGED <<input, pc, a, b, c, d, e, gold, graded, report>>

(* httpx.TransportError: tried again, and raised after the third attempt,  *)
(* past the judges' `except JudgeError`, out of the program.               *)
TransportError(j) ==
  /\ Call(j)
  /\ attempt' = attempt + 1
  /\ pc' = IF attempt' = MaxAttempts THEN "aborted" ELSE pc
  /\ UNCHANGED <<input, a, b, c, d, e, gold, graded, report>>

(* A response whose JSON is not shaped like a completion: chat() itself    *)
(* raises, and not a JudgeError.                                           *)
MalformedResponse(j) ==
  /\ Call(j)
  /\ pc' = "aborted"
  /\ UNCHANGED <<input, attempt, a, b, c, d, e, gold, graded, report>>

(* The caller's end of a call: the result is kept and the next judge runs. *)
(* Judge C reads gold_graph.json, once, before its first attempt.          *)
ResultOfB(r) ==
  /\ Call("B")
  /\ attempt' = 0
  /\ b' = r
  /\ pc' = "C"
  /\ graded' = gold
  /\ UNCHANGED <<input, a, c, d, e, gold, report>>

ResultOfC(r) ==
  /\ Call("C")
  /\ attempt' = 0
  /\ c' = r
  /\ pc' = "D"
  /\ UNCHANGED <<input, a, b, d, e, gold, graded, report>>

ResultOfD(r) ==
  /\ Call("D")
  /\ attempt' = 0
  /\ d' = r
  /\ pc' = "E"
  /\ UNCHANGED <<input, a, b, c, e, gold, graded, report>>

ResultOfE(r) ==
  /\ Call("E")
  /\ attempt' = 0
  /\ e' = r
  /\ pc' = "report"
  /\ UNCHANGED <<input, a, b, c, d, gold, graded, report>>

(* An answer that is a JSON object.  Judge B may fail on it.               *)
Answer ==
  \/ \E ans \in AnswersOfB : ~ JudgeBCrashes(ans) /\ ResultOfB(JudgeB(ans))
  \/ \E ans \in AnswersOfC : ResultOfC(JudgeC(ans))
  \/ \E ans \in AnswersOfD : ResultOfD(JudgeD(ans))
  \/ \E ans \in AnswersOfE : ResultOfE(JudgeE(ans))

CrashInJudgeB ==
  /\ \E ans \in AnswersOfB : JudgeBCrashes(ans)
  /\ Call("B")
  /\ pc' = "aborted"
  /\ UNCHANGED <<input, attempt, a, b, c, d, e, gold, graded, report>>

(* JudgeError (an error status, no JSON in the text, max_tokens reached),  *)
(* or JSON that is not an object.                                          *)
Inconclusive ==
  \/ ResultOfB(InconclusiveB)
  \/ ResultOfC(InconclusiveC)
  \/ ResultOfD(InconclusiveD)
  \/ ResultOfE(InconclusiveE)

-----------------------------------------------------------------------------
(* The rest of evaluate() and main(): apply the rubric, hash the gold      *)
(* graph as it is now, load the submission's run_manifest.json (`.get` of  *)
(* a list ends the program here, after every call was paid for), write.    *)
WriteReport ==
  /\ pc = "report"
  /\ input.submission.manifest # "not_object"
  /\ report' = Report
  /\ pc' = "done"
  /\ UNCHANGED <<input, attempt, called, a, b, c, d, e, gold, graded>>

CrashLoadingMeta ==
  /\ pc = "report"
  /\ input.submission.manifest = "not_object"
  /\ pc' = "aborted"
  /\ UNCHANGED <<input, attempt, called, a, b, c, d, e, gold, graded, report>>

(* A reviewer edits the gold graph in place. *)
EditGold ==
  /\ gold < MaxGoldEdits
  /\ gold' = gold + 1
  /\ UNCHANGED <<input, pc, attempt, called, a, b, c, d, e, graded, report>>

Evaluate ==
  \/ RunJudgeA
  \/ CrashInJudgeA
  \/ \E j \in LLMJudges : TransportError(j)
  \/ \E j \in LLMJudges : MalformedResponse(j)
  \/ Answer
  \/ CrashInJudgeB
  \/ Inconclusive
  \/ WriteReport
  \/ CrashLoadingMeta

Next == Evaluate \/ EditGold

Spec == Init /\ [][Next]_vars

(* The program runs until it ends: every call has a timeout.  Reviewers    *)
(* need not do anything.                                                   *)
FairSpec == Spec /\ WF_vars(Evaluate)

-----------------------------------------------------------------------------
(* Properties *)

(* Every variable keeps its type, and a result is there as soon as the     *)
(* judge it comes from is past (judge/orchestrator.py:55-73).              *)
TypeOK ==
  /\ input \in Inputs
  /\ pc \in {"A", "report"} \cup LLMJudges \cup Ended
  /\ attempt \in 0 .. MaxAttempts
  /\ called \subseteq LLMJudges
  /\ a \in ResultOfAType \cup {None}
  /\ b \in ResultOfBType \cup {None}
  /\ c \in ResultOfCType \cup {None}
  /\ d \in ResultOfDType \cup {None}
  /\ e \in ResultOfEType \cup {None}
  /\ gold \in 0 .. MaxGoldEdits
  /\ graded \in 0 .. MaxGoldEdits \cup {None}
  /\ report \in ReportType \cup {None}

(* No cap of any judge is lost on the way to the verdict RANKED            *)
(* (rubric.verdict_from over all the caps, orchestrator.py:83-92): nothing *)
(* is missing, nothing cited is outside the corpus A was given, no         *)
(* forbidden phrase, new lemmas, no moderate or major evidence and no bad  *)
(* recommendation from B, no leak from E, and from D neither a gap of      *)
(* severity major nor one of severity fatal that D also flags as fatal.    *)
(* What is not capped is not excluded: a gap of severity fatal without the *)
(* flag (FatalGapsAreCapped, below), a flag with a gap of severity moderate*)
(* or minor, and schema errors (IssuesNeverRanked, below).                 *)
RankedOnlyIfUncapped ==
  report # None /\ report.verdict = "RANKED" =>
    /\ input.submission.missing = {}
    /\ citations_outside_corpus(input.submission, input.corpus) = {}
    /\ contamination_hits(input.submission) = {}
    /\ ~ no_new_lemmas(input.submission)
    /\ ~ (b.found /\ b.severity \in {"moderate", "major"})
    /\ b.action \notin BadActions
    /\ d.gap # "major" /\ (d.gap = "fatal" => ~ d.fatal)
    /\ e.class # "leak"
    /\ report.final > 0

(* Nobody is called CONTAMINATED without evidence of contamination: a      *)
(* phrase in a file that is there, major evidence or the recommendation of *)
(* Judge B, or a leak by Judge E (rubric.verdict_from reads it off the     *)
(* words of the caps' reasons).                                            *)
ContaminatedOnlyOnEvidence ==
  report # None /\ report.verdict = "CONTAMINATED" =>
    \/ contamination_hits(input.submission) # {}
    \/ b.found /\ b.severity = "major"
    \/ b.action = "contaminated_not_ranked"
    \/ e.class = "leak"

(* The caps the report lists explain its score: each is at or below the    *)
(* weighted score, a lowered score is the lowest of them, and a            *)
(* disqualifying cap is always listed, a weighted score of zero included:  *)
(* the leaderboard finds contaminated evaluations in this list.            *)
AppliedCapsExplain ==
  report # None =>
    /\ \A k \in report.applied : k.cap <= report.weighted /\ report.final <= k.cap
    /\ report.final < report.weighted => \E k \in report.applied : k.cap = report.final
    /\ \A k \in all_caps : k.cap = DQ_VALUE => k \in report.applied

(* No model is ever called, and nothing paid, for a submission that Judge  *)
(* A disqualifies (orchestrator.py:58-64).                                 *)
NoCallForDisqualified ==
  Disqualifies(JudgeA(input.submission, input.corpus)) => called = {}

(* Every evaluation ends: with a report, or with the program's failure.    *)
Terminates == <>(pc \in Ended)

(* The run implements the contract of one evaluation: at most one score,   *)
(* bounded by every cap of every judge, and a verdict no kinder than they  *)
(* allow.                                                                  *)
Contract == INSTANCE EvaluationContract WITH
  status    <- CASE pc = "done" -> "published"
                 [] pc = "aborted" -> "failed"
                 [] OTHER -> "running",
  published <- IF report = None THEN None
               ELSE [weighted |-> report.weighted,
                     ceilings |-> {k.cap : k \in all_caps},
                     final    |-> report.final,
                     verdict  |-> report.verdict]

ImplementsContract == Contract!Spec

-----------------------------------------------------------------------------
(* What the documentation says and the code does not do *)

(* judge/a_protocol.py:3-6: "if Judge A returns disqualifying_issues, the  *)
(* submission cannot be ranked".                                           *)
IssuesNeverRanked ==
  report # None /\ a.issues => report.verdict # "RANKED"

(* judge/d_adversarial.py:5-7: "Severity of the worst gap maps to a rubric *)
(* cap (cap-70 for ``fatal``, cap-65 for ``major``)": when D's gap has the *)
(* severity fatal there is a cap at 70 or below.                           *)
FatalGapsAreCapped ==
  report # None /\ d # None /\ d.gap = "fatal" =>
    \E k \in all_caps : k.cap <= FATAL_GAP

(* judge/eval_version.py:5-6: the record "records exactly which            *)
(* combination produced a given final score": the gold graph whose hash    *)
(* the report carries is the one Judge C compared with.                    *)
RecordedGoldIsGraded ==
  report # None /\ graded # None => report.gold = graded
=============================================================================
