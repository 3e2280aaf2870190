-------------------------- MODULE JudgeStackProofs --------------------------
(***************************************************************************)
(* Proofs about the judges and about JudgeStack, for every submission,     *)
(* every answer of the models and every number of edits of the gold graph: *)
(* types, no cap for the statement of the conjecture, no call for          *)
(* a disqualified submission, no rank for an unclean one, and that a run   *)
(* implements EvaluationContract.                                          *)
(***************************************************************************)
EXTENDS JudgeStack, RubricProofs

-----------------------------------------------------------------------------
(* Facts about the judges *)

(* A cap that is added under a condition is a cap. *)
LEMMA CapIfIsCaps ==
  ASSUME NEW condition, NEW reason \in Reasons, NEW cap \in CapValues
  PROVE  CapIf(condition, reason, cap) \in SUBSET Cap
BY DEF CapIf, Cap

(* Whatever a model puts where a score belongs, the clamped score is in    *)
(* range (c_gold_graph.py:153-158 and the like).                           *)
LEMMA ClampedScoreInRange ==
  \A raw \in RawScore : _clamp(raw) \in 0 .. FullAxis
<1>1. TAKE raw \in RawScore
<1>2. CASE raw \in Int /\ raw \notin {Absent, NotNumber, NaN}
  BY <1>2, JudgesAssumption, ClampInRange DEF _clamp, Quarters, FullAxis, QuarterPoints, Clamp
<1>3. CASE raw \in {Absent, NotNumber, NaN}
  BY <1>3, JudgesAssumption DEF _clamp, FullAxis, QuarterPoints
<1>4. QED
  BY <1>2, <1>3 DEF RawScore

(* Each judge's result has its type, and the caps it attaches are caps of  *)
(* the rubric.                                                             *)
LEMMA JudgeAType ==
  ASSUME NEW s, NEW corpus
  PROVE  JudgeA(s, corpus) \in ResultOfAType
<1> DEFINE caps == JudgeA(s, corpus).caps
           issues == disqualifying_issues(s, corpus)
<1>1. /\ {"survey_only", "cited_outside_corpus", "phrase_bank", "missing_outputs"}
           \subseteq Reasons
      /\ SURVEY_ONLY \in CapValues /\ DQ_VALUE \in CapValues
  BY DEF Reasons, SaysNothing, SaysDisqualified, SaysContamin, SaysMissing, CapValues
<1>2. caps \in CapSet
  BY <1>1, CapIfIsCaps DEF JudgeA, CapSet
<1>3. issues \in BOOLEAN
  BY DEF disqualifying_issues
<1>4. QED
  BY <1>2, <1>3 DEF JudgeA, ResultOfAType

(* ... of Judge B, for any answer (b_contamination.py:115-172). *)
LEMMA JudgeBType ==
  ASSUME NEW ans \in AnswersB
  PROVE  JudgeB(ans) \in ResultOfBType
<1>1. /\ {"b_major", "b_moderate", "b_disqualify", "b_contaminated_not_ranked"}
           \subseteq Reasons
      /\ MEDIUM_CONTAMINATION_RISK \in CapValues /\ DQ_VALUE \in CapValues
  BY DEF Reasons, SaysNothing, SaysDisqualified, SaysContamin, SaysMissing, CapValues
<1>2. CapReasonOf(JudgeB(ans).action) \in Reasons
  BY <1>1 DEF CapReasonOf
<1>3. JudgeB(ans).caps \in CapSet
  BY <1>1, <1>2, CapIfIsCaps DEF JudgeB, CapSet
<1>4. 0 \in AxisScore /\ FullAxis \in AxisScore
  BY DEF AxisScore, FullAxis, QuarterPoints
<1>5. JudgeB(ans).protocol \in AxisScore
  BY <1>4, ClampedScoreInRange DEF JudgeB, AnswersB, AxisScore
<1>6. /\ JudgeB(ans).found \in BOOLEAN
      /\ JudgeB(ans).severity \in {"none", "minor", "moderate", "major", "unknown"}
      /\ JudgeB(ans).action \in {"rank", "flag"} \cup BadActions
  BY DEF JudgeB, AnswersB
<1>7. QED
  BY <1>3, <1>5, <1>6 DEF JudgeB, ResultOfBType

(* ... of Judge C, the mean of its axes included (c_gold_graph.py:99-134). *)
LEMMA JudgeCType ==
  ASSUME NEW ans \in AnswersC
  PROVE  JudgeC(ans) \in ResultOfCType
<1>1. PICK t \in 0 .. FullAxis : t = _clamp(ans.matches["target"])
  BY ClampedScoreInRange DEF AnswersC, MatchAxes
<1>2. PICK k \in 0 .. FullAxis : k = _clamp(ans.matches["core"])
  BY ClampedScoreInRange DEF AnswersC, MatchAxes
<1>3. PICK h \in 0 .. FullAxis : h = _clamp(ans.matches["chain"])
  BY ClampedScoreInRange DEF AnswersC, MatchAxes
<1>4. PICK f \in 0 .. FullAxis : f = _clamp(ans.matches["final"])
  BY ClampedScoreInRange DEF AnswersC, MatchAxes
<1>5. (t + k + h + f) \div 4 \in 0 .. FullAxis
  BY DEF FullAxis, QuarterPoints
<1>6. _clamp(ans.overall) \in 0 .. FullAxis
  BY ClampedScoreInRange DEF AnswersC
<1>7. JudgeC(ans).overall \in {(t + k + h + f) \div 4, _clamp(ans.overall)}
  BY <1>1, <1>2, <1>3, <1>4 DEF JudgeC
<1>8. QED
  BY <1>5, <1>6, <1>7 DEF JudgeC, ResultOfCType, AxisScore, CapSet

(* ... of Judge D (d_adversarial.py:83-133). *)
LEMMA JudgeDType ==
  ASSUME NEW ans \in AnswersD
  PROVE  JudgeD(ans) \in ResultOfDType
<1>1. /\ {"d_fatal", "d_major"} \subseteq Reasons
      /\ FATAL_GAP \in CapValues /\ KEY_LEMMA_UNPROVED \in CapValues
  BY DEF Reasons, SaysNothing, CapValues
<1>2. JudgeD(ans).caps \in CapSet
  BY <1>1, CapIfIsCaps DEF JudgeD, CapSet
<1>3. _clamp(ans.correctness) \in AxisScore /\ _clamp(ans.resistance) \in AxisScore
  BY ClampedScoreInRange DEF AnswersD, AxisScore
<1>4. QED
  BY <1>2, <1>3 DEF JudgeD, AnswersD, ResultOfDType

(* ... of Judge E, with the base novelty of a class (e_novelty.py:53-136). *)
LEMMA JudgeEType ==
  ASSUME NEW ans \in AnswersE
  PROVE  JudgeE(ans) \in ResultOfEType
<1> DEFINE class == JudgeE(ans).class
<1>1. class \in Classes
  BY DEF JudgeE, Classes
<1>2. "e_leak" \in Reasons /\ DQ_VALUE \in CapValues
  BY DEF Reasons, SaysContamin, CapValues
<1>3. JudgeE(ans).caps \in CapSet
  BY <1>2, CapIfIsCaps DEF JudgeE, CapSet
<1>4. _BASE_NOVELTY[class] \in 0 .. 100
  BY <1>1 DEF _BASE_NOVELTY, Classes
<1>5. Quarters(_BASE_NOVELTY[class]) \in AxisScore
  BY <1>4 DEF Quarters, Clamp, AxisScore, FullAxis, QuarterPoints
<1>6. JudgeE(ans).novelty \in AxisScore
  BY <1>5, ClampedScoreInRange DEF JudgeE, AnswersE, AxisScore
<1>7. QED
  BY <1>1, <1>3, <1>6 DEF JudgeE, ResultOfEType

(* ... and of the judges that reach no conclusion (_inconclusive). *)
LEMMA InconclusiveTypes ==
  /\ InconclusiveB \in ResultOfBType
  /\ InconclusiveC \in ResultOfCType
  /\ InconclusiveD \in ResultOfDType
  /\ InconclusiveE \in ResultOfEType
<1>1. "b_inconclusive" \in Reasons /\ NotBinding \in CapValues
  BY DEF Reasons, SaysNothing, CapValues
<1>2. CapIf(TRUE, "b_inconclusive", NotBinding) \in CapSet /\ {} \in CapSet
  BY <1>1, CapIfIsCaps DEF CapSet
<1>3. 0 \in AxisScore /\ 50 * QuarterPoints \in AxisScore
  BY DEF AxisScore, FullAxis, QuarterPoints
<1>4. QED
  BY <1>2, <1>3 DEF InconclusiveB, InconclusiveC, InconclusiveD, InconclusiveE,
                    ResultOfBType, ResultOfCType, ResultOfDType, ResultOfEType

(* The public statement of the conjecture is no contamination: a Judge B   *)
(* that found nothing else never costs a submission points on its caps     *)
(* (b_contamination.py:175-214).                                           *)
THEOREM ConjectureCarveOut ==
  ASSUME NEW ans \in AnswersB, OnlyConjecture(ans)
  PROVE  JudgeB(ans).caps = {} /\ ~ JudgeB(ans).found
BY DEF JudgeB, CapIf, BadActions, AnswersB

-----------------------------------------------------------------------------
(* The inductive invariant *)

(* What each judge may have concluded *)
ConclusionsOfB ==
  {JudgeB(ans) : ans \in {x \in AnswersOfB : ~ JudgeBCrashes(x)}} \cup {InconclusiveB}
ConclusionsOfC == {JudgeC(ans) : ans \in AnswersOfC} \cup {InconclusiveC}
ConclusionsOfD == {JudgeD(ans) : ans \in AnswersOfD} \cup {InconclusiveD}
ConclusionsOfE == {JudgeE(ans) : ans \in AnswersOfE} \cup {InconclusiveE}

(* A judge that is past has left its own conclusion, and nothing else. *)
Sequenced ==
  /\ pc \notin {"A", "aborted"} => a = JudgeA(input.submission, input.corpus)
  /\ pc \notin {"A", "B", "aborted"} => b \in ConclusionsOfB
  /\ pc \notin {"A", "B", "C", "aborted"} => c \in ConclusionsOfC
  /\ pc \notin {"A", "B", "C", "D", "aborted"} => d \in ConclusionsOfD
  /\ pc \notin {"A", "B", "C", "D", "E", "aborted"} => e \in ConclusionsOfE

(* A count of attempts is below the limit while there is a call to make.   *)
AttemptsLeft == pc # "aborted" => attempt < MaxAttempts

(* There is a report when the run is done, only then, and it is computed   *)
(* from the results that are there, whatever happens to the gold graph.    *)
ReportIsComputed ==
  /\ pc # "done" => report = None
  /\ pc = "done" => /\ report.weighted = Report.weighted
                    /\ report.final = Report.final
                    /\ report.applied = Report.applied
                    /\ report.verdict = Report.verdict

Inv == TypeOK /\ AttemptsLeft /\ Sequenced /\ ReportIsComputed

(* The rule that saves the calls: a disqualified submission goes from      *)
(* Judge A straight to the report.                                         *)
ShortCircuited ==
  Disqualifies(JudgeA(input.submission, input.corpus)) =>
    called = {} /\ pc \notin LLMJudges

-----------------------------------------------------------------------------
(* No model is called for a submission that Judge A disqualifies. *)

(* The steps that call a model. *)
CallOf(j) ==
  /\ pc = j
  /\ called' = called \cup {j}
  /\ pc' \in LLMJudges \cup {"report", "aborted"}
  /\ input' = input

(* Every step of Next calls a model, or leaves the calls alone and does    *)
(* not enter a judge's call, Judge A's step excepted.                      *)
LEMMA StepOfCalls ==
  ASSUME Next
  PROVE  \/ \E j \in LLMJudges : CallOf(j)
         \/ RunJudgeA
         \/ UNCHANGED <<input, called>> /\ (pc' = pc \/ pc' \in {"done", "aborted"})
BY DEF Next, Evaluate, CrashInJudgeA, TransportError, MalformedResponse, Answer,
       CrashInJudgeB, Inconclusive, WriteReport, CrashLoadingMeta, EditGold,
       ResultOfB, ResultOfC, ResultOfD, ResultOfE, Call, CallOf, LLMJudges

(* No model is ever called for a disqualified submission                   *)
(* (orchestrator.py:58-64).                                                *)
THEOREM NoCallTheorem == Spec => []NoCallForDisqualified
<1>1. Init => ShortCircuited
  BY DEF Init, ShortCircuited, LLMJudges
<1>2. ShortCircuited /\ [Next]_vars => ShortCircuited'
  <2>1. SUFFICES ASSUME ShortCircuited, [Next]_vars
                 PROVE  ShortCircuited'
    OBVIOUS
  <2>2. CASE \E j \in LLMJudges : CallOf(j)
    BY <2>1, <2>2 DEF ShortCircuited, CallOf
  <2>3. CASE RunJudgeA
    <3>1. a' = JudgeA(input.submission, input.corpus) /\ input' = input /\ called' = called
      BY <2>3 DEF RunJudgeA
    <3>2. Disqualifies(a') => pc' = "report"
      BY <2>3 DEF RunJudgeA
    <3>3. QED
      BY <2>1, <3>1, <3>2 DEF ShortCircuited, LLMJudges
  <2>4. CASE UNCHANGED <<input, called>> /\ (pc' = pc \/ pc' \in {"done", "aborted"})
    BY <2>1, <2>4 DEF ShortCircuited, LLMJudges
  <2>5. CASE UNCHANGED vars
    BY <2>1, <2>5 DEF ShortCircuited, vars
  <2>6. QED
    BY <2>1, <2>2, <2>3, <2>4, <2>5, StepOfCalls
<1>3. ShortCircuited => NoCallForDisqualified
  BY DEF ShortCircuited, NoCallForDisqualified
<1>4. QED
  BY <1>1, <1>2, <1>3, PTL DEF Spec

-----------------------------------------------------------------------------
(* The inductive invariant *)

(* What the judges may conclude has the types of their results. *)
LEMMA ConclusionTypes ==
  /\ ConclusionsOfB \subseteq ResultOfBType
  /\ ConclusionsOfC \subseteq ResultOfCType
  /\ ConclusionsOfD \subseteq ResultOfDType
  /\ ConclusionsOfE \subseteq ResultOfEType
<1>1. ConclusionsOfB \subseteq ResultOfBType
  BY StackAssumption, JudgeBType, InconclusiveTypes DEF ConclusionsOfB
<1>2. ConclusionsOfC \subseteq ResultOfCType
  BY StackAssumption, JudgeCType, InconclusiveTypes DEF ConclusionsOfC
<1>3. ConclusionsOfD \subseteq ResultOfDType
  BY StackAssumption, JudgeDType, InconclusiveTypes DEF ConclusionsOfD
<1>4. ConclusionsOfE \subseteq ResultOfEType
  BY StackAssumption, JudgeEType, InconclusiveTypes DEF ConclusionsOfE
<1>5. QED
  BY <1>1, <1>2, <1>3, <1>4

(* Five results are there: *)
AllIn ==
  /\ a \in ResultOfAType /\ b \in ResultOfBType /\ c \in ResultOfCType
  /\ d \in ResultOfDType /\ e \in ResultOfEType

(* The rubric is applied to five results, never to one still missing. *)
LEMMA AllInBeforeReport ==
  ASSUME Sequenced, pc \in {"report", "done"}
  PROVE  AllIn
<1>1. a \in ResultOfAType
  BY JudgeAType DEF Sequenced
<1>2. QED
  BY <1>1, ConclusionTypes DEF Sequenced, AllIn

(* The rubric gets numbers and caps, and its scores are in range. *)
LEMMA ReportInRange ==
  ASSUME AllIn, gold \in 0 .. MaxGoldEdits
  PROVE  /\ Report \in ReportType
         /\ all_caps \in SUBSET Cap
         /\ Report.weighted \in 0 .. FullScore
<1>1. FullAxis = 400
  BY DEF FullAxis, QuarterPoints
<1>2. /\ a.protocol \in Int /\ b.protocol \in Int /\ a.clarity \in Int
      /\ c.overall \in Int /\ d.correctness \in Int /\ d.resistance \in Int
      /\ e.novelty \in Int
  BY <1>1 DEF AllIn, ResultOfAType, ResultOfBType, ResultOfCType, ResultOfDType,
              ResultOfEType, AxisScore
<1>3. (a.protocol + b.protocol) \div 2 \in Int
  BY <1>2
<1>4. subscores \in [Axes -> Int]
  BY <1>2, <1>3 DEF subscores, Axes
<1>5. weighted_score(subscores) \in 0 .. FullScore
  BY <1>4, WeightedScoreInRange
<1>6. all_caps \in SUBSET Cap
  BY DEF AllIn, all_caps, ResultOfAType, ResultOfBType, ResultOfCType,
         ResultOfDType, ResultOfEType, CapSet
<1>7. FinalScore(weighted_score(subscores), all_caps) \in 0 .. FullScore
  BY <1>5, <1>6, FinalScoreIsBounded
<1>8. verdict_from(Report.final, all_caps) \in Verdicts
  BY VerdictMeaning
<1>9. BindingCaps(weighted_score(subscores), all_caps) \in CapSet
  BY <1>6 DEF BindingCaps, CapSet
<1>10. QED
  BY <1>5, <1>6, <1>7, <1>8, <1>9 DEF Report, ReportType

(* The inductive invariant holds before Judge A runs. *)
LEMMA InvInit == Init => Inv
<1>1. MaxGoldEdits \in Nat
  BY StackAssumption
<1>2. QED
  BY <1>1 DEF Init, Inv, TypeOK, AttemptsLeft, Sequenced, ReportIsComputed, MaxAttempts,
              Ended, LLMJudges

(* The end of a judge's call: the result is one the judge may reach, and   *)
(* nothing but it, the program counter and the attempts changes.           *)
LEMMA InvOnResult ==
  ASSUME Inv,
         \/ \E r \in ConclusionsOfB : ResultOfB(r)
         \/ \E r \in ConclusionsOfC : ResultOfC(r)
         \/ \E r \in ConclusionsOfD : ResultOfD(r)
         \/ \E r \in ConclusionsOfE : ResultOfE(r)
  PROVE  Inv'
<1>1. CASE \E r \in ConclusionsOfB : ResultOfB(r)
  BY <1>1, ConclusionTypes
  DEF Inv, TypeOK, AttemptsLeft, Sequenced, ReportIsComputed, MaxAttempts, LLMJudges,
      ResultOfB, Call
<1>2. CASE \E r \in ConclusionsOfC : ResultOfC(r)
  BY <1>2, ConclusionTypes
  DEF Inv, TypeOK, AttemptsLeft, Sequenced, ReportIsComputed, MaxAttempts, LLMJudges,
      ResultOfC, Call
<1>3. CASE \E r \in ConclusionsOfD : ResultOfD(r)
  BY <1>3, ConclusionTypes
  DEF Inv, TypeOK, AttemptsLeft, Sequenced, ReportIsComputed, MaxAttempts, LLMJudges,
      ResultOfD, Call
<1>4. CASE \E r \in ConclusionsOfE : ResultOfE(r)
  BY <1>4, ConclusionTypes
  DEF Inv, TypeOK, AttemptsLeft, Sequenced, ReportIsComputed, MaxAttempts, LLMJudges,
      ResultOfE, Call
<1>5. QED
  BY <1>1, <1>2, <1>3, <1>4

(* Judge A's step, with and without the short circuit. *)
LEMMA InvOnRunJudgeA ==
  ASSUME Inv, RunJudgeA
  PROVE  Inv'
<1>1. a' = JudgeA(input.submission, input.corpus) /\ a' \in ResultOfAType
  BY JudgeAType DEF RunJudgeA
<1>2. CASE Disqualifies(a')
  BY <1>1, <1>2, ConclusionTypes
  DEF Inv, TypeOK, AttemptsLeft, Sequenced, ReportIsComputed, MaxAttempts,
      ConclusionsOfB, ConclusionsOfC, ConclusionsOfD, ConclusionsOfE, RunJudgeA
<1>3. CASE ~ Disqualifies(a')
  BY <1>1, <1>3
  DEF Inv, TypeOK, AttemptsLeft, Sequenced, ReportIsComputed, MaxAttempts, LLMJudges,
      RunJudgeA
<1>4. QED
  BY <1>2, <1>3

(* The end of an evaluation that gives up, wherever it is. *)
LEMMA InvOnAbort ==
  ASSUME Inv, pc # "done", pc' = "aborted",
         UNCHANGED <<input, a, b, c, d, e, gold, graded, report>>,
         attempt' \in 0 .. MaxAttempts, called' \subseteq LLMJudges
  PROVE  Inv'
BY DEF Inv, TypeOK, AttemptsLeft, Sequenced, ReportIsComputed, Ended

(* The report. *)
LEMMA InvOnWriteReport ==
  ASSUME Inv, WriteReport
  PROVE  Inv'
<1>1. AllIn
  BY AllInBeforeReport DEF Inv, WriteReport
<1>2. Report \in ReportType
  BY <1>1, ReportInRange DEF Inv, TypeOK
<1>3. Report' = Report
  BY DEF WriteReport, Report, subscores, all_caps
<1>4. TypeOK' /\ AttemptsLeft'
  BY <1>2 DEF Inv, TypeOK, AttemptsLeft, WriteReport, Ended
<1>5. Sequenced'
  BY DEF Inv, Sequenced, WriteReport
<1>6. ReportIsComputed'
  BY <1>3 DEF WriteReport, ReportIsComputed
<1>7. QED
  BY <1>4, <1>5, <1>6 DEF Inv

(* Every step preserves the inductive invariant. *)
LEMMA InvNext == Inv /\ [Next]_vars => Inv'
<1>1. SUFFICES ASSUME Inv, [Next]_vars
               PROVE  Inv'
  OBVIOUS
<1>2. CASE RunJudgeA
  BY <1>1, <1>2, InvOnRunJudgeA
<1>3. CASE CrashInJudgeA \/ CrashLoadingMeta
  <2>1. attempt' \in 0 .. MaxAttempts /\ called' \subseteq LLMJudges
    BY <1>1, <1>3 DEF Inv, TypeOK, CrashInJudgeA, CrashLoadingMeta
  <2>2. QED
    BY <1>1, <1>3, <2>1, InvOnAbort DEF CrashInJudgeA, CrashLoadingMeta
<1>4. CASE \E j \in LLMJudges : TransportError(j)
  <2>1. PICK j \in LLMJudges : TransportError(j)
    BY <1>4
  <2>2. /\ attempt' \in 0 .. MaxAttempts /\ called' \subseteq LLMJudges
        /\ attempt' # MaxAttempts => attempt' < MaxAttempts
        /\ pc = j /\ pc # "done"
    BY <1>1, <2>1 DEF Inv, TypeOK, AttemptsLeft, TransportError, Call, MaxAttempts, LLMJudges
  <2>3. CASE attempt' = MaxAttempts
    BY <1>1, <2>1, <2>2, <2>3, InvOnAbort DEF TransportError
  <2>4. CASE attempt' # MaxAttempts
    <3>1. pc' = pc /\ UNCHANGED <<input, a, b, c, d, e, gold, graded, report>>
      BY <2>1, <2>4 DEF TransportError
    <3>2. QED
      BY <1>1, <2>2, <2>4, <3>1 DEF Inv, TypeOK, AttemptsLeft, Sequenced, ReportIsComputed
  <2>5. QED
    BY <2>3, <2>4
<1>5. CASE CrashInJudgeB \/ \E j \in LLMJudges : MalformedResponse(j)
  <2>1. /\ pc # "done" /\ pc' = "aborted"
        /\ UNCHANGED <<input, attempt, a, b, c, d, e, gold, graded, report>>
        /\ called' \subseteq LLMJudges
    BY <1>1, <1>5 DEF Inv, TypeOK, CrashInJudgeB, MalformedResponse, Call, LLMJudges
  <2>2. attempt' \in 0 .. MaxAttempts
    BY <1>1, <2>1 DEF Inv, TypeOK
  <2>3. QED
    BY <1>1, <2>1, <2>2, InvOnAbort
<1>6. CASE Answer \/ Inconclusive
  <2>1. \/ \E r \in ConclusionsOfB : ResultOfB(r)
        \/ \E r \in ConclusionsOfC : ResultOfC(r)
        \/ \E r \in ConclusionsOfD : ResultOfD(r)
        \/ \E r \in ConclusionsOfE : ResultOfE(r)
    BY <1>6 DEF Answer, Inconclusive, ConclusionsOfB, ConclusionsOfC, ConclusionsOfD,
                ConclusionsOfE
  <2>2. QED
    BY <1>1, <2>1, InvOnResult
<1>7. CASE WriteReport
  BY <1>1, <1>7, InvOnWriteReport
<1>8. CASE EditGold
  <2>1. gold' \in 0 .. MaxGoldEdits
    BY <1>1, <1>8, StackAssumption DEF Inv, TypeOK, EditGold
  <2>2. /\ Report'.weighted = Report.weighted /\ Report'.final = Report.final
        /\ Report'.applied = Report.applied /\ Report'.verdict = Report.verdict
    BY <1>8 DEF EditGold, Report, subscores, all_caps
  <2>3. QED
    BY <1>1, <1>8, <2>1, <2>2
    DEF Inv, TypeOK, AttemptsLeft, Sequenced, ReportIsComputed, EditGold
<1>9. CASE UNCHANGED vars
  <2>1. Report' = Report
    BY <1>9 DEF vars, Report, subscores, all_caps
  <2>2. QED
    BY <1>1, <1>9, <2>1
    DEF Inv, TypeOK, AttemptsLeft, Sequenced, ReportIsComputed, vars
<1>10. QED
  BY <1>1, <1>2, <1>3, <1>4, <1>5, <1>6, <1>7, <1>8, <1>9 DEF Next, Evaluate

(* The inductive invariant holds in every state of an evaluation. *)
LEMMA Invariance == Spec => []Inv
BY InvInit, InvNext, PTL DEF Spec

(* Every variable of an evaluation keeps its type, the report's score and  *)
(* verdict included.                                                       *)
THEOREM TypeTheorem == Spec => []TypeOK
<1>1. Inv => TypeOK
  BY DEF Inv
<1>2. QED
  BY <1>1, Invariance, PTL

-----------------------------------------------------------------------------
(* The course of an evaluation *)

(* The judges in their order; a retry is within the attempts of one. *)
Position == [A |-> 0, B |-> 1, C |-> 2, D |-> 3, E |-> 4, report |-> 5, done |-> 6, aborted |-> 6]

GetsAhead ==
  \/ Position[pc'] > Position[pc]
  \/ pc' = pc /\ attempt' > attempt

(* No step of an evaluation asks a judge again that has answered or takes  *)
(* an attempt back: with three attempts for each of four judges it makes   *)
(* twelve calls at most (orchestrator.py:55-73, client.py:136-139).        *)
THEOREM AheadTheorem == Spec => [][Evaluate => GetsAhead]_vars
<1>1. ASSUME Inv, Evaluate PROVE GetsAhead
  <2>1. attempt \in Nat /\ pc \in {"A", "B", "C", "D", "E", "report", "done", "aborted"}
    BY <1>1 DEF Inv, TypeOK, LLMJudges, Ended, MaxAttempts
  <2>2. CASE RunJudgeA
    <3>1. pc = "A" /\ pc' \in {"B", "report"}  BY <2>2 DEF RunJudgeA
    <3>2. QED  BY <3>1 DEF GetsAhead, Position
  <2>3. CASE \E j \in LLMJudges : TransportError(j)
    <3>1. pc \in LLMJudges /\ attempt' = attempt + 1 /\ pc' \in {pc, "aborted"}
      BY <2>3 DEF TransportError, Call
    <3>2. pc' = pc => GetsAhead  BY <2>1, <3>1 DEF GetsAhead
    <3>3. pc' = "aborted" => GetsAhead  BY <3>1 DEF GetsAhead, Position, LLMJudges
    <3>4. QED  BY <3>1, <3>2, <3>3
  <2>4. CASE Answer \/ Inconclusive
    <3>1. \/ pc = "B" /\ pc' = "C"
          \/ pc = "C" /\ pc' = "D"
          \/ pc = "D" /\ pc' = "E"
          \/ pc = "E" /\ pc' = "report"
      BY <2>4 DEF Answer, Inconclusive, ResultOfB, ResultOfC, ResultOfD, ResultOfE, Call
    <3>2. QED  BY <3>1 DEF GetsAhead, Position
  <2>5. CASE \/ CrashInJudgeA \/ CrashInJudgeB \/ CrashLoadingMeta \/ WriteReport
             \/ \E j \in LLMJudges : MalformedResponse(j)
    <3>1. pc \in {"A", "B", "C", "D", "E", "report"} /\ pc' \in {"done", "aborted"}
      BY <2>5 DEF CrashInJudgeA, CrashInJudgeB, CrashLoadingMeta, WriteReport,
                  MalformedResponse, Call, LLMJudges
    <3>2. QED  BY <3>1 DEF GetsAhead, Position
  <2>6. QED  BY <1>1, <2>2, <2>3, <2>4, <2>5 DEF Evaluate
<1>2. QED  BY <1>1, Invariance, PTL

(* The gold graph only moves on: what a report records is what was graded  *)
(* or a later edit.                                                        *)
GoldMovesOn ==
  /\ graded # None => graded <= gold
  /\ report # None => report.gold <= gold /\ (graded # None => graded <= report.gold)

LEMMA GoldMovesOnNext == Inv /\ GoldMovesOn /\ [Next]_vars => GoldMovesOn'
<1> SUFFICES ASSUME Inv, GoldMovesOn, [Next]_vars PROVE GoldMovesOn'  OBVIOUS
<1>1. /\ gold \in Nat /\ graded \in Nat \cup {None}
      /\ report # None => report.gold \in Nat
  BY StackAssumption DEF Inv, TypeOK, ReportType
<1>2. CASE UNCHANGED <<gold, graded, report>>  BY <1>2 DEF GoldMovesOn
<1>3. CASE EditGold
  <2>1. gold' = gold + 1 /\ UNCHANGED <<graded, report>>  BY <1>3 DEF EditGold
  <2>2. \A n \in Nat : n <= gold => n <= gold'  BY <1>1, <2>1
  <2>3. graded # None => graded <= gold'  BY <1>1, <2>2 DEF GoldMovesOn
  <2>4. report # None => report.gold <= gold'  BY <1>1, <2>2 DEF GoldMovesOn
  <2>5. QED  BY <2>1, <2>3, <2>4 DEF GoldMovesOn
<1>4. CASE \E r : ResultOfB(r)
  <2>1. pc = "B" /\ graded' = gold /\ UNCHANGED <<gold, report>>
    BY <1>4 DEF ResultOfB, Call
  <2>2. report = None  BY <2>1 DEF Inv, ReportIsComputed
  <2>3. QED  BY <1>1, <2>1, <2>2 DEF GoldMovesOn
<1>5. CASE WriteReport
  <2>1. report' = Report /\ UNCHANGED <<gold, graded>>  BY <1>5 DEF WriteReport
  <2>2. report'.gold = gold  BY <2>1 DEF Report
  <2>3. QED  BY <1>1, <2>1, <2>2 DEF GoldMovesOn
<1>6. UNCHANGED <<gold, graded, report>> \/ EditGold \/ (\E r : ResultOfB(r)) \/ WriteReport
  BY DEF Next, Evaluate, RunJudgeA, CrashInJudgeA, TransportError, MalformedResponse, Answer,
         CrashInJudgeB, Inconclusive, CrashLoadingMeta, ResultOfC, ResultOfD, ResultOfE, vars
<1>7. QED  BY <1>2, <1>3, <1>4, <1>5, <1>6

(* The claim of eval_version.py:5-6, that a report records the gold graph  *)
(* its score came from, fails for one reason only: the graph was edited    *)
(* since Judge C read it.                                                  *)
THEOREM GoldTheorem == Spec => [](gold = graded => RecordedGoldIsGraded)
<1>1. Init => GoldMovesOn  BY DEF Init, GoldMovesOn
<1>2. ASSUME Inv, GoldMovesOn, gold = graded, report # None, graded # None
      PROVE  report.gold = graded
  <2>1. gold \in Nat /\ report.gold \in Nat
    BY <1>2, StackAssumption DEF Inv, TypeOK, ReportType
  <2>2. report.gold <= gold /\ graded <= report.gold  BY <1>2 DEF GoldMovesOn
  <2>3. QED  BY <1>2, <2>1, <2>2
<1>3. Inv /\ GoldMovesOn => (gold = graded => RecordedGoldIsGraded)
  BY <1>2 DEF RecordedGoldIsGraded
<1>4. QED  BY <1>1, <1>3, GoldMovesOnNext, Invariance, PTL DEF Spec

-----------------------------------------------------------------------------
(* What a report is worth *)

(* A cap among them binds the score. *)
Binds(caps) == \E k \in caps : k.cap < NotBinding

(* Every ceiling of RubricCaps is below the audit-only one (rubric.py:48-57). *)
LEMMA BindingValues ==
  /\ DQ_VALUE < NotBinding /\ SURVEY_ONLY < NotBinding
  /\ MEDIUM_CONTAMINATION_RISK < NotBinding
  /\ FATAL_GAP < NotBinding /\ KEY_LEMMA_UNPROVED < NotBinding
BY DEF DQ_VALUE, SURVEY_ONLY, MEDIUM_CONTAMINATION_RISK, FATAL_GAP, KEY_LEMMA_UNPROVED,
       NotBinding, Point, QuarterPoints

(* A cap whose condition holds is attached, and binds. *)
LEMMA CapIfBinds ==
  ASSUME NEW condition, NEW reason, NEW cap, condition, cap < NotBinding
  PROVE  Binds(CapIf(condition, reason, cap))
BY DEF Binds, CapIf

(* Of two sets of caps one that binds is enough. *)
LEMMA BindsOneOf ==
  ASSUME NEW one, NEW other, Binds(one) \/ Binds(other)
  PROVE  Binds(one \cup other)
BY DEF Binds

(* Each bad finding attaches a cap that binds (a_protocol.py:173-207,      *)
(* b_contamination.py:137-161, d_adversarial.py:97-122, e_novelty.py).     *)
LEMMA FindingsOfABind ==
  ASSUME NEW s, NEW corpus,
         \/ s.missing # {} \/ citations_outside_corpus(s, corpus) # {}
         \/ contamination_hits(s) # {} \/ no_new_lemmas(s)
  PROVE  Binds(JudgeA(s, corpus).caps)
<1>1. \/ Binds(CapIf(no_new_lemmas(s), "survey_only", SURVEY_ONLY))
      \/ Binds(CapIf(citations_outside_corpus(s, corpus) # {},
                     "cited_outside_corpus", DQ_VALUE))
      \/ Binds(CapIf(contamination_hits(s) # {}, "phrase_bank", DQ_VALUE))
      \/ Binds(CapIf(s.missing # {}, "missing_outputs", DQ_VALUE))
  BY BindingValues, CapIfBinds
<1>2. QED
  BY <1>1, BindsOneOf DEF JudgeA

(* ... Judge B: evidence, or a recommendation against ranking. *)
LEMMA FindingsOfBBind ==
  ASSUME NEW r \in ConclusionsOfB,
         (r.found /\ r.severity \in {"moderate", "major"}) \/ r.action \in BadActions
  PROVE  Binds(r.caps)
<1>1. r # InconclusiveB
  <2>1. InconclusiveB.found = FALSE /\ InconclusiveB.action = "rank"
    BY DEF InconclusiveB
  <2>2. "rank" \notin BadActions
    BY DEF BadActions
  <2>3. QED
    BY <2>1, <2>2
<1>2. PICK ans \in AnswersOfB : r = JudgeB(ans)
  BY <1>1 DEF ConclusionsOfB
<1>3. r.caps = CapIf(r.found /\ r.severity = "major", "b_major", DQ_VALUE)
               \cup CapIf(r.found /\ r.severity = "moderate", "b_moderate",
                          MEDIUM_CONTAMINATION_RISK)
               \cup CapIf(r.action \in BadActions, CapReasonOf(r.action), DQ_VALUE)
  BY <1>2 DEF JudgeB
<1>4. \/ Binds(CapIf(r.found /\ r.severity = "major", "b_major", DQ_VALUE))
      \/ Binds(CapIf(r.found /\ r.severity = "moderate", "b_moderate",
                     MEDIUM_CONTAMINATION_RISK))
      \/ Binds(CapIf(r.action \in BadActions, CapReasonOf(r.action), DQ_VALUE))
  BY BindingValues, CapIfBinds
<1>5. QED
  BY <1>3, <1>4, BindsOneOf

(* ... Judge D: a gap of severity fatal that is flagged, or a major one. *)
LEMMA FindingsOfDBind ==
  ASSUME NEW r \in ConclusionsOfD, (r.fatal /\ r.gap = "fatal") \/ r.gap = "major"
  PROVE  Binds(r.caps)
<1>1. r # InconclusiveD
  BY DEF InconclusiveD
<1>2. PICK ans \in AnswersOfD : r = JudgeD(ans)
  BY <1>1 DEF ConclusionsOfD
<1>3. r.caps = IF r.fatal /\ r.gap = "fatal" THEN CapIf(TRUE, "d_fatal", FATAL_GAP)
               ELSE CapIf(r.gap = "major", "d_major", KEY_LEMMA_UNPROVED)
  BY <1>2 DEF JudgeD
<1>4. QED
  BY <1>3, BindingValues, CapIfBinds

(* ... Judge E: a leak. *)
LEMMA FindingsOfEBind ==
  ASSUME NEW r \in ConclusionsOfE, r.class = "leak"
  PROVE  Binds(r.caps)
<1>1. r # InconclusiveE
  BY DEF InconclusiveE
<1>2. PICK ans \in AnswersOfE : r = JudgeE(ans)
  BY <1>1 DEF ConclusionsOfE
<1>3. r.caps = CapIf(TRUE, "e_leak", DQ_VALUE)
  BY <1>2 DEF JudgeE, CapIf
<1>4. QED
  BY <1>3, BindingValues, CapIfBinds

(* Reasons that speak of cheating or of missing outputs go with the cap 0. *)
GraveIsZero(caps) ==
  \A k \in caps :
    k.reason \in SaysDisqualified \cup SaysContamin \cup SaysMissing => k.cap = DQ_VALUE

CapsOfThisRun ==
  pc \in {"report", "done"} =>
    /\ weighted_score(subscores) \in 0 .. FullScore
    /\ all_caps \in SUBSET Cap /\ GraveIsZero(all_caps)

(* ... of two sets of caps: *)
LEMMA GraveOfBoth ==
  ASSUME NEW one, NEW other, GraveIsZero(one), GraveIsZero(other)
  PROVE  GraveIsZero(one \cup other)
BY DEF GraveIsZero

(* ... of a cap under a condition: *)
LEMMA GraveOfCapIf ==
  ASSUME NEW condition, NEW reason, NEW cap,
         \/ cap = DQ_VALUE
         \/ reason \notin SaysDisqualified \cup SaysContamin \cup SaysMissing
  PROVE  GraveIsZero(CapIf(condition, reason, cap))
BY DEF GraveIsZero, CapIf

(* ... of every judge's conclusion. *)
LEMMA GraveOfConclusions ==
  /\ \A s, corpus : GraveIsZero(JudgeA(s, corpus).caps)
  /\ \A r \in ConclusionsOfB \cup ConclusionsOfC \cup ConclusionsOfD \cup ConclusionsOfE :
       GraveIsZero(r.caps)
<1> DEFINE grave == SaysDisqualified \cup SaysContamin \cup SaysMissing
<1>1. /\ "survey_only" \notin grave /\ "b_moderate" \notin grave
      /\ "b_inconclusive" \notin grave /\ "d_fatal" \notin grave /\ "d_major" \notin grave
  BY DEF SaysDisqualified, SaysContamin, SaysMissing
<1>2. ASSUME NEW s, NEW corpus PROVE GraveIsZero(JudgeA(s, corpus).caps)
  BY <1>1, GraveOfBoth, GraveOfCapIf DEF JudgeA
<1>3. ASSUME NEW r \in ConclusionsOfB PROVE GraveIsZero(r.caps)
  <2>1. GraveIsZero(InconclusiveB.caps)
    BY <1>1, GraveOfCapIf DEF InconclusiveB
  <2>2. ASSUME NEW ans PROVE GraveIsZero(JudgeB(ans).caps)
    BY <1>1, GraveOfBoth, GraveOfCapIf DEF JudgeB
  <2>3. QED
    BY <2>1, <2>2 DEF ConclusionsOfB
<1>4. ASSUME NEW r \in ConclusionsOfD PROVE GraveIsZero(r.caps)
  <2>1. GraveIsZero(InconclusiveD.caps)
    BY DEF InconclusiveD, GraveIsZero
  <2>2. ASSUME NEW ans PROVE GraveIsZero(JudgeD(ans).caps)
    BY <1>1, GraveOfCapIf DEF JudgeD
  <2>3. QED
    BY <2>1, <2>2 DEF ConclusionsOfD
<1>5. ASSUME NEW r \in ConclusionsOfE PROVE GraveIsZero(r.caps)
  <2>1. GraveIsZero(InconclusiveE.caps)
    BY DEF InconclusiveE, GraveIsZero
  <2>2. ASSUME NEW ans PROVE GraveIsZero(JudgeE(ans).caps)
    BY <1>1, GraveOfCapIf DEF JudgeE
  <2>3. QED
    BY <2>1, <2>2 DEF ConclusionsOfE
<1>6. ASSUME NEW r \in ConclusionsOfC PROVE GraveIsZero(r.caps)
  <2>1. r.caps = {}
    BY DEF ConclusionsOfC, JudgeC, InconclusiveC
  <2>2. QED
    BY <2>1 DEF GraveIsZero
<1>7. QED
  BY <1>2, <1>3, <1>4, <1>5, <1>6

(* What the leaderboard assumes of the outcome of an evaluation: scores    *)
(* and caps have their types, and evidence of cheating, or missing         *)
(* outputs, come with the cap 0 (a_protocol.py:173-207,                    *)
(* b_contamination.py:137-161, e_novelty.py).                              *)
THEOREM CapsTheorem == Spec => []CapsOfThisRun
<1>1. Inv => CapsOfThisRun
  <2>1. SUFFICES ASSUME Inv, pc \in {"report", "done"}
                 PROVE  /\ weighted_score(subscores) \in 0 .. FullScore
                        /\ all_caps \in SUBSET Cap /\ GraveIsZero(all_caps)
    BY DEF CapsOfThisRun
  <2>2. AllIn
    BY <2>1, AllInBeforeReport DEF Inv
  <2>3. Report.weighted \in 0 .. FullScore /\ all_caps \in SUBSET Cap
    BY <2>1, <2>2, ReportInRange DEF Inv, TypeOK
  <2>4. /\ GraveIsZero(a.caps) /\ GraveIsZero(b.caps) /\ GraveIsZero(c.caps)
        /\ GraveIsZero(d.caps) /\ GraveIsZero(e.caps)
    BY <2>1, GraveOfConclusions DEF Inv, Sequenced
  <2>5. GraveIsZero(all_caps)
    BY <2>4 DEF GraveIsZero, all_caps
  <2>6. QED
    BY <2>3, <2>5 DEF Report
<1>2. QED
  BY <1>1, Invariance, PTL

(* A RANKED report says that no judge found anything its code has a cap for*)
(* (rubric.py:90-103, orchestrator.py:83-92).  It says nothing of findings *)
(* without a cap: a gap of severity fatal that is not flagged, a flagged   *)
(* one of severity moderate or minor, a schema error.                      *)
THEOREM RankedTheorem == Spec => []RankedOnlyIfUncapped
<1>1. Inv => RankedOnlyIfUncapped
  <2>1. SUFFICES ASSUME Inv, report # None, report.verdict = "RANKED"
                 PROVE  /\ input.submission.missing = {}
                        /\ citations_outside_corpus(input.submission, input.corpus) = {}
                        /\ contamination_hits(input.submission) = {}
                        /\ ~ no_new_lemmas(input.submission)
                        /\ ~ (b.found /\ b.severity \in {"moderate", "major"})
                        /\ b.action \notin BadActions
                        /\ d.gap # "major" /\ (d.gap = "fatal" => ~ d.fatal)
                        /\ e.class # "leak"
                        /\ report.final > 0
    BY DEF RankedOnlyIfUncapped
  <2>2. pc = "done" /\ report.verdict = Report.verdict /\ report.final = Report.final
    BY <2>1 DEF Inv, ReportIsComputed
  <2>3. all_caps = {} /\ Report.final # DQ_VALUE
    BY <2>1, <2>2, VerdictMeaning DEF Report
  <2>4. AllIn
    BY <2>1, <2>2, AllInBeforeReport DEF Inv
  <2>5. Report.final \in 0 .. FullScore
    BY <2>1, <2>4, ReportInRange DEF Inv, TypeOK, ReportType
  <2>6. ~ Binds(a.caps) /\ ~ Binds(b.caps) /\ ~ Binds(d.caps) /\ ~ Binds(e.caps)
    BY <2>3 DEF all_caps, Binds
  <2>7. /\ a = JudgeA(input.submission, input.corpus)
        /\ b \in ConclusionsOfB /\ d \in ConclusionsOfD /\ e \in ConclusionsOfE
    BY <2>1, <2>2 DEF Inv, Sequenced
  <2>8. report.final > 0
    <3>1. FullScore \in Nat /\ DQ_VALUE = 0
      BY DEF DQ_VALUE, FullScore, Point, QuarterPoints
    <3>2. report.final \in Nat /\ report.final # 0
      BY <3>1, <2>2, <2>3, <2>5
    <3>3. QED
      BY <3>2
  <2>9. QED
    BY <2>6, <2>7, <2>8, FindingsOfABind, FindingsOfBBind, FindingsOfDBind, FindingsOfEBind
<1>2. QED
  BY <1>1, Invariance, PTL

(* The caps a report lists are those that explain its score                *)
(* (rubric.py:73-87): each bounds it, the lowest is the score when it was  *)
(* lowered, and no disqualifying cap is left out.                          *)
THEOREM AppliedCapsTheorem == Spec => []AppliedCapsExplain
<1>1. Inv => AppliedCapsExplain
  <2>1. SUFFICES ASSUME Inv, report # None
                 PROVE  /\ \A k \in report.applied :
                             k.cap <= report.weighted /\ report.final <= k.cap
                        /\ report.final < report.weighted =>
                             \E k \in report.applied : k.cap = report.final
                        /\ \A k \in all_caps : k.cap = DQ_VALUE => k \in report.applied
    BY DEF AppliedCapsExplain
  <2>2. /\ pc = "done" /\ report.weighted = Report.weighted
        /\ report.final = Report.final /\ report.applied = Report.applied
    BY <2>1 DEF Inv, ReportIsComputed
  <2>3. AllIn
    BY <2>1, <2>2, AllInBeforeReport DEF Inv
  <2>4. all_caps \in SUBSET Cap /\ Report.weighted \in 0 .. FullScore
    BY <2>1, <2>3, ReportInRange DEF Inv, TypeOK
  <2> DEFINE weighted == Report.weighted
             final == FinalScore(weighted, all_caps)
  <2>5. /\ report.weighted = weighted /\ report.final = final
        /\ report.applied = {k \in all_caps : k.cap <= weighted}
    BY <2>2 DEF Report, BindingCaps
  <2>6. /\ final \in 0 .. FullScore /\ final <= weighted
        /\ \A k \in all_caps : final <= k.cap
        /\ final = weighted \/ \E k \in all_caps : final = k.cap
    BY <2>4, FinalScoreIsBounded
  <2>7. FullScore \in Nat /\ DQ_VALUE = 0
    BY DEF FullScore, Point, QuarterPoints, DQ_VALUE
  <2> HIDE DEF weighted, final
  <2>8. weighted \in Nat /\ final \in Nat
    BY <2>4, <2>6, <2>7 DEF weighted
  <2>9. final < weighted => \E k \in all_caps : k.cap <= weighted /\ k.cap = final
    BY <2>6, <2>8
  <2>10. \A k \in all_caps : k.cap = DQ_VALUE => k.cap <= weighted
    BY <2>7, <2>8
  <2>11. QED
    BY <2>5, <2>6, <2>9, <2>10
<1>2. QED
  BY <1>1, Invariance, PTL

(* Nobody is CONTAMINATED without evidence: the words verdict_from looks   *)
(* for come from the caps for phrases, for Judge B's major evidence or     *)
(* recommendation, and for Judge E's leak, and from no other.              *)
LEMMA ContaminWordsAreEvidence ==
  ASSUME Inv, pc = "done", Mentions(all_caps, SaysContamin)
  PROVE  \/ contamination_hits(input.submission) # {}
         \/ b.found /\ b.severity = "major"
         \/ b.action = "contaminated_not_ranked"
         \/ e.class = "leak"
<1>1. PICK k \in a.caps \cup b.caps \cup c.caps \cup d.caps \cup e.caps :
        k.reason \in {"phrase_bank", "b_major", "b_contaminated_not_ranked", "e_leak"}
  BY DEF Mentions, SaysContamin, all_caps
<1>2. /\ a = JudgeA(input.submission, input.corpus)
      /\ b \in ConclusionsOfB /\ c \in ConclusionsOfC
      /\ d \in ConclusionsOfD /\ e \in ConclusionsOfE
  BY DEF Inv, Sequenced
<1>3. CASE k \in a.caps
  BY <1>1, <1>2, <1>3 DEF JudgeA, CapIf
<1>4. CASE k \in b.caps
  <2>1. b # InconclusiveB
    BY <1>1, <1>4 DEF InconclusiveB, CapIf
  <2>2. PICK ans \in AnswersOfB : b = JudgeB(ans)
    BY <1>2, <2>1 DEF ConclusionsOfB
  <2>3. b.caps = CapIf(b.found /\ b.severity = "major", "b_major", DQ_VALUE)
                 \cup CapIf(b.found /\ b.severity = "moderate", "b_moderate",
                            MEDIUM_CONTAMINATION_RISK)
                 \cup CapIf(b.action \in BadActions, CapReasonOf(b.action), DQ_VALUE)
    BY <2>2 DEF JudgeB
  <2>4. QED
    BY <1>1, <1>4, <2>3 DEF CapIf, CapReasonOf, BadActions
<1>5. c.caps = {}
  BY <1>2 DEF ConclusionsOfC, JudgeC, InconclusiveC
<1>6. k \notin d.caps
  <2>1. CASE d = InconclusiveD
    BY <2>1 DEF InconclusiveD
  <2>2. CASE d # InconclusiveD
    <3>1. PICK ans \in AnswersOfD : d = JudgeD(ans)
      BY <1>2, <2>2 DEF ConclusionsOfD
    <3>2. \A x \in d.caps : x.reason \in {"d_fatal", "d_major"}
      BY <3>1 DEF JudgeD, CapIf
    <3>3. QED
      BY <1>1, <3>2
  <2>3. QED
    BY <2>1, <2>2
<1>7. CASE k \in e.caps
  <2>1. e # InconclusiveE
    BY <1>7 DEF InconclusiveE
  <2>2. PICK ans \in AnswersOfE : e = JudgeE(ans)
    BY <1>2, <2>1 DEF ConclusionsOfE
  <2>3. e.caps = CapIf(e.class = "leak", "e_leak", DQ_VALUE)
    BY <2>2 DEF JudgeE
  <2>4. QED
    BY <1>7, <2>3 DEF CapIf
<1>8. QED
  BY <1>1, <1>3, <1>4, <1>5, <1>6, <1>7

(* A report says CONTAMINATED only on evidence of contamination            *)
(* (rubric.py:95-96 on the reasons the judges write).                      *)
THEOREM ContaminatedTheorem == Spec => []ContaminatedOnlyOnEvidence
<1>1. Inv => ContaminatedOnlyOnEvidence
  <2>1. SUFFICES ASSUME Inv, report # None, report.verdict = "CONTAMINATED"
                 PROVE  \/ contamination_hits(input.submission) # {}
                        \/ b.found /\ b.severity = "major"
                        \/ b.action = "contaminated_not_ranked"
                        \/ e.class = "leak"
    BY DEF ContaminatedOnlyOnEvidence
  <2>2. pc = "done" /\ verdict_from(Report.final, all_caps) = "CONTAMINATED"
    BY <2>1 DEF Inv, ReportIsComputed, Report
  <2>3. Mentions(all_caps, SaysContamin)
    BY <2>2 DEF verdict_from
  <2>4. QED
    BY <2>1, <2>2, <2>3, ContaminWordsAreEvidence
<1>2. QED
  BY <1>1, Invariance, PTL

-----------------------------------------------------------------------------
(* Refinement: a run of the judge stack is an evaluation of the contract.  *)

(* The contract's rubric is this one. *)
LEMMA SameRubric ==
  /\ Contract!FullScore = FullScore /\ Contract!DQ_VALUE = DQ_VALUE
  /\ Contract!CapValues = CapValues /\ Contract!Verdicts = Verdicts
BY DEF Contract!FullScore, Contract!DQ_VALUE, Contract!CapValues, Contract!Verdicts,
       Contract!Point, Contract!QuarterPoints, Contract!SURVEY_ONLY,
       Contract!KEY_LEMMA_UNPROVED, Contract!FATAL_GAP,
       Contract!MEDIUM_CONTAMINATION_RISK, Contract!NotBinding,
       FullScore, DQ_VALUE, CapValues, Verdicts, Point, QuarterPoints, SURVEY_ONLY,
       KEY_LEMMA_UNPROVED, FATAL_GAP, MEDIUM_CONTAMINATION_RISK, NotBinding

(* A report is a sound score: in range, under every cap of every judge,    *)
(* and with a verdict no kinder than the caps allow.                       *)
LEMMA PublishedIsSound ==
  ASSUME AllIn, gold \in 0 .. MaxGoldEdits
  PROVE  LET p == [weighted |-> Report.weighted, ceilings |-> {k.cap : k \in all_caps},
                   final |-> Report.final, verdict |-> Report.verdict]
         IN  p \in Contract!Score /\ Contract!Sound(p)
<1> DEFINE ceilings == {k.cap : k \in all_caps}
           final == Report.final
           weighted == Report.weighted
           verdict == Report.verdict
<1>1. /\ Report \in ReportType /\ all_caps \in SUBSET Cap
      /\ weighted \in 0 .. FullScore
  BY ReportInRange
<1>2. /\ final \in 0 .. FullScore /\ final <= weighted
      /\ \A k \in all_caps : final <= k.cap
      /\ final = weighted \/ \E k \in all_caps : final = k.cap
  BY <1>1, FinalScoreIsBounded DEF Report
<1>3. ceilings \subseteq CapValues /\ (all_caps = {} <=> ceilings = {})
  BY <1>1 DEF Cap
<1>4. /\ verdict \in Verdicts
      /\ verdict = "RANKED" <=> all_caps = {} /\ final # DQ_VALUE
      /\ verdict = "FLAGGED" => all_caps # {} /\ final # DQ_VALUE
  BY VerdictMeaning DEF Report
<1>5. DQ_VALUE = 0 /\ FullScore \in Nat
  BY DEF DQ_VALUE, FullScore, Point, QuarterPoints
<1>6. /\ \A v \in ceilings : final <= v
      /\ final = weighted \/ final \in ceilings
  BY <1>2
<1> HIDE DEF ceilings, final, weighted, verdict
<1>7. final > 0 <=> final # DQ_VALUE
  BY <1>2, <1>5
<1>8. DQ_VALUE \in ceilings => final = DQ_VALUE
  BY <1>2, <1>5, <1>6
<1>9. DQ_VALUE \in ceilings => verdict \in {"DISQUALIFIED", "CONTAMINATED", "FAILED"}
  BY <1>4, <1>8 DEF Verdicts
<1> DEFINE p == [weighted |-> weighted, ceilings |-> ceilings,
                 final |-> final, verdict |-> verdict]
<1>10. p \in Contract!Score
  BY <1>1, <1>2, <1>3, <1>4, SameRubric DEF Contract!Score
<1>11. Contract!Sound(p)
  BY <1>2, <1>3, <1>4, <1>6, <1>7, <1>9, SameRubric DEF Contract!Sound, Contract!NotRanked
<1>12. QED
  BY <1>10, <1>11 DEF weighted, ceilings, final, verdict

(* What a step does to the phase of an evaluation. *)
LEMMA StepOfPhases ==
  ASSUME [Next]_vars, Inv
  PROVE  \/ WriteReport
         \/ pc' = "aborted" /\ pc \notin Ended /\ report' = report
         \/ pc \notin Ended /\ pc' \notin Ended /\ report' = report
         \/ UNCHANGED <<pc, a, b, c, d, e, report>>
<1>1. CASE RunJudgeA
  BY <1>1 DEF RunJudgeA, Ended
<1>2. CASE CrashInJudgeA \/ CrashInJudgeB \/ CrashLoadingMeta
  BY <1>2 DEF CrashInJudgeA, CrashInJudgeB, CrashLoadingMeta, Call, Ended
<1>3. CASE \E j \in LLMJudges : TransportError(j) \/ MalformedResponse(j)
  BY <1>3 DEF TransportError, MalformedResponse, Call, Ended, LLMJudges
<1>4. CASE Answer \/ Inconclusive
  BY <1>4 DEF Answer, Inconclusive, ResultOfB, ResultOfC, ResultOfD, ResultOfE, Call, Ended
<1>5. CASE EditGold \/ UNCHANGED vars
  BY <1>5 DEF EditGold, vars
<1>6. QED
  BY <1>1, <1>2, <1>3, <1>4, <1>5 DEF Next, Evaluate

(* A run of the judge stack publishes at most one score, and a sound one   *)
(* (orchestrator.py:43-141): it implements EvaluationContract.             *)
THEOREM ContractTheorem == Spec => ImplementsContract
<1> DEFINE score == [weighted |-> report.weighted, ceilings |-> {k.cap : k \in all_caps},
                     final |-> report.final, verdict |-> report.verdict]
           public == IF report = None THEN None ELSE score
           phase == CASE pc = "done" -> "published"
                      [] pc = "aborted" -> "failed"
                      [] OTHER -> "running"
<1>1. Init => Contract!Init
  BY DEF Init, Contract!Init
<1>2. Inv /\ [Next]_vars => [Contract!Next]_<<phase, public>>
  <2>1. SUFFICES ASSUME Inv, [Next]_vars
                 PROVE  Contract!Next \/ UNCHANGED <<phase, public>>
    OBVIOUS
  <2>2. CASE WriteReport
    <3>1. AllIn /\ gold \in 0 .. MaxGoldEdits
      BY <2>1, <2>2, AllInBeforeReport DEF Inv, TypeOK, WriteReport
    <3>2. Report \in ReportType
      BY <3>1, ReportInRange
    <3>3. report' = Report /\ report' # None /\ all_caps' = all_caps
      BY <2>2, <3>2, StackAssumption DEF WriteReport, all_caps
    <3>4. public' = [weighted |-> Report.weighted, ceilings |-> {k.cap : k \in all_caps},
                     final |-> Report.final, verdict |-> Report.verdict]
      BY <3>3
    <3>5. public' \in Contract!Score /\ Contract!Sound(public')
      BY <3>1, <3>4, PublishedIsSound
    <3>6. phase = "running" /\ phase' = "published"
      BY <2>2 DEF WriteReport
    <3>7. QED
      BY <3>5, <3>6 DEF Contract!Next, Contract!Publish
  <2>3. CASE pc' = "aborted" /\ pc \notin Ended /\ report' = report
    <3>1. report = None /\ report' = None
      BY <2>1, <2>3 DEF Inv, ReportIsComputed, Ended
    <3>2. QED
      BY <2>3, <3>1 DEF Contract!Next, Contract!GiveUp, Ended
  <2>4. CASE pc \notin Ended /\ pc' \notin Ended /\ report' = report
    <3>1. report = None /\ report' = None
      BY <2>1, <2>4 DEF Inv, ReportIsComputed, Ended
    <3>2. QED
      BY <2>4, <3>1 DEF Ended
  <2>5. CASE UNCHANGED <<pc, a, b, c, d, e, report>>
    BY <2>5 DEF all_caps
  <2>6. QED
    BY <2>1, <2>2, <2>3, <2>4, <2>5, StepOfPhases
<1>3. QED
  BY <1>1, <1>2, Invariance, PTL DEF Spec, ImplementsContract, Contract!Spec,
                                     Contract!contractVars
=============================================================================
