--------------------------- MODULE BaselineProofs ---------------------------
(***************************************************************************)
(* Proofs about BaselineJudging, for every run of a baseline, whatever its *)
(* model answered: without a lemma it stays under the survey-only cap, and *)
(* a baseline that saw the corpus it is judged against keeps the rules.    *)
(***************************************************************************)
EXTENDS BaselineJudging, JudgeStackProofs

(* What Judge A finds in a baseline's files: only the cap for no lemmas,   *)
(* unless its model wrote a phrase or a paper has left the corpus.         *)
LEMMA JudgeAOnBaseline ==
  ASSUME NEW run \in BaselineRun, NEW corpus \in Corpus
  PROVE  LET s == Outputs(run) IN
         /\ ~JudgeACrashes(s, corpus)
         /\ no_new_lemmas(s) <=> KeptLemmas(run) = {}
         /\ contamination_hits(s) = run.leaks
         /\ schema_errors(s) <=> BreaksSchema(run)
         /\ corpus.given /\ run.corpus \subseteq corpus.ids
              => citations_outside_corpus(s, corpus) = {}
         /\ ~corpus.given => citations_outside_corpus(s, corpus) = {}
<1> DEFINE s == Outputs(run)
<1>1. /\ s.missing = {} /\ s.graph = (IF BreaksSchema(run) THEN "invalid" ELSE "valid")
      /\ s.lemmas = (IF KeptLemmas(run) = {} THEN "none" ELSE "some")
      /\ s.cited = "valid" /\ s.cites = Cites(run) /\ s.leaks = run.leaks
      /\ s.manifest = "absent"
  BY DEF Outputs
<1>2. Cites(run) \subseteq run.corpus
  BY DEF Cites, BaselineRun
<1> HIDE DEF s
<1>3. HasGraph(s) /\ HasCited(s)
  BY <1>1 DEF HasGraph, HasCited
<1>4. ~JudgeACrashes(s, corpus)
  BY <1>1, <1>3 DEF JudgeACrashes
<1>5. no_new_lemmas(s) <=> KeptLemmas(run) = {}
  BY <1>1, <1>3 DEF no_new_lemmas
<1>6. contamination_hits(s) = run.leaks
  BY <1>1 DEF contamination_hits
<1>7. schema_errors(s) <=> BreaksSchema(run)
  BY <1>1, <1>3 DEF schema_errors
<1>8. corpus.given /\ run.corpus \subseteq corpus.ids => citations_outside_corpus(s, corpus) = {}
  BY <1>1, <1>2, <1>3 DEF citations_outside_corpus
<1>9. ~corpus.given => citations_outside_corpus(s, corpus) = {}
  BY DEF citations_outside_corpus
<1> QED BY <1>4, <1>5, <1>6, <1>7, <1>8, <1>9 DEF s

(* Normalising makes no lemma out of nothing. *)
LEMMA NoLemmaIsKept ==
  ASSUME NEW run, OffersNoLemma(run)
  PROVE  KeptLemmas(run) = {}
  BY DEF OffersNoLemma, KeptLemmas

(* Judge A's result is there or it is not, whatever ended the evaluation.  *)
ResultIsJudgeAs == a \in {None, JudgeA(input.submission, input.corpus)}

LEMMA ResultIsJudgeAsInvariant == Spec => []ResultIsJudgeAs
<1>1. Init => ResultIsJudgeAs
  BY DEF Init, ResultIsJudgeAs
<1>2. ResultIsJudgeAs /\ [Next]_vars => ResultIsJudgeAs'
  <2> SUFFICES ASSUME ResultIsJudgeAs, [Next]_vars
               PROVE  ResultIsJudgeAs'
    OBVIOUS
  <2>1. CASE RunJudgeA
    BY <2>1 DEF RunJudgeA, ResultIsJudgeAs
  <2>2. ASSUME a' = a, input' = input
        PROVE  ResultIsJudgeAs'
    BY <2>2 DEF ResultIsJudgeAs
  <2>3. ASSUME NEW r, ResultOfB(r) \/ ResultOfC(r) \/ ResultOfD(r) \/ ResultOfE(r)
        PROVE  a' = a /\ input' = input
    BY <2>3 DEF ResultOfB, ResultOfC, ResultOfD, ResultOfE
  <2>4. ASSUME NEW j \in LLMJudges, TransportError(j) \/ MalformedResponse(j)
        PROVE  a' = a /\ input' = input
    BY <2>4 DEF TransportError, MalformedResponse
  <2>5. ASSUME CrashInJudgeA \/ CrashInJudgeB \/ WriteReport \/ CrashLoadingMeta \/ EditGold
        PROVE  a' = a /\ input' = input
    BY <2>5 DEF CrashInJudgeA, CrashInJudgeB, WriteReport, CrashLoadingMeta, EditGold
  <2>6. ASSUME UNCHANGED vars
        PROVE  a' = a /\ input' = input
    BY <2>6 DEF vars
  <2>7. CASE Answer
    BY <2>2, <2>3, <2>7 DEF Answer
  <2>8. CASE Inconclusive
    BY <2>2, <2>3, <2>8 DEF Inconclusive
  <2> QED BY <2>1, <2>2, <2>4, <2>5, <2>6, <2>7, <2>8 DEF Next, Evaluate
<1> QED BY <1>1, <1>2, PTL DEF Spec

-----------------------------------------------------------------------------
(* rag_synthesis.py, zero_shot.py: the survey-only cap binds a baseline    *)
(* whose model offered no lemma, whatever the judges' models answer.       *)
THEOREM SurveyTheorem == Spec => []BaselinesAreCapped
<1>1. Inv => BaselinesAreCapped
  <2> SUFFICES ASSUME Inv, NEW run \in BaselineRuns, input.submission = Outputs(run),
                      OffersNoLemma(run), report # None
               PROVE  report.verdict # "RANKED" /\ report.final <= SURVEY_ONLY
    BY DEF BaselinesAreCapped
  <2>1. run \in BaselineRun /\ input.corpus \in Corpus
    BY BaselineAssumption, StackAssumption DEF Inv, TypeOK
  <2>2. no_new_lemmas(input.submission)
    BY <2>1, JudgeAOnBaseline, NoLemmaIsKept
  <2>3. /\ pc = "done" /\ report.verdict = Report.verdict /\ report.final = Report.final
        /\ a = JudgeA(input.submission, input.corpus)
    BY DEF Inv, ReportIsComputed, Sequenced
  <2> DEFINE survey == [reason |-> "survey_only", cap |-> SURVEY_ONLY]
  <2>4. survey \in a.caps
    BY <2>2, <2>3 DEF JudgeA, CapIf
  <2>5. survey \in all_caps
    BY <2>4, BindingValues DEF all_caps
  <2>6. AllIn
    BY <2>3, AllInBeforeReport DEF Inv
  <2>7. all_caps \in SUBSET Cap /\ Report.weighted \in 0 .. FullScore
    BY <2>6, ReportInRange DEF Inv, TypeOK
  <2>8. Report.final <= SURVEY_ONLY
    <3>1. Report.final = FinalScore(weighted_score(subscores), all_caps)
          /\ Report.weighted = weighted_score(subscores)
      BY DEF Report
    <3>2. FinalScore(weighted_score(subscores), all_caps) <= survey.cap
      BY <2>5, <2>7, <3>1, FinalScoreIsBounded
    <3> QED BY <3>1, <3>2
  <2>9. Report.verdict # "RANKED"
    <3>1. all_caps # {}
      BY <2>5
    <3> QED BY <3>1, VerdictMeaning DEF Report
  <2> QED BY <2>3, <2>8, <2>9
<1> QED BY <1>1, Invariance, PTL

(* corpus.py: a baseline judged against the corpus it ran on is not        *)
(* disqualified, and has no issues but for its model's empty texts.        *)
THEOREM RulesTheorem == Spec => []BaselinesKeepTheRules
<1>1. Inv /\ ResultIsJudgeAs => BaselinesKeepTheRules
  <2> SUFFICES ASSUME Inv, ResultIsJudgeAs, NEW run \in BaselineRuns,
                      input.submission = Outputs(run), run.leaks = {},
                      input.corpus.given => run.corpus \subseteq input.corpus.ids
               PROVE  /\ ~JudgeACrashes(input.submission, input.corpus)
                      /\ a # None => ~Disqualifies(a) /\ (a.issues => BreaksSchema(run))
    BY DEF BaselinesKeepTheRules
  <2> DEFINE s == input.submission
             corpus == input.corpus
  <2>1. run \in BaselineRun /\ corpus \in Corpus
    BY BaselineAssumption, StackAssumption DEF Inv, TypeOK
  <2>2. corpus.given \in BOOLEAN
    BY <2>1 DEF Corpus
  <2>3. /\ ~JudgeACrashes(s, corpus) /\ citations_outside_corpus(s, corpus) = {}
        /\ contamination_hits(s) = {} /\ (schema_errors(s) <=> BreaksSchema(run))
    BY <2>1, <2>2, JudgeAOnBaseline
  <2>4. s.missing = {}
    BY DEF Outputs
  <2>5. ASSUME a # None
        PROVE  ~Disqualifies(a) /\ (a.issues => BreaksSchema(run))
    <3>1. a = JudgeA(s, corpus)
      BY <2>5 DEF ResultIsJudgeAs
    <3>2. a.caps = CapIf(no_new_lemmas(s), "survey_only", SURVEY_ONLY)
      BY <2>3, <2>4, <3>1 DEF JudgeA, CapIf
    <3>3. \A k \in a.caps : k.cap = SURVEY_ONLY
      BY <3>2 DEF CapIf
    <3>4. SURVEY_ONLY # DQ_VALUE
      BY DEF SURVEY_ONLY, DQ_VALUE, Point, QuarterPoints
    <3>5. ~Disqualifies(a)
      BY <3>3, <3>4 DEF Disqualifies
    <3>6. a.issues = disqualifying_issues(s, corpus)
      BY <3>1 DEF JudgeA
    <3> QED BY <2>3, <2>4, <3>5, <3>6 DEF disqualifying_issues
  <2> QED BY <2>3, <2>5
<1> QED BY <1>1, Invariance, ResultIsJudgeAsInvariant, PTL
=============================================================================
