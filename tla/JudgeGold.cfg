SPECIFICATION FairSpec
CONSTANTS
  p1 = p1
  p2 = p2
  Papers <- MCPapers
  Absent = Absent
  NotNumber = NotNumber
  NaN = NaN
  None = None
  Inputs <- MCInputs
  BaselineRuns <- MCBaselineRuns
  AnswersOfB <- MCAnswersOfB
  AnswersOfC <- MCAnswersOfC
  AnswersOfD <- MCAnswersOfD
  AnswersOfE <- MCAnswersOfE
  MaxGoldEdits = 1
INVARIANT RecordedGoldIsGraded
CHECK_DEADLOCK FALSE
