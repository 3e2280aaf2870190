SPECIFICATION FairSpec
CONSTANTS
  Submissions <- MCSubmissions
  NoName = NoName
  Manifests <- MCManifests
  Outcomes <- MCOutcomes
  Garbage = Garbage
  Broken = Broken
  Strays <- MCStrays
  None = None
  MaxClock = 1
  MaxEvaluations = 2
INVARIANT TypeOK
INVARIANT IndexIsFair
INVARIANT ContaminationStaysVisible
INVARIANT RowsSplitByDirectoryOnly
INVARIANT LinksStrayWithinASecondOnly
INVARIANT UnloggedForTwoReasonsOnly
PROPERTY NeverGoesBack
PROPERTY EventuallyShown
CHECK_DEADLOCK FALSE
