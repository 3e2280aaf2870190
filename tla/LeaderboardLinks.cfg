SPECIFICATION FairSpec
CONSTANTS
  Submissions <- MCSubmissions
  NoName = NoName
  Manifests <- MCManifests
  Outcomes <- MCOutcomes
  Garbage = Garbage
  Broken = Broken
  Strays <- MCStrays
  None = None
  MaxClock = 1
  MaxEvaluations = 2
INVARIANT LinksToOwnPage
CHECK_DEADLOCK FALSE
