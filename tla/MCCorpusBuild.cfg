SPECIFICATION FairSpec
CONSTANTS
  Papers <- MCPapers
  Released <- MCReleased
  Blocklist = {3}
  DEFAULT_CUTOFF = 2
  SeedCutoffs = {1, 2, 3}
  MaxTotals = {0, 2}
  Parses = {m1, m2}
  Replies <- MCReplies
  MaxPolls = 1
  Torn = Torn
  None = None
  MaxRuns = 2
INVARIANT TypeOK
INVARIANT OnlyPreCutoffPapers
INVARIANT LinesNameTheirFiles
INVARIANT CorpusAgrees
INVARIANT VerifiedCorpusWasBuilt
INVARIANT HashIgnoresOrder
INVARIANT FreshBuildIsWhole
INVARIANT OnlyFailuresAreMissing
PROPERTY RunAdvances
PROPERTY RunsEnd
CHECK_DEADLOCK FALSE
