SPECIFICATION FairSpec
CONSTANTS
  Papers <- MCPapers
  Released <- MCReleased
  Blocklist = {3}
  DEFAULT_CUTOFF = 3
  SeedCutoffs = {1, 3, 4}
  MaxTotals = {0, 3, 9}
  Queries <- MCQueries
  Matches <- MCMatches
  Unparsable <- MCUnparsable
  MaxResults = {0, 1, 3, 9}
  page_size = 2
  Torn = Torn
  None = None
INVARIANT TypeOK
INVARIANT SearchIsComplete
INVARIANT OneVersionEach
PROPERTY ImplementsHarvest
PROPERTY SearchAdvances
PROPERTY SearchEnds
CHECK_DEADLOCK FALSE
