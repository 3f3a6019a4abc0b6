SPECIFICATION Spec
CONSTANTS
  NumDists = 1
  NumReleases = 3
  Requests <- MCBackfill
  FormatLists <- MCMixed
  Retain = 1
  Milestones <- MCMilestones
  MaxRuns = 3
INVARIANTS
  IndexesAreTheDirectory
  NeverQuietlyShort
PROPERTIES
  RetentionIsKept
