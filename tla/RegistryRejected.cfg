SPECIFICATION Spec
CONSTANTS
  NumDists = 1
  NumReleases = 1
  Requests <- MCBackfillOne
  FormatLists <- MCBoth
  Retain = 0
  Milestones <- MCNoMilestones
  MaxRuns = 1
INVARIANTS
  RejectedRunTouchesNothing
