SPECIFICATION Spec
CONSTANTS
  Names <- MCNames
  NormalOf <- MCNormalOf
  AgeOf <- MCAgeOf
  Latest = "latest"
  DefaultDistribution = "contrib"
  Cases <- MCCases
  MaxChanged = 1
INVARIANTS
  TypeOK
  SchemaIsTheOneAskedFor
  EarlierLocationsFirst
  LatestIsNewest
  FallbackOnlyWhenMissing
