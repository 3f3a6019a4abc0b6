SPECIFICATION Spec
CONSTANTS
  RuleList <- MCRuleList
  OwnLevel <- MCOwnLevel
  Ignorable = "unknown"
  Stdin = "-"
  Cases <- MCCases
  Malformed = Malformed
  FilesBeside <- MCFilesBeside
INVARIANTS
  LevelsAsPromised
  VerdictIsWhole
