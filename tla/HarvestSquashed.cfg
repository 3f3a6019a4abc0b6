SPECIFICATION SquashedSpec
CONSTANTS
  MaxSettingsDepth = 4
  ExtensionFields = {}
  UpstreamNames = {"", "core", "contrib", "k8s", "otlp"}
  StrictFrom = 105
  FieldRuleNames = {"unknown-field"}
  MaxFieldDepth = 12
  MaxAliasHops = 4
  ComponentID = "ID"
  SampleDepth = 3
  SampleOf <- MCSampleOf
  Values = {}
  Holes = {}
  DecodingTargets = {}
  KindOrder <- MCKindOrder
  ElementOf <- MCElementOf
  RepositoryRoots <- MCRepositoryRoots
  DecoderModules <- MCDecoderModules
  BadNames = {"a/b"}
INVARIANTS
  UnresolvedIsUnchecked
CHECK_DEADLOCK FALSE
