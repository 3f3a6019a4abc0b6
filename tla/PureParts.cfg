SPECIFICATION Spec
CONSTANTS
  MaxExpandedNodes <- MCMaxExpandedNodes
  SuppliedNames <- MCSuppliedNames
  SuppliedLists <- MCSuppliedLists
  SuppliedKeys = {"A"}
  SuppliedPipes <- MCSuppliedPipes
  Connectors <- MCConnectors
  BatchTypes <- MCBatchTypes
  StdinMarker <- MCStdinMarker
  Elements <- MCElements
  Yaml = {"a.yaml", "c.yml", "d.yml", "c.yaml", "x.yaml"}
  SkippedNames = {".git", "vendor"}
  ScalarKeys = {"collectorVersion", "insecureSchemaLocation"}
  DefaultOption <- MCDefaultOption
  ExplicitDir = 9
  WorkingDir = 0
  MaxSettingsDepth = 4
  ExtensionFields <- MCExtensionFields
  UpstreamNames = {"", "core", "contrib", "k8s", "otlp"}
  StrictFrom = 105
  FieldRuleNames <- MCFieldRuleNames
  Values <- MCValues
  Holes <- MCHoles
  DecodingTargets <- MCDecodingTargets
  MaxFieldDepth = 12
  MaxAliasHops = 4
  ComponentID = "ID"
  SampleDepth = 3
  SampleOf <- MCSampleOf
  KindOrder <- MCKindOrder
  ElementOf <- MCElementOf
  RepositoryRoots <- MCRepositoryRoots
  DecoderModules <- MCDecoderModules
  BadNames = {"a/b"}
  ProcessorNames <- MCProcessorNames
  SuppliedNumbers <- MCSuppliedNumbers
  UnitSizes <- MCUnitSizes
  MaxInt = 32767
  MaxUint = 255
  Mib = 16
  Overhead = 40
  DefaultSize = 16
  IntervalFloor = 2
  IntervalCeiling = 50
  Second = 100
  MaxDelay = 1000
  SiblingOrder <- MCSiblingOrder
  HintedTypes = {"a"}
  MaxHintCalls = 3
  PipelineOrder <- MCPipelineOrder
  Factories <- MCFactories
  Identifier <- MCIdentifier
  TypeForms = {"otlp", "traces", "trace"}
  NameForms = {"a"}
  CredentialKeys = {"token", "token_file", "token_env"}
  LocationKeys = {"token_file"}
  MetadataKeys = {"token_env"}
  HeaderKeys = {"authorization"}
  RuleNames = {1, 2}
  AnnotationLimit = 3
  KindSuffixes <- MCKindSuffixes
  LowerCase <- MCLowerCase
  Underscore = "_"
INVARIANTS
  ReleasesAreComparedRight
  ReferencesAreJudgedRight
  ConfigIsReadWhole
  RunStartsAsWritten
  FieldsAreJudgedRight
  SchemaIsWhatIsBuilt
  AdviceHolds
  NumbersAreRight
  HintsAreRight
  ReportsSayWhatWasFound
CHECK_DEADLOCK FALSE
