SPECIFICATION SharedIdSpec
CONSTANTS
  MaxExpandedNodes = 3
  SuppliedNames = {}
  SuppliedLists = {}
  SuppliedKeys = {}
  SuppliedPipes = {}
  Connectors = {}
  BatchTypes = {}
  ProcessorNames = {}
  PipelineOrder <- MCPipelineOrder
  Factories <- MCFactories
  Identifier <- MCIdentifier
  TypeForms = {"otlp", "traces", "trace"}
  NameForms = {"a"}
  CredentialKeys = {"token", "token_file", "token_env"}
  LocationKeys = {"token_file"}
  MetadataKeys = {"token_env"}
  HeaderKeys = {"authorization"}
INVARIANTS
  SignalsAreThoseWired
CHECK_DEADLOCK FALSE
