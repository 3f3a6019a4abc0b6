SPECIFICATION Spec
CONSTANTS
  NumPaths = 3
  Paths <- MCPaths
  Verdict <- MCVerdict
  NoPath = ""
  Concurrencies <- MCConcurrencies
INVARIANTS
  TypeOK
  DeliveredInFull
  NoWorkerOutlivesCall
  OneWriterPerSlot
PROPERTIES
  BatchSpec
