SPECIFICATION Spec
CONSTANTS
  Names <- MCNames
  Scans <- MCScans
INVARIANTS
  TypeOK
  ExitCodeIsTheVerdict
  ReportIsTrue
  ReportIsComplete
PROPERTIES
  CommandEnds
