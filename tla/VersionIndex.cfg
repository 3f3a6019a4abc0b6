SPECIFICATION Spec
CONSTANTS
  Callers = {"a", "b", "z"}
  RunOf <- MCRunOf
  NumReleases = 5
  ShipList <- MCShipList
  Publishes = TRUE
  Remote = TRUE
  WalkLimit = 4
  NoOne = "nobody"
INVARIANTS
  TypeOK
  AnswerIsWarranted
  ReportedHintIsSettled
  HintsOldestFirst
PROPERTIES
  IndexNeverRebuilt
  EveryFileSettles
