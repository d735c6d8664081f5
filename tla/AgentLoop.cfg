SPECIFICATION FairSpec
CONSTANTS
  MaxTurns = 4
  ParseRetries = 1
  TransportRetries = 2
  MaxFailures = 2
  ExplorationLimit = 2
INVARIANTS
  TypeOK
  StreakIsExact
  StopIsPrompt
PROPERTIES
  Terminates
  ImplementsContract
