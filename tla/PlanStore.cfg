SPECIFICATION Spec
CONSTANTS
  PlanIds = {p1}
  StepLists <- MCStepLists
  FixLists <- MCFixLists
  ArtifactKeys = {"export"}
  MaxItems = 4
  MaxAttempts = 3
  MaxHandoffs = 1
INVARIANTS
  TypeOK
  AttemptsMatchRecords
  StatusTellsBoxes
  FailedHasReason
PROPERTIES
  LedgerGrows
  ItemsKeepTheirPlaces
  ImplementsGate
