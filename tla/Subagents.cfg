SPECIFICATION FairSpec
CONSTANTS
  Texts <- MCTexts
  Total = 3
  MaxParallel = 2
  MaxNudges = 1
  MaxClock = 1
INVARIANTS AnswerInOrder ChildrenAreWaitedFor NeverReapplied StopStands
PROPERTIES Returns
CHECK_DEADLOCK FALSE
