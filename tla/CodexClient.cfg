SPECIFICATION FairSpec
CONSTANTS
  Launches = {"plain", "plugins"}
  MaxPrompts = 2
  MaxDeltas = 1
  PipeSize = 1
INVARIANTS AnswerIsOwn ThreadIsOwn ApprovalsAnswered
PROPERTIES PromptEnds
CHECK_DEADLOCK FALSE
