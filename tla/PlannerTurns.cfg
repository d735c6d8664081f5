SPECIFICATION Spec
CONSTANTS
  fact = fact
  other = other
  skill = skill
  HistoryMax = 1
  EarlierMax = 1
  FactsMax = 2
  FewFacts = 2
  NudgeEvery = 2
  GuardEvery = 3
  RefreshEvery = 4
  StreakHint = 2
  StreakStop = 3
  NamesOnlyFrom = 3
  Settings <- MCSettings
  Calls <- MCCalls
  Answers <- MCAnswers
  MaxTurns = 4
  ParseRetries = 1
  TransportRetries = 1
  ReplyChunks = 2
  MaxTold = 1
INVARIANTS MemoryIsRebuilt AnchorTellsTheTurns
PROPERTIES ConversationStands
