SPECIFICATION Spec
CONSTANTS
  p1 = p1
  p2 = p2
  Proc = {p1, p2}
  MaxSessions = 2
  MaxCalls = 1
  MaxCrashes = 1
  Newest = 2
  Cap = 1
INVARIANTS RecordsAgree LogsAreTraces ArchiveBounded
SYMMETRY MCSymmetry
CHECK_DEADLOCK FALSE
