CONSTANTS
  Tabs = {t1, t2}
  Requests = {r1}
  MaxSessions = 3
SPECIFICATION SessionsSpec
INVARIANT OverlapKeepsSession
CHECK_DEADLOCK FALSE
