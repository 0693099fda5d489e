CONSTANTS
  Attempts = {1, 2, 3}
  Questions = {1, 2, 3}
  Skills = {1, 2, 3}
  Tasks = {}
  NoTask = NoTask
  Submitters = {1, 2, 3}
  Order <- MCOrder
  Frozen <- MCOrder
  Edited = {}
  SkillsOf <- MCSkillsOf
  TaskOf <- MCTaskOf
  Target <- MCTarget
  PriorSeen <- MCPrior
  PriorCorrect <- MCPrior
  MaxInFlight = 0
  MaxFailures = 1
SPECIFICATION FairSpec
INVARIANTS NoDeadlock
PROPERTY SubmitReturns LedgerSpec
CHECK_DEADLOCK FALSE
