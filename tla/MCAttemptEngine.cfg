CONSTANTS
  Attempts = {a1}
  Questions = {1, 2}
  Skills = {1, 2}
  Tasks = {t1}
  NoTask = NoTask
  Submitters = {r1, r2}
  Order <- MCOrder
  Frozen <- MCFrozen
  Edited = {2}
  SkillsOf <- MCSkillsOf
  TaskOf <- MCTaskOf
  Target <- MCTarget
  PriorSeen <- MCPriorSeen
  PriorCorrect <- MCPriorCorrect
  MaxInFlight = 1
  MaxFailures = 1
SPECIFICATION Spec
INVARIANTS ResultIffSubmitted ReplyIsStored SideEffectsFollow
PROPERTY LedgerSpec
CHECK_DEADLOCK FALSE
