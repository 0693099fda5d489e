CONSTANTS
  Attempts = {a1}
  Questions = {1, 2}
  Skills = {1, 2}
  Tasks = {t1}
  NoTask = NoTask
  Submitters = {r1}
  Order <- MCOrder
  Frozen <- MCFrozen
  Edited = {}
  SkillsOf <- MCSkillsOf
  TaskOf <- MCTaskOf
  Target <- MCTarget
  PriorSeen <- MCPriorSeen
  PriorCorrect <- MCPriorCorrect
  MaxInFlight = 1
  MaxFailures = 0
SPECIFICATION Spec
PROPERTY BlankOnlyUnanswered
CHECK_DEADLOCK FALSE
