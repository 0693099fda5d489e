CONSTANTS
  Kinds <- MCKinds
  NQuestions = 1
  Values = {v1, v2}
  Blank = Blank
  Mistakes = {m1, m2}
  MaxCalls = 2
  MaxAttempts = 2
SPECIFICATION MCSpec
SYMMETRY Symmetry
INVARIANTS TypeOK SavedIsStored ShownHasHappened DueStaysOnPage DisabledWaits
CHECK_DEADLOCK FALSE
