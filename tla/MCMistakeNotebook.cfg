CONSTANTS
  Mistakes = {m1}
  Reviewers = {v1, v2, v3}
  MaxMisses = 3
  MaxRights = 4
  MaxFailures = 1
SPECIFICATION Spec
INVARIANTS CountsEveryMiss StateHasItsSchedule MasteredAfterThree
SYMMETRY Symmetry
CHECK_DEADLOCK FALSE
