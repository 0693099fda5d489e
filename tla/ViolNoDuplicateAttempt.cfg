CONSTANTS
  Devices = {d1, d2}
  Tasks = {review, test}
  TestTasks = {test}
  MaxAttempts = 2
  MaxFailures = 0
SPECIFICATION Spec
INVARIANT NoDuplicateAttempt
CHECK_DEADLOCK FALSE
