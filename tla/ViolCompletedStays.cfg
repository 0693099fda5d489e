CONSTANTS
  Devices = {d1, d2}
  Tasks = {review, test}
  TestTasks = {test}
  MaxAttempts = 2
  MaxFailures = 0
SPECIFICATION Spec
PROPERTY CompletedStays
CHECK_DEADLOCK FALSE
