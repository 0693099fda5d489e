CONSTANTS
  Devices = {d1, d2}
  Tasks = {review, test}
  TestTasks = {test}
  MaxAttempts = 4
  MaxFailures = 1
SPECIFICATION Spec
INVARIANTS OnePlanWithItsTasks CompletedIsRecorded InProgressHasAttempt
SYMMETRY Symmetry
CHECK_DEADLOCK FALSE
