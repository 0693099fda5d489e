CONSTANTS
  Questions = {q1}
  Admins = {a1, a2}
  MaxWrites = 3
  MaxFailures = 0
SPECIFICATION Spec
INVARIANT PublishedWasReviewed
CHECK_DEADLOCK FALSE
