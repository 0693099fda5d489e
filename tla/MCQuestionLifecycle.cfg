CONSTANTS
  Questions = {q1, q2}
  Admins = {a1, a2}
  MaxWrites = 3
  MaxFailures = 1
SPECIFICATION Spec
SYMMETRY Symmetry
INVARIANTS ShownVersionsStay OnlyLatestUnpublished PublishedInQuiz
PROPERTY EditReturnsToDraft
CHECK_DEADLOCK FALSE
