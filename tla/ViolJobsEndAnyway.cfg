CONSTANTS
  Books = {b1}
  Workers = {w1}
  MaxAttempts = 3
  MaxUploads = 1
  MaxErrors = 0
  MaxLosses = 1
SPECIFICATION FairSpec
PROPERTY JobsEndAnyway
CHECK_DEADLOCK FALSE
