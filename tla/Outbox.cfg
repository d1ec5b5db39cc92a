SPECIFICATION MCSpec
CONSTANTS
  Entry = {1, 2}
  Candidate <- Candidates
  Process = {p1, p2}
  MaxVersion = 3
SYMMETRY Symmetric
CHECK_DEADLOCK FALSE
INVARIANTS PostedOnce OnlyApproved RecordIsTrue
