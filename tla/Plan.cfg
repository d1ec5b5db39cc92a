SPECIFICATION MCSpec
CONSTANTS
  p1 = p1
  p2 = p2
  Slug <- TwoSlugs
  Gap = 2
  Process = {p1, p2}
  MaxNodes = 4
  MaxShared = 3
CHECK_DEADLOCK FALSE
INVARIANTS LocatorsHold
PROPERTIES AmendmentLands
