SPECIFICATION FairSpec
CONSTANTS
  Matter = {1, 3}
  Step = {2}
  ParentOf <- Parents
  Unplanned = {2}
  BlockedBy <- Edges
  Gated = {1}
  Run = {1}
  Frozen <- BothMatters
  Anonymous <- NamedBatch
  w1 = w1
  w2 = w2
  Worktree = {w1}
  Handled = {1, 3}
  Cap = 1
  MaxPasses = 2
INVARIANTS ClosedRunIsSettled
PROPERTIES PassEnds
CHECK_DEADLOCK FALSE
