SPECIFICATION Spec
CONSTANTS
  Matter = {1}
  Step = {2}
  ParentOf <- Parents
  Unplanned = {2}
  BlockedBy = {}
  Gated = {1}
  Run = {1, 2}
  Frozen <- FrozenSets
  Anonymous <- Batches
  w1 = w1
  w2 = w2
  Worktree = {w1, w2}
  Handled = {1}
  Cap = 1
  MaxPasses = 2
SYMMETRY Symmetric
INVARIANTS OneWorker ClosedIsQuiet
CHECK_DEADLOCK FALSE
