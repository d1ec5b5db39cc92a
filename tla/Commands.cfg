SPECIFICATION MCSpec
CONSTANTS
  e1 = e1
  e2 = e2
  k1 = k1
  k2 = k2
  k3 = k3
  k4 = k4
  g1 = g1
  g2 = g2
  Env = {e1, e2}
  KeyId = {k1, k2, k3, k4}
  Owner = owner
  Grant = {g1, g2}
  MaxGen = 2
  Effects = {0, 2}
  Family = {"fold", "lifecycle", "claim", "hook", "sweep"}
  MaxSeq = 2
  MaxDraw = 3
  Ahead = 2
INVARIANTS Reopens
PROPERTIES KeepsLedger EvaluatedOnce
CHECK_DEADLOCK FALSE
