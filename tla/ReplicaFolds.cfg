SPECIFICATION TreeSpec
CONSTANTS
  e1 = e1
  e2 = e2
  s1 = s1
  s2 = s2
  d1 = d1
  d2 = d2
  d3 = d3
  n1 = n1
  x1 = x1
  x2 = x2
  run1 = run1
  r1 = r1
  r2 = r2
  Env = {e1, e2}
  Slug = {s1, s2}
  Dispatch = {d1, d2, d3}
  Nonce = {n1}
  Ref = {x1, x2}
  Name = {s1, s2}
  Run = {run1}
  Role = {r1, r2}
  Level = "boundary"
  NoCmd = NoCmd
  NoSlug = NoSlug
  NoRun = NoRun
  Gap = 2
  MaxSeq = 30
  MaxLog = 60
  MaxPlan = 1
  MaxGate = 13
  MaxRelation = 8
  MaxTracker = 9
  MaxBatch = 8
  MaxSweep = 11
  MaxRole = 12
  MaxBirths = 5
  MaxClaims = 6
  MaxTree = 7
INVARIANT ClientFolds
CHECK_DEADLOCK FALSE
