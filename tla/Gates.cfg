SPECIFICATION MCSpec
CONSTANTS
  m1 = m1  s1 = s1  t1 = t1  m2 = m2  t2 = t2  t3 = t3
  verified = verified  reviewedLocal = reviewedLocal
  human = human  verifier = verifier  none = none
  Actor = {human, verifier}
  Human = human
  NoNode = none
  Node <- MCNode
  Kind <- MCKind
  Parent <- MCParent
  Gate <- MCGate
  GateOwner <- MCOwner
  GateRank <- MCRank
  MaxInFlight = 2
CHECK_DEADLOCK FALSE
INVARIANTS EvidenceAtDeclaredScale StartedAncestors
PROPERTIES SealedMatterStaysSealed SweepOnlyAtSeal
