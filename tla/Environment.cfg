SPECIFICATION Spec
CONSTANTS
  Command <- MCCommand
  Acquire <- MCAcquire
  BirthRelease <- MCBirthRelease
  ClaimRelease <- MCClaimRelease
  Delivery <- MCDelivery
  Claim <- MCClaim
  Cause <- MCCause
  Idempotent <- MCIdempotent
  Required <- MCRequired
  Matter <- MCMatter
  Gate <- MCGate
  Menus <- PassMenus
  MaxOthers = 1
  NoId = NoId
  NoClaim = NoClaim
INVARIANTS InstalledIsTrue Reopens AckedIsInstalled
PROPERTIES DecidedIsInstalled
CHECK_DEADLOCK FALSE
