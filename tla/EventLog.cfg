SPECIFICATION Spec
CONSTANTS
  Process = {p1, p2}
  NoProcess = nobody
  Version = {1, 2}
  Random = 2
  MaxClock = 2
  MaxEvents = 2
  MaxDrafts = 2
INVARIANTS LogAscends DecidedOnTheLatest
PROPERTIES OnlyStaleRefoldLoses
