\* A block that is downgraded and waits on the condition, all eight classes.
CONSTANTS
  r1 = r1
  r2 = r2
  r3 = r3
  None = None
  Caller = {r1, r2, r3}
  Classes <- AllClasses
  Readers = {r1, r2, r3}
  Writers = {r1, r2, r3}
  TimedCallers = {}
  Interruptible = {}
  ForeignReleases <- NoForeignReleases
  MaxDepth <- NoNesting
  MaxAbandoned = 0
  Waiters = {r1, r2, r3}
  WaitsAfterDowngrade = {r1}
SPECIFICATION CondSpec
INVARIANTS DowngradedRoutes
CHECK_DEADLOCK FALSE
