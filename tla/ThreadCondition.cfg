\* Three threads that wait on a condition, one with timeouts and interrupts, all eight classes.
CONSTANTS
  r1 = r1
  r2 = r2
  r3 = r3
  None = None
  Caller = {r1, r2, r3}
  Classes <- AllClasses
  Readers = {r1, r2, r3}
  Writers = {r1, r3}
  TimedCallers = {r3}
  Interruptible = {r3}
  ForeignReleases <- NoForeignReleases
  MaxDepth <- NoNesting
  MaxAbandoned = 1
  Waiters = {r1, r2, r3}
  WaitsAfterDowngrade = {}
SPECIFICATION CondSpec
INVARIANTS CondTypeOK
PROPERTIES RefinesCondition
CHECK_DEADLOCK FALSE
