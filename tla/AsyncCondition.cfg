\* Three tasks that wait on a condition, two of which may be cancelled, all eight
\* classes.
CONSTANTS
  r1 = r1
  r2 = r2
  r3 = r3
  None = None
  Caller = {r1, r2, r3}
  Classes <- AllClasses
  Readers = {r1, r2, r3}
  Writers = {r1, r2, r3}
  Cancellable = {r2, r3}
  ForeignReleases <- NoForeignReleases
  MaxDepth <- NoNesting
  Waiters = {r1, r2, r3}
  WaitsAfterDowngrade = {}
SPECIFICATION CondSpec
INVARIANTS CondTypeOK QueuesAgree NoLostWakeup
PROPERTIES RefinesCondition NotifyReaches
CHECK_DEADLOCK FALSE
