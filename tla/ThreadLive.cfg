\* A reader that may time out and wait on a condition, a writer, and a thread that
\* reads and writes, all eight classes.
CONSTANTS
  r1 = r1
  r2 = r2
  r3 = r3
  None = None
  Caller = {r1, r2, r3}
  Classes <- AllClasses
  Readers = {r1, r3}
  Writers = {r2, r3}
  TimedCallers = {r1}
  Interruptible = {}
  ForeignReleases <- NoForeignReleases
  MaxDepth <- NoNesting
  MaxAbandoned = 0
  Waiters = {r1}
  WaitsAfterDowngrade = {}
SPECIFICATION FairCondSpec
PROPERTIES ReadersServed WritersServed NotifiedReturn
CHECK_DEADLOCK FALSE
