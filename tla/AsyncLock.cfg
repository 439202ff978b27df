\* Four tasks, three of which nest and may be cancelled, the fourth a reader that
\* is not cancelled.  All eight classes.
CONSTANTS
  r1 = r1
  r2 = r2
  r3 = r3
  r4 = r4
  None = None
  Caller = {r1, r2, r3, r4}
  Classes <- AllClasses
  Readers = {r1, r2, r3, r4}
  Writers = {r1, r2, r3}
  Cancellable = {r1, r2, r3}
  ForeignReleases <- NoForeignReleases
  MaxDepth <- AllNest
SPECIFICATION Spec
INVARIANTS TypeOK HoldsAgree QueuesAgree NoLostWakeup PhaseAgrees MarkerRoutes
PROPERTIES RefinesLock
