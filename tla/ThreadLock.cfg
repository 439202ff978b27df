\* Four threads that nest, three of which write; two may time out, one of them a
\* writer that may be interrupted; in the reentrant classes all of them also release
\* what they do not hold.  All eight classes.
CONSTANTS
  r1 = r1
  r2 = r2
  r3 = r3
  r4 = r4
  None = None
  Caller = {r1, r2, r3, r4}
  Classes <- AllClasses
  Readers = {r1, r2, r3, r4}
  Writers = {r1, r2, r3}
  TimedCallers = {r1, r4}
  Interruptible = {r1}
  ForeignReleases <- ForeignInReentrant
  MaxDepth <- AllNest
SPECIFICATION HistorySpec
INVARIANTS TypeOK MutualExclusion HoldsAgree QueuesAgree NoLostWakeup PhaseAgrees MarkerRoutes WriteSectionKept
PROPERTIES RefinesLock LateReadersWaitForWriters
