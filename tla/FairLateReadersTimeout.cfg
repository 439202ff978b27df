\* The same, and one of the queued writers gives up.
CONSTANTS
  w1 = w1
  w2 = w2
  r1 = r1
  r2 = r2
  None = None
  Caller = {w1, w2, r1, r2}
  Classes <- FairClasses
  Readers = {w1, r1, r2}
  Writers = {w1, w2, r1}
  TimedCallers = {w2}
  Interruptible = {}
  ForeignReleases <- NoForeignReleases
  MaxDepth <- NoNesting
SPECIFICATION HistorySpec
PROPERTIES LateReadersWait
