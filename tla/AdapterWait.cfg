\* A condition of this package over an adapter.  The callers may stop.
CONSTANTS
  c1 = c1
  c2 = c2
  None = None
  Caller = {c1, c2}
  Waiters = {c1, c2}
  Impatient = {}
  MaxDepth = 2
SPECIFICATION OverSpec
INVARIANTS OneAcquisitionMayWait
CHECK_DEADLOCK FALSE
