\* Threads that also release what they do not hold, plain classes.
CONSTANTS
  r1 = r1
  r2 = r2
  r3 = r3
  None = None
  Caller = {r1, r2, r3}
  Classes <- PlainClasses
  Readers = {r1, r2, r3}
  Writers = {r1, r2, r3}
  TimedCallers = {}
  Interruptible = {}
  ForeignReleases <- ForeignInPlain
  MaxDepth <- NoNesting
SPECIFICATION Spec
INVARIANTS WriteSectionKept
