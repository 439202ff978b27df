\* Three callers of one adapter, over each of the standard primitives.
CONSTANTS
  c1 = c1
  c2 = c2
  c3 = c3
  None = None
  Caller = {c1, c2, c3}
  Waiters = {c1, c2}
  Impatient = {c1}
  MaxDepth = 2
SPECIFICATION Spec
INVARIANTS AdapterTypeOK
PROPERTIES LockedAnswers AdapterIsCondition
