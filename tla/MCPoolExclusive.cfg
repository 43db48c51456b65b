SPECIFICATION Spec
CONSTANTS
  c1 = c1
  c2 = c2
  w1 = w1
  first = first
  second = second
  None = None
  Computes = {c1, c2}
  PoolName <- MCPoolName
  Operations = {first, second}
  Kind <- MCKind
  Target <- MCTarget
  Workers = {w1}
  Allowed = {w1}
  MaxAttempts = 1
  PoolIds = {1, 2}
  ExtraIds = {}
  Faults = {}
INVARIANT ComputeIsExclusive
CHECK_DEADLOCK FALSE
