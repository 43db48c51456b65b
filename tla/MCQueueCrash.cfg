SPECIFICATION FairSpec
CONSTANTS
  Operations = {o1, o2}
  Workers = {w1, w2}
  BatchSize = 1
  MaxAttempts = 2
  Faults = {"crash"}
  None = None

PROPERTY EveryOperationSettles
