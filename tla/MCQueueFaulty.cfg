SPECIFICATION Spec
CONSTANTS
  Operations = {o1, o2}
  Workers = {w1, w2}
  BatchSize = 2
  MaxAttempts = 3
  Faults = {"crash", "store", "lostReply", "lateLease"}
  None = None
SYMMETRY Symmetry
INVARIANTS TypeOK ExclusiveExecution RetryBudget OutcomeTruthful
PROPERTIES SettledIsFinal ImplementsContract
