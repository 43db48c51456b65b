SPECIFICATION FairSpec
CONSTANTS
  Operations = {o1, o2}
  Workers = {w1, w2}
  BatchSize = 1
  MaxAttempts = 3
  Faults = {"crash"}
  None = None
INVARIANT OutcomeTruthful
PROPERTIES OrphansStay SettlesOrOrphaned SettlesWithoutCrash
