SPECIFICATION Spec
CONSTANTS
  k1 = k1
  k2 = k2
  Keys = {k1, k2}
  Requests <- MCRequests
  Handlers = {h1, h2}
  Faults = {"store", "lostReply", "crash"}
  None = None
SYMMETRY Symmetry
INVARIANTS TypeOK ReceiptIsBacked ReservedWhole ReferencesResolve
PROPERTY FirstRequestWins
