SPECIFICATION Spec
CONSTANTS
  k1 = k1
  k2 = k2
  Keys = {k1}
  Requests <- ReuseRequests
  Handlers = {h1}
  Faults = {}
  None = None
INVARIANT WorkspaceHasItsOperation
