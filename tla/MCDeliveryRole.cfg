SPECIFICATION Spec
CONSTANTS
  create = create
  destroy = destroy
  rebuild = rebuild
  detach = detach
  bystander = bystander
  second = second
  reattach = reattach
  wipe = wipe
  Operations = {create}
  Kind <- MCKind
  Target <- MCTarget
  Workers = 1
  MaxAttempts = 2
  SecretVerbs = {"create", "get", "delete"}
  Faults = {"calls"}
  None = None
INVARIANT WorkerIsPermitted
CHECK_DEADLOCK FALSE
