SPECIFICATION Spec
CONSTANTS
  create = create
  destroy = destroy
  rebuild = rebuild
  detach = detach
  bystander = bystander
  second = second
  reattach = reattach
  wipe = wipe
  Operations = {create, destroy, rebuild}
  Kind <- MCKind
  Target <- MCTarget
  Workers = 1
  MaxAttempts = 2
  SecretVerbs = {"create", "get", "update", "delete"}
  Faults = {}
  None = None
INVARIANT RebuildRemounts
CHECK_DEADLOCK FALSE
