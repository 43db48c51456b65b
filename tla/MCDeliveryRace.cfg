SPECIFICATION Spec
CONSTANTS
  create = create
  destroy = destroy
  rebuild = rebuild
  detach = detach
  bystander = bystander
  second = second
  reattach = reattach
  wipe = wipe
  Operations = {create, destroy, bystander}
  Kind <- MCKind
  Target <- MCTarget
  Workers = 2
  MaxAttempts = 2
  SecretVerbs = {"create", "get", "update", "delete"}
  Faults = {"calls", "lostReply"}
  None = None
INVARIANTS SucceededMeansDone RowsFollowCluster
PROPERTY RoutesKept
CHECK_DEADLOCK FALSE
