SPECIFICATION Spec
CONSTANTS
  create = create
  destroy = destroy
  rebuild = rebuild
  detach = detach
  bystander = bystander
  second = second
  reattach = reattach
  wipe = wipe
  Operations = {create, destroy, rebuild, detach, wipe}
  Kind <- MCKind
  Target <- MCTarget
  Workers = 1
  MaxAttempts = 1
  SecretVerbs = {"create", "get", "update", "delete"}
  Faults = {"calls", "lostReply", "crash"}
  None = None
INVARIANTS TypeOK SucceededMeansDone
PROPERTIES StorageSurvives KeepsPromise
CHECK_DEADLOCK FALSE
