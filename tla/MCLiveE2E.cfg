SPECIFICATION E2ESpec
CONSTANTS
  c1 = c1
  c2 = c2
  c3 = c3
  api = api
  command = command
  create = create
  destroy = destroy
  rebuild = rebuild
  other = other
  third = third
  None = None
  Computes = {c1, c2, c3}
  PoolName <- MCPoolName
  Operations = {create, destroy, rebuild, other, third}
  Kind <- MCKind
  Target <- MCTarget
  Workers = {api, command}
  Allowed = {api, command}
  MaxAttempts = 2
  PoolIds = {1, 2, 3}
  ExtraIds = {1}
  Faults = {"calls", "lostReply", "crash"}
  CreateOp = create
  DestroyOp = destroy
  RebuildOp = rebuild
  Command = command
  Requests <- MCRequests
  MaxRuns = 2
  MaxFailures = 1
CONSTRAINT FewFailures
INVARIANT E2ETypeOK PoolsPerType RowsNameTheirPool DeploysOnLivePool CleanupIsComplete ReportIsEarned ChecksFollowSuccess
PROPERTY UndisturbedRunReports
CHECK_DEADLOCK FALSE
