----------------------------- MODULE ComputePool -----------------------------
(***************************************************************************)
(* The node pools of the Tencent cluster: how workers find, create and     *)
(* verify the pool of a compute allocation, the row that remembers it, the *)
(* machine its pod is placed on, and the staging cleanup that deletes      *)
(* objects and pools while workers may be running.                         *)
(*                                                                         *)
(* An attempt of a worker is a sequence of calls and statements; between   *)
(* attempts an operation follows OperationContract.                        *)
(***************************************************************************)
EXTENDS Naturals, FiniteSets

CONSTANTS
  Computes,     \* the compute allocations
  PoolName,     \* the name computePoolName gives the pool of each compute
  Operations,   \* the operations on them
  Kind,         \* the resource_kind of each operation
  Target,       \* the compute of each operation
  Workers,      \* the worker processes
  Allowed,      \* those with OPL_TKE_ALLOW_NODEPOOL_MUTATION=true
  MaxAttempts,  \* attempts per operation
  PoolIds,      \* the ids Tencent can hand out: the quota of the cluster
  ExtraIds,     \* pool ids the cleanup may get from its environment
  Faults,       \* the faults of the environment that may occur
  None          \* no operation, no pool

Kinds == {"workspace", "compute_allocation", "compute_allocation_destroy"}

\* "calls": a statement or a call fails without effect.  "lostReply": it takes
\* effect and the caller sees an error.  "crash": the worker process dies.
ASSUME PoolAssumption ==
  /\ Kind \in [Operations -> Kinds]
  /\ Target \in [Operations -> Computes]
  /\ Allowed \subseteq Workers /\ IsFiniteSet(Workers) /\ IsFiniteSet(PoolIds)
  /\ ExtraIds \subseteq PoolIds
  /\ MaxAttempts \in Nat
  /\ None \notin Operations /\ None \notin PoolIds
  /\ Faults \subseteq {"calls", "lostReply", "crash"}

VARIABLES
  status, tries,  \* the operations, as OperationContract has them
  job,            \* each worker's operation, where it is, the row it holds, and whether
                  \* it is inside applyComputeAllocation
  rows,           \* compute_allocations: state, refs set or not, node_pool_id
  pools,          \* the node pools: name and life state
  claims,         \* the computes whose workspace has its claim in the cluster
  deployments,    \* the computes that have their Deployment
  node,           \* the pool on whose machine a Deployment's pod runs
  cleanup,        \* the staging cleanup command
  overtaken       \* history: workers whose verified pool was deleted under them

queue == <<status, tries>>
vars == <<queue, job, rows, pools, claims, deployments, node, cleanup, overtaken>>

Queue == INSTANCE OperationContract

-----------------------------------------------------------------------------
RowStates == {"creating", "running", "destroyed"}
Row == [state : RowStates, refs : BOOLEAN, pool : PoolIds \cup {None}]
NewRow == [state |-> "creating", refs |-> FALSE, pool |-> None]

\* The steps of an attempt, in the order of the programs.
CreateSteps == {"claim", "read", "find", "create", "record", "verify", "deploy", "write"}
DestroySteps == {"read", "delete", "clear"}
Steps == CreateSteps \cup DestroySteps \cup {"done"}

Idle == [op |-> None, at |-> "idle", seen |-> NewRow, inside |-> FALSE]

At(w, name) == job[w].at = name
Compute(w) == Target[job[w].op]
Destroys(w) == Kind[job[w].op] = "compute_allocation_destroy"

Fresh(p) == pools[p].life = "unused"

\* DescribeNodePools lists a pool until it is gone.
Listed(p) == pools[p].life \in {"normal", "deleting"}

\* A slip: the listing is not looked at.
FoundNone(name) == {}

\* findNodePoolByName looks at the name and the id, not at the life state.
Found(name) == {p \in PoolIds : pools[p].name = name /\ Listed(p)}

\* VerifyNodePool: "creating" and "running" are "normal" here.
Verified(p) == p # None /\ pools[p].life = "normal"

-----------------------------------------------------------------------------
\* What the steps do to the tables, to Tencent and to the cluster.

ReserveClaim(w) ==
  /\ At(w, "claim")
  /\ claims' = claims \cup {Compute(w)}
  /\ UNCHANGED <<rows, pools, deployments, node>>

\* Any unused id is as good as another.
NewId == CHOOSE p \in PoolIds : Fresh(p)

\* A slip: the request does not name the pool.
CreateNodePoolUnnamed(w) ==
  /\ At(w, "create")
  /\ \E p \in PoolIds : Fresh(p)
  /\ pools' = [pools EXCEPT ![NewId] = [name |-> None, life |-> "normal"]]
  /\ UNCHANGED <<rows, claims, deployments, node>>

CreateNodePool(w) ==
  /\ At(w, "create")
  /\ \E p \in PoolIds : Fresh(p)
  /\ pools' = [pools EXCEPT ![NewId] = [name |-> PoolName[Compute(w)], life |-> "normal"]]
  /\ UNCHANGED <<rows, claims, deployments, node>>

\* resolveComputePool writes back the whole row it was given.
RecordPool(w) ==
  /\ At(w, "record")
  /\ rows' = [rows EXCEPT ![Compute(w)] = job[w].seen]
  /\ UNCHANGED <<pools, claims, deployments, node>>

\* Secret, Deployment and Service.  A Deployment that is there keeps its pod.
CreateCompute(w) ==
  /\ At(w, "deploy")
  /\ deployments' = deployments \cup {Compute(w)}
  /\ UNCHANGED <<rows, pools, claims, node>>

\* A slip: the pool is left out of the columns that are written.
WriteRunningWithoutPool(w) ==
  /\ At(w, "write")
  /\ rows' = [rows EXCEPT ![Compute(w)].state = "running", ![Compute(w)].refs = TRUE]
  /\ UNCHANGED <<pools, claims, deployments, node>>

WriteRunning(w) ==
  /\ At(w, "write")
  /\ rows' = [rows EXCEPT ![Compute(w)] =
                [state |-> "running", refs |-> TRUE, pool |-> job[w].seen.pool]]
  /\ UNCHANGED <<pools, claims, deployments, node>>

\* DestroyCompute goes by the refs of the row: without them the call has no name.
DestroyCompute(w) ==
  /\ At(w, "delete")
  /\ job[w].seen.refs
  /\ deployments' = deployments \ {Compute(w)}
  /\ node' = [node EXCEPT ![Compute(w)] = None]
  /\ UNCHANGED <<rows, pools, claims>>

\* A slip: the row of a destroyed compute keeps its pool.
ClearRowKeepingPool(w) ==
  /\ At(w, "clear")
  /\ rows' = [rows EXCEPT ![Compute(w)] =
                [state |-> "destroyed", refs |-> FALSE, pool |-> rows[Compute(w)].pool]]
  /\ UNCHANGED <<pools, claims, deployments, node>>

\* The pool itself stays: other computes of the instance type share it.
ClearRow(w) ==
  /\ At(w, "clear")
  /\ rows' = [rows EXCEPT ![Compute(w)] =
                [state |-> "destroyed", refs |-> FALSE, pool |-> None]]
  /\ UNCHANGED <<pools, claims, deployments, node>>

Effect(w) ==
  \/ ReserveClaim(w) \/ CreateNodePool(w) \/ RecordPool(w) \/ CreateCompute(w)
  \/ WriteRunning(w) \/ DestroyCompute(w) \/ ClearRow(w)

-----------------------------------------------------------------------------
\* An attempt.

\* A workspace that is through with its pool enters applyComputeAllocation, which reads
\* the row once more.
Goto(w, name, row) ==
  job' = [job EXCEPT ![w].at = name, ![w].seen = row,
                     ![w].inside = @ \/ (name = "read" /\ ~At(w, "claim"))]

Elsewhere == <<rows, pools, claims, deployments, node>>

\* Worker w has leased o and marked it applying.
Begin(w, o) ==
  /\ job[w] = Idle
  /\ Queue!Start(o)
  /\ job' = [job EXCEPT ![w] =
               [op |-> o, at |-> IF Kind[o] = "workspace" THEN "claim" ELSE "read",
                seen |-> NewRow, inside |-> Kind[o] # "workspace"]]
  /\ cleanup' = [cleanup EXCEPT !.alone = FALSE]
  /\ UNCHANGED <<Elsewhere, overtaken>>

\* resolveComputePool has returned.
AfterResolve(w) == IF job[w].inside THEN "verify" ELSE "read"

\* A slip: a pool id that is already in the row is not verified again.
AfterReadUnverified(w) ==
  IF Destroys(w) THEN "delete"
  ELSE IF rows[Compute(w)].pool = None THEN "find" ELSE "deploy"

\* resolveComputePool has nothing to do for a row that has a pool.
AfterRead(w) ==
  IF Destroys(w) THEN "delete"
  ELSE IF rows[Compute(w)].pool = None THEN "find" ELSE AfterResolve(w)

ReadRow(w) ==
  /\ At(w, "read")
  /\ Goto(w, AfterRead(w), rows[Compute(w)])
  /\ UNCHANGED <<queue, Elsewhere, cleanup, overtaken>>

\* EnsureNodePool: the first pool listed under the name, or else a new one.
FindPool(w) ==
  LET found == Found(PoolName[Compute(w)])
  IN  /\ At(w, "find")
      /\ \/ \E p \in found : Goto(w, "record", [job[w].seen EXCEPT !.pool = p])
         \/ found = {} /\ w \in Allowed /\ Goto(w, "create", job[w].seen)
      /\ UNCHANGED <<queue, Elsewhere, cleanup, overtaken>>

VerifyPool(w) ==
  /\ At(w, "verify")
  /\ Verified(job[w].seen.pool)
  /\ Goto(w, "deploy", job[w].seen)
  /\ UNCHANGED <<queue, Elsewhere, cleanup, overtaken>>

Work(w) ==
  /\ Effect(w)
  /\ \/ At(w, "claim") /\ Goto(w, "read", job[w].seen)
     \/ At(w, "create") /\ Goto(w, "record", [job[w].seen EXCEPT !.pool = NewId])
     \/ At(w, "record") /\ Goto(w, AfterResolve(w), job[w].seen)
     \/ At(w, "deploy") /\ Goto(w, "write", job[w].seen)
     \/ At(w, "delete") /\ Goto(w, "clear", NewRow)
     \/ (At(w, "write") \/ At(w, "clear")) /\ Goto(w, "done", NewRow)
  /\ overtaken' = IF At(w, "deploy") THEN overtaken \ {w} ELSE overtaken
  /\ UNCHANGED <<queue, cleanup>>

\* A slip: what the attempt has read is kept for the next one.
LeaveKeepingRow(w) ==
  /\ job' = [job EXCEPT ![w].op = None, ![w].at = "idle"]
  /\ overtaken' = overtaken \ {w}
  /\ UNCHANGED cleanup

Leave(w) ==
  /\ job' = [job EXCEPT ![w] = Idle]
  /\ overtaken' = overtaken \ {w}
  /\ UNCHANGED cleanup

Succeed(w) ==
  /\ At(w, "done")
  /\ Queue!Complete(job[w].op)
  /\ Leave(w)
  /\ UNCHANGED Elsewhere

FailAttempt(w) == Queue!CountFailure(job[w].op) /\ Leave(w)

\* What fails without any fault.
Doomed(w) ==
  \/ At(w, "find") /\ Found(PoolName[Compute(w)]) = {} /\ w \notin Allowed
  \/ At(w, "create") /\ \A p \in PoolIds : ~Fresh(p)
  \/ At(w, "verify") /\ ~Verified(job[w].seen.pool)
  \/ At(w, "delete") /\ ~job[w].seen.refs

StepFails(w) ==
  /\ job[w] # Idle
  /\ "calls" \in Faults \/ Doomed(w)
  /\ FailAttempt(w)
  /\ UNCHANGED Elsewhere

StepLost(w) ==
  /\ "lostReply" \in Faults
  /\ Effect(w)
  /\ FailAttempt(w)

\* The cleanup of a failed CreateCompute deletes the Deployment, an older one as well.
CreateComputeUndone(w) ==
  /\ "calls" \in Faults
  /\ At(w, "deploy")
  /\ deployments' = deployments \ {Compute(w)}
  /\ node' = [node EXCEPT ![Compute(w)] = None]
  /\ FailAttempt(w)
  /\ UNCHANGED <<rows, pools, claims>>

Fails(w) == StepFails(w) \/ StepLost(w) \/ CreateComputeUndone(w)

\* The worker is gone: its operation stays "applying", or "failed" if that was written.
LoseWorker(w) ==
  /\ job[w] # Idle
  /\ UNCHANGED queue \/ Queue!Abandon(job[w].op)
  /\ Leave(w)
  /\ UNCHANGED Elsewhere

Crash(w) == "crash" \in Faults /\ LoseWorker(w)

Advance(w) == ReadRow(w) \/ FindPool(w) \/ VerifyPool(w) \/ Work(w) \/ Succeed(w)

-----------------------------------------------------------------------------
\* The cluster, outside the repository.  A pool scales up to its one machine for a
\* pod that selects it; pods request nothing, so any number of them fit.
Schedule(c) ==
  /\ c \in deployments /\ node[c] = None
  /\ \E p \in PoolIds :
       /\ pools[p].name = PoolName[c] /\ pools[p].life = "normal"
       /\ node' = [node EXCEPT ![c] = p]
  /\ UNCHANGED <<queue, job, rows, pools, claims, deployments, cleanup, overtaken>>

\* A pool that is being deleted is gone, with its machine.
PoolGone(p) ==
  /\ pools[p].life = "deleting"
  /\ pools' = [pools EXCEPT ![p].life = "gone"]
  /\ node' = [c \in Computes |-> IF node[c] = p THEN None ELSE node[c]]
  /\ UNCHANGED <<queue, job, rows, claims, deployments, cleanup, overtaken>>

-----------------------------------------------------------------------------
\* The staging cleanup command.  It may be started again after it has failed.

NamedPools == {rows[c].pool : c \in Computes} \ {None}

Discover ==
  /\ cleanup.at \in {"off", "failed"}
  /\ \E extra \in SUBSET ExtraIds, read \in {TRUE, "calls" \notin Faults} :
       cleanup' = [at |-> "list", targets |-> {}, read |-> read,
                   ids |-> extra \cup (IF read THEN NamedPools ELSE {}),
                   alone |-> \A w \in Workers : job[w] = Idle]
  /\ UNCHANGED <<queue, job, Elsewhere, overtaken>>

ListDeployments ==
  /\ cleanup.at = "list"
  /\ cleanup' = [cleanup EXCEPT !.at = "deployments", !.targets = deployments]
  /\ UNCHANGED <<queue, job, Elsewhere, overtaken>>

DeleteDeployment ==
  /\ cleanup.at = "deployments"
  /\ \E c \in cleanup.targets :
       /\ deployments' = deployments \ {c}
       /\ node' = [node EXCEPT ![c] = None]
       /\ cleanup' = [cleanup EXCEPT !.targets = @ \ {c}]
  /\ UNCHANGED <<queue, job, rows, pools, claims, overtaken>>

\* The pools come when every listed claim is deleted.
ClaimsLeft(targets) ==
  cleanup' = [cleanup EXCEPT !.at = IF targets = {} THEN "pools" ELSE "claims",
                             !.targets = targets]

ListClaims ==
  /\ cleanup.at = "deployments" /\ cleanup.targets = {}
  /\ ClaimsLeft(claims)
  /\ UNCHANGED <<queue, job, Elsewhere, overtaken>>

\* The retained claims go like any other, and no row is told.
DeleteClaim ==
  /\ cleanup.at = "claims"
  /\ \E c \in cleanup.targets :
       /\ claims' = claims \ {c}
       /\ ClaimsLeft(cleanup.targets \ {c})
  /\ UNCHANGED <<queue, job, rows, pools, deployments, node, overtaken>>

\* A pool that is gone already is skipped.
DeleteNodePool ==
  /\ cleanup.at = "pools"
  /\ \E p \in cleanup.ids :
       /\ pools' = IF pools[p].life = "normal"
                   THEN [pools EXCEPT ![p].life = "deleting"] ELSE pools
       /\ overtaken' = IF pools[p].life = "normal"
                       THEN overtaken \cup {w \in Workers : At(w, "deploy") /\ job[w].seen.pool = p}
                       ELSE overtaken
       /\ cleanup' = [cleanup EXCEPT !.ids = @ \ {p}]
  /\ UNCHANGED <<queue, job, rows, claims, deployments, node>>

\* A slip: a pool that could not be deleted is passed over.
SkipNodePool ==
  /\ cleanup.at = "pools"
  /\ cleanup' = [cleanup EXCEPT !.at = "done", !.ids = {}]
  /\ UNCHANGED <<queue, job, Elsewhere, overtaken>>

CleanupDone ==
  /\ cleanup.at = "pools" /\ cleanup.ids = {}
  /\ cleanup' = [cleanup EXCEPT !.at = "done"]
  /\ UNCHANGED <<queue, job, Elsewhere, overtaken>>

CleanupFails ==
  /\ "calls" \in Faults
  /\ cleanup.at \in {"list", "deployments", "claims", "pools"}
  /\ cleanup' = [cleanup EXCEPT !.at = "failed", !.targets = {}, !.ids = {},
                                    !.read = FALSE, !.alone = FALSE]
  /\ UNCHANGED <<queue, job, Elsewhere, overtaken>>

Cleanup ==
  \/ Discover
  \/ ListDeployments \/ DeleteDeployment \/ ListClaims \/ DeleteClaim
  \/ DeleteNodePool \/ CleanupDone \/ CleanupFails

-----------------------------------------------------------------------------
Init ==
  /\ Queue!ContractInit
  /\ job = [w \in Workers |-> Idle]
  /\ rows = [c \in Computes |-> NewRow]
  /\ pools = [p \in PoolIds |-> [name |-> None, life |-> "unused"]]
  /\ claims = {}
  /\ deployments = {}
  /\ node = [c \in Computes |-> None]
  /\ cleanup = [at |-> "off", targets |-> {}, read |-> FALSE, ids |-> {}, alone |-> FALSE]
  /\ overtaken = {}

\* A client's request: the row is reserved and the operation accepted.
Submit(o) ==
  /\ Queue!Accept(o)
  /\ UNCHANGED <<job, Elsewhere, cleanup, overtaken>>

Attempt(w) == Advance(w) \/ Fails(w)

Cluster ==
  \/ \E c \in Computes : Schedule(c)
  \/ \E p \in PoolIds : PoolGone(p)

Next ==
  \/ \E o \in Operations : Submit(o) \/ \E w \in Workers : Begin(w, o)
  \/ \E w \in Workers : Attempt(w) \/ Crash(w)
  \/ Cluster
  \/ Cleanup

Spec == Init /\ [][Next]_vars

-----------------------------------------------------------------------------
TypeOK ==
  /\ status \in [Operations -> Queue!Statuses]
  /\ tries \in [Operations -> 0..MaxAttempts]
  /\ job \in [Workers -> [op : Operations \cup {None}, at : Steps \cup {"idle"},
                          seen : Row, inside : BOOLEAN]]
  /\ \A w \in Workers : job[w].op = None <=> job[w] = Idle
  /\ rows \in [Computes -> Row]
  /\ pools \in [PoolIds -> [name : {PoolName[c] : c \in Computes} \cup {None},
                           life : {"unused", "normal", "deleting", "gone"}]]
  /\ claims \subseteq Computes
  /\ deployments \subseteq Computes
  /\ node \in [Computes -> PoolIds \cup {None}]
  /\ cleanup \in [at : {"off", "list", "deployments", "claims", "pools", "done", "failed"},
                  targets : SUBSET Computes, read : BOOLEAN, ids : SUBSET PoolIds,
                  alone : BOOLEAN]
  /\ overtaken \subseteq Workers

\* Retries, lost replies and crashes never multiply the pools of an instance type
\* (EnsureNodePool looks by name before it creates): there are at most as many as
\* there are workers that may create one and may race.
PoolsPerType ==
  \A c \in Computes :
    Cardinality({p \in PoolIds : pools[p].name = PoolName[c] /\ pools[p].life = "normal"})
      <= Cardinality(Allowed)

\* node_pool_id in a row is a pool made for the instance type of that row, and a row with
\* refs has one, although rows are written back whole from what an attempt has read long
\* before, while operations on the same compute overlap it (UpdateComputeAllocation).
RowsNameTheirPool ==
  \A c \in Computes :
    /\ rows[c].pool # None =>
         pools[rows[c].pool].name = PoolName[c] /\ ~Fresh(rows[c].pool)
    /\ rows[c].refs => rows[c].pool # None

\* A worker about to create a Deployment has verified its pool in this attempt, also
\* when the id was in the row: the pool works, or was deleted since (VerifyNodePool).
DeploysOnLivePool ==
  \A w \in Workers :
    At(w, "deploy") => pools[job[w].seen.pool].life = "normal" \/ w \in overtaken

\* A cleanup that reports success with no worker running leaves no workspace object, and
\* no working pool that a row names, whatever failed and was repeated before.
CleanupIsComplete ==
  cleanup.at = "done" /\ cleanup.alone =>
    /\ deployments = {} /\ claims = {}
    /\ cleanup.read => \A p \in NamedPools : pools[p].life # "normal"

\* docs/invariants.md:6, README.md:106: an active compute has a machine of its own.
ComputeIsExclusive ==
  \A c, d \in deployments : c # d /\ node[c] # None => node[c] # node[d]
==============================================================================
