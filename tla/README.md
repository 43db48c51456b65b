# OPL Fabric in TLA+

TLA+ models of the Fabric control plane (`src/apps/fabric-api`): how a request becomes
rows, how workers take operations from a PostgreSQL table and run them, and what these
operations do to resource rows and Kubernetes objects. TLC checks the models on small
instances; TLAPS proves the theorems listed below for all instances. Paths without a
prefix are relative to `src/apps/fabric-api/`.

## The system

| Part | State | Operations | Model |
|---|---|---|---|
| Mutating HTTP API (`internal/http`, `internal/service`) | none of its own; one goroutine per request | seven single-resource routes, the workspace route | `Reservation` |
| Resource tables (`internal/postgres`) | compute_allocations, storage_volumes, storage_attachments, workspace_entries, workspaces | insert-or-ignore, get, update | `Reservation` (inserts), `Delivery` (updates) |
| Operation queue (`fabric_operations`, `internal/worker`, `Orchestrator.Apply`) | state, attempts, lease, created_at; a worker's batch and current operation | insert, list, lease, mark, record failure | `OperationQueue`, `OperationContract` |
| Orchestrator (`internal/orchestrator`) | local copies of rows during an attempt | eight programs, one per resource_kind | `Delivery`, `WorkspaceContract` |
| Kubernetes provider (`internal/k8s`, `internal/fabricruntime`) | Deployments, Services, Secrets, claims, one shared Ingress | ensure, attach, detach, route, destroy | `Delivery` |
| Tencent compute pools (`internal/tencentcloud`) | node pools of the cluster; the pool id in a compute's row | find, create, verify, delete | `ComputePool` |
| Live end-to-end command (`cmd/fabric-live-e2e`) | a worker in the command's own process | create, destroy, rebuild, and the checks in between | `LiveE2E` |
| Staging cleanup (`cmd/fabric-staging-cleanup`) | the pool ids it has collected | delete Deployments, claims and pools | `ComputePool`, composed in `LiveE2E` |
| Staging gate, evidence, config, catalog, kubeconfig, read API | none | pure functions and reads | not modelled |
| Operator console (`apps/fabric-console`) | browser state | reads through the API | not modelled |

How they interact. A handler derives every identifier from the client's
`Idempotency-Key`, inserts rows and one operation row, and answers 202. Workers (one
goroutine per process; the replicas, an overlapping rollout and the end-to-end command
may run several) poll the table, lease a row with a conditional `UPDATE`, and call
`Orchestrator.Apply`, which writes `applying`, runs the program of the operation's kind
against the resource tables and the providers, and writes `succeeded` or `failed`.
`RecordOperationFailure` then counts the failure and puts the row back, up to three
attempts. The end-to-end command inserts operations as a client does, runs a worker while
it waits for each of them, and reads rows and cluster in between. The staging cleanup
deletes objects and node pools and tells neither the tables nor the workers. Nothing but
the tables and the cluster is shared; there are no locks per resource, no transactions
around an attempt and no callbacks.

What is hard here: statements that fail or lose their reply at every step; a process
that ends between two of them; workers that race on a row or on the shared Ingress;
leases that run out; retries of half-done work over what is already there; cleanups that
fail; keys and names that two code paths must derive alike. `PROJECT.json` lists these
hazards at their lines with the properties aimed at each.

What makes each part correct:

* queue: one worker at a time per operation, a bounded number of attempts, truthful and
  final outcomes, and every operation eventually settled;
* API: a receipt is backed by the database, a workspace is reserved whole or not at all,
  repeated and competing requests change nothing;
* orchestrator and provider: a success that nothing disturbed is real in rows and
  cluster whatever earlier attempts left behind, rows never run ahead of the cluster,
  storage is never lost, and no workspace loses its route because of another;
* compute pools: an instance type has at most one working pool for each worker that may
  create one, however often they retry, a row names a pool made for it although operations
  on one compute overlap, and no Deployment is put on a pool that was not verified;
* commands: the end-to-end command reports only what has happened in its own run, a run
  nothing disturbs comes to its report, and the cleanup does not report success over
  anything it passed by.

## Modules

### OperationQueue, OperationContract

`OperationQueue` has one variable per column that decides anything (`state`, `attempts`,
`lease`, `created`) and three per worker (`pc`, `batch`, `current`). One action is one SQL
statement: `ListAcceptedOperations`, `LeaseOperation` / `SkipLeased`, `GetOperation`,
`MarkApplying`, `MarkFailed`, `MarkSucceeded`, `RecordFailure`. `ApplySucceeds` and
`ApplyFails` stand for the whole of `Orchestrator.apply`, which touches no column of this
table. For each statement there is a `...Fails` action with two outcomes: without effect
(fault `store`) or committed with the reply lost (`lostReply`). `lease` is the owner while
`lease_expires_at` is in the future; `LeaseExpires` is the passing of time. It may hit a
holder that has not yet written `applying` only with the fault `lateLease`: a worker that
stalls for a whole TTL between two adjacent statements. `Halt` loses the local state of
`RunOnce`, because `Run` returned an error (`stopped`: the goroutine ends, the process
goes on serving) or because the process died (`down`). `applied` and `overran` are history
variables.

`OperationContract` is what a client may rely on, with two variables: `pending`, `running`
and a final verdict, at most `MaxAttempts` counted failures, one way to a verdict without
a count (`Abandon`: the worker was lost between `failed` and the count), and `void` once a
lease was overrun. `ImplementsContract` is the refinement, with `StatusOf` and `TriesOf`
as mapping: while somebody works on a row its `failed` is not yet a verdict.

### Reservation

One `Receive` per request, then one action per statement: `ReserveRow` and
`AcceptOperation` on the single-resource routes, `AcceptOperation` alone on destroy and
detach, `AcceptWorkspace` for the transaction. A transaction is one step, at its commit:
every insert is `ON CONFLICT DO NOTHING` on a key derived from the request's key, and a
competing insert blocks until the other transaction ends. `StatementFails`, `ReplyLost`
and `Crash` are the faults; a failed transaction is rolled back (`Rollback`). Foreign keys
are checked when a row is really inserted. Identifiers are pairs of a prefix and a key: the
truncated hash of `stableID` is taken to be free of collisions. Requests that lack a
header, an account, a requester or a confirmation touch nothing and are left out.

### Delivery

An operation is a program, the sequence of the names of its steps (`StorageSteps`, ...,
`WorkspaceSteps`), and `step` is where it is. A step is one SQL update (`WriteRow`), one
provider call (`Call`), or some reads in a row (`Read`), whose results stay in `seen`, as
the Go locals do, until the attempt ends. Reads that are used in the very next step are
part of it. `status` and `tries` are those of `OperationContract`: the actions `Start`,
`Succeed`, `FailAttempt` and `Crash` take its steps, so this module rests on what
`OperationQueue` was shown to implement. Operations start accepted.

`StepFails` is a call or statement that fails without effect, or whose guard fails without
any fault (`Doomed`); `StepLost` one that takes effect while the worker sees an error.
`EnsureDeploymentFails` and `EnsureServiceFails` have the cleanups of `CreateCompute`,
which may fail too. A Kubernetes get and update of one object is one step, because the
update carries the `resourceVersion` read; only the shared Ingress, on which different
operations meet, is read and written in two steps (`readEntry`, `putRoute`). Names are
pairs of a prefix and an identifier; `k8sName` never yields the bare identifier, and
client-go refuses the empty name. The pool resolver is configured, as in
`cmd/fabric-api/main.go`, and `workspace_exclusive_cvm` (the default) makes every compute
need a pool; the resolver and `VerifyNodePool` are calls that may fail. Codex credentials
are configured, so there is a Secret. Both creating routes reserve storage with
`Retained: true`, so the claim-deleting branch of `applyStorageDestroy` is in the model and
never taken. `intact` is a history variable: the operations that no other operation on one
of their resources ran beside or started after.

### WorkspaceContract

What the users of workspaces may rely on, without operations, attempts, rows or names: a
volume stays, an address stays, an application gets no disk and an address no application
but its own, and a workspace is declared open only over a volume that is available and an
address. `Links`, `Fronts` and `Holds` say what belongs together. `Delivery` computes them
from the targets of its operations, and the seven variables of the contract from its rows
and cluster (`Volumes`, ..., `Open`); `KeepsPromise` is the refinement. The promise is about
every step, also of interfering operations, lost replies and cleanups of failed calls, where
`SucceededMeansDone` is about undisturbed successes. An address may come to lead nowhere
(`RouteNowhere`): an entry whose row has no service is routed to a Service that does not
exist. A new version of an application has no disk (`StartApp`), which is finding 3.

### ComputePool

`Delivery` takes the resolver of compute pools as one call. `ComputePool` opens it up: for
the operations that go through it (workspaces, single computes and their destroys) an
attempt is a walk through named steps. `find` and `create` are `EnsureNodePool`, `record`
is `resolveComputePool`'s write of the whole row it was given, `verify` is
`VerifyNodePool`, `deploy` and `write` are `CreateCompute` and the row after it, `delete`
and `clear` the destroy. `job` is a worker's operation, its step, the row it holds in a
Go local, and whether it is `inside` `applyComputeAllocation`: a workspace comes there with
its pool resolved, and reads the row once more (`AfterResolve`). As in `Delivery`, `status` and `tries` take the steps of `OperationContract`, and
a lease is taken to hold while its worker lives.

`pools` has the name and the life state of each node pool. "creating" and "running" both
pass `VerifyNodePool` and are `normal`; `findNodePoolByName` also finds a pool that is
`deleting`. `PoolIds` is the quota of the cluster. `rows` has the three columns that decide
anything here, `claims` and `deployments` the objects of each workspace, `node` where its
pod runs. `Schedule` (a pool of the name a pod selects gets its one machine, which takes
any number of pods, as they request nothing) and `PoolGone` are the cluster's, outside the
repository. `Doomed` lists what fails without a fault: a pool that may not be created, a
full quota, a pool that is not in service, a destroy without refs.

The cleanup (`Discover`, `ListDeployments`, `DeleteDeployment`, `ListClaims`,
`DeleteClaim`, `DeleteNodePool`) collects ids from rows and from its environment, goes on
when the database cannot be read (`read`), deletes what it has listed one by one, and may
fail anywhere and be started again. Its discovery by node label finds nothing, because no pool is given the label
it looks for; Services, Secrets and the Ingress go with the Deployments. `alone` says that
no worker has had anything in hand since it began; the history variable `overtaken` has the
workers whose verified pool it deleted under them.

Abstracted: pool settings, labels and node selectors (the pool of a compute is known by its
name); attachment and entry, which do not touch a pool; `CreateCompute` is one step with the outcomes
done, lost, failed and undone, since `Delivery` has its parts.

### LiveE2E

Composes `ComputePool` with the commands and with a rollout. A behaviour is one of three
scenes, by where `e2e.at` starts: the end-to-end command (`off`), the cleanup, or a rollout
of the API's Deployment, in which two replicas and so two workers overlap. `Requests` is
what clients ask for in each scene; in the rollout it is a create and a destroy of one
compute at the same time, and `Command` is the second replica's worker, which runs and may
crash like any other. `Launch` inserts the create operation unless its
key is there already: an operation of an earlier run is found with the verdict it has. In
the three `Waiting` places the worker `Command` runs beside the others and the command
reads the operation's state between two of its batches (`OperationSucceeded`,
`OperationFailed`). `FailureSeen` is the case that the API's worker has written `failed` and
not yet put the row back for a retry: the command takes that for the verdict and ends.
`CreatedVerified`, `DestroyVerified`, `Report` and `CheckFails` are
`verifyWorkspaceObjects` and `verifyStorageRetained`, each one step; that the workspace is
`running` is not looked at, since the success of its create implies it. `GiveUp` is the end
of the process by its timeout or by a failing statement, with the attempt its worker is in.
`doneIn` is a history variable: in which run each operation succeeded. `ChecksFollowSuccess`
says that the check after a verdict finds what the operation did, unless an earlier run has
asked for the next operation already, as the checks may then meet a destroy under way.

## Runs

| Run | Instance | Shows |
|---|---|---|
| `queue_faulty` | 2 operations, 2 workers, batch 2, 3 attempts, all faults | lock, retry budget, truthful and final outcomes, refinement of the contract |
| `queue_live` | same, batch 1, crashes, fairness | every accepted operation is settled or orphaned; an orphan is never touched again; without a crash, settled |
| `queue_crash` | same | finding: an operation can stay `applying` for ever |
| `reservation` | 2 keys, 6 requests on all kinds of routes, 2 handlers, all faults | backed receipts, whole workspaces, resolved references, nothing overwritten |
| `reservation_reuse` | 1 key, 2 routes, 1 handler, no fault | finding: a workspace without its operation |
| `delivery_serial` | 1 worker, 5 operations on one workspace in any order, 1 attempt, all faults | a success is real, storage survives, every step keeps the promise of `WorkspaceContract` |
| `delivery_race` | 2 workers, create, destroy and another workspace's entry, 2 attempts, failed calls and lost replies | success is real, rows follow the cluster, no route is lost |
| `delivery_rebuild` | create, destroy, rebuild, no fault | finding: the rebuilt compute has no volume |
| `delivery_reattach` | create, detach, second compute, reattach, no fault | finding: a single-resource attachment cannot succeed |
| `delivery_role` | create with the Secret verbs of the shipped Role | finding: the retry needs a verb the Role lacks |
| `pool_commands` | 2 computes of one instance type and 1 of another, 2 workers, 2 attempts, 3 pool ids, all faults; the end-to-end command (2 runs), the cleanup, or a rollout with an overlapping create and destroy | at most one working pool of a name per worker that may create one, rows name their pool, Deployments follow a verification, cleanups are complete, checks find what the success before them did, reports are earned, an undisturbed run reports |
| `pool_exclusive` | 2 workspaces of one instance type, 1 worker, no fault | finding: their pods share a machine |

Bounds and why they are enough. Two workers are what a race needs, and rows interact only
through the batch, so two operations show one starving, requeueing or overtaking the other;
a batch of 1 makes `LIMIT` bite. `MaxAttempts` is the 3 of the code in the queue runs, and
in `Delivery` the smallest number that has a retry (2) or, where five operations already
retry each other's work by repeating it, 1; a failed attempt there leaves its debris for
the other operations. Two handlers and two keys give concurrent repetitions of a request
and references across keys; workers and keys are symmetric only where the configuration
says so (workers and operations in `queue_faulty`, handlers in `reservation`), never in a
run with a liveness property. Operations in `Delivery` are finite, so those runs end and
deadlock is not checked there; the queue and reservation runs check it.

In `pool_commands` two computes of one instance type are what a race for a pool needs, and
a third of another type tells a pool of the wrong type apart: a look-up that ignores the
name breaks `RowsNameTheirPool`. In the rollout a create that is retried and a destroy of
its compute overlap, so that a worker writes back the row it read over one that was cleared
meanwhile; a write that leaves out the pool breaks the same property, and in this scene
only. The two operations are the only ones that can meet on a compute: the API derives a
compute from the key of its create, and the end-to-end command asks for a rebuild when the
destroy has succeeded. Three pool ids leave room for the two pools two workers can make and one more, so that
`PoolsPerType` could fail; one extra id lets the cleanup delete a pool no row names; two
runs are one that goes wrong and one that finds its leftovers. The constraint `FewFailures`
cuts behaviours at a second failed or lost attempt. It cuts nothing the liveness property
depends on: that property is about behaviours without any, and the proofs below cover the
others. Clients and commands stop asking for work, so the two pool runs do
not check for deadlock.

Fairness (`queue_live`, `queue_crash`): a worker that can take a step of its own does
(weak fairness of `WorkerStep`: a running goroutine), a dead process is restarted (weak
fairness of `Restart`: the Deployment's kubelet), and a lease runs out (weak fairness of
`LeaseExpires`: time). Nothing is assumed of statements succeeding or of `Run` being called
again after it returned: no code does that. `SettlesOrOrphaned` assumes that crashes stop;
otherwise a process could die in every attempt.

Fairness (`pool_commands`), in the scene of the end-to-end command: a worker that can begin an operation, or go on with the one it
has, does so (a running goroutine; the worker of the command only while the command waits),
the cluster places pods and removes deleted pools, and the command takes its next step. No
fairness is given to faults, clients, the start of a command or its timeout:
`UndisturbedRunReports` speaks of a first run that none of them disturbs.

## Findings

1. *An operation can stay `applying` for ever* (`queue_crash`). `ListAcceptedOperations`
   and `LeaseOperation` look at `accepted` rows only; a worker that ends inside `Apply`
   leaves a row nobody returns to. The control-plane plan has it end in `succeeded` or
   `failed`. `SettlesOrOrphaned` shows that this is the only way to lose an operation when
   the store works; `OrphansAreLost` proves that it is for good, `OrphansHaveACause` that it
   takes a crash or a failing statement.
2. *A reused key yields a workspace nobody executes* (`reservation_reuse`).
   `OneRoutePerKeySuffices` proves that there is no other cause, `StrandedForGood` that no
   retry repairs it.
3. *A rebuilt compute has no volume* (`delivery_rebuild`), while the end-to-end command
   reports the storage as remounted. `RebuildNeverRemounts` proves it of every undisturbed
   rebuild.
4. *A single-resource attachment cannot succeed* (`delivery_reattach`): it falls back to a
   Deployment name that no Deployment has. `LoneAttachNeverSucceeds` proves it of every
   attachment that no workspace operation has linked.
5. *The Role lacks `update` on Secrets* (`delivery_role`), which the retry of a create and
   a rebuild over a live compute need.
6. *A compute is not workspace-exclusive* (`pool_exclusive`): pools are named by instance
   type alone, have one machine at most, and take pods that request nothing.
   `ComputesShareMachine` proves it for any number of computes and one replica.

## Proofs

`OperationQueue_proofs` proves, for any finite sets of operations and workers, any batch
size and retry limit and any set of faults:

* `QueueTypeCorrect`, `OneWorkerAtATime`, `AttemptsStayInBudget`, `OutcomeIsTruthful`:
  the invariants of `queue_faulty`;
* `SettledStaysSettled`: the action property `SettledIsFinal`;
* `QueueImplementsContract`: initial states map to initial states, and every step to a step
  of `OperationContract` or a stutter.

None of the invariants is inductive alone. `QueueInvariant` adds `LockInvariant`: a held
row exists, and unless overrun it has attempts left and is protected by its lease while
`accepted` and by its state afterwards. This is the argument why `LeaseOperation` is a lock
although a lease may run out at any time once `applying` is written, and why the three
unconditional updates cannot hit a row someone else holds. `AppliedInvariant` says where a
row can be after an attempt has done its work. The assumptions are
`ConstantsAssumption` (finite sets, positive bounds) and, for `AppliedInvariant`, that
statements do not fail.

Three more theorems say how far the lock and finding 1 go. `OrphansAreLost` is the action
property `OrphansStay`: by `LockInvariant` a row in nobody's hands stays so unless it is
leased, and an `applying` row is not. `OrphansHaveACause`: without `crash` and `store` every
way out of a worker's hands passes `MarkFailed` or `MarkSucceeded`, so no orphan appears,
late leases and lost replies included. `LeaseIsALock`: without `lateLease` no two workers
hold one row; the instance where they do needs a worker that stalls for a whole TTL.

`Reservation_proofs` proves for any keys, requests, handlers and faults
`ReservationTypeCorrect`, `ReceiptsAreBacked`, `WorkspacesAreWhole`,
`ReferencesAlwaysResolve` and `FirstRequestAlwaysWins`. Each effect a statement can have on
the tables (none, a row, an operation, a whole reservation) has a lemma saying that it only
adds and keeps the table invariants; `FinishKeeps` deals with the receipt. The
strengthening is `HandlerInvariant` (what a handler may rely on between its statements) and
`OperationsWereAsked` (an operation under a key comes from a request with that key), which
makes a receipt exact when a key has one request. From the same invariant follow
`OneRoutePerKeySuffices` and `StrandedForGood`, the cause and the permanence of finding 2.
Assumed is `RequestsAssumption`: requests
are well-typed and a destroy names a resource.

`Delivery_proofs` proves, for any operations, number of workers, retry limit, Role and
faults, `DeliveryTypeCorrect`, `RowsAlwaysFollowCluster`, `StorageAlwaysSurvives` and
`RoutesAreKept`. Neither `TypeOK` nor `RowsFollowCluster` is inductive, because workers
write back rows they read earlier and derive names from them: `DeliveryInvariant` adds that
the rows are true of the cluster (`RowsBacked`), that what a worker remembers is still true
of it (`SeenBacked`), and what the steps behind an operation have established
(`StepsBacked`: a claim, the name behind a mount, a route). `ProgramsWellOrdered` checks
the programs: every read comes before its use, the claim before what names it, and the
guarded calls right before their rows. The argument is that claims and routes only grow
(`Grown`), so whatever was true when read stays true. `SharedStateKept` has one lemma per
kind of effect on rows and cluster, `LocalStateKept` one per way an operation moves.
Assumed are `TargetAssumption` (an operation reaches the rows its program needs, as the
foreign keys guarantee), `NoneAssumption` (`None` is no name) and `FaultsAssumption`.

`DeliverySuccess_proofs` proves, under the same assumptions, `SuccessIsReal`: a success that
nobody interfered with is real (`SucceededMeansDone`). `SuccessInvariant`, which stands on
`DeliveryInvariant`, says two things. An attachment row, or a worker's copy of one, names
only the compute and the storage it belongs to (`NamesBacked`). And an undisturbed operation
has behind it what the steps it has passed have done (`Progress`, one predicate per program,
by position), and `Done` once it has succeeded. The proof has a frame part and a program
part. `EffectOnRows` and `EffectOnObjects` say which rows and objects a step may touch, all
of them of its own operation, so an operation that overlaps nothing that runs is left alone
(`OthersLeaveAlone`, `LeftAloneKeeps`); it covers dead workers, lost replies and the
cleanups of failed calls, which are steps like others. The lemmas `...Step` follow each
program through its own steps, and `EndIsDone` closes them. `StartKeepsIntact` is about
operations that begin: they put those they overlap out of `intact`.

`DeliveryContract_proofs` proves `DeliveryKeepsPromise`: initial states of `Delivery` map to
initial states of `WorkspaceContract`, and every step maps to a step of it or a stutter, for
any operations, workers, Role and faults. Besides `DeliveryInvariant` and `NamesBacked` it
needs `PromiseInvariant`: what a worker is about to write is allowed (an entry row and a
worker's copy of it name only the compute of an operation on that entry, and a workspace
operation has an available volume and a route behind it before it writes `running`).
Each call and row update has a lemma of its own that names the contract step it is; the
cleanups of a failed `CreateCompute` are `StopApp`, `StartApp` or nothing. With the
refinement at hand, what a user of the contract may conclude is proved from the contract's
steps alone: `WorkspacesAreServed` says that mounts and routes never cross operations'
resources and that a workspace in state `running` has its volume, claim and route.

`DeliveryFindings_proofs` proves findings 3 and 4 for all instances. `RebuildNeverRemounts`
rests on `BareInvariant` (from `ensureDeployment` on, an undisturbed `compute_allocation`
has no mount; its own steps mount nothing, and by `OthersLeaveAlone` nobody else does).
`LoneAttachNeverSucceeds` rests on `Refless`: the row of an attachment that no workspace
operation is about names no Deployment, nor does any copy of it, so the call falls back to
the bare identifier, which is no Deployment's name; its hypothesis is met by every
attachment of the single-resource route.

`ComputePool_proofs` proves, for any computes, operations, workers, pool ids and faults,
`TypeCorrect` and four safety invariants, each with its strengthening:

* `RowsAreRight`: what workers hold in their hands must fit as well (`SeenFits`), since it
  is written back, and pools keep their names (`PoolsKept`); rows are read and written
  whole, so refs come with a pool in the table and in every hand (`RowsWhole`, `HandsWhole`);
* `DeploymentsHavePools`: `VerifiedBefore`; the only way to `deploy` is a verification, and
  whatever retires a pool under a worker marks it;
* `PoolsAreBounded`: a worker that has found no pool may add one, so working pools and
  workers at `create` are counted together (`PoolsBounded`); a worker comes to `create`
  only when there is no working pool of the name;
* `CleanupsAreComplete`: `CleanupKeepsTrack`, what is still to be deleted in each phase of a
  cleanup that met no worker, one Deployment, claim and pool after the other. Rows do not change meanwhile, because only workers write them.

`ComputesShareMachine` puts `PoolsAreBounded` to use: a pod is on a pool of its compute's
name for as long as its Deployment exists (`PodsFit`), and with at most one worker that may
change pools there is at most one working pool of a name.

`LiveE2E_proofs` proves `CommandsImplementPool` (the composition implements `ComputePool`:
every step of a command is a client's, a worker's, or a stutter there; `GiveUp` needs
`"crash" \in Faults`), so all the above holds beside the commands as well
(`PoolsBesideCommands`), `CommandTypeCorrect`, and `ReportsAreEarned`: "compute rebuilt" is
reported only by a run in which the compute was destroyed and rebuilt. The argument: the
three operations are asked for one after the other (`InOrder`), an operation is in the hands
of one worker (`OneWorkerEach`), and only the destroy clears the row (`ClearedByDestroy`,
`RowChanges`), as what workers write back has the refs the row has (`SeenRefs`). A run
destroys only after it has seen refs in the row; when the destroy it then finds is an
earlier run's, those refs stay (`Shown`) and its next check refuses. A run that gets past
that check has the destroy in it, and the rebuild comes after (`Dated`).

`ChecksSeeSuccess` is `ChecksFollowSuccess`. `Left` says what a success of one of the
command's three operations has left and still holds while the next one has not been asked
for: the running compute of a create or rebuild, or the cleared row of a destroy. It is kept
because whoever is through with an operation has done it (`Finished`), whoever is about to
write that the compute runs has its Deployment (`Placed`), and the claim stays from the
first step of the create on (`ClaimKept`). The lemmas show that one operation at a time
moves the subject (`NobodyBetween`, `OthersStandStill`), that a worker at its end has
done the work (`SuccessIsDone`), and that the scene stays what it is, so the cleanup
never runs beside the command (`Present`, `PresentBefore`). Assumed in both is that nobody else has an operation on the command's compute
(`SubjectIsOurs`), whose identifier is derived from the command's own key.

Model-checked only: liveness (`SettlesOrOrphaned`, `SettlesWithoutCrash`,
`UndisturbedRunReports`), which is out of the prover's reach. Every safety property of a
passing run is also a theorem.

What the properties leave out:

* `SucceededMeansDone` takes a storage destroy for done as it stands: with `Retained: true`
  there is nothing it has to do, as the architecture notes and the tests want it.
* `DeploysOnLivePool` excepts a worker whose pool the cleanup deletes between its
  verification and its Deployment (`overtaken`), and says nothing of how a row whose pool
  is gone gets another. Both are listed as hazards.
* The refinement of `OperationContract` hides a `failed` that is not yet a verdict.
  `FailureSeen` has the end-to-end command read it; no property is about that reader, since
  no document says that it waits for the retry.

## Not modelled

* Wording of errors, JSON, evidence envelopes; reads of the API and the operator token.
* Configuration, gate, evidence and catalog, which are pure and unit-tested, and the
  loading of a kubeconfig.
* The preflight and the namespace bootstrap of the end-to-end command, and its
  diagnostics: calls and output without a state of their own.
* Labels of pools and pods, node selectors and resource requests. Their consequences are in
  the models (one machine per pool, any number of pods on it, nothing found by node label),
  not the values. A second request for an instance type with another capacity pool finds a
  pool whose labels its pods do not select; that hazard is listed without a property.
* Hash collisions of identifiers and the truncation of long names.
* The console, which reads through the API.
* A store that returns wrong data, a Kubernetes API that forgets objects, and a lease that
  runs out in `Delivery` and `ComputePool` (`OperationQueue` shows when that can happen).

## Plan

Done: 1. `OperationQueue` with its contract and proofs; 2. `Reservation` with proofs;
3. `Delivery` on top of `OperationContract`, with proofs; 4. `ComputePool` and `LiveE2E`,
with proofs; 5. `SucceededMeansDone` as a theorem; 6. `WorkspaceContract`, which `Delivery`
implements; 7. the findings as theorems about every instance.

Left, in this order:

8. Names and labels: `boundedName` and `computePoolName` as operators, against a reference
   definition, and labels of pools as values in `ComputePool`.
