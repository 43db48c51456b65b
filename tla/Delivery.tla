------------------------------- MODULE Delivery -------------------------------
(***************************************************************************)
(* What the workers do to the resources: the orchestrator's programs, the  *)
(* resource rows they read and write, and the Kubernetes objects they      *)
(* create, change and delete through the provider.                         *)
(*                                                                         *)
(* An operation is a program: a sequence of steps, each one SQL statement, *)
(* one provider call, or some reads in a row.  The fate of an operation    *)
(* between attempts is OperationContract, which OperationQueue implements. *)
(***************************************************************************)
EXTENDS Naturals, Sequences, FiniteSets

CONSTANTS
  Operations,   \* the accepted operations
  Kind,         \* the resource_kind of each operation
  Target,       \* the resources each operation reaches through its resource_id
  Workers,      \* how many operations run at the same time
  MaxAttempts,  \* attempts per operation
  SecretVerbs,  \* what the Role of the worker allows on Secrets
  Faults,       \* the faults of the environment that may occur
  None          \* no resource, no name, no row read

Kinds ==
  {"storage_volume", "compute_allocation", "storage_attachment", "workspace_entry",
   "workspace", "compute_allocation_destroy", "storage_destroy", "attachment_detach"}

Parts == {"storage", "compute", "attachment", "entry", "workspace"}

\* What a program finds through the resource_id of its operation: the row itself and
\* the rows it references, which the foreign keys keep in place.
Needs ==
  [storage_volume |-> {"storage"}, compute_allocation |-> {"compute"},
   storage_attachment |-> {"storage", "compute", "attachment"},
   workspace_entry |-> {"entry"}, workspace |-> Parts,
   compute_allocation_destroy |-> {"compute"}, storage_destroy |-> {"storage"},
   attachment_detach |-> {"storage", "compute", "attachment"}]

\* An attachment row references one compute and one storage for good.
ASSUME TargetAssumption ==
  /\ Kind \in [Operations -> Kinds]
  /\ \A o \in Operations :
       /\ DOMAIN Target[o] = Parts
       /\ \A part \in Needs[Kind[o]] : Target[o][part] # None
  /\ \A o, p \in Operations :
       Target[o].attachment = Target[p].attachment /\ Target[o].attachment # None =>
         /\ Target[o].compute = Target[p].compute
         /\ Target[o].storage = Target[p].storage

\* "calls": a statement or a provider call fails without effect.  "lostReply":
\* it takes effect and the worker sees an error.  "crash": the worker dies.
ASSUME FaultsAssumption ==
  /\ Faults \subseteq {"calls", "lostReply", "crash"}
  /\ Workers \in Nat /\ MaxAttempts \in Nat

Ids(part) == {Target[o][part] : o \in Operations} \ {None}

VARIABLES
  status, tries,  \* the operations, as OperationContract has them
  step,           \* the step of its program an operation is at, 0: not running
  storages,       \* storage_volumes: state, and whether provider_ref is set
  computes,       \* compute_allocations: state, refs and node pool set or not
  attachments,    \* storage_attachments: state and the two halves of provider_ref
  entries,        \* workspace_entries: state and service_ref
  workspaces,     \* workspaces.state
  claims,         \* the PersistentVolumeClaims of the namespace
  deployments,    \* its Deployments
  mounted,        \* pairs of a Deployment and the claim in its pod template
  services,       \* its Services
  secrets,        \* its "-env" Secrets, by the name of their Deployment
  gateway,        \* the shared Ingress: the Service each entry's path leads to
  seen,           \* what a running operation has read and still uses
  madeSecret,     \* the running operations whose attempt created the Secret
  intact          \* history: the operations nothing has interfered with

queue == <<status, tries>>
rows == <<storages, computes, attachments, entries, workspaces>>
cluster == <<claims, deployments, mounted, services, secrets, gateway>>
local == <<seen, madeSecret>>
vars == <<queue, step, rows, cluster, local, intact>>

Queue == INSTANCE OperationContract

-----------------------------------------------------------------------------
\* Names: a prefix and an identifier.  k8sName of an identifier is never the
\* identifier itself, which is bareName.
k8sName(id) == <<"opl", id>>
claimName(id) == <<"opl-data", id>>
bareName(id) == <<"", id>>

\* None is no name.
ASSUME NoneAssumption ==
  \A part \in Parts : \A i \in Ids(part) : None \notin {k8sName(i), claimName(i), bareName(i)}

\* A half of an attachment's provider_ref, or what splitProviderRefs puts in its
\* place: the bare identifier of the row.
OrBare(name, id) == IF name = None THEN bareName(id) ELSE name

\* A slip: a route that forgets to ask for retention.
NotRetained(s) == FALSE

\* Both creating routes reserve storage with Retained: true.
Retained(s) == TRUE

\* A slip: the row is written ahead of the call.
StorageStepsSwapped == <<"storageRow", "createClaim">>

\* The programs of Orchestrator.apply.
StorageSteps == <<"createClaim", "storageRow">>
ComputeSteps ==
  <<"readCompute", "resolvePool", "ensureSecret", "ensureDeployment",
    "ensureService", "computeRow">>
AttachSteps == <<"readAttachment", "mount", "attachmentRow">>
EntrySteps == <<"readEntry", "putRoute", "entryRow">>
WorkspaceSteps ==
  <<"provisioning">> \o StorageSteps
  \o <<"readCompute", "resolvePool">> \o ComputeSteps
  \o <<"readParts", "linkAttachment">> \o AttachSteps
  \o <<"readEntry", "linkEntry">> \o EntrySteps \o <<"workspaceRow">>

DestroyComputeSteps ==
  <<"readCompute", "deleteDeployment", "deleteService", "deleteSecret", "destroyedRow">>

Program ==
  [storage_volume |-> StorageSteps, compute_allocation |-> ComputeSteps,
   storage_attachment |-> AttachSteps, workspace_entry |-> EntrySteps,
   workspace |-> WorkspaceSteps,
   compute_allocation_destroy |-> DestroyComputeSteps,
   storage_destroy |-> <<"deleteClaim", "storageGoneRow">>,
   attachment_detach |-> <<"readAttachment", "unmount", "detachedRow">>]

Running(o) == step[o] # 0

At(o, name) ==
  Running(o) /\ step[o] <= Len(Program[Kind[o]]) /\ Program[Kind[o]][step[o]] = name

Touches(o) == {Target[o][part] : part \in Parts} \ {None}

Overlap(o) == {p \in Operations \ {o} : Touches(o) \cap Touches(p) # {}}

Nothing == [compute |-> None, attachment |-> None, entry |-> None, gateway |-> None]

-----------------------------------------------------------------------------
\* The reads.  Each overwrites what an earlier step of the attempt had read.

Remember(o, part, row) == seen' = [seen EXCEPT ![o][part] = row]

Read(o) ==
  \/ At(o, "readCompute") /\ Remember(o, "compute", computes[Target[o].compute])
  \/ At(o, "readAttachment") /\ Remember(o, "attachment", attachments[Target[o].attachment])
  \/ /\ At(o, "readParts")
     /\ seen' = [seen EXCEPT ![o].compute = computes[Target[o].compute],
                             ![o].attachment = attachments[Target[o].attachment]]
  \/ /\ At(o, "readEntry")
     /\ seen' = [seen EXCEPT ![o].entry = entries[Target[o].entry],
                             ![o].gateway = gateway]

-----------------------------------------------------------------------------
\* The writes to the rows.

SetCompute(o, row) == computes' = [computes EXCEPT ![Target[o].compute] = row]
SetStorage(o, row) == storages' = [storages EXCEPT ![Target[o].storage] = row]
SetAttachment(o, row) ==
  attachments' = [attachments EXCEPT ![Target[o].attachment] = row]
SetEntry(o, row) == entries' = [entries EXCEPT ![Target[o].entry] = row]
SetWorkspace(o, s) == workspaces' = [workspaces EXCEPT ![Target[o].workspace] = s]

StorageRow(o) ==
  /\ \/ At(o, "storageRow") /\ SetStorage(o, [state |-> "available", ref |-> TRUE])
     \/ /\ At(o, "storageGoneRow")
        /\ IF Retained(Target[o].storage)
           THEN UNCHANGED storages
           ELSE SetStorage(o, [state |-> "destroyed", ref |-> FALSE])
  /\ UNCHANGED <<computes, attachments, entries, workspaces>>

\* resolveComputePool writes back the whole row it was given.
ComputeRow(o) ==
  /\ \/ /\ At(o, "resolvePool")
        /\ IF seen[o].compute.pool
           THEN UNCHANGED computes
           ELSE SetCompute(o, [seen[o].compute EXCEPT !.pool = TRUE])
     \/ /\ At(o, "computeRow")
        /\ SetCompute(o, [state |-> "running", refs |-> TRUE, pool |-> TRUE])
     \/ /\ At(o, "destroyedRow")
        /\ SetCompute(o, [state |-> "destroyed", refs |-> FALSE, pool |-> FALSE])
  /\ UNCHANGED <<storages, attachments, entries, workspaces>>

\* linkAttachment: compute.ProviderRef + ":" + storage.ProviderRef.
AttachmentRow(o) ==
  /\ \/ /\ At(o, "linkAttachment")
        /\ SetAttachment(o,
             [state |-> seen[o].attachment.state,
              compute |-> IF seen[o].compute.refs
                          THEN k8sName(Target[o].compute) ELSE None,
              claim |-> claimName(Target[o].storage)])
     \/ /\ At(o, "attachmentRow")
        /\ SetAttachment(o,
             [state |-> "attached",
              compute |-> OrBare(seen[o].attachment.compute, Target[o].compute),
              claim |-> OrBare(seen[o].attachment.claim, Target[o].storage)])
     \/ /\ At(o, "detachedRow")
        /\ SetAttachment(o, [state |-> "detached", compute |-> None, claim |-> None])
  /\ UNCHANGED <<storages, computes, entries, workspaces>>

\* linkEntry sets the service to the RuntimeRef of the compute read before.
EntryRow(o) ==
  /\ \/ /\ At(o, "linkEntry")
        /\ SetEntry(o, [seen[o].entry EXCEPT
                          !.service = IF seen[o].compute.refs
                                      THEN k8sName(Target[o].compute) ELSE None])
     \/ At(o, "entryRow") /\ SetEntry(o, [seen[o].entry EXCEPT !.state = "ready"])
  /\ UNCHANGED <<storages, computes, attachments, workspaces>>

WorkspaceRow(o) ==
  /\ \/ At(o, "provisioning") /\ SetWorkspace(o, "provisioning")
     \/ At(o, "workspaceRow") /\ SetWorkspace(o, "running")
  /\ UNCHANGED <<storages, computes, attachments, entries>>

WriteRow(o) ==
  /\ StorageRow(o) \/ ComputeRow(o) \/ AttachmentRow(o) \/ EntryRow(o) \/ WorkspaceRow(o)
  /\ UNCHANGED cluster

-----------------------------------------------------------------------------
\* The calls to Kubernetes.  An update carries the resourceVersion of the object
\* read just before, so an update that succeeds has read what it changed.

Deployment(o) == k8sName(Target[o].compute)

WithoutMounts(name) == {m \in mounted : m[1] # name}

CreateClaim(o) ==
  /\ At(o, "createClaim")
  /\ claims' = claims \cup {claimName(Target[o].storage)}
  /\ UNCHANGED <<deployments, mounted, services, secrets, gateway>>

DeleteClaim(o) ==
  /\ At(o, "deleteClaim")
  /\ claims' = IF Retained(Target[o].storage) THEN claims
               ELSE claims \ {claimName(Target[o].storage)}
  /\ UNCHANGED <<deployments, mounted, services, secrets, gateway>>

\* ensureCodexSecret: create, or else update what is there.
EnsureSecret(o) ==
  /\ At(o, "ensureSecret")
  /\ Deployment(o) \in secrets => "update" \in SecretVerbs
  /\ secrets' = secrets \cup {Deployment(o)}
  /\ UNCHANGED <<claims, deployments, mounted, services, gateway>>

\* A slip: an existing Deployment is left as it is.
DeploymentLeftAlone(o) ==
  /\ At(o, "ensureDeployment")
  /\ UNCHANGED cluster

\* ensureDeployment: the new pod template has no volumes, also when it replaces
\* one that had.
EnsureDeployment(o) ==
  /\ At(o, "ensureDeployment")
  /\ deployments' = deployments \cup {Deployment(o)}
  /\ mounted' = WithoutMounts(Deployment(o))
  /\ UNCHANGED <<claims, services, secrets, gateway>>

EnsureService(o) ==
  /\ At(o, "ensureService")
  /\ services' = services \cup {Deployment(o)}
  /\ UNCHANGED <<claims, deployments, mounted, secrets, gateway>>

\* AttachStorage: the Deployment must exist under the name in the row.
Mount(o) ==
  LET name == OrBare(seen[o].attachment.compute, Target[o].compute)
      claim == OrBare(seen[o].attachment.claim, Target[o].storage)
  IN  /\ At(o, "mount")
      /\ name \in deployments
      /\ mounted' = WithoutMounts(name) \cup {<<name, claim>>}
      /\ UNCHANGED <<claims, deployments, services, secrets, gateway>>

\* DetachStorage: no Deployment is fine, no name of one is not.
Unmount(o) ==
  /\ At(o, "unmount")
  /\ seen[o].attachment.compute # None
  /\ mounted' = WithoutMounts(seen[o].attachment.compute)
  /\ UNCHANGED <<claims, deployments, services, secrets, gateway>>

\* A slip: the Ingress is written back without its resourceVersion.
PutRouteBlindly(o) ==
  /\ At(o, "putRoute")
  /\ gateway' = [seen[o].gateway EXCEPT ![Target[o].entry] =
                   OrBare(seen[o].entry.service, Target[o].entry)]
  /\ UNCHANGED <<claims, deployments, mounted, services, secrets>>

\* CreateWorkspaceEntry: the Ingress read before is still the current one.  An
\* entry without a service is routed to a Service named after its workspace.
PutRoute(o) ==
  /\ At(o, "putRoute")
  /\ gateway = seen[o].gateway
  /\ gateway' = [gateway EXCEPT ![Target[o].entry] =
                   OrBare(seen[o].entry.service, Target[o].entry)]
  /\ UNCHANGED <<claims, deployments, mounted, services, secrets>>

\* DestroyCompute, by the refs of the row: without them the call has no name.
DeleteDeployment(o) ==
  /\ At(o, "deleteDeployment")
  /\ seen[o].compute.refs
  /\ deployments' = deployments \ {Deployment(o)}
  /\ mounted' = WithoutMounts(Deployment(o))
  /\ UNCHANGED <<claims, services, secrets, gateway>>

\* A slip: the Service is left behind.
DeleteServiceForgotten(o) ==
  /\ At(o, "deleteService")
  /\ UNCHANGED cluster

DeleteService(o) ==
  /\ At(o, "deleteService")
  /\ services' = services \ {Deployment(o)}
  /\ UNCHANGED <<claims, deployments, mounted, secrets, gateway>>

DeleteSecret(o) ==
  /\ At(o, "deleteSecret")
  /\ secrets' = secrets \ {Deployment(o)}
  /\ UNCHANGED <<claims, deployments, mounted, services, gateway>>

Call(o) ==
  /\ \/ CreateClaim(o) \/ DeleteClaim(o)
     \/ EnsureSecret(o) \/ EnsureDeployment(o) \/ EnsureService(o)
     \/ Mount(o) \/ Unmount(o) \/ PutRoute(o)
     \/ DeleteDeployment(o) \/ DeleteService(o) \/ DeleteSecret(o)
  /\ UNCHANGED rows

-----------------------------------------------------------------------------
\* An attempt.

Init ==
  /\ status = [o \in Operations |-> "pending"]
  /\ tries = [o \in Operations |-> 0]
  /\ step = [o \in Operations |-> 0]
  /\ storages = [s \in Ids("storage") |-> [state |-> "creating", ref |-> FALSE]]
  /\ computes = [c \in Ids("compute") |->
                   [state |-> "creating", refs |-> FALSE, pool |-> FALSE]]
  /\ attachments = [a \in Ids("attachment") |->
                      [state |-> "attaching", compute |-> None, claim |-> None]]
  /\ entries = [e \in Ids("entry") |-> [state |-> "creating", service |-> None]]
  /\ workspaces = [w \in Ids("workspace") |-> "provisioning"]
  /\ claims = {}
  /\ deployments = {}
  /\ mounted = {}
  /\ services = {}
  /\ secrets = {}
  /\ gateway = [e \in Ids("entry") |-> None]
  /\ seen = [o \in Operations |-> Nothing]
  /\ madeSecret = {}
  /\ intact = {}

\* Nothing has interfered with o as long as no other operation on one of its
\* resources runs or starts after it.
Start(o) ==
  /\ Cardinality({p \in Operations : Running(p)}) < Workers
  /\ Queue!Start(o)
  /\ step' = [step EXCEPT ![o] = 1]
  /\ intact' = LET others == intact \ Overlap(o)
               IN  IF \E p \in Overlap(o) : Running(p) THEN others ELSE others \cup {o}
  /\ UNCHANGED <<rows, cluster, local>>

Advance(o) ==
  /\ step' = [step EXCEPT ![o] = @ + 1]
  /\ UNCHANGED <<queue, intact>>

\* A slip: the error is counted and the attempt goes on.
LeaveWithoutReturn(o) ==
  /\ UNCHANGED step
  /\ seen' = [seen EXCEPT ![o] = Nothing]
  /\ madeSecret' = madeSecret \ {o}

\* The local variables of the attempt are gone.
Leave(o) ==
  /\ step' = [step EXCEPT ![o] = 0]
  /\ seen' = [seen EXCEPT ![o] = Nothing]
  /\ madeSecret' = madeSecret \ {o}

Reads(o) ==
  /\ Read(o)
  /\ Advance(o)
  /\ UNCHANGED <<rows, cluster, madeSecret>>

Writes(o) ==
  /\ WriteRow(o)
  /\ Advance(o)
  /\ UNCHANGED local

Calls(o) ==
  /\ Call(o)
  /\ Advance(o)
  /\ madeSecret' = IF At(o, "ensureSecret") /\ Deployment(o) \notin secrets
                   THEN madeSecret \cup {o} ELSE madeSecret
  /\ UNCHANGED seen

Succeed(o) ==
  /\ step[o] = Len(Program[Kind[o]]) + 1
  /\ Queue!Complete(o)
  /\ Leave(o)
  /\ UNCHANGED <<rows, cluster, intact>>

\* The error of the step reaches Worker.RunOnce, which counts it.
FailAttempt(o) ==
  /\ Queue!CountFailure(o)
  /\ Leave(o)
  /\ intact' = intact \ {o}

\* What fails without any fault: the guards of the calls above.
Doomed(o) ==
  \/ At(o, "ensureSecret") /\ Deployment(o) \in secrets /\ "update" \notin SecretVerbs
  \/ /\ At(o, "mount")
     /\ OrBare(seen[o].attachment.compute, Target[o].compute) \notin deployments
  \/ At(o, "unmount") /\ seen[o].attachment.compute = None
  \/ At(o, "putRoute") /\ gateway # seen[o].gateway
  \/ At(o, "deleteDeployment") /\ ~seen[o].compute.refs

StepFails(o) ==
  /\ step[o] \in 1..Len(Program[Kind[o]])
  /\ ~At(o, "ensureDeployment") /\ ~At(o, "ensureService")
  /\ "calls" \in Faults \/ Doomed(o)
  /\ FailAttempt(o)
  /\ UNCHANGED <<rows, cluster>>

StepLost(o) ==
  /\ "lostReply" \in Faults
  /\ ~At(o, "ensureDeployment") /\ ~At(o, "ensureService")
  /\ WriteRow(o) \/ Call(o)
  /\ FailAttempt(o)

\* The Secret of a failed CreateCompute goes if this attempt made it, unless its
\* deletion fails as well.
CleanedSecrets(o) ==
  {secrets} \cup {secrets \ {Deployment(o)} : x \in madeSecret \cap {o}}

EnsureDeploymentFails(o) ==
  /\ At(o, "ensureDeployment")
  /\ \/ "calls" \in Faults /\ UNCHANGED <<deployments, mounted>>
     \/ /\ "lostReply" \in Faults
        /\ deployments' = deployments \cup {Deployment(o)}
        /\ mounted' = WithoutMounts(Deployment(o))
  /\ secrets' \in CleanedSecrets(o)
  /\ FailAttempt(o)
  /\ UNCHANGED <<rows, claims, services, gateway>>

\* The cleanup deletes the Deployment, an older one as well.
EnsureServiceFails(o) ==
  /\ At(o, "ensureService")
  /\ \/ "calls" \in Faults /\ UNCHANGED services
     \/ "lostReply" \in Faults /\ services' = services \cup {Deployment(o)}
  /\ \/ UNCHANGED <<deployments, mounted, secrets>>
     \/ /\ deployments' = deployments \ {Deployment(o)}
        /\ mounted' = WithoutMounts(Deployment(o))
        /\ secrets' \in CleanedSecrets(o)
  /\ FailAttempt(o)
  /\ UNCHANGED <<rows, claims, gateway>>

\* The worker dies: the row stays "applying", or "failed" if that was written.
Crash(o) ==
  /\ "crash" \in Faults
  /\ Running(o)
  /\ UNCHANGED queue \/ Queue!Abandon(o)
  /\ Leave(o)
  /\ intact' = intact \ {o}
  /\ UNCHANGED <<rows, cluster>>

Next ==
  \E o \in Operations :
    \/ Start(o) \/ Reads(o) \/ Writes(o) \/ Calls(o) \/ Succeed(o)
    \/ StepFails(o) \/ StepLost(o)
    \/ EnsureDeploymentFails(o) \/ EnsureServiceFails(o)
    \/ Crash(o)

Spec == Init /\ [][Next]_vars

-----------------------------------------------------------------------------
Names == {k8sName(c) : c \in Ids("compute")}
Claims == {claimName(s) : s \in Ids("storage")}
ServiceNames == Names \cup {bareName(e) : e \in Ids("entry")}

StorageRows == [state : {"creating", "available", "destroyed"}, ref : BOOLEAN]
ComputeRows == [state : {"creating", "running", "destroyed"}, refs : BOOLEAN, pool : BOOLEAN]
AttachmentRows ==
  [state : {"attaching", "attached", "detached"},
   compute : Names \cup {None}, claim : Claims \cup {None}]
EntryRows == [state : {"creating", "ready"}, service : Names \cup {None}]
Routes == [Ids("entry") -> ServiceNames \cup {None}]

AttemptsTypeOK ==
  /\ status \in [Operations -> Queue!Statuses]
  /\ tries \in [Operations -> 0..MaxAttempts]
  /\ step \in [Operations -> Nat]
  /\ \A o \in Operations :
       /\ step[o] <= Len(Program[Kind[o]]) + 1
       /\ Running(o) => status[o] = "running"

RowsTypeOK ==
  /\ storages \in [Ids("storage") -> StorageRows]
  /\ computes \in [Ids("compute") -> ComputeRows]
  /\ attachments \in [Ids("attachment") -> AttachmentRows]
  /\ entries \in [Ids("entry") -> EntryRows]
  /\ workspaces \in [Ids("workspace") -> {"provisioning", "running"}]

ClusterTypeOK ==
  /\ claims \subseteq Claims
  /\ deployments \subseteq Names
  /\ mounted \subseteq deployments \X Claims
  /\ services \subseteq Names
  /\ secrets \subseteq Names
  /\ gateway \in Routes

LocalTypeOK ==
  /\ seen \in [Operations ->
       [compute : ComputeRows \cup {None}, attachment : AttachmentRows \cup {None},
        entry : EntryRows \cup {None}, gateway : Routes \cup {None}]]
  /\ madeSecret \subseteq Operations
  /\ intact \subseteq Operations

TypeOK == AttemptsTypeOK /\ RowsTypeOK /\ ClusterTypeOK /\ LocalTypeOK

\* A compute is there with all its objects, and its row can reach them.
ComputeDone(o) ==
  /\ Deployment(o) \in deployments \cap services \cap secrets
  /\ computes[Target[o].compute] = [state |-> "running", refs |-> TRUE, pool |-> TRUE]

StorageDone(o) ==
  /\ claimName(Target[o].storage) \in claims
  /\ storages[Target[o].storage] = [state |-> "available", ref |-> TRUE]

\* The whole way from the URL to the data.
WorkspaceDone(o) ==
  LET claim == claimName(Target[o].storage)
      attached == [state |-> "attached", compute |-> Deployment(o), claim |-> claim]
  IN  /\ StorageDone(o)
      /\ ComputeDone(o)
      /\ <<Deployment(o), claim>> \in mounted
      /\ attachments[Target[o].attachment] = attached
      /\ gateway[Target[o].entry] = Deployment(o)
      /\ entries[Target[o].entry] = [state |-> "ready", service |-> Deployment(o)]
      /\ workspaces[Target[o].workspace] = "running"

ComputeGone(o) ==
  /\ Deployment(o) \notin deployments \cup services \cup secrets
  /\ computes[Target[o].compute] = [state |-> "destroyed", refs |-> FALSE, pool |-> FALSE]

Detached(o) ==
  /\ <<Deployment(o), claimName(Target[o].storage)>> \notin mounted
  /\ attachments[Target[o].attachment].state = "detached"

Done(o) ==
  CASE Kind[o] = "storage_volume"             -> StorageDone(o)
    [] Kind[o] = "compute_allocation"         -> ComputeDone(o)
    [] Kind[o] = "workspace"                  -> WorkspaceDone(o)
    [] Kind[o] = "compute_allocation_destroy" -> ComputeGone(o)
    [] Kind[o] = "attachment_detach"          -> Detached(o)
    [] Kind[o] = "workspace_entry"            -> gateway[Target[o].entry] # None
    [] OTHER                                  -> TRUE

\* An operation that is reported "succeeded" has done its work, in the rows and in
\* the cluster, whatever earlier attempts, dead workers and cleanups left behind,
\* until another operation on one of its resources starts; operations on other
\* resources, which share the gateway, do not disturb it (Orchestrator.apply).
SucceededMeansDone ==
  \A o \in intact : status[o] = "succeeded" => Done(o)

\* Rows are written after the objects they speak of: whatever fails or runs at
\* the same time, an available volume has its claim, a ready entry its route,
\* and an attachment that names a claim one that exists.
RowsFollowCluster ==
  /\ \A o \in Operations :
       Target[o].storage # None /\ storages[Target[o].storage].state = "available" =>
         claimName(Target[o].storage) \in claims
  /\ \A e \in Ids("entry") : entries[e].state = "ready" => gateway[e] # None
  /\ \A a \in Ids("attachment") :
       attachments[a].claim # None => attachments[a].claim \in claims
  /\ \A c \in Ids("compute") : computes[c].state = "running" <=> computes[c].refs

\* docs/invariants.md: storage is persistent, and compute destruction never
\* destroys it.  No sequence of operations deletes a claim or takes a volume that
\* was available out of service.
StorageSurvives ==
  [][/\ claims \subseteq claims'
     /\ \A s \in Ids("storage") :
          storages[s].state = "available" => storages'[s] = storages[s]]_vars

\* README.md: destroying compute must not delete the URL record.  A route of the
\* gateway is never lost, also when two workers add routes at the same time.
RoutesKept ==
  [][\A e \in Ids("entry") :
       gateway[e] # None => gateway'[e] # None]_vars

\* What belongs together, by the operations: a compute and a storage on the way of
\* one of them, an entry and a compute, and what a workspace operation creates.
Links ==
  {l \in Ids("compute") \X Ids("storage") :
     \E o \in Operations : l = <<Target[o].compute, Target[o].storage>>}

Fronts ==
  {f \in Ids("entry") \X Ids("compute") :
     \E o \in Operations : f = <<Target[o].entry, Target[o].compute>>}

Holds ==
  {<<Target[o].workspace, Target[o].storage, Target[o].entry>> :
     o \in {p \in Operations : Kind[p] = "workspace"}}

\* What the promise speaks of, as it is found in rows and cluster.
Volumes == {s \in Ids("storage") : claimName(s) \in claims}
Offered == {s \in Ids("storage") : storages[s].state = "available"}
Apps == {c \in Ids("compute") : k8sName(c) \in deployments}
Disks ==
  {d \in Ids("compute") \X Ids("storage") : <<k8sName(d[1]), claimName(d[2])>> \in mounted}
Urls == {e \in Ids("entry") : gateway[e] # None}
Leads == {l \in Ids("entry") \X Ids("compute") : gateway[l[1]] = k8sName(l[2])}
Open == {w \in Ids("workspace") : workspaces[w] = "running"}

Promise == INSTANCE WorkspaceContract
             WITH Storages <- Ids("storage"), Computes <- Ids("compute"),
                  Entries <- Ids("entry"), Workspaces <- Ids("workspace"),
                  volumes <- Volumes, offered <- Offered, apps <- Apps, disks <- Disks,
                  urls <- Urls, leads <- Leads, open <- Open

\* docs/invariants.md and README.md on storage, addresses and workspaces, in one
\* specification: whatever operations meet, fail, lose replies, die and clean up, no
\* step deletes a volume or an address, mounts a claim or sets a route across
\* workspaces, or declares a workspace running before its volume and address exist.
KeepsPromise == Promise!ContractSpec

\* The live end-to-end command reports "compute rebuilt and storage remounted"
\* once a compute_allocation operation has succeeded on a workspace's compute that
\* was destroyed: the attachment row says attached, so the new Deployment should
\* mount the claim.
RebuildRemounts ==
  \A o \in intact : \A a \in Ids("attachment") :
    /\ Kind[o] = "compute_allocation"
    /\ status[o] = "succeeded"
    /\ \E d \in Overlap(o) :
         Kind[d] = "compute_allocation_destroy" /\ status[d] = "succeeded"
    /\ attachments[a].state = "attached"
    /\ attachments[a].compute = Deployment(o)
    => <<attachments[a].compute, attachments[a].claim>> \in mounted

\* README.md: storage can be detached from one ComputeAllocation and reattached to
\* another.  An attach operation between a running compute and an available volume
\* that is mounted nowhere should not fail when no call fails.
ReattachWorks ==
  [][\A o \in Operations :
       /\ Kind[o] = "storage_attachment"
       /\ computes[Target[o].compute].state = "running"
       /\ storages[Target[o].storage].state = "available"
       /\ \A m \in mounted : m[2] # claimName(Target[o].storage)
       => tries'[o] = tries[o]]_vars

\* README.md: the Role has the permissions for the Secrets used by the worker
\* path.  No call the worker comes to should be forbidden by it.
WorkerIsPermitted ==
  \A o \in Operations :
    At(o, "ensureSecret") /\ Deployment(o) \in secrets => "update" \in SecretVerbs
=============================================================================
