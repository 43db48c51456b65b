------------------------ MODULE DeliverySuccess_proofs ------------------------
(* The proof that a success of Delivery is real: SucceededMeansDone, for any    *)
(* operations, number of workers, retry limit, Role and faults.                 *)
EXTENDS Delivery_proofs

Storage(o) == claimName(Target[o].storage)

\* An attachment row, in its table or in a worker's hands, names nothing but the
\* compute and the storage it belongs to.
NamesOf(r, o) == r.compute \in {None, Deployment(o)} /\ r.claim \in {None, Storage(o)}

NamesBacked ==
  \A o \in Operations :
    /\ Target[o].attachment # None => NamesOf(attachments[Target[o].attachment], o)
    /\ Passed(o, AttachmentReads) => NamesOf(seen[o].attachment, o)

\* What an operation that runs undisturbed has behind it, by the position it is at.
StorageProgress(o) ==
  /\ step[o] > 1 => Storage(o) \in claims
  /\ step[o] > 2 => storages[Target[o].storage] = [state |-> "available", ref |-> TRUE]

ComputeProgress(o) ==
  /\ step[o] > 3 => Deployment(o) \in secrets
  /\ step[o] > 4 => Deployment(o) \in deployments
  /\ step[o] > 5 => Deployment(o) \in services
  /\ step[o] > 6 => computes[Target[o].compute] = [state |-> "running", refs |-> TRUE, pool |-> TRUE]

DestroyProgress(o) ==
  /\ step[o] > 2 => Deployment(o) \notin deployments
  /\ step[o] > 3 => Deployment(o) \notin services
  /\ step[o] > 4 => Deployment(o) \notin secrets
  /\ step[o] > 5 =>
       computes[Target[o].compute] = [state |-> "destroyed", refs |-> FALSE, pool |-> FALSE]

DetachProgress(o) ==
  /\ step[o] > 2 => \A m \in mounted : m[1] # Deployment(o)
  /\ step[o] > 3 => attachments[Target[o].attachment].state = "detached"

EntryProgress(o) == step[o] > 2 => gateway[Target[o].entry] # None

WorkspaceRows(o) ==
  /\ step[o] > 3 => storages[Target[o].storage] = [state |-> "available", ref |-> TRUE]
  /\ step[o] > 11 =>
       computes[Target[o].compute] = [state |-> "running", refs |-> TRUE, pool |-> TRUE]
  /\ step[o] > 13 =>
       /\ attachments[Target[o].attachment].compute = Deployment(o)
       /\ attachments[Target[o].attachment].claim = Storage(o)
  /\ step[o] > 16 => attachments[Target[o].attachment].state = "attached"
  /\ step[o] > 18 => entries[Target[o].entry].service = Deployment(o)
  /\ step[o] > 21 => entries[Target[o].entry].state = "ready"
  /\ step[o] > 22 => workspaces[Target[o].workspace] = "running"

WorkspaceObjects(o) ==
  /\ step[o] > 2 => Storage(o) \in claims
  /\ step[o] > 8 => Deployment(o) \in secrets
  /\ step[o] > 9 => Deployment(o) \in deployments
  /\ step[o] > 10 => Deployment(o) \in services
  /\ step[o] > 15 => <<Deployment(o), Storage(o)>> \in mounted
  /\ step[o] > 20 => gateway[Target[o].entry] = Deployment(o)

WorkspaceSeen(o) ==
  /\ step[o] > 12 => seen[o].compute.refs
  /\ step[o] > 14 =>
       /\ seen[o].attachment.compute = Deployment(o)
       /\ seen[o].attachment.claim = Storage(o)
  /\ step[o] > 19 => seen[o].entry.service = Deployment(o)

Progress(o) ==
  /\ Kind[o] = "storage_volume" => StorageProgress(o)
  /\ Kind[o] = "compute_allocation" => ComputeProgress(o)
  /\ Kind[o] = "compute_allocation_destroy" => DestroyProgress(o)
  /\ Kind[o] = "attachment_detach" => DetachProgress(o)
  /\ Kind[o] = "workspace_entry" => EntryProgress(o)
  /\ Kind[o] = "workspace" => WorkspaceRows(o) /\ WorkspaceObjects(o) /\ WorkspaceSeen(o)

\* An intact operation runs, or has succeeded, with nobody else on its resources.
IntactOf(o) ==
  /\ Running(o) \/ status[o] = "succeeded"
  /\ \A p \in Overlap(o) : ~Running(p)
  /\ Progress(o)
  /\ status[o] = "succeeded" => Done(o)

SuccessInvariant == NamesBacked /\ \A o \in intact : IntactOf(o)

-----------------------------------------------------------------------------
(* The steps, as the proof looks at them.                                      *)

Goes(o) == Reads(o) \/ Writes(o) \/ Calls(o)

Fails(o) ==
  StepFails(o) \/ StepLost(o) \/ EnsureDeploymentFails(o) \/ EnsureServiceFails(o) \/ Crash(o)

\* What a step of o does to the state: nothing, a statement, a call, or the debris of a
\* CreateCompute that failed.
Effect(o) ==
  \/ UNCHANGED <<rows, cluster>>
  \/ WriteRow(o)
  \/ Call(o)
  \/ /\ At(o, "ensureDeployment") \/ At(o, "ensureService")
     /\ deployments' \in {deployments, deployments \cup {Deployment(o)},
                          deployments \ {Deployment(o)}}
     /\ mounted' \in {mounted, WithoutMounts(Deployment(o))}
     /\ services' \in {services, services \cup {Deployment(o)}}
     /\ secrets' \in {secrets, secrets \ {Deployment(o)}}
     /\ UNCHANGED <<rows, claims, gateway>>

\* Every step but Start has such an effect.
LEMMA StepEffect ==
  ASSUME NEW o \in Operations, Goes(o) \/ Succeed(o) \/ Fails(o)
  PROVE  Effect(o)
<1>1. CASE Goes(o) \/ Succeed(o)
  BY <1>1 DEF Goes, Reads, Writes, Calls, Succeed, Effect
<1>2. CASE StepFails(o) \/ StepLost(o) \/ Crash(o)
  BY <1>2 DEF StepFails, StepLost, Crash, Effect
<1>3. ASSUME secrets' \in CleanedSecrets(o)
      PROVE  secrets' \in {secrets, secrets \ {Deployment(o)}}
  BY <1>3 DEF CleanedSecrets
<1>4. CASE EnsureDeploymentFails(o)
  BY <1>3, <1>4 DEF EnsureDeploymentFails, Effect
<1>5. CASE EnsureServiceFails(o)
  BY <1>3, <1>5 DEF EnsureServiceFails, Effect
<1> QED BY <1>1, <1>2, <1>4, <1>5 DEF Fails

\* The rows, objects and routes of others stay as they are.
OnlyOwnRows(o) ==
  /\ \A s \in Ids("storage") \ {Target[o].storage} : storages'[s] = storages[s]
  /\ \A c \in Ids("compute") \ {Target[o].compute} : computes'[c] = computes[c]
  /\ \A a \in Ids("attachment") \ {Target[o].attachment} : attachments'[a] = attachments[a]
  /\ \A e \in Ids("entry") \ {Target[o].entry} : entries'[e] = entries[e]
  /\ \A w \in Ids("workspace") \ {Target[o].workspace} : workspaces'[w] = workspaces[w]

OnlyOwnObjects(o) ==
  /\ \A e \in Ids("entry") \ {Target[o].entry} : gateway'[e] = gateway[e]
  /\ \A n : n # Deployment(o) =>
       /\ n \in deployments' <=> n \in deployments
       /\ n \in services' <=> n \in services
       /\ n \in secrets' <=> n \in secrets
  /\ \A m : m[1] # Deployment(o) => (m \in mounted' <=> m \in mounted)

\* No step writes a row of another operation's resource.
LEMMA EffectOnRows ==
  ASSUME RowsTypeOK, NEW o \in Operations, Effect(o)
  PROVE  OnlyOwnRows(o)
<1>1. CASE UNCHANGED rows
  BY <1>1 DEF rows, OnlyOwnRows
<1>2. CASE WriteRow(o)
  <2>1. CASE StorageRow(o)
    BY <2>1 DEF StorageRow, SetStorage, RowsTypeOK, OnlyOwnRows
  <2>2. CASE ComputeRow(o)
    BY <2>2 DEF ComputeRow, SetCompute, RowsTypeOK, OnlyOwnRows
  <2>3. CASE AttachmentRow(o)
    BY <2>3 DEF AttachmentRow, SetAttachment, RowsTypeOK, OnlyOwnRows
  <2>4. CASE EntryRow(o)
    BY <2>4 DEF EntryRow, SetEntry, RowsTypeOK, OnlyOwnRows
  <2>5. CASE WorkspaceRow(o)
    BY <2>5 DEF WorkspaceRow, SetWorkspace, RowsTypeOK, OnlyOwnRows
  <2> QED BY <1>2, <2>1, <2>2, <2>3, <2>4, <2>5 DEF WriteRow
<1> QED BY <1>1, <1>2 DEF Effect, Call

\* The name in a worker's hands that is a Deployment's is its own compute's.
LEMMA OwnName ==
  ASSUME DeliveryInvariant, NamesBacked, NEW o \in Operations,
         At(o, "mount") \/ At(o, "unmount")
  PROVE  seen[o].attachment.compute \in {None, Deployment(o)}
BY StepsInOrder DEF DeliveryInvariant, TypeOK, NamesBacked, NamesOf

\* No step touches the objects of another compute or the route of another entry.
LEMMA EffectOnObjects ==
  ASSUME DeliveryInvariant, NamesBacked, NEW o \in Operations, Effect(o)
  PROVE  OnlyOwnObjects(o)
<1> USE DEF OnlyOwnObjects, WithoutMounts
<1>1. CASE UNCHANGED cluster
  BY <1>1 DEF cluster
<1>2. CASE Call(o)
  <2>1. CASE CreateClaim(o) \/ DeleteClaim(o)
    BY <2>1 DEF CreateClaim, DeleteClaim
  <2>2. CASE EnsureSecret(o) \/ EnsureDeployment(o) \/ EnsureService(o)
    BY <2>2 DEF EnsureSecret, EnsureDeployment, EnsureService
  <2>3. CASE Mount(o)
    <3>1. OrBare(seen[o].attachment.compute, Target[o].compute) \in Names
      BY <2>3 DEF Mount, DeliveryInvariant, TypeOK, ClusterTypeOK
    <3>2. seen[o].attachment.compute # None
      BY <3>1 DEF OrBare, bareName, Names, k8sName
    <3>3. OrBare(seen[o].attachment.compute, Target[o].compute) = Deployment(o)
      BY <2>3, <3>2, OwnName DEF Mount, OrBare
    <3> QED BY <2>3, <3>3 DEF Mount
  <2>4. CASE Unmount(o)
    <3>1. seen[o].attachment.compute = Deployment(o)
      BY <2>4, OwnName DEF Unmount
    <3> QED BY <2>4, <3>1 DEF Unmount
  <2>5. CASE PutRoute(o)
    BY <2>5 DEF PutRoute, DeliveryInvariant, TypeOK, ClusterTypeOK, Routes
  <2>6. CASE DeleteDeployment(o) \/ DeleteService(o) \/ DeleteSecret(o)
    BY <2>6 DEF DeleteDeployment, DeleteService, DeleteSecret
  <2> QED BY <1>2, <2>1, <2>2, <2>3, <2>4, <2>5, <2>6 DEF Call
<1>3. CASE /\ deployments' \in {deployments, deployments \cup {Deployment(o)},
                                deployments \ {Deployment(o)}}
           /\ mounted' \in {mounted, WithoutMounts(Deployment(o))}
           /\ services' \in {services, services \cup {Deployment(o)}}
           /\ secrets' \in {secrets, secrets \ {Deployment(o)}}
           /\ UNCHANGED gateway
  BY <1>3
<1> QED BY <1>1, <1>2, <1>3 DEF Effect, WriteRow

-----------------------------------------------------------------------------
(* NamesBacked is inductive.                                                   *)

\* Operations on one attachment are on one compute and one storage.
LEMMA SameAttachment ==
  ASSUME NEW o \in Operations, NEW p \in Operations,
         Target[o].attachment = Target[p].attachment, Target[o].attachment # None
  PROVE  Deployment(o) = Deployment(p) /\ Storage(o) = Storage(p)
BY TargetAssumption DEF Deployment, Storage

\* What is written to an attachment row: its own names or none.
LEMMA AttachmentWritten ==
  ASSUME DeliveryInvariant, NamesBacked, NEW o \in Operations, AttachmentRow(o)
  PROVE  \E row : NamesOf(row, o) /\ SetAttachment(o, row)
<1> USE DEF DeliveryInvariant, TypeOK, NamesOf
<1>1. CASE At(o, "linkAttachment")
  BY <1>1 DEF AttachmentRow, At, Deployment, Storage
<1>2. CASE At(o, "attachmentRow")
  <2>1. Passed(o, AttachmentReads) /\ seen[o].attachment.compute # None
    BY <1>2, StepsInOrder DEF StepsBacked, StepsOf
  <2>2. NamesOf(seen[o].attachment, o) /\ seen[o].attachment.claim # None
    BY <2>1 DEF NamesBacked, SeenBacked, SeenOf, AttachmentRowBacked
  <2> DEFINE row == [state |-> "attached", compute |-> seen[o].attachment.compute,
                     claim |-> seen[o].attachment.claim]
  <2>3. SetAttachment(o, row)
    BY <1>2, <2>1, <2>2 DEF AttachmentRow, At, OrBare
  <2>4. NamesOf(row, o)
    BY <2>2
  <2> QED BY <2>3, <2>4
<1>3. CASE At(o, "detachedRow")
  BY <1>3 DEF AttachmentRow, At
<1> QED BY <1>1, <1>2, <1>3 DEF AttachmentRow

\* Attachment rows keep naming their own compute and storage.
LEMMA AttachmentsNamed ==
  ASSUME DeliveryInvariant, NamesBacked, NEW p \in Operations, Effect(p),
         NEW o \in Operations, Target[o].attachment # None
  PROVE  NamesOf(attachments'[Target[o].attachment], o)
<1>1. NamesOf(attachments[Target[o].attachment], o) /\ Target[o].attachment \in Ids("attachment")
  BY DEF NamesBacked, Ids
<1>2. CASE UNCHANGED attachments
  BY <1>1, <1>2
<1>3. CASE AttachmentRow(p)
  <2>1. PICK row : NamesOf(row, p) /\ SetAttachment(p, row)
    BY <1>3, AttachmentWritten
  <2>2. CASE Target[p].attachment = Target[o].attachment
    <3>1. NamesOf(row, o)
      BY <2>1, <2>2, SameAttachment DEF NamesOf
    <3>2. attachments'[Target[o].attachment] = row
      BY <1>1, <2>1, <2>2 DEF SetAttachment, DeliveryInvariant, TypeOK, RowsTypeOK
    <3> QED BY <3>1, <3>2
  <2>3. CASE Target[p].attachment # Target[o].attachment
    BY <1>1, <2>1, <2>3 DEF SetAttachment, DeliveryInvariant, TypeOK, RowsTypeOK
  <2> QED BY <2>2, <2>3
<1> QED
  BY <1>2, <1>3 DEF Effect, rows, WriteRow, Call, StorageRow, ComputeRow, EntryRow, WorkspaceRow

\* How a step moves the operations: the others stay where they are with what they have read.
LEMMA OthersWait ==
  ASSUME TypeOK, NEW o \in Operations, Start(o) \/ Goes(o) \/ Succeed(o) \/ Fails(o),
         NEW p \in Operations \ {o}
  PROVE  step'[p] = step[p] /\ seen'[p] = seen[p] /\ status'[p] = status[p]
<1> USE DEF TypeOK, AttemptsTypeOK, LocalTypeOK
<1>1. CASE Start(o)
  BY <1>1 DEF Start, Queue!Start, Queue!SetStatus, local
<1>2. CASE Reads(o)
  BY <1>2, ReadEffect DEF Reads, Advance, queue
<1>3. CASE Writes(o) \/ Calls(o)
  BY <1>3 DEF Writes, Calls, Advance, queue, local
<1>4. CASE Succeed(o) \/ Fails(o)
  <2>1. Leave(o)
    BY <1>4 DEF Succeed, Fails, StepFails, StepLost, EnsureDeploymentFails, EnsureServiceFails,
                Crash, FailAttempt
  <2>2. UNCHANGED queue \/ Queue!Complete(o) \/ Queue!CountFailure(o) \/ Queue!Abandon(o)
    BY <1>4 DEF Succeed, Fails, StepFails, StepLost, EnsureDeploymentFails, EnsureServiceFails,
                Crash, FailAttempt
  <2>3. status'[p] = status[p]
    BY <2>2 DEF queue, Queue!Complete, Queue!CountFailure, Queue!Abandon, Queue!SetStatus
  <2> QED BY <2>1, <2>3 DEF Leave
<1> QED BY <1>1, <1>2, <1>3, <1>4 DEF Goes

\* So do the copies that workers hold.
LEMMA NamesKept ==
  ASSUME DeliveryInvariant, NamesBacked, [Next]_vars
  PROVE  NamesBacked'
<1> USE DEF DeliveryInvariant, TypeOK
<1>1. CASE UNCHANGED vars
  BY <1>1 DEF vars, rows, local, NamesBacked, NamesOf, Passed, Deployment
<1>2. ASSUME NEW p \in Operations, Start(p) \/ Goes(p) \/ Succeed(p) \/ Fails(p)
      PROVE  NamesBacked'
  <2>1. ASSUME NEW o \in Operations, Target[o].attachment # None
        PROVE  NamesOf(attachments'[Target[o].attachment], o)
    <3>1. CASE Start(p)
      BY <2>1, <3>1 DEF Start, rows, NamesBacked
    <3>2. CASE Goes(p) \/ Succeed(p) \/ Fails(p)
      BY <2>1, <3>2, StepEffect, AttachmentsNamed
    <3> QED BY <1>2, <3>1, <3>2
  <2>2. ASSUME NEW o \in Operations, Passed(o, AttachmentReads)'
        PROVE  NamesOf(seen'[o].attachment, o)
    <3>1. CASE o # p
      <4>1. step'[o] = step[o] /\ seen'[o] = seen[o]
        BY <1>2, <3>1, OthersWait
      <4> QED BY <2>2, <4>1 DEF Passed, NamesBacked
    <3>2. CASE o = p /\ Goes(p)
      <4>1. /\ step'[o] = step[o] + 1
            /\ Read(o) \/ (seen'[o] = seen[o] /\ \E name \in UpdateNames : At(o, name))
                 \/ (seen'[o] = seen[o] /\ Call(o))
        BY <3>2, UpdateNamed
           DEF Goes, Reads, Writes, Calls, Advance, local, AttemptsTypeOK
      <4>2. CASE Read(o)
        <5>1. PICK name \in ReadNames :
                /\ At(o, name)
                /\ IF name \in AttachmentReads
                   THEN /\ Target[o].attachment \in Ids("attachment")
                        /\ seen'[o].attachment = attachments[Target[o].attachment]
                   ELSE seen'[o].attachment = seen[o].attachment
          BY <4>2, ReadEffect
        <5>2. Passed(o, AttachmentReads) \/ name \in AttachmentReads
          BY <2>2, <4>1, <5>1, PassedNext
        <5> QED BY <5>1, <5>2 DEF NamesBacked, Ids
      <4>3. CASE ~Read(o)
        <5>1. PICK name : At(o, name) /\ name \notin ReadNames
          BY <4>1, <4>3, CallEstablishes DEF UpdateNames, ReadNames
        <5>2. Passed(o, AttachmentReads)
          BY <2>2, <4>1, <5>1, PassedNext DEF ReadNames, AttachmentReads
        <5> QED BY <4>1, <4>3, <5>2 DEF NamesBacked
      <4> QED BY <4>2, <4>3
    <3>3. CASE o = p /\ ~Goes(p)
      <4>1. step'[o] \in {0, 1}
        BY <1>2, <3>3
           DEF Start, Succeed, Fails, StepFails, StepLost, EnsureDeploymentFails,
               EnsureServiceFails, Crash, FailAttempt, Leave, AttemptsTypeOK
      <4> QED BY <2>2, <4>1 DEF Passed, Before
    <3> QED BY <3>1, <3>2, <3>3
  <2> QED BY <2>1, <2>2 DEF NamesBacked, NamesOf, Deployment
<1> QED BY <1>1, <1>2 DEF Next, Goes, Fails

-----------------------------------------------------------------------------
(* A step of somebody else leaves what an intact operation has done.           *)

\* Operations that do not overlap share no resource, in either direction.
LEMMA NoOverlap ==
  ASSUME NEW o \in Operations, NEW p \in Operations \ {o}, p \notin Overlap(o)
  PROVE  /\ o \notin Overlap(p)
         /\ \A part \in Parts : Target[o][part] # None => Target[o][part] # Target[p][part]
         /\ Target[o].compute # None => Deployment(o) # Deployment(p)
<1>1. \A part \in Parts : Target[o][part] # None => Target[o][part] # Target[p][part]
  BY DEF Overlap, Touches
<1>2. o \notin Overlap(p)
  BY DEF Overlap
<1>3. Target[o].compute # None => Target[o].compute # Target[p].compute
  BY <1>1 DEF Parts
<1> QED BY <1>1, <1>2, <1>3 DEF Deployment, k8sName

\* The operation has what its program needs.
Reaches(o, part) == Target[o][part] \in Ids(part)

\* The foreign keys see to that.
LEMMA NeedsReached ==
  ASSUME NEW o \in Operations
  PROVE  \A part \in Needs[Kind[o]] : part \in Parts /\ Target[o][part] # None /\ Reaches(o, part)
BY TargetAssumption DEF Needs, Kinds, Parts, Ids, Reaches

\* What stays of the state an intact operation o relies on.
LeftAlone(o) ==
  /\ step'[o] = step[o] /\ seen'[o] = seen[o] /\ status'[o] = status[o]
  /\ claims \subseteq claims'
  /\ Reaches(o, "storage") => storages'[Target[o].storage] = storages[Target[o].storage]
  /\ Reaches(o, "compute") =>
       /\ computes'[Target[o].compute] = computes[Target[o].compute]
       /\ Deployment(o) \in deployments' <=> Deployment(o) \in deployments
       /\ Deployment(o) \in services' <=> Deployment(o) \in services
       /\ Deployment(o) \in secrets' <=> Deployment(o) \in secrets
       /\ \A m : m[1] = Deployment(o) => (m \in mounted' <=> m \in mounted)
  /\ Reaches(o, "attachment") =>
       attachments'[Target[o].attachment] = attachments[Target[o].attachment]
  /\ Reaches(o, "entry") =>
       /\ entries'[Target[o].entry] = entries[Target[o].entry]
       /\ gateway'[Target[o].entry] = gateway[Target[o].entry]
  /\ Reaches(o, "workspace") =>
       workspaces'[Target[o].workspace] = workspaces[Target[o].workspace]

\* Whatever an operation does that does not overlap with o, and however it fails.
LEMMA OthersLeaveAlone ==
  ASSUME DeliveryInvariant, NamesBacked, NEW p \in Operations, claims \subseteq claims',
         Start(p) \/ Goes(p) \/ Succeed(p) \/ Fails(p),
         NEW o \in Operations \ {p}, p \notin Overlap(o)
  PROVE  LeftAlone(o)
<1>1. step'[o] = step[o] /\ seen'[o] = seen[o] /\ status'[o] = status[o]
  BY OthersWait DEF DeliveryInvariant
<1>2. CASE Start(p)
  BY <1>1, <1>2 DEF Start, rows, cluster, LeftAlone
<1>3. CASE Goes(p) \/ Succeed(p) \/ Fails(p)
  <2>1. OnlyOwnRows(p) /\ OnlyOwnObjects(p)
    BY <1>3, StepEffect, EffectOnRows, EffectOnObjects DEF DeliveryInvariant, TypeOK
  <2>2. \A part \in Parts : Reaches(o, part) => Target[o][part] # Target[p][part]
    BY NoOverlap DEF Reaches, Ids
  <2>3. Reaches(o, "compute") => Deployment(o) # Deployment(p)
    BY NoOverlap DEF Reaches, Ids
  <2>4. /\ Reaches(o, "storage") => Target[o].storage \in Ids("storage") \ {Target[p].storage}
        /\ Reaches(o, "compute") => Target[o].compute \in Ids("compute") \ {Target[p].compute}
        /\ Reaches(o, "attachment") =>
             Target[o].attachment \in Ids("attachment") \ {Target[p].attachment}
        /\ Reaches(o, "entry") => Target[o].entry \in Ids("entry") \ {Target[p].entry}
        /\ Reaches(o, "workspace") =>
             Target[o].workspace \in Ids("workspace") \ {Target[p].workspace}
    BY <2>2 DEF Reaches, Parts
  <2> QED
    BY <1>1, <2>1, <2>3, <2>4 DEF LeftAlone, OnlyOwnRows, OnlyOwnObjects
<1> QED BY <1>2, <1>3

\* Progress and Done speak of nothing else.
LEMMA LeftAloneKeeps ==
  ASSUME NEW o \in Operations, LeftAlone(o), Progress(o), status[o] = "succeeded" => Done(o)
  PROVE  Progress(o)' /\ (status[o] = "succeeded" => Done(o))'
<1> USE DEF LeftAlone, Deployment, Storage
<1>1. Kind[o] \in Kinds
  BY TargetAssumption
<1>2. \A part \in Needs[Kind[o]] : Reaches(o, part)
  BY NeedsReached
<1>3. CASE Kind[o] = "storage_volume"
  BY <1>2, <1>3 DEF Needs, Progress, StorageProgress, Done, StorageDone
<1>4. CASE Kind[o] = "compute_allocation"
  BY <1>2, <1>4 DEF Needs, Progress, ComputeProgress, Done, ComputeDone
<1>5. CASE Kind[o] = "compute_allocation_destroy"
  BY <1>2, <1>5 DEF Needs, Progress, DestroyProgress, Done, ComputeGone
<1>6. CASE Kind[o] = "attachment_detach"
  BY <1>2, <1>6 DEF Needs, Progress, DetachProgress, Done, Detached
<1>7. CASE Kind[o] = "workspace_entry"
  BY <1>2, <1>7 DEF Needs, Progress, EntryProgress, Done
<1>8. CASE Kind[o] = "workspace"
  <2>1. \A part \in Parts : Reaches(o, part)
    BY <1>2, <1>8 DEF Needs
  <2>2. (WorkspaceRows(o) /\ WorkspaceObjects(o) /\ WorkspaceSeen(o))'
    BY <1>8, <2>1 DEF Parts, Progress, WorkspaceRows, WorkspaceObjects, WorkspaceSeen
  <2>3. (status[o] = "succeeded" => WorkspaceDone(o))'
    BY <1>8, <2>1 DEF Parts, Done, WorkspaceDone, StorageDone, ComputeDone
  <2> QED BY <1>8, <2>2, <2>3 DEF Progress, Done
<1>9. CASE Kind[o] \in {"storage_attachment", "storage_destroy"}
  BY <1>9 DEF Progress, Done
<1> QED BY <1>1, <1>3, <1>4, <1>5, <1>6, <1>7, <1>8, <1>9 DEF Kinds

-----------------------------------------------------------------------------
(* A step of an intact operation itself.                                       *)

\* What it does to the rows, by the name of the step.
OwnRows(o) ==
  /\ IF At(o, "storageRow") THEN SetStorage(o, [state |-> "available", ref |-> TRUE])
     ELSE UNCHANGED storages
  /\ IF At(o, "computeRow")
     THEN SetCompute(o, [state |-> "running", refs |-> TRUE, pool |-> TRUE])
     ELSE IF At(o, "destroyedRow")
     THEN SetCompute(o, [state |-> "destroyed", refs |-> FALSE, pool |-> FALSE])
     ELSE At(o, "resolvePool") \/ UNCHANGED computes
  /\ At(o, "linkAttachment") \/ At(o, "attachmentRow") \/ At(o, "detachedRow")
       \/ UNCHANGED attachments
  /\ At(o, "linkEntry") \/ At(o, "entryRow") \/ UNCHANGED entries
  /\ IF At(o, "workspaceRow") THEN SetWorkspace(o, "running")
     ELSE At(o, "provisioning") \/ UNCHANGED workspaces

\* Every step of a running operation is as OwnRows says.
LEMMA OwnRowsChange ==
  ASSUME NEW o \in Operations, Goes(o)
  PROVE  OwnRows(o)
<1>1. CASE Reads(o)
  <2>1. \E name \in ReadNames : At(o, name)
    BY <1>1 DEF Reads, Read, ReadNames
  <2> QED BY <1>1, <2>1 DEF Reads, rows, OwnRows, At, ReadNames
<1>2. CASE Calls(o)
  <2>1. UNCHANGED rows
    BY <1>2 DEF Calls, Call
  <2>2. ~At(o, "storageRow") /\ ~At(o, "computeRow") /\ ~At(o, "destroyedRow")
        /\ ~At(o, "workspaceRow")
    BY <1>2 DEF Calls, Call, At, CreateClaim, DeleteClaim, EnsureSecret, EnsureDeployment,
                EnsureService, Mount, Unmount, PutRoute, DeleteDeployment, DeleteService,
                DeleteSecret
  <2> QED BY <2>1, <2>2 DEF rows, OwnRows
<1>3. CASE Writes(o)
  <2>1. CASE StorageRow(o)
    BY <2>1 DEF StorageRow, OwnRows, At, Retained
  <2>2. CASE ComputeRow(o)
    BY <2>2 DEF ComputeRow, OwnRows, At
  <2>3. CASE AttachmentRow(o)
    BY <2>3 DEF AttachmentRow, OwnRows, At
  <2>4. CASE EntryRow(o)
    BY <2>4 DEF EntryRow, OwnRows, At
  <2>5. CASE WorkspaceRow(o)
    BY <2>5 DEF WorkspaceRow, OwnRows, At
  <2> QED BY <1>3, <2>1, <2>2, <2>3, <2>4, <2>5 DEF Writes, WriteRow
<1> QED BY <1>1, <1>2, <1>3 DEF Goes

\* What it does to the objects.
OwnObjects(o) ==
  /\ IF At(o, "createClaim") THEN claims' = claims \cup {Storage(o)} ELSE UNCHANGED claims
  /\ IF At(o, "ensureSecret") THEN secrets' = secrets \cup {Deployment(o)}
     ELSE IF At(o, "deleteSecret") THEN secrets' = secrets \ {Deployment(o)}
     ELSE UNCHANGED secrets
  /\ IF At(o, "ensureDeployment") THEN deployments' = deployments \cup {Deployment(o)}
     ELSE IF At(o, "deleteDeployment") THEN deployments' = deployments \ {Deployment(o)}
     ELSE UNCHANGED deployments
  /\ IF At(o, "ensureService") THEN services' = services \cup {Deployment(o)}
     ELSE IF At(o, "deleteService") THEN services' = services \ {Deployment(o)}
     ELSE UNCHANGED services
  /\ IF At(o, "mount") THEN Mount(o) ELSE IF At(o, "unmount") THEN Unmount(o)
     ELSE At(o, "ensureDeployment") \/ At(o, "deleteDeployment") \/ UNCHANGED mounted
  /\ IF At(o, "putRoute") THEN PutRoute(o) ELSE UNCHANGED gateway

\* Every step of a running operation is as OwnObjects says.
LEMMA OwnObjectsChange ==
  ASSUME NEW o \in Operations, Goes(o)
  PROVE  OwnObjects(o)
<1>1. CASE Reads(o)
  <2>1. \E name \in ReadNames : At(o, name)
    BY <1>1 DEF Reads, Read, ReadNames
  <2> QED BY <1>1, <2>1 DEF Reads, cluster, OwnObjects, At, ReadNames
<1>2. CASE Writes(o)
  <2>1. \E name \in UpdateNames : At(o, name)
    BY <1>2, UpdateNamed DEF Writes
  <2> QED BY <1>2, <2>1 DEF Writes, WriteRow, cluster, OwnObjects, At, UpdateNames
<1>3. CASE Calls(o)
  <2> USE DEF OwnObjects, At, Storage
  <2>1. CASE CreateClaim(o) \/ DeleteClaim(o)
    BY <2>1 DEF CreateClaim, DeleteClaim, Retained
  <2>2. CASE EnsureSecret(o) \/ EnsureDeployment(o) \/ EnsureService(o)
    BY <2>2 DEF EnsureSecret, EnsureDeployment, EnsureService
  <2>3. CASE Mount(o)
    <3>1. At(o, "mount") /\ UNCHANGED <<claims, deployments, services, secrets, gateway>>
      BY <2>3 DEF Mount
    <3> QED BY <2>3, <3>1
  <2>4. CASE Unmount(o)
    <3>1. At(o, "unmount") /\ UNCHANGED <<claims, deployments, services, secrets, gateway>>
      BY <2>4 DEF Unmount
    <3> QED BY <2>4, <3>1
  <2>5. CASE PutRoute(o)
    <3>1. At(o, "putRoute") /\ UNCHANGED <<claims, deployments, mounted, services, secrets>>
      BY <2>5 DEF PutRoute
    <3> QED BY <2>5, <3>1
  <2>6. CASE DeleteDeployment(o) \/ DeleteService(o) \/ DeleteSecret(o)
    BY <2>6 DEF DeleteDeployment, DeleteService, DeleteSecret
  <2> QED BY <1>3, <2>1, <2>2, <2>3, <2>4, <2>5, <2>6 DEF Calls, Call
<1> QED BY <1>1, <1>2, <1>3 DEF Goes

\* It is one step further, and was at a step of its program.
LEMMA GoesFurther ==
  ASSUME DeliveryInvariant, NEW o \in Operations, Goes(o)
  PROVE  /\ step'[o] = step[o] + 1 /\ step[o] \in 1..Len(Program[Kind[o]])
         /\ status'[o] = status[o]
<1>1. step' = [step EXCEPT ![o] = @ + 1] /\ UNCHANGED queue
  BY DEF Goes, Reads, Writes, Calls, Advance
<1>2. \E name : At(o, name)
  BY UpdateNamed, CallEstablishes DEF Goes, Reads, Read, Writes, Calls
<1>3. step[o] \in 1..Len(Program[Kind[o]])
  BY <1>2, StepsInOrder DEF At, Running, DeliveryInvariant, TypeOK, AttemptsTypeOK
<1> QED BY <1>1, <1>3 DEF DeliveryInvariant, TypeOK, AttemptsTypeOK, queue

\* The programs, one by one: a step adds what the next position asks for.
LEMMA StorageStep ==
  ASSUME DeliveryInvariant, NEW o \in Operations, Goes(o), Kind[o] = "storage_volume",
         StorageProgress(o)
  PROVE  StorageProgress(o)'
<1>1. Program[Kind[o]] = StorageSteps /\ Target[o].storage \in Ids("storage")
  BY NeedsReached DEF Program, Needs, Reaches
<1>2. step'[o] = step[o] + 1 /\ step[o] \in 1..2
  BY <1>1, GoesFurther DEF StorageSteps
<1>3. /\ At(o, "createClaim") <=> step[o] = 1
      /\ At(o, "storageRow") <=> step[o] = 2
  BY <1>1, <1>2 DEF At, Running, StorageSteps
<1>4. OwnRows(o) /\ OwnObjects(o)
  BY OwnRowsChange, OwnObjectsChange
<1> QED
  BY <1>1, <1>2, <1>3, <1>4
     DEF OwnRows, OwnObjects, StorageProgress, SetStorage, DeliveryInvariant, TypeOK, RowsTypeOK,
         Storage

\* The objects of a compute are built up in the order the positions ask for.
LEMMA ComputeStep ==
  ASSUME DeliveryInvariant, NEW o \in Operations, Goes(o), Kind[o] = "compute_allocation",
         ComputeProgress(o)
  PROVE  ComputeProgress(o)'
<1>1. Program[Kind[o]] = ComputeSteps /\ Target[o].compute \in Ids("compute")
  BY NeedsReached DEF Program, Needs, Reaches
<1>2. step'[o] = step[o] + 1 /\ step[o] \in 1..6
  BY <1>1, GoesFurther DEF ComputeSteps
<1>3. /\ At(o, "ensureSecret") <=> step[o] = 3
      /\ At(o, "ensureDeployment") <=> step[o] = 4
      /\ At(o, "ensureService") <=> step[o] = 5
      /\ At(o, "computeRow") <=> step[o] = 6
      /\ ~At(o, "deleteSecret") /\ ~At(o, "deleteDeployment") /\ ~At(o, "deleteService")
  BY <1>1, <1>2 DEF At, Running, ComputeSteps
<1>4. OwnRows(o) /\ OwnObjects(o)
  BY OwnRowsChange, OwnObjectsChange
<1>5. /\ step'[o] > 3 => Deployment(o) \in secrets'
      /\ step'[o] > 4 => Deployment(o) \in deployments'
      /\ step'[o] > 5 => Deployment(o) \in services'
  BY <1>2, <1>3, <1>4 DEF OwnObjects, ComputeProgress
<1>6. step'[o] > 6 =>
        computes'[Target[o].compute] = [state |-> "running", refs |-> TRUE, pool |-> TRUE]
  BY <1>1, <1>2, <1>3, <1>4
     DEF OwnRows, SetCompute, DeliveryInvariant, TypeOK, RowsTypeOK
<1> QED BY <1>5, <1>6 DEF ComputeProgress, Deployment

\* Each delete takes one object away, and no later step brings it back.
LEMMA DestroyStep ==
  ASSUME DeliveryInvariant, NEW o \in Operations, Goes(o),
         Kind[o] = "compute_allocation_destroy", DestroyProgress(o)
  PROVE  DestroyProgress(o)'
<1>1. Program[Kind[o]] = DestroyComputeSteps /\ Target[o].compute \in Ids("compute")
  BY NeedsReached DEF Program, Needs, Reaches
<1>2. step'[o] = step[o] + 1 /\ step[o] \in 1..5
  BY <1>1, GoesFurther DEF DestroyComputeSteps
<1>3. /\ At(o, "deleteDeployment") <=> step[o] = 2
      /\ At(o, "deleteService") <=> step[o] = 3
      /\ At(o, "deleteSecret") <=> step[o] = 4
      /\ At(o, "destroyedRow") <=> step[o] = 5
      /\ ~At(o, "ensureSecret") /\ ~At(o, "ensureDeployment") /\ ~At(o, "ensureService")
      /\ ~At(o, "computeRow")
  BY <1>1, <1>2 DEF At, Running, DestroyComputeSteps
<1>4. OwnRows(o) /\ OwnObjects(o)
  BY OwnRowsChange, OwnObjectsChange
<1>5. /\ step'[o] > 2 => Deployment(o) \notin deployments'
      /\ step'[o] > 3 => Deployment(o) \notin services'
      /\ step'[o] > 4 => Deployment(o) \notin secrets'
  BY <1>2, <1>3, <1>4 DEF OwnObjects, DestroyProgress
<1>6. step'[o] > 5 =>
        computes'[Target[o].compute] = [state |-> "destroyed", refs |-> FALSE, pool |-> FALSE]
  BY <1>1, <1>2, <1>3, <1>4
     DEF OwnRows, SetCompute, DeliveryInvariant, TypeOK, RowsTypeOK
<1> QED BY <1>5, <1>6 DEF DestroyProgress, Deployment

\* The name in the row read is the compute's own, so unmounting it is enough.
LEMMA DetachStep ==
  ASSUME DeliveryInvariant, NamesBacked, NEW o \in Operations, Goes(o),
         Kind[o] = "attachment_detach", DetachProgress(o)
  PROVE  DetachProgress(o)'
<1>1. /\ Program[Kind[o]] = <<"readAttachment", "unmount", "detachedRow">>
      /\ Target[o].attachment \in Ids("attachment")
  BY NeedsReached DEF Program, Needs, Reaches
<1>2. step'[o] = step[o] + 1 /\ step[o] \in 1..3
  BY <1>1, GoesFurther
<1>3. /\ At(o, "unmount") <=> step[o] = 2
      /\ At(o, "detachedRow") <=> step[o] = 3
      /\ ~At(o, "mount") /\ ~At(o, "ensureDeployment") /\ ~At(o, "deleteDeployment")
  BY <1>1, <1>2 DEF At, Running
<1>4. OwnObjects(o)
  BY OwnObjectsChange
<1>5. CASE step[o] = 1
  BY <1>2, <1>5 DEF DetachProgress
<1>6. CASE step[o] = 2
  <2>1. Unmount(o) /\ seen[o].attachment.compute = Deployment(o)
    BY <1>3, <1>4, <1>6, OwnName DEF OwnObjects, Unmount
  <2>2. \A m \in mounted' : m[1] # Deployment(o)
    BY <2>1 DEF Unmount, WithoutMounts
  <2> QED BY <1>2, <1>6, <2>2 DEF DetachProgress, Deployment
<1>7. CASE step[o] = 3
  <2>1. UNCHANGED mounted
    BY <1>3, <1>4, <1>7 DEF OwnObjects
  <2>2. AttachmentRow(o)
    BY <1>3, <1>7, UpdateNamed, CallEstablishes
       DEF Goes, Reads, Read, Writes, Calls, Call, WriteRow, At, StorageRow, ComputeRow, EntryRow,
           WorkspaceRow, CreateClaim, DeleteClaim, EnsureSecret, EnsureDeployment, EnsureService,
           Mount, Unmount, PutRoute, DeleteDeployment, DeleteService, DeleteSecret
  <2>3. SetAttachment(o, [state |-> "detached", compute |-> None, claim |-> None])
    BY <1>3, <1>7, <2>2 DEF AttachmentRow, At
  <2>4. attachments'[Target[o].attachment].state = "detached"
    BY <1>1, <2>3 DEF SetAttachment, DeliveryInvariant, TypeOK, RowsTypeOK
  <2> QED BY <1>2, <1>7, <2>1, <2>4 DEF DetachProgress, Deployment
<1> QED BY <1>2, <1>5, <1>6, <1>7

\* A route is put before the row says so.
LEMMA EntryStep ==
  ASSUME DeliveryInvariant, Grown, NEW o \in Operations, Goes(o),
         Kind[o] = "workspace_entry", EntryProgress(o)
  PROVE  EntryProgress(o)'
<1>1. Program[Kind[o]] = EntrySteps /\ Target[o].entry \in Ids("entry")
  BY NeedsReached DEF Program, Needs, Reaches
<1>2. step'[o] = step[o] + 1 /\ step[o] \in 1..3
  BY <1>1, GoesFurther DEF EntrySteps
<1>3. At(o, "putRoute") <=> step[o] = 2
  BY <1>1, <1>2 DEF At, Running, EntrySteps
<1>4. CASE step[o] = 2
  <2>1. Call(o)
    BY <1>3, <1>4, OwnObjectsChange DEF OwnObjects, Call, Goes, Reads, Writes, Calls,
       Read, WriteRow, At, StorageRow, ComputeRow, AttachmentRow, EntryRow, WorkspaceRow
  <2>2. gateway'[Target[o].entry] # None
    BY <1>3, <1>4, <2>1, CallEstablishes DEF At
  <2> QED BY <2>2 DEF EntryProgress
<1>5. CASE step[o] # 2
  BY <1>1, <1>2, <1>5 DEF EntryProgress, Grown
<1> QED BY <1>4, <1>5

-----------------------------------------------------------------------------
(* A step of an intact workspace operation.                                    *)

\* A step is a read, an update or a call, and its name says which.
LEMMA NameDecides ==
  ASSUME DeliveryInvariant, NEW o \in Operations, Goes(o), NEW name, At(o, name)
  PROVE  /\ name \in ReadNames => Reads(o)
         /\ name \in {"linkAttachment", "attachmentRow"} => AttachmentRow(o)
         /\ name \in {"linkEntry", "entryRow"} => EntryRow(o)
         /\ name \notin ReadNames => UNCHANGED seen
<1>1. CASE Reads(o)
  <2>1. \E n \in ReadNames : At(o, n)
    BY <1>1 DEF Reads, Read, ReadNames
  <2> QED BY <1>1, <2>1 DEF At, ReadNames
<1>2. CASE Writes(o)
  <2>1. name \in UpdateNames
    BY <1>2, UpdateNamed DEF Writes, At
  <2>2. name \notin ReadNames /\ UNCHANGED seen
    BY <1>2, <2>1 DEF Writes, local, UpdateNames, ReadNames
  <2>3. name \in {"linkAttachment", "attachmentRow"} => AttachmentRow(o)
    BY <1>2 DEF Writes, WriteRow, At, StorageRow, ComputeRow, EntryRow, WorkspaceRow
  <2>4. name \in {"linkEntry", "entryRow"} => EntryRow(o)
    BY <1>2 DEF Writes, WriteRow, At, StorageRow, ComputeRow, AttachmentRow, WorkspaceRow
  <2> QED BY <2>2, <2>3, <2>4
<1>3. CASE Calls(o)
  <2>1. name \notin ReadNames \cup {"linkAttachment", "attachmentRow", "linkEntry", "entryRow"}
    BY <1>3 DEF Calls, Call, At, ReadNames, CreateClaim, DeleteClaim, EnsureSecret,
       EnsureDeployment, EnsureService, Mount, Unmount, PutRoute, DeleteDeployment,
       DeleteService, DeleteSecret
  <2> QED BY <1>3, <2>1 DEF Calls
<1> QED BY <1>1, <1>2, <1>3 DEF Goes

\* Where the steps are in the program of a workspace.
LEMMA WorkspacePlaces ==
  ASSUME NEW o \in Operations, Kind[o] = "workspace", step[o] \in 1..22
  PROVE  /\ At(o, "createClaim") <=> step[o] = 2
         /\ At(o, "storageRow") <=> step[o] = 3
         /\ At(o, "resolvePool") <=> step[o] \in {5, 7}
         /\ At(o, "ensureSecret") <=> step[o] = 8
         /\ At(o, "ensureDeployment") <=> step[o] = 9
         /\ At(o, "ensureService") <=> step[o] = 10
         /\ At(o, "computeRow") <=> step[o] = 11
         /\ At(o, "readParts") <=> step[o] = 12
         /\ At(o, "linkAttachment") <=> step[o] = 13
         /\ At(o, "readAttachment") <=> step[o] = 14
         /\ At(o, "mount") <=> step[o] = 15
         /\ At(o, "attachmentRow") <=> step[o] = 16
         /\ At(o, "readEntry") <=> step[o] \in {17, 19}
         /\ At(o, "linkEntry") <=> step[o] = 18
         /\ At(o, "putRoute") <=> step[o] = 20
         /\ At(o, "entryRow") <=> step[o] = 21
         /\ At(o, "workspaceRow") <=> step[o] = 22
         /\ At(o, "provisioning") <=> step[o] = 1
         /\ At(o, "readCompute") <=> step[o] \in {4, 6}
<1>1. Program[Kind[o]] = WorkspaceSteps
  BY DEF Program
<1>2. \A name : At(o, name) <=> WorkspaceSteps[step[o]] = name
  BY <1>1, WorkspaceProgram DEF At, Running
<1> QED BY <1>2, WorkspaceProgram

\* None of the steps is one of a destroy or a detach.
LEMMA WorkspaceOnlyBuilds ==
  ASSUME NEW o \in Operations, Kind[o] = "workspace", step[o] \in 1..22
  PROVE  /\ ~At(o, "deleteSecret") /\ ~At(o, "deleteDeployment") /\ ~At(o, "deleteService")
         /\ ~At(o, "unmount") /\ ~At(o, "destroyedRow") /\ ~At(o, "detachedRow")
<1>1. Program[Kind[o]] = WorkspaceSteps
  BY DEF Program
<1>2. \A name : At(o, name) <=> WorkspaceSteps[step[o]] = name
  BY <1>1, WorkspaceProgram DEF At, Running
<1> QED BY <1>2, WorkspaceProgram

\* A workspace operation reaches all five rows.
LEMMA WorkspaceReaches ==
  ASSUME NEW o \in Operations, Kind[o] = "workspace"
  PROVE  /\ Target[o].storage \in Ids("storage") /\ Target[o].compute \in Ids("compute")
         /\ Target[o].attachment \in Ids("attachment") /\ Target[o].entry \in Ids("entry")
         /\ Target[o].workspace \in Ids("workspace")
         /\ Len(Program[Kind[o]]) = 22
BY NeedsReached, WorkspaceProgram DEF Needs, Parts, Reaches, Program

WorkspaceFacts(o) == WorkspaceRows(o) /\ WorkspaceObjects(o) /\ WorkspaceSeen(o)

\* The objects: each call adds its own, and none of the later ones removes it.
LEMMA WorkspaceObjectsStep ==
  ASSUME DeliveryInvariant, NEW o \in Operations, Goes(o), Kind[o] = "workspace",
         WorkspaceFacts(o)
  PROVE  WorkspaceObjects(o)'
<1>1. step'[o] = step[o] + 1 /\ step[o] \in 1..22
  BY GoesFurther, WorkspaceReaches
<1>2. OwnObjects(o)
  BY OwnObjectsChange
<1> USE WorkspacePlaces, WorkspaceOnlyBuilds DEF WorkspaceFacts, WorkspaceObjects
<1>3. /\ step'[o] > 2 => Storage(o) \in claims'
      /\ step'[o] > 8 => Deployment(o) \in secrets'
  BY <1>1, <1>2 DEF OwnObjects
<1>4. /\ step'[o] > 9 => Deployment(o) \in deployments'
      /\ step'[o] > 10 => Deployment(o) \in services'
  BY <1>1, <1>2 DEF OwnObjects
<1>5. step'[o] > 15 => <<Deployment(o), Storage(o)>> \in mounted'
  <2>1. CASE step[o] = 15
    <3>1. /\ Mount(o) /\ seen[o].attachment.compute = Deployment(o)
          /\ seen[o].attachment.claim = Storage(o)
      BY <1>2, <2>1 DEF OwnObjects, WorkspaceSeen
    <3>2. Deployment(o) # None /\ Storage(o) # None
      BY NoneAssumption, WorkspaceReaches DEF Deployment, Storage, Parts
    <3> QED BY <3>1, <3>2 DEF Mount, OrBare
  <2>2. CASE step[o] > 15
    BY <1>1, <1>2, <2>2 DEF OwnObjects
  <2> QED BY <1>1, <2>1, <2>2
<1>6. step'[o] > 20 => gateway'[Target[o].entry] = Deployment(o)
  <2>1. CASE step[o] = 20
    <3>1. PutRoute(o) /\ seen[o].entry.service = Deployment(o)
      BY <1>2, <2>1 DEF OwnObjects, WorkspaceSeen
    <3>2. Deployment(o) # None /\ Target[o].entry \in Ids("entry")
      BY NoneAssumption, WorkspaceReaches DEF Deployment, Parts
    <3> QED
      BY <3>1, <3>2 DEF PutRoute, OrBare, DeliveryInvariant, TypeOK, ClusterTypeOK, Routes
  <2>2. CASE step[o] > 20
    BY <1>1, <1>2, <2>2 DEF OwnObjects
  <2> QED BY <1>1, <2>1, <2>2
<1> QED BY <1>3, <1>4, <1>5, <1>6 DEF Deployment, Storage

\* The locals: each read takes over a row that is already as it has to be.
LEMMA WorkspaceSeenStep ==
  ASSUME DeliveryInvariant, NEW o \in Operations, Goes(o), Kind[o] = "workspace",
         WorkspaceFacts(o)
  PROVE  WorkspaceSeen(o)'
<1>1. step'[o] = step[o] + 1 /\ step[o] \in 1..22
  BY GoesFurther, WorkspaceReaches
<1> USE DEF WorkspaceFacts, WorkspaceSeen
<1>2. CASE ~Reads(o)
  <2>1. /\ \A name \in ReadNames : ~At(o, name)
        /\ UNCHANGED seen
    BY <1>2, NameDecides DEF Goes, Writes, Calls, local
  <2>2. step[o] \notin {12, 14, 19}
    BY <1>1, <2>1, WorkspacePlaces DEF ReadNames
  <2> QED BY <1>1, <2>1, <2>2 DEF Deployment, Storage
<1>3. CASE Reads(o)
  <2>1. PICK name \in ReadNames :
          /\ At(o, name)
          /\ IF name \in ComputeReads
             THEN /\ Target[o].compute \in Ids("compute")
                  /\ seen'[o].compute = computes[Target[o].compute]
             ELSE seen'[o].compute = seen[o].compute
          /\ IF name \in AttachmentReads
             THEN /\ Target[o].attachment \in Ids("attachment")
                  /\ seen'[o].attachment = attachments[Target[o].attachment]
             ELSE seen'[o].attachment = seen[o].attachment
          /\ IF name \in EntryReads
             THEN /\ Target[o].entry \in Ids("entry")
                  /\ seen'[o].entry = entries[Target[o].entry]
             ELSE seen'[o].entry = seen[o].entry
    BY <1>3, ReadEffect DEF Reads, DeliveryInvariant
  <2> USE DEF ReadNames, ComputeReads, AttachmentReads, EntryReads
  <2>2. CASE step[o] \in {4, 6}
    BY <1>1, <2>2
  <2>3. CASE step[o] = 12
    <3>1. name = "readParts"
      BY <1>1, <2>1, <2>3, WorkspacePlaces DEF At
    <3> QED BY <1>1, <2>1, <2>3, <3>1 DEF WorkspaceRows
  <2>4. CASE step[o] = 14
    <3>1. name = "readAttachment"
      BY <1>1, <2>1, <2>4, WorkspacePlaces DEF At
    <3> QED BY <1>1, <2>1, <2>4, <3>1 DEF WorkspaceRows, Deployment, Storage
  <2>5. CASE step[o] \in {17, 19}
    <3>1. name = "readEntry"
      BY <1>1, <2>1, <2>5, WorkspacePlaces DEF At
    <3> QED BY <1>1, <2>1, <2>5, <3>1 DEF WorkspaceRows, Deployment, Storage
  <2>6. step[o] \in {4, 6, 12, 14, 17, 19}
    BY <1>1, <2>1, WorkspacePlaces
  <2> QED BY <2>2, <2>3, <2>4, <2>5, <2>6
<1> QED BY <1>2, <1>3

\* The rows: each update is made of what has been read and of names that exist.
LEMMA WorkspaceRowsStep ==
  ASSUME DeliveryInvariant, NEW o \in Operations, Goes(o), Kind[o] = "workspace",
         WorkspaceFacts(o)
  PROVE  WorkspaceRows(o)'
<1> DEFINE a == Target[o].attachment
           e == Target[o].entry
<1>1. step'[o] = step[o] + 1 /\ step[o] \in 1..22
  BY GoesFurther, WorkspaceReaches
<1>2. OwnRows(o)
  BY OwnRowsChange
<1>3. RowsTypeOK
  BY DEF DeliveryInvariant, TypeOK
<1> USE WorkspacePlaces, WorkspaceOnlyBuilds, WorkspaceReaches DEF WorkspaceFacts, WorkspaceRows
<1>4. /\ step'[o] > 3 =>
           storages'[Target[o].storage] = [state |-> "available", ref |-> TRUE]
      /\ step'[o] > 11 =>
           computes'[Target[o].compute] = [state |-> "running", refs |-> TRUE, pool |-> TRUE]
      /\ step'[o] > 22 => workspaces'[Target[o].workspace] = "running"
  BY <1>1, <1>2, <1>3 DEF OwnRows, SetStorage, SetCompute, SetWorkspace, RowsTypeOK
<1>5. /\ step'[o] > 13 =>
           attachments'[a].compute = Deployment(o) /\ attachments'[a].claim = Storage(o)
      /\ step'[o] > 16 => attachments'[a].state = "attached"
  <2>1. CASE step[o] = 13
    <3>1. AttachmentRow(o) /\ At(o, "linkAttachment")
      BY <1>1, <2>1, NameDecides
    <3>2. SetAttachment(o,
            [state |-> seen[o].attachment.state, compute |-> Deployment(o),
             claim |-> Storage(o)])
      BY <2>1, <3>1 DEF AttachmentRow, At, WorkspaceSeen, Deployment, Storage
    <3> QED BY <1>1, <1>3, <2>1, <3>2 DEF SetAttachment, RowsTypeOK
  <2>2. CASE step[o] = 16
    <3>1. AttachmentRow(o) /\ At(o, "attachmentRow")
      BY <1>1, <2>2, NameDecides
    <3>2. Deployment(o) # None /\ Storage(o) # None
      BY NoneAssumption DEF Deployment, Storage, Parts
    <3>3. SetAttachment(o,
            [state |-> "attached", compute |-> Deployment(o), claim |-> Storage(o)])
      BY <2>2, <3>1, <3>2 DEF AttachmentRow, At, WorkspaceSeen, OrBare
    <3> QED BY <1>3, <3>3 DEF SetAttachment, RowsTypeOK
  <2>3. CASE step[o] \notin {13, 16}
    BY <1>1, <1>2, <2>3 DEF OwnRows
  <2> QED BY <2>1, <2>2, <2>3
<1>6. /\ step'[o] > 18 => entries'[e].service = Deployment(o)
      /\ step'[o] > 21 => entries'[e].state = "ready"
  <2>1. CASE step[o] = 18
    <3>1. EntryRow(o) /\ At(o, "linkEntry") /\ seen[o].entry \in EntryRows
      BY <1>1, <2>1, NameDecides, StepsInOrder
         DEF DeliveryInvariant, TypeOK, SeenBacked, SeenOf
    <3>2. seen[o].compute.refs /\ ~At(o, "entryRow")
      BY <1>1, <2>1 DEF WorkspaceSeen
    <3>3. (IF seen[o].compute.refs THEN k8sName(Target[o].compute) ELSE None) = Deployment(o)
      BY <3>2 DEF Deployment
    <3>4. SetEntry(o, [seen[o].entry EXCEPT !.service = Deployment(o)])
      BY <3>1, <3>2, <3>3 DEF EntryRow
    <3> QED BY <1>1, <1>3, <2>1, <3>1, <3>4 DEF SetEntry, RowsTypeOK, EntryRows
  <2>2. CASE step[o] = 21
    <3>1. EntryRow(o) /\ At(o, "entryRow") /\ seen[o].entry \in EntryRows
      BY <1>1, <2>2, NameDecides, StepsInOrder
         DEF DeliveryInvariant, TypeOK, SeenBacked, SeenOf
    <3>2. SetEntry(o, [seen[o].entry EXCEPT !.state = "ready"])
      BY <2>2, <3>1 DEF EntryRow, At
    <3> QED BY <1>1, <1>3, <2>2, <3>1, <3>2 DEF SetEntry, RowsTypeOK, EntryRows, WorkspaceSeen
  <2>3. CASE step[o] \notin {18, 21}
    BY <1>1, <1>2, <2>3 DEF OwnRows
  <2> QED BY <2>1, <2>2, <2>3
<1> QED BY <1>4, <1>5, <1>6 DEF Deployment, Storage

-----------------------------------------------------------------------------
(* The invariant.                                                              *)

\* Every program keeps its progress.
LEMMA ProgressStep ==
  ASSUME DeliveryInvariant, NamesBacked, Grown, NEW o \in Operations, Goes(o), Progress(o)
  PROVE  Progress(o)'
<1>1. CASE Kind[o] = "storage_volume"
  BY <1>1, StorageStep DEF Progress
<1>2. CASE Kind[o] = "compute_allocation"
  BY <1>2, ComputeStep DEF Progress
<1>3. CASE Kind[o] = "compute_allocation_destroy"
  BY <1>3, DestroyStep DEF Progress
<1>4. CASE Kind[o] = "attachment_detach"
  BY <1>4, DetachStep DEF Progress
<1>5. CASE Kind[o] = "workspace_entry"
  BY <1>5, EntryStep DEF Progress
<1>6. CASE Kind[o] = "workspace"
  BY <1>6, WorkspaceRowsStep, WorkspaceObjectsStep, WorkspaceSeenStep
     DEF Progress, WorkspaceFacts
<1>7. CASE Kind[o] \in {"storage_attachment", "storage_destroy"}
  BY <1>7 DEF Progress
<1> QED
  BY <1>1, <1>2, <1>3, <1>4, <1>5, <1>6, <1>7, TargetAssumption DEF Kinds

\* At the end of its program, with everything behind it, an operation has done its work.
LEMMA EndIsDone ==
  ASSUME DeliveryInvariant, NamesBacked, NEW o \in Operations, Progress(o),
         step[o] = Len(Program[Kind[o]]) + 1
  PROVE  Done(o)
<1> USE DEF Storage
<1>1. CASE Kind[o] = "storage_volume"
  BY <1>1 DEF Program, StorageSteps, Progress, StorageProgress, Done, StorageDone
<1>2. CASE Kind[o] = "compute_allocation"
  BY <1>2 DEF Program, ComputeSteps, Progress, ComputeProgress, Done, ComputeDone
<1>3. CASE Kind[o] = "compute_allocation_destroy"
  BY <1>3 DEF Program, DestroyComputeSteps, Progress, DestroyProgress, Done, ComputeGone
<1>4. CASE Kind[o] = "attachment_detach"
  BY <1>4 DEF Program, Progress, DetachProgress, Done, Detached
<1>5. CASE Kind[o] = "workspace_entry"
  BY <1>5 DEF Program, EntrySteps, Progress, EntryProgress, Done
<1>6. CASE Kind[o] = "workspace"
  <2>1. step[o] = 23 /\ WorkspaceRows(o) /\ WorkspaceObjects(o)
    <3>1. Len(Program[Kind[o]]) = 22
      BY <1>6, WorkspaceReaches
    <3>2. WorkspaceRows(o) /\ WorkspaceObjects(o)
      BY <1>6 DEF Progress
    <3> QED BY <3>1, <3>2
  <2>2. /\ attachments[Target[o].attachment] \in AttachmentRows
        /\ entries[Target[o].entry] \in EntryRows
    BY <1>6, WorkspaceReaches DEF DeliveryInvariant, TypeOK, RowsTypeOK
  <2>3. StorageDone(o) /\ ComputeDone(o)
    BY <2>1 DEF WorkspaceRows, WorkspaceObjects, StorageDone, ComputeDone
  <2>4. attachments[Target[o].attachment] =
          [state |-> "attached", compute |-> Deployment(o), claim |-> Storage(o)]
    BY <2>1, <2>2 DEF WorkspaceRows, AttachmentRows
  <2>5. entries[Target[o].entry] = [state |-> "ready", service |-> Deployment(o)]
    BY <2>1, <2>2 DEF WorkspaceRows, EntryRows
  <2>6. WorkspaceDone(o)
    BY <2>1, <2>3, <2>4, <2>5 DEF WorkspaceRows, WorkspaceObjects, WorkspaceDone
  <2> QED BY <1>6, <2>6 DEF Done
<1>7. CASE Kind[o] \in {"storage_attachment", "storage_destroy"}
  BY <1>7 DEF Done
<1> QED
  BY <1>1, <1>2, <1>3, <1>4, <1>5, <1>6, <1>7, TargetAssumption DEF Kinds

\* Who has nothing behind it has nothing to show for it.
LEMMA NothingBehind ==
  ASSUME NEW o \in Operations, step'[o] \in {0, 1}
  PROVE  Progress(o)'
BY DEF Progress, StorageProgress, ComputeProgress, DestroyProgress, DetachProgress,
       EntryProgress, WorkspaceRows, WorkspaceObjects, WorkspaceSeen

\* An operation that starts makes those it meets no longer intact.
LEMMA StartKeepsIntact ==
  ASSUME DeliveryInvariant, SuccessInvariant, Grown, NEW p \in Operations, Start(p),
         NEW o \in intact'
  PROVE  IntactOf(o)'
<1>1. /\ step' = [step EXCEPT ![p] = 1] /\ status[p] = "pending" /\ status'[p] = "running"
      /\ step \in [Operations -> Nat] /\ step'[p] = 1
  BY DEF Start, Queue!Start, Queue!SetStatus, DeliveryInvariant, TypeOK, AttemptsTypeOK
<1>2. ~Running(p) /\ p \notin intact
  BY <1>1 DEF SuccessInvariant, IntactOf, DeliveryInvariant, TypeOK, AttemptsTypeOK
<1>3. o \in Operations
  BY DEF Start, DeliveryInvariant, TypeOK, LocalTypeOK
<1>4. CASE o = p
  <2>1. \A q \in Overlap(p) : ~Running(q)
    BY <1>2, <1>4 DEF Start
  <2>2. \A q \in Overlap(p) : ~Running(q)'
    BY <1>1, <2>1 DEF Running, Overlap
  <2>3. Running(o)' /\ Progress(o)' /\ status'[o] # "succeeded"
    BY <1>1, <1>4, NothingBehind DEF Running
  <2> QED BY <1>4, <2>2, <2>3 DEF IntactOf, Overlap
<1>5. CASE o # p
  <2>1. o \in intact /\ o \notin Overlap(p)
    BY <1>5 DEF Start
  <2>2. p \notin Overlap(o)
    BY <1>3, <1>5, <2>1, NoOverlap DEF Overlap
  <2>3. IntactOf(o)
    BY <2>1 DEF SuccessInvariant
  <2>4. LeftAlone(o)
    BY <1>3, <1>5, <2>2, OthersLeaveAlone DEF SuccessInvariant, Grown
  <2>5. Progress(o)' /\ (status[o] = "succeeded" => Done(o))'
    BY <1>3, <2>3, <2>4, LeftAloneKeeps DEF IntactOf
  <2>6. \A q \in Overlap(o) : ~Running(q)'
    BY <1>1, <2>2, <2>3 DEF IntactOf, Running, Overlap
  <2>7. (Running(o) \/ status[o] = "succeeded")'
    BY <2>3, <2>4 DEF IntactOf, LeftAlone, Running
  <2> QED BY <2>5, <2>6, <2>7 DEF IntactOf, Overlap
<1> QED BY <1>4, <1>5

\* A running operation does its own work and lets the others be.
LEMMA RunningKeepsIntact ==
  ASSUME DeliveryInvariant, SuccessInvariant, Grown, NEW p \in Operations,
         Goes(p) \/ Succeed(p) \/ Fails(p), NEW o \in intact'
  PROVE  IntactOf(o)'
<1>1. /\ o \in intact /\ o \in Operations
      /\ Fails(p) => o # p
  BY DEF Goes, Reads, Writes, Calls, Advance, Succeed, Fails, StepFails, StepLost,
         EnsureDeploymentFails, EnsureServiceFails, Crash, FailAttempt,
         DeliveryInvariant, TypeOK, LocalTypeOK
<1>2. IntactOf(o)
  BY <1>1 DEF SuccessInvariant
<1>3. Running(p) /\ step'[p] \in {step[p] + 1, 0} /\ step[p] \in Nat
  <2>1. CASE Goes(p)
    BY <2>1, GoesFurther, StepsInOrder
       DEF Running, DeliveryInvariant, TypeOK, AttemptsTypeOK
  <2>2. CASE Succeed(p)
    BY <2>2, StepsInOrder
       DEF Succeed, Leave, Running, DeliveryInvariant, TypeOK, AttemptsTypeOK
  <2>3. CASE Fails(p)
    <3>1. step' = [step EXCEPT ![p] = 0]
      BY <2>3 DEF Fails, StepFails, StepLost, EnsureDeploymentFails, EnsureServiceFails,
                  Crash, FailAttempt, Leave
    <3>2. Running(p)
      BY <2>3, UpdateNamed, CallEstablishes, StepsInOrder
         DEF Fails, StepFails, StepLost, EnsureDeploymentFails, EnsureServiceFails, Crash,
             At, Running
    <3> QED BY <3>1, <3>2 DEF DeliveryInvariant, TypeOK, AttemptsTypeOK
  <2> QED BY <2>1, <2>2, <2>3
<1>4. \A q \in Operations \ {p} : step'[q] = step[q]
  BY OthersWait DEF DeliveryInvariant
<1>5. p \notin Overlap(o) /\ \A q \in Overlap(o) : ~Running(q)'
  BY <1>2, <1>3, <1>4 DEF IntactOf, Overlap, Running
<1>6. CASE o # p
  <2>1. LeftAlone(o)
    BY <1>1, <1>5, <1>6, OthersLeaveAlone DEF SuccessInvariant, Grown
  <2>2. Progress(o)' /\ (status[o] = "succeeded" => Done(o))'
    BY <1>1, <1>2, <2>1, LeftAloneKeeps DEF IntactOf
  <2>3. (Running(o) \/ status[o] = "succeeded")'
    BY <1>2, <2>1 DEF IntactOf, LeftAlone, Running
  <2> QED BY <1>5, <2>2, <2>3 DEF IntactOf, Overlap
<1>7. CASE o = p /\ Goes(p)
  <2>1. Progress(o)'
    BY <1>2, <1>7, ProgressStep DEF IntactOf, SuccessInvariant
  <2>2. Running(o)' /\ status'[o] # "succeeded"
    BY <1>3, <1>7, GoesFurther DEF Running, DeliveryInvariant, TypeOK, AttemptsTypeOK
  <2> QED BY <1>5, <2>1, <2>2 DEF IntactOf, Overlap
<1>8. CASE o = p /\ Succeed(p)
  <2>1. Done(o)
    BY <1>2, <1>8, EndIsDone DEF Succeed, IntactOf, SuccessInvariant
  <2>2. UNCHANGED <<rows, cluster>> /\ step'[o] = 0 /\ status'[o] = "succeeded"
    BY <1>8 DEF Succeed, Leave, Queue!Complete, Queue!SetStatus, DeliveryInvariant, TypeOK,
                AttemptsTypeOK
  <2>3. Done(o)'
    BY <2>1, <2>2 DEF rows, cluster, Done, StorageDone, ComputeDone, WorkspaceDone,
                      ComputeGone, Detached, Deployment
  <2>4. Progress(o)'
    BY <1>1, <2>2, NothingBehind
  <2> QED BY <1>5, <2>2, <2>3, <2>4 DEF IntactOf, Overlap
<1> QED BY <1>1, <1>6, <1>7, <1>8

\* SuccessInvariant is inductive, on top of DeliveryInvariant.
LEMMA SuccessInvariantKept ==
  ASSUME DeliveryInvariant, SuccessInvariant, [Next]_vars
  PROVE  SuccessInvariant'
<1>1. NamesBacked' /\ Grown
  BY NamesKept, SharedStateKept DEF SuccessInvariant
<1>2. CASE UNCHANGED vars
  <2>1. ASSUME NEW o \in intact PROVE IntactOf(o)'
    <3>1. IntactOf(o) /\ o \in Operations
      BY DEF SuccessInvariant, DeliveryInvariant, TypeOK, LocalTypeOK
    <3>2. LeftAlone(o)
      BY <1>2 DEF vars, queue, rows, cluster, local, LeftAlone
    <3>3. Progress(o)' /\ (status[o] = "succeeded" => Done(o))'
      BY <3>1, <3>2, LeftAloneKeeps DEF IntactOf
    <3> QED BY <1>2, <3>1, <3>3 DEF vars, queue, IntactOf, Running, Overlap
  <2> QED BY <1>1, <1>2, <2>1 DEF vars, SuccessInvariant
<1>3. CASE Next
  BY <1>1, <1>3, StartKeepsIntact, RunningKeepsIntact
     DEF Next, Goes, Fails, SuccessInvariant
<1> QED BY <1>2, <1>3

\* SucceededMeansDone (Orchestrator.apply): whatever earlier attempts, dead workers and
\* cleanups have left behind, an operation that nobody interfered with and that is
\* reported "succeeded" has done its work in the rows and in the cluster, and this
\* stays so until another operation on one of its resources starts.
THEOREM SuccessIsReal == Spec => []SucceededMeansDone
<1>1. Init => SuccessInvariant
  BY DEF Init, SuccessInvariant, NamesBacked, NamesOf, Passed, Before, Ids, Parts
<1>2. SuccessInvariant => SucceededMeansDone
  BY DEF SuccessInvariant, IntactOf, SucceededMeansDone
<1> QED
  BY <1>1, <1>2, SuccessInvariantKept, DeliveryInvariantHolds, PTL DEF Spec
===============================================================================
