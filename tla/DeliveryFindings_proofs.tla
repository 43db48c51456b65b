------------------------ MODULE DeliveryFindings_proofs ------------------------
(* Two findings of the small instances hold on every instance: a rebuilt compute *)
(* has no volume, and an attachment of the single-resource route never succeeds. *)
(* Failures, retries and other operations do not change that.                    *)
EXTENDS DeliverySuccess_proofs

\* An undisturbed compute_allocation that has put its Deployment.
Deployed(o) == Kind[o] = "compute_allocation" /\ (step[o] > 4 \/ status[o] = "succeeded")

Bare(o) == \A m \in mounted : m[1] # Deployment(o)

BareInvariant == \A o \in intact : Deployed(o) => Bare(o)

\* Its own steps: the new pod template has no volume, and none of them mounts one.
LEMMA OwnStepLeavesBare ==
  ASSUME DeliveryInvariant, SuccessInvariant, BareInvariant, NEW o \in intact,
         o \in Operations, Goes(o) \/ Succeed(o), Deployed(o)'
  PROVE  Bare(o)'
<1>1. Program[Kind[o]] = ComputeSteps
  BY DEF Deployed, Program
<1>2. CASE Goes(o)
  <2>1. step'[o] = step[o] + 1 /\ step[o] \in 1..6 /\ status'[o] = "running"
    <3>1. /\ step'[o] = step[o] + 1 /\ step[o] \in 1..Len(Program[Kind[o]])
          /\ status'[o] = status[o]
      BY <1>2, GoesFurther
    <3>2. Len(Program[Kind[o]]) = 6
      BY <1>1 DEF ComputeSteps
    <3>3. status[o] = "running"
      BY <3>1, <3>2 DEF Running, DeliveryInvariant, TypeOK, AttemptsTypeOK
    <3> QED BY <3>1, <3>2, <3>3
  <2>2. step[o] \in {4, 5, 6}
    BY <2>1 DEF Deployed
  <2>3. /\ At(o, "ensureDeployment") <=> step[o] = 4
        /\ ~At(o, "mount") /\ ~At(o, "unmount") /\ ~At(o, "deleteDeployment")
    BY <1>1, <2>1, <2>2 DEF At, Running, ComputeSteps
  <2>4. CASE step[o] = 4
    <3>1. mounted' = WithoutMounts(Deployment(o))
      <4>1. At(o, "ensureDeployment")
        BY <2>3, <2>4
      <4>2. EnsureDeployment(o)
        BY <1>2, <4>1
           DEF Goes, Reads, Read, Writes, Calls, Call, WriteRow, At, StorageRow, ComputeRow,
               AttachmentRow, EntryRow, WorkspaceRow, CreateClaim, DeleteClaim, EnsureSecret,
               EnsureService, Mount, Unmount, PutRoute, DeleteDeployment, DeleteService,
               DeleteSecret
      <4> QED BY <4>2 DEF EnsureDeployment
    <3> QED BY <3>1 DEF WithoutMounts, Bare, Deployment
  <2>5. CASE step[o] # 4
    <3>1. UNCHANGED mounted
      BY <1>2, <2>3, <2>5, OwnObjectsChange DEF OwnObjects
    <3>2. Bare(o)
      BY <2>1, <2>2, <2>5 DEF BareInvariant, Deployed
    <3> QED BY <3>1, <3>2 DEF Bare, Deployment
  <2> QED BY <2>4, <2>5
<1>3. CASE Succeed(o)
  <2>1. step[o] = 7 /\ UNCHANGED mounted
    BY <1>1, <1>3 DEF Succeed, ComputeSteps, cluster
  <2>2. Bare(o)
    BY <2>1 DEF BareInvariant, Deployed
  <2> QED BY <2>1, <2>2 DEF Bare, Deployment
<1> QED BY <1>2, <1>3

\* Others cannot mount a claim there without meeting the operation.
LEMMA BareKept ==
  ASSUME DeliveryInvariant, SuccessInvariant, BareInvariant, [Next]_vars
  PROVE  BareInvariant'
<1>1. CASE UNCHANGED vars
  BY <1>1 DEF vars, queue, cluster, BareInvariant, Deployed, Bare, Deployment
<1>2. ASSUME NEW p \in Operations, Start(p) \/ Goes(p) \/ Succeed(p) \/ Fails(p),
             NEW o \in intact', Deployed(o)'
      PROVE  Bare(o)'
  <2>1. o \in Operations
    BY <1>2 DEF Start, Goes, Reads, Writes, Calls, Advance, Succeed, Fails, StepFails, StepLost,
                EnsureDeploymentFails, EnsureServiceFails, Crash, FailAttempt,
                DeliveryInvariant, TypeOK, LocalTypeOK
  <2>2. CASE o # p
    <3>1. o \in intact /\ p \notin Overlap(o)
      <4>1. CASE Start(p)
        <5>1. o \in intact /\ o \notin Overlap(p)
          BY <2>2, <4>1 DEF Start
        <5> QED BY <2>1, <2>2, <5>1, NoOverlap DEF Overlap
      <4>2. CASE Goes(p) \/ Succeed(p) \/ Fails(p)
        <5>1. o \in intact
          BY <4>2 DEF Goes, Reads, Writes, Calls, Advance, Succeed, Fails, StepFails, StepLost,
                      EnsureDeploymentFails, EnsureServiceFails, Crash, FailAttempt
        <5>2. Running(p)
          <6>1. Goes(p) => Running(p)
            BY GoesFurther DEF Running
          <6>2. Succeed(p) => Running(p)
            BY StepsInOrder DEF Succeed, Running, DeliveryInvariant, TypeOK, AttemptsTypeOK
          <6>3. Fails(p) => Running(p)
            BY UpdateNamed, CallEstablishes, StepsInOrder
               DEF Fails, StepFails, StepLost, EnsureDeploymentFails, EnsureServiceFails, Crash,
                   At, Running
          <6> QED BY <4>2, <6>1, <6>2, <6>3
        <5> QED BY <5>1, <5>2 DEF SuccessInvariant, IntactOf
      <4> QED BY <1>2, <4>1, <4>2
    <3>2. LeftAlone(o)
      BY <1>2, <2>1, <2>2, <3>1, OthersLeaveAlone, SharedStateKept
         DEF SuccessInvariant, Grown, Next, Goes, Fails
    <3>3. Deployed(o)
      BY <1>2, <3>2 DEF Deployed, LeftAlone
    <3>4. Bare(o) /\ Reaches(o, "compute")
      BY <2>1, <3>1, <3>3, NeedsReached DEF BareInvariant, Deployed, Needs
    <3> QED BY <3>2, <3>4 DEF LeftAlone, Bare, Deployment
  <2>3. CASE o = p /\ (Goes(p) \/ Succeed(p))
    <3>1. o \in intact
      BY <2>3 DEF Goes, Reads, Writes, Calls, Advance, Succeed
    <3> QED BY <1>2, <2>1, <2>3, <3>1, OwnStepLeavesBare
  <2>4. CASE o = p /\ Start(p)
    BY <1>2, <2>4 DEF Start, Queue!Start, Queue!SetStatus, Deployed, DeliveryInvariant, TypeOK,
                      AttemptsTypeOK
  <2>5. CASE o = p /\ Fails(p)
    BY <1>2, <2>5 DEF Fails, StepFails, StepLost, EnsureDeploymentFails, EnsureServiceFails,
                      Crash, FailAttempt
  <2> QED BY <1>2, <2>2, <2>3, <2>4, <2>5
<1> QED BY <1>1, <1>2 DEF Next, Goes, Fails, BareInvariant

\* Where a row names the Deployment of a compute that was allocated on its own, nothing
\* is mounted for it: the conclusion of RebuildRemounts is false whenever it is due.
NothingRemounted ==
  \A o \in intact : \A a \in Ids("attachment") :
    Kind[o] = "compute_allocation" /\ status[o] = "succeeded"
    /\ attachments[a].compute = Deployment(o)
    => <<attachments[a].compute, attachments[a].claim>> \notin mounted

\* Finding 3 on every instance (ensureDeployment writes a template without volumes, and
\* no compute_allocation mounts one): a successful, undisturbed rebuild never remounts
\* the storage, whatever was attached before and however often attempts were repeated.
THEOREM RebuildNeverRemounts == Spec => []NothingRemounted
<1>1. Init => SuccessInvariant /\ BareInvariant
  BY DEF Init, SuccessInvariant, NamesBacked, NamesOf, Passed, Before, Ids, Parts,
         BareInvariant
<1>2. BareInvariant => NothingRemounted
  BY DEF BareInvariant, Deployed, Bare, NothingRemounted
<1> QED
  BY <1>1, <1>2, BareKept, SuccessInvariantKept, DeliveryInvariantHolds, PTL DEF Spec

-----------------------------------------------------------------------------
(* The attachment of the single-resource route.                                *)

\* No workspace operation is about the attachment, so nothing links it to its refs.
Unlinked(a) == \A p \in Operations : Kind[p] = "workspace" => Target[p].attachment # a

\* Neither its row nor any copy of it ever names a Deployment, and no attach operation
\* comes past its call.
Refless(a) ==
  /\ attachments[a].compute = None
  /\ \A p \in Operations : Target[p].attachment = a =>
       /\ Passed(p, AttachmentReads) => seen[p].attachment.compute = None
       /\ Kind[p] = "storage_attachment" => step[p] <= 2 /\ status[p] # "succeeded"

\* Where the two updates that name a Deployment in an attachment row are.
LEMMA LinkedByWorkspaces ==
  ASSUME AttemptsTypeOK, NEW p \in Operations, Kind[p] \in Kinds \ {"workspace"}
  PROVE  ~At(p, "linkAttachment") /\ (At(p, "attachmentRow") => Kind[p] = "storage_attachment")
<1> USE DEF At, Running, AttemptsTypeOK
<1>1. CASE Kind[p] = "storage_volume"
  BY <1>1 DEF Program, StorageSteps
<1>2. CASE Kind[p] = "compute_allocation"
  BY <1>2 DEF Program, ComputeSteps
<1>3. CASE Kind[p] = "storage_attachment"
  BY <1>3 DEF Program, AttachSteps
<1>4. CASE Kind[p] = "workspace_entry"
  BY <1>4 DEF Program, EntrySteps
<1>5. CASE Kind[p] = "compute_allocation_destroy"
  BY <1>5 DEF Program, DestroyComputeSteps
<1>6. CASE Kind[p] = "storage_destroy"
  BY <1>6 DEF Program
<1>7. CASE Kind[p] = "attachment_detach"
  BY <1>7 DEF Program
<1> QED BY <1>1, <1>2, <1>3, <1>4, <1>5, <1>6, <1>7 DEF Kinds

\* The row: linkAttachment is a step of workspaces only, attachmentRow comes after the
\* call, and a detach clears the refs.
LEMMA RowStaysRefless ==
  ASSUME DeliveryInvariant, NEW CONSTANT a \in Ids("attachment"), Unlinked(a), Refless(a),
         NEW p \in Operations, Start(p) \/ Goes(p) \/ Succeed(p) \/ Fails(p)
  PROVE  attachments'[a].compute = None
<1> USE DEF DeliveryInvariant, TypeOK
<1>1. CASE UNCHANGED attachments
  BY <1>1 DEF Refless
<1>2. CASE AttachmentRow(p)
  <2>1. CASE Target[p].attachment # a
    BY <1>2, <2>1 DEF AttachmentRow, SetAttachment, RowsTypeOK, Refless
  <2>2. CASE Target[p].attachment = a
    <3>1. Kind[p] \in Kinds \ {"workspace"}
      BY <2>2, TargetAssumption DEF Unlinked
    <3>2. ~At(p, "linkAttachment") /\ (At(p, "attachmentRow") => Kind[p] = "storage_attachment")
      BY <3>1, LinkedByWorkspaces
    <3>3. ~At(p, "attachmentRow")
      <4>1. CASE Kind[p] = "storage_attachment"
        <5>1. Program[Kind[p]] = AttachSteps /\ step[p] \in 0..2
          BY <2>2, <4>1 DEF Refless, Program, AttemptsTypeOK
        <5> QED BY <5>1 DEF At, Running, AttachSteps
      <4>2. CASE Kind[p] # "storage_attachment"
        BY <3>2, <4>2
      <4> QED BY <4>1, <4>2
    <3>4. SetAttachment(p, [state |-> "detached", compute |-> None, claim |-> None])
      BY <1>2, <3>2, <3>3 DEF AttachmentRow
    <3> QED BY <2>2, <3>4 DEF SetAttachment, RowsTypeOK
  <2> QED BY <2>1, <2>2
<1>3. CASE Start(p)
  BY <1>1, <1>3 DEF Start, rows
<1>4. CASE Goes(p) \/ Succeed(p) \/ Fails(p)
  BY <1>1, <1>2, <1>4, StepEffect
     DEF Effect, rows, WriteRow, Call, StorageRow, ComputeRow, EntryRow, WorkspaceRow
<1> QED BY <1>3, <1>4

\* The call: the name it falls back to is the bare identifier, and no Deployment has one.
LEMMA AttachStops ==
  ASSUME DeliveryInvariant, NEW p \in Operations, Refless(Target[p].attachment), Goes(p),
         Kind[p] = "storage_attachment"
  PROVE  step'[p] <= 2 /\ status'[p] # "succeeded"
<1>1. Program[Kind[p]] = AttachSteps
  BY DEF Program
<1>2. /\ step'[p] = step[p] + 1 /\ step[p] \in 1..Len(Program[Kind[p]])
      /\ status'[p] = status[p]
  BY GoesFurther
<1>3. step[p] \in {1, 2} /\ status[p] # "succeeded"
  BY <1>1, <1>2 DEF Refless
<1>4. CASE step[p] = 2
  <2>1. At(p, "mount") /\ Passed(p, AttachmentReads)
    <3>1. At(p, "mount")
      BY <1>1, <1>4 DEF At, Running, AttachSteps
    <3> QED BY <3>1, StepsInOrder DEF DeliveryInvariant, TypeOK
  <2>2. Mount(p)
    BY <2>1, OwnObjectsChange DEF OwnObjects
  <2>3. seen[p].attachment.compute = None
    BY <2>1 DEF Refless
  <2>4. bareName(Target[p].compute) \in deployments
    BY <2>2, <2>3 DEF Mount, OrBare
  <2> QED BY <2>4 DEF DeliveryInvariant, TypeOK, ClusterTypeOK, Names, bareName, k8sName
<1> QED BY <1>2, <1>3, <1>4

\* So does the rest: what workers read is the row, and nobody else moves the operation.
LEMMA ReflessKept ==
  ASSUME DeliveryInvariant, NEW CONSTANT a \in Ids("attachment"), Unlinked(a), Refless(a),
         [Next]_vars
  PROVE  Refless(a)'
<1> USE DEF DeliveryInvariant, TypeOK
<1>1. CASE UNCHANGED vars
  BY <1>1 DEF vars, queue, rows, local, Refless, Passed
<1>2. ASSUME NEW p \in Operations, Start(p) \/ Goes(p) \/ Succeed(p) \/ Fails(p)
      PROVE  Refless(a)'
  <2>1. attachments'[a].compute = None
    BY <1>2, RowStaysRefless
  <2>2. ASSUME NEW o \in Operations, Target[o].attachment = a
        PROVE  /\ Passed(o, AttachmentReads)' => seen'[o].attachment.compute = None
               /\ Kind[o] = "storage_attachment" => step'[o] <= 2 /\ status'[o] # "succeeded"
    <3>1. CASE o # p
      <4>1. step'[o] = step[o] /\ seen'[o] = seen[o] /\ status'[o] = status[o]
        BY <1>2, <3>1, OthersWait
      <4> QED BY <2>2, <4>1 DEF Refless, Passed
    <3>2. CASE o = p /\ Goes(p)
      <4>1. step'[o] = step[o] + 1
        BY <3>2, GoesFurther
      <4>2. ASSUME Passed(o, AttachmentReads)'
            PROVE  seen'[o].attachment.compute = None
        <5>1. CASE Reads(o)
          <6>1. PICK name \in ReadNames :
                  /\ At(o, name)
                  /\ IF name \in AttachmentReads
                     THEN seen'[o].attachment = attachments[Target[o].attachment]
                     ELSE seen'[o].attachment = seen[o].attachment
            BY <5>1, ReadEffect DEF Reads
          <6>2. Passed(o, AttachmentReads) \/ name \in AttachmentReads
            BY <4>1, <4>2, <6>1, PassedNext
          <6> QED BY <2>2, <6>1, <6>2 DEF Refless
        <5>2. CASE ~Reads(o)
          <6>1. PICK name : At(o, name) /\ name \notin ReadNames
            BY <3>2, <5>2, UpdateNamed, CallEstablishes
               DEF Goes, Writes, Calls, UpdateNames, ReadNames
          <6>2. Passed(o, AttachmentReads)
            BY <4>1, <4>2, <6>1, PassedNext DEF ReadNames, AttachmentReads
          <6>3. seen' = seen
            BY <3>2, <5>2 DEF Goes, Writes, Calls, local
          <6> QED BY <2>2, <6>2, <6>3 DEF Refless
        <5> QED BY <5>1, <5>2
      <4> QED BY <2>2, <3>2, <4>2, AttachStops
    <3>3. CASE o = p /\ ~Goes(p)
      <4>1. step'[o] \in {0, 1}
        BY <1>2, <3>3
           DEF Start, Succeed, Fails, StepFails, StepLost, EnsureDeploymentFails,
               EnsureServiceFails, Crash, FailAttempt, Leave, AttemptsTypeOK
      <4>2. ~Passed(o, AttachmentReads)'
        BY <4>1 DEF Passed, Before
      <4>3. ASSUME Kind[o] = "storage_attachment" PROVE status'[o] # "succeeded"
        <5>1. ~Succeed(o)
          BY <2>2, <4>3 DEF Succeed, Refless, Program, AttachSteps
        <5>2. Start(o) \/ Fails(o)
          BY <1>2, <3>3, <5>1
        <5>3. status[o] # "succeeded"
          BY <2>2, <4>3 DEF Refless
        <5> QED
          BY <5>2, <5>3
             DEF Start, Fails, StepFails, StepLost, EnsureDeploymentFails, EnsureServiceFails,
                 Crash, FailAttempt, queue, Queue!Start, Queue!CountFailure, Queue!Abandon,
                 Queue!SetStatus, AttemptsTypeOK
      <4> QED BY <4>1, <4>2, <4>3
    <3> QED BY <3>1, <3>2, <3>3
  <2> QED BY <2>1, <2>2 DEF Refless
<1> QED BY <1>1, <1>2 DEF Next, Goes, Fails

\* Finding 4 on every instance (splitProviderRefs, AttachStorage): an attach operation on
\* an attachment that no workspace operation has linked is never reported "succeeded" and
\* never comes past its call, whatever else runs and however often it is tried.
THEOREM LoneAttachNeverSucceeds ==
  ASSUME NEW CONSTANT o \in Operations, Kind[o] = "storage_attachment",
         Unlinked(Target[o].attachment)
  PROVE  Spec => [](status[o] # "succeeded" /\ step[o] <= 2)
<1> DEFINE a == Target[o].attachment
<1>1. a \in Ids("attachment")
  BY NeedsReached DEF Needs, Reaches
<1>2. Init => Refless(a)
  BY <1>1 DEF Init, Refless, Passed, Before
<1>3. DeliveryInvariant /\ Refless(a) /\ [Next]_vars => Refless(a)'
  BY <1>1, ReflessKept
<1>4. Refless(a) => status[o] # "succeeded" /\ step[o] <= 2
  BY DEF Refless
<1> HIDE DEF a
<1> QED
  BY <1>2, <1>3, <1>4, DeliveryInvariantHolds, PTL DEF Spec
================================================================================
