---------------------------- MODULE Delivery_proofs ----------------------------
(* Proofs about Delivery: types, storage that survives, routes that are kept and *)
(* rows that never run ahead of the cluster, whatever the operations, the number *)
(* of workers, the Role and the faults.                                          *)
EXTENDS Delivery, TLAPS

\* A step with one of these names lies behind position i of a program, or behind
\* the present position of a running operation.
Before(p, i, names) == \E k \in 1..(i - 1) : p[k] \in names

Passed(o, names) == Before(Program[Kind[o]], step[o], names)

ComputeReads == {"readCompute", "readParts"}
AttachmentReads == {"readAttachment", "readParts"}
EntryReads == {"readEntry"}
ClaimCalls == {"createClaim"}

\* What a row may say, wherever it is kept: in its table or in a worker's locals.
ComputeRowBacked(r) == r.state = "running" <=> r.refs

AttachmentRowBacked(r) ==
  /\ r.claim # None => r.claim \in claims
  /\ r.compute # None => r.claim # None

EntryRowBacked(r, e) == r.state = "ready" => gateway[e] # None

RowsBacked ==
  /\ \A s \in Ids("storage") :
       storages[s].state = "available" => storages[s].ref /\ claimName(s) \in claims
  /\ \A c \in Ids("compute") : ComputeRowBacked(computes[c])
  /\ \A a \in Ids("attachment") : AttachmentRowBacked(attachments[a])
  /\ \A e \in Ids("entry") : EntryRowBacked(entries[e], e)

\* A worker writes back what it has read: that must still be true of the cluster.
SeenOf(o) ==
  /\ Passed(o, ComputeReads) =>
       seen[o].compute \in ComputeRows /\ ComputeRowBacked(seen[o].compute)
  /\ Passed(o, AttachmentReads) =>
       seen[o].attachment \in AttachmentRows /\ AttachmentRowBacked(seen[o].attachment)
  /\ Passed(o, EntryReads) =>
       seen[o].entry \in EntryRows /\ EntryRowBacked(seen[o].entry, Target[o].entry)

SeenBacked == \A o \in Operations : SeenOf(o)

\* What the steps behind an operation have established and nobody takes away.
StepsOf(o) ==
  /\ Passed(o, ClaimCalls) => claimName(Target[o].storage) \in claims
  /\ At(o, "attachmentRow") => seen[o].attachment.compute # None
  /\ At(o, "entryRow") => gateway[Target[o].entry] # None

StepsBacked == \A o \in Operations : StepsOf(o)

DeliveryInvariant == TypeOK /\ RowsBacked /\ SeenBacked /\ StepsBacked

-----------------------------------------------------------------------------
(* The programs.                                                               *)

\* Every read comes before the step that uses it, the claim before what names it,
\* and the two guarded calls right before the rows that rely on them.
WellOrdered(p) ==
  /\ Len(p) \in Nat
  /\ p[1] \notin {"attachmentRow", "entryRow"}
  /\ \A i \in 1..Len(p) :
       /\ p[i] = "resolvePool" => Before(p, i, ComputeReads)
       /\ p[i] \in {"storageRow", "linkAttachment"} => Before(p, i, ClaimCalls)
       /\ p[i] \in {"linkAttachment", "mount", "unmount", "attachmentRow"} =>
            Before(p, i, AttachmentReads)
       /\ p[i] = "linkAttachment" => Before(p, i, ComputeReads)
       /\ p[i] \in {"linkEntry", "putRoute", "entryRow"} => Before(p, i, EntryReads)
       /\ i + 1 \in 1..Len(p) /\ p[i + 1] = "attachmentRow" => p[i] = "mount"
       /\ i + 1 \in 1..Len(p) /\ p[i + 1] = "entryRow" => p[i] = "putRoute"

\* The program of a workspace, step by step (Orchestrator.applyWorkspace).
LEMMA WorkspaceProgram ==
  /\ Len(WorkspaceSteps) = 22
  /\ WorkspaceSteps[1] = "provisioning"
  /\ WorkspaceSteps[2] = "createClaim"
  /\ WorkspaceSteps[3] = "storageRow"
  /\ WorkspaceSteps[4] = "readCompute"
  /\ WorkspaceSteps[5] = "resolvePool"
  /\ WorkspaceSteps[6] = "readCompute"
  /\ WorkspaceSteps[7] = "resolvePool"
  /\ WorkspaceSteps[8] = "ensureSecret"
  /\ WorkspaceSteps[9] = "ensureDeployment"
  /\ WorkspaceSteps[10] = "ensureService"
  /\ WorkspaceSteps[11] = "computeRow"
  /\ WorkspaceSteps[12] = "readParts"
  /\ WorkspaceSteps[13] = "linkAttachment"
  /\ WorkspaceSteps[14] = "readAttachment"
  /\ WorkspaceSteps[15] = "mount"
  /\ WorkspaceSteps[16] = "attachmentRow"
  /\ WorkspaceSteps[17] = "readEntry"
  /\ WorkspaceSteps[18] = "linkEntry"
  /\ WorkspaceSteps[19] = "readEntry"
  /\ WorkspaceSteps[20] = "putRoute"
  /\ WorkspaceSteps[21] = "entryRow"
  /\ WorkspaceSteps[22] = "workspaceRow"
  BY DEF WorkspaceSteps, StorageSteps, ComputeSteps, AttachSteps, EntrySteps

\* All eight programs are well ordered.
LEMMA ProgramsWellOrdered ==
  ASSUME NEW k \in Kinds
  PROVE  WellOrdered(Program[k])
<1> USE DEF WellOrdered, Before, ComputeReads, AttachmentReads, EntryReads, ClaimCalls
<1>1. CASE k = "workspace"
  <2>1. Program[k] = WorkspaceSteps
    BY <1>1 DEF Program
  <2> DEFINE w == WorkspaceSteps
  <2>2. ASSUME NEW i \in 1..Len(w)
        PROVE  /\ w[i] = "resolvePool" => Before(w, i, ComputeReads)
               /\ w[i] = "linkAttachment" => Before(w, i, ComputeReads)
               /\ w[i] \in {"storageRow", "linkAttachment"} => Before(w, i, ClaimCalls)
    BY WorkspaceProgram
  <2>3. ASSUME NEW i \in 1..Len(w)
        PROVE  /\ w[i] \in {"linkAttachment", "mount", "unmount", "attachmentRow"} =>
                    Before(w, i, AttachmentReads)
               /\ w[i] \in {"linkEntry", "putRoute", "entryRow"} =>
                    Before(w, i, EntryReads)
    <3>1. w[i] \in {"linkAttachment", "mount", "unmount", "attachmentRow"} => 12 < i
      BY WorkspaceProgram
    <3>2. w[i] \in {"linkEntry", "putRoute", "entryRow"} => 17 < i
      BY WorkspaceProgram
    <3>3. 12 < i => 12 \in 1..(i - 1) /\ w[12] \in AttachmentReads
      BY WorkspaceProgram
    <3>4. 17 < i => 17 \in 1..(i - 1) /\ w[17] \in EntryReads
      BY WorkspaceProgram
    <3> HIDE DEF w, ComputeReads, AttachmentReads, EntryReads, ClaimCalls, WellOrdered
    <3> QED
      BY <3>1, <3>2, <3>3, <3>4
  <2>4. ASSUME NEW i \in 1..Len(w), i + 1 \in 1..Len(w)
        PROVE  /\ w[i + 1] = "attachmentRow" => w[i] = "mount"
               /\ w[i + 1] = "entryRow" => w[i] = "putRoute"
    <3>1. ASSUME NEW j \in 1..22
          PROVE  /\ w[j] = "attachmentRow" => j = 16
                 /\ w[j] = "entryRow" => j = 21
      BY WorkspaceProgram
    <3>2. Len(w) = 22 /\ w[15] = "mount" /\ w[20] = "putRoute"
      BY WorkspaceProgram
    <3>3. /\ i + 1 = 16 => i = 15
          /\ i + 1 = 21 => i = 20
      OBVIOUS
    <3> HIDE DEF w, WellOrdered
    <3>4. i + 1 \in 1..22
      BY <2>4, <3>2
    <3> QED
      BY <3>1, <3>2, <3>3, <3>4
  <2>5. Len(w) \in Nat /\ w[1] \notin {"attachmentRow", "entryRow"}
    BY WorkspaceProgram
  <2>6. WellOrdered(w)
    <3> HIDE DEF w, Before
    <3> QED
      BY <2>2, <2>3, <2>4, <2>5
  <2> HIDE DEF w, WellOrdered
  <2>7. w = Program[k]
    BY <2>1 DEF w
  <2> QED
    BY <2>6, <2>7
<1>2. CASE k = "storage_volume"
  BY <1>2 DEF Program, StorageSteps
<1>3. CASE k = "compute_allocation"
  BY <1>3 DEF Program, ComputeSteps
<1>4. CASE k = "storage_attachment"
  BY <1>4 DEF Program, AttachSteps
<1>5. CASE k = "workspace_entry"
  BY <1>5 DEF Program, EntrySteps
<1>6. CASE k = "compute_allocation_destroy"
  BY <1>6 DEF Program, DestroyComputeSteps
<1>7. CASE k = "storage_destroy"
  BY <1>7 DEF Program
<1>8. CASE k = "attachment_detach"
  BY <1>8 DEF Program
<1> QED
  BY <1>1, <1>2, <1>3, <1>4, <1>5, <1>6, <1>7, <1>8 DEF Kinds

StepsOn ==
  [storage |-> {"createClaim", "storageRow", "deleteClaim", "storageGoneRow",
                "linkAttachment", "mount", "attachmentRow"},
   compute |-> {"readCompute", "resolvePool", "ensureSecret", "ensureDeployment",
                "ensureService", "computeRow", "readParts", "linkAttachment", "linkEntry",
                "deleteDeployment", "deleteService", "deleteSecret", "destroyedRow",
                "mount", "attachmentRow"},
   attachment |-> {"readAttachment", "mount", "attachmentRow", "readParts",
                   "linkAttachment", "unmount", "detachedRow"},
   entry |-> {"readEntry", "linkEntry", "putRoute", "entryRow"},
   workspace |-> {"provisioning", "workspaceRow"}]

\* No program has a step on a resource its operation does not reach.
LEMMA ProgramsReach ==
  ASSUME NEW k \in Kinds, NEW part \in Parts, NEW i \in 1..Len(Program[k]),
         Program[k][i] \in StepsOn[part]
  PROVE  part \in Needs[k]
<1> USE DEF StepsOn, Parts, Needs
<1>1. CASE k = "workspace"
  BY <1>1
<1>2. CASE k = "storage_volume"
  BY <1>2 DEF Program, StorageSteps
<1>3. CASE k = "compute_allocation"
  BY <1>3 DEF Program, ComputeSteps
<1>4. CASE k = "storage_attachment"
  BY <1>4 DEF Program, AttachSteps
<1>5. CASE k = "workspace_entry"
  BY <1>5 DEF Program, EntrySteps
<1>6. CASE k = "compute_allocation_destroy"
  BY <1>6 DEF Program, DestroyComputeSteps
<1>7. CASE k = "storage_destroy"
  BY <1>7 DEF Program
<1>8. CASE k = "attachment_detach"
  BY <1>8 DEF Program
<1> QED
  BY <1>1, <1>2, <1>3, <1>4, <1>5, <1>6, <1>7, <1>8 DEF Kinds

\* A running operation reaches the resource its step is about.
LEMMA StepReaches ==
  ASSUME AttemptsTypeOK, NEW o \in Operations, NEW part \in Parts,
         NEW name \in StepsOn[part], At(o, name)
  PROVE  Target[o][part] \in Ids(part)
<1>1. step[o] \in 1..Len(Program[Kind[o]]) /\ Kind[o] \in Kinds
  BY TargetAssumption, ProgramsWellOrdered DEF At, Running, AttemptsTypeOK, WellOrdered
<1>2. part \in Needs[Kind[o]]
  BY <1>1, ProgramsReach DEF At
<1> QED
  BY <1>2, TargetAssumption DEF Ids

\* What lies behind a running operation at the steps that rely on it.
LEMMA StepsInOrder ==
  ASSUME AttemptsTypeOK, NEW o \in Operations
  PROVE  /\ Len(Program[Kind[o]]) \in Nat
         /\ At(o, "resolvePool") \/ At(o, "linkAttachment") => Passed(o, ComputeReads)
         /\ At(o, "linkAttachment") \/ At(o, "attachmentRow") => Passed(o, AttachmentReads)
         /\ At(o, "mount") \/ At(o, "unmount") => Passed(o, AttachmentReads)
         /\ At(o, "linkEntry") \/ At(o, "putRoute") \/ At(o, "entryRow") =>
              Passed(o, EntryReads)
         /\ At(o, "storageRow") \/ At(o, "linkAttachment") => Passed(o, ClaimCalls)
<1> DEFINE p == Program[Kind[o]]
<1>1. WellOrdered(p)
  BY ProgramsWellOrdered, TargetAssumption
<1>2. \A name : At(o, name) => step[o] \in 1..Len(p) /\ p[step[o]] = name
  BY <1>1 DEF At, Running, AttemptsTypeOK, WellOrdered
<1> HIDE DEF p
<1>3. \A names : Before(p, step[o], names) <=> Passed(o, names)
  BY DEF Passed, p
<1>4. Len(p) \in Nat
  BY <1>1 DEF WellOrdered
<1> QED
  BY <1>1, <1>2, <1>3, <1>4 DEF WellOrdered, p

-----------------------------------------------------------------------------
(* The shared state: rows, claims, objects and routes.                         *)

\* Claims are only added and routes only set.
Grown ==
  /\ claims \subseteq claims'
  /\ \A e \in Ids("entry") : gateway[e] # None => gateway'[e] # None

\* Rows that nobody writes stay true while the cluster grows.
LEMMA RowsStayBacked ==
  ASSUME RowsTypeOK, RowsBacked, UNCHANGED rows, Grown
  PROVE  RowsTypeOK' /\ RowsBacked'
<1>1. RowsTypeOK'
  BY DEF RowsTypeOK, rows, Ids, StorageRows, ComputeRows, AttachmentRows, EntryRows,
         Names, Claims
<1>2. RowsBacked'
  BY DEF RowsBacked, rows, Grown, ComputeRowBacked, AttachmentRowBacked, EntryRowBacked
<1> QED
  BY <1>1, <1>2

\* A volume is written available after its claim is there.
LEMMA StorageRowKeeps ==
  ASSUME DeliveryInvariant, NEW o \in Operations, StorageRow(o), UNCHANGED cluster
  PROVE  RowsTypeOK' /\ RowsBacked'
<1>1. UNCHANGED <<computes, attachments, entries, workspaces, claims, gateway>>
  BY DEF StorageRow, cluster
<1>2. CASE UNCHANGED storages
  <2>1. Grown /\ UNCHANGED rows
    BY <1>1, <1>2 DEF Grown, rows
  <2> QED
    BY <2>1, RowsStayBacked DEF DeliveryInvariant, TypeOK
<1>3. CASE At(o, "storageRow") /\ SetStorage(o, [state |-> "available", ref |-> TRUE])
  <2>1. claimName(Target[o].storage) \in claims
    BY <1>3, StepsInOrder DEF DeliveryInvariant, TypeOK, StepsBacked, StepsOf
  <2>2. storages' \in [Ids("storage") -> StorageRows]
    BY <1>3 DEF SetStorage, DeliveryInvariant, TypeOK, RowsTypeOK, StorageRows
  <2>3. RowsTypeOK'
    BY <1>1, <2>2 DEF DeliveryInvariant, TypeOK, RowsTypeOK
  <2>4. \A s \in Ids("storage") :
          storages'[s].state = "available" => storages'[s].ref /\ claimName(s) \in claims
    BY <1>3, <2>1 DEF SetStorage, DeliveryInvariant, TypeOK, RowsTypeOK, RowsBacked
  <2> QED
    BY <1>1, <2>3, <2>4 DEF DeliveryInvariant, RowsBacked, ComputeRowBacked,
                            AttachmentRowBacked, EntryRowBacked
<1> QED
  BY <1>2, <1>3 DEF StorageRow, Retained

\* A compute is written running with its refs, or written back as it was.
LEMMA ComputeRowKeeps ==
  ASSUME DeliveryInvariant, NEW o \in Operations, ComputeRow(o), UNCHANGED cluster
  PROVE  RowsTypeOK' /\ RowsBacked'
<1>1. UNCHANGED <<storages, attachments, entries, workspaces, claims, gateway>>
  BY DEF ComputeRow, cluster
<1>2. \/ UNCHANGED computes
      \/ \E row \in ComputeRows : SetCompute(o, row) /\ ComputeRowBacked(row)
  <2>1. CASE At(o, "resolvePool")
    <3> DEFINE old == seen[o].compute
               new == [old EXCEPT !.pool = TRUE]
    <3>1. old \in ComputeRows /\ ComputeRowBacked(old)
      BY <2>1, StepsInOrder DEF DeliveryInvariant, TypeOK, SeenBacked, SeenOf
    <3>2. new \in ComputeRows /\ ComputeRowBacked(new)
      BY <3>1 DEF ComputeRows, ComputeRowBacked
    <3>3. UNCHANGED computes \/ SetCompute(o, new)
      BY <2>1 DEF ComputeRow, At
    <3> QED
      BY <3>2, <3>3
  <2>2. CASE ~At(o, "resolvePool")
    <3> DEFINE running == [state |-> "running", refs |-> TRUE, pool |-> TRUE]
               destroyed == [state |-> "destroyed", refs |-> FALSE, pool |-> FALSE]
    <3>1. /\ running \in ComputeRows /\ ComputeRowBacked(running)
          /\ destroyed \in ComputeRows /\ ComputeRowBacked(destroyed)
      BY DEF ComputeRows, ComputeRowBacked
    <3>2. SetCompute(o, running) \/ SetCompute(o, destroyed)
      BY <2>2 DEF ComputeRow
    <3> QED
      BY <3>1, <3>2
  <2> QED
    BY <2>1, <2>2
<1>3. /\ computes' \in [Ids("compute") -> ComputeRows]
      /\ \A c \in Ids("compute") : ComputeRowBacked(computes'[c])
  BY <1>2 DEF SetCompute, DeliveryInvariant, TypeOK, RowsTypeOK, RowsBacked
<1> QED
  BY <1>1, <1>3 DEF DeliveryInvariant, TypeOK, RowsTypeOK, RowsBacked, ComputeRowBacked,
                    AttachmentRowBacked, EntryRowBacked

\* An attachment is written with claims that exist.
LEMMA AttachmentRowKeeps ==
  ASSUME DeliveryInvariant, NEW o \in Operations, AttachmentRow(o), UNCHANGED cluster
  PROVE  RowsTypeOK' /\ RowsBacked'
<1> USE DEF DeliveryInvariant, TypeOK
<1>1. UNCHANGED <<storages, computes, entries, workspaces, claims, gateway>>
  BY DEF AttachmentRow, cluster
<1>2. \E row \in AttachmentRows : SetAttachment(o, row) /\ AttachmentRowBacked(row)
  <2> DEFINE old == seen[o].attachment
  <2>1. CASE At(o, "linkAttachment")
    <3> DEFINE name == IF seen[o].compute.refs THEN k8sName(Target[o].compute) ELSE None
               claim == claimName(Target[o].storage)
               new == [state |-> old.state, compute |-> name, claim |-> claim]
    <3>0. Passed(o, AttachmentReads)
      BY <2>1, StepsInOrder
    <3>1. old \in AttachmentRows
      BY <3>0 DEF SeenBacked, SeenOf
    <3>2. Target[o].compute \in Ids("compute") /\ Target[o].storage \in Ids("storage")
      BY <2>1, StepReaches DEF StepsOn, Parts
    <3>3. claim \in claims /\ claim \in Claims /\ claim # None
      BY <2>1, <3>2, StepsInOrder, NoneAssumption DEF StepsBacked, StepsOf, Claims, Parts
    <3>4. name \in Names \cup {None}
      BY <3>2 DEF Names
    <3>5. new \in AttachmentRows
      BY <3>1, <3>3, <3>4 DEF AttachmentRows
    <3>6. AttachmentRowBacked(new)
      BY <3>3 DEF AttachmentRowBacked
    <3>7. SetAttachment(o, new)
      BY <2>1 DEF AttachmentRow, At
    <3> QED
      BY <3>5, <3>6, <3>7
  <2>2. CASE At(o, "attachmentRow")
    <3> DEFINE new == [state |-> "attached", compute |-> old.compute, claim |-> old.claim]
    <3>0. Passed(o, AttachmentReads)
      BY <2>2, StepsInOrder
    <3>1. old \in AttachmentRows /\ AttachmentRowBacked(old) /\ old.compute # None
      BY <2>2, <3>0 DEF SeenBacked, SeenOf, StepsBacked, StepsOf
    <3>2. new \in AttachmentRows /\ AttachmentRowBacked(new)
      BY <3>1 DEF AttachmentRows, AttachmentRowBacked
    <3>3. SetAttachment(o, new)
      BY <2>2, <3>1 DEF AttachmentRow, At, OrBare, AttachmentRowBacked
    <3> QED
      BY <3>2, <3>3
  <2>3. CASE At(o, "detachedRow")
    <3> DEFINE new == [state |-> "detached", compute |-> None, claim |-> None]
    <3>1. new \in AttachmentRows /\ AttachmentRowBacked(new)
      BY DEF AttachmentRows, AttachmentRowBacked
    <3>2. SetAttachment(o, new)
      BY <2>3 DEF AttachmentRow, At
    <3> QED
      BY <3>1, <3>2
  <2> QED
    BY <2>1, <2>2, <2>3 DEF AttachmentRow
<1>3. /\ attachments' \in [Ids("attachment") -> AttachmentRows]
      /\ \A a \in Ids("attachment") : AttachmentRowBacked(attachments'[a])
  BY <1>2 DEF SetAttachment, RowsTypeOK, RowsBacked
<1> QED
  BY <1>1, <1>3 DEF RowsTypeOK, RowsBacked, ComputeRowBacked, AttachmentRowBacked,
                    EntryRowBacked

\* An entry is written ready after its route is there.
LEMMA EntryRowKeeps ==
  ASSUME DeliveryInvariant, NEW o \in Operations, EntryRow(o), UNCHANGED cluster
  PROVE  RowsTypeOK' /\ RowsBacked'
<1> USE DEF DeliveryInvariant, TypeOK
<1>1. UNCHANGED <<storages, computes, attachments, workspaces, claims, gateway>>
  BY DEF EntryRow, cluster
<1> DEFINE e == Target[o].entry
           old == seen[o].entry
<1>2. e \in Ids("entry") /\ old \in EntryRows /\ EntryRowBacked(old, e)
  BY StepsInOrder, StepReaches DEF EntryRow, StepsOn, Parts, SeenBacked, SeenOf
<1>3. \E row \in EntryRows : SetEntry(o, row) /\ EntryRowBacked(row, e)
  <2>1. CASE At(o, "linkEntry")
    <3> DEFINE name == IF seen[o].compute.refs THEN k8sName(Target[o].compute) ELSE None
               new == [old EXCEPT !.service = name]
    <3>1. Target[o].compute \in Ids("compute")
      BY <2>1, StepReaches DEF StepsOn, Parts
    <3>2. name \in Names \cup {None}
      BY <3>1 DEF Names
    <3>3. new \in EntryRows /\ EntryRowBacked(new, e)
      BY <1>2, <3>2 DEF EntryRows, EntryRowBacked
    <3>4. SetEntry(o, new)
      BY <2>1 DEF EntryRow, At
    <3> QED
      BY <3>3, <3>4
  <2>2. CASE At(o, "entryRow")
    <3> DEFINE new == [old EXCEPT !.state = "ready"]
    <3>1. new \in EntryRows /\ EntryRowBacked(new, e)
      BY <1>2, <2>2 DEF EntryRows, EntryRowBacked, StepsBacked, StepsOf
    <3>2. SetEntry(o, new)
      BY <2>2 DEF EntryRow, At
    <3> QED
      BY <3>1, <3>2
  <2> QED
    BY <2>1, <2>2 DEF EntryRow
<1>4. /\ entries' \in [Ids("entry") -> EntryRows]
      /\ \A f \in Ids("entry") : EntryRowBacked(entries'[f], f)
  BY <1>3 DEF SetEntry, RowsTypeOK, RowsBacked
<1> QED
  BY <1>1, <1>4 DEF RowsTypeOK, RowsBacked, ComputeRowBacked, AttachmentRowBacked,
                    EntryRowBacked

\* A row update leaves the cluster alone and the rows true of it, whether or not its
\* reply arrives.
LEMMA RowUpdateKeeps ==
  ASSUME DeliveryInvariant, NEW o \in Operations, WriteRow(o)
  PROVE  RowsTypeOK' /\ RowsBacked' /\ UNCHANGED cluster
<1>1. CASE WorkspaceRow(o)
  <2>1. UNCHANGED <<storages, computes, attachments, entries, claims, gateway>>
    BY <1>1 DEF WriteRow, WorkspaceRow, cluster
  <2>2. workspaces' \in [Ids("workspace") -> {"provisioning", "running"}]
    BY <1>1 DEF WorkspaceRow, SetWorkspace, DeliveryInvariant, TypeOK, RowsTypeOK
  <2> QED
    BY <2>1, <2>2 DEF WriteRow, DeliveryInvariant, TypeOK, RowsTypeOK, RowsBacked,
                      ComputeRowBacked, AttachmentRowBacked, EntryRowBacked
<1> QED
  BY <1>1, StorageRowKeeps, ComputeRowKeeps, AttachmentRowKeeps, EntryRowKeeps DEF WriteRow

\* A provider call keeps the cluster in order and only lets it grow in claims and
\* routes, whether or not its reply arrives.
LEMMA ProviderCallKeeps ==
  ASSUME DeliveryInvariant, NEW o \in Operations, Call(o)
  PROVE  ClusterTypeOK' /\ Grown /\ UNCHANGED rows
<1> USE DEF DeliveryInvariant, TypeOK
<1>1. UNCHANGED rows
  BY DEF Call
<1>2. ClusterTypeOK
  OBVIOUS
<1>3. CASE CreateClaim(o)
  <2>1. Target[o].storage \in Ids("storage")
    BY <1>3, StepReaches DEF CreateClaim, StepsOn, Parts
  <2> QED
    BY <1>1, <1>2, <1>3, <2>1 DEF CreateClaim, ClusterTypeOK, Claims, Grown
<1>4. CASE DeleteClaim(o)
  BY <1>1, <1>2, <1>4 DEF DeleteClaim, Retained, ClusterTypeOK, Grown
<1>5. CASE EnsureSecret(o) \/ EnsureDeployment(o) \/ EnsureService(o)
  <2>1. Target[o].compute \in Ids("compute")
    BY <1>5, StepReaches DEF EnsureSecret, EnsureDeployment, EnsureService, StepsOn, Parts
  <2>2. Deployment(o) \in Names
    BY <2>1 DEF Deployment, Names
  <2> QED
    BY <1>1, <1>2, <1>5, <2>2
       DEF EnsureSecret, EnsureDeployment, EnsureService, WithoutMounts, ClusterTypeOK, Grown
<1>6. CASE Mount(o)
  <2> DEFINE old == seen[o].attachment
             name == OrBare(old.compute, Target[o].compute)
             claim == OrBare(old.claim, Target[o].storage)
  <2>1. Passed(o, AttachmentReads)
    BY <1>6, StepsInOrder DEF Mount
  <2>2. old \in AttachmentRows /\ AttachmentRowBacked(old)
    BY <2>1 DEF SeenBacked, SeenOf
  <2>3. name \in deployments /\ name \in Names
    BY <1>2, <1>6 DEF Mount, ClusterTypeOK
  <2>4. old.compute # None
    BY <2>3 DEF OrBare, bareName, Names, k8sName
  <2>5. claim \in Claims
    BY <2>2, <2>4 DEF OrBare, AttachmentRows, AttachmentRowBacked
  <2>6. mounted' = WithoutMounts(name) \cup {<<name, claim>>}
    BY <1>6 DEF Mount
  <2>7. UNCHANGED <<claims, deployments, services, secrets, gateway>>
    BY <1>6 DEF Mount
  <2> HIDE DEF name, claim
  <2>8. mounted' \subseteq deployments' \X Claims
    BY <1>2, <2>3, <2>5, <2>6, <2>7 DEF WithoutMounts, ClusterTypeOK
  <2> QED
    BY <1>1, <1>2, <2>7, <2>8 DEF ClusterTypeOK, Grown
<1>7. CASE Unmount(o)
  BY <1>1, <1>2, <1>7 DEF Unmount, WithoutMounts, ClusterTypeOK, Grown
<1>8. CASE PutRoute(o)
  <2> DEFINE e == Target[o].entry
             service == OrBare(seen[o].entry.service, e)
  <2>1. e \in Ids("entry") /\ Passed(o, EntryReads)
    BY <1>8, StepsInOrder, StepReaches DEF PutRoute, StepsOn, Parts
  <2>2. seen[o].entry \in EntryRows
    BY <2>1 DEF SeenBacked, SeenOf
  <2>3. bareName(e) # None
    BY <2>1, NoneAssumption DEF Parts
  <2>4. service \in ServiceNames /\ service # None
    BY <2>1, <2>2, <2>3 DEF OrBare, EntryRows, ServiceNames
  <2>5. /\ gateway' = [gateway EXCEPT ![e] = service]
        /\ UNCHANGED <<claims, deployments, mounted, services, secrets>>
    BY <1>8 DEF PutRoute
  <2> HIDE DEF service
  <2>6. gateway' \in Routes
    BY <1>2, <2>1, <2>4, <2>5 DEF ClusterTypeOK, Routes
  <2>7. \A f \in Ids("entry") : gateway[f] # None => gateway'[f] # None
    BY <1>2, <2>1, <2>4, <2>5 DEF ClusterTypeOK, Routes
  <2> QED
    BY <1>1, <1>2, <2>5, <2>6, <2>7 DEF ClusterTypeOK, Grown
<1>9. CASE DeleteDeployment(o) \/ DeleteService(o) \/ DeleteSecret(o)
  BY <1>1, <1>2, <1>9
     DEF DeleteDeployment, DeleteService, DeleteSecret, WithoutMounts, ClusterTypeOK, Grown
<1> QED
  BY <1>3, <1>4, <1>5, <1>6, <1>7, <1>8, <1>9 DEF Call

\* So do the failures of CreateCompute and their cleanups.
LEMMA CleanupKeeps ==
  ASSUME DeliveryInvariant, NEW o \in Operations,
         EnsureDeploymentFails(o) \/ EnsureServiceFails(o)
  PROVE  ClusterTypeOK' /\ Grown /\ UNCHANGED rows
<1>1. Deployment(o) \in Names
  BY StepReaches DEF EnsureDeploymentFails, EnsureServiceFails, StepsOn, Parts, Deployment,
                     Names, DeliveryInvariant, TypeOK
<1>2. /\ UNCHANGED rows
      /\ UNCHANGED <<claims, gateway>>
  BY DEF EnsureDeploymentFails, EnsureServiceFails
<1>3. secrets' \subseteq secrets
  BY DEF EnsureDeploymentFails, EnsureServiceFails, CleanedSecrets
<1>4. \/ UNCHANGED <<deployments, mounted>>
      \/ /\ deployments' \in {deployments \cup {Deployment(o)}, deployments \ {Deployment(o)}}
         /\ mounted' = WithoutMounts(Deployment(o))
  BY DEF EnsureDeploymentFails, EnsureServiceFails
<1>5. services' \in {services, services \cup {Deployment(o)}}
  BY DEF EnsureDeploymentFails, EnsureServiceFails
<1> QED
  BY <1>1, <1>2, <1>3, <1>4, <1>5
     DEF WithoutMounts, ClusterTypeOK, Grown, DeliveryInvariant, TypeOK

\* Every step keeps the rows true of the cluster, and lets claims and routes grow.
LEMMA SharedStateKept ==
  ASSUME DeliveryInvariant, [Next]_vars
  PROVE  RowsTypeOK' /\ RowsBacked' /\ ClusterTypeOK' /\ Grown
<1> USE DEF DeliveryInvariant, TypeOK
<1>1. ASSUME UNCHANGED cluster
      PROVE  ClusterTypeOK' /\ Grown
  BY <1>1 DEF cluster, ClusterTypeOK, Grown, Routes
<1>2. CASE UNCHANGED <<rows, cluster>>
  BY <1>1, <1>2, RowsStayBacked
<1>3. ASSUME NEW o \in Operations, WriteRow(o)
      PROVE  RowsTypeOK' /\ RowsBacked' /\ ClusterTypeOK' /\ Grown
  BY <1>1, <1>3, RowUpdateKeeps
<1>4. ASSUME NEW o \in Operations,
             Call(o) \/ EnsureDeploymentFails(o) \/ EnsureServiceFails(o)
      PROVE  RowsTypeOK' /\ RowsBacked' /\ ClusterTypeOK' /\ Grown
  BY <1>4, ProviderCallKeeps, CleanupKeeps, RowsStayBacked
<1>5. ASSUME NEW o \in Operations,
             Start(o) \/ Reads(o) \/ Succeed(o) \/ StepFails(o) \/ Crash(o)
      PROVE  UNCHANGED <<rows, cluster>>
  BY <1>5 DEF Start, Reads, Succeed, StepFails, Crash
<1>6. CASE UNCHANGED vars
  BY <1>2, <1>6 DEF vars
<1>7. CASE Next
  BY <1>2, <1>3, <1>4, <1>5, <1>7 DEF Next, Writes, Calls, StepLost
<1> QED
  BY <1>6, <1>7

-----------------------------------------------------------------------------
(* The attempts: where each operation is and what it has read.                 *)

\* An operation that has read an entry has one.
LEMMA EntryReadersReach ==
  ASSUME AttemptsTypeOK, NEW o \in Operations, Passed(o, EntryReads)
  PROVE  Target[o].entry \in Ids("entry")
<1>1. Len(Program[Kind[o]]) \in Nat /\ Kind[o] \in Kinds
  BY StepsInOrder, TargetAssumption
<1>2. PICK i \in 1..(step[o] - 1) : Program[Kind[o]][i] = "readEntry"
  BY DEF Passed, Before, EntryReads
<1>3. i \in 1..Len(Program[Kind[o]])
  BY <1>1, <1>2 DEF AttemptsTypeOK
<1>4. "entry" \in Needs[Kind[o]]
  BY <1>1, <1>2, <1>3, ProgramsReach DEF StepsOn, Parts
<1> QED
  BY <1>4, TargetAssumption DEF Ids

\* What an operation knew stays true while it does not move.
LEMMA WaitingKeeps ==
  ASSUME DeliveryInvariant, Grown, NEW o \in Operations,
         step'[o] = step[o], seen'[o] = seen[o]
  PROVE  SeenOf(o)' /\ StepsOf(o)'
<1> USE DEF DeliveryInvariant, TypeOK
<1>1. /\ \A names : Passed(o, names)' <=> Passed(o, names)
      /\ \A name : At(o, name)' <=> At(o, name)
  BY DEF Passed, Before, At, Running
<1>2. SeenOf(o) /\ StepsOf(o)
  BY DEF SeenBacked, StepsBacked
<1>3. SeenOf(o)'
  <2>1. Passed(o, EntryReads) => Target[o].entry \in Ids("entry")
    BY EntryReadersReach
  <2> QED
    BY <1>1, <1>2, <2>1 DEF SeenOf, Grown, ComputeRowBacked, AttachmentRowBacked,
                            EntryRowBacked, ComputeRows, AttachmentRows, EntryRows, Names,
                            Claims, Ids
<1>4. StepsOf(o)'
  <2>1. At(o, "entryRow") => Target[o].entry \in Ids("entry")
    BY StepReaches DEF StepsOn, Parts
  <2> QED
    BY <1>1, <1>2, <2>1 DEF StepsOf, Grown
<1> QED
  BY <1>3, <1>4

\* An operation that is not running, or just starts, has nothing behind it.
LEMMA StartingKeeps ==
  ASSUME NEW o \in Operations, step'[o] \in {0, 1}
  PROVE  SeenOf(o)' /\ StepsOf(o)'
<1>1. \A names : ~Passed(o, names)'
  BY DEF Passed, Before
<1>2. ~At(o, "attachmentRow")' /\ ~At(o, "entryRow")'
  BY ProgramsWellOrdered, TargetAssumption DEF At, Running, WellOrdered
<1> QED
  BY <1>1, <1>2 DEF SeenOf, StepsOf

\* One step further, one more step behind.
LEMMA PassedNext ==
  ASSUME AttemptsTypeOK, NEW o \in Operations, NEW name, At(o, name),
         step'[o] = step[o] + 1
  PROVE  /\ \A names : Passed(o, names)' <=> Passed(o, names) \/ name \in names
         /\ At(o, "attachmentRow")' => name = "mount"
         /\ At(o, "entryRow")' => name = "putRoute"
<1> DEFINE p == Program[Kind[o]]
<1>1. WellOrdered(p)
  BY ProgramsWellOrdered, TargetAssumption
<1>2. step[o] \in 1..Len(p) /\ p[step[o]] = name /\ Len(p) \in Nat
  BY <1>1 DEF At, Running, AttemptsTypeOK, WellOrdered
<1>3. \A names : Passed(o, names)' <=> Passed(o, names) \/ name \in names
  BY <1>2 DEF Passed, Before
<1>4. \A next : At(o, next)' => step[o] + 1 \in 1..Len(p) /\ p[step[o] + 1] = next
  BY <1>2 DEF At, Running
<1> HIDE DEF p
<1> QED
  BY <1>1, <1>2, <1>3, <1>4 DEF WellOrdered

ReadNames == {"readCompute", "readAttachment", "readParts", "readEntry"}

\* An update or a call that succeeds establishes what the next steps rely on.
LEMMA AdvancingKeeps ==
  ASSUME DeliveryInvariant, Grown, NEW o \in Operations, NEW name, At(o, name),
         name \notin ReadNames, step'[o] = step[o] + 1, seen'[o] = seen[o],
         name = "createClaim" => claimName(Target[o].storage) \in claims',
         name = "mount" => seen[o].attachment.compute # None,
         name = "putRoute" => gateway'[Target[o].entry] # None
  PROVE  SeenOf(o)' /\ StepsOf(o)'
<1> USE DEF DeliveryInvariant, TypeOK
<1>1. /\ \A names : Passed(o, names)' <=> Passed(o, names) \/ name \in names
      /\ At(o, "attachmentRow")' => name = "mount"
      /\ At(o, "entryRow")' => name = "putRoute"
  BY PassedNext
<1>2. SeenOf(o) /\ StepsOf(o)
  BY DEF SeenBacked, StepsBacked
<1>3. SeenOf(o)'
  <2>1. Passed(o, EntryReads) => Target[o].entry \in Ids("entry")
    BY EntryReadersReach
  <2>2. name \notin ComputeReads \cup AttachmentReads \cup EntryReads
    BY DEF ReadNames, ComputeReads, AttachmentReads, EntryReads
  <2> QED
    BY <1>1, <1>2, <2>1, <2>2
       DEF SeenOf, Grown, ComputeRowBacked, AttachmentRowBacked, EntryRowBacked,
           ComputeRows, AttachmentRows, EntryRows, Names, Claims, Ids
<1>4. StepsOf(o)'
  BY <1>1, <1>2 DEF StepsOf, Grown, ClaimCalls
<1> QED
  BY <1>3, <1>4

\* What a call leaves behind for the steps after it.
LEMMA CallEstablishes ==
  ASSUME DeliveryInvariant, NEW o \in Operations, Call(o)
  PROVE  \E name :
           /\ At(o, name) /\ name \notin ReadNames
           /\ name = "createClaim" => claimName(Target[o].storage) \in claims'
           /\ name = "mount" => seen[o].attachment.compute # None
           /\ name = "putRoute" => gateway'[Target[o].entry] # None
<1> USE DEF DeliveryInvariant, TypeOK, ReadNames
<1>1. CASE CreateClaim(o)
  BY <1>1 DEF CreateClaim
<1>2. CASE DeleteClaim(o)
  BY <1>2 DEF DeleteClaim
<1>3. CASE EnsureSecret(o)
  BY <1>3 DEF EnsureSecret
<1>4. CASE EnsureDeployment(o) \/ EnsureService(o)
  BY <1>4 DEF EnsureDeployment, EnsureService
<1>5. CASE Mount(o)
  <2>1. OrBare(seen[o].attachment.compute, Target[o].compute) \in Names
    BY <1>5 DEF Mount, ClusterTypeOK
  <2>2. seen[o].attachment.compute # None
    BY <2>1 DEF OrBare, bareName, Names, k8sName
  <2> QED
    BY <1>5, <2>2 DEF Mount
<1>6. CASE Unmount(o)
  BY <1>6 DEF Unmount
<1>7. CASE PutRoute(o)
  <2> DEFINE e == Target[o].entry
  <2>1. e \in Ids("entry")
    BY <1>7, StepReaches DEF PutRoute, StepsOn, Parts
  <2>2. gateway'[e] = OrBare(seen[o].entry.service, e)
    BY <1>7, <2>1 DEF PutRoute, ClusterTypeOK, Routes
  <2>3. gateway'[e] # None
    BY <2>1, <2>2, NoneAssumption DEF OrBare, Parts
  <2> QED
    BY <1>7, <2>3 DEF PutRoute
<1>8. CASE DeleteDeployment(o)
  BY <1>8 DEF DeleteDeployment
<1>9. CASE DeleteService(o) \/ DeleteSecret(o)
  BY <1>9 DEF DeleteService, DeleteSecret
<1> QED
  BY <1>1, <1>2, <1>3, <1>4, <1>5, <1>6, <1>7, <1>8, <1>9 DEF Call

UpdateNames ==
  {"storageRow", "storageGoneRow", "resolvePool", "computeRow", "destroyedRow",
   "linkAttachment", "attachmentRow", "detachedRow", "linkEntry", "entryRow",
   "provisioning", "workspaceRow"}

\* An update is a step of a program.
LEMMA UpdateNamed ==
  ASSUME NEW o \in Operations, WriteRow(o)
  PROVE  \E name \in UpdateNames : At(o, name)
  BY DEF WriteRow, StorageRow, ComputeRow, AttachmentRow, EntryRow, WorkspaceRow, UpdateNames

SeenRecords ==
  [compute : ComputeRows \cup {None}, attachment : AttachmentRows \cup {None},
   entry : EntryRows \cup {None}, gateway : Routes \cup {None}]

\* A read takes over the rows it is about and leaves the rest of what was read.
LEMMA ReadEffect ==
  ASSUME TypeOK, NEW o \in Operations, Read(o)
  PROVE  \E name \in ReadNames :
           /\ At(o, name)
           /\ seen' \in [Operations -> SeenRecords]
           /\ \A p \in Operations \ {o} : seen'[p] = seen[p]
           /\ IF name \in ComputeReads
              THEN /\ Target[o].compute \in Ids("compute")
                   /\ seen'[o].compute = computes[Target[o].compute]
              ELSE seen'[o].compute = seen[o].compute
           /\ IF name \in AttachmentReads
              THEN /\ Target[o].attachment \in Ids("attachment")
                   /\ seen'[o].attachment = attachments[Target[o].attachment]
              ELSE seen'[o].attachment = seen[o].attachment
           /\ IF name \in EntryReads
              THEN /\ Target[o].entry \in Ids("entry")
                   /\ seen'[o].entry = entries[Target[o].entry]
              ELSE seen'[o].entry = seen[o].entry
<1> USE DEF TypeOK, ReadNames, ComputeReads, AttachmentReads, EntryReads
<1>1. seen \in [Operations -> SeenRecords]
  BY DEF LocalTypeOK, SeenRecords
<1>2. CASE At(o, "readCompute") /\ Remember(o, "compute", computes[Target[o].compute])
  <2>1. Target[o].compute \in Ids("compute")
    BY <1>2, StepReaches DEF StepsOn, Parts
  <2>2. computes[Target[o].compute] \in ComputeRows
    BY <2>1 DEF RowsTypeOK
  <2> QED
    BY <1>1, <1>2, <2>1, <2>2 DEF Remember, SeenRecords
<1>3. CASE /\ At(o, "readAttachment")
           /\ Remember(o, "attachment", attachments[Target[o].attachment])
  <2>1. Target[o].attachment \in Ids("attachment")
    BY <1>3, StepReaches DEF StepsOn, Parts
  <2>2. attachments[Target[o].attachment] \in AttachmentRows
    BY <2>1 DEF RowsTypeOK
  <2> QED
    BY <1>1, <1>3, <2>1, <2>2 DEF Remember, SeenRecords
<1>4. CASE /\ At(o, "readParts")
           /\ seen' = [seen EXCEPT ![o].compute = computes[Target[o].compute],
                                   ![o].attachment = attachments[Target[o].attachment]]
  <2>1. Target[o].compute \in Ids("compute") /\ Target[o].attachment \in Ids("attachment")
    BY <1>4, StepReaches DEF StepsOn, Parts
  <2>2. /\ computes[Target[o].compute] \in ComputeRows
        /\ attachments[Target[o].attachment] \in AttachmentRows
    BY <2>1 DEF RowsTypeOK
  <2> QED
    BY <1>1, <1>4, <2>1, <2>2 DEF SeenRecords
<1>5. CASE /\ At(o, "readEntry")
           /\ seen' = [seen EXCEPT ![o].entry = entries[Target[o].entry],
                                   ![o].gateway = gateway]
  <2>1. Target[o].entry \in Ids("entry")
    BY <1>5, StepReaches DEF StepsOn, Parts
  <2>2. entries[Target[o].entry] \in EntryRows /\ gateway \in Routes
    BY <2>1 DEF RowsTypeOK, ClusterTypeOK
  <2> QED
    BY <1>1, <1>5, <2>1, <2>2 DEF SeenRecords
<1> QED
  BY <1>2, <1>3, <1>4, <1>5 DEF Read

\* What has just been read is true of the cluster, as the rows are.
LEMMA ReadingKeeps ==
  ASSUME DeliveryInvariant, NEW o \in Operations, Read(o),
         step'[o] = step[o] + 1, UNCHANGED <<rows, cluster>>
  PROVE  SeenOf(o)' /\ StepsOf(o)'
<1>1. SeenOf(o) /\ StepsOf(o) /\ RowsBacked /\ RowsTypeOK
  BY DEF DeliveryInvariant, TypeOK, SeenBacked, StepsBacked
<1>2. UNCHANGED <<claims, gateway>>
  BY DEF cluster
<1>3. PICK name \in ReadNames :
        /\ At(o, name)
        /\ IF name \in ComputeReads
           THEN /\ Target[o].compute \in Ids("compute")
                /\ seen'[o].compute = computes[Target[o].compute]
           ELSE seen'[o].compute = seen[o].compute
        /\ IF name \in AttachmentReads
           THEN /\ Target[o].attachment \in Ids("attachment")
                /\ seen'[o].attachment = attachments[Target[o].attachment]
           ELSE seen'[o].attachment = seen[o].attachment
        /\ IF name \in EntryReads
           THEN /\ Target[o].entry \in Ids("entry")
                /\ seen'[o].entry = entries[Target[o].entry]
           ELSE seen'[o].entry = seen[o].entry
  BY ReadEffect DEF DeliveryInvariant
<1>4. /\ \A names : Passed(o, names)' <=> Passed(o, names) \/ name \in names
      /\ ~At(o, "attachmentRow")' /\ ~At(o, "entryRow")'
  BY <1>3, PassedNext DEF ReadNames, DeliveryInvariant, TypeOK
<1>5. Passed(o, ComputeReads)' =>
        (seen[o].compute \in ComputeRows /\ ComputeRowBacked(seen[o].compute))'
  BY <1>1, <1>3, <1>4 DEF SeenOf, RowsBacked, RowsTypeOK, ComputeRowBacked, ComputeRows
<1>6. Passed(o, AttachmentReads)' =>
        (seen[o].attachment \in AttachmentRows /\ AttachmentRowBacked(seen[o].attachment))'
  BY <1>1, <1>2, <1>3, <1>4
     DEF SeenOf, RowsBacked, RowsTypeOK, AttachmentRowBacked, AttachmentRows, Names, Claims, Ids
<1>7. Passed(o, EntryReads)' =>
        (seen[o].entry \in EntryRows /\ EntryRowBacked(seen[o].entry, Target[o].entry))'
  BY <1>1, <1>2, <1>3, <1>4
     DEF SeenOf, RowsBacked, RowsTypeOK, EntryRowBacked, EntryRows, Names, Ids
<1>8. StepsOf(o)'
  BY <1>1, <1>2, <1>3, <1>4 DEF StepsOf, ReadNames, ClaimCalls
<1> QED
  BY <1>5, <1>6, <1>7, <1>8 DEF SeenOf

\* The four ways a step moves the operation it is about.
Starting(o) == Queue!Start(o) /\ step' = [step EXCEPT ![o] = 1] /\ UNCHANGED local

Moving(o) ==
  /\ step' = [step EXCEPT ![o] = @ + 1]
  /\ UNCHANGED queue
  /\ \E name : At(o, name)

Leaving(o) ==
  /\ UNCHANGED queue \/ Queue!Complete(o) \/ Queue!CountFailure(o) \/ Queue!Abandon(o)
  /\ Leave(o)

\* Status, tries and positions keep their types.
LEMMA AttemptsTyped ==
  ASSUME AttemptsTypeOK, NEW o \in Operations, Starting(o) \/ Moving(o) \/ Leaving(o)
  PROVE  AttemptsTypeOK'
<1> USE DEF AttemptsTypeOK, Running, Queue!Statuses
<1>1. \A p \in Operations : Len(Program[Kind[p]]) \in Nat
  BY StepsInOrder
<1>2. CASE Starting(o)
  BY <1>1, <1>2 DEF Starting, Queue!Start, Queue!SetStatus
<1>3. CASE Moving(o)
  BY <1>1, <1>3 DEF Moving, At, queue
<1>4. CASE Leaving(o)
  <2>1. step' = [step EXCEPT ![o] = 0]
    BY <1>4 DEF Leaving, Leave
  <2>2. CASE UNCHANGED queue
    BY <1>1, <2>1, <2>2 DEF queue
  <2>3. CASE Queue!Complete(o)
    BY <1>1, <2>1, <2>3 DEF Queue!Complete, Queue!SetStatus
  <2>4. CASE Queue!CountFailure(o)
    BY <1>1, <2>1, <2>4, FaultsAssumption DEF Queue!CountFailure, Queue!SetStatus
  <2>5. CASE Queue!Abandon(o)
    BY <1>1, <2>1, <2>5 DEF Queue!Abandon, Queue!SetStatus
  <2> QED
    BY <1>4, <2>2, <2>3, <2>4, <2>5 DEF Leaving
<1> QED
  BY <1>2, <1>3, <1>4

\* A step of one operation: it starts, reads, advances or leaves, and the others wait.
LEMMA LocalStateKept ==
  ASSUME DeliveryInvariant, [Next]_vars, Grown
  PROVE  AttemptsTypeOK' /\ LocalTypeOK' /\ SeenBacked' /\ StepsBacked'
<1> USE DEF DeliveryInvariant, TypeOK
<1>1. /\ seen \in [Operations -> SeenRecords] /\ step \in [Operations -> Nat]
      /\ madeSecret \subseteq Operations /\ intact \subseteq Operations
  BY DEF LocalTypeOK, SeenRecords, AttemptsTypeOK
<1>2. ASSUME seen' \in [Operations -> SeenRecords],
             madeSecret' \subseteq Operations, intact' \subseteq Operations
      PROVE  LocalTypeOK'
  BY <1>2 DEF LocalTypeOK, SeenRecords, ComputeRows, AttachmentRows, EntryRows, Routes,
              Names, Claims, ServiceNames, Ids
<1>3. ASSUME NEW o \in Operations, SeenOf(o)' /\ StepsOf(o)',
             \A p \in Operations \ {o} : step'[p] = step[p] /\ seen'[p] = seen[p]
      PROVE  SeenBacked' /\ StepsBacked'
  BY <1>3, WaitingKeeps DEF SeenBacked, StepsBacked
<1>4. CASE UNCHANGED vars
  <2>1. UNCHANGED <<step, seen, status, tries, madeSecret, intact>>
    BY <1>4 DEF vars, queue, local
  <2> QED
    BY <1>1, <1>2, <2>1, WaitingKeeps
       DEF SeenBacked, StepsBacked, AttemptsTypeOK, Running
<1>5. ASSUME NEW o \in Operations, Start(o)
      PROVE  AttemptsTypeOK' /\ LocalTypeOK' /\ SeenBacked' /\ StepsBacked'
  <2>1. Starting(o) /\ intact' \subseteq Operations
    BY <1>1, <1>5 DEF Start, Starting
  <2>2. LocalTypeOK'
    BY <1>1, <1>2, <2>1 DEF Starting, local
  <2>3. SeenOf(o)' /\ StepsOf(o)'
    BY <1>1, <2>1, StartingKeeps DEF Starting
  <2> QED
    BY <1>1, <1>3, <2>1, <2>2, <2>3, AttemptsTyped DEF Starting, local
<1>6. ASSUME NEW o \in Operations, Leaving(o), intact' \subseteq Operations
      PROVE  AttemptsTypeOK' /\ LocalTypeOK' /\ SeenBacked' /\ StepsBacked'
  <2>1. /\ step' = [step EXCEPT ![o] = 0]
        /\ seen' = [seen EXCEPT ![o] = Nothing]
        /\ madeSecret' \subseteq Operations
    BY <1>1, <1>6 DEF Leaving, Leave
  <2>2. Nothing \in SeenRecords
    BY DEF Nothing, SeenRecords
  <2>3. LocalTypeOK'
    BY <1>1, <1>2, <1>6, <2>1, <2>2
  <2>4. SeenOf(o)' /\ StepsOf(o)'
    BY <1>1, <2>1, StartingKeeps
  <2> QED
    BY <1>1, <1>3, <1>6, <2>1, <2>3, <2>4, AttemptsTyped
<1>7. ASSUME NEW o \in Operations, Reads(o)
      PROVE  AttemptsTypeOK' /\ LocalTypeOK' /\ SeenBacked' /\ StepsBacked'
  <2>1. /\ Read(o) /\ step' = [step EXCEPT ![o] = @ + 1] /\ step'[o] = step[o] + 1
        /\ UNCHANGED <<rows, cluster>> /\ UNCHANGED <<madeSecret, intact>>
        /\ UNCHANGED queue
    BY <1>1, <1>7 DEF Reads, Advance
  <2>2. /\ Moving(o) /\ seen' \in [Operations -> SeenRecords]
        /\ \A p \in Operations \ {o} : seen'[p] = seen[p]
    BY <2>1, ReadEffect DEF Moving
  <2>3. LocalTypeOK'
    BY <1>1, <1>2, <2>1, <2>2
  <2>4. SeenOf(o)' /\ StepsOf(o)'
    BY <2>1, ReadingKeeps
  <2> QED
    BY <1>1, <1>3, <2>1, <2>2, <2>3, <2>4, AttemptsTyped
<1>8. ASSUME NEW o \in Operations, Writes(o) \/ Calls(o)
      PROVE  AttemptsTypeOK' /\ LocalTypeOK' /\ SeenBacked' /\ StepsBacked'
  <2>1. /\ step' = [step EXCEPT ![o] = @ + 1] /\ step'[o] = step[o] + 1
        /\ UNCHANGED seen /\ UNCHANGED queue
        /\ madeSecret' \subseteq Operations /\ intact' \subseteq Operations
    BY <1>1, <1>8 DEF Writes, Calls, Advance, local
  <2>2. \E name :
          /\ At(o, name) /\ name \notin ReadNames
          /\ name = "createClaim" => claimName(Target[o].storage) \in claims'
          /\ name = "mount" => seen[o].attachment.compute # None
          /\ name = "putRoute" => gateway'[Target[o].entry] # None
    BY <1>8, CallEstablishes, UpdateNamed DEF Writes, Calls, UpdateNames, ReadNames
  <2>3. SeenOf(o)' /\ StepsOf(o)'
    BY <2>1, <2>2, AdvancingKeeps
  <2>4. LocalTypeOK'
    BY <1>1, <1>2, <2>1
  <2> QED
    BY <1>1, <1>3, <2>1, <2>2, <2>3, <2>4, AttemptsTyped DEF Moving
<1>9. ASSUME NEW o \in Operations,
             \/ Succeed(o) \/ StepFails(o) \/ StepLost(o)
             \/ EnsureDeploymentFails(o) \/ EnsureServiceFails(o) \/ Crash(o)
      PROVE  Leaving(o) /\ intact' \subseteq Operations
  BY <1>1, <1>9 DEF Succeed, StepFails, StepLost, EnsureDeploymentFails, EnsureServiceFails,
                    Crash, FailAttempt, Leaving
<1> QED
  BY <1>4, <1>5, <1>6, <1>7, <1>8, <1>9 DEF Next

-----------------------------------------------------------------------------
\* The invariant holds at the start ...
LEMMA DeliveryInvariantInitially == Init => DeliveryInvariant
<1> SUFFICES ASSUME Init
             PROVE  DeliveryInvariant
  OBVIOUS
<1>1. AttemptsTypeOK
  <2>1. \A o \in Operations : Len(Program[Kind[o]]) \in Nat
    BY ProgramsWellOrdered, TargetAssumption DEF WellOrdered
  <2> QED
    BY <2>1, FaultsAssumption DEF Init, AttemptsTypeOK, Running, Queue!Statuses
<1>2. RowsTypeOK
  BY DEF Init, RowsTypeOK, StorageRows, ComputeRows, AttachmentRows, EntryRows
<1>3. ClusterTypeOK
  BY DEF Init, ClusterTypeOK, Routes
<1>4. LocalTypeOK
  BY DEF Init, LocalTypeOK, Nothing
<1>5. RowsBacked
  BY DEF Init, RowsBacked, ComputeRowBacked, AttachmentRowBacked, EntryRowBacked
<1>6. SeenBacked /\ StepsBacked
  BY DEF Init, SeenBacked, StepsBacked, SeenOf, StepsOf, Passed, Before, At, Running
<1> QED
  BY <1>1, <1>2, <1>3, <1>4, <1>5, <1>6 DEF DeliveryInvariant, TypeOK

\* ... is kept by every step ...
LEMMA DeliveryInvariantKept ==
  ASSUME DeliveryInvariant, [Next]_vars
  PROVE  DeliveryInvariant'
  BY SharedStateKept, LocalStateKept DEF DeliveryInvariant, TypeOK

\* ... and so holds always.
LEMMA DeliveryInvariantHolds == Spec => []DeliveryInvariant
  BY DeliveryInvariantInitially, DeliveryInvariantKept, PTL DEF Spec

\* Every row, object, route and local variable of the workers has its type: no call
\* or statement is ever given a name or a row of another kind.
THEOREM DeliveryTypeCorrect == Spec => []TypeOK
  BY DeliveryInvariantHolds, PTL DEF DeliveryInvariant

\* Rows never run ahead of the cluster (Orchestrator.apply): whatever fails, ends or
\* runs at the same time, an available volume has its claim, a ready entry its route,
\* an attachment names only claims that exist, and a running compute has its refs.
THEOREM RowsAlwaysFollowCluster == Spec => []RowsFollowCluster
<1>1. DeliveryInvariant => RowsFollowCluster
  BY TargetAssumption
     DEF DeliveryInvariant, TypeOK, RowsTypeOK, RowsBacked, RowsFollowCluster,
         ComputeRowBacked, AttachmentRowBacked, EntryRowBacked, Ids, Parts
<1> QED
  BY <1>1, DeliveryInvariantHolds, PTL

\* Compute destruction never destroys storage (docs/invariants.md): no step of any
\* operation, with its failures, cleanups and crashes, deletes a claim or takes an
\* available volume out of service.
THEOREM StorageAlwaysSurvives == Spec => StorageSurvives
<1>1. ASSUME DeliveryInvariant, [Next]_vars
      PROVE  /\ claims \subseteq claims'
             /\ \A s \in Ids("storage") :
                  storages[s].state = "available" => storages'[s] = storages[s]
  <2>1. claims \subseteq claims'
    BY <1>1, SharedStateKept DEF Grown
  <2>2. \/ UNCHANGED storages
        \/ \E o \in Operations : SetStorage(o, [state |-> "available", ref |-> TRUE])
    BY <1>1 DEF Next, vars, rows, Start, Reads, Writes, Calls, Succeed, StepFails, StepLost,
                EnsureDeploymentFails, EnsureServiceFails, Crash, Call, WriteRow, StorageRow,
                ComputeRow, AttachmentRow, EntryRow, WorkspaceRow, Retained
  <2>3. \A s \in Ids("storage") :
          storages[s].state = "available" =>
            storages[s] = [state |-> "available", ref |-> TRUE]
    BY <1>1 DEF DeliveryInvariant, TypeOK, RowsTypeOK, RowsBacked, StorageRows
  <2>4. storages \in [Ids("storage") -> StorageRows]
    BY <1>1 DEF DeliveryInvariant, TypeOK, RowsTypeOK
  <2> QED
    BY <2>1, <2>2, <2>3, <2>4 DEF SetStorage
<1> QED
  BY <1>1, DeliveryInvariantHolds, PTL DEF Spec, StorageSurvives

\* Destroying compute must not delete the URL record (README.md): no step of any
\* operation, and no two workers that update the shared Ingress, lose a route.
THEOREM RoutesAreKept == Spec => RoutesKept
<1>1. ASSUME DeliveryInvariant, [Next]_vars
      PROVE  \A e \in Ids("entry") : gateway[e] # None => gateway'[e] # None
  BY <1>1, SharedStateKept DEF Grown
<1> QED
  BY <1>1, DeliveryInvariantHolds, PTL DEF Spec, RoutesKept
=============================================================================
