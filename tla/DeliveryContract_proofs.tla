------------------------ MODULE DeliveryContract_proofs ------------------------
(* Delivery keeps the promise of WorkspaceContract: a refinement, for any        *)
(* operations, number of workers, retry limit, Role and faults.                  *)
EXTENDS DeliverySuccess_proofs

\* The service an entry may name: none, or that of a compute it may lead to.
ServiceOf(r, e) ==
  r.service = None \/ \E c \in Ids("compute") : <<e, c>> \in Fronts /\ r.service = k8sName(c)

\* An entry row, in its table or in a worker's hands, names nothing else.
EntriesNamed ==
  /\ \A e \in Ids("entry") : ServiceOf(entries[e], e)
  /\ \A o \in Operations :
       Passed(o, EntryReads) => ServiceOf(seen[o].entry, Target[o].entry)

\* What a workspace operation has behind it, also one that others interfere with.
WorkspaceBehind(o) ==
  Kind[o] = "workspace" =>
    /\ step[o] > 3 => storages[Target[o].storage].state = "available"
    /\ step[o] > 20 => gateway[Target[o].entry] # None

PromiseInvariant == EntriesNamed /\ \A o \in Operations : WorkspaceBehind(o)

\* A step of the promise, or a stutter.
Promised == [Promise!ContractNext]_(Promise!contractVars)

-----------------------------------------------------------------------------
(* PromiseInvariant is inductive.                                              *)

\* What is written to an entry row: its own name or none.
LEMMA EntryWritten ==
  ASSUME DeliveryInvariant, EntriesNamed, NEW o \in Operations, EntryRow(o)
  PROVE  /\ Target[o].entry \in Ids("entry")
         /\ \E row : ServiceOf(row, Target[o].entry) /\ SetEntry(o, row)
<1> USE DEF DeliveryInvariant, TypeOK, ServiceOf
<1>0. Target[o].entry \in Ids("entry") /\ Passed(o, EntryReads)
  BY StepsInOrder, StepReaches DEF EntryRow, StepsOn, Parts
<1>1. ServiceOf(seen[o].entry, Target[o].entry) /\ seen[o].entry \in EntryRows
  BY <1>0 DEF EntriesNamed, SeenBacked, SeenOf
<1>2. CASE At(o, "linkEntry")
  <2> DEFINE name == IF seen[o].compute.refs THEN k8sName(Target[o].compute) ELSE None
             row == [seen[o].entry EXCEPT !.service = name]
  <2>1. Target[o].compute \in Ids("compute")
    BY <1>2, StepReaches DEF StepsOn, Parts
  <2>2. <<Target[o].entry, Target[o].compute>> \in Fronts
    BY <1>0, <2>1 DEF Fronts
  <2>3. SetEntry(o, row) /\ row.service = name
    BY <1>1, <1>2 DEF EntryRow, At, EntryRows
  <2> QED BY <1>0, <2>1, <2>2, <2>3
<1>3. CASE At(o, "entryRow")
  <2> DEFINE row == [seen[o].entry EXCEPT !.state = "ready"]
  <2>1. SetEntry(o, row) /\ row.service = seen[o].entry.service
    BY <1>1, <1>3 DEF EntryRow, At, EntryRows
  <2> QED BY <1>0, <1>1, <2>1
<1> QED BY <1>2, <1>3 DEF EntryRow

\* Entry rows keep naming computes they may lead to.
LEMMA EntriesStayNamed ==
  ASSUME DeliveryInvariant, EntriesNamed, NEW p \in Operations, Effect(p)
  PROVE  \A e \in Ids("entry") : ServiceOf(entries'[e], e)
<1>1. CASE UNCHANGED entries
  BY <1>1 DEF EntriesNamed
<1>2. CASE EntryRow(p)
  <2>1. PICK row : ServiceOf(row, Target[p].entry) /\ SetEntry(p, row)
    BY <1>2, EntryWritten
  <2> QED
    BY <2>1 DEF SetEntry, EntriesNamed, DeliveryInvariant, TypeOK, RowsTypeOK
<1> QED
  BY <1>1, <1>2
     DEF Effect, rows, WriteRow, Call, StorageRow, ComputeRow, AttachmentRow, WorkspaceRow

\* So do the copies that workers hold.
LEMMA EntryCopiesNamed ==
  ASSUME DeliveryInvariant, EntriesNamed, NEW p \in Operations,
         Start(p) \/ Goes(p) \/ Succeed(p) \/ Fails(p),
         NEW o \in Operations, Passed(o, EntryReads)'
  PROVE  ServiceOf(seen'[o].entry, Target[o].entry)
<1> USE DEF DeliveryInvariant, TypeOK
<1>1. CASE o # p
  <2>1. step'[o] = step[o] /\ seen'[o] = seen[o]
    BY <1>1, OthersWait
  <2> QED BY <2>1 DEF Passed, EntriesNamed
<1>2. CASE o = p /\ Reads(o)
  <2>1. PICK name \in ReadNames :
          /\ At(o, name)
          /\ IF name \in EntryReads
             THEN /\ Target[o].entry \in Ids("entry")
                  /\ seen'[o].entry = entries[Target[o].entry]
             ELSE seen'[o].entry = seen[o].entry
    BY <1>2, ReadEffect DEF Reads
  <2>2. step'[o] = step[o] + 1
    BY <1>2, GoesFurther DEF Goes
  <2>3. Passed(o, EntryReads) \/ name \in EntryReads
    BY <2>1, <2>2, PassedNext
  <2> QED BY <2>1, <2>3 DEF EntriesNamed
<1>3. CASE o = p /\ (Writes(o) \/ Calls(o))
  <2>1. step'[o] = step[o] + 1 /\ seen'[o] = seen[o]
    BY <1>3, GoesFurther DEF Goes, Writes, Calls, local
  <2>2. PICK name : At(o, name) /\ name \notin ReadNames
    BY <1>3, UpdateNamed, CallEstablishes DEF Writes, Calls, UpdateNames, ReadNames
  <2>3. Passed(o, EntryReads)
    BY <2>1, <2>2, PassedNext DEF ReadNames, EntryReads
  <2> QED BY <2>1, <2>3 DEF EntriesNamed
<1>4. CASE o = p /\ ~Goes(p)
  <2>1. step'[o] \in {0, 1}
    BY <1>4 DEF Start, Succeed, Fails, StepFails, StepLost, EnsureDeploymentFails,
                EnsureServiceFails, Crash, FailAttempt, Leave, AttemptsTypeOK
  <2> QED BY <2>1 DEF Passed, Before
<1> QED BY <1>1, <1>2, <1>3, <1>4 DEF Goes

\* Volumes that are available stay so (StorageSurvives).
LEMMA AvailableStays ==
  ASSUME DeliveryInvariant, NEW p \in Operations, Effect(p)
  PROVE  \A s \in Ids("storage") :
           storages[s].state = "available" => storages'[s].state = "available"
<1>1. \/ UNCHANGED storages
      \/ SetStorage(p, [state |-> "available", ref |-> TRUE])
  BY DEF Effect, rows, Call, WriteRow, StorageRow, ComputeRow, AttachmentRow, EntryRow,
         WorkspaceRow, Retained
<1> QED BY <1>1 DEF SetStorage, DeliveryInvariant, TypeOK, RowsTypeOK

\* The program of a workspace writes the storage row before its other rows, and puts
\* the route before the last two.
LEMMA WorkspaceBehindKept ==
  ASSUME DeliveryInvariant, Grown, NEW p \in Operations, NEW o \in Operations,
         Start(p) \/ Goes(p) \/ Succeed(p) \/ Fails(p), WorkspaceBehind(o)
  PROVE  WorkspaceBehind(o)'
<1> SUFFICES ASSUME Kind[o] = "workspace"
             PROVE  /\ step'[o] > 3 => storages'[Target[o].storage].state = "available"
                    /\ step'[o] > 20 => gateway'[Target[o].entry] # None
  BY DEF WorkspaceBehind
<1>1. Target[o].storage \in Ids("storage") /\ Target[o].entry \in Ids("entry")
  BY WorkspaceReaches
<1>2. \A s \in Ids("storage") :
        storages[s].state = "available" => storages'[s].state = "available"
  BY StepEffect, AvailableStays DEF Start, rows
<1>3. CASE step'[o] = step[o]
  BY <1>1, <1>2, <1>3 DEF WorkspaceBehind, Grown
<1>4. CASE step'[o] \in {0, 1}
  BY <1>4
<1>5. CASE o = p /\ Goes(o)
  <2>1. step'[o] = step[o] + 1 /\ step[o] \in 1..22
    BY <1>5, GoesFurther, WorkspaceReaches
  <2>2. step[o] = 3 => storages'[Target[o].storage].state = "available"
    BY <1>1, <1>5, <2>1, OwnRowsChange, WorkspacePlaces
       DEF OwnRows, SetStorage, DeliveryInvariant, TypeOK, RowsTypeOK
  <2>3. step[o] = 20 => gateway'[Target[o].entry] # None
    <3>1. SUFFICES ASSUME step[o] = 20 PROVE gateway'[Target[o].entry] # None
      OBVIOUS
    <3>2. At(o, "putRoute") /\ PutRoute(o)
      BY <1>5, <2>1, <3>1, OwnObjectsChange, WorkspacePlaces DEF OwnObjects
    <3>3. gateway'[Target[o].entry] = OrBare(seen[o].entry.service, Target[o].entry)
      BY <1>1, <3>2 DEF PutRoute, DeliveryInvariant, TypeOK, ClusterTypeOK, Routes
    <3> QED BY <1>1, <3>3, NoneAssumption DEF OrBare, Parts
  <2> QED BY <1>1, <1>2, <2>1, <2>2, <2>3 DEF WorkspaceBehind, Grown
<1>6. o # p => step'[o] = step[o]
  BY OthersWait DEF DeliveryInvariant
<1>7. o = p /\ ~Goes(p) => step'[o] \in {0, 1}
  BY DEF Start, Succeed, Fails, StepFails, StepLost, EnsureDeploymentFails,
         EnsureServiceFails, Crash, FailAttempt, Leave, DeliveryInvariant, TypeOK,
         AttemptsTypeOK
<1> QED BY <1>3, <1>4, <1>5, <1>6, <1>7

\* PromiseInvariant is inductive, on top of DeliveryInvariant.
LEMMA PromiseInvariantKept ==
  ASSUME DeliveryInvariant, PromiseInvariant, [Next]_vars
  PROVE  PromiseInvariant'
<1>1. CASE UNCHANGED vars
  BY <1>1 DEF vars, rows, cluster, local, PromiseInvariant, EntriesNamed, ServiceOf, Passed,
              WorkspaceBehind, Ids, Fronts
<1>2. ASSUME NEW p \in Operations, Start(p) \/ Goes(p) \/ Succeed(p) \/ Fails(p)
      PROVE  PromiseInvariant'
  <2>1. Grown
    BY SharedStateKept
  <2>2. \A e \in Ids("entry") : ServiceOf(entries'[e], e)
    BY <1>2, StepEffect, EntriesStayNamed DEF PromiseInvariant, Start, rows, EntriesNamed
  <2>3. \A o \in Operations :
          Passed(o, EntryReads)' => ServiceOf(seen'[o].entry, Target[o].entry)
    BY <1>2, EntryCopiesNamed DEF PromiseInvariant
  <2>4. \A o \in Operations : WorkspaceBehind(o)'
    BY <1>2, <2>1, WorkspaceBehindKept DEF PromiseInvariant
  <2> QED BY <2>2, <2>3, <2>4 DEF PromiseInvariant, EntriesNamed, ServiceOf, Fronts, Ids
<1> QED BY <1>1, <1>2 DEF Next, Goes, Fails

-----------------------------------------------------------------------------
(* The steps, as the promise sees them.                                        *)

\* The promise sees claims, Deployments and their volumes, the gateway, which volumes
\* are available and which workspaces run.
LEMMA InvisibleStep ==
  ASSUME UNCHANGED <<claims, deployments, mounted, gateway>>,
         UNCHANGED <<storages, workspaces>>
  PROVE  Promised
BY DEF Promised, Promise!contractVars, Volumes, Offered, Apps, Disks, Urls, Leads, Open, Ids

\* Identifiers with one name are one identifier, and a Service named after an entry is no
\* compute's.
LEMMA NamesDiffer ==
  /\ \A c, d : k8sName(c) = k8sName(d) => c = d
  /\ \A s, t : claimName(s) = claimName(t) => s = t
  /\ \A c, e : k8sName(c) # bareName(e)
BY DEF k8sName, claimName, bareName

\* The rows: an available volume has its claim; a workspace runs over a volume and an
\* address.
LEMMA RowRefines ==
  ASSUME DeliveryInvariant, PromiseInvariant, NEW o \in Operations, WriteRow(o)
  PROVE  Promised
<1> USE DEF DeliveryInvariant, TypeOK
<1>1. UNCHANGED <<claims, deployments, mounted, gateway>>
  BY DEF WriteRow, cluster
<1>2. UNCHANGED <<Volumes, Apps, Disks, Urls, Leads>>
  BY <1>1 DEF Volumes, Apps, Disks, Urls, Leads, Ids
<1>3. CASE StorageRow(o) /\ storages' # storages
  <2>1. At(o, "storageRow") /\ SetStorage(o, [state |-> "available", ref |-> TRUE])
    BY <1>3 DEF StorageRow, Retained
  <2>2. Target[o].storage \in Ids("storage") /\ claimName(Target[o].storage) \in claims
    BY <2>1, StepReaches, StepsInOrder DEF StepsOn, Parts, StepsBacked, StepsOf
  <2>3. Offered' = Offered \cup {Target[o].storage}
    BY <2>1, <2>2 DEF Offered, SetStorage, RowsTypeOK, Ids
  <2>4. Target[o].storage \in Volumes
    BY <2>2 DEF Volumes
  <2>5. Open' = Open
    BY <1>3 DEF StorageRow, Open, Ids
  <2>6. Promise!Offer(Target[o].storage)
    BY <1>2, <2>3, <2>4, <2>5 DEF Promise!Offer
  <2> QED BY <2>2, <2>6 DEF Promised, Promise!ContractNext
<1>4. CASE WorkspaceRow(o) /\ At(o, "provisioning")
  <2>1. Target[o].workspace \in Ids("workspace")
    BY <1>4, StepReaches DEF StepsOn, Parts
  <2>2. SetWorkspace(o, "provisioning") /\ UNCHANGED storages
    BY <1>4 DEF WorkspaceRow, At
  <2>3. Open' = Open \ {Target[o].workspace}
    BY <2>1, <2>2 DEF Open, SetWorkspace, RowsTypeOK, Ids
  <2>4. Offered' = Offered
    BY <2>2 DEF Offered, Ids
  <2>5. Promise!Close(Target[o].workspace)
    BY <1>2, <2>3, <2>4 DEF Promise!Close
  <2> QED BY <2>1, <2>5 DEF Promised, Promise!ContractNext
<1>5. CASE WorkspaceRow(o) /\ At(o, "workspaceRow")
  <2> DEFINE w == Target[o].workspace
             s == Target[o].storage
             e == Target[o].entry
  <2>1. w \in Ids("workspace") /\ "workspace" \in Needs[Kind[o]]
    <3>1. step[o] \in 1..Len(Program[Kind[o]]) /\ Kind[o] \in Kinds
      BY <1>5, TargetAssumption, StepsInOrder DEF At, Running, AttemptsTypeOK
    <3> QED BY <1>5, <3>1, StepReaches, ProgramsReach DEF StepsOn, Parts, At
  <2>2. Kind[o] = "workspace"
    BY <2>1, TargetAssumption DEF Needs, Kinds
  <2>3. s \in Ids("storage") /\ e \in Ids("entry") /\ <<w, s, e>> \in Holds
    BY <2>2, WorkspaceReaches DEF Holds
  <2>4. step[o] = 22
    <3>1. step[o] \in 1..22
      <4>1. Len(Program[Kind[o]]) = 22
        BY <2>2, WorkspaceReaches
      <4>2. step[o] # 0 /\ step[o] <= 22
        BY <1>5, <4>1 DEF At, Running
      <4>3. step[o] \in Nat
        BY DEF AttemptsTypeOK
      <4> QED BY <4>2, <4>3
    <3> QED BY <1>5, <2>2, <3>1, WorkspacePlaces
  <2>5. s \in Offered /\ e \in Urls
    BY <2>2, <2>3, <2>4 DEF PromiseInvariant, WorkspaceBehind, Offered, Urls
  <2>6. SetWorkspace(o, "running") /\ UNCHANGED storages
    BY <1>5 DEF WorkspaceRow, At
  <2>7. Open' = Open \cup {w}
    BY <2>1, <2>6 DEF Open, SetWorkspace, RowsTypeOK, Ids
  <2>8. Offered' = Offered
    BY <2>6 DEF Offered, Ids
  <2> HIDE DEF w, s, e
  <2>9. Promise!Open(w, s, e)
    BY <1>2, <2>5, <2>7, <2>8 DEF Promise!Open
  <2>10. \E h \in Holds : Promise!Open(h[1], h[2], h[3])
    <3> DEFINE h == <<w, s, e>>
    <3>1. h \in Holds /\ Promise!Open(h[1], h[2], h[3])
      BY <2>3, <2>9
    <3> QED BY <3>1
  <2> QED BY <2>10 DEF Promised, Promise!ContractNext
<1>6. CASE UNCHANGED <<storages, workspaces>>
  BY <1>1, <1>6, InvisibleStep
<1> QED
  BY <1>3, <1>4, <1>5, <1>6
     DEF WriteRow, StorageRow, ComputeRow, AttachmentRow, EntryRow, WorkspaceRow

\* The disks of the other computes are not among those a step on o's Deployment takes away.
LEMMA DisksOf ==
  ASSUME NEW o \in Operations, mounted' = WithoutMounts(Deployment(o))
  PROVE  Disks' = Promise!WithoutDisks(Target[o].compute)
BY NamesDiffer DEF Disks, Promise!WithoutDisks, WithoutMounts, Deployment, Ids

\* A new Deployment, or a new pod template, has no volume.
LEMMA AppRefines ==
  ASSUME NEW o \in Operations, Target[o].compute \in Ids("compute"),
         deployments' \in {deployments \cup {Deployment(o)}, deployments \ {Deployment(o)}},
         mounted' = WithoutMounts(Deployment(o)),
         UNCHANGED <<claims, gateway, storages, workspaces>>
  PROVE  Promised
<1> DEFINE c == Target[o].compute
<1>1. UNCHANGED <<Volumes, Offered, Urls, Leads, Open>>
  BY DEF Volumes, Offered, Urls, Leads, Open, Ids
<1>2. Disks' = Promise!WithoutDisks(c)
  BY DisksOf
<1>3. CASE deployments' = deployments \cup {Deployment(o)}
  <2>1. Apps' = Apps \cup {c}
    BY <1>3, NamesDiffer DEF Apps, Deployment, Ids
  <2>2. Promise!StartApp(c)
    BY <1>1, <1>2, <2>1 DEF Promise!StartApp
  <2> QED BY <2>2 DEF Promised, Promise!ContractNext
<1>4. CASE deployments' = deployments \ {Deployment(o)}
  <2>1. Apps' = Apps \ {c}
    BY <1>4, NamesDiffer DEF Apps, Deployment, Ids
  <2>2. Promise!StopApp(c)
    BY <1>1, <1>2, <2>1 DEF Promise!StopApp
  <2> QED BY <2>2 DEF Promised, Promise!ContractNext
<1> QED BY <1>3, <1>4

\* A mount names the Deployment and the claim of its own attachment, and the claim is there.
LEMMA MountRefines ==
  ASSUME DeliveryInvariant, NamesBacked, NEW o \in Operations, Mount(o), UNCHANGED rows
  PROVE  Promised
<1> DEFINE c == Target[o].compute
           s == Target[o].storage
           old == seen[o].attachment
<1> USE DEF DeliveryInvariant, TypeOK
<1>1. c \in Ids("compute") /\ s \in Ids("storage") /\ Passed(o, AttachmentReads)
  BY StepReaches, StepsInOrder DEF Mount, StepsOn, Parts
<1>2. OrBare(old.compute, c) \in Names
  BY DEF Mount, ClusterTypeOK
<1>3. old.compute # None
  BY <1>2 DEF OrBare, bareName, Names, k8sName
<1>4. old.compute = Deployment(o) /\ old.claim = Storage(o) /\ old.claim \in claims
  BY <1>1, <1>3 DEF NamesBacked, NamesOf, SeenBacked, SeenOf, AttachmentRowBacked
<1>5. old.claim # None
  BY <1>1, <1>3 DEF SeenBacked, SeenOf, AttachmentRowBacked
<1>6. /\ Deployment(o) \in deployments
      /\ mounted' = WithoutMounts(Deployment(o)) \cup {<<Deployment(o), Storage(o)>>}
      /\ UNCHANGED <<claims, deployments, gateway>>
  BY <1>3, <1>4, <1>5 DEF Mount, OrBare
<1>7. <<c, s>> \in Links /\ c \in Apps /\ s \in Volumes
  BY <1>1, <1>4, <1>6 DEF Links, Apps, Volumes, Deployment, Storage
<1>8. Disks' = Promise!WithoutDisks(c) \cup {<<c, s>>}
  BY <1>1, <1>6, NamesDiffer
     DEF Disks, Promise!WithoutDisks, WithoutMounts, Deployment, Storage, Ids
<1>9. UNCHANGED <<Volumes, Offered, Apps, Urls, Leads, Open>>
  BY <1>6 DEF rows, Volumes, Offered, Apps, Urls, Leads, Open, Ids
<1> HIDE DEF c, s
<1>10. Promise!Mount(c, s)
  BY <1>7, <1>8, <1>9 DEF Promise!Mount
<1>11. \E l \in Links : Promise!Mount(l[1], l[2])
  <2> DEFINE l == <<c, s>>
  <2>1. l \in Links /\ Promise!Mount(l[1], l[2])
    BY <1>7, <1>10
  <2> QED BY <2>1
<1> QED BY <1>11 DEF Promised, Promise!ContractNext

\* A route leads to the compute its entry row names, or to none.
LEMMA RouteRefines ==
  ASSUME DeliveryInvariant, EntriesNamed, NEW o \in Operations, PutRoute(o), UNCHANGED rows
  PROVE  Promised
<1> DEFINE e == Target[o].entry
           service == OrBare(seen[o].entry.service, e)
<1> USE DEF DeliveryInvariant, TypeOK
<1>1. e \in Ids("entry") /\ Passed(o, EntryReads)
  BY StepReaches, StepsInOrder DEF PutRoute, StepsOn, Parts
<1>2. ServiceOf(seen[o].entry, e)
  BY <1>1 DEF EntriesNamed
<1>3. service # None
  BY <1>1, NoneAssumption DEF OrBare, Parts
<1>4. /\ gateway' = [gateway EXCEPT ![e] = service]
      /\ UNCHANGED <<claims, deployments, mounted>>
  BY DEF PutRoute
<1>5. UNCHANGED <<Volumes, Offered, Apps, Disks, Open>>
  BY <1>4 DEF rows, Volumes, Offered, Apps, Disks, Open, Ids
<1>6. gateway \in [Ids("entry") -> ServiceNames \cup {None}]
  BY DEF ClusterTypeOK, Routes
<1>7. CASE seen[o].entry.service = None
  <2>1. service = bareName(e)
    BY <1>7 DEF OrBare
  <2> HIDE DEF service, e
  <2>2. Urls' = Urls \cup {e}
    BY <1>1, <1>3, <1>4, <1>6 DEF Urls, Ids
  <2>3. Leads' = Promise!WithoutLead(e)
    BY <1>1, <1>4, <1>6, <2>1, NamesDiffer DEF Leads, Promise!WithoutLead, Ids
  <2>4. Promise!RouteNowhere(e)
    BY <1>5, <2>2, <2>3 DEF Promise!RouteNowhere
  <2> QED BY <1>1, <2>4 DEF Promised, Promise!ContractNext
<1>8. CASE seen[o].entry.service # None
  <2>1. PICK c \in Ids("compute") : <<e, c>> \in Fronts /\ service = k8sName(c)
    BY <1>2, <1>8 DEF ServiceOf, OrBare
  <2> HIDE DEF service, e
  <2>2. Urls' = Urls \cup {e}
    BY <1>1, <1>3, <1>4, <1>6 DEF Urls, Ids
  <2>3. Leads' = Promise!WithoutLead(e) \cup {<<e, c>>}
    BY <1>1, <1>4, <1>6, <2>1, NamesDiffer DEF Leads, Promise!WithoutLead, Ids
  <2>4. Promise!Route(e, c)
    BY <1>5, <2>2, <2>3 DEF Promise!Route
  <2>5. \E f \in Fronts : Promise!Route(f[1], f[2])
    <3> DEFINE f == <<e, c>>
    <3>1. f \in Fronts /\ Promise!Route(f[1], f[2])
      BY <2>1, <2>4
    <3> QED BY <3>1
  <2> QED BY <2>5 DEF Promised, Promise!ContractNext
<1> QED BY <1>7, <1>8

\* A detach takes away what the Deployment of its own compute has mounted.
LEMMA UnmountRefines ==
  ASSUME DeliveryInvariant, NamesBacked, NEW o \in Operations, Unmount(o), UNCHANGED rows
  PROVE  Promised
<1>1. Target[o].compute \in Ids("compute")
  <2>1. "attachment" \in Needs[Kind[o]]
    <3>1. step[o] \in 1..Len(Program[Kind[o]]) /\ Kind[o] \in Kinds
      BY TargetAssumption, StepsInOrder
         DEF Unmount, At, Running, DeliveryInvariant, TypeOK, AttemptsTypeOK
    <3> QED BY <3>1, ProgramsReach DEF Unmount, StepsOn, Parts, At
  <2>2. Kind[o] \in {"storage_attachment", "workspace", "attachment_detach"}
    <3>1. \A k \in Kinds : "attachment" \in Needs[k] =>
            k \in {"storage_attachment", "workspace", "attachment_detach"}
      BY DEF Needs, Kinds
    <3> QED BY <2>1, <3>1, TargetAssumption
  <2>3. "compute" \in Needs[Kind[o]]
    BY <2>2 DEF Needs, Parts
  <2> QED BY <2>3, NeedsReached DEF Reaches
<1>2. seen[o].attachment.compute = Deployment(o)
  BY OwnName DEF Unmount
<1>3. /\ mounted' = WithoutMounts(Deployment(o))
      /\ UNCHANGED <<claims, deployments, gateway>>
  BY <1>2 DEF Unmount
<1>4. UNCHANGED <<Volumes, Offered, Apps, Urls, Leads, Open>>
  BY <1>3 DEF rows, Volumes, Offered, Apps, Urls, Leads, Open, Ids
<1>5. Disks' = Promise!WithoutDisks(Target[o].compute)
  BY <1>3, DisksOf
<1>6. Promise!Unmount(Target[o].compute)
  BY <1>4, <1>5 DEF Promise!Unmount
<1> QED BY <1>1, <1>6 DEF Promised, Promise!ContractNext

\* Each provider call is one step of the promise, or none.
LEMMA CallRefines ==
  ASSUME DeliveryInvariant, NamesBacked, EntriesNamed, NEW o \in Operations, Call(o)
  PROVE  Promised
<1> USE DEF DeliveryInvariant, TypeOK
<1>1. UNCHANGED rows /\ UNCHANGED <<storages, workspaces>>
  BY DEF Call, rows
<1>2. CASE CreateClaim(o)
  <2>1. Target[o].storage \in Ids("storage")
    BY <1>2, StepReaches DEF CreateClaim, StepsOn, Parts
  <2>2. Volumes' = Volumes \cup {Target[o].storage}
    BY <1>2, <2>1, NamesDiffer DEF CreateClaim, Volumes, Ids
  <2>3. UNCHANGED <<Offered, Apps, Disks, Urls, Leads, Open>>
    BY <1>1, <1>2 DEF CreateClaim, Offered, Apps, Disks, Urls, Leads, Open, Ids
  <2>4. Promise!Provision(Target[o].storage)
    BY <2>2, <2>3 DEF Promise!Provision
  <2> QED BY <2>1, <2>4 DEF Promised, Promise!ContractNext
<1>3. CASE EnsureDeployment(o) \/ DeleteDeployment(o)
  <2>1. Target[o].compute \in Ids("compute")
    BY <1>3, StepReaches DEF EnsureDeployment, DeleteDeployment, StepsOn, Parts
  <2> QED BY <1>1, <1>3, <2>1, AppRefines DEF EnsureDeployment, DeleteDeployment
<1>4. CASE DeleteClaim(o) \/ EnsureSecret(o) \/ EnsureService(o)
             \/ DeleteService(o) \/ DeleteSecret(o)
  BY <1>1, <1>4, InvisibleStep
     DEF DeleteClaim, Retained, EnsureSecret, EnsureService, DeleteService, DeleteSecret
<1> QED
  BY <1>1, <1>2, <1>3, <1>4, MountRefines, UnmountRefines, RouteRefines DEF Call

\* So is the debris of a CreateCompute that failed.
LEMMA CleanupRefines ==
  ASSUME DeliveryInvariant, NEW o \in Operations,
         EnsureDeploymentFails(o) \/ EnsureServiceFails(o)
  PROVE  Promised
<1>1. Target[o].compute \in Ids("compute")
  BY StepReaches
     DEF EnsureDeploymentFails, EnsureServiceFails, StepsOn, Parts, DeliveryInvariant, TypeOK
<1>2. UNCHANGED <<claims, gateway, storages, workspaces>>
  BY DEF EnsureDeploymentFails, EnsureServiceFails, rows
<1>3. \/ UNCHANGED <<deployments, mounted>>
      \/ /\ deployments' \in {deployments \cup {Deployment(o)}, deployments \ {Deployment(o)}}
         /\ mounted' = WithoutMounts(Deployment(o))
  BY DEF EnsureDeploymentFails, EnsureServiceFails
<1> QED BY <1>1, <1>2, <1>3, AppRefines, InvisibleStep

\* Every step of every operation keeps the promise.
LEMMA StepRefines ==
  ASSUME DeliveryInvariant, NamesBacked, PromiseInvariant, [Next]_vars
  PROVE  Promised
<1>1. ASSUME NEW o \in Operations, WriteRow(o) \/ Call(o)
      PROVE  Promised
  BY <1>1, RowRefines, CallRefines DEF PromiseInvariant
<1>2. CASE UNCHANGED <<rows, cluster>>
  BY <1>2, InvisibleStep DEF rows, cluster
<1>3. CASE UNCHANGED vars
  BY <1>2, <1>3 DEF vars
<1>4. CASE Next
  BY <1>1, <1>2, <1>4, CleanupRefines
     DEF Next, Start, Reads, Writes, Calls, Succeed, StepFails, StepLost, Crash
<1> QED BY <1>3, <1>4

\* Before the first step there is nothing.
LEMMA InitRefines == Init => PromiseInvariant /\ Promise!ContractInit
<1> SUFFICES ASSUME Init PROVE PromiseInvariant /\ Promise!ContractInit
  OBVIOUS
<1>1. PromiseInvariant
  BY DEF Init, PromiseInvariant, EntriesNamed, ServiceOf, WorkspaceBehind, Passed, Before
<1>2. Volumes = {} /\ Apps = {} /\ Disks = {}
  BY DEF Init, Volumes, Apps, Disks
<1>3. Offered = {} /\ Open = {}
  BY DEF Init, Offered, Open
<1>4. Urls = {}
  BY DEF Init, Urls
<1>5. Leads = {}
  BY NoneAssumption DEF Init, Leads, Parts
<1> QED BY <1>1, <1>2, <1>3, <1>4, <1>5 DEF Promise!ContractInit

\* PromiseInvariant and NamesBacked hold always.
LEMMA PromiseInvariantHolds == Spec => [](DeliveryInvariant /\ NamesBacked /\ PromiseInvariant)
<1>1. Init => NamesBacked
  BY DEF Init, NamesBacked, NamesOf, Passed, Before, Ids, Parts
<1>2. DeliveryInvariant /\ NamesBacked /\ PromiseInvariant /\ [Next]_vars =>
        NamesBacked' /\ PromiseInvariant'
  BY NamesKept, PromiseInvariantKept
<1>3. Init => PromiseInvariant
  BY InitRefines
<1> QED
  BY <1>1, <1>2, <1>3, DeliveryInvariantHolds, PTL DEF Spec

\* Delivery implements WorkspaceContract: whatever operations meet, fail, lose replies, die
\* and clean up (Orchestrator.apply, the provider's calls), no step deletes a volume or an
\* address, mounts a claim or sets a route across workspaces, or declares a workspace
\* running before its volume and its address exist.
THEOREM DeliveryKeepsPromise == Spec => KeepsPromise
<1>1. Init => Promise!ContractInit
  BY InitRefines
<1>2. DeliveryInvariant /\ NamesBacked /\ PromiseInvariant /\ [Next]_vars =>
        [Promise!ContractNext]_(Promise!contractVars)
  BY StepRefines DEF Promised
<1>3. Spec => Promise!ContractInit /\ [][Promise!ContractNext]_(Promise!contractVars)
  BY <1>1, <1>2, PromiseInvariantHolds, PTL DEF Spec
<1> QED BY <1>3 DEF KeepsPromise, Promise!ContractSpec

-----------------------------------------------------------------------------
(* What follows from the promise alone.                                        *)

PromisedState ==
  /\ Disks \subseteq Links
  /\ Leads \subseteq Fronts
  /\ \A w \in Open : \E h \in Holds : h[1] = w /\ h[2] \in Offered /\ h[3] \in Urls

\* Each step of the promise keeps to the pairings, and what an open workspace stands on.
LEMMA PromisedStateKept ==
  ASSUME PromisedState, Promised
  PROVE  PromisedState'
<1>0. Links' = Links /\ Fronts' = Fronts /\ Holds' = Holds
  BY DEF Links, Fronts, Holds, Ids
<1>1. CASE UNCHANGED Promise!contractVars
  BY <1>0, <1>1 DEF Promise!contractVars, PromisedState
<1>2. CASE Promise!ContractNext
  <2> USE <1>0 DEF PromisedState, Promise!WithoutDisks, Promise!WithoutLead
  <2>1. ASSUME NEW s \in Ids("storage"), Promise!Provision(s) \/ Promise!Offer(s)
        PROVE  PromisedState'
    BY <2>1 DEF Promise!Provision, Promise!Offer
  <2>2. ASSUME NEW c \in Ids("compute"),
               Promise!StartApp(c) \/ Promise!StopApp(c) \/ Promise!Unmount(c)
        PROVE  PromisedState'
    BY <2>2 DEF Promise!StartApp, Promise!StopApp, Promise!Unmount
  <2>3. ASSUME NEW l \in Links, Promise!Mount(l[1], l[2])
        PROVE  PromisedState'
    <3>1. l = <<l[1], l[2]>>
      BY DEF Links
    <3> QED BY <2>3, <3>1 DEF Promise!Mount
  <2>4. ASSUME NEW f \in Fronts, Promise!Route(f[1], f[2])
        PROVE  PromisedState'
    <3>1. f = <<f[1], f[2]>>
      BY DEF Fronts
    <3> QED BY <2>4, <3>1 DEF Promise!Route
  <2>5. ASSUME NEW e \in Ids("entry"), Promise!RouteNowhere(e)
        PROVE  PromisedState'
    BY <2>5 DEF Promise!RouteNowhere
  <2>6. ASSUME NEW h \in Holds, Promise!Open(h[1], h[2], h[3])
        PROVE  PromisedState'
    BY <2>6 DEF Promise!Open
  <2>7. ASSUME NEW w \in Ids("workspace"), Promise!Close(w)
        PROVE  PromisedState'
    BY <2>7 DEF Promise!Close
  <2> QED
    BY <1>2, <2>1, <2>2, <2>3, <2>4, <2>5, <2>6, <2>7 DEF Promise!ContractNext
<1> QED BY <1>1, <1>2 DEF Promised

\* Workspaces stand apart, and what is said to run can be reached: a pod mounts a claim
\* only of an operation on both, a route leads to a compute only of an operation on both,
\* and a workspace in state "running" has an available volume, its claim, and an address.
WorkspacesServed ==
  /\ \A m \in mounted : \E o \in Operations : m = <<Deployment(o), Storage(o)>>
  /\ \A e \in Ids("entry") : gateway[e] \in Names =>
       \E o \in Operations : Target[o].entry = e /\ gateway[e] = Deployment(o)
  /\ \A w \in Ids("workspace") : workspaces[w] = "running" =>
       \E o \in Operations :
         /\ Kind[o] = "workspace" /\ Target[o].workspace = w
         /\ storages[Target[o].storage].state = "available" /\ Storage(o) \in claims
         /\ gateway[Target[o].entry] # None

\* The isolation of workspaces and the meaning of "running" (applyWorkspace,
\* mountDeploymentClaim, CreateWorkspaceEntry), also while operations interfere.
THEOREM WorkspacesAreServed == Spec => []WorkspacesServed
<1>1. Init => PromisedState
  BY InitRefines DEF Promise!ContractInit, PromisedState
<1>2. Spec => []PromisedState
  <2>1. PromisedState /\ DeliveryInvariant /\ NamesBacked /\ PromiseInvariant /\ [Next]_vars =>
          PromisedState'
    BY StepRefines, PromisedStateKept
  <2> QED BY <1>1, <2>1, PromiseInvariantHolds, PTL DEF Spec
<1>3. PromisedState /\ DeliveryInvariant => WorkspacesServed
  <2> SUFFICES ASSUME PromisedState, DeliveryInvariant PROVE WorkspacesServed
    OBVIOUS
  <2> USE DEF PromisedState, DeliveryInvariant, TypeOK
  <2>1. ASSUME NEW m \in mounted
        PROVE  \E o \in Operations : m = <<Deployment(o), Storage(o)>>
    <3>1. PICK c \in Ids("compute"), s \in Ids("storage") : m = <<k8sName(c), claimName(s)>>
      BY DEF ClusterTypeOK, Names, Claims
    <3>2. <<c, s>> \in Links
      BY <3>1 DEF Disks
    <3> QED BY <3>1, <3>2 DEF Links, Deployment, Storage
  <2>2. ASSUME NEW e \in Ids("entry"), gateway[e] \in Names
        PROVE  \E o \in Operations : Target[o].entry = e /\ gateway[e] = Deployment(o)
    <3>1. PICK c \in Ids("compute") : gateway[e] = k8sName(c)
      BY <2>2 DEF Names
    <3>2. <<e, c>> \in Fronts
      BY <3>1 DEF Leads
    <3> QED BY <3>1, <3>2 DEF Fronts, Deployment
  <2>3. ASSUME NEW w \in Ids("workspace"), workspaces[w] = "running"
        PROVE  \E o \in Operations :
                 /\ Kind[o] = "workspace" /\ Target[o].workspace = w
                 /\ storages[Target[o].storage].state = "available" /\ Storage(o) \in claims
                 /\ gateway[Target[o].entry] # None
    <3>1. PICK h \in Holds : h[1] = w /\ h[2] \in Offered /\ h[3] \in Urls
      BY <2>3 DEF Open
    <3>2. PICK o \in Operations :
            /\ Kind[o] = "workspace"
            /\ h = <<Target[o].workspace, Target[o].storage, Target[o].entry>>
      BY DEF Holds
    <3>3. claimName(h[2]) \in claims
      BY <3>1 DEF Offered, RowsBacked
    <3> QED BY <3>1, <3>2, <3>3 DEF Offered, Urls, Storage
  <2> QED BY <2>1, <2>2, <2>3 DEF WorkspacesServed
<1> QED BY <1>2, <1>3, DeliveryInvariantHolds, PTL
=================================================================================
