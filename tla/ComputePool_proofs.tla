-------------------------- MODULE ComputePool_proofs --------------------------
(***************************************************************************)
(* The invariants of ComputePool for every set of computes, operations,    *)
(* workers and pools, every quota and every combination of faults.         *)
(*                                                                         *)
(* Type correctness is proved action by action.  Of a step the other       *)
(* invariants need to know only whether it is quiet (jobs, rows and pools  *)
(* stay), a worker leaving its attempt, a worker taking a step of it, or a *)
(* pool being retired: StepKinds says that there is nothing else.          *)
(***************************************************************************)
EXTENDS ComputePool, FiniteSetTheorems, TLAPS

Names == {PoolName[c] : c \in Computes}

QueueTyped ==
  /\ status \in [Operations -> Queue!Statuses]
  /\ tries \in [Operations -> 0..MaxAttempts]

JobsTyped ==
  /\ job \in [Workers -> [op : Operations \cup {None}, at : Steps \cup {"idle"},
                          seen : Row, inside : BOOLEAN]]
  /\ \A w \in Workers : job[w].op = None <=> job[w] = Idle

WorldTyped ==
  /\ rows \in [Computes -> Row]
  /\ pools \in [PoolIds -> [name : Names \cup {None},
                           life : {"unused", "normal", "deleting", "gone"}]]
  /\ claims \subseteq Computes
  /\ deployments \subseteq Computes
  /\ node \in [Computes -> PoolIds \cup {None}]

CleanupTyped ==
  cleanup \in [at : {"off", "list", "deployments", "claims", "pools", "done", "failed"},
               targets : SUBSET Computes, read : BOOLEAN, ids : SUBSET PoolIds,
               alone : BOOLEAN]

\* TypeOK in parts, one for each actor.
LEMMA TypeParts ==
  TypeOK <=> QueueTyped /\ JobsTyped /\ WorldTyped /\ CleanupTyped /\ overtaken \subseteq Workers
BY DEF TypeOK, QueueTyped, JobsTyped, WorldTyped, CleanupTyped, Names

-----------------------------------------------------------------------------
\* Jobs.

\* A worker that is somewhere in an attempt has an operation and a compute.
LEMMA BusyWorker ==
  ASSUME JobsTyped, NEW w \in Workers, job[w] # Idle
  PROVE  job[w].op \in Operations /\ Compute(w) \in Computes /\ job[w].seen \in Row
BY PoolAssumption DEF JobsTyped, Compute

\* A worker that is at a step has an operation.
LEMMA SomewhereIsBusy ==
  ASSUME NEW w, job[w].at # "idle"
  PROVE  job[w] # Idle
BY DEF Idle

\* The row a new attempt starts from has the type of a row.
LEMMA NewRowTyped == NewRow \in Row
BY DEF NewRow, Row, RowStates

\* Where a step within an attempt leads.
LEMMA GotoLeads ==
  ASSUME JobsTyped, NEW w \in Workers, NEW name, NEW row, Goto(w, name, row)
  PROVE  /\ job'[w].op = job[w].op /\ job'[w].at = name /\ job'[w].seen = row
         /\ \A v \in Workers \ {w} : job'[v] = job[v]
BY DEF Goto, JobsTyped

\* It keeps the types.
LEMMA GotoTyped ==
  ASSUME JobsTyped, NEW w \in Workers, job[w] # Idle,
         NEW name \in Steps, NEW row \in Row, Goto(w, name, row)
  PROVE  /\ JobsTyped'
         /\ job'[w].op = job[w].op /\ job'[w].at = name /\ job'[w].seen = row
         /\ \A v \in Workers \ {w} : job'[v] = job[v]
<1>1. job[w].op # None
  BY DEF JobsTyped
<1>2. /\ job'[w].op = job[w].op /\ job'[w].at = name /\ job'[w].seen = row
      /\ \A v \in Workers \ {w} : job'[v] = job[v]
  BY GotoLeads
<1>3. job' \in [Workers -> [op : Operations \cup {None}, at : Steps \cup {"idle"},
                           seen : Row, inside : BOOLEAN]]
  <2> DEFINE inside == job[w].inside \/ (name = "read" /\ ~At(w, "claim"))
  <2>1. inside \in BOOLEAN
    BY Zenon
  <2>2. job' = [job EXCEPT ![w].at = name, ![w].seen = row, ![w].inside = inside]
    BY DEF Goto
  <2> HIDE DEF inside
  <2> QED BY <2>1, <2>2 DEF JobsTyped
<1>4. job'[w].op # None /\ job'[w] # Idle
  BY <1>1, <1>2 DEF Idle
<1> QED BY <1>2, <1>3, <1>4 DEF JobsTyped

\* The end of an attempt.
LEMMA LeaveTyped ==
  ASSUME JobsTyped, overtaken \subseteq Workers, NEW w \in Workers, Leave(w)
  PROVE  JobsTyped' /\ overtaken' \subseteq Workers
<1>1. Idle \in [op : Operations \cup {None}, at : Steps \cup {"idle"},
               seen : Row, inside : BOOLEAN]
  BY NewRowTyped DEF Idle
<1>2. Idle.op = None
  BY DEF Idle
<1> QED BY <1>1, <1>2 DEF Leave, JobsTyped

-----------------------------------------------------------------------------
\* Rows, pools and the cluster.

\* The id Tencent hands out was not used before.
LEMMA NewIdIsFresh ==
  ASSUME \E p \in PoolIds : Fresh(p)
  PROVE  NewId \in PoolIds /\ Fresh(NewId)
BY DEF NewId

\* Whatever a step of an attempt does, it keeps the types of what it writes.
LEMMA EffectTyped ==
  ASSUME JobsTyped, WorldTyped, NEW w \in Workers, Effect(w)
  PROVE  WorldTyped'
<1>1. job[w] # Idle
  BY SomewhereIsBusy
     DEF Effect, At, ReserveClaim, CreateNodePool, RecordPool, CreateCompute,
         WriteRunning, DestroyCompute, ClearRow
<1>2. Compute(w) \in Computes /\ job[w].seen \in Row
  BY <1>1, BusyWorker
<1>3. CASE ReserveClaim(w)
  BY <1>2, <1>3 DEF ReserveClaim, WorldTyped
<1>4. CASE CreateNodePool(w)
  <2>1. NewId \in PoolIds
    BY <1>4, NewIdIsFresh DEF CreateNodePool
  <2>2. PoolName[Compute(w)] \in Names
    BY <1>2 DEF Names
  <2>3. pools' \in [PoolIds -> [name : Names \cup {None},
                                life : {"unused", "normal", "deleting", "gone"}]]
    BY <1>4, <2>1, <2>2 DEF CreateNodePool, WorldTyped
  <2> QED BY <1>4, <2>3 DEF CreateNodePool, WorldTyped
<1>5. CASE RecordPool(w)
  BY <1>2, <1>5 DEF RecordPool, WorldTyped
<1>6. CASE CreateCompute(w)
  BY <1>2, <1>6 DEF CreateCompute, WorldTyped
<1>7. CASE WriteRunning(w)
  <2>1. [state |-> "running", refs |-> TRUE, pool |-> job[w].seen.pool] \in Row
    BY <1>2 DEF Row, RowStates
  <2> QED BY <1>7, <2>1 DEF WriteRunning, WorldTyped
<1>8. CASE DestroyCompute(w)
  BY <1>8 DEF DestroyCompute, WorldTyped
<1>9. CASE ClearRow(w)
  <2>1. [state |-> "destroyed", refs |-> FALSE, pool |-> None] \in Row
    BY DEF Row, RowStates
  <2> QED BY <1>9, <2>1 DEF ClearRow, WorldTyped
<1> QED BY <1>3, <1>4, <1>5, <1>6, <1>7, <1>8, <1>9 DEF Effect

\* Counting a failed attempt.
LEMMA FailureTyped ==
  ASSUME QueueTyped, NEW o \in Operations, Queue!CountFailure(o)
  PROVE  QueueTyped'
<1>1. tries[o] \in 0..MaxAttempts /\ tries[o] < MaxAttempts
  BY DEF QueueTyped, Queue!CountFailure
<1>2. tries[o] + 1 \in 0..MaxAttempts
  BY <1>1, PoolAssumption
<1> QED
  BY <1>2 DEF QueueTyped, Queue!CountFailure, Queue!SetStatus, Queue!Statuses

-----------------------------------------------------------------------------
\* Type correctness.

\* An attempt begins.
LEMMA BeginTyped ==
  ASSUME TypeOK, NEW w \in Workers, NEW o \in Operations, Begin(w, o)
  PROVE  TypeOK'
<1> DEFINE at == IF Kind[o] = "workspace" THEN "claim" ELSE "read"
<1>1. /\ QueueTyped /\ JobsTyped /\ WorldTyped /\ CleanupTyped
      /\ overtaken \subseteq Workers
  BY TypeParts
<1>2. QueueTyped'
  BY <1>1 DEF Begin, QueueTyped, Queue!Start, Queue!SetStatus, Queue!Statuses
<1>3. at \in Steps
  BY DEF Steps, CreateSteps
<1>4. [op |-> o, at |-> at, seen |-> NewRow, inside |-> Kind[o] # "workspace"] # Idle
  BY PoolAssumption DEF Idle
<1>5. JobsTyped'
  BY <1>1, <1>3, <1>4, NewRowTyped, PoolAssumption DEF Begin, JobsTyped
<1>6. CleanupTyped'
  BY <1>1 DEF Begin, CleanupTyped
<1>7. WorldTyped'
  BY <1>1 DEF Begin, Elsewhere, WorldTyped
<1>8. overtaken' \subseteq Workers
  BY <1>1 DEF Begin
<1> QED BY <1>2, <1>5, <1>6, <1>7, <1>8 DEF TypeOK, QueueTyped, JobsTyped, WorldTyped, CleanupTyped, Names

\* An attempt goes on.
LEMMA AdvanceTyped ==
  ASSUME TypeOK, NEW w \in Workers, ReadRow(w) \/ FindPool(w) \/ VerifyPool(w) \/ Work(w)
  PROVE  TypeOK'
<1>1. /\ QueueTyped /\ JobsTyped /\ WorldTyped /\ CleanupTyped
      /\ overtaken \subseteq Workers
  BY TypeParts
<1>2. job[w] # Idle
  BY SomewhereIsBusy DEF ReadRow, FindPool, VerifyPool, Work, At
<1>3. Compute(w) \in Computes /\ job[w].seen \in Row
  BY <1>1, <1>2, BusyWorker
<1>4. QueueTyped' /\ CleanupTyped' /\ overtaken' \subseteq Workers
  BY <1>1 DEF ReadRow, FindPool, VerifyPool, Work, QueueTyped, CleanupTyped, queue
<1>5. WorldTyped'
  <2>1. CASE Work(w)
    BY <1>1, <2>1, EffectTyped DEF Work
  <2>2. CASE ReadRow(w) \/ FindPool(w) \/ VerifyPool(w)
    BY <1>1, <2>2 DEF ReadRow, FindPool, VerifyPool, Elsewhere, WorldTyped
  <2> QED BY <2>1, <2>2
<1>6. \E name \in Steps, row \in Row : Goto(w, name, row)
  <2>1. CASE ReadRow(w)
    <3>1. AfterRead(w) \in Steps
      BY DEF AfterRead, AfterResolve, Steps, CreateSteps, DestroySteps
    <3>2. rows[Compute(w)] \in Row
      BY <1>1, <1>3 DEF WorldTyped
    <3> QED BY <2>1, <3>1, <3>2 DEF ReadRow
  <2>2. CASE FindPool(w)
    <3>1. \A p \in PoolIds : [job[w].seen EXCEPT !.pool = p] \in Row
      BY <1>3 DEF Row
    <3>2. "record" \in Steps /\ "create" \in Steps
      BY DEF Steps, CreateSteps
    <3>3. Found(PoolName[Compute(w)]) \subseteq PoolIds
      BY DEF Found
    <3> QED BY <1>3, <2>2, <3>1, <3>2, <3>3 DEF FindPool
  <2>3. CASE VerifyPool(w)
    BY <1>3, <2>3 DEF VerifyPool, Steps, CreateSteps
  <2>4. CASE Work(w)
    <3>1. {"read", "record", "verify", "write", "clear", "done"} \subseteq Steps
      BY DEF Steps, CreateSteps, DestroySteps
    <3>2. At(w, "create") => [job[w].seen EXCEPT !.pool = NewId] \in Row
      <4>1. At(w, "create") => NewId \in PoolIds
        BY <2>4, NewIdIsFresh
           DEF Work, Effect, At, ReserveClaim, CreateNodePool, RecordPool, CreateCompute,
               WriteRunning, DestroyCompute, ClearRow
      <4> QED BY <1>3, <4>1 DEF Row
    <3>3. AfterResolve(w) \in {"read", "verify"}
      BY DEF AfterResolve
    <3> QED BY <1>3, <2>4, <3>1, <3>2, <3>3, NewRowTyped DEF Work
  <2> QED BY <2>1, <2>2, <2>3, <2>4
<1>7. JobsTyped'
  BY <1>1, <1>2, <1>6, GotoTyped
<1> QED BY <1>4, <1>5, <1>7 DEF TypeOK, QueueTyped, JobsTyped, WorldTyped, CleanupTyped, Names

\* An attempt ends.
LEMMA EndTyped ==
  ASSUME TypeOK, NEW w \in Workers, Succeed(w) \/ Fails(w) \/ LoseWorker(w)
  PROVE  TypeOK'
<1>1. /\ QueueTyped /\ JobsTyped /\ WorldTyped /\ CleanupTyped
      /\ overtaken \subseteq Workers
  BY TypeParts
<1>2. job[w] # Idle
  BY SomewhereIsBusy
     DEF Succeed, Fails, StepFails, StepLost, CreateComputeUndone, LoseWorker, At, Effect,
         ReserveClaim, CreateNodePool, RecordPool, CreateCompute, WriteRunning,
         DestroyCompute, ClearRow
<1>3. job[w].op \in Operations
  BY <1>1, <1>2, BusyWorker
<1>4. Leave(w)
  BY DEF Succeed, Fails, StepFails, StepLost, CreateComputeUndone, LoseWorker, FailAttempt
<1>5. QueueTyped'
  <2>1. CASE Queue!CountFailure(job[w].op)
    BY <1>1, <1>3, <2>1, FailureTyped
  <2>2. CASE Queue!Complete(job[w].op) \/ Queue!Abandon(job[w].op) \/ UNCHANGED queue
    BY <1>1, <1>3, <2>2
       DEF QueueTyped, queue, Queue!Complete, Queue!Abandon, Queue!SetStatus, Queue!Statuses
  <2> QED
    BY <2>1, <2>2
       DEF Succeed, Fails, StepFails, StepLost, CreateComputeUndone, LoseWorker, FailAttempt
<1>6. WorldTyped'
  <2>1. CASE StepLost(w)
    BY <1>1, <2>1, EffectTyped DEF StepLost
  <2>2. CASE CreateComputeUndone(w)
    BY <1>1, <2>2 DEF CreateComputeUndone, WorldTyped
  <2>3. CASE Succeed(w) \/ StepFails(w) \/ LoseWorker(w)
    BY <1>1, <2>3 DEF Succeed, StepFails, LoseWorker, Elsewhere, WorldTyped
  <2> QED BY <2>1, <2>2, <2>3 DEF Fails
<1>7. CleanupTyped'
  BY <1>1, <1>4 DEF Leave, CleanupTyped
<1>8. JobsTyped' /\ overtaken' \subseteq Workers
  BY <1>1, <1>4, LeaveTyped
<1> QED BY <1>5, <1>6, <1>7, <1>8 DEF TypeOK, QueueTyped, JobsTyped, WorldTyped, CleanupTyped, Names

\* A client, the cluster or the cleanup.
LEMMA OutsideTyped ==
  ASSUME TypeOK, (\E o \in Operations : Submit(o)) \/ Cluster \/ Cleanup
  PROVE  TypeOK'
<1>1. /\ QueueTyped /\ JobsTyped /\ WorldTyped /\ CleanupTyped
      /\ overtaken \subseteq Workers
  BY TypeParts
<1>2. JobsTyped'
  BY <1>1
     DEF Submit, Cluster, Schedule, PoolGone, Cleanup, Discover, ListDeployments,
         DeleteDeployment, ListClaims, DeleteClaim, DeleteNodePool, CleanupDone, CleanupFails,
         Elsewhere, JobsTyped
<1>3. QueueTyped'
  <2>1. CASE \E o \in Operations : Submit(o)
    BY <1>1, <2>1 DEF Submit, QueueTyped, Queue!Accept, Queue!SetStatus, Queue!Statuses
  <2>2. CASE Cluster \/ Cleanup
    BY <1>1, <2>2
       DEF Cluster, Schedule, PoolGone, Cleanup, Discover, ListDeployments,
           DeleteDeployment, ListClaims, DeleteClaim, DeleteNodePool, CleanupDone,
           CleanupFails, QueueTyped, queue
  <2> QED BY <2>1, <2>2
<1>4. WorldTyped' /\ overtaken' \subseteq Workers
  <2>1. CASE (\E o \in Operations : Submit(o)) \/ Discover \/ ListDeployments \/ ListClaims
             \/ CleanupDone \/ CleanupFails
    BY <1>1, <2>1
       DEF Submit, Discover, ListDeployments, ListClaims, CleanupDone, CleanupFails, Elsewhere,
           WorldTyped
  <2>2. CASE Cluster
    <3>1. CASE \E c \in Computes : Schedule(c)
      BY <1>1, <3>1 DEF Schedule, WorldTyped
    <3>2. CASE \E p \in PoolIds : PoolGone(p)
      BY <1>1, <3>2 DEF PoolGone, WorldTyped
    <3> QED BY <2>2, <3>1, <3>2 DEF Cluster
  <2>3. CASE DeleteDeployment
    BY <1>1, <2>3 DEF DeleteDeployment, WorldTyped
  <2>4. CASE DeleteClaim
    BY <1>1, <2>4 DEF DeleteClaim, WorldTyped
  <2>5. CASE DeleteNodePool
    <3>1. UNCHANGED <<rows, claims, deployments, node>>
      BY <2>5 DEF DeleteNodePool
    <3>2. PICK p \in cleanup.ids :
            /\ pools' = IF pools[p].life = "normal"
                        THEN [pools EXCEPT ![p].life = "deleting"] ELSE pools
            /\ overtaken' = IF pools[p].life = "normal"
                            THEN overtaken \cup {w \in Workers : At(w, "deploy") /\ job[w].seen.pool = p}
                            ELSE overtaken
      BY <2>5 DEF DeleteNodePool
    <3>3. overtaken' \subseteq Workers
      BY <1>1, <3>2
    <3>4. pools' \in [PoolIds -> [name : Names \cup {None},
                                  life : {"unused", "normal", "deleting", "gone"}]]
      BY <1>1, <3>2 DEF WorldTyped
    <3> QED BY <1>1, <3>1, <3>3, <3>4 DEF WorldTyped
  <2> QED BY <2>1, <2>2, <2>3, <2>4, <2>5 DEF Cleanup
<1>5. CleanupTyped'
  <2>1. CASE (\E o \in Operations : Submit(o)) \/ Cluster
    BY <1>1, <2>1 DEF Submit, Cluster, Schedule, PoolGone, CleanupTyped
  <2>2. CASE Discover
    <3>1. NamedPools \subseteq PoolIds
      BY <1>1 DEF NamedPools, WorldTyped, Row
    <3>2. PICK extra \in SUBSET ExtraIds, read \in {TRUE, "calls" \notin Faults} :
            cleanup' = [at |-> "list", targets |-> {}, read |-> read,
                        ids |-> extra \cup (IF read THEN NamedPools ELSE {}),
                        alone |-> \A w \in Workers : job[w] = Idle]
      BY <2>2 DEF Discover
    <3>3. read \in BOOLEAN /\ (\A w \in Workers : job[w] = Idle) \in BOOLEAN
      BY Zenon
    <3>4. extra \cup (IF read THEN NamedPools ELSE {}) \in SUBSET PoolIds
      BY <3>1, PoolAssumption
    <3> HIDE DEF NamedPools
    <3> QED BY <3>2, <3>3, <3>4 DEF CleanupTyped
  <2>3. CASE ListDeployments
    BY <1>1, <2>3 DEF ListDeployments, CleanupTyped, WorldTyped
  <2>4. CASE ListClaims \/ DeleteClaim
    <3>1. PICK targets \in SUBSET Computes : ClaimsLeft(targets)
      BY <1>1, <2>4 DEF ListClaims, DeleteClaim, CleanupTyped, WorldTyped
    <3> DEFINE at == IF targets = {} THEN "pools" ELSE "claims"
    <3>2. cleanup' = [cleanup EXCEPT !.at = at, !.targets = targets]
      BY <3>1 DEF ClaimsLeft
    <3>3. at \in {"pools", "claims"}
      OBVIOUS
    <3> HIDE DEF at
    <3> QED BY <1>1, <3>2, <3>3 DEF CleanupTyped
  <2>5. CASE DeleteNodePool
    BY <1>1, <2>5 DEF DeleteNodePool, CleanupTyped
  <2>6. CASE DeleteDeployment \/ CleanupDone \/ CleanupFails
    BY <1>1, <2>6 DEF DeleteDeployment, CleanupDone, CleanupFails, CleanupTyped
  <2> QED BY <2>1, <2>2, <2>3, <2>4, <2>5, <2>6 DEF Cleanup
<1> QED BY <1>2, <1>3, <1>4, <1>5 DEF TypeOK, QueueTyped, JobsTyped, WorldTyped, CleanupTyped, Names

\* TypeOK holds at the start ...
LEMMA TypeInit == Init => TypeOK
<1> SUFFICES ASSUME Init PROVE TypeOK
  OBVIOUS
<1>1. QueueTyped
  BY PoolAssumption DEF Init, Queue!ContractInit, Queue!Statuses, QueueTyped
<1>2. /\ Idle \in [op : Operations \cup {None}, at : Steps \cup {"idle"},
                  seen : Row, inside : BOOLEAN]
      /\ Idle.op = None
  BY NewRowTyped DEF Idle
<1>3. JobsTyped
  BY <1>2 DEF Init, JobsTyped
<1>4. WorldTyped /\ CleanupTyped
  BY NewRowTyped DEF Init, WorldTyped, CleanupTyped
<1> QED BY <1>1, <1>3, <1>4, TypeParts DEF Init

\* ... and is kept by every step.
LEMMA TypeStep == TypeOK /\ [Next]_vars => TypeOK'
<1> SUFFICES ASSUME TypeOK, [Next]_vars PROVE TypeOK'
  OBVIOUS
<1>1. CASE UNCHANGED vars
  BY <1>1 DEF vars, queue, TypeOK, Queue!Statuses
<1>2. CASE Next
  <2>1. CASE \E o \in Operations : Submit(o)
    BY <2>1, OutsideTyped
  <2>2. CASE \E w \in Workers, o \in Operations : Begin(w, o)
    BY <2>2, BeginTyped
  <2>3. CASE \E w \in Workers : Attempt(w)
    BY <2>3, AdvanceTyped, EndTyped DEF Attempt, Advance
  <2>4. CASE \E w \in Workers : Crash(w)
    BY <2>4, EndTyped DEF Crash
  <2>5. CASE Cluster \/ Cleanup
    BY <2>5, OutsideTyped
  <2> QED BY <1>2, <2>1, <2>2, <2>3, <2>4, <2>5 DEF Next
<1> QED BY <1>1, <1>2

\* TypeOK: the tables, Tencent and the cluster keep their types.
THEOREM TypeCorrect == Spec => []TypeOK
BY TypeInit, TypeStep, PTL DEF Spec

-----------------------------------------------------------------------------
\* The kinds of steps.

Quiet == UNCHANGED <<job, rows, pools, overtaken>>

Moves(w) == ReadRow(w) \/ FindPool(w) \/ VerifyPool(w)

Leaves(w) == Leave(w) /\ UNCHANGED <<rows, pools>>

Retires(p) ==
  /\ UNCHANGED <<job, rows>>
  /\ \/ /\ pools[p].life = "deleting"
        /\ pools' = [pools EXCEPT ![p].life = "gone"]
        /\ UNCHANGED overtaken
     \/ /\ pools[p].life = "normal"
        /\ pools' = [pools EXCEPT ![p].life = "deleting"]
        /\ overtaken' = overtaken \cup {w \in Workers : At(w, "deploy") /\ job[w].seen.pool = p}

WorkerSteps(w) ==
  \/ \E o \in Operations : Begin(w, o)
  \/ Moves(w) \/ Work(w) \/ StepLost(w) \/ Leaves(w)

\* Every step is of one of these kinds.
LEMMA StepKinds ==
  ASSUME TypeOK, [Next]_vars
  PROVE  \/ Quiet
         \/ \E w \in Workers : WorkerSteps(w)
         \/ \E p \in PoolIds : Retires(p)
<1>1. CASE UNCHANGED vars
  BY <1>1 DEF vars, Quiet
<1>2. CASE \E o \in Operations : Submit(o)
  BY <1>2 DEF Submit, Elsewhere, Quiet
<1>3. CASE \E o \in Operations, w \in Workers : Begin(w, o)
  BY <1>3 DEF WorkerSteps
<1>4. ASSUME NEW w \in Workers, Attempt(w) \/ Crash(w) PROVE WorkerSteps(w)
  <2>1. CASE Succeed(w) \/ StepFails(w) \/ Crash(w)
    BY <2>1 DEF Succeed, StepFails, Crash, LoseWorker, FailAttempt, Elsewhere, Leaves, WorkerSteps
  <2>2. CASE CreateComputeUndone(w)
    BY <2>2 DEF CreateComputeUndone, FailAttempt, Leaves, WorkerSteps
  <2> QED BY <1>4, <2>1, <2>2 DEF Attempt, Advance, Fails, Moves, WorkerSteps
<1>5. CASE Cluster
  <2>1. CASE \E c \in Computes : Schedule(c)
    BY <2>1 DEF Schedule, Quiet
  <2>2. CASE \E p \in PoolIds : PoolGone(p)
    BY <2>2 DEF PoolGone, Retires
  <2> QED BY <1>5, <2>1, <2>2 DEF Cluster
<1>6. CASE Cleanup
  <2>1. CASE Discover \/ ListDeployments \/ ListClaims \/ CleanupDone \/ CleanupFails
    BY <2>1
       DEF Discover, ListDeployments, ListClaims, CleanupDone, CleanupFails, Elsewhere, Quiet
  <2>2. CASE DeleteDeployment \/ DeleteClaim
    BY <2>2 DEF DeleteDeployment, DeleteClaim, Quiet
  <2>3. CASE DeleteNodePool
    <3>1. cleanup.ids \subseteq PoolIds
      BY DEF TypeOK
    <3>2. UNCHANGED <<job, rows>>
      BY <2>3 DEF DeleteNodePool
    <3>3. PICK p \in cleanup.ids :
            /\ pools' = IF pools[p].life = "normal"
                        THEN [pools EXCEPT ![p].life = "deleting"] ELSE pools
            /\ overtaken' = IF pools[p].life = "normal"
                            THEN overtaken \cup {w \in Workers : At(w, "deploy") /\ job[w].seen.pool = p}
                            ELSE overtaken
      BY <2>3 DEF DeleteNodePool
    <3>4. CASE pools[p].life = "normal"
      BY <3>1, <3>2, <3>3, <3>4 DEF Retires
    <3>5. CASE pools[p].life # "normal"
      BY <3>2, <3>3, <3>5 DEF Quiet
    <3> QED BY <3>4, <3>5
  <2> QED BY <1>6, <2>1, <2>2, <2>3 DEF Cleanup
<1> QED BY <1>1, <1>2, <1>3, <1>4, <1>5, <1>6 DEF Next

\* What an effect does to rows and pools; the worker is at the step it belongs to.
LEMMA EffectKinds ==
  ASSUME NEW w \in Workers, Effect(w)
  PROVE  \/ /\ job[w].at \in {"claim", "deploy", "delete"}
            /\ UNCHANGED <<rows, pools>>
         \/ CreateNodePool(w) \/ RecordPool(w) \/ WriteRunning(w) \/ ClearRow(w)
BY DEF Effect, At, ReserveClaim, CreateCompute, DestroyCompute

\* A pool that was created keeps its name, and its id is never handed out again.
LEMMA PoolsKept ==
  ASSUME TypeOK, [Next]_vars, NEW p \in PoolIds, ~Fresh(p)
  PROVE  pools'[p].name = pools[p].name /\ pools'[p].life # "unused"
<1>1. pools \in [PoolIds -> [name : Names \cup {None},
                             life : {"unused", "normal", "deleting", "gone"}]]
  BY DEF TypeOK, Names
<1>2. CASE UNCHANGED pools
  BY <1>2 DEF Fresh
<1>3. CASE \E w \in Workers : Effect(w)
  <2>1. PICK w \in Workers : Effect(w)
    BY <1>3
  <2>2. CASE CreateNodePool(w)
    <3>1. NewId \in PoolIds /\ Fresh(NewId)
      BY <2>2, NewIdIsFresh DEF CreateNodePool
    <3>2. p # NewId
      BY <3>1
    <3> HIDE DEF NewId
    <3> QED BY <1>1, <2>2, <3>1, <3>2 DEF CreateNodePool, Fresh
  <2>3. CASE UNCHANGED pools
    BY <1>2, <2>3
  <2> QED BY <2>1, <2>2, <2>3, EffectKinds DEF RecordPool, WriteRunning, ClearRow
<1>4. CASE \E q \in PoolIds : Retires(q)
  BY <1>1, <1>4 DEF Retires, Fresh
<1> QED
  BY <1>2, <1>3, <1>4, StepKinds
     DEF Quiet, WorkerSteps, Begin, Moves, ReadRow, FindPool, VerifyPool, Work, StepLost,
         Leaves, Elsewhere

-----------------------------------------------------------------------------
\* The pool ids in rows, and in the rows workers hold.

Fits(c, p, ps) == p # None => ps[p].name = PoolName[c] /\ ps[p].life # "unused"

SeenFits == \A w \in Workers : job[w] # Idle => Fits(Compute(w), job[w].seen.pool, pools)
RowsFit == \A c \in Computes : Fits(c, rows[c].pool, pools)

\* What fits a compute goes on to fit it: pools keep their names.
LEMMA FitsKept ==
  ASSUME TypeOK, [Next]_vars, NEW c, NEW p \in PoolIds \cup {None},
         Fits(c, p, pools)
  PROVE  Fits(c, p, pools')
BY PoolsKept DEF Fits, Fresh

\* A pool found under the name of a compute, or created for it, fits.
LEMMA NextSeenFits ==
  ASSUME TypeOK, SeenFits, RowsFit, [Next]_vars, NEW w \in Workers, job[w] # Idle,
         job'[w] # Idle
  PROVE  Fits(Compute(w), job'[w].seen.pool, pools') /\ job'[w].op = job[w].op
<1>1. JobsTyped /\ WorldTyped /\ overtaken \subseteq Workers
  BY TypeParts
<1>2. Compute(w) \in Computes /\ job[w].seen \in Row /\ rows[Compute(w)] \in Row
  BY <1>1, BusyWorker DEF WorldTyped
<1>3. ASSUME job'[w] = job[w] PROVE Fits(Compute(w), job'[w].seen.pool, pools')
  BY <1>2, <1>3, FitsKept DEF SeenFits, Row
<1>4. ASSUME NEW p \in PoolIds \cup {None}, Fits(Compute(w), p, pools),
             job'[w].op = job[w].op, job'[w].seen.pool = p
      PROVE  Fits(Compute(w), job'[w].seen.pool, pools')
  BY <1>2, <1>4, FitsKept
<1>5. CASE ReadRow(w)
  <2>1. job'[w].op = job[w].op /\ job'[w].seen.pool = rows[Compute(w)].pool
    BY <1>1, <1>5 DEF ReadRow, Goto, JobsTyped
  <2>2. rows[Compute(w)].pool \in PoolIds \cup {None} /\ Fits(Compute(w), rows[Compute(w)].pool, pools)
    BY <1>2 DEF RowsFit, Row
  <2> QED BY <1>4, <2>1, <2>2
<1>6. CASE FindPool(w)
  <2>1. CASE \E p \in Found(PoolName[Compute(w)]) : Goto(w, "record", [job[w].seen EXCEPT !.pool = p])
    <3>1. PICK p \in Found(PoolName[Compute(w)]) : Goto(w, "record", [job[w].seen EXCEPT !.pool = p])
      BY <2>1
    <3>2. job'[w].op = job[w].op /\ job'[w].seen.pool = p
      BY <1>1, <1>2, <3>1 DEF Goto, JobsTyped, Row
    <3>3. p \in PoolIds /\ Fits(Compute(w), p, pools)
      BY <3>1 DEF Found, Listed, Fits, Fresh
    <3> QED BY <1>4, <3>2, <3>3
  <2>2. CASE Goto(w, "create", job[w].seen)
    <3>1. job'[w].op = job[w].op /\ job'[w].seen.pool = job[w].seen.pool
      BY <1>1, <2>2 DEF Goto, JobsTyped
    <3> QED BY <1>2, <1>4, <3>1 DEF SeenFits, Row
  <2> QED BY <1>6, <2>1, <2>2 DEF FindPool
<1>7. CASE VerifyPool(w)
  <2>1. job'[w].op = job[w].op /\ job'[w].seen.pool = job[w].seen.pool
    BY <1>1, <1>7 DEF VerifyPool, Goto, JobsTyped
  <2> QED BY <1>2, <1>4, <2>1 DEF SeenFits, Row
<1>8. CASE Work(w)
  <2>1. CASE At(w, "create")
    <3>1. CreateNodePool(w)
      BY <1>8, <2>1
         DEF Work, Effect, At, ReserveClaim, RecordPool, CreateCompute, WriteRunning,
             DestroyCompute, ClearRow
    <3>2. NewId \in PoolIds
      BY <3>1, NewIdIsFresh DEF CreateNodePool
    <3> DEFINE id == NewId
    <3>3. job'[w].op = job[w].op /\ job'[w].seen.pool = id
      BY <1>1, <1>2, <1>8, <2>1 DEF Work, Goto, JobsTyped, Row, At
    <3>4. pools'[id] = [name |-> PoolName[Compute(w)], life |-> "normal"]
      BY <1>1, <3>1, <3>2 DEF CreateNodePool, WorldTyped
    <3> HIDE DEF id
    <3> QED BY <3>3, <3>4 DEF Fits
  <2>2. CASE ~At(w, "create")
    <3>1. Goto(w, "read", job[w].seen) \/ Goto(w, "verify", job[w].seen)
          \/ Goto(w, "write", job[w].seen) \/ Goto(w, "clear", NewRow) \/ Goto(w, "done", NewRow)
      BY <1>8, <2>2 DEF Work, AfterResolve
    <3>2. job'[w].op = job[w].op
          /\ (job'[w].seen.pool = job[w].seen.pool \/ job'[w].seen.pool = None)
      BY <1>1, <3>1 DEF Goto, JobsTyped, NewRow
    <3> QED BY <1>2, <1>4, <3>2 DEF SeenFits, Row, Fits
  <2> QED BY <2>1, <2>2
<1>9. job'[w] = job[w] \/ ReadRow(w) \/ FindPool(w) \/ VerifyPool(w) \/ Work(w)
  <2>1. ASSUME NEW v \in Workers, WorkerSteps(v), v # w PROVE job'[w] = job[w]
    BY <1>1, <2>1
       DEF WorkerSteps, Begin, Moves, ReadRow, FindPool, VerifyPool, Work, StepLost, Leaves,
           FailAttempt, Leave, Goto, JobsTyped
  <2>2. ASSUME WorkerSteps(w) PROVE ReadRow(w) \/ FindPool(w) \/ VerifyPool(w) \/ Work(w)
    BY <1>1, <2>2 DEF WorkerSteps, Begin, Moves, StepLost, Leaves, FailAttempt, Leave, JobsTyped
  <2> QED BY <2>1, <2>2, StepKinds DEF Quiet, Retires
<1> QED BY <1>3, <1>5, <1>6, <1>7, <1>8, <1>9

\* A worker that is idle, or has just begun, holds no pool.
LEMMA SeenFitsStep ==
  ASSUME TypeOK, SeenFits, RowsFit, [Next]_vars
  PROVE  SeenFits'
<1> SUFFICES ASSUME NEW w \in Workers, job'[w] # Idle
             PROVE  Fits(Compute(w)', job'[w].seen.pool, pools')
  BY DEF SeenFits
<1>1. CASE job[w] # Idle
  BY <1>1, NextSeenFits DEF Compute
<1>2. CASE job[w] = Idle
  <2>1. JobsTyped
    BY TypeParts
  <2>2. PICK v \in Workers : WorkerSteps(v)
    BY <1>2, StepKinds DEF Quiet, Retires
  <2>3. v = w
    BY <1>2, <2>1, <2>2
       DEF WorkerSteps, Begin, Moves, ReadRow, FindPool, VerifyPool, Work, StepLost, Leaves,
           FailAttempt, Leave, Goto, JobsTyped
  <2>4. \E o \in Operations : Begin(w, o)
    <3>1. ~(Moves(w) \/ Effect(w))
      BY <1>2, SomewhereIsBusy
         DEF Moves, ReadRow, FindPool, VerifyPool, Effect, At, ReserveClaim, CreateNodePool,
             RecordPool, CreateCompute, WriteRunning, DestroyCompute, ClearRow
    <3>2. ~Leave(w)
      BY <2>1 DEF Leave, JobsTyped
    <3> QED BY <2>2, <2>3, <3>1, <3>2 DEF WorkerSteps, Work, StepLost, Leaves
  <2> QED BY <2>1, <2>4 DEF Begin, JobsTyped, NewRow, Fits
<1> QED BY <1>1, <1>2

\* A row fits its compute, since what workers write back does.
LEMMA RowsFitStep ==
  ASSUME TypeOK, SeenFits, RowsFit, [Next]_vars
  PROVE  RowsFit'
<1> SUFFICES ASSUME NEW c \in Computes PROVE Fits(c, rows'[c].pool, pools')
  BY DEF RowsFit
<1>1. JobsTyped /\ WorldTyped
  BY TypeParts
<1>2. ASSUME NEW p \in PoolIds \cup {None}, Fits(c, p, pools), rows'[c].pool = p
      PROVE  Fits(c, rows'[c].pool, pools')
  BY <1>2, FitsKept
<1>3. rows[c].pool \in PoolIds \cup {None} /\ Fits(c, rows[c].pool, pools)
  BY <1>1 DEF WorldTyped, Row, RowsFit
<1>4. CASE UNCHANGED rows
  BY <1>2, <1>3, <1>4
<1>5. ASSUME NEW w \in Workers, RecordPool(w) \/ WriteRunning(w)
      PROVE  Fits(c, rows'[c].pool, pools')
  <2>1. job[w] # Idle
    BY <1>5, SomewhereIsBusy DEF RecordPool, WriteRunning, At
  <2>2. /\ job[w].seen.pool \in PoolIds \cup {None}
        /\ Fits(Compute(w), job[w].seen.pool, pools)
    BY <1>1, <2>1, BusyWorker DEF SeenFits, Row
  <2>3. rows'[c].pool = rows[c].pool \/ (Compute(w) = c /\ rows'[c].pool = job[w].seen.pool)
    BY <1>1, <1>5 DEF RecordPool, WriteRunning, WorldTyped
  <2> QED BY <1>2, <1>3, <2>2, <2>3
<1>6. ASSUME NEW w \in Workers, ClearRow(w) PROVE Fits(c, rows'[c].pool, pools')
  <2>1. rows'[c].pool = rows[c].pool \/ rows'[c].pool = None
    BY <1>1, <1>6 DEF ClearRow, WorldTyped
  <2> QED BY <1>2, <1>3, <2>1 DEF Fits
<1>7. UNCHANGED rows \/ \E w \in Workers : RecordPool(w) \/ WriteRunning(w) \/ ClearRow(w)
  BY StepKinds, EffectKinds
     DEF Quiet, Retires, WorkerSteps, Begin, Moves, ReadRow, FindPool, VerifyPool, Work,
         StepLost, Leaves, Elsewhere, CreateNodePool
<1> QED BY <1>4, <1>5, <1>6, <1>7

\* Rows with refs have their pool, those in the tables and those in workers' hands, and
\* whoever is about to write that a compute runs holds one.

Whole(row) == row.refs => row.pool # None

RowsWhole == \A c \in Computes : Whole(rows[c])

HandsWhole ==
  \A w \in Workers :
    /\ Whole(job[w].seen)
    /\ job[w].at \in {"deploy", "write"} => job[w].seen.pool # None

\* What a step does to the job of a worker.
LEMMA JobSteps ==
  ASSUME TypeOK, [Next]_vars, NEW w \in Workers
  PROVE  \/ job'[w] = job[w] \/ (\E o \in Operations : Begin(w, o))
         \/ Moves(w) \/ Work(w) \/ Leave(w)
<1>1. JobsTyped
  BY TypeParts
<1>2. ASSUME NEW v \in Workers, WorkerSteps(v), v # w PROVE job'[w] = job[w]
  BY <1>1, <1>2
     DEF WorkerSteps, Begin, Moves, ReadRow, FindPool, VerifyPool, Work, StepLost, Leaves,
         FailAttempt, Leave, Goto, JobsTyped
<1> QED BY <1>2, StepKinds DEF Quiet, Retires, WorkerSteps, StepLost, FailAttempt, Leaves

\* A worker reads whole rows, and adds a pool or nothing to what it has read.
LEMMA HandsWholeStep ==
  ASSUME TypeOK, HandsWhole, RowsWhole, [Next]_vars
  PROVE  HandsWhole'
<1> SUFFICES ASSUME NEW w \in Workers
             PROVE  /\ Whole(job'[w].seen)
                    /\ job'[w].at \in {"deploy", "write"} => job'[w].seen.pool # None
  BY DEF HandsWhole, Whole
<1>1. JobsTyped /\ WorldTyped
  BY TypeParts
<1>2. Whole(NewRow) /\ NewRow = Idle.seen /\ Idle.at = "idle"
  BY DEF Whole, NewRow, Idle
<1>3. CASE job'[w] = job[w]
  BY <1>3 DEF HandsWhole
<1>4. CASE \E o \in Operations : Begin(w, o)
  <2>1. job'[w].seen = NewRow /\ job'[w].at \in {"claim", "read"}
    BY <1>1, <1>4 DEF Begin, JobsTyped
  <2> QED BY <1>2, <2>1
<1>5. CASE Leave(w)
  BY <1>1, <1>2, <1>5 DEF Leave, JobsTyped
<1>6. ASSUME Moves(w) \/ Work(w)
      PROVE  job[w] # Idle /\ Compute(w) \in Computes /\ job[w].seen \in Row
  BY <1>1, <1>6, SomewhereIsBusy, BusyWorker
     DEF Moves, ReadRow, FindPool, VerifyPool, Work, At
<1>7. CASE ReadRow(w)
  <2>1. job'[w].seen = rows[Compute(w)]
    BY <1>1, <1>7 DEF ReadRow, Goto, JobsTyped
  <2>2. job'[w].at \notin {"deploy", "write"}
    BY <1>1, <1>7 DEF ReadRow, Goto, AfterRead, AfterResolve, JobsTyped
  <2> QED BY <1>6, <1>7, <2>1, <2>2 DEF RowsWhole, Moves
<1>8. ASSUME NEW p \in PoolIds, NEW name \in {"record", "create"},
             Goto(w, name, [job[w].seen EXCEPT !.pool = p]), job[w].seen \in Row
      PROVE  Whole(job'[w].seen) /\ job'[w].at \notin {"deploy", "write"}
  BY <1>1, <1>8, PoolAssumption DEF Goto, JobsTyped, Row, Whole
<1>9. ASSUME NEW name, Goto(w, name, job[w].seen),
             name \in {"deploy", "write"} => job[w].seen.pool # None
      PROVE  /\ Whole(job'[w].seen)
             /\ job'[w].at \in {"deploy", "write"} => job'[w].seen.pool # None
  <2>1. job'[w].seen = job[w].seen /\ job'[w].at = name
    BY <1>1, <1>9 DEF Goto, JobsTyped
  <2> QED BY <1>9, <2>1 DEF HandsWhole
<1>10. CASE FindPool(w)
  <2>1. Found(PoolName[Compute(w)]) \subseteq PoolIds
    BY DEF Found
  <2> QED BY <1>6, <1>8, <1>9, <1>10, <2>1 DEF FindPool, Moves
<1>11. CASE VerifyPool(w)
  BY <1>9, <1>11 DEF VerifyPool, Verified
<1>12. CASE Work(w)
  <2>1. CASE At(w, "create")
    <3>1. NewId \in PoolIds
      BY <1>12, <2>1, NewIdIsFresh
         DEF Work, Effect, At, ReserveClaim, CreateNodePool, RecordPool, CreateCompute,
             WriteRunning, DestroyCompute, ClearRow
    <3>2. Goto(w, "record", [job[w].seen EXCEPT !.pool = NewId])
      BY <1>12, <2>1 DEF Work, At
    <3> HIDE DEF NewId
    <3> QED BY <1>6, <1>8, <1>12, <3>1, <3>2
  <2>2. CASE At(w, "claim") \/ At(w, "record")
    <3>1. \E name \in {"read", "verify"} : Goto(w, name, job[w].seen)
      BY <1>12, <2>2 DEF Work, At, AfterResolve
    <3> QED BY <1>9, <3>1
  <2>3. CASE At(w, "deploy")
    <3>1. Goto(w, "write", job[w].seen) /\ job[w].seen.pool # None
      BY <1>12, <2>3 DEF Work, At, HandsWhole
    <3> QED BY <1>9, <3>1
  <2>4. CASE At(w, "delete") \/ At(w, "write") \/ At(w, "clear")
    <3>1. \E name \in {"clear", "done"} : Goto(w, name, NewRow)
      BY <1>12, <2>4 DEF Work, At
    <3>2. job'[w].seen = NewRow /\ job'[w].at \in {"clear", "done"}
      BY <1>1, <3>1 DEF Goto, JobsTyped
    <3> QED BY <1>2, <3>2
  <2> QED BY <1>12, <2>1, <2>2, <2>3, <2>4 DEF Work
<1> QED BY <1>3, <1>4, <1>5, <1>7, <1>10, <1>11, <1>12, JobSteps DEF Moves

\* Rows are written whole, so no part of one is left beside a part of another.
LEMMA RowsWholeStep ==
  ASSUME TypeOK, HandsWhole, RowsWhole, [Next]_vars
  PROVE  RowsWhole'
<1> SUFFICES ASSUME NEW c \in Computes PROVE Whole(rows'[c])
  BY DEF RowsWhole, Whole
<1>1. WorldTyped
  BY TypeParts
<1>2. CASE UNCHANGED rows
  BY <1>2 DEF RowsWhole
<1>3. ASSUME NEW w \in Workers, RecordPool(w) PROVE Whole(rows'[c])
  <2>1. rows'[c] = rows[c] \/ rows'[c] = job[w].seen
    BY <1>1, <1>3 DEF RecordPool, WorldTyped
  <2> QED BY <2>1 DEF RowsWhole, HandsWhole
<1>4. ASSUME NEW w \in Workers, WriteRunning(w) PROVE Whole(rows'[c])
  <2>1. job[w].seen.pool # None
    BY <1>4 DEF WriteRunning, At, HandsWhole
  <2>2. rows'[c] = rows[c] \/ rows'[c].pool = job[w].seen.pool
    BY <1>1, <1>4 DEF WriteRunning, WorldTyped
  <2> QED BY <2>1, <2>2 DEF RowsWhole, Whole
<1>5. ASSUME NEW w \in Workers, ClearRow(w) PROVE Whole(rows'[c])
  <2>1. rows'[c] = rows[c] \/ rows'[c].refs = FALSE
    BY <1>1, <1>5 DEF ClearRow, WorldTyped
  <2> QED BY <2>1 DEF RowsWhole, Whole
<1>6. UNCHANGED rows \/ \E w \in Workers : RecordPool(w) \/ WriteRunning(w) \/ ClearRow(w)
  BY StepKinds, EffectKinds
     DEF Quiet, Retires, WorkerSteps, Begin, Moves, ReadRow, FindPool, VerifyPool, Work,
         StepLost, Leaves, Elsewhere, CreateNodePool
<1> QED BY <1>2, <1>3, <1>4, <1>5, <1>6

\* RowsNameTheirPool, whatever is written back from a row read long before and whoever
\* has written it since: a worker only ever holds ids it found under, or created for, the
\* name of its compute, and writes them together with the refs.
THEOREM RowsAreRight == Spec => []RowsNameTheirPool
<1>1. Init => SeenFits /\ RowsFit /\ HandsWhole /\ RowsWhole
  BY DEF Init, SeenFits, RowsFit, Fits, HandsWhole, RowsWhole, Whole, NewRow, Idle
<1>2. TypeOK /\ SeenFits /\ RowsFit /\ [Next]_vars => (SeenFits /\ RowsFit)'
  BY SeenFitsStep, RowsFitStep
<1>3. TypeOK /\ HandsWhole /\ RowsWhole /\ [Next]_vars => (HandsWhole /\ RowsWhole)'
  BY HandsWholeStep, RowsWholeStep
<1>4. RowsFit /\ RowsWhole => RowsNameTheirPool
  BY DEF RowsFit, RowsWhole, Whole, RowsNameTheirPool, Fits, Fresh
<1> QED BY <1>1, <1>2, <1>3, <1>4, TypeCorrect, PTL DEF Spec

-----------------------------------------------------------------------------
\* The pool under a Deployment that is about to be created.

VerifiedBefore ==
  \A w \in Workers :
    At(w, "deploy") =>
      /\ job[w].seen.pool \in PoolIds
      /\ pools[job[w].seen.pool].life = "normal" \/ w \in overtaken

\* VerifyPool is the only way to "deploy", and a pool that is retired under a worker
\* that is there is noted.
LEMMA VerifiedStep ==
  ASSUME TypeOK, VerifiedBefore, [Next]_vars
  PROVE  VerifiedBefore'
<1> SUFFICES ASSUME NEW w \in Workers, job'[w].at = "deploy"
             PROVE  /\ job'[w].seen.pool \in PoolIds
                    /\ pools'[job'[w].seen.pool].life = "normal" \/ w \in overtaken'
  BY DEF VerifiedBefore, At
<1>1. JobsTyped /\ WorldTyped /\ overtaken \subseteq Workers
  BY TypeParts
<1>2. CASE Quiet
  BY <1>2 DEF Quiet, VerifiedBefore, At
<1>3. ASSUME NEW p \in PoolIds, Retires(p)
      PROVE  /\ job'[w].seen.pool \in PoolIds
             /\ pools'[job'[w].seen.pool].life = "normal" \/ w \in overtaken'
  BY <1>1, <1>3 DEF Retires, VerifiedBefore, At, WorldTyped
<1>4. ASSUME WorkerSteps(w)
      PROVE  /\ job'[w].seen.pool \in PoolIds
             /\ pools'[job'[w].seen.pool].life = "normal" \/ w \in overtaken'
  <2>1. ~(\E o \in Operations : Begin(w, o))
    BY <1>1 DEF Begin, JobsTyped
  <2>2. ~ReadRow(w)
    BY <1>1 DEF ReadRow, Goto, AfterRead, AfterResolve, JobsTyped
  <2>3. ~FindPool(w)
    <3>1. FindPool(w) => job'[w].at \in {"record", "create"}
      BY <1>1, GotoLeads DEF FindPool
    <3> QED BY <3>1
  <2>4. ~Work(w)
    <3>1. "deploy" \notin {"read", "record", "verify", "write", "clear", "done"}
      OBVIOUS
    <3>2. AfterResolve(w) \in {"read", "verify"}
      BY DEF AfterResolve
    <3> QED BY <1>1, <3>1, <3>2 DEF Work, Goto, JobsTyped
  <2>5. ~Leave(w)
    BY <1>1 DEF Leave, JobsTyped, Idle
  <2>6. VerifyPool(w)
    BY <1>4, <2>1, <2>2, <2>3, <2>4, <2>5 DEF WorkerSteps, Moves, StepLost, FailAttempt, Leaves
  <2>7. job[w] # Idle
    BY <2>6, SomewhereIsBusy DEF VerifyPool, At
  <2>8. job[w].seen.pool \in PoolIds /\ pools[job[w].seen.pool].life = "normal"
    BY <1>1, <2>6, <2>7, BusyWorker DEF VerifyPool, Verified, Row
  <2>9. job'[w].seen = job[w].seen /\ pools' = pools
    BY <1>1, <2>6 DEF VerifyPool, Goto, JobsTyped, Elsewhere
  <2> QED BY <2>8, <2>9
<1>5. ASSUME NEW v \in Workers, v # w, WorkerSteps(v)
      PROVE  /\ job'[w].seen.pool \in PoolIds
             /\ pools'[job'[w].seen.pool].life = "normal" \/ w \in overtaken'
  <2>1. job'[w] = job[w] /\ (w \in overtaken => w \in overtaken')
    BY <1>1, <1>5
       DEF WorkerSteps, Begin, Moves, ReadRow, FindPool, VerifyPool, Work, StepLost, Leaves,
           FailAttempt, Leave, Goto, JobsTyped
  <2>2. ASSUME NEW p \in PoolIds, pools[p].life = "normal" PROVE pools'[p].life = "normal"
    <3>1. CASE UNCHANGED pools
      BY <2>2, <3>1
    <3>2. CASE CreateNodePool(v)
      <4>1. NewId \in PoolIds /\ Fresh(NewId)
        BY <3>2, NewIdIsFresh DEF CreateNodePool
      <4>2. p # NewId
        BY <2>2, <4>1 DEF Fresh
      <4> HIDE DEF NewId
      <4> QED BY <1>1, <2>2, <3>2, <4>1, <4>2 DEF CreateNodePool, WorldTyped
    <3> QED
      BY <1>5, <3>1, <3>2, EffectKinds
         DEF WorkerSteps, Begin, Moves, ReadRow, FindPool, VerifyPool, Work, StepLost, Leaves,
             Elsewhere, RecordPool, WriteRunning, ClearRow
  <2> QED BY <2>1, <2>2 DEF VerifiedBefore, At
<1> QED BY <1>2, <1>3, <1>4, <1>5, StepKinds

\* DeploysOnLivePool: no attempt, however old the id in its row, creates a Deployment
\* for a pool that was not working when the attempt looked.
THEOREM DeploymentsHavePools == Spec => []DeploysOnLivePool
<1>1. Init => VerifiedBefore
  BY DEF Init, VerifiedBefore, At, Idle
<1>2. TypeOK /\ VerifiedBefore /\ [Next]_vars => VerifiedBefore'
  BY VerifiedStep
<1>3. VerifiedBefore => DeploysOnLivePool
  BY DEF VerifiedBefore, DeploysOnLivePool
<1> QED BY <1>1, <1>2, <1>3, TypeCorrect, PTL DEF Spec

-----------------------------------------------------------------------------
\* How many pools an instance type can have.

Working(n, ps) == {p \in PoolIds : ps[p].name = n /\ ps[p].life = "normal"}
Creating(n, js) == {w \in Workers : js[w].at = "create" /\ PoolName[Target[js[w].op]] = n}

\* Each worker that has seen no pool may add one.
PoolsBounded ==
  \A n \in Names :
    /\ Creating(n, job) \subseteq Allowed
    /\ Cardinality(Working(n, pools)) + Cardinality(Creating(n, job)) <= Cardinality(Allowed)

\* The sets that are counted are finite.
LEMMA FinitePoolsAndWorkers ==
  ASSUME NEW n
  PROVE  /\ \A ps : IsFiniteSet(Working(n, ps))
         /\ \A js : IsFiniteSet(Creating(n, js))
         /\ IsFiniteSet(Allowed)
BY PoolAssumption, FS_Subset DEF Working, Creating

\* Fewer pools and fewer creators.
LEMMA FewerAreBounded ==
  ASSUME NEW N, NEW K, NEW N1, NEW K1, NEW A,
         IsFiniteSet(N), IsFiniteSet(K), IsFiniteSet(A),
         N1 \subseteq N, K1 \subseteq K, Cardinality(N) + Cardinality(K) <= Cardinality(A)
  PROVE  Cardinality(N1) + Cardinality(K1) <= Cardinality(A)
<1>1. IsFiniteSet(N1) /\ IsFiniteSet(K1) /\ Cardinality(N1) <= Cardinality(N)
      /\ Cardinality(K1) <= Cardinality(K)
  BY FS_Subset
<1>2. /\ Cardinality(N) \in Nat /\ Cardinality(K) \in Nat /\ Cardinality(A) \in Nat
      /\ Cardinality(N1) \in Nat /\ Cardinality(K1) \in Nat
  BY <1>1, FS_CardinalityType
<1> QED BY <1>1, <1>2

\* A creator turned into a pool.
LEMMA CreatorBecomesPool ==
  ASSUME NEW N, NEW K, NEW N1, NEW K1, NEW A, NEW id, NEW w \in K,
         IsFiniteSet(N), IsFiniteSet(K), IsFiniteSet(A),
         N1 \subseteq N \cup {id}, K1 \subseteq K \ {w},
         Cardinality(N) + Cardinality(K) <= Cardinality(A)
  PROVE  Cardinality(N1) + Cardinality(K1) <= Cardinality(A)
<1>1. IsFiniteSet(N \cup {id}) /\ Cardinality(N \cup {id}) <= Cardinality(N) + 1
  <2> DEFINE M == N \cup {id}
  <2>1. IsFiniteSet(M) /\ (Cardinality(M) = Cardinality(N) \/ Cardinality(M) = Cardinality(N) + 1)
    BY FS_AddElement
  <2>2. Cardinality(N) \in Nat
    BY FS_CardinalityType
  <2> HIDE DEF M
  <2>3. IsFiniteSet(M) /\ Cardinality(M) <= Cardinality(N) + 1
    BY <2>1, <2>2
  <2> QED BY <2>3 DEF M
<1>2. IsFiniteSet(K \ {w}) /\ Cardinality(K \ {w}) = Cardinality(K) - 1
  BY FS_RemoveElement
<1>3. /\ Cardinality(N) \in Nat /\ Cardinality(K) \in Nat /\ Cardinality(A) \in Nat
      /\ Cardinality(N \cup {id}) \in Nat /\ Cardinality(K \ {w}) \in Nat
  BY <1>1, <1>2, FS_CardinalityType
<1>4. Cardinality(N \cup {id}) + Cardinality(K \ {w}) <= Cardinality(A)
  BY <1>1, <1>2, <1>3
<1> QED BY <1>1, <1>2, <1>4, FewerAreBounded

\* A worker becomes a creator only when it is allowed to and no pool is listed.
LEMMA NextCreating ==
  ASSUME TypeOK, [Next]_vars, NEW n, NEW w \in Creating(n, job')
  PROVE  \/ w \in Creating(n, job) /\ job'[w] = job[w]
         \/ w \in Allowed /\ Working(n, pools) = {} /\ UNCHANGED pools
<1>1. JobsTyped
  BY TypeParts
<1>2. w \in Workers /\ job'[w].at = "create"
  BY DEF Creating
<1>3. ASSUME WorkerSteps(w) PROVE FindPool(w)
  <2>1. ~(\E o \in Operations : Begin(w, o)) /\ ~ReadRow(w) /\ ~VerifyPool(w) /\ ~Leave(w)
    BY <1>1, <1>2 DEF Begin, ReadRow, VerifyPool, Leave, Goto, AfterRead, AfterResolve, JobsTyped, Idle
  <2>2. ~Work(w)
    <3>1. AfterResolve(w) \in {"read", "verify"}
      BY DEF AfterResolve
    <3> QED BY <1>1, <1>2, <3>1 DEF Work, Goto, JobsTyped
  <2> QED BY <1>3, <2>1, <2>2 DEF WorkerSteps, Moves, StepLost, FailAttempt, Leaves
<1>4. CASE FindPool(w)
  <2>1. \A row : ~Goto(w, "record", row)
    BY <1>1, <1>2, GotoLeads
  <2>2. /\ Found(PoolName[Compute(w)]) = {} /\ w \in Allowed
        /\ Goto(w, "create", job[w].seen)
    BY <1>4, <2>1 DEF FindPool
  <2>3. PoolName[Compute(w)] = n
    BY <1>1, <1>2, <2>2, GotoLeads DEF Creating, Compute
  <2> QED BY <1>4, <2>2, <2>3 DEF Found, Listed, Working, FindPool, Elsewhere
<1>5. CASE job'[w] = job[w]
  BY <1>2, <1>5 DEF Creating
<1>6. ASSUME NEW v \in Workers, v # w, WorkerSteps(v) PROVE job'[w] = job[w]
  BY <1>1, <1>2, <1>6
     DEF WorkerSteps, Begin, Moves, ReadRow, FindPool, VerifyPool, Work, StepLost, Leaves,
         FailAttempt, Leave, Goto, JobsTyped
<1> QED BY <1>3, <1>4, <1>5, <1>6, StepKinds DEF Quiet, Retires

\* What a step does to the working pools of a name.
LEMMA NextWorking ==
  ASSUME TypeOK, [Next]_vars, NEW n \in Names
  PROVE  \/ Working(n, pools') \subseteq Working(n, pools)
         \/ \E v \in Creating(n, job) :
              /\ job'[v] # job[v] /\ pools' # pools
              /\ \E id : Working(n, pools') \subseteq Working(n, pools) \cup {id}
<1>1. JobsTyped /\ WorldTyped
  BY TypeParts
<1>2. CASE UNCHANGED pools
  BY <1>2 DEF Working
<1>3. CASE \E p \in PoolIds : Retires(p)
  BY <1>1, <1>3 DEF Retires, Working, WorldTyped
<1>4. ASSUME NEW v \in Workers, Work(v) \/ StepLost(v), CreateNodePool(v)
      PROVE  \/ Working(n, pools') \subseteq Working(n, pools)
             \/ \E u \in Creating(n, job) :
                  /\ job'[u] # job[u] /\ pools' # pools
                  /\ \E id : Working(n, pools') \subseteq Working(n, pools) \cup {id}
  <2>1. NewId \in PoolIds /\ pools[NewId].life = "unused"
    BY <1>4, NewIdIsFresh DEF CreateNodePool, Fresh
  <2> DEFINE id == NewId
  <2>2. pools' = [pools EXCEPT ![id] = [name |-> PoolName[Compute(v)], life |-> "normal"]]
    BY <1>4 DEF CreateNodePool
  <2>3. id \in PoolIds /\ pools[id].life = "unused"
    BY <2>1
  <2> HIDE DEF id
  <2>4. Working(n, pools') \subseteq Working(n, pools) \cup {id}
    BY <1>1, <2>2, <2>3 DEF Working, WorldTyped
  <2>5. pools'[id].life # pools[id].life
    BY <1>1, <2>2, <2>3 DEF WorldTyped
  <2>6. CASE PoolName[Compute(v)] = n
    <3>1. v \in Creating(n, job)
      BY <1>4, <2>6 DEF CreateNodePool, At, Creating, Compute
    <3>2. job'[v].at # "create"
      <4>1. AfterResolve(v) \in {"read", "verify"}
        BY DEF AfterResolve
      <4> QED BY <1>1, <1>4, <4>1 DEF Work, StepLost, FailAttempt, Leave, Goto, JobsTyped, Idle
    <3>3. job[v].at = "create"
      BY <1>4 DEF CreateNodePool, At
    <3> QED BY <2>4, <2>5, <3>1, <3>2, <3>3
  <2>7. CASE PoolName[Compute(v)] # n
    BY <1>1, <2>2, <2>3, <2>7 DEF Working, WorldTyped
  <2> QED BY <2>6, <2>7
<1> QED
  BY <1>2, <1>3, <1>4, StepKinds, EffectKinds
     DEF Quiet, WorkerSteps, Begin, Moves, ReadRow, FindPool, VerifyPool, Work, StepLost,
         Leaves, Elsewhere, RecordPool, WriteRunning, ClearRow

\* PoolsBounded is kept.
LEMMA PoolsBoundedStep ==
  ASSUME TypeOK, PoolsBounded, [Next]_vars
  PROVE  PoolsBounded'
<1> SUFFICES ASSUME NEW n \in Names
             PROVE  /\ Creating(n, job') \subseteq Allowed
                    /\ Cardinality(Working(n, pools')) + Cardinality(Creating(n, job'))
                         <= Cardinality(Allowed)
  BY DEF PoolsBounded
<1> DEFINE N == Working(n, pools)
           K == Creating(n, job)
           N1 == Working(n, pools')
           K1 == Creating(n, job')
<1>1. K \subseteq Allowed /\ Cardinality(N) + Cardinality(K) <= Cardinality(Allowed)
  BY DEF PoolsBounded
<1>2. IsFiniteSet(N) /\ IsFiniteSet(K) /\ IsFiniteSet(Allowed)
  BY FinitePoolsAndWorkers
<1>3. ASSUME NEW w \in K1
      PROVE  \/ w \in K /\ job'[w] = job[w]
             \/ w \in Allowed /\ N = {} /\ pools' = pools
  BY NextCreating
<1>4. K1 \subseteq Allowed
  BY <1>1, <1>3
<1>5. \/ N1 \subseteq N
      \/ \E v \in K : job'[v] # job[v] /\ pools' # pools /\ \E id : N1 \subseteq N \cup {id}
  BY NextWorking
<1>6. CASE N = {} /\ pools' = pools
  <2>1. N1 = {}
    BY <1>6
  <2>2. Cardinality(K1) <= Cardinality(Allowed) /\ IsFiniteSet(K1)
    BY <1>2, <1>4, FS_Subset
  <2>3. Cardinality(N1) = 0 /\ Cardinality(K1) \in Nat
    BY <2>1, <2>2, FS_EmptySet, FS_CardinalityType
  <2> HIDE DEF N1, K1
  <2>4. Cardinality(N1) + Cardinality(K1) <= Cardinality(Allowed)
    BY <2>2, <2>3
  <2> QED BY <1>4, <2>4 DEF N1, K1
<1>7. CASE ~(N = {} /\ pools' = pools)
  <2>1. \A w \in K1 : w \in K /\ job'[w] = job[w]
    BY <1>3, <1>7
  <2> HIDE DEF N, K, N1, K1
  <2>2. CASE N1 \subseteq N
    <3>1. K1 \subseteq K
      BY <2>1
    <3>2. Cardinality(N1) + Cardinality(K1) <= Cardinality(Allowed)
      BY <1>1, <1>2, <2>2, <3>1, FewerAreBounded
    <3> QED BY <1>4, <3>2 DEF N1, K1
  <2>3. CASE \E v \in K : job'[v] # job[v] /\ \E id : N1 \subseteq N \cup {id}
    <3>1. PICK v \in K : job'[v] # job[v] /\ \E id : N1 \subseteq N \cup {id}
      BY <2>3
    <3>2. PICK id : N1 \subseteq N \cup {id}
      BY <3>1
    <3>3. K1 \subseteq K \ {v}
      BY <2>1, <3>1
    <3>4. Cardinality(N1) + Cardinality(K1) <= Cardinality(Allowed)
      BY <1>1, <1>2, <3>3, <3>2, CreatorBecomesPool
    <3> QED BY <1>4, <3>4 DEF N1, K1
  <2> QED BY <1>5, <2>2, <2>3
<1> QED BY <1>6, <1>7

\* PoolsPerType: EnsureNodePool's look before it creates holds retries, lost replies and
\* crashes to one pool for each worker that can race.
THEOREM PoolsAreBounded == Spec => []PoolsPerType
<1>1. Init => PoolsBounded
  <2> SUFFICES ASSUME Init, NEW n \in Names
               PROVE  /\ Creating(n, job) \subseteq Allowed
                      /\ Cardinality(Working(n, pools)) + Cardinality(Creating(n, job))
                           <= Cardinality(Allowed)
    BY DEF PoolsBounded
  <2>1. Creating(n, job) = {} /\ Working(n, pools) = {}
    BY DEF Init, Creating, Working, Idle
  <2>2. Cardinality(Allowed) \in Nat
    BY PoolAssumption, FS_Subset, FS_CardinalityType
  <2> QED BY <2>1, <2>2, FS_EmptySet
<1>2. TypeOK /\ PoolsBounded /\ [Next]_vars => PoolsBounded'
  BY PoolsBoundedStep
<1>3. PoolsBounded => PoolsPerType
  <2> SUFFICES ASSUME PoolsBounded, NEW c \in Computes
               PROVE  Cardinality(Working(PoolName[c], pools)) <= Cardinality(Allowed)
    BY DEF PoolsPerType, Working
  <2> DEFINE n == PoolName[c]
  <2>1. /\ Cardinality(Working(n, pools)) \in Nat /\ Cardinality(Creating(n, job)) \in Nat
        /\ Cardinality(Allowed) \in Nat
    BY FinitePoolsAndWorkers, FS_CardinalityType
  <2>2. Cardinality(Working(n, pools)) + Cardinality(Creating(n, job)) <= Cardinality(Allowed)
    BY DEF PoolsBounded, Names
  <2> QED BY <2>1, <2>2
<1> QED BY <1>1, <1>2, <1>3, TypeCorrect, PTL DEF Spec

-----------------------------------------------------------------------------
\* Where pods run.

\* A pod that runs belongs to a Deployment and runs in a pool of its instance type.
PodsFit ==
  \A c \in Computes :
    node[c] # None =>
      /\ c \in deployments
      /\ pools[node[c]].name = PoolName[c]
      /\ pools[node[c]].life \in {"normal", "deleting"}

\* Steps that place no pod and take no pool away leave pods where they are, or end them.
LEMMA PodsStay ==
  ASSUME TypeOK, [Next]_vars
  PROVE  \/ \E c \in Computes : Schedule(c)
         \/ \E p \in PoolIds : PoolGone(p)
         \/ /\ \A c \in Computes :
                 node'[c] # None =>
                   node'[c] = node[c] /\ (c \in deployments => c \in deployments')
            /\ \A p \in PoolIds : pools'[p].life = "gone" => pools[p].life = "gone"
<1> DEFINE Stay ==
      /\ \A c \in Computes :
           node'[c] # None => node'[c] = node[c] /\ (c \in deployments => c \in deployments')
      /\ \A p \in PoolIds : pools'[p].life = "gone" => pools[p].life = "gone"
<1>1. WorldTyped
  BY TypeParts
<1>2. CASE UNCHANGED vars \/ \E o \in Operations : Submit(o)
  BY <1>2 DEF vars, Submit, Elsewhere
<1>3. CASE \E w \in Workers, o \in Operations : Begin(w, o)
  BY <1>3 DEF Begin, Elsewhere
<1>4. ASSUME NEW w \in Workers, Effect(w) PROVE Stay
  <2>1. CASE CreateNodePool(w)
    <3>1. NewId \in PoolIds
      BY <2>1, NewIdIsFresh DEF CreateNodePool
    <3> HIDE DEF NewId
    <3> QED BY <1>1, <2>1, <3>1 DEF CreateNodePool, WorldTyped
  <2>2. CASE DestroyCompute(w)
    BY <1>1, <2>2 DEF DestroyCompute, WorldTyped
  <2>3. CASE CreateCompute(w)
    BY <2>3 DEF CreateCompute
  <2>4. CASE ReserveClaim(w) \/ RecordPool(w) \/ WriteRunning(w) \/ ClearRow(w)
    BY <2>4 DEF ReserveClaim, RecordPool, WriteRunning, ClearRow
  <2> QED BY <1>4, <2>1, <2>2, <2>3, <2>4 DEF Effect
<1>5. ASSUME NEW w \in Workers, Attempt(w) \/ Crash(w) PROVE Stay
  <2>1. CASE Work(w) \/ StepLost(w)
    BY <1>4, <2>1 DEF Work, StepLost
  <2>2. CASE CreateComputeUndone(w)
    BY <1>1, <2>2 DEF CreateComputeUndone, WorldTyped
  <2>3. CASE ReadRow(w) \/ FindPool(w) \/ VerifyPool(w) \/ Succeed(w) \/ StepFails(w) \/ Crash(w)
    BY <2>3 DEF ReadRow, FindPool, VerifyPool, Succeed, StepFails, Crash, LoseWorker, Elsewhere
  <2> QED BY <1>5, <2>1, <2>2, <2>3 DEF Attempt, Advance, Fails
<1>6. CASE Cleanup
  <2>1. CASE DeleteDeployment
    BY <1>1, <2>1 DEF DeleteDeployment, WorldTyped
  <2>2. CASE DeleteNodePool
    BY <1>1, <2>2 DEF DeleteNodePool, WorldTyped
  <2>3. CASE Discover \/ ListDeployments \/ ListClaims \/ DeleteClaim \/ CleanupDone
             \/ CleanupFails
    BY <2>3
       DEF Discover, ListDeployments, ListClaims, DeleteClaim, CleanupDone, CleanupFails,
           Elsewhere
  <2> QED BY <1>6, <2>1, <2>2, <2>3 DEF Cleanup
<1> QED BY <1>2, <1>3, <1>5, <1>6 DEF Next, Cluster

\* PodsFit is kept: a pool keeps its name, and its pods end before it is gone.
LEMMA PodsFitStep ==
  ASSUME TypeOK, PodsFit, [Next]_vars
  PROVE  PodsFit'
<1>1. WorldTyped
  BY TypeParts
<1>2. \A p \in PoolIds : ~Fresh(p) => pools'[p].name = pools[p].name
                                      /\ pools'[p].life # "unused"
  BY PoolsKept
<1>3. CASE \E c \in Computes : Schedule(c)
  BY <1>1, <1>3 DEF Schedule, PodsFit, WorldTyped
<1>4. CASE \E p \in PoolIds : PoolGone(p)
  BY <1>1, <1>4 DEF PoolGone, PodsFit, WorldTyped
<1>5. CASE /\ \A c \in Computes :
                node'[c] # None =>
                  node'[c] = node[c] /\ (c \in deployments => c \in deployments')
           /\ \A p \in PoolIds : pools'[p].life = "gone" => pools[p].life = "gone"
  <2> SUFFICES ASSUME NEW c \in Computes, node'[c] # None
               PROVE  /\ c \in deployments'
                      /\ pools'[node'[c]].name = PoolName[c]
                      /\ pools'[node'[c]].life \in {"normal", "deleting"}
    BY DEF PodsFit
  <2>1. node'[c] = node[c] /\ node[c] \in PoolIds /\ c \in deployments'
    BY <1>1, <1>5 DEF PodsFit, WorldTyped
  <2>2. /\ pools[node[c]].name = PoolName[c]
        /\ pools[node[c]].life \in {"normal", "deleting"}
    BY <2>1 DEF PodsFit
  <2>3. pools'[node[c]].life \in {"unused", "normal", "deleting", "gone"}
    BY <2>1, TypeStep, TypeParts DEF WorldTyped, TypeOK
  <2> QED BY <1>2, <1>5, <2>1, <2>2, <2>3 DEF Fresh
<1> QED BY <1>3, <1>4, <1>5, PodsStay

\* Two computes of one instance type whose pods run on working machines are on the same.
OneMachinePerType ==
  \A c, d \in Computes :
    /\ PoolName[c] = PoolName[d]
    /\ node[c] # None /\ pools[node[c]].life = "normal"
    /\ node[d] # None /\ pools[node[d]].life = "normal"
    => node[c] = node[d]

\* With at most one worker that may change pools (the manifest runs one replica,
\* deploy/k8s/opl-fabric-api.yaml:60) computes of the same instance type always share their
\* machine, however many there are and whatever fails: no retry, restart or choice of the
\* scheduler makes a compute exclusive.
THEOREM ComputesShareMachine ==
  ASSUME Cardinality(Allowed) <= 1
  PROVE  Spec => []OneMachinePerType
<1>1. Init => PodsFit
  BY DEF Init, PodsFit
<1>2. TypeOK /\ PodsFit /\ [Next]_vars => PodsFit'
  BY PodsFitStep
<1>3. TypeOK /\ PodsFit /\ PoolsPerType => OneMachinePerType
  <2> SUFFICES ASSUME TypeOK, PodsFit, PoolsPerType, NEW c \in Computes, NEW d \in Computes,
                      PoolName[c] = PoolName[d],
                      node[c] # None, pools[node[c]].life = "normal",
                      node[d] # None, pools[node[d]].life = "normal"
               PROVE  node[c] = node[d]
    BY DEF OneMachinePerType
  <2> DEFINE P == Working(PoolName[c], pools)
  <2>1. node[c] \in P /\ node[d] \in P
    BY TypeParts DEF PodsFit, WorldTyped, Working
  <2>2. IsFiniteSet(P) /\ IsFiniteSet(Allowed)
    BY FinitePoolsAndWorkers
  <2>3. Cardinality(P) <= Cardinality(Allowed)
    BY DEF PoolsPerType, Working
  <2> HIDE DEF P
  <2>4. Cardinality(P) \in Nat /\ Cardinality(Allowed) \in Nat /\ Cardinality(P) # 0
    BY <2>1, <2>2, FS_CardinalityType, FS_EmptySet
  <2>5. Cardinality(P) = 1
    BY <2>3, <2>4
  <2>6. \E x : P = {x}
    BY <2>2, <2>5, FS_Singleton
  <2> QED BY <2>1, <2>6
<1> QED BY <1>1, <1>2, <1>3, TypeCorrect, PoolsAreBounded, PTL DEF Spec

-----------------------------------------------------------------------------
\* The staging cleanup.

\* What is left to delete while no worker has begun anything since the cleanup did.
CleanupKeepsTrack ==
  cleanup.alone =>
    /\ \A w \in Workers : job[w] = Idle
    /\ cleanup.at = "deployments" => deployments \subseteq cleanup.targets
    /\ cleanup.at \in {"claims", "pools", "done"} => deployments = {}
    /\ cleanup.at = "claims" => claims \subseteq cleanup.targets
    /\ cleanup.at \in {"pools", "done"} => claims = {}
    /\ cleanup.read /\ cleanup.at \in {"list", "deployments", "claims", "pools"} =>
         \A p \in NamedPools : pools[p].life = "normal" => p \in cleanup.ids
    /\ cleanup.read /\ cleanup.at = "done" =>
         \A p \in NamedPools : pools[p].life # "normal"

\* A worker's step does not meet a cleanup that is alone, and ends its being so.
LEMMA WorkersDisturb ==
  ASSUME TypeOK, CleanupKeepsTrack, NEW w \in Workers,
         (\E o \in Operations : Begin(w, o)) \/ Attempt(w) \/ Crash(w)
  PROVE  ~cleanup'.alone
<1>1. CASE \E o \in Operations : Begin(w, o)
  BY <1>1 DEF Begin, TypeOK
<1>2. CASE Attempt(w) \/ Crash(w)
  <2>1. job[w] # Idle
    BY <1>2, SomewhereIsBusy
       DEF Attempt, Advance, Fails, Crash, LoseWorker, ReadRow, FindPool, VerifyPool, Work,
           Succeed, StepFails, StepLost, CreateComputeUndone, At, Effect, ReserveClaim,
           CreateNodePool, RecordPool, CreateCompute, WriteRunning, DestroyCompute, ClearRow
  <2>2. UNCHANGED cleanup
    BY <1>2
       DEF Attempt, Advance, Fails, Crash, LoseWorker, ReadRow, FindPool, VerifyPool, Work,
           Succeed, StepFails, StepLost, CreateComputeUndone, FailAttempt, Leave
  <2> QED BY <2>1, <2>2 DEF CleanupKeepsTrack
<1> QED BY <1>1, <1>2

\* What the cleanup has passed by stays empty while it is alone.
LEMMA CleanupStep ==
  ASSUME TypeOK, CleanupKeepsTrack, [Next]_vars
  PROVE  CleanupKeepsTrack'
<1>1. WorldTyped /\ CleanupTyped
  BY TypeParts
<1>2. NamedPools \subseteq PoolIds
  BY <1>1 DEF NamedPools, WorldTyped, Row
<1>3. CASE UNCHANGED vars \/ \E o \in Operations : Submit(o)
  BY <1>3 DEF vars, Submit, Elsewhere, CleanupKeepsTrack, NamedPools
<1>4. CASE \E w \in Workers : (\E o \in Operations : Begin(w, o)) \/ Attempt(w) \/ Crash(w)
  BY <1>4, WorkersDisturb DEF CleanupKeepsTrack
<1>5. CASE Cluster
  <2>1. CASE \E c \in Computes : Schedule(c)
    BY <2>1 DEF Schedule, CleanupKeepsTrack, NamedPools
  <2>2. CASE \E p \in PoolIds : PoolGone(p)
    <3>1. UNCHANGED <<job, rows, claims, deployments, cleanup>>
      BY <2>2 DEF PoolGone
    <3>2. \A q \in PoolIds : pools'[q].life = "normal" => pools[q].life = "normal"
      BY <1>1, <2>2 DEF PoolGone, WorldTyped
    <3>3. NamedPools' = NamedPools
      BY <3>1 DEF NamedPools
    <3> QED BY <1>2, <3>1, <3>2, <3>3 DEF CleanupKeepsTrack
  <2> QED BY <1>5, <2>1, <2>2 DEF Cluster
<1>6. CASE Discover
  <2>1. PICK extra \in SUBSET ExtraIds, read \in {TRUE, "calls" \notin Faults} :
          cleanup' = [at |-> "list", targets |-> {}, read |-> read,
                      ids |-> extra \cup (IF read THEN NamedPools ELSE {}),
                      alone |-> \A w \in Workers : job[w] = Idle]
    BY <1>6 DEF Discover
  <2>2. UNCHANGED <<job, rows, pools>> /\ NamedPools' = NamedPools
    BY <1>6 DEF Discover, Elsewhere, NamedPools
  <2> HIDE DEF NamedPools
  <2>3. cleanup'.at = "list" /\ (cleanup'.alone => \A w \in Workers : job[w] = Idle)
    BY <2>1
  <2>4. cleanup'.read => NamedPools \subseteq cleanup'.ids
    BY <2>1
  <2> QED BY <2>2, <2>3, <2>4 DEF CleanupKeepsTrack
<1>7. CASE ListDeployments
  BY <1>1, <1>7 DEF ListDeployments, Elsewhere, CleanupKeepsTrack, NamedPools, CleanupTyped
<1>8. CASE DeleteDeployment
  BY <1>1, <1>8 DEF DeleteDeployment, CleanupKeepsTrack, NamedPools, CleanupTyped
<1>9. CASE ListClaims \/ DeleteClaim
  <2>1. PICK targets : ClaimsLeft(targets) /\ (cleanup.alone => claims' \subseteq targets)
    <3>1. CASE ListClaims
      BY <3>1 DEF ListClaims, Elsewhere
    <3>2. CASE DeleteClaim
      BY <3>2 DEF DeleteClaim, CleanupKeepsTrack
    <3> QED BY <1>9, <3>1, <3>2
  <2>2. /\ UNCHANGED <<job, rows, pools, deployments>>
        /\ cleanup.at \in {"deployments", "claims"}
        /\ cleanup.at = "deployments" => cleanup.targets = {}
    BY <1>9 DEF ListClaims, DeleteClaim, Elsewhere
  <2>3. /\ cleanup'.at = IF targets = {} THEN "pools" ELSE "claims"
        /\ cleanup'.targets = targets
        /\ cleanup'.alone = cleanup.alone /\ cleanup'.read = cleanup.read
        /\ cleanup'.ids = cleanup.ids
    BY <1>1, <2>1 DEF ClaimsLeft, CleanupTyped
  <2>4. NamedPools' = NamedPools
    BY <2>2 DEF NamedPools
  <2> HIDE DEF NamedPools
  <2>5. cleanup.alone => deployments' = {} /\ claims' \subseteq targets
    BY <2>1, <2>2 DEF CleanupKeepsTrack
  <2>6. /\ cleanup'.at \in {"pools", "claims"}
        /\ cleanup'.at = "pools" => targets = {}
    BY <2>3
  <2> QED BY <2>2, <2>3, <2>4, <2>5, <2>6 DEF CleanupKeepsTrack
<1>10. CASE DeleteNodePool
  <2>1. UNCHANGED <<job, rows, claims, deployments>> /\ cleanup.at = "pools"
    BY <1>10 DEF DeleteNodePool
  <2>2. PICK p \in cleanup.ids :
          /\ pools' = IF pools[p].life = "normal"
                      THEN [pools EXCEPT ![p].life = "deleting"] ELSE pools
          /\ cleanup' = [cleanup EXCEPT !.ids = @ \ {p}]
    BY <1>10 DEF DeleteNodePool
  <2>3. p \in PoolIds
    BY <1>1, <2>2 DEF CleanupTyped
  <2>4. /\ \A q \in PoolIds : pools'[q].life = "normal" => pools[q].life = "normal" /\ q # p
        /\ cleanup'.ids = cleanup.ids \ {p} /\ cleanup'.at = "pools"
        /\ cleanup'.alone = cleanup.alone /\ cleanup'.read = cleanup.read
    BY <1>1, <2>1, <2>2, <2>3 DEF WorldTyped, CleanupTyped
  <2>5. NamedPools' = NamedPools
    BY <2>1 DEF NamedPools
  <2> QED BY <1>2, <2>1, <2>4, <2>5 DEF CleanupKeepsTrack
<1>11. CASE CleanupDone
  BY <1>1, <1>2, <1>11 DEF CleanupDone, Elsewhere, CleanupKeepsTrack, NamedPools, CleanupTyped
<1>12. CASE CleanupFails
  BY <1>1, <1>12 DEF CleanupFails, CleanupKeepsTrack, CleanupTyped
<1> QED
  BY <1>3, <1>4, <1>5, <1>6, <1>7, <1>8, <1>9, <1>10, <1>11, <1>12 DEF Next, Cleanup

\* CleanupIsComplete: nothing the cleanup has listed is lost between its parts, however
\* often it fails and starts again.
THEOREM CleanupsAreComplete == Spec => []CleanupIsComplete
<1>1. Init => CleanupKeepsTrack
  BY DEF Init, CleanupKeepsTrack
<1>2. TypeOK /\ CleanupKeepsTrack /\ [Next]_vars => CleanupKeepsTrack'
  BY CleanupStep
<1>3. CleanupKeepsTrack => CleanupIsComplete
  BY DEF CleanupKeepsTrack, CleanupIsComplete
<1> QED BY <1>1, <1>2, <1>3, TypeCorrect, PTL DEF Spec
==============================================================================
