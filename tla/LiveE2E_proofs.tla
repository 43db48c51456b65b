---------------------------- MODULE LiveE2E_proofs ----------------------------
(***************************************************************************)
(* The commands beside the worker and the clients do nothing to the        *)
(* tables, to Tencent and to the cluster that ComputePool does not allow;  *)
(* and a report of the live end-to-end command is about the run that makes *)
(* it, for every set of workers, operations and pools.                     *)
(***************************************************************************)
EXTENDS LiveE2E, ComputePool_proofs

\* The command's own crash is a crash of its worker, whether or not others crash.
AnyStep == [Next]_vars \/ LoseWorker(Command)

\* The command's own operations are three of Operations.
LEMMA OwnOperations ==
  /\ Own \subseteq Operations /\ Requests \in [Scenes -> SUBSET Operations]
  /\ Requests["command"] \cap Own = {}
  /\ Subject \in Computes /\ Command \in Workers /\ MaxRuns \in Nat
  /\ CreateOp # DestroyOp /\ CreateOp # RebuildOp /\ DestroyOp # RebuildOp
  /\ \A o \in Own : Target[o] = Subject
  /\ \A o \in Own : Kind[o] = "compute_allocation_destroy" => o = DestroyOp
BY CommandAssumption, PoolAssumption DEF Own, Subject

\* There is always a scene.
LEMMA SceneTyped == Scene \in Scenes
BY DEF Scene, Scenes

\* A step of the command that asks for an operation, or only looks.
LEMMA RequestIsSubmit ==
  ASSUME NEW o \in Operations, Request(o) \/ UNCHANGED queue, UNCHANGED Rest
  PROVE  Next \/ UNCHANGED vars
<1>1. CASE Request(o)
  <2>1. Submit(o) \/ UNCHANGED vars
    BY <1>1 DEF Request, Rest, Submit, Elsewhere, vars
  <2> QED BY <2>1 DEF Next
<1>2. CASE UNCHANGED queue
  BY <1>2 DEF Rest, Elsewhere, vars
<1> QED BY <1>1, <1>2

\* The command's looks and requests are a client's steps, or stutters.
LEMMA CommandSteps ==
  ASSUME Launch \/ CommandStep
  PROVE  (\E o \in Own : Request(o) \/ UNCHANGED queue) /\ UNCHANGED Rest
BY DEF Launch, CommandStep, OperationSucceeded, OperationFailed, CreatedVerified,
       DestroyVerified, Report, CheckFails, Own

\* What everybody else does is a step of ComputePool.
LEMMA OthersStep ==
  ASSUME Others
  PROVE  Next
<1>1. CASE Clients
  <2>1. PICK o \in Operations : Submit(o)
    BY <1>1, OwnOperations, SceneTyped DEF Clients
  <2> QED BY <2>1 DEF Next
<1>2. CASE \E w \in Workers : BeginAny(w) \/ Attempt(w)
  BY <1>2 DEF BeginAny, Next
<1>3. CASE \E w \in Workers : Crash(w)
  BY <1>3 DEF Next
<1>4. CASE Cluster \/ (Scene = "cleanup" /\ Cleanup)
  BY <1>4 DEF Next
<1> QED BY <1>1, <1>2, <1>3, <1>4 DEF Others

\* Every step is a step of ComputePool, a stutter, or the loss of the command's worker.
LEMMA StepsAreSteps ==
  ASSUME [E2ENext]_e2eVars
  PROVE  AnyStep
<1>1. CASE UNCHANGED e2eVars
  BY <1>1 DEF e2eVars, AnyStep
<1>2. CASE Others
  BY <1>2, OthersStep DEF AnyStep
<1>3. CASE Launch \/ CommandStep
  BY <1>3, CommandSteps, RequestIsSubmit, OwnOperations DEF AnyStep
<1>4. CASE FailureSeen
  <2>1. PICK w \in Workers : Fails(w)
    BY <1>4 DEF FailureSeen
  <2>2. Next
    BY <2>1 DEF Attempt, Next
  <2> QED BY <2>2 DEF AnyStep
<1>5. CASE GiveUp
  BY <1>5 DEF GiveUp, AnyStep
<1> QED BY <1>1, <1>2, <1>3, <1>4, <1>5 DEF E2ENext

\* The composition implements ComputePool: where processes can crash, what the command
\* and its worker do is something a client and one more worker can do, so everything
\* proved of ComputePool holds beside the command.
THEOREM CommandsImplementPool ==
  ASSUME "crash" \in Faults
  PROVE  E2ESpec => Spec
<1>1. E2EInit => Init
  BY DEF E2EInit
<1>2. [E2ENext]_e2eVars => [Next]_vars
  <2>1. LoseWorker(Command) => Next
    BY OwnOperations DEF Crash, Next
  <2> QED BY <2>1, StepsAreSteps DEF AnyStep
<1> QED BY <1>1, <1>2, PTL DEF E2ESpec, Spec

\* What holds of the pools, of the rows and of a cleanup holds beside the command.
COROLLARY PoolsBesideCommands ==
  ASSUME "crash" \in Faults
  PROVE  E2ESpec => [](/\ PoolsPerType /\ RowsNameTheirPool
                       /\ DeploysOnLivePool /\ CleanupIsComplete)
BY CommandsImplementPool, PoolsAreBounded, RowsAreRight, DeploymentsHavePools,
   CleanupsAreComplete, PTL

-----------------------------------------------------------------------------
\* Type correctness.

\* TypeOK survives any step of ComputePool, and the loss of the command's worker.
LEMMA AnyStepTyped ==
  ASSUME TypeOK, AnyStep
  PROVE  TypeOK'
BY TypeStep, EndTyped, OwnOperations DEF AnyStep

CommandTyped ==
  /\ e2e \in [at : Places, run : 0..MaxRuns]
  /\ doneIn \in [Own -> 0..MaxRuns]

\* E2ETypeOK is inductive.
LEMMA CommandTypedStep ==
  ASSUME CommandTyped, [E2ENext]_e2eVars
  PROVE  CommandTyped'
<1>1. CASE UNCHANGED e2eVars
  BY <1>1 DEF e2eVars, CommandTyped
<1>2. CASE Noted /\ UNCHANGED e2e
  BY <1>2 DEF Noted, CommandTyped
<1>3. CASE Launch
  <2>1. e2e.run + 1 \in 0..MaxRuns
    BY <1>3, OwnOperations DEF Launch, CommandTyped
  <2> QED BY <1>3, <2>1 DEF Launch, Rest, CommandTyped, Places, Waiting
<1>4. ASSUME NEW place \in Places, Move(place), UNCHANGED doneIn PROVE CommandTyped'
  BY <1>4 DEF Move, CommandTyped
<1>5. CASE CommandStep \/ FailureSeen \/ GiveUp
  <2>1. UNCHANGED doneIn
    BY <1>5, CommandSteps DEF Rest, FailureSeen, GiveUp
  <2>2. \E place \in Places : Move(place)
    <3>1. e2e.at \in Waiting => AfterWait[e2e.at] \in Places
      BY DEF Waiting, AfterWait, Places, Checking
    <3>2. {"refused", "gone", "destroying", "rebuilding", "reported"} \subseteq Places
      BY DEF Places, Waiting
    <3> QED
      BY <1>5, <3>1, <3>2
         DEF CommandStep, OperationSucceeded, OperationFailed, CreatedVerified,
             DestroyVerified, Report, CheckFails, FailureSeen, GiveUp
  <2> QED BY <1>4, <2>1, <2>2
<1> QED BY <1>1, <1>2, <1>3, <1>5 DEF E2ENext

\* E2ETypeOK: the command, and the dates of its operations, keep their types.
THEOREM CommandTypeCorrect == E2ESpec => []E2ETypeOK
<1>1. E2EInit => TypeOK /\ CommandTyped
  BY TypeInit, OwnOperations DEF E2EInit, CommandTyped, Places
<1>2. TypeOK /\ CommandTyped /\ [E2ENext]_e2eVars => (TypeOK /\ CommandTyped)'
  BY StepsAreSteps, AnyStepTyped, CommandTypedStep
<1>3. TypeOK /\ CommandTyped => E2ETypeOK
  BY DEF E2ETypeOK, CommandTyped
<1> QED BY <1>1, <1>2, <1>3, PTL DEF E2ESpec

-----------------------------------------------------------------------------
\* What a step does to the operations and to the workers' attempts.

Goes(w) == ReadRow(w) \/ FindPool(w) \/ VerifyPool(w) \/ Work(w)
Ends(w) == Succeed(w) \/ Fails(w) \/ LoseWorker(w)

\* Every step, by what it does to the operations and to the attempts.
LEMMA StepCases ==
  ASSUME AnyStep
  PROVE  \/ \E o \in Operations : Submit(o)
         \/ \E w \in Workers, o \in Operations : Begin(w, o)
         \/ \E w \in Workers : Goes(w)
         \/ \E w \in Workers : Ends(w)
         \/ UNCHANGED <<queue, job, rows>>
<1>1. CASE UNCHANGED vars
  BY <1>1 DEF vars
<1>2. CASE \E w \in Workers : Attempt(w)
  BY <1>2 DEF Attempt, Advance, Goes, Ends
<1>3. CASE (\E w \in Workers : Crash(w)) \/ LoseWorker(Command)
  BY <1>3, OwnOperations DEF Crash, Ends
<1>4. CASE Cluster
  BY <1>4 DEF Cluster, Schedule, PoolGone
<1>5. CASE Cleanup
  BY <1>5
     DEF Cleanup, Discover, ListDeployments, DeleteDeployment, ListClaims, DeleteClaim,
         ClaimsLeft, DeleteNodePool, CleanupDone, CleanupFails, Elsewhere
<1>6. CASE \E o \in Operations : Submit(o) \/ \E w \in Workers : Begin(w, o)
  BY <1>6
<1> QED BY <1>1, <1>2, <1>3, <1>4, <1>5, <1>6 DEF AnyStep, Next

\* An attempt that goes on stays with its operation, whose status does not change.
LEMMA GoesOn ==
  ASSUME TypeOK, NEW w \in Workers, Goes(w)
  PROVE  /\ UNCHANGED queue
         /\ job[w].op \in Operations /\ job'[w].op = job[w].op
         /\ \A v \in Workers \ {w} : job'[v] = job[v]
<1>1. JobsTyped
  BY TypeParts
<1>2. job[w] # Idle
  BY SomewhereIsBusy DEF Goes, ReadRow, FindPool, VerifyPool, Work, At
<1>3. UNCHANGED queue
  BY DEF Goes, ReadRow, FindPool, VerifyPool, Work
<1>4. \E name, row : Goto(w, name, row)
  <2>1. CASE ReadRow(w)
    BY <2>1 DEF ReadRow
  <2>2. CASE FindPool(w)
    BY <2>2 DEF FindPool
  <2>3. CASE VerifyPool(w)
    BY <2>3 DEF VerifyPool
  <2>4. CASE Work(w)
    BY <2>4 DEF Work
  <2> QED BY <2>1, <2>2, <2>3, <2>4 DEF Goes
<1>5. job'[w].op = job[w].op /\ \A v \in Workers \ {w} : job'[v] = job[v]
  BY <1>1, <1>4 DEF Goto, JobsTyped
<1> QED BY <1>1, <1>2, <1>3, <1>5, BusyWorker

\* Which step leads where within an attempt.
LEMMA GoesTo ==
  ASSUME JobsTyped, NEW w \in Workers
  PROVE  /\ ReadRow(w) => job'[w].at = AfterRead(w)
         /\ AfterRead(w) \in {"find", "read", "verify"} \/ (Destroys(w) /\ AfterRead(w) = "delete")
         /\ FindPool(w) => job'[w].at \in {"record", "create"}
                              /\ (job[w].seen \in Row => job'[w].seen.refs = job[w].seen.refs)
         /\ VerifyPool(w) => job'[w].at = "deploy"
<1>1. ASSUME NEW name, NEW row, Goto(w, name, row)
      PROVE  job'[w].at = name /\ job'[w].seen = row
  BY <1>1, GotoLeads
<1>2. ReadRow(w) => job'[w].at = AfterRead(w)
  BY <1>1 DEF ReadRow
<1>3. AfterRead(w) \in {"find", "read", "verify"} \/ (Destroys(w) /\ AfterRead(w) = "delete")
  BY DEF AfterRead, AfterResolve
<1>4. ASSUME FindPool(w)
      PROVE  /\ job'[w].at \in {"record", "create"}
             /\ job[w].seen \in Row => job'[w].seen.refs = job[w].seen.refs
  <2>1. CASE \E p \in PoolIds : Goto(w, "record", [job[w].seen EXCEPT !.pool = p])
    BY <1>1, <2>1 DEF Row
  <2>2. CASE Goto(w, "create", job[w].seen)
    BY <1>1, <2>2
  <2> QED BY <1>4, <2>1, <2>2 DEF FindPool, Found
<1>5. VerifyPool(w) => job'[w].at = "deploy"
  BY <1>1 DEF VerifyPool
<1> QED BY <1>2, <1>3, <1>4, <1>5

\* An attempt that ends leaves its worker idle and touches no other operation; only
\* Succeed gives the verdict "succeeded".
LEMMA EndsClean ==
  ASSUME TypeOK, NEW w \in Workers, Ends(w)
  PROVE  /\ job[w].op \in Operations
         /\ job' = [job EXCEPT ![w] = Idle]
         /\ \A o \in Operations \ {job[w].op} : status'[o] = status[o]
         /\ \/ status'[job[w].op] = "succeeded" /\ UNCHANGED rows
            \/ status'[job[w].op] \in {"pending", "running", "failed"}
            \/ UNCHANGED status
<1>1. JobsTyped /\ QueueTyped
  BY TypeParts
<1>2. job[w] # Idle
  BY SomewhereIsBusy
     DEF Ends, Succeed, Fails, StepFails, StepLost, CreateComputeUndone, LoseWorker, At, Effect,
         ReserveClaim, CreateNodePool, RecordPool, CreateCompute, WriteRunning,
         DestroyCompute, ClearRow
<1>3. job[w].op \in Operations
  BY <1>1, <1>2, BusyWorker
<1>4. job' = [job EXCEPT ![w] = Idle]
  BY DEF Ends, Succeed, Fails, StepFails, StepLost, CreateComputeUndone, LoseWorker,
         FailAttempt, Leave
<1>5. CASE Queue!Complete(job[w].op) /\ Succeed(w)
  BY <1>1, <1>3, <1>4, <1>5
     DEF Queue!Complete, Queue!SetStatus, QueueTyped, Succeed, Elsewhere
<1>6. CASE Queue!CountFailure(job[w].op) \/ Queue!Abandon(job[w].op)
  BY <1>1, <1>3, <1>4, <1>6 DEF Queue!CountFailure, Queue!Abandon, Queue!SetStatus, QueueTyped
<1>7. CASE UNCHANGED queue
  BY <1>3, <1>4, <1>7 DEF queue
<1> QED
  BY <1>5, <1>6, <1>7
     DEF Ends, Succeed, Fails, StepFails, StepLost, CreateComputeUndone, LoseWorker, FailAttempt

-----------------------------------------------------------------------------
\* An operation has at most one worker, and has no verdict while it has one.

OneWorkerEach ==
  /\ \A w \in Workers : job[w].op # None => status[job[w].op] = "running"
  /\ \A v, w \in Workers : job[v].op = job[w].op /\ job[v].op # None => v = w

\* OneWorkerEach is inductive.
LEMMA OneWorkerStep ==
  ASSUME TypeOK, OneWorkerEach, AnyStep
  PROVE  OneWorkerEach'
<1>1. JobsTyped /\ QueueTyped
  BY TypeParts
<1>2. CASE UNCHANGED <<queue, job, rows>>
  BY <1>2 DEF OneWorkerEach, queue
<1>3. ASSUME NEW o \in Operations, Submit(o) PROVE OneWorkerEach'
  BY <1>1, <1>3 DEF Submit, Queue!Accept, Queue!SetStatus, QueueTyped, JobsTyped, OneWorkerEach
<1>4. ASSUME NEW w \in Workers, NEW o \in Operations, Begin(w, o) PROVE OneWorkerEach'
  <2>1. /\ status[o] = "pending" /\ status' = [status EXCEPT ![o] = "running"]
        /\ job'[w].op = o /\ \A v \in Workers \ {w} : job'[v] = job[v]
    BY <1>1, <1>4 DEF Begin, Queue!Start, Queue!SetStatus, JobsTyped
  <2> QED BY <1>1, <2>1 DEF QueueTyped, JobsTyped, OneWorkerEach
<1>5. ASSUME NEW w \in Workers, Goes(w) PROVE OneWorkerEach'
  BY <1>5, GoesOn DEF queue, OneWorkerEach
<1>6. ASSUME NEW w \in Workers, Ends(w) PROVE OneWorkerEach'
  <2>1. /\ job'[w].op = None /\ \A v \in Workers \ {w} : job'[v] = job[v]
        /\ \A o \in Operations \ {job[w].op} : status'[o] = status[o]
        /\ job[w].op \in Operations
    BY <1>1, <1>6, EndsClean DEF JobsTyped, Idle
  <2>2. job[w].op # None
    BY <2>1, PoolAssumption
  <2> QED BY <1>1, <2>1, <2>2 DEF JobsTyped, OneWorkerEach
<1> QED BY <1>2, <1>3, <1>4, <1>5, <1>6, StepCases

\* A verdict of success stays, and an operation that was accepted stays so.
LEMMA SuccessStays ==
  ASSUME TypeOK, OneWorkerEach, AnyStep, NEW o \in Operations
  PROVE  /\ status[o] = "succeeded" => status'[o] = "succeeded"
         /\ status[o] # "absent" => status'[o] # "absent"
<1>1. QueueTyped
  BY TypeParts
<1>2. CASE UNCHANGED <<queue, job, rows>>
  BY <1>2 DEF queue
<1>3. ASSUME NEW p \in Operations, Submit(p) \/ \E w \in Workers : Begin(w, p)
      PROVE  /\ status[o] = "succeeded" => status'[o] = "succeeded"
             /\ status[o] # "absent" => status'[o] # "absent"
  BY <1>1, <1>3 DEF Submit, Begin, Queue!Accept, Queue!Start, Queue!SetStatus, QueueTyped
<1>4. ASSUME NEW w \in Workers, Goes(w) PROVE UNCHANGED queue
  BY <1>4, GoesOn
<1>5. ASSUME NEW w \in Workers, Ends(w)
      PROVE  /\ status[o] = "succeeded" => status'[o] = "succeeded"
             /\ status[o] # "absent" => status'[o] # "absent"
  <2>1. job[w].op \in Operations /\ status[job[w].op] = "running"
    BY <1>5, EndsClean, PoolAssumption DEF OneWorkerEach
  <2> QED BY <1>5, <2>1, EndsClean
<1> QED BY <1>2, <1>3, <1>4, <1>5, StepCases DEF queue

\* Success comes from a worker of the operation, and moves no row.
LEMMA SuccessComes ==
  ASSUME TypeOK, OneWorkerEach, AnyStep, NEW o \in Operations,
         status[o] # "succeeded", status'[o] = "succeeded"
  PROVE  status[o] = "running" /\ UNCHANGED rows
<1>1. QueueTyped
  BY TypeParts
<1>2. ASSUME NEW p \in Operations, Submit(p) \/ \E w \in Workers : Begin(w, p)
      PROVE  FALSE
  BY <1>1, <1>2 DEF Submit, Begin, Queue!Accept, Queue!Start, Queue!SetStatus, QueueTyped
<1>3. ASSUME NEW w \in Workers, Goes(w) PROVE FALSE
  BY <1>3, GoesOn DEF queue
<1>4. ASSUME NEW w \in Workers, Ends(w)
      PROVE  status[o] = "running" /\ UNCHANGED rows
  <2>1. job[w].op \in Operations /\ status[job[w].op] = "running"
    BY <1>4, EndsClean, PoolAssumption DEF OneWorkerEach
  <2>2. o = job[w].op
    BY <1>4, EndsClean
  <2> QED BY <1>4, <2>1, <2>2, EndsClean
<1> QED BY <1>2, <1>3, <1>4, StepCases DEF queue

-----------------------------------------------------------------------------
\* The command's operations, one after the other.

\* Nobody else has an operation on the command's compute.
SubjectIsOurs == \A o \in Operations : Target[o] = Subject => o \in Own

Past(places) == e2e.at \in places

\* Each operation is asked for when the one before it has succeeded.
InOrder ==
  /\ status[DestroyOp] # "absent" => status[CreateOp] = "succeeded"
  /\ status[RebuildOp] # "absent" => status[DestroyOp] = "succeeded"
  /\ Past({"created"}) => status[CreateOp] = "succeeded"
  /\ Past({"destroyed", "rebuilding", "rebuilt", "reported"}) => status[DestroyOp] = "succeeded"
  /\ Past({"rebuilt", "reported"}) => status[RebuildOp] = "succeeded"

\* A compute is cleared by the operation that destroys it.
ClearedByDestroy == \A w \in Workers : job[w].at \in {"delete", "clear"} => Destroys(w)

\* What a worker is about to write back still has the refs that are in the row.
SeenRefs ==
  \A w \in Workers :
    job[w].op \in Own /\ job[w].at \in {"find", "create", "record"} =>
      job[w].seen.refs = rows[Subject].refs

\* Once it has been destroyed by an earlier run, the compute's refs stay in its row.
Shown ==
  Past({"destroying", "destroyed"}) /\ status[DestroyOp] = "succeeded"
    /\ doneIn[DestroyOp] # e2e.run
  => rows[Subject].refs = TRUE

\* The runs in which the operations succeeded.
Dated ==
  /\ \A o \in Own : doneIn[o] <= e2e.run
  /\ status[RebuildOp] = "succeeded" => doneIn[DestroyOp] <= doneIn[RebuildOp]
  /\ Past({"rebuilding", "rebuilt", "reported"}) => doneIn[DestroyOp] = e2e.run

Present == e2e.at \notin {"cleanup", "rollout"}

RunInv == InOrder /\ SeenRefs /\ Shown /\ Dated

\* Only a client, or the command, asks for an operation.
LEMMA WorkersAskNothing ==
  ASSUME TypeOK, OneWorkerEach, NEW o \in Operations, status[o] = "absent",
         NEW w \in Workers, (\E p \in Operations : Begin(w, p)) \/ Goes(w) \/ Ends(w)
  PROVE  status'[o] = "absent"
<1>1. QueueTyped
  BY TypeParts
<1>2. CASE \E p \in Operations : Begin(w, p)
  BY <1>1, <1>2 DEF Begin, Queue!Start, Queue!SetStatus, QueueTyped
<1>3. CASE Goes(w)
  BY <1>3, GoesOn DEF queue
<1>4. CASE Ends(w)
  <2>1. job[w].op \in Operations /\ status[job[w].op] = "running"
    BY <1>4, EndsClean, PoolAssumption DEF OneWorkerEach
  <2> QED BY <1>4, <2>1, EndsClean
<1> QED BY <1>2, <1>3, <1>4

\* Nobody but the command asks for the command's operations while it is there.
LEMMA OthersLeaveOurs ==
  ASSUME TypeOK, OneWorkerEach, Others, Present, NEW o \in Own, status[o] = "absent"
  PROVE  status'[o] = "absent"
<1>1. o \in Operations /\ Scene = "command"
  BY OwnOperations DEF Present, Scene
<1>2. CASE Clients
  <2>1. PICK p \in Operations \ Own : Submit(p)
    BY <1>1, <1>2, OwnOperations DEF Clients, Scenes
  <2> QED BY <1>1, <2>1, TypeParts DEF Submit, Queue!Accept, Queue!SetStatus, QueueTyped
<1>3. ASSUME NEW w \in Workers, BeginAny(w) \/ Attempt(w) \/ Crash(w)
      PROVE  status'[o] = "absent"
  <2>1. (\E p \in Operations : Begin(w, p)) \/ Goes(w) \/ Ends(w)
    BY <1>3 DEF BeginAny, Attempt, Advance, Crash, Goes, Ends
  <2> QED BY <1>1, <2>1, WorkersAskNothing
<1>4. CASE Cluster
  BY <1>4 DEF Cluster, Schedule, PoolGone, queue
<1> QED BY <1>1, <1>2, <1>3, <1>4 DEF Others

\* The command gives up, or sees a failure: an attempt may be lost, and nothing else.
LEMMA LosingSteps ==
  ASSUME TypeOK, CommandTyped, OneWorkerEach, FailureSeen \/ GiveUp
  PROVE  /\ e2e'.at \in {"refused", "gone"} /\ e2e'.run = e2e.run
         /\ UNCHANGED doneIn
         /\ \A o \in Operations :
              /\ status[o] = "absent" => status'[o] = "absent"
              /\ status'[o] = "succeeded" => status[o] = "succeeded"
<1>1. (\E w \in Workers : Fails(w) \/ LoseWorker(w)) \/ UNCHANGED vars
  BY OwnOperations DEF FailureSeen, GiveUp
<1>2. ASSUME NEW o \in Operations, status[o] = "absent" PROVE status'[o] = "absent"
  BY <1>1, <1>2, WorkersAskNothing DEF Ends, vars, queue
<1>3. ASSUME NEW o \in Operations, status'[o] = "succeeded" PROVE status[o] = "succeeded"
  <2>1. QueueTyped
    BY TypeParts
  <2>2. \/ \E w \in Workers : Queue!CountFailure(job[w].op) \/ Queue!Abandon(job[w].op)
        \/ UNCHANGED queue
    BY <1>1 DEF Fails, StepFails, StepLost, CreateComputeUndone, FailAttempt, LoseWorker, vars
  <2> QED
    BY <1>3, <2>1, <2>2
       DEF Queue!CountFailure, Queue!Abandon, Queue!SetStatus, QueueTyped, queue
<1> QED BY <1>2, <1>3 DEF FailureSeen, GiveUp, Move, CommandTyped

\* A step of the command proper, with the places it leads from and to.
LEMMA CommandMoves ==
  ASSUME CommandTyped, CommandStep
  PROVE  /\ UNCHANGED Rest /\ e2e'.run = e2e.run
         /\ \/ /\ UNCHANGED queue
               /\ \/ e2e'.at \in {"refused"}
                  \/ /\ e2e.at \in Waiting /\ e2e'.at = AfterWait[e2e.at]
                     /\ status[Awaited[e2e.at]] = "succeeded"
                  \/ e2e.at = "rebuilt" /\ e2e'.at = "reported"
            \/ /\ e2e.at = "created" /\ e2e'.at = "destroying" /\ Request(DestroyOp)
               /\ rows[Subject].refs
            \/ /\ e2e.at = "destroyed" /\ e2e'.at = "rebuilding" /\ Request(RebuildOp)
               /\ ~rows[Subject].refs
<1>1. ASSUME NEW place, Move(place) PROVE e2e'.at = place /\ e2e'.run = e2e.run
  BY <1>1 DEF Move, CommandTyped
<1>2. CASE OperationSucceeded
  BY <1>1, <1>2 DEF OperationSucceeded
<1>3. CASE OperationFailed \/ CheckFails
  BY <1>1, <1>3 DEF OperationFailed, CheckFails
<1>4. CASE Report
  BY <1>1, <1>4 DEF Report
<1>5. CASE CreatedVerified
  BY <1>1, <1>5 DEF CreatedVerified, ObjectsThere
<1>6. CASE DestroyVerified
  BY <1>1, <1>6 DEF DestroyVerified, StorageRetained
<1> QED BY <1>2, <1>3, <1>4, <1>5, <1>6 DEF CommandStep

\* Request touches the status of the operation it asks for, and nothing else.
LEMMA RequestOnly ==
  ASSUME TypeOK, NEW o \in Own, Request(o)
  PROVE  /\ \A p \in Own \ {o} : status'[p] = status[p]
         /\ status'[o] = status[o] \/ (status[o] = "absent" /\ status'[o] = "pending")
<1>1. QueueTyped /\ Own \subseteq Operations
  BY TypeParts, OwnOperations
<1> QED BY <1>1 DEF Request, Queue!Accept, Queue!SetStatus, QueueTyped, queue

\* A behaviour has the command from its start, or never.
LEMMA PresentBefore ==
  ASSUME CommandTyped, [E2ENext]_e2eVars, Present'
  PROVE  Present
<1>1. e2e' = e2e \/ Launch \/ CommandStep \/ FailureSeen \/ GiveUp
  BY DEF E2ENext, e2eVars
<1> QED
  BY <1>1 DEF Present, Launch, CommandStep, OperationSucceeded, OperationFailed,
              CreatedVerified, DestroyVerified, Report, CheckFails, FailureSeen, GiveUp,
              Waiting, Checking

\* InOrder is kept: the command asks for an operation when the one before has succeeded.
LEMMA InOrderStep ==
  ASSUME TypeOK, CommandTyped, OneWorkerEach, InOrder, Present, [E2ENext]_e2eVars
  PROVE  InOrder'
<1>1. Own \subseteq Operations /\ {CreateOp, DestroyOp, RebuildOp} \subseteq Own
      /\ CreateOp # DestroyOp /\ CreateOp # RebuildOp /\ DestroyOp # RebuildOp
  BY OwnOperations DEF Own
<1>2. \A o \in Own : status[o] = "succeeded" => status'[o] = "succeeded"
  BY <1>1, StepsAreSteps, SuccessStays
<1>3. CASE UNCHANGED e2eVars
  BY <1>3 DEF e2eVars, vars, queue, InOrder, Past
<1>4. CASE Others /\ UNCHANGED e2e
  <2>1. \A o \in Own : status[o] = "absent" => status'[o] = "absent"
    BY <1>4, OthersLeaveOurs
  <2> QED BY <1>1, <1>2, <1>4, <2>1 DEF InOrder, Past
<1>5. CASE Launch
  <2>1. Request(CreateOp) /\ e2e'.at = "creating"
    BY <1>5 DEF Launch
  <2> QED BY <1>1, <1>2, <2>1, RequestOnly DEF InOrder, Past
<1>6. CASE CommandStep
  <2>1. CASE UNCHANGED queue
    <3>1. status' = status
      BY <2>1 DEF queue
    <3>2. \/ e2e'.at \notin {"created", "destroyed", "rebuilding", "rebuilt", "reported"}
          \/ /\ e2e.at \in Waiting /\ e2e'.at = AfterWait[e2e.at]
             /\ status[Awaited[e2e.at]] = "succeeded"
          \/ e2e.at = "rebuilt" /\ e2e'.at = "reported"
          \/ e2e.at = "destroyed" /\ e2e'.at = "rebuilding"
      BY <1>6, CommandMoves
    <3>3. /\ e2e.at \in Waiting => \/ e2e.at = "creating" /\ Awaited[e2e.at] = CreateOp
                                      /\ AfterWait[e2e.at] = "created"
                                   \/ e2e.at = "destroying" /\ Awaited[e2e.at] = DestroyOp
                                      /\ AfterWait[e2e.at] = "destroyed"
                                   \/ e2e.at = "rebuilding" /\ Awaited[e2e.at] = RebuildOp
                                      /\ AfterWait[e2e.at] = "rebuilt"
      BY DEF Waiting, Awaited, AfterWait
    <3> QED BY <3>1, <3>2, <3>3 DEF InOrder, Past
  <2>2. CASE e2e.at = "created" /\ e2e'.at = "destroying" /\ Request(DestroyOp)
    BY <1>1, <1>2, <2>2, RequestOnly DEF InOrder, Past
  <2>3. CASE e2e.at = "destroyed" /\ e2e'.at = "rebuilding" /\ Request(RebuildOp)
    BY <1>1, <1>2, <2>3, RequestOnly DEF InOrder, Past
  <2> QED BY <1>6, <2>1, <2>2, <2>3, CommandMoves
<1>7. CASE FailureSeen \/ GiveUp
  BY <1>1, <1>2, <1>7, LosingSteps DEF InOrder, Past
<1> QED BY <1>3, <1>4, <1>5, <1>6, <1>7 DEF E2ENext

-----------------------------------------------------------------------------
\* The row of the command's compute.

\* The operations of the command never have two workers between them.
LEMMA OneWorkerForOurs ==
  ASSUME OneWorkerEach, InOrder, NEW v \in Workers, NEW w \in Workers,
         job[v].op \in Own, job[w].op \in Own
  PROVE  v = w
<1>1. status[job[v].op] = "running" /\ status[job[w].op] = "running"
  BY OwnOperations, PoolAssumption DEF OneWorkerEach
<1>2. job[v].op = job[w].op /\ job[v].op # None
  BY <1>1, OwnOperations, PoolAssumption DEF InOrder, Own
<1> QED BY <1>2 DEF OneWorkerEach

\* ClearedByDestroy is kept: only the destroy operation clears the row.
LEMMA ClearedByDestroyStep ==
  ASSUME TypeOK, ClearedByDestroy, AnyStep
  PROVE  ClearedByDestroy'
<1> SUFFICES ASSUME NEW w \in Workers, job'[w].at \in {"delete", "clear"}
             PROVE  Kind[job'[w].op] = "compute_allocation_destroy"
  BY DEF ClearedByDestroy, Destroys
<1>1. JobsTyped
  BY TypeParts
<1>2. CASE job'[w] = job[w]
  BY <1>2 DEF ClearedByDestroy, Destroys
<1>3. ASSUME NEW v \in Workers, NEW o \in Operations, Begin(v, o) PROVE job'[w] = job[w]
  BY <1>1, <1>3 DEF Begin, JobsTyped
<1>4. ASSUME NEW v \in Workers, Ends(v) PROVE job'[w] = job[w]
  BY <1>1, <1>4, EndsClean DEF JobsTyped, Idle
<1>5. ASSUME Goes(w) PROVE Kind[job'[w].op] = "compute_allocation_destroy"
  <2>1. job'[w].op = job[w].op
    BY <1>5, GoesOn
  <2>2. CASE ReadRow(w)
    BY <1>1, <2>1, <2>2, GoesTo DEF Destroys
  <2>3. CASE FindPool(w) \/ VerifyPool(w)
    BY <1>1, <2>3, GoesTo
  <2>4. CASE Work(w)
    <3>1. AfterResolve(w) \in {"read", "verify"}
      BY DEF AfterResolve
    <3>2. job[w].at = "delete"
      BY <1>1, <2>4, <3>1 DEF Work, Goto, At, JobsTyped
    <3> QED BY <2>1, <3>2 DEF ClearedByDestroy, Destroys
  <2> QED BY <1>5, <2>2, <2>3, <2>4 DEF Goes
<1>6. ASSUME NEW v \in Workers \ {w}, Goes(v) PROVE job'[w] = job[w]
  BY <1>6, GoesOn
<1> QED BY <1>2, <1>3, <1>4, <1>5, <1>6, StepCases DEF Submit

\* A row changes under the hands of a worker of its compute, who goes on from there.
LEMMA RowChanges ==
  ASSUME TypeOK, AnyStep, rows'[Subject] # rows[Subject]
  PROVE  \E w \in Workers :
           /\ Compute(w) = Subject /\ job[w].op \in Operations
           /\ RecordPool(w) \/ WriteRunning(w) \/ ClearRow(w)
           /\ job'[w].at # job[w].at
<1>1. JobsTyped /\ WorldTyped
  BY TypeParts
<1>2. PICK w \in Workers : Goes(w) \/ Ends(w)
  BY StepCases DEF Submit, Begin, Elsewhere
<1>3. Work(w) \/ StepLost(w)
  BY <1>2
     DEF Goes, ReadRow, FindPool, VerifyPool, Ends, Succeed, Fails, StepFails,
         CreateComputeUndone, LoseWorker, Elsewhere
<1>4. RecordPool(w) \/ WriteRunning(w) \/ ClearRow(w)
  BY <1>3, EffectKinds DEF Work, StepLost, CreateNodePool
<1>5. job[w] # Idle
  BY <1>4, SomewhereIsBusy DEF RecordPool, WriteRunning, ClearRow, At
<1>6. Compute(w) \in Computes /\ job[w].op \in Operations
  BY <1>1, <1>5, BusyWorker
<1>7. Compute(w) = Subject
  BY <1>1, <1>4, <1>6, OwnOperations DEF RecordPool, WriteRunning, ClearRow, WorldTyped
<1>8. job'[w].at # job[w].at
  <2>1. AfterResolve(w) \in {"read", "verify"}
    BY DEF AfterResolve
  <2> QED
    BY <1>1, <1>3, <1>4, <2>1
       DEF Work, StepLost, FailAttempt, Leave, Goto, RecordPool, WriteRunning, ClearRow, At,
           Idle, JobsTyped
<1> QED BY <1>4, <1>6, <1>7, <1>8

\* While a worker has a row of the command's compute to write back, the row stays.
LEMMA SeenRefsStep ==
  ASSUME SubjectIsOurs, TypeOK, OneWorkerEach, InOrder, SeenRefs, AnyStep
  PROVE  SeenRefs'
<1> SUFFICES ASSUME NEW w \in Workers, job'[w].op \in Own,
                    job'[w].at \in {"find", "create", "record"}
             PROVE  job'[w].seen.refs = rows'[Subject].refs
  BY DEF SeenRefs, Subject, Own
<1>1. JobsTyped
  BY TypeParts
<1>2. CASE job'[w] = job[w]
  <2>1. job[w].op \in Own /\ job[w].seen.refs = rows[Subject].refs
    BY <1>2 DEF SeenRefs
  <2>2. ASSUME rows'[Subject] # rows[Subject] PROVE FALSE
    <3>1. PICK v \in Workers :
            Compute(v) = Subject /\ job[v].op \in Operations /\ job'[v].at # job[v].at
      BY <2>2, RowChanges
    <3>2. job[v].op \in Own
      BY <3>1 DEF SubjectIsOurs, Compute
    <3>3. v = w
      BY <2>1, <3>2, OneWorkerForOurs
    <3> QED BY <1>2, <3>1, <3>3
  <2> QED BY <1>2, <2>1, <2>2
<1>3. ASSUME NEW v \in Workers, NEW o \in Operations, Begin(v, o) PROVE job'[w] = job[w]
  BY <1>1, <1>3 DEF Begin, JobsTyped
<1>4. ASSUME NEW v \in Workers, Ends(v) PROVE job'[w] = job[w]
  BY <1>1, <1>4, EndsClean DEF JobsTyped, Idle
<1>5. ASSUME NEW v \in Workers \ {w}, Goes(v) PROVE job'[w] = job[w]
  BY <1>5, GoesOn
<1>6. ASSUME Goes(w) PROVE job'[w].seen.refs = rows'[Subject].refs
  <2>1. job[w].op \in Own /\ job[w].seen \in Row
    BY <1>1, <1>6, GoesOn DEF JobsTyped
  <2>2. Compute(w) = Subject
    BY <2>1, OwnOperations DEF Compute
  <2>3. CASE ReadRow(w)
    BY <1>1, <2>2, <2>3 DEF ReadRow, Goto, Elsewhere, JobsTyped
  <2>4. CASE FindPool(w)
    <3>1. job[w].at = "find" /\ UNCHANGED rows
      BY <2>4 DEF FindPool, At, Elsewhere
    <3>2. job'[w].seen.refs = job[w].seen.refs
      BY <1>1, <2>1, <2>4, GoesTo
    <3> QED BY <2>1, <3>1, <3>2 DEF SeenRefs
  <2>5. CASE VerifyPool(w)
    BY <1>1, <2>5 DEF VerifyPool, Goto, JobsTyped
  <2>6. CASE Work(w)
    <3>1. AfterResolve(w) \in {"read", "verify"}
      BY DEF AfterResolve
    <3>2. job[w].at = "create" /\ job'[w].seen.refs = job[w].seen.refs
      BY <1>1, <2>1, <2>6, <3>1 DEF Work, Goto, At, JobsTyped, Row
    <3>3. UNCHANGED rows
      BY <2>6, <3>2
         DEF Work, Effect, At, ReserveClaim, CreateNodePool, RecordPool, CreateCompute,
             WriteRunning, DestroyCompute, ClearRow
    <3> QED BY <2>1, <3>2, <3>3 DEF SeenRefs
  <2> QED BY <1>6, <2>3, <2>4, <2>5, <2>6 DEF Goes
<1> QED BY <1>2, <1>3, <1>4, <1>5, <1>6, StepCases DEF Submit

\* Once the destroy operation has its verdict, refs that are there stay.
LEMMA RefsStay ==
  ASSUME SubjectIsOurs, TypeOK, OneWorkerEach, InOrder, ClearedByDestroy, SeenRefs, AnyStep,
         status[DestroyOp] = "succeeded", rows[Subject].refs = TRUE
  PROVE  rows'[Subject].refs = TRUE
<1>1. WorldTyped /\ Subject \in Computes
  BY TypeParts, OwnOperations
<1>2. CASE rows'[Subject] = rows[Subject]
  BY <1>2
<1>3. CASE rows'[Subject] # rows[Subject]
  <2>1. PICK w \in Workers :
          /\ Compute(w) = Subject /\ job[w].op \in Operations
          /\ RecordPool(w) \/ WriteRunning(w) \/ ClearRow(w)
    BY <1>3, RowChanges
  <2>2. job[w].op \in Own
    BY <2>1 DEF SubjectIsOurs, Compute
  <2>3. status[job[w].op] = "running"
    BY <2>1, PoolAssumption DEF OneWorkerEach
  <2>4. CASE RecordPool(w)
    BY <1>1, <2>1, <2>2, <2>4 DEF RecordPool, At, SeenRefs, WorldTyped
  <2>5. CASE WriteRunning(w)
    BY <1>1, <2>1, <2>5 DEF WriteRunning, WorldTyped
  <2>6. CASE ClearRow(w)
    <3>1. job[w].op = DestroyOp
      BY <2>2, <2>6, OwnOperations DEF ClearRow, At, ClearedByDestroy, Destroys
    <3> QED BY <2>3, <3>1
  <2> QED BY <2>1, <2>4, <2>5, <2>6
<1> QED BY <1>2, <1>3

-----------------------------------------------------------------------------
\* What is dated and what is shown.

\* What Noted writes down: success is dated when it comes, and never again.
LEMMA NotedDates ==
  ASSUME CommandTyped, Noted, NEW o \in Own
  PROVE  IF status[o] # "succeeded" /\ status'[o] = "succeeded"
         THEN doneIn'[o] = e2e.run ELSE doneIn'[o] = doneIn[o]
BY DEF Noted

\* Shown is kept: the refs CreatedVerified has seen stay, or are cleared in this run.
LEMMA ShownStep ==
  ASSUME SubjectIsOurs, TypeOK, CommandTyped, OneWorkerEach, ClearedByDestroy, RunInv,
         Present, [E2ENext]_e2eVars
  PROVE  Shown'
<1>1. DestroyOp \in Own /\ DestroyOp \in Operations
  BY OwnOperations DEF Own
<1>2. AnyStep
  BY StepsAreSteps
<1>3. CASE UNCHANGED e2eVars
  BY <1>3 DEF e2eVars, vars, queue, RunInv, Shown, Past, Subject
<1>4. CASE Others /\ Noted /\ UNCHANGED e2e
  <2>1. SUFFICES ASSUME Past({"destroying", "destroyed"}), status'[DestroyOp] = "succeeded",
                        doneIn'[DestroyOp] # e2e.run
                 PROVE  rows'[Subject].refs = TRUE
    BY <1>4 DEF Shown, Past, Subject
  <2>2. status[DestroyOp] = "succeeded" /\ doneIn[DestroyOp] # e2e.run
    BY <1>1, <1>4, <2>1, NotedDates
  <2> QED BY <1>2, <2>1, <2>2, RefsStay DEF RunInv, Shown
<1>5. CASE Launch
  BY <1>5 DEF Launch, Shown, Past
<1>6. CASE CommandStep
  <2>1. /\ rows' = rows /\ doneIn' = doneIn /\ e2e'.run = e2e.run
        /\ status'[DestroyOp] = "succeeded" => status[DestroyOp] = "succeeded"
    BY <1>1, <1>6, CommandMoves, RequestOnly, OwnOperations DEF Rest, Elsewhere, queue, Own
  <2>2. \/ e2e'.at \notin {"destroying", "destroyed"}
        \/ e2e.at = "destroying"
        \/ rows[Subject].refs = TRUE
    <3>1. rows[Subject].refs \in BOOLEAN
      BY TypeParts, OwnOperations DEF WorldTyped, Row
    <3> QED BY <1>6, <3>1, CommandMoves DEF Waiting, AfterWait
  <2> QED BY <2>1, <2>2 DEF RunInv, Shown, Past, Subject
<1>7. CASE FailureSeen \/ GiveUp
  BY <1>7, LosingSteps DEF Shown, Past
<1> QED BY <1>3, <1>4, <1>5, <1>6, <1>7 DEF E2ENext

\* Dated is kept: who is past the check of the destroy has seen it happen in this run.
LEMMA DatedStep ==
  ASSUME TypeOK, CommandTyped, OneWorkerEach, RunInv, Present, [E2ENext]_e2eVars
  PROVE  Dated'
<1>1. DestroyOp \in Own /\ RebuildOp \in Own /\ Own \subseteq Operations
      /\ DestroyOp # RebuildOp
  BY OwnOperations DEF Own
<1>2. \A o \in Own : status[o] = "succeeded" => status'[o] = "succeeded"
  BY <1>1, StepsAreSteps, SuccessStays
<1>3. e2e.run \in Nat /\ \A o \in Own : doneIn[o] \in Nat
  BY OwnOperations DEF CommandTyped
<1>4. CASE UNCHANGED e2eVars
  BY <1>4 DEF e2eVars, vars, queue, RunInv, Dated, Past
<1>5. CASE Others /\ Noted /\ UNCHANGED e2e
  <2>1. \A o \in Own : doneIn'[o] <= e2e.run
    BY <1>3, <1>5, NotedDates DEF RunInv, Dated
  <2>2. status[RebuildOp] = "succeeded" => status[DestroyOp] = "succeeded"
    BY DEF RunInv, InOrder
  <2>3. status'[RebuildOp] = "succeeded" => doneIn'[DestroyOp] <= doneIn'[RebuildOp]
    BY <1>1, <1>3, <1>5, <2>1, <2>2, NotedDates DEF RunInv, Dated
  <2>4. Past({"rebuilding", "rebuilt", "reported"}) => doneIn'[DestroyOp] = e2e.run
    BY <1>1, <1>5, NotedDates DEF RunInv, Dated, InOrder, Past
  <2> QED BY <1>5, <2>1, <2>3, <2>4 DEF Dated, Past
<1>6. ASSUME UNCHANGED doneIn, e2e'.run \in {e2e.run, e2e.run + 1},
             status'[RebuildOp] = "succeeded" => status[RebuildOp] = "succeeded",
             e2e'.at \in {"rebuilding", "rebuilt", "reported"} => doneIn[DestroyOp] = e2e'.run
      PROVE  Dated'
  BY <1>1, <1>3, <1>6 DEF RunInv, Dated, Past
<1>7. CASE Launch
  <2>1. status'[RebuildOp] = "succeeded" => status[RebuildOp] = "succeeded"
    BY <1>1, <1>7, RequestOnly DEF Launch, Own
  <2> QED BY <1>6, <1>7, <2>1 DEF Launch, Rest
<1>8. CASE CommandStep
  <2>1. /\ UNCHANGED doneIn /\ e2e'.run = e2e.run
        /\ status'[RebuildOp] = "succeeded" => status[RebuildOp] = "succeeded"
    BY <1>1, <1>8, CommandMoves, RequestOnly DEF Rest, queue
  <2>2. \/ e2e'.at \notin {"rebuilding", "rebuilt", "reported"}
        \/ e2e.at \in {"rebuilding", "rebuilt"}
        \/ e2e.at = "destroyed" /\ ~rows[Subject].refs
    BY <1>8, CommandMoves DEF Waiting, AfterWait
  <2>3. e2e.at = "destroyed" /\ ~rows[Subject].refs => doneIn[DestroyOp] = e2e.run
    BY DEF RunInv, InOrder, Shown, Past
  <2> QED BY <1>6, <2>1, <2>2, <2>3 DEF RunInv, Dated, Past
<1>9. CASE FailureSeen \/ GiveUp
  BY <1>1, <1>6, <1>9, LosingSteps
<1> QED BY <1>4, <1>5, <1>7, <1>8, <1>9 DEF E2ENext

Inductive == TypeOK /\ CommandTyped /\ OneWorkerEach /\ ClearedByDestroy /\ (Present => RunInv)

\* Inductive is inductive, as long as the command's compute is its own.
LEMMA InductiveIsKept ==
  ASSUME SubjectIsOurs
  PROVE  /\ E2EInit => Inductive
         /\ Inductive /\ [E2ENext]_e2eVars => Inductive'
<1>1. E2EInit => Inductive
  <2> SUFFICES ASSUME E2EInit PROVE Inductive
    OBVIOUS
  <2>1. TypeOK /\ CommandTyped
    BY TypeInit, OwnOperations DEF E2EInit, CommandTyped, Places
  <2>2. /\ \A w \in Workers : job[w] = Idle
        /\ \A o \in Operations : status[o] = "absent"
        /\ \A o \in Own : doneIn[o] = 0
        /\ e2e.at \in {"off", "cleanup", "rollout"} /\ e2e.run = 0
    BY DEF E2EInit, Init, Queue!ContractInit
  <2>3. OneWorkerEach /\ ClearedByDestroy
    BY <2>2 DEF OneWorkerEach, ClearedByDestroy, Idle
  <2>4. SeenRefs
    BY <2>2 DEF SeenRefs, Idle
  <2>5. InOrder /\ Shown /\ Dated
    BY <2>2, OwnOperations DEF InOrder, Shown, Dated, Past, Own
  <2> QED BY <2>1, <2>3, <2>4, <2>5 DEF Inductive, RunInv
<1>2. Inductive /\ [E2ENext]_e2eVars => Inductive'
  <2> SUFFICES ASSUME Inductive, [E2ENext]_e2eVars PROVE Inductive'
    OBVIOUS
  <2>1. AnyStep
    BY StepsAreSteps
  <2>2. (TypeOK /\ CommandTyped /\ OneWorkerEach /\ ClearedByDestroy)'
    BY <2>1, AnyStepTyped, CommandTypedStep, OneWorkerStep, ClearedByDestroyStep DEF Inductive
  <2>3. ASSUME Present' PROVE RunInv'
    <3>1. Present /\ RunInv
      BY <2>3, PresentBefore DEF Inductive
    <3>2. InOrder' /\ SeenRefs'
      BY <2>1, <3>1, InOrderStep, SeenRefsStep DEF Inductive, RunInv
    <3>3. Shown' /\ Dated'
      BY <3>1, ShownStep, DatedStep DEF Inductive
    <3> QED BY <3>2, <3>3 DEF RunInv
  <2> QED BY <2>2, <2>3 DEF Inductive
<1> QED BY <1>1, <1>2

\* ReportIsEarned, whatever crashes, is repeated or is left by earlier runs, as long as
\* nobody else has an operation on the command's compute: refs that were there after
\* the destroy operation had its verdict never go, so an old verdict cannot bring the
\* command past the check that they are gone.
THEOREM ReportsAreEarned ==
  ASSUME SubjectIsOurs
  PROVE  E2ESpec => []ReportIsEarned
<1>1. Inductive => ReportIsEarned
  <2> SUFFICES ASSUME Inductive, e2e.at = "reported"
               PROVE  doneIn[DestroyOp] = e2e.run /\ doneIn[RebuildOp] = e2e.run
    BY DEF ReportIsEarned
  <2>1. RunInv
    BY DEF Inductive, Present
  <2>2. doneIn[DestroyOp] = e2e.run /\ doneIn[DestroyOp] <= doneIn[RebuildOp]
        /\ doneIn[RebuildOp] <= e2e.run
    BY <2>1 DEF RunInv, InOrder, Dated, Past, Own
  <2>3. doneIn[RebuildOp] \in Nat /\ e2e.run \in Nat
    BY OwnOperations DEF Inductive, CommandTyped, Own
  <2> QED BY <2>2, <2>3
<1> QED BY <1>1, InductiveIsKept, PTL DEF E2ESpec

-----------------------------------------------------------------------------
\* What a success leaves behind.

Running == rows[Subject].refs = TRUE /\ Subject \in deployments
Cleared == rows[Subject] = [state |-> "destroyed", refs |-> FALSE, pool |-> None]

\* A destroy takes the steps of a destroy.
DestroyPath ==
  \A w \in Workers :
    job[w].op # None /\ Destroys(w) => job[w].at \in {"read", "delete", "clear", "done"}

\* The claim is there from the first step of the create on.
ClaimKept ==
  /\ status[CreateOp] = "succeeded" => Subject \in claims
  /\ \A w \in Workers : job[w].op = CreateOp /\ job[w].at # "claim" => Subject \in claims

\* Who is about to write that the compute runs has its Deployment.
Placed ==
  \A w \in Workers : job[w].op \in Own /\ job[w].at = "write" => Subject \in deployments

\* Who is through with an operation has done it, and nobody undoes it.
Finished ==
  \A w \in Workers :
    job[w].op \in Own /\ job[w].at = "done" => IF Destroys(w) THEN Cleared ELSE Running

Left ==
  /\ status[CreateOp] = "succeeded" /\ status[DestroyOp] = "absent" => Running
  /\ status[DestroyOp] = "succeeded" /\ status[RebuildOp] = "absent" => Cleared
  /\ status[RebuildOp] = "succeeded" => Running

Achieved == ClaimKept /\ Placed /\ Finished /\ Left

\* Beside the command only workers' attempts, and the end of one, touch a Deployment that
\* is there; nothing takes a claim away.
LEMMA WorldBesideCommand ==
  ASSUME Present, [E2ENext]_e2eVars
  PROVE  \/ \E w \in Workers : Goes(w) \/ Ends(w)
         \/ deployments' = deployments /\ claims' = claims
<1>1. CASE UNCHANGED e2eVars
  BY <1>1 DEF e2eVars, vars
<1>2. CASE Clients
  BY <1>2 DEF Clients, Submit, Elsewhere
<1>3. ASSUME NEW w \in Workers, BeginAny(w)
      PROVE  deployments' = deployments /\ claims' = claims
  BY <1>3 DEF BeginAny, Begin, Elsewhere
<1>4. ASSUME NEW w \in Workers, Attempt(w) \/ Crash(w) PROVE Goes(w) \/ Ends(w)
  BY <1>4 DEF Attempt, Advance, Crash, Goes, Ends
<1>5. CASE Cluster
  BY <1>5 DEF Cluster, Schedule, PoolGone
<1>6. CASE Launch \/ CommandStep
  BY <1>6, CommandSteps DEF Rest, Elsewhere
<1>7. CASE FailureSeen \/ GiveUp
  BY <1>7, OwnOperations DEF FailureSeen, GiveUp, Ends, vars
<1> QED BY <1>1, <1>2, <1>3, <1>4, <1>5, <1>6, <1>7 DEF E2ENext, Others, Present, Scene

\* The claims of the cluster stay.
LEMMA ClaimsStay ==
  ASSUME Present, [E2ENext]_e2eVars
  PROVE  claims \subseteq claims'
<1>1. ASSUME NEW w \in Workers, Goes(w) \/ Ends(w) PROVE claims \subseteq claims'
  BY <1>1
     DEF Goes, ReadRow, FindPool, VerifyPool, Work, Ends, Succeed, Fails, StepFails, StepLost,
         CreateComputeUndone, LoseWorker, Elsewhere, Effect, ReserveClaim, CreateNodePool,
         RecordPool, CreateCompute, WriteRunning, DestroyCompute, ClearRow
<1> QED BY <1>1, WorldBesideCommand

\* The Deployment of the command's compute goes under the hands of a worker of it.
LEMMA DeploymentGoes ==
  ASSUME TypeOK, Present, [E2ENext]_e2eVars, Subject \in deployments,
         Subject \notin deployments'
  PROVE  \E w \in Workers :
           Compute(w) = Subject /\ job[w].op \in Operations /\ job'[w].at # job[w].at
<1>1. JobsTyped
  BY TypeParts
<1>2. PICK w \in Workers : Goes(w) \/ Ends(w)
  BY WorldBesideCommand
<1>3. \/ Work(w) /\ DestroyCompute(w)
      \/ StepLost(w) /\ DestroyCompute(w)
      \/ CreateComputeUndone(w)
  BY <1>2
     DEF Goes, ReadRow, FindPool, VerifyPool, Work, Ends, Succeed, Fails, StepFails, StepLost,
         LoseWorker, Elsewhere, Effect, ReserveClaim, CreateNodePool, RecordPool,
         CreateCompute, WriteRunning, ClearRow
<1>4. job[w].at \in {"delete", "deploy"} /\ Compute(w) = Subject
  BY <1>3 DEF DestroyCompute, CreateComputeUndone, At
<1>5. job[w].op \in Operations
  BY <1>1, <1>4, SomewhereIsBusy, BusyWorker
<1>6. job'[w].at \in {"clear", "idle"}
  BY <1>1, <1>3
     DEF Work, StepLost, CreateComputeUndone, DestroyCompute, FailAttempt, Leave, Goto, At,
         Idle, JobsTyped
<1> QED BY <1>4, <1>5, <1>6

\* Row and Deployment of the command's compute stay while nobody works on its operations,
\* and while the one worker who does stands still.
LEMMA SubjectRests ==
  ASSUME SubjectIsOurs, TypeOK, Present, [E2ENext]_e2eVars,
         \A w \in Workers : job[w].op \in Own => job'[w] = job[w]
  PROVE  /\ rows'[Subject] = rows[Subject]
         /\ Subject \in deployments => Subject \in deployments'
<1>1. ASSUME NEW w \in Workers, Compute(w) = Subject, job[w].op \in Operations,
             job'[w].at # job[w].at
      PROVE  FALSE
  BY <1>1 DEF SubjectIsOurs, Compute
<1>2. AnyStep
  BY StepsAreSteps
<1> QED BY <1>1, <1>2, RowChanges, DeploymentGoes
\* Where a worker of one of the command's operations comes from.
LEMMA OursMoves ==
  ASSUME TypeOK, AnyStep, NEW w \in Workers, job'[w].op \in Own
  PROVE  \/ job'[w] = job[w]
         \/ \E o \in Operations : Begin(w, o)
         \/ Goes(w) /\ job[w].op = job'[w].op
<1>1. JobsTyped /\ None \notin Own
  BY TypeParts, OwnOperations, PoolAssumption
<1>2. ASSUME NEW v \in Workers, NEW o \in Operations, Begin(v, o)
      PROVE  job'[w] = job[w] \/ Begin(w, o)
  BY <1>1, <1>2 DEF Begin, JobsTyped
<1>3. ASSUME NEW v \in Workers, Ends(v) PROVE job'[w] = job[w]
  BY <1>1, <1>3, EndsClean DEF JobsTyped, Idle
<1>4. ASSUME NEW v \in Workers, Goes(v)
      PROVE  job'[w] = job[w] \/ (Goes(w) /\ job[w].op = job'[w].op)
  BY <1>4, GoesOn
<1> QED BY <1>2, <1>3, <1>4, StepCases DEF Submit

\* The first place of an attempt.
LEMMA BeginsAt ==
  ASSUME TypeOK, NEW w \in Workers, NEW o \in Operations, Begin(w, o)
  PROVE  /\ job'[w].op = o
         /\ job'[w].at = IF Kind[o] = "workspace" THEN "claim" ELSE "read"
BY TypeParts DEF Begin, JobsTyped

\* DestroyPath is kept.
LEMMA DestroyPathStep ==
  ASSUME TypeOK, DestroyPath, AnyStep
  PROVE  DestroyPath'
<1> SUFFICES ASSUME NEW w \in Workers, job'[w].op # None,
                    Kind[job'[w].op] = "compute_allocation_destroy"
             PROVE  job'[w].at \in {"read", "delete", "clear", "done"}
  BY DEF DestroyPath, Destroys
<1>1. JobsTyped
  BY TypeParts
<1>2. CASE job'[w] = job[w]
  BY <1>2 DEF DestroyPath, Destroys
<1>3. ASSUME NEW v \in Workers, NEW o \in Operations, Begin(v, o)
      PROVE  job'[w] = job[w] \/ job'[w].at = "read"
  BY <1>1, <1>3, BeginsAt DEF Begin, JobsTyped
<1>4. ASSUME NEW v \in Workers, Ends(v) PROVE job'[w] = job[w]
  BY <1>1, <1>4, EndsClean DEF JobsTyped, Idle
<1>5. ASSUME NEW v \in Workers \ {w}, Goes(v) PROVE job'[w] = job[w]
  BY <1>5, GoesOn
<1>6. ASSUME Goes(w) PROVE job'[w].at \in {"read", "delete", "clear", "done"}
  <2>1. Destroys(w) /\ job[w].op # None
    BY <1>6, GoesOn DEF Destroys
  <2>2. CASE ReadRow(w)
    BY <1>1, <2>1, <2>2 DEF ReadRow, Goto, AfterRead, JobsTyped
  <2>3. CASE FindPool(w) \/ VerifyPool(w)
    BY <2>1, <2>3 DEF FindPool, VerifyPool, At, DestroyPath
  <2>4. CASE Work(w)
    BY <1>1, <2>1, <2>4 DEF Work, Goto, At, DestroyPath, JobsTyped
  <2> QED BY <1>6, <2>2, <2>3, <2>4 DEF Goes
<1> QED BY <1>2, <1>3, <1>4, <1>5, <1>6, StepCases DEF Submit

\* Success comes from a worker that is through.
LEMMA SuccessIsDone ==
  ASSUME TypeOK, OneWorkerEach, AnyStep, NEW o \in Operations,
         status[o] # "succeeded", status'[o] = "succeeded"
  PROVE  \E w \in Workers :
           /\ job[w].op = o /\ job[w].at = "done"
           /\ UNCHANGED Elsewhere
<1>1. QueueTyped
  BY TypeParts
<1>2. ASSUME NEW p \in Operations, Submit(p) \/ \E w \in Workers : Begin(w, p)
      PROVE  FALSE
  BY <1>1, <1>2 DEF Submit, Begin, Queue!Accept, Queue!Start, Queue!SetStatus, QueueTyped
<1>3. ASSUME NEW w \in Workers, Goes(w) PROVE FALSE
  BY <1>3, GoesOn DEF queue
<1>4. PICK w \in Workers : Ends(w)
  BY <1>2, <1>3, StepCases DEF queue
<1>5. o = job[w].op
  BY <1>4, EndsClean
<1>6. Succeed(w)
  BY <1>1, <1>4, <1>5
     DEF Ends, Fails, StepFails, StepLost, CreateComputeUndone, FailAttempt, LoseWorker,
         Queue!CountFailure, Queue!Abandon, Queue!SetStatus, QueueTyped, queue
<1> QED BY <1>5, <1>6 DEF Succeed, At

\* Before an operation of the command is asked for, nobody works on a later one; after
\* its success, nobody works on it again.
LEMMA NobodyBetween ==
  ASSUME OneWorkerEach, InOrder, NEW w \in Workers, job[w].op \in Own
  PROVE  /\ ~(status[CreateOp] = "succeeded" /\ status[DestroyOp] = "absent")
         /\ ~(status[DestroyOp] = "succeeded" /\ status[RebuildOp] = "absent")
         /\ status[RebuildOp] # "succeeded"
<1>1. status[job[w].op] = "running"
  BY OwnOperations, PoolAssumption DEF OneWorkerEach
<1> QED BY <1>1 DEF InOrder, Own

\* ClaimKept is kept.
LEMMA ClaimKeptStep ==
  ASSUME TypeOK, OneWorkerEach, Present, ClaimKept, [E2ENext]_e2eVars
  PROVE  ClaimKept'
<1>1. AnyStep /\ JobsTyped /\ CreateOp \in Operations /\ CreateOp \in Own
  BY StepsAreSteps, TypeParts, OwnOperations DEF Own
<1>2. claims \subseteq claims'
  BY ClaimsStay
<1>3. status'[CreateOp] = "succeeded" => Subject \in claims'
  <2>1. CASE status[CreateOp] = "succeeded"
    BY <1>2, <2>1 DEF ClaimKept
  <2>2. ASSUME status[CreateOp] # "succeeded", status'[CreateOp] = "succeeded"
        PROVE  Subject \in claims
    BY <1>1, <2>2, SuccessIsDone DEF ClaimKept
  <2> QED BY <1>2, <2>1, <2>2
<1>4. ASSUME NEW w \in Workers, job'[w].op = CreateOp, job'[w].at # "claim"
      PROVE  Subject \in claims'
  <2>1. CASE job'[w] = job[w]
    BY <1>2, <1>4, <2>1 DEF ClaimKept
  <2>2. ASSUME NEW o \in Operations, Begin(w, o) PROVE FALSE
    BY <1>4, <2>2, BeginsAt, CommandAssumption
  <2>3. CASE Goes(w) /\ job[w].op = CreateOp
    <3>1. CASE job[w].at = "claim"
      <4>1. Work(w) /\ ReserveClaim(w)
        BY <2>3, <3>1
           DEF Goes, ReadRow, FindPool, VerifyPool, Work, Effect, At, ReserveClaim,
               CreateNodePool, RecordPool, CreateCompute, WriteRunning, DestroyCompute, ClearRow
      <4> QED BY <2>3, <4>1 DEF ReserveClaim, Compute, Subject
    <3>2. CASE job[w].at # "claim"
      BY <1>2, <2>3, <3>2 DEF ClaimKept
    <3> QED BY <3>1, <3>2
  <2> QED BY <1>1, <1>4, <2>1, <2>2, <2>3, OursMoves
<1> QED BY <1>3, <1>4 DEF ClaimKept, Subject

\* The one worker of the command's operations stands still, or nothing else touches
\* what it works on.
LEMMA OthersStandStill ==
  ASSUME SubjectIsOurs, TypeOK, OneWorkerEach, InOrder, Present, [E2ENext]_e2eVars,
         NEW w \in Workers, job'[w] = job[w], job[w].op \in Own
  PROVE  /\ rows'[Subject] = rows[Subject]
         /\ Subject \in deployments => Subject \in deployments'
BY OneWorkerForOurs, SubjectRests

\* Placed is kept: the Deployment that CreateCompute has made is there when the row is
\* written.
LEMMA PlacedStep ==
  ASSUME SubjectIsOurs, TypeOK, OneWorkerEach, InOrder, Present, Placed, [E2ENext]_e2eVars
  PROVE  Placed'
<1> SUFFICES ASSUME NEW w \in Workers, job'[w].op \in Own, job'[w].at = "write"
             PROVE  Subject \in deployments'
  BY DEF Placed, Own, Subject
<1>1. AnyStep /\ JobsTyped
  BY StepsAreSteps, TypeParts
<1>2. CASE job'[w] = job[w]
  BY <1>2, OthersStandStill DEF Placed
<1>3. ASSUME NEW o \in Operations, Begin(w, o) PROVE FALSE
  BY <1>3, BeginsAt
<1>4. CASE Goes(w) /\ job[w].op = job'[w].op
  <2>1. AfterResolve(w) \in {"read", "verify"}
    BY DEF AfterResolve
  <2>2. Work(w) /\ job[w].at = "deploy"
    BY <1>1, <1>4, <2>1, GoesTo DEF Goes, Work, Goto, At, JobsTyped
  <2>3. CreateCompute(w)
    BY <2>2
       DEF Work, Effect, At, ReserveClaim, CreateNodePool, RecordPool, WriteRunning,
           DestroyCompute, ClearRow
  <2> QED BY <1>4, <2>3, OwnOperations DEF CreateCompute, Compute
<1> QED BY <1>1, <1>2, <1>3, <1>4, OursMoves

\* Finished is kept.
LEMMA FinishedStep ==
  ASSUME SubjectIsOurs, TypeOK, OneWorkerEach, InOrder, ClearedByDestroy, DestroyPath, Present,
         Placed, Finished, [E2ENext]_e2eVars
  PROVE  Finished'
<1> SUFFICES ASSUME NEW w \in Workers, job'[w].op \in Own, job'[w].at = "done"
             PROVE  IF Kind[job'[w].op] = "compute_allocation_destroy"
                    THEN Cleared' ELSE Running'
  BY DEF Finished, Own, Destroys
<1>1. AnyStep /\ JobsTyped /\ WorldTyped /\ Subject \in Computes
  BY StepsAreSteps, TypeParts, OwnOperations
<1>2. CASE job'[w] = job[w]
  BY <1>2, OthersStandStill DEF Finished, Destroys, Cleared, Running, Subject
<1>3. ASSUME NEW o \in Operations, Begin(w, o) PROVE FALSE
  BY <1>3, BeginsAt
<1>4. CASE Goes(w) /\ job[w].op = job'[w].op
  <2>1. AfterResolve(w) \in {"read", "verify"}
    BY DEF AfterResolve
  <2>2. Work(w) /\ job[w].at \in {"write", "clear"}
    BY <1>1, <1>4, <2>1, GoesTo DEF Goes, Work, Goto, At, JobsTyped
  <2>3. Compute(w) = Subject /\ job[w].op \in Own /\ job[w].op # None
    BY <1>4, OwnOperations, PoolAssumption DEF Compute
  <2>4. CASE job[w].at = "write"
    <3>1. WriteRunning(w)
      BY <2>2, <2>4
         DEF Work, Effect, At, ReserveClaim, CreateNodePool, RecordPool, CreateCompute,
             DestroyCompute, ClearRow
    <3>2. ~Destroys(w) /\ Subject \in deployments
      BY <2>3, <2>4 DEF DestroyPath, Placed
    <3>3. rows'[Subject].refs = TRUE /\ Subject \in deployments'
      BY <1>1, <2>3, <3>1, <3>2 DEF WriteRunning, WorldTyped
    <3> QED BY <1>4, <3>2, <3>3 DEF Running, Destroys, Subject
  <2>5. CASE job[w].at = "clear"
    <3>1. ClearRow(w)
      BY <2>2, <2>5
         DEF Work, Effect, At, ReserveClaim, CreateNodePool, RecordPool, CreateCompute,
             DestroyCompute, WriteRunning
    <3>2. Cleared' /\ Destroys(w)
      BY <1>1, <2>3, <2>5, <3>1 DEF ClearRow, WorldTyped, Cleared, Subject, ClearedByDestroy
    <3> QED BY <1>4, <3>2 DEF Destroys
  <2> QED BY <2>2, <2>4, <2>5
<1> QED BY <1>1, <1>2, <1>3, <1>4, OursMoves

\* Left is kept: what a success leaves stays until the next operation is asked for.
LEMMA LeftStep ==
  ASSUME SubjectIsOurs, TypeOK, OneWorkerEach, InOrder, InOrder', Present, Finished, Left,
         [E2ENext]_e2eVars
  PROVE  Left'
<1>1. AnyStep /\ {CreateOp, DestroyOp, RebuildOp} \subseteq Operations
  BY StepsAreSteps, OwnOperations DEF Own
<1>2. \A o \in {DestroyOp, RebuildOp} : status'[o] = "absent" => status[o] = "absent"
  BY <1>1, SuccessStays
<1>3. ASSUME \A w \in Workers : job[w].op \notin Own
      PROVE  (Running => Running') /\ (Cleared => Cleared')
  BY <1>3, SubjectRests DEF Running, Cleared, Subject
<1>4. ASSUME NEW o \in Own, status[o] # "succeeded", status'[o] = "succeeded"
      PROVE  IF o = DestroyOp THEN Cleared' ELSE Running'
  <2>1. o \in Operations
    BY <1>4, OwnOperations
  <2>2. PICK w \in Workers : job[w].op = o /\ job[w].at = "done" /\ UNCHANGED Elsewhere
    BY <1>1, <1>4, <2>1, SuccessIsDone
  <2>3. Destroys(w) <=> o = DestroyOp
    BY <2>2, CommandAssumption DEF Destroys, Own
  <2> QED BY <2>2, <2>3 DEF Finished, Elsewhere, Running, Cleared, Subject
<1>5. status'[CreateOp] = "succeeded" /\ status'[DestroyOp] = "absent" => Running'
  BY <1>2, <1>3, <1>4, NobodyBetween, OwnOperations DEF Left, Own
<1>6. status'[DestroyOp] = "succeeded" /\ status'[RebuildOp] = "absent" => Cleared'
  BY <1>2, <1>3, <1>4, NobodyBetween, OwnOperations DEF Left, Own
<1>7. status'[RebuildOp] = "succeeded" => Running'
  BY <1>2, <1>3, <1>4, NobodyBetween, OwnOperations DEF Left, Own
<1> QED BY <1>5, <1>6, <1>7 DEF Left

\* ChecksFollowSuccess, whatever fails, crashes and is repeated: from the claim to the
\* last row, what the one worker of the command's operations has done stays until the
\* next operation is asked for.
THEOREM ChecksSeeSuccess ==
  ASSUME SubjectIsOurs
  PROVE  E2ESpec => []ChecksFollowSuccess
<1> DEFINE IInv == Inductive /\ DestroyPath /\ (Present => Achieved)
<1>1. E2EInit => IInv
  <2> SUFFICES ASSUME E2EInit PROVE IInv
    OBVIOUS
  <2>1. /\ \A w \in Workers : job[w] = Idle
        /\ \A o \in Operations : status[o] = "absent"
    BY DEF E2EInit, Init, Queue!ContractInit
  <2>2. None \notin Own /\ Own \subseteq Operations
    BY OwnOperations, PoolAssumption
  <2>3. DestroyPath /\ ClaimKept /\ Placed /\ Finished
    BY <2>1, <2>2 DEF DestroyPath, ClaimKept, Placed, Finished, Idle, Own
  <2>4. Left
    BY <2>1, <2>2 DEF Left, Own
  <2> QED BY <2>3, <2>4, InductiveIsKept DEF Achieved
<1>2. IInv /\ [E2ENext]_e2eVars => IInv'
  <2> SUFFICES ASSUME IInv, [E2ENext]_e2eVars PROVE IInv'
    OBVIOUS
  <2>1. Inductive' /\ DestroyPath'
    BY InductiveIsKept, StepsAreSteps, DestroyPathStep DEF Inductive
  <2>2. ASSUME Present' PROVE Achieved'
    <3>1. Present
      BY <2>2, PresentBefore DEF Inductive
    <3>2. InOrder /\ InOrder'
      BY <2>1, <2>2, <3>1 DEF Inductive, RunInv
    <3>3. ClaimKept' /\ Placed'
      BY <3>1, <3>2, ClaimKeptStep, PlacedStep DEF Inductive, Achieved
    <3>4. Finished' /\ Left'
      BY <3>1, <3>2, FinishedStep, LeftStep DEF Inductive, Achieved
    <3> QED BY <3>3, <3>4 DEF Achieved
  <2> QED BY <2>1, <2>2
<1>3. IInv => ChecksFollowSuccess
  <2> SUFFICES ASSUME IInv, Past({"created", "destroyed", "rebuilt"})
               PROVE  ChecksFollowSuccess
    BY DEF ChecksFollowSuccess, Past
  <2>1. InOrder /\ ClaimKept /\ Left
    BY DEF Past, Present, Inductive, RunInv, Achieved
  <2>2. status[CreateOp] = "succeeded"
    BY <2>1 DEF InOrder, Past
  <2> QED
    BY <2>1, <2>2
       DEF InOrder, Past, ClaimKept, Left, Running, Cleared, ChecksFollowSuccess, ObjectsThere,
           StorageRetained
<1> QED BY <1>1, <1>2, <1>3, PTL DEF E2ESpec
==============================================================================
