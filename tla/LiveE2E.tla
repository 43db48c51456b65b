------------------------------- MODULE LiveE2E -------------------------------
(***************************************************************************)
(* The commands run by hand beside the worker of the API and its clients.  *)
(* The live end-to-end command creates a workspace, destroys its compute   *)
(* and rebuilds it; it waits for each operation, running a worker of its   *)
(* own meanwhile, and looks at rows and cluster in between.  It may be     *)
(* started again with the idempotency key of a run that did not end well,  *)
(* and then finds the operations of that run.  The staging cleanup empties *)
(* the cluster.  A behaviour has the one command or the other, or neither: *)
(* then two replicas of the API overlap, as in a rollout of its Deployment, *)
(* and clients ask for operations that overlap on one compute.             *)
(***************************************************************************)
EXTENDS ComputePool

CONSTANTS
  CreateOp, DestroyOp, RebuildOp,  \* the operations the command's key leads to
  Command,                         \* the worker inside the command, or the second replica's
  Requests,                        \* what clients ask for in each scene
  MaxRuns                          \* how often the command is started

Scenes == {"command", "cleanup", "rollout"}

ASSUME CommandAssumption ==
  /\ {CreateOp, DestroyOp, RebuildOp} \subseteq Operations
  /\ Kind[CreateOp] = "workspace"
  /\ Kind[DestroyOp] = "compute_allocation_destroy"
  /\ Kind[RebuildOp] = "compute_allocation"
  /\ Target[DestroyOp] = Target[CreateOp] /\ Target[RebuildOp] = Target[CreateOp]
  /\ Command \in Workers
  /\ Requests \in [Scenes -> SUBSET Operations]
  /\ Requests["command"] \cap {CreateOp, DestroyOp, RebuildOp} = {}
  /\ MaxRuns \in Nat

VARIABLES
  e2e,    \* where the command is, and how often it was started
  doneIn  \* history: the run of the command in which each of its operations succeeded

e2eVars == <<vars, e2e, doneIn>>

Own == {CreateOp, DestroyOp, RebuildOp}
Subject == Target[CreateOp]

Waiting == {"creating", "destroying", "rebuilding"}
Checking == {"created", "destroyed", "rebuilt"}
Places == Waiting \cup Checking \cup {"off", "reported", "refused", "gone", "cleanup", "rollout"}

Scene == IF e2e.at \in {"cleanup", "rollout"} THEN e2e.at ELSE "command"

\* What the command waits for.
Awaited == [creating |-> CreateOp, destroying |-> DestroyOp, rebuilding |-> RebuildOp]
AfterWait == [creating |-> "created", destroying |-> "destroyed", rebuilding |-> "rebuilt"]

Move(place) == e2e' = [e2e EXCEPT !.at = place]

\* An operation is inserted unless its key is there already.
Request(o) == IF status[o] = "absent" THEN Queue!Accept(o) ELSE UNCHANGED queue

Rest == <<job, Elsewhere, cleanup, overtaken, doneIn>>

-----------------------------------------------------------------------------
Launch ==
  /\ e2e.at \in {"off", "refused", "gone"} /\ e2e.run < MaxRuns
  /\ e2e' = [at |-> "creating", run |-> e2e.run + 1]
  /\ Request(CreateOp)
  /\ UNCHANGED Rest

\* waitOperation reads the state between two batches of its worker.
OperationSucceeded ==
  /\ e2e.at \in Waiting /\ job[Command] = Idle
  /\ status[Awaited[e2e.at]] = "succeeded"
  /\ Move(AfterWait[e2e.at])
  /\ UNCHANGED <<queue, Rest>>

OperationFailed ==
  /\ e2e.at \in Waiting /\ job[Command] = Idle
  /\ status[Awaited[e2e.at]] = "failed"
  /\ Move("refused")
  /\ UNCHANGED <<queue, Rest>>

\* "failed" is also what it reads while another worker has yet to put the row back.
FailureSeen ==
  /\ e2e.at \in Waiting /\ job[Command] = Idle
  /\ \E w \in Workers : job[w].op = Awaited[e2e.at] /\ Fails(w)
  /\ Move("refused")
  /\ UNCHANGED doneIn

\* verifyWorkspaceObjects: complete refs and the objects they name.
ObjectsThere ==
  /\ rows[Subject].refs
  /\ Subject \in claims /\ Subject \in deployments

\* A slip: the compute's row is not looked at.
StorageKept == Subject \in claims

\* verifyStorageRetained: the compute's row is cleared, the claim is there.
StorageRetained ==
  /\ rows[Subject] = [state |-> "destroyed", refs |-> FALSE, pool |-> None]
  /\ Subject \in claims

CreatedVerified ==
  /\ e2e.at = "created"
  /\ ObjectsThere /\ node[Subject] # None
  /\ Move("destroying")
  /\ Request(DestroyOp)
  /\ UNCHANGED Rest

DestroyVerified ==
  /\ e2e.at = "destroyed"
  /\ StorageRetained
  /\ Move("rebuilding")
  /\ Request(RebuildOp)
  /\ UNCHANGED Rest

Report ==
  /\ e2e.at = "rebuilt"
  /\ ObjectsThere /\ node[Subject] # None
  /\ Move("reported")
  /\ UNCHANGED <<queue, Rest>>

CheckFails ==
  /\ e2e.at \in Checking
  /\ ~(IF e2e.at = "destroyed" THEN StorageRetained ELSE ObjectsThere)
  /\ Move("refused")
  /\ UNCHANGED <<queue, Rest>>

\* The command's context ends, or a statement of its own fails, and it exits; the
\* attempt its worker is in is lost with it.
GiveUp ==
  /\ e2e.at \in Waiting \cup Checking
  /\ Move("gone")
  /\ LoseWorker(Command) \/ (job[Command] = Idle /\ UNCHANGED vars)
  /\ UNCHANGED doneIn

-----------------------------------------------------------------------------
\* The worker of the command runs while the command waits; a replica's always.
WorkerOn(w) == w = Command => e2e.at \in Waiting \cup {"rollout"}

BeginAny(w) == WorkerOn(w) /\ \E o \in Operations : Begin(w, o)

Clients == \E o \in Requests[Scene] : Submit(o)

Others ==
  \/ Clients
  \/ \E w \in Workers : BeginAny(w) \/ Attempt(w)
  \/ \E w \in Workers : Crash(w) /\ (w = Command => Scene = "rollout")
  \/ Cluster
  \/ Scene = "cleanup" /\ Cleanup

Noted ==
  doneIn' = [o \in Own |->
               IF status[o] # "succeeded" /\ status'[o] = "succeeded"
               THEN e2e.run ELSE doneIn[o]]

CommandStep ==
  \/ OperationSucceeded \/ OperationFailed
  \/ CreatedVerified \/ DestroyVerified \/ Report \/ CheckFails

E2EInit ==
  /\ Init
  /\ e2e \in [at : {"off", "cleanup", "rollout"}, run : {0}]
  /\ doneIn = [o \in Own |-> 0]

E2ENext ==
  \/ Others /\ Noted /\ UNCHANGED e2e
  \/ Launch \/ CommandStep \/ FailureSeen \/ GiveUp

\* A step of somebody else while the command is about.
Beside(step) == Scene = "command" /\ UNCHANGED e2e /\ step /\ Noted

\* Running processes take their steps, and the cluster places pods.
Fairness ==
  /\ \A w \in Workers : WF_e2eVars(Beside(BeginAny(w) \/ Advance(w)))
  /\ WF_e2eVars(Beside(Cluster))
  /\ WF_e2eVars(CommandStep)

E2ESpec == E2EInit /\ [][E2ENext]_e2eVars /\ Fairness

-----------------------------------------------------------------------------
E2ETypeOK ==
  /\ TypeOK
  /\ e2e \in [at : Places, run : 0..MaxRuns]
  /\ doneIn \in [Own -> 0..MaxRuns]

\* "compute rebuilt" (run, main.go:244) is reported only by a run of the command in which
\* the compute was destroyed and rebuilt, whoever did it and whatever an earlier run
\* under the same key had left: its old operations never pass for new ones.
ReportIsEarned ==
  e2e.at = "reported" => doneIn[DestroyOp] = e2e.run /\ doneIn[RebuildOp] = e2e.run

\* Whichever worker had an operation of the command, and whatever failed, crashed or was
\* repeated before it succeeded, the check that follows (main.go:208-244) finds in row
\* and cluster what it did, unless an earlier run has already asked for the next one.
ChecksFollowSuccess ==
  /\ e2e.at = "created" /\ status[DestroyOp] = "absent" => ObjectsThere
  /\ e2e.at = "destroyed" /\ status[RebuildOp] = "absent" => StorageRetained
  /\ e2e.at = "rebuilt" => ObjectsThere

\* Nothing has failed, crashed or run out of time.
Undisturbed ==
  /\ e2e.run <= 1 /\ e2e.at # "gone"
  /\ \A o \in Operations :
       /\ tries[o] = 0 /\ status[o] # "failed"
       /\ status[o] = "running" => \E w \in Workers : job[w].op = o

\* A first run that nothing disturbs ends in its report, though the API's worker takes
\* some of its operations and other computes race it for the pool of the instance type.
UndisturbedRunReports == e2e.run = 1 ~> e2e.at = "reported" \/ ~Undisturbed
==============================================================================
