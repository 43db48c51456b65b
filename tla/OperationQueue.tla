---------------------------- MODULE OperationQueue ----------------------------
(***************************************************************************)
(* The table fabric_operations and the workers that drain it.              *)
(*                                                                         *)
(* A worker polls for accepted rows, leases one at a time, lets the        *)
(* orchestrator apply it and records the outcome.  Every step of a worker  *)
(* is one SQL statement, or the whole of Orchestrator.apply, whose effect  *)
(* on the resources is the subject of Delivery: here it only succeeds or   *)
(* fails.  Several workers share the table: the replicas of fabric-api,    *)
(* the overlap of a rolling update, and the live end-to-end command.       *)
(***************************************************************************)
EXTENDS Naturals, FiniteSets

CONSTANTS
  Operations,   \* the idempotency keys clients use, one operation row each
  Workers,      \* the processes that run Worker.Run
  BatchSize,    \* Worker.BatchSize: rows one poll returns at most
  MaxAttempts,  \* the 3 of RecordOperationFailure
  Faults,       \* the faults of the environment that may occur
  None          \* no operation, no lease

ASSUME ConstantsAssumption ==
  /\ IsFiniteSet(Operations)
  /\ IsFiniteSet(Workers)
  /\ BatchSize \in Nat \ {0}
  /\ MaxAttempts \in Nat \ {0}
  /\ None \notin Operations \cup Workers

\* "crash": a process ends between any two steps.  "store": a statement fails
\* without effect.  "lostReply": a statement commits, the caller sees an error.
\* "lateLease": a worker is so slow that its lease expires before it has moved
\* the row out of "accepted".
ASSUME FaultsAssumption ==
  Faults \subseteq {"crash", "store", "lostReply", "lateLease"}

VARIABLES
  state,     \* fabric_operations.state, "absent" before the insert
  attempts,  \* fabric_operations.attempts
  lease,     \* lease_owner while lease_expires_at lies in the future, else None
  created,   \* rank of created_at, 0 before the insert
  pc,        \* where each worker is in RunOnce and Apply
  batch,     \* what is left of the rows the last poll returned
  current,   \* the operation the worker has leased and works on
  applied,   \* history: the operations some apply returned nil for
  overran    \* history: the operations whose lease ran out under the holder

rows == <<state, attempts, lease, created>>
workerVars == <<pc, batch, current>>
history == <<applied, overran>>
vars == <<rows, workerVars, history>>

RowStates == {"absent", "accepted", "applying", "succeeded", "failed"}

\* "list": about to poll.  "lease": in the loop over the batch.  "get", "mark":
\* the two statements that open Apply.  "apply": in the provider calls.
\* "stopped": Run returned, the process lives on.  "down": no process.
Busy == {"get", "mark", "apply", "markFailed", "markSucceeded", "record"}
Places == Busy \cup {"list", "lease", "stopped", "down"}

-----------------------------------------------------------------------------
\* The rows and the statements on them.

\* Plausible slips in the two statements that decide who may run a row.
LeasableIgnoringExpiry == {o \in Operations : state[o] = "accepted"}
LeasableWithApplying ==
  {o \in Operations : state[o] \in {"accepted", "applying"} /\ lease[o] = None}
LeasableWithFailed ==
  {o \in Operations : state[o] \in {"accepted", "failed"} /\ lease[o] = None}
FailureStateOffByOne(n) == IF n > MaxAttempts THEN "failed" ELSE "accepted"
FailureStateForgotten(n) == "applying"

\* The WHERE clause of ListAcceptedOperations and of LeaseOperation.
Leasable == {o \in Operations : state[o] = "accepted" /\ lease[o] = None}

\* ORDER BY created_at ASC LIMIT.
Listed ==
  {o \in Leasable :
     Cardinality({p \in Leasable : created[p] < created[o]}) < BatchSize}

\* The CASE of RecordOperationFailure, n the attempts after the failure.
FailureState(n) == IF n >= MaxAttempts THEN "failed" ELSE "accepted"

SetState(o, s) == state' = [state EXCEPT ![o] = s]

\* RecordOperationFailure: unconditional on the row's state and lease_owner.
RecordOperationFailure(o) ==
  /\ attempts' = [attempts EXCEPT ![o] = @ + 1]
  /\ SetState(o, FailureState(attempts[o] + 1))
  /\ lease' = [lease EXCEPT ![o] = None]
  /\ UNCHANGED created

-----------------------------------------------------------------------------
\* Where a worker goes.

Goto(w, place) ==
  /\ pc' = [pc EXCEPT ![w] = place]
  /\ UNCHANGED <<batch, current>>

\* The operation is dealt with: the loop over the batch goes on.
NextInBatch(w) ==
  /\ pc' = [pc EXCEPT ![w] = "lease"]
  /\ current' = [current EXCEPT ![w] = None]
  /\ UNCHANGED batch

\* A slip: the worker forgets to let go of the operation it was working on.
HaltKeepingCurrent(w, place) ==
  /\ pc' = [pc EXCEPT ![w] = place]
  /\ batch' = [batch EXCEPT ![w] = {}]
  /\ UNCHANGED current

\* The local state of RunOnce is lost: it returned an error, or the process died.
Halt(w, place) ==
  /\ pc' = [pc EXCEPT ![w] = place]
  /\ batch' = [batch EXCEPT ![w] = {}]
  /\ current' = [current EXCEPT ![w] = None]

\* o is the next row of w's batch.
FirstInBatch(w, o) ==
  o \in batch[w] /\ \A p \in batch[w] : created[o] <= created[p]

-----------------------------------------------------------------------------
Init ==
  /\ state = [o \in Operations |-> "absent"]
  /\ attempts = [o \in Operations |-> 0]
  /\ lease = [o \in Operations |-> None]
  /\ created = [o \in Operations |-> 0]
  /\ pc = [w \in Workers |-> "list"]
  /\ batch = [w \in Workers |-> {}]
  /\ current = [w \in Workers |-> None]
  /\ applied = {}
  /\ overran = {}

\* The API inserts the row; the same key again inserts nothing.
CreateOperation(o) ==
  /\ state[o] = "absent"
  /\ SetState(o, "accepted")
  /\ created' = [created EXCEPT ![o] =
                   Cardinality({p \in Operations : state[p] # "absent"}) + 1]
  /\ UNCHANGED <<attempts, lease, workerVars, history>>

ListAcceptedOperations(w) ==
  /\ pc[w] = "list"
  /\ pc' = [pc EXCEPT ![w] = "lease"]
  /\ batch' = [batch EXCEPT ![w] = Listed]
  /\ UNCHANGED <<rows, current, history>>

ListFails(w) ==
  /\ pc[w] = "list"
  /\ "store" \in Faults
  /\ Halt(w, "stopped")
  /\ UNCHANGED <<rows, history>>

\* RunOnce returns nil; Run waits for the ticker and polls again.
BatchDone(w) ==
  /\ pc[w] = "lease"
  /\ batch[w] = {}
  /\ Goto(w, "list")
  /\ UNCHANGED <<rows, history>>

LeaseOperation(w, o) ==
  /\ pc[w] = "lease"
  /\ FirstInBatch(w, o)
  /\ o \in Leasable
  /\ lease' = [lease EXCEPT ![o] = w]
  /\ pc' = [pc EXCEPT ![w] = "get"]
  /\ batch' = [batch EXCEPT ![w] = @ \ {o}]
  /\ current' = [current EXCEPT ![w] = o]
  /\ UNCHANGED <<state, attempts, created, history>>

\* No row affected: another worker was faster.
SkipLeased(w, o) ==
  /\ pc[w] = "lease"
  /\ FirstInBatch(w, o)
  /\ o \notin Leasable
  /\ batch' = [batch EXCEPT ![w] = @ \ {o}]
  /\ UNCHANGED <<rows, pc, current, history>>

LeaseFails(w, o) ==
  /\ pc[w] = "lease"
  /\ FirstInBatch(w, o)
  /\ Halt(w, "stopped")
  /\ \/ "store" \in Faults /\ UNCHANGED lease
     \/ /\ "lostReply" \in Faults
        /\ lease' = IF o \in Leasable THEN [lease EXCEPT ![o] = w] ELSE lease
  /\ UNCHANGED <<state, attempts, created, history>>

GetOperation(w) ==
  /\ pc[w] = "get"
  /\ Goto(w, "mark")
  /\ UNCHANGED <<rows, history>>

GetOperationFails(w) ==
  /\ pc[w] = "get"
  /\ "store" \in Faults
  /\ Goto(w, "record")
  /\ UNCHANGED <<rows, history>>

MarkApplying(w) ==
  /\ pc[w] = "mark"
  /\ SetState(current[w], "applying")
  /\ Goto(w, "apply")
  /\ UNCHANGED <<attempts, lease, created, history>>

MarkApplyingFails(w) ==
  /\ pc[w] = "mark"
  /\ \/ "store" \in Faults /\ UNCHANGED state
     \/ "lostReply" \in Faults /\ SetState(current[w], "applying")
  /\ Goto(w, "record")
  /\ UNCHANGED <<attempts, lease, created, history>>

\* Slips in the branch on the error of apply: swapped, or without its return.
ApplySucceedsSwapped(w) ==
  /\ pc[w] = "apply"
  /\ Goto(w, "markFailed")
  /\ applied' = applied \cup {current[w]}
  /\ UNCHANGED <<rows, overran>>

ApplyFailsIgnored(w) ==
  /\ pc[w] = "apply"
  /\ Goto(w, "markSucceeded")
  /\ UNCHANGED <<rows, history>>

ApplySucceeds(w) ==
  /\ pc[w] = "apply"
  /\ Goto(w, "markSucceeded")
  /\ applied' = applied \cup {current[w]}
  /\ UNCHANGED <<rows, overran>>

ApplyFails(w) ==
  /\ pc[w] = "apply"
  /\ Goto(w, "markFailed")
  /\ UNCHANGED <<rows, history>>

\* The error of this update is dropped, so a lost reply looks like a success.
MarkFailed(w) ==
  /\ pc[w] = "markFailed"
  /\ \/ SetState(current[w], "failed")
     \/ "store" \in Faults /\ UNCHANGED state
  /\ Goto(w, "record")
  /\ UNCHANGED <<attempts, lease, created, history>>

MarkSucceeded(w) ==
  /\ pc[w] = "markSucceeded"
  /\ SetState(current[w], "succeeded")
  /\ NextInBatch(w)
  /\ UNCHANGED <<attempts, lease, created, history>>

MarkSucceededFails(w) ==
  /\ pc[w] = "markSucceeded"
  /\ \/ "store" \in Faults /\ UNCHANGED state
     \/ "lostReply" \in Faults /\ SetState(current[w], "succeeded")
  /\ Goto(w, "record")
  /\ UNCHANGED <<attempts, lease, created, history>>

RecordFailure(w) ==
  /\ pc[w] = "record"
  /\ RecordOperationFailure(current[w])
  /\ NextInBatch(w)
  /\ UNCHANGED history

RecordFailureFails(w) ==
  /\ pc[w] = "record"
  /\ \/ "store" \in Faults /\ UNCHANGED rows
     \/ "lostReply" \in Faults /\ RecordOperationFailure(current[w])
  /\ Halt(w, "stopped")
  /\ UNCHANGED history

-----------------------------------------------------------------------------
\* The environment.

Crash(w) ==
  /\ "crash" \in Faults
  /\ pc[w] # "down"
  /\ Halt(w, "down")
  /\ UNCHANGED <<rows, history>>

Restart(w) ==
  /\ pc[w] = "down"
  /\ Goto(w, "list")
  /\ UNCHANGED <<rows, history>>

\* The holder of o's lease is at work on o and has not written "applying".
HolderStarting(o) ==
  /\ lease[o] \in Workers
  /\ current[lease[o]] = o
  /\ state[o] = "accepted"

\* A slip: the expiry clause of the two WHERE clauses is left out.
LeaseNeverExpires(o) == FALSE /\ UNCHANGED vars

\* now() reaches lease_expires_at.
LeaseExpires(o) ==
  /\ lease[o] # None
  /\ lease' = [lease EXCEPT ![o] = None]
  /\ \/ ~HolderStarting(o) /\ UNCHANGED overran
     \/ /\ HolderStarting(o)
        /\ "lateLease" \in Faults
        /\ overran' = overran \cup {o}
  /\ UNCHANGED <<state, attempts, created, workerVars, applied>>

-----------------------------------------------------------------------------
\* What a live process does when nothing goes wrong around it.
WorkerStep(w) ==
  \/ ListAcceptedOperations(w)
  \/ BatchDone(w)
  \/ \E o \in Operations : LeaseOperation(w, o)
  \/ \E o \in Operations : SkipLeased(w, o)
  \/ GetOperation(w)
  \/ MarkApplying(w)
  \/ ApplySucceeds(w)
  \/ ApplyFails(w)
  \/ MarkFailed(w)
  \/ MarkSucceeded(w)
  \/ RecordFailure(w)

StoreFault(w) ==
  \/ ListFails(w)
  \/ \E o \in Operations : LeaseFails(w, o)
  \/ GetOperationFails(w)
  \/ MarkApplyingFails(w)
  \/ MarkSucceededFails(w)
  \/ RecordFailureFails(w)

Next ==
  \/ \E o \in Operations : CreateOperation(o) \/ LeaseExpires(o)
  \/ \E w \in Workers : WorkerStep(w) \/ StoreFault(w) \/ Crash(w) \/ Restart(w)

Spec == Init /\ [][Next]_vars

\* A running process keeps running, the kubelet restarts a dead one, and time
\* passes.  Nothing restarts a worker that returned while its process lives.
Fairness ==
  /\ \A w \in Workers : WF_vars(WorkerStep(w)) /\ WF_vars(Restart(w))
  /\ \A o \in Operations : WF_vars(LeaseExpires(o))

FairSpec == Spec /\ Fairness

-----------------------------------------------------------------------------
\* Some worker is at work on o.
Held(o) == \E w \in Workers : current[w] = o

\* The operation has its final state.
Settled(o) == state[o] \in {"succeeded", "failed"} /\ ~Held(o)

\* Nobody works on the row and no query will ever return it again.
Orphaned(o) == state[o] = "applying" /\ ~Held(o)

\* Every variable keeps its type, and a worker holds an operation exactly while
\* it is between LeaseOperation and the statement that ends its work on it.
TypeOK ==
  /\ state \in [Operations -> RowStates]
  /\ attempts \in [Operations -> Nat]
  /\ lease \in [Operations -> Workers \cup {None}]
  /\ created \in [Operations -> Nat]
  /\ pc \in [Workers -> Places]
  /\ batch \in [Workers -> SUBSET Operations]
  /\ current \in [Workers -> Operations \cup {None}]
  /\ applied \subseteq Operations
  /\ overran \subseteq Operations
  /\ \A w \in Workers : current[w] # None <=> pc[w] \in Busy

\* Two workers never work on the same operation, unless its lease ran out under
\* a holder that had not yet written "applying": the lease and the state column
\* together are the lock of LeaseOperation.
ExclusiveExecution ==
  \A o \in Operations \ overran : \A v, w \in Workers :
    current[v] = o /\ current[w] = o => v = w

\* An operation is tried at most MaxAttempts times: a row that can be leased has
\* attempts left, whatever workers race on it, and without an overrun the counter
\* itself stays within the limit (RecordOperationFailure).
RetryBudget ==
  \A o \in Operations :
    /\ state[o] = "accepted" => attempts[o] < MaxAttempts
    /\ o \notin overran => attempts[o] <= MaxAttempts

\* "succeeded" is only ever recorded for work that was done, and without an
\* overrun or a store fault a settled "failed" means that no attempt did it.
OutcomeTruthful ==
  \A o \in Operations :
    /\ state[o] = "succeeded" => o \in applied
    /\ /\ Settled(o)
       /\ state[o] = "failed"
       /\ o \notin overran
       /\ Faults \cap {"store", "lostReply"} = {}
       => o \notin applied

\* A settled operation is never executed, requeued or rewritten again: the three
\* unconditional updates reach a row only from a worker that holds it.
SettledIsFinal ==
  [][\A o \in Operations :
       Settled(o) => Settled(o)' /\ state'[o] = state[o]
                     /\ attempts'[o] = attempts[o]]_vars

\* An orphan is lost for good: no worker, restarted or not, and no expiry of a lease
\* ever reaches a row in "applying" that nobody works on (the WHERE clauses of
\* ListAcceptedOperations and LeaseOperation).
OrphansStay ==
  [][\A o \in Operations : Orphaned(o) => Orphaned(o)' /\ attempts'[o] = attempts[o]]_vars

\* Why the properties above hold.  A held row exists and, unless its lease was
\* overrun, has one holder with attempts left; while it is still "accepted" the
\* lease keeps the others away, afterwards its state does.
LockInvariant ==
  \A w \in Workers : \A o \in Operations :
    current[w] = o =>
      /\ state[o] # "absent"
      /\ o \notin overran =>
           /\ state[o] = "accepted" => lease[o] = w
           /\ attempts[o] < MaxAttempts
           /\ pc[w] \in {"get", "mark"} => state[o] = "accepted"
           /\ pc[w] \in {"apply", "markFailed", "markSucceeded"} =>
                state[o] = "applying"
      /\ pc[w] = "markSucceeded" => o \in applied

\* What the rows say on their own.
RowInvariant ==
  \A o \in Operations :
    /\ state[o] = "absent" => attempts[o] = 0 /\ o \notin overran
    /\ state[o] = "succeeded" => o \in applied

\* Where a row can be once an attempt has done its work and statements do not
\* fail: nothing lies between that attempt and "succeeded" but a crash.
AppliedInvariant ==
  Faults \cap {"store", "lostReply"} = {} =>
    \A o \in applied \ overran :
      \/ state[o] = "applying" /\ \A w \in Workers : current[w] = o =>
                                                pc[w] = "markSucceeded"
      \/ state[o] = "succeeded" /\ ~Held(o)

\* The inductive invariant of the proofs.
QueueInvariant ==
  /\ TypeOK
  /\ ExclusiveExecution
  /\ RetryBudget
  /\ LockInvariant
  /\ RowInvariant
  /\ AppliedInvariant

\* What a client is promised, read off the table and the workers: while somebody
\* works on a row its "failed" or "succeeded" is not yet the verdict.
StatusOf(o) ==
  IF o \in overran THEN "void"
  ELSE IF state[o] = "accepted" THEN "pending"
  ELSE IF state[o] = "applying" \/ Held(o) THEN "running"
  ELSE state[o]

TriesOf(o) == IF o \in overran THEN 0 ELSE attempts[o]

Contract == INSTANCE OperationContract
              WITH status <- [o \in Operations |-> StatusOf(o)],
                   tries <- [o \in Operations |-> TriesOf(o)]

\* The table and its workers implement the contract, whatever faults occur.
ImplementsContract == Contract!ContractSpec

\* Once processes stop crashing, every accepted operation is settled or orphaned:
\* leases of dead workers run out, and neither a failing operation nor LIMIT
\* starves the others.
SettlesOrOrphaned ==
  <>[](\A w \in Workers : pc[w] # "down") =>
    \A o \in Operations :
      state[o] = "accepted" ~> (Settled(o) \/ Orphaned(o))

\* Without a crash every accepted operation reaches "succeeded" or "failed"
\* (the orchestrator updates the state from accepted to applying and then to
\* succeeded or failed).
SettlesWithoutCrash ==
  [](\A w \in Workers : pc[w] # "down") =>
    \A o \in Operations : state[o] = "accepted" ~> Settled(o)

\* What the control-plane plan says of the orchestrator with no exception for a
\* process that ends in between: accepted becomes applying, then succeeded or
\* failed.
EveryOperationSettles ==
  \A o \in Operations : state[o] = "accepted" ~> Settled(o)
=============================================================================
