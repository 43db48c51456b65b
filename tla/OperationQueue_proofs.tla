------------------------ MODULE OperationQueue_proofs ------------------------
(***************************************************************************)
(* The inductive invariant of OperationQueue and what follows from it, for *)
(* every set of operations and workers, every MaxAttempts and every        *)
(* combination of faults.                                                  *)
(***************************************************************************)
EXTENDS OperationQueue, FiniteSetTheorems, TLAPS

USE ConstantsAssumption

\* The rank that created_at gives to a new row is a number.
LEMMA RankIsNat ==
  ASSUME NEW S \in SUBSET Operations
  PROVE  Cardinality(S) \in Nat
BY FS_Subset, FS_CardinalityType

-----------------------------------------------------------------------------
\* The tables start empty and the workers idle: the invariant holds.
LEMMA InitQueueInvariant == Init => QueueInvariant
BY DEF Init, QueueInvariant, TypeOK, ExclusiveExecution, RetryBudget,
       LockInvariant, RowInvariant, AppliedInvariant, Held, RowStates, Places, Busy

\* Every statement, every fault and the expiry of a lease preserve the invariant.
LEMMA NextQueueInvariant == QueueInvariant /\ [Next]_vars => QueueInvariant'
<1> SUFFICES ASSUME QueueInvariant, [Next]_vars
             PROVE  QueueInvariant'
  OBVIOUS
<1> USE DEF QueueInvariant, TypeOK, ExclusiveExecution, RetryBudget,
            LockInvariant, RowInvariant, AppliedInvariant, Held,
            RowStates, Places, Busy,
            rows, workerVars, history, SetState, Goto, NextInBatch, Halt,
            Leasable
<1>1. ASSUME NEW o \in Operations, CreateOperation(o) PROVE QueueInvariant'
  <2>1. Cardinality({p \in Operations : state[p] # "absent"}) \in Nat
    BY RankIsNat
  <2> QED BY <1>1, <2>1 DEF CreateOperation
<1>2. ASSUME NEW o \in Operations, LeaseExpires(o) PROVE QueueInvariant'
  BY <1>2 DEF LeaseExpires, HolderStarting
<1>3. ASSUME NEW w \in Workers, ListAcceptedOperations(w) PROVE QueueInvariant'
  BY <1>3 DEF ListAcceptedOperations, Listed
<1>4. ASSUME NEW w \in Workers, BatchDone(w) PROVE QueueInvariant'
  BY <1>4 DEF BatchDone
<1>5. ASSUME NEW w \in Workers, NEW o \in Operations, LeaseOperation(w, o)
      PROVE QueueInvariant'
  BY <1>5 DEF LeaseOperation
<1>6. ASSUME NEW w \in Workers, NEW o \in Operations, SkipLeased(w, o)
      PROVE QueueInvariant'
  BY <1>6 DEF SkipLeased
<1>7. ASSUME NEW w \in Workers, GetOperation(w) PROVE QueueInvariant'
  BY <1>7 DEF GetOperation
<1>8. ASSUME NEW w \in Workers, MarkApplying(w) PROVE QueueInvariant'
  BY <1>8 DEF MarkApplying
<1>9. ASSUME NEW w \in Workers, ApplySucceeds(w) PROVE QueueInvariant'
  BY <1>9 DEF ApplySucceeds
<1>10. ASSUME NEW w \in Workers, ApplyFails(w) PROVE QueueInvariant'
  BY <1>10 DEF ApplyFails
<1>11. ASSUME NEW w \in Workers, MarkFailed(w) PROVE QueueInvariant'
  BY <1>11 DEF MarkFailed
<1>12. ASSUME NEW w \in Workers, MarkSucceeded(w) PROVE QueueInvariant'
  BY <1>12 DEF MarkSucceeded
<1>13. ASSUME NEW w \in Workers, RecordFailure(w) PROVE QueueInvariant'
  BY <1>13 DEF RecordFailure, RecordOperationFailure, FailureState
<1>14. ASSUME NEW w \in Workers, ListFails(w) PROVE QueueInvariant'
  BY <1>14 DEF ListFails
<1>15. ASSUME NEW w \in Workers, NEW o \in Operations, LeaseFails(w, o)
      PROVE QueueInvariant'
  BY <1>15 DEF LeaseFails
<1>16. ASSUME NEW w \in Workers, GetOperationFails(w) PROVE QueueInvariant'
  BY <1>16 DEF GetOperationFails
<1>17. ASSUME NEW w \in Workers, MarkApplyingFails(w) PROVE QueueInvariant'
  BY <1>17 DEF MarkApplyingFails
<1>18. ASSUME NEW w \in Workers, MarkSucceededFails(w) PROVE QueueInvariant'
  BY <1>18 DEF MarkSucceededFails
<1>19. ASSUME NEW w \in Workers, RecordFailureFails(w) PROVE QueueInvariant'
  BY <1>19 DEF RecordFailureFails, RecordOperationFailure, FailureState
<1>20. ASSUME NEW w \in Workers, Crash(w) PROVE QueueInvariant'
  BY <1>20 DEF Crash
<1>21. ASSUME NEW w \in Workers, Restart(w) PROVE QueueInvariant'
  BY <1>21 DEF Restart
<1>22. CASE UNCHANGED vars
  BY <1>22 DEF vars
<1> QED
  BY <1>1, <1>2, <1>3, <1>4, <1>5, <1>6, <1>7, <1>8, <1>9, <1>10, <1>11, <1>12,
     <1>13, <1>14, <1>15, <1>16, <1>17, <1>18, <1>19, <1>20, <1>21, <1>22
  DEF Next, WorkerStep, StoreFault

\* The inductive invariant of the table and its workers.
THEOREM QueueInvariantHolds == Spec => []QueueInvariant
BY InitQueueInvariant, NextQueueInvariant, PTL DEF Spec

\* Every variable keeps its type.
THEOREM QueueTypeCorrect == Spec => []TypeOK
<1>1. QueueInvariant => TypeOK
  BY DEF QueueInvariant
<1> QED BY <1>1, QueueInvariantHolds, PTL

\* The lease and the state column are a lock on the operation.
THEOREM OneWorkerAtATime == Spec => []ExclusiveExecution
<1>1. QueueInvariant => ExclusiveExecution
  BY DEF QueueInvariant
<1> QED BY <1>1, QueueInvariantHolds, PTL

\* No operation is tried more often than RecordOperationFailure allows.
THEOREM AttemptsStayInBudget == Spec => []RetryBudget
<1>1. QueueInvariant => RetryBudget
  BY DEF QueueInvariant
<1> QED BY <1>1, QueueInvariantHolds, PTL

\* The recorded outcome is what the attempts did.
THEOREM OutcomeIsTruthful == Spec => []OutcomeTruthful
<1>1. QueueInvariant => OutcomeTruthful
  BY DEF QueueInvariant, RowInvariant, AppliedInvariant, OutcomeTruthful
<1> QED BY <1>1, QueueInvariantHolds, PTL

-----------------------------------------------------------------------------
\* A settled operation is left alone by every step.
LEMMA SettledStep ==
  ASSUME QueueInvariant, [Next]_vars, NEW o \in Operations, Settled(o)
  PROVE  Settled(o)' /\ state'[o] = state[o] /\ attempts'[o] = attempts[o]
<1> USE DEF QueueInvariant, TypeOK, Settled, Held, Busy, rows, workerVars, history,
            SetState, Goto, NextInBatch, Halt
<1>1. CASE \E p \in Operations : CreateOperation(p) \/ LeaseExpires(p)
  BY <1>1 DEF CreateOperation, LeaseExpires
<1>2. ASSUME NEW w \in Workers, WorkerStep(w)
      PROVE  Settled(o)' /\ state'[o] = state[o] /\ attempts'[o] = attempts[o]
  BY <1>2 DEF WorkerStep, ListAcceptedOperations, BatchDone, LeaseOperation,
     Leasable, SkipLeased, GetOperation, MarkApplying, ApplySucceeds, ApplyFails,
     MarkFailed, MarkSucceeded, RecordFailure, RecordOperationFailure
<1>3. ASSUME NEW w \in Workers, StoreFault(w)
      PROVE  Settled(o)' /\ state'[o] = state[o] /\ attempts'[o] = attempts[o]
  BY <1>3 DEF StoreFault, ListFails, LeaseFails, GetOperationFails,
     MarkApplyingFails, MarkSucceededFails, RecordFailureFails,
     RecordOperationFailure
<1>4. CASE \E w \in Workers : Crash(w) \/ Restart(w)
  BY <1>4 DEF Crash, Restart
<1>5. CASE UNCHANGED vars
  BY <1>5 DEF vars
<1> QED BY <1>1, <1>2, <1>3, <1>4, <1>5 DEF Next

\* A settled operation is never executed, requeued or rewritten again.
THEOREM SettledStaysSettled == Spec => SettledIsFinal
<1>1. QueueInvariant /\ [Next]_vars =>
        [\A o \in Operations :
           Settled(o) => Settled(o)' /\ state'[o] = state[o]
                         /\ attempts'[o] = attempts[o]]_vars
  BY SettledStep
<1> QED BY <1>1, QueueInvariantHolds, PTL DEF Spec, SettledIsFinal

-----------------------------------------------------------------------------
\* An orphan is left alone by every step.
LEMMA OrphanStep ==
  ASSUME QueueInvariant, [Next]_vars, NEW o \in Operations, Orphaned(o)
  PROVE  Orphaned(o)' /\ attempts'[o] = attempts[o]
<1> USE DEF QueueInvariant, TypeOK, Orphaned, Held, Busy, rows, workerVars, history,
            SetState, Goto, NextInBatch, Halt
<1>1. CASE \E p \in Operations : CreateOperation(p) \/ LeaseExpires(p)
  BY <1>1 DEF CreateOperation, LeaseExpires
<1>2. ASSUME NEW w \in Workers, WorkerStep(w)
      PROVE  Orphaned(o)' /\ attempts'[o] = attempts[o]
  BY <1>2 DEF WorkerStep, ListAcceptedOperations, BatchDone, LeaseOperation,
     Leasable, SkipLeased, GetOperation, MarkApplying, ApplySucceeds, ApplyFails,
     MarkFailed, MarkSucceeded, RecordFailure, RecordOperationFailure
<1>3. ASSUME NEW w \in Workers, StoreFault(w)
      PROVE  Orphaned(o)' /\ attempts'[o] = attempts[o]
  BY <1>3 DEF StoreFault, ListFails, LeaseFails, GetOperationFails,
     MarkApplyingFails, MarkSucceededFails, RecordFailureFails,
     RecordOperationFailure
<1>4. CASE \E w \in Workers : Crash(w) \/ Restart(w)
  BY <1>4 DEF Crash, Restart
<1>5. CASE UNCHANGED vars
  BY <1>5 DEF vars
<1> QED BY <1>1, <1>2, <1>3, <1>4, <1>5 DEF Next

\* No restart, lease expiry or retry recovers an operation whose worker was lost after
\* it had written "applying".
THEOREM OrphansAreLost == Spec => OrphansStay
<1>1. QueueInvariant /\ [Next]_vars =>
        [\A o \in Operations :
           Orphaned(o) => Orphaned(o)' /\ attempts'[o] = attempts[o]]_vars
  BY OrphanStep
<1> QED BY <1>1, QueueInvariantHolds, PTL DEF Spec, OrphansStay

\* The statement that ends the work on a row moves it out of "applying", unless it fails.
NoOrphan == \A o \in Operations : ~Orphaned(o)

\* Only a crash, or a statement that fails, makes an orphan: where neither happens a
\* worker lets go of a row only with a verdict or with a failure on record, also when
\* leases run out under their holders and replies are lost.
THEOREM OrphansHaveACause ==
  ASSUME Faults \cap {"crash", "store"} = {}
  PROVE  Spec => []NoOrphan
<1>1. Init => NoOrphan
  BY DEF Init, NoOrphan, Orphaned
<1>2. QueueInvariant /\ NoOrphan /\ [Next]_vars => NoOrphan'
  <2> USE DEF QueueInvariant, TypeOK, NoOrphan, Orphaned, Held, Busy, rows, workerVars,
              history, SetState, Goto, NextInBatch, Halt
  <2> SUFFICES ASSUME QueueInvariant, NoOrphan, [Next]_vars,
                      NEW o \in Operations, state'[o] = "applying"
               PROVE  \E w \in Workers : current'[w] = o
    OBVIOUS
  <2>1. CASE \E p \in Operations : CreateOperation(p) \/ LeaseExpires(p)
    BY <2>1 DEF CreateOperation, LeaseExpires
  <2>2. ASSUME NEW w \in Workers,
               \/ ListAcceptedOperations(w) \/ BatchDone(w) \/ GetOperation(w)
               \/ \E p \in Operations : SkipLeased(w, p)
               \/ ApplySucceeds(w) \/ ApplyFails(w) \/ MarkFailed(w)
        PROVE  \E v \in Workers : current'[v] = o
    BY <2>2 DEF ListAcceptedOperations, BatchDone, GetOperation, SkipLeased,
       ApplySucceeds, ApplyFails, MarkFailed
  <2>3. ASSUME NEW w \in Workers, MarkApplying(w) \/ MarkApplyingFails(w)
        PROVE  \E v \in Workers : current'[v] = o
    BY <2>3 DEF MarkApplying, MarkApplyingFails
  <2>4. ASSUME NEW w \in Workers, NEW p \in Operations, LeaseOperation(w, p)
        PROVE  \E v \in Workers : current'[v] = o
    BY <2>4 DEF LeaseOperation, Leasable
  <2>5. ASSUME NEW w \in Workers, MarkSucceeded(w) \/ RecordFailure(w)
        PROVE  \E v \in Workers : current'[v] = o
    BY <2>5 DEF MarkSucceeded, RecordFailure, RecordOperationFailure, FailureState
  <2>6. ASSUME NEW w \in Workers, StoreFault(w)
        PROVE  \E v \in Workers : current'[v] = o
    BY <2>6 DEF StoreFault, ListFails, LeaseFails, GetOperationFails, MarkApplyingFails,
       MarkSucceededFails, RecordFailureFails, RecordOperationFailure, FailureState
  <2>7. ASSUME NEW w \in Workers, Crash(w) \/ Restart(w)
        PROVE  \E v \in Workers : current'[v] = o
    BY <2>7 DEF Crash, Restart
  <2>8. CASE UNCHANGED vars
    BY <2>8 DEF vars
  <2> QED
    BY <2>1, <2>2, <2>3, <2>4, <2>5, <2>6, <2>7, <2>8 DEF Next, WorkerStep
<1> QED BY <1>1, <1>2, QueueInvariantHolds, PTL DEF Spec

OneHolder ==
  \A o \in Operations : \A v, w \in Workers : current[v] = o /\ current[w] = o => v = w

\* Where every worker writes "applying" before its lease runs out, no two workers ever
\* share an operation, whatever crashes and whatever statements and replies are lost.
THEOREM LeaseIsALock ==
  ASSUME "lateLease" \notin Faults
  PROVE  Spec => []OneHolder
<1> DEFINE InTime == overran = {}
<1>1. Init => InTime
  BY DEF Init
<1>2. InTime /\ [Next]_vars => InTime'
  BY DEF Next, vars, history, workerVars, CreateOperation, LeaseExpires, WorkerStep,
     ListAcceptedOperations, BatchDone, LeaseOperation, SkipLeased, GetOperation,
     MarkApplying, ApplySucceeds, ApplyFails, MarkFailed, MarkSucceeded, RecordFailure,
     StoreFault, ListFails, LeaseFails, GetOperationFails, MarkApplyingFails,
     MarkSucceededFails, RecordFailureFails, Crash, Restart
<1>3. InTime /\ ExclusiveExecution => OneHolder
  BY DEF ExclusiveExecution, OneHolder
<1> HIDE DEF InTime
<1> QED BY <1>1, <1>2, <1>3, OneWorkerAtATime, PTL DEF Spec

-----------------------------------------------------------------------------
\* The refinement.  A step shows through the mapping by what it does to the
\* status and the tries of one operation at most; one that changes neither is
\* a stutter of the contract.
LEMMA InvisibleStep ==
  ASSUME \A p \in Operations : StatusOf(p)' = StatusOf(p) /\ TriesOf(p)' = TriesOf(p)
  PROVE  [Contract!ContractNext]_(Contract!contractVars)
BY DEF Contract!contractVars

\* A step that changes what one operation shows in one of the ways the contract
\* knows, and what no other operation shows, is a step of the contract.
LEMMA StepOnOne ==
  ASSUME NEW o \in Operations,
         \A p \in Operations \ {o} :
           StatusOf(p)' = StatusOf(p) /\ TriesOf(p)' = TriesOf(p),
         \/ StatusOf(o)' = StatusOf(o) /\ TriesOf(o)' = TriesOf(o)
         \/ StatusOf(o) = "absent" /\ StatusOf(o)' = "pending" /\ TriesOf(o)' = TriesOf(o)
         \/ StatusOf(o) = "pending" /\ StatusOf(o)' = "running" /\ TriesOf(o)' = TriesOf(o)
         \/ StatusOf(o) = "running" /\ StatusOf(o)' \in {"succeeded", "failed"}
            /\ TriesOf(o)' = TriesOf(o)
         \/ /\ StatusOf(o) \in {"pending", "running"}
            /\ TriesOf(o) < MaxAttempts
            /\ TriesOf(o)' = TriesOf(o) + 1
            /\ StatusOf(o)' = IF TriesOf(o) + 1 < MaxAttempts
                              THEN "pending" ELSE "failed"
         \/ StatusOf(o) = "pending" /\ StatusOf(o)' = "void" /\ TriesOf(o)' = 0
  PROVE  [Contract!ContractNext]_(Contract!contractVars)
BY DEF Contract!ContractNext, Contract!contractVars, Contract!SetStatus,
       Contract!Accept, Contract!Start, Contract!Complete, Contract!CountFailure,
       Contract!Abandon, Contract!LoseLease

\* The empty table is a table of operations nobody has asked for.
LEMMA InitRefines == Init => Contract!ContractInit
BY DEF Init, Contract!ContractInit, StatusOf, TriesOf, Held

\* The steps on the rows of the API and of time.
LEMMA RowStepRefines ==
  ASSUME QueueInvariant, NEW o \in Operations,
         CreateOperation(o) \/ LeaseExpires(o)
  PROVE  [Contract!ContractNext]_(Contract!contractVars)
<1> USE DEF QueueInvariant, TypeOK, RowInvariant, LockInvariant, rows, workerVars,
            history, SetState, StatusOf, TriesOf, Held
<1>1. CASE CreateOperation(o)
  <2>1. \A p \in Operations \ {o} :
          StatusOf(p)' = StatusOf(p) /\ TriesOf(p)' = TriesOf(p)
    BY <1>1 DEF CreateOperation
  <2>2. StatusOf(o) = "absent" /\ StatusOf(o)' = "pending" /\ TriesOf(o)' = TriesOf(o)
    BY <1>1 DEF CreateOperation
  <2> QED BY <2>1, <2>2, StepOnOne
<1>2. CASE LeaseExpires(o)
  <2>1. \A p \in Operations \ {o} :
          StatusOf(p)' = StatusOf(p) /\ TriesOf(p)' = TriesOf(p)
    BY <1>2 DEF LeaseExpires
  <2>2. \/ StatusOf(o)' = StatusOf(o) /\ TriesOf(o)' = TriesOf(o)
        \/ StatusOf(o) = "pending" /\ StatusOf(o)' = "void" /\ TriesOf(o)' = 0
    BY <1>2 DEF LeaseExpires, HolderStarting
  <2> QED BY <2>1, <2>2, StepOnOne
<1> QED BY <1>1, <1>2

\* A worker that holds nothing and takes nothing does not show.
LEMMA IdleStepRefines ==
  ASSUME QueueInvariant, NEW w \in Workers, current[w] = None,
         UNCHANGED <<state, attempts, overran>>,
         current' = [current EXCEPT ![w] = None] \/ UNCHANGED current
  PROVE  [Contract!ContractNext]_(Contract!contractVars)
<1>1. \A p \in Operations : Held(p)' <=> Held(p)
  BY DEF QueueInvariant, TypeOK, Held
<1> QED BY <1>1, InvisibleStep DEF StatusOf, TriesOf

\* A worker takes a leasable row: it stays "pending".
LEMMA LeaseStepRefines ==
  ASSUME QueueInvariant, NEW w \in Workers, NEW o \in Operations,
         LeaseOperation(w, o)
  PROVE  [Contract!ContractNext]_(Contract!contractVars)
<1>1. \A p \in Operations : StatusOf(p)' = StatusOf(p) /\ TriesOf(p)' = TriesOf(p)
  BY DEF LeaseOperation, Leasable, QueueInvariant, TypeOK, Busy, Held, StatusOf,
     TriesOf, history
<1> QED BY <1>1, InvisibleStep

\* What a worker does to the operation it holds, seen from that operation:
\* it keeps it, or lets it go.
LEMMA HolderStepRefines ==
  ASSUME QueueInvariant, NEW w \in Workers, NEW o \in Operations,
         current[w] = o, pc[w] \in Busy,
         \/ MarkApplying(w) \/ MarkApplyingFails(w) \/ MarkFailed(w)
         \/ MarkSucceeded(w) \/ MarkSucceededFails(w) \/ RecordFailure(w)
         \/ RecordFailureFails(w) \/ Crash(w)
  PROVE  [Contract!ContractNext]_(Contract!contractVars)
<1>1. \A p \in Operations \ {o} :
        /\ state'[p] = state[p]
        /\ attempts'[p] = attempts[p]
        /\ Held(p)' <=> Held(p)
        /\ p \in overran' <=> p \in overran
  BY DEF QueueInvariant, TypeOK, Held, rows, history, SetState, Goto,
     NextInBatch, Halt, MarkApplying, MarkApplyingFails, MarkFailed, MarkSucceeded,
     MarkSucceededFails, RecordFailure, RecordFailureFails,
     RecordOperationFailure, Crash
<1>2. \A p \in Operations \ {o} :
        StatusOf(p)' = StatusOf(p) /\ TriesOf(p)' = TriesOf(p)
  BY <1>1 DEF StatusOf, TriesOf
<1>3. o \in overran =>
        StatusOf(o)' = StatusOf(o) /\ TriesOf(o)' = TriesOf(o)
  BY DEF StatusOf, TriesOf, history, MarkApplying, MarkApplyingFails, MarkFailed,
     MarkSucceeded, MarkSucceededFails, RecordFailure, RecordFailureFails, Crash
<1>4. o \in overran => [Contract!ContractNext]_(Contract!contractVars)
  BY <1>2, <1>3, StepOnOne
<1>5. ASSUME o \notin overran PROVE [Contract!ContractNext]_(Contract!contractVars)
  <2> USE <1>5 DEF StatusOf, TriesOf, Held, QueueInvariant, TypeOK,
          RowStates, SetState, Goto, NextInBatch, Halt, history, rows
  <2>0. Held(o) /\ overran' = overran /\ attempts[o] < MaxAttempts
        /\ \A v \in Workers : current[v] = o => v = w
    BY DEF LockInvariant, ExclusiveExecution, MarkApplying, MarkApplyingFails,
       MarkFailed, MarkSucceeded, MarkSucceededFails, RecordFailure,
       RecordFailureFails, Crash
  <2>1. CASE MarkApplying(w) \/ MarkApplyingFails(w)
    <3>1. /\ StatusOf(o) = "pending"
          /\ StatusOf(o)' \in {"pending", "running"}
          /\ TriesOf(o)' = TriesOf(o)
      BY <2>0, <2>1 DEF MarkApplying, MarkApplyingFails, LockInvariant
    <3> QED BY <3>1, <1>2, StepOnOne
  <2>2. CASE MarkFailed(w) \/ MarkSucceededFails(w)
    <3>1. StatusOf(o)' = StatusOf(o) /\ TriesOf(o)' = TriesOf(o)
      BY <2>0, <2>2 DEF MarkFailed, MarkSucceededFails, LockInvariant
    <3> QED BY <3>1, <1>2, StepOnOne
  <2>3. CASE MarkSucceeded(w)
    <3>1. StatusOf(o) = "running" /\ StatusOf(o)' = "succeeded"
          /\ TriesOf(o)' = TriesOf(o)
      BY <2>0, <2>3 DEF MarkSucceeded, LockInvariant
    <3> QED BY <3>1, <1>2, StepOnOne
  <2>4. CASE RecordOperationFailure(o) /\ current' = [current EXCEPT ![w] = None]
    <3>1. /\ StatusOf(o) \in {"pending", "running"}
          /\ TriesOf(o) < MaxAttempts
          /\ TriesOf(o)' = TriesOf(o) + 1
          /\ StatusOf(o)' = IF TriesOf(o) + 1 < MaxAttempts THEN "pending" ELSE "failed"
      BY <2>0, <2>4 DEF RecordOperationFailure, FailureState
    <3> QED BY <3>1, <1>2, StepOnOne
  <2>5. CASE UNCHANGED rows /\ current' = [current EXCEPT ![w] = None]
    <3>1. /\ TriesOf(o)' = TriesOf(o)
          /\ \/ StatusOf(o)' = StatusOf(o)
             \/ StatusOf(o) = "running" /\ StatusOf(o)' \in {"succeeded", "failed"}
      BY <2>0, <2>5 DEF LockInvariant
    <3> QED BY <3>1, <1>2, StepOnOne
  <2> QED
    BY <2>1, <2>2, <2>3, <2>4, <2>5 DEF RecordFailure, RecordFailureFails, Crash
<1> QED BY <1>4, <1>5

\* Every step of the table and its workers is a step of the contract or none.
LEMMA NextRefines ==
  QueueInvariant /\ [Next]_vars => [Contract!ContractNext]_(Contract!contractVars)
<1> SUFFICES ASSUME QueueInvariant, [Next]_vars
             PROVE  [Contract!ContractNext]_(Contract!contractVars)
  OBVIOUS
<1>1. ASSUME NEW o \in Operations, CreateOperation(o) \/ LeaseExpires(o)
      PROVE  [Contract!ContractNext]_(Contract!contractVars)
  BY <1>1, RowStepRefines
<1>2. ASSUME NEW w \in Workers,
             \/ ListAcceptedOperations(w) \/ BatchDone(w) \/ ListFails(w)
             \/ \E o \in Operations : SkipLeased(w, o) \/ LeaseFails(w, o)
             \/ Restart(w) \/ (Crash(w) /\ pc[w] \notin Busy)
      PROVE  [Contract!ContractNext]_(Contract!contractVars)
  BY <1>2, IdleStepRefines DEF QueueInvariant, TypeOK, Busy, rows, workerVars,
     history, Goto, Halt, ListAcceptedOperations, BatchDone, ListFails, SkipLeased,
     LeaseFails, Restart, Crash
<1>3. ASSUME NEW w \in Workers, NEW o \in Operations, LeaseOperation(w, o)
      PROVE  [Contract!ContractNext]_(Contract!contractVars)
  BY <1>3, LeaseStepRefines
<1>4. ASSUME NEW w \in Workers,
             \/ GetOperation(w) \/ GetOperationFails(w)
             \/ ApplySucceeds(w) \/ ApplyFails(w)
      PROVE  [Contract!ContractNext]_(Contract!contractVars)
  <2>1. \A p \in Operations : StatusOf(p)' = StatusOf(p) /\ TriesOf(p)' = TriesOf(p)
    BY <1>4 DEF GetOperation, GetOperationFails, ApplySucceeds, ApplyFails, Goto,
       rows, history, StatusOf, TriesOf, Held
  <2> QED BY <2>1, InvisibleStep
<1>5. ASSUME NEW w \in Workers,
             \/ MarkApplying(w) \/ MarkApplyingFails(w) \/ MarkFailed(w)
             \/ MarkSucceeded(w) \/ MarkSucceededFails(w) \/ RecordFailure(w)
             \/ RecordFailureFails(w) \/ (Crash(w) /\ pc[w] \in Busy)
      PROVE  [Contract!ContractNext]_(Contract!contractVars)
  <2>1. pc[w] \in Busy /\ current[w] \in Operations
    BY <1>5 DEF QueueInvariant, TypeOK, Busy, MarkApplying,
       MarkApplyingFails, MarkFailed, MarkSucceeded, MarkSucceededFails,
       RecordFailure, RecordFailureFails
  <2> QED BY <1>5, <2>1, HolderStepRefines
<1>6. CASE UNCHANGED vars
  <2>1. \A p \in Operations : StatusOf(p)' = StatusOf(p) /\ TriesOf(p)' = TriesOf(p)
    BY <1>6 DEF vars, rows, workerVars, history, StatusOf, TriesOf, Held
  <2> QED BY <2>1, InvisibleStep
<1> QED
  BY <1>1, <1>2, <1>3, <1>4, <1>5, <1>6 DEF Next, WorkerStep, StoreFault

\* The table and its workers implement the contract of one operation.
THEOREM QueueImplementsContract == Spec => ImplementsContract
<1>1. Spec => Contract!ContractInit /\ [][Contract!ContractNext]_(Contract!contractVars)
  BY InitRefines, NextRefines, QueueInvariantHolds, PTL DEF Spec
<1> QED BY <1>1 DEF ImplementsContract, Contract!ContractSpec
=============================================================================
