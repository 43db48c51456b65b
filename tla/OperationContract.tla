--------------------------- MODULE OperationContract ---------------------------
(***************************************************************************)
(* What fabric_operations promises a client that polls one operation,      *)
(* whatever number of workers share the table and however they fail: the   *)
(* operation runs at most once at a time and at most MaxAttempts times, an *)
(* attempt that ends without a verdict puts it back, and a verdict is      *)
(* final.  One thing voids the promise: a lease that runs out under a       *)
(* worker that has not started yet.                                        *)
(***************************************************************************)
EXTENDS Naturals

CONSTANTS Operations, MaxAttempts

VARIABLES
  status,  \* where each operation is for its client
  tries    \* the failed attempts counted so far

contractVars == <<status, tries>>

Statuses == {"absent", "pending", "running", "succeeded", "failed", "void"}

ContractInit ==
  /\ status = [o \in Operations |-> "absent"]
  /\ tries = [o \in Operations |-> 0]

SetStatus(o, s) == status' = [status EXCEPT ![o] = s]

Accept(o) ==
  /\ status[o] = "absent"
  /\ SetStatus(o, "pending")
  /\ UNCHANGED tries

Start(o) ==
  /\ status[o] = "pending"
  /\ SetStatus(o, "running")
  /\ UNCHANGED tries

Complete(o) ==
  /\ status[o] = "running"
  /\ SetStatus(o, "succeeded")
  /\ UNCHANGED tries

\* A failed attempt, the last one or not.
CountFailure(o) ==
  /\ status[o] \in {"pending", "running"}
  /\ tries[o] < MaxAttempts
  /\ tries' = [tries EXCEPT ![o] = @ + 1]
  /\ SetStatus(o, IF tries[o] + 1 < MaxAttempts THEN "pending" ELSE "failed")

\* The worker was lost after it had recorded a failure and before it counted it.
Abandon(o) ==
  /\ status[o] = "running"
  /\ SetStatus(o, "failed")
  /\ UNCHANGED tries

\* The lease of a worker about to start ran out: two workers may now share o.
LoseLease(o) ==
  /\ status[o] = "pending"
  /\ SetStatus(o, "void")
  /\ tries' = [tries EXCEPT ![o] = 0]

ContractNext ==
  \E o \in Operations :
    \/ Accept(o) \/ Start(o) \/ Complete(o)
    \/ CountFailure(o) \/ Abandon(o) \/ LoseLease(o)

ContractSpec == ContractInit /\ [][ContractNext]_contractVars
=============================================================================
