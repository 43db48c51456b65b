------------------------------ MODULE Reservation ------------------------------
(***************************************************************************)
(* The mutating routes of the Fabric API up to the receipt.                *)
(*                                                                         *)
(* Every identifier is derived from the client's Idempotency-Key, and every*)
(* insert is ON CONFLICT DO NOTHING.  The workspace route reserves all its *)
(* rows and its operation in one transaction; each single-resource route   *)
(* inserts its row and then its operation, in two statements; the destroy  *)
(* routes insert an operation only.                                        *)
(***************************************************************************)
EXTENDS FiniteSets

CONSTANTS
  Keys,      \* Idempotency-Key headers
  Requests,  \* the requests clients may send, each any number of times
  Handlers,  \* the goroutines that serve requests
  Faults,    \* the faults of the environment that may occur
  None       \* no request, no operation

\* stableID: one identifier for each prefix and key (a truncated hash in the code,
\* here without collisions).
stableID(prefix, key) == <<prefix, key>>

\* "entry" is the entry of a workspace, "workspace" that of the entry route.
Prefixes ==
  {"storage", "computealloc", "attach", "entry", "workspace", "ws"}

Ids == Prefixes \X Keys

SingleRoutes ==
  {"storage_volume", "compute_allocation", "storage_attachment", "workspace_entry"}
ConfirmedRoutes ==
  {"compute_allocation_destroy", "storage_destroy", "attachment_detach"}
Routes == SingleRoutes \cup ConfirmedRoutes \cup {"workspace"}

\* A request names the rows it refers to: a compute and a storage to attach, the
\* attachment of an entry, the resource to destroy.
ASSUME RequestsAssumption ==
  /\ Requests \subseteq [route : Routes, key : Keys, names : SUBSET Ids]
  /\ \A r \in Requests : r.route \in ConfirmedRoutes => r.names # {}
  /\ None \notin Requests \cup [kind : Routes, resource : Ids]

\* "store": a statement fails without effect.  "lostReply": it commits and the
\* handler sees an error.  "crash": the API process ends.
ASSUME FaultsAssumption == Faults \subseteq {"store", "lostReply", "crash"}

VARIABLES
  operations,  \* by key: the kind and resource of its fabric_operations row
  reserved,    \* the identifiers of the rows in the five resource tables
  refs,        \* by identifier: the rows its row references
  serving,     \* the request each handler serves
  pc,          \* the statement each handler is about to run
  asked,       \* history: the requests that reached the API
  receipts     \* history: the requests answered 202 with a receipt

tables == <<operations, reserved, refs>>
vars == <<tables, serving, pc, asked, receipts>>

\* The identifier a request derives from its key, or repeats.
ResourceID(r) ==
  CASE r.route = "storage_volume"     -> stableID("storage", r.key)
    [] r.route = "compute_allocation" -> stableID("computealloc", r.key)
    [] r.route = "storage_attachment" -> stableID("attach", r.key)
    [] r.route = "workspace_entry"    -> stableID("workspace", r.key)
    [] r.route = "workspace"          -> stableID("ws", r.key)
    [] OTHER -> CHOOSE id \in r.names : TRUE

\* The operation a request asks for, which is also what its receipt says.
OperationOf(r) == [kind |-> r.route, resource |-> ResourceID(r)]

\* The foreign keys among the rows of a workspace reservation.
WorkspaceLinks ==
  {<<"attach", "computealloc">>, <<"attach", "storage">>, <<"entry", "attach">>,
   <<"ws", "storage">>, <<"ws", "computealloc">>, <<"ws", "attach">>, <<"ws", "entry">>}

\* These rows, with what each references.
WorkspaceRefs(k) ==
  [id \in {stableID(p, k) : p \in Prefixes \ {"workspace"}} |->
     {stableID(q, k) : q \in {p \in Prefixes : <<id[1], p>> \in WorkspaceLinks}}]

-----------------------------------------------------------------------------
\* The statements.

\* Slips: an upsert, and a row that need not name existing rows.
UpsertOperation(r) ==
  operations' = [operations EXCEPT ![r.key] = OperationOf(r)]
InsertsUnchecked(id, names) == id \notin reserved

\* CreateOperation and insertOperation: ON CONFLICT (idempotency_key) DO NOTHING.
InsertOperation(r) ==
  operations' = IF operations[r.key] = None
                THEN [operations EXCEPT ![r.key] = OperationOf(r)]
                ELSE operations

\* The row is new and its foreign keys resolve.
Inserts(id, names) == id \notin reserved /\ names \subseteq reserved

InsertRow(id, names) ==
  IF Inserts(id, names)
  THEN /\ reserved' = reserved \cup {id}
       /\ refs' = [refs EXCEPT ![id] = names]
  ELSE UNCHANGED <<reserved, refs>>

\* The six inserts of the transaction, on top of the rows already there.
InsertReservation(r) ==
  LET new == DOMAIN WorkspaceRefs(r.key) \ reserved
  IN  /\ InsertOperation(r)
      /\ reserved' = reserved \cup new
      /\ refs' = [id \in Ids |->
                    IF id \in new THEN WorkspaceRefs(r.key)[id] ELSE refs[id]]

\* A slip: an error in the middle keeps the inserts that were done.
RollbackForgotten(r) ==
  /\ InsertOperation(r)
  /\ reserved' = reserved \cup {stableID("storage", r.key)}
  /\ UNCHANGED refs

\* The deferred tx.Rollback.
Rollback(r) == UNCHANGED tables

-----------------------------------------------------------------------------
\* The handlers.

Init ==
  /\ operations = [k \in Keys |-> None]
  /\ reserved = {}
  /\ refs = [id \in Ids |-> {}]
  /\ serving = [h \in Handlers |-> None]
  /\ pc = [h \in Handlers |-> "idle"]
  /\ asked = {}
  /\ receipts = {}

\* Where the handler of a request starts.
FirstStatement(r) ==
  CASE r.route \in SingleRoutes    -> "row"
    [] r.route \in ConfirmedRoutes -> "operation"
    [] r.route = "workspace"       -> "reservation"

\* handleMutation with headers, body, account, requester and confirmation in
\* order; a request that lacks one of them is refused and touches nothing.
Receive(h, r) ==
  /\ pc[h] = "idle"
  /\ serving' = [serving EXCEPT ![h] = r]
  /\ pc' = [pc EXCEPT ![h] = FirstStatement(r)]
  /\ asked' = asked \cup {r}
  /\ UNCHANGED <<tables, receipts>>

\* A slip: the handler goes on after it has answered.
FinishWithoutReturn(h) ==
  /\ serving' = [serving EXCEPT ![h] = None]
  /\ UNCHANGED pc

Finish(h) ==
  /\ serving' = [serving EXCEPT ![h] = None]
  /\ pc' = [pc EXCEPT ![h] = "idle"]

\* A slip: the receipt is written before the operation is.
ReplyAfterRow(h) ==
  /\ pc[h] = "row"
  /\ InsertRow(ResourceID(serving[h]), serving[h].names)
  /\ Finish(h)
  /\ receipts' = receipts \cup {serving[h]}
  /\ UNCHANGED <<operations, asked>>

\* Create<Resource> of a single-resource route.
ReserveRow(h) ==
  LET r == serving[h] IN
  /\ pc[h] = "row"
  /\ ResourceID(r) \in reserved \/ Inserts(ResourceID(r), r.names)
  /\ InsertRow(ResourceID(r), r.names)
  /\ pc' = [pc EXCEPT ![h] = "operation"]
  /\ UNCHANGED <<operations, serving, asked, receipts>>

\* A foreign key does not resolve: 500, nothing written.
RowRefused(h) ==
  LET r == serving[h] IN
  /\ pc[h] = "row"
  /\ ResourceID(r) \notin reserved
  /\ ~Inserts(ResourceID(r), r.names)
  /\ Finish(h)
  /\ UNCHANGED <<tables, asked, receipts>>

\* acceptOperation: the receipt repeats the request, whatever the insert found.
AcceptOperation(h) ==
  /\ pc[h] = "operation"
  /\ InsertOperation(serving[h])
  /\ Finish(h)
  /\ receipts' = receipts \cup {serving[h]}
  /\ UNCHANGED <<reserved, refs, asked>>

\* AcceptWorkspace, one transaction.
AcceptWorkspace(h) ==
  /\ pc[h] = "reservation"
  /\ InsertReservation(serving[h])
  /\ Finish(h)
  /\ receipts' = receipts \cup {serving[h]}
  /\ UNCHANGED asked

\* A statement, or one of the transaction's, fails; the client sees a 500.
StatementFails(h) ==
  /\ "store" \in Faults
  /\ pc[h] # "idle"
  /\ IF pc[h] = "reservation" THEN Rollback(serving[h]) ELSE UNCHANGED tables
  /\ Finish(h)
  /\ UNCHANGED <<asked, receipts>>

\* The statement or the commit took effect, and the client sees a 500 as well.
ReplyLost(h) ==
  /\ "lostReply" \in Faults
  /\ \/ /\ pc[h] = "row"
        /\ InsertRow(ResourceID(serving[h]), serving[h].names)
        /\ UNCHANGED operations
     \/ /\ pc[h] = "operation"
        /\ InsertOperation(serving[h])
        /\ UNCHANGED <<reserved, refs>>
     \/ pc[h] = "reservation" /\ InsertReservation(serving[h])
  /\ Finish(h)
  /\ UNCHANGED <<asked, receipts>>

\* The API process ends with all its handlers; an open transaction rolls back.
Crash ==
  /\ "crash" \in Faults
  /\ \E h \in Handlers : pc[h] # "idle"
  /\ serving' = [h \in Handlers |-> None]
  /\ pc' = [h \in Handlers |-> "idle"]
  /\ UNCHANGED <<tables, asked, receipts>>

Statement(h) ==
  \/ ReserveRow(h)
  \/ RowRefused(h)
  \/ AcceptOperation(h)
  \/ AcceptWorkspace(h)

Next ==
  \/ \E h \in Handlers :
       \/ \E r \in Requests : Receive(h, r)
       \/ Statement(h)
       \/ StatementFails(h)
       \/ ReplyLost(h)
  \/ Crash

Spec == Init /\ [][Next]_vars

-----------------------------------------------------------------------------
TypeOK ==
  /\ operations \in [Keys -> [kind : Routes, resource : Ids] \cup {None}]
  /\ reserved \subseteq Ids
  /\ refs \in [Ids -> SUBSET Ids]
  /\ serving \in [Handlers -> Requests \cup {None}]
  /\ pc \in [Handlers -> {"idle", "row", "operation", "reservation"}]
  /\ asked \subseteq Requests
  /\ receipts \subseteq Requests
  /\ \A h \in Handlers : pc[h] # "idle" =>
       serving[h] \in asked /\ (pc[h] = "row" => serving[h].route \in SingleRoutes)

\* Every request with r's key so far was r itself or a repetition of it.
KeyUsedOnce(r) == \A q \in asked : q.key = r.key => q = r

\* A receipt is backed by the database: its key has an operation, the row it
\* names is there unless it is up to the worker to find out, and a client that
\* never reuses a key gets exactly the operation the receipt describes
\* (acceptOperation, AcceptWorkspace), however often it repeats the request and
\* whatever failed before.
ReceiptIsBacked ==
  \A r \in receipts :
    /\ operations[r.key] # None
    /\ r.route \notin ConfirmedRoutes => ResourceID(r) \in reserved
    /\ KeyUsedOnce(r) => operations[r.key] = OperationOf(r)

\* The rows of a workspace of key k, and what is there under that key.
PartsOf(k) == DOMAIN WorkspaceRefs(k)
Found(k) == reserved \cap {stableID(p, k) : p \in Prefixes}

ServedWorkspacesOnly(k) == \A q \in asked : q.key = k => q.route = "workspace"

NothingReserved(k) == operations[k] = None /\ Found(k) = {}

WorkspaceReserved(k) ==
  /\ operations[k] # None /\ operations[k].kind = "workspace"
  /\ Found(k) = PartsOf(k)
  /\ \A id \in PartsOf(k) : refs[id] = WorkspaceRefs(k)[id]

\* A workspace is reserved whole or not at all: with the workspace row come an
\* operation of its key and all the rows it is made of; and a key that served
\* nothing else has the workspace operation and exactly these rows, or nothing,
\* also after errors, lost replies and crashes (CreateWorkspaceReservation).
ReservedWhole ==
  \A k \in Keys :
    /\ stableID("ws", k) \in reserved => operations[k] # None /\ PartsOf(k) \subseteq Found(k)
    /\ ServedWorkspacesOnly(k) => NothingReserved(k) \/ WorkspaceReserved(k)

\* The orchestrator never loads a row whose parents are missing: what a row
\* references is reserved, and never the other way round in a circle.
ReferencesResolve ==
  \A id \in reserved : refs[id] \subseteq reserved \ {id}

\* First come, first served: the operation of a key and the references of a row
\* never change once they are there, whatever later requests say
\* (ON CONFLICT DO NOTHING in every insert).
FirstRequestWins ==
  [][/\ \A k \in Keys : operations[k] # None => operations'[k] = operations[k]
     /\ reserved \subseteq reserved'
     /\ \A id \in reserved : refs'[id] = refs[id]]_vars

\* What a handler may rely on between its statements.
HandlerInvariant ==
  \A h \in Handlers :
    /\ pc[h] = "operation" =>
         /\ serving[h].route # "workspace"
         /\ serving[h].route \notin ConfirmedRoutes => ResourceID(serving[h]) \in reserved
    /\ pc[h] = "reservation" => serving[h].route = "workspace"

\* Every operation was asked for under its key.
OperationsWereAsked ==
  \A k \in Keys :
    operations[k] # None =>
      \E q \in asked : q.key = k /\ operations[k] = OperationOf(q)

\* The inductive invariant of the proofs.
ReservationInvariant ==
  /\ TypeOK
  /\ HandlerInvariant
  /\ OperationsWereAsked
  /\ ReceiptIsBacked
  /\ ReservedWhole
  /\ ReferencesResolve

\* README.md: the workspace route reserves the rows and a Fabric operation, and
\* the worker executes the chain.  So a workspace in the table should have a
\* workspace operation.
WorkspaceHasItsOperation ==
  \A k \in Keys :
    stableID("ws", k) \in reserved =>
      operations[k] = [kind |-> "workspace", resource |-> stableID("ws", k)]
=============================================================================
