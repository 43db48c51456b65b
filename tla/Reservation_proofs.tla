-------------------------- MODULE Reservation_proofs --------------------------
(***************************************************************************)
(* The inductive invariant of Reservation and what follows from it, for    *)
(* every set of keys, requests and handlers and every combination of       *)
(* faults.                                                                 *)
(*                                                                         *)
(* A statement has one of three effects on the tables, or none; a lemma    *)
(* for each says what it preserves.  The proof for the handlers then only  *)
(* has to say which effect an action has and where the handler goes.       *)
(***************************************************************************)
EXTENDS Reservation, TLAPS

\* What the invariant says of the tables.
TablesTyped ==
  /\ operations \in [Keys -> [kind : Routes, resource : Ids] \cup {None}]
  /\ reserved \subseteq Ids
  /\ refs \in [Ids -> SUBSET Ids]

TablesInvariant ==
  /\ TablesTyped
  /\ OperationsWereAsked
  /\ ReservedWhole
  /\ ReferencesResolve

\* Rows and operations are only ever added.
Grows ==
  /\ \A k \in Keys : operations[k] # None => operations'[k] = operations[k]
  /\ reserved \subseteq reserved'
  /\ \A id \in reserved : refs'[id] = refs[id]

-----------------------------------------------------------------------------
\* Identifiers.

\* A request names its resource by an identifier; on a single-resource route by
\* one of its own key, and never by that of a workspace.
LEMMA ResourceIsTyped ==
  ASSUME NEW r \in Requests
  PROVE  /\ ResourceID(r) \in Ids
         /\ r.route \in SingleRoutes =>
              \E p \in Prefixes \ {"ws"} : ResourceID(r) = stableID(p, r.key)
<1>1. /\ r.route \in Routes
      /\ r.key \in Keys
      /\ r.names \subseteq Ids
      /\ r.route \in ConfirmedRoutes => r.names # {}
  BY RequestsAssumption
<1>2. CASE r.route \in ConfirmedRoutes
  <2>1. ResourceID(r) = CHOOSE id \in r.names : TRUE
    BY <1>2 DEF ResourceID, ConfirmedRoutes
  <2>2. (CHOOSE id \in r.names : TRUE) \in r.names
    BY <1>1, <1>2
  <2> QED BY <1>1, <1>2, <2>1, <2>2 DEF SingleRoutes, ConfirmedRoutes
<1>3. CASE r.route \notin ConfirmedRoutes
  BY <1>1, <1>3
     DEF ResourceID, Routes, SingleRoutes, ConfirmedRoutes, stableID, Prefixes, Ids
<1> QED BY <1>2, <1>3

\* The request's operation has the type of a row, and is not an empty one.
LEMMA OperationIsTyped ==
  ASSUME NEW r \in Requests
  PROVE  /\ OperationOf(r) \in [kind : Routes, resource : Ids]
         /\ OperationOf(r) # None
         /\ OperationOf(r).kind = r.route
         /\ r.key \in Keys
<1>1. r.route \in Routes /\ r.key \in Keys
  BY RequestsAssumption
<1>2. OperationOf(r) \in [kind : Routes, resource : Ids]
  BY <1>1, ResourceIsTyped DEF OperationOf
<1> QED BY <1>1, <1>2, RequestsAssumption DEF OperationOf

\* The rows of a workspace carry its key and reference each other, never
\* themselves.
LEMMA WorkspaceRefsAreClosed ==
  ASSUME NEW k \in Keys
  PROVE  /\ DOMAIN WorkspaceRefs(k) = {stableID(p, k) : p \in Prefixes \ {"workspace"}}
         /\ DOMAIN WorkspaceRefs(k) \subseteq Ids
         /\ DOMAIN WorkspaceRefs(k) \subseteq {stableID(p, k) : p \in Prefixes}
         /\ stableID("ws", k) \in DOMAIN WorkspaceRefs(k)
         /\ \A id \in DOMAIN WorkspaceRefs(k) :
              /\ id[2] = k
              /\ WorkspaceRefs(k)[id] \subseteq DOMAIN WorkspaceRefs(k) \ {id}
<1> DEFINE D == {stableID(p, k) : p \in Prefixes \ {"workspace"}}
<1>1. DOMAIN WorkspaceRefs(k) = D
  BY DEF WorkspaceRefs
<1>2. D \subseteq Ids /\ D \subseteq {stableID(p, k) : p \in Prefixes}
  BY DEF stableID, Ids
<1>3. stableID("ws", k) \in D
  <2>1. "ws" \in Prefixes \ {"workspace"}
    BY DEF Prefixes
  <2> QED BY <2>1
<1>4. ASSUME NEW id \in D PROVE id[2] = k /\ WorkspaceRefs(k)[id] \subseteq D \ {id}
  <2>1. PICK p \in Prefixes \ {"workspace"} : id = <<p, k>>
    BY <1>4 DEF stableID
  <2>2. id[1] = p /\ id[2] = k
    BY <2>1
  <2>3. WorkspaceRefs(k)[id] =
          {<<q, k>> : q \in {x \in Prefixes : <<p, x>> \in WorkspaceLinks}}
    BY <1>4, <2>2 DEF WorkspaceRefs, stableID
  <2>4. \A q \in Prefixes : <<p, q>> \in WorkspaceLinks => q # p /\ q # "workspace"
    BY DEF Prefixes, WorkspaceLinks
  <2> QED BY <2>1, <2>2, <2>3, <2>4 DEF stableID
<1> QED BY <1>1, <1>2, <1>3, <1>4

-----------------------------------------------------------------------------
\* What the three effects on the tables preserve.

\* No effect.
LEMMA TablesUnchanged ==
  ASSUME TablesInvariant, UNCHANGED <<operations, reserved, refs, asked>>
  PROVE  TablesInvariant' /\ Grows
<1>1. TablesTyped' /\ OperationsWereAsked' /\ ReferencesResolve' /\ Grows
  BY DEF TablesInvariant, TablesTyped, OperationsWereAsked, ReferencesResolve, Grows
<1>2. ReservedWhole'
  BY DEF TablesInvariant, ReservedWhole, ServedWorkspacesOnly, NothingReserved,
         WorkspaceReserved, Found, PartsOf
<1> QED BY <1>1, <1>2 DEF TablesInvariant

\* A single-resource row: it belongs to no workspace reservation of another key,
\* and a key whose requests are all for workspaces never gets one.
LEMMA RowEffect ==
  ASSUME TablesInvariant, NEW r \in Requests, r \in asked,
         r.route \in SingleRoutes, InsertRow(ResourceID(r), r.names),
         UNCHANGED operations, UNCHANGED asked
  PROVE  TablesInvariant' /\ Grows
<1> DEFINE id == ResourceID(r)
<1>1. PICK p \in Prefixes \ {"ws"} : id = stableID(p, r.key)
  BY ResourceIsTyped
<1>2. id \in Ids /\ r.names \subseteq Ids
  BY ResourceIsTyped, RequestsAssumption
<1>3. CASE ~Inserts(id, r.names)
  <2>1. UNCHANGED <<operations, reserved, refs>>
    BY <1>3 DEF InsertRow
  <2> QED BY <2>1, TablesUnchanged
<1>4. CASE Inserts(id, r.names)
  <2>1. /\ reserved' = reserved \cup {id}
        /\ refs' = [refs EXCEPT ![id] = r.names]
        /\ id \notin reserved
        /\ r.names \subseteq reserved
    BY <1>4 DEF InsertRow, Inserts
  <2>2. TablesTyped' /\ Grows
    BY <1>2, <2>1 DEF TablesInvariant, TablesTyped, Grows
  <2>3. OperationsWereAsked'
    BY DEF TablesInvariant, OperationsWereAsked
  <2>4. ReferencesResolve'
    BY <1>2, <2>1 DEF TablesInvariant, TablesTyped, ReferencesResolve
  <2>5. ReservedWhole'
    <3> SUFFICES ASSUME NEW k \in Keys
                 PROVE  /\ stableID("ws", k) \in reserved' =>
                             operations[k] # None /\ PartsOf(k) \subseteq Found(k)'
                        /\ ServedWorkspacesOnly(k) =>
                             NothingReserved(k)' \/ WorkspaceReserved(k)'
      BY DEF ReservedWhole, ServedWorkspacesOnly, PartsOf
    <3>1. stableID("ws", k) # id
      BY <1>1 DEF stableID
    <3>2. CASE r.key = k
      <4>1. ~ \A q \in asked : q.key = k => q.route = "workspace"
        BY <3>2 DEF SingleRoutes
      <4> QED BY <2>1, <3>1, <4>1
              DEF TablesInvariant, ReservedWhole, PartsOf, Found, ServedWorkspacesOnly
    <3>3. CASE r.key # k
      <4>1. id \notin {stableID(q, k) : q \in Prefixes}
        BY <1>1, <3>3 DEF stableID
      <4>2. DOMAIN WorkspaceRefs(k) \subseteq {stableID(q, k) : q \in Prefixes}
        BY WorkspaceRefsAreClosed
      <4>3. ASSUME NEW x \in DOMAIN WorkspaceRefs(k) PROVE refs'[x] = refs[x]
        <5>1. x \in Ids /\ x # id
          BY <4>1, <4>2, WorkspaceRefsAreClosed
        <5> QED BY <2>1, <5>1 DEF TablesInvariant, TablesTyped
      <4> QED BY <2>1, <3>1, <4>1, <4>3
              DEF TablesInvariant, ReservedWhole, PartsOf, Found, ServedWorkspacesOnly,
                  NothingReserved, WorkspaceReserved
    <3> QED BY <3>2, <3>3
  <2> QED BY <2>2, <2>3, <2>4, <2>5 DEF TablesInvariant
<1> QED BY <1>3, <1>4

\* An operation of a route other than the workspace one.
LEMMA OperationEffect ==
  ASSUME TablesInvariant, NEW r \in Requests, r \in asked,
         r.route # "workspace", InsertOperation(r),
         UNCHANGED <<reserved, refs, asked>>
  PROVE  TablesInvariant' /\ Grows /\ operations'[r.key] # None
<1>1. /\ OperationOf(r) \in [kind : Routes, resource : Ids]
      /\ OperationOf(r) # None
      /\ r.key \in Keys
  BY OperationIsTyped
<1>2. \A k \in Keys :
        operations'[k] = IF k = r.key /\ operations[k] = None
                         THEN OperationOf(r) ELSE operations[k]
  BY <1>1 DEF InsertOperation, TablesInvariant, TablesTyped
<1>3. TablesTyped'
  BY <1>1 DEF TablesInvariant, TablesTyped, InsertOperation
<1>4. Grows /\ operations'[r.key] # None
  BY <1>1, <1>2 DEF Grows
<1>5. OperationsWereAsked'
  BY <1>2 DEF TablesInvariant, OperationsWereAsked
<1>6. ReferencesResolve'
  BY DEF TablesInvariant, ReferencesResolve
<1>7. ReservedWhole'
  <2> SUFFICES ASSUME NEW k \in Keys
               PROVE  /\ stableID("ws", k) \in reserved =>
                           operations'[k] # None /\ PartsOf(k) \subseteq Found(k)
                      /\ ServedWorkspacesOnly(k) =>
                           NothingReserved(k)' \/ WorkspaceReserved(k)'
    BY DEF ReservedWhole, ServedWorkspacesOnly, PartsOf, Found
  <2> USE DEF TablesInvariant, ReservedWhole, PartsOf, Found, ServedWorkspacesOnly,
              NothingReserved, WorkspaceReserved
  <2>1. CASE r.key = k
    BY <1>1, <1>2, <2>1 DEF TablesInvariant, ReservedWhole
  <2>2. CASE r.key # k
    BY <1>2, <2>2 DEF TablesInvariant, ReservedWhole
  <2> QED BY <2>1, <2>2
<1> QED BY <1>3, <1>4, <1>5, <1>6, <1>7 DEF TablesInvariant

\* The transaction: it completes what is missing of the workspace of its key, and
\* leaves the other keys alone.
LEMMA ReservationEffect ==
  ASSUME TablesInvariant, NEW r \in Requests, r \in asked,
         r.route = "workspace", InsertReservation(r), UNCHANGED asked
  PROVE  /\ TablesInvariant' /\ Grows
         /\ operations'[r.key] # None
         /\ stableID("ws", r.key) \in reserved'
<1> DEFINE D == DOMAIN WorkspaceRefs(r.key)
           new == D \ reserved
<1>1. /\ OperationOf(r) \in [kind : Routes, resource : Ids]
      /\ OperationOf(r) # None
      /\ OperationOf(r).kind = "workspace"
      /\ r.key \in Keys
  BY OperationIsTyped
<1>2. \A k \in Keys :
        operations'[k] = IF k = r.key /\ operations[k] = None
                         THEN OperationOf(r) ELSE operations[k]
  BY <1>1 DEF InsertReservation, InsertOperation, TablesInvariant, TablesTyped
<1>3. /\ reserved' = reserved \cup new
      /\ refs' = [id \in Ids |-> IF id \in new THEN WorkspaceRefs(r.key)[id] ELSE refs[id]]
  BY DEF InsertReservation
<1>4. /\ D \subseteq Ids
      /\ \A id \in D : id[2] = r.key /\ WorkspaceRefs(r.key)[id] \subseteq D \ {id}
  BY <1>1, WorkspaceRefsAreClosed
<1>5. D \subseteq reserved'
  BY <1>3
<1>6. TablesTyped'
  <2>1. operations' \in [Keys -> [kind : Routes, resource : Ids] \cup {None}]
    BY <1>1 DEF InsertReservation, InsertOperation, TablesInvariant, TablesTyped
  <2>2. reserved' \subseteq Ids
    BY <1>3, <1>4 DEF TablesInvariant, TablesTyped
  <2>3. ASSUME NEW id \in Ids PROVE refs'[id] \subseteq Ids
    BY <1>3, <1>4 DEF TablesInvariant, TablesTyped
  <2> QED BY <1>3, <2>1, <2>2, <2>3 DEF TablesTyped
<1>7. Grows /\ operations'[r.key] # None
  BY <1>1, <1>2, <1>3 DEF Grows, TablesInvariant, TablesTyped
<1>8. stableID("ws", r.key) \in reserved'
  <2>1. stableID("ws", r.key) \in D
    BY <1>1, WorkspaceRefsAreClosed
  <2> QED BY <1>5, <2>1
<1>9. OperationsWereAsked'
  BY <1>2 DEF TablesInvariant, OperationsWereAsked
<1>10. ReferencesResolve'
  <2> SUFFICES ASSUME NEW id \in reserved' PROVE refs'[id] \subseteq reserved' \ {id}
    BY DEF ReferencesResolve
  <2>1. CASE id \in new
    BY <1>3, <1>4, <1>5, <2>1
  <2>2. CASE id \notin new
    BY <1>3, <2>2 DEF TablesInvariant, TablesTyped, ReferencesResolve
  <2> QED BY <2>1, <2>2
<1>11. ReservedWhole'
  <2> SUFFICES ASSUME NEW k \in Keys
               PROVE  /\ stableID("ws", k) \in reserved' =>
                           operations'[k] # None /\ PartsOf(k) \subseteq Found(k)'
                      /\ ServedWorkspacesOnly(k) =>
                           NothingReserved(k)' \/ WorkspaceReserved(k)'
    BY DEF ReservedWhole, ServedWorkspacesOnly, PartsOf
  <2>1. CASE k = r.key
    <3>1. PartsOf(k) = D /\ D \subseteq Found(k)'
      BY <1>1, <1>5, <2>1, WorkspaceRefsAreClosed DEF PartsOf, Found
    <3>2. ASSUME NothingReserved(k) PROVE WorkspaceReserved(k)'
      <4>1. operations'[k] = OperationOf(r)
        BY <1>1, <1>2, <2>1, <3>2 DEF NothingReserved
      <4>2. D \cap reserved = {}
        BY <1>1, <2>1, <3>2, WorkspaceRefsAreClosed DEF NothingReserved, Found
      <4>3. new = D
        BY <4>2
      <4>4. Found(k)' = D
        BY <1>3, <3>1, <3>2, <4>3 DEF NothingReserved, Found
      <4>5. \A id \in D : refs'[id] = WorkspaceRefs(k)[id]
        BY <1>3, <1>4, <2>1, <4>3
      <4> QED BY <1>1, <3>1, <4>1, <4>4, <4>5 DEF WorkspaceReserved, PartsOf
    <3>3. ASSUME WorkspaceReserved(k) PROVE WorkspaceReserved(k)'
      <4>1. D \subseteq reserved
        BY <3>1, <3>3 DEF WorkspaceReserved, Found
      <4>2. new = {}
        BY <4>1
      <4>3. reserved' = reserved /\ \A id \in D : refs'[id] = refs[id]
        BY <1>3, <1>4, <4>2
      <4>4. operations'[k] = operations[k]
        BY <1>2, <3>3 DEF WorkspaceReserved
      <4> QED BY <3>1, <3>3, <4>3, <4>4 DEF WorkspaceReserved, Found, PartsOf
    <3> QED BY <1>7, <2>1, <3>1, <3>2, <3>3 DEF TablesInvariant, ReservedWhole
  <2>2. CASE k # r.key
    <3>1. \A id \in {stableID(p, k) : p \in Prefixes} : id \notin new
      BY <1>4, <2>2 DEF stableID
    <3>2. Found(k)' = Found(k)
      BY <1>3, <3>1 DEF Found
    <3>3. operations'[k] = operations[k]
      BY <1>2, <2>2
    <3>4. ASSUME NEW id \in PartsOf(k) PROVE refs'[id] = refs[id]
      BY <1>3, <3>1, WorkspaceRefsAreClosed DEF PartsOf
    <3>5. stableID("ws", k) \in reserved' => stableID("ws", k) \in reserved
      BY <1>3, <3>1 DEF Prefixes
    <3> QED BY <3>2, <3>3, <3>4, <3>5
            DEF TablesInvariant, ReservedWhole, NothingReserved, WorkspaceReserved, PartsOf
  <2> QED BY <2>1, <2>2
<1> QED BY <1>6, <1>7, <1>8, <1>9, <1>10, <1>11 DEF TablesInvariant

-----------------------------------------------------------------------------
\* The handlers.

\* The tables start empty and the handlers idle: the invariant holds.
LEMMA InitReservationInvariant == Init => ReservationInvariant
<1> SUFFICES ASSUME Init PROVE ReservationInvariant
  OBVIOUS
<1>1. ReservedWhole
  BY DEF Init, ReservedWhole, NothingReserved, Found
<1>2. TypeOK /\ HandlerInvariant /\ OperationsWereAsked /\ ReceiptIsBacked /\ ReferencesResolve
  BY DEF Init, TypeOK, HandlerInvariant, OperationsWereAsked, ReceiptIsBacked, ReferencesResolve
<1> QED BY <1>1, <1>2 DEF ReservationInvariant

\* The invariant of the tables is part of the whole.
LEMMA InvariantOfTables == ReservationInvariant => TablesInvariant
BY DEF ReservationInvariant, TypeOK, TablesInvariant, TablesTyped

\* A handler that answers: nothing becomes false of the others, and the receipt it
\* may have given is backed if its key has an operation and its row is there.
LEMMA FinishKeeps ==
  ASSUME ReservationInvariant, NEW h \in Handlers, Finish(h), pc[h] # "idle",
         TablesInvariant', Grows, UNCHANGED asked,
         \/ UNCHANGED receipts
         \/ /\ receipts' = receipts \cup {serving[h]}
            /\ operations'[serving[h].key] # None
            /\ serving[h].route \notin ConfirmedRoutes => ResourceID(serving[h]) \in reserved'
  PROVE  ReservationInvariant'
<1>1. serving[h] \in asked /\ serving[h] \in Requests
  BY DEF ReservationInvariant, TypeOK
<1>2. TypeOK'
  BY <1>1 DEF ReservationInvariant, TypeOK, Finish, TablesInvariant, TablesTyped
<1>3. HandlerInvariant'
  BY DEF ReservationInvariant, TypeOK, HandlerInvariant, Finish, Grows
<1>4. ReceiptIsBacked'
  <2> SUFFICES ASSUME NEW r \in receipts'
               PROVE  /\ operations'[r.key] # None
                      /\ r.route \notin ConfirmedRoutes => ResourceID(r) \in reserved'
                      /\ KeyUsedOnce(r) => operations'[r.key] = OperationOf(r)
    BY DEF ReceiptIsBacked, KeyUsedOnce
  <2>1. r \in Requests /\ r.key \in Keys
    BY <1>2, RequestsAssumption DEF TypeOK
  <2>2. CASE r \in receipts
    BY <2>1, <2>2 DEF ReservationInvariant, ReceiptIsBacked, Grows
  <2>3. CASE r = serving[h] /\ r \notin receipts
    <3>1. /\ operations'[r.key] # None
          /\ r.route \notin ConfirmedRoutes => ResourceID(r) \in reserved'
      BY <2>3
    <3>2. PICK q \in asked : q.key = r.key /\ operations'[r.key] = OperationOf(q)
      BY <2>1, <3>1 DEF TablesInvariant, OperationsWereAsked
    <3> QED BY <3>1, <3>2 DEF KeyUsedOnce
  <2> QED BY <2>2, <2>3
<1> QED BY <1>2, <1>3, <1>4 DEF ReservationInvariant, TablesInvariant

\* Every statement, every fault and every request preserves the invariant, and
\* none takes anything out of the tables.
LEMMA NextReservationInvariant ==
  ASSUME ReservationInvariant, [Next]_vars
  PROVE  ReservationInvariant' /\ Grows
<1>1. TablesInvariant
  BY InvariantOfTables
<1>2. ASSUME NEW h \in Handlers, pc[h] # "idle"
      PROVE  serving[h] \in Requests /\ serving[h] \in asked
  BY <1>2 DEF ReservationInvariant, TypeOK
<1>3. ASSUME NEW h \in Handlers, NEW r \in Requests, Receive(h, r)
      PROVE  ReservationInvariant' /\ Grows
  <2>1. r.route \in Routes
    BY RequestsAssumption
  <2>2. FirstStatement(r) \in {"row", "operation", "reservation"}
        /\ (FirstStatement(r) = "row" => r.route \in SingleRoutes)
        /\ (FirstStatement(r) = "operation" => r.route \in ConfirmedRoutes)
        /\ (FirstStatement(r) = "reservation" => r.route = "workspace")
    BY <2>1 DEF FirstStatement, Routes, SingleRoutes, ConfirmedRoutes
  <2>3. UNCHANGED <<operations, reserved, refs, receipts>> /\ asked \subseteq asked'
    BY <1>3 DEF Receive, tables
  <2>4. TypeOK'
    BY <1>3, <2>2 DEF ReservationInvariant, TypeOK, Receive, tables
  <2>5. HandlerInvariant'
    BY <1>3, <2>1, <2>2
       DEF ReservationInvariant, TypeOK, HandlerInvariant, Receive, tables,
           Routes, SingleRoutes, ConfirmedRoutes
  <2>6. OperationsWereAsked'
    BY <2>3 DEF ReservationInvariant, OperationsWereAsked
  <2>7. ReceiptIsBacked'
    BY <2>3 DEF ReservationInvariant, ReceiptIsBacked, KeyUsedOnce
  <2>8. ReservedWhole'
    BY <2>3 DEF ReservationInvariant, ReservedWhole, ServedWorkspacesOnly,
                NothingReserved, WorkspaceReserved, Found, PartsOf
  <2>9. ReferencesResolve' /\ Grows
    BY <2>3 DEF ReservationInvariant, ReferencesResolve, Grows
  <2> QED BY <2>4, <2>5, <2>6, <2>7, <2>8, <2>9 DEF ReservationInvariant
<1>4. ASSUME NEW h \in Handlers, ReserveRow(h) PROVE ReservationInvariant' /\ Grows
  <2>1. serving[h] \in Requests /\ serving[h] \in asked /\ serving[h].route \in SingleRoutes
    BY <1>4 DEF ReservationInvariant, TypeOK, ReserveRow
  <2>2. TablesInvariant' /\ Grows
    BY <1>1, <1>4, <2>1, RowEffect DEF ReserveRow
  <2>3. ResourceID(serving[h]) \in reserved'
    BY <1>4 DEF ReserveRow, InsertRow
  <2>4. TypeOK'
    BY <1>4, <2>2 DEF ReservationInvariant, TypeOK, ReserveRow, TablesInvariant, TablesTyped
  <2>5. HandlerInvariant'
    BY <1>4, <2>1, <2>2, <2>3
       DEF ReservationInvariant, TypeOK, HandlerInvariant, ReserveRow, Grows, SingleRoutes
  <2>6. ReceiptIsBacked'
    <3>1. \A r \in receipts : r.key \in Keys
      BY RequestsAssumption DEF ReservationInvariant, TypeOK
    <3> QED BY <1>4, <2>2, <3>1
            DEF ReservationInvariant, ReceiptIsBacked, KeyUsedOnce, ReserveRow, Grows
  <2> QED BY <2>2, <2>4, <2>5, <2>6 DEF ReservationInvariant, TablesInvariant
<1>5. ASSUME NEW h \in Handlers, RowRefused(h) PROVE ReservationInvariant' /\ Grows
  <2>1. TablesInvariant' /\ Grows
    BY <1>1, <1>5, TablesUnchanged DEF RowRefused, tables
  <2> QED BY <1>5, <2>1, FinishKeeps DEF RowRefused
<1>6. ASSUME NEW h \in Handlers, AcceptOperation(h) PROVE ReservationInvariant' /\ Grows
  <2>1. /\ serving[h].route # "workspace"
        /\ serving[h].route \notin ConfirmedRoutes => ResourceID(serving[h]) \in reserved
    BY <1>6 DEF ReservationInvariant, HandlerInvariant, AcceptOperation
  <2>2. TablesInvariant' /\ Grows /\ operations'[serving[h].key] # None
    BY <1>1, <1>2, <1>6, <2>1, OperationEffect DEF AcceptOperation
  <2> QED BY <1>6, <2>1, <2>2, FinishKeeps DEF AcceptOperation
<1>7. ASSUME NEW h \in Handlers, AcceptWorkspace(h) PROVE ReservationInvariant' /\ Grows
  <2>1. serving[h].route = "workspace"
    BY <1>7 DEF ReservationInvariant, HandlerInvariant, AcceptWorkspace
  <2>2. /\ TablesInvariant' /\ Grows
        /\ operations'[serving[h].key] # None
        /\ stableID("ws", serving[h].key) \in reserved'
    BY <1>1, <1>2, <1>7, <2>1, ReservationEffect DEF AcceptWorkspace
  <2>3. ResourceID(serving[h]) = stableID("ws", serving[h].key)
    BY <2>1 DEF ResourceID
  <2> QED BY <1>7, <2>2, <2>3, FinishKeeps DEF AcceptWorkspace
<1>8. ASSUME NEW h \in Handlers, StatementFails(h) PROVE ReservationInvariant' /\ Grows
  <2>1. TablesInvariant' /\ Grows
    BY <1>1, <1>8, TablesUnchanged DEF StatementFails, Rollback, tables
  <2> QED BY <1>8, <2>1, FinishKeeps DEF StatementFails
<1>9. ASSUME NEW h \in Handlers, ReplyLost(h) PROVE ReservationInvariant' /\ Grows
  <2>1. TablesInvariant' /\ Grows /\ pc[h] # "idle"
    <3>1. CASE pc[h] = "row" /\ InsertRow(ResourceID(serving[h]), serving[h].names)
               /\ UNCHANGED operations
      <4>1. serving[h].route \in SingleRoutes
        BY <3>1 DEF ReservationInvariant, TypeOK
      <4> QED BY <1>1, <1>2, <1>9, <3>1, <4>1, RowEffect DEF ReplyLost
    <3>2. CASE pc[h] = "operation" /\ InsertOperation(serving[h]) /\ UNCHANGED <<reserved, refs>>
      <4>1. serving[h].route # "workspace"
        BY <3>2 DEF ReservationInvariant, HandlerInvariant
      <4> QED BY <1>1, <1>2, <1>9, <3>2, <4>1, OperationEffect DEF ReplyLost
    <3>3. CASE pc[h] = "reservation" /\ InsertReservation(serving[h])
      <4>1. serving[h].route = "workspace"
        BY <3>3 DEF ReservationInvariant, HandlerInvariant
      <4> QED BY <1>1, <1>2, <1>9, <3>3, <4>1, ReservationEffect DEF ReplyLost
    <3> QED BY <1>9, <3>1, <3>2, <3>3 DEF ReplyLost
  <2> QED BY <1>9, <2>1, FinishKeeps DEF ReplyLost
<1>10. ASSUME Crash PROVE ReservationInvariant' /\ Grows
  <2>1. TablesInvariant' /\ Grows
    BY <1>1, <1>10, TablesUnchanged DEF Crash, tables
  <2>2. TypeOK' /\ HandlerInvariant' /\ ReceiptIsBacked'
    BY <1>10 DEF ReservationInvariant, TypeOK, HandlerInvariant, ReceiptIsBacked,
                 KeyUsedOnce, Crash, tables
  <2> QED BY <2>1, <2>2 DEF ReservationInvariant, TablesInvariant
<1>11. ASSUME UNCHANGED vars PROVE ReservationInvariant' /\ Grows
  <2>1. TablesInvariant' /\ Grows
    BY <1>1, <1>11, TablesUnchanged DEF vars, tables
  <2>2. TypeOK' /\ HandlerInvariant' /\ ReceiptIsBacked'
    BY <1>11 DEF ReservationInvariant, TypeOK, HandlerInvariant, ReceiptIsBacked,
                 KeyUsedOnce, vars, tables
  <2> QED BY <2>1, <2>2 DEF ReservationInvariant, TablesInvariant
<1> QED BY <1>3, <1>4, <1>5, <1>6, <1>7, <1>8, <1>9, <1>10, <1>11 DEF Next, Statement

-----------------------------------------------------------------------------
\* The reservation invariant holds in every reachable state.
THEOREM ReservationInvariantHolds == Spec => []ReservationInvariant
<1>1. ReservationInvariant /\ [Next]_vars => ReservationInvariant'
  BY NextReservationInvariant
<1> QED BY <1>1, InitReservationInvariant, PTL DEF Spec

\* The tables and the handlers keep their types.
THEOREM ReservationTypeCorrect == Spec => []TypeOK
<1>1. ReservationInvariant => TypeOK
  BY DEF ReservationInvariant
<1> QED BY <1>1, ReservationInvariantHolds, PTL

\* A receipt is backed by an operation and a row, and tells the truth to a client
\* that uses a key once (acceptOperation, AcceptWorkspace).
THEOREM ReceiptsAreBacked == Spec => []ReceiptIsBacked
<1>1. ReservationInvariant => ReceiptIsBacked
  BY DEF ReservationInvariant
<1> QED BY <1>1, ReservationInvariantHolds, PTL

\* A workspace is reserved whole or not at all (CreateWorkspaceReservation).
THEOREM WorkspacesAreWhole == Spec => []ReservedWhole
<1>1. ReservationInvariant => ReservedWhole
  BY DEF ReservationInvariant
<1> QED BY <1>1, ReservationInvariantHolds, PTL

\* What a row references is there, and never the row itself (the foreign keys).
THEOREM ReferencesAlwaysResolve == Spec => []ReferencesResolve
<1>1. ReservationInvariant => ReferencesResolve
  BY DEF ReservationInvariant
<1> QED BY <1>1, ReservationInvariantHolds, PTL

\* Nothing a request wrote is changed by a later one (ON CONFLICT DO NOTHING).
THEOREM FirstRequestAlwaysWins == Spec => FirstRequestWins
<1>1. ReservationInvariant /\ [Next]_vars =>
        [/\ \A k \in Keys : operations[k] # None => operations'[k] = operations[k]
         /\ reserved \subseteq reserved'
         /\ \A id \in reserved : refs'[id] = refs[id]]_vars
  BY NextReservationInvariant DEF Grows
<1> QED BY <1>1, ReservationInvariantHolds, PTL DEF Spec, FirstRequestWins

-----------------------------------------------------------------------------
(* How far the finding about reused keys goes.                               *)

\* A workspace that is in the table and whose key belongs to another operation.
Stranded(k) ==
  /\ stableID("ws", k) \in reserved
  /\ operations[k] # [kind |-> "workspace", resource |-> stableID("ws", k)]

\* Where every request under a key was for a workspace, no workspace lacks its operation,
\* whatever is repeated, fails or crashes: a reused key is the only cause of
\* WorkspaceHasItsOperation failing (stableID and acceptOperation share one key).
THEOREM OneRoutePerKeySuffices ==
  Spec => [](\A k \in Keys : ServedWorkspacesOnly(k) => ~Stranded(k))
<1>1. ReservationInvariant => \A k \in Keys : ServedWorkspacesOnly(k) => ~Stranded(k)
  <2> SUFFICES ASSUME ReservationInvariant, NEW k \in Keys, ServedWorkspacesOnly(k),
                      stableID("ws", k) \in reserved
               PROVE  operations[k] = [kind |-> "workspace", resource |-> stableID("ws", k)]
    BY DEF Stranded
  <2>1. operations[k] # None
    BY DEF ReservationInvariant, ReservedWhole
  <2>2. PICK r \in asked : r.key = k /\ operations[k] = OperationOf(r)
    BY <2>1 DEF ReservationInvariant, OperationsWereAsked
  <2>3. r.route = "workspace"
    BY <2>2 DEF ServedWorkspacesOnly
  <2> QED BY <2>2, <2>3 DEF OperationOf, ResourceID
<1> QED BY <1>1, ReservationInvariantHolds, PTL

\* A stranded workspace is stranded for good: no repetition of its request, on whatever
\* route, and no restart ever gives it its operation (ON CONFLICT DO NOTHING).
THEOREM StrandedForGood ==
  Spec => [][\A k \in Keys : Stranded(k) => Stranded(k)']_vars
<1>1. ReservationInvariant /\ [Next]_vars =>
        [\A k \in Keys : Stranded(k) => Stranded(k)']_vars
  <2> SUFFICES ASSUME ReservationInvariant, [Next]_vars, NEW k \in Keys, Stranded(k)
               PROVE  Stranded(k)'
    OBVIOUS
  <2>1. operations[k] # None
    BY DEF ReservationInvariant, ReservedWhole, Stranded
  <2>2. operations'[k] = operations[k] /\ reserved \subseteq reserved'
    BY <2>1, NextReservationInvariant DEF Grows
  <2> QED BY <2>2 DEF Stranded, stableID
<1> QED BY <1>1, ReservationInvariantHolds, PTL DEF Spec
=============================================================================
