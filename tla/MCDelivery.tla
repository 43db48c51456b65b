------------------------------ MODULE MCDelivery ------------------------------
(* Delivery with one workspace, what an operator does to it, and a bystander. *)
EXTENDS Delivery

CONSTANTS create, destroy, rebuild, detach, bystander, second, reattach, wipe

Targets(storage, compute, attachment, entry, workspace) ==
  [storage |-> storage, compute |-> compute, attachment |-> attachment,
   entry |-> entry, workspace |-> workspace]

\* The bystander adds the entry of another workspace to the gateway; second is
\* another compute, and reattach moves the storage of the workspace to it.
MCKind ==
  [o \in Operations |->
     CASE o = create    -> "workspace"
       [] o = destroy   -> "compute_allocation_destroy"
       [] o = rebuild   -> "compute_allocation"
       [] o = detach    -> "attachment_detach"
       [] o = bystander -> "workspace_entry"
       [] o = second    -> "compute_allocation"
       [] o = reattach  -> "storage_attachment"
       [] o = wipe      -> "storage_destroy"]

MCTarget ==
  [o \in Operations |->
     CASE o = create    -> Targets("s1", "c1", "a1", "e1", "w1")
       [] o = destroy   -> Targets(None, "c1", None, None, None)
       [] o = rebuild   -> Targets(None, "c1", None, None, None)
       [] o = detach    -> Targets("s1", "c1", "a1", None, None)
       [] o = bystander -> Targets(None, None, None, "e2", None)
       [] o = second    -> Targets(None, "c2", None, None, None)
       [] o = reattach  -> Targets("s1", "c2", "a2", None, None)
       [] o = wipe      -> Targets("s1", None, None, None, None)]
=============================================================================
