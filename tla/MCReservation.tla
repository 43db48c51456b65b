---------------------------- MODULE MCReservation ----------------------------
(* Reservation with the requests of an operator who mixes the routes. *)
EXTENDS Reservation, TLC

CONSTANTS k1, k2

Request(route, key, names) == [route |-> route, key |-> key, names |-> names]

\* k1 serves two creating routes, k2 an attachment to the rows of k1, an entry on
\* top of it, and a destroy.
MCRequests ==
  {Request("workspace", k1, {}),
   Request("storage_volume", k1, {}),
   Request("storage_attachment", k1,
           {stableID("computealloc", k2), stableID("storage", k1)}),
   Request("compute_allocation", k2, {}),
   Request("workspace_entry", k2, {stableID("attach", k1)}),
   Request("storage_destroy", k2, {stableID("storage", k1)})}

\* One key, two creating routes.
ReuseRequests ==
  {Request("workspace", k1, {}), Request("storage_volume", k1, {})}

Symmetry == Permutations(Handlers)
=============================================================================
