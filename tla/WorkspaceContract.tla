--------------------------- MODULE WorkspaceContract ---------------------------
(***************************************************************************)
(* What Fabric promises about the data and the addresses of workspaces,    *)
(* whatever operations run on them at the same time and however they fail: *)
(* a volume stays and so does an address, an application is given no disk  *)
(* and an address leads to no application of another workspace, and a      *)
(* workspace is declared open only over a usable volume and an address.    *)
(* Operations, attempts, rows and names are not part of the promise.       *)
(***************************************************************************)

CONSTANTS
  Storages, Computes, Entries, Workspaces,
  Links,   \* pairs of a compute and a storage it may be given
  Fronts,  \* pairs of an entry and a compute its address may lead to
  Holds    \* triples of a workspace, its storage and its entry

VARIABLES
  volumes,  \* the storages that have a volume
  offered,  \* those that are said to be available
  apps,     \* the computes whose application exists
  disks,    \* pairs of a compute and the storage on its disk
  urls,     \* the entries that have an address
  leads,    \* pairs of an entry and the compute its address leads to
  open      \* the workspaces that are said to run

contractVars == <<volumes, offered, apps, disks, urls, leads, open>>

WithoutDisks(c) == {d \in disks : d[1] # c}
WithoutLead(e) == {l \in leads : l[1] # e}

ContractInit ==
  /\ volumes = {} /\ offered = {}
  /\ apps = {} /\ disks = {}
  /\ urls = {} /\ leads = {}
  /\ open = {}

Provision(s) ==
  /\ volumes' = volumes \cup {s}
  /\ UNCHANGED <<offered, apps, disks, urls, leads, open>>

Offer(s) ==
  /\ s \in volumes
  /\ offered' = offered \cup {s}
  /\ UNCHANGED <<volumes, apps, disks, urls, leads, open>>

\* A new application, or a new version of one, has no disk.
StartApp(c) ==
  /\ apps' = apps \cup {c}
  /\ disks' = WithoutDisks(c)
  /\ UNCHANGED <<volumes, offered, urls, leads, open>>

StopApp(c) ==
  /\ apps' = apps \ {c}
  /\ disks' = WithoutDisks(c)
  /\ UNCHANGED <<volumes, offered, urls, leads, open>>

\* An application has one disk at most.
Mount(c, s) ==
  /\ c \in apps /\ s \in volumes
  /\ disks' = WithoutDisks(c) \cup {<<c, s>>}
  /\ UNCHANGED <<volumes, offered, apps, urls, leads, open>>

Unmount(c) ==
  /\ disks' = WithoutDisks(c)
  /\ UNCHANGED <<volumes, offered, apps, urls, leads, open>>

Route(e, c) ==
  /\ urls' = urls \cup {e}
  /\ leads' = WithoutLead(e) \cup {<<e, c>>}
  /\ UNCHANGED <<volumes, offered, apps, disks, open>>

\* An address may lead to no application; the address itself stays.
RouteNowhere(e) ==
  /\ urls' = urls \cup {e}
  /\ leads' = WithoutLead(e)
  /\ UNCHANGED <<volumes, offered, apps, disks, open>>

Open(w, s, e) ==
  /\ s \in offered /\ e \in urls
  /\ open' = open \cup {w}
  /\ UNCHANGED <<volumes, offered, apps, disks, urls, leads>>

\* A retry of the create begins.
Close(w) ==
  /\ open' = open \ {w}
  /\ UNCHANGED <<volumes, offered, apps, disks, urls, leads>>

ContractNext ==
  \/ \E s \in Storages : Provision(s) \/ Offer(s)
  \/ \E c \in Computes : StartApp(c) \/ StopApp(c) \/ Unmount(c)
  \/ \E l \in Links : Mount(l[1], l[2])
  \/ \E f \in Fronts : Route(f[1], f[2])
  \/ \E e \in Entries : RouteNowhere(e)
  \/ \E h \in Holds : Open(h[1], h[2], h[3])
  \/ \E w \in Workspaces : Close(w)

ContractSpec == ContractInit /\ [][ContractNext]_contractVars
=============================================================================
