------------------------------ MODULE MCLiveE2E ------------------------------
EXTENDS LiveE2E, TLC, Functions

CONSTANTS c1, c2, c3, api, command, create, destroy, rebuild, other, third, MaxFailures

\* Two computes of one instance type, and one of another.
MCPoolName == [c \in {c1, c2} |-> "opl-pool-sa5-large4"] @@ (c3 :> "opl-pool-sa5-large8")
MCKind == (create :> "workspace") @@ (destroy :> "compute_allocation_destroy")
          @@ [o \in {rebuild, other, third} |-> "compute_allocation"]
MCTarget == (create :> c1) @@ (destroy :> c1) @@ (rebuild :> c1) @@ (other :> c2)
            @@ (third :> c3)

\* In a rollout two workers overlap on create and destroy of one compute, and on a compute
\* of another type.
MCRequests == [command |-> {other}, cleanup |-> {create, other},
               rollout |-> {create, destroy, third}]

\* A behaviour has at most MaxFailures failed or lost attempts, of all operations.
Lost(o) == status[o] = "running" /\ \A w \in Workers : job[w].op # o
FewFailures ==
  FoldFunction(+, 0, tries) + Cardinality({o \in Operations : Lost(o)}) <= MaxFailures
==============================================================================
