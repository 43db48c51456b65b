----------------------------- MODULE MCComputePool -----------------------------
EXTENDS ComputePool, TLC

CONSTANTS c1, c2, w1, first, second

MCPoolName == [c \in {c1, c2} |-> "opl-pool-sa5-large4"]
MCKind == [o \in {first, second} |-> "workspace"]
MCTarget == (first :> c1) @@ (second :> c2)
================================================================================
