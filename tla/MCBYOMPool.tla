----------------------------- MODULE MCBYOMPool -----------------------------
(* Instances of BYOMPool for TLC. *)
EXTENDS BYOMPool, TLC

CONSTANTS a1, a2, a3, i1, i2, i3, m1, m2

\* All sandboxes are served by one process.
OneManager_MgrOf == [a \in Alloc |-> m1]

\* Two worker nodes.
TwoManagers_MgrOf == [a \in Alloc |-> IF a = a1 THEN m1 ELSE m2]

\* VM_POOL_IPS is edited between two starts: i1 stays, i2 is replaced by i3.
Edited == {{i1, i2}, {i1, i3}}
Kept == {{i1, i2}}

\* The sandboxes of one process are alike.
Symmetry == Permutations(Alloc)
=============================================================================
