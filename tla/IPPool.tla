------------------------------- MODULE IPPool -------------------------------
(***************************************************************************)
(* What the byom provider's address pool promises (ip_allocation.md): an    *)
(* address has one holder, who keeps it until the holder returns it.        *)
(***************************************************************************)
CONSTANTS IP, Alloc, None

VARIABLE used  \* used[a]: the address that allocation a holds

Init == used = [a \in Alloc |-> None]

Take(a, i) ==
  /\ used[a] = None
  /\ \A b \in Alloc : used[b] # i
  /\ used' = [used EXCEPT ![a] = i]

Return(a) ==
  /\ used[a] # None
  /\ used' = [used EXCEPT ![a] = None]

Next == \E a \in Alloc : Return(a) \/ \E i \in IP : Take(a, i)

Spec == Init /\ [][Next]_used
=============================================================================
