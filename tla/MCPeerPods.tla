----------------------------- MODULE MCPeerPods -----------------------------
(* Instances of PeerPods for TLC. *)
EXTENDS PeerPods, TLC

CONSTANTS u1, n1, a1, a2, i1, i2

\* Two sandboxes of one Pod: the second is created when the first has stopped or
\* its CAA has crashed.
OnePod_PodName == u1 :> "p1"
OnePod_PodNode == u1 :> n1
OnePod_PodOf == a1 :> u1 @@ a2 :> u1

\* One Pod with one sandbox.
OneSandbox_PodName == u1 :> "p1"
OneSandbox_PodNode == u1 :> n1
OneSandbox_PodOf == a1 :> u1

\* a1 is created before a2 and ID i1 is handed out before i2: every behaviour is
\* one of these up to a permutation of the names, and liveness needs no SYMMETRY.
Ordered ==
  /\ startPC'[a2] # "new" => startPC[a1] # "new"
  /\ i2 \in handedOut' => i1 \in handedOut'

\* Then a2 is the sandbox whose PeerPod is newer, and only the part of Fairness
\* that the collection of a1's PeerPod needs is assumed.
OrderedFairSpec ==
  /\ Init /\ [][Next /\ Ordered]_vars
  /\ Progress /\ LiveServed(a2) /\ DeletingServed(a1)
=============================================================================
