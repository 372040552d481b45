------------------------------ MODULE MCPodNode ------------------------------
(* A pod subnet that no CNI table has, and the two ways in which Setup fails. *)
EXTENDS PodNode

OtherSubnets == {<<6, 2>>}
Early == {"primary", "ip", "iptables"}

\* Addresses in any order and failures that a restart repairs, or addresses in order
\* and failures that leave the VXLAN interface or the second one behind.
EarlyAndLate ==
  {[ordered |-> FALSE, faulty |-> Early],
   [ordered |-> TRUE, faulty |-> Early \union {"link", "move", "kernelroute", "external"}]}
=============================================================================
