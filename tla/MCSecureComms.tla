---------------------------- MODULE MCSecureComms ----------------------------
(* Two tunnels: one to the KBS, whose inbound is in the pod VM, and one to  *)
(* a Kubernetes phase service of the pod VM, as the kata agent is, with an  *)
(* inbound on the worker node whose tag allows both phases.                 *)
EXTENDS SecureComms

Tunnels == {"user", "kbs"}
Side == [n \in Name |-> IF n = "kbs" THEN "pp" ELSE "wn"]
InTags == [n \in Name |-> "B"]
OutTags == [n \in Name |-> IF n = "kbs" THEN "B" ELSE "K"]
=============================================================================
