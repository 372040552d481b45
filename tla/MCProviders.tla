---------------------------- MODULE MCProviders ----------------------------
(* All providers, for TLC. *)
EXTENDS Providers

CONSTANTS s1, s2

AllClouds == {"aws", "azure", "gcp", "ibmcloud", "powervs", "vsphere",
              "libvirt", "docker", "alibabacloud"}

\* One Pod from its creation to its deletion with calls that fail, and two Pods
\* created side by side, one of which is deleted.
LifeAndPair ==
  {[started |-> {s1}, deleted |-> {s1}, faults |-> 3],
   [started |-> {s1, s2}, deleted |-> {s1}, faults |-> 0]}
=============================================================================
