------------------------------- MODULE Sizing -------------------------------
(***************************************************************************)
(* The size of a Pod from what its user writes to the VM it gets: the       *)
(* webhook moves the resources of the containers into annotations and may   *)
(* be called again for every later update of the Pod; the adaptor reads the *)
(* annotations into the VM's specification; the provider chooses a type.    *)
(***************************************************************************)
EXTENDS InstanceTypes, Webhook

CONSTANT PodSpecs   \* the Pods that users write

ASSUME PodSpecsAssumption == \A pod \in PodSpecs : pod.containers # << >>

\* The Pod as it is stored after its creation and a number of updates.
Stored(pod, updates) == IF updates = 0 THEN mutatePod(pod) ELSE mutatePod(mutatePod(pod))

\* CreateVM: the request that the annotations of a stored Pod amount to.
VMRequest(pod) ==
  LET r == GetPodvmResourcesFromAnnotation(pod.annotations)
  IN [InstanceType |-> None, VCPUs |-> r["cpu"], Memory |-> r["memory"], GPUs |-> r["gpu"]]

ASSUME RequestsCoverPods ==
  {VMRequest(Stored(pod, u)) : pod \in PodSpecs, u \in 0..1} \subseteq Requests

\* The peer Pods whose request is being answered.
Asking == {pod \in PodSpecs : /\ pod.runtimeClass = "kata-remote"
                              /\ \E u \in 0..1 : VMRequest(Stored(pod, u)) = req}

\* What the containers of the Pod ask for: the requests and, where there are
\* requests, the limits, of init containers as well.
Need(pod, name) ==
  LET all == pod.containers \o pod.initContainers
      need == Total(all, name, "req")
  IN IF need = 0 THEN 0 ELSE Max({need, Total(all, name, "lim")})

\* A Pod whose VM is chosen by size gets, in the cloud, a type with at least the
\* CPUs and the memory that its containers and init containers ask for: neither
\* the sums and the rounding of the webhook, nor its second look at a Pod from
\* which it has taken the resources, nor the search loses any of them.  The Pod
\* claims one VM of the worker node and nothing else, by no container and no init
\* container, and an update of the Pod is not refused for a change of its resources,
\* which are immutable, because the webhook sees it again.
PodFits ==
  Sized => \A pod \in Asking :
             /\ Need(pod, "cpu") <= table[chosen].VCPUs * Unit["cpu"]
             /\ Need(pod, "memory") <= table[chosen].Memory * Unit["memory"]
             /\ \A name \in Resources :
                  Claim(Stored(pod, 0), name) = IF name = "vm" THEN 1 ELSE 0
             /\ Stored(pod, 1) = Stored(pod, 0)
=============================================================================
