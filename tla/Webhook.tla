------------------------------- MODULE Webhook -------------------------------
(***************************************************************************)
(* What the mutating webhook makes of a Pod, and what the adaptor reads of  *)
(* the annotations it leaves: pure functions of the Pod.                    *)
(*                                                                         *)
(* Quantities are integers: CPU in milli-CPUs, memory in parts of a MiB.   *)
(* A quantity that is absent counts as 0, as in the code.  Numbers of GPUs *)
(* stay below 1000, where Quantity.String prints all their digits.         *)
(***************************************************************************)
EXTENDS Integers, Sequences, FiniteSetsExt, SequencesExt

CONSTANT MiB    \* the parts of a MiB

ASSUME MiBAssumption == MiB \in Nat \ {0}

Absent == -1    \* no annotation
Garbage == -2   \* an annotation that is not a number

Resources == {"cpu", "memory", "gpu", "vm"}
Annotated == {"cpu", "memory", "gpu"}
Unit == [cpu |-> 1000, memory |-> MiB, gpu |-> 1]

\* The sum of a field over a sequence of containers.
Total(containers, name, field) ==
  LET sum[n \in 0..Len(containers)] ==
        IF n = 0 THEN 0 ELSE sum[n - 1] + containers[n][name][field]
  IN sum[Len(containers)]

\* Faulty variant of GetResourceRequestQuantity: init containers are forgotten.
RequestWithoutInit(pod, name) == Total(pod.containers, name, "req")

GetResourceRequestQuantity(pod, name) ==
  Total(pod.containers, name, "req") + Total(pod.initContainers, name, "req")

GetResourceLimitQuantity(pod, name) ==
  Total(pod.containers, name, "lim") + Total(pod.initContainers, name, "lim")

\* Quantity.Value and RoundUpToMiB round up to the unit of the annotation.
RoundUp(q, name) == (q + Unit[name] - 1) \div Unit[name]

\* The annotation for a resource: the limits if they are not below the
\* requests, else the requests; for GPUs the requests; without a request, what
\* the Pod has already.
Annotation(pod, name) ==
  LET req == GetResourceRequestQuantity(pod, name)
      lim == GetResourceLimitQuantity(pod, name)
  IN IF req = 0 THEN pod.annotations[name]
     ELSE IF name # "gpu" /\ lim >= req THEN RoundUp(lim, name)
     ELSE RoundUp(req, name)

NoResources == [name \in Resources |-> [req |-> 0, lim |-> 0]]
defaultContainerResourceRequirements ==
  [NoResources EXCEPT !["vm"] = [req |-> 1, lim |-> 1]]

Cleared(containers) == [i \in DOMAIN containers |-> NoResources]

adjustResourceSpec(pod) ==
  [pod EXCEPT !.annotations = [name \in Annotated |-> Annotation(pod, name)],
              !.initContainers = Cleared(pod.initContainers),
              !.containers = [Cleared(pod.containers) EXCEPT
                                ![1] = defaultContainerResourceRequirements]]

\* The runtime class is the webhook's own, "kata-remote", or another.
mutatePod(pod) == IF pod.runtimeClass = "kata-remote" THEN adjustResourceSpec(pod) ELSE pod

\* What is absent or not a number counts as 0.
GetPodvmResourcesFromAnnotation(annotations) ==
  [name \in Annotated |-> IF annotations[name] > 0 THEN annotations[name] ELSE 0]

\* external: what the scheduler counts for a Pod.
Claim(pod, name) ==
  Max({Total(pod.containers, name, "req")}
        \cup {pod.initContainers[i][name].req : i \in DOMAIN pod.initContainers})
=============================================================================
