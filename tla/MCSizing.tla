------------------------------ MODULE MCSizing ------------------------------
(* Bounds for TLC.  Sizes are 1 or 2 of each resource: enough for a type    *)
(* that has more memory and fewer vCPUs than its neighbour in the list.     *)
(* Containers have fractions of a CPU and of a MiB, so that sums round      *)
(* differently from their terms; a Pod has a claim or annotations of its    *)
(* own.                                                                     *)
EXTENDS Sizing, TLC

Of(c, m, g, a) == [VCPUs |-> c, Memory |-> m, GPUs |-> g, Arch |-> a]
SomeShapes == {Of(c, m, 0, "amd64") : c \in 1..2, m \in 1..2}
                \cup {Of(2, 2, 1, "amd64"), Of(1, 2, 0, "s390x")}

Q(r, l) == [req |-> r, lim |-> l]
Container(c, m, g, v) == [cpu |-> c, memory |-> m, gpu |-> g, vm |-> v]
Small == Container(Q(400, 400), Q(3, 3), Q(0, 0), Q(0, 0))
Capped == Container(Q(1400, 0), Q(1, 6), Q(0, 0), Q(0, 0))
Busy == Container(Q(1400, 0), Q(1, 1), Q(0, 0), Q(0, 0))
GPU == Container(Q(0, 1000), Q(0, 0), Q(1, 1), Q(0, 0))
Claiming == Container(Q(0, 0), Q(0, 0), Q(0, 0), Q(1, 1))

NoAnnotations == [name \in Annotated |-> Absent]
OwnAnnotations == [cpu |-> 2, memory |-> Garbage, gpu |-> Absent]
PodOf(class, cs, is, ann) ==
  [runtimeClass |-> class, containers |-> cs, initContainers |-> is, annotations |-> ann]
Pod(cs, is, ann) == PodOf("kata-remote", cs, is, ann)

SomePods ==
  {Pod(<<Small>>, << >>, OwnAnnotations), Pod(<<GPU>>, << >>, OwnAnnotations),
   Pod(<<Small, Small>>, << >>, NoAnnotations), Pod(<<Capped>>, << >>, NoAnnotations),
   Pod(<<Small>>, <<Busy>>, NoAnnotations), Pod(<<Claiming, Small>>, << >>, NoAnnotations),
   Pod(<<GPU>>, <<Small>>, NoAnnotations), PodOf("runc", <<Small>>, << >>, NoAnnotations)}

Ask(n, c, m, g) == [InstanceType |-> n, VCPUs |-> c, Memory |-> m, GPUs |-> g]
SomeRequests ==
  {Ask(None, c, m, g) : c \in 0..2, m \in 0..2, g \in 0..1} \cup {Ask(n, 1, 1, 0) : n \in Names}

TwoImages == <<1, 2>>
NameSymmetry == Permutations(Names)
=============================================================================
