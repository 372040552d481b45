---------------------------- MODULE PeerPodStore ----------------------------
(***************************************************************************)
(* What cloud-api-adaptor (CAA) and the PeerPod controller share: the Pod   *)
(* and PeerPod objects of the Kubernetes API server and the pod VMs of the  *)
(* cloud provider.  Everything here is external to the two programs; the    *)
(* PeerPod custom resource is the one that OwnPeerPod writes.               *)
(*                                                                         *)
(* A sandbox is one CreateVM/StartVM/StopVM sequence of the kata runtime.   *)
(* A sandbox starts at most one VM and owns at most one PeerPod, so both    *)
(* are named after the sandbox; instance IDs are values of their own,       *)
(* because a provider may hand the same ID out again (byom uses the IP).    *)
(***************************************************************************)
EXTENDS Naturals, FiniteSets

CONSTANTS
  UID,          \* Pod objects, by UID
  Name,         \* Pod names (namespace included)
  Node,         \* worker nodes, one CAA each
  Sandbox,      \* sandbox IDs
  Instance,     \* provider instance IDs
  None,         \* the empty string or a missing object
  Orphan,       \* the holder of a VM nobody was told about
  PodName,      \* the name of a Pod
  PodNode,      \* the node a Pod is bound to
  PodOf,        \* the Pod a sandbox is created for
  MaxTime,      \* bound on the API server's clock, in seconds
  ReuseIDs,     \* a deleted instance's ID may be handed out again (byom)
  DeleteMayFail,    \* DeleteInstance may fail on an existing instance
  DeleteEmptyOK,    \* DeleteInstance("") returns nil (byom)
  DeleteMissingOK   \* DeleteInstance of a deleted instance returns nil

ASSUME StoreAssumption ==
  /\ None \notin UID \cup Sandbox \cup Instance
  /\ Orphan \notin Sandbox \cup {None}
  /\ PodName \in [UID -> Name]
  /\ PodNode \in [UID -> Node]
  /\ PodOf \in [Sandbox -> UID]
  /\ MaxTime \in Nat
  /\ {ReuseIDs, DeleteMayFail, DeleteEmptyOK, DeleteMissingOK} \subseteq BOOLEAN

VARIABLES
  pods,       \* pods[u]: "absent", "exists" or "deleted"
  phase,      \* phase[s]: where the PeerPod of s is in its life
  owner,      \* owner[s]: the UID in its owner reference
  ppInstance, \* ppInstance[s]: its Spec.InstanceID
  created,    \* created[s]: its creationTimestamp
  now,        \* the API server's clock; timestamps have whole seconds
  vms,        \* vms[i]: whose VM runs under ID i (None: no VM)
  handedOut   \* instance IDs the provider has used

storeVars == <<pods, phase, owner, ppInstance, created, now, vms, handedOut>>
ppVars == <<phase, owner, ppInstance, created>>

(* "held": finalizer set; "terminating": the same with a deletionTimestamp;
   "released": finalizer removed, waiting for its owner; "gone": removed. *)
Phase == {"none", "held", "released", "terminating", "gone"}

StoreTypeOK ==
  /\ pods \in [UID -> {"absent", "exists", "deleted"}]
  /\ phase \in [Sandbox -> Phase]
  /\ owner \in [Sandbox -> UID \cup {None}]
  /\ ppInstance \in [Sandbox -> Instance \cup {None}]
  /\ created \in [Sandbox -> 0..MaxTime]
  /\ now \in 0..MaxTime
  /\ vms \in [Instance -> Sandbox \cup {Orphan, None}]
  /\ handedOut \in SUBSET Instance

StoreInit ==
  /\ pods = [u \in UID |-> "absent"]
  /\ phase = [s \in Sandbox |-> "none"]
  /\ owner = [s \in Sandbox |-> None]
  /\ ppInstance = [s \in Sandbox |-> None]
  /\ created = [s \in Sandbox |-> 0]
  /\ now = 0
  /\ vms = [i \in Instance |-> None]
  /\ handedOut = {}

VMLive(s) == \E i \in Instance : vms[i] = s

----------------------------------------------------------------------------
(* The API server and the garbage collector *)

\* What a GET of a Pod by name returns.
PodsNamed(name) == {u \in UID : PodName[u] = name /\ pods[u] = "exists"}

PodCreated(u) ==
  /\ pods[u] = "absent"
  /\ PodsNamed(PodName[u]) = {}
  /\ pods' = [pods EXCEPT ![u] = "exists"]
  /\ UNCHANGED <<ppVars, now, vms, handedOut>>

\* With a grace period of zero the object may go before its sandbox is stopped.
PodDeleted(u) ==
  /\ pods[u] = "exists"
  /\ pods' = [pods EXCEPT ![u] = "deleted"]
  /\ UNCHANGED <<ppVars, now, vms, handedOut>>

ClockTick ==
  /\ now < MaxTime
  /\ now' = now + 1
  /\ UNCHANGED <<pods, ppVars, vms, handedOut>>

\* A DELETE request: the finalizer turns it into a deletionTimestamp.
AfterDelete(p) == IF p = "held" THEN "terminating"
                  ELSE IF p = "released" THEN "gone" ELSE p

\* A PATCH or PUT that leaves no finalizer.
AfterFinalizerRemoved(p) == IF p = "held" THEN "released"
                            ELSE IF p = "terminating" THEN "gone" ELSE p

\* Background deletion of a PeerPod whose owner Pod no longer exists.
GarbageCollect(s) ==
  /\ phase[s] \in {"held", "released"}
  /\ pods[owner[s]] # "exists"
  /\ phase' = [phase EXCEPT ![s] = AfterDelete(@)]
  /\ UNCHANGED <<pods, owner, ppInstance, created, now, vms, handedOut>>

----------------------------------------------------------------------------
(* The cloud provider, as the calls of StartVM, StopVM and Reconcile see it *)

FreshIDs == {i \in Instance : vms[i] = None /\ (ReuseIDs \/ i \notin handedOut)}

\* An instance runs under ID i and belongs to h.
Launch(i, h) ==
  /\ i \in FreshIDs
  /\ vms' = [vms EXCEPT ![i] = h]
  /\ handedOut' = handedOut \cup {i}

DeleteInstanceOK(i) ==
  IF i = None
  THEN DeleteEmptyOK /\ UNCHANGED vms
  ELSE /\ vms[i] # None \/ DeleteMissingOK
       /\ vms' = [vms EXCEPT ![i] = None]

\* An error is no proof that the instance still runs: the call may have timed
\* out after the provider accepted it.
DeleteInstanceFails(i) ==
  IF i = None
  THEN ~DeleteEmptyOK /\ UNCHANGED vms
  ELSE \/ /\ DeleteMayFail
          /\ vms' \in {vms, [vms EXCEPT ![i] = None]}
       \/ /\ vms[i] = None
          /\ ~DeleteMissingOK
          /\ UNCHANGED vms
=============================================================================
