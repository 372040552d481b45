------------------------------ MODULE PeerPods ------------------------------
(***************************************************************************)
(* The life of a pod VM: the cloud-api-adaptors and the PeerPod controller, *)
(* composed over the API server and the cloud provider they share.          *)
(***************************************************************************)
EXTENDS CloudService, PeerPodController

vars == <<storeVars, caaVars, ctrlVars>>

Init == StoreInit /\ CAAInit /\ CtrlInit

Next ==
  \/ \E s \in Sandbox : CAAStep(s) /\ UNCHANGED ctrlVars
  \/ \E n \in Node : Crash(n) /\ UNCHANGED ctrlVars
  \/ \E s \in Sandbox : CtrlStep(s) /\ UNCHANGED caaVars
  \/ CtrlAbort /\ UNCHANGED caaVars
  \/ \E u \in UID : (PodCreated(u) \/ PodDeleted(u)) /\ UNCHANGED <<caaVars, ctrlVars>>
  \/ \E s \in Sandbox : GarbageCollect(s) /\ UNCHANGED <<caaVars, ctrlVars>>
  \/ ClockTick /\ UNCHANGED <<caaVars, ctrlVars>>

Spec == Init /\ [][Next]_vars

(***************************************************************************)
(* Fairness: the garbage collector, the watch and the controller's worker   *)
(* run; the work queue serves every PeerPod; a call that controller-runtime *)
(* retries for ever (a Delete, a DeleteInstance) succeeds at last.  Nothing *)
(* is assumed of the runtime or of CAA.                                     *)
(***************************************************************************)
Progress ==
  /\ WF_vars(\E s \in Sandbox : GarbageCollect(s) /\ UNCHANGED <<caaVars, ctrlVars>>)
  /\ WF_vars(\E s \in Sandbox : CacheSync(s) /\ UNCHANGED caaVars)
  /\ WF_vars(CtrlReturns /\ UNCHANGED caaVars)

LiveServed(s) == SF_vars(ReconcileLive(s, OldPeerPods(s)) /\ UNCHANGED caaVars)

DeletingServed(s) == /\ SF_vars(ReconcileDeleting(s) /\ UNCHANGED caaVars)
                     /\ SF_vars(CtrlDeleteOK(s) /\ UNCHANGED caaVars)

Fairness == Progress /\ \A s \in Sandbox : LiveServed(s) /\ DeletingServed(s)

FairSpec == Spec /\ Fairness

----------------------------------------------------------------------------
(* Properties *)

\* Every variable keeps its type.
TypeOK == StoreTypeOK /\ CAATypeOK /\ CtrlTypeOK

\* A PeerPod that lost its finalizer has no VM left: StopVM and Reconcile remove
\* the finalizer after the instance is deleted, and of the right PeerPod.
ReleasedHasNoVM ==
  \A s \in Sandbox : phase[s] \in {"released", "gone"} => ~VMLive(s)

\* The node runs the sandbox for an existing Pod and has not begun to stop it.
Serving(s) ==
  /\ s \in sandboxes
  /\ startPC[s] = "running"
  /\ stopPC[s] = "idle"
  /\ pods[PodOf[s]] = "exists"

\* The controller deletes dangling instances only: no step of its worker takes
\* the VM away from a sandbox that is being served.
OnlyDanglingDeleted ==
  [][\A s \in Sandbox : ctrlPC = "delete" /\ ctrlPC' = "update" /\ VMLive(s) /\ Serving(s)
                          => VMLive(s)']_vars

\* Once the Pod that owns a PeerPod is gone, the VM of the PeerPod goes as well,
\* whatever happened to CAA: garbage collection, then Reconcile.
DanglingCollected ==
  \A s \in Sandbox :
    (phase[s] = "held" /\ pods[owner[s]] = "deleted") ~> ~VMLive(s)

\* A PeerPod left behind by a crashed CAA does not wait for its Pod to be deleted:
\* once the Pod owns a PeerPod of a later second, Reconcile deletes the older one
\* and its VM.
OldPeerPodCollected ==
  \A old \in Sandbox :
    (/\ phase[old] = "held"
     /\ \E s \in Sandbox : phase[s] = "held" /\ isOldPeerPod(old, s)) ~> ~VMLive(old)

----------------------------------------------------------------------------
(***************************************************************************)
(* The inductive invariant behind ReleasedHasNoVM and OnlyDanglingDeleted   *)
(***************************************************************************)

\* No two Pods have the same name, so that a GET by name finds the Pod meant.
UniqueNames == \A u, v \in UID : PodName[u] = PodName[v] => u = v

\* The podToPP map of a sandbox's node holds its PeerPod.
Mapped(s) == podToPP[NodeOf(s)][PodOf[s]] = s

\* The program counters of a sandbox agree with the sandbox table.
Lifecycle ==
  \A s \in Sandbox :
    /\ startPC[s] = "new" => s \notin sandboxes /\ stopPC[s] = "idle"
    /\ startPC[s] # "new" => /\ s \in sandboxes \/ stopPC[s] \in {"done", "dead"}
                             /\ pods[PodOf[s]] # "absent"
    /\ s \in sandboxes => startPC[s] # "dead" /\ stopPC[s] \notin {"done", "dead"}
    /\ stopPC[s] \in StopSteps => s \in sandboxes

\* What the local variables of the handlers hold, and whose VM runs where.
Locals ==
  \A s \in Sandbox :
    /\ startPC[s] \in {"new", "idle", "create"} => instance[s] = None
    /\ startPC[s] \in {"getPod", "post", "map", "set", "setup", "proxy", "running"}
         => instance[s] # None
    /\ startPC[s] \in {"post", "map"} => ownUID[s] = PodOf[s]
    /\ stopPC[s] = "patch" => relUID[s] = PodOf[s]
    /\ instanceID[s] \in {None, instance[s]}
    /\ \A i \in Instance : vms[i] = s => instance[s] = i

\* PeerPods describe the instance they were made for; podToPP holds PeerPods of
\* the node's Pods; StopVM of a mapped sandbox knows its instance.
Bookkeeping ==
  \A s \in Sandbox :
    /\ phase[s] # "none" => /\ ppInstance[s] = instance[s]
                            /\ instance[s] # None
                            /\ owner[s] = PodOf[s]
    /\ startPC[s] \in {"new", "idle", "create", "getPod", "post"} => phase[s] = "none"
    /\ startPC[s] = "map" => phase[s] # "none"
    /\ \A n \in Node, u \in UID : podToPP[n][u] = s =>
         /\ n = NodeOf(s) /\ u = PodOf[s]
         /\ phase[s] # "none"
         /\ startPC[s] \in {"set", "setup", "proxy", "running", "failed"}
    /\ Mapped(s) /\ s \in sandboxes /\ startPC[s] # "set" => instanceID[s] = instance[s]

\* What the runtime's discipline gives: StopVM after StartVM, one sandbox a Pod.
Serial ==
  ~Overlap => \A s \in Sandbox :
    /\ stopPC[s] # "idle" => startPC[s] \notin StartSteps
    /\ \A t \in Sandbox : s # t /\ PodOf[s] = PodOf[t] /\ s \in sandboxes
                            => t \notin sandboxes

\* The controller works on PeerPods that were deleted with their finalizer.
CtrlInv ==
  /\ \A s \in Sandbox :
       /\ cache[s] # "none" => phase[s] # "none"
       /\ cache[s] = "terminating" => phase[s] \in {"terminating", "gone"}
       /\ cache[s] = "gone" => phase[s] = "gone"
  /\ ctrlPC # "idle" => ctrlPP \in Sandbox /\ phase[ctrlPP] \in {"terminating", "gone"}
  /\ ctrlPC = "update" => ~VMLive(ctrlPP)

BaseInv == TypeOK /\ Lifecycle /\ Locals /\ Bookkeeping /\ Serial /\ CtrlInv

(***************************************************************************)
(* When ReleasedHasNoVM holds: names are unique and either requests do not  *)
(* overlap and a stale podToPP entry cannot both be left behind (a failed   *)
(* DeleteInstance) and be found (a failed OwnPeerPod, or a StopVM without   *)
(* an instance that deletes "" with success), or a Pod has one sandbox only *)
(* and DeleteInstance("") fails.                                            *)
(***************************************************************************)
Discipline ==
  /\ UniqueNames
  /\ \/ ~Overlap /\ ~(DeleteMayFail /\ (OwnMayFail \/ DeleteEmptyOK))
     \/ ~DeleteEmptyOK /\ \A s, t \in Sandbox : PodOf[s] = PodOf[t] => s = t

\* A sandbox whose OwnPeerPod is over is mapped, unless its Pod is gone.
OwnedIsMapped ==
  ~Overlap /\ ~OwnMayFail => \A s \in Sandbox :
    /\ s \in sandboxes
    /\ stopPC[s] \in {"idle", "delete"}
    /\ startPC[s] \in {"set", "setup", "proxy", "running", "failed"}
    /\ instance[s] # None
    /\ pods[PodOf[s]] = "exists"
    => Mapped(s)

\* A map entry that outlives its StopVM is of a deleted instance.
StaleEntryIsDead ==
  ~Overlap /\ ~DeleteMayFail => \A s \in Sandbox :
    Mapped(s) /\ stopPC[s] \notin {"idle", "delete"} => ~VMLive(s)

\* ReleasePeerPod runs after DeleteInstance has deleted the sandbox's instance...
DeletedBeforeRelease ==
  ~DeleteEmptyOK => \A s \in Sandbox :
    stopPC[s] \in {"getPod", "patch"} => instanceID[s] # None /\ ~VMLive(s)

\* ... and what it will find in the map is a PeerPod without a VM.
ReleaseIsSafe ==
  \A t \in Sandbox :
    \/ stopPC[t] = "patch"
    \/ stopPC[t] = "getPod" /\ pods[PodOf[t]] = "exists"
    => \A s \in Sandbox : podToPP[NodeOf(t)][PodOf[t]] = s => ~VMLive(s)

ReleaseInv ==
  /\ BaseInv
  /\ OwnedIsMapped /\ StaleEntryIsDead /\ DeletedBeforeRelease
  /\ ReleaseIsSafe /\ ReleasedHasNoVM

\* Instance IDs that are not reused belong to one sandbox.
InstancesDiffer ==
  /\ \A i \in Instance : vms[i] # None => i \in handedOut
  /\ \A s \in Sandbox : instance[s] # None => instance[s] \in handedOut
  /\ \A s, t \in Sandbox : instance[s] = instance[t] /\ instance[s] # None => s = t

\* An old PeerPod belongs to a sandbox that its node has given up.
OldIsInactive ==
  /\ \A s \in Sandbox : created[s] <= now
  /\ \A s, old \in Sandbox :
       /\ s # old /\ PodOf[s] = PodOf[old]
       /\ phase[s] # "none" /\ phase[old] # "none"
       /\ created[old] < created[s]
       => old \notin sandboxes

\* A PeerPod without finalizer or about to go is not of a sandbox in service.
NotInService ==
  \A s \in Sandbox : phase[s] \in {"released", "terminating", "gone"} =>
    ~(s \in sandboxes /\ stopPC[s] = "idle" /\ pods[PodOf[s]] = "exists")

DanglingInv == BaseInv /\ InstancesDiffer /\ OldIsInactive /\ NotInService
=============================================================================
