-------------------------- MODULE PeerPodController --------------------------
(***************************************************************************)
(* PeerPodReconciler (peerpod-ctrl/controllers/peerpod_controller.go).      *)
(* Reconcile reads PeerPods from the informer's cache, which lags behind    *)
(* the API server, and writes to the API server.  One worker reconciles one *)
(* PeerPod at a time; an error, and the periodic resync, queue it again.    *)
(***************************************************************************)
EXTENDS PeerPodStore

VARIABLES
  cache,   \* cache[s]: the phase of the PeerPod as last seen by the informer
  ctrlPC,  \* next step of the worker
  ctrlPP   \* the PeerPod it reconciles

ctrlVars == <<cache, ctrlPC, ctrlPP>>

CtrlTypeOK ==
  /\ cache \in [Sandbox -> Phase]
  /\ ctrlPC \in {"idle", "delete", "update"}
  /\ ctrlPP \in Sandbox \cup {None}

CtrlInit ==
  /\ cache = [s \in Sandbox |-> "none"]
  /\ ctrlPC = "idle"
  /\ ctrlPP = None

\* The watch delivers the latest event of a PeerPod.
CacheSync(s) ==
  /\ cache[s] # phase[s]
  /\ cache' = [cache EXCEPT ![s] = phase[s]]
  /\ UNCHANGED <<storeVars, ctrlPC, ctrlPP>>

\* Faulty variant of isOldPeerPod: two PeerPods of one second are both old.
isOldOrSamePeerPod(pp, cur) ==
  /\ owner[pp] = owner[cur]
  /\ pp # cur
  /\ created[pp] <= created[cur]

\* Faulty variant of isOldPeerPod: the timestamps are compared the wrong way.
isNewPeerPod(pp, cur) ==
  /\ owner[pp] = owner[cur]
  /\ pp # cur
  /\ created[cur] < created[pp]

\* Same owner, another object, created in an earlier second.
isOldPeerPod(pp, cur) ==
  /\ owner[pp] = owner[cur]
  /\ pp # cur
  /\ created[pp] < created[cur]

\* Faulty variant of OldPeerPods: the arguments of isOldPeerPod are swapped.
OldPeerPodsSwapped(cur) ==
  {pp \in Sandbox : cache[pp] \notin {"none", "gone"} /\ isOldPeerPod(cur, pp)}

\* The PeerPods that Reconcile of cur lists and finds old.
OldPeerPods(cur) ==
  {pp \in Sandbox : cache[pp] \notin {"none", "gone"} /\ isOldPeerPod(pp, cur)}

\* No deletionTimestamp: delete the older PeerPods of the same owner.  A Delete
\* that fails is logged and the rest go on, so any of them may be deleted.
ReconcileLive(s, deleted) ==
  /\ ctrlPC = "idle"
  /\ cache[s] \in {"held", "released"}
  /\ deleted \subseteq OldPeerPods(s)
  /\ phase' = [pp \in Sandbox |-> IF pp \in deleted THEN AfterDelete(phase[pp])
                                                    ELSE phase[pp]]
  /\ UNCHANGED <<pods, owner, ppInstance, created, now, vms, handedOut, ctrlVars>>

\* Faulty variant of ReconcileDeleting: the finalizer goes, the instance stays.
ReconcileSkipsInstance(s) ==
  /\ ctrlPC = "idle"
  /\ cache[s] = "terminating"
  /\ ctrlPC' = "update"
  /\ ctrlPP' = s
  /\ UNCHANGED <<storeVars, cache>>

\* A deletionTimestamp and the finalizer: delete the instance.
ReconcileDeleting(s) ==
  /\ ctrlPC = "idle"
  /\ cache[s] = "terminating"
  /\ ctrlPC' = "delete"
  /\ ctrlPP' = s
  /\ UNCHANGED <<storeVars, cache>>

\* provider.DeleteInstance(pp.Spec.InstanceID)
CtrlDeleteOK(s) ==
  /\ ctrlPC = "delete" /\ ctrlPP = s
  /\ DeleteInstanceOK(ppInstance[s])
  /\ ctrlPC' = "update"
  /\ UNCHANGED <<pods, ppVars, now, handedOut, cache, ctrlPP>>

CtrlDeleteFails(s) ==
  /\ ctrlPC = "delete" /\ ctrlPP = s
  /\ DeleteInstanceFails(ppInstance[s])
  /\ ctrlPC' = "idle"
  /\ ctrlPP' = None
  /\ UNCHANGED <<pods, ppVars, now, handedOut, cache>>

\* Update without the finalizer; NotFound is fine, other errors are retried.
CtrlUpdateOK(s) ==
  /\ ctrlPC = "update" /\ ctrlPP = s
  /\ phase' = [phase EXCEPT ![s] = AfterFinalizerRemoved(@)]
  /\ ctrlPC' = "idle"
  /\ ctrlPP' = None
  /\ UNCHANGED <<pods, owner, ppInstance, created, now, vms, handedOut, cache>>

\* The Update fails, or the controller restarts in the middle of a Reconcile.
CtrlAbort ==
  /\ ctrlPC # "idle"
  /\ ctrlPC' = "idle"
  /\ ctrlPP' = None
  /\ UNCHANGED <<storeVars, cache>>

\* The calls of a Reconcile return.
CtrlReturns ==
  \/ \E s \in Sandbox : CtrlDeleteOK(s) \/ CtrlDeleteFails(s) \/ CtrlUpdateOK(s)
  \/ CtrlAbort

CtrlStep(s) ==
  \/ CacheSync(s)
  \/ \E deleted \in SUBSET Sandbox : ReconcileLive(s, deleted)
  \/ ReconcileDeleting(s)
  \/ CtrlDeleteOK(s) \/ CtrlDeleteFails(s)
  \/ CtrlUpdateOK(s)
=============================================================================
