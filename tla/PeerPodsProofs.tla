--------------------------- MODULE PeerPodsProofs ---------------------------
(***************************************************************************)
(* The controller deletes only the instances of PeerPods that are no longer *)
(* in service, and a PeerPod loses its finalizer after its VM is gone: the  *)
(* steps between DeleteInstance and the PATCH of ReleasePeerPod, for any    *)
(* interleaving of the adaptors, the controller and the API server.         *)
(***************************************************************************)
EXTENDS PeerPodsBase

(* The tuples of variables are abbreviations in every proof below. *)
USE DEF storeVars, ppVars, caaVars, ctrlVars

-----------------------------------------------------------------------------
(* Where the entries of podToPP and the VMs come from.                      *)

\* A VM comes up for a sandbox only in its StartVM.
LEMMA VMStep ==
  ASSUME TypeOK, [Next]_vars
  PROVE  \A t \in Sandbox : VMLive(t)' => VMLive(t) \/ startPC[t] = "create"
<1>1. CASE UNCHANGED vms
  BY <1>1, Zenon DEF VMLive
<1>2. ASSUME NEW s \in Sandbox, CreateInstanceOK(s)
      PROVE  \A t \in Sandbox : VMLive(t)' => VMLive(t) \/ startPC[t] = "create"
  BY <1>2, CreateInstanceOKEffect DEF VMLive
<1>3. ASSUME NEW s \in Sandbox, CreateInstanceFails(s)
      PROVE  \A t \in Sandbox : VMLive(t)' => VMLive(t)
  BY <1>3, CreateInstanceFailsEffect, StoreAssumption, Zenon DEF VMLive
<1>4. ASSUME NEW n \in Node, Crash(n)
      PROVE  \A t \in Sandbox : VMLive(t)' => VMLive(t)
  BY <1>4, CrashEffect, StoreAssumption, Zenon DEF VMLive
<1>5. ASSUME \A i \in Instance : vms'[i] \in {vms[i], None}
      PROVE  \A t \in Sandbox : VMLive(t)' => VMLive(t)
  BY <1>5, StoreAssumption, Zenon DEF VMLive
<1>6. \A s \in Sandbox : StopDelete(s) \/ CtrlDeleteOK(s) \/ CtrlDeleteFails(s)
                         => \A i \in Instance : vms'[i] \in {vms[i], None}
  BY StopDeleteEffect, CtrlDeleteOKEffect, CtrlDeleteFailsEffect, Zenon
<1>7. QED
  BY <1>1, <1>2, <1>3, <1>4, <1>5, <1>6, StepCases, Zenon DEF vars

\* A DeleteInstance that succeeds, or cannot fail, leaves the sandbox without a VM.
LEMMA StopDeleteVM ==
  ASSUME TypeOK, Locals, NEW s \in Sandbox, StopDelete(s), instanceID[s] # None,
         stopPC'[s] = "getPod" \/ ~DeleteMayFail
  PROVE  ~VMLive(s)'
<1>1. vms'[instanceID[s]] = None /\ \A i \in Instance : vms'[i] \in {vms[i], None}
  BY StopDeleteEffect, Zenon
<1>2. instanceID[s] = instance[s] /\ \A i \in Instance : vms[i] = s => instance[s] = i
  BY Zenon DEF Locals
<1>3. QED
  BY <1>1, <1>2, StoreAssumption, Zenon DEF VMLive

\* OwnMap writes the entry of the sandbox's own Pod and no other.
LEMMA OwnMapMapped ==
  ASSUME BaseInv, NEW s \in Sandbox, OwnMap(s)
  PROVE  /\ podToPP'[NodeOf(s)][PodOf[s]] = s
         /\ \A t \in Sandbox : PodOf[t] # PodOf[s] =>
              podToPP'[NodeOf(t)][PodOf[t]] = podToPP[NodeOf(t)][PodOf[t]]
<1>1. ownUID[s] = PodOf[s]
  BY OwnMapEffect, Zenon DEF BaseInv, Locals
<1>2. QED
  BY <1>1, OwnMapEffect, NodeInNode DEF BaseInv

\* ReleasePatch removes the entry of the sandbox's own Pod, or nothing.
LEMMA ReleasePatchMap ==
  ASSUME BaseInv, NEW s \in Sandbox, ReleasePatch(s)
  PROVE  \A t \in Sandbox :
           /\ podToPP'[NodeOf(t)][PodOf[t]] \in {None, podToPP[NodeOf(t)][PodOf[t]]}
           /\ PodOf[t] # PodOf[s] => podToPP'[NodeOf(t)][PodOf[t]] = podToPP[NodeOf(t)][PodOf[t]]
<1>1. relUID[s] = PodOf[s]
  BY ReleasePatchEffect, Zenon DEF BaseInv, Locals
<1>2. QED
  BY <1>1, ReleasePatchEffect, NodeInNode DEF BaseInv

\* Every step keeps OwnedIsMapped.
LEMMA OwnedIsMappedStep ==
  ASSUME BaseInv, OwnedIsMapped, [Next]_vars
  PROVE  OwnedIsMapped'
<1>1. ASSUME NEW s \in Sandbox, CreateVM(s), UNCHANGED <<stopPC, instance, pods, podToPP>>
      PROVE  OwnedIsMapped'
  BY <1>1, CreateVMEffect DEF OwnedIsMapped, Mapped, BaseInv
<1>2. ASSUME NEW s \in Sandbox, StartVM(s), UNCHANGED <<sandboxes, stopPC, instance, pods,
             podToPP>>
      PROVE  OwnedIsMapped'
  BY <1>2, StartVMEffect, Zenon DEF OwnedIsMapped, Mapped, BaseInv
<1>3. ASSUME NEW s \in Sandbox, CreateInstanceOK(s), UNCHANGED <<sandboxes, stopPC, pods,
             podToPP>>
      PROVE  OwnedIsMapped'
  BY <1>3, CreateInstanceOKEffect DEF OwnedIsMapped, Mapped, BaseInv
<1>4. ASSUME NEW s \in Sandbox, CreateInstanceFails(s), UNCHANGED <<sandboxes, stopPC,
             instance, pods, podToPP>>
      PROVE  OwnedIsMapped'
  BY <1>4, CreateInstanceFailsEffect DEF OwnedIsMapped, Mapped, BaseInv, Locals
<1>5. ASSUME NEW s \in Sandbox, OwnGetPod(s), UNCHANGED <<sandboxes, stopPC, instance, pods,
             podToPP>>
      PROVE  OwnedIsMapped'
  BY <1>5, StoreAssumption, OwnGetPodEffect, Zenon DEF OwnedIsMapped, Mapped, BaseInv, PodsNamed
<1>6. ASSUME NEW s \in Sandbox, OwnPost(s), UNCHANGED <<sandboxes, stopPC, instance, pods,
             podToPP>>
      PROVE  OwnedIsMapped'
  BY <1>6, OwnPostEffect DEF OwnedIsMapped, Mapped, BaseInv
<1>7. ASSUME NEW s \in Sandbox, OwnMap(s), UNCHANGED <<sandboxes, stopPC, instance, pods>>
      PROVE  OwnedIsMapped'
  <2>1. startPC[s] = "map" /\ startPC'[s] = "set"
        /\ \A t \in Sandbox \ {s} : startPC'[t] = startPC[t]
    BY <1>7, OwnMapEffect, Zenon DEF BaseInv
  <2>2. ~Overlap => s \in sandboxes
    BY <2>1, Zenon DEF BaseInv, Lifecycle, Serial, StartSteps
  <2>3. ~Overlap => \A t \in sandboxes \ {s} : PodOf[t] # PodOf[s]
    BY <2>2, Zenon DEF BaseInv, Serial, TypeOK, CAATypeOK
  <2>4. QED
    BY <1>7, <2>1, <2>3, OwnMapMapped DEF OwnedIsMapped, Mapped
<1>8. ASSUME NEW s \in Sandbox, SetInstance(s), UNCHANGED <<sandboxes, stopPC, instance,
             pods, podToPP>>
      PROVE  OwnedIsMapped'
  BY <1>8, SetInstanceEffect, Zenon DEF OwnedIsMapped, Mapped, BaseInv
<1>9. ASSUME NEW s \in Sandbox, SetupNetwork(s), UNCHANGED <<sandboxes, stopPC, instance,
             pods, podToPP>>
      PROVE  OwnedIsMapped'
  BY <1>9, SetupNetworkEffect, Zenon DEF OwnedIsMapped, Mapped, BaseInv
<1>10. ASSUME NEW s \in Sandbox, AwaitProxy(s), UNCHANGED <<sandboxes, stopPC, instance,
             pods, podToPP>>
      PROVE  OwnedIsMapped'
  BY <1>10, AwaitProxyEffect, Zenon DEF OwnedIsMapped, Mapped, BaseInv
<1>11. ASSUME NEW s \in Sandbox, StopVM(s), UNCHANGED <<sandboxes, startPC, instance, pods,
             podToPP>>
      PROVE  OwnedIsMapped'
  BY <1>11, StopVMEffect, Zenon DEF OwnedIsMapped, Mapped, BaseInv
<1>12. ASSUME NEW s \in Sandbox, StopDelete(s), UNCHANGED <<sandboxes, startPC, instance,
             pods, podToPP>>
      PROVE  OwnedIsMapped'
  BY <1>12, StopDeleteEffect, Zenon DEF OwnedIsMapped, Mapped, BaseInv
<1>13. ASSUME NEW s \in Sandbox, ReleaseGetPod(s), UNCHANGED <<sandboxes, startPC, instance,
             pods, podToPP>>
      PROVE  OwnedIsMapped'
  BY <1>13, ReleaseGetPodEffect, Zenon DEF OwnedIsMapped, Mapped, BaseInv
<1>14. ASSUME NEW s \in Sandbox, ReleasePatch(s), UNCHANGED <<sandboxes, startPC, instance,
             pods>>
      PROVE  OwnedIsMapped'
  <2>1. /\ stopPC[s] = "patch" /\ stopPC'[s] = "teardown"
        /\ \A t \in Sandbox \ {s} : stopPC'[t] = stopPC[t]
    BY <1>14, ReleasePatchEffect, Zenon DEF BaseInv
  <2>2. s \in sandboxes
    BY <2>1, Zenon DEF BaseInv, Lifecycle, StopSteps
  <2>3. ~Overlap => \A t \in sandboxes \ {s} : PodOf[t] # PodOf[s]
    BY <2>2, Zenon DEF BaseInv, Serial, TypeOK, CAATypeOK
  <2>4. QED
    BY <1>14, <2>1, <2>3, ReleasePatchMap, Zenon DEF OwnedIsMapped, Mapped
<1>15. ASSUME NEW s \in Sandbox, StopTeardown(s), UNCHANGED <<sandboxes, startPC, instance,
             pods, podToPP>>
      PROVE  OwnedIsMapped'
  BY <1>15, StopTeardownEffect, Zenon DEF OwnedIsMapped, Mapped, BaseInv
<1>16. ASSUME NEW s \in Sandbox, RemoveSandbox(s), UNCHANGED <<startPC, instance, pods,
             podToPP>>
      PROVE  OwnedIsMapped'
  BY <1>16, RemoveSandboxEffect, Zenon DEF OwnedIsMapped, Mapped, BaseInv
<1>17. ASSUME NEW n \in Node, Crash(n), UNCHANGED <<instance, pods>>
      PROVE  OwnedIsMapped'
  BY <1>17, NodeInNode, CrashEffect DEF OwnedIsMapped, Mapped, BaseInv, Active
<1>18. ASSUME NEW u \in UID, PodCreated(u), UNCHANGED <<sandboxes, stopPC, startPC,
             instance, podToPP>>
      PROVE  OwnedIsMapped'
  BY <1>18, StoreAssumption, PodCreatedEffect DEF OwnedIsMapped, Mapped, BaseInv,
     Lifecycle
<1>19. ASSUME NEW u \in UID, PodDeleted(u), UNCHANGED <<sandboxes, stopPC, startPC,
             instance, podToPP>>
      PROVE  OwnedIsMapped'
  BY <1>19, StoreAssumption, PodDeletedEffect DEF OwnedIsMapped, Mapped, BaseInv
<1>20. CASE UNCHANGED <<sandboxes, stopPC, startPC, instance, pods, podToPP>>
  BY <1>20, Zenon DEF OwnedIsMapped, Mapped
<1>21. QED
  BY <1>1, <1>2, <1>3, <1>4, <1>5, <1>6, <1>7, <1>8, <1>9, <1>10, <1>11, <1>12, <1>13,
     <1>14, <1>15, <1>16, <1>17, <1>18, <1>19, <1>20, StepCases, Zenon DEF vars

-----------------------------------------------------------------------------
(* The controller.                                                          *)

\* Every step keeps InstancesDiffer when the provider never reuses an ID.
LEMMA InstancesDifferStep ==
  ASSUME ~ReuseIDs, BaseInv, InstancesDiffer, [Next]_vars
  PROVE  InstancesDiffer'
<1>1. ASSUME NEW s \in Sandbox, CreateInstanceOK(s)
      PROVE  InstancesDiffer'
  BY <1>1, StoreAssumption, CreateInstanceOKEffect DEF InstancesDiffer, BaseInv
<1>2. ASSUME NEW s \in Sandbox, CreateInstanceFails(s), UNCHANGED <<instance>>
      PROVE  InstancesDiffer'
  BY <1>2, StoreAssumption, CreateInstanceFailsEffect, Zenon DEF InstancesDiffer, BaseInv
<1>3. ASSUME NEW s \in Sandbox, StopDelete(s), UNCHANGED <<handedOut, instance>>
      PROVE  InstancesDiffer'
  BY <1>3, StoreAssumption, StopDeleteEffect, Zenon DEF InstancesDiffer, BaseInv
<1>4. ASSUME NEW n \in Node, Crash(n), UNCHANGED <<instance>>
      PROVE  InstancesDiffer'
  BY <1>4, StoreAssumption, CrashEffect, Zenon DEF InstancesDiffer, BaseInv
<1>5. ASSUME NEW s \in Sandbox, CtrlDeleteOK(s), UNCHANGED <<handedOut, instance>>
      PROVE  InstancesDiffer'
  BY <1>5, StoreAssumption, CtrlDeleteOKEffect, Zenon DEF InstancesDiffer, BaseInv
<1>6. ASSUME NEW s \in Sandbox, CtrlDeleteFails(s), UNCHANGED <<handedOut, instance>>
      PROVE  InstancesDiffer'
  BY <1>6, StoreAssumption, CtrlDeleteFailsEffect, Zenon DEF InstancesDiffer, BaseInv
<1>7. CASE UNCHANGED <<vms, handedOut, instance>>
  BY <1>7, Zenon DEF InstancesDiffer
<1>8. QED
  BY <1>1, <1>2, <1>3, <1>4, <1>5, <1>6, <1>7, StepCases, Zenon DEF vars

\* Every step keeps OldIsInactive when the runtime's requests do not overlap.
LEMMA OldIsInactiveStep ==
  ASSUME ~Overlap, BaseInv, OldIsInactive, [Next]_vars
  PROVE  OldIsInactive'
<1>1. ASSUME NEW s \in Sandbox, CreateVM(s), UNCHANGED <<created, now, phase>>
      PROVE  OldIsInactive'
  BY <1>1, CreateVMEffect DEF OldIsInactive, BaseInv, Bookkeeping
<1>2. ASSUME NEW s \in Sandbox, OwnPost(s), UNCHANGED <<now, sandboxes>>
      PROVE  OldIsInactive'
  <2>1. startPC[s] = "post"
    BY <1>2, OwnPostEffect, Zenon DEF BaseInv
  <2>2. \A old \in Sandbox : s # old /\ PodOf[s] = PodOf[old] => old \notin sandboxes
    BY <2>1, Zenon DEF BaseInv, Lifecycle, Serial, StartSteps
  <2>3. now \in Nat /\ \A t \in Sandbox : created[t] \in Nat
    BY DEF BaseInv, TypeOK, StoreTypeOK
  <2>4. \/ UNCHANGED <<phase, created>>
        \/ \A t \in Sandbox : created'[t] = (IF t = s THEN now ELSE created[t])
                              /\ (t # s => phase'[t] = phase[t])
    BY <1>2, OwnPostEffect DEF BaseInv
  <2>5. QED
    BY <1>2, <2>2, <2>3, <2>4 DEF OldIsInactive
<1>3. ASSUME NEW s \in Sandbox, ReleasePatch(s), UNCHANGED <<created, now, sandboxes>>
      PROVE  OldIsInactive'
  <2>1. \A t \in Sandbox : phase[t] = "none" => phase'[t] = "none"
    BY <1>3, ReleasePatchEffect, Zenon DEF BaseInv, AfterFinalizerRemoved
  <2>2. QED
    BY <1>3, <2>1, Zenon DEF OldIsInactive
<1>4. ASSUME NEW s \in Sandbox, RemoveSandbox(s), UNCHANGED <<created, now, phase>>
      PROVE  OldIsInactive'
  BY <1>4, RemoveSandboxEffect, Zenon DEF OldIsInactive, BaseInv
<1>5. ASSUME NEW n \in Node, Crash(n), UNCHANGED <<created, now, phase>>
      PROVE  OldIsInactive'
  BY <1>5, CrashEffect, Zenon DEF OldIsInactive, BaseInv
<1>6. ASSUME NEW s \in Sandbox, NEW deleted \in SUBSET Sandbox, ReconcileLive(s, deleted),
             UNCHANGED <<created, now, sandboxes>>
      PROVE  OldIsInactive'
  <2>1. \A t \in Sandbox : phase[t] = "none" => phase'[t] = "none"
    BY <1>6, ReconcileLiveEffect, Zenon DEF BaseInv, AfterDelete
  <2>2. QED
    BY <1>6, <2>1, Zenon DEF OldIsInactive
<1>7. ASSUME NEW s \in Sandbox, CtrlUpdateOK(s), UNCHANGED <<created, now, sandboxes>>
      PROVE  OldIsInactive'
  <2>1. \A t \in Sandbox : phase[t] = "none" => phase'[t] = "none"
    BY <1>7, CtrlUpdateOKEffect, Zenon DEF BaseInv, AfterFinalizerRemoved, CtrlInv
  <2>2. QED
    BY <1>7, <2>1, Zenon DEF OldIsInactive
<1>8. ASSUME NEW s \in Sandbox, GarbageCollect(s), UNCHANGED <<created, now, sandboxes>>
      PROVE  OldIsInactive'
  <2>1. \A t \in Sandbox : phase[t] = "none" => phase'[t] = "none"
    BY <1>8, GarbageCollectEffect, Zenon DEF BaseInv, AfterDelete
  <2>2. QED
    BY <1>8, <2>1, Zenon DEF OldIsInactive
<1>9. ASSUME ClockTick, UNCHANGED <<created, phase, sandboxes>>
      PROVE  OldIsInactive'
  <2>1. now' = now + 1 /\ now \in Nat /\ \A t \in Sandbox : created[t] \in Nat
    BY <1>9, ClockTickEffect DEF BaseInv, TypeOK, StoreTypeOK
  <2>2. QED
    BY <1>9, <2>1 DEF OldIsInactive
<1>10. CASE UNCHANGED <<created, now, phase, sandboxes>>
  BY <1>10, Zenon DEF OldIsInactive
<1>11. QED
  BY <1>1, <1>2, <1>3, <1>4, <1>5, <1>6, <1>7, <1>8, <1>9, <1>10, StepCases, Zenon DEF
     vars

\* Every step keeps NotInService when the runtime's requests do not overlap.
LEMMA NotInServiceStep ==
  ASSUME ~Overlap, BaseInv, OldIsInactive, NotInService, [Next]_vars
  PROVE  NotInService'
<1>1. ASSUME NEW s \in Sandbox, CreateVM(s), UNCHANGED <<phase, stopPC, pods>>
      PROVE  NotInService'
  BY <1>1, CreateVMEffect DEF NotInService, BaseInv, Bookkeeping
<1>2. ASSUME NEW s \in Sandbox, OwnPost(s), UNCHANGED <<stopPC, sandboxes, pods>>
      PROVE  NotInService'
  BY <1>2, OwnPostEffect DEF NotInService, BaseInv, Bookkeeping
<1>3. ASSUME NEW s \in Sandbox, StopVM(s), UNCHANGED <<phase, sandboxes, pods>>
      PROVE  NotInService'
  BY <1>3, StopVMEffect, Zenon DEF NotInService, BaseInv
<1>4. ASSUME NEW s \in Sandbox, StopDelete(s), UNCHANGED <<phase, sandboxes, pods>>
      PROVE  NotInService'
  BY <1>4, StopDeleteEffect, Zenon DEF NotInService, BaseInv
<1>5. ASSUME NEW s \in Sandbox, ReleaseGetPod(s), UNCHANGED <<phase, sandboxes, pods>>
      PROVE  NotInService'
  BY <1>5, ReleaseGetPodEffect DEF NotInService, BaseInv
<1>6. ASSUME NEW s \in Sandbox, ReleasePatch(s), UNCHANGED <<sandboxes, pods>>
      PROVE  NotInService'
  <2>1. /\ stopPC[s] = "patch" /\ stopPC'[s] = "teardown" /\ relUID[s] = PodOf[s]
        /\ \A t \in Sandbox \ {s} : stopPC'[t] = stopPC[t]
    BY <1>6, ReleasePatchEffect, Zenon DEF BaseInv, Locals
  <2>2. \A t \in Sandbox : phase'[t] # phase[t] => podToPP[NodeOf(s)][PodOf[s]] = t
    BY <1>6, <2>1, ReleasePatchEffect DEF BaseInv
  <2>3. \A t \in Sandbox : phase'[t] # phase[t] => PodOf[t] = PodOf[s]
    BY <2>2, NodeInNode DEF BaseInv, Bookkeeping
  <2>4. s \in sandboxes
    BY <2>1, Zenon DEF BaseInv, Lifecycle, StopSteps
  <2>5. \A t \in Sandbox : phase'[t] # phase[t] => t = s \/ t \notin sandboxes
    BY <2>3, <2>4, Zenon DEF BaseInv, Serial
  <2>6. QED
    BY <1>6, <2>1, <2>5, Zenon DEF NotInService
<1>7. ASSUME NEW s \in Sandbox, StopTeardown(s), UNCHANGED <<phase, sandboxes, pods>>
      PROVE  NotInService'
  BY <1>7, StopTeardownEffect, Zenon DEF NotInService, BaseInv
<1>8. ASSUME NEW s \in Sandbox, RemoveSandbox(s), UNCHANGED <<phase, pods>>
      PROVE  NotInService'
  BY <1>8, RemoveSandboxEffect DEF NotInService, BaseInv
<1>9. ASSUME NEW n \in Node, Crash(n), UNCHANGED <<phase, pods>>
      PROVE  NotInService'
  BY <1>9, CrashEffect, Zenon DEF NotInService, BaseInv
<1>10. ASSUME NEW s \in Sandbox, NEW deleted \in SUBSET Sandbox, ReconcileLive(s, deleted),
             UNCHANGED <<stopPC, sandboxes, pods>>
      PROVE  NotInService'
  <2>1. \A t \in Sandbox : phase'[t] # phase[t] => t \in OldPeerPods(s)
    BY <1>10, ReconcileLiveEffect, Zenon
  <2>2. phase[s] # "none"
    BY <1>10, ReconcileLiveEffect, Zenon DEF BaseInv, CtrlInv
  <2>3. \A t \in OldPeerPods(s) : t \in Sandbox /\ phase[t] # "none" /\ isOldPeerPod(t, s)
    BY Zenon DEF OldPeerPods, BaseInv, CtrlInv
  <2>4. \A t \in OldPeerPods(s) : PodOf[t] = PodOf[s]
    BY <2>2, <2>3, Zenon DEF isOldPeerPod, BaseInv, Bookkeeping
  <2>5. \A t \in OldPeerPods(s) : t \notin sandboxes
    BY <2>2, <2>3, <2>4, Zenon DEF isOldPeerPod, OldIsInactive
  <2>6. QED
    BY <1>10, <2>1, <2>5, Zenon DEF NotInService
<1>11. ASSUME NEW s \in Sandbox, CtrlUpdateOK(s), UNCHANGED <<stopPC, sandboxes, pods>>
      PROVE  NotInService'
  BY <1>11, CtrlUpdateOKEffect DEF NotInService, BaseInv, CtrlInv
<1>12. ASSUME NEW u \in UID, PodCreated(u), UNCHANGED <<phase, stopPC, sandboxes>>
      PROVE  NotInService'
  <2>1. \A t \in Sandbox : PodOf[t] = u => t \notin sandboxes
    BY <1>12, PodCreatedEffect, Zenon DEF BaseInv, Lifecycle
  <2>2. \A t \in Sandbox : PodOf[t] # u => pods'[PodOf[t]] = pods[PodOf[t]]
    BY <1>12, PodCreatedEffect, StoreAssumption, Zenon DEF BaseInv
  <2>3. QED
    BY <1>12, <2>1, <2>2, Zenon DEF NotInService
<1>13. ASSUME NEW u \in UID, PodDeleted(u), UNCHANGED <<phase, stopPC, sandboxes>>
      PROVE  NotInService'
  <2>1. \A t \in Sandbox : pods'[PodOf[t]] = "exists" => pods[PodOf[t]] = "exists"
    BY <1>13, PodDeletedEffect, StoreAssumption, Zenon DEF BaseInv
  <2>2. QED
    BY <1>13, <2>1, Zenon DEF NotInService
<1>14. ASSUME NEW s \in Sandbox, GarbageCollect(s), UNCHANGED <<stopPC, sandboxes, pods>>
      PROVE  NotInService'
  <2>1. pods[PodOf[s]] # "exists" /\ \A t \in Sandbox \ {s} : phase'[t] = phase[t]
    BY <1>14, GarbageCollectEffect, Zenon DEF BaseInv, Bookkeeping
  <2>2. QED
    BY <1>14, <2>1, Zenon DEF NotInService
<1>15. CASE UNCHANGED <<phase, stopPC, sandboxes, pods>>
  BY <1>15, Zenon DEF NotInService
<1>16. QED
  BY <1>1, <1>2, <1>3, <1>4, <1>5, <1>6, <1>7, <1>8, <1>9, <1>10, <1>11, <1>12, <1>13,
     <1>14, <1>15, StepCases, Zenon DEF vars

\* The controller's DeleteInstance of a PeerPod touches its instance only.
LEMMA CtrlDeleteOKKeeps ==
  ASSUME TypeOK, NEW c \in Sandbox, CtrlDeleteOK(c), ppInstance[c] # None,
         NEW i \in Instance, i # ppInstance[c]
  PROVE  vms'[i] = vms[i]
  BY Zenon DEF CtrlDeleteOK, DeleteInstanceOK, TypeOK, StoreTypeOK

\* DanglingInv, the invariant behind OnlyDanglingDeleted, holds in every
\* behaviour in which requests do not overlap and instance IDs are not reused.
THEOREM DanglingInvariant ==
  ASSUME UniqueNames, ~Overlap, ~ReuseIDs
  PROVE  Spec => []DanglingInv
<1>1. Init => DanglingInv
  <2>1. ASSUME Init PROVE BaseInv /\ InstancesDiffer /\ OldIsInactive /\ NotInService
    BY <2>1, BaseInit, StoreAssumption
    DEF Init, StoreInit, CAAInit, InstancesDiffer, OldIsInactive, NotInService
  <2>2. QED
    BY <2>1, Zenon DEF DanglingInv
<1>2. DanglingInv /\ [Next]_vars => DanglingInv'
  BY BaseStep, InstancesDifferStep, OldIsInactiveStep, NotInServiceStep, Zenon DEF DanglingInv
<1>3. QED
  BY <1>1, <1>2, PTL DEF Spec

\* The controller never takes the VM of a sandbox in service, for any number of
\* Pods, nodes, sandboxes and crashes, provided that names are unique, requests do
\* not overlap and the provider does not hand an instance ID out twice.
THEOREM ControllerSparesServing ==
  ASSUME UniqueNames, ~Overlap, ~ReuseIDs
  PROVE  Spec => OnlyDanglingDeleted
<1>1. ASSUME DanglingInv, [Next]_vars, NEW s \in Sandbox,
             ctrlPC = "delete", ctrlPC' = "update", VMLive(s), Serving(s)
      PROVE  VMLive(s)'
  <2>1. \E c \in Sandbox : CtrlDeleteOK(c)
    <3>1. ctrlPC' # ctrlPC /\ TypeOK
      BY <1>1, Zenon DEF DanglingInv, BaseInv
    <3>2. \A c \in Sandbox : ~CtrlDeleteFails(c) /\ ~CtrlUpdateOK(c) /\ ~ReconcileDeleting(c)
      BY <1>1, <3>1, CtrlDeleteFailsEffect, CtrlUpdateOKEffect, ReconcileDeletingEffect, Zenon
    <3>3. ~CtrlAbort /\ \A c \in Sandbox, d \in SUBSET Sandbox : ~ReconcileLive(c, d)
      BY <1>1, Zenon DEF CtrlAbort, ReconcileLive
    <3>4. QED
      BY <1>1, <3>1, <3>2, <3>3, StepCases, Zenon DEF vars
  <2>2. PICK c \in Sandbox : CtrlDeleteOK(c)
    BY <2>1, Zenon
  <2>3. PICK i \in Instance : vms[i] = s
    BY <1>1, Zenon DEF VMLive
  <2>4. phase[c] \in {"terminating", "gone"}
    BY <1>1, <2>2, CtrlDeleteOKEffect, Zenon DEF DanglingInv, BaseInv, CtrlInv
  <2>5. c # s
    BY <1>1, <2>4, Zenon DEF Serving, DanglingInv, NotInService
  <2>6. instance[s] = i
    BY <1>1, <2>3, Zenon DEF DanglingInv, BaseInv, Locals
  <2>7. ppInstance[c] = instance[c] /\ instance[c] # None
    BY <1>1, <2>4, Zenon DEF DanglingInv, BaseInv, Bookkeeping
  <2>8. ppInstance[c] # i
    BY <1>1, <2>5, <2>6, <2>7, Zenon DEF DanglingInv, InstancesDiffer
  <2>9. vms'[i] = s
    BY <1>1, <2>2, <2>3, <2>7, <2>8, CtrlDeleteOKKeeps, Zenon DEF DanglingInv, BaseInv
  <2>10. QED
    BY <2>9, Zenon DEF VMLive
<1>2. DanglingInv /\ [Next]_vars =>
        [\A s \in Sandbox : ctrlPC = "delete" /\ ctrlPC' = "update" /\ VMLive(s) /\ Serving(s)
                              => VMLive(s)']_vars
  BY <1>1, Zenon
<1>3. QED
  BY <1>2, DanglingInvariant, PTL DEF Spec, OnlyDanglingDeleted

-----------------------------------------------------------------------------
(* The finalizer.                                                           *)

\* Every step keeps StaleEntryIsDead.
LEMMA StaleEntryIsDeadStep ==
  ASSUME BaseInv, StaleEntryIsDead, [Next]_vars
  PROVE  StaleEntryIsDead'
<1>1. \A t \in Sandbox : VMLive(t)' => VMLive(t) \/ startPC[t] = "create"
  BY VMStep, Zenon DEF BaseInv
<1>2. \A t \in Sandbox : Mapped(t) => startPC[t] # "create"
  BY NodeInNode DEF BaseInv, Bookkeeping, Mapped
<1>3. ASSUME NEW s \in Sandbox, OwnMap(s), UNCHANGED <<stopPC>>
      PROVE  StaleEntryIsDead'
  <2>1. startPC[s] = "map"
    BY <1>3, OwnMapEffect, Zenon DEF BaseInv
  <2>2. ~Overlap => stopPC[s] = "idle"
    BY <2>1, Zenon DEF BaseInv, Serial, StartSteps
  <2>3. \A t \in Sandbox \ {s} : Mapped(t)' => Mapped(t)
    BY <1>3, OwnMapMapped, Zenon DEF Mapped, NodeOf
  <2>4. QED
    BY <1>3, <1>1, <1>2, <2>2, <2>3, Zenon DEF StaleEntryIsDead
<1>4. ASSUME NEW s \in Sandbox, StopVM(s), UNCHANGED <<podToPP>>
      PROVE  StaleEntryIsDead'
  BY <1>4, <1>1, <1>2, StopVMEffect, Zenon DEF StaleEntryIsDead, BaseInv, Mapped
<1>5. ASSUME NEW s \in Sandbox, StopDelete(s), UNCHANGED <<podToPP>>
      PROVE  StaleEntryIsDead'
  <2>1. stopPC[s] = "delete" /\ \A t \in Sandbox \ {s} : stopPC'[t] = stopPC[t]
    BY <1>5, StopDeleteEffect, Zenon DEF BaseInv
  <2>2. s \in sandboxes /\ (~Overlap => startPC[s] # "set")
    BY <2>1, Zenon DEF BaseInv, Lifecycle, Serial, StartSteps, StopSteps
  <2>3. Mapped(s) => phase[s] # "none"
    BY NodeInNode DEF BaseInv, Bookkeeping, Mapped
  <2>4. ~Overlap /\ Mapped(s) => instanceID[s] # None
    BY <2>2, <2>3, Zenon DEF BaseInv, Bookkeeping
  <2>5. ~Overlap /\ ~DeleteMayFail /\ Mapped(s) => ~VMLive(s)'
    BY <1>5, <2>4, StopDeleteVM, Zenon DEF BaseInv
  <2>6. QED
    BY <1>5, <1>1, <1>2, <2>1, <2>5, Zenon DEF StaleEntryIsDead, Mapped
<1>6. ASSUME NEW s \in Sandbox, ReleaseGetPod(s), UNCHANGED <<podToPP>>
      PROVE  StaleEntryIsDead'
  BY <1>6, <1>1, <1>2, ReleaseGetPodEffect, Zenon DEF StaleEntryIsDead, BaseInv, Mapped
<1>7. ASSUME NEW s \in Sandbox, ReleasePatch(s)
      PROVE  StaleEntryIsDead'
  <2>1. \A t \in Sandbox : Mapped(t)' => Mapped(t)
    BY <1>7, ReleasePatchMap, StoreAssumption DEF Mapped
  <2>2. /\ stopPC[s] = "patch" /\ \A t \in Sandbox \ {s} : stopPC'[t] = stopPC[t]
    BY <1>7, ReleasePatchEffect, Zenon DEF BaseInv
  <2>3. QED
    BY <1>1, <1>2, <2>1, <2>2, Zenon DEF StaleEntryIsDead
<1>8. ASSUME NEW s \in Sandbox, StopTeardown(s), UNCHANGED <<podToPP>>
      PROVE  StaleEntryIsDead'
  BY <1>8, <1>1, <1>2, StopTeardownEffect, Zenon DEF StaleEntryIsDead, BaseInv, Mapped
<1>9. ASSUME NEW s \in Sandbox, RemoveSandbox(s), UNCHANGED <<podToPP>>
      PROVE  StaleEntryIsDead'
  BY <1>9, <1>1, <1>2, RemoveSandboxEffect, Zenon DEF StaleEntryIsDead, BaseInv, Mapped
<1>10. ASSUME NEW n \in Node, Crash(n)
      PROVE  StaleEntryIsDead'
  <2>1. \A t \in Sandbox : Mapped(t)' => Mapped(t) /\ NodeOf(t) # n
    BY <1>10, CrashEffect, NodeInNode, StoreAssumption DEF BaseInv, Mapped
  <2>2. \A t \in Sandbox : NodeOf(t) # n => stopPC'[t] = stopPC[t]
    BY <1>10, CrashEffect, Zenon DEF BaseInv
  <2>3. QED
    BY <1>1, <1>2, <2>1, <2>2, Zenon DEF StaleEntryIsDead
<1>11. CASE UNCHANGED <<podToPP, stopPC>>
  BY <1>11, <1>1, <1>2, Zenon DEF StaleEntryIsDead, Mapped
<1>12. QED
  BY <1>3, <1>4, <1>5, <1>6, <1>7, <1>8, <1>9, <1>10, <1>11, StepCases, Zenon DEF vars

\* Every step keeps DeletedBeforeRelease.
LEMMA DeletedBeforeReleaseStep ==
  ASSUME BaseInv, DeletedBeforeRelease, [Next]_vars
  PROVE  DeletedBeforeRelease'
<1>1. \A t \in Sandbox : VMLive(t)' => VMLive(t) \/ startPC[t] = "create"
  BY VMStep, Zenon DEF BaseInv
<1>2. \A t \in Sandbox : instanceID[t] # None => startPC[t] # "create"
  BY DEF BaseInv, Locals
<1>3. ASSUME NEW s \in Sandbox, SetInstance(s), UNCHANGED <<stopPC>>
      PROVE  DeletedBeforeRelease'
  <2>1. startPC[s] = "set" /\ instance[s] # None
    BY <1>3, SetInstanceEffect, Zenon DEF BaseInv, Locals
  <2>2. QED
    BY <1>3, <1>1, <2>1, SetInstanceEffect, <1>2, Zenon DEF BaseInv, DeletedBeforeRelease
<1>4. ASSUME NEW s \in Sandbox, StopVM(s), UNCHANGED <<instanceID>>
      PROVE  DeletedBeforeRelease'
  BY <1>4, <1>1, <1>2, StopVMEffect, Zenon DEF DeletedBeforeRelease, BaseInv
<1>5. ASSUME NEW s \in Sandbox, StopDelete(s), UNCHANGED <<instanceID>>
      PROVE  DeletedBeforeRelease'
  <2>1. ~DeleteEmptyOK /\ stopPC'[s] = "getPod" => instanceID[s] # None /\ ~VMLive(s)'
    BY <1>5, StopDeleteEffect, StopDeleteVM, Zenon DEF BaseInv
  <2>2. QED
    BY <1>5, <1>1, <1>2, <2>1, StopDeleteEffect DEF BaseInv, DeletedBeforeRelease
<1>6. ASSUME NEW s \in Sandbox, ReleaseGetPod(s), UNCHANGED <<instanceID>>
      PROVE  DeletedBeforeRelease'
  BY <1>6, <1>1, <1>2, ReleaseGetPodEffect, Zenon DEF DeletedBeforeRelease, BaseInv
<1>7. ASSUME NEW s \in Sandbox, ReleasePatch(s), UNCHANGED <<instanceID>>
      PROVE  DeletedBeforeRelease'
  BY <1>7, <1>1, <1>2, ReleasePatchEffect, Zenon DEF DeletedBeforeRelease, BaseInv
<1>8. ASSUME NEW s \in Sandbox, StopTeardown(s), UNCHANGED <<instanceID>>
      PROVE  DeletedBeforeRelease'
  BY <1>8, <1>1, <1>2, StopTeardownEffect, Zenon DEF DeletedBeforeRelease, BaseInv
<1>9. ASSUME NEW s \in Sandbox, RemoveSandbox(s)
      PROVE  DeletedBeforeRelease'
  BY <1>9, <1>1, <1>2, RemoveSandboxEffect, Zenon DEF DeletedBeforeRelease, BaseInv
<1>10. ASSUME NEW n \in Node, Crash(n)
      PROVE  DeletedBeforeRelease'
  BY <1>10, <1>1, <1>2, CrashEffect, Zenon DEF DeletedBeforeRelease, BaseInv
<1>11. CASE UNCHANGED <<stopPC, instanceID>>
  BY <1>11, <1>1, <1>2, Zenon DEF DeletedBeforeRelease
<1>12. QED
  BY <1>3, <1>4, <1>5, <1>6, <1>7, <1>8, <1>9, <1>10, <1>11, StepCases, Zenon DEF vars

\* The PeerPod that StopVM is going to find in the map after its DeleteInstance
\* has succeeded is one without a VM.
LEMMA StopDeleteSafe ==
  ASSUME Discipline, BaseInv, OwnedIsMapped, StaleEntryIsDead, [Next]_vars,
         NEW s \in Sandbox, StopDelete(s), stopPC'[s] = "getPod",
         pods[PodOf[s]] = "exists", NEW x \in Sandbox, podToPP[NodeOf(s)][PodOf[s]] = x
  PROVE  ~VMLive(x)'
<1>1. stopPC[s] = "delete" /\ s \in sandboxes
  BY StopDeleteEffect, Zenon DEF BaseInv, Lifecycle, StopSteps
<1>2. /\ PodOf[x] = PodOf[s] /\ NodeOf(x) = NodeOf(s) /\ startPC[x] \notin {"new", "create"}
      /\ phase[x] # "none" /\ Mapped(x)
  BY NodeInNode, Zenon DEF BaseInv, Bookkeeping, Mapped
<1>3. ASSUME x = s, instanceID[s] # None PROVE ~VMLive(x)'
  BY <1>3, StopDeleteVM, Zenon DEF BaseInv
<1>4. ~DeleteEmptyOK => instanceID[s] # None
  BY StopDeleteEffect, Zenon DEF BaseInv
<1>5. CASE ~DeleteEmptyOK /\ \A r, t \in Sandbox : PodOf[r] = PodOf[t] => r = t
  BY <1>2, <1>3, <1>4, <1>5, Zenon
<1>6. CASE ~Overlap /\ ~(DeleteMayFail /\ (OwnMayFail \/ DeleteEmptyOK))
  <2>1. startPC[s] \notin StartSteps
    BY <1>1, <1>6, Zenon DEF BaseInv, Serial
  <2>2. CASE x = s
    <3>1. instanceID[s] # None
      BY <1>1, <1>2, <2>1, <2>2, Zenon DEF BaseInv, Bookkeeping, StartSteps
    <3>2. QED
      BY <1>3, <2>2, <3>1
  <2>3. CASE x # s
    <3>1. x \notin sandboxes
      BY <1>1, <1>2, <1>6, <2>3, Zenon DEF BaseInv, Serial
    <3>2. stopPC[x] \notin {"idle", "delete"}
      BY <1>2, <3>1, Zenon DEF BaseInv, Lifecycle
    <3>3. CASE ~DeleteMayFail
      <4>1. ~VMLive(x)
        BY <1>2, <1>6, <3>2, <3>3, Zenon DEF StaleEntryIsDead
      <4>2. QED
        BY <1>2, <4>1, VMStep, Zenon DEF BaseInv
    <3>4. CASE DeleteMayFail
      <4>1. ~OwnMayFail /\ instanceID[s] # None
        BY <1>4, <1>6, <3>4, Zenon
      <4>2. instance[s] # None
        BY <4>1, Zenon DEF BaseInv, Locals
      <4>3. startPC[s] \in {"running", "failed"}
        BY <1>1, <2>1, <4>2 DEF BaseInv, Locals, Lifecycle, TypeOK, CAATypeOK, StartPC, StartSteps
      <4>4. Mapped(s)
        BY <1>1, <1>6, <4>1, <4>2, <4>3, Zenon DEF OwnedIsMapped
      <4>5. QED
        BY <2>3, <4>4, Zenon DEF Mapped
    <3>5. QED
      BY <3>3, <3>4, Zenon
  <2>4. QED
    BY <2>2, <2>3, Zenon
<1>7. QED
  BY <1>5, <1>6, Zenon DEF Discipline

\* Every step keeps ReleaseIsSafe, which is where Discipline is needed.
LEMMA ReleaseIsSafeStep ==
  ASSUME Discipline, BaseInv, OwnedIsMapped, StaleEntryIsDead,
         DeletedBeforeRelease, ReleaseIsSafe, [Next]_vars
  PROVE  ReleaseIsSafe'
<1>1. \A t \in Sandbox : VMLive(t)' => VMLive(t) \/ startPC[t] = "create"
  BY VMStep, Zenon DEF BaseInv
<1>2. \A t, x \in Sandbox : podToPP[NodeOf(t)][PodOf[t]] = x => startPC[x] # "create"
  BY NodeInNode DEF BaseInv, Bookkeeping
<1>3. ASSUME NEW s \in Sandbox, OwnMap(s), UNCHANGED <<stopPC, pods>>
      PROVE  ReleaseIsSafe'
  <2>1. startPC[s] = "map"
    BY <1>3, OwnMapEffect, Zenon DEF BaseInv
  <2>2. ASSUME NEW t \in Sandbox, stopPC[t] \in {"getPod", "patch"}, PodOf[t] = PodOf[s]
        PROVE  t = s /\ ~DeleteEmptyOK
    <3>1. t \in sandboxes
      BY <2>2, Zenon DEF BaseInv, Lifecycle, StopSteps
    <3>2. ~Overlap => s \in sandboxes /\ stopPC[s] = "idle"
      BY <2>1, Zenon DEF BaseInv, Lifecycle, Serial, StartSteps
    <3>3. Overlap
      BY <2>2, <3>1, <3>2, Zenon DEF BaseInv, Serial
    <3>4. QED
      BY <2>2, <3>3, Zenon DEF Discipline
  <2>3. \A t \in Sandbox : stopPC[t] \in {"getPod", "patch"} /\ PodOf[t] = PodOf[s] => ~VMLive(t)
    BY <2>2, Zenon DEF DeletedBeforeRelease
  <2>4. QED
    BY <1>3, <1>1, <1>2, <2>1, <2>2, <2>3, OwnMapMapped DEF ReleaseIsSafe
<1>4. ASSUME NEW s \in Sandbox, StopVM(s), UNCHANGED <<pods, podToPP>>
      PROVE  ReleaseIsSafe'
  BY <1>4, <1>1, <1>2, StopVMEffect DEF ReleaseIsSafe, BaseInv
<1>5. ASSUME NEW s \in Sandbox, StopDelete(s), UNCHANGED <<pods, podToPP>>
      PROVE  ReleaseIsSafe'
  <2>1. /\ stopPC[s] = "delete" /\ stopPC'[s] \in {"getPod", "teardown"}
        /\ \A t \in Sandbox \ {s} : stopPC'[t] = stopPC[t]
    BY <1>5, StopDeleteEffect, Zenon DEF BaseInv
  <2>2. ASSUME stopPC'[s] = "getPod", pods[PodOf[s]] = "exists",
               NEW x \in Sandbox, podToPP[NodeOf(s)][PodOf[s]] = x
        PROVE  ~VMLive(x)'
    BY <1>5, <2>2, StopDeleteSafe, Zenon
  <2>3. QED
    BY <1>5, <1>1, <1>2, <2>1, <2>2, Zenon DEF ReleaseIsSafe
<1>6. ASSUME NEW s \in Sandbox, ReleaseGetPod(s), UNCHANGED <<pods, podToPP>>
      PROVE  ReleaseIsSafe'
  <2>1. stopPC'[s] = "patch" => pods[PodOf[s]] = "exists"
    BY <1>6, ReleaseGetPodEffect, StoreAssumption DEF PodsNamed, Discipline, UniqueNames, BaseInv
  <2>2. QED
    BY <1>6, <1>1, <1>2, <2>1, ReleaseGetPodEffect DEF BaseInv, ReleaseIsSafe
<1>7. ASSUME NEW s \in Sandbox, ReleasePatch(s), UNCHANGED <<pods>>
      PROVE  ReleaseIsSafe'
  <2>1. stopPC'[s] = "teardown" /\ \A t \in Sandbox \ {s} : stopPC'[t] = stopPC[t]
    BY <1>7, ReleasePatchEffect, Zenon DEF BaseInv
  <2>2. QED
    BY <1>7, <1>1, <1>2, <2>1, ReleasePatchMap, StoreAssumption DEF ReleaseIsSafe
<1>8. ASSUME NEW s \in Sandbox, StopTeardown(s), UNCHANGED <<pods, podToPP>>
      PROVE  ReleaseIsSafe'
  BY <1>8, <1>1, <1>2, StopTeardownEffect DEF ReleaseIsSafe, BaseInv
<1>9. ASSUME NEW s \in Sandbox, RemoveSandbox(s), UNCHANGED <<pods, podToPP>>
      PROVE  ReleaseIsSafe'
  BY <1>9, <1>1, <1>2, RemoveSandboxEffect DEF ReleaseIsSafe, BaseInv
<1>10. ASSUME NEW n \in Node, Crash(n), UNCHANGED <<pods>>
      PROVE  ReleaseIsSafe'
  <2>1. \A t \in Sandbox : stopPC'[t] \in {"getPod", "patch"} => stopPC'[t] = stopPC[t]
    BY <1>10, CrashEffect, Zenon DEF BaseInv
  <2>2. \A t \in Sandbox : podToPP'[NodeOf(t)][PodOf[t]] \in {None, podToPP[NodeOf(t)][PodOf[t]]}
    BY <1>10, CrashEffect, NodeInNode DEF BaseInv
  <2>3. QED
    BY <1>10, <1>1, <1>2, <2>1, <2>2, StoreAssumption DEF ReleaseIsSafe
<1>11. ASSUME NEW u \in UID, PodCreated(u), UNCHANGED <<stopPC, podToPP>>
      PROVE  ReleaseIsSafe'
  <2>1. \A t \in Sandbox : stopPC[t] \in {"getPod", "patch"} => PodOf[t] # u
    BY <1>11, PodCreatedEffect, Zenon DEF BaseInv, Lifecycle
  <2>2. \A t \in Sandbox : PodOf[t] # u => pods'[PodOf[t]] = pods[PodOf[t]]
    BY <1>11, PodCreatedEffect, StoreAssumption, Zenon DEF BaseInv
  <2>3. QED
    BY <1>11, <1>1, <1>2, <2>1, <2>2 DEF ReleaseIsSafe
<1>12. ASSUME NEW u \in UID, PodDeleted(u), UNCHANGED <<stopPC, podToPP>>
      PROVE  ReleaseIsSafe'
  <2>1. \A t \in Sandbox : pods'[PodOf[t]] = "exists" => pods[PodOf[t]] = "exists"
    BY <1>12, PodDeletedEffect, StoreAssumption, Zenon DEF BaseInv
  <2>2. QED
    BY <1>12, <1>1, <1>2, <2>1, Zenon DEF ReleaseIsSafe
<1>13. CASE UNCHANGED <<stopPC, pods, podToPP>>
  BY <1>13, <1>1, <1>2 DEF ReleaseIsSafe
<1>14. QED
  BY <1>3, <1>4, <1>5, <1>6, <1>7, <1>8, <1>9, <1>10, <1>11, <1>12, <1>13, StepCases,
     Zenon DEF vars

\* Every step keeps ReleasedHasNoVM.
LEMMA ReleasedHasNoVMStep ==
  ASSUME BaseInv, ReleaseIsSafe, ReleasedHasNoVM, [Next]_vars
  PROVE  ReleasedHasNoVM'
<1>1. \A t \in Sandbox : VMLive(t)' => VMLive(t) \/ startPC[t] = "create"
  BY VMStep, Zenon DEF BaseInv
<1>2. \A t \in Sandbox : startPC[t] = "create" => phase[t] = "none"
  BY Zenon DEF BaseInv, Bookkeeping
<1>3. ASSUME NEW s \in Sandbox, OwnPost(s)
      PROVE  ReleasedHasNoVM'
  BY <1>3, <1>1, <1>2, OwnPostEffect, Zenon DEF ReleasedHasNoVM, BaseInv
<1>4. ASSUME NEW s \in Sandbox, ReleasePatch(s)
      PROVE  ReleasedHasNoVM'
  <2>1. stopPC[s] = "patch" /\ relUID[s] = PodOf[s]
    BY <1>4, ReleasePatchEffect, Zenon DEF BaseInv, Locals
  <2>2. \A t \in Sandbox : phase'[t] # phase[t] => podToPP[NodeOf(s)][PodOf[s]] = t
    BY <1>4, <2>1, ReleasePatchEffect DEF BaseInv
  <2>3. \A t \in Sandbox : phase'[t] # phase[t] => ~VMLive(t) /\ phase[t] # "none"
    BY <2>1, <2>2, NodeInNode DEF ReleaseIsSafe, BaseInv, Bookkeeping
  <2>4. QED
    BY <1>1, <1>2, <2>3, Zenon DEF ReleasedHasNoVM
<1>5. ASSUME NEW s \in Sandbox, NEW deleted \in SUBSET Sandbox, ReconcileLive(s, deleted)
      PROVE  ReleasedHasNoVM'
  <2>1. \A t \in Sandbox : phase'[t] \in {"released", "gone"}
                           => phase[t] \in {"released", "gone"}
    BY <1>5, ReconcileLiveEffect, Zenon DEF BaseInv, AfterDelete
  <2>2. QED
    BY <1>1, <1>2, <2>1, Zenon DEF ReleasedHasNoVM
<1>6. ASSUME NEW s \in Sandbox, CtrlUpdateOK(s)
      PROVE  ReleasedHasNoVM'
  <2>1. phase[s] # "none" /\ ~VMLive(s)
    BY <1>6, CtrlUpdateOKEffect, Zenon DEF BaseInv, CtrlInv
  <2>2. QED
    BY <1>6, <1>1, <1>2, <2>1, CtrlUpdateOKEffect, Zenon DEF BaseInv, ReleasedHasNoVM
<1>7. ASSUME NEW s \in Sandbox, GarbageCollect(s)
      PROVE  ReleasedHasNoVM'
  <2>1. \A t \in Sandbox : phase'[t] \in {"released", "gone"}
                           => phase[t] \in {"released", "gone"}
    BY <1>7, GarbageCollectEffect, Zenon DEF BaseInv, AfterDelete
  <2>2. QED
    BY <1>1, <1>2, <2>1, Zenon DEF ReleasedHasNoVM
<1>8. CASE UNCHANGED <<phase>>
  BY <1>8, <1>1, <1>2, Zenon DEF ReleasedHasNoVM
<1>9. QED
  BY <1>3, <1>4, <1>5, <1>6, <1>7, <1>8, StepCases, Zenon DEF vars

\* ReleaseInv, the invariant behind ReleasedHasNoVM, holds in every behaviour.
THEOREM ReleaseInvariant == ASSUME Discipline PROVE Spec => []ReleaseInv
<1>1. Init => ReleaseInv
  <2>1. ASSUME Init
        PROVE  /\ \A s \in Sandbox : startPC[s] = "new" /\ stopPC[s] = "idle" /\ phase[s] = "none"
               /\ BaseInv
    BY <2>1, BaseInit, Zenon DEF Init, CAAInit, StoreInit
  <2>2. QED
    BY <2>1, Zenon
    DEF ReleaseInv, OwnedIsMapped, StaleEntryIsDead, DeletedBeforeRelease, ReleaseIsSafe,
        ReleasedHasNoVM
<1>2. ReleaseInv /\ [Next]_vars => ReleaseInv'
  <2>1. SUFFICES ASSUME ReleaseInv, [Next]_vars PROVE ReleaseInv'
    OBVIOUS
  <2>2. /\ BaseInv /\ OwnedIsMapped /\ StaleEntryIsDead /\ DeletedBeforeRelease
        /\ ReleaseIsSafe /\ ReleasedHasNoVM
    BY <2>1, Zenon DEF ReleaseInv
  <2>3. BaseInv'
    BY <2>1, <2>2, BaseStep, Zenon DEF Discipline
  <2>4. OwnedIsMapped' /\ StaleEntryIsDead'
    BY <2>1, <2>2, OwnedIsMappedStep, StaleEntryIsDeadStep, Zenon
  <2>5. DeletedBeforeRelease' /\ ReleaseIsSafe' /\ ReleasedHasNoVM'
    BY <2>1, <2>2, DeletedBeforeReleaseStep, ReleaseIsSafeStep, ReleasedHasNoVMStep, Zenon
  <2>6. QED
    BY <2>3, <2>4, <2>5, Zenon DEF ReleaseInv
<1>3. QED
  BY <1>1, <1>2, PTL DEF Spec

\* StopVM and Reconcile never take the finalizer off a PeerPod whose VM is alive,
\* for any number of Pods, nodes, sandboxes, instances and crashes, as long as
\* Discipline holds of the names, the requests and the provider.
THEOREM FinalizerGuardsVM == ASSUME Discipline PROVE Spec => []ReleasedHasNoVM
<1>1. ReleaseInv => ReleasedHasNoVM
  BY Zenon DEF ReleaseInv
<1>2. QED
  BY <1>1, ReleaseInvariant, PTL
=============================================================================
