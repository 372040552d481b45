---------------------------- MODULE PeerPodsBase ----------------------------
(***************************************************************************)
(* What the steps of PeerPods do, entry by entry, the types they keep, and  *)
(* BaseInv: the handlers, their local variables, the sandbox table, the     *)
(* PeerPods, the podToPP maps and the controller agree, whatever the        *)
(* provider and the runtime do.                                             *)
(***************************************************************************)
EXTENDS PeerPods, TLAPS

(* The tuples of variables are abbreviations in every proof below. *)
USE DEF storeVars, ppVars, caaVars, ctrlVars

-----------------------------------------------------------------------------
(* The steps.  The proofs of the invariants cite these facts, not the actions. *)

\* A step of the system is a step of one actor, which leaves the rest alone.
LEMMA StepCases ==
  ASSUME [Next]_vars
  PROVE  \/ UNCHANGED vars
         \/ \E s \in Sandbox : /\ CreateVM(s)
                               /\ UNCHANGED <<storeVars, instanceID, podToPP, instance,
                                              ownUID, stopPC, relUID, crashes, ctrlVars>>
         \/ \E s \in Sandbox : /\ StartVM(s)
                               /\ UNCHANGED <<storeVars, sandboxes, instanceID, podToPP,
                                              instance, ownUID, stopPC, relUID, crashes, ctrlVars>>
         \/ \E s \in Sandbox : /\ CreateInstanceOK(s)
                               /\ UNCHANGED <<pods, ppVars, now, sandboxes, instanceID,
                                              podToPP, ownUID, stopPC, relUID, crashes, ctrlVars>>
         \/ \E s \in Sandbox : /\ CreateInstanceFails(s)
                               /\ UNCHANGED <<pods, ppVars, now, sandboxes, instanceID,
                                              podToPP, instance, ownUID, stopPC, relUID, crashes,
                                              ctrlVars>>
         \/ \E s \in Sandbox : /\ OwnGetPod(s)
                               /\ UNCHANGED <<storeVars, sandboxes, instanceID, podToPP,
                                              instance, stopPC, relUID, crashes, ctrlVars>>
         \/ \E s \in Sandbox : /\ OwnPost(s)
                               /\ UNCHANGED <<pods, now, vms, handedOut, sandboxes,
                                              instanceID, podToPP, instance, stopPC, relUID, crashes,
                                              ctrlVars>>
         \/ \E s \in Sandbox : /\ OwnMap(s)
                               /\ UNCHANGED <<storeVars, sandboxes, instanceID, instance,
                                              stopPC, relUID, crashes, ctrlVars>>
         \/ \E s \in Sandbox : /\ SetInstance(s)
                               /\ UNCHANGED <<storeVars, sandboxes, podToPP, instance,
                                              ownUID, stopPC, relUID, crashes, ctrlVars>>
         \/ \E s \in Sandbox : /\ SetupNetwork(s)
                               /\ UNCHANGED <<storeVars, sandboxes, instanceID, podToPP,
                                              instance, ownUID, stopPC, relUID, crashes, ctrlVars>>
         \/ \E s \in Sandbox : /\ AwaitProxy(s)
                               /\ UNCHANGED <<storeVars, sandboxes, instanceID, podToPP,
                                              instance, ownUID, stopPC, relUID, crashes, ctrlVars>>
         \/ \E s \in Sandbox : /\ StopVM(s)
                               /\ UNCHANGED <<storeVars, sandboxes, instanceID, podToPP,
                                              startPC, instance, ownUID, relUID, crashes, ctrlVars>>
         \/ \E s \in Sandbox : /\ StopDelete(s)
                               /\ UNCHANGED <<pods, ppVars, now, handedOut, sandboxes,
                                              instanceID, podToPP, startPC, instance, ownUID, relUID,
                                              crashes, ctrlVars>>
         \/ \E s \in Sandbox : /\ ReleaseGetPod(s)
                               /\ UNCHANGED <<storeVars, sandboxes, instanceID, podToPP,
                                              startPC, instance, ownUID, crashes, ctrlVars>>
         \/ \E s \in Sandbox : /\ ReleasePatch(s)
                               /\ UNCHANGED <<pods, owner, ppInstance, created, now, vms,
                                              handedOut, sandboxes, instanceID, startPC, instance,
                                              ownUID, crashes, ctrlVars>>
         \/ \E s \in Sandbox : /\ StopTeardown(s)
                               /\ UNCHANGED <<storeVars, sandboxes, instanceID, podToPP,
                                              startPC, instance, ownUID, relUID, crashes, ctrlVars>>
         \/ \E s \in Sandbox : /\ RemoveSandbox(s)
                               /\ UNCHANGED <<storeVars, podToPP, startPC, instance, ownUID,
                                              relUID, crashes, ctrlVars>>
         \/ \E n \in Node : /\ Crash(n)
                            /\ UNCHANGED <<pods, ppVars, now, instance, ctrlVars>>
         \/ \E s \in Sandbox : /\ CacheSync(s)
                               /\ UNCHANGED <<storeVars, caaVars, ctrlPC, ctrlPP>>
         \/ \E s \in Sandbox, deleted \in SUBSET Sandbox : /\ ReconcileLive(s, deleted)
                                                           /\ UNCHANGED <<pods, owner,
                                                                          ppInstance, created, now, vms,
                                                                          handedOut, caaVars, ctrlVars>>
         \/ \E s \in Sandbox : /\ ReconcileDeleting(s)
                               /\ UNCHANGED <<storeVars, caaVars, cache>>
         \/ \E s \in Sandbox : /\ CtrlDeleteOK(s)
                               /\ UNCHANGED <<pods, ppVars, now, handedOut, caaVars, cache,
                                              ctrlPP>>
         \/ \E s \in Sandbox : /\ CtrlDeleteFails(s)
                               /\ UNCHANGED <<pods, ppVars, now, handedOut, caaVars, cache>>
         \/ \E s \in Sandbox : /\ CtrlUpdateOK(s)
                               /\ UNCHANGED <<pods, owner, ppInstance, created, now, vms,
                                              handedOut, caaVars, cache>>
         \/ /\ CtrlAbort
            /\ UNCHANGED <<storeVars, caaVars, cache>>
         \/ \E u \in UID : /\ PodCreated(u)
                           /\ UNCHANGED <<ppVars, now, vms, handedOut, caaVars, ctrlVars>>
         \/ \E u \in UID : /\ PodDeleted(u)
                           /\ UNCHANGED <<ppVars, now, vms, handedOut, caaVars, ctrlVars>>
         \/ \E s \in Sandbox : /\ GarbageCollect(s)
                               /\ UNCHANGED <<pods, owner, ppInstance, created, now, vms,
                                              handedOut, caaVars, ctrlVars>>
         \/ /\ ClockTick
            /\ UNCHANGED <<pods, ppVars, vms, handedOut, caaVars, ctrlVars>>
<1>1. ASSUME NEW s \in Sandbox, CreateVM(s), UNCHANGED ctrlVars
      PROVE  UNCHANGED <<storeVars, instanceID, podToPP, instance, ownUID, stopPC, relUID,
                         crashes, ctrlVars>>
  BY <1>1, Zenon DEF CreateVM
<1>2. ASSUME NEW s \in Sandbox, StartVM(s), UNCHANGED ctrlVars
      PROVE  UNCHANGED <<storeVars, sandboxes, instanceID, podToPP, instance, ownUID,
                         stopPC, relUID, crashes, ctrlVars>>
  BY <1>2, Zenon DEF StartVM
<1>3. ASSUME NEW s \in Sandbox, CreateInstanceOK(s), UNCHANGED ctrlVars
      PROVE  UNCHANGED <<pods, ppVars, now, sandboxes, instanceID, podToPP, ownUID, stopPC,
                         relUID, crashes, ctrlVars>>
  BY <1>3, Zenon DEF CreateInstanceOK
<1>4. ASSUME NEW s \in Sandbox, CreateInstanceFails(s), UNCHANGED ctrlVars
      PROVE  UNCHANGED <<pods, ppVars, now, sandboxes, instanceID, podToPP, instance,
                         ownUID, stopPC, relUID, crashes, ctrlVars>>
  BY <1>4, Zenon DEF CreateInstanceFails
<1>5. ASSUME NEW s \in Sandbox, OwnGetPod(s), UNCHANGED ctrlVars
      PROVE  UNCHANGED <<storeVars, sandboxes, instanceID, podToPP, instance, stopPC,
                         relUID, crashes, ctrlVars>>
  BY <1>5, Zenon DEF OwnGetPod
<1>6. ASSUME NEW s \in Sandbox, OwnPost(s), UNCHANGED ctrlVars
      PROVE  UNCHANGED <<pods, now, vms, handedOut, sandboxes, instanceID, podToPP,
                         instance, stopPC, relUID, crashes, ctrlVars>>
  BY <1>6, Zenon DEF OwnPost
<1>7. ASSUME NEW s \in Sandbox, OwnMap(s), UNCHANGED ctrlVars
      PROVE  UNCHANGED <<storeVars, sandboxes, instanceID, instance, stopPC, relUID,
                         crashes, ctrlVars>>
  BY <1>7, Zenon DEF OwnMap
<1>8. ASSUME NEW s \in Sandbox, SetInstance(s), UNCHANGED ctrlVars
      PROVE  UNCHANGED <<storeVars, sandboxes, podToPP, instance, ownUID, stopPC, relUID,
                         crashes, ctrlVars>>
  BY <1>8, Zenon DEF SetInstance
<1>9. ASSUME NEW s \in Sandbox, SetupNetwork(s), UNCHANGED ctrlVars
      PROVE  UNCHANGED <<storeVars, sandboxes, instanceID, podToPP, instance, ownUID,
                         stopPC, relUID, crashes, ctrlVars>>
  BY <1>9, Zenon DEF SetupNetwork
<1>10. ASSUME NEW s \in Sandbox, AwaitProxy(s), UNCHANGED ctrlVars
      PROVE  UNCHANGED <<storeVars, sandboxes, instanceID, podToPP, instance, ownUID,
                         stopPC, relUID, crashes, ctrlVars>>
  BY <1>10, Zenon DEF AwaitProxy
<1>11. ASSUME NEW s \in Sandbox, StopVM(s), UNCHANGED ctrlVars
      PROVE  UNCHANGED <<storeVars, sandboxes, instanceID, podToPP, startPC, instance,
                         ownUID, relUID, crashes, ctrlVars>>
  BY <1>11, Zenon DEF StopVM
<1>12. ASSUME NEW s \in Sandbox, StopDelete(s), UNCHANGED ctrlVars
      PROVE  UNCHANGED <<pods, ppVars, now, handedOut, sandboxes, instanceID, podToPP,
                         startPC, instance, ownUID, relUID, crashes, ctrlVars>>
  BY <1>12, Zenon DEF StopDelete
<1>13. ASSUME NEW s \in Sandbox, ReleaseGetPod(s), UNCHANGED ctrlVars
      PROVE  UNCHANGED <<storeVars, sandboxes, instanceID, podToPP, startPC, instance,
                         ownUID, crashes, ctrlVars>>
  BY <1>13, Zenon DEF ReleaseGetPod
<1>14. ASSUME NEW s \in Sandbox, ReleasePatch(s), UNCHANGED ctrlVars
      PROVE  UNCHANGED <<pods, owner, ppInstance, created, now, vms, handedOut, sandboxes,
                         instanceID, startPC, instance, ownUID, crashes, ctrlVars>>
  BY <1>14, Zenon DEF ReleasePatch
<1>15. ASSUME NEW s \in Sandbox, StopTeardown(s), UNCHANGED ctrlVars
      PROVE  UNCHANGED <<storeVars, sandboxes, instanceID, podToPP, startPC, instance,
                         ownUID, relUID, crashes, ctrlVars>>
  BY <1>15, Zenon DEF StopTeardown
<1>16. ASSUME NEW s \in Sandbox, RemoveSandbox(s), UNCHANGED ctrlVars
      PROVE  UNCHANGED <<storeVars, podToPP, startPC, instance, ownUID, relUID, crashes,
                         ctrlVars>>
  BY <1>16, Zenon DEF RemoveSandbox
<1>17. ASSUME NEW n \in Node, Crash(n), UNCHANGED ctrlVars
      PROVE  UNCHANGED <<pods, ppVars, now, instance, ctrlVars>>
  BY <1>17, Zenon DEF Crash
<1>18. ASSUME NEW s \in Sandbox, CacheSync(s), UNCHANGED caaVars
      PROVE  UNCHANGED <<storeVars, caaVars, ctrlPC, ctrlPP>>
  BY <1>18, Zenon DEF CacheSync
<1>19. ASSUME NEW s \in Sandbox, NEW deleted \in SUBSET Sandbox, ReconcileLive(s, deleted), UNCHANGED caaVars
      PROVE  UNCHANGED <<pods, owner, ppInstance, created, now, vms, handedOut, caaVars,
                         ctrlVars>>
  BY <1>19, Zenon DEF ReconcileLive
<1>20. ASSUME NEW s \in Sandbox, ReconcileDeleting(s), UNCHANGED caaVars
      PROVE  UNCHANGED <<storeVars, caaVars, cache>>
  BY <1>20, Zenon DEF ReconcileDeleting
<1>21. ASSUME NEW s \in Sandbox, CtrlDeleteOK(s), UNCHANGED caaVars
      PROVE  UNCHANGED <<pods, ppVars, now, handedOut, caaVars, cache, ctrlPP>>
  BY <1>21, Zenon DEF CtrlDeleteOK
<1>22. ASSUME NEW s \in Sandbox, CtrlDeleteFails(s), UNCHANGED caaVars
      PROVE  UNCHANGED <<pods, ppVars, now, handedOut, caaVars, cache>>
  BY <1>22, Zenon DEF CtrlDeleteFails
<1>23. ASSUME NEW s \in Sandbox, CtrlUpdateOK(s), UNCHANGED caaVars
      PROVE  UNCHANGED <<pods, owner, ppInstance, created, now, vms, handedOut, caaVars,
                         cache>>
  BY <1>23, Zenon DEF CtrlUpdateOK
<1>24. ASSUME CtrlAbort, UNCHANGED caaVars
      PROVE  UNCHANGED <<storeVars, caaVars, cache>>
  BY <1>24, Zenon DEF CtrlAbort
<1>25. ASSUME NEW u \in UID, PodCreated(u), UNCHANGED <<caaVars, ctrlVars>>
      PROVE  UNCHANGED <<ppVars, now, vms, handedOut, caaVars, ctrlVars>>
  BY <1>25, Zenon DEF PodCreated
<1>26. ASSUME NEW u \in UID, PodDeleted(u), UNCHANGED <<caaVars, ctrlVars>>
      PROVE  UNCHANGED <<ppVars, now, vms, handedOut, caaVars, ctrlVars>>
  BY <1>26, Zenon DEF PodDeleted
<1>27. ASSUME NEW s \in Sandbox, GarbageCollect(s), UNCHANGED <<caaVars, ctrlVars>>
      PROVE  UNCHANGED <<pods, owner, ppInstance, created, now, vms, handedOut, caaVars,
                         ctrlVars>>
  BY <1>27, Zenon DEF GarbageCollect
<1>28. ASSUME ClockTick, UNCHANGED <<caaVars, ctrlVars>>
      PROVE  UNCHANGED <<pods, ppVars, vms, handedOut, caaVars, ctrlVars>>
  BY <1>28, Zenon DEF ClockTick
<1>29. QED
  BY <1>1, <1>2, <1>3, <1>4, <1>5, <1>6, <1>7, <1>8, <1>9, <1>10, <1>11, <1>12, <1>13,
     <1>14, <1>15, <1>16, <1>17, <1>18, <1>19, <1>20, <1>21, <1>22, <1>23, <1>24, <1>25,
     <1>26, <1>27, <1>28, Zenon DEF Next, CAAStep, CtrlStep

\* A launch nobody was told about takes a free ID and no other.
LEMMA OrphanEffect ==
  ASSUME TypeOK, UNCHANGED <<vms, handedOut>> \/ \E i \in Instance : Launch(i, Orphan)
  PROVE  /\ handedOut \subseteq handedOut'
         /\ \A i \in Instance : vms'[i] = vms[i] \/ (vms[i] = None /\ vms'[i] = Orphan /\ i \in handedOut')
  BY Zenon DEF TypeOK, StoreTypeOK, Launch, FreshIDs

\* The effect of CreateVM, entry by entry.
LEMMA CreateVMEffect ==
  ASSUME TypeOK, NEW s \in Sandbox, CreateVM(s)
  PROVE  /\ startPC[s] = "new" /\ pods[PodOf[s]] = "exists"
         /\ Overlap \/ \A t \in Sandbox : PodOf[t] = PodOf[s] => ~Active(t)
         /\ sandboxes' = sandboxes \cup {s}
         /\ startPC'[s] = "idle"
         /\ \A t \in Sandbox \ {s} : startPC'[t] = startPC[t]
  BY Zenon DEF CreateVM, TypeOK, CAATypeOK, StartGoto

\* The effect of StartVM, entry by entry.
LEMMA StartVMEffect ==
  ASSUME TypeOK, NEW s \in Sandbox, StartVM(s)
  PROVE  /\ startPC[s] = "idle" /\ (Overlap \/ stopPC[s] = "idle")
         /\ startPC'[s] = IF s \in sandboxes THEN "create" ELSE "failed"
         /\ \A t \in Sandbox \ {s} : startPC'[t] = startPC[t]
  BY Zenon DEF StartVM, TypeOK, CAATypeOK, StartGoto

\* The effect of CreateInstanceOK, entry by entry.
LEMMA CreateInstanceOKEffect ==
  ASSUME TypeOK, NEW s \in Sandbox, CreateInstanceOK(s)
  PROVE  /\ startPC[s] = "create" /\ startPC'[s] = "getPod"
         /\ instance'[s] \in Instance /\ vms[instance'[s]] = None /\ vms'[instance'[s]] = s
         /\ ReuseIDs \/ instance'[s] \notin handedOut
         /\ handedOut' = handedOut \cup {instance'[s]}
         /\ \A i \in Instance \ {instance'[s]} : vms'[i] = vms[i]
         /\ \A t \in Sandbox \ {s} : startPC'[t] = startPC[t] /\ instance'[t] = instance[t]
  BY DEF CreateInstanceOK, TypeOK, StoreTypeOK, CAATypeOK, StartGoto, Launch, FreshIDs

\* The effect of CreateInstanceFails, entry by entry.
LEMMA CreateInstanceFailsEffect ==
  ASSUME TypeOK, NEW s \in Sandbox, CreateInstanceFails(s)
  PROVE  /\ startPC[s] = "create" /\ startPC'[s] = "failed"
         /\ \A t \in Sandbox \ {s} : startPC'[t] = startPC[t]
         /\ handedOut \subseteq handedOut'
         /\ \A i \in Instance : vms'[i] = vms[i] \/ (vms[i] = None /\ vms'[i] = Orphan /\ i \in handedOut')
<1>1. startPC[s] = "create" /\ startPC'[s] = "failed"
  BY Zenon DEF CreateInstanceFails, StartGoto, TypeOK, CAATypeOK
<1>2. \A t \in Sandbox \ {s} : startPC'[t] = startPC[t]
  BY Zenon DEF CreateInstanceFails, StartGoto, TypeOK, CAATypeOK
<1>3. QED
  BY <1>1, <1>2, OrphanEffect, Zenon DEF CreateInstanceFails

\* The effect of OwnGetPod, entry by entry.
LEMMA OwnGetPodEffect ==
  ASSUME TypeOK, NEW s \in Sandbox, OwnGetPod(s)
  PROVE  /\ startPC[s] = "getPod"
         /\ \/ startPC'[s] = "post" /\ ownUID'[s] \in PodsNamed(PodName[PodOf[s]])
            \/ /\ startPC'[s] = "set" /\ ownUID'[s] = ownUID[s]
               /\ OwnMayFail \/ PodsNamed(PodName[PodOf[s]]) = {}
         /\ \A t \in Sandbox \ {s} : startPC'[t] = startPC[t] /\ ownUID'[t] = ownUID[t]
  BY Zenon DEF OwnGetPod, TypeOK, CAATypeOK, StartGoto

\* The effect of OwnPost, entry by entry.
LEMMA OwnPostEffect ==
  ASSUME TypeOK, NEW s \in Sandbox, OwnPost(s)
  PROVE  /\ startPC[s] = "post"
         /\ \/ /\ startPC'[s] = "map" /\ ownUID'[s] = ownUID[s] /\ phase'[s] = "held"
               /\ owner'[s] = ownUID[s] /\ ppInstance'[s] = instance[s] /\ created'[s] = now
            \/ /\ OwnMayFail /\ startPC'[s] = "set" /\ ownUID'[s] = None /\ UNCHANGED ppVars
         /\ \A t \in Sandbox \ {s} : startPC'[t] = startPC[t] /\ ownUID'[t] = ownUID[t]
         /\ \A t \in Sandbox \ {s} : phase'[t] = phase[t] /\ owner'[t] = owner[t]
         /\ \A t \in Sandbox \ {s} : ppInstance'[t] = ppInstance[t] /\ created'[t] = created[t]
  BY DEF OwnPost, TypeOK, StoreTypeOK, CAATypeOK, StartGoto

\* The effect of OwnMap, entry by entry.
LEMMA OwnMapEffect ==
  ASSUME TypeOK, NEW s \in Sandbox, OwnMap(s)
  PROVE  /\ startPC[s] = "map" /\ startPC'[s] = "set" /\ ownUID'[s] = None
         /\ \A n \in Node, u \in UID :
                 podToPP'[n][u] = IF n = NodeOf(s) /\ u = ownUID[s] THEN s ELSE podToPP[n][u]
         /\ \A t \in Sandbox \ {s} : startPC'[t] = startPC[t] /\ ownUID'[t] = ownUID[t]
  BY Zenon DEF OwnMap, TypeOK, CAATypeOK, StartGoto

\* The effect of SetInstance, entry by entry.
LEMMA SetInstanceEffect ==
  ASSUME TypeOK, NEW s \in Sandbox, SetInstance(s)
  PROVE  /\ startPC[s] = "set"
         /\ \/ s \in sandboxes /\ instanceID'[s] = instance[s] /\ startPC'[s] = "setup"
            \/ s \notin sandboxes /\ instanceID'[s] = instanceID[s] /\ startPC'[s] = "failed"
         /\ \A t \in Sandbox \ {s} : startPC'[t] = startPC[t] /\ instanceID'[t] = instanceID[t]
  BY DEF SetInstance, TypeOK, CAATypeOK, StartGoto

\* The effect of SetupNetwork, entry by entry.
LEMMA SetupNetworkEffect ==
  ASSUME TypeOK, NEW s \in Sandbox, SetupNetwork(s)
  PROVE  /\ startPC[s] = "setup" /\ startPC'[s] \in {"proxy", "failed"}
         /\ \A t \in Sandbox \ {s} : startPC'[t] = startPC[t]
  BY Zenon DEF SetupNetwork, TypeOK, CAATypeOK, StartGoto

\* The effect of AwaitProxy, entry by entry.
LEMMA AwaitProxyEffect ==
  ASSUME TypeOK, NEW s \in Sandbox, AwaitProxy(s)
  PROVE  /\ startPC[s] = "proxy" /\ startPC'[s] \in {"running", "failed"}
         /\ \A t \in Sandbox \ {s} : startPC'[t] = startPC[t]
  BY Zenon DEF AwaitProxy, TypeOK, CAATypeOK, StartGoto

\* The effect of StopVM, entry by entry.
LEMMA StopVMEffect ==
  ASSUME TypeOK, NEW s \in Sandbox, StopVM(s)
  PROVE  /\ stopPC[s] = "idle" /\ s \in sandboxes /\ (Overlap \/ startPC[s] \notin StartSteps)
         /\ stopPC'[s] = "delete"
         /\ \A t \in Sandbox \ {s} : stopPC'[t] = stopPC[t]
  BY Zenon DEF StopVM, TypeOK, CAATypeOK, StopGoto

\* The effect of StopDelete, entry by entry.
LEMMA StopDeleteEffect ==
  ASSUME TypeOK, NEW s \in Sandbox, StopDelete(s)
  PROVE  /\ stopPC[s] = "delete" /\ stopPC'[s] \in {"getPod", "teardown"}
         /\ stopPC'[s] = "getPod" /\ instanceID[s] = None => DeleteEmptyOK
         /\ instanceID[s] # None /\ (stopPC'[s] = "getPod" \/ ~DeleteMayFail)
                 => vms'[instanceID[s]] = None
         /\ \A i \in Instance : vms'[i] \in {vms[i], None}
         /\ \A t \in Sandbox \ {s} : stopPC'[t] = stopPC[t]
  BY StoreAssumption DEF StopDelete, TypeOK, StoreTypeOK, CAATypeOK, StopGoto,
     DeleteInstanceOK, DeleteInstanceFails

\* The effect of ReleaseGetPod, entry by entry.
LEMMA ReleaseGetPodEffect ==
  ASSUME TypeOK, NEW s \in Sandbox, ReleaseGetPod(s)
  PROVE  /\ stopPC[s] = "getPod"
         /\ \/ stopPC'[s] = "patch" /\ relUID'[s] \in PodsNamed(PodName[PodOf[s]])
            \/ stopPC'[s] = "teardown" /\ relUID'[s] = relUID[s]
         /\ \A t \in Sandbox \ {s} : stopPC'[t] = stopPC[t] /\ relUID'[t] = relUID[t]
  BY Zenon DEF ReleaseGetPod, TypeOK, CAATypeOK, StopGoto

\* The effect of ReleasePatch, entry by entry.
LEMMA ReleasePatchEffect ==
  ASSUME TypeOK, NEW s \in Sandbox, ReleasePatch(s)
  PROVE  /\ stopPC[s] = "patch" /\ stopPC'[s] = "teardown" /\ relUID'[s] = None
         /\ \A n \in Node, u \in UID :
                 \/ podToPP'[n][u] = podToPP[n][u]
                 \/ n = NodeOf(s) /\ u = relUID[s] /\ podToPP'[n][u] = None
         /\ \A t \in Sandbox : \/ phase'[t] = phase[t]
                               \/ /\ podToPP[NodeOf(s)][relUID[s]] = t
                                  /\ phase'[t] = AfterFinalizerRemoved(phase[t])
         /\ \A t \in Sandbox \ {s} : stopPC'[t] = stopPC[t] /\ relUID'[t] = relUID[t]
<1>1. stopPC[s] = "patch" /\ stopPC'[s] = "teardown" /\ relUID'[s] = None
  BY Zenon DEF ReleasePatch, StopGoto, TypeOK, CAATypeOK
<1>2. \A t \in Sandbox \ {s} : stopPC'[t] = stopPC[t] /\ relUID'[t] = relUID[t]
  BY Zenon DEF ReleasePatch, StopGoto, TypeOK, CAATypeOK
<1>3. podToPP' \in {podToPP, [podToPP EXCEPT ![NodeOf(s)][relUID[s]] = None]}
  BY Zenon DEF ReleasePatch
<1>4. \A n \in Node, u \in UID :
        \/ podToPP'[n][u] = podToPP[n][u]
        \/ n = NodeOf(s) /\ u = relUID[s] /\ podToPP'[n][u] = None
  BY <1>3 DEF TypeOK, CAATypeOK
<1>5. \/ phase' = phase
      \/ phase' = [phase EXCEPT ![podToPP[NodeOf(s)][relUID[s]]] = AfterFinalizerRemoved(@)]
  BY Zenon DEF ReleasePatch
<1>6. \A t \in Sandbox : \/ phase'[t] = phase[t]
                         \/ /\ podToPP[NodeOf(s)][relUID[s]] = t
                            /\ phase'[t] = AfterFinalizerRemoved(phase[t])
  BY <1>5, Zenon DEF TypeOK, StoreTypeOK
<1>7. QED
  BY <1>1, <1>2, <1>4, <1>6, Zenon

\* The effect of StopTeardown, entry by entry.
LEMMA StopTeardownEffect ==
  ASSUME TypeOK, NEW s \in Sandbox, StopTeardown(s)
  PROVE  /\ stopPC[s] = "teardown" /\ stopPC'[s] = "remove"
         /\ \A t \in Sandbox \ {s} : stopPC'[t] = stopPC[t]
  BY Zenon DEF StopTeardown, TypeOK, CAATypeOK, StopGoto

\* The effect of RemoveSandbox, entry by entry.
LEMMA RemoveSandboxEffect ==
  ASSUME TypeOK, NEW s \in Sandbox, RemoveSandbox(s)
  PROVE  /\ stopPC[s] = "remove" /\ stopPC'[s] = "done"
         /\ sandboxes' = sandboxes \ {s} /\ instanceID'[s] = None
         /\ \A t \in Sandbox \ {s} : stopPC'[t] = stopPC[t] /\ instanceID'[t] = instanceID[t]
  BY Zenon DEF RemoveSandbox, TypeOK, CAATypeOK, StopGoto

\* The effect of Crash, entry by entry.
LEMMA CrashEffect ==
  ASSUME TypeOK, NEW n \in Node, Crash(n)
  PROVE  /\ \A t \in Sandbox : IF NodeOf(t) = n /\ Active(t)
                 THEN /\ t \notin sandboxes' /\ instanceID'[t] = None
                      /\ startPC'[t] = "dead" /\ stopPC'[t] = "dead"
                 ELSE /\ (t \in sandboxes' <=> t \in sandboxes) /\ instanceID'[t] = instanceID[t]
                      /\ startPC'[t] = startPC[t] /\ stopPC'[t] = stopPC[t]
         /\ \A t \in Sandbox : \/ startPC'[t] = "dead" /\ stopPC'[t] = "dead"
                               \/ ownUID'[t] = ownUID[t] /\ relUID'[t] = relUID[t]
         /\ \A m \in Node, u \in UID : podToPP'[m][u] = IF m = n THEN None ELSE podToPP[m][u]
         /\ handedOut \subseteq handedOut'
         /\ \A i \in Instance : vms'[i] = vms[i] \/ (vms[i] = None /\ vms'[i] = Orphan /\ i \in handedOut')
<1>1. UNCHANGED <<vms, handedOut>> \/ \E i \in Instance : Launch(i, Orphan)
  BY Zenon DEF Crash
<1>2. \A m \in Node, u \in UID : podToPP'[m][u] = IF m = n THEN None ELSE podToPP[m][u]
  BY Zenon DEF Crash, TypeOK, CAATypeOK
<1>3. \A t \in Sandbox : IF NodeOf(t) = n /\ Active(t)
        THEN /\ t \notin sandboxes' /\ instanceID'[t] = None
             /\ startPC'[t] = "dead" /\ stopPC'[t] = "dead"
        ELSE /\ (t \in sandboxes' <=> t \in sandboxes) /\ instanceID'[t] = instanceID[t]
             /\ startPC'[t] = startPC[t] /\ stopPC'[t] = stopPC[t]
  BY Zenon DEF Crash
<1>4. \A t \in Sandbox : \/ startPC'[t] = "dead" /\ stopPC'[t] = "dead"
                         \/ ownUID'[t] = ownUID[t] /\ relUID'[t] = relUID[t]
  BY Zenon DEF Crash
<1>5. QED
  BY <1>1, <1>2, <1>3, <1>4, OrphanEffect, Zenon

\* The effect of CacheSync, entry by entry.
LEMMA CacheSyncEffect ==
  ASSUME TypeOK, NEW s \in Sandbox, CacheSync(s)
  PROVE  /\ cache'[s] = phase[s]
         /\ \A t \in Sandbox \ {s} : cache'[t] = cache[t]
  BY Zenon DEF CacheSync, TypeOK, CtrlTypeOK

\* The effect of ReconcileLive, entry by entry.
LEMMA ReconcileLiveEffect ==
  ASSUME NEW s \in Sandbox, NEW deleted \in SUBSET Sandbox, ReconcileLive(s, deleted)
  PROVE  /\ ctrlPC = "idle" /\ cache[s] \in {"held", "released"}
         /\ \A t \in Sandbox : \/ phase'[t] = phase[t]
                               \/ t \in OldPeerPods(s) /\ phase'[t] = AfterDelete(phase[t])
  BY Zenon DEF ReconcileLive

\* The effect of ReconcileDeleting, entry by entry.
LEMMA ReconcileDeletingEffect ==
  ASSUME NEW s \in Sandbox, ReconcileDeleting(s)
  PROVE  /\ ctrlPC' = "delete" /\ ctrlPP' = s /\ cache[s] = "terminating"
  BY Zenon DEF ReconcileDeleting

\* The effect of CtrlDeleteOK, entry by entry.
LEMMA CtrlDeleteOKEffect ==
  ASSUME TypeOK, NEW s \in Sandbox, CtrlDeleteOK(s)
  PROVE  /\ ctrlPC = "delete" /\ ctrlPC' = "update" /\ ctrlPP = s
         /\ ppInstance[s] # None => vms'[ppInstance[s]] = None
         /\ \A i \in Instance : vms'[i] = vms[i] \/ (i = ppInstance[s] /\ vms'[i] = None)
  BY Zenon DEF CtrlDeleteOK, TypeOK, StoreTypeOK, DeleteInstanceOK

\* The effect of CtrlDeleteFails, entry by entry.
LEMMA CtrlDeleteFailsEffect ==
  ASSUME TypeOK, NEW s \in Sandbox, CtrlDeleteFails(s)
  PROVE  /\ ctrlPC = "delete" /\ ctrlPC' = "idle"
         /\ \A i \in Instance : vms'[i] \in {vms[i], None}
  BY Zenon DEF CtrlDeleteFails, TypeOK, StoreTypeOK, DeleteInstanceFails

\* The effect of CtrlUpdateOK, entry by entry.
LEMMA CtrlUpdateOKEffect ==
  ASSUME TypeOK, NEW s \in Sandbox, CtrlUpdateOK(s)
  PROVE  /\ ctrlPC = "update" /\ ctrlPC' = "idle" /\ ctrlPP = s
         /\ phase'[s] = AfterFinalizerRemoved(phase[s])
         /\ \A t \in Sandbox \ {s} : phase'[t] = phase[t]
  BY Zenon DEF CtrlUpdateOK, TypeOK, StoreTypeOK

\* The effect of CtrlAbort, entry by entry.
LEMMA CtrlAbortEffect ==
  ASSUME CtrlAbort
  PROVE  /\ ctrlPC' = "idle"
  BY Zenon DEF CtrlAbort

\* The effect of PodCreated, entry by entry.
LEMMA PodCreatedEffect ==
  ASSUME TypeOK, NEW u \in UID, PodCreated(u)
  PROVE  /\ pods[u] = "absent" /\ pods'[u] = "exists"
         /\ \A v \in UID \ {u} : pods'[v] = pods[v]
  BY Zenon DEF PodCreated, TypeOK, StoreTypeOK

\* The effect of PodDeleted, entry by entry.
LEMMA PodDeletedEffect ==
  ASSUME TypeOK, NEW u \in UID, PodDeleted(u)
  PROVE  /\ pods[u] = "exists" /\ pods'[u] = "deleted"
         /\ \A v \in UID \ {u} : pods'[v] = pods[v]
  BY Zenon DEF PodDeleted, TypeOK, StoreTypeOK

\* The effect of GarbageCollect, entry by entry.
LEMMA GarbageCollectEffect ==
  ASSUME TypeOK, NEW s \in Sandbox, GarbageCollect(s)
  PROVE  /\ phase[s] \in {"held", "released"} /\ pods[owner[s]] # "exists"
         /\ phase'[s] = AfterDelete(phase[s])
         /\ \A t \in Sandbox \ {s} : phase'[t] = phase[t]
  BY Zenon DEF GarbageCollect, TypeOK, StoreTypeOK

\* The effect of ClockTick, entry by entry.
LEMMA ClockTickEffect ==
  ASSUME ClockTick
  PROVE  /\ now' = now + 1
  BY Zenon DEF ClockTick

\* Setting an entry of podToPP keeps its type.
LEMMA MapType ==
  ASSUME NEW f \in [Node -> [UID -> Sandbox \cup {None}]],
         NEW n, NEW u, NEW v \in Sandbox \cup {None}
  PROVE  [f EXCEPT ![n][u] = v] \in [Node -> [UID -> Sandbox \cup {None}]]
  BY Zenon

\* The initial state has the right types.
LEMMA InitType == ASSUME Init PROVE TypeOK
<1>1. StoreTypeOK
  BY StoreAssumption DEF Init, StoreInit, StoreTypeOK, Phase
<1>2. CAATypeOK
  BY CloudServiceAssumption DEF Init, CAAInit, CAATypeOK, StartPC, StopPC
<1>3. CtrlTypeOK
  BY Zenon DEF Init, CtrlInit, CtrlTypeOK, Phase
<1>4. QED
  BY <1>1, <1>2, <1>3, Zenon DEF TypeOK

\* Every step keeps the types of the objects and the instances.
LEMMA StoreTypeStep ==
  ASSUME TypeOK, [Next]_vars
  PROVE  StoreTypeOK'
<1>1. ASSUME NEW s \in Sandbox, CreateInstanceOK(s), UNCHANGED <<pods, phase, owner,
             ppInstance, created, now>>
      PROVE  StoreTypeOK'
  BY <1>1 DEF TypeOK, StoreTypeOK, CreateInstanceOK, Launch
<1>2. ASSUME NEW s \in Sandbox, CreateInstanceFails(s), UNCHANGED <<pods, phase, owner,
             ppInstance, created, now>>
      PROVE  StoreTypeOK'
  BY <1>2, Zenon DEF TypeOK, StoreTypeOK, CreateInstanceFails, Launch
<1>3. ASSUME NEW s \in Sandbox, OwnPost(s), UNCHANGED <<pods, now, vms, handedOut>>
      PROVE  StoreTypeOK'
  <2>1. /\ phase' \in [Sandbox -> Phase] /\ owner' \in [Sandbox -> UID \cup {None}]
    BY <1>3 DEF TypeOK, StoreTypeOK, CAATypeOK, OwnPost, Phase
  <2>2. /\ ppInstance' \in [Sandbox -> Instance \cup {None}]
        /\ created' \in [Sandbox -> 0..MaxTime]
    BY <1>3 DEF TypeOK, StoreTypeOK, CAATypeOK, OwnPost
  <2>3. QED
    BY <1>3, <2>1, <2>2, Zenon DEF TypeOK, StoreTypeOK
<1>4. ASSUME NEW s \in Sandbox, StopDelete(s), UNCHANGED <<pods, phase, owner, ppInstance,
             created, now, handedOut>>
      PROVE  StoreTypeOK'
  BY <1>4, Zenon DEF TypeOK, StoreTypeOK, StopDelete, DeleteInstanceOK, DeleteInstanceFails
<1>5. ASSUME NEW s \in Sandbox, ReleasePatch(s), UNCHANGED <<pods, owner, ppInstance,
             created, now, vms, handedOut>>
      PROVE  StoreTypeOK'
  BY <1>5, Zenon DEF TypeOK, StoreTypeOK, ReleasePatch, Phase, AfterFinalizerRemoved
<1>6. ASSUME NEW n \in Node, Crash(n), UNCHANGED <<pods, phase, owner, ppInstance, created,
             now>>
      PROVE  StoreTypeOK'
  BY <1>6, Zenon DEF TypeOK, StoreTypeOK, Crash, Launch
<1>7. ASSUME NEW s \in Sandbox, NEW deleted \in SUBSET Sandbox, ReconcileLive(s, deleted),
             UNCHANGED <<pods, owner, ppInstance, created, now, vms, handedOut>>
      PROVE  StoreTypeOK'
  BY <1>7, Zenon DEF TypeOK, StoreTypeOK, ReconcileLive, Phase, AfterDelete
<1>8. ASSUME NEW s \in Sandbox, CtrlDeleteOK(s), UNCHANGED <<pods, phase, owner, ppInstance,
             created, now, handedOut>>
      PROVE  StoreTypeOK'
  BY <1>8, Zenon DEF TypeOK, StoreTypeOK, CtrlDeleteOK, DeleteInstanceOK
<1>9. ASSUME NEW s \in Sandbox, CtrlDeleteFails(s), UNCHANGED <<pods, phase, owner,
             ppInstance, created, now, handedOut>>
      PROVE  StoreTypeOK'
  BY <1>9, Zenon DEF TypeOK, StoreTypeOK, CtrlDeleteFails, DeleteInstanceFails
<1>10. ASSUME NEW s \in Sandbox, CtrlUpdateOK(s), UNCHANGED <<pods, owner, ppInstance,
             created, now, vms, handedOut>>
      PROVE  StoreTypeOK'
  BY <1>10, Zenon DEF TypeOK, StoreTypeOK, CtrlUpdateOK, Phase, AfterFinalizerRemoved
<1>11. ASSUME NEW u \in UID, PodCreated(u), UNCHANGED <<phase, owner, ppInstance, created,
             now, vms, handedOut>>
      PROVE  StoreTypeOK'
  BY <1>11, Zenon DEF TypeOK, StoreTypeOK, PodCreated
<1>12. ASSUME NEW u \in UID, PodDeleted(u), UNCHANGED <<phase, owner, ppInstance, created,
             now, vms, handedOut>>
      PROVE  StoreTypeOK'
  BY <1>12, Zenon DEF TypeOK, StoreTypeOK, PodDeleted
<1>13. ASSUME NEW s \in Sandbox, GarbageCollect(s), UNCHANGED <<pods, owner, ppInstance,
             created, now, vms, handedOut>>
      PROVE  StoreTypeOK'
  BY <1>13, Zenon DEF TypeOK, StoreTypeOK, GarbageCollect, Phase, AfterDelete
<1>14. ASSUME ClockTick, UNCHANGED <<pods, phase, owner, ppInstance, created, vms,
             handedOut>>
      PROVE  StoreTypeOK'
  <2>1. now' \in 0..MaxTime
    BY <1>14, StoreAssumption DEF TypeOK, StoreTypeOK, ClockTick
  <2>2. QED
    BY <1>14, <2>1, Zenon DEF TypeOK, StoreTypeOK
<1>15. CASE UNCHANGED <<pods, phase, owner, ppInstance, created, now, vms, handedOut>>
  BY <1>15, Zenon DEF TypeOK, StoreTypeOK
<1>16. QED
  BY <1>1, <1>2, <1>3, <1>4, <1>5, <1>6, <1>7, <1>8, <1>9, <1>10, <1>11, <1>12, <1>13,
     <1>14, <1>15, StepCases, Zenon DEF vars

\* Every step keeps the types of what the adaptors hold.
LEMMA CAATypeStep ==
  ASSUME TypeOK, [Next]_vars
  PROVE  CAATypeOK'
<1>1. ASSUME NEW s \in Sandbox, CreateVM(s), UNCHANGED <<instanceID, podToPP, instance,
             ownUID, stopPC, relUID, crashes>>
      PROVE  CAATypeOK'
  BY <1>1, Zenon DEF TypeOK, CAATypeOK, CreateVM, StartGoto, StartPC
<1>2. ASSUME NEW s \in Sandbox, StartVM(s), UNCHANGED <<sandboxes, instanceID, podToPP,
             instance, ownUID, stopPC, relUID, crashes>>
      PROVE  CAATypeOK'
  BY <1>2, Zenon DEF TypeOK, CAATypeOK, StartVM, StartGoto, StartPC
<1>3. ASSUME NEW s \in Sandbox, CreateInstanceOK(s), UNCHANGED <<sandboxes, instanceID,
             podToPP, ownUID, stopPC, relUID, crashes>>
      PROVE  CAATypeOK'
  BY <1>3 DEF TypeOK, CAATypeOK, CreateInstanceOK, StartGoto, StartPC
<1>4. ASSUME NEW s \in Sandbox, CreateInstanceFails(s), UNCHANGED <<sandboxes, instanceID,
             podToPP, instance, ownUID, stopPC, relUID, crashes>>
      PROVE  CAATypeOK'
  BY <1>4, Zenon DEF TypeOK, CAATypeOK, CreateInstanceFails, StartGoto, StartPC
<1>5. ASSUME NEW s \in Sandbox, OwnGetPod(s), UNCHANGED <<sandboxes, instanceID, podToPP,
             instance, stopPC, relUID, crashes>>
      PROVE  CAATypeOK'
  BY <1>5 DEF TypeOK, CAATypeOK, OwnGetPod, StartGoto, StartPC, PodsNamed
<1>6. ASSUME NEW s \in Sandbox, OwnPost(s), UNCHANGED <<sandboxes, instanceID, podToPP,
             instance, stopPC, relUID, crashes>>
      PROVE  CAATypeOK'
  BY <1>6, Zenon DEF TypeOK, CAATypeOK, OwnPost, StartGoto, StartPC
<1>7. ASSUME NEW s \in Sandbox, OwnMap(s), UNCHANGED <<sandboxes, instanceID, instance,
             stopPC, relUID, crashes>>
      PROVE  CAATypeOK'
  <2>1. podToPP' = [podToPP EXCEPT ![NodeOf(s)][ownUID[s]] = s]
    BY <1>7, Zenon DEF OwnMap
  <2>2. podToPP' \in [Node -> [UID -> Sandbox \cup {None}]]
    BY <2>1, MapType, Zenon DEF TypeOK, CAATypeOK
  <2>3. startPC' \in [Sandbox -> StartPC] /\ ownUID' \in [Sandbox -> UID \cup {None}]
    BY <1>7, Zenon DEF TypeOK, CAATypeOK, OwnMap, StartGoto, StartPC
  <2>4. QED
    BY <1>7, <2>2, <2>3, Zenon DEF TypeOK, CAATypeOK
<1>8. ASSUME NEW s \in Sandbox, SetInstance(s), UNCHANGED <<sandboxes, podToPP, instance,
             ownUID, stopPC, relUID, crashes>>
      PROVE  CAATypeOK'
  BY <1>8, Zenon DEF TypeOK, CAATypeOK, SetInstance, StartGoto, StartPC
<1>9. ASSUME NEW s \in Sandbox, SetupNetwork(s), UNCHANGED <<sandboxes, instanceID, podToPP,
             instance, ownUID, stopPC, relUID, crashes>>
      PROVE  CAATypeOK'
  BY <1>9, Zenon DEF TypeOK, CAATypeOK, SetupNetwork, StartGoto, StartPC
<1>10. ASSUME NEW s \in Sandbox, AwaitProxy(s), UNCHANGED <<sandboxes, instanceID, podToPP,
             instance, ownUID, stopPC, relUID, crashes>>
      PROVE  CAATypeOK'
  BY <1>10, Zenon DEF TypeOK, CAATypeOK, AwaitProxy, StartGoto, StartPC
<1>11. ASSUME NEW s \in Sandbox, StopVM(s), UNCHANGED <<sandboxes, instanceID, podToPP,
             startPC, instance, ownUID, relUID, crashes>>
      PROVE  CAATypeOK'
  BY <1>11, Zenon DEF TypeOK, CAATypeOK, StopVM, StopGoto, StopPC
<1>12. ASSUME NEW s \in Sandbox, StopDelete(s), UNCHANGED <<sandboxes, instanceID, podToPP,
             startPC, instance, ownUID, relUID, crashes>>
      PROVE  CAATypeOK'
  BY <1>12, Zenon DEF TypeOK, CAATypeOK, StopDelete, StopGoto, StopPC
<1>13. ASSUME NEW s \in Sandbox, ReleaseGetPod(s), UNCHANGED <<sandboxes, instanceID,
             podToPP, startPC, instance, ownUID, crashes>>
      PROVE  CAATypeOK'
  BY <1>13 DEF TypeOK, CAATypeOK, ReleaseGetPod, StopGoto, StopPC, PodsNamed
<1>14. ASSUME NEW s \in Sandbox, ReleasePatch(s), UNCHANGED <<sandboxes, instanceID,
             startPC, instance, ownUID, crashes>>
      PROVE  CAATypeOK'
  <2>1. podToPP' = podToPP \/ podToPP' = [podToPP EXCEPT ![NodeOf(s)][relUID[s]] = None]
    BY <1>14, Zenon DEF ReleasePatch
  <2>2. podToPP \in [Node -> [UID -> Sandbox \cup {None}]]
    BY Zenon DEF TypeOK, CAATypeOK
  <2>3. [podToPP EXCEPT ![NodeOf(s)][relUID[s]] = None] \in [Node -> [UID -> Sandbox \cup {None}]]
    BY <2>2, MapType, Zenon
  <2>4. podToPP' \in [Node -> [UID -> Sandbox \cup {None}]]
    BY <2>1, <2>2, <2>3, Zenon
  <2>5. stopPC' \in [Sandbox -> StopPC] /\ relUID' \in [Sandbox -> UID \cup {None}]
    BY <1>14, Zenon DEF TypeOK, CAATypeOK, ReleasePatch, StopGoto, StopPC
  <2>6. QED
    BY <1>14, <2>4, <2>5, Zenon DEF TypeOK, CAATypeOK
<1>15. ASSUME NEW s \in Sandbox, StopTeardown(s), UNCHANGED <<sandboxes, instanceID,
             podToPP, startPC, instance, ownUID, relUID, crashes>>
      PROVE  CAATypeOK'
  BY <1>15, Zenon DEF TypeOK, CAATypeOK, StopTeardown, StopGoto, StopPC
<1>16. ASSUME NEW s \in Sandbox, RemoveSandbox(s), UNCHANGED <<podToPP, startPC, instance,
             ownUID, relUID, crashes>>
      PROVE  CAATypeOK'
  BY <1>16, Zenon DEF TypeOK, CAATypeOK, RemoveSandbox, StopGoto, StopPC
<1>17. ASSUME NEW n \in Node, Crash(n), UNCHANGED <<instance>>
      PROVE  CAATypeOK'
  BY <1>17, CloudServiceAssumption DEF TypeOK, CAATypeOK, Crash, StartPC, StopPC
<1>18. CASE UNCHANGED <<sandboxes, instanceID, podToPP, startPC, instance, ownUID, stopPC, relUID, crashes>>
  BY <1>18, Zenon DEF TypeOK, CAATypeOK
<1>19. QED
  BY <1>1, <1>2, <1>3, <1>4, <1>5, <1>6, <1>7, <1>8, <1>9, <1>10, <1>11, <1>12, <1>13,
     <1>14, <1>15, <1>16, <1>17, <1>18, StepCases, Zenon DEF vars

\* Every step keeps the types of what the controller holds.
LEMMA CtrlTypeStep ==
  ASSUME TypeOK, [Next]_vars
  PROVE  CtrlTypeOK'
<1>1. ASSUME NEW s \in Sandbox, CacheSync(s), UNCHANGED <<ctrlPC, ctrlPP>>
      PROVE  CtrlTypeOK'
  BY <1>1, Zenon DEF TypeOK, CtrlTypeOK, CacheSync, StoreTypeOK
<1>2. ASSUME NEW s \in Sandbox, ReconcileDeleting(s), UNCHANGED <<cache>>
      PROVE  CtrlTypeOK'
  BY <1>2, Zenon DEF TypeOK, CtrlTypeOK, ReconcileDeleting
<1>3. ASSUME NEW s \in Sandbox, CtrlDeleteOK(s), UNCHANGED <<cache, ctrlPP>>
      PROVE  CtrlTypeOK'
  BY <1>3, Zenon DEF TypeOK, CtrlTypeOK, CtrlDeleteOK
<1>4. ASSUME NEW s \in Sandbox, CtrlDeleteFails(s), UNCHANGED <<cache>>
      PROVE  CtrlTypeOK'
  BY <1>4, Zenon DEF TypeOK, CtrlTypeOK, CtrlDeleteFails
<1>5. ASSUME NEW s \in Sandbox, CtrlUpdateOK(s), UNCHANGED <<cache>>
      PROVE  CtrlTypeOK'
  BY <1>5, Zenon DEF TypeOK, CtrlTypeOK, CtrlUpdateOK
<1>6. ASSUME CtrlAbort, UNCHANGED <<cache>>
      PROVE  CtrlTypeOK'
  BY <1>6, Zenon DEF TypeOK, CtrlTypeOK, CtrlAbort
<1>7. CASE UNCHANGED <<cache, ctrlPC, ctrlPP>>
  BY <1>7, Zenon DEF TypeOK, CtrlTypeOK
<1>8. QED
  BY <1>1, <1>2, <1>3, <1>4, <1>5, <1>6, <1>7, StepCases, Zenon DEF vars

\* Every variable of the adaptors, the controller and the store keeps its type.
THEOREM TypeCorrect == Spec => []TypeOK
<1>1. Init => TypeOK
  BY InitType, Zenon
<1>2. TypeOK /\ [Next]_vars => TypeOK'
  BY StoreTypeStep, CAATypeStep, CtrlTypeStep, Zenon DEF TypeOK
<1>3. QED
  BY <1>1, <1>2, PTL DEF Spec

-----------------------------------------------------------------------------
(* BaseInv, conjunct by conjunct.                                           *)

\* Every step keeps Lifecycle.
LEMMA LifecycleStep ==
  ASSUME TypeOK, Lifecycle, [Next]_vars
  PROVE  Lifecycle'
<1>1. ASSUME NEW s \in Sandbox, CreateVM(s), UNCHANGED <<pods, stopPC>>
      PROVE  Lifecycle'
  BY <1>1, CreateVMEffect DEF Lifecycle, Active, StartSteps, StopSteps
<1>2. ASSUME NEW s \in Sandbox, StartVM(s), UNCHANGED <<pods, sandboxes, stopPC>>
      PROVE  Lifecycle'
  BY <1>2, StartVMEffect, Zenon DEF Lifecycle
<1>3. ASSUME NEW s \in Sandbox, CreateInstanceOK(s), UNCHANGED <<pods, sandboxes, stopPC>>
      PROVE  Lifecycle'
  BY <1>3, CreateInstanceOKEffect DEF Lifecycle
<1>4. ASSUME NEW s \in Sandbox, CreateInstanceFails(s), UNCHANGED <<pods, sandboxes,
             stopPC>>
      PROVE  Lifecycle'
  BY <1>4, CreateInstanceFailsEffect DEF Lifecycle
<1>5. ASSUME NEW s \in Sandbox, OwnGetPod(s), UNCHANGED <<pods, sandboxes, stopPC>>
      PROVE  Lifecycle'
  BY <1>5, OwnGetPodEffect DEF Lifecycle
<1>6. ASSUME NEW s \in Sandbox, OwnPost(s), UNCHANGED <<pods, sandboxes, stopPC>>
      PROVE  Lifecycle'
  BY <1>6, OwnPostEffect DEF Lifecycle
<1>7. ASSUME NEW s \in Sandbox, OwnMap(s), UNCHANGED <<pods, sandboxes, stopPC>>
      PROVE  Lifecycle'
  BY <1>7, OwnMapEffect DEF Lifecycle
<1>8. ASSUME NEW s \in Sandbox, SetInstance(s), UNCHANGED <<pods, sandboxes, stopPC>>
      PROVE  Lifecycle'
  BY <1>8, SetInstanceEffect DEF Lifecycle
<1>9. ASSUME NEW s \in Sandbox, SetupNetwork(s), UNCHANGED <<pods, sandboxes, stopPC>>
      PROVE  Lifecycle'
  BY <1>9, SetupNetworkEffect DEF Lifecycle
<1>10. ASSUME NEW s \in Sandbox, AwaitProxy(s), UNCHANGED <<pods, sandboxes, stopPC>>
      PROVE  Lifecycle'
  BY <1>10, AwaitProxyEffect DEF Lifecycle
<1>11. ASSUME NEW s \in Sandbox, StopVM(s), UNCHANGED <<pods, sandboxes, startPC>>
      PROVE  Lifecycle'
  BY <1>11, StopVMEffect, Zenon DEF Lifecycle, StopSteps
<1>12. ASSUME NEW s \in Sandbox, StopDelete(s), UNCHANGED <<pods, sandboxes, startPC>>
      PROVE  Lifecycle'
  BY <1>12, StopDeleteEffect, Zenon DEF Lifecycle, StopSteps
<1>13. ASSUME NEW s \in Sandbox, ReleaseGetPod(s), UNCHANGED <<pods, sandboxes, startPC>>
      PROVE  Lifecycle'
  BY <1>13, ReleaseGetPodEffect, Zenon DEF Lifecycle, StopSteps
<1>14. ASSUME NEW s \in Sandbox, ReleasePatch(s), UNCHANGED <<pods, sandboxes, startPC>>
      PROVE  Lifecycle'
  BY <1>14, ReleasePatchEffect DEF Lifecycle, StopSteps
<1>15. ASSUME NEW s \in Sandbox, StopTeardown(s), UNCHANGED <<pods, sandboxes, startPC>>
      PROVE  Lifecycle'
  BY <1>15, StopTeardownEffect, Zenon DEF Lifecycle, StopSteps
<1>16. ASSUME NEW s \in Sandbox, RemoveSandbox(s), UNCHANGED <<pods, startPC>>
      PROVE  Lifecycle'
  BY <1>16, RemoveSandboxEffect, Zenon DEF Lifecycle, StopSteps
<1>17. ASSUME NEW n \in Node, Crash(n), UNCHANGED <<pods>>
      PROVE  Lifecycle'
  BY <1>17, CrashEffect DEF Lifecycle, Active, StartSteps, StopSteps
<1>18. ASSUME NEW u \in UID, PodCreated(u), UNCHANGED <<sandboxes, startPC, stopPC>>
      PROVE  Lifecycle'
  BY <1>18, StoreAssumption, PodCreatedEffect DEF Lifecycle
<1>19. ASSUME NEW u \in UID, PodDeleted(u), UNCHANGED <<sandboxes, startPC, stopPC>>
      PROVE  Lifecycle'
  BY <1>19, StoreAssumption, PodDeletedEffect DEF Lifecycle
<1>20. CASE UNCHANGED <<pods, sandboxes, startPC, stopPC>>
  BY <1>20, Zenon DEF Lifecycle
<1>21. QED
  BY <1>1, <1>2, <1>3, <1>4, <1>5, <1>6, <1>7, <1>8, <1>9, <1>10, <1>11, <1>12, <1>13,
     <1>14, <1>15, <1>16, <1>17, <1>18, <1>19, <1>20, StepCases, Zenon DEF vars

\* Every step keeps Locals.
LEMMA LocalsStep ==
  ASSUME UniqueNames, TypeOK, Locals, [Next]_vars
  PROVE  Locals'
<1>1. ASSUME NEW s \in Sandbox, CreateVM(s), UNCHANGED <<stopPC, instance, ownUID, relUID,
             instanceID, vms>>
      PROVE  Locals'
  BY <1>1, CreateVMEffect DEF Locals
<1>2. ASSUME NEW s \in Sandbox, StartVM(s), UNCHANGED <<stopPC, instance, ownUID, relUID,
             instanceID, vms>>
      PROVE  Locals'
  BY <1>2, StartVMEffect, Zenon DEF Locals
<1>3. ASSUME NEW s \in Sandbox, CreateInstanceOK(s), UNCHANGED <<stopPC, ownUID, relUID,
             instanceID>>
      PROVE  Locals'
  BY <1>3, StoreAssumption, CreateInstanceOKEffect DEF Locals
<1>4. ASSUME NEW s \in Sandbox, CreateInstanceFails(s), UNCHANGED <<stopPC, instance,
             ownUID, relUID, instanceID>>
      PROVE  Locals'
  BY <1>4, StoreAssumption, CreateInstanceFailsEffect DEF Locals
<1>5. ASSUME NEW s \in Sandbox, OwnGetPod(s), UNCHANGED <<stopPC, instance, relUID,
             instanceID, vms>>
      PROVE  Locals'
  BY <1>5, StoreAssumption, OwnGetPodEffect DEF Locals, PodsNamed, UniqueNames
<1>6. ASSUME NEW s \in Sandbox, OwnPost(s), UNCHANGED <<stopPC, instance, relUID,
             instanceID, vms>>
      PROVE  Locals'
  BY <1>6, OwnPostEffect DEF Locals
<1>7. ASSUME NEW s \in Sandbox, OwnMap(s), UNCHANGED <<stopPC, instance, relUID, instanceID,
             vms>>
      PROVE  Locals'
  BY <1>7, OwnMapEffect DEF Locals
<1>8. ASSUME NEW s \in Sandbox, SetInstance(s), UNCHANGED <<stopPC, instance, ownUID,
             relUID, vms>>
      PROVE  Locals'
  BY <1>8, SetInstanceEffect DEF Locals
<1>9. ASSUME NEW s \in Sandbox, SetupNetwork(s), UNCHANGED <<stopPC, instance, ownUID,
             relUID, instanceID, vms>>
      PROVE  Locals'
  BY <1>9, SetupNetworkEffect DEF Locals
<1>10. ASSUME NEW s \in Sandbox, AwaitProxy(s), UNCHANGED <<stopPC, instance, ownUID,
             relUID, instanceID, vms>>
      PROVE  Locals'
  BY <1>10, AwaitProxyEffect DEF Locals
<1>11. ASSUME NEW s \in Sandbox, StopVM(s), UNCHANGED <<startPC, instance, ownUID, relUID,
             instanceID, vms>>
      PROVE  Locals'
  BY <1>11, StopVMEffect, Zenon DEF Locals
<1>12. ASSUME NEW s \in Sandbox, StopDelete(s), UNCHANGED <<startPC, instance, ownUID,
             relUID, instanceID>>
      PROVE  Locals'
  BY <1>12, StoreAssumption, StopDeleteEffect DEF Locals
<1>13. ASSUME NEW s \in Sandbox, ReleaseGetPod(s), UNCHANGED <<startPC, instance, ownUID,
             instanceID, vms>>
      PROVE  Locals'
  BY <1>13, StoreAssumption, ReleaseGetPodEffect DEF Locals, PodsNamed, UniqueNames
<1>14. ASSUME NEW s \in Sandbox, ReleasePatch(s), UNCHANGED <<startPC, instance, ownUID,
             instanceID, vms>>
      PROVE  Locals'
  BY <1>14, ReleasePatchEffect DEF Locals
<1>15. ASSUME NEW s \in Sandbox, StopTeardown(s), UNCHANGED <<startPC, instance, ownUID,
             relUID, instanceID, vms>>
      PROVE  Locals'
  BY <1>15, StopTeardownEffect, Zenon DEF Locals
<1>16. ASSUME NEW s \in Sandbox, RemoveSandbox(s), UNCHANGED <<startPC, instance, ownUID,
             relUID, vms>>
      PROVE  Locals'
  BY <1>16, RemoveSandboxEffect DEF Locals
<1>17. ASSUME NEW n \in Node, Crash(n), UNCHANGED <<instance>>
      PROVE  Locals'
  BY <1>17, StoreAssumption, CrashEffect DEF Locals
<1>18. ASSUME NEW s \in Sandbox, CtrlDeleteOK(s), UNCHANGED <<startPC, stopPC, instance,
             ownUID, relUID, instanceID>>
      PROVE  Locals'
  BY <1>18, StoreAssumption, CtrlDeleteOKEffect DEF Locals
<1>19. ASSUME NEW s \in Sandbox, CtrlDeleteFails(s), UNCHANGED <<startPC, stopPC, instance,
             ownUID, relUID, instanceID>>
      PROVE  Locals'
  BY <1>19, StoreAssumption, CtrlDeleteFailsEffect DEF Locals
<1>20. CASE UNCHANGED <<startPC, stopPC, instance, ownUID, relUID, instanceID, vms>>
  BY <1>20, Zenon DEF Locals
<1>21. QED
  BY <1>1, <1>2, <1>3, <1>4, <1>5, <1>6, <1>7, <1>8, <1>9, <1>10, <1>11, <1>12, <1>13,
     <1>14, <1>15, <1>16, <1>17, <1>18, <1>19, <1>20, StepCases, Zenon DEF vars

\* Every step keeps Serial.
LEMMA SerialStep ==
  ASSUME TypeOK, Lifecycle, Serial, [Next]_vars
  PROVE  Serial'
<1>1. ASSUME NEW s \in Sandbox, CreateVM(s), UNCHANGED <<stopPC>>
      PROVE  Serial'
  BY <1>1, CreateVMEffect DEF Serial, Lifecycle, Active, StartSteps, StopSteps
<1>2. ASSUME NEW s \in Sandbox, StartVM(s), UNCHANGED <<stopPC, sandboxes>>
      PROVE  Serial'
  BY <1>2, StartVMEffect, Zenon DEF Serial, StartSteps
<1>3. ASSUME NEW s \in Sandbox, CreateInstanceOK(s), UNCHANGED <<stopPC, sandboxes>>
      PROVE  Serial'
  BY <1>3, CreateInstanceOKEffect DEF Serial, StartSteps
<1>4. ASSUME NEW s \in Sandbox, CreateInstanceFails(s), UNCHANGED <<stopPC, sandboxes>>
      PROVE  Serial'
  BY <1>4, CreateInstanceFailsEffect, Zenon DEF Serial, StartSteps
<1>5. ASSUME NEW s \in Sandbox, OwnGetPod(s), UNCHANGED <<stopPC, sandboxes>>
      PROVE  Serial'
  BY <1>5, OwnGetPodEffect, Zenon DEF Serial, StartSteps
<1>6. ASSUME NEW s \in Sandbox, OwnPost(s), UNCHANGED <<stopPC, sandboxes>>
      PROVE  Serial'
  BY <1>6, OwnPostEffect, Zenon DEF Serial, StartSteps
<1>7. ASSUME NEW s \in Sandbox, OwnMap(s), UNCHANGED <<stopPC, sandboxes>>
      PROVE  Serial'
  BY <1>7, OwnMapEffect, Zenon DEF Serial, StartSteps
<1>8. ASSUME NEW s \in Sandbox, SetInstance(s), UNCHANGED <<stopPC, sandboxes>>
      PROVE  Serial'
  BY <1>8, SetInstanceEffect, Zenon DEF Serial, StartSteps
<1>9. ASSUME NEW s \in Sandbox, SetupNetwork(s), UNCHANGED <<stopPC, sandboxes>>
      PROVE  Serial'
  BY <1>9, SetupNetworkEffect, Zenon DEF Serial, StartSteps
<1>10. ASSUME NEW s \in Sandbox, AwaitProxy(s), UNCHANGED <<stopPC, sandboxes>>
      PROVE  Serial'
  BY <1>10, AwaitProxyEffect, Zenon DEF Serial, StartSteps
<1>11. ASSUME NEW s \in Sandbox, StopVM(s), UNCHANGED <<startPC, sandboxes>>
      PROVE  Serial'
  BY <1>11, StopVMEffect, Zenon DEF Serial, StartSteps
<1>12. ASSUME NEW s \in Sandbox, StopDelete(s), UNCHANGED <<startPC, sandboxes>>
      PROVE  Serial'
  BY <1>12, StopDeleteEffect, Zenon DEF Serial, StartSteps
<1>13. ASSUME NEW s \in Sandbox, ReleaseGetPod(s), UNCHANGED <<startPC, sandboxes>>
      PROVE  Serial'
  BY <1>13, ReleaseGetPodEffect, Zenon DEF Serial
<1>14. ASSUME NEW s \in Sandbox, ReleasePatch(s), UNCHANGED <<startPC, sandboxes>>
      PROVE  Serial'
  BY <1>14, ReleasePatchEffect, Zenon DEF Serial
<1>15. ASSUME NEW s \in Sandbox, StopTeardown(s), UNCHANGED <<startPC, sandboxes>>
      PROVE  Serial'
  BY <1>15, StopTeardownEffect, Zenon DEF Serial
<1>16. ASSUME NEW s \in Sandbox, RemoveSandbox(s), UNCHANGED <<startPC>>
      PROVE  Serial'
  BY <1>16, RemoveSandboxEffect, Zenon DEF Serial
<1>17. ASSUME NEW n \in Node, Crash(n)
      PROVE  Serial'
  BY <1>17, CrashEffect DEF Serial, StartSteps
<1>18. CASE UNCHANGED <<startPC, stopPC, sandboxes>>
  BY <1>18, Zenon DEF Serial
<1>19. QED
  BY <1>1, <1>2, <1>3, <1>4, <1>5, <1>6, <1>7, <1>8, <1>9, <1>10, <1>11, <1>12, <1>13,
     <1>14, <1>15, <1>16, <1>17, <1>18, StepCases, Zenon DEF vars

\* The node a sandbox runs on and the Pod it runs for.
LEMMA NodeInNode == \A s \in Sandbox : NodeOf(s) \in Node /\ PodOf[s] \in UID
  BY StoreAssumption, Zenon DEF NodeOf

\* Every step keeps Bookkeeping.
LEMMA BookkeepingStep ==
  ASSUME TypeOK, Locals, Bookkeeping, [Next]_vars
  PROVE  Bookkeeping'
<1>1. ASSUME NEW s \in Sandbox, CreateVM(s), UNCHANGED <<phase, ppInstance, instance, owner,
             podToPP, instanceID>>
      PROVE  Bookkeeping'
  BY <1>1, NodeInNode, CreateVMEffect DEF Bookkeeping, Mapped
<1>2. ASSUME NEW s \in Sandbox, StartVM(s), UNCHANGED <<phase, ppInstance, instance, owner,
             podToPP, sandboxes, instanceID>>
      PROVE  Bookkeeping'
  BY <1>2, StartVMEffect DEF Bookkeeping, Mapped
<1>3. ASSUME NEW s \in Sandbox, CreateInstanceOK(s), UNCHANGED <<phase, ppInstance, owner,
             podToPP, sandboxes, instanceID>>
      PROVE  Bookkeeping'
  <2>1. phase[s] = "none" /\ \A n \in Node, u \in UID : podToPP[n][u] # s
    BY <1>3, CreateInstanceOKEffect DEF Bookkeeping
  <2>2. QED
    BY <1>3, <2>1, CreateInstanceOKEffect, NodeInNode DEF Bookkeeping, Mapped
<1>4. ASSUME NEW s \in Sandbox, CreateInstanceFails(s), UNCHANGED <<phase, ppInstance,
             instance, owner, podToPP, sandboxes, instanceID>>
      PROVE  Bookkeeping'
  BY <1>4, CreateInstanceFailsEffect DEF Bookkeeping, Mapped
<1>5. ASSUME NEW s \in Sandbox, OwnGetPod(s), UNCHANGED <<phase, ppInstance, instance,
             owner, podToPP, sandboxes, instanceID>>
      PROVE  Bookkeeping'
  BY <1>5, OwnGetPodEffect DEF Bookkeeping, Mapped
<1>6. ASSUME NEW s \in Sandbox, OwnPost(s), UNCHANGED <<instance, podToPP, sandboxes,
             instanceID>>
      PROVE  Bookkeeping'
  BY <1>6, NodeInNode, OwnPostEffect DEF Bookkeeping, Mapped, Locals
<1>7. ASSUME NEW s \in Sandbox, OwnMap(s), UNCHANGED <<phase, ppInstance, instance, owner,
             sandboxes, instanceID>>
      PROVE  Bookkeeping'
  <2>1. startPC[s] = "map"
    BY <1>7, OwnMapEffect, Zenon
  <2>2. phase[s] # "none" /\ ownUID[s] = PodOf[s]
    BY <2>1, Zenon DEF Bookkeeping, Locals
  <2>3. QED
    BY <1>7, <2>1, <2>2, OwnMapEffect, NodeInNode DEF Bookkeeping, Mapped
<1>8. ASSUME NEW s \in Sandbox, SetInstance(s), UNCHANGED <<phase, ppInstance, instance,
             owner, podToPP, sandboxes>>
      PROVE  Bookkeeping'
  BY <1>8, SetInstanceEffect DEF Bookkeeping, Mapped
<1>9. ASSUME NEW s \in Sandbox, SetupNetwork(s), UNCHANGED <<phase, ppInstance, instance,
             owner, podToPP, sandboxes, instanceID>>
      PROVE  Bookkeeping'
  BY <1>9, SetupNetworkEffect DEF Bookkeeping, Mapped
<1>10. ASSUME NEW s \in Sandbox, AwaitProxy(s), UNCHANGED <<phase, ppInstance, instance,
             owner, podToPP, sandboxes, instanceID>>
      PROVE  Bookkeeping'
  BY <1>10, AwaitProxyEffect DEF Bookkeeping, Mapped
<1>11. ASSUME NEW s \in Sandbox, ReleasePatch(s), UNCHANGED <<ppInstance, instance, owner,
             startPC, sandboxes, instanceID>>
      PROVE  Bookkeeping'
  <2>1. \A t \in Sandbox : phase'[t] # "none" <=> phase[t] # "none"
    BY <1>11, ReleasePatchEffect, Zenon DEF AfterFinalizerRemoved
  <2>2. \A n \in Node, u \in UID : podToPP'[n][u] \in {podToPP[n][u], None}
    BY <1>11, ReleasePatchEffect, Zenon
  <2>3. QED
    BY <1>11, <2>1, <2>2, StoreAssumption, NodeInNode DEF Bookkeeping, Mapped
<1>12. ASSUME NEW s \in Sandbox, RemoveSandbox(s), UNCHANGED <<phase, ppInstance, instance,
             owner, startPC, podToPP>>
      PROVE  Bookkeeping'
  BY <1>12, RemoveSandboxEffect DEF Bookkeeping, Mapped
<1>13. ASSUME NEW n \in Node, Crash(n), UNCHANGED <<phase, ppInstance, instance, owner>>
      PROVE  Bookkeeping'
  <2>1. \A m \in Node, u \in UID : podToPP'[m][u] = IF m = n THEN None ELSE podToPP[m][u]
    BY <1>13, CrashEffect, Zenon
  <2>2. \A t \in Sandbox : \/ startPC'[t] = "dead" /\ NodeOf(t) = n /\ t \notin sandboxes'
                         \/ /\ startPC'[t] = startPC[t] /\ (t \in sandboxes' <=> t \in sandboxes)
                            /\ instanceID'[t] = instanceID[t]
    BY <1>13, CrashEffect, Zenon
  <2>3. QED
    BY <1>13, <2>1, <2>2, StoreAssumption, NodeInNode DEF Bookkeeping, Mapped
<1>14. ASSUME NEW s \in Sandbox, NEW deleted \in SUBSET Sandbox, ReconcileLive(s, deleted),
             UNCHANGED <<ppInstance, instance, owner, startPC, podToPP, sandboxes,
             instanceID>>
      PROVE  Bookkeeping'
  <2>1. \A t \in Sandbox : phase'[t] # "none" <=> phase[t] # "none"
    BY <1>14, ReconcileLiveEffect, Zenon DEF AfterDelete
  <2>2. QED
    BY <1>14, <2>1 DEF Bookkeeping, Mapped
<1>15. ASSUME NEW s \in Sandbox, CtrlUpdateOK(s), UNCHANGED <<ppInstance, instance, owner,
             startPC, podToPP, sandboxes, instanceID>>
      PROVE  Bookkeeping'
  <2>1. \A t \in Sandbox : phase'[t] # "none" <=> phase[t] # "none"
    BY <1>15, CtrlUpdateOKEffect, Zenon DEF AfterFinalizerRemoved
  <2>2. QED
    BY <1>15, <2>1 DEF Bookkeeping, Mapped
<1>16. ASSUME NEW s \in Sandbox, GarbageCollect(s), UNCHANGED <<ppInstance, instance, owner,
             startPC, podToPP, sandboxes, instanceID>>
      PROVE  Bookkeeping'
  <2>1. \A t \in Sandbox : phase'[t] # "none" <=> phase[t] # "none"
    BY <1>16, GarbageCollectEffect, Zenon DEF AfterDelete
  <2>2. QED
    BY <1>16, <2>1 DEF Bookkeeping, Mapped
<1>17. CASE UNCHANGED <<phase, ppInstance, instance, owner, startPC, podToPP, sandboxes, instanceID>>
  BY <1>17 DEF Bookkeeping, Mapped
<1>18. QED
  BY <1>1, <1>2, <1>3, <1>4, <1>5, <1>6, <1>7, <1>8, <1>9, <1>10, <1>11, <1>12, <1>13,
     <1>14, <1>15, <1>16, <1>17, StepCases, Zenon DEF vars

\* Every step keeps CtrlInv.
LEMMA CtrlInvStep ==
  ASSUME TypeOK, Locals, Bookkeeping, CtrlInv, [Next]_vars
  PROVE  CtrlInv'
<1>1. ASSUME NEW s \in Sandbox, CreateInstanceOK(s), UNCHANGED <<phase, cache, ctrlPC,
             ctrlPP>>
      PROVE  CtrlInv'
  <2>1. phase[s] = "none"
    BY <1>1, CreateInstanceOKEffect, Zenon DEF Bookkeeping
  <2>2. ctrlPC = "update" => ctrlPP \in Sandbox \ {s}
    BY <2>1, Zenon DEF CtrlInv
  <2>3. ctrlPC = "update" => ~VMLive(ctrlPP)'
    BY <1>1, <2>2, CreateInstanceOKEffect DEF CtrlInv, VMLive
  <2>4. QED
    BY <1>1, <2>3, Zenon DEF CtrlInv
<1>2. ASSUME NEW s \in Sandbox, CreateInstanceFails(s), UNCHANGED <<phase, cache, ctrlPC,
             ctrlPP>>
      PROVE  CtrlInv'
  <2>1. ctrlPC = "update" => ~VMLive(ctrlPP)'
    BY <1>2, CreateInstanceFailsEffect, StoreAssumption DEF CtrlInv, VMLive
  <2>2. QED
    BY <1>2, <2>1, Zenon DEF CtrlInv
<1>3. ASSUME NEW s \in Sandbox, OwnPost(s), UNCHANGED <<cache, ctrlPC, ctrlPP, vms>>
      PROVE  CtrlInv'
  <2>1. phase[s] = "none"
    BY <1>3, OwnPostEffect, Zenon DEF Bookkeeping
  <2>2. \A t \in Sandbox : phase[t] # "none" => phase'[t] = phase[t]
    BY <1>3, <2>1, OwnPostEffect
  <2>3. QED
    BY <1>3, <2>2, Zenon DEF CtrlInv, VMLive
<1>4. ASSUME NEW s \in Sandbox, StopDelete(s), UNCHANGED <<phase, cache, ctrlPC, ctrlPP>>
      PROVE  CtrlInv'
  <2>1. ctrlPC = "update" => ~VMLive(ctrlPP)'
    BY <1>4, StopDeleteEffect, StoreAssumption DEF CtrlInv, VMLive
  <2>2. QED
    BY <1>4, <2>1, Zenon DEF CtrlInv
<1>5. ASSUME NEW s \in Sandbox, ReleasePatch(s), UNCHANGED <<cache, ctrlPC, ctrlPP, vms>>
      PROVE  CtrlInv'
  <2>1. \A t \in Sandbox : /\ phase[t] # "none" => phase'[t] # "none"
                           /\ phase[t] \in {"terminating", "gone"}
                                => phase'[t] \in {"terminating", "gone"}
                           /\ phase[t] = "gone" => phase'[t] = "gone"
    BY <1>5, ReleasePatchEffect, Zenon DEF AfterFinalizerRemoved
  <2>2. QED
    BY <1>5, <2>1, Zenon DEF CtrlInv, VMLive
<1>6. ASSUME NEW n \in Node, Crash(n), UNCHANGED <<phase, cache, ctrlPC, ctrlPP>>
      PROVE  CtrlInv'
  <2>1. ctrlPC = "update" => ~VMLive(ctrlPP)'
    BY <1>6, CrashEffect, StoreAssumption DEF CtrlInv, VMLive
  <2>2. QED
    BY <1>6, <2>1, Zenon DEF CtrlInv
<1>7. ASSUME NEW s \in Sandbox, CacheSync(s), UNCHANGED <<phase, ctrlPC, ctrlPP, vms>>
      PROVE  CtrlInv'
  BY <1>7, CacheSyncEffect, Zenon DEF CtrlInv, VMLive
<1>8. ASSUME NEW s \in Sandbox, NEW deleted \in SUBSET Sandbox, ReconcileLive(s, deleted),
             UNCHANGED <<cache, ctrlPC, ctrlPP, vms>>
      PROVE  CtrlInv'
  <2>1. \A t \in Sandbox : /\ phase[t] # "none" => phase'[t] # "none"
                           /\ phase[t] \in {"terminating", "gone"}
                                => phase'[t] \in {"terminating", "gone"}
                           /\ phase[t] = "gone" => phase'[t] = "gone"
    BY <1>8, ReconcileLiveEffect, Zenon DEF AfterDelete
  <2>2. QED
    BY <1>8, <2>1, Zenon DEF CtrlInv, VMLive
<1>9. ASSUME NEW s \in Sandbox, ReconcileDeleting(s), UNCHANGED <<phase, cache, vms>>
      PROVE  CtrlInv'
  BY <1>9, ReconcileDeletingEffect, Zenon DEF CtrlInv
<1>10. ASSUME NEW s \in Sandbox, CtrlDeleteOK(s), UNCHANGED <<phase, cache, ctrlPP>>
      PROVE  CtrlInv'
  <2>1. ctrlPP = s /\ phase[s] \in {"terminating", "gone"}
    BY <1>10, CtrlDeleteOKEffect, Zenon DEF CtrlInv
  <2>2. ppInstance[s] = instance[s] /\ instance[s] # None
    BY <2>1, Zenon DEF Bookkeeping
  <2>3. ~VMLive(s)'
    BY <1>10, <2>2, CtrlDeleteOKEffect, StoreAssumption DEF VMLive, Locals
  <2>4. QED
    BY <1>10, <2>1, <2>3, Zenon DEF CtrlInv, VMLive
<1>11. ASSUME NEW s \in Sandbox, CtrlDeleteFails(s), UNCHANGED <<phase, cache>>
      PROVE  CtrlInv'
  BY <1>11, CtrlDeleteFailsEffect, Zenon DEF CtrlInv
<1>12. ASSUME NEW s \in Sandbox, CtrlUpdateOK(s), UNCHANGED <<cache, vms>>
      PROVE  CtrlInv'
  <2>1. \A t \in Sandbox : /\ phase[t] # "none" => phase'[t] # "none"
                           /\ phase[t] \in {"terminating", "gone"}
                                => phase'[t] \in {"terminating", "gone"}
                           /\ phase[t] = "gone" => phase'[t] = "gone"
    BY <1>12, CtrlUpdateOKEffect, Zenon DEF AfterFinalizerRemoved
  <2>2. QED
    BY <1>12, <2>1, CtrlUpdateOKEffect, Zenon DEF CtrlInv, VMLive
<1>13. ASSUME CtrlAbort, UNCHANGED <<phase, cache, vms>>
      PROVE  CtrlInv'
  BY <1>13, CtrlAbortEffect, Zenon DEF CtrlInv
<1>14. ASSUME NEW s \in Sandbox, GarbageCollect(s), UNCHANGED <<cache, ctrlPC, ctrlPP, vms>>
      PROVE  CtrlInv'
  <2>1. \A t \in Sandbox : /\ phase[t] # "none" => phase'[t] # "none"
                           /\ phase[t] \in {"terminating", "gone"}
                                => phase'[t] \in {"terminating", "gone"}
                           /\ phase[t] = "gone" => phase'[t] = "gone"
    BY <1>14, GarbageCollectEffect, Zenon DEF AfterDelete
  <2>2. QED
    BY <1>14, <2>1, Zenon DEF CtrlInv, VMLive
<1>15. CASE UNCHANGED <<phase, cache, ctrlPC, ctrlPP, vms>>
  BY <1>15, Zenon DEF CtrlInv, VMLive
<1>16. QED
  BY <1>1, <1>2, <1>3, <1>4, <1>5, <1>6, <1>7, <1>8, <1>9, <1>10, <1>11, <1>12, <1>13,
     <1>14, <1>15, StepCases, Zenon DEF vars

\* BaseInv holds before any Pod, sandbox or PeerPod exists.
LEMMA BaseInit == ASSUME Init PROVE BaseInv
<1>1. TypeOK
  BY InitType, Zenon
<1>2. Lifecycle /\ Locals /\ Serial
  BY StoreAssumption, Zenon
  DEF Init, StoreInit, CAAInit, Lifecycle, Locals, Serial, StopSteps, StartSteps
<1>3. Bookkeeping /\ CtrlInv
  BY StoreAssumption, Zenon DEF Init, StoreInit, CAAInit, CtrlInit, Bookkeeping, CtrlInv
<1>4. QED
  BY <1>1, <1>2, <1>3, Zenon DEF BaseInv

\* Every step keeps BaseInv.
LEMMA BaseStep == ASSUME UniqueNames, BaseInv, [Next]_vars PROVE BaseInv'
<1>1. TypeOK'
  BY StoreTypeStep, CAATypeStep, CtrlTypeStep, Zenon DEF BaseInv, TypeOK
<1>2. QED
  BY <1>1, LifecycleStep, LocalsStep, BookkeepingStep, SerialStep, CtrlInvStep, Zenon DEF BaseInv
=============================================================================
