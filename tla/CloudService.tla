---------------------------- MODULE CloudService ----------------------------
(***************************************************************************)
(* cloudService (pkg/adaptor/cloud/cloud.go) and PeerPodService             *)
(* (pkg/adaptor/k8sops/peerpod.go) of every node's cloud-api-adaptor: the   *)
(* sandbox table, the instance ID of a sandbox, the podToPP map, and the    *)
(* handlers CreateVM, StartVM and StopVM, split where they call the         *)
(* provider or the API server or release a mutex.                           *)
(*                                                                         *)
(* ttrpc runs every request in a goroutine of its own, so the handlers of   *)
(* different sandboxes interleave.  With Overlap = FALSE the runtime sends  *)
(* StopVM of a sandbox after StartVM has returned and creates the next      *)
(* sandbox of a Pod after the previous one has stopped; with Overlap = TRUE *)
(* it gave up waiting (a timeout on its side) while the handler still runs. *)
(***************************************************************************)
EXTENDS PeerPodStore

CONSTANTS
  Overlap,      \* requests for one Pod may overlap
  OwnMayFail,   \* OwnPeerPod may fail although the Pod exists
  MaxCrashes    \* bound on crashes of all CAAs together

ASSUME CloudServiceAssumption ==
  /\ {Overlap, OwnMayFail} \subseteq BOOLEAN
  /\ MaxCrashes \in Nat

VARIABLES
  sandboxes,   \* keys of s.sandboxes, over all nodes
  instanceID,  \* sandbox.instanceID
  podToPP,     \* podToPP[n][u]: PeerPodService.podToPP of node n
  startPC,     \* startPC[s]: next step of StartVM
  instance,    \* instance[s]: local variable of StartVM
  ownUID,      \* ownUID[s]: local variable pod of OwnPeerPod
  stopPC,      \* stopPC[s]: next step of StopVM
  relUID,      \* relUID[s]: local variable pod of ReleasePeerPod
  crashes      \* crashes so far

caaVars == <<sandboxes, instanceID, podToPP, startPC, instance, ownUID,
             stopPC, relUID, crashes>>

(* "new": CreateVM not called; "idle": created; then the steps of StartVM;
   "running" and "failed": StartVM returned; "dead": its CAA crashed. *)
StartPC == {"new", "idle", "create", "getPod", "post", "map", "set", "setup",
            "proxy", "running", "failed", "dead"}
StartSteps == {"create", "getPod", "post", "map", "set", "setup", "proxy"}
StopPC == {"idle", "delete", "getPod", "patch", "teardown", "remove", "done", "dead"}
StopSteps == {"delete", "getPod", "patch", "teardown", "remove"}

CAATypeOK ==
  /\ sandboxes \in SUBSET Sandbox
  /\ instanceID \in [Sandbox -> Instance \cup {None}]
  /\ podToPP \in [Node -> [UID -> Sandbox \cup {None}]]
  /\ startPC \in [Sandbox -> StartPC]
  /\ instance \in [Sandbox -> Instance \cup {None}]
  /\ ownUID \in [Sandbox -> UID \cup {None}]
  /\ stopPC \in [Sandbox -> StopPC]
  /\ relUID \in [Sandbox -> UID \cup {None}]
  /\ crashes \in 0..MaxCrashes

CAAInit ==
  /\ sandboxes = {}
  /\ instanceID = [s \in Sandbox |-> None]
  /\ podToPP = [n \in Node |-> [u \in UID |-> None]]
  /\ startPC = [s \in Sandbox |-> "new"]
  /\ instance = [s \in Sandbox |-> None]
  /\ ownUID = [s \in Sandbox |-> None]
  /\ stopPC = [s \in Sandbox |-> "idle"]
  /\ relUID = [s \in Sandbox |-> None]
  /\ crashes = 0

NodeOf(s) == PodNode[PodOf[s]]

\* The node still knows the sandbox or runs a handler of it.
Active(s) == s \in sandboxes \/ startPC[s] \in StartSteps \/ stopPC[s] \in StopSteps

StartGoto(s, pc) == startPC' = [startPC EXCEPT ![s] = pc]
StopGoto(s, pc) == stopPC' = [stopPC EXCEPT ![s] = pc]

----------------------------------------------------------------------------
(* CreateVM *)

\* Every failure of CreateVM comes before addSandbox and leaves no state.
CreateVM(s) ==
  /\ startPC[s] = "new"
  /\ pods[PodOf[s]] = "exists"
  /\ Overlap \/ \A t \in Sandbox : PodOf[t] = PodOf[s] => ~Active(t)
  /\ sandboxes' = sandboxes \cup {s}
  /\ StartGoto(s, "idle")
  /\ UNCHANGED <<storeVars, instanceID, podToPP, instance, ownUID,
                 stopPC, relUID, crashes>>

----------------------------------------------------------------------------
(* StartVM *)

\* getSandbox
StartVM(s) ==
  /\ startPC[s] = "idle"
  /\ Overlap \/ stopPC[s] = "idle"
  /\ StartGoto(s, IF s \in sandboxes THEN "create" ELSE "failed")
  /\ UNCHANGED <<storeVars, sandboxes, instanceID, podToPP, instance,
                 ownUID, stopPC, relUID, crashes>>

\* provider.CreateInstance
CreateInstanceOK(s) ==
  /\ startPC[s] = "create"
  /\ \E i \in Instance : /\ Launch(i, s)
                         /\ instance' = [instance EXCEPT ![s] = i]
  /\ StartGoto(s, "getPod")
  /\ UNCHANGED <<pods, ppVars, now, sandboxes, instanceID, podToPP, ownUID, stopPC, relUID, crashes>>

\* The providers return an error without deleting what they had launched when
\* a step after the launch fails (an address, a second interface).
CreateInstanceFails(s) ==
  /\ startPC[s] = "create"
  /\ \/ UNCHANGED <<vms, handedOut>>
     \/ \E i \in Instance : Launch(i, Orphan)
  /\ StartGoto(s, "failed")
  /\ UNCHANGED <<pods, ppVars, now, sandboxes, instanceID, podToPP, instance, ownUID, stopPC, relUID, crashes>>

\* OwnPeerPod: GET the Pod by name.  StartVM only logs an error and goes on.
OwnGetPod(s) ==
  /\ startPC[s] = "getPod"
  /\ \/ \E u \in PodsNamed(PodName[PodOf[s]]) :
          /\ ownUID' = [ownUID EXCEPT ![s] = u]
          /\ StartGoto(s, "post")
     \/ /\ OwnMayFail \/ PodsNamed(PodName[PodOf[s]]) = {}
        /\ StartGoto(s, "set")
        /\ UNCHANGED ownUID
  /\ UNCHANGED <<storeVars, sandboxes, instanceID, podToPP, instance,
                 stopPC, relUID, crashes>>

\* OwnPeerPod: POST the PeerPod built by newPeerPod, with its finalizer.
OwnPost(s) ==
  /\ startPC[s] = "post"
  /\ \/ /\ phase' = [phase EXCEPT ![s] = "held"]
        /\ owner' = [owner EXCEPT ![s] = ownUID[s]]
        /\ ppInstance' = [ppInstance EXCEPT ![s] = instance[s]]
        /\ created' = [created EXCEPT ![s] = now]
        /\ StartGoto(s, "map")
        /\ UNCHANGED ownUID
     \/ /\ OwnMayFail
        /\ StartGoto(s, "set")
        /\ ownUID' = [ownUID EXCEPT ![s] = None]
        /\ UNCHANGED ppVars
  /\ UNCHANGED <<pods, now, vms, handedOut, sandboxes, instanceID, podToPP,
                 instance, stopPC, relUID, crashes>>

\* OwnPeerPod: remember the PeerPod under the Pod's UID.
OwnMap(s) ==
  /\ startPC[s] = "map"
  /\ podToPP' = [podToPP EXCEPT ![NodeOf(s)][ownUID[s]] = s]
  /\ ownUID' = [ownUID EXCEPT ![s] = None]
  /\ StartGoto(s, "set")
  /\ UNCHANGED <<storeVars, sandboxes, instanceID, instance, stopPC, relUID, crashes>>

\* setInstance
SetInstance(s) ==
  /\ startPC[s] = "set"
  /\ IF s \in sandboxes
     THEN /\ instanceID' = [instanceID EXCEPT ![s] = instance[s]]
          /\ StartGoto(s, "setup")
     ELSE /\ StartGoto(s, "failed")
          /\ UNCHANGED instanceID
  /\ UNCHANGED <<storeVars, sandboxes, podToPP, instance, ownUID,
                 stopPC, relUID, crashes>>

\* No address, SshClientInstance.Start or workerNode.Setup fails, or the tunnel
\* is up.  The tunnel's own state is not part of this module.
SetupNetwork(s) ==
  /\ startPC[s] = "setup"
  /\ \E pc \in {"proxy", "failed"} : StartGoto(s, pc)
  /\ UNCHANGED <<storeVars, sandboxes, instanceID, podToPP, instance, ownUID,
                 stopPC, relUID, crashes>>

\* The select: the agent proxy is ready, it failed, or the caller gave up.
AwaitProxy(s) ==
  /\ startPC[s] = "proxy"
  /\ \E pc \in {"running", "failed"} : StartGoto(s, pc)
  /\ UNCHANGED <<storeVars, sandboxes, instanceID, podToPP, instance,
                 ownUID, stopPC, relUID, crashes>>

----------------------------------------------------------------------------
(* StopVM *)

\* getSandbox, then agentProxy.Shutdown and DisconnectPP, which touch nothing here.
StopVM(s) ==
  /\ stopPC[s] = "idle"
  /\ s \in sandboxes
  /\ Overlap \/ startPC[s] \notin StartSteps
  /\ StopGoto(s, "delete")
  /\ UNCHANGED <<storeVars, sandboxes, instanceID, podToPP, startPC,
                 instance, ownUID, relUID, crashes>>

\* Faulty variant of StopDelete: a sandbox without an instance ID has nothing to
\* delete, and its PeerPod is released.
StopDeleteSkipsEmpty(s) ==
  /\ stopPC[s] = "delete"
  /\ \/ instanceID[s] = None /\ StopGoto(s, "getPod") /\ UNCHANGED vms
     \/ DeleteInstanceOK(instanceID[s]) /\ StopGoto(s, "getPod")
     \/ DeleteInstanceFails(instanceID[s]) /\ StopGoto(s, "teardown")
  /\ UNCHANGED <<pods, ppVars, now, handedOut, sandboxes, instanceID, podToPP,
                 startPC, instance, ownUID, relUID, crashes>>

\* provider.DeleteInstance; on an error the finalizer is left to the controller.
StopDelete(s) ==
  /\ stopPC[s] = "delete"
  /\ \/ /\ DeleteInstanceOK(instanceID[s])
        /\ StopGoto(s, "getPod")
     \/ /\ DeleteInstanceFails(instanceID[s])
        /\ StopGoto(s, "teardown")
  /\ UNCHANGED <<pods, ppVars, now, handedOut, sandboxes, instanceID, podToPP,
                 startPC, instance, ownUID, relUID, crashes>>

\* ReleasePeerPod: GET the Pod by name; any error is logged.
ReleaseGetPod(s) ==
  /\ stopPC[s] = "getPod"
  /\ \/ \E u \in PodsNamed(PodName[PodOf[s]]) :
          /\ relUID' = [relUID EXCEPT ![s] = u]
          /\ StopGoto(s, "patch")
     \/ /\ StopGoto(s, "teardown")
        /\ UNCHANGED relUID
  /\ UNCHANGED <<storeVars, sandboxes, instanceID, podToPP, startPC,
                 instance, ownUID, crashes>>

\* ReleasePeerPod, under its mutex: look the PeerPod up by the Pod's UID, PATCH
\* its finalizers away and forget it.  The PATCH fails when there is no finalizer.
ReleasePatch(s) ==
  LET n == NodeOf(s)
      pp == podToPP[n][relUID[s]]
  IN /\ stopPC[s] = "patch"
     /\ \/ /\ pp # None
           /\ phase[pp] \in {"held", "terminating"}
           /\ phase' = [phase EXCEPT ![pp] = AfterFinalizerRemoved(@)]
           /\ podToPP' = [podToPP EXCEPT ![n][relUID[s]] = None]
        \/ UNCHANGED <<phase, podToPP>>
     /\ relUID' = [relUID EXCEPT ![s] = None]
     /\ StopGoto(s, "teardown")
     /\ UNCHANGED <<pods, owner, ppInstance, created, now, vms, handedOut,
                    sandboxes, instanceID, startPC, instance, ownUID, crashes>>

\* workerNode.Teardown; an error is only logged.
StopTeardown(s) ==
  /\ stopPC[s] = "teardown"
  /\ StopGoto(s, "remove")
  /\ UNCHANGED <<storeVars, sandboxes, instanceID, podToPP, startPC, instance,
                 ownUID, relUID, crashes>>

\* Faulty variant of RemoveSandbox: the sandbox stays in the table.
RemoveSandboxForgets(s) ==
  /\ stopPC[s] = "remove"
  /\ StopGoto(s, "done")
  /\ UNCHANGED <<storeVars, sandboxes, instanceID, podToPP, startPC, instance,
                 ownUID, relUID, crashes>>

\* removeSandbox
RemoveSandbox(s) ==
  /\ stopPC[s] = "remove"
  /\ sandboxes' = sandboxes \ {s}
  /\ instanceID' = [instanceID EXCEPT ![s] = None]
  /\ StopGoto(s, "done")
  /\ UNCHANGED <<storeVars, podToPP, startPC, instance, ownUID, relUID, crashes>>

----------------------------------------------------------------------------
(* A CAA dies and is restarted: the table, the map and the handlers are lost. *)
\* An instance it was creating may still come up.
Crash(n) ==
  LET mine == {s \in Sandbox : NodeOf(s) = n /\ Active(s)}
  IN /\ crashes < MaxCrashes
     /\ crashes' = crashes + 1
     /\ sandboxes' = sandboxes \ mine
     /\ podToPP' = [podToPP EXCEPT ![n] = [u \in UID |-> None]]
     /\ startPC' = [s \in Sandbox |-> IF s \in mine THEN "dead" ELSE startPC[s]]
     /\ stopPC' = [s \in Sandbox |-> IF s \in mine THEN "dead" ELSE stopPC[s]]
     /\ instanceID' = [s \in Sandbox |-> IF s \in mine THEN None ELSE instanceID[s]]
     /\ ownUID' = [s \in Sandbox |-> IF s \in mine THEN None ELSE ownUID[s]]
     /\ relUID' = [s \in Sandbox |-> IF s \in mine THEN None ELSE relUID[s]]
     /\ \/ UNCHANGED <<vms, handedOut>>
        \/ /\ \E s \in mine : startPC[s] = "create"
           /\ \E i \in Instance : Launch(i, Orphan)
     /\ UNCHANGED <<pods, ppVars, now, instance>>

CAAStep(s) ==
  \/ CreateVM(s)
  \/ StartVM(s) \/ CreateInstanceOK(s) \/ CreateInstanceFails(s)
  \/ OwnGetPod(s) \/ OwnPost(s) \/ OwnMap(s)
  \/ SetInstance(s) \/ SetupNetwork(s) \/ AwaitProxy(s)
  \/ StopVM(s) \/ StopDelete(s) \/ ReleaseGetPod(s) \/ ReleasePatch(s)
  \/ StopTeardown(s) \/ RemoveSandbox(s)
=============================================================================
