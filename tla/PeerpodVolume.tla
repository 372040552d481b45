---------------------------- MODULE PeerpodVolume ----------------------------
(***************************************************************************)
(* The CSI wrapper: one volume, its PeerpodVolume object, and the programs  *)
(* that write it.  "csi" is the thread of calls that Kubernetes makes to    *)
(* the controller and node services (one at a time per volume), "main" the  *)
(* start of csi-podvm-wrapper in the pod VM, and "controller", "node" and   *)
(* "vm" are the SyncHandlers that the informers of the three services       *)
(* drive.  Every write carries the resource version of the copy it was made *)
(* from; "fresh" holds the writers whose copy is still current.             *)
(***************************************************************************)
EXTENDS Naturals, FiniteSets

CONSTANTS Pod,          \* Pods that use the volume one after the other
          None,
          MaxTries,     \* retries of a reproduced request (20 in the code)
          Cases         \* volumes and what goes wrong with them, see Case

\* Where the peerpod key is; the Pods; bounds on the failures of the driver in the pod
\* VM and on the restarts of csi-podvm-wrapper; whether requests to the API server
\* fail, and whether a Pod may be deleted while its volume is being attached.
Case == [key : {"class", "context", "none"}, pods : SUBSET Pod, driverFails : Nat,
         restarts : Nat, apiMayFail : BOOLEAN, earlyDelete : BOOLEAN]

ASSUME VolumeAssumption == None \notin Pod /\ MaxTries \in Nat /\ Cases \subseteq Case

VARIABLES case,      \* the volume and what goes wrong with it
          obj,       \* the PeerpodVolume, or Absent
          fresh,     \* writers whose copy has the object's resource version
          vol,       \* the driver's volume: "none", "there" or "deleted"
          attached,  \* VMs (one per Pod) or the worker node, as the driver sees it
          staged, published,  \* VMs in which the driver staged, published the volume
          pod, phase,  \* the Pod that uses the volume, and what Kubernetes did for it
          csi,       \* the call in progress: <<name, next request>>
          vmOn, main, restarts,  \* the pod VM and the start of its wrapper
          cache, current, queued,  \* informer caches, those up to date, keys in queues
          held,      \* SyncHandlers whose object is still the one in the cache
          sync, work, tries, fails \* SyncHandlers: next step, object, loop counters

storeVars == <<obj, fresh, current>>
driverVars == <<vol, attached, staged, published>>
k8sVars == <<pod, phase, csi>>
vmVars == <<vmOn, main, restarts>>
syncVars == <<cache, queued, held, sync, work, tries, fails>>
vars == <<case, storeVars, driverVars, k8sVars, vmVars, syncVars>>

Informer == {"controller", "node", "vm"}
Writer == Informer \cup {"csi", "main"}
Worker == "worker"

\* PeerpodVolumeState, the states that are not only declared.
State == {"", "controllerPublishVolumeCached", "nodeStageVolumeCached", "nodePublishVolumeCached",
          "nodeUnpublishVolumeCached", "nodeUnstageVolumeCached", "peerPodVSIRunning",
          "peerPodVSIIDReady", "controllerPublishVolumeApplied", "nodeStageVolumeApplied",
          "nodePublishVolumeApplied", "nodeUnpublishVolumeApplied", "nodeUnstageVolumeApplied"}
Applied == {"controllerPublishVolumeApplied", "nodeStageVolumeApplied", "nodePublishVolumeApplied",
            "nodeUnpublishVolumeApplied", "nodeUnstageVolumeApplied"}

\* The fields that decide something: cached requests, PodUid, PodName, VMID, DevicePath.
Object == [state : State, ctrl : BOOLEAN, stage : BOOLEAN, uid : Pod \cup {None},
           unpub : BOOLEAN, unstage : BOOLEAN, name : Pod \cup {None}, vm : Pod \cup {None},
           dev : BOOLEAN]
Blank == [state |-> "", ctrl |-> FALSE, stage |-> FALSE, uid |-> None, unpub |-> FALSE,
          unstage |-> FALSE, name |-> None, vm |-> None, dev |-> FALSE]
Absent == [Blank EXCEPT !.state = "absent"]

Phase == {"scheduled", "attached", "staged", "published", "terminating", "unpublished", "unstaged", "done"}
Call == {"ControllerPublish", "NodeStage", "NodePublish",
         "NodeUnpublish", "NodeUnstage", "ControllerUnpublish"}
Idle == <<"idle", "get">>

TypeOK ==
  /\ case \in Cases
  /\ obj \in Object \cup {Absent} /\ fresh \subseteq Writer /\ current \subseteq Informer
  /\ vol \in {"none", "there", "deleted"} /\ attached \subseteq Pod \cup {Worker}
  /\ staged \subseteq Pod /\ published \subseteq Pod
  /\ pod \in Pod \cup {None} /\ phase \in Phase
  /\ csi \in ({"idle"} \cup Call) \X {"get", "update", "reget", "status"}
  /\ vmOn \in BOOLEAN /\ main \in {"off", "list", "update", "status", "serving"}
  /\ restarts \in 0..case.restarts
  /\ cache \in [Informer -> Object \cup {Absent}] /\ queued \subseteq Informer
  /\ held \subseteq Informer
  /\ sync \in [Informer -> {"idle", "get", "call", "update", "status"}]
  /\ work \in [Informer -> Object \cup {Absent}]
  /\ tries \in 0..MaxTries /\ fails \in 0..case.driverFails

Init ==
  /\ case \in Cases
  /\ obj = Absent /\ fresh = {} /\ current = Informer
  /\ vol = "none" /\ attached = {} /\ staged = {} /\ published = {}
  /\ pod = None /\ phase = "done" /\ csi = Idle
  /\ vmOn = FALSE /\ main = "off" /\ restarts = 0
  /\ cache = [i \in Informer |-> Absent] /\ queued = {} /\ held = {}
  /\ sync = [i \in Informer |-> "idle"] /\ work = [i \in Informer |-> Absent]
  /\ tries = 0 /\ fails = 0

-----------------------------------------------------------------------------
(* The API server (external).  A write that changes nothing keeps the resource *)
(* version; the status is a subresource.                                       *)

\* w's write is accepted; w goes on with the object that the server returned.
Put(w, new) ==
  /\ w \in fresh
  /\ obj' = new
  /\ IF new = obj THEN UNCHANGED <<fresh, current>> ELSE fresh' = {w} /\ current' = {}

\* The same, but the caller keeps the copy it had before.
PutOld(w, new) ==
  /\ w \in fresh
  /\ obj' = new
  /\ IF new = obj THEN UNCHANGED <<fresh, current>> ELSE fresh' = {} /\ current' = {}

\* w's write is rejected for its resource version, or fails.
PutFails(w) == (w \notin fresh \/ case.apiMayFail) /\ UNCHANGED storeVars

Read(w) == fresh' = fresh \cup {w} /\ UNCHANGED <<obj, current>>

Created == obj' = Blank /\ fresh' = {"csi"} /\ current' = {}

-----------------------------------------------------------------------------
(* Controller service, called by the provisioner and the attacher.          *)

CreateVolume ==
  /\ vol = "none" /\ vol' = "there"
  \* createPeerpodVolume: its error is dropped
  /\ \/ case.key = "class" /\ Created
     \/ (case.key = "class" => case.apiMayFail) /\ UNCHANGED storeVars
  /\ UNCHANGED <<case, attached, staged, published, k8sVars, vmVars, syncVars>>

DeleteVolume ==
  /\ vol = "there" /\ phase = "done" /\ csi = Idle
  /\ vol' = "deleted"
  /\ \/ obj' = Absent /\ fresh' = {} /\ current' = IF obj = Absent THEN current ELSE {}
     \/ case.apiMayFail /\ UNCHANGED storeVars
  /\ UNCHANGED <<case, attached, staged, published, k8sVars, vmVars, syncVars>>

\* A Pod with the volume is scheduled (external).
PodScheduled ==
  /\ vol = "there" /\ phase = "done" /\ csi = Idle
  /\ \E p \in case.pods : p \notin staged /\ p # pod /\ pod' = p
  /\ phase' = "scheduled"
  /\ UNCHANGED <<case, storeVars, driverVars, csi, vmVars, syncVars>>

At(call, request) == csi = <<call, request>>
Goto(call, request) == csi' = <<call, request>> /\ UNCHANGED <<pod, phase>>
Fails == csi' = Idle /\ UNCHANGED <<pod, phase>>
Succeeds(ph) == csi' = Idle /\ phase' = ph /\ UNCHANGED pod

\* Without an object and without the key the request is passed on, and the code
\* falls through to the creation of the object.
ControllerPublishVolume ==
  /\ phase = "scheduled" /\ csi = Idle
  /\ \/ obj # Absent /\ Read("csi") /\ Goto("ControllerPublish", "update") /\ UNCHANGED attached
     \/ /\ obj = Absent \/ case.apiMayFail   \* any error of Get is taken for NotFound
        /\ attached' = IF case.key = "context" THEN attached ELSE attached \cup {Worker}
        /\ \/ obj = Absent /\ Created /\ Goto("ControllerPublish", "update")
           \/ (obj # Absent \/ case.apiMayFail) /\ UNCHANGED storeVars /\ Fails
  /\ UNCHANGED <<case, vol, staged, published, vmVars, syncVars>>

\* The cached response holds a new request ID: the update is never a no-op.
ControllerPublishUpdate ==
  /\ At("ControllerPublish", "update")
  /\ \/ /\ "csi" \in fresh
        /\ obj' = [obj EXCEPT !.ctrl = TRUE] /\ fresh' = {"csi"} /\ current' = {}
        /\ Goto("ControllerPublish", "status")
     \/ PutFails("csi") /\ Fails
  /\ UNCHANGED <<case, driverVars, vmVars, syncVars>>

ControllerPublishStatus ==
  /\ At("ControllerPublish", "status")
  /\ \/ Put("csi", [obj EXCEPT !.state = "controllerPublishVolumeCached"]) /\ Succeeds("attached")
     \/ PutFails("csi") /\ Fails
  /\ UNCHANGED <<case, driverVars, vmVars, syncVars>>

\* The driver detaches the recorded VM only when the state contains "Applied".
ControllerUnpublishVolume ==
  /\ phase = "unstaged" /\ csi = Idle
  /\ \/ /\ obj # Absent /\ Read("csi") /\ Goto("ControllerUnpublish", "update")
        /\ attached' = IF obj.state \in Applied THEN attached \ {obj.vm} ELSE attached
     \/ /\ obj = Absent \/ case.apiMayFail
        /\ attached' = attached \ {Worker} /\ UNCHANGED storeVars /\ Succeeds("done")
  /\ UNCHANGED <<case, vol, staged, published, vmVars, syncVars>>

\* A failed update leaves an empty copy behind, and the error is not returned.
ControllerUnpublishUpdate ==
  /\ At("ControllerUnpublish", "update")
  /\ \/ Put("csi", [Blank EXCEPT !.state = obj.state]) /\ Goto("ControllerUnpublish", "status")
     \/ PutFails("csi") /\ Succeeds("done")
  /\ UNCHANGED <<case, driverVars, vmVars, syncVars>>

ControllerUnpublishStatus ==
  /\ At("ControllerUnpublish", "status")
  /\ \/ Put("csi", [obj EXCEPT !.state = ""]) \/ PutFails("csi")
  /\ Succeeds("done")
  /\ UNCHANGED <<case, driverVars, vmVars, syncVars>>

-----------------------------------------------------------------------------
(* Node service, called by the kubelet.                                     *)

\* What the call caches in the object.
Cached(call, o) ==
  CASE call = "NodeStage"     -> [o EXCEPT !.stage = TRUE]
    [] call = "NodePublish"   -> [o EXCEPT !.uid = pod]
    [] call = "NodeUnpublish" -> [o EXCEPT !.unpub = TRUE]
    [] call = "NodeUnstage"   -> [o EXCEPT !.unstage = TRUE]

\* The first request of a call; without an object the driver gets the call.
NodeCall(call, need, then) ==
  /\ phase = need /\ csi = Idle
  /\ \/ obj # Absent /\ Read("csi") /\ Goto(call, "update")
     \/ (obj = Absent \/ case.apiMayFail) /\ UNCHANGED storeVars /\ (Succeeds(then) \/ Fails)
  /\ UNCHANGED <<case, driverVars, vmVars, syncVars>>

NodeUpdate(call, next) ==
  /\ At(call, "update")
  /\ \/ /\ IF next = "reget" THEN Put("csi", Cached(call, obj)) ELSE PutOld("csi", Cached(call, obj))
        /\ Goto(call, next)
     \/ PutFails("csi") /\ Fails
  /\ UNCHANGED <<case, driverVars, vmVars, syncVars>>

NodeReget(call) ==
  /\ At(call, "reget")
  /\ \/ Read("csi") \/ (case.apiMayFail /\ fresh' = fresh \ {"csi"} /\ UNCHANGED <<obj, current>>)
  /\ Goto(call, "status")
  /\ UNCHANGED <<case, driverVars, vmVars, syncVars>>

NodeStatus(call, new, then) ==
  /\ At(call, "status")
  /\ \/ Put("csi", new) /\ Succeeds(then)
     \/ PutFails("csi") /\ Fails
  /\ UNCHANGED <<case, driverVars, vmVars, syncVars>>

NodeStageVolume ==
  \/ NodeCall("NodeStage", "attached", "staged")
  \/ NodeUpdate("NodeStage", "reget")
  \/ NodeReget("NodeStage")
  \/ NodeStatus("NodeStage", [obj EXCEPT !.state = "nodeStageVolumeCached"], "staged")

NodePublishVolume ==
  \/ NodeCall("NodePublish", "staged", "published")
  \/ NodeUpdate("NodePublish", "reget")
  \/ NodeReget("NodePublish")
  \/ NodeStatus("NodePublish", [obj EXCEPT !.state = "nodePublishVolumeCached"], "published")

\* UpdateStatus gets the object as it was read, with its old version and state.
NodeUnpublishVolume ==
  \/ NodeCall("NodeUnpublish", "terminating", "unpublished")
  \/ NodeUpdate("NodeUnpublish", "status")
  \/ NodeStatus("NodeUnpublish", obj, "unpublished")

NodeUnstageVolume ==
  \/ NodeCall("NodeUnstage", "unpublished", "unstaged")
  \/ NodeUpdate("NodeUnstage", "status")
  \/ NodeStatus("NodeUnstage", obj, "unstaged")

-----------------------------------------------------------------------------
(* The pod VM and csi-podvm-wrapper.                                        *)

\* The kubelet starts the sandbox once the volume is published (external).
VMStarted ==
  /\ phase = "published" /\ ~vmOn
  /\ vmOn' = TRUE /\ main' = "list"
  /\ cache' = [cache EXCEPT !["vm"] = Absent] /\ queued' = queued \ {"vm"}
  /\ current' = current \ {"vm"} /\ held' = held \ {"vm"}
  /\ UNCHANGED <<case, obj, fresh, driverVars, k8sVars, restarts, sync, work, tries, fails>>

\* main of csi-podvm-wrapper claims the volumes labelled with its Pod's UID.
MainList ==
  /\ main = "list"
  /\ \/ obj # Absent /\ obj.uid = pod /\ main' = "update" /\ Read("main")
     \/ (obj = Absent \/ obj.uid # pod) /\ main' = "serving" /\ UNCHANGED storeVars
  /\ UNCHANGED <<case, driverVars, k8sVars, vmOn, restarts, syncVars>>

\* A failed request is fatal and the container is started again.
MainUpdate ==
  /\ \/ /\ main = "update"
        /\ \/ Put("main", [obj EXCEPT !.name = pod]) /\ main' = "status"
           \/ PutFails("main") /\ main' = "list"
     \/ /\ main = "status"
        /\ \/ Put("main", [obj EXCEPT !.state = "peerPodVSIRunning"]) /\ main' = "serving"
           \/ PutFails("main") /\ main' = "list"
  /\ UNCHANGED <<case, driverVars, k8sVars, vmOn, restarts, syncVars>>

\* The wrapper's container is started again while it serves (external).
MainRestart ==
  /\ main = "serving" /\ restarts < case.restarts /\ sync["vm"] = "idle"
  /\ main' = "list" /\ restarts' = restarts + 1
  /\ cache' = [cache EXCEPT !["vm"] = Absent] /\ queued' = queued \ {"vm"}
  /\ current' = current \ {"vm"} /\ held' = held \ {"vm"}
  /\ UNCHANGED <<case, obj, fresh, driverVars, k8sVars, vmOn, sync, work, tries, fails>>

\* The Pod is deleted; its sandbox stops before the kubelet takes the volume back
\* (external).
PodDeleted ==
  /\ csi = Idle
  /\ \/ /\ phase = "published" /\ phase' = "terminating"
        /\ case.earlyDelete \/ obj.state = "nodePublishVolumeApplied"
     \/ phase = "staged" /\ phase' = "unpublished"
     \/ phase = "attached" /\ phase' = "unstaged"
  /\ vmOn' = FALSE /\ main' = "off" /\ sync' = [sync EXCEPT !["vm"] = "idle"]
  /\ queued' = queued \ {"vm"} /\ tries' = 0
  /\ UNCHANGED <<case, storeVars, driverVars, pod, csi, restarts, cache, held, work, fails>>

-----------------------------------------------------------------------------
(* Informers and SyncHandlers.                                              *)

Live(i) == i = "vm" => main # "off"

\* Faulty variant of Wanted: the pod VM does not wait for the attachment.
WantedEarly(i, o) ==
  o # Absent /\
  CASE i = "controller" -> o.state = "peerPodVSIIDReady" /\ ~o.dev /\ o.ctrl
    [] i = "node"       -> o.state = "peerPodVSIRunning" /\ o.name # None
    [] i = "vm"         -> o.name = pod /\ o.state \in {"peerPodVSIIDReady", "nodeStageVolumeApplied"}

\* What a SyncHandler acts on, by service.  The pod VM's cases for unpublishing wait
\* for states that no program writes.
Wanted(i, o) ==
  o # Absent /\
  CASE i = "controller" -> o.state = "peerPodVSIIDReady" /\ ~o.dev /\ o.ctrl
    [] i = "node"       -> o.state = "peerPodVSIRunning" /\ o.name # None
    [] i = "vm"         -> /\ o.name = pod
                           /\ \/ o.state = "controllerPublishVolumeApplied" /\ o.stage
                              \/ o.state = "nodeStageVolumeApplied" /\ o.uid # None

\* The watch brings a cache up to date and queues the key.  An object that the
\* handler would not act on is not kept: Absent stands for it.
CacheSync(i) ==
  /\ Live(i) /\ i \notin current
  /\ Wanted(i, obj) \/ cache[i] # Absent
  /\ current' = current \cup {i} /\ held' = held \ {i}
  /\ cache' = [cache EXCEPT ![i] = IF Wanted(i, obj) THEN obj ELSE Absent]
  /\ queued' = IF Wanted(i, obj) THEN queued \cup {i} ELSE queued \ {i}
  /\ UNCHANGED <<case, obj, fresh, driverVars, k8sVars, vmVars, sync, work, tries, fails>>

\* processNextWorkItem takes the key from the queue ...
SyncPop(i) ==
  /\ Live(i) /\ i \in queued /\ sync[i] = "idle"
  /\ queued' = queued \ {i}
  /\ sync' = [sync EXCEPT ![i] = "get"]
  /\ UNCHANGED <<case, storeVars, driverVars, k8sVars, vmVars, cache, held, work, tries, fails>>

\* ... and syncHandler the object from the cache.
SyncGet(i) ==
  /\ sync[i] = "get"
  /\ work' = [work EXCEPT ![i] = cache[i]] /\ held' = held \cup {i}
  /\ fresh' = IF i \in current THEN fresh \cup {i} ELSE fresh \ {i}
  /\ sync' = [sync EXCEPT ![i] = IF Wanted(i, cache[i]) THEN "call" ELSE "idle"]
  /\ tries' = IF i = "vm" THEN 0 ELSE tries
  /\ UNCHANGED <<case, obj, current, driverVars, k8sVars, vmVars, cache, queued, fails>>

SyncGoto(i, step) ==
  sync' = [sync EXCEPT ![i] = step] /\ UNCHANGED <<queued, held, work, tries, fails>>

\* Handlers change the object in place, and so in the cache, before they write it.
InCache(i, o) == cache' = IF i \in held THEN [cache EXCEPT ![i] = o] ELSE cache

\* The second of the two writes of a SyncHandler, or its end.
SyncStatus(i, state) ==
  /\ sync[i] = "status"
  /\ \/ Put(i, [obj EXCEPT !.state = state]) \/ PutFails(i)
  /\ SyncGoto(i, "idle")
  /\ UNCHANGED <<case, cache, driverVars, k8sVars, vmVars>>

\* NodeService.SyncHandler: GetInfo of cloud-api-adaptor, which knows the VMs that
\* run, then the VM's ID.
NodeSync ==
  \/ /\ sync["node"] = "call"
     /\ IF vmOn /\ work["node"].name = pod
        THEN SyncGoto("node", "update") /\ InCache("node", [cache["node"] EXCEPT !.vm = pod])
        ELSE SyncGoto("node", "idle") /\ UNCHANGED cache
     /\ UNCHANGED <<case, storeVars, driverVars, k8sVars, vmVars>>
  \/ /\ sync["node"] = "update"
     /\ \/ Put("node", [obj EXCEPT !.vm = work["node"].name]) /\ SyncGoto("node", "status")
        \/ PutFails("node") /\ SyncGoto("node", "idle")
     /\ UNCHANGED <<case, cache, driverVars, k8sVars, vmVars>>
  \/ SyncStatus("node", "peerPodVSIIDReady")

\* ControllerService.SyncHandler: the driver attaches the volume to the pod VM; a
\* request without a node ID fails, and is not repeated.
ControllerSync ==
  \/ /\ sync["controller"] = "call"
     /\ IF work["controller"].vm = None
        THEN SyncGoto("controller", "idle") /\ UNCHANGED <<attached, cache>>
        ELSE /\ attached' = attached \cup {work["controller"].vm}
             /\ SyncGoto("controller", "update")
             /\ InCache("controller", [cache["controller"] EXCEPT !.dev = TRUE])
     /\ UNCHANGED <<case, storeVars, vol, staged, published, k8sVars, vmVars>>
  \/ /\ sync["controller"] = "update"
     /\ \/ Put("controller", [obj EXCEPT !.dev = TRUE]) /\ SyncGoto("controller", "status")
        \/ PutFails("controller") /\ SyncGoto("controller", "idle")
     /\ UNCHANGED <<case, cache, driverVars, k8sVars, vmVars>>
  \/ SyncStatus("controller", "controllerPublishVolumeApplied")

\* Faulty variant of VMCall: a failed call of the driver is not repeated.
VMCallOnce ==
  /\ sync["vm"] = "call"
  /\ \/ /\ IF work["vm"].stage /\ work["vm"].state = "controllerPublishVolumeApplied"
           THEN staged' = staged \cup {pod} /\ UNCHANGED published
           ELSE published' = published \cup {pod} /\ UNCHANGED staged
        /\ sync' = [sync EXCEPT !["vm"] = "status"] /\ UNCHANGED fails
     \/ /\ fails < case.driverFails /\ fails' = fails + 1
        /\ sync' = [sync EXCEPT !["vm"] = "idle"]
        /\ UNCHANGED <<staged, published>>
  /\ UNCHANGED <<case, storeVars, vol, attached, k8sVars, vmVars, cache, queued, held, work, tries>>

\* ReproduceNodeStageVolume and ReproduceNodePublishVolume: the driver's call ...
VMCall ==
  /\ sync["vm"] = "call"
  /\ \/ /\ IF work["vm"].stage /\ work["vm"].state = "controllerPublishVolumeApplied"
           THEN staged' = staged \cup {pod} /\ UNCHANGED published
           ELSE published' = published \cup {pod} /\ UNCHANGED staged
        /\ sync' = [sync EXCEPT !["vm"] = "status"] /\ UNCHANGED <<tries, fails>>
     \/ /\ fails < case.driverFails /\ fails' = fails + 1
        /\ IF tries = MaxTries THEN sync' = [sync EXCEPT !["vm"] = "idle"] /\ UNCHANGED tries
                               ELSE tries' = tries + 1 /\ UNCHANGED sync
        /\ UNCHANGED <<staged, published>>
  /\ UNCHANGED <<case, storeVars, vol, attached, k8sVars, vmVars, cache, queued, held, work>>

\* Faulty variant of VMStatus: staging is reported as publishing.
VMStatusSkipsPublish ==
  /\ sync["vm"] = "status"
  /\ PutOld("vm", [obj EXCEPT !.state = "nodePublishVolumeApplied"])
  /\ sync' = [sync EXCEPT !["vm"] = "idle"]
  /\ UNCHANGED <<case, driverVars, k8sVars, vmVars, cache, queued, held, work, tries, fails>>

\* ... and the status, written from the same copy in every try.  The copy is the
\* object in the cache: its state changes there even when the request fails.
VMStatus ==
  LET new == IF work["vm"].state = "controllerPublishVolumeApplied"
             THEN "nodeStageVolumeApplied" ELSE "nodePublishVolumeApplied"
  IN /\ sync["vm"] = "status"
     /\ InCache("vm", [cache["vm"] EXCEPT !.state = new])
     /\ \/ /\ PutOld("vm", [obj EXCEPT !.state = new])
           /\ sync' = [sync EXCEPT !["vm"] = "idle"] /\ UNCHANGED tries
        \/ /\ PutFails("vm")
           /\ IF tries = MaxTries THEN sync' = [sync EXCEPT !["vm"] = "idle"] /\ UNCHANGED tries
                                  ELSE tries' = tries + 1 /\ sync' = [sync EXCEPT !["vm"] = "call"]
     /\ UNCHANGED <<case, driverVars, k8sVars, vmVars, queued, held, work, fails>>

-----------------------------------------------------------------------------
Controller ==
  \/ ControllerPublishVolume \/ ControllerPublishUpdate \/ ControllerPublishStatus
  \/ ControllerUnpublishVolume \/ ControllerUnpublishUpdate \/ ControllerUnpublishStatus
Node == NodeStageVolume \/ NodePublishVolume \/ NodeUnpublishVolume \/ NodeUnstageVolume
Sync(i) == CacheSync(i) \/ SyncPop(i) \/ SyncGet(i)

Next ==
  \/ CreateVolume \/ DeleteVolume \/ Controller \/ Node
  \/ VMStarted \/ MainList \/ MainUpdate \/ MainRestart
  \/ PodScheduled \/ PodDeleted
  \/ \E i \in Informer : Sync(i)
  \/ NodeSync \/ ControllerSync \/ VMCall \/ VMStatus

\* Calls are repeated until they succeed, the watch delivers and the queues are
\* served.  Nothing is assumed of Pods, restarts and the end of the volume.
Fairness ==
  /\ WF_vars(Controller) /\ WF_vars(Node)
  /\ WF_vars(VMStarted) /\ WF_vars(MainList) /\ WF_vars(MainUpdate)
  /\ \A i \in Informer : WF_vars(CacheSync(i)) /\ WF_vars(SyncPop(i)) /\ WF_vars(SyncGet(i))
  /\ WF_vars(NodeSync) /\ WF_vars(ControllerSync) /\ WF_vars(VMCall) /\ WF_vars(VMStatus)

Spec == Init /\ [][Next]_vars
FairSpec == Spec /\ Fairness

-----------------------------------------------------------------------------
\* The driver stages the volume in a pod VM only while it is attached to it, and
\* publishes it only after it was staged there: ReproduceNodeStageVolume and
\* ReproduceNodePublishVolume act on caches and repeat their calls.  And the VM's ID is
\* set when the state becomes peerPodVSIIDReady, on which the volume is attached,
\* although spec and status are written by two requests.
DriverOrder ==
  [][ /\ \A p \in staged' \ staged : p \in attached
      /\ \A p \in published' \ published : p \in staged
      /\ obj.state # "peerPodVSIIDReady" /\ obj'.state = "peerPodVSIIDReady" => obj'.vm # None ]_vars

\* Only the driver in the pod VM fails, and a Pod stays until its volume is published.
Calm == ~case.apiMayFail /\ ~case.earlyDelete /\ case.restarts = 0 /\ case.key # "none"

\* The object reports nodePublishVolumeApplied only for a volume that is attached
\* to, staged and published in the VM of the Pod that uses it, and when no request
\* fails it is attached to no other: ControllerUnpublishVolume detaches by the state
\* and the VM's ID in the object.  The state is well formed (TypeOK).
AppliedIsTrue ==
  /\ TypeOK
  /\ obj.state = "nodePublishVolumeApplied" /\ phase \in {"published", "terminating"}
       => pod \in attached \cap staged \cap published
  /\ Calm => attached \subseteq (IF phase = "done" THEN {} ELSE {pod})

\* The volume of a running pod VM is published in it at last: an update that meets
\* a conflict is repeated because the change it lost against is an event, too.
MountsApplied == (Calm /\ vmOn) ~> (~vmOn \/ obj.state = "nodePublishVolumeApplied")
=============================================================================
