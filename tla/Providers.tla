------------------------------ MODULE Providers ------------------------------
(***************************************************************************)
(* CreateInstance and DeleteInstance of the cloud providers (package        *)
(* cloud-providers), as the sequences of cloud calls they make, against     *)
(* what exists in the cloud for a sandbox.                                  *)
(*                                                                         *)
(* The body of a provider's method is a sequence of calls.  A call is the   *)
(* set of its outcomes: what exists afterwards, how the method goes on      *)
(* ("next": with the call that follows, "ok", "err", "panic": it returns)   *)
(* and whether the cloud failed.  One step of the model is one call, so     *)
(* that the methods of two sandboxes, and the two processes that delete an  *)
(* instance (the cloud-api-adaptor in StopVM, the PeerPod controller in     *)
(* Reconcile), interleave between any two calls.                            *)
(***************************************************************************)
EXTENDS Naturals, Sequences, FiniteSets

CONSTANTS
  Sandbox,      \* the sandboxes
  Annotated,    \* the sandboxes whose Pod names an image of its own
  Cloud,        \* the providers considered
  Cases,        \* what happens to the Pods, see Case
  MaxCrashes,   \* bound on the restarts of the cloud-api-adaptor
  MaxStops      \* bound on the VMs that power off by themselves

(* The Pods that are started, those of them that are deleted, and the number of
   cloud calls that may fail. *)
Case == [started : SUBSET Sandbox, deleted : SUBSET Sandbox, faults : Nat]

ASSUME ProvidersAssumption ==
  /\ Annotated \subseteq Sandbox /\ Cases \subseteq Case
  /\ Cloud \subseteq {"aws", "azure", "gcp", "ibmcloud", "powervs", "vsphere",
                      "libvirt", "docker", "alibabacloud"}
  /\ {MaxCrashes, MaxStops} \subseteq Nat

VARIABLES
  case,      \* what happens to the Pods
  cloud,     \* the provider in use
  pub,       \* serviceConfig.UsePublicIP
  multi,     \* spec.MultiNic
  model,     \* nodeInfo.Model of the libvirt host
  exists,    \* exists[s]: what exists for the sandbox, see Thing
  default,   \* the image in the provider's configuration, as the adaptor has it
  choice,    \* choice[s]: local variable imageId of CreateInstance
  image,     \* image[s]: the image the VM is made from
  create,    \* create[s]: CreateInstance, see Method
  delete,    \* delete[d][s]: DeleteInstance as called by process d
  faults, crashes, stops

config == <<case, cloud, pub, multi, model>>
vars == <<config, exists, default, choice, image, create, delete, faults, crashes, stops>>

(* "vm": the instance, the container, or the defined libvirt domain, which is
   "on" while it runs; "ip": it has an address the provider has read; "nic":
   the second interface, "attached" to the VM and set to be deleted with it
   ("auto"); "eip": the public address, "bound" to that interface; "root" and
   "iso": the libvirt volumes; "file": the user data on the docker host;
   "folder": the vsphere folder of the VMs, which is shared and stays;
   "entry": the adaptor's map entry p.eips[instanceID] (alibabacloud). *)
Thing == {"vm", "on", "ip", "nic", "attached", "auto", "eip", "bound", "root",
          "iso", "file", "folder", "entry"}
Process == {"caa", "ctrl"}
Model == {"s390x", "aarch64", "x86_64"}
NoImage == "no image"
Default == "default"
Image == {NoImage, Default} \cup Sandbox     \* s: the image s's Pod names

(* A method in progress is at a call; 0 is before the first one.  "idle": not
   called, "run": running, "dead": its process restarted, or what it returned. *)
Method == [at : 0..20, ret : {"idle", "run", "dead", "ok", "err", "panic"}]
Idle == [at |-> 0, ret |-> "idle"]

TypeOK ==
  /\ case \in Cases /\ cloud \in Cloud /\ {pub, multi} \subseteq BOOLEAN /\ model \in Model
  /\ exists \in [Sandbox -> SUBSET Thing]
  /\ default \in Image \ {NoImage}
  /\ choice \in [Sandbox -> Image] /\ image \in [Sandbox -> Image]
  /\ create \in [Sandbox -> Method]
  /\ delete \in [Process -> [Sandbox -> Method]]
  /\ faults \in 0..case.faults /\ crashes \in 0..MaxCrashes /\ stops \in 0..MaxStops

Init ==
  /\ case \in Cases /\ cloud \in Cloud
  /\ pub \in BOOLEAN /\ multi \in BOOLEAN
  /\ cloud \notin {"aws", "alibabacloud"} => ~pub /\ ~multi
  /\ model \in Model /\ (cloud # "libvirt" => model = "x86_64")
  /\ exists = [s \in Sandbox |-> {}]
  /\ default = Default
  /\ choice = [s \in Sandbox |-> NoImage] /\ image = [s \in Sandbox |-> NoImage]
  /\ create = [s \in Sandbox |-> Idle]
  /\ delete = [d \in Process |-> [s \in Sandbox |-> Idle]]
  /\ faults = 0 /\ crashes = 0 /\ stops = 0

-----------------------------------------------------------------------------
(* Outcomes of a call, with x what exists before it. *)

Outcome(x, ret, fault) == {[exists |-> x, ret |-> ret, fault |-> fault]}
Done(x) == Outcome(x, "next", FALSE)
Fails(x) == Outcome(x, "err", TRUE)          \* the method returns the error
Ignored(x) == Outcome(x, "next", TRUE)       \* the error is only logged
Denied(x) == Outcome(x, "err", FALSE)        \* an error however often it is tried

Makes(x, made) == Done(x \cup made) \cup Fails(x)
Check(x) == Makes(x, {})

\* A call whose failure is followed by an attempt to delete what was made before.
MakesOrUndoes(x, made, undone) == Makes(x, made) \cup Fails(x \ undone)

Option(c, calls) == IF c THEN calls ELSE << >>

\* What deleting the VM leaves behind: an interface set to go with it goes.
Gone(x) == x \ ({"vm", "on", "ip", "attached", "bound"}
                \cup IF "auto" \in x THEN {"nic", "auto"} ELSE {})

\* A cloud asked to delete an instance that is gone may refuse or agree.
Missing(x) == Done(x) \cup Denied(x)

\* Deletion as one call, and as a call followed by a wait for its end.
Remove(x) == IF "vm" \in x THEN Done(Gone(x)) \cup Fails(x) ELSE Missing(x)
Await(x) == IF "vm" \in x
            THEN Done(Gone(x)) \cup Fails(x) \cup Fails(Gone(x)) ELSE Missing(x)

-----------------------------------------------------------------------------
(* aws *)

\* Faulty variant of awsNIC: DeleteOnTermination is not set.
awsNICKept(x) ==
  << Makes(x, {"nic"}), Check(x), MakesOrUndoes(x, {"attached"}, {"nic"}), Check(x) >>

\* createAddonNICforInstance: create, wait for the instance, attach, look at the
\* attachment, set DeleteOnTermination.
awsNIC(x) ==
  << Makes(x, {"nic"}), Check(x), MakesOrUndoes(x, {"attached"}, {"nic"}),
     Check(x), Makes(x, {"auto"}) >>

\* createElasticIPforInstance: allocate, wait for the instance, associate.
awsElasticIP(x) ==
  << Makes(x, {"eip"}), Check(x), MakesOrUndoes(x, {"bound"}, {"eip"}) >>

\* getPublicIP: wait for the instance, describe it.
awsPublicIP(x) == << Check(x), Check(x) >>

\* CreateInstance: RunInstances, getIPs, and what the configuration asks for.
awsCreate(x) ==
  << Makes(x, {"vm"}), Makes(x, {"ip"}) >> \o Option(pub, awsPublicIP(x))
  \o Option(multi, awsNIC(x)) \o Option(multi /\ pub, awsElasticIP(x))

\* deleteElasticIPforInstance: an address of the instance is found through its
\* binding, unbound and released; DeleteInstance logs an error.
awsDeleteElasticIP(x) ==
  IF "bound" \in x
  THEN Done(x \ {"bound", "eip"}) \cup Ignored(x) \cup Ignored(x \ {"bound"})
  ELSE Done(x) \cup Ignored(x)

awsDelete(x) == << awsDeleteElasticIP(x), Remove(x) >>

(* azure: the interface and its public address are created with DeleteOption
   Delete, so they are part of the VM. *)

azureParameters(x) == Check(x)     \* the SSH key, the size of the user data
azureBegin(x) == << Makes(x, {"vm"}), Check(x) >>
azureIPs(x) == Makes(x, {"ip"})
azureCreate(x) == << azureParameters(x) >> \o azureBegin(x) \o << azureIPs(x) >>
azureDelete(x) == << Check(x), Await(x) >>

(* gcp *)

gcpTags(x) == Check(x)
gcpImageSize(x) == Check(x)
gcpCreate(x) ==
  << gcpTags(x), gcpImageSize(x), Makes(x, {"vm"}), Check(x), Check(x), Check(x),
     Makes(x, {"ip"}) >>

\* Faulty variant of gcpDelete: DeleteInstance does not wait for the operation.
gcpDeleteUnwatched(x) ==
  << Check(x), Done(Gone(x)) \cup Ignored(x) >>

gcpDelete(x) == << Check(x), Await(x) >>

(* ibmcloud: getIPs is repeated while the instance has no address; after the
   last attempt CreateInstance goes on without one. *)

ibmcloudIPs(x) == Makes(x, {"ip"}) \cup Ignored(x)
ibmcloudCreate(x) == << Makes(x, {"vm"}), ibmcloudIPs(x) >>
ibmcloudDelete(x) == << Remove(x) >>

(* ibmcloud-powervs: wait until the instance is active, then read its address,
   from the instance or from the lease of the DHCP server. *)

powervsIPs(x) == << Check(x), Makes(x, {"ip"}) >>
powervsCreate(x) == << Makes(x, {"vm"}), Check(x) >> \o powervsIPs(x)
powervsDelete(x) == << Remove(x) >>

(* vsphere *)

\* Session, template, folders made as needed, host or DRS.
vspherePlacement(x) == Makes(x, {"folder"}) \cup Fails(x \cup {"folder"})
vsphereClone(x) == << Makes(x, {"vm"}), Check(x), Check(x), Makes(x, {"ip"}) >>
vsphereCreate(x) == << vspherePlacement(x) >> \o vsphereClone(x)

\* DeleteInstance: FindByUuid returns no reference and no error when there is no
\* such VM, and the reference is then dereferenced; the results of the tasks
\* PowerOff and Destroy are not looked at.
vsphereDelete(x) ==
  LET there(o) == IF "vm" \in x THEN o ELSE Denied(x)
  IN << Check(x),
        IF "vm" \in x THEN Check(x) ELSE Outcome(x, "panic", FALSE),
        there(Check(x)),
        there(Done(Gone(x)) \cup Fails(x) \cup Ignored(x)) >>

(* docker *)

dockerContainer(x) == << Makes(x, {"vm"}), Check(x), Makes(x, {"ip"}) >>
dockerCreate(x) == << Makes(x, {"file"}) >> \o dockerContainer(x)
dockerDelete(x) == << Remove(x) >>

(* libvirt *)

\* The disks of the domain description, in the order DeleteDomain relies on.
createDomainXMLs390x == << "root", "iso" >>
createDomainXMLx86_64 == << "root", "iso" >>
createDomainXMLaarch64 == << "root", "iso" >>
createDomainXML ==
  CASE model = "s390x" -> createDomainXMLs390x
    [] model = "aarch64" -> createDomainXMLaarch64
    [] OTHER -> createDomainXMLx86_64

libvirtRootVolume(x) == Makes(x, {"root"}) \cup Fails(x \cup {"root"})
libvirtUploadIso(x) == Makes(x, {"iso"}) \cup Fails(x \cup {"iso"})

\* getDomainIPs is repeated until there is an address, then called once more.
libvirtIPs(x) == Makes(x, {"ip"})

\* CreateDomain: a domain of that name is taken as it is, without its ID.
libvirtCreate(x) ==
  << IF "vm" \in x THEN Outcome(x, "ok", FALSE) ELSE Check(x),
     libvirtRootVolume(x), libvirtUploadIso(x), Check(x),
     Makes(x, {"vm"}), Makes(x, {"on"}), Check(x), libvirtIPs(x) >>

\* deleteVolumeByPath, whose error DeleteDomain logs.
libvirtDeleteVolume(x, v) == Done(x \ {v}) \cup Ignored(x)

\* DeleteDomain: libvirt knows the ID of a running domain only, and no domain of
\* that ID is success; destroy, read the description, delete the volumes of the
\* first two disks, undefine.
libvirtDelete(x) ==
  LET there(o) == IF "vm" \in x THEN o ELSE Denied(x)
      disks == createDomainXML
  IN << IF "on" \in x THEN Check(x) ELSE Outcome(x, "ok", FALSE),
        there(Done(x \ {"on"}) \cup Fails(x)),
        there(Check(x)),
        libvirtDeleteVolume(x, disks[1]), libvirtDeleteVolume(x, disks[2]),
        there(Done(x \ {"vm", "ip"}) \cup Fails(x)) >>

(* alibabacloud *)

\* createAddonNICforInstance: create, wait for the instance, attach, wait for the
\* interface, set DeleteOnRelease.
alibabaNIC(x) ==
  << Makes(x, {"nic"}), Check(x), MakesOrUndoes(x, {"attached"}, {"nic"}),
     Check(x), Makes(x, {"auto"}) >>

\* createEipInstance allocates and waits; the adaptor notes the address.
alibabaEip(x) == << Makes(x, {"eip"}), Makes(x, {"entry"}) >>

\* bindEipToNic: associate, wait.
alibabaBind(x) == << Makes(x, {"bound"}), Check(x) >>

alibabaIPs(x) == Makes(x, {"ip"})
alibabaPublicIP(x) == Check(x)

alibabaCreate(x) ==
  << Makes(x, {"vm"}), Check(x), alibabaIPs(x) >> \o Option(pub, << alibabaPublicIP(x) >>)
  \o Option(multi, alibabaNIC(x))
  \o Option(multi /\ pub, alibabaEip(x) \o alibabaBind(x))

\* deleteEipInstance: unbind, wait, release, wait; DeleteInstance logs an error
\* and drops its note in any case.
alibabaDeleteEip(x) ==
  LET y == x \ {"entry"}
  IN Done(y \ {"bound", "eip"}) \cup Ignored(y) \cup Ignored(y \ {"bound"})

\* Faulty variant of alibabaDelete: an instance that is not found is an error.
alibabaDeleteStrict(x, d) ==
  << IF "vm" \in x THEN Denied(Gone(x)) \cup Fails(x) ELSE Denied(x) >>

\* DeleteInstance: the request that deletes the instance ends in the error of
\* line 385; "not found" is success, and then the address the process knows of
\* is released.
alibabaDelete(x, d) ==
  << IF "vm" \in x THEN Denied(Gone(x)) \cup Fails(x) ELSE Done(x),
     IF d = "caa" /\ "entry" \in x THEN alibabaDeleteEip(x) ELSE Done(x) >>

-----------------------------------------------------------------------------
CreateInstance(x) ==
  CASE cloud = "aws" -> awsCreate(x)
    [] cloud = "azure" -> azureCreate(x)
    [] cloud = "gcp" -> gcpCreate(x)
    [] cloud = "ibmcloud" -> ibmcloudCreate(x)
    [] cloud = "powervs" -> powervsCreate(x)
    [] cloud = "vsphere" -> vsphereCreate(x)
    [] cloud = "docker" -> dockerCreate(x)
    [] cloud = "libvirt" -> libvirtCreate(x)
    [] cloud = "alibabacloud" -> alibabaCreate(x)

DeleteInstance(x, d) ==
  CASE cloud = "aws" -> awsDelete(x)
    [] cloud = "azure" -> azureDelete(x)
    [] cloud = "gcp" -> gcpDelete(x)
    [] cloud = "ibmcloud" -> ibmcloudDelete(x)
    [] cloud = "powervs" -> powervsDelete(x)
    [] cloud = "vsphere" -> vsphereDelete(x)
    [] cloud = "docker" -> dockerDelete(x)
    [] cloud = "libvirt" -> libvirtDelete(x)
    [] cloud = "alibabacloud" -> alibabaDelete(x, d)

\* The method m after a call, the at-th of n, with outcome o.
After(m, n, o) ==
  IF o.ret = "next" /\ m.at < n THEN [m EXCEPT !.at = @ + 1]
  ELSE [m EXCEPT !.ret = IF o.ret = "next" THEN "ok" ELSE o.ret]

Called(o) ==
  /\ o.fault => faults < case.faults
  /\ faults' = faults + IF o.fault THEN 1 ELSE 0

\* The image the Pod of s asks for, the empty string being no request.
Wanted(s) == IF s \in Annotated THEN s ELSE Default

\* Faulty variant of ChooseImage: every provider changes its configuration.
ChooseImageShared(s) ==
  /\ s \in case.started /\ create[s] = Idle
  /\ create' = [create EXCEPT ![s].ret = "run"]
  /\ choice' = choice
  /\ default' = IF s \in Annotated THEN s ELSE default
  /\ UNCHANGED <<config, exists, image, delete, faults, crashes, stops>>

\* CreateInstance begins and chooses the image: in a local variable, or by
\* changing the configuration (alibabacloud, docker and libvirt; libvirt also
\* changes it back).
ChooseImage(s) ==
  /\ s \in case.started /\ create[s] = Idle
  /\ create' = [create EXCEPT ![s].ret = "run"]
  /\ IF cloud \in {"alibabacloud", "docker", "libvirt"}
     THEN /\ default' = CASE s \in Annotated -> s
                          [] cloud = "libvirt" -> Default
                          [] OTHER -> default
          /\ choice' = choice
     ELSE choice' = [choice EXCEPT ![s] = Wanted(s)] /\ default' = default
  /\ UNCHANGED <<config, exists, image, delete, faults, crashes, stops>>

\* The request is built with the image.
TakeImage(s) ==
  /\ create[s] = [at |-> 0, ret |-> "run"]
  /\ create' = [create EXCEPT ![s].at = 1]
  /\ image' = [image EXCEPT ![s] = IF choice[s] = NoImage THEN default ELSE choice[s]]
  /\ UNCHANGED <<config, exists, default, choice, delete, faults, crashes, stops>>

CreateCall(s) ==
  LET calls == CreateInstance(exists[s])
  IN /\ create[s].ret = "run" /\ create[s].at > 0
     /\ \E o \in calls[create[s].at] :
          /\ Called(o)
          /\ exists' = [exists EXCEPT ![s] = o.exists]
          /\ create' = [create EXCEPT ![s] = After(@, Len(calls), o)]
     /\ UNCHANGED <<config, default, choice, image, delete, crashes, stops>>

\* StopVM calls DeleteInstance once; Reconcile does so until it returns nil, for a
\* PeerPod whose finalizer the adaptor has not removed.
BeginDelete(d, s) ==
  /\ s \in case.deleted
  /\ create[s].ret = "ok"
  /\ IF d = "caa" THEN delete[d][s] = Idle
     ELSE /\ delete[d][s].ret \in {"idle", "err", "panic"}
          /\ delete["caa"][s].ret # "ok"
  /\ delete' = [delete EXCEPT ![d][s] = [at |-> 1, ret |-> "run"]]
  /\ UNCHANGED <<config, exists, default, choice, image, create, faults, crashes, stops>>

DeleteCall(d, s) ==
  LET calls == DeleteInstance(exists[s], d)
  IN /\ delete[d][s].ret = "run"
     /\ \E o \in calls[delete[d][s].at] :
          /\ Called(o)
          /\ exists' = [exists EXCEPT ![s] = o.exists]
          /\ delete' = [delete EXCEPT ![d][s] = After(@, Len(calls), o)]
     /\ UNCHANGED <<config, default, choice, image, create, crashes, stops>>

\* The cloud-api-adaptor restarts: its configuration is read again, the methods it
\* was in and its notes are lost.
Restart ==
  LET dies(m) == IF m.ret = "run" THEN [m EXCEPT !.ret = "dead"] ELSE m
  IN /\ crashes < MaxCrashes
     /\ crashes' = crashes + 1
     /\ default' = Default
     /\ exists' = [s \in Sandbox |-> exists[s] \ {"entry"}]
     /\ create' = [s \in Sandbox |-> dies(create[s])]
     /\ delete' = [delete EXCEPT !["caa"] = [s \in Sandbox |-> dies(@[s])]]
     /\ UNCHANGED <<config, choice, image, faults, stops>>

\* The guest of a libvirt domain powers off or crashes.
PowerOff(s) ==
  /\ stops < MaxStops /\ "on" \in exists[s]
  /\ stops' = stops + 1
  /\ exists' = [exists EXCEPT ![s] = @ \ {"on"}]
  /\ UNCHANGED <<config, default, choice, image, create, delete, faults, crashes>>

Next ==
  \/ \E s \in Sandbox : ChooseImage(s) \/ TakeImage(s) \/ CreateCall(s) \/ PowerOff(s)
  \/ \E s \in Sandbox, d \in Process : BeginDelete(d, s) \/ DeleteCall(d, s)
  \/ Restart

Spec == Init /\ [][Next]_vars

(* A call ends, and the controller repeats a Reconcile that failed. *)
FairSpec ==
  /\ Spec
  /\ \A s \in Sandbox : WF_vars(ChooseImage(s) \/ TakeImage(s) \/ CreateCall(s))
  /\ \A s \in Sandbox, d \in Process : WF_vars(DeleteCall(d, s))
  /\ \A s \in Sandbox : WF_vars(BeginDelete("ctrl", s))

-----------------------------------------------------------------------------
Reported(s, ret) == \E d \in Process : delete[d][s].ret = ret
Deleting(s) == Reported(s, "run")

\* A successful DeleteInstance means that the instance is gone, whichever of the
\* two processes called it and whatever failed on the way: the adaptor removes
\* the finalizer and the controller lets the PeerPod go on its word.  Two
\* providers keep it only when nothing goes wrong: vsphere does not look at the
\* result of its tasks, and libvirt takes a domain that is off for deleted.
\* The state is well formed (TypeOK).
DeletedIsGone ==
  TypeOK /\ \A s \in Sandbox :
    /\ Reported(s, "ok") /\ ~Deleting(s)
    /\ cloud \in {"libvirt", "vsphere"} => faults + crashes + stops = 0
    => "vm" \notin exists[s]

\* When nothing has failed, a CreateInstance and a DeleteInstance that succeeded
\* leave nothing of the sandbox in the cloud: the second interface goes with the
\* VM, the address is found and released, both volumes of a domain are deleted.
\* Two providers keep something: docker the user data file, and alibabacloud
\* the public address, whose entry the controller does not have.
NothingLeft ==
  \A s \in Sandbox :
    /\ faults + crashes + stops = 0
    /\ Reported(s, "ok") /\ ~Deleting(s)
    => exists[s] \subseteq CASE cloud = "docker" -> {"file"}
                             [] cloud = "alibabacloud" -> {"eip", "entry"}
                             [] OTHER -> {"folder"}

\* The VM of a sandbox is made from the image its Pod names, and from the
\* configured one if it names none, however the CreateInstance calls of two
\* sandboxes interleave (the providers that choose it in a local variable).
OwnImage ==
  \A s \in Sandbox :
    cloud \notin {"alibabacloud", "docker", "libvirt"} => image[s] \in {NoImage, Wanted(s)}

\* Once the controller has begun to delete an instance of a provider that answers
\* "not found" itself, a DeleteInstance succeeds, although each call may fail,
\* the adaptor may have deleted the instance before, and alibabacloud reports
\* the deletion itself as an error.
DeletionEnds ==
  \A s \in Sandbox :
    cloud \in {"libvirt", "alibabacloud"} /\ delete["ctrl"][s].ret = "run" ~> Reported(s, "ok")
=============================================================================
