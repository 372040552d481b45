--------------------------- MODULE InstanceTypes ---------------------------
(***************************************************************************)
(* How a cloud provider chooses the type of a Pod VM: the list of the      *)
(* configured instance types that NewProvider builds with what the cloud   *)
(* says of each and sorts, and SelectInstanceTypeToUse, which answers a    *)
(* Pod's annotations from that list with sort.Search.  ibmcloud also       *)
(* chooses an image for the architecture of the type.                      *)
(*                                                                         *)
(* sort.Search is modelled as its loop, one step per probe.  It finds the  *)
(* first element that satisfies a predicate only if the predicate stays    *)
(* true after it; "both memory and vCPUs suffice" need not.                *)
(***************************************************************************)
EXTENDS Integers, Sequences, FiniteSets

CONSTANTS Clouds,        \* the providers considered
          Names,         \* instance types that may be configured or named
          Shapes,        \* what the cloud may offer under a name
          Requests,      \* the annotations of a Pod
          ImageIDs       \* the images in the order of the configuration

None == "none"

AllClouds == {"aws", "azure", "ibmcloud", "alibabacloud"}
Arches == {"amd64", "s390x"}
Shape == [VCPUs : Nat, Memory : Nat, GPUs : Nat, Arch : Arches]
Request == [InstanceType : Names \cup {None}, VCPUs : Nat, Memory : Nat, GPUs : Nat]

ASSUME CloudsAssumption == Clouds \subseteq AllClouds
ASSUME NamesAssumption == IsFiniteSet(Names) /\ None \notin Names
ASSUME ShapesAssumption == Shapes \subseteq Shape
ASSUME RequestsAssumption == Requests \subseteq Request
ASSUME ImagesAssumption == ImageIDs \in Seq(Nat)

VARIABLES
  cloud, instanceTypes, defaultType,    \* the configuration
  table,          \* what the cloud offers: name -> shape
  specList,       \* InstanceTypeSpecList
  images,         \* ibmcloud's Images, compacted in place
  kept, at,       \* updateImageList: i, and the position of the range loop
  found,          \* the configured images that the cloud has confirmed, in order
  req,            \* the request being answered
  cand,           \* the list that is searched
  lo, hi,         \* sort.Search: i and j; lo also counts the filter's loop
  pc, chosen, image

conf == <<cloud, instanceTypes, defaultType, table>>
imageVars == <<images, kept, at, found>>
searchVars == <<cand, lo, hi>>
vars == <<conf, specList, imageVars, req, searchVars, pc, chosen, image>>

NoImage == [ID |-> 0, Arch |-> None]
NoRequest == [InstanceType |-> None, VCPUs |-> 0, Memory |-> 0, GPUs |-> 0]

\* azure and ibmcloud leave GPUs at zero; only ibmcloud records Arch.
Spec1(n) == [InstanceType |-> n, VCPUs |-> table[n].VCPUs, Memory |-> table[n].Memory,
             GPUs |-> IF cloud \in {"aws", "alibabacloud"} THEN table[n].GPUs ELSE 0]

InstanceTypeSpec == [InstanceType : Names, VCPUs : Nat, Memory : Nat, GPUs : Nat]

Init ==
  /\ cloud \in Clouds
  /\ instanceTypes \in SUBSET Names
  /\ defaultType \in Names
  /\ table \in UNION {[S -> Shapes] : S \in SUBSET Names}
  /\ specList = << >>
  /\ images = [k \in 1..Len(ImageIDs) |-> [ID |-> ImageIDs[k], Arch |-> None]]
  /\ kept = 0 /\ at = 1 /\ found = << >>
  /\ req = NoRequest
  /\ cand = << >> /\ lo = 0 /\ hi = 0
  /\ pc = "types" /\ chosen = None /\ image = NoImage

----------------------------------------------------------------------------
(* NewProvider                                                             *)

\* The order SortInstanceTypesOnResources sorts by: GPUs, memory, vCPUs.
SortedBefore(a, b) ==
  \/ a.GPUs < b.GPUs
  \/ a.GPUs = b.GPUs /\ a.Memory < b.Memory
  \/ a.GPUs = b.GPUs /\ a.Memory = b.Memory /\ a.VCPUs <= b.VCPUs

\* Every list of these types sort.Slice, which is not stable, may produce.
SortInstanceTypesOnResources(N) ==
  LET S == {Spec1(n) : n \in N}
      I == 1..Cardinality(N)
  IN {s \in [I -> S] : /\ \A e \in S : \E i \in I : s[i] = e
                       /\ \A i, j \in I : i < j => SortedBefore(s[i], s[j])}

\* The configured types or, without any, the default one.
Listed == IF instanceTypes = {} THEN {defaultType} ELSE instanceTypes

\* updateInstanceTypeSpecList: azure picks its sizes out of the region's list
\* and skips what is not there; for the others an unknown type is an error.
\* The calls may fail.
updateInstanceTypeSpecList ==
  /\ pc = "types"
  /\ \/ pc' = "failed" /\ UNCHANGED specList
     \/ /\ cloud = "azure" \/ Listed \subseteq DOMAIN table
        /\ specList' \in SortInstanceTypesOnResources(Listed \cap DOMAIN table)
        /\ pc' = IF cloud = "ibmcloud" THEN "images" ELSE "ready"
  /\ UNCHANGED <<conf, imageVars, req, searchVars, chosen, image>>

\* Faulty variant of updateImageList: the next place is taken from the loop.
updateImageListLoop ==
  /\ pc = "images" /\ at <= Len(ImageIDs)
  /\ at' = at + 1
  /\ \/ UNCHANGED <<images, kept, found>>
     \/ \E a \in Arches :
          /\ images' = [images EXCEPT ![at] = [images[at] EXCEPT !.Arch = a]]
          /\ kept' = kept + 1
          /\ found' = Append(found, [ID |-> ImageIDs[at], Arch |-> a])
  /\ UNCHANGED <<conf, specList, req, searchVars, pc, chosen, image>>

\* updateImageList, one image: what the cloud does not know is skipped.
updateImageList ==
  /\ pc = "images" /\ at <= Len(ImageIDs)
  /\ at' = at + 1
  /\ \/ UNCHANGED <<images, kept, found>>
     \/ \E a \in Arches :
          /\ images' = [images EXCEPT ![kept + 1] = [images[at] EXCEPT !.Arch = a]]
          /\ kept' = kept + 1
          /\ found' = Append(found, [ID |-> ImageIDs[at], Arch |-> a])
  /\ UNCHANGED <<conf, specList, req, searchVars, pc, chosen, image>>

updateImageListEnd ==
  /\ pc = "images" /\ at > Len(ImageIDs)
  /\ IF kept = 0
     THEN pc' = "failed" /\ UNCHANGED images
     ELSE pc' = "ready" /\ images' = SubSeq(images, 1, kept)
  /\ UNCHANGED <<conf, specList, kept, at, found, req, searchVars, chosen, image>>

----------------------------------------------------------------------------
(* SelectInstanceTypeToUse                                                 *)

\* Which way the type is chosen, in the order of the code's conditions.
Way(r) == IF r.InstanceType # None THEN "name"
          ELSE IF r.GPUs > 0 THEN "gpu"
          ELSE IF r.VCPUs # 0 /\ r.Memory # 0 THEN "size"
          ELSE "default"

Idle == {"ready", "done", "refused"}

SelectInstanceTypeToUse ==
  /\ pc \in Idle
  /\ \E r \in Requests :
       /\ req' = r
       /\ chosen' = r.InstanceType
       /\ image' = NoImage
       /\ lo' = 0
       /\ cand' = IF Way(r) = "gpu" THEN specList ELSE << >>
       /\ hi' = IF Way(r) = "gpu" THEN Len(specList) ELSE 0
       /\ pc' = CASE Way(r) = "gpu" -> "search"
                  [] Way(r) = "size" -> "filter"
                  [] OTHER -> "verify"
  /\ UNCHANGED <<conf, specList, imageVars>>

\* FilterOutGPUInstances, one element of the list.
FilterOutGPUInstances ==
  /\ pc = "filter" /\ lo < Len(specList)
  /\ lo' = lo + 1
  /\ cand' = IF specList[lo + 1].GPUs = 0 THEN Append(cand, specList[lo + 1]) ELSE cand
  /\ UNCHANGED <<conf, specList, imageVars, req, hi, pc, chosen, image>>

\* Faulty variant of GetBestFitInstanceType: the last element is left out.
GetBestFitShort ==
  /\ pc = "filter" /\ lo = Len(specList)
  /\ lo' = 0 /\ hi' = (IF cand = << >> THEN 0 ELSE Len(cand) - 1) /\ pc' = "search"
  /\ UNCHANGED <<conf, specList, imageVars, req, cand, chosen, image>>

\* GetBestFitInstanceType goes on to search the filtered list.
GetBestFitInstanceType ==
  /\ pc = "filter" /\ lo = Len(specList)
  /\ lo' = 0 /\ hi' = Len(cand) /\ pc' = "search"
  /\ UNCHANGED <<conf, specList, imageVars, req, cand, chosen, image>>

\* Faulty variant of Enough: either resource will do.
EnoughOfOne(s) == s.GPUs >= req.GPUs /\ (s.Memory >= req.Memory \/ s.VCPUs >= req.VCPUs)

\* The predicates given to sort.Search (without GPUs, req.GPUs is zero).
Enough(s) == s.GPUs >= req.GPUs /\ s.Memory >= req.Memory /\ s.VCPUs >= req.VCPUs

\* One probe of sort.Search.
Search ==
  /\ pc = "search" /\ lo < hi
  /\ LET h == (lo + hi) \div 2
     IN IF Enough(cand[h + 1])
        THEN hi' = h /\ UNCHANGED lo
        ELSE lo' = h + 1 /\ UNCHANGED hi
  /\ UNCHANGED <<conf, specList, imageVars, req, cand, pc, chosen, image>>

\* What the index that sort.Search returns is used for.
SearchEnd ==
  /\ pc = "search" /\ lo = hi
  /\ IF lo = Len(cand)
     THEN pc' = "refused" /\ UNCHANGED chosen
     ELSE pc' = "verify" /\ chosen' = cand[lo + 1].InstanceType
  /\ UNCHANGED <<conf, specList, imageVars, req, searchVars, image>>

\* VerifyCloudInstanceType refuses this type.
Unsupported(t) ==
  /\ t # None
  /\ \/ instanceTypes = {} /\ t # defaultType
     \/ instanceTypes # {} /\ t \notin instanceTypes

VerifyCloudInstanceType ==
  /\ pc = "verify"
  /\ IF Unsupported(chosen)
     THEN pc' = "refused" /\ UNCHANGED chosen
     ELSE /\ pc' = IF cloud = "ibmcloud" THEN "image" ELSE "done"
          /\ chosen' = IF chosen = None THEN defaultType ELSE chosen
  /\ UNCHANGED <<conf, specList, imageVars, req, searchVars, image>>

\* The architecture the list has for a type, if it has the type.
InList(t) == \E i \in 1..Len(specList) : specList[i].InstanceType = t

\* The image may run on the type.
Runs(im, t) == InList(t) => im.Arch = table[t].Arch

\* ibmcloud's selectImage takes the first image of the architecture.
selectImage ==
  /\ pc = "image"
  /\ LET fit == {k \in 1..Len(images) : Runs(images[k], chosen)}
     IN IF fit = {}
        THEN pc' = "refused" /\ UNCHANGED image
        ELSE /\ pc' = "done"
             /\ image' = images[CHOOSE k \in fit : \A l \in fit : k <= l]
  /\ UNCHANGED <<conf, specList, imageVars, req, searchVars, chosen>>

----------------------------------------------------------------------------
NewProvider == updateInstanceTypeSpecList \/ updateImageList \/ updateImageListEnd
Answer == \/ FilterOutGPUInstances \/ GetBestFitInstanceType \/ Search \/ SearchEnd
          \/ VerifyCloudInstanceType \/ selectImage

Next == NewProvider \/ SelectInstanceTypeToUse \/ Answer

Spec == Init /\ [][Next]_vars
----------------------------------------------------------------------------
(* Properties                                                              *)

Image == [ID : Nat, Arch : Arches \cup {None}]

\* Every variable keeps its type; the bounds of the search stay in the list.
TypeOK ==
  /\ cloud \in Clouds /\ instanceTypes \in SUBSET Names /\ defaultType \in Names
  /\ DOMAIN table \subseteq Names
  /\ \A n \in DOMAIN table : table[n] \in Shapes
  /\ specList \in Seq(InstanceTypeSpec) /\ cand \in Seq(InstanceTypeSpec)
  /\ images \in Seq(Image) /\ kept \in Nat /\ at \in Nat
  /\ req \in Request
  /\ lo \in Nat /\ hi \in Nat /\ (pc = "search" => lo <= hi /\ hi <= Len(cand))
  /\ pc \in Idle \cup {"types", "images", "failed", "filter", "search", "verify", "image"}
  /\ chosen \in Names \cup {None} /\ image \in Image

\* The answer was found by the size the Pod asks for.
Sized == pc = "done" /\ Way(req) \in {"gpu", "size"}

\* A type chosen by size offers, in the cloud, at least the vCPUs, the memory
\* and the GPUs asked for: the probe that set the upper end of the search was
\* answered yes, wherever the search went and whatever the list looks like.
ChosenSuffices ==
  Sized => /\ chosen \in DOMAIN table
           /\ table[chosen].VCPUs >= req.VCPUs
           /\ table[chosen].Memory >= req.Memory
           /\ table[chosen].GPUs >= req.GPUs

\* A Pod that asks for vCPUs and memory only is not given a type with GPUs by
\* the providers that learn the number of GPUs from the cloud.
GPUsSpared ==
  pc = "done" /\ Way(req) = "size" /\ cloud \in {"aws", "alibabacloud"}
    => table[chosen].GPUs = 0

\* Whichever way it was chosen, the type is one that is configured: one of
\* the list or, without a list or a wish, the default.
ChosenIsConfigured ==
  pc = "done" => \/ chosen \in instanceTypes
                 \/ chosen = defaultType /\ (instanceTypes = {} \/ Way(req) = "default")

\* The predicate, once true in the list that is searched, stays true.
Monotone == \A i, j \in 1..Len(cand) : i < j /\ Enough(cand[i]) => Enough(cand[j])

\* The search ends at the first element that is enough, or after the list.
AtFirst == /\ \A i \in 1..Len(cand) : i <= lo => ~Enough(cand[i])
           /\ lo < Len(cand) => Enough(cand[lo + 1])

\* Where more memory always comes with no fewer vCPUs, as in one family of
\* types, the search ends at the first type of the list that is enough, and
\* with an error only if no type is.
FirstFitInFamily == pc = "search" /\ lo = hi /\ Monotone => AtFirst

\* After start-up ibmcloud's list holds the configured images that the cloud has
\* confirmed, in their order, with their architectures: the compaction in place
\* overwrites no image before the loop has read it.  An instance of a type in
\* ibmcloud's list gets such an image, of an architecture that the type can run.
ImagesConfirmed ==
  cloud = "ibmcloud" =>
    /\ pc \in Idle => images = found
    /\ pc = "done" => /\ \E k \in 1..Len(found) : image = found[k]
                      /\ InList(chosen) => image.Arch = table[chosen].Arch
=============================================================================
