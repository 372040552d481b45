------------------------ MODULE InstanceTypesProofs ------------------------
(***************************************************************************)
(* Proofs about the choice of an instance type, for every set of types,    *)
(* every table of the cloud and every request.  The inductive invariant    *)
(* says what the list and its filtered copy hold, what the probes have     *)
(* established about the two ends of the search, and what is known of the  *)
(* chosen type until the answer is given.                                  *)
(***************************************************************************)
EXTENDS InstanceTypes, FiniteSetTheorems, SequenceTheorems, WellFoundedInduction, TLAPS

\* An entry of the list: a listed type the cloud has, with its resources.
Entry(s) == s.InstanceType \in Listed \cap DOMAIN table /\ s = Spec1(s.InstanceType)

ListInv ==
  /\ \A i \in 1..Len(specList) : Entry(specList[i])
  /\ \A i \in 1..Len(cand) : Entry(cand[i])
  /\ pc \in {"filter", "search"} /\ Way(req) = "size"
       => \A i \in 1..Len(cand) : cand[i].GPUs = 0

SearchInv ==
  /\ pc = "filter" => Way(req) = "size"
  /\ pc = "search" =>
       /\ Way(req) \in {"gpu", "size"}
       /\ hi < Len(cand) => Enough(cand[hi + 1])
       /\ Monotone => \A i \in 1..Len(cand) : i <= lo => ~Enough(cand[i])

\* What is known of a type chosen by size.
Fit(t) == /\ t \in Listed \cap DOMAIN table
          /\ Enough(Spec1(t))
          /\ Way(req) = "size" => Spec1(t).GPUs = 0

ChoiceInv ==
  /\ pc \in {"verify", "image", "done"} /\ Way(req) \in {"gpu", "size"} => Fit(chosen)
  /\ pc = "verify" /\ Way(req) = "default" => chosen = None
  /\ pc = "verify" /\ Way(req) = "name" => chosen \in Names
  /\ pc \in {"image", "done"} /\ Way(req) = "default" => chosen = defaultType
  /\ pc \in {"image", "done"} /\ Way(req) = "name" => chosen \in Listed

ImagesInv == pc \in {"types", "images"} =>
               /\ Len(images) = Len(ImageIDs)
               /\ kept < at /\ at <= Len(ImageIDs) + 1

IInv == TypeOK /\ ListInv /\ SearchInv /\ ChoiceInv /\ ImagesInv

----------------------------------------------------------------------------
\* Initially the invariant holds: NewProvider has not begun.
LEMMA InitIInv == Init => IInv
<1> SUFFICES ASSUME Init PROVE IInv
  OBVIOUS
<1>1. images \in Seq(Image) /\ Len(images) = Len(ImageIDs)
  BY ImagesAssumption DEF Init, Image
<1>2. TypeOK
  BY <1>1 DEF Init, TypeOK, NoRequest, Request, NoImage, Image, Idle
<1> QED
  BY <1>1, <1>2, ImagesAssumption DEF Init, IInv, ListInv, SearchInv, ChoiceInv, ImagesInv

\* What updateInstanceTypeSpecList stores is a sequence of entries.
LEMMA SortedList ==
  ASSUME TypeOK, NEW s \in SortInstanceTypesOnResources(Listed \cap DOMAIN table)
  PROVE  /\ s \in Seq(InstanceTypeSpec)
         /\ \A i \in 1..Len(s) : Entry(s[i])
<1> DEFINE N == Listed \cap DOMAIN table
           c == Cardinality(N)
<1>1. N \in SUBSET Names
  BY Zenon DEF TypeOK, Listed
<1>2. c \in Nat
  BY <1>1, NamesAssumption, FS_Subset, FS_CardinalityType, Zenon
<1>3. \A n \in N : Spec1(n) \in InstanceTypeSpec /\ Entry(Spec1(n))
  <2> SUFFICES ASSUME NEW n \in N PROVE Spec1(n) \in InstanceTypeSpec /\ Entry(Spec1(n))
    OBVIOUS
  <2>1. n \in Names /\ table[n] \in Shape
    BY <1>1, ShapesAssumption, Zenon DEF TypeOK
  <2>2. Spec1(n) \in InstanceTypeSpec
    BY <2>1, Zenon DEF Spec1, InstanceTypeSpec, Shape
  <2>3. Spec1(n).InstanceType = n
    BY Zenon DEF Spec1
  <2> QED
    BY <2>2, <2>3, Zenon DEF Entry
<1>4. s \in [1..c -> {Spec1(n) : n \in N}]
  BY Zenon DEF SortInstanceTypesOnResources
<1> HIDE DEF N, c
<1>5. s \in Seq(InstanceTypeSpec) /\ Len(s) = c
  BY <1>2, <1>3, <1>4
<1>6. \A i \in 1..Len(s) : \E n \in N : s[i] = Spec1(n)
  BY <1>4, <1>5, Zenon
<1> QED
  BY <1>3, <1>5, <1>6, Zenon

\* Building the list: every entry is a listed type with the cloud's numbers.
LEMMA updateInstanceTypeSpecListIInv == IInv /\ updateInstanceTypeSpecList => IInv'
<1> SUFFICES ASSUME IInv, updateInstanceTypeSpecList PROVE IInv'
  OBVIOUS
<1> USE DEF IInv
<1>1. /\ specList' \in Seq(InstanceTypeSpec)
      /\ \A i \in 1..Len(specList') : Entry(specList'[i])
  BY SortedList, Zenon DEF updateInstanceTypeSpecList, TypeOK, ListInv
<1>2. TypeOK'
  BY <1>1, Zenon DEF updateInstanceTypeSpecList, TypeOK, conf, imageVars, searchVars, Idle
<1>3. ListInv'
  BY <1>1 DEF updateInstanceTypeSpecList, ListInv, Entry, Spec1, Listed, conf, searchVars
<1>4. SearchInv' /\ ChoiceInv' /\ ImagesInv'
  BY Zenon DEF updateInstanceTypeSpecList, SearchInv, ChoiceInv, ImagesInv, imageVars
<1> QED
  BY <1>2, <1>3, <1>4, Zenon

\* Checking one image: the place written lies before the one read.
LEMMA updateImageListIInv == IInv /\ updateImageList => IInv'
<1> SUFFICES ASSUME IInv, updateImageList PROVE IInv'
  OBVIOUS
<1> USE DEF IInv
<1>1. images' \in Seq(Image) /\ Len(images') = Len(images) /\ kept' \in Nat /\ kept' < at'
  <2>1. CASE UNCHANGED <<images, kept, found>>
    BY <2>1 DEF updateImageList, TypeOK, ImagesInv
  <2>2. ASSUME NEW a \in Arches,
               images' = [images EXCEPT ![kept + 1] = [images[at] EXCEPT !.Arch = a]],
               kept' = kept + 1
        PROVE  images' \in Seq(Image) /\ Len(images') = Len(images) /\ kept' \in Nat /\ kept' < at'
    <3>1. at \in 1..Len(images) /\ kept + 1 \in 1..Len(images)
      BY ImagesAssumption DEF updateImageList, TypeOK, ImagesInv
    <3>2. images[at] \in Image
      BY <3>1 DEF TypeOK
    <3>3. [images[at] EXCEPT !.Arch = a] \in Image
      BY <3>2, Zenon DEF Image
    <3> QED
      BY <2>2, <3>1, <3>3 DEF updateImageList, TypeOK, ImagesInv
  <2> QED
    BY <2>1, <2>2, Zenon DEF updateImageList
<1>2. TypeOK'
  BY <1>1 DEF updateImageList, TypeOK, conf, searchVars
<1>3. ListInv' /\ SearchInv' /\ ChoiceInv'
  BY Zenon DEF updateImageList, ListInv, SearchInv, ChoiceInv, Entry, Spec1, Listed, conf, searchVars
<1>4. ImagesInv'
  BY <1>1, ImagesAssumption DEF updateImageList, ImagesInv, TypeOK
<1> QED
  BY <1>2, <1>3, <1>4, Zenon

\* Cutting the list of images to those kept.
LEMMA updateImageListEndIInv == IInv /\ updateImageListEnd => IInv'
<1> SUFFICES ASSUME IInv, updateImageListEnd PROVE IInv'
  OBVIOUS
<1> USE DEF IInv
<1>1. images' \in Seq(Image)
  <2>1. kept <= Len(images)
    BY ImagesAssumption DEF updateImageListEnd, TypeOK, ImagesInv
  <2> QED
    BY <2>1 DEF updateImageListEnd, TypeOK
<1>2. TypeOK'
  BY <1>1, Zenon DEF updateImageListEnd, TypeOK, conf, searchVars, Idle
<1>3. ListInv' /\ SearchInv' /\ ChoiceInv' /\ ImagesInv'
  BY Zenon DEF updateImageListEnd, ListInv, SearchInv, ChoiceInv, ImagesInv, Entry, Spec1, Listed, conf, searchVars
<1> QED
  BY <1>2, <1>3, Zenon

\* A new request: the search by GPUs begins with the whole list.
LEMMA SelectInstanceTypeToUseIInv == IInv /\ SelectInstanceTypeToUse => IInv'
<1> SUFFICES ASSUME IInv, SelectInstanceTypeToUse PROVE IInv'
  OBVIOUS
<1> USE DEF IInv
<1>1. req' \in Requests /\ chosen' = req'.InstanceType /\ image' = NoImage /\ lo' = 0
  BY Zenon DEF SelectInstanceTypeToUse
<1>2. /\ cand' = IF Way(req') = "gpu" THEN specList ELSE << >>
      /\ hi' = IF Way(req') = "gpu" THEN Len(specList) ELSE 0
      /\ pc' = CASE Way(req') = "gpu" -> "search"
                 [] Way(req') = "size" -> "filter"
                 [] OTHER -> "verify"
  BY Zenon DEF SelectInstanceTypeToUse
<1>3. req' \in Request /\ Way(req') \in {"name", "gpu", "size", "default"}
  BY <1>1, RequestsAssumption, Zenon DEF Way
<1>4. cand' \in Seq(InstanceTypeSpec) /\ hi' \in Nat /\ hi' = Len(cand')
  BY <1>2 DEF TypeOK
<1>5. pc' \in {"search", "filter", "verify"}
  BY <1>2, <1>3, Zenon
<1>6. TypeOK'
  BY <1>1, <1>3, <1>4, <1>5 DEF SelectInstanceTypeToUse, TypeOK, Request, NoImage, Image, conf, imageVars
<1>7. ListInv'
  BY <1>2, <1>3, <1>5 DEF SelectInstanceTypeToUse, ListInv, Entry, Spec1, Listed, conf
<1>8. SearchInv'
  BY <1>1, <1>2, <1>3, <1>4 DEF SearchInv
<1>9. ChoiceInv'
  BY <1>1, <1>2, <1>3, Zenon DEF ChoiceInv, Way, Request
<1>10. ImagesInv'
  BY <1>5, Zenon DEF ImagesInv
<1> QED
  BY <1>6, <1>7, <1>8, <1>9, <1>10, Zenon

\* Filtering one element: only entries without GPUs are copied.
LEMMA FilterOutGPUInstancesIInv == IInv /\ FilterOutGPUInstances => IInv'
<1> SUFFICES ASSUME IInv, FilterOutGPUInstances PROVE IInv'
  OBVIOUS
<1> USE DEF IInv
<1>1. /\ specList[lo + 1] \in InstanceTypeSpec
      /\ Entry(specList[lo + 1])
  <2>1. specList \in Seq(InstanceTypeSpec) /\ lo \in Nat /\ lo < Len(specList)
    BY Zenon DEF FilterOutGPUInstances, TypeOK
  <2>2. lo + 1 \in 1..Len(specList)
    BY <2>1
  <2>3. specList[lo + 1] \in InstanceTypeSpec
    BY <2>1, <2>2
  <2> QED
    BY <2>2, <2>3, Zenon DEF ListInv
<1>2. /\ cand' \in Seq(InstanceTypeSpec)
      /\ \A i \in 1..Len(cand') : Entry(cand'[i]) /\ cand'[i].GPUs = 0
  BY <1>1 DEF FilterOutGPUInstances, TypeOK, ListInv, SearchInv
<1>3. TypeOK'
  BY <1>2 DEF FilterOutGPUInstances, TypeOK, conf, imageVars
<1>4. ListInv'
  <2>1. \A i \in 1..Len(specList') : Entry(specList[i])'
    BY Zenon DEF FilterOutGPUInstances, ListInv, Entry, Spec1, Listed, conf
  <2>2. \A i \in 1..Len(cand') : Entry(cand[i])' /\ cand'[i].GPUs = 0
    BY <1>2, Zenon DEF FilterOutGPUInstances, Entry, Spec1, Listed, conf
  <2> QED
    BY <2>1, <2>2, Zenon DEF ListInv
<1>5. SearchInv' /\ ChoiceInv' /\ ImagesInv'
  BY Zenon DEF FilterOutGPUInstances, SearchInv, ChoiceInv, ImagesInv
<1> QED
  BY <1>3, <1>4, <1>5, Zenon

\* The search of the filtered list begins with its whole length.
LEMMA GetBestFitInstanceTypeIInv == IInv /\ GetBestFitInstanceType => IInv'
<1> SUFFICES ASSUME IInv, GetBestFitInstanceType PROVE IInv'
  OBVIOUS
<1> USE DEF IInv
<1>1. TypeOK'
  BY DEF GetBestFitInstanceType, TypeOK, conf, imageVars
<1>2. ListInv'
  BY DEF GetBestFitInstanceType, ListInv, Entry, Spec1, Listed, conf
<1>3. SearchInv'
  BY DEF GetBestFitInstanceType, SearchInv, TypeOK
<1>4. ChoiceInv' /\ ImagesInv'
  BY Zenon DEF GetBestFitInstanceType, ChoiceInv, ImagesInv
<1> QED
  BY <1>1, <1>2, <1>3, <1>4, Zenon

\* A probe: a yes moves the upper end to an element that is enough; a no, if
\* the predicate is monotone, rules out everything up to the probe.
LEMMA SearchIInv == IInv /\ Search => IInv'
<1> SUFFICES ASSUME IInv, Search PROVE IInv'
  OBVIOUS
<1> USE DEF IInv
<1> DEFINE h == (lo + hi) \div 2
<1>1. h \in Nat /\ lo <= h /\ h < hi /\ hi <= Len(cand)
  BY DEF Search, TypeOK
<1>2. UNCHANGED <<conf, specList, imageVars, req, cand, pc, chosen, image>> /\ pc = "search"
  BY Zenon DEF Search
<1>3. IF Enough(cand[h + 1]) THEN hi' = h /\ lo' = lo ELSE lo' = h + 1 /\ hi' = hi
  BY Zenon DEF Search
<1> HIDE DEF h
<1>4. TypeOK'
  BY <1>1, <1>2, <1>3 DEF TypeOK, conf, imageVars
<1>5. ListInv'
  BY <1>2 DEF ListInv, Entry, Spec1, Listed, conf
<1>6. SearchInv'
  <2>1. \A s : Enough(s)' <=> Enough(s')
    BY <1>2, Zenon DEF Enough
  <2>2. hi' < Len(cand) => Enough(cand[hi' + 1])
    BY <1>2, <1>3, Zenon DEF SearchInv
  <2>3. ASSUME Monotone, NEW i \in 1..Len(cand), i <= lo' PROVE ~Enough(cand[i])
    <3>1. CASE lo' = lo
      BY <1>2, <2>3, <3>1, Zenon DEF SearchInv
    <3>2. CASE lo' = h + 1 /\ ~Enough(cand[h + 1])
      <4>1. i = h + 1 \/ i < h + 1
        BY <1>1, <2>3, <3>2
      <4>2. h + 1 \in 1..Len(cand)
        BY <1>1 DEF TypeOK
      <4> QED
        BY <2>3, <3>2, <4>1, <4>2, Zenon DEF Monotone
    <3> QED
      BY <1>3, <3>1, <3>2, Zenon
  <2>4. Monotone' <=> Monotone
    BY <1>2, Zenon DEF Monotone, Enough
  <2>5. /\ hi' < Len(cand') => Enough(cand[hi' + 1])
        /\ \A i \in 1..Len(cand) : Enough(cand[i])' <=> Enough(cand[i])
    BY <1>2, <2>2, Zenon DEF Enough
  <2> QED
    BY <1>2, <2>2, <2>3, <2>4, <2>5, Zenon DEF SearchInv, Enough
<1>7. ChoiceInv' /\ ImagesInv'
  BY <1>2, Zenon DEF ChoiceInv, ImagesInv
<1> QED
  BY <1>4, <1>5, <1>6, <1>7, Zenon

\* The end of the search: the element at the upper end is enough.
LEMMA SearchEndIInv == IInv /\ SearchEnd => IInv'
<1> SUFFICES ASSUME IInv, SearchEnd PROVE IInv'
  OBVIOUS
<1> USE DEF IInv
<1>1. UNCHANGED <<conf, specList, imageVars, req, searchVars, image>> /\ pc' \in {"refused", "verify"}
  BY Zenon DEF SearchEnd
<1>2. pc' = "verify" => chosen' \in Names /\ Fit(chosen')
  <2> SUFFICES ASSUME pc' = "verify" PROVE chosen' \in Names /\ Fit(chosen')
    OBVIOUS
  <2>1. lo = hi /\ lo + 1 \in 1..Len(cand) /\ chosen' = cand[lo + 1].InstanceType /\ pc = "search"
    BY DEF SearchEnd, TypeOK
  <2>2. Enough(cand[lo + 1]) /\ Entry(cand[lo + 1]) /\ (Way(req) = "size" => cand[lo + 1].GPUs = 0)
    BY <2>1 DEF SearchInv, ListInv, TypeOK
  <2>3. cand[lo + 1] = Spec1(chosen') /\ chosen' \in Listed \cap DOMAIN table
    BY <2>1, <2>2, Zenon DEF Entry
  <2> QED
    BY <2>2, <2>3, Zenon DEF Fit, TypeOK
<1>3. pc' = "verify" => Way(req) \in {"gpu", "size"}
  BY Zenon DEF SearchEnd, SearchInv
<1>4. TypeOK'
  BY <1>1, <1>2, Zenon DEF SearchEnd, TypeOK, conf, imageVars, searchVars, Idle
<1>5. ListInv' /\ SearchInv' /\ ImagesInv'
  BY <1>1, Zenon DEF ListInv, SearchInv, ImagesInv, Entry, Spec1, Listed, conf, searchVars
<1>6. ChoiceInv'
  BY <1>1, <1>2, <1>3, Zenon DEF ChoiceInv, Fit, Enough, Spec1, Listed, conf
<1> QED
  BY <1>4, <1>5, <1>6, Zenon

\* The verification lets only listed types and the default through.
LEMMA VerifyCloudInstanceTypeIInv == IInv /\ VerifyCloudInstanceType => IInv'
<1> SUFFICES ASSUME IInv, VerifyCloudInstanceType PROVE IInv'
  OBVIOUS
<1> USE DEF IInv
<1>1. /\ UNCHANGED <<conf, specList, imageVars, req, searchVars, image>>
      /\ pc = "verify" /\ pc' \in {"refused", "image", "done"}
  BY Zenon DEF VerifyCloudInstanceType
<1>2. pc' # "refused" => /\ ~Unsupported(chosen)
                         /\ chosen' = IF chosen = None THEN defaultType ELSE chosen
  BY Zenon DEF VerifyCloudInstanceType
<1>3. TypeOK'
  BY <1>1, Zenon DEF VerifyCloudInstanceType, TypeOK, conf, imageVars, searchVars, Idle
<1>4. ListInv' /\ SearchInv' /\ ImagesInv'
  BY <1>1, Zenon DEF ListInv, SearchInv, ImagesInv, Entry, Spec1, Listed, conf, searchVars
<1>5. ChoiceInv'
  <2>1. ASSUME pc' # "refused", Way(req) \in {"gpu", "size"} PROVE Fit(chosen')
    <3>1. Fit(chosen) /\ chosen # None
      BY <1>1, <2>1, NamesAssumption, Zenon DEF ChoiceInv, Fit, Listed, TypeOK
    <3> QED
      BY <1>2, <2>1, <3>1, Zenon
  <2>2. pc' # "refused" /\ Way(req) = "default" => chosen' = defaultType
    BY <1>1, <1>2, Zenon DEF ChoiceInv
  <2>3. pc' # "refused" /\ Way(req) = "name" => chosen' \in Listed
    BY <1>1, <1>2, NamesAssumption, Zenon DEF ChoiceInv, Unsupported, Listed
  <2> QED
    BY <1>1, <2>1, <2>2, <2>3, Zenon DEF ChoiceInv, Fit, Enough, Spec1, Listed, conf
<1> QED
  BY <1>3, <1>4, <1>5, Zenon

\* selectImage's loop stops at the first image that fits.
LEMMA FirstOf ==
  ASSUME NEW fit \in SUBSET Nat, fit # {}
  PROVE (CHOOSE k \in fit : \A l \in fit : k <= l) \in fit
<1> DEFINE R == OpToRel(<, Nat)
<1>1. IsWellFoundedOn(R, Nat)
  BY NatLessThanWellFounded, Zenon
<1>2. \A k, l \in Nat : l < k => <<l, k>> \in R
  BY Zenon DEF OpToRel
<1> HIDE DEF R
<1>3. PICK k \in fit : \A l \in fit : ~(<<l, k>> \in R)
  BY <1>1, WFMin, Zenon
<1>4. ASSUME NEW l \in fit PROVE k <= l
  <2>1. k \in Nat /\ l \in Nat /\ ~(l < k)
    BY <1>2, <1>3, Zenon
  <2> QED
    BY <2>1
<1> QED
  BY <1>4, Zenon

\* The choice of an image leaves the type alone.
LEMMA selectImageIInv == IInv /\ selectImage => IInv'
<1> SUFFICES ASSUME IInv, selectImage PROVE IInv'
  OBVIOUS
<1> USE DEF IInv
<1> DEFINE fit == {k \in 1..Len(images) : Runs(images[k], chosen)}
<1>1. /\ UNCHANGED <<conf, specList, imageVars, req, searchVars, chosen>>
      /\ pc = "image" /\ pc' \in {"refused", "done"}
  BY Zenon DEF selectImage
<1>2. image' \in Image
  <2>1. CASE UNCHANGED image
    BY <2>1, Zenon DEF TypeOK
  <2>2. CASE fit # {} /\ image' = images[CHOOSE k \in fit : \A l \in fit : k <= l]
    <3>1. fit \in SUBSET Nat /\ fit # {}
      BY <2>2
    <3>2. (CHOOSE k \in fit : \A l \in fit : k <= l) \in fit
      <4> HIDE DEF fit
      <4> QED
        BY <3>1, FirstOf, Zenon
    <3>3. (CHOOSE k \in fit : \A l \in fit : k <= l) \in 1..Len(images)
      BY <3>2, Zenon
    <3> QED
      BY <2>2, <3>3 DEF TypeOK
  <2> QED
    BY <2>1, <2>2, Zenon DEF selectImage
<1>3. TypeOK'
  BY <1>1, <1>2, Zenon DEF TypeOK, conf, imageVars, searchVars, Idle
<1>4. ListInv' /\ SearchInv' /\ ImagesInv'
  BY <1>1, Zenon DEF ListInv, SearchInv, ImagesInv, Entry, Spec1, Listed, conf, searchVars
<1>5. ChoiceInv'
  BY <1>1, Zenon DEF ChoiceInv, Fit, Enough, Spec1, Listed, conf
<1> QED
  BY <1>3, <1>4, <1>5, Zenon

\* A step that changes nothing keeps the invariant.
LEMMA StutterIInv == IInv /\ UNCHANGED vars => IInv'
<1> SUFFICES ASSUME IInv, UNCHANGED vars PROVE IInv'
  OBVIOUS
<1> USE DEF IInv
<1>1. TypeOK'
  BY Zenon DEF vars, TypeOK, conf, imageVars, searchVars
<1>2. ListInv' /\ ImagesInv'
  BY DEF vars, ListInv, ImagesInv, Entry, Spec1, Listed, conf, imageVars, searchVars
<1>3. SearchInv'
  BY Zenon DEF vars, SearchInv, Monotone, Enough, searchVars
<1>4. ChoiceInv'
  BY Zenon DEF vars, ChoiceInv, Fit, Enough, Spec1, Listed, conf
<1> QED
  BY <1>1, <1>2, <1>3, <1>4, Zenon

\* The inductive invariant holds in every reachable state.
THEOREM Inductive == Spec => []IInv
<1>1. IInv /\ [Next]_vars => IInv'
  BY updateInstanceTypeSpecListIInv, updateImageListIInv, updateImageListEndIInv,
     SelectInstanceTypeToUseIInv, FilterOutGPUInstancesIInv, GetBestFitInstanceTypeIInv,
     SearchIInv, SearchEndIInv, VerifyCloudInstanceTypeIInv, selectImageIInv, StutterIInv, Zenon
  DEF Next, NewProvider, Answer
<1> QED
  BY InitIInv, <1>1, PTL DEF Spec

\* The types of the variables; the ends of the search stay within the list.
THEOREM TypeCorrect == Spec => []TypeOK
<1>1. IInv => TypeOK
  BY Zenon DEF IInv
<1> QED
  BY <1>1, Inductive, PTL

\* Whatever the list, a type chosen by size offers what the Pod asks for.
THEOREM Suffices == Spec => []ChosenSuffices
<1>1. IInv => ChosenSuffices
  <2> SUFFICES ASSUME IInv, Sized PROVE /\ chosen \in DOMAIN table
                                        /\ table[chosen].VCPUs >= req.VCPUs
                                        /\ table[chosen].Memory >= req.Memory
                                        /\ table[chosen].GPUs >= req.GPUs
    BY Zenon DEF ChosenSuffices
  <2>1. Fit(chosen)
    BY Zenon DEF IInv, ChoiceInv, Sized
  <2>2. table[chosen] \in Shape /\ req \in Request
    BY <2>1, ShapesAssumption, Zenon DEF IInv, TypeOK, Fit
  <2>3. Enough(Spec1(chosen))
    BY <2>1, Zenon DEF Fit
  <2>4. /\ table[chosen].VCPUs >= req.VCPUs
        /\ table[chosen].Memory >= req.Memory
    BY <2>3, Zenon DEF Enough, Spec1
  <2>5. table[chosen].GPUs \in Nat /\ req.GPUs \in Nat
    BY <2>2, Zenon DEF Shape, Request
  <2>6. table[chosen].GPUs >= req.GPUs
    BY <2>3, <2>5 DEF Enough, Spec1
  <2>7. chosen \in DOMAIN table
    BY <2>1, Zenon DEF Fit
  <2> QED
    BY <2>4, <2>6, <2>7, Zenon
<1> QED
  BY <1>1, Inductive, PTL

\* A Pod that asks for no GPU is given none where the list knows of GPUs.
THEOREM Spared == Spec => []GPUsSpared
<1>1. IInv => GPUsSpared
  BY Zenon DEF IInv, ChoiceInv, GPUsSpared, Fit, Spec1
<1> QED
  BY <1>1, Inductive, PTL

\* The type is one of the configured ones, whichever way it was chosen.
THEOREM Configured == Spec => []ChosenIsConfigured
<1>1. IInv => ChosenIsConfigured
  BY Zenon DEF IInv, ChoiceInv, ChosenIsConfigured, Fit, Listed, Way
<1> QED
  BY <1>1, Inductive, PTL

\* For a list on which the predicate is monotone the search finds the first
\* type that is enough, and fails only if there is none.
THEOREM FirstFit == Spec => []FirstFitInFamily
<1>1. IInv => FirstFitInFamily
  BY Zenon DEF IInv, SearchInv, FirstFitInFamily, AtFirst
<1> QED
  BY <1>1, Inductive, PTL

\* On a sorted list of types without GPUs in which no later type has fewer
\* vCPUs, as in one family of types, the predicate is monotone, whatever is
\* asked for.
THEOREM FamilyIsMonotone ==
  ASSUME TypeOK,
         \A i, j \in 1..Len(cand) : i < j => SortedBefore(cand[i], cand[j]),
         \A i \in 1..Len(cand) : cand[i].GPUs = 0,
         \A i, j \in 1..Len(cand) : i < j => cand[i].VCPUs <= cand[j].VCPUs
  PROVE  Monotone
<1> SUFFICES ASSUME NEW i \in 1..Len(cand), NEW j \in 1..Len(cand), i < j, Enough(cand[i])
             PROVE  Enough(cand[j])
  BY Zenon DEF Monotone
<1>1. cand[i] \in InstanceTypeSpec /\ cand[j] \in InstanceTypeSpec /\ req \in Request
  BY DEF TypeOK
<1>2. cand[i].Memory <= cand[j].Memory /\ cand[i].VCPUs <= cand[j].VCPUs /\ cand[i].GPUs = cand[j].GPUs
  BY <1>1 DEF SortedBefore, InstanceTypeSpec
<1> QED
  BY <1>1, <1>2 DEF Enough, InstanceTypeSpec, Request

----------------------------------------------------------------------------
\* updateImageList: the images confirmed so far are at the front, in order, and those it
\* has yet to come to are as they were configured.  After it the list is what the cloud has
\* confirmed, and a chosen image is one of those that the chosen type can run.
ConfirmInv ==
  /\ found \in Seq(Image)
  /\ pc \in {"types", "images"} =>
       /\ kept = Len(found)
       /\ \A k \in 1..kept : images[k] = found[k]
       /\ \A k \in at..Len(ImageIDs) : images[k] = [ID |-> ImageIDs[k], Arch |-> None]
  /\ cloud = "ibmcloud" /\ pc \notin {"types", "images", "failed"} => images = found
  /\ cloud = "ibmcloud" /\ pc = "done" =>
       (\E k \in 1..Len(found) : image = found[k]) /\ Runs(image, chosen)

\* At the start no image is confirmed.
LEMMA InitConfirm == Init => ConfirmInv
<1> SUFFICES ASSUME Init PROVE ConfirmInv
  OBVIOUS
<1>1. found = << >> /\ kept = 0 /\ at = 1 /\ pc = "types"
  BY DEF Init
<1>2. \A k \in 1..Len(ImageIDs) : images[k] = [ID |-> ImageIDs[k], Arch |-> None]
  BY DEF Init
<1> QED
  BY <1>1, <1>2 DEF ConfirmInv

\* One image of updateImageList: the place that is written is not one that is still to be
\* read, but for the one just read.
LEMMA updateImageListConfirm == IInv /\ ConfirmInv /\ updateImageList => ConfirmInv'
<1> SUFFICES ASSUME IInv, ConfirmInv, updateImageList PROVE ConfirmInv'
  OBVIOUS
<1>1. /\ pc = "images" /\ pc' = "images" /\ at' = at + 1 /\ at \in 1..Len(ImageIDs)
      /\ images \in Seq(Image) /\ Len(images) = Len(ImageIDs) /\ Len(ImageIDs) \in Nat
      /\ kept \in Nat /\ kept < at /\ kept = Len(found) /\ found \in Seq(Image)
  BY ImagesAssumption DEF updateImageList, IInv, TypeOK, ImagesInv, ConfirmInv
<1>2. CASE UNCHANGED <<images, kept, found>>
  BY <1>1, <1>2 DEF ConfirmInv
<1>3. ASSUME NEW a \in Arches,
             images' = [images EXCEPT ![kept + 1] = [images[at] EXCEPT !.Arch = a]],
             kept' = kept + 1, found' = Append(found, [ID |-> ImageIDs[at], Arch |-> a])
      PROVE ConfirmInv'
  <2> DEFINE new == [ID |-> ImageIDs[at], Arch |-> a]
  <2>1. images[at] = [ID |-> ImageIDs[at], Arch |-> None]
    BY <1>1 DEF ConfirmInv
  <2>2. [images[at] EXCEPT !.Arch = a] = new
    BY <2>1
  <2>3. new \in Image
    BY <1>1, ImagesAssumption DEF Image
  <2> HIDE DEF new
  <2>4. images' = [images EXCEPT ![kept + 1] = new] /\ found' = Append(found, new)
    BY <1>3, <2>2 DEF new
  <2>5. \A k \in 1..Len(ImageIDs) : images'[k] = IF k = kept + 1 THEN new ELSE images[k]
    BY <1>1, <2>4
  <2>6. /\ found' \in Seq(Image) /\ Len(found') = kept + 1 /\ found'[kept + 1] = new
        /\ \A k \in 1..kept : found'[k] = found[k]
    BY <1>1, <2>3, <2>4
  <2>7. \A k \in 1..kept' : images'[k] = found'[k]
    BY <1>1, <1>3, <2>5, <2>6 DEF ConfirmInv
  <2>8. \A k \in at'..Len(ImageIDs) : images'[k] = [ID |-> ImageIDs[k], Arch |-> None]
    BY <1>1, <2>5 DEF ConfirmInv
  <2> QED
    BY <1>1, <1>3, <2>6, <2>7, <2>8 DEF ConfirmInv
<1> QED
  BY <1>2, <1>3, Zenon DEF updateImageList

\* The end of updateImageList: what is left of the list is what was confirmed.
LEMMA updateImageListEndConfirm == IInv /\ ConfirmInv /\ updateImageListEnd => ConfirmInv'
<1> SUFFICES ASSUME IInv, ConfirmInv, updateImageListEnd PROVE ConfirmInv'
  OBVIOUS
<1>1. /\ images \in Seq(Image) /\ kept \in Nat /\ kept <= Len(images) /\ kept = Len(found)
      /\ found \in Seq(Image) /\ found' = found /\ \A k \in 1..kept : images[k] = found[k]
  BY ImagesAssumption DEF updateImageListEnd, IInv, TypeOK, ImagesInv, ConfirmInv
<1>2. CASE pc' = "failed"
  BY <1>1, <1>2 DEF ConfirmInv
<1>3. CASE pc' = "ready" /\ images' = SubSeq(images, 1, kept)
  <2>1. images' \in Seq(Image) /\ Len(images') = kept /\ \A k \in 1..kept : images'[k] = images[k]
    BY <1>1, <1>3
  <2>2. images' = found
    BY <1>1, <2>1, SeqEqual
  <2> QED
    BY <1>1, <1>3, <2>2 DEF ConfirmInv
<1> QED
  BY <1>2, <1>3, Zenon DEF updateImageListEnd

\* selectImage takes an image of the list, of the type's architecture.
LEMMA selectImageConfirm == IInv /\ ConfirmInv /\ selectImage => ConfirmInv'
<1> SUFFICES ASSUME IInv, ConfirmInv, selectImage PROVE ConfirmInv'
  OBVIOUS
<1> DEFINE fit == {k \in 1..Len(images) : Runs(images[k], chosen)}
<1>1. UNCHANGED <<cloud, table, specList, images, found, chosen>> /\ pc = "image"
  BY Zenon DEF selectImage, conf, imageVars
<1>2. CASE pc' = "refused"
  BY <1>1, <1>2 DEF ConfirmInv
<1>3. CASE fit # {} /\ pc' = "done" /\ image' = images[CHOOSE k \in fit : \A l \in fit : k <= l]
  <2>1. fit \in SUBSET Nat
    BY DEF IInv, TypeOK
  <2>2. PICK k \in fit : image' = images[k]
    <3> HIDE DEF fit
    <3> QED
      BY <1>3, <2>1, FirstOf, Zenon
  <2>3. k \in 1..Len(images) /\ Runs(images[k], chosen)
    BY <2>2, Zenon
  <2>4. Runs(image, chosen)'
    BY <1>1, <2>2, <2>3, Zenon DEF Runs, InList
  <2> QED
    BY <1>1, <1>3, <2>2, <2>3, <2>4 DEF ConfirmInv
<1> QED
  BY <1>2, <1>3, Zenon DEF selectImage

\* The other steps look at neither the images nor what was confirmed.
LEMMA OthersConfirm ==
  ASSUME IInv, ConfirmInv,
         \/ updateInstanceTypeSpecList \/ SelectInstanceTypeToUse \/ FilterOutGPUInstances
         \/ GetBestFitInstanceType \/ Search \/ SearchEnd \/ VerifyCloudInstanceType \/ UNCHANGED vars
  PROVE ConfirmInv'
<1>1. UNCHANGED <<cloud, images, kept, at, found>>
  BY Zenon DEF updateInstanceTypeSpecList, SelectInstanceTypeToUse, FilterOutGPUInstances, GetBestFitInstanceType,
     Search, SearchEnd, VerifyCloudInstanceType, vars, conf, imageVars
<1>2. CASE updateInstanceTypeSpecList
  <2>1. pc = "types" /\ pc' \in {"failed", "images", "ready"} /\ (cloud = "ibmcloud" => pc' # "ready")
    BY <1>2, Zenon DEF updateInstanceTypeSpecList
  <2> QED
    BY <1>1, <2>1 DEF ConfirmInv
<1>3. CASE SelectInstanceTypeToUse \/ FilterOutGPUInstances \/ GetBestFitInstanceType \/ Search \/ SearchEnd
             \/ VerifyCloudInstanceType
  <2>1. pc \notin {"types", "images", "failed"}
    BY <1>3, Zenon DEF SelectInstanceTypeToUse, FilterOutGPUInstances, GetBestFitInstanceType,
       Search, SearchEnd, VerifyCloudInstanceType, Idle
  <2>2. pc' \notin {"types", "images", "failed"} /\ (cloud = "ibmcloud" => pc' # "done")
    BY <1>3, Zenon DEF SelectInstanceTypeToUse, FilterOutGPUInstances, GetBestFitInstanceType,
       Search, SearchEnd, VerifyCloudInstanceType
  <2> QED
    BY <1>1, <2>1, <2>2 DEF ConfirmInv
<1>4. CASE UNCHANGED vars
  <2>1. UNCHANGED <<pc, image, chosen, specList, table>>
    BY <1>4, Zenon DEF vars, conf
  <2> QED
    BY <1>1, <2>1, Zenon DEF ConfirmInv, Runs, InList
<1> QED
  BY <1>2, <1>3, <1>4, Zenon

\* ImagesConfirmed: whatever images are configured, found and skipped, ibmcloud's list is
\* what the cloud has confirmed, and the image of an instance is one its type can run.
THEOREM ImagesAreConfirmed == Spec => []ImagesConfirmed
<1>1. IInv /\ ConfirmInv /\ [Next]_vars => ConfirmInv'
  BY updateImageListConfirm, updateImageListEndConfirm, selectImageConfirm, OthersConfirm, Zenon
  DEF Next, NewProvider, Answer
<1>2. ConfirmInv => ImagesConfirmed
  BY Zenon DEF ConfirmInv, ImagesConfirmed, Idle, Runs
<1> QED
  BY InitConfirm, Inductive, <1>1, <1>2, PTL DEF Spec
=============================================================================
