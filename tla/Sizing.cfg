SPECIFICATION Spec
CONSTANTS
  Clouds = {"aws", "azure", "ibmcloud"}
  Names = {n1, n2, n3}
  Shapes <- SomeShapes
  Requests <- SomeRequests
  ImageIDs <- TwoImages
  MiB = 4
  PodSpecs <- SomePods
SYMMETRY NameSymmetry
CHECK_DEADLOCK FALSE
INVARIANT ChosenSuffices
INVARIANT FirstFitInFamily
 
INVARIANT PodFits
