SPECIFICATION FairSpec
CONSTANTS
  Name <- Tunnels
  InSide <- Side
  InPhase <- InTags
  OutPhase <- OutTags
  Kbs = "kbs"
  Trustee = TRUE
  MaxLoss = 2
  MaxLocal = 1
CHECK_DEADLOCK FALSE
INVARIANT TunnelPhase
INVARIANT KubernetesAfterKeys
 
PROPERTY AttestationEnds
 
