SPECIFICATION FairSpec
CONSTANTS
  r1 = r1
  r2 = r2
  v1 = v1
  v2 = v2
  Req <- MCReq
  Volume <- MCVolume
  Mounts <- MCMounts
CHECK_DEADLOCK FALSE
INVARIANT NoRequestCut
INVARIANT AgentAfterMount
 
 
