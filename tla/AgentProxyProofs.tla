-------------------------- MODULE AgentProxyProofs --------------------------
(***************************************************************************)
(* Proofs about AgentProxy, for any number of requests and volumes and any  *)
(* mounts: the proxy's shutdown cuts no request, and the agent sees no      *)
(* request before its volumes are mounted.                                  *)
(***************************************************************************)
EXTENDS AgentProxy, TLAPS

(* The tuples of variables are abbreviations in every proof below. *)
USE DEF startVars, proxyVars, vmVars

\* A pending request keeps the proxy from closing its connection, only a proxy that
\* returned has closed it, and StartVM starts the proxy once.
DrainInv ==
  /\ startvm = "before" => proxy = "idle"
  /\ \A r \in Req : req[r] \in Pending => proxy \in {"serve", "drain"}
  /\ conn = "closed" => proxy = "returned"

\* A request that left the interceptor waited for its volumes, and one that reached
\* the agent found the connection of redirector.Connect.
MountInv ==
  \A r \in Req : /\ req[r] \in {"connect", "agent"} => Waited(mounts[r]) \subseteq mounted
                 /\ req[r] = "agent" => once = "ok"

ProxyInv == TypeOK /\ DrainInv /\ MountInv

\* strings.Split gives the interceptor every path that CreateContainer of the proxy
\* wrote: wherever a volume stands among the mounts, the interceptor waits for it.
LEMMA VolumesWaitedFor ==
  ASSUME NEW ms \in Mounts, NEW i \in DOMAIN ms, ms[i] \in Volume
  PROVE  ms[i] \in Waited(ms)
<1> DEFINE paths == {k \in DOMAIN ms : ms[k] \in Volume}
<1>1. DOMAIN ms \subseteq Nat \ {0}
  BY ProxyAssumption
<1>2. \A j \in paths : (j < i => Comma(i)) /\ (j > i => Comma(j))
  BY <1>1 DEF Comma
<1>3. ms[i] \in Annotation(ms)
  BY <1>2, Zenon DEF Annotation
<1>4. QED
  BY <1>3, Zenon DEF Waited

\* What Move does to the requests.
LEMMA MoveEffect ==
  ASSUME TypeOK, NEW r \in Req, NEW place, Move(r, place)
  PROVE  /\ req'[r] = place /\ \A q \in Req \ {r} : req'[q] = req[q]
         /\ UNCHANGED <<startVars, proxyVars, mounts>>
         /\ place \in Pending \cup {"new", "done", "error"}
              => req' \in [Req -> Pending \cup {"new", "done", "error"}]
  BY Zenon DEF Move, TypeOK

\* Every step keeps the types.
LEMMA TypeStep == ASSUME TypeOK, [Next]_vars PROVE TypeOK'
<1>1. CASE StartGoroutine
  BY <1>1 DEF StartGoroutine, TypeOK
<1>2. CASE Deadline
  BY <1>2 DEF Deadline, TypeOK
<1>3. CASE StartSelect
  <2>1. startvm' \in {"ok", "failed"} /\ errCh' \in {errCh, "closed"} /\ stop' \in BOOLEAN
    BY <1>3, Zenon DEF StartSelect, Shutdown, TypeOK
  <2>2. UNCHANGED <<deadline, stopvm, proxy, ready, failed, socket, conn, vmVars, mounts, req>>
    BY <1>3, Zenon DEF StartSelect
  <2>3. QED
    BY <2>1, <2>2 DEF TypeOK
<1>4. CASE StopVM
  BY <1>4, Zenon DEF StopVM, Shutdown, TypeOK
<1>5. CASE DialOK
  BY <1>5 DEF DialOK, TypeOK
<1>6. CASE DialTimeout
  BY <1>6 DEF DialTimeout, TypeOK
<1>7. CASE Stopped
  <2>1. proxy' = "drain" /\ socket' = "closed" /\ failed' \in BOOLEAN
    BY <1>7, Zenon DEF Stopped, TypeOK
  <2>2. UNCHANGED <<startVars, ready, stop, errCh, conn, vmVars, mounts, req>>
    BY <1>7, Zenon DEF Stopped
  <2>3. QED
    BY <2>1, <2>2 DEF TypeOK
<1>8. CASE Drained
  BY <1>8 DEF Drained, TypeOK
<1>9. CASE Returns
  BY <1>9 DEF Returns, TypeOK
<1>10. CASE VMUp \/ AgentUp \/ \E v \in Volume : VolumeMounted(v)
  <2>1. /\ vm' \in {vm, "up"} /\ agent' \in BOOLEAN
        /\ mounted' = mounted \/ \E v \in Volume : mounted' = mounted \cup {v}
    BY <1>10, Zenon DEF VMUp, AgentUp, VolumeMounted, TypeOK
  <2>2. UNCHANGED <<startVars, proxyVars, once, mounts, req>>
    BY <1>10, Zenon DEF VMUp, AgentUp, VolumeMounted
  <2>3. QED
    BY <2>1, <2>2 DEF TypeOK
<1>11. ASSUME NEW r \in Req, Request(r) \/ Handle(r)
       PROVE  TypeOK'
  <2>1. req' \in [Req -> Pending \cup {"new", "done", "error"}] /\ UNCHANGED <<startVars, proxyVars, mounts>>
    BY <1>11, MoveEffect, Zenon DEF Request, Handle, Forward, Mounted, Connect, Answer, Pending, TypeOK
  <2>2. UNCHANGED <<vm, agent, mounted>> /\ once' \in {once, "dialing", "ok", "failed"}
    BY <1>11, Zenon DEF Request, Handle, Forward, Mounted, Connect, Answer
  <2>3. QED
    BY <2>1, <2>2 DEF TypeOK
<1>12. CASE UNCHANGED vars
  BY <1>12 DEF vars, TypeOK
<1>13. QED
  BY <1>1, <1>2, <1>3, <1>4, <1>5, <1>6, <1>7, <1>8, <1>9, <1>10, <1>11, <1>12, Zenon DEF Next

\* What a step of a request leaves alone, and where it comes from.
LEMMA RequestEffect ==
  ASSUME TypeOK, NEW r \in Req, Request(r) \/ Handle(r)
  PROVE  /\ UNCHANGED <<startVars, proxyVars, mounts, vm, agent, mounted>>
         /\ \A q \in Req \ {r} : req'[q] = req[q]
         /\ req'[r] \in Pending => req[r] \in Pending \/ proxy = "serve"
         /\ req'[r] = "connect" => req[r] = "connect" \/ Waited(mounts[r]) \subseteq mounted
         /\ req'[r] = "agent" => req[r] = "connect" /\ once' = "ok"
         /\ once = "ok" => once' = "ok"
<1>1. CASE Request(r)
  BY <1>1, MoveEffect DEF Request
<1>2. CASE Forward(r)
  BY <1>2, MoveEffect DEF Forward, Pending
<1>3. CASE Mounted(r)
  BY <1>3, MoveEffect DEF Mounted, Pending
<1>4. CASE Connect(r)
  <2>1. req[r] = "connect"
    BY <1>4, Zenon DEF Connect
  <2>2. CASE UNCHANGED req
    BY <1>4, <2>1, <2>2, MoveEffect, Zenon DEF Connect, Pending
  <2>3. CASE Move(r, "agent")
    BY <1>4, <2>1, <2>3, MoveEffect DEF Connect, Pending
  <2>4. CASE Move(r, "error")
    BY <1>4, <2>1, <2>4, MoveEffect DEF Connect, Pending
  <2>5. QED
    BY <1>4, <2>2, <2>3, <2>4, Zenon DEF Connect
<1>5. CASE Answer(r)
  BY <1>5, MoveEffect DEF Answer, Pending
<1>6. QED
  BY <1>1, <1>2, <1>3, <1>4, <1>5, Zenon DEF Handle

\* Every step keeps DrainInv: Drained waits for the requests, and only a serving
\* proxy accepts one.
LEMMA DrainStep == ASSUME TypeOK, DrainInv, [Next]_vars PROVE DrainInv'
<1>1. CASE StartGoroutine \/ DialOK \/ DialTimeout
  BY <1>1, Zenon DEF StartGoroutine, DialOK, DialTimeout, DrainInv
<1>2. CASE Deadline \/ StartSelect
  <2>1. UNCHANGED <<proxy, conn, req>> /\ startvm' \in {startvm, "ok", "failed"}
    BY <1>2, Zenon DEF Deadline, StartSelect
  <2>2. QED
    BY <2>1, Zenon DEF DrainInv
<1>3. CASE StopVM
  BY <1>3, Zenon DEF StopVM, DrainInv
<1>4. CASE Stopped \/ Drained \/ Returns
  BY <1>4, Zenon DEF Stopped, Drained, Returns, DrainInv
<1>5. CASE VMUp \/ AgentUp \/ \E v \in Volume : VolumeMounted(v)
  BY <1>5, Zenon DEF VMUp, AgentUp, VolumeMounted, DrainInv
<1>6. ASSUME NEW r \in Req, Request(r) \/ Handle(r)
      PROVE  DrainInv'
  BY <1>6, RequestEffect, Zenon DEF DrainInv
<1>7. CASE UNCHANGED vars
  BY <1>7, Zenon DEF vars, DrainInv
<1>8. QED
  BY <1>1, <1>2, <1>3, <1>4, <1>5, <1>6, <1>7, Zenon DEF Next

\* Every step keeps MountInv: volumes stay mounted, and a connection that was made
\* stays.
LEMMA MountStep == ASSUME TypeOK, MountInv, [Next]_vars PROVE MountInv'
<1>1. CASE StartGoroutine \/ Deadline \/ StartSelect \/ DialOK \/ DialTimeout \/ Stopped \/ Drained \/ Returns
  <2>1. UNCHANGED <<mounts, req, mounted, once>>
    BY <1>1, Zenon DEF StartGoroutine, Deadline, StartSelect, DialOK, DialTimeout, Stopped, Drained, Returns
  <2>2. QED
    BY <2>1, Zenon DEF MountInv
<1>2. CASE StopVM
  BY <1>2, Zenon DEF StopVM, MountInv
<1>3. CASE VMUp \/ AgentUp \/ \E v \in Volume : VolumeMounted(v)
  <2>1. mounted \subseteq mounted' /\ UNCHANGED <<mounts, req, once>>
    BY <1>3, Zenon DEF VMUp, AgentUp, VolumeMounted
  <2>2. QED
    BY <2>1, Zenon DEF MountInv
<1>4. ASSUME NEW r \in Req, Request(r) \/ Handle(r)
      PROVE  MountInv'
  BY <1>4, RequestEffect, Zenon DEF MountInv
<1>5. CASE UNCHANGED vars
  BY <1>5, Zenon DEF vars, MountInv
<1>6. QED
  BY <1>1, <1>2, <1>3, <1>4, <1>5, Zenon DEF Next

\* ProxyInv holds in every reachable state of the proxy, the forwarder and the agent.
THEOREM ProxyInvariant == Spec => []ProxyInv
<1>1. Init => ProxyInv
  BY Zenon DEF Init, ProxyInv, TypeOK, DrainInv, MountInv, Pending
<1>2. ProxyInv /\ [Next]_vars => ProxyInv'
  BY TypeStep, DrainStep, MountStep, Zenon DEF ProxyInv
<1>3. QED
  BY <1>1, <1>2, PTL DEF Spec

\* The proxy closes its connection to the agent only when every request that it
\* accepted is answered, whatever StartVM, StopVM and the pod VM do meanwhile.
THEOREM ShutdownCutsNoRequest == Spec => []NoRequestCut
<1>1. ProxyInv => NoRequestCut
  BY Zenon DEF ProxyInv, DrainInv, NoRequestCut
<1>2. QED
  BY <1>1, ProxyInvariant, PTL

\* A CreateContainer request reaches the agent only with all its CSI volumes mounted
\* and over an established connection.
THEOREM AgentSeesMountedVolumes == Spec => []AgentAfterMount
<1>1. ASSUME ProxyInv PROVE AgentAfterMount
  <2>1. ASSUME NEW r \in Req, req[r] = "agent"
        PROVE  Waited(mounts[r]) \subseteq mounted /\ once = "ok" /\ mounts[r] \in Mounts
    BY <1>1, <2>1, Zenon DEF ProxyInv, MountInv, TypeOK
  <2>2. QED
    BY <2>1, VolumesWaitedFor, Zenon DEF AgentAfterMount
<1>2. QED
  BY <1>1, ProxyInvariant, PTL
=============================================================================
