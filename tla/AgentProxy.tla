----------------------------- MODULE AgentProxy -----------------------------
(***************************************************************************)
(* The way of an agent request of one sandbox: the shim's socket and the    *)
(* agent proxy on the worker node, the agent protocol forwarder with its    *)
(* interceptor in the pod VM, and the kata agent.  The proxy is started by  *)
(* a goroutine of StartVM, which waits for it, and told to stop by StopVM,  *)
(* which does not.                                                          *)
(***************************************************************************)
EXTENDS Naturals, Sequences

CONSTANTS Req,      \* requests of the shim
          Volume,   \* target paths of CSI volumes
          Mounts    \* OCI mounts a request may have: sequences of Volume and "other"

ASSUME ProxyAssumption == "other" \notin Volume /\ Mounts \subseteq Seq(Volume \cup {"other"})

VARIABLES startvm,   \* StartVM: "before" its goroutine, "select", "ok" or "failed"
          deadline,  \* the context of StartVM is done
          stopvm,    \* StopVM: "idle", "delete" (the proxy was told to stop), "done"
          proxy,     \* agentProxy.Start: "idle", "dial", "serve", "drain", "close", "returned"
          ready, stop,  \* readyCh and stopCh are closed
          failed,    \* Start returns an error
          errCh,     \* StartVM's channel: "open", "err" (a send is pending), "closed"
          socket,    \* the unix socket: "none", "listening", "closed"
          conn,      \* the proxy's connection: "none", "up", "broken", "closed"
          vm, agent, \* the pod VM: "booting", "up" (the forwarder listens), "gone"; the agent listens
          once,      \* the interceptor's Connect: "new", "dialing", "ok", "failed"
          mounted,   \* volumes mounted in the pod VM
          mounts, req \* mounts of a request; where it is

startVars == <<startvm, deadline, stopvm>>
proxyVars == <<proxy, ready, stop, failed, errCh, socket, conn>>
vmVars == <<vm, agent, once, mounted>>
vars == <<startVars, proxyVars, vmVars, mounts, req>>

Pending == {"proxy", "wait", "connect", "agent"}

TypeOK ==
  /\ startvm \in {"before", "select", "ok", "failed"} /\ deadline \in BOOLEAN
  /\ stopvm \in {"idle", "delete", "done"}
  /\ proxy \in {"idle", "dial", "serve", "drain", "close", "returned"}
  /\ ready \in BOOLEAN /\ stop \in BOOLEAN /\ failed \in BOOLEAN /\ errCh \in {"open", "err", "closed"}
  /\ socket \in {"none", "listening", "closed"} /\ conn \in {"none", "up", "broken", "closed"}
  /\ vm \in {"booting", "up", "gone"} /\ agent \in BOOLEAN
  /\ once \in {"new", "dialing", "ok", "failed"} /\ mounted \subseteq Volume
  /\ mounts \in [Req -> Mounts]
  /\ req \in [Req -> Pending \cup {"new", "done", "error"}]

Init ==
  /\ startvm = "before" /\ deadline = FALSE /\ stopvm = "idle"
  /\ proxy = "idle" /\ ready = FALSE /\ stop = FALSE /\ failed = FALSE /\ errCh = "open"
  /\ socket = "none" /\ conn = "none"
  /\ vm = "booting" /\ agent = FALSE /\ once = "new" /\ mounted = {}
  /\ mounts \in [Req -> Mounts] /\ req = [r \in Req |-> "new"]

-----------------------------------------------------------------------------
(* StartVM, from its goroutine on, and StopVM.                              *)

StartGoroutine ==
  /\ startvm = "before" /\ startvm' = "select"
  /\ \/ proxy' = "dial" /\ socket' = "listening" /\ UNCHANGED errCh
     \/ proxy' = "returned" /\ errCh' = "err" /\ UNCHANGED socket   \* no socket
  /\ UNCHANGED <<deadline, stopvm, ready, stop, failed, conn, vmVars, mounts, req>>

\* The caller's deadline, or the end of its connection (external).
Deadline == ~deadline /\ deadline' = TRUE /\ UNCHANGED <<startvm, stopvm, proxyVars, vmVars, mounts, req>>

Shutdown == stop' = TRUE

\* Faulty variant of StartSelect: an interrupted StartVM leaves the proxy alone.
StartSelectNoCleanup ==
  /\ startvm = "select"
  /\ \/ deadline /\ startvm' = "failed" /\ UNCHANGED <<stop, errCh>>
     \/ errCh = "err" /\ startvm' = "failed" /\ errCh' = "closed" /\ UNCHANGED stop
     \/ errCh = "closed" /\ startvm' = "ok" /\ UNCHANGED <<stop, errCh>>
     \/ ready /\ startvm' = "ok" /\ UNCHANGED <<stop, errCh>>
  /\ UNCHANGED <<deadline, stopvm, proxy, ready, failed, socket, conn, vmVars, mounts, req>>

\* The select of StartVM.  A closed errCh yields a nil error.
StartSelect ==
  /\ startvm = "select"
  /\ \/ deadline /\ startvm' = "failed" /\ Shutdown /\ UNCHANGED errCh
     \/ errCh = "err" /\ startvm' = "failed" /\ errCh' = "closed" /\ UNCHANGED stop
     \/ errCh = "closed" /\ startvm' = "ok" /\ UNCHANGED <<stop, errCh>>
     \/ ready /\ startvm' = "ok" /\ UNCHANGED <<stop, errCh>>
  /\ UNCHANGED <<deadline, stopvm, proxy, ready, failed, socket, conn, vmVars, mounts, req>>

StopVM ==
  \/ /\ stopvm = "idle" /\ stopvm' = "delete" /\ Shutdown
     /\ UNCHANGED <<startvm, deadline, proxy, ready, failed, errCh, socket, conn, vmVars, mounts, req>>
  \/ /\ stopvm = "delete" /\ stopvm' = "done"
     \* DeleteInstance; its error is logged
     /\ \/ vm' = "gone" /\ conn' = IF conn = "up" THEN "broken" ELSE conn
        \/ UNCHANGED <<vm, conn>>
     /\ UNCHANGED <<startvm, deadline, proxy, ready, stop, failed, errCh, socket, agent, once, mounted, mounts, req>>

-----------------------------------------------------------------------------
(* agentProxy.Start.                                                        *)

\* dial repeats until the forwarder accepts or proxyTimeout is over.
DialOK ==
  /\ proxy = "dial" /\ vm = "up"
  /\ proxy' = "serve" /\ conn' = "up" /\ ready' = TRUE
  /\ UNCHANGED <<startVars, stop, failed, errCh, socket, vmVars, mounts, req>>

\* Start returns the error, and its goroutine sends it to StartVM.  The listener
\* was opened before, and nothing closes it.
DialTimeout ==
  /\ proxy = "dial" /\ vm # "up"
  /\ proxy' = "returned" /\ errCh' = "err"
  /\ UNCHANGED <<startVars, ready, stop, failed, socket, conn, vmVars, mounts, req>>

\* The select of Start: stopCh, or an error of the TTRPC server.
Stopped ==
  /\ proxy = "serve"
  /\ \/ stop /\ UNCHANGED failed
     \/ failed' = TRUE
  /\ proxy' = "drain" /\ socket' = "closed"
  /\ UNCHANGED <<startVars, ready, stop, errCh, conn, vmVars, mounts, req>>

\* Faulty variant of Drained: the agent connection is closed first.
DrainedEarly ==
  /\ proxy = "drain"
  /\ proxy' = "close" /\ conn' = "closed"
  /\ UNCHANGED <<startVars, ready, stop, failed, errCh, socket, vmVars, mounts, req>>

\* The deferred Shutdown of the TTRPC server waits for the requests it has ...
Drained ==
  /\ proxy = "drain" /\ \A r \in Req : req[r] \notin Pending
  /\ proxy' = "close"
  /\ UNCHANGED <<startVars, ready, stop, failed, errCh, socket, conn, vmVars, mounts, req>>

\* ... then the connection to the agent is closed and Start returns.
Returns ==
  /\ proxy = "close"
  /\ proxy' = "returned" /\ conn' = "closed" /\ errCh' = IF failed THEN "err" ELSE "closed"
  /\ UNCHANGED <<startVars, ready, stop, failed, socket, vmVars, mounts, req>>

-----------------------------------------------------------------------------
(* The pod VM.                                                              *)

\* The forwarder has set up the pod network and listens; the agent starts by itself.
VMUp ==
  /\ vm = "booting" /\ vm' = "up"
  /\ UNCHANGED <<startVars, proxyVars, agent, once, mounted, mounts, req>>
AgentUp ==
  /\ vm # "gone" /\ ~agent /\ agent' = TRUE
  /\ UNCHANGED <<startVars, proxyVars, vm, once, mounted, mounts, req>>
\* The CSI wrapper mounts a volume (external).
VolumeMounted(v) ==
  /\ vm = "up" /\ v \notin mounted /\ mounted' = mounted \cup {v}
  /\ UNCHANGED <<startVars, proxyVars, vm, agent, once, mounts, req>>

-----------------------------------------------------------------------------
(* A request.                                                               *)

Move(r, place) == req' = [req EXCEPT ![r] = place] /\ UNCHANGED <<startVars, proxyVars, mounts>>

\* The proxy appends the path of every CSI volume to the annotation, after a comma
\* unless it belongs to the first mount.
Comma(i) == i > 1

\* The parts between the commas, as the interceptor reads them: a path that no other
\* path touches.  The empty part before a leading comma is no target path.
Annotation(ms) ==
  LET paths == {i \in DOMAIN ms : ms[i] \in Volume}
      whole(k) == \A j \in paths : (j < k => Comma(k)) /\ (j > k => Comma(j))
  IN  {ms[i] : i \in {k \in paths : whole(k)}}

\* Faulty variant of Waited: only the first volume counts.
WaitedFirst(ms) ==
  {ms[i] : i \in {k \in DOMAIN ms : ms[k] \in Annotation(ms) /\ \A j \in 1..k - 1 : ms[j] \notin Volume}}

\* The mounts whose source is one of the annotation's parts, for which the
\* interceptor waits.
Waited(ms) == {ms[i] : i \in DOMAIN ms} \cap Annotation(ms)

\* The shim connects once StartVM has returned; nobody accepts on the socket of a
\* proxy that failed.
Request(r) ==
  /\ req[r] = "new" /\ startvm = "ok" /\ socket = "listening" /\ proxy = "serve"
  /\ Move(r, "proxy") /\ UNCHANGED vmVars

\* Faulty variant of Forward: a request on a broken connection is dropped.
ForwardDrops(r) ==
  /\ req[r] = "proxy"
  /\ IF conn = "up" THEN Move(r, "wait") ELSE Move(r, "dropped")
  /\ UNCHANGED vmVars

\* proxyService passes the request on over its connection.
Forward(r) ==
  /\ req[r] = "proxy"
  /\ IF conn = "up" THEN Move(r, "wait") ELSE Move(r, "error")
  /\ UNCHANGED vmVars

\* interceptor.CreateContainer: all volumes are mounted, or one of them timed out.
Mounted(r) ==
  /\ req[r] = "wait"
  /\ \/ Waited(mounts[r]) \subseteq mounted /\ Move(r, "connect")
     \/ ~(Waited(mounts[r]) \subseteq mounted) /\ Move(r, "error")
  /\ UNCHANGED vmVars

\* redirector.Connect: the first request dials, the others wait for it; what it
\* found decides for all later requests.
Connect(r) ==
  /\ req[r] = "connect"
  /\ \/ once = "new" /\ once' = "dialing" /\ UNCHANGED <<vm, agent, mounted, startVars, proxyVars, mounts, req>>
     \/ once = "dialing" /\ agent /\ once' = "ok" /\ Move(r, "agent") /\ UNCHANGED <<vm, agent, mounted>>
     \/ once = "dialing" /\ ~agent /\ once' = "failed" /\ Move(r, "error") /\ UNCHANGED <<vm, agent, mounted>>
     \/ once = "ok" /\ Move(r, "agent") /\ UNCHANGED vmVars
     \/ once = "failed" /\ Move(r, "error") /\ UNCHANGED vmVars

\* The agent's answer, or the end of the connection.
Answer(r) ==
  \/ req[r] = "agent" /\ conn = "up" /\ (Move(r, "done") \/ Move(r, "error")) /\ UNCHANGED vmVars
  \/ req[r] \in {"wait", "connect", "agent"} /\ conn # "up" /\ Move(r, "error") /\ UNCHANGED vmVars

-----------------------------------------------------------------------------
Handle(r) == Forward(r) \/ Mounted(r) \/ Connect(r) \/ Answer(r)

Next ==
  \/ StartGoroutine \/ Deadline \/ StartSelect \/ StopVM
  \/ DialOK \/ DialTimeout \/ Stopped \/ Drained \/ Returns
  \/ VMUp \/ AgentUp \/ \E v \in Volume : VolumeMounted(v)
  \/ \E r \in Req : Request(r) \/ Handle(r)

\* Goroutines run and timeouts end every wait.  Nothing is assumed of the VM, of
\* the callers of StartVM and StopVM, or of the shim.
Fairness ==
  /\ WF_vars(StartSelect) /\ WF_vars(DialOK) /\ WF_vars(DialTimeout) /\ WF_vars(stop /\ Stopped)
  /\ WF_vars(Drained) /\ WF_vars(Returns)
  /\ \A r \in Req : WF_vars(Handle(r))

Spec == Init /\ [][Next]_vars
FairSpec == Spec /\ Fairness

-----------------------------------------------------------------------------
\* A proxy that was told to stop ends, also when Shutdown came while it was still
\* dialling, and so does the proxy of an interrupted StartVM: neither serves its
\* socket or holds its connection for good.
ProxyEnds ==
  (startvm = "failed" \/ (stop /\ startvm # "before")) ~> (proxy = "returned" /\ conn # "up")

\* The proxy's own shutdown cuts no request: it closes its connection when all
\* requests that it accepted are answered.  The state is well formed (TypeOK).
NoRequestCut == TypeOK /\ (conn = "closed" => \A r \in Req : req[r] \notin Pending)

\* Every request that the proxy accepts is answered.
RequestsAnswered == \A r \in Req : req[r] = "proxy" ~> req[r] \in {"done", "error"}

\* The agent gets a CreateContainer request only when every CSI volume among its
\* mounts is mounted, and over a connection that was established.
AgentAfterMount ==
  \A r \in Req : req[r] = "agent" => /\ \A i \in DOMAIN mounts[r] : mounts[r][i] \in Volume => mounts[r][i] \in mounted
                                     /\ once = "ok"
=============================================================================
