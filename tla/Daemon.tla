------------------------------- MODULE Daemon -------------------------------
(***************************************************************************)
(* A process that runs services under the Starter, restarted by the node:   *)
(* the cloud-api-adaptor with its server, the node's extended resource and   *)
(* the startup probe, or the pod VM's process with the SSH server and the    *)
(* agent protocol forwarder.                                                 *)
(***************************************************************************)
EXTENDS Naturals, Sequences, FiniteSets

CONSTANTS Pods,        \* peer pods of the node
          Cases        \* processes, see Case

Adaptor == <<"server">>
PodVM == <<"ssh", "forwarder">>

\* The services of a process, and bounds: starts after the first, failures of services,
\* patches and processes, and signals to one process.
ASSUME DaemonAssumption ==
  \A c \in Cases : /\ c.kinds \in {Adaptor, PodVM} /\ c.signals \in 0..2
                    /\ c.restarts \in Nat /\ c.faults \in Nat

VARIABLES case,     \* the process
          main,     \* Setup ("load"), Start waits ("wait"), receives from errorCh, or ended
          ctx,      \* the Starter's context is live
          sig,      \* signals received
          svc,      \* where a service is
          ready,    \* its readyCh is closed
          failed,   \* its Start returned an error
          seen,     \* services the notifier has seen ready
          sent,     \* states sent to systemd
          socket,   \* the remote hypervisor's socket is open
          capacity, \* kata.peerpods.io/vm is in the node's capacity
          kept,     \* the last patch that removes it failed
          pod,      \* Ready condition of a peer pod: "old" is from before this start
          handler,  \* StartupHandler: "idle", "dialed", or the list's verdict
          latch,    \* podsReadizProbesDone
          started,  \* the startup probe has succeeded
          stood,    \* since this start all peer pods were ready at one moment
          bad,      \* cloud-config-verify is set and ConfigVerifier fails
          restarts, faults

procVars == <<case, main, ctx, sig, svc, ready, failed, seen, sent, socket>>
nodeVars == <<capacity, kept, bad>>
probeVars == <<pod, handler, latch, started, stood>>
vars == <<procVars, nodeVars, probeVars, restarts, faults>>

Ended == {"exit0", "exit1", "killed"}
Alive == main \notin Ended
kinds == case.kinds
Service == DOMAIN kinds
Fault == faults < case.faults /\ faults' = faults + 1
FirstStep(i) == IF kinds[i] = "server" THEN "verify" ELSE "listen"

\* The forwarder reads its configuration first.
First == IF kinds = PodVM THEN "load" ELSE "wait"

Fresh ==
  /\ main = First /\ ctx = TRUE /\ sig = 0
  /\ svc = [i \in Service |-> FirstStep(i)]
  /\ ready = [i \in Service |-> FALSE] /\ failed = [i \in Service |-> FALSE]
  /\ seen = 0 /\ sent = << >> /\ socket = FALSE
  /\ handler = "idle" /\ latch = FALSE /\ started = FALSE

Init ==
  /\ case \in Cases /\ Fresh /\ capacity = FALSE /\ kept = FALSE
  /\ bad \in BOOLEAN /\ (bad => kinds = Adaptor) /\ stood = (Pods = {})
  /\ pod \in [Pods -> {"old", "notready"}]
  /\ kinds = PodVM => \A p \in Pods : pod[p] = "notready"
  /\ restarts = 0 /\ faults = 0

----------------------------------------------------------------------------
(* A service's Start returns nil, or an error that cancels the context. *)
Returned(i) == svc' = [svc EXCEPT ![i] = "ended"] /\ UNCHANGED <<failed, ctx>>

(* Faulty variant of Fail: the context is not cancelled. *)
FailQuiet(i) ==
  svc' = [svc EXCEPT ![i] = "sending"] /\ failed' = [failed EXCEPT ![i] = TRUE] /\ ctx' = ctx

Fail(i) ==
  svc' = [svc EXCEPT ![i] = "sending"] /\ failed' = [failed EXCEPT ![i] = TRUE] /\ ctx' = FALSE

(* server.Start returns err, which is nil, when ConfigVerifier fails. *)
Verify(i) ==
  /\ svc[i] = "verify"
  /\ \/ bad /\ Returned(i)
     \/ ~bad /\ svc' = [svc EXCEPT ![i] = "advertise"] /\ UNCHANGED <<failed, ctx>>
  /\ UNCHANGED <<case, main, sig, ready, seen, sent, socket, nodeVars, probeVars, restarts, faults>>

(* Faulty variant of Advertise: a failed patch is logged and the server goes on. *)
AdvertiseLogged(i) ==
  /\ svc[i] = "advertise" /\ svc' = [svc EXCEPT ![i] = "listen"]
  /\ \/ capacity' = TRUE /\ kept' = FALSE /\ bad' = bad /\ UNCHANGED faults
     \/ Fault /\ UNCHANGED nodeVars
  /\ UNCHANGED <<case, main, ctx, sig, ready, failed, seen, sent, socket, probeVars, restarts>>

Advertise(i) ==
  /\ svc[i] = "advertise"
  /\ \/ /\ capacity' = TRUE /\ kept' = FALSE /\ bad' = bad
        /\ svc' = [svc EXCEPT ![i] = "listen"] /\ UNCHANGED <<failed, ctx, faults>>
     \/ Fault /\ Fail(i) /\ UNCHANGED nodeVars
  /\ UNCHANGED <<case, main, sig, ready, seen, sent, socket, probeVars, restarts>>

(* The service listens and is ready.  The SSH server's Start returns then;  *)
(* its phases go on in a goroutine.                                         *)
Listen(i) ==
  /\ svc[i] = "listen"
  /\ \/ /\ ready' = [ready EXCEPT ![i] = TRUE] /\ socket' = (socket \/ kinds[i] = "server")
        /\ svc' = [svc EXCEPT ![i] = IF kinds[i] = "ssh" THEN "ended" ELSE "serving"]
        /\ UNCHANGED <<failed, ctx, faults>>
     \/ Fault /\ Fail(i) /\ UNCHANGED <<ready, socket>>
  /\ UNCHANGED <<case, main, sig, seen, sent, nodeVars, probeVars, restarts>>

(* The TTRPC server ends with an error. *)
ServeError(i) ==
  /\ svc[i] = "serving" /\ Fault /\ Fail(i)
  /\ socket' = (socket /\ kinds[i] # "server")
  /\ UNCHANGED <<case, main, sig, ready, seen, sent, nodeVars, probeVars, restarts>>

(* Shutdown of the server removes the extended resource, whose error it     *)
(* ignores; the provider's Teardown may fail.                               *)
Remove(i) ==
  \/ kinds[i] = "server" /\ capacity' = FALSE /\ kept' = FALSE /\ bad' = bad /\ UNCHANGED faults
  \/ kinds[i] = "server" /\ Fault /\ kept' = TRUE /\ UNCHANGED <<capacity, bad>>
  \/ kinds[i] # "server" /\ UNCHANGED <<nodeVars, faults>>

Stop(i) ==
  /\ svc[i] = "serving" /\ ~ctx
  /\ Remove(i) /\ socket' = (socket /\ kinds[i] # "server")
  /\ Returned(i) \/ (kinds[i] = "server" /\ Fail(i))
  /\ UNCHANGED <<case, main, sig, ready, seen, sent, probeVars, restarts>>

----------------------------------------------------------------------------
(* Setup of the forwarder.  A start without a configuration that can be     *)
(* read ends with an error, and systemd starts the process again: it stays  *)
(* in "load".                                                               *)
Load(readable) ==
  /\ main = "load" /\ readable /\ main' = "wait"
  /\ UNCHANGED <<case, ctx, sig, svc, ready, failed, seen, sent, socket, nodeVars, probeVars,
                 restarts, faults>>

(* The first signal cancels the context, the second ends the process. *)
Signal ==
  /\ sig < case.signals /\ sig' = sig + 1
  /\ \/ sig = 0 /\ ctx' = FALSE /\ UNCHANGED <<case, main, socket>>
     \/ sig = 1 /\ main' = "killed" /\ socket' = FALSE /\ UNCHANGED ctx
  /\ UNCHANGED <<case, svc, ready, failed, seen, sent, nodeVars, probeVars, restarts, faults>>

(* Start of the Starter: when the context is done it receives from the      *)
(* services' channels in their order; the first error ends the process.     *)
Turn == <<"1", "2">>

Collect ==
  /\ ~ctx
  /\ \/ main = "wait" /\ main' = "1" /\ UNCHANGED socket
     \/ \E i \in Service :
          /\ main = Turn[i]
          /\ \/ svc[i] = "sending" /\ main' = "exit1" /\ socket' = FALSE
             \/ /\ svc[i] = "ended"
                /\ IF i = Len(kinds) THEN main' = "exit0" /\ socket' = FALSE
                                     ELSE main' = Turn[i + 1] /\ UNCHANGED socket
  /\ UNCHANGED <<case, ctx, sig, svc, ready, failed, seen, sent, nodeVars, probeVars, restarts, faults>>

(* The notifier waits for each service, sends READY, and STOPPING when the  *)
(* context is done; it gives up when that comes first.                      *)
Notify ==
  /\ \/ /\ seen < Len(kinds) /\ ready[seen + 1] /\ seen' = seen + 1
        /\ sent' = IF seen + 1 = Len(kinds) THEN Append(sent, "READY") ELSE sent
     \/ seen < Len(kinds) /\ ~ctx /\ seen' = Len(kinds) + 1 /\ sent' = sent
     \/ seen = Len(kinds) /\ ~ctx /\ seen' = Len(kinds) + 1 /\ sent' = Append(sent, "STOPPING")
  /\ UNCHANGED <<case, main, ctx, sig, svc, ready, failed, socket, nodeVars, probeVars, restarts, faults>>

----------------------------------------------------------------------------
(* StartupHandler dials the socket, lists the node's peer pods unless they  *)
(* were all ready before, and answers.                                      *)
Dial ==
  /\ handler = "idle" /\ ~started /\ socket /\ handler' = "dialed"
  /\ UNCHANGED <<procVars, nodeVars, pod, latch, started, stood, restarts, faults>>

(* Faulty variant of AllStand: the time of the Ready condition is not asked. *)
AllStandReady == \A p \in Pods : pod[p] # "notready"

(* GetAllPeerPods: every pod is ready, and since after the process started. *)
AllStand == \A p \in Pods : pod[p] = "new"

List ==
  /\ handler = "dialed" /\ ~latch
  /\ handler' = IF AllStand THEN "stand" ELSE "wait"
  /\ latch' = AllStand
  /\ UNCHANGED <<procVars, nodeVars, pod, started, stood, restarts, faults>>

Answer ==
  /\ handler \in {"stand", "wait"} \/ (handler = "dialed" /\ latch)
  /\ started' = (handler # "wait") /\ handler' = "idle"
  /\ UNCHANGED <<procVars, nodeVars, pod, latch, stood, restarts, faults>>

(* A peer pod becomes ready or stops being so. *)
PodChanges ==
  /\ kinds = Adaptor /\ \E p \in Pods :
       pod' = [pod EXCEPT ![p] = IF @ = "notready" THEN "new" ELSE "notready"]
  /\ stood' = (stood \/ \A p \in Pods : pod'[p] = "new")
  /\ UNCHANGED <<procVars, nodeVars, handler, latch, started, restarts, faults>>

----------------------------------------------------------------------------
(* The process dies without any of its handlers. *)
Crash ==
  /\ Fault /\ main' = "killed" /\ socket' = FALSE
  /\ UNCHANGED <<case, ctx, sig, svc, ready, failed, seen, sent, nodeVars, probeVars, restarts>>

(* A new process; the pods' conditions are older than its start.  A pod VM's *)
(* process that ends without an error is not started again.                 *)
Restart ==
  /\ ~Alive /\ (kinds = Adaptor \/ main # "exit0")
  /\ restarts < case.restarts /\ restarts' = restarts + 1
  /\ main' = First /\ ctx' = TRUE /\ sig' = 0
  /\ svc' = [i \in Service |-> FirstStep(i)]
  /\ ready' = [i \in Service |-> FALSE] /\ failed' = [i \in Service |-> FALSE]
  /\ seen' = 0 /\ sent' = << >> /\ socket' = FALSE
  /\ handler' = "idle" /\ latch' = FALSE /\ started' = FALSE
  /\ pod' = [p \in Pods |-> IF pod[p] = "new" THEN "old" ELSE pod[p]] /\ stood' = (Pods = {})
  /\ UNCHANGED <<case, nodeVars, faults>>

Running == Alive /\ main # "load"
Step(i) == Running /\ i \in Service /\ (Verify(i) \/ Advertise(i) \/ Listen(i) \/ Stop(i))
Next ==
  \/ Running /\ Signal
  \/ Running /\ Collect
  \/ Running /\ Notify
  \/ Running /\ Crash
  \/ Running /\ (Dial \/ List \/ Answer)
  \/ \E i \in Service : Step(i) \/ (Running /\ ServeError(i))
  \/ PodChanges
  \/ Restart

----------------------------------------------------------------------------
ProcTypeOK ==
  /\ case \in Cases /\ main \in {"load", "wait", "1", "2"} \cup Ended /\ ctx \in BOOLEAN /\ sig \in 0..2
  /\ svc \in [Service -> {"verify", "advertise", "listen", "serving", "sending", "ended"}]
  /\ ready \in [Service -> BOOLEAN] /\ failed \in [Service -> BOOLEAN]
  /\ seen \in 0..(Len(kinds) + 1) /\ sent \in Seq({"READY", "STOPPING"}) /\ socket \in BOOLEAN

NodeTypeOK ==
  /\ bad \in BOOLEAN /\ capacity \in BOOLEAN /\ kept \in BOOLEAN
  /\ latch \in BOOLEAN /\ started \in BOOLEAN /\ stood \in BOOLEAN
  /\ pod \in [Pods -> {"old", "notready", "new"}]
  /\ handler \in {"idle", "dialed", "stand", "wait"}
  /\ restarts \in 0..case.restarts /\ faults \in 0..case.faults

TypeOK == ProcTypeOK /\ NodeTypeOK

(* While the server serves, the scheduler knows the node's capacity for     *)
(* peer pods, also after crashes and failed patches of earlier processes;   *)
(* and a process that ends without an error leaves no capacity behind for   *)
(* which there is no server, except when the patch that removes it failed.  *)
CapacityFollows ==
  /\ \A i \in Service : Alive /\ kinds[i] = "server" /\ svc[i] = "serving" => capacity
  /\ main = "exit0" => ~capacity \/ kept

(* What the process tells is true.  systemd hears READY only when all       *)
(* services are ready, and STOPPING only after that.  The exit status tells *)
(* a failure of any service, whichever failed first and whatever the others *)
(* did when the context was cancelled.  The startup probe succeeds only     *)
(* after all peer pods of the node were ready at one moment after this      *)
(* process started.                                                         *)
ReportsAreTrue ==
  /\ sent \in {<< >>, <<"READY">>, <<"READY", "STOPPING">>}
  /\ sent # << >> => \A i \in Service : ready[i]
  /\ main = "exit0" => \A i \in Service : ~failed[i] /\ svc[i] = "ended"
  /\ started => stood

(* A signal, in whatever step of the start it arrives, and a failure of a   *)
(* service, which blocks in its send until the Starter receives it, end the *)
(* process, so that it is restarted.                                        *)
ProcessEnds == (sig > 0 \/ \E i \in Service : failed[i]) ~> ~Alive
=============================================================================
