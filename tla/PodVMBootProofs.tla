--------------------------- MODULE PodVMBootProofs ---------------------------
(***************************************************************************)
(* Proofs about the processes of the node and of the pod VM, for every set  *)
(* of peer pods, every number of restarts, failures and signals, every       *)
(* number of attempts and runs and every cloud config that CreateVM makes.   *)
(***************************************************************************)
EXTENDS PodVMBoot, SequenceTheorems, TLAPS

\* The node's capacity along the server's steps.  A config that does not verify is never
\* advertised, by no process of the node; and only a server advertises.
ServiceInv ==
  /\ \A i \in Service :
       /\ svc[i] \in {"verify", "advertise"} => kinds[i] = "server"
       /\ kinds[i] = "server" /\ svc[i] \in {"listen", "serving"} => capacity
       /\ kinds[i] = "server" /\ svc[i] = "ended" => ~capacity \/ kept
       /\ kinds[i] = "server" /\ bad => svc[i] \in {"verify", "ended"}
       /\ failed[i] => svc[i] = "sending"
  /\ bad \/ kinds = PodVM => ~capacity

\* The Starter has received from the services before the one whose turn it is.
ExitInv ==
  /\ \A i, j \in Service : main = Turn[i] /\ j < i => svc[j] = "ended"
  /\ main = "exit0" => \A i \in Service : svc[i] = "ended"

\* What the notifier has sent, by the number of services it has seen.
NoticeInv ==
  /\ seen < Len(kinds) => sent = << >>
  /\ seen = Len(kinds) => sent = <<"READY">>
  /\ seen > Len(kinds) => sent \in {<< >>, <<"READY", "STOPPING">>}
  /\ \A i \in Service : seen <= Len(kinds) /\ i <= seen => ready[i]
  /\ sent # << >> => \A i \in Service : ready[i]

\* A verdict of the probe, also a remembered one, comes from a list in which all stood.
ProbeInv ==
  /\ AllStand => stood
  /\ latch => stood
  /\ handler = "stand" => stood
  /\ started => stood

DaemonInv == TypeOK /\ ServiceInv /\ ExitInv /\ NoticeInv /\ ProbeInv

\* While the files of an initdata are extracted, those that are no longer to do are there;
\* a complete digest ends the program.
ExtractInv ==
  /\ fs["digest"] \in Initdata => pc = "done"
  /\ pc = "files" =>
       /\ parsed \in Initdata /\ fs["initdata"] = parsed /\ todo \subseteq Data(parsed)
       /\ \A p \in (Data(parsed) \cap initdataFiles) \ todo : fs[p] = parsed

BootInv == DaemonInv /\ UserTypeOK /\ ExtractInv /\ FilesVouched

----------------------------------------------------------------------------
\* The services of the two kinds of process.
LEMMA Kinds ==
  ASSUME TypeOK
  PROVE \/ /\ kinds = Adaptor /\ kinds # PodVM
           /\ Service = {1} /\ Len(kinds) = 1 /\ kinds[1] = "server"
        \/ /\ kinds = PodVM /\ kinds # Adaptor
           /\ Service = {1, 2} /\ Len(kinds) = 2 /\ kinds[1] = "ssh" /\ kinds[2] = "forwarder"
<1>1. kinds \in {Adaptor, PodVM}
  BY DaemonAssumption, Zenon DEF TypeOK, ProcTypeOK, kinds
<1>2. CASE kinds = Adaptor
  <2>1. Len(kinds) = 1 /\ kinds[1] = "server" /\ kinds # PodVM
    BY <1>2, Zenon DEF Adaptor, PodVM
  <2>2. Service = {1}
    BY <1>2 DEF Adaptor, Service
  <2> QED
    BY <1>2, <2>1, <2>2, Zenon
<1>3. CASE kinds = PodVM
  <2>1. Len(kinds) = 2 /\ kinds[1] = "ssh" /\ kinds[2] = "forwarder" /\ kinds # Adaptor
    BY <1>3, Zenon DEF Adaptor, PodVM
  <2>2. Service = {1, 2}
    BY <1>3 DEF PodVM, Service
  <2> QED
    BY <1>3, <2>1, <2>2, Zenon
<1> QED
  BY <1>1, <1>2, <1>3, Zenon

\* The bounds of a process are numbers.
LEMMA Bounds ==
  ASSUME TypeOK
  PROVE case.restarts \in Nat /\ case.faults \in Nat /\ case.signals \in 0..2
BY DaemonAssumption, Zenon DEF TypeOK, ProcTypeOK, NodeTypeOK

\* A process is what it is: no step changes its services.
LEMMA CaseStays ==
  ASSUME [Next]_vars
  PROVE case' = case /\ kinds' = kinds /\ Service' = Service
<1>1. case' = case
  BY Zenon DEF Next, vars, procVars, nodeVars, probeVars, Signal, Collect, Notify, Crash, Dial, List, Answer,
         Step, Verify, Advertise, Listen, Stop, ServeError, PodChanges, Restart
<1> QED
  BY <1>1, Zenon DEF kinds, Service

\* Every step keeps the types of the process.
LEMMA TypeStep ==
  ASSUME TypeOK, [Next]_vars
  PROVE TypeOK'
<1> DEFINE Wh == {"verify", "advertise", "listen", "serving", "sending", "ended"}
<1>k. case' = case /\ kinds' = kinds /\ Service' = Service
  BY CaseStays, Zenon
<1>t. SUFFICES
        /\ main' \in {"load", "wait", "1", "2"} \cup Ended /\ sig' \in 0..2
        /\ svc' \in [Service -> Wh] /\ handler' \in {"idle", "dialed", "stand", "wait"}
        /\ seen' \in 0..(Len(kinds) + 1) /\ sent' \in Seq({"READY", "STOPPING"})
        /\ pod' \in [Pods -> {"old", "notready", "new"}]
        /\ restarts' \in 0..case.restarts /\ faults' \in 0..case.faults
        /\ ready' \in [Service -> BOOLEAN] /\ failed' \in [Service -> BOOLEAN]
        /\ ctx' \in BOOLEAN /\ bad' \in BOOLEAN /\ socket' \in BOOLEAN /\ capacity' \in BOOLEAN
        /\ kept' \in BOOLEAN /\ latch' \in BOOLEAN /\ started' \in BOOLEAN /\ stood' \in BOOLEAN
  BY <1>k, Zenon DEF TypeOK, ProcTypeOK, NodeTypeOK
<1>1. CASE Signal
  <2>1. /\ main' \in {"load", "wait", "1", "2"} \cup Ended /\ sig' \in 0..2
        /\ svc' \in [Service -> Wh] /\ handler' \in {"idle", "dialed", "stand", "wait"}
    BY <1>1, Bounds, Kinds DEF TypeOK, ProcTypeOK, NodeTypeOK, Ended, Signal, procVars, nodeVars, probeVars
  <2>2. /\ seen' \in 0..(Len(kinds) + 1) /\ sent' \in Seq({"READY", "STOPPING"})
        /\ pod' \in [Pods -> {"old", "notready", "new"}]
        /\ restarts' \in 0..case.restarts /\ faults' \in 0..case.faults
    BY <1>1, Bounds, Kinds, Zenon DEF TypeOK, ProcTypeOK, NodeTypeOK, Signal, procVars, nodeVars, probeVars
  <2>3. ready' \in [Service -> BOOLEAN] /\ failed' \in [Service -> BOOLEAN]
    BY <1>1, Zenon DEF TypeOK, ProcTypeOK, NodeTypeOK, Signal, procVars, nodeVars, probeVars
  <2>4. /\ ctx' \in BOOLEAN /\ bad' \in BOOLEAN /\ socket' \in BOOLEAN /\ capacity' \in BOOLEAN
        /\ kept' \in BOOLEAN /\ latch' \in BOOLEAN /\ started' \in BOOLEAN /\ stood' \in BOOLEAN
    BY <1>1, Zenon DEF TypeOK, ProcTypeOK, NodeTypeOK, Signal, procVars, nodeVars, probeVars
  <2> QED
    BY <2>1, <2>2, <2>3, <2>4, Zenon
<1>2. CASE Collect
  <2>1. /\ main' \in {"load", "wait", "1", "2"} \cup Ended /\ sig' \in 0..2
        /\ svc' \in [Service -> Wh] /\ handler' \in {"idle", "dialed", "stand", "wait"}
    <3>1. CASE main = "wait" /\ main' = "1"
      BY <1>2, <3>1, Zenon DEF TypeOK, ProcTypeOK, NodeTypeOK, Collect, probeVars
    <3>2. CASE main' \in {"exit0", "exit1"}
      BY <1>2, <3>2, Zenon DEF TypeOK, ProcTypeOK, NodeTypeOK, Ended, Collect, probeVars
    <3>3. CASE \E i \in Service : i # Len(kinds) /\ main' = Turn[i + 1]
      <4> PICK i \in Service : i # Len(kinds) /\ main' = Turn[i + 1]
        BY <3>3, Zenon
      <4>0. i = 1
        BY Kinds, Zenon
      <4>1. main' = Turn[2]
        BY <4>0
      <4>2. main' = "2"
        BY <4>1, Zenon DEF Turn
      <4> QED
        BY <1>2, <4>2, Zenon DEF TypeOK, ProcTypeOK, NodeTypeOK, Collect, probeVars
    <3> QED
      BY <1>2, <3>1, <3>2, <3>3, Zenon DEF Collect
  <2>2. /\ seen' \in 0..(Len(kinds) + 1) /\ sent' \in Seq({"READY", "STOPPING"})
        /\ pod' \in [Pods -> {"old", "notready", "new"}]
        /\ restarts' \in 0..case.restarts /\ faults' \in 0..case.faults
    BY <1>2, Bounds, Kinds, Zenon DEF TypeOK, ProcTypeOK, NodeTypeOK, Collect, procVars, nodeVars, probeVars, Turn
  <2>3. ready' \in [Service -> BOOLEAN] /\ failed' \in [Service -> BOOLEAN]
    BY <1>2, Zenon DEF TypeOK, ProcTypeOK, NodeTypeOK, Collect, procVars, nodeVars, probeVars, Turn
  <2>4. /\ ctx' \in BOOLEAN /\ bad' \in BOOLEAN /\ socket' \in BOOLEAN /\ capacity' \in BOOLEAN
        /\ kept' \in BOOLEAN /\ latch' \in BOOLEAN /\ started' \in BOOLEAN /\ stood' \in BOOLEAN
    BY <1>2, Zenon DEF TypeOK, ProcTypeOK, NodeTypeOK, Collect, procVars, nodeVars, probeVars, Turn
  <2> QED
    BY <2>1, <2>2, <2>3, <2>4, Zenon
<1>3. CASE Notify
  <2>1. /\ main' \in {"load", "wait", "1", "2"} \cup Ended /\ sig' \in 0..2
        /\ svc' \in [Service -> Wh] /\ handler' \in {"idle", "dialed", "stand", "wait"}
    BY <1>3, Bounds, Kinds, Zenon DEF TypeOK, ProcTypeOK, NodeTypeOK, Ended, Notify, procVars, nodeVars, probeVars
  <2>2. /\ seen' \in 0..(Len(kinds) + 1) /\ sent' \in Seq({"READY", "STOPPING"})
        /\ pod' \in [Pods -> {"old", "notready", "new"}]
        /\ restarts' \in 0..case.restarts /\ faults' \in 0..case.faults
    <3>1. seen' \in 0..(Len(kinds) + 1)
      BY <1>3, Kinds DEF TypeOK, ProcTypeOK, NodeTypeOK, Notify
    <3>2. sent' \in {sent, Append(sent, "READY"), Append(sent, "STOPPING")}
      BY <1>3, Zenon DEF Notify
    <3>3. \A e \in {"READY", "STOPPING"} : Append(sent, e) \in Seq({"READY", "STOPPING"})
      BY AppendProperties, Zenon DEF TypeOK, ProcTypeOK, NodeTypeOK
    <3>4. sent' \in Seq({"READY", "STOPPING"})
      BY <3>2, <3>3, Zenon DEF TypeOK, ProcTypeOK, NodeTypeOK
    <3> QED
      BY <1>3, <3>1, <3>4, Zenon DEF TypeOK, ProcTypeOK, NodeTypeOK, Notify, probeVars
  <2>3. ready' \in [Service -> BOOLEAN] /\ failed' \in [Service -> BOOLEAN]
    BY <1>3, Zenon DEF TypeOK, ProcTypeOK, NodeTypeOK, Notify, procVars, nodeVars, probeVars
  <2>4. /\ ctx' \in BOOLEAN /\ bad' \in BOOLEAN /\ socket' \in BOOLEAN /\ capacity' \in BOOLEAN
        /\ kept' \in BOOLEAN /\ latch' \in BOOLEAN /\ started' \in BOOLEAN /\ stood' \in BOOLEAN
    BY <1>3, Zenon DEF TypeOK, ProcTypeOK, NodeTypeOK, Notify, procVars, nodeVars, probeVars
  <2> QED
    BY <2>1, <2>2, <2>3, <2>4, Zenon
<1>4. CASE Crash
  <2>1. /\ main' \in {"load", "wait", "1", "2"} \cup Ended /\ sig' \in 0..2
        /\ svc' \in [Service -> Wh] /\ handler' \in {"idle", "dialed", "stand", "wait"}
    BY <1>4, Bounds, Kinds, Zenon DEF TypeOK, ProcTypeOK, NodeTypeOK, Ended, Crash, procVars, nodeVars, probeVars, Fault
  <2>2. /\ seen' \in 0..(Len(kinds) + 1) /\ sent' \in Seq({"READY", "STOPPING"})
        /\ pod' \in [Pods -> {"old", "notready", "new"}]
        /\ restarts' \in 0..case.restarts /\ faults' \in 0..case.faults
    BY <1>4, Bounds, Kinds DEF TypeOK, ProcTypeOK, NodeTypeOK, Crash, procVars, nodeVars, probeVars, Fault
  <2>3. ready' \in [Service -> BOOLEAN] /\ failed' \in [Service -> BOOLEAN]
    BY <1>4, Zenon DEF TypeOK, ProcTypeOK, NodeTypeOK, Crash, procVars, nodeVars, probeVars, Fault
  <2>4. /\ ctx' \in BOOLEAN /\ bad' \in BOOLEAN /\ socket' \in BOOLEAN /\ capacity' \in BOOLEAN
        /\ kept' \in BOOLEAN /\ latch' \in BOOLEAN /\ started' \in BOOLEAN /\ stood' \in BOOLEAN
    BY <1>4, Zenon DEF TypeOK, ProcTypeOK, NodeTypeOK, Crash, procVars, nodeVars, probeVars, Fault
  <2> QED
    BY <2>1, <2>2, <2>3, <2>4, Zenon
<1>5. CASE Dial
  <2>1. /\ main' \in {"load", "wait", "1", "2"} \cup Ended /\ sig' \in 0..2
        /\ svc' \in [Service -> Wh] /\ handler' \in {"idle", "dialed", "stand", "wait"}
    BY <1>5, Bounds, Kinds, Zenon DEF TypeOK, ProcTypeOK, NodeTypeOK, Ended, Dial, procVars, nodeVars, probeVars
  <2>2. /\ seen' \in 0..(Len(kinds) + 1) /\ sent' \in Seq({"READY", "STOPPING"})
        /\ pod' \in [Pods -> {"old", "notready", "new"}]
        /\ restarts' \in 0..case.restarts /\ faults' \in 0..case.faults
    BY <1>5, Bounds, Kinds, Zenon DEF TypeOK, ProcTypeOK, NodeTypeOK, Dial, procVars, nodeVars, probeVars
  <2>3. ready' \in [Service -> BOOLEAN] /\ failed' \in [Service -> BOOLEAN]
    BY <1>5, Zenon DEF TypeOK, ProcTypeOK, NodeTypeOK, Dial, procVars, nodeVars, probeVars
  <2>4. /\ ctx' \in BOOLEAN /\ bad' \in BOOLEAN /\ socket' \in BOOLEAN /\ capacity' \in BOOLEAN
        /\ kept' \in BOOLEAN /\ latch' \in BOOLEAN /\ started' \in BOOLEAN /\ stood' \in BOOLEAN
    BY <1>5, Zenon DEF TypeOK, ProcTypeOK, NodeTypeOK, Dial, procVars, nodeVars, probeVars
  <2> QED
    BY <2>1, <2>2, <2>3, <2>4, Zenon
<1>6. CASE List
  <2>1. /\ main' \in {"load", "wait", "1", "2"} \cup Ended /\ sig' \in 0..2
        /\ svc' \in [Service -> Wh] /\ handler' \in {"idle", "dialed", "stand", "wait"}
    BY <1>6, Bounds, Kinds, Zenon DEF TypeOK, ProcTypeOK, NodeTypeOK, Ended, List, procVars, nodeVars, probeVars
  <2>2. /\ seen' \in 0..(Len(kinds) + 1) /\ sent' \in Seq({"READY", "STOPPING"})
        /\ pod' \in [Pods -> {"old", "notready", "new"}]
        /\ restarts' \in 0..case.restarts /\ faults' \in 0..case.faults
    BY <1>6, Bounds, Kinds, Zenon DEF TypeOK, ProcTypeOK, NodeTypeOK, List, procVars, nodeVars, probeVars
  <2>3. ready' \in [Service -> BOOLEAN] /\ failed' \in [Service -> BOOLEAN]
    BY <1>6, Zenon DEF TypeOK, ProcTypeOK, NodeTypeOK, List, procVars, nodeVars, probeVars
  <2>4. /\ ctx' \in BOOLEAN /\ bad' \in BOOLEAN /\ socket' \in BOOLEAN /\ capacity' \in BOOLEAN
        /\ kept' \in BOOLEAN /\ latch' \in BOOLEAN /\ started' \in BOOLEAN /\ stood' \in BOOLEAN
    BY <1>6, Zenon DEF TypeOK, ProcTypeOK, NodeTypeOK, List, AllStand, procVars, nodeVars, probeVars
  <2> QED
    BY <2>1, <2>2, <2>3, <2>4, Zenon
<1>7. CASE Answer
  <2>1. /\ main' \in {"load", "wait", "1", "2"} \cup Ended /\ sig' \in 0..2
        /\ svc' \in [Service -> Wh] /\ handler' \in {"idle", "dialed", "stand", "wait"}
    BY <1>7, Bounds, Kinds, Zenon DEF TypeOK, ProcTypeOK, NodeTypeOK, Ended, Answer, procVars, nodeVars, probeVars
  <2>2. /\ seen' \in 0..(Len(kinds) + 1) /\ sent' \in Seq({"READY", "STOPPING"})
        /\ pod' \in [Pods -> {"old", "notready", "new"}]
        /\ restarts' \in 0..case.restarts /\ faults' \in 0..case.faults
    BY <1>7, Bounds, Kinds, Zenon DEF TypeOK, ProcTypeOK, NodeTypeOK, Answer, procVars, nodeVars, probeVars
  <2>3. ready' \in [Service -> BOOLEAN] /\ failed' \in [Service -> BOOLEAN]
    BY <1>7, Zenon DEF TypeOK, ProcTypeOK, NodeTypeOK, Answer, procVars, nodeVars, probeVars
  <2>4. /\ ctx' \in BOOLEAN /\ bad' \in BOOLEAN /\ socket' \in BOOLEAN /\ capacity' \in BOOLEAN
        /\ kept' \in BOOLEAN /\ latch' \in BOOLEAN /\ started' \in BOOLEAN /\ stood' \in BOOLEAN
    BY <1>7, Zenon DEF TypeOK, ProcTypeOK, NodeTypeOK, Answer, procVars, nodeVars, probeVars
  <2> QED
    BY <2>1, <2>2, <2>3, <2>4, Zenon
<1>8. CASE \E i \in Service : Verify(i)
  <2> PICK i \in Service : Verify(i)
    BY <1>8, Zenon
  <2>1. /\ main' \in {"load", "wait", "1", "2"} \cup Ended /\ sig' \in 0..2
        /\ svc' \in [Service -> Wh] /\ handler' \in {"idle", "dialed", "stand", "wait"}
    BY DEF TypeOK, ProcTypeOK, NodeTypeOK, Verify, procVars, nodeVars, probeVars, Returned
  <2>2. /\ seen' \in 0..(Len(kinds) + 1) /\ sent' \in Seq({"READY", "STOPPING"})
        /\ pod' \in [Pods -> {"old", "notready", "new"}]
        /\ restarts' \in 0..case.restarts /\ faults' \in 0..case.faults
    BY Bounds, Kinds, Zenon DEF TypeOK, ProcTypeOK, NodeTypeOK, Verify, procVars, nodeVars, probeVars, Returned
  <2>3. ready' \in [Service -> BOOLEAN] /\ failed' \in [Service -> BOOLEAN]
    BY Kinds, Zenon DEF TypeOK, ProcTypeOK, NodeTypeOK, Verify, procVars, nodeVars, probeVars, Returned
  <2>4. /\ ctx' \in BOOLEAN /\ bad' \in BOOLEAN /\ socket' \in BOOLEAN /\ capacity' \in BOOLEAN
        /\ kept' \in BOOLEAN /\ latch' \in BOOLEAN /\ started' \in BOOLEAN /\ stood' \in BOOLEAN
    BY Zenon DEF TypeOK, ProcTypeOK, NodeTypeOK, Verify, procVars, nodeVars, probeVars, Returned
  <2> QED
    BY <2>1, <2>2, <2>3, <2>4, Zenon
<1>9. CASE \E i \in Service : Advertise(i)
  <2> PICK i \in Service : Advertise(i)
    BY <1>9, Zenon
  <2>1. /\ main' \in {"load", "wait", "1", "2"} \cup Ended /\ sig' \in 0..2
        /\ svc' \in [Service -> Wh] /\ handler' \in {"idle", "dialed", "stand", "wait"}
    BY Bounds, Kinds, Zenon DEF TypeOK, ProcTypeOK, NodeTypeOK, Ended, Advertise, procVars, nodeVars, probeVars, Fail, Fault
  <2>2. /\ seen' \in 0..(Len(kinds) + 1) /\ sent' \in Seq({"READY", "STOPPING"})
        /\ pod' \in [Pods -> {"old", "notready", "new"}]
        /\ restarts' \in 0..case.restarts /\ faults' \in 0..case.faults
    BY Bounds DEF TypeOK, ProcTypeOK, NodeTypeOK, Advertise, procVars, nodeVars, probeVars, Fail, Fault
  <2>3. ready' \in [Service -> BOOLEAN] /\ failed' \in [Service -> BOOLEAN]
    BY Kinds, Zenon DEF TypeOK, ProcTypeOK, NodeTypeOK, Advertise, procVars, nodeVars, probeVars, Fail, Fault
  <2>4. /\ ctx' \in BOOLEAN /\ bad' \in BOOLEAN /\ socket' \in BOOLEAN /\ capacity' \in BOOLEAN
        /\ kept' \in BOOLEAN /\ latch' \in BOOLEAN /\ started' \in BOOLEAN /\ stood' \in BOOLEAN
    BY Zenon DEF TypeOK, ProcTypeOK, NodeTypeOK, Advertise, procVars, nodeVars, probeVars, Fail, Fault
  <2> QED
    BY <2>1, <2>2, <2>3, <2>4, Zenon
<1>10. CASE \E i \in Service : Listen(i)
  <2> PICK i \in Service : Listen(i)
    BY <1>10, Zenon
  <2>1. /\ main' \in {"load", "wait", "1", "2"} \cup Ended /\ sig' \in 0..2
        /\ svc' \in [Service -> Wh] /\ handler' \in {"idle", "dialed", "stand", "wait"}
    BY Bounds, Kinds, Zenon DEF TypeOK, ProcTypeOK, NodeTypeOK, Ended, Listen, procVars, nodeVars, probeVars, Fail, Fault
  <2>2. /\ seen' \in 0..(Len(kinds) + 1) /\ sent' \in Seq({"READY", "STOPPING"})
        /\ pod' \in [Pods -> {"old", "notready", "new"}]
        /\ restarts' \in 0..case.restarts /\ faults' \in 0..case.faults
    BY Bounds DEF TypeOK, ProcTypeOK, NodeTypeOK, Listen, procVars, nodeVars, probeVars, Fail, Fault
  <2>3. ready' \in [Service -> BOOLEAN] /\ failed' \in [Service -> BOOLEAN]
    BY Kinds, Zenon DEF TypeOK, ProcTypeOK, NodeTypeOK, Listen, procVars, nodeVars, probeVars, Fail, Fault
  <2>4. /\ ctx' \in BOOLEAN /\ bad' \in BOOLEAN /\ socket' \in BOOLEAN /\ capacity' \in BOOLEAN
        /\ kept' \in BOOLEAN /\ latch' \in BOOLEAN /\ started' \in BOOLEAN /\ stood' \in BOOLEAN
    BY Zenon DEF TypeOK, ProcTypeOK, NodeTypeOK, Listen, procVars, nodeVars, probeVars, Fail, Fault
  <2> QED
    BY <2>1, <2>2, <2>3, <2>4, Zenon
<1>11. CASE \E i \in Service : Stop(i)
  <2> PICK i \in Service : Stop(i)
    BY <1>11, Zenon
  <2>1. /\ main' \in {"load", "wait", "1", "2"} \cup Ended /\ sig' \in 0..2
        /\ svc' \in [Service -> Wh] /\ handler' \in {"idle", "dialed", "stand", "wait"}
    BY DEF TypeOK, ProcTypeOK, NodeTypeOK, Stop, procVars, nodeVars, probeVars, Remove, Returned, Fail, Fault
  <2>2. /\ seen' \in 0..(Len(kinds) + 1) /\ sent' \in Seq({"READY", "STOPPING"})
        /\ pod' \in [Pods -> {"old", "notready", "new"}]
        /\ restarts' \in 0..case.restarts /\ faults' \in 0..case.faults
    BY Bounds DEF TypeOK, ProcTypeOK, NodeTypeOK, Stop, procVars, nodeVars, probeVars, Remove, Returned, Fail, Fault
  <2>3. ready' \in [Service -> BOOLEAN] /\ failed' \in [Service -> BOOLEAN]
    BY Kinds, Zenon DEF TypeOK, ProcTypeOK, NodeTypeOK, Stop, procVars, nodeVars, probeVars, Remove, Returned, Fail, Fault
  <2>4. /\ ctx' \in BOOLEAN /\ bad' \in BOOLEAN /\ socket' \in BOOLEAN /\ capacity' \in BOOLEAN
        /\ kept' \in BOOLEAN /\ latch' \in BOOLEAN /\ started' \in BOOLEAN /\ stood' \in BOOLEAN
    BY Zenon DEF TypeOK, ProcTypeOK, NodeTypeOK, Stop, procVars, nodeVars, probeVars, Remove, Returned, Fail, Fault
  <2> QED
    BY <2>1, <2>2, <2>3, <2>4, Zenon
<1>12. CASE \E i \in Service : ServeError(i)
  <2> PICK i \in Service : ServeError(i)
    BY <1>12, Zenon
  <2>1. /\ main' \in {"load", "wait", "1", "2"} \cup Ended /\ sig' \in 0..2
        /\ svc' \in [Service -> Wh] /\ handler' \in {"idle", "dialed", "stand", "wait"}
    BY Bounds, Kinds, Zenon DEF TypeOK, ProcTypeOK, NodeTypeOK, Ended, ServeError, procVars, nodeVars, probeVars, Fail, Fault
  <2>2. /\ seen' \in 0..(Len(kinds) + 1) /\ sent' \in Seq({"READY", "STOPPING"})
        /\ pod' \in [Pods -> {"old", "notready", "new"}]
        /\ restarts' \in 0..case.restarts /\ faults' \in 0..case.faults
    BY Bounds DEF TypeOK, ProcTypeOK, NodeTypeOK, ServeError, procVars, nodeVars, probeVars, Fail, Fault
  <2>3. ready' \in [Service -> BOOLEAN] /\ failed' \in [Service -> BOOLEAN]
    BY Kinds, Zenon DEF TypeOK, ProcTypeOK, NodeTypeOK, ServeError, procVars, nodeVars, probeVars, Fail, Fault
  <2>4. /\ ctx' \in BOOLEAN /\ bad' \in BOOLEAN /\ socket' \in BOOLEAN /\ capacity' \in BOOLEAN
        /\ kept' \in BOOLEAN /\ latch' \in BOOLEAN /\ started' \in BOOLEAN /\ stood' \in BOOLEAN
    BY Zenon DEF TypeOK, ProcTypeOK, NodeTypeOK, ServeError, procVars, nodeVars, probeVars, Fail, Fault
  <2> QED
    BY <2>1, <2>2, <2>3, <2>4, Zenon
<1>13. CASE PodChanges
  <2>1. /\ main' \in {"load", "wait", "1", "2"} \cup Ended /\ sig' \in 0..2
        /\ svc' \in [Service -> Wh] /\ handler' \in {"idle", "dialed", "stand", "wait"}
    BY <1>13, Bounds, Kinds DEF TypeOK, ProcTypeOK, NodeTypeOK, Ended, PodChanges, procVars, nodeVars, probeVars
  <2>2. /\ seen' \in 0..(Len(kinds) + 1) /\ sent' \in Seq({"READY", "STOPPING"})
        /\ pod' \in [Pods -> {"old", "notready", "new"}]
        /\ restarts' \in 0..case.restarts /\ faults' \in 0..case.faults
    BY <1>13, Bounds, Kinds DEF TypeOK, ProcTypeOK, NodeTypeOK, PodChanges, procVars, nodeVars, probeVars
  <2>3. ready' \in [Service -> BOOLEAN] /\ failed' \in [Service -> BOOLEAN]
    BY <1>13, Zenon DEF TypeOK, ProcTypeOK, NodeTypeOK, PodChanges, procVars, nodeVars, probeVars
  <2>4. /\ ctx' \in BOOLEAN /\ bad' \in BOOLEAN /\ socket' \in BOOLEAN /\ capacity' \in BOOLEAN
        /\ kept' \in BOOLEAN /\ latch' \in BOOLEAN /\ started' \in BOOLEAN /\ stood' \in BOOLEAN
    BY <1>13, Zenon DEF TypeOK, ProcTypeOK, NodeTypeOK, PodChanges, procVars, nodeVars, probeVars
  <2> QED
    BY <2>1, <2>2, <2>3, <2>4, Zenon
<1>14. CASE Restart
  <2>1. /\ main' \in {"load", "wait", "1", "2"} \cup Ended /\ sig' \in 0..2
        /\ svc' \in [Service -> Wh] /\ handler' \in {"idle", "dialed", "stand", "wait"}
    BY <1>14, Bounds, Kinds DEF TypeOK, ProcTypeOK, NodeTypeOK, Ended, Restart, procVars, nodeVars, probeVars, First, FirstStep
  <2>2. /\ seen' \in 0..(Len(kinds) + 1) /\ sent' \in Seq({"READY", "STOPPING"})
        /\ pod' \in [Pods -> {"old", "notready", "new"}]
        /\ restarts' \in 0..case.restarts /\ faults' \in 0..case.faults
    BY <1>14, Bounds, Kinds DEF TypeOK, ProcTypeOK, NodeTypeOK, Restart, procVars, nodeVars, probeVars, First, FirstStep
  <2>3. ready' \in [Service -> BOOLEAN] /\ failed' \in [Service -> BOOLEAN]
    BY <1>14, Zenon DEF TypeOK, ProcTypeOK, NodeTypeOK, Restart, procVars, nodeVars, probeVars, First, FirstStep
  <2>4. /\ ctx' \in BOOLEAN /\ bad' \in BOOLEAN /\ socket' \in BOOLEAN /\ capacity' \in BOOLEAN
        /\ kept' \in BOOLEAN /\ latch' \in BOOLEAN /\ started' \in BOOLEAN /\ stood' \in BOOLEAN
    BY <1>14, Zenon DEF TypeOK, ProcTypeOK, NodeTypeOK, Restart, procVars, nodeVars, probeVars, First, FirstStep
  <2> QED
    BY <2>1, <2>2, <2>3, <2>4, Zenon
<1>15. CASE UNCHANGED vars
  <2>1. /\ main' \in {"load", "wait", "1", "2"} \cup Ended /\ sig' \in 0..2
        /\ svc' \in [Service -> Wh] /\ handler' \in {"idle", "dialed", "stand", "wait"}
    BY <1>15, Bounds, Kinds DEF TypeOK, ProcTypeOK, NodeTypeOK, Ended, vars, procVars, nodeVars, probeVars
  <2>2. /\ seen' \in 0..(Len(kinds) + 1) /\ sent' \in Seq({"READY", "STOPPING"})
        /\ pod' \in [Pods -> {"old", "notready", "new"}]
        /\ restarts' \in 0..case.restarts /\ faults' \in 0..case.faults
    BY <1>15, Bounds, Kinds DEF TypeOK, ProcTypeOK, NodeTypeOK, vars, procVars, nodeVars, probeVars
  <2>3. ready' \in [Service -> BOOLEAN] /\ failed' \in [Service -> BOOLEAN]
    BY <1>15, Zenon DEF TypeOK, ProcTypeOK, NodeTypeOK, vars, procVars, nodeVars, probeVars
  <2>4. /\ ctx' \in BOOLEAN /\ bad' \in BOOLEAN /\ socket' \in BOOLEAN /\ capacity' \in BOOLEAN
        /\ kept' \in BOOLEAN /\ latch' \in BOOLEAN /\ started' \in BOOLEAN /\ stood' \in BOOLEAN
    BY <1>15, Zenon DEF TypeOK, ProcTypeOK, NodeTypeOK, vars, procVars, nodeVars, probeVars
  <2> QED
    BY <2>1, <2>2, <2>3, <2>4, Zenon
<1> QED
  BY <1>1, <1>2, <1>3, <1>4, <1>5, <1>6, <1>7, <1>8, <1>9, <1>10, <1>11, <1>12, <1>13, <1>14, <1>15, Zenon DEF Next, Step

\* A node has one server.
LEMMA OneServer ==
  ASSUME TypeOK
  PROVE /\ \A i, j \in Service : kinds[i] = "server" => j = i
        /\ \A i \in Service : kinds[i] = "server" <=> kinds # PodVM
BY Kinds, Zenon

\* The server's capacity and the services' errors are kept by every step.
LEMMA ServiceStep ==
  ASSUME TypeOK, ServiceInv, [Next]_vars
  PROVE ServiceInv'
<1>k. case' = case /\ kinds' = kinds /\ Service' = Service
  BY CaseStays, Zenon
<1>1. CASE Signal \/ Collect \/ Notify \/ Crash \/ Dial \/ List \/ Answer \/ PodChanges \/ UNCHANGED vars
  <2>1. UNCHANGED <<svc, failed, capacity, kept, bad>>
    BY <1>1, Zenon DEF Signal, Collect, Notify, Crash, Dial, List, Answer, PodChanges, vars,
           procVars, nodeVars, probeVars
  <2> QED
    BY <1>k, <2>1 DEF ServiceInv
<1>2. CASE \E i \in Service : Verify(i)
  <2> PICK i \in Service : Verify(i)
    BY <1>2, Zenon
  <2> QED
    BY <1>k, OneServer DEF TypeOK, ProcTypeOK, NodeTypeOK, ServiceInv, Verify, Returned, nodeVars
<1>3. CASE \E i \in Service : Advertise(i)
  <2> PICK i \in Service : Advertise(i)
    BY <1>3, Zenon
  <2> QED
    BY <1>k, OneServer DEF TypeOK, ProcTypeOK, NodeTypeOK, ServiceInv, Advertise, Fail, nodeVars
<1>4. CASE \E i \in Service : Listen(i)
  <2> PICK i \in Service : Listen(i)
    BY <1>4, Zenon
  <2> QED
    BY <1>k, OneServer DEF TypeOK, ProcTypeOK, NodeTypeOK, ServiceInv, Listen, Fail, nodeVars
<1>5. CASE \E i \in Service : Stop(i)
  <2> PICK i \in Service : Stop(i)
    BY <1>5, Zenon
  <2> QED
    BY <1>k, OneServer DEF TypeOK, ProcTypeOK, NodeTypeOK, ServiceInv, Stop, Remove, Returned, Fail, nodeVars
<1>6. CASE \E i \in Service : ServeError(i)
  <2> PICK i \in Service : ServeError(i)
    BY <1>6, Zenon
  <2> QED
    BY <1>k, OneServer DEF TypeOK, ProcTypeOK, NodeTypeOK, ServiceInv, ServeError, Fail, nodeVars
<1>7. CASE Restart
  BY <1>7, <1>k, Zenon DEF ServiceInv, Restart, FirstStep, nodeVars
<1> QED
  BY <1>1, <1>2, <1>3, <1>4, <1>5, <1>6, <1>7 DEF Next, Step
\* A service that has returned stays so, and the Starter receives in the order of the services.
LEMMA ExitStep ==
  ASSUME TypeOK, ExitInv, [Next]_vars
  PROVE ExitInv'
<1>k. case' = case /\ kinds' = kinds /\ Service' = Service
  BY CaseStays, Zenon
<1>1. CASE Signal \/ Crash
  <2>1. main' \in {main, "killed"} /\ UNCHANGED svc
    BY <1>1, Zenon DEF Signal, Crash
  <2>2. \A i \in Service : Turn[i] # "killed"
    BY Kinds DEF Turn
  <2> QED
    BY <1>k, <2>1, <2>2 DEF ExitInv
<1>2. CASE Notify \/ Dial \/ List \/ Answer \/ PodChanges \/ UNCHANGED vars
  <2>1. UNCHANGED <<main, svc>>
    BY <1>2, Zenon DEF Notify, Dial, List, Answer, PodChanges, vars, procVars
  <2> QED
    BY <1>k, <2>1 DEF ExitInv
<1>3. CASE Collect
  <2>1. svc' = svc
    BY <1>3, Zenon DEF Collect
  <2>2. CASE main = "wait" /\ main' = "1"
    <3>1. \A i, j \in Service : j < i => Turn[i] # "1"
      BY Kinds DEF Turn
    <3> QED
      BY <1>k, <2>1, <2>2, <3>1 DEF ExitInv
  <2>3. CASE main' = "exit1"
    <3>1. \A i \in Service : Turn[i] # "exit1"
      BY Kinds DEF Turn
    <3> QED
      BY <1>k, <2>1, <2>3, <3>1, Zenon DEF ExitInv
  <2>4. ASSUME NEW i \in Service, main = Turn[i], svc[i] = "ended", i = Len(kinds), main' = "exit0"
        PROVE ExitInv'
    <3>1. \A j \in Service : j = i \/ j < i
      BY <2>4, Kinds
    <3>2. \A j \in Service : Turn[j] # "exit0"
      BY Kinds DEF Turn
    <3> QED
      BY <1>k, <2>1, <2>4, <3>1, <3>2 DEF ExitInv
  <2>5. ASSUME NEW i \in Service, main = Turn[i], svc[i] = "ended", i # Len(kinds), main' = Turn[i + 1]
        PROVE ExitInv'
    <3>1. i = 1
      BY <2>5, Kinds, Zenon
    <3>2. \A j \in Service : j = 1 \/ j = 2
      BY Kinds, Zenon
    <3>3. main' = "2"
      BY <2>5, <3>1 DEF Turn
    <3>4. \A j, m \in Service : j < m => svc'[j] = "ended"
      BY <2>1, <2>5, <3>1, <3>2
    <3> QED
      BY <1>k, <3>3, <3>4 DEF ExitInv
  <2> QED
    BY <1>3, <2>2, <2>3, <2>4, <2>5 DEF Collect
<1>4. CASE \E i \in Service : Verify(i)
  <2> PICK i \in Service : Verify(i)
    BY <1>4, Zenon
  <2>1. main' = main /\ \A j \in Service : svc[j] = "ended" => svc'[j] = "ended"
    BY Zenon DEF TypeOK, ProcTypeOK, NodeTypeOK, Verify, Returned
  <2> QED
    BY <1>k, <2>1 DEF ExitInv
<1>5. CASE \E i \in Service : Advertise(i)
  <2> PICK i \in Service : Advertise(i)
    BY <1>5, Zenon
  <2>1. main' = main /\ \A j \in Service : svc[j] = "ended" => svc'[j] = "ended"
    BY DEF TypeOK, ProcTypeOK, NodeTypeOK, Advertise, Fail
  <2> QED
    BY <1>k, <2>1 DEF ExitInv
<1>6. CASE \E i \in Service : Listen(i)
  <2> PICK i \in Service : Listen(i)
    BY <1>6, Zenon
  <2>1. main' = main /\ \A j \in Service : svc[j] = "ended" => svc'[j] = "ended"
    BY DEF TypeOK, ProcTypeOK, NodeTypeOK, Listen, Fail
  <2> QED
    BY <1>k, <2>1, Zenon DEF ExitInv
<1>7. CASE \E i \in Service : Stop(i)
  <2> PICK i \in Service : Stop(i)
    BY <1>7, Zenon
  <2>1. main' = main /\ \A j \in Service : svc[j] = "ended" => svc'[j] = "ended"
    BY Zenon DEF TypeOK, ProcTypeOK, NodeTypeOK, Stop, Returned, Fail
  <2> QED
    BY <1>k, <2>1, Zenon DEF ExitInv
<1>8. CASE \E i \in Service : ServeError(i)
  <2> PICK i \in Service : ServeError(i)
    BY <1>8, Zenon
  <2>1. main' = main /\ \A j \in Service : svc[j] = "ended" => svc'[j] = "ended"
    BY DEF TypeOK, ProcTypeOK, NodeTypeOK, ServeError, Fail
  <2> QED
    BY <1>k, <2>1, Zenon DEF ExitInv
<1>9. CASE Restart
  <2>1. \A i \in Service : Turn[i] \notin {"load", "wait"}
    BY Kinds DEF Turn
  <2> QED
    BY <1>9, <1>k, <2>1, Zenon DEF ExitInv, Restart, First
<1> QED
  BY <1>1, <1>2, <1>3, <1>4, <1>5, <1>6, <1>7, <1>8, <1>9 DEF Next, Step

\* The two messages of a process that has been ready and is stopped.
LEMMA ReadyStopping == Append(<<"READY">>, "STOPPING") = <<"READY", "STOPPING">>
<1> DEFINE s == Append(<<"READY">>, "STOPPING")
           t == <<"READY", "STOPPING">>
           S == {"READY", "STOPPING"}
<1>1. <<"READY">> \in Seq(S) /\ Len(<<"READY">>) = 1 /\ <<"READY">>[1] = "READY"
  OBVIOUS
<1>2. s \in Seq(S) /\ Len(s) = 2 /\ s[1] = "READY" /\ s[2] = "STOPPING"
  BY <1>1, AppendProperties
<1>3. t \in Seq(S) /\ Len(t) = 2 /\ t[1] = "READY" /\ t[2] = "STOPPING"
  OBVIOUS
<1> HIDE DEF s, t
<1>4. s = t
  BY <1>2, <1>3, SeqEqual
<1> QED
  BY <1>4, Zenon DEF s, t

\* The notifier waits for the services in their order and sends READY once, then STOPPING.
LEMMA NoticeStep ==
  ASSUME TypeOK, NoticeInv, [Next]_vars
  PROVE NoticeInv'
<1>k. case' = case /\ kinds' = kinds /\ Service' = Service
  BY CaseStays, Zenon
<1>1. CASE /\ UNCHANGED <<seen, sent>>
           /\ \A i \in Service : ready[i] => ready'[i]
  BY <1>k, <1>1, Zenon DEF NoticeInv
<1>2. CASE Signal \/ Collect \/ Crash \/ Dial \/ List \/ Answer \/ PodChanges \/ UNCHANGED vars
  <2>1. UNCHANGED <<seen, sent, ready>>
    BY <1>2, Zenon DEF Signal, Collect, Crash, Dial, List, Answer, PodChanges, vars, procVars
  <2> QED
    BY <1>1, <2>1, Zenon
<1>3. CASE \E i \in Service : Verify(i)
  <2> PICK i \in Service : Verify(i)
    BY <1>3, Zenon
  <2>1. UNCHANGED <<seen, sent>> /\ \A j \in Service : ready[j] => ready'[j]
    BY Zenon DEF TypeOK, ProcTypeOK, NodeTypeOK, Verify
  <2> QED
    BY <1>1, <2>1, Zenon
<1>4. CASE \E i \in Service : Advertise(i)
  <2> PICK i \in Service : Advertise(i)
    BY <1>4, Zenon
  <2>1. UNCHANGED <<seen, sent>> /\ \A j \in Service : ready[j] => ready'[j]
    BY DEF TypeOK, ProcTypeOK, NodeTypeOK, Advertise
  <2> QED
    BY <1>1, <2>1, Zenon
<1>5. CASE \E i \in Service : Listen(i)
  <2> PICK i \in Service : Listen(i)
    BY <1>5, Zenon
  <2>1. UNCHANGED <<seen, sent>> /\ \A j \in Service : ready[j] => ready'[j]
    BY DEF TypeOK, ProcTypeOK, NodeTypeOK, Listen
  <2> QED
    BY <1>1, <2>1, Zenon
<1>6. CASE \E i \in Service : Stop(i)
  <2> PICK i \in Service : Stop(i)
    BY <1>6, Zenon
  <2>1. UNCHANGED <<seen, sent>> /\ \A j \in Service : ready[j] => ready'[j]
    BY DEF TypeOK, ProcTypeOK, NodeTypeOK, Stop
  <2> QED
    BY <1>1, <2>1, Zenon
<1>7. CASE \E i \in Service : ServeError(i)
  <2> PICK i \in Service : ServeError(i)
    BY <1>7, Zenon
  <2>1. UNCHANGED <<seen, sent>> /\ \A j \in Service : ready[j] => ready'[j]
    BY DEF TypeOK, ProcTypeOK, NodeTypeOK, ServeError
  <2> QED
    BY <1>1, <2>1, Zenon
<1>8. CASE Notify
  <2>1. CASE seen < Len(kinds) /\ ready[seen + 1] /\ seen' = seen + 1 /\ seen + 1 # Len(kinds) /\ sent' = sent
    BY <1>8, <1>k, <2>1, Kinds DEF TypeOK, ProcTypeOK, NodeTypeOK, NoticeInv, Notify
  <2>2. CASE /\ seen < Len(kinds) /\ ready[seen + 1] /\ seen' = seen + 1 /\ seen + 1 = Len(kinds)
             /\ sent' = Append(sent, "READY")
    <3>1. sent' = <<"READY">>
      BY <2>2 DEF NoticeInv
    <3>2. \A i \in Service : ready'[i]
      BY <1>8, <2>2, Kinds DEF TypeOK, ProcTypeOK, NodeTypeOK, NoticeInv, Notify
    <3> QED
      BY <1>k, <2>2, <3>1, <3>2, Kinds DEF NoticeInv
  <2>3. CASE seen < Len(kinds) /\ seen' = Len(kinds) + 1 /\ sent' = sent
    BY <1>k, <2>3, Kinds DEF TypeOK, ProcTypeOK, NodeTypeOK, NoticeInv
  <2>4. CASE seen = Len(kinds) /\ seen' = Len(kinds) + 1 /\ sent' = Append(sent, "STOPPING")
    <3>1. sent = <<"READY">>
      BY <2>4 DEF NoticeInv
    <3>2. sent' = <<"READY", "STOPPING">>
      BY <2>4, <3>1, ReadyStopping
    <3>3. sent # << >>
      BY <3>1, Zenon
    <3>4. \A i \in Service : ready'[i]
      BY <1>8, <3>3 DEF NoticeInv, Notify
    <3>5. ~(seen' < Len(kinds)) /\ seen' # Len(kinds) /\ ~(seen' <= Len(kinds))
      BY <2>4, Kinds
    <3> QED
      BY <1>k, <3>2, <3>4, <3>5, Zenon DEF NoticeInv
  <2> QED
    BY <1>8, <2>1, <2>2, <2>3, <2>4 DEF Notify
<1>9. CASE Restart
  BY <1>9, <1>k, Kinds DEF NoticeInv, Restart
<1> QED
  BY <1>2, <1>3, <1>4, <1>5, <1>6, <1>7, <1>8, <1>9, Zenon DEF Next, Step
\* A success of the probe is that of a list made since this start.
LEMMA ProbeStep ==
  ASSUME TypeOK, ProbeInv, [Next]_vars
  PROVE ProbeInv'
<1>1. CASE UNCHANGED probeVars
  BY <1>1, Zenon DEF ProbeInv, AllStand, probeVars
<1>2. CASE Signal \/ Collect \/ Notify \/ Crash \/ UNCHANGED vars
  BY <1>1, <1>2, Zenon DEF Signal, Collect, Notify, Crash, vars
<1>3. CASE \E i \in Service : Verify(i) \/ Advertise(i) \/ Listen(i) \/ Stop(i) \/ ServeError(i)
  BY <1>1, <1>3, Zenon DEF Verify, Advertise, Listen, Stop, ServeError
<1>4. CASE Dial
  BY <1>4, Zenon DEF ProbeInv, AllStand, Dial
<1>5. CASE List
  BY <1>5, Zenon DEF ProbeInv, AllStand, List
<1>6. CASE Answer
  BY <1>6 DEF TypeOK, ProcTypeOK, NodeTypeOK, ProbeInv, AllStand, Answer
<1>7. CASE PodChanges
  BY <1>7, Zenon DEF TypeOK, ProcTypeOK, NodeTypeOK, ProbeInv, AllStand, PodChanges
<1>8. CASE Restart
  BY <1>8 DEF TypeOK, ProcTypeOK, NodeTypeOK, ProbeInv, AllStand, Restart
<1> QED
  BY <1>2, <1>3, <1>4, <1>5, <1>6, <1>7, <1>8 DEF Next, Step

\* The process is well formed when the node starts it first.
LEMMA DaemonStart ==
  ASSUME Init
  PROVE DaemonInv
<1>1. TypeOK
  <2>0. case \in Cases /\ kinds \in {Adaptor, PodVM} /\ case.restarts \in Nat /\ case.faults \in Nat
    BY DaemonAssumption DEF Init, kinds
  <2>1. Len(kinds) \in Nat
    BY <2>0 DEF Adaptor, PodVM
  <2>2. /\ main \in {"load", "wait", "1", "2"} \cup Ended /\ sig \in 0..2
        /\ svc \in [Service -> {"verify", "advertise", "listen", "serving", "sending", "ended"}]
        /\ seen \in 0..(Len(kinds) + 1) /\ sent \in Seq({"READY", "STOPPING"})
        /\ handler \in {"idle", "dialed", "stand", "wait"}
    BY <2>1 DEF Init, Fresh, First, FirstStep
  <2>3. /\ pod \in [Pods -> {"old", "notready", "new"}]
        /\ restarts \in 0..case.restarts /\ faults \in 0..case.faults
    BY <2>0 DEF Init
  <2>4. ready \in [Service -> BOOLEAN] /\ failed \in [Service -> BOOLEAN]
    BY Zenon DEF Init, Fresh
  <2>5. /\ ctx \in BOOLEAN /\ bad \in BOOLEAN /\ socket \in BOOLEAN /\ capacity \in BOOLEAN
        /\ kept \in BOOLEAN /\ latch \in BOOLEAN /\ started \in BOOLEAN /\ stood \in BOOLEAN
    BY Zenon DEF Init, Fresh
  <2> QED
    BY <2>0, <2>2, <2>3, <2>4, <2>5 DEF TypeOK, ProcTypeOK, NodeTypeOK
<1>2. ServiceInv
  BY <1>1, Kinds DEF ServiceInv, Init, Fresh, FirstStep
<1>3. ExitInv
  <2>1. \A i \in Service : Turn[i] \notin {"load", "wait"}
    BY <1>1, Kinds DEF Turn
  <2> QED
    BY <2>1 DEF ExitInv, Init, Fresh, First
<1>4. NoticeInv
  BY <1>1, Kinds DEF NoticeInv, Init, Fresh
<1>5. ProbeInv
  BY Zenon DEF ProbeInv, AllStand, Init, Fresh
<1> QED
  BY <1>1, <1>2, <1>3, <1>4, <1>5, Zenon DEF DaemonInv

\* Setup of the forwarder changes nothing but where the process is.
LEMMA LoadStep ==
  ASSUME DaemonInv, NEW readable, Load(readable)
  PROVE DaemonInv'
<1>1. UNCHANGED <<case, ctx, sig, svc, ready, failed, seen, sent, socket, nodeVars, probeVars, restarts, faults>>
  BY Zenon DEF Load
<1>2. main' = "wait"
  BY Zenon DEF Load
<1>k. kinds' = kinds /\ Service' = Service
  BY <1>1 DEF kinds, Service
<1>3. TypeOK' /\ ServiceInv' /\ NoticeInv' /\ ProbeInv'
  <2>1. TypeOK'
    <3>1. ProcTypeOK'
      BY <1>1, <1>k, <1>2, Zenon DEF DaemonInv, TypeOK, ProcTypeOK
    <3>2. NodeTypeOK'
      BY <1>1, Zenon DEF DaemonInv, TypeOK, NodeTypeOK, nodeVars, probeVars
    <3> QED
      BY <3>1, <3>2, Zenon DEF TypeOK
  <2>2. ServiceInv'
    BY <1>1, <1>k, Zenon DEF DaemonInv, ServiceInv, nodeVars
  <2>3. NoticeInv'
    BY <1>1, <1>k, Zenon DEF DaemonInv, NoticeInv
  <2>4. ProbeInv'
    BY <1>1, Zenon DEF DaemonInv, ProbeInv, AllStand, probeVars
  <2> QED
    BY <2>1, <2>2, <2>3, <2>4
<1>4. \A i \in Service : Turn[i] # "wait"
  BY Kinds DEF DaemonInv, Turn
<1>5. ExitInv'
  BY <1>1, <1>k, <1>2, <1>4, Zenon DEF ExitInv
<1> QED
  BY <1>3, <1>5, Zenon DEF DaemonInv

\* Every step of a process keeps its invariant.
LEMMA DaemonStep ==
  ASSUME DaemonInv, [Next]_vars
  PROVE DaemonInv'
BY TypeStep, ServiceStep, ExitStep, NoticeStep, ProbeStep, Zenon DEF DaemonInv
----------------------------------------------------------------------------
\* An entry of a cloud config.
File == [path : Paths, content : Contents]

\* CreateVM's cloud configs are lists of files of the directory.
LEMMA ConfigFiles ==
  ASSUME NEW c \in Configs
  PROVE c \in Seq(File)
<1>0. c \in CloudConfigs
  BY BootAssumption, Zenon
<1>1. PICK a \in AuthEntry, i \in InitdataEntry, t \in ScratchEntry : c = Entry("apf", "given") \o a \o i \o t
  BY <1>0 DEF CloudConfigs
<1>2. \A p \in Paths, d \in Contents : Entry(p, d) \in Seq(File)
  BY DEF Entry, File
<1>3. << >> \in Seq(File) /\ Entry("apf", "given") \in Seq(File)
  BY <1>2 DEF Paths, Contents
<1>4. a \in Seq(File)
  <2>1. Entry("auth", "given") \in Seq(File)
    BY <1>2 DEF Paths, Contents
  <2> QED
    BY <1>3, <2>1, Zenon DEF AuthEntry
<1>5. i \in Seq(File)
  <2>1. \A d \in {"full", "odd", "bad"} : Entry("initdata", d) \in Seq(File)
    BY <1>2, Zenon DEF Paths, Contents, Initdata
  <2> QED
    BY <1>3, <2>1, Zenon DEF InitdataEntry
<1>6. t \in Seq(File)
  <2>1. Entry("scratch", "given") \in Seq(File)
    BY <1>2, Zenon DEF Paths, Contents
  <2> QED
    BY <1>3, <2>1, Zenon DEF ScratchEntry
<1>7. Entry("apf", "given") \o a \in Seq(File)
  BY <1>3, <1>4, ConcatProperties
<1>8. (Entry("apf", "given") \o a) \o i \in Seq(File)
  BY <1>5, <1>7, ConcatProperties, Zenon
<1>9. ((Entry("apf", "given") \o a) \o i) \o t \in Seq(File)
  BY <1>6, <1>8, ConcatProperties
<1> QED
  BY <1>1, <1>9

\* A write, which may fail, leaves the other files as they are, and the file as it was, cut
\* short or with the content.
LEMMA WrittenEffect ==
  ASSUME fs \in [Paths -> Contents], NEW path \in Paths, NEW content \in Contents, NEW next,
         Written(path, content, next)
  PROVE /\ fs' \in [Paths -> Contents]
        /\ \A p \in Paths \ {path} : fs'[p] = fs[p]
        /\ fs'[path] \in {fs[path], content, Cut}
        /\ pc' # "failed" => fs'[path] = content /\ next
BY Zenon DEF Written, Contents

\* Every step of process-user-data keeps the types.
LEMMA UserTypeStep ==
  ASSUME UserTypeOK, UserNext
  PROVE UserTypeOK'
<1>0. config \in Seq(File) /\ Len(config) \in Nat
  BY ConfigFiles DEF UserTypeOK
<1>1. CASE newProvider
  BY <1>1, Zenon DEF UserTypeOK, newProvider
<1>2. CASE Attempt
  BY <1>2, BootAssumption DEF UserTypeOK, Attempt
<1>3. CASE TimeOut
  BY <1>3, BootAssumption DEF UserTypeOK, TimeOut
<1>4. CASE processCloudConfig
  <2>1. config[written + 1] \in File
    BY <1>0, <1>4 DEF UserTypeOK, processCloudConfig
  <2>2. config[written + 1].path \in Paths /\ config[written + 1].content \in Contents
    BY <2>1, Zenon DEF File
  <2>3. fs' \in [Paths -> Contents] /\ pc' \in {pc, "failed"}
    BY <1>4, <2>2, WrittenEffect DEF UserTypeOK, processCloudConfig, Written
  <2> QED
    BY <1>0, <1>4, <2>3 DEF UserTypeOK, processCloudConfig
<1>5. CASE processCloudConfigEnd
  BY <1>5, Zenon DEF UserTypeOK, processCloudConfigEnd
<1>6. CASE generateDummyInitdata
  <2>1. fs' \in [Paths -> Contents] /\ pc' \in {pc, "failed"}
    BY <1>6, WrittenEffect, Zenon DEF UserTypeOK, generateDummyInitdata, Written, Paths, Contents, Initdata
  <2> QED
    BY <1>6, <2>1 DEF UserTypeOK, generateDummyInitdata
<1>7. CASE Parse
  BY <1>7 DEF UserTypeOK, Parse, Data, Paths
<1>8. CASE extractInitdata
  <2>1. parsed \in Contents
    BY DEF UserTypeOK, Contents
  <2>2. fs' \in [Paths -> Contents] /\ pc' \in {pc, "failed"}
    BY <1>8, <2>1, WrittenEffect DEF UserTypeOK, extractInitdata, Written
  <2> QED
    BY <1>8, <2>2 DEF UserTypeOK, extractInitdata
<1>9. CASE writeDigest
  <2>1. parsed \in Contents
    BY Zenon DEF UserTypeOK, Contents
  <2>2. fs' \in [Paths -> Contents] /\ pc' \in {"done", "failed"}
    BY <1>9, <2>1, WrittenEffect, Zenon DEF UserTypeOK, writeDigest, Written, Paths
  <2> QED
    BY <1>9, <2>2 DEF UserTypeOK, writeDigest
<1>10. CASE Rerun
  BY <1>0, <1>10, BootAssumption DEF UserTypeOK, Rerun
<1> QED
  BY <1>1, <1>2, <1>3, <1>4, <1>5, <1>6, <1>7, <1>8, <1>9, <1>10 DEF UserNext
\* A complete digest stands at the end of a run in which every file was written; a run
\* that fails leaves none.
LEMMA ExtractStep ==
  ASSUME UserTypeOK, ExtractInv, FilesVouched, UserNext
  PROVE ExtractInv' /\ FilesVouched'
<1>0. fs \in [Paths -> Contents]
  BY Zenon DEF UserTypeOK
<1>1. CASE newProvider \/ Attempt \/ TimeOut \/ processCloudConfigEnd \/ Rerun
  <2>1. fs' = fs /\ pc # "done" /\ pc' # "files"
    BY <1>1, Zenon DEF newProvider, Attempt, TimeOut, processCloudConfigEnd, Rerun
  <2> QED
    BY <2>1 DEF ExtractInv, FilesVouched
<1>2. ASSUME pc \in {"write", "extract"}, pc' \in {pc, "failed"},
             NEW path \in writeFiles, NEW content \in Contents, NEW next, Written(path, content, next)
      PROVE ExtractInv' /\ FilesVouched'
  <2>1. path \in Paths /\ path \notin {"digest", "policy", "other"}
    BY <1>2 DEF writeFiles, Paths
  <2>2. fs'["digest"] = fs["digest"] /\ fs'["policy"] = fs["policy"] /\ fs'["other"] = fs["other"]
    BY <1>0, <1>2, <2>1, WrittenEffect DEF Paths
  <2>3. fs["digest"] \notin Initdata
    BY <1>2 DEF ExtractInv
  <2> QED
    BY <1>2, <2>2, <2>3 DEF ExtractInv, FilesVouched
<1>3. CASE processCloudConfig
  <2>1. config[written + 1] \in File
    BY <1>3, ConfigFiles DEF UserTypeOK, processCloudConfig
  <2>2. config[written + 1].content \in Contents
    BY <2>1 DEF File
  <2>3. CASE isAllowed(config[written + 1].path, writeFiles)
    <3>1. Written(config[written + 1].path, config[written + 1].content, UNCHANGED pc)
      BY <1>3, <2>3 DEF processCloudConfig
    <3>2. pc = "write" /\ pc' \in {pc, "failed"}
      BY <1>3, <3>1, Zenon DEF processCloudConfig, Written
    <3> QED
      BY <1>2, <2>2, <2>3, <3>1, <3>2 DEF isAllowed
  <2>4. CASE ~isAllowed(config[written + 1].path, writeFiles)
    BY <1>3, <2>4 DEF processCloudConfig, ExtractInv, FilesVouched
  <2> QED
    BY <2>3, <2>4
<1>4. CASE generateDummyInitdata
  <2>1. Written("initdata", "dummy", UNCHANGED pc) /\ pc = "extract"
    BY <1>4 DEF generateDummyInitdata
  <2>2. pc' \in {pc, "failed"}
    BY <2>1, Zenon DEF Written
  <2>3. "initdata" \in writeFiles /\ "dummy" \in Contents
    BY DEF writeFiles, Contents, Initdata
  <2> QED
    BY <1>2, <2>1, <2>2, <2>3
<1>5. CASE Parse
  BY <1>5, Zenon DEF Parse, ExtractInv, FilesVouched
<1>6. CASE extractInitdata
  <2> PICK p \in todo :
        /\ todo' = todo \ {p}
        /\ IF isAllowed(p, initdataFiles) THEN Written(p, parsed, UNCHANGED pc) ELSE UNCHANGED <<fs, pc>>
    BY <1>6, Zenon DEF extractInitdata
  <2>0. /\ pc = "files" /\ parsed' = parsed /\ parsed \in Initdata /\ parsed \in Contents
        /\ p \in Paths /\ fs["digest"] \notin Initdata
    BY <1>6 DEF extractInitdata, ExtractInv, UserTypeOK, Contents
  <2>1. CASE isAllowed(p, initdataFiles)
    <3>1. p \notin {"initdata", "digest", "other"}
      BY <2>1 DEF isAllowed, initdataFiles
    <3>2. /\ fs' \in [Paths -> Contents] /\ \A q \in Paths \ {p} : fs'[q] = fs[q]
          /\ fs'[p] \in {fs[p], parsed, Cut} /\ (pc' # "failed" => fs'[p] = parsed /\ UNCHANGED pc)
      BY <1>0, <2>0, <2>1, WrittenEffect, Zenon
    <3>3. fs'["digest"] = fs["digest"] /\ fs'["initdata"] = fs["initdata"] /\ fs'["other"] = fs["other"]
      BY <3>1, <3>2 DEF Paths
    <3>4. fs'["policy"] \in Initdata \cup {Absent, Cut}
      BY <2>0, <3>2 DEF FilesVouched, Paths
    <3>5. FilesVouched'
      BY <2>0, <3>3, <3>4 DEF FilesVouched
    <3>6. ASSUME pc' = "files", NEW q \in (Data(parsed) \cap initdataFiles) \ todo'
          PROVE fs'[q] = parsed
      BY <2>0, <3>2, <3>6 DEF ExtractInv, initdataFiles, Paths
    <3> QED
      BY <2>0, <3>3, <3>5, <3>6, Zenon DEF ExtractInv
  <2>2. CASE ~isAllowed(p, initdataFiles)
    BY <2>0, <2>2 DEF isAllowed, ExtractInv, FilesVouched
  <2> QED
    BY <2>1, <2>2
<1>7. CASE writeDigest
  <2>0. /\ pc = "files" /\ todo = {} /\ parsed \in Initdata /\ parsed \in Contents
        /\ Written("digest", parsed, pc' = "done") /\ fs["digest"] \notin Initdata
    BY <1>7 DEF writeDigest, ExtractInv, Contents
  <2>1. /\ \A q \in Paths \ {"digest"} : fs'[q] = fs[q]
        /\ fs'["digest"] \in {fs["digest"], parsed, Cut} /\ (pc' # "failed" => pc' = "done")
    BY <1>0, <2>0, WrittenEffect, Zenon DEF Paths
  <2>2. fs'["digest"] \in Initdata => fs'["digest"] = parsed /\ pc' = "done"
    BY <1>0, <2>0, <2>1 DEF Written, Initdata, Cut, Paths
  <2>3. fs'["initdata"] = parsed /\ \A q \in Data(parsed) \cap initdataFiles : fs'[q] = parsed
    BY <2>0, <2>1 DEF ExtractInv, initdataFiles, Paths
  <2>4. fs'["policy"] = fs["policy"] /\ fs'["other"] = fs["other"]
    BY <2>1 DEF Paths
  <2> QED
    BY <2>1, <2>2, <2>3, <2>4 DEF ExtractInv, FilesVouched
<1> QED
  BY <1>1, <1>3, <1>4, <1>5, <1>6, <1>7, Zenon DEF UserNext

----------------------------------------------------------------------------
\* The processes of the node and of the pod VM keep BootInv, whatever fails and is
\* started again in them.
THEOREM BootInvariant == BootSpec => []BootInv
<1>1. BootInit => BootInv
  <2> SUFFICES ASSUME BootInit PROVE BootInv
    OBVIOUS
  <2>1. DaemonInv
    BY DaemonStart DEF BootInit
  <2>2. UserTypeOK
    <3>1. config \in Seq(File)
      BY ConfigFiles, Zenon DEF BootInit, UserInit
    <3> QED
      BY <3>1, BootAssumption DEF BootInit, UserInit, UserTypeOK, Contents
  <2>3. ExtractInv /\ FilesVouched
    BY Zenon DEF BootInit, UserInit, ExtractInv, FilesVouched, Paths, Absent, Initdata
  <2> QED
    BY <2>1, <2>2, <2>3 DEF BootInv
<1>2. BootInv /\ [BootNext]_allVars => BootInv'
  <2> SUFFICES ASSUME BootInv, [BootNext]_allVars PROVE BootInv'
    OBVIOUS
  <2>0. DaemonInv /\ UserTypeOK /\ ExtractInv /\ FilesVouched
    BY Zenon DEF BootInv
  <2>1. UNCHANGED userVars => UserTypeOK' /\ ExtractInv' /\ FilesVouched'
    BY <2>0, Zenon DEF userVars, UserTypeOK, ExtractInv, FilesVouched
  <2>2. CASE ProcessUserData
    <3>1. DaemonInv'
      BY <2>0, <2>2, DaemonStep DEF ProcessUserData
    <3>2. UserTypeOK' /\ ExtractInv' /\ FilesVouched'
      BY <2>0, <2>2, UserTypeStep, ExtractStep DEF ProcessUserData
    <3> QED
      BY <3>1, <3>2 DEF BootInv
  <2>3. CASE Start
    <3>1. DaemonInv'
      BY <2>0, <2>3, LoadStep DEF Start
    <3> QED
      BY <2>1, <2>3, <3>1 DEF BootInv, Start
  <2>4. CASE Next /\ UNCHANGED userVars
    BY <2>0, <2>1, <2>4, DaemonStep DEF BootInv
  <2>5. CASE UNCHANGED allVars
    BY <2>0, <2>1, <2>5, DaemonStep, Zenon DEF BootInv, allVars
  <2> QED
    BY <2>2, <2>3, <2>4, <2>5 DEF BootNext
<1> QED
  BY <1>1, <1>2, PTL DEF BootSpec

\* Server.Start advertises the node's capacity before it serves and Shutdown removes it, for
\* any number of crashes, failed patches, signals and restarts.
THEOREM CapacityFollowsServer == BootSpec => []CapacityFollows
<1>1. BootInv => CapacityFollows
  <2> SUFFICES ASSUME BootInv PROVE CapacityFollows
    OBVIOUS
  <2>0. TypeOK /\ ServiceInv /\ ExitInv
    BY Zenon DEF BootInv, DaemonInv
  <2>1. \A i \in Service : Alive /\ kinds[i] = "server" /\ svc[i] = "serving" => capacity
    BY <2>0 DEF ServiceInv
  <2>2. main = "exit0" => ~capacity \/ kept
    <3>1. \/ kinds = PodVM
          \/ 1 \in Service /\ kinds[1] = "server"
      BY <2>0, Kinds
    <3> QED
      BY <2>0, <3>1, Zenon DEF ServiceInv, ExitInv
  <2> QED
    BY <2>1, <2>2, Zenon DEF CapacityFollows
<1> QED
  BY <1>1, BootInvariant, PTL

\* What the Starter, the notifier and the startup probe report of the services and the peer
\* pods is true, for every number of peer pods.
THEOREM ProcessReportsTruly == BootSpec => []ReportsAreTrue
<1>1. BootInv => ReportsAreTrue
  <2> SUFFICES ASSUME BootInv PROVE ReportsAreTrue
    OBVIOUS
  <2>0. TypeOK /\ ServiceInv /\ ExitInv /\ NoticeInv /\ ProbeInv
    BY DEF BootInv, DaemonInv
  <2>1. sent \in {<< >>, <<"READY">>, <<"READY", "STOPPING">>}
    <3>1. seen < Len(kinds) \/ seen = Len(kinds) \/ seen > Len(kinds)
      BY <2>0, Kinds DEF TypeOK, ProcTypeOK, NodeTypeOK
    <3> QED
      BY <2>0, <3>1, Zenon DEF NoticeInv
  <2>2. sent # << >> => \A i \in Service : ready[i]
    BY <2>0, Zenon DEF NoticeInv
  <2>3. main = "exit0" => \A i \in Service : ~failed[i] /\ svc[i] = "ended"
    BY <2>0, Zenon DEF ExitInv, ServiceInv
  <2>4. started => stood
    BY <2>0, Zenon DEF ProbeInv
  <2> QED
    BY <2>1, <2>2, <2>3, <2>4, Zenon DEF ReportsAreTrue
<1> QED
  BY <1>1, BootInvariant, PTL

\* A complete digest vouches for the files of the initdata, for every cloud config, number of
\* runs and place of a failed write.
THEOREM DigestVouchesForFiles == BootSpec => []DigestVouches
<1>1. BootInv => DigestVouches
  BY Zenon DEF BootInv, DaemonInv, DigestVouches, BootTypeOK
<1> QED
  BY <1>1, BootInvariant, PTL
=============================================================================
