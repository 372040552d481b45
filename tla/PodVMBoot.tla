------------------------------ MODULE PodVMBoot ------------------------------
(***************************************************************************)
(* The processes of the adaptor's node and of the pod VM: Daemon, and in a  *)
(* pod VM UserData, which writes the configuration that the forwarder loads. *)
(* The units are ordered (After=) and nothing more: the forwarder starts     *)
(* when the first run of process-user-data has ended, in whatever way, and a *)
(* further run goes on beside it.                                           *)
(***************************************************************************)
EXTENDS Daemon, UserData

ASSUME BootAssumption ==
  /\ Sources \subseteq AllSources /\ Configs \subseteq CloudConfigs
  /\ \A c \in Cases : c.sources \subseteq Sources /\ c.configs \subseteq Configs
  /\ MaxAttempts \in Nat \ {0} /\ Deadline \in Nat /\ MaxRuns \in Nat \ {0}

\* A process of the adaptor has no user data: the run has not begun.
BootInit ==
  /\ Init /\ UserInit
  /\ source \in case.sources /\ config \in case.configs

Ordered == run > 1 \/ pc \in {"done", "failed", "unfetched"}

ProcessUserData == kinds = PodVM /\ UserNext /\ UNCHANGED vars

Start == Ordered /\ Load(fs["apf"] = "given") /\ UNCHANGED userVars

BootNext ==
  \/ ProcessUserData
  \/ Start
  \/ Next /\ UNCHANGED userVars

allVars == <<vars, userVars>>

BootSpec == BootInit /\ [][BootNext]_allVars

\* Goroutines and processes run; no signal, failure or probe is promised.
BootFairSpec ==
  /\ BootSpec
  /\ WF_allVars(ProcessUserData) /\ WF_allVars(Start)
  /\ WF_allVars(Running /\ Collect /\ UNCHANGED userVars)
  /\ \A i \in {1, 2} : WF_allVars(Step(i) /\ UNCHANGED userVars)

----------------------------------------------------------------------------
\* Both processes keep their types, and no more attempts are made than allowed.
BootTypeOK == TypeOK /\ UserTypeOK

\* The digest on the disk vouches for the files there and nothing else is written
\* (see UserData), also while the forwarder runs.  The state is well formed.
DigestVouches == BootTypeOK /\ FilesVouched

\* After a successful process-user-data the forwarder starts at last, although no unit
\* requires it and earlier starts may have found apf.json missing or cut short.
ForwarderStarts ==
  (kinds = PodVM /\ pc = "done" /\ Recognised(source) = {TRUE}) ~> main # "load"
=============================================================================
