----------------------------- MODULE WorkerNode -----------------------------
(***************************************************************************)
(* The worker node's end of the pod network: Inspect, Setup and Teardown of *)
(* the VXLAN tunnels of several sandboxes, called by the cloud service from  *)
(* handlers that run concurrently, over the links, tc filters and iptables   *)
(* chains that the node's kernel keeps when the process restarts.            *)
(***************************************************************************)
EXTENDS Naturals, Sequences, FiniteSets, FiniteSetsExt

CONSTANTS Sandboxes,  \* each created once, with a network namespace of its own
          Addrs,      \* addresses that the cloud gives to pod VMs
          MaxNames,   \* names ppvxlan1, ppvxlan2, ... that Setup tries (5)
          Cases       \* what goes on at the node, see Case

None == "none"
Free == << >>
Names == 1..MaxNames
Chains == <<"OUTPUT", "PREROUTING">>
Rules == 1..Len(Chains)

\* The number of sandboxes that are created; whether StopVM may come while StartVM
\* is still in Setup; bounds on the netlink and iptables calls that fail and on the
\* restarts of the process.
Case == [pods : Nat, overlap : BOOLEAN, faults : Nat, crashes : Nat]

ASSUME WorkerNodeAssumption ==
  /\ MaxNames \in Nat \ {0} /\ Cases \subseteq Case
  /\ IsFiniteSet(Sandboxes) /\ None \notin Sandboxes \union Addrs

VARIABLES case,    \* what goes on at the node
          index,   \* podIndexManager
          id,      \* VXLANID of a sandbox's configuration, MinID left out
          addr,    \* address of its pod VM
          pc,      \* its Setup
          td,      \* its Teardown
          rule,    \* the rule that the iptables loop of each is at
          seen,    \* host link names that Setup knows to be taken
          mutex,   \* iptablesMutex: free, or the call that holds it
          host,    \* VXLAN link of a name in the host namespace, by its owner
          pod,     \* VXLAN link in a pod namespace: absent, "moved", or "vxlan1"
          filters, \* redirect filters of a pod namespace, by the device they are on
          chain,   \* the iptables chains of the node
          faults, crashes

procVars == <<case, index, id, addr, pc, td, rule, seen, mutex>>
kernelVars == <<host, pod, filters, chain>>
vars == <<procVars, kernelVars, faults, crashes>>

Absent == [exists |-> FALSE, jump |-> FALSE, rules |-> {}]

Init ==
  /\ case \in Cases
  /\ index = 0 /\ mutex = Free /\ faults = 0 /\ crashes = 0
  /\ id = [s \in Sandboxes |-> 0] /\ addr = [s \in Sandboxes |-> None]
  /\ pc = [s \in Sandboxes |-> "new"] /\ td = [s \in Sandboxes |-> "new"]
  /\ rule = [s \in Sandboxes |-> [up |-> 1, down |-> 1]]
  /\ seen = [s \in Sandboxes |-> {}]
  /\ host = [n \in Names |-> None] /\ pod = [s \in Sandboxes |-> None]
  /\ filters = [s \in Sandboxes |-> {}]
  /\ chain = [r \in Rules |-> Absent]

(***************************************************************************)
(* Inspect, for CreateVM                                                    *)
(***************************************************************************)
Ends == {"up", "failed", "toomany", "orphan"}
ToPc(s, at) == pc' = [pc EXCEPT ![s] = at]
ToTd(s, at) == td' = [td EXCEPT ![s] = at]

\* Faulty variant of Get: an index is given again as long as its tunnel is not up.
GetKeeps(s) ==
  /\ id' = [id EXCEPT ![s] = index]
  /\ index' = IF \E t \in Sandboxes : pc[t] = "up" THEN index + 1 ELSE index

Get(s) == id' = [id EXCEPT ![s] = index] /\ index' = index + 1

Inspect(s) ==
  /\ pc[s] = "new" /\ Cardinality({t \in Sandboxes : pc[t] # "new"}) < case.pods
  /\ Get(s) /\ ToPc(s, "inspected")
  /\ UNCHANGED <<case, addr, td, rule, seen, mutex, kernelVars, faults, crashes>>

(***************************************************************************)
(* iptablesSetup, under iptablesMutex                                       *)
(***************************************************************************)
Rule(s) == <<addr[s], id[s]>>

Lock(s, call) == mutex = Free /\ mutex' = <<s, call>>
Unlock(s, call) == mutex' = IF mutex = <<s, call>> THEN Free ELSE mutex

\* An address is free again once StopVM, or the controller for a sandbox that
\* the process forgot, has deleted its VM.
FreeAddr(a) == \A s \in Sandboxes : addr[s] = a => td[s] # "new" \/ pc[s] = "orphan"

StartSetup(s) ==
  /\ pc[s] = "inspected" /\ Lock(s, "up") /\ ToPc(s, "chain")
  /\ \E a \in Addrs : FreeAddr(a) /\ addr' = [addr EXCEPT ![s] = a]
  /\ UNCHANGED <<case, index, id, td, rule, seen, kernelVars, faults, crashes>>

NewChain(s) ==
  LET r == rule[s].up IN
  /\ pc[s] = "chain"
  /\ IF chain[r].exists
     THEN ToPc(s, "rule") /\ UNCHANGED chain
     ELSE ToPc(s, "jump") /\ chain' = [chain EXCEPT ![r].exists = TRUE]
  /\ UNCHANGED <<case, index, id, addr, td, rule, seen, mutex, host, pod, filters, faults, crashes>>

AddJump(s) ==
  /\ pc[s] = "jump" /\ ToPc(s, "rule")
  /\ chain' = [chain EXCEPT ![rule[s].up].jump = TRUE]
  /\ UNCHANGED <<case, index, id, addr, td, rule, seen, mutex, host, pod, filters, faults, crashes>>

AppendRule(s) ==
  LET r == rule[s].up IN
  /\ pc[s] = "rule"
  /\ chain' = [chain EXCEPT ![r].rules = @ \union {Rule(s)}]
  /\ IF r < Len(Chains)
     THEN rule' = [rule EXCEPT ![s].up = r + 1] /\ ToPc(s, "chain") /\ UNCHANGED mutex
     ELSE Unlock(s, "up") /\ ToPc(s, "list") /\ UNCHANGED rule
  /\ UNCHANGED <<case, index, id, addr, td, seen, host, pod, filters, faults, crashes>>

(***************************************************************************)
(* The VXLAN link: created on the host under a free name, moved and renamed *)
(***************************************************************************)
\* The kernel keeps a VNI with the namespace that a link was created in.
TakenIds == {id[host[n]] : n \in {m \in Names : host[m] # None}}
              \union {id[s] : s \in {t \in Sandboxes : pod[t] # None}}

LinkList(s) ==
  /\ pc[s] = "list" /\ ToPc(s, "add")
  /\ seen' = [seen EXCEPT ![s] = {n \in Names : host[n] # None}]
  /\ UNCHANGED <<case, index, id, addr, td, rule, mutex, kernelVars, faults, crashes>>

\* ErrExist says that the name or, after a restart, the VNI is in use.
LinkAdd(s) ==
  LET free == Names \ seen[s] IN
  /\ pc[s] = "add"
  /\ \/ /\ free = {} /\ ToPc(s, "toomany")
        /\ UNCHANGED <<seen, host>>
     \/ /\ free # {} /\ (host[Min(free)] # None \/ id[s] \in TakenIds)
        /\ seen' = [seen EXCEPT ![s] = @ \union {Min(free)}]
        /\ UNCHANGED <<pc, host>>
     \/ /\ free # {} /\ host[Min(free)] = None /\ id[s] \notin TakenIds
        /\ host' = [host EXCEPT ![Min(free)] = s] /\ ToPc(s, "move")
        /\ UNCHANGED seen
  /\ UNCHANGED <<case, index, id, addr, td, rule, mutex, pod, filters, chain, faults, crashes>>

SetNamespace(s) ==
  /\ pc[s] = "move" /\ ToPc(s, "name")
  /\ host' = [n \in Names |-> IF host[n] = s THEN None ELSE host[n]]
  /\ pod' = [pod EXCEPT ![s] = "moved"]
  /\ UNCHANGED <<case, index, id, addr, td, rule, seen, mutex, filters, chain, faults, crashes>>

\* SetName and SetUp.
SetName(s) ==
  /\ pc[s] = "name" /\ ToPc(s, "redirect") /\ pod' = [pod EXCEPT ![s] = "vxlan1"]
  /\ UNCHANGED <<case, index, id, addr, td, rule, seen, mutex, host, filters, chain, faults, crashes>>

\* RedirectAdd, from the pod's interface and then from vxlan1: both links must exist.
RedirectAdd(s, next) ==
  /\ IF pod[s] = "vxlan1"
     THEN /\ filters' = [filters EXCEPT ![s] = @ \union
                           {IF next = "up" THEN "vxlan1" ELSE "eth0"}]
          /\ ToPc(s, next)
     ELSE UNCHANGED filters /\ ToPc(s, "failed")
  /\ UNCHANGED <<case, index, id, addr, td, rule, seen, mutex, host, pod, chain, faults, crashes>>

RedirectPod(s) == pc[s] = "redirect" /\ RedirectAdd(s, "back")
RedirectBack(s) == pc[s] = "back" /\ RedirectAdd(s, "up")

(***************************************************************************)
(* Teardown, for StopVM                                                     *)
(***************************************************************************)
\* RedirectDel of the pod's interface.
StartTeardown(s) ==
  /\ td[s] = "new" /\ pc[s] \notin {"new", "orphan"} /\ (case.overlap \/ pc[s] \in Ends)
  /\ filters' = [filters EXCEPT ![s] = @ \ {"eth0"}] /\ ToTd(s, "filters")
  /\ UNCHANGED <<case, index, id, addr, pc, rule, seen, mutex, host, pod, chain, faults, crashes>>

\* RedirectDel of vxlan1, which fails without the link.
RedirectDel(s) ==
  /\ td[s] = "filters"
  /\ IF pod[s] = "vxlan1"
     THEN filters' = [filters EXCEPT ![s] = @ \ {"vxlan1"}] /\ ToTd(s, "link")
     ELSE ToTd(s, "failed") /\ UNCHANGED filters
  /\ UNCHANGED <<case, index, id, addr, pc, rule, seen, mutex, host, pod, chain, faults, crashes>>

\* LinkFind, GetDevice and Delete; the link tells the address and the VNI of the rules.
LinkDelete(s) ==
  /\ td[s] = "link" /\ ToTd(s, "lock") /\ pod' = [pod EXCEPT ![s] = None]
  /\ filters' = [filters EXCEPT ![s] = @ \ {"vxlan1"}]
  /\ UNCHANGED <<case, index, id, addr, pc, rule, seen, mutex, host, chain, faults, crashes>>

StartIptables(s) ==
  /\ td[s] = "lock" /\ Lock(s, "down") /\ ToTd(s, "delete")
  /\ UNCHANGED <<case, index, id, addr, pc, rule, seen, kernelVars, faults, crashes>>

DeleteRule(s) ==
  LET r == rule[s].down IN
  /\ td[s] = "delete"
  /\ IF Rule(s) \in chain[r].rules
     THEN /\ chain' = [chain EXCEPT ![r].rules = @ \ {Rule(s)}]
          /\ ToTd(s, "list") /\ UNCHANGED mutex
     ELSE ToTd(s, "failed") /\ Unlock(s, "down") /\ UNCHANGED chain
  /\ UNCHANGED <<case, index, id, addr, pc, rule, seen, host, pod, filters, faults, crashes>>

NextRule(s) ==
  IF rule[s].down < Len(Chains)
  THEN rule' = [rule EXCEPT ![s].down = @ + 1] /\ ToTd(s, "delete") /\ UNCHANGED mutex
  ELSE Unlock(s, "down") /\ ToTd(s, "done") /\ UNCHANGED rule

\* Faulty variant of Remaining: the line for the chain itself is not counted.
RemainingTwo(r) == Cardinality(chain[r].rules) > 1

\* len(list) > 1: rules other than "-N <chain>".
Remaining(r) == chain[r].rules # {}

\* Faulty variant of ListRules: the loop ends at a chain still in use.
ListRulesEnds(s) ==
  /\ td[s] = "list"
  /\ IF Remaining(rule[s].down)
     THEN Unlock(s, "down") /\ ToTd(s, "done") /\ UNCHANGED rule
     ELSE ToTd(s, "unjump") /\ UNCHANGED <<rule, mutex>>
  /\ UNCHANGED <<case, index, id, addr, pc, seen, kernelVars, faults, crashes>>

ListRules(s) ==
  /\ td[s] = "list"
  /\ IF Remaining(rule[s].down)
     THEN NextRule(s)
     ELSE ToTd(s, "unjump") /\ UNCHANGED <<rule, mutex>>
  /\ UNCHANGED <<case, index, id, addr, pc, seen, kernelVars, faults, crashes>>

DeleteJump(s) ==
  /\ td[s] = "unjump" /\ ToTd(s, "unchain")
  /\ chain' = [chain EXCEPT ![rule[s].down].jump = FALSE]
  /\ UNCHANGED <<case, index, id, addr, pc, rule, seen, mutex, host, pod, filters, faults, crashes>>

\* A chain with rules, or with a jump to it, is not deleted.
DeleteChain(s) ==
  LET r == rule[s].down IN
  /\ td[s] = "unchain"
  /\ IF chain[r].rules = {} /\ ~chain[r].jump
     THEN chain' = [chain EXCEPT ![r].exists = FALSE] /\ NextRule(s)
     ELSE UNCHANGED <<chain, rule>> /\ Unlock(s, "down") /\ ToTd(s, "failed")
  /\ UNCHANGED <<case, index, id, addr, pc, seen, host, pod, filters, faults, crashes>>

(***************************************************************************)
(* Faults                                                                   *)
(***************************************************************************)
\* A call of Setup or Teardown fails before it changes anything: the error
\* returns to StartVM or StopVM, which undo nothing.
CallFails(s) ==
  /\ faults < case.faults /\ faults' = faults + 1
  /\ \/ pc[s] \notin Ends \union {"new"} /\ ToPc(s, "failed") /\ Unlock(s, "up")
        /\ UNCHANGED td
     \/ td[s] \notin {"new", "done", "failed", "lock"} /\ ToTd(s, "failed") /\ Unlock(s, "down")
        /\ UNCHANGED pc
  /\ UNCHANGED <<case, index, id, addr, rule, seen, kernelVars, crashes>>

\* The process restarts: it knows no sandbox and counts from 0 again.
Crash ==
  /\ crashes < case.crashes /\ crashes' = crashes + 1
  /\ index' = 0 /\ mutex' = Free
  /\ pc' = [s \in Sandboxes |-> IF pc[s] = "new" THEN "new" ELSE "orphan"]
  /\ td' = [s \in Sandboxes |-> IF td[s] \in {"new", "done"} THEN td[s] ELSE "failed"]
  /\ UNCHANGED <<case, id, addr, rule, seen, kernelVars, faults>>

\* The runtime deletes the namespace of a sandbox that is stopped or forgotten.
DeleteNamespace(s) ==
  /\ pod[s] # None /\ (pc[s] = "orphan" \/ (td[s] = "failed" /\ pc[s] \in Ends))
  /\ pod' = [pod EXCEPT ![s] = None] /\ filters' = [filters EXCEPT ![s] = {}]
  /\ UNCHANGED <<procVars, host, chain, faults, crashes>>

Next ==
  \/ \E s \in Sandboxes :
       \/ Inspect(s) \/ StartSetup(s) \/ NewChain(s) \/ AddJump(s) \/ AppendRule(s)
       \/ LinkList(s) \/ LinkAdd(s) \/ SetNamespace(s) \/ SetName(s)
       \/ RedirectPod(s) \/ RedirectBack(s)
       \/ StartTeardown(s) \/ RedirectDel(s) \/ LinkDelete(s) \/ StartIptables(s)
       \/ DeleteRule(s) \/ ListRules(s) \/ DeleteJump(s) \/ DeleteChain(s)
       \/ CallFails(s) \/ DeleteNamespace(s)
  \/ Crash

Spec == Init /\ [][Next]_vars

(***************************************************************************)
(* Properties                                                               *)
(***************************************************************************)
\* The steps of Setup under the mutex, and after it; the steps of Teardown under it.
Up == {"chain", "jump", "rule"}
Past == {"list", "add", "move", "name", "redirect", "back", "up"}
Down == {"delete", "list", "unjump", "unchain"}

CallTypeOK ==
  /\ case \in Cases /\ faults \in 0..case.faults /\ crashes \in 0..case.crashes
  /\ index \in 0..Cardinality(Sandboxes) /\ id \in [Sandboxes -> 0..Cardinality(Sandboxes)]
  /\ addr \in [Sandboxes -> Addrs \union {None}]
  /\ pc \in [Sandboxes -> {"new", "inspected"} \union Up \union Past \union Ends]
  /\ td \in [Sandboxes -> {"new", "filters", "link", "lock", "done", "failed"} \union Down]
  /\ rule \in [Sandboxes -> [up : Rules, down : Rules]]
  /\ seen \in [Sandboxes -> SUBSET Names]
  /\ mutex \in {Free} \union (Sandboxes \X {"up", "down"})

ChainType == [exists : BOOLEAN, jump : BOOLEAN, rules : SUBSET (Addrs \X (0..Cardinality(Sandboxes)))]
KernelTypeOK ==
  /\ host \in [Names -> Sandboxes \union {None}]
  /\ pod \in [Sandboxes -> {None, "moved", "vxlan1"}]
  /\ filters \in [Sandboxes -> SUBSET {"eth0", "vxlan1"}]
  /\ chain \in [Rules -> ChainType]

\* The state of the calls and of the kernel is well formed.
TypeOK == CallTypeOK /\ KernelTypeOK

\* StopVM follows StartVM, and no call has failed and no process restarted.
Quiet == ~case.overlap /\ faults + crashes = 0

Live(s) == pc[s] = "up" /\ td[s] = "new"

\* A tunnel that Setup reported as up, and that StopVM has not touched, has its
\* NOTRACK rule in both chains, whatever the Setups and Teardowns of the other
\* sandboxes do, fail at or leave behind, before and after restarts; and packets
\* reach those rules when nothing failed: both chains are still jumped to when
\* iptablesSetup found them made by, or iptablesTeardown shares them with, another
\* sandbox.  (A failed or interrupted iptablesSetup may leave a chain without its
\* jump for good: iptablesSetup adds the jump only to a chain it makes.)  The state
\* is well formed (TypeOK), and a chain that does not exist has no rules and no jump.
RulesReached ==
  /\ TypeOK /\ \A r \in Rules : chain[r].exists \/ chain[r] = Absent
  /\ \A s \in Sandboxes : Live(s) =>
       \A r \in Rules : Rule(s) \in chain[r].rules /\ (Quiet => chain[r].jump)

Known(s) == pc[s] \notin {"new", "orphan"}

\* Two pod VMs of the node are never configured with the same VXLAN identifier by
\* one process, and two tunnels never share one, not even with a tunnel from before
\* a restart of the process, which starts to count again.  And as long as no more
\* sandboxes are created than there are names, a name taken between LinkList and
\* LinkAdd never makes Setup fail with "too many".
IdsDistinct ==
  /\ \A s, t \in Sandboxes :
       s # t /\ ((Known(s) /\ Known(t)) \/ (pod[s] = "vxlan1" /\ pod[t] = "vxlan1")) => id[s] # id[t]
  /\ Quiet /\ case.pods <= MaxNames => \A s \in Sandboxes : pc[s] # "toomany"

Stopped(s) == td[s] \in {"done", "failed"} \/ pc[s] = "new"

\* A Teardown that succeeds has removed the sandbox's link and both its rules,
\* even if it ran while Setup was still at work; the rules may be back only for a
\* sandbox that was given the same address and, after a restart, the same identifier.
\* When no call failed, a Setup that found too many links included, nothing of the
\* tunnels stays on the node: once StopVM is done with every sandbox the chains and
\* the jumps are gone and no link is left on the host.
TeardownComplete ==
  /\ \A s \in Sandboxes : td[s] = "done" =>
       /\ pod[s] = None
       /\ \A r \in Rules : Rule(s) \in chain[r].rules =>
            \E t \in Sandboxes \ {s} : Rule(t) = Rule(s)
  /\ Quiet /\ (\A s \in Sandboxes : Stopped(s) /\ pc[s] # "toomany") =>
       /\ \A r \in Rules : chain[r] = Absent
       /\ \A n \in Names : host[n] = None
=============================================================================
