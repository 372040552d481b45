-------------------------- MODULE WorkerNodeProofs --------------------------
(***************************************************************************)
(* Proofs about the worker node's end of the pod network, for every finite  *)
(* set of sandboxes, every set of addresses, every number of link names and  *)
(* every number of failures and restarts.                                   *)
(***************************************************************************)
EXTENDS WorkerNode, TLAPS

\* The sandbox's call has the mutex exactly while it is in its iptables loop.
MutexInv ==
  \A s \in Sandboxes : /\ pc[s] \in Up <=> mutex = <<s, "up">>
                       /\ td[s] \in Down <=> mutex = <<s, "down">>

\* The index counts the sandboxes that were created, and those of this process have
\* different identifiers below it.
Created == {t \in Sandboxes : pc[t] # "new"}
IndexInv ==
  /\ index <= Cardinality(Created) /\ Cardinality(Created) <= case.pods
  /\ \A s \in Sandboxes : Known(s) => id[s] < index
  /\ \A s, t \in Sandboxes : s # t /\ Known(s) /\ Known(t) => id[s] # id[t]

\* How far Teardown is, in terms of how far Setup is: it gets past the filters only when
\* vxlan1 exists, which is made after the iptables loop.
Linked == {"redirect", "back", "up", "failed", "orphan"}
CallInv ==
  \A s \in Sandboxes :
    /\ td[s] \notin {"new", "done", "failed"} => Known(s)
    /\ td[s] # "new" => pc[s] # "new"
    /\ td[s] \in {"link", "lock", "done"} \union Down => pc[s] \in Linked
    /\ td[s] \in {"lock", "done"} \union Down => pod[s] = None
    /\ pod[s] = "vxlan1" => pc[s] \in Linked
    /\ pc[s] \in {"new", "inspected"} => addr[s] = None
    /\ pc[s] \in Up \union Past => addr[s] \in Addrs

\* Both loops start at the first chain.
LoopInv ==
  \A s \in Sandboxes : /\ pc[s] \in {"new", "inspected"} => rule[s].up = 1
                       /\ td[s] \in {"new", "filters", "link", "lock"} => rule[s].down = 1

\* A sandbox has at most one link, on the host or in its namespace, and has it as long as
\* Setup works on it; the kernel gives no two links one VNI.
HasLink(s) == pod[s] # None \/ \E n \in Names : host[n] = s
LinkInv ==
  /\ \A n \in Names : host[n] # None =>
       pc[host[n]] \in {"move", "failed", "orphan"} /\ pod[host[n]] = None
  /\ \A n, m \in Names : host[n] # None /\ host[n] = host[m] => n = m
  /\ \A s \in Sandboxes : pod[s] # None => pc[s] \in Linked \union {"name"}
  /\ \A s \in Sandboxes : pc[s] \in {"move", "name"} => HasLink(s)
  /\ \A s, t \in Sandboxes : s # t /\ HasLink(s) /\ HasLink(t) => id[s] # id[t]

\* The chain that a call in the iptables loop is at.
ChainInv ==
  /\ \A r \in Rules : chain[r].exists \/ chain[r] = Absent
  /\ \A s \in Sandboxes :
       /\ pc[s] \in {"jump", "rule"} => chain[rule[s].up].exists
       /\ pc[s] = "jump" => chain[rule[s].up].rules = {}
       /\ td[s] \in {"unjump", "unchain"} => chain[rule[s].down].rules = {}
       /\ td[s] = "unchain" => ~chain[rule[s].down].jump

\* The rules that Setup has added and Teardown has not come to, and those it has removed.
Owned(s, r) ==
  \/ pc[s] \in Up /\ r < rule[s].up
  \/ pc[s] \in Past /\ \/ td[s] \in {"new", "filters", "link", "lock"}
                       \/ td[s] = "delete" /\ r >= rule[s].down
                       \/ td[s] \in {"list", "unjump", "unchain"} /\ r > rule[s].down
Gone(s, r) ==
  \/ td[s] = "done"
  \/ td[s] = "delete" /\ r < rule[s].down
  \/ td[s] \in {"list", "unjump", "unchain"} /\ r <= rule[s].down
RuleInv ==
  \A s \in Sandboxes, r \in Rules :
    /\ Owned(s, r) => Rule(s) \in chain[r].rules
    /\ Gone(s, r) /\ Rule(s) \in chain[r].rules => \E t \in Sandboxes \ {s} : Rule(t) = Rule(s)

\* Without faults no call fails but a Setup without a free name; Teardown follows Setup and
\* finds its link; every rule has its owner, and every chain has its jump and a rule, but
\* for the one call that is at work on it.
QuietCall(s) ==
  /\ pc[s] \notin {"failed", "orphan"}
  /\ td[s] # "new" => pc[s] \in Ends
  /\ pc[s] \in {"redirect", "back", "up"} /\ td[s] \in {"new", "filters", "link"} => pod[s] = "vxlan1"
  /\ td[s] = "failed" => pc[s] = "toomany"
HasOwner(x, r) == \E t \in Sandboxes : x = Rule(t) /\ (Owned(t, r) \/ pc[t] = "toomany")
SetupAt(at, r) == \E t \in Sandboxes : pc[t] \in at /\ rule[t].up = r
TeardownAt(at, r) == \E t \in Sandboxes : td[t] \in at /\ rule[t].down = r
InUse(r) ==
  /\ chain[r].jump \/ SetupAt({"jump"}, r) \/ TeardownAt({"unchain"}, r)
  /\ \/ chain[r].rules # {} \/ SetupAt({"jump", "rule"}, r)
     \/ TeardownAt({"list", "unjump", "unchain"}, r)
QuietInv ==
  Quiet => /\ \A s \in Sandboxes : QuietCall(s)
           /\ \A r \in Rules : \A x \in chain[r].rules : HasOwner(x, r)
           /\ \A r \in Rules : chain[r].exists => InUse(r)

\* The steps of Setup before its link is made.
Unlinked == {"new", "inspected", "list", "add"} \union Up

\* Without faults every name that a Setup knows to be taken was taken by another sandbox,
\* which takes one name: name[t], or 0.
Named(name) ==
  /\ \A n \in Names : host[n] # None => name[host[n]] = n
  /\ \A t \in Sandboxes : name[t] # 0 => pc[t] \notin Unlinked
  /\ \A s \in Sandboxes : seen[s] \subseteq {name[t] : t \in Created \ {s}}
NamesInv == Quiet => \E name \in [Sandboxes -> 0..MaxNames] : Named(name)
NameFound == Quiet /\ case.pods <= MaxNames => \A s \in Sandboxes : pc[s] # "toomany"

NodeInv == /\ TypeOK /\ MutexInv /\ IndexInv /\ CallInv /\ LoopInv /\ LinkInv
           /\ ChainInv /\ RuleInv /\ QuietInv /\ NamesInv /\ NameFound
----------------------------------------------------------------------------
\* The node's constants.
LEMMA Consts == Rules = {1, 2} /\ Len(Chains) = 2 /\ Names \subseteq Nat
<1>1. Len(Chains) = 2
  BY Zenon DEF Chains
<1>2. Rules = {1, 2}
  BY <1>1 DEF Rules
<1>3. Names \subseteq Nat
  BY WorkerNodeAssumption DEF Names
<1> QED
  BY <1>1, <1>2, <1>3, Zenon

\* There is a first name among those that are free.
FirstFree == \A free \in SUBSET Names : free # {} => Min(free) \in free

\* The bounds of what goes on at the node are numbers.
LEMMA Bounds ==
  ASSUME TypeOK
  PROVE case.pods \in Nat /\ case.overlap \in BOOLEAN /\ case.faults \in Nat /\ case.crashes \in Nat
BY WorkerNodeAssumption, Zenon DEF TypeOK, CallTypeOK, Case

\* Setup goes on to a rule.
LEMMA UpEdit ==
  ASSUME rule \in [Sandboxes -> [up : Rules, down : Rules]], NEW s \in Sandboxes, NEW k,
         rule[s].up < 2, k = rule[s].up + 1, rule' = [rule EXCEPT ![s].up = k]
  PROVE /\ rule' \in [Sandboxes -> [up : Rules, down : Rules]] /\ rule[s].up = 1
        /\ rule'[s].up = 2 /\ rule'[s].down = rule[s].down /\ \A t \in Sandboxes \ {s} : rule'[t] = rule[t]
<1>1. rule[s] \in [up : Rules, down : Rules]
  OBVIOUS
<1>2. rule[s].up = 1 /\ k = 2 /\ k \in Rules
  BY <1>1, Consts
<1> QED
  BY <1>1, <1>2, Zenon

\* Teardown goes on to a rule.
LEMMA DownEdit ==
  ASSUME rule \in [Sandboxes -> [up : Rules, down : Rules]], NEW s \in Sandboxes, NEW k,
         rule[s].down < 2, k = rule[s].down + 1, rule' = [rule EXCEPT ![s].down = k]
  PROVE /\ rule' \in [Sandboxes -> [up : Rules, down : Rules]] /\ rule[s].down = 1
        /\ rule'[s].down = 2 /\ rule'[s].up = rule[s].up /\ \A t \in Sandboxes \ {s} : rule'[t] = rule[t]
<1>1. rule[s] \in [up : Rules, down : Rules]
  OBVIOUS
<1>2. rule[s].down = 1 /\ k = 2 /\ k \in Rules
  BY <1>1, Consts
<1> QED
  BY <1>1, <1>2, Zenon

\* Every step keeps the types of the calls.
LEMMA CallTypeStep ==
  ASSUME TypeOK, FirstFree, Cardinality(Sandboxes) \in Nat, [Next]_vars,
         \A s \in Sandboxes : Inspect(s) => index < Cardinality(Sandboxes)
  PROVE CallTypeOK'
<1>0. CallTypeOK
  BY Zenon DEF TypeOK
<1>1. ASSUME NEW s \in Sandboxes, Inspect(s) PROVE CallTypeOK'
  <2>1. index' \in 0..Cardinality(Sandboxes) /\ id' \in [Sandboxes -> 0..Cardinality(Sandboxes)]
    <3>1. index < Cardinality(Sandboxes)
      BY <1>1, Zenon
    <3> QED
      BY <1>0, <1>1, <3>1 DEF CallTypeOK, Inspect, Get
  <2>2. pc' \in [Sandboxes -> {"new", "inspected"} \union Up \union Past \union Ends]
    BY <1>0, <1>1, Zenon DEF CallTypeOK, Inspect, ToPc
  <2> QED
    BY <1>0, <1>1, <2>1, <2>2, Zenon DEF CallTypeOK, Inspect
<1>2. ASSUME NEW s \in Sandboxes, StartSetup(s) PROVE CallTypeOK'
  <2>1. pc' \in [Sandboxes -> {"new", "inspected"} \union Up \union Past \union Ends]
    BY <1>0, <1>2, Zenon DEF CallTypeOK, Up, Past, Ends, StartSetup, ToPc
  <2>2. mutex' \in {Free} \union (Sandboxes \X {"up", "down"})
    BY <1>0, <1>2, Zenon DEF CallTypeOK, StartSetup, Lock
  <2>3. addr' \in [Sandboxes -> Addrs \union {None}]
    BY <1>0, <1>2, Zenon DEF CallTypeOK, StartSetup
  <2> QED
    BY <1>0, <1>2, <2>1, <2>2, <2>3, Zenon DEF CallTypeOK, StartSetup
<1>3. ASSUME NEW s \in Sandboxes, NewChain(s) PROVE CallTypeOK'
  <2>1. pc' \in [Sandboxes -> {"new", "inspected"} \union Up \union Past \union Ends]
    BY <1>0, <1>3 DEF CallTypeOK, Up, Past, Ends, NewChain, ToPc
  <2> QED
    BY <1>0, <1>3, <2>1, Zenon DEF CallTypeOK, NewChain
<1>4. ASSUME NEW s \in Sandboxes, AddJump(s) PROVE CallTypeOK'
  <2>1. pc' \in [Sandboxes -> {"new", "inspected"} \union Up \union Past \union Ends]
    BY <1>0, <1>4, Zenon DEF CallTypeOK, Up, Past, Ends, AddJump, ToPc
  <2> QED
    BY <1>0, <1>4, <2>1, Zenon DEF CallTypeOK, AddJump
<1>5. ASSUME NEW s \in Sandboxes, AppendRule(s) PROVE CallTypeOK'
  <2>1. pc' \in [Sandboxes -> {"new", "inspected"} \union Up \union Past \union Ends]
    BY <1>0, <1>5 DEF CallTypeOK, Up, Past, Ends, AppendRule, ToPc
  <2>2. mutex' \in {Free} \union (Sandboxes \X {"up", "down"})
    BY <1>0, <1>5, Zenon DEF CallTypeOK, AppendRule, Unlock
  <2>3. rule' \in [Sandboxes -> [up : Rules, down : Rules]]
    <3>1. CASE rule' = rule
      BY <1>0, <3>1, Zenon DEF CallTypeOK
    <3>2. CASE rule[s].up < Len(Chains) /\ rule' = [rule EXCEPT ![s].up = rule[s].up + 1]
      BY <1>0, <3>2, Consts, UpEdit DEF CallTypeOK
    <3> QED
      BY <1>5, <3>1, <3>2, Zenon DEF AppendRule
  <2> QED
    BY <1>0, <1>5, <2>1, <2>2, <2>3, Zenon DEF CallTypeOK, AppendRule
<1>6. ASSUME NEW s \in Sandboxes, LinkList(s) PROVE CallTypeOK'
  <2>1. pc' \in [Sandboxes -> {"new", "inspected"} \union Up \union Past \union Ends]
    BY <1>0, <1>6, Zenon DEF CallTypeOK, Up, Past, Ends, LinkList, ToPc
  <2>2. seen' \in [Sandboxes -> SUBSET Names]
    BY <1>0, <1>6, Zenon DEF CallTypeOK, LinkList
  <2> QED
    BY <1>0, <1>6, <2>1, <2>2, Zenon DEF CallTypeOK, LinkList
<1>7. ASSUME NEW s \in Sandboxes, LinkAdd(s) PROVE CallTypeOK'
  <2>1. pc' \in [Sandboxes -> {"new", "inspected"} \union Up \union Past \union Ends]
    BY <1>0, <1>7, Zenon DEF CallTypeOK, Up, Past, Ends, LinkAdd, ToPc
  <2>2. seen' \in [Sandboxes -> SUBSET Names]
    <3>1. Names \ seen[s] # {} => Min(Names \ seen[s]) \in Names
      BY Zenon DEF FirstFree
    <3>2. seen' = seen \/ \E m \in Names : seen' = [seen EXCEPT ![s] = seen[s] \union {m}]
      BY <1>7, <3>1, Zenon DEF LinkAdd
    <3> QED
      BY <1>0, <3>2 DEF CallTypeOK
  <2> QED
    BY <1>0, <1>7, <2>1, <2>2, Zenon DEF CallTypeOK, LinkAdd
<1>8. ASSUME NEW s \in Sandboxes, SetNamespace(s) PROVE CallTypeOK'
  <2>1. pc' \in [Sandboxes -> {"new", "inspected"} \union Up \union Past \union Ends]
    BY <1>0, <1>8, Zenon DEF CallTypeOK, Up, Past, Ends, SetNamespace, ToPc
  <2> QED
    BY <1>0, <1>8, <2>1, Zenon DEF CallTypeOK, SetNamespace
<1>9. ASSUME NEW s \in Sandboxes, SetName(s) PROVE CallTypeOK'
  <2>1. pc' \in [Sandboxes -> {"new", "inspected"} \union Up \union Past \union Ends]
    BY <1>0, <1>9, Zenon DEF CallTypeOK, Up, Past, Ends, SetName, ToPc
  <2> QED
    BY <1>0, <1>9, <2>1, Zenon DEF CallTypeOK, SetName
<1>10. ASSUME NEW s \in Sandboxes, RedirectPod(s) PROVE CallTypeOK'
  <2>1. pc' \in [Sandboxes -> {"new", "inspected"} \union Up \union Past \union Ends]
    BY <1>0, <1>10 DEF CallTypeOK, Up, Past, Ends, RedirectPod, RedirectAdd, ToPc
  <2> QED
    BY <1>0, <1>10, <2>1, Zenon DEF CallTypeOK, RedirectPod, RedirectAdd
<1>11. ASSUME NEW s \in Sandboxes, RedirectBack(s) PROVE CallTypeOK'
  <2>1. pc' \in [Sandboxes -> {"new", "inspected"} \union Up \union Past \union Ends]
    BY <1>0, <1>11 DEF CallTypeOK, Up, Past, Ends, RedirectBack, RedirectAdd, ToPc
  <2> QED
    BY <1>0, <1>11, <2>1, Zenon DEF CallTypeOK, RedirectBack, RedirectAdd
<1>12. ASSUME NEW s \in Sandboxes, StartTeardown(s) PROVE CallTypeOK'
  <2>1. td' \in [Sandboxes -> {"new", "filters", "link", "lock", "done", "failed"} \union Down]
    BY <1>0, <1>12, Zenon DEF CallTypeOK, Down, StartTeardown, ToTd
  <2> QED
    BY <1>0, <1>12, <2>1, Zenon DEF CallTypeOK, StartTeardown
<1>13. ASSUME NEW s \in Sandboxes, RedirectDel(s) PROVE CallTypeOK'
  <2>1. td' \in [Sandboxes -> {"new", "filters", "link", "lock", "done", "failed"} \union Down]
    BY <1>0, <1>13, Zenon DEF CallTypeOK, Down, RedirectDel, ToTd
  <2> QED
    BY <1>0, <1>13, <2>1, Zenon DEF CallTypeOK, RedirectDel
<1>14. ASSUME NEW s \in Sandboxes, LinkDelete(s) PROVE CallTypeOK'
  <2>1. td' \in [Sandboxes -> {"new", "filters", "link", "lock", "done", "failed"} \union Down]
    BY <1>0, <1>14, Zenon DEF CallTypeOK, Down, LinkDelete, ToTd
  <2> QED
    BY <1>0, <1>14, <2>1, Zenon DEF CallTypeOK, LinkDelete
<1>15. ASSUME NEW s \in Sandboxes, StartIptables(s) PROVE CallTypeOK'
  <2>1. td' \in [Sandboxes -> {"new", "filters", "link", "lock", "done", "failed"} \union Down]
    BY <1>0, <1>15, Zenon DEF CallTypeOK, Down, StartIptables, ToTd
  <2>2. mutex' \in {Free} \union (Sandboxes \X {"up", "down"})
    BY <1>0, <1>15, Zenon DEF CallTypeOK, StartIptables, Lock
  <2> QED
    BY <1>0, <1>15, <2>1, <2>2, Zenon DEF CallTypeOK, StartIptables
<1>16. ASSUME NEW s \in Sandboxes, DeleteRule(s) PROVE CallTypeOK'
  <2>1. td' \in [Sandboxes -> {"new", "filters", "link", "lock", "done", "failed"} \union Down]
    BY <1>0, <1>16, Zenon DEF CallTypeOK, Down, DeleteRule, ToTd
  <2>2. mutex' \in {Free} \union (Sandboxes \X {"up", "down"})
    BY <1>0, <1>16, Zenon DEF CallTypeOK, DeleteRule, Unlock
  <2> QED
    BY <1>0, <1>16, <2>1, <2>2, Zenon DEF CallTypeOK, DeleteRule
<1>17. ASSUME NEW s \in Sandboxes, ListRules(s) PROVE CallTypeOK'
  <2>1. td' \in [Sandboxes -> {"new", "filters", "link", "lock", "done", "failed"} \union Down]
    BY <1>0, <1>17, Zenon DEF CallTypeOK, Down, ListRules, NextRule, ToTd
  <2>2. mutex' \in {Free} \union (Sandboxes \X {"up", "down"})
    BY <1>0, <1>17, Zenon DEF CallTypeOK, ListRules, NextRule, Unlock
  <2>3. rule' \in [Sandboxes -> [up : Rules, down : Rules]]
    BY <1>0, <1>17, Consts DEF CallTypeOK, ListRules, NextRule
  <2> QED
    BY <1>0, <1>17, <2>1, <2>2, <2>3, Zenon DEF CallTypeOK, ListRules, NextRule
<1>18. ASSUME NEW s \in Sandboxes, DeleteJump(s) PROVE CallTypeOK'
  <2>1. td' \in [Sandboxes -> {"new", "filters", "link", "lock", "done", "failed"} \union Down]
    BY <1>0, <1>18, Zenon DEF CallTypeOK, Down, DeleteJump, ToTd
  <2> QED
    BY <1>0, <1>18, <2>1, Zenon DEF CallTypeOK, DeleteJump
<1>19. ASSUME NEW s \in Sandboxes, DeleteChain(s) PROVE CallTypeOK'
  <2>1. td' \in [Sandboxes -> {"new", "filters", "link", "lock", "done", "failed"} \union Down]
    BY <1>0, <1>19, Zenon DEF CallTypeOK, Down, DeleteChain, NextRule, ToTd
  <2>2. mutex' \in {Free} \union (Sandboxes \X {"up", "down"})
    BY <1>0, <1>19, Zenon DEF CallTypeOK, DeleteChain, NextRule, Unlock
  <2>3. rule' \in [Sandboxes -> [up : Rules, down : Rules]]
    BY <1>0, <1>19, Consts DEF CallTypeOK, DeleteChain, NextRule
  <2> QED
    BY <1>0, <1>19, <2>1, <2>2, <2>3, Zenon DEF CallTypeOK, DeleteChain, NextRule
<1>20. ASSUME NEW s \in Sandboxes, CallFails(s) PROVE CallTypeOK'
  <2>1. pc' \in [Sandboxes -> {"new", "inspected"} \union Up \union Past \union Ends]
    BY <1>0, <1>20, Zenon DEF CallTypeOK, Up, Past, Ends, CallFails, ToPc
  <2>2. td' \in [Sandboxes -> {"new", "filters", "link", "lock", "done", "failed"} \union Down]
    BY <1>0, <1>20, Zenon DEF CallTypeOK, Down, CallFails, ToTd
  <2>3. mutex' \in {Free} \union (Sandboxes \X {"up", "down"})
    BY <1>0, <1>20, Zenon DEF CallTypeOK, CallFails, Unlock
  <2>4. faults' \in 0..case.faults
    BY <1>0, <1>20, Bounds DEF CallTypeOK, CallFails
  <2> QED
    BY <1>0, <1>20, <2>1, <2>2, <2>3, <2>4, Zenon DEF CallTypeOK, CallFails
<1>21. ASSUME NEW s \in Sandboxes, DeleteNamespace(s) PROVE CallTypeOK'
  <2> QED
    BY <1>0, <1>21, Zenon DEF CallTypeOK, DeleteNamespace, procVars
<1>22. CASE Crash
  <2>1. pc' \in [Sandboxes -> {"new", "inspected"} \union Up \union Past \union Ends]
    BY <1>0, <1>22, Zenon DEF CallTypeOK, Ends, Crash
  <2>2. td' \in [Sandboxes -> {"new", "filters", "link", "lock", "done", "failed"} \union Down]
    BY <1>0, <1>22, Zenon DEF CallTypeOK, Crash
  <2>3. index' \in 0..Cardinality(Sandboxes) /\ crashes' \in 0..case.crashes
    BY <1>0, <1>22, Bounds DEF CallTypeOK, Crash
  <2> QED
    BY <1>0, <1>22, <2>1, <2>2, <2>3, Zenon DEF CallTypeOK, Crash
<1>23. CASE UNCHANGED vars
  BY <1>0, <1>23, Zenon DEF CallTypeOK, vars, procVars
<1> QED
  BY <1>1, <1>2, <1>3, <1>4, <1>5, <1>6, <1>7, <1>8, <1>9, <1>10, <1>11, <1>12, <1>13, <1>14, <1>15, <1>16, <1>17, <1>18, <1>19, <1>20, <1>21, <1>22, <1>23, Zenon DEF Next

\* A chain is made or deleted.
LEMMA ExistsEdit ==
  ASSUME chain \in [Rules -> ChainType], NEW r \in Rules, NEW b \in BOOLEAN,
         chain' = [chain EXCEPT ![r].exists = b]
  PROVE /\ chain' \in [Rules -> ChainType] /\ \A q \in Rules \ {r} : chain'[q] = chain[q]
        /\ chain'[r].exists = b /\ chain'[r].jump = chain[r].jump /\ chain'[r].rules = chain[r].rules
<1>1. chain[r] \in ChainType
  OBVIOUS
<1> QED
  BY <1>1, Zenon DEF ChainType

\* A jump is added or deleted.
LEMMA JumpEdit ==
  ASSUME chain \in [Rules -> ChainType], NEW r \in Rules, NEW b \in BOOLEAN,
         chain' = [chain EXCEPT ![r].jump = b]
  PROVE /\ chain' \in [Rules -> ChainType] /\ \A q \in Rules \ {r} : chain'[q] = chain[q]
        /\ chain'[r].exists = chain[r].exists /\ chain'[r].jump = b /\ chain'[r].rules = chain[r].rules
<1>1. chain[r] \in ChainType
  OBVIOUS
<1> QED
  BY <1>1, Zenon DEF ChainType

\* A rule is added or deleted.
LEMMA RulesEdit ==
  ASSUME chain \in [Rules -> ChainType], NEW r \in Rules, NEW R \in SUBSET (Addrs \X (0..Cardinality(Sandboxes))),
         chain' = [chain EXCEPT ![r].rules = R]
  PROVE /\ chain' \in [Rules -> ChainType] /\ \A q \in Rules \ {r} : chain'[q] = chain[q]
        /\ chain'[r].exists = chain[r].exists /\ chain'[r].jump = chain[r].jump /\ chain'[r].rules = R
<1>1. chain[r] \in ChainType
  OBVIOUS
<1> QED
  BY <1>1, Zenon DEF ChainType

\* The chain that Setup is at exists already, or is made.
LEMMA NewChainEffect ==
  ASSUME TypeOK, NEW s \in Sandboxes, NewChain(s)
  PROVE /\ chain' \in [Rules -> ChainType] /\ rule[s].up \in Rules
        /\ \A q \in Rules \ {rule[s].up} : chain'[q] = chain[q]
        /\ \/ chain' = chain /\ chain[rule[s].up].exists /\ pc' = [pc EXCEPT ![s] = "rule"]
           \/ /\ ~chain[rule[s].up].exists /\ chain'[rule[s].up].exists /\ pc' = [pc EXCEPT ![s] = "jump"]
              /\ chain'[rule[s].up].jump = chain[rule[s].up].jump
              /\ chain'[rule[s].up].rules = chain[rule[s].up].rules
<1>1. rule[s].up \in Rules /\ chain \in [Rules -> ChainType]
  BY Zenon DEF TypeOK, CallTypeOK, KernelTypeOK
<1>2. CASE chain[rule[s].up].exists
  BY <1>1, <1>2, Zenon DEF NewChain, ToPc
<1>3. CASE ~chain[rule[s].up].exists
  <2>1. chain' = [chain EXCEPT ![rule[s].up].exists = TRUE] /\ pc' = [pc EXCEPT ![s] = "jump"]
    BY <1>3, Zenon DEF NewChain, ToPc
  <2> QED
    BY <1>1, <1>3, <2>1, ExistsEdit, Zenon
<1> QED
  BY <1>2, <1>3, Zenon

\* The jump is added to the chain that Setup is at.
LEMMA AddJumpEffect ==
  ASSUME TypeOK, NEW s \in Sandboxes, AddJump(s)
  PROVE /\ chain' \in [Rules -> ChainType] /\ rule[s].up \in Rules
        /\ \A q \in Rules \ {rule[s].up} : chain'[q] = chain[q]
        /\ chain'[rule[s].up].jump /\ chain'[rule[s].up].exists = chain[rule[s].up].exists
        /\ chain'[rule[s].up].rules = chain[rule[s].up].rules
<1>1. rule[s].up \in Rules /\ chain \in [Rules -> ChainType]
  BY Zenon DEF TypeOK, CallTypeOK, KernelTypeOK
<1>2. chain' = [chain EXCEPT ![rule[s].up].jump = TRUE]
  BY Zenon DEF AddJump
<1> QED
  BY <1>1, <1>2, JumpEdit, Zenon

\* The rule of the sandbox is added to the chain that Setup is at.
LEMMA AppendRuleEffect ==
  ASSUME TypeOK, CallInv, NEW s \in Sandboxes, AppendRule(s)
  PROVE /\ chain' \in [Rules -> ChainType] /\ rule[s].up \in Rules
        /\ \A q \in Rules \ {rule[s].up} : chain'[q] = chain[q]
        /\ chain'[rule[s].up].jump = chain[rule[s].up].jump
        /\ chain'[rule[s].up].exists = chain[rule[s].up].exists
        /\ chain'[rule[s].up].rules = chain[rule[s].up].rules \union {Rule(s)}
<1>1. rule[s].up \in Rules /\ chain \in [Rules -> ChainType]
  BY Zenon DEF TypeOK, CallTypeOK, KernelTypeOK
<1> DEFINE R == chain[rule[s].up].rules \union {Rule(s)}
<1>2. addr[s] \in Addrs /\ id[s] \in 0..Cardinality(Sandboxes)
  BY Zenon DEF AppendRule, CallInv, TypeOK, CallTypeOK, Up
<1>3. R \in SUBSET (Addrs \X (0..Cardinality(Sandboxes)))
  BY <1>1, <1>2 DEF ChainType, Rule
<1>4. chain' = [chain EXCEPT ![rule[s].up].rules = R]
  BY Zenon DEF AppendRule
<1>5. /\ chain' \in [Rules -> ChainType] /\ \A q \in Rules \ {rule[s].up} : chain'[q] = chain[q]
      /\ chain'[rule[s].up].exists = chain[rule[s].up].exists
      /\ chain'[rule[s].up].jump = chain[rule[s].up].jump /\ chain'[rule[s].up].rules = R
  <2> HIDE DEF R
  <2> QED
    BY <1>1, <1>3, <1>4, RulesEdit, Zenon
<1> QED
  BY <1>1, <1>5, Zenon

\* The rule of the sandbox is deleted from the chain that Teardown is at.
LEMMA DeleteRuleEffect ==
  ASSUME TypeOK, NEW s \in Sandboxes, DeleteRule(s), Rule(s) \in chain[rule[s].down].rules
  PROVE /\ chain' \in [Rules -> ChainType] /\ rule[s].down \in Rules
        /\ \A q \in Rules \ {rule[s].down} : chain'[q] = chain[q]
        /\ chain'[rule[s].down].jump = chain[rule[s].down].jump
        /\ chain'[rule[s].down].exists = chain[rule[s].down].exists
        /\ chain'[rule[s].down].rules = chain[rule[s].down].rules \ {Rule(s)}
<1>1. rule[s].down \in Rules /\ chain \in [Rules -> ChainType]
  BY Zenon DEF TypeOK, CallTypeOK, KernelTypeOK
<1> DEFINE R == chain[rule[s].down].rules \ {Rule(s)}
<1>3. R \in SUBSET (Addrs \X (0..Cardinality(Sandboxes)))
  BY <1>1, Zenon DEF ChainType
<1>4. chain' = [chain EXCEPT ![rule[s].down].rules = R]
  BY Zenon DEF DeleteRule
<1>5. /\ chain' \in [Rules -> ChainType] /\ \A q \in Rules \ {rule[s].down} : chain'[q] = chain[q]
      /\ chain'[rule[s].down].exists = chain[rule[s].down].exists
      /\ chain'[rule[s].down].jump = chain[rule[s].down].jump /\ chain'[rule[s].down].rules = R
  <2> HIDE DEF R
  <2> QED
    BY <1>1, <1>3, <1>4, RulesEdit, Zenon
<1> QED
  BY <1>1, <1>5, Zenon

\* The jump to the chain that Teardown is at is deleted.
LEMMA DeleteJumpEffect ==
  ASSUME TypeOK, NEW s \in Sandboxes, DeleteJump(s)
  PROVE /\ chain' \in [Rules -> ChainType] /\ rule[s].down \in Rules
        /\ \A q \in Rules \ {rule[s].down} : chain'[q] = chain[q]
        /\ ~chain'[rule[s].down].jump /\ chain'[rule[s].down].exists = chain[rule[s].down].exists
        /\ chain'[rule[s].down].rules = chain[rule[s].down].rules
<1>1. rule[s].down \in Rules /\ chain \in [Rules -> ChainType]
  BY Zenon DEF TypeOK, CallTypeOK, KernelTypeOK
<1>2. chain' = [chain EXCEPT ![rule[s].down].jump = FALSE]
  BY Zenon DEF DeleteJump
<1> QED
  BY <1>1, <1>2, JumpEdit, Zenon

\* An empty chain without a jump is deleted.
LEMMA DeleteChainEffect ==
  ASSUME TypeOK, NEW s \in Sandboxes, DeleteChain(s),
         chain[rule[s].down].rules = {}, ~chain[rule[s].down].jump
  PROVE /\ chain' \in [Rules -> ChainType] /\ rule[s].down \in Rules
        /\ \A q \in Rules \ {rule[s].down} : chain'[q] = chain[q]
        /\ chain'[rule[s].down] = Absent
<1>1. rule[s].down \in Rules /\ chain \in [Rules -> ChainType]
  BY Zenon DEF TypeOK, CallTypeOK, KernelTypeOK
<1>2. chain' = [chain EXCEPT ![rule[s].down].exists = FALSE]
  BY Zenon DEF DeleteChain
<1>3. /\ chain' \in [Rules -> ChainType] /\ \A q \in Rules \ {rule[s].down} : chain'[q] = chain[q]
      /\ chain'[rule[s].down].exists = FALSE /\ chain'[rule[s].down].jump = chain[rule[s].down].jump
      /\ chain'[rule[s].down].rules = {}
  BY <1>1, <1>2, ExistsEdit, Zenon
<1>4. chain'[rule[s].down] \in ChainType /\ chain'[rule[s].down].jump = FALSE
  BY <1>1, <1>3, Zenon DEF ChainType
<1>5. chain'[rule[s].down] = Absent
  BY <1>3, <1>4, Zenon DEF ChainType, Absent
<1> QED
  BY <1>1, <1>3, <1>5, Zenon

\* Every step keeps the types of the kernel's state.
LEMMA KernelTypeStep ==
  ASSUME TypeOK, CallInv, [Next]_vars
  PROVE KernelTypeOK'
<1>0. KernelTypeOK
  BY Zenon DEF TypeOK
<1>1. CASE UNCHANGED kernelVars
  BY <1>0, <1>1, Zenon DEF KernelTypeOK, kernelVars
<1>2. CASE UNCHANGED <<host, pod, filters>> /\ chain' \in [Rules -> ChainType]
  BY <1>0, <1>2, Zenon DEF KernelTypeOK
<1>3. ASSUME NEW s \in Sandboxes,
              Inspect(s) \/ StartSetup(s) \/ LinkList(s) \/ StartIptables(s) \/ ListRules(s) \/ CallFails(s)
       PROVE KernelTypeOK'
  BY <1>1, <1>3, Zenon DEF Inspect, StartSetup, LinkList, StartIptables, ListRules, CallFails
<1>4. ASSUME NEW s \in Sandboxes, NewChain(s) PROVE KernelTypeOK'
  <2>1. UNCHANGED <<host, pod, filters>>
    BY <1>4, Zenon DEF NewChain
  <2> QED
    BY <1>2, <1>4, <2>1, NewChainEffect, Zenon
<1>5. ASSUME NEW s \in Sandboxes, AddJump(s) PROVE KernelTypeOK'
  <2>1. UNCHANGED <<host, pod, filters>>
    BY <1>5, Zenon DEF AddJump
  <2> QED
    BY <1>2, <1>5, <2>1, AddJumpEffect, Zenon
<1>6. ASSUME NEW s \in Sandboxes, AppendRule(s) PROVE KernelTypeOK'
  <2>1. UNCHANGED <<host, pod, filters>>
    BY <1>6, Zenon DEF AppendRule
  <2> QED
    BY <1>2, <1>6, <2>1, AppendRuleEffect, Zenon
<1>7. ASSUME NEW s \in Sandboxes, DeleteJump(s) PROVE KernelTypeOK'
  <2>1. UNCHANGED <<host, pod, filters>>
    BY <1>7, Zenon DEF DeleteJump
  <2> QED
    BY <1>2, <1>7, <2>1, DeleteJumpEffect, Zenon
<1>8. ASSUME NEW s \in Sandboxes, DeleteRule(s) PROVE KernelTypeOK'
  <2>1. UNCHANGED <<host, pod, filters>>
    BY <1>8, Zenon DEF DeleteRule
  <2>2. CASE Rule(s) \in chain[rule[s].down].rules
    BY <1>2, <1>8, <2>1, <2>2, DeleteRuleEffect, Zenon
  <2>3. CASE UNCHANGED chain
    BY <1>1, <2>1, <2>3, Zenon DEF kernelVars
  <2> QED
    BY <1>8, <2>2, <2>3, Zenon DEF DeleteRule
<1>9. ASSUME NEW s \in Sandboxes, DeleteChain(s) PROVE KernelTypeOK'
  <2>1. UNCHANGED <<host, pod, filters>>
    BY <1>9, Zenon DEF DeleteChain
  <2>2. CASE chain[rule[s].down].rules = {} /\ ~chain[rule[s].down].jump
    BY <1>2, <1>9, <2>1, <2>2, DeleteChainEffect, Zenon
  <2>3. CASE UNCHANGED chain
    BY <1>1, <2>1, <2>3, Zenon DEF kernelVars
  <2> QED
    BY <1>9, <2>2, <2>3, Zenon DEF DeleteChain
<1>10. ASSUME NEW s \in Sandboxes, LinkAdd(s) PROVE KernelTypeOK'
  <2>1. UNCHANGED <<pod, filters, chain>>
    BY <1>10, Zenon DEF LinkAdd
  <2>2. host' = host \/ \E m : host' = [host EXCEPT ![m] = s]
    BY <1>10, Zenon DEF LinkAdd
  <2>3. host' \in [Names -> Sandboxes \union {None}]
    BY <1>0, <2>2, Zenon DEF KernelTypeOK
  <2> QED
    BY <1>0, <2>1, <2>3, Zenon DEF KernelTypeOK
<1>11. ASSUME NEW s \in Sandboxes, SetNamespace(s) PROVE KernelTypeOK'
  <2>1. UNCHANGED chain
    BY <1>11, Zenon DEF SetNamespace
  <2>2. /\ host' \in [Names -> Sandboxes \union {None}] /\ pod' \in [Sandboxes -> {None, "moved", "vxlan1"}]
        /\ filters' \in [Sandboxes -> SUBSET {"eth0", "vxlan1"}]
    BY <1>0, <1>11, Zenon DEF KernelTypeOK, SetNamespace
  <2> QED
    BY <1>0, <2>1, <2>2, Zenon DEF KernelTypeOK
<1>12. ASSUME NEW s \in Sandboxes, SetName(s) PROVE KernelTypeOK'
  <2>1. UNCHANGED chain
    BY <1>12, Zenon DEF SetName
  <2>2. /\ host' \in [Names -> Sandboxes \union {None}] /\ pod' \in [Sandboxes -> {None, "moved", "vxlan1"}]
        /\ filters' \in [Sandboxes -> SUBSET {"eth0", "vxlan1"}]
    BY <1>0, <1>12, Zenon DEF KernelTypeOK, SetName
  <2> QED
    BY <1>0, <2>1, <2>2, Zenon DEF KernelTypeOK
<1>13. ASSUME NEW s \in Sandboxes, RedirectPod(s) PROVE KernelTypeOK'
  <2>1. UNCHANGED chain
    BY <1>13, Zenon DEF RedirectPod, RedirectAdd
  <2>2. /\ host' \in [Names -> Sandboxes \union {None}] /\ pod' \in [Sandboxes -> {None, "moved", "vxlan1"}]
        /\ filters' \in [Sandboxes -> SUBSET {"eth0", "vxlan1"}]
    BY <1>0, <1>13 DEF KernelTypeOK, RedirectPod, RedirectAdd
  <2> QED
    BY <1>0, <2>1, <2>2, Zenon DEF KernelTypeOK
<1>14. ASSUME NEW s \in Sandboxes, RedirectBack(s) PROVE KernelTypeOK'
  <2>1. UNCHANGED chain
    BY <1>14, Zenon DEF RedirectBack, RedirectAdd
  <2>2. /\ host' \in [Names -> Sandboxes \union {None}] /\ pod' \in [Sandboxes -> {None, "moved", "vxlan1"}]
        /\ filters' \in [Sandboxes -> SUBSET {"eth0", "vxlan1"}]
    BY <1>0, <1>14 DEF KernelTypeOK, RedirectBack, RedirectAdd
  <2> QED
    BY <1>0, <2>1, <2>2, Zenon DEF KernelTypeOK
<1>15. ASSUME NEW s \in Sandboxes, StartTeardown(s) PROVE KernelTypeOK'
  <2>1. UNCHANGED chain
    BY <1>15, Zenon DEF StartTeardown
  <2>2. /\ host' \in [Names -> Sandboxes \union {None}] /\ pod' \in [Sandboxes -> {None, "moved", "vxlan1"}]
        /\ filters' \in [Sandboxes -> SUBSET {"eth0", "vxlan1"}]
    BY <1>0, <1>15, Zenon DEF KernelTypeOK, StartTeardown
  <2> QED
    BY <1>0, <2>1, <2>2, Zenon DEF KernelTypeOK
<1>16. ASSUME NEW s \in Sandboxes, RedirectDel(s) PROVE KernelTypeOK'
  <2>1. UNCHANGED chain
    BY <1>16, Zenon DEF RedirectDel
  <2>2. /\ host' \in [Names -> Sandboxes \union {None}] /\ pod' \in [Sandboxes -> {None, "moved", "vxlan1"}]
        /\ filters' \in [Sandboxes -> SUBSET {"eth0", "vxlan1"}]
    BY <1>0, <1>16 DEF KernelTypeOK, RedirectDel
  <2> QED
    BY <1>0, <2>1, <2>2, Zenon DEF KernelTypeOK
<1>17. ASSUME NEW s \in Sandboxes, LinkDelete(s) PROVE KernelTypeOK'
  <2>1. UNCHANGED chain
    BY <1>17, Zenon DEF LinkDelete
  <2>2. /\ host' \in [Names -> Sandboxes \union {None}] /\ pod' \in [Sandboxes -> {None, "moved", "vxlan1"}]
        /\ filters' \in [Sandboxes -> SUBSET {"eth0", "vxlan1"}]
    BY <1>0, <1>17, Zenon DEF KernelTypeOK, LinkDelete
  <2> QED
    BY <1>0, <2>1, <2>2, Zenon DEF KernelTypeOK
<1>18. ASSUME NEW s \in Sandboxes, DeleteNamespace(s) PROVE KernelTypeOK'
  <2>1. UNCHANGED chain
    BY <1>18, Zenon DEF DeleteNamespace
  <2>2. /\ host' \in [Names -> Sandboxes \union {None}] /\ pod' \in [Sandboxes -> {None, "moved", "vxlan1"}]
        /\ filters' \in [Sandboxes -> SUBSET {"eth0", "vxlan1"}]
    BY <1>0, <1>18, Zenon DEF KernelTypeOK, DeleteNamespace
  <2> QED
    BY <1>0, <2>1, <2>2, Zenon DEF KernelTypeOK
<1>19. CASE Crash \/ UNCHANGED vars
  BY <1>1, <1>19, Zenon DEF Crash, vars
<1> QED
  BY <1>3, <1>4, <1>5, <1>6, <1>7, <1>8, <1>9, <1>10, <1>11, <1>12, <1>13, <1>14, <1>15, <1>16, <1>17, <1>18, <1>19, Zenon DEF Next

\* Only Inspect and a restart change which sandboxes the process knows, and the index.
LEMMA KnownStays ==
  ASSUME TypeOK, [Next]_vars, ~Crash, \A s \in Sandboxes : ~Inspect(s)
  PROVE /\ UNCHANGED <<case, index, id>>
        /\ \A t \in Sandboxes : pc'[t] = pc[t] \/ (Known(t) /\ Known(t)')
<1>0. CallTypeOK
  BY Zenon DEF TypeOK
<1>1. UNCHANGED <<case, index, id>>
  BY Zenon DEF Next, vars, procVars, StartSetup, NewChain, AddJump, AppendRule, LinkList, LinkAdd, SetNamespace, SetName, RedirectPod, RedirectBack,
         StartTeardown, RedirectDel, LinkDelete, StartIptables, DeleteRule, ListRules, DeleteJump, DeleteChain, CallFails, DeleteNamespace, RedirectAdd
<1>2. ASSUME NEW s \in Sandboxes, StartSetup(s)
       PROVE \A t \in Sandboxes : pc'[t] = pc[t] \/ (Known(t) /\ Known(t)')
  BY <1>0, <1>2, Zenon DEF CallTypeOK, Known, StartSetup, ToPc
<1>3. ASSUME NEW s \in Sandboxes, NewChain(s)
       PROVE \A t \in Sandboxes : pc'[t] = pc[t] \/ (Known(t) /\ Known(t)')
  BY <1>0, <1>3, Zenon DEF CallTypeOK, Known, NewChain, ToPc
<1>4. ASSUME NEW s \in Sandboxes, AddJump(s)
       PROVE \A t \in Sandboxes : pc'[t] = pc[t] \/ (Known(t) /\ Known(t)')
  BY <1>0, <1>4, Zenon DEF CallTypeOK, Known, AddJump, ToPc
<1>5. ASSUME NEW s \in Sandboxes, AppendRule(s)
       PROVE \A t \in Sandboxes : pc'[t] = pc[t] \/ (Known(t) /\ Known(t)')
  BY <1>0, <1>5, Zenon DEF CallTypeOK, Known, AppendRule, ToPc
<1>6. ASSUME NEW s \in Sandboxes, LinkList(s)
       PROVE \A t \in Sandboxes : pc'[t] = pc[t] \/ (Known(t) /\ Known(t)')
  BY <1>0, <1>6, Zenon DEF CallTypeOK, Known, LinkList, ToPc
<1>7. ASSUME NEW s \in Sandboxes, LinkAdd(s)
       PROVE \A t \in Sandboxes : pc'[t] = pc[t] \/ (Known(t) /\ Known(t)')
  BY <1>0, <1>7, Zenon DEF CallTypeOK, Known, LinkAdd, ToPc
<1>8. ASSUME NEW s \in Sandboxes, SetNamespace(s)
       PROVE \A t \in Sandboxes : pc'[t] = pc[t] \/ (Known(t) /\ Known(t)')
  BY <1>0, <1>8, Zenon DEF CallTypeOK, Known, SetNamespace, ToPc
<1>9. ASSUME NEW s \in Sandboxes, SetName(s)
       PROVE \A t \in Sandboxes : pc'[t] = pc[t] \/ (Known(t) /\ Known(t)')
  BY <1>0, <1>9, Zenon DEF CallTypeOK, Known, SetName, ToPc
<1>10. ASSUME NEW s \in Sandboxes, RedirectPod(s)
       PROVE \A t \in Sandboxes : pc'[t] = pc[t] \/ (Known(t) /\ Known(t)')
  BY <1>0, <1>10, Zenon DEF CallTypeOK, Known, RedirectPod, RedirectAdd, ToPc
<1>11. ASSUME NEW s \in Sandboxes, RedirectBack(s)
       PROVE \A t \in Sandboxes : pc'[t] = pc[t] \/ (Known(t) /\ Known(t)')
  BY <1>0, <1>11, Zenon DEF CallTypeOK, Known, RedirectBack, RedirectAdd, ToPc
<1>12. ASSUME NEW s \in Sandboxes, StartTeardown(s)
       PROVE \A t \in Sandboxes : pc'[t] = pc[t] \/ (Known(t) /\ Known(t)')
  BY <1>0, <1>12, Zenon DEF CallTypeOK, Known, StartTeardown
<1>13. ASSUME NEW s \in Sandboxes, RedirectDel(s)
       PROVE \A t \in Sandboxes : pc'[t] = pc[t] \/ (Known(t) /\ Known(t)')
  BY <1>0, <1>13, Zenon DEF CallTypeOK, Known, RedirectDel
<1>14. ASSUME NEW s \in Sandboxes, LinkDelete(s)
       PROVE \A t \in Sandboxes : pc'[t] = pc[t] \/ (Known(t) /\ Known(t)')
  BY <1>0, <1>14, Zenon DEF CallTypeOK, Known, LinkDelete
<1>15. ASSUME NEW s \in Sandboxes, StartIptables(s)
       PROVE \A t \in Sandboxes : pc'[t] = pc[t] \/ (Known(t) /\ Known(t)')
  BY <1>0, <1>15, Zenon DEF CallTypeOK, Known, StartIptables
<1>16. ASSUME NEW s \in Sandboxes, DeleteRule(s)
       PROVE \A t \in Sandboxes : pc'[t] = pc[t] \/ (Known(t) /\ Known(t)')
  BY <1>0, <1>16, Zenon DEF CallTypeOK, Known, DeleteRule
<1>17. ASSUME NEW s \in Sandboxes, ListRules(s)
       PROVE \A t \in Sandboxes : pc'[t] = pc[t] \/ (Known(t) /\ Known(t)')
  BY <1>0, <1>17, Zenon DEF CallTypeOK, Known, ListRules
<1>18. ASSUME NEW s \in Sandboxes, DeleteJump(s)
       PROVE \A t \in Sandboxes : pc'[t] = pc[t] \/ (Known(t) /\ Known(t)')
  BY <1>0, <1>18, Zenon DEF CallTypeOK, Known, DeleteJump
<1>19. ASSUME NEW s \in Sandboxes, DeleteChain(s)
       PROVE \A t \in Sandboxes : pc'[t] = pc[t] \/ (Known(t) /\ Known(t)')
  BY <1>0, <1>19, Zenon DEF CallTypeOK, Known, DeleteChain
<1>20. ASSUME NEW s \in Sandboxes, CallFails(s)
       PROVE \A t \in Sandboxes : pc'[t] = pc[t] \/ (Known(t) /\ Known(t)')
  BY <1>0, <1>20, Zenon DEF CallTypeOK, Known, CallFails, ToPc, Ends
<1>21. ASSUME NEW s \in Sandboxes, DeleteNamespace(s)
       PROVE \A t \in Sandboxes : pc'[t] = pc[t] \/ (Known(t) /\ Known(t)')
  BY <1>0, <1>21, Zenon DEF CallTypeOK, Known, DeleteNamespace, procVars
<1> QED
  BY <1>1, <1>2, <1>3, <1>4, <1>5, <1>6, <1>7, <1>8, <1>9, <1>10, <1>11, <1>12, <1>13, <1>14, <1>15, <1>16, <1>17, <1>18, <1>19, <1>20, <1>21, Zenon DEF Next, vars, procVars

\* A call of Setup that leaves its iptables loop gives the mutex back if it has it.
LEMMA UnlockUp ==
  ASSUME TypeOK, MutexInv, NEW s \in Sandboxes, Unlock(s, "up"), td' = td,
         NEW at, at \notin Up, pc' = [pc EXCEPT ![s] = at]
  PROVE MutexInv'
<1>1. \A t \in Sandboxes : pc'[t] = IF t = s THEN at ELSE pc[t]
  BY Zenon DEF TypeOK, CallTypeOK
<1>2. CASE mutex = <<s, "up">>
  <2>1. mutex' = Free
    BY <1>2, Zenon DEF Unlock
  <2>2. \A t \in Sandboxes : td[t] \notin Down /\ (t # s => pc[t] \notin Up)
    BY <1>2, Zenon DEF MutexInv
  <2> QED
    BY <1>1, <2>1, <2>2, Zenon DEF MutexInv, Free
<1>3. CASE mutex # <<s, "up">>
  <2>1. mutex' = mutex
    BY <1>3, Zenon DEF Unlock
  <2> QED
    BY <1>1, <1>3, <2>1, Zenon DEF MutexInv
<1> QED
  BY <1>2, <1>3, Zenon

\* A call of Teardown that leaves its iptables loop gives the mutex back if it has it.
LEMMA UnlockDown ==
  ASSUME TypeOK, MutexInv, NEW s \in Sandboxes, Unlock(s, "down"), pc' = pc,
         NEW at, at \notin Down, td' = [td EXCEPT ![s] = at]
  PROVE MutexInv'
<1>1. \A t \in Sandboxes : td'[t] = IF t = s THEN at ELSE td[t]
  BY Zenon DEF TypeOK, CallTypeOK
<1>2. CASE mutex = <<s, "down">>
  <2>1. mutex' = Free
    BY <1>2, Zenon DEF Unlock
  <2>2. \A t \in Sandboxes : pc[t] \notin Up /\ (t # s => td[t] \notin Down)
    BY <1>2, Zenon DEF MutexInv
  <2> QED
    BY <1>1, <2>1, <2>2, Zenon DEF MutexInv, Free
<1>3. CASE mutex # <<s, "down">>
  <2>1. mutex' = mutex
    BY <1>3, Zenon DEF Unlock
  <2> QED
    BY <1>1, <1>3, <2>1, Zenon DEF MutexInv
<1> QED
  BY <1>2, <1>3, Zenon

\* The mutex is with the call that is in its iptables loop, also when a call fails or the
\* process restarts.
LEMMA MutexStep ==
  ASSUME TypeOK, MutexInv, [Next]_vars
  PROVE MutexInv'
<1>0. CallTypeOK
  BY Zenon DEF TypeOK
<1>1. ASSUME NEW s \in Sandboxes, Inspect(s) PROVE MutexInv'
  BY <1>0, <1>1, Zenon DEF CallTypeOK, MutexInv, Up, Down, Free, Inspect, ToPc
<1>2. ASSUME NEW s \in Sandboxes, StartSetup(s) PROVE MutexInv'
  BY <1>0, <1>2, Zenon DEF CallTypeOK, MutexInv, Up, Down, Free, StartSetup, Lock, ToPc
<1>3. ASSUME NEW s \in Sandboxes, NewChain(s) PROVE MutexInv'
  BY <1>0, <1>3 DEF CallTypeOK, MutexInv, Up, Down, Free, NewChain, ToPc
<1>4. ASSUME NEW s \in Sandboxes, AddJump(s) PROVE MutexInv'
  BY <1>0, <1>4, Zenon DEF CallTypeOK, MutexInv, Up, Down, Free, AddJump, ToPc
<1>5. ASSUME NEW s \in Sandboxes, AppendRule(s) PROVE MutexInv'
  <2>1. CASE Unlock(s, "up") /\ ToPc(s, "list") /\ td' = td
    BY <2>1, UnlockUp, Zenon DEF ToPc, Up
  <2>2. CASE pc[s] = "rule" /\ ToPc(s, "chain") /\ UNCHANGED <<mutex, td>>
    BY <1>0, <2>2, Zenon DEF CallTypeOK, MutexInv, Up, ToPc
  <2> QED
    BY <1>5, <2>1, <2>2, Zenon DEF AppendRule
<1>6. ASSUME NEW s \in Sandboxes, LinkList(s) PROVE MutexInv'
  BY <1>0, <1>6, Zenon DEF CallTypeOK, MutexInv, Up, Down, Free, LinkList, ToPc
<1>7. ASSUME NEW s \in Sandboxes, LinkAdd(s) PROVE MutexInv'
  BY <1>0, <1>7 DEF CallTypeOK, MutexInv, Up, Down, Free, LinkAdd, ToPc
<1>8. ASSUME NEW s \in Sandboxes, SetNamespace(s) PROVE MutexInv'
  BY <1>0, <1>8, Zenon DEF CallTypeOK, MutexInv, Up, Down, Free, SetNamespace, ToPc
<1>9. ASSUME NEW s \in Sandboxes, SetName(s) PROVE MutexInv'
  BY <1>0, <1>9, Zenon DEF CallTypeOK, MutexInv, Up, Down, Free, SetName, ToPc
<1>10. ASSUME NEW s \in Sandboxes, RedirectPod(s) PROVE MutexInv'
  BY <1>0, <1>10 DEF CallTypeOK, MutexInv, Up, Down, Free, RedirectPod, RedirectAdd, ToPc
<1>11. ASSUME NEW s \in Sandboxes, RedirectBack(s) PROVE MutexInv'
  BY <1>0, <1>11 DEF CallTypeOK, MutexInv, Up, Down, Free, RedirectBack, RedirectAdd, ToPc
<1>12. ASSUME NEW s \in Sandboxes, StartTeardown(s) PROVE MutexInv'
  BY <1>0, <1>12, Zenon DEF CallTypeOK, MutexInv, Up, Down, Free, StartTeardown, ToTd
<1>13. ASSUME NEW s \in Sandboxes, RedirectDel(s) PROVE MutexInv'
  BY <1>0, <1>13 DEF CallTypeOK, MutexInv, Up, Down, Free, RedirectDel, ToTd
<1>14. ASSUME NEW s \in Sandboxes, LinkDelete(s) PROVE MutexInv'
  BY <1>0, <1>14, Zenon DEF CallTypeOK, MutexInv, Up, Down, Free, LinkDelete, ToTd
<1>15. ASSUME NEW s \in Sandboxes, StartIptables(s) PROVE MutexInv'
  BY <1>0, <1>15, Zenon DEF CallTypeOK, MutexInv, Up, Down, Free, StartIptables, Lock, ToTd
<1>16. ASSUME NEW s \in Sandboxes, DeleteRule(s) PROVE MutexInv'
  <2>1. CASE Unlock(s, "down") /\ ToTd(s, "failed") /\ pc' = pc
    BY <2>1, UnlockDown, Zenon DEF ToTd, Down
  <2>2. CASE td[s] = "delete" /\ ToTd(s, "list") /\ UNCHANGED <<mutex, pc>>
    BY <1>0, <2>2, Zenon DEF CallTypeOK, MutexInv, Down, ToTd
  <2> QED
    BY <1>16, <2>1, <2>2, Zenon DEF DeleteRule
<1>17. ASSUME NEW s \in Sandboxes, ListRules(s) PROVE MutexInv'
  <2>1. CASE Unlock(s, "down") /\ ToTd(s, "done") /\ pc' = pc
    BY <2>1, UnlockDown, Zenon DEF ToTd, Down
  <2>2. CASE td[s] = "list" /\ (ToTd(s, "delete") \/ ToTd(s, "unjump")) /\ UNCHANGED <<mutex, pc>>
    BY <1>0, <2>2 DEF CallTypeOK, MutexInv, Down, ToTd
  <2> QED
    BY <1>17, <2>1, <2>2, Zenon DEF ListRules, NextRule
<1>18. ASSUME NEW s \in Sandboxes, DeleteJump(s) PROVE MutexInv'
  BY <1>0, <1>18, Zenon DEF CallTypeOK, MutexInv, Up, Down, Free, DeleteJump, ToTd
<1>19. ASSUME NEW s \in Sandboxes, DeleteChain(s) PROVE MutexInv'
  <2>1. CASE Unlock(s, "down") /\ (ToTd(s, "done") \/ ToTd(s, "failed")) /\ pc' = pc
    BY <2>1, UnlockDown, Zenon DEF ToTd, Down
  <2>2. CASE td[s] = "unchain" /\ ToTd(s, "delete") /\ UNCHANGED <<mutex, pc>>
    BY <1>0, <2>2, Zenon DEF CallTypeOK, MutexInv, Down, ToTd
  <2> QED
    BY <1>19, <2>1, <2>2, Zenon DEF DeleteChain, NextRule
<1>20. ASSUME NEW s \in Sandboxes, CallFails(s) PROVE MutexInv'
  <2>1. CASE ToPc(s, "failed") /\ Unlock(s, "up") /\ td' = td
    BY <2>1, UnlockUp, Zenon DEF ToPc, Up
  <2>2. CASE ToTd(s, "failed") /\ Unlock(s, "down") /\ pc' = pc
    BY <2>2, UnlockDown, Zenon DEF ToTd, Down
  <2> QED
    BY <1>20, <2>1, <2>2, Zenon DEF CallFails
<1>21. ASSUME NEW s \in Sandboxes, DeleteNamespace(s) PROVE MutexInv'
  BY <1>0, <1>21, Zenon DEF CallTypeOK, MutexInv, Up, Down, Free, DeleteNamespace, procVars
<1>22. CASE Crash
  BY <1>0, <1>22, Zenon DEF CallTypeOK, MutexInv, Up, Down, Free, Crash
<1>23. CASE UNCHANGED vars
  BY <1>23, Zenon DEF MutexInv, vars, procVars
<1> QED
  BY <1>1, <1>2, <1>3, <1>4, <1>5, <1>6, <1>7, <1>8, <1>9, <1>10, <1>11, <1>12, <1>13, <1>14, <1>15, <1>16, <1>17, <1>18, <1>19, <1>20, <1>21, <1>22, <1>23, Zenon DEF Next

\* Teardown stays behind Setup.
LEMMA CallStep ==
  ASSUME TypeOK, CallInv, [Next]_vars
  PROVE CallInv'
<1>0. CallTypeOK /\ KernelTypeOK
  BY Zenon DEF TypeOK
<1>1. ASSUME NEW s \in Sandboxes, Inspect(s) PROVE CallInv'
  BY <1>0, <1>1 DEF CallTypeOK, KernelTypeOK, CallInv, Up, Past, Down, Linked, Known, kernelVars, Inspect, ToPc
<1>2. ASSUME NEW s \in Sandboxes, StartSetup(s) PROVE CallInv'
  BY <1>0, <1>2 DEF CallTypeOK, KernelTypeOK, CallInv, Up, Past, Down, Linked, Known, kernelVars, StartSetup, ToPc
<1>3. ASSUME NEW s \in Sandboxes, NewChain(s) PROVE CallInv'
  BY <1>0, <1>3 DEF CallTypeOK, KernelTypeOK, CallInv, Up, Past, Down, Linked, Known, kernelVars, NewChain, ToPc
<1>4. ASSUME NEW s \in Sandboxes, AddJump(s) PROVE CallInv'
  BY <1>0, <1>4 DEF CallTypeOK, KernelTypeOK, CallInv, Up, Past, Down, Linked, Known, kernelVars, AddJump, ToPc
<1>5. ASSUME NEW s \in Sandboxes, AppendRule(s) PROVE CallInv'
  BY <1>0, <1>5 DEF CallTypeOK, KernelTypeOK, CallInv, Up, Past, Down, Linked, Known, kernelVars, AppendRule, ToPc
<1>6. ASSUME NEW s \in Sandboxes, LinkList(s) PROVE CallInv'
  BY <1>0, <1>6 DEF CallTypeOK, KernelTypeOK, CallInv, Up, Past, Down, Linked, Known, kernelVars, LinkList, ToPc
<1>7. ASSUME NEW s \in Sandboxes, LinkAdd(s) PROVE CallInv'
  BY <1>0, <1>7 DEF CallTypeOK, KernelTypeOK, CallInv, Up, Past, Down, Linked, Known, kernelVars, LinkAdd, ToPc
<1>8. ASSUME NEW s \in Sandboxes, SetNamespace(s) PROVE CallInv'
  BY <1>0, <1>8 DEF CallTypeOK, KernelTypeOK, CallInv, Up, Past, Down, Linked, Known, kernelVars, SetNamespace, ToPc
<1>9. ASSUME NEW s \in Sandboxes, SetName(s) PROVE CallInv'
  BY <1>0, <1>9 DEF CallTypeOK, KernelTypeOK, CallInv, Up, Past, Down, Linked, Known, kernelVars, SetName, ToPc
<1>10. ASSUME NEW s \in Sandboxes, RedirectPod(s) PROVE CallInv'
  BY <1>0, <1>10 DEF CallTypeOK, KernelTypeOK, CallInv, Up, Past, Down, Linked, Known, kernelVars, RedirectPod, RedirectAdd, ToPc
<1>11. ASSUME NEW s \in Sandboxes, RedirectBack(s) PROVE CallInv'
  BY <1>0, <1>11 DEF CallTypeOK, KernelTypeOK, CallInv, Up, Past, Down, Linked, Known, kernelVars, RedirectBack, RedirectAdd, ToPc
<1>12. ASSUME NEW s \in Sandboxes, StartTeardown(s) PROVE CallInv'
  BY <1>0, <1>12, Zenon DEF CallTypeOK, KernelTypeOK, CallInv, Up, Past, Down, Linked, Known, kernelVars, StartTeardown, ToTd
<1>13. ASSUME NEW s \in Sandboxes, RedirectDel(s) PROVE CallInv'
  BY <1>0, <1>13 DEF CallTypeOK, KernelTypeOK, CallInv, Up, Past, Down, Linked, Known, kernelVars, RedirectDel, ToTd
<1>14. ASSUME NEW s \in Sandboxes, LinkDelete(s) PROVE CallInv'
  BY <1>0, <1>14, Zenon DEF CallTypeOK, KernelTypeOK, CallInv, Up, Past, Down, Linked, Known, kernelVars, LinkDelete, ToTd
<1>15. ASSUME NEW s \in Sandboxes, StartIptables(s) PROVE CallInv'
  BY <1>0, <1>15, Zenon DEF CallTypeOK, KernelTypeOK, CallInv, Up, Past, Down, Linked, Known, kernelVars, StartIptables, ToTd
<1>16. ASSUME NEW s \in Sandboxes, DeleteRule(s) PROVE CallInv'
  BY <1>0, <1>16 DEF CallTypeOK, KernelTypeOK, CallInv, Up, Past, Down, Linked, Known, kernelVars, DeleteRule, ToTd
<1>17. ASSUME NEW s \in Sandboxes, ListRules(s) PROVE CallInv'
  BY <1>0, <1>17 DEF CallTypeOK, KernelTypeOK, CallInv, Up, Past, Down, Linked, Known, kernelVars, ListRules, NextRule, ToTd
<1>18. ASSUME NEW s \in Sandboxes, DeleteJump(s) PROVE CallInv'
  BY <1>0, <1>18, Zenon DEF CallTypeOK, KernelTypeOK, CallInv, Up, Past, Down, Linked, Known, kernelVars, DeleteJump, ToTd
<1>19. ASSUME NEW s \in Sandboxes, DeleteChain(s) PROVE CallInv'
  BY <1>0, <1>19 DEF CallTypeOK, KernelTypeOK, CallInv, Up, Past, Down, Linked, Known, kernelVars, DeleteChain, NextRule, ToTd
<1>20. ASSUME NEW s \in Sandboxes, CallFails(s) PROVE CallInv'
  BY <1>0, <1>20 DEF CallTypeOK, KernelTypeOK, CallInv, Up, Past, Down, Linked, Known, kernelVars, CallFails, ToPc, ToTd, Ends
<1>21. ASSUME NEW s \in Sandboxes, DeleteNamespace(s) PROVE CallInv'
  <2>1. UNCHANGED <<pc, td, addr>> /\ \A t \in Sandboxes : pod'[t] \in {pod[t], None}
    BY <1>0, <1>21, Zenon DEF KernelTypeOK, DeleteNamespace, procVars
  <2> QED
    BY <2>1, Zenon DEF CallInv, Known, None
<1>22. CASE Crash
  BY <1>0, <1>22, Zenon DEF CallTypeOK, CallInv, Up, Past, Down, Linked, Known, kernelVars, Crash
<1>23. CASE UNCHANGED vars
  BY <1>23, Zenon DEF CallInv, Known, vars, procVars, kernelVars
<1> QED
  BY <1>1, <1>2, <1>3, <1>4, <1>5, <1>6, <1>7, <1>8, <1>9, <1>10, <1>11, <1>12, <1>13, <1>14, <1>15, <1>16, <1>17, <1>18, <1>19, <1>20, <1>21, <1>22, <1>23, Zenon DEF Next

\* What a sandbox does while the links are left alone: it moves on among the steps before
\* its link is made, ends, or goes on with its filters.
LinkKept(t) ==
  /\ id'[t] = id[t] \/ pc[t] \in Unlinked
  /\ \/ pc'[t] = pc[t] \/ pc'[t] \in {"failed", "orphan"}
     \/ pc[t] \in Unlinked \/ (pc[t] \in {"redirect", "back"} /\ pc'[t] \in Linked)
  /\ pc'[t] \in {"move", "name"} => pc'[t] = pc[t]

\* Steps of the calls that leave the links alone.
LEMMA LinkFrame ==
  ASSUME TypeOK, LinkInv, host' = host, pod' = pod, \A t \in Sandboxes : LinkKept(t)
  PROVE LinkInv'
<1>0. KernelTypeOK
  BY Zenon DEF TypeOK
<1>1. \A t \in Sandboxes : HasLink(t) => pc[t] \notin Unlinked
  BY WorkerNodeAssumption DEF LinkInv, HasLink, Linked, Up, None, Unlinked
<1>2. \A t \in Sandboxes : HasLink(t)' <=> HasLink(t)
  BY Zenon DEF HasLink
<1>3. \A n \in Names : host'[n] # None =>
        pc'[host'[n]] \in {"move", "failed", "orphan"} /\ pod'[host'[n]] = None
  BY <1>0 DEF KernelTypeOK, LinkInv, Up, LinkKept, Unlinked
<1>4. \A s \in Sandboxes : pod'[s] # None => pc'[s] \in Linked \union {"name"}
  BY Zenon DEF LinkInv, Up, Linked, LinkKept, Unlinked
<1>5. \A s, t \in Sandboxes : s # t /\ HasLink(s)' /\ HasLink(t)' => id'[s] # id'[t]
  BY <1>1, <1>2 DEF LinkInv, LinkKept
<1>6. \A s \in Sandboxes : pc'[s] \in {"move", "name"} => HasLink(s)'
  BY <1>2, Zenon DEF LinkInv, LinkKept
<1> QED
  BY <1>3, <1>4, <1>5, <1>6, Zenon DEF LinkInv

\* Steps that move or delete a link.
LEMMA LinkLess ==
  ASSUME LinkInv, id' = id, \A n \in Names : host'[n] \in {host[n], None},
         \A t \in Sandboxes : HasLink(t)' => HasLink(t),
         \A n \in Names : host'[n] # None => pc'[host[n]] = pc[host[n]] /\ pod'[host[n]] = pod[host[n]],
         \A t \in Sandboxes : pod'[t] # None => pc'[t] \in Linked \union {"name"},
         \A t \in Sandboxes : pc'[t] \in {"move", "name"} => HasLink(t)'
  PROVE LinkInv'
<1>1. \A n \in Names : host'[n] # None => host'[n] = host[n]
  OBVIOUS
<1>2. \A n \in Names : host'[n] # None =>
        pc'[host'[n]] \in {"move", "failed", "orphan"} /\ pod'[host'[n]] = None
  BY <1>1, Zenon DEF LinkInv
<1>3. \A n, k \in Names : host'[n] # None /\ host'[n] = host'[k] => n = k
  BY <1>1 DEF LinkInv
<1>4. \A t, u \in Sandboxes : t # u /\ HasLink(t)' /\ HasLink(u)' => id'[t] # id'[u]
  BY Zenon DEF LinkInv
<1> QED
  BY <1>2, <1>3, <1>4, Zenon DEF LinkInv

\* The kernel's links stay apart: a Setup that fails or is forgotten keeps the link it has
\* made, and its VNI.
LEMMA LinkStep ==
  ASSUME FirstFree, TypeOK, CallInv, LinkInv, [Next]_vars
  PROVE LinkInv'
<1>0. CallTypeOK /\ KernelTypeOK
  BY Zenon DEF TypeOK
<1>2. ASSUME NEW s \in Sandboxes, Inspect(s) PROVE LinkInv'
  <2>1. /\ UNCHANGED <<host, pod>> /\ pc[s] = "new" /\ pc'[s] = "inspected"
        /\ \A t \in Sandboxes \ {s} : id'[t] = id[t] /\ pc'[t] = pc[t]
    BY <1>0, <1>2, Zenon DEF CallTypeOK, Inspect, Get, ToPc, kernelVars
  <2>9. \A t \in Sandboxes : LinkKept(t)
    BY <2>1, Zenon DEF LinkKept, Linked, Unlinked, Up
  <2> QED
    BY <2>1, <2>9, LinkFrame, Zenon
<1>3. ASSUME NEW s \in Sandboxes, StartSetup(s) \/ NewChain(s) \/ AddJump(s) \/ AppendRule(s) \/ LinkList(s)
      PROVE LinkInv'
  <2>1. UNCHANGED <<host, pod, id>> /\ pc[s] \in Unlinked /\ \E at \in Unlinked : pc' = [pc EXCEPT ![s] = at]
    BY <1>3, Zenon DEF StartSetup, NewChain, AddJump, AppendRule, LinkList, ToPc, Up, Unlinked, kernelVars
  <2>2. pc'[s] \notin {"move", "name"} /\ \A t \in Sandboxes \ {s} : pc'[t] = pc[t]
    BY <1>0, <2>1, Zenon DEF CallTypeOK, Up, Unlinked
  <2>9. \A t \in Sandboxes : LinkKept(t)
    BY <2>1, <2>2, Zenon DEF LinkKept, Linked, Unlinked, Up
  <2> QED
    BY <2>1, <2>9, LinkFrame, Zenon
<1>4. ASSUME NEW s \in Sandboxes, LinkAdd(s) PROVE LinkInv'
  <2>1. UNCHANGED <<id, pod>> /\ pc[s] = "add" /\ \A t \in Sandboxes \ {s} : pc'[t] = pc[t]
    BY <1>0, <1>4, Zenon DEF CallTypeOK, LinkAdd, ToPc
  <2>2. CASE UNCHANGED host /\ (UNCHANGED pc \/ ToPc(s, "toomany"))
    <3>1. pc'[s] \in {"add", "toomany"}
      BY <1>0, <2>1, <2>2, Zenon DEF CallTypeOK, ToPc
    <3>2. \A t \in Sandboxes : LinkKept(t)
      BY <2>1, <3>1, Zenon DEF LinkKept, Unlinked
    <3> QED
      BY <2>1, <2>2, <3>2, LinkFrame, Zenon
  <2>3. CASE /\ Names \ seen[s] # {} /\ host[Min(Names \ seen[s])] = None /\ id[s] \notin TakenIds
             /\ host' = [host EXCEPT ![Min(Names \ seen[s])] = s] /\ ToPc(s, "move")
    <3>2. PICK m \in Names : host[m] = None /\ host' = [host EXCEPT ![m] = s]
      BY <2>3, Zenon DEF FirstFree
    <3>3. \A n \in Names : host'[n] = IF n = m THEN s ELSE host[n]
      BY <1>0, <3>2, Zenon DEF KernelTypeOK
    <3>4. \A n \in Names : host[n] # s
      BY <2>1, WorkerNodeAssumption DEF LinkInv
    <3>5. pc'[s] = "move" /\ pod[s] = None /\ s # None
      BY <1>0, <2>1, <2>3, WorkerNodeAssumption DEF CallTypeOK, ToPc, LinkInv, Linked
    <3>6. \A n \in Names : host'[n] # None =>
            pc'[host'[n]] \in {"move", "failed", "orphan"} /\ pod'[host'[n]] = None
      BY <1>0, <2>1, <3>3, <3>4, <3>5 DEF KernelTypeOK, LinkInv
    <3>7. \A n, k \in Names : host'[n] # None /\ host'[n] = host'[k] => n = k
      BY <3>3, <3>4 DEF LinkInv
    <3>8. \A t \in Sandboxes : pod'[t] # None => pc'[t] \in Linked \union {"name"}
      BY <2>1, <3>5, Zenon DEF LinkInv
    <3>9. \A t \in Sandboxes : t # s => (HasLink(t)' <=> HasLink(t))
      BY <2>1, <3>2, <3>3, WorkerNodeAssumption, Zenon DEF HasLink
    <3>10. \A t \in Sandboxes : HasLink(t) => id[t] # id[s]
      <4>1. ASSUME NEW t \in Sandboxes, HasLink(t) PROVE id[t] \in TakenIds
        BY <4>1, WorkerNodeAssumption, Zenon DEF HasLink, TakenIds
      <4> QED
        BY <2>3, <4>1, Zenon
    <3>11. \A t, u \in Sandboxes : t # u /\ HasLink(t)' /\ HasLink(u)' => id'[t] # id'[u]
      BY <2>1, <3>9, <3>10, Zenon DEF LinkInv
    <3>12. \A t \in Sandboxes : pc'[t] \in {"move", "name"} => HasLink(t)'
      <4>1. HasLink(s)'
        BY <3>3, Zenon DEF HasLink
      <4> QED
        BY <2>1, <3>9, <4>1, Zenon DEF LinkInv
    <3> QED
      BY <3>6, <3>7, <3>8, <3>11, <3>12, Zenon DEF LinkInv
  <2> QED
    BY <1>4, <2>2, <2>3, Zenon DEF LinkAdd
<1>6. ASSUME NEW s \in Sandboxes, SetNamespace(s) PROVE LinkInv'
  <2>1. /\ UNCHANGED id /\ pc[s] = "move" /\ pc'[s] = "name" /\ pod'[s] = "moved"
        /\ \A t \in Sandboxes \ {s} : pc'[t] = pc[t] /\ pod'[t] = pod[t]
        /\ \A n \in Names : host'[n] = IF host[n] = s THEN None ELSE host[n]
    BY <1>0, <1>6, Zenon DEF CallTypeOK, KernelTypeOK, SetNamespace, ToPc
  <2>2. \A n \in Names : host'[n] # s
    BY <2>1, WorkerNodeAssumption, Zenon
  <2>3. \A t \in Sandboxes \ {s} : HasLink(t)' <=> HasLink(t)
    BY <2>1, WorkerNodeAssumption, Zenon DEF HasLink
  <2>4. HasLink(s)
    BY <2>1, Zenon DEF LinkInv
  <2>5. QED
    <3>1. \A t \in Sandboxes : HasLink(t)' => HasLink(t)
      BY <2>3, <2>4, Zenon
    <3>2. \A n \in Names : host'[n] # None => pc'[host[n]] = pc[host[n]] /\ pod'[host[n]] = pod[host[n]]
      BY <1>0, <2>1, Zenon DEF KernelTypeOK
    <3>3. /\ \A t \in Sandboxes : pod'[t] # None => pc'[t] \in Linked \union {"name"}
          /\ \A t \in Sandboxes : pc'[t] \in {"move", "name"} => HasLink(t)'
      <4>1. HasLink(s)'
        BY <2>1, Zenon DEF HasLink, None
      <4> QED
        BY <2>1, <2>3, <4>1, Zenon DEF LinkInv
    <3>4. \A n \in Names : host'[n] \in {host[n], None}
      BY <2>1, Zenon
    <3> QED
      BY LinkLess, <2>1, <3>1, <3>2, <3>3, <3>4, Zenon
<1>7. ASSUME NEW s \in Sandboxes, SetName(s) PROVE LinkInv'
  <2>1. /\ UNCHANGED <<id, host>> /\ pc[s] = "name" /\ pc'[s] = "redirect" /\ pod'[s] = "vxlan1"
        /\ \A t \in Sandboxes \ {s} : pc'[t] = pc[t] /\ pod'[t] = pod[t]
    BY <1>0, <1>7, Zenon DEF CallTypeOK, KernelTypeOK, SetName, ToPc
  <2>2. HasLink(s) /\ \A n \in Names : host[n] # s
    BY <2>1, WorkerNodeAssumption, Zenon DEF LinkInv
  <2>3. \A t \in Sandboxes \ {s} : HasLink(t)' <=> HasLink(t)
    BY <2>1, Zenon DEF HasLink
  <2>4. \A n \in Names : host'[n] # None => pc'[host[n]] = pc[host[n]] /\ pod'[host[n]] = pod[host[n]]
    BY <1>0, <2>1, <2>2, Zenon DEF KernelTypeOK
  <2>5. /\ \A t \in Sandboxes : pod'[t] # None => pc'[t] \in Linked \union {"name"}
        /\ \A t \in Sandboxes : pc'[t] \in {"move", "name"} => HasLink(t)'
    BY <2>1, <2>3, Zenon DEF LinkInv, Linked
  <2>6. \A n \in Names : host'[n] \in {host[n], None}
    BY <2>1, Zenon
  <2>7. \A t \in Sandboxes : HasLink(t)' => HasLink(t)
    BY <2>2, <2>3, Zenon
  <2> QED
    BY LinkLess, <2>1, <2>4, <2>5, <2>6, <2>7, Zenon
<1>8. ASSUME NEW s \in Sandboxes, LinkDelete(s) \/ DeleteNamespace(s) PROVE LinkInv'
  <2>1. UNCHANGED <<id, host, pc>> /\ pod' = [pod EXCEPT ![s] = None]
    BY <1>8, Zenon DEF LinkDelete, DeleteNamespace, procVars
  <2>2. pc[s] \notin {"move", "name"}
    BY <1>8, Zenon DEF LinkDelete, DeleteNamespace, CallInv, Linked, Ends
  <2>3. pod'[s] = None /\ \A t \in Sandboxes \ {s} : pod'[t] = pod[t]
    BY <1>0, <2>1, Zenon DEF KernelTypeOK
  <2>4. \A t \in Sandboxes \ {s} : HasLink(t)' <=> HasLink(t)
    BY <2>1, <2>3, Zenon DEF HasLink
  <2>5. HasLink(s)' => HasLink(s)
    BY <2>1, <2>3, Zenon DEF HasLink
  <2>6. \A n \in Names : host'[n] # None => pc'[host[n]] = pc[host[n]] /\ pod'[host[n]] = pod[host[n]]
    BY <1>0, <2>1, <2>3 DEF KernelTypeOK, LinkInv
  <2>7. /\ \A t \in Sandboxes : pod'[t] # None => pc'[t] \in Linked \union {"name"}
        /\ \A t \in Sandboxes : pc'[t] \in {"move", "name"} => HasLink(t)'
    BY <2>1, <2>2, <2>3, <2>4, Zenon DEF LinkInv
  <2>8. \A n \in Names : host'[n] \in {host[n], None}
    BY <2>1, Zenon
  <2>9. \A t \in Sandboxes : HasLink(t)' => HasLink(t)
    BY <2>4, <2>5, Zenon
  <2> QED
    BY LinkLess, <2>1, <2>6, <2>7, <2>8, <2>9, Zenon
<1>9. ASSUME NEW s \in Sandboxes, RedirectPod(s) \/ RedirectBack(s) PROVE LinkInv'
  <2>1. /\ UNCHANGED <<id, host, pod>> /\ pc[s] \in {"redirect", "back"}
        /\ pc'[s] \in Linked /\ \A t \in Sandboxes \ {s} : pc'[t] = pc[t]
    BY <1>0, <1>9, Zenon DEF CallTypeOK, RedirectPod, RedirectBack, RedirectAdd, ToPc, Linked
  <2>9. \A t \in Sandboxes : LinkKept(t)
    BY <2>1, Zenon DEF LinkKept, Linked, Unlinked, Up
  <2> QED
    BY <2>1, <2>9, LinkFrame, Zenon
<1>10. ASSUME NEW s \in Sandboxes, CallFails(s) PROVE LinkInv'
  <2>1. /\ UNCHANGED <<id, host, pod>> /\ pc'[s] \in {pc[s], "failed"}
        /\ \A t \in Sandboxes \ {s} : pc'[t] = pc[t]
    BY <1>0, <1>10, Zenon DEF CallTypeOK, CallFails, ToPc, kernelVars
  <2>9. \A t \in Sandboxes : LinkKept(t)
    BY <2>1, Zenon DEF LinkKept, Linked, Unlinked, Up
  <2> QED
    BY <2>1, <2>9, LinkFrame, Zenon
<1>11. ASSUME Crash PROVE LinkInv'
  <2>1. UNCHANGED <<id, host, pod>> /\ \A t \in Sandboxes : pc'[t] \in {pc[t], "orphan"}
    BY <1>11, Zenon DEF Crash, kernelVars
  <2>9. \A t \in Sandboxes : LinkKept(t)
    BY <2>1, Zenon DEF LinkKept, Linked, Unlinked, Up
  <2> QED
    BY <2>1, <2>9, LinkFrame, Zenon
<1>12. ASSUME NEW s \in Sandboxes,
              StartTeardown(s) \/ RedirectDel(s) \/ StartIptables(s) \/ DeleteRule(s)
                \/ ListRules(s) \/ DeleteJump(s) \/ DeleteChain(s)
       PROVE LinkInv'
  <2>1. UNCHANGED <<pc, id, host, pod>>
    BY <1>12, Zenon DEF StartTeardown, RedirectDel, StartIptables, DeleteRule, ListRules,
                        DeleteJump, DeleteChain, kernelVars
  <2>9. \A t \in Sandboxes : LinkKept(t)
    BY <2>1, Zenon DEF LinkKept, Linked, Unlinked, Up
  <2> QED
    BY <2>1, <2>9, LinkFrame, Zenon
<1>13. CASE UNCHANGED vars
  <2>1. UNCHANGED <<pc, id, host, pod>>
    BY <1>13, Zenon DEF vars, procVars, kernelVars
  <2>9. \A t \in Sandboxes : LinkKept(t)
    BY <2>1, Zenon DEF LinkKept, Linked, Unlinked, Up
  <2> QED
    BY <2>1, <2>9, LinkFrame, Zenon
<1> QED
  BY <1>2, <1>3, <1>4, <1>6, <1>7, <1>8, <1>9, <1>10, <1>11, <1>12, <1>13, Zenon DEF Next

\* In the iptables loop of a Setup or of a Teardown a call is alone.
LEMMA AloneUp ==
  ASSUME MutexInv, NEW s \in Sandboxes, pc[s] \in Up
  PROVE \A t \in Sandboxes : td[t] \notin Down /\ (t # s => pc[t] \notin Up)
BY DEF MutexInv

LEMMA AloneDown ==
  ASSUME MutexInv, NEW s \in Sandboxes, td[s] \in Down
  PROVE \A t \in Sandboxes : pc[t] \notin Up /\ (t # s => td[t] \notin Down)
BY DEF MutexInv

\* A step of one sandbox's call leaves the calls, the configuration and the link of the
\* others alone.
OthersKept(s) ==
  \A t \in Sandboxes \ {s} : /\ pc'[t] = pc[t] /\ td'[t] = td[t] /\ rule'[t] = rule[t]
                             /\ addr'[t] = addr[t] /\ id'[t] = id[t] /\ pod'[t] = pod[t]

LEMMA Others ==
  ASSUME TypeOK, NEW s \in Sandboxes,
         \/ Inspect(s) \/ StartSetup(s) \/ NewChain(s) \/ AddJump(s) \/ AppendRule(s)
         \/ LinkList(s) \/ LinkAdd(s) \/ SetNamespace(s) \/ SetName(s) \/ RedirectPod(s)
         \/ RedirectBack(s) \/ StartTeardown(s) \/ RedirectDel(s) \/ LinkDelete(s) \/ StartIptables(s)
         \/ DeleteRule(s) \/ ListRules(s) \/ DeleteJump(s) \/ DeleteChain(s) \/ CallFails(s)
         \/ DeleteNamespace(s)
  PROVE OthersKept(s)
<1>0. CallTypeOK /\ KernelTypeOK
  BY Zenon DEF TypeOK
<1>1. CASE Inspect(s)
  BY <1>0, <1>1, Zenon DEF OthersKept, CallTypeOK, KernelTypeOK, Inspect, Get, ToPc, kernelVars
<1>2. CASE StartSetup(s)
  BY <1>0, <1>2, Zenon DEF OthersKept, CallTypeOK, KernelTypeOK, StartSetup, ToPc, kernelVars
<1>3. CASE NewChain(s)
  BY <1>0, <1>3 DEF OthersKept, CallTypeOK, KernelTypeOK, NewChain, ToPc
<1>4. CASE AddJump(s)
  BY <1>0, <1>4, Zenon DEF OthersKept, CallTypeOK, KernelTypeOK, AddJump, ToPc
<1>5. CASE AppendRule(s)
  BY <1>0, <1>5, Zenon DEF OthersKept, CallTypeOK, KernelTypeOK, AppendRule, ToPc
<1>6. CASE LinkList(s)
  BY <1>0, <1>6, Zenon DEF OthersKept, CallTypeOK, KernelTypeOK, LinkList, ToPc, kernelVars
<1>7. CASE LinkAdd(s)
  BY <1>0, <1>7, Zenon DEF OthersKept, CallTypeOK, KernelTypeOK, LinkAdd, ToPc
<1>8. CASE SetNamespace(s)
  BY <1>0, <1>8, Zenon DEF OthersKept, CallTypeOK, KernelTypeOK, SetNamespace, ToPc
<1>9. CASE SetName(s)
  BY <1>0, <1>9, Zenon DEF OthersKept, CallTypeOK, KernelTypeOK, SetName, ToPc
<1>10. CASE RedirectPod(s)
  BY <1>0, <1>10, Zenon DEF OthersKept, CallTypeOK, KernelTypeOK, RedirectPod, RedirectAdd, ToPc
<1>11. CASE RedirectBack(s)
  BY <1>0, <1>11, Zenon DEF OthersKept, CallTypeOK, KernelTypeOK, RedirectBack, RedirectAdd, ToPc
<1>12. CASE StartTeardown(s)
  BY <1>0, <1>12, Zenon DEF OthersKept, CallTypeOK, KernelTypeOK, StartTeardown, ToTd
<1>13. CASE RedirectDel(s)
  BY <1>0, <1>13, Zenon DEF OthersKept, CallTypeOK, KernelTypeOK, RedirectDel, ToTd
<1>14. CASE LinkDelete(s)
  BY <1>0, <1>14, Zenon DEF OthersKept, CallTypeOK, KernelTypeOK, LinkDelete, ToTd
<1>15. CASE StartIptables(s)
  BY <1>0, <1>15, Zenon DEF OthersKept, CallTypeOK, KernelTypeOK, StartIptables, ToTd, kernelVars
<1>16. CASE DeleteRule(s)
  BY <1>0, <1>16 DEF OthersKept, CallTypeOK, KernelTypeOK, DeleteRule, ToTd
<1>17. CASE ListRules(s)
  BY <1>0, <1>17 DEF OthersKept, CallTypeOK, KernelTypeOK, ListRules, NextRule, ToTd, kernelVars
<1>18. CASE DeleteJump(s)
  BY <1>0, <1>18, Zenon DEF OthersKept, CallTypeOK, KernelTypeOK, DeleteJump, ToTd
<1>19. CASE DeleteChain(s)
  BY <1>0, <1>19 DEF OthersKept, CallTypeOK, KernelTypeOK, DeleteChain, NextRule, ToTd
<1>20. CASE CallFails(s)
  BY <1>0, <1>20 DEF OthersKept, CallTypeOK, KernelTypeOK, CallFails, ToPc, ToTd, kernelVars
<1>21. CASE DeleteNamespace(s)
  BY <1>0, <1>21, Zenon DEF OthersKept, CallTypeOK, KernelTypeOK, DeleteNamespace, procVars
<1> QED
  BY <1>1, <1>2, <1>3, <1>4, <1>5, <1>6, <1>7, <1>8, <1>9, <1>10, <1>11,
     <1>12, <1>13, <1>14, <1>15, <1>16, <1>17, <1>18, <1>19, <1>20, <1>21, Zenon

\* Steps of Setup and of Teardown outside of the iptables loops, those that fail included.
SetupMove(s) ==
  /\ td'[s] = td[s]
  /\ pc[s] \notin {"new", "inspected"} => addr'[s] = addr[s] /\ id'[s] = id[s]
  /\ \/ pc[s] = "new" /\ pc'[s] = "inspected" /\ addr'[s] = addr[s]
     \/ pc[s] = "inspected" /\ pc'[s] = "chain"
     \/ pc[s] \in Past /\ pc'[s] \in Past
     \/ pc[s] = "add" /\ pc'[s] = "toomany"
     \/ pc'[s] = "failed" /\ addr'[s] = addr[s] /\ id'[s] = id[s]
TeardownMove(s) ==
  /\ pc'[s] = pc[s] /\ addr'[s] = addr[s] /\ id'[s] = id[s]
  /\ \/ td'[s] = td[s]
     \/ td[s] = "new" /\ td'[s] = "filters"
     \/ td[s] = "filters" /\ td'[s] = "link"
     \/ td[s] = "link" /\ td'[s] = "lock"
     \/ td[s] = "lock" /\ td'[s] = "delete"
     \/ td'[s] = "failed"
Idle(s) ==
  OthersKept(s) /\ chain' = chain /\ rule' = rule /\ (SetupMove(s) \/ TeardownMove(s))

\* The steps that do not change the chains, but for the end of iptablesTeardown's loop.
LEMMA IdleStep ==
  ASSUME TypeOK, NEW s \in Sandboxes,
         \/ Inspect(s) \/ StartSetup(s) \/ LinkList(s) \/ LinkAdd(s) \/ SetNamespace(s)
         \/ SetName(s) \/ RedirectPod(s) \/ RedirectBack(s) \/ StartTeardown(s) \/ RedirectDel(s)
         \/ LinkDelete(s) \/ StartIptables(s) \/ CallFails(s) \/ DeleteNamespace(s)
  PROVE Idle(s)
<1>0. CallTypeOK /\ KernelTypeOK
  BY Zenon DEF TypeOK
<1>1. OthersKept(s)
  BY Others, Zenon
<1>2. chain' = chain /\ rule' = rule
  BY Zenon DEF Inspect, StartSetup, LinkList, LinkAdd, SetNamespace, SetName, RedirectPod, RedirectBack, StartTeardown, RedirectDel, LinkDelete, StartIptables, CallFails, DeleteNamespace,
     RedirectAdd, procVars, kernelVars
<1>3. CASE Inspect(s)
  <2>1. SetupMove(s)
    BY <1>0, <1>3, Zenon DEF SetupMove, CallTypeOK, Past, Inspect, Get, ToPc
  <2> QED
    BY <1>1, <1>2, <2>1, Zenon DEF Idle
<1>4. CASE StartSetup(s)
  <2>1. SetupMove(s)
    BY <1>0, <1>4, Zenon DEF SetupMove, CallTypeOK, Past, StartSetup, ToPc
  <2> QED
    BY <1>1, <1>2, <2>1, Zenon DEF Idle
<1>5. CASE LinkList(s)
  <2>1. SetupMove(s)
    BY <1>0, <1>5, Zenon DEF SetupMove, CallTypeOK, Past, LinkList, ToPc
  <2> QED
    BY <1>1, <1>2, <2>1, Zenon DEF Idle
<1>6. CASE LinkAdd(s)
  <2>1. SetupMove(s)
    BY <1>0, <1>6, Zenon DEF SetupMove, CallTypeOK, Past, LinkAdd, ToPc
  <2> QED
    BY <1>1, <1>2, <2>1, Zenon DEF Idle
<1>7. CASE SetNamespace(s)
  <2>1. SetupMove(s)
    BY <1>0, <1>7, Zenon DEF SetupMove, CallTypeOK, Past, SetNamespace, ToPc
  <2> QED
    BY <1>1, <1>2, <2>1, Zenon DEF Idle
<1>8. CASE SetName(s)
  <2>1. SetupMove(s)
    BY <1>0, <1>8, Zenon DEF SetupMove, CallTypeOK, Past, SetName, ToPc
  <2> QED
    BY <1>1, <1>2, <2>1, Zenon DEF Idle
<1>9. CASE RedirectPod(s)
  <2>1. SetupMove(s)
    BY <1>0, <1>9, Zenon DEF SetupMove, CallTypeOK, Past, RedirectPod, RedirectAdd, ToPc
  <2> QED
    BY <1>1, <1>2, <2>1, Zenon DEF Idle
<1>10. CASE RedirectBack(s)
  <2>1. SetupMove(s)
    BY <1>0, <1>10, Zenon DEF SetupMove, CallTypeOK, Past, RedirectBack, RedirectAdd, ToPc
  <2> QED
    BY <1>1, <1>2, <2>1, Zenon DEF Idle
<1>11. CASE StartTeardown(s)
  <2>1. TeardownMove(s)
    BY <1>0, <1>11, Zenon DEF TeardownMove, CallTypeOK, Past, StartTeardown, ToTd
  <2> QED
    BY <1>1, <1>2, <2>1, Zenon DEF Idle
<1>12. CASE RedirectDel(s)
  <2>1. TeardownMove(s)
    BY <1>0, <1>12, Zenon DEF TeardownMove, CallTypeOK, Past, RedirectDel, ToTd
  <2> QED
    BY <1>1, <1>2, <2>1, Zenon DEF Idle
<1>13. CASE LinkDelete(s)
  <2>1. TeardownMove(s)
    BY <1>0, <1>13, Zenon DEF TeardownMove, CallTypeOK, Past, LinkDelete, ToTd
  <2> QED
    BY <1>1, <1>2, <2>1, Zenon DEF Idle
<1>14. CASE StartIptables(s)
  <2>1. TeardownMove(s)
    BY <1>0, <1>14, Zenon DEF TeardownMove, CallTypeOK, Past, StartIptables, ToTd
  <2> QED
    BY <1>1, <1>2, <2>1, Zenon DEF Idle
<1>15. CASE CallFails(s)
  <2>1. SetupMove(s) \/ TeardownMove(s)
    BY <1>0, <1>15, Zenon DEF SetupMove, TeardownMove, CallTypeOK, Past, CallFails, ToPc, ToTd
  <2> QED
    BY <1>1, <1>2, <2>1, Zenon DEF Idle
<1>16. CASE DeleteNamespace(s)
  <2>1. TeardownMove(s)
    BY <1>0, <1>16, Zenon DEF TeardownMove, CallTypeOK, Past, DeleteNamespace, procVars
  <2> QED
    BY <1>1, <1>2, <2>1, Zenon DEF Idle
<1> QED
  BY <1>3, <1>4, <1>5, <1>6, <1>7, <1>8, <1>9, <1>10, <1>11, <1>12, <1>13, <1>14, <1>15, <1>16, Zenon

\* iptablesTeardown goes on to the next chain, or ends.
NextAt(s) ==
  /\ rule'[s].up = rule[s].up
  /\ \/ rule[s].down = 1 /\ rule'[s].down = 2 /\ td'[s] = "delete"
     \/ rule[s].down = 2 /\ rule'[s].down = 2 /\ td'[s] = "done"

LEMMA NextRuleAt ==
  ASSUME TypeOK, NEW s \in Sandboxes, NextRule(s)
  PROVE NextAt(s)
<1>0. rule \in [Sandboxes -> [up : Rules, down : Rules]] /\ td \in [Sandboxes -> {"new", "filters", "link", "lock", "done", "failed"} \union Down]
  BY Zenon DEF TypeOK, CallTypeOK
<1>1. rule[s].down \in {1, 2}
  BY <1>0, Consts, Zenon
<1>2. CASE rule[s].down < Len(Chains)
  <2>1. rule[s].down < 2 /\ rule' = [rule EXCEPT ![s].down = rule[s].down + 1] /\ td' = [td EXCEPT ![s] = "delete"]
    BY <1>2, Consts, Zenon DEF NextRule, ToTd
  <2>2. rule[s].down = 1 /\ rule'[s].down = 2 /\ rule'[s].up = rule[s].up
    BY <1>0, <2>1, DownEdit, Zenon
  <2> QED
    BY <1>0, <2>1, <2>2, Zenon DEF NextAt
<1>3. CASE ~(rule[s].down < Len(Chains))
  <2>1. rule[s].down = 2 /\ rule' = rule /\ td' = [td EXCEPT ![s] = "done"]
    BY <1>1, <1>3, Consts DEF NextRule, ToTd
  <2> QED
    BY <1>0, <2>1, Zenon DEF NextAt
<1> QED
  BY <1>2, <1>3, Zenon

\* iptablesSetup goes on to the next chain, or ends, after its rule.
LEMMA AppendRuleAt ==
  ASSUME TypeOK, NEW s \in Sandboxes, AppendRule(s)
  PROVE /\ pc[s] = "rule" /\ UNCHANGED <<addr, id, td>> /\ rule'[s].down = rule[s].down
        /\ \/ rule[s].up = 1 /\ rule'[s].up = 2 /\ pc'[s] = "chain"
           \/ rule[s].up = 2 /\ rule'[s].up = 2 /\ pc'[s] = "list"
<1>0. rule \in [Sandboxes -> [up : Rules, down : Rules]] /\ CallTypeOK
  BY Zenon DEF TypeOK, CallTypeOK
<1>1. rule[s].up \in {1, 2} /\ pc[s] = "rule" /\ UNCHANGED <<addr, id, td>>
  BY <1>0, Consts, Zenon DEF AppendRule
<1>2. CASE rule[s].up < Len(Chains)
  <2>1. rule[s].up < 2 /\ rule' = [rule EXCEPT ![s].up = rule[s].up + 1] /\ pc' = [pc EXCEPT ![s] = "chain"]
    BY <1>2, Consts, Zenon DEF AppendRule, ToPc
  <2>2. rule[s].up = 1 /\ rule'[s].up = 2 /\ rule'[s].down = rule[s].down
    BY <1>0, <2>1, UpEdit, Zenon
  <2> QED
    BY <1>0, <1>1, <2>1, <2>2, Zenon DEF CallTypeOK
<1>3. CASE ~(rule[s].up < Len(Chains))
  <2>1. rule[s].up = 2 /\ rule' = rule /\ pc' = [pc EXCEPT ![s] = "list"]
    BY <1>1, <1>3, Consts DEF AppendRule, ToPc
  <2> QED
    BY <1>0, <1>1, <2>1, Zenon DEF CallTypeOK
<1> QED
  BY <1>2, <1>3, Zenon

\* What the other steps of the loops change of the call.
LEMMA NewChainAt ==
  ASSUME TypeOK, NEW s \in Sandboxes, NewChain(s)
  PROVE pc[s] = "chain" /\ UNCHANGED <<addr, id, td, rule>> /\ pc'[s] \in {"jump", "rule"}
BY Zenon DEF TypeOK, CallTypeOK, NewChain, ToPc

LEMMA AddJumpAt ==
  ASSUME TypeOK, NEW s \in Sandboxes, AddJump(s)
  PROVE pc[s] = "jump" /\ UNCHANGED <<addr, id, td, rule>> /\ pc'[s] = "rule"
BY Zenon DEF TypeOK, CallTypeOK, AddJump, ToPc

LEMMA DeleteRuleAt ==
  ASSUME TypeOK, NEW s \in Sandboxes, DeleteRule(s)
  PROVE /\ td[s] = "delete" /\ UNCHANGED <<addr, id, pc, rule>>
        /\ \/ Rule(s) \in chain[rule[s].down].rules /\ td'[s] = "list"
           \/ Rule(s) \notin chain[rule[s].down].rules /\ td'[s] = "failed" /\ chain' = chain
BY Zenon DEF TypeOK, CallTypeOK, DeleteRule, ToTd

LEMMA ListRulesAt ==
  ASSUME TypeOK, NEW s \in Sandboxes, ListRules(s)
  PROVE /\ td[s] = "list" /\ UNCHANGED <<addr, id, pc, chain>>
        /\ \/ chain[rule[s].down].rules # {} /\ NextAt(s)
           \/ chain[rule[s].down].rules = {} /\ td'[s] = "unjump" /\ rule' = rule
<1>1. td[s] = "list" /\ UNCHANGED <<addr, id, pc, chain>>
  BY Zenon DEF ListRules, kernelVars
<1>2. CASE Remaining(rule[s].down)
  BY <1>1, <1>2, NextRuleAt, Zenon DEF ListRules, Remaining
<1>3. CASE ~Remaining(rule[s].down)
  BY <1>1, <1>3, Zenon DEF ListRules, Remaining, ToTd, TypeOK, CallTypeOK
<1> QED
  BY <1>2, <1>3, Zenon

LEMMA DeleteJumpAt ==
  ASSUME TypeOK, NEW s \in Sandboxes, DeleteJump(s)
  PROVE td[s] = "unjump" /\ UNCHANGED <<addr, id, pc, rule>> /\ td'[s] = "unchain"
BY Zenon DEF TypeOK, CallTypeOK, DeleteJump, ToTd

LEMMA DeleteChainAt ==
  ASSUME TypeOK, ChainInv, NEW s \in Sandboxes, DeleteChain(s)
  PROVE /\ td[s] = "unchain" /\ UNCHANGED <<addr, id, pc>> /\ NextAt(s)
        /\ chain[rule[s].down].rules = {} /\ ~chain[rule[s].down].jump
<1>1. td[s] = "unchain" /\ UNCHANGED <<addr, id, pc>>
  BY Zenon DEF DeleteChain
<1>2. chain[rule[s].down].rules = {} /\ ~chain[rule[s].down].jump
  BY <1>1, Zenon DEF ChainInv
<1>3. NextRule(s)
  BY <1>2, Zenon DEF DeleteChain
<1> QED
  BY <1>1, <1>2, <1>3, NextRuleAt, Zenon

\* Every step is outside of the iptables loops, in one of them, a restart, or no step.
LEMMA NextCases ==
  ASSUME TypeOK, [Next]_vars
  PROVE \/ UNCHANGED vars \/ Crash
        \/ \E s \in Sandboxes : \/ Idle(s) \/ NewChain(s) \/ AddJump(s) \/ AppendRule(s)
                                \/ DeleteRule(s) \/ ListRules(s) \/ DeleteJump(s) \/ DeleteChain(s)
BY IdleStep, Zenon DEF Next

\* A restart leaves the node's chains and, but for where they are, the calls as they were.
LEMMA CrashAt ==
  ASSUME Crash
  PROVE /\ UNCHANGED <<addr, id, rule, chain, pod, host, seen>>
        /\ \A t \in Sandboxes : pc'[t] = (IF pc[t] = "new" THEN "new" ELSE "orphan")
        /\ \A t \in Sandboxes : td'[t] = (IF td[t] \in {"new", "done"} THEN td[t] ELSE "failed")
<1>1. UNCHANGED <<addr, id, rule, chain, pod, host, seen>>
  BY Zenon DEF Crash, kernelVars
<1>2. \A t \in Sandboxes : pc'[t] = (IF pc[t] = "new" THEN "new" ELSE "orphan")
  BY Zenon DEF Crash
<1>3. \A t \in Sandboxes : td'[t] = (IF td[t] \in {"new", "done"} THEN td[t] ELSE "failed")
  BY Zenon DEF Crash
<1> QED
  BY <1>1, <1>2, <1>3, Zenon

\* No step before the loops moves their counters.
LEMMA LoopStep ==
  ASSUME TypeOK, ChainInv, LoopInv, [Next]_vars
  PROVE LoopInv'
<1>1. ASSUME NEW s \in Sandboxes, Idle(s) PROVE LoopInv'
  BY <1>1, Zenon DEF LoopInv, Idle, OthersKept, SetupMove, TeardownMove, Past
<1>2. ASSUME NEW s \in Sandboxes, NewChain(s) \/ AddJump(s) PROVE LoopInv'
  BY <1>2, Others, NewChainAt, AddJumpAt, Zenon DEF LoopInv, OthersKept
<1>3. ASSUME NEW s \in Sandboxes, AppendRule(s) PROVE LoopInv'
  BY <1>3, Others, AppendRuleAt DEF LoopInv, OthersKept
<1>4. ASSUME NEW s \in Sandboxes, DeleteRule(s) \/ DeleteJump(s) PROVE LoopInv'
  BY <1>4, Others, DeleteRuleAt, DeleteJumpAt DEF LoopInv, OthersKept
<1>5. ASSUME NEW s \in Sandboxes, ListRules(s) \/ DeleteChain(s) PROVE LoopInv'
  BY <1>5, Others, ListRulesAt, DeleteChainAt DEF LoopInv, OthersKept, NextAt
<1>6. CASE Crash
  BY <1>6, CrashAt, Zenon DEF LoopInv
<1>7. CASE UNCHANGED vars
  BY <1>7, Zenon DEF LoopInv, vars, procVars
<1> QED
  BY <1>1, <1>2, <1>3, <1>4, <1>5, <1>6, <1>7, NextCases, Zenon

\* What ChainInv says of one sandbox.
ChainAt(s) ==
  /\ pc[s] \in {"jump", "rule"} => chain[rule[s].up].exists
  /\ pc[s] = "jump" => chain[rule[s].up].rules = {}
  /\ td[s] \in {"unjump", "unchain"} => chain[rule[s].down].rules = {}
  /\ td[s] = "unchain" => ~chain[rule[s].down].jump

\* A step in the iptables loop changes the chain it is at, with no other call at any chain.
LEMMA ChainFrame ==
  ASSUME ChainInv, NEW s \in Sandboxes, OthersKept(s), ChainAt(s)',
         \A t \in Sandboxes \ {s} : pc[t] \notin Up /\ td[t] \notin Down,
         \A r \in Rules : chain'[r].exists \/ chain'[r] = Absent
  PROVE ChainInv'
<1>1. ASSUME NEW t \in Sandboxes \ {s} PROVE ChainAt(t)'
  BY <1>1 DEF OthersKept, ChainAt, Up, Down
<1>2. \A t \in Sandboxes : ChainAt(t)'
  BY <1>1, Zenon
<1> QED
  BY <1>2, Zenon DEF ChainInv, ChainAt

\* The chains that the loops rely on: iptablesSetup finds or makes its chain and gives an
\* empty one its jump, iptablesTeardown removes the jump of a chain without rules.
LEMMA ChainStep ==
  ASSUME TypeOK, MutexInv, CallInv, ChainInv, [Next]_vars
  PROVE ChainInv'
<1>1. ASSUME NEW s \in Sandboxes, Idle(s) PROVE ChainInv'
  BY <1>1 DEF ChainInv, Idle, OthersKept, SetupMove, TeardownMove, Past
<1>2. ASSUME NEW s \in Sandboxes, NewChain(s) PROVE ChainInv'
  <2>1. \A t \in Sandboxes : td[t] \notin Down /\ (t # s => pc[t] \notin Up)
    BY <1>2, NewChainAt, AloneUp, Zenon DEF Up
  <2>2. \A r \in Rules : chain'[r].exists \/ chain'[r] = Absent
    BY <1>2, NewChainEffect DEF ChainInv
  <2>3. ChainAt(s)'
    BY <1>2, <2>1, NewChainEffect, NewChainAt DEF TypeOK, CallTypeOK, ChainInv, ChainAt, Absent, Down
  <2> QED
    BY <1>2, <2>1, <2>2, <2>3, Others, ChainFrame, Zenon
<1>3. ASSUME NEW s \in Sandboxes, AddJump(s) PROVE ChainInv'
  <2>1. \A t \in Sandboxes : td[t] \notin Down /\ (t # s => pc[t] \notin Up)
    BY <1>3, AddJumpAt, AloneUp, Zenon DEF Up
  <2>2. \A r \in Rules : chain'[r].exists \/ chain'[r] = Absent
    BY <1>3, AddJumpEffect, AddJumpAt DEF ChainInv
  <2>3. ChainAt(s)'
    BY <1>3, <2>1, AddJumpEffect, AddJumpAt DEF ChainInv, ChainAt, Down
  <2> QED
    BY <1>3, <2>1, <2>2, <2>3, Others, ChainFrame, Zenon
<1>4. ASSUME NEW s \in Sandboxes, AppendRule(s) PROVE ChainInv'
  <2>1. \A t \in Sandboxes : td[t] \notin Down /\ (t # s => pc[t] \notin Up)
    BY <1>4, AppendRuleAt, AloneUp, Zenon DEF Up
  <2>2. \A r \in Rules : chain'[r].exists \/ chain'[r] = Absent
    BY <1>4, AppendRuleEffect, AppendRuleAt DEF ChainInv
  <2>3. ChainAt(s)'
    BY <1>4, <2>1, AppendRuleAt DEF ChainAt, Down
  <2> QED
    BY <1>4, <2>1, <2>2, <2>3, Others, ChainFrame, Zenon
<1>5. ASSUME NEW s \in Sandboxes, DeleteRule(s) PROVE ChainInv'
  <2>1. \A t \in Sandboxes : pc[t] \notin Up /\ (t # s => td[t] \notin Down)
    BY <1>5, DeleteRuleAt, AloneDown, Zenon DEF Down
  <2>2. \A r \in Rules : chain'[r].exists \/ chain'[r] = Absent
    <3>1. CASE chain' = chain
      BY <3>1, Zenon DEF ChainInv
    <3>2. CASE Rule(s) \in chain[rule[s].down].rules
      BY <1>5, <3>2, DeleteRuleEffect DEF ChainInv, Absent
    <3> QED
      BY <1>5, <3>1, <3>2, DeleteRuleAt, Zenon
  <2>3. ChainAt(s)'
    BY <1>5, <2>1, DeleteRuleAt, Zenon DEF ChainAt, Up
  <2> QED
    BY <1>5, <2>1, <2>2, <2>3, Others, ChainFrame, Zenon
<1>6. ASSUME NEW s \in Sandboxes, ListRules(s) PROVE ChainInv'
  <2>1. \A t \in Sandboxes : pc[t] \notin Up /\ (t # s => td[t] \notin Down)
    BY <1>6, ListRulesAt, AloneDown, Zenon DEF Down
  <2>2. \A r \in Rules : chain'[r].exists \/ chain'[r] = Absent
    BY <1>6, ListRulesAt, Zenon DEF ChainInv
  <2>3. ChainAt(s)'
    BY <1>6, <2>1, ListRulesAt, Zenon DEF ChainAt, NextAt, Up
  <2> QED
    BY <1>6, <2>1, <2>2, <2>3, Others, ChainFrame, Zenon
<1>7. ASSUME NEW s \in Sandboxes, DeleteJump(s) PROVE ChainInv'
  <2>1. \A t \in Sandboxes : pc[t] \notin Up /\ (t # s => td[t] \notin Down)
    BY <1>7, DeleteJumpAt, AloneDown, Zenon DEF Down
  <2>2. \A r \in Rules : chain'[r].exists \/ chain'[r] = Absent
    <3>1. chain[rule[s].down].exists \/ chain'[rule[s].down] = Absent
      <4>1. CASE chain[rule[s].down] = Absent
        <5>1. chain'[rule[s].down] \in ChainType /\ ~chain'[rule[s].down].jump
              /\ chain'[rule[s].down].exists = FALSE /\ chain'[rule[s].down].rules = {}
          BY <1>7, <4>1, DeleteJumpEffect DEF Absent
        <5> QED
          BY <5>1, Zenon DEF ChainType, Absent
      <4> QED
        BY <1>7, <4>1, DeleteJumpEffect, Zenon DEF ChainInv
    <3> QED
      BY <1>7, <3>1, DeleteJumpEffect DEF ChainInv
  <2>3. ChainAt(s)'
    BY <1>7, <2>1, DeleteJumpAt, DeleteJumpEffect DEF ChainInv, ChainAt, Up
  <2> QED
    BY <1>7, <2>1, <2>2, <2>3, Others, ChainFrame, Zenon
<1>8. ASSUME NEW s \in Sandboxes, DeleteChain(s) PROVE ChainInv'
  <2>1. \A t \in Sandboxes : pc[t] \notin Up /\ (t # s => td[t] \notin Down)
    BY <1>8, DeleteChainAt, AloneDown, Zenon DEF Down
  <2>2. \A r \in Rules : chain'[r].exists \/ chain'[r] = Absent
    BY <1>8, DeleteChainAt, DeleteChainEffect, Zenon DEF ChainInv
  <2>3. ChainAt(s)'
    BY <1>8, <2>1, DeleteChainAt DEF ChainAt, NextAt, Up
  <2> QED
    BY <1>8, <2>1, <2>2, <2>3, Others, ChainFrame, Zenon
<1>9. CASE Crash
  BY <1>9, CrashAt, Zenon DEF ChainInv
<1>10. CASE UNCHANGED vars
  BY <1>10, Zenon DEF ChainInv, vars, procVars, kernelVars
<1> QED
  BY <1>1, <1>2, <1>3, <1>4, <1>5, <1>6, <1>7, <1>8, <1>9, <1>10, NextCases, Zenon

\* A step of one sandbox that keeps the rules of the others and adds at most its own.
LEMMA RuleFrame ==
  ASSUME TypeOK, RuleInv, NEW s \in Sandboxes, OthersKept(s),
         Rule(s)' = Rule(s) \/ addr[s] = None,
         \A t \in Sandboxes \ {s}, r \in Rules :
           Owned(t, r) /\ Rule(t) \in chain[r].rules => Rule(t) \in chain'[r].rules,
         \A r \in Rules : chain'[r].rules \subseteq chain[r].rules \union {Rule(s)'},
         \A r \in Rules : Owned(s, r)' => Rule(s)' \in chain'[r].rules,
         \A r \in Rules : Gone(s, r)' /\ Rule(s)' \in chain'[r].rules =>
                            \E t \in Sandboxes \ {s} : Rule(t) = Rule(s)'
  PROVE RuleInv'
<1>1. ASSUME NEW t \in Sandboxes \ {s}
      PROVE Rule(t)' = Rule(t) /\ \A r \in Rules : (Owned(t, r)' <=> Owned(t, r)) /\ (Gone(t, r)' <=> Gone(t, r))
  BY <1>1, Zenon DEF OthersKept, Rule, Owned, Gone
<1>2. ASSUME NEW t \in Sandboxes \ {s}, NEW r \in Rules, Owned(t, r)' PROVE Rule(t)' \in chain'[r].rules
  BY <1>1, <1>2 DEF RuleInv
<1>3. ASSUME NEW t \in Sandboxes \ {s}, NEW r \in Rules, Gone(t, r)', Rule(t)' \in chain'[r].rules
      PROVE \E u \in Sandboxes \ {t} : Rule(u)' = Rule(t)'
  <2>1. CASE Rule(t) = Rule(s)'
    BY <1>1, <2>1, Zenon
  <2>2. CASE Rule(t) \in chain[r].rules
    <3>1. PICK u \in Sandboxes \ {t} : Rule(u) = Rule(t)
      BY <1>1, <1>3, <2>2, Zenon DEF RuleInv
    <3>2. CASE u # s
      BY <1>1, <3>1, <3>2, Zenon
    <3>3. CASE u = s
      <4>1. Rule(t) \in Addrs \X (0..Cardinality(Sandboxes))
        BY <2>2, Zenon DEF TypeOK, KernelTypeOK, ChainType
      <4>2. addr[s] \in Addrs
        BY <3>1, <3>3, <4>1, Zenon DEF Rule
      <4> QED
        BY <1>1, <3>1, <3>3, <4>2, WorkerNodeAssumption, Zenon
    <3> QED
      BY <3>2, <3>3, Zenon
  <2> QED
    BY <1>1, <1>3, <2>1, <2>2, Zenon
<1>4. ASSUME NEW r \in Rules, Gone(s, r)', Rule(s)' \in chain'[r].rules
      PROVE \E u \in Sandboxes \ {s} : Rule(u)' = Rule(s)'
  BY <1>1, <1>4, Zenon
<1> QED
  BY <1>2, <1>3, <1>4 DEF RuleInv

\* Sandboxes that the process knows have different rules.
LEMMA RulesDiffer ==
  ASSUME IndexInv, NEW s \in Sandboxes, NEW t \in Sandboxes \ {s}, Known(s), Known(t)
  PROVE Rule(s) # Rule(t)
BY Zenon DEF IndexInv, Rule

\* The rules of a tunnel are in the chains from iptablesSetup to iptablesTeardown, and not
\* after that.
LEMMA RuleStep ==
  ASSUME TypeOK, MutexInv, IndexInv, CallInv, LoopInv, ChainInv, RuleInv, [Next]_vars
  PROVE RuleInv'
<1>0. CallTypeOK /\ KernelTypeOK
  BY Zenon DEF TypeOK
<1>1. \A s \in Sandboxes : rule[s].up \in {1, 2} /\ rule[s].down \in {1, 2}
  BY <1>0, Consts, Zenon DEF CallTypeOK
<1>2. ASSUME NEW s \in Sandboxes, Idle(s) PROVE RuleInv'
  <2>1. OthersKept(s) /\ chain' = chain /\ rule' = rule
    BY <1>2, Zenon DEF Idle
  <2>2. Rule(s)' = Rule(s) \/ addr[s] = None
    BY <1>2, Zenon DEF Idle, SetupMove, TeardownMove, Rule, CallInv
  <2>3. ASSUME NEW r \in Rules, Owned(s, r)' PROVE Owned(s, r) /\ Rule(s)' = Rule(s)
    <3>1. r \in {1, 2}
      BY Consts, Zenon
    <3>2. CASE SetupMove(s)
      BY <1>1, <2>1, <2>3, <3>1, <3>2 DEF SetupMove, Owned, LoopInv, Up, Past, Rule
    <3>3. CASE TeardownMove(s)
      BY <1>1, <2>1, <2>3, <3>1, <3>3, Zenon DEF TeardownMove, Owned, LoopInv, Up, Past, Rule
    <3> QED
      BY <1>2, <3>2, <3>3, Zenon DEF Idle
  <2>4. ASSUME NEW r \in Rules, Gone(s, r)' PROVE Gone(s, r) /\ Rule(s)' = Rule(s)
    <3>1. r \in {1, 2}
      BY Consts, Zenon
    <3>2. Gone(s, r)
      BY <1>1, <1>2, <2>1, <2>4, <3>1 DEF Idle, SetupMove, TeardownMove, Gone, LoopInv
    <3>3. pc[s] \in Linked
      BY <3>2, Zenon DEF Gone, CallInv, Down
    <3> QED
      BY <1>2, <3>2, <3>3, Zenon DEF Idle, SetupMove, TeardownMove, Rule, Linked
  <2>5. \A r \in Rules : Owned(s, r)' => Rule(s)' \in chain'[r].rules
    BY <2>1, <2>3, Zenon DEF RuleInv
  <2>6. \A r \in Rules : Gone(s, r)' /\ Rule(s)' \in chain'[r].rules =>
                           \E t \in Sandboxes \ {s} : Rule(t) = Rule(s)'
    BY <2>1, <2>4, Zenon DEF RuleInv
  <2>7. \A r \in Rules : chain'[r].rules \subseteq chain[r].rules \union {Rule(s)'}
    BY <2>1, Zenon
  <2>8. \A t \in Sandboxes \ {s}, r \in Rules :
          Owned(t, r) /\ Rule(t) \in chain[r].rules => Rule(t) \in chain'[r].rules
    BY <2>1, Zenon
  <2> QED
    BY <2>1, <2>2, <2>5, <2>6, <2>7, <2>8, RuleFrame, Zenon
<1>3. ASSUME NEW s \in Sandboxes, NewChain(s) \/ AddJump(s) PROVE RuleInv'
  <2>1. OthersKept(s)
    BY <1>3, Others, Zenon
  <2>2. Rule(s)' = Rule(s) /\ td' = td /\ rule' = rule /\ pc[s] \in Up /\ pc'[s] \in Up
    BY <1>3, NewChainAt, AddJumpAt, Zenon DEF Rule, Up
  <2>3. \A r \in Rules : chain'[r].rules = chain[r].rules
    BY <1>3, NewChainEffect, AddJumpEffect, Zenon
  <2>4. \A r \in Rules : (Owned(s, r)' => Owned(s, r)) /\ (Gone(s, r)' => Gone(s, r))
    BY <2>2, Zenon DEF Owned, Gone, Up, Past
  <2>5. \A r \in Rules : Owned(s, r)' => Rule(s)' \in chain'[r].rules
    BY <2>2, <2>3, <2>4, Zenon DEF RuleInv
  <2>6. \A r \in Rules : Gone(s, r)' /\ Rule(s)' \in chain'[r].rules =>
                           \E t \in Sandboxes \ {s} : Rule(t) = Rule(s)'
    BY <2>2, <2>3, <2>4, Zenon DEF RuleInv
  <2>7. \A r \in Rules : chain'[r].rules \subseteq chain[r].rules \union {Rule(s)'}
    BY <2>3, Zenon
  <2>8. \A t \in Sandboxes \ {s}, r \in Rules :
          Owned(t, r) /\ Rule(t) \in chain[r].rules => Rule(t) \in chain'[r].rules
    BY <2>3, Zenon
  <2> QED
    BY <2>1, <2>2, <2>5, <2>6, <2>7, <2>8, RuleFrame, Zenon
<1>4. ASSUME NEW s \in Sandboxes, AppendRule(s) PROVE RuleInv'
  <2>1. OthersKept(s)
    BY <1>4, Others, Zenon
  <2>2. Rule(s)' = Rule(s) /\ pc[s] = "rule" /\ td'[s] = td[s]
    BY <1>4, AppendRuleAt, Zenon DEF Rule
  <2>3. /\ rule[s].up \in Rules /\ chain'[rule[s].up].rules = chain[rule[s].up].rules \union {Rule(s)}
        /\ \A q \in Rules \ {rule[s].up} : chain'[q] = chain[q]
    BY <1>4, AppendRuleEffect, Zenon
  <2>4. td[s] \notin {"link", "lock", "done"} \union Down
    BY <2>2, Zenon DEF CallInv, Linked
  <2>5. ASSUME NEW r \in Rules, Owned(s, r)' PROVE Rule(s)' \in chain'[r].rules
    <3>1. r \in {1, 2}
      BY Consts, Zenon
    <3>2. CASE r = rule[s].up
      BY <2>2, <2>3, <3>2, Zenon
    <3>3. CASE r # rule[s].up
      <4>1. r < rule[s].up
        BY <1>1, <1>4, <2>5, <3>1, <3>3, AppendRuleAt DEF Owned, Up, Past
      <4>2. Owned(s, r)
        BY <2>2, <4>1, Zenon DEF Owned, Up
      <4> QED
        BY <2>2, <2>3, <3>3, <4>2 DEF RuleInv
    <3> QED
      BY <3>2, <3>3, Zenon
  <2>6. \A r \in Rules : ~Gone(s, r)'
    BY <2>2, <2>4, Zenon DEF Gone, Down
  <2>7. \A r \in Rules : chain'[r].rules \subseteq chain[r].rules \union {Rule(s)'}
    BY <2>2, <2>3, Zenon
  <2>8. \A t \in Sandboxes \ {s}, r \in Rules :
          Owned(t, r) /\ Rule(t) \in chain[r].rules => Rule(t) \in chain'[r].rules
    BY <2>3, Zenon
  <2> QED
    BY <2>1, <2>2, <2>5, <2>6, <2>7, <2>8, RuleFrame, Zenon
<1>5. ASSUME NEW s \in Sandboxes, DeleteRule(s) PROVE RuleInv'
  <2>1. OthersKept(s)
    BY <1>5, Others, Zenon
  <2>2. Rule(s)' = Rule(s) /\ pc' = pc /\ rule' = rule /\ td[s] = "delete"
    BY <1>5, DeleteRuleAt, Zenon DEF Rule
  <2>3. CASE Rule(s) \notin chain[rule[s].down].rules
    <3>1. chain' = chain /\ td'[s] = "failed"
      BY <1>5, <2>3, DeleteRuleAt, Zenon
    <3>2. pc[s] \notin Up
      BY <2>2, Zenon DEF CallInv, Linked, Down, Up
    <3>3. \A r \in Rules : ~Owned(s, r)' /\ ~Gone(s, r)'
      BY <2>2, <3>1, <3>2, Zenon DEF Owned, Gone
    <3>4. \A r \in Rules : chain'[r].rules \subseteq chain[r].rules \union {Rule(s)'}
      BY <3>1, Zenon
    <3>5. \A t \in Sandboxes \ {s}, r \in Rules :
            Owned(t, r) /\ Rule(t) \in chain[r].rules => Rule(t) \in chain'[r].rules
      BY <3>1, Zenon
    <3> QED
      BY <2>1, <2>2, <3>3, <3>4, <3>5, RuleFrame, Zenon
  <2>4. CASE Rule(s) \in chain[rule[s].down].rules
    <3>1. /\ rule[s].down \in Rules /\ chain'[rule[s].down].rules = chain[rule[s].down].rules \ {Rule(s)}
          /\ \A q \in Rules \ {rule[s].down} : chain'[q] = chain[q]
      BY <1>5, <2>4, DeleteRuleEffect, Zenon
    <3>2. td'[s] = "list"
      BY <1>5, <2>4, DeleteRuleAt, Zenon
    <3>3. ASSUME NEW r \in Rules, Owned(s, r)' PROVE Rule(s)' \in chain'[r].rules
      <4>1. pc[s] \notin Up
        BY <2>2, Zenon DEF CallInv, Linked, Down, Up
      <4>2. r \in {1, 2} /\ r > rule[s].down /\ Owned(s, r)
        BY <1>1, <2>2, <3>2, <3>3, <4>1, Consts DEF Owned
      <4> QED
        BY <1>1, <2>2, <3>1, <4>2 DEF RuleInv
    <3>4. ASSUME NEW r \in Rules, Gone(s, r)', Rule(s)' \in chain'[r].rules
          PROVE \E t \in Sandboxes \ {s} : Rule(t) = Rule(s)'
      <4>1. r # rule[s].down
        BY <2>2, <3>1, <3>4, Zenon
      <4>2. Gone(s, r)
        BY <1>1, <2>2, <3>2, <3>4, <4>1, Consts DEF Gone
      <4> QED
        BY <2>2, <3>1, <3>4, <4>1, <4>2, Zenon DEF RuleInv
    <3>5. \A r \in Rules : chain'[r].rules \subseteq chain[r].rules \union {Rule(s)'}
      BY <2>2, <3>1, Zenon
    <3>6. ASSUME NEW t \in Sandboxes \ {s}, NEW r \in Rules, Owned(t, r), Rule(t) \in chain[r].rules
          PROVE Rule(t) \in chain'[r].rules
      <4>1. Known(s) /\ Known(t)
        BY <2>2, <3>6, Zenon DEF CallInv, Owned, Up, Past, Known
      <4>2. Rule(s) # Rule(t)
        BY <4>1, RulesDiffer, Zenon
      <4> QED
        BY <3>1, <3>6, <4>2, Zenon
    <3> QED
      BY <2>1, <2>2, <3>3, <3>4, <3>5, <3>6, RuleFrame, Zenon
  <2> QED
    BY <2>3, <2>4, Zenon
<1>6. ASSUME NEW s \in Sandboxes, ListRules(s) \/ DeleteJump(s) \/ DeleteChain(s) PROVE RuleInv'
  <2>1. OthersKept(s)
    BY <1>6, Others, Zenon
  <2>2. Rule(s)' = Rule(s) /\ pc' = pc /\ td[s] \in {"list", "unjump", "unchain"}
    BY <1>6, ListRulesAt, DeleteJumpAt, DeleteChainAt, Zenon DEF Rule
  <2>3. \A r \in Rules : chain'[r].rules = chain[r].rules
    <3>1. CASE ListRules(s)
      BY <3>1, ListRulesAt, Zenon
    <3>2. CASE DeleteJump(s)
      BY <3>2, DeleteJumpEffect, Zenon
    <3>3. CASE DeleteChain(s)
      <4>1. chain[rule[s].down].rules = {} /\ ~chain[rule[s].down].jump
        BY <3>3, DeleteChainAt, Zenon
      <4>2. /\ rule[s].down \in Rules /\ chain'[rule[s].down] = Absent
            /\ \A q \in Rules \ {rule[s].down} : chain'[q] = chain[q]
        BY <3>3, <4>1, DeleteChainEffect, Zenon
      <4>3. chain'[rule[s].down].rules = chain[rule[s].down].rules
        BY <4>1, <4>2 DEF Absent
      <4> QED
        BY <4>2, <4>3, Zenon
    <3> QED
      BY <1>6, <3>1, <3>2, <3>3, Zenon
  <2>4. pc[s] \notin Up
    BY <2>2, Zenon DEF CallInv, Linked, Down, Up
  <2>5. NextAt(s) \/ (rule' = rule /\ td'[s] \in {"unjump", "unchain"})
    BY <1>6, ListRulesAt, DeleteJumpAt, DeleteChainAt, Zenon
  <2>6. \A r \in Rules : (Owned(s, r)' => Owned(s, r)) /\ (Gone(s, r)' => Gone(s, r))
    BY <1>1, <2>2, <2>4, <2>5, Consts DEF Owned, Gone, NextAt
  <2>7. \A r \in Rules : Owned(s, r)' => Rule(s)' \in chain'[r].rules
    BY <2>2, <2>3, <2>6, Zenon DEF RuleInv
  <2>8. \A r \in Rules : Gone(s, r)' /\ Rule(s)' \in chain'[r].rules =>
                           \E t \in Sandboxes \ {s} : Rule(t) = Rule(s)'
    BY <2>2, <2>3, <2>6, Zenon DEF RuleInv
  <2>9. \A r \in Rules : chain'[r].rules \subseteq chain[r].rules \union {Rule(s)'}
    BY <2>3, Zenon
  <2>10. \A t \in Sandboxes \ {s}, r \in Rules :
          Owned(t, r) /\ Rule(t) \in chain[r].rules => Rule(t) \in chain'[r].rules
    BY <2>3, Zenon
  <2> QED
    BY <2>1, <2>2, <2>7, <2>8, <2>9, <2>10, RuleFrame, Zenon
<1>7. CASE Crash
  <2>1. \A s \in Sandboxes : Rule(s)' = Rule(s)
    BY <1>7, CrashAt, Zenon DEF Rule
  <2>2. \A s \in Sandboxes, r \in Rules : ~Owned(s, r)' /\ (Gone(s, r)' => Gone(s, r))
    BY <1>7, CrashAt, Zenon DEF Owned, Gone, Up, Past
  <2> QED
    BY <1>7, <2>1, <2>2, CrashAt, Zenon DEF RuleInv
<1>8. CASE UNCHANGED vars
  BY <1>8 DEF RuleInv, Owned, Gone, Rule, vars, procVars, kernelVars
<1> QED
  BY <1>2, <1>3, <1>4, <1>5, <1>6, <1>7, <1>8, NextCases, Zenon

\* A step after which nothing has failed is not a failure or a restart.
LEMMA QuietBefore ==
  ASSUME TypeOK, [Next]_vars, Quiet'
  PROVE Quiet /\ ~Crash /\ \A s \in Sandboxes : ~CallFails(s)
<1>0. faults \in Nat /\ crashes \in Nat
  BY Bounds DEF TypeOK, CallTypeOK
<1>1. ASSUME NEW s \in Sandboxes, CallFails(s) PROVE FALSE
  BY <1>0, <1>1 DEF CallFails, Quiet
<1>2. ASSUME Crash PROVE FALSE
  BY <1>0, <1>2 DEF Crash, Quiet
<1>3. UNCHANGED <<case, faults, crashes>>
  BY <1>1, <1>2, Zenon DEF Next, vars, procVars, Inspect, StartSetup, NewChain, AddJump, AppendRule, LinkList, LinkAdd,
     SetNamespace, SetName, RedirectPod, RedirectBack, StartTeardown, RedirectDel, LinkDelete, StartIptables,
     DeleteRule, ListRules, DeleteJump, DeleteChain, DeleteNamespace, RedirectAdd
<1> QED
  BY <1>1, <1>2, <1>3, Zenon DEF Quiet

\* Without faults only a Setup without a free name, and then its Teardown, fail.
LEMMA QuietCallStep ==
  ASSUME TypeOK, CallInv, ChainInv, RuleInv, QuietInv, [Next]_vars, Quiet'
  PROVE \A t \in Sandboxes : QuietCall(t)'
<1>0. CallTypeOK /\ KernelTypeOK
  BY Zenon DEF TypeOK
<1>1. Quiet /\ ~Crash /\ \A s \in Sandboxes : QuietCall(s) /\ ~CallFails(s)
  BY QuietBefore, Zenon DEF QuietInv
<1>2. ASSUME NEW s \in Sandboxes, OthersKept(s), QuietCall(s)' PROVE \A t \in Sandboxes : QuietCall(t)'
  BY <1>1, <1>2, Zenon DEF OthersKept, QuietCall
<1>3. ASSUME NEW s \in Sandboxes, Inspect(s) PROVE \A t \in Sandboxes : QuietCall(t)'
  <2>1. OthersKept(s)
    BY <1>3, Others, Zenon
  <2>3. QuietCall(s)'
    BY <1>0, <1>1, <1>3, Zenon DEF CallTypeOK, KernelTypeOK, QuietCall, Ends, Inspect, ToPc, kernelVars
  <2> QED
    BY <1>2, <2>1, <2>3, Zenon
<1>4. ASSUME NEW s \in Sandboxes, StartSetup(s) PROVE \A t \in Sandboxes : QuietCall(t)'
  <2>1. OthersKept(s)
    BY <1>4, Others, Zenon
  <2>3. QuietCall(s)'
    BY <1>0, <1>1, <1>4, Zenon DEF CallTypeOK, KernelTypeOK, QuietCall, Ends, StartSetup, ToPc, kernelVars
  <2> QED
    BY <1>2, <2>1, <2>3, Zenon
<1>5. ASSUME NEW s \in Sandboxes, NewChain(s) PROVE \A t \in Sandboxes : QuietCall(t)'
  <2>1. OthersKept(s)
    BY <1>5, Others, Zenon
  <2>2. pod' = pod
    BY <1>5, Zenon DEF NewChain
  <2>3. QuietCall(s)'
    BY <1>1, <1>5, <2>2, NewChainAt, Zenon DEF QuietCall, Ends
  <2> QED
    BY <1>2, <2>1, <2>3, Zenon
<1>6. ASSUME NEW s \in Sandboxes, AddJump(s) PROVE \A t \in Sandboxes : QuietCall(t)'
  <2>1. OthersKept(s)
    BY <1>6, Others, Zenon
  <2>2. pod' = pod
    BY <1>6, Zenon DEF AddJump
  <2>3. QuietCall(s)'
    BY <1>1, <1>6, <2>2, AddJumpAt, Zenon DEF QuietCall, Ends
  <2> QED
    BY <1>2, <2>1, <2>3, Zenon
<1>7. ASSUME NEW s \in Sandboxes, AppendRule(s) PROVE \A t \in Sandboxes : QuietCall(t)'
  <2>1. OthersKept(s)
    BY <1>7, Others, Zenon
  <2>2. pod' = pod
    BY <1>7, Zenon DEF AppendRule
  <2>3. QuietCall(s)'
    BY <1>1, <1>7, <2>2, AppendRuleAt, Zenon DEF QuietCall, Ends
  <2> QED
    BY <1>2, <2>1, <2>3, Zenon
<1>8. ASSUME NEW s \in Sandboxes, LinkList(s) PROVE \A t \in Sandboxes : QuietCall(t)'
  <2>1. OthersKept(s)
    BY <1>8, Others, Zenon
  <2>3. QuietCall(s)'
    BY <1>0, <1>1, <1>8, Zenon DEF CallTypeOK, KernelTypeOK, QuietCall, Ends, LinkList, ToPc, kernelVars
  <2> QED
    BY <1>2, <2>1, <2>3, Zenon
<1>9. ASSUME NEW s \in Sandboxes, LinkAdd(s) PROVE \A t \in Sandboxes : QuietCall(t)'
  <2>1. OthersKept(s)
    BY <1>9, Others, Zenon
  <2>3. QuietCall(s)'
    BY <1>0, <1>1, <1>9 DEF CallTypeOK, KernelTypeOK, QuietCall, Ends, LinkAdd, ToPc
  <2> QED
    BY <1>2, <2>1, <2>3, Zenon
<1>10. ASSUME NEW s \in Sandboxes, SetNamespace(s) PROVE \A t \in Sandboxes : QuietCall(t)'
  <2>1. OthersKept(s)
    BY <1>10, Others, Zenon
  <2>3. QuietCall(s)'
    BY <1>0, <1>1, <1>10, Zenon DEF CallTypeOK, KernelTypeOK, QuietCall, Ends, SetNamespace, ToPc
  <2> QED
    BY <1>2, <2>1, <2>3, Zenon
<1>11. ASSUME NEW s \in Sandboxes, SetName(s) PROVE \A t \in Sandboxes : QuietCall(t)'
  <2>1. OthersKept(s)
    BY <1>11, Others, Zenon
  <2>3. QuietCall(s)'
    BY <1>0, <1>1, <1>11, Zenon DEF CallTypeOK, KernelTypeOK, QuietCall, Ends, SetName, ToPc
  <2> QED
    BY <1>2, <2>1, <2>3, Zenon
<1>12. ASSUME NEW s \in Sandboxes, RedirectPod(s) PROVE \A t \in Sandboxes : QuietCall(t)'
  <2>1. OthersKept(s)
    BY <1>12, Others, Zenon
  <2>3. QuietCall(s)'
    BY <1>0, <1>1, <1>12 DEF CallTypeOK, KernelTypeOK, QuietCall, Ends, RedirectPod, RedirectAdd, ToPc
  <2> QED
    BY <1>2, <2>1, <2>3, Zenon
<1>13. ASSUME NEW s \in Sandboxes, RedirectBack(s) PROVE \A t \in Sandboxes : QuietCall(t)'
  <2>1. OthersKept(s)
    BY <1>13, Others, Zenon
  <2>3. QuietCall(s)'
    BY <1>0, <1>1, <1>13 DEF CallTypeOK, KernelTypeOK, QuietCall, Ends, RedirectBack, RedirectAdd, ToPc
  <2> QED
    BY <1>2, <2>1, <2>3, Zenon
<1>14. ASSUME NEW s \in Sandboxes, StartTeardown(s) PROVE \A t \in Sandboxes : QuietCall(t)'
  <2>1. OthersKept(s)
    BY <1>14, Others, Zenon
  <2>3. QuietCall(s)'
    BY <1>0, <1>1, <1>14, Zenon DEF CallTypeOK, KernelTypeOK, QuietCall, Ends, Quiet, StartTeardown, ToTd
  <2> QED
    BY <1>2, <2>1, <2>3, Zenon
<1>15. ASSUME NEW s \in Sandboxes, RedirectDel(s) PROVE \A t \in Sandboxes : QuietCall(t)'
  <2>1. OthersKept(s)
    BY <1>15, Others, Zenon
  <2>3. QuietCall(s)'
    BY <1>0, <1>1, <1>15, Zenon DEF CallTypeOK, KernelTypeOK, QuietCall, Ends, RedirectDel, ToTd
  <2> QED
    BY <1>2, <2>1, <2>3, Zenon
<1>16. ASSUME NEW s \in Sandboxes, LinkDelete(s) PROVE \A t \in Sandboxes : QuietCall(t)'
  <2>1. OthersKept(s)
    BY <1>16, Others, Zenon
  <2>3. QuietCall(s)'
    BY <1>0, <1>1, <1>16, Zenon DEF CallTypeOK, KernelTypeOK, QuietCall, Ends, LinkDelete, ToTd
  <2> QED
    BY <1>2, <2>1, <2>3, Zenon
<1>17. ASSUME NEW s \in Sandboxes, StartIptables(s) PROVE \A t \in Sandboxes : QuietCall(t)'
  <2>1. OthersKept(s)
    BY <1>17, Others, Zenon
  <2>3. QuietCall(s)'
    BY <1>0, <1>1, <1>17, Zenon DEF CallTypeOK, KernelTypeOK, QuietCall, Ends, StartIptables, ToTd, kernelVars
  <2> QED
    BY <1>2, <2>1, <2>3, Zenon
<1>18. ASSUME NEW s \in Sandboxes, DeleteRule(s) PROVE \A t \in Sandboxes : QuietCall(t)'
  <2>1. OthersKept(s)
    BY <1>18, Others, Zenon
  <2>2. pod' = pod /\ td[s] = "delete" /\ pc' = pc
    BY <1>18, Zenon DEF DeleteRule
  <2>3. pc[s] = "up"
    BY <1>1, <2>2, Zenon DEF QuietCall, CallInv, Linked, Down, Ends
  <2>4. rule[s].down \in Rules /\ rule[s].down >= rule[s].down
    BY <1>0, Consts DEF CallTypeOK
  <2>5. Rule(s) \in chain[rule[s].down].rules
    BY <2>2, <2>3, <2>4, Zenon DEF RuleInv, Owned, Past
  <2>6. QuietCall(s)'
    BY <1>1, <1>18, <2>2, <2>5, DeleteRuleAt, Zenon DEF QuietCall
  <2> QED
    BY <1>2, <2>1, <2>6, Zenon
<1>19. ASSUME NEW s \in Sandboxes, ListRules(s) PROVE \A t \in Sandboxes : QuietCall(t)'
  <2>1. OthersKept(s)
    BY <1>19, Others, Zenon
  <2>2. pod' = pod
    BY <1>19, Zenon DEF ListRules, kernelVars
  <2>3. QuietCall(s)'
    BY <1>1, <1>19, <2>2, ListRulesAt, Zenon DEF QuietCall, NextAt
  <2> QED
    BY <1>2, <2>1, <2>3, Zenon
<1>20. ASSUME NEW s \in Sandboxes, DeleteJump(s) PROVE \A t \in Sandboxes : QuietCall(t)'
  <2>1. OthersKept(s)
    BY <1>20, Others, Zenon
  <2>2. pod' = pod
    BY <1>20, Zenon DEF DeleteJump, kernelVars
  <2>3. QuietCall(s)'
    BY <1>1, <1>20, <2>2, DeleteJumpAt, Zenon DEF QuietCall, NextAt
  <2> QED
    BY <1>2, <2>1, <2>3, Zenon
<1>21. ASSUME NEW s \in Sandboxes, DeleteChain(s) PROVE \A t \in Sandboxes : QuietCall(t)'
  <2>1. OthersKept(s)
    BY <1>21, Others, Zenon
  <2>2. pod' = pod
    BY <1>21, Zenon DEF DeleteChain, kernelVars
  <2>3. QuietCall(s)'
    BY <1>1, <1>21, <2>2, DeleteChainAt, Zenon DEF QuietCall, NextAt
  <2> QED
    BY <1>2, <2>1, <2>3, Zenon
<1>22. ASSUME NEW s \in Sandboxes, DeleteNamespace(s) PROVE \A t \in Sandboxes : QuietCall(t)'
  <2>1. OthersKept(s)
    BY <1>22, Others, Zenon
  <2>3. QuietCall(s)'
    BY <1>0, <1>1, <1>22, Zenon DEF CallTypeOK, KernelTypeOK, QuietCall, Ends, DeleteNamespace, procVars
  <2> QED
    BY <1>2, <2>1, <2>3, Zenon
<1>23. CASE UNCHANGED vars
  BY <1>1, <1>23, Zenon DEF QuietCall, vars, procVars, kernelVars
<1> QED
  BY <1>1, <1>3, <1>4, <1>5, <1>6, <1>7, <1>8, <1>9, <1>10, <1>11, <1>12,
     <1>13, <1>14, <1>15, <1>16, <1>17, <1>18, <1>19, <1>20, <1>21, <1>22, <1>23, Zenon DEF Next

\* A rule keeps its owner when the sandbox that moves keeps its rules or removes them.
LEMMA OwnerFrame ==
  ASSUME NEW s \in Sandboxes, OthersKept(s), NEW r \in Rules,
         \A x \in chain[r].rules : HasOwner(x, r),
         \A x \in chain'[r].rules : x \in chain[r].rules \/ (x = Rule(s)' /\ Owned(s, r)'),
         Owned(s, r) \/ pc[s] = "toomany" =>
           Rule(s)' = Rule(s) /\ (Owned(s, r)' \/ pc'[s] = "toomany" \/ Rule(s) \notin chain'[r].rules)
  PROVE \A x \in chain'[r].rules : HasOwner(x, r)'
<1>1. ASSUME NEW t \in Sandboxes \ {s}
      PROVE Rule(t)' = Rule(t) /\ pc'[t] = pc[t] /\ (Owned(t, r)' <=> Owned(t, r))
  BY <1>1, Zenon DEF OthersKept, Rule, Owned
<1>2. ASSUME NEW x \in chain'[r].rules, x \in chain[r].rules PROVE HasOwner(x, r)'
  <2>1. PICK t \in Sandboxes : x = Rule(t) /\ (Owned(t, r) \/ pc[t] = "toomany")
    BY <1>2, Zenon DEF HasOwner
  <2>2. CASE t # s
    BY <1>1, <2>1, <2>2, Zenon DEF HasOwner
  <2>3. CASE t = s
    BY <2>1, <2>3, Zenon DEF HasOwner
  <2> QED
    BY <2>2, <2>3, Zenon
<1>3. ASSUME NEW x \in chain'[r].rules, x = Rule(s)', Owned(s, r)' PROVE HasOwner(x, r)'
  BY <1>3, Zenon DEF HasOwner
<1> QED
  BY <1>2, <1>3, Zenon

\* Without faults every rule in the chains is one that a Setup added for a sandbox that
\* Teardown has not come to.
LEMMA OwnerStep ==
  ASSUME TypeOK, CallInv, LoopInv, ChainInv, RuleInv, QuietInv, [Next]_vars, Quiet'
  PROVE \A r \in Rules : \A x \in chain'[r].rules : HasOwner(x, r)'
<1>0. CallTypeOK /\ KernelTypeOK
  BY Zenon DEF TypeOK
<1>1. /\ Quiet /\ ~Crash /\ \A s \in Sandboxes : QuietCall(s) /\ QuietCall(s)'
      /\ \A r \in Rules : \A x \in chain[r].rules : HasOwner(x, r)
  BY QuietBefore, QuietCallStep, Zenon DEF QuietInv
<1>2. \A s \in Sandboxes : rule[s].up \in {1, 2} /\ rule[s].down \in {1, 2}
  BY <1>0, Consts, Zenon DEF CallTypeOK
<1>3. ASSUME NEW s \in Sandboxes, Idle(s), NEW r \in Rules PROVE \A x \in chain'[r].rules : HasOwner(x, r)'
  <2>1. OthersKept(s) /\ chain' = chain /\ rule' = rule
    BY <1>3, Zenon DEF Idle
  <2>2. r \in {1, 2} /\ QuietCall(s) /\ QuietCall(s)'
    BY <1>1, Consts, Zenon
  <2>3. ASSUME SetupMove(s), Owned(s, r) \/ pc[s] = "toomany"
        PROVE Rule(s)' = Rule(s) /\ (Owned(s, r)' \/ pc'[s] = "toomany")
    BY <2>1, <2>2, <2>3, Zenon DEF SetupMove, Owned, QuietCall, Rule, Up, Past
  <2>4. ASSUME TeardownMove(s), Owned(s, r) \/ pc[s] = "toomany"
        PROVE Rule(s)' = Rule(s) /\ (Owned(s, r)' \/ pc'[s] = "toomany")
    BY <1>2, <2>1, <2>2, <2>4 DEF TeardownMove, Owned, QuietCall, LoopInv, Rule, Up, Past
  <2> QED
    BY <1>1, <1>3, <2>1, <2>3, <2>4, OwnerFrame, Zenon DEF Idle
<1>4. ASSUME NEW s \in Sandboxes, NewChain(s) \/ AddJump(s), NEW r \in Rules
      PROVE \A x \in chain'[r].rules : HasOwner(x, r)'
  <2>1. OthersKept(s) /\ chain'[r].rules = chain[r].rules
    BY <1>4, Others, NewChainEffect, AddJumpEffect, Zenon
  <2>2. Rule(s)' = Rule(s) /\ td' = td /\ rule' = rule /\ pc[s] \in Up /\ pc'[s] \in Up
    BY <1>4, NewChainAt, AddJumpAt, Zenon DEF Rule, Up
  <2>3. Owned(s, r) => Owned(s, r)'
    BY <2>2, Zenon DEF Owned, Up, Past
  <2> QED
    BY <1>1, <2>1, <2>2, <2>3, OwnerFrame, Zenon DEF Up
<1>5. ASSUME NEW s \in Sandboxes, AppendRule(s), NEW r \in Rules
      PROVE \A x \in chain'[r].rules : HasOwner(x, r)'
  <2>1. Rule(s)' = Rule(s) /\ pc[s] = "rule" /\ td'[s] = td[s]
    BY <1>5, AppendRuleAt, Zenon DEF Rule
  <2>2. td[s] = "new"
    BY <1>1, <2>1, Zenon DEF QuietCall, Ends
  <2>3. \A x \in chain'[r].rules : x \in chain[r].rules \/ (x = Rule(s) /\ r = rule[s].up)
    BY <1>5, AppendRuleEffect, Zenon
  <2>4. r \in {1, 2} /\ (r = rule[s].up => Owned(s, r)')
    BY <1>2, <1>5, <2>1, <2>2, AppendRuleAt, Consts DEF Owned, Up, Past
  <2>5. Owned(s, r) => Owned(s, r)'
    BY <1>2, <1>5, <2>1, <2>2, <2>4, AppendRuleAt DEF Owned, Up, Past
  <2>6. OthersKept(s)
    BY <1>5, Others, Zenon
  <2> QED
    BY <1>1, <2>1, <2>3, <2>4, <2>5, <2>6, OwnerFrame, Zenon
<1>6. ASSUME NEW s \in Sandboxes, DeleteRule(s), NEW r \in Rules
      PROVE \A x \in chain'[r].rules : HasOwner(x, r)'
  <2>1. Rule(s)' = Rule(s) /\ td[s] = "delete" /\ pc' = pc /\ rule' = rule
    BY <1>6, DeleteRuleAt, Zenon DEF Rule
  <2>2. pc[s] = "up"
    BY <1>1, <2>1, Zenon DEF QuietCall, CallInv, Linked, Down, Ends
  <2>3. Rule(s) \in chain[rule[s].down].rules /\ td'[s] = "list"
    BY <1>1, <1>6, <2>1, <2>2, DeleteRuleAt, Zenon DEF QuietCall
  <2>4. /\ rule[s].down \in Rules /\ chain'[rule[s].down].rules = chain[rule[s].down].rules \ {Rule(s)}
        /\ \A q \in Rules \ {rule[s].down} : chain'[q] = chain[q]
    BY <1>6, <2>3, DeleteRuleEffect, Zenon
  <2>5. r \in {1, 2} /\ (Owned(s, r) /\ r # rule[s].down => Owned(s, r)')
    BY <1>2, <2>1, <2>2, <2>3, Consts DEF Owned, Up, Past
  <2>6. OthersKept(s)
    BY <1>6, Others, Zenon
  <2>7. \A x \in chain'[r].rules : x \in chain[r].rules
    BY <2>4, Zenon
  <2>8. r = rule[s].down => Rule(s) \notin chain'[r].rules
    BY <2>4, Zenon
  <2> QED
    BY <1>1, <2>1, <2>2, <2>5, <2>6, <2>7, <2>8, OwnerFrame, Zenon
<1>7. ASSUME NEW s \in Sandboxes, ListRules(s) \/ DeleteJump(s) \/ DeleteChain(s), NEW r \in Rules
      PROVE \A x \in chain'[r].rules : HasOwner(x, r)'
  <2>1. OthersKept(s)
    BY <1>7, Others, Zenon
  <2>2. Rule(s)' = Rule(s) /\ pc' = pc /\ td[s] \in {"list", "unjump", "unchain"}
    BY <1>7, ListRulesAt, DeleteJumpAt, DeleteChainAt, Zenon DEF Rule
  <2>3. chain'[r].rules \subseteq chain[r].rules
    <3>1. CASE ListRules(s)
      BY <3>1, ListRulesAt, Zenon
    <3>2. CASE DeleteJump(s)
      BY <3>2, DeleteJumpEffect, Zenon
    <3>3. CASE DeleteChain(s)
      <4>1. chain[rule[s].down].rules = {} /\ ~chain[rule[s].down].jump
        BY <3>3, DeleteChainAt, Zenon
      <4>2. /\ rule[s].down \in Rules /\ chain'[rule[s].down] = Absent
            /\ \A q \in Rules \ {rule[s].down} : chain'[q] = chain[q]
        BY <3>3, <4>1, DeleteChainEffect, Zenon
      <4> QED
        BY <4>2 DEF Absent
    <3> QED
      BY <1>7, <3>1, <3>2, <3>3, Zenon
  <2>4. pc[s] = "up"
    BY <1>1, <2>2, Zenon DEF QuietCall, CallInv, Linked, Down, Ends
  <2>5. NextAt(s) \/ (rule' = rule /\ td'[s] \in {"unjump", "unchain"})
    BY <1>7, ListRulesAt, DeleteJumpAt, DeleteChainAt, Zenon
  <2>6. Owned(s, r) => Owned(s, r)'
    BY <1>2, <2>2, <2>4, <2>5, Consts DEF Owned, NextAt, Up, Past
  <2> QED
    BY <1>1, <2>1, <2>2, <2>3, <2>4, <2>6, OwnerFrame, Zenon
<1>8. CASE UNCHANGED vars
  <2>1. UNCHANGED <<pc, td, rule, addr, id, chain>>
    BY <1>8, Zenon DEF vars, procVars, kernelVars
  <2> QED
    BY <1>1, <2>1 DEF HasOwner, Owned, Rule
<1> QED
  BY <1>1, <1>3, <1>4, <1>5, <1>6, <1>7, <1>8, NextCases, Zenon

\* A chain is in use as before when the step is not one at that chain.
LEMMA InUseFrame ==
  ASSUME NEW s \in Sandboxes, OthersKept(s), NEW r \in Rules, InUse(r), chain'[r] = chain[r],
         pc[s] \in {"jump", "rule"} /\ rule[s].up = r => pc'[s] = pc[s] /\ rule'[s].up = r,
         td[s] \in {"list", "unjump", "unchain"} /\ rule[s].down = r => td'[s] = td[s] /\ rule'[s].down = r
  PROVE InUse(r)'
<1>1. ASSUME NEW at \in SUBSET {"jump", "rule"}, SetupAt(at, r)
      PROVE \E t \in Sandboxes : pc'[t] \in at /\ rule'[t].up = r
  BY <1>1, Zenon DEF SetupAt, OthersKept
<1>2. ASSUME NEW at \in SUBSET {"list", "unjump", "unchain"}, TeardownAt(at, r)
      PROVE \E t \in Sandboxes : td'[t] \in at /\ rule'[t].down = r
  BY <1>2, Zenon DEF TeardownAt, OthersKept
<1>3. /\ SetupAt({"jump"}, r) => SetupAt({"jump"}, r)'
      /\ SetupAt({"jump", "rule"}, r) => SetupAt({"jump", "rule"}, r)'
  BY <1>1, Zenon DEF SetupAt
<1>4. /\ TeardownAt({"unchain"}, r) => TeardownAt({"unchain"}, r)'
      /\ TeardownAt({"list", "unjump", "unchain"}, r) => TeardownAt({"list", "unjump", "unchain"}, r)'
  BY <1>2, Zenon DEF TeardownAt
<1> QED
  BY <1>3, <1>4, Zenon DEF InUse

\* Without faults a chain with a rule in it is jumped to, and one without is deleted by the
\* Teardown that took its last rule.
LEMMA InUseStep ==
  ASSUME TypeOK, MutexInv, CallInv, ChainInv, RuleInv, QuietInv, [Next]_vars, Quiet',
         NEW r \in Rules, chain'[r].exists
  PROVE InUse(r)'
<1>0. CallTypeOK /\ KernelTypeOK
  BY Zenon DEF TypeOK
<1>1. /\ Quiet /\ ~Crash /\ \A s \in Sandboxes : QuietCall(s) /\ QuietCall(s)'
      /\ \A q \in Rules : chain[q].exists => InUse(q)
  BY QuietBefore, QuietCallStep, Zenon DEF QuietInv
<1>2. ASSUME NEW s \in Sandboxes, Idle(s) PROVE InUse(r)'
  <2>1. OthersKept(s) /\ chain' = chain /\ rule' = rule /\ QuietCall(s)'
    BY <1>1, <1>2, Zenon DEF Idle
  <2>2. pc[s] \in {"jump", "rule"} => pc'[s] = pc[s]
    BY <1>2, <2>1, Zenon DEF Idle, SetupMove, TeardownMove, QuietCall, Past
  <2>3. td[s] \in {"list", "unjump", "unchain"} => td'[s] = td[s]
    BY <1>2, <2>1, Zenon DEF Idle, SetupMove, TeardownMove, QuietCall, CallInv, Linked, Down
  <2> QED
    BY <1>1, <2>1, <2>2, <2>3, InUseFrame, Zenon
<1>3. ASSUME NEW s \in Sandboxes, NewChain(s) PROVE InUse(r)'
  <2>1. pc[s] = "chain" /\ rule' = rule /\ OthersKept(s) /\ UNCHANGED td
    BY <1>3, NewChainAt, Others, Zenon
  <2>2. \A t \in Sandboxes : td[t] \notin Down
    BY <2>1, AloneUp, Zenon DEF Up
  <2>3. CASE chain'[r] = chain[r]
    BY <1>1, <2>1, <2>2, <2>3, InUseFrame, Zenon DEF Down
  <2>4. CASE r = rule[s].up /\ pc' = [pc EXCEPT ![s] = "jump"]
    <3>1. pc'[s] = "jump" /\ rule'[s].up = r
      BY <1>0, <2>1, <2>4, Zenon DEF CallTypeOK
    <3> QED
      BY <3>1, Zenon DEF InUse, SetupAt
  <2> QED
    BY <1>3, <2>3, <2>4, NewChainEffect, Zenon
<1>4. ASSUME NEW s \in Sandboxes, AddJump(s) PROVE InUse(r)'
  <2>1. pc[s] = "jump" /\ pc'[s] = "rule" /\ rule' = rule /\ OthersKept(s) /\ UNCHANGED td
    BY <1>4, AddJumpAt, Others, Zenon
  <2>2. \A t \in Sandboxes : td[t] \notin Down
    BY <2>1, AloneUp, Zenon DEF Up
  <2>3. CASE r # rule[s].up
    <3>1. chain'[r] = chain[r]
      BY <1>4, <2>3, AddJumpEffect, Zenon
    <3> QED
      BY <1>1, <2>1, <2>2, <2>3, <3>1, InUseFrame, Zenon DEF Down
  <2>4. CASE r = rule[s].up
    <3>1. chain'[r].jump
      BY <1>4, <2>4, AddJumpEffect, Zenon
    <3> QED
      BY <2>1, <2>4, <3>1, Zenon DEF InUse, SetupAt
  <2> QED
    BY <2>3, <2>4, Zenon
<1>5. ASSUME NEW s \in Sandboxes, AppendRule(s) PROVE InUse(r)'
  <2>1. pc[s] = "rule" /\ rule'[s].down = rule[s].down /\ UNCHANGED td /\ OthersKept(s)
    BY <1>5, AppendRuleAt, Others, Zenon
  <2>2. \A t \in Sandboxes : td[t] \notin Down /\ (t # s => pc[t] \notin Up)
    BY <2>1, AloneUp, Zenon DEF Up
  <2>3. CASE r # rule[s].up
    <3>1. chain'[r] = chain[r]
      BY <1>5, <2>3, AppendRuleEffect, Zenon
    <3> QED
      BY <1>1, <2>1, <2>2, <2>3, <3>1, InUseFrame, Zenon DEF Down
  <2>4. CASE r = rule[s].up
    <3>1. /\ chain'[r].jump = chain[r].jump /\ chain'[r].exists = chain[r].exists
          /\ chain'[r].rules = chain[r].rules \union {Rule(s)}
      BY <1>5, <2>4, AppendRuleEffect, Zenon
    <3>2. InUse(r)
      BY <1>1, <3>1, Zenon
    <3>3. chain[r].jump
      BY <2>1, <2>2, <3>2, Zenon DEF InUse, SetupAt, TeardownAt, Up, Down
    <3> QED
      BY <3>1, <3>3, Zenon DEF InUse
  <2> QED
    BY <2>3, <2>4, Zenon
<1>6. ASSUME NEW s \in Sandboxes, DeleteRule(s) PROVE InUse(r)'
  <2>1. td[s] = "delete" /\ UNCHANGED <<pc, rule>> /\ OthersKept(s)
    BY <1>6, DeleteRuleAt, Others, Zenon
  <2>2. \A t \in Sandboxes : pc[t] \notin Up /\ (t # s => td[t] \notin Down)
    BY <2>1, AloneDown, Zenon DEF Down
  <2>3. Rule(s) \in chain[rule[s].down].rules /\ td'[s] = "list"
    <3>1. pc[s] = "up"
      BY <1>1, <2>1, Zenon DEF QuietCall, CallInv, Linked, Down, Ends
    <3> QED
      BY <1>1, <1>6, <2>1, <3>1, DeleteRuleAt, Zenon DEF QuietCall
  <2>4. CASE r # rule[s].down
    <3>1. chain'[r] = chain[r]
      BY <1>6, <2>3, <2>4, DeleteRuleEffect, Zenon
    <3> QED
      BY <1>1, <2>1, <2>2, <2>4, <3>1, InUseFrame, Zenon DEF Up
  <2>5. CASE r = rule[s].down
    <3>1. chain'[r].jump = chain[r].jump /\ chain'[r].exists = chain[r].exists
      BY <1>6, <2>3, <2>5, DeleteRuleEffect, Zenon
    <3>2. chain[r].jump
      <4>1. InUse(r)
        BY <1>1, <3>1, Zenon
      <4> QED
        BY <2>1, <2>2, <4>1, Zenon DEF InUse, SetupAt, TeardownAt, Up, Down
    <3> QED
      BY <2>1, <2>3, <2>5, <3>1, <3>2, Zenon DEF InUse, TeardownAt
  <2> QED
    BY <2>4, <2>5, Zenon
<1>7. ASSUME NEW s \in Sandboxes, ListRules(s) PROVE InUse(r)'
  <2>1. td[s] = "list" /\ UNCHANGED <<pc, chain>> /\ OthersKept(s)
    BY <1>7, ListRulesAt, Others, Zenon
  <2>2. \A t \in Sandboxes : pc[t] \notin Up /\ (t # s => td[t] \notin Down)
    BY <2>1, AloneDown, Zenon DEF Down
  <2>3. InUse(r)
    BY <1>1, <2>1, Zenon
  <2>4. CASE r # rule[s].down
    BY <2>1, <2>2, <2>3, <2>4, InUseFrame, Zenon DEF Up
  <2>5. CASE r = rule[s].down
    <3>1. chain[r].jump
      BY <2>1, <2>2, <2>3, Zenon DEF InUse, SetupAt, TeardownAt, Up, Down
    <3> QED
      BY <1>7, <2>1, <2>5, <3>1, ListRulesAt, Zenon DEF InUse, TeardownAt
  <2> QED
    BY <2>4, <2>5, Zenon
<1>8. ASSUME NEW s \in Sandboxes, DeleteJump(s) PROVE InUse(r)'
  <2>1. td[s] = "unjump" /\ td'[s] = "unchain" /\ UNCHANGED <<pc, rule>> /\ OthersKept(s)
    BY <1>8, DeleteJumpAt, Others, Zenon
  <2>2. \A t \in Sandboxes : pc[t] \notin Up
    BY <2>1, AloneDown, Zenon DEF Down
  <2>3. CASE r # rule[s].down
    <3>1. chain'[r] = chain[r]
      BY <1>8, <2>3, DeleteJumpEffect, Zenon
    <3> QED
      BY <1>1, <2>1, <2>2, <2>3, <3>1, InUseFrame, Zenon DEF Up
  <2>4. CASE r = rule[s].down
    BY <2>1, <2>4, Zenon DEF InUse, TeardownAt
  <2> QED
    BY <2>3, <2>4, Zenon
<1>9. ASSUME NEW s \in Sandboxes, DeleteChain(s) PROVE InUse(r)'
  <2>1. td[s] = "unchain" /\ UNCHANGED pc /\ NextAt(s) /\ OthersKept(s)
    BY <1>9, DeleteChainAt, Others, Zenon
  <2>2. \A t \in Sandboxes : pc[t] \notin Up
    BY <2>1, AloneDown, Zenon DEF Down
  <2>3. /\ rule[s].down \in Rules /\ chain'[rule[s].down] = Absent
        /\ \A q \in Rules \ {rule[s].down} : chain'[q] = chain[q]
    <3>1. chain[rule[s].down].rules = {} /\ ~chain[rule[s].down].jump
      BY <1>9, DeleteChainAt, Zenon
    <3> QED
      BY <1>9, <3>1, DeleteChainEffect, Zenon
  <2>4. r # rule[s].down
    BY <2>3 DEF Absent
  <2> QED
    BY <1>1, <2>1, <2>2, <2>3, <2>4, InUseFrame, Zenon DEF Up
<1>10. CASE UNCHANGED vars
  <2>1. UNCHANGED <<pc, td, rule, chain>>
    BY <1>10, Zenon DEF vars, procVars, kernelVars
  <2> QED
    BY <1>1, <2>1, Zenon DEF InUse, SetupAt, TeardownAt
<1> QED
  BY <1>1, <1>2, <1>3, <1>4, <1>5, <1>6, <1>7, <1>8, <1>9, <1>10, NextCases, Zenon

\* Without faults nothing is left without the sandbox it is for.
LEMMA QuietStep ==
  ASSUME TypeOK, MutexInv, CallInv, LoopInv, ChainInv, RuleInv, QuietInv, [Next]_vars
  PROVE QuietInv'
BY QuietCallStep, OwnerStep, InUseStep, Zenon DEF QuietInv

\* Steps that neither take a name nor look at the names.
LEMMA NamesFrame ==
  ASSUME TypeOK, NEW name \in [Sandboxes -> 0..MaxNames], Named(name), seen' = seen,
         \A n \in Names : host'[n] \in {host[n], None},
         \A t \in Sandboxes : pc'[t] \in Unlinked => pc[t] \in Unlinked,
         \A t \in Sandboxes : pc'[t] = "new" => pc[t] = "new"
  PROVE Named(name)'
<1>1. Created \subseteq Created'
  BY Zenon DEF Created
<1>2. \A n \in Names : host'[n] # None => name[host'[n]] = n
  BY Zenon DEF Named
<1>3. \A t \in Sandboxes : name[t] # 0 => pc'[t] \notin Unlinked
  BY Zenon DEF Named
<1>4. \A s \in Sandboxes : seen'[s] \subseteq {name[t] : t \in Created' \ {s}}
  BY <1>1, Zenon DEF Named
<1> QED
  BY <1>2, <1>3, <1>4, Zenon DEF Named

\* Without faults Setup learns of a name as taken only when another sandbox has taken it:
\* its VNI is its own.
LEMMA OwnVNI ==
  ASSUME TypeOK, IndexInv, LinkInv, QuietInv, Quiet, NEW s \in Sandboxes, pc[s] = "add"
  PROVE id[s] \notin TakenIds
<1>0. KernelTypeOK
  BY Zenon DEF TypeOK
<1>1. ASSUME NEW t \in Sandboxes, HasLink(t) PROVE t # s /\ Known(t)
  <2>1. pc[t] \in {"move", "failed", "orphan", "name"} \union Linked
    BY <1>1, WorkerNodeAssumption DEF HasLink, LinkInv
  <2>2. pc[t] \notin {"failed", "orphan"}
    BY Zenon DEF QuietInv, QuietCall
  <2> QED
    BY <2>1, <2>2, Zenon DEF Known, Linked
<1>2. ASSUME NEW t \in Sandboxes, HasLink(t) PROVE id[t] # id[s]
  BY <1>1, <1>2, Zenon DEF IndexInv, Known
<1>3. \A n \in Names : host[n] # None => host[n] \in Sandboxes /\ HasLink(host[n])
  BY <1>0, Zenon DEF KernelTypeOK, HasLink
<1>4. \A t \in Sandboxes : pod[t] # None => HasLink(t)
  BY Zenon DEF HasLink
<1> QED
  BY <1>2, <1>3, <1>4, Zenon DEF TakenIds

\* Every sandbox takes one name.
LEMMA NamesStep ==
  ASSUME FirstFree, TypeOK, IndexInv, CallInv, LinkInv, QuietInv, NamesInv, [Next]_vars
  PROVE NamesInv'
<1>0. CallTypeOK /\ KernelTypeOK
  BY Zenon DEF TypeOK
<1>1. SUFFICES ASSUME Quiet' PROVE \E name \in [Sandboxes -> 0..MaxNames] : Named(name)'
  BY Zenon DEF NamesInv
<1>2. Quiet /\ ~Crash /\ \A s \in Sandboxes : ~CallFails(s)
  BY <1>1, QuietBefore, Zenon
<1>3. PICK name \in [Sandboxes -> 0..MaxNames] : Named(name)
  BY <1>2, Zenon DEF NamesInv
<1>4. ASSUME NEW s \in Sandboxes, LinkList(s) PROVE Named(name)'
  <2>1. /\ host' = host /\ pc[s] = "list" /\ pc'[s] = "add" /\ \A t \in Sandboxes \ {s} : pc'[t] = pc[t]
        /\ seen' = [seen EXCEPT ![s] = {n \in Names : host[n] # None}]
    BY <1>0, <1>4, Zenon DEF CallTypeOK, LinkList, ToPc, kernelVars
  <2>2. Created' = Created
    BY <2>1, Zenon DEF Created
  <2>3. \A t \in Sandboxes : name[t] # 0 => pc'[t] \notin Unlinked
    BY <1>3, <2>1, Zenon DEF Named, Unlinked
  <2>4. ASSUME NEW n \in Names, host[n] # None PROVE host[n] \in Created \ {s} /\ n = name[host[n]]
    BY <1>0, <1>3, <2>1, <2>4 DEF KernelTypeOK, LinkInv, Created, Named
  <2>5. ASSUME NEW u \in Sandboxes PROVE seen'[u] \subseteq {name[t] : t \in Created \ {u}}
    <3>1. CASE u = s
      <4>1. seen'[s] = {n \in Names : host[n] # None}
        BY <1>0, <2>1, Zenon DEF CallTypeOK
      <4> QED
        BY <2>4, <3>1, <4>1, Zenon
    <3>2. CASE u # s
      <4>1. seen'[u] = seen[u]
        BY <1>0, <2>1, <3>2, Zenon DEF CallTypeOK
      <4> QED
        BY <1>3, <4>1, Zenon DEF Named
    <3> QED
      BY <3>1, <3>2, Zenon
  <2> QED
    BY <1>3, <2>1, <2>2, <2>3, <2>5, Zenon DEF Named
<1>5. ASSUME NEW s \in Sandboxes, LinkAdd(s) PROVE \E nm \in [Sandboxes -> 0..MaxNames] : Named(nm)'
  <2>1. pc[s] = "add" /\ \A t \in Sandboxes \ {s} : pc'[t] = pc[t]
    BY <1>0, <1>5, Zenon DEF CallTypeOK, LinkAdd, ToPc
  <2>2. id[s] \notin TakenIds
    BY <1>2, <2>1, OwnVNI, Zenon
  <2>3. CASE ToPc(s, "toomany") /\ UNCHANGED <<seen, host>>
    <3>1. pc'[s] = "toomany"
      BY <1>0, <2>3, Zenon DEF CallTypeOK, ToPc
    <3>2. /\ \A n \in Names : host'[n] \in {host[n], None}
          /\ \A t \in Sandboxes : pc'[t] \in Unlinked => pc[t] \in Unlinked
          /\ \A t \in Sandboxes : pc'[t] = "new" => pc[t] = "new"
      BY <2>1, <2>3, <3>1, Zenon DEF Unlinked
    <3> QED
      BY <1>3, <2>3, <3>2, NamesFrame, Zenon
  <2>4. CASE /\ Names \ seen[s] # {} /\ host[Min(Names \ seen[s])] # None
             /\ seen' = [seen EXCEPT ![s] = seen[s] \union {Min(Names \ seen[s])}] /\ UNCHANGED <<pc, host>>
    <3>1. PICK m \in Names : host[m] # None /\ seen' = [seen EXCEPT ![s] = seen[s] \union {m}]
      BY <2>4, Zenon DEF FirstFree
    <3>2. Created' = Created
      BY <2>4, Zenon DEF Created
    <3>3. host[m] \in Created \ {s} /\ m = name[host[m]]
      BY <1>0, <1>3, <2>1, <3>1 DEF KernelTypeOK, LinkInv, Created, Named
    <3>4. ASSUME NEW u \in Sandboxes PROVE seen'[u] \subseteq {name[t] : t \in Created \ {u}}
      <4>1. CASE u = s
        <5>1. seen'[s] = seen[s] \union {m}
          BY <1>0, <3>1, Zenon DEF CallTypeOK
        <5> QED
          BY <1>3, <3>3, <4>1, <5>1 DEF Named
      <4>2. CASE u # s
        <5>1. seen'[u] = seen[u]
          BY <1>0, <3>1, <4>2, Zenon DEF CallTypeOK
        <5> QED
          BY <1>3, <5>1, Zenon DEF Named
      <4> QED
        BY <4>1, <4>2, Zenon
    <3> QED
      BY <1>3, <2>4, <3>2, <3>4, Zenon DEF Named
  <2>5. CASE /\ Names \ seen[s] # {} /\ host[Min(Names \ seen[s])] = None
             /\ host' = [host EXCEPT ![Min(Names \ seen[s])] = s] /\ ToPc(s, "move") /\ UNCHANGED seen
    <3>1. PICK m \in Names : host[m] = None /\ host' = [host EXCEPT ![m] = s]
      BY <2>5, Zenon DEF FirstFree
    <3> DEFINE nm == [name EXCEPT ![s] = m]
    <3>2. nm \in [Sandboxes -> 0..MaxNames] /\ nm[s] = m /\ \A t \in Sandboxes \ {s} : nm[t] = name[t]
      BY <1>3, WorkerNodeAssumption DEF Names
    <3>3. pc'[s] = "move" /\ name[s] = 0
      BY <1>0, <1>3, <2>1, <2>5, Zenon DEF CallTypeOK, ToPc, Named, Unlinked
    <3>4. Created' = Created
      BY <2>1, <3>3, Zenon DEF Created
    <3> HIDE DEF nm
    <3>5. \A n \in Names : host[n] # s /\ host'[n] = IF n = m THEN s ELSE host[n]
      BY <1>0, <2>1, <3>1, WorkerNodeAssumption DEF KernelTypeOK, LinkInv
    <3>6. \A n \in Names : host'[n] # None => nm[host'[n]] = n
      BY <1>0, <1>3, <3>2, <3>5 DEF KernelTypeOK, Named
    <3>7. \A t \in Sandboxes : nm[t] # 0 => pc'[t] \notin Unlinked
      BY <1>3, <2>1, <3>2, <3>3, Zenon DEF Named, Unlinked, Up
    <3>8. ASSUME NEW u \in Sandboxes PROVE seen'[u] \subseteq {nm[t] : t \in Created \ {u}}
      <4>1. ASSUME NEW k \in seen[u] PROVE \E t \in Created \ {u} : k = nm[t]
        <5>1. PICK t \in Created \ {u} : k = name[t]
          BY <1>3, <4>1, Zenon DEF Named
        <5>2. k # 0 /\ t \in Sandboxes
          BY <1>0, WorkerNodeAssumption DEF CallTypeOK, Names, Created
        <5> QED
          BY <3>2, <3>3, <5>1, <5>2, Zenon
      <4> QED
        BY <2>5, <4>1, Zenon
    <3> QED
      BY <3>2, <3>4, <3>6, <3>7, <3>8, Zenon DEF Named
  <2> QED
    BY <1>5, <2>2, <2>3, <2>4, <2>5, Zenon DEF LinkAdd
<1>6. ASSUME NEW s \in Sandboxes, OthersKept(s), UNCHANGED <<host, seen>>,
             pc'[s] \in Unlinked => pc[s] \in Unlinked, pc'[s] = "new" => pc[s] = "new"
      PROVE Named(name)'
  <2>1. /\ \A t \in Sandboxes : pc'[t] \in Unlinked => pc[t] \in Unlinked
        /\ \A t \in Sandboxes : pc'[t] = "new" => pc[t] = "new"
    BY <1>6, Zenon DEF OthersKept
  <2>2. \A n \in Names : host'[n] \in {host[n], None}
    BY <1>6, Zenon
  <2> QED
    BY <1>3, <1>6, <2>1, <2>2, NamesFrame, Zenon
<1>7. ASSUME NEW s \in Sandboxes, Inspect(s) \/ StartSetup(s) \/ NewChain(s) \/ AddJump(s) \/ AppendRule(s)
      PROVE Named(name)'
  <2>1. UNCHANGED <<host, seen>> /\ pc[s] \in Unlinked
    BY <1>7, Zenon DEF Inspect, StartSetup, NewChain, AddJump, AppendRule, Unlinked, Up, kernelVars
  <2>2. \E at \in {"inspected", "chain", "jump", "rule", "list"} : pc' = [pc EXCEPT ![s] = at]
    BY <1>7, Zenon DEF Inspect, StartSetup, NewChain, AddJump, AppendRule, ToPc
  <2>3. pc'[s] # "new"
    BY <1>0, <2>2, Zenon DEF CallTypeOK
  <2> QED
    BY <1>6, <1>7, <2>1, <2>3, Others, Zenon
<1>8. ASSUME NEW s \in Sandboxes, SetNamespace(s) PROVE Named(name)'
  <2>1. /\ \A n \in Names : host'[n] \in {host[n], None}
        /\ seen' = seen /\ pc'[s] = "name" /\ \A t \in Sandboxes \ {s} : pc'[t] = pc[t]
    BY <1>0, <1>8, Zenon DEF CallTypeOK, SetNamespace, ToPc
  <2>2. /\ \A t \in Sandboxes : pc'[t] \in Unlinked => pc[t] \in Unlinked
        /\ \A t \in Sandboxes : pc'[t] = "new" => pc[t] = "new"
    BY <2>1, Zenon DEF Unlinked, Up
  <2> QED
    BY <1>3, <2>1, <2>2, NamesFrame, Zenon
<1>9. ASSUME NEW s \in Sandboxes, SetName(s) \/ RedirectPod(s) \/ RedirectBack(s) PROVE Named(name)'
  <2>1. UNCHANGED <<host, seen>> /\ pc'[s] \in {"redirect", "back", "up", "failed"}
    BY <1>0, <1>9, Zenon DEF CallTypeOK, SetName, RedirectPod, RedirectBack, RedirectAdd, ToPc
  <2> QED
    BY <1>6, <1>9, <2>1, Others, Zenon DEF Unlinked, Up
<1>10. ASSUME NEW s \in Sandboxes,
              \/ StartTeardown(s) \/ RedirectDel(s) \/ LinkDelete(s) \/ StartIptables(s) \/ DeleteRule(s)
              \/ ListRules(s) \/ DeleteJump(s) \/ DeleteChain(s) \/ DeleteNamespace(s)
       PROVE Named(name)'
  <2>1. UNCHANGED <<host, seen, pc>>
    BY <1>10, Zenon DEF StartTeardown, RedirectDel, LinkDelete, StartIptables, DeleteRule, ListRules,
       DeleteJump, DeleteChain, DeleteNamespace, procVars, kernelVars
  <2> QED
    BY <1>6, <1>10, <2>1, Others, Zenon
<1>11. ASSUME UNCHANGED vars PROVE Named(name)'
  <2>1. UNCHANGED <<host, seen, pc>>
    BY <1>11, Zenon DEF vars, procVars, kernelVars
  <2>2. \A n \in Names : host'[n] \in {host[n], None}
    BY <2>1, Zenon
  <2> QED
    BY <1>3, <2>1, <2>2, NamesFrame, Zenon
<1> QED
  BY <1>2, <1>3, <1>4, <1>5, <1>7, <1>8, <1>9, <1>10, <1>11, Zenon DEF Next

\* Without faults, and with a name for every sandbox, no Setup runs out of names.
LEMMA NameFoundStep ==
  ASSUME TypeOK, NameFound, [Next]_vars,
         Quiet => \A s \in Sandboxes : pc[s] # "new" /\ Names \ seen[s] = {} => MaxNames < case.pods
  PROVE NameFound'
<1>0. CallTypeOK
  BY Zenon DEF TypeOK
<1>1. SUFFICES ASSUME Quiet', case'.pods <= MaxNames, NEW t \in Sandboxes, pc'[t] = "toomany" PROVE FALSE
  BY Zenon DEF NameFound
<1>2. Quiet /\ ~Crash /\ \A s \in Sandboxes : ~CallFails(s)
  BY <1>1, QuietBefore, Zenon
<1>3. case' = case
  BY <1>2, Zenon DEF Next, vars, procVars, Inspect, StartSetup, NewChain, AddJump, AppendRule, LinkList, LinkAdd,
     SetNamespace, SetName, RedirectPod, RedirectBack, StartTeardown, RedirectDel, LinkDelete, StartIptables,
     DeleteRule, ListRules, DeleteJump, DeleteChain, DeleteNamespace, RedirectAdd
<1>4. \A s \in Sandboxes : pc[s] # "toomany"
  BY <1>1, <1>2, <1>3, Zenon DEF NameFound
<1>5. ASSUME NEW s \in Sandboxes, LinkAdd(s) PROVE FALSE
  <2>1. pc[s] = "add"
    BY <1>5, Zenon DEF LinkAdd
  <2>2. Names \ seen[s] = {}
    <3>1. \A u \in Sandboxes \ {s} : pc'[u] = pc[u]
      BY <1>5, Others, Zenon DEF OthersKept
    <3>2. pc'[s] = "toomany"
      BY <1>1, <1>4, <3>1, Zenon
    <3> QED
      BY <1>0, <1>5, <2>1, <3>2, Zenon DEF CallTypeOK, LinkAdd, ToPc
  <2>3. MaxNames < case.pods
    BY <1>2, <2>1, <2>2, Zenon
  <2> QED
    BY <1>1, <1>3, <2>3, Bounds, WorkerNodeAssumption
<1>6. ASSUME NEW s \in Sandboxes, OthersKept(s), pc'[s] # "toomany" PROVE FALSE
  BY <1>1, <1>4, <1>6, Zenon DEF OthersKept
<1>7. ASSUME NEW s \in Sandboxes,
             \/ Inspect(s) \/ StartSetup(s) \/ NewChain(s) \/ AddJump(s) \/ AppendRule(s)
             \/ LinkList(s) \/ SetNamespace(s) \/ SetName(s) \/ RedirectPod(s) \/ RedirectBack(s)
      PROVE FALSE
  <2>1. OthersKept(s)
    BY <1>7, Others, Zenon
  <2>2. \E at \in {"inspected", "chain", "jump", "rule", "list", "add", "name", "redirect", "back", "up", "failed"} :
          pc' = [pc EXCEPT ![s] = at]
    BY <1>7, Zenon DEF Inspect, StartSetup, NewChain, AddJump, AppendRule, LinkList, SetNamespace, SetName,
       RedirectPod, RedirectBack, RedirectAdd, ToPc
  <2>3. pc'[s] # "toomany"
    BY <1>0, <2>2, Zenon DEF CallTypeOK
  <2> QED
    BY <1>6, <2>1, <2>3, Zenon
<1>8. ASSUME NEW s \in Sandboxes,
             \/ StartTeardown(s) \/ RedirectDel(s) \/ LinkDelete(s) \/ StartIptables(s) \/ DeleteRule(s)
             \/ ListRules(s) \/ DeleteJump(s) \/ DeleteChain(s) \/ DeleteNamespace(s)
      PROVE FALSE
  <2>1. pc' = pc
    BY <1>8, Zenon DEF StartTeardown, RedirectDel, LinkDelete, StartIptables, DeleteRule, ListRules,
       DeleteJump, DeleteChain, DeleteNamespace, procVars
  <2> QED
    BY <1>1, <1>4, <2>1, Zenon
<1>9. ASSUME UNCHANGED vars PROVE FALSE
  <2>1. pc' = pc
    BY <1>9, Zenon DEF vars, procVars
  <2> QED
    BY <1>1, <1>4, <2>1, Zenon
<1> QED
  BY <1>2, <1>5, <1>7, <1>8, <1>9, Zenon DEF Next

\* At the start no sandbox is created and the node has no link and no chain.
LEMMA NodeInit ==
  ASSUME Init, Cardinality(Sandboxes) \in Nat, Cardinality({}) = 0
  PROVE NodeInv
<1>0. /\ case \in Cases /\ index = 0 /\ mutex = Free /\ faults = 0 /\ crashes = 0
      /\ id = [s \in Sandboxes |-> 0] /\ addr = [s \in Sandboxes |-> None]
      /\ pc = [s \in Sandboxes |-> "new"] /\ td = [s \in Sandboxes |-> "new"]
      /\ rule = [s \in Sandboxes |-> [up |-> 1, down |-> 1]] /\ seen = [s \in Sandboxes |-> {}]
      /\ host = [n \in Names |-> None] /\ pod = [s \in Sandboxes |-> None]
      /\ filters = [s \in Sandboxes |-> {}] /\ chain = [r \in Rules |-> Absent]
  BY Zenon DEF Init
<1>1. case.pods \in Nat /\ case.faults \in Nat /\ case.crashes \in Nat
  BY <1>0, WorkerNodeAssumption, Zenon DEF Case
<1>2. CallTypeOK
  BY <1>0, <1>1, Consts DEF CallTypeOK
<1>3. KernelTypeOK
  <2>1. Absent \in ChainType
    BY Zenon DEF Absent, ChainType
  <2> QED
    BY <1>0, <2>1, Zenon DEF KernelTypeOK
<1>4. MutexInv
  BY <1>0, Zenon DEF MutexInv, Free, Up, Down
<1>5. IndexInv
  <2>1. Created = {}
    BY <1>0, Zenon DEF Created
  <2>2. Cardinality(Created) = 0
    BY <2>1, Zenon
  <2> QED
    BY <1>0, <1>1, <2>2 DEF IndexInv, Known
<1>6. CallInv /\ LoopInv
  BY <1>0, Zenon DEF CallInv, LoopInv, Up, Past, Down, Linked, Known, None
<1>7. LinkInv
  BY <1>0, WorkerNodeAssumption, Zenon DEF LinkInv, HasLink, Linked
<1>8. ChainInv
  BY <1>0, Zenon DEF ChainInv
<1>9. RuleInv
  BY <1>0, Zenon DEF RuleInv, Owned, Gone, Up, Past
<1>10. QuietInv
  <2>1. \A r \in Rules : chain[r].rules = {} /\ ~chain[r].exists
    BY <1>0, Zenon DEF Absent
  <2>2. \A s \in Sandboxes : QuietCall(s)
    BY <1>0, Zenon DEF QuietCall
  <2> QED
    BY <2>1, <2>2, Zenon DEF QuietInv
<1>11. NamesInv
  <2> DEFINE name == [s \in Sandboxes |-> 0]
  <2>1. name \in [Sandboxes -> 0..MaxNames]
    BY WorkerNodeAssumption
  <2>2. Named(name)
    BY <1>0, Zenon DEF Named
  <2> QED
    BY <2>1, <2>2, Zenon DEF NamesInv
<1>12. NameFound
  BY <1>0, Zenon DEF NameFound
<1> QED
  BY <1>2, <1>3, <1>4, <1>5, <1>6, <1>7, <1>8, <1>9, <1>10, <1>11, <1>12, Zenon DEF NodeInv, TypeOK

\* The invariant leaves every live tunnel its rules and the jumps that lead to them.
LEMMA RulesFromInv ==
  ASSUME NodeInv
  PROVE RulesReached
<1>1. TypeOK /\ ChainInv /\ RuleInv /\ QuietInv
  BY Zenon DEF NodeInv
<1>2. ASSUME NEW s \in Sandboxes, Live(s), NEW r \in Rules PROVE Rule(s) \in chain[r].rules
  BY <1>1, <1>2, Zenon DEF Live, RuleInv, Owned, Past
<1>3. ASSUME NEW s \in Sandboxes, Live(s), NEW r \in Rules, Quiet PROVE chain[r].jump
  <2>1. Rule(s) \in chain[r].rules
    BY <1>2, <1>3, Zenon
  <2>2. chain[r].exists
    BY <1>1, <2>1 DEF ChainInv, Absent
  <2>3. chain[r].jump \/ SetupAt({"jump"}, r) \/ TeardownAt({"unchain"}, r)
    BY <1>1, <1>3, <2>2, Zenon DEF QuietInv, InUse
  <2> QED
    BY <1>1, <2>1, <2>3, Zenon DEF ChainInv, SetupAt, TeardownAt
<1> QED
  BY <1>1, <1>2, <1>3, Zenon DEF RulesReached, ChainInv

\* The invariant keeps the identifiers of the tunnels apart.
LEMMA IdsFromInv ==
  ASSUME NodeInv
  PROVE IdsDistinct
<1>1. IndexInv /\ LinkInv /\ NameFound
  BY Zenon DEF NodeInv
<1>2. \A s, t \in Sandboxes : s # t /\ Known(s) /\ Known(t) => id[s] # id[t]
  BY <1>1, Zenon DEF IndexInv
<1>3. \A s, t \in Sandboxes : s # t /\ pod[s] = "vxlan1" /\ pod[t] = "vxlan1" => id[s] # id[t]
  BY <1>1, Zenon DEF LinkInv, HasLink, None
<1> QED
  BY <1>1, <1>2, <1>3, Zenon DEF IdsDistinct, NameFound

\* The invariant leaves nothing behind what was torn down.
LEMMA NothingFromInv ==
  ASSUME NodeInv
  PROVE TeardownComplete
<1>1. TypeOK /\ CallInv /\ LinkInv /\ ChainInv /\ RuleInv /\ QuietInv
  BY Zenon DEF NodeInv
<1>2. ASSUME NEW s \in Sandboxes, td[s] = "done"
      PROVE /\ pod[s] = None
            /\ \A r \in Rules : Rule(s) \in chain[r].rules => \E t \in Sandboxes \ {s} : Rule(t) = Rule(s)
  BY <1>1, <1>2, Zenon DEF CallInv, RuleInv, Gone
<1>3. ASSUME Quiet, \A s \in Sandboxes : Stopped(s) /\ pc[s] # "toomany"
      PROVE (\A r \in Rules : chain[r] = Absent) /\ (\A n \in Names : host[n] = None)
  <2>1. \A s \in Sandboxes : pc[s] \in {"new", "up"} /\ td[s] \in {"new", "done"}
                             /\ (pc[s] = "up" => td[s] = "done")
    BY <1>1, <1>3, Zenon DEF Stopped, QuietInv, QuietCall, CallInv, Ends
  <2>2. \A s \in Sandboxes, r \in Rules : ~Owned(s, r)
    BY <2>1, Zenon DEF Owned, Up, Past
  <2>3. \A r \in Rules : chain[r].rules = {}
    BY <1>1, <1>3, <2>2, Zenon DEF QuietInv, HasOwner, TypeOK, KernelTypeOK, ChainType
  <2>4. \A r \in Rules : ~InUse(r)
    BY <2>1, <2>3, Zenon DEF InUse, SetupAt, TeardownAt
  <2>5. \A r \in Rules : chain[r] = Absent
    BY <1>1, <1>3, <2>4, Zenon DEF QuietInv, ChainInv
  <2>6. \A n \in Names : host[n] = None
    BY <1>1, <2>1 DEF TypeOK, KernelTypeOK, LinkInv
  <2> QED
    BY <2>5, <2>6, Zenon
<1> QED
  BY <1>2, <1>3, Zenon DEF TeardownComplete

-----------------------------------------------------------------------------
(* What rests on facts about finite sets and numbers. *)
INSTANCE FiniteSetTheorems

\* The sandboxes can be counted.
LEMMA Count == Cardinality(Sandboxes) \in Nat
  BY WorkerNodeAssumption, FS_CardinalityType, Zenon

\* There is a first name among those that are free, as LinkAdd takes it.
LEMMA FirstName == FirstFree
<1> SUFFICES ASSUME NEW free \in SUBSET Names, free # {} PROVE Min(free) \in free
  BY Zenon DEF FirstFree
<1> DEFINE R == OpToRel(<, Nat)
<1>1. IsWellFoundedOn(R, Nat)
  BY NatLessThanWellFounded, Zenon
<1>2. free \subseteq Nat
  BY Consts, Zenon
<1>3. \A k, l \in Nat : l < k => <<l, k>> \in R
  BY Zenon DEF OpToRel
<1> HIDE DEF R
<1>4. PICK x \in free : \A y \in free : ~(<<y, x>> \in R)
  BY <1>1, <1>2, WFMin, Zenon
<1>5. ASSUME NEW y \in free PROVE x =< y
  <2>1. x \in Nat /\ y \in Nat /\ ~(y < x)
    BY <1>2, <1>3, <1>4, Zenon
  <2> QED
    BY <2>1
<1> QED
  BY <1>5, Zenon DEF Min

\* A sandbox that is created is one more.
LEMMA CreatedOneMore ==
  ASSUME TypeOK, NEW s \in Sandboxes, pc[s] = "new", NEW at, at # "new", pc' = [pc EXCEPT ![s] = at]
  PROVE /\ Cardinality(Created') = Cardinality(Created) + 1 /\ Cardinality(Created) \in Nat
        /\ Cardinality(Created') <= Cardinality(Sandboxes)
<1>1. Created \in SUBSET Sandboxes /\ Created' \in SUBSET Sandboxes
  BY Zenon DEF Created
<1>2. Created' = Created \union {s} /\ s \notin Created
  BY Zenon DEF Created, TypeOK, CallTypeOK
<1>3. IsFiniteSet(Created) /\ Cardinality(Created') <= Cardinality(Sandboxes)
  BY <1>1, WorkerNodeAssumption, FS_Subset, Zenon
<1>4. Cardinality(Created \union {s}) = Cardinality(Created) + 1
  BY <1>2, <1>3, FS_AddElement, Zenon
<1>5. Cardinality(Created) \in Nat
  BY <1>3, FS_CardinalityType, Zenon
<1> QED
  BY <1>2, <1>3, <1>4, <1>5, Zenon

\* The index is behind the number of sandboxes that inspection.Get can still give one to.
LEMMA RoomLeft ==
  ASSUME TypeOK, IndexInv, NEW s \in Sandboxes, Inspect(s)
  PROVE index < Cardinality(Sandboxes)
<1>1. pc[s] = "new" /\ pc' = [pc EXCEPT ![s] = "inspected"] /\ "inspected" # "new"
  BY Zenon DEF Inspect, ToPc
<1>2. /\ Cardinality(Created') = Cardinality(Created) + 1 /\ Cardinality(Created) \in Nat
      /\ Cardinality(Created') <= Cardinality(Sandboxes)
  BY <1>1, CreatedOneMore, Zenon
<1> QED
  BY <1>2, Count DEF TypeOK, CallTypeOK, IndexInv

\* The index goes on with every sandbox, and from 0 when no sandbox is known.
LEMMA IndexStep ==
  ASSUME TypeOK, IndexInv, [Next]_vars
  PROVE IndexInv'
<1>1. ASSUME NEW s \in Sandboxes, Inspect(s) PROVE IndexInv'
  <2>1. pc[s] = "new" /\ pc' = [pc EXCEPT ![s] = "inspected"] /\ "inspected" # "new"
    BY <1>1, Zenon DEF Inspect, ToPc
  <2>2. Cardinality(Created') = Cardinality(Created) + 1 /\ Cardinality(Created) \in Nat
    BY <2>1, CreatedOneMore, Zenon
  <2>3. id' = [id EXCEPT ![s] = index] /\ index' = index + 1 /\ case' = case
    BY <1>1, Zenon DEF Inspect, Get
  <2>4. Cardinality(Created) < case.pods
    BY <1>1, Zenon DEF Inspect, Created
  <2>5. index' <= Cardinality(Created)' /\ Cardinality(Created)' <= case'.pods
    BY <2>2, <2>3, <2>4, Bounds DEF IndexInv, TypeOK, CallTypeOK
  <2>6. \A t \in Sandboxes : Known(t)' <=> t = s \/ Known(t)
    BY <2>1, Zenon DEF Known, TypeOK, CallTypeOK
  <2>7. ASSUME NEW t \in Sandboxes, Known(t)' PROVE id'[t] < index' /\ (t # s => id'[t] = id[t] /\ id[t] < index)
    BY <2>3, <2>6, <2>7 DEF IndexInv, TypeOK, CallTypeOK
  <2>8. ASSUME NEW t \in Sandboxes, NEW u \in Sandboxes, t # u, Known(t)', Known(u)' PROVE id'[t] # id'[u]
    <3>1. index \in Int /\ id'[s] = index
      BY <2>3 DEF TypeOK, CallTypeOK
    <3>2. CASE t = s
      BY <2>7, <2>8, <3>1, <3>2
    <3>3. CASE u = s
      BY <2>7, <2>8, <3>1, <3>3
    <3>4. CASE t # s /\ u # s
      BY <2>6, <2>7, <2>8, <3>4, Zenon DEF IndexInv
    <3> QED
      BY <3>2, <3>3, <3>4, Zenon
  <2> QED
    BY <2>5, <2>7, <2>8, Zenon DEF IndexInv
<1>2. CASE Crash
  <2>1. /\ index' = 0 /\ UNCHANGED <<case, id>>
        /\ \A t \in Sandboxes : pc'[t] \in {"new", "orphan"} /\ (pc'[t] = "new" <=> pc[t] = "new")
    BY <1>2, Zenon DEF Crash, TypeOK, CallTypeOK
  <2>2. Created' = Created
    BY <2>1, Zenon DEF Created
  <2>3. Cardinality(Created) \in Nat
    BY WorkerNodeAssumption, FS_Subset, FS_CardinalityType, Zenon DEF Created
  <2> QED
    BY <2>1, <2>2, <2>3 DEF IndexInv, Known
<1>3. CASE ~Crash /\ \A s \in Sandboxes : ~Inspect(s)
  <2>1. /\ UNCHANGED <<case, index, id>>
        /\ \A t \in Sandboxes : pc'[t] = pc[t] \/ (Known(t) /\ Known(t)')
    BY <1>3, KnownStays, Zenon
  <2>2. \A t \in Sandboxes : Known(t)' <=> Known(t)
    BY <2>1, Zenon DEF Known
  <2>3. Created' = Created
    BY <2>1, Zenon DEF Created, Known
  <2> QED
    BY <2>1, <2>2, <2>3, Zenon DEF IndexInv
<1> QED
  BY <1>1, <1>2, <1>3, Zenon

\* The names that a Setup knows to be taken are no more than the other sandboxes.
LEMMA NamesFew ==
  ASSUME TypeOK, IndexInv, NamesInv, Quiet, NEW s \in Sandboxes, pc[s] # "new", Names \ seen[s] = {}
  PROVE MaxNames < case.pods
<1>0. PICK name \in [Sandboxes -> 0..MaxNames] : Named(name)
  BY Zenon DEF NamesInv
<1> DEFINE S == Created \ {s}
           T == {name[t] : t \in S}
           f == [t \in S |-> name[t]]
<1>1. IsFiniteSet(Created) /\ Cardinality(Created) \in Nat
  BY WorkerNodeAssumption, FS_Subset, FS_CardinalityType, Zenon DEF Created
<1>2. IsFiniteSet(S) /\ Cardinality(S) = Cardinality(Created) - 1
  BY <1>1, FS_RemoveElement, Zenon DEF Created
<1>3. f \in Surjection(S, T)
  BY Zenon DEF Surjection
<1>4. IsFiniteSet(T) /\ Cardinality(T) <= Cardinality(S)
  <2> HIDE DEF S, T, f
  <2> QED
    BY <1>2, <1>3, FS_Surjection, Zenon
<1>5. Names \subseteq T
  BY <1>0, Zenon DEF Named
<1>6. Cardinality(Names) <= Cardinality(T)
  <2> HIDE DEF T
  <2> QED
    BY <1>4, <1>5, FS_Subset, Zenon
<1>7. Cardinality(Names) = MaxNames
  <2>1. 1 \in Int /\ MaxNames \in Int /\ MaxNames >= 1
    BY WorkerNodeAssumption
  <2>2. Cardinality(1..MaxNames) = IF 1 > MaxNames THEN 0 ELSE MaxNames - 1 + 1
    BY <2>1, FS_Interval, Zenon
  <2> QED
    BY <2>1, <2>2 DEF Names
<1>8. Cardinality(Created) <= case.pods /\ case.pods \in Nat
  BY Bounds, Zenon DEF IndexInv
<1>9. Cardinality(S) \in Nat /\ Cardinality(T) \in Nat
  <2> HIDE DEF S, T
  <2> QED
    BY <1>2, <1>4, FS_CardinalityType, Zenon
<1> QED
  <2> HIDE DEF S, T
  <2> QED
    BY <1>1, <1>2, <1>4, <1>6, <1>7, <1>8, <1>9, WorkerNodeAssumption

\* The invariant of the worker node: Setups, Teardowns, failures and restarts in any order.
THEOREM NodeInvariant == Spec => []NodeInv
<1>1. Init => NodeInv
  <2>1. Cardinality({}) = 0
    BY FS_EmptySet, Zenon
  <2> QED
    BY <2>1, Count, NodeInit, Zenon
<1>2. NodeInv /\ [Next]_vars => NodeInv'
  <2>1. SUFFICES ASSUME NodeInv, [Next]_vars PROVE NodeInv'
    OBVIOUS
  <2>2. /\ TypeOK /\ MutexInv /\ IndexInv /\ CallInv /\ LoopInv /\ LinkInv
        /\ ChainInv /\ RuleInv /\ QuietInv /\ NamesInv /\ NameFound
    BY <2>1, Zenon DEF NodeInv
  <2>3. \A s \in Sandboxes : Inspect(s) => index < Cardinality(Sandboxes)
    BY <2>2, RoomLeft, Zenon
  <2>4. Quiet => \A s \in Sandboxes : pc[s] # "new" /\ Names \ seen[s] = {} => MaxNames < case.pods
    BY <2>2, NamesFew, Zenon
  <2>5. CallTypeOK' /\ KernelTypeOK' /\ MutexInv' /\ IndexInv' /\ CallInv'
    BY <2>1, <2>2, <2>3, Count, FirstName, CallTypeStep, KernelTypeStep, MutexStep, IndexStep, CallStep, Zenon
  <2>6. LoopInv' /\ LinkInv' /\ ChainInv' /\ RuleInv'
    BY <2>1, <2>2, FirstName, LoopStep, LinkStep, ChainStep, RuleStep, Zenon
  <2>7. QuietInv' /\ NamesInv' /\ NameFound'
    BY <2>1, <2>2, <2>4, FirstName, QuietStep, NamesStep, NameFoundStep, Zenon
  <2> QED
    BY <2>5, <2>6, <2>7, Zenon DEF NodeInv, TypeOK
<1> QED
  BY <1>1, <1>2, PTL DEF Spec

\* RulesReached: the rules of a tunnel that is up, and the chains that lead to them, outlive
\* what iptablesSetup and iptablesTeardown do for other sandboxes, on any number of
\* sandboxes, failures and restarts.
THEOREM TunnelRulesReached == Spec => []RulesReached
<1>1. NodeInv => RulesReached
  BY RulesFromInv, Zenon
<1> QED
  BY <1>1, NodeInvariant, PTL

\* IdsDistinct: podIndexManager and the kernel keep the identifiers of the tunnels apart, and
\* a name is found for the link of every sandbox as long as there is one for each.
THEOREM TunnelIdsDistinct == Spec => []IdsDistinct
<1>1. NodeInv => IdsDistinct
  BY IdsFromInv, Zenon
<1> QED
  BY <1>1, NodeInvariant, PTL

\* TeardownComplete: a Teardown that succeeds removes the sandbox's link and rules, and the
\* last one removes the chains that all sandboxes share.
THEOREM TeardownLeavesNothing == Spec => []TeardownComplete
<1>1. NodeInv => TeardownComplete
  BY NothingFromInv, Zenon
<1> QED
  BY <1>1, NodeInvariant, PTL
=============================================================================
