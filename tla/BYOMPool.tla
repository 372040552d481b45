------------------------------ MODULE BYOMPool ------------------------------
(***************************************************************************)
(* The address pool of the byom provider (cloud-providers/byom): the        *)
(* allocation state in a ConfigMap, the ConfigMapVMPoolManager of every     *)
(* process that uses it (each CAA, and the PeerPod controller), and the     *)
(* CreateInstance and DeleteInstance calls that go through it.              *)
(*                                                                         *)
(* An operation of a manager holds the manager's mutex.  It reads the state *)
(* and computes the new one; updateState then reads the ConfigMap again,    *)
(* for its resource version only, and writes the state computed before.     *)
(* AvailableIPs is a bag: which of its addresses selectIPIndex takes (a     *)
(* hash of the allocation ID) is left open.                                 *)
(***************************************************************************)
EXTENDS Naturals

CONSTANTS
  IP,          \* addresses
  Alloc,       \* allocation IDs, one for each sandbox
  Manager,     \* processes with a pool manager
  None,
  MgrOf,       \* the manager that serves a sandbox
  Configs,     \* values that VM_POOL_IPS may have when a process starts
  MaxTries,    \* attempts of RetryOnConflict (4 in retry.DefaultBackoff)
  ApiMayFail,  \* a request may fail, an Update also after it was applied
  RecoverGetMayFail,  \* so may the first Get of RecoverState
  MaxCrashes   \* bound on restarts

ASSUME PoolAssumption ==
  /\ None \notin IP \cup Alloc
  /\ MgrOf \in [Alloc -> Manager]
  /\ Configs \subseteq SUBSET IP
  /\ MaxTries \in Nat \ {0}
  /\ {ApiMayFail, RecoverGetMayFail} \subseteq BOOLEAN
  /\ MaxCrashes \in Nat

VARIABLES
  exists,    \* the ConfigMap exists
  state,     \* IPAllocationState in the ConfigMap
  config,    \* config[m]: PoolIPs of the manager
  mgrPC,     \* mgrPC[m]: "down", "free" (mutex unlocked) or a step of updateState
  mgrOp,     \* mgrOp[m]: the operation that holds the mutex
  mgrFor,    \* mgrFor[m]: the sandbox it is for
  mgrState,  \* mgrState[m]: the state that updateState is to write
  fresh,     \* fresh[m]: the resource version it read is the current one
  tries,     \* tries[m]: attempts so far
  pc,        \* pc[a]: where the sandbox's CreateInstance or DeleteInstance is
  ip,        \* ip[a]: the address AllocateIP returned
  target,    \* target[a]: the allocation ID DeleteInstance found for ip[a]
  crashes

cmVars == <<exists, state>>
opVars == <<config, mgrPC, mgrOp, mgrFor, mgrState, fresh, tries>>
callVars == <<pc, ip, target>>
vars == <<cmVars, opVars, callVars, crashes>>

PoolState == [avail : [IP -> Nat], alloc : [Alloc -> IP \cup {None}]]

(* "create": AllocateIP holds the mutex; "config": the address is there, the
   user data is not sent; "rollback", "dealloc": about to call DeallocateIP;
   "stuck": DeleteInstance failed; "orphan", "dead": the process crashed with
   or without an address. *)
PC == {"idle", "create", "config", "running", "rollback", "dealloc", "stopped",
       "failed", "stuck", "orphan", "dead"}

TypeOK ==
  /\ exists \in BOOLEAN
  /\ state \in PoolState
  /\ config \in [Manager -> SUBSET IP]
  /\ mgrPC \in [Manager -> {"down", "free", "get", "update", "create"}]
  /\ mgrOp \in [Manager -> {"recover", "allocate", "deallocate"}]
  /\ mgrFor \in [Manager -> Alloc \cup {None}]
  /\ mgrState \in [Manager -> PoolState]
  /\ fresh \in [Manager -> BOOLEAN]
  /\ tries \in [Manager -> 1..MaxTries]
  /\ pc \in [Alloc -> PC]
  /\ ip \in [Alloc -> IP \cup {None}]
  /\ target \in [Alloc -> Alloc \cup {None}]
  /\ crashes \in 0..MaxCrashes

initializeEmptyState(c) ==
  [avail |-> [i \in IP |-> IF i \in c THEN 1 ELSE 0],
   alloc |-> [a \in Alloc |-> None]]

Init ==
  /\ exists = FALSE
  /\ state = initializeEmptyState({})
  /\ config = [m \in Manager |-> {}]
  /\ mgrPC = [m \in Manager |-> "down"]
  /\ mgrOp = [m \in Manager |-> "recover"]
  /\ mgrFor = [m \in Manager |-> None]
  /\ mgrState = [m \in Manager |-> initializeEmptyState({})]
  /\ fresh = [m \in Manager |-> FALSE]
  /\ tries = [m \in Manager |-> 1]
  /\ pc = [a \in Alloc |-> "idle"]
  /\ ip = [a \in Alloc |-> None]
  /\ target = [a \in Alloc |-> None]
  /\ crashes = 0

----------------------------------------------------------------------------
(* IPAllocationState *)

getCurrentState(c) == IF exists THEN state ELSE initializeEmptyState(c)

Allocate(st, a, i) == [avail |-> [st.avail EXCEPT ![i] = @ - 1],
                       alloc |-> [st.alloc EXCEPT ![a] = i]]

\* Faulty variant of Deallocate: the allocation stays recorded.
DeallocateKeepsEntry(st, a) == [st EXCEPT !.avail[st.alloc[a]] = @ + 1]

Deallocate(st, a) == [avail |-> [st.avail EXCEPT ![st.alloc[a]] = @ + 1],
                      alloc |-> [st.alloc EXCEPT ![a] = None]]

\* Faulty variants of Repair: every configured address becomes available;
\* allocations of addresses that were taken out of the configuration go.
RepairAll(st, c) ==
  [avail |-> [i \in IP |-> IF i \in c THEN 1 ELSE 0], alloc |-> st.alloc]
RepairDropsUnknown(st, c) ==
  [avail |-> [i \in IP |-> IF i \in c /\ \A a \in Alloc : st.alloc[a] # i THEN 1 ELSE 0],
   alloc |-> [a \in Alloc |-> IF st.alloc[a] \in c THEN st.alloc[a] ELSE None]]

\* The addresses of the configuration that are not allocated become available.
Repair(st, c) ==
  [avail |-> [i \in IP |-> IF i \in c /\ \A a \in Alloc : st.alloc[a] # i
                           THEN 1 ELSE 0],
   alloc |-> st.alloc]

----------------------------------------------------------------------------
(* The manager *)

Begin(m, op, a, st) ==
  /\ mgrPC' = [mgrPC EXCEPT ![m] = "get"]
  /\ mgrOp' = [mgrOp EXCEPT ![m] = op]
  /\ mgrFor' = [mgrFor EXCEPT ![m] = a]
  /\ mgrState' = [mgrState EXCEPT ![m] = st]
  /\ tries' = [tries EXCEPT ![m] = 1]
  /\ UNCHANGED <<cmVars, fresh, crashes>>

\* Faulty variant of RecoverState: it starts from an empty state every time.
RecoverStateForgets(m, c) ==
  /\ mgrPC[m] = "down"
  /\ config' = [config EXCEPT ![m] = c]
  /\ Begin(m, "recover", None, initializeEmptyState(c))
  /\ UNCHANGED callVars

\* NewProvider: RecoverState.  The manager is usable even if recovery fails.
RecoverState(m, c) ==
  /\ mgrPC[m] = "down"
  /\ config' = [config EXCEPT ![m] = c]
  /\ \/ Begin(m, "recover", None, Repair(getCurrentState(c), c))
     \/ /\ RecoverGetMayFail
        /\ Begin(m, "recover", None, initializeEmptyState(c))
     \/ /\ ApiMayFail
        /\ mgrPC' = [mgrPC EXCEPT ![m] = "free"]
        /\ UNCHANGED <<cmVars, mgrOp, mgrFor, mgrState, fresh, tries, crashes>>
  /\ UNCHANGED callVars

\* The caller after updateState returned, with or without an error.
AfterSuccess(p) == IF p = "create" THEN "config"
                   ELSE IF p = "rollback" THEN "failed" ELSE "stopped"
AfterError(p) == IF p = "dealloc" THEN "stuck" ELSE "failed"

\* The operation ends and unlocks the mutex.
Return(m, ok) ==
  LET a == mgrFor[m]
  IN /\ mgrPC' = [mgrPC EXCEPT ![m] = "free"]
     /\ mgrFor' = [mgrFor EXCEPT ![m] = None]
     /\ IF mgrOp[m] = "recover" THEN UNCHANGED <<pc, ip>>
        ELSE /\ pc' = [pc EXCEPT ![a] = IF ok THEN AfterSuccess(@) ELSE AfterError(@)]
             /\ ip' = IF ok /\ mgrOp[m] = "allocate"
                      THEN [ip EXCEPT ![a] = mgrState[m].alloc[a]] ELSE ip
     /\ UNCHANGED <<config, mgrOp, mgrState, tries, target, crashes>>

\* updateState: read the ConfigMap for its resource version.
UpdateGet(m) ==
  /\ mgrPC[m] = "get"
  /\ \/ /\ mgrPC' = [mgrPC EXCEPT ![m] = IF exists THEN "update" ELSE "create"]
        /\ fresh' = [fresh EXCEPT ![m] = exists]
        /\ UNCHANGED <<config, mgrOp, mgrFor, mgrState, tries, callVars, crashes>>
     \/ ApiMayFail /\ Return(m, FALSE) /\ UNCHANGED fresh
  /\ UNCHANGED cmVars

\* The write reaches the API server, and every other version read is stale.
Written(m) ==
  /\ exists' = TRUE
  /\ state' = mgrState[m]
  /\ fresh' = [n \in Manager |-> FALSE]

UpdateWrite(m) ==
  /\ mgrPC[m] = "update"
  /\ \/ fresh[m] /\ Written(m) /\ Return(m, TRUE)
     \/ /\ ~fresh[m] /\ tries[m] < MaxTries
        /\ mgrPC' = [mgrPC EXCEPT ![m] = "get"]
        /\ tries' = [tries EXCEPT ![m] = @ + 1]
        /\ UNCHANGED <<cmVars, config, mgrOp, mgrFor, mgrState, fresh, callVars, crashes>>
     \/ /\ ~fresh[m] /\ tries[m] = MaxTries
        /\ Return(m, FALSE) /\ UNCHANGED <<cmVars, fresh>>
     \/ ApiMayFail /\ Return(m, FALSE) /\ UNCHANGED <<cmVars, fresh>>
     \/ ApiMayFail /\ fresh[m] /\ Written(m) /\ Return(m, FALSE)

\* updateState found no ConfigMap.  AlreadyExists is no conflict for
\* RetryOnConflict, which returns it.
UpdateCreate(m) ==
  /\ mgrPC[m] = "create"
  /\ \/ ~exists /\ Written(m) /\ Return(m, TRUE)
     \/ exists /\ Return(m, FALSE) /\ UNCHANGED <<cmVars, fresh>>
     \/ ApiMayFail /\ Return(m, FALSE) /\ UNCHANGED <<cmVars, fresh>>
     \/ ApiMayFail /\ ~exists /\ Written(m) /\ Return(m, FALSE)

----------------------------------------------------------------------------
(* The provider *)

Goto(a, p) == pc' = [pc EXCEPT ![a] = p]

\* CreateInstance up to updateState.  StartVM may be called again for a sandbox
\* whose CreateInstance failed; an allocation it already has is used again.
CreateInstance(a) ==
  LET m == MgrOf[a]
      st == getCurrentState(config[m])
  IN /\ pc[a] \in {"idle", "failed"}
     /\ mgrPC[m] = "free"
     /\ \/ /\ st.alloc[a] # None
           /\ Goto(a, "config")
           /\ ip' = [ip EXCEPT ![a] = st.alloc[a]]
           /\ UNCHANGED <<cmVars, opVars, target, crashes>>
        \/ /\ st.alloc[a] = None
           /\ \E i \in IP : st.avail[i] > 0 /\ Begin(m, "allocate", a, Allocate(st, a, i))
           /\ Goto(a, "create")
           /\ UNCHANGED <<config, ip, target>>
        \* the pool is empty, the VM is not ready or the Get failed
        \/ /\ ApiMayFail \/ st.alloc[a] = None
           /\ Goto(a, "failed")
           /\ UNCHANGED <<cmVars, opVars, ip, target, crashes>>

\* CreateInstance after AllocateIP: generate and send the user data.
SendConfigFile(a) ==
  /\ pc[a] = "config"
  /\ \E p \in {"running", "rollback"} : Goto(a, p)
  /\ UNCHANGED <<cmVars, opVars, ip, target, crashes>>

\* DeleteInstance: reboot the VM, then find the allocation ID of its address.
DeleteInstance(a) ==
  LET st == getCurrentState(config[MgrOf[a]])
  IN /\ pc[a] = "running"
     /\ mgrPC[MgrOf[a]] # "down"
     /\ \/ \E t \in Alloc : /\ st.alloc[t] = ip[a]
                            /\ target' = [target EXCEPT ![a] = t]
                            /\ Goto(a, "dealloc")
        \/ /\ \A t \in Alloc : st.alloc[t] # ip[a]
           /\ Goto(a, "stopped")
           /\ UNCHANGED target
        \/ ApiMayFail /\ Goto(a, "stuck") /\ UNCHANGED target
     /\ UNCHANGED <<cmVars, opVars, ip, crashes>>

\* DeallocateIP up to updateState, in DeleteInstance or to roll CreateInstance back.
DeallocateIP(a) ==
  LET m == MgrOf[a]
      st == getCurrentState(config[m])
      t == IF pc[a] = "rollback" THEN a ELSE target[a]
  IN /\ pc[a] \in {"rollback", "dealloc"}
     /\ mgrPC[m] = "free"
     /\ \/ /\ st.alloc[t] # None
           /\ Begin(m, "deallocate", a, Deallocate(st, t))
           /\ UNCHANGED <<config, callVars>>
        \/ /\ st.alloc[t] = None
           /\ Goto(a, AfterSuccess(pc[a]))
           /\ UNCHANGED <<cmVars, opVars, ip, target, crashes>>
        \/ /\ ApiMayFail
           /\ Goto(a, AfterError(pc[a]))
           /\ UNCHANGED <<cmVars, opVars, ip, target, crashes>>

\* The process of m dies: its calls end where they are, running VMs go on.
Crash(m) ==
  /\ crashes < MaxCrashes
  /\ mgrPC[m] # "down"
  /\ crashes' = crashes + 1
  /\ mgrPC' = [mgrPC EXCEPT ![m] = "down"]
  /\ mgrFor' = [mgrFor EXCEPT ![m] = None]
  /\ pc' = [a \in Alloc |->
              IF MgrOf[a] # m THEN pc[a]
              ELSE IF pc[a] = "config" THEN "orphan"
              ELSE IF pc[a] \in {"create", "rollback", "dealloc", "failed"} THEN "dead"
              ELSE pc[a]]
  /\ UNCHANGED <<cmVars, config, mgrOp, mgrState, fresh, tries, ip, target>>

Next ==
  \/ \E m \in Manager : \/ \E c \in Configs : RecoverState(m, c)
                        \/ UpdateGet(m) \/ UpdateWrite(m) \/ UpdateCreate(m)
                        \/ Crash(m)
  \/ \E a \in Alloc : \/ CreateInstance(a) \/ SendConfigFile(a)
                      \/ DeleteInstance(a) \/ DeallocateIP(a)

Spec == Init /\ [][Next]_vars

----------------------------------------------------------------------------
(* Properties *)

\* No address is listed twice: available once at the most, allocated to one
\* allocation ID at the most, and not both.
Consistent(st) ==
  /\ \A i \in IP : st.avail[i] <= 1
  /\ \A a \in Alloc : st.alloc[a] # None => st.avail[st.alloc[a]] = 0
  /\ \A a, b \in Alloc : st.alloc[a] = st.alloc[b] /\ st.alloc[a] # None => a = b

\* Every address of set c is listed.
Covers(st, c) ==
  \A i \in c : st.avail[i] > 0 \/ \E a \in Alloc : st.alloc[a] = i

\* The addresses that every configuration has.
AlwaysConfigured == {i \in IP : \A c \in Configs : i \in c}

\* The state in the ConfigMap, and every state a manager is about to write, lists
\* no address twice and loses none, whatever managers overwrite each other's.
PoolConsistent ==
  /\ exists => Consistent(state) /\ Covers(state, AlwaysConfigured)
  /\ \A m \in Manager : mgrPC[m] \in {"get", "update", "create"} =>
       Consistent(mgrState[m]) /\ Covers(mgrState[m], AlwaysConfigured)

\* The sandbox's VM runs, or CreateInstance is about to set it up.
InUse(a) == pc[a] \in {"config", "running", "orphan"}

\* Two sandboxes never use one VM.
NoDoubleUse ==
  \A a, b \in Alloc : a # b /\ InUse(a) /\ InUse(b) => ip[a] # ip[b]

\* The allocations in the ConfigMap.
CurrentAlloc == getCurrentState({}).alloc

\* With one manager the ConfigMap behaves like the pool that the documentation
\* promises, whatever fails or crashes in between.
Pool == INSTANCE IPPool WITH used <- CurrentAlloc
ImplementsPool == Pool!Spec

\* RecoverState keeps all allocations: no step of it takes one away.
RecoveryKeepsAllocations ==
  [][\A m \in Manager, a \in Alloc :
       mgrOp[m] = "recover" /\ mgrPC[m] # mgrPC'[m] /\ exists /\ state.alloc[a] # None
         => state'.alloc[a] = state.alloc[a]]_vars

----------------------------------------------------------------------------
(***************************************************************************)
(* The inductive invariants behind PoolConsistent, for any managers, and    *)
(* NoDoubleUse and ImplementsPool, for one manager whose recovery can read. *)
(***************************************************************************)

Busy(m) == mgrPC[m] \in {"get", "update", "create"}

\* A manager that is up has one of the configurations, and DeleteInstance has
\* found an allocation ID before it deallocates.
Bookkeeping ==
  /\ \A m \in Manager : mgrPC[m] # "down" => config[m] \in Configs
  /\ \A a \in Alloc : pc[a] = "dealloc" => target[a] \in Alloc

PoolInv == TypeOK /\ Bookkeeping /\ PoolConsistent

\* The mutex is held for a sandbox of the manager's own that waits in the operation.
MutexHolder ==
  \A m \in Manager : Busy(m) /\ mgrOp[m] # "recover" =>
    /\ mgrFor[m] \in Alloc /\ MgrOf[mgrFor[m]] = m
    /\ mgrOp[m] = "allocate" => pc[mgrFor[m]] = "create"
    /\ mgrOp[m] = "deallocate" => pc[mgrFor[m]] \in {"rollback", "dealloc"}

OneManager == (\A m, n \in Manager : m = n) /\ ~RecoverGetMayFail

\* The address of a VM in use is recorded for its sandbox.
InUseIsRecorded ==
  \A a \in Alloc : /\ InUse(a) => ip[a] # None /\ CurrentAlloc[a] = ip[a]
                   /\ pc[a] = "dealloc" => target[a] = a

\* What updateState is about to write differs from the ConfigMap in the one
\* allocation that its caller asked for.
WriteIsMine ==
  \A m \in Manager : Busy(m) =>
    LET a == mgrFor[m] IN
    /\ mgrOp[m] = "recover" => mgrState[m].alloc = CurrentAlloc
    /\ mgrOp[m] = "allocate" => /\ CurrentAlloc[a] = None
                                /\ \E i \in IP : /\ \A b \in Alloc : CurrentAlloc[b] # i
                                                 /\ mgrState[m].alloc = [CurrentAlloc EXCEPT ![a] = i]
    /\ mgrOp[m] = "deallocate" => /\ CurrentAlloc[a] # None
                                  /\ mgrState[m].alloc = [CurrentAlloc EXCEPT ![a] = None]

OneManagerInv == PoolInv /\ MutexHolder /\ InUseIsRecorded /\ WriteIsMine
=============================================================================
