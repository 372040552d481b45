--------------------------- MODULE BYOMPoolProofs ---------------------------
(* Proofs about BYOMPool, for all addresses, sandboxes, managers and bounds. *)
EXTENDS BYOMPool, TLAPS

(* The tuples of variables are abbreviations in every proof below. *)
USE DEF cmVars, opVars, callVars

\* A state that lists no address twice and loses none.
Good(st) == st \in PoolState /\ Consistent(st) /\ Covers(st, AlwaysConfigured)

\* initializeEmptyState makes a good state of every configuration.
LEMMA EmptyIsGood ==
  ASSUME NEW c \in SUBSET IP
  PROVE  /\ initializeEmptyState(c) \in PoolState
         /\ c \in Configs => Good(initializeEmptyState(c))
<1>1. initializeEmptyState(c) \in PoolState
  BY PoolAssumption, Zenon DEF initializeEmptyState, PoolState
<1>2. QED
  BY <1>1, PoolAssumption DEF initializeEmptyState, Consistent, Covers, AlwaysConfigured, Good

\* doAllocateIP keeps a state good, and takes an address that nobody has.
LEMMA AllocateIsGood ==
  ASSUME NEW st, Good(st), NEW a \in Alloc, st.alloc[a] = None, NEW i \in IP, st.avail[i] > 0
  PROVE  Good(Allocate(st, a, i)) /\ \A b \in Alloc : st.alloc[b] # i
<1>1. st.avail[i] = 1 /\ \A b \in Alloc : st.alloc[b] # i
  BY PoolAssumption DEF Good, PoolState, Consistent
<1>2. Allocate(st, a, i) \in PoolState
  BY <1>1 DEF Good, Allocate, PoolState
<1> DEFINE new == Allocate(st, a, i)
<1>3. /\ new.avail[i] = 0 /\ \A j \in IP \ {i} : new.avail[j] = st.avail[j]
      /\ new.alloc[a] = i /\ \A b \in Alloc \ {a} : new.alloc[b] = st.alloc[b]
  BY <1>1 DEF Allocate, Good, PoolState
<1>. HIDE DEF new
<1>4. Consistent(new)
  BY <1>1, <1>3 DEF Good, PoolState, Consistent
<1>5. Covers(new, AlwaysConfigured)
  BY <1>3, PoolAssumption DEF Good, Covers, AlwaysConfigured
<1>6. QED
  BY <1>1, <1>2, <1>4, <1>5, Zenon DEF Good, new

\* doDeallocateIP keeps a state good.
LEMMA DeallocateIsGood ==
  ASSUME NEW st, Good(st), NEW a \in Alloc, st.alloc[a] # None
  PROVE  Good(Deallocate(st, a))
<1>1. PICK i \in IP : i = st.alloc[a] /\ st.avail[i] = 0
  BY Zenon DEF Good, PoolState, Consistent
<1>2. \A b \in Alloc \ {a} : st.alloc[b] # i
  BY <1>1, Zenon DEF Good, Consistent
<1>3. Deallocate(st, a) \in PoolState
  BY <1>1 DEF Good, Deallocate, PoolState
<1> DEFINE new == Deallocate(st, a)
<1>4. /\ new.avail[i] = 1 /\ \A j \in IP \ {i} : new.avail[j] = st.avail[j]
      /\ new.alloc[a] = None /\ \A b \in Alloc \ {a} : new.alloc[b] = st.alloc[b]
  BY <1>1 DEF Good, Deallocate, PoolState
<1>. HIDE DEF new
<1>5. Consistent(new)
  BY <1>2, <1>4 DEF Good, PoolState, Consistent
<1>6. Covers(new, AlwaysConfigured)
  BY <1>1, <1>4 DEF Good, Covers, AlwaysConfigured
<1>7. QED
  BY <1>3, <1>5, <1>6, Zenon DEF Good, new

\* repairStateFromPrimaryConfig makes a good state of one that lists no address twice.
LEMMA RepairIsGood ==
  ASSUME NEW st, st \in PoolState, Consistent(st), NEW c \in Configs
  PROVE  Good(Repair(st, c))
<1>1. Repair(st, c) \in PoolState
  BY Zenon DEF Repair, PoolState
<1> DEFINE new == Repair(st, c)
<1>2. /\ new.alloc = st.alloc
      /\ \A i \in IP : new.avail[i] = IF i \in c /\ \A a \in Alloc : st.alloc[a] # i THEN 1 ELSE 0
  BY Zenon DEF Repair
<1>. HIDE DEF new
<1>3. Consistent(new)
  BY <1>2 DEF PoolState, Consistent
<1>4. \A i \in AlwaysConfigured : new.avail[i] = 1 \/ \E a \in Alloc : new.alloc[a] = i
  BY <1>2, Zenon DEF AlwaysConfigured
<1>5. QED
  BY <1>1, <1>3, <1>4 DEF Good, Covers, new

\* getCurrentState reads a good state.
LEMMA ReadIsGood ==
  ASSUME PoolInv, NEW c \in Configs
  PROVE  Good(getCurrentState(c))
<1>1. CASE exists
  BY <1>1, Zenon DEF getCurrentState, Good, PoolInv, TypeOK, PoolConsistent
<1>2. CASE ~exists
  BY <1>2, EmptyIsGood, PoolAssumption, Zenon DEF getCurrentState
<1>3. QED
  BY <1>1, <1>2, Zenon DEF PoolInv, TypeOK

\* So does the manager of a sandbox, once it is up.
LEMMA ManagerReadsGood ==
  ASSUME PoolInv, NEW a \in Alloc, mgrPC[MgrOf[a]] # "down"
  PROVE  Good(getCurrentState(config[MgrOf[a]]))
  BY ReadIsGood, PoolAssumption, Zenon DEF PoolInv, Bookkeeping

\* The types of a manager's operation and of the sandboxes' calls.
OpTypeOK ==
  /\ mgrPC \in [Manager -> {"down", "free", "get", "update", "create"}]
  /\ mgrOp \in [Manager -> {"recover", "allocate", "deallocate"}]
  /\ mgrFor \in [Manager -> Alloc \cup {None}]
  /\ mgrState \in [Manager -> PoolState]
  /\ fresh \in [Manager -> BOOLEAN]
  /\ tries \in [Manager -> 1..MaxTries]
CallTypeOK ==
  /\ pc \in [Alloc -> PC]
  /\ ip \in [Alloc -> IP \cup {None}]
  /\ target \in [Alloc -> Alloc \cup {None}]

\* PoolConsistent is kept when the ConfigMap only takes states that updateState
\* holds, and updateState only takes good ones.
LEMMA ConsistencyKept ==
  ASSUME PoolInv,
         exists' => \/ exists /\ state' = state
                    \/ \E m \in Manager : Busy(m) /\ state' = mgrState[m],
         \A n \in Manager : Busy(n)' => \/ Busy(n) /\ mgrState'[n] = mgrState[n]
                                        \/ Good(mgrState'[n])
  PROVE  PoolConsistent'
<1> DEFINE Fine(st) == Consistent(st) /\ Covers(st, AlwaysConfigured)
<1>1. /\ exists => Fine(state)
      /\ \A n \in Manager : Busy(n) => Fine(mgrState[n])
      /\ \A st : Good(st) => Fine(st)
  BY Zenon DEF PoolInv, PoolConsistent, Busy, Good
<1>2. (exists' => Fine(state')) /\ \A n \in Manager : Busy(n)' => Fine(mgrState'[n])
  <2>. HIDE DEF Fine
  <2>1. QED
    BY <1>1, Zenon
<1>3. QED
  BY <1>2, Zenon DEF PoolConsistent, Busy

\* The initial state satisfies PoolInv.
LEMMA PoolInit == ASSUME Init PROVE PoolInv
<1>1. initializeEmptyState({}) \in PoolState /\ 0 \in 0..MaxCrashes /\ 1 \in 1..MaxTries
  BY EmptyIsGood, PoolAssumption
<1>2. TypeOK
  BY <1>1, Zenon DEF Init, TypeOK, PC
<1>3. QED
  BY <1>2, Zenon DEF Init, Bookkeeping, PoolConsistent, PoolInv

\* An operation that starts with a good state.
LEMMA BeginKeeps ==
  ASSUME PoolInv, NEW m \in Manager, NEW op \in {"recover", "allocate", "deallocate"},
         NEW a \in Alloc \cup {None}, NEW st, Good(st), Begin(m, op, a, st)
  PROVE  /\ OpTypeOK' /\ PoolConsistent' /\ UNCHANGED <<exists, state, crashes>>
         /\ mgrPC'[m] = "get" /\ mgrOp'[m] = op /\ mgrFor'[m] = a /\ mgrState'[m] = st
         /\ \A n \in Manager \ {m} : mgrPC'[n] = mgrPC[n]
<1>1. OpTypeOK'
  BY PoolAssumption DEF Begin, PoolInv, TypeOK, OpTypeOK, Good
<1>2. /\ mgrPC'[m] = "get" /\ mgrOp'[m] = op /\ mgrFor'[m] = a /\ mgrState'[m] = st
      /\ \A n \in Manager \ {m} : mgrPC'[n] = mgrPC[n] /\ mgrState'[n] = mgrState[n]
      /\ UNCHANGED <<exists, state, crashes>>
  BY Zenon DEF Begin, PoolInv, TypeOK
<1>3. PoolConsistent'
  BY <1>2, ConsistencyKept, Zenon DEF Busy
<1>4. QED
  BY <1>1, <1>2, <1>3, Zenon

\* Where the caller goes on after updateState.
LEMMA AfterTypes ==
  ASSUME NEW p
  PROVE  /\ AfterSuccess(p) \in {"config", "failed", "stopped"}
         /\ AfterError(p) \in {"stuck", "failed"}
  BY Zenon DEF AfterSuccess, AfterError

\* An operation that returns, with the write to the ConfigMap or without it.
LEMMA ReturnKeeps ==
  ASSUME PoolInv, NEW m \in Manager, Busy(m), NEW ok \in BOOLEAN, Return(m, ok),
         Written(m) \/ UNCHANGED <<exists, state, fresh>>
  PROVE  PoolInv'
<1>1. exists' \in BOOLEAN /\ state' \in PoolState /\ fresh' \in [Manager -> BOOLEAN]
  <2>1. exists \in BOOLEAN /\ {state, mgrState[m]} \subseteq PoolState /\ fresh \in [Manager -> BOOLEAN]
    BY DEF PoolInv, TypeOK
  <2>2. QED
    BY <2>1, Zenon DEF Written
<1>2. /\ \A b \in Alloc : pc'[b] \in {pc[b], "config", "failed", "stopped", "stuck"}
      /\ pc' \in [Alloc -> PC]
  <2>1. \E p \in {"config", "failed", "stopped", "stuck"} :
          pc' = pc \/ pc' = [pc EXCEPT ![mgrFor[m]] = p]
    BY AfterTypes, Zenon DEF Return
  <2>2. QED
    BY <2>1 DEF PoolInv, TypeOK, PC
<1>3. ip' \in [Alloc -> IP \cup {None}]
  <2>1. mgrFor[m] \in Alloc => mgrState[m].alloc[mgrFor[m]] \in IP \cup {None}
    BY DEF PoolInv, TypeOK, PoolState
  <2>2. QED
    BY <2>1, Zenon DEF Return, PoolInv, TypeOK
<1>4. /\ UNCHANGED <<config, mgrOp, mgrState, tries, target, crashes>>
      /\ mgrPC' \in [Manager -> {"down", "free", "get", "update", "create"}]
      /\ mgrFor' \in [Manager -> Alloc \cup {None}]
      /\ \A n \in Manager : mgrPC'[n] = IF n = m THEN "free" ELSE mgrPC[n]
  BY Zenon DEF Return, PoolInv, TypeOK
<1>5. TypeOK'
  BY <1>1, <1>2, <1>3, <1>4, Zenon DEF PoolInv, TypeOK
<1>6. Bookkeeping'
  BY <1>2, <1>4, Zenon DEF PoolInv, Bookkeeping, Busy
<1>7. exists' => \/ exists /\ state' = state
                 \/ \E n \in Manager : Busy(n) /\ state' = mgrState[n]
  BY Zenon DEF Written
<1>8. PoolConsistent'
  BY <1>4, <1>7, ConsistencyKept, Zenon DEF Busy
<1>9. QED
  BY <1>5, <1>6, <1>8, Zenon DEF PoolInv

\* A step of the manager between two requests of updateState.
LEMMA RetryKeeps ==
  ASSUME PoolInv, NEW m \in Manager, Busy(m), NEW p \in {"get", "update", "create"},
         mgrPC' = [mgrPC EXCEPT ![m] = p],
         fresh' \in [Manager -> BOOLEAN], tries' \in [Manager -> 1..MaxTries],
         UNCHANGED <<exists, state, config, mgrOp, mgrFor, mgrState, pc, ip, target, crashes>>
  PROVE  PoolInv'
<1>1. /\ mgrPC' \in [Manager -> {"down", "free", "get", "update", "create"}]
      /\ \A n \in Manager : mgrPC'[n] = IF n = m THEN p ELSE mgrPC[n]
  BY Zenon DEF PoolInv, TypeOK
<1>2. TypeOK'
  BY <1>1, Zenon DEF PoolInv, TypeOK
<1>3. Bookkeeping'
  BY <1>1, Zenon DEF PoolInv, Bookkeeping, Busy
<1>4. PoolConsistent'
  BY <1>1, ConsistencyKept, Zenon DEF Busy
<1>5. QED
  BY <1>2, <1>3, <1>4, Zenon DEF PoolInv

\* A step of a sandbox's call that does not touch the pool.
LEMMA CallKeeps ==
  ASSUME PoolInv, NEW a \in Alloc, NEW p \in PC, Goto(a, p),
         ip' \in [Alloc -> IP \cup {None}],
         \/ UNCHANGED target /\ p # "dealloc"
         \/ \E t \in Alloc : target' = [target EXCEPT ![a] = t],
         UNCHANGED <<cmVars, opVars, crashes>>
  PROVE  PoolInv'
<1>1. CallTypeOK'
  <2>1. target' \in [Alloc -> Alloc \cup {None}]
    BY Zenon DEF PoolInv, TypeOK
  <2>2. QED
    BY <2>1, Zenon DEF Goto, PoolInv, TypeOK, CallTypeOK
<1>2. TypeOK'
  BY <1>1, Zenon DEF PoolInv, TypeOK, CallTypeOK
<1>3. Bookkeeping'
  BY Zenon DEF PoolInv, TypeOK, Bookkeeping, Goto
<1>4. PoolConsistent'
  BY ConsistencyKept, Zenon DEF Busy
<1>5. QED
  BY <1>2, <1>3, <1>4, Zenon DEF PoolInv

\* An operation begins and may move a sandbox's call.
LEMMA BeginKeepsPool ==
  ASSUME PoolInv, NEW m \in Manager, NEW op \in {"recover", "allocate", "deallocate"},
         NEW a \in Alloc \cup {None}, NEW st, Good(st), Begin(m, op, a, st),
         config' \in [Manager -> SUBSET IP], config'[m] \in Configs,
         \A n \in Manager \ {m} : config'[n] = config[n],
         pc' = pc \/ (a \in Alloc /\ Goto(a, "create")), UNCHANGED <<ip, target>>
  PROVE  PoolInv'
<1>1. /\ pc' \in [Alloc -> PC]
      /\ \A b \in Alloc : pc'[b] = "dealloc" => pc[b] = "dealloc"
  BY Zenon DEF Goto, PoolInv, TypeOK, PC
<1>2. /\ OpTypeOK' /\ PoolConsistent' /\ UNCHANGED <<exists, state, crashes>>
      /\ \A n \in Manager \ {m} : mgrPC'[n] = mgrPC[n]
  BY BeginKeeps, Zenon
<1>3. TypeOK'
  BY <1>1, <1>2, Zenon DEF PoolInv, TypeOK, OpTypeOK
<1>4. Bookkeeping'
  BY <1>1, <1>2, Zenon DEF PoolInv, Bookkeeping
<1>5. QED
  BY <1>2, <1>3, <1>4, Zenon DEF PoolInv

\* RecoverState keeps PoolInv.
LEMMA RecoverStateKeeps ==
  ASSUME PoolInv, NEW m \in Manager, NEW c \in Configs, RecoverState(m, c)
  PROVE  PoolInv'
<1>1. /\ config' \in [Manager -> SUBSET IP] /\ config'[m] = c
      /\ \A n \in Manager \ {m} : config'[n] = config[n]
      /\ UNCHANGED <<pc, ip, target>>
  BY PoolAssumption DEF RecoverState, PoolInv, TypeOK
<1>2. ASSUME NEW st, Good(st), Begin(m, "recover", None, st) PROVE PoolInv'
  BY <1>1, <1>2, BeginKeepsPool, Zenon
<1>3. Good(Repair(getCurrentState(c), c)) /\ Good(initializeEmptyState(c))
  BY ReadIsGood, RepairIsGood, EmptyIsGood, PoolAssumption, Zenon DEF Good
<1>4. CASE /\ mgrPC' = [mgrPC EXCEPT ![m] = "free"]
           /\ UNCHANGED <<cmVars, mgrOp, mgrFor, mgrState, fresh, tries, crashes>>
  <2>1. /\ mgrPC' \in [Manager -> {"down", "free", "get", "update", "create"}]
        /\ \A n \in Manager : mgrPC'[n] = IF n = m THEN "free" ELSE mgrPC[n]
    BY <1>4, Zenon DEF PoolInv, TypeOK
  <2>2. TypeOK'
    BY <1>1, <1>4, <2>1, Zenon DEF PoolInv, TypeOK
  <2>3. Bookkeeping'
    BY <1>1, <2>1, Zenon DEF PoolInv, Bookkeeping
  <2>4. PoolConsistent'
    BY <1>4, <2>1, ConsistencyKept, Zenon DEF Busy
  <2>5. QED
    BY <2>2, <2>3, <2>4, Zenon DEF PoolInv
<1>5. QED
  BY <1>2, <1>3, <1>4, Zenon DEF RecoverState

\* updateState keeps PoolInv.
LEMMA UpdateKeeps ==
  ASSUME PoolInv, NEW m \in Manager, UpdateGet(m) \/ UpdateWrite(m) \/ UpdateCreate(m)
  PROVE  PoolInv'
<1>1. Busy(m)
  BY Zenon DEF UpdateGet, UpdateWrite, UpdateCreate, Busy
<1>2. CASE \E ok \in BOOLEAN : Return(m, ok) /\ (Written(m) \/ UNCHANGED <<cmVars, fresh>>)
  BY <1>1, <1>2, ReturnKeeps, Zenon
<1>3. CASE /\ mgrPC' = [mgrPC EXCEPT ![m] = IF exists THEN "update" ELSE "create"]
           /\ fresh' = [fresh EXCEPT ![m] = exists]
           /\ UNCHANGED <<cmVars, config, mgrOp, mgrFor, mgrState, tries, callVars, crashes>>
  <2>1. fresh' \in [Manager -> BOOLEAN] /\ tries' \in [Manager -> 1..MaxTries]
    BY <1>3, Zenon DEF PoolInv, TypeOK
  <2>2. QED
    BY <1>1, <1>3, <2>1, RetryKeeps, Zenon
<1>4. CASE /\ tries[m] < MaxTries
           /\ mgrPC' = [mgrPC EXCEPT ![m] = "get"]
           /\ tries' = [tries EXCEPT ![m] = @ + 1]
           /\ UNCHANGED <<cmVars, config, mgrOp, mgrFor, mgrState, fresh, callVars, crashes>>
  <2>1. fresh' \in [Manager -> BOOLEAN] /\ tries' \in [Manager -> 1..MaxTries]
    BY <1>4, PoolAssumption DEF PoolInv, TypeOK
  <2>2. QED
    BY <1>1, <1>4, <2>1, RetryKeeps, Zenon
<1>5. QED
  BY <1>2, <1>3, <1>4, Zenon DEF UpdateGet, UpdateWrite, UpdateCreate

\* CreateInstance keeps PoolInv.
LEMMA CreateInstanceKeeps ==
  ASSUME PoolInv, NEW a \in Alloc, CreateInstance(a)
  PROVE  PoolInv'
<1>1. PICK m \in Manager : m = MgrOf[a]
  BY PoolAssumption, Zenon
<1>2. PICK st : st = getCurrentState(config[m])
  OBVIOUS
<1>3. mgrPC[m] = "free" /\ Good(st)
  BY <1>1, <1>2, ManagerReadsGood, Zenon DEF CreateInstance
<1>4. CASE \E p \in {"config", "failed"} :
             /\ Goto(a, p)
             /\ ip' \in {ip, [ip EXCEPT ![a] = st.alloc[a]]}
             /\ UNCHANGED <<cmVars, opVars, target, crashes>>
  <2>1. st.alloc[a] \in IP \cup {None} /\ {"config", "failed"} \subseteq PC \ {"dealloc"}
    BY <1>3, Zenon DEF Good, PoolState, PC
  <2>2. ip' \in [Alloc -> IP \cup {None}]
    BY <1>4, <2>1, Zenon DEF PoolInv, TypeOK
  <2>3. QED
    BY <1>4, <2>1, <2>2, CallKeeps, Zenon
<1>5. CASE /\ st.alloc[a] = None
           /\ \E i \in IP : st.avail[i] > 0 /\ Begin(m, "allocate", a, Allocate(st, a, i))
           /\ Goto(a, "create")
           /\ UNCHANGED <<config, ip, target>>
  <2>1. PICK i \in IP : Good(Allocate(st, a, i)) /\ Begin(m, "allocate", a, Allocate(st, a, i))
    BY <1>3, <1>5, AllocateIsGood, Zenon
  <2>2. config \in [Manager -> SUBSET IP] /\ config[m] \in Configs
    BY <1>3, Zenon DEF PoolInv, TypeOK, Bookkeeping
  <2>3. QED
    BY <1>5, <2>1, <2>2, BeginKeepsPool, Zenon
<1>6. QED
  BY <1>1, <1>2, <1>4, <1>5, Zenon DEF CreateInstance

\* SendConfigFile and DeleteInstance keep PoolInv.
LEMMA SendAndDeleteKeep ==
  ASSUME PoolInv, NEW a \in Alloc, SendConfigFile(a) \/ DeleteInstance(a)
  PROVE  PoolInv'
<1>1. /\ {"running", "rollback", "stopped", "stuck"} \subseteq PC \ {"dealloc"}
      /\ "dealloc" \in PC /\ ip' \in [Alloc -> IP \cup {None}]
  BY Zenon DEF PC, SendConfigFile, DeleteInstance, PoolInv, TypeOK
<1>2. UNCHANGED <<cmVars, opVars, crashes>>
  BY Zenon DEF SendConfigFile, DeleteInstance
<1>3. CASE \E t \in Alloc : target' = [target EXCEPT ![a] = t] /\ Goto(a, "dealloc")
  BY <1>1, <1>2, <1>3, CallKeeps, Zenon
<1>4. CASE UNCHANGED target /\ \E p \in {"running", "rollback", "stopped", "stuck"} : Goto(a, p)
  BY <1>1, <1>2, <1>4, CallKeeps, Zenon
<1>5. QED
  BY <1>3, <1>4, Zenon DEF SendConfigFile, DeleteInstance

\* DeallocateIP keeps PoolInv.
LEMMA DeallocateIPKeeps ==
  ASSUME PoolInv, NEW a \in Alloc, DeallocateIP(a)
  PROVE  PoolInv'
<1>1. PICK m \in Manager : m = MgrOf[a]
  BY PoolAssumption, Zenon
<1>2. PICK st : st = getCurrentState(config[m])
  OBVIOUS
<1>3. PICK t \in Alloc : t = IF pc[a] = "rollback" THEN a ELSE target[a]
  BY Zenon DEF DeallocateIP, PoolInv, Bookkeeping
<1>4. mgrPC[m] = "free" /\ Good(st)
  BY <1>1, <1>2, ManagerReadsGood, Zenon DEF DeallocateIP
<1>5. CASE /\ st.alloc[t] # None
           /\ Begin(m, "deallocate", a, Deallocate(st, t))
           /\ UNCHANGED <<config, callVars>>
  <2>1. Good(Deallocate(st, t)) /\ config \in [Manager -> SUBSET IP] /\ config[m] \in Configs
    BY <1>4, <1>5, DeallocateIsGood, Zenon DEF PoolInv, TypeOK, Bookkeeping
  <2>2. QED
    BY <1>5, <2>1, BeginKeepsPool, Zenon
<1>6. CASE \E p \in {AfterSuccess(pc[a]), AfterError(pc[a])} :
             Goto(a, p) /\ UNCHANGED <<cmVars, opVars, ip, target, crashes>>
  <2>1. /\ {AfterSuccess(pc[a]), AfterError(pc[a])} \subseteq PC \ {"dealloc"}
        /\ ip' \in [Alloc -> IP \cup {None}]
    BY <1>6, AfterTypes, Zenon DEF PC, PoolInv, TypeOK
  <2>2. QED
    BY <1>6, <2>1, CallKeeps, Zenon
<1>7. QED
  BY <1>1, <1>2, <1>3, <1>5, <1>6, Zenon DEF DeallocateIP

\* Crash keeps PoolInv.
LEMMA CrashKeeps ==
  ASSUME PoolInv, NEW m \in Manager, Crash(m)
  PROVE  PoolInv'
<1>1. /\ crashes' \in 0..MaxCrashes /\ pc' \in [Alloc -> PC]
      /\ mgrPC' \in [Manager -> {"down", "free", "get", "update", "create"}]
      /\ mgrFor' \in [Manager -> Alloc \cup {None}]
  BY PoolAssumption DEF Crash, PoolInv, TypeOK, PC
<1>2. /\ UNCHANGED <<cmVars, config, mgrOp, mgrState, fresh, tries, ip, target>>
      /\ \A n \in Manager : mgrPC'[n] = IF n = m THEN "down" ELSE mgrPC[n]
      /\ \A b \in Alloc : pc'[b] = "dealloc" => pc[b] = "dealloc"
  BY Zenon DEF Crash, PoolInv, TypeOK
<1>3. TypeOK'
  BY <1>1, <1>2, Zenon DEF PoolInv, TypeOK
<1>4. Bookkeeping'
  BY <1>2, Zenon DEF PoolInv, Bookkeeping
<1>5. PoolConsistent'
  BY <1>2, ConsistencyKept, Zenon DEF Busy
<1>6. QED
  BY <1>3, <1>4, <1>5, Zenon DEF PoolInv

\* PoolInv is inductive.
LEMMA PoolStep == ASSUME PoolInv, [Next]_vars PROVE PoolInv'
<1>1. CASE UNCHANGED vars
  BY <1>1, Zenon DEF vars, PoolInv, TypeOK, Bookkeeping, PoolConsistent
<1>2. QED
  BY <1>1, RecoverStateKeeps, UpdateKeeps, CrashKeeps, CreateInstanceKeeps,
     SendAndDeleteKeep, DeallocateIPKeeps, Zenon
  DEF Next

\* Every variable of the managers, the calls and the ConfigMap keeps its type.
THEOREM PoolTypeCorrect == Spec => []TypeOK
<1>1. PoolInv => TypeOK
  BY Zenon DEF PoolInv
<1>2. QED
  BY <1>1, PoolInit, PoolStep, PTL DEF Spec

\* The state in the ConfigMap lists no address twice and loses none, for any
\* number of managers that overwrite each other's updates, crash and restart with
\* an edited VM_POOL_IPS.
THEOREM PoolStaysConsistent == Spec => []PoolConsistent
<1>1. PoolInv => PoolConsistent
  BY Zenon DEF PoolInv
<1>2. QED
  BY <1>1, PoolInit, PoolStep, PTL DEF Spec

-----------------------------------------------------------------------------
(***************************************************************************)
(* BYOMPool with one manager, whose recovery can read the ConfigMap: the    *)
(* ConfigMap is the pool of IPPool, and no VM is used twice.                *)
(***************************************************************************)

\* The allocations in the ConfigMap do not depend on the configuration.
LEMMA CurrentAllocRead ==
  ASSUME NEW c
  PROVE  getCurrentState(c).alloc = CurrentAlloc
  BY Zenon DEF getCurrentState, CurrentAlloc, initializeEmptyState

\* CurrentAlloc has its type, and an address has one holder.
LEMMA CurrentAllocType ==
  ASSUME PoolInv
  PROVE  /\ CurrentAlloc \in [Alloc -> IP \cup {None}]
         /\ \A a, b \in Alloc : CurrentAlloc[a] = CurrentAlloc[b] /\ CurrentAlloc[a] # None => a = b
<1>1. CASE exists
  BY <1>1, Zenon DEF CurrentAlloc, getCurrentState, PoolInv, TypeOK, PoolConsistent, Consistent, PoolState
<1>2. CASE ~exists
  BY <1>2, Zenon DEF CurrentAlloc, getCurrentState, initializeEmptyState
<1>3. QED
  BY <1>1, <1>2, Zenon

\* DeallocateIP takes the allocation of its sandbox away.
LEMMA DeallocateAlloc ==
  ASSUME NEW st, NEW a
  PROVE  Deallocate(st, a).alloc = [st.alloc EXCEPT ![a] = None]
  BY Zenon DEF Deallocate

\* A step that leaves the ConfigMap alone leaves CurrentAlloc alone.
LEMMA CurrentAllocKept ==
  ASSUME UNCHANGED cmVars
  PROVE  CurrentAlloc' = CurrentAlloc
  BY Zenon DEF CurrentAlloc, getCurrentState, initializeEmptyState

\* The initial state satisfies OneManagerInv.
LEMMA OneManagerInit == ASSUME Init PROVE OneManagerInv
<1>1. \A m \in Manager : ~Busy(m)
  BY Zenon DEF Init, Busy
<1>2. InUseIsRecorded
  BY Zenon DEF Init, InUseIsRecorded, InUse
<1>3. QED
  BY <1>1, <1>2, PoolInit, Zenon DEF WriteIsMine, MutexHolder, OneManagerInv

\* What updateState writes is a step of the pool: nothing, one free address that
\* a sandbox without one takes, or one that is given back.
LEMMA WriteIsPoolStep ==
  ASSUME OneManagerInv, NEW m \in Manager, Busy(m), Written(m)
  PROVE  /\ CurrentAlloc' = mgrState[m].alloc
         /\ \/ mgrOp[m] = "recover" /\ CurrentAlloc' = CurrentAlloc
            \/ /\ mgrOp[m] # "recover" /\ mgrFor[m] \in Alloc
               /\ \E i \in IP \cup {None} : CurrentAlloc' = [CurrentAlloc EXCEPT ![mgrFor[m]] = i]
         /\ [Pool!Next]_CurrentAlloc
<1>1. CurrentAlloc' = mgrState[m].alloc
  BY Zenon DEF Written, CurrentAlloc, getCurrentState
<1>2. mgrOp[m] \in {"recover", "allocate", "deallocate"}
  BY Zenon DEF OneManagerInv, PoolInv, TypeOK
<1>3. CASE mgrOp[m] = "recover"
  BY <1>1, <1>3, Zenon DEF OneManagerInv, WriteIsMine
<1>4. CASE mgrOp[m] # "recover"
  <2>1. PICK a \in Alloc : a = mgrFor[m]
    BY <1>4, Zenon DEF OneManagerInv, MutexHolder
  <2>2. CASE mgrOp[m] = "allocate"
    <3>1. CurrentAlloc[a] = None
      BY <2>1, <2>2, Zenon DEF OneManagerInv, WriteIsMine
    <3>2. PICK i \in IP : /\ \A b \in Alloc : CurrentAlloc[b] # i
                          /\ mgrState[m].alloc = [CurrentAlloc EXCEPT ![a] = i]
      BY <2>1, <2>2, Zenon DEF OneManagerInv, WriteIsMine
    <3>3. QED
      BY <1>1, <1>4, <2>1, <3>1, <3>2, Zenon DEF Pool!Next, Pool!Take
  <2>3. CASE mgrOp[m] = "deallocate"
    <3>1. CurrentAlloc[a] # None /\ mgrState[m].alloc = [CurrentAlloc EXCEPT ![a] = None]
      BY <2>1, <2>3, Zenon DEF OneManagerInv, WriteIsMine
    <3>2. QED
      BY <1>1, <1>4, <2>1, <3>1, Zenon DEF Pool!Next, Pool!Return
  <2>4. QED
    BY <1>2, <1>4, <2>2, <2>3, Zenon
<1>5. QED
  BY <1>3, <1>4, Zenon

\* InUseIsRecorded is kept by a step of one sandbox's call that leaves the
\* allocations of the others alone.
LEMMA RecordedKept ==
  ASSUME OneManagerInv, NEW a \in Alloc,
         \A b \in Alloc \ {a} : /\ pc'[b] = pc[b] /\ ip'[b] = ip[b] /\ target'[b] = target[b]
                                /\ CurrentAlloc'[b] = CurrentAlloc[b],
         InUse(a)' => ip'[a] # None /\ CurrentAlloc'[a] = ip'[a],
         pc'[a] = "dealloc" => target'[a] = a
  PROVE  InUseIsRecorded'
<1>1. ASSUME NEW b \in Alloc, b # a
      PROVE  /\ InUse(b)' => ip'[b] # None /\ CurrentAlloc'[b] = ip'[b]
             /\ pc'[b] = "dealloc" => target'[b] = b
  BY <1>1, Zenon DEF OneManagerInv, InUseIsRecorded, InUse
<1>2. QED
  BY <1>1, Zenon DEF InUseIsRecorded

\* A manager that is not busy has nothing to write and holds no mutex.
LEMMA IdleManager ==
  ASSUME \A n \in Manager : ~Busy(n)'
  PROVE  MutexHolder' /\ WriteIsMine'
  BY Zenon DEF MutexHolder, WriteIsMine

\* Crash keeps OneManagerInv.
LEMMA CrashKeepsOne ==
  ASSUME OneManager, OneManagerInv, NEW m \in Manager, Crash(m)
  PROVE  OneManagerInv' /\ UNCHANGED CurrentAlloc
<1>1. PoolInv /\ PoolInv'
  BY CrashKeeps, Zenon DEF OneManagerInv
<1>2. /\ UNCHANGED cmVars /\ UNCHANGED <<ip, target>>
      /\ \A b \in Alloc : (InUse(b)' => InUse(b)) /\ (pc'[b] = "dealloc" => pc[b] = "dealloc")
  BY Zenon DEF Crash, InUse
<1>3. CurrentAlloc' = CurrentAlloc
  BY <1>2, CurrentAllocKept, Zenon
<1>4. InUseIsRecorded'
  BY <1>2, <1>3, Zenon DEF OneManagerInv, InUseIsRecorded
<1>5. \A n \in Manager : ~Busy(n)'
  BY <1>1, Zenon DEF Crash, OneManager, Busy, PoolInv, TypeOK
<1>6. QED
  BY <1>1, <1>3, <1>4, <1>5, IdleManager, Zenon DEF OneManagerInv

\* The return of an operation, with its write or without it, keeps OneManagerInv.
LEMMA ReturnKeepsOne ==
  ASSUME OneManager, OneManagerInv, NEW m \in Manager, Busy(m), NEW ok \in BOOLEAN, Return(m, ok),
         Written(m) \/ (UNCHANGED <<cmVars, fresh>> /\ ok = FALSE)
  PROVE  OneManagerInv' /\ [Pool!Next]_CurrentAlloc
<1>1. PoolInv /\ PoolInv'
  BY ReturnKeeps, Zenon DEF OneManagerInv
<1>2. \A n \in Manager : ~Busy(n)'
  BY <1>1, Zenon DEF OneManager, Return, Busy, PoolInv, TypeOK
<1>3. [Pool!Next]_CurrentAlloc
  BY WriteIsPoolStep, CurrentAllocKept, Zenon
<1>4. InUseIsRecorded'
  <2>1. CASE mgrOp[m] = "recover"
    <3>1. CurrentAlloc' = CurrentAlloc /\ pc' = pc /\ ip' = ip /\ target' = target
      BY <2>1, WriteIsPoolStep, CurrentAllocKept, Zenon DEF Return
    <3>2. QED
      BY <3>1, Zenon DEF OneManagerInv, InUseIsRecorded, InUse
  <2>2. CASE mgrOp[m] # "recover"
    <3>1. PICK a \in Alloc : mgrFor[m] = a
      BY <2>2, Zenon DEF OneManagerInv, MutexHolder
    <3>2. /\ \A b \in Alloc \ {a} : pc'[b] = pc[b] /\ ip'[b] = ip[b] /\ target'[b] = target[b]
          /\ pc'[a] = IF ok THEN AfterSuccess(pc[a]) ELSE AfterError(pc[a])
      BY <1>1, <2>2, <3>1 DEF Return, PoolInv, TypeOK
    <3>3. \A b \in Alloc \ {a} : CurrentAlloc'[b] = CurrentAlloc[b]
      BY <1>1, <2>2, <3>1, WriteIsPoolStep, CurrentAllocKept, CurrentAllocType
    <3>4. ASSUME InUse(a)' PROVE ip'[a] # None /\ CurrentAlloc'[a] = ip'[a]
      <4>1. ok /\ pc[a] = "create"
        BY <3>2, <3>4, Zenon DEF InUse, AfterSuccess, AfterError
      <4>2. mgrOp[m] = "allocate"
        BY <1>1, <2>2, <3>1, <4>1 DEF PoolInv, TypeOK, OneManagerInv, MutexHolder
      <4>3. PICK i \in IP : mgrState[m].alloc = [CurrentAlloc EXCEPT ![a] = i]
        BY <3>1, <4>2, Zenon DEF OneManagerInv, WriteIsMine
      <4>4. ip'[a] = mgrState[m].alloc[a]
        BY <1>1, <2>2, <3>1, <4>1, <4>2 DEF Return, PoolInv, TypeOK
      <4>5. CurrentAlloc' = mgrState[m].alloc /\ mgrState[m].alloc[a] = i /\ i # None
        BY <1>1, <4>1, <4>3, WriteIsPoolStep, CurrentAllocType, PoolAssumption, Zenon
      <4>6. QED
        BY <4>4, <4>5, Zenon
    <3>5. pc'[a] # "dealloc"
      BY <3>2, AfterTypes, Zenon
    <3>6. QED
      BY <3>2, <3>3, <3>4, <3>5, RecordedKept, Zenon
  <2>3. QED
    BY <2>1, <2>2, Zenon
<1>5. QED
  BY <1>1, <1>2, <1>3, <1>4, IdleManager, Zenon DEF OneManagerInv

\* A step of the manager that keeps its operation keeps OneManagerInv.
LEMMA SameOperationKeepsOne ==
  ASSUME OneManagerInv, PoolInv', UNCHANGED <<exists, state, pc, ip, target, mgrOp, mgrFor, mgrState>>,
         \A n \in Manager : Busy(n)' => Busy(n)
  PROVE  OneManagerInv' /\ UNCHANGED CurrentAlloc
<1>1. CurrentAlloc' = CurrentAlloc
  BY CurrentAllocKept, Zenon
<1>2. InUseIsRecorded' /\ MutexHolder'
  BY <1>1, Zenon DEF OneManagerInv, InUseIsRecorded, InUse, MutexHolder
<1>3. WriteIsMine'
  BY <1>1 DEF OneManagerInv, WriteIsMine
<1>4. QED
  BY <1>1, <1>2, <1>3, Zenon DEF OneManagerInv

\* updateState keeps OneManagerInv, and its requests are steps of the pool.
LEMMA UpdateKeepsOne ==
  ASSUME OneManager, OneManagerInv, NEW m \in Manager,
         UpdateGet(m) \/ UpdateWrite(m) \/ UpdateCreate(m)
  PROVE  OneManagerInv' /\ [Pool!Next]_CurrentAlloc
<1>1. Busy(m)
  BY Zenon DEF UpdateGet, UpdateWrite, UpdateCreate, Busy
<1>2. PoolInv'
  BY UpdateKeeps, Zenon DEF OneManagerInv
<1>3. CASE \E ok \in BOOLEAN : /\ Return(m, ok)
                               /\ Written(m) \/ (UNCHANGED <<cmVars, fresh>> /\ ok = FALSE)
  BY <1>1, <1>3, ReturnKeepsOne, Zenon
<1>4. CASE UNCHANGED <<exists, state, pc, ip, target, mgrOp, mgrFor, mgrState>>
  BY <1>1, <1>2, <1>4, SameOperationKeepsOne, Zenon DEF OneManager
<1>5. QED
  BY <1>3, <1>4, Zenon DEF UpdateGet, UpdateWrite, UpdateCreate

\* RecoverState keeps OneManagerInv.
LEMMA RecoverStateKeepsOne ==
  ASSUME OneManager, OneManagerInv, NEW m \in Manager, NEW c \in Configs, RecoverState(m, c)
  PROVE  OneManagerInv' /\ UNCHANGED CurrentAlloc
<1>1. PoolInv /\ PoolInv'
  BY RecoverStateKeeps, Zenon DEF OneManagerInv
<1>2. UNCHANGED cmVars /\ UNCHANGED callVars
  BY Zenon DEF RecoverState, Begin
<1>3. CurrentAlloc' = CurrentAlloc
  BY <1>2, CurrentAllocKept, Zenon
<1>4. InUseIsRecorded'
  BY <1>2, <1>3, Zenon DEF OneManagerInv, InUseIsRecorded, InUse
<1>5. CASE Begin(m, "recover", None, Repair(getCurrentState(c), c))
  <2>1. mgrOp'[m] = "recover" /\ mgrState'[m] = Repair(getCurrentState(c), c)
    BY <1>1, <1>5, Zenon DEF Begin, PoolInv, TypeOK
  <2>2. mgrState'[m].alloc = CurrentAlloc
    BY <2>1, CurrentAllocRead DEF Repair
  <2>3. MutexHolder' /\ WriteIsMine'
    BY <1>3, <2>1, <2>2, Zenon DEF MutexHolder, WriteIsMine, OneManager
  <2>4. QED
    BY <1>1, <1>3, <1>4, <2>3, Zenon DEF OneManagerInv
<1>6. CASE mgrPC' = [mgrPC EXCEPT ![m] = "free"]
  <2>1. \A n \in Manager : ~Busy(n)'
    BY <1>1, <1>6, Zenon DEF PoolInv, TypeOK, OneManager, Busy
  <2>2. QED
    BY <1>1, <1>3, <1>4, <2>1, IdleManager, Zenon DEF OneManagerInv
<1>7. QED
  BY <1>5, <1>6, Zenon DEF RecoverState, OneManager

\* The manager is idle before AllocateIP or DeallocateIP takes its mutex; it is
\* idle after the step, or about to write the change of one allocation.
LEMMA MutexTaken ==
  ASSUME OneManager, OneManagerInv, PoolInv', NEW a \in Alloc, NEW m \in Manager, m = MgrOf[a],
         mgrPC[m] = "free", CurrentAlloc' = CurrentAlloc,
         \/ UNCHANGED opVars
         \/ \E st \in PoolState, i \in IP :
              /\ Begin(m, "allocate", a, st) /\ pc'[a] = "create"
              /\ CurrentAlloc[a] = None /\ \A b \in Alloc : CurrentAlloc[b] # i
              /\ st.alloc = [CurrentAlloc EXCEPT ![a] = i]
         \/ \E st \in PoolState :
              /\ Begin(m, "deallocate", a, st) /\ pc'[a] \in {"rollback", "dealloc"}
              /\ CurrentAlloc[a] # None
              /\ st.alloc = [CurrentAlloc EXCEPT ![a] = None]
  PROVE  MutexHolder' /\ WriteIsMine'
<1>1. \A n \in Manager : n = m
  BY Zenon DEF OneManager
<1>2. CASE UNCHANGED opVars
  BY <1>1, <1>2, IdleManager, Zenon DEF Busy
<1>3. ASSUME NEW op \in {"allocate", "deallocate"}, NEW st \in PoolState, Begin(m, op, a, st)
      PROVE  mgrOp'[m] = op /\ mgrFor'[m] = a /\ mgrState'[m] = st
  BY <1>3, Zenon DEF Begin, OneManagerInv, PoolInv, TypeOK
<1>4. ASSUME NEW st \in PoolState, NEW i \in IP,
             Begin(m, "allocate", a, st), pc'[a] = "create",
             CurrentAlloc[a] = None, \A b \in Alloc : CurrentAlloc[b] # i,
             st.alloc = [CurrentAlloc EXCEPT ![a] = i]
      PROVE  MutexHolder' /\ WriteIsMine'
  <2>1. mgrOp'[m] = "allocate" /\ mgrFor'[m] = a /\ mgrState'[m] = st
    BY <1>3, <1>4, Zenon
  <2>2. MutexHolder'
    BY <1>1, <1>4, <2>1, Zenon DEF MutexHolder
  <2>3. WriteIsMine'
    BY <1>1, <1>4, <2>1 DEF WriteIsMine
  <2>4. QED
    BY <2>2, <2>3, Zenon
<1>5. ASSUME NEW st \in PoolState,
             Begin(m, "deallocate", a, st), pc'[a] \in {"rollback", "dealloc"},
             CurrentAlloc[a] # None, st.alloc = [CurrentAlloc EXCEPT ![a] = None]
      PROVE  MutexHolder' /\ WriteIsMine'
  <2>1. mgrOp'[m] = "deallocate" /\ mgrFor'[m] = a /\ mgrState'[m] = st
    BY <1>3, <1>5, Zenon
  <2>2. MutexHolder'
    BY <1>1, <1>5, <2>1, Zenon DEF MutexHolder
  <2>3. WriteIsMine'
    BY <1>1, <1>5, <2>1, Zenon DEF WriteIsMine
  <2>4. QED
    BY <2>2, <2>3, Zenon
<1>6. QED
  BY <1>2, <1>4, <1>5, Zenon

\* CreateInstance keeps OneManagerInv.
LEMMA CreateInstanceKeepsOne ==
  ASSUME OneManager, OneManagerInv, NEW a \in Alloc, CreateInstance(a)
  PROVE  OneManagerInv' /\ UNCHANGED CurrentAlloc
<1>1. PoolInv /\ PoolInv'
  BY CreateInstanceKeeps, Zenon DEF OneManagerInv
<1>2. PICK m \in Manager : m = MgrOf[a]
  BY PoolAssumption, Zenon
<1>3. PICK st : st = getCurrentState(config[m])
  OBVIOUS
<1>4. mgrPC[m] = "free" /\ UNCHANGED cmVars /\ UNCHANGED target
  BY <1>2, Zenon DEF CreateInstance, Begin
<1>5. CurrentAlloc' = CurrentAlloc /\ st.alloc = CurrentAlloc /\ Good(st)
  BY <1>1, <1>2, <1>3, <1>4, CurrentAllocKept, CurrentAllocRead, ManagerReadsGood, Zenon
<1>6. /\ \A b \in Alloc \ {a} : pc'[b] = pc[b] /\ ip'[b] = ip[b]
      /\ \/ pc'[a] = "config" /\ ip'[a] = st.alloc[a] /\ st.alloc[a] # None
         \/ pc'[a] \in {"create", "failed"}
  BY <1>1, <1>2, <1>3 DEF CreateInstance, Goto, PoolInv, TypeOK
<1>7. InUseIsRecorded'
  BY <1>4, <1>5, <1>6, RecordedKept, Zenon DEF InUse
<1>8. \/ UNCHANGED opVars
      \/ \E new \in PoolState, i \in IP :
           /\ Begin(m, "allocate", a, new) /\ pc'[a] = "create"
           /\ CurrentAlloc[a] = None /\ \A b \in Alloc : CurrentAlloc[b] # i
           /\ new.alloc = [CurrentAlloc EXCEPT ![a] = i]
  <2>1. CASE /\ st.alloc[a] = None /\ Goto(a, "create")
             /\ \E i \in IP : st.avail[i] > 0 /\ Begin(m, "allocate", a, Allocate(st, a, i))
    <3>1. PICK i \in IP : st.avail[i] > 0 /\ Begin(m, "allocate", a, Allocate(st, a, i))
      BY <2>1, Zenon
    <3>2. Allocate(st, a, i) \in PoolState /\ \A b \in Alloc : CurrentAlloc[b] # i
      BY <1>5, <2>1, <3>1, AllocateIsGood, Zenon DEF Good
    <3>3. Allocate(st, a, i).alloc = [CurrentAlloc EXCEPT ![a] = i]
      BY <1>5, Zenon DEF Allocate
    <3>4. pc'[a] = "create" /\ CurrentAlloc[a] = None
      BY <1>1, <1>5, <2>1, Zenon DEF Goto, PoolInv, TypeOK
    <3>5. QED
      BY <3>1, <3>2, <3>3, <3>4, Zenon
  <2>2. CASE UNCHANGED opVars
    BY <2>2, Zenon
  <2>3. QED
    BY <1>2, <1>3, <2>1, <2>2, Zenon DEF CreateInstance
<1>9. MutexHolder' /\ WriteIsMine'
  BY <1>1, <1>2, <1>4, <1>5, <1>8, MutexTaken, ZenonT(30)
<1>10. QED
  BY <1>1, <1>5, <1>7, <1>9, Zenon DEF OneManagerInv

\* SendConfigFile and DeleteInstance keep OneManagerInv: the allocation ID found
\* for a VM in use is its sandbox's own.
LEMMA CallKeepsOne ==
  ASSUME OneManager, OneManagerInv, NEW a \in Alloc, SendConfigFile(a) \/ DeleteInstance(a)
  PROVE  OneManagerInv' /\ UNCHANGED CurrentAlloc
<1>1. PoolInv /\ PoolInv'
  BY SendAndDeleteKeep, Zenon DEF OneManagerInv
<1>2. UNCHANGED cmVars /\ UNCHANGED opVars /\ UNCHANGED ip /\ pc[a] \in {"config", "running"}
  BY Zenon DEF SendConfigFile, DeleteInstance
<1>3. CurrentAlloc' = CurrentAlloc
  BY <1>2, CurrentAllocKept, Zenon
<1>4. CurrentAlloc[a] = ip[a] /\ ip[a] # None
  BY <1>2, Zenon DEF OneManagerInv, InUseIsRecorded, InUse
<1>5. \A b \in Alloc \ {a} : pc'[b] = pc[b] /\ target'[b] = target[b]
  BY <1>1 DEF SendConfigFile, DeleteInstance, Goto, PoolInv, TypeOK
<1>6. pc'[a] = "dealloc" => target'[a] = a
  <2>1. CASE SendConfigFile(a)
    BY <1>1, <2>1, Zenon DEF SendConfigFile, Goto, PoolInv, TypeOK
  <2>2. ASSUME DeleteInstance(a), pc'[a] = "dealloc" PROVE target'[a] = a
    <3>1. PICK t \in Alloc : /\ getCurrentState(config[MgrOf[a]]).alloc[t] = ip[a]
                             /\ target' = [target EXCEPT ![a] = t]
      BY <1>1, <2>2, Zenon DEF DeleteInstance, Goto, PoolInv, TypeOK
    <3>2. t = a
      BY <1>1, <1>4, <3>1, CurrentAllocRead, CurrentAllocType, Zenon
    <3>3. QED
      BY <1>1, <3>1, <3>2, Zenon DEF PoolInv, TypeOK
  <2>3. QED
    BY <2>1, <2>2, Zenon
<1>7. InUseIsRecorded'
  BY <1>2, <1>3, <1>4, <1>5, <1>6, RecordedKept, Zenon
<1>8. MutexHolder'
  BY <1>2, <1>5 DEF OneManagerInv, MutexHolder, Busy
<1>9. WriteIsMine'
  <2>1. /\ \A n \in Manager : Busy(n)' => Busy(n)
        /\ mgrOp' = mgrOp /\ mgrFor' = mgrFor /\ mgrState' = mgrState
    BY <1>2, Zenon DEF Busy
  <2>2. QED
    BY <1>3, <2>1 DEF OneManagerInv, WriteIsMine
<1>10. QED
  BY <1>1, <1>3, <1>7, <1>8, <1>9, Zenon DEF OneManagerInv

\* DeallocateIP keeps OneManagerInv: it gives back the sandbox's own address.
LEMMA DeallocateIPKeepsOne ==
  ASSUME OneManager, OneManagerInv, NEW a \in Alloc, DeallocateIP(a)
  PROVE  OneManagerInv' /\ UNCHANGED CurrentAlloc
<1>1. PoolInv /\ PoolInv'
  BY DeallocateIPKeeps, Zenon DEF OneManagerInv
<1>2. PICK m \in Manager : m = MgrOf[a]
  BY PoolAssumption, Zenon
<1>3. PICK st : st = getCurrentState(config[m])
  OBVIOUS
<1>4. /\ mgrPC[m] = "free" /\ UNCHANGED cmVars /\ UNCHANGED <<ip, target>>
      /\ pc[a] \in {"rollback", "dealloc"}
  BY <1>2, Zenon DEF DeallocateIP, Begin
<1>5. CurrentAlloc' = CurrentAlloc /\ st.alloc = CurrentAlloc /\ Good(st)
  BY <1>1, <1>2, <1>3, <1>4, CurrentAllocKept, CurrentAllocRead, ManagerReadsGood, Zenon
<1>6. (IF pc[a] = "rollback" THEN a ELSE target[a]) = a
  BY <1>4, Zenon DEF OneManagerInv, InUseIsRecorded
<1>7. /\ \A b \in Alloc \ {a} : pc'[b] = pc[b]
      /\ pc'[a] \in {pc[a], AfterSuccess(pc[a]), AfterError(pc[a])}
  BY <1>1, Zenon DEF DeallocateIP, Goto, PoolInv, TypeOK
<1>8. ~InUse(a)' /\ (pc'[a] = "dealloc" => target'[a] = a)
  BY <1>4, <1>7, Zenon DEF InUse, AfterSuccess, AfterError, OneManagerInv, InUseIsRecorded
<1>9. InUseIsRecorded'
  BY <1>4, <1>5, <1>7, <1>8, RecordedKept, Zenon
<1>10. \/ UNCHANGED opVars
       \/ \E new \in PoolState :
            /\ Begin(m, "deallocate", a, new) /\ pc'[a] \in {"rollback", "dealloc"}
            /\ CurrentAlloc[a] # None
            /\ new.alloc = [CurrentAlloc EXCEPT ![a] = None]
  <2>1. CASE st.alloc[a] # None /\ Begin(m, "deallocate", a, Deallocate(st, a)) /\ UNCHANGED callVars
    <3>1. Deallocate(st, a) \in PoolState
      BY <1>5, <2>1, DeallocateIsGood, Zenon DEF Good
    <3>2. Deallocate(st, a).alloc = [CurrentAlloc EXCEPT ![a] = None] /\ CurrentAlloc[a] # None
      BY <1>5, <2>1, DeallocateAlloc, Zenon
    <3>3. QED
      BY <1>4, <2>1, <3>1, <3>2, Zenon
  <2>2. QED
    BY <1>2, <1>3, <1>6, <2>1, Zenon DEF DeallocateIP
<1>11. MutexHolder' /\ WriteIsMine'
  BY <1>1, <1>2, <1>4, <1>5, <1>10, MutexTaken, ZenonT(30)
<1>12. QED
  BY <1>1, <1>5, <1>9, <1>11, Zenon DEF OneManagerInv

\* OneManagerInv is inductive, and every step is a step of the pool.
LEMMA OneManagerStep ==
  ASSUME OneManager, OneManagerInv, [Next]_vars
  PROVE  OneManagerInv' /\ [Pool!Next]_CurrentAlloc
<1>1. CASE UNCHANGED vars
  <2>1. PoolInv'
    BY PoolStep, Zenon DEF OneManagerInv
  <2>2. QED
    BY <1>1, <2>1, SameOperationKeepsOne, Zenon DEF vars, Busy
<1>2. QED
  BY <1>1, RecoverStateKeepsOne, UpdateKeepsOne, CrashKeepsOne, CreateInstanceKeepsOne,
     CallKeepsOne, DeallocateIPKeepsOne, Zenon
  DEF Next

\* OneManagerInv, what the ConfigMap, the manager and the calls agree on, holds in
\* every behaviour of one manager whose recovery can read the ConfigMap.
THEOREM OneManagerInvariant == ASSUME OneManager PROVE Spec => []OneManagerInv
<1>1. OneManagerInv /\ [Next]_vars => OneManagerInv'
  BY OneManagerStep, Zenon
<1>2. QED
  BY <1>1, OneManagerInit, PTL DEF Spec

\* With one manager whose recovery can read the ConfigMap, two sandboxes never use
\* one VM, whatever requests fail and whenever the process crashes.
THEOREM OneManagerNoDoubleUse == ASSUME OneManager PROVE Spec => []NoDoubleUse
<1>1. OneManagerInv => NoDoubleUse
  BY CurrentAllocType, Zenon DEF OneManagerInv, InUseIsRecorded, NoDoubleUse
<1>2. QED
  BY <1>1, OneManagerInvariant, PTL

\* With one manager whose recovery can read the ConfigMap, the ConfigMap implements
\* the pool of IPPool.
THEOREM OneManagerImplementsPool == ASSUME OneManager PROVE Spec => ImplementsPool
<1>1. Init => Pool!Init
  BY Zenon DEF Init, Pool!Init, CurrentAlloc, getCurrentState, initializeEmptyState
<1>2. OneManagerInv /\ [Next]_vars => [Pool!Next]_CurrentAlloc
  BY OneManagerStep, Zenon
<1>3. QED
  BY <1>1, <1>2, OneManagerInvariant, PTL DEF Spec, ImplementsPool, Pool!Spec

\* Only a write of updateState changes the ConfigMap.
LEMMA OnlyWritesChange ==
  ASSUME [Next]_vars
  PROVE  UNCHANGED cmVars \/ \E m \in Manager : Busy(m) /\ Written(m)
<1>1. CASE UNCHANGED vars
  BY <1>1, Zenon DEF vars
<1>2. CASE \E m \in Manager : (\E c \in Configs : RecoverState(m, c)) \/ Crash(m)
  BY <1>2, Zenon DEF RecoverState, Begin, Crash
<1>3. CASE \E m \in Manager : UpdateGet(m) \/ UpdateWrite(m) \/ UpdateCreate(m)
  BY <1>3, Zenon DEF UpdateGet, UpdateWrite, UpdateCreate, Busy
<1>4. CASE \E a \in Alloc : \/ CreateInstance(a) \/ SendConfigFile(a)
                            \/ DeleteInstance(a) \/ DeallocateIP(a)
  BY <1>4, Zenon DEF CreateInstance, SendConfigFile, DeleteInstance, DeallocateIP, Begin
<1>5. QED
  BY <1>1, <1>2, <1>3, <1>4, Zenon DEF Next

\* With one manager whose recovery can read the ConfigMap, no step of RecoverState
\* takes an allocation away, as the comment in repairStateFromPrimaryConfig says.
THEOREM OneManagerRecoveryKeeps == ASSUME OneManager PROVE Spec => RecoveryKeepsAllocations
<1>1. ASSUME OneManagerInv, [Next]_vars, NEW m \in Manager, NEW a \in Alloc,
             mgrOp[m] = "recover", exists
      PROVE  state'.alloc[a] = state.alloc[a]
  <2>1. CASE UNCHANGED cmVars
    BY <2>1, Zenon
  <2>2. CASE \E n \in Manager : Busy(n) /\ Written(n)
    <3>1. Busy(m) /\ Written(m)
      BY <2>2, Zenon DEF OneManager
    <3>2. CurrentAlloc' = CurrentAlloc
      BY <1>1, <3>1, WriteIsPoolStep, Zenon
    <3>3. QED
      BY <1>1, <3>1, <3>2, Zenon DEF CurrentAlloc, getCurrentState, Written
  <2>3. QED
    BY <1>1, <2>1, <2>2, OnlyWritesChange, Zenon
<1>2. OneManagerInv /\ [Next]_vars =>
        [\A m \in Manager, a \in Alloc :
           mgrOp[m] = "recover" /\ mgrPC[m] # mgrPC'[m] /\ exists /\ state.alloc[a] # None
             => state'.alloc[a] = state.alloc[a]]_vars
  BY <1>1, Zenon
<1>3. QED
  BY <1>2, OneManagerInvariant, PTL DEF Spec, RecoveryKeepsAllocations
=============================================================================
