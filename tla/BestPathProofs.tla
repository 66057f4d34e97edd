---------------------------- MODULE BestPathProofs ----------------------------
(***************************************************************************)
(* Proofs about BestPath for any symbols, updaters, ips and capacity, and  *)
(* any number of services: no connection is leaked or doubled, a removed   *)
(* service is not found, a service that is found gets its limiter, and a   *)
(* stopped one connects at most once more.                                 *)
(***************************************************************************)
EXTENDS BestPath, FiniteSetTheorems, TLAPS

USE BestPathAssumption DEF BestPathAssumption

\* The bound on wrappers, and pairs where the threads' locals must be pairs.
LocalsInv ==
    /\ Len(wrappers) <= MaxWrapper
    /\ IsFiniteSet(limiters)
    /\ \A u \in Updaters : upc[u] = "limiter" => upair[u] \in Pairs
    /\ \A s \in Symbols : spc[s] # "key" => spair[s] \in Pairs

\* A mapped wrapper was created for the pair it is mapped from.
OwnPairInv == \A p \in Pairs : Served(p) => wrappers[ippair_service_map[p]] = p

\* The wrappers a lookup must not find stay stopped.
GoneInv == \A s \in Symbols : sgone[s] \subseteq is_stopped

\* A connection begun too late leaves the thread at the check that ends it.
LateInv ==
    \A w \in Wrappers :
        \/ late[w] = 0
        \/ /\ late[w] = 1
           /\ w \in is_stopped
           /\ client[w] \in {"check", "ended"}

IInv == /\ TypeOK
        /\ LocalsInv
        /\ OwnPairInv
        /\ LiveIsMapped
        /\ ServiceHasLimiter
        /\ GoneInv
        /\ RemovedNeverFound
        /\ LateInv

LEMMA InitIInv == Init => IInv
<1> SUFFICES ASSUME Init PROVE IInv
    OBVIOUS
<1>1. TypeOK
    BY DEF Init, TypeOK, Served, Pairs
<1>2. LocalsInv
    BY FS_EmptySet DEF Init, LocalsInv
<1>3. OwnPairInv /\ LiveIsMapped /\ ServiceHasLimiter
    BY DEF Init, OwnPairInv, LiveIsMapped, ServiceHasLimiter, Live, Served
<1>4. GoneInv /\ RemovedNeverFound /\ LateInv
    BY DEF Init, GoneInv, RemovedNeverFound, LateInv
<1>5. QED
    BY <1>1, <1>2, <1>3, <1>4 DEF IInv

\* What a step of the scan threads may change.
LEMMA ScanFrame ==
    ASSUME NEW s \in Symbols, ScanStep(s)
    PROVE  UNCHANGED <<serviceVars, clientVars, limiters, updaterVars, zookeeperVars>>
BY DEF ScanStep, FindKey, FindService, PlaceOrder, Limit

\* A step of a scan thread changes only its own locals, to values that fit together: past
\* find_best_service there is a pair, and the wrapper is not one stopped before the lookup.
LEMMA ScanEffect ==
    ASSUME TypeOK, LocalsInv, LiveIsMapped, GoneInv, RemovedNeverFound,
           NEW s \in Symbols, ScanStep(s)
    PROVE  \E pc \in {"key", "value", "limit", "place"}, p \in Pairs \cup {NoPair},
              w \in Wrappers \cup {0}, gone \in SUBSET is_stopped :
                /\ Scan(s, pc, p, w, gone)
                /\ pc # "key" => p \in Pairs
                /\ w \notin gone
<1>0. is_stopped \subseteq Wrappers /\ 0 \notin is_stopped
    BY DEF TypeOK, LocalsInv, Wrappers
<1>1. CASE FindKey(s)
    BY <1>0, <1>1 DEF FindKey, TypeOK
<1>2. CASE FindService(s)
    <2>1. spair[s] \in Pairs
        BY <1>2 DEF FindService, LocalsInv
    <2>2. sgone[s] \in SUBSET is_stopped
        BY DEF GoneInv
    <2>3. CASE Served(spair[s])
        <3>1. Scan(s, "limit", spair[s], ippair_service_map[spair[s]], sgone[s])
            BY <1>2, <2>3 DEF FindService
        <3>2. ippair_service_map[spair[s]] \in Wrappers \cup {0}
            BY <2>1 DEF TypeOK
        <3>3. ippair_service_map[spair[s]] \notin sgone[s]
            BY <2>1, <2>2, <2>3 DEF LiveIsMapped, Live
        <3>4. QED
            BY <2>1, <2>2, <3>1, <3>2, <3>3
    <2>4. CASE ~Served(spair[s])
        BY <1>2, <2>4 DEF FindService, NextOrder
    <2>5. QED
        BY <2>3, <2>4
<1>3. CASE PlaceOrder(s)
    BY <1>3 DEF PlaceOrder, NextOrder
<1>4. ASSUME NEW granted \in BOOLEAN, Limit(s, granted)
      PROVE  \/ Scan(s, "place", spair[s], swrapper[s], sgone[s])
             \/ NextOrder(s)
    BY <1>4 DEF Limit
<1>5. ASSUME NEW granted \in BOOLEAN, Limit(s, granted) PROVE spair[s] \in Pairs
    BY <1>5 DEF Limit, LocalsInv
<1>6. CASE Scan(s, "place", spair[s], swrapper[s], sgone[s]) /\ spair[s] \in Pairs
    BY <1>6 DEF TypeOK, GoneInv, RemovedNeverFound
<1>7. CASE NextOrder(s)
    BY <1>7 DEF NextOrder
<1>8. QED
    BY <1>1, <1>2, <1>3, <1>4, <1>5, <1>6, <1>7 DEF ScanStep

\* What a step of the zookeeper thread may change.
LEMMA ZookeeperFrame ==
    ASSUME ZookeeperStep
    PROVE  /\ UNCHANGED <<clientVars, limiters, updaterVars, scanVars>>
           /\ \/ UNCHANGED serviceVars
              \/ \E p \in Pairs : stop_and_remove_service(p)
BY DEF ZookeeperStep, ListServices, KeepUnused, FindExpired, Sleep, RemoveUnused, RemoveExpired, Remove

LEMMA StepTypeOK == IInv /\ [Next]_vars => TypeOK' /\ LocalsInv'
<1> SUFFICES ASSUME IInv, [Next]_vars PROVE TypeOK' /\ LocalsInv'
    OBVIOUS
<1>0. TypeOK /\ LocalsInv /\ LiveIsMapped /\ GoneInv /\ RemovedNeverFound
    BY DEF IInv
<1> USE <1>0
<1> USE DEF TypeOK, LocalsInv, Wrappers, serviceVars, clientVars, updaterVars, scanVars, zookeeperVars
<1>1. ASSUME NEW u \in Updaters, NEW s \in Symbols, NEW p \in Pairs, NewService(u, s, p)
      PROVE  TypeOK' /\ LocalsInv'
    <2>1. /\ wrappers' \in Seq(Pairs)
          /\ Len(wrappers') = Len(wrappers) + 1
          /\ Len(wrappers') \in Wrappers
        BY <1>1 DEF NewService
    <2>2. is_stopped' \subseteq DOMAIN wrappers'
        BY <1>1, <2>1 DEF NewService
    <2>3. ippair_service_map' \in [Pairs -> Wrappers \cup {0}]
        BY <1>1, <2>1 DEF NewService
    <2>4. expired' \subseteq {q \in Pairs : Served(q)'}
        BY <1>1, <2>1 DEF NewService, Served
    <2>5. client' \in [Wrappers -> {"none", "check", "connect", "ended"}]
        BY <1>1, <2>1 DEF NewService
    <2>6. QED
        BY <1>1, <2>1, <2>2, <2>3, <2>4, <2>5 DEF NewService, Served
<1>2. ASSUME NEW u \in Updaters, NEW s \in Symbols, NEW p \in Pairs, RefreshService(u, s, p)
      PROVE  TypeOK' /\ LocalsInv'
    BY <1>2 DEF RefreshService, Served
<1>3. ASSUME NEW u \in Updaters, CreateLimiter(u) PROVE TypeOK' /\ LocalsInv'
    <2>1. upair[u] \in Pairs /\ upair[u][1] \in LocalIps
        BY <1>3 DEF CreateLimiter, Pairs
    <2>2. limiters' \subseteq LocalIps /\ IsFiniteSet(limiters')
        BY <1>3, <2>1, FS_AddElement DEF CreateLimiter, WithLimiter
    <2>3. QED
        BY <1>3, <2>2 DEF CreateLimiter, Served
<1>4. ASSUME NEW p \in Pairs, Expire(p) PROVE TypeOK' /\ LocalsInv'
    BY <1>4 DEF Expire, Served
<1>5. ASSUME NEW w \in Wrappers, CheckStopped(w) PROVE TypeOK' /\ LocalsInv'
    BY <1>5 DEF CheckStopped, Served
<1>6. ASSUME NEW w \in Wrappers, Connect(w) PROVE TypeOK' /\ LocalsInv'
    <2>1. /\ UNCHANGED <<serviceVars, limiters, updaterVars, scanVars, zookeeperVars>>
          /\ client' = [client EXCEPT ![w] = "check"]
          /\ late' = [late EXCEPT ![w] = @ + (IF w \in is_stopped THEN 1 ELSE 0)]
        BY <1>6 DEF Connect
    <2>2. client' \in [Wrappers -> {"none", "check", "connect", "ended"}]
        BY <2>1
    <2>3. late' \in [Wrappers -> Nat]
        BY <2>1
    <2>4. QED
        BY <2>1, <2>2, <2>3 DEF Served
<1>7. ASSUME NEW s \in Symbols, ScanStep(s) PROVE TypeOK' /\ LocalsInv'
    <2>1. UNCHANGED <<serviceVars, clientVars, limiters, updaterVars, zookeeperVars>>
        BY <1>7, ScanFrame
    <2>2. PICK pc \in {"key", "value", "limit", "place"}, p \in Pairs \cup {NoPair},
               w \in Wrappers \cup {0}, gone \in SUBSET is_stopped :
                   Scan(s, pc, p, w, gone) /\ (pc # "key" => p \in Pairs)
        BY <1>7, ScanEffect, ZenonT(30)
    <2>3. /\ spc' \in [Symbols -> {"key", "value", "limit", "place"}]
          /\ spair' \in [Symbols -> Pairs \cup {NoPair}]
          /\ \A x \in Symbols : spc'[x] # "key" => spair'[x] \in Pairs
        BY <2>2 DEF Scan
    <2>4. swrapper' \in [Symbols -> Wrappers \cup {0}]
        BY <2>2 DEF Scan
    <2>5. sgone' \in [Symbols -> SUBSET Wrappers]
        BY <2>2 DEF Scan
    <2>6. QED
        BY <2>1, <2>3, <2>4, <2>5 DEF Served
<1>8. CASE ZookeeperStep
    <2>1. zpc' \in {"sleep", "mapping", "unused", "expired"} /\ zlist' \subseteq Pairs
        BY <1>8 DEF ZookeeperStep, ListServices, KeepUnused, FindExpired, Sleep,
                    RemoveUnused, RemoveExpired, Remove
    <2>2. CASE UNCHANGED serviceVars
        BY <1>8, <2>1, <2>2, ZookeeperFrame DEF Served
    <2>3. ASSUME NEW p \in Pairs, stop_and_remove_service(p) PROVE TypeOK' /\ LocalsInv'
        <3>1. is_stopped' \subseteq DOMAIN wrappers'
            BY <2>3 DEF stop_and_remove_service, LiveIsMapped, Live, Served
        <3>2. /\ ippair_service_map' \in [Pairs -> Wrappers \cup {0}]
              /\ expired' \subseteq {q \in Pairs : Served(q)'}
            BY <2>3 DEF stop_and_remove_service, Served
        <3>3. UNCHANGED <<clientVars, limiters, updaterVars, scanVars, symbol_best_ippair_map, wrappers>>
            BY <1>8, <2>3, ZookeeperFrame DEF stop_and_remove_service
        <3>4. QED
            BY <2>1, <3>1, <3>2, <3>3
    <2>4. QED
        BY <1>8, <2>2, <2>3, ZookeeperFrame
<1>9. CASE UNCHANGED vars
    BY <1>9 DEF vars, Served
<1>10. QED
    BY <1>1, <1>2, <1>3, <1>4, <1>5, <1>6, <1>7, <1>8, <1>9 DEF Next, UpdaterStep

LEMMA StepMapped ==
    ASSUME IInv, [Next]_vars
    PROVE  OwnPairInv' /\ LiveIsMapped'
<1> USE DEF Served, Live
<1>0. /\ TypeOK /\ LocalsInv /\ OwnPairInv /\ LiveIsMapped
    BY DEF IInv
<1>1. ASSUME NEW u \in Updaters, NEW s \in Symbols, NEW p \in Pairs, NewService(u, s, p)
      PROVE  OwnPairInv' /\ LiveIsMapped'
    <2> DEFINE n == Len(wrappers) + 1
    <2>1. /\ wrappers' = Append(wrappers, p)
          /\ wrappers \in Seq(Pairs)
          /\ Len(wrappers') = n
          /\ n \in Nat
          /\ DOMAIN wrappers' = DOMAIN wrappers \cup {n}
          /\ n \notin DOMAIN wrappers
          /\ n # 0
          /\ wrappers'[n] = p
          /\ \A i \in DOMAIN wrappers : wrappers'[i] = wrappers[i]
        BY <1>0, <1>1 DEF NewService, TypeOK
    <2>2. /\ ippair_service_map' = [ippair_service_map EXCEPT ![p] = n]
          /\ ippair_service_map \in [Pairs -> Wrappers \cup {0}]
          /\ ippair_service_map[p] = 0
          /\ is_stopped' = is_stopped
          /\ is_stopped \subseteq DOMAIN wrappers
        BY <1>0, <1>1, <2>1 DEF NewService, TypeOK
    <2> HIDE DEF n
    <2>3. OwnPairInv'
        BY <1>0, <2>1, <2>2 DEF OwnPairInv, LiveIsMapped
    <2>4. \A w \in Live' : ippair_service_map'[wrappers'[w]] = w
        <3> SUFFICES ASSUME NEW w \in Live' PROVE ippair_service_map'[wrappers'[w]] = w
            OBVIOUS
        <3>1. CASE w = n
            BY <2>1, <2>2, <3>1
        <3>2. CASE w # n
            <4>1. w \in Live /\ wrappers'[w] = wrappers[w]
                BY <2>1, <2>2, <3>2
            <4>2. ippair_service_map[wrappers[w]] = w /\ w # 0
                BY <1>0, <4>1 DEF LiveIsMapped, TypeOK
            <4>3. wrappers[w] \in Pairs
                BY <2>1, <4>1
            <4>4. QED
                BY <2>2, <4>1, <4>2, <4>3
        <3>3. QED
            BY <3>1, <3>2
    <2>5. \A q \in Pairs : Served(q)' => ippair_service_map'[q] \in Live'
        BY <1>0, <2>1, <2>2 DEF LiveIsMapped
    <2>6. QED
        BY <2>3, <2>4, <2>5 DEF LiveIsMapped
<1>2. ASSUME NEW p \in Pairs, stop_and_remove_service(p)
      PROVE  OwnPairInv' /\ LiveIsMapped'
    <2>1. /\ wrappers' = wrappers
          /\ wrappers \in Seq(Pairs)
          /\ is_stopped' = is_stopped \cup ({ippair_service_map[p]} \ {0})
          /\ ippair_service_map' = [ippair_service_map EXCEPT ![p] = 0]
          /\ ippair_service_map \in [Pairs -> Wrappers \cup {0}]
        BY <1>0, <1>2 DEF stop_and_remove_service, TypeOK
    <2>2. OwnPairInv'
        BY <1>0, <2>1 DEF OwnPairInv
    <2>3. \A w \in Live' : ippair_service_map'[wrappers'[w]] = w
        <3> SUFFICES ASSUME NEW w \in Live' PROVE ippair_service_map'[wrappers'[w]] = w
            OBVIOUS
        <3>1. w \in Live /\ wrappers[w] \in Pairs /\ w # 0
            BY <2>1
        <3>2. ippair_service_map[wrappers[w]] = w
            BY <1>0, <3>1 DEF LiveIsMapped
        <3>3. wrappers[w] # p
            BY <2>1, <3>1, <3>2
        <3>4. QED
            BY <2>1, <3>1, <3>2, <3>3
    <2>4. \A q \in Pairs : Served(q)' => ippair_service_map'[q] \in Live'
        <3> SUFFICES ASSUME NEW q \in Pairs, ippair_service_map'[q] # 0
                     PROVE  ippair_service_map'[q] \in Live'
            OBVIOUS
        <3>1. q # p /\ ippair_service_map'[q] = ippair_service_map[q]
            BY <2>1
        <3>2. ippair_service_map[q] \in Live /\ wrappers[ippair_service_map[q]] = q
            BY <1>0, <3>1 DEF LiveIsMapped, OwnPairInv
        <3>3. ippair_service_map[q] # ippair_service_map[p]
            BY <1>0, <3>1, <3>2 DEF OwnPairInv
        <3>4. QED
            BY <2>1, <3>1, <3>2, <3>3
    <2>5. QED
        BY <2>2, <2>3, <2>4 DEF LiveIsMapped
<1>3. CASE UNCHANGED <<ippair_service_map, wrappers, is_stopped>>
    BY <1>0, <1>3 DEF OwnPairInv, LiveIsMapped
<1>4. QED
    <2>1. ASSUME NEW u \in Updaters, NEW s \in Symbols, NEW p \in Pairs, RefreshService(u, s, p)
          PROVE  UNCHANGED <<ippair_service_map, wrappers, is_stopped>>
        BY <2>1 DEF RefreshService
    <2>2. ASSUME NEW u \in Updaters, CreateLimiter(u)
          PROVE  UNCHANGED <<ippair_service_map, wrappers, is_stopped>>
        BY <2>2 DEF CreateLimiter, serviceVars
    <2>3. ASSUME NEW p \in Pairs, Expire(p)
          PROVE  UNCHANGED <<ippair_service_map, wrappers, is_stopped>>
        BY <2>3 DEF Expire
    <2>4. ASSUME NEW w \in Wrappers, CheckStopped(w) \/ Connect(w)
          PROVE  UNCHANGED <<ippair_service_map, wrappers, is_stopped>>
        BY <2>4 DEF CheckStopped, Connect, serviceVars
    <2>5. ASSUME NEW s \in Symbols, ScanStep(s)
          PROVE  UNCHANGED <<ippair_service_map, wrappers, is_stopped>>
        BY <2>5, ScanFrame DEF serviceVars
    <2>6. ASSUME ZookeeperStep
          PROVE  \/ UNCHANGED <<ippair_service_map, wrappers, is_stopped>>
                 \/ \E p \in Pairs : stop_and_remove_service(p)
        BY <2>6, ZookeeperFrame DEF serviceVars
    <2>7. CASE UNCHANGED vars
        BY <1>3, <2>7 DEF vars, serviceVars
    <2>8. QED
        BY <1>1, <1>2, <1>3, <2>1, <2>2, <2>3, <2>4, <2>5, <2>6, <2>7 DEF Next, UpdaterStep

LEMMA StepLimiter ==
    ASSUME IInv, [Next]_vars
    PROVE  ServiceHasLimiter'
<1> DEFINE Covered(p) == \/ p[1] \in limiters
                         \/ \E u \in Updaters : upc[u] = "limiter" /\ upair[u][1] = p[1]
                         \/ Cardinality(limiters) >= Capacity
<1>0. /\ TypeOK /\ LocalsInv
      /\ \A p \in Pairs : Served(p) => Covered(p)
    BY DEF IInv, ServiceHasLimiter
<1> SUFFICES \A p \in Pairs : Served(p)' => Covered(p)'
    BY DEF ServiceHasLimiter
<1>1. ASSUME NEW u \in Updaters, NEW s \in Symbols, NEW p \in Pairs, NewService(u, s, p),
             NEW q \in Pairs, Served(q)'
      PROVE  Covered(q)'
    <2>1. limiters' = limiters /\ upc[u] = "wait"
        BY <1>1 DEF NewService
    <2>2. CASE q = p
        <3>1. upc'[u] = "limiter" /\ upair'[u][1] = q[1]
            BY <1>0, <1>1, <2>2 DEF NewService, TypeOK
        <3>2. QED
            BY <3>1
    <2>3. CASE q # p
        <3>1. Served(q)
            BY <1>0, <1>1, <2>3 DEF NewService, TypeOK, Served
        <3>2. \A v \in Updaters : upc[v] = "limiter" => upc'[v] = "limiter" /\ upair'[v] = upair[v]
            BY <1>0, <1>1, <2>1 DEF NewService, TypeOK
        <3>3. QED
            BY <1>0, <2>1, <3>1, <3>2
    <2>4. QED
        BY <2>2, <2>3
<1>2. ASSUME NEW u \in Updaters, CreateLimiter(u), NEW q \in Pairs, Served(q)'
      PROVE  Covered(q)'
    <2>1. Served(q)
        BY <1>2 DEF CreateLimiter, serviceVars, Served
    <2>2. CASE Cardinality(limiters) >= Capacity
        <3>1. Cardinality(limiters) \in Nat
            BY <1>0, FS_CardinalityType DEF LocalsInv
        <3>2. limiters' = limiters
            BY <1>2, <2>2, <3>1 DEF CreateLimiter, WithLimiter
        <3>3. QED
            BY <2>2, <3>2
    <2>3. CASE ~(Cardinality(limiters) >= Capacity)
        <3>1. Cardinality(limiters) \in Nat
            BY <1>0, FS_CardinalityType DEF LocalsInv
        <3>2. limiters' = limiters \cup {upair[u][1]}
            BY <1>2, <2>3, <3>1 DEF CreateLimiter, WithLimiter
        <3>3. \A v \in Updaters \ {u} : upc'[v] = upc[v] /\ upair'[v] = upair[v]
            BY <1>0, <1>2 DEF CreateLimiter, TypeOK
        <3>4. \/ q[1] \in limiters
              \/ \E v \in Updaters : upc[v] = "limiter" /\ upair[v][1] = q[1]
            BY <1>0, <2>1, <2>3
        <3>5. QED
            BY <3>2, <3>3, <3>4
    <2>4. QED
        BY <2>2, <2>3
<1>3. ASSUME NEW p \in Pairs, stop_and_remove_service(p), UNCHANGED <<limiters, updaterVars>>,
             NEW q \in Pairs, Served(q)'
      PROVE  Covered(q)'
    <2>1. Served(q)
        BY <1>0, <1>3 DEF stop_and_remove_service, TypeOK, Served
    <2>2. QED
        BY <1>0, <1>3, <2>1 DEF updaterVars
<1>4. ASSUME UNCHANGED <<ippair_service_map, limiters, updaterVars>>, NEW q \in Pairs, Served(q)'
      PROVE  Covered(q)'
    BY <1>0, <1>4 DEF updaterVars, Served
<1>5. QED
    <2>1. ASSUME NEW u \in Updaters, NEW s \in Symbols, NEW p \in Pairs, RefreshService(u, s, p)
          PROVE  UNCHANGED <<ippair_service_map, limiters, updaterVars>>
        BY <2>1 DEF RefreshService
    <2>2. ASSUME NEW p \in Pairs, Expire(p)
          PROVE  UNCHANGED <<ippair_service_map, limiters, updaterVars>>
        BY <2>2 DEF Expire
    <2>3. ASSUME NEW w \in Wrappers, CheckStopped(w) \/ Connect(w)
          PROVE  UNCHANGED <<ippair_service_map, limiters, updaterVars>>
        BY <2>3 DEF CheckStopped, Connect, serviceVars
    <2>4. ASSUME NEW s \in Symbols, ScanStep(s)
          PROVE  UNCHANGED <<ippair_service_map, limiters, updaterVars>>
        BY <2>4, ScanFrame DEF serviceVars
    <2>5. CASE ZookeeperStep
        <3>1. UNCHANGED <<limiters, updaterVars>>
            BY <2>5, ZookeeperFrame
        <3>2. \/ UNCHANGED ippair_service_map
              \/ \E p \in Pairs : stop_and_remove_service(p)
            BY <2>5, ZookeeperFrame DEF serviceVars
        <3>3. QED
            BY <1>3, <1>4, <3>1, <3>2
    <2>6. CASE UNCHANGED vars
        BY <1>4, <2>6 DEF vars, serviceVars
    <2>7. QED
        BY <1>1, <1>2, <1>4, <2>1, <2>2, <2>3, <2>4, <2>5, <2>6 DEF Next, UpdaterStep

LEMMA StepFound ==
    ASSUME IInv, [Next]_vars
    PROVE  GoneInv' /\ RemovedNeverFound'
<1>0. TypeOK /\ LocalsInv /\ LiveIsMapped /\ GoneInv /\ RemovedNeverFound
    BY DEF IInv
<1>1. CASE UNCHANGED scanVars /\ is_stopped \subseteq is_stopped'
    BY <1>0, <1>1 DEF scanVars, GoneInv, RemovedNeverFound
<1>2. ASSUME NEW s \in Symbols, ScanStep(s) PROVE GoneInv' /\ RemovedNeverFound'
    <2>1. is_stopped' = is_stopped
        BY <1>2, ScanFrame DEF serviceVars
    <2>2. PICK pc \in {"key", "value", "limit", "place"}, p \in Pairs \cup {NoPair},
               w \in Wrappers \cup {0}, gone \in SUBSET is_stopped :
                   Scan(s, pc, p, w, gone) /\ w \notin gone
        BY <1>0, <1>2, ScanEffect
    <2>3. \A x \in Symbols : sgone'[x] = IF x = s THEN gone ELSE sgone[x]
        BY <1>0, <2>2 DEF Scan, TypeOK
    <2>4. \A x \in Symbols : swrapper'[x] = IF x = s THEN w ELSE swrapper[x]
        BY <1>0, <2>2 DEF Scan, TypeOK
    <2>5. GoneInv'
        BY <1>0, <2>1, <2>2, <2>3 DEF GoneInv
    <2>6. RemovedNeverFound'
        BY <1>0, <2>2, <2>3, <2>4 DEF RemovedNeverFound
    <2>7. QED
        BY <2>5, <2>6
<1>3. QED
    <2> USE DEF scanVars, serviceVars
    <2>1. ASSUME NEW u \in Updaters, NEW s \in Symbols, NEW p \in Pairs,
                 NewService(u, s, p) \/ RefreshService(u, s, p)
          PROVE  UNCHANGED scanVars /\ is_stopped \subseteq is_stopped'
        BY <2>1 DEF NewService, RefreshService
    <2>2. ASSUME NEW u \in Updaters, CreateLimiter(u)
          PROVE  UNCHANGED scanVars /\ is_stopped \subseteq is_stopped'
        BY <2>2 DEF CreateLimiter
    <2>3. ASSUME NEW p \in Pairs, Expire(p)
          PROVE  UNCHANGED scanVars /\ is_stopped \subseteq is_stopped'
        BY <2>3 DEF Expire
    <2>4. ASSUME NEW w \in Wrappers, CheckStopped(w) \/ Connect(w)
          PROVE  UNCHANGED scanVars /\ is_stopped \subseteq is_stopped'
        BY <2>4 DEF CheckStopped, Connect
    <2>5. ASSUME ZookeeperStep
          PROVE  UNCHANGED scanVars /\ is_stopped \subseteq is_stopped'
        BY <2>5, ZookeeperFrame DEF stop_and_remove_service
    <2>6. CASE UNCHANGED vars
        BY <1>1, <2>6 DEF vars
    <2>7. QED
        BY <1>1, <1>2, <2>1, <2>2, <2>3, <2>4, <2>5, <2>6 DEF Next, UpdaterStep

LEMMA StepLate ==
    ASSUME IInv, [Next]_vars
    PROVE  LateInv'
<1>0. TypeOK /\ LocalsInv /\ LateInv
    BY DEF IInv
<1>1. CASE UNCHANGED clientVars /\ is_stopped \subseteq is_stopped'
    BY <1>0, <1>1 DEF clientVars, LateInv
<1>2. ASSUME NEW u \in Updaters, NEW s \in Symbols, NEW p \in Pairs, NewService(u, s, p)
      PROVE  LateInv'
    <2>1. /\ Len(wrappers') = Len(wrappers) + 1
          /\ Len(wrappers') \notin is_stopped
        BY <1>0, <1>2 DEF NewService, TypeOK
    <2>2. \A w \in Wrappers : w # Len(wrappers') => client'[w] = client[w]
        BY <1>0, <1>2 DEF NewService, TypeOK
    <2>3. late' = late /\ is_stopped' = is_stopped
        BY <1>2 DEF NewService
    <2>4. QED
        BY <1>0, <2>1, <2>2, <2>3 DEF LateInv
<1>3. ASSUME NEW w \in Wrappers, CheckStopped(w) PROVE LateInv'
    <2>1. late' = late /\ is_stopped' = is_stopped
        BY <1>3 DEF CheckStopped, serviceVars
    <2>2. \A x \in Wrappers : client'[x] = client[x] \/ x = w
        BY <1>0, <1>3 DEF CheckStopped, TypeOK
    <2>3. w \in is_stopped => client'[w] = "ended"
        BY <1>0, <1>3 DEF CheckStopped, KeepsGoing, TypeOK
    <2>4. QED
        BY <1>0, <2>1, <2>2, <2>3 DEF LateInv
<1>4. ASSUME NEW w \in Wrappers, Connect(w) PROVE LateInv'
    <2>1. client[w] = "connect" /\ is_stopped' = is_stopped
        BY <1>4 DEF Connect, serviceVars
    <2>2. late[w] = 0
        BY <1>0, <2>1 DEF LateInv
    <2>3. client'[w] = "check"
        BY <1>0, <1>4 DEF Connect, TypeOK
    <2>4. late'[w] = IF w \in is_stopped THEN 1 ELSE 0
        BY <1>0, <1>4, <2>2 DEF Connect, TypeOK
    <2>5. \A x \in Wrappers \ {w} : client'[x] = client[x] /\ late'[x] = late[x]
        BY <1>0, <1>4 DEF Connect, TypeOK
    <2>6. QED
        BY <1>0, <2>1, <2>3, <2>4, <2>5 DEF LateInv
<1>5. QED
    <2> USE DEF clientVars, serviceVars
    <2>1. ASSUME NEW u \in Updaters, NEW s \in Symbols, NEW p \in Pairs, RefreshService(u, s, p)
          PROVE  UNCHANGED clientVars /\ is_stopped \subseteq is_stopped'
        BY <2>1 DEF RefreshService
    <2>2. ASSUME NEW u \in Updaters, CreateLimiter(u)
          PROVE  UNCHANGED clientVars /\ is_stopped \subseteq is_stopped'
        BY <2>2 DEF CreateLimiter
    <2>3. ASSUME NEW p \in Pairs, Expire(p)
          PROVE  UNCHANGED clientVars /\ is_stopped \subseteq is_stopped'
        BY <2>3 DEF Expire
    <2>4. ASSUME NEW s \in Symbols, ScanStep(s)
          PROVE  UNCHANGED clientVars /\ is_stopped \subseteq is_stopped'
        BY <2>4, ScanFrame
    <2>5. ASSUME ZookeeperStep
          PROVE  UNCHANGED clientVars /\ is_stopped \subseteq is_stopped'
        BY <2>5, ZookeeperFrame DEF stop_and_remove_service
    <2>6. CASE UNCHANGED vars
        BY <1>1, <2>6 DEF vars
    <2>7. QED
        BY <1>1, <1>2, <1>3, <1>4, <2>1, <2>2, <2>3, <2>4, <2>5, <2>6 DEF Next, UpdaterStep
-----------------------------------------------------------------------------
\* The invariant of the best-path services: every step of an updater, an order process
\* thread, a scan thread and the zookeeper keeps all its parts.
THEOREM BestPathInvariant == Spec => []IInv
<1>1. Init => IInv
    BY InitIInv
<1>2. IInv /\ [Next]_vars => IInv'
    <2> SUFFICES ASSUME IInv, [Next]_vars PROVE IInv'
        OBVIOUS
    <2>1. TypeOK' /\ LocalsInv'
        BY StepTypeOK
    <2>2. OwnPairInv' /\ LiveIsMapped'
        BY StepMapped
    <2>3. ServiceHasLimiter'
        BY StepLimiter
    <2>4. GoneInv' /\ RemovedNeverFound'
        BY StepFound
    <2>5. LateInv'
        BY StepLate
    <2>6. QED
        BY <2>1, <2>2, <2>3, <2>4, <2>5 DEF IInv
<1>3. QED
    BY <1>1, <1>2, PTL DEF Spec

\* No connection is leaked or doubled: the wrappers that are not stopped are exactly those
\* of ippair_service_map, each under the pair it was created for.
THEOREM BestPathLiveIsMapped == Spec => []LiveIsMapped
<1>1. IInv => LiveIsMapped
    BY DEF IInv
<1>2. QED
    BY <1>1, BestPathInvariant, PTL

\* A service that find_best_service can return has a limiter, or its creator is about to
\* create one, or the limiter boss is at its capacity.
THEOREM BestPathServiceHasLimiter == Spec => []ServiceHasLimiter
<1>1. IInv => ServiceHasLimiter
    BY DEF IInv
<1>2. QED
    BY <1>1, BestPathInvariant, PTL

\* find_best_service, in its two critical sections, never yields a service that was stopped
\* before the first of them.
THEOREM BestPathRemovedNeverFound == Spec => []RemovedNeverFound
<1>1. IInv => RemovedNeverFound
    BY DEF IInv
<1>2. QED
    BY <1>1, BestPathInvariant, PTL

\* The order process thread of a stopped wrapper begins at most one more connection.
THEOREM BestPathStoppedConnectsOnce == Spec => []StoppedConnectsOnce
<1>1. IInv => StoppedConnectsOnce
    BY DEF IInv, LateInv, StoppedConnectsOnce
<1>2. QED
    BY <1>1, BestPathInvariant, PTL
=============================================================================
