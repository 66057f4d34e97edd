------------------------------- MODULE BestPath -------------------------------
(***************************************************************************)
(* The trader's best-path order services (trader/service_container.cpp,    *)
(* trader/service_manager.cpp).  Polling and zmq threads learn which       *)
(* (local ip, remote ip) pair is best for a symbol and create a websocket  *)
(* service for a pair seen first; scan threads look the service of their   *)
(* symbol up in two critical sections and place orders through it; the     *)
(* zookeeper thread removes services nobody uses and services whose pair   *)
(* was not reported for 5400 seconds, from lists it made earlier.          *)
(***************************************************************************)
EXTENDS Naturals, Sequences, FiniteSets

CONSTANTS Symbols,       \* follower_inst_id_set; one scan thread each
          Updaters,      \* polling_best_path_processor, subscribe_best_path_processor threads
          LocalIps, RemoteIps,
          NoPair,        \* the empty string of find_best_service
          Capacity,      \* max_capacity of the best-path limiter
          MaxWrapper     \* bound: services created

ASSUME BestPathAssumption ==
    /\ NoPair \notin LocalIps \X RemoteIps
    /\ Capacity \in Nat
    /\ MaxWrapper \in Nat

Pairs    == LocalIps \X RemoteIps
Wrappers == 1..MaxWrapper

VARIABLES
    symbol_best_ippair_map,   \* symbol -> pair, NoPair when there is none
    ippair_service_map,       \* pair -> wrapper, 0 when there is none
    wrappers,                 \* the pair of every WsClientWrapper ever started
    is_stopped,               \* the stopped wrappers
    expired,                  \* the pairs whose service was not updated for expired_millis
    client,                   \* a wrapper's order process thread
    late,                     \* history: connections it began although its wrapper was stopped
    limiters,                 \* local ips with an order limiter
    upc, upair,               \* an updater that has created a service, and its pair
    spc, spair, swrapper,     \* a scan thread: pc, ip_pair and best_service
    sgone,                    \* history: the wrappers stopped before its lookup began
    zpc,                      \* the zookeeper thread
    zlist                     \* the ip pairs it has listed

serviceVars == <<symbol_best_ippair_map, ippair_service_map, wrappers, is_stopped, expired>>
updaterVars == <<upc, upair>>
scanVars == <<spc, spair, swrapper, sgone>>
zookeeperVars == <<zpc, zlist>>
clientVars == <<client, late>>
vars == <<serviceVars, clientVars, limiters, updaterVars, scanVars, zookeeperVars>>

Init ==
    /\ symbol_best_ippair_map = [s \in Symbols |-> NoPair]
    /\ ippair_service_map = [p \in Pairs |-> 0]
    /\ wrappers = << >>
    /\ is_stopped = {}
    /\ expired = {}
    /\ client = [w \in Wrappers |-> "none"]
    /\ late = [w \in Wrappers |-> 0]
    /\ limiters = {}
    /\ upc = [u \in Updaters |-> "wait"]
    /\ upair = [u \in Updaters |-> NoPair]
    /\ spc = [s \in Symbols |-> "key"]
    /\ spair = [s \in Symbols |-> NoPair]
    /\ swrapper = [s \in Symbols |-> 0]
    /\ sgone = [s \in Symbols |-> {}]
    /\ zpc = "sleep"
    /\ zlist = {}
-----------------------------------------------------------------------------
(* Best paths arrive: update_best_service, then create_ip_limiter *)

Served(p) == ippair_service_map[p] # 0

\* a pair without a service: a new wrapper is initialised and started
NewService(u, s, p) ==
    /\ upc[u] = "wait"
    /\ ~Served(p)
    /\ Len(wrappers) < MaxWrapper
    /\ wrappers' = Append(wrappers, p)
    /\ ippair_service_map' = [ippair_service_map EXCEPT ![p] = Len(wrappers')]
    /\ symbol_best_ippair_map' = [symbol_best_ippair_map EXCEPT ![s] = p]
    /\ client' = [client EXCEPT ![Len(wrappers')] = "check"]
    /\ expired' = expired \ {p}
    /\ upc' = [upc EXCEPT ![u] = "limiter"]
    /\ upair' = [upair EXCEPT ![u] = p]
    /\ UNCHANGED <<is_stopped, late, limiters, scanVars, zookeeperVars>>

\* a pair with a service: its update time is renewed
RefreshService(u, s, p) ==
    /\ upc[u] = "wait"
    /\ Served(p)
    /\ symbol_best_ippair_map' = [symbol_best_ippair_map EXCEPT ![s] = p]
    /\ expired' = expired \ {p}
    /\ UNCHANGED <<ippair_service_map, wrappers, is_stopped, clientVars, limiters, updaterVars, scanVars, zookeeperVars>>

\* mutant: only the first best path creates a limiter
OnlyFirstLimiter(ip) == IF limiters = {} THEN limiters \cup {ip} ELSE limiters

\* create_ip_limiter
WithLimiter(ip) == IF Cardinality(limiters) < Capacity THEN limiters \cup {ip} ELSE limiters

CreateLimiter(u) ==
    /\ upc[u] = "limiter"
    /\ limiters' = WithLimiter(upair[u][1])
    /\ upc' = [upc EXCEPT ![u] = "wait"]
    /\ upair' = [upair EXCEPT ![u] = NoPair]
    /\ UNCHANGED <<serviceVars, clientVars, scanVars, zookeeperVars>>

\* expired_millis have passed since the update of p's service
Expire(p) ==
    /\ Served(p)
    /\ expired' = expired \cup {p}
    /\ UNCHANGED <<symbol_best_ippair_map, ippair_service_map, wrappers, is_stopped, clientVars, limiters, updaterVars, scanVars, zookeeperVars>>
-----------------------------------------------------------------------------
(* start_process_trade_thread of a wrapper, which reconnects until the wrapper is stopped.  *)
(* The client is external: its connection ends at some time, by itself or when stopped.     *)

\* mutant: the thread reconnects whether or not its wrapper was stopped
Reconnects(w) == TRUE

\* the loop's condition
KeepsGoing(w) == w \notin is_stopped

\* startOrderService has returned, or was not called yet: the thread looks at is_stopped
CheckStopped(w) ==
    /\ client[w] = "check"
    /\ client' = [client EXCEPT ![w] = IF KeepsGoing(w) THEN "connect" ELSE "ended"]
    /\ UNCHANGED <<serviceVars, late, limiters, updaterVars, scanVars, zookeeperVars>>

\* startOrderService is called; the check comes next
Connect(w) ==
    /\ client[w] = "connect"
    /\ client' = [client EXCEPT ![w] = "check"]
    /\ late' = [late EXCEPT ![w] = @ + (IF w \in is_stopped THEN 1 ELSE 0)]
    /\ UNCHANGED <<serviceVars, limiters, updaterVars, scanVars, zookeeperVars>>
-----------------------------------------------------------------------------
(* A scan thread: find_best_service, the limiter, place_order *)

Scan(s, pc, p, w, gone) ==
    /\ spc' = [spc EXCEPT ![s] = pc]
    /\ spair' = [spair EXCEPT ![s] = p]
    /\ swrapper' = [swrapper EXCEPT ![s] = w]
    /\ sgone' = [sgone EXCEPT ![s] = gone]

NextOrder(s) == Scan(s, "key", NoPair, 0, {})

FindKey(s) ==
    /\ spc[s] = "key"
    /\ symbol_best_ippair_map[s] # NoPair
    /\ Scan(s, "value", symbol_best_ippair_map[s], 0, is_stopped)
    /\ UNCHANGED <<serviceVars, clientVars, limiters, updaterVars, zookeeperVars>>

FindService(s) ==
    /\ spc[s] = "value"
    /\ IF Served(spair[s])
       THEN Scan(s, "limit", spair[s], ippair_service_map[spair[s]], sgone[s])
       ELSE NextOrder(s)
    /\ UNCHANGED <<serviceVars, clientVars, limiters, updaterVars, zookeeperVars>>

\* get_order_semaphore(get_local_ip(), 1) grants or refuses; without a limiter it refuses
Limit(s, granted) ==
    /\ spc[s] = "limit"
    /\ granted => spair[s][1] \in limiters
    /\ IF granted
       THEN Scan(s, "place", spair[s], swrapper[s], sgone[s])
       ELSE NextOrder(s)
    /\ UNCHANGED <<serviceVars, clientVars, limiters, updaterVars, zookeeperVars>>

\* WsClientWrapper::place_order: refused when stopped, else handed to the client
PlaceOrder(s) ==
    /\ spc[s] = "place"
    /\ NextOrder(s)
    /\ UNCHANGED <<serviceVars, clientVars, limiters, updaterVars, zookeeperVars>>
-----------------------------------------------------------------------------
(* service_zookeeper_processor *)

ListServices ==
    /\ zpc = "sleep"
    /\ zlist' = {p \in Pairs : Served(p)}
    /\ zpc' = "mapping"
    /\ UNCHANGED <<serviceVars, clientVars, limiters, updaterVars, scanVars>>

InUse == {symbol_best_ippair_map[s] : s \in Symbols}

KeepUnused ==
    /\ zpc = "mapping"
    /\ zlist' = zlist \ InUse
    /\ zpc' = "unused"
    /\ UNCHANGED <<serviceVars, clientVars, limiters, updaterVars, scanVars>>

\* mutant: the wrapper is erased from the map but not stopped
EraseOnly(p) ==
    /\ ippair_service_map' = [ippair_service_map EXCEPT ![p] = 0]
    /\ UNCHANGED <<symbol_best_ippair_map, wrappers, is_stopped, expired>>

\* mutant: the wrapper is stopped but stays in the map
StopOnly(p) ==
    /\ is_stopped' = is_stopped \cup ({ippair_service_map[p]} \ {0})
    /\ UNCHANGED <<symbol_best_ippair_map, ippair_service_map, wrappers, expired>>

stop_and_remove_service(p) ==
    /\ is_stopped' = is_stopped \cup ({ippair_service_map[p]} \ {0})
    /\ ippair_service_map' = [ippair_service_map EXCEPT ![p] = 0]
    /\ expired' = expired \ {p}
    /\ UNCHANGED <<symbol_best_ippair_map, wrappers>>

Remove(pc, p) ==
    /\ zpc = pc
    /\ p \in zlist
    /\ stop_and_remove_service(p)
    /\ zlist' = zlist \ {p}
    /\ UNCHANGED <<zpc, clientVars, limiters, updaterVars, scanVars>>

RemoveUnused(p) == Remove("unused", p)

FindExpired ==
    /\ zpc = "unused"
    /\ zlist = {}
    /\ zlist' = expired
    /\ zpc' = "expired"
    /\ UNCHANGED <<serviceVars, clientVars, limiters, updaterVars, scanVars>>

RemoveExpired(p) == Remove("expired", p)

Sleep ==
    /\ zpc = "expired"
    /\ zlist = {}
    /\ zpc' = "sleep"
    /\ UNCHANGED <<serviceVars, clientVars, limiters, updaterVars, scanVars, zlist>>
-----------------------------------------------------------------------------
UpdaterStep(u) == \/ \E s \in Symbols, p \in Pairs : NewService(u, s, p) \/ RefreshService(u, s, p)
                  \/ CreateLimiter(u)

ScanStep(s) == \/ FindKey(s) \/ FindService(s) \/ PlaceOrder(s)
               \/ \E granted \in BOOLEAN : Limit(s, granted)

ZookeeperStep == \/ ListServices \/ KeepUnused \/ FindExpired \/ Sleep
                 \/ \E p \in Pairs : RemoveUnused(p) \/ RemoveExpired(p)

Next == \/ \E u \in Updaters : UpdaterStep(u)
        \/ \E p \in Pairs : Expire(p)
        \/ \E w \in Wrappers : CheckStopped(w) \/ Connect(w)
        \/ \E s \in Symbols : ScanStep(s)
        \/ ZookeeperStep

Spec == Init /\ [][Next]_vars
-----------------------------------------------------------------------------
(* Properties *)

Live == {w \in DOMAIN wrappers : w \notin is_stopped}

\* Types of the maps of the service manager, the limiters and the threads' locals.
TypeOK ==
    /\ symbol_best_ippair_map \in [Symbols -> Pairs \cup {NoPair}]
    /\ ippair_service_map \in [Pairs -> Wrappers \cup {0}]
    /\ wrappers \in Seq(Pairs)
    /\ is_stopped \subseteq DOMAIN wrappers
    /\ expired \subseteq {p \in Pairs : Served(p)}
    /\ client \in [Wrappers -> {"none", "check", "connect", "ended"}]
    /\ late \in [Wrappers -> Nat]
    /\ limiters \subseteq LocalIps
    /\ upc \in [Updaters -> {"wait", "limiter"}]
    /\ upair \in [Updaters -> Pairs \cup {NoPair}]
    /\ spc \in [Symbols -> {"key", "value", "limit", "place"}]
    /\ spair \in [Symbols -> Pairs \cup {NoPair}]
    /\ swrapper \in [Symbols -> Wrappers \cup {0}]
    /\ sgone \in [Symbols -> SUBSET Wrappers]
    /\ zpc \in {"sleep", "mapping", "unused", "expired"}
    /\ zlist \subseteq Pairs

\* No connection is leaked or doubled: the wrappers that are not stopped are exactly
\* those of ippair_service_map, each under its own pair, whatever updaters and zookeeper
\* do to the same pair.
LiveIsMapped ==
    /\ \A w \in Live : ippair_service_map[wrappers[w]] = w
    /\ \A p \in Pairs : Served(p) => ippair_service_map[p] \in Live

\* A service that can be found gets its limiter: its local ip has one, or the thread that
\* created such a service is about to create it, or the limiter boss is full.
ServiceHasLimiter ==
    \A p \in Pairs : Served(p) =>
        \/ p[1] \in limiters
        \/ \E u \in Updaters : upc[u] = "limiter" /\ upair[u][1] = p[1]
        \/ Cardinality(limiters) >= Capacity

\* A lookup that begins after a service was stopped never yields that service, although
\* the two halves of find_best_service hold the lock separately.
RemovedNeverFound == \A s \in Symbols : swrapper[s] \notin sgone[s]

\* A stopped service is gone for good: its order process thread begins at most one more
\* connection, when the stop came between its look at is_stopped and startOrderService.
StoppedConnectsOnce == \A w \in Wrappers : late[w] <= 1

\* What the declaration of service_zookeeper_processor says it does, "clear unused
\* services": a service it removes as unused is not the best path of any symbol.
ClearsOnlyUnused == [][\A p \in Pairs : RemoveUnused(p) => p \notin InUse]_vars
=============================================================================
