----------------------------- MODULE OrderLimiter -----------------------------
(***************************************************************************)
(* The best-path order limiter of the trader (trader/order_limiter.cpp):   *)
(* one limiter for the account and one per local IP, each with a budget    *)
(* per "second" period and one per "minute" period.  Scan threads draw one *)
(* semaphore from the account and one from the IP before they send an      *)
(* order, and give the account's back when the IP has none.  The refresh   *)
(* thread refills the limiters, and the threads that learn of best paths   *)
(* (polling and zmq) create the IP limiters.                               *)
(*                                                                         *)
(* A scan thread holds the boss's rw_lock shared during its whole call, so *)
(* the steps that take it unique wait until no scan thread is inside.      *)
(***************************************************************************)
EXTENDS Naturals, FiniteSets

CONSTANTS Senders,         \* scan_and_send_order threads
          Creators,        \* threads that call create_ip_limiter
          Ips,             \* local IPs
          Account,         \* names the account_limiter
          AccountSecond, AccountMinute,     \* order_account_limit_per_10seconds, .._per_minute
          IpSecond, IpMinute,               \* order_ip_limit_per_10seconds, .._per_minute
          SecondDuration, MinuteDuration,   \* second_reset_duration_millis, minute_..
          MaxCapacity,     \* max_capacity of the boss
          MaxTime          \* bound: the clock stops here

ASSUME OrderLimiterAssumption ==
    /\ IsFiniteSet(Senders)
    /\ IsFiniteSet(Creators) /\ Creators # {}
    /\ IsFiniteSet(Ips)
    /\ Account \notin Ips
    /\ AccountSecond \in Nat /\ AccountMinute \in Nat
    /\ IpSecond \in Nat /\ IpMinute \in Nat
    /\ SecondDuration \in Nat \ {0}
    /\ MinuteDuration \in Nat \ {0}
    /\ MaxCapacity \in Nat
    /\ MaxTime \in Nat

Limiters == Ips \cup {Account}

second_semaphore_init_count(l) == IF l = Account THEN AccountSecond ELSE IpSecond
minute_semaphore_init_count(l) == IF l = Account THEN AccountMinute ELSE IpMinute

VARIABLES
    now,
    ip_limiter_map,   \* the IPs that have a limiter
    second_remain,    \* second_semaphore_remain_count, per limiter
    minute_remain,    \* minute_semaphore_remain_count
    second_reset,     \* second_latest_reset_millis
    minute_reset,     \* minute_latest_reset_millis
    spc,              \* program counter of a scan thread in get_order_semaphore
    sip,              \* its local_ip
    rpc,              \* program counter of the refresh thread
    rnow,             \* the time it read before it asked for the lock
    cpc,              \* program counter of a thread in create_ip_limiter
    cip,              \* its local_ip
    cinit,            \* the reset time of the limiter it is about to insert
    granted,          \* history: semaphores granted for good, per limiter
    created           \* history: limiters inserted, per IP

limiterVars == <<second_remain, minute_remain, second_reset, minute_reset>>
creatorVars == <<cpc, cip, cinit>>
vars == <<now, ip_limiter_map, limiterVars, spc, sip, rpc, rnow, creatorVars, granted, created>>

Init ==
    /\ now = 0
    /\ ip_limiter_map = {}
    /\ second_remain = [l \in Limiters |-> second_semaphore_init_count(l)]
    /\ minute_remain = [l \in Limiters |-> minute_semaphore_init_count(l)]
    /\ second_reset = [l \in Limiters |-> 0]
    /\ minute_reset = [l \in Limiters |-> 0]
    /\ spc = [s \in Senders |-> "idle"]
    /\ sip \in [Senders -> Ips]
    /\ rpc = "sleep"
    /\ rnow = 0
    /\ cpc = [c \in Creators |-> "idle"]
    /\ cip \in [Creators -> Ips]
    /\ cinit = [c \in Creators |-> 0]
    /\ granted = [l \in Limiters |-> 0]
    /\ created = [i \in Ips |-> 0]

Tick == /\ now < MaxTime
        /\ now' = now + 1
        /\ UNCHANGED <<ip_limiter_map, limiterVars, spc, sip, rpc, rnow, creatorVars, granted, created>>
-----------------------------------------------------------------------------
(* AutoResetOrderLimiterBoss::get_order_semaphore(local_ip, 1) *)

Inside == {s \in Senders : spc[s] # "idle"}

\* mutant: only the budget of the short period is looked at
HasSecondSemaphore(l) == second_remain[l] >= 1

HasSemaphore(l) == second_remain[l] >= 1 /\ minute_remain[l] >= 1

\* mutant: the budget of the long period is not drawn on
DrawSecondOnly(l) ==
    /\ second_remain' = [second_remain EXCEPT ![l] = @ - 1]
    /\ UNCHANGED <<minute_remain, second_reset, minute_reset>>

Draw(l) ==
    /\ second_remain' = [second_remain EXCEPT ![l] = @ - 1]
    /\ minute_remain' = [minute_remain EXCEPT ![l] = @ - 1]
    /\ UNCHANGED <<second_reset, minute_reset>>

\* the account has a semaphore: the thread goes on, holding rw_lock shared
AccountDraw(s, ip) ==
    /\ spc[s] = "idle"
    /\ HasSemaphore(Account)
    /\ Draw(Account)
    /\ spc' = [spc EXCEPT ![s] = "ip"]
    /\ sip' = [sip EXCEPT ![s] = ip]
    /\ UNCHANGED <<now, ip_limiter_map, rpc, rnow, creatorVars, granted, created>>

\* find local_ip and draw from its limiter
IpDraw(s) ==
    /\ spc[s] = "ip"
    /\ sip[s] \in ip_limiter_map
    /\ HasSemaphore(sip[s])
    /\ Draw(sip[s])
    /\ granted' = [granted EXCEPT ![Account] = @ + 1, ![sip[s]] = @ + 1]
    /\ spc' = [spc EXCEPT ![s] = "idle"]
    /\ UNCHANGED <<now, ip_limiter_map, sip, rpc, rnow, creatorVars, created>>

\* no limiter for local_ip, or none of its semaphores left
IpRefuse(s) ==
    /\ spc[s] = "ip"
    /\ ~(sip[s] \in ip_limiter_map /\ HasSemaphore(sip[s]))
    /\ spc' = [spc EXCEPT ![s] = "return"]
    /\ UNCHANGED <<now, ip_limiter_map, limiterVars, sip, rpc, rnow, creatorVars, granted, created>>

return_order_semaphore(l) ==
    /\ second_remain' = [second_remain EXCEPT ![l] =
           IF @ + 1 <= second_semaphore_init_count(l) THEN @ + 1 ELSE @]
    /\ minute_remain' = [minute_remain EXCEPT ![l] =
           IF @ + 1 <= minute_semaphore_init_count(l) THEN @ + 1 ELSE @]
    /\ UNCHANGED <<second_reset, minute_reset>>

AccountReturn(s) ==
    /\ spc[s] = "return"
    /\ return_order_semaphore(Account)
    /\ spc' = [spc EXCEPT ![s] = "idle"]
    /\ UNCHANGED <<now, ip_limiter_map, sip, rpc, rnow, creatorVars, granted, created>>
-----------------------------------------------------------------------------
(* AutoResetOrderLimiterBoss::refresh_all_limiters *)

\* the clock is read before the lock is asked for
RefreshRead ==
    /\ rpc = "sleep"
    /\ rnow' = now
    /\ rpc' = "apply"
    /\ UNCHANGED <<now, ip_limiter_map, limiterVars, spc, sip, creatorVars, granted, created>>

\* mutant: the refresh thread takes rw_lock shared, not unique
SharedLockOnly == TRUE

\* rw_lock can be taken unique
UniqueLock == Inside = {}

\* mutant: the period ends one tick early
SecondEndEarly(l) == second_reset[l] + SecondDuration <= rnow + 1

SecondEnd(l) == second_reset[l] + SecondDuration <= rnow
MinuteEnd(l) == minute_reset[l] + MinuteDuration <= rnow

\* reset_if_cycle_end(now), of the account and of every IP in the map
RefreshApply ==
    /\ rpc = "apply"
    /\ UniqueLock
    /\ LET live == ip_limiter_map \cup {Account} IN
       /\ second_remain' = [l \in Limiters |->
              IF l \in live /\ SecondEnd(l) THEN second_semaphore_init_count(l) ELSE second_remain[l]]
       /\ second_reset' = [l \in Limiters |->
              IF l \in live /\ SecondEnd(l) THEN rnow ELSE second_reset[l]]
       /\ minute_remain' = [l \in Limiters |->
              IF l \in live /\ MinuteEnd(l) THEN minute_semaphore_init_count(l) ELSE minute_remain[l]]
       /\ minute_reset' = [l \in Limiters |->
              IF l \in live /\ MinuteEnd(l) THEN rnow ELSE minute_reset[l]]
    /\ rpc' = "sleep"
    /\ UNCHANGED <<now, ip_limiter_map, spc, sip, rnow, creatorVars, granted, created>>
-----------------------------------------------------------------------------
(* AutoResetOrderLimiterBoss::create_ip_limiter *)

\* mutant: the capacity is compared after the insertion only
NoCapacityCheck(ip) == ip \notin ip_limiter_map

MayCreate(ip) == ip \notin ip_limiter_map /\ Cardinality(ip_limiter_map) < MaxCapacity

\* under rw_lock shared: not there yet, and room for it
CreateLook(c, ip) ==
    /\ cpc[c] = "idle"
    /\ MayCreate(ip)
    /\ cpc' = [cpc EXCEPT ![c] = "init"]
    /\ cip' = [cip EXCEPT ![c] = ip]
    /\ UNCHANGED <<now, ip_limiter_map, limiterVars, spc, sip, rpc, rnow, cinit, granted, created>>

\* AutoResetOrderLimiter::init reads the clock, no lock held
CreateInit(c) ==
    /\ cpc[c] = "init"
    /\ cinit' = [cinit EXCEPT ![c] = now]
    /\ cpc' = [cpc EXCEPT ![c] = "insert"]
    /\ UNCHANGED <<now, ip_limiter_map, limiterVars, spc, sip, rpc, rnow, cip, granted, created>>

\* under rw_lock unique: the map entry is overwritten if there is one by now
CreateInsert(c) ==
    /\ cpc[c] = "insert"
    /\ UniqueLock
    /\ ip_limiter_map' = ip_limiter_map \cup {cip[c]}
    /\ second_remain' = [second_remain EXCEPT ![cip[c]] = IpSecond]
    /\ minute_remain' = [minute_remain EXCEPT ![cip[c]] = IpMinute]
    /\ second_reset' = [second_reset EXCEPT ![cip[c]] = cinit[c]]
    /\ minute_reset' = [minute_reset EXCEPT ![cip[c]] = cinit[c]]
    /\ created' = [created EXCEPT ![cip[c]] = @ + 1]
    /\ cpc' = [cpc EXCEPT ![c] = "idle"]
    /\ UNCHANGED <<now, spc, sip, rpc, rnow, cip, cinit, granted>>
-----------------------------------------------------------------------------
SenderStep(s) == \/ \E ip \in Ips : AccountDraw(s, ip)
                 \/ IpDraw(s) \/ IpRefuse(s) \/ AccountReturn(s)

CreatorStep(c) == \/ \E ip \in Ips : CreateLook(c, ip)
                  \/ CreateInit(c) \/ CreateInsert(c)

Next == \/ Tick
        \/ \E s \in Senders : SenderStep(s)
        \/ RefreshRead
        \/ RefreshApply
        \/ \E c \in Creators : CreatorStep(c)

Spec == Init /\ [][Next]_vars
-----------------------------------------------------------------------------
(* Properties *)

\* Types of the limiters and the threads' locals; no semaphore count falls below zero.
TypeOK ==
    /\ now \in Nat
    /\ ip_limiter_map \subseteq Ips
    /\ second_remain \in [Limiters -> Nat]
    /\ minute_remain \in [Limiters -> Nat]
    /\ second_reset \in [Limiters -> Nat]
    /\ minute_reset \in [Limiters -> Nat]
    /\ spc \in [Senders -> {"idle", "ip", "return"}]
    /\ sip \in [Senders -> Ips]
    /\ rpc \in {"sleep", "apply"}
    /\ rnow \in Nat
    /\ cpc \in [Creators -> {"idle", "init", "insert"}]
    /\ cip \in [Creators -> Ips]
    /\ cinit \in [Creators -> Nat]
    /\ granted \in [Limiters -> Nat]
    /\ created \in [Ips -> Nat]

\* A semaphore the account limiter is given back always fits: refill and return never
\* meet, so the branch of return_order_semaphore that drops the returned semaphore
\* because of a reset is dead, and no semaphore of the account is ever lost to it.
ReturnFits ==
    /\ second_remain[Account] + Cardinality(Inside) <= AccountSecond
    /\ minute_remain[Account] + Cardinality(Inside) <= AccountMinute

\* The account sends at most one budget per started period of the clock, although the
\* refresh thread stamps a reset with a time it read before it waited for the lock, and
\* scan threads draw concurrently.
AccountRate ==
    /\ granted[Account] <= AccountSecond * (1 + now \div SecondDuration)
    /\ granted[Account] <= AccountMinute * (1 + now \div MinuteDuration)

\* An IP sends at most one budget per started period and per limiter created for it.
IpRate ==
    \A i \in Ips :
        /\ granted[i] <= IpSecond * created[i] * (1 + now \div SecondDuration)
        /\ granted[i] <= IpMinute * created[i] * (1 + now \div MinuteDuration)

\* max_capacity is checked under a lock that is released before the insertion: each
\* further creating thread may push the map one over it, and no more than that.
CapacityOvershoot ==
    Cardinality(ip_limiter_map) + 1 <= MaxCapacity + Cardinality(Creators)

\* What order_ip_limit_per_10seconds and order_ip_limit_per_minute promise: an IP sends
\* at most one budget per started period.
IpLimitKept ==
    \A i \in Ips :
        /\ granted[i] <= IpSecond * (1 + now \div SecondDuration)
        /\ granted[i] <= IpMinute * (1 + now \div MinuteDuration)
=============================================================================
