---------------------------- MODULE TradeProcessor ----------------------------
(***************************************************************************)
(* The trader's way from a new order to the exchange and back, without     *)
(* best paths (trader/trade_processor.cpp, common/auto_reset_counter.cpp,  *)
(* AutoResetOrderIntervalBoss of trader/order_limiter.cpp).  The scan      *)
(* thread of a symbol peeks at the symbol's interval counter, draws from   *)
(* the account's minute and second counters, and places the order.  The    *)
(* message thread burns the symbol's interval semaphore when an order was  *)
(* filled.  Refresh threads refill the counters.                           *)
(***************************************************************************)
EXTENDS Naturals, Sequences, FiniteSets

CONSTANTS Symbols,
          MinuteLimit, SecondLimit,          \* order_account_limit_per_minute, .._per_10seconds
          MinuteDuration, SecondDuration,
          IntervalDuration,                  \* place_order_interval_millis
          MaxTime                            \* bound: the clock stops here

ASSUME TradeProcessorAssumption ==
    /\ IsFiniteSet(Symbols)
    /\ Symbols \cap {"minute", "second"} = {}
    /\ MinuteLimit \in Nat /\ SecondLimit \in Nat
    /\ MinuteDuration \in Nat \ {0} /\ SecondDuration \in Nat \ {0}
    /\ IntervalDuration \in Nat \ {0}
    /\ MaxTime \in Nat

Counters == Symbols \cup {"minute", "second"}
Bosses == {"normal", "interval"}    \* order_normal_limiter, order_interval_boss

counter_map(b) == IF b = "normal" THEN {"minute", "second"} ELSE Symbols

\* create_new_counter(count, duration), as GlobalContext and the interval boss call it
semaphore_init_count(c) ==
    CASE c = "minute" -> MinuteLimit [] c = "second" -> SecondLimit [] OTHER -> 1
reset_duration(c) ==
    CASE c = "minute" -> MinuteDuration [] c = "second" -> SecondDuration [] OTHER -> IntervalDuration

VARIABLES
    now,
    remain,        \* semaphore_remain_count of a counter
    latest_reset,  \* its latest_reset_millis
    refreshing,    \* the boss whose refresh thread runs
    todo, rnow,    \* the counters a refresh thread has yet to visit, and the time it read
    spc,           \* program counter of a symbol's scan thread
    awaiting,      \* orders of a symbol the exchange has not answered
    channel,       \* order_channel
    placed,        \* history: orders placed
    since_burn     \* history: orders placed since then and since the last refill

counterVars == <<remain, latest_reset>>
refreshVars == <<refreshing, todo, rnow>>
vars == <<now, counterVars, refreshVars, spc, awaiting, channel, placed, since_burn>>

\* AutoResetOrderIntervalBoss::start reads is_started, which nothing initialises: it may
\* find it set and not start its refresh thread.
Init ==
    /\ now = 1
    /\ remain = [c \in Counters |-> semaphore_init_count(c)]
    /\ latest_reset = [c \in Counters |-> 1]
    /\ refreshing \in {Bosses, {"normal"}}
    /\ todo = [b \in Bosses |-> {}]
    /\ rnow = [b \in Bosses |-> 0]
    /\ spc = [s \in Symbols |-> "scan"]
    /\ awaiting = [s \in Symbols |-> 0]
    /\ channel = << >>
    /\ placed = 0
    /\ since_burn = [s \in Symbols |-> 0]

Tick == /\ now < MaxTime
        /\ now' = now + 1
        /\ UNCHANGED <<counterVars, refreshVars, spc, awaiting, channel, placed, since_burn>>
-----------------------------------------------------------------------------
(* AutoResetCounter *)

\* mutant: the remaining count is not compared
GetAnyway(c) == remain' = [remain EXCEPT ![c] = @ - 1]

\* get_semaphore(1) returns true
Get(c) == /\ remain[c] >= 1
          /\ remain' = [remain EXCEPT ![c] = @ - 1]

\* refresh_counters reads the clock, then goes through the boss's counters
RefreshRead(b) ==
    /\ b \in refreshing
    /\ todo[b] = {}
    /\ rnow' = [rnow EXCEPT ![b] = now]
    /\ todo' = [todo EXCEPT ![b] = counter_map(b)]
    /\ UNCHANGED <<now, counterVars, refreshing, spc, awaiting, channel, placed, since_burn>>

\* mutant: the period ends one tick early
CycleEndEarly(c, t) == latest_reset[c] + reset_duration(c) <= t + 1

CycleEnd(c, t) == latest_reset[c] + reset_duration(c) <= t

\* reset_if_cycle_end; scan threads and the message thread get between two counters
RefreshCounter(b, c) ==
    /\ c \in todo[b]
    /\ IF CycleEnd(c, rnow[b])
       THEN /\ remain' = [remain EXCEPT ![c] = semaphore_init_count(c)]
            /\ latest_reset' = [latest_reset EXCEPT ![c] = rnow[b]]
            /\ since_burn' = [s \in Symbols |-> IF s = c THEN 0 ELSE since_burn[s]]
       ELSE UNCHANGED <<counterVars, since_burn>>
    /\ todo' = [todo EXCEPT ![b] = @ \ {c}]
    /\ UNCHANGED <<now, refreshing, rnow, spc, awaiting, channel, placed>>
-----------------------------------------------------------------------------
(* scan_and_send_order, from a new valid order on *)

Goto(s, l) == spc' = [spc EXCEPT ![s] = l]

\* mutant: the burnt semaphore is not asked for
AnySemaphore(s) == TRUE

has_more_semaphore(s) == remain[s] > 0

\* an order for a symbol whose interval has no semaphore is dropped: the thread scans on
TakeOrder(s) ==
    /\ spc[s] = "scan"
    /\ has_more_semaphore(s)
    /\ Goto(s, "minute")
    /\ UNCHANGED <<now, counterVars, refreshVars, awaiting, channel, placed, since_burn>>

\* the minute counter is drawn from first and keeps the semaphore if the second one refuses
Draw(s, c, next) ==
    /\ spc[s] = c
    /\ \/ Get(c) /\ Goto(s, next)
       \/ remain[c] < 1 /\ Goto(s, "scan") /\ UNCHANGED remain
    /\ UNCHANGED <<now, latest_reset, refreshVars, awaiting, channel, placed, since_burn>>

PlaceOrder(s) ==
    /\ spc[s] = "place"
    /\ Goto(s, "scan")
    /\ awaiting' = [awaiting EXCEPT ![s] = @ + 1]
    /\ placed' = placed + 1
    /\ since_burn' = [since_burn EXCEPT ![s] = IF remain[s] = 0 THEN @ + 1 ELSE 0]
    /\ UNCHANGED <<now, counterVars, refreshVars, channel>>
-----------------------------------------------------------------------------
(* The exchange answers (external), process_order_message *)

Answer(s, filled) ==
    /\ awaiting[s] > 0
    /\ awaiting' = [awaiting EXCEPT ![s] = @ - 1]
    /\ channel' = Append(channel, [symbol |-> s, filled |-> filled])
    /\ UNCHANGED <<now, counterVars, refreshVars, spc, placed, since_burn>>

\* burn_semaphore when the order was filled, wholly or in part
ProcessMessage ==
    /\ channel # << >>
    /\ LET m == Head(channel) IN
       IF m.filled /\ remain[m.symbol] >= 1
       THEN Get(m.symbol)
       ELSE UNCHANGED remain
    /\ channel' = Tail(channel)
    /\ UNCHANGED <<now, latest_reset, refreshVars, spc, awaiting, placed, since_burn>>
-----------------------------------------------------------------------------
ScanStep(s) == \/ TakeOrder(s)
               \/ Draw(s, "minute", "second") \/ Draw(s, "second", "place")
               \/ PlaceOrder(s)

Next == \/ Tick
        \/ \E b \in Bosses : RefreshRead(b) \/ \E c \in Counters : RefreshCounter(b, c)
        \/ \E s \in Symbols : ScanStep(s)
        \/ \E s \in Symbols, filled \in BOOLEAN : Answer(s, filled)
        \/ ProcessMessage

Spec == Init /\ [][Next]_vars
-----------------------------------------------------------------------------
(* Properties *)

\* Types of the counters and the orders under way; no semaphore count falls below zero.
TypeOK ==
    /\ now \in Nat
    /\ remain \in [Counters -> Nat]
    /\ latest_reset \in [Counters -> Nat]
    /\ refreshing \subseteq Bosses
    /\ todo \in [Bosses -> SUBSET Counters]
    /\ rnow \in [Bosses -> Nat]
    /\ spc \in [Symbols -> {"scan", "minute", "second", "place"}]
    /\ awaiting \in [Symbols -> Nat]
    /\ channel \in Seq([symbol : Symbols, filled : BOOLEAN])
    /\ placed \in Nat
    /\ since_burn \in [Symbols -> Nat]

\* A fill stops its symbol, all but the order under way: while the semaphore is burnt the
\* scan thread, which only peeks at it, places at most one more order.
OneStraggler == \A s \in Symbols : remain[s] = 0 => since_burn[s] <= 1

\* However many symbols place orders concurrently, together they stay within both of the
\* account's budgets per started period, although a refill falls between any two draws.
PlacedRate ==
    /\ placed <= SecondLimit * (1 + (now - 1) \div SecondDuration)
    /\ placed <= MinuteLimit * (1 + (now - 1) \div MinuteDuration)
=============================================================================
