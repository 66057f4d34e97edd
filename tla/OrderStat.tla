------------------------------ MODULE OrderStat ------------------------------
(***************************************************************************)
(* The way of one order into the statistics.  The actuary's account thread *)
(* (actuary/account_processor.cpp) saves each update of the order in       *)
(* tb_bnum_order and queues it for zmq; a second thread                    *)
(* (actuary/stat_dispatch.cpp) replays the rows of the last hour once      *)
(* after a start.  The evaluator receives them (evaluator/zmq_subscribe),  *)
(* keeps them in a map (evaluator/order_container) and its polling thread  *)
(* (evaluator/order_stat_manager) notes the price 1 second .. 1 hour after *)
(* the order in the map and in tb_bnum_order_pnl.  Both processes may be   *)
(* killed and any statement on MySQL may fail.                             *)
(*                                                                         *)
(* filled and average stand for the filled size and the average price of   *)
(* the order's n-th update.  price[c] is the moment whose price was noted  *)
(* for checkpoint c, 0 when none is.                                       *)
(***************************************************************************)
EXTENDS Integers, Sequences

CONSTANTS Checkpoints,   \* seconds after the order: 1, 5, 10 .. 3600
          Hour,          \* the last checkpoint
          Grace,         \* seconds after which an expired order leaves the map
          NoRow,         \* no such row, no such entry
          MaxFill,       \* bound: updates of the order
          MaxTime,       \* bound: the clock stops here
          MaxCrash       \* bound: kills

Producers == {"account", "replay"}
Lite == [filled : 1..MaxFill, stamp : 1..MaxTime]
Info == [filled : 1..MaxFill, average : 1..MaxFill, stamp : 1..MaxTime,
         price : [Checkpoints -> 0..MaxTime]]

ASSUME OrderStatAssumption ==
    /\ Checkpoints \subseteq Nat \ {0}
    /\ Hour \in Checkpoints
    /\ \A c \in Checkpoints : c <= Hour
    /\ Grace \in Nat
    /\ MaxFill \in Nat /\ MaxTime \in Nat \ {0} /\ MaxCrash \in Nat
    /\ NoRow \notin Lite \cup Info

VARIABLES
    now,         \* the clock, in seconds
    crashes,     \* kills so far
    tb_order,    \* the order's row in tb_bnum_order
    seen,        \* the newest update of the order the account thread handled
    apc,         \* the account thread has saved an update and is about to queue it
    channel,     \* stat_order_channel: a FIFO per producer
    rpc,         \* replay thread
    rcopy,       \* the row it read
    epc,         \* main thread of the evaluator
    lcopy,       \* the row it read
    stat,        \* the order's entry in stat_order_map
    ticker,      \* the evaluator knows a ticker of the symbol
    ppc,         \* polling thread
    pnow,        \* its now
    pcopy,       \* its copy of the entry
    changed,     \* property_changed of the copy
    tb_pnl,      \* the order's row in tb_bnum_order_pnl
    current,     \* history: the update that was applied to the entry last
    raced,       \* history: that update, or the entry, came while a copy was under way
    failed       \* history: a kill, a failed statement, a round of polling beyond Grace

actuaryVars == <<tb_order, seen, apc, channel, rpc, rcopy>>
pollVars == <<ppc, pnow, pcopy, changed>>
vars == <<now, crashes, actuaryVars, epc, lcopy, stat, ticker, pollVars, tb_pnl, current, raced, failed>>

Empty == [c \in Checkpoints |-> 0]

Init ==
    /\ now = 1
    /\ crashes = 0
    /\ tb_order = NoRow
    /\ seen = 0
    /\ apc = FALSE
    /\ channel = [p \in Producers |-> << >>]
    /\ rpc = "wait"
    /\ rcopy = NoRow
    /\ epc = "query"
    /\ lcopy = NoRow
    /\ stat = NoRow
    /\ ticker = FALSE
    /\ ppc = "off"
    /\ pnow = 0
    /\ pcopy = NoRow
    /\ changed = FALSE
    /\ tb_pnl = NoRow
    /\ current = 0
    /\ raced = FALSE
    /\ failed = FALSE

Tick == /\ now < MaxTime
        /\ now' = now + 1
        /\ failed' = (failed \/ (ppc \notin {"off", "sleep"} /\ now >= pnow + Grace))
        /\ UNCHANGED <<crashes, actuaryVars, epc, lcopy, stat, ticker, pollVars, tb_pnl, current, raced>>
-----------------------------------------------------------------------------
(* The actuary: process_balance_position, load_recent_orders_to_zmq *)

\* an update is saved; those in between were lost with the user data stream, or their
\* statement failed and they were not queued either.  On a duplicate key the row keeps
\* its time stamp.
SaveOrder ==
    /\ ~apc
    /\ \E n \in (seen + 1)..MaxFill :
          /\ seen' = n
          /\ tb_order' = [filled |-> n, stamp |-> IF tb_order = NoRow THEN now ELSE tb_order.stamp]
    /\ apc' = TRUE
    /\ UNCHANGED <<now, crashes, channel, rpc, rcopy, epc, lcopy, stat, ticker, pollVars, tb_pnl, current, raced, failed>>

\* try_enqueue gives up when the queue is full
EnqueueLite ==
    /\ apc
    /\ apc' = FALSE
    /\ \/ channel' = [channel EXCEPT !["account"] = Append(@, [filled |-> seen, stamp |-> now])]
       \/ UNCHANGED channel
    /\ UNCHANGED <<now, crashes, tb_order, seen, rpc, rcopy, epc, lcopy, stat, ticker, pollVars, tb_pnl, current, raced, failed>>

\* the rows of the last hour; without one, when the query fails or when the queue is full,
\* nothing is replayed
ReplayRead ==
    /\ rpc = "wait"
    /\ \/ /\ tb_order # NoRow
          /\ tb_order.stamp >= now - Hour
          /\ rcopy' = tb_order
          /\ rpc' = "send"
       \/ /\ rpc' = "done"
          /\ UNCHANGED rcopy
    /\ UNCHANGED <<now, crashes, tb_order, seen, apc, channel, epc, lcopy, stat, ticker, pollVars, tb_pnl, current, raced, failed>>

ReplayEnqueue ==
    /\ rpc = "send"
    /\ channel' = [channel EXCEPT !["replay"] = Append(@, rcopy)]
    /\ rpc' = "done"
    /\ rcopy' = NoRow
    /\ UNCHANGED <<now, crashes, tb_order, seen, apc, epc, lcopy, stat, ticker, pollVars, tb_pnl, current, raced, failed>>

\* killed and started again: what was queued is gone, the replay begins anew
ActuaryRestart ==
    /\ crashes < MaxCrash
    /\ crashes' = crashes + 1
    /\ apc' = FALSE
    /\ channel' = [p \in Producers |-> << >>]
    /\ rpc' = "wait"
    /\ rcopy' = NoRow
    /\ UNCHANGED <<now, tb_order, seen, epc, lcopy, stat, ticker, pollVars, tb_pnl, current, raced, failed>>
-----------------------------------------------------------------------------
(* The evaluator: subscribe_process_order_stat_zmq *)

\* mutant: an update of a known order begins a new entry
UpdateAfresh(lite) == [filled |-> lite.filled, average |-> lite.filled, stamp |-> lite.stamp, price |-> Empty]

\* mutant: an update of a known order is ignored
UpdateIgnored(lite) == IF stat # NoRow THEN stat ELSE UpdateAfresh(lite)

\* mutant: the average price of a new order is not copied
AverageForgotten(lite) == [UpdateAfresh(lite) EXCEPT !.average = 0]

\* update_with_lite: a known order keeps its time stamp and its prices
update_with_lite(lite) ==
    IF stat # NoRow
    THEN [stat EXCEPT !.filled = lite.filled, !.average = lite.filled]
    ELSE [filled |-> lite.filled, average |-> lite.filled, stamp |-> lite.stamp, price |-> Empty]

Deliver(p) ==
    /\ channel[p] # << >>
    /\ epc # "down"
    /\ channel' = [channel EXCEPT ![p] = Tail(@)]
    /\ stat' = update_with_lite(Head(channel[p]))
    /\ current' = Head(channel[p]).filled
    /\ raced' = (ppc = "calculate" \/ epc \in {"query", "apply"})
    /\ UNCHANGED <<now, crashes, tb_order, seen, apc, rpc, rcopy, epc, lcopy, ticker, pollVars, tb_pnl, failed>>

\* the publisher sends to nobody
Lose(p) ==
    /\ channel[p] # << >>
    /\ epc = "down"
    /\ channel' = [channel EXCEPT ![p] = Tail(@)]
    /\ UNCHANGED <<now, crashes, tb_order, seen, apc, rpc, rcopy, epc, lcopy, stat, ticker, pollVars, tb_pnl, current, raced, failed>>

TickerArrives ==
    /\ epc # "down"
    /\ ~ticker
    /\ ticker' = TRUE
    /\ UNCHANGED <<now, crashes, actuaryVars, epc, lcopy, stat, pollVars, tb_pnl, current, raced, failed>>
-----------------------------------------------------------------------------
(* The evaluator: load_recently_order_stat_result, before the polling      *)
(* thread is started                                                       *)

LoadQuery ==
    /\ epc = "query"
    /\ \/ /\ tb_pnl # NoRow
          /\ tb_pnl.stamp >= now - (Hour + Grace)
          /\ lcopy' = tb_pnl
          /\ epc' = "apply"
          /\ UNCHANGED ppc
       \/ /\ epc' = "up"
          /\ ppc' = "sleep"
          /\ UNCHANGED lcopy
    /\ UNCHANGED <<now, crashes, actuaryVars, stat, ticker, pnow, pcopy, changed, tb_pnl, current, raced, failed>>

\* update_with_full_info ignores an order older than an hour
IsExpired(info) == now > info.stamp + Hour

LoadApply ==
    /\ epc = "apply"
    /\ IF IsExpired(lcopy)
       THEN UNCHANGED <<stat, current>>
       ELSE /\ stat' = lcopy
            /\ current' = IF stat = NoRow THEN lcopy.filled ELSE current
    /\ lcopy' = NoRow
    /\ epc' = "up"
    /\ ppc' = "sleep"
    /\ UNCHANGED <<now, crashes, actuaryVars, ticker, pnow, pcopy, changed, tb_pnl, raced, failed>>

EvaluatorCrash ==
    /\ epc # "down"
    /\ crashes < MaxCrash
    /\ crashes' = crashes + 1
    /\ epc' = "down"
    /\ lcopy' = NoRow
    /\ stat' = NoRow
    /\ ticker' = FALSE
    /\ ppc' = "off"
    /\ pnow' = 0
    /\ pcopy' = NoRow
    /\ changed' = FALSE
    /\ current' = 0
    /\ raced' = FALSE
    /\ failed' = TRUE
    /\ UNCHANGED <<now, actuaryVars, tb_pnl>>

EvaluatorStart ==
    /\ epc = "down"
    /\ epc' = "query"
    /\ UNCHANGED <<now, crashes, actuaryVars, lcopy, stat, ticker, pollVars, tb_pnl, current, raced, failed>>
-----------------------------------------------------------------------------
(* The evaluator: polling_calculate_order_pnl *)

PollCopy ==
    /\ ppc = "sleep"
    /\ pnow' = now
    /\ pcopy' = stat
    /\ changed' = FALSE
    /\ ppc' = "calculate"
    /\ UNCHANGED <<now, crashes, actuaryVars, epc, lcopy, stat, ticker, tb_pnl, current, raced, failed>>

\* mutant: a checkpoint is due a second early
DueEarly(info, c) == pnow - info.stamp >= c - 1 /\ info.price[c] = 0

\* mutant: a checkpoint is due in its very second only
DueExactly(info, c) == pnow - info.stamp = c /\ info.price[c] = 0

Due(info, c) == pnow - info.stamp >= c /\ info.price[c] = 0

\* the price is the ticker's of this moment, the checkpoints are those of pnow
Calculated(info) == [info EXCEPT !.price = [c \in Checkpoints |-> IF Due(info, c) THEN now ELSE @[c]]]

PollCalculate ==
    /\ ppc = "calculate"
    /\ IF /\ pcopy # NoRow
          /\ pnow > pcopy.stamp
          /\ ticker
          /\ \E c \in Checkpoints : Due(pcopy, c)
       THEN /\ pcopy' = Calculated(pcopy)
            /\ changed' = TRUE
            /\ stat' = IF IsExpired(pcopy) THEN stat ELSE Calculated(pcopy)
       ELSE UNCHANGED <<pcopy, changed, stat>>
    /\ ppc' = "save"
    /\ UNCHANGED <<now, crashes, actuaryVars, epc, lcopy, ticker, pnow, tb_pnl, current, raced, failed>>

\* on a duplicate key the row keeps its average price and its time stamp
Upserted(info) ==
    IF tb_pnl = NoRow THEN info
    ELSE [info EXCEPT !.average = tb_pnl.average, !.stamp = tb_pnl.stamp]

\* saved whether or not update_with_full_info ignored it; the statement may fail
PollSave ==
    /\ ppc = "save"
    /\ \/ changed /\ tb_pnl' = Upserted(pcopy) /\ UNCHANGED failed
       \/ changed /\ failed' = TRUE /\ UNCHANGED tb_pnl
       \/ ~changed /\ UNCHANGED <<tb_pnl, failed>>
    /\ pcopy' = NoRow
    /\ changed' = FALSE
    /\ ppc' = "collect"
    /\ UNCHANGED <<now, crashes, actuaryVars, epc, lcopy, stat, ticker, pnow, current, raced>>

\* mutant: an order leaves the map before its hour is over
RemovableEarly(info) == now > info.stamp + Grace

Removable(info) == now > info.stamp + Hour + Grace

\* remove_expired_stat_order collects the keys under a shared lock ..
PollCollect ==
    /\ ppc = "collect"
    /\ ppc' = IF stat # NoRow /\ Removable(stat) THEN "erase" ELSE "sleep"
    /\ pnow' = IF ppc' = "sleep" THEN 0 ELSE pnow
    /\ UNCHANGED <<now, crashes, actuaryVars, epc, lcopy, stat, ticker, pcopy, changed, tb_pnl, current, raced, failed>>

\* .. and erases them under a unique one
PollErase ==
    /\ ppc = "erase"
    /\ stat' = NoRow
    /\ current' = 0
    /\ raced' = FALSE
    /\ ppc' = "sleep"
    /\ pnow' = 0
    /\ UNCHANGED <<now, crashes, actuaryVars, epc, lcopy, ticker, pcopy, changed, tb_pnl, failed>>
-----------------------------------------------------------------------------
Poll == PollCopy \/ PollCalculate \/ PollSave \/ PollCollect \/ PollErase

Next ==
    \/ Tick
    \/ SaveOrder \/ EnqueueLite
    \/ ReplayRead \/ ReplayEnqueue
    \/ ActuaryRestart
    \/ \E p \in Producers : Deliver(p) \/ Lose(p)
    \/ TickerArrives
    \/ LoadQuery \/ LoadApply
    \/ EvaluatorCrash \/ EvaluatorStart
    \/ Poll

Spec == Init /\ [][Next]_vars

\* The clock runs, the evaluator's main thread gets past its query and its polling
\* thread keeps polling.  Nothing obliges the actuary to trade or to publish.
FairSpec == Spec /\ WF_vars(Tick) /\ WF_vars(LoadQuery \/ LoadApply) /\ WF_vars(Poll)
-----------------------------------------------------------------------------
(* Properties *)

\* Types of the state of both processes and of the two tables.
TypeOK ==
    /\ now \in 1..MaxTime
    /\ crashes \in 0..MaxCrash
    /\ tb_order \in Lite \cup {NoRow}
    /\ seen \in 0..MaxFill
    /\ apc \in BOOLEAN
    /\ channel \in [Producers -> Seq(Lite)]
    /\ rpc \in {"wait", "send", "done"}
    /\ rcopy \in Lite \cup {NoRow}
    /\ epc \in {"down", "query", "apply", "up"}
    /\ lcopy \in Info \cup {NoRow} /\ stat \in Info \cup {NoRow}
    /\ pcopy \in Info \cup {NoRow} /\ tb_pnl \in Info \cup {NoRow}
    /\ ppc \in {"off", "sleep", "calculate", "save", "collect", "erase"}
    /\ pnow \in 0..MaxTime
    /\ current \in 0..MaxFill
    /\ ticker \in BOOLEAN /\ changed \in BOOLEAN /\ raced \in BOOLEAN /\ failed \in BOOLEAN

Noted(info) == {c \in Checkpoints : info # NoRow /\ info.price[c] # 0}

\* No price is noted before its time, in the map or in tb_bnum_order_pnl, whichever of
\* the order's updates, its replay or the reloaded row began the entry: the price of a
\* checkpoint is at least that many seconds younger than the order's row.
NotTooEarly ==
    \A info \in {stat, tb_pnl}, c \in Checkpoints :
        c \in Noted(info) => info.price[c] >= tb_order.stamp + c

\* polling_calculate_order_pnl may skip over checkpoints when it is slow, after a restart
\* or for a replayed order, but it makes up for them: a price never stands in the row
\* with an earlier checkpoint missing or noted later.
CheckpointsInOrder ==
    \A info \in {stat, tb_pnl}, c, d \in Checkpoints :
        c < d /\ d \in Noted(info) => c \in Noted(info) /\ info.price[c] <= info.price[d]

\* Without a kill, a failed statement or a round beyond Grace, a price in the row is
\* final while the order's hour lasts, although updates and replays of the order keep
\* changing the entry it is saved from.
PriceKept ==
    [][\A c \in Noted(tb_pnl) :
          ~failed /\ now <= tb_pnl.stamp + Hour => tb_pnl'.price[c] = tb_pnl.price[c]]_vars

\* The entry holds the update delivered last, unless that one arrived between the copy
\* and the write-back of a polling round, or before the reload was through: these are
\* the only ways in which update_with_full_info loses it.
LostOnlyInRace == stat # NoRow /\ ~raced => stat.filled = current

\* An order that reached the evaluator within its hour is evaluated at every checkpoint
\* before it leaves the map: all of them end up in tb_bnum_order_pnl, unless a kill, a
\* failed statement or a stalled round intervenes.
EvaluatedInTheEnd ==
    (stat # NoRow /\ now <= stat.stamp + Hour /\ stat.stamp + Hour <= MaxTime /\ ticker)
        ~> (Noted(tb_pnl) = Checkpoints \/ failed)
=============================================================================
