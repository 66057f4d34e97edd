------------------------------- MODULE Position -------------------------------
(***************************************************************************)
(* One instrument's position in the actuary (actuary/account_container.cpp,*)
(* actuary/account_processor.cpp) and the strategy thread that trades on   *)
(* it (actuary/strategy_processor.cpp).  The position is stored by two     *)
(* threads: one polls the account over REST, one applies the events of the *)
(* user data stream.  Both overwrite whatever is there, and both then      *)
(* derive the position threshold from a copy they take separately.  The    *)
(* exchange fills the orders, and the stream may drop an event.            *)
(*                                                                         *)
(* Amounts are signed: positive is LONG, negative SHORT, zero neither.     *)
(* The signal, and the dynamic configuration (see RiskControl), are free.  *)
(***************************************************************************)
EXTENDS Integers, Sequences

CONSTANTS InitialPosition,
          OrderSize,       \* inst_config.order_size * order_size_zoom
          MaxPosition,     \* inst_config.max_position * max_position_zoom
          StreamDrops,     \* the user data stream may lose events (reconnect)
          MaxOrders        \* bound: orders made, one of an earlier run included

ASSUME PositionAssumption ==
    /\ InitialPosition \in Int
    /\ OrderSize \in Nat \ {0}
    /\ MaxPosition \in Nat \ {0}
    /\ StreamDrops \in BOOLEAN
    /\ MaxOrders \in Nat \ {0}

VARIABLES
    ticker,       \* the shared memory holds a ticker of the instrument
    close_only,   \* config.make_position_close_only or positionCloseOnly of the instrument
    exchange,     \* the position the exchange has (external)
    inflight,     \* orders on their way: signed volume, reduce_only
    orders,       \* how many orders were made
    position,     \* position_map[symbol].positionAmount
    threshold,    \* threshold_map[symbol]: the position it was derived from
    rpc, rdata,   \* load_balance_position: pc, the position in the response or copied
    channel,      \* account_info_channel: positions of the ACCOUNT_UPDATE events
    epc, edata,   \* process_balance_position: pc, the position in the event or copied
    spc, sdata,   \* calculate_signal_make_order: pc, the position copied
    misled        \* history: an order was made that the exchange's position did not warrant

exchangeVars == <<exchange, inflight>>
storeVars == <<position, threshold>>
restVars == <<rpc, rdata>>
eventVars == <<epc, edata>>
strategyVars == <<close_only, spc, sdata, orders, misled>>
positionVars == <<ticker, exchangeVars, storeVars, restVars, channel, eventVars, strategyVars>>

\* Both maps were filled from the first answer, before the strategy thread ends its initial
\* sleep; the threshold is that of no position as long as there is no ticker.  An order of
\* the process's last run may still be under way.
PositionInit ==
    /\ ticker \in BOOLEAN
    /\ close_only \in BOOLEAN
    /\ exchange = InitialPosition
    /\ inflight \in {<< >>, <<[volume |-> OrderSize, reduce_only |-> FALSE]>>}
    /\ orders = Len(inflight)
    /\ position = InitialPosition
    /\ threshold = IF ticker THEN InitialPosition ELSE 0
    /\ rpc = "sleep" /\ rdata = 0
    /\ channel = << >>
    /\ epc = "wait" /\ edata = 0
    /\ spc = "awake" /\ sdata = 0 /\ misled = (inflight # << >>)

Abs(n) == IF n < 0 THEN -n ELSE n
Sign(n) == IF n < 0 THEN -1 ELSE IF n > 0 THEN 1 ELSE 0
Smaller(a, b) == IF a < b THEN a ELSE b
-----------------------------------------------------------------------------
(* The exchange: an IOC order is filled in part, in full or not at all, a  *)
(* reduce-only one no further than to zero.  A fill is reported, unless    *)
(* the stream is down.                                                     *)

Fillable(o) == IF o.reduce_only THEN Smaller(Abs(o.volume), IF Sign(exchange) = -Sign(o.volume) THEN Abs(exchange) ELSE 0)
                                ELSE Abs(o.volume)

Fill(filled, reported) ==
    /\ inflight # << >>
    /\ filled <= Fillable(Head(inflight))
    /\ exchange' = exchange + Sign(Head(inflight).volume) * filled
    /\ inflight' = Tail(inflight)
    /\ reported \/ StreamDrops
    /\ channel' = IF reported /\ filled > 0 THEN Append(channel, exchange') ELSE channel
    /\ UNCHANGED <<ticker, storeVars, restVars, eventVars, strategyVars>>
-----------------------------------------------------------------------------
(* load_balance_position: one thread, every ten seconds *)

\* get_account_v2: the answer is the exchange's position at that moment
RestFetch ==
    /\ rpc = "sleep"
    /\ rdata' = exchange
    /\ rpc' = "apply"
    /\ UNCHANGED <<ticker, exchangeVars, storeVars, channel, eventVars, strategyVars>>

\* update_exist_position
RestApply ==
    /\ rpc = "apply"
    /\ position' = rdata
    /\ rpc' = "copy"
    /\ UNCHANGED <<ticker, exchangeVars, threshold, rdata, channel, eventVars, strategyVars>>

\* calculcate_position_threshold gives up without a ticker
RestNoTicker ==
    /\ rpc = "copy"
    /\ ~ticker
    /\ rpc' = "sleep"
    /\ rdata' = 0
    /\ UNCHANGED <<ticker, exchangeVars, storeVars, channel, eventVars, strategyVars>>

\* or copies the stored position
RestCopy ==
    /\ rpc = "copy"
    /\ ticker
    /\ rdata' = position
    /\ rpc' = "threshold"
    /\ UNCHANGED <<ticker, exchangeVars, storeVars, channel, eventVars, strategyVars>>

\* mutant: the polling thread leaves the threshold to the event thread
KeepThreshold == UNCHANGED threshold

\* update_exist_position_threshold
StoreThreshold == threshold' = rdata

RestThreshold ==
    /\ rpc = "threshold"
    /\ StoreThreshold
    /\ rpc' = "sleep"
    /\ rdata' = 0
    /\ UNCHANGED <<ticker, exchangeVars, position, channel, eventVars, strategyVars>>
-----------------------------------------------------------------------------
(* process_balance_position: one thread *)

Dequeue ==
    /\ epc = "wait"
    /\ channel # << >>
    /\ edata' = Head(channel)
    /\ channel' = Tail(channel)
    /\ epc' = "apply"
    /\ UNCHANGED <<ticker, exchangeVars, storeVars, restVars, strategyVars>>

\* update_exist_position_event
EventApply ==
    /\ epc = "apply"
    /\ position' = edata
    /\ epc' = "copy"
    /\ UNCHANGED <<ticker, exchangeVars, threshold, restVars, channel, edata, strategyVars>>

EventNoTicker ==
    /\ epc = "copy"
    /\ ~ticker
    /\ epc' = "wait"
    /\ edata' = 0
    /\ UNCHANGED <<ticker, exchangeVars, storeVars, restVars, channel, strategyVars>>

EventCopy ==
    /\ epc = "copy"
    /\ ticker
    /\ edata' = position
    /\ epc' = "threshold"
    /\ UNCHANGED <<ticker, exchangeVars, storeVars, restVars, channel, strategyVars>>

EventThreshold ==
    /\ epc = "threshold"
    /\ threshold' = edata
    /\ epc' = "wait"
    /\ edata' = 0
    /\ UNCHANGED <<ticker, exchangeVars, position, restVars, channel, strategyVars>>
-----------------------------------------------------------------------------
(* calculate_signal_make_order: position copied, order made *)

\* The head of the loop.  In close-only mode it sleeps five seconds: time enough for the
\* order of the last turn to be executed, its event applied and a request answered.
WakeUp ==
    /\ spc = "sleep"
    /\ close_only => inflight = << >> /\ channel = << >> /\ epc = "wait" /\ rpc = "sleep"
    /\ spc' = "awake"
    /\ UNCHANGED <<ticker, exchangeVars, storeVars, restVars, channel, eventVars, close_only, sdata, orders, misled>>

\* without a ticker the loop starts again, and so it does with nothing left to close
CopyPosition ==
    /\ spc = "awake"
    /\ ticker
    /\ ~(close_only /\ position = 0)
    /\ sdata' = position
    /\ spc' = "signal"
    /\ UNCHANGED <<ticker, exchangeVars, storeVars, restVars, channel, eventVars, close_only, orders, misled>>

\* side is 1 for a buy, -1 for a sell
PositionClose(side) == Sign(sdata) = -side

\* the known position is at its maximum on this side
AtMaximum(side) == Abs(sdata) >= MaxPosition /\ Sign(sdata) = side

\* mutant: close-only orders are sent in full size
FullSize(side) == [volume |-> side * OrderSize, reduce_only |-> FALSE]

\* a close-only order larger than the known position is cut to it and reduce-only
OrderOf(side) ==
    IF close_only /\ PositionClose(side) /\ OrderSize > Abs(sdata)
    THEN [volume |-> side * Abs(sdata), reduce_only |-> TRUE]
    ELSE [volume |-> side * OrderSize, reduce_only |-> FALSE]

\* The signal asks for an order on this side and it is written; may_open is
\* dynamic_could_make_open_position_order().
MakeOrder(side, may_open) ==
    /\ spc = "signal"
    /\ orders < MaxOrders
    /\ ~AtMaximum(side)
    /\ PositionClose(side) \/ (~close_only /\ may_open)
    /\ inflight' = Append(inflight, OrderOf(side))
    /\ orders' = orders + 1
    /\ spc' = "sleep"
    /\ sdata' = 0
    /\ misled' = (misled \/ sdata # exchange \/ inflight # << >>)
    /\ UNCHANGED <<ticker, exchange, storeVars, restVars, channel, eventVars, close_only>>

\* No signal, a signal the configuration or the same-price pause suppresses, or a buy
\* suppressed by stop_buy, which is read uninitialised unless the position is long at its
\* maximum.
NoOrder ==
    /\ spc = "signal"
    /\ spc' = "sleep"
    /\ sdata' = 0
    /\ UNCHANGED <<ticker, exchangeVars, storeVars, restVars, channel, eventVars, close_only, orders, misled>>
-----------------------------------------------------------------------------
RestStep == RestFetch \/ RestApply \/ RestNoTicker \/ RestCopy \/ RestThreshold
EventStep == Dequeue \/ EventApply \/ EventNoTicker \/ EventCopy \/ EventThreshold
StrategyStep == \/ WakeUp \/ CopyPosition \/ NoOrder
                \/ \E side \in {1, -1}, may_open \in BOOLEAN : MakeOrder(side, may_open)

\* the receiver writes the first ticker
TickerArrives ==
    /\ ~ticker
    /\ ticker' = TRUE
    /\ UNCHANGED <<exchangeVars, storeVars, restVars, channel, eventVars, strategyVars>>

PositionNext ==
    \/ TickerArrives
    \/ \E filled \in 0..OrderSize, reported \in BOOLEAN : Fill(filled, reported)
    \/ RestStep
    \/ EventStep
    \/ StrategyStep

PositionSpec == PositionInit /\ [][PositionNext]_positionVars

\* both account threads run for ever and get answers again and again
PositionFairSpec == PositionSpec /\ WF_positionVars(RestStep) /\ WF_positionVars(EventStep)
-----------------------------------------------------------------------------
(* Properties *)

\* Types of the exchange's and the known position, the events and the orders; no order
\* is empty or larger than the configured size.
PositionTypeOK ==
    /\ ticker \in BOOLEAN
    /\ exchange \in Int /\ position \in Int /\ threshold \in Int
    /\ inflight \in Seq([volume : (-OrderSize..OrderSize) \ {0}, reduce_only : BOOLEAN])
    /\ orders \in 0..MaxOrders
    /\ rpc \in {"sleep", "apply", "copy", "threshold"} /\ rdata \in Int
    /\ channel \in Seq(Int)
    /\ epc \in {"wait", "apply", "copy", "threshold"} /\ edata \in Int
    /\ spc \in {"sleep", "awake", "signal"} /\ sdata \in Int
    /\ close_only \in BOOLEAN /\ misled \in BOOLEAN

Crosses == Sign(exchange) # 0 /\ Sign(exchange') = -Sign(exchange)

\* In close-only mode only stale knowledge makes a position change its side: as long as
\* every order was made with the exchange's position known and no other order under way,
\* no sequence of partial fills crosses zero, although most orders are not reduce-only.
CrossesOnlyMisled == [][close_only /\ ~misled => ~Crosses]_positionVars

\* Stale overwrites and dropped events are repaired: once there is a ticker and the
\* exchange's position stops changing, the stored position and the threshold derived from
\* it become and remain the exchange's.
Converges == <>ticker => <>[](position = exchange /\ threshold = exchange)

\* What the pause of close-only mode is for, "avoid place more orders and cross position
\* side": a position that is being closed never changes its side.
CloseOnlyNeverCrosses == [][close_only => ~Crosses]_positionVars
=============================================================================
