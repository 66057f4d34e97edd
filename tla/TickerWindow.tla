----------------------------- MODULE TickerWindow -----------------------------
(***************************************************************************)
(* One instrument's window of tickers in the receiver                      *)
(* (receiver/ticker_container.cpp) and the thread that derives the beta    *)
(* threshold from it (receiver/ticker_calculate.cpp).  Feed threads append *)
(* tickers and drop expired ones; they also keep cached extremes up to     *)
(* date as long as these are valid, and invalidate them when a ticker that *)
(* touches one is dropped.  The calculator recomputes invalid extremes     *)
(* from a copy and stores them in another critical section.                *)
(*                                                                         *)
(* The average price is kept doubled, bid + ask, to remain an integer.     *)
(* Prices are positive.                                                    *)
(***************************************************************************)
EXTENDS Naturals, Sequences, FiniteSets, FiniteSetsExt

CONSTANTS Interval,     \* calculate_sma_interval_seconds: a duration and a number of tickers
          MaxDelay,     \* a ticker reaches its feed thread at most this late
          MaxPrice,     \* bound: prices
          MaxTickers,   \* bound: tickers in the window
          MaxRequests,  \* bound: requests waiting; try_enqueue fails beyond it
          MaxTime       \* bound: the clock stops here

ASSUME TickerWindowAssumption ==
    /\ Interval \in Nat \ {0}
    /\ MaxDelay \in Nat
    /\ MaxPrice \in Nat \ {0, 1}
    /\ MaxTickers \in Nat
    /\ MaxRequests \in Nat
    /\ MaxTime \in Nat

Fields == {"bid", "ask", "avg"}
Quotes == {q \in {[bid |-> b, ask |-> a, avg |-> b + a] : b, a \in 1..MaxPrice} : q.bid < q.ask}
Infinity == 2 * MaxPrice + 1     \* numeric_limits<double>::max()

VARIABLES
    now,
    ticker_list,       \* tickers: time, price
    min_max,           \* the cached extremes: valid, min, max
    channel,           \* beta_calculation_channel: the tickers that caused the requests
    cpc,               \* program counter of process_beta_threshold_calculate
    crequest,          \* history: the ticker that caused the request it handles
    cnow,              \* the time it read
    cresult,           \* min_max_result
    ccopy,             \* the tickers it copied
    threshold,         \* the extremes the stored beta threshold is derived from
    during,            \* history: what the feeds did since the copy
    flaw,              \* history: what they had done when the cached extremes were stored
    basis,             \* history: the time of the calculation that stored them
    cflaw              \* history: flaw, as of the extremes in min_max_result

calculatorVars == <<cpc, crequest, cnow, cresult, ccopy, cflaw>>
vars == <<now, ticker_list, min_max, channel, calculatorVars, threshold, during, flaw, basis>>

\* clear_min_max
Cleared == [valid |-> FALSE,
            min   |-> [f \in Fields |-> Infinity],
            max   |-> [f \in Fields |-> 0]]

Init ==
    /\ now = 0
    /\ ticker_list = << >>
    /\ min_max = Cleared
    /\ channel = << >>
    /\ cpc = "wait" /\ crequest = << >> /\ cnow = 0 /\ cresult = Cleared /\ ccopy = << >> /\ cflaw = {}
    /\ threshold = Cleared
    /\ during = {} /\ flaw = {} /\ basis = 0

Tick == /\ now < MaxTime
        /\ now' = now + 1
        /\ UNCHANGED <<ticker_list, min_max, channel, calculatorVars, threshold, during, flaw, basis>>
-----------------------------------------------------------------------------
(* A feed thread: update_ticker, then a request to the calculator *)

Lower(a, b) == IF a < b THEN a ELSE b
Higher(a, b) == IF a > b THEN a ELSE b

\* mutant: a new minimum is left to the calculator
WidenMax(m, price) == [m EXCEPT !.max = [f \in Fields |-> Higher(m.max[f], price[f])]]

\* extremes widened by a price, field by field
Widen(m, price) ==
    [valid |-> m.valid,
     min   |-> [f \in Fields |-> Lower(m.min[f], price[f])],
     max   |-> [f \in Fields |-> Higher(m.max[f], price[f])]]

\* mutant: the dropped ticker's price is compared strictly
TouchesStrictly(m, price) == \E f \in Fields : price[f] > m.max[f] \/ price[f] < m.min[f]

\* the price is an extreme in one of the fields
Touches(m, price) == \E f \in Fields : price[f] >= m.max[f] \/ price[f] <= m.min[f]

Expired(ticker) == now > ticker.time + Interval

\* pop_front as long as the front is expired; what is behind an unexpired front stays
FirstKept(list) == Min({i \in 1..(Len(list) + 1) : i \in DOMAIN list => ~Expired(list[i])})

\* update_ticker: append, widen valid extremes, drop the expired front and invalidate the
\* extremes when one of the dropped tickers touches them
update_ticker(ticker) ==
    LET list    == Append(ticker_list, ticker)
        first   == FirstKept(list)
        widened == IF min_max.valid THEN Widen(min_max, ticker.price) ELSE min_max
    IN
    /\ ticker_list' = SubSeq(list, first, Len(list))
    /\ min_max' = IF \E i \in 1..(first - 1) : Touches(widened, list[i].price) THEN Cleared ELSE widened
    /\ during' = during \cup {"push"} \cup (IF first = 1 THEN {} ELSE {"pop"})

\* A feed thread has a ticker; delayed ones arrive out of order.  The request that
\* follows is given up when the queue is full.
ProcessTicker(delay, price) ==
    LET ticker == [time |-> now - delay, price |-> price] IN
    /\ delay <= now
    /\ Len(ticker_list) < MaxTickers
    /\ update_ticker(ticker)
    /\ channel' = IF Len(channel) < MaxRequests THEN Append(channel, ticker) ELSE channel
    /\ UNCHANGED <<now, calculatorVars, threshold, flaw, basis>>
-----------------------------------------------------------------------------
(* process_beta_threshold_calculate *)

\* try_dequeue finds nothing: the thread spins
Retry == /\ cpc = "wait"
         /\ channel = << >>
         /\ UNCHANGED vars

Dequeue ==
    /\ cpc = "wait"
    /\ channel # << >>
    /\ crequest' = <<Head(channel)>>
    /\ channel' = Tail(channel)
    /\ cnow' = now
    /\ cpc' = "get"
    /\ UNCHANGED <<now, ticker_list, min_max, cresult, ccopy, cflaw, threshold, during, flaw, basis>>

\* get_min_max_result: are the cached extremes good enough
GetMinMax ==
    /\ cpc = "get"
    /\ cresult' = min_max
    /\ cflaw' = flaw
    /\ cpc' = IF ~min_max.valid \/ Len(ticker_list) < Interval THEN "copy" ELSE "publish"
    /\ UNCHANGED <<now, ticker_list, min_max, channel, crequest, cnow, ccopy, threshold, during, flaw, basis>>

\* copy_ticker_list_after, by the positions the copied tickers had
CopyTickerList ==
    /\ cpc = "copy"
    /\ ccopy' = Restrict(ticker_list, {i \in DOMAIN ticker_list : ticker_list[i].time + Interval > cnow})
    /\ cpc' = "compute"
    /\ during' = {}
    /\ UNCHANGED <<now, ticker_list, min_max, channel, crequest, cnow, cresult, cflaw, threshold, flaw, basis>>

\* the iteration is over
Idle == /\ cpc' = "wait"
        /\ crequest' = << >> /\ cnow' = 0 /\ cresult' = Cleared /\ ccopy' = << >> /\ cflaw' = {}

EnoughTickers == Cardinality(DOMAIN ccopy) >= Interval

NotEnough ==
    /\ cpc = "compute"
    /\ ~EnoughTickers
    /\ Idle
    /\ UNCHANGED <<now, ticker_list, min_max, channel, threshold, during, flaw, basis>>

\* the lowest and the highest price in each field
Extremes(tickers) ==
    LET Prices(f) == {tickers[i].price[f] : i \in DOMAIN tickers} IN
    [valid |-> TRUE, min |-> [f \in Fields |-> Min(Prices(f))], max |-> [f \in Fields |-> Max(Prices(f))]]

\* set_min_max_result with the extremes of the copy
SetMinMax ==
    /\ cpc = "compute"
    /\ EnoughTickers
    /\ min_max' = Extremes(ccopy)
    /\ cresult' = min_max'
    /\ flaw' = during
    /\ cflaw' = {}
    /\ basis' = cnow
    /\ cpc' = "publish"
    /\ UNCHANGED <<now, ticker_list, channel, crequest, cnow, ccopy, threshold, during>>

\* the threshold is stored, in the composite and in shared memory
Publish ==
    /\ cpc = "publish"
    /\ threshold' = cresult
    /\ Idle
    /\ UNCHANGED <<now, ticker_list, min_max, channel, during, flaw, basis>>
-----------------------------------------------------------------------------
CalculatorStep == Retry \/ Dequeue \/ GetMinMax \/ CopyTickerList \/ NotEnough \/ SetMinMax \/ Publish

Next == \/ Tick
        \/ \E delay \in 0..MaxDelay, price \in Quotes : ProcessTicker(delay, price)
        \/ CalculatorStep

Spec == Init /\ [][Next]_vars
-----------------------------------------------------------------------------
(* Properties *)

Ticker == [time : Nat, price : Quotes]
MinMax == [valid : BOOLEAN, min : [Fields -> 1..Infinity], max : [Fields -> 0..Infinity]]

\* Types of the window, the extremes and the calculator's copies; valid extremes are
\* those of at least one ticker.
TypeOK ==
    /\ now \in Nat
    /\ ticker_list \in Seq(Ticker)
    /\ min_max \in MinMax
    /\ min_max.valid => \A f \in Fields : min_max.min[f] <= min_max.max[f]
    /\ channel \in Seq(Ticker)
    /\ cpc \in {"wait", "get", "copy", "compute", "publish"}
    /\ crequest \in Seq(Ticker)
    /\ cnow \in Nat
    /\ cresult \in MinMax
    /\ DOMAIN ccopy \subseteq 1..MaxTickers /\ ccopy \in [DOMAIN ccopy -> Ticker]
    /\ threshold \in MinMax
    /\ during \subseteq {"push", "pop"} /\ flaw \subseteq {"push", "pop"} /\ cflaw \subseteq {"push", "pop"}
    /\ basis \in Nat

Covers(m, price) == \A f \in Fields : m.min[f] <= price[f] /\ price[f] <= m.max[f]

\* The cached extremes are prices of the window: unless feeds dropped tickers between the
\* calculator's copy and its store, each valid extreme is the price of some ticker that
\* is still in ticker_list, however feeds and calculator interleave afterwards.
ExtremesAttained ==
    min_max.valid /\ "pop" \notin flaw =>
        \A f \in Fields : /\ \E i \in DOMAIN ticker_list : ticker_list[i].price[f] = min_max.min[f]
                          /\ \E i \in DOMAIN ticker_list : ticker_list[i].price[f] = min_max.max[f]

\* No price is missing from them: unless feeds appended between copy and store, every
\* ticker of the window the calculation was about lies within the valid extremes.
FreshCovered ==
    min_max.valid /\ flaw = {} =>
        \A i \in DOMAIN ticker_list :
            ticker_list[i].time + Interval > basis => Covers(min_max, ticker_list[i].price)

\* A ticker reaches the threshold its request makes: what is published for a request
\* covers the price that caused it, whether the extremes were cached or recomputed, if
\* the ticker has not left the interval and the cache was not stored in a race.
RequestReflected ==
    [][cpc = "publish" /\ cpc' = "wait" /\ cflaw = {} /\ crequest[1].time + Interval > now
        => Covers(threshold', crequest[1].price)]_vars
=============================================================================
