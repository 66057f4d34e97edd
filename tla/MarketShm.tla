------------------------------ MODULE MarketShm ------------------------------
(***************************************************************************)
(* The market data of one base asset in shared memory                      *)
(* (shm/ticker_shm.cpp, shm/threshold_shm.cpp): a ticker cell per side and *)
(* three threshold cells.  Feed threads of the receiver                    *)
(* (receiver/ticker_subscribe.cpp) write the tickers, its calculators      *)
(* (receiver/ticker_calculate.cpp) the thresholds; the strategy thread of  *)
(* the actuary (actuary/strategy_processor.cpp) polls the cells and        *)
(* evaluates what it read when a trigger ticker has changed.  Both         *)
(* processes may be killed, inside a cell's lock too.  A main receiver     *)
(* that is started again deletes and recreates the segments while the      *)
(* strategy stays attached to the old ones; a secondary one, which has the *)
(* cells of other assets, finds them as they were.  The cells below are    *)
(* those the actuary is attached to.                                       *)
(*                                                                         *)
(* A ticker is its number in the exchange's stream: its update id.  A      *)
(* cell's bid_price and bid_size are the field bid, the number of the      *)
(* ticker they were copied from, 0 before the first; ask likewise.         *)
(***************************************************************************)
EXTENDS Naturals, Sequences, FiniteSetsExt, SequencesExt

CONSTANTS Feeds,             \* feed threads of the receiver
          Sources,           \* values of config.use_ticker_source to look at
          ThresholdCells,    \* early_run and the two betas, in the order the strategy reads them
          Triggers,          \* sides whose enable_.._ticker_trigger is set
          Books,             \* per side, the parts of the order book its tickers carry
          TickerValidity,    \* benchmark_ and follower_ticker_validity_millis
          ThresholdValidity, \* threshold_validity_millis
          MaxPublished,      \* bound: updates of a threshold cell, complete or cut off by a kill
          MaxTime,           \* bound: the clock stops here
          MaxRestart         \* bound: restarts of either process; after them nobody is killed

Sides      == {"benchmark", "follower"}
Thresholds == Range(ThresholdCells)
Cells      == Sides \cup Thresholds

ASSUME MarketShmAssumption ==
    /\ Sources \subseteq {"normal", "zmq", "udp"}
    /\ ThresholdCells \in Seq({"early_run", "benchmark_beta", "follower_beta"}) \ {<< >>}
    /\ Triggers \subseteq Sides
    /\ Books \in [Sides -> Seq({{"bid", "ask"}, {"bid"}, {"ask"}})]
    /\ TickerValidity \in Nat
    /\ ThresholdValidity \in Nat
    /\ MaxPublished \in Nat
    /\ MaxTime \in Nat \ {0}
    /\ MaxRestart \in Nat

VARIABLES
    now,
    source,         \* config.use_ticker_source
    stream,         \* event times of the tickers the exchange has published, per side
    attached,       \* the receiver writes to the segments the actuary is attached to
    bid, ask,       \* the cells of those segments
    update_id,
    update_time,    \* also time_mills of a threshold cell
    version_number,
    lock,
    killed,         \* history: which process, if any, was killed inside a cell's lock
    feed,           \* what a feed thread has in hand
    got,            \* history: the newest ticker this receiver was given or found, per side
    pc,             \* the strategy thread: the cell it copies next
    started,        \* its now
    copy,           \* the instances the reader functions returned in this iteration
    version,        \* its benchmark_ticker_version .. follower_beta_version
    evaluated,      \* history: the tickers of the last evaluation
    restarts        \* how often the actuary or a secondary receiver was started again

tickerVars   == <<bid, ask, update_id>>
cellVars     == <<tickerVars, update_time, version_number, lock, killed>>
receiverVars == <<attached, feed, got>>
strategyVars == <<pc, started, copy, version, evaluated, restarts>>
vars == <<now, source, stream, cellVars, receiverVars, strategyVars>>

Idle == [stage |-> "idle", side |-> "benchmark", id |-> 0]
ZeroCopy == [c \in Cells |-> [bid |-> 0, ask |-> 0, time |-> 0, version |-> 0]]
NothingEvaluated == [s \in Sides |-> [bid |-> 0, ask |-> 0]]

\* ticker_shm_writer_init: no ticker in either cell
NoTicker == [s \in Sides |-> 0]

\* ticker_shm_, early_run_shm_ and beta_shm_writer_init: time, version and lock of the cells
Cleared == [c \in Cells |-> 0]

NobodyKilled == [c \in Cells |-> "none"]

Init ==
    /\ now = 1
    /\ source \in Sources
    /\ stream = [s \in Sides |-> << >>]
    /\ attached = TRUE
    /\ bid = NoTicker
    /\ ask = NoTicker
    /\ update_id = NoTicker
    /\ update_time = Cleared
    /\ version_number = Cleared
    /\ lock = Cleared
    /\ killed = NobodyKilled
    /\ feed = [f \in Feeds |-> Idle]
    /\ got = [s \in Sides |-> 0]
    /\ pc = "loop"
    /\ started = 0
    /\ copy = ZeroCopy
    /\ version = [c \in Cells |-> 0]
    /\ evaluated = NothingEvaluated
    /\ restarts = 0

Tick == /\ now < MaxTime
        /\ now' = now + 1
        /\ UNCHANGED <<source, stream, cellVars, receiverVars, strategyVars>>

\* The exchange's best prices change.  Update ids grow, event times do not decrease.
Publish(s) ==
    /\ Len(stream[s]) < Len(Books[s])
    /\ stream' = [stream EXCEPT ![s] = Append(@, now)]
    /\ UNCHANGED <<now, source, cellVars, receiverVars, strategyVars>>
-----------------------------------------------------------------------------
(* The receiver's feed threads *)

\* mutant: a ticker must be newer in both respects
NewerInBoth(s, k) == /\ source = "normal" \/ update_id[s] < k
                     /\ update_time[s] < stream[s][k]

\* the update id process_.._ticker stores with a ticker
UpdateId(k) == IF source = "normal" THEN 0 ELSE k

\* hist_update_id < update_id || hist_update_time < update_time
IsNewer(s, k) == \/ update_id[s] < UpdateId(k)
                 \/ update_time[s] < stream[s][k]

\* nobody is busy with the side
NoFeedAt(s) == \A f \in Feeds : feed[f] # Idle => feed[f].side # s

\* a feed thread has ticker k in hand; ticker_shm_writer_update compares without the lock
Got(f, s, k) ==
    /\ attached
    /\ feed[f] = Idle
    /\ got' = [got EXCEPT ![s] = Max({@, k})]
    /\ IF IsNewer(s, k)
       THEN feed' = [feed EXCEPT ![f] = [stage |-> "spin", side |-> s, id |-> k]]
       ELSE UNCHANGED feed
    /\ UNCHANGED <<now, source, stream, cellVars, attached, strategyVars>>

\* A side has one connection to the exchange and one thread that takes its messages, in
\* order; what is sent while the connection is down is missing.
ReceiveNormal(f) ==
    /\ source = "normal"
    /\ \E s \in Sides : \E k \in (got[s] + 1)..Len(stream[s]) :
          /\ NoFeedAt(s)
          /\ Got(f, s, k)

\* A datagram says whose ticker changed; the ticker is in the slot written last.
UdpTickers(s) == {k \in DOMAIN stream[s] : k = Len(stream[s])}

\* Any publisher may send any ticker, late or once more.
ZmqTickers(s) == DOMAIN stream[s]

\* There is a thread per publisher, and each may be given tickers of both sides.
ReceiveBest(f) ==
    /\ source \in {"zmq", "udp"}
    /\ \E s \in Sides : \E k \in IF source = "udp" THEN UdpTickers(s) ELSE ZmqTickers(s) :
          Got(f, s, k)

\* mutant: the exchange of the spin lock does not look at the old value
Unguarded(c) == TRUE

\* common_acquire_lock succeeds
IsFree(c) == lock[c] = 0

\* mutant: the comparison is not repeated under the lock
NoRecheck(s, k) == TRUE

\* the second comparison, under the lock
IsStillNewer(s, k) == IsNewer(s, k)

\* common_acquire_lock, the second comparison and the bid side
FeedEnter(f) ==
    LET s == feed[f].side
        k == feed[f].id
    IN  /\ feed[f].stage = "spin"
        /\ IsFree(s)
        /\ IsStillNewer(s, k)
        /\ lock' = [lock EXCEPT ![s] = 1]
        /\ bid' = IF "bid" \in Books[s][k] THEN [bid EXCEPT ![s] = k] ELSE bid
        /\ feed' = [feed EXCEPT ![f] = [stage |-> "write", side |-> s, id |-> k]]
        /\ UNCHANGED <<now, source, stream, ask, update_id, update_time, version_number, killed,
                       attached, got, strategyVars>>

\* common_acquire_lock, the second comparison fails, common_release_lock
FeedTooLate(f) ==
    /\ feed[f].stage = "spin"
    /\ IsFree(feed[f].side)
    /\ ~IsStillNewer(feed[f].side, feed[f].id)
    /\ feed' = [feed EXCEPT ![f] = Idle]
    /\ UNCHANGED <<now, source, stream, cellVars, attached, got, strategyVars>>

\* mutant: the writer keeps the lock
ReleaseForgotten(c) == UNCHANGED lock

common_release_lock(c) == lock' = [lock EXCEPT ![c] = 0]

\* the ask side, update_id, update_time, version_number, common_release_lock
FeedLeave(f) ==
    LET s == feed[f].side
        k == feed[f].id
    IN  /\ feed[f].stage = "write"
        /\ ask' = IF "ask" \in Books[s][k] THEN [ask EXCEPT ![s] = k] ELSE ask
        /\ update_id' = [update_id EXCEPT ![s] = UpdateId(k)]
        /\ update_time' = [update_time EXCEPT ![s] = stream[s][k]]
        /\ version_number' = [version_number EXCEPT ![s] = @ + 1]
        /\ common_release_lock(s)
        /\ feed' = [feed EXCEPT ![f] = Idle]
        /\ UNCHANGED <<now, source, stream, bid, killed, attached, got, strategyVars>>

\* early_run_ and beta_shm_writer_update; an older threshold is not stored
StoreThreshold(c, time_mills) ==
    /\ IsFree(c)
    /\ update_time[c] <= time_mills
    /\ update_time' = [update_time EXCEPT ![c] = time_mills]
    /\ version_number' = [version_number EXCEPT ![c] = @ + 1]

\* the bound of a cell's updates
MayPublish(c) == version_number[c] < MaxPublished

\* a calculator has a new threshold, with a time it read some time before
PublishThreshold(c) ==
    /\ attached
    /\ MayPublish(c)
    /\ \E time_mills \in 1..now : StoreThreshold(c, time_mills)
    /\ UNCHANGED <<now, source, stream, tickerVars, lock, killed, receiverVars, strategyVars>>

\* the cells feed threads are writing
BeingWritten == {feed[f].side : f \in {g \in Feeds : feed[g].stage = "write"}}

\* The receiver is killed, feed threads inside a ticker cell's lock and calculators inside
\* a threshold cell's, of which there is one for both betas.  When a main one comes back,
\* init_shm_for_main removes the segments under the keys and creates others, and nothing more
\* happens to the ones the actuary is attached to.
ReceiverCrash ==
    /\ attached
    /\ restarts < MaxRestart
    /\ attached' = FALSE
    /\ \E inside \in SUBSET {c \in Thresholds : IsFree(c) /\ MayPublish(c)} :
          /\ ~({"benchmark_beta", "follower_beta"} \subseteq inside)
          /\ lock' = [c \in Cells |-> IF c \in inside THEN 1 ELSE lock[c]]
          /\ killed' = [c \in Cells |-> IF c \in inside \cup BeingWritten THEN "receiver" ELSE killed[c]]
    /\ feed' = [f \in Feeds |-> Idle]
    /\ got' = [s \in Sides |-> 0]
    /\ UNCHANGED <<now, source, stream, tickerVars, update_time, version_number, strategyVars>>

\* the newest ticker with the cell's update id and time
Stored(s) == Max({0} \cup {k \in DOMAIN stream[s] : /\ update_id[s] = UpdateId(k)
                                                   /\ update_time[s] = stream[s][k]})

\* restarts so far, with the one a killed actuary is due
RestartsDue == IF pc = "down" THEN restarts + 1 ELSE restarts

\* A secondary receiver comes back: init_shm_for_secondary attaches to the segments that are
\* there and initialises nothing, so that tickers, versions and taken locks remain.  (If the
\* main receiver has recreated them meanwhile, this one is gone for the actuary's cells too.)
ReceiverReattach ==
    /\ ~attached
    /\ RestartsDue < MaxRestart
    /\ restarts' = restarts + 1
    /\ attached' = TRUE
    /\ got' = [s \in Sides |-> Stored(s)]
    /\ UNCHANGED <<now, source, stream, cellVars, feed, pc, started, copy, version, evaluated>>
-----------------------------------------------------------------------------
(* The strategy thread: the head of calculate_signal_make_order's loop.  It is  *)
(* inside a cell's lock for one step, after which it has copied the cell.       *)

\* the order in which the cells are copied
ReadOrder == <<"benchmark", "follower">> \o ThresholdCells

NextCell(c) == ReadOrder[1 + CHOOSE i \in DOMAIN ReadOrder : ReadOrder[i] = c]

ticker_shm_reader_get(s) ==
    [bid |-> bid[s], ask |-> ask[s], time |-> update_time[s], version |-> version_number[s]]

\* early_run_ and beta_shm_reader_get
ReadThreshold(c) == [bid |-> 0, ask |-> 0, time |-> update_time[c], version |-> version_number[c]]

Copied(c) == [copy EXCEPT ![c] = IF c \in Sides THEN ticker_shm_reader_get(c) ELSE ReadThreshold(c)]

\* continue: the instances are gone
Again(p) == /\ pc' = p
            /\ copy' = ZeroCopy
            /\ started' = 0

StartIteration ==
    /\ pc = "loop"
    /\ started' = now
    /\ pc' = "benchmark"
    /\ UNCHANGED <<now, source, stream, cellVars, receiverVars, copy, version, evaluated, restarts>>

\* a cell whose copy is not looked at until the next one is copied
CopyCell ==
    /\ pc \in Cells \ {"follower", Last(ThresholdCells)}
    /\ IsFree(pc)
    /\ copy' = Copied(pc)
    /\ pc' = NextCell(pc)
    /\ UNCHANGED <<now, source, stream, cellVars, receiverVars, started, version, evaluated, restarts>>

\* versions of the cells in C that are greater than the ones remembered
Raised(C, cp) == [c \in Cells |-> IF c \in C THEN Max({version[c], cp[c].version}) ELSE version[c]]

\* a side that may trigger has a new version
Triggered(cp) == \E s \in Triggers : cp[s].version > version[s]

\* a version number is zero or older than the one remembered
TickersUnusable(cp) == \E s \in Sides : cp[s].version = 0 \/ cp[s].version < version[s]

\* ticker_shm_reader_get of the follower and the checks of both tickers: a version is
\* remembered before anything is known of the thresholds
CopyFollower ==
    /\ pc = "follower"
    /\ IsFree(pc)
    /\ LET cp == Copied(pc) IN
          IF TickersUnusable(cp)
          THEN /\ Again("loop")
               /\ UNCHANGED version
          ELSE /\ version' = Raised(Sides, cp)
               /\ IF Triggered(cp)
                  THEN /\ copy' = cp
                       /\ pc' = Head(ThresholdCells)
                       /\ UNCHANGED started
                  ELSE Again("loop")
    /\ UNCHANGED <<now, source, stream, cellVars, receiverVars, evaluated, restarts>>

\* mutant: the last valid millisecond counts as expired
ExpiredEarly(cp) == \/ \E s \in Sides : started >= cp[s].time + TickerValidity
                    \/ \E c \in Thresholds : started >= cp[c].time + ThresholdValidity

\* now > update_time + validity, with the now of the iteration's start
Expired(cp) == \/ \E s \in Sides : started > cp[s].time + TickerValidity
               \/ \E c \in Thresholds : started > cp[c].time + ThresholdValidity

\* beta_shm_reader_get of the follower, then the checks of thresholds and times; versions
\* are remembered unless a threshold was never written
CopyLastThreshold ==
    /\ pc = Last(ThresholdCells)
    /\ IsFree(pc)
    /\ LET cp == Copied(pc) IN
          IF \E c \in Thresholds : cp[c].version = 0
          THEN /\ Again("loop")
               /\ UNCHANGED version
          ELSE /\ version' = Raised(Thresholds, cp)
               /\ IF (\E c \in Thresholds : cp[c].version < version[c]) \/ Expired(cp)
                  THEN Again("loop")
                  ELSE /\ copy' = cp
                       /\ pc' = "evaluate"
                       /\ UNCHANGED started
    /\ UNCHANGED <<now, source, stream, cellVars, receiverVars, evaluated, restarts>>

\* the rest of the iteration works on the copies: position, signal, order
Evaluate ==
    /\ pc = "evaluate"
    /\ evaluated' = [s \in Sides |-> [bid |-> copy[s].bid, ask |-> copy[s].ask]]
    /\ Again("loop")
    /\ UNCHANGED <<now, source, stream, cellVars, receiverVars, version, restarts>>

\* the actuary is killed, between two cells or inside the lock of one
ActuaryCrash ==
    /\ pc # "down"
    /\ restarts < MaxRestart
    /\ Again("down")
    /\ \/ UNCHANGED <<lock, killed>>
       \/ /\ pc \in Cells
          /\ IsFree(pc)
          /\ lock' = [lock EXCEPT ![pc] = 1]
          /\ killed' = [killed EXCEPT ![pc] = "actuary"]
    /\ UNCHANGED <<now, source, stream, tickerVars, update_time, version_number, receiverVars,
                   version, evaluated, restarts>>

\* Back to the segments the keys name, with a new strategy thread.
Restarted == /\ pc = "down"
             /\ restarts < MaxRestart
             /\ restarts' = restarts + 1
             /\ version' = [c \in Cells |-> 0]
             /\ evaluated' = NothingEvaluated
             /\ Again("loop")

\* GlobalContext::init_shm finds the same segments: the receiver runs, or was not started again
ActuaryRestart ==
    /\ Restarted
    /\ UNCHANGED <<now, source, stream, cellVars, receiverVars>>

\* It finds those of a receiver that was started again and has cleared them.  What that
\* receiver wrote before is written after.
ActuaryRestartAnew ==
    /\ Restarted
    /\ ~attached
    /\ attached' = TRUE
    /\ bid' = NoTicker
    /\ ask' = NoTicker
    /\ update_id' = NoTicker
    /\ update_time' = Cleared
    /\ version_number' = Cleared
    /\ lock' = Cleared
    /\ killed' = NobodyKilled
    /\ UNCHANGED <<now, source, stream, feed, got>>
-----------------------------------------------------------------------------
FeedStep(f) == FeedEnter(f) \/ FeedTooLate(f) \/ FeedLeave(f)

StrategyStep == StartIteration \/ CopyCell \/ CopyFollower \/ CopyLastThreshold \/ Evaluate

Next == \/ Tick
        \/ \E s \in Sides : Publish(s)
        \/ \E f \in Feeds : ReceiveNormal(f) \/ ReceiveBest(f) \/ FeedStep(f)
        \/ \E c \in Thresholds : PublishThreshold(c)
        \/ ReceiverCrash
        \/ ReceiverReattach
        \/ StrategyStep
        \/ ActuaryCrash
        \/ ActuaryRestart
        \/ ActuaryRestartAnew

Spec == Init /\ [][Next]_vars

\* Running threads get on: of the feed threads that can finish an update they began some one
\* does, the strategy keeps polling.  Nothing obliges the exchange, the calculators or the
\* processes to act.
FairSpec == /\ Spec
            /\ WF_vars(\E f \in Feeds : FeedStep(f))
            /\ WF_vars(StrategyStep)
-----------------------------------------------------------------------------
(* Properties *)

\* Types of the cells, of what the threads hold and of the strategy's copies.
TypeOK ==
    /\ now \in 1..MaxTime
    /\ source \in Sources
    /\ stream \in [Sides -> Seq(1..MaxTime)]
    /\ attached \in BOOLEAN
    /\ bid \in [Sides -> Nat]
    /\ ask \in [Sides -> Nat]
    /\ update_id \in [Sides -> Nat]
    /\ update_time \in [Cells -> Nat]
    /\ version_number \in [Cells -> Nat]
    /\ lock \in [Cells -> {0, 1}]
    /\ killed \in [Cells -> {"none", "receiver", "actuary"}]
    /\ feed \in [Feeds -> [stage : {"idle", "spin", "write"}, side : Sides, id : Nat]]
    /\ got \in [Sides -> Nat]
    /\ pc \in Cells \cup {"loop", "evaluate", "down"}
    /\ started \in 0..MaxTime
    /\ copy \in [Cells -> [bid : Nat, ask : Nat, time : Nat, version : Nat]]
    /\ version \in [Cells -> Nat]
    /\ evaluated \in [Sides -> [bid : Nat, ask : Nat]]
    /\ restarts \in 0..MaxRestart

\* The number of the newest ticker in a cell or a copy.
Newest(r) == Max({r.bid, r.ask})

\* The strategy never works with a mixture of two tickers: what ticker_shm_reader_get
\* returned has the time of its newest ticker, and both its sides unless that ticker came
\* without one.  A feed thread killed between the sides leaves the lock to prevent it.
CopyIntact ==
    \A s \in Sides :
        LET k == Newest(copy[s]) IN
        k > 0 => /\ copy[s].time = stream[s][k]
                 /\ "bid" \in Books[s][k] => copy[s].bid = k
                 /\ "ask" \in Books[s][k] => copy[s].ask = k

\* Out of order, duplicated or concurrent deliveries leave the newest ticker in the cell:
\* when no feed thread is busy with a side, its cell has the newest ticker this receiver
\* was given, or found there when it attached to existing segments; without update ids, a
\* ticker of the newest time.
NewestWins ==
    \A s \in Sides :
        /\ got[s] > 0
        /\ NoFeedAt(s)
        => /\ update_id[s] = UpdateId(got[s])
           /\ update_time[s] = stream[s][got[s]]

\* Between two restarts of the actuary an evaluation never sees an older ticker than the one
\* before, and always a newer one of a side that triggers.
EvaluatedForward ==
    [][Evaluate => /\ \A s \in Sides : /\ evaluated[s].bid <= evaluated'[s].bid
                                       /\ evaluated[s].ask <= evaluated'[s].ask
                   /\ \E s \in Triggers : Newest(evaluated[s]) < Newest(evaluated'[s])]_vars

\* a process was killed inside the lock: nobody is left who will release it
Abandoned(c) == killed[c] # "none"

\* a feed thread has a ticker in hand, and nobody was killed inside the lock it needs
AtWork(f) == feed[f] # Idle /\ ~Abandoned(feed[f].side)

\* A burst of tickers is worked off: feed threads that have tickers in hand are all done with
\* them some time, whatever they do to each other, the strategy and the spin lock, but for
\* those of a cell inside whose lock a process was killed.
FeedGetsOn == (\E f \in Feeds : AtWork(f)) ~> (\A f \in Feeds : ~AtWork(f))

\* the thresholds the strategy would read are there and valid, and so are the tickers
Ready == /\ pc # "down"
         /\ \A c \in Thresholds : /\ version_number[c] > 0
                                  /\ now <= update_time[c] + ThresholdValidity
         /\ \A s \in Sides : /\ version_number[s] > 0
                             /\ now <= update_time[s] + TickerValidity
         /\ \A c \in Cells : ~Abandoned(c)

\* The newest ticker of each side that triggers was evaluated.
CaughtUp == \A s \in Triggers : Newest(evaluated[s]) = Max({bid[s], ask[s]})

\* When a ticker that triggers changes while everything is there and valid, the strategy
\* catches up with its cell, as long as everything stays so and nobody is killed.
ReadyIsEvaluated ==
    (Ready /\ \E s \in Triggers : version[s] < version_number[s]) ~> (CaughtUp \/ ~Ready)
=============================================================================
