# A TLA+ model of cpp-bn-umtaker

cpp-bn-umtaker is a taker bot for Binance futures. It compares a *benchmark* and a
*follower* instrument, and takes the follower when the benchmark's price has run ahead.
This directory holds TLA+ modules translated from `src/src/`, the TLC configurations that
check them on small instances, and theorems with proofs that TLAPS checks.
`PROJECT.json` names the lines each definition stands for.

## 1. The system

Four processes. They share SysV shared memory segments, zmq sockets and two MySQL tables.

```
 feeds --> receiver --tickers, thresholds (shm)--> actuary --orders (shm)--> trader --> exchange
                                                     |  ^                                   |
                                                     |  +---- account REST, user stream ----+
                                                     +--orders (zmq, MySQL)--> evaluator
```

| component | state | operations | hard about it | correct when |
|---|---|---|---|---|
| order shared memory (`shm/order_shm`, `shm/share_memory_mng`) | one cell per instrument: order, time, version, spin lock | write if newer, read, create, attach | several strategy processes write, the trader reads, any of them is killed inside the lock, the main node recreates the segment | an order is taken whole, once, in order; the newest one is taken |
| trader, scan loop and normal limiter (`trader/trade_processor`, `common/auto_reset_counter`) | counters per minute, per ten seconds, per symbol; answers under way | draw, refill, burn on a fill | scan threads only peek at the counter the message thread burns; refills come from a thread of their own | the account's budgets hold; a filled symbol pauses |
| trader, best-path limiter (`trader/order_limiter`) | a limiter for the account, one per local IP | draw, give back, refill, create | draw and return in two locks, creation checked and done in two locks | budgets per period hold, a returned semaphore is not lost |
| trader, best paths (`trader/service_container`, `trader/service_manager`) | best pair per symbol, service per pair | update, find, expire, clear | lookup holds the lock twice, the clearing thread works on a snapshot | each mapped pair has exactly one live connection; a removed one is not used |
| actuary, risk control (`actuary/risk_control`, `actuary/dynamic_config`) | stop flag, reasons | stop, resume, look | two watchdogs, an unlocked peek, reasons and flag changed one after the other | no order passes a standing stop; nothing stays stopped without reason |
| actuary, positions (`actuary/account_*`, `actuary/strategy_processor`) | known position and threshold per symbol | REST poll, stream event, order decision | the older of two sources may be stored last; events get lost | knowledge converges to the exchange's; closing does not change sides |
| receiver, ticker window (`receiver/ticker_container`, `ticker_calculate`) | list of tickers, cached extremes | append and drop, recompute, publish | the calculator computes on a copy while feeds go on | the published extremes are those of the window |
| evaluator (`evaluator/*`) and statistics dispatch (`actuary/stat_dispatch`) | entry per order, its row in MySQL | update, reload, poll, save, remove | copy, write-back, save and removal are separate; updates, replay and reload race; restarts | each checkpoint's price is noted once, in time and eventually |
| market shared memory (`shm/ticker_shm`, `shm/threshold_shm`), its writers (`receiver/ticker_subscribe`, `ticker_calculate`) and its reader (`actuary/strategy_processor`) | ticker and threshold cells; the versions the strategy has seen | write if newer, poll, check, evaluate | several feeds deliver late and doubled, a ticker is accepted by id *or* by time; five cells are copied one after the other; kills inside the lock | the newest ticker stays; the strategy works on whole tickers, never older ones, and misses no valid change |
| price offsets, early-run threshold, account settings, MySQL pool | | | | not modelled, see section 5 |

The exchange's client library is a git submodule whose content is not in the repository.
Where its answers matter they are external definitions (`Fill`, `Fillable`, `Answer`).

## 2. The modules

**OrderMailbox / OrderShm.** `OrderMailbox` says what a cell is for: a mailbox in which the
newest order wins and a reader takes what is newer than what it took last. `OrderShm` is the
code: one cell, any number of writers, one trader. The steps of a write are the unlocked
comparison (`WriterCheck`), the lock (`WriterAcquire`), the second comparison with the copy
of the strings (`WriterCopyText`, or `WriterTooLate`), the numbers (`WriterCopyNums`), the
version (`WriterBump`) and the release; those of the trader are its mirror image, then
`TraderSkipOld`, `TraderSkipExpired` or `TraderPlace`. `text` and `nums` of a cell are the
two halves of an order, so a mixture is visible. Any process may be killed at any step, with
the lock held. `Gens` are the successive segments: the main node creates a new one, others
stay attached to the old one until restarted. `published` and `placed` are history.

**OrderLimiter.** `AutoResetOrderLimiterBoss`. `AccountDraw`, `IpDraw`/`IpRefuse` and
`AccountReturn` are the three critical sections of `get_order_semaphore`; the scan thread
holds `rw_lock` shared throughout (`Inside`), so `RefreshApply` and `CreateInsert`, which take
it unique, wait (`UniqueLock`). `RefreshRead` and `CreateLook`/`CreateInit` are what happens
before that lock. A limiter is created with one reading of the clock for both of its budgets
(the code reads it twice in a row). `MCOrderLimiter` adds the symmetry of threads and IPs for TLC.

**TradeProcessor.** The scan threads of all symbols without best paths, the two account
counters, the per-symbol interval counter, their two refresh threads, the exchange's answers
and `process_order_message`, which burns the interval semaphore of a filled symbol.
`open_place_order` is taken to be on. `refreshing` says which refresh threads run: the interval
thread is free, since the flag that `start()` looks at is never initialised.

**BestPath.** `OrderServiceManager` with the threads that use it: updaters (polling and zmq),
scan threads, the zookeeper thread. A wrapper is a number; `is_stopped` the stopped ones.
`FindKey` and `FindService` are the two locks of `find_best_service`. `CheckStopped` and
`Connect` are the thread inside a wrapper that restarts its websocket client; `late` counts
the connects of a wrapper that was stopped before. What `stop` does to a client that is just
connecting is in the missing submodule: the model only says when `startOrderService` is called.

**RiskControl.** Both watchdogs and `DynamicConfig`. A call is `Call`, then `Peek` (the
unlocked read), `Look` (under the lock), `ChangeReasons` and `ChangeFlag` (under the lock,
the flag last). `static` is what the configuration forbids from the start. The names of this
specification (`RiskSpec`) and of the next one (`PositionSpec`) carry the component's name,
since one proof module has both.

**Position.** One symbol: the exchange's position, the orders under way, the events of the
user stream, the two threads that store position and threshold, the strategy's decision.
Partial fills, lost events (`reported`), REST answers older than an event. `WakeUp` is the
head of the strategy loop with its five second pause in close-only mode; it assumes that five
seconds suffice for the order of the last turn to be executed and for its event and a pending
request to be applied. A failing REST call changes nothing and is no step. `stop_buy`, read
uninitialised in the code, is a free choice in `NoOrder`.

**TickerWindow.** One instrument's `TickerWrapper`, the feed threads' `ProcessTicker` and
`process_beta_threshold_calculate`. Prices are positive; bid, ask and the doubled average are
kept, so that the three extremes are independent. Tickers arrive up to `MaxDelay` late, hence
out of order; a ticker and the request it makes are one step, and the calculator may take the
request at any later moment. A full request queue gives up. What the calculator keeps of the list is said by
positions (`FirstKept`), its extremes as the least and the greatest of a set of prices
(`Extremes`): what the loops of the code arrive at, without their running variables.

**OrderStat.** One order from the actuary's account thread to the evaluator's row: saving,
queueing (a FIFO per producer, given up when full), the replay of the last hour, delivery,
reload, polling (`PollCopy`, `PollCalculate`, `PollSave`, `PollCollect`, `PollErase`), kills of
both processes, failing statements. Publisher and subscriber are one step (`Deliver`); what is
sent while the evaluator is down is lost. `filled` and `average` carry the number of the
update they belong to, `price[c]` the moment whose price was noted.

**MarketShm.** The ticker cells of one asset's two instruments and its threshold cells. Feed
threads get a ticker from one of three sources: the exchange's stream in order and with update
id 0 (`ReceiveNormal`), zmq publishers in any order, or the newest slot of a udp publisher
(`ReceiveBest`); then `FeedEnter` or `FeedTooLate` and `FeedLeave` are
`ticker_shm_writer_update`, with the bid written before and the ask after the point where a
kill may come. A ticker is its number in the stream, so `bid` and `ask` tell a mixture. Update
ids grow and event times do not decrease with that number. The strategy copies cell after cell
(`CopyCell`, `CopyFollower`, `CopyLastThreshold`), each under the cell's lock in one step: the
steps of a reader inside the lock are in OrderShm, whose lock is the same. `ActuaryCrash` may
leave the lock taken, `ReceiverCrash` leaves it taken by any feed thread that was inside and by
a calculator that may have been; `killed` is history and names the process. The cells are those
of the segments the actuary is attached to. A main receiver that is started again creates other
segments, and these stay as they were until the actuary is restarted too (`ActuaryRestartAnew`).
A secondary receiver attaches to what is there, half a ticker and taken locks included, and goes
on from it (`ReceiverReattach`); `got`, the newest ticker a receiver was given, then starts from
the one it finds in the cell. The unlocked comparison reads id and time at once; a mixed pair would
be the newer id with an older time, and the comparison under the lock decides. The udp slot
(one of 32 per instrument) is taken to stand still while it is copied.

## 3. The runs

| run | bounds | shows |
|---|---|---|
| OrderShm | 2 writers (one main), 2 segments, 1 trader restart, 2 instants, fair | `MutualExclusion`, `PlacedIntact`, `PlacedOnceInOrder`, `CellNeverGoesBack`, that the cell implements `OrderMailbox`, and that every version is taken or overtaken unless the trader is down or the lock was abandoned by a killed process (`NewestIsTaken`). Deadlock is not checked: a process killed inside the lock does block the others, as in the code |
| MarketShm | 2 feed threads, the sources normal and zmq, 2 benchmark tickers (the first without a bid) and 1 follower ticker, 1 threshold cell, 2 instants, 1 restart of either process, fair | `CopyIntact`, `NewestWins`, `EvaluatedForward`, `FeedGetsOn`, `ReadyIsEvaluated`. Deadlock is not checked for the same reason |
| OrderLimiter | 2 scan threads, 2 creators, 3 IPs, capacity 1, 3 instants | `ReturnFits`, `AccountRate`, `IpRate`, `CapacityOvershoot` |
| OrderLimiterIp | 2 IPs | **violation** of `IpLimitKept`, see below |
| RiskControl | two watchdogs, all values of meta and BNB | `StopStands`, `ResumeComplete`, `ResumesWhenHealthy`, `StopsWhenStale` |
| BestPath | 1 symbol, 2 updaters, 2 pairs, 3 connections | `StoppedConnectsOnce`, `LiveIsMapped`, `ServiceHasLimiter`, `RemovedNeverFound` |
| BestPathUnused | 2 symbols | **violation** of `ClearsOnlyUnused` |
| Position | position 3, orders of 2, 3 orders, one of them from before the start | `Converges`, `CrossesOnlyMisled` |
| PositionCloseOnly | 2 orders, no lost events | **violation** of `CloseOnlyNeverCrosses` |
| TradeProcessor | 2 symbols, a budget of 2 in three instants and one of 1 in one, 4 instants | `OneStraggler`, `PlacedRate`. Either budget binds: at the first instant only the short one forbids a second order, at the third only the long one a third; both are refilled |
| TickerWindow | 3 tickers, 3 prices, delay 1, 4 instants | `ExtremesAttained`, `FreshCovered`, `RequestReflected` |
| OrderStat | 2 updates, checkpoints 1 and 2, grace 1, 5 instants, 1 kill | `NotTooEarly`, `CheckpointsInOrder`, `LostOnlyInRace`, `PriceKept`, `EvaluatedInTheEnd` |

The bounds are chosen so that each race fits: two threads of a kind, instants enough for
every budget to be refilled and for an entry to be removed, one more IP than the
capacity, one kill. Positions of 3 with orders of 2 need one full and one cut order to be
closed. Two benchmark tickers with different sides in two instants are the least that can be
delivered in the wrong order, be torn and be of the same millisecond; one threshold cell is
enough for every outcome of the checks, which treat the three cells alike, and the udp source
brings a subset of what the zmq source may bring. Once `MaxRestart` restarts are used up nobody
is killed any more; until then both processes may be, one after the other too, so that a kill of
each, the recreation and a return to the old cells fit. Streams end here, so that `FeedGetsOn` and
`ReadyIsEvaluated` can name the moment when feed threads and strategy have caught up with a
burst; that each ticker in hand and each change is dealt with follows. `TypeOK` of BestPath,
TickerWindow and MarketShm and `PositionTypeOK` state the types the definitions are written for;
the runs spend their time on the other properties. Each property has a mutant, a plausible slip in one definition, that breaks it
(`PROJECT.json`, "mutants").

The clock stops at `MaxTime`; all loops of the code go on then, so that deadlock is checked
in every run but OrderShm and MarketShm.

### Violations

* **IpLimitKept** (`order_limiter.cpp:139`): `create_ip_limiter` looks under one lock and
  inserts under another. Two threads that learn of the same local IP at once both insert, and
  the second replaces a limiter already drawn from: the IP sends two budgets. `IpRate` is
  what does hold: one budget per period and per limiter created. With a single creating thread,
  that is without `best_path_zmq_ipcs`, the limit holds (theorem `OrderLimiterSoleCreator`).
* **ClearsOnlyUnused** (`service_manager.cpp:55`): the zookeeper thread stops pairs it found
  unused in a snapshot; one that has become a best path since is stopped as well.
* **CloseOnlyNeverCrosses** (`account_container.cpp:121`): a REST answer fetched before a fill
  overwrites the event of that fill. The next close-only order is not larger than the stale
  amount, hence not reduce-only, and crosses zero. `CrossesOnlyMisled` is what does hold.

Two more weaknesses are steps of the models, without a property that catches them.
`AutoResetOrderIntervalBoss::is_started` (`order_limiter.h:84`) has no initial value: when it is
read as true, `start()` starts no refresh thread (`refreshing` leaves it out), and a symbol that
was filled is not paused "for a while" (`trade_processor.cpp:185`) but for ever. The end of the
pause is liveness, for which TradeProcessor's three million states are too many; the safety
properties hold with and without that thread. And the calculator stores the extremes of its copy as valid although feeds have gone on since
(`ticker_calculate.cpp:217`); `ExtremesAttained` and `FreshCovered` hold wherever no feed ran
between copy and store, which `flaw` records.

### Fairness

* OrderShm: weak fairness of the trader's scan loop and of a writer that is inside a
  write. Nobody has to start writing, and kills are free. The spin lock gives no fairness;
  none is needed, since a write only takes the lock for an order newer than the cell's, of
  which there are finitely many.
* MarketShm: weak fairness of the feed threads that have a ticker in hand, together (some one of
  them gets on, not each), and of the strategy's loop. Exchange, calculators and kills are free.
  Again the lock needs no fairness, as only newer tickers ask for it and the strategy is inside
  for one step.
* RiskControl: weak fairness of each watchdog's loop, strong fairness of the two steps that
  wait for the lock. The lock is held for an instant and its holder then sleeps five minutes.
  The exchange is not obliged to do anything.
* Position: weak fairness of both account threads. REST calls are retried for ever, and one
  of them is taken to succeed in the end.
* OrderStat: weak fairness of the clock, of the evaluator's start and of its polling loop.
  The loop polls five times a second; a round that lasts longer than the grace of ten seconds
  is recorded in `failed`, and the properties that depend on it say so.

## 4. What is proved

Every safety property that a run expects to hold is also a theorem: 22 invariants, 5 types,
5 action properties and the refinement of `OrderMailbox`.
The theorems are about `Spec` (`RiskSpec`, `PositionSpec`), without fairness, and hold for every value of the constants
under the named ASSUMEs of the modules, which TLC evaluates in each run. The assumptions say
that numbers are numbers, that periods and sizes are not zero, that symbols, threads and IPs
are finitely many and at least one thread creates limiters, that checkpoints lie within the
hour, and that model values are distinct from what they stand beside.

Each module has one inductive invariant `IInv`, the conjunction of named parts, a lemma for
`Init`, one for `Next` with a step per action, and the theorems drawn from it. `IInv` was
checked by TLC on the run's instance before it was proved.

**OrderShmProofs**, for any number of writers, segments, restarts and instants.

* `OrderShmTypeOK`, `OrderShmMutualExclusion`, `OrderShmPlacedIntact`, `OrderShmPlacedOnce`, and
  the action property `OrderShmCellNeverGoesBack`. None of them is inductive alone. `IInv`
  adds: a free lock has nobody behind it (`LockInv`); a version is the number of publications
  (`VersionInv`); segments not yet created are untouched and nobody is attached to them
  (`FreshInv`); a cell that somebody can look at holds the order published last, whole
  (`CellInv`), also after a writer was killed half-way, because its lock then stays taken; a
  writer in the middle of its copy is newer than what the cell held (`CopyInv`); what the
  trader has copied belongs to one order (`TraderCopyInv`); publications are ordered by time
  (`PublishedInv`); and placements are publications, ordered by version within a run of the
  trader (`PlacedInv`, `PlacedOrderInv`).
* Each conjunct has a lemma `Step...` with one step per action; `WriterFrame`, `CellFrame`,
  `PlacedFrame` and `EpochFrame` say which actions leave what alone.
* `OrderShmRefinesMailbox`: under the mapping of `OrderShm` (the segment the trader is attached
  to, its publications, the version it took last) the initial states are the mailbox's, the
  writer's `WriterBump` is `Publish` (`MailboxPublish`), the trader's copy of a new version
  (`TraderCopyNums`) is `Take`, its start and end are `Reattach`, and all else is a stutter (`MailboxStep`).

**OrderLimiterProofs**, for any finite sets of threads and IPs, any budgets and periods.

* `OrderLimiterTypeOK`, `OrderLimiterReturnFits`, `OrderLimiterAccountRate`. `IInv` adds to types
  and `ReturnFits` the account of grants, `BudgetInv`: grants, threads inside and semaphores left
  make up at most one budget for each period that had started at the last reset, and no reset is
  stamped later than the clock. The arithmetic of `\div` is in `DivMono`, `DivStep`,
  `BudgetMono`; the cardinality of `Inside` in `InsideEnter`, `InsideLeave`, `InsideStay`.
* `OrderLimiterIpRate` rests on `IpInv`, an account per IP: the limiters before the last may have
  spent every period up to now, the last one those up to its reset (`Accounted` and its lemmas).
* `OrderLimiterCapacityOvershoot` rests on `CapacityInv`: the IPs in the map and the creating
  threads that have looked and not yet inserted are together fewer than the capacity and the
  creating threads.
* `OrderLimiterSoleCreator`: if there is one creating thread, `IpLimitKept` and the capacity hold.
  `SoleInv` says that each IP in the map had one limiter created, the others none, and that what
  the creating thread has found missing still is. So the second creator is the whole cause of the violation above.

**TradeProcessorProofs**, for any finite set of symbols, any limits and periods.

* `TradeProcessorTypeOK`, `TradeProcessorPlacedRate`, `TradeProcessorOneStraggler`. `ClockInv`: no
  noted time is in the future. `BudgetInv`: orders placed, semaphores drawn for orders not placed
  yet and those left fit the periods started at the counter's last reset. `StragglerInv`: once the
  one order under way was placed, the thread of a burnt symbol is back at its scan, where it
  peeks at the counter.

**ActuaryProofs**, first part: RiskControl, both watchdogs in every interleaving (`RiskIInv`).

* `RiskControlTypeOK`, `RiskControlStopStands`, `RiskControlResumeComplete`. The unlocked peek is
  harmless because no two watchdogs share a reason (`OwnInv`) and the lock is held between reasons
  and flag (`LockInv`): a watchdog that waits for the lock or holds it still has the change to make
  for which it asked (`PendingInv`), and all other reasons are the standing judgements
  (`ReasonsInv`).

**BestPathProofs**, for any symbols, updaters, IPs, capacity and number of connections.

* `BestPathLiveIsMapped`, `BestPathServiceHasLimiter`, `BestPathRemovedNeverFound`,
  `BestPathStoppedConnectsOnce`. `IInv` adds the threads' locals (`LocalsInv`), that a mapped wrapper
  was made for its pair (`OwnPairInv`), that what a lookup must not find stays stopped (`GoneInv`),
  and that a client thread which connected too late stands before the check that ends it
  (`LateInv`).

**OrderStatProofs**, for any checkpoints, number of updates, instants and kills.

* `OrderStatTypeOK`, `OrderStatNotTooEarly`, `OrderStatCheckpointsInOrder`,
  `OrderStatLostOnlyInRace` and the action property `OrderStatPriceKept`. `EntryInv` says of every
  place an entry may be (map, row, both copies) that its prices were noted in time and in order,
  and of every update under way that it is not older than the order's row. `RaceInv`: the
  polling thread's copy is of the update delivered last unless one came meanwhile. `KeptInv`: map,
  copy and row agree on prices, as long as nothing failed and the hour lasts.

**MarketShmProofs**, for any number of feed threads, tickers, thresholds, kills and restarts.

* `MarketShmCopyIntact`, `MarketShmNewestWins` and the action property
  `MarketShmEvaluatedForward`. On the receiver's side: a cell's lock keeps other feeds out
  (`FeedInv`), whoever was killed inside it leaves it taken (`KilledInv`), a cell between whose
  sides nobody stands holds one ticker (`CellInv`), its update id and time are those of a ticker
  the receiver was given or found, even if it was left half written (`StoredInv`), a thread
  between them brings a newer one (`WriteInv`), and the newest ticker is in the cell or in
  somebody's hands (`CoverInv`). On the strategy's: a copy or an evaluation was seen in the cell,
  and a lower version of the cell was an older ticker (`SeenIn`, in `CopyInv` and `EvaluatedInv`);
  past the checks both copies are not older than what was evaluated last, and one that triggers
  is newer (`PlaceInv`).

**ActuaryProofs**, second part: Position, for every size of position and order (`PositionIInv`).

* `PositionCrossesOnlyMisled`, an action property. `WarrantedInv`: as long as every order of
  close-only mode was made on the exchange's position with nothing under way, there is at most
  one, and it has the opposite side and at most the size of that position. `OrderOfFacts` is the
  arithmetic of the order's size, `NoCrossing` that of a fill.

**TickerWindowProofs**, for any prices, delays, window, number of tickers and size of the queue.

* `TickerWindowExtremesAttained`, `TickerWindowFreshCovered` and the action property
  `TickerWindowRequestReflected`. `IInv` adds to the two invariants: the times
  of the calculator have passed (`TimesInv`); a ticker that made a request is in the list until it
  expires (`RequestInv`); the calculator's copy is part of the list as long as nothing was popped
  since, and holds every fresh ticker as long as nothing was pushed (`CopyInv`); a live ticker that
  made the request handled is in the copy, then within the result (`AnswerInv`). The last two are
  needed because feed threads push and widen the extremes between the copy and its being stored.
* The lemmas are about the operators: `FirstKeptFacts` and `SuffixFacts` on what the trim keeps,
  `ExtremesFacts`, `WidenFacts` and `AppendFacts` on prices. That a non-empty set of prices has a
  least element is the well-foundedness of the naturals (`MinFacts`), that a bounded one has a
  greatest follows from it (`MaxFacts`).

Only model-checked:

* Liveness and what rests on fairness or ENABLED, which are beyond the prover: `NewestIsTaken`,
  `ResumesWhenHealthy`, `StopsWhenStale`, `Converges`, `EvaluatedInTheEnd`, `FeedGetsOn`,
  `ReadyIsEvaluated`.

## 5. Not modelled

* The strategy's arithmetic (prices, medians, beta thresholds decide only whether there is a
  signal); the same-price pause, which only suppresses orders.
* Price offsets and the early-run threshold of the receiver. They repeat the pattern of the
  ticker window (a list trimmed by time, a calculator on a copy) for pairs of tickers; their
  composition with the window, by a rough count 10^7 states on the smallest instance with a
  race in it, does not fit into a run of minutes. What the strategy sees of the early-run threshold is a cell of MarketShm.
* Sockets and parsing. The pause of five seconds after every zmq message
  (`ticker_subscribe.cpp:442`) only delays and loses tickers, which MarketShm and TickerWindow
  allow anyway.
* Fairness of `std::shared_mutex`: a refill of the limiter may wait as long as scan threads
  keep the lock shared. That only lowers the rate.
* Account settings, commission rates, listen keys, exchange information: sequences of REST
  calls by one thread, whose state is the exchange's.
* The MySQL pool. Its exceptions end the evaluator's polling thread and the actuary's replay
  thread, and with them the process: these are among OrderStat's kills.
* Telegram, logging, configuration, command line programs.

## 6. Plan

* *AccountSettings*: which symbols are set after which answers.
* *MySQLPool*: bounded pool, waiters, failing reconnects.
* *OrderStat*: what a row whose size and average price stem from different updates means for the
  percentages.
