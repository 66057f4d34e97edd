--------------------------- MODULE MarketShmProofs ---------------------------
(***************************************************************************)
(* Proofs about MarketShm for any number of feed threads, tickers,         *)
(* thresholds, kills and restarts: what the strategy copies from a cell is *)
(* one ticker, the newest ticker stays in the cell, and evaluations go     *)
(* forward.                                                                *)
(***************************************************************************)
EXTENDS MarketShm, WellFoundedInduction, TLAPS

Top(b, a) == IF b >= a THEN b ELSE a

\* The exchange's tickers are as many as there are books, and their times do not decrease.
StreamFits(str, books, t) ==
    /\ Len(str) <= Len(books)
    /\ \A i \in 1..Len(str) : str[i] <= t
    /\ \A i, j \in 1..Len(str) : i <= j => str[i] <= str[j]

StreamInv == \A s \in Sides : StreamFits(stream[s], Books[s], now)

\* A cell or a copy of side s holds one ticker of the stream, or none.
HoldsOne(b, a, t, s, str) ==
    /\ Top(b, a) <= Len(str)
    /\ Top(b, a) = 0 => t = 0
    /\ Top(b, a) > 0 => /\ t = str[Top(b, a)]
                        /\ "bid" \in Books[s][Top(b, a)] => b = Top(b, a)
                        /\ "ask" \in Books[s][Top(b, a)] => a = Top(b, a)

CellTop(s) == Top(bid[s], ask[s])
CopyTop(s) == Top(copy[s].bid, copy[s].ask)
EvaluatedTop(s) == Top(evaluated[s].bid, evaluated[s].ask)

Busy(f, s) == feed[f].stage # "idle" /\ feed[f].side = s
Writing(f, s) == feed[f].stage = "write" /\ feed[f].side = s

\* Nobody is, or was when killed, between the two sides of the cell.
Settled(s) == killed[s] # "receiver" /\ \A f \in Feeds : ~Writing(f, s)

\* What a feed thread has in hand, and that a cell's lock keeps the others out.
FeedInv ==
    \A f \in Feeds :
        /\ feed[f].stage = "idle" => feed[f] = Idle
        /\ feed[f].stage # "idle" => attached /\ feed[f].id \in 1..got[feed[f].side]
        /\ feed[f].stage = "write" => lock[feed[f].side] = 1
        /\ \A g \in Feeds : \A s \in Sides : Writing(f, s) /\ Writing(g, s) => f = g

\* Who was killed inside a cell's lock leaves it taken.
KilledInv ==
    \A s \in Sides : killed[s] = "receiver" => lock[s] = 1 /\ \A f \in Feeds : ~Writing(f, s)

GotInv ==
    \A s \in Sides : /\ got[s] <= Len(stream[s])
                     /\ ~attached => got[s] = 0

CellInv ==
    \A s \in Sides :
        /\ Settled(s) => /\ HoldsOne(bid[s], ask[s], update_time[s], s, stream[s])
                         /\ update_id[s] = UpdateId(CellTop(s))
        /\ version_number[s] > 0 => CellTop(s) > 0

\* The update id and time of a cell, even of one left half written, are those of ticker k.
IsStored(s, k) ==
    /\ update_id[s] = UpdateId(k)
    /\ k = 0 => update_time[s] = 0
    /\ k > 0 => update_time[s] = stream[s][k]

\* The receiver was given this ticker, or found it.
StoredInv ==
    \A s \in Sides : \E k \in 0..Len(stream[s]) : IsStored(s, k) /\ (attached => k <= got[s])

\* A thread between the two sides brings a newer ticker than the cell has.
WriteInv ==
    \A f \in Feeds : \A s \in Sides : Writing(f, s) =>
        /\ IsNewer(s, feed[f].id)
        /\ ask[s] < feed[f].id
        /\ bid[s] <= feed[f].id
        /\ "bid" \in Books[s][feed[f].id] => bid[s] = feed[f].id

\* The newest ticker is in the cell or in the hands of a thread.
CoverInv ==
    \A s \in Sides : got[s] > 0 =>
        \/ update_id[s] >= UpdateId(got[s]) /\ update_time[s] >= stream[s][got[s]]
        \/ \E f \in Feeds : Busy(f, s) /\ feed[f].id = got[s]

\* The tickers in the hands of threads between the two sides of the cell.
Held(s) == {feed[f].id : f \in {g \in Feeds : Writing(g, s)}}

\* A bid and an ask seen in a cell with version v, while the cell is now at cb, ca and cv:
\* a lower version was an older ticker, and one still being written is unseen.
SeenIn(b, a, v, cb, ca, cv, held) ==
    /\ b <= cb /\ a <= ca /\ v <= cv
    /\ v < cv => Top(b, a) < Top(cb, ca)
    /\ \A k \in held : Top(b, a) < k

\* The strategy's copies are tickers of the stream, seen in the cell.
CopyInv ==
    \A s \in Sides :
        /\ HoldsOne(copy[s].bid, copy[s].ask, copy[s].time, s, stream[s])
        /\ SeenIn(copy[s].bid, copy[s].ask, copy[s].version, bid[s], ask[s], version_number[s], Held(s))

\* It evaluated what it saw in the cell, at no later version than it remembers.
EvaluatedInv ==
    \A s \in Sides :
        SeenIn(evaluated[s].bid, evaluated[s].ask, version[s], bid[s], ask[s], version_number[s], Held(s))

NotBefore(s) == evaluated[s].bid <= copy[s].bid /\ evaluated[s].ask <= copy[s].ask

\* What the strategy knows of its copies, and once it has copied both sides.
PlaceInv ==
    /\ \A s \in Sides : version[s] < copy[s].version => EvaluatedTop(s) < CopyTop(s)
    /\ pc = "follower" => NotBefore("benchmark")
    /\ pc \in Thresholds \cup {"evaluate"} =>
          /\ \A s \in Sides : NotBefore(s) /\ copy[s].version <= version[s]
          /\ \E s \in Triggers : EvaluatedTop(s) < CopyTop(s)

ReceiverInv == FeedInv /\ KilledInv /\ GotInv /\ CellInv /\ StoredInv /\ WriteInv /\ CoverInv

IInv == /\ TypeOK /\ StreamInv /\ ReceiverInv
        /\ CopyInv /\ EvaluatedInv /\ PlaceInv
-----------------------------------------------------------------------------
(* Cells, tops and tickers *)

USE MarketShmAssumption DEF MarketShmAssumption, Sides

LEMMA TopFacts ==
    ASSUME NEW b \in Nat, NEW a \in Nat
    PROVE  /\ Top(b, a) \in Nat
           /\ b <= Top(b, a) /\ a <= Top(b, a)
           /\ Top(b, a) = b \/ Top(b, a) = a
           /\ \A n \in Nat : b <= n /\ a <= n => Top(b, a) <= n
           /\ \A n \in Nat : b < n /\ a < n => Top(b, a) < n
BY DEF Top

LEMMA TopMonotone ==
    ASSUME NEW b \in Nat, NEW a \in Nat, NEW c \in Nat, NEW d \in Nat, b <= c, a <= d
    PROVE  Top(b, a) <= Top(c, d)
BY DEF Top

LEMMA MaxIsTop ==
    ASSUME NEW b \in Nat, NEW a \in Nat
    PROVE  Max({b, a}) = Top(b, a)
<1>1. PICK m \in {b, a} : \A y \in {b, a} : m >= y
    <2>1. CASE b >= a
        BY <2>1
    <2>2. CASE ~(b >= a)
        BY <2>2
    <2>3. QED
        BY <2>1, <2>2
<1>2. Max({b, a}) \in {b, a} /\ \A y \in {b, a} : Max({b, a}) >= y
    BY <1>1 DEF Max
<1>3. QED
    BY <1>2 DEF Top

\* A bounded set of numbers with a member has a greatest one.
LEMMA MaxFacts ==
    ASSUME NEW S \in SUBSET Nat, S # {}, NEW n \in Nat, \A y \in S : y <= n
    PROVE  Max(S) \in S /\ \A y \in S : y <= Max(S)
<1> DEFINE gaps == {n - y : y \in S}
<1>1. \A y \in S : y \in Nat /\ n - y \in Nat
    OBVIOUS
<1>2. gaps \in SUBSET Nat /\ gaps # {}
    <2>1. PICK y \in S : TRUE
        OBVIOUS
    <2>2. n - y \in gaps
        OBVIOUS
    <2>3. \A gap \in gaps : gap \in Nat
        BY <1>1
    <2>4. QED
        BY <2>2, <2>3
<1>3. PICK least \in gaps : \A gap \in gaps : <<gap, least>> \notin OpToRel(<, Nat)
    BY <1>2, NatLessThanWellFounded, WFMin
<1>4. PICK x \in S : least = n - x
    BY <1>3
<1>5. ASSUME NEW y \in S PROVE x >= y
    <2>1. <<n - y, least>> \notin {pair \in Nat \X Nat : pair[1] < pair[2]}
        BY <1>3, Zenon DEF OpToRel
    <2>2. QED
        BY <1>1, <1>4, <2>1
<1>6. QED
    BY <1>5 DEF Max

\* The cells of the thresholds are others than those of the tickers, and the strategy
\* comes from the benchmark to the follower and from a threshold to a threshold.
LEMMA CellFacts ==
    /\ Sides \subseteq Cells /\ Thresholds \subseteq Cells
    /\ \A c \in Thresholds : c \notin Sides /\ c \notin {"loop", "evaluate", "down"}
    /\ Head(ThresholdCells) \in Thresholds /\ Last(ThresholdCells) \in Thresholds
<1> DEFINE Names == {"early_run", "benchmark_beta", "follower_beta"}
<1>1. ThresholdCells \in Seq(Names) /\ ThresholdCells # << >>
    OBVIOUS
<1>2. DOMAIN ThresholdCells = 1..Len(ThresholdCells) /\ Len(ThresholdCells) \in Nat /\ Len(ThresholdCells) >= 1
    BY <1>1
<1>3. \A i \in 1..Len(ThresholdCells) : ThresholdCells[i] \in Names
    BY <1>1
<1>4. Head(ThresholdCells) = ThresholdCells[1]
    BY <1>1
<1>5. Head(ThresholdCells) \in Thresholds /\ Last(ThresholdCells) \in Thresholds
    <2>1. 1 \in DOMAIN ThresholdCells /\ Len(ThresholdCells) \in DOMAIN ThresholdCells
        BY <1>2
    <2>2. \A i \in DOMAIN ThresholdCells : ThresholdCells[i] \in Thresholds
        BY DEF Thresholds, Range
    <2>3. QED
        BY <1>4, <2>1, <2>2 DEF Last
<1>6. Thresholds \subseteq Names
    BY <1>2, <1>3 DEF Thresholds, Range
<1>7. QED
    BY <1>5, <1>6 DEF Cells

LEMMA NextCellFacts ==
    /\ NextCell("benchmark") = "follower"
    /\ \A c \in Thresholds \ {Last(ThresholdCells)} : NextCell(c) \in Thresholds
<1> DEFINE Names == {"early_run", "benchmark_beta", "follower_beta"}
           order == ReadOrder
           n == Len(ThresholdCells)
<1>1. ThresholdCells \in Seq(Names) /\ n \in Nat /\ n >= 1
    OBVIOUS
<1>2. /\ DOMAIN order = 1..(n + 2)
      /\ order[1] = "benchmark" /\ order[2] = "follower"
      /\ \A i \in 3..(n + 2) : order[i] = ThresholdCells[i - 2]
    <2>1. <<"benchmark", "follower">> \in Seq(Sides) /\ Len(<<"benchmark", "follower">>) = 2
        OBVIOUS
    <2>2. QED
        BY <1>1, <2>1 DEF ReadOrder
<1>3. \A i \in 3..(n + 2) : order[i] \in Thresholds
    BY <1>1, <1>2 DEF Thresholds, Range
<1>4. \A i \in 1..(n + 2) : i = 1 \/ i = 2 \/ i \in 3..(n + 2)
    BY <1>1
<1> HIDE DEF order
<1>5. NextCell("benchmark") = "follower"
    <2>1. \A i \in DOMAIN order : order[i] = "benchmark" => i = 1
        BY <1>2, <1>3, <1>4, CellFacts
    <2>2. 1 \in DOMAIN order
        BY <1>1, <1>2
    <2>3. (CHOOSE i \in DOMAIN order : order[i] = "benchmark") = 1
        BY <1>2, <2>1, <2>2
    <2>4. NextCell("benchmark") = order[1 + 1]
        BY <2>3 DEF NextCell, order
    <2>5. QED
        BY <1>2, <2>4
<1>6. ASSUME NEW c \in Thresholds, c # Last(ThresholdCells)
      PROVE  NextCell(c) \in Thresholds
    <2>1. PICK j \in DOMAIN ThresholdCells : ThresholdCells[j] = c
        BY DEF Thresholds, Range
    <2>2. j + 2 \in DOMAIN order /\ order[j + 2] = c
        <3>1. j \in 1..n
            BY <1>1
        <3>2. j + 2 \in 3..(n + 2) /\ (j + 2) - 2 = j
            BY <1>1, <3>1
        <3>3. QED
            BY <1>1, <1>2, <2>1, <3>2
    <2> DEFINE i == CHOOSE i \in DOMAIN order : order[i] = c
    <2>3. i \in DOMAIN order /\ order[i] = c
        BY <2>2
    <2> HIDE DEF i
    <2>4. i \in 3..(n + 2)
        BY <1>2, <1>4, <2>3, CellFacts
    <2>5. i # n + 2
        BY <1>1, <1>2, <1>6, <2>3 DEF Last
    <2>6. 1 + i \in 3..(n + 2)
        BY <1>1, <2>4, <2>5
    <2>7. NextCell(c) = order[1 + i]
        BY DEF NextCell, i, order
    <2>8. QED
        BY <1>3, <2>6, <2>7
<1>7. QED
    BY <1>5, <1>6

LEMMA BookFacts ==
    ASSUME NEW s \in Sides, NEW k \in 1..Len(Books[s])
    PROVE  "bid" \in Books[s][k] \/ "ask" \in Books[s][k]
<1> DEFINE B == {{"bid", "ask"}, {"bid"}, {"ask"}}
<1>1. Books[s] \in Seq(B)
    OBVIOUS
<1> HIDE DEF B
<1>2. Books[s][k] \in B
    BY <1>1
<1>3. QED
    BY <1>2 DEF B
-----------------------------------------------------------------------------
(* Types *)

FeedRecord == [stage : {"idle", "spin", "write"}, side : Sides, id : Nat]
CopyRecord == [bid : Nat, ask : Nat, time : Nat, version : Nat]
EvaluatedRecord == [bid : Nat, ask : Nat]
Victims == {"none", "receiver", "actuary"}

LEMMA Zeros ==
    /\ Idle \in FeedRecord /\ Idle.stage = "idle"
    /\ ZeroCopy \in [Cells -> CopyRecord]
    /\ \A c \in Cells : /\ ZeroCopy[c].bid = 0 /\ ZeroCopy[c].ask = 0
                        /\ ZeroCopy[c].time = 0 /\ ZeroCopy[c].version = 0
    /\ NothingEvaluated \in [Sides -> EvaluatedRecord]
    /\ \A s \in Sides : NothingEvaluated[s].bid = 0 /\ NothingEvaluated[s].ask = 0
    /\ NoTicker \in [Sides -> Nat] /\ \A s \in Sides : NoTicker[s] = 0
    /\ Cleared \in [Cells -> Nat] /\ Cleared \in [Cells -> {0, 1}] /\ \A c \in Cells : Cleared[c] = 0
    /\ NobodyKilled \in [Cells -> Victims] /\ \A c \in Cells : NobodyKilled[c] = "none"
<1>1. Idle \in FeedRecord /\ Idle.stage = "idle"
    BY DEF Idle, FeedRecord
<1>2. /\ ZeroCopy \in [Cells -> CopyRecord]
      /\ \A c \in Cells : /\ ZeroCopy[c].bid = 0 /\ ZeroCopy[c].ask = 0
                          /\ ZeroCopy[c].time = 0 /\ ZeroCopy[c].version = 0
    BY DEF ZeroCopy, CopyRecord
<1>3. /\ NothingEvaluated \in [Sides -> EvaluatedRecord]
      /\ \A s \in Sides : NothingEvaluated[s].bid = 0 /\ NothingEvaluated[s].ask = 0
    BY DEF NothingEvaluated, EvaluatedRecord
<1>4. NoTicker \in [Sides -> Nat] /\ \A s \in Sides : NoTicker[s] = 0
    BY DEF NoTicker
<1>5. Cleared \in [Cells -> Nat] /\ Cleared \in [Cells -> {0, 1}] /\ \A c \in Cells : Cleared[c] = 0
    BY DEF Cleared
<1>6. NobodyKilled \in [Cells -> Victims] /\ \A c \in Cells : NobodyKilled[c] = "none"
    BY DEF NobodyKilled, Victims
<1>7. QED
    BY <1>1, <1>2, <1>3, <1>4, <1>5, <1>6

\* What the invariant says of the pieces of state an action reads.
LEMMA Fields ==
    ASSUME TypeOK
    PROVE  /\ now \in Nat
           /\ \A s \in Sides : /\ stream[s] \in Seq(1..MaxTime) /\ Len(stream[s]) \in Nat
                               /\ \A i \in 1..Len(stream[s]) : stream[s][i] \in Nat /\ stream[s][i] \in 1..MaxTime
                               /\ bid[s] \in Nat /\ ask[s] \in Nat
                               /\ update_id[s] \in Nat /\ got[s] \in Nat
                               /\ evaluated[s].bid \in Nat /\ evaluated[s].ask \in Nat
           /\ \A c \in Cells : /\ update_time[c] \in Nat /\ version_number[c] \in Nat /\ lock[c] \in {0, 1}
                               /\ version[c] \in Nat
                               /\ copy[c].bid \in Nat /\ copy[c].ask \in Nat
                               /\ copy[c].time \in Nat /\ copy[c].version \in Nat
           /\ \A f \in Feeds : /\ feed[f].stage \in {"idle", "spin", "write"}
                               /\ feed[f].side \in Sides /\ feed[f].id \in Nat
           /\ \A k \in Nat : UpdateId(k) \in Nat
<1>1. now \in Nat /\ \A k \in Nat : UpdateId(k) \in Nat
    BY DEF TypeOK, UpdateId
<1>2. ASSUME NEW s \in Sides
      PROVE  /\ stream[s] \in Seq(1..MaxTime) /\ Len(stream[s]) \in Nat
             /\ \A i \in 1..Len(stream[s]) : stream[s][i] \in Nat /\ stream[s][i] \in 1..MaxTime
             /\ bid[s] \in Nat /\ ask[s] \in Nat
             /\ update_id[s] \in Nat /\ got[s] \in Nat
             /\ evaluated[s].bid \in Nat /\ evaluated[s].ask \in Nat
    <2>1. stream[s] \in Seq(1..MaxTime)
        BY DEF TypeOK
    <2>2. Len(stream[s]) \in Nat /\ \A i \in 1..Len(stream[s]) : stream[s][i] \in 1..MaxTime
        BY <2>1
    <2>3. evaluated[s] \in [bid : Nat, ask : Nat]
        BY DEF TypeOK
    <2>4. bid[s] \in Nat /\ ask[s] \in Nat /\ update_id[s] \in Nat /\ got[s] \in Nat
        BY DEF TypeOK
    <2>5. \A x \in 1..MaxTime : x \in Nat
        OBVIOUS
    <2>6. QED
        BY <2>1, <2>2, <2>3, <2>4, <2>5
<1>3. ASSUME NEW c \in Cells
      PROVE  /\ update_time[c] \in Nat /\ version_number[c] \in Nat /\ lock[c] \in {0, 1}
             /\ version[c] \in Nat
             /\ copy[c].bid \in Nat /\ copy[c].ask \in Nat
             /\ copy[c].time \in Nat /\ copy[c].version \in Nat
    <2>1. copy[c] \in [bid : Nat, ask : Nat, time : Nat, version : Nat]
        BY DEF TypeOK
    <2>2. update_time[c] \in Nat /\ version_number[c] \in Nat /\ lock[c] \in {0, 1} /\ version[c] \in Nat
        BY DEF TypeOK
    <2>3. QED
        BY <2>1, <2>2
<1>4. ASSUME NEW f \in Feeds
      PROVE  feed[f].stage \in {"idle", "spin", "write"} /\ feed[f].side \in Sides /\ feed[f].id \in Nat
    <2>1. feed[f] \in [stage : {"idle", "spin", "write"}, side : Sides, id : Nat]
        BY DEF TypeOK
    <2>2. QED
        BY <2>1
<1>5. QED
    BY <1>1, <1>2, <1>3, <1>4

\* The copy of a side is the side's cell; the copies of the other cells stay.
LEMMA CopiedFacts ==
    ASSUME TypeOK, NEW c \in Cells
    PROVE  /\ Copied(c) \in [Cells -> CopyRecord]
           /\ c \in Sides => /\ Copied(c)[c].bid = bid[c] /\ Copied(c)[c].ask = ask[c]
                             /\ Copied(c)[c].time = update_time[c] /\ Copied(c)[c].version = version_number[c]
           /\ \A d \in Cells : d # c => Copied(c)[d] = copy[d]
<1> DEFINE new == IF c \in Sides THEN ticker_shm_reader_get(c) ELSE ReadThreshold(c)
<1>1. Copied(c) = [copy EXCEPT ![c] = new]
    BY DEF Copied
<1>2. /\ new \in CopyRecord
      /\ c \in Sides => /\ new.bid = bid[c] /\ new.ask = ask[c]
                        /\ new.time = update_time[c] /\ new.version = version_number[c]
    <2>1. CASE c \in Sides
        <3>1. new = [bid |-> bid[c], ask |-> ask[c], time |-> update_time[c], version |-> version_number[c]]
            BY <2>1 DEF ticker_shm_reader_get
        <3>2. bid[c] \in Nat /\ ask[c] \in Nat /\ update_time[c] \in Nat /\ version_number[c] \in Nat
            BY <2>1, Fields
        <3>3. QED
            BY <3>1, <3>2 DEF CopyRecord
    <2>2. CASE c \notin Sides
        <3>1. new = [bid |-> 0, ask |-> 0, time |-> update_time[c], version |-> version_number[c]]
            BY <2>2 DEF ReadThreshold
        <3>2. update_time[c] \in Nat /\ version_number[c] \in Nat
            BY Fields
        <3>3. QED
            BY <2>2, <3>1, <3>2 DEF CopyRecord
    <2>3. QED
        BY <2>1, <2>2
<1> HIDE DEF new
<1>3. copy \in [Cells -> CopyRecord]
    BY DEF TypeOK, CopyRecord
<1> HIDE DEF CopyRecord
<1>4. QED
    BY <1>1, <1>2, <1>3

\* Versions do not decrease, and those of cells that were not looked at stay.
LEMMA RaisedFacts ==
    ASSUME TypeOK, NEW C, NEW cp \in [Cells -> CopyRecord]
    PROVE  /\ Raised(C, cp) \in [Cells -> Nat]
           /\ \A c \in Cells : /\ c \in C => Raised(C, cp)[c] = Top(version[c], cp[c].version)
                               /\ c \notin C => Raised(C, cp)[c] = version[c]
<1>1. \A c \in Cells : version[c] \in Nat /\ cp[c].version \in Nat
    <2>1. \A c \in Cells : cp[c] \in CopyRecord
        OBVIOUS
    <2>2. QED
        BY <2>1, Fields DEF CopyRecord
<1>2. \A c \in Cells : /\ Max({version[c], cp[c].version}) = Top(version[c], cp[c].version)
                       /\ Top(version[c], cp[c].version) \in Nat
    BY <1>1, MaxIsTop, TopFacts
<1>3. Raised(C, cp) = [c \in Cells |-> IF c \in C THEN Top(version[c], cp[c].version) ELSE version[c]]
    BY <1>2 DEF Raised
<1>4. \A c \in Cells : Raised(C, cp)[c] = IF c \in C THEN Top(version[c], cp[c].version) ELSE version[c]
    BY <1>3
<1>5. \A c \in Cells : Raised(C, cp)[c] \in Nat
    BY <1>1, <1>2, <1>4
<1>6. Raised(C, cp) \in [Cells -> Nat]
    BY <1>3, <1>5, Zenon
<1>7. QED
    BY <1>4, <1>6
-----------------------------------------------------------------------------
(* What the actions with several outcomes do *)

\* Stored is the newest ticker that the update id and time of a cell are those of, if any.
LEMMA StoredFacts ==
    ASSUME TypeOK, NEW s \in Sides
    PROVE  /\ Stored(s) \in 0..Len(stream[s])
           /\ Stored(s) > 0 => IsStored(s, Stored(s))
           /\ \A k \in 1..Len(stream[s]) : IsStored(s, k) => k <= Stored(s)
<1> DEFINE Matching == {k \in DOMAIN stream[s] : update_id[s] = UpdateId(k) /\ update_time[s] = stream[s][k]}
           n == Len(stream[s])
<1>1. n \in Nat /\ DOMAIN stream[s] = 1..n
    <2>1. stream[s] \in Seq(1..MaxTime)
        BY Fields
    <2>2. QED
        BY <2>1
<1> DEFINE All == {0} \cup Matching
           m == Stored(s)
<1>2. All \in SUBSET Nat /\ All # {} /\ \A y \in All : y <= n
    BY <1>1
<1>3. m = Max(All)
    BY DEF Stored
<1> HIDE DEF m
<1>4. m \in All /\ \A y \in All : y <= m
    <2> HIDE DEF All
    <2>1. QED
        BY <1>1, <1>2, <1>3, MaxFacts
<1>5. m \in 0..n /\ (m > 0 => IsStored(s, m))
    BY <1>1, <1>4 DEF IsStored
<1>6. ASSUME NEW k \in 1..n, IsStored(s, k) PROVE k <= m
    BY <1>1, <1>4, <1>6 DEF IsStored
<1>7. QED
    BY <1>5, <1>6 DEF m

LEMMA StoredIsNat ==
    ASSUME TypeOK, NEW s \in Sides
    PROVE  Stored(s) \in Nat /\ Len(stream[s]) \in Nat
<1>1. Stored(s) \in 0..Len(stream[s]) /\ Len(stream[s]) \in Nat
    BY StoredFacts, Fields
<1>2. QED
    BY <1>1

\* Whatever the source, a feed thread gets a ticker of the stream.
LEMMA ReceiveFacts ==
    ASSUME TypeOK, NEW f \in Feeds, ReceiveNormal(f) \/ ReceiveBest(f)
    PROVE  \E s \in Sides : \E k \in 1..Len(stream[s]) : Got(f, s, k)
<1>1. CASE ReceiveNormal(f)
    <2>1. PICK s \in Sides : \E k \in (got[s] + 1)..Len(stream[s]) : Got(f, s, k)
        BY <1>1 DEF ReceiveNormal
    <2>2. got[s] \in Nat /\ Len(stream[s]) \in Nat
        BY Fields
    <2>3. \A k \in (got[s] + 1)..Len(stream[s]) : k \in 1..Len(stream[s])
        BY <2>2
    <2>4. QED
        BY <2>1, <2>3
<1>2. CASE ReceiveBest(f)
    <2>1. PICK s \in Sides : \E k \in DOMAIN stream[s] : Got(f, s, k)
        BY <1>2 DEF ReceiveBest, UdpTickers, ZmqTickers
    <2>2. stream[s] \in Seq(1..MaxTime)
        BY Fields
    <2>3. DOMAIN stream[s] = 1..Len(stream[s])
        BY <2>2
    <2>4. QED
        BY <2>1, <2>3
<1>3. QED
    BY <1>1, <1>2

\* The ticker a busy feed thread has in hand is one of the stream.
LEMMA FeedTicker ==
    ASSUME TypeOK, FeedInv, GotInv, NEW f \in Feeds, feed[f].stage # "idle"
    PROVE  /\ feed[f].side \in Sides /\ attached
           /\ feed[f].id \in 1..got[feed[f].side]
           /\ feed[f].id \in 1..Len(stream[feed[f].side])
<1>1. feed[f].side \in Sides
    BY Fields
<1>2. attached /\ feed[f].id \in 1..got[feed[f].side]
    BY DEF FeedInv
<1>3. /\ got[feed[f].side] \in Nat /\ Len(stream[feed[f].side]) \in Nat
      /\ got[feed[f].side] <= Len(stream[feed[f].side])
    BY <1>1, Fields DEF GotInv
<1>4. QED
    BY <1>1, <1>2, <1>3

\* The outcomes of a look at the follower ..
LEMMA CopyFollowerFacts ==
    ASSUME CopyFollower
    PROVE  /\ pc = "follower" /\ lock["follower"] = 0
           /\ UNCHANGED <<now, source, stream, cellVars, receiverVars, evaluated, restarts>>
           /\ \/ /\ pc' = "loop" /\ copy' = ZeroCopy /\ started' = 0
                 /\ version' = version \/ version' = Raised(Sides, Copied("follower"))
              \/ /\ pc' = Head(ThresholdCells) /\ copy' = Copied("follower") /\ started' = started
                 /\ version' = Raised(Sides, Copied("follower"))
                 /\ Triggered(Copied("follower"))
BY DEF CopyFollower, Again, IsFree

\* .. and at the last threshold.
LEMMA CopyLastFacts ==
    ASSUME CopyLastThreshold
    PROVE  /\ pc = Last(ThresholdCells)
           /\ UNCHANGED <<now, source, stream, cellVars, receiverVars, evaluated, restarts>>
           /\ \/ /\ pc' = "loop" /\ copy' = ZeroCopy /\ started' = 0
                 /\ version' = version \/ version' = Raised(Thresholds, Copied(pc))
              \/ /\ pc' = "evaluate" /\ copy' = Copied(pc) /\ started' = started
                 /\ version' = Raised(Thresholds, Copied(pc))
BY DEF CopyLastThreshold, Again

LEMMA StepTypes == TypeOK /\ FeedInv /\ GotInv /\ [Next]_vars => TypeOK'
<1> SUFFICES ASSUME TypeOK, FeedInv, GotInv, [Next]_vars PROVE TypeOK'
    OBVIOUS
<1> USE DEF cellVars, tickerVars, receiverVars, strategyVars
<1>a. /\ feed \in [Feeds -> FeedRecord] /\ copy \in [Cells -> CopyRecord]
      /\ evaluated \in [Sides -> EvaluatedRecord]
    BY DEF TypeOK, FeedRecord, CopyRecord, EvaluatedRecord
<1>b. ASSUME UNCHANGED <<now, source, stream>>,
             UNCHANGED <<attached, feed, got, bid, ask, update_id, update_time, version_number>>,
             lock' \in [Cells -> {0, 1}], killed' \in [Cells -> Victims],
             pc' \in Cells \cup {"loop", "evaluate", "down"}, started' \in 0..MaxTime,
             copy' \in [Cells -> CopyRecord], version' \in [Cells -> Nat],
             evaluated' \in [Sides -> EvaluatedRecord], restarts' \in 0..MaxRestart
      PROVE  TypeOK'
    BY <1>b DEF TypeOK, CopyRecord, EvaluatedRecord, Victims
<1>c. /\ now \in 1..MaxTime /\ started \in 0..MaxTime /\ restarts \in 0..MaxRestart
      /\ now \in 0..MaxTime /\ 0 \in 0..MaxTime
      /\ version \in [Cells -> Nat] /\ lock \in [Cells -> {0, 1}] /\ killed \in [Cells -> Victims]
      /\ pc \in Cells \cup {"loop", "evaluate", "down"}
    <2>1. /\ now \in 1..MaxTime /\ started \in 0..MaxTime /\ restarts \in 0..MaxRestart
          /\ version \in [Cells -> Nat] /\ lock \in [Cells -> {0, 1}] /\ killed \in [Cells -> Victims]
          /\ pc \in Cells \cup {"loop", "evaluate", "down"}
        BY DEF TypeOK, Victims
    <2>2. now \in 0..MaxTime /\ 0 \in 0..MaxTime
        BY <2>1
    <2>3. QED
        BY <2>1, <2>2
<1>1. CASE Tick
    <2>1. now' \in 1..MaxTime
        BY <1>1, <1>c DEF Tick
    <2>2. UNCHANGED <<source, stream, cellVars, receiverVars, strategyVars>>
        BY <1>1 DEF Tick
    <2>3. QED
        BY <2>1, <2>2 DEF TypeOK
<1>2. ASSUME NEW s \in Sides, Publish(s) PROVE TypeOK'
    <2>1. stream[s] \in Seq(1..MaxTime) /\ now \in 1..MaxTime
        BY DEF TypeOK
    <2>2. Append(stream[s], now) \in Seq(1..MaxTime)
        BY <2>1
    <2>3. stream' \in [Sides -> Seq(1..MaxTime)]
        BY <1>2, <2>2 DEF Publish, TypeOK
    <2>4. QED
        BY <1>2, <2>3 DEF Publish, TypeOK
<1>3. ASSUME NEW f \in Feeds, ReceiveNormal(f) \/ ReceiveBest(f) PROVE TypeOK'
    <2>0. PICK s \in Sides : \E k \in 1..Len(stream[s]) : Got(f, s, k)
        BY <1>3, ReceiveFacts
    <2>1. PICK k \in 1..Len(stream[s]) : Got(f, s, k)
        BY <2>0
    <2>2. k \in Nat /\ got[s] \in Nat /\ Max({got[s], k}) \in Nat
        <3>1. Len(stream[s]) \in Nat /\ got[s] \in Nat
            BY Fields
        <3>2. k \in Nat
            BY <3>1
        <3>3. Max({got[s], k}) = Top(got[s], k) /\ Top(got[s], k) \in Nat
            BY <3>1, <3>2, MaxIsTop, TopFacts
        <3>4. QED
            BY <3>1, <3>2, <3>3
    <2>3. got' = [got EXCEPT ![s] = Max({got[s], k})]
        BY <2>1 DEF Got
    <2>4. got' \in [Sides -> Nat]
        BY <2>2, <2>3 DEF TypeOK
    <2>5. [stage |-> "spin", side |-> s, id |-> k] \in FeedRecord
        BY <2>2 DEF FeedRecord
    <2>6. feed' \in [Feeds -> FeedRecord]
        <3> HIDE DEF FeedRecord
        <3>1. QED
            BY <2>1, <2>5, <1>a DEF Got
    <2>7. UNCHANGED <<now, source, stream, cellVars, attached, strategyVars>>
        BY <2>1 DEF Got
    <2>8. QED
        BY <2>4, <2>6, <2>7 DEF TypeOK, FeedRecord
<1>4. ASSUME NEW f \in Feeds, FeedEnter(f) PROVE TypeOK'
    <2> DEFINE s == feed[f].side
               k == feed[f].id
    <2>1. s \in Sides /\ s \in Cells /\ k \in Nat
        BY Fields, CellFacts
    <2> HIDE DEF s, k
    <2>2. /\ lock' = [lock EXCEPT ![s] = 1]
          /\ bid' = bid \/ bid' = [bid EXCEPT ![s] = k]
          /\ feed' = [feed EXCEPT ![f] = [stage |-> "write", side |-> s, id |-> k]]
          /\ UNCHANGED <<now, source, stream, ask, update_id, update_time, version_number, killed,
                         attached, got, strategyVars>>
        BY <1>4 DEF FeedEnter, s, k
    <2>3. [stage |-> "write", side |-> s, id |-> k] \in FeedRecord
        BY <2>1 DEF FeedRecord
    <2>4. feed' \in [Feeds -> FeedRecord]
        <3> HIDE DEF FeedRecord
        <3>1. QED
            BY <2>2, <2>3, <1>a
    <2>5. lock' \in [Cells -> {0, 1}]
        BY <2>1, <2>2, <1>c
    <2>7. bid' \in [Sides -> Nat]
        <3>1. bid \in [Sides -> Nat] /\ [bid EXCEPT ![s] = k] \in [Sides -> Nat]
            BY <2>1 DEF TypeOK
        <3>2. QED
            BY <2>2, <3>1
    <2>6. QED
        BY <2>2, <2>4, <2>5, <2>7 DEF TypeOK, FeedRecord
<1>5. ASSUME NEW f \in Feeds, FeedTooLate(f) PROVE TypeOK'
    <2>1. feed' \in [Feeds -> FeedRecord]
        <3> HIDE DEF FeedRecord
        <3>1. QED
            BY <1>5, <1>a, Zeros DEF FeedTooLate
    <2>2. QED
        BY <1>5, <2>1 DEF FeedTooLate, TypeOK, FeedRecord
<1>6. ASSUME NEW f \in Feeds, FeedLeave(f) PROVE TypeOK'
    <2> DEFINE s == feed[f].side
               k == feed[f].id
    <2>0. feed[f].stage # "idle"
        BY <1>6 DEF FeedLeave
    <2>1. s \in Sides /\ s \in Cells /\ k \in Nat /\ k \in 1..Len(stream[s])
        BY <2>0, FeedTicker, Fields, CellFacts
    <2>2. stream[s][k] \in Nat /\ UpdateId(k) \in Nat /\ version_number[s] + 1 \in Nat
        <3>1. stream[s][k] \in Nat
            BY <2>1, Fields
        <3>2. UpdateId(k) \in Nat
            BY <2>1, Fields
        <3>3. version_number[s] \in Nat
            BY <2>1, Fields
        <3>4. QED
            BY <3>1, <3>2, <3>3
    <2> HIDE DEF s, k
    <2>3. /\ ask' = ask \/ ask' = [ask EXCEPT ![s] = k]
          /\ update_id' = [update_id EXCEPT ![s] = UpdateId(k)]
          /\ update_time' = [update_time EXCEPT ![s] = stream[s][k]]
          /\ version_number' = [version_number EXCEPT ![s] = version_number[s] + 1]
          /\ lock' = [lock EXCEPT ![s] = 0]
          /\ feed' = [feed EXCEPT ![f] = Idle]
          /\ UNCHANGED <<now, source, stream, bid, killed, attached, got, strategyVars>>
        BY <1>6 DEF FeedLeave, common_release_lock, s, k
    <2>4. feed' \in [Feeds -> FeedRecord]
        <3> HIDE DEF FeedRecord
        <3>1. QED
            BY <2>3, <1>a, Zeros
    <2>5. /\ ask' \in [Sides -> Nat] /\ update_id' \in [Sides -> Nat] /\ update_time' \in [Cells -> Nat]
          /\ version_number' \in [Cells -> Nat] /\ lock' \in [Cells -> {0, 1}]
        <3>1. ask' \in [Sides -> Nat]
            <4>1. ask \in [Sides -> Nat] /\ [ask EXCEPT ![s] = k] \in [Sides -> Nat]
                BY <2>1 DEF TypeOK
            <4>2. QED
                BY <2>3, <4>1
        <3>2. update_id' \in [Sides -> Nat]
            BY <2>1, <2>2, <2>3 DEF TypeOK
        <3>3. update_time' \in [Cells -> Nat]
            BY <2>1, <2>2, <2>3 DEF TypeOK
        <3>4. version_number' \in [Cells -> Nat]
            BY <2>1, <2>2, <2>3 DEF TypeOK
        <3>5. lock' \in [Cells -> {0, 1}]
            BY <2>1, <2>3, <1>c
        <3>6. QED
            BY <3>1, <3>2, <3>3, <3>4, <3>5
    <2>6. QED
        BY <2>3, <2>4, <2>5 DEF TypeOK, FeedRecord
<1>7. ASSUME NEW c \in Thresholds, PublishThreshold(c) PROVE TypeOK'
    <2>1. PICK time_mills \in 1..now : StoreThreshold(c, time_mills)
        BY <1>7 DEF PublishThreshold
    <2>2. time_mills \in Nat /\ c \in Cells /\ version_number[c] + 1 \in Nat
        <3>1. c \in Cells
            BY CellFacts
        <3>2. version_number[c] \in Nat
            BY <3>1, Fields
        <3>3. QED
            BY <3>1, <3>2
    <2>3. update_time' \in [Cells -> Nat] /\ version_number' \in [Cells -> Nat]
        BY <2>1, <2>2 DEF StoreThreshold, TypeOK
    <2>4. QED
        BY <1>7, <2>3 DEF PublishThreshold, TypeOK
<1>8. CASE ReceiverCrash
    <2>1. PICK inside :
              /\ lock' = [c \in Cells |-> IF c \in inside THEN 1 ELSE lock[c]]
              /\ killed' = [c \in Cells |-> IF c \in inside \cup BeingWritten THEN "receiver" ELSE killed[c]]
        BY <1>8 DEF ReceiverCrash
    <2>2. lock' \in [Cells -> {0, 1}]
        BY <2>1, Fields
    <2>3. feed' \in [Feeds -> FeedRecord]
        <3> HIDE DEF FeedRecord
        <3>1. QED
            BY <1>8, Zeros DEF ReceiverCrash
    <2>4. got' \in [Sides -> Nat]
        BY <1>8 DEF ReceiverCrash
    <2>5. attached' \in BOOLEAN
        BY <1>8, Zenon DEF ReceiverCrash
    <2>6. killed' \in [Cells -> {"none", "receiver", "actuary"}]
        <3>1. \A c \in Cells : killed[c] \in {"none", "receiver", "actuary"}
            BY DEF TypeOK
        <3>2. QED
            BY <2>1, <3>1
    <2>7. QED
        BY <1>8, <2>2, <2>3, <2>4, <2>5, <2>6 DEF ReceiverCrash, TypeOK, FeedRecord
<1>9. CASE StartIteration
    <2>1. pc' \in Cells
        BY <1>9, CellFacts DEF StartIteration
    <2>2. QED
        BY <1>9, <1>a, <1>b, <1>c, <2>1 DEF StartIteration
<1>10. CASE CopyCell
    <2>1. pc \in Cells /\ pc \in Sides \cup Thresholds
        BY <1>10 DEF CopyCell, Cells
    <2>2. copy' \in [Cells -> CopyRecord]
        BY <1>10, <2>1, CopiedFacts DEF CopyCell
    <2>3. pc' \in Cells
        BY <1>10, <2>1, NextCellFacts, CellFacts DEF CopyCell
    <2>4. QED
        BY <1>10, <1>a, <1>b, <1>c, <2>2, <2>3 DEF CopyCell, TypeOK
<1>11. CASE CopyFollower
    <2>1. Copied("follower") \in [Cells -> CopyRecord]
        BY CopiedFacts, CellFacts
    <2>2. Raised(Sides, Copied("follower")) \in [Cells -> Nat]
        BY <2>1, RaisedFacts
    <2>3. version' \in [Cells -> Nat] /\ copy' \in [Cells -> CopyRecord]
        BY <1>11, <2>1, <2>2, CopyFollowerFacts, <1>c, Zeros
    <2>4. pc' \in Cells \cup {"loop", "evaluate", "down"} /\ started' \in 0..MaxTime
        BY <1>11, <1>c, CopyFollowerFacts, CellFacts
    <2>5. QED
        BY <1>11, <1>a, <1>b, <1>c, <2>3, <2>4, CopyFollowerFacts DEF TypeOK
<1>12. CASE CopyLastThreshold
    <2>0. pc \in Cells
        BY <1>12, CopyLastFacts, CellFacts
    <2>1. Copied(pc) \in [Cells -> CopyRecord]
        BY <2>0, CopiedFacts
    <2>2. Raised(Thresholds, Copied(pc)) \in [Cells -> Nat]
        BY <2>1, RaisedFacts
    <2>3. version' \in [Cells -> Nat] /\ copy' \in [Cells -> CopyRecord]
        BY <1>12, <2>1, <2>2, CopyLastFacts, <1>c, Zeros
    <2>4. pc' \in Cells \cup {"loop", "evaluate", "down"} /\ started' \in 0..MaxTime
        BY <1>12, <1>c, CopyLastFacts, CellFacts
    <2>5. QED
        BY <1>12, <1>a, <1>b, <1>c, <2>3, <2>4, CopyLastFacts DEF TypeOK
<1>13. CASE Evaluate
    <2>1. \A s \in Sides : [bid |-> copy[s].bid, ask |-> copy[s].ask] \in EvaluatedRecord
        BY Fields, CellFacts DEF EvaluatedRecord
    <2>2. evaluated' \in [Sides -> EvaluatedRecord]
        <3> HIDE DEF EvaluatedRecord
        <3>1. QED
            BY <1>13, <2>1 DEF Evaluate
    <2>3. QED
        BY <1>13, <1>b, <1>c, <2>2, Zeros DEF Evaluate, Again
<1>14. CASE ActuaryCrash
    <2>1. lock' \in [Cells -> {0, 1}] /\ killed' \in [Cells -> Victims]
        BY <1>14 DEF ActuaryCrash, TypeOK, Victims
    <2>2. QED
        BY <1>14, <1>a, <1>b, <1>c, <2>1, Zeros DEF ActuaryCrash, Again
<1>15. CASE ActuaryRestart \/ ActuaryRestartAnew
    <2>1. Restarted
        BY <1>15 DEF ActuaryRestart, ActuaryRestartAnew
    <2>2. version' \in [Cells -> Nat] /\ restarts' \in 0..MaxRestart
        BY <2>1 DEF Restarted, TypeOK
    <2>3. CASE ActuaryRestart
        BY <2>1, <2>2, <2>3, <1>b, <1>c, Zeros DEF ActuaryRestart, Restarted, Again
    <2>4. CASE ActuaryRestartAnew
        <3>1. attached' \in BOOLEAN
            BY <2>4, Zenon DEF ActuaryRestartAnew
        <3>2. QED
            <4>1. /\ started' \in 0..MaxTime /\ copy' \in [Cells -> CopyRecord] /\ pc' = "loop"
                  /\ evaluated' \in [Sides -> EvaluatedRecord]
                BY <2>1, <1>c, Zeros DEF Restarted, Again
            <4>2. /\ bid' \in [Sides -> Nat] /\ ask' \in [Sides -> Nat] /\ update_id' \in [Sides -> Nat]
                  /\ update_time' \in [Cells -> Nat] /\ version_number' \in [Cells -> Nat]
                  /\ lock' \in [Cells -> {0, 1}] /\ killed' \in [Cells -> Victims]
                BY <2>4, Zeros DEF ActuaryRestartAnew
            <4>3. UNCHANGED <<now, source, stream, feed, got>>
                BY <2>4 DEF ActuaryRestartAnew
            <4>4. QED
                BY <2>2, <3>1, <4>1, <4>2, <4>3 DEF TypeOK, CopyRecord, EvaluatedRecord, Victims
    <2>5. QED
        BY <1>15, <2>3, <2>4
<1>16. CASE UNCHANGED vars
    BY <1>16 DEF vars, TypeOK
<1>17. CASE ReceiverReattach
    <2>1. \A s \in Sides : Stored(s) \in Nat
        BY StoredIsNat
    <2>2. got' \in [Sides -> Nat]
        BY <1>17, <2>1 DEF ReceiverReattach
    <2>3. attached' \in BOOLEAN
        BY <1>17, Zenon DEF ReceiverReattach
    <2>4. restarts' \in 0..MaxRestart
        BY <1>17 DEF ReceiverReattach, RestartsDue, TypeOK
    <2>5. QED
        BY <1>17, <2>2, <2>3, <2>4 DEF ReceiverReattach, TypeOK
<1>18. QED
    BY <1>1, <1>2, <1>3, <1>4, <1>5, <1>6, <1>7, <1>8, <1>9, <1>10, <1>11, <1>12, <1>13, <1>14,
       <1>15, <1>16, <1>17 DEF Next, FeedStep, StrategyStep
-----------------------------------------------------------------------------
(* The exchange's stream *)

\* A stream that may have grown.
Extends(str, new) == Len(str) <= Len(new) /\ \A i \in 1..Len(str) : new[i] = str[i]

LEMMA PublishFacts ==
    ASSUME NEW str \in Seq(1..MaxTime), NEW t \in 1..MaxTime, NEW books
    PROVE  /\ Extends(str, Append(str, t))
           /\ Len(str) < Len(books) /\ Len(books) \in Nat /\ StreamFits(str, books, t)
                  => StreamFits(Append(str, t), books, t)
<1> DEFINE new == Append(str, t)
<1>1. /\ Len(str) \in Nat /\ Len(new) = Len(str) + 1 /\ new[Len(str) + 1] = t
      /\ \A i \in 1..Len(str) : new[i] = str[i] /\ str[i] \in Nat
    OBVIOUS
<1> HIDE DEF new
<1>2. \A i \in 1..(Len(str) + 1) : i \in 1..Len(str) \/ i = Len(str) + 1
    BY <1>1
<1>3. Extends(str, new)
    BY <1>1 DEF Extends
<1>4. ASSUME Len(str) < Len(books), Len(books) \in Nat, StreamFits(str, books, t)
      PROVE  StreamFits(new, books, t)
    <2>1. Len(new) <= Len(books)
        BY <1>1, <1>4
    <2>2. ASSUME NEW i \in 1..Len(new) PROVE new[i] <= t
        <3>1. CASE i = Len(str) + 1
            BY <1>1, <3>1
        <3>2. CASE i \in 1..Len(str)
            BY <1>1, <1>4, <3>2 DEF StreamFits
        <3>3. QED
            BY <1>1, <1>2, <3>1, <3>2
    <2>3. ASSUME NEW i \in 1..Len(new), NEW j \in 1..Len(new), i <= j
          PROVE  new[i] <= new[j]
        <3>1. CASE j = Len(str) + 1
            BY <1>1, <2>2, <3>1
        <3>2. CASE j \in 1..Len(str)
            <4>1. i \in 1..Len(str)
                BY <1>1, <2>3, <3>2
            <4>2. QED
                BY <1>1, <1>4, <2>3, <3>2, <4>1 DEF StreamFits
        <3>3. QED
            BY <1>1, <1>2, <3>1, <3>2
    <2>4. QED
        BY <2>1, <2>2, <2>3 DEF StreamFits
<1>5. QED
    BY <1>3, <1>4 DEF new

\* The stream only grows.
LEMMA StreamGrows ==
    ASSUME TypeOK, [Next]_vars
    PROVE  \A s \in Sides : Extends(stream[s], stream'[s])
<1> USE DEF strategyVars, receiverVars
<1>1. ASSUME NEW r \in Sides, Publish(r) PROVE \A s \in Sides : Extends(stream[s], stream'[s])
    <2>1. stream' = [stream EXCEPT ![r] = Append(stream[r], now)] /\ stream \in [Sides -> Seq(1..MaxTime)]
        BY <1>1 DEF Publish, TypeOK
    <2>2. Extends(stream[r], Append(stream[r], now))
        BY PublishFacts DEF TypeOK
    <2>3. \A s \in Sides : Extends(stream[s], stream[s])
        BY Fields DEF Extends
    <2>4. QED
        BY <2>1, <2>2, <2>3
<1>2. ASSUME UNCHANGED stream PROVE \A s \in Sides : Extends(stream[s], stream'[s])
    BY <1>2, Fields DEF Extends
<1>3. UNCHANGED stream \/ \E r \in Sides : Publish(r)
    BY DEF Next, vars, Tick, ReceiveNormal, ReceiveBest, Got, FeedStep, FeedEnter, FeedTooLate, FeedLeave,
           PublishThreshold, ReceiverCrash, ReceiverReattach, StrategyStep, StartIteration, CopyCell, CopyFollower,
           CopyLastThreshold, Evaluate, ActuaryCrash, ActuaryRestart, ActuaryRestartAnew
<1>4. QED
    BY <1>1, <1>2, <1>3

LEMMA StepStream == TypeOK /\ StreamInv /\ [Next]_vars => StreamInv'
<1> SUFFICES ASSUME TypeOK, StreamInv, [Next]_vars PROVE StreamInv'
    OBVIOUS
<1>1. CASE Tick
    <2>1. now' = now + 1 /\ UNCHANGED stream /\ now \in Nat
        BY <1>1, Fields DEF Tick
    <2>2. \A s \in Sides : \A i \in 1..Len(stream[s]) : stream[s][i] \in Nat
        BY Fields
    <2>3. QED
        BY <2>1, <2>2, SMTT(20) DEF StreamInv, StreamFits
<1>2. ASSUME NEW r \in Sides, Publish(r) PROVE StreamInv'
    <2>1. /\ stream' = [stream EXCEPT ![r] = Append(stream[r], now)] /\ stream \in [Sides -> Seq(1..MaxTime)]
          /\ Len(stream[r]) < Len(Books[r]) /\ UNCHANGED now
        BY <1>2 DEF Publish, TypeOK
    <2>2. Books[r] \in Seq({{"bid", "ask"}, {"bid"}, {"ask"}})
        OBVIOUS
    <2>3. Len(Books[r]) \in Nat
        BY <2>2
    <2>4. StreamFits(Append(stream[r], now), Books[r], now)
        BY <2>1, <2>3, PublishFacts DEF StreamInv, TypeOK
    <2>5. QED
        BY <2>1, <2>4 DEF StreamInv
<1>3. CASE UNCHANGED <<now, stream>>
    BY <1>3 DEF StreamInv
<1>4. QED
    BY <1>1, <1>2, <1>3
    DEF Next, vars, ReceiveNormal, ReceiveBest, Got, FeedStep, FeedEnter, FeedTooLate, FeedLeave,
        PublishThreshold, ReceiverCrash, ReceiverReattach, StrategyStep, StartIteration, CopyCell, CopyFollower,
        CopyLastThreshold, Evaluate, ActuaryCrash, ActuaryRestart, ActuaryRestartAnew
-----------------------------------------------------------------------------
(* The receiver: one ticker in the cell, and the newest *)

LEMMA HoldsOneLater ==
    ASSUME NEW b \in Nat, NEW a \in Nat, NEW t, NEW s, NEW str, NEW new,
           Len(str) \in Nat, Len(new) \in Nat, Extends(str, new), HoldsOne(b, a, t, s, str)
    PROVE  HoldsOne(b, a, t, s, new)
<1>1. Top(b, a) \in Nat
    BY TopFacts
<1>2. QED
    BY <1>1 DEF HoldsOne, Extends

\* Whoever takes the lock of a cell finds one ticker in it.
LEMMA FreeIsSettled ==
    ASSUME ReceiverInv, NEW s \in Sides, lock[s] = 0
    PROVE  Settled(s)
BY DEF ReceiverInv, FeedInv, KilledInv, Settled, Writing

\* A ticker that passes the comparison with a cell at rest is newer than the cell's.
LEMMA NewerIsLater ==
    ASSUME TypeOK, StreamInv, CellInv, NEW s \in Sides, Settled(s), NEW k \in 1..Len(stream[s]), IsNewer(s, k)
    PROVE  CellTop(s) < k
<1> DEFINE m == CellTop(s)
<1>1. /\ m <= Len(stream[s])
      /\ m = 0 => update_time[s] = 0
      /\ m > 0 => update_time[s] = stream[s][m]
      /\ update_id[s] = UpdateId(m)
    BY DEF CellInv, HoldsOne, CellTop
<1>2. m \in Nat /\ Len(stream[s]) \in Nat
    BY Fields, TopFacts DEF CellTop
<1> HIDE DEF m
<1>3. SUFFICES ASSUME k <= m PROVE FALSE
    BY <1>2 DEF m
<1>4. m \in 1..Len(stream[s]) /\ k \in Nat
    BY <1>1, <1>2, <1>3
<1>5. stream[s][k] <= update_time[s]
    BY <1>1, <1>3, <1>4 DEF StreamInv, StreamFits
<1>6. UpdateId(k) <= update_id[s]
    BY <1>1, <1>2, <1>3, <1>4 DEF UpdateId
<1>7. update_id[s] \in Nat /\ update_time[s] \in Nat /\ stream[s][k] \in Nat /\ UpdateId(k) \in Nat
    BY <1>4, Fields, CellFacts
<1>8. QED
    BY <1>5, <1>6, <1>7 DEF IsNewer

\* The exchange may have gone on and the actuary may have been killed with the cell's lock.
LeavesCell(s) ==
    /\ Extends(stream[s], stream'[s])
    /\ update_time'[s] = update_time[s] /\ version_number'[s] = version_number[s]
    /\ lock[s] = 1 => lock'[s] = 1
    /\ killed'[s] = "receiver" <=> killed[s] = "receiver"

\* Steps of the exchange, of the calculators and of the actuary, killed or not.
LEMMA ReceiverFrame ==
    ASSUME TypeOK, TypeOK', ReceiverInv,
           UNCHANGED <<source, attached, feed, got, bid, ask, update_id>>,
           \A s \in Sides : LeavesCell(s)
    PROVE  ReceiverInv'
<1> USE DEF LeavesCell
<1>0. \A s \in Sides : /\ Len(stream[s]) \in Nat /\ Len(stream'[s]) \in Nat /\ got[s] \in Nat
                       /\ bid[s] \in Nat /\ ask[s] \in Nat
    <2>1. \A s \in Sides : Len(stream[s]) \in Nat /\ got[s] \in Nat /\ bid[s] \in Nat /\ ask[s] \in Nat
        BY Fields
    <2>2. \A s \in Sides : stream'[s] \in Seq(1..MaxTime)
        BY DEF TypeOK
    <2>3. \A s \in Sides : Len(stream'[s]) \in Nat
        BY <2>2
    <2>4. QED
        BY <2>1, <2>3
<1>1. \A k : UpdateId(k)' = UpdateId(k)
    BY DEF UpdateId
<1>2. FeedInv'
    <2>1. FeedInv /\ \A s \in Sides : lock[s] = 1 => lock'[s] = 1
        BY DEF ReceiverInv
    <2>2. \A f \in Feeds : feed[f].side \in Sides
        BY Fields
    <2>3. \A f \in Feeds : feed[f].stage = "write" => lock'[feed[f].side] = 1
        BY <2>1, <2>2 DEF FeedInv
    <2>4. QED
        BY <2>1, <2>3 DEF FeedInv, Writing
<1>3. GotInv'
    <2> SUFFICES ASSUME NEW s \in Sides PROVE got[s] <= Len(stream'[s]) /\ (~attached => got[s] = 0)
        BY DEF GotInv
    <2>1. got[s] <= Len(stream[s]) /\ (~attached => got[s] = 0)
        BY DEF ReceiverInv, GotInv
    <2>2. Len(stream[s]) <= Len(stream'[s])
        BY DEF Extends
    <2>3. got[s] \in Nat /\ Len(stream[s]) \in Nat /\ Len(stream'[s]) \in Nat
        BY <1>0
    <2>4. QED
        BY <2>1, <2>2, <2>3
<1>4. CellInv'
    <2> SUFFICES ASSUME NEW s \in Sides
                 PROVE  /\ Settled(s)' => /\ HoldsOne(bid[s], ask[s], update_time[s], s, stream'[s])
                                          /\ update_id[s] = UpdateId(CellTop(s))
                        /\ version_number[s] > 0 => CellTop(s) > 0
        BY <1>1 DEF CellInv, CellTop
    <2>1. Settled(s)' => Settled(s)
        BY DEF Settled, Writing
    <2>2. Settled(s) => HoldsOne(bid[s], ask[s], update_time[s], s, stream'[s])
        BY <1>0, HoldsOneLater DEF ReceiverInv, CellInv
    <2>3. QED
        BY <2>1, <2>2 DEF ReceiverInv, CellInv
<1>5. \A s \in Sides : \A k \in 1..Len(stream[s]) : stream'[s][k] = stream[s][k]
    BY DEF Extends
<1>6. WriteInv'
    <2> SUFFICES ASSUME NEW f \in Feeds, NEW s \in Sides, Writing(f, s)
                 PROVE  /\ IsNewer(s, feed[f].id)'
                        /\ ask[s] < feed[f].id
                        /\ bid[s] <= feed[f].id
                        /\ "bid" \in Books[s][feed[f].id] => bid[s] = feed[f].id
        BY DEF WriteInv, Writing
    <2>1. feed[f].id \in 1..Len(stream[s])
        BY FeedTicker DEF ReceiverInv, Writing
    <2>2. IsNewer(s, feed[f].id)' <=> IsNewer(s, feed[f].id)
        <3>1. /\ update_id'[s] = update_id[s] /\ update_time'[s] = update_time[s] /\ feed'[f].id = feed[f].id
              /\ stream'[s][feed[f].id] = stream[s][feed[f].id]
            BY <1>5, <2>1
        <3>2. QED
            BY <1>1, <3>1 DEF IsNewer
    <2>3. QED
        BY <2>2 DEF ReceiverInv, WriteInv
<1>7. CoverInv'
    <2> SUFFICES ASSUME NEW s \in Sides, got[s] > 0
                 PROVE  \/ update_id[s] >= UpdateId(got[s]) /\ update_time[s] >= stream'[s][got[s]]
                        \/ \E f \in Feeds : Busy(f, s) /\ feed[f].id = got[s]
        BY <1>1 DEF CoverInv, Busy
    <2>1. stream'[s][got[s]] = stream[s][got[s]]
        <3>1. got[s] \in 1..Len(stream[s])
            BY <1>0, SMTT(20) DEF ReceiverInv, GotInv
        <3>2. QED
            BY <1>5, <3>1
    <2>2. QED
        BY <2>1 DEF ReceiverInv, CoverInv
<1>8. KilledInv'
    BY DEF ReceiverInv, KilledInv, Writing
<1>9. StoredInv'
    <2> SUFFICES ASSUME NEW s \in Sides
                 PROVE  \E k \in 0..Len(stream'[s]) : IsStored(s, k)' /\ (attached => k <= got[s])
        BY DEF StoredInv
    <2>1. PICK k \in 0..Len(stream[s]) : IsStored(s, k) /\ (attached => k <= got[s])
        BY DEF ReceiverInv, StoredInv
    <2>2. k \in 0..Len(stream'[s])
        <3>1. Len(stream[s]) <= Len(stream'[s]) /\ Len(stream[s]) \in Nat /\ Len(stream'[s]) \in Nat
            BY <1>0 DEF Extends
        <3>2. QED
            BY <3>1
    <2>3. k > 0 => stream'[s][k] = stream[s][k]
        <3>1. Len(stream[s]) \in Nat
            BY <1>0
        <3>2. k > 0 => k \in 1..Len(stream[s])
            BY <3>1
        <3>3. QED
            BY <1>5, <3>2
    <2>4. IsStored(s, k)'
        BY <1>1, <2>1, <2>3 DEF IsStored
    <2>5. QED
        BY <2>1, <2>2, <2>4
<1>10. QED
    BY <1>2, <1>3, <1>4, <1>6, <1>7, <1>8, <1>9 DEF ReceiverInv

\* A killed receiver leaves the lock of a cell that it was about to change.
LEMMA ReceiverCrashStep ==
    ASSUME TypeOK, ReceiverInv, ReceiverCrash
    PROVE  ReceiverInv'
<1>1. /\ \A f \in Feeds : feed'[f] = Idle
      /\ \A s \in Sides : got'[s] = 0
      /\ attached' = FALSE
      /\ UNCHANGED <<source, stream, bid, ask, update_id, update_time, version_number>>
    BY DEF ReceiverCrash, tickerVars
<1>2. \A s \in Sides : /\ lock'[s] = lock[s]
                       /\ killed'[s] = IF s \in BeingWritten THEN "receiver" ELSE killed[s]
    <2>1. PICK inside \in SUBSET Thresholds :
              /\ lock' = [c \in Cells |-> IF c \in inside THEN 1 ELSE lock[c]]
              /\ killed' = [c \in Cells |-> IF c \in inside \cup BeingWritten THEN "receiver" ELSE killed[c]]
        BY DEF ReceiverCrash
    <2>2. QED
        BY <2>1, CellFacts
<1>3. \A f \in Feeds : feed'[f].stage = "idle"
    BY <1>1, Zeros
<1>4. FeedInv'
    BY <1>1, <1>3 DEF FeedInv, Writing
<1>5. GotInv'
    <2>1. \A s \in Sides : Len(stream[s]) \in Nat
        BY Fields
    <2>2. QED
        BY <1>1, <2>1 DEF GotInv
<1>6. CellInv' /\ KilledInv' /\ StoredInv'
    <2>1. \A s \in Sides : \A f \in Feeds : Writing(f, s) => s \in BeingWritten
        BY DEF Writing, BeingWritten
    <2>2. \A s \in Sides : Settled(s)' => Settled(s)
        BY <1>2, <2>1 DEF Settled
    <2>3. \A s \in BeingWritten : lock[s] = 1
        BY DEF BeingWritten, ReceiverInv, FeedInv
    <2>4. KilledInv'
        BY <1>2, <1>3, <2>3 DEF ReceiverInv, KilledInv, Writing
    <2>5. \A k : UpdateId(k)' = UpdateId(k)
        BY <1>1 DEF UpdateId
    <2>6. CellInv'
        BY <1>1, <2>2, <2>5 DEF ReceiverInv, CellInv, CellTop
    <2>7. StoredInv'
        BY <1>1, <2>5 DEF ReceiverInv, StoredInv, IsStored
    <2>8. QED
        BY <2>4, <2>6, <2>7
<1>7. WriteInv' /\ CoverInv'
    BY <1>1, <1>3 DEF WriteInv, CoverInv, Writing
<1>8. QED
    BY <1>4, <1>5, <1>6, <1>7 DEF ReceiverInv

\* A receiver that comes back to its cells finds what they have; none of its threads is busy.
LEMMA ReceiverReattachStep ==
    ASSUME TypeOK, ReceiverInv, ReceiverReattach
    PROVE  ReceiverInv'
<1>1. /\ ~attached /\ attached' = TRUE
      /\ \A s \in Sides : got'[s] = Stored(s)
      /\ UNCHANGED <<source, stream, bid, ask, update_id, update_time, version_number, lock, killed, feed>>
    BY DEF ReceiverReattach, cellVars, tickerVars
<1>2. \A f \in Feeds : feed[f].stage = "idle"
    BY <1>1 DEF ReceiverInv, FeedInv
<1>3. \A k : UpdateId(k)' = UpdateId(k)
    BY <1>1 DEF UpdateId
<1>4. \A s \in Sides : Len(stream[s]) \in Nat /\ got'[s] \in 0..Len(stream[s]) /\ got'[s] \in Nat
    BY <1>1, StoredFacts, StoredIsNat
<1>5. FeedInv' /\ KilledInv' /\ GotInv' /\ WriteInv'
    BY <1>1, <1>2, <1>4 DEF ReceiverInv, FeedInv, KilledInv, GotInv, WriteInv, Writing
<1>6. CellInv'
    BY <1>1, <1>3 DEF ReceiverInv, CellInv, CellTop, Settled, Writing
<1>7. StoredInv'
    <2> SUFFICES ASSUME NEW s \in Sides
                 PROVE  \E k \in 0..Len(stream[s]) : IsStored(s, k)' /\ k <= got'[s]
        BY <1>1 DEF StoredInv
    <2>1. PICK k \in 0..Len(stream[s]) : IsStored(s, k)
        BY DEF ReceiverInv, StoredInv
    <2>2. k <= got'[s]
        BY <1>1, <1>4, <2>1, StoredFacts
    <2>3. IsStored(s, k)'
        BY <1>1, <1>3, <2>1 DEF IsStored
    <2>4. QED
        BY <2>2, <2>3
<1>8. CoverInv'
    <2> SUFFICES ASSUME NEW s \in Sides, got'[s] > 0
                 PROVE  update_id[s] >= UpdateId(got'[s]) /\ update_time[s] >= stream[s][got'[s]]
        BY <1>1, <1>3 DEF CoverInv
    <2>1. IsStored(s, got'[s])
        BY <1>1, StoredFacts
    <2>2. update_id[s] \in Nat /\ update_time[s] \in Nat
        BY Fields, CellFacts
    <2>3. QED
        BY <2>1, <2>2 DEF IsStored
<1>9. QED
    BY <1>5, <1>6, <1>7, <1>8 DEF ReceiverInv

\* The segments of a new receiver are empty.
LEMMA AnewStep ==
    ASSUME TypeOK, ReceiverInv, ActuaryRestartAnew
    PROVE  ReceiverInv'
<1>1. /\ \A s \in Sides : /\ bid'[s] = 0 /\ ask'[s] = 0 /\ update_id'[s] = 0
                          /\ update_time'[s] = 0 /\ version_number'[s] = 0 /\ killed'[s] = "none"
      /\ UNCHANGED <<source, stream, feed, got>> /\ ~attached
    BY Zeros, CellFacts DEF ActuaryRestartAnew
<1>2. \A f \in Feeds : feed[f].stage = "idle"
    BY <1>1 DEF ReceiverInv, FeedInv
<1>3. \A s \in Sides : got[s] = 0 /\ Len(stream[s]) \in Nat
    BY <1>1, Fields DEF ReceiverInv, GotInv
<1>4. \A s \in Sides : CellTop(s)' = 0
    BY <1>1 DEF CellTop, Top
<1>5. FeedInv' /\ KilledInv' /\ GotInv' /\ WriteInv' /\ CoverInv'
    BY <1>1, <1>2, <1>3 DEF ReceiverInv, FeedInv, KilledInv, GotInv, WriteInv, CoverInv, Writing
<1>6. CellInv' /\ StoredInv'
    <2>1. UpdateId(0)' = 0
        BY DEF UpdateId
    <2>2. \A s \in Sides : HoldsOne(bid'[s], ask'[s], update_time'[s], s, stream'[s])
        BY <1>1, <1>3, <1>4 DEF HoldsOne, CellTop
    <2>3. \A s \in Sides : 0 \in 0..Len(stream'[s]) /\ IsStored(s, 0)' /\ 0 <= got'[s]
        BY <1>1, <1>3, <2>1 DEF IsStored
    <2>4. CellInv'
        BY <1>1, <1>3, <1>4, <2>1, <2>2 DEF CellInv
    <2>5. StoredInv'
        BY <2>3 DEF StoredInv
    <2>6. QED
        BY <2>4, <2>5
<1>7. QED
    BY <1>5, <1>6 DEF ReceiverInv

\* A feed thread gets a ticker: it has it in hand, or the cell has one as new.
LEMMA GotStep ==
    ASSUME TypeOK, ReceiverInv, NEW f \in Feeds, NEW r \in Sides, NEW k \in 1..Len(stream[r]), Got(f, r, k)
    PROVE  ReceiverInv'
<1> DEFINE held == [stage |-> "spin", side |-> r, id |-> k]
<1>0. /\ k \in Nat /\ k >= 1 /\ k <= Len(stream[r])
      /\ \A s \in Sides : got[s] \in Nat /\ Len(stream[s]) \in Nat
    <2>1. \A s \in Sides : got[s] \in Nat /\ Len(stream[s]) \in Nat
        BY Fields
    <2>2. QED
        BY <2>1
<1>1. /\ attached /\ feed[f] = Idle
      /\ got' = [got EXCEPT ![r] = Max({got[r], k})]
      /\ feed' = IF IsNewer(r, k) THEN [feed EXCEPT ![f] = held] ELSE feed
      /\ UNCHANGED <<source, stream, bid, ask, update_id, update_time, version_number, lock, killed, attached>>
    BY DEF Got, cellVars, tickerVars
<1>2. /\ got'[r] = Top(got[r], k) /\ \A s \in Sides : s # r => got'[s] = got[s]
      /\ \A s \in Sides : got'[s] \in Nat /\ got[s] <= got'[s]
      /\ k <= got'[r] /\ (got'[r] = got[r] \/ got'[r] = k)
    <2>1. got' = [got EXCEPT ![r] = Top(got[r], k)]
        BY <1>0, <1>1, MaxIsTop
    <2>2. got'[r] = Top(got[r], k) /\ \A s \in Sides : s # r => got'[s] = got[s]
        BY <2>1 DEF TypeOK
    <2>3. Top(got[r], k) \in Nat /\ got[r] <= Top(got[r], k) /\ k <= Top(got[r], k)
          /\ (Top(got[r], k) = got[r] \/ Top(got[r], k) = k)
        BY <1>0, TopFacts
    <2>4. QED
        BY <1>0, <2>2, <2>3
<1>3. /\ held.stage = "spin" /\ held.side = r /\ held.id = k
      /\ \A g \in Feeds : feed'[g] = feed[g] \/ (g = f /\ feed'[f] = held)
      /\ IsNewer(r, k) => feed'[f] = held
      /\ \A g \in Feeds : feed[g].stage # "idle" => feed'[g] = feed[g]
    <2>1. held.stage = "spin" /\ held.side = r /\ held.id = k
        OBVIOUS
    <2> HIDE DEF held
    <2>2. \A g \in Feeds : feed'[g] = feed[g] \/ (g = f /\ feed'[f] = held)
        BY <1>1 DEF TypeOK
    <2>3. IsNewer(r, k) => feed'[f] = held
        BY <1>1 DEF TypeOK
    <2>4. QED
        BY <1>1, <2>1, <2>2, <2>3, Zeros
<1> HIDE DEF held
<1>4. \A g \in Feeds : \A s \in Sides : Writing(g, s)' <=> Writing(g, s)
    BY <1>1, <1>3, Zeros DEF Writing
<1>5. FeedInv'
    <2> SUFFICES ASSUME NEW g \in Feeds
                 PROVE  /\ feed'[g].stage = "idle" => feed'[g] = Idle
                        /\ feed'[g].stage # "idle" => attached /\ feed'[g].id \in 1..got'[feed'[g].side]
                        /\ feed'[g].stage = "write" => lock[feed'[g].side] = 1
                        /\ \A h \in Feeds : \A s \in Sides : Writing(g, s)' /\ Writing(h, s)' => g = h
        BY <1>1 DEF FeedInv
    <2>1. \A h \in Feeds : \A s \in Sides : Writing(g, s)' /\ Writing(h, s)' => g = h
        BY <1>4 DEF ReceiverInv, FeedInv
    <2>2. CASE feed'[g] = feed[g]
        <3>1. feed[g].side \in Sides /\ feed[g].id \in Nat
            BY Fields
        <3>2. feed[g].stage # "idle" => feed[g].id \in 1..got'[feed[g].side]
            <4>1. feed[g].stage # "idle" => feed[g].id \in 1..got[feed[g].side]
                BY DEF ReceiverInv, FeedInv
            <4>2. \A s \in Sides : got[s] \in Nat /\ got'[s] \in Nat /\ got[s] <= got'[s]
                BY <1>0, <1>2, Fields
            <4>3. \A n, a, b \in Nat : n \in 1..a /\ a <= b => n \in 1..b
                OBVIOUS
            <4>4. got[feed[g].side] \in Nat /\ got'[feed[g].side] \in Nat /\ got[feed[g].side] <= got'[feed[g].side]
                BY <3>1, <4>2, Zenon
            <4>5. QED
                BY <3>1, <4>1, <4>3, <4>4
        <3>3. QED
            BY <2>1, <2>2, <3>2 DEF ReceiverInv, FeedInv
    <2>3. CASE feed'[g] = held
        <3>1. k \in 1..got'[r]
            BY <1>0, <1>2
        <3>2. QED
            BY <1>1, <1>3, <2>1, <2>3, <3>1
    <2>4. QED
        BY <1>3, <2>2, <2>3
<1>6. GotInv'
    BY <1>0, <1>1, <1>2 DEF ReceiverInv, GotInv
<1>7. \A n : UpdateId(n)' = UpdateId(n)
    BY <1>1 DEF UpdateId
<1>8. CellInv'
    <2>1. \A s \in Sides : Settled(s)' => Settled(s)
        BY <1>1, <1>4 DEF Settled
    <2>2. \A s \in Sides : CellTop(s)' = CellTop(s) /\ CellTop(s) \in Nat
        BY <1>1, Fields, TopFacts DEF CellTop
    <2>3. QED
        BY <1>1, <1>7, <2>1, <2>2 DEF ReceiverInv, CellInv
<1>9. WriteInv'
    <2>1. \A g \in Feeds : \A s \in Sides : Writing(g, s) => feed'[g] = feed[g]
        BY <1>3 DEF Writing
    <2>2. \A s \in Sides : \A n : IsNewer(s, n)' <=> IsNewer(s, n)
        BY <1>1, <1>7 DEF IsNewer
    <2>3. QED
        BY <1>1, <1>4, <2>1, <2>2 DEF ReceiverInv, WriteInv
<1>10. CoverInv'
    <2> SUFFICES ASSUME NEW s \in Sides, got'[s] > 0
                 PROVE  \/ update_id[s] >= UpdateId(got'[s]) /\ update_time[s] >= stream[s][got'[s]]
                        \/ \E g \in Feeds : Busy(g, s)' /\ feed'[g].id = got'[s]
        BY <1>1, <1>7 DEF CoverInv
    <2>1. CASE got'[s] = got[s]
        <3>1. \A g \in Feeds : Busy(g, s) => Busy(g, s)' /\ feed'[g] = feed[g]
            BY <1>3 DEF Busy
        <3>2. QED
            BY <2>1, <3>1 DEF ReceiverInv, CoverInv
    <2>2. CASE s = r /\ got'[s] = k
        <3>1. CASE IsNewer(r, k)
            <4>1. Busy(f, r)' /\ feed'[f].id = k
                BY <1>3, <3>1 DEF Busy
            <4>2. QED
                BY <2>2, <4>1
        <3>2. CASE ~IsNewer(r, k)
            <4>1. update_id[r] \in Nat /\ update_time[r] \in Nat /\ stream[r][k] \in Nat /\ UpdateId(k) \in Nat
                BY <1>0, Fields, CellFacts
            <4>2. QED
                BY <2>2, <3>2, <4>1 DEF IsNewer
        <3>3. QED
            BY <3>1, <3>2
    <2>3. QED
        BY <1>2, <2>1, <2>2
<1>11. KilledInv'
    BY <1>1, <1>4 DEF ReceiverInv, KilledInv
<1>12. StoredInv'
    <2> SUFFICES ASSUME NEW s \in Sides
                 PROVE  \E n \in 0..Len(stream[s]) : IsStored(s, n)' /\ (attached => n <= got'[s])
        BY <1>1 DEF StoredInv
    <2>1. PICK n \in 0..Len(stream[s]) : IsStored(s, n) /\ (attached => n <= got[s])
        BY DEF ReceiverInv, StoredInv
    <2>2. attached => n <= got'[s]
        BY <1>0, <1>2, <2>1
    <2>3. IsStored(s, n)'
        BY <1>1, <1>7, <2>1 DEF IsStored
    <2>4. QED
        BY <2>2, <2>3
<1>13. QED
    BY <1>5, <1>6, <1>8, <1>9, <1>10, <1>11, <1>12 DEF ReceiverInv

\* Between the two sides of a cell: the lock keeps readers and other threads out.
LEMMA EnterStep ==
    ASSUME TypeOK, StreamInv, ReceiverInv, NEW f \in Feeds, FeedEnter(f),
           NEW r \in Sides, NEW k \in Nat, feed[f].side = r, feed[f].id = k
    PROVE  ReceiverInv'
<1> DEFINE held == [stage |-> "write", side |-> r, id |-> k]
<1>0. /\ r \in Sides /\ attached /\ k \in 1..got[r] /\ k \in 1..Len(stream[r])
      /\ feed[f].stage = "spin" /\ lock[r] = 0 /\ IsNewer(r, k)
    BY FeedTicker DEF FeedEnter, IsFree, IsStillNewer, ReceiverInv
<1>1. /\ lock' = [lock EXCEPT ![r] = 1]
      /\ bid' = IF "bid" \in Books[r][k] THEN [bid EXCEPT ![r] = k] ELSE bid
      /\ feed' = [feed EXCEPT ![f] = held]
      /\ UNCHANGED <<source, stream, ask, update_id, update_time, version_number, killed, attached, got>>
    BY DEF FeedEnter
<1>2. held.stage = "write" /\ held.side = r /\ held.id = k
    OBVIOUS
<1>3. feed[f].side = r /\ feed[f].id = k
    OBVIOUS
<1> HIDE DEF held
<1>4. /\ feed'[f] = held /\ \A g \in Feeds : g # f => feed'[g] = feed[g]
      /\ lock'[r] = 1 /\ \A s \in Sides : s # r => lock'[s] = lock[s]
    <2>1. r \in Cells /\ \A s \in Sides : s \in Cells
        BY <1>0, CellFacts
    <2>2. QED
        BY <1>1, <2>1 DEF TypeOK
<1>5. /\ \A s \in Sides : s # r => bid'[s] = bid[s]
      /\ "bid" \in Books[r][k] => bid'[r] = k
      /\ "bid" \notin Books[r][k] => bid'[r] = bid[r]
    BY <1>0, <1>1 DEF TypeOK
<1>6. /\ bid[r] \in Nat /\ ask[r] \in Nat /\ bid[r] < k /\ ask[r] < k /\ k \in Nat /\ got[r] \in Nat
      /\ bid'[r] \in Nat /\ bid[r] <= bid'[r] /\ bid'[r] <= k
    <2>1. bid[r] \in Nat /\ ask[r] \in Nat /\ got[r] \in Nat
        BY <1>0, Fields
    <2>2. Settled(r)
        BY <1>0, FreeIsSettled
    <2>3. CellTop(r) < k
        BY <1>0, <2>2, NewerIsLater DEF ReceiverInv
    <2>4. bid[r] <= CellTop(r) /\ ask[r] <= CellTop(r) /\ CellTop(r) \in Nat
        BY <2>1, TopFacts DEF CellTop
    <2>5. k \in Nat
        BY <1>0, <2>1
    <2>6. bid[r] < k /\ ask[r] < k
        BY <2>1, <2>3, <2>4, <2>5
    <2>7. QED
        BY <1>5, <2>1, <2>5, <2>6
<1>7. \A g \in Feeds : ~Writing(g, r)
    BY <1>0 DEF ReceiverInv, FeedInv, Writing
<1>8. /\ Writing(f, r)'
      /\ \A g \in Feeds : \A s \in Sides : Writing(g, s)' => (g = f /\ s = r) \/ (g # f /\ s # r /\ Writing(g, s))
      /\ \A g \in Feeds : \A s \in Sides : s # r /\ Writing(g, s) => Writing(g, s)'
    BY <1>0, <1>2, <1>3, <1>4, <1>7, ZenonT(30) DEF Writing
<1>9. FeedInv'
    <2> SUFFICES ASSUME NEW g \in Feeds
                 PROVE  /\ feed'[g].stage = "idle" => feed'[g] = Idle
                        /\ feed'[g].stage # "idle" => attached /\ feed'[g].id \in 1..got[feed'[g].side]
                        /\ feed'[g].stage = "write" => lock'[feed'[g].side] = 1
                        /\ \A h \in Feeds : \A s \in Sides : Writing(g, s)' /\ Writing(h, s)' => g = h
        BY <1>1 DEF FeedInv
    <2>1. \A h \in Feeds : \A s \in Sides : Writing(g, s)' /\ Writing(h, s)' => g = h
        BY <1>8 DEF ReceiverInv, FeedInv
    <2>2. CASE g = f
        BY <1>0, <1>2, <1>4, <2>1, <2>2
    <2>3. CASE g # f
        <3>1. feed'[g] = feed[g] /\ feed[g].side \in Sides
            BY <1>4, <2>3, Fields
        <3>2. feed[g].stage = "write" => lock'[feed[g].side] = 1
            BY <1>4, <3>1 DEF ReceiverInv, FeedInv
        <3>3. QED
            BY <2>1, <3>1, <3>2 DEF ReceiverInv, FeedInv
    <2>4. QED
        BY <2>2, <2>3
<1>10. GotInv'
    BY <1>1 DEF ReceiverInv, GotInv
<1>11. \A n : UpdateId(n)' = UpdateId(n)
    BY <1>1 DEF UpdateId
<1>12. CellInv'
    <2>1. \A s \in Sides : s # r => CellTop(s)' = CellTop(s) /\ (Settled(s)' => Settled(s))
        BY <1>1, <1>4, <1>5, <1>8 DEF CellTop, Settled
    <2>2. ~Settled(r)'
        BY <1>4, <1>8 DEF Settled
    <2>3. CellTop(r) <= CellTop(r)' /\ CellTop(r) \in Nat /\ CellTop(r)' \in Nat
        <3>1. CellTop(r)' = Top(bid'[r], ask[r]) /\ CellTop(r) = Top(bid[r], ask[r])
            BY <1>1 DEF CellTop
        <3>2. Top(bid'[r], ask[r]) \in Nat
            BY <1>6, TopFacts
        <3>3. Top(bid[r], ask[r]) <= Top(bid'[r], ask[r]) /\ Top(bid[r], ask[r]) \in Nat
            <4>1. ask[r] <= ask[r]
                BY <1>6
            <4>2. Top(bid[r], ask[r]) <= Top(bid'[r], ask[r])
                BY <1>6, <4>1, TopMonotone
            <4>3. QED
                BY <1>6, <4>2, TopFacts
        <3>4. QED
            BY <3>1, <3>2, <3>3
    <2>4. ASSUME NEW s \in Sides, s # r
          PROVE  /\ Settled(s)' => /\ HoldsOne(bid'[s], ask'[s], update_time'[s], s, stream'[s])
                                   /\ update_id'[s] = UpdateId(CellTop(s))'
                 /\ version_number'[s] > 0 => CellTop(s)' > 0
        BY <1>1, <1>5, <1>11, <2>1, <2>4 DEF ReceiverInv, CellInv
    <2>5. version_number[r] > 0 => CellTop(r)' > 0
        BY <1>0, <2>3 DEF ReceiverInv, CellInv
    <2>6. QED
        BY <1>1, <2>2, <2>3, <2>4, <2>5 DEF CellInv
<1>13. WriteInv'
    <2>0. \A s \in Sides : \A n : IsNewer(s, n)' <=> IsNewer(s, n)
        BY <1>1, <1>11 DEF IsNewer
    <2> SUFFICES ASSUME NEW g \in Feeds, NEW s \in Sides, Writing(g, s)'
                 PROVE  /\ IsNewer(s, feed'[g].id)
                        /\ ask[s] < feed'[g].id
                        /\ bid'[s] <= feed'[g].id
                        /\ "bid" \in Books[s][feed'[g].id] => bid'[s] = feed'[g].id
        BY <1>1, <2>0 DEF WriteInv
    <2>1. CASE g = f /\ s = r
        BY <1>0, <1>2, <1>4, <1>5, <1>6, <2>1
    <2>2. CASE g # f /\ s # r /\ Writing(g, s)
        BY <1>4, <1>5, <2>2, SMTT(20) DEF ReceiverInv, WriteInv
    <2>3. QED
        BY <1>8, <2>1, <2>2
<1>14. CoverInv'
    <2>1. \A g \in Feeds : \A s \in Sides : Busy(g, s) => Busy(g, s)' /\ feed'[g].id = feed[g].id
        BY <1>2, <1>3, <1>4 DEF Busy
    <2>2. QED
        BY <1>1, <1>11, <2>1 DEF ReceiverInv, CoverInv
<1>15. KilledInv'
    <2>1. killed[r] # "receiver"
        BY <1>0 DEF ReceiverInv, KilledInv
    <2>2. QED
        BY <1>1, <1>4, <1>8, <2>1 DEF ReceiverInv, KilledInv
<1>16. StoredInv'
    BY <1>1, <1>11 DEF ReceiverInv, StoredInv, IsStored
<1>17. QED
    BY <1>9, <1>10, <1>12, <1>13, <1>14, <1>15, <1>16 DEF ReceiverInv

\* The cell has a ticker as new as the one that is dropped.
LEMMA TooLateStep ==
    ASSUME TypeOK, ReceiverInv, NEW f \in Feeds, FeedTooLate(f)
    PROVE  ReceiverInv'
<1> DEFINE r == feed[f].side
           k == feed[f].id
<1>0. /\ r \in Sides /\ k \in 1..got[r] /\ k \in 1..Len(stream[r])
      /\ feed[f].stage = "spin" /\ ~IsNewer(r, k)
    BY FeedTicker DEF FeedTooLate, IsStillNewer, ReceiverInv
<1>1. /\ feed' = [feed EXCEPT ![f] = Idle]
      /\ UNCHANGED <<source, stream, bid, ask, update_id, update_time, version_number, lock, killed, attached, got>>
    BY DEF FeedTooLate, cellVars, tickerVars
<1>2. feed'[f] = Idle /\ \A g \in Feeds : g # f => feed'[g] = feed[g]
    BY <1>1 DEF TypeOK
<1>3. \A g \in Feeds : \A s \in Sides : /\ Writing(g, s)' <=> Writing(g, s)
                                        /\ Writing(g, s) => g # f
    BY <1>0, <1>2, Zeros DEF Writing
<1>4. FeedInv'
    <2> SUFFICES ASSUME NEW g \in Feeds
                 PROVE  /\ feed'[g].stage = "idle" => feed'[g] = Idle
                        /\ feed'[g].stage # "idle" => attached /\ feed'[g].id \in 1..got[feed'[g].side]
                        /\ feed'[g].stage = "write" => lock[feed'[g].side] = 1
                        /\ \A h \in Feeds : \A s \in Sides : Writing(g, s)' /\ Writing(h, s)' => g = h
        BY <1>1 DEF FeedInv
    <2>1. \A h \in Feeds : \A s \in Sides : Writing(g, s)' /\ Writing(h, s)' => g = h
        BY <1>3 DEF ReceiverInv, FeedInv
    <2>2. CASE g = f
        BY <1>2, <2>1, <2>2, Zeros
    <2>3. CASE g # f
        BY <1>2, <2>1, <2>3 DEF ReceiverInv, FeedInv
    <2>4. QED
        BY <2>2, <2>3
<1>5. \A n : UpdateId(n)' = UpdateId(n)
    BY <1>1 DEF UpdateId
<1>6. GotInv'
    BY <1>1 DEF ReceiverInv, GotInv
<1>7. CellInv'
    <2>1. \A s \in Sides : CellTop(s)' = CellTop(s) /\ (Settled(s)' => Settled(s))
        BY <1>1, <1>3 DEF CellTop, Settled
    <2>2. QED
        BY <1>1, <1>5, <2>1 DEF ReceiverInv, CellInv
<1>8. WriteInv'
    <2>1. \A s \in Sides : \A n : IsNewer(s, n)' <=> IsNewer(s, n)
        BY <1>1, <1>5 DEF IsNewer
    <2>2. QED
        BY <1>1, <1>2, <1>3, <2>1 DEF ReceiverInv, WriteInv
<1>9. CoverInv'
    <2> SUFFICES ASSUME NEW s \in Sides, got[s] > 0
                 PROVE  \/ update_id[s] >= UpdateId(got[s]) /\ update_time[s] >= stream[s][got[s]]
                        \/ \E g \in Feeds : Busy(g, s)' /\ feed'[g].id = got[s]
        BY <1>1, <1>5 DEF CoverInv
    <2>1. CASE update_id[s] >= UpdateId(got[s]) /\ update_time[s] >= stream[s][got[s]]
        BY <2>1
    <2>2. ASSUME NEW g \in Feeds, Busy(g, s), feed[g].id = got[s], g # f
          PROVE  \E h \in Feeds : Busy(h, s)' /\ feed'[h].id = got[s]
        BY <1>2, <2>2 DEF Busy
    <2>3. CASE Busy(f, s) /\ feed[f].id = got[s]
        <3>1. s = r /\ got[s] = k
            BY <2>3 DEF Busy
        <3>2. update_id[r] \in Nat /\ update_time[r] \in Nat /\ stream[r][k] \in Nat /\ UpdateId(k) \in Nat
            BY <1>0, Fields, CellFacts
        <3>3. update_id[r] >= UpdateId(k) /\ update_time[r] >= stream[r][k]
            BY <1>0, <3>2 DEF IsNewer
        <3>4. QED
            BY <3>1, <3>3
    <2>4. QED
        BY <2>1, <2>2, <2>3 DEF ReceiverInv, CoverInv
<1>10. KilledInv' /\ StoredInv'
    BY <1>1, <1>3, <1>5 DEF ReceiverInv, KilledInv, StoredInv, IsStored
<1>11. QED
    BY <1>4, <1>6, <1>7, <1>8, <1>9, <1>10 DEF ReceiverInv

\* The second side, the time and the version: the cell holds one ticker again.
LEMMA LeaveStep ==
    ASSUME TypeOK, StreamInv, ReceiverInv, NEW f \in Feeds, FeedLeave(f),
           NEW r \in Sides, NEW k \in Nat, feed[f].side = r, feed[f].id = k
    PROVE  ReceiverInv' /\ CellTop(r)' = k
<1>0. /\ r \in Sides /\ attached /\ k \in 1..got[r] /\ k \in 1..Len(stream[r])
      /\ feed[f].stage = "write"
    BY FeedTicker DEF FeedLeave, ReceiverInv
<1>1. /\ ask' = IF "ask" \in Books[r][k] THEN [ask EXCEPT ![r] = k] ELSE ask
      /\ update_id' = [update_id EXCEPT ![r] = UpdateId(k)]
      /\ update_time' = [update_time EXCEPT ![r] = stream[r][k]]
      /\ version_number' = [version_number EXCEPT ![r] = @ + 1]
      /\ lock' = [lock EXCEPT ![r] = 0]
      /\ feed' = [feed EXCEPT ![f] = Idle]
      /\ UNCHANGED <<source, stream, bid, killed, attached, got>>
    BY DEF FeedLeave, common_release_lock
<1>2. feed[f].side = r /\ feed[f].id = k
    OBVIOUS
<1>3. Writing(f, r)
    BY <1>0, <1>2 DEF Writing
<1>4. /\ IsNewer(r, k) /\ ask[r] < k /\ bid[r] <= k
      /\ "bid" \in Books[r][k] => bid[r] = k
    BY <1>0, <1>2, <1>3 DEF ReceiverInv, WriteInv
<1>5. /\ r \in Cells /\ k \in Nat /\ bid[r] \in Nat /\ ask[r] \in Nat /\ got[r] \in Nat
      /\ update_id[r] \in Nat /\ update_time[r] \in Nat /\ stream[r][k] \in Nat /\ UpdateId(k) \in Nat
    <2>1. r \in Cells /\ Len(stream[r]) \in Nat /\ bid[r] \in Nat /\ ask[r] \in Nat /\ got[r] \in Nat
        BY <1>0, Fields, CellFacts
    <2>2. k \in Nat
        BY <1>0, <2>1
    <2>3. update_id[r] \in Nat /\ update_time[r] \in Nat
        BY <1>0, <2>1, Fields
    <2>4. stream[r][k] \in Nat /\ UpdateId(k) \in Nat
        BY <1>0, <2>2, Fields
    <2>5. QED
        BY <2>1, <2>2, <2>3, <2>4
<1>6. /\ feed'[f] = Idle /\ \A g \in Feeds : g # f => feed'[g] = feed[g]
      /\ lock'[r] = 0 /\ update_id'[r] = UpdateId(k) /\ update_time'[r] = stream[r][k]
      /\ \A s \in Sides : s # r => /\ lock'[s] = lock[s] /\ ask'[s] = ask[s] /\ update_id'[s] = update_id[s]
                                   /\ update_time'[s] = update_time[s] /\ version_number'[s] = version_number[s]
    <2>1. \A s \in Sides : s \in Cells
        BY CellFacts
    <2>2. feed'[f] = Idle /\ \A g \in Feeds : g # f => feed'[g] = feed[g]
        BY <1>1 DEF TypeOK
    <2>3. lock'[r] = 0 /\ \A s \in Sides : s # r => lock'[s] = lock[s]
        BY <1>1, <1>5, <2>1 DEF TypeOK
    <2>4. update_id'[r] = UpdateId(k) /\ \A s \in Sides : s # r => update_id'[s] = update_id[s]
        BY <1>0, <1>1 DEF TypeOK
    <2>5. update_time'[r] = stream[r][k] /\ \A s \in Sides : s # r => update_time'[s] = update_time[s]
        BY <1>1, <1>5, <2>1 DEF TypeOK
    <2>6. \A s \in Sides : s # r => version_number'[s] = version_number[s]
        BY <1>1, <1>5, <2>1 DEF TypeOK
    <2>7. \A s \in Sides : s # r => ask'[s] = ask[s]
        BY <1>1 DEF TypeOK
    <2>8. QED
        BY <2>2, <2>3, <2>4, <2>5, <2>6, <2>7
<1>7. /\ "ask" \in Books[r][k] => ask'[r] = k
      /\ "ask" \notin Books[r][k] => ask'[r] = ask[r]
    BY <1>0, <1>1 DEF TypeOK
<1>8. CellTop(r)' = k /\ ask'[r] \in Nat
    <2>1. "bid" \in Books[r][k] \/ "ask" \in Books[r][k]
        <3>1. Books[r] \in Seq({{"bid", "ask"}, {"bid"}, {"ask"}})
            BY <1>0
        <3>2. Len(Books[r]) \in Nat
            BY <3>1
        <3>3. Len(stream[r]) <= Len(Books[r]) /\ Len(stream[r]) \in Nat
            BY <1>0, Fields DEF StreamInv, StreamFits
        <3>4. k \in 1..Len(Books[r])
            BY <1>0, <3>2, <3>3
        <3>5. QED
            BY <1>0, <3>4, BookFacts
    <2>2. (bid[r] = k \/ ask'[r] = k) /\ ask'[r] <= k /\ ask'[r] \in Nat
        BY <1>4, <1>5, <1>7, <2>1
    <2>3. CellTop(r)' = Top(bid[r], ask'[r])
        BY <1>1 DEF CellTop
    <2>4. QED
        BY <1>4, <1>5, <2>2, <2>3 DEF Top
<1>9. \A g \in Feeds : \A s \in Sides : Writing(g, s)' <=> (Writing(g, s) /\ g # f)
    BY <1>6, Zeros DEF Writing
<1>10. \A g \in Feeds : g # f => ~Writing(g, r)
    BY <1>0, <1>3 DEF ReceiverInv, FeedInv
<1>11. FeedInv'
    <2> SUFFICES ASSUME NEW g \in Feeds
                 PROVE  /\ feed'[g].stage = "idle" => feed'[g] = Idle
                        /\ feed'[g].stage # "idle" => attached /\ feed'[g].id \in 1..got[feed'[g].side]
                        /\ feed'[g].stage = "write" => lock'[feed'[g].side] = 1
                        /\ \A h \in Feeds : \A s \in Sides : Writing(g, s)' /\ Writing(h, s)' => g = h
        BY <1>1 DEF FeedInv
    <2>1. \A h \in Feeds : \A s \in Sides : Writing(g, s)' /\ Writing(h, s)' => g = h
        BY <1>9 DEF ReceiverInv, FeedInv
    <2>2. CASE g = f
        BY <1>6, <2>1, <2>2, Zeros
    <2>3. CASE g # f
        <3>1. feed'[g] = feed[g] /\ feed[g].side \in Sides
            BY <1>6, <2>3, Fields
        <3>2. feed[g].stage = "write" => feed[g].side # r
            BY <1>10, <2>3 DEF Writing
        <3>3. feed[g].stage = "write" => lock'[feed[g].side] = 1
            BY <1>6, <3>1, <3>2 DEF ReceiverInv, FeedInv
        <3>4. QED
            BY <2>1, <3>1, <3>3 DEF ReceiverInv, FeedInv
    <2>4. QED
        BY <2>2, <2>3
<1>12. GotInv'
    BY <1>1 DEF ReceiverInv, GotInv
<1>13. \A n : UpdateId(n)' = UpdateId(n)
    BY <1>1 DEF UpdateId
<1>14. CellInv'
    <2>1. \A s \in Sides : s # r => CellTop(s)' = CellTop(s) /\ (Settled(s)' => Settled(s))
        BY <1>1, <1>3, <1>6, <1>9 DEF CellTop, Settled, Writing
    <2>2. HoldsOne(bid'[r], ask'[r], update_time'[r], r, stream'[r])
        <3>1. Top(bid'[r], ask'[r]) = k
            BY <1>8 DEF CellTop
        <3>2. k <= Len(stream[r]) /\ k > 0
            BY <1>0, <1>5
        <3>3. QED
            BY <1>1, <1>4, <1>6, <1>7, <3>1, <3>2 DEF HoldsOne
    <2>3. k > 0
        BY <1>0, <1>5
    <2>4. ASSUME NEW s \in Sides, s # r
          PROVE  /\ Settled(s)' => /\ HoldsOne(bid'[s], ask'[s], update_time'[s], s, stream'[s])
                                   /\ update_id'[s] = UpdateId(CellTop(s))'
                 /\ version_number'[s] > 0 => CellTop(s)' > 0
        BY <1>1, <1>6, <1>13, <2>1, <2>4 DEF ReceiverInv, CellInv
    <2>5. QED
        BY <1>1, <1>6, <1>8, <1>13, <2>2, <2>3, <2>4 DEF CellInv
<1>15. WriteInv'
    <2> SUFFICES ASSUME NEW g \in Feeds, NEW s \in Sides, Writing(g, s)'
                 PROVE  /\ IsNewer(s, feed[g].id)'
                        /\ ask'[s] < feed'[g].id
                        /\ bid'[s] <= feed'[g].id
                        /\ "bid" \in Books[s][feed'[g].id] => bid'[s] = feed'[g].id
        BY DEF WriteInv
    <2>1. g # f /\ s # r /\ Writing(g, s) /\ feed'[g] = feed[g]
        BY <1>6, <1>9, <1>10
    <2>2. QED
        <3>1. /\ IsNewer(s, feed[g].id) /\ ask[s] < feed[g].id /\ bid[s] <= feed[g].id
              /\ "bid" \in Books[s][feed[g].id] => bid[s] = feed[g].id
            BY <2>1 DEF ReceiverInv, WriteInv
        <3>2. IsNewer(s, feed[g].id)'
            BY <1>1, <1>6, <1>13, <2>1, <3>1 DEF IsNewer
        <3>3. QED
            BY <1>1, <1>6, <2>1, <3>1, <3>2
<1>16. CoverInv'
    <2> SUFFICES ASSUME NEW s \in Sides, got[s] > 0
                 PROVE  \/ update_id'[s] >= UpdateId(got[s]) /\ update_time'[s] >= stream[s][got[s]]
                        \/ \E g \in Feeds : Busy(g, s)' /\ feed'[g].id = got[s]
        BY <1>1, <1>13 DEF CoverInv
    <2>1. CASE update_id[s] >= UpdateId(got[s]) /\ update_time[s] >= stream[s][got[s]]
        <3>1. CASE s # r
            BY <1>6, <2>1, <3>1
        <3>2. CASE s = r
            <4>1. got[r] \in 1..Len(stream[r]) /\ k <= got[r]
                <5>1. Len(stream[r]) \in Nat /\ got[r] <= Len(stream[r])
                    BY <1>0, Fields DEF ReceiverInv, GotInv
                <5>2. QED
                    BY <1>0, <1>5, <5>1
            <4>2. stream[r][k] <= stream[r][got[r]]
                BY <1>0, <4>1 DEF StreamInv, StreamFits
            <4>3. UpdateId(k) <= UpdateId(got[r]) /\ UpdateId(got[r]) \in Nat /\ stream[r][got[r]] \in Nat
                <5>1. stream[r][got[r]] \in Nat /\ UpdateId(got[r]) \in Nat
                    BY <1>5, <4>1, Fields
                <5>2. UpdateId(k) <= UpdateId(got[r])
                    BY <1>5, <4>1 DEF UpdateId
                <5>3. QED
                    BY <5>1, <5>2
            <4>4. ~IsNewer(r, k)
                BY <1>5, <2>1, <3>2, <4>2, <4>3, SMTT(20) DEF IsNewer
            <4>5. QED
                BY <1>4, <4>4
        <3>3. QED
            BY <3>1, <3>2
    <2>2. ASSUME NEW g \in Feeds, Busy(g, s), feed[g].id = got[s], g # f
          PROVE  \E h \in Feeds : Busy(h, s)' /\ feed'[h].id = got[s]
        BY <1>6, <2>2 DEF Busy
    <2>3. CASE Busy(f, s) /\ feed[f].id = got[s]
        <3>1. s = r /\ got[s] = k
            BY <1>2, <2>3 DEF Busy
        <3>2. QED
            BY <1>5, <1>6, <3>1
    <2>4. QED
        BY <2>1, <2>2, <2>3 DEF ReceiverInv, CoverInv
<1>17. KilledInv'
    BY <1>1, <1>3, <1>6, <1>9 DEF ReceiverInv, KilledInv
<1>18. StoredInv'
    <2>1. k \in 0..Len(stream[r]) /\ k <= got[r] /\ k > 0
        BY <1>0, <1>5
    <2>2. IsStored(r, k)'
        BY <1>1, <1>6, <1>13, <2>1 DEF IsStored
    <2>3. ASSUME NEW s \in Sides, s # r
          PROVE  \E n \in 0..Len(stream[s]) : IsStored(s, n)' /\ (attached => n <= got[s])
        <3>1. PICK n \in 0..Len(stream[s]) : IsStored(s, n) /\ (attached => n <= got[s])
            BY DEF ReceiverInv, StoredInv
        <3>2. IsStored(s, n)'
            BY <1>1, <1>6, <1>13, <2>3, <3>1 DEF IsStored
        <3>3. QED
            BY <3>1, <3>2
    <2>4. QED
        BY <1>1, <2>1, <2>2, <2>3 DEF StoredInv
<1>19. QED
    BY <1>2, <1>8, <1>11, <1>12, <1>14, <1>15, <1>16, <1>17, <1>18 DEF ReceiverInv

LEMMA StepReceiver == TypeOK /\ TypeOK' /\ StreamInv /\ ReceiverInv /\ [Next]_vars => ReceiverInv'
<1> SUFFICES ASSUME TypeOK, TypeOK', StreamInv, ReceiverInv, [Next]_vars PROVE ReceiverInv'
    OBVIOUS
<1> USE DEF cellVars, tickerVars, receiverVars
<1>0. \A s \in Sides : s \in Cells /\ Extends(stream[s], stream'[s])
    BY StreamGrows, CellFacts
<1>1. ASSUME UNCHANGED <<source, receiverVars, cellVars>> PROVE ReceiverInv'
    <2>1. \A s \in Sides : LeavesCell(s)
        BY <1>0, <1>1 DEF LeavesCell
    <2>2. QED
        BY <1>1, <2>1, ReceiverFrame
<1>2. ASSUME NEW f \in Feeds, ReceiveNormal(f) \/ ReceiveBest(f) PROVE ReceiverInv'
    <2>1. PICK s \in Sides : \E k \in 1..Len(stream[s]) : Got(f, s, k)
        BY <1>2, ReceiveFacts
    <2>2. PICK k \in 1..Len(stream[s]) : Got(f, s, k)
        BY <2>1
    <2>3. QED
        BY <2>2, GotStep
<1>3. ASSUME NEW f \in Feeds, FeedStep(f) PROVE ReceiverInv'
    <2>1. PICK r \in Sides, k \in Nat : feed[f].side = r /\ feed[f].id = k
        BY Fields
    <2>2. QED
        BY <1>3, <2>1, EnterStep, TooLateStep, LeaveStep DEF FeedStep
<1>4. ASSUME NEW c \in Thresholds, PublishThreshold(c) PROVE ReceiverInv'
    <2>1. PICK time_mills : StoreThreshold(c, time_mills)
        BY <1>4 DEF PublishThreshold
    <2>2. \A s \in Sides : s # c
        BY CellFacts
    <2>3. \A s \in Sides : update_time'[s] = update_time[s] /\ version_number'[s] = version_number[s]
        BY <1>0, <2>1, <2>2 DEF StoreThreshold, TypeOK
    <2>4. UNCHANGED <<source, bid, ask, update_id, lock, killed, attached, feed, got>>
        BY <1>4 DEF PublishThreshold
    <2>5. \A s \in Sides : LeavesCell(s)
        BY <1>0, <2>3, <2>4 DEF LeavesCell
    <2>6. QED
        BY <2>4, <2>5, ReceiverFrame
<1>5. CASE ActuaryCrash
    <2>1. \A s \in Sides : /\ lock[s] = 1 => lock'[s] = 1
                           /\ killed'[s] = "receiver" <=> killed[s] = "receiver"
        <3>1. CASE UNCHANGED <<lock, killed>>
            BY <3>1
        <3>2. CASE /\ pc \in Cells /\ lock[pc] = 0
                   /\ lock' = [lock EXCEPT ![pc] = 1] /\ killed' = [killed EXCEPT ![pc] = "actuary"]
            <4>1. pc \in Sides => killed[pc] # "receiver"
                BY <3>2 DEF ReceiverInv, KilledInv
            <4>2. QED
                BY <1>0, <3>2, <4>1 DEF TypeOK
        <3>3. QED
            BY <1>5, <3>1, <3>2 DEF ActuaryCrash, IsFree
    <2>2. UNCHANGED <<source, bid, ask, update_id, update_time, version_number, attached, feed, got>>
        BY <1>5 DEF ActuaryCrash
    <2>3. \A s \in Sides : LeavesCell(s)
        BY <1>0, <2>1, <2>2 DEF LeavesCell
    <2>4. QED
        BY <2>2, <2>3, ReceiverFrame
<1>6. QED
    BY <1>1, <1>2, <1>3, <1>4, <1>5, ReceiverCrashStep, ReceiverReattachStep, AnewStep
    DEF Next, vars, Tick, Publish, StrategyStep, StartIteration, CopyCell, CopyFollower,
        CopyLastThreshold, Evaluate, ActuaryRestart
-----------------------------------------------------------------------------
(* The strategy: it goes forward *)

\* Nothing was seen yet.
LEMMA ZeroSeen ==
    TypeOK /\ ReceiverInv =>
        \A s \in Sides : SeenIn(0, 0, 0, bid[s], ask[s], version_number[s], Held(s))
<1> SUFFICES ASSUME TypeOK, ReceiverInv, NEW s \in Sides
             PROVE  SeenIn(0, 0, 0, bid[s], ask[s], version_number[s], Held(s))
    OBVIOUS
<1>1. Top(0, 0) = 0
    BY DEF Top
<1>2. bid[s] \in Nat /\ ask[s] \in Nat /\ version_number[s] \in Nat
    BY Fields, CellFacts
<1>3. version_number[s] > 0 => Top(bid[s], ask[s]) > 0
    BY DEF ReceiverInv, CellInv, CellTop
<1>4. \A f \in Feeds : Writing(f, s) => feed[f].id > 0
    <2>1. \A f \in Feeds : Writing(f, s) => feed[f].id \in 1..got[s]
        BY DEF ReceiverInv, FeedInv, Writing
    <2>2. \A n \in 1..got[s] : n > 0
        BY Fields
    <2>3. QED
        BY <2>1, <2>2
<1>5. QED
    BY <1>1, <1>2, <1>3, <1>4 DEF SeenIn, Held

\* What was seen at a version was seen at any later one the cell has had.
LEMMA SeenLater ==
    ASSUME NEW b \in Nat, NEW a \in Nat, NEW v \in Nat, NEW w \in Nat, NEW cb, NEW ca, NEW cv \in Nat, NEW held,
           SeenIn(b, a, v, cb, ca, cv, held), v <= w, w <= cv
    PROVE  SeenIn(b, a, w, cb, ca, cv, held)
BY DEF SeenIn

\* The cells only go forward: what was seen in a cell stays behind it.
LEMMA CellsForward ==
    ASSUME TypeOK, TypeOK', StreamInv, ReceiverInv, [Next]_vars, ~ActuaryRestartAnew,
           NEW s \in Sides, NEW b \in Nat, NEW a \in Nat, NEW v \in Nat,
           SeenIn(b, a, v, bid[s], ask[s], version_number[s], Held(s))
    PROVE  SeenIn(b, a, v, bid'[s], ask'[s], version_number'[s], Held(s)')
<1> USE DEF cellVars, tickerVars, receiverVars
<1> DEFINE goal == SeenIn(b, a, v, bid'[s], ask'[s], version_number'[s], Held(s)')
<1>0. /\ s \in Cells /\ bid[s] \in Nat /\ ask[s] \in Nat /\ version_number[s] \in Nat
      /\ Top(b, a) \in Nat /\ CellTop(s) \in Nat /\ Top(b, a) <= CellTop(s)
    <2>1. s \in Cells /\ bid[s] \in Nat /\ ask[s] \in Nat /\ version_number[s] \in Nat
        BY Fields, CellFacts
    <2>2. Top(b, a) \in Nat /\ CellTop(s) \in Nat
        BY <2>1, TopFacts DEF CellTop
    <2>3. Top(b, a) <= CellTop(s)
        BY <2>1, TopMonotone DEF SeenIn, CellTop
    <2>4. QED
        BY <2>1, <2>2, <2>3
<1>1. ASSUME bid'[s] = bid[s], ask'[s] = ask[s], version_number'[s] = version_number[s],
             \A f \in Feeds : Writing(f, s)' => Writing(f, s) /\ feed'[f] = feed[f]
      PROVE  goal
    <2>1. Held(s)' \subseteq Held(s)
        BY <1>1 DEF Held
    <2>2. QED
        BY <1>1, <2>1 DEF SeenIn
<1>2. CASE UNCHANGED <<bid, ask, version_number, feed>>
    BY <1>1, <1>2 DEF Writing
<1>3. ASSUME NEW f \in Feeds, ReceiveNormal(f) \/ ReceiveBest(f) PROVE goal
    <2>1. PICK r \in Sides : \E k \in 1..Len(stream[r]) : Got(f, r, k)
        BY <1>3, ReceiveFacts
    <2>2. PICK k \in 1..Len(stream[r]) : Got(f, r, k)
        BY <2>1
    <2> DEFINE held == [stage |-> "spin", side |-> r, id |-> k]
    <2>3. /\ feed[f] = Idle /\ feed' = IF IsNewer(r, k) THEN [feed EXCEPT ![f] = held] ELSE feed
          /\ UNCHANGED <<bid, ask, version_number>>
        BY <2>2 DEF Got
    <2>4. held.stage = "spin"
        OBVIOUS
    <2> HIDE DEF held
    <2>5. \A g \in Feeds : feed'[g] = feed[g] \/ feed'[g] = held
        BY <2>3 DEF TypeOK
    <2>6. QED
        BY <1>1, <2>3, <2>4, <2>5 DEF Writing
<1>4. ASSUME NEW f \in Feeds, FeedEnter(f) PROVE goal
    <2>1. PICK r \in Sides, k \in Nat : feed[f].side = r /\ feed[f].id = k
        BY Fields
    <2> DEFINE held == [stage |-> "write", side |-> r, id |-> k]
    <2>2. /\ bid' = IF "bid" \in Books[r][k] THEN [bid EXCEPT ![r] = k] ELSE bid
          /\ feed' = [feed EXCEPT ![f] = held]
          /\ UNCHANGED <<ask, version_number>>
          /\ feed[f].stage = "spin" /\ lock[r] = 0 /\ IsNewer(r, k)
        BY <1>4, <2>1 DEF FeedEnter, IsFree, IsStillNewer
    <2>3. held.side = r /\ held.id = k
        OBVIOUS
    <2> HIDE DEF held
    <2>4. feed'[f] = held /\ \A g \in Feeds : g # f => feed'[g] = feed[g]
        BY <2>2 DEF TypeOK
    <2>5. CASE s # r
        <3>1. bid'[s] = bid[s]
            BY <2>2, <2>5 DEF TypeOK
        <3>2. \A g \in Feeds : Writing(g, s)' => Writing(g, s) /\ feed'[g] = feed[g]
            BY <2>3, <2>4, <2>5 DEF Writing
        <3>3. QED
            BY <1>1, <2>2, <3>1, <3>2
    <2>6. CASE s = r
        <3>1. k \in 1..Len(stream[s])
            BY <2>1, <2>2, <2>6, FeedTicker DEF ReceiverInv
        <3>2. CellTop(s) < k
            BY <2>2, <2>6, <3>1, FreeIsSettled, NewerIsLater DEF ReceiverInv
        <3>3. bid[s] <= CellTop(s)
            BY <1>0, TopFacts DEF CellTop
        <3>4. bid'[s] \in Nat /\ bid[s] <= bid'[s]
            <4>1. bid'[s] = k \/ bid'[s] = bid[s]
                BY <2>2, <2>6 DEF TypeOK
            <4>2. QED
                BY <1>0, <3>2, <3>3, <4>1, SMTT(20)
        <3>5. CellTop(s) <= Top(bid'[s], ask[s]) /\ Top(bid'[s], ask[s]) \in Nat
            <4>1. ask[s] <= ask[s]
                BY <1>0
            <4>2. QED
                BY <1>0, <3>4, <4>1, TopMonotone, TopFacts DEF CellTop
        <3>6. \A g \in Feeds : ~Writing(g, s)
            BY <2>2, <2>6 DEF ReceiverInv, FeedInv, Writing
        <3>7. \A g \in Feeds : Writing(g, s)' => feed'[g].id = k
            BY <2>3, <2>4, <3>6 DEF Writing
        <3>8. \A n \in Held(s)' : n = k
            BY <3>7 DEF Held
        <3>9. Top(b, a) < k
            BY <1>0, <3>2
        <3>10. b <= bid'[s] /\ a <= ask[s] /\ v <= version_number[s]
            BY <1>0, <3>4 DEF SeenIn
        <3>11. v < version_number[s] => Top(b, a) < Top(bid'[s], ask[s])
            BY <1>0, <3>5 DEF SeenIn, CellTop
        <3>12. QED
            BY <2>2, <3>8, <3>9, <3>10, <3>11 DEF SeenIn
    <2>7. QED
        BY <2>5, <2>6
<1>5. ASSUME NEW f \in Feeds, FeedTooLate(f) PROVE goal
    <2>1. /\ feed' = [feed EXCEPT ![f] = Idle]
          /\ UNCHANGED <<bid, ask, version_number>>
        BY <1>5 DEF FeedTooLate
    <2>2. feed'[f] = Idle /\ \A g \in Feeds : g # f => feed'[g] = feed[g]
        BY <2>1 DEF TypeOK
    <2>3. QED
        BY <1>1, <2>1, <2>2, Zeros DEF Writing
<1>6. ASSUME NEW f \in Feeds, FeedLeave(f) PROVE goal
    <2>1. PICK r \in Sides, k \in Nat : feed[f].side = r /\ feed[f].id = k
        BY Fields
    <2>2. /\ ask' = IF "ask" \in Books[r][k] THEN [ask EXCEPT ![r] = k] ELSE ask
          /\ version_number' = [version_number EXCEPT ![r] = version_number[r] + 1]
          /\ feed' = [feed EXCEPT ![f] = Idle]
          /\ UNCHANGED bid /\ feed[f].stage = "write"
        BY <1>6, <2>1 DEF FeedLeave
    <2>3. feed'[f] = Idle /\ \A g \in Feeds : g # f => feed'[g] = feed[g]
        BY <2>2 DEF TypeOK
    <2>4. \A g \in Feeds : Writing(g, s)' => g # f /\ Writing(g, s) /\ feed'[g] = feed[g]
        BY <2>3, Zeros DEF Writing
    <2>5. CASE s # r
        <3>1. ask'[s] = ask[s] /\ version_number'[s] = version_number[s]
            BY <1>0, <2>2, <2>5 DEF TypeOK
        <3>2. QED
            BY <1>1, <2>2, <2>4, <3>1
    <2>6. CASE s = r
        <3>1. Writing(f, s)
            BY <2>1, <2>2, <2>6 DEF Writing
        <3>2. k \in Held(s)
            BY <2>1, <3>1 DEF Held
        <3>3. Top(b, a) < k
            BY <3>2 DEF SeenIn
        <3>4. Top(bid'[s], ask'[s]) = k
            <4>1. CellTop(r)' = k
                BY <1>6, <2>1, LeaveStep
            <4>2. QED
                BY <2>6, <4>1 DEF CellTop
        <3>5. ask[s] < k
            BY <2>1, <3>1 DEF ReceiverInv, WriteInv
        <3>6. ask[s] <= ask'[s] /\ ask'[s] \in Nat
            <4>1. ask'[s] = k \/ ask'[s] = ask[s]
                BY <2>2, <2>6 DEF TypeOK
            <4>2. QED
                BY <1>0, <3>5, <4>1, SMTT(20)
        <3>7. version_number'[s] = version_number[s] + 1
            BY <1>0, <2>2, <2>6 DEF TypeOK
        <3>8. b <= bid'[s] /\ a <= ask'[s] /\ v <= version_number'[s]
            BY <1>0, <2>2, <3>6, <3>7, SMTT(20) DEF SeenIn
        <3>9. \A n \in Held(s)' : n \in Held(s)
            BY <2>4 DEF Held
        <3>10. QED
            BY <3>3, <3>4, <3>8, <3>9 DEF SeenIn
    <2>7. QED
        BY <2>5, <2>6
<1>7. ASSUME NEW c \in Thresholds, PublishThreshold(c) PROVE goal
    <2>1. PICK time_mills : StoreThreshold(c, time_mills)
        BY <1>7 DEF PublishThreshold
    <2>2. s # c
        BY CellFacts
    <2>3. version_number'[s] = version_number[s]
        BY <1>0, <2>1, <2>2 DEF StoreThreshold, TypeOK
    <2>4. UNCHANGED <<bid, ask, feed>>
        BY <1>7 DEF PublishThreshold
    <2>5. QED
        BY <1>1, <2>3, <2>4 DEF Writing
<1>8. CASE ReceiverCrash
    <2>1. (\A f \in Feeds : feed'[f] = Idle) /\ UNCHANGED <<bid, ask, version_number>>
        BY <1>8 DEF ReceiverCrash
    <2>2. QED
        BY <1>1, <2>1, Zeros DEF Writing
<1>9. QED
    BY <1>2, <1>3, <1>4, <1>5, <1>6, <1>7, <1>8
    DEF Next, vars, FeedStep, Tick, Publish, ReceiverReattach, StrategyStep, StartIteration, CopyCell, CopyFollower,
        CopyLastThreshold, Evaluate, ActuaryCrash, ActuaryRestart

CopyFits(s) ==
    /\ HoldsOne(copy[s].bid, copy[s].ask, copy[s].time, s, stream[s])
    /\ SeenIn(copy[s].bid, copy[s].ask, copy[s].version, bid[s], ask[s], version_number[s], Held(s))

\* A copy that is kept.
LEMMA KeptCopy ==
    ASSUME IInv, TypeOK', [Next]_vars, ~ActuaryRestartAnew, NEW s \in Sides, copy'[s] = copy[s]
    PROVE  CopyFits(s)'
<1>1. PICK b \in Nat, a \in Nat, v \in Nat : b = copy[s].bid /\ a = copy[s].ask /\ v = copy[s].version
    BY Fields, CellFacts DEF IInv
<1>2. SeenIn(b, a, v, bid'[s], ask'[s], version_number'[s], Held(s)')
    BY <1>1, CellsForward DEF IInv, CopyInv
<1>3. HoldsOne(copy[s].bid, copy[s].ask, copy[s].time, s, stream'[s])
    <2>1. Extends(stream[s], stream'[s])
        BY StreamGrows DEF IInv
    <2>2. stream[s] \in Seq(1..MaxTime) /\ stream'[s] \in Seq(1..MaxTime)
        BY DEF IInv, TypeOK
    <2>3. Len(stream[s]) \in Nat /\ Len(stream'[s]) \in Nat
        BY <2>2
    <2>4. QED
        BY <1>1, <2>1, <2>3, HoldsOneLater DEF IInv, CopyInv
<1>4. QED
    BY <1>1, <1>2, <1>3 DEF CopyFits

\* No copy.
LEMMA NoCopy ==
    ASSUME TypeOK', ReceiverInv', copy' = ZeroCopy
    PROVE  CopyInv' /\ \A s \in Sides : copy'[s].version = 0
<1>1. \A s \in Sides : /\ copy'[s].bid = 0 /\ copy'[s].ask = 0
                       /\ copy'[s].time = 0 /\ copy'[s].version = 0
    BY Zeros, CellFacts
<1>2. \A s \in Sides : SeenIn(0, 0, 0, bid'[s], ask'[s], version_number'[s], Held(s)')
    <2>1. (TypeOK /\ ReceiverInv)' =>
              (\A s \in Sides : SeenIn(0, 0, 0, bid[s], ask[s], version_number[s], Held(s)))'
        BY ZeroSeen, PTL
    <2>2. QED
        BY <2>1
<1>3. \A s \in Sides : stream'[s] \in Seq(1..MaxTime)
    BY DEF TypeOK
<1>4. \A s \in Sides : HoldsOne(0, 0, 0, s, stream'[s])
    <2>1. \A s \in Sides : Len(stream'[s]) \in Nat
        BY <1>3
    <2>2. QED
        BY <2>1 DEF HoldsOne, Top
<1>5. QED
    BY <1>1, <1>2, <1>4 DEF CopyInv

\* A copy that was just made of a free cell.
LEMMA FreshCopy ==
    ASSUME IInv, UNCHANGED <<stream, cellVars, feed>>, NEW s \in Sides, lock[s] = 0, copy' = Copied(s)
    PROVE  CopyFits(s)'
<1>1. /\ copy'[s].bid = bid[s] /\ copy'[s].ask = ask[s]
      /\ copy'[s].time = update_time[s] /\ copy'[s].version = version_number[s]
    BY CopiedFacts, CellFacts DEF IInv
<1>2. UNCHANGED <<stream, bid, ask, update_time, version_number, feed>>
    BY DEF cellVars, tickerVars
<1>3. HoldsOne(bid[s], ask[s], update_time[s], s, stream[s])
    BY FreeIsSettled DEF IInv, ReceiverInv, CellInv
<1>4. \A f \in Feeds : ~Writing(f, s)'
    BY <1>2 DEF IInv, ReceiverInv, FeedInv, Writing
<1>5. bid[s] \in Nat /\ ask[s] \in Nat /\ version_number[s] \in Nat
    BY Fields, CellFacts DEF IInv
<1>6. SeenIn(bid[s], ask[s], version_number[s], bid[s], ask[s], version_number[s], Held(s)')
    BY <1>4, <1>5 DEF SeenIn, Held
<1>7. QED
    BY <1>1, <1>2, <1>3, <1>6 DEF CopyFits

\* What was evaluated last, with a version that did not pass the cell's.
LEMMA KeptEvaluation ==
    ASSUME IInv, TypeOK', [Next]_vars, ~ActuaryRestartAnew, UNCHANGED evaluated,
           \A s \in Sides : version[s] <= version'[s] /\ version'[s] <= version_number'[s]
    PROVE  EvaluatedInv'
<1> SUFFICES ASSUME NEW s \in Sides
             PROVE  SeenIn(evaluated[s].bid, evaluated[s].ask, version'[s],
                           bid'[s], ask'[s], version_number'[s], Held(s)')
    BY DEF EvaluatedInv
<1>1. PICK b \in Nat, a \in Nat, v \in Nat : b = evaluated[s].bid /\ a = evaluated[s].ask /\ v = version[s]
    BY Fields, CellFacts DEF IInv
<1>2. SeenIn(b, a, v, bid'[s], ask'[s], version_number'[s], Held(s)')
    BY <1>1, CellsForward DEF IInv, EvaluatedInv
<1>3. version'[s] \in Nat /\ version_number'[s] \in Nat
    BY CellFacts DEF TypeOK
<1>4. v <= version'[s] /\ version'[s] <= version_number'[s]
    BY <1>1
<1>5. QED
    BY <1>1, <1>2, <1>3, <1>4, SeenLater

\* Nothing was evaluated.
LEMMA NoEvaluation ==
    ASSUME TypeOK', ReceiverInv', evaluated' = NothingEvaluated, \A s \in Sides : version'[s] = 0
    PROVE  EvaluatedInv'
<1>1. \A s \in Sides : evaluated'[s].bid = 0 /\ evaluated'[s].ask = 0
    BY Zeros
<1>2. \A s \in Sides : SeenIn(0, 0, 0, bid'[s], ask'[s], version_number'[s], Held(s)')
    <2>1. (TypeOK /\ ReceiverInv)' =>
              (\A s \in Sides : SeenIn(0, 0, 0, bid[s], ask[s], version_number[s], Held(s)))'
        BY ZeroSeen, PTL
    <2>2. QED
        BY <2>1
<1>3. QED
    BY <1>1, <1>2 DEF EvaluatedInv

StrategyInv == CopyInv /\ EvaluatedInv /\ PlaceInv

LEMMA StepStrategy == IInv /\ TypeOK' /\ ReceiverInv' /\ [Next]_vars => StrategyInv'
<1> SUFFICES ASSUME IInv, TypeOK', ReceiverInv', [Next]_vars PROVE StrategyInv'
    OBVIOUS
<1> USE DEF cellVars, tickerVars, receiverVars, strategyVars
<1>0. /\ \A s \in Sides : /\ s \in Cells
                          /\ version[s] \in Nat /\ version_number[s] \in Nat /\ copy[s].version \in Nat
                          /\ evaluated[s].bid \in Nat /\ evaluated[s].ask \in Nat
                          /\ copy[s].bid \in Nat /\ copy[s].ask \in Nat
                          /\ version[s] <= version_number[s] /\ version[s] <= version[s]
                          /\ copy[s].version <= version_number[s]
      /\ \A s \in Sides : CopyFits(s)
    <2>1. \A s \in Sides : /\ s \in Cells
                           /\ version[s] \in Nat /\ version_number[s] \in Nat /\ copy[s].version \in Nat
                           /\ evaluated[s].bid \in Nat /\ evaluated[s].ask \in Nat
                           /\ copy[s].bid \in Nat /\ copy[s].ask \in Nat
        BY Fields, CellFacts DEF IInv
    <2>2. \A s \in Sides : version[s] <= version_number[s] /\ copy[s].version <= version_number[s]
        BY DEF IInv, EvaluatedInv, CopyInv, SeenIn
    <2>3. \A s \in Sides : CopyFits(s)
        BY DEF IInv, CopyInv, CopyFits
    <2>4. QED
        BY <2>1, <2>2, <2>3
<1>1. ASSUME \A s \in Sides : CopyFits(s)' PROVE CopyInv'
    BY <1>1 DEF CopyInv, CopyFits
<1>2. ASSUME ~ActuaryRestartAnew, UNCHANGED <<copy, version, evaluated>>, pc' = pc \/ pc' = "benchmark"
      PROVE  StrategyInv'
    <2>1. CopyInv'
        BY <1>1, <1>2, KeptCopy
    <2>2. EvaluatedInv'
        <3> SUFFICES ASSUME NEW s \in Sides
                     PROVE  SeenIn(evaluated[s].bid, evaluated[s].ask, version[s],
                                   bid'[s], ask'[s], version_number'[s], Held(s)')
            BY <1>2 DEF EvaluatedInv
        <3>1. PICK b \in Nat, a \in Nat, v \in Nat : b = evaluated[s].bid /\ a = evaluated[s].ask /\ v = version[s]
            BY <1>0
        <3>2. QED
            BY <1>2, <3>1, CellsForward DEF IInv, EvaluatedInv
    <2>3. "benchmark" \notin Thresholds
        BY CellFacts
    <2>4. PlaceInv'
        BY <1>2, <2>3 DEF IInv, PlaceInv, NotBefore, EvaluatedTop, CopyTop
    <2>5. QED
        BY <2>1, <2>2, <2>4 DEF StrategyInv
<1>3. ASSUME copy' = ZeroCopy, pc' \in {"loop", "down"}, EvaluatedInv' PROVE StrategyInv'
    <2>1. CopyInv' /\ \A s \in Sides : copy'[s].version = 0
        BY <1>3, NoCopy
    <2>2. \A s \in Sides : version'[s] \in Nat
        BY <1>0 DEF TypeOK
    <2>3. pc' \notin Thresholds
        BY <1>3, CellFacts
    <2>4. PlaceInv'
        BY <1>3, <2>1, <2>2, <2>3 DEF PlaceInv
    <2>5. QED
        BY <1>3, <2>1, <2>4 DEF StrategyInv
<1>4. ASSUME UNCHANGED <<cellVars, evaluated>>, ~ActuaryRestartAnew, version' = version PROVE EvaluatedInv'
    BY <1>0, <1>4, KeptEvaluation
<1>5. CASE CopyCell
    <2>1. /\ UNCHANGED <<stream, cellVars, feed, evaluated, version>>
          /\ lock[pc] = 0 /\ copy' = Copied(pc) /\ pc' = NextCell(pc)
          /\ pc \in Cells \ {"follower", Last(ThresholdCells)} /\ ~ActuaryRestartAnew
        BY <1>5 DEF CopyCell, IsFree, ActuaryRestartAnew, Restarted, Cells, Thresholds
    <2>2. EvaluatedInv'
        BY <1>4, <2>1
    <2>3. CASE pc = "benchmark"
        <3>1. /\ pc' = "follower" /\ copy'["follower"] = copy["follower"]
              /\ copy'["benchmark"].bid = bid["benchmark"] /\ copy'["benchmark"].ask = ask["benchmark"]
              /\ copy'["benchmark"].version = version_number["benchmark"]
            BY <2>1, <2>3, NextCellFacts, CopiedFacts, CellFacts DEF IInv
        <3>2. CopyFits("benchmark")'
            BY <2>1, <2>3, FreshCopy
        <3>3. CopyFits("follower")'
            BY <2>1, <3>1, KeptCopy
        <3>4. CopyInv'
            BY <1>1, <3>2, <3>3
        <3>5. /\ evaluated["benchmark"].bid <= bid["benchmark"] /\ evaluated["benchmark"].ask <= ask["benchmark"]
              /\ version["benchmark"] < version_number["benchmark"] =>
                     EvaluatedTop("benchmark") < Top(bid["benchmark"], ask["benchmark"])
            BY DEF IInv, EvaluatedInv, SeenIn, EvaluatedTop
        <3>6. "follower" \notin Thresholds
            BY CellFacts
        <3>7. PlaceInv'
            BY <2>1, <3>1, <3>5, <3>6 DEF IInv, PlaceInv, NotBefore, EvaluatedTop, CopyTop
        <3>8. QED
            BY <2>2, <3>4, <3>7 DEF StrategyInv
    <2>4. CASE pc \in Thresholds
        <3>1. pc' \in Thresholds /\ \A s \in Sides : copy'[s] = copy[s]
            BY <2>1, <2>4, NextCellFacts, CopiedFacts, CellFacts DEF IInv
        <3>2. CopyInv'
            BY <1>1, <2>1, <3>1, KeptCopy
        <3>3. \A s \in Triggers : s \in Sides
            OBVIOUS
        <3>4. "follower" \notin Thresholds
            BY CellFacts
        <3>5. PlaceInv'
            BY <2>1, <2>4, <3>1, <3>3, <3>4 DEF IInv, PlaceInv, NotBefore, EvaluatedTop, CopyTop
        <3>6. QED
            BY <2>2, <3>2, <3>5 DEF StrategyInv
    <2>5. QED
        BY <2>1, <2>3, <2>4 DEF Cells
<1>6. CASE CopyFollower
    <2> DEFINE cp == Copied("follower")
    <2>1. /\ UNCHANGED <<stream, cellVars, feed, evaluated>>
          /\ lock["follower"] = 0 /\ pc = "follower" /\ ~ActuaryRestartAnew
          /\ \/ /\ pc' = "loop" /\ copy' = ZeroCopy
                /\ version' = version \/ version' = Raised(Sides, cp)
             \/ /\ pc' = Head(ThresholdCells) /\ copy' = cp
                /\ version' = Raised(Sides, cp)
                /\ Triggered(cp)
        BY <1>6, CopyFollowerFacts DEF ActuaryRestartAnew, Restarted
    <2>2. /\ cp \in [Cells -> CopyRecord] /\ cp["benchmark"] = copy["benchmark"]
          /\ cp["follower"].bid = bid["follower"] /\ cp["follower"].ask = ask["follower"]
          /\ cp["follower"].version = version_number["follower"]
        BY CopiedFacts, CellFacts DEF IInv
    <2> HIDE DEF cp
    <2>3. \A s \in Sides : cp[s].version \in Nat /\ cp[s].version <= version_number[s]
        BY <1>0, <2>2
    <2>4. \A s \in Sides : /\ Raised(Sides, cp)[s] = Top(version[s], cp[s].version)
                           /\ version[s] <= Raised(Sides, cp)[s] /\ Raised(Sides, cp)[s] <= version_number[s]
                           /\ cp[s].version <= Raised(Sides, cp)[s]
        <3>1. \A s \in Sides : Raised(Sides, cp)[s] = Top(version[s], cp[s].version)
            <4>1. TypeOK
                BY DEF IInv
            <4> HIDE DEF Sides
            <4>2. QED
                BY <1>0, <2>2, <4>1, RaisedFacts
        <3>2. ASSUME NEW s \in Sides
              PROVE  /\ version[s] <= Top(version[s], cp[s].version)
                     /\ Top(version[s], cp[s].version) <= version_number[s]
                     /\ cp[s].version <= Top(version[s], cp[s].version)
            <4>1. /\ version[s] \in Nat /\ cp[s].version \in Nat /\ version_number[s] \in Nat
                  /\ version[s] <= version_number[s] /\ cp[s].version <= version_number[s]
                BY <1>0, <2>3
            <4>2. QED
                BY <4>1, TopFacts, ZenonT(30)
        <3>3. QED
            BY <3>1, <3>2
    <2>5. EvaluatedInv'
        BY <1>0, <2>1, <2>4, KeptEvaluation
    <2>6. CASE pc' = "loop" /\ copy' = ZeroCopy
        BY <1>3, <2>5, <2>6
    <2>7. CASE pc' = Head(ThresholdCells) /\ copy' = cp /\ version' = Raised(Sides, cp) /\ Triggered(cp)
        <3>1. CopyFits("follower")' /\ CopyFits("benchmark")'
            BY <2>1, <2>2, <2>7, FreshCopy, KeptCopy DEF cp
        <3>2. CopyInv'
            BY <1>1, <3>1
        <3>3. NotBefore("benchmark")' /\ NotBefore("follower")'
            <4>1. NotBefore("benchmark")
                BY <2>1 DEF IInv, PlaceInv
            <4>2. evaluated["follower"].bid <= bid["follower"] /\ evaluated["follower"].ask <= ask["follower"]
                BY DEF IInv, EvaluatedInv, SeenIn
            <4>3. QED
                BY <2>1, <2>2, <2>7, <4>1, <4>2 DEF NotBefore
        <3>4. \A s \in Sides : version[s] < cp[s].version => EvaluatedTop(s) < Top(cp[s].bid, cp[s].ask)
            <4>1. version["benchmark"] < copy["benchmark"].version => EvaluatedTop("benchmark") < CopyTop("benchmark")
                BY DEF IInv, PlaceInv
            <4>2. version["follower"] < version_number["follower"] =>
                      EvaluatedTop("follower") < Top(bid["follower"], ask["follower"])
                BY DEF IInv, EvaluatedInv, SeenIn, EvaluatedTop
            <4>3. QED
                BY <2>2, <4>1, <4>2 DEF CopyTop
        <3>5. \E s \in Triggers : EvaluatedTop(s)' < CopyTop(s)'
            <4>1. PICK s \in Triggers : cp[s].version > version[s]
                BY <2>7 DEF Triggered
            <4>2. EvaluatedTop(s) < Top(cp[s].bid, cp[s].ask)
                BY <1>0, <2>3, <3>4, <4>1
            <4>3. QED
                BY <2>1, <2>7, <4>2 DEF EvaluatedTop, CopyTop
        <3>6. pc' \in Thresholds /\ pc' # "follower"
            BY <2>7, CellFacts
        <3>7. \A s \in Sides : copy'[s].version <= version'[s] /\ version'[s] \in Nat /\ copy'[s].version \in Nat
            BY <1>0, <2>3, <2>4, <2>7 DEF TypeOK
        <3>8. \A s \in Sides : ~(version'[s] < copy'[s].version)
            BY <3>7
        <3>9. PlaceInv'
            BY <3>3, <3>5, <3>6, <3>7, <3>8 DEF PlaceInv
        <3>10. QED
            BY <2>5, <3>2, <3>9 DEF StrategyInv
    <2>8. QED
        BY <2>1, <2>6, <2>7
<1>7. CASE CopyLastThreshold
    <2>1. /\ UNCHANGED <<stream, cellVars, feed, evaluated>>
          /\ pc \in Thresholds /\ ~ActuaryRestartAnew
          /\ \/ /\ pc' = "loop" /\ copy' = ZeroCopy
                /\ version' = version \/ version' = Raised(Thresholds, Copied(pc))
             \/ /\ pc' = "evaluate" /\ copy' = Copied(pc)
                /\ version' = Raised(Thresholds, Copied(pc))
        BY <1>7, CopyLastFacts, CellFacts DEF ActuaryRestartAnew, Restarted
    <2>2. pc \in Cells /\ \A s \in Sides : s # pc /\ s \notin Thresholds
        BY <2>1, CellFacts
    <2>3. Copied(pc) \in [Cells -> CopyRecord] /\ \A s \in Sides : Copied(pc)[s] = copy[s]
        BY <1>0, <2>2, CopiedFacts DEF IInv
    <2>4. \A s \in Sides : Raised(Thresholds, Copied(pc))[s] = version[s]
        <3> DEFINE cp == Copied(pc)
        <3>0. TypeOK /\ cp \in [Cells -> CopyRecord]
            BY <1>0, <2>3 DEF IInv
        <3> HIDE DEF cp
        <3>1. \A c \in Cells : c \notin Thresholds => Raised(Thresholds, cp)[c] = version[c]
            BY <3>0, RaisedFacts, SMTT(20)
        <3>2. QED
            BY <2>2, <3>1 DEF Cells, cp
    <2>5. \A s \in Sides : version'[s] = version[s]
        BY <2>1, <2>4
    <2>6. EvaluatedInv'
        BY <1>0, <2>1, <2>5, KeptEvaluation
    <2>7. CASE pc' = "loop" /\ copy' = ZeroCopy
        BY <1>3, <2>6, <2>7
    <2>8. CASE pc' = "evaluate" /\ copy' = Copied(pc)
        <3>1. \A s \in Sides : copy'[s] = copy[s]
            BY <2>3, <2>8
        <3>2. CopyInv'
            BY <1>1, <2>1, <3>1, KeptCopy
        <3>3. \A s \in Triggers : s \in Sides
            OBVIOUS
        <3>4. PlaceInv'
            BY <2>1, <2>5, <2>8, <3>1, <3>3 DEF IInv, PlaceInv, NotBefore, EvaluatedTop, CopyTop
        <3>5. QED
            BY <2>6, <3>2, <3>4 DEF StrategyInv
    <2>9. QED
        BY <2>1, <2>7, <2>8
<1>8. CASE Evaluate
    <2>1. /\ evaluated' = [s \in Sides |-> [bid |-> copy[s].bid, ask |-> copy[s].ask]]
          /\ copy' = ZeroCopy /\ pc' = "loop" /\ pc = "evaluate"
          /\ UNCHANGED <<bid, ask, version_number, feed, version>>
        BY <1>8 DEF Evaluate, Again
    <2>2. \A s \in Sides : evaluated'[s].bid = copy[s].bid /\ evaluated'[s].ask = copy[s].ask
        BY <2>1
    <2>3. \A s \in Sides : copy[s].version <= version[s]
        BY <2>1 DEF IInv, PlaceInv
    <2>4. \A s \in Sides :
              SeenIn(copy[s].bid, copy[s].ask, version[s], bid[s], ask[s], version_number[s], Held(s))
        BY <1>0, <2>3, SeenLater DEF IInv, CopyInv
    <2>5. \A s \in Sides : Held(s)' = Held(s)
        BY <2>1 DEF Held, Writing
    <2>6. EvaluatedInv'
        BY <2>1, <2>2, <2>4, <2>5 DEF EvaluatedInv
    <2>7. QED
        BY <1>3, <2>1, <2>6
<1>9. CASE ActuaryCrash
    <2>1. /\ UNCHANGED <<bid, ask, version_number, feed, evaluated, version>>
          /\ copy' = ZeroCopy /\ pc' = "down" /\ ~ActuaryRestartAnew
        BY <1>9 DEF ActuaryCrash, Again, ActuaryRestartAnew, Restarted
    <2>2. EvaluatedInv'
        BY <1>0, <2>1, KeptEvaluation
    <2>3. QED
        BY <1>3, <2>1, <2>2
<1>10. CASE ActuaryRestart \/ ActuaryRestartAnew
    <2>1. /\ version' = [c \in Cells |-> 0] /\ evaluated' = NothingEvaluated
          /\ copy' = ZeroCopy /\ pc' = "loop"
        BY <1>10 DEF ActuaryRestart, ActuaryRestartAnew, Restarted, Again
    <2>2. \A s \in Sides : version'[s] = 0
        BY <1>0, <2>1
    <2>3. EvaluatedInv'
        BY <2>1, <2>2, NoEvaluation
    <2>4. QED
        BY <1>3, <2>1, <2>3
<1>11. ~ActuaryRestartAnew /\ UNCHANGED <<copy, version, evaluated>> /\ (pc' = pc \/ pc' = "benchmark") => StrategyInv'
    BY <1>2
<1>12. CASE ActuaryRestartAnew
    BY <1>10, <1>12
<1>13. CASE ~ActuaryRestartAnew
    BY <1>5, <1>6, <1>7, <1>8, <1>9, <1>10, <1>11, <1>13, ZenonT(30)
    DEF Next, vars, FeedStep, Tick, Publish, ReceiveNormal, ReceiveBest, Got, FeedEnter, FeedTooLate, FeedLeave,
        PublishThreshold, ReceiverCrash, ReceiverReattach, StrategyStep, StartIteration
<1>14. QED
    BY <1>12, <1>13
-----------------------------------------------------------------------------
(* Theorems *)

LEMMA InitIInv == Init => IInv
<1> SUFFICES ASSUME Init PROVE IInv
    OBVIOUS
<1>1. TypeOK
    <2>1. stream \in [Sides -> Seq(1..MaxTime)]
        BY DEF Init
    <2>2. attached \in BOOLEAN
        BY Zenon DEF Init
    <2>3. /\ bid \in [Sides -> Nat] /\ ask \in [Sides -> Nat] /\ update_id \in [Sides -> Nat]
          /\ update_time \in [Cells -> Nat] /\ version_number \in [Cells -> Nat] /\ lock \in [Cells -> {0, 1}]
          /\ killed \in [Cells -> Victims]
        BY Zeros DEF Init
    <2>4. feed \in [Feeds -> FeedRecord]
        <3> HIDE DEF FeedRecord
        <3>1. QED
            BY Zeros DEF Init
    <2>5. copy \in [Cells -> CopyRecord] /\ evaluated \in [Sides -> EvaluatedRecord]
        BY Zeros DEF Init
    <2>6. got \in [Sides -> Nat] /\ version \in [Cells -> Nat]
        BY DEF Init
    <2>7. /\ now \in 1..MaxTime /\ source \in Sources /\ started \in 0..MaxTime /\ restarts \in 0..MaxRestart
          /\ pc \in Cells \cup {"loop", "evaluate", "down"}
        BY DEF Init
    <2>8. QED
        BY <2>1, <2>2, <2>3, <2>4, <2>5, <2>6, <2>7 DEF TypeOK, FeedRecord, CopyRecord, EvaluatedRecord, Victims
<1>2. /\ \A s \in Sides : /\ s \in Cells /\ stream[s] = << >> /\ got[s] = 0 /\ version[s] = 0
                          /\ bid[s] = 0 /\ ask[s] = 0 /\ update_id[s] = 0
                          /\ update_time[s] = 0 /\ version_number[s] = 0 /\ killed[s] = "none"
                          /\ copy[s].bid = 0 /\ copy[s].ask = 0 /\ copy[s].time = 0 /\ copy[s].version = 0
                          /\ evaluated[s].bid = 0 /\ evaluated[s].ask = 0
      /\ \A f \in Feeds : feed[f] = Idle /\ feed[f].stage = "idle"
    BY Zeros, CellFacts DEF Init
<1>3. StreamInv
    <2>1. \A s \in Sides : Books[s] \in Seq({{"bid", "ask"}, {"bid"}, {"ask"}})
        OBVIOUS
    <2>2. \A s \in Sides : Len(Books[s]) \in Nat
        BY <2>1
    <2>3. QED
        BY <1>2, <2>2 DEF StreamInv, StreamFits
<1>4. \A s \in Sides : CellTop(s) = 0 /\ HoldsOne(0, 0, 0, s, stream[s])
    BY <1>2 DEF CellTop, HoldsOne, Top
<1>5. ReceiverInv
    <2>1. FeedInv /\ KilledInv /\ WriteInv
        BY <1>2 DEF FeedInv, KilledInv, WriteInv, Writing
    <2>2. GotInv /\ CoverInv
        BY <1>2 DEF GotInv, CoverInv
    <2>3. CellInv
        BY <1>2, <1>4 DEF CellInv, UpdateId
    <2>4. StoredInv
        <3>1. \A s \in Sides : 0 \in 0..Len(stream[s]) /\ IsStored(s, 0) /\ 0 <= got[s]
            BY <1>2 DEF IsStored, UpdateId
        <3>2. QED
            BY <3>1 DEF StoredInv
    <2>5. QED
        BY <2>1, <2>2, <2>3, <2>4 DEF ReceiverInv
<1>6. CopyInv /\ EvaluatedInv
    BY <1>1, <1>2, <1>4, <1>5, ZeroSeen DEF CopyInv, EvaluatedInv
<1>7. PlaceInv
    <2>1. "loop" \notin Thresholds
        BY CellFacts
    <2>2. QED
        BY <1>2, <2>1 DEF Init, PlaceInv
<1>8. QED
    BY <1>1, <1>3, <1>5, <1>6, <1>7 DEF IInv

\* The inductive invariant: feed threads, calculators, kills and restarts in any order leave
\* one ticker in a cell at rest, the newest in the cell or on its way, and the strategy's
\* copies and evaluations behind the cell.
THEOREM MarketShmInvariant == Spec => []IInv
<1>1. Init => IInv
    BY InitIInv
<1>2. IInv /\ [Next]_vars => IInv'
    <2> SUFFICES ASSUME IInv, [Next]_vars PROVE IInv'
        OBVIOUS
    <2>1. TypeOK'
        BY StepTypes DEF IInv, ReceiverInv
    <2>2. StreamInv'
        BY StepStream DEF IInv
    <2>3. ReceiverInv'
        BY <2>1, StepReceiver DEF IInv
    <2>4. StrategyInv'
        BY <2>1, <2>3, StepStrategy
    <2>5. QED
        BY <2>1, <2>2, <2>3, <2>4 DEF IInv, StrategyInv
<1>3. QED
    BY <1>1, <1>2, PTL DEF Spec

\* What ticker_shm_reader_get returned is one ticker of the exchange, never a mixture of two,
\* although feed threads write the cell in two steps and may be killed between them.
THEOREM MarketShmCopyIntact == Spec => []CopyIntact
<1>1. IInv => CopyIntact
    <2> SUFFICES ASSUME IInv, NEW s \in Sides, Newest(copy[s]) > 0
                 PROVE  /\ copy[s].time = stream[s][Newest(copy[s])]
                        /\ "bid" \in Books[s][Newest(copy[s])] => copy[s].bid = Newest(copy[s])
                        /\ "ask" \in Books[s][Newest(copy[s])] => copy[s].ask = Newest(copy[s])
        BY DEF CopyIntact
    <2>1. copy[s].bid \in Nat /\ copy[s].ask \in Nat
        BY Fields, CellFacts DEF IInv
    <2>2. Newest(copy[s]) = Top(copy[s].bid, copy[s].ask)
        BY <2>1, MaxIsTop DEF Newest
    <2>3. QED
        BY <2>2 DEF IInv, CopyInv, HoldsOne
<1>2. QED
    BY <1>1, MarketShmInvariant, PTL

\* Whatever order the publishers' tickers arrive in, once the feed threads are done with a
\* side its cell has the newest ticker the receiver was given or found when it came back.
THEOREM MarketShmNewestWins == Spec => []NewestWins
<1>1. IInv => NewestWins
    <2> SUFFICES ASSUME IInv, NEW s \in Sides, got[s] > 0, NoFeedAt(s)
                 PROVE  update_id[s] = UpdateId(got[s]) /\ update_time[s] = stream[s][got[s]]
        BY DEF NewestWins
    <2>1. \A f \in Feeds : ~Busy(f, s)
        <3>1. \A f \in Feeds : feed[f].stage # "idle" => feed[f] # Idle
            BY Zeros
        <3>2. QED
            BY <3>1 DEF NoFeedAt, Busy
    <2>2. update_id[s] >= UpdateId(got[s]) /\ update_time[s] >= stream[s][got[s]]
        BY <2>1 DEF IInv, ReceiverInv, CoverInv
    <2>3. attached /\ got[s] \in Nat /\ got[s] <= Len(stream[s]) /\ Len(stream[s]) \in Nat
        <3>1. got[s] \in Nat /\ Len(stream[s]) \in Nat
            BY Fields DEF IInv
        <3>2. got[s] <= Len(stream[s]) /\ (~attached => got[s] = 0)
            BY DEF IInv, ReceiverInv, GotInv
        <3>3. QED
            BY <3>1, <3>2
    <2>4. PICK m \in 0..Len(stream[s]) : IsStored(s, m) /\ (attached => m <= got[s])
        BY DEF IInv, ReceiverInv, StoredInv
    <2>5. m \in Nat /\ update_id[s] = UpdateId(m) /\ m <= got[s]
        BY <2>3, <2>4 DEF IsStored
    <2>6. (m = 0 => update_time[s] = 0) /\ (m > 0 => update_time[s] = stream[s][m])
        BY <2>4 DEF IsStored
    <2>7. got[s] \in 1..Len(stream[s])
        BY <2>3
    <2>8. stream[s][got[s]] \in Nat /\ stream[s][got[s]] >= 1
        <3>1. stream[s][got[s]] \in 1..MaxTime
            BY <2>7, Fields DEF IInv
        <3>2. QED
            BY <3>1
    <2>9. m \in 1..Len(stream[s])
        BY <2>2, <2>3, <2>5, <2>6, <2>8
    <2>10. stream[s][m] <= stream[s][got[s]] /\ stream[s][m] \in Nat
        BY <2>5, <2>7, <2>9, Fields DEF IInv, StreamInv, StreamFits
    <2>11. update_time[s] = stream[s][got[s]]
        BY <2>2, <2>6, <2>8, <2>9, <2>10
    <2>12. UpdateId(m) <= UpdateId(got[s]) /\ UpdateId(m) \in Nat /\ UpdateId(got[s]) \in Nat
        BY <2>3, <2>5 DEF UpdateId
    <2>13. QED
        BY <2>2, <2>5, <2>11, <2>12
<1>2. QED
    BY <1>1, MarketShmInvariant, PTL

\* Between two restarts an evaluation of the strategy never sees an older ticker than the
\* one before, and always a newer one of a side that triggers.
THEOREM MarketShmEvaluatedForward == Spec => EvaluatedForward
<1>1. IInv /\ [Next]_vars =>
          (Evaluate => /\ \A s \in Sides : /\ evaluated[s].bid <= evaluated'[s].bid
                                           /\ evaluated[s].ask <= evaluated'[s].ask
                       /\ \E s \in Triggers : Newest(evaluated[s]) < Newest(evaluated'[s]))
    <2> SUFFICES ASSUME IInv, Evaluate
                 PROVE  /\ \A s \in Sides : /\ evaluated[s].bid <= evaluated'[s].bid
                                            /\ evaluated[s].ask <= evaluated'[s].ask
                        /\ \E s \in Triggers : Newest(evaluated[s]) < Newest(evaluated'[s])
        OBVIOUS
    <2>1. \A s \in Sides : evaluated'[s].bid = copy[s].bid /\ evaluated'[s].ask = copy[s].ask
        BY DEF Evaluate
    <2>2. /\ \A s \in Sides : NotBefore(s)
          /\ \E s \in Triggers : EvaluatedTop(s) < CopyTop(s)
        BY DEF IInv, PlaceInv, Evaluate
    <2>3. \A s \in Sides : /\ evaluated[s].bid \in Nat /\ evaluated[s].ask \in Nat
                           /\ copy[s].bid \in Nat /\ copy[s].ask \in Nat
        BY Fields, CellFacts DEF IInv
    <2>4. \A s \in Sides : Newest(evaluated[s]) = EvaluatedTop(s) /\ Newest(evaluated'[s]) = CopyTop(s)
        BY <2>1, <2>3, MaxIsTop, ZenonT(30) DEF Newest, EvaluatedTop, CopyTop
    <2>5. QED
        BY <2>1, <2>2, <2>4 DEF NotBefore
<1>2. QED
    BY <1>1, MarketShmInvariant, PTL DEF Spec, EvaluatedForward
=============================================================================
