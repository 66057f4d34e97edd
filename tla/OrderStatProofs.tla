--------------------------- MODULE OrderStatProofs ---------------------------
(***************************************************************************)
(* Proofs about OrderStat for any checkpoints, bounds and interleaving of  *)
(* the two processes: no price is noted before its time, prices stand in   *)
(* the order of their checkpoints, an update of the order is lost only in  *)
(* a race, and a price in the row is final.                                *)
(***************************************************************************)
EXTENDS OrderStat, TLAPS

\* What the threads have in hand when they need it.
LocalsInv ==
    /\ apc => seen >= 1 /\ tb_order # NoRow
    /\ rpc = "send" => rcopy # NoRow
    /\ epc = "apply" => lcopy # NoRow
    /\ changed => pcopy # NoRow
    /\ ppc # "off" => epc = "up"
    /\ ppc = "off" => pcopy = NoRow /\ ~changed
    /\ pnow <= now

\* An update under way is not older than the order's row.
LiteFits(lite, row) == row # NoRow /\ lite.stamp >= row.stamp

QueueFits(queue, row) == \A i \in 1..Len(queue) : LiteFits(queue[i], row)

\* An entry of the order, wherever it is kept, given the order's row and the time: its
\* prices were noted in time, not in the future, and in the order of the checkpoints.
InfoFits(info, row, t) ==
    info # NoRow =>
        /\ row # NoRow
        /\ info.stamp >= row.stamp
        /\ \A c \in Checkpoints : info.price[c] # 0 => info.price[c] >= row.stamp + c
        /\ \A c \in Checkpoints : info.price[c] <= t
        /\ \A c, d \in Checkpoints : c < d /\ info.price[d] # 0 =>
               info.price[c] # 0 /\ info.price[c] <= info.price[d]

EntryInv ==
    /\ tb_order # NoRow => tb_order.stamp <= now
    /\ rcopy # NoRow => LiteFits(rcopy, tb_order)
    /\ \A p \in Producers : QueueFits(channel[p], tb_order)
    /\ InfoFits(stat, tb_order, now)
    /\ InfoFits(lcopy, tb_order, now)
    /\ InfoFits(pcopy, tb_order, now)
    /\ InfoFits(tb_pnl, tb_order, now)

\* The polling thread's copy is of the update delivered last, unless one was delivered
\* meanwhile; an entry that exists before the reload is through was delivered too early.
RaceInv ==
    /\ LostOnlyInRace
    /\ ppc = "calculate" /\ pcopy # NoRow /\ ~raced => pcopy.filled = current
    /\ epc = "down" => stat = NoRow
    /\ epc \in {"query", "apply"} /\ stat # NoRow => raced

\* The map, the polling thread's copy and the row agree, as long as nothing failed and the
\* order's hour lasts.
KeptInv ==
    /\ ~failed => /\ epc \in {"query", "up"}
                  /\ epc = "query" => tb_pnl = NoRow
    /\ ppc \in {"calculate", "save"} /\ pcopy # NoRow => stat # NoRow /\ stat.stamp = pcopy.stamp
    /\ ppc = "calculate" /\ pcopy # NoRow => stat.price = pcopy.price
    /\ ppc = "save" /\ changed /\ now <= pcopy.stamp + Hour => stat.price = pcopy.price
    /\ ppc \in {"collect", "erase", "sleep"} => pcopy = NoRow /\ ~changed
    /\ ppc = "erase" => stat # NoRow /\ now > stat.stamp + Hour
    /\ ~failed /\ tb_pnl # NoRow /\ now <= tb_pnl.stamp + Hour =>
          /\ stat # NoRow
          /\ stat.stamp = tb_pnl.stamp
          /\ \A c \in Checkpoints : tb_pnl.price[c] # 0 => stat.price[c] = tb_pnl.price[c]

IInv == TypeOK /\ LocalsInv /\ EntryInv /\ RaceInv /\ KeptInv
-----------------------------------------------------------------------------
(* What the operations on an entry do *)

USE OrderStatAssumption DEF OrderStatAssumption, actuaryVars, pollVars

LEMMA InfoFields ==
    ASSUME NEW info \in Info
    PROVE  /\ info.filled \in 1..MaxFill /\ info.average \in 1..MaxFill /\ info.stamp \in 1..MaxTime
           /\ info.price \in [Checkpoints -> 0..MaxTime]
BY DEF Info

LEMMA UpdateFacts ==
    ASSUME stat \in Info \cup {NoRow}, NEW lite \in Lite
    PROVE  /\ update_with_lite(lite) \in Info
           /\ update_with_lite(lite).filled = lite.filled
           /\ stat # NoRow => /\ update_with_lite(lite).stamp = stat.stamp
                              /\ update_with_lite(lite).price = stat.price
           /\ stat = NoRow => /\ update_with_lite(lite).stamp = lite.stamp
                              /\ update_with_lite(lite).price = Empty
<1>1. Empty \in [Checkpoints -> 0..MaxTime]
    BY DEF Empty
<1>2. lite.filled \in 1..MaxFill /\ lite.stamp \in 1..MaxTime
    BY DEF Lite
<1>3. CASE stat # NoRow
    <2>1. stat \in Info
        BY <1>3
    <2>2. update_with_lite(lite) = [stat EXCEPT !.filled = lite.filled, !.average = lite.filled]
        BY <1>3 DEF update_with_lite
    <2>3. QED
        BY <1>2, <1>3, <2>1, <2>2 DEF Info
<1>4. CASE stat = NoRow
    <2>1. update_with_lite(lite)
            = [filled |-> lite.filled, average |-> lite.filled, stamp |-> lite.stamp, price |-> Empty]
        BY <1>4 DEF update_with_lite
    <2>2. QED
        BY <1>1, <1>2, <1>4, <2>1 DEF Info
<1>5. QED
    BY <1>3, <1>4

LEMMA CalculatedFacts ==
    ASSUME now \in 1..MaxTime, NEW info \in Info
    PROVE  /\ Calculated(info) \in Info
           /\ Calculated(info).filled = info.filled
           /\ Calculated(info).stamp = info.stamp
           /\ \A c \in Checkpoints :
                 Calculated(info).price[c] = IF Due(info, c) THEN now ELSE info.price[c]
<1> DEFINE price == [c \in Checkpoints |-> IF Due(info, c) THEN now ELSE info.price[c]]
<1>1. Calculated(info) = [info EXCEPT !.price = price]
    BY DEF Calculated
<1>2. price \in [Checkpoints -> 0..MaxTime]
    BY InfoFields
<1>3. \A c \in Checkpoints : price[c] = IF Due(info, c) THEN now ELSE info.price[c]
    OBVIOUS
<1> HIDE DEF price
<1>4. QED
    BY <1>1, <1>2, <1>3 DEF Info

LEMMA UpsertedFacts ==
    ASSUME tb_pnl \in Info \cup {NoRow}, NEW info \in Info
    PROVE  /\ Upserted(info) \in Info
           /\ Upserted(info).price = info.price
           /\ tb_pnl = NoRow => Upserted(info).stamp = info.stamp
           /\ tb_pnl # NoRow => Upserted(info).stamp = tb_pnl.stamp
<1>1. CASE tb_pnl = NoRow
    BY <1>1 DEF Upserted
<1>2. CASE tb_pnl # NoRow
    <2>1. tb_pnl \in Info
        BY <1>2
    <2>2. Upserted(info) = [info EXCEPT !.average = tb_pnl.average, !.stamp = tb_pnl.stamp]
        BY <1>2 DEF Upserted
    <2>3. QED
        BY <1>2, <2>1, <2>2 DEF Info
<1>3. QED
    BY <1>1, <1>2

\* Time does not make an entry wrong.
LEMMA InfoLater ==
    ASSUME NEW info \in Info \cup {NoRow}, NEW row, NEW t \in Nat, NEW u \in Nat, t <= u,
           InfoFits(info, row, t)
    PROVE  InfoFits(info, row, u)
BY InfoFields DEF InfoFits

\* Noting the due prices keeps an entry right.
LEMMA CalculatedFits ==
    ASSUME now \in 1..MaxTime, pnow \in Nat, pnow <= now, NEW info \in Info, info # NoRow,
           NEW row, row # NoRow => row.stamp \in Nat, InfoFits(info, row, now)
    PROVE  InfoFits(Calculated(info), row, now)
<1> DEFINE new == Calculated(info)
<1>0. /\ info.stamp \in Nat
      /\ \A c \in Checkpoints : info.price[c] \in Nat /\ c \in Nat
    <2>1. info.stamp \in 1..MaxTime /\ info.price \in [Checkpoints -> 0..MaxTime]
        BY InfoFields
    <2>2. QED
        BY <2>1
<1>1. /\ new.stamp = info.stamp
      /\ \A c \in Checkpoints : new.price[c] = IF Due(info, c) THEN now ELSE info.price[c]
    BY CalculatedFacts
<1> HIDE DEF new
<1>2. row # NoRow /\ new.stamp >= row.stamp /\ row.stamp \in Nat
    BY <1>1 DEF InfoFits
<1>3. ASSUME NEW c \in Checkpoints
      PROVE  (new.price[c] # 0 => new.price[c] >= row.stamp + c) /\ new.price[c] <= now
    <2>1. CASE Due(info, c)
        <3>1. new.price[c] = now /\ pnow - info.stamp >= c
            BY <1>1, <2>1 DEF Due
        <3>2. c \in Nat /\ info.stamp \in Nat /\ info.stamp >= row.stamp
            BY <1>0, <1>1, <1>2
        <3>3. QED
            BY <1>2, <3>1, <3>2
    <2>2. CASE ~Due(info, c)
        BY <1>0, <1>1, <2>2 DEF InfoFits
    <2>3. QED
        BY <2>1, <2>2
<1>4. ASSUME NEW c \in Checkpoints, NEW d \in Checkpoints, c < d, new.price[d] # 0
      PROVE  new.price[c] # 0 /\ new.price[c] <= new.price[d]
    <2>1. CASE Due(info, d)
        <3>1. new.price[d] = now
            BY <1>1, <2>1
        <3>2. pnow - info.stamp >= d
            BY <2>1 DEF Due
        <3>5. c \in Nat /\ d \in Nat /\ info.stamp \in Nat
            BY <1>0
        <3>6. pnow - info.stamp >= c
            BY <1>4, <3>2, <3>5
        <3>3. new.price[c] # 0
            <4>1. CASE Due(info, c)
                BY <1>1, <4>1
            <4>2. CASE ~Due(info, c)
                <5>1. info.price[c] # 0
                    BY <3>6, <4>2 DEF Due
                <5>2. QED
                    BY <1>1, <4>2, <5>1
            <4>3. QED
                BY <4>1, <4>2
        <3>4. QED
            BY <1>3, <3>1, <3>3
    <2>2. CASE ~Due(info, d)
        <3>1. info.price[d] # 0 /\ new.price[d] = info.price[d]
            BY <1>1, <1>4, <2>2
        <3>2. info.price[c] # 0 /\ info.price[c] <= info.price[d]
            BY <1>4, <3>1 DEF InfoFits
        <3>3. ~Due(info, c)
            BY <3>2 DEF Due
        <3>4. QED
            BY <1>1, <3>1, <3>2, <3>3
    <2>3. QED
        BY <2>1, <2>2
<1>5. QED
    BY <1>2, <1>3, <1>4 DEF InfoFits, new
-----------------------------------------------------------------------------
\* Queues that are empty, or longer or shorter by one.
LEMMA ChannelTypes ==
    /\ [p \in Producers |-> << >>] \in [Producers -> Seq(Lite)]
    /\ "account" \in Producers /\ "replay" \in Producers
BY DEF Producers

LEMMA InitIInv == Init => IInv
<1> SUFFICES ASSUME Init PROVE IInv
    OBVIOUS
<1>0. apc \in BOOLEAN /\ ticker \in BOOLEAN /\ changed \in BOOLEAN /\ raced \in BOOLEAN /\ failed \in BOOLEAN
    BY Zenon DEF Init
<1>1. TypeOK
    BY <1>0, ChannelTypes DEF Init, TypeOK
<1>2. LocalsInv
    BY DEF Init, LocalsInv
<1>3. EntryInv
    BY ChannelTypes DEF Init, EntryInv, InfoFits, QueueFits
<1>4. RaceInv /\ KeptInv
    BY DEF Init, RaceInv, KeptInv, LostOnlyInRace
<1>5. QED
    BY <1>1, <1>2, <1>3, <1>4 DEF IInv

LEMMA StepTypes == TypeOK /\ LocalsInv /\ [Next]_vars => TypeOK' /\ LocalsInv'
<1> SUFFICES ASSUME TypeOK, LocalsInv, [Next]_vars PROVE TypeOK' /\ LocalsInv'
    OBVIOUS
<1> USE DEF TypeOK, LocalsInv
<1>1. CASE Tick
    BY <1>1 DEF Tick
<1>2. CASE SaveOrder
    <2>1. PICK n \in (seen + 1)..MaxFill :
              /\ seen' = n
              /\ tb_order' = [filled |-> n, stamp |-> IF tb_order = NoRow THEN now ELSE tb_order.stamp]
        BY <1>2 DEF SaveOrder
    <2>2. n \in 1..MaxFill /\ (tb_order # NoRow => tb_order.stamp \in 1..MaxTime)
        BY DEF Lite
    <2>3. tb_order' \in Lite
        BY <2>1, <2>2 DEF Lite
    <2>4. QED
        BY <1>2, <2>1, <2>2, <2>3 DEF SaveOrder
<1>3. CASE EnqueueLite
    <2>1. [filled |-> seen, stamp |-> now] \in Lite
        BY <1>3 DEF EnqueueLite, Lite
    <2>2. channel' \in [Producers -> Seq(Lite)]
        <3>1. \/ channel' = [channel EXCEPT !["account"] = Append(@, [filled |-> seen, stamp |-> now])]
              \/ channel' = channel
            BY <1>3 DEF EnqueueLite
        <3>2. channel["account"] \in Seq(Lite)
            BY ChannelTypes
        <3>3. Append(channel["account"], [filled |-> seen, stamp |-> now]) \in Seq(Lite)
            BY <2>1, <3>2
        <3>4. QED
            BY <3>1, <3>3
    <2>0. apc' \in BOOLEAN
        BY <1>3, Zenon DEF EnqueueLite
    <2>3. TypeOK'
        BY <1>3, <2>0, <2>2 DEF EnqueueLite
    <2>4. LocalsInv'
        BY <1>3 DEF EnqueueLite
    <2>5. QED
        BY <2>3, <2>4
<1>4. CASE ReplayRead
    BY <1>4 DEF ReplayRead
<1>5. CASE ReplayEnqueue
    <2>1. rcopy \in Lite
        BY <1>5 DEF ReplayEnqueue
    <2>2. channel' \in [Producers -> Seq(Lite)]
        BY <1>5, <2>1, ChannelTypes DEF ReplayEnqueue
    <2>3. QED
        BY <1>5, <2>2 DEF ReplayEnqueue
<1>6. CASE ActuaryRestart
    <2>0. apc' \in BOOLEAN
        BY <1>6, Zenon DEF ActuaryRestart
    <2>1. TypeOK'
        BY <1>6, <2>0, ChannelTypes DEF ActuaryRestart
    <2>2. LocalsInv'
        BY <1>6 DEF ActuaryRestart
    <2>3. QED
        BY <2>1, <2>2
<1>7. ASSUME NEW p \in Producers, Deliver(p) PROVE TypeOK' /\ LocalsInv'
    <2>1. channel[p] \in Seq(Lite) /\ channel[p] # << >>
        BY <1>7 DEF Deliver
    <2>2. Head(channel[p]) \in Lite /\ Tail(channel[p]) \in Seq(Lite)
        BY <2>1
    <2>3. channel' \in [Producers -> Seq(Lite)]
        BY <1>7, <2>2 DEF Deliver
    <2>4. stat' \in Info
        BY <1>7, <2>2, UpdateFacts DEF Deliver
    <2>5. current' \in 0..MaxFill
        BY <1>7, <2>2 DEF Deliver, Lite
    <2>6. raced' \in BOOLEAN
        BY <1>7 DEF Deliver
    <2>7. QED
        BY <1>7, <2>3, <2>4, <2>5, <2>6 DEF Deliver
<1>8. ASSUME NEW p \in Producers, Lose(p) PROVE TypeOK' /\ LocalsInv'
    <2>1. channel[p] \in Seq(Lite) /\ channel[p] # << >>
        BY <1>8 DEF Lose
    <2>2. channel' \in [Producers -> Seq(Lite)]
        BY <1>8, <2>1 DEF Lose
    <2>3. QED
        BY <1>8, <2>2 DEF Lose
<1>9. CASE TickerArrives
    BY <1>9 DEF TickerArrives
<1>10. CASE LoadQuery
    BY <1>10 DEF LoadQuery
<1>11. CASE LoadApply
    <2>1. lcopy \in Info
        BY <1>11 DEF LoadApply
    <2>2. stat' \in Info \cup {NoRow} /\ current' \in 0..MaxFill
        BY <1>11, <2>1, InfoFields DEF LoadApply
    <2>3. QED
        BY <1>11, <2>2 DEF LoadApply
<1>12. CASE EvaluatorCrash
    <2>0. ticker' \in BOOLEAN /\ changed' \in BOOLEAN /\ raced' \in BOOLEAN /\ failed' \in BOOLEAN
        BY <1>12, Zenon DEF EvaluatorCrash
    <2>1. TypeOK'
        BY <1>12, <2>0 DEF EvaluatorCrash
    <2>2. LocalsInv'
        BY <1>12 DEF EvaluatorCrash
    <2>3. QED
        BY <2>1, <2>2
<1>13. CASE EvaluatorStart
    BY <1>13 DEF EvaluatorStart
<1>14. CASE PollCopy
    <2>0. changed' \in BOOLEAN
        BY <1>14, Zenon DEF PollCopy
    <2>1. TypeOK'
        BY <1>14, <2>0 DEF PollCopy
    <2>2. LocalsInv'
        BY <1>14 DEF PollCopy
    <2>3. QED
        BY <2>1, <2>2
<1>15. CASE PollCalculate
    <2>1. CASE UNCHANGED <<pcopy, changed, stat>>
        BY <1>15, <2>1 DEF PollCalculate
    <2>2. CASE /\ pcopy \in Info /\ pcopy # NoRow
               /\ pcopy' = Calculated(pcopy) /\ changed' = TRUE
               /\ stat' \in {stat, Calculated(pcopy)}
        <3>1. Calculated(pcopy) \in Info
            BY <2>2, CalculatedFacts
        <3>2. Calculated(pcopy) # NoRow
            BY <3>1
        <3>3. QED
            BY <1>15, <2>2, <3>1, <3>2 DEF PollCalculate
    <2>3. QED
        BY <1>15, <2>1, <2>2 DEF PollCalculate
<1>16. CASE PollSave
    <2>1. tb_pnl' \in Info \cup {NoRow}
        BY <1>16, UpsertedFacts DEF PollSave
    <2>2. QED
        <3>1. failed' \in BOOLEAN /\ changed' \in BOOLEAN
            BY <1>16, Zenon DEF PollSave
        <3>2. TypeOK'
            BY <1>16, <2>1, <3>1 DEF PollSave
        <3>3. LocalsInv'
            BY <1>16, <2>1 DEF PollSave
        <3>4. QED
            BY <3>2, <3>3
<1>17. CASE PollCollect
    BY <1>17 DEF PollCollect
<1>18. CASE PollErase
    <2>0. raced' \in BOOLEAN
        BY <1>18, Zenon DEF PollErase
    <2>1. TypeOK'
        BY <1>18, <2>0 DEF PollErase
    <2>2. LocalsInv'
        BY <1>18 DEF PollErase
    <2>3. QED
        BY <2>1, <2>2
<1>19. CASE UNCHANGED vars
    BY <1>19 DEF vars
<1>20. QED
    BY <1>1, <1>2, <1>3, <1>4, <1>5, <1>6, <1>7, <1>8, <1>9, <1>10, <1>11, <1>12, <1>13, <1>14,
       <1>15, <1>16, <1>17, <1>18, <1>19 DEF Next, Poll
-----------------------------------------------------------------------------
(* Every entry fits the order's row *)

LEMMA QueueSteps ==
    ASSUME NEW queue \in Seq(Lite), NEW row, QueueFits(queue, row)
    PROVE  /\ queue # << >> => LiteFits(Head(queue), row) /\ QueueFits(Tail(queue), row)
           /\ \A lite \in Lite : LiteFits(lite, row) => QueueFits(Append(queue, lite), row)
<1>1. ASSUME queue # << >>
      PROVE  LiteFits(Head(queue), row) /\ QueueFits(Tail(queue), row)
    <2>1. /\ Len(queue) \in Nat /\ Len(queue) >= 1 /\ Head(queue) = queue[1]
          /\ Len(Tail(queue)) = Len(queue) - 1
          /\ \A i \in 1..Len(Tail(queue)) : Tail(queue)[i] = queue[i + 1]
        BY <1>1
    <2>2. QED
        BY <2>1 DEF QueueFits
<1>2. ASSUME NEW lite \in Lite, LiteFits(lite, row)
      PROVE  QueueFits(Append(queue, lite), row)
    <2>1. /\ Len(queue) \in Nat /\ Len(Append(queue, lite)) = Len(queue) + 1
          /\ Append(queue, lite)[Len(queue) + 1] = lite
          /\ \A i \in 1..Len(queue) : Append(queue, lite)[i] = queue[i]
        OBVIOUS
    <2>2. \A i \in 1..(Len(queue) + 1) : i \in 1..Len(queue) \/ i = Len(queue) + 1
        BY <2>1
    <2>3. QED
        BY <1>2, <2>1, <2>2 DEF QueueFits
<1>3. QED
    BY <1>1, <1>2

\* Delivering an update keeps the entry right.
LEMMA UpdateFits ==
    ASSUME stat \in Info \cup {NoRow}, NEW lite \in Lite, NEW row, now \in Nat,
           LiteFits(lite, row), InfoFits(stat, row, now)
    PROVE  InfoFits(update_with_lite(lite), row, now)
<1> DEFINE new == update_with_lite(lite)
<1>1. /\ stat # NoRow => new.stamp = stat.stamp /\ new.price = stat.price
      /\ stat = NoRow => new.stamp = lite.stamp /\ new.price = Empty
    BY UpdateFacts
<1> HIDE DEF new
<1>2. CASE stat # NoRow
    BY <1>1, <1>2 DEF InfoFits, new
<1>3. CASE stat = NoRow
    <2>1. row # NoRow /\ new.stamp >= row.stamp
        BY <1>1, <1>3 DEF LiteFits
    <2>2. \A c \in Checkpoints : new.price[c] = 0
        BY <1>1, <1>3 DEF Empty
    <2>3. QED
        BY <2>1, <2>2 DEF InfoFits, new
<1>4. QED
    BY <1>2, <1>3

\* Saving the copy keeps the row right.
LEMMA UpsertFits ==
    ASSUME tb_pnl \in Info \cup {NoRow}, NEW info \in Info, NEW row,
           InfoFits(info, row, now), InfoFits(tb_pnl, row, now)
    PROVE  InfoFits(Upserted(info), row, now)
<1> DEFINE new == Upserted(info)
<1>1. /\ new.price = info.price
      /\ tb_pnl = NoRow => new.stamp = info.stamp
      /\ tb_pnl # NoRow => new.stamp = tb_pnl.stamp
    BY UpsertedFacts
<1> HIDE DEF new
<1>2. info # NoRow
    OBVIOUS
<1>3. row # NoRow /\ new.stamp >= row.stamp
    BY <1>1, <1>2 DEF InfoFits
<1>4. QED
    BY <1>1, <1>2, <1>3 DEF InfoFits, new

LEMMA StepEntries == TypeOK /\ LocalsInv /\ EntryInv /\ [Next]_vars => EntryInv'
<1> SUFFICES ASSUME TypeOK, LocalsInv, EntryInv, [Next]_vars PROVE EntryInv'
    OBVIOUS
<1> DEFINE fits == /\ InfoFits(stat, tb_order, now) /\ InfoFits(lcopy, tb_order, now)
                   /\ InfoFits(pcopy, tb_order, now) /\ InfoFits(tb_pnl, tb_order, now)
<1>a. /\ fits
      /\ now \in Nat
      /\ tb_order # NoRow => tb_order.stamp \in Nat /\ tb_order.stamp <= now
      /\ rcopy # NoRow => LiteFits(rcopy, tb_order)
      /\ \A p \in Producers : channel[p] \in Seq(Lite) /\ QueueFits(channel[p], tb_order)
    <2>1. fits /\ (rcopy # NoRow => LiteFits(rcopy, tb_order))
        BY DEF EntryInv
    <2>2. now \in Nat /\ (tb_order # NoRow => tb_order.stamp \in Nat)
        BY DEF TypeOK, Lite
    <2>3. \A p \in Producers : channel[p] \in Seq(Lite)
        BY DEF TypeOK
    <2>4. QED
        BY <2>1, <2>2, <2>3 DEF EntryInv
<1>b. InfoFits(NoRow, tb_order, now)
    BY DEF InfoFits
<1>1. CASE Tick
    <2>1. now' = now + 1
        BY <1>1 DEF Tick
    <2>2. \A info \in Info \cup {NoRow} :
              InfoFits(info, tb_order, now) => InfoFits(info, tb_order, now')
        BY <1>a, <2>1, InfoLater
    <2>3. QED
        BY <1>1, <1>a, <2>1, <2>2 DEF Tick, EntryInv, TypeOK
<1>2. CASE SaveOrder
    <2>1. /\ tb_order' # NoRow
          /\ tb_order'.stamp = IF tb_order = NoRow THEN now ELSE tb_order.stamp
        <3>1. PICK n \in (seen + 1)..MaxFill :
                  tb_order' = [filled |-> n, stamp |-> IF tb_order = NoRow THEN now ELSE tb_order.stamp]
            BY <1>2 DEF SaveOrder
        <3>2. n \in 1..MaxFill /\ now \in 1..MaxTime /\ (tb_order # NoRow => tb_order.stamp \in 1..MaxTime)
            BY DEF Lite, TypeOK
        <3>3. tb_order' \in Lite
            BY <3>1, <3>2 DEF Lite
        <3>4. QED
            BY <3>1, <3>3
    <2>2. \A info : InfoFits(info, tb_order, now) => InfoFits(info, tb_order', now)
        BY <2>1 DEF InfoFits
    <2>3. \A lite : LiteFits(lite, tb_order) => LiteFits(lite, tb_order')
        BY <2>1 DEF LiteFits
    <2>4. \A queue : QueueFits(queue, tb_order) => QueueFits(queue, tb_order')
        BY <2>3 DEF QueueFits
    <2>5. QED
        BY <1>2, <1>a, <2>1, <2>2, <2>3, <2>4 DEF SaveOrder, EntryInv
<1>3. CASE EnqueueLite
    <2> DEFINE lite == [filled |-> seen, stamp |-> now]
    <2>1. lite \in Lite /\ LiteFits(lite, tb_order)
        BY <1>3, <1>a DEF EnqueueLite, LocalsInv, TypeOK, Lite, LiteFits
    <2>2. \/ channel' = [channel EXCEPT !["account"] = Append(channel["account"], lite)]
          \/ channel' = channel
        BY <1>3 DEF EnqueueLite
    <2> HIDE DEF lite
    <2>3. QueueFits(Append(channel["account"], lite), tb_order)
        BY <1>a, <2>1, QueueSteps, ChannelTypes
    <2>4. \A p \in Producers : QueueFits(channel'[p], tb_order)
        BY <1>a, <2>2, <2>3 DEF TypeOK
    <2>5. QED
        BY <1>3, <1>a, <2>4 DEF EnqueueLite, EntryInv
<1>4. CASE ReplayRead
    <2>1. rcopy' # NoRow => LiteFits(rcopy', tb_order)
        BY <1>4, <1>a DEF ReplayRead, LiteFits
    <2>2. QED
        BY <1>4, <1>a, <2>1 DEF ReplayRead, EntryInv
<1>5. CASE ReplayEnqueue
    <2>1. rcopy \in Lite /\ LiteFits(rcopy, tb_order)
        BY <1>5, <1>a DEF ReplayEnqueue, LocalsInv, TypeOK
    <2>2. channel' = [channel EXCEPT !["replay"] = Append(channel["replay"], rcopy)]
        BY <1>5 DEF ReplayEnqueue
    <2>3. QueueFits(Append(channel["replay"], rcopy), tb_order)
        BY <1>a, <2>1, QueueSteps, ChannelTypes
    <2>4. \A p \in Producers : QueueFits(channel'[p], tb_order)
        BY <1>a, <2>2, <2>3 DEF TypeOK
    <2>5. QED
        BY <1>5, <1>a, <2>4 DEF ReplayEnqueue, EntryInv
<1>6. CASE ActuaryRestart
    <2>1. \A p \in Producers : QueueFits(channel'[p], tb_order)
        BY <1>6 DEF ActuaryRestart, QueueFits
    <2>2. QED
        BY <1>6, <1>a, <2>1 DEF ActuaryRestart, EntryInv
<1>7. ASSUME NEW p \in Producers, Deliver(p) PROVE EntryInv'
    <2>1. channel[p] \in Seq(Lite) /\ channel[p] # << >> /\ QueueFits(channel[p], tb_order)
        BY <1>7, <1>a DEF Deliver
    <2>2. /\ Head(channel[p]) \in Lite /\ LiteFits(Head(channel[p]), tb_order)
          /\ QueueFits(Tail(channel[p]), tb_order)
        BY <2>1, QueueSteps
    <2>3. channel' = [channel EXCEPT ![p] = Tail(channel[p])]
        BY <1>7 DEF Deliver
    <2>4. \A q \in Producers : QueueFits(channel'[q], tb_order)
        BY <1>a, <2>2, <2>3 DEF TypeOK
    <2>5. InfoFits(stat', tb_order, now)
        BY <1>7, <1>a, <2>2, UpdateFits DEF Deliver, TypeOK
    <2>6. QED
        BY <1>7, <1>a, <2>4, <2>5 DEF Deliver, EntryInv
<1>8. ASSUME NEW p \in Producers, Lose(p) PROVE EntryInv'
    <2>1. channel[p] \in Seq(Lite) /\ channel[p] # << >> /\ QueueFits(channel[p], tb_order)
        BY <1>8, <1>a DEF Lose
    <2>2. QueueFits(Tail(channel[p]), tb_order)
        BY <2>1, QueueSteps
    <2>3. channel' = [channel EXCEPT ![p] = Tail(channel[p])]
        BY <1>8 DEF Lose
    <2>4. \A q \in Producers : QueueFits(channel'[q], tb_order)
        BY <1>a, <2>2, <2>3 DEF TypeOK
    <2>5. QED
        BY <1>8, <1>a, <2>4 DEF Lose, EntryInv
<1>9. CASE TickerArrives
    BY <1>9, <1>a DEF TickerArrives, EntryInv
<1>10. CASE LoadQuery
    BY <1>10, <1>a DEF LoadQuery, EntryInv
<1>11. CASE LoadApply
    BY <1>11, <1>a, <1>b DEF LoadApply, EntryInv
<1>12. CASE EvaluatorCrash
    BY <1>12, <1>a, <1>b DEF EvaluatorCrash, EntryInv
<1>13. CASE EvaluatorStart
    BY <1>13, <1>a DEF EvaluatorStart, EntryInv
<1>14. CASE PollCopy
    BY <1>14, <1>a DEF PollCopy, EntryInv
<1>15. CASE PollCalculate
    <2>1. CASE UNCHANGED <<pcopy, stat>>
        BY <1>15, <1>a, <2>1 DEF PollCalculate, EntryInv
    <2>2. CASE /\ pcopy # NoRow
               /\ pcopy' = Calculated(pcopy)
               /\ stat' \in {stat, Calculated(pcopy)}
        <3>1. pcopy \in Info /\ pnow \in Nat /\ pnow <= now /\ now \in 1..MaxTime
            BY <2>2 DEF TypeOK, LocalsInv
        <3>2. InfoFits(Calculated(pcopy), tb_order, now)
            BY <1>a, <2>2, <3>1, CalculatedFits
        <3>3. QED
            BY <1>15, <1>a, <2>2, <3>2 DEF PollCalculate, EntryInv
    <2>3. QED
        BY <1>15, <2>1, <2>2 DEF PollCalculate
<1>16. CASE PollSave
    <2>1. CASE tb_pnl' = tb_pnl
        BY <1>16, <1>a, <1>b, <2>1 DEF PollSave, EntryInv
    <2>2. CASE changed /\ tb_pnl' = Upserted(pcopy)
        <3>1. pcopy \in Info
            BY <2>2 DEF TypeOK, LocalsInv
        <3>2. InfoFits(Upserted(pcopy), tb_order, now)
            BY <1>a, <3>1, UpsertFits DEF TypeOK
        <3>3. QED
            BY <1>16, <1>a, <1>b, <2>2, <3>2 DEF PollSave, EntryInv
    <2>3. QED
        BY <1>16, <2>1, <2>2 DEF PollSave
<1>17. CASE PollCollect
    BY <1>17, <1>a DEF PollCollect, EntryInv
<1>18. CASE PollErase
    BY <1>18, <1>a, <1>b DEF PollErase, EntryInv
<1>19. CASE UNCHANGED vars
    BY <1>19, <1>a DEF vars, EntryInv
<1>20. QED
    BY <1>1, <1>2, <1>3, <1>4, <1>5, <1>6, <1>7, <1>8, <1>9, <1>10, <1>11, <1>12, <1>13, <1>14,
       <1>15, <1>16, <1>17, <1>18, <1>19 DEF Next, Poll
-----------------------------------------------------------------------------
(* An update is lost only in a race *)

LEMMA StepRace == TypeOK /\ LocalsInv /\ RaceInv /\ [Next]_vars => RaceInv'
<1> SUFFICES ASSUME TypeOK, LocalsInv, RaceInv, [Next]_vars PROVE RaceInv'
    OBVIOUS
<1> USE DEF RaceInv, LostOnlyInRace
<1>1. CASE Tick
    BY <1>1 DEF Tick
<1>2. CASE SaveOrder
    BY <1>2 DEF SaveOrder
<1>3. CASE EnqueueLite
    BY <1>3 DEF EnqueueLite
<1>4. CASE ReplayRead
    BY <1>4 DEF ReplayRead
<1>5. CASE ReplayEnqueue
    BY <1>5 DEF ReplayEnqueue
<1>6. CASE ActuaryRestart
    BY <1>6 DEF ActuaryRestart
<1>7. ASSUME NEW p \in Producers, Deliver(p) PROVE RaceInv'
    <2>1. channel[p] \in Seq(Lite) /\ channel[p] # << >>
        BY <1>7 DEF Deliver, TypeOK
    <2>2. Head(channel[p]) \in Lite
        BY <2>1
    <2>3. stat'.filled = current'
        BY <1>7, <2>2, UpdateFacts DEF Deliver, TypeOK
    <2>4. /\ raced' = (ppc = "calculate" \/ epc \in {"query", "apply"})
          /\ epc # "down" /\ UNCHANGED <<ppc, epc, pcopy>>
        BY <1>7 DEF Deliver
    <2>5. QED
        BY <2>3, <2>4
<1>8. ASSUME NEW p \in Producers, Lose(p) PROVE RaceInv'
    BY <1>8 DEF Lose
<1>9. CASE TickerArrives
    BY <1>9 DEF TickerArrives
<1>10. CASE LoadQuery
    BY <1>10 DEF LoadQuery, LocalsInv
<1>11. CASE LoadApply
    BY <1>11 DEF LoadApply, LocalsInv
<1>12. CASE EvaluatorCrash
    BY <1>12 DEF EvaluatorCrash
<1>13. CASE EvaluatorStart
    BY <1>13 DEF EvaluatorStart
<1>14. CASE PollCopy
    BY <1>14 DEF PollCopy
<1>15. CASE PollCalculate
    <2>1. CASE UNCHANGED <<pcopy, stat>>
        BY <1>15, <2>1 DEF PollCalculate
    <2>2. CASE pcopy # NoRow /\ stat' \in {stat, Calculated(pcopy)}
        <3>1. Calculated(pcopy).filled = pcopy.filled
            BY <2>2, CalculatedFacts DEF TypeOK
        <3>2. epc = "up"
            BY <1>15 DEF PollCalculate, LocalsInv
        <3>3. QED
            BY <1>15, <2>2, <3>1, <3>2 DEF PollCalculate
    <2>3. QED
        BY <1>15, <2>1, <2>2 DEF PollCalculate
<1>16. CASE PollSave
    BY <1>16 DEF PollSave
<1>17. CASE PollCollect
    BY <1>17 DEF PollCollect
<1>18. CASE PollErase
    BY <1>18 DEF PollErase
<1>19. CASE UNCHANGED vars
    BY <1>19 DEF vars
<1>20. QED
    BY <1>1, <1>2, <1>3, <1>4, <1>5, <1>6, <1>7, <1>8, <1>9, <1>10, <1>11, <1>12, <1>13, <1>14,
       <1>15, <1>16, <1>17, <1>18, <1>19 DEF Next, Poll
-----------------------------------------------------------------------------
(* A price in the row is final *)

LEMMA StepKept == TypeOK /\ LocalsInv /\ KeptInv /\ [Next]_vars => KeptInv'
<1> SUFFICES ASSUME TypeOK, LocalsInv, KeptInv, [Next]_vars PROVE KeptInv'
    OBVIOUS
<1> USE DEF KeptInv
<1>a. /\ now \in Nat
      /\ stat # NoRow => stat.stamp \in Nat /\ stat.stamp + Hour \in Nat
      /\ pcopy # NoRow => pcopy \in Info /\ pcopy.stamp \in Nat /\ pcopy.stamp + Hour \in Nat
      /\ tb_pnl # NoRow => tb_pnl.stamp \in Nat /\ tb_pnl.stamp + Hour \in Nat
    <2>1. Hour \in Nat
        OBVIOUS
    <2>2. \A info \in Info : info.stamp \in Nat /\ info.stamp + Hour \in Nat
        BY <2>1, InfoFields
    <2>3. QED
        BY <2>2 DEF TypeOK
<1>1. CASE Tick
    <2>1. ~failed' => ~failed
        BY <1>1 DEF Tick
    <2>2. now' = now + 1
        BY <1>1 DEF Tick
    <2>3. \A n \in Nat : now' <= n => now <= n
        BY <1>a, <2>2
    <2>4. \A n \in Nat : now > n => now' > n
        BY <1>a, <2>2
    <2>5. QED
        BY <1>1, <1>a, <2>1, <2>3, <2>4 DEF Tick, LocalsInv
<1>2. CASE SaveOrder
    BY <1>2 DEF SaveOrder
<1>3. CASE EnqueueLite
    BY <1>3 DEF EnqueueLite
<1>4. CASE ReplayRead
    BY <1>4 DEF ReplayRead
<1>5. CASE ReplayEnqueue
    BY <1>5 DEF ReplayEnqueue
<1>6. CASE ActuaryRestart
    BY <1>6 DEF ActuaryRestart
<1>7. ASSUME NEW p \in Producers, Deliver(p) PROVE KeptInv'
    <2>1. channel[p] \in Seq(Lite) /\ channel[p] # << >>
        BY <1>7 DEF Deliver, TypeOK
    <2>2. Head(channel[p]) \in Lite
        BY <2>1
    <2>3. /\ stat' # NoRow
          /\ stat # NoRow => stat'.stamp = stat.stamp /\ stat'.price = stat.price
        <3>1. stat' \in Info
            BY <1>7, <2>2, UpdateFacts DEF Deliver, TypeOK
        <3>2. QED
            BY <1>7, <2>2, <3>1, UpdateFacts DEF Deliver, TypeOK
    <2>4. UNCHANGED <<now, epc, ppc, pcopy, changed, tb_pnl, failed>>
        BY <1>7 DEF Deliver
    <2>5. QED
        BY <2>3, <2>4 DEF LocalsInv
<1>8. ASSUME NEW p \in Producers, Lose(p) PROVE KeptInv'
    BY <1>8 DEF Lose
<1>9. CASE TickerArrives
    BY <1>9 DEF TickerArrives
<1>10. CASE LoadQuery
    BY <1>10 DEF LoadQuery, LocalsInv
<1>11. CASE LoadApply
    BY <1>11 DEF LoadApply, LocalsInv
<1>12. CASE EvaluatorCrash
    BY <1>12 DEF EvaluatorCrash
<1>13. CASE EvaluatorStart
    BY <1>13 DEF EvaluatorStart, LocalsInv
<1>14. CASE PollCopy
    BY <1>14 DEF PollCopy
<1>15. CASE PollCalculate
    <2>1. CASE UNCHANGED <<pcopy, changed, stat>>
        BY <1>15, <2>1 DEF PollCalculate, LocalsInv
    <2>2. CASE /\ pcopy # NoRow
               /\ pcopy' = Calculated(pcopy)
               /\ stat' = IF IsExpired(pcopy) THEN stat ELSE Calculated(pcopy)
        <3> DEFINE new == Calculated(pcopy)
        <3>1. /\ pcopy \in Info /\ new \in Info /\ new # NoRow /\ new.stamp = pcopy.stamp
              /\ \A c \in Checkpoints : pcopy.price[c] # 0 => new.price[c] = pcopy.price[c]
            <4>1. pcopy \in Info /\ now \in 1..MaxTime
                BY <2>2 DEF TypeOK
            <4>2. new \in Info
                BY <4>1, CalculatedFacts
            <4>3. new.stamp = pcopy.stamp
                BY <4>1, CalculatedFacts
            <4>4. \A c \in Checkpoints : pcopy.price[c] # 0 => new.price[c] = pcopy.price[c]
                BY <4>1, CalculatedFacts DEF Due
            <4>5. new # NoRow
                BY <4>2
            <4>6. QED
                BY <4>1, <4>2, <4>3, <4>4, <4>5
        <3>2. pcopy' = new /\ (stat' = stat \/ stat' = new)
            BY <2>2
        <3>3. now <= pcopy.stamp + Hour => stat' = new
            BY <1>a, <2>2 DEF IsExpired
        <3> HIDE DEF new
        <3>4. /\ stat # NoRow /\ stat.stamp = pcopy.stamp /\ stat.price = pcopy.price
              /\ ppc' = "save" /\ epc = "up"
              /\ UNCHANGED <<now, epc, tb_pnl, failed>>
            BY <1>15, <2>2 DEF PollCalculate, LocalsInv
        <3>5. stat' # NoRow /\ stat'.stamp = stat.stamp
            BY <3>1, <3>2, <3>4
        <3>6. \A c \in Checkpoints : stat.price[c] # 0 => stat'.price[c] = stat.price[c]
            BY <3>1, <3>2, <3>4
        <3>7. QED
            BY <3>1, <3>2, <3>3, <3>4, <3>5, <3>6
    <2>3. QED
        BY <1>15, <2>1, <2>2 DEF PollCalculate
<1>16. CASE PollSave
    <2>0. /\ ppc = "save" /\ ppc' = "collect" /\ epc = "up" /\ pcopy' = NoRow /\ ~changed'
          /\ UNCHANGED <<now, epc, stat>>
        BY <1>16 DEF PollSave, LocalsInv
    <2>1. CASE tb_pnl' = tb_pnl /\ (failed' = failed \/ failed')
        BY <2>0, <2>1
    <2>2. CASE changed /\ tb_pnl' = Upserted(pcopy) /\ failed' = failed
        <3>1. pcopy \in Info /\ pcopy # NoRow /\ stat # NoRow /\ stat.stamp = pcopy.stamp
            BY <2>0, <2>2, <1>a DEF LocalsInv
        <3>2. /\ tb_pnl'.price = pcopy.price
              /\ tb_pnl = NoRow => tb_pnl'.stamp = pcopy.stamp
              /\ tb_pnl # NoRow => tb_pnl'.stamp = tb_pnl.stamp
            BY <2>2, <3>1, UpsertedFacts DEF TypeOK
        <3>3. ASSUME ~failed, now <= tb_pnl'.stamp + Hour
              PROVE  stat.stamp = tb_pnl'.stamp /\ stat.price = tb_pnl'.price
            <4>1. stat.stamp = tb_pnl'.stamp
                BY <3>1, <3>2, <3>3
            <4>2. QED
                BY <2>0, <2>2, <3>1, <3>2, <3>3, <4>1
        <3>4. QED
            BY <2>0, <2>2, <3>1, <3>3
    <2>3. QED
        BY <1>16, <2>1, <2>2 DEF PollSave
<1>17. CASE PollCollect
    <2>1. stat # NoRow /\ Removable(stat) => now > stat.stamp + Hour
        <3>1. \A n \in Nat : now > n + Hour + Grace => now > n + Hour
            BY <1>a
        <3>2. QED
            BY <1>a, <3>1 DEF Removable
    <2>2. /\ ppc = "collect" /\ ppc' = IF stat # NoRow /\ Removable(stat) THEN "erase" ELSE "sleep"
          /\ UNCHANGED <<now, epc, stat, pcopy, changed, tb_pnl, failed>>
        BY <1>17 DEF PollCollect
    <2>3. QED
        BY <2>1, <2>2
<1>18. CASE PollErase
    <2>1. now > stat.stamp + Hour
        BY <1>18 DEF PollErase
    <2>2. tb_pnl # NoRow /\ stat.stamp = tb_pnl.stamp => ~(now <= tb_pnl.stamp + Hour)
        BY <1>a, <2>1
    <2>3. QED
        BY <1>18, <2>2 DEF PollErase, LocalsInv
<1>19. CASE UNCHANGED vars
    BY <1>19 DEF vars
<1>20. QED
    BY <1>1, <1>2, <1>3, <1>4, <1>5, <1>6, <1>7, <1>8, <1>9, <1>10, <1>11, <1>12, <1>13, <1>14,
       <1>15, <1>16, <1>17, <1>18, <1>19 DEF Next, Poll

\* No step changes a noted price of the row.
LEMMA StepPrices ==
    ASSUME IInv, [Next]_vars, NEW c \in Noted(tb_pnl), ~failed, now <= tb_pnl.stamp + Hour
    PROVE  tb_pnl'.price[c] = tb_pnl.price[c]
<1>1. /\ c \in Checkpoints /\ tb_pnl # NoRow /\ tb_pnl.price[c] # 0
      /\ stat.stamp = tb_pnl.stamp /\ stat.price[c] = tb_pnl.price[c]
    BY DEF Noted, IInv, KeptInv
<1>2. CASE tb_pnl' = tb_pnl
    BY <1>2
<1>3. CASE ppc = "save" /\ changed /\ tb_pnl' = Upserted(pcopy)
    <2>1. pcopy # NoRow /\ stat.stamp = pcopy.stamp
        BY <1>3 DEF IInv, LocalsInv, KeptInv
    <2>2. stat.price = pcopy.price
        BY <1>1, <1>3, <2>1 DEF IInv, KeptInv
    <2>3. pcopy \in Info
        BY <2>1 DEF IInv, TypeOK
    <2>4. tb_pnl'.price = pcopy.price
        BY <1>3, <2>3, UpsertedFacts DEF IInv, TypeOK
    <2>5. QED
        BY <1>1, <2>2, <2>4
<1>4. PollSave => tb_pnl' = tb_pnl \/ (ppc = "save" /\ changed /\ tb_pnl' = Upserted(pcopy))
    BY DEF PollSave
<1>5. QED
    BY <1>2, <1>3, <1>4 DEF Next, Poll, vars, Tick, SaveOrder, EnqueueLite, ReplayRead, ReplayEnqueue,
       ActuaryRestart, Deliver, Lose, TickerArrives, LoadQuery, LoadApply, EvaluatorCrash,
       EvaluatorStart, PollCopy, PollCalculate, PollCollect, PollErase
-----------------------------------------------------------------------------
(* Theorems *)

LEMMA StepIInv == IInv /\ [Next]_vars => IInv'
BY StepTypes, StepEntries, StepRace, StepKept DEF IInv

\* The inductive invariant: whatever the two processes do and whenever they are killed,
\* every copy of the order that is in the channel, in the map, in the hands of a thread
\* or in a table fits the order's row, and the copies agree unless something failed.
THEOREM OrderStatInvariant == Spec => []IInv
<1>1. Init => IInv
    BY InitIInv
<1>2. IInv /\ [Next]_vars => IInv'
    BY StepIInv
<1>3. QED
    BY <1>1, <1>2, PTL DEF Spec

\* The state of both processes and of the two tables is well typed.
THEOREM OrderStatTypeOK == Spec => []TypeOK
<1>1. IInv => TypeOK
    BY DEF IInv
<1>2. QED
    BY <1>1, OrderStatInvariant, PTL

\* polling_calculate_order_pnl never notes the price of a checkpoint before that many
\* seconds have passed since the order's row, in the map or in tb_bnum_order_pnl.
THEOREM OrderStatNotTooEarly == Spec => []NotTooEarly
<1>1. IInv => NotTooEarly
    BY DEF IInv, EntryInv, InfoFits, NotTooEarly, Noted
<1>2. QED
    BY <1>1, OrderStatInvariant, PTL

\* A price never stands in the map or in tb_bnum_order_pnl with an earlier checkpoint
\* missing or noted later.
THEOREM OrderStatCheckpointsInOrder == Spec => []CheckpointsInOrder
<1>1. IInv => CheckpointsInOrder
    BY DEF IInv, EntryInv, InfoFits, CheckpointsInOrder, Noted
<1>2. QED
    BY <1>1, OrderStatInvariant, PTL

\* update_with_full_info loses an update of the order only when it was delivered between
\* the copy and the write-back, or before the reload was through.
THEOREM OrderStatLostOnlyInRace == Spec => []LostOnlyInRace
<1>1. IInv => LostOnlyInRace
    BY DEF IInv, RaceInv
<1>2. QED
    BY <1>1, OrderStatInvariant, PTL

\* Without a kill or a failed statement, a price in tb_bnum_order_pnl is final while the
\* order's hour lasts: the map, the copy and the row agree on every price of the row.
THEOREM OrderStatPriceKept == Spec => PriceKept
<1>1. IInv /\ [Next]_vars =>
          \A c \in Noted(tb_pnl) :
              ~failed /\ now <= tb_pnl.stamp + Hour => tb_pnl'.price[c] = tb_pnl.price[c]
    BY StepPrices
<1>2. QED
    BY <1>1, OrderStatInvariant, PTL DEF Spec, PriceKept
=============================================================================
