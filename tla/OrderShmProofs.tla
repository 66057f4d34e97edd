---------------------------- MODULE OrderShmProofs ----------------------------
(***************************************************************************)
(* Proofs about OrderShm for any set of strategy threads, any validity and *)
(* any bounds: the spin lock excludes, no torn order is placed, and no     *)
(* order is placed twice or out of order between two trader restarts.      *)
(***************************************************************************)
EXTENDS OrderShm, TLAPS

\* The cell of segment g holds the order published last, whole.
Settled(g) ==
    IF version_number[g] = 0
    THEN update_time[g] = 0
    ELSE /\ text[g] = published[g][version_number[g]]
         /\ nums[g] = published[g][version_number[g]]
         /\ update_time[g] = published[g][version_number[g]].time

\* A free lock has nobody behind it.
LockInv ==
    \A g \in Gens : lock[g] = 0 =>
        /\ ~TraderInside(g)
        /\ \A w \in Writers : ~WriterInside(w, g)

\* The version number counts the published orders.
VersionInv == \A g \in Gens : version_number[g] = Len(published[g])

\* Segments above current are untouched and nobody is attached to them.
FreshInv ==
    /\ \A w \in Writers : wgen[w] <= current
    /\ tgen <= current
    /\ \A g \in Gens : g > current =>
          published[g] = << >> /\ update_time[g] = 0 /\ version_number[g] = 0

\* Whoever can look at the cell under the lock finds it settled.
Readable(g) ==
    \/ lock[g] = 0
    \/ TraderInside(g)
    \/ \E w \in Writers : wgen[w] = g /\ wpc[w] \in {"recheck", "unlock"}

CellInv == \A g \in Gens : Readable(g) => Settled(g)

\* How far a writer in the middle of its copy has come.
CopyInv ==
    \A w \in Writers :
        /\ wpc[w] \in {"nums", "bump"} =>
              /\ text[wgen[w]] = worder[w]
              /\ version_number[wgen[w]] > 0 =>
                    published[wgen[w]][version_number[wgen[w]]].time < worder[w].time
        /\ wpc[w] = "nums" => update_time[wgen[w]] < worder[w].time
        /\ wpc[w] = "bump" =>
              /\ nums[wgen[w]] = worder[w]
              /\ update_time[wgen[w]] = worder[w].time

\* A copied order is one of the published ones, whole.
Intact(c, g) ==
    /\ c.version_number \in 0..Len(published[g])
    /\ c.version_number > 0 =>
          /\ c.text = published[g][c.version_number]
          /\ c.nums = published[g][c.version_number]
          /\ c.update_time = published[g][c.version_number].time

TraderCopyInv ==
    /\ tpc = "nums" => tcopy.text = text[tgen]
    /\ tpc \in {"unlock", "judge"} => Intact(tcopy, tgen)

\* The orders of one segment are published in the order of their time stamps.
PublishedInv ==
    \A g \in Gens : \A i, j \in 1..Len(published[g]) :
        i < j => published[g][i].time < published[g][j].time

\* What was placed is intact.
PlacedInv ==
    \A i \in 1..Len(placed) :
        /\ placed[i].order.version_number > 0
        /\ Intact(placed[i].order, placed[i].gen)
        /\ placed[i].epoch <= epoch
        /\ placed[i].epoch = epoch =>
              /\ placed[i].gen = tgen
              /\ placed[i].order.version_number <= order_version

\* In one epoch the trader reads one segment and its versions increase.
PlacedOrderInv ==
    \A i, j \in 1..Len(placed) :
        i < j /\ placed[i].epoch = placed[j].epoch =>
            /\ placed[i].gen = placed[j].gen
            /\ placed[i].order.version_number < placed[j].order.version_number

IInv == /\ TypeOK
        /\ MutualExclusion
        /\ LockInv
        /\ VersionInv
        /\ FreshInv
        /\ CellInv
        /\ CopyInv
        /\ TraderCopyInv
        /\ PublishedInv
        /\ PlacedInv
        /\ PlacedOrderInv
USE OrderShmAssumption DEF OrderShmAssumption, Gens, Content, WriterPC, cellVars, writerVars, traderVars

LEMMA InitTypeOK == Init => TypeOK
BY DEF Init, TypeOK, ZeroCopy, Copy

LEMMA StepTypeOK == TypeOK /\ [Next]_vars => TypeOK'
<1> SUFFICES ASSUME TypeOK, [Next]_vars PROVE TypeOK'
    OBVIOUS
<1> USE DEF TypeOK
<1>1. CASE Tick
    <2>1. now' \in 1..MaxTime
        BY <1>1 DEF Tick
    <2>2. QED
        BY <1>1, <2>1 DEF Tick
<1>2. ASSUME NEW w \in Writers, DecideOrder(w) PROVE TypeOK'
    BY <1>2 DEF DecideOrder, Order
<1>3. ASSUME NEW w \in Writers, WriterCheck(w) PROVE TypeOK'
    <2>1. CASE update_time[wgen[w]] < worder[w].time
        BY <1>3, <2>1 DEF WriterCheck
    <2>2. CASE ~(update_time[wgen[w]] < worder[w].time)
        BY <1>3, <2>2, ZenonT(30) DEF WriterCheck, Return
    <2>3. QED
        BY <2>1, <2>2
<1>4. ASSUME NEW w \in Writers, WriterAcquire(w) PROVE TypeOK'
    BY <1>4 DEF WriterAcquire, common_acquire_lock
<1>5. ASSUME NEW w \in Writers, WriterCopyText(w) PROVE TypeOK'
    BY <1>5 DEF WriterCopyText, IsNewer
<1>6. ASSUME NEW w \in Writers, WriterTooLate(w) PROVE TypeOK'
    BY <1>6 DEF WriterTooLate, IsNewer
<1>7. ASSUME NEW w \in Writers, WriterCopyNums(w) PROVE TypeOK'
    <2>1. worder[w] \in Order
        BY <1>7 DEF WriterCopyNums
    <2>2. worder[w].time \in Nat
        BY <2>1 DEF Order
    <2>3. QED
        BY <1>7, <2>1, <2>2 DEF WriterCopyNums
<1>8. ASSUME NEW w \in Writers, WriterBump(w) PROVE TypeOK'
    <2>1. worder[w] \in Order /\ wgen[w] \in Gens
        BY <1>8 DEF WriterBump
    <2>2. Append(published[wgen[w]], worder[w]) \in Seq(Order)
        BY <2>1
    <2>3. published' \in [Gens -> Seq(Order)]
        BY <1>8, <2>1, <2>2 DEF WriterBump
    <2>4. version_number' \in [Gens -> Nat]
        BY <1>8, <2>1, SMTT(20) DEF WriterBump, BumpVersion
    <2>5. QED
        BY <1>8, <2>1, <2>3, <2>4 DEF WriterBump
<1>9. ASSUME NEW w \in Writers, WriterRelease(w) PROVE TypeOK'
    BY <1>9 DEF WriterRelease, Return, common_release_lock
<1>10. ASSUME NEW w \in Writers, WriterCrash(w) PROVE TypeOK'
    BY <1>10 DEF WriterCrash, Return
<1>11. ASSUME NEW w \in Writers, RestartMain(w) PROVE TypeOK'
    <2>1. current + 1 \in Gens
        BY <1>11 DEF RestartMain
    <2>2. QED
        BY <1>11, <2>1 DEF RestartMain, order_shm_writer_init
<1>12. ASSUME NEW w \in Writers, RestartSecondary(w) PROVE TypeOK'
    BY <1>12 DEF RestartSecondary
<1>13. CASE TraderAcquire
    BY <1>13 DEF TraderAcquire, common_acquire_lock
<1>14. CASE TraderCopyText
    BY <1>14 DEF TraderCopyText, Copy
<1>15. CASE TraderCopyNums
    BY <1>15 DEF TraderCopyNums, Copy
<1>16. CASE TraderRelease
    BY <1>16 DEF TraderRelease, common_release_lock
<1>17. CASE TraderSkipOld
    BY <1>17 DEF TraderSkipOld, NextScan, ZeroCopy, Copy
<1>18. CASE TraderSkipExpired
    BY <1>18 DEF TraderSkipExpired, NextScan, ZeroCopy, Copy, IsNewVersion
<1>19. CASE TraderPlace
    <2>1. [order |-> tcopy, gen |-> tgen, epoch |-> epoch] \in Placement
        BY DEF Placement
    <2>2. placed' \in Seq(Placement)
        BY <1>19, <2>1 DEF TraderPlace
    <2>3. order_version' \in Nat /\ tcopy' \in Copy /\ tpc' = "scan"
        BY <1>19 DEF TraderPlace, NextScan, ZeroCopy, Copy, Copy
    <2>4. QED
        BY <1>19, <2>2, <2>3 DEF TraderPlace
<1>20. CASE TraderCrash
    BY <1>20 DEF TraderCrash, NextScan, ZeroCopy, Copy
<1>21. CASE TraderRestart
    <2>1. epoch' \in Nat /\ tcopy' \in Copy /\ tpc' = "scan"
        BY <1>21 DEF TraderRestart, NextScan, ZeroCopy, Copy, Copy
    <2>2. QED
        BY <1>21, <2>1 DEF TraderRestart
<1>22. CASE UNCHANGED vars
    BY <1>22 DEF vars
<1>23. QED
    BY <1>1, <1>2, <1>3, <1>4, <1>5, <1>6, <1>7, <1>8, <1>9, <1>10, <1>11, <1>12, <1>13, <1>14, <1>15, <1>16, <1>17, <1>18, <1>19, <1>20, <1>21, <1>22 DEF Next, WriterStep, TraderStep, Failure
-----------------------------------------------------------------------------
(* The lock *)

LEMMA StepFresh ==
    ASSUME TypeOK, FreshInv, [Next]_vars
    PROVE  FreshInv'
<1> USE DEF TypeOK, FreshInv
<1>1. ASSUME NEW w \in Writers, WriterBump(w) \/ WriterCopyText(w) \/ WriterCopyNums(w)
      PROVE  FreshInv'
    <2>1. \A g \in Gens : g > current => g # wgen[w]
        OBVIOUS
    <2>2. \A g \in Gens : g > current =>
              /\ published'[g] = published[g]
              /\ update_time'[g] = update_time[g]
              /\ version_number'[g] = version_number[g]
        BY <1>1, <2>1 DEF WriterBump, BumpVersion, WriterCopyText, WriterCopyNums
    <2>3. UNCHANGED <<wgen, tgen, current>>
        BY <1>1 DEF WriterBump, WriterCopyText, WriterCopyNums
    <2>4. QED
        BY <2>2, <2>3
<1>2. ASSUME NEW w \in Writers, RestartMain(w) PROVE FreshInv'
    <2>1. /\ current' = current + 1 /\ tgen' = tgen /\ published' = published
          /\ current + 1 \in Gens
          /\ update_time' = [update_time EXCEPT ![current + 1] = 0]
          /\ version_number' = [version_number EXCEPT ![current + 1] = 0]
        BY <1>2 DEF RestartMain, order_shm_writer_init
    <2>2. \A v \in Writers : wgen'[v] \in {wgen[v], current + 1}
        BY <1>2 DEF RestartMain
    <2>3. \A v \in Writers : wgen'[v] <= current'
        <3>1. current \in Nat /\ \A v \in Writers : wgen[v] \in Nat /\ wgen[v] <= current
            OBVIOUS
        <3> HIDE DEF TypeOK, FreshInv
        <3>2. QED
            BY <2>1, <2>2, <3>1
    <2>4. \A g \in Gens : g > current' =>
              published'[g] = << >> /\ update_time'[g] = 0 /\ version_number'[g] = 0
        <3> SUFFICES ASSUME NEW g \in Gens, g > current'
                     PROVE  published'[g] = << >> /\ update_time'[g] = 0 /\ version_number'[g] = 0
            OBVIOUS
        <3>1. g # current + 1 /\ g > current
            BY <2>1
        <3>2. update_time'[g] = update_time[g] /\ version_number'[g] = version_number[g]
            BY <2>1, <3>1
        <3>3. QED
            BY <2>1, <3>1, <3>2
    <2>5. tgen' <= current'
        BY <2>1
    <2>6. QED
        BY <2>3, <2>4, <2>5
<1>3. ASSUME NEW w \in Writers, RestartSecondary(w) PROVE FreshInv'
    BY <1>3 DEF RestartSecondary
<1>4. CASE TraderRestart
    BY <1>4 DEF TraderRestart
<1>5. CASE UNCHANGED <<wgen, tgen, current, published, update_time, version_number>>
    BY <1>5
<1>6. QED
    BY <1>1, <1>2, <1>3, <1>4, <1>5 DEF Next, WriterStep, TraderStep, Failure, vars, Tick,
       DecideOrder, WriterCheck, WriterAcquire, WriterTooLate, WriterRelease, WriterCrash,
       TraderAcquire, TraderCopyText, TraderCopyNums, TraderRelease, TraderSkipOld,
       TraderSkipExpired, TraderPlace, TraderCrash

\* Nobody but w has moved in or out of a critical section.
OthersStay(w) ==
    /\ \A v \in Writers \ {w} : wpc'[v] = wpc[v] /\ wgen'[v] = wgen[v]
    /\ tpc' = tpc /\ tgen' = tgen

\* What the steps of w leave alone, and where they take w.
LEMMA WriterFrame ==
    ASSUME TypeOK, NEW w \in Writers
    PROVE  /\ DecideOrder(w)      => OthersStay(w) /\ wpc'[w] = "check"
           /\ WriterCheck(w)      => OthersStay(w) /\ wpc'[w] \in {"spin", "idle"}
           /\ WriterAcquire(w)    => OthersStay(w) /\ wpc'[w] = "recheck"
           /\ WriterCopyText(w)   => OthersStay(w) /\ wpc'[w] = "nums"
           /\ WriterTooLate(w)    => OthersStay(w) /\ wpc'[w] = "unlock"
           /\ WriterCopyNums(w)   => OthersStay(w) /\ wpc'[w] = "bump"
           /\ WriterBump(w)       => OthersStay(w) /\ wpc'[w] = "unlock"
           /\ WriterRelease(w)    => OthersStay(w) /\ wpc'[w] = "idle"
           /\ WriterCrash(w)      => OthersStay(w) /\ wpc'[w] = "down"
           /\ RestartMain(w)      => OthersStay(w) /\ wpc'[w] = "idle"
           /\ RestartSecondary(w) => OthersStay(w) /\ wpc'[w] = "idle"
<1> USE DEF OthersStay
<1>0. wpc \in [Writers -> WriterPC] /\ wgen \in [Writers -> Gens]
    BY DEF TypeOK
<1>1. DecideOrder(w) => OthersStay(w) /\ wpc'[w] = "check"
    BY <1>0 DEF DecideOrder
<1>2. WriterCheck(w) => OthersStay(w) /\ wpc'[w] \in {"spin", "idle"}
    BY <1>0 DEF WriterCheck, Return
<1>3. WriterAcquire(w) => OthersStay(w) /\ wpc'[w] = "recheck"
    BY <1>0 DEF WriterAcquire
<1>4. WriterCopyText(w) => OthersStay(w) /\ wpc'[w] = "nums"
    BY <1>0 DEF WriterCopyText
<1>5. WriterTooLate(w) => OthersStay(w) /\ wpc'[w] = "unlock"
    BY <1>0 DEF WriterTooLate
<1>6. WriterCopyNums(w) => OthersStay(w) /\ wpc'[w] = "bump"
    BY <1>0 DEF WriterCopyNums
<1>7. WriterBump(w) => OthersStay(w) /\ wpc'[w] = "unlock"
    BY <1>0 DEF WriterBump
<1>8. WriterRelease(w) => OthersStay(w) /\ wpc'[w] = "idle"
    BY <1>0 DEF WriterRelease, Return
<1>9. WriterCrash(w) => OthersStay(w) /\ wpc'[w] = "down"
    BY <1>0 DEF WriterCrash, Return
<1>10. RestartMain(w) => OthersStay(w) /\ wpc'[w] = "idle"
    BY <1>0 DEF RestartMain
<1>11. RestartSecondary(w) => OthersStay(w) /\ wpc'[w] = "idle"
    BY <1>0 DEF RestartSecondary
<1>12. QED
    BY <1>1, <1>2, <1>3, <1>4, <1>5, <1>6, <1>7, <1>8, <1>9, <1>10, <1>11

LEMMA StepLock ==
    ASSUME TypeOK, MutualExclusion, LockInv, FreshInv, [Next]_vars
    PROVE  MutualExclusion' /\ LockInv'
<1> USE DEF MutualExclusion, LockInv, WriterInside, TraderInside
<1>1. ASSUME NEW w \in Writers, OthersStay(w), lock' = lock,
             \A g \in Gens : WriterInside(w, g)' => WriterInside(w, g)
      PROVE  MutualExclusion' /\ LockInv'
    <2>1. \A v \in Writers, g \in Gens : WriterInside(v, g)' => WriterInside(v, g)
        BY <1>1 DEF OthersStay
    <2>2. \A g \in Gens : TraderInside(g)' => TraderInside(g)
        BY <1>1 DEF OthersStay
    <2> HIDE DEF WriterInside, TraderInside
    <2>3. QED
        BY <1>1, <2>1, <2>2
<1>2. ASSUME NEW w \in Writers, WriterAcquire(w) PROVE MutualExclusion' /\ LockInv'
    <2>1. /\ OthersStay(w)
          /\ wpc'[w] = "recheck"
          /\ wgen' = wgen
          /\ lock[wgen[w]] = 0
          /\ lock' = [lock EXCEPT ![wgen[w]] = 1]
          /\ wgen[w] \in Gens
        BY <1>2 DEF WriterAcquire, common_acquire_lock, OthersStay, TypeOK
    <2>2. /\ ~TraderInside(wgen[w])
          /\ \A v \in Writers : ~WriterInside(v, wgen[w])
        BY <2>1
    <2>3. \A v \in Writers \ {w}, g \in Gens : WriterInside(v, g)' <=> WriterInside(v, g)
        BY <2>1 DEF OthersStay
    <2>4. \A g \in Gens : (WriterInside(w, g)' <=> g = wgen[w]) /\ (TraderInside(g)' <=> TraderInside(g))
        BY <2>1 DEF OthersStay
    <2> HIDE DEF WriterInside, TraderInside
    <2>5. MutualExclusion'
        BY <2>1, <2>2, <2>3, <2>4
    <2>6. LockInv'
        <3>1. \A g \in Gens : lock'[g] = 0 => lock[g] = 0 /\ g # wgen[w]
            BY <2>1 DEF TypeOK
        <3>2. QED
            BY <3>1, <2>3, <2>4
    <2>7. QED
        BY <2>5, <2>6
<1>3. ASSUME NEW w \in Writers, WriterRelease(w) PROVE MutualExclusion' /\ LockInv'
    <2>1. /\ OthersStay(w)
          /\ wpc[w] = "unlock"
          /\ wpc'[w] = "idle"
          /\ wgen' = wgen
          /\ lock' = [lock EXCEPT ![wgen[w]] = 0]
          /\ wgen[w] \in Gens
        BY <1>3 DEF WriterRelease, Return, common_release_lock, OthersStay, TypeOK
    <2>2. /\ ~TraderInside(wgen[w])
          /\ \A v \in Writers : WriterInside(v, wgen[w]) => v = w
        BY <2>1
    <2>3. MutualExclusion'
        BY <2>1, SMTT(20) DEF OthersStay, TypeOK
    <2>4. LockInv'
        BY <2>1, <2>2 DEF OthersStay, TypeOK
    <2>5. QED
        BY <2>3, <2>4
<1>4. ASSUME NEW w \in Writers, RestartMain(w) PROVE MutualExclusion' /\ LockInv'
    <2>1. /\ OthersStay(w)
          /\ wpc'[w] = "idle"
          /\ lock' = [lock EXCEPT ![current + 1] = 0]
          /\ current + 1 \in Gens
        BY <1>4 DEF RestartMain, order_shm_writer_init, OthersStay, TypeOK
    <2>2. /\ ~TraderInside(current + 1)
          /\ \A v \in Writers : ~WriterInside(v, current + 1)
        BY DEF FreshInv, TypeOK
    <2>3. \A v \in Writers, g \in Gens : WriterInside(v, g)' => WriterInside(v, g)
        BY <2>1 DEF OthersStay
    <2>4. \A g \in Gens : TraderInside(g)' => TraderInside(g)
        BY <2>1 DEF OthersStay
    <2> HIDE DEF WriterInside, TraderInside
    <2>5. \A g \in Gens : lock'[g] = 0 => lock[g] = 0 \/ g = current + 1
        BY <2>1 DEF TypeOK
    <2>6. QED
        BY <2>2, <2>3, <2>4, <2>5
<1>5. ASSUME NEW w \in Writers,
             \/ DecideOrder(w) \/ WriterCheck(w) \/ WriterCopyText(w) \/ WriterTooLate(w)
             \/ WriterCopyNums(w) \/ WriterBump(w) \/ WriterCrash(w) \/ RestartSecondary(w)
      PROVE  MutualExclusion' /\ LockInv'
    <2>1. OthersStay(w) /\ lock' = lock
        BY <1>5, WriterFrame DEF DecideOrder, WriterCheck, WriterCopyText, WriterTooLate,
           WriterCopyNums, WriterBump, WriterCrash, RestartSecondary, cellVars
    <2>2. \/ wgen'[w] = wgen[w] /\ wpc[w] \in {"recheck", "nums", "bump"}
          \/ wpc'[w] \in {"check", "spin", "idle", "down"}
        BY <1>5, WriterFrame DEF DecideOrder, WriterCheck, WriterCopyText, WriterTooLate,
           WriterCopyNums, WriterBump
    <2>3. \A g \in Gens : WriterInside(w, g)' => WriterInside(w, g)
        BY <2>2
    <2>4. QED
        BY <1>1, <2>1, <2>3
<1>6. CASE TraderAcquire
    <2>1. /\ UNCHANGED <<wpc, wgen, tgen>>
          /\ tgen \in Gens
          /\ lock[tgen] = 0
          /\ lock' = [lock EXCEPT ![tgen] = 1]
        BY <1>6 DEF TraderAcquire, common_acquire_lock, TypeOK
    <2>2. \A v \in Writers : ~WriterInside(v, tgen)
        BY <2>1
    <2>3. MutualExclusion'
        BY <2>1, <2>2
    <2>4. LockInv'
        BY <2>1 DEF TypeOK
    <2>5. QED
        BY <2>3, <2>4
<1>7. CASE TraderRelease
    <2>1. /\ UNCHANGED <<wpc, wgen, tgen>>
          /\ tgen \in Gens
          /\ tpc = "unlock" /\ tpc' = "judge"
          /\ lock' = [lock EXCEPT ![tgen] = 0]
        BY <1>7 DEF TraderRelease, common_release_lock, TypeOK
    <2>2. \A v \in Writers : ~WriterInside(v, tgen)
        BY <2>1
    <2>3. MutualExclusion'
        BY <2>1
    <2>4. LockInv'
        BY <2>1, <2>2, SMTT(20) DEF TypeOK
    <2>5. QED
        BY <2>3, <2>4
<1>8. ASSUME UNCHANGED <<wpc, wgen, lock>>,
             \A g \in Gens : TraderInside(g)' => TraderInside(g)
      PROVE  MutualExclusion' /\ LockInv'
    BY <1>8
<1>9. CASE \/ TraderCopyText \/ TraderCopyNums \/ TraderSkipOld \/ TraderSkipExpired
           \/ TraderPlace \/ TraderCrash \/ TraderRestart \/ Tick \/ UNCHANGED vars
    <2>1. UNCHANGED <<wpc, wgen, lock>> /\ \A g \in Gens : TraderInside(g)' => TraderInside(g)
        BY <1>9 DEF TraderCopyText, TraderCopyNums, TraderSkipOld, TraderSkipExpired, TraderPlace,
           TraderCrash, TraderRestart, Tick, NextScan, vars
    <2>2. QED
        BY <1>8, <2>1
<1>10. QED
    BY <1>2, <1>3, <1>4, <1>5, <1>6, <1>7, <1>9 DEF Next, WriterStep, TraderStep, Failure
-----------------------------------------------------------------------------
(* The cell *)

SameCell(g) ==
    /\ text'[g] = text[g]
    /\ nums'[g] = nums[g]
    /\ update_time'[g] = update_time[g]
    /\ version_number'[g] = version_number[g]
    /\ published'[g] = published[g]

\* Publishing appends one order to the history of the writer's segment.
LEMMA BumpFacts ==
    ASSUME TypeOK, VersionInv, NEW w \in Writers, WriterBump(w)
    PROVE  /\ wgen[w] \in Gens
           /\ worder[w] \in Order
           /\ wpc[w] = "bump"
           /\ version_number'[wgen[w]] = version_number[wgen[w]] + 1
           /\ Len(published[wgen[w]]) = version_number[wgen[w]]
           /\ Len(published'[wgen[w]]) = version_number[wgen[w]] + 1
           /\ published'[wgen[w]][version_number[wgen[w]] + 1] = worder[w]
           /\ \A i \in 1..Len(published[wgen[w]]) : published'[wgen[w]][i] = published[wgen[w]][i]
           /\ \A g \in Gens \ {wgen[w]} : SameCell(g)
           /\ UNCHANGED <<text, nums, update_time>>
<1>1. wgen[w] \in Gens /\ worder[w] \in Order /\ published[wgen[w]] \in Seq(Order) /\ wpc[w] = "bump"
    BY DEF TypeOK, WriterBump
<1>2. published'[wgen[w]] = Append(published[wgen[w]], worder[w])
    BY <1>1 DEF WriterBump, TypeOK
<1>3. Len(published[wgen[w]]) = version_number[wgen[w]]
    BY <1>1 DEF VersionInv
<1>4. version_number'[wgen[w]] = version_number[wgen[w]] + 1
    BY <1>1 DEF WriterBump, BumpVersion, TypeOK
<1>5. \A g \in Gens \ {wgen[w]} : SameCell(g)
    BY <1>1 DEF WriterBump, BumpVersion, TypeOK, SameCell
<1>6. UNCHANGED <<text, nums, update_time>>
    BY DEF WriterBump
<1>7. /\ Len(published'[wgen[w]]) = version_number[wgen[w]] + 1
      /\ published'[wgen[w]][version_number[wgen[w]] + 1] = worder[w]
      /\ \A i \in 1..Len(published[wgen[w]]) : published'[wgen[w]][i] = published[wgen[w]][i]
    BY <1>1, <1>2, <1>3
<1>8. QED
    BY <1>1, <1>3, <1>4, <1>5, <1>6, <1>7

\* Only four actions touch what a cell holds.
LEMMA CellFrame ==
    ASSUME [Next]_vars
    PROVE  \/ \E w \in Writers :
                 WriterCopyText(w) \/ WriterCopyNums(w) \/ WriterBump(w) \/ RestartMain(w)
           \/ UNCHANGED <<text, nums, update_time, version_number, published>>
BY DEF Next, WriterStep, TraderStep, Failure, vars, Tick, DecideOrder, WriterCheck, WriterAcquire,
   WriterTooLate, WriterRelease, WriterCrash, RestartSecondary, TraderAcquire, TraderCopyText,
   TraderCopyNums, TraderRelease, TraderSkipOld, TraderSkipExpired, TraderPlace, TraderCrash,
   TraderRestart

LEMMA StepVersion ==
    ASSUME TypeOK, VersionInv, FreshInv, [Next]_vars
    PROVE  VersionInv'
<1>1. ASSUME NEW w \in Writers, WriterBump(w) PROVE VersionInv'
    BY <1>1, BumpFacts DEF VersionInv, SameCell
<1>2. ASSUME NEW w \in Writers, RestartMain(w) PROVE VersionInv'
    <2>1. /\ current + 1 \in Gens
          /\ published' = published
          /\ version_number' = [version_number EXCEPT ![current + 1] = 0]
        BY <1>2 DEF RestartMain, order_shm_writer_init, TypeOK
    <2>2. published[current + 1] = << >>
        BY <2>1 DEF FreshInv, TypeOK
    <2>3. QED
        BY <2>1, <2>2 DEF VersionInv, TypeOK
<1>3. ASSUME NEW w \in Writers, WriterCopyText(w) \/ WriterCopyNums(w) PROVE VersionInv'
    BY <1>3 DEF WriterCopyText, WriterCopyNums, VersionInv
<1>4. QED
    BY <1>1, <1>2, <1>3, CellFrame DEF VersionInv

\* A writer inside a segment is alone there and holds the lock.
LEMMA AloneInside ==
    ASSUME TypeOK, MutualExclusion, LockInv, NEW w \in Writers,
           wpc[w] \in {"recheck", "nums", "bump", "unlock"}
    PROVE  /\ wgen[w] \in Gens
           /\ lock[wgen[w]] # 0
           /\ ~TraderInside(wgen[w])
           /\ \A v \in Writers \ {w} : ~WriterInside(v, wgen[w])
<1>1. wgen[w] \in Gens
    BY DEF TypeOK
<1>2. WriterInside(w, wgen[w])
    BY DEF WriterInside
<1>3. QED
    BY <1>1, <1>2 DEF MutualExclusion, LockInv

LEMMA SettledFrame ==
    ASSUME NEW g \in Gens, SameCell(g), Settled(g)
    PROVE  Settled(g)'
BY DEF Settled, SameCell

LEMMA StepCell ==
    ASSUME TypeOK, MutualExclusion, LockInv, VersionInv, FreshInv, CellInv, CopyInv, [Next]_vars
    PROVE  CellInv'
<1>1. ASSUME NEW w \in Writers, WriterCopyText(w) \/ WriterCopyNums(w)
      PROVE  CellInv'
    <2>1. /\ OthersStay(w)
          /\ wpc[w] \in {"recheck", "nums"}
          /\ wpc'[w] \in {"nums", "bump"}
          /\ lock' = lock
          /\ wgen' = wgen
        BY <1>1, WriterFrame DEF WriterCopyText, WriterCopyNums
    <2>2. \A g \in Gens \ {wgen[w]} : SameCell(g)
        BY <1>1 DEF WriterCopyText, WriterCopyNums, SameCell, TypeOK
    <2>3. \A g \in Gens : g = wgen[w] => ~Readable(g)'
        BY <2>1, AloneInside DEF Readable, OthersStay, TraderInside, WriterInside
    <2>4. \A g \in Gens : Readable(g)' => Readable(g)
        BY <2>1, <2>3 DEF Readable, OthersStay, TraderInside
    <2>5. QED
        BY <2>2, <2>3, <2>4, SettledFrame DEF CellInv
<1>2. ASSUME NEW w \in Writers, WriterBump(w) PROVE CellInv'
    <2>1. OthersStay(w) /\ wpc'[w] = "unlock" /\ lock' = lock /\ wgen' = wgen
        BY <1>2, WriterFrame DEF WriterBump
    <2>2. ASSUME NEW g \in Gens, g = wgen[w] PROVE Settled(g)'
        <3>1. /\ text[wgen[w]] = worder[w]
              /\ nums[wgen[w]] = worder[w]
              /\ update_time[wgen[w]] = worder[w].time
            BY <1>2, BumpFacts DEF CopyInv
        <3>2. version_number[wgen[w]] \in Nat
            BY <1>2, BumpFacts DEF TypeOK
        <3>3. /\ version_number'[g] = version_number[g] + 1
              /\ published'[g][version_number[g] + 1] = worder[w]
              /\ UNCHANGED <<text, nums, update_time>>
            BY <1>2, <2>2, BumpFacts
        <3>4. version_number'[g] # 0 /\ published'[g][version_number'[g]] = worder[w]
            BY <2>2, <3>2, <3>3
        <3>5. QED
            BY <2>2, <3>1, <3>3, <3>4 DEF Settled
    <2>3. \A g \in Gens \ {wgen[w]} : Readable(g)' => Readable(g)
        BY <2>1 DEF Readable, OthersStay, TraderInside
    <2>4. QED
        BY <1>2, <2>2, <2>3, BumpFacts, SettledFrame DEF CellInv
<1>3. ASSUME NEW w \in Writers, RestartMain(w) PROVE CellInv'
    <2>1. /\ current + 1 \in Gens
          /\ \A g \in Gens \ {current + 1} : SameCell(g) /\ lock'[g] = lock[g]
          /\ version_number'[current + 1] = 0
          /\ update_time'[current + 1] = 0
        BY <1>3 DEF RestartMain, order_shm_writer_init, SameCell, TypeOK
    <2>2. OthersStay(w) /\ wpc'[w] = "idle"
        BY <1>3, WriterFrame
    <2>3. \A g \in Gens \ {current + 1} : Readable(g)' => Readable(g)
        BY <2>1, <2>2 DEF Readable, OthersStay, TraderInside
    <2>4. \A g \in Gens : g = current + 1 => Settled(g)'
        BY <2>1 DEF Settled
    <2>5. QED
        BY <2>1, <2>3, <2>4, SettledFrame DEF CellInv
<1>4. ASSUME UNCHANGED <<text, nums, update_time, version_number, published>>,
             \A g \in Gens : Readable(g)' => Readable(g)
      PROVE  CellInv'
    BY <1>4, SettledFrame DEF CellInv, SameCell
<1>5. ASSUME NEW w \in Writers, WriterAcquire(w) \/ WriterRelease(w) PROVE CellInv'
    <2>1. /\ OthersStay(w)
          /\ wgen' = wgen
          /\ wgen[w] \in Gens
          /\ \A g \in Gens \ {wgen[w]} : lock'[g] = lock[g]
          /\ lock[wgen[w]] = 0 \/ wpc[w] = "unlock"
          /\ UNCHANGED <<text, nums, update_time, version_number, published>>
        BY <1>5, WriterFrame DEF WriterAcquire, WriterRelease, common_acquire_lock,
           common_release_lock, TypeOK
    <2>2. Readable(wgen[w])
        BY <2>1 DEF Readable
    <2>3. \A g \in Gens \ {wgen[w]} : Readable(g)' => Readable(g)
        BY <2>1 DEF Readable, OthersStay, TraderInside
    <2>4. QED
        BY <1>4, <2>1, <2>2, <2>3
<1>6. ASSUME NEW w \in Writers,
             \/ DecideOrder(w) \/ WriterCheck(w) \/ WriterTooLate(w)
             \/ WriterCrash(w) \/ RestartSecondary(w)
      PROVE  CellInv'
    <2>1. OthersStay(w) /\ UNCHANGED cellVars /\ UNCHANGED published
        BY <1>6, WriterFrame DEF DecideOrder, WriterCheck, WriterTooLate, WriterCrash, RestartSecondary
    <2>2. wpc'[w] \in {"recheck", "unlock"} => wpc[w] = "recheck" /\ wgen'[w] = wgen[w]
        BY <1>6, WriterFrame DEF WriterTooLate
    <2>3. \A g \in Gens : Readable(g)' => Readable(g)
        BY <2>1, <2>2 DEF Readable, OthersStay, TraderInside
    <2>4. QED
        BY <1>4, <2>1, <2>3
<1>7. CASE TraderAcquire \/ TraderRelease
    <2>1. /\ UNCHANGED <<wpc, wgen, tgen, text, nums, update_time, version_number, published>>
          /\ tgen \in Gens
          /\ \A g \in Gens \ {tgen} : lock'[g] = lock[g]
          /\ lock[tgen] = 0 \/ tpc = "unlock"
        BY <1>7 DEF TraderAcquire, TraderRelease, common_acquire_lock, common_release_lock, TypeOK
    <2>2. Readable(tgen)
        BY <2>1 DEF Readable, TraderInside
    <2>3. \A g \in Gens \ {tgen} : Readable(g)' => Readable(g)
        BY <2>1 DEF Readable, TraderInside
    <2>4. QED
        BY <1>4, <2>1, <2>2, <2>3
<1>8. CASE \/ TraderCopyText \/ TraderCopyNums \/ TraderSkipOld \/ TraderSkipExpired
           \/ TraderPlace \/ TraderCrash \/ TraderRestart \/ Tick \/ UNCHANGED vars
    <2>1. /\ UNCHANGED <<wpc, wgen, text, nums, update_time, version_number, lock, published>>
          /\ \A g \in Gens : TraderInside(g)' => TraderInside(g)
        BY <1>8 DEF TraderCopyText, TraderCopyNums, TraderSkipOld, TraderSkipExpired, TraderPlace,
           TraderCrash, TraderRestart, Tick, NextScan, vars, TraderInside
    <2>2. \A g \in Gens : Readable(g)' => Readable(g)
        BY <2>1 DEF Readable
    <2>3. QED
        BY <1>4, <2>1, <2>2
<1>9. QED
    BY <1>1, <1>2, <1>3, <1>5, <1>6, <1>7, <1>8 DEF Next, WriterStep, TraderStep, Failure

LEMMA StepCopy ==
    ASSUME TypeOK, MutualExclusion, LockInv, VersionInv, FreshInv, CellInv, CopyInv, [Next]_vars
    PROVE  CopyInv'
<1> DEFINE Mid(v) ==
        /\ wpc[v] \in {"nums", "bump"} =>
              /\ text[wgen[v]] = worder[v]
              /\ version_number[wgen[v]] > 0 =>
                    published[wgen[v]][version_number[wgen[v]]].time < worder[v].time
        /\ wpc[v] = "nums" => update_time[wgen[v]] < worder[v].time
        /\ wpc[v] = "bump" =>
              /\ nums[wgen[v]] = worder[v]
              /\ update_time[wgen[v]] = worder[v].time
<1>0. (\A v \in Writers : Mid(v)) /\ ((\A v \in Writers : Mid(v)') => CopyInv')
    BY DEF CopyInv
<1>1. ASSUME NEW v \in Writers, wpc'[v] \notin {"nums", "bump"} PROVE Mid(v)'
    BY <1>1
<1>2. ASSUME NEW v \in Writers, wpc'[v] = wpc[v], wgen'[v] = wgen[v], worder'[v] = worder[v],
             wpc[v] \in {"nums", "bump"} => SameCell(wgen[v])
      PROVE  Mid(v)'
    BY <1>0, <1>2 DEF SameCell
<1> HIDE DEF Mid
<1>3. ASSUME NEW w \in Writers, NEW v \in Writers \ {w},
             WriterCopyText(w) \/ WriterCopyNums(w) \/ WriterBump(w)
      PROVE  Mid(v)'
    <2>1. wpc[w] \in {"recheck", "nums", "bump"} /\ wgen' = wgen /\ worder' = worder /\ OthersStay(w)
        BY <1>3, WriterFrame DEF WriterCopyText, WriterCopyNums, WriterBump
    <2>2. wpc[v] \in {"nums", "bump"} => wgen[v] # wgen[w]
        BY <2>1, AloneInside DEF WriterInside
    <2>3. wgen[v] \in Gens /\ wgen[w] \in Gens
        BY DEF TypeOK
    <2>4. ASSUME wgen[v] # wgen[w] PROVE SameCell(wgen[v])
        <3>1. CASE WriterCopyText(w)
            BY <2>3, <2>4, <3>1 DEF WriterCopyText, SameCell, TypeOK
        <3>2. CASE WriterCopyNums(w)
            BY <2>3, <2>4, <3>2 DEF WriterCopyNums, SameCell, TypeOK
        <3>3. CASE WriterBump(w)
            BY <2>3, <2>4, <3>3 DEF WriterBump, BumpVersion, SameCell, TypeOK
        <3>4. QED
            BY <1>3, <3>1, <3>2, <3>3
    <2>5. QED
        BY <1>2, <2>1, <2>2, <2>4 DEF OthersStay
<1>4. ASSUME NEW w \in Writers, WriterCopyText(w) PROVE Mid(w)'
    <2>1. /\ wpc[w] = "recheck" /\ wpc'[w] = "nums"
          /\ wgen[w] \in Gens
          /\ text'[wgen[w]] = worder[w]
          /\ UNCHANGED <<wgen, worder, version_number, published, update_time>>
          /\ update_time[wgen[w]] < worder[w].time
        BY <1>4, WriterFrame DEF WriterCopyText, IsNewer, TypeOK
    <2>2. Settled(wgen[w])
        BY <2>1 DEF CellInv, Readable
    <2>3. version_number[wgen[w]] > 0 =>
              published[wgen[w]][version_number[wgen[w]]].time < worder[w].time
        BY <2>1, <2>2 DEF Settled, TypeOK
    <2>4. QED
        BY <2>1, <2>3 DEF Mid
<1>5. ASSUME NEW w \in Writers, WriterCopyNums(w) PROVE Mid(w)'
    <2>1. /\ wpc[w] = "nums" /\ wpc'[w] = "bump"
          /\ wgen[w] \in Gens
          /\ nums'[wgen[w]] = worder[w]
          /\ update_time'[wgen[w]] = worder[w].time
          /\ UNCHANGED <<wgen, worder, version_number, published, text>>
        BY <1>5, WriterFrame DEF WriterCopyNums, TypeOK
    <2>2. QED
        BY <1>0, <2>1 DEF Mid
<1>6. ASSUME NEW w \in Writers,
             \/ WriterBump(w) \/ DecideOrder(w) \/ WriterCheck(w) \/ WriterAcquire(w)
             \/ WriterTooLate(w) \/ WriterRelease(w) \/ WriterCrash(w)
             \/ RestartMain(w) \/ RestartSecondary(w)
      PROVE  Mid(w)'
    BY <1>1, <1>6, WriterFrame
<1>7. ASSUME NEW w \in Writers, NEW v \in Writers \ {w},
             \/ DecideOrder(w) \/ WriterCheck(w) \/ WriterAcquire(w) \/ WriterTooLate(w)
             \/ WriterRelease(w) \/ WriterCrash(w) \/ RestartSecondary(w)
      PROVE  Mid(v)'
    <2>1. OthersStay(w)
        BY <1>7, WriterFrame
    <2>2. UNCHANGED <<text, nums, update_time, version_number, published>>
        BY <1>7 DEF DecideOrder, WriterCheck, WriterAcquire, WriterTooLate, WriterRelease,
           WriterCrash, RestartSecondary
    <2>3. worder'[v] = worder[v]
        BY <1>7 DEF DecideOrder, WriterCheck, WriterAcquire, WriterTooLate, WriterRelease,
           WriterCrash, RestartSecondary, Return, TypeOK
    <2>4. QED
        BY <1>2, <2>1, <2>2, <2>3 DEF OthersStay, SameCell
<1>8. ASSUME NEW w \in Writers, NEW v \in Writers \ {w}, RestartMain(w) PROVE Mid(v)'
    <2>1. wgen[v] # current + 1 /\ wgen[v] \in Gens /\ worder' = worder /\ current + 1 \in Gens
        BY <1>8 DEF RestartMain, FreshInv, TypeOK
    <2>2. SameCell(wgen[v])
        BY <1>8, <2>1 DEF RestartMain, order_shm_writer_init, SameCell, TypeOK
    <2>3. QED
        BY <1>2, <1>8, <2>1, <2>2, WriterFrame DEF OthersStay
<1>9. CASE TraderStep \/ TraderCrash \/ TraderRestart \/ Tick \/ UNCHANGED vars
    <2>1. UNCHANGED <<text, nums, update_time, version_number, published, wpc, wgen, worder>>
        BY <1>9 DEF TraderStep, TraderAcquire, TraderCopyText, TraderCopyNums, TraderRelease,
           TraderSkipOld, TraderSkipExpired, TraderPlace, TraderCrash, TraderRestart, Tick, vars
    <2>2. QED
        BY <1>0, <1>2, <2>1 DEF SameCell
<1>10. ASSUME NEW w \in Writers, WriterStep(w) \/ WriterCrash(w) \/ RestartMain(w) \/ RestartSecondary(w)
       PROVE  \A v \in Writers : Mid(v)'
    BY <1>3, <1>4, <1>5, <1>6, <1>7, <1>8, <1>10 DEF WriterStep
<1>11. QED
    BY <1>0, <1>9, <1>10 DEF Next, Failure

LEMMA StepPublished ==
    ASSUME TypeOK, VersionInv, CopyInv, PublishedInv, [Next]_vars
    PROVE  PublishedInv'
<1>1. ASSUME NEW w \in Writers, WriterBump(w) PROVE PublishedInv'
    <2> DEFINE n == version_number[wgen[w]]
    <2>1. /\ wgen[w] \in Gens
          /\ Len(published[wgen[w]]) = n
          /\ Len(published'[wgen[w]]) = n + 1
          /\ published'[wgen[w]][n + 1] = worder[w]
          /\ \A i \in 1..n : published'[wgen[w]][i] = published[wgen[w]][i]
          /\ \A g \in Gens \ {wgen[w]} : published'[g] = published[g]
        BY <1>1, BumpFacts DEF SameCell
    <2>2. n \in Nat /\ worder[w].time \in Nat /\ \A i \in 1..n : published[wgen[w]][i].time \in Nat
        <3>1. n \in Nat /\ worder[w] \in Order /\ published[wgen[w]] \in Seq(Order)
            BY <1>1, <2>1, BumpFacts DEF TypeOK
        <3>2. \A i \in 1..n : published[wgen[w]][i] \in Order
            BY <3>1, <2>1
        <3>3. QED
            BY <3>1, <3>2 DEF Order
    <2>3. n > 0 => published[wgen[w]][n].time < worder[w].time
        BY <1>1, BumpFacts DEF CopyInv
    <2>4. \A i \in 1..n : published[wgen[w]][i].time < worder[w].time
        <3> SUFFICES ASSUME NEW i \in 1..n PROVE published[wgen[w]][i].time < worder[w].time
            OBVIOUS
        <3>1. CASE i = n
            BY <2>2, <2>3, <3>1
        <3>2. CASE i < n
            <4>1. published[wgen[w]][i].time < published[wgen[w]][n].time
                <5> HIDE DEF n
                <5>1. i \in 1..Len(published[wgen[w]]) /\ n \in 1..Len(published[wgen[w]])
                    BY <2>1, <2>2, <3>2
                <5>2. QED
                    BY <2>1, <3>2, <5>1 DEF PublishedInv
            <4>2. QED
                BY <2>2, <2>3, <4>1
        <3>3. QED
            BY <2>2, <3>1, <3>2
    <2> HIDE DEF n
    <2>5. ASSUME NEW i \in 1..(n + 1), NEW j \in 1..(n + 1), i < j
          PROVE  published'[wgen[w]][i].time < published'[wgen[w]][j].time
        <3>1. i \in 1..n
            BY <2>2, <2>5
        <3>2. CASE j = n + 1
            BY <2>1, <2>4, <3>1, <3>2
        <3>3. CASE j \in 1..n
            <4>1. published[wgen[w]][i].time < published[wgen[w]][j].time
                BY <2>1, <2>5, <3>1, <3>3 DEF PublishedInv
            <4>2. QED
                BY <2>1, <3>1, <3>3, <4>1
        <3>4. QED
            BY <2>2, <3>2, <3>3
    <2>6. QED
        BY <2>1, <2>5 DEF PublishedInv
<1>2. CASE published' = published
    BY <1>2 DEF PublishedInv
<1>3. QED
    BY <1>1, <1>2, CellFrame DEF WriterCopyText, WriterCopyNums, RestartMain
-----------------------------------------------------------------------------
(* The trader *)

\* The history of a segment only grows.
LEMMA HistoryGrows ==
    ASSUME TypeOK, VersionInv, [Next]_vars, NEW g \in Gens
    PROVE  /\ Len(published[g]) \in Nat
           /\ Len(published'[g]) \in Nat
           /\ Len(published[g]) <= Len(published'[g])
           /\ \A i \in 1..Len(published[g]) : published'[g][i] = published[g][i]
<1>0. Len(published[g]) \in Nat
    BY DEF TypeOK
<1>1. ASSUME NEW w \in Writers, WriterBump(w)
      PROVE  /\ Len(published'[g]) \in {Len(published[g]), Len(published[g]) + 1}
             /\ \A i \in 1..Len(published[g]) : published'[g][i] = published[g][i]
    BY <1>1, BumpFacts, SMTT(20) DEF SameCell
<1>2. published' = published \/ \E w \in Writers : WriterBump(w)
    BY CellFrame DEF WriterCopyText, WriterCopyNums, RestartMain
<1>3. QED
    BY <1>0, <1>1, <1>2

LEMMA IntactStays ==
    ASSUME TypeOK, VersionInv, [Next]_vars, NEW g \in Gens, NEW c \in Copy, Intact(c, g)
    PROVE  Intact(c, g)'
<1>1. c.version_number \in Nat
    BY DEF Copy
<1>2. /\ Len(published[g]) \in Nat /\ Len(published'[g]) \in Nat /\ Len(published[g]) <= Len(published'[g])
      /\ \A i \in 1..Len(published[g]) : published'[g][i] = published[g][i]
    BY HistoryGrows
<1>3. QED
    BY <1>1, <1>2 DEF Intact

LEMMA StepTraderCopy ==
    ASSUME TypeOK, MutualExclusion, LockInv, VersionInv, FreshInv, CellInv, TraderCopyInv, [Next]_vars
    PROVE  TraderCopyInv'
<1>1. CASE TraderCopyText
    BY <1>1 DEF TraderCopyText, TraderCopyInv, TypeOK, Copy
<1>2. CASE TraderCopyNums
    <2>1. /\ tpc = "nums" /\ tpc' = "unlock" /\ tgen' = tgen /\ published' = published
          /\ tcopy'.text = tcopy.text
          /\ tcopy'.nums = nums[tgen]
          /\ tcopy'.update_time = update_time[tgen]
          /\ tcopy'.version_number = version_number[tgen]
          /\ tgen \in Gens
        BY <1>2 DEF TraderCopyNums, TypeOK, Copy
    <2>2. Settled(tgen)
        BY <2>1 DEF CellInv, Readable, TraderInside
    <2>3. version_number[tgen] \in 0..Len(published[tgen]) /\ version_number[tgen] \in Nat
        BY <2>1 DEF VersionInv, TypeOK
    <2>4. tcopy.text = text[tgen]
        BY <2>1 DEF TraderCopyInv
    <2>5. Intact(tcopy, tgen)'
        BY <2>1, <2>2, <2>3, <2>4 DEF Settled, Intact
    <2>6. QED
        BY <2>1, <2>5 DEF TraderCopyInv
<1>3. CASE TraderRelease
    <2>1. /\ tpc = "unlock" /\ tpc' = "judge"
          /\ UNCHANGED <<tcopy, tgen, published>>
        BY <1>3 DEF TraderRelease
    <2>2. QED
        BY <2>1 DEF TraderCopyInv, Intact
<1>4. ASSUME tpc' \in {"scan", "text", "down"} PROVE TraderCopyInv'
    BY <1>4 DEF TraderCopyInv
<1>5. ASSUME NEW w \in Writers,
             WriterStep(w) \/ WriterCrash(w) \/ RestartMain(w) \/ RestartSecondary(w)
      PROVE  TraderCopyInv'
    <2>1. UNCHANGED <<tpc, tcopy, tgen>> /\ tgen \in Gens /\ tcopy \in Copy
        BY <1>5 DEF WriterStep, DecideOrder, WriterCheck, WriterAcquire, WriterCopyText,
           WriterTooLate, WriterCopyNums, WriterBump, WriterRelease, WriterCrash, RestartMain,
           RestartSecondary, TypeOK
    <2>2. ASSUME tpc = "nums" PROVE text'[tgen] = text[tgen]
        <3>1. CASE WriterCopyText(w)
            <4>1. wpc[w] = "recheck" /\ text' = [text EXCEPT ![wgen[w]] = worder[w]]
                BY <3>1 DEF WriterCopyText
            <4>2. wgen[w] \in Gens /\ wgen[w] # tgen
                BY <2>2, <4>1, AloneInside DEF TraderInside
            <4>3. QED
                BY <2>1, <4>1, <4>2 DEF TypeOK
        <3>2. CASE RestartMain(w)
            <4>1. text' = [text EXCEPT ![current + 1] = NoOrder] /\ tgen # current + 1
                BY <2>1, <3>2 DEF RestartMain, order_shm_writer_init, FreshInv, TypeOK
            <4>2. QED
                BY <2>1, <4>1 DEF TypeOK
        <3>3. CASE ~WriterCopyText(w) /\ ~RestartMain(w)
            BY <1>5, <3>3 DEF WriterStep, DecideOrder, WriterCheck, WriterAcquire,
               WriterTooLate, WriterCopyNums, WriterBump, WriterRelease, WriterCrash,
               RestartSecondary
        <3>4. QED
            BY <3>1, <3>2, <3>3
    <2>3. ASSUME tpc \in {"unlock", "judge"} PROVE Intact(tcopy, tgen)'
        <3>1. Intact(tcopy, tgen)
            BY <2>3 DEF TraderCopyInv
        <3>2. \A c \in Copy, g \in Gens : Intact(c, g) => Intact(c, g)'
            BY IntactStays
        <3>3. QED
            BY <2>1, <3>1, <3>2 DEF Intact
    <2>4. QED
        BY <2>1, <2>2, <2>3 DEF TraderCopyInv
<1>6. CASE UNCHANGED <<tpc, tcopy, tgen, text, published>>
    BY <1>6 DEF TraderCopyInv, Intact
<1>7. CASE \/ TraderAcquire \/ TraderSkipOld \/ TraderSkipExpired \/ TraderPlace
           \/ TraderCrash \/ TraderRestart
    BY <1>4, <1>7 DEF TraderAcquire, TraderSkipOld, TraderSkipExpired, TraderPlace, TraderCrash,
       TraderRestart, NextScan
<1>8. QED
    BY <1>1, <1>2, <1>3, <1>5, <1>6, <1>7 DEF Next, TraderStep, Failure, Tick, vars

\* placed grows only when the trader places its current copy.
LEMMA PlacedFrame ==
    ASSUME [Next]_vars
    PROVE  TraderPlace \/ placed' = placed
BY DEF Next, WriterStep, TraderStep, Failure, vars, Tick, DecideOrder, WriterCheck, WriterAcquire,
   WriterCopyText, WriterTooLate, WriterCopyNums, WriterBump, WriterRelease, WriterCrash,
   RestartMain, RestartSecondary, TraderAcquire, TraderCopyText, TraderCopyNums, TraderRelease,
   TraderSkipOld, TraderSkipExpired, TraderCrash, TraderRestart

\* What TraderPlace appends.
LEMMA PlaceFacts ==
    ASSUME TypeOK, TraderPlace
    PROVE  /\ Len(placed) \in Nat
           /\ Len(placed') = Len(placed) + 1
           /\ \A i \in 1..Len(placed) : placed'[i] = placed[i]
           /\ placed'[Len(placed) + 1] = [order |-> tcopy, gen |-> tgen, epoch |-> epoch]
           /\ tpc = "judge"
           /\ tcopy \in Copy
           /\ tcopy.version_number \in Nat
           /\ tcopy.version_number > order_version
           /\ order_version \in Nat
           /\ order_version' = tcopy.version_number
           /\ UNCHANGED <<tgen, epoch, published>>
<1>1. placed' = Append(placed, [order |-> tcopy, gen |-> tgen, epoch |-> epoch])
    BY DEF TraderPlace
<1>2. placed \in Seq(Placement)
    BY DEF TypeOK
<1>3. tcopy \in Copy /\ tcopy.version_number \in Nat /\ order_version \in Nat
    BY DEF TypeOK, Copy
<1>4. /\ tpc = "judge" /\ tcopy.version_number > order_version
      /\ order_version' = tcopy.version_number
      /\ UNCHANGED <<tgen, epoch, published>>
    BY DEF TraderPlace, IsNewVersion
<1>5. /\ Len(placed) \in Nat
      /\ Len(placed') = Len(placed) + 1
      /\ \A i \in 1..Len(placed) : placed'[i] = placed[i]
      /\ placed'[Len(placed) + 1] = [order |-> tcopy, gen |-> tgen, epoch |-> epoch]
    BY <1>1, <1>2
<1>6. QED
    BY <1>3, <1>4, <1>5

\* order_version, the epoch and the attached segment change together or not at all.
LEMMA EpochFrame ==
    ASSUME TypeOK, [Next]_vars
    PROVE  \/ UNCHANGED <<epoch, tgen>> /\ order_version <= order_version'
           \/ epoch' = epoch + 1
<1>1. CASE TraderSkipExpired \/ TraderPlace
    BY <1>1 DEF TraderSkipExpired, TraderPlace, IsNewVersion, TypeOK, Copy
<1>2. CASE TraderRestart
    BY <1>2 DEF TraderRestart
<1>3. CASE UNCHANGED <<epoch, tgen, order_version>>
    BY <1>3 DEF TypeOK
<1>4. QED
    BY <1>1, <1>2, <1>3 DEF Next, WriterStep, TraderStep, Failure, vars, Tick, DecideOrder,
       WriterCheck, WriterAcquire, WriterCopyText, WriterTooLate, WriterCopyNums, WriterBump,
       WriterRelease, WriterCrash, RestartMain, RestartSecondary, TraderAcquire, TraderCopyText,
       TraderCopyNums, TraderRelease, TraderSkipOld, TraderCrash

LEMMA StepPlaced ==
    ASSUME TypeOK, VersionInv, TraderCopyInv, PlacedInv, [Next]_vars
    PROVE  PlacedInv'
<1> DEFINE Good(p) ==
        /\ p.order.version_number > 0
        /\ Intact(p.order, p.gen)
        /\ p.epoch <= epoch
        /\ p.epoch = epoch => p.gen = tgen /\ p.order.version_number <= order_version
<1>1. ASSUME NEW i \in 1..Len(placed) PROVE
          /\ placed[i] \in Placement
          /\ Good(placed[i])
    BY DEF PlacedInv, TypeOK
<1>2. ASSUME NEW p \in Placement, Good(p) PROVE Good(p)'
    <2>1. p.order \in Copy /\ p.gen \in Gens /\ p.epoch \in Nat /\ p.order.version_number \in Nat
        BY DEF Copy, Placement
    <2>2. Intact(p.order, p.gen)'
        BY <1>2, <2>1, IntactStays
    <2>3. epoch \in Nat /\ order_version \in Nat /\ order_version' \in Nat
        BY StepTypeOK DEF TypeOK
    <2>4. QED
        BY <1>2, <2>1, <2>2, <2>3, EpochFrame
<1>3. CASE placed' = placed
    <2>1. ASSUME NEW i \in 1..Len(placed) PROVE Good(placed[i])'
        BY <1>1, <1>2, <1>3
    <2>2. QED
        BY <1>3, <2>1 DEF PlacedInv
<1>4. CASE TraderPlace
    <2>1. ASSUME NEW i \in 1..Len(placed) PROVE Good(placed[i])'
        <3>1. PICK p \in Placement : p = placed[i]
            BY <1>1
        <3>2. Good(p)'
            BY <1>1, <1>2, <3>1
        <3>3. placed'[i] = p
            BY <1>4, <3>1, PlaceFacts
        <3>4. QED
            BY <3>2, <3>3
    <2>2. PICK n \in Nat : n = Len(placed)
        BY <1>4, PlaceFacts
    <2>3. Good(placed[n + 1])'
        <3>1. placed'[n + 1] = [order |-> tcopy, gen |-> tgen, epoch |-> epoch]
            BY <1>4, <2>2, PlaceFacts
        <3>2. Intact(tcopy, tgen)
            BY <1>4, PlaceFacts DEF TraderCopyInv
        <3>3. PICK c \in Copy, g \in Gens : c = tcopy /\ g = tgen
            BY DEF TypeOK
        <3>4. Intact(c, g)'
            BY <3>2, <3>3, IntactStays
        <3>5. placed'[n + 1].order = c /\ placed'[n + 1].gen = g /\ placed'[n + 1].epoch = epoch
            BY <3>1, <3>3
        <3>6. epoch \in Nat
            BY DEF TypeOK
        <3>7. QED
            BY <1>4, <3>3, <3>4, <3>5, <3>6, PlaceFacts
    <2>4. QED
        <3>1. \A i \in 1..(n + 1) : i \in 1..n \/ i = n + 1
            OBVIOUS
        <3>2. Len(placed') = n + 1
            BY <1>4, <2>2, PlaceFacts
        <3>3. \A i \in 1..(n + 1) : Good(placed[i])'
            BY <2>1, <2>2, <2>3, <3>1
        <3>4. QED
            BY <3>2, <3>3 DEF PlacedInv
<1>5. QED
    BY <1>3, <1>4, PlacedFrame

LEMMA StepPlacedOrder ==
    ASSUME TypeOK, PlacedInv, PlacedOrderInv, [Next]_vars
    PROVE  PlacedOrderInv'
<1>1. CASE placed' = placed
    BY <1>1 DEF PlacedOrderInv
<1>2. CASE TraderPlace
    <2>1. PICK n \in Nat : n = Len(placed)
        BY <1>2, PlaceFacts
    <2>2. /\ Len(placed') = n + 1
          /\ \A i \in 1..n : placed'[i] = placed[i]
          /\ placed'[n + 1].gen = tgen
          /\ placed'[n + 1].epoch = epoch
          /\ placed'[n + 1].order.version_number = tcopy.version_number
          /\ order_version \in Nat /\ tcopy.version_number \in Nat
          /\ tcopy.version_number > order_version
        BY <1>2, <2>1, PlaceFacts
    <2>3. SUFFICES ASSUME NEW i \in 1..(n + 1), NEW j \in 1..(n + 1),
                          i < j, placed'[i].epoch = placed'[j].epoch
                   PROVE  /\ placed'[i].gen = placed'[j].gen
                          /\ placed'[i].order.version_number < placed'[j].order.version_number
        BY <2>2 DEF PlacedOrderInv
    <2>4. i \in 1..n /\ placed[i].order.version_number \in Nat
        <3>1. i \in 1..n
            BY <2>3
        <3>2. placed[i] \in Placement
            BY <2>1, <3>1 DEF TypeOK
        <3>3. QED
            BY <3>1, <3>2 DEF Copy, Placement
    <2>5. CASE j = n + 1
        BY <2>1, <2>2, <2>3, <2>4, <2>5 DEF PlacedInv
    <2>6. CASE j \in 1..n
        BY <2>1, <2>2, <2>3, <2>4, <2>6 DEF PlacedOrderInv
    <2>7. QED
        BY <2>5, <2>6
<1>3. QED
    BY <1>1, <1>2, PlacedFrame
-----------------------------------------------------------------------------
(* The theorems *)

LEMMA InitIInv == Init => IInv
<1> SUFFICES ASSUME Init PROVE IInv
    OBVIOUS
<1>1. TypeOK
    BY InitTypeOK
<1>2. MutualExclusion /\ LockInv /\ CopyInv /\ TraderCopyInv
    BY DEF Init, MutualExclusion, LockInv, CopyInv, TraderCopyInv, WriterInside, TraderInside
<1>3. VersionInv /\ FreshInv /\ CellInv /\ PublishedInv
    BY DEF Init, VersionInv, FreshInv, CellInv, PublishedInv, Settled
<1>4. PlacedInv /\ PlacedOrderInv
    BY DEF Init, PlacedInv, PlacedOrderInv
<1>5. QED
    BY <1>1, <1>2, <1>3, <1>4 DEF IInv

LEMMA StepIInv == IInv /\ [Next]_vars => IInv'
BY StepTypeOK, StepLock, StepVersion, StepFresh, StepCell, StepCopy, StepTraderCopy, StepPublished,
   StepPlaced, StepPlacedOrder DEF IInv

\* The order-cell model stays within its types, and IInv is an invariant of it.
THEOREM OrderShmInvariant == Spec => []IInv
BY InitIInv, StepIInv, PTL DEF Spec

\* common_acquire_lock admits one thread per segment, for any number of strategy threads.
THEOREM OrderShmMutualExclusion == Spec => []MutualExclusion
<1>1. IInv => MutualExclusion
    BY DEF IInv
<1>2. QED
    BY <1>1, OrderShmInvariant, PTL

\* scan_and_send_order places only whole orders, each under the version it was written with.
THEOREM OrderShmPlacedIntact == Spec => []PlacedIntact
<1>1. ASSUME IInv PROVE PlacedIntact
    <2>1. placed \in Seq(Placement)
        BY <1>1 DEF IInv, TypeOK
    <2>2. ASSUME NEW i \in DOMAIN placed
          PROVE  /\ placed[i].order.version_number \in DOMAIN published[placed[i].gen]
                 /\ Intact(placed[i].order, placed[i].gen)
                 /\ placed[i].order.version_number > 0
        <3>1. i \in 1..Len(placed) /\ placed[i] \in Placement
            BY <2>1
        <3>2. placed[i].order.version_number > 0 /\ Intact(placed[i].order, placed[i].gen)
            BY <1>1, <3>1 DEF IInv, PlacedInv
        <3>3. placed[i].gen \in Gens /\ published[placed[i].gen] \in Seq(Order)
            BY <1>1, <3>1 DEF IInv, TypeOK, Placement
        <3>4. placed[i].order.version_number \in 1..Len(published[placed[i].gen])
            BY <3>2, <3>3 DEF Intact
        <3>5. QED
            BY <3>2, <3>3, <3>4
    <2>3. QED
        BY <2>2 DEF PlacedIntact, Intact
<1>2. QED
    BY <1>1, OrderShmInvariant, PTL

\* Between two restarts the trader never places an order twice nor an older one after a newer.
THEOREM OrderShmPlacedOnce == Spec => []PlacedOnceInOrder
<1>1. ASSUME IInv PROVE PlacedOnceInOrder
    <2>1. placed \in Seq(Placement)
        BY <1>1 DEF IInv, TypeOK
    <2>2. SUFFICES ASSUME NEW i \in 1..Len(placed), NEW j \in 1..Len(placed),
                          i < j, placed[i].epoch = placed[j].epoch
                   PROVE  placed[i].order.update_time < placed[j].order.update_time
        <3>1. DOMAIN placed = 1..Len(placed)
            BY <2>1
        <3>2. QED
            BY <3>1 DEF PlacedOnceInOrder
    <2>3. /\ placed[i].gen = placed[j].gen
          /\ placed[i].order.version_number < placed[j].order.version_number
        BY <1>1, <2>2 DEF IInv, PlacedOrderInv
    <2>4. /\ Intact(placed[i].order, placed[i].gen) /\ placed[i].order.version_number > 0
          /\ Intact(placed[j].order, placed[j].gen) /\ placed[j].order.version_number > 0
        BY <1>1 DEF IInv, PlacedInv
    <2>5. placed[i].gen \in Gens /\ published[placed[i].gen] \in Seq(Order)
        <3>1. placed[i] \in Placement
            BY <2>1
        <3>2. placed[i].gen \in Gens
            BY <3>1 DEF Placement
        <3>3. QED
            BY <1>1, <3>2 DEF IInv, TypeOK
    <2>6. /\ placed[i].order.version_number \in 1..Len(published[placed[i].gen])
          /\ placed[j].order.version_number \in 1..Len(published[placed[i].gen])
        BY <2>3, <2>4, <2>5 DEF Intact
    <2>7. published[placed[i].gen][placed[i].order.version_number].time
            < published[placed[i].gen][placed[j].order.version_number].time
        BY <1>1, <2>3, <2>5, <2>6 DEF IInv, PublishedInv
    <2>8. QED
        BY <2>3, <2>4, <2>7 DEF Intact
<1>2. QED
    BY <1>1, OrderShmInvariant, PTL

\* No step takes a cell back to an older order or a smaller version, whichever strategy
\* thread wins the lock and whatever is restarted in between.
THEOREM OrderShmCellNeverGoesBack == Spec => CellNeverGoesBack
<1> DEFINE Forward == \A g \in Gens : /\ update_time[g] <= update_time'[g]
                                      /\ version_number[g] <= version_number'[g]
<1>1. ASSUME IInv, IInv', [Next]_vars PROVE Forward
    <2>0. /\ update_time \in [Gens -> Nat] /\ version_number \in [Gens -> Nat]
          /\ update_time' \in [Gens -> Nat] /\ version_number' \in [Gens -> Nat]
        BY <1>1 DEF IInv, TypeOK
    <2>1. ASSUME NEW w \in Writers, WriterCopyText(w) PROVE Forward
        BY <2>0, <2>1 DEF WriterCopyText
    <2>2. ASSUME NEW w \in Writers, WriterCopyNums(w) PROVE Forward
        <3>1. /\ wpc[w] = "nums" /\ wgen[w] \in Gens /\ version_number' = version_number
              /\ update_time' = [update_time EXCEPT ![wgen[w]] = worder[w].time]
            BY <1>1, <2>2 DEF WriterCopyNums, IInv, TypeOK
        <3>2. update_time[wgen[w]] < worder[w].time
            BY <1>1, <3>1 DEF IInv, CopyInv
        <3>3. QED
            BY <2>0, <3>1, <3>2
    <2>3. ASSUME NEW w \in Writers, WriterBump(w) PROVE Forward
        BY <2>0, <2>3, SMTT(20) DEF WriterBump, BumpVersion
    <2>4. ASSUME NEW w \in Writers, RestartMain(w) PROVE Forward
        <3>1. /\ current + 1 \in Gens
              /\ update_time' = [update_time EXCEPT ![current + 1] = 0]
              /\ version_number' = [version_number EXCEPT ![current + 1] = 0]
            BY <1>1, <2>4 DEF RestartMain, order_shm_writer_init, IInv, TypeOK
        <3>2. update_time[current + 1] = 0 /\ version_number[current + 1] = 0
            BY <1>1, <3>1 DEF IInv, FreshInv, TypeOK
        <3>3. QED
            BY <2>0, <3>1, <3>2
    <2>5. CASE UNCHANGED <<update_time, version_number>>
        BY <2>0, <2>5
    <2>6. QED
        BY <1>1, <2>1, <2>2, <2>3, <2>4, <2>5, CellFrame
<1>2. QED
    BY <1>1, OrderShmInvariant, PTL DEF Spec, CellNeverGoesBack

\* The fields of a cell and of the copies have the types of the code's structures, and a
\* strategy thread inside order_shm_writer_update has an order in hand.
THEOREM OrderShmTypeOK == Spec => []TypeOK
<1>1. IInv => TypeOK
    BY DEF IInv
<1>2. QED
    BY <1>1, OrderShmInvariant, PTL
-----------------------------------------------------------------------------
(* The newest-wins mailbox *)

\* What the trader has taken, by where it stands.
TakenIs ==
    /\ tpc = "down" => Taken = 0
    /\ tpc \in {"scan", "text", "nums"} => Taken = order_version
    /\ tpc \in {"unlock", "judge"} =>
          Taken = IF tcopy.version_number > order_version
                  THEN tcopy.version_number ELSE order_version

LEMMA TakenFacts == TypeOK => TakenIs
BY DEF TypeOK, Taken, TakenIs

\* The history of every segment has increasing time stamps.
LEMMA MailboxOrdered == IInv => Mailbox!StrictlyNewer
<1> SUFFICES ASSUME IInv PROVE Mailbox!StrictlyNewer
    OBVIOUS
<1>1. tgen \in Gens /\ published[tgen] \in Seq(Order)
    BY DEF IInv, TypeOK
<1>2. DOMAIN published[tgen] = 1..Len(published[tgen])
    BY <1>1
<1>3. QED
    BY <1>1, <1>2 DEF IInv, PublishedInv, Mailbox!StrictlyNewer

\* A step that leaves the trader alone publishes one order or is none of the mailbox.
LEMMA MailboxPublish ==
    ASSUME IInv, [Next]_vars, UNCHANGED <<tpc, tcopy, tgen, order_version>>
    PROVE  [Mailbox!Next]_Mailbox!vars
<1>1. Taken' = Taken
    BY DEF Taken
<1>2. CASE published' = published
    BY <1>1, <1>2 DEF Mailbox!vars
<1>3. ASSUME NEW w \in Writers, WriterBump(w) PROVE [Mailbox!Next]_Mailbox!vars
    <2>1. CASE wgen[w] # tgen
        <3>1. tgen \in Gens
            BY DEF IInv, TypeOK
        <3>2. published'[tgen] = published[tgen]
            BY <1>3, <2>1, <3>1, BumpFacts DEF IInv, SameCell
        <3>3. QED
            BY <1>1, <3>2 DEF Mailbox!vars
    <2>2. CASE wgen[w] = tgen
        <3>1. /\ wpc[w] = "bump" /\ worder[w] \in Order
              /\ tgen \in Gens /\ published[tgen] \in Seq(Order)
              /\ Len(published[tgen]) = version_number[tgen]
            BY <1>3, <2>2, BumpFacts DEF IInv, TypeOK
        <3>2. published'[tgen] = Append(published[tgen], worder[w])
            BY <1>3, <2>2, <3>1 DEF WriterBump, IInv, TypeOK
        <3>3. published[tgen] = << >> \/ published[tgen][Len(published[tgen])].time < worder[w].time
            <4>1. CASE version_number[tgen] = 0
                BY <3>1, <4>1
            <4>2. CASE version_number[tgen] > 0
                BY <2>2, <3>1, <4>2 DEF IInv, CopyInv
            <4>3. version_number[tgen] \in Nat
                BY <3>1 DEF IInv, TypeOK
            <4>4. QED
                BY <4>1, <4>2, <4>3
        <3>4. Mailbox!Publish(worder[w])
            BY <1>1, <3>2, <3>3 DEF Mailbox!Publish
        <3>5. QED
            BY <3>1, <3>4 DEF Mailbox!Next
    <2>3. QED
        BY <2>1, <2>2
<1>4. QED
    BY <1>2, <1>3, CellFrame DEF WriterCopyText, WriterCopyNums, RestartMain

LEMMA MailboxStep ==
    ASSUME IInv, IInv', [Next]_vars
    PROVE  [Mailbox!Next]_Mailbox!vars
<1>0. /\ TypeOK /\ TypeOK'
      /\ TakenIs /\ TakenIs'
      /\ Mailbox!StrictlyNewer'
      /\ tgen \in Gens
      /\ order_version \in Nat
      /\ tcopy.version_number \in Nat
      /\ Len(published[tgen]) = version_number[tgen]
      /\ version_number[tgen] \in Nat
    <2>1. IInv' => Mailbox!StrictlyNewer'
        BY MailboxOrdered, PTL
    <2>2. TypeOK' => TakenIs'
        BY TakenFacts, PTL
    <2>3. TypeOK /\ TypeOK'
        BY DEF IInv
    <2>4. QED
        BY <2>1, <2>2, <2>3, TakenFacts DEF IInv, TypeOK, Copy, VersionInv
<1>1. CASE UNCHANGED <<tpc, tcopy, tgen, order_version>>
    BY <1>1, MailboxPublish
<1>2. ASSUME published' = published, tgen' = tgen, Taken' = Taken PROVE [Mailbox!Next]_Mailbox!vars
    BY <1>2 DEF Mailbox!vars
<1>3. ASSUME Taken' = 0 PROVE [Mailbox!Next]_Mailbox!vars
    BY <1>0, <1>3 DEF Mailbox!Next, Mailbox!Reattach
<1>4. CASE TraderAcquire \/ TraderCopyText
    <2>1. /\ tpc \in {"scan", "text", "nums"} /\ tpc' \in {"scan", "text", "nums"}
          /\ UNCHANGED <<published, tgen, order_version>>
        BY <1>4 DEF TraderAcquire, TraderCopyText
    <2>2. Taken' = Taken
        BY <1>0, <2>1 DEF TakenIs
    <2>3. QED
        BY <1>2, <2>1, <2>2
<1>5. CASE TraderCopyNums
    <2>1. /\ tpc = "nums" /\ tpc' = "unlock"
          /\ UNCHANGED <<published, tgen, order_version>>
          /\ tcopy'.version_number = version_number[tgen]
        BY <1>0, <1>5 DEF TraderCopyNums, TypeOK, Copy
    <2>2. Taken = order_version
        BY <1>0, <2>1 DEF TakenIs
    <2>3. Taken' = IF version_number[tgen] > order_version THEN version_number[tgen] ELSE order_version
        BY <1>0, <2>1 DEF TakenIs
    <2>4. CASE version_number[tgen] > order_version
        <3>1. Mailbox!Take
            BY <1>0, <2>1, <2>2, <2>3, <2>4 DEF Mailbox!Take
        <3>2. QED
            BY <3>1 DEF Mailbox!Next
    <2>5. CASE ~(version_number[tgen] > order_version)
        BY <1>2, <2>1, <2>2, <2>3, <2>5
    <2>6. QED
        BY <2>4, <2>5
<1>6. CASE TraderRelease
    <2>1. /\ tpc = "unlock" /\ tpc' = "judge"
          /\ UNCHANGED <<published, tgen, order_version, tcopy>>
        BY <1>6 DEF TraderRelease
    <2>2. Taken' = Taken
        BY <1>0, <2>1 DEF TakenIs
    <2>3. QED
        BY <1>2, <2>1, <2>2
<1>7. CASE TraderSkipOld \/ TraderSkipExpired \/ TraderPlace
    <2>1. /\ tpc = "judge" /\ tpc' = "scan"
          /\ UNCHANGED <<published, tgen>>
        BY <1>7 DEF TraderSkipOld, TraderSkipExpired, TraderPlace, NextScan
    <2>2. order_version' = IF tcopy.version_number > order_version
                           THEN tcopy.version_number ELSE order_version
        BY <1>7 DEF TraderSkipOld, TraderSkipExpired, TraderPlace, IsNewVersion
    <2>3. Taken' = Taken
        BY <1>0, <2>1, <2>2 DEF TakenIs
    <2>4. QED
        BY <1>2, <2>1, <2>3
<1>8. CASE TraderCrash
    <2>1. tpc' = "down"
        BY <1>8 DEF TraderCrash, NextScan
    <2>2. Taken' = 0
        BY <1>0, <2>1 DEF TakenIs
    <2>3. QED
        BY <1>3, <2>2
<1>9. CASE TraderRestart
    <2>1. tpc' = "scan" /\ order_version' = 0
        BY <1>9 DEF TraderRestart, NextScan
    <2>2. Taken' = 0
        BY <1>0, <2>1 DEF TakenIs
    <2>3. QED
        BY <1>3, <2>2
<1>10. \/ UNCHANGED <<tpc, tcopy, tgen, order_version>>
       \/ TraderAcquire \/ TraderCopyText \/ TraderCopyNums \/ TraderRelease
       \/ TraderSkipOld \/ TraderSkipExpired \/ TraderPlace
       \/ TraderCrash \/ TraderRestart
    BY DEF Next, WriterStep, TraderStep, Failure, vars, Tick, DecideOrder, WriterCheck, WriterAcquire,
       WriterCopyText, WriterTooLate, WriterCopyNums, WriterBump, WriterRelease, WriterCrash,
       RestartMain, RestartSecondary
<1>11. QED
    BY <1>1, <1>4, <1>5, <1>6, <1>7, <1>8, <1>9, <1>10

\* The cell with its lock, its field-wise copies, its killed processes and its recreated
\* segments implements the newest-wins mailbox, for any number of strategy threads.
THEOREM OrderShmRefinesMailbox == Spec => RefinesMailbox
<1>1. Init => Mailbox!Init
    <2> SUFFICES ASSUME Init PROVE Mailbox!Init
        OBVIOUS
    <2>1. published[tgen] = << >>
        BY DEF Init
    <2>2. Taken = 0
        BY TakenFacts, InitTypeOK DEF Init, TakenIs
    <2>3. QED
        BY <2>1, <2>2 DEF Mailbox!Init
<1>2. IInv /\ IInv' /\ [Next]_vars => [Mailbox!Next]_Mailbox!vars
    BY MailboxStep
<1>3. QED
    BY <1>1, <1>2, OrderShmInvariant, PTL DEF Spec, RefinesMailbox, Mailbox!Spec
=============================================================================
