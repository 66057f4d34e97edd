------------------------- MODULE TradeProcessorProofs -------------------------
(***************************************************************************)
(* Proofs about TradeProcessor for any symbols, limits and periods: the    *)
(* account stays within both of its budgets, and a symbol whose interval   *)
(* semaphore is burnt places at most one more order.                       *)
(*                                                                         *)
(* As with the best-path limiter the rate is not inductive as it stands:   *)
(* what is kept is that the orders placed, the semaphores scan threads     *)
(* have drawn for orders they have not placed yet and those that are left  *)
(* fit the periods started at the counter's last reset.                    *)
(***************************************************************************)
EXTENDS TradeProcessor, FiniteSetTheorems, TLAPS

Account == {"minute", "second"}

\* where a scan thread stands after it has drawn from the counter
Past(c) == IF c = "minute" THEN {"second", "place"} ELSE {"place"}

\* the symbols whose order has drawn from the counter and is not placed yet
Drawn(c) == {s \in Symbols : spc[s] \in Past(c)}

Budget(c) == semaphore_init_count(c) * (1 + (latest_reset[c] - 1) \div reset_duration(c))

\* No time the refresh threads noted is in the future.
ClockInv ==
    /\ now >= 1
    /\ \A c \in Counters : latest_reset[c] \in 1..now
    /\ \A b \in Bosses : rnow[b] <= now

BudgetInv == \A c \in Account : placed + Cardinality(Drawn(c)) + remain[c] <= Budget(c)

\* Once the straggler of a burnt semaphore is placed, the scan thread stays at its scan.
StragglerInv ==
    \A s \in Symbols :
        /\ remain[s] > 0 => since_burn[s] = 0
        /\ remain[s] = 0 => since_burn[s] = 0 \/ (since_burn[s] = 1 /\ spc[s] = "scan")

IInv == TypeOK /\ ClockInv /\ BudgetInv /\ StragglerInv
-----------------------------------------------------------------------------
(* Arithmetic *)

\* Started periods do not become fewer, and a full period more is one more.
LEMMA Periods ==
    ASSUME NEW a \in Nat, NEW b \in Nat, NEW d \in Nat \ {0}, a <= b
    PROVE  /\ a \div d \in Nat
           /\ b \div d \in Nat
           /\ a \div d <= b \div d
           /\ a + d <= b => (a \div d) + 1 <= b \div d
<1> DEFINE q == a \div d
           r == b \div d
<1>1. q \in Nat /\ r \in Nat
    BY SMT
<1>2. d * q <= a /\ b < d * r + d
    BY SMT
<1> HIDE DEF q, r
<1>3. ~(r + 1 <= q)
    <2> SUFFICES ASSUME r + 1 <= q PROVE FALSE
        OBVIOUS
    <2>1. d * (r + 1) <= d * q /\ d * (r + 1) = d * r + d
        BY <1>1, SMT
    <2>2. QED
        BY <1>1, <1>2, <2>1, SMT
<1>4. a + d <= b => ~(r <= q)
    <2> SUFFICES ASSUME a + d <= b, r <= q PROVE FALSE
        OBVIOUS
    <2>1. d * r <= d * q
        BY <1>1, SMT
    <2>2. QED
        BY <1>1, <1>2, <2>1, SMT
<1>5. q <= r /\ (a + d <= b => q + 1 <= r)
    BY <1>1, <1>3, <1>4, SMT
<1>6. QED
    BY <1>1, <1>5 DEF q, r

\* A limit per started period: what it allows later, and a full period later.
LEMMA Allowance ==
    ASSUME NEW l \in Nat, NEW a \in Nat, NEW b \in Nat, NEW d \in Nat \ {0}, a <= b
    PROVE  /\ l * (1 + a \div d) \in Nat
           /\ l * (1 + b \div d) \in Nat
           /\ l * (1 + a \div d) <= l * (1 + b \div d)
           /\ a + d <= b => l * (1 + a \div d) + l <= l * (1 + b \div d)
<1> DEFINE q == a \div d
           r == b \div d
<1>1. q \in Nat /\ r \in Nat /\ q <= r /\ (a + d <= b => q + 1 <= r)
    BY Periods
<1> HIDE DEF q, r
<1>2. l * (1 + q) \in Nat /\ l * (1 + r) \in Nat /\ l * (1 + q) <= l * (1 + r)
    BY <1>1, SMT
<1>3. ASSUME q + 1 <= r PROVE l * (1 + q) + l <= l * (1 + r)
    <2>1. l * (1 + (q + 1)) <= l * (1 + r) /\ l * (1 + (q + 1)) = l * (1 + q) + l
        BY <1>1, <1>3, SMT
    <2>2. QED
        BY <2>1
<1>4. QED
    BY <1>1, <1>2, <1>3 DEF q, r
-----------------------------------------------------------------------------
USE TradeProcessorAssumption DEF TradeProcessorAssumption, Counters, counterVars, refreshVars

LEMMA CounterTypes ==
    /\ \A c \in Counters : semaphore_init_count(c) \in Nat /\ reset_duration(c) \in Nat \ {0}
    /\ semaphore_init_count("minute") = MinuteLimit /\ reset_duration("minute") = MinuteDuration
    /\ semaphore_init_count("second") = SecondLimit /\ reset_duration("second") = SecondDuration
    /\ \A s \in Symbols : semaphore_init_count(s) = 1
BY DEF semaphore_init_count, reset_duration

LEMMA DrawnFinite == \A c : IsFiniteSet(Drawn(c)) /\ Cardinality(Drawn(c)) \in Nat
<1>1. \A c : Drawn(c) \subseteq Symbols
    BY DEF Drawn
<1>2. QED
    BY <1>1, FS_Subset, FS_CardinalityType

\* A scan thread that moves on has drawn, has placed or gives up, or is where it was.
LEMMA DrawnMoves ==
    ASSUME TypeOK, NEW s \in Symbols, NEW l, Goto(s, l), NEW c
    PROVE  /\ Cardinality(Drawn(c)') \in Nat
           /\ spc[s] \notin Past(c) /\ l \in Past(c) => Cardinality(Drawn(c)') = Cardinality(Drawn(c)) + 1
           /\ (spc[s] \in Past(c) <=> l \in Past(c)) => Cardinality(Drawn(c)') = Cardinality(Drawn(c))
           /\ spc[s] \in Past(c) /\ l \notin Past(c) => /\ Cardinality(Drawn(c)') = Cardinality(Drawn(c)) - 1
                                                        /\ Cardinality(Drawn(c)) >= 1
<1>1. \A x \in Symbols : spc'[x] = IF x = s THEN l ELSE spc[x]
    BY DEF Goto, TypeOK
<1>2. Drawn(c)' = {x \in Symbols : spc'[x] \in Past(c)}
    BY DEF Drawn
<1>3. IsFiniteSet(Drawn(c)) /\ Cardinality(Drawn(c)) \in Nat
    BY DrawnFinite
<1>4. CASE spc[s] \notin Past(c) /\ l \in Past(c)
    <2>1. s \notin Drawn(c) /\ Drawn(c)' = Drawn(c) \cup {s}
        BY <1>1, <1>2, <1>4 DEF Drawn
    <2>2. Cardinality(Drawn(c) \cup {s}) = Cardinality(Drawn(c)) + 1
        BY <1>3, <2>1, FS_AddElement
    <2>3. QED
        BY <1>3, <1>4, <2>1, <2>2
<1>5. CASE spc[s] \in Past(c) <=> l \in Past(c)
    <2>1. Drawn(c)' = Drawn(c)
        BY <1>1, <1>2, <1>5 DEF Drawn
    <2>2. QED
        BY <1>3, <1>5, <2>1
<1>6. CASE spc[s] \in Past(c) /\ l \notin Past(c)
    <2>1. s \in Drawn(c) /\ Drawn(c)' = Drawn(c) \ {s}
        BY <1>1, <1>2, <1>6 DEF Drawn
    <2>2. Cardinality(Drawn(c) \ {s}) = Cardinality(Drawn(c)) - 1
        BY <1>3, <2>1, FS_RemoveElement
    <2>3. Cardinality(Drawn(c)) # 0
        BY <1>3, <2>1, FS_EmptySet
    <2>4. QED
        BY <1>3, <1>6, <2>1, <2>2, <2>3
<1>7. QED
    BY <1>4, <1>5, <1>6
-----------------------------------------------------------------------------
LEMMA InitIInv == Init => IInv
<1> SUFFICES ASSUME Init PROVE IInv
    OBVIOUS
<1>1. TypeOK
    BY CounterTypes, SMTT(20) DEF Init, TypeOK, Bosses
<1>2. ClockInv
    BY DEF Init, ClockInv
<1>3. BudgetInv
    <2> SUFFICES ASSUME NEW c \in Account PROVE placed + Cardinality(Drawn(c)) + remain[c] <= Budget(c)
        BY DEF BudgetInv
    <2>1. Drawn(c) = {}
        BY DEF Init, Drawn, Past, Account
    <2>2. Cardinality(Drawn(c)) = 0
        BY <2>1, FS_EmptySet
    <2>3. /\ c \in Counters /\ placed = 0
          /\ remain[c] = semaphore_init_count(c) /\ semaphore_init_count(c) \in Nat
          /\ latest_reset[c] - 1 = 0 /\ reset_duration(c) \in Nat \ {0}
        BY CounterTypes DEF Init, Account
    <2>4. 0 \div reset_duration(c) = 0
        <3>1. \A d \in Nat \ {0} : 0 \div d = 0
            BY SMT
        <3>2. QED
            BY <2>3, <3>1
    <2>5. QED
        BY <2>2, <2>3, <2>4 DEF Budget
<1>4. StragglerInv
    BY CounterTypes DEF Init, StragglerInv
<1>5. QED
    BY <1>1, <1>2, <1>3, <1>4 DEF IInv

\* The message thread finds a message of one of the symbols and draws from its counter or from none.
LEMMA MessageEffect ==
    ASSUME TypeOK, ProcessMessage
    PROVE  /\ channel' \in Seq([symbol : Symbols, filled : BOOLEAN])
           /\ remain' \in [Counters -> Nat]
           /\ \A c \in Counters : remain'[c] = remain[c] \/ (c \in Symbols /\ remain[c] > 0)
<1> DEFINE Message == [symbol : Symbols, filled : BOOLEAN]
           m == Head(channel)
<1>1. \A x \in Message : x.symbol \in Symbols
    OBVIOUS
<1> HIDE DEF Message
<1>2. channel \in Seq(Message) /\ channel # << >> /\ channel' = Tail(channel)
    BY DEF TypeOK, ProcessMessage, Message
<1>3. m \in Message /\ channel' \in Seq(Message)
    BY <1>2
<1>4. m.symbol \in Symbols
    BY <1>1, <1>3
<1>5. \/ remain' = remain
      \/ remain[m.symbol] >= 1 /\ remain' = [remain EXCEPT ![m.symbol] = @ - 1]
    BY DEF ProcessMessage, Get
<1> HIDE DEF m
<1>6. /\ remain' \in [Counters -> Nat]
      /\ \A c \in Counters : remain'[c] = remain[c] \/ (c \in Symbols /\ remain[c] > 0)
    BY <1>4, <1>5 DEF TypeOK
<1>7. QED
    BY <1>3, <1>6 DEF Message

LEMMA StepTypeOK == TypeOK /\ [Next]_vars => TypeOK'
<1> SUFFICES ASSUME TypeOK, [Next]_vars PROVE TypeOK'
    OBVIOUS
<1> USE DEF TypeOK
<1>1. CASE Tick
    BY <1>1 DEF Tick
<1>2. ASSUME NEW b \in Bosses, RefreshRead(b) PROVE TypeOK'
    <2>1. counter_map(b) \subseteq Counters
        BY DEF counter_map
    <2>2. QED
        BY <1>2, <2>1 DEF RefreshRead
<1>3. ASSUME NEW b \in Bosses, NEW c \in Counters, RefreshCounter(b, c) PROVE TypeOK'
    <2>1. todo' \in [Bosses -> SUBSET Counters]
        BY <1>3 DEF RefreshCounter
    <2>2. CASE CycleEnd(c, rnow[b])
        <3>0. /\ remain' = [remain EXCEPT ![c] = semaphore_init_count(c)]
              /\ latest_reset' = [latest_reset EXCEPT ![c] = rnow[b]]
              /\ since_burn' = [s \in Symbols |-> IF s = c THEN 0 ELSE since_burn[s]]
            BY <1>3, <2>2 DEF RefreshCounter
        <3>1. semaphore_init_count(c) \in Nat /\ rnow[b] \in Nat
            BY CounterTypes
        <3>2. remain' \in [Counters -> Nat] /\ latest_reset' \in [Counters -> Nat]
            BY <3>0, <3>1
        <3>3. since_burn' \in [Symbols -> Nat]
            BY <3>0
        <3>4. QED
            BY <1>3, <2>1, <3>2, <3>3 DEF RefreshCounter
    <2>3. CASE ~CycleEnd(c, rnow[b])
        BY <1>3, <2>1, <2>3 DEF RefreshCounter
    <2>4. QED
        BY <2>2, <2>3
<1>4. ASSUME NEW s \in Symbols, TakeOrder(s) PROVE TypeOK'
    BY <1>4 DEF TakeOrder, Goto
<1>5. ASSUME NEW s \in Symbols, Draw(s, "minute", "second") PROVE TypeOK'
    <2>1. spc' \in [Symbols -> {"scan", "minute", "second", "place"}]
        BY <1>5 DEF Draw, Goto
    <2>2. remain' \in [Counters -> Nat]
        BY <1>5 DEF Draw, Get
    <2>3. QED
        BY <1>5, <2>1, <2>2 DEF Draw
<1>6. ASSUME NEW s \in Symbols, Draw(s, "second", "place") PROVE TypeOK'
    <2>1. spc' \in [Symbols -> {"scan", "minute", "second", "place"}]
        BY <1>6 DEF Draw, Goto
    <2>2. remain' \in [Counters -> Nat]
        BY <1>6 DEF Draw, Get
    <2>3. QED
        BY <1>6, <2>1, <2>2 DEF Draw
<1>7. ASSUME NEW s \in Symbols, PlaceOrder(s) PROVE TypeOK'
    BY <1>7 DEF PlaceOrder, Goto
<1>8. ASSUME NEW s \in Symbols, NEW filled \in BOOLEAN, Answer(s, filled) PROVE TypeOK'
    <2>1. [symbol |-> s, filled |-> filled] \in [symbol : Symbols, filled : BOOLEAN]
        OBVIOUS
    <2>2. channel' \in Seq([symbol : Symbols, filled : BOOLEAN])
        BY <1>8, <2>1 DEF Answer
    <2>3. awaiting' \in [Symbols -> Nat]
        BY <1>8 DEF Answer
    <2>4. QED
        BY <1>8, <2>2, <2>3 DEF Answer
<1>9. CASE ProcessMessage
    BY <1>9, MessageEffect DEF ProcessMessage
<1>10. CASE UNCHANGED vars
    BY <1>10 DEF vars
<1>11. QED
    BY <1>1, <1>2, <1>3, <1>4, <1>5, <1>6, <1>7, <1>8, <1>9, <1>10 DEF Next, ScanStep

LEMMA StepClock == IInv /\ [Next]_vars => ClockInv'
<1> SUFFICES ASSUME IInv, [Next]_vars PROVE ClockInv'
    OBVIOUS
<1>0. TypeOK /\ ClockInv
    BY DEF IInv
<1>1. CASE Tick
    BY <1>0, <1>1 DEF Tick, ClockInv, TypeOK
<1>2. ASSUME NEW b \in Bosses, RefreshRead(b) PROVE ClockInv'
    BY <1>0, <1>2 DEF RefreshRead, ClockInv, TypeOK
<1>3. ASSUME NEW b \in Bosses, NEW c \in Counters, RefreshCounter(b, c) PROVE ClockInv'
    <2>1. CASE CycleEnd(c, rnow[b])
        <3>1. rnow[b] \in 1..now
            BY <1>0, <2>1, CounterTypes DEF CycleEnd, ClockInv, TypeOK
        <3>2. latest_reset' = [latest_reset EXCEPT ![c] = rnow[b]] /\ UNCHANGED <<now, rnow>>
            BY <1>3, <2>1 DEF RefreshCounter
        <3>3. QED
            BY <1>0, <3>1, <3>2 DEF ClockInv, TypeOK
    <2>2. CASE ~CycleEnd(c, rnow[b])
        BY <1>0, <1>3, <2>2 DEF RefreshCounter, ClockInv
    <2>3. QED
        BY <2>1, <2>2
<1>4. CASE UNCHANGED <<now, latest_reset, rnow>>
    BY <1>0, <1>4 DEF ClockInv
<1>5. QED
    BY <1>1, <1>2, <1>3, <1>4 DEF Next, ScanStep, TakeOrder, Draw, PlaceOrder, Answer, ProcessMessage, vars

LEMMA StepBudget == IInv /\ [Next]_vars => BudgetInv'
<1> SUFFICES ASSUME IInv, [Next]_vars, NEW c \in Account
             PROVE  placed' + Cardinality(Drawn(c)') + remain'[c] <= Budget(c)'
    BY DEF BudgetInv
<1>0. /\ TypeOK /\ ClockInv
      /\ c \in Counters /\ c \notin Symbols
      /\ placed \in Nat /\ remain[c] \in Nat /\ Cardinality(Drawn(c)) \in Nat
      /\ semaphore_init_count(c) \in Nat /\ reset_duration(c) \in Nat \ {0}
      /\ latest_reset[c] \in Nat /\ latest_reset[c] - 1 \in Nat
    BY CounterTypes, DrawnFinite, SMTT(20) DEF IInv, TypeOK, ClockInv, Account
<1>1. Budget(c) \in Nat
    <2>1. latest_reset[c] - 1 <= latest_reset[c] - 1
        BY <1>0
    <2>2. QED
        BY <1>0, <2>1, Allowance DEF Budget
<1>2. placed + Cardinality(Drawn(c)) + remain[c] <= Budget(c)
    BY DEF IInv, BudgetInv
<1>3. ASSUME UNCHANGED <<placed, spc>>, remain'[c] = remain[c], latest_reset'[c] = latest_reset[c]
      PROVE  placed' + Cardinality(Drawn(c)') + remain'[c] <= Budget(c)'
    <2>1. Drawn(c)' = Drawn(c)
        BY <1>3 DEF Drawn
    <2>2. Budget(c)' = Budget(c)
        BY <1>3 DEF Budget
    <2>3. QED
        BY <1>2, <1>3, <2>1, <2>2
<1>4. ASSUME NEW b \in Bosses, NEW x \in Counters, RefreshCounter(b, x)
      PROVE  placed' + Cardinality(Drawn(c)') + remain'[c] <= Budget(c)'
    <2>1. UNCHANGED <<placed, spc>>
        BY <1>4 DEF RefreshCounter
    <2>2. CASE ~(x = c /\ CycleEnd(c, rnow[b]))
        BY <1>0, <1>3, <1>4, <2>1, <2>2, SMTT(20) DEF RefreshCounter, TypeOK
    <2>3. CASE x = c /\ CycleEnd(c, rnow[b])
        <3>1. remain'[c] = semaphore_init_count(c) /\ latest_reset'[c] = rnow[b]
            BY <1>0, <1>4, <2>3 DEF RefreshCounter, TypeOK
        <3>2. rnow[b] \in Nat /\ latest_reset[c] + reset_duration(c) <= rnow[b]
            BY <1>0, <2>3 DEF TypeOK, CycleEnd
        <3>3. /\ rnow[b] - 1 \in Nat
              /\ latest_reset[c] - 1 <= rnow[b] - 1
              /\ (latest_reset[c] - 1) + reset_duration(c) <= rnow[b] - 1
            BY <1>0, <3>2
        <3>4. Budget(c)' = semaphore_init_count(c) * (1 + (rnow[b] - 1) \div reset_duration(c))
            BY <3>1 DEF Budget
        <3>5. Budget(c)' \in Nat /\ Budget(c) + semaphore_init_count(c) <= Budget(c)'
            BY <1>0, <3>3, <3>4, Allowance DEF Budget
        <3>6. Drawn(c)' = Drawn(c)
            BY <2>1 DEF Drawn
        <3>7. QED
            BY <1>0, <1>1, <1>2, <2>1, <3>1, <3>5, <3>6
    <2>4. QED
        BY <2>2, <2>3
<1>5. ASSUME UNCHANGED latest_reset PROVE Budget(c)' = Budget(c)
    BY <1>5 DEF Budget
<1>6. ASSUME NEW s \in Symbols, TakeOrder(s)
      PROVE  placed' + Cardinality(Drawn(c)') + remain'[c] <= Budget(c)'
    <2>1. Goto(s, "minute") /\ spc[s] \notin Past(c) /\ "minute" \notin Past(c)
        BY <1>6 DEF TakeOrder, Past
    <2>2. Cardinality(Drawn(c)') = Cardinality(Drawn(c))
        BY <1>0, <2>1, DrawnMoves
    <2>3. QED
        BY <1>2, <1>5, <1>6, <2>2 DEF TakeOrder
<1>7. ASSUME NEW s \in Symbols, NEW x \in Account, NEW next, Draw(s, x, next),
             next = IF x = "minute" THEN "second" ELSE "place"
      PROVE  placed' + Cardinality(Drawn(c)') + remain'[c] <= Budget(c)'
    <2>1. spc[s] = x /\ placed' = placed /\ Budget(c)' = Budget(c)
        BY <1>5, <1>7 DEF Draw
    <2>2. CASE Get(x) /\ Goto(s, next) /\ x = c
        <3>1. spc[s] \notin Past(c) /\ next \in Past(c)
            BY <1>7, <2>1, <2>2 DEF Past, Account
        <3>2. Cardinality(Drawn(c)') = Cardinality(Drawn(c)) + 1
            BY <1>0, <2>2, <3>1, DrawnMoves
        <3>3. remain'[c] = remain[c] - 1
            BY <1>0, <2>2 DEF Get, TypeOK
        <3>4. QED
            BY <1>0, <1>1, <1>2, <2>1, <3>2, <3>3
    <2>3. CASE Get(x) /\ Goto(s, next) /\ x # c
        <3>1. spc[s] \in Past(c) <=> next \in Past(c)
            BY <1>7, <2>1, <2>3 DEF Past, Account
        <3>2. Cardinality(Drawn(c)') = Cardinality(Drawn(c))
            BY <1>0, <2>3, <3>1, DrawnMoves
        <3>3. remain'[c] = remain[c]
            BY <1>0, <2>3 DEF Get, TypeOK
        <3>4. QED
            BY <1>2, <2>1, <3>2, <3>3
    <2>4. CASE Goto(s, "scan") /\ UNCHANGED remain
        <3>1. "scan" \notin Past(c)
            BY DEF Past
        <3>2. Cardinality(Drawn(c)') \in Nat /\ Cardinality(Drawn(c)') <= Cardinality(Drawn(c))
            BY <1>0, <2>4, <3>1, DrawnMoves
        <3>3. QED
            BY <1>0, <1>1, <1>2, <2>1, <2>4, <3>2
    <2>5. QED
        BY <1>7, <2>2, <2>3, <2>4 DEF Draw
<1>8. ASSUME NEW s \in Symbols, PlaceOrder(s)
      PROVE  placed' + Cardinality(Drawn(c)') + remain'[c] <= Budget(c)'
    <2>1. /\ Goto(s, "scan") /\ spc[s] \in Past(c) /\ "scan" \notin Past(c)
          /\ placed' = placed + 1 /\ UNCHANGED <<remain, latest_reset>>
        BY <1>8 DEF PlaceOrder, Past
    <2>2. Cardinality(Drawn(c)') = Cardinality(Drawn(c)) - 1
        BY <1>0, <2>1, DrawnMoves
    <2>3. QED
        BY <1>0, <1>1, <1>2, <1>5, <2>1, <2>2
<1>9. CASE ProcessMessage
    <2>1. remain'[c] = remain[c]
        BY <1>0, <1>9, MessageEffect
    <2>2. QED
        BY <1>3, <1>9, <2>1 DEF ProcessMessage
<1>10. CASE Tick
    BY <1>3, <1>10 DEF Tick
<1>11. ASSUME NEW b \in Bosses, RefreshRead(b)
       PROVE  placed' + Cardinality(Drawn(c)') + remain'[c] <= Budget(c)'
    BY <1>3, <1>11 DEF RefreshRead
<1>12. ASSUME NEW s \in Symbols, NEW filled \in BOOLEAN, Answer(s, filled)
       PROVE  placed' + Cardinality(Drawn(c)') + remain'[c] <= Budget(c)'
    BY <1>3, <1>12 DEF Answer
<1>13. CASE UNCHANGED vars
    BY <1>3, <1>13 DEF vars
<1>14. QED
    BY <1>4, <1>6, <1>7, <1>8, <1>9, <1>10, <1>11, <1>12, <1>13 DEF Next, ScanStep, Account

LEMMA StepStraggler == IInv /\ [Next]_vars => StragglerInv'
<1> SUFFICES ASSUME IInv, [Next]_vars PROVE StragglerInv'
    OBVIOUS
<1>0. /\ TypeOK /\ StragglerInv
      /\ Symbols \subseteq Counters
      /\ \A s \in Symbols : s # "minute" /\ s # "second"
    BY DEF IInv
<1>1. ASSUME NEW b \in Bosses, NEW c \in Counters, RefreshCounter(b, c) PROVE StragglerInv'
    <2>1. CASE CycleEnd(c, rnow[b])
        <3>1. /\ \A s \in Symbols : remain'[s] = IF s = c THEN 1 ELSE remain[s]
              /\ \A s \in Symbols : since_burn'[s] = IF s = c THEN 0 ELSE since_burn[s]
              /\ UNCHANGED spc
            <4>1. /\ remain' = [remain EXCEPT ![c] = semaphore_init_count(c)]
                  /\ since_burn' = [s \in Symbols |-> IF s = c THEN 0 ELSE since_burn[s]]
                  /\ UNCHANGED spc
                BY <1>1, <2>1 DEF RefreshCounter
            <4>2. \A s \in Counters : remain'[s] = IF s = c THEN semaphore_init_count(c) ELSE remain[s]
                BY <1>0, <4>1 DEF TypeOK
            <4>3. \A s \in Symbols : s \in Counters /\ (s = c => semaphore_init_count(c) = 1)
                BY <1>0, CounterTypes
            <4>4. QED
                BY <4>1, <4>2, <4>3
        <3>2. QED
            BY <1>0, <3>1 DEF StragglerInv
    <2>2. CASE ~CycleEnd(c, rnow[b])
        BY <1>0, <1>1, <2>2 DEF RefreshCounter, StragglerInv
    <2>3. QED
        BY <2>1, <2>2
<1>2. ASSUME NEW s \in Symbols, TakeOrder(s) PROVE StragglerInv'
    BY <1>0, <1>2 DEF TakeOrder, Goto, has_more_semaphore, StragglerInv, TypeOK
<1>3. ASSUME NEW s \in Symbols, NEW x \in Account, NEW next, Draw(s, x, next) PROVE StragglerInv'
    <2>1. \A y \in Symbols : remain'[y] = remain[y]
        BY <1>0, <1>3 DEF Draw, Get, TypeOK, Account
    <2>2. since_burn' = since_burn /\ spc[s] # "scan"
        BY <1>3 DEF Draw, Account
    <2>3. \A y \in Symbols : y # s => spc'[y] = spc[y]
        BY <1>0, <1>3 DEF Draw, Goto, TypeOK
    <2>4. QED
        BY <1>0, <2>1, <2>2, <2>3 DEF StragglerInv
<1>4. ASSUME NEW s \in Symbols, PlaceOrder(s) PROVE StragglerInv'
    <2>1. remain' = remain /\ spc[s] = "place" /\ remain[s] \in Nat
        BY <1>0, <1>4 DEF PlaceOrder, TypeOK
    <2>2. spc'[s] = "scan" /\ \A y \in Symbols : y # s => spc'[y] = spc[y]
        BY <1>0, <1>4 DEF PlaceOrder, Goto, TypeOK
    <2>3. since_burn[s] = 0
        BY <1>0, <2>1 DEF StragglerInv
    <2>4. /\ since_burn'[s] = IF remain[s] = 0 THEN 1 ELSE 0
          /\ \A y \in Symbols : y # s => since_burn'[y] = since_burn[y]
        BY <1>0, <1>4, <2>3 DEF PlaceOrder, TypeOK
    <2>5. QED
        BY <1>0, <2>1, <2>2, <2>4 DEF StragglerInv
<1>5. CASE ProcessMessage
    <2>1. \A y \in Symbols : remain'[y] = remain[y] \/ remain[y] > 0
        BY <1>0, <1>5, MessageEffect
    <2>2. UNCHANGED <<spc, since_burn>>
        BY <1>5 DEF ProcessMessage
    <2>3. QED
        BY <1>0, <2>1, <2>2 DEF StragglerInv
<1>6. CASE UNCHANGED <<remain, spc, since_burn>>
    BY <1>0, <1>6 DEF StragglerInv
<1>7. QED
    BY <1>1, <1>2, <1>3, <1>4, <1>5, <1>6 DEF Next, ScanStep, Account, Tick, RefreshRead, Answer, vars
-----------------------------------------------------------------------------
\* The invariant of the trade processor: every step of the scan threads, the message
\* thread, the refresh threads and the exchange keeps it.
THEOREM TradeProcessorInvariant == Spec => []IInv
<1>1. IInv /\ [Next]_vars => IInv'
    BY StepTypeOK, StepClock, StepBudget, StepStraggler DEF IInv
<1>2. QED
    BY <1>1, InitIInv, PTL DEF Spec

\* No semaphore count of AutoResetCounter falls below zero.
THEOREM TradeProcessorTypeOK == Spec => []TypeOK
<1>1. IInv => TypeOK
    BY DEF IInv
<1>2. QED
    BY <1>1, TradeProcessorInvariant, PTL

\* After a fill burnt its interval semaphore, a symbol's scan thread places at most the one
\* order it was already working on.
THEOREM TradeProcessorOneStraggler == Spec => []OneStraggler
<1>1. IInv => OneStraggler
    BY DEF IInv, StragglerInv, OneStraggler
<1>2. QED
    BY <1>1, TradeProcessorInvariant, PTL

\* All symbols together place at most one budget per started period, of both periods,
\* however scan and refresh threads interleave.
THEOREM TradeProcessorPlacedRate == Spec => []PlacedRate
<1>1. ASSUME IInv PROVE PlacedRate
    <2>1. ASSUME NEW c \in Account
          PROVE  placed <= semaphore_init_count(c) * (1 + (now - 1) \div reset_duration(c))
        <3>1. /\ c \in Counters
              /\ placed \in Nat /\ remain[c] \in Nat /\ Cardinality(Drawn(c)) \in Nat
              /\ semaphore_init_count(c) \in Nat /\ reset_duration(c) \in Nat \ {0}
              /\ latest_reset[c] - 1 \in Nat /\ now - 1 \in Nat /\ latest_reset[c] - 1 <= now - 1
            BY <1>1, CounterTypes, DrawnFinite DEF IInv, TypeOK, ClockInv, Account
        <3>2. placed + Cardinality(Drawn(c)) + remain[c] <= Budget(c)
            BY <1>1 DEF IInv, BudgetInv
        <3>3. /\ Budget(c) \in Nat
              /\ semaphore_init_count(c) * (1 + (now - 1) \div reset_duration(c)) \in Nat
              /\ Budget(c) <= semaphore_init_count(c) * (1 + (now - 1) \div reset_duration(c))
            BY <3>1, Allowance DEF Budget
        <3>4. QED
            BY <3>1, <3>2, <3>3
    <2>2. QED
        BY <2>1, CounterTypes DEF PlacedRate, Account
<1>2. QED
    BY <1>1, TradeProcessorInvariant, PTL
=============================================================================
