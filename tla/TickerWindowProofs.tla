-------------------------- MODULE TickerWindowProofs --------------------------
(***************************************************************************)
(* Proofs about TickerWindow for every length of the interval, every       *)
(* price, delay and number of tickers and requests: what the cached        *)
(* extremes and the published threshold have to do with the tickers of the *)
(* window, in every interleaving of feed threads and calculator.           *)
(***************************************************************************)
EXTENDS TickerWindow, SequenceTheorems, FiniteSetTheorems, WellFoundedInduction, TLAPS

\* list holds t, at whatever position
Holds(list, t) == \E i \in DOMAIN list : list[i] = t

\* A ticker that was pushed is in the list until it expires.
Kept(t) == Expired(t) \/ Holds(ticker_list, t)

\* t is part of what a calculation of this instant is about
Live(t) == t.time + Interval > now

\* The calculator's times have passed.
TimesInv == cnow <= now /\ basis <= now

BoundInv == Len(ticker_list) <= MaxTickers

\* The tickers that made the requests, the one being handled included, are kept.
RequestInv ==
    /\ \A i \in DOMAIN channel : Kept(channel[i])
    /\ cpc # "wait" => Len(crequest) = 1 /\ Kept(crequest[1])

\* The copy is part of the list as long as nothing was popped, and what the calculation is
\* about is part of the copy as long as nothing was pushed.
CopyInv ==
    /\ cpc = "compute" /\ "pop" \notin during =>
           \A i \in DOMAIN ccopy : Holds(ticker_list, ccopy[i])
    /\ cpc = "compute" /\ during = {} =>
           \A i \in DOMAIN ticker_list :
               ticker_list[i].time + Interval > cnow => Holds(ccopy, ticker_list[i])

\* A live ticker that made the request is in the copy, and in the end within the result.
AnswerInv ==
    /\ cpc = "compute" /\ Live(crequest[1]) => Holds(ccopy, crequest[1])
    /\ cpc = "publish" /\ cflaw = {} /\ Live(crequest[1]) => Covers(cresult, crequest[1].price)

IInv == /\ TypeOK
        /\ TimesInv
        /\ BoundInv
        /\ RequestInv
        /\ CopyInv
        /\ AnswerInv
        /\ ExtremesAttained
        /\ FreshCovered

USE TickerWindowAssumption DEF TickerWindowAssumption
-----------------------------------------------------------------------------
(* Extremes of a set of prices *)

\* A set of numbers with a member has a least one.
LEMMA MinFacts ==
    ASSUME NEW S \in SUBSET Nat, S # {}
    PROVE  Min(S) \in S /\ \A y \in S : Min(S) <= y
<1>1. PICK x \in S : \A y \in S : <<y, x>> \notin OpToRel(<, Nat)
    BY NatLessThanWellFounded, WFMin
<1>2. ASSUME NEW y \in S PROVE x <= y
    <2>1. <<y, x>> \notin {pair \in Nat \X Nat : pair[1] < pair[2]}
        BY <1>1, Zenon DEF OpToRel
    <2>2. x \in Nat /\ y \in Nat
        OBVIOUS
    <2>3. QED
        BY <2>1, <2>2
<1>3. QED
    BY <1>2 DEF Min

\* A bounded set of numbers with a member has a greatest one.
LEMMA MaxFacts ==
    ASSUME NEW S \in SUBSET Nat, S # {}, NEW b \in Nat, \A y \in S : y <= b
    PROVE  Max(S) \in S /\ \A y \in S : y <= Max(S)
<1> DEFINE gaps == {b - y : y \in S}
<1>1. gaps \in SUBSET Nat /\ gaps # {}
    <2>1. \A y \in S : y \in Nat /\ y <= b /\ b - y \in Nat
        OBVIOUS
    <2>2. QED
        BY <2>1
<1>2. Min(gaps) \in gaps /\ \A z \in gaps : Min(gaps) <= z
    BY <1>1, MinFacts
<1>3. PICK x \in S : Min(gaps) = b - x
    BY <1>2
<1>4. ASSUME NEW y \in S PROVE x >= y
    <2>1. b - x <= b - y
        BY <1>2, <1>3
    <2>2. x \in Nat /\ y \in Nat
        OBVIOUS
    <2>3. QED
        BY <2>1, <2>2
<1>5. QED
    BY <1>4 DEF Max

LEMMA QuoteFacts ==
    ASSUME NEW q \in Quotes, NEW f \in Fields
    PROVE  q[f] \in 1..(Infinity - 1) /\ q[f] \in Nat /\ Infinity \in Nat
BY DEF Quotes, Fields, Infinity

\* m is of the type of extremes, each the price of a ticker in S, and covers every ticker in S.
ExtremesOf(m, tickers, S) ==
    /\ m \in MinMax /\ m.valid
    /\ \A i \in S : Covers(m, tickers[i].price)
    /\ \A f \in Fields : /\ \E i \in S : tickers[i].price[f] = m.min[f]
                         /\ \E i \in S : tickers[i].price[f] = m.max[f]

\* What the calculator computes from a copy with a ticker.
LEMMA ExtremesFacts ==
    ASSUME NEW S, S # {}, NEW tickers \in [S -> Ticker]
    PROVE  ExtremesOf(Extremes(tickers), tickers, S)
<1> DEFINE Prices(f) == {tickers[i].price[f] : i \in S}
           low  == [f \in Fields |-> Min(Prices(f))]
           high == [f \in Fields |-> Max(Prices(f))]
<1>1. Extremes(tickers) = [valid |-> TRUE, min |-> low, max |-> high]
    BY DEF Extremes
<1>2. ASSUME NEW f \in Fields
      PROVE  /\ Min(Prices(f)) \in Prices(f) /\ Min(Prices(f)) \in 1..Infinity
             /\ Max(Prices(f)) \in Prices(f) /\ Max(Prices(f)) \in 0..Infinity
             /\ \A i \in S :
                   Min(Prices(f)) <= tickers[i].price[f] /\ tickers[i].price[f] <= Max(Prices(f))
    <2>1. \A i \in S : tickers[i].price \in Quotes
        BY DEF Ticker
    <2>2. \A i \in S : tickers[i].price[f] \in 1..(Infinity - 1)
        BY <2>1, QuoteFacts
    <2>3. Infinity \in Nat
        BY DEF Infinity
    <2>4. /\ Prices(f) \in SUBSET Nat /\ Prices(f) # {}
          /\ \A y \in Prices(f) : y \in 1..(Infinity - 1) /\ y <= Infinity
        BY <2>2, <2>3
    <2>5. Min(Prices(f)) \in Prices(f) /\ \A y \in Prices(f) : Min(Prices(f)) <= y
        BY <2>4, MinFacts
    <2>6. Max(Prices(f)) \in Prices(f) /\ \A y \in Prices(f) : y <= Max(Prices(f))
        BY <2>3, <2>4, MaxFacts
    <2>7. Min(Prices(f)) \in 1..(Infinity - 1) /\ Max(Prices(f)) \in 1..(Infinity - 1)
        BY <2>4, <2>5, <2>6
    <2>8. 1..(Infinity - 1) \subseteq 1..Infinity /\ 1..(Infinity - 1) \subseteq 0..Infinity
        BY <2>3
    <2>9. \A i \in S : tickers[i].price[f] \in Prices(f)
        OBVIOUS
    <2> HIDE DEF Prices
    <2>10. QED
        BY <2>5, <2>6, <2>7, <2>8, <2>9
<1>3. low \in [Fields -> 1..Infinity] /\ high \in [Fields -> 0..Infinity]
    BY <1>2
<1>4. \A f \in Fields : low[f] = Min(Prices(f)) /\ high[f] = Max(Prices(f))
    OBVIOUS
<1>5. \A f \in Fields : low[f] \in Prices(f) /\ high[f] \in Prices(f)
    BY <1>2, <1>4
<1>6. \A i \in S : \A f \in Fields :
          low[f] <= tickers[i].price[f] /\ tickers[i].price[f] <= high[f]
    BY <1>2, <1>4
<1>7. \A f \in Fields : /\ \E i \in S : tickers[i].price[f] = low[f]
                        /\ \E i \in S : tickers[i].price[f] = high[f]
    BY <1>5
<1> HIDE DEF low, high
<1>8. QED
    BY <1>1, <1>3, <1>6, <1>7 DEF ExtremesOf, MinMax, Covers

LEMMA InfinityFacts == Infinity \in Nat /\ Infinity >= 1
BY DEF Infinity

\* Widened extremes are of their type and in order, cover the price and what was covered, and
\* are the price or what they were, field by field.
LEMMA WidenFacts ==
    ASSUME NEW m \in MinMax, m.valid => \A f \in Fields : m.min[f] <= m.max[f],
           NEW price \in Quotes
    PROVE  /\ Widen(m, price) \in MinMax /\ Widen(m, price).valid = m.valid
           /\ Covers(Widen(m, price), price)
           /\ \A q \in Quotes : Covers(m, q) => Covers(Widen(m, price), q)
           /\ \A f \in Fields : /\ Widen(m, price).min[f] \in {m.min[f], price[f]}
                                /\ Widen(m, price).max[f] \in {m.max[f], price[f]}
                                /\ Widen(m, price).min[f] <= Widen(m, price).max[f]
<1> DEFINE low  == [f \in Fields |-> Lower(m.min[f], price[f])]
           high == [f \in Fields |-> Higher(m.max[f], price[f])]
<1>1. m.valid \in BOOLEAN /\ m.min \in [Fields -> 1..Infinity] /\ m.max \in [Fields -> 0..Infinity]
    BY DEF MinMax
<1>2. Widen(m, price) = [valid |-> m.valid, min |-> low, max |-> high]
    BY DEF Widen
<1>3. ASSUME NEW f \in Fields
      PROVE  /\ low[f] \in {m.min[f], price[f]} /\ high[f] \in {m.max[f], price[f]}
             /\ low[f] <= m.min[f] /\ low[f] <= price[f]
             /\ m.max[f] <= high[f] /\ price[f] <= high[f]
             /\ m.min[f] \in 1..Infinity /\ m.max[f] \in 0..Infinity /\ price[f] \in 1..Infinity
    <2>1. m.min[f] \in 1..Infinity /\ m.max[f] \in 0..Infinity
        BY <1>1
    <2>2. price[f] \in 1..(Infinity - 1) /\ Infinity \in Nat
        BY QuoteFacts
    <2>3. m.min[f] \in Nat /\ m.max[f] \in Nat /\ price[f] \in Nat /\ price[f] \in 1..Infinity
        BY <2>1, <2>2
    <2>4. low[f] = Lower(m.min[f], price[f]) /\ high[f] = Higher(m.max[f], price[f])
        OBVIOUS
    <2> HIDE DEF low, high
    <2>5. QED
        BY <2>1, <2>3, <2>4 DEF Lower, Higher
<1>4. low = [f \in Fields |-> low[f]] /\ high = [f \in Fields |-> high[f]]
    OBVIOUS
<1> HIDE DEF low, high
<1>5. ASSUME NEW f \in Fields
      PROVE  low[f] \in 1..Infinity /\ high[f] \in 0..Infinity /\ low[f] <= high[f]
    <2>1. 1..Infinity \subseteq 0..Infinity
        BY InfinityFacts
    <2>2. low[f] \in 1..Infinity /\ high[f] \in 0..Infinity
        BY <1>3, <2>1
    <2>3. QED
        BY <1>3, <2>2, InfinityFacts
<1>6. low \in [Fields -> 1..Infinity] /\ high \in [Fields -> 0..Infinity]
    BY <1>4, <1>5
<1>7. Widen(m, price) \in MinMax
    BY <1>1, <1>2, <1>6 DEF MinMax
<1>8. \A f \in Fields : low[f] <= price[f] /\ price[f] <= high[f]
    BY <1>3
<1>9. ASSUME NEW q \in Quotes, \A f \in Fields : m.min[f] <= q[f] /\ q[f] <= m.max[f],
             NEW f \in Fields
      PROVE  low[f] <= q[f] /\ q[f] <= high[f]
    <2>1. q[f] \in Nat
        BY QuoteFacts
    <2>2. m.min[f] \in Nat /\ m.max[f] \in Nat /\ low[f] \in Nat /\ high[f] \in Nat
        BY <1>3, <1>5, InfinityFacts
    <2>3. low[f] <= m.min[f] /\ m.min[f] <= q[f] /\ q[f] <= m.max[f] /\ m.max[f] <= high[f]
        BY <1>3, <1>9
    <2>4. QED
        BY <2>1, <2>2, <2>3
<1>10. \A q \in Quotes : Covers(m, q) => Covers(Widen(m, price), q)
    BY <1>2, <1>9 DEF Covers
<1>11. QED
    BY <1>2, <1>3, <1>5, <1>7, <1>8, <1>10 DEF Covers
-----------------------------------------------------------------------------
(* What a feed does to the list *)

\* pop_front drops expired tickers only, from the front.
LEMMA FirstKeptFacts ==
    ASSUME now \in Nat, NEW list \in Seq(Ticker)
    PROVE  /\ FirstKept(list) \in 1..(Len(list) + 1)
           /\ \A i \in 1..(FirstKept(list) - 1) : i \in DOMAIN list /\ Expired(list[i])
<1> DEFINE stays == {i \in 1..(Len(list) + 1) : i \in DOMAIN list => ~Expired(list[i])}
<1>1. Len(list) \in Nat /\ DOMAIN list = 1..Len(list)
    OBVIOUS
<1>2. Len(list) + 1 \in stays /\ stays \in SUBSET Nat
    BY <1>1
<1>3. FirstKept(list) = Min(stays)
    BY DEF FirstKept
<1>4. \A i \in 1..(Len(list) + 1) : i \notin stays => i \in DOMAIN list /\ Expired(list[i])
    OBVIOUS
<1>5. stays \subseteq 1..(Len(list) + 1)
    OBVIOUS
<1> HIDE DEF stays
<1>6. Min(stays) \in stays /\ \A i \in stays : Min(stays) <= i
    BY <1>2, MinFacts
<1>7. ASSUME NEW i \in 1..(Min(stays) - 1) PROVE i \in 1..(Len(list) + 1) /\ i \notin stays
    <2>0. Min(stays) \in 1..(Len(list) + 1)
        BY <1>5, <1>6
    <2>1. Min(stays) \in Nat /\ Min(stays) <= Len(list) + 1 /\ i \in Nat /\ i >= 1 /\ i < Min(stays)
        BY <1>1, <2>0
    <2>2. i \in 1..(Len(list) + 1)
        BY <1>1, <2>1
    <2>3. QED
        BY <1>6, <2>1, <2>2
<1>8. QED
    BY <1>3, <1>4, <1>5, <1>6, <1>7

\* The tickers of a suffix.
LEMMA SuffixFacts ==
    ASSUME NEW S, NEW list \in Seq(S), NEW first \in 1..(Len(list) + 1)
    PROVE  /\ SubSeq(list, first, Len(list)) \in Seq(S)
           /\ Len(SubSeq(list, first, Len(list))) = Len(list) - first + 1
           /\ \A t : Holds(SubSeq(list, first, Len(list)), t)
                        <=> \E i \in first..Len(list) : list[i] = t
<1> DEFINE kept == SubSeq(list, first, Len(list))
<1>1. Len(list) \in Nat /\ first \in Nat /\ first >= 1 /\ first <= Len(list) + 1
    OBVIOUS
<1>2. \A i \in first..Len(list) : list[i] \in S
    BY <1>1
<1>3. /\ kept \in Seq(S)
      /\ Len(kept) = IF first <= Len(list) THEN Len(list) - first + 1 ELSE 0
      /\ \A i \in 1..(Len(list) - first + 1) : kept[i] = list[first + i - 1]
    BY <1>1, <1>2, SubSeqProperties
<1> HIDE DEF kept
<1>4. Len(kept) = Len(list) - first + 1
    BY <1>1, <1>3
<1>5. DOMAIN kept = 1..(Len(list) - first + 1)
    BY <1>3, <1>4
<1>6. ASSUME NEW t, Holds(kept, t) PROVE \E i \in first..Len(list) : list[i] = t
    <2>1. PICK i \in 1..(Len(list) - first + 1) : kept[i] = t
        BY <1>5, <1>6 DEF Holds
    <2>2. first + i - 1 \in first..Len(list)
        BY <1>1
    <2>3. QED
        BY <1>3, <2>1, <2>2
<1>7. ASSUME NEW t, NEW i \in first..Len(list), list[i] = t PROVE Holds(kept, t)
    <2>1. i - first + 1 \in 1..(Len(list) - first + 1) /\ first + (i - first + 1) - 1 = i
        BY <1>1
    <2>2. kept[i - first + 1] = t
        BY <1>3, <1>7, <2>1
    <2>3. QED
        BY <1>5, <2>1, <2>2 DEF Holds
<1>8. QED
    BY <1>3, <1>4, <1>6, <1>7 DEF kept

LEMMA AppendFacts ==
    ASSUME NEW S, NEW list \in Seq(S), NEW t \in S
    PROVE  /\ Append(list, t) \in Seq(S) /\ Len(Append(list, t)) = Len(list) + 1
           /\ \A u : Holds(Append(list, t), u) <=> (Holds(list, u) \/ u = t)
<1>1. /\ Append(list, t) \in Seq(S) /\ Len(Append(list, t)) = Len(list) + 1
      /\ \A i \in 1..Len(list) : Append(list, t)[i] = list[i]
      /\ Append(list, t)[Len(list) + 1] = t
    BY AppendProperties
<1>2. Len(list) \in Nat /\ DOMAIN list = 1..Len(list) /\ DOMAIN Append(list, t) = 1..(Len(list) + 1)
    BY <1>1
<1>3. \A i \in 1..(Len(list) + 1) : i \in 1..Len(list) \/ i = Len(list) + 1
    BY <1>2
<1>4. Len(list) + 1 \in 1..(Len(list) + 1) /\ 1..Len(list) \subseteq 1..(Len(list) + 1)
    BY <1>2
<1>5. ASSUME NEW u PROVE Holds(Append(list, t), u) <=> (Holds(list, u) \/ u = t)
    BY <1>1, <1>2, <1>3, <1>4 DEF Holds
<1>6. QED
    BY <1>1, <1>5

\* What update_ticker does: it keeps every ticker that has not expired and adds its own; valid
\* extremes are the widened ones, and no dropped ticker touches them.
LEMMA FeedFacts ==
    ASSUME TypeOK, NEW ticker \in Ticker, update_ticker(ticker)
    PROVE  /\ ticker_list' \in Seq(Ticker) /\ Len(ticker_list') <= Len(ticker_list) + 1
           /\ \A t : Holds(ticker_list', t) => Holds(ticker_list, t) \/ t = ticker
           /\ \A t : Holds(ticker_list, t) \/ t = ticker => Expired(t) \/ Holds(ticker_list', t)
           /\ during' \subseteq {"push", "pop"} /\ during' # {} /\ ("pop" \in during => "pop" \in during')
           /\ "pop" \notin during' => \A t : Holds(ticker_list, t) => Holds(ticker_list', t)
           /\ min_max' = Cleared \/ min_max' = min_max \/ min_max' = Widen(min_max, ticker.price)
           /\ min_max'.valid =>
                 /\ min_max.valid /\ min_max' = Widen(min_max, ticker.price)
                 /\ \A t : Holds(ticker_list, t) \/ t = ticker =>
                               Holds(ticker_list', t) \/ ~Touches(min_max', t.price)
<1>1. ticker_list \in Seq(Ticker) /\ now \in Nat /\ during \subseteq {"push", "pop"}
    BY DEF TypeOK
<1>2. PICK list : list = Append(ticker_list, ticker)
    OBVIOUS
<1>3. /\ list \in Seq(Ticker) /\ Len(list) = Len(ticker_list) + 1
      /\ \A t : Holds(list, t) <=> (Holds(ticker_list, t) \/ t = ticker)
    BY <1>1, <1>2, AppendFacts
<1>4. PICK first : first = FirstKept(list)
    OBVIOUS
<1>5. PICK widened : widened = IF min_max.valid THEN Widen(min_max, ticker.price) ELSE min_max
    OBVIOUS
<1>6. /\ first \in 1..(Len(list) + 1)
      /\ \A i \in 1..(first - 1) : i \in DOMAIN list /\ Expired(list[i])
    BY <1>1, <1>3, <1>4, FirstKeptFacts
<1>7. /\ ticker_list' = SubSeq(list, first, Len(list))
      /\ min_max' = IF \E i \in 1..(first - 1) : Touches(widened, list[i].price) THEN Cleared ELSE widened
      /\ during' = during \cup {"push"} \cup (IF first = 1 THEN {} ELSE {"pop"})
    BY <1>2, <1>4, <1>5 DEF update_ticker
<1>8. /\ ticker_list' \in Seq(Ticker) /\ Len(ticker_list') = Len(list) - first + 1
      /\ \A t : Holds(ticker_list', t) <=> \E i \in first..Len(list) : list[i] = t
    BY <1>3, <1>6, <1>7, SuffixFacts
<1>9. Len(list) \in Nat /\ Len(ticker_list) \in Nat /\ DOMAIN list = 1..Len(list) /\ first \in Nat /\ first >= 1
    BY <1>1, <1>3, <1>6
<1>10. Len(ticker_list') <= Len(ticker_list) + 1
    BY <1>3, <1>8, <1>9
<1>11. \A i \in first..Len(list) : i \in DOMAIN list
    BY <1>9
<1>12. \A t : Holds(ticker_list', t) => Holds(list, t)
    BY <1>8, <1>11 DEF Holds
<1>13. \A i \in DOMAIN list : i \in 1..(first - 1) \/ i \in first..Len(list)
    BY <1>9
\* a ticker of the appended list is kept or one of the dropped ones
<1>14. \A t : Holds(list, t) => Holds(ticker_list', t) \/ \E i \in 1..(first - 1) : list[i] = t
    BY <1>8, <1>13 DEF Holds
<1>15. \A t : Holds(list, t) => Expired(t) \/ Holds(ticker_list', t)
    BY <1>6, <1>14
<1>16. during' \subseteq {"push", "pop"} /\ during' # {} /\ ("pop" \in during => "pop" \in during')
    BY <1>1, <1>7
<1>17. ASSUME "pop" \notin during' PROVE \A t : Holds(list, t) => Holds(ticker_list', t)
    <2>1. first = 1
        BY <1>7, <1>17
    <2>2. \A i \in 1..(first - 1) : FALSE
        BY <2>1
    <2>3. QED
        BY <1>14, <2>2
<1>18. min_max' = Cleared \/ min_max' = min_max \/ min_max' = Widen(min_max, ticker.price)
    BY <1>5, <1>7
<1>19. ASSUME min_max'.valid
       PROVE  /\ min_max.valid /\ min_max' = Widen(min_max, ticker.price)
              /\ \A t : Holds(list, t) => Holds(ticker_list', t) \/ ~Touches(min_max', t.price)
    <2>1. min_max' # Cleared
        BY <1>19 DEF Cleared
    <2>2. min_max' = widened /\ ~\E i \in 1..(first - 1) : Touches(widened, list[i].price)
        BY <1>7, <2>1
    <2>3. min_max.valid /\ min_max' = Widen(min_max, ticker.price)
        <3>1. CASE min_max.valid
            BY <1>5, <2>2, <3>1
        <3>2. CASE ~min_max.valid
            BY <1>5, <1>19, <2>2, <3>2
        <3>3. QED
            BY <3>1, <3>2
    <2>4. \A i \in 1..(first - 1) : ~Touches(min_max', list[i].price)
        BY <2>2
    <2>5. QED
        BY <1>14, <2>3, <2>4
<1>20. QED
    BY <1>3, <1>8, <1>10, <1>12, <1>15, <1>16, <1>17, <1>18, <1>19
-----------------------------------------------------------------------------
(* The inductive invariant *)

LEMMA ClearedFacts == Cleared \in MinMax /\ ~Cleared.valid
<1>1. Infinity \in 1..Infinity /\ 0 \in 0..Infinity
    BY InfinityFacts
<1>2. QED
    BY <1>1 DEF Cleared, MinMax

LEMMA InitIInv == Init => IInv
<1> SUFFICES ASSUME Init PROVE IInv
    OBVIOUS
<1>1. TypeOK
    BY ClearedFacts, EmptySeq DEF Init, TypeOK
<1>2. TimesInv /\ BoundInv /\ RequestInv /\ CopyInv /\ AnswerInv
    BY DEF Init, TimesInv, BoundInv, RequestInv, CopyInv, AnswerInv
<1>3. ExtremesAttained /\ FreshCovered
    BY ClearedFacts DEF Init, ExtremesAttained, FreshCovered
<1>4. QED
    BY <1>1, <1>2, <1>3 DEF IInv

\* The request being handled, and the tickers the lists hold, are tickers.
LEMMA TickerFacts ==
    ASSUME TypeOK
    PROVE  /\ \A i \in DOMAIN channel : channel[i] \in Ticker
           /\ \A i \in DOMAIN ticker_list : ticker_list[i] \in Ticker
           /\ \A t : Holds(ticker_list, t) => t \in Ticker
           /\ Len(crequest) = 1 => crequest[1] \in Ticker
           /\ now \in Nat /\ cnow \in Nat /\ basis \in Nat
           /\ \A t \in Ticker : t.time \in Nat /\ t.price \in Quotes
<1>1. channel \in Seq(Ticker) /\ ticker_list \in Seq(Ticker) /\ crequest \in Seq(Ticker)
    BY DEF TypeOK
<1>2. /\ \A i \in DOMAIN channel : channel[i] \in Ticker
      /\ \A i \in DOMAIN ticker_list : ticker_list[i] \in Ticker
      /\ Len(crequest) = 1 => crequest[1] \in Ticker
    BY <1>1
<1>3. \A t \in Ticker : t.time \in Nat /\ t.price \in Quotes
    BY DEF Ticker
<1>4. QED
    BY <1>2, <1>3 DEF TypeOK, Holds

LEMMA TickKeeps == IInv /\ Tick => IInv'
<1> SUFFICES ASSUME IInv, Tick PROVE IInv'
    OBVIOUS
<1>1. /\ now' = now + 1 /\ now \in Nat /\ cnow \in Nat /\ basis \in Nat
      /\ UNCHANGED <<ticker_list, min_max, channel, cpc, crequest, cnow, cresult, ccopy, cflaw>>
      /\ UNCHANGED <<threshold, during, flaw, basis>>
    BY TickerFacts DEF IInv, Tick, calculatorVars
<1>2. TypeOK'
    BY <1>1 DEF IInv, TypeOK
<1>3. TimesInv' /\ BoundInv'
    BY <1>1 DEF IInv, TimesInv, BoundInv
<1>4. \A t \in Ticker : /\ Kept(t) => Expired(t)' \/ Holds(ticker_list, t)
                        /\ Live(t)' => Live(t)
    <2>1. SUFFICES ASSUME NEW t \in Ticker
                   PROVE  /\ now > t.time + Interval => now + 1 > t.time + Interval
                          /\ t.time + Interval > now + 1 => t.time + Interval > now
        BY <1>1 DEF Kept, Expired, Live
    <2>2. t.time \in Nat
        BY TickerFacts DEF IInv
    <2>3. QED
        BY <1>1, <2>2
<1>5. RequestInv'
    <2>1. \A i \in DOMAIN channel : channel[i] \in Ticker /\ Kept(channel[i])
        BY TickerFacts DEF IInv, RequestInv
    <2>2. cpc # "wait" => Len(crequest) = 1 /\ crequest[1] \in Ticker /\ Kept(crequest[1])
        BY TickerFacts DEF IInv, RequestInv
    <2>3. QED
        BY <1>1, <1>4, <2>1, <2>2 DEF RequestInv, Kept, Expired
<1>6. CopyInv'
    BY <1>1 DEF IInv, CopyInv
<1>7. AnswerInv'
    <2>1. cpc # "wait" => crequest[1] \in Ticker
        BY TickerFacts DEF IInv, RequestInv
    <2>2. cpc # "wait" /\ Live(crequest[1])' => Live(crequest[1])
        BY <1>1, <1>4, <2>1 DEF Live
    <2>3. QED
        BY <1>1, <2>2 DEF IInv, AnswerInv
<1>8. ExtremesAttained' /\ FreshCovered'
    BY <1>1 DEF IInv, ExtremesAttained, FreshCovered
<1>9. QED
    BY <1>2, <1>3, <1>5, <1>6, <1>7, <1>8 DEF IInv

\* Extremes that are attained and were widened are attained by tickers still in the list:
\* had such a ticker been dropped, the extremes would not be valid.
LEMMA FeedAttained ==
    ASSUME TypeOK, ExtremesAttained, NEW ticker \in Ticker, update_ticker(ticker),
           min_max'.valid, "pop" \notin flaw, NEW f \in Fields
    PROVE  /\ \E t : Holds(ticker_list', t) /\ t.price[f] = min_max'.min[f]
           /\ \E t : Holds(ticker_list', t) /\ t.price[f] = min_max'.max[f]
<1>1. /\ min_max.valid /\ min_max' = Widen(min_max, ticker.price)
      /\ \A t : Holds(ticker_list, t) \/ t = ticker => Holds(ticker_list', t) \/ ~Touches(min_max', t.price)
    BY FeedFacts
<1>2. min_max \in MinMax /\ (min_max.valid => \A g \in Fields : min_max.min[g] <= min_max.max[g])
    BY DEF TypeOK
<1>3. ticker.price \in Quotes
    BY TickerFacts
<1>4. /\ min_max'.min[f] \in {min_max.min[f], ticker.price[f]}
      /\ min_max'.max[f] \in {min_max.max[f], ticker.price[f]}
    BY <1>1, <1>2, <1>3, WidenFacts
<1>5. /\ \E t : Holds(ticker_list, t) /\ t.price[f] = min_max.min[f]
      /\ \E t : Holds(ticker_list, t) /\ t.price[f] = min_max.max[f]
    BY <1>1 DEF ExtremesAttained, Holds
<1>6. PICK low : (Holds(ticker_list, low) \/ low = ticker) /\ low.price[f] = min_max'.min[f]
    BY <1>4, <1>5
<1>7. PICK high : (Holds(ticker_list, high) \/ high = ticker) /\ high.price[f] = min_max'.max[f]
    BY <1>4, <1>5
<1>8. low.price[f] \in Nat /\ high.price[f] \in Nat
    <2>1. low \in Ticker /\ high \in Ticker
        BY <1>6, <1>7, TickerFacts
    <2>2. low.price \in Quotes /\ high.price \in Quotes
        BY <2>1, TickerFacts
    <2>3. QED
        BY <2>2, QuoteFacts
<1>9. Touches(min_max', low.price) /\ Touches(min_max', high.price)
    <2>1. low.price[f] <= min_max'.min[f] /\ high.price[f] >= min_max'.max[f]
        BY <1>6, <1>7, <1>8
    <2>2. QED
        BY <2>1 DEF Touches
<1>10. QED
    BY <1>1, <1>6, <1>7, <1>9

LEMMA FeedKeeps ==
    ASSUME IInv, NEW delay \in 0..MaxDelay, NEW price \in Quotes, ProcessTicker(delay, price)
    PROVE  IInv'
<1>1. PICK ticker : ticker = [time |-> now - delay, price |-> price]
    OBVIOUS
<1>2. /\ delay <= now /\ Len(ticker_list) < MaxTickers /\ update_ticker(ticker)
      /\ channel' = IF Len(channel) < MaxRequests THEN Append(channel, ticker) ELSE channel
      /\ UNCHANGED <<now, cpc, crequest, cnow, cresult, ccopy, cflaw, threshold, flaw, basis>>
    BY <1>1 DEF ProcessTicker, calculatorVars
<1>3. TypeOK /\ now \in Nat /\ ticker_list \in Seq(Ticker) /\ channel \in Seq(Ticker)
    BY DEF IInv, TypeOK
<1>4. ticker \in Ticker
    <2>1. now - delay \in Nat
        BY <1>2, <1>3
    <2>2. QED
        BY <1>1, <2>1 DEF Ticker
<1>5. channel' \in Seq(Ticker) /\ \A i \in DOMAIN channel' : Holds(channel, channel'[i]) \/ channel'[i] = ticker
    <2>1. CASE Len(channel) < MaxRequests
        <3>1. channel' = Append(channel, ticker)
            BY <1>2, <2>1
        <3>2. /\ Append(channel, ticker) \in Seq(Ticker)
              /\ \A u : Holds(Append(channel, ticker), u) => (Holds(channel, u) \/ u = ticker)
            BY <1>3, <1>4, AppendFacts
        <3>3. QED
            BY <3>1, <3>2 DEF Holds
    <2>2. CASE ~(Len(channel) < MaxRequests)
        BY <1>2, <1>3, <2>2 DEF Holds
    <2>3. QED
        BY <2>1, <2>2
<1>6. /\ ticker_list' \in Seq(Ticker) /\ Len(ticker_list') <= Len(ticker_list) + 1
      /\ \A t : Holds(ticker_list', t) => Holds(ticker_list, t) \/ t = ticker
      /\ \A t : Holds(ticker_list, t) \/ t = ticker => Expired(t) \/ Holds(ticker_list', t)
      /\ during' \subseteq {"push", "pop"} /\ during' # {} /\ ("pop" \in during => "pop" \in during')
      /\ "pop" \notin during' => \A t : Holds(ticker_list, t) => Holds(ticker_list', t)
      /\ min_max' = Cleared \/ min_max' = min_max \/ min_max' = Widen(min_max, ticker.price)
      /\ min_max'.valid => min_max.valid /\ min_max' = Widen(min_max, ticker.price)
    BY <1>2, <1>3, <1>4, FeedFacts
<1>7. /\ min_max \in MinMax /\ (min_max.valid => \A f \in Fields : min_max.min[f] <= min_max.max[f])
      /\ ticker.price \in Quotes
    BY <1>1, <1>3 DEF TypeOK
<1>8. /\ Widen(min_max, ticker.price) \in MinMax
      /\ \A f \in Fields : Widen(min_max, ticker.price).min[f] <= Widen(min_max, ticker.price).max[f]
      /\ Covers(Widen(min_max, ticker.price), ticker.price)
      /\ \A q \in Quotes : Covers(min_max, q) => Covers(Widen(min_max, ticker.price), q)
    BY <1>7, WidenFacts
<1>9. TypeOK'
    <2>1. min_max' \in MinMax
        BY <1>6, <1>7, <1>8, ClearedFacts
    <2>2. min_max'.valid => \A f \in Fields : min_max'.min[f] <= min_max'.max[f]
        BY <1>6, <1>8
    <2>3. QED
        BY <1>2, <1>3, <1>5, <1>6, <2>1, <2>2 DEF TypeOK
<1>10. TimesInv' /\ BoundInv'
    <2>1. Len(ticker_list) \in Nat /\ Len(ticker_list') \in Nat
        BY <1>3, <1>6
    <2>2. QED
        BY <1>2, <1>6, <2>1 DEF IInv, TimesInv, BoundInv
<1>11. \A t : Kept(t) \/ t = ticker => Expired(t) \/ Holds(ticker_list', t)
    BY <1>6 DEF Kept
<1>12. RequestInv'
    <2>1. \A t : Holds(channel, t) => Kept(t)
        BY DEF IInv, RequestInv, Holds
    <2>2. \A i \in DOMAIN channel' : Expired(channel'[i]) \/ Holds(ticker_list', channel'[i])
        BY <1>5, <1>11, <2>1
    <2>3. cpc # "wait" => Len(crequest) = 1 /\ (Expired(crequest[1]) \/ Holds(ticker_list', crequest[1]))
        BY <1>11 DEF IInv, RequestInv
    <2>4. QED
        BY <1>2, <2>2, <2>3 DEF RequestInv, Kept, Expired
<1>13. CopyInv'
    <2>1. cpc = "compute" /\ "pop" \notin during' => \A i \in DOMAIN ccopy : Holds(ticker_list', ccopy[i])
        BY <1>6 DEF IInv, CopyInv
    <2>2. QED
        BY <1>2, <1>6, <2>1 DEF CopyInv
<1>14. AnswerInv'
    BY <1>2 DEF IInv, AnswerInv, Live
<1>15. ExtremesAttained'
    <2>1. SUFFICES ASSUME min_max'.valid, "pop" \notin flaw, NEW f \in Fields
                   PROVE  /\ \E i \in DOMAIN ticker_list' : ticker_list'[i].price[f] = min_max'.min[f]
                          /\ \E i \in DOMAIN ticker_list' : ticker_list'[i].price[f] = min_max'.max[f]
        BY <1>2 DEF ExtremesAttained
    <2>2. /\ \E t : Holds(ticker_list', t) /\ t.price[f] = min_max'.min[f]
          /\ \E t : Holds(ticker_list', t) /\ t.price[f] = min_max'.max[f]
        BY <1>2, <1>4, <2>1, FeedAttained DEF IInv
    <2>3. QED
        BY <2>2 DEF Holds
<1>16. FreshCovered'
    <2>1. SUFFICES ASSUME min_max'.valid, flaw = {}, NEW i \in DOMAIN ticker_list',
                          ticker_list'[i].time + Interval > basis
                   PROVE  Covers(min_max', ticker_list'[i].price)
        BY <1>2 DEF FreshCovered
    <2>2. min_max.valid /\ min_max' = Widen(min_max, ticker.price)
        BY <1>6, <2>1
    <2>3. Holds(ticker_list, ticker_list'[i]) \/ ticker_list'[i] = ticker
        BY <1>6, <2>1 DEF Holds
    <2>4. CASE ticker_list'[i] = ticker
        BY <1>8, <2>2, <2>4
    <2>5. CASE Holds(ticker_list, ticker_list'[i])
        <3>1. Covers(min_max, ticker_list'[i].price)
            BY <2>1, <2>2, <2>5 DEF IInv, FreshCovered, Holds
        <3>2. ticker_list'[i].price \in Quotes
            BY <1>3, <2>5, TickerFacts
        <3>3. QED
            BY <1>8, <2>2, <3>1, <3>2
    <2>6. QED
        BY <2>3, <2>4, <2>5
<1>17. QED
    BY <1>9, <1>10, <1>12, <1>13, <1>14, <1>15, <1>16 DEF IInv

LEMMA DequeueKeeps == IInv /\ Dequeue => IInv'
<1> SUFFICES ASSUME IInv, Dequeue PROVE IInv'
    OBVIOUS
<1>1. /\ channel # << >> /\ crequest' = <<Head(channel)>> /\ channel' = Tail(channel)
      /\ cnow' = now /\ cpc' = "get"
      /\ UNCHANGED <<now, ticker_list, min_max, cresult, ccopy, cflaw, threshold, during, flaw, basis>>
    BY DEF Dequeue
<1>2. TypeOK /\ now \in Nat /\ channel \in Seq(Ticker)
    BY DEF IInv, TypeOK
<1>3. /\ Head(channel) \in Ticker /\ Tail(channel) \in Seq(Ticker)
      /\ Len(Tail(channel)) = Len(channel) - 1
      /\ \A i \in 1..Len(Tail(channel)) : Tail(channel)[i] = channel[i + 1]
    BY <1>1, <1>2, HeadTailProperties
<1>4. Len(channel) \in Nat /\ Len(channel) >= 1 /\ DOMAIN channel = 1..Len(channel)
    BY <1>1, <1>2, EmptySeq
<1>5. Head(channel) = channel[1]
    BY <1>1, <1>2
<1>6. \A i \in DOMAIN Tail(channel) : i + 1 \in DOMAIN channel /\ Tail(channel)[i] = channel[i + 1]
    BY <1>3, <1>4
<1>7. TypeOK'
    <2>1. <<Head(channel)>> \in Seq(Ticker)
        BY <1>3
    <2>2. QED
        BY <1>1, <1>2, <1>3, <2>1 DEF TypeOK
<1>8. TimesInv' /\ BoundInv'
    BY <1>1, <1>2 DEF IInv, TimesInv, BoundInv
<1>9. RequestInv'
    <2>1. \A i \in DOMAIN channel : Kept(channel[i])
        BY DEF IInv, RequestInv
    <2>2. Kept(Head(channel)) /\ \A i \in DOMAIN Tail(channel) : Kept(Tail(channel)[i])
        BY <1>4, <1>5, <1>6, <2>1
    <2>3. Len(crequest') = 1 /\ crequest'[1] = Head(channel)
        BY <1>1
    <2>4. QED
        BY <1>1, <2>2, <2>3 DEF RequestInv, Kept, Expired
<1>10. CopyInv' /\ AnswerInv'
    BY <1>1 DEF CopyInv, AnswerInv
<1>11. ExtremesAttained' /\ FreshCovered'
    BY <1>1 DEF IInv, ExtremesAttained, FreshCovered
<1>12. QED
    BY <1>7, <1>8, <1>9, <1>10, <1>11 DEF IInv

\* A live ticker that made the request being handled is in the list.
LEMMA LiveHeld ==
    ASSUME IInv, cpc # "wait", Live(crequest[1])
    PROVE  Holds(ticker_list, crequest[1]) /\ crequest[1] \in Ticker
<1>1. Kept(crequest[1]) /\ crequest[1] \in Ticker
    BY TickerFacts DEF IInv, RequestInv
<1>2. crequest[1].time \in Nat /\ now \in Nat
    BY <1>1, TickerFacts DEF IInv
<1>3. ~Expired(crequest[1])
    BY <1>2 DEF Expired, Live
<1>4. QED
    BY <1>1, <1>3 DEF Kept

LEMMA GetMinMaxKeeps == IInv /\ GetMinMax => IInv'
<1> SUFFICES ASSUME IInv, GetMinMax PROVE IInv'
    OBVIOUS
<1>1. /\ cpc = "get" /\ cresult' = min_max /\ cflaw' = flaw
      /\ cpc' \in {"copy", "publish"} /\ (cpc' = "publish" => min_max.valid)
      /\ UNCHANGED <<now, ticker_list, min_max, channel, crequest, cnow, ccopy, threshold, during, flaw, basis>>
    BY DEF GetMinMax
<1>2. TypeOK'
    BY <1>1 DEF IInv, TypeOK
<1>3. TimesInv' /\ BoundInv'
    BY <1>1 DEF IInv, TimesInv, BoundInv
<1>4. RequestInv'
    BY <1>1 DEF IInv, RequestInv, Kept, Expired
<1>5. CopyInv'
    BY <1>1 DEF CopyInv
<1>6. AnswerInv'
    <2>1. SUFFICES ASSUME min_max.valid, flaw = {}, Live(crequest[1])
                   PROVE  Covers(min_max, crequest[1].price)
        BY <1>1 DEF AnswerInv, Live
    <2>2. crequest[1] \in Ticker
        BY <1>1, <2>1, LiveHeld
    <2>3. PICK i \in DOMAIN ticker_list : ticker_list[i] = crequest[1]
        BY <1>1, <2>1, LiveHeld DEF Holds
    <2>4. crequest[1].time \in Nat /\ now \in Nat /\ basis \in Nat /\ basis <= now
        BY <2>2, TickerFacts DEF IInv, TimesInv
    <2>5. ticker_list[i].time + Interval > basis
        BY <2>1, <2>3, <2>4 DEF Live
    <2>6. QED
        BY <2>1, <2>3, <2>5 DEF IInv, FreshCovered
<1>7. ExtremesAttained' /\ FreshCovered'
    BY <1>1 DEF IInv, ExtremesAttained, FreshCovered
<1>8. QED
    BY <1>2, <1>3, <1>4, <1>5, <1>6, <1>7 DEF IInv

LEMMA CopyTickerListKeeps == IInv /\ CopyTickerList => IInv'
<1> SUFFICES ASSUME IInv, CopyTickerList PROVE IInv'
    OBVIOUS
<1>1. PICK live : live = {i \in DOMAIN ticker_list : ticker_list[i].time + Interval > cnow}
    OBVIOUS
<1>2. /\ cpc = "copy" /\ cpc' = "compute" /\ during' = {}
      /\ ccopy' = [i \in live |-> ticker_list[i]]
      /\ UNCHANGED <<now, ticker_list, min_max, channel, crequest, cnow, cresult, cflaw, threshold, flaw, basis>>
    BY <1>1 DEF CopyTickerList, Restrict
<1>3. /\ DOMAIN ccopy' = live /\ live \subseteq DOMAIN ticker_list
      /\ \A i \in live : ccopy'[i] = ticker_list[i]
    BY <1>1, <1>2
<1>4. TypeOK /\ ticker_list \in Seq(Ticker) /\ Len(ticker_list) <= MaxTickers
    BY DEF IInv, TypeOK, BoundInv
<1>5. TypeOK'
    <2>1. DOMAIN ticker_list = 1..Len(ticker_list) /\ Len(ticker_list) \in Nat
        BY <1>4
    <2>2. 1..Len(ticker_list) \subseteq 1..MaxTickers
        BY <1>4, <2>1
    <2>3. \A i \in live : ticker_list[i] \in Ticker
        BY <1>3, <1>4
    <2>4. DOMAIN ccopy' \subseteq 1..MaxTickers /\ ccopy' \in [DOMAIN ccopy' -> Ticker]
        BY <1>2, <1>3, <2>1, <2>2, <2>3
    <2>5. QED
        BY <1>2, <1>4, <2>4 DEF TypeOK
<1>6. TimesInv' /\ BoundInv'
    BY <1>2 DEF IInv, TimesInv, BoundInv
<1>7. RequestInv'
    BY <1>2 DEF IInv, RequestInv, Kept, Expired
<1>8. CopyInv'
    <2>1. \A i \in live : Holds(ticker_list, ccopy'[i])
        BY <1>3 DEF Holds
    <2>2. \A i \in DOMAIN ticker_list : ticker_list[i].time + Interval > cnow => Holds(ccopy', ticker_list[i])
        BY <1>1, <1>3 DEF Holds
    <2>3. QED
        BY <1>2, <1>3, <2>1, <2>2 DEF CopyInv
<1>9. AnswerInv'
    <2>1. SUFFICES ASSUME Live(crequest[1]) PROVE Holds(ccopy', crequest[1])
        BY <1>2 DEF AnswerInv, Live
    <2>2. crequest[1] \in Ticker
        BY <1>2, <2>1, LiveHeld
    <2>3. PICK i \in DOMAIN ticker_list : ticker_list[i] = crequest[1]
        BY <1>2, <2>1, LiveHeld DEF Holds
    <2>4. crequest[1].time \in Nat /\ now \in Nat /\ cnow \in Nat /\ cnow <= now
        BY <1>4, <2>2, TickerFacts DEF IInv, TimesInv
    <2>5. i \in live
        BY <1>1, <2>1, <2>3, <2>4 DEF Live
    <2>6. QED
        BY <1>3, <2>3, <2>5 DEF Holds
<1>10. ExtremesAttained' /\ FreshCovered'
    BY <1>2 DEF IInv, ExtremesAttained, FreshCovered
<1>11. QED
    BY <1>5, <1>6, <1>7, <1>8, <1>9, <1>10 DEF IInv

\* An iteration that ends leaves nothing behind.
LEMMA IdleKeeps ==
    IInv /\ Idle /\ threshold' \in MinMax
         /\ UNCHANGED <<now, ticker_list, min_max, channel, during, flaw, basis>> => IInv'
<1> SUFFICES ASSUME IInv, Idle, threshold' \in MinMax,
                    UNCHANGED <<now, ticker_list, min_max, channel, during, flaw, basis>>
             PROVE  IInv'
    OBVIOUS
<1>1. /\ cpc' = "wait" /\ crequest' = << >> /\ cnow' = 0 /\ cresult' = Cleared /\ ccopy' = << >>
      /\ cflaw' = {}
    BY DEF Idle
<1>2. TypeOK'
    BY <1>1, ClearedFacts, EmptySeq DEF IInv, TypeOK
<1>3. TimesInv' /\ BoundInv'
    BY <1>1, TickerFacts DEF IInv, TimesInv, BoundInv
<1>4. RequestInv'
    BY <1>1 DEF IInv, RequestInv, Kept, Expired
<1>5. CopyInv' /\ AnswerInv'
    BY <1>1 DEF CopyInv, AnswerInv
<1>6. ExtremesAttained' /\ FreshCovered'
    BY <1>1 DEF IInv, ExtremesAttained, FreshCovered
<1>7. QED
    BY <1>2, <1>3, <1>4, <1>5, <1>6 DEF IInv

LEMMA SetMinMaxKeeps == IInv /\ SetMinMax => IInv'
<1> SUFFICES ASSUME IInv, SetMinMax PROVE IInv'
    OBVIOUS
<1>1. PICK m : m = Extremes(ccopy)
    OBVIOUS
<1>2. /\ cpc = "compute" /\ cpc' = "publish" /\ min_max' = m /\ cresult' = m
      /\ flaw' = during /\ cflaw' = {} /\ basis' = cnow
      /\ UNCHANGED <<now, ticker_list, channel, crequest, cnow, ccopy, threshold, during>>
    BY <1>1 DEF SetMinMax
<1>3. TypeOK /\ ccopy \in [DOMAIN ccopy -> Ticker]
    BY DEF IInv, TypeOK
<1>4. DOMAIN ccopy # {}
    <2>1. Cardinality(DOMAIN ccopy) >= Interval
        BY DEF SetMinMax, EnoughTickers
    <2>2. Interval >= 1 /\ Cardinality({}) = 0
        BY FS_EmptySet
    <2>3. QED
        BY <2>1, <2>2
<1>5. /\ m \in MinMax /\ m.valid
      /\ \A i \in DOMAIN ccopy : Covers(m, ccopy[i].price)
      /\ \A f \in Fields : /\ \E i \in DOMAIN ccopy : ccopy[i].price[f] = m.min[f]
                           /\ \E i \in DOMAIN ccopy : ccopy[i].price[f] = m.max[f]
    <2>1. PICK S, copy : S = DOMAIN ccopy /\ copy = ccopy
        OBVIOUS
    <2>2. S # {} /\ copy \in [S -> Ticker]
        BY <1>3, <1>4, <2>1
    <2>3. ExtremesOf(Extremes(copy), copy, S)
        BY <2>2, ExtremesFacts
    <2>4. QED
        BY <1>1, <2>1, <2>3 DEF ExtremesOf
<1>6. \A t : Holds(ccopy, t) => Covers(m, t.price)
    BY <1>5 DEF Holds
<1>7. TypeOK'
    <2>1. \A f \in Fields : m.min[f] <= m.max[f]
        <3>1. PICK i \in DOMAIN ccopy : TRUE
            BY <1>4
        <3>2. ccopy[i].price \in Quotes
            BY <1>3 DEF Ticker
        <3>3. ASSUME NEW f \in Fields PROVE m.min[f] <= m.max[f]
            <4>1. m.min[f] \in Nat /\ m.max[f] \in Nat /\ ccopy[i].price[f] \in Nat
                BY <1>5, <3>2, QuoteFacts, InfinityFacts DEF MinMax
            <4>2. m.min[f] <= ccopy[i].price[f] /\ ccopy[i].price[f] <= m.max[f]
                BY <1>5 DEF Covers
            <4>3. QED
                BY <4>1, <4>2
        <3>4. QED
            BY <3>3
    <2>2. QED
        BY <1>2, <1>3, <1>5, <2>1 DEF TypeOK
<1>8. TimesInv' /\ BoundInv'
    BY <1>2 DEF IInv, TimesInv, BoundInv
<1>9. RequestInv'
    BY <1>2 DEF IInv, RequestInv, Kept, Expired
<1>10. CopyInv'
    BY <1>2 DEF CopyInv
<1>11. AnswerInv'
    <2>1. Live(crequest[1]) => Holds(ccopy, crequest[1])
        BY <1>2 DEF IInv, AnswerInv
    <2>2. QED
        BY <1>2, <1>6, <2>1 DEF AnswerInv, Live
<1>12. ExtremesAttained'
    <2>1. SUFFICES ASSUME "pop" \notin during, NEW f \in Fields
                   PROVE  /\ \E i \in DOMAIN ticker_list : ticker_list[i].price[f] = m.min[f]
                          /\ \E i \in DOMAIN ticker_list : ticker_list[i].price[f] = m.max[f]
        BY <1>2 DEF ExtremesAttained
    <2>2. \A i \in DOMAIN ccopy : Holds(ticker_list, ccopy[i])
        BY <1>2, <2>1 DEF IInv, CopyInv
    <2>3. QED
        BY <1>5, <2>2 DEF Holds
<1>13. FreshCovered'
    <2>1. SUFFICES ASSUME during = {}, NEW i \in DOMAIN ticker_list, ticker_list[i].time + Interval > cnow
                   PROVE  Covers(m, ticker_list[i].price)
        BY <1>2 DEF FreshCovered
    <2>2. Holds(ccopy, ticker_list[i])
        BY <1>2, <2>1 DEF IInv, CopyInv
    <2>3. QED
        BY <1>6, <2>2
<1>14. QED
    BY <1>7, <1>8, <1>9, <1>10, <1>11, <1>12, <1>13 DEF IInv

LEMMA StepIInv == IInv /\ [Next]_vars => IInv'
<1> SUFFICES ASSUME IInv, [Next]_vars PROVE IInv'
    OBVIOUS
<1>1. CASE Tick
    BY <1>1, TickKeeps
<1>2. ASSUME NEW delay \in 0..MaxDelay, NEW price \in Quotes, ProcessTicker(delay, price) PROVE IInv'
    BY <1>2, FeedKeeps
<1>3. CASE Dequeue
    BY <1>3, DequeueKeeps
<1>4. CASE GetMinMax
    BY <1>4, GetMinMaxKeeps
<1>5. CASE CopyTickerList
    BY <1>5, CopyTickerListKeeps
<1>6. CASE NotEnough
    <2>1. threshold' \in MinMax
        BY <1>6 DEF NotEnough, IInv, TypeOK
    <2>2. QED
        BY <1>6, <2>1, IdleKeeps DEF NotEnough
<1>7. CASE SetMinMax
    BY <1>7, SetMinMaxKeeps
<1>8. CASE Publish
    <2>1. threshold' \in MinMax
        BY <1>8 DEF Publish, IInv, TypeOK
    <2>2. QED
        BY <1>8, <2>1, IdleKeeps DEF Publish
<1>9. CASE Retry \/ UNCHANGED vars
    <2>1. UNCHANGED <<now, ticker_list, min_max, channel, cpc, crequest, cnow, cresult, ccopy, cflaw>>
          /\ UNCHANGED <<threshold, during, flaw, basis>>
        BY <1>9 DEF Retry, vars, calculatorVars
    <2>2. TypeOK' /\ TimesInv' /\ BoundInv'
        BY <2>1 DEF IInv, TypeOK, TimesInv, BoundInv
    <2>3. RequestInv' /\ CopyInv' /\ AnswerInv'
        BY <2>1 DEF IInv, RequestInv, Kept, Expired, CopyInv, AnswerInv, Live
    <2>4. ExtremesAttained' /\ FreshCovered'
        BY <2>1 DEF IInv, ExtremesAttained, FreshCovered
    <2>5. QED
        BY <2>2, <2>3, <2>4 DEF IInv
<1>10. QED
    BY <1>1, <1>2, <1>3, <1>4, <1>5, <1>6, <1>7, <1>8, <1>9 DEF Next, CalculatorStep
-----------------------------------------------------------------------------
(* Theorems *)

\* The inductive invariant of the window: the tickers that made requests stay in the list
\* until they expire, what feeds have not disturbed the copy still says of the list, and the
\* extremes are right about both.
THEOREM TickerWindowInvariant == Spec => []IInv
<1>1. Init => IInv
    BY InitIInv
<1>2. IInv /\ [Next]_vars => IInv'
    BY StepIInv
<1>3. QED
    BY <1>1, <1>2, PTL DEF Spec

\* TypeOK: the types of list, extremes, requests and copy, and that valid extremes are those
\* of at least one ticker.
THEOREM TickerWindowTypeOK == Spec => []TypeOK
<1>1. IInv => TypeOK
    BY DEF IInv
<1>2. QED
    BY <1>1, TickerWindowInvariant, PTL

\* Each valid cached extreme is the price of a ticker still in ticker_list: update_ticker
\* invalidates what a dropped ticker may have attained, unless one was dropped between
\* copy_ticker_list_after and set_min_max_result.
THEOREM TickerWindowExtremesAttained == Spec => []ExtremesAttained
<1>1. IInv => ExtremesAttained
    BY DEF IInv
<1>2. QED
    BY <1>1, TickerWindowInvariant, PTL

\* The valid extremes cover every ticker the calculation that stored them was about and every
\* one that was pushed since, unless one was pushed between copy and store.
THEOREM TickerWindowFreshCovered == Spec => []FreshCovered
<1>1. IInv => FreshCovered
    BY DEF IInv
<1>2. QED
    BY <1>1, TickerWindowInvariant, PTL

\* The threshold published for a request covers the price of the ticker that made it, whether
\* get_min_max_result found valid extremes or the calculator recomputed them.
THEOREM TickerWindowRequestReflected == Spec => RequestReflected
<1>1. IInv /\ [Next]_vars =>
          (cpc = "publish" /\ cpc' = "wait" /\ cflaw = {} /\ crequest[1].time + Interval > now
              => Covers(threshold', crequest[1].price))
    <2> SUFFICES ASSUME IInv, [Next]_vars, cpc = "publish", cpc' = "wait", cflaw = {},
                        crequest[1].time + Interval > now
                 PROVE  Covers(threshold', crequest[1].price)
        OBVIOUS
    <2>1. Publish
        BY DEF Next, CalculatorStep, vars, calculatorVars, Tick, ProcessTicker, Retry, Dequeue, GetMinMax,
               CopyTickerList, NotEnough, SetMinMax
    <2>2. Covers(cresult, crequest[1].price)
        BY DEF IInv, AnswerInv, Live
    <2>3. QED
        BY <2>1, <2>2 DEF Publish
<1>2. QED
    BY <1>1, TickerWindowInvariant, PTL DEF Spec, RequestReflected
=============================================================================
