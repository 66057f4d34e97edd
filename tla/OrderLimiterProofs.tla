-------------------------- MODULE OrderLimiterProofs --------------------------
(***************************************************************************)
(* The best-path limiter keeps the account within its rate limit, for any  *)
(* number of scan threads, creating threads and IPs, and any limits and    *)
(* periods.                                                                *)
(*                                                                         *)
(* The rate is not inductive as it stands: a refill makes the whole budget *)
(* available again.  What is kept is that everything the account has       *)
(* granted, is about to grant or still could grant fits the periods that   *)
(* had started when it was last reset.  A reset moves that time on by at   *)
(* least one period, and only takes place while no scan thread is inside.  *)
(***************************************************************************)
EXTENDS OrderLimiter, FiniteSetTheorems, TLAPS

\* Everything the account limiter has granted or may still grant before its next reset
\* fits the periods started at its last reset, which is not in the future.
BudgetInv ==
    /\ rnow <= now
    /\ second_reset[Account] <= now
    /\ minute_reset[Account] <= now
    /\ granted[Account] + second_remain[Account] + Cardinality(Inside)
          <= AccountSecond * (1 + second_reset[Account] \div SecondDuration)
    /\ granted[Account] + minute_remain[Account] + Cardinality(Inside)
          <= AccountMinute * (1 + minute_reset[Account] \div MinuteDuration)

IInv == TypeOK /\ ReturnFits /\ BudgetInv
-----------------------------------------------------------------------------
(* Arithmetic *)

\* Division by a period is monotonic, and a full period more is one more.
LEMMA DivMono ==
    ASSUME NEW a \in Nat, NEW b \in Nat, NEW d \in Nat \ {0}, a <= b
    PROVE  /\ a \div d \in Nat
           /\ b \div d \in Nat
           /\ a \div d <= b \div d
<1> DEFINE q == a \div d
           r == b \div d
<1>1. q \in Nat /\ r \in Nat
  BY SMT
<1>2. d * q <= a /\ b < d * r + d
  BY SMT
<1>3. SUFFICES ASSUME r + 1 <= q PROVE FALSE
  BY <1>1
<1> HIDE DEF q, r
<1>4. d * (r + 1) <= d * q
  BY <1>1, <1>3, SMT
<1>5. d * (r + 1) = d * r + d
  BY <1>1, SMT
<1> QED
  BY <1>1, <1>2, <1>4, <1>5, SMT

LEMMA DivStep ==
    ASSUME NEW a \in Nat, NEW b \in Nat, NEW d \in Nat \ {0}, a + d <= b
    PROVE  (a \div d) + 1 <= b \div d
<1> DEFINE q == a \div d
           r == b \div d
<1>1. q \in Nat /\ r \in Nat
  BY SMT
<1>2. d * q <= a /\ b < d * r + d
  BY SMT
<1>3. SUFFICES ASSUME r <= q PROVE FALSE
  BY <1>1
<1> HIDE DEF q, r
<1>4. d * r <= d * q
  BY <1>1, <1>3, SMT
<1> QED
  BY <1>1, <1>2, <1>4, SMT

\* A budget per period: more periods, more budget; one more period, one budget more.
LEMMA BudgetMono ==
    ASSUME NEW l \in Nat, NEW x \in Nat, NEW y \in Nat
    PROVE  /\ l * (1 + x) \in Nat
           /\ x <= y => l * (1 + x) <= l * (1 + y)
           /\ x + 1 <= y => l * (1 + x) + l <= l * (1 + y)
<1>1. l * (1 + x) \in Nat
  BY SMT
<1>2. ASSUME x <= y PROVE l * (1 + x) <= l * (1 + y)
  BY <1>2, SMT
<1>3. ASSUME x + 1 <= y PROVE l * (1 + x) + l <= l * (1 + y)
  <2>1. l * (1 + (x + 1)) <= l * (1 + y)
    BY <1>3, SMT
  <2>2. l * (1 + (x + 1)) = l * (1 + x) + l
    BY SMT
  <2> QED
    BY <2>1, <2>2
<1> QED
  BY <1>1, <1>2, <1>3
-----------------------------------------------------------------------------
(* The threads inside get_order_semaphore *)

USE OrderLimiterAssumption DEF OrderLimiterAssumption

LEMMA InsideFinite == IsFiniteSet(Inside) /\ Cardinality(Inside) \in Nat
<1>1. Inside \subseteq Senders
  BY DEF Inside
<1> QED
  BY <1>1, FS_Subset, FS_CardinalityType

\* A thread that enters makes them one more, a thread that leaves one less.
LEMMA InsideEnter ==
    ASSUME TypeOK, NEW s \in Senders, spc[s] = "idle", spc' = [spc EXCEPT ![s] = "ip"]
    PROVE  Cardinality(Inside)' = Cardinality(Inside) + 1
<1>1. s \notin Inside
  BY DEF Inside
<1>2. Inside' = Inside \cup {s}
  BY DEF Inside, TypeOK
<1> QED
  BY <1>1, <1>2, InsideFinite, FS_AddElement

LEMMA InsideLeave ==
    ASSUME TypeOK, NEW s \in Senders, spc[s] # "idle", spc' = [spc EXCEPT ![s] = "idle"]
    PROVE  /\ Cardinality(Inside)' = Cardinality(Inside) - 1
           /\ Cardinality(Inside) >= 1
<1>1. s \in Inside
  BY DEF Inside
<1>2. Inside' = Inside \ {s}
  BY DEF Inside, TypeOK
<1>3. Cardinality(Inside \ {s}) = Cardinality(Inside) - 1
  BY <1>1, InsideFinite, FS_RemoveElement
<1>4. Inside # {}
  BY <1>1
<1>5. Cardinality(Inside) # 0
  BY <1>4, InsideFinite, FS_EmptySet
<1> QED
  BY <1>2, <1>3, <1>5, InsideFinite

LEMMA InsideStay ==
    ASSUME spc' = spc
    PROVE  Cardinality(Inside)' = Cardinality(Inside)
<1>1. Inside' = Inside
  BY DEF Inside
<1> QED
  BY <1>1
-----------------------------------------------------------------------------
LEMMA InitIInv == Init => IInv
<1> SUFFICES ASSUME Init PROVE IInv
  OBVIOUS
<1>1. TypeOK
  BY DEF Init, TypeOK, Limiters, second_semaphore_init_count, minute_semaphore_init_count
<1>2. Cardinality(Inside) = 0
  <2>1. Inside = {}
    BY DEF Init, Inside
  <2> QED
    BY <2>1, FS_EmptySet
<1>3. /\ second_remain[Account] = AccountSecond
      /\ minute_remain[Account] = AccountMinute
      /\ granted[Account] = 0
      /\ second_reset[Account] = 0
      /\ minute_reset[Account] = 0
  BY DEF Init, Limiters, second_semaphore_init_count, minute_semaphore_init_count
<1>4. 0 \div SecondDuration = 0 /\ 0 \div MinuteDuration = 0
  <2>1. \A d \in Nat \ {0} : 0 \div d = 0
    BY SMT
  <2> QED
    BY <2>1
<1>5. ReturnFits
  BY <1>2, <1>3 DEF ReturnFits
<1>6. BudgetInv
  BY <1>2, <1>3, <1>4 DEF BudgetInv, Init
<1> QED
  BY <1>1, <1>5, <1>6 DEF IInv

LEMMA TypeStep == TypeOK /\ [Next]_vars => TypeOK'
<1> SUFFICES ASSUME TypeOK, [Next]_vars PROVE TypeOK'
  OBVIOUS
<1>1. CASE Tick
  BY <1>1 DEF Tick, TypeOK, limiterVars, creatorVars
<1>2. ASSUME NEW s \in Senders, NEW ip \in Ips, AccountDraw(s, ip) PROVE TypeOK'
  BY <1>2 DEF AccountDraw, HasSemaphore, Draw, TypeOK, creatorVars, Limiters
<1>3. ASSUME NEW s \in Senders, IpDraw(s) PROVE TypeOK'
  BY <1>3 DEF IpDraw, HasSemaphore, Draw, TypeOK, creatorVars, Limiters
<1>4. ASSUME NEW s \in Senders, IpRefuse(s) PROVE TypeOK'
  BY <1>4 DEF IpRefuse, TypeOK, creatorVars, limiterVars
<1>5. ASSUME NEW s \in Senders, AccountReturn(s) PROVE TypeOK'
  BY <1>5 DEF AccountReturn, return_order_semaphore, TypeOK, creatorVars, Limiters
<1>6. CASE RefreshRead
  BY <1>6 DEF RefreshRead, TypeOK, creatorVars, limiterVars
<1>7. CASE RefreshApply
  <2>1. \A l \in Limiters : /\ second_semaphore_init_count(l) \in Nat
                             /\ minute_semaphore_init_count(l) \in Nat
    BY DEF second_semaphore_init_count, minute_semaphore_init_count
  <2> QED
    BY <1>7, <2>1 DEF RefreshApply, TypeOK, creatorVars
<1>8. ASSUME NEW c \in Creators, NEW ip \in Ips, CreateLook(c, ip) PROVE TypeOK'
  BY <1>8 DEF CreateLook, TypeOK, limiterVars
<1>9. ASSUME NEW c \in Creators, CreateInit(c) PROVE TypeOK'
  BY <1>9 DEF CreateInit, TypeOK, limiterVars
<1>10. ASSUME NEW c \in Creators, CreateInsert(c) PROVE TypeOK'
  BY <1>10 DEF CreateInsert, TypeOK, Limiters
<1>11. CASE UNCHANGED vars
  BY <1>11 DEF vars, TypeOK, limiterVars, creatorVars
<1> QED
  BY <1>1, <1>2, <1>3, <1>4, <1>5, <1>6, <1>7, <1>8, <1>9, <1>10, <1>11
  DEF Next, SenderStep, CreatorStep
-----------------------------------------------------------------------------
\* What a step does to the account limiter: nothing but a matter of time, a thread that
\* draws from it, grants or gives back, or a refill while nobody is inside.
AccountKept == /\ second_remain'[Account] = second_remain[Account]
               /\ minute_remain'[Account] = minute_remain[Account]
               /\ second_reset'[Account] = second_reset[Account]
               /\ minute_reset'[Account] = minute_reset[Account]
               /\ granted'[Account] = granted[Account]

LEMMA Kept ==
    ASSUME IInv, AccountKept, spc' = spc, now' \in Nat, now <= now', rnow' <= now'
    PROVE  ReturnFits' /\ BudgetInv'
<1>1. Cardinality(Inside)' = Cardinality(Inside)
  BY InsideStay
<1>2. ReturnFits'
  BY <1>1 DEF IInv, ReturnFits, AccountKept
<1>3. second_reset[Account] \in Nat /\ minute_reset[Account] \in Nat /\ now \in Nat
  BY DEF IInv, TypeOK, Limiters
<1>4. BudgetInv'
  BY <1>1, <1>3 DEF IInv, BudgetInv, AccountKept
<1> QED
  BY <1>2, <1>4

LEMMA BudgetStep == IInv /\ [Next]_vars => ReturnFits' /\ BudgetInv'
<1> SUFFICES ASSUME IInv, [Next]_vars PROVE ReturnFits' /\ BudgetInv'
  OBVIOUS
<1> USE DEF IInv
<1>0. /\ Account \in Limiters
      /\ now \in Nat
      /\ rnow \in Nat
      /\ rnow <= now
      /\ second_remain[Account] \in Nat
      /\ minute_remain[Account] \in Nat
      /\ second_reset[Account] \in Nat
      /\ minute_reset[Account] \in Nat
      /\ granted[Account] \in Nat
      /\ Cardinality(Inside) \in Nat
  BY InsideFinite DEF TypeOK, Limiters, BudgetInv
<1>1. CASE Tick
  BY <1>0, <1>1, Kept DEF Tick, limiterVars, AccountKept
<1>2. ASSUME NEW s \in Senders, NEW ip \in Ips, AccountDraw(s, ip)
      PROVE  ReturnFits' /\ BudgetInv'
  <2>1. Cardinality(Inside)' = Cardinality(Inside) + 1
    BY <1>2, InsideEnter DEF AccountDraw
  <2>2. /\ second_remain'[Account] = second_remain[Account] - 1
        /\ minute_remain'[Account] = minute_remain[Account] - 1
        /\ UNCHANGED <<now, rnow, second_reset, minute_reset, granted>>
    BY <1>0, <1>2 DEF AccountDraw, Draw, TypeOK
  <2>3. ReturnFits'
    BY <1>0, <2>1, <2>2 DEF ReturnFits
  <2>4. BudgetInv'
    BY <1>0, <2>1, <2>2 DEF BudgetInv
  <2> QED
    BY <2>3, <2>4
<1>3. ASSUME NEW s \in Senders, IpDraw(s) PROVE ReturnFits' /\ BudgetInv'
  <2>1. Cardinality(Inside)' = Cardinality(Inside) - 1 /\ Cardinality(Inside) >= 1
    BY <1>3, InsideLeave DEF IpDraw
  <2>2. /\ second_remain'[Account] = second_remain[Account]
        /\ minute_remain'[Account] = minute_remain[Account]
        /\ granted'[Account] = granted[Account] + 1
        /\ UNCHANGED <<now, rnow, second_reset, minute_reset>>
    <3>1. sip[s] \in Limiters /\ sip[s] # Account
      BY DEF TypeOK, Limiters
    <3> QED
      BY <1>0, <1>3, <3>1 DEF IpDraw, Draw, TypeOK
  <2>3. ReturnFits'
    BY <1>0, <2>1, <2>2 DEF ReturnFits
  <2>4. BudgetInv'
    BY <1>0, <2>1, <2>2 DEF BudgetInv
  <2> QED
    BY <2>3, <2>4
<1>4. ASSUME NEW s \in Senders, IpRefuse(s) PROVE ReturnFits' /\ BudgetInv'
  <2>1. Inside' = Inside
    BY <1>4 DEF IpRefuse, Inside, TypeOK
  <2>2. Cardinality(Inside)' = Cardinality(Inside)
    BY <2>1
  <2>3. UNCHANGED <<now, rnow, second_remain, minute_remain, second_reset, minute_reset, granted>>
    BY <1>4 DEF IpRefuse, limiterVars
  <2> QED
    BY <2>2, <2>3 DEF ReturnFits, BudgetInv
<1>5. ASSUME NEW s \in Senders, AccountReturn(s) PROVE ReturnFits' /\ BudgetInv'
  <2>1. Cardinality(Inside)' = Cardinality(Inside) - 1 /\ Cardinality(Inside) >= 1
    BY <1>5, InsideLeave DEF AccountReturn
  <2>2. /\ second_remain'[Account] = second_remain[Account] + 1
        /\ minute_remain'[Account] = minute_remain[Account] + 1
        /\ UNCHANGED <<now, rnow, second_reset, minute_reset, granted>>
    <3>1. /\ second_remain[Account] + 1 <= AccountSecond
          /\ minute_remain[Account] + 1 <= AccountMinute
      BY <1>0, <2>1 DEF ReturnFits
    <3> QED
      BY <1>0, <1>5, <3>1 DEF AccountReturn, return_order_semaphore, TypeOK,
         second_semaphore_init_count, minute_semaphore_init_count
  <2>3. ReturnFits'
    BY <1>0, <2>1, <2>2 DEF ReturnFits
  <2>4. BudgetInv'
    BY <1>0, <2>1, <2>2 DEF BudgetInv
  <2> QED
    BY <2>3, <2>4
<1>6. CASE RefreshRead
  BY <1>0, <1>6, Kept DEF RefreshRead, limiterVars, AccountKept
<1>7. CASE RefreshApply
  <2>1. Cardinality(Inside)' = 0 /\ Cardinality(Inside) = 0
    <3>1. Inside = {} /\ Inside' = Inside
      BY <1>7 DEF RefreshApply, UniqueLock, Inside
    <3> QED
      BY <3>1, FS_EmptySet
  <2>2. UNCHANGED <<now, rnow, granted>>
    BY <1>7 DEF RefreshApply
  <2>3. /\ second_remain'[Account] <= AccountSecond
        /\ second_reset'[Account] <= now
        /\ granted[Account] + second_remain'[Account]
              <= AccountSecond * (1 + second_reset'[Account] \div SecondDuration)
    <3>1. CASE SecondEnd(Account)
      <4>1. second_remain'[Account] = AccountSecond /\ second_reset'[Account] = rnow
        BY <1>0, <1>7, <3>1 DEF RefreshApply, second_semaphore_init_count
      <4>2. (second_reset[Account] \div SecondDuration) + 1 <= rnow \div SecondDuration
        BY <1>0, <3>1, DivStep DEF SecondEnd
      <4>3. second_reset[Account] \div SecondDuration \in Nat /\ rnow \div SecondDuration \in Nat
        BY <1>0, DivMono
      <4>4. AccountSecond * (1 + second_reset[Account] \div SecondDuration) + AccountSecond
              <= AccountSecond * (1 + rnow \div SecondDuration)
        BY <4>2, <4>3, BudgetMono
      <4>5. granted[Account] <= AccountSecond * (1 + second_reset[Account] \div SecondDuration)
        BY <1>0, <2>1, <4>3, BudgetMono DEF BudgetInv
      <4>6. /\ AccountSecond * (1 + second_reset[Account] \div SecondDuration) \in Nat
            /\ AccountSecond * (1 + rnow \div SecondDuration) \in Nat
        BY <4>3, BudgetMono
      <4> HIDE DEF IInv
      <4> QED
        BY <1>0, <4>1, <4>4, <4>5, <4>6
    <3>2. CASE ~SecondEnd(Account)
      <4>1. second_remain'[Account] = second_remain[Account] /\ second_reset'[Account] = second_reset[Account]
        BY <1>0, <1>7, <3>2 DEF RefreshApply
      <4> QED
        BY <1>0, <2>1, <4>1 DEF BudgetInv, ReturnFits
    <3> QED
      BY <3>1, <3>2
  <2>4. /\ minute_remain'[Account] <= AccountMinute
        /\ minute_reset'[Account] <= now
        /\ granted[Account] + minute_remain'[Account]
              <= AccountMinute * (1 + minute_reset'[Account] \div MinuteDuration)
    <3>1. CASE MinuteEnd(Account)
      <4>1. minute_remain'[Account] = AccountMinute /\ minute_reset'[Account] = rnow
        BY <1>0, <1>7, <3>1 DEF RefreshApply, minute_semaphore_init_count
      <4>2. (minute_reset[Account] \div MinuteDuration) + 1 <= rnow \div MinuteDuration
        BY <1>0, <3>1, DivStep DEF MinuteEnd
      <4>3. minute_reset[Account] \div MinuteDuration \in Nat /\ rnow \div MinuteDuration \in Nat
        BY <1>0, DivMono
      <4>4. AccountMinute * (1 + minute_reset[Account] \div MinuteDuration) + AccountMinute
              <= AccountMinute * (1 + rnow \div MinuteDuration)
        BY <4>2, <4>3, BudgetMono
      <4>5. granted[Account] <= AccountMinute * (1 + minute_reset[Account] \div MinuteDuration)
        BY <1>0, <2>1, <4>3, BudgetMono DEF BudgetInv
      <4>6. /\ AccountMinute * (1 + minute_reset[Account] \div MinuteDuration) \in Nat
            /\ AccountMinute * (1 + rnow \div MinuteDuration) \in Nat
        BY <4>3, BudgetMono
      <4> HIDE DEF IInv
      <4> QED
        BY <1>0, <4>1, <4>4, <4>5, <4>6
    <3>2. CASE ~MinuteEnd(Account)
      <4>1. minute_remain'[Account] = minute_remain[Account] /\ minute_reset'[Account] = minute_reset[Account]
        BY <1>0, <1>7, <3>2 DEF RefreshApply
      <4> QED
        BY <1>0, <2>1, <4>1 DEF BudgetInv, ReturnFits
    <3> QED
      BY <3>1, <3>2
  <2>5. second_remain'[Account] \in Nat /\ minute_remain'[Account] \in Nat
    BY <1>0, TypeStep DEF TypeOK
  <2>6. ReturnFits'
    BY <2>1, <2>3, <2>4, <2>5 DEF ReturnFits
  <2>7. BudgetInv'
    <3>1. /\ granted[Account] + second_remain'[Account] + 0 = granted[Account] + second_remain'[Account]
          /\ granted[Account] + minute_remain'[Account] + 0 = granted[Account] + minute_remain'[Account]
      BY <1>0, <2>5
    <3> HIDE DEF IInv
    <3> QED
      BY <1>0, <2>1, <2>2, <2>3, <2>4, <3>1 DEF BudgetInv
  <2> QED
    BY <2>6, <2>7
<1>8. ASSUME NEW c \in Creators, NEW ip \in Ips, CreateLook(c, ip)
      PROVE  ReturnFits' /\ BudgetInv'
  BY <1>0, <1>8, Kept DEF CreateLook, limiterVars, AccountKept
<1>9. ASSUME NEW c \in Creators, CreateInit(c) PROVE ReturnFits' /\ BudgetInv'
  BY <1>0, <1>9, Kept DEF CreateInit, limiterVars, AccountKept
<1>10. ASSUME NEW c \in Creators, CreateInsert(c) PROVE ReturnFits' /\ BudgetInv'
  <2>1. cip[c] # Account
    BY DEF TypeOK
  <2>2. AccountKept
    BY <1>0, <1>10, <2>1 DEF CreateInsert, AccountKept, TypeOK
  <2> QED
    BY <1>0, <1>10, <2>2, Kept DEF CreateInsert
<1>11. CASE UNCHANGED vars
  BY <1>0, <1>11, Kept DEF vars, limiterVars, AccountKept
<1> QED
  BY <1>1, <1>2, <1>3, <1>4, <1>5, <1>6, <1>7, <1>8, <1>9, <1>10, <1>11
  DEF Next, SenderStep, CreatorStep
-----------------------------------------------------------------------------
\* The inductive invariant holds of every behaviour of the limiter.
THEOREM OrderLimiterInvariant == Spec => []IInv
<1>1. IInv /\ [Next]_vars => IInv'
  BY TypeStep, BudgetStep DEF IInv
<1> QED
  BY InitIInv, <1>1, PTL DEF Spec

\* A semaphore given back to the account always fits, so refill and return never meet
\* and the branch of return_order_semaphore that drops it is dead.
THEOREM OrderLimiterReturnFits == Spec => []ReturnFits
<1>1. IInv => ReturnFits
  BY DEF IInv
<1> QED
  BY OrderLimiterInvariant, <1>1, PTL

\* The account never sends more than one budget per started period.
THEOREM OrderLimiterAccountRate == Spec => []AccountRate
<1>1. ASSUME IInv PROVE AccountRate
  <2>0. /\ now \in Nat
        /\ second_remain[Account] \in Nat
        /\ minute_remain[Account] \in Nat
        /\ second_reset[Account] \in Nat
        /\ minute_reset[Account] \in Nat
        /\ granted[Account] \in Nat
        /\ Cardinality(Inside) \in Nat
        /\ second_reset[Account] <= now
        /\ minute_reset[Account] <= now
    BY <1>1, InsideFinite DEF IInv, TypeOK, Limiters, BudgetInv
  <2>1. /\ second_reset[Account] \div SecondDuration \in Nat
        /\ now \div SecondDuration \in Nat
        /\ second_reset[Account] \div SecondDuration <= now \div SecondDuration
        /\ minute_reset[Account] \div MinuteDuration \in Nat
        /\ now \div MinuteDuration \in Nat
        /\ minute_reset[Account] \div MinuteDuration <= now \div MinuteDuration
    BY <2>0, DivMono
  <2>2. /\ AccountSecond * (1 + second_reset[Account] \div SecondDuration) \in Nat
        /\ AccountSecond * (1 + now \div SecondDuration) \in Nat
        /\ AccountSecond * (1 + second_reset[Account] \div SecondDuration)
              <= AccountSecond * (1 + now \div SecondDuration)
        /\ AccountMinute * (1 + minute_reset[Account] \div MinuteDuration) \in Nat
        /\ AccountMinute * (1 + now \div MinuteDuration) \in Nat
        /\ AccountMinute * (1 + minute_reset[Account] \div MinuteDuration)
              <= AccountMinute * (1 + now \div MinuteDuration)
    BY <2>1, BudgetMono
  <2>3. /\ granted[Account] + second_remain[Account] + Cardinality(Inside)
              <= AccountSecond * (1 + second_reset[Account] \div SecondDuration)
        /\ granted[Account] + minute_remain[Account] + Cardinality(Inside)
              <= AccountMinute * (1 + minute_reset[Account] \div MinuteDuration)
    BY <1>1 DEF IInv, BudgetInv
  <2> QED
    BY <2>0, <2>2, <2>3 DEF AccountRate
<1> QED
  BY OrderLimiterInvariant, <1>1, PTL
-----------------------------------------------------------------------------
(***************************************************************************)
(* The IPs.  A limiter may be created for an IP more than once, and each   *)
(* creation hands out a fresh budget; between two creations a budget needs *)
(* a period.                                                               *)
(***************************************************************************)

\* With budget l per period, grants g and semaphores m left, n limiters created, q periods
\* passed by now and r by the latest reset: the limiters before the last may have spent
\* every period up to now, the last one the periods up to its reset.
Accounted(l, g, m, n, q, r) == g + m + l * q <= l * n * (1 + q) + l * r

LEMMA AccountedNat ==
    ASSUME NEW l \in Nat, NEW n \in Nat, NEW q \in Nat
    PROVE  /\ l * q \in Nat
           /\ l * n * (1 + q) \in Nat
           /\ l * (n + 1) * (1 + q) = l * n * (1 + q) + l + l * q
<1>1. l * n \in Nat /\ l * q \in Nat
  BY SMT
<1>2. l * (n + 1) = l * n + l
  BY SMT
<1> DEFINE x == l * n
<1>3. x \in Nat
  BY <1>1
<1> HIDE DEF x
<1>4. x * (1 + q) \in Nat /\ (x + l) * (1 + q) = x * (1 + q) + l + l * q
  BY <1>3, SMT
<1> QED
  BY <1>1, <1>2, <1>4 DEF x

LEMMA AccountedLater ==
    ASSUME NEW l \in Nat, NEW g \in Nat, NEW m \in Nat, NEW n \in Nat \ {0},
           NEW q \in Nat, NEW r \in Nat, NEW u \in Nat, q <= u,
           Accounted(l, g, m, n, q, r)
    PROVE  Accounted(l, g, m, n, u, r)
<1> DEFINE k == n - 1
           d == u - q
           x == l * k
<1>1. k \in Nat /\ d \in Nat /\ n = k + 1 /\ u = q + d
  BY SMT
<1>2. x \in Nat /\ l * n = x + l
  BY <1>1, SMT
<1> HIDE DEF k, d, x
<1>3. x * d \in Nat /\ l * d \in Nat
  BY <1>1, <1>2, SMT
<1>4. /\ l * u = l * q + l * d
      /\ (x + l) * (1 + u) = (x + l) * (1 + q) + x * d + l * d
  BY <1>1, <1>2, SMT
<1>5. l * q \in Nat /\ l * r \in Nat /\ (x + l) * (1 + q) \in Nat
  BY <1>2, SMT
<1>6. g + m + l * q <= (x + l) * (1 + q) + l * r
  BY <1>2 DEF Accounted
<1>7. g + m + l * u <= (x + l) * (1 + u) + l * r
  BY <1>3, <1>4, <1>5, <1>6, SMT
<1> QED
  BY <1>2, <1>7 DEF Accounted

LEMMA AccountedDraw ==
    ASSUME NEW l \in Nat, NEW g \in Nat, NEW m \in Nat, NEW n \in Nat, NEW q \in Nat, NEW r \in Nat,
           Accounted(l, g, m, n, q, r)
    PROVE  Accounted(l, g + 1, m - 1, n, q, r)
<1>1. g + 1 + (m - 1) = g + m
  BY SMT
<1> QED
  BY <1>1 DEF Accounted

LEMMA AccountedRefill ==
    ASSUME NEW l \in Nat, NEW g \in Nat, NEW m \in Nat, NEW n \in Nat, NEW q \in Nat, NEW r \in Nat,
           NEW v \in Nat, r + 1 <= v,
           Accounted(l, g, m, n, q, r)
    PROVE  Accounted(l, g, l, n, q, v)
<1>1. l * (r + 1) <= l * v /\ l * (r + 1) = l * r + l /\ l * v \in Nat /\ l * r \in Nat
  BY SMT
<1>2. l * q \in Nat /\ l * n * (1 + q) \in Nat
  BY AccountedNat
<1> DEFINE p == l * n * (1 + q)
           a == l * q
           b == l * r
           c == l * v
<1>3. p \in Nat /\ a \in Nat /\ b \in Nat /\ c \in Nat /\ b + l <= c /\ g + m + a <= p + b
  BY <1>1, <1>2 DEF Accounted
<1> HIDE DEF p, a, b, c
<1>4. g + l + a <= p + c
  BY <1>3, SMT
<1> QED
  BY <1>4 DEF Accounted, p, a, c

\* What the account says of the grants.
LEMMA AccountedRate ==
    ASSUME NEW l \in Nat, NEW g \in Nat, NEW m \in Nat, NEW n \in Nat, NEW q \in Nat, NEW r \in Nat,
           r <= q, Accounted(l, g, m, n, q, r)
    PROVE  g <= l * n * (1 + q)
<1>1. l * r <= l * q /\ l * r \in Nat /\ l * q \in Nat
  BY SMT
<1> DEFINE p == l * n * (1 + q)
           a == l * q
           b == l * r
<1>2. p \in Nat /\ a \in Nat /\ b \in Nat /\ b <= a /\ g + m + a <= p + b
  BY <1>1, AccountedNat DEF Accounted
<1> HIDE DEF p, a, b
<1>3. g <= p
  BY <1>2, SMT
<1> QED
  BY <1>3 DEF p

LEMMA AccountedNew ==
    ASSUME NEW l \in Nat, NEW g \in Nat, NEW n \in Nat, NEW q \in Nat, NEW v \in Nat,
           g <= l * n * (1 + q)
    PROVE  Accounted(l, g, l, n + 1, q, v)
<1> DEFINE p == l * n * (1 + q)
           a == l * q
           c == l * v
<1>1. p \in Nat /\ a \in Nat /\ g <= p /\ l * (n + 1) * (1 + q) = p + l + a
  BY AccountedNat
<1>2. c \in Nat
  BY SMT
<1> HIDE DEF p, a, c
<1>3. g + l + a <= p + l + a + c
  BY <1>1, <1>2, SMT
<1> QED
  BY <1>1, <1>3 DEF Accounted, a, c

IpInv ==
    /\ \A c \in Creators : cinit[c] <= now
    /\ \A i \in Ips :
          /\ created[i] = 0 => i \notin ip_limiter_map /\ granted[i] = 0
          /\ created[i] # 0 =>
                /\ second_reset[i] <= now
                /\ minute_reset[i] <= now
                /\ Accounted(IpSecond, granted[i], second_remain[i], created[i],
                             now \div SecondDuration, second_reset[i] \div SecondDuration)
                /\ Accounted(IpMinute, granted[i], minute_remain[i], created[i],
                             now \div MinuteDuration, minute_reset[i] \div MinuteDuration)

\* What is left alone of an IP's limiter.
IpKept(i) == /\ second_remain'[i] = second_remain[i]
             /\ minute_remain'[i] = minute_remain[i]
             /\ second_reset'[i] = second_reset[i]
             /\ minute_reset'[i] = minute_reset[i]
             /\ granted'[i] = granted[i]
             /\ created'[i] = created[i]
             /\ i \in ip_limiter_map' => i \in ip_limiter_map

\* What IpInv says of one IP.
OneIp(i) ==
    /\ created[i] = 0 => i \notin ip_limiter_map /\ granted[i] = 0
    /\ created[i] # 0 =>
          /\ second_reset[i] <= now
          /\ minute_reset[i] <= now
          /\ Accounted(IpSecond, granted[i], second_remain[i], created[i],
                       now \div SecondDuration, second_reset[i] \div SecondDuration)
          /\ Accounted(IpMinute, granted[i], minute_remain[i], created[i],
                       now \div MinuteDuration, minute_reset[i] \div MinuteDuration)

LEMMA IpTypes ==
    ASSUME TypeOK, NEW i \in Ips
    PROVE  /\ i \in Limiters /\ i # Account
           /\ now \in Nat /\ now \div SecondDuration \in Nat /\ now \div MinuteDuration \in Nat
           /\ second_remain[i] \in Nat /\ minute_remain[i] \in Nat
           /\ second_reset[i] \in Nat /\ minute_reset[i] \in Nat
           /\ second_reset[i] \div SecondDuration \in Nat
           /\ minute_reset[i] \div MinuteDuration \in Nat
           /\ granted[i] \in Nat /\ created[i] \in Nat
<1>1. /\ i \in Limiters /\ i # Account
      /\ now \in Nat
      /\ second_remain[i] \in Nat /\ minute_remain[i] \in Nat
      /\ second_reset[i] \in Nat /\ minute_reset[i] \in Nat
      /\ granted[i] \in Nat /\ created[i] \in Nat
  BY DEF TypeOK, Limiters
<1> QED
  BY <1>1, DivMono

LEMMA IpKeptStays ==
    ASSUME TypeOK, NEW i \in Ips, OneIp(i), IpKept(i), now' \in Nat, now <= now'
    PROVE  OneIp(i)'
<1>1. CASE created[i] = 0
  BY <1>1 DEF OneIp, IpKept
<1>2. CASE created[i] # 0
  <2>1. /\ now' \div SecondDuration \in Nat /\ now \div SecondDuration <= now' \div SecondDuration
        /\ now' \div MinuteDuration \in Nat /\ now \div MinuteDuration <= now' \div MinuteDuration
    BY IpTypes, DivMono
  <2>2. Accounted(IpSecond, granted[i], second_remain[i], created[i],
                  now' \div SecondDuration, second_reset[i] \div SecondDuration)
    BY <1>2, <2>1, IpTypes, AccountedLater DEF OneIp
  <2>3. Accounted(IpMinute, granted[i], minute_remain[i], created[i],
                  now' \div MinuteDuration, minute_reset[i] \div MinuteDuration)
    BY <1>2, <2>1, IpTypes, AccountedLater DEF OneIp
  <2>4. second_reset[i] <= now' /\ minute_reset[i] <= now'
    BY <1>2, IpTypes DEF OneIp
  <2> QED
    BY <1>2, <2>2, <2>3, <2>4 DEF OneIp, IpKept
<1> QED
  BY <1>1, <1>2

LEMMA IpRateHolds ==
    ASSUME TypeOK, NEW i \in Ips, OneIp(i)
    PROVE  /\ granted[i] <= IpSecond * created[i] * (1 + now \div SecondDuration)
           /\ granted[i] <= IpMinute * created[i] * (1 + now \div MinuteDuration)
<1>1. CASE created[i] = 0
  BY <1>1, IpTypes, AccountedNat DEF OneIp
<1>2. CASE created[i] # 0
  <2>1. /\ second_reset[i] \div SecondDuration <= now \div SecondDuration
        /\ minute_reset[i] \div MinuteDuration <= now \div MinuteDuration
    BY <1>2, IpTypes, DivMono DEF OneIp
  <2>2. granted[i] <= IpSecond * created[i] * (1 + now \div SecondDuration)
    BY <1>2, <2>1, IpTypes, AccountedRate DEF OneIp
  <2>3. granted[i] <= IpMinute * created[i] * (1 + now \div MinuteDuration)
    BY <1>2, <2>1, IpTypes, AccountedRate DEF OneIp
  <2> QED
    BY <2>2, <2>3
<1> QED
  BY <1>1, <1>2

LEMMA IpStep == IInv /\ IpInv /\ [Next]_vars => IpInv'
<1> SUFFICES ASSUME IInv, IpInv, [Next]_vars PROVE IpInv'
  OBVIOUS
<1>0. /\ TypeOK
      /\ now \in Nat /\ rnow \in Nat /\ rnow <= now
      /\ \A i \in Ips : OneIp(i)
      /\ \A c \in Creators : cinit[c] <= now
      /\ \A c \in Creators : cip[c] \in Ips /\ cinit[c] \in Nat
  BY DEF IInv, BudgetInv, IpInv, OneIp, TypeOK
<1>1. now' \in Nat /\ now <= now'
  BY <1>0 DEF Next, Tick, SenderStep, AccountDraw, IpDraw, IpRefuse, AccountReturn, RefreshRead,
     RefreshApply, CreatorStep, CreateLook, CreateInit, CreateInsert, vars
<1>2. \A c \in Creators : cinit'[c] <= now'
  <2>1. ASSUME NEW c \in Creators, CreateInit(c) PROVE \A x \in Creators : cinit'[x] <= now'
    BY <1>0, <2>1 DEF CreateInit, TypeOK
  <2>2. CASE cinit' = cinit
    BY <1>0, <1>1, <2>2
  <2> QED
    BY <2>1, <2>2 DEF Next, Tick, SenderStep, AccountDraw, IpDraw, IpRefuse, AccountReturn,
       RefreshRead, RefreshApply, CreatorStep, CreateLook, CreateInsert, vars, creatorVars
<1> SUFFICES ASSUME NEW i \in Ips PROVE OneIp(i)'
  BY <1>2 DEF IpInv, OneIp
<1>3. OneIp(i)
  BY <1>0
<1>4. CASE IpKept(i)
  BY <1>0, <1>1, <1>3, <1>4, IpKeptStays
<1>5. ASSUME NEW s \in Senders, IpDraw(s) PROVE OneIp(i)'
  <2>1. CASE sip[s] # i
    <3>1. sip[s] \in Limiters /\ i \in Limiters /\ i # Account
      BY <1>0 DEF TypeOK, Limiters
    <3>2. IpKept(i)
      BY <1>0, <1>5, <2>1, <3>1 DEF IpDraw, Draw, IpKept, TypeOK
    <3> QED
      BY <1>4, <3>2
  <2>2. CASE sip[s] = i
    <3>1. /\ second_remain'[i] = second_remain[i] - 1
          /\ minute_remain'[i] = minute_remain[i] - 1
          /\ granted'[i] = granted[i] + 1
          /\ UNCHANGED <<now, second_reset, minute_reset, created, ip_limiter_map>>
      BY <1>0, <1>5, <2>2, IpTypes DEF IpDraw, Draw, TypeOK
    <3>2. created[i] # 0
      BY <1>3, <1>5, <2>2 DEF IpDraw, OneIp
    <3>3. Accounted(IpSecond, granted[i] + 1, second_remain[i] - 1, created[i],
                    now \div SecondDuration, second_reset[i] \div SecondDuration)
      BY <1>0, <1>3, <3>2, IpTypes, AccountedDraw DEF OneIp
    <3>4. Accounted(IpMinute, granted[i] + 1, minute_remain[i] - 1, created[i],
                    now \div MinuteDuration, minute_reset[i] \div MinuteDuration)
      BY <1>0, <1>3, <3>2, IpTypes, AccountedDraw DEF OneIp
    <3> QED
      BY <1>3, <3>1, <3>2, <3>3, <3>4 DEF OneIp
  <2> QED
    BY <2>1, <2>2
<1>6. CASE RefreshApply
  <2>1. UNCHANGED <<now, granted, created, ip_limiter_map>>
    BY <1>6 DEF RefreshApply
  <2>2. CASE created[i] = 0
    BY <1>3, <2>1, <2>2 DEF OneIp
  <2>3. CASE created[i] # 0
    <3>1. /\ second_reset'[i] <= now
          /\ Accounted(IpSecond, granted[i], second_remain'[i], created[i],
                       now \div SecondDuration, second_reset'[i] \div SecondDuration)
      <4>1. CASE second_remain'[i] = second_remain[i] /\ second_reset'[i] = second_reset[i]
        BY <1>3, <2>3, <4>1 DEF OneIp
      <4>2. CASE SecondEnd(i) /\ second_remain'[i] = IpSecond /\ second_reset'[i] = rnow
        <5>1. /\ (second_reset[i] \div SecondDuration) + 1 <= rnow \div SecondDuration
              /\ rnow \div SecondDuration \in Nat
          BY <1>0, <4>2, IpTypes, DivStep, DivMono DEF SecondEnd
        <5>2. Accounted(IpSecond, granted[i], IpSecond, created[i],
                        now \div SecondDuration, rnow \div SecondDuration)
          BY <1>0, <1>3, <2>3, <5>1, IpTypes, AccountedRefill DEF OneIp
        <5> QED
          BY <1>0, <4>2, <5>2
      <4> QED
        BY <1>0, <1>6, <4>1, <4>2, IpTypes DEF RefreshApply, second_semaphore_init_count
    <3>2. /\ minute_reset'[i] <= now
          /\ Accounted(IpMinute, granted[i], minute_remain'[i], created[i],
                       now \div MinuteDuration, minute_reset'[i] \div MinuteDuration)
      <4>1. CASE minute_remain'[i] = minute_remain[i] /\ minute_reset'[i] = minute_reset[i]
        BY <1>3, <2>3, <4>1 DEF OneIp
      <4>2. CASE MinuteEnd(i) /\ minute_remain'[i] = IpMinute /\ minute_reset'[i] = rnow
        <5>1. /\ (minute_reset[i] \div MinuteDuration) + 1 <= rnow \div MinuteDuration
              /\ rnow \div MinuteDuration \in Nat
          BY <1>0, <4>2, IpTypes, DivStep, DivMono DEF MinuteEnd
        <5>2. Accounted(IpMinute, granted[i], IpMinute, created[i],
                        now \div MinuteDuration, rnow \div MinuteDuration)
          BY <1>0, <1>3, <2>3, <5>1, IpTypes, AccountedRefill DEF OneIp
        <5> QED
          BY <1>0, <4>2, <5>2
      <4> QED
        BY <1>0, <1>6, <4>1, <4>2, IpTypes DEF RefreshApply, minute_semaphore_init_count
    <3> QED
      BY <2>1, <2>3, <3>1, <3>2 DEF OneIp
  <2> QED
    BY <2>2, <2>3
<1>7. ASSUME NEW c \in Creators, CreateInsert(c) PROVE OneIp(i)'
  <2>1. CASE cip[c] # i
    BY <1>0, <1>4, <1>7, <2>1 DEF CreateInsert, IpKept, TypeOK
  <2>2. CASE cip[c] = i
    <3>1. /\ second_remain'[i] = IpSecond /\ second_reset'[i] = cinit[c]
          /\ minute_remain'[i] = IpMinute /\ minute_reset'[i] = cinit[c]
          /\ created'[i] = created[i] + 1
          /\ UNCHANGED <<now, granted>>
      BY <1>0, <1>7, <2>2, IpTypes DEF CreateInsert, TypeOK
    <3>2. cinit[c] \div SecondDuration \in Nat /\ cinit[c] \div MinuteDuration \in Nat
      BY <1>0, DivMono
    <3>3. /\ granted[i] <= IpSecond * created[i] * (1 + now \div SecondDuration)
          /\ granted[i] <= IpMinute * created[i] * (1 + now \div MinuteDuration)
      BY <1>0, <1>3, IpRateHolds
    <3>4. Accounted(IpSecond, granted[i], IpSecond, created[i] + 1,
                    now \div SecondDuration, cinit[c] \div SecondDuration)
      BY <1>0, <3>2, <3>3, IpTypes, AccountedNew
    <3>5. Accounted(IpMinute, granted[i], IpMinute, created[i] + 1,
                    now \div MinuteDuration, cinit[c] \div MinuteDuration)
      BY <1>0, <3>2, <3>3, IpTypes, AccountedNew
    <3>6. created'[i] # 0
      BY <1>0, <3>1, IpTypes
    <3> QED
      BY <1>0, <3>1, <3>4, <3>5, <3>6 DEF OneIp
  <2> QED
    BY <2>1, <2>2
<1>8. CASE Tick
  BY <1>4, <1>8 DEF Tick, IpKept, limiterVars
<1>9. ASSUME NEW s \in Senders, NEW ip \in Ips, AccountDraw(s, ip) PROVE OneIp(i)'
  <2>1. i \in Limiters /\ i # Account
    BY <1>0, IpTypes
  <2> QED
    BY <1>0, <1>4, <1>9, <2>1 DEF AccountDraw, Draw, IpKept, TypeOK
<1>10. ASSUME NEW s \in Senders, IpRefuse(s) PROVE OneIp(i)'
  BY <1>4, <1>10 DEF IpRefuse, IpKept, limiterVars
<1>11. ASSUME NEW s \in Senders, AccountReturn(s) PROVE OneIp(i)'
  <2>1. i \in Limiters /\ i # Account
    BY <1>0, IpTypes
  <2> QED
    BY <1>0, <1>4, <1>11, <2>1 DEF AccountReturn, return_order_semaphore, IpKept, TypeOK
<1>12. CASE RefreshRead
  BY <1>4, <1>12 DEF RefreshRead, IpKept, limiterVars
<1>13. ASSUME NEW c \in Creators, NEW ip \in Ips, CreateLook(c, ip) PROVE OneIp(i)'
  BY <1>4, <1>13 DEF CreateLook, IpKept, limiterVars
<1>14. ASSUME NEW c \in Creators, CreateInit(c) PROVE OneIp(i)'
  BY <1>4, <1>14 DEF CreateInit, IpKept, limiterVars
<1>15. CASE UNCHANGED vars
  BY <1>4, <1>15 DEF vars, IpKept, limiterVars
<1> QED
  BY <1>5, <1>6, <1>7, <1>8, <1>9, <1>10, <1>11, <1>12, <1>13, <1>14, <1>15
  DEF Next, SenderStep, CreatorStep

LEMMA InitIpInv == Init => IpInv
<1> SUFFICES ASSUME Init PROVE IpInv
  OBVIOUS
<1>1. \A c \in Creators : cinit[c] <= now
  BY DEF Init
<1>2. \A i \in Ips : created[i] = 0 /\ i \notin ip_limiter_map /\ granted[i] = 0
  BY DEF Init, Limiters
<1> QED
  BY <1>1, <1>2 DEF IpInv

\* An IP never sends more than one budget per started period and per limiter that was
\* created for it, by whichever of the threads that learn of best paths.
THEOREM OrderLimiterIpRate == Spec => []IpRate
<1>1. Spec => []IpInv
  BY InitIpInv, IpStep, OrderLimiterInvariant, PTL DEF Spec
<1>2. IInv /\ IpInv => IpRate
  BY IpRateHolds DEF IInv, IpInv, OneIp, IpRate
<1> QED
  BY <1>1, <1>2, OrderLimiterInvariant, PTL
-----------------------------------------------------------------------------
(***************************************************************************)
(* The capacity.  A creating thread that has found room keeps its claim    *)
(* until it has inserted: the limiters there are and the claims together   *)
(* stay below the capacity plus the number of creating threads.            *)
(***************************************************************************)

Claims == {c \in Creators : cpc[c] # "idle"}

CapacityInv == Cardinality(ip_limiter_map) + Cardinality(Claims) + 1 <= MaxCapacity + Cardinality(Creators)

LEMMA CapacityTypes ==
    ASSUME TypeOK
    PROVE  /\ IsFiniteSet(ip_limiter_map) /\ Cardinality(ip_limiter_map) \in Nat
           /\ IsFiniteSet(Claims) /\ Cardinality(Claims) \in Nat
           /\ Cardinality(Claims) <= Cardinality(Creators)
           /\ Cardinality(Creators) \in Nat /\ Cardinality(Creators) # 0
<1>1. Claims \subseteq Creators /\ ip_limiter_map \subseteq Ips
  BY DEF Claims, TypeOK
<1>2. IsFiniteSet(Claims) /\ IsFiniteSet(ip_limiter_map) /\ Cardinality(Claims) <= Cardinality(Creators)
  BY <1>1, FS_Subset
<1> QED
  BY <1>2, FS_CardinalityType, FS_EmptySet

LEMMA CapacityStep == TypeOK /\ CapacityInv /\ [Next]_vars => TypeOK' /\ CapacityInv'
<1> SUFFICES ASSUME TypeOK, CapacityInv, [Next]_vars PROVE TypeOK' /\ CapacityInv'
  OBVIOUS
<1>0. TypeOK'
  BY TypeStep
<1>1. ASSUME NEW c \in Creators, NEW ip \in Ips, CreateLook(c, ip) PROVE CapacityInv'
  <2>1. Cardinality(ip_limiter_map) < MaxCapacity /\ ip_limiter_map' = ip_limiter_map
    BY <1>1 DEF CreateLook, MayCreate
  <2>2. Cardinality(Claims') \in Nat /\ Cardinality(Claims') <= Cardinality(Creators)
    BY <1>0, CapacityTypes, FS_Subset, FS_CardinalityType DEF Claims
  <2> QED
    BY <2>1, <2>2, CapacityTypes DEF CapacityInv
<1>2. ASSUME NEW c \in Creators, CreateInsert(c) PROVE CapacityInv'
  <2>1. c \in Claims /\ Claims' = Claims \ {c}
    BY <1>2 DEF CreateInsert, Claims, TypeOK
  <2>2. Cardinality(Claims') = Cardinality(Claims) - 1
    BY <2>1, CapacityTypes, FS_RemoveElement
  <2>3. /\ Cardinality(ip_limiter_map') <= Cardinality(ip_limiter_map) + 1
        /\ Cardinality(ip_limiter_map') \in Nat
    <3>1. ip_limiter_map' = ip_limiter_map \cup {cip[c]}
      BY <1>2 DEF CreateInsert
    <3>2. \/ Cardinality(ip_limiter_map \cup {cip[c]}) = Cardinality(ip_limiter_map)
          \/ Cardinality(ip_limiter_map \cup {cip[c]}) = Cardinality(ip_limiter_map) + 1
      BY CapacityTypes, FS_AddElement
    <3> QED
      BY <3>1, <3>2, CapacityTypes
  <2> QED
    BY <2>2, <2>3, CapacityTypes DEF CapacityInv
<1>3. ASSUME ip_limiter_map' = ip_limiter_map, Claims' = Claims PROVE CapacityInv'
  BY <1>3 DEF CapacityInv
<1>4. ASSUME NEW c \in Creators, CreateInit(c) PROVE CapacityInv'
  <2>1. Claims' = Claims
    BY <1>4 DEF CreateInit, Claims, TypeOK
  <2> QED
    BY <1>3, <1>4, <2>1 DEF CreateInit
<1>5. CASE ip_limiter_map' = ip_limiter_map /\ cpc' = cpc
  <2>1. Claims' = Claims
    BY <1>5 DEF Claims
  <2> QED
    BY <1>0, <1>3, <1>5, <2>1
<1> QED
  BY <1>0, <1>1, <1>2, <1>4, <1>5 DEF Next, Tick, SenderStep, AccountDraw, IpDraw, IpRefuse,
     AccountReturn, RefreshRead, RefreshApply, CreatorStep, vars, creatorVars

\* max_capacity is overshot by at most one limiter for every creating thread but one.
THEOREM OrderLimiterCapacityOvershoot == Spec => []CapacityOvershoot
<1>1. Init => TypeOK /\ CapacityInv
  <2> SUFFICES ASSUME Init PROVE TypeOK /\ CapacityInv
    OBVIOUS
  <2>1. TypeOK
    BY InitIInv DEF IInv
  <2>2. Claims = {} /\ ip_limiter_map = {}
    BY DEF Init, Claims
  <2> QED
    BY <2>1, <2>2, CapacityTypes, FS_EmptySet DEF CapacityInv
<1>2. TypeOK /\ CapacityInv => CapacityOvershoot
  BY CapacityTypes DEF CapacityInv, CapacityOvershoot
<1> QED
  BY <1>1, <1>2, CapacityStep, PTL DEF Spec

\* No semaphore count, of the account or of an IP, falls below zero.
THEOREM OrderLimiterTypeOK == Spec => []TypeOK
<1>1. IInv => TypeOK
  BY DEF IInv
<1> QED
  BY <1>1, OrderLimiterInvariant, PTL
-----------------------------------------------------------------------------
(***************************************************************************)
(* One creating thread.  What create_ip_limiter checks and what it does    *)
(* are apart only for other creating threads: with a single one no limiter *)
(* is ever replaced, and the limits are those of the configuration.        *)
(***************************************************************************)

\* A limiter was created once for each IP in the map, and what the creating thread has
\* found missing still is.
SoleInv ==
    /\ \A i \in Ips : created[i] = IF i \in ip_limiter_map THEN 1 ELSE 0
    /\ \A c \in Creators : cpc[c] # "idle" => cip[c] \notin ip_limiter_map

LEMMA SoleStep ==
    (\A c, d \in Creators : c = d) /\ TypeOK /\ SoleInv /\ [Next]_vars => SoleInv'
<1> SUFFICES ASSUME \A c, d \in Creators : c = d, TypeOK, SoleInv, [Next]_vars PROVE SoleInv'
  OBVIOUS
<1>1. ASSUME NEW c \in Creators, NEW ip \in Ips, CreateLook(c, ip) PROVE SoleInv'
  <2>1. ip \notin ip_limiter_map /\ cip' = [cip EXCEPT ![c] = ip] /\ UNCHANGED <<ip_limiter_map, created>>
    BY <1>1 DEF CreateLook, MayCreate
  <2>2. \A d \in Creators : cip'[d] = ip
    BY <2>1 DEF TypeOK
  <2> QED
    BY <2>1, <2>2 DEF SoleInv
<1>2. ASSUME NEW c \in Creators, CreateInit(c) PROVE SoleInv'
  <2>1. cpc[c] # "idle" /\ UNCHANGED <<ip_limiter_map, created, cip>>
    BY <1>2 DEF CreateInit
  <2>2. \A d \in Creators : cip[d] \notin ip_limiter_map
    BY <2>1 DEF SoleInv
  <2> QED
    BY <2>1, <2>2 DEF SoleInv
<1>3. ASSUME NEW c \in Creators, CreateInsert(c) PROVE SoleInv'
  <2>1. /\ cpc[c] # "idle" /\ cip[c] \in Ips
        /\ ip_limiter_map' = ip_limiter_map \cup {cip[c]}
        /\ created' = [created EXCEPT ![cip[c]] = @ + 1]
        /\ cpc' = [cpc EXCEPT ![c] = "idle"]
    BY <1>3 DEF CreateInsert, TypeOK
  <2>2. created[cip[c]] = 0
    BY <2>1 DEF SoleInv
  <2>3. \A i \in Ips : created'[i] = IF i = cip[c] THEN 1 ELSE created[i]
    BY <2>1, <2>2 DEF TypeOK
  <2>4. \A i \in Ips : created'[i] = IF i \in ip_limiter_map' THEN 1 ELSE 0
    BY <2>1, <2>3 DEF SoleInv
  <2>5. \A d \in Creators : cpc'[d] = "idle"
    BY <2>1 DEF TypeOK
  <2> QED
    BY <2>4, <2>5 DEF SoleInv
<1>4. CASE UNCHANGED <<ip_limiter_map, created, cpc, cip>>
  BY <1>4 DEF SoleInv
<1> QED
  BY <1>1, <1>2, <1>3, <1>4 DEF Next, Tick, SenderStep, AccountDraw, IpDraw, IpRefuse,
     AccountReturn, RefreshRead, RefreshApply, CreatorStep, vars, creatorVars

\* Where polling_best_path_processor is the only thread that creates limiters, that is without
\* best_path_zmq_ipcs, an IP sends at most one budget per started period and the map stays
\* within its capacity: the second creating thread is the whole cause of what is lost beyond.
THEOREM OrderLimiterSoleCreator ==
    ASSUME Cardinality(Creators) = 1
    PROVE  Spec => [](IpLimitKept /\ Cardinality(ip_limiter_map) <= MaxCapacity)
<1>1. \A c, d \in Creators : c = d
  BY FS_Singleton
<1>2. Init => SoleInv
  BY DEF Init, SoleInv
<1>3. TypeOK /\ SoleInv /\ [Next]_vars => SoleInv'
  BY <1>1, SoleStep
<1>4. Spec => []SoleInv
  BY <1>2, <1>3, OrderLimiterTypeOK, PTL DEF Spec
<1>5. TypeOK /\ SoleInv /\ IpRate => IpLimitKept
  <2> SUFFICES ASSUME TypeOK, SoleInv, IpRate, NEW i \in Ips
               PROVE  /\ granted[i] <= IpSecond * (1 + now \div SecondDuration)
                      /\ granted[i] <= IpMinute * (1 + now \div MinuteDuration)
    BY DEF IpLimitKept
  <2>1. PICK seconds, minutes : seconds = now \div SecondDuration /\ minutes = now \div MinuteDuration
    OBVIOUS
  <2>2. seconds \in Nat /\ minutes \in Nat
    <3>1. now \in Nat /\ now <= now
      BY DEF TypeOK
    <3>2. now \div SecondDuration \in Nat /\ now \div MinuteDuration \in Nat
      BY <3>1, DivMono
    <3> QED
      BY <2>1, <3>2
  <2>3. /\ granted[i] <= IpSecond * created[i] * (1 + seconds)
        /\ granted[i] <= IpMinute * created[i] * (1 + minutes)
    BY <2>1 DEF IpRate
  <2>4. granted[i] \in Nat
    BY DEF TypeOK, Limiters
  <2>5. CASE i \in ip_limiter_map
    <3>1. IpSecond * created[i] = IpSecond /\ IpMinute * created[i] = IpMinute
      BY <2>5 DEF SoleInv
    <3> QED
      BY <2>1, <2>3, <3>1
  <2>6. CASE i \notin ip_limiter_map
    <3>1. IpSecond * created[i] = 0 /\ IpMinute * created[i] = 0
      BY <2>6 DEF SoleInv
    <3>2. granted[i] = 0
      BY <2>2, <2>3, <2>4, <3>1
    <3>3. IpSecond * (1 + seconds) \in Nat /\ IpMinute * (1 + minutes) \in Nat
      BY <2>2, BudgetMono
    <3> QED
      BY <2>1, <3>2, <3>3
  <2> QED
    BY <2>5, <2>6
<1>6. TypeOK /\ CapacityOvershoot => Cardinality(ip_limiter_map) <= MaxCapacity
  BY CapacityTypes DEF CapacityOvershoot
<1> QED
  BY <1>4, <1>5, <1>6, OrderLimiterTypeOK, OrderLimiterIpRate, OrderLimiterCapacityOvershoot, PTL
=============================================================================
