---------------------------- MODULE ActuaryProofs ----------------------------
(***************************************************************************)
(* Proofs about the actuary's two state machines; they share no variable.  *)
(* RiskControl: a standing stop is never slipped past, and no flag stays   *)
(* up without a reason.  Position, for every size of position and order,   *)
(* any number of orders and any interleaving of the account threads, the   *)
(* strategy and the exchange: in close-only mode a position changes its    *)
(* side only after an order that the exchange's position did not warrant.  *)
(***************************************************************************)
EXTENDS RiskControl, Position, SequenceTheorems, TLAPS
-----------------------------------------------------------------------------
(* RiskControl *)

\* The reasons a watchdog gives; no two watchdogs share one.
Owned(w) == IF w = "meta" THEN {"ACCOUNT_META", "MARGIN_LIMITED"} ELSE {"BNB", "BNB_SHORTAGE"}

\* w has changed the reasons and not yet the flag
Changing(w) == pc[w] = "flag"

\* The lock is held by the watchdog between the reasons and the flag, and by no other one.
LockInv == \A w \in Watchdogs : Changing(w) <=> holder = w

\* A watchdog that is awake is concerned with a reason of its own.
OwnInv == \A w \in Watchdogs : pc[w] # "sleep" => op[w].reason \in Owned(w)

\* Reasons are the standing judgements, except the one that is being changed.
ReasonsInv ==
    \A r \in Reasons :
        (\A w \in Watchdogs : Changing(w) => op[w].reason # r) => (r \in reasons <=> r \in standing)

\* A watchdog that waits for the lock or holds it has a change to make: the answer it got from
\* is_stop_make_order_as_reason still holds, whatever the other one did in the meantime.
PendingInv ==
    \A w \in Watchdogs :
        LET r == op[w].reason IN
        /\ pc[w] = "lock" => (r \in reasons <=> op[w].call = "resume")
        /\ Changing(w) => /\ r \in reasons <=> op[w].call = "stop"
                          /\ r \in standing <=> op[w].call = "resume"

RiskIInv ==
    /\ RiskTypeOK
    /\ LockInv
    /\ OwnInv
    /\ ReasonsInv
    /\ PendingInv
    /\ StopStands
    /\ ResumeComplete

\* The two critical sections of a call leave every other reason alone.
LEMMA OtherReason ==
    ASSUME RiskTypeOK, OwnInv, NEW w \in Watchdogs, NEW x \in Watchdogs, w # x,
           pc[w] # "sleep", pc[x] # "sleep"
    PROVE  op[w].reason # op[x].reason
BY DEF RiskTypeOK, OwnInv, Owned, Watchdogs

LEMMA RiskInitIInv == RiskInit => RiskIInv
BY DEF RiskInit, RiskIInv, RiskTypeOK, LockInv, OwnInv, ReasonsInv, PendingInv, StopStands,
       ResumeComplete,
       Changing, NoCall, Kinds, Watchdogs, Reasons, Nobody, Metas, Balances

\* What a finished call means for types, lock and ownership.
LEMMA RiskStepTypeOK == RiskTypeOK /\ OwnInv /\ [RiskNext]_riskVars => RiskTypeOK' /\ OwnInv'
<1> SUFFICES ASSUME RiskTypeOK, OwnInv, [RiskNext]_riskVars PROVE RiskTypeOK' /\ OwnInv'
    OBVIOUS
<1> USE DEF RiskTypeOK, OwnInv, Owned, Watchdogs, Reasons, Kinds, Metas, Balances, Nobody,
            data, dynamicConfig, Goto, NoCall
<1>1. ASSUME NEW v \in Metas, MetaChanges(v) PROVE RiskTypeOK' /\ OwnInv'
    BY <1>1 DEF MetaChanges
<1>2. ASSUME NEW v \in Balances, BnbChanges(v) PROVE RiskTypeOK' /\ OwnInv'
    BY <1>2 DEF BnbChanges
<1>3. ASSUME NEW w \in Watchdogs, JudgeFreshness(w) PROVE RiskTypeOK' /\ OwnInv'
    BY <1>3 DEF JudgeFreshness, Call
<1>4. ASSUME NEW v \in Metas, JudgeMargin(v) PROVE RiskTypeOK' /\ OwnInv'
    BY <1>4 DEF JudgeMargin, Call, Sleep
<1>5. ASSUME NEW v \in Balances, JudgeBalance(v) PROVE RiskTypeOK' /\ OwnInv'
    BY <1>5 DEF JudgeBalance, Call, Sleep
<1>a. ASSUME NEW w \in Watchdogs, pc[w] # "sleep", UNCHANGED <<data, dynamicConfig>>,
             NEW stopping, Answered(w, stopping)
      PROVE  RiskTypeOK' /\ OwnInv'
    <2>1. CASE stopping = (op[w].call = "stop")
        <3>1. Done(w)
            BY <1>a, <2>1 DEF Answered
        <3>2. /\ standing' \subseteq Reasons
              /\ op[w].reason \in Owned(w)
            BY <1>a, <3>1 DEF Done
        <3>3. CASE pc' = [pc EXCEPT ![w] = "value"] /\ op' = op
            BY <1>a, <3>2, <3>3
        <3>4. CASE pc' = [pc EXCEPT ![w] = "sleep"] /\ op' = [op EXCEPT ![w] = NoCall]
            BY <1>a, <3>2, <3>4
        <3>5. QED
            BY <3>1, <3>3, <3>4 DEF Done, Sleep
    <2>2. CASE ~(stopping = (op[w].call = "stop"))
        <3>1. pc' = [pc EXCEPT ![w] = "lock"] /\ UNCHANGED <<op, standing>>
            BY <1>a, <2>2 DEF Answered
        <3>2. QED
            BY <1>a, <3>1
    <2>3. QED
        BY <2>1, <2>2
<1>6. ASSUME NEW w \in Watchdogs, Peek(w) PROVE RiskTypeOK' /\ OwnInv'
    <2>1. CASE Kind(op[w].reason) \in stopped
        <3>1. /\ pc[w] = "peek" /\ pc' = [pc EXCEPT ![w] = "look"]
              /\ UNCHANGED <<op, standing, data, dynamicConfig>>
            BY <1>6, <2>1 DEF Peek
        <3>2. QED
            BY <3>1
    <2>2. CASE Kind(op[w].reason) \notin stopped
        BY <1>6, <2>2, <1>a DEF Peek
    <2>3. QED
        BY <2>1, <2>2
<1>7. ASSUME NEW w \in Watchdogs, Look(w) PROVE RiskTypeOK' /\ OwnInv'
    BY <1>7, <1>a DEF Look
<1>8. ASSUME NEW w \in Watchdogs, ChangeReasons(w) PROVE RiskTypeOK' /\ OwnInv'
    BY <1>8 DEF ChangeReasons
<1>9. ASSUME NEW w \in Watchdogs, ChangeFlag(w) PROVE RiskTypeOK' /\ OwnInv'
    BY <1>9 DEF ChangeFlag, Done, Sleep, Kind
<1>10. CASE UNCHANGED riskVars
    BY <1>10 DEF riskVars
<1>11. QED
    BY <1>1, <1>2, <1>3, <1>4, <1>5, <1>6, <1>7, <1>8, <1>9, <1>10 DEF RiskNext, WatchdogStep

\* The call is over and nobody was inside the lock for it: the reason was as the call wants it.
LEMMA AnsweredKeeps ==
    ASSUME RiskIInv, NEW w \in Watchdogs, pc[w] \in {"peek", "look"}, NEW stopping \in BOOLEAN,
           stopping <=> op[w].reason \in reasons, UNCHANGED <<data, dynamicConfig>>,
           Answered(w, stopping), RiskTypeOK', OwnInv'
    PROVE  RiskIInv'
<1> USE DEF RiskIInv, RiskTypeOK, Goto
<1>1. /\ op[w].reason \in reasons <=> op[w].reason \in standing
      /\ op[w].reason \in Reasons
    <2>1. \A x \in Watchdogs : Changing(x) => op[x].reason # op[w].reason
        BY OtherReason DEF Changing
    <2>2. QED
        BY <2>1 DEF ReasonsInv
<1>2. CASE stopping # (op[w].call = "stop")
    <2>1. /\ pc' = [pc EXCEPT ![w] = "lock"]
          /\ UNCHANGED <<op, standing>>
        BY <1>2 DEF Answered
    <2>2. \A x \in Watchdogs : Changing(x)' <=> Changing(x)
        BY <2>1 DEF Changing
    <2>3. QED
        BY <1>2, <2>1, <2>2 DEF LockInv, ReasonsInv, PendingInv, StopStands, ResumeComplete,
                                dynamicConfig, Changing
<1>3. CASE stopping = (op[w].call = "stop")
    <2>0. Done(w)
        BY <1>3 DEF Answered
    <2>1. standing' = standing
        <3>1. CASE op[w].call = "stop"
            <4>1. op[w].reason \in standing
                BY <1>1, <1>3, <3>1
            <4>2. QED
                BY <2>0, <3>1, <4>1 DEF Done
        <3>2. CASE op[w].call # "stop"
            <4>1. op[w].reason \notin standing
                BY <1>1, <1>3, <3>2
            <4>2. QED
                BY <2>0, <3>2, <4>1 DEF Done
        <3>3. QED
            BY <3>1, <3>2
    <2>2. /\ pc' = [pc EXCEPT ![w] = pc'[w]]
          /\ pc'[w] \in {"value", "sleep"}
          /\ op' = [op EXCEPT ![w] = op'[w]]
        BY <1>3 DEF Answered, Done, Sleep
    <2>3. \A x \in Watchdogs : Changing(x)' <=> Changing(x)
        BY <2>2 DEF Changing
    <2>4. \A x \in Watchdogs : x # w => op'[x] = op[x] /\ pc'[x] = pc[x]
        BY <2>2
    <2>5. LockInv'
        BY <2>3 DEF LockInv, dynamicConfig
    <2>6. ReasonsInv'
        BY <2>1, <2>2, <2>3, <2>4 DEF ReasonsInv, dynamicConfig, Changing
    <2>7. PendingInv'
        BY <2>1, <2>2, <2>3, <2>4 DEF PendingInv, dynamicConfig, Changing
    <2>8. StopStands' /\ ResumeComplete'
        BY <2>1 DEF StopStands, ResumeComplete, dynamicConfig
    <2>9. QED
        BY <2>5, <2>6, <2>7, <2>8
<1>4. QED
    BY <1>2, <1>3

LEMMA RiskStepIInv == RiskIInv /\ [RiskNext]_riskVars => RiskIInv'
<1> SUFFICES ASSUME RiskIInv, [RiskNext]_riskVars PROVE RiskIInv'
    OBVIOUS
<1>t. RiskTypeOK' /\ OwnInv' /\ RiskTypeOK /\ OwnInv
    BY RiskStepTypeOK DEF RiskIInv
<1>1. ASSUME UNCHANGED <<dynamicConfig, pc, op, standing>> PROVE RiskIInv'
    BY <1>1, <1>t DEF RiskIInv, LockInv, ReasonsInv, PendingInv, StopStands, ResumeComplete,
                      Changing, dynamicConfig
\* a new call begins
<1>2. ASSUME NEW w \in Watchdogs, UNCHANGED <<dynamicConfig, standing>>,
             pc[w] \in {"sleep", "value"}, pc' = [pc EXCEPT ![w] = pc'[w]],
             pc'[w] \in {"sleep", "peek"}, op' = [op EXCEPT ![w] = op'[w]]
      PROVE  RiskIInv'
    <2>1. \A x \in Watchdogs : Changing(x)' <=> Changing(x)
        BY <1>2, <1>t DEF Changing, RiskTypeOK
    <2>2. \A x \in Watchdogs : x # w => op'[x] = op[x] /\ pc'[x] = pc[x]
        BY <1>2, <1>t DEF RiskTypeOK
    <2>3. LockInv'
        BY <1>2, <2>1 DEF RiskIInv, LockInv, dynamicConfig
    <2>4. ReasonsInv'
        BY <1>2, <2>1, <2>2 DEF RiskIInv, ReasonsInv, dynamicConfig, Changing
    <2>5. PendingInv'
        BY <1>2, <2>1, <2>2 DEF RiskIInv, PendingInv, dynamicConfig, Changing
    <2>6. StopStands' /\ ResumeComplete'
        BY <1>2 DEF RiskIInv, StopStands, ResumeComplete, dynamicConfig
    <2>7. QED
        BY <2>3, <2>4, <2>5, <2>6, <1>t DEF RiskIInv
<1>3. ASSUME NEW w \in Watchdogs, JudgeFreshness(w) PROVE RiskIInv'
    BY <1>2, <1>3, <1>t DEF JudgeFreshness, Call, Goto, RiskTypeOK
<1>4. ASSUME NEW v \in Metas, JudgeMargin(v) PROVE RiskIInv'
    BY <1>2, <1>4, <1>t DEF JudgeMargin, Call, Sleep, Goto, RiskTypeOK, Watchdogs
<1>5. ASSUME NEW v \in Balances, JudgeBalance(v) PROVE RiskIInv'
    BY <1>2, <1>5, <1>t DEF JudgeBalance, Call, Sleep, Goto, RiskTypeOK, Watchdogs
<1>6. ASSUME NEW w \in Watchdogs, Peek(w) PROVE RiskIInv'
    <2>1. CASE Kind(op[w].reason) \in stopped
        BY <1>6, <2>1, <1>t DEF Peek, Goto, RiskIInv, RiskTypeOK, LockInv, ReasonsInv, PendingInv,
                                StopStands, ResumeComplete, Changing, dynamicConfig
    <2>2. CASE Kind(op[w].reason) \notin stopped
        <3>1. op[w].reason \notin reasons
            <4>1. \A x \in Watchdogs : Changing(x) => op[x].reason # op[w].reason
                BY <1>6, <1>t, OtherReason DEF Changing, Peek
            <4>2. op[w].reason \in Reasons
                BY <1>t DEF RiskTypeOK
            <4>3. QED
                BY <2>2, <4>1, <4>2 DEF RiskIInv, ReasonsInv, StopStands
        <3>2. QED
            BY <1>6, <2>2, <3>1, <1>t, AnsweredKeeps DEF Peek
    <2>3. QED
        BY <2>1, <2>2
<1>7. ASSUME NEW w \in Watchdogs, Look(w) PROVE RiskIInv'
    <2>1. (op[w].reason \in reasons) \in BOOLEAN
        OBVIOUS
    <2>2. /\ pc[w] \in {"peek", "look"}
          /\ UNCHANGED <<data, dynamicConfig>>
          /\ Answered(w, op[w].reason \in reasons)
        BY <1>7 DEF Look
    <2>3. QED
        BY <1>t, <2>1, <2>2, AnsweredKeeps
<1>8. ASSUME NEW w \in Watchdogs, ChangeReasons(w) PROVE RiskIInv'
    <2> DEFINE r == op[w].reason
    <2>1. /\ \A x \in Watchdogs : ~Changing(x)
          /\ \A x \in Watchdogs : Changing(x)' <=> x = w
        BY <1>8, <1>t DEF ChangeReasons, RiskIInv, LockInv, Changing, RiskTypeOK, Goto, Nobody,
                          Watchdogs
    <2>2. LockInv'
        BY <1>8, <2>1 DEF ChangeReasons, LockInv
    <2>3. \A q \in Reasons : q # r => (q \in reasons' <=> q \in reasons)
        BY <1>8 DEF ChangeReasons
    <2>4. /\ r \in reasons' <=> op[w].call = "stop"
          /\ r \in reasons <=> op[w].call = "resume"
          /\ r \in standing <=> op[w].call = "resume"
          /\ r \in Reasons
        BY <1>8, <1>t, <2>1 DEF ChangeReasons, RiskIInv, PendingInv, ReasonsInv, RiskTypeOK
    <2>5. ReasonsInv'
        BY <1>8, <2>1, <2>3 DEF ChangeReasons, RiskIInv, ReasonsInv
    <2>6. PendingInv'
        <3> SUFFICES ASSUME NEW x \in Watchdogs
                     PROVE  /\ pc'[x] = "lock" => (op[x].reason \in reasons' <=> op[x].call = "resume")
                            /\ Changing(x)' => /\ op[x].reason \in reasons' <=> op[x].call = "stop"
                                               /\ op[x].reason \in standing <=> op[x].call = "resume"
            BY <1>8 DEF ChangeReasons, PendingInv
        <3>1. CASE x = w
            BY <3>1, <2>4, <1>8, <1>t DEF ChangeReasons, Goto, RiskTypeOK
        <3>2. CASE x # w
            <4>1. pc'[x] = pc[x] /\ op[x].reason \in Reasons
                BY <1>8, <3>2, <1>t DEF ChangeReasons, Goto, RiskTypeOK
            <4>2. pc[x] = "lock" => op[x].reason # r
                BY <1>8, <3>2, <1>t, OtherReason DEF ChangeReasons
            <4>3. QED
                BY <3>2, <4>1, <4>2, <2>1, <2>3 DEF RiskIInv, PendingInv
        <3>3. QED
            BY <3>1, <3>2
    <2>7. StopStands' /\ ResumeComplete'
        BY <1>8 DEF ChangeReasons, RiskIInv, StopStands, ResumeComplete
    <2>8. QED
        BY <2>2, <2>5, <2>6, <2>7, <1>t DEF RiskIInv
<1>9. ASSUME NEW w \in Watchdogs, ChangeFlag(w) PROVE RiskIInv'
    <2> DEFINE r == op[w].reason
               k == Kind(r)
    <2>1. /\ \A x \in Watchdogs : Changing(x) => x = w
          /\ \A x \in Watchdogs : ~Changing(x)'
          /\ pc[w] = "flag"
          /\ \A x \in Watchdogs : x # w => pc'[x] = pc[x] /\ op'[x] = op[x]
          /\ pc'[w] \in {"value", "sleep"}
          /\ holder = w /\ holder' = Nobody
        BY <1>9, <1>t DEF ChangeFlag, Done, Sleep, RiskIInv, LockInv, Changing, RiskTypeOK, Goto
    <2>2. LockInv'
        BY <2>1 DEF LockInv, Nobody, Watchdogs
    <2>3. /\ r \in reasons <=> op[w].call = "stop"
          /\ r \in Reasons
          /\ op[w].call \in {"stop", "resume"}
        BY <2>1, <1>t DEF RiskIInv, PendingInv, Changing, RiskTypeOK
    <2>4. /\ op[w].call = "stop" => standing' = standing \cup {r}
          /\ op[w].call = "resume" => standing' = standing \ {r}
        BY <1>9 DEF ChangeFlag, Done
    <2>5. \A q \in Reasons : q \in reasons <=> q \in standing'
        BY <2>1, <2>3, <2>4 DEF RiskIInv, ReasonsInv
    <2>6. ReasonsInv'
        BY <1>9, <2>5 DEF ChangeFlag, ReasonsInv
    <2>7. PendingInv'
        BY <1>9, <2>1 DEF ChangeFlag, RiskIInv, PendingInv, Changing
    <2>8. standing' \subseteq Reasons /\ reasons \subseteq Reasons
        BY <1>t DEF RiskTypeOK
    <2>9. StopStands' /\ ResumeComplete'
        <3>1. CASE op[w].call = "stop"
            BY <1>9, <2>4, <3>1 DEF ChangeFlag, RiskIInv, StopStands, ResumeComplete
        <3>2. CASE op[w].call = "resume" /\ NoReason(k)
            <4>1. stopped' = stopped \ {k} /\ static' = static
                BY <1>9, <3>2 DEF ChangeFlag
            <4>2. \A q \in standing' : Kind(q) # k
                BY <3>2, <2>5, <2>8 DEF NoReason
            <4>3. k \notin static
                BY <3>2 DEF NoReason
            <4>4. QED
                BY <4>1, <4>2, <4>3, <3>2, <2>4 DEF RiskIInv, StopStands, ResumeComplete
        <3>3. CASE op[w].call = "resume" /\ ~NoReason(k)
            <4>1. stopped' = stopped /\ static' = static
                BY <1>9, <3>3 DEF ChangeFlag
            <4>2. k \in static \/ \E q \in standing' : Kind(q) = k
                BY <3>3, <2>5, <2>8 DEF NoReason
            <4>3. QED
                BY <4>1, <4>2, <3>3, <2>4 DEF RiskIInv, StopStands, ResumeComplete
        <3>4. QED
            BY <2>3, <3>1, <3>2, <3>3
    <2>10. QED
        BY <2>2, <2>6, <2>7, <2>9, <1>t DEF RiskIInv
<1>10. QED
    BY <1>1, <1>3, <1>4, <1>5, <1>6, <1>7, <1>8, <1>9
       DEF RiskNext, WatchdogStep, MetaChanges, BnbChanges, riskVars

\* The inductive invariant of the watchdogs and DynamicConfig.
THEOREM RiskControlInvariant == RiskSpec => []RiskIInv
<1>1. RiskInit => RiskIInv
    BY RiskInitIInv
<1>2. RiskIInv /\ [RiskNext]_riskVars => RiskIInv'
    BY RiskStepIInv
<1>3. QED
    BY <1>1, <1>2, PTL DEF RiskSpec

\* The types of RiskControl's variables: reasons and flags are those of dynamic_config.h.
THEOREM RiskControlTypeOK == RiskSpec => []RiskTypeOK
<1>1. RiskIInv => RiskTypeOK
    BY DEF RiskIInv
<1>2. QED
    BY <1>1, RiskControlInvariant, PTL

\* While the configuration or a watchdog's latest judgement says stop, the flag is up,
\* although is_stop_make_order_as_reason peeks at it without the lock.
THEOREM RiskControlStopStands == RiskSpec => []StopStands
<1>1. RiskIInv => StopStands
    BY DEF RiskIInv
<1>2. QED
    BY <1>1, RiskControlInvariant, PTL

\* resume_make_order leaves no flag up that nothing asks for.
THEOREM RiskControlResumeComplete == RiskSpec => []ResumeComplete
<1>1. RiskIInv => ResumeComplete
    BY DEF RiskIInv
<1>2. QED
    BY <1>1, RiskControlInvariant, PTL
-----------------------------------------------------------------------------
(* Position *)

Order == [volume : (-OrderSize..OrderSize) \ {0}, reduce_only : BOOLEAN]

\* An order that reduces the position by at most what there is.
Reduces(o, amount) == /\ Sign(o.volume) = -Sign(amount)
                      /\ Abs(o.volume) <= Abs(amount)

\* As long as every order of close-only mode was made with the exchange's position known and
\* nothing under way, there is at most one, and it reduces the position the exchange has.
WarrantedInv ==
    close_only /\ ~misled /\ inflight # << >> =>
        Len(inflight) = 1 /\ Reduces(Head(inflight), exchange)

PositionIInv == PositionTypeOK /\ WarrantedInv
-----------------------------------------------------------------------------
USE PositionAssumption DEF PositionAssumption, exchangeVars, storeVars, restVars, eventVars,
                           strategyVars

LEMMA SignFacts ==
    ASSUME NEW n \in Int
    PROVE  /\ Sign(n) \in {-1, 0, 1} /\ Sign(n) \in Int /\ Abs(n) \in Nat
           /\ n > 0 <=> Sign(n) = 1
           /\ n < 0 <=> Sign(n) = -1
           /\ n >= 0 => Abs(n) = n
           /\ n <= 0 => Abs(n) = -n
BY DEF Sign, Abs

LEMMA OrderFields ==
    ASSUME NEW o \in Order
    PROVE  /\ o.volume \in Int /\ o.volume # 0 /\ o.reduce_only \in BOOLEAN
           /\ o.volume \in -OrderSize..OrderSize
BY DEF Order

\* The order that is made has the configured size or less, and one that closes the known
\* position does not exceed it in close-only mode.
LEMMA OrderOfFacts ==
    ASSUME sdata \in Int, close_only \in BOOLEAN, NEW side \in {1, -1}
    PROVE  /\ OrderOf(side) \in Order
           /\ close_only /\ PositionClose(side) => Reduces(OrderOf(side), sdata)
<1>0. Abs(sdata) \in Nat /\ (PositionClose(side) => sdata # 0 /\ Abs(sdata) # 0)
    BY DEF PositionClose, Sign, Abs
<1>1. CASE close_only /\ PositionClose(side) /\ OrderSize > Abs(sdata)
    <2>1. OrderOf(side) = [volume |-> side * Abs(sdata), reduce_only |-> TRUE]
        BY <1>1 DEF OrderOf
    <2>2. /\ side * Abs(sdata) \in (-OrderSize..OrderSize) \ {0}
          /\ Sign(side * Abs(sdata)) = -Sign(sdata) /\ Abs(side * Abs(sdata)) <= Abs(sdata)
        <3>1. CASE side = 1
            BY <1>0, <1>1, <3>1 DEF PositionClose, Sign, Abs
        <3>2. CASE side = -1
            <4>1. side * Abs(sdata) = -Abs(sdata)
                BY <1>0, <3>2
            <4>2. QED
                BY <1>0, <1>1, <3>2, <4>1 DEF PositionClose, Sign, Abs
        <3>3. QED
            BY <3>1, <3>2
    <2>3. QED
        BY <2>1, <2>2 DEF Order, Reduces
<1>2. CASE ~(close_only /\ PositionClose(side) /\ OrderSize > Abs(sdata))
    <2>1. OrderOf(side) = [volume |-> side * OrderSize, reduce_only |-> FALSE]
        BY <1>2 DEF OrderOf
    <2>2. side * OrderSize = OrderSize \/ side * OrderSize = -OrderSize
        OBVIOUS
    <2>3. side * OrderSize \in (-OrderSize..OrderSize) \ {0}
        BY <2>2
    <2>4. ASSUME close_only, PositionClose(side)
          PROVE  Sign(side * OrderSize) = -Sign(sdata) /\ Abs(side * OrderSize) <= Abs(sdata)
        <3>0. OrderSize <= Abs(sdata)
            BY <1>0, <1>2, <2>4
        <3>1. CASE side = 1
            BY <1>0, <2>4, <3>0, <3>1 DEF PositionClose, Sign, Abs
        <3>2. CASE side = -1
            <4>1. side * OrderSize = -OrderSize
                BY <3>2
            <4>2. QED
                BY <1>0, <2>4, <3>0, <3>2, <4>1 DEF PositionClose, Sign, Abs
        <3>3. QED
            BY <3>1, <3>2
    <2>5. QED
        BY <2>1, <2>3, <2>4 DEF Order, Reduces
<1>3. QED
    BY <1>1, <1>2

\* An order is never filled beyond its volume.
LEMMA FillableFacts ==
    ASSUME exchange \in Int, NEW o \in Order
    PROVE  Fillable(o) \in Nat /\ Fillable(o) <= Abs(o.volume)
<1>1. Abs(o.volume) \in Nat /\ Abs(exchange) \in Nat
    BY OrderFields, SignFacts
<1>2. \A a, b \in Nat : Smaller(a, b) \in Nat /\ Smaller(a, b) <= a
    BY DEF Smaller
<1>3. CASE o.reduce_only
    <2> DEFINE room == IF Sign(exchange) = -Sign(o.volume) THEN Abs(exchange) ELSE 0
    <2>1. room \in Nat
        BY <1>1
    <2>2. Fillable(o) = Smaller(Abs(o.volume), room)
        BY <1>3 DEF Fillable
    <2> HIDE DEF room
    <2>3. QED
        BY <1>1, <1>2, <2>1, <2>2
<1>4. CASE ~o.reduce_only
    BY <1>1, <1>4 DEF Fillable
<1>5. QED
    BY <1>3, <1>4

\* Filling an order that reduces the position does not take it beyond zero.
LEMMA NoCrossing ==
    ASSUME NEW amount \in Int, NEW o \in Order, Reduces(o, amount),
           NEW filled \in Nat, filled <= Abs(o.volume), Sign(amount) # 0
    PROVE  Sign(amount + Sign(o.volume) * filled) # -Sign(amount)
<1>1. o.volume \in Int
    BY OrderFields
<1>2. Abs(o.volume) \in Nat /\ Abs(amount) \in Nat /\ filled <= Abs(amount)
    BY <1>1, SignFacts DEF Reduces
<1>3. CASE amount > 0
    <2>1. Sign(amount) = 1 /\ Sign(o.volume) = -1 /\ Abs(amount) = amount
        BY <1>3, SignFacts DEF Reduces
    <2>2. Sign(o.volume) * filled = -filled
        BY <2>1
    <2>3. QED
        BY <1>2, <2>1, <2>2 DEF Sign
<1>4. CASE amount < 0
    <2>1. Sign(amount) = -1 /\ Sign(o.volume) = 1 /\ Abs(amount) = -amount
        BY <1>4, SignFacts DEF Reduces
    <2>2. Sign(o.volume) * filled = filled
        BY <2>1
    <2>3. QED
        BY <1>2, <2>1, <2>2 DEF Sign
<1>5. QED
    BY <1>3, <1>4 DEF Sign
-----------------------------------------------------------------------------
LEMMA PositionInitIInv == PositionInit => PositionIInv
<1> SUFFICES ASSUME PositionInit PROVE PositionIInv
    OBVIOUS
<1>1. [volume |-> OrderSize, reduce_only |-> FALSE] \in Order
    BY DEF Order
<1>2. inflight \in Seq(Order) /\ orders \in 0..MaxOrders
    <2>1. CASE inflight = << >>
        BY <2>1 DEF PositionInit
    <2>2. CASE inflight = <<[volume |-> OrderSize, reduce_only |-> FALSE]>>
        <3> HIDE DEF Order
        <3>1. QED
            BY <1>1, <2>2 DEF PositionInit
    <2>3. QED
        BY <2>1, <2>2 DEF PositionInit
<1>3. ticker \in BOOLEAN /\ close_only \in BOOLEAN /\ misled \in BOOLEAN
    BY DEF PositionInit
<1>4. PositionTypeOK
    BY <1>2, <1>3 DEF PositionInit, PositionTypeOK, Order
<1>5. WarrantedInv
    BY DEF PositionInit, WarrantedInv
<1>6. QED
    BY <1>4, <1>5 DEF PositionIInv

\* What a fill does to the exchange's position.
LEMMA FillFacts ==
    ASSUME PositionIInv, NEW filled \in 0..OrderSize, NEW reported \in BOOLEAN, Fill(filled, reported)
    PROVE  /\ exchange' \in Int /\ inflight' \in Seq(Order)
           /\ inflight # << >> /\ Head(inflight) \in Order /\ inflight' = Tail(inflight)
           /\ filled \in Nat /\ filled <= Abs(Head(inflight).volume)
           /\ exchange' = exchange + Sign(Head(inflight).volume) * filled
<1>1. inflight \in Seq(Order) /\ inflight # << >> /\ exchange \in Int
    BY DEF PositionIInv, PositionTypeOK, Order, Fill
<1>2. Head(inflight) \in Order /\ Tail(inflight) \in Seq(Order)
    <2> HIDE DEF Order
    <2>1. QED
        BY <1>1
<1>3. /\ exchange' = exchange + Sign(Head(inflight).volume) * filled
      /\ inflight' = Tail(inflight) /\ filled <= Fillable(Head(inflight))
    BY DEF Fill
<1>4. Head(inflight).volume \in Int
    BY <1>2, OrderFields
<1>5. Sign(Head(inflight).volume) \in Int /\ filled \in Nat /\ Abs(Head(inflight).volume) \in Nat
    BY <1>4, SignFacts
<1>6. exchange' \in Int
    BY <1>1, <1>3, <1>5
<1>7. filled <= Abs(Head(inflight).volume)
    BY <1>1, <1>2, <1>3, <1>5, FillableFacts
<1>8. QED
    BY <1>1, <1>2, <1>3, <1>5, <1>6, <1>7

LEMMA PositionStepIInv == PositionIInv /\ [PositionNext]_positionVars => PositionIInv'
<1> SUFFICES ASSUME PositionIInv, [PositionNext]_positionVars PROVE PositionIInv'
    OBVIOUS
<1>0. PositionTypeOK /\ inflight \in Seq(Order)
    BY DEF PositionIInv, PositionTypeOK, Order
<1>1. CASE TickerArrives
    <2>1. ticker' \in BOOLEAN
        BY <1>1, Zenon DEF TickerArrives
    <2>2. PositionTypeOK' /\ WarrantedInv'
        BY <1>0, <1>1, <2>1 DEF TickerArrives, PositionTypeOK, WarrantedInv, PositionIInv
    <2>3. QED
        BY <2>2 DEF PositionIInv
<1>2. ASSUME NEW filled \in 0..OrderSize, NEW reported \in BOOLEAN, Fill(filled, reported) PROVE PositionIInv'
    <2>1. exchange' \in Int /\ inflight' \in Seq(Order) /\ inflight # << >> /\ inflight' = Tail(inflight)
        BY <1>2, FillFacts
    <2>2. channel' \in Seq(Int)
        <3>1. channel \in Seq(Int)
            BY <1>0 DEF PositionTypeOK
        <3>2. channel' = Append(channel, exchange') \/ channel' = channel
            BY <1>2 DEF Fill
        <3>3. Append(channel, exchange') \in Seq(Int)
            BY <2>1, <3>1
        <3>4. QED
            BY <3>1, <3>2, <3>3
    <2>3. PositionTypeOK'
        BY <1>0, <1>2, <2>1, <2>2 DEF Fill, PositionTypeOK, Order
    <2>4. UNCHANGED <<close_only, misled>>
        BY <1>2 DEF Fill
    <2>5. close_only /\ ~misled => inflight' = << >>
        <3>1. close_only /\ ~misled => Len(inflight) = 1
            BY <2>1 DEF PositionIInv, WarrantedInv
        <3> HIDE DEF Order
        <3>2. Len(inflight) = 1 => Tail(inflight) = << >>
            BY <1>0, <2>1, HeadTailProperties, EmptySeq
        <3>3. QED
            BY <2>1, <3>1, <3>2
    <2>6. WarrantedInv'
        BY <2>4, <2>5 DEF WarrantedInv
    <2>7. QED
        BY <2>3, <2>6 DEF PositionIInv
<1>3. CASE RestStep
    <2>1. PositionTypeOK'
        BY <1>0, <1>3, SMTT(20)
        DEF PositionTypeOK, RestStep, RestFetch, RestApply, RestNoTicker, RestCopy,
            RestThreshold, StoreThreshold
    <2>2. WarrantedInv'
        BY <1>3 DEF PositionIInv, WarrantedInv, RestStep, RestFetch, RestApply, RestNoTicker,
                    RestCopy, RestThreshold
    <2>3. QED
        BY <2>1, <2>2 DEF PositionIInv
<1>4. CASE EventStep
    <2>1. channel' \in Seq(Int) /\ edata' \in Int
        <3>1. channel \in Seq(Int) /\ position \in Int /\ edata \in Int
            BY <1>0 DEF PositionTypeOK
        <3>2. channel # << >> => Head(channel) \in Int /\ Tail(channel) \in Seq(Int)
            BY <3>1
        <3>3. CASE Dequeue
            BY <3>2, <3>3 DEF Dequeue
        <3>4. CASE EventApply
            BY <3>1, <3>4 DEF EventApply
        <3>5. CASE EventNoTicker
            BY <3>1, <3>5 DEF EventNoTicker
        <3>6. CASE EventCopy
            BY <3>1, <3>6 DEF EventCopy
        <3>7. CASE EventThreshold
            BY <3>1, <3>7 DEF EventThreshold
        <3>8. QED
            BY <1>4, <3>3, <3>4, <3>5, <3>6, <3>7 DEF EventStep
    <2>2. PositionTypeOK'
        BY <1>0, <1>4, <2>1
        DEF PositionTypeOK, EventStep, Dequeue, EventApply, EventNoTicker, EventCopy,
            EventThreshold
    <2>3. WarrantedInv'
        BY <1>4 DEF PositionIInv, WarrantedInv, EventStep, Dequeue, EventApply, EventNoTicker,
                    EventCopy, EventThreshold
    <2>4. QED
        BY <2>2, <2>3 DEF PositionIInv
<1>5. CASE WakeUp \/ CopyPosition \/ NoOrder
    <2>1. PositionTypeOK'
        BY <1>0, <1>5, SMTT(20) DEF PositionTypeOK, WakeUp, CopyPosition, NoOrder
    <2>2. WarrantedInv'
        BY <1>5 DEF PositionIInv, WarrantedInv, WakeUp, CopyPosition, NoOrder
    <2>3. QED
        BY <2>1, <2>2 DEF PositionIInv
<1>6. ASSUME NEW side \in {1, -1}, NEW may_open \in BOOLEAN, MakeOrder(side, may_open) PROVE PositionIInv'
    <2>1. /\ OrderOf(side) \in Order
          /\ close_only /\ PositionClose(side) => Reduces(OrderOf(side), sdata)
        BY <1>0, OrderOfFacts DEF PositionTypeOK
    <2> DEFINE o == OrderOf(side)
    <2>2. inflight' = Append(inflight, o)
        BY <1>6 DEF MakeOrder
    <2> HIDE DEF o
    <2>3. inflight' \in Seq(Order)
        <3> HIDE DEF Order
        <3>1. QED
            BY <1>0, <2>1, <2>2 DEF o
    <2>4. misled' \in BOOLEAN
        BY <1>6, <1>0 DEF MakeOrder, PositionTypeOK
    <2>5. PositionTypeOK'
        BY <1>0, <1>6, <2>3, <2>4 DEF MakeOrder, PositionTypeOK, Order
    <2>6. ASSUME close_only', ~misled'
          PROVE  Len(inflight') = 1 /\ Reduces(Head(inflight'), exchange')
        <3>1. close_only /\ sdata = exchange /\ inflight = << >> /\ PositionClose(side) /\ exchange' = exchange
            BY <1>6, <2>6 DEF MakeOrder
        <3>2. inflight' = <<o>>
            BY <2>2, <3>1
        <3>3. QED
            BY <2>1, <3>1, <3>2 DEF o
    <2>7. WarrantedInv'
        BY <2>6 DEF WarrantedInv
    <2>8. QED
        BY <2>5, <2>7 DEF PositionIInv
<1>7. CASE UNCHANGED positionVars
    BY <1>0, <1>7 DEF positionVars, PositionIInv, PositionTypeOK, WarrantedInv
<1>8. QED
    BY <1>1, <1>2, <1>3, <1>4, <1>5, <1>6, <1>7 DEF PositionNext, StrategyStep
-----------------------------------------------------------------------------
(* Theorems *)

\* The inductive invariant: an order of close-only mode that was made with the exchange's
\* position known is the only one under way, and it can only reduce that position.
THEOREM PositionInvariant == PositionSpec => []PositionIInv
<1>1. PositionInit => PositionIInv
    BY PositionInitIInv
<1>2. PositionIInv /\ [PositionNext]_positionVars => PositionIInv'
    BY PositionStepIInv
<1>3. QED
    BY <1>1, <1>2, PTL DEF PositionSpec

\* In close-only mode no sequence of partial fills takes a position beyond zero, as long as
\* every order was made with the exchange's position known and no other order under way.
THEOREM PositionCrossesOnlyMisled == PositionSpec => CrossesOnlyMisled
<1>1. PositionIInv /\ [PositionNext]_positionVars => (close_only /\ ~misled => ~Crosses)
    <2> SUFFICES ASSUME PositionIInv, [PositionNext]_positionVars, close_only, ~misled, Sign(exchange) # 0
                 PROVE  Sign(exchange') # -Sign(exchange)
        BY DEF Crosses
    <2>0. exchange \in Int
        BY DEF PositionIInv, PositionTypeOK
    <2>1. ASSUME NEW filled \in 0..OrderSize, NEW reported \in BOOLEAN, Fill(filled, reported)
          PROVE  Sign(exchange') # -Sign(exchange)
        <3>1. /\ inflight # << >> /\ Head(inflight) \in Order
              /\ filled \in Nat /\ filled <= Abs(Head(inflight).volume)
              /\ exchange' = exchange + Sign(Head(inflight).volume) * filled
            BY <2>1, FillFacts
        <3>2. Reduces(Head(inflight), exchange)
            BY <3>1 DEF PositionIInv, WarrantedInv
        <3>3. QED
            BY <2>0, <3>1, <3>2, NoCrossing
    <2>2. CASE exchange' = exchange
        BY <2>0, <2>2 DEF Sign
    <2>3. QED
        BY <2>1, <2>2
        DEF PositionNext, positionVars, TickerArrives, RestStep, RestFetch, RestApply,
            RestNoTicker, RestCopy, RestThreshold,
            EventStep, Dequeue, EventApply, EventNoTicker, EventCopy, EventThreshold,
            StrategyStep, WakeUp, CopyPosition, NoOrder, MakeOrder
<1>2. QED
    BY <1>1, PositionInvariant, PTL DEF PositionSpec, CrossesOnlyMisled
=============================================================================
