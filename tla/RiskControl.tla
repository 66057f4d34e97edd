------------------------------ MODULE RiskControl ------------------------------
(***************************************************************************)
(* The actuary's risk control: DynamicConfig (actuary/dynamic_config.cpp)  *)
(* holds two flags the strategy threads read without a lock, "no orders"   *)
(* and "no opening orders", each with the set of reasons for it.  Two      *)
(* watchdog threads (actuary/risk_control.cpp) wake up now and then, judge *)
(* the account's meta data and its BNB balance, and stop or resume.        *)
(*                                                                         *)
(* A watchdog asks is_stop_make_order_as_reason, which looks at the flag   *)
(* without the lock and then at the reasons under it, and calls stop or    *)
(* resume in another critical section; the other watchdog runs in between. *)
(* Ratios and balances are abstracted to their place among the configured  *)
(* thresholds, and time to data expiring at an arbitrary moment: nothing   *)
(* is bounded and the state space is complete.                             *)
(***************************************************************************)
Kinds     == {"order", "open"}     \* make_order, make_open_order
Watchdogs == {"meta", "bnb"}       \* watch_account_meta, watch_bnb_balance
Reasons   == {"ACCOUNT_META", "MARGIN_LIMITED", "BNB", "BNB_SHORTAGE"}
Nobody    == "nobody"

\* mutant: the margin limit puts up a flag nobody reads
KindUnread(r) == IF r = "MARGIN_LIMITED" THEN "open_order" ELSE "order"

\* the flag a reason belongs to
Kind(r) == IF r = "MARGIN_LIMITED" THEN "open" ELSE "order"

\* The meta data, by marginUseRatio: expired (updated more than 300 seconds ago), below
\* thresholds[0], between, above thresholds[1].  The ratio is 1 without a wallet balance.
Metas == {"expired", "low", "between", "high"}
\* The BNB balance, by crossWalletBalance: expired or not in the map, below thresholds[0],
\* up to thresholds[1], above it.
Balances == {"expired", "few", "scarce", "enough"}

NoCall == [call |-> "resume", reason |-> "BNB", value |-> "expired"]

VARIABLES
    meta,      \* the account's meta data
    bnb,       \* the BNB balance
    static,    \* the flags with STOP_REASON_STATIC_CONFIG among their reasons
    stopped,   \* the flags that are up: "order" is stop_order, "open" is stop_open_order
    reasons,   \* stop_reasons and stop_open_reasons, but for the static one
    holder,    \* who holds DynamicConfig's rw_lock unique
    pc,        \* program counter of a watchdog
    op,        \* the call it is making: what, for which reason, and the ratio or balance copied
    standing   \* history: the reasons whose latest completed judgement was to stop

data == <<meta, bnb>>
dynamicConfig == <<static, stopped, reasons, holder>>
riskVars == <<data, dynamicConfig, pc, op, standing>>

\* DynamicConfig's constructor: stop_make_order puts up both flags,
\* make_position_close_only the second
RiskInit ==
    /\ meta = "expired"
    /\ bnb = "expired"
    /\ static \in {{}, {"open"}, {"order", "open"}}
    /\ stopped = static
    /\ reasons = {}
    /\ holder = Nobody
    /\ pc = [w \in Watchdogs |-> "sleep"]
    /\ op = [w \in Watchdogs |-> NoCall]
    /\ standing = {}

\* update_meta, update_exist_balance: the account threads store what the exchange says;
\* or 300 seconds have passed since they last did
MetaChanges(v) == /\ meta' = v
                  /\ UNCHANGED <<bnb, dynamicConfig, pc, op, standing>>

BnbChanges(v) == /\ bnb' = v
                 /\ UNCHANGED <<meta, dynamicConfig, pc, op, standing>>
-----------------------------------------------------------------------------
(* The watchdogs *)

Goto(w, l) == pc' = [pc EXCEPT ![w] = l]

Call(w, c, r, v) == /\ op' = [op EXCEPT ![w] = [call |-> c, reason |-> r, value |-> v]]
                    /\ Goto(w, "peek")

Sleep(w) == /\ op' = [op EXCEPT ![w] = NoCall]
            /\ Goto(w, "sleep")

\* mutant: the age of the data is not judged
NeverStale(w) ==
    /\ pc[w] = "sleep"
    /\ Call(w, "resume", IF w = "meta" THEN "ACCOUNT_META" ELSE "BNB", IF w = "meta" THEN meta ELSE bnb)
    /\ UNCHANGED <<data, dynamicConfig, standing>>

\* The watchdog wakes up, copies the data, reads the clock and judges the data's age.
JudgeFreshness(w) ==
    LET v == IF w = "meta" THEN meta ELSE bnb IN
    /\ pc[w] = "sleep"
    /\ Call(w,
            IF v = "expired" THEN "stop" ELSE "resume",
            IF w = "meta" THEN "ACCOUNT_META" ELSE "BNB",
            v)
    /\ UNCHANGED <<data, dynamicConfig, standing>>

JudgeMargin(v) ==
    /\ pc["meta"] = "value"
    /\ v = op["meta"].value
    /\ \/ v = "high" /\ Call("meta", "stop", "MARGIN_LIMITED", v)
       \/ v = "low" /\ Call("meta", "resume", "MARGIN_LIMITED", v)
       \/ v = "between" /\ Sleep("meta")
    /\ UNCHANGED <<data, dynamicConfig, standing>>

\* mutant: a shortage of BNB is never called off
ShortageForGood(v) ==
    /\ pc["bnb"] = "value"
    /\ v = op["bnb"].value
    /\ \/ v = "few" /\ Call("bnb", "stop", "BNB_SHORTAGE", v)
       \/ v \in {"scarce", "enough"} /\ Sleep("bnb")
    /\ UNCHANGED <<data, dynamicConfig, standing>>

JudgeBalance(v) ==
    /\ pc["bnb"] = "value"
    /\ v = op["bnb"].value
    /\ \/ v = "few" /\ Call("bnb", "stop", "BNB_SHORTAGE", v)
       \/ v = "enough" /\ Call("bnb", "resume", "BNB_SHORTAGE", v)
       \/ v = "scarce" /\ Sleep("bnb")
    /\ UNCHANGED <<data, dynamicConfig, standing>>

\* The call is over.  After the verdict "fresh" the loop goes on to the value, after any
\* other one it starts again.
Done(w) ==
    LET o == op[w] IN
    /\ standing' = IF o.call = "stop" THEN standing \cup {o.reason} ELSE standing \ {o.reason}
    /\ IF o.call = "resume" /\ o.reason \in {"ACCOUNT_META", "BNB"}
       THEN Goto(w, "value") /\ UNCHANGED op
       ELSE Sleep(w)

\* is_stop_make_order_as_reason said `stopping`: it is stop's turn when the reason is
\* not there yet, resume's when it is
Answered(w, stopping) ==
    IF stopping = (op[w].call = "stop")
    THEN Done(w)
    ELSE Goto(w, "lock") /\ UNCHANGED <<op, standing>>

\* is_stop_make_order_as_reason reads the flag without the lock
Peek(w) ==
    /\ pc[w] = "peek"
    /\ IF Kind(op[w].reason) \in stopped
       THEN Goto(w, "look") /\ UNCHANGED <<op, standing>>
       ELSE Answered(w, FALSE)
    /\ UNCHANGED <<data, dynamicConfig>>

\* and then the reasons, under the lock
Look(w) ==
    /\ pc[w] = "look"
    /\ holder = Nobody
    /\ Answered(w, op[w].reason \in reasons)
    /\ UNCHANGED <<data, dynamicConfig>>

\* mutant: resuming leaves the reason in the set
KeepReason(w) ==
    /\ pc[w] = "lock"
    /\ holder = Nobody
    /\ holder' = w
    /\ reasons' = reasons \cup {op[w].reason}
    /\ Goto(w, "flag")
    /\ UNCHANGED <<data, static, stopped, op, standing>>

\* stop_make_order, resume_make_order: the reason, under the lock taken unique ...
ChangeReasons(w) ==
    /\ pc[w] = "lock"
    /\ holder = Nobody
    /\ holder' = w
    /\ reasons' = IF op[w].call = "stop" THEN reasons \cup {op[w].reason}
                                         ELSE reasons \ {op[w].reason}
    /\ Goto(w, "flag")
    /\ UNCHANGED <<data, static, stopped, op, standing>>

\* mutant: the flag is put down with the first reason that goes
NoReasonAsked(k) == TRUE

\* the set of reasons of flag k is empty
NoReason(k) == k \notin static /\ \A r \in reasons : Kind(r) # k

\* ... then the flag
ChangeFlag(w) ==
    LET k == Kind(op[w].reason) IN
    /\ pc[w] = "flag"
    /\ stopped' = CASE op[w].call = "stop" -> stopped \cup {k}
                    [] op[w].call = "resume" /\ NoReason(k) -> stopped \ {k}
                    [] OTHER -> stopped
    /\ holder' = Nobody
    /\ Done(w)
    /\ UNCHANGED <<data, static, reasons>>
-----------------------------------------------------------------------------
WatchdogStep(w) == \/ JudgeFreshness(w)
                   \/ w = "meta" /\ \E v \in Metas : JudgeMargin(v)
                   \/ w = "bnb" /\ \E v \in Balances : JudgeBalance(v)
                   \/ Peek(w) \/ Look(w) \/ ChangeReasons(w) \/ ChangeFlag(w)

RiskNext ==
    \/ \E v \in Metas : MetaChanges(v)
    \/ \E v \in Balances : BnbChanges(v)
    \/ \E w \in Watchdogs : WatchdogStep(w)

RiskSpec == RiskInit /\ [][RiskNext]_riskVars

\* Both loops run for ever; nothing obliges the exchange to report.  Between two uses of
\* the lock the other watchdog sleeps five minutes, so whoever waits for it gets it.
RiskFairSpec ==
    /\ RiskSpec
    /\ \A w \in Watchdogs : /\ WF_riskVars(WatchdogStep(w))
                             /\ SF_riskVars(Look(w))
                             /\ SF_riskVars(ChangeReasons(w))
-----------------------------------------------------------------------------
(* Properties *)

\* Types of the flag, the reasons and the watchdogs' locals.
RiskTypeOK ==
    /\ meta \in Metas
    /\ bnb \in Balances
    /\ static \subseteq Kinds
    /\ stopped \subseteq Kinds
    /\ reasons \subseteq Reasons
    /\ holder \in Watchdogs \cup {Nobody}
    /\ pc \in [Watchdogs -> {"sleep", "value", "peek", "look", "lock", "flag"}]
    /\ op \in [Watchdogs -> [call : {"stop", "resume"}, reason : Reasons, value : Metas \cup Balances]]
    /\ standing \subseteq Reasons

\* No order slips through: while the static configuration or any watchdog's latest
\* judgement says stop, the flag the strategy reads without a lock is up, at every
\* instant of whatever the other watchdog is doing.
StopStands ==
    /\ static \subseteq stopped
    /\ \A r \in standing : Kind(r) \in stopped

\* Nothing stays stopped for no reason: a flag is up only because of the configuration or a
\* standing judgement; resume_make_order takes the last one's flag down with it.
ResumeComplete ==
    \A k \in stopped : k \in static \/ \E r \in standing : Kind(r) = k

Healthy == meta = "low" /\ bnb = "enough"

\* Once the account stays healthy, order making is resumed for good, unless the
\* configuration forbids it: no interleaving of the watchdogs leaves a reason behind.
ResumesWhenHealthy == <>[]Healthy => <>[](stopped = static)

\* When the exchange stops reporting, making orders is stopped for good.
StopsWhenStale == <>[](meta = "expired") => <>[]("order" \in stopped)
=============================================================================
