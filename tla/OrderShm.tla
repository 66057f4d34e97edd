------------------------------- MODULE OrderShm -------------------------------
(***************************************************************************)
(* One cell of the order shared memory (shm/order_shm.cpp,                 *)
(* shm/share_memory_mng.cpp): strategy threads of the actuary processes    *)
(* write the order of one instrument into it under a spin lock, the        *)
(* trader's scan thread (trader/trade_processor.cpp) copies it out under   *)
(* the same lock.  Processes may be killed at any point, inside the        *)
(* critical section too.  When the main actuary comes back it deletes and  *)
(* recreates the segment; whoever is attached to the deleted one keeps     *)
(* using it.                                                               *)
(*                                                                         *)
(* A cell's strings (inst_id .. client_order_id) are the field text, its   *)
(* price, volume and reduce_only the field nums: both hold the identity of *)
(* the order they were copied from, so that a torn order is visible.       *)
(***************************************************************************)
EXTENDS Naturals, Sequences

CONSTANTS Writers,       \* strategy threads that write this instrument's cell
          Main,          \* those of the shm_group_main_node process
          NoOrder,       \* content of a cell nobody has written yet
          Validity,      \* config.order_validity_micros
          MaxTime,       \* bound: the clock stops here
          MaxGen,        \* bound: segments created
          MaxRestart     \* bound: trader restarts

ASSUME OrderShmAssumption ==
    /\ Main \subseteq Writers
    /\ Validity \in Nat
    /\ MaxTime \in Nat \ {0}
    /\ MaxGen \in Nat \ {0}
    /\ MaxRestart \in Nat

Gens    == 1..MaxGen
Order   == [by : Writers, time : 1..MaxTime]
Content == Order \cup {NoOrder}
Copy    == [text : Content, nums : Content, update_time : Nat, version_number : Nat]
Placement == [order : Copy, gen : Gens, epoch : Nat]

VARIABLES
    now,            \* the clock, in micros
    text,           \* inst_id .. client_order_id of the cell, in every segment created so far
    nums,           \* its price, volume and reduce_only
    update_time,    \* its update_time
    version_number, \* its version_number
    lock,           \* its spin lock
    current,        \* the segment the ftok key names
    wpc,            \* program counter of a strategy thread inside order_shm_writer_update
    worder,         \* the order it is about to write
    wgen,           \* the segment it is attached to
    tpc,            \* program counter of the trader's scan thread
    tcopy,          \* the OrderShm instance order_shm_reader_get returns
    tgen,           \* the segment the trader is attached to
    order_version,  \* scan_and_send_order's local order_version
    epoch,          \* how often the trader was restarted
    published,      \* history: the orders that got a version number, per segment
    placed          \* history: what the trader went on to place

cellVars == <<text, nums, update_time, version_number, lock>>
writerVars == <<wpc, worder, wgen>>
traderVars == <<tpc, tcopy, tgen, order_version, epoch, placed>>
vars == <<now, cellVars, current, writerVars, traderVars, published>>

ZeroCopy == [text |-> NoOrder, nums |-> NoOrder, update_time |-> 0, version_number |-> 0]

Init ==
    /\ now = 1
    /\ text = [g \in Gens |-> NoOrder]
    /\ nums = [g \in Gens |-> NoOrder]
    /\ update_time = [g \in Gens |-> 0]
    /\ version_number = [g \in Gens |-> 0]
    /\ lock = [g \in Gens |-> 0]
    /\ current = 1
    /\ wpc = [w \in Writers |-> "idle"]
    /\ worder = [w \in Writers |-> NoOrder]
    /\ wgen = [w \in Writers |-> 1]
    /\ tpc = "scan"
    /\ tcopy = ZeroCopy
    /\ tgen = 1
    /\ order_version = 0
    /\ epoch = 0
    /\ published = [g \in Gens |-> << >>]
    /\ placed = << >>

Tick == /\ now < MaxTime
        /\ now' = now + 1
        /\ UNCHANGED <<cellVars, current, writerVars, traderVars, published>>
-----------------------------------------------------------------------------
(* The strategy thread: order_shm_writer_update *)

\* calculate_signal_make_order stamps an order with now_micros and calls the writer
DecideOrder(w) ==
    /\ wpc[w] = "idle"
    /\ worder' = [worder EXCEPT ![w] = [by |-> w, time |-> now]]
    /\ wpc' = [wpc EXCEPT ![w] = "check"]
    /\ UNCHANGED <<now, cellVars, current, wgen, traderVars, published>>

\* the writer leaves the call: its argument is gone
Return(w, pc) == /\ wpc' = [wpc EXCEPT ![w] = pc]
                 /\ worder' = [worder EXCEPT ![w] = NoOrder]

\* the first comparison reads update_time without the lock
WriterCheck(w) ==
    /\ wpc[w] = "check"
    /\ IF update_time[wgen[w]] < worder[w].time
       THEN /\ wpc' = [wpc EXCEPT ![w] = "spin"]
            /\ UNCHANGED worder
       ELSE Return(w, "idle")
    /\ UNCHANGED <<now, cellVars, current, wgen, traderVars, published>>

\* mutant: the exchange of the spin lock does not look at the old value
AcquireUnchecked(g) == lock' = [lock EXCEPT ![g] = 1]

\* mutant: the lock word is incremented, not exchanged
AcquireAdds(g) == lock' = [lock EXCEPT ![g] = @ + 1]

\* common_acquire_lock: the exchange that finds 0 ends the spin
common_acquire_lock(g) ==
    /\ lock[g] = 0
    /\ lock' = [lock EXCEPT ![g] = 1]

common_release_lock(g) == lock' = [lock EXCEPT ![g] = 0]

WriterAcquire(w) ==
    /\ wpc[w] = "spin"
    /\ common_acquire_lock(wgen[w])
    /\ wpc' = [wpc EXCEPT ![w] = "recheck"]
    /\ UNCHANGED <<now, text, nums, update_time, version_number, current, worder, wgen, traderVars, published>>

\* mutant: the second comparison, under the lock, is forgotten
NoRecheck(w) == TRUE

\* the second comparison, under the lock
IsNewer(w) == update_time[wgen[w]] < worder[w].time

WriterCopyText(w) ==
    /\ wpc[w] = "recheck"
    /\ IsNewer(w)
    /\ text' = [text EXCEPT ![wgen[w]] = worder[w]]
    /\ wpc' = [wpc EXCEPT ![w] = "nums"]
    /\ UNCHANGED <<now, nums, update_time, version_number, lock, current, worder, wgen, traderVars, published>>

WriterTooLate(w) ==
    /\ wpc[w] = "recheck"
    /\ ~IsNewer(w)
    /\ wpc' = [wpc EXCEPT ![w] = "unlock"]
    /\ UNCHANGED <<now, cellVars, current, worder, wgen, traderVars, published>>

WriterCopyNums(w) ==
    /\ wpc[w] = "nums"
    /\ nums' = [nums EXCEPT ![wgen[w]] = worder[w]]
    /\ update_time' = [update_time EXCEPT ![wgen[w]] = worder[w].time]
    /\ wpc' = [wpc EXCEPT ![w] = "bump"]
    /\ UNCHANGED <<now, text, version_number, lock, current, worder, wgen, traderVars, published>>

\* mutant: the version number is written but not advanced
BumpForgotten(g) == version_number' = version_number

BumpVersion(g) == version_number' = [version_number EXCEPT ![g] = @ + 1]

WriterBump(w) ==
    /\ wpc[w] = "bump"
    /\ BumpVersion(wgen[w])
    /\ published' = [published EXCEPT ![wgen[w]] = Append(@, worder[w])]
    /\ wpc' = [wpc EXCEPT ![w] = "unlock"]
    /\ UNCHANGED <<now, text, nums, update_time, lock, current, worder, wgen, traderVars>>

WriterRelease(w) ==
    /\ wpc[w] = "unlock"
    /\ common_release_lock(wgen[w])
    /\ Return(w, "idle")
    /\ UNCHANGED <<now, text, nums, update_time, version_number, current, wgen, traderVars, published>>

\* the process is killed; a lock it holds stays 1
WriterCrash(w) ==
    /\ wpc[w] # "down"
    /\ current < MaxGen
    /\ Return(w, "down")
    /\ UNCHANGED <<now, cellVars, current, wgen, traderVars, published>>

order_shm_writer_init(g) ==
    /\ text' = [text EXCEPT ![g] = NoOrder]
    /\ nums' = [nums EXCEPT ![g] = NoOrder]
    /\ update_time' = [update_time EXCEPT ![g] = 0]
    /\ version_number' = [version_number EXCEPT ![g] = 0]
    /\ lock' = [lock EXCEPT ![g] = 0]

\* GlobalContext::init_shm of the main node: writer_common_create_shm removes the
\* segment under the key and creates another one, order_shm_writer_init clears it
RestartMain(w) ==
    /\ w \in Main
    /\ wpc[w] = "down"
    /\ current < MaxGen
    /\ current' = current + 1
    /\ wgen' = [wgen EXCEPT ![w] = current + 1]
    /\ order_shm_writer_init(current + 1)
    /\ wpc' = [wpc EXCEPT ![w] = "idle"]
    /\ UNCHANGED <<now, worder, traderVars, published>>

\* GlobalContext::init_shm of another node: reader_common_attach_shm
RestartSecondary(w) ==
    /\ w \notin Main
    /\ wpc[w] = "down"
    /\ wgen' = [wgen EXCEPT ![w] = current]
    /\ wpc' = [wpc EXCEPT ![w] = "idle"]
    /\ UNCHANGED <<now, cellVars, current, worder, traderVars, published>>
-----------------------------------------------------------------------------
(* The trader's scan thread: order_shm_reader_get and the head of          *)
(* scan_and_send_order                                                     *)

TraderAcquire ==
    /\ tpc = "scan"
    /\ common_acquire_lock(tgen)
    /\ tpc' = "text"
    /\ UNCHANGED <<now, text, nums, update_time, version_number, current, writerVars, tcopy, tgen, order_version, epoch, placed, published>>

TraderCopyText ==
    /\ tpc = "text"
    /\ tcopy' = [tcopy EXCEPT !.text = text[tgen]]
    /\ tpc' = "nums"
    /\ UNCHANGED <<now, cellVars, current, writerVars, tgen, order_version, epoch, placed, published>>

TraderCopyNums ==
    /\ tpc = "nums"
    /\ tcopy' = [tcopy EXCEPT !.nums = nums[tgen],
                              !.update_time = update_time[tgen],
                              !.version_number = version_number[tgen]]
    /\ tpc' = "unlock"
    /\ UNCHANGED <<now, cellVars, current, writerVars, tgen, order_version, epoch, placed, published>>

TraderRelease ==
    /\ tpc = "unlock"
    /\ common_release_lock(tgen)
    /\ tpc' = "judge"
    /\ UNCHANGED <<now, text, nums, update_time, version_number, current, writerVars, tcopy, tgen, order_version, epoch, placed, published>>

\* mutant: an order of the version handled last is taken again
NewOrSame == tcopy.version_number >= order_version /\ tcopy.version_number > 0

\* mutant: the next version is not new enough
SkipsOne == tcopy.version_number > order_version + 1

\* the order is new to this thread: version_number > order_version
IsNewVersion == tcopy.version_number > order_version

Expired == now > tcopy.update_time + Validity

\* the iteration is over: the copied instance is gone
NextScan(pc) == /\ tpc' = pc
                /\ tcopy' = ZeroCopy

TraderSkipOld ==
    /\ tpc = "judge"
    /\ ~IsNewVersion
    /\ NextScan("scan")
    /\ UNCHANGED <<now, cellVars, current, writerVars, tgen, order_version, epoch, placed, published>>

TraderSkipExpired ==
    /\ tpc = "judge"
    /\ IsNewVersion
    /\ order_version' = tcopy.version_number
    /\ Expired
    /\ NextScan("scan")
    /\ UNCHANGED <<now, cellVars, current, writerVars, tgen, epoch, placed, published>>

TraderPlace ==
    /\ tpc = "judge"
    /\ IsNewVersion
    /\ order_version' = tcopy.version_number
    /\ ~Expired
    /\ placed' = Append(placed, [order |-> tcopy, gen |-> tgen, epoch |-> epoch])
    /\ NextScan("scan")
    /\ UNCHANGED <<now, cellVars, current, writerVars, tgen, epoch, published>>

TraderCrash ==
    /\ tpc # "down"
    /\ epoch < MaxRestart
    /\ NextScan("down")
    /\ UNCHANGED <<now, cellVars, current, writerVars, tgen, order_version, epoch, placed, published>>

\* GlobalContext::init_shm of the trader, then a new scan thread with order_version = 0
TraderRestart ==
    /\ tpc = "down"
    /\ tgen' = current
    /\ order_version' = 0
    /\ epoch' = epoch + 1
    /\ NextScan("scan")
    /\ UNCHANGED <<now, cellVars, current, writerVars, placed, published>>
-----------------------------------------------------------------------------
WriterStep(w) ==
    \/ DecideOrder(w)    \/ WriterCheck(w)    \/ WriterAcquire(w)
    \/ WriterCopyText(w) \/ WriterTooLate(w)  \/ WriterCopyNums(w)
    \/ WriterBump(w)     \/ WriterRelease(w)

TraderStep ==
    \/ TraderAcquire \/ TraderCopyText    \/ TraderCopyNums \/ TraderRelease
    \/ TraderSkipOld \/ TraderSkipExpired \/ TraderPlace

Failure ==
    \/ \E w \in Writers : WriterCrash(w) \/ RestartMain(w) \/ RestartSecondary(w)
    \/ TraderCrash
    \/ TraderRestart

Next == \/ Tick
        \/ \E w \in Writers : WriterStep(w)
        \/ TraderStep
        \/ Failure

Spec == Init /\ [][Next]_vars

\* A running thread gets on: the writers finish an update they began, the trader keeps
\* scanning.  Nothing obliges the strategy to decide on an order or a process to die.
FairSpec == /\ Spec
            /\ WF_vars(TraderStep)
            /\ \A w \in Writers : WF_vars(WriterStep(w) /\ wpc[w] # "idle")
-----------------------------------------------------------------------------
(* Properties *)

WriterPC == {"idle", "check", "spin", "recheck", "nums", "bump", "unlock", "down"}

\* Types of the segments' cells and locks and of the copies the threads hold.
TypeOK ==
    /\ now \in 1..MaxTime
    /\ text \in [Gens -> Content]
    /\ nums \in [Gens -> Content]
    /\ update_time \in [Gens -> Nat]
    /\ version_number \in [Gens -> Nat]
    /\ lock \in [Gens -> {0, 1}]
    /\ current \in Gens
    /\ wpc \in [Writers -> WriterPC]
    /\ worder \in [Writers -> Content]
    /\ \A w \in Writers : wpc[w] \notin {"idle", "down"} => worder[w] \in Order
    /\ wgen \in [Writers -> Gens]
    /\ tpc \in {"scan", "text", "nums", "unlock", "judge", "down"}
    /\ tcopy \in Copy
    /\ tgen \in Gens
    /\ order_version \in Nat
    /\ epoch \in Nat
    /\ published \in [Gens -> Seq(Order)]
    /\ placed \in Seq(Placement)

WriterInside(w, g) == wgen[w] = g /\ wpc[w] \in {"recheck", "nums", "bump", "unlock"}
TraderInside(g)    == tgen = g /\ tpc \in {"text", "nums", "unlock"}

\* The spin lock of a cell admits one thread: no two strategy threads, and no strategy
\* thread together with the trader, are between common_acquire_lock and
\* common_release_lock of the same segment, whatever was killed or recreated before.
MutualExclusion ==
    \A g \in Gens, w \in Writers : WriterInside(w, g) =>
        /\ ~TraderInside(g)
        /\ \A v \in Writers : WriterInside(v, g) => v = w

\* scan_and_send_order never places a mixture of two orders: the strings, the numbers
\* and the time stamp it places are those of the one order published under that version.
PlacedIntact ==
    \A i \in DOMAIN placed :
        LET p == placed[i].order IN
        /\ p.version_number \in DOMAIN published[placed[i].gen]
        /\ LET o == published[placed[i].gen][p.version_number] IN
              /\ p.text = o
              /\ p.nums = o
              /\ p.update_time = o.time

\* Between two restarts the trader places every order at most once and never an order
\* older than one it placed before.
PlacedOnceInOrder ==
    \A i, j \in DOMAIN placed :
        /\ i < j
        /\ placed[i].epoch = placed[j].epoch
        => placed[i].order.update_time < placed[j].order.update_time

\* Two strategy threads that decided at different moments may reach the lock in either
\* order: the cell never goes back to an older order, and its version never decreases.
CellNeverGoesBack ==
    [][\A g \in Gens : /\ update_time[g] <= update_time'[g]
                       /\ version_number[g] <= version_number'[g]]_vars

\* The cell is a newest-wins mailbox for the trader.  The trader has taken an order from
\* the moment its copy is complete, and none once it is killed; the writer publishes when
\* it advances the version.
Taken == CASE tpc = "down" -> 0
           [] tpc \in {"unlock", "judge"} /\ tcopy.version_number > order_version
                -> tcopy.version_number
           [] OTHER -> order_version

Mailbox == INSTANCE OrderMailbox WITH published <- published[tgen], taken <- Taken

\* The shared-memory cell with its lock, field-wise copies and restarts implements the
\* newest-wins mailbox.
RefinesMailbox == Mailbox!Spec

\* nobody is left who will release the lock
Abandoned(g) == /\ lock[g] = 1
                /\ ~TraderInside(g)
                /\ \A w \in Writers : ~WriterInside(w, g)

\* The newest order in the cell reaches the trader's scan loop: every version written to the
\* segment the trader is attached to is eventually taken or overtaken by a newer one, unless
\* the trader is killed or somebody is killed inside the cell's lock.
NewestIsTaken ==
    \A g \in Gens, v \in 1..MaxTime :
        (tgen = g /\ version_number[g] >= v)
            ~> (order_version >= v \/ tpc = "down" \/ Abandoned(g))
=============================================================================
