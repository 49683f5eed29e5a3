------------------------------- MODULE TaskWdt -------------------------------
(***************************************************************************)
(* The task watchdog (components/esp_system/task_wdt/task_wdt.c) over its  *)
(* timer group implementation (task_wdt_impl_timergroup.c).  Subscribers   *)
(* reset the watchdog one by one; the hardware timer is fed only by the    *)
(* call that finds everybody else reset, and its interrupt blames whoever  *)
(* has not reset.  A call first looks at p_twdt_obj without the spinlock   *)
(* and then does its work in one critical section: two steps here, between *)
(* which everything else may happen.  init and deinit work without the     *)
(* spinlock and take a step per access to what others share; reconfigure   *)
(* takes the same steps while it holds the spinlock.                       *)
(*                                                                         *)
(* Time passes in ticks, of which Timeout make the configured timeout_ms.  *)
(* A critical section and the delay of the interrupt are shorter than a    *)
(* tick, so the second stage of the timer is never reached.  A call that   *)
(* returns an error before its critical section is a stutter.              *)
(***************************************************************************)
EXTENDS Integers, FiniteSets

CONSTANTS
    Clients,     \* tasks and users that subscribe themselves
    Idle,        \* the idle tasks, subscribed by init and reconfigure
    Timeout,     \* ticks until the timer expires
    MaxCalls,    \* bound: calls in progress
    MaxJoins,    \* bound: subscriptions in a round are not counted beyond
    Liberties    \* "overlap": calls run concurrently with init and deinit

Subscribers == Clients \cup Idle
AgeCap      == 2 * Timeout + 1  \* bound: ages are not counted beyond

ASSUME TaskWdtAssumption ==
    /\ Timeout \in Nat \ {0}
    /\ {MaxCalls, MaxJoins} \subseteq Nat
    /\ IsFiniteSet(Subscribers)
    /\ Clients \cap Idle = {}
    /\ Liberties \subseteq {"overlap"}

VARIABLES
    up,        \* p_twdt_obj # NULL
    idleMask,  \* p_twdt_obj->idle_core_mask, as the set of idle tasks
    wdt,       \* the entries and the timer, see Watchdog
    irq,       \* the timer's interrupt is pending
    call,      \* the call a subscriber is in, past the check of p_twdt_obj
    mgr        \* init, deinit or reconfigure: next step and idle tasks left

vars == <<up, idleMask, wdt, irq, call, mgr>>

Watchdog == [
    entries : SUBSET Subscribers,  \* p_twdt_obj->entries_slist
    reset   : SUBSET Subscribers,  \* those of them with has_reset
    waiting : BOOLEAN,             \* p_twdt_obj->waiting_for_task
    enabled : BOOLEAN,             \* the hardware timer counts
    count   : 0 .. Timeout,        \* ticks since it was fed
    \* History, for the properties:
    age     : [Subscribers -> 0 .. AgeCap],  \* ticks since the last reset
    slowest : 0 .. Timeout, \* largest age of an entry since everyone had reset
    joined  : 0 .. MaxJoins, \* subscriptions since everyone had reset
    quiet   : 0 .. AgeCap,  \* ticks since an alarm or the start of the timer
    stopped : BOOLEAN]      \* stopped by a call of esp_task_wdt_stop

NoMgr == [pc |-> "idle", next |-> "idle", left |-> {}, mask |-> {}]

Init ==
    /\ up = FALSE
    /\ idleMask = {}
    /\ wdt = [entries |-> {}, reset |-> {}, waiting |-> FALSE,
              enabled |-> FALSE, count |-> 0,
              age |-> [e \in Subscribers |-> 0], slowest |-> 0, joined |-> 0,
              quiet |-> 0, stopped |-> FALSE]
    /\ irq = FALSE
    /\ call = [e \in Subscribers |-> "none"]
    /\ mgr = NoMgr

-----------------------------------------------------------------------------
Grow(n, cap) == IF n < cap THEN n + 1 ELSE n

\* Mutant: the flags are cleared, the timer is not fed.
FedFlagsOnly(w) == [w EXCEPT !.reset = {}, !.slowest = 0, !.joined = 0]

\* task_wdt_timer_feed: everyone has reset, a new round begins.
Fed(w) == [w EXCEPT !.count = 0, !.reset = {}, !.slowest = 0, !.joined = 0]

\* esp_task_wdt_impl_timer_restart and esp_task_wdt_impl_timer_stop.
Started(w) == [w EXCEPT !.enabled = TRUE, !.count = 0, !.quiet = 0,
                        !.stopped = FALSE]
Halted(w)  == [w EXCEPT !.enabled = FALSE]

\* Mutant: it is enough that somebody has.
AllResetAny(w, e) == w.entries \ {e} = {} \/ w.reset # {}

\* Every entry but e has reset.
AllReset(w, e) == w.entries \ {e} \subseteq w.reset

\* Mutant: the first subscriber does not start the timer.
AddedUnstarted(w, e) ==
    LET new  == [w EXCEPT !.entries = @ \cup {e}, !.age[e] = 0,
                          !.joined = Grow(@, MaxJoins),
                          !.waiting = FALSE]
    IN  IF AllReset(w, e) THEN Fed(new) ELSE new

\* add_entry in its critical section, for an e that is not subscribed.
Added(w, e) ==
    LET new  == [w EXCEPT !.entries = @ \cup {e}, !.age[e] = 0,
                          !.joined = Grow(@, MaxJoins)]
        runs == IF w.waiting THEN [Started(new) EXCEPT !.waiting = FALSE]
                             ELSE new
    IN  IF AllReset(w, e) THEN Fed(runs) ELSE runs

\* Mutant: nobody looks whether the deleted entry was the last to reset.
DeletedUnfed(w, e) ==
    LET less == [w EXCEPT !.entries = @ \ {e}, !.reset = @ \ {e}, !.age[e] = 0,
                          !.waiting = (w.entries = {e})]
    IN  IF less.waiting THEN Halted(less) ELSE less

\* delete_entry in its critical section, for an e that is subscribed.
Deleted(w, e) ==
    LET less == [w EXCEPT !.entries = @ \ {e}, !.reset = @ \ {e}, !.age[e] = 0,
                          !.waiting = (w.entries = {e})]
    IN  IF less.waiting THEN Halted(less)
        ELSE IF AllReset(w, e) THEN Fed(less) ELSE less

\* The entry e has reset.
Marked(w, e) ==
    LET done == [w EXCEPT !.reset = @ \cup {e}, !.age[e] = 0]
    IN  IF AllReset(w, e) THEN Fed(done) ELSE done

-----------------------------------------------------------------------------
\* The spinlock is free between the steps, but for those of reconfigure.
Locked  == mgr.pc # "idle" /\ mgr.next = "reconfigured"
Overlap == "overlap" \in Liberties

\* The checks of a call before its critical section.  Idle tasks call reset
\* only, from the hook that is registered while they are subscribed.
Enter(e, op) ==
    /\ call[e] = "none"
    /\ Cardinality({f \in Subscribers : call[f] # "none"}) < MaxCalls
    /\ up
    /\ mgr.pc = "idle" \/ Locked \/ Overlap
    /\ e \in Idle => op = "reset" /\ e \in wdt.entries
    /\ call' = [call EXCEPT ![e] = op]
    /\ UNCHANGED <<up, idleMask, wdt, irq, mgr>>

Leave(e, op) ==
    /\ call[e] = op
    /\ ~Locked
    /\ call' = [call EXCEPT ![e] = "none"]
    /\ UNCHANGED <<up, idleMask, irq, mgr>>

\* esp_task_wdt_add and esp_task_wdt_add_user.
Add(e) ==
    /\ Leave(e, "add")
    /\ wdt' = IF up /\ e \notin wdt.entries THEN Added(wdt, e) ELSE wdt

\* esp_task_wdt_delete and esp_task_wdt_delete_user.
Delete(e) ==
    /\ Leave(e, "delete")
    /\ wdt' = IF up /\ e \in wdt.entries THEN Deleted(wdt, e) ELSE wdt

\* esp_task_wdt_reset and esp_task_wdt_reset_user.  They do not look at
\* p_twdt_obj again before they dereference it: without up the step is not
\* the code's any more.
Reset(e) ==
    /\ Leave(e, "reset")
    /\ up
    /\ wdt' = IF e \in wdt.entries THEN Marked(wdt, e) ELSE wdt

-----------------------------------------------------------------------------
\* esp_task_wdt_stop and esp_task_wdt_restart.
Stop ==
    /\ up /\ mgr.pc = "idle"
    /\ wdt' = [Halted(wdt) EXCEPT !.stopped = TRUE]
    /\ UNCHANGED <<up, idleMask, irq, call, mgr>>

Restart ==
    /\ up /\ mgr.pc = "idle"
    /\ wdt' = Started(wdt)
    /\ UNCHANGED <<up, idleMask, irq, call, mgr>>

NoCalls == \A e \in Subscribers : call[e] = "none"
Manage(pc, next, left, mask) ==
    mgr' = [pc |-> pc, next |-> next, left |-> left, mask |-> mask]

\* esp_task_wdt_init up to the assignment of p_twdt_obj: from here on others
\* see a fresh object.
InitBegin(mask) ==
    /\ ~up /\ mgr.pc = "idle"
    /\ up' = TRUE
    /\ idleMask' = mask
    /\ wdt' = [wdt EXCEPT !.entries = {}, !.reset = {}, !.waiting = FALSE,
                          !.enabled = FALSE, !.stopped = FALSE,
                          !.slowest = 0, !.joined = 0]
    /\ Manage("subscribe", "initCheck", mask, mask)
    /\ UNCHANGED <<irq, call>>

\* The last decision of esp_task_wdt_init, on a list read without the spinlock.
InitCheck ==
    /\ mgr.pc = "initCheck"
    /\ Manage(IF wdt.entries = {} THEN "initWait" ELSE "initStart", "idle",
              {}, {})
    /\ UNCHANGED <<up, idleMask, wdt, irq, call>>

InitStart ==
    /\ mgr.pc = "initStart"
    /\ wdt' = [Started(wdt) EXCEPT !.waiting = FALSE]
    /\ mgr' = NoMgr
    /\ UNCHANGED <<up, idleMask, irq, call>>

InitWait ==
    /\ mgr.pc = "initWait"
    /\ wdt' = [wdt EXCEPT !.waiting = TRUE]
    /\ mgr' = NoMgr
    /\ UNCHANGED <<up, idleMask, irq, call>>

\* One iteration of subscribe_idle, its hook included, or the end of the loop.
SubscribeIdle ==
    /\ mgr.pc = "subscribe"
    /\ \/ \E e \in mgr.left :
            /\ wdt' = Added(wdt, e)
            /\ mgr' = [mgr EXCEPT !.left = @ \ {e}]
       \/ /\ mgr.left = {}
          /\ mgr' = [mgr EXCEPT !.pc = mgr.next]
          /\ wdt' = wdt
    /\ UNCHANGED <<up, idleMask, irq, call>>

\* One iteration of unsubscribe_idle, or its end; reconfigure goes on with
\* subscribe_idle.
UnsubscribeIdle ==
    /\ mgr.pc = "unsubscribe"
    /\ \/ \E e \in mgr.left :
            /\ wdt' = Deleted(wdt, e)
            /\ mgr' = [mgr EXCEPT !.left = @ \ {e}]
       \/ /\ mgr.left = {}
          /\ mgr' = IF mgr.next = "reconfigured"
                    THEN [mgr EXCEPT !.pc = "subscribe", !.left = mgr.mask]
                    ELSE [mgr EXCEPT !.pc = mgr.next]
          /\ wdt' = wdt
    /\ UNCHANGED <<up, idleMask, irq, call>>

\* esp_task_wdt_reconfigure takes the spinlock ...
ReconfigureBegin(mask) ==
    /\ up /\ mgr.pc = "idle"
    /\ wdt' = Halted(wdt)
    /\ idleMask' = mask
    /\ IF mask # idleMask
       THEN Manage("unsubscribe", "reconfigured", idleMask, mask)
       ELSE Manage("reconfigured", "reconfigured", {}, mask)
    /\ UNCHANGED <<up, irq, call>>

\* ... and releases it.
ReconfigureEnd ==
    /\ mgr.pc = "reconfigured"
    /\ wdt' = IF wdt.entries # {} THEN Started(wdt) ELSE wdt
    /\ mgr' = NoMgr
    /\ UNCHANGED <<up, idleMask, irq, call>>

\* esp_task_wdt_deinit.
DeinitBegin ==
    /\ up /\ mgr.pc = "idle"
    /\ NoCalls \/ Overlap
    /\ Manage("unsubscribe", "deinitCheck", idleMask, {})
    /\ UNCHANGED <<up, idleMask, wdt, irq, call>>

\* The list is empty, or the idle tasks are subscribed again.
DeinitCheck ==
    /\ mgr.pc = "deinitCheck"
    /\ IF wdt.entries = {} THEN Manage("deinitFree", "idle", {}, {})
                           ELSE Manage("subscribe", "idle", idleMask, {})
    /\ UNCHANGED <<up, idleMask, wdt, irq, call>>

\* The timer and the object are freed, whatever is on the list by now.
DeinitFree ==
    /\ mgr.pc = "deinitFree"
    /\ up' = FALSE
    /\ wdt' = Halted(wdt)
    /\ irq' = FALSE
    /\ mgr' = NoMgr
    /\ UNCHANGED <<idleMask, call>>

-----------------------------------------------------------------------------
\* n is the largest age so far in the round, cut off at Timeout.
Slowest(n, age) ==
    /\ n >= wdt.slowest
    /\ n = wdt.slowest \/ \E e \in Subscribers : age[e] >= n
    /\ n = Timeout \/ \A e \in Subscribers : age[e] <= n

\* The hardware timer counts and expires.
Tick ==
    /\ ~irq /\ ~Locked
    /\ wdt.enabled
    /\ LET age == [e \in Subscribers |->
                      IF e \in wdt.entries THEN Grow(wdt.age[e], AgeCap) ELSE 0]
       IN \E n \in 0 .. Timeout :
              /\ Slowest(n, age)
              /\ wdt' = [wdt EXCEPT !.count = @ + 1,
                                    !.age = age,
                                    !.slowest = n,
                                    !.quiet = Grow(@, AgeCap)]
    /\ irq' = (wdt'.count = Timeout)
    /\ UNCHANGED <<up, idleMask, call, mgr>>

\* Those task_wdt_isr reports.
Late == wdt.entries \ wdt.reset

\* Mutant: the interrupt is acknowledged, the timer is not fed.
IsrUnfed ==
    /\ irq /\ ~Locked
    /\ irq' = FALSE
    /\ wdt' = [wdt EXCEPT !.quiet = IF wdt.entries = {} THEN @ ELSE 0]
    /\ UNCHANGED <<up, idleMask, call, mgr>>

\* task_wdt_isr: esp_task_wdt_impl_timeout_triggered feeds the timer and
\* acknowledges the interrupt; the flags stay.
Isr ==
    /\ irq /\ ~Locked
    /\ irq' = FALSE
    /\ wdt' = [wdt EXCEPT !.count = 0,
                          !.quiet = IF wdt.entries = {} THEN @ ELSE 0]
    /\ UNCHANGED <<up, idleMask, call, mgr>>

Manager ==
    \/ \E mask \in SUBSET Idle : InitBegin(mask) \/ ReconfigureBegin(mask)
    \/ InitCheck \/ InitStart \/ InitWait
    \/ SubscribeIdle \/ UnsubscribeIdle \/ ReconfigureEnd
    \/ DeinitBegin \/ DeinitCheck \/ DeinitFree
    \/ Stop \/ Restart

Next ==
    \/ \E e \in Subscribers :
          \/ \E op \in {"add", "reset", "delete"} : Enter(e, op)
          \/ Add(e) \/ Reset(e) \/ Delete(e)
    \/ Manager
    \/ Tick
    \/ Isr

Spec == Init /\ [][Next]_vars

-----------------------------------------------------------------------------
PCs == {"idle", "subscribe", "unsubscribe", "initCheck", "initStart",
        "initWait", "reconfigured", "deinitCheck", "deinitFree"}

TypeOK ==
    /\ up \in BOOLEAN /\ irq \in BOOLEAN
    /\ idleMask \subseteq Idle
    /\ wdt \in Watchdog
    /\ wdt.reset \subseteq wdt.entries
    /\ call \in [Subscribers -> {"none", "add", "reset", "delete"}]
    /\ mgr \in [pc : PCs, next : PCs, left : SUBSET Idle, mask : SUBSET Idle]

\* assert(cpus_fail != 0) in task_wdt_isr: whenever the interrupt may be taken
\* and somebody is subscribed, somebody has not reset.  Between two calls the
\* round is never complete.
SomebodyLate == wdt.entries # {} => Late # {}

\* What the watchdog is for: a subscriber that has not reset for two timeouts
\* does not go unnoticed, an alarm has been raised within that time.  One
\* timeout is not enough: the reset may have come early in the round before.
NoSilentHang ==
    wdt.enabled => \A e \in wdt.entries :
        wdt.age[e] > 2 * Timeout => wdt.quiet <= 2 * Timeout

\* The other direction: no alarm without somebody slow.  A round lasts no
\* longer than the slowest subscriber takes between two resets, and once more
\* for every subscription that happens during the round.
NoFalseAlarm ==
    wdt.entries # {} /\ wdt.joined < MaxJoins => wdt.count <= wdt.slowest * (1 + wdt.joined)

\* Nobody is subscribed to a watchdog that does not run, unless
\* esp_task_wdt_stop was called; none of the calls of init, deinit and
\* reconfigure may end with such a subscriber.
NobodyUnwatched ==
    mgr.pc = "idle" /\ wdt.entries # {} => up /\ (wdt.enabled \/ wdt.stopped)
=============================================================================
