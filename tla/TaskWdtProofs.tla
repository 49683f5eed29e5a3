---------------------------- MODULE TaskWdtProofs ----------------------------
(***************************************************************************)
(* Proofs about TaskWdt, for any number of subscribers and any Timeout:    *)
(* what the alarm promises, also where calls overlap with init and deinit, *)
(* and who is watched, where they do not.                                  *)
(***************************************************************************)
EXTENDS TaskWdt, TLAPS

\* What every step keeps of the list and of the round of resets: flags belong
\* to entries, and somebody has not reset.
Round(w) == /\ w.reset \subseteq w.entries
            /\ w.entries # {} => w.entries \ w.reset # {}

\* The promise of the alarm, step by step.  Whoever has reset in this round is
\* no older than the round, whoever has not is no older than the round and the
\* one before it, unless the timer was started or an alarm raised since then.
Heard(w) == \A e \in w.entries :
    /\ e \in w.reset => w.age[e] <= w.count \/ w.quiet <= w.count
    /\ \/ w.age[e] <= Timeout + w.count
       \/ w.quiet <= Timeout + w.count

Good(w) == w \in Watchdog /\ Round(w) /\ Heard(w)

LEMMA Constants ==
    /\ Timeout \in Nat /\ Timeout >= 1
    /\ MaxJoins \in Nat
    /\ AgeCap \in Nat /\ AgeCap = 2 * Timeout + 1
BY TaskWdtAssumption DEF AgeCap

LEMMA Zeros == 0 \in 0 .. Timeout /\ 0 \in 0 .. MaxJoins /\ 0 \in 0 .. AgeCap
BY Constants

\* What a field of a watchdog may hold.
LEMMA Fields ==
    ASSUME NEW w \in Watchdog
    PROVE  /\ w.entries \subseteq Subscribers
           /\ w.reset \subseteq Subscribers
           /\ w.waiting \in BOOLEAN
           /\ w.enabled \in BOOLEAN
           /\ w.count \in 0 .. Timeout
           /\ w.age \in [Subscribers -> 0 .. AgeCap]
           /\ w.slowest \in 0 .. Timeout
           /\ w.joined \in 0 .. MaxJoins
           /\ w.quiet \in 0 .. AgeCap
           /\ w.stopped \in BOOLEAN
BY DEF Watchdog

LEMMA GrowType ==
    ASSUME NEW cap \in Nat, NEW n \in 0 .. cap
    PROVE  Grow(n, cap) \in 0 .. cap
BY DEF Grow

\* A fed watchdog: the round starts over.
LEMMA FedGood ==
    ASSUME NEW w \in Watchdog,
           \A e \in w.entries : \/ w.age[e] = 0
                                \/ w.age[e] <= w.count
                                \/ w.quiet <= w.count
    PROVE  Good(Fed(w))
<1> DEFINE f == Fed(w)
<1>1. f \in Watchdog
  BY Zeros DEF Fed, Watchdog
<1>2. /\ f.entries = w.entries /\ f.reset = {} /\ f.count = 0
      /\ f.age = w.age /\ f.quiet = w.quiet
  BY DEF Fed, Watchdog
<1>3. Round(f)
  BY <1>2 DEF Round
<1>4. Heard(f)
  BY <1>2, Fields, Constants DEF Heard
<1> QED BY <1>1, <1>3, <1>4 DEF Good

\* Starting the timer forgives everybody.
LEMMA StartedGood ==
    ASSUME NEW w \in Watchdog, Round(w)
    PROVE  Good(Started(w))
<1> DEFINE f == Started(w)
<1>1. f \in Watchdog
  BY Zeros DEF Started, Watchdog
<1>2. /\ f.entries = w.entries /\ f.reset = w.reset /\ f.count = 0
      /\ f.age = w.age /\ f.quiet = 0
  BY DEF Started, Watchdog
<1>3. Round(f)
  BY <1>2 DEF Round
<1>4. Heard(f)
  BY <1>2, Fields, Constants DEF Heard
<1> QED BY <1>1, <1>3, <1>4 DEF Good

LEMMA HaltedGood ==
    ASSUME NEW w, Good(w)
    PROVE  Good(Halted(w))
<1> DEFINE f == Halted(w)
<1>1. f \in Watchdog
  BY DEF Good, Halted, Watchdog
<1>2. /\ f.entries = w.entries /\ f.reset = w.reset /\ f.count = w.count
      /\ f.age = w.age /\ f.quiet = w.quiet
  BY DEF Good, Halted, Watchdog
<1> QED BY <1>1, <1>2 DEF Good, Round, Heard

\* Whether the hardware timer is waiting for an entry says nothing of a round.
LEMMA WaitingGood ==
    ASSUME NEW w \in Watchdog, NEW b \in BOOLEAN, Good(w)
    PROVE  Good([w EXCEPT !.waiting = b])
<1> DEFINE f == [w EXCEPT !.waiting = b]
<1>1. f \in Watchdog
  BY DEF Watchdog
<1>2. /\ f.entries = w.entries /\ f.reset = w.reset /\ f.count = w.count
      /\ f.age = w.age /\ f.quiet = w.quiet
  BY DEF Watchdog
<1> QED BY <1>1, <1>2 DEF Good, Round, Heard

LEMMA AddedGood ==
    ASSUME NEW w, Good(w), NEW e \in Subscribers
    PROVE  Good(Added(w, e))
<1> DEFINE new  == [w EXCEPT !.entries = @ \cup {e}, !.age[e] = 0,
                             !.joined = Grow(@, MaxJoins)]
           runs == IF w.waiting THEN [Started(new) EXCEPT !.waiting = FALSE]
                                ELSE new
<1>0. w \in Watchdog /\ Round(w) /\ Heard(w)
  BY DEF Good
<1>1. Grow(w.joined, MaxJoins) \in 0 .. MaxJoins
  BY <1>0, Fields, GrowType, Constants
<1>2. [w.age EXCEPT ![e] = 0] \in [Subscribers -> 0 .. AgeCap]
  BY <1>0, Fields, Zeros
<1>3. new \in Watchdog
  BY <1>0, <1>1, <1>2 DEF Watchdog
<1>4. /\ new.entries = w.entries \cup {e} /\ new.reset = w.reset
      /\ new.count = w.count /\ new.quiet = w.quiet
      /\ new.age = [w.age EXCEPT ![e] = 0]
  BY <1>0 DEF Watchdog
<1>5. \A f \in Subscribers : new.age[f] = IF f = e THEN 0 ELSE w.age[f]
  BY <1>0, <1>4, Fields
<1>6. Added(w, e) = IF AllReset(w, e) THEN Fed(runs) ELSE runs
  BY DEF Added
<1>7. /\ runs \in Watchdog
      /\ runs.entries = new.entries /\ runs.age = new.age
      /\ w.waiting => runs.quiet = 0
      /\ ~w.waiting => runs = new
  BY <1>3, Zeros DEF Started, Watchdog
<1> HIDE DEF new, runs
<1>8. CASE AllReset(w, e)
  <2>1. \A f \in new.entries : \/ runs.age[f] = 0
                               \/ runs.age[f] <= runs.count
                               \/ runs.quiet <= runs.count
    <3> SUFFICES ASSUME NEW f \in new.entries
                 PROVE  \/ runs.age[f] = 0 \/ runs.age[f] <= runs.count
                        \/ runs.quiet <= runs.count
      OBVIOUS
    <3>1. CASE f = e
      BY <3>1, <1>4, <1>5, <1>7
    <3>2. CASE w.waiting
      <4>1. runs.quiet = 0 /\ runs.count \in 0 .. Timeout
        BY <3>2, <1>7, Fields
      <4> QED BY <4>1, Constants
    <3>3. CASE f # e /\ ~w.waiting
      <4>1. f \in w.entries /\ f \in w.reset /\ f \in Subscribers
        BY <3>3, <1>0, <1>4, <1>8, Fields DEF AllReset
      <4> QED BY <4>1, <3>3, <1>0, <1>4, <1>5, <1>7 DEF Heard
    <3> QED BY <3>1, <3>2, <3>3
  <2>2. Good(Fed(runs))
    BY <2>1, <1>7, FedGood
  <2> QED BY <2>2, <1>6, <1>8
<1>9. CASE ~AllReset(w, e)
  <2>1. Round(new)
    BY <1>0, <1>4, <1>9 DEF Round, AllReset
  <2>2. CASE w.waiting
    <3>1. Good(Started(new))
      BY <1>3, <2>1, StartedGood
    <3>2. Good([Started(new) EXCEPT !.waiting = FALSE])
      BY <3>1, WaitingGood DEF Good
    <3>3. runs = [Started(new) EXCEPT !.waiting = FALSE]
      BY <2>2 DEF runs
    <3> QED BY <3>2, <3>3, <1>6, <1>9
  <2>3. CASE ~w.waiting
    <3>1. Heard(new)
      BY <1>0, <1>4, <1>5, Fields, Constants DEF Heard
    <3>2. Good(new)
      BY <1>3, <2>1, <3>1 DEF Good
    <3> QED BY <3>2, <2>3, <1>6, <1>7, <1>9
  <2> QED BY <2>2, <2>3
<1> QED BY <1>8, <1>9

LEMMA DeletedGood ==
    ASSUME NEW w, Good(w), NEW e \in Subscribers
    PROVE  Good(Deleted(w, e))
<1> DEFINE less == [w EXCEPT !.entries = @ \ {e}, !.reset = @ \ {e},
                             !.age[e] = 0, !.waiting = (w.entries = {e})]
<1>0. w \in Watchdog /\ Round(w) /\ Heard(w)
  BY DEF Good
<1>1. [w.age EXCEPT ![e] = 0] \in [Subscribers -> 0 .. AgeCap]
  BY <1>0, Fields, Zeros
<1>2. less \in Watchdog
  BY <1>0, <1>1 DEF Watchdog
<1>3. /\ less.entries = w.entries \ {e} /\ less.reset = w.reset \ {e}
      /\ less.count = w.count /\ less.quiet = w.quiet
      /\ less.age = [w.age EXCEPT ![e] = 0]
      /\ less.waiting <=> w.entries = {e}
  BY <1>0 DEF Watchdog
<1>4. \A f \in less.entries : f \in Subscribers /\ less.age[f] = w.age[f]
  BY <1>0, <1>3, Fields
<1>5. Heard(less)
  BY <1>0, <1>3, <1>4 DEF Heard
<1>6. Deleted(w, e) = IF less.waiting THEN Halted(less)
                      ELSE IF AllReset(w, e) THEN Fed(less) ELSE less
  BY DEF Deleted
<1> HIDE DEF less
<1>7. CASE less.waiting
  <2>1. Round(less)
    BY <1>7, <1>0, <1>3 DEF Round
  <2> QED BY <2>1, <1>2, <1>5, <1>6, <1>7, HaltedGood DEF Good
<1>8. CASE ~less.waiting /\ AllReset(w, e)
  <2>1. \A f \in less.entries : less.age[f] <= less.count
                                \/ less.quiet <= less.count
    BY <1>8, <1>0, <1>3, <1>4 DEF Heard, AllReset
  <2> QED BY <2>1, <1>2, <1>6, <1>8, FedGood
<1>9. CASE ~less.waiting /\ ~AllReset(w, e)
  <2>1. Round(less)
    BY <1>9, <1>0, <1>3 DEF Round, AllReset
  <2> QED BY <2>1, <1>2, <1>5, <1>6, <1>9 DEF Good
<1> QED BY <1>7, <1>8, <1>9

LEMMA MarkedGood ==
    ASSUME NEW w, Good(w), NEW e \in w.entries
    PROVE  Good(Marked(w, e))
<1> DEFINE done == [w EXCEPT !.reset = @ \cup {e}, !.age[e] = 0]
<1>0. w \in Watchdog /\ Round(w) /\ Heard(w) /\ e \in Subscribers
  BY Fields DEF Good
<1>1. [w.age EXCEPT ![e] = 0] \in [Subscribers -> 0 .. AgeCap]
  BY <1>0, Fields, Zeros
<1>2. done \in Watchdog
  BY <1>0, <1>1 DEF Watchdog
<1>3. /\ done.entries = w.entries /\ done.reset = w.reset \cup {e}
      /\ done.count = w.count /\ done.quiet = w.quiet
      /\ done.age = [w.age EXCEPT ![e] = 0]
  BY <1>0 DEF Watchdog
<1>4. \A f \in Subscribers : done.age[f] = IF f = e THEN 0 ELSE w.age[f]
  BY <1>0, <1>3, Fields
<1>5. Marked(w, e) = IF AllReset(w, e) THEN Fed(done) ELSE done
  BY DEF Marked
<1> HIDE DEF done
<1>6. CASE AllReset(w, e)
  <2>1. \A f \in done.entries : \/ done.age[f] = 0
                                \/ done.age[f] <= done.count
                                \/ done.quiet <= done.count
    BY <1>6, <1>0, <1>3, <1>4, Fields DEF Heard, AllReset
  <2> QED BY <2>1, <1>2, <1>5, <1>6, FedGood
<1>7. CASE ~AllReset(w, e)
  <2>1. Round(done)
    BY <1>7, <1>0, <1>3 DEF Round, AllReset
  <2>2. Heard(done)
    BY <1>0, <1>3, <1>4, Fields, Constants DEF Heard
  <2> QED BY <2>1, <2>2, <1>2, <1>5, <1>7 DEF Good
<1> QED BY <1>6, <1>7

-----------------------------------------------------------------------------
\* A timer that has counted to the end has its interrupt pending; a step that
\* leaves the interrupt alone does not bring the count there.
Expired(w) == w.enabled /\ w.count = Timeout

LEMMA StartedCalm == ASSUME NEW w \in Watchdog PROVE ~Expired(Started(w))
BY Constants DEF Started, Expired, Watchdog

LEMMA HaltedCalm == ASSUME NEW w \in Watchdog PROVE ~Expired(Halted(w))
BY DEF Halted, Expired, Watchdog

LEMMA FedCalm == ASSUME NEW w \in Watchdog PROVE ~Expired(Fed(w))
BY Constants DEF Fed, Expired, Watchdog

LEMMA AddedCalm ==
    ASSUME NEW w \in Watchdog, NEW e \in Subscribers, Expired(Added(w, e))
    PROVE  Expired(w)
<1> DEFINE new  == [w EXCEPT !.entries = @ \cup {e}, !.age[e] = 0,
                             !.joined = Grow(@, MaxJoins)]
           runs == IF w.waiting THEN [Started(new) EXCEPT !.waiting = FALSE]
                                ELSE new
<1>1. Added(w, e) = IF AllReset(w, e) THEN Fed(runs) ELSE runs
  BY DEF Added
<1>2. new.count = w.count /\ new.enabled = w.enabled
  BY DEF Watchdog
<1>3. Started(new).count = 0
  BY DEF Started, Watchdog
<1>4. Fed(runs).count = 0
  BY DEF Fed, Started, Watchdog
<1>5. w.waiting => runs.count = 0
  BY DEF Started, Watchdog
<1> QED BY <1>1, <1>2, <1>4, <1>5, Constants DEF Expired

LEMMA DeletedCalm ==
    ASSUME NEW w \in Watchdog, NEW e \in Subscribers, Expired(Deleted(w, e))
    PROVE  Expired(w)
<1> DEFINE less == [w EXCEPT !.entries = @ \ {e}, !.reset = @ \ {e},
                             !.age[e] = 0, !.waiting = (w.entries = {e})]
<1>1. Deleted(w, e) = IF less.waiting THEN Halted(less)
                      ELSE IF AllReset(w, e) THEN Fed(less) ELSE less
  BY DEF Deleted
<1>2. /\ less.count = w.count /\ less.enabled = w.enabled
      /\ Fed(less).count = 0 /\ Halted(less).enabled = FALSE
  BY DEF Watchdog, Fed, Halted
<1> HIDE DEF less
<1> QED BY <1>1, <1>2, Constants DEF Expired

LEMMA MarkedCalm ==
    ASSUME NEW w \in Watchdog, NEW e \in Subscribers, Expired(Marked(w, e))
    PROVE  Expired(w)
<1> DEFINE done == [w EXCEPT !.reset = @ \cup {e}, !.age[e] = 0]
<1>1. Marked(w, e) = IF AllReset(w, e) THEN Fed(done) ELSE done
  BY DEF Marked
<1>2. /\ done.count = w.count /\ done.enabled = w.enabled
      /\ Fed(done).count = 0
  BY DEF Watchdog, Fed
<1> HIDE DEF done
<1> QED BY <1>1, <1>2, Constants DEF Expired

-----------------------------------------------------------------------------
\* The inductive invariant.
Control ==
    /\ up \in BOOLEAN /\ irq \in BOOLEAN
    /\ idleMask \subseteq Idle
    /\ call \in [Subscribers -> {"none", "add", "reset", "delete"}]
    /\ mgr \in [pc : PCs, next : PCs, left : SUBSET Idle, mask : SUBSET Idle]

Inv == Control /\ Good(wdt) /\ (Expired(wdt) => irq)

LEMMA InvInit == Init => Inv
<1> SUFFICES ASSUME Init PROVE Inv
  OBVIOUS
<1>1. Control
  BY DEF Init, Control, NoMgr, PCs
<1>2. wdt \in Watchdog
  BY Zeros DEF Init, Watchdog
<1>3. wdt.entries = {} /\ wdt.reset = {} /\ ~wdt.enabled
  BY DEF Init
<1> QED BY <1>1, <1>2, <1>3 DEF Inv, Good, Round, Heard, Expired

\* The calls of a subscriber.
LEMMA CallsKeep ==
    ASSUME Inv, NEW e \in Subscribers,
           \/ \E op \in {"add", "reset", "delete"} : Enter(e, op)
           \/ Add(e) \/ Reset(e) \/ Delete(e)
    PROVE  Inv'
<1> USE DEF Inv
<1>0. wdt \in Watchdog
  BY DEF Good
<1>1. Control'
  BY DEF Control, Enter, Add, Reset, Delete, Leave
<1>2. irq' = irq
  BY DEF Enter, Add, Reset, Delete, Leave
<1>3. \/ wdt' = wdt \/ wdt' = Added(wdt, e) \/ wdt' = Deleted(wdt, e)
      \/ wdt' = Marked(wdt, e) /\ e \in wdt.entries
  BY DEF Enter, Add, Reset, Delete
<1>4. Good(wdt')
  BY <1>3, AddedGood, DeletedGood, MarkedGood
<1>5. Expired(wdt') => Expired(wdt)
  BY <1>0, <1>3, AddedCalm, DeletedCalm, MarkedCalm
<1> QED BY <1>1, <1>2, <1>4, <1>5 DEF Good, Round, Heard, Expired

\* init, deinit, reconfigure, stop and restart.
LEMMA ManagerKeeps == ASSUME Inv, Manager PROVE Inv'
<1> USE DEF Inv
<1>0. wdt \in Watchdog /\ Round(wdt)
  BY DEF Good
<1>1. Control'
  <2> USE DEF Control, Manage, PCs
  <2>1. ASSUME NEW mask \in SUBSET Idle, InitBegin(mask) PROVE Control'
    BY <2>1 DEF InitBegin
  <2>2. ASSUME NEW mask \in SUBSET Idle, ReconfigureBegin(mask) PROVE Control'
    BY <2>2 DEF ReconfigureBegin
  <2>3. CASE InitCheck
    BY <2>3 DEF InitCheck
  <2>4. CASE InitStart \/ InitWait \/ ReconfigureEnd \/ DeinitFree
    <3>1. /\ up' \in BOOLEAN /\ irq' \in BOOLEAN
          /\ idleMask' = idleMask /\ call' = call /\ mgr' = NoMgr
      BY <2>4 DEF InitStart, InitWait, ReconfigureEnd, DeinitFree
    <3> QED BY <3>1 DEF NoMgr
  <2>5. CASE SubscribeIdle
    BY <2>5 DEF SubscribeIdle
  <2>6. CASE UnsubscribeIdle
    <3>1. UNCHANGED <<up, idleMask, irq, call>>
      BY <2>6 DEF UnsubscribeIdle
    <3>2. \/ \E e \in mgr.left : mgr' = [mgr EXCEPT !.left = @ \ {e}]
          \/ mgr' = [mgr EXCEPT !.pc = "subscribe", !.left = mgr.mask]
          \/ mgr' = [mgr EXCEPT !.pc = mgr.next]
      BY <2>6 DEF UnsubscribeIdle
    <3>3. mgr' \in [pc : PCs, next : PCs, left : SUBSET Idle,
                    mask : SUBSET Idle]
      BY <3>2
    <3> QED BY <3>1, <3>3
  <2>7. CASE DeinitBegin \/ DeinitCheck
    BY <2>7 DEF DeinitBegin, DeinitCheck
  <2>8. CASE Stop \/ Restart
    BY <2>8 DEF Stop, Restart
  <2> QED BY <2>1, <2>2, <2>3, <2>4, <2>5, <2>6, <2>7, <2>8 DEF Manager
<1>2. Good(wdt') /\ (Expired(wdt') => irq')
  <2>1. ASSUME NEW mask \in SUBSET Idle, InitBegin(mask)
        PROVE  Good(wdt') /\ (Expired(wdt') => irq')
    <3>1. wdt' \in Watchdog
      BY <2>1, <1>0, Zeros DEF InitBegin, Watchdog
    <3>2. wdt'.entries = {} /\ wdt'.reset = {} /\ ~wdt'.enabled
      BY <2>1, <1>0 DEF InitBegin, Watchdog
    <3> QED BY <3>1, <3>2 DEF Good, Round, Heard, Expired
  <2>2. ASSUME NEW mask \in SUBSET Idle, ReconfigureBegin(mask)
        PROVE  Good(wdt') /\ (Expired(wdt') => irq')
    <3>1. wdt' = Halted(wdt)
      BY <2>2 DEF ReconfigureBegin
    <3> QED BY <3>1, <1>0, HaltedGood, HaltedCalm
  <2>3. CASE wdt' = wdt /\ irq' = irq
    BY <2>3
  <2>4. CASE InitStart
    <3>1. Good([Started(wdt) EXCEPT !.waiting = FALSE])
      BY <1>0, StartedGood, WaitingGood DEF Good
    <3>2. ~Expired([Started(wdt) EXCEPT !.waiting = FALSE])
      BY <1>0, Constants DEF Started, Watchdog, Expired
    <3> QED BY <2>4, <3>1, <3>2 DEF InitStart
  <2>5. CASE InitWait
    <3>1. Good([wdt EXCEPT !.waiting = TRUE])
      BY <1>0, WaitingGood
    <3>2. Expired([wdt EXCEPT !.waiting = TRUE]) => Expired(wdt)
      BY <1>0 DEF Watchdog, Expired
    <3> QED BY <2>5, <3>1, <3>2 DEF InitWait
  <2>6. CASE SubscribeIdle
    <3>1. irq' = irq /\ (wdt' = wdt \/ \E e \in Subscribers : wdt' = Added(wdt, e))
      BY <2>6 DEF SubscribeIdle, Control, Subscribers
    <3> QED BY <3>1, <1>0, AddedGood, AddedCalm
  <2>7. CASE UnsubscribeIdle
    <3>1. irq' = irq
          /\ (wdt' = wdt \/ \E e \in Subscribers : wdt' = Deleted(wdt, e))
      BY <2>7 DEF UnsubscribeIdle, Control, Subscribers
    <3> QED BY <3>1, <1>0, DeletedGood, DeletedCalm
  <2>8. CASE ReconfigureEnd \/ Restart
    <3>1. irq' = irq /\ (wdt' = wdt \/ wdt' = Started(wdt))
      BY <2>8 DEF ReconfigureEnd, Restart
    <3> QED BY <3>1, <1>0, StartedGood, StartedCalm
  <2>9. CASE DeinitFree
    <3>1. wdt' = Halted(wdt)
      BY <2>9 DEF DeinitFree
    <3> QED BY <3>1, <1>0, HaltedGood, HaltedCalm
  <2>10. CASE Stop
    <3> DEFINE v == [Halted(wdt) EXCEPT !.stopped = TRUE]
    <3>1. Good(Halted(wdt)) /\ Halted(wdt) \in Watchdog
      BY HaltedGood DEF Good
    <3>2. v \in Watchdog /\ ~v.enabled
      BY <1>0 DEF Halted, Watchdog
    <3>3. /\ v.entries = wdt.entries /\ v.reset = wdt.reset
          /\ v.count = wdt.count /\ v.age = wdt.age /\ v.quiet = wdt.quiet
      BY <1>0 DEF Halted, Watchdog
    <3>4. Good(v) /\ ~Expired(v)
      BY <3>2, <3>3 DEF Good, Round, Heard, Expired
    <3> QED BY <2>10, <3>4 DEF Stop
  <2> QED BY <2>1, <2>2, <2>3, <2>4, <2>5, <2>6, <2>7, <2>8, <2>9, <2>10
          DEF Manager, InitCheck, DeinitBegin, DeinitCheck
<1> QED BY <1>1, <1>2 DEF Good, Round, Heard, Expired

LEMMA TickKeeps == ASSUME Inv, Tick PROVE Inv'
<1> USE DEF Inv
<1>0. wdt \in Watchdog /\ Round(wdt) /\ Heard(wdt)
  BY DEF Good
<1>1. Control'
  BY DEF Tick, Control
<1> DEFINE age == [e \in Subscribers |->
                      IF e \in wdt.entries THEN Grow(wdt.age[e], AgeCap) ELSE 0]
<1>2. PICK n \in 0 .. Timeout :
          wdt' = [wdt EXCEPT !.count = @ + 1, !.age = age, !.slowest = n,
                             !.quiet = Grow(@, AgeCap)]
  BY DEF Tick
<1>3. age \in [Subscribers -> 0 .. AgeCap]
  BY <1>0, Fields, GrowType, Zeros, Constants
<1>4. Grow(wdt.quiet, AgeCap) \in 0 .. AgeCap
  BY <1>0, Fields, GrowType, Constants
<1>5. wdt.count + 1 \in 0 .. Timeout
  BY <1>0, Fields, Constants DEF Tick, Expired
<1>6. wdt' \in Watchdog
  BY <1>0, <1>2, <1>3, <1>4, <1>5 DEF Watchdog
<1>7. /\ wdt'.entries = wdt.entries /\ wdt'.reset = wdt.reset
      /\ wdt'.count = wdt.count + 1 /\ wdt'.age = age
      /\ wdt'.quiet = Grow(wdt.quiet, AgeCap)
  BY <1>0, <1>2 DEF Watchdog
<1>8. \A e \in wdt.entries : age[e] = Grow(wdt.age[e], AgeCap)
  BY <1>0, Fields
<1>9. \A m \in 0 .. AgeCap : Grow(m, AgeCap) <= m + 1
  BY Constants DEF Grow
<1> HIDE DEF age
<1>10. Round(wdt')
  BY <1>0, <1>7 DEF Round
<1>11. Heard(wdt')
  <2> SUFFICES ASSUME NEW e \in wdt.entries
      PROVE /\ e \in wdt.reset => age[e] <= wdt.count + 1
                                  \/ wdt'.quiet <= wdt.count + 1
            /\ \/ age[e] <= Timeout + (wdt.count + 1)
               \/ wdt'.quiet <= Timeout + (wdt.count + 1)
    BY <1>7 DEF Heard
  <2>1. /\ wdt.age[e] \in 0 .. AgeCap /\ wdt.quiet \in 0 .. AgeCap
        /\ wdt.count \in 0 .. Timeout /\ age[e] \in 0 .. AgeCap
        /\ wdt'.quiet \in 0 .. AgeCap
    BY <1>0, <1>3, <1>4, <1>7, Fields
  <2>2. age[e] <= wdt.age[e] + 1 /\ wdt'.quiet <= wdt.quiet + 1
    BY <2>1, <1>7, <1>8, <1>9
  <2>3. /\ e \in wdt.reset => wdt.age[e] <= wdt.count \/ wdt.quiet <= wdt.count
        /\ \/ wdt.age[e] <= Timeout + wdt.count
           \/ wdt.quiet <= Timeout + wdt.count
    BY <1>0 DEF Heard
  <2> QED BY <2>1, <2>2, <2>3, Constants
<1>12. Expired(wdt') => irq'
  BY DEF Tick, Expired
<1> QED BY <1>1, <1>6, <1>10, <1>11, <1>12 DEF Good, Round, Heard, Expired

LEMMA IsrKeeps == ASSUME Inv, Isr PROVE Inv'
<1> USE DEF Inv
<1>0. wdt \in Watchdog /\ Round(wdt) /\ Heard(wdt)
  BY DEF Good
<1>1. Control'
  BY DEF Isr, Control
<1>2. wdt' \in Watchdog
  BY <1>0, Zeros DEF Isr, Watchdog
<1>3. /\ wdt'.entries = wdt.entries /\ wdt'.reset = wdt.reset
      /\ wdt'.count = 0
      /\ wdt.entries # {} => wdt'.quiet = 0
  BY <1>0 DEF Isr, Watchdog
<1>4. Round(wdt')
  BY <1>0, <1>3 DEF Round
<1>5. Heard(wdt')
  BY <1>3, Constants DEF Heard
<1> QED BY <1>1, <1>2, <1>3, <1>4, <1>5, Constants
        DEF Good, Round, Heard, Expired

LEMMA InvNext == Inv /\ [Next]_vars => Inv'
<1> SUFFICES ASSUME Inv, [Next]_vars PROVE Inv'
  OBVIOUS
<1>1. CASE UNCHANGED vars
  BY <1>1 DEF vars, Inv, Control, Good, Round, Heard, Expired
<1>2. CASE Next
  BY <1>2, CallsKeep, ManagerKeeps, TickKeeps, IsrKeeps DEF Next
<1> QED BY <1>1, <1>2

LEMMA Invariance == Spec => []Inv
<1> QED BY InvInit, InvNext, PTL DEF Spec

\* Type correctness.
THEOREM TypeCorrect == Spec => []TypeOK
<1>1. Inv => TypeOK
  BY DEF Inv, Good, Round, Control, TypeOK
<1> QED BY <1>1, Invariance, PTL

\* task_wdt_isr never finds a list on which everybody has reset.
THEOREM SomebodyLateCorrect == Spec => []SomebodyLate
<1>1. Inv => SomebodyLate
  BY DEF Inv, Good, Round, SomebodyLate, Late
<1> QED BY <1>1, Invariance, PTL

\* No subscriber is silent for two timeouts without an alarm.
THEOREM NoSilentHangCorrect == Spec => []NoSilentHang
<1>1. Inv => NoSilentHang
  <2> SUFFICES ASSUME Inv, NEW e \in wdt.entries, wdt.age[e] > 2 * Timeout
               PROVE  wdt.quiet <= 2 * Timeout
    BY DEF NoSilentHang
  <2>1. wdt \in Watchdog /\ Heard(wdt) /\ e \in Subscribers
    BY Fields DEF Inv, Good
  <2>2. /\ wdt.age[e] \in 0 .. AgeCap /\ wdt.quiet \in 0 .. AgeCap
        /\ wdt.count \in 0 .. Timeout
    BY <2>1, Fields
  <2>3. \/ wdt.age[e] <= Timeout + wdt.count
        \/ wdt.quiet <= Timeout + wdt.count
    BY <2>1 DEF Heard
  <2> QED BY <2>2, <2>3, Constants
<1> QED BY <1>1, Invariance, PTL
-----------------------------------------------------------------------------
\* How long a round lasts.  Once the timer has counted, no entry is older than
\* the slowest reset of the round (cut off at Timeout); and whoever has not reset
\* is at least as old as the round, less what the subscriptions since may have
\* added to it.
Slow(w) == \/ w.count = 0 \/ w.slowest = Timeout
           \/ \A e \in w.entries : w.age[e] <= w.slowest

Pace(w) ==
    w.joined < MaxJoins /\ w.slowest < Timeout =>
        \A e \in w.entries \ w.reset :
            w.count <= w.slowest * w.joined + w.age[e]

Paced(w) == Slow(w) /\ Pace(w)


\* The product is not negative, and grows with each factor.
LEMMA Products ==
    ASSUME NEW s \in Nat, NEW j \in Nat, NEW n \in Nat, s <= n
    PROVE  /\ s * j \in Nat
           /\ s * (j + 1) = s * j + s
           /\ s * j <= n * j
<1>1. s * j \in Nat /\ s * (j + 1) = s * j + s
  OBVIOUS
<1>2. PICK d \in Nat : n = s + d
  <2>1. n - s \in Nat /\ n = s + (n - s)
    OBVIOUS
  <2> QED BY <2>1
<1>3. n * j = s * j + d * j /\ d * j \in Nat
  BY <1>2
<1> QED BY <1>1, <1>3

LEMMA ZeroPaced ==
    ASSUME NEW w \in Watchdog, w.count = 0 \/ w.entries = {}
    PROVE  Paced(w)
<1>1. /\ w.slowest \in Nat /\ w.joined \in Nat
      /\ \A e \in w.entries : w.age[e] \in Nat
  BY Fields, Constants
<1>2. w.slowest * w.joined \in Nat
  BY <1>1, Products
<1> QED BY <1>1, <1>2 DEF Paced, Slow, Pace

\* A watchdog whose round and ages are those of another, with fewer entries or
\* more resets.
LEMMA FewerPaced ==
    ASSUME NEW w, NEW v, Paced(w),
           v.entries \subseteq w.entries,
           v.entries \ v.reset \subseteq w.entries \ w.reset,
           v.count = w.count, v.slowest = w.slowest, v.joined = w.joined,
           \A e \in v.entries : v.age[e] = w.age[e]
    PROVE  Paced(v)
BY DEF Paced, Slow, Pace

LEMMA AddedPaced ==
    ASSUME NEW w, Good(w), Paced(w), NEW e \in Subscribers
    PROVE  Paced(Added(w, e))
<1> DEFINE new  == [w EXCEPT !.entries = @ \cup {e}, !.age[e] = 0,
                             !.joined = Grow(@, MaxJoins)]
           runs == IF w.waiting THEN [Started(new) EXCEPT !.waiting = FALSE]
                                ELSE new
<1>0. w \in Watchdog /\ Added(w, e) \in Watchdog
  BY AddedGood DEF Good
<1>1. Added(w, e) = IF AllReset(w, e) THEN Fed(runs) ELSE runs
  BY DEF Added
<1>2. /\ new.entries = w.entries \cup {e} /\ new.reset = w.reset
      /\ new.count = w.count /\ new.slowest = w.slowest
      /\ new.joined = Grow(w.joined, MaxJoins)
      /\ \A f \in Subscribers : new.age[f] = IF f = e THEN 0 ELSE w.age[f]
  BY <1>0 DEF Watchdog
<1>3. CASE AllReset(w, e) \/ w.waiting
  <2>1. Added(w, e).count = 0
    BY <1>0, <1>1, <1>3 DEF Fed, Started, Watchdog
  <2> QED BY <2>1, <1>0, ZeroPaced
<1>4. CASE ~AllReset(w, e) /\ ~w.waiting
  <2>0. Added(w, e) = new
    BY <1>1, <1>4
  <2> HIDE DEF new
  <2>1. /\ w.count \in Nat /\ w.slowest \in Nat /\ w.joined \in 0 .. MaxJoins
        /\ w.joined \in Nat /\ MaxJoins \in Nat
        /\ w.count <= Timeout /\ w.slowest <= Timeout
        /\ w.entries \subseteq Subscribers
        /\ \A f \in Subscribers : w.age[f] \in Nat
    BY <1>0, Fields, Constants
  <2>2. Slow(new)
    BY <1>2, <2>1 DEF Paced, Slow
  <2>3. Pace(new)
    <3> SUFFICES ASSUME new.joined < MaxJoins, w.slowest < Timeout,
                        NEW f \in new.entries \ w.reset
                 PROVE  w.count <= w.slowest * new.joined + new.age[f]
      BY <1>2 DEF Pace
    <3>1. new.joined = w.joined + 1 /\ w.joined < MaxJoins
      BY <1>2, <2>1 DEF Grow
    <3>2. /\ w.slowest * w.joined \in Nat
          /\ w.slowest * new.joined = w.slowest * w.joined + w.slowest
      BY <2>1, <3>1, Products
    <3>3. CASE f # e
      <4>1. f \in w.entries \ w.reset /\ new.age[f] = w.age[f]
            /\ w.age[f] \in Nat
        BY <3>3, <1>2, <2>1
      <4>2. w.count <= w.slowest * w.joined + w.age[f]
        BY <4>1, <3>1 DEF Paced, Pace
      <4> QED BY <4>1, <4>2, <3>2, <2>1
    <3>4. CASE f = e
      <4>1. PICK u \in w.entries : u \notin w.reset
        BY <1>4 DEF AllReset
      <4>2. w.count <= w.slowest * w.joined + w.age[u]
        BY <4>1, <3>1 DEF Paced, Pace
      <4>3. w.count = 0 \/ w.age[u] <= w.slowest
        BY <4>1, <2>1, Constants DEF Paced, Slow
      <4>4. new.age[f] = 0 /\ w.age[u] \in Nat
        BY <3>4, <1>2, <2>1
      <4> QED BY <4>2, <4>3, <4>4, <3>2, <2>1
    <3> QED BY <3>3, <3>4
  <2> QED BY <2>0, <2>2, <2>3 DEF Paced
<1> QED BY <1>3, <1>4

LEMMA DeletedPaced ==
    ASSUME NEW w, Good(w), Paced(w), NEW e \in Subscribers
    PROVE  Paced(Deleted(w, e))
<1> DEFINE less == [w EXCEPT !.entries = @ \ {e}, !.reset = @ \ {e},
                             !.age[e] = 0, !.waiting = (w.entries = {e})]
<1>0. w \in Watchdog /\ Deleted(w, e) \in Watchdog
  BY DeletedGood DEF Good
<1>1. Deleted(w, e) = IF less.waiting THEN Halted(less)
                      ELSE IF AllReset(w, e) THEN Fed(less) ELSE less
  BY DEF Deleted
<1>2. /\ less.entries = w.entries \ {e} /\ less.reset = w.reset \ {e}
      /\ less.count = w.count /\ less.slowest = w.slowest
      /\ less.joined = w.joined
      /\ \A f \in less.entries : less.age[f] = w.age[f]
      /\ less.waiting => less.entries = {}
  BY <1>0 DEF Watchdog
<1>3. CASE less.waiting
  <2>1. Deleted(w, e).entries = {}
    BY <1>0, <1>1, <1>2, <1>3 DEF Halted, Watchdog
  <2> QED BY <2>1, <1>0, ZeroPaced
<1>4. CASE ~less.waiting /\ AllReset(w, e)
  <2>1. Deleted(w, e).count = 0
    BY <1>0, <1>1, <1>4 DEF Fed, Watchdog
  <2> QED BY <2>1, <1>0, ZeroPaced
<1>5. CASE ~less.waiting /\ ~AllReset(w, e)
  <2> HIDE DEF less
  <2>1. Paced(less)
    BY <1>2, FewerPaced
  <2> QED BY <2>1, <1>1, <1>5
<1> QED BY <1>3, <1>4, <1>5

LEMMA MarkedPaced ==
    ASSUME NEW w, Good(w), Paced(w), NEW e \in w.entries
    PROVE  Paced(Marked(w, e))
<1> DEFINE done == [w EXCEPT !.reset = @ \cup {e}, !.age[e] = 0]
<1>0. w \in Watchdog /\ Marked(w, e) \in Watchdog
  BY MarkedGood DEF Good
<1>1. Marked(w, e) = IF AllReset(w, e) THEN Fed(done) ELSE done
  BY DEF Marked
<1>2. /\ done.entries = w.entries /\ done.reset = w.reset \cup {e}
      /\ done.count = w.count /\ done.slowest = w.slowest
      /\ done.joined = w.joined
      /\ \A f \in Subscribers : done.age[f] = IF f = e THEN 0 ELSE w.age[f]
  BY <1>0 DEF Watchdog
<1>3. CASE AllReset(w, e)
  <2>1. Marked(w, e).count = 0
    BY <1>0, <1>1, <1>3 DEF Fed, Watchdog
  <2> QED BY <2>1, <1>0, ZeroPaced
<1>4. CASE ~AllReset(w, e)
  <2> HIDE DEF done
  <2>1. w.entries \subseteq Subscribers /\ w.slowest \in Nat
    BY <1>0, Fields, Constants
  <2>2. Slow(done)
    BY <1>2, <2>1 DEF Paced, Slow
  <2>3. Pace(done)
    BY <1>2, <2>1 DEF Paced, Pace
  <2> QED BY <2>2, <2>3, <1>1, <1>4 DEF Paced
<1> QED BY <1>3, <1>4

LEMMA PacedTick == ASSUME Inv, Paced(wdt), Tick PROVE Paced(wdt')
<1> DEFINE age == [e \in Subscribers |->
                      IF e \in wdt.entries THEN Grow(wdt.age[e], AgeCap) ELSE 0]
<1>0. wdt \in Watchdog
  BY DEF Inv, Good
<1>1. PICK n \in 0 .. Timeout :
          /\ Slowest(n, age)
          /\ wdt' = [wdt EXCEPT !.count = @ + 1, !.age = age, !.slowest = n,
                                !.quiet = Grow(@, AgeCap)]
  BY DEF Tick
<1>2. /\ wdt'.entries = wdt.entries /\ wdt'.reset = wdt.reset
      /\ wdt'.count = wdt.count + 1 /\ wdt'.age = age
      /\ wdt'.slowest = n /\ wdt'.joined = wdt.joined
  BY <1>0, <1>1 DEF Watchdog
<1>3. /\ wdt.entries \subseteq Subscribers
      /\ wdt.count \in 0 .. Timeout /\ wdt.slowest \in Nat /\ wdt.joined \in Nat
      /\ n \in Nat /\ n <= Timeout /\ n >= wdt.slowest
      /\ n = Timeout \/ \A e \in Subscribers : age[e] <= n
      /\ \A e \in Subscribers : wdt.age[e] \in 0 .. AgeCap
  BY <1>0, <1>1, Fields, Constants DEF Slowest
<1>4. \A e \in wdt.entries :
         /\ age[e] = Grow(wdt.age[e], AgeCap)
         /\ age[e] \in Nat
         /\ age[e] = wdt.age[e] + 1 \/ age[e] = AgeCap
  BY <1>3, Constants DEF Grow
<1>5. wdt.count < Timeout
  BY <1>0, <1>3, Constants DEF Tick, Inv, Expired
<1> HIDE DEF age
<1>6. Slow(wdt')
  BY <1>2, <1>3 DEF Slow
<1>7. Pace(wdt')
  <2> SUFFICES ASSUME wdt.joined < MaxJoins, n < Timeout,
                      NEW e \in wdt.entries \ wdt.reset
               PROVE  wdt.count + 1 <= n * wdt.joined + age[e]
    BY <1>2 DEF Pace
  <2>1. /\ wdt.slowest * wdt.joined \in Nat /\ n * wdt.joined \in Nat
        /\ wdt.slowest * wdt.joined <= n * wdt.joined
    BY <1>3, Products
  <2>2. wdt.slowest < Timeout
    BY <1>3, Constants
  <2>3. wdt.count <= wdt.slowest * wdt.joined + wdt.age[e]
    BY <2>2 DEF Paced, Pace
  <2>4. wdt.age[e] \in Nat /\ age[e] \in Nat
        /\ (age[e] = wdt.age[e] + 1 \/ age[e] = AgeCap)
    BY <1>3, <1>4, Constants
  <2>5. CASE age[e] = wdt.age[e] + 1
    BY <2>1, <2>3, <2>4, <2>5, <1>3
  <2>6. CASE age[e] = AgeCap
    BY <2>1, <2>4, <2>6, <1>3, <1>5, Constants
  <2> QED BY <2>4, <2>5, <2>6
<1> QED BY <1>6, <1>7 DEF Paced

LEMMA PacedNext == ASSUME Inv, Inv', Paced(wdt), [Next]_vars PROVE Paced(wdt')
<1>0. /\ wdt \in Watchdog /\ wdt' \in Watchdog
      /\ Good(wdt) /\ mgr.left \subseteq Subscribers
  BY DEF Inv, Good, Control, Subscribers
<1>1. CASE wdt' = wdt
  BY <1>1
<1>2. CASE \E e \in Subscribers : wdt' = Added(wdt, e) \/ wdt' = Deleted(wdt, e)
  BY <1>0, <1>2, AddedPaced, DeletedPaced
<1>3. CASE \E e \in wdt.entries : wdt' = Marked(wdt, e)
  BY <1>0, <1>3, MarkedPaced
<1>4. CASE wdt'.count = 0 \/ wdt'.entries = {}
  BY <1>0, <1>4, ZeroPaced
<1>5. CASE Tick
  BY <1>5, PacedTick
<1>6. CASE /\ wdt'.entries = wdt.entries /\ wdt'.reset = wdt.reset
           /\ wdt'.count = wdt.count /\ wdt'.slowest = wdt.slowest
           /\ wdt'.joined = wdt.joined /\ wdt'.age = wdt.age
  BY <1>6, FewerPaced
<1>7. CASE Isr \/ Restart \/ InitStart \/ ReconfigureEnd
           \/ \E mask \in SUBSET Idle : InitBegin(mask)
  <2>1. wdt' = wdt \/ wdt'.count = 0 \/ wdt'.entries = {}
    BY <1>0, <1>7 DEF Isr, Restart, InitStart, ReconfigureEnd, InitBegin,
                      Started, Watchdog
  <2> QED BY <2>1, <1>1, <1>4
<1>8. CASE \/ Stop \/ InitWait \/ DeinitFree
           \/ \E mask \in SUBSET Idle : ReconfigureBegin(mask)
  <2>1. /\ wdt'.entries = wdt.entries /\ wdt'.reset = wdt.reset
        /\ wdt'.count = wdt.count /\ wdt'.slowest = wdt.slowest
        /\ wdt'.joined = wdt.joined /\ wdt'.age = wdt.age
    BY <1>0, <1>8 DEF Stop, InitWait, DeinitFree, ReconfigureBegin, Halted,
                      Watchdog
  <2> QED BY <2>1, <1>6
<1>9. CASE SubscribeIdle \/ UnsubscribeIdle
  <2>1. \/ wdt' = wdt
        \/ \E e \in Subscribers : wdt' = Added(wdt, e) \/ wdt' = Deleted(wdt, e)
    BY <1>0, <1>9 DEF SubscribeIdle, UnsubscribeIdle
  <2> QED BY <2>1, <1>1, <1>2
<1>10. ASSUME NEW e \in Subscribers,
              \/ \E op \in {"add", "reset", "delete"} : Enter(e, op)
              \/ Add(e) \/ Reset(e) \/ Delete(e)
       PROVE  Paced(wdt')
  <2>1. \/ wdt' = wdt \/ wdt' = Added(wdt, e) \/ wdt' = Deleted(wdt, e)
        \/ wdt' = Marked(wdt, e) /\ e \in wdt.entries
    BY <1>10 DEF Enter, Add, Reset, Delete
  <2> QED BY <2>1, <1>1, <1>2, <1>3
<1> QED
  BY <1>1, <1>5, <1>7, <1>8, <1>9, <1>10
  DEF Next, Manager, vars, InitCheck, DeinitBegin, DeinitCheck

\* No alarm is raised before somebody has been slow: a round lasts no longer than
\* its slowest subscriber takes between two resets, once more for every
\* subscription in the round. Overlap with init and deinit included.
THEOREM NoFalseAlarmCorrect == Spec => []NoFalseAlarm
<1>1. Init => Inv /\ Paced(wdt)
  <2> SUFFICES ASSUME Init PROVE Inv /\ Paced(wdt)
    OBVIOUS
  <2>1. Inv
    BY InvInit
  <2>2. wdt \in Watchdog /\ wdt.entries = {}
    BY <2>1 DEF Inv, Good, Init
  <2> QED BY <2>1, <2>2, ZeroPaced
<1>2. Inv /\ Paced(wdt) /\ [Next]_vars => Inv' /\ Paced(wdt)'
  <2> SUFFICES ASSUME Inv, Paced(wdt), [Next]_vars PROVE Inv' /\ Paced(wdt)'
    OBVIOUS
  <2>1. Inv' /\ Paced(wdt')
    BY InvNext, PacedNext
  <2> QED BY <2>1 DEF Paced, Slow, Pace
<1>3. Inv /\ Paced(wdt) => NoFalseAlarm
  <2> SUFFICES ASSUME Inv, Paced(wdt), wdt.entries # {}, wdt.joined < MaxJoins
               PROVE  wdt.count <= wdt.slowest * (1 + wdt.joined)
    BY DEF NoFalseAlarm
  <2>1. wdt \in Watchdog
    BY DEF Inv, Good
  <2>2. /\ wdt.slowest \in Nat /\ wdt.joined \in Nat
        /\ wdt.count \in Nat /\ wdt.count <= Timeout /\ wdt.slowest <= Timeout
        /\ wdt.entries \subseteq Subscribers
        /\ \A f \in Subscribers : wdt.age[f] \in Nat
    BY <2>1, Fields, Constants
  <2>3. PICK e \in wdt.entries : e \notin wdt.reset
    BY DEF Inv, Good, Round
  <2>4. /\ wdt.slowest * wdt.joined \in Nat
        /\ wdt.slowest * (1 + wdt.joined) = wdt.slowest * wdt.joined + wdt.slowest
    BY <2>2, Products
  <2>5. CASE wdt.slowest = Timeout
    BY <2>2, <2>4, <2>5, Constants
  <2>6. CASE wdt.slowest # Timeout
    <3>1. wdt.slowest < Timeout
      BY <2>2, <2>6, Constants
    <3>2. wdt.count <= wdt.slowest * wdt.joined + wdt.age[e]
      BY <2>3, <3>1 DEF Paced, Pace
    <3>3. wdt.count = 0 \/ wdt.age[e] <= wdt.slowest
      BY <2>3, <2>6 DEF Paced, Slow
    <3>4. wdt.age[e] \in Nat
      BY <2>2, <2>3
    <3> QED BY <2>2, <2>4, <3>2, <3>3, <3>4
  <2> QED BY <2>5, <2>6
<1> QED BY <1>1, <1>2, <1>3, PTL DEF Spec

-----------------------------------------------------------------------------
\* Who watches, when calls do not overlap with init and deinit.  A list that is
\* empty waits for its first entry, a list that is not has a timer that runs or
\* was stopped on purpose; the idle tasks of the mask are on the list.
Waits(w) == w.entries = {} => w.waiting
Runs(w)  == w.entries # {} => w.enabled \/ w.stopped

Stages == {<<"idle", "idle">>, <<"subscribe", "initCheck">>,
           <<"initCheck", "initCheck">>, <<"initStart", "idle">>,
           <<"initWait", "idle">>, <<"unsubscribe", "reconfigured">>,
           <<"subscribe", "reconfigured">>, <<"reconfigured", "reconfigured">>,
           <<"unsubscribe", "deinitCheck">>, <<"deinitCheck", "deinitCheck">>,
           <<"subscribe", "idle">>, <<"deinitFree", "idle">>}
Stage == <<mgr.pc, mgr.next>>

\* Nobody is inside a call where the object comes or goes.
Alone ==
    /\ ~up \/ (mgr.pc # "idle" /\ mgr.next # "reconfigured")
          => \A e \in Subscribers : call[e] = "none"
    /\ ~up => mgr.pc = "idle" /\ wdt.entries = {}
    /\ \A e \in Idle : call[e] \in {"none", "reset"}

\* Who is on the list at each stage, and who looks after it.
Kept ==
    /\ up /\ mgr.pc \in {"idle", "initCheck", "initStart", "initWait",
                         "reconfigured"} => idleMask \subseteq wdt.entries
    /\ mgr.pc = "unsubscribe" => mgr.left \subseteq wdt.entries
    /\ mgr.pc = "subscribe" => idleMask \ mgr.left \subseteq wdt.entries
    /\ Stage = <<"unsubscribe", "reconfigured">> => mgr.mask = idleMask
Watching ==
    /\ mgr.pc \in {"initWait", "deinitFree"} => wdt.entries = {}
    /\ mgr.pc = "initStart" => wdt.entries # {}
    /\ up /\ Stage \notin {<<"subscribe", "initCheck">>,
                           <<"initCheck", "initCheck">>,
                           <<"initStart", "idle">>, <<"initWait", "idle">>,
                           <<"deinitFree", "idle">>} => Waits(wdt)
    /\ up /\ Stage \in {<<"idle", "idle">>, <<"unsubscribe", "deinitCheck">>,
                        <<"deinitCheck", "deinitCheck">>,
                        <<"subscribe", "idle">>} => Runs(wdt)

Watched == Stage \in Stages /\ Alone /\ Kept /\ Watching


\* What the three functions do to the list and to the timer.
LEMMA AddedKeeps ==
    ASSUME NEW w \in Watchdog, NEW e \in Subscribers
    PROVE  /\ Added(w, e).entries = w.entries \cup {e}
           /\ Waits(Added(w, e))
           /\ Waits(w) /\ Runs(w) => Runs(Added(w, e))
<1> DEFINE new  == [w EXCEPT !.entries = @ \cup {e}, !.age[e] = 0,
                             !.joined = Grow(@, MaxJoins)]
           runs == IF w.waiting THEN [Started(new) EXCEPT !.waiting = FALSE]
                                ELSE new
<1>1. Added(w, e) = IF AllReset(w, e) THEN Fed(runs) ELSE runs
  BY DEF Added
<1>2. /\ new.entries = w.entries \cup {e}
      /\ new.enabled = w.enabled /\ new.stopped = w.stopped
  BY DEF Watchdog
<1>3. /\ runs.entries = w.entries \cup {e}
      /\ w.waiting => runs.enabled
      /\ ~w.waiting => runs.enabled = w.enabled /\ runs.stopped = w.stopped
  BY <1>2 DEF Started, Watchdog
<1>4. /\ Fed(runs).entries = runs.entries
      /\ Fed(runs).enabled = runs.enabled /\ Fed(runs).stopped = runs.stopped
  BY DEF Fed, Started, Watchdog
<1> HIDE DEF new, runs
<1> QED BY <1>1, <1>3, <1>4 DEF Waits, Runs

LEMMA DeletedKeeps ==
    ASSUME NEW w \in Watchdog, NEW e \in w.entries
    PROVE  /\ Deleted(w, e).entries = w.entries \ {e}
           /\ Waits(Deleted(w, e))
           /\ Runs(w) => Runs(Deleted(w, e))
<1> DEFINE less == [w EXCEPT !.entries = @ \ {e}, !.reset = @ \ {e},
                             !.age[e] = 0, !.waiting = (w.entries = {e})]
<1>1. Deleted(w, e) = IF less.waiting THEN Halted(less)
                      ELSE IF AllReset(w, e) THEN Fed(less) ELSE less
  BY DEF Deleted
<1>2. /\ less.entries = w.entries \ {e} /\ (less.waiting <=> w.entries = {e})
      /\ less.enabled = w.enabled /\ less.stopped = w.stopped
  BY DEF Watchdog
<1>3. /\ Fed(less).entries = less.entries /\ Fed(less).waiting = less.waiting
      /\ Fed(less).enabled = less.enabled /\ Fed(less).stopped = less.stopped
      /\ Halted(less).entries = less.entries
      /\ Halted(less).waiting = less.waiting
  BY DEF Fed, Halted, Watchdog
<1> HIDE DEF less
<1> QED BY <1>1, <1>2, <1>3 DEF Waits, Runs

LEMMA MarkedKeeps ==
    ASSUME NEW w \in Watchdog, NEW e \in w.entries
    PROVE  /\ Marked(w, e).entries = w.entries
           /\ Waits(w) => Waits(Marked(w, e))
           /\ Runs(w) => Runs(Marked(w, e))
BY DEF Marked, Fed, Watchdog, Waits, Runs

\* A call of a subscriber: it is made, or it has its turn, between the calls
\* that manage the watchdog.
LEMMA WatchedCalls ==
    ASSUME Inv, Watched, ~Overlap, NEW e \in Subscribers,
           \/ \E op \in {"add", "reset", "delete"} : Enter(e, op)
           \/ Add(e) \/ Reset(e) \/ Delete(e)
    PROVE  Watched'
<1>0. /\ wdt \in Watchdog /\ Stage \in Stages
      /\ call \in [Subscribers -> {"none", "add", "reset", "delete"}]
      /\ idleMask \subseteq Idle
  BY DEF Inv, Good, Control, Watched
<1>1. CASE \E op \in {"add", "reset", "delete"} : Enter(e, op)
  <2>1. PICK op \in {"add", "reset", "delete"} : Enter(e, op)
    BY <1>1
  <2>2. /\ UNCHANGED <<up, idleMask, wdt, irq, mgr>> /\ up
        /\ mgr.pc = "idle" \/ mgr.next = "reconfigured"
        /\ call' = [call EXCEPT ![e] = op]
        /\ e \in Idle => op = "reset"
    BY <2>1 DEF Enter, Locked
  <2>3. Alone'
    BY <1>0, <2>2 DEF Watched, Alone
  <2> QED BY <2>2, <2>3 DEF Watched, Kept, Watching, Stage, Waits, Runs
<1>2. CASE Add(e) \/ Reset(e) \/ Delete(e)
  <2>1. /\ UNCHANGED <<up, idleMask, irq, mgr>>
        /\ call[e] # "none" /\ ~Locked
        /\ call' = [call EXCEPT ![e] = "none"]
        /\ e \in Idle => Reset(e)
    <3>1. e \in Idle => call[e] \in {"none", "reset"}
      BY DEF Watched, Alone
    <3> QED BY <1>2, <3>1 DEF Add, Reset, Delete, Leave
  <2>2. up /\ mgr.pc = "idle" /\ mgr.next = "idle"
    BY <1>0, <2>1 DEF Watched, Alone, Locked, Stages, Stage
  <2>3. Waits(wdt) /\ Runs(wdt) /\ idleMask \subseteq wdt.entries
    BY <2>2 DEF Watched, Watching, Kept, Stage
  <2>4. \/ wdt' = wdt
        \/ wdt' = Added(wdt, e)
        \/ wdt' = Deleted(wdt, e) /\ e \in wdt.entries /\ e \notin Idle
        \/ wdt' = Marked(wdt, e) /\ e \in wdt.entries
    <3>1. CASE Add(e) \/ Reset(e)
      BY <3>1 DEF Add, Reset
    <3>2. CASE Delete(e) /\ e \notin Idle
      BY <3>2 DEF Delete
    <3> QED BY <1>2, <2>1, <3>1, <3>2
  <2>5. Waits(wdt') /\ Runs(wdt') /\ idleMask \subseteq wdt'.entries
    BY <1>0, <2>3, <2>4, AddedKeeps, DeletedKeeps, MarkedKeeps
  <2>6. Alone'
    BY <1>0, <2>1, <2>2 DEF Watched, Alone
  <2>7. Kept' /\ Watching' /\ Stage' \in Stages
    BY <1>0, <2>1, <2>2, <2>5 DEF Kept, Watching, Stage, Waits, Runs
  <2> QED BY <2>6, <2>7 DEF Watched
<1> QED BY <1>1, <1>2

LEMMA WatchedTime ==
    ASSUME Inv, Watched, Tick \/ Isr \/ UNCHANGED vars
    PROVE  Watched'
<1>1. /\ UNCHANGED <<up, idleMask, call, mgr>>
      /\ wdt'.entries = wdt.entries /\ wdt'.waiting = wdt.waiting
      /\ wdt'.enabled = wdt.enabled /\ wdt'.stopped = wdt.stopped
  BY DEF Inv, Good, Tick, Isr, vars, Watchdog
<1> QED BY <1>1
        DEF Watched, Alone, Kept, Watching, Stage, Waits, Runs

\* init, and the calls that start and stop.
LEMMA WatchedInit ==
    ASSUME Inv, Watched, ~Overlap,
           \/ \E mask \in SUBSET Idle : InitBegin(mask)
           \/ InitCheck \/ InitStart \/ InitWait \/ Stop \/ Restart
    PROVE  Watched'
<1>0. /\ wdt \in Watchdog /\ Stage \in Stages /\ Alone /\ Kept /\ Watching
  BY DEF Inv, Good, Watched
<1>1. ASSUME NEW mask \in SUBSET Idle, InitBegin(mask)
      PROVE  Watched'
  <2>1. /\ wdt'.entries = {} /\ call' = call /\ up' = TRUE /\ ~up
        /\ idleMask' = mask
        /\ mgr' = [pc |-> "subscribe", next |-> "initCheck", left |-> mask,
                   mask |-> mask]
    BY <1>0, <1>1 DEF InitBegin, Manage, Watchdog
  <2>2. Alone'
    BY <1>0, <2>1 DEF Alone
  <2>3. Kept' /\ Watching' /\ Stage' \in Stages
    BY <2>1 DEF Kept, Watching, Stage, Stages
  <2> QED BY <2>2, <2>3 DEF Watched
<1>2. CASE InitCheck
  <2>1. /\ mgr.pc = "initCheck" /\ up
        /\ UNCHANGED <<up, idleMask, wdt, irq, call>>
        /\ mgr.next = "initCheck"
        /\ mgr'.next = "idle"
        /\ mgr'.pc = IF wdt.entries = {} THEN "initWait" ELSE "initStart"
    BY <1>0, <1>2 DEF InitCheck, Manage, Alone, Stage, Stages
  <2>2. Alone'
    BY <1>0, <2>1 DEF Alone
  <2>3. Kept' /\ Watching' /\ Stage' \in Stages
    BY <1>0, <2>1 DEF Kept, Watching, Stage, Stages
  <2> QED BY <2>2, <2>3 DEF Watched
<1>3. CASE InitStart \/ InitWait
  <2>1. /\ mgr.pc \in {"initStart", "initWait"} /\ up /\ mgr.next = "idle"
        /\ UNCHANGED <<up, idleMask, irq, call>>
        /\ mgr' = NoMgr
        /\ wdt'.entries = wdt.entries
        /\ Waits(wdt') /\ Runs(wdt')
    <3>1. CASE InitStart
      BY <1>0, <3>1
      DEF InitStart, Started, Watchdog, Alone, Stage, Stages, Watching, Waits,
          Runs
    <3>2. CASE InitWait
      BY <1>0, <3>2
      DEF InitWait, Watchdog, Alone, Stage, Stages, Watching, Waits, Runs
    <3> QED BY <1>3, <3>1, <3>2
  <2>2. Alone'
    BY <1>0, <2>1 DEF Alone, NoMgr
  <2>3. Kept' /\ Watching' /\ Stage' \in Stages
    BY <1>0, <2>1 DEF Kept, Watching, Stage, Stages, NoMgr, Waits, Runs
  <2> QED BY <2>2, <2>3 DEF Watched
<1>4. CASE Stop \/ Restart
  <2>1. /\ up /\ mgr.pc = "idle" /\ UNCHANGED <<up, idleMask, irq, call, mgr>>
        /\ wdt'.entries = wdt.entries /\ wdt'.waiting = wdt.waiting
        /\ wdt'.enabled \/ wdt'.stopped
    BY <1>0, <1>4 DEF Stop, Restart, Started, Halted, Watchdog
  <2>2. Alone'
    BY <1>0, <2>1 DEF Alone
  <2>3. Kept' /\ Watching' /\ Stage' \in Stages
    BY <1>0, <2>1 DEF Kept, Watching, Stage, Stages, Waits, Runs
  <2> QED BY <2>2, <2>3 DEF Watched
<1> QED BY <1>1, <1>2, <1>3, <1>4

\* The loops over the idle tasks, reconfigure and deinit.
LEMMA WatchedLoops ==
    ASSUME Inv, Watched, ~Overlap, SubscribeIdle \/ UnsubscribeIdle
    PROVE  Watched'
<1>0. /\ wdt \in Watchdog /\ Stage \in Stages /\ Alone /\ Kept /\ Watching
      /\ UNCHANGED <<up, idleMask, irq, call>>
      /\ mgr \in [pc : PCs, next : PCs, left : SUBSET Idle, mask : SUBSET Idle]
  BY DEF Inv, Good, Control, Watched, SubscribeIdle, UnsubscribeIdle
<1>1. up
  BY <1>0 DEF Alone, SubscribeIdle, UnsubscribeIdle
<1>2. CASE SubscribeIdle
  <2>1. ASSUME NEW e \in mgr.left, wdt' = Added(wdt, e),
               mgr' = [mgr EXCEPT !.left = @ \ {e}]
        PROVE  Watched'
    <3>1. /\ wdt'.entries = wdt.entries \cup {e}
          /\ Waits(wdt')
          /\ Waits(wdt) /\ Runs(wdt) => Runs(wdt')
      BY <1>0, <2>1, AddedKeeps DEF Subscribers
    <3>2. /\ mgr.pc = "subscribe" /\ Stage' = Stage
          /\ mgr'.pc = mgr.pc /\ mgr'.next = mgr.next
          /\ mgr'.left = mgr.left \ {e} /\ mgr'.mask = mgr.mask
      BY <1>0, <1>2, <2>1 DEF SubscribeIdle, Stage
    <3>3. Alone'
      BY <1>0, <1>1, <3>2 DEF Alone
    <3>4. Kept'
      BY <1>0, <3>1, <3>2 DEF Kept
    <3>5. Watching'
      BY <1>0, <1>1, <3>1, <3>2 DEF Watching, Stage
    <3> QED BY <1>0, <3>2, <3>3, <3>4, <3>5 DEF Watched
  <2>2. CASE /\ mgr.left = {} /\ mgr' = [mgr EXCEPT !.pc = mgr.next]
             /\ wdt' = wdt
    <3>1. /\ mgr.pc = "subscribe" /\ mgr'.pc = mgr.next
          /\ mgr'.next = mgr.next /\ mgr'.left = {}
          /\ mgr.next \in {"initCheck", "reconfigured", "idle"}
      BY <1>0, <1>2, <2>2 DEF SubscribeIdle, Stage, Stages
    <3>2. Alone'
      BY <1>0, <1>1, <3>1 DEF Alone
    <3>3. Stage' \in Stages
      BY <3>1 DEF Stage, Stages
    <3>4. Kept'
      BY <1>0, <2>2, <3>1 DEF Kept, Stage
    <3>5. Watching'
      BY <1>0, <1>1, <2>2, <3>1 DEF Watching, Stage
    <3> QED BY <3>2, <3>3, <3>4, <3>5 DEF Watched
  <2> QED BY <1>2, <2>1, <2>2 DEF SubscribeIdle
<1>3. CASE UnsubscribeIdle
  <2>1. ASSUME NEW e \in mgr.left, wdt' = Deleted(wdt, e),
               mgr' = [mgr EXCEPT !.left = @ \ {e}]
        PROVE  Watched'
    <3>0. /\ mgr.pc = "unsubscribe" /\ Stage' = Stage
          /\ mgr'.pc = mgr.pc /\ mgr'.next = mgr.next
          /\ mgr'.left = mgr.left \ {e} /\ mgr'.mask = mgr.mask
          /\ mgr.left \subseteq wdt.entries
      BY <1>0, <1>3, <2>1 DEF UnsubscribeIdle, Stage, Kept
    <3>1. /\ wdt'.entries = wdt.entries \ {e}
          /\ Waits(wdt') /\ (Runs(wdt) => Runs(wdt'))
      BY <1>0, <2>1, <3>0, DeletedKeeps
    <3>3. Alone'
      BY <1>0, <1>1, <3>0 DEF Alone
    <3>4. Kept'
      BY <1>0, <3>0, <3>1 DEF Kept
    <3>5. Watching'
      BY <1>0, <1>1, <3>0, <3>1 DEF Watching, Stage
    <3> QED BY <1>0, <3>0, <3>3, <3>4, <3>5 DEF Watched
  <2>2. CASE /\ mgr.left = {} /\ wdt' = wdt
             /\ mgr.next = "reconfigured"
             /\ mgr' = [mgr EXCEPT !.pc = "subscribe", !.left = mgr.mask]
    <3>1. /\ mgr.pc = "unsubscribe" /\ mgr'.pc = "subscribe"
          /\ mgr'.next = "reconfigured" /\ mgr'.left = idleMask
      BY <1>0, <1>3, <2>2 DEF UnsubscribeIdle, Stage, Kept
    <3>2. Alone'
      BY <1>0, <1>1, <3>1 DEF Alone
    <3>3. Stage' \in Stages /\ Kept'
      BY <1>0, <2>2, <3>1 DEF Stage, Stages, Kept
    <3>4. Watching'
      BY <1>0, <1>1, <2>2, <3>1 DEF Watching, Stage
    <3> QED BY <3>2, <3>3, <3>4 DEF Watched
  <2>3. CASE /\ mgr.left = {} /\ wdt' = wdt
             /\ mgr.next # "reconfigured"
             /\ mgr' = [mgr EXCEPT !.pc = mgr.next]
    <3>1. /\ mgr.pc = "unsubscribe" /\ mgr'.pc = "deinitCheck"
          /\ mgr'.next = "deinitCheck" /\ mgr.next = "deinitCheck"
      BY <1>0, <1>3, <2>3 DEF UnsubscribeIdle, Stage, Stages
    <3>2. Alone'
      BY <1>0, <1>1, <3>1 DEF Alone
    <3>3. Stage' \in Stages /\ Kept'
      BY <1>0, <2>3, <3>1 DEF Stage, Stages, Kept
    <3>4. Watching'
      BY <1>0, <1>1, <2>3, <3>1 DEF Watching, Stage
    <3> QED BY <3>2, <3>3, <3>4 DEF Watched
  <2> QED BY <1>3, <2>1, <2>2, <2>3 DEF UnsubscribeIdle
<1> QED BY <1>2, <1>3

LEMMA WatchedReconfigure ==
    ASSUME Inv, Watched, ~Overlap,
           \/ \E mask \in SUBSET Idle : ReconfigureBegin(mask)
           \/ ReconfigureEnd
    PROVE  Watched'
<1>0. /\ wdt \in Watchdog /\ Stage \in Stages /\ Alone /\ Kept /\ Watching
  BY DEF Inv, Good, Watched
<1>1. ASSUME NEW mask \in SUBSET Idle, ReconfigureBegin(mask)
      PROVE  Watched'
  <2>1. /\ up /\ up' /\ mgr.pc = "idle" /\ mgr.next = "idle" /\ call' = call
        /\ idleMask' = mask
        /\ wdt'.entries = wdt.entries /\ wdt'.waiting = wdt.waiting
        /\ mgr'.next = "reconfigured"
        /\ \/ mgr'.pc = "reconfigured" /\ mask = idleMask
           \/ /\ mgr'.pc = "unsubscribe" /\ mgr'.left = idleMask
              /\ mgr'.mask = mask
    BY <1>0, <1>1
    DEF ReconfigureBegin, Manage, Halted, Watchdog, Stage, Stages
  <2>2. Alone'
    BY <1>0, <2>1 DEF Alone
  <2>3. Stage' \in Stages
    BY <2>1 DEF Stage, Stages
  <2>4. Kept'
    BY <1>0, <2>1 DEF Kept, Stage
  <2>5. Watching'
    BY <1>0, <2>1 DEF Watching, Stage, Waits
  <2> QED BY <2>2, <2>3, <2>4, <2>5 DEF Watched
<1>2. CASE ReconfigureEnd
  <2>1. /\ up /\ mgr.pc = "reconfigured" /\ mgr.next = "reconfigured"
        /\ UNCHANGED <<up, idleMask, call>>
        /\ mgr' = NoMgr
        /\ wdt'.entries = wdt.entries /\ wdt'.waiting = wdt.waiting
        /\ wdt.entries # {} => wdt'.enabled
    BY <1>0, <1>2
    DEF ReconfigureEnd, Started, Watchdog, Stage, Stages, Alone
  <2>2. Alone'
    BY <1>0, <2>1 DEF Alone, NoMgr
  <2>3. Stage' \in Stages
    BY <2>1 DEF Stage, Stages, NoMgr
  <2>4. Kept'
    BY <1>0, <2>1 DEF Kept, Stage, NoMgr
  <2>5. Watching'
    BY <1>0, <2>1 DEF Watching, Stage, NoMgr, Waits, Runs
  <2> QED BY <2>2, <2>3, <2>4, <2>5 DEF Watched
<1> QED BY <1>1, <1>2

LEMMA WatchedDeinit ==
    ASSUME Inv, Watched, ~Overlap, DeinitBegin \/ DeinitCheck \/ DeinitFree
    PROVE  Watched'
<1>0. /\ wdt \in Watchdog /\ Stage \in Stages /\ Alone /\ Kept /\ Watching
  BY DEF Inv, Good, Watched
<1>1. CASE DeinitBegin
  <2>1. /\ up /\ mgr.pc = "idle" /\ mgr.next = "idle"
        /\ UNCHANGED <<up, idleMask, wdt, irq, call>>
        /\ mgr' = [pc |-> "unsubscribe", next |-> "deinitCheck",
                   left |-> idleMask, mask |-> {}]
        /\ \A e \in Subscribers : call[e] = "none"
    BY <1>0, <1>1 DEF DeinitBegin, Manage, NoCalls, Stage, Stages
  <2>2. Alone'
    BY <1>0, <2>1 DEF Alone
  <2>3. Stage' \in Stages /\ Kept'
    BY <1>0, <2>1 DEF Stage, Stages, Kept
  <2>4. Watching'
    BY <1>0, <2>1 DEF Watching, Stage
  <2> QED BY <2>2, <2>3, <2>4 DEF Watched
<1>2. CASE DeinitCheck
  <2>1. /\ up /\ mgr.pc = "deinitCheck" /\ mgr.next = "deinitCheck"
        /\ UNCHANGED <<up, idleMask, wdt, irq, call>>
        /\ mgr'.next = "idle"
        /\ \/ mgr'.pc = "deinitFree" /\ wdt.entries = {}
           \/ mgr'.pc = "subscribe" /\ mgr'.left = idleMask
    BY <1>0, <1>2 DEF DeinitCheck, Manage, Stage, Stages, Alone
  <2>2. Alone'
    BY <1>0, <2>1 DEF Alone
  <2>3. Stage' \in Stages /\ Kept'
    BY <1>0, <2>1 DEF Stage, Stages, Kept
  <2>4. Watching'
    BY <1>0, <2>1 DEF Watching, Stage
  <2> QED BY <2>2, <2>3, <2>4 DEF Watched
<1>3. CASE DeinitFree
  <2>1. /\ up /\ mgr.pc = "deinitFree" /\ mgr.next = "idle"
        /\ ~up' /\ UNCHANGED <<idleMask, call>> /\ mgr' = NoMgr
        /\ wdt'.entries = wdt.entries /\ wdt.entries = {}
    BY <1>0, <1>3
    DEF DeinitFree, Halted, Watchdog, Stage, Stages, Alone, Watching
  <2>2. Alone'
    BY <1>0, <2>1 DEF Alone, NoMgr
  <2>3. Stage' \in Stages /\ Kept'
    BY <1>0, <2>1 DEF Stage, Stages, Kept, NoMgr
  <2>4. Watching'
    BY <1>0, <2>1 DEF Watching, Stage, NoMgr
  <2> QED BY <2>2, <2>3, <2>4 DEF Watched
<1> QED BY <1>1, <1>2, <1>3

LEMMA WatchedNext ==
    ASSUME Inv, Watched, ~Overlap, [Next]_vars
    PROVE  Watched'
BY WatchedCalls, WatchedTime, WatchedInit, WatchedLoops, WatchedReconfigure,
   WatchedDeinit
DEF Next, Manager

LEMMA WatchedAtInit ==
    Init => Watched
BY DEF Init, NoMgr, Watched, Stage, Stages, Alone, Kept, Watching, Subscribers

\* NobodyUnwatched: as long as init and deinit are not called while other
\* calls are in progress, no call of init, deinit or reconfigure ends with a
\* subscriber that no running timer watches, whatever the number of tasks.
\* A run shows that the proviso is needed.
THEOREM NobodyUnwatchedCorrect ==
    ASSUME "overlap" \notin Liberties
    PROVE  Spec => []NobodyUnwatched
<1>1. ~Overlap
  BY DEF Overlap
<1>2. Inv /\ Watched => NobodyUnwatched
  BY DEF Inv, Watched, NobodyUnwatched, Stage, Stages, Alone, Watching, Runs
<1>3. Watched /\ Inv /\ [Next]_vars => Watched'
  BY <1>1, WatchedNext
<1> QED BY <1>2, <1>3, WatchedAtInit, Invariance, PTL DEF Spec
=============================================================================
