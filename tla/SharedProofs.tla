----------------------------- MODULE SharedProofs -----------------------------
(***************************************************************************)
(* Proofs about what several users share: Spinlock, SharedClocks,          *)
(* ModemClock, IntWdt, EtmChannels and EfuseBatch, for any value of their  *)
(* constants.                                                              *)
(*                                                                         *)
(* Each is an instance of its own, and each theorem is about one of them:  *)
(* the names of a part of this module begin with that of its instance.     *)
(***************************************************************************)
EXTENDS Integers, FiniteSets, FiniteSetTheorems, WellFoundedInduction, TLAPS

CONSTANTS Cores, Free, MaxCount, Users, Freqs, None, MaxUses, ModemLiberties,
          MaxPeriods, Tasks, Handles, GroupCount, ChansPerGroup, Events,
          Liberties, Readers, Width, LastReg, BlockOf, Counts, MaxNest,
          MaxDepth

VARIABLES owner, count, place, held, spiram, cas, ref, cur, on, coeff,
          holders, setting, told, refs, lit, uses, ticked, unfed, hook, due,
          well, hung, up, groupRef, slot, reg, ena, chan, call, efuse, pending,
          odd, mode, lock, op, reader

Lock == INSTANCE Spinlock WITH pc <- place
Clocks == INSTANCE SharedClocks
Modem == INSTANCE ModemClock WITH on <- lit, Liberties <- ModemLiberties
Watch == INSTANCE IntWdt
Etm == INSTANCE EtmChannels WITH ref <- groupRef
Efuse == INSTANCE EfuseBatch

\* The library is the same in each module that extends it.
LEMMA Library ==
    \A S : /\ Clocks!IsFiniteSet(S) <=> IsFiniteSet(S)
           /\ Etm!IsFiniteSet(S) <=> IsFiniteSet(S)
           /\ Clocks!Cardinality(S) = Cardinality(S)
           /\ Etm!Cardinality(S) = Cardinality(S)
BY DEF Clocks!IsFiniteSet, Etm!IsFiniteSet, IsFiniteSet, Clocks!Cardinality,
       Etm!Cardinality, Cardinality

-----------------------------------------------------------------------------
\* What a core that has the word of the lock is doing with it.
LockMine(c) == held[c] > 0 \/ place[c] \in {"set", "last", "done"}

\* The places of a compare-and-set in external RAM.
LockComparing == {"read", "equal", "unlock", "done"}

\* What the place of a core says of what it holds.
LockPlaced(c) ==
    /\ place[c] \in {"nest", "release"} => held[c] > 0
    /\ place[c] \in {"try", "set", "last"} \cup LockComparing => held[c] = 0
    /\ place[c] \in LockComparing => spiram
    /\ place[c] = "equal" => owner = Free
    /\ held[c] < MaxCount
    /\ place[c] \in {"nest", "try", "set"} \cup LockComparing => held[c] + 1 < MaxCount

\* The word of the lock names the one core that has it, and the count is what
\* that core holds.
LockOwned ==
    /\ \A c \in Cores : (owner = c <=> LockMine(c)) /\ LockPlaced(c)
    /\ \A c \in Cores : place[c] \in LockComparing <=> cas = c
    /\ count = IF owner = Free THEN 0 ELSE held[owner]

\* The invariant.
LockInv == Lock!TypeOK /\ LockOwned

\* It holds of a lock that is initialised.
LEMMA LockInitInv == ASSUME Lock!SpinlockAssumption PROVE Lock!Init => LockInv
BY DEF Lock!Init, LockInv, Lock!TypeOK, LockOwned, LockMine, LockPlaced,
       Lock!Places, LockComparing, Lock!SpinlockAssumption

\* Each step of a core changes its own place and count only, and the word only
\* when it is free or the core's.
LEMMA LockStepInv ==
    ASSUME Lock!SpinlockAssumption, LockInv, NEW c \in Cores, Lock!Step(c)
    PROVE  LockInv'
<1> USE DEF LockInv, Lock!TypeOK, LockOwned, LockMine, LockPlaced, Lock!Places,
            LockComparing, Lock!Goto, Lock!SpinlockAssumption
<1>0. UNCHANGED spiram
  BY DEF Lock!Step
<1>1. CASE Lock!Acquire(c)
  BY <1>0, <1>1 DEF Lock!Acquire
<1>2. CASE Lock!Nest(c)
  BY <1>0, <1>2 DEF Lock!Nest
<1>3. CASE Lock!CompareAndSet(c)
  BY <1>0, <1>3 DEF Lock!CompareAndSet, Lock!Grabbed
<1>4. CASE Lock!GiveUp(c)
  BY <1>0, <1>4 DEF Lock!GiveUp
<1>5. CASE Lock!Enter(c)
  BY <1>0, <1>5 DEF Lock!Enter
<1>6. CASE Lock!Release(c)
  BY <1>0, <1>6 DEF Lock!Release
<1>7. CASE Lock!Decrement(c)
  BY <1>0, <1>7 DEF Lock!Decrement
<1>8. CASE Lock!Unlock(c)
  BY <1>0, <1>8 DEF Lock!Unlock
<1>9. CASE Lock!CasEnter(c)
  BY <1>0, <1>9 DEF Lock!CasEnter
<1>10. CASE Lock!CasRead(c)
  BY <1>0, <1>10 DEF Lock!CasRead, Lock!Grabbed
<1>11. CASE Lock!CasWrite(c)
  BY <1>0, <1>11 DEF Lock!CasWrite
<1>12. CASE Lock!CasLeave(c)
  BY <1>0, <1>12 DEF Lock!CasLeave
<1> QED
  BY <1>1, <1>2, <1>3, <1>4, <1>5, <1>6, <1>7, <1>8, <1>9, <1>10, <1>11,
     <1>12 DEF Lock!Step

\* A step of nobody leaves it, and so it holds throughout.
LEMMA LockStutterInv == ASSUME LockInv, UNCHANGED Lock!vars PROVE LockInv'
BY DEF LockInv, Lock!TypeOK, LockOwned, LockMine, LockPlaced, LockComparing,
       Lock!vars

LEMMA LockInvariance ==
    ASSUME Lock!SpinlockAssumption
    PROVE  Lock!Spec => []LockInv
<1>1. Lock!Init => LockInv
  BY LockInitInv
<1>2. LockInv /\ [Lock!Next]_(Lock!vars) => LockInv'
  BY LockStepInv, LockStutterInv DEF Lock!Next
<1> QED
  BY <1>1, <1>2, PTL DEF Lock!Spec

\* The words of the lock and the places of the cores keep their types.
THEOREM LockTyped ==
    ASSUME Lock!SpinlockAssumption
    PROVE  Lock!Spec => []Lock!TypeOK
<1>1. LockInv => Lock!TypeOK
  BY DEF LockInv
<1> QED
  BY <1>1, LockInvariance, PTL

\* Mutual exclusion, for any number of cores: two that hold the lock are both
\* the one its word names.
THEOREM LockMutualExclusion ==
    ASSUME Lock!SpinlockAssumption
    PROVE  Lock!Spec => []Lock!Exclusive
<1>1. LockInv => Lock!Exclusive
  BY DEF LockInv, LockOwned, LockMine, Lock!Exclusive
<1> QED
  BY <1>1, LockInvariance, PTL

\* The assertions in both functions hold, whatever the nesting and the bound.
THEOREM LockAssertionsHold ==
    ASSUME Lock!SpinlockAssumption
    PROVE  Lock!Spec => []Lock!LockAsserts
<1>1. ASSUME Lock!SpinlockAssumption, LockInv PROVE Lock!LockAsserts
  <2>1. ASSUME NEW c \in Cores
        PROVE  /\ place[c] = "nest" => count > 0 /\ count < MaxCount
               /\ place[c] = "set" => owner = c /\ count = 0
               /\ place[c] = "release" => owner = c /\ count > 0
               /\ place[c] = "try" => owner # c /\ count < MaxCount
    <3>1. /\ held[c] \in Nat
          /\ c # Free
          /\ LockMine(c) <=> owner = c
          /\ owner = c => count = held[c]
      BY <1>1 DEF LockInv, Lock!TypeOK, LockOwned, Lock!SpinlockAssumption
    <3>2. LockPlaced(c) /\ MaxCount \in Nat
      BY <1>1 DEF LockInv, LockOwned, Lock!SpinlockAssumption
    <3>3. count < MaxCount
      <4>1. CASE owner = Free
        BY <1>1, <4>1 DEF LockInv, LockOwned, Lock!SpinlockAssumption
      <4>2. CASE owner \in Cores
        BY <1>1, <4>2
           DEF LockInv, Lock!TypeOK, LockOwned, LockPlaced,
               Lock!SpinlockAssumption
      <4> QED
        BY <1>1, <4>1, <4>2 DEF LockInv, Lock!TypeOK
    <3> QED
      BY <3>1, <3>2, <3>3 DEF LockMine, LockPlaced, LockComparing
  <2> QED
    BY <2>1 DEF Lock!LockAsserts
<1> QED
  BY <1>1, LockInvariance, PTL

-----------------------------------------------------------------------------
\* The reference count is that of the users, and the power follows it.
ClocksCounted ==
    /\ ref = Cardinality(holders)
    /\ on <=> holders # {}
    /\ holders = {} => cur = 0

\* A user between its decision and its write holds the PLL, and is about to
\* write what is recorded.
ClocksSet(u) == setting[u] # None => u \in holders /\ setting[u] = cur

\* What a user was told is what is recorded; who is not a user was told nothing.
ClocksTold(u) ==
    /\ u \in holders => told[u] \in {None, cur}
    /\ u \notin holders => told[u] = None

\* A frequency that is recorded is in the hardware, or on its way there.
ClocksWritten == cur # 0 => coeff = cur \/ \E u \in Users : setting[u] = cur

\* The invariant.
ClocksInv ==
    /\ Clocks!TypeOK
    /\ ClocksCounted
    /\ \A u \in Users : ClocksSet(u) /\ ClocksTold(u)
    /\ ClocksWritten

LEMMA ClocksInitInv ==
    ASSUME Clocks!ClocksAssumption
    PROVE  Clocks!Init => ClocksInv
<1>1. Cardinality({}) = 0
  BY FS_EmptySet
<1> SUFFICES ASSUME Clocks!ClocksAssumption, Clocks!Init PROVE ClocksInv
  OBVIOUS
<1>2. Clocks!TypeOK
  BY DEF Clocks!Init, Clocks!TypeOK
<1>3. ClocksCounted
  BY <1>1 DEF Clocks!Init, ClocksCounted
<1>4. \A u \in Users : ClocksSet(u) /\ ClocksTold(u)
  BY DEF Clocks!Init, ClocksSet, ClocksTold
<1>5. ClocksWritten
  BY DEF Clocks!Init, ClocksWritten
<1> QED
  BY <1>2, <1>3, <1>4, <1>5 DEF ClocksInv

\* Sets of users can be counted.
LEMMA ClocksCounts ==
    ASSUME Clocks!ClocksAssumption, Clocks!TypeOK, NEW u \in Users
    PROVE  /\ IsFiniteSet(holders)
           /\ Cardinality(holders) \in Nat
           /\ u \notin holders =>
                 Cardinality(holders \cup {u}) = Cardinality(holders) + 1
           /\ u \in holders =>
                 Cardinality(holders \ {u}) = Cardinality(holders) - 1
           /\ u \in holders /\ Cardinality(holders) < 2 => holders = {u}
           /\ u \in holders => Cardinality(holders) > 0
<1>1. IsFiniteSet(holders)
  BY FS_Subset, Library DEF Clocks!ClocksAssumption, Clocks!TypeOK
<1>2. Cardinality(holders) \in Nat
  BY <1>1, FS_CardinalityType
<1>3. u \notin holders =>
         Cardinality(holders \cup {u}) = Cardinality(holders) + 1
  BY <1>1, FS_AddElement
<1>4. /\ IsFiniteSet(holders \ {u})
      /\ u \in holders =>
            Cardinality(holders \ {u}) = Cardinality(holders) - 1
  BY <1>1, FS_RemoveElement
<1>5. Cardinality(holders \ {u}) \in Nat
  BY <1>4, FS_CardinalityType
<1>6. Cardinality(holders \ {u}) = 0 => holders \ {u} = {}
  BY <1>4, FS_EmptySet
<1>7. ASSUME u \in holders, Cardinality(holders) < 2 PROVE holders = {u}
  <2>1. Cardinality(holders \ {u}) = 0
    BY <1>2, <1>4, <1>5, <1>7
  <2> QED
    BY <2>1, <1>6, <1>7
<1>8. u \in holders => Cardinality(holders) > 0
  BY <1>2, <1>4, <1>5
<1> QED
  BY <1>1, <1>2, <1>3, <1>4, <1>7, <1>8

\* The frequency is changed only where nobody can notice: none is recorded, or
\* the caller is the only user; and nobody else is about to write one.
LEMMA ClocksUnnoticed ==
    ASSUME Clocks!ClocksAssumption, ClocksInv, NEW u \in Users, u \in holders,
           setting[u] = None, Clocks!MayChange
    PROVE  \A w \in Users : setting[w] = None /\ (w # u => told[w] = None)
<1> SUFFICES ASSUME NEW w \in Users
             PROVE  setting[w] = None /\ (w # u => told[w] = None)
  OBVIOUS
<1>1. ClocksSet(w) /\ ClocksTold(w)
  BY DEF ClocksInv
<1>2. CASE cur = 0
  BY <1>1, <1>2
     DEF ClocksInv, Clocks!TypeOK, ClocksSet, ClocksTold,
         Clocks!ClocksAssumption
<1>3. CASE ref < 2
  <2>1. holders = {u}
    BY <1>3, ClocksCounts DEF ClocksInv, ClocksCounted
  <2> QED
    BY <1>1, <2>1 DEF ClocksSet, ClocksTold
<1> QED
  BY <1>2, <1>3 DEF Clocks!MayChange

LEMMA ClocksAcquireInv ==
    ASSUME Clocks!ClocksAssumption, ClocksInv, NEW u \in Users,
           Clocks!Acquire(u)
    PROVE  ClocksInv'
<1>1. ref = Cardinality(holders) /\ ref \in Nat
  BY DEF ClocksInv, ClocksCounted, Clocks!TypeOK
<1>2. Clocks!TypeOK'
  BY DEF ClocksInv, Clocks!TypeOK, Clocks!Acquire
<1>3. ClocksCounted'
  <2>1. ref' = Cardinality(holders')
    BY <1>1, ClocksCounts DEF ClocksInv, Clocks!Acquire
  <2>2. holders' # {} /\ on'
    <3>1. ref # 0 => holders # {}
      BY <1>1, FS_EmptySet
    <3> QED
      BY <3>1 DEF ClocksInv, ClocksCounted, Clocks!Acquire
  <2> QED
    BY <2>1, <2>2 DEF ClocksCounted
<1>4. \A w \in Users : ClocksSet(w)' /\ ClocksTold(w)'
  BY DEF ClocksInv, ClocksSet, ClocksTold, Clocks!Acquire
<1>5. ClocksWritten'
  BY DEF ClocksInv, ClocksWritten, Clocks!Acquire
<1> QED
  BY <1>2, <1>3, <1>4, <1>5 DEF ClocksInv

LEMMA ClocksReleaseInv ==
    ASSUME Clocks!ClocksAssumption, ClocksInv, NEW u \in Users,
           Clocks!Release(u)
    PROVE  ClocksInv'
<1>1. /\ ref = Cardinality(holders) /\ ref \in Nat /\ ref > 0
      /\ Cardinality(holders') = ref - 1
      /\ ref = 1 => holders = {u}
  <2>1. ref = Cardinality(holders) /\ ref \in Nat /\ Clocks!TypeOK
    BY DEF ClocksInv, ClocksCounted, Clocks!TypeOK
  <2>2. u \in holders /\ holders' = holders \ {u}
    BY DEF Clocks!Release
  <2>3. ref > 0 /\ Cardinality(holders') = ref - 1
    BY <2>1, <2>2, ClocksCounts
  <2>4. ref = 1 => holders = {u}
    <3>1. u \in holders /\ Cardinality(holders) < 2 => holders = {u}
      BY <2>1, ClocksCounts
    <3>2. ref = 1 => Cardinality(holders) < 2
      BY <2>1
    <3> QED
      BY <2>2, <3>1, <3>2
  <2> QED
    BY <2>1, <2>3, <2>4
<1>2. Clocks!TypeOK'
  <2>1. ref' \in Nat
    BY <1>1 DEF Clocks!Release
  <2>2. cur' \in Freqs \cup {0} /\ on' \in BOOLEAN
    BY DEF ClocksInv, Clocks!TypeOK, Clocks!Release
  <2>3. /\ coeff' \in Freqs \cup {None}
        /\ holders' \subseteq Users
        /\ setting' \in [Users -> Freqs \cup {None}]
        /\ told' \in [Users -> Freqs \cup {None}]
    BY DEF ClocksInv, Clocks!TypeOK, Clocks!Release
  <2> QED
    BY <2>1, <2>2, <2>3 DEF Clocks!TypeOK
<1>3. ClocksCounted'
  <2>1. ref # 1 => holders' # {}
    BY <1>1, FS_EmptySet
  <2> QED
    BY <1>1, <2>1 DEF ClocksInv, ClocksCounted, Clocks!Release
<1>4. \A w \in Users : ClocksSet(w)' /\ ClocksTold(w)'
  <2>1. ASSUME NEW w \in Users PROVE ClocksSet(w)' /\ ClocksTold(w)'
    <3>1. ClocksSet(w) /\ ClocksTold(w) /\ setting[u] = None
      BY DEF ClocksInv, Clocks!Release
    <3>2. setting' = setting /\ holders' = holders \ {u}
      BY DEF Clocks!Release
    <3>3. told'[w] = IF w = u THEN None ELSE told[w]
      BY DEF ClocksInv, Clocks!TypeOK, Clocks!Release
    <3>4. w \in holders' => cur' = cur
      BY <1>1, <3>2 DEF Clocks!Release
    <3> QED
      BY <3>1, <3>2, <3>3, <3>4 DEF ClocksSet, ClocksTold
  <2> QED
    BY <2>1
<1>5. ClocksWritten'
  BY DEF ClocksInv, ClocksWritten, Clocks!Release
<1> QED
  BY <1>2, <1>3, <1>4, <1>5 DEF ClocksInv

LEMMA ClocksDecideInv ==
    ASSUME Clocks!ClocksAssumption, ClocksInv, NEW u \in Users,
           NEW f \in Freqs, Clocks!Decide(u, f)
    PROVE  ClocksInv'
<1>1. Clocks!TypeOK'
  <2>1. told[u] \in Freqs \cup {None} /\ (~Clocks!MayChange => cur \in Freqs)
    BY DEF ClocksInv, Clocks!TypeOK, Clocks!MayChange
  <2> QED
    BY <2>1 DEF ClocksInv, Clocks!TypeOK, Clocks!Decide
<1>2. ClocksCounted'
  BY DEF ClocksInv, ClocksCounted, Clocks!Decide
<1>3. \A w \in Users : ClocksSet(w)' /\ ClocksTold(w)'
  <2>1. ASSUME NEW w \in Users PROVE ClocksSet(w)' /\ ClocksTold(w)'
    <3>1. ClocksSet(w) /\ ClocksTold(w)
      BY DEF ClocksInv
    <3>2. CASE Clocks!MayChange
      <4>1. setting[w] = None /\ (w # u => told[w] = None)
        BY <3>2, ClocksUnnoticed DEF Clocks!Decide
      <4> QED
        BY <3>1, <3>2, <4>1
           DEF ClocksInv, Clocks!TypeOK, ClocksSet, ClocksTold, Clocks!Decide
    <3>3. CASE ~Clocks!MayChange
      BY <3>1, <3>3
         DEF ClocksInv, Clocks!TypeOK, ClocksSet, ClocksTold, Clocks!Decide
    <3> QED
      BY <3>2, <3>3
  <2> QED
    BY <2>1
<1>4. ClocksWritten'
  BY DEF ClocksInv, Clocks!TypeOK, ClocksWritten, Clocks!Decide
<1> QED
  BY <1>1, <1>2, <1>3, <1>4 DEF ClocksInv

LEMMA ClocksSetCoefficientsInv ==
    ASSUME Clocks!ClocksAssumption, ClocksInv, NEW u \in Users,
           Clocks!SetCoefficients(u)
    PROVE  ClocksInv'
<1>1. Clocks!TypeOK'
  BY DEF ClocksInv, Clocks!TypeOK, Clocks!SetCoefficients
<1>2. ClocksCounted'
  BY DEF ClocksInv, ClocksCounted, Clocks!SetCoefficients
<1>3. \A w \in Users : ClocksSet(w)' /\ ClocksTold(w)'
  BY DEF ClocksInv, Clocks!TypeOK, ClocksSet, ClocksTold, Clocks!SetCoefficients
<1>4. ClocksWritten'
  BY DEF ClocksInv, ClocksSet, ClocksWritten, Clocks!SetCoefficients
<1> QED
  BY <1>1, <1>2, <1>3, <1>4 DEF ClocksInv

LEMMA ClocksInvariance ==
    ASSUME Clocks!ClocksAssumption
    PROVE  Clocks!Spec => []ClocksInv
<1>1. Clocks!Init => ClocksInv
  BY ClocksInitInv
<1>2. ClocksInv /\ [Clocks!Next]_(Clocks!vars) => ClocksInv'
  <2>1. ASSUME ClocksInv, UNCHANGED Clocks!vars PROVE ClocksInv'
    BY <2>1
       DEF ClocksInv, Clocks!TypeOK, ClocksCounted, ClocksSet, ClocksTold,
           ClocksWritten, Clocks!vars
  <2> QED
    BY <2>1, ClocksAcquireInv, ClocksReleaseInv, ClocksDecideInv,
       ClocksSetCoefficientsInv DEF Clocks!Next
<1> QED
  BY <1>1, <1>2, PTL DEF Clocks!Spec

\* The state of the shared PLL keeps its type.
THEOREM ClocksTyped ==
    ASSUME Clocks!ClocksAssumption
    PROVE  Clocks!Spec => []Clocks!TypeOK
<1>1. ClocksInv => Clocks!TypeOK
  BY DEF ClocksInv
<1> QED
  BY <1>1, ClocksInvariance, PTL

\* For any number of users: what a user was told is what is recorded as long
\* as it holds the PLL, and what the hardware runs at when no write is due.
THEOREM ClocksKept ==
    ASSUME Clocks!ClocksAssumption
    PROVE  Clocks!Spec => []Clocks!FrequencyKept
<1>1. ASSUME Clocks!ClocksAssumption, ClocksInv PROVE Clocks!FrequencyKept
  BY <1>1
     DEF ClocksInv, Clocks!TypeOK, ClocksCounted, ClocksTold, ClocksWritten,
         Clocks!FrequencyKept, Clocks!ClocksAssumption
<1> QED
  BY <1>1, ClocksInvariance, PTL

-----------------------------------------------------------------------------
\* BT is not disabled for good while IEEE 802.15.4 stays enabled: under "bt154" it
\* is, and takes the clock of the event task matrix from the other.
ModemApart == "bt154" \notin ModemLiberties

\* The uses of a module that a device is for.
ModemBy(m, d) == IF d \in Modem!Deps[m] THEN uses[m] ELSE 0
\* The uses of a device, by all modules.
ModemNeed(d) == ModemBy("wifi", d) + ModemBy("bt", d) + ModemBy("ieee802154", d) + ModemBy("coex", d)
                        + ModemBy("phy", d)

\* The count of a device is the number of its uses, a device that is used has its
\* clock, and a clock that is on and not lasting is that of a device that is used.
ModemInv ==
    /\ Modem!TypeOK
    /\ \A d \in Modem!Devices : refs[d] = ModemNeed(d)
    /\ \A d \in Modem!Devices : refs[d] > 0 => d \in lit
    /\ \A k \in lit \ Modem!Lasting : \E d \in Modem!Devices : refs[d] > 0 /\ k \in Modem!ClocksOf(d)

\* The modules and their devices.
LEMMA ModemModulesAre ==
    /\ Modem!Modules = {"wifi", "bt", "ieee802154", "coex", "phy"}
    /\ \A m \in Modem!Modules : Modem!Deps[m] \subseteq Modem!Devices
    /\ \A m \in Modem!Modules : "ble_mac" \in Modem!Deps[m] <=> m = "bt"
    /\ \A m \in Modem!Modules : "etm" \in Modem!Deps[m] <=> m \in {"bt", "ieee802154"}
BY DEF Modem!Modules, Modem!Deps, Modem!Devices

\* The uses are counted in numbers.
LEMMA ModemUses ==
    ASSUME Modem!TypeOK
    PROVE  \A m \in Modem!Modules : uses[m] \in Nat
BY DEF Modem!TypeOK

\* A device is needed when one of its modules is used.
LEMMA ModemNeedIs ==
    ASSUME Modem!TypeOK, MaxUses \in Nat, NEW d \in Modem!Devices
    PROVE  /\ ModemNeed(d) \in Nat
           /\ ModemNeed(d) > 0 <=> \E m \in Modem!Modules : uses[m] > 0 /\ d \in Modem!Deps[m]
<1>1. \A m \in Modem!Modules : ModemBy(m, d) \in Nat
  BY ModemUses DEF ModemBy
<1>2. \A m \in Modem!Modules : ModemBy(m, d) > 0 <=> uses[m] > 0 /\ d \in Modem!Deps[m]
  BY ModemUses DEF ModemBy
<1>3. ModemNeed(d) > 0 <=> \E m \in Modem!Modules : ModemBy(m, d) > 0
  BY <1>1, ModemModulesAre DEF ModemNeed
<1> QED
  BY <1>1, <1>2, <1>3, ModemModulesAre DEF ModemNeed

\* Each action preserves the invariant.
LEMMA ModemInitInv == Modem!ModemAssumption /\ Modem!Init => ModemInv
<1> SUFFICES ASSUME Modem!ModemAssumption, Modem!Init PROVE ModemInv
  OBVIOUS
<1>1. Modem!TypeOK
  BY DEF Modem!Init, Modem!TypeOK, Modem!ModemAssumption
<1>2. ASSUME NEW d \in Modem!Devices PROVE refs[d] = ModemNeed(d) /\ refs[d] = 0
  BY ModemModulesAre DEF Modem!Init, ModemNeed, ModemBy
<1> QED
  BY <1>1, <1>2 DEF ModemInv, Modem!Init

LEMMA ModemEnableInv ==
    ASSUME Modem!ModemAssumption, ModemInv, NEW m \in Modem!Modules,
           Modem!Enable(m)
    PROVE  ModemInv'
<1>0. /\ \A n \in Modem!Modules : uses[n] \in Nat
      /\ \A n \in Modem!Modules : uses'[n] = IF n = m THEN uses[n] + 1 ELSE uses[n]
  BY ModemUses DEF ModemInv, Modem!TypeOK, Modem!Enable
<1>1. \A d \in Modem!Devices :
         /\ refs[d] \in Nat
         /\ refs'[d] = IF d \in Modem!Deps[m] THEN refs[d] + 1 ELSE refs[d]
  BY DEF ModemInv, Modem!TypeOK, Modem!Enable
<1>2. \A d \in Modem!Devices : d \in Modem!ClocksOf(d) /\ Modem!ClocksOf(d) \subseteq Modem!Devices
  BY DEF Modem!ClocksOf, Modem!Devices
<1>3. Modem!TypeOK'
  <2>1. uses' \in [Modem!Modules -> 0 .. MaxUses]
    BY DEF ModemInv, Modem!TypeOK, Modem!Enable, Modem!ModemAssumption
  <2>2. refs' \in [Modem!Devices -> Nat]
    BY <1>1 DEF Modem!Enable
  <2>3. lit' \subseteq Modem!Devices
    BY <1>2, ModemModulesAre
       DEF ModemInv, Modem!TypeOK, Modem!Enable, Modem!ClocksOfAll
  <2> QED
    BY <2>1, <2>2, <2>3 DEF Modem!TypeOK
<1>4. ASSUME NEW d \in Modem!Devices PROVE refs'[d] = ModemNeed(d)'
  <2>1. \A n \in Modem!Modules :
           ModemBy(n, d)' = IF n = m /\ d \in Modem!Deps[m] THEN ModemBy(n, d) + 1
                                                            ELSE ModemBy(n, d)
    BY <1>0 DEF ModemBy
  <2>2. \A n \in Modem!Modules : ModemBy(n, d) \in Nat
    BY <1>0 DEF ModemBy
  <2>3. refs[d] = ModemNeed(d)
    BY DEF ModemInv
  <2> QED
    BY <2>1, <2>2, <2>3, <1>1, ModemModulesAre DEF ModemNeed
<1>5. \A d \in Modem!Devices : refs'[d] > 0 => d \in lit'
  BY <1>1, <1>2 DEF ModemInv, Modem!Enable, Modem!ClocksOfAll
<1>6. ASSUME NEW k \in lit' \ Modem!Lasting
      PROVE  \E d \in Modem!Devices : refs'[d] > 0 /\ k \in Modem!ClocksOf(d)
  <2>1. CASE k \in lit
    <3>1. PICK d \in Modem!Devices : refs[d] > 0 /\ k \in Modem!ClocksOf(d)
      BY <2>1 DEF ModemInv
    <3>2. refs'[d] > 0
      BY <3>1, <1>1
    <3> QED
      BY <3>1, <3>2
  <2>2. CASE k \notin lit
    <3>1. PICK d \in Modem!Deps[m] : k \in Modem!ClocksOf(d)
      BY <2>2 DEF Modem!Enable, Modem!ClocksOfAll
    <3>2. d \in Modem!Devices /\ refs'[d] > 0
      BY <3>1, <1>1, ModemModulesAre
    <3> QED
      BY <3>1, <3>2
  <2> QED
    BY <2>1, <2>2
<1> QED
  BY <1>3, <1>4, <1>5, <1>6 DEF ModemInv

LEMMA ModemDisableInv ==
    ASSUME Modem!ModemAssumption, ModemApart, ModemInv,
           NEW m \in Modem!Modules, Modem!Disable(m)
    PROVE  ModemInv'
<1>0. /\ \A n \in Modem!Modules : uses[n] \in Nat
      /\ uses[m] > 0
      /\ \A n \in Modem!Modules : uses'[n] = IF n = m THEN uses[n] - 1 ELSE uses[n]
  BY ModemUses DEF ModemInv, Modem!TypeOK, Modem!Disable
<1>1. \A d \in Modem!Devices :
         /\ refs[d] \in Nat
         /\ d \in Modem!Deps[m] => refs[d] > 0
         /\ refs'[d] = IF d \in Modem!Deps[m] THEN refs[d] - 1 ELSE refs[d]
  <2>1. \A d \in Modem!Devices :
           /\ refs[d] \in Nat
           /\ refs'[d] = IF d \in Modem!Deps[m] THEN refs[d] - 1 ELSE refs[d]
    BY DEF ModemInv, Modem!TypeOK, Modem!Disable
  <2>2. \A d \in Modem!Devices : d \in Modem!Deps[m] => refs[d] > 0
    BY <1>0, ModemNeedIs DEF ModemInv, Modem!ModemAssumption
  <2> QED
    BY <2>1, <2>2
<1>2. Modem!TypeOK'
  <2>1. uses' \in [Modem!Modules -> 0 .. MaxUses]
    BY DEF ModemInv, Modem!TypeOK, Modem!Disable, Modem!ModemAssumption
  <2>2. refs' \in [Modem!Devices -> Nat]
    BY <1>1 DEF Modem!Disable
  <2> QED
    BY <2>1, <2>2 DEF ModemInv, Modem!TypeOK, Modem!Disable
<1>3. ASSUME NEW d \in Modem!Devices PROVE refs'[d] = ModemNeed(d)'
  <2>1. \A n \in Modem!Modules :
           ModemBy(n, d)' = IF n = m /\ d \in Modem!Deps[m] THEN ModemBy(n, d) - 1
                                                            ELSE ModemBy(n, d)
    BY <1>0 DEF ModemBy
  <2>2. \A n \in Modem!Modules : ModemBy(n, d) \in Int
    BY <1>0 DEF ModemBy
  <2>3. refs[d] = ModemNeed(d)
    BY DEF ModemInv
  <2> QED
    BY <2>1, <2>2, <2>3, <1>1, ModemModulesAre DEF ModemNeed
<1>4. ASSUME NEW d \in Modem!Devices, refs'[d] > 0
      PROVE  d \in lit'
  <2>1. d \in lit
    BY <1>4, <1>1 DEF ModemInv
  <2>2. ASSUME NEW g \in Modem!Deps[m] \ Modem!Lasting, refs[g] = 1, d \in Modem!ClocksOf(g)
        PROVE  FALSE
    <3>1. CASE g = d
      BY <3>1, <2>2, <1>1, <1>4
    <3>2. CASE g # d
      <4>1. g = "ble_mac" /\ d = "etm" /\ m = "bt"
        BY <3>2, <2>2, ModemModulesAre DEF Modem!ClocksOf
      <4>2. uses["bt"] = 1
        BY <4>1, <2>2, <1>0, ModemModulesAre
           DEF ModemInv, ModemNeed, ModemBy, Modem!Devices
      <4>3. uses["ieee802154"] = 0
        BY <4>1, <4>2, <1>0, ModemModulesAre DEF Modem!Disable, ModemApart
      <4>4. refs["etm"] = 1
        BY <4>2, <4>3, <1>0, ModemModulesAre
           DEF ModemInv, ModemNeed, ModemBy, Modem!Devices
      <4> QED
        BY <4>1, <4>4, <1>1, <1>4, ModemModulesAre
    <3> QED
      BY <3>1, <3>2
  <2> QED
    BY <2>1, <2>2 DEF Modem!Disable, Modem!ClocksOfAll, Modem!Goes
<1>5. ASSUME NEW k \in lit' \ Modem!Lasting
      PROVE  \E d \in Modem!Devices : refs'[d] > 0 /\ k \in Modem!ClocksOf(d)
  <2>1. k \in lit \ Modem!Lasting
    BY DEF Modem!Disable
  <2>2. PICK d \in Modem!Devices : refs[d] > 0 /\ k \in Modem!ClocksOf(d)
    BY <2>1 DEF ModemInv
  <2>3. ASSUME ~(refs'[d] > 0)
        PROVE  FALSE
    <3>1. d \in Modem!Deps[m] /\ refs[d] = 1
      BY <2>2, <2>3, <1>1
    <3>2. d \notin Modem!Lasting
      BY <2>1, <2>2 DEF Modem!ClocksOf, Modem!Lasting
    <3> QED
      BY <3>1, <3>2, <2>2 DEF Modem!Disable, Modem!ClocksOfAll, Modem!Goes
  <2> QED
    BY <2>2, <2>3
<1> QED
  BY <1>2, <1>3, <1>4, <1>5 DEF ModemInv

\* The invariant holds throughout.
LEMMA ModemInvariance ==
    ASSUME Modem!ModemAssumption, ModemApart
    PROVE  Modem!Spec => []ModemInv
<1>1. Modem!Init => ModemInv
  BY ModemInitInv
<1>2. ModemInv /\ [Modem!Next]_(Modem!vars) => ModemInv'
  <2>1. ModemInv /\ UNCHANGED Modem!vars => ModemInv'
    BY DEF Modem!vars, ModemInv, Modem!TypeOK, ModemNeed, ModemBy
  <2> QED
    BY <2>1, ModemEnableInv, ModemDisableInv DEF Modem!Next
<1> QED
  BY <1>1, <1>2, PTL DEF Modem!Spec

\* The clocks of the devices of every module that is enabled are on, and no other
\* than those configured to last, however the modules are enabled and disabled
\* (modem_clock_module_enable, modem_clock_module_disable).
THEOREM ModemClocksKept ==
    ASSUME Modem!ModemAssumption, ModemApart
    PROVE  Modem!Spec => []Modem!ClocksMatch
<1>1. ModemInv => Modem!ClocksMatch
  <2> SUFFICES ASSUME ModemInv PROVE Modem!ClocksMatch
    OBVIOUS
  <2> PICK needed :
         needed = UNION {Modem!Deps[m] : m \in {n \in Modem!Modules : uses[n] > 0}}
    OBVIOUS
  <2>1. \A d \in Modem!Devices : d \in needed <=> refs[d] > 0
    BY ModemNeedIs DEF ModemInv, Modem!ModemAssumption
  <2>2. needed \subseteq Modem!Devices
    BY ModemModulesAre
  <2>3. needed \subseteq lit
    BY <2>1, <2>2 DEF ModemInv
  <2>4. lit \ Modem!Lasting \subseteq Modem!ClocksOfAll(needed)
    BY <2>1 DEF ModemInv, Modem!ClocksOfAll
  <2> QED
    BY <2>3, <2>4 DEF Modem!ClocksMatch
<1> QED
  BY <1>1, ModemInvariance, PTL

\* The counts never become negative and are of devices.
THEOREM ModemTyped ==
    ASSUME Modem!ModemAssumption, ModemApart
    PROVE  Modem!Spec => []Modem!TypeOK
<1>1. ModemInv => Modem!TypeOK
  BY DEF ModemInv
<1> QED
  BY <1>1, ModemInvariance, PTL

-----------------------------------------------------------------------------
\* A core is hung at most one period longer than the watchdog is not fed: while the
\* first core is well, a second one that is hung sets no flag for the next feed.
WatchHidden ==
    /\ hung[0] <= unfed
    /\ hung[1] <= unfed + 1
    /\ 0 \in well => /\ hook = "feed" => hung[1] <= 1
                     /\ hung[1] >= 2 => ~ticked /\ hook = "out"
                     /\ hung[1] = 1 /\ 0 \notin due /\ hook = "out" => ~ticked

\* While both are well, the watchdog is fed at least every other period.
WatchInTime ==
    well = Watch!Cores =>
        /\ unfed <= 2
        /\ 0 \in due => /\ hook = "out"
                        /\ ~ticked => unfed <= 1 /\ 1 \in due
        /\ hook = "clear" => unfed = 0
        /\ 0 \notin due /\ hook = "out" =>
              unfed = 0 \/ (unfed <= 1 /\ (1 \in due \/ ticked))

\* The invariant.
WatchInv ==
    /\ Watch!TypeOK
    /\ \A c \in well : hung[c] = 0
    /\ 0 \in well /\ 0 \in due => hook = "out"
    /\ WatchHidden
    /\ WatchInTime

\* Each action preserves the invariant.
LEMMA WatchInitInv == Watch!Init => WatchInv
<1> SUFFICES ASSUME Watch!Init PROVE WatchInv
  OBVIOUS
<1>1. hung[0] = 0 /\ hung[1] = 0
  BY DEF Watch!Init, Watch!Cores
<1>2. Watch!TypeOK /\ \A c \in well : hung[c] = 0
  BY DEF Watch!Init, Watch!TypeOK
<1>3. WatchHidden /\ WatchInTime
  BY <1>1 DEF Watch!Init, WatchHidden, WatchInTime, Watch!Cores
<1> QED
  BY <1>2, <1>3 DEF Watch!Init, WatchInv

LEMMA WatchTickSecondInv == WatchInv /\ Watch!TickSecond => WatchInv'
<1> SUFFICES ASSUME WatchInv, Watch!TickSecond PROVE WatchInv'
  OBVIOUS
<1>1. Watch!TypeOK' /\ \A c \in well' : hung'[c] = 0
  BY DEF WatchInv, Watch!TypeOK, Watch!TickSecond
<1>2. 0 \in well' /\ 0 \in due' => hook' = "out"
  BY DEF WatchInv, Watch!TickSecond
<1>3. WatchHidden'
  BY DEF WatchInv, Watch!TypeOK, WatchHidden, Watch!TickSecond, Watch!Cores
<1>4. WatchInTime'
  BY DEF WatchInv, Watch!TypeOK, WatchInTime, Watch!TickSecond, Watch!Cores
<1> QED
  BY <1>1, <1>2, <1>3, <1>4 DEF WatchInv

LEMMA WatchTickFirstInv == WatchInv /\ Watch!TickFirst => WatchInv'
<1> SUFFICES ASSUME WatchInv, Watch!TickFirst PROVE WatchInv'
  OBVIOUS
<1>1. Watch!TypeOK' /\ \A c \in well' : hung'[c] = 0
  BY DEF WatchInv, Watch!TypeOK, Watch!TickFirst
<1>2. 0 \in well' /\ 0 \in due' => hook' = "out"
  BY DEF WatchInv, Watch!TickFirst
<1>3. WatchHidden'
  BY DEF WatchInv, Watch!TypeOK, WatchHidden, Watch!TickFirst, Watch!Cores
<1>4. WatchInTime'
  BY DEF WatchInv, Watch!TypeOK, WatchInTime, Watch!TickFirst, Watch!Cores
<1> QED
  BY <1>1, <1>2, <1>3, <1>4 DEF WatchInv

LEMMA WatchFeedInv == WatchInv /\ Watch!Feed => WatchInv'
<1> SUFFICES ASSUME WatchInv, Watch!Feed PROVE WatchInv'
  OBVIOUS
<1>1. Watch!TypeOK' /\ \A c \in well' : hung'[c] = 0
  BY DEF WatchInv, Watch!TypeOK, Watch!Feed
<1>2. 0 \in well' /\ 0 \in due' => hook' = "out"
  BY DEF WatchInv, Watch!Feed
<1>3. WatchHidden'
  BY DEF WatchInv, Watch!TypeOK, WatchHidden, Watch!Feed, Watch!Cores
<1>4. WatchInTime'
  BY DEF WatchInv, Watch!TypeOK, WatchInTime, Watch!Feed, Watch!Cores
<1> QED
  BY <1>1, <1>2, <1>3, <1>4 DEF WatchInv

LEMMA WatchClearInv == WatchInv /\ Watch!Clear => WatchInv'
<1> SUFFICES ASSUME WatchInv, Watch!Clear PROVE WatchInv'
  OBVIOUS
<1>1. Watch!TypeOK' /\ \A c \in well' : hung'[c] = 0
  BY DEF WatchInv, Watch!TypeOK, Watch!Clear
<1>2. 0 \in well' /\ 0 \in due' => hook' = "out"
  BY DEF WatchInv, Watch!Clear
<1>3. WatchHidden'
  BY DEF WatchInv, Watch!TypeOK, WatchHidden, Watch!Clear, Watch!Cores
<1>4. WatchInTime'
  BY DEF WatchInv, Watch!TypeOK, WatchInTime, Watch!Clear, Watch!Cores
<1> QED
  BY <1>1, <1>2, <1>3, <1>4 DEF WatchInv

LEMMA WatchHangInv == \A c \in Watch!Cores : WatchInv /\ Watch!Hang(c) => WatchInv'
<1> SUFFICES ASSUME NEW c \in Watch!Cores, WatchInv, Watch!Hang(c) PROVE WatchInv'
  OBVIOUS
<1>1. Watch!TypeOK' /\ \A d \in well' : hung'[d] = 0
  BY DEF WatchInv, Watch!TypeOK, Watch!Hang
<1>2. 0 \in well' /\ 0 \in due' => hook' = "out"
  BY DEF WatchInv, Watch!Hang
<1>3. WatchHidden'
  BY DEF WatchInv, WatchHidden, Watch!Hang
<1>4. WatchInTime'
  BY DEF WatchInTime, Watch!Hang, Watch!Cores
<1> QED
  BY <1>1, <1>2, <1>3, <1>4 DEF WatchInv

LEMMA WatchPeriodInv == WatchInv /\ Watch!Period => WatchInv'
<1> SUFFICES ASSUME WatchInv, Watch!Period PROVE WatchInv'
  OBVIOUS
<1>0. /\ \A c \in Watch!Cores : hung'[c] = IF c \in well THEN 0 ELSE hung[c] + 1
      /\ hung' \in [Watch!Cores -> Nat] /\ unfed' = unfed + 1 /\ unfed' \in Nat
      /\ 0 \in Watch!Cores /\ 1 \in Watch!Cores
      /\ \A c \in Watch!Cores : hung[c] \in Nat
  BY DEF WatchInv, Watch!TypeOK, Watch!Period, Watch!Cores
<1>1. Watch!TypeOK' /\ \A c \in well' : hung'[c] = 0
  BY <1>0 DEF WatchInv, Watch!TypeOK, Watch!Period
<1>2. 0 \in well' /\ 0 \in due' => hook' = "out"
  BY DEF WatchInv, Watch!Period
<1>3. WatchHidden'
  <2>1. hung'[0] <= unfed' /\ hung'[1] <= unfed' + 1
    BY <1>0 DEF WatchInv, Watch!TypeOK, WatchHidden
  <2>2. 0 \in well => hook = "out" /\ 0 \notin due
    BY DEF Watch!Period
  <2>3. 1 \in well \/ (hung'[1] >= 2 => hung[1] >= 1)
    BY <1>0
  <2>4. hung[1] >= 1 => hung[1] = 1 \/ hung[1] >= 2
    BY <1>0
  <2>5. 0 \in well /\ hung'[1] >= 2 => ~ticked
    BY <1>0, <2>2, <2>3, <2>4 DEF WatchInv, WatchHidden
  <2>6. 0 \in due'
    BY <1>0 DEF Watch!Period
  <2> QED
    BY <2>1, <2>2, <2>5, <2>6 DEF WatchHidden, Watch!Period
<1>4. WatchInTime'
  BY <1>0 DEF WatchInv, Watch!TypeOK, WatchInTime, Watch!Period
<1> QED
  BY <1>1, <1>2, <1>3, <1>4 DEF WatchInv

\* The invariant holds throughout.
LEMMA WatchInvariance == Watch!Spec => []WatchInv
<1>1. Watch!Init => WatchInv
  BY WatchInitInv
<1>2. WatchInv /\ [Watch!Next]_(Watch!vars) => WatchInv'
  <2>1. WatchInv /\ UNCHANGED Watch!vars => WatchInv'
    BY DEF Watch!vars, WatchInv, Watch!TypeOK, WatchHidden, WatchInTime
  <2> QED
    BY <2>1, WatchTickSecondInv, WatchTickFirstInv, WatchFeedInv,
       WatchClearInv, WatchHangInv, WatchPeriodInv DEF Watch!Next
<1> QED
  BY <1>1, <1>2, PTL DEF Watch!Spec

\* A core that is hung shows in a watchdog that is not fed, at most one period
\* later, and while both cores are well it is fed in time (tick_hook).
THEOREM WatchShown == Watch!Spec => []Watch!HangsShow
<1>1. WatchInv => Watch!HangsShow
  BY DEF WatchInv, Watch!TypeOK, WatchHidden, WatchInTime, Watch!HangsShow,
         Watch!Cores
<1> QED
  BY <1>1, WatchInvariance, PTL

\* The periods, the flag and the places of the hook keep their types.
THEOREM WatchTyped == Watch!Spec => []Watch!TypeOK
<1>1. WatchInv => Watch!TypeOK
  BY DEF WatchInv
<1> QED
  BY <1>1, WatchInvariance, PTL

-----------------------------------------------------------------------------
\* What a task may be doing.
EtmCall == [pc : {"none", "search", "giveUp", "next", "clear", "unregister",
                  "release"},
            h : Handles \cup {None}, g : Etm!Groups]

\* The types, of the channels and the calls as functions.
EtmTypeInv ==
    /\ Etm!TypeOK
    /\ chan \in [Handles -> Etm!Chan \cup {None}]
    /\ call \in [Tasks -> EtmCall]

\* The channels that refer to a group, and the tasks that look for one in it.
EtmOf(g)      == {h \in Handles : chan[h] # None /\ chan[h].g = g}
EtmLooking(g) == {t \in Tasks : call[t].g = g /\ call[t].pc \in {"search", "giveUp"}}

\* What a call says of its handle: it is that call's alone, without a channel while
\* it looks for one, and with a disabled one while it gives it up.
EtmDoing(t) ==
    /\ call[t].pc = "none" => call[t] = Etm!NoCall
    /\ call[t].pc = "search" => call[t].h # None
    /\ call[t].pc \in {"search", "giveUp", "next"} =>
          call[t].h = None \/ chan[call[t].h] = None
    /\ call[t].pc = "next" => call[t].g + 1 \in Etm!Groups
    /\ call[t].pc \in {"clear", "unregister", "release"} =>
          /\ call[t].h # None
          /\ chan[call[t].h] # None
          /\ chan[call[t].h].g = call[t].g
          /\ ~chan[call[t].h].ena
    /\ \A u \in Tasks : call[u].h = call[t].h /\ call[t].h # None => u = t

\* A handle is in a call at one of some places.
EtmAt(h, pcs) == \E t \in Tasks : call[t].h = h /\ call[t].pc \in pcs

\* A channel is in its slot until it is released, enabled as it says, and listens
\* to its event until it is disconnected.
EtmPlaced(h) ==
    chan[h] # None =>
        LET k == chan[h]
        IN  /\ ~EtmAt(h, {"release"}) => slot[k.g][k.c] = h /\ ena[k.g][k.c] = k.ena
            /\ ~EtmAt(h, {"unregister", "release"}) => reg[k.g][k.c] = k.ev
            /\ EtmAt(h, {"unregister"}) => reg[k.g][k.c] = None

\* In a group that is up a slot without a handle neither listens nor is enabled, and
\* one with a handle is that handle's own.
EtmTaken(g, c) ==
    up[g] =>
        IF slot[g][c] = None THEN reg[g][c] = None /\ ~ena[g][c]
        ELSE /\ chan[slot[g][c]] # None
             /\ chan[slot[g][c]].g = g /\ chan[slot[g][c]].c = c
             /\ ~EtmAt(slot[g][c], {"release"})

\* A group counts the channels and the tasks that refer to it, and is up with one.
EtmCounted(g) ==
    /\ groupRef[g] = Cardinality(EtmOf(g)) + Cardinality(EtmLooking(g))
    /\ up[g] <=> groupRef[g] > 0

\* The invariant.
EtmInv ==
    /\ EtmTypeInv
    /\ \A t \in Tasks : EtmDoing(t)
    /\ \A h \in Handles : EtmPlaced(h)
    /\ \A g \in Etm!Groups, c \in Etm!Chans : EtmTaken(g, c)
    /\ \A g \in Etm!Groups : EtmCounted(g)

\* Counting with one element more or less.
LEMMA EtmOneMore ==
    ASSUME NEW S, IsFiniteSet(S), NEW x
    PROVE  /\ Cardinality(S) \in Nat
           /\ Cardinality(S) = 0 => S = {}
           /\ Cardinality(S \cup {x}) =
                 IF x \in S THEN Cardinality(S) ELSE Cardinality(S) + 1
           /\ Cardinality(S \ {x}) =
                 IF x \in S THEN Cardinality(S) - 1 ELSE Cardinality(S)
           /\ x \in S => Cardinality(S) > 0
<1>1. Cardinality(S) \in Nat
  BY FS_CardinalityType
<1>2. Cardinality(S) = 0 => S = {}
  BY FS_EmptySet
<1>3. x \notin S => Cardinality(S \cup {x}) = Cardinality(S) + 1
  BY FS_AddElement
<1>4. x \in S => S \cup {x} = S
  OBVIOUS
<1>5. IsFiniteSet(S \ {x}) /\ (x \in S => Cardinality(S \ {x}) = Cardinality(S) - 1)
  BY FS_RemoveElement
<1>6. x \notin S => S \ {x} = S
  OBVIOUS
<1>7. Cardinality(S \ {x}) \in Nat
  BY <1>5, FS_CardinalityType
<1>8. ASSUME x \in S
      PROVE  /\ Cardinality(S \cup {x}) = Cardinality(S)
             /\ Cardinality(S \ {x}) = Cardinality(S) - 1
             /\ Cardinality(S) > 0
  <2>1. S # {}
    BY <1>8
  <2>2. Cardinality(S) # 0
    BY <1>2, <2>1
  <2>3. Cardinality(S) > 0
    BY <1>1, <2>2
  <2> QED
    BY <1>4, <1>5, <1>8, <2>3
<1>9. ASSUME x \notin S
      PROVE  /\ Cardinality(S \cup {x}) = Cardinality(S) + 1
             /\ Cardinality(S \ {x}) = Cardinality(S)
  BY <1>3, <1>6, <1>9
<1> QED
  BY <1>1, <1>2, <1>8, <1>9

\* What is counted is finite.
LEMMA EtmFinite ==
    ASSUME Etm!EtmAssumption, NEW g
    PROVE  IsFiniteSet(EtmOf(g)) /\ IsFiniteSet(EtmLooking(g))
BY FS_Subset, Library DEF Etm!EtmAssumption, EtmOf, EtmLooking

\* Each action preserves the invariant.
LEMMA EtmInitInv == ASSUME Etm!EtmAssumption PROVE Etm!Init => EtmInv
<1> SUFFICES ASSUME Etm!EtmAssumption, Etm!Init PROVE EtmInv
  OBVIOUS
<1>1. EtmTypeInv
  <2>1. 0 \in Etm!Groups
    BY DEF Etm!Groups, Etm!EtmAssumption
  <2>2. Etm!NoCall \in EtmCall
    BY <2>1 DEF Etm!NoCall, EtmCall
  <2> QED
    BY <2>1, <2>2 DEF Etm!Init, EtmTypeInv, Etm!TypeOK, Etm!NoCall
<1>2. \A t \in Tasks : EtmDoing(t)
  BY DEF Etm!Init, EtmDoing, Etm!NoCall
<1>3. \A h \in Handles : EtmPlaced(h)
  BY DEF Etm!Init, EtmPlaced
<1>4. \A g \in Etm!Groups, c \in Etm!Chans : EtmTaken(g, c)
  BY DEF Etm!Init, EtmTaken
<1>5. ASSUME NEW g \in Etm!Groups PROVE EtmCounted(g)
  <2>1. EtmOf(g) = {} /\ EtmLooking(g) = {}
    BY DEF Etm!Init, EtmOf, EtmLooking, Etm!NoCall
  <2> QED
    BY <2>1, FS_EmptySet DEF Etm!Init, EtmCounted
<1> QED
  BY <1>1, <1>2, <1>3, <1>4, <1>5 DEF EtmInv

\* A group nobody refers to has no channel.
LEMMA EtmNoneInNew ==
    ASSUME Etm!EtmAssumption, EtmInv, NEW g \in Etm!Groups, ~up[g], NEW h \in Handles,
           chan[h] # None
    PROVE  chan[h].g # g
<1>1. Cardinality(EtmOf(g)) = 0
  <2>1. Cardinality(EtmOf(g)) \in Nat /\ Cardinality(EtmLooking(g)) \in Nat
    BY EtmFinite, EtmOneMore
  <2> QED
    BY <2>1 DEF EtmInv, EtmCounted
<1>2. EtmOf(g) = {}
  BY <1>1, EtmFinite, EtmOneMore
<1> QED
  BY <1>2 DEF EtmOf

LEMMA EtmAcquireInv ==
    ASSUME Etm!EtmAssumption, EtmInv, NEW t \in Tasks,
           NEW h \in Handles \cup {None},
           NEW g \in Etm!Groups, NEW pc \in {"search", "giveUp"},
           pc = "search" => h # None,
           call[t].pc \in {"none", "next"},
           h # None => chan[h] = None /\ \A u \in Tasks : call[u].h = h => u = t,
           Etm!AcquireGroup(t, h, g, pc), UNCHANGED chan
    PROVE  EtmInv'
<1>0. Etm!NewGroup(g) = ~up[g]
  BY DEF Etm!NewGroup
<1>1. EtmTypeInv'
  <2>1. call' \in [Tasks -> EtmCall]
    BY DEF EtmInv, EtmTypeInv, Etm!AcquireGroup, EtmCall
  <2>2. groupRef' \in [Etm!Groups -> Nat] /\ up' \in [Etm!Groups -> BOOLEAN]
    BY DEF EtmInv, EtmTypeInv, Etm!TypeOK, Etm!AcquireGroup
  <2>3. /\ slot' \in [Etm!Groups -> [Etm!Chans -> Handles \cup {None}]]
        /\ reg' \in [Etm!Groups -> [Etm!Chans -> Events \cup {None}]]
        /\ ena' \in [Etm!Groups -> [Etm!Chans -> BOOLEAN]]
    <3>1. [d \in Etm!Chans |-> None] \in [Etm!Chans -> Handles \cup {None}]
          /\ [d \in Etm!Chans |-> None] \in [Etm!Chans -> Events \cup {None}]
          /\ [d \in Etm!Chans |-> FALSE] \in [Etm!Chans -> BOOLEAN]
      OBVIOUS
    <3>2. slot' \in [Etm!Groups -> [Etm!Chans -> Handles \cup {None}]]
      BY <3>1 DEF EtmInv, EtmTypeInv, Etm!TypeOK, Etm!AcquireGroup
    <3>3. reg' \in [Etm!Groups -> [Etm!Chans -> Events \cup {None}]]
      BY <3>1 DEF EtmInv, EtmTypeInv, Etm!TypeOK, Etm!AcquireGroup
    <3>4. ena' \in [Etm!Groups -> [Etm!Chans -> BOOLEAN]]
      BY <3>1 DEF EtmInv, EtmTypeInv, Etm!TypeOK, Etm!AcquireGroup
    <3> QED
      BY <3>2, <3>3, <3>4
  <2> QED
    BY <2>1, <2>2, <2>3 DEF EtmInv, EtmTypeInv, Etm!TypeOK, EtmCall, Etm!Chan
<1>2. ASSUME NEW u \in Tasks PROVE EtmDoing(u)'
  BY DEF EtmInv, EtmTypeInv, EtmDoing, Etm!AcquireGroup, EtmCall, Etm!NoCall
<1>3. ASSUME NEW k \in Handles PROVE EtmPlaced(k)'
  <2>1. \A pcs \in SUBSET {"unregister", "release"} : EtmAt(k, pcs)' <=> EtmAt(k, pcs)
    BY DEF EtmInv, EtmTypeInv, EtmAt, Etm!AcquireGroup, EtmCall
  <2>2. EtmAt(k, {"unregister"})' <=> EtmAt(k, {"unregister"})
    BY <2>1
  <2>3. EtmAt(k, {"release"})' <=> EtmAt(k, {"release"})
    BY <2>1
  <2>4. EtmAt(k, {"unregister", "release"})' <=> EtmAt(k, {"unregister", "release"})
    BY <2>1
  <2>5. chan[k] # None => chan[k] \in Etm!Chan
    BY DEF EtmInv, EtmTypeInv
  <2>6. chan[k] # None /\ ~up[g] => chan[k].g # g
    BY EtmNoneInNew
  <2>7. chan' = chan
    BY DEF Etm!AcquireGroup
  <2>8. ASSUME chan[k] # None
        PROVE  /\ slot'[chan[k].g][chan[k].c] = slot[chan[k].g][chan[k].c]
               /\ reg'[chan[k].g][chan[k].c] = reg[chan[k].g][chan[k].c]
               /\ ena'[chan[k].g][chan[k].c] = ena[chan[k].g][chan[k].c]
    <3>1. PICK i : i = chan[k].g
      OBVIOUS
    <3>2. i \in Etm!Groups /\ (i = g => up[g])
      BY <2>5, <2>6, <2>8, <3>1 DEF Etm!Chan
    <3>3. slot'[i] = slot[i] /\ reg'[i] = reg[i] /\ ena'[i] = ena[i]
      BY <1>0, <3>2
         DEF EtmInv, EtmTypeInv, Etm!TypeOK, Etm!AcquireGroup
    <3> QED
      BY <3>1, <3>3
  <2> QED
    BY <2>2, <2>3, <2>4, <2>7, <2>8 DEF EtmInv, EtmPlaced
<1>4. ASSUME NEW i \in Etm!Groups, NEW c \in Etm!Chans PROVE EtmTaken(i, c)'
  <2>1. CASE i = g /\ ~up[g]
    <3>1. /\ slot'[i] = [d \in Etm!Chans |-> None]
          /\ reg'[i] = [d \in Etm!Chans |-> None]
          /\ ena'[i] = [d \in Etm!Chans |-> FALSE]
      BY <1>0, <2>1 DEF EtmInv, EtmTypeInv, Etm!TypeOK, Etm!AcquireGroup
    <3> QED
      BY <3>1 DEF EtmTaken
  <2>2. CASE ~(i = g /\ ~up[g])
    <3>1. up'[i] = up[i] \/ (i = g /\ up[g])
      BY <2>2 DEF EtmInv, EtmTypeInv, Etm!TypeOK, Etm!AcquireGroup
    <3>2. slot'[i] = slot[i] /\ reg'[i] = reg[i] /\ ena'[i] = ena[i]
      BY <1>0, <2>2 DEF EtmInv, EtmTypeInv, Etm!TypeOK, Etm!AcquireGroup
    <3> DEFINE k == slot[i][c]
    <3>3. \A u \in Tasks : call'[u].pc = "release" => call[u] = call'[u]
      BY DEF EtmInv, EtmTypeInv, Etm!AcquireGroup, EtmCall
    <3>4. ASSUME ~EtmAt(k, {"release"}), slot'[i][c] = k
          PROVE  ~EtmAt(slot[i][c], {"release"})'
      BY <3>3, <3>4 DEF EtmAt
    <3>5. EtmTaken(i, c)
      BY DEF EtmInv
    <3>6. slot'[i][c] = k
      BY <3>2
    <3>7. UNCHANGED chan
      OBVIOUS
    <3> QED
      BY <3>1, <3>2, <3>4, <3>5, <3>6, <3>7 DEF EtmTaken
  <2> QED
    BY <2>1, <2>2
<1>5. ASSUME NEW i \in Etm!Groups PROVE EtmCounted(i)'
  <2>1. EtmOf(i)' = EtmOf(i)
    BY DEF EtmOf
  <2>2. EtmLooking(i)' = IF i = g THEN EtmLooking(i) \cup {t} ELSE EtmLooking(i)
    BY DEF EtmInv, EtmTypeInv, EtmLooking, Etm!AcquireGroup, EtmCall
  <2>3. t \notin EtmLooking(i)
    BY DEF EtmLooking
  <2>4. EtmCounted(i)
    BY DEF EtmInv
  <2>5. groupRef'[i] = IF i = g THEN groupRef[i] + 1 ELSE groupRef[i]
    BY DEF EtmInv, EtmTypeInv, Etm!TypeOK, Etm!AcquireGroup
  <2>6. up'[i] = IF i = g THEN TRUE ELSE up[i]
    BY DEF EtmInv, EtmTypeInv, Etm!TypeOK, Etm!AcquireGroup
  <2>7. Cardinality(EtmOf(i)) \in Nat /\ Cardinality(EtmLooking(i)) \in Nat
        /\ Cardinality(EtmLooking(i) \cup {t}) = Cardinality(EtmLooking(i)) + 1
    BY <2>3, EtmFinite, EtmOneMore
  <2> QED
    BY <2>1, <2>2, <2>4, <2>5, <2>6, <2>7 DEF EtmCounted
<1> QED
  BY <1>1, <1>2, <1>3, <1>4, <1>5 DEF EtmInv

LEMMA EtmStartInv ==
    ASSUME Etm!EtmAssumption, EtmInv, NEW t \in Tasks,
           NEW h \in Handles \cup {None},
           Etm!Start(t, h)
    PROVE  EtmInv'
<1>1. 0 \in Etm!Groups
  BY DEF Etm!Groups, Etm!EtmAssumption
<1>2. call[t].pc \in {"none", "next"}
  BY DEF Etm!Start, Etm!NoCall
<1>3. h # None => chan[h] = None /\ \A u \in Tasks : call[u].h = h => u = t
  BY DEF Etm!Start, Etm!Spare
<1>4. h \in Handles => h # None
  BY DEF Etm!EtmAssumption
<1> DEFINE pc == IF h = None THEN "giveUp" ELSE "search"
<1>5. pc \in {"search", "giveUp"} /\ (pc = "search" => h # None)
  OBVIOUS
<1>6. Etm!AcquireGroup(t, h, 0, pc) /\ UNCHANGED chan
  BY DEF Etm!Start
<1> HIDE DEF pc
<1> QED
  BY <1>1, <1>2, <1>3, <1>5, <1>6, EtmAcquireInv

LEMMA EtmNextGroupInv ==
    ASSUME Etm!EtmAssumption, EtmInv, NEW t \in Tasks, Etm!NextGroup(t)
    PROVE  EtmInv'
<1> DEFINE h == call[t].h
           g == call[t].g + 1
           pc == IF h = None THEN "giveUp" ELSE "search"
<1>1. h \in Handles \cup {None}
  BY DEF EtmInv, EtmTypeInv, EtmCall
<1>2. call[t].pc \in {"none", "next"}
  BY DEF Etm!NextGroup
<1>3. g \in Etm!Groups
  BY DEF Etm!NextGroup, EtmInv, EtmDoing
<1>4. h # None => chan[h] = None /\ \A u \in Tasks : call[u].h = h => u = t
  BY DEF Etm!NextGroup, EtmInv, EtmDoing
<1>5. pc \in {"search", "giveUp"} /\ (pc = "search" => h # None)
  OBVIOUS
<1>6. Etm!AcquireGroup(t, h, g, pc) /\ UNCHANGED chan
  BY DEF Etm!NextGroup
<1> HIDE DEF h, g, pc
<1> QED
  BY <1>1, <1>2, <1>3, <1>4, <1>5, <1>6, EtmAcquireInv

LEMMA EtmNoMemoryInv ==
    ASSUME Etm!EtmAssumption, EtmInv, NEW t \in Tasks, Etm!NoMemory(t)
    PROVE  EtmInv'
<1>0. 0 \in Etm!Groups
  BY DEF Etm!Groups, Etm!EtmAssumption
<1>1. EtmTypeInv'
  BY <1>0 DEF EtmInv, EtmTypeInv, Etm!TypeOK, Etm!NoMemory, EtmCall, Etm!NoCall
<1>2. ASSUME NEW u \in Tasks PROVE EtmDoing(u)'
  BY DEF EtmInv, EtmTypeInv, EtmDoing, Etm!NoMemory, EtmCall, Etm!NoCall
<1>3. ASSUME NEW k, NEW pcs \in SUBSET {"unregister", "release"}
      PROVE  EtmAt(k, pcs)' <=> EtmAt(k, pcs)
  BY DEF EtmInv, EtmTypeInv, EtmAt, Etm!NoMemory, Etm!NoCall, EtmCall
<1>4. ASSUME NEW k \in Handles PROVE EtmPlaced(k)'
  BY <1>3 DEF EtmInv, EtmPlaced, Etm!NoMemory
<1>5. ASSUME NEW g \in Etm!Groups, NEW c \in Etm!Chans PROVE EtmTaken(g, c)'
  BY <1>3 DEF EtmInv, EtmTaken, Etm!NoMemory
<1>6. ASSUME NEW g \in Etm!Groups PROVE EtmCounted(g)'
  <2>1. EtmOf(g)' = EtmOf(g)
    BY DEF EtmOf, Etm!NoMemory
  <2>2. EtmLooking(g)' = EtmLooking(g)
    BY DEF EtmInv, EtmTypeInv, EtmLooking, Etm!NoMemory, Etm!NoCall, EtmCall
  <2> QED
    BY <2>1, <2>2 DEF EtmInv, EtmCounted, Etm!NoMemory
<1> QED
  BY <1>1, <1>2, <1>4, <1>5, <1>6 DEF EtmInv

LEMMA EtmGiveUpInv ==
    ASSUME Etm!EtmAssumption, EtmInv, NEW t \in Tasks, Etm!GiveUp(t)
    PROVE  EtmInv'
<1> DEFINE g == call[t].g
<1>0. 0 \in Etm!Groups /\ call[t] \in EtmCall /\ g \in Etm!Groups
  BY DEF Etm!Groups, Etm!EtmAssumption, EtmInv, EtmTypeInv, EtmCall
<1>1. /\ call[t].pc = "giveUp"
      /\ call' = [call EXCEPT ![t] = call'[t]]
      /\ \/ call'[t] = Etm!NoCall
         \/ call'[t] = [call[t] EXCEPT !.pc = "next"] /\ g + 1 \in Etm!Groups
      /\ UNCHANGED <<slot, reg, ena, chan>>
      /\ groupRef' = [groupRef EXCEPT ![g] = @ - 1]
      /\ up' = [up EXCEPT ![g] = groupRef[g] > 1]
  BY DEF EtmInv, EtmTypeInv, Etm!GiveUp, Etm!ReleaseGroup, Etm!Shared, Etm!Goto
<1>2. t \in EtmLooking(g)
  BY <1>1 DEF EtmLooking
<1>3. groupRef[g] \in Nat /\ groupRef[g] > 0 /\ up[g]
  <2>1. EtmCounted(g)
    BY <1>0 DEF EtmInv
  <2>2. Cardinality(EtmLooking(g)) > 0 /\ Cardinality(EtmLooking(g)) \in Nat
    BY <1>2, EtmFinite, EtmOneMore
  <2>3. Cardinality(EtmOf(g)) \in Nat
    BY EtmFinite, EtmOneMore
  <2> QED
    BY <2>1, <2>2, <2>3 DEF EtmCounted
<1>4. EtmTypeInv'
  <2>1. call'[t] \in EtmCall
    BY <1>0, <1>1 DEF EtmCall, Etm!NoCall
  <2>2. call' \in [Tasks -> EtmCall]
    BY <1>1, <2>1 DEF EtmInv, EtmTypeInv
  <2>3. groupRef' \in [Etm!Groups -> Nat] /\ up' \in [Etm!Groups -> BOOLEAN]
    BY <1>0, <1>1, <1>3 DEF EtmInv, EtmTypeInv, Etm!TypeOK
  <2> QED
    BY <1>1, <2>2, <2>3 DEF EtmInv, EtmTypeInv, Etm!TypeOK, EtmCall
<1>5. ASSUME NEW u \in Tasks PROVE EtmDoing(u)'
  BY <1>0, <1>1 DEF EtmInv, EtmTypeInv, EtmDoing, EtmCall, Etm!NoCall
<1>6. ASSUME NEW k, NEW pcs \in SUBSET {"unregister", "release"}
      PROVE  EtmAt(k, pcs)' <=> EtmAt(k, pcs)
  BY <1>1 DEF EtmInv, EtmTypeInv, EtmAt, Etm!NoCall, EtmCall
<1>7. ASSUME NEW k \in Handles PROVE EtmPlaced(k)'
  BY <1>1, <1>6 DEF EtmInv, EtmPlaced
<1>8. ASSUME NEW i \in Etm!Groups, NEW c \in Etm!Chans PROVE EtmTaken(i, c)'
  <2>1. up'[i] => up[i]
    BY <1>1, <1>3 DEF EtmInv, EtmTypeInv, Etm!TypeOK
  <2> QED
    BY <1>1, <1>6, <2>1 DEF EtmInv, EtmTaken
<1>9. ASSUME NEW i \in Etm!Groups PROVE EtmCounted(i)'
  <2>1. EtmOf(i)' = EtmOf(i)
    BY <1>1 DEF EtmOf
  <2>2. EtmLooking(i)' = IF i = g THEN EtmLooking(i) \ {t} ELSE EtmLooking(i)
    BY <1>1 DEF EtmInv, EtmTypeInv, EtmLooking, Etm!NoCall, EtmCall
  <2>3. EtmCounted(i)
    BY DEF EtmInv
  <2>4. /\ groupRef'[i] = IF i = g THEN groupRef[i] - 1 ELSE groupRef[i]
        /\ up'[i] = IF i = g THEN groupRef[i] > 1 ELSE up[i]
    BY <1>1 DEF EtmInv, EtmTypeInv, Etm!TypeOK
  <2>5. /\ Cardinality(EtmOf(i)) \in Nat /\ Cardinality(EtmLooking(i)) \in Nat
        /\ i = g => Cardinality(EtmLooking(i) \ {t}) = Cardinality(EtmLooking(i)) - 1
    BY <1>2, EtmFinite, EtmOneMore
  <2>6. groupRef'[i] = Cardinality(EtmOf(i)') + Cardinality(EtmLooking(i)')
    BY <2>1, <2>2, <2>3, <2>4, <2>5 DEF EtmCounted
  <2>7. up'[i] <=> groupRef'[i] > 0
    <3>1. groupRef[i] \in Nat
      BY DEF EtmInv, EtmTypeInv, Etm!TypeOK
    <3>2. CASE i = g
      <4>1. up'[i] = (groupRef[i] > 1) /\ groupRef'[i] = groupRef[i] - 1
        BY <2>4, <3>2
      <4>2. (groupRef[i] > 1) <=> (groupRef[i] - 1 > 0)
        BY <3>1
      <4> QED
        BY <4>1, <4>2
    <3>3. CASE i # g
      BY <2>3, <2>4, <3>3 DEF EtmCounted
    <3> QED
      BY <3>2, <3>3
  <2> QED
    BY <2>6, <2>7 DEF EtmCounted
<1> QED
  BY <1>4, <1>5, <1>7, <1>8, <1>9 DEF EtmInv

LEMMA EtmDeleteInv ==
    ASSUME Etm!EtmAssumption, EtmInv, NEW t \in Tasks, NEW h \in Handles,
           Etm!Delete(t, h)
    PROVE  EtmInv'
<1>0. chan[h] \in Etm!Chan /\ h # None /\ \A u \in Tasks : call[u].h # h
  BY DEF Etm!Delete, Etm!Live, EtmInv, EtmTypeInv, Etm!EtmAssumption
<1>1. EtmTypeInv'
  BY <1>0
     DEF EtmInv, EtmTypeInv, Etm!TypeOK, Etm!Delete, Etm!KeptWhileCleared,
         EtmCall, Etm!Chan
<1>2. ASSUME NEW u \in Tasks PROVE EtmDoing(u)'
  BY <1>0
     DEF EtmInv, EtmTypeInv, EtmDoing, Etm!Delete, Etm!Live, EtmCall,
         Etm!NoCall
<1>3. ASSUME NEW k, NEW pcs \in SUBSET {"unregister", "release"}
      PROVE  EtmAt(k, pcs)' <=> EtmAt(k, pcs)
  BY DEF EtmInv, EtmTypeInv, EtmAt, Etm!Delete, Etm!NoCall, EtmCall
<1>4. ASSUME NEW k \in Handles PROVE EtmPlaced(k)'
  BY <1>3 DEF EtmInv, EtmPlaced, Etm!Delete, Etm!KeptWhileCleared
<1>5. ASSUME NEW g \in Etm!Groups, NEW c \in Etm!Chans PROVE EtmTaken(g, c)'
  BY <1>3 DEF EtmInv, EtmTaken, Etm!Delete, Etm!KeptWhileCleared
<1>6. ASSUME NEW g \in Etm!Groups PROVE EtmCounted(g)'
  <2>1. EtmOf(g)' = EtmOf(g)
    BY DEF EtmOf, Etm!Delete
  <2>2. EtmLooking(g)' = EtmLooking(g)
    BY DEF EtmInv, EtmTypeInv, EtmLooking, Etm!Delete, Etm!NoCall, EtmCall
  <2> QED
    BY <2>1, <2>2 DEF EtmInv, EtmCounted, Etm!Delete
<1> QED
  BY <1>1, <1>2, <1>4, <1>5, <1>6 DEF EtmInv

\* A channel that is not about to be given up has its place to itself.
LEMMA EtmOwn ==
    ASSUME Etm!EtmAssumption, EtmInv, NEW h \in Handles, chan[h] # None,
           ~EtmAt(h, {"release"}), NEW k \in Handles, chan[k] # None, ~EtmAt(k, {"release"}),
           chan[k].g = chan[h].g, chan[k].c = chan[h].c
    PROVE  k = h
BY DEF EtmInv, EtmPlaced

\* The group of a channel that exists is up.
LEMMA EtmGroupUp ==
    ASSUME Etm!EtmAssumption, EtmInv, NEW h \in Handles, chan[h] # None
    PROVE  up[chan[h].g] /\ chan[h] \in Etm!Chan /\ groupRef[chan[h].g] > 0
<1>1. chan[h] \in Etm!Chan
  BY DEF EtmInv, EtmTypeInv
<1>2. EtmCounted(chan[h].g)
  BY <1>1 DEF EtmInv, Etm!Chan
<1>3. h \in EtmOf(chan[h].g)
  BY DEF EtmOf
<1>4. Cardinality(EtmOf(chan[h].g)) > 0 /\ Cardinality(EtmOf(chan[h].g)) \in Nat
  BY <1>3, EtmFinite, EtmOneMore
<1>5. Cardinality(EtmLooking(chan[h].g)) \in Nat
  BY EtmFinite, EtmOneMore
<1> QED
  BY <1>1, <1>2, <1>4, <1>5 DEF EtmCounted

LEMMA EtmConnectInv ==
    ASSUME Etm!EtmAssumption, EtmInv, NEW h \in Handles,
           NEW e \in Events \cup {None},
           Etm!Connect(h, e)
    PROVE  EtmInv'
<1>0. /\ chan[h] \in Etm!Chan /\ h # None /\ chan[h] # None
      /\ \A u \in Tasks : call[u].h # h
  BY DEF Etm!Connect, Etm!Live, EtmInv, EtmTypeInv, Etm!EtmAssumption
<1>1. EtmTypeInv'
  <2>1. chan' \in [Handles -> Etm!Chan \cup {None}]
    BY <1>0 DEF EtmInv, EtmTypeInv, Etm!Connect, Etm!Chan
  <2>2. reg' \in [Etm!Groups -> [Etm!Chans -> Events \cup {None}]]
    BY <1>0 DEF EtmInv, EtmTypeInv, Etm!TypeOK, Etm!Connect, Etm!Chan
  <2> QED
    BY <2>1, <2>2 DEF EtmInv, EtmTypeInv, Etm!TypeOK, Etm!Connect, Etm!Chan
<1>2. /\ chan'[h] = [chan[h] EXCEPT !.ev = e] /\ chan'[h] # None
      /\ \A k \in Handles : k # h => chan'[k] = chan[k]
  BY <1>0, <1>1 DEF Etm!Connect, EtmInv, EtmTypeInv, Etm!Chan, Etm!EtmAssumption
<1>3. ASSUME NEW u \in Tasks PROVE EtmDoing(u)'
  <2>1. EtmDoing(u) /\ call' = call /\ call[u] \in EtmCall
    BY DEF EtmInv, EtmTypeInv, Etm!Connect
  <2>2. call[u].h # h /\ (call[u].h \in Handles \/ call[u].h = None)
    BY <1>0, <2>1 DEF EtmCall
  <2> QED
    BY <1>2, <2>1, <2>2 DEF EtmDoing
<1>4. ASSUME NEW k, NEW pcs
      PROVE  EtmAt(k, pcs)' <=> EtmAt(k, pcs)
  BY DEF EtmAt, Etm!Connect
<1>5. ~EtmAt(h, {"release"}) /\ ~EtmAt(h, {"unregister"}) /\ ~EtmAt(h, {"unregister", "release"})
  BY <1>0 DEF EtmAt
<1>6. ASSUME NEW k \in Handles PROVE EtmPlaced(k)'
  <2>1. EtmPlaced(k) /\ EtmPlaced(h) /\ (chan[k] # None => chan[k] \in Etm!Chan)
    BY DEF EtmInv, EtmTypeInv
  <2>2. reg' = [reg EXCEPT ![chan[h].g][chan[h].c] = e] /\ slot' = slot /\ ena' = ena
    BY DEF Etm!Connect
  <2>3. CASE k = h
    BY <1>0, <1>2, <1>4, <1>5, <2>1, <2>2, <2>3
       DEF EtmInv, EtmTypeInv, Etm!TypeOK, EtmPlaced, Etm!Chan
  <2>4. CASE k # h
    <3>1. chan'[k] = chan[k]
      BY <1>2, <2>4
    <3>2. chan[k] # None /\ ~EtmAt(k, {"release"}) =>
             reg'[chan[k].g][chan[k].c] = reg[chan[k].g][chan[k].c]
      BY <1>0, <1>5, <2>1, <2>2, <2>4, EtmOwn
         DEF EtmInv, EtmTypeInv, Etm!TypeOK, Etm!Chan
    <3>3. EtmAt(k, {"unregister"}) => ~EtmAt(k, {"release"})
      BY DEF EtmInv, EtmDoing, EtmAt
    <3>4. EtmAt(k, {"release"}) => EtmAt(k, {"unregister", "release"})
      BY DEF EtmAt
    <3> QED
      BY <1>4, <2>1, <2>2, <3>1, <3>2, <3>3, <3>4 DEF EtmPlaced
  <2> QED
    BY <2>3, <2>4
<1>7. ASSUME NEW g \in Etm!Groups, NEW c \in Etm!Chans PROVE EtmTaken(g, c)'
  BY <1>0, <1>2, <1>4, <1>5
     DEF EtmInv, EtmTypeInv, Etm!TypeOK, EtmTaken, EtmPlaced, Etm!Connect,
         Etm!Chan
<1>8. ASSUME NEW g \in Etm!Groups PROVE EtmCounted(g)'
  <2>1. EtmOf(g)' = EtmOf(g)
    BY <1>0, <1>2 DEF EtmOf, Etm!Chan
  <2>2. EtmLooking(g)' = EtmLooking(g)
    BY DEF EtmLooking, Etm!Connect
  <2> QED
    BY <2>1, <2>2 DEF EtmInv, EtmCounted, Etm!Connect
<1> QED
  BY <1>1, <1>3, <1>6, <1>7, <1>8 DEF EtmInv

LEMMA EtmSetEnabledInv ==
    ASSUME Etm!EtmAssumption, EtmInv, NEW h \in Handles,
           NEW enabled \in BOOLEAN,
           Etm!SetEnabled(h, enabled)
    PROVE  EtmInv'
<1>0. /\ chan[h] \in Etm!Chan /\ h # None /\ chan[h] # None
      /\ \A u \in Tasks : call[u].h # h
  BY DEF Etm!SetEnabled, Etm!Live, EtmInv, EtmTypeInv, Etm!EtmAssumption
<1>1. EtmTypeInv'
  <2>1. chan' \in [Handles -> Etm!Chan \cup {None}]
    BY <1>0 DEF EtmInv, EtmTypeInv, Etm!SetEnabled, Etm!Chan
  <2>2. ena' \in [Etm!Groups -> [Etm!Chans -> BOOLEAN]]
    BY <1>0 DEF EtmInv, EtmTypeInv, Etm!TypeOK, Etm!SetEnabled, Etm!Chan
  <2> QED
    BY <2>1, <2>2 DEF EtmInv, EtmTypeInv, Etm!TypeOK, Etm!SetEnabled, Etm!Chan
<1>2. /\ chan'[h] = [chan[h] EXCEPT !.ena = enabled] /\ chan'[h] # None
      /\ \A k \in Handles : k # h => chan'[k] = chan[k]
  BY <1>0, <1>1
     DEF Etm!SetEnabled, EtmInv, EtmTypeInv, Etm!Chan, Etm!EtmAssumption
<1>3. ASSUME NEW u \in Tasks PROVE EtmDoing(u)'
  <2>1. EtmDoing(u) /\ call' = call /\ call[u] \in EtmCall
    BY DEF EtmInv, EtmTypeInv, Etm!SetEnabled
  <2>2. call[u].h # h /\ (call[u].h \in Handles \/ call[u].h = None)
    BY <1>0, <2>1 DEF EtmCall
  <2> QED
    BY <1>2, <2>1, <2>2 DEF EtmDoing
<1>4. ASSUME NEW k, NEW pcs
      PROVE  EtmAt(k, pcs)' <=> EtmAt(k, pcs)
  BY DEF EtmAt, Etm!SetEnabled
<1>5. ~EtmAt(h, {"release"}) /\ ~EtmAt(h, {"unregister"}) /\ ~EtmAt(h, {"unregister", "release"})
  BY <1>0 DEF EtmAt
<1>6. ASSUME NEW k \in Handles PROVE EtmPlaced(k)'
  <2>1. EtmPlaced(k) /\ EtmPlaced(h) /\ (chan[k] # None => chan[k] \in Etm!Chan)
    BY DEF EtmInv, EtmTypeInv
  <2>2. ena' = [ena EXCEPT ![chan[h].g][chan[h].c] = enabled] /\ slot' = slot /\ reg' = reg
    BY DEF Etm!SetEnabled
  <2>3. CASE k = h
    <3>1. ena'[chan[h].g][chan[h].c] = enabled
      BY <1>0, <2>2 DEF EtmInv, EtmTypeInv, Etm!TypeOK, Etm!Chan
    <3>2. /\ chan'[h].g = chan[h].g /\ chan'[h].c = chan[h].c
          /\ chan'[h].ev = chan[h].ev /\ chan'[h].ena = enabled
      BY <1>0, <1>2 DEF Etm!Chan
    <3> QED
      BY <1>0, <1>4, <1>5, <2>1, <2>2, <2>3, <3>1, <3>2 DEF EtmPlaced
  <2>4. CASE k # h
    <3>1. chan'[k] = chan[k]
      BY <1>2, <2>4
    <3>2. chan[k] # None /\ ~EtmAt(k, {"release"}) =>
             ena'[chan[k].g][chan[k].c] = ena[chan[k].g][chan[k].c]
      BY <1>0, <1>5, <2>1, <2>2, <2>4, EtmOwn
         DEF EtmInv, EtmTypeInv, Etm!TypeOK, Etm!Chan
    <3> QED
      BY <1>4, <2>1, <2>2, <3>1, <3>2 DEF EtmPlaced
  <2> QED
    BY <2>3, <2>4
<1>7. ASSUME NEW g \in Etm!Groups, NEW c \in Etm!Chans PROVE EtmTaken(g, c)'
  BY <1>0, <1>2, <1>4, <1>5
     DEF EtmInv, EtmTypeInv, Etm!TypeOK, EtmTaken, EtmPlaced, Etm!SetEnabled,
         Etm!Chan
<1>8. ASSUME NEW g \in Etm!Groups PROVE EtmCounted(g)'
  <2>1. EtmOf(g)' = EtmOf(g)
    BY <1>0, <1>2 DEF EtmOf, Etm!Chan
  <2>2. EtmLooking(g)' = EtmLooking(g)
    BY DEF EtmLooking, Etm!SetEnabled
  <2> QED
    BY <2>1, <2>2 DEF EtmInv, EtmCounted, Etm!SetEnabled
<1> QED
  BY <1>1, <1>3, <1>6, <1>7, <1>8 DEF EtmInv

\* What a call that deletes stands on.
LEMMA EtmDeleting ==
    ASSUME Etm!EtmAssumption, EtmInv, NEW t \in Tasks,
           call[t].pc \in {"clear", "unregister", "release"}
    PROVE  /\ call[t] \in EtmCall
           /\ call[t].h \in Handles /\ call[t].h # None
           /\ chan[call[t].h] \in Etm!Chan /\ chan[call[t].h] # None
           /\ chan[call[t].h].g = call[t].g /\ ~chan[call[t].h].ena
           /\ \A u \in Tasks : call[u].h = call[t].h => u = t
           /\ \A pcs : EtmAt(call[t].h, pcs) <=> call[t].pc \in pcs
<1>1. /\ EtmDoing(t) /\ call[t] \in EtmCall
      /\ \A u \in Tasks : call[u].h = call[t].h /\ call[t].h # None => u = t
  BY DEF EtmInv, EtmTypeInv, EtmDoing
<1>2. call[t].h \in Handles /\ call[t].h # None /\ chan[call[t].h] # None
  BY <1>1 DEF EtmDoing, EtmCall
<1>3. chan[call[t].h] \in Etm!Chan
  BY <1>2 DEF EtmInv, EtmTypeInv
<1>4. \A pcs : EtmAt(call[t].h, pcs) <=> call[t].pc \in pcs
  BY <1>1, <1>2 DEF EtmAt
<1> QED
  BY <1>1, <1>2, <1>3, <1>4 DEF EtmDoing

LEMMA EtmDisconnectInv ==
    ASSUME Etm!EtmAssumption, EtmInv, NEW t \in Tasks, Etm!Disconnect(t)
    PROVE  EtmInv'
<1>h. PICK h : h = call[t].h
  OBVIOUS
<1>k. PICK k : k = chan[h]
  OBVIOUS
<1>0. call[t].pc = "clear"
  BY DEF Etm!Disconnect
<1>1. /\ call[t] \in EtmCall /\ h \in Handles /\ k \in Etm!Chan /\ k # None
      /\ k.g = call[t].g /\ ~k.ena
      /\ \A u \in Tasks : call[u].h = h => u = t
      /\ ~EtmAt(h, {"release"}) /\ ~EtmAt(h, {"unregister"})
      /\ ~EtmAt(h, {"unregister", "release"})
  BY <1>h, <1>k, <1>0, EtmDeleting
<1>2. /\ reg' = [reg EXCEPT ![k.g][k.c] = None]
      /\ call' = [call EXCEPT ![t].pc = "unregister"]
      /\ UNCHANGED <<up, groupRef, slot, ena, chan>>
  BY <1>h, <1>k, <1>1 DEF Etm!Disconnect, Etm!Goto
<1>3. EtmTypeInv'
  <2>1. call' \in [Tasks -> EtmCall]
    BY <1>1, <1>2 DEF EtmInv, EtmTypeInv, EtmCall
  <2>2. reg' \in [Etm!Groups -> [Etm!Chans -> Events \cup {None}]]
    BY <1>1, <1>2 DEF EtmInv, EtmTypeInv, Etm!TypeOK, Etm!Chan
  <2> QED
    BY <1>2, <2>1, <2>2 DEF EtmInv, EtmTypeInv, Etm!TypeOK, EtmCall
<1>4. ASSUME NEW u \in Tasks PROVE EtmDoing(u)'
  BY <1>h, <1>k, <1>0, <1>1, <1>2
     DEF EtmInv, EtmTypeInv, EtmDoing, EtmCall, Etm!NoCall
<1>5. ASSUME NEW i, NEW pcs, i # h
      PROVE  EtmAt(i, pcs)' <=> EtmAt(i, pcs)
  BY <1>2, <1>h, <1>5 DEF EtmInv, EtmTypeInv, EtmAt, EtmCall
<1>6. ~EtmAt(h, {"release"})' /\ EtmAt(h, {"unregister"})' /\ EtmAt(h, {"unregister", "release"})'
  BY <1>h, <1>1, <1>2 DEF EtmInv, EtmTypeInv, EtmAt, EtmCall
<1>7. ASSUME NEW i \in Handles PROVE EtmPlaced(i)'
  <2>1. EtmPlaced(i) /\ EtmPlaced(h) /\ (chan[i] # None => chan[i] \in Etm!Chan)
    BY <1>1 DEF EtmInv, EtmTypeInv
  <2>3. CASE i = h
    BY <1>k, <1>1, <1>2, <1>6, <2>1, <2>3
       DEF EtmInv, EtmTypeInv, Etm!TypeOK, EtmPlaced, Etm!Chan
  <2>4. CASE i # h
    <3>2. chan[i] # None /\ ~EtmAt(i, {"release"}) =>
             reg'[chan[i].g][chan[i].c] = reg[chan[i].g][chan[i].c]
      BY <1>k, <1>1, <1>2, <2>1, <2>4, EtmOwn
         DEF EtmInv, EtmTypeInv, Etm!TypeOK, Etm!Chan
    <3>3. EtmAt(i, {"unregister"}) => ~EtmAt(i, {"release"})
      BY DEF EtmInv, EtmDoing, EtmAt
    <3>4. EtmAt(i, {"release"}) => EtmAt(i, {"unregister", "release"})
      BY DEF EtmAt
    <3> QED
      BY <1>2, <1>5, <2>1, <2>4, <3>2, <3>3, <3>4 DEF EtmPlaced
  <2> QED
    BY <2>3, <2>4
<1>8. ASSUME NEW g \in Etm!Groups, NEW c \in Etm!Chans PROVE EtmTaken(g, c)'
  <2>1. EtmTaken(g, c)
    BY DEF EtmInv
  <2>2. reg'[g][c] = reg[g][c] \/ reg'[g][c] = None
    BY <1>2 DEF EtmInv, EtmTypeInv, Etm!TypeOK
  <2>3. ~EtmAt(slot[g][c], {"release"}) => ~EtmAt(slot[g][c], {"release"})'
    <3>1. PICK i : i = slot[g][c]
      OBVIOUS
    <3>2. ~EtmAt(i, {"release"}) => ~EtmAt(i, {"release"})'
      BY <1>5, <1>6
    <3>3. slot'[g][c] = i
      BY <1>2, <3>1
    <3> QED
      BY <3>1, <3>2, <3>3
  <2> QED
    BY <1>2, <2>1, <2>2, <2>3 DEF EtmTaken
<1>9. ASSUME NEW g \in Etm!Groups PROVE EtmCounted(g)'
  <2>1. EtmOf(g)' = EtmOf(g)
    BY <1>2 DEF EtmOf
  <2>2. EtmLooking(g)' = EtmLooking(g)
    BY <1>0, <1>2 DEF EtmInv, EtmTypeInv, EtmLooking, EtmCall
  <2> QED
    BY <1>2, <2>1, <2>2 DEF EtmInv, EtmCounted
<1> QED
  BY <1>3, <1>4, <1>7, <1>8, <1>9 DEF EtmInv

LEMMA EtmUnregisterInv ==
    ASSUME Etm!EtmAssumption, EtmInv, NEW t \in Tasks, Etm!Unregister(t)
    PROVE  EtmInv'
<1>h. PICK h : h = call[t].h
  OBVIOUS
<1>k. PICK k : k = chan[h]
  OBVIOUS
<1>0. call[t].pc = "unregister"
  BY DEF Etm!Unregister
<1>1. /\ call[t] \in EtmCall /\ h \in Handles /\ k \in Etm!Chan /\ k # None
      /\ k.g = call[t].g /\ ~k.ena
      /\ \A u \in Tasks : call[u].h = h => u = t
      /\ ~EtmAt(h, {"release"}) /\ EtmAt(h, {"unregister"})
      /\ EtmAt(h, {"unregister", "release"})
  BY <1>h, <1>k, <1>0, EtmDeleting
<1>2. /\ slot' = [slot EXCEPT ![k.g][k.c] = None]
      /\ call' = [call EXCEPT ![t].pc = "release"]
      /\ UNCHANGED <<up, groupRef, reg, ena, chan>>
  BY <1>h, <1>k, <1>1 DEF Etm!Unregister, Etm!Goto
<1>3. EtmTypeInv'
  <2>1. call' \in [Tasks -> EtmCall]
    BY <1>1, <1>2 DEF EtmInv, EtmTypeInv, EtmCall
  <2>2. slot' \in [Etm!Groups -> [Etm!Chans -> Handles \cup {None}]]
    BY <1>1, <1>2 DEF EtmInv, EtmTypeInv, Etm!TypeOK, Etm!Chan
  <2> QED
    BY <1>2, <2>1, <2>2 DEF EtmInv, EtmTypeInv, Etm!TypeOK, EtmCall
<1>4. ASSUME NEW u \in Tasks PROVE EtmDoing(u)'
  BY <1>h, <1>k, <1>0, <1>1, <1>2
     DEF EtmInv, EtmTypeInv, EtmDoing, EtmCall, Etm!NoCall
<1>5. ASSUME NEW i, NEW pcs, i # h
      PROVE  EtmAt(i, pcs)' <=> EtmAt(i, pcs)
  BY <1>2, <1>h, <1>5 DEF EtmInv, EtmTypeInv, EtmAt, EtmCall
<1>6. EtmAt(h, {"release"})' /\ ~EtmAt(h, {"unregister"})' /\ EtmAt(h, {"unregister", "release"})'
  BY <1>h, <1>1, <1>2 DEF EtmInv, EtmTypeInv, EtmAt, EtmCall
<1>7. ASSUME NEW i \in Handles PROVE EtmPlaced(i)'
  <2>1. EtmPlaced(i) /\ EtmPlaced(h) /\ (chan[i] # None => chan[i] \in Etm!Chan)
    BY <1>1 DEF EtmInv, EtmTypeInv
  <2>3. CASE i = h
    BY <1>2, <1>6, <2>3 DEF EtmPlaced
  <2>4. CASE i # h
    <3>2. chan[i] # None /\ ~EtmAt(i, {"release"}) =>
             slot'[chan[i].g][chan[i].c] = slot[chan[i].g][chan[i].c]
      BY <1>k, <1>1, <1>2, <2>1, <2>4, EtmOwn
         DEF EtmInv, EtmTypeInv, Etm!TypeOK, Etm!Chan
    <3> QED
      BY <1>2, <1>5, <2>1, <2>4, <3>2 DEF EtmPlaced
  <2> QED
    BY <2>3, <2>4
<1>8. ASSUME NEW g \in Etm!Groups, NEW c \in Etm!Chans PROVE EtmTaken(g, c)'
  <2>1. EtmTaken(g, c) /\ EtmPlaced(h)
    BY <1>1 DEF EtmInv
  <2>2. CASE g = k.g /\ c = k.c
    BY <1>k, <1>1, <1>2, <2>1, <2>2
       DEF EtmInv, EtmTypeInv, Etm!TypeOK, EtmTaken, EtmPlaced
  <2>3. CASE ~(g = k.g /\ c = k.c)
    <3>1. slot'[g][c] = slot[g][c]
      BY <1>2, <2>3 DEF EtmInv, EtmTypeInv, Etm!TypeOK
    <3>2. up[g] /\ slot[g][c] # None => slot[g][c] # h
      BY <1>k, <2>1, <2>3 DEF EtmTaken
    <3> QED
      BY <1>2, <1>5, <2>1, <3>1, <3>2 DEF EtmTaken
  <2> QED
    BY <2>2, <2>3
<1>9. ASSUME NEW g \in Etm!Groups PROVE EtmCounted(g)'
  <2>1. EtmOf(g)' = EtmOf(g)
    BY <1>2 DEF EtmOf
  <2>2. EtmLooking(g)' = EtmLooking(g)
    BY <1>0, <1>2 DEF EtmInv, EtmTypeInv, EtmLooking, EtmCall
  <2> QED
    BY <1>2, <2>1, <2>2 DEF EtmInv, EtmCounted
<1> QED
  BY <1>3, <1>4, <1>7, <1>8, <1>9 DEF EtmInv

LEMMA EtmLeast ==
    ASSUME NEW S \in SUBSET Nat, S # {}
    PROVE  \E n \in S : \A m \in S : n <= m
<1>1. PICK n \in S : \A m \in S : ~(<<m, n>> \in OpToRel(<, Nat))
  BY NatLessThanWellFounded, WFMin
<1>2. ASSUME NEW m \in S PROVE n <= m
  <2>1. ~(m < n)
    BY <1>1 DEF OpToRel
  <2> QED
    BY <2>1
<1> QED
  BY <1>2

\* A search that finds no channel goes on to give up the group.
LEMMA EtmSearchFullInv ==
    ASSUME Etm!EtmAssumption, EtmInv, NEW t \in Tasks, call[t].pc = "search",
           call' = [call EXCEPT ![t].pc = "giveUp"],
           UNCHANGED <<up, groupRef, slot, reg, ena, chan>>
    PROVE  EtmInv'
<1>1. EtmTypeInv'
  BY DEF EtmInv, EtmTypeInv, Etm!TypeOK, EtmCall
<1>2. ASSUME NEW u \in Tasks PROVE EtmDoing(u)'
  BY DEF EtmInv, EtmTypeInv, EtmDoing, EtmCall, Etm!NoCall
<1>3. ASSUME NEW k, NEW pcs \in SUBSET {"unregister", "release"}
      PROVE  EtmAt(k, pcs)' <=> EtmAt(k, pcs)
  BY DEF EtmInv, EtmTypeInv, EtmAt, EtmCall
<1>4. ASSUME NEW k \in Handles PROVE EtmPlaced(k)'
  BY <1>3 DEF EtmInv, EtmPlaced
<1>5. ASSUME NEW g \in Etm!Groups, NEW c \in Etm!Chans PROVE EtmTaken(g, c)'
  BY <1>3 DEF EtmInv, EtmTaken
<1>6. ASSUME NEW g \in Etm!Groups PROVE EtmCounted(g)'
  <2>1. EtmOf(g)' = EtmOf(g)
    BY DEF EtmOf
  <2>2. EtmLooking(g)' = EtmLooking(g)
    BY DEF EtmInv, EtmTypeInv, EtmLooking, EtmCall
  <2> QED
    BY <2>1, <2>2 DEF EtmInv, EtmCounted
<1> QED
  BY <1>1, <1>2, <1>4, <1>5, <1>6 DEF EtmInv

\* One that finds the channel c registers the handle there.
LEMMA EtmSearchFoundInv ==
    ASSUME Etm!EtmAssumption, EtmInv, NEW t \in Tasks, call[t].pc = "search",
           NEW h, h = call[t].h, NEW g, g = call[t].g,
           NEW c \in Etm!Chans, slot[g][c] = None,
           slot' = [slot EXCEPT ![g][c] = h],
           chan' = [chan EXCEPT ![h] = [g |-> g, c |-> c, ev |-> None,
                                        ena |-> FALSE]],
           call' = [call EXCEPT ![t] = Etm!NoCall],
           UNCHANGED <<up, groupRef, reg, ena>>
    PROVE  EtmInv'
<1>0. /\ call[t] \in EtmCall /\ h \in Handles /\ h # None /\ g \in Etm!Groups
      /\ chan[h] = None
      /\ \A u \in Tasks : call[u].h = h => u = t
      /\ 0 \in Etm!Groups
  BY DEF EtmInv, EtmTypeInv, EtmDoing, EtmCall, Etm!Groups, Etm!EtmAssumption
<1>1. t \in EtmLooking(g) /\ h \notin EtmOf(g)
  BY <1>0 DEF EtmLooking, EtmOf
<1>2. up[g]
  <2>1. EtmCounted(g)
    BY <1>0 DEF EtmInv
  <2>2. Cardinality(EtmLooking(g)) > 0 /\ Cardinality(EtmLooking(g)) \in Nat
        /\ Cardinality(EtmOf(g)) \in Nat
    BY <1>1, EtmFinite, EtmOneMore
  <2> QED
    BY <2>1, <2>2 DEF EtmCounted
<1>3. /\ chan'[h] \in Etm!Chan /\ chan'[h] # None
      /\ chan'[h].g = g /\ chan'[h].c = c /\ chan'[h].ev = None /\ chan'[h].ena = FALSE
      /\ \A k \in Handles : k # h => chan'[k] = chan[k]
  <2>1. [g |-> g, c |-> c, ev |-> None, ena |-> FALSE] \in Etm!Chan
    BY <1>0 DEF Etm!Chan
  <2>2. chan'[h] = [g |-> g, c |-> c, ev |-> None, ena |-> FALSE]
    BY <1>0 DEF EtmInv, EtmTypeInv
  <2>3. \A k \in Handles : k # h => chan'[k] = chan[k]
    BY <1>0 DEF EtmInv, EtmTypeInv
  <2>4. chan'[h] # None
    BY <2>1, <2>2 DEF Etm!EtmAssumption
  <2>5. /\ chan'[h].g = g /\ chan'[h].c = c /\ chan'[h].ev = None
        /\ chan'[h].ena = FALSE
    BY <2>2
  <2> QED
    BY <2>1, <2>2, <2>3, <2>4, <2>5
<1>4. EtmTypeInv'
  <2>1. call' \in [Tasks -> EtmCall]
    BY <1>0 DEF EtmInv, EtmTypeInv, EtmCall, Etm!NoCall
  <2>2. chan' \in [Handles -> Etm!Chan \cup {None}]
    BY <1>0, <1>3 DEF EtmInv, EtmTypeInv
  <2>3. slot' \in [Etm!Groups -> [Etm!Chans -> Handles \cup {None}]]
    BY <1>0 DEF EtmInv, EtmTypeInv, Etm!TypeOK
  <2> QED
    BY <2>1, <2>2, <2>3 DEF EtmInv, EtmTypeInv, Etm!TypeOK, EtmCall, Etm!Chan
<1>5. \A u \in Tasks : IF u = t THEN call'[u] = Etm!NoCall ELSE call'[u] = call[u]
  BY DEF EtmInv, EtmTypeInv
<1>6. ASSUME NEW u \in Tasks PROVE EtmDoing(u)'
  <2>1. EtmDoing(u) /\ call[u] \in EtmCall
    BY DEF EtmInv, EtmTypeInv
  <2>2. CASE u = t
    BY <1>5, <2>2 DEF EtmDoing, Etm!NoCall
  <2>3. CASE u # t
    <3>1. call'[u] = call[u] /\ call[u].h # h
      BY <1>0, <1>5, <2>3
    <3>2. call[u].h # None => call[u].h \in Handles
      BY <2>1 DEF EtmCall
    <3>3. \A w \in Tasks : call'[w].h = call[u].h /\ call[u].h # None => w = u
      BY <1>5, <2>1 DEF EtmDoing, Etm!NoCall
    <3>4. call[u].h # None => chan'[call[u].h] = chan[call[u].h]
      BY <1>3, <3>1, <3>2
    <3> QED
      BY <2>1, <3>1, <3>3, <3>4 DEF EtmDoing
  <2> QED
    BY <2>2, <2>3
<1>7. ASSUME NEW k, NEW pcs \in SUBSET {"unregister", "release"}
      PROVE  EtmAt(k, pcs)' <=> EtmAt(k, pcs)
  BY <1>5 DEF EtmAt, Etm!NoCall
<1>8. ASSUME NEW pcs \in SUBSET {"unregister", "release"} PROVE ~EtmAt(h, pcs)
  BY <1>0 DEF EtmAt
<1>9. EtmTaken(g, c)
  BY <1>0 DEF EtmInv
<1>10. ASSUME NEW k \in Handles PROVE EtmPlaced(k)'
  <2>1. CASE k = h
    <3>1. slot'[g][c] = h
      BY <1>0 DEF EtmInv, EtmTypeInv, Etm!TypeOK
    <3>2. reg'[g][c] = None /\ ~ena'[g][c]
      BY <1>2, <1>9 DEF EtmTaken
    <3>3. ~EtmAt(h, {"unregister"})'
      BY <1>7, <1>8
    <3>4. ena'[g][c] = FALSE
      BY <1>0, <3>2 DEF EtmInv, EtmTypeInv, Etm!TypeOK
    <3> QED
      BY <1>3, <2>1, <3>1, <3>2, <3>3, <3>4 DEF EtmPlaced
  <2>2. CASE k # h
    <3>1. EtmPlaced(k) /\ (chan[k] # None => chan[k] \in Etm!Chan)
      BY DEF EtmInv, EtmTypeInv
    <3>2. chan[k] # None /\ slot[chan[k].g][chan[k].c] = k =>
             slot'[chan[k].g][chan[k].c] = k
      <4>1. ASSUME NEW gg \in Etm!Groups, NEW cc \in Etm!Chans, slot[gg][cc] = k
            PROVE  slot'[gg][cc] = k
        <5>1. k # None
          BY DEF Etm!EtmAssumption
        <5> QED
          BY <4>1, <5>1 DEF EtmInv, EtmTypeInv, Etm!TypeOK
      <4> QED
        BY <3>1, <4>1 DEF Etm!Chan
    <3> QED
      BY <1>3, <1>7, <2>2, <3>1, <3>2 DEF EtmPlaced
  <2> QED
    BY <2>1, <2>2
<1>11. ASSUME NEW i \in Etm!Groups, NEW d \in Etm!Chans PROVE EtmTaken(i, d)'
  <2>1. CASE i = g /\ d = c
    <3>1. slot'[i][d] = h
      BY <2>1, <1>0 DEF EtmInv, EtmTypeInv, Etm!TypeOK
    <3>2. ~EtmAt(h, {"release"})'
      BY <1>7, <1>8
    <3> QED
      BY <1>0, <1>3, <2>1, <3>1, <3>2 DEF EtmTaken
  <2>2. CASE ~(i = g /\ d = c)
    <3>1. slot'[i][d] = slot[i][d]
      BY <2>2 DEF EtmInv, EtmTypeInv, Etm!TypeOK
    <3>2. EtmTaken(i, d) /\ (slot[i][d] # None => slot[i][d] \in Handles)
      BY DEF EtmInv, EtmTypeInv, Etm!TypeOK
    <3>3. PICK k : k = slot[i][d]
      OBVIOUS
    <3>4. CASE up[i] /\ k # None
      <4>1. k \in Handles /\ k # h /\ chan'[k] = chan[k]
        BY <1>0, <1>3, <3>2, <3>3, <3>4 DEF EtmTaken
      <4>2. ~EtmAt(k, {"release"})'
        BY <1>7, <3>2, <3>3, <3>4 DEF EtmTaken
      <4> QED
        BY <3>1, <3>2, <3>3, <3>4, <4>1, <4>2 DEF EtmTaken
    <3>5. CASE ~(up[i] /\ k # None)
      BY <3>1, <3>2, <3>3, <3>5 DEF EtmTaken
    <3> QED
      BY <3>4, <3>5
  <2> QED
    BY <2>1, <2>2
<1>12. ASSUME NEW i \in Etm!Groups PROVE EtmCounted(i)'
  <2>1. EtmOf(i)' = IF i = g THEN EtmOf(i) \cup {h} ELSE EtmOf(i)
    BY <1>0, <1>3 DEF EtmOf
  <2>2. EtmLooking(i)' = IF i = g THEN EtmLooking(i) \ {t} ELSE EtmLooking(i)
    BY <1>0, <1>5 DEF EtmLooking, Etm!NoCall
  <2>3. EtmCounted(i)
    BY DEF EtmInv
  <2>4. /\ Cardinality(EtmOf(i)) \in Nat /\ Cardinality(EtmLooking(i)) \in Nat
        /\ i = g => Cardinality(EtmLooking(i) \ {t}) = Cardinality(EtmLooking(i)) - 1
        /\ i = g => Cardinality(EtmOf(i) \cup {h}) = Cardinality(EtmOf(i)) + 1
    BY <1>1, EtmFinite, EtmOneMore
  <2> QED
    BY <2>1, <2>2, <2>3, <2>4 DEF EtmCounted
<1> QED
  BY <1>4, <1>6, <1>10, <1>11, <1>12 DEF EtmInv

LEMMA EtmSearchInv ==
    ASSUME Etm!EtmAssumption, EtmInv, NEW t \in Tasks, Etm!Search(t)
    PROVE  EtmInv'
<1> DEFINE g == call[t].g
           free == {c \in Etm!Chans : slot[g][c] = None}
<1>1. CASE free = {}
  BY <1>1, EtmSearchFullInv DEF Etm!Search, Etm!Goto
<1>2. CASE free # {}
  <2>1. free \in SUBSET Nat
    BY DEF Etm!Chans
  <2>2. \E c \in free : \A d \in free : c <= d
    BY <1>2, <2>1, EtmLeast
  <2>3. PICK c : c = CHOOSE e \in free : \A d \in free : e <= d
    OBVIOUS
  <2>4. c \in free
    BY <2>2, <2>3
  <2>5. /\ call[t].pc = "search"
        /\ slot' = [slot EXCEPT ![g][c] = call[t].h]
        /\ chan' = [chan EXCEPT ![call[t].h] = [g |-> g, c |-> c, ev |-> None,
                                                ena |-> FALSE]]
        /\ call' = [call EXCEPT ![t] = Etm!NoCall]
        /\ UNCHANGED <<up, groupRef, reg, ena>>
    BY <1>2, <2>3 DEF Etm!Search
  <2>6. c \in Etm!Chans /\ slot[g][c] = None
    BY <2>4
  <2> QED
    BY <2>5, <2>6, EtmSearchFoundInv
<1> QED
  BY <1>1, <1>2

LEMMA EtmReleaseInv ==
    ASSUME Etm!EtmAssumption, EtmInv, NEW t \in Tasks, Etm!Release(t)
    PROVE  EtmInv'
<1>h. PICK h : h = call[t].h
  OBVIOUS
<1>g. PICK g : g = call[t].g
  OBVIOUS
<1>0. call[t].pc = "release"
  BY DEF Etm!Release
<1>1. /\ call[t] \in EtmCall /\ h \in Handles /\ h # None /\ chan[h] # None
      /\ chan[h].g = g /\ g \in Etm!Groups
      /\ \A u \in Tasks : call[u].h = h => u = t
      /\ EtmAt(h, {"release"})
  BY <1>h, <1>g, <1>0, EtmDeleting DEF EtmCall
<1>2. /\ groupRef' = [groupRef EXCEPT ![g] = @ - 1]
      /\ up' = [up EXCEPT ![g] = groupRef[g] > 1]
      /\ chan' = [chan EXCEPT ![h] = None]
      /\ call' = [call EXCEPT ![t] = Etm!NoCall]
      /\ UNCHANGED <<slot, reg, ena>>
  BY <1>h, <1>g DEF Etm!Release, Etm!ReleaseGroup, Etm!Shared
<1>3. groupRef[g] \in Nat /\ groupRef[g] > 0 /\ up[g] /\ h \in EtmOf(g)
  BY <1>1, EtmGroupUp DEF EtmInv, EtmTypeInv, Etm!TypeOK, EtmOf
<1>4. 0 \in Etm!Groups
  BY DEF Etm!Groups, Etm!EtmAssumption
<1>5. \A u \in Tasks : IF u = t THEN call'[u] = Etm!NoCall ELSE call'[u] = call[u]
  BY <1>2 DEF EtmInv, EtmTypeInv
<1>6. chan'[h] = None /\ \A k \in Handles : k # h => chan'[k] = chan[k]
  BY <1>1, <1>2 DEF EtmInv, EtmTypeInv
<1>7. EtmTypeInv'
  <2>1. call' \in [Tasks -> EtmCall]
    BY <1>2, <1>4 DEF EtmInv, EtmTypeInv, EtmCall, Etm!NoCall
  <2>2. chan' \in [Handles -> Etm!Chan \cup {None}]
    BY <1>1, <1>2 DEF EtmInv, EtmTypeInv
  <2>3. groupRef' \in [Etm!Groups -> Nat]
    <3>1. groupRef[g] - 1 \in Nat
      BY <1>3
    <3> QED
      BY <1>2, <3>1 DEF EtmInv, EtmTypeInv, Etm!TypeOK
  <2>4. up' \in [Etm!Groups -> BOOLEAN]
    <3>1. (groupRef[g] > 1) \in BOOLEAN /\ up \in [Etm!Groups -> BOOLEAN]
      BY DEF EtmInv, EtmTypeInv, Etm!TypeOK
    <3> QED
      BY <1>2, <3>1
  <2> QED
    BY <1>2, <2>1, <2>2, <2>3, <2>4
       DEF EtmInv, EtmTypeInv, Etm!TypeOK, EtmCall, Etm!Chan
<1>8. ASSUME NEW u \in Tasks PROVE EtmDoing(u)'
  <2>1. EtmDoing(u) /\ call[u] \in EtmCall
    BY DEF EtmInv, EtmTypeInv
  <2>2. CASE u = t
    BY <1>5, <2>2 DEF EtmDoing, Etm!NoCall
  <2>3. CASE u # t
    <3>1. call'[u] = call[u] /\ call[u].h # h
      BY <1>1, <1>5, <2>3
    <3>2. call[u].h # None => call[u].h \in Handles
      BY <2>1 DEF EtmCall
    <3>3. \A w \in Tasks : call'[w].h = call[u].h /\ call[u].h # None => w = u
      BY <1>5, <2>1 DEF EtmDoing, Etm!NoCall
    <3>4. call[u].h # None => chan'[call[u].h] = chan[call[u].h]
      BY <1>6, <3>1, <3>2
    <3> QED
      BY <2>1, <3>1, <3>3, <3>4 DEF EtmDoing
  <2> QED
    BY <2>2, <2>3
<1>9. ASSUME NEW k, k # h, NEW pcs \in SUBSET {"unregister", "release"}
      PROVE  EtmAt(k, pcs)' <=> EtmAt(k, pcs)
  BY <1>h, <1>5, <1>9 DEF EtmAt, Etm!NoCall
<1>10. ASSUME NEW k \in Handles PROVE EtmPlaced(k)'
  BY <1>2, <1>6, <1>9 DEF EtmInv, EtmPlaced
<1>11. ASSUME NEW i \in Etm!Groups, NEW d \in Etm!Chans PROVE EtmTaken(i, d)'
  <2>1. EtmTaken(i, d) /\ (slot[i][d] # None => slot[i][d] \in Handles)
    BY DEF EtmInv, EtmTypeInv, Etm!TypeOK
  <2>2. up'[i] => up[i]
    BY <1>2, <1>3 DEF EtmInv, EtmTypeInv, Etm!TypeOK
  <2>3. up[i] /\ slot[i][d] # None => slot[i][d] # h
    BY <1>1, <2>1 DEF EtmTaken
  <2> QED
    BY <1>2, <1>6, <1>9, <2>1, <2>2, <2>3 DEF EtmTaken
<1>12. ASSUME NEW i \in Etm!Groups PROVE EtmCounted(i)'
  <2>1. EtmOf(i)' = IF i = g THEN EtmOf(i) \ {h} ELSE EtmOf(i)
    BY <1>1, <1>6 DEF EtmOf
  <2>2. EtmLooking(i)' = EtmLooking(i)
    BY <1>0, <1>5 DEF EtmLooking, Etm!NoCall
  <2>3. EtmCounted(i) /\ groupRef[i] \in Nat
    BY DEF EtmInv, EtmTypeInv, Etm!TypeOK
  <2>4. /\ Cardinality(EtmOf(i)) \in Nat /\ Cardinality(EtmLooking(i)) \in Nat
        /\ i = g => Cardinality(EtmOf(i) \ {h}) = Cardinality(EtmOf(i)) - 1
    BY <1>3, EtmFinite, EtmOneMore
  <2>5. /\ groupRef'[i] = IF i = g THEN groupRef[i] - 1 ELSE groupRef[i]
        /\ up'[i] = IF i = g THEN groupRef[i] > 1 ELSE up[i]
    BY <1>2 DEF EtmInv, EtmTypeInv, Etm!TypeOK
  <2>6. groupRef'[i] = Cardinality(EtmOf(i)') + Cardinality(EtmLooking(i)')
    BY <2>1, <2>2, <2>3, <2>4, <2>5 DEF EtmCounted
  <2>7. up'[i] <=> groupRef'[i] > 0
    <3>2. CASE i = g
      <4>1. up'[i] = (groupRef[i] > 1) /\ groupRef'[i] = groupRef[i] - 1
        BY <2>5, <3>2
      <4>2. (groupRef[i] > 1) <=> (groupRef[i] - 1 > 0)
        BY <2>3
      <4> QED
        BY <4>1, <4>2
    <3>3. CASE i # g
      BY <2>3, <2>5, <3>3 DEF EtmCounted
    <3> QED
      BY <3>2, <3>3
  <2> QED
    BY <2>6, <2>7 DEF EtmCounted
<1> QED
  BY <1>7, <1>8, <1>10, <1>11, <1>12 DEF EtmInv

LEMMA EtmStutterInv == ASSUME EtmInv, UNCHANGED Etm!vars PROVE EtmInv'
<1> USE DEF Etm!vars
<1>1. EtmTypeInv'
  BY DEF EtmInv, EtmTypeInv, Etm!TypeOK
<1>2. \A k, pcs : EtmAt(k, pcs)' <=> EtmAt(k, pcs)
  BY DEF EtmAt
<1>3. \A t \in Tasks : EtmDoing(t)'
  BY DEF EtmInv, EtmDoing
<1>4. \A h \in Handles : EtmPlaced(h)'
  BY <1>2 DEF EtmInv, EtmPlaced
<1>5. \A g \in Etm!Groups, c \in Etm!Chans : EtmTaken(g, c)'
  BY <1>2 DEF EtmInv, EtmTaken
<1>6. ASSUME NEW g PROVE EtmOf(g)' = EtmOf(g) /\ EtmLooking(g)' = EtmLooking(g)
  BY DEF EtmOf, EtmLooking
<1>7. \A g \in Etm!Groups : EtmCounted(g)'
  BY <1>6 DEF EtmInv, EtmCounted
<1> QED
  BY <1>1, <1>3, <1>4, <1>5, <1>7 DEF EtmInv

\* The invariant holds throughout.
LEMMA EtmInvariance == ASSUME Etm!EtmAssumption PROVE Etm!Spec => []EtmInv
<1>1. Etm!Init => EtmInv
  BY EtmInitInv
<1>2. EtmInv /\ [Etm!Next]_(Etm!vars) => EtmInv'
  BY EtmStartInv, EtmNextGroupInv, EtmNoMemoryInv, EtmSearchInv,
     EtmGiveUpInv, EtmDeleteInv, EtmDisconnectInv, EtmUnregisterInv,
     EtmReleaseInv, EtmConnectInv, EtmSetEnabledInv, EtmStutterInv DEF Etm!Next
<1> QED
  BY <1>1, <1>2, PTL DEF Etm!Spec

\* A channel keeps its slot, its connection and its state in the registers of a
\* group that is up, whatever others create, delete or look at
\* (esp_etm_new_channel, esp_etm_del_channel).
THEOREM EtmKept ==
    ASSUME Etm!EtmAssumption
    PROVE  Etm!Spec => []Etm!ChannelsKept
<1>1. ASSUME Etm!EtmAssumption, EtmInv PROVE Etm!ChannelsKept
  <2>1. ASSUME NEW h \in Handles, Etm!Live(h)
        PROVE  /\ up[chan[h].g]
               /\ slot[chan[h].g][chan[h].c] = h
               /\ reg[chan[h].g][chan[h].c] = chan[h].ev
               /\ ena[chan[h].g][chan[h].c] = chan[h].ena
    <3>1. chan[h] # None /\ \A pcs : ~EtmAt(h, pcs)
      BY <2>1 DEF Etm!Live, EtmAt
    <3> QED
      BY <1>1, <3>1, EtmGroupUp DEF EtmInv, EtmPlaced
  <2> QED
    BY <1>1, <2>1 DEF EtmInv, EtmTaken, Etm!ChannelsKept
<1> QED
  BY <1>1, EtmInvariance, PTL

\* A group's reference count is the number of the channels and of the tasks that
\* refer to it, although a search for a channel takes and gives back a reference.
THEOREM EtmGroupCounts ==
    ASSUME Etm!EtmAssumption
    PROVE  Etm!Spec => []Etm!GroupsCounted
<1>1. EtmInv => Etm!GroupsCounted
  BY Library DEF EtmInv, EtmCounted, EtmOf, EtmLooking, Etm!GroupsCounted
<1> QED
  BY <1>1, EtmInvariance, PTL

\* The groups, slots, channels and calls keep their types.
THEOREM EtmTyped == ASSUME Etm!EtmAssumption PROVE Etm!Spec => []Etm!TypeOK
<1>1. EtmInv => Etm!TypeOK
  BY DEF EtmInv, EtmTypeInv
<1> QED
  BY <1>1, EtmInvariance, PTL

-----------------------------------------------------------------------------
\* The burn counter is odd exactly while a reset or a burn is in progress.
EfuseParity == odd <=> op.pc \in {"reset", "burn", "burnt"}

\* What a reader has read since the counter was what it is now shows the eFuses
\* as they are, as far as it has come.
EfuseSeen ==
    \A r \in Readers :
        reader[r].same /\ ~odd
            => reader[r].got = {b \in efuse : b[1] < reader[r].at}

\* What a call still has to do, by where it is.
EfuseStages ==
    /\ op.pc = "reset" => op.then \in {"prepare", "hold", "release"}
    /\ op.pc \in {"prepared", "swept"} => op.then = "sweep"
    /\ op.pc \in {"burn", "reload", "burnt"} => op.then \in {"sweep", "release"}
    /\ op.pc = "burnt" => pending = {}
    /\ op.pc = "none" /\ mode = 0 => pending = {}

\* The lock is taken at least once per batch, and exactly once per batch where
\* none is begun inside another.
EfuseLocked ==
    /\ lock.owner = None <=> lock.depth = 0
    /\ op.pc = "none" => lock.depth >= mode
    /\ op.pc # "none" => /\ lock.depth >= 1
                         /\ mode = IF op.then = "hold" THEN 1 ELSE 0
    /\ MaxNest = 1 => lock.depth = IF op.pc = "none" THEN mode ELSE 1

\* What the eFuses show before and while a call burns.
EfuseUnburnt == efuse = op.before
EfusePartial ==
    /\ op.before \subseteq efuse
    /\ efuse \subseteq op.before \cup op.want
    /\ pending = op.want
    /\ op.err \in {"ok", "fail"}
    /\ op.left # {} => op.err = "ok"
    /\ op.err = "ok" =>
          \A b \in op.want : b \in efuse \/ BlockOf[b[1]] \in op.left
EfuseProgress ==
    /\ op.pc = "reset" /\ op.then = "prepare" => EfuseUnburnt
    /\ op.pc = "prepared" => /\ EfuseUnburnt
                             /\ op.err \in {"ok"} \cup Efuse!Refusals
                             /\ op.err = "ok" => pending = op.want
    /\ op.pc = "burn" => EfusePartial

EfuseBurning == EfuseStages /\ EfuseProgress /\ Efuse!Outcome /\ Efuse!ProtectionLast

-----------------------------------------------------------------------------
LEMMA EfuseNoOpType == Efuse!NoOp \in Efuse!Op
BY DEF Efuse!NoOp, Efuse!Op, Efuse!Refusals

LEMMA EfuseNoReadType ==
    ASSUME Efuse!EfuseAssumption
    PROVE  Efuse!NoRead \in Efuse!Reader
BY DEF Efuse!NoRead, Efuse!Reader, Efuse!EfuseAssumption

\* A bit lies in a register, and in the block of that register.
LEMMA EfuseBitsInBlocks ==
    ASSUME Efuse!EfuseAssumption, NEW b \in Efuse!Bits
    PROVE  /\ b[1] \in Efuse!Regs
           /\ BlockOf[b[1]] \in Efuse!Blocks
           /\ BlockOf[b[1]] \in Nat
<1>1. PICK r \in Efuse!Regs : b \in {<<r, i>> : i \in 0 .. Width[r] - 1}
  BY DEF Efuse!Bits
<1>2. b[1] = r
  BY <1>1
<1> QED
  BY <1>1, <1>2 DEF Efuse!Blocks, Efuse!EfuseAssumption

\* A write that returns no error has staged all that it was asked for.
LEMMA EfuseAllStaged ==
    ASSUME NEW adds \in SUBSET Efuse!Bits, NEW asks \in SUBSET Efuse!Bits,
           Efuse!Write(adds, asks, "ok")
    PROVE  adds = asks
<1>1. ASSUME NEW bits \in SUBSET Efuse!Bits, adds = Efuse!Staged(bits),
             asks = bits,
             "ok" = Efuse!BlobError(bits)
      PROVE  adds = asks
  <2>1. Efuse!Conflicts(bits) = {}
    BY <1>1 DEF Efuse!BlobError
  <2> QED
    BY <1>1, <2>1 DEF Efuse!Staged
<1>2. ASSUME NEW r \in Efuse!Regs, NEW n \in Counts,
             adds = Efuse!FirstFree({b \in Efuse!Bits : b[1] >= r}, n),
             asks = Efuse!FirstFree({b \in Efuse!Bits : b[1] >= r}, n)
      PROVE  adds = asks
  BY <1>2
<1> QED
  BY <1>1, <1>2 DEF Efuse!Write

\* The burn of a batch or of a write finds work in every block it needs.
LEMMA EfuseNeededCovers ==
    ASSUME Efuse!EfuseAssumption, pending \in SUBSET Efuse!Bits
    PROVE  /\ Efuse!Needed(pending) \subseteq Efuse!Blocks
           /\ \A b \in pending : BlockOf[b[1]] \in Efuse!Needed(pending)
<1>1. ASSUME NEW b \in pending PROVE BlockOf[b[1]] \in Efuse!Needed(pending)
  BY <1>1, EfuseBitsInBlocks DEF Efuse!Needed, Efuse!In
<1> QED
  BY <1>1 DEF Efuse!Needed

-----------------------------------------------------------------------------
(* Types and the lock. *)
LEMMA EfuseBumpType ==
    ASSUME Efuse!TypeOK, Efuse!Bump
    PROVE  odd' \in BOOLEAN /\ reader' \in [Readers -> Efuse!Reader]
<1>1. ASSUME NEW r \in Readers
      PROVE  [reader[r] EXCEPT !.same = FALSE] \in Efuse!Reader
  BY DEF Efuse!TypeOK, Efuse!Reader
<1> QED
  BY <1>1 DEF Efuse!TypeOK, Efuse!Bump

LEMMA EfuseStartResetType ==
    ASSUME Efuse!TypeOK, NEW then \in {"none", "prepare", "sweep", "hold",
           "release"},
           Efuse!StartReset(then)
    PROVE  /\ odd' \in BOOLEAN /\ reader' \in [Readers -> Efuse!Reader]
           /\ op' \in Efuse!Op
           /\ op'.pc = "reset" /\ op'.then = then /\ op'.err = "ok"
           /\ op'.want = {} /\ op'.before = efuse
<1>1. op' \in Efuse!Op
  BY EfuseNoOpType DEF Efuse!StartReset, Efuse!TypeOK, Efuse!Op, Efuse!NoOp
<1> QED
  BY <1>1, EfuseBumpType DEF Efuse!StartReset, Efuse!NoOp

EfuseTypeLock == Efuse!TypeOK /\ EfuseLocked /\ EfuseStages

LEMMA EfuseInitTypeLock ==
    ASSUME Efuse!EfuseAssumption
    PROVE  Efuse!Init => EfuseTypeLock
<1> SUFFICES ASSUME Efuse!EfuseAssumption, Efuse!Init PROVE EfuseTypeLock
  OBVIOUS
<1>1. Efuse!TypeOK
  <2>1. mode \in 0 .. MaxNest
    BY DEF Efuse!Init, Efuse!EfuseAssumption
  <2>5. odd \in BOOLEAN
    BY DEF Efuse!Init
  <2>2. lock \in [owner : Tasks \cup {None}, depth : Nat]
    BY DEF Efuse!Init
  <2>3. reader \in [Readers -> Efuse!Reader]
    BY EfuseNoReadType DEF Efuse!Init
  <2>4. efuse \subseteq Efuse!Bits /\ pending \subseteq Efuse!Bits /\ op \in Efuse!Op
    BY EfuseNoOpType DEF Efuse!Init
  <2> QED
    BY <2>1, <2>2, <2>3, <2>4, <2>5 DEF Efuse!TypeOK
<1>2. EfuseLocked /\ EfuseStages
  BY DEF Efuse!Init, EfuseLocked, EfuseStages, Efuse!NoOp, Efuse!EfuseAssumption
<1> QED
  BY <1>1, <1>2 DEF EfuseTypeLock

\* Locks taken and given back keep their type, and what their count says of
\* their owner.
LEMMA EfuseAcquiredType ==
    ASSUME Efuse!EfuseAssumption, Efuse!TypeOK, EfuseLocked, NEW t \in Tasks
    PROVE  /\ Efuse!Acquired(t) \in [owner : Tasks \cup {None}, depth : Nat]
           /\ Efuse!Acquired(t).owner # None
           /\ Efuse!Acquired(t).depth = lock.depth + 1
BY DEF Efuse!Acquired, Efuse!TypeOK, Efuse!EfuseAssumption

LEMMA EfuseReleasedType ==
    ASSUME Efuse!EfuseAssumption, Efuse!TypeOK, EfuseLocked, lock.depth >= 1
    PROVE  /\ Efuse!Released \in [owner : Tasks \cup {None}, depth : Nat]
           /\ Efuse!Released.owner = None <=> Efuse!Released.depth = 0
           /\ Efuse!Released.depth = lock.depth - 1
BY DEF Efuse!Released, Efuse!TypeOK, EfuseLocked, Efuse!EfuseAssumption

LEMMA EfuseWriteStartTypeLock ==
    ASSUME Efuse!EfuseAssumption, EfuseTypeLock, NEW t \in Tasks,
           Efuse!WriteStart(t)
    PROVE  EfuseTypeLock'
<1> USE DEF EfuseTypeLock
<1>1. Efuse!StartReset("prepare") /\ op.pc = "none" /\ mode = 0
  BY DEF Efuse!WriteStart, Efuse!CanLock
<1>2. Efuse!TypeOK'
  BY <1>1, EfuseStartResetType, EfuseAcquiredType
     DEF Efuse!WriteStart, Efuse!TypeOK
<1>3. EfuseLocked'
  BY <1>1, EfuseStartResetType, EfuseAcquiredType
     DEF Efuse!WriteStart, Efuse!TypeOK, EfuseLocked
<1>4. EfuseStages'
  BY <1>1, EfuseStartResetType DEF Efuse!WriteStart, EfuseStages
<1> QED
  BY <1>2, <1>3, <1>4

LEMMA EfuseBeginTypeLock ==
    ASSUME Efuse!EfuseAssumption, EfuseTypeLock, NEW t \in Tasks, Efuse!Begin(t)
    PROVE  EfuseTypeLock'
<1> USE DEF EfuseTypeLock
<1>1. /\ op.pc = "none" /\ mode \in Nat /\ mode' = mode + 1
      /\ mode' \in 0 .. MaxNest /\ MaxNest \in Nat
      /\ lock' = Efuse!Acquired(t) /\ lock.depth \in Nat
  BY DEF Efuse!Begin, Efuse!CanLock, Efuse!TypeOK, Efuse!EfuseAssumption
<1>2. CASE mode = 0
  <2>1. Efuse!StartReset("hold")
    BY <1>2 DEF Efuse!Begin
  <2>2. Efuse!TypeOK'
    BY <1>1, <2>1, EfuseStartResetType, EfuseAcquiredType
       DEF Efuse!Begin, Efuse!TypeOK
  <2>3. EfuseLocked'
    BY <1>1, <1>2, <2>1, EfuseStartResetType, EfuseAcquiredType
       DEF Efuse!Begin, Efuse!TypeOK, EfuseLocked
  <2>4. EfuseStages'
    BY <2>1, EfuseStartResetType DEF EfuseStages
  <2> QED
    BY <2>2, <2>3, <2>4
<1>3. CASE mode # 0
  <2>1. Efuse!TypeOK'
    BY <1>1, <1>3, EfuseAcquiredType DEF Efuse!Begin, Efuse!TypeOK
  <2>2. EfuseLocked'
    <3>1. MaxNest # 1
      BY <1>1, <1>3
    <3> QED
      BY <1>1, <1>3, <3>1, EfuseAcquiredType
         DEF Efuse!Begin, Efuse!TypeOK, EfuseLocked
  <2>3. EfuseStages'
    BY <1>1, <1>3 DEF Efuse!Begin, EfuseStages
  <2> QED
    BY <2>1, <2>2, <2>3
<1> QED
  BY <1>2, <1>3

LEMMA EfuseCancelTypeLock ==
    ASSUME Efuse!EfuseAssumption, EfuseTypeLock, NEW t \in Tasks,
           Efuse!Cancel(t)
    PROVE  EfuseTypeLock'
<1> USE DEF EfuseTypeLock
<1>1. /\ op.pc = "none" /\ mode \in Nat /\ mode > 0 /\ mode' = mode - 1
      /\ mode' \in 0 .. MaxNest /\ MaxNest \in Nat
      /\ lock' = lock /\ lock.depth \in Nat
  BY DEF Efuse!Cancel, Efuse!CanLock, Efuse!TypeOK, Efuse!EfuseAssumption
<1>2. CASE mode = 1
  <2>1. Efuse!StartReset("release")
    BY <1>2 DEF Efuse!Cancel
  <2>2. Efuse!TypeOK'
    BY <1>1, <2>1, EfuseStartResetType DEF Efuse!Cancel, Efuse!TypeOK
  <2>3. EfuseLocked'
    BY <1>1, <1>2, <2>1, EfuseStartResetType DEF Efuse!Cancel, EfuseLocked
  <2>4. EfuseStages'
    BY <2>1, EfuseStartResetType DEF EfuseStages
  <2> QED
    BY <2>2, <2>3, <2>4
<1>3. CASE mode # 1
  <2>1. Efuse!TypeOK'
    BY <1>1, <1>3 DEF Efuse!Cancel, Efuse!TypeOK
  <2>2. EfuseLocked'
    <3>1. MaxNest # 1
      BY <1>1, <1>3 DEF Efuse!TypeOK
    <3> QED
      BY <1>1, <1>3, <3>1 DEF Efuse!Cancel, EfuseLocked
  <2>3. EfuseStages'
    BY <1>1, <1>3 DEF Efuse!Cancel, EfuseStages
  <2> QED
    BY <2>1, <2>2, <2>3
<1> QED
  BY <1>2, <1>3

LEMMA EfuseCommitTypeLock ==
    ASSUME Efuse!EfuseAssumption, EfuseTypeLock, NEW t \in Tasks,
           Efuse!Commit(t)
    PROVE  EfuseTypeLock'
<1> USE DEF EfuseTypeLock
<1>1. /\ op.pc = "none" /\ mode \in Nat /\ mode > 0 /\ mode' = mode - 1
      /\ mode' \in 0 .. MaxNest /\ MaxNest \in Nat
      /\ lock' = lock /\ lock.depth \in Nat
  BY DEF Efuse!Commit, Efuse!CanLock, Efuse!TypeOK, Efuse!EfuseAssumption
<1>2. CASE mode = 1
  <2>1. /\ op'.pc \in {"reset", "burn"} /\ op'.then = "release"
        /\ op' \in Efuse!Op
    <3>1. Efuse!Needed(pending) \subseteq Efuse!Blocks
      BY DEF Efuse!Needed
    <3> QED
      BY <1>2, <3>1 DEF Efuse!Commit, Efuse!Op, Efuse!TypeOK, Efuse!Refusals
  <2>2. Efuse!TypeOK'
    BY <1>1, <1>2, <2>1, EfuseBumpType DEF Efuse!Commit, Efuse!TypeOK
  <2>3. EfuseLocked'
    BY <1>1, <1>2, <2>1 DEF Efuse!Commit, EfuseLocked
  <2>4. EfuseStages'
    BY <2>1 DEF EfuseStages
  <2> QED
    BY <2>2, <2>3, <2>4
<1>3. CASE mode # 1
  <2>1. Efuse!TypeOK'
    BY <1>1, <1>3 DEF Efuse!Commit, Efuse!TypeOK
  <2>2. EfuseLocked'
    <3>1. MaxNest # 1
      BY <1>1, <1>3 DEF Efuse!TypeOK
    <3> QED
      BY <1>1, <1>3, <3>1 DEF Efuse!Commit, EfuseLocked
  <2>3. EfuseStages'
    BY <1>1, <1>3 DEF Efuse!Commit, EfuseStages
  <2> QED
    BY <2>1, <2>2, <2>3
<1> QED
  BY <1>2, <1>3

\* The end of a reset: the first write of a call, or the end of the call.
LEMMA EfuseResetDoneTypeLock ==
    ASSUME Efuse!EfuseAssumption, EfuseTypeLock, Efuse!ResetDone
    PROVE  EfuseTypeLock'
<1> USE DEF EfuseTypeLock
<1>1. /\ op.pc = "reset" /\ Efuse!Bump /\ efuse' = efuse /\ mode' = mode
      /\ lock.depth \in Nat /\ mode \in Nat
  <2>1. lock.depth \in Nat /\ mode \in Nat
    BY DEF Efuse!TypeOK
  <2> QED
    BY <2>1 DEF Efuse!ResetDone
<1>2. ASSUME op.then = "prepare", lock' = lock,
             NEW adds \in SUBSET Efuse!Bits, NEW asks \in SUBSET Efuse!Bits,
             NEW error \in {"ok"} \cup Efuse!Refusals, pending' = adds,
             op' = [op EXCEPT !.pc = "prepared", !.then = "sweep",
                        !.want = asks,
                        !.err = IF error = "ok" /\ Efuse!SchemeRefuses(adds)
                                THEN "coding" ELSE error]
      PROVE  EfuseTypeLock'
  <2>1. op' \in Efuse!Op /\ op'.pc = "prepared" /\ op'.then = "sweep"
    BY <1>2 DEF Efuse!TypeOK, Efuse!Op, Efuse!Refusals
  <2>2. Efuse!TypeOK'
    BY <1>1, <1>2, <2>1, EfuseBumpType DEF Efuse!TypeOK
  <2> QED
    BY <1>1, <1>2, <2>1, <2>2 DEF EfuseLocked, EfuseStages
<1>3. ASSUME op.then = "hold", pending' = {}, op' = Efuse!NoOp, lock' = lock
      PROVE  EfuseTypeLock'
  <2>1. Efuse!TypeOK'
    BY <1>1, <1>3, EfuseBumpType, EfuseNoOpType DEF Efuse!TypeOK
  <2> QED
    BY <1>1, <1>3, <2>1 DEF EfuseLocked, EfuseStages, Efuse!NoOp
<1>4. ASSUME op.then = "release", pending' = {}, op' = Efuse!NoOp,
             lock' = Efuse!Released
      PROVE  EfuseTypeLock'
  <2>1. Efuse!TypeOK'
    BY <1>1, <1>4, EfuseBumpType, EfuseNoOpType, EfuseReleasedType
       DEF Efuse!TypeOK, EfuseLocked
  <2> QED
    BY <1>1, <1>4, <2>1, EfuseReleasedType
       DEF EfuseLocked, EfuseStages, Efuse!NoOp
<1> QED
  BY <1>2, <1>3, <1>4 DEF Efuse!ResetDone

\* A step of a call under way which keeps the lock and the mode.
LEMMA EfuseUnderWay ==
    ASSUME EfuseLocked, op.pc # "none", op'.pc # "none",
           (op.then = "hold") <=> (op'.then = "hold"), lock' = lock,
           mode' = mode
    PROVE  EfuseLocked'
BY DEF EfuseLocked

LEMMA EfuseBurningTypeLock ==
    ASSUME Efuse!EfuseAssumption, EfuseTypeLock,
           Efuse!Prepared \/ Efuse!BurnBlock \/ Efuse!BurnReset \/ Efuse!Reloaded \/ Efuse!Swept
    PROVE  EfuseTypeLock'
<1> USE DEF EfuseTypeLock
<1>1. CASE Efuse!Prepared
  <2>1. /\ op' \in Efuse!Op
        /\ op'.pc \in {"burn", "reset"}
        /\ op'.pc = "burn" => op'.then = "sweep"
        /\ op'.pc = "reset" => op'.then = "release"
    <3>1. Efuse!Needed(pending) \subseteq Efuse!Blocks /\ op.then = "sweep"
      BY <1>1 DEF Efuse!Needed, EfuseStages, Efuse!Prepared
    <3> QED
      BY <1>1, <3>1 DEF Efuse!Prepared, Efuse!Op, Efuse!TypeOK
  <2>2. Efuse!TypeOK'
    BY <1>1, <2>1, EfuseBumpType DEF Efuse!Prepared, Efuse!TypeOK
  <2>3. EfuseLocked'
    BY <1>1, <2>1, EfuseUnderWay DEF Efuse!Prepared, EfuseStages
  <2> QED
    BY <2>1, <2>2, <2>3 DEF EfuseStages
<1>2. CASE Efuse!BurnBlock
  <2>1. /\ op' \in Efuse!Op /\ op'.pc = "burn" /\ op'.then = op.then
        /\ efuse' \subseteq Efuse!Bits
    BY <1>2 DEF Efuse!BurnBlock, Efuse!Op, Efuse!TypeOK
  <2>2. Efuse!TypeOK'
    BY <1>2, <2>1 DEF Efuse!BurnBlock, Efuse!TypeOK
  <2>3. EfuseLocked'
    BY <1>2, <2>1, EfuseUnderWay DEF Efuse!BurnBlock
  <2> QED
    BY <1>2, <2>1, <2>2, <2>3 DEF Efuse!BurnBlock, EfuseStages
<1>3. CASE Efuse!BurnReset
  <2>1. op' \in Efuse!Op /\ op'.pc = "reload" /\ op'.then = op.then
    BY <1>3 DEF Efuse!BurnReset, Efuse!Op, Efuse!TypeOK
  <2>2. Efuse!TypeOK'
    BY <1>3, <2>1, EfuseBumpType DEF Efuse!BurnReset, Efuse!TypeOK
  <2>3. EfuseLocked'
    BY <1>3, <2>1, EfuseUnderWay DEF Efuse!BurnReset
  <2> QED
    BY <1>3, <2>1, <2>2, <2>3 DEF Efuse!BurnReset, EfuseStages
<1>4. CASE Efuse!Reloaded
  <2>1. op' \in Efuse!Op /\ op'.pc = "burnt" /\ op'.then = op.then
    BY <1>4 DEF Efuse!Reloaded, Efuse!Op, Efuse!TypeOK
  <2>2. Efuse!TypeOK'
    BY <1>4, <2>1, EfuseBumpType DEF Efuse!Reloaded, Efuse!TypeOK
  <2>3. EfuseLocked'
    BY <1>4, <2>1, EfuseUnderWay DEF Efuse!Reloaded
  <2> QED
    BY <1>4, <2>1, <2>2, <2>3 DEF Efuse!Reloaded, EfuseStages
<1>5. CASE Efuse!Swept
  <2>1. op' \in Efuse!Op /\ op'.pc = "reset" /\ op'.then = "release"
    BY <1>5 DEF Efuse!Swept, Efuse!Op, Efuse!TypeOK
  <2>2. Efuse!TypeOK'
    BY <1>5, <2>1, EfuseBumpType DEF Efuse!Swept, Efuse!TypeOK
  <2>3. EfuseLocked'
    BY <1>5, <2>1, EfuseUnderWay DEF Efuse!Swept, EfuseStages
  <2> QED
    BY <2>1, <2>2, <2>3 DEF EfuseStages
<1> QED
  BY <1>1, <1>2, <1>3, <1>4, <1>5

LEMMA EfuseBurntTypeLock ==
    ASSUME Efuse!EfuseAssumption, EfuseTypeLock, Efuse!Burnt
    PROVE  EfuseTypeLock'
<1> USE DEF EfuseTypeLock
<1>1. /\ op.pc = "burnt" /\ Efuse!Bump /\ efuse' = efuse /\ mode' = mode
      /\ pending' = pending /\ pending = {}
      /\ lock.depth \in Nat /\ mode \in Nat
  BY DEF Efuse!Burnt, Efuse!TypeOK, EfuseStages
<1>2. CASE op.then = "sweep"
  <2>1. op' \in Efuse!Op /\ op'.pc = "swept" /\ op'.then = "sweep" /\ lock' = lock
    BY <1>2 DEF Efuse!Burnt, Efuse!Op, Efuse!TypeOK
  <2>2. Efuse!TypeOK'
    BY <1>1, <2>1, EfuseBumpType DEF Efuse!TypeOK
  <2>3. EfuseLocked'
    BY <1>1, <1>2, <2>1, EfuseUnderWay
  <2> QED
    BY <2>1, <2>2, <2>3 DEF EfuseStages
<1>3. CASE op.then # "sweep"
  <2>1. op' = Efuse!NoOp /\ lock' = Efuse!Released /\ op.then = "release"
    BY <1>1, <1>3 DEF Efuse!Burnt, EfuseStages
  <2>2. Efuse!TypeOK'
    BY <1>1, <2>1, EfuseBumpType, EfuseNoOpType, EfuseReleasedType
       DEF Efuse!TypeOK, EfuseLocked
  <2> QED
    BY <1>1, <2>1, <2>2, EfuseReleasedType
       DEF EfuseLocked, EfuseStages, Efuse!NoOp
<1> QED
  BY <1>2, <1>3

LEMMA EfuseReaderTypeLock ==
    ASSUME Efuse!EfuseAssumption, EfuseTypeLock, NEW r \in Readers,
           Efuse!ReadStart(r) \/ Efuse!Read(r) \/ Efuse!ReadEnd(r)
    PROVE  EfuseTypeLock'
<1> USE DEF EfuseTypeLock
<1>1. reader' \in [Readers -> Efuse!Reader]
  <2>1. reader[r] \in Efuse!Reader
    BY DEF Efuse!TypeOK
  <2>2. [at |-> 0, got |-> {}, same |-> TRUE] \in Efuse!Reader
    BY DEF Efuse!Reader, Efuse!EfuseAssumption
  <2>3. CASE Efuse!ReadStart(r)
    BY <2>2, <2>3 DEF Efuse!ReadStart, Efuse!TypeOK
  <2>4. CASE Efuse!Read(r)
    <3>1. /\ reader[r].at + 1 \in -1 .. LastReg + 1
          /\ reader[r].got \subseteq Efuse!Bits
      BY <2>1, <2>4
         DEF Efuse!Read, Efuse!Reader, Efuse!Regs, Efuse!EfuseAssumption
    <3>2. {b \in efuse : b[1] = reader[r].at} \subseteq Efuse!Bits
      BY DEF Efuse!TypeOK
    <3>3. [reader[r] EXCEPT
              !.at = @ + 1,
              !.got = @ \cup {b \in efuse : b[1] = reader[r].at}] \in Efuse!Reader
      BY <2>1, <3>1, <3>2 DEF Efuse!Reader
    <3> QED
      BY <2>4, <3>3 DEF Efuse!Read, Efuse!TypeOK
  <2>5. CASE Efuse!ReadEnd(r)
    BY <2>2, <2>5, EfuseNoReadType DEF Efuse!ReadEnd, Efuse!TypeOK
  <2> QED
    BY <2>3, <2>4, <2>5
<1>2. UNCHANGED <<efuse, pending, odd, mode, lock, op>>
  BY DEF Efuse!ReadStart, Efuse!Read, Efuse!ReadEnd
<1> QED
  BY <1>1, <1>2 DEF Efuse!TypeOK, EfuseLocked, EfuseStages

LEMMA EfuseNextTypeLock ==
    ASSUME Efuse!EfuseAssumption, EfuseTypeLock, [Efuse!Next]_(Efuse!vars)
    PROVE  EfuseTypeLock'
<1>1. ASSUME NEW t \in Tasks, Efuse!WriteInBatch(t)
      PROVE  EfuseTypeLock'
  BY <1>1
     DEF Efuse!WriteInBatch, EfuseTypeLock, Efuse!TypeOK, EfuseLocked,
         EfuseStages
<1>2. CASE UNCHANGED Efuse!vars
  BY <1>2 DEF Efuse!vars, EfuseTypeLock, Efuse!TypeOK, EfuseLocked, EfuseStages
<1> QED
  BY <1>1, <1>2, EfuseWriteStartTypeLock, EfuseBeginTypeLock,
     EfuseCancelTypeLock, EfuseCommitTypeLock, EfuseResetDoneTypeLock,
     EfuseBurningTypeLock, EfuseBurntTypeLock, EfuseReaderTypeLock
     DEF Efuse!Next

-----------------------------------------------------------------------------
(* Readers. *)
EfuseWatched == EfuseTypeLock /\ EfuseParity /\ EfuseSeen

\* What moves the counter makes every read under way one to be repeated.
LEMMA EfuseBumpSeen == ASSUME Efuse!TypeOK, Efuse!Bump PROVE EfuseSeen'
<1>1. ASSUME NEW r \in Readers PROVE reader'[r].same = FALSE
  <2>1. reader'[r] = [reader[r] EXCEPT !.same = FALSE] /\ reader[r] \in Efuse!Reader
    BY DEF Efuse!Bump, Efuse!TypeOK
  <2> QED
    BY <2>1 DEF Efuse!Reader
<1> QED
  BY <1>1 DEF EfuseSeen

LEMMA EfuseBumpParity ==
    ASSUME Efuse!TypeOK, EfuseParity, Efuse!Bump,
           op.pc \in {"reset", "burn", "burnt"}
              <=> op'.pc \notin {"reset", "burn", "burnt"}
    PROVE  EfuseParity'
BY DEF EfuseParity, Efuse!Bump, Efuse!TypeOK

\* Nothing that readers and the counter depend on.
LEMMA EfuseUnseen ==
    ASSUME EfuseParity, EfuseSeen, UNCHANGED <<efuse, odd, reader>>,
           op'.pc = op.pc
    PROVE  EfuseParity' /\ EfuseSeen'
BY DEF EfuseParity, EfuseSeen

LEMMA EfuseReadSeen ==
    ASSUME Efuse!EfuseAssumption, EfuseWatched, NEW r \in Readers, Efuse!Read(r)
    PROVE  EfuseSeen'
<1>1. /\ reader[r] \in Efuse!Reader /\ reader[r].at \in Int
      /\ UNCHANGED <<efuse, odd>>
      /\ efuse \subseteq Efuse!Bits
  BY DEF EfuseWatched, EfuseTypeLock, Efuse!TypeOK, Efuse!Reader, Efuse!Read
<1>2. ASSUME NEW q \in Readers, reader'[q].same, ~odd
      PROVE  reader'[q].got = {b \in efuse : b[1] < reader'[q].at}
  <2>1. CASE q = r
    <3>1. /\ reader'[r].at = reader[r].at + 1
          /\ reader'[r].got =
                reader[r].got \cup {b \in efuse : b[1] = reader[r].at}
          /\ reader'[r].same = reader[r].same
      BY <1>1
         DEF EfuseWatched, EfuseTypeLock, Efuse!TypeOK, Efuse!Read,
             Efuse!Reader
    <3>2. reader[r].got = {b \in efuse : b[1] < reader[r].at}
      BY <1>2, <2>1, <3>1 DEF EfuseWatched, EfuseSeen
    <3>3. ASSUME NEW b \in efuse PROVE b[1] \in Int
      BY <1>1, <3>3, EfuseBitsInBlocks DEF Efuse!Regs
    <3>4. \A b \in efuse : b[1] < reader[r].at + 1
                              <=> b[1] < reader[r].at \/ b[1] = reader[r].at
      BY <1>1, <3>3
    <3> QED
      BY <2>1, <3>1, <3>2, <3>4
  <2>2. CASE q # r
    <3>1. reader'[q] = reader[q]
      BY <2>2 DEF EfuseWatched, EfuseTypeLock, Efuse!TypeOK, Efuse!Read
    <3> QED
      BY <1>2, <3>1 DEF EfuseWatched, EfuseSeen
  <2> QED
    BY <2>1, <2>2
<1> QED
  BY <1>1, <1>2 DEF EfuseSeen

LEMMA EfuseFreshSeen ==
    ASSUME Efuse!EfuseAssumption, EfuseWatched, NEW r \in Readers,
           Efuse!ReadStart(r) \/ Efuse!ReadEnd(r)
    PROVE  EfuseSeen'
<1>1. UNCHANGED <<efuse, odd>> /\ efuse \subseteq Efuse!Bits
  BY DEF EfuseWatched, EfuseTypeLock, Efuse!TypeOK, Efuse!ReadStart,
         Efuse!ReadEnd
<1>2. \/ reader' = [reader EXCEPT ![r] = Efuse!NoRead]
      \/ reader' = [reader EXCEPT ![r] =
                       [at |-> 0, got |-> {}, same |-> TRUE]]
  BY DEF Efuse!ReadStart, Efuse!ReadEnd, EfuseWatched, EfuseTypeLock,
         Efuse!TypeOK
<1>3. {b \in efuse : b[1] < 0} = {}
  <2>1. ASSUME NEW b \in efuse PROVE ~(b[1] < 0)
    BY <1>1, <2>1, EfuseBitsInBlocks DEF Efuse!Regs
  <2> QED
    BY <2>1
<1> QED
  BY <1>1, <1>2, <1>3
     DEF EfuseWatched, EfuseTypeLock, Efuse!TypeOK, EfuseSeen, Efuse!NoRead

LEMMA EfuseNextWatched ==
    ASSUME Efuse!EfuseAssumption, EfuseWatched, [Efuse!Next]_(Efuse!vars)
    PROVE  EfuseWatched'
<1> SUFFICES EfuseParity' /\ EfuseSeen'
  BY EfuseNextTypeLock DEF EfuseWatched
<1> Efuse!TypeOK /\ EfuseParity /\ EfuseSeen
  BY DEF EfuseWatched, EfuseTypeLock
<1>1. ASSUME NEW t \in Tasks,
             Efuse!WriteStart(t) \/ Efuse!Begin(t) \/ Efuse!Cancel(t) \/ Efuse!Commit(t)
      PROVE  EfuseParity' /\ EfuseSeen'
  <2>1. CASE UNCHANGED <<odd, op, reader>>
    <3>1. UNCHANGED efuse
      BY <1>1 DEF Efuse!WriteStart, Efuse!Begin, Efuse!Cancel, Efuse!Commit
    <3> QED
      BY <2>1, <3>1, EfuseUnseen
  <2>2. CASE ~UNCHANGED <<odd, op, reader>>
    <3>1. op.pc = "none"
      BY <1>1
         DEF Efuse!WriteStart, Efuse!Begin, Efuse!Cancel, Efuse!Commit,
             Efuse!CanLock
    <3>2. ASSUME NEW then,
                 Efuse!StartReset(then) PROVE Efuse!Bump /\ op'.pc = "reset"
      BY <3>2 DEF Efuse!StartReset, Efuse!NoOp
    <3>3. CASE Efuse!WriteStart(t) \/ Efuse!Begin(t) \/ Efuse!Cancel(t)
      <4>1. \E then : Efuse!StartReset(then)
        BY <2>2, <3>3 DEF Efuse!WriteStart, Efuse!Begin, Efuse!Cancel
      <4> QED
        BY <3>1, <3>2, <4>1, EfuseBumpSeen, EfuseBumpParity
    <3>4. CASE Efuse!Commit(t)
      <4>1. Efuse!Bump /\ op'.pc \in {"reset", "burn"}
        BY <2>2, <3>4 DEF Efuse!Commit
      <4> QED
        BY <3>1, <4>1, EfuseBumpSeen, EfuseBumpParity
    <3> QED
      BY <1>1, <3>3, <3>4
  <2> QED
    BY <2>1, <2>2
<1>2. ASSUME NEW t \in Tasks,
             Efuse!WriteInBatch(t) PROVE EfuseParity' /\ EfuseSeen'
  BY <1>2, EfuseUnseen DEF Efuse!WriteInBatch
<1>3. CASE Efuse!ResetDone
  <2>1. Efuse!Bump /\ op.pc = "reset" /\ op \in Efuse!Op
    BY <1>3 DEF Efuse!ResetDone, Efuse!TypeOK
  <2>2. op'.pc \in {"none", "prepared"}
    <3>1. CASE op.then = "prepare"
      BY <1>3, <2>1, <3>1 DEF Efuse!ResetDone, Efuse!Op
    <3>2. CASE op.then # "prepare"
      <4>1. op' = Efuse!NoOp
        BY <1>3, <3>2 DEF Efuse!ResetDone
      <4> QED
        BY <4>1 DEF Efuse!NoOp
    <3> QED
      BY <3>1, <3>2
  <2> QED
    BY <2>1, <2>2, EfuseBumpSeen, EfuseBumpParity
<1>4. CASE Efuse!Prepared \/ Efuse!Swept
  <2>1. /\ Efuse!Bump /\ op.pc \in {"prepared", "swept"}
        /\ op'.pc \in {"reset", "burn"}
    BY <1>4 DEF Efuse!Prepared, Efuse!Swept, Efuse!TypeOK, Efuse!Op
  <2> QED
    BY <2>1, EfuseBumpSeen, EfuseBumpParity
<1>5. CASE Efuse!BurnBlock
  <2>1. /\ op.pc = "burn" /\ op'.pc = "burn"
        /\ UNCHANGED <<odd, reader>>
    BY <1>5 DEF Efuse!BurnBlock, Efuse!TypeOK, Efuse!Op
  <2> QED
    BY <2>1 DEF EfuseParity, EfuseSeen
<1>6. CASE Efuse!BurnReset \/ Efuse!Reloaded
  <2>1. /\ Efuse!Bump
        /\ \/ op.pc = "burn" /\ op'.pc = "reload"
           \/ op.pc = "reload" /\ op'.pc = "burnt"
    BY <1>6 DEF Efuse!BurnReset, Efuse!Reloaded, Efuse!TypeOK, Efuse!Op
  <2> QED
    BY <2>1, EfuseBumpSeen, EfuseBumpParity
<1>7. CASE Efuse!Burnt
  <2>1. Efuse!Bump /\ op.pc = "burnt" /\ op'.pc \in {"none", "swept"}
    BY <1>7 DEF Efuse!Burnt, Efuse!NoOp, Efuse!TypeOK, Efuse!Op
  <2> QED
    BY <2>1, EfuseBumpSeen, EfuseBumpParity
<1>8. ASSUME NEW r \in Readers,
             Efuse!ReadStart(r) \/ Efuse!Read(r) \/ Efuse!ReadEnd(r)
      PROVE  EfuseParity' /\ EfuseSeen'
  <2>1. EfuseParity'
    BY <1>8 DEF Efuse!ReadStart, Efuse!Read, Efuse!ReadEnd, EfuseParity
  <2> QED
    BY <1>8, <2>1, EfuseReadSeen, EfuseFreshSeen
<1>9. CASE UNCHANGED Efuse!vars
  BY <1>9, EfuseUnseen DEF Efuse!vars
<1> QED
  BY <1>1, <1>2, <1>3, <1>4, <1>5, <1>6, <1>7, <1>8, <1>9
     DEF Efuse!Next, EfuseWatched

LEMMA EfuseAlwaysWatched ==
    ASSUME Efuse!EfuseAssumption
    PROVE  Efuse!Spec => []EfuseWatched
<1>1. Efuse!Init => EfuseWatched
  <2>1. Efuse!Init => EfuseParity /\ EfuseSeen
    BY DEF Efuse!Init, EfuseParity, EfuseSeen, Efuse!NoOp, Efuse!NoRead
  <2> QED
    BY <2>1, EfuseInitTypeLock DEF EfuseWatched
<1>2. EfuseWatched /\ [Efuse!Next]_(Efuse!vars) => EfuseWatched'
  BY EfuseNextWatched
<1> QED
  BY <1>1, <1>2, PTL DEF Efuse!Spec

\* The state of the eFuse manager keeps its type.
THEOREM EfuseTyped ==
    ASSUME Efuse!EfuseAssumption
    PROVE  Efuse!Spec => []Efuse!TypeOK
<1>1. EfuseWatched => Efuse!TypeOK
  BY DEF EfuseWatched, EfuseTypeLock
<1> QED
  BY <1>1, EfuseAlwaysWatched, PTL

\* For any registers, blocks and number of readers: a read that is accepted is
\* a snapshot of the eFuses, though no lock is taken.
THEOREM EfuseSnapshots ==
    ASSUME Efuse!EfuseAssumption
    PROVE  Efuse!Spec => []Efuse!AtomicReads
<1>1. ASSUME Efuse!EfuseAssumption, EfuseWatched PROVE Efuse!AtomicReads
  <2>1. ASSUME NEW r \in Readers, reader[r].at = LastReg + 1, Efuse!Accepts(reader[r])
        PROVE  reader[r].got = efuse
    <3>1. reader[r].got = {b \in efuse : b[1] < LastReg + 1}
      BY <1>1, <2>1 DEF EfuseWatched, EfuseSeen, Efuse!Accepts
    <3>2. ASSUME NEW b \in efuse PROVE b[1] < LastReg + 1
      BY <1>1, <3>2, EfuseBitsInBlocks
         DEF EfuseWatched, EfuseTypeLock, Efuse!TypeOK, Efuse!Regs,
             Efuse!EfuseAssumption
    <3> QED
      BY <3>1, <3>2
  <2> QED
    BY <2>1 DEF Efuse!AtomicReads
<1> QED
  BY <1>1, EfuseAlwaysWatched, PTL

\* As long as no batch is begun inside another, the lock is free and nothing is
\* left to burn whenever no batch is open and no call in progress.
THEOREM EfuseQuiescentUnnested ==
    ASSUME Efuse!EfuseAssumption, MaxNest = 1
    PROVE  Efuse!Spec => []Efuse!Quiescent
<1>1. ASSUME MaxNest = 1, EfuseWatched PROVE Efuse!Quiescent
  BY <1>1
     DEF EfuseWatched, EfuseTypeLock, EfuseLocked, EfuseStages, Efuse!Quiescent
<1> QED
  BY <1>1, EfuseAlwaysWatched, PTL

-----------------------------------------------------------------------------
(* Writers: what a call burns. *)
EfuseWriting == EfuseTypeLock /\ EfuseBurning

\* A call that begins has burnt nothing and was refused nothing.
LEMMA EfuseBegunBurning ==
    ASSUME Efuse!TypeOK, op'.pc = "reset", op'.err = "ok", op'.want = {},
           op'.before = efuse, efuse' = efuse
    PROVE  EfuseProgress' /\ Efuse!Outcome' /\ Efuse!ProtectionLast'
BY DEF EfuseProgress, EfuseUnburnt, EfusePartial, Efuse!Outcome,
       Efuse!ProtectionLast

\* A call that is over says nothing.
LEMMA EfuseOverBurning ==
    ASSUME op' = Efuse!NoOp
    PROVE  EfuseProgress' /\ Efuse!Outcome' /\ Efuse!ProtectionLast'
BY DEF EfuseProgress, Efuse!Outcome, Efuse!ProtectionLast, Efuse!NoOp

\* What has not been burnt is not protected either.
LEMMA EfuseUnburntProtects == ASSUME EfuseUnburnt PROVE Efuse!ProtectionLast
BY DEF EfuseUnburnt, Efuse!ProtectionLast

\* A call about to burn all it was asked for.
LEMMA EfuseAboutToBurn ==
    ASSUME Efuse!EfuseAssumption, pending \in SUBSET Efuse!Bits,
           pending' = pending, efuse' = efuse,
           op'.pc = "burn", op'.err = "ok", op'.left = Efuse!Needed(pending),
           op'.want = pending, op'.before = efuse
    PROVE  EfuseProgress' /\ Efuse!Outcome' /\ Efuse!ProtectionLast'
<1>1. EfusePartial'
  BY EfuseNeededCovers DEF EfusePartial
<1>2. EfuseUnburnt'
  BY DEF EfuseUnburnt
<1> QED
  BY <1>1, <1>2
     DEF EfuseProgress, Efuse!Outcome, Efuse!ProtectionLast, EfuseUnburnt

LEMMA EfuseCallBurning ==
    ASSUME Efuse!EfuseAssumption, EfuseWriting, NEW t \in Tasks,
           Efuse!WriteStart(t) \/ Efuse!WriteInBatch(t) \/ Efuse!Begin(t) \/ Efuse!Cancel(t) \/ Efuse!Commit(t)
    PROVE  EfuseProgress' /\ Efuse!Outcome' /\ Efuse!ProtectionLast'
<1> USE DEF EfuseWriting, EfuseTypeLock
<1>1. op.pc = "none" /\ efuse' = efuse /\ Efuse!TypeOK
  BY DEF Efuse!WriteStart, Efuse!WriteInBatch, Efuse!Begin, Efuse!Cancel,
         Efuse!Commit, Efuse!CanLock
<1>2. CASE op' = op
  <2>1. Efuse!ProtectionLast'
    BY <1>1, <1>2 DEF EfuseBurning, Efuse!ProtectionLast
  <2> QED
    BY <1>1, <1>2, <2>1 DEF EfuseProgress, Efuse!Outcome
<1>3. ASSUME NEW then \in {"prepare", "hold", "release"}, Efuse!StartReset(then)
      PROVE  EfuseProgress' /\ Efuse!Outcome' /\ Efuse!ProtectionLast'
  BY <1>1, <1>3, EfuseStartResetType, EfuseBegunBurning
<1>4. CASE Efuse!Commit(t) /\ op' # op
  <2>1. /\ op' = [pc |-> IF Efuse!SchemeRefuses(pending) THEN "reset" ELSE "burn",
                  then |-> "release",
                  err |-> IF Efuse!SchemeRefuses(pending) THEN "coding" ELSE "ok",
                  left |-> IF Efuse!SchemeRefuses(pending) THEN {}
                                                           ELSE Efuse!Needed(pending),
                  want |-> pending, before |-> efuse]
        /\ pending' = pending /\ pending \in SUBSET Efuse!Bits
    BY <1>1, <1>4 DEF Efuse!Commit, Efuse!TypeOK
  <2>2. CASE Efuse!SchemeRefuses(pending)
    <3>1. /\ op'.pc = "reset" /\ op'.err \in Efuse!Refusals /\ op'.before = efuse
          /\ op'.then = "release"
      BY <2>1, <2>2 DEF Efuse!Refusals
    <3> QED
      BY <1>1, <3>1 DEF EfuseProgress, Efuse!Outcome, Efuse!ProtectionLast
  <2>3. CASE ~Efuse!SchemeRefuses(pending)
    BY <1>1, <2>1, <2>3, EfuseAboutToBurn
  <2> QED
    BY <2>2, <2>3
<1>5. CASE Efuse!WriteStart(t)
  BY <1>3, <1>5 DEF Efuse!WriteStart
<1>6. CASE Efuse!WriteInBatch(t)
  BY <1>2, <1>6 DEF Efuse!WriteInBatch
<1>7. CASE Efuse!Begin(t)
  BY <1>2, <1>3, <1>7 DEF Efuse!Begin
<1>8. CASE Efuse!Cancel(t)
  BY <1>2, <1>3, <1>8 DEF Efuse!Cancel
<1> QED
  BY <1>2, <1>4, <1>5, <1>6, <1>7, <1>8

LEMMA EfuseResetDoneBurning ==
    ASSUME Efuse!EfuseAssumption, EfuseWriting, Efuse!ResetDone
    PROVE  EfuseProgress' /\ Efuse!Outcome' /\ Efuse!ProtectionLast'
<1> USE DEF EfuseWriting, EfuseTypeLock
<1>1. CASE op' = Efuse!NoOp
  BY <1>1, EfuseOverBurning
<1>2. ASSUME op.then = "prepare", efuse' = efuse,
             NEW adds \in SUBSET Efuse!Bits, NEW asks \in SUBSET Efuse!Bits,
             NEW error \in {"ok"} \cup Efuse!Refusals, Efuse!Write(adds, asks, error),
             pending' = adds,
             op' = [op EXCEPT !.pc = "prepared", !.then = "sweep",
                        !.want = asks,
                        !.err = IF error = "ok" /\ Efuse!SchemeRefuses(adds)
                                THEN "coding" ELSE error]
      PROVE  EfuseProgress' /\ Efuse!Outcome' /\ Efuse!ProtectionLast'
  <2>1. /\ op'.pc = "prepared" /\ op'.before = op.before /\ op'.want = asks
        /\ op'.err \in {"ok"} \cup Efuse!Refusals
        /\ op'.err = "ok" => error = "ok"
    BY <1>2 DEF Efuse!TypeOK, Efuse!Op, Efuse!Refusals
  <2>2. EfuseUnburnt'
    BY <1>2, <2>1 DEF Efuse!ResetDone, EfuseBurning, EfuseProgress, EfuseUnburnt
  <2>3. op'.err = "ok" => pending' = op'.want
    BY <1>2, <2>1, EfuseAllStaged
  <2> QED
    BY <2>1, <2>2, <2>3
       DEF EfuseProgress, Efuse!Outcome, Efuse!ProtectionLast, EfuseUnburnt
<1> QED
  BY <1>1, <1>2 DEF Efuse!ResetDone

LEMMA EfusePreparedBurning ==
    ASSUME Efuse!EfuseAssumption, EfuseWriting, Efuse!Prepared
    PROVE  EfuseProgress' /\ Efuse!Outcome' /\ Efuse!ProtectionLast'
<1> USE DEF EfuseWriting, EfuseTypeLock
<1>1. /\ op.pc = "prepared" /\ op \in Efuse!Op /\ pending \in SUBSET Efuse!Bits
      /\ efuse' = efuse /\ pending' = pending /\ efuse = op.before
      /\ op.err \in {"ok"} \cup Efuse!Refusals
      /\ op.err = "ok" => pending = op.want
  BY DEF Efuse!Prepared, Efuse!TypeOK, EfuseBurning, EfuseProgress, EfuseUnburnt
<1>2. CASE op.err = "ok"
  <2>1. /\ op'.pc = "burn" /\ op'.err = "ok" /\ op'.left = Efuse!Needed(pending)
        /\ op'.want = pending /\ op'.before = efuse
    BY <1>1, <1>2 DEF Efuse!Prepared, Efuse!Op
  <2> QED
    BY <1>1, <2>1, EfuseAboutToBurn
<1>3. CASE op.err # "ok"
  <2>1. /\ op'.pc = "reset" /\ op'.err \in Efuse!Refusals /\ op'.then = "release"
        /\ op'.before = efuse
    BY <1>1, <1>3 DEF Efuse!Prepared, Efuse!Op
  <2> QED
    BY <1>1, <2>1 DEF EfuseProgress, Efuse!Outcome, Efuse!ProtectionLast
<1> QED
  BY <1>2, <1>3

\* A block is burnt, or some of its bits before an error: BLOCK0 comes last,
\* and an error keeps it from being burnt.
LEMMA EfuseBurnBlockBurning ==
    ASSUME Efuse!EfuseAssumption, EfuseWriting, Efuse!BurnBlock
    PROVE  EfuseProgress' /\ Efuse!Outcome' /\ Efuse!ProtectionLast'
<1> USE DEF EfuseWriting, EfuseTypeLock
<1>1. /\ op.pc = "burn" /\ op \in Efuse!Op /\ EfusePartial /\ pending' = pending
      /\ Efuse!ProtectionLast
  <2>1. op.pc = "burn" /\ pending' = pending
    BY DEF Efuse!BurnBlock
  <2>2. op \in Efuse!Op
    BY DEF Efuse!TypeOK
  <2>3. EfuseProgress /\ Efuse!ProtectionLast
    BY DEF EfuseBurning
  <2>4. EfusePartial
    BY <2>1, <2>3 DEF EfuseProgress
  <2> QED
    BY <2>1, <2>2, <2>3, <2>4
<1>2. PICK block \in op.left, burnt \in SUBSET pending :
         /\ burnt \subseteq Efuse!In(block)
         /\ \A other \in op.left : other <= block
         /\ efuse' = efuse \cup burnt
         /\ op' = [op EXCEPT
                      !.left = IF burnt = pending \cap Efuse!In(block)
                               THEN @ \ {block} ELSE {},
                      !.err = IF burnt = pending \cap Efuse!In(block)
                              THEN @ ELSE "fail"]
  BY DEF Efuse!BurnBlock
<1>3. /\ op'.pc = "burn" /\ op'.want = op.want /\ op'.before = op.before
      /\ op'.left = IF burnt = pending \cap Efuse!In(block)
                    THEN op.left \ {block} ELSE {}
      /\ op'.err = IF burnt = pending \cap Efuse!In(block) THEN "ok" ELSE "fail"
      /\ pending = op.want /\ op.err = "ok" /\ pending \subseteq Efuse!Bits
  BY <1>1, <1>2 DEF Efuse!Op, EfusePartial, Efuse!TypeOK
<1>4. \A b \in op.want : b \in efuse \/ BlockOf[b[1]] \in op.left
  BY <1>1, <1>3 DEF EfusePartial
<1>5. EfusePartial'
  <2>1. op'.before \subseteq efuse' /\ efuse' \subseteq op'.before \cup op'.want
    BY <1>1, <1>2, <1>3 DEF EfusePartial
  <2>2. ASSUME op'.err = "ok", NEW b \in op'.want
        PROVE  b \in efuse' \/ BlockOf[b[1]] \in op'.left
    BY <1>2, <1>3, <1>4, <2>2 DEF Efuse!In
  <2> QED
    BY <1>1, <1>3, <2>1, <2>2 DEF EfusePartial
<1>6. Efuse!ProtectionLast'
  <2>1. CASE block = 0
    <3>1. ASSUME NEW b \in op.want \ Efuse!In(0) PROVE b \in efuse
      <4>1. BlockOf[b[1]] # 0 /\ BlockOf[b[1]] \in Nat
        BY <1>3, <3>1, EfuseBitsInBlocks DEF Efuse!In
      <4> QED
        BY <1>2, <1>4, <2>1, <3>1, <4>1
    <3> QED
      BY <1>2, <1>3, <3>1 DEF Efuse!ProtectionLast
  <2>2. CASE block # 0
    <3>1. burnt \cap Efuse!In(0) = {}
      BY <1>2, <2>2 DEF Efuse!In
    <3> QED
      BY <1>1, <1>2, <1>3, <3>1 DEF Efuse!ProtectionLast
  <2> QED
    BY <2>1, <2>2
<1> QED
  BY <1>3, <1>5, <1>6 DEF EfuseProgress, Efuse!Outcome

LEMMA EfuseAfterBurning ==
    ASSUME Efuse!EfuseAssumption, EfuseWriting,
           Efuse!BurnReset \/ Efuse!Reloaded \/ Efuse!Burnt \/ Efuse!Swept
    PROVE  EfuseProgress' /\ Efuse!Outcome' /\ Efuse!ProtectionLast'
<1> USE DEF EfuseWriting, EfuseTypeLock
<1>1. op \in Efuse!Op /\ efuse' = efuse /\ Efuse!ProtectionLast
  BY DEF Efuse!BurnReset, Efuse!Reloaded, Efuse!Burnt, Efuse!Swept,
         Efuse!TypeOK, EfuseBurning
<1>2. CASE op' = Efuse!NoOp
  BY <1>2, EfuseOverBurning
<1>3. CASE Efuse!BurnReset
  <2>1. /\ op'.pc = "reload" /\ op'.err = op.err /\ op'.want = op.want
        /\ op'.before = op.before
    BY <1>1, <1>3 DEF Efuse!BurnReset, Efuse!Op
  <2>2. EfusePartial /\ op.left = {}
    BY <1>3 DEF Efuse!BurnReset, EfuseBurning, EfuseProgress
  <2> QED
    BY <1>1, <2>1, <2>2
       DEF EfusePartial, EfuseProgress, Efuse!Outcome, Efuse!ProtectionLast
<1>4. CASE Efuse!Reloaded \/ Efuse!Swept \/ (Efuse!Burnt /\ op' # Efuse!NoOp)
  <2>1. /\ op'.pc \in {"burnt", "swept", "reset"}
        /\ op'.pc = "reset" => op'.then = "release"
        /\ op'.err = op.err /\ op'.want = op.want /\ op'.before = op.before
    BY <1>1, <1>4 DEF Efuse!Reloaded, Efuse!Swept, Efuse!Burnt, Efuse!Op
  <2>2. op.pc \in {"reload", "burnt", "swept"} /\ op.then # "prepare"
    BY <1>4 DEF Efuse!Reloaded, Efuse!Swept, Efuse!Burnt, EfuseStages
  <2>3. Efuse!Outcome
    BY DEF EfuseBurning
  <2> QED
    BY <1>1, <2>1, <2>2, <2>3
       DEF EfuseProgress, Efuse!Outcome, Efuse!ProtectionLast
<1> QED
  BY <1>2, <1>3, <1>4

LEMMA EfuseAlwaysWriting ==
    ASSUME Efuse!EfuseAssumption
    PROVE  Efuse!Spec => []EfuseWriting
<1>1. Efuse!Init => EfuseWriting
  <2>1. Efuse!Init => EfuseProgress /\ Efuse!Outcome /\ Efuse!ProtectionLast
    BY DEF Efuse!Init, EfuseProgress, Efuse!Outcome, Efuse!ProtectionLast,
           Efuse!NoOp
  <2> QED
    BY <2>1, EfuseInitTypeLock DEF EfuseWriting, EfuseBurning, EfuseTypeLock
<1>2. EfuseWriting /\ [Efuse!Next]_(Efuse!vars) => EfuseWriting'
  <2> SUFFICES ASSUME EfuseWriting, [Efuse!Next]_(Efuse!vars)
               PROVE  EfuseProgress' /\ Efuse!Outcome' /\ Efuse!ProtectionLast'
    BY EfuseNextTypeLock DEF EfuseWriting, EfuseBurning, EfuseTypeLock
  <2>1. ASSUME UNCHANGED <<efuse, pending, op>>
        PROVE  EfuseProgress' /\ Efuse!Outcome' /\ Efuse!ProtectionLast'
    BY <2>1
       DEF EfuseWriting, EfuseBurning, EfuseProgress, EfuseUnburnt,
           EfusePartial, Efuse!Outcome, Efuse!ProtectionLast
  <2>2. ASSUME NEW r \in Readers,
               Efuse!ReadStart(r) \/ Efuse!Read(r) \/ Efuse!ReadEnd(r)
        PROVE  UNCHANGED <<efuse, pending, op>>
    BY <2>2 DEF Efuse!ReadStart, Efuse!Read, Efuse!ReadEnd
  <2>3. UNCHANGED Efuse!vars => UNCHANGED <<efuse, pending, op>>
    BY DEF Efuse!vars
  <2> QED
    BY <2>1, <2>2, <2>3, EfuseCallBurning, EfuseResetDoneBurning,
       EfusePreparedBurning, EfuseBurnBlockBurning, EfuseAfterBurning
       DEF Efuse!Next
<1> QED
  BY <1>1, <1>2, PTL DEF Efuse!Spec

\* For any field, count or batch: a call that goes well has burnt what it was
\* asked for, and one that was refused nothing.
THEOREM EfuseOutcomes ==
    ASSUME Efuse!EfuseAssumption
    PROVE  Efuse!Spec => []Efuse!Outcome
<1>1. EfuseWriting => Efuse!Outcome
  BY DEF EfuseWriting, EfuseBurning
<1> QED
  BY <1>1, EfuseAlwaysWriting, PTL

\* For any number of blocks: the bits of BLOCK0 are burnt after all the others
\* of the same call, or not at all.
THEOREM EfuseProtectedLast ==
    ASSUME Efuse!EfuseAssumption
    PROVE  Efuse!Spec => []Efuse!ProtectionLast
<1>1. EfuseWriting => Efuse!ProtectionLast
  BY DEF EfuseWriting, EfuseBurning
<1> QED
  BY <1>1, EfuseAlwaysWriting, PTL
=============================================================================
