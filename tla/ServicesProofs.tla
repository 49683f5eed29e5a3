---------------------------- MODULE ServicesProofs ----------------------------
(***************************************************************************)
(* What MCServices checks of the components that InterruptProofs,          *)
(* SharedProofs, GdmaProofs, RingProofs and ListProofs are about, proved   *)
(* of its own specification.                                               *)
(*                                                                         *)
(* A behaviour of MCServices is one of the component that `part' names,    *)
(* whose variables are v1, v2, ...: part does not change, and while it     *)
(* names a component each step is one of that component or changes none of *)
(* its variables (Throughout).  The theorems are about instances of the    *)
(* components inside those modules; with the same constants and variables  *)
(* these are the instances of MCServices (Same), once all is expanded.     *)
(***************************************************************************)
EXTENDS MCServices, FiniteSetTheorems, TLAPS

-----------------------------------------------------------------------------
\* What the components of SharedProofs promise.
Shared == INSTANCE SharedProofs WITH
    Cores <- {0, 1, 2}, Free <- None, MaxCount <- 4,
    Users <- {x1, x2, x3}, Freqs <- {1, 2}, MaxUses <- 2,
    ModemLiberties <- {}, MaxPeriods <- 6, Tasks <- {t1, t2},
    Handles <- {x1, x2, x3}, GroupCount <- 2, ChansPerGroup <- 1,
    Events <- {1}, Liberties <- {"noMemory"}, Readers <- {x1},
    Width <- [r \in 0 .. 2 |-> 1], LastReg <- 2,
    BlockOf <- [r \in 0 .. 2 |-> IF r = 0 THEN 0 ELSE 1],
    Counts <- {1, 2}, MaxNest <- 1, MaxDepth <- 2,
    owner <- v1, count <- v2, place <- v3, held <- v4, spiram <- v5,
    cas <- v6, ref <- v1, cur <- v2, on <- v3, coeff <- v4, holders <- v5,
    setting <- v6, told <- v7, refs <- v1, lit <- v2, uses <- v3,
    ticked <- v1, unfed <- v2, hook <- v3, due <- v4, well <- v5, hung <- v6,
    up <- v1, groupRef <- v2, slot <- v3, reg <- v4, ena <- v5, chan <- v6,
    call <- v7, efuse <- v1, pending <- v2, odd <- v3, mode <- v4, lock <- v5,
    op <- v6, reader <- v7

LEMMA EfuseSame ==
    /\ Efuse!Init <=> Shared!Efuse!Init
    /\ Efuse!Next <=> Shared!Efuse!Next
    /\ Efuse!vars = Shared!Efuse!vars
    /\ Efuse!TypeOK <=> Shared!Efuse!TypeOK
    /\ Efuse!AtomicReads <=> Shared!Efuse!AtomicReads
    /\ Efuse!Outcome <=> Shared!Efuse!Outcome
    /\ Efuse!Quiescent <=> Shared!Efuse!Quiescent
    /\ Efuse!ProtectionLast <=> Shared!Efuse!ProtectionLast
    /\ Efuse!EfuseAssumption <=> Shared!Efuse!EfuseAssumption
<1>1. Efuse!Init <=> Shared!Efuse!Init
  BY DEF Efuse!Init, Shared!Efuse!Init, Efuse!NoOp, Shared!Efuse!NoOp,
      Efuse!NoRead, Shared!Efuse!NoRead
<1>2. Efuse!Next <=> Shared!Efuse!Next
  BY DEF Efuse!Next, Shared!Efuse!Next, Efuse!Begin, Shared!Efuse!Begin,
      Efuse!BurnBlock, Shared!Efuse!BurnBlock, Efuse!BurnReset,
      Shared!Efuse!BurnReset, Efuse!Burnt, Shared!Efuse!Burnt, Efuse!Cancel,
      Shared!Efuse!Cancel, Efuse!Commit, Shared!Efuse!Commit, Efuse!Prepared,
      Shared!Efuse!Prepared, Efuse!Read, Shared!Efuse!Read, Efuse!ReadEnd,
      Shared!Efuse!ReadEnd, Efuse!ReadStart, Shared!Efuse!ReadStart,
      Efuse!Reloaded, Shared!Efuse!Reloaded, Efuse!ResetDone,
      Shared!Efuse!ResetDone, Efuse!Swept, Shared!Efuse!Swept,
      Efuse!WriteInBatch, Shared!Efuse!WriteInBatch, Efuse!WriteStart,
      Shared!Efuse!WriteStart, Efuse!Acquired, Shared!Efuse!Acquired,
      Efuse!CanLock, Shared!Efuse!CanLock, Efuse!StartReset,
      Shared!Efuse!StartReset, Efuse!In, Shared!Efuse!In, Efuse!Bump,
      Shared!Efuse!Bump, Efuse!NoOp, Shared!Efuse!NoOp, Efuse!Released,
      Shared!Efuse!Released, Efuse!Needed, Shared!Efuse!Needed,
      Efuse!SchemeRefuses, Shared!Efuse!SchemeRefuses, Efuse!Regs,
      Shared!Efuse!Regs, Efuse!Accepts, Shared!Efuse!Accepts, Efuse!NoRead,
      Shared!Efuse!NoRead, Efuse!Bits, Shared!Efuse!Bits, Efuse!Refusals,
      Shared!Efuse!Refusals, Efuse!Write, Shared!Efuse!Write, Efuse!Blocks,
      Shared!Efuse!Blocks, Efuse!BlobError, Shared!Efuse!BlobError,
      Efuse!CountError, Shared!Efuse!CountError, Efuse!FirstFree,
      Shared!Efuse!FirstFree, Efuse!Staged, Shared!Efuse!Staged,
      Efuse!Conflicts, Shared!Efuse!Conflicts, Efuse!Lower, Shared!Efuse!Lower,
      Efuse!Cardinality, Shared!Efuse!Cardinality
<1>3. /\ Efuse!vars = Shared!Efuse!vars
      /\ Efuse!TypeOK <=> Shared!Efuse!TypeOK
      /\ Efuse!AtomicReads <=> Shared!Efuse!AtomicReads
      /\ Efuse!Outcome <=> Shared!Efuse!Outcome
      /\ Efuse!Quiescent <=> Shared!Efuse!Quiescent
      /\ Efuse!ProtectionLast <=> Shared!Efuse!ProtectionLast
      /\ Efuse!EfuseAssumption <=> Shared!Efuse!EfuseAssumption
  BY DEF Efuse!vars, Shared!Efuse!vars, Efuse!TypeOK, Shared!Efuse!TypeOK,
      Efuse!Bits, Shared!Efuse!Bits, Efuse!Op, Shared!Efuse!Op, Efuse!Reader,
      Shared!Efuse!Reader, Efuse!Regs, Shared!Efuse!Regs, Efuse!Blocks,
      Shared!Efuse!Blocks, Efuse!Refusals, Shared!Efuse!Refusals,
      Efuse!AtomicReads, Shared!Efuse!AtomicReads, Efuse!Accepts,
      Shared!Efuse!Accepts, Efuse!Outcome, Shared!Efuse!Outcome,
      Efuse!Quiescent, Shared!Efuse!Quiescent, Efuse!ProtectionLast,
      Shared!Efuse!ProtectionLast, Efuse!In, Shared!Efuse!In,
      Efuse!EfuseAssumption, Shared!Efuse!EfuseAssumption
<1> QED
  BY <1>1, <1>2, <1>3

LEMMA EfuseThroughout == Spec => [](part = "efuse" =>
    /\ Efuse!TypeOK /\ Efuse!AtomicReads /\ Efuse!Outcome /\ Efuse!Quiescent
    /\ Efuse!ProtectionLast)
<1>0. Shared!Efuse!EfuseAssumption
  BY ServicesAssumption, EfuseSame
<1>1. Init /\ part = "efuse" => Shared!Efuse!Init
  BY EfuseSame DEF Init
<1>2. /\ part = "efuse" /\ [Next]_vars =>
            [Shared!Efuse!Next]_(Shared!Efuse!vars) /\ (part = "efuse")'
      /\ ~(part = "efuse") /\ [Next]_vars => ~(part = "efuse")'
  BY EfuseSame DEF Next, vars, Shared!Efuse!vars
<1>3. Shared!Efuse!Spec => /\ []Shared!Efuse!TypeOK
                           /\ []Shared!Efuse!AtomicReads
                           /\ []Shared!Efuse!Outcome
                           /\ []Shared!Efuse!Quiescent
                           /\ []Shared!Efuse!ProtectionLast
  BY <1>0, Shared!EfuseTyped, Shared!EfuseSnapshots, Shared!EfuseOutcomes,
     Shared!EfuseQuiescentUnnested, Shared!EfuseProtectedLast
<1> QED
  BY <1>1, <1>2, <1>3, EfuseSame, PTL
     DEF Spec, Shared!Efuse!Spec

LEMMA LockSame ==
    /\ Lock!Init <=> Shared!Lock!Init
    /\ Lock!Next <=> Shared!Lock!Next
    /\ Lock!vars = Shared!Lock!vars
    /\ Lock!TypeOK <=> Shared!Lock!TypeOK
    /\ Lock!Exclusive <=> Shared!Lock!Exclusive
    /\ Lock!LockAsserts <=> Shared!Lock!LockAsserts
    /\ Lock!SpinlockAssumption <=> Shared!Lock!SpinlockAssumption
<1>1. Lock!Init <=> Shared!Lock!Init
  BY DEF Lock!Init, Shared!Lock!Init
<1>2. Lock!Next <=> Shared!Lock!Next
  BY DEF Lock!Next, Shared!Lock!Next, Lock!Step, Shared!Lock!Step,
      Lock!Acquire, Shared!Lock!Acquire, Lock!CasEnter, Shared!Lock!CasEnter,
      Lock!CasLeave, Shared!Lock!CasLeave, Lock!CasRead, Shared!Lock!CasRead,
      Lock!CasWrite, Shared!Lock!CasWrite, Lock!CompareAndSet,
      Shared!Lock!CompareAndSet, Lock!Decrement, Shared!Lock!Decrement,
      Lock!Enter, Shared!Lock!Enter, Lock!GiveUp, Shared!Lock!GiveUp,
      Lock!Nest, Shared!Lock!Nest, Lock!Release, Shared!Lock!Release,
      Lock!Unlock, Shared!Lock!Unlock, Lock!Goto, Shared!Lock!Goto,
      Lock!Grabbed, Shared!Lock!Grabbed
<1>3. /\ Lock!vars = Shared!Lock!vars
      /\ Lock!TypeOK <=> Shared!Lock!TypeOK
      /\ Lock!Exclusive <=> Shared!Lock!Exclusive
      /\ Lock!LockAsserts <=> Shared!Lock!LockAsserts
      /\ Lock!SpinlockAssumption <=> Shared!Lock!SpinlockAssumption
  BY DEF Lock!vars, Shared!Lock!vars, Lock!TypeOK, Shared!Lock!TypeOK,
      Lock!Places, Shared!Lock!Places, Lock!Exclusive, Shared!Lock!Exclusive,
      Lock!LockAsserts, Shared!Lock!LockAsserts, Lock!SpinlockAssumption,
      Shared!Lock!SpinlockAssumption
<1> QED
  BY <1>1, <1>2, <1>3

LEMMA LockThroughout == Spec => [](part = "lock" =>
    Lock!TypeOK /\ Lock!Exclusive /\ Lock!LockAsserts)
<1>0. Shared!Lock!SpinlockAssumption
  BY ServicesAssumption, LockSame
<1>1. Init /\ part = "lock" => Shared!Lock!Init
  BY LockSame DEF Init
<1>2. /\ part = "lock" /\ [Next]_vars =>
            [Shared!Lock!Next]_(Shared!Lock!vars) /\ (part = "lock")'
      /\ ~(part = "lock") /\ [Next]_vars => ~(part = "lock")'
  BY LockSame DEF Next, vars, Shared!Lock!vars
<1>3. Shared!Lock!Spec => /\ []Shared!Lock!TypeOK
                          /\ []Shared!Lock!Exclusive
                          /\ []Shared!Lock!LockAsserts
  BY <1>0, Shared!LockTyped, Shared!LockMutualExclusion,
     Shared!LockAssertionsHold
<1> QED
  BY <1>1, <1>2, <1>3, LockSame, PTL
     DEF Spec, Shared!Lock!Spec

LEMMA ClocksSame ==
    /\ Clocks!Init <=> Shared!Clocks!Init
    /\ Clocks!Next <=> Shared!Clocks!Next
    /\ Clocks!vars = Shared!Clocks!vars
    /\ Clocks!TypeOK <=> Shared!Clocks!TypeOK
    /\ Clocks!FrequencyKept <=> Shared!Clocks!FrequencyKept
    /\ Clocks!ClocksAssumption <=> Shared!Clocks!ClocksAssumption
<1>1. Clocks!Init <=> Shared!Clocks!Init
  BY DEF Clocks!Init, Shared!Clocks!Init
<1>2. Clocks!Next <=> Shared!Clocks!Next
  BY DEF Clocks!Next, Shared!Clocks!Next, Clocks!Acquire,
      Shared!Clocks!Acquire, Clocks!Decide, Shared!Clocks!Decide,
      Clocks!Release, Shared!Clocks!Release, Clocks!SetCoefficients,
      Shared!Clocks!SetCoefficients, Clocks!MayChange, Shared!Clocks!MayChange
<1>3. /\ Clocks!vars = Shared!Clocks!vars
      /\ Clocks!TypeOK <=> Shared!Clocks!TypeOK
      /\ Clocks!FrequencyKept <=> Shared!Clocks!FrequencyKept
      /\ Clocks!ClocksAssumption <=> Shared!Clocks!ClocksAssumption
  BY DEF Clocks!vars, Shared!Clocks!vars, Clocks!TypeOK, Shared!Clocks!TypeOK,
      Clocks!FrequencyKept, Shared!Clocks!FrequencyKept,
      Clocks!ClocksAssumption, Shared!Clocks!ClocksAssumption,
      Clocks!IsFiniteSet, Shared!Clocks!IsFiniteSet
<1> QED
  BY <1>1, <1>2, <1>3

LEMMA ClocksThroughout == Spec => [](part = "clocks" =>
    Clocks!TypeOK /\ Clocks!FrequencyKept)
<1>0. Shared!Clocks!ClocksAssumption
  BY ServicesAssumption, ClocksSame
<1>1. Init /\ part = "clocks" => Shared!Clocks!Init
  BY ClocksSame DEF Init
<1>2. /\ part = "clocks" /\ [Next]_vars =>
            [Shared!Clocks!Next]_(Shared!Clocks!vars) /\ (part = "clocks")'
      /\ ~(part = "clocks") /\ [Next]_vars => ~(part = "clocks")'
  BY ClocksSame DEF Next, vars, Shared!Clocks!vars
<1>3. Shared!Clocks!Spec => /\ []Shared!Clocks!TypeOK
                            /\ []Shared!Clocks!FrequencyKept
  BY <1>0, Shared!ClocksTyped, Shared!ClocksKept
<1> QED
  BY <1>1, <1>2, <1>3, ClocksSame, PTL
     DEF Spec, Shared!Clocks!Spec

LEMMA WatchSame ==
    /\ Watch!Init <=> Shared!Watch!Init
    /\ Watch!Next <=> Shared!Watch!Next
    /\ Watch!vars = Shared!Watch!vars
    /\ Watch!TypeOK <=> Shared!Watch!TypeOK
    /\ Watch!HangsShow <=> Shared!Watch!HangsShow
<1>1. Watch!Init <=> Shared!Watch!Init
  BY DEF Watch!Init, Shared!Watch!Init, Watch!Cores, Shared!Watch!Cores
<1>2. Watch!Next <=> Shared!Watch!Next
  BY DEF Watch!Next, Shared!Watch!Next, Watch!Clear, Shared!Watch!Clear,
      Watch!Cores, Shared!Watch!Cores, Watch!Feed, Shared!Watch!Feed,
      Watch!Hang, Shared!Watch!Hang, Watch!Period, Shared!Watch!Period,
      Watch!TickFirst, Shared!Watch!TickFirst, Watch!TickSecond,
      Shared!Watch!TickSecond
<1>3. /\ Watch!vars = Shared!Watch!vars
      /\ Watch!TypeOK <=> Shared!Watch!TypeOK
      /\ Watch!HangsShow <=> Shared!Watch!HangsShow
  BY DEF Watch!vars, Shared!Watch!vars, Watch!TypeOK, Shared!Watch!TypeOK,
      Watch!Cores, Shared!Watch!Cores, Watch!HangsShow, Shared!Watch!HangsShow
<1> QED
  BY <1>1, <1>2, <1>3

LEMMA WatchThroughout == Spec => [](part = "watch" =>
    Watch!TypeOK /\ Watch!HangsShow)
<1>1. Init /\ part = "watch" => Shared!Watch!Init
  BY WatchSame DEF Init
<1>2. /\ part = "watch" /\ [Next]_vars =>
            [Shared!Watch!Next]_(Shared!Watch!vars) /\ (part = "watch")'
      /\ ~(part = "watch") /\ [Next]_vars => ~(part = "watch")'
  BY WatchSame DEF Next, vars, Shared!Watch!vars
<1>3. Shared!Watch!Spec => /\ []Shared!Watch!TypeOK
                           /\ []Shared!Watch!HangsShow
  BY Shared!WatchTyped, Shared!WatchShown
<1> QED
  BY <1>1, <1>2, <1>3, WatchSame, PTL
     DEF Spec, Shared!Watch!Spec

LEMMA ModemSame ==
    /\ Modem!Init <=> Shared!Modem!Init
    /\ Modem!Next <=> Shared!Modem!Next
    /\ Modem!vars = Shared!Modem!vars
    /\ Modem!TypeOK <=> Shared!Modem!TypeOK
    /\ Modem!ClocksMatch <=> Shared!Modem!ClocksMatch
    /\ Modem!ModemAssumption <=> Shared!Modem!ModemAssumption
<1>1. Modem!Init <=> Shared!Modem!Init
  BY DEF Modem!Init, Shared!Modem!Init, Modem!Devices, Shared!Modem!Devices,
      Modem!Modules, Shared!Modem!Modules, Modem!Deps, Shared!Modem!Deps
<1>2. Modem!Next <=> Shared!Modem!Next
  BY DEF Modem!Next, Shared!Modem!Next, Modem!Disable, Shared!Modem!Disable,
      Modem!Enable, Shared!Modem!Enable, Modem!Modules, Shared!Modem!Modules,
      Modem!ClocksOfAll, Shared!Modem!ClocksOfAll, Modem!Deps,
      Shared!Modem!Deps, Modem!Devices, Shared!Modem!Devices, Modem!Goes,
      Shared!Modem!Goes, Modem!Lasting, Shared!Modem!Lasting, Modem!ClocksOf,
      Shared!Modem!ClocksOf
<1>3. /\ Modem!vars = Shared!Modem!vars
      /\ Modem!TypeOK <=> Shared!Modem!TypeOK
      /\ Modem!ClocksMatch <=> Shared!Modem!ClocksMatch
      /\ Modem!ModemAssumption <=> Shared!Modem!ModemAssumption
  BY DEF Modem!vars, Shared!Modem!vars, Modem!TypeOK, Shared!Modem!TypeOK,
      Modem!Devices, Shared!Modem!Devices, Modem!Modules, Shared!Modem!Modules,
      Modem!Deps, Shared!Modem!Deps, Modem!ClocksMatch,
      Shared!Modem!ClocksMatch, Modem!ClocksOfAll, Shared!Modem!ClocksOfAll,
      Modem!Lasting, Shared!Modem!Lasting, Modem!ClocksOf,
      Shared!Modem!ClocksOf, Modem!ModemAssumption,
      Shared!Modem!ModemAssumption
<1> QED
  BY <1>1, <1>2, <1>3

LEMMA ModemThroughout == Spec => [](part = "modem" =>
    Modem!TypeOK /\ Modem!ClocksMatch)
<1>0. Shared!Modem!ModemAssumption /\ Shared!ModemApart
  BY ServicesAssumption, ModemSame DEF Shared!ModemApart
<1>1. Init /\ part = "modem" => Shared!Modem!Init
  BY ModemSame DEF Init
<1>2. /\ part = "modem" /\ [Next]_vars =>
            [Shared!Modem!Next]_(Shared!Modem!vars) /\ (part = "modem")'
      /\ ~(part = "modem") /\ [Next]_vars => ~(part = "modem")'
  BY ModemSame DEF Next, vars, Shared!Modem!vars
<1>3. Shared!Modem!Spec => /\ []Shared!Modem!TypeOK
                           /\ []Shared!Modem!ClocksMatch
  BY <1>0, Shared!ModemTyped, Shared!ModemClocksKept
<1> QED
  BY <1>1, <1>2, <1>3, ModemSame, PTL
     DEF Spec, Shared!Modem!Spec

LEMMA EtmSame ==
    /\ Etm!Init <=> Shared!Etm!Init
    /\ Etm!Next <=> Shared!Etm!Next
    /\ Etm!vars = Shared!Etm!vars
    /\ Etm!TypeOK <=> Shared!Etm!TypeOK
    /\ Etm!ChannelsKept <=> Shared!Etm!ChannelsKept
    /\ Etm!GroupsCounted <=> Shared!Etm!GroupsCounted
    /\ Etm!EtmAssumption <=> Shared!Etm!EtmAssumption
<1>1. Etm!Init <=> Shared!Etm!Init
  BY DEF Etm!Init, Shared!Etm!Init, Etm!Chans, Shared!Etm!Chans, Etm!Groups,
      Shared!Etm!Groups, Etm!NoCall, Shared!Etm!NoCall
<1>2. Etm!Next <=> Shared!Etm!Next
  BY DEF Etm!Next, Shared!Etm!Next, Etm!Connect, Shared!Etm!Connect,
      Etm!Delete, Shared!Etm!Delete, Etm!Disconnect, Shared!Etm!Disconnect,
      Etm!GiveUp, Shared!Etm!GiveUp, Etm!NextGroup, Shared!Etm!NextGroup,
      Etm!NoMemory, Shared!Etm!NoMemory, Etm!Release, Shared!Etm!Release,
      Etm!Search, Shared!Etm!Search, Etm!SetEnabled, Shared!Etm!SetEnabled,
      Etm!Start, Shared!Etm!Start, Etm!Unregister, Shared!Etm!Unregister,
      Etm!Live, Shared!Etm!Live, Etm!KeptWhileCleared,
      Shared!Etm!KeptWhileCleared, Etm!NoCall, Shared!Etm!NoCall, Etm!Goto,
      Shared!Etm!Goto, Etm!Groups, Shared!Etm!Groups, Etm!ReleaseGroup,
      Shared!Etm!ReleaseGroup, Etm!AcquireGroup, Shared!Etm!AcquireGroup,
      Etm!Chans, Shared!Etm!Chans, Etm!Spare, Shared!Etm!Spare, Etm!Shared,
      Shared!Etm!Shared, Etm!NewGroup, Shared!Etm!NewGroup
<1>3. /\ Etm!vars = Shared!Etm!vars
      /\ Etm!TypeOK <=> Shared!Etm!TypeOK
      /\ Etm!ChannelsKept <=> Shared!Etm!ChannelsKept
      /\ Etm!GroupsCounted <=> Shared!Etm!GroupsCounted
      /\ Etm!EtmAssumption <=> Shared!Etm!EtmAssumption
  BY DEF Etm!vars, Shared!Etm!vars, Etm!TypeOK, Shared!Etm!TypeOK, Etm!Chan,
      Shared!Etm!Chan, Etm!Chans, Shared!Etm!Chans, Etm!Groups,
      Shared!Etm!Groups, Etm!ChannelsKept, Shared!Etm!ChannelsKept, Etm!Live,
      Shared!Etm!Live, Etm!GroupsCounted, Shared!Etm!GroupsCounted,
      Etm!Cardinality, Shared!Etm!Cardinality, Etm!EtmAssumption,
      Shared!Etm!EtmAssumption, Etm!IsFiniteSet, Shared!Etm!IsFiniteSet
<1> QED
  BY <1>1, <1>2, <1>3

LEMMA EtmThroughout == Spec => [](part = "etm" =>
    Etm!TypeOK /\ Etm!ChannelsKept /\ Etm!GroupsCounted)
<1>0. Shared!Etm!EtmAssumption
  BY ServicesAssumption, EtmSame
<1>1. Init /\ part = "etm" => Shared!Etm!Init
  BY EtmSame DEF Init
<1>2. /\ part = "etm" /\ [Next]_vars =>
            [Shared!Etm!Next]_(Shared!Etm!vars) /\ (part = "etm")'
      /\ ~(part = "etm") /\ [Next]_vars => ~(part = "etm")'
  BY EtmSame DEF Next, vars, Shared!Etm!vars
<1>3. Shared!Etm!Spec => /\ []Shared!Etm!TypeOK
                         /\ []Shared!Etm!ChannelsKept
                         /\ []Shared!Etm!GroupsCounted
  BY <1>0, Shared!EtmTyped, Shared!EtmKept, Shared!EtmGroupCounts
<1> QED
  BY <1>1, <1>2, <1>3, EtmSame, PTL
     DEF Spec, Shared!Etm!Spec

\* A read of the eFuses that is accepted is a snapshot, although readers take
\* no lock: the generation they compare moves around every burn.
THEOREM ReadsAtomic == Spec => []AtomicReads
BY EfuseThroughout, PTL DEF AtomicReads

\* A write of the eFuses that goes well has burnt what it was asked for, a
\* refused one nothing, and one whose burning failed nothing that it was not
\* asked for; and a batch that is over leaves nothing to burn and the lock to
\* others.
THEOREM OutcomeAsAsked == Spec => []Outcome
BY EfuseThroughout, PTL DEF Outcome

\* BLOCK0, whose bits protect the other blocks, gets nothing of a call of which
\* some bit in another block could not be burnt.
THEOREM ProtectionComesLast == Spec => []ProtectionLast
BY EfuseThroughout, PTL DEF ProtectionLast

\* A core that hangs is not hidden by the other one: the watchdog is fed for at
\* most two more periods.  While both are well no more than two begin without a
\* feed.
THEOREM HangsAreShown == Spec => []HangsShow
BY WatchThroughout, PTL DEF HangsShow

\* What one of several users was given stays its own until it gives it back:
\* the frequency of the audio PLL, the clocks of the radio, a channel of the
\* event task matrix.
THEOREM UsersKeepTheirs == Spec => []UsersKept
BY ClocksThroughout, ModemThroughout, EtmThroughout, PTL
   DEF UsersKept

-----------------------------------------------------------------------------
\* Interrupts, with IntrAlloc as in Pair and, on one core, as in Three.
OnTwo == INSTANCE InterruptProofs WITH
    Cores <- {0, 1}, Vectors <- {0, 1}, Sources <- {1, 2},
    Handles <- {x1, x2}, Liberties <- {},
    Handlers <- 1 .. 3, Bits <- {1, 2}, Mask <- <<{1}, {1}, {2}>>,
    Functions <- {x1}, MaxNest <- 2, Senders <- {x1, x2}, Reasons <- {1, 2},
    NoCore <- None,
    desc <- v1, handle <- v2, table <- v3, route <- v4, mask <- v5,
    enabled <- v6, saved <- v7, asleep <- v8, freeing <- v9, isr <- v10,
    list <- v1, iram <- v2, cache <- v3, ena <- v4, raw <- v5, rtcSaved <- v6,
    rtcAsleep <- v7, it <- v8, status <- v9, due <- v10,
    mux <- v1, startFl <- v2, endFl <- v3, func <- v4, finish <- v5,
    running <- v6, count <- v7, raised <- v8, handler <- v9, call <- v10,
    open <- v11, todo <- v12,
    reason <- v1, poked <- v2, sender <- v3, crossIsr <- v4, asked <- v5

OnOne == INSTANCE InterruptProofs WITH
    Cores <- {0}, Vectors <- {0, 1}, Sources <- {1, 2},
    Handles <- {x1, x2, x3}, Liberties <- {"noMemory", "reserve"},
    Handlers <- 1 .. 3, Bits <- {1, 2}, Mask <- <<{1}, {1}, {2}>>,
    Functions <- {x1}, MaxNest <- 2, Senders <- {x1, x2}, Reasons <- {1, 2},
    NoCore <- None,
    desc <- v1, handle <- v2, table <- v3, route <- v4, mask <- v5,
    enabled <- v6, saved <- v7, asleep <- v8, freeing <- v9, isr <- v10,
    list <- v1, iram <- v2, cache <- v3, ena <- v4, raw <- v5, rtcSaved <- v6,
    rtcAsleep <- v7, it <- v8, status <- v9, due <- v10,
    mux <- v1, startFl <- v2, endFl <- v3, func <- v4, finish <- v5,
    running <- v6, count <- v7, raised <- v8, handler <- v9, call <- v10,
    open <- v11, todo <- v12,
    reason <- v1, poked <- v2, sender <- v3, crossIsr <- v4, asked <- v5

LEMMA PairSame ==
    /\ Pair!Init <=> OnTwo!Intr!Init
    /\ Pair!Next <=> OnTwo!Intr!Next
    /\ Pair!vars = OnTwo!Intr!vars
    /\ Pair!TypeOK <=> OnTwo!Intr!TypeOK
    /\ Pair!HandlersMatch <=> OnTwo!Intr!HandlersMatch
    /\ Pair!NoFreedHandler <=> OnTwo!Intr!NoFreedHandler
    /\ Pair!Routing <=> OnTwo!Intr!Routing
    /\ Pair!CacheOffSafe <=> OnTwo!Intr!CacheOffSafe
    /\ Pair!IntrAssumption <=> OnTwo!Intr!IntrAssumption
<1>1. Pair!Init <=> OnTwo!Intr!Init
  BY DEF Pair!Init, OnTwo!Intr!Init, Pair!NoDesc, OnTwo!Intr!NoDesc,
      Pair!NoHandle, OnTwo!Intr!NoHandle, Pair!NoIsr, OnTwo!Intr!NoIsr,
      Pair!Off, OnTwo!Intr!Off
<1>2. Pair!Next <=> OnTwo!Intr!Next
  BY DEF Pair!Next, OnTwo!Intr!Next, Pair!Alloc, OnTwo!Intr!Alloc,
      Pair!AllocNoMemory, OnTwo!Intr!AllocNoMemory, Pair!Disable,
      OnTwo!Intr!Disable, Pair!Enable, OnTwo!Intr!Enable, Pair!Free,
      OnTwo!Intr!Free, Pair!FreeStart, OnTwo!Intr!FreeStart, Pair!IsrEnter,
      OnTwo!Intr!IsrEnter, Pair!IsrWalk, OnTwo!Intr!IsrWalk,
      Pair!NonIramDisable, OnTwo!Intr!NonIramDisable, Pair!NonIramEnable,
      OnTwo!Intr!NonIramEnable, Pair!Reserve, OnTwo!Intr!Reserve,
      Pair!SetInIram, OnTwo!Intr!SetInIram, Pair!Available,
      OnTwo!Intr!Available, Pair!Awake, OnTwo!Intr!Awake, Pair!InIram,
      OnTwo!Intr!InIram, Pair!Masked, OnTwo!Intr!Masked, Pair!NoHandle,
      OnTwo!Intr!NoHandle, Pair!RouteOff, OnTwo!Intr!RouteOff, Pair!RouteOn,
      OnTwo!Intr!RouteOn, Pair!Live, OnTwo!Intr!Live, Pair!FreeRunsOn,
      OnTwo!Intr!FreeRunsOn, Pair!Unused, OnTwo!Intr!Unused, Pair!NoIsr,
      OnTwo!Intr!NoIsr, Pair!HasSource, OnTwo!Intr!HasSource, Pair!IsBest,
      OnTwo!Intr!IsBest, Pair!IsFound, OnTwo!Intr!IsFound, Pair!Usable,
      OnTwo!Intr!Usable, Pair!Off, OnTwo!Intr!Off, Pair!OthersOn,
      OnTwo!Intr!OthersOn, Pair!Better, OnTwo!Intr!Better, Pair!Cardinality,
      OnTwo!Intr!Cardinality
<1>3. /\ Pair!vars = OnTwo!Intr!vars
      /\ Pair!TypeOK <=> OnTwo!Intr!TypeOK
      /\ Pair!HandlersMatch <=> OnTwo!Intr!HandlersMatch
      /\ Pair!NoFreedHandler <=> OnTwo!Intr!NoFreedHandler
      /\ Pair!Routing <=> OnTwo!Intr!Routing
      /\ Pair!CacheOffSafe <=> OnTwo!Intr!CacheOffSafe
      /\ Pair!IntrAssumption <=> OnTwo!Intr!IntrAssumption
  BY DEF Pair!vars, OnTwo!Intr!vars, Pair!TypeOK, OnTwo!Intr!TypeOK, Pair!Desc,
      OnTwo!Intr!Desc, Pair!Handle, OnTwo!Intr!Handle, Pair!NoHandle,
      OnTwo!Intr!NoHandle, Pair!NoIsr, OnTwo!Intr!NoIsr, Pair!Off,
      OnTwo!Intr!Off, Pair!Flags, OnTwo!Intr!Flags, Pair!Unused,
      OnTwo!Intr!Unused, Pair!HandlersMatch, OnTwo!Intr!HandlersMatch,
      Pair!Users, OnTwo!Intr!Users, Pair!Live, OnTwo!Intr!Live,
      Pair!NoFreedHandler, OnTwo!Intr!NoFreedHandler, Pair!Routing,
      OnTwo!Intr!Routing, Pair!CacheOffSafe, OnTwo!Intr!CacheOffSafe,
      Pair!IntrAssumption, OnTwo!Intr!IntrAssumption, Pair!IsFiniteSet,
      OnTwo!Intr!IsFiniteSet
<1> QED
  BY <1>1, <1>2, <1>3

LEMMA PairThroughout == Spec => [](part = "pair" =>
    /\ Pair!TypeOK /\ Pair!HandlersMatch /\ Pair!NoFreedHandler
    /\ Pair!Routing /\ Pair!CacheOffSafe)
<1>0. OnTwo!Intr!IntrAssumption /\ OnTwo!IntrPinned /\ OnTwo!IntrZeroTold
  BY ServicesAssumption, PairSame DEF OnTwo!IntrPinned, OnTwo!IntrZeroTold
<1>1. Init /\ part = "pair" => OnTwo!Intr!Init
  BY PairSame DEF Init
<1>2. /\ part = "pair" /\ [Next]_vars =>
            [OnTwo!Intr!Next]_(OnTwo!Intr!vars) /\ (part = "pair")'
      /\ ~(part = "pair") /\ [Next]_vars => ~(part = "pair")'
  BY PairSame DEF Next, vars, OnTwo!Intr!vars
<1>3. OnTwo!Intr!Spec => /\ []OnTwo!Intr!TypeOK
                         /\ []OnTwo!Intr!HandlersMatch
                         /\ []OnTwo!Intr!NoFreedHandler
                         /\ []OnTwo!Intr!Routing
                         /\ []OnTwo!Intr!CacheOffSafe
  BY <1>0, OnTwo!IntrTyped, OnTwo!IntrMatched, OnTwo!IntrNoneFreed,
     OnTwo!IntrRouted, OnTwo!IntrCacheOff
<1> QED
  BY <1>1, <1>2, <1>3, PairSame, PTL
     DEF Spec, OnTwo!Intr!Spec

LEMMA CrossSame ==
    /\ Cross!Init <=> OnTwo!Cross!Init
    /\ Cross!Next <=> OnTwo!Cross!Next
    /\ Cross!vars = OnTwo!Cross!vars
    /\ Cross!TypeOK <=> OnTwo!Cross!TypeOK
    /\ Cross!NoReasonLost <=> OnTwo!Cross!NoReasonLost
    /\ Cross!CrosscoreAssumption <=> OnTwo!Cross!CrosscoreAssumption
<1>1. Cross!Init <=> OnTwo!Cross!Init
  BY DEF Cross!Init, OnTwo!Cross!Init
<1>2. Cross!Next <=> OnTwo!Cross!Next
  BY DEF Cross!Next, OnTwo!Cross!Next, Cross!IsrClear, OnTwo!Cross!IsrClear,
      Cross!IsrTake, OnTwo!Cross!IsrTake, Cross!Mark, OnTwo!Cross!Mark,
      Cross!Poke, OnTwo!Cross!Poke
<1>3. /\ Cross!vars = OnTwo!Cross!vars
      /\ Cross!TypeOK <=> OnTwo!Cross!TypeOK
      /\ Cross!NoReasonLost <=> OnTwo!Cross!NoReasonLost
      /\ Cross!CrosscoreAssumption <=> OnTwo!Cross!CrosscoreAssumption
  BY DEF Cross!vars, OnTwo!Cross!vars, Cross!TypeOK, OnTwo!Cross!TypeOK,
      Cross!Isr, OnTwo!Cross!Isr, Cross!NoReasonLost, OnTwo!Cross!NoReasonLost,
      Cross!CrosscoreAssumption, OnTwo!Cross!CrosscoreAssumption
<1> QED
  BY <1>1, <1>2, <1>3

LEMMA CrossThroughout == Spec => [](part = "cross" =>
    Cross!TypeOK /\ Cross!NoReasonLost)
<1>0. OnTwo!Cross!CrosscoreAssumption
  BY ServicesAssumption, CrossSame
<1>1. Init /\ part = "cross" => OnTwo!Cross!Init
  BY CrossSame DEF Init
<1>2. /\ part = "cross" /\ [Next]_vars =>
            [OnTwo!Cross!Next]_(OnTwo!Cross!vars) /\ (part = "cross")'
      /\ ~(part = "cross") /\ [Next]_vars => ~(part = "cross")'
  BY CrossSame DEF Next, vars, OnTwo!Cross!vars
<1>3. OnTwo!Cross!Spec => /\ []OnTwo!Cross!TypeOK
                          /\ []OnTwo!Cross!NoReasonLost
  BY <1>0, OnTwo!CrossTyped, OnTwo!CrossNothingLost
<1> QED
  BY <1>1, <1>2, <1>3, CrossSame, PTL
     DEF Spec, OnTwo!Cross!Spec

LEMMA IpcSame ==
    /\ Ipc!Init <=> OnTwo!Ipc!Init
    /\ Ipc!Next <=> OnTwo!Ipc!Next
    /\ Ipc!vars = OnTwo!Ipc!vars
    /\ Ipc!TypeOK <=> OnTwo!Ipc!TypeOK
    /\ Ipc!StallHolds <=> OnTwo!Ipc!StallHolds
    /\ Ipc!ExecutedOnce <=> OnTwo!Ipc!ExecutedOnce
    /\ Ipc!Released <=> OnTwo!Ipc!Released
    /\ Ipc!IpcAssumption <=> OnTwo!Ipc!IpcAssumption
<1>1. Ipc!Init <=> OnTwo!Ipc!Init
  BY DEF Ipc!Init, OnTwo!Ipc!Init, Ipc!Cores, OnTwo!Ipc!Cores, Ipc!HandlerOff,
      OnTwo!Ipc!HandlerOff, Ipc!NoCall, OnTwo!Ipc!NoCall
<1>2. Ipc!Next <=> OnTwo!Ipc!Next
  BY DEF Ipc!Next, OnTwo!Ipc!Next, Ipc!AsmCall, OnTwo!Ipc!AsmCall, Ipc!Cores,
      OnTwo!Ipc!Cores, Ipc!HandlerEnd, OnTwo!Ipc!HandlerEnd, Ipc!HandlerEnter,
      OnTwo!Ipc!HandlerEnter, Ipc!HandlerRead, OnTwo!Ipc!HandlerRead,
      Ipc!HandlerRun, OnTwo!Ipc!HandlerRun, Ipc!HandlerStart,
      OnTwo!Ipc!HandlerStart, Ipc!Lock, OnTwo!Ipc!Lock, Ipc!Post,
      OnTwo!Ipc!Post, Ipc!Release, OnTwo!Ipc!Release, Ipc!SetRunning,
      OnTwo!Ipc!SetRunning, Ipc!Stall, OnTwo!Ipc!Stall, Ipc!Unlock,
      OnTwo!Ipc!Unlock, Ipc!Wake, OnTwo!Ipc!Wake, Ipc!Out, OnTwo!Ipc!Out,
      Ipc!HandlerOff, OnTwo!Ipc!HandlerOff, Ipc!Wait, OnTwo!Ipc!Wait, Ipc!At,
      OnTwo!Ipc!At, Ipc!Looked, OnTwo!Ipc!Looked, Ipc!Other, OnTwo!Ipc!Other,
      Ipc!StartFlag, OnTwo!Ipc!StartFlag, Ipc!NoCall, OnTwo!Ipc!NoCall
<1>3. /\ Ipc!vars = OnTwo!Ipc!vars
      /\ Ipc!TypeOK <=> OnTwo!Ipc!TypeOK
      /\ Ipc!StallHolds <=> OnTwo!Ipc!StallHolds
      /\ Ipc!ExecutedOnce <=> OnTwo!Ipc!ExecutedOnce
      /\ Ipc!Released <=> OnTwo!Ipc!Released
      /\ Ipc!IpcAssumption <=> OnTwo!Ipc!IpcAssumption
  BY DEF Ipc!vars, OnTwo!Ipc!vars, Ipc!TypeOK, OnTwo!Ipc!TypeOK, Ipc!Call,
      OnTwo!Ipc!Call, Ipc!Cores, OnTwo!Ipc!Cores, Ipc!Handler,
      OnTwo!Ipc!Handler, Ipc!Wait, OnTwo!Ipc!Wait, Ipc!StallHolds,
      OnTwo!Ipc!StallHolds, Ipc!NoCall, OnTwo!Ipc!NoCall, Ipc!Other,
      OnTwo!Ipc!Other, Ipc!ExecutedOnce, OnTwo!Ipc!ExecutedOnce, Ipc!At,
      OnTwo!Ipc!At, Ipc!HandlerOff, OnTwo!Ipc!HandlerOff, Ipc!Released,
      OnTwo!Ipc!Released, Ipc!IpcAssumption, OnTwo!Ipc!IpcAssumption
<1> QED
  BY <1>1, <1>2, <1>3

LEMMA IpcThroughout == Spec => [](part = "ipcisr" =>
    Ipc!TypeOK /\ Ipc!StallHolds /\ Ipc!ExecutedOnce /\ Ipc!Released)
<1>0. OnTwo!Ipc!IpcAssumption /\ OnTwo!IpcUnpaused
  BY ServicesAssumption, IpcSame DEF OnTwo!IpcUnpaused
<1>1. Init /\ part = "ipcisr" => OnTwo!Ipc!Init
  BY IpcSame DEF Init
<1>2. /\ part = "ipcisr" /\ [Next]_vars =>
            [OnTwo!Ipc!Next]_(OnTwo!Ipc!vars) /\ (part = "ipcisr")'
      /\ ~(part = "ipcisr") /\ [Next]_vars => ~(part = "ipcisr")'
  BY IpcSame DEF Next, vars, OnTwo!Ipc!vars
<1>3. OnTwo!Ipc!Spec => /\ []OnTwo!Ipc!TypeOK
                        /\ []OnTwo!Ipc!StallHolds
                        /\ []OnTwo!Ipc!ExecutedOnce
                        /\ []OnTwo!Ipc!Released
  BY <1>0, OnTwo!IpcTyped, OnTwo!IpcStalls, OnTwo!IpcOnce, OnTwo!IpcReleases
<1> QED
  BY <1>1, <1>2, <1>3, IpcSame, PTL
     DEF Spec, OnTwo!Ipc!Spec

LEMMA RtcSame ==
    /\ Rtc!Init <=> OnTwo!Rtc!Init
    /\ Rtc!Next <=> OnTwo!Rtc!Next
    /\ Rtc!vars = OnTwo!Rtc!vars
    /\ Rtc!TypeOK <=> OnTwo!Rtc!TypeOK
    /\ Rtc!WalkComplete <=> OnTwo!Rtc!WalkComplete
    /\ Rtc!CacheOffSafe <=> OnTwo!Rtc!CacheOffSafe
    /\ Rtc!RtcAssumption <=> OnTwo!Rtc!RtcAssumption
<1>1. Rtc!Init <=> OnTwo!Rtc!Init
  BY DEF Rtc!Init, OnTwo!Rtc!Init
<1>2. Rtc!Next <=> OnTwo!Rtc!Next
  BY DEF Rtc!Next, OnTwo!Rtc!Next, Rtc!Deregister, OnTwo!Rtc!Deregister,
      Rtc!Happen, OnTwo!Rtc!Happen, Rtc!IsrEnter, OnTwo!Rtc!IsrEnter,
      Rtc!IsrNext, OnTwo!Rtc!IsrNext, Rtc!NonIramDisable,
      OnTwo!Rtc!NonIramDisable, Rtc!NonIramEnable, OnTwo!Rtc!NonIramEnable,
      Rtc!Register, OnTwo!Rtc!Register, Rtc!SetEnabled, OnTwo!Rtc!SetEnabled,
      Rtc!RemoveAt, OnTwo!Rtc!RemoveAt, Rtc!CallFirst, OnTwo!Rtc!CallFirst,
      Rtc!Range, OnTwo!Rtc!Range, Rtc!Behind, OnTwo!Rtc!Behind,
      Rtc!EnabledInIram, OnTwo!Rtc!EnabledInIram, Rtc!Before, OnTwo!Rtc!Before,
      Rtc!Matching, OnTwo!Rtc!Matching
<1>3. /\ Rtc!vars = OnTwo!Rtc!vars
      /\ Rtc!TypeOK <=> OnTwo!Rtc!TypeOK
      /\ Rtc!WalkComplete <=> OnTwo!Rtc!WalkComplete
      /\ Rtc!CacheOffSafe <=> OnTwo!Rtc!CacheOffSafe
      /\ Rtc!RtcAssumption <=> OnTwo!Rtc!RtcAssumption
  BY DEF Rtc!vars, OnTwo!Rtc!vars, Rtc!TypeOK, OnTwo!Rtc!TypeOK,
      Rtc!IsInjective, OnTwo!Rtc!IsInjective, Rtc!Range, OnTwo!Rtc!Range,
      Rtc!WalkComplete, OnTwo!Rtc!WalkComplete, Rtc!Behind, OnTwo!Rtc!Behind,
      Rtc!Matching, OnTwo!Rtc!Matching, Rtc!Before, OnTwo!Rtc!Before,
      Rtc!CacheOffSafe, OnTwo!Rtc!CacheOffSafe, Rtc!RtcAssumption,
      OnTwo!Rtc!RtcAssumption
<1> QED
  BY <1>1, <1>2, <1>3

LEMMA RtcThroughout == Spec => [](part = "rtc" =>
    Rtc!TypeOK /\ Rtc!WalkComplete /\ Rtc!CacheOffSafe)
<1>0. OnTwo!Rtc!RtcAssumption /\ OnTwo!RtcUnmixed
  BY ServicesAssumption, RtcSame DEF OnTwo!RtcUnmixed
<1>1. Init /\ part = "rtc" => OnTwo!Rtc!Init
  BY RtcSame DEF Init
<1>2. /\ part = "rtc" /\ [Next]_vars =>
            [OnTwo!Rtc!Next]_(OnTwo!Rtc!vars) /\ (part = "rtc")'
      /\ ~(part = "rtc") /\ [Next]_vars => ~(part = "rtc")'
  BY RtcSame DEF Next, vars, OnTwo!Rtc!vars
<1>3. OnTwo!Rtc!Spec => /\ []OnTwo!Rtc!TypeOK
                        /\ []OnTwo!Rtc!WalkComplete
                        /\ []OnTwo!Rtc!CacheOffSafe
  BY <1>0, OnTwo!RtcTyped, OnTwo!RtcWalked, OnTwo!RtcCacheOff
<1> QED
  BY <1>1, <1>2, <1>3, RtcSame, PTL
     DEF Spec, OnTwo!Rtc!Spec

LEMMA ThreeSame ==
    /\ Three!Init <=> OnOne!Intr!Init
    /\ Three!Next <=> OnOne!Intr!Next
    /\ Three!vars = OnOne!Intr!vars
    /\ Three!TypeOK <=> OnOne!Intr!TypeOK
    /\ Three!HandlersMatch <=> OnOne!Intr!HandlersMatch
    /\ Three!NoFreedHandler <=> OnOne!Intr!NoFreedHandler
    /\ Three!Routing <=> OnOne!Intr!Routing
    /\ Three!CacheOffSafe <=> OnOne!Intr!CacheOffSafe
    /\ Three!IntrAssumption <=> OnOne!Intr!IntrAssumption
<1>1. Three!Init <=> OnOne!Intr!Init
  BY DEF Three!Init, OnOne!Intr!Init, Three!NoDesc, OnOne!Intr!NoDesc,
      Three!NoHandle, OnOne!Intr!NoHandle, Three!NoIsr, OnOne!Intr!NoIsr,
      Three!Off, OnOne!Intr!Off
<1>2. Three!Next <=> OnOne!Intr!Next
  BY DEF Three!Next, OnOne!Intr!Next, Three!Alloc, OnOne!Intr!Alloc,
      Three!AllocNoMemory, OnOne!Intr!AllocNoMemory, Three!Disable,
      OnOne!Intr!Disable, Three!Enable, OnOne!Intr!Enable, Three!Free,
      OnOne!Intr!Free, Three!FreeStart, OnOne!Intr!FreeStart, Three!IsrEnter,
      OnOne!Intr!IsrEnter, Three!IsrWalk, OnOne!Intr!IsrWalk,
      Three!NonIramDisable, OnOne!Intr!NonIramDisable, Three!NonIramEnable,
      OnOne!Intr!NonIramEnable, Three!Reserve, OnOne!Intr!Reserve,
      Three!SetInIram, OnOne!Intr!SetInIram, Three!Available,
      OnOne!Intr!Available, Three!Awake, OnOne!Intr!Awake, Three!InIram,
      OnOne!Intr!InIram, Three!Masked, OnOne!Intr!Masked, Three!NoHandle,
      OnOne!Intr!NoHandle, Three!RouteOff, OnOne!Intr!RouteOff, Three!RouteOn,
      OnOne!Intr!RouteOn, Three!Live, OnOne!Intr!Live, Three!FreeRunsOn,
      OnOne!Intr!FreeRunsOn, Three!Unused, OnOne!Intr!Unused, Three!NoIsr,
      OnOne!Intr!NoIsr, Three!HasSource, OnOne!Intr!HasSource, Three!IsBest,
      OnOne!Intr!IsBest, Three!IsFound, OnOne!Intr!IsFound, Three!Usable,
      OnOne!Intr!Usable, Three!Off, OnOne!Intr!Off, Three!OthersOn,
      OnOne!Intr!OthersOn, Three!Better, OnOne!Intr!Better, Three!Cardinality,
      OnOne!Intr!Cardinality
<1>3. /\ Three!vars = OnOne!Intr!vars
      /\ Three!TypeOK <=> OnOne!Intr!TypeOK
      /\ Three!HandlersMatch <=> OnOne!Intr!HandlersMatch
      /\ Three!NoFreedHandler <=> OnOne!Intr!NoFreedHandler
      /\ Three!Routing <=> OnOne!Intr!Routing
      /\ Three!CacheOffSafe <=> OnOne!Intr!CacheOffSafe
      /\ Three!IntrAssumption <=> OnOne!Intr!IntrAssumption
  BY DEF Three!vars, OnOne!Intr!vars, Three!TypeOK, OnOne!Intr!TypeOK,
      Three!Desc, OnOne!Intr!Desc, Three!Handle, OnOne!Intr!Handle,
      Three!NoHandle, OnOne!Intr!NoHandle, Three!NoIsr, OnOne!Intr!NoIsr,
      Three!Off, OnOne!Intr!Off, Three!Flags, OnOne!Intr!Flags, Three!Unused,
      OnOne!Intr!Unused, Three!HandlersMatch, OnOne!Intr!HandlersMatch,
      Three!Users, OnOne!Intr!Users, Three!Live, OnOne!Intr!Live,
      Three!NoFreedHandler, OnOne!Intr!NoFreedHandler, Three!Routing,
      OnOne!Intr!Routing, Three!CacheOffSafe, OnOne!Intr!CacheOffSafe,
      Three!IntrAssumption, OnOne!Intr!IntrAssumption, Three!IsFiniteSet,
      OnOne!Intr!IsFiniteSet
<1> QED
  BY <1>1, <1>2, <1>3

LEMMA ThreeThroughout == Spec => [](part = "three" =>
    /\ Three!TypeOK /\ Three!HandlersMatch /\ Three!NoFreedHandler
    /\ Three!Routing /\ Three!CacheOffSafe)
<1>0. OnOne!Intr!IntrAssumption /\ OnOne!IntrPinned /\ OnOne!IntrZeroTold
  BY ServicesAssumption, ThreeSame DEF OnOne!IntrPinned, OnOne!IntrZeroTold
<1>1. Init /\ part = "three" => OnOne!Intr!Init
  BY ThreeSame DEF Init
<1>2. /\ part = "three" /\ [Next]_vars =>
            [OnOne!Intr!Next]_(OnOne!Intr!vars) /\ (part = "three")'
      /\ ~(part = "three") /\ [Next]_vars => ~(part = "three")'
  BY ThreeSame DEF Next, vars, OnOne!Intr!vars
<1>3. OnOne!Intr!Spec => /\ []OnOne!Intr!TypeOK
                         /\ []OnOne!Intr!HandlersMatch
                         /\ []OnOne!Intr!NoFreedHandler
                         /\ []OnOne!Intr!Routing
                         /\ []OnOne!Intr!CacheOffSafe
  BY <1>0, OnOne!IntrTyped, OnOne!IntrMatched, OnOne!IntrNoneFreed,
     OnOne!IntrRouted, OnOne!IntrCacheOff
<1> QED
  BY <1>1, <1>2, <1>3, ThreeSame, PTL
     DEF Spec, OnOne!Intr!Spec

\* A source is routed to the vector of its handlers while one of them is
\* enabled, whoever else is allocated, disabled or freed.
THEOREM RoutingFollows == Spec => []Routing
BY PairThroughout, ThreeThroughout, PTL DEF Routing

\* Without the flash cache no handler in flash is called or can be, by the
\* allocator's vectors or by the RTC's routine.
THEOREM CacheOffKept == Spec => []CacheOffSafe
BY PairThroughout, ThreeThroughout, RtcThroughout, PTL
   DEF CacheOffSafe

\* A request to another core that is not served yet has its reason in the word,
\* and the interrupt is set, about to be, or its handler about to read that
\* word.
THEOREM ReasonsKept == Spec => []NoReasonLost
BY CrossThroughout, PTL DEF NoReasonLost

\* From a stall to its release the other core executes nothing but the handler,
\* a call is executed once, and after its releases a core holds no mutex.
THEOREM StallsHold == Spec => []StallHolds
BY IpcThroughout, PTL DEF StallHolds

-----------------------------------------------------------------------------
\* The GDMA driver.
Driver == INSTANCE GdmaProofs WITH
    Tasks <- {t1, t2}, Channels <- {x1, x2}, GroupCount <- 1,
    PairsPerGroup <- 2, PeriphIds <- {0}, CallerLiberties <- {},
    MaxGroupRefs <- 2,
    groupUp <- v1, groupRef <- v2, inUse <- v3, pairUp <- v4, pairRef <- v5,
    occupy <- v6, slot <- v7, events <- v8, handlers <- v9, chan <- v10,
    call <- v11

LEMMA GdmaSame ==
    /\ Gdma!Init <=> Driver!Init
    /\ Gdma!Next <=> Driver!Next
    /\ Gdma!vars = Driver!vars
    /\ Gdma!TypeOK <=> Driver!TypeOK
    /\ Gdma!ExclusivePeripherals <=> Driver!ExclusivePeripherals
    /\ Gdma!NoStaleHandler <=> Driver!NoStaleHandler
<1>1. Gdma!Init <=> Driver!Init
  BY DEF Gdma!Init, Driver!Init, Gdma!Dirs, Driver!Dirs, Gdma!FreeChannel,
      Driver!FreeChannel, Gdma!Groups, Driver!Groups, Gdma!Idle, Driver!Idle,
      Gdma!Pairs, Driver!Pairs, Gdma!NotConnected, Driver!NotConnected
<1>2. Gdma!Next <=> Driver!Next
  BY DEF Gdma!Next, Driver!Next, Gdma!Invoke, Driver!Invoke, Gdma!Step,
      Driver!Step, Gdma!Connect, Driver!Connect, Gdma!Defined, Driver!Defined,
      Gdma!DelChannel, Driver!DelChannel, Gdma!Dirs, Driver!Dirs,
      Gdma!Disconnect, Driver!Disconnect, Gdma!InstallIntr, Driver!InstallIntr,
      Gdma!NewChannel, Driver!NewChannel, Gdma!NewSibling, Driver!NewSibling,
      Gdma!NewSiblingRejected, Driver!NewSiblingRejected, Gdma!Unbound,
      Driver!Unbound, Gdma!Interrupt, Driver!Interrupt, Gdma!Release,
      Driver!Release, Gdma!Search, Driver!Search, Gdma!At, Driver!At,
      Gdma!Conflict, Driver!Conflict, Gdma!NotConnected, Driver!NotConnected,
      Gdma!Usable, Driver!Usable, Gdma!intrVars, Driver!intrVars,
      Gdma!pairVars, Driver!pairVars, Gdma!Pairs, Driver!Pairs,
      Gdma!FreeChannel, Driver!FreeChannel, Gdma!groupVars, Driver!groupVars,
      Gdma!Groups, Driver!Groups, Gdma!SearchCode, Driver!SearchCode,
      Gdma!DisableEvents, Driver!DisableEvents, Gdma!EnableEvents,
      Driver!EnableEvents, Gdma!UninstallIntr, Driver!UninstallIntr,
      Gdma!ReleaseGroup, Driver!ReleaseGroup, Gdma!ReleasePair,
      Driver!ReleasePair, Gdma!ReleasePairsGroup, Driver!ReleasePairsGroup,
      Gdma!AcquireGroup, Driver!AcquireGroup, Gdma!AcquirePair,
      Driver!AcquirePair, Gdma!AcquirePairNoMem, Driver!AcquirePairNoMem,
      Gdma!GiveUpSearch, Driver!GiveUpSearch, Gdma!Occupy, Driver!Occupy,
      Gdma!RefGroup, Driver!RefGroup, Gdma!Register, Driver!Register,
      Gdma!Return, Driver!Return, Gdma!Goto, Driver!Goto, Gdma!DropGroupRef,
      Driver!DropGroupRef, Gdma!GroupOf, Driver!GroupOf, Gdma!AfterPair,
      Driver!AfterPair, Gdma!Idle, Driver!Idle
<1>3. /\ Gdma!vars = Driver!vars
      /\ Gdma!TypeOK <=> Driver!TypeOK
      /\ Gdma!ExclusivePeripherals <=> Driver!ExclusivePeripherals
      /\ Gdma!NoStaleHandler <=> Driver!NoStaleHandler
  BY DEF Gdma!vars, Driver!vars, Gdma!TypeOK, Driver!TypeOK, Gdma!Call,
      Driver!Call, Gdma!Channel, Driver!Channel, Gdma!Dirs, Driver!Dirs,
      Gdma!Groups, Driver!Groups, Gdma!Pairs, Driver!Pairs, Gdma!Cursors,
      Driver!Cursors, Gdma!PCs, Driver!PCs, Gdma!NotConnected,
      Driver!NotConnected, Gdma!Unbound, Driver!Unbound,
      Gdma!ExclusivePeripherals, Driver!ExclusivePeripherals,
      Gdma!NoStaleHandler, Driver!NoStaleHandler
<1> QED
  BY <1>1, <1>2, <1>3

\* What the theorem of the GDMA driver assumes of the constants.
LEMMA GdmaPlain ==
    /\ Driver!IsFiniteSet({t1, t2}) /\ Driver!IsFiniteSet({x1, x2})
    /\ None \notin {x1, x2}
    /\ {0} \subseteq 0 .. Driver!NotConnected - 1
<1>1. \A a, b : Driver!IsFiniteSet({a, b})
  <2> TAKE a, b
  <2>1. IsFiniteSet({a})
    BY FS_Singleton
  <2>2. IsFiniteSet({a} \cup {b})
    BY <2>1, FS_AddElement
  <2>3. {a} \cup {b} = {a, b}
    OBVIOUS
  <2> QED
    BY <2>2, <2>3 DEF IsFiniteSet, Driver!IsFiniteSet
<1>2. None \notin {x1, x2}
  BY ServicesAssumption DEF Etm!EtmAssumption
<1>3. {0} \subseteq 0 .. Driver!NotConnected - 1
  BY DEF Driver!NotConnected
<1> QED
  BY <1>1, <1>2, <1>3

LEMMA GdmaThroughout == Spec => [](part = "gdma" =>
    Gdma!TypeOK /\ Gdma!ExclusivePeripherals /\ Gdma!NoStaleHandler)
<1>1. Init /\ part = "gdma" => Driver!Init
  BY GdmaSame DEF Init
<1>2. /\ part = "gdma" /\ [Next]_vars =>
            [Driver!Next]_(Driver!vars) /\ (part = "gdma")'
      /\ ~(part = "gdma") /\ [Next]_vars => ~(part = "gdma")'
  BY GdmaSame DEF Next, vars, Driver!vars
<1>3. Driver!Spec => /\ []Driver!TypeOK
                     /\ []Driver!ExclusivePeripherals
                     /\ []Driver!NoStaleHandler
  BY GdmaPlain, Driver!TypeCorrect, Driver!ExclusivePeripheralsCorrect,
     Driver!NoStaleHandlerCorrect
<1> QED
  BY <1>1, <1>2, <1>3, GdmaSame, PTL
     DEF Spec, Driver!Spec

\* Handler tables hold what is allocated, routines call what is registered, and
\* no handler outlives what it was allocated for: of the interrupt allocator on
\* two cores and where vectors and memory run out, of the RTC, and of the GDMA
\* driver.
THEOREM HandlersMatched == Spec => []HandlersMatch
BY PairThroughout, ThreeThroughout, RtcThroughout, GdmaThroughout, PTL
   DEF HandlersMatch

\* Two of three cores never hold the spinlock, in internal or in external RAM;
\* and no peripheral is connected to two GDMA channels of one direction.
THEOREM NeverTwice == Spec => []Exclusive
BY LockThroughout, GdmaThroughout, PTL DEF Exclusive

-----------------------------------------------------------------------------
\* The rings of DMA descriptors of the memory copy and of the Ethernet HAL.
Rings == INSTANCE RingProofs WITH
    Backlog <- 2, Requests <- {x1, x2, x3}, MaxSize <- 2, Cores <- 2,
    Liberties <- {"overcommit", "chain", "lateEof"},
    DescCount <- 3, MaxSegs <- 2, EmacLiberties <- {},
    up <- v1, rx <- v2, tx <- v3, rxNext <- v4, txNext <- v5, check <- v6,
    dma <- v7, intr <- v8, isr <- v9, waiting <- v10, streams <- v11,
    own <- v1, first <- v2, last <- v3, txOf <- v4, txDesc <- v5, left <- v6,
    poll <- v7, txFrame <- v8, txAt <- v9, within <- v10, txAwake <- v11,
    sends <- v12, body <- v4, rxOf <- v5, rxAt <- v6, segs <- v7,
    rxAwake <- v8, rxFrame <- v9, rxDesc <- v10, call <- v11, wanted <- v12,
    remain <- v13, since <- v14

LEMMA CopySame ==
    /\ Copy!MemcpyAssumption <=> Rings!MemcpyAssumption
    /\ Copy!Init <=> Rings!Init
    /\ Copy!Next <=> Rings!Next
    /\ Copy!vars = Rings!vars
    /\ Copy!TypeOK <=> Rings!TypeOK
    /\ Copy!SamePace <=> Rings!SamePace
<1>1. Copy!Init <=> Rings!Init
  BY DEF Copy!Init, Rings!Init, Copy!DmaIdle, Rings!DmaIdle, Copy!FreeRx,
      Rings!FreeRx, Copy!FreeTx, Rings!FreeTx, Copy!IsrIdle, Rings!IsrIdle,
      Copy!NoIntr, Rings!NoIntr, Copy!Slots, Rings!Slots
<1>2. Copy!Next <=> Rings!Next
  BY DEF Copy!Next, Rings!Next, Copy!Caller, Rings!Caller, Copy!Hardware,
      Rings!Hardware, Copy!Isr, Rings!Isr, Copy!Install, Rings!Install,
      Copy!Submit, Rings!Submit, Copy!Uninstall, Rings!Uninstall,
      Copy!DmaReceive, Rings!DmaReceive, Copy!DmaSend, Rings!DmaSend,
      Copy!IsrEnter, Rings!IsrEnter, Copy!IsrLook, Rings!IsrLook, Copy!IsrNext,
      Rings!IsrNext, Copy!IsrReadEof, Rings!IsrReadEof, Copy!IsrReturn,
      Rings!IsrReturn, Copy!callers, Rings!callers, Copy!ringVars,
      Rings!ringVars, Copy!After, Rings!After, Copy!Allowed, Rings!Allowed,
      Copy!Distance, Rings!Distance, Copy!Handed, Rings!Handed, Copy!Prepared,
      Rings!Prepared, Copy!Slots, Rings!Slots, Copy!DmaIdle, Rings!DmaIdle,
      Copy!FreeRx, Rings!FreeRx, Copy!FreeTx, Rings!FreeTx, Copy!NoIntr,
      Rings!NoIntr, Copy!Continue, Rings!Continue, Copy!IsrIdle, Rings!IsrIdle,
      Copy!Returned, Rings!Returned, Copy!CalledBack, Rings!CalledBack,
      Copy!RemoveAt, Rings!RemoveAt
<1>3. /\ Copy!vars = Rings!vars
      /\ Copy!TypeOK <=> Rings!TypeOK
      /\ Copy!SamePace <=> Rings!SamePace
      /\ Copy!MemcpyAssumption <=> Rings!MemcpyAssumption
  BY DEF Copy!vars, Rings!vars, Copy!TypeOK, Rings!TypeOK, Copy!Piece,
      Rings!Piece, Copy!Slots, Rings!Slots, Copy!SamePace, Rings!SamePace,
      Copy!Prepared, Rings!Prepared, Copy!After, Rings!After,
      Copy!MemcpyAssumption, Rings!MemcpyAssumption, Copy!AllLiberties,
      Rings!AllLiberties
<1> QED
  BY <1>1, <1>2, <1>3

\* What the theorems of RingProofs assume of the constants of the memory copy.
LEMMA CopyPlain ==
    /\ Rings!MemcpyAssumption
    /\ "zeroLength" \notin {"overcommit", "chain", "lateEof"}
BY ServicesAssumption, CopySame

LEMMA CopyThroughout == Spec => [](part = "copy" =>
    Copy!TypeOK /\ Copy!SamePace)
<1>1. Init /\ part = "copy" => Rings!Init
  BY CopySame DEF Init
<1>2. /\ part = "copy" /\ [Next]_vars =>
            [Rings!Next]_(Rings!vars) /\ (part = "copy")'
      /\ ~(part = "copy") /\ [Next]_vars => ~(part = "copy")'
  BY CopySame DEF Next, vars, Rings!vars
<1>3. Rings!Spec => /\ []Rings!TypeOK
                    /\ []Rings!SamePace
  BY CopyPlain, Rings!TypeCorrect, Rings!SamePaceCorrect
<1> QED
  BY <1>1, <1>2, <1>3, CopySame, PTL
     DEF Spec, Rings!Spec

LEMMA EmacOutSame ==
    /\ EmacOut!Init <=> Rings!Tx!Init
    /\ EmacOut!Next <=> Rings!Tx!Next
    /\ EmacOut!vars = Rings!Tx!vars
    /\ EmacOut!TypeOK <=> Rings!Tx!TypeOK
    /\ EmacOut!InStep <=> Rings!Tx!InStep
    /\ EmacOut!NothingForgotten <=> Rings!Tx!NothingForgotten
    /\ EmacOut!EmacSendAssumption <=> Rings!Tx!EmacSendAssumption
<1>1. EmacOut!Init <=> Rings!Tx!Init
  BY DEF EmacOut!Init, Rings!Tx!Init, EmacOut!Slots, Rings!Tx!Slots
<1>2. EmacOut!Next <=> Rings!Tx!Next
  BY DEF EmacOut!Next, Rings!Tx!Next, EmacOut!Give, Rings!Tx!Give,
      EmacOut!Poll, Rings!Tx!Poll, EmacOut!Refuse, Rings!Tx!Refuse,
      EmacOut!Restart, Rings!Tx!Restart, EmacOut!Send, Rings!Tx!Send,
      EmacOut!Suspend, Rings!Tx!Suspend, EmacOut!TransmitFrame,
      Rings!Tx!TransmitFrame, EmacOut!Succ, Rings!Tx!Succ, EmacOut!Wakes,
      Rings!Tx!Wakes, EmacOut!Fits, Rings!Tx!Fits, EmacOut!Usable,
      Rings!Tx!Usable, EmacOut!Write, Rings!Tx!Write, EmacOut!Slots,
      Rings!Tx!Slots, EmacOut!After, Rings!Tx!After, EmacOut!Behind,
      Rings!Tx!Behind, EmacOut!Cardinality, Rings!Tx!Cardinality
<1>3. /\ EmacOut!vars = Rings!Tx!vars
      /\ EmacOut!TypeOK <=> Rings!Tx!TypeOK
      /\ EmacOut!InStep <=> Rings!Tx!InStep
      /\ EmacOut!NothingForgotten <=> Rings!Tx!NothingForgotten
      /\ EmacOut!EmacSendAssumption <=> Rings!Tx!EmacSendAssumption
  BY DEF EmacOut!vars, Rings!Tx!vars, EmacOut!TypeOK, Rings!Tx!TypeOK,
      EmacOut!Numbers, Rings!Tx!Numbers, EmacOut!Slots, Rings!Tx!Slots,
      EmacOut!InStep, Rings!Tx!InStep, EmacOut!NothingForgotten,
      Rings!Tx!NothingForgotten, EmacOut!EmacSendAssumption,
      Rings!Tx!EmacSendAssumption
<1> QED
  BY <1>1, <1>2, <1>3

LEMMA EmacOutThroughout == Spec => [](part = "emacOut" =>
    EmacOut!TypeOK /\ EmacOut!InStep /\ EmacOut!NothingForgotten)
<1>0. Rings!Tx!EmacSendAssumption /\ Rings!TxPlain
  BY ServicesAssumption, EmacOutSame DEF Rings!TxPlain
<1>1. Init /\ part = "emacOut" => Rings!Tx!Init
  BY EmacOutSame DEF Init
<1>2. /\ part = "emacOut" /\ [Next]_vars =>
            [Rings!Tx!Next]_(Rings!Tx!vars) /\ (part = "emacOut")'
      /\ ~(part = "emacOut") /\ [Next]_vars => ~(part = "emacOut")'
  BY EmacOutSame DEF Next, vars, Rings!Tx!vars
<1>3. Rings!Tx!Spec =>
       [](Rings!Tx!TypeOK /\ Rings!Tx!InStep /\ Rings!Tx!NothingForgotten)
  BY <1>0, CopyPlain, Rings!TxInOrder
<1> QED
  BY <1>1, <1>2, <1>3, EmacOutSame, PTL
     DEF Spec, Rings!Tx!Spec

LEMMA EmacInSame ==
    /\ EmacIn!Init <=> Rings!Rx!Init
    /\ EmacIn!Next <=> Rings!Rx!Next
    /\ EmacIn!vars = Rings!Rx!vars
    /\ EmacIn!TypeOK <=> Rings!Rx!TypeOK
    /\ EmacIn!InStep <=> Rings!Rx!InStep
    /\ EmacIn!RingExact <=> Rings!Rx!RingExact
    /\ EmacIn!FramesCounted <=> Rings!Rx!FramesCounted
    /\ EmacIn!EmacRecvAssumption <=> Rings!Rx!EmacRecvAssumption
<1>1. EmacIn!Init <=> Rings!Rx!Init
  BY DEF EmacIn!Init, Rings!Rx!Init, EmacIn!Idle, Rings!Rx!Idle, EmacIn!Slots,
      Rings!Rx!Slots
<1>2. EmacIn!Next <=> Rings!Rx!Next
  BY DEF EmacIn!Next, Rings!Rx!Next, EmacIn!Arrive, Rings!Rx!Arrive,
      EmacIn!Copy, Rings!Rx!Copy, EmacIn!Fill, Rings!Rx!Fill, EmacIn!Flush,
      Rings!Rx!Flush, EmacIn!FlushFrame, Rings!Rx!FlushFrame,
      EmacIn!ReceiveFrame, Rings!Rx!ReceiveFrame, EmacIn!ReleaseRest,
      Rings!Rx!ReleaseRest, EmacIn!Restart, Rings!Rx!Restart, EmacIn!Suspend,
      Rings!Rx!Suspend, EmacIn!Succ, Rings!Rx!Succ, EmacIn!After,
      Rings!Rx!After, EmacIn!LastFound, Rings!Rx!LastFound, EmacIn!Leave,
      Rings!Rx!Leave, EmacIn!Ends, Rings!Rx!Ends, EmacIn!FirstDesc,
      Rings!Rx!FirstDesc, EmacIn!FramesRemain, Rings!Rx!FramesRemain,
      EmacIn!Min, Rings!Rx!Min, EmacIn!Nth, Rings!Rx!Nth, EmacIn!Slots,
      Rings!Rx!Slots, EmacIn!Idle, Rings!Rx!Idle, EmacIn!Used, Rings!Rx!Used,
      EmacIn!Max, Rings!Rx!Max, EmacIn!Cardinality, Rings!Rx!Cardinality
<1>3. /\ EmacIn!vars = Rings!Rx!vars
      /\ EmacIn!TypeOK <=> Rings!Rx!TypeOK
      /\ EmacIn!InStep <=> Rings!Rx!InStep
      /\ EmacIn!RingExact <=> Rings!Rx!RingExact
      /\ EmacIn!FramesCounted <=> Rings!Rx!FramesCounted
      /\ EmacIn!EmacRecvAssumption <=> Rings!Rx!EmacRecvAssumption
  BY DEF EmacIn!vars, Rings!Rx!vars, EmacIn!TypeOK, Rings!Rx!TypeOK,
      EmacIn!Numbers, Rings!Rx!Numbers, EmacIn!Slots, Rings!Rx!Slots,
      EmacIn!InStep, Rings!Rx!InStep, EmacIn!RingExact, Rings!Rx!RingExact,
      EmacIn!Nth, Rings!Rx!Nth, EmacIn!FramesCounted, Rings!Rx!FramesCounted,
      EmacIn!Ends, Rings!Rx!Ends, EmacIn!Used, Rings!Rx!Used,
      EmacIn!Cardinality, Rings!Rx!Cardinality, EmacIn!EmacRecvAssumption,
      Rings!Rx!EmacRecvAssumption
<1> QED
  BY <1>1, <1>2, <1>3

LEMMA EmacInThroughout == Spec => [](part = "emacIn" =>
    /\ EmacIn!TypeOK /\ EmacIn!InStep /\ EmacIn!RingExact
    /\ EmacIn!FramesCounted)
<1>0. Rings!Rx!EmacRecvAssumption /\ Rings!RxPlain
  BY ServicesAssumption, EmacInSame DEF Rings!RxPlain
<1>1. Init /\ part = "emacIn" => Rings!Rx!Init
  BY EmacInSame DEF Init
<1>2. /\ part = "emacIn" /\ [Next]_vars =>
            [Rings!Rx!Next]_(Rings!Rx!vars) /\ (part = "emacIn")'
      /\ ~(part = "emacIn") /\ [Next]_vars => ~(part = "emacIn")'
  BY EmacInSame DEF Next, vars, Rings!Rx!vars
<1>3. Rings!Rx!Spec =>
       [](Rings!Rx!TypeOK /\ Rings!Rx!InStep /\ Rings!Rx!RingExact
          /\ Rings!Rx!FramesCounted)
  BY <1>0, CopyPlain, Rings!RxInOrder
<1> QED
  BY <1>1, <1>2, <1>3, EmacInSame, PTL
     DEF Spec, Rings!Rx!Spec

\* The two rings of the memory copy move in step, also where callers ignore the
\* backlog, from tasks and from callbacks.
THEOREM CopyInPace == Spec => []SamePace
BY CopyThroughout, PTL DEF SamePace

-----------------------------------------------------------------------------
\* Lists and queues.
Lists == INSTANCE ListProofs WITH
    Tags <- {x1, x2, x3, t1}, TextOf <- [g \in {x1, x2, x3, t1} |-> g],
    Levels <- {1, 2}, Size <- 3, Generations <- 8, MaxGeneration <- 7,
    Buffers <- {x1, x2, x3}, RecvLiberties <- {}, Count <- 3,
    Transfers <- {x1, x2, x3}, SpiLiberties <- {}, QueueSize <- 2,
    SendBuffers <- {x1, x2}, Lengths <- {1}, MaxTotal <- 4,
    SendLiberties <- {},
    default <- v1, levels <- v2, cache <- v3, newest <- v4,
    list <- v1, owner <- v2, cur <- v3, running <- v4, enabled <- v5,
    raised <- v6, isr <- v7, at <- v8, busy <- v9, credit <- v10, ready <- v11,
    next <- v1, arg <- v2, use <- v3, tail <- v4, head <- v5, started <- v6,
    unrecycled <- v7, append <- v8, onto <- v9, on <- v10, eof <- v11,
    out <- v12,
    mode <- v1, link <- v2, desc <- v3, write <- v4, read <- v5, free <- v6,
    state <- v7, flight <- v8, end <- v9, after <- v10, returned <- v11,
    total <- v12, pktLen <- v13, dma <- v14, invoked <- v15, routine <- v16,
    given <- v17, space <- v18

LEMMA LogSame ==
    /\ Log!Init <=> Lists!Log!Init
    /\ Log!Next <=> Lists!Log!Next
    /\ Log!vars = Lists!Log!vars
    /\ Log!TypeOK <=> Lists!Log!TypeOK
    /\ Log!CacheAgrees <=> Lists!Log!CacheAgrees
    /\ Log!HeapOrder <=> Lists!Log!HeapOrder
    /\ Log!LogAssumption <=> Lists!Log!LogAssumption
<1>1. Log!Init <=> Lists!Log!Init
  BY DEF Log!Init, Lists!Log!Init, Log!Texts, Lists!Log!Texts, Log!Unset,
      Lists!Log!Unset
<1>2. Log!Next <=> Lists!Log!Next
  BY DEF Log!Next, Lists!Log!Next, Log!Hit, Lists!Log!Hit, Log!Miss,
      Lists!Log!Miss, Log!Set, Lists!Log!Set, Log!SetAll, Lists!Log!SetAll,
      Log!Texts, Lists!Log!Texts, Log!BubbleDown, Lists!Log!BubbleDown,
      Log!Stamp, Lists!Log!Stamp, Log!LevelOf, Lists!Log!LevelOf, Log!Unset,
      Lists!Log!Unset, Log!OlderChild, Lists!Log!OlderChild
<1>3. /\ Log!vars = Lists!Log!vars
      /\ Log!TypeOK <=> Lists!Log!TypeOK
      /\ Log!CacheAgrees <=> Lists!Log!CacheAgrees
      /\ Log!HeapOrder <=> Lists!Log!HeapOrder
      /\ Log!LogAssumption <=> Lists!Log!LogAssumption
  BY DEF Log!vars, Lists!Log!vars, Log!TypeOK, Lists!Log!TypeOK, Log!Entry,
      Lists!Log!Entry, Log!Texts, Lists!Log!Texts, Log!Unset, Lists!Log!Unset,
      Log!CacheAgrees, Lists!Log!CacheAgrees, Log!LevelOf, Lists!Log!LevelOf,
      Log!HeapOrder, Lists!Log!HeapOrder, Log!LogAssumption,
      Lists!Log!LogAssumption
<1> QED
  BY <1>1, <1>2, <1>3

LEMMA LogThroughout == Spec => [](part = "log" =>
    Log!TypeOK /\ Log!CacheAgrees /\ Log!HeapOrder)
<1>0. Lists!Log!LogAssumption /\ Lists!LogDistinct /\ Lists!LogNarrow
  BY ServicesAssumption, LogSame DEF Lists!LogDistinct, Lists!LogNarrow
<1>1. Init /\ part = "log" => Lists!Log!Init
  BY LogSame DEF Init
<1>2. /\ part = "log" /\ [Next]_vars =>
            [Lists!Log!Next]_(Lists!Log!vars) /\ (part = "log")'
      /\ ~(part = "log") /\ [Next]_vars => ~(part = "log")'
  BY LogSame DEF Next, vars, Lists!Log!vars
<1>3. Lists!Log!Spec => /\ []Lists!Log!TypeOK
                        /\ []Lists!Log!CacheAgrees
                        /\ []Lists!Log!HeapOrder
  BY <1>0, Lists!LogTyped, Lists!LogAgrees, Lists!LogOrdered
<1> QED
  BY <1>1, <1>2, <1>3, LogSame, PTL
     DEF Spec, Lists!Log!Spec

LEMMA RecvSame ==
    /\ Recv!Init <=> Lists!Recv!Init
    /\ Recv!Next <=> Lists!Recv!Next
    /\ Recv!vars = Lists!Recv!vars
    /\ Recv!TypeOK <=> Lists!Recv!TypeOK
    /\ Recv!ReturnedInOrder <=> Lists!Recv!ReturnedInOrder
    /\ Recv!NothingForgotten <=> Lists!Recv!NothingForgotten
    /\ Recv!CounterExact <=> Lists!Recv!CounterExact
    /\ Recv!RecvAssumption <=> Lists!Recv!RecvAssumption
<1>1. Recv!Init <=> Lists!Recv!Init
  BY DEF Recv!Init, Lists!Recv!Init
<1>2. Recv!Next <=> Lists!Recv!Next
  BY DEF Recv!Next, Lists!Recv!Next, Recv!DmaDone, Lists!Recv!DmaDone,
      Recv!FlushOneBuffer, Lists!Recv!FlushOneBuffer, Recv!HasNextItem,
      Lists!Recv!HasNextItem, Recv!LoadBuf, Lists!Recv!LoadBuf, Recv!RecvDone,
      Lists!Recv!RecvDone, Recv!ResetCounter, Lists!Recv!ResetCounter,
      Recv!Start, Lists!Recv!Start, Recv!Stop, Lists!Recv!Stop,
      Recv!UnloadDesc, Lists!Recv!UnloadDesc, Recv!NextOf, Lists!Recv!NextOf,
      Recv!CreditAfterFlush, Lists!Recv!CreditAfterFlush, Recv!AsksAgain,
      Lists!Recv!AsksAgain, Recv!HasNext, Lists!Recv!HasNext,
      Recv!CurAfterLoad, Lists!Recv!CurAfterLoad, Recv!Range, Lists!Recv!Range,
      Recv!Empty, Lists!Recv!Empty
<1>3. /\ Recv!vars = Lists!Recv!vars
      /\ Recv!TypeOK <=> Lists!Recv!TypeOK
      /\ Recv!ReturnedInOrder <=> Lists!Recv!ReturnedInOrder
      /\ Recv!NothingForgotten <=> Lists!Recv!NothingForgotten
      /\ Recv!CounterExact <=> Lists!Recv!CounterExact
      /\ Recv!RecvAssumption <=> Lists!Recv!RecvAssumption
  BY DEF Recv!vars, Lists!Recv!vars, Recv!TypeOK, Lists!Recv!TypeOK,
      Recv!IsInjective, Lists!Recv!IsInjective, Recv!Cardinality,
      Lists!Recv!Cardinality, Recv!ReturnedInOrder, Lists!Recv!ReturnedInOrder,
      Recv!NothingForgotten, Lists!Recv!NothingForgotten, Recv!Empty,
      Lists!Recv!Empty, Recv!HasNext, Lists!Recv!HasNext, Recv!CounterExact,
      Lists!Recv!CounterExact, Recv!RecvAssumption, Lists!Recv!RecvAssumption,
      Recv!IsFiniteSet, Lists!Recv!IsFiniteSet
<1> QED
  BY <1>1, <1>2, <1>3

LEMMA RecvThroughout == Spec => [](part = "recv" =>
    /\ Recv!TypeOK /\ Recv!ReturnedInOrder /\ Recv!NothingForgotten
    /\ Recv!CounterExact)
<1>0. Lists!Recv!RecvAssumption /\ Lists!RecvPlain
  BY ServicesAssumption, RecvSame DEF Lists!RecvPlain
<1>1. Init /\ part = "recv" => Lists!Recv!Init
  BY RecvSame DEF Init
<1>2. /\ part = "recv" /\ [Next]_vars =>
            [Lists!Recv!Next]_(Lists!Recv!vars) /\ (part = "recv")'
      /\ ~(part = "recv") /\ [Next]_vars => ~(part = "recv")'
  BY RecvSame DEF Next, vars, Lists!Recv!vars
<1>3. Lists!Recv!Spec =>
       [](/\ Lists!Recv!TypeOK
          /\ Lists!Recv!ReturnedInOrder
          /\ Lists!Recv!NothingForgotten
          /\ Lists!Recv!CounterExact)
  BY <1>0, Lists!RecvInOrder
<1> QED
  BY <1>1, <1>2, <1>3, RecvSame, PTL
     DEF Spec, Lists!Recv!Spec

LEMMA SdioSame ==
    /\ Sdio!Init <=> Lists!Send!Init
    /\ Sdio!Next <=> Lists!Send!Next
    /\ Sdio!vars = Lists!Send!vars
    /\ Sdio!TypeOK <=> Lists!Send!TypeOK
    /\ Sdio!RingAsserts <=> Lists!Send!RingAsserts
    /\ Sdio!NothingForgotten <=> Lists!Send!NothingForgotten
    /\ Sdio!CounterExact <=> Lists!Send!CounterExact
    /\ Sdio!SendAssumption <=> Lists!Send!SendAssumption
    /\ Sdio!AQ!Init <=> Lists!Send!AQ!Init
    /\ Sdio!AQ!Next <=> Lists!Send!AQ!Next
    /\ UNCHANGED Sdio!AQ!vars <=> UNCHANGED Lists!Send!AQ!vars
<1>1. Sdio!Init <=> Lists!Send!Init
  BY DEF Sdio!Init, Lists!Send!Init, Sdio!Slots, Lists!Send!Slots, Sdio!Succ,
      Lists!Send!Succ
<1>2. Sdio!Next <=> Lists!Send!Next
  BY DEF Sdio!Next, Lists!Send!Next, Sdio!DmaSent, Lists!Send!DmaSent,
      Sdio!FlushInflight, Lists!Send!FlushInflight, Sdio!FlushUnsent,
      Lists!Send!FlushUnsent, Sdio!IsrEnter, Lists!Send!IsrEnter,
      Sdio!IsrPacket, Lists!Send!IsrPacket, Sdio!IsrResult,
      Lists!Send!IsrResult, Sdio!Queue, Lists!Send!Queue, Sdio!ResetCounter,
      Lists!Send!ResetCounter, Sdio!Start, Lists!Send!Start, Sdio!Stop,
      Lists!Send!Stop, Sdio!GiveBack, Lists!Send!GiveBack, Sdio!NextInflight,
      Lists!Send!NextInflight, Sdio!Freed, Lists!Send!Freed, Sdio!Mended,
      Lists!Send!Mended, Sdio!Returned, Lists!Send!Returned, Sdio!Succ,
      Lists!Send!Succ, Sdio!Cut, Lists!Send!Cut, Sdio!AfterResults,
      Lists!Send!AfterResults, Sdio!Behind, Lists!Send!Behind, Sdio!Flying,
      Lists!Send!Flying, Sdio!Range, Lists!Send!Range, Sdio!Closed,
      Lists!Send!Closed, Sdio!Slots, Lists!Send!Slots, Sdio!Total,
      Lists!Send!Total, Sdio!Totals, Lists!Send!Totals, Sdio!Walk,
      Lists!Send!Walk, Sdio!Distance, Lists!Send!Distance, Sdio!Last,
      Lists!Send!Last, Sdio!Cardinality, Lists!Send!Cardinality
<1>3. Sdio!AQ!Init <=> Lists!Send!AQ!Init
  BY DEF Sdio!AQ!Init, Lists!Send!AQ!Init, Sdio!Flying, Lists!Send!Flying,
      Sdio!Behind, Lists!Send!Behind, Sdio!Walk, Lists!Send!Walk, Sdio!Slots,
      Lists!Send!Slots, Sdio!Cardinality, Lists!Send!Cardinality
<1>4. Sdio!AQ!Next <=> Lists!Send!AQ!Next
  BY DEF Sdio!AQ!Next, Lists!Send!AQ!Next, Sdio!AQ!Put, Lists!Send!AQ!Put,
      Sdio!AQ!Release, Lists!Send!AQ!Release, Sdio!AQ!Take, Lists!Send!AQ!Take,
      Sdio!Flying, Lists!Send!Flying, Sdio!Behind, Lists!Send!Behind,
      Sdio!Walk, Lists!Send!Walk, Sdio!Slots, Lists!Send!Slots,
      Sdio!Cardinality, Lists!Send!Cardinality
<1>5. /\ Sdio!vars = Lists!Send!vars
      /\ Sdio!TypeOK <=> Lists!Send!TypeOK
      /\ Sdio!RingAsserts <=> Lists!Send!RingAsserts
      /\ Sdio!NothingForgotten <=> Lists!Send!NothingForgotten
      /\ Sdio!CounterExact <=> Lists!Send!CounterExact
      /\ Sdio!SendAssumption <=> Lists!Send!SendAssumption
      /\ UNCHANGED Sdio!AQ!vars <=> UNCHANGED Lists!Send!AQ!vars
  BY DEF Sdio!vars, Lists!Send!vars, Sdio!TypeOK, Lists!Send!TypeOK, Sdio!Desc,
      Lists!Send!Desc, Sdio!Slots, Lists!Send!Slots, Sdio!RingAsserts,
      Lists!Send!RingAsserts, Sdio!Succ, Lists!Send!Succ,
      Sdio!NothingForgotten, Lists!Send!NothingForgotten, Sdio!Behind,
      Lists!Send!Behind, Sdio!Flying, Lists!Send!Flying, Sdio!Walk,
      Lists!Send!Walk, Sdio!Cardinality, Lists!Send!Cardinality,
      Sdio!CounterExact, Lists!Send!CounterExact, Sdio!Total, Lists!Send!Total,
      Sdio!Totals, Lists!Send!Totals, Sdio!SendAssumption,
      Lists!Send!SendAssumption, Sdio!AQ!vars, Lists!Send!AQ!vars
<1> QED
  BY <1>1, <1>2, <1>3, <1>4, <1>5

LEMMA SdioThroughout == Spec => [](part = "sdio" =>
    /\ Sdio!TypeOK /\ Sdio!RingAsserts /\ Sdio!NothingForgotten
    /\ Sdio!CounterExact)
<1>0. Lists!Send!SendAssumption /\ Lists!SendPlain
  BY ServicesAssumption, SdioSame DEF Lists!SendPlain
<1>1. Init /\ part = "sdio" => Lists!Send!Init
  BY SdioSame DEF Init
<1>2. /\ part = "sdio" /\ [Next]_vars =>
            [Lists!Send!Next]_(Lists!Send!vars) /\ (part = "sdio")'
      /\ ~(part = "sdio") /\ [Next]_vars => ~(part = "sdio")'
  BY SdioSame DEF Next, vars, Lists!Send!vars
<1>3. Lists!Send!Spec =>
       [](/\ Lists!Send!TypeOK /\ Lists!Send!RingAsserts
          /\ Lists!Send!NothingForgotten /\ Lists!Send!CounterExact)
  BY <1>0, Lists!SendCorrect
<1> QED
  BY <1>1, <1>2, <1>3, SdioSame, PTL
     DEF Spec, Lists!Send!Spec

LEMMA SpiSame ==
    /\ Spi!Init <=> Lists!Spi!Init
    /\ Spi!Next <=> Lists!Spi!Next
    /\ Spi!vars = Lists!Spi!vars
    /\ Spi!TypeOK <=> Lists!Spi!TypeOK
    /\ Spi!HeadAsserts <=> Lists!Spi!HeadAsserts
    /\ Spi!NothingForgotten <=> Lists!Spi!NothingForgotten
    /\ Spi!SpiAssumption <=> Lists!Spi!SpiAssumption
    /\ Spi!AQ!Init <=> Lists!Spi!AQ!Init
    /\ Spi!AQ!Next <=> Lists!Spi!AQ!Next
    /\ UNCHANGED Spi!AQ!vars <=> UNCHANGED Lists!Spi!AQ!vars
<1>1. Spi!Init <=> Lists!Spi!Init
  BY DEF Spi!Init, Lists!Spi!Init, Spi!Dummy, Lists!Spi!Dummy, Spi!Slots,
      Lists!Spi!Slots
<1>2. Spi!Next <=> Lists!Spi!Next
  BY DEF Spi!Next, Lists!Spi!Next, Spi!Advance, Lists!Spi!Advance, Spi!DmaEnd,
      Lists!Spi!DmaEnd, Spi!Fill, Lists!Spi!Fill, Spi!GetFinished,
      Lists!Spi!GetFinished, Spi!Link, Lists!Spi!Link, Spi!Restart,
      Lists!Spi!Restart, Spi!Start, Lists!Spi!Start, Spi!Succ, Lists!Spi!Succ,
      Spi!Chain, Lists!Spi!Chain, Spi!Range, Lists!Spi!Range, Spi!Refuses,
      Lists!Spi!Refuses, Spi!Cardinality, Lists!Spi!Cardinality
<1>3. Spi!AQ!Init <=> Lists!Spi!AQ!Init
  BY DEF Spi!AQ!Init, Lists!Spi!AQ!Init, Spi!Chain, Lists!Spi!Chain, Spi!Ended,
      Lists!Spi!Ended, Spi!Range, Lists!Spi!Range, Spi!Cardinality,
      Lists!Spi!Cardinality
<1>4. Spi!AQ!Next <=> Lists!Spi!AQ!Next
  <2>1. Spi!Chain = Lists!Spi!Chain /\ Spi!Chain' = Lists!Spi!Chain'
    BY DEF Spi!Chain, Lists!Spi!Chain, Spi!Cardinality, Lists!Spi!Cardinality
  <2>2. Spi!Ended = Lists!Spi!Ended /\ Spi!Ended' = Lists!Spi!Ended'
    BY <2>1 DEF Spi!Ended, Lists!Spi!Ended, Spi!Range, Lists!Spi!Range
  <2> QED
    BY <2>1, <2>2 DEF Spi!AQ!Next, Lists!Spi!AQ!Next, Spi!AQ!Accept,
       Lists!Spi!AQ!Accept, Spi!AQ!Copy, Lists!Spi!AQ!Copy, Spi!AQ!Notify,
       Lists!Spi!AQ!Notify
<1>5. /\ Spi!vars = Lists!Spi!vars
      /\ Spi!TypeOK <=> Lists!Spi!TypeOK
      /\ Spi!HeadAsserts <=> Lists!Spi!HeadAsserts
      /\ Spi!NothingForgotten <=> Lists!Spi!NothingForgotten
      /\ Spi!SpiAssumption <=> Lists!Spi!SpiAssumption
      /\ UNCHANGED Spi!AQ!vars <=> UNCHANGED Lists!Spi!AQ!vars
  BY DEF Spi!vars, Lists!Spi!vars, Spi!TypeOK, Lists!Spi!TypeOK, Spi!Dummy,
      Lists!Spi!Dummy, Spi!Slots, Lists!Spi!Slots, Spi!HeadAsserts,
      Lists!Spi!HeadAsserts, Spi!Ended, Lists!Spi!Ended, Spi!Chain,
      Lists!Spi!Chain, Spi!Range, Lists!Spi!Range, Spi!Cardinality,
      Lists!Spi!Cardinality, Spi!NothingForgotten, Lists!Spi!NothingForgotten,
      Spi!SpiAssumption, Lists!Spi!SpiAssumption, Spi!AQ!vars,
      Lists!Spi!AQ!vars
<1> QED
  BY <1>1, <1>2, <1>3, <1>4, <1>5

LEMMA SpiThroughout == Spec => [](part = "spi" =>
    Spi!TypeOK /\ Spi!HeadAsserts /\ Spi!NothingForgotten)
<1>0. Lists!Spi!SpiAssumption /\ Lists!SpiPlain
  BY ServicesAssumption, SpiSame DEF Lists!SpiPlain
<1>1. Init /\ part = "spi" => Lists!Spi!Init
  BY SpiSame DEF Init
<1>2. /\ part = "spi" /\ [Next]_vars =>
            [Lists!Spi!Next]_(Lists!Spi!vars) /\ (part = "spi")'
      /\ ~(part = "spi") /\ [Next]_vars => ~(part = "spi")'
  BY SpiSame DEF Next, vars, Lists!Spi!vars
<1>3. Lists!Spi!Spec =>
       [](/\ Lists!Spi!TypeOK /\ Lists!Spi!HeadAsserts
          /\ Lists!Spi!NothingForgotten)
  BY <1>0, Lists!SpiHeads
<1> QED
  BY <1>1, <1>2, <1>3, SpiSame, PTL
     DEF Spec, Lists!Spi!Spec

\* The cache of the log levels changes no answer.
THEOREM AnswersAgree == Spec => []CacheAgrees
BY LogThroughout, PTL DEF CacheAgrees

\* Buffers that the SDIO slave queues for sending come back once each and in
\* the order they were queued in, and space for others never before them; and
\* what the SPI slave appends is given back in its order, when it has ended.
THEOREM QueuesPromised == Spec => Promised
<1>0. /\ Lists!Send!SendAssumption /\ Lists!SendPlain
      /\ Lists!Spi!SpiAssumption /\ Lists!SpiPlain
  BY ServicesAssumption, SdioSame, SpiSame DEF Lists!SendPlain, Lists!SpiPlain
<1>1. Init /\ part = "sdio" => Lists!Send!Init
  BY SdioSame DEF Init
<1>2. part = "sdio" /\ [Next]_vars =>
       [Lists!Send!Next]_(Lists!Send!vars) /\ (part = "sdio")'
  BY SdioSame DEF Next, vars, Lists!Send!vars
<1>3. ~(part = "sdio") /\ [Next]_vars => ~(part = "sdio")'
  BY DEF Next, vars
<1>4. Lists!Send!Spec =>
       Lists!Send!AQ!Init /\ [][Lists!Send!AQ!Next]_(Lists!Send!AQ!vars)
  BY <1>0, Lists!SendPromised DEF Lists!Send!Promised, Lists!Send!AQ!Spec
<1>5. Init /\ part = "spi" => Lists!Spi!Init
  BY SpiSame DEF Init
<1>6. part = "spi" /\ [Next]_vars =>
       [Lists!Spi!Next]_(Lists!Spi!vars) /\ (part = "spi")'
  BY SpiSame DEF Next, vars, Lists!Spi!vars
<1>7. ~(part = "spi") /\ [Next]_vars => ~(part = "spi")'
  BY DEF Next, vars
<1>8. Lists!Spi!Spec =>
       Lists!Spi!AQ!Init /\ [][Lists!Spi!AQ!Next]_(Lists!Spi!AQ!vars)
  BY <1>0, Lists!SpiPromised DEF Lists!Spi!Promised, Lists!Spi!AQ!Spec
<1>9. Sdio!AQ!Init <=> Lists!Send!AQ!Init
  BY SdioSame
<1>10. [Lists!Send!AQ!Next]_(Lists!Send!AQ!vars)
          => Sdio!AQ!Next \/ UNCHANGED Sdio!AQ!vars
  BY SdioSame
<1>11. Spi!AQ!Init <=> Lists!Spi!AQ!Init
  BY SpiSame
<1>12. [Lists!Spi!AQ!Next]_(Lists!Spi!AQ!vars)
          => Spi!AQ!Next \/ UNCHANGED Spi!AQ!vars
  BY SpiSame
<1> QED
  BY <1>1, <1>2, <1>3, <1>4, <1>5, <1>6, <1>7, <1>8, <1>9, <1>10, <1>11,
     <1>12, PTL
     DEF Spec, Promised, Lists!Send!Spec, Lists!Spi!Spec

-----------------------------------------------------------------------------
\* What is said of components of several kinds.

\* The assertions in the code hold: of the spinlock, of the heap of the log
\* cache and of the SDIO slave's ring; and the SPI slave's handler, which
\* checks nothing, never follows a pointer that leads nowhere.
THEOREM AssertionsHold == Spec => []AssertsHold
BY LockThroughout, LogThroughout, SdioThroughout, SpiThroughout, PTL
   DEF AssertsHold

\* What the host was told that the SDIO slave has for it, and room for, adds
\* up; so does the number of Ethernet frames a caller is told are left, and the
\* references to a group of the event task matrix.
THEOREM CountersExact == Spec => []CounterExact
BY SdioThroughout, RecvThroughout, EmacInThroughout, EtmThroughout, PTL
   DEF CounterExact

\* Nothing waits for nobody, in either half of the SDIO slave, in the SPI slave
\* and in the Ethernet HAL: a packet, a transfer or a frame that is there is
\* worked on, or somebody is about to see to it.
THEOREM NoneForgotten == Spec => []NothingForgotten
BY SdioThroughout, SpiThroughout, RecvThroughout, EmacInThroughout,
   EmacOutThroughout, PTL DEF NothingForgotten

\* Every component's variables keep their types, but for Retention's, of which
\* nothing is proved.
THEOREM TypesCorrect == Spec => []TypesOK
<1> DEFINE Basic == /\ part = "efuse"  => Efuse!TypeOK
                    /\ part = "lock"   => Lock!TypeOK
                    /\ part = "clocks" => Clocks!TypeOK
                    /\ part = "watch"  => Watch!TypeOK
                    /\ part = "modem"  => Modem!TypeOK
                    /\ part = "etm"    => Etm!TypeOK
           Interrupts == /\ part = "pair"   => Pair!TypeOK
                         /\ part = "three"  => Three!TypeOK
                         /\ part = "cross"  => Cross!TypeOK
                         /\ part = "ipcisr" => Ipc!TypeOK
                         /\ part = "rtc"    => Rtc!TypeOK
                         /\ part = "gdma"   => Gdma!TypeOK
           Data == /\ part = "copy" => Copy!TypeOK
                   /\ part = "emacIn"  => EmacIn!TypeOK
                   /\ part = "emacOut" => EmacOut!TypeOK
                   /\ part = "log"  => Log!TypeOK
                   /\ part = "recv" => Recv!TypeOK
                   /\ part = "sdio" => Sdio!TypeOK
                   /\ part = "spi"  => Spi!TypeOK
<1>1. Spec => []Basic
  BY EfuseThroughout, LockThroughout, ClocksThroughout, WatchThroughout,
     ModemThroughout, EtmThroughout, PTL
<1>2. Spec => []Interrupts
  BY PairThroughout, ThreeThroughout, CrossThroughout, IpcThroughout,
     RtcThroughout, GdmaThroughout, PTL
<1>3. Spec => []Data
  BY CopyThroughout, EmacInThroughout, EmacOutThroughout, LogThroughout,
     RecvThroughout, SdioThroughout, SpiThroughout, PTL
<1>4. Basic /\ Interrupts /\ Data => TypesOK
  BY DEF TypesOK
<1> HIDE DEF Basic, Interrupts, Data
<1> QED
  BY <1>1, <1>2, <1>3, <1>4, PTL
===============================================================================
