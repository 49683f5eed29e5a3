----------------------------- MODULE MCServices -----------------------------
(***************************************************************************)
(* Values for checking the smaller components, and two of the larger ones  *)
(* in a second configuration, each on an instance of its own.  A behaviour *)
(* is one of the component that `part' names; the components take their    *)
(* variables from one stock v1, ..., v18, the rest of which stays 0.  A    *)
(* property keeps the name it has in the component's module.               *)
(***************************************************************************)
EXTENDS Naturals, TLC

CONSTANTS
    x1, x2, x3,  \* handles, tags, buffers, channels, requests, senders
    t1, t2,      \* tasks
    None

VARIABLES part, v1, v2, v3, v4, v5, v6, v7, v8, v9, v10, v11, v12, v13, v14,
          v15, v16, v17, v18

vars == <<part, v1, v2, v3, v4, v5, v6, v7, v8, v9, v10, v11, v12, v13, v14,
          v15, v16, v17, v18>>

\* The variables from the n-th on are unused, and left alone.
Unused15 == v15 = 0 /\ v16 = 0 /\ v17 = 0 /\ v18 = 0
Kept15 == UNCHANGED <<v15, v16, v17, v18>>
Unused13 == v13 = 0 /\ v14 = 0 /\ Unused15
Kept13 == UNCHANGED <<v13, v14>> /\ Kept15
Unused12 == v12 = 0 /\ Unused13
Kept12 == UNCHANGED v12 /\ Kept13
Unused11 == v11 = 0 /\ Unused12
Kept11 == UNCHANGED v11 /\ Kept12
Unused8 == v8 = 0 /\ v9 = 0 /\ v10 = 0 /\ Unused11
Kept8 == UNCHANGED <<v8, v9, v10>> /\ Kept11
Unused7 == v7 = 0 /\ Unused8
Kept7 == UNCHANGED v7 /\ Kept8
Unused6 == v6 = 0 /\ Unused7
Kept6 == UNCHANGED v6 /\ Kept7
Unused5 == v5 = 0 /\ Unused6
Kept5 == UNCHANGED v5 /\ Kept6
Unused4 == v4 = 0 /\ Unused5
Kept4 == UNCHANGED v4 /\ Kept5

\* Two writers and a reader; one register in BLOCK0, two in a coded block.
Efuse == INSTANCE EfuseBatch WITH
    Tasks <- {t1, t2}, Readers <- {x1}, LastReg <- 2,
    Width <- [r \in 0 .. 2 |-> 1],
    BlockOf <- [r \in 0 .. 2 |-> IF r = 0 THEN 0 ELSE 1],
    Counts <- {1, 2}, MaxNest <- 1, MaxDepth <- 2, None <- None,
    efuse <- v1, pending <- v2, odd <- v3, mode <- v4, lock <- v5, op <- v6,
    reader <- v7

\* Two cores, and handlers that are freed from either.
Pair == INSTANCE IntrAlloc WITH
    Cores <- {0, 1}, Vectors <- {0, 1}, Sources <- {1, 2},
    Handles <- {x1, x2}, Liberties <- {}, None <- None,
    desc <- v1, handle <- v2, table <- v3, route <- v4, mask <- v5,
    enabled <- v6, saved <- v7, asleep <- v8, freeing <- v9, isr <- v10

\* More handlers than vectors; malloc fails, vectors are reserved.
Three == INSTANCE IntrAlloc WITH
    Cores <- {0}, Vectors <- {0, 1}, Sources <- {1, 2},
    Handles <- {x1, x2, x3}, Liberties <- {"noMemory", "reserve"}, None <- None,
    desc <- v1, handle <- v2, table <- v3, route <- v4, mask <- v5,
    enabled <- v6, saved <- v7, asleep <- v8, freeing <- v9, isr <- v10

\* Three cores, nested up to three times; in internal and external RAM.
Lock == INSTANCE Spinlock WITH
    Cores <- {0, 1, 2}, Free <- None, MaxCount <- 4,
    owner <- v1, count <- v2, pc <- v3, held <- v4, spiram <- v5, cas <- v6

\* Two senders, two cores, two reasons.
Cross == INSTANCE CrosscoreInt WITH
    Cores <- {0, 1}, Senders <- {x1, x2}, Reasons <- {1, 2}, NoCore <- None,
    reason <- v1, poked <- v2, sender <- v3, isr <- v4, asked <- v5

\* A function, and stalls nested twice, from both cores.
Ipc == INSTANCE IpcIsr WITH
    Functions <- {x1}, MaxNest <- 2, Liberties <- {}, None <- None,
    mux <- v1, startFl <- v2, endFl <- v3, func <- v4, finish <- v5,
    running <- v6, count <- v7, raised <- v8, handler <- v9, call <- v10,
    open <- v11, todo <- v12

\* One tag more than the cache has entries.
Log == INSTANCE LogCache WITH
    Tags <- {x1, x2, x3, t1}, TextOf <- [g \in {x1, x2, x3, t1} |-> g],
    Levels <- {1, 2}, Size <- 3, Generations <- 8, MaxGeneration <- 7,
    default <- v1, list <- v2, cache <- v3, newest <- v4

\* A ring of three descriptors, which comes round more than once.
Sdio == INSTANCE SdioSend WITH
    QueueSize <- 2, Buffers <- {x1, x2}, Lengths <- {1}, MaxTotal <- 4,
    Liberties <- {}, None <- None,
    mode <- v1, link <- v2, desc <- v3, write <- v4, read <- v5, free <- v6,
    state <- v7, head <- v8, end <- v9, after <- v10, returned <- v11,
    tail <- v12, pktLen <- v13, dma <- v14, invoked <- v15, isr <- v16,
    out <- v17, space <- v18

\* Three users, two frequencies.
Clocks == INSTANCE SharedClocks WITH
    Users <- {x1, x2, x3}, Freqs <- {1, 2}, None <- None,
    ref <- v1, cur <- v2, on <- v3, coeff <- v4, holders <- v5,
    setting <- v6, told <- v7

\* Both cores, well or hung, over six periods.
Watch == INSTANCE IntWdt WITH
    MaxPeriods <- 6,
    ticked <- v1, unfed <- v2, hook <- v3, due <- v4, well <- v5, hung <- v6

\* Two pairs in one group, and one exclusive peripheral.
Gdma == INSTANCE Gdma WITH
    Tasks <- {t1, t2}, Channels <- {x1, x2}, GroupCount <- 1,
    PairsPerGroup <- 2, PeriphIds <- {0}, CallerLiberties <- {},
    MaxGroupRefs <- 2, None <- None,
    groupUp <- v1, groupRef <- v2, inUse <- v3, pairUp <- v4, pairRef <- v5,
    occupy <- v6, slot <- v7, events <- v8, handlers <- v9, chan <- v10,
    call <- v11

\* Callers that ignore the backlog, from tasks and from callbacks.
Copy == INSTANCE AsyncMemcpy WITH
    Backlog <- 2, Requests <- {x1, x2, x3}, MaxSize <- 2, Cores <- 2,
    Liberties <- {"overcommit", "chain", "lateEof"}, None <- None,
    up <- v1, rx <- v2, tx <- v3, rxNext <- v4, txNext <- v5, check <- v6,
    dma <- v7, intr <- v8, isr <- v9, waiting <- v10, streams <- v11

\* As many transfers as descriptors, one fewer of which is in use at a time.
Spi == INSTANCE SpiAppend WITH
    Count <- 3, Transfers <- {x1, x2, x3}, Liberties <- {}, None <- None,
    next <- v1, arg <- v2, cur <- v3, tail <- v4, head <- v5, started <- v6,
    unrecycled <- v7, append <- v8, at <- v9, busy <- v10, eof <- v11,
    out <- v12

\* Three buffers, loaded, flushed and recounted over stops and starts.
Recv == INSTANCE SdioRecv WITH
    Buffers <- {x1, x2, x3}, Liberties <- {}, None <- None,
    list <- v1, owner <- v2, cur <- v3, running <- v4, enabled <- v5,
    raised <- v6, isr <- v7, at <- v8, busy <- v9, credit <- v10, ready <- v11

\* Three modules, one of which has nodes at two priorities and twice at one;
\* allocations fail.
Sleep == INSTANCE Retention WITH
    Entries <- 0 .. 3, Lowest <- 2, Calls <- 1 .. 6,
    ModuleOf <- <<1, 2, 3, 1, 1, 2>>, PriorityOf <- <<0, 0, 1, 2, 0, 1>>,
    Table <- <<<<{0, 2}, {0, 1}>>, <<{0, 1}, {2}, {0, 1, 2}>>, <<{0, 1}, {1, 3}>>,
               <<{0}>>, <<{1}>>, <<{0, 1}, {2}, {1}>>>>,
    Liberties <- {"noMemory"}, None <- None,
    node <- v1, list <- v2, highpri <- v3, modules <- v4, addr <- v5,
    op <- v6, created <- v7

\* A single table, any of up to three nodes over three entries.
Owners == SUBSET (0 .. 2) \ {{}}
Tables == UNION {[1 .. n -> Owners] : n \in 1 .. 3}

Links == INSTANCE Retention WITH
    Entries <- 0 .. 2, Lowest <- 1, Calls <- Tables,
    ModuleOf <- [t \in Tables |-> 1], PriorityOf <- [t \in Tables |-> 0],
    Table <- [t \in Tables |-> t], Liberties <- {"crossed"}, None <- None,
    node <- v1, list <- v2, highpri <- v3, modules <- v4, addr <- v5,
    op <- v6, created <- v7
LinksNext == v4 = {} /\ \E t \in Tables : Links!Create(t)

\* Two handlers of one bit, and one of another.
Rtc == INSTANCE RtcIsr WITH
    Handlers <- 1 .. 3, Bits <- {1, 2}, Mask <- <<{1}, {1}, {2}>>,
    Liberties <- {}, None <- None,
    list <- v1, iram <- v2, cache <- v3, ena <- v4, raw <- v5, saved <- v6,
    asleep <- v7, it <- v8, status <- v9, due <- v10

\* A ring of three descriptors for frames of one and two segments.
EmacIn == INSTANCE EmacRecv WITH
    Count <- 3, MaxSegs <- 2, Liberties <- {},
    own <- v1, first <- v2, last <- v3, body <- v4, of <- v5, dma <- v6,
    segs <- v7, awake <- v8, frame <- v9, rx <- v10, call <- v11, wanted <- v12,
    remain <- v13, since <- v14

\* Frames that fill the ring, or part of it.
EmacOut == INSTANCE EmacSend WITH
    Count <- 3, Liberties <- {},
    own <- v1, first <- v2, last <- v3, of <- v4, tx <- v5, left <- v6,
    poll <- v7, frame <- v8, dma <- v9, within <- v10, awake <- v11, sends <- v12

\* Each module enabled up to twice.
Modem == INSTANCE ModemClock WITH
    MaxUses <- 2, Liberties <- {}, refs <- v1, on <- v2, uses <- v3

\* More channels than there is room for in two groups, which may lack memory.
Etm == INSTANCE EtmChannels WITH
    Tasks <- {t1, t2}, Handles <- {x1, x2, x3}, GroupCount <- 2,
    ChansPerGroup <- 1, Events <- {1}, Liberties <- {"noMemory"}, None <- None,
    up <- v1, ref <- v2, slot <- v3, reg <- v4, ena <- v5, chan <- v6,
    call <- v7

ASSUME ServicesAssumption ==
    /\ Efuse!EfuseAssumption
    /\ Pair!IntrAssumption
    /\ Three!IntrAssumption
    /\ Lock!SpinlockAssumption
    /\ Cross!CrosscoreAssumption
    /\ Ipc!IpcAssumption
    /\ Log!LogAssumption
    /\ Sdio!SendAssumption
    /\ Clocks!ClocksAssumption
    /\ Copy!MemcpyAssumption
    /\ Spi!SpiAssumption
    /\ Recv!RecvAssumption
    /\ Sleep!RetentionAssumption
    /\ Links!RetentionAssumption
    /\ Rtc!RtcAssumption
    /\ EmacIn!EmacRecvAssumption
    /\ EmacOut!EmacSendAssumption
    /\ Modem!ModemAssumption
    /\ Etm!EtmAssumption

Init ==
    \/ part = "efuse" /\ Efuse!Init /\ Unused8
    \/ part = "pair" /\ Pair!Init /\ Unused11
    \/ part = "three" /\ Three!Init /\ Unused11
    \/ part = "lock" /\ Lock!Init /\ Unused7
    \/ part = "cross" /\ Cross!Init /\ Unused6
    \/ part = "ipcisr" /\ Ipc!Init /\ Unused13
    \/ part = "log" /\ Log!Init /\ Unused5
    \/ part = "sdio" /\ Sdio!Init
    \/ part = "clocks" /\ Clocks!Init /\ Unused8
    \/ part = "watch" /\ Watch!Init /\ Unused7
    \/ part = "gdma" /\ Gdma!Init /\ Unused12
    \/ part = "copy" /\ Copy!Init /\ Unused12
    \/ part = "spi" /\ Spi!Init /\ Unused13
    \/ part = "recv" /\ Recv!Init /\ Unused12
    \/ part = "sleep" /\ Sleep!Init /\ Unused8
    \/ part = "links" /\ Links!Init /\ Unused8
    \/ part = "rtc" /\ Rtc!Init /\ Unused11
    \/ part = "emacIn" /\ EmacIn!Init /\ Unused15
    \/ part = "emacOut" /\ EmacOut!Init /\ Unused13
    \/ part = "modem" /\ Modem!Init /\ Unused4
    \/ part = "etm" /\ Etm!Init /\ Unused8

Next ==
    /\ UNCHANGED part
    /\ \/ part = "efuse" /\ Efuse!Next /\ Kept8
       \/ part = "pair" /\ Pair!Next /\ Kept11
       \/ part = "three" /\ Three!Next /\ Kept11
       \/ part = "lock" /\ Lock!Next /\ Kept7
       \/ part = "cross" /\ Cross!Next /\ Kept6
       \/ part = "ipcisr" /\ Ipc!Next /\ Kept13
       \/ part = "log" /\ Log!Next /\ Kept5
       \/ part = "sdio" /\ Sdio!Next
       \/ part = "clocks" /\ Clocks!Next /\ Kept8
       \/ part = "watch" /\ Watch!Next /\ Kept7
       \/ part = "gdma" /\ Gdma!Next /\ Kept12
       \/ part = "copy" /\ Copy!Next /\ Kept12
       \/ part = "spi" /\ Spi!Next /\ Kept13
       \/ part = "recv" /\ Recv!Next /\ Kept12
       \/ part = "sleep" /\ Sleep!Next /\ Kept8
       \/ part = "links" /\ LinksNext /\ Kept8
       \/ part = "rtc" /\ Rtc!Next /\ Kept11
       \/ part = "emacIn" /\ EmacIn!Next /\ Kept15
       \/ part = "emacOut" /\ EmacOut!Next /\ Kept13
       \/ part = "modem" /\ Modem!Next /\ Kept4
       \/ part = "etm" /\ Etm!Next /\ Kept8

Spec == Init /\ [][Next]_vars

Symmetry == Permutations({x1, x2, x3})

-----------------------------------------------------------------------------
\* Types of the components' state; those of Retention are with the rest of it,
\* in ChainsKept.
TypesOK ==
    /\ part = "efuse"  => Efuse!TypeOK
    /\ part = "pair"   => Pair!TypeOK
    /\ part = "three"  => Three!TypeOK
    /\ part = "lock"   => Lock!TypeOK
    /\ part = "cross"  => Cross!TypeOK
    /\ part = "ipcisr" => Ipc!TypeOK
    /\ part = "log"    => Log!TypeOK
    /\ part = "sdio"   => Sdio!TypeOK
    /\ part = "clocks" => Clocks!TypeOK
    /\ part = "watch"  => Watch!TypeOK
    /\ part = "gdma"   => Gdma!TypeOK
    /\ part = "copy"   => Copy!TypeOK
    /\ part = "spi"    => Spi!TypeOK
    /\ part = "recv"   => Recv!TypeOK
    /\ part = "rtc"    => Rtc!TypeOK
    /\ part = "emacIn" => EmacIn!TypeOK
    /\ part = "emacOut" => EmacOut!TypeOK
    /\ part = "modem"  => Modem!TypeOK
    /\ part = "etm"    => Etm!TypeOK

\* EfuseBatch: accepted reads are snapshots although readers take no lock.
AtomicReads == part = "efuse" => Efuse!AtomicReads

\* EfuseBatch: a write burns what it was asked for, or nothing when refused, and
\* outside of a batch nothing is left to burn, nor the lock taken.
Outcome == part = "efuse" => Efuse!Outcome /\ Efuse!Quiescent

\* EfuseBatch: no protection bit is burnt after another block's bits failed.
ProtectionLast == part = "efuse" => Efuse!ProtectionLast

\* Retention: every register is saved and restored that is to be, in order,
\* whatever modules come and go, if no table is crossed; no node is leaked or
\* freed too early; the assertions of the removal hold; and crossed tables are
\* the only ones that the creation links wrong, all of them.
ChainsKept ==
    /\ part = "sleep" => /\ Sleep!TypeOK /\ Sleep!ChainsComplete
                         /\ Sleep!NoLeak /\ Sleep!RetentionAsserts
    /\ part = "links" => Links!TypeOK /\ Links!CrossedFail

\* IntrAlloc: a core's handler table holds exactly what was allocated there,
\* and the shared routine never starts from an entry that was freed; RtcIsr:
\* that of the RTC calls each handler that stays registered, and none that was
\* freed; and Gdma: an interrupt handler does not outlive its channel.
HandlersMatch ==
    /\ part = "pair" => Pair!HandlersMatch /\ Pair!NoFreedHandler
    /\ part = "three" => Three!HandlersMatch /\ Three!NoFreedHandler
    /\ part = "rtc" => Rtc!WalkComplete
    /\ part = "gdma" => Gdma!NoStaleHandler

\* IntrAlloc: a source is routed to its handlers while one is enabled.
Routing ==
    /\ part = "pair" => Pair!Routing
    /\ part = "three" => Three!Routing

\* IntrAlloc and RtcIsr: without the flash cache only handlers in IRAM are called.
CacheOffSafe ==
    /\ part = "pair" => Pair!CacheOffSafe
    /\ part = "three" => Three!CacheOffSafe
    /\ part = "rtc" => Rtc!CacheOffSafe

\* Spinlock: two cores never hold the lock; and Gdma: no peripheral is connected
\* to two channels of one direction.
Exclusive ==
    /\ part = "lock" => Lock!Exclusive
    /\ part = "gdma" => Gdma!ExclusivePeripherals

\* The assertions in the code: of both functions of the Spinlock; of LogCache,
\* that a parent is older than its children; of the ring of SdioSend; and the
\* pointers SpiAppend follows unchecked.
AssertsHold ==
    /\ part = "lock" => Lock!LockAsserts
    /\ part = "log" => Log!HeapOrder
    /\ part = "sdio" => Sdio!RingAsserts
    /\ part = "spi" => Spi!HeadAsserts

\* CrosscoreInt: a request that is not served is still going to be.
NoReasonLost == part = "cross" => Cross!NoReasonLost

\* IpcIsr: the other core executes each call once and, from a stall to its
\* release, nothing else; after its releases a core holds no mutex.
StallHolds ==
    part = "ipcisr" => Ipc!StallHolds /\ Ipc!ExecutedOnce /\ Ipc!Released

\* LogCache: the cache changes no answer.
CacheAgrees == part = "log" => Log!CacheAgrees

\* SdioSend: the ring implements the queue of SendQueue; and SpiAppend: the chain
\* implements the queue of CopyQueue.
Promised ==
    /\ part = "sdio" => Sdio!AQ!Init
    /\ part = "spi" => Spi!AQ!Init
    /\ [][/\ part = "sdio" => Sdio!AQ!Next \/ UNCHANGED Sdio!AQ!vars
          /\ part = "spi" => Spi!AQ!Next \/ UNCHANGED Spi!AQ!vars]_vars

\* SdioSend, SpiAppend, SdioRecv, EmacRecv and EmacSend: nothing waits for
\* nobody, and what is sent or received goes on in order and whole.
NothingForgotten ==
    /\ part = "sdio" => Sdio!NothingForgotten
    /\ part = "spi" => Spi!NothingForgotten
    /\ part = "recv" => Recv!NothingForgotten /\ Recv!ReturnedInOrder
    /\ part = "emacIn" => EmacIn!InStep /\ EmacIn!RingExact
    /\ part = "emacOut" => EmacOut!InStep /\ EmacOut!NothingForgotten

\* SdioSend and SdioRecv: what the host has been told adds up to what there is;
\* EmacRecv: so does what the caller was answered; EtmChannels: a group counts
\* those that refer to it.
CounterExact ==
    /\ part = "sdio" => Sdio!CounterExact
    /\ part = "recv" => Recv!CounterExact
    /\ part = "emacIn" => EmacIn!FramesCounted
    /\ part = "etm" => Etm!GroupsCounted

\* What one of several users was given stays its own: SharedClocks, the frequency
\* it was told; ModemClock, the clocks of its devices; EtmChannels, its channel.
UsersKept ==
    /\ part = "clocks" => Clocks!FrequencyKept
    /\ part = "modem" => Modem!ClocksMatch
    /\ part = "etm" => Etm!ChannelsKept

\* IntWdt: a hung core shows in a watchdog that is not fed, and only that.
HangsShow == part = "watch" => Watch!HangsShow

\* AsyncMemcpy: the two rings move in step.
SamePace == part = "copy" => Copy!SamePace
=============================================================================
