------------------------------ MODULE EmacRecv ------------------------------
(***************************************************************************)
(* The receiving part of the Ethernet HAL (components/hal/emac_hal.c): a   *)
(* ring of descriptors the DMA fills with frames, of one or more segments  *)
(* each, and one task that copies or drops the oldest frame and gives its  *)
(* descriptors back one by one, while the DMA goes on.                     *)
(***************************************************************************)
EXTENDS Integers, FiniteSetsExt

CONSTANTS
    Count,     \* CONFIG_ETH_DMA_RX_BUFFER_NUM
    MaxSegs,   \* the segments of the longest frame
    Liberties  \* "refill": the DMA fills the descriptor that receive_frame has
               \* just given back, before it has looked for the last segment

EmacRecvAssumption == Count \in Nat \ {0, 1} /\ MaxSegs \in Nat \ {0}

Slots   == 0 .. Count - 1
Numbers == 0 .. Count + 1   \* of frames, as many as tell them apart
Succ(i) == (i + 1) % Count
After(f) == (f + 1) % (Count + 2)

VARIABLES
    own,    \* of each descriptor: the DMA
    first,  \* FirstDescriptor
    last,   \* LastDescriptor
    body,   \* FrameLength without the CRC, in segments
    of,     \* history: the frame in the descriptor
    dma,    \* the descriptor the DMA is on
    segs,   \* the segments of its frame it has filled
    awake,  \* it is not suspended
    frame,  \* the frame it is to receive, or is receiving
    rx,     \* rx_desc
    call,   \* where the call is: pc, the descriptor, segments left to copy
    wanted, \* history: the frame to be returned
    remain, \* frames_remain, as the last call counted
    since   \* history: frames that have come since

vars == <<own, first, last, body, of, dma, segs, awake, frame, rx, call, wanted,
          remain, since>>

Idle == [pc |-> "out", iter |-> 0, left |-> 0]

\* emac_hal_reset_desc_chain, and emac_hal_start.
Init ==
    /\ own = [i \in Slots |-> TRUE]
    /\ first = [i \in Slots |-> FALSE] /\ last = [i \in Slots |-> FALSE]
    /\ body = [i \in Slots |-> 0]
    /\ of = [i \in Slots |-> 0]
    /\ dma = 0 /\ segs = 0 /\ awake = TRUE /\ frame = 0
    /\ rx = 0
    /\ call = Idle
    /\ wanted = 0 /\ remain = 0 /\ since = 0

-----------------------------------------------------------------------------
\* The n-th descriptor behind rx_desc; those in a row that are the CPU's, and
\* the ones among them that end a frame.
Nth(n) == (rx + n) % Count
Used == {n \in Slots : \A m \in 0 .. n : ~own[Nth(m)]}
Ends == {n \in Used : last[Nth(n)]}

\* Mutant: the frames are counted with the one that is taken.
CountedAll == Cardinality(Ends)

\* What both functions answer in frames_remain.
FramesRemain == Cardinality(Ends) - 1

\* The first segment of the oldest frame: that a buffer of emac_hal_alloc_recv_buf
\* takes for granted, and a flush and a receive_frame with a size look for.
FirstDesc(auto) ==
    LET firsts == {n \in 0 .. Min(Ends) : first[Nth(n)]}
    IN  IF auto \/ firsts = {} THEN rx ELSE Nth(Max(firsts))

\* emac_hal_receive_frame, into a buffer of so many segments; with a buffer that
\* emac_hal_alloc_recv_buf has allocated for at most as many.
ReceiveFrame(auto, size) ==
    /\ call.pc = "out"
    /\ Ends # {}
    /\ call' = [pc |-> "copy", iter |-> FirstDesc(auto),
                left |-> Min({size, body[Nth(Min(Ends))]})]
    /\ remain' = FramesRemain
    /\ since' = 0
    /\ UNCHANGED <<own, first, last, body, of, dma, segs, awake, frame, rx,
                   wanted>>

\* Mutant: the descriptor after the last one copied is the next frame's.
LastCopied == TRUE

\* The last segment may hold nothing that is copied.
LastFound == last[call.iter]

Copy ==
    /\ call.pc = "copy"
    /\ own' = [own EXCEPT ![call.iter] = TRUE]
    /\ call' = IF call.left > 1
               THEN [call EXCEPT !.iter = Succ(@), !.left = @ - 1]
               ELSE [call EXCEPT !.pc = "last"]
    /\ UNCHANGED <<first, last, body, of, dma, segs, awake, frame, rx, wanted,
                   remain, since>>

\* A frame is done with: emac_ll_receive_poll_demand.
Leave ==
    /\ rx' = Succ(call.iter)
    /\ awake' = TRUE
    /\ call' = Idle
    /\ wanted' = After(wanted)

ReleaseRest ==
    /\ call.pc = "last"
    /\ IF LastFound
       THEN Leave /\ UNCHANGED own
       ELSE /\ own' = [own EXCEPT ![Succ(call.iter)] = TRUE]
            /\ call' = [call EXCEPT !.iter = Succ(@)]
            /\ UNCHANGED <<rx, awake, wanted>>
    /\ UNCHANGED <<first, last, body, of, dma, segs, frame, remain, since>>

\* emac_hal_flush_recv_frame.
FlushFrame ==
    /\ call.pc = "out"
    /\ Ends # {}
    /\ call' = [pc |-> "flush", iter |-> FirstDesc(FALSE), left |-> 0]
    /\ remain' = FramesRemain
    /\ since' = 0
    /\ UNCHANGED <<own, first, last, body, of, dma, segs, awake, frame, rx,
                   wanted>>

Flush ==
    /\ call.pc = "flush"
    /\ own' = [own EXCEPT ![call.iter] = TRUE]
    /\ IF LastFound
       THEN Leave
       ELSE /\ call' = [call EXCEPT !.iter = Succ(@)]
            /\ UNCHANGED <<rx, awake, wanted>>
    /\ UNCHANGED <<first, last, body, of, dma, segs, frame, remain, since>>

\* emac_hal_stop, which is repeated until no frame is under way, then
\* emac_hal_reset_desc_chain and emac_hal_start.
Restart ==
    /\ call.pc = "out"
    /\ segs = 0
    /\ own' = [i \in Slots |-> TRUE]
    /\ dma' = 0 /\ rx' = 0
    /\ awake' = TRUE
    /\ wanted' = frame
    /\ remain' = 0 /\ since' = 0
    /\ UNCHANGED <<first, last, body, of, segs, frame, call>>

\* External: the DMA fills a descriptor; where the next one is not its own it
\* ends the frame, truncated.  The CRC may be all there is in the last segment.
Fill(ends, crc) ==
    /\ awake /\ own[dma]
    /\ call.pc = "last" /\ dma = call.iter => "refill" \in Liberties
    /\ ~own[Succ(dma)] \/ segs + 1 = MaxSegs => ends
    /\ crc => ends /\ segs > 0
    /\ own' = [own EXCEPT ![dma] = FALSE]
    /\ first' = [first EXCEPT ![dma] = segs = 0]
    /\ last' = [last EXCEPT ![dma] = ends]
    /\ body' = [body EXCEPT ![dma] = IF crc THEN segs
                                     ELSE IF ends THEN segs + 1 ELSE 0]
    /\ of' = [of EXCEPT ![dma] = frame]
    /\ dma' = Succ(dma)
    /\ IF ends THEN segs' = 0 /\ frame' = After(frame) /\ since' = since + 1
               ELSE segs' = segs + 1 /\ UNCHANGED <<frame, since>>
    /\ UNCHANGED <<awake, rx, call, wanted, remain>>

\* External: where the descriptor is not its own it suspends, and drops frames,
\* until it is asked to look again, or a frame comes.
Suspend ==
    /\ awake /\ ~own[dma]
    /\ awake' = FALSE
    /\ UNCHANGED <<own, first, last, body, of, dma, segs, frame, rx, call,
                   wanted, remain, since>>

Arrive ==
    /\ ~awake
    /\ awake' = TRUE
    /\ UNCHANGED <<own, first, last, body, of, dma, segs, frame, rx, call,
                   wanted, remain, since>>

Next ==
    \/ \E auto \in BOOLEAN, size \in 1 .. MaxSegs : ReceiveFrame(auto, size)
    \/ Copy \/ ReleaseRest \/ FlushFrame \/ Flush \/ Restart
    \/ \E ends, crc \in BOOLEAN : Fill(ends, crc)
    \/ Suspend \/ Arrive

Spec == Init /\ [][Next]_vars

-----------------------------------------------------------------------------
\* Types of the ring and of the call.
TypeOK ==
    /\ {own, first, last} \subseteq [Slots -> BOOLEAN]
    /\ body \in [Slots -> 0 .. MaxSegs]
    /\ of \in [Slots -> Numbers]
    /\ {dma, rx} \subseteq Slots
    /\ segs \in 0 .. MaxSegs - 1
    /\ awake \in BOOLEAN
    /\ {frame, wanted} \subseteq Numbers
    /\ call \in [pc : {"out", "copy", "last", "flush"}, iter : Slots,
                 left : 0 .. MaxSegs]
    /\ {remain, since} \subseteq 0 .. Count + 1

\* Frames are returned in the order they came in, each from its own descriptors
\* and no other's, whatever the length of the buffer.
InStep ==
    /\ call.pc = "out" /\ ~own[rx] => first[rx] /\ of[rx] = wanted
    /\ call.pc \in {"copy", "flush"} =>
          ~own[call.iter] /\ of[call.iter] = wanted

\* Outside of a call the descriptors that are not the DMA's are those from
\* rx_desc to its own: none is lost.
RingExact ==
    call.pc = "out" =>
        \E n \in 0 .. Count :
            /\ dma = (rx + n) % Count
            /\ \A m \in Slots : own[Nth(m)] <=> m >= n

\* What the last call has answered and what has come since, of which the
\* interrupt tells, are all the frames there are.
FramesCounted == call.pc = "out" => remain + since = Cardinality(Ends)
==============================================================================
