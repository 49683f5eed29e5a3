------------------------------ MODULE EmacSend ------------------------------
(***************************************************************************)
(* The sending part of the Ethernet HAL (components/hal/emac_hal.c): a     *)
(* frame is copied to as many descriptors of a ring as it has segments,    *)
(* which are then given to the DMA one by one, first to last, while the    *)
(* DMA is sending.                                                         *)
(***************************************************************************)
EXTENDS Integers, FiniteSets

CONSTANTS
    Count,     \* CONFIG_ETH_DMA_TX_BUFFER_NUM
    Liberties  \* "long": frames of several buffers may be longer than the ring

EmacSendAssumption == Count \in Nat \ {0}

Slots   == 0 .. Count - 1
Numbers == 0 .. Count + 1   \* of frames, as many as tell them apart
Succ(i) == (i + 1) % Count
After(f) == (f + 1) % (Count + 2)

VARIABLES
    own,    \* of each descriptor: the DMA
    first,  \* FirstSegment
    last,   \* LastSegment
    of,     \* history: the frame in the descriptor
    tx,     \* tx_desc
    left,   \* descriptors the call has still to give to the DMA
    poll,   \* and then it makes the DMA look again
    frame,  \* history: the next frame to be accepted
    dma,    \* the descriptor the DMA is on
    within, \* it is between two segments of a frame
    awake,  \* it is not suspended
    sends   \* history: the frame it is to send, or is sending

vars == <<own, first, last, of, tx, left, poll, frame, dma, within, awake, sends>>

\* emac_hal_reset_desc_chain, and emac_hal_start.
Init ==
    /\ own = [i \in Slots |-> FALSE]
    /\ first = [i \in Slots |-> FALSE] /\ last = [i \in Slots |-> FALSE]
    /\ of = [i \in Slots |-> 0]
    /\ tx = 0
    /\ left = 0 /\ poll = FALSE
    /\ frame = 0
    /\ dma = 0 /\ within = FALSE /\ awake = TRUE
    /\ sends = 0

-----------------------------------------------------------------------------
\* How far behind tx_desc a descriptor is, and how many there in a row are the
\* CPU's.
Behind(i) == (i - tx) % Count
Usable == Cardinality({n \in Slots : \A m \in 0 .. n : ~own[(tx + m) % Count]})

\* The first n descriptors are written, for a frame of so many segments.
Write(n, segs) ==
    /\ first' = [i \in Slots |-> IF Behind(i) < n THEN Behind(i) = 0 ELSE first[i]]
    /\ last' = [i \in Slots |->
                   IF Behind(i) < n THEN Behind(i) = segs - 1 ELSE last[i]]
    /\ of' = [i \in Slots |-> IF Behind(i) < n THEN frame ELSE of[i]]

\* Mutant: the first descriptor is checked, the others are not.
FitsFirst(segs) == Usable > 0

\* Every descriptor it takes must be the CPU's.
Fits(segs) == segs <= Usable

\* emac_hal_transmit_frame, and emac_hal_transmit_multiple_buf_frame, which
\* takes a frame that is longer than the ring as well, and truncates it.
TransmitFrame(segs, several) ==
    /\ left = 0 /\ ~poll
    /\ segs > Count => several /\ "long" \in Liberties
    /\ LET taken == IF segs > Count THEN Count ELSE segs
       IN  /\ Fits(taken)
           /\ Write(taken, segs)
           /\ left' = taken
    /\ poll' = TRUE
    /\ frame' = After(frame)
    /\ UNCHANGED <<own, tx, dma, within, awake, sends>>

\* A frame that does not fit is refused when it comes to the first descriptor
\* that is the DMA's; those before it have been written.
Refuse(segs) ==
    /\ left = 0 /\ ~poll
    /\ ~Fits(segs)
    /\ Write(Usable, segs)
    /\ UNCHANGED <<own, tx, left, poll, frame, dma, within, awake, sends>>

Give ==
    /\ left > 0
    /\ own' = [own EXCEPT ![tx] = TRUE]
    /\ tx' = Succ(tx)
    /\ left' = left - 1
    /\ UNCHANGED <<first, last, of, poll, frame, dma, within, awake, sends>>

\* Mutant: the DMA is not told.
StaysSuspended == awake

\* emac_ll_transmit_poll_demand.
Wakes == TRUE

Poll ==
    /\ left = 0 /\ poll
    /\ poll' = FALSE
    /\ awake' = Wakes
    /\ UNCHANGED <<own, first, last, of, tx, left, frame, dma, within, sends>>

\* emac_hal_stop, which is repeated until no frame is under way, then
\* emac_hal_reset_desc_chain and emac_hal_start.
Restart ==
    /\ left = 0 /\ ~poll
    /\ ~within
    /\ own' = [i \in Slots |-> FALSE]
    /\ tx' = 0 /\ dma' = 0
    /\ awake' = TRUE
    /\ sends' = frame
    /\ UNCHANGED <<first, last, of, left, poll, frame, within>>

\* External: the DMA sends a descriptor and gives it back.
Send ==
    /\ awake /\ own[dma]
    /\ own' = [own EXCEPT ![dma] = FALSE]
    /\ dma' = Succ(dma)
    /\ within' = ~last[dma]
    /\ sends' = IF last[dma] THEN After(sends) ELSE sends
    /\ UNCHANGED <<first, last, of, tx, left, poll, frame, awake>>

\* External: it suspends where a descriptor is not its own.
Suspend ==
    /\ awake /\ ~own[dma]
    /\ awake' = FALSE
    /\ UNCHANGED <<own, first, last, of, tx, left, poll, frame, dma, within, sends>>

Next ==
    \/ \E segs \in 1 .. Count + 1, several \in BOOLEAN : TransmitFrame(segs, several)
    \/ \E segs \in 1 .. Count : Refuse(segs)
    \/ Give \/ Poll \/ Restart \/ Send \/ Suspend

Spec == Init /\ [][Next]_vars

-----------------------------------------------------------------------------
\* Types of the ring and of the call.
TypeOK ==
    /\ {own, first, last} \subseteq [Slots -> BOOLEAN]
    /\ of \in [Slots -> Numbers]
    /\ {tx, dma} \subseteq Slots
    /\ left \in 0 .. Count
    /\ {poll, within, awake} \subseteq BOOLEAN
    /\ {frame, sends} \subseteq Numbers

\* What the DMA comes to is the next segment of the frames that were accepted, in
\* their order and from the first segment to the last.
InStep == own[dma] => of[dma] = sends /\ first[dma] = ~within

\* It is left without the rest of a frame (an underflow) only while a call is
\* still giving it, and never stays suspended before what it has been given.
NothingForgotten ==
    /\ within => own[dma] \/ left > 0
    /\ own[dma] => awake \/ poll
==============================================================================
