------------------------------- MODULE SdioSend -------------------------------
(***************************************************************************)
(* The sending part of the SDIO slave HAL (components/hal/sdio_slave_hal.c): *)
(* a ring of DMA descriptors, of which a part in flight is cut out for the  *)
(* hardware, and the calls of an application and of its interrupt service   *)
(* routine on it.  The HAL is not thread-safe: its calls are steps, made    *)
(* under the caller's lock and in the order sdio_slave_hal.h lays down.     *)
(***************************************************************************)
EXTENDS Integers, SequencesExt

CONSTANTS
    QueueSize,  \* send_queue_size
    Buffers,    \* what is queued, and comes back as the argument
    Lengths,    \* of buffers
    MaxTotal,   \* bound: bytes queued since the counter was reset
    Liberties,  \* "restart": sending is started with a packet in flight;
                \* "recount": the counter is reset with packets queued
    None        \* NULL

SendAssumption ==
    /\ QueueSize \in Nat /\ Lengths \subseteq Nat /\ MaxTotal \in Nat
    /\ None \notin 0 .. QueueSize /\ None \notin Buffers

Slots   == 0 .. QueueSize
Succ(i) == (i + 1) % (QueueSize + 1)

VARIABLES
    mode,      \* sending_mode
    link,      \* the next descriptor of each
    desc,      \* what is in each descriptor, see Desc
    write,     \* write_ptr, read_ptr and free_ptr of send_desc_queue, each at
    read,      \* the last descriptor that was written, taken for sending or
    free,      \* given back
    state,     \* send_state
    head,      \* in_flight_head
    end,       \* in_flight_end
    after,     \* in_flight_next
    returned,  \* returned_desc
    tail,      \* tail_pkt_len
    pktLen,    \* the length register the host reads
    dma,       \* the sending DMA
    invoked,   \* the interrupt by which the application invokes the handler
    isr,       \* where the interrupt service routine is
    out,       \* the argument a call has given back last
    space      \* history: the caller's count of what it may still queue

vars == <<mode, link, desc, write, read, free, state, head, end, after,
          returned, tail, pktLen, dma, invoked, isr, out, space>>

Desc == [arg : Buffers \cup {None}, len : Nat, pkt : Nat]

\* init_send_queue links the descriptors to a ring, and leaves it empty.
Init ==
    /\ mode \in {"packet", "stream"}
    /\ link = [i \in Slots |-> Succ(i)]
    /\ desc = [i \in Slots |-> [arg |-> None, len |-> 0, pkt |-> 0]]
    /\ write = 0 /\ read = 0 /\ free = 0
    /\ state = "idle"
    /\ head = None /\ end = None /\ after = None /\ returned = None
    /\ tail = 0
    /\ pktLen = 0
    /\ dma = "off"
    /\ invoked = FALSE
    /\ isr = "off"
    /\ out = None
    /\ space = QueueSize

\* The descriptors from i along the links, up to the first without one or, in
\* a closed ring, all of them.
Walk(i) ==
    LET Nth[n \in Slots] == IF n = 0 THEN i
                            ELSE IF Nth[n - 1] = None THEN None
                            ELSE link[Nth[n - 1]]
        steps == Cardinality({n \in Slots : Nth[n] # None})
    IN  [n \in 1 .. steps |-> Nth[n - 1]]
Closed(walk) == walk # <<>> /\ link[Last(walk)] # None

\* What is in flight and has not been given back, and what waits behind it.
Flying == IF state = "result" THEN IF returned = None THEN <<>> ELSE Walk(returned)
          ELSE IF head = None THEN <<>> ELSE Walk(head)
Behind == [n \in 1 .. (write + QueueSize + 1 - read) % (QueueSize + 1) |->
              (read + n) % (QueueSize + 1)]

\* The lengths of descriptors, added up to each of them.
Totals(slots) ==
    LET Sum[n \in 0 .. Len(slots)] ==
            IF n = 0 THEN 0 ELSE Sum[n - 1] + desc[slots[n]].len
    IN  Sum
Total(slots) == Totals(slots)[Len(slots)]

\* sdio_ringbuf_return.
Distance == (read + QueueSize + 1 - free) % (QueueSize + 1)

-----------------------------------------------------------------------------
\* sdio_slave_hal_send_queue, of a caller that counts.
Queue(b) ==
    /\ space > 0
    /\ \A i \in Range(Flying \o Behind) : desc[i].arg # b
    /\ \E len \in Lengths :
          LET i == Succ(write)
          IN  /\ tail + len <= MaxTotal
              /\ tail' = tail + len
              /\ desc' = [desc EXCEPT ![i] = [arg |-> b, len |-> len,
                                              pkt |-> tail + len]]
              /\ write' = i
    /\ invoked' = TRUE
    /\ space' = space - 1
    /\ UNCHANGED <<mode, link, read, free, state, head, end, after, returned,
                   pktLen, dma, isr, out>>

\* sdio_slave_hal_send_start.
Start ==
    /\ isr = "off"
    /\ state = "idle"
    /\ head = None \/ "restart" \in Liberties
    /\ state' = "wait"
    /\ dma' = "off"
    /\ UNCHANGED <<mode, link, desc, write, read, free, head, end, after,
                   returned, tail, pktLen, invoked, isr, out, space>>

\* sdio_slave_hal_send_stop, between two runs of the handler.
Stop ==
    /\ isr = "off"
    /\ state \in {"wait", "sending"}
    /\ state' = "idle"
    /\ dma' = IF dma = "sending" THEN "off" ELSE dma
    /\ UNCHANGED <<mode, link, desc, write, read, free, head, end, after,
                   returned, tail, pktLen, invoked, isr, out, space>>

\* sdio_slave_hal_send_reset_counter: it follows the links of what is in
\* flight and then those from the front of the queue.  Where it meets no end
\* it does not return.
ResetCounter ==
    LET front  == IF read = write THEN <<>> ELSE Walk(Succ(read))
        walked == (IF head = None THEN <<>> ELSE Walk(head)) \o front
        LastAt(i) == CHOOSE n \in 1 .. Len(walked) :
                        walked[n] = i /\ i \notin Range(SubSeq(walked, n + 1,
                                                             Len(walked)))
    IN  /\ isr = "off"
        /\ state = "idle"
        /\ read = write \/ "recount" \in Liberties
        /\ pktLen' = 0
        /\ IF Closed(front)
           THEN state' = "endless" /\ UNCHANGED <<tail, desc>>
           ELSE /\ tail' = Total(walked)
                /\ desc' = [i \in Slots |->
                      IF i \notin Range(walked) THEN desc[i]
                      ELSE [desc[i] EXCEPT !.pkt = Totals(walked)[LastAt(i)]]]
                /\ UNCHANGED state
        /\ UNCHANGED <<mode, link, write, read, free, head, end, after,
                       returned, dma, invoked, isr, out, space>>

-----------------------------------------------------------------------------
\* The hardware has sent what is in flight, and raises an end of frame.
DmaSent ==
    /\ dma = "sending"
    /\ dma' = "eof"
    /\ UNCHANGED <<mode, link, desc, write, read, free, state, head, end,
                   after, returned, tail, pktLen, invoked, isr, out, space>>

\* The interrupt service routine: sdio_slave_hal_send_handle_isr_invoke and
\* sdio_slave_hal_send_eof_happened.
IsrEnter ==
    /\ isr = "off"
    /\ state \in {"wait", "sending"}
    /\ invoked \/ dma = "eof"
    /\ invoked' = FALSE
    /\ dma' = IF dma = "eof" THEN "off" ELSE dma
    /\ isr' = IF dma = "eof" THEN "results" ELSE "packet"
    /\ UNCHANGED <<mode, link, desc, write, read, free, state, head, end,
                   after, returned, tail, pktLen, out, space>>

\* send_get_inflight_desc: the descriptor in flight to be given back next ...
NextInflight(init) == IF init THEN head ELSE returned

GiveBack(next) ==
    /\ returned' = link[next]
    /\ out' = desc[next].arg
    /\ state' = "result"
    /\ UNCHANGED <<link, free, head, end, space>>

\* ... and, when there is none, the ring closed again, the space it counts as
\* given back, and the end of that.
Mended   == IF head = None THEN link ELSE [link EXCEPT ![end] = after]
Returned == IF head = None THEN 0 ELSE Distance
Freed    == IF head = None THEN free ELSE read

\* Mutant: after an end of frame no new packet is looked for.
AfterResultsOff == "off"

\* What the handler does when there are no more results.
AfterResults == "packet"

\* sdio_slave_hal_send_get_next_finished_arg, until there are no more.
IsrResult ==
    LET next == NextInflight(state = "sending")
    IN  /\ isr = "results"
        /\ IF next # None THEN GiveBack(next) /\ UNCHANGED isr
           ELSE /\ link' = Mended
                /\ free' = Freed
                /\ space' = space + Returned
                /\ head' = None
                /\ end' = None
                /\ state' = "wait"
                /\ isr' = AfterResults
                /\ UNCHANGED <<returned, out>>
        /\ UNCHANGED <<mode, desc, write, read, after, tail, pktLen, dma,
                       invoked>>

\* Mutant: in stream mode one descriptor is cut out, and more are taken.
CutOne == Succ(read)

\* send_check_new_packet: the last of the descriptors to be sent.
Cut == IF mode = "packet" THEN Succ(read) ELSE write

\* sdio_slave_hal_send_new_packet_if_exist.
IsrPacket ==
    /\ isr = "packet"
    /\ isr' = "off"
    /\ IF state = "wait" /\ (head # None \/ read # write)
       THEN /\ state' = "sending"
            /\ dma' = "sending"
            /\ IF head = None
               THEN /\ head' = Succ(read)
                    /\ end' = Cut
                    /\ after' = link[Cut]
                    /\ link' = [link EXCEPT ![Cut] = None]
                    /\ read' = IF mode = "packet" THEN Succ(read) ELSE write
                    /\ pktLen' = desc[Cut].pkt
               ELSE /\ pktLen' = desc[end].pkt
                    /\ UNCHANGED <<head, end, after, link, read>>
       ELSE UNCHANGED <<state, dma, head, end, after, link, read, pktLen>>
    /\ UNCHANGED <<mode, desc, write, free, returned, tail, invoked, out,
                   space>>

-----------------------------------------------------------------------------
\* sdio_slave_hal_send_flush_next_buffer, a descriptor in flight.
FlushInflight ==
    LET next == NextInflight(state = "idle")
    IN  /\ isr = "off"
        /\ state \in {"idle", "result"}
        /\ next # None
        /\ GiveBack(next)
        /\ UNCHANGED <<mode, desc, write, read, after, tail, pktLen, dma,
                       invoked, isr>>

\* The same when there is none left: a descriptor that was not sent
\* (send_get_unsent_desc), which counts as the only one given back, or the end.
FlushUnsent ==
    /\ isr = "off"
    /\ \/ state \in {"idle", "result"} /\ NextInflight(state = "idle") = None
       \/ state = "unsent"
    /\ link' = Mended
    /\ head' = None
    /\ end' = None
    /\ IF read # write
       THEN /\ read' = Succ(read)
            /\ free' = Succ(read)
            /\ space' = space + 1
            /\ out' = desc[Succ(read)].arg
            /\ state' = "unsent"
            /\ UNCHANGED tail
       ELSE /\ free' = Freed
            /\ space' = space + Returned
            /\ state' = "idle"
            /\ tail' = pktLen
            /\ UNCHANGED <<read, out>>
    /\ UNCHANGED <<mode, desc, write, after, returned, pktLen, dma, invoked,
                   isr>>

Next ==
    \/ \E b \in Buffers : Queue(b)
    \/ Start \/ Stop \/ ResetCounter
    \/ DmaSent
    \/ IsrEnter \/ IsrResult \/ IsrPacket
    \/ FlushInflight \/ FlushUnsent

Spec == Init /\ [][Next]_vars

-----------------------------------------------------------------------------
\* Types of the state of the sending part.
TypeOK ==
    /\ mode \in {"packet", "stream"}
    /\ link \in [Slots -> Slots \cup {None}]
    /\ desc \in [Slots -> Desc]
    /\ {write, read, free} \subseteq Slots
    /\ state \in {"idle", "wait", "sending", "result", "unsent", "endless"}
    /\ {head, end, after, returned} \subseteq Slots \cup {None}
    /\ tail \in 0 .. MaxTotal
    /\ pktLen \in 0 .. MaxTotal
    /\ dma \in {"off", "sending", "eof"}
    /\ invoked \in BOOLEAN
    /\ isr \in {"off", "results", "packet"}
    /\ out \in Buffers \cup {None}
    /\ space \in 0 .. QueueSize

\* The ring implements the queue its caller is promised: through packets and
\* streams, stops, flushes and wrap-arounds, no descriptor is written while its
\* buffer is still to come back, and buffers come back once and in order.
AQ == INSTANCE SendQueue WITH
    queued <- [n \in 1 .. Len(Flying \o Behind) |->
                  desc[(Flying \o Behind)[n]].arg]
Promised == AQ!Spec

\* The assertions of the ring and of the states of sending.
RingAsserts ==
    /\ head # None => Succ(free) = head /\ end = read
    /\ head = None => free = read
    /\ state \in {"idle", "wait", "sending"} => returned = None
    /\ state = "sending" \/ isr = "results" => head # None

\* No packet waits without the handler about to be invoked: neither for the
\* first start nor for the one before it to end.
NothingForgotten ==
    isr = "off" /\ Flying \o Behind # <<>> =>
        /\ state = "wait" => invoked
        /\ state = "sending" => dma \in {"sending", "eof"}

\* The length register and the lengths of the packets that wait, which the host
\* will read one after the other, add up to the length of all that is queued.
CounterExact ==
    /\ state # "endless"
    /\ state # "unsent" =>
          tail = (IF head = None THEN pktLen ELSE desc[end].pkt) + Total(Behind)
=============================================================================
