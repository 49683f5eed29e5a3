------------------------------ MODULE SdioRecv -------------------------------
(***************************************************************************)
(* The receiving part of the SDIO slave HAL                                *)
(* (components/hal/sdio_slave_hal.c): buffers are loaded to the end of a   *)
(* linked list the DMA fills, those that are full are counted by the       *)
(* interrupt handler and unloaded from its front.  The HAL is not thread-  *)
(* safe: its calls are steps, made under the caller's lock and as          *)
(* sdio_slave_hal.h lays down.                                             *)
(***************************************************************************)
EXTENDS Naturals, SequencesExt

CONSTANTS
    Buffers,    \* the descriptors, each of a buffer
    Liberties,  \* "flushAll": every buffer of the list is flushed;
                \* "startFull": it is started with none left to fill
    None        \* NULL

RecvAssumption == IsFiniteSet(Buffers) /\ None \notin Buffers

VARIABLES
    list,    \* recv_link_list
    owner,   \* of each descriptor: the hardware, or else it is filled
    cur,     \* recv_cur_ret
    running, \* between a start and a stop
    enabled, \* the interrupt of the handler
    raised,  \* its status
    isr,     \* it has cleared the status, and asks for what is full
    at,      \* the descriptor the DMA is on, or ended at
    busy,    \* it is filling it, or waiting for the host to
    credit,  \* the buffers the host may still fill, of its own count
    ready    \* history: has_next_item returned, and not unloaded

vars == <<list, owner, cur, running, enabled, raised, isr, at, busy, credit,
          ready>>

\* sdio_slave_hal_init, and the first sdio_slave_hal_recv_start.
Init ==
    /\ list = <<>>
    /\ owner = [b \in Buffers |-> FALSE]
    /\ cur = None
    /\ running = TRUE
    /\ enabled = FALSE /\ raised = FALSE /\ isr = FALSE
    /\ at = None /\ busy = FALSE
    /\ credit = 0
    /\ ready = 0

NextOf(l, b) == LET n == CHOOSE n \in DOMAIN l : l[n] = b
                IN  IF n = Len(l) THEN None ELSE l[n + 1]

\* recv_get_first_empty_buf, and those behind it.
Empty(l, o) == IF \E n \in DOMAIN l : o[l[n]]
               THEN SubSeq(l, CHOOSE n \in DOMAIN l :
                                 o[l[n]] /\ \A m \in 1 .. n - 1 : ~o[l[m]],
                           Len(l))
               ELSE <<>>

-----------------------------------------------------------------------------
\* Mutant: what is to be returned next stays where it was, at the end.
CurLost(b) == cur

\* sdio_slave_hal_load_buf.
CurAfterLoad(b) == IF cur = None THEN b ELSE cur

\* The first buffer of the list starts the DMA; another makes it read the link
\* again, where it has met the end.
LoadBuf(b) ==
    /\ b \notin Range(list)
    /\ list' = Append(list, b)
    /\ owner' = [owner EXCEPT ![b] = TRUE]
    /\ cur' = CurAfterLoad(b)
    /\ IF list = <<>>
       THEN at' = b /\ busy' = TRUE /\ enabled' = TRUE
       ELSE /\ IF ~busy /\ at # None THEN at' = b /\ busy' = TRUE
                                     ELSE UNCHANGED <<at, busy>>
            /\ UNCHANGED enabled
    /\ credit' = credit + 1
    /\ UNCHANGED <<isr, running, raised, ready>>

\* External: the host fills a buffer.  It does not before it has been told of
\* the buffer, nor while the slave is stopped (sdio_slave_ll_set_ioready).
DmaDone ==
    /\ running
    /\ busy
    /\ credit > 0
    /\ owner' = [owner EXCEPT ![at] = FALSE]
    /\ credit' = credit - 1
    /\ raised' = TRUE
    /\ LET n == NextOf(list, at)
       IN  IF n = None THEN busy' = FALSE /\ UNCHANGED at
                       ELSE at' = n /\ UNCHANGED busy
    /\ UNCHANGED <<isr, list, cur, running, enabled, ready>>

\* sdio_slave_hal_recv_done, in the interrupt handler.
RecvDone ==
    /\ enabled /\ raised
    /\ ~isr
    /\ raised' = FALSE
    /\ isr' = TRUE
    /\ UNCHANGED <<list, owner, cur, running, enabled, at, busy, credit, ready>>

\* Mutant: the handler asks once for each interrupt.
AsksOnce == FALSE

\* sdio_slave_hal_recv_has_next_item.
HasNext == cur # None /\ ~owner[cur]

\* The handler asks until the answer is no.
AsksAgain == HasNext

HasNextItem ==
    /\ isr
    /\ isr' = AsksAgain
    /\ IF HasNext THEN cur' = NextOf(list, cur) /\ ready' = ready + 1
                  ELSE UNCHANGED <<cur, ready>>
    /\ UNCHANGED <<list, owner, running, enabled, raised, at, busy, credit>>

\* sdio_slave_hal_recv_unload_desc, as often as has_next_item returned.
UnloadDesc ==
    /\ ready > 0
    /\ list # <<>>
    /\ list' = Tail(list)
    /\ ready' = ready - 1
    /\ UNCHANGED <<isr, owner, cur, running, enabled, raised, at, busy, credit>>

\* sdio_slave_hal_recv_stop.
Stop ==
    /\ running
    /\ running' = FALSE
    /\ enabled' = FALSE
    /\ UNCHANGED <<isr, list, owner, cur, raised, at, busy, credit, ready>>

\* sdio_slave_hal_recv_start: the DMA is reset, and started at the first buffer
\* that is not filled.
Start ==
    /\ ~running
    /\ list # <<>> /\ Empty(list, owner) = <<>> => "startFull" \in Liberties
    /\ running' = TRUE
    /\ IF Empty(list, owner) = <<>>
       THEN at' = None /\ busy' = FALSE /\ UNCHANGED enabled
       ELSE at' = Head(Empty(list, owner)) /\ busy' = TRUE /\ enabled' = TRUE
    /\ UNCHANGED <<isr, list, owner, cur, raised, credit, ready>>

\* sdio_slave_hal_recv_reset_counter; the host restarts its own count.
ResetCounter ==
    /\ ~running
    /\ credit' = Len(Empty(list, owner))
    /\ UNCHANGED <<list, owner, cur, running, enabled, raised, isr, at, busy,
                   ready>>

\* Mutant: the buffer is not counted again.
CreditKept == credit

\* sdio_slave_hal_recv_flush_one_buffer.
CreditAfterFlush == credit + 1

\* The first buffer, which has_next_item returned, goes to the end.
FlushOneBuffer ==
    /\ ~running
    /\ ready > 0
    /\ cur = None => "flushAll" \in Liberties
    /\ ~owner[Head(list)]
    /\ list' = Append(Tail(list), Head(list))
    /\ owner' = [owner EXCEPT ![Head(list)] = TRUE]
    /\ credit' = CreditAfterFlush
    /\ ready' = ready - 1
    /\ UNCHANGED <<isr, cur, running, enabled, raised, at, busy>>

Next ==
    \/ \E b \in Buffers : LoadBuf(b)
    \/ DmaDone \/ RecvDone \/ HasNextItem \/ UnloadDesc
    \/ Stop \/ Start \/ ResetCounter \/ FlushOneBuffer

Spec == Init /\ [][Next]_vars

-----------------------------------------------------------------------------
\* Types of the list and of the pointers into it.
TypeOK ==
    /\ list \in Seq(Buffers) /\ IsInjective(list)
    /\ owner \in [Buffers -> BOOLEAN]
    /\ {cur, at} \subseteq Buffers \cup {None}
    /\ {running, enabled, raised, isr, busy} \subseteq BOOLEAN
    /\ credit \in 0 .. Cardinality(Buffers)
    /\ ready \in 0 .. Cardinality(Buffers)

\* What the caller unloads is full, and what is to be returned next is the first
\* buffer of the list it has not been told of: no buffer is passed over, or
\* left in the list for ever.
ReturnedInOrder ==
    /\ \A n \in 1 .. ready : ~owner[list[n]]
    /\ cur = IF ready < Len(list) THEN list[ready + 1] ELSE None

\* While it runs the DMA is on the first empty buffer with its interrupt
\* enabled, and the handler is to see one that is full and was not returned.
NothingForgotten ==
    /\ running /\ Empty(list, owner) # <<>> =>
          busy /\ enabled /\ at = Head(Empty(list, owner))
    /\ HasNext => raised \/ isr

\* The host is told of as many buffers as are empty.
CounterExact == credit = Cardinality({n \in DOMAIN list : owner[list[n]]})
==============================================================================
