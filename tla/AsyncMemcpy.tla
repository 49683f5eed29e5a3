----------------------------- MODULE AsyncMemcpy -----------------------------
(***************************************************************************)
(* The asynchronous memory copy driver (esp_async_memcpy.c, on GDMA        *)
(* channels: async_memcpy_impl_gdma.c): two rings of DMA descriptors, one  *)
(* for reading and one for writing, filled by the callers under a spinlock *)
(* and emptied by the DMA; an interrupt handler walks the write ring and   *)
(* calls the callers back.                                                 *)
(*                                                                         *)
(* A request is measured in descriptors (n / max_dma_buffer_size rounded   *)
(* up); the piece of it a descriptor carries stands for its buffer and     *)
(* size.  The DMA is external: it reads the descriptors it owns in ring    *)
(* order, writes each one back to the CPU, and raises the RX EOF interrupt *)
(* when the last piece of a request is written.  It may finish further     *)
(* requests at any moment, before or during the handler.                   *)
(***************************************************************************)
EXTENDS Integers, SequencesExt

CONSTANTS
    Backlog,          \* config->backlog: descriptors in each ring
    Requests,         \* what the callers want copied; reused once called back
    MaxSize,          \* the largest request enumerated, in descriptors
    Cores,            \* CPU cores: with one, no task runs during a handler
    Liberties,        \* what goes beyond the plain use, see AllLiberties
    None              \* NULL

Slots == 0 .. Backlog - 1

\* desc->next, k times
After(s, k) == (s + k) % Backlog

\* How many times desc->next leads from one to the other.
Distance(from, s) == (s - from + Backlog) % Backlog

(***************************************************************************)
(* overcommit: a task has more than Backlog streams handled at once, the   *)
(*             driver being the one to refuse.                             *)
(* chain:      a callback does the same.                                   *)
(* zeroLength: asks for a copy of 0 bytes.                                 *)
(* lateEof:    the DMA finishes a request while the handler is between the *)
(*             clearing of the status and the reading of the EOF address.  *)
(***************************************************************************)
AllLiberties == {"overcommit", "chain", "zeroLength", "lateEof"}

ASSUME MemcpyAssumption ==
    /\ Backlog \in Nat \ {0}
    /\ MaxSize \in 1 .. Backlog
    /\ Cores \in {1, 2}
    /\ Liberties \subseteq AllLiberties
    /\ None \notin Requests \cup [req : Requests, no : 1 .. MaxSize]

VARIABLES
    up,       \* the driver is installed
    rx, tx,   \* in_streams, out_streams: owner, piece, callback or EOF mark
    rxNext,   \* rx_desc: the next free RX descriptor
    txNext,   \* tx_desc
    check,    \* next_rx_desc_to_check
    dma,      \* the DMA: ring positions and the piece on its way
    intr,     \* RX EOF interrupt status and the EOF descriptor address
    isr,      \* the interrupt handler: program counter and locals
    waiting,  \* requests accepted whose callback has not returned
    streams   \* the descriptors these were given, as their callers count them

vars == <<up, rx, tx, rxNext, txNext, check, dma, intr, isr, waiting, streams>>
ringVars == <<rx, tx, rxNext, txNext>>
callers  == <<waiting, streams>>

Piece == [req : Requests, no : 1 .. MaxSize] \cup {None}

FreeRx == [owner |-> "CPU", piece |-> None, cb |-> None]
FreeTx == [owner |-> "CPU", piece |-> None, eof |-> FALSE]
IsrIdle == [pc |-> "idle", eof |-> 0, at |-> 0, req |-> None]

DmaIdle == [rx |-> 0, tx |-> 0, busy |-> FALSE, piece |-> None, eof |-> FALSE]
NoIntr  == [pending |-> FALSE, eof |-> 0]

\* The state a driver is installed in: the memory is zeroed, the descriptors
\* form two circles.
Init ==
    /\ up = FALSE /\ waiting = <<>> /\ streams = 0
    /\ rx = [s \in Slots |-> FreeRx] /\ tx = [s \in Slots |-> FreeTx]
    /\ rxNext = 0 /\ txNext = 0 /\ check = 0
    /\ dma = DmaIdle /\ intr = NoIntr /\ isr = IsrIdle

\* esp_async_memcpy_install, esp_async_memcpy_uninstall.  The latter returns
\* only when the handler has (esp_intr_free runs on the handler's core), and
\* what is left of the rings is freed.
Install == /\ ~up /\ up' = TRUE
           /\ UNCHANGED <<ringVars, check, dma, intr, isr, callers>>
Uninstall == /\ up /\ waiting = <<>> /\ isr.pc = "idle"
             /\ up' = FALSE
             /\ rx' = [s \in Slots |-> FreeRx] /\ tx' = [s \in Slots |-> FreeTx]
             /\ rxNext' = 0 /\ txNext' = 0 /\ check' = 0
             /\ dma' = DmaIdle /\ intr' = NoIntr
             /\ UNCHANGED <<isr, callers>>

-----------------------------------------------------------------------------
\* Mutant: a descriptor the DMA owns is taken.
PreparedUnowned(ring, s, size) == 0 .. size - 1

\* The descriptors a request of that size takes, from position s: the loop of
\* the prepare functions stops at the first one the DMA owns.
Prepared(ring, s, size) ==
    {i \in 0 .. size - 1 : \A j \in 0 .. i : ring[After(s, j)].owner # "DMA"}

\* Mutant: one descriptor too many is handed over.
HandedOneMore(size) == 0 .. size

\* The descriptors handed over, from position s on: also for no bytes at all
\* one descriptor, start and end being the same.
Handed(size) == 0 .. IF size = 0 THEN 0 ELSE size - 1

\* Is there room for a request, as a caller that counts its streams sees it?
Allowed(size) ==
    /\ size = 0 => "zeroLength" \in Liberties
    /\ \/ streams + size <= Backlog
       \/ isr.pc = "callback" /\ "chain" \in Liberties
       \/ isr.pc # "callback" /\ "overcommit" \in Liberties

\* esp_async_memcpy: preparing and committing is one critical section.  The
\* caller is a task or, from its callback, the handler.
Submit(r, size) ==
    LET rxSet  == Prepared(rx, rxNext, size)
        txSet  == Prepared(tx, txNext, size)
        commit == rxSet = 0 .. size - 1 /\ txSet = 0 .. size - 1
        last   == IF size = 0 THEN 0 ELSE size - 1
        piece(i) == [req |-> r, no |-> i + 1]
        Fill(d, i, set) == IF i \in set THEN [d EXCEPT !.piece = piece(i)] ELSE d
        Give(d, i) == IF commit /\ i \in Handed(size)
                      THEN [d EXCEPT !.owner = "DMA"] ELSE d
    IN
    /\ up
    /\ Cores = 1 => isr.pc \in {"idle", "callback"}
    /\ \A i \in DOMAIN waiting : waiting[i].req # r
    /\ isr.req # r
    /\ Allowed(size)
    /\ rx' = [s \in Slots |->
                LET i == Distance(rxNext, s)
                    d == Give(Fill(rx[s], i, rxSet), i)
                IN  IF commit /\ i = last THEN [d EXCEPT !.cb = r] ELSE d]
    /\ tx' = [s \in Slots |->
                LET i == Distance(txNext, s)
                    d == Give(Fill(tx[s], i, txSet), i)
                IN  IF i \in txSet THEN [d EXCEPT !.eof = (i = last)] ELSE d]
    /\ IF commit
       THEN /\ rxNext' = After(rxNext, last + 1)
            /\ txNext' = After(txNext, last + 1)
            /\ waiting' = Append(waiting, [req |-> r, size |-> size])
            /\ streams' = streams + size
       ELSE UNCHANGED <<rxNext, txNext, callers>>
    /\ UNCHANGED <<up, check, dma, intr, isr>>

-----------------------------------------------------------------------------
\* The DMA reads a piece and returns its TX descriptor.
DmaSend ==
    LET d == tx[dma.tx] IN
    /\ up /\ ~dma.busy
    /\ d.owner = "DMA"
    /\ tx' = [tx EXCEPT ![dma.tx].owner = "CPU"]
    /\ dma' = [dma EXCEPT !.tx = After(@, 1), !.busy = TRUE,
                          !.piece = d.piece, !.eof = d.eof]
    /\ UNCHANGED <<up, rx, rxNext, txNext, check, intr, isr, callers>>

\* It writes the piece where the RX descriptor says and returns that.
DmaReceive ==
    /\ up /\ dma.busy
    /\ rx[dma.rx].owner = "DMA"
    /\ dma.eof /\ isr.pc = "readEof" => "lateEof" \in Liberties
    /\ rx' = [rx EXCEPT ![dma.rx].owner = "CPU"]
    /\ dma' = [dma EXCEPT !.rx = After(@, 1), !.busy = FALSE]
    /\ intr' = IF dma.eof THEN [pending |-> TRUE, eof |-> dma.rx] ELSE intr
    /\ UNCHANGED <<up, tx, rxNext, txNext, check, isr, callers>>

-----------------------------------------------------------------------------
\* gdma_default_rx_isr reads and clears the status, then the EOF address.
IsrEnter ==
    /\ intr.pending /\ isr.pc = "idle"
    /\ intr' = [intr EXCEPT !.pending = FALSE]
    /\ isr' = [isr EXCEPT !.pc = "readEof"]
    /\ UNCHANGED <<up, ringVars, check, dma, callers>>
IsrReadEof ==
    /\ isr.pc = "readEof"
    /\ isr' = [isr EXCEPT !.pc = "next", !.eof = intr.eof]
    /\ UNCHANGED <<up, ringVars, check, dma, intr, callers>>

\* "additional check, to avoid potential interrupt got triggered by mistake"
Returned(s) == rx[s].owner = "CPU"

\* async_memcpy_get_next_rx_descriptor, under the spinlock.
IsrNext ==
    /\ isr.pc = "next"
    /\ IF Returned(check)
       THEN /\ isr' = [isr EXCEPT !.pc = "look", !.at = check]
            /\ check' = After(check, 1)
       ELSE /\ isr' = IsrIdle
            /\ UNCHANGED check
    /\ UNCHANGED <<up, ringVars, dma, intr, callers>>

\* Mutant: the walk ends one descriptor early.
ContinueEarly ==
    IF isr.at = isr.eof \/ After(isr.at, 1) = isr.eof
    THEN IsrIdle ELSE [isr EXCEPT !.pc = "next", !.req = None]

\* to_continue: the walk ends with the EOF descriptor.
Continue ==
    IF isr.at = isr.eof THEN IsrIdle ELSE [isr EXCEPT !.pc = "next", !.req = None]

\* The callback of the descriptor is looked at outside of the spinlock, invoked
\* if there is one, and removed when it has returned.
IsrLook ==
    /\ isr.pc = "look"
    /\ isr' = IF rx[isr.at].cb = None THEN Continue
              ELSE [isr EXCEPT !.pc = "callback", !.req = rx[isr.at].cb]
    /\ UNCHANGED <<up, ringVars, check, dma, intr, callers>>

\* The caller's request is over.
CalledBack(r) ==
    \E i \in DOMAIN waiting : /\ waiting[i].req = r
                             /\ waiting' = RemoveAt(waiting, i)
                             /\ streams' = streams - waiting[i].size

\* Mutant: the callback is not removed.
IsrReturnKept ==
    /\ isr.pc = "callback" /\ isr' = Continue
    /\ CalledBack(isr.req)
    /\ UNCHANGED <<up, ringVars, check, dma, intr>>

IsrReturn ==
    /\ isr.pc = "callback"
    /\ rx' = [rx EXCEPT ![isr.at].cb = None]
    /\ CalledBack(isr.req)
    /\ isr' = Continue
    /\ UNCHANGED <<up, tx, rxNext, txNext, check, dma, intr>>

Hardware == DmaSend \/ DmaReceive
Isr == IsrEnter \/ IsrReadEof \/ IsrNext \/ IsrLook \/ IsrReturn
Caller == \/ Install \/ Uninstall
          \/ \E r \in Requests, size \in 0 .. MaxSize : Submit(r, size)

Next == Caller \/ Hardware \/ Isr
Spec == Init /\ [][Next]_vars

\* The DMA does what it is given, and a pending interrupt is handled.
FairSpec == Spec /\ WF_vars(Hardware) /\ WF_vars(Isr)
-----------------------------------------------------------------------------
\* Correctness.

TypeOK ==
    /\ up \in BOOLEAN
    /\ rx \in [Slots -> [owner : {"CPU", "DMA"}, piece : Piece,
                         cb : Requests \cup {None}]]
    /\ tx \in [Slots -> [owner : {"CPU", "DMA"}, piece : Piece, eof : BOOLEAN]]
    /\ {rxNext, txNext, check} \subseteq Slots
    /\ dma \in [rx : Slots, tx : Slots, busy : BOOLEAN, piece : Piece, eof : BOOLEAN]
    /\ intr \in [pending : BOOLEAN, eof : Slots]
    /\ isr \in [pc : {"idle", "readEof", "next", "look", "callback"},
               eof : Slots, at : Slots, req : Requests \cup {None}]
    /\ waiting \in Seq([req : Requests, size : 0 .. MaxSize])
    /\ streams \in Nat

\* "Both tx and rx descriptor should move in the same pace": what the DMA has read
\* of a request it writes to the same piece of the same request, and there is
\* never "space for rx descriptor but no space for tx descriptor".
SamePace ==
    /\ dma.busy => rx[dma.rx].owner = "DMA" /\ rx[dma.rx].piece = dma.piece
    /\ Prepared(rx, rxNext, Backlog) \subseteq Prepared(tx, txNext, Backlog)

\* "backlog: Maximum number of streams that can be handled simultaneously": a
\* caller that stays within the backlog is never refused.
NeverRefused ==
    \A size \in 0 .. Backlog : streams + size <= Backlog =>
        0 .. size - 1 \subseteq Prepared(rx, rxNext, size)
                               \cap Prepared(tx, txNext, size)

\* The DMA never owns a buffer of a request that is over ("n: Number of bytes to
\* copy"): its caller may have freed it.
BuffersHeld ==
    \A s \in Slots : rx[s].owner = "DMA" /\ rx[s].piece # None =>
        \E i \in DOMAIN waiting : waiting[i].req = rx[s].piece.req

\* "Callback function, which got invoked in interrupt context": once the DMA has
\* nothing to do and no interrupt is pending or being handled, no caller is left
\* waiting for a callback.
NoCallbackLost ==
    /\ \A s \in Slots : rx[s].owner = "CPU" /\ tx[s].owner = "CPU"
    /\ ~intr.pending
    /\ isr.pc = "idle"
    => waiting = <<>>

\* A request whose last piece the DMA has written is copied.
Copied(r) == ~\E s \in Slots : /\ rx[s].owner = "DMA"
                               /\ rx[s].piece # None
                               /\ rx[s].piece.req = r

\* The driver implements the promise to its callers.
Queue == INSTANCE CopyQueue WITH
    queue <- [i \in DOMAIN waiting |-> waiting[i].req],
    done  <- Cardinality({i \in DOMAIN waiting : Copied(waiting[i].req)})
InOrderOnce == Queue!Spec

\* Every accepted request is called back.
EveryoneCalled ==
    \A r \in Requests :
        (\E i \in DOMAIN waiting : waiting[i].req = r)
            ~> (\A i \in DOMAIN waiting : waiting[i].req # r)
=============================================================================
