------------------------------ MODULE SpiAppend ------------------------------
(***************************************************************************)
(* The append mode of the SPI slave HAL in half duplex                     *)
(* (components/hal/spi_slave_hd_hal.c): transfers are appended to a chain  *)
(* of descriptors the DMA is working on, and given back as it ends them.   *)
(* The calls that append and the interrupt handler that asks for what is   *)
(* finished interleave with each other and with the DMA.  Sending and      *)
(* receiving each have such a chain; this is one of them.                  *)
(***************************************************************************)
EXTENDS Integers, SequencesExt

CONSTANTS
    Count,      \* dma_desc_num
    Transfers,  \* what the caller appends, and gets back
    Liberties,  \* "full": the caller appends whenever it is not refused;
                \* "early": it asks before anything is finished
    None        \* NULL

SpiAssumption == Count \in Nat \ {0} /\ None \notin 0 .. Count

Slots   == 0 .. Count - 1
Succ(i) == (i + 1) % Count
Dummy   == Count    \* tx_dummy_head

VARIABLES
    next,    \* the link of each descriptor
    arg,     \* what the caller wants back for it
    cur,     \* tx_cur_desc: the next to use
    tail,    \* tx_dma_tail: the last one linked
    head,    \* tx_dma_head: the last one given back
    started, \* tx_dma_started
    unrecycled, \* tx_used_desc_cnt - tx_recycled_desc_cnt
    append,  \* where the call that appends is
    at,      \* the descriptor the DMA is on, or ended at
    busy,    \* the DMA has not met the end of the chain
    eof,     \* the address register of the last end of a frame
    out      \* what was given back last

vars == <<next, arg, cur, tail, head, started, unrecycled, append, at, busy,
          eof, out>>

Init ==
    /\ next = [i \in Slots \cup {Dummy} |-> IF i = Dummy THEN 0 ELSE None]
    /\ arg = [i \in Slots |-> None]
    /\ cur = 0
    /\ tail = None
    /\ head = Dummy
    /\ started = FALSE
    /\ unrecycled = 0
    /\ append = "out"
    /\ at = None /\ busy = FALSE /\ eof = None
    /\ out = None

\* The descriptors linked and not given back, and how many of them the DMA
\* has ended.
Chain ==
    LET Nth[n \in 0 .. Count] ==
            IF n = 0 THEN head
            ELSE IF Nth[n - 1] = None THEN None ELSE next[Nth[n - 1]]
        length == Cardinality({n \in 1 .. Count : Nth[n] # None})
    IN  IF started THEN [n \in 1 .. length |-> Nth[n]] ELSE <<>>
Ended == IF eof \in Range(Chain) THEN CHOOSE n \in DOMAIN Chain : Chain[n] = eof
                                 ELSE 0

-----------------------------------------------------------------------------
\* Mutant: the last descriptor given back, whose link is still to be followed,
\* may be written again.
RefusesLate == unrecycled >= Count

\* spi_slave_hd_hal_txdma_append refuses when every descriptor is in use; a
\* careful caller stops one earlier.
Refuses == unrecycled >= IF "full" \in Liberties THEN Count ELSE Count - 1

\* spi_slave_hd_hal_link_append_desc: the new descriptor ends the chain.
Fill(t) ==
    /\ append = "out"
    /\ ~Refuses
    /\ \A i \in Range(Chain) : arg[i] # t
    /\ next' = [next EXCEPT ![cur] = None]
    /\ arg' = [arg EXCEPT ![cur] = t]
    /\ append' = "link"
    /\ UNCHANGED <<cur, tail, head, started, unrecycled, at, busy, eof, out>>

\* The first descriptor starts the DMA.
Start ==
    /\ append = "link"
    /\ ~started
    /\ started' = TRUE
    /\ tail' = cur
    /\ at' = cur
    /\ busy' = TRUE
    /\ append' = "count"
    /\ UNCHANGED <<next, arg, cur, head, unrecycled, eof, out>>

\* The others are linked to the last.
Link ==
    /\ append = "link"
    /\ started
    /\ next' = [next EXCEPT ![tail] = cur]
    /\ tail' = cur
    /\ append' = "restart"
    /\ UNCHANGED <<arg, cur, head, started, unrecycled, at, busy, eof, out>>

\* The DMA, where it has met the end, reads the link again.
Restart ==
    /\ append = "restart"
    /\ IF ~busy /\ next[at] # None THEN at' = next[at] /\ busy' = TRUE
                                   ELSE UNCHANGED <<at, busy>>
    /\ append' = "count"
    /\ UNCHANGED <<next, arg, cur, tail, head, started, unrecycled, eof, out>>

Advance ==
    /\ append = "count"
    /\ unrecycled' = unrecycled + 1
    /\ cur' = Succ(cur)
    /\ append' = "out"
    /\ UNCHANGED <<next, arg, tail, head, started, at, busy, eof, out>>

\* spi_slave_hd_hal_get_tx_finished_trans, in a handler that something has
\* finished has invoked.
GetFinished ==
    /\ eof # None \/ "early" \in Liberties
    /\ head # None
    /\ head # eof
    /\ head' = next[head]
    /\ out' = IF next[head] = None THEN out ELSE arg[next[head]]
    /\ unrecycled' = unrecycled - 1
    /\ UNCHANGED <<next, arg, cur, tail, started, append, at, busy, eof>>

\* External: the DMA ends a descriptor and follows its link.
DmaEnd ==
    /\ busy
    /\ eof' = at
    /\ IF next[at] = None THEN busy' = FALSE /\ UNCHANGED at
                          ELSE at' = next[at] /\ UNCHANGED busy
    /\ UNCHANGED <<next, arg, cur, tail, head, started, unrecycled, append,
                   out>>

Next ==
    \/ \E t \in Transfers : Fill(t)
    \/ Start \/ Link \/ Restart \/ Advance \/ GetFinished \/ DmaEnd

Spec == Init /\ [][Next]_vars

-----------------------------------------------------------------------------
\* Types of the chain and of its pointers.
TypeOK ==
    /\ next \in [Slots \cup {Dummy} -> Slots \cup {None}]
    /\ arg \in [Slots -> Transfers \cup {None}]
    /\ cur \in Slots
    /\ {tail, at, eof} \subseteq Slots \cup {None}
    /\ head \in Slots \cup {Dummy, None}
    /\ started \in BOOLEAN /\ busy \in BOOLEAN
    /\ unrecycled \in -1 .. Count
    /\ append \in {"out", "link", "restart", "count"}
    /\ out \in Transfers \cup {None}

\* The chain implements a queue: transfers are ended and given back once each,
\* in the order they were appended in, and none before it has ended.
AQ == INSTANCE CopyQueue WITH
    Requests <- Transfers,
    queue <- [n \in DOMAIN Chain |-> arg[Chain[n]]], done <- Ended
Promised == AQ!Spec

\* The handler never runs off the chain, and what has ended is not taken for
\* what was given back last.
HeadAsserts == head # None /\ (head = eof => Ended = 0)

\* What is linked and has not ended the DMA is working on, or is about to be
\* told about.
NothingForgotten ==
    Ended < Len(Chain) => busy \/ append = "restart"
==============================================================================
