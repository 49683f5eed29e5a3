------------------------------- MODULE SendQueue -------------------------------
(***************************************************************************)
(* What the sending part of the SDIO slave HAL promises its caller          *)
(* (components/hal/include/hal/sdio_slave_hal.h): buffers come back, sent   *)
(* or flushed, each once and in the order they were queued in, and the      *)
(* space of a buffer is not given back before the buffer.                  *)
(***************************************************************************)
EXTENDS Naturals, Sequences

CONSTANTS
    Buffers,
    QueueSize

VARIABLES
    queued,   \* the buffers of the caller that the HAL has
    out,      \* the buffer that came back last
    space     \* how many more may be queued

vars == <<queued, out, space>>

Init == queued = <<>> /\ out \notin Buffers /\ space = QueueSize

Put(b) ==
    /\ space > 0
    /\ space' = space - 1
    /\ queued' = Append(queued, b)
    /\ UNCHANGED out

\* The buffer queued first comes back, with space or without.
Take ==
    /\ queued # <<>>
    /\ out' = Head(queued)
    /\ queued' = Tail(queued)
    /\ space' \in space .. QueueSize - Len(queued')

\* Space of buffers that came back before.
Release ==
    /\ space' \in space .. QueueSize - Len(queued)
    /\ UNCHANGED <<queued, out>>

Next == (\E b \in Buffers : Put(b)) \/ Take \/ Release

Spec == Init /\ [][Next]_vars
=============================================================================
