------------------------------ MODULE CopyQueue ------------------------------
(***************************************************************************)
(* What esp_async_memcpy promises its callers (esp_async_memcpy.h): the    *)
(* requests it accepts are copied in order, and the callback of each is    *)
(* invoked once, in order, after its copy is finished.  The append mode of *)
(* the SPI slave HAL promises the same of its transfers, given back to the *)
(* interrupt handler instead (spi_slave_hd_hal.h).                         *)
(***************************************************************************)
EXTENDS Naturals, Sequences

CONSTANT Requests

VARIABLES
    queue,  \* requests accepted whose callback has not returned
    done    \* how many of them, from the front, have been copied

vars == <<queue, done>>

Init == queue = <<>> /\ done = 0

Accept(r) == queue' = Append(queue, r) /\ UNCHANGED done

Copy == done < Len(queue) /\ done' = done + 1 /\ UNCHANGED queue

Notify == done > 0 /\ queue' = Tail(queue) /\ done' = done - 1

Next == (\E r \in Requests : Accept(r)) \/ Copy \/ Notify

Spec == Init /\ [][Next]_vars
=============================================================================
