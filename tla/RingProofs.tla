------------------------------ MODULE RingProofs ------------------------------
(***************************************************************************)
(* Proofs about the rings of DMA descriptors: those of AsyncMemcpy, which  *)
(* this module extends, and those of EmacSend and EmacRecv, which have a   *)
(* section each at the end.                                                *)
(*                                                                         *)
(* The asynchronous memory copy is proved for rings and requests of every  *)
(* size as long as the callers keep within the backlog, ask for at least   *)
(* one byte, and the status of the interrupt agrees with its EOF address   *)
(* (Plain): no descriptor is handed out while it is in use, nobody is      *)
(* refused or forgotten, and the driver implements CopyQueue.              *)
(*                                                                         *)
(* None of this is inductive.  What is, is the whole layout of the rings   *)
(* (Layout): where the requests lie one after the other, up to where the   *)
(* DMA has read and written them, how far the handler has come, and what   *)
(* the interrupt tells it.  That the two rings keep pace is inductive with *)
(* little more (PaceInv), and needs less of the callers.                   *)
(*                                                                         *)
(* The rings of the Ethernet HAL are laid out from the descriptor the DMA  *)
(* is on (TxInv), and from the oldest that was not given back (RxInv).     *)
(***************************************************************************)
EXTENDS AsyncMemcpy, FiniteSetTheorems, SequenceTheorems, WellFoundedInduction,
        TLAPS

Plain == Liberties = {}

(***************************************************************************)
(* How the rings lie, where callers keep within the backlog.  The place of *)
(* a descriptor is counted from that of the oldest request, b; the i-th    *)
(* request ends before place e[i].  The handler has looked at the first c  *)
(* places, the DMA has written the first f; those are k whole requests,    *)
(* and the handler is walking to the end of the w-th.                      *)
(***************************************************************************)
Count == Len(waiting)
Places == 0 .. Backlog - 1

\* The requests follow each other, and no two are of one caller.
Ends(e) ==
    /\ e \in [0 .. Count -> 0 .. Backlog]
    /\ e[0] = 0 /\ e[Count] = streams
    /\ \A i \in 1 .. Count : e[i] = e[i - 1] + waiting[i].size
    /\ \A i, j \in 0 .. Count : i < j => e[i] < e[j]
    /\ \A p \in 0 .. streams - 1 :
          \E i \in 1 .. Count : e[i - 1] <= p /\ p < e[i]
    /\ \A i, j \in 1 .. Count : waiting[i].req = waiting[j].req => i = j

\* Where the driver and the DMA are.
Sent(f) == IF dma.busy THEN f + 1 ELSE f
Where(b, c, f) ==
    /\ b \in Slots
    /\ check = After(b, c) /\ dma.rx = After(b, f) /\ dma.tx = After(b, Sent(f))
    /\ rxNext = After(b, streams) /\ txNext = After(b, streams)
    /\ c \in 0 .. f /\ f \in 0 .. streams /\ Sent(f) <= streams

\* Who owns what.
Owners(b, f) ==
    \A p \in Places :
        /\ (rx[After(b, p)].owner = "DMA") <=> (f <= p /\ p < streams)
        /\ (tx[After(b, p)].owner = "DMA") <=> (Sent(f) <= p /\ p < streams)

\* What the descriptors of a request carry; the others have no callback.
Contents(e, b) ==
    /\ \A i \in 1 .. Count : \A p \in e[i - 1] .. e[i] - 1 :
          /\ rx[After(b, p)].piece = [req |-> waiting[i].req,
                                      no  |-> p - e[i - 1] + 1]
          /\ tx[After(b, p)].piece = rx[After(b, p)].piece
          /\ tx[After(b, p)].eof = (p = e[i] - 1)
          /\ rx[After(b, p)].cb = IF p = e[i] - 1 THEN waiting[i].req ELSE None
    /\ \A p \in streams .. Backlog - 1 : rx[After(b, p)].cb = None
Carried(b, f) ==
    dma.busy => /\ dma.piece = tx[After(b, f)].piece
                /\ dma.eof = tx[After(b, f)].eof

\* How far the handler has come in the oldest request.
Walked(e, b, c) ==
    /\ IF Count = 0 THEN c = 0 ELSE c <= e[1]
    /\ isr.pc \in {"idle", "readEof", "next"} /\ Count > 0 => c < e[1]
    /\ isr.pc \in {"look", "callback"} =>
          Count > 0 /\ c >= 1 /\ isr.at = After(b, c - 1)
    /\ isr.req = IF isr.pc = "callback" THEN waiting[1].req ELSE None
    /\ isr.pc = "callback" => c = e[1]

\* The interrupt and the handler's goal.
Finished(e, f, k) ==
    k \in 0 .. Count /\ e[k] <= f /\ (k < Count => f < e[k + 1])
Told(e, b, k, w) ==
    /\ intr.pending => k > 0 /\ intr.eof = After(b, e[k] - 1)
    /\ isr.pc = "idle" /\ ~intr.pending => k = 0
    /\ isr.pc = "readEof" =>
          ~intr.pending /\ k > 0 /\ intr.eof = After(b, e[k] - 1)
    /\ isr.pc \in {"next", "look", "callback"} =>
          /\ w \in 1 .. k
          /\ isr.eof = After(b, e[w] - 1)
          /\ (intr.pending <=> w < k)

Layout(e, b, c, f, k, w) ==
    /\ Ends(e) /\ Where(b, c, f) /\ Owners(b, f)
    /\ Contents(e, b) /\ Carried(b, f) /\ Walked(e, b, c)
    /\ Finished(e, f, k) /\ Told(e, b, k, w)
Inv ==
    /\ TypeOK
    /\ ~up => waiting = <<>>
    /\ \E e, b, c, f, k, w : Layout(e, b, c, f, k, w)

-----------------------------------------------------------------------------
\* The ring.

LEMMA SmallMod ==
    ASSUME NEW n \in 0 .. 3 * Backlog - 1
    PROVE  n % Backlog = IF n < Backlog THEN n
                         ELSE IF n < 2 * Backlog THEN n - Backlog
                         ELSE n - 2 * Backlog
  BY MemcpyAssumption

LEMMA AfterType ==
    ASSUME NEW s \in Slots, NEW n \in 0 .. 2 * Backlog
    PROVE  After(s, n) \in Slots
  BY MemcpyAssumption DEF After, Slots

LEMMA AfterIs ==
    ASSUME NEW s \in Slots, NEW n \in 0 .. Backlog
    PROVE  After(s, n) = IF s + n < Backlog THEN s + n ELSE s + n - Backlog
<1> DEFINE m == s + n
<1>1. m \in 0 .. 3 * Backlog - 1 /\ m < 2 * Backlog
  BY MemcpyAssumption DEF Slots
<1>2. m % Backlog = IF m < Backlog THEN m ELSE m - Backlog
  <2> HIDE DEF m
  <2> QED
    BY <1>1, SmallMod, MemcpyAssumption
<1>3. m = s + n /\ After(s, n) = m % Backlog
  BY DEF After
<1> QED
  BY <1>2, <1>3, MemcpyAssumption DEF Slots

LEMMA AfterZero ==
    ASSUME NEW s \in Slots
    PROVE  After(s, 0) = s /\ After(s, Backlog) = s
  BY AfterIs, MemcpyAssumption DEF Slots

LEMMA AfterAfter ==
    ASSUME NEW s \in Slots, NEW n \in 0 .. Backlog, NEW m \in 0 .. Backlog
    PROVE  After(After(s, n), m) =
              IF n + m < Backlog THEN After(s, n + m) ELSE After(s, n + m - Backlog)
<1>1. After(s, n) \in Slots
  BY AfterType, MemcpyAssumption
<1>2. After(After(s, n), m) = IF After(s, n) + m < Backlog THEN After(s, n) + m
                             ELSE After(s, n) + m - Backlog
  BY <1>1, AfterIs
<1>3. CASE n + m < Backlog
  <2>1. After(s, n + m) = IF s + (n + m) < Backlog THEN s + (n + m)
                          ELSE s + (n + m) - Backlog
    BY <1>3, AfterIs, MemcpyAssumption
  <2> QED
    BY <1>1, <1>2, <1>3, <2>1, AfterIs, MemcpyAssumption DEF Slots
<1>4. CASE n + m >= Backlog
  <2>1. n + m - Backlog \in 0 .. Backlog
    BY <1>4, MemcpyAssumption
  <2>2. After(s, n + m - Backlog) =
           IF s + (n + m - Backlog) < Backlog THEN s + (n + m - Backlog)
           ELSE s + (n + m - Backlog) - Backlog
    BY <2>1, AfterIs
  <2> QED
    BY <1>1, <1>2, <1>4, <2>2, AfterIs, MemcpyAssumption DEF Slots
<1> QED
  BY <1>3, <1>4, MemcpyAssumption

LEMMA AfterNext ==
    ASSUME NEW s \in Slots, NEW n \in Places
    PROVE  After(After(s, n), 1) = After(s, n + 1)
<1>1. 1 \in 0 .. Backlog /\ n \in 0 .. Backlog
  BY MemcpyAssumption DEF Places
<1>2. After(After(s, n), 1) =
         IF n + 1 < Backlog THEN After(s, n + 1) ELSE After(s, n + 1 - Backlog)
  BY <1>1, AfterAfter
<1> QED
  BY <1>2, AfterZero, MemcpyAssumption DEF Places

LEMMA AfterInjective ==
    ASSUME NEW s \in Slots, NEW p \in Places, NEW q \in Places,
           After(s, p) = After(s, q)
    PROVE  p = q
  BY AfterIs, MemcpyAssumption DEF Slots, Places

LEMMA AfterOnto ==
    ASSUME NEW s \in Slots, NEW t \in Slots
    PROVE  \E p \in Places : t = After(s, p)
<1>1. CASE s <= t
  <2>1. t - s \in Places /\ t - s \in 0 .. Backlog
    BY <1>1, MemcpyAssumption DEF Slots, Places
  <2>2. After(s, t - s) = IF s + (t - s) < Backlog THEN s + (t - s)
                          ELSE s + (t - s) - Backlog
    BY <2>1, AfterIs
  <2> QED
    BY <2>1, <2>2, MemcpyAssumption DEF Slots
<1>2. CASE t < s
  <2>1. t - s + Backlog \in Places /\ t - s + Backlog \in 0 .. Backlog
    BY <1>2, MemcpyAssumption DEF Slots, Places
  <2> QED
    BY <1>2, <2>1, AfterIs, MemcpyAssumption DEF Slots
<1> QED
  BY <1>1, <1>2 DEF Slots

\* How far apart two places are.
LEMMA DistanceIs ==
    ASSUME NEW s \in Slots, NEW n \in 0 .. Backlog, NEW p \in Places
    PROVE  Distance(After(s, n), After(s, p)) =
              IF p < n THEN p - n + Backlog ELSE p - n
<1> DEFINE x == After(s, n)
           y == After(s, p)
<1>1. x \in Slots /\ y \in Slots
  BY AfterType, MemcpyAssumption DEF Places
<1>2. y - x + Backlog \in 0 .. 3 * Backlog - 1 /\ y - x + Backlog < 2 * Backlog
  BY <1>1, MemcpyAssumption DEF Slots
<1>3. Distance(x, y) = IF y - x < 0 THEN y - x + Backlog ELSE y - x
  BY <1>1, <1>2, SmallMod, MemcpyAssumption DEF Distance, Slots
<1>4. /\ x = IF s + n < Backlog THEN s + n ELSE s + n - Backlog
      /\ y = IF s + p < Backlog THEN s + p ELSE s + p - Backlog
  BY AfterIs, MemcpyAssumption DEF Places
<1> QED
  BY <1>3, <1>4, MemcpyAssumption DEF Slots, Places

-----------------------------------------------------------------------------
\* What the layout says of the numbers that place it.
LEMMA Bounds ==
    ASSUME TypeOK, NEW e, NEW b, NEW c, NEW f, NEW k, NEW w,
           Layout(e, b, c, f, k, w)
    PROVE  /\ Count \in Nat
           /\ DOMAIN waiting = 1 .. Count
           /\ \A i \in 1 .. Count : /\ waiting[i].req \in Requests
                                    /\ waiting[i].size \in 0 .. MaxSize
           /\ \A i \in 0 .. Count : e[i] \in 0 .. streams
           /\ streams \in 0 .. Backlog
           /\ e[0] = 0 /\ e[Count] = streams
           /\ b \in Slots
           /\ c \in 0 .. f /\ f \in 0 .. streams
           /\ k \in 0 .. Count
<1>1. /\ Count \in Nat
      /\ DOMAIN waiting = 1 .. Count
      /\ \A i \in 1 .. Count : /\ waiting[i].req \in Requests
                               /\ waiting[i].size \in 0 .. MaxSize
  <2> DEFINE R == [req : Requests, size : 0 .. MaxSize]
  <2>1. waiting \in Seq(R)
    BY DEF TypeOK
  <2>2. /\ Len(waiting) \in Nat /\ DOMAIN waiting = 1 .. Len(waiting)
        /\ \A i \in 1 .. Len(waiting) : waiting[i] \in R
    <3> HIDE DEF R
    <3> QED
      BY <2>1
  <2> QED
    BY <2>2 DEF Count
<1>2. /\ e \in [0 .. Count -> 0 .. Backlog]
      /\ e[0] = 0 /\ e[Count] = streams
      /\ \A i, j \in 0 .. Count : i < j => e[i] < e[j]
  BY DEF Layout, Ends
<1>3. \A i \in 0 .. Count : e[i] \in 0 .. streams
  <2> TAKE i \in 0 .. Count
  <2>1. Count \in 0 .. Count
    BY <1>1
  <2>2. i < Count => e[i] < e[Count]
    BY <1>2, <2>1
  <2> QED
    BY <1>1, <1>2, <2>1, <2>2, MemcpyAssumption
<1>4. /\ b \in Slots /\ c \in 0 .. f /\ f \in 0 .. streams
      /\ k \in 0 .. Count
  BY DEF Layout, Where, Finished
<1> QED
  BY <1>1, <1>2, <1>3, <1>4

\* A request has its places in the ring.
LEMMA Within ==
    ASSUME TypeOK, NEW e, NEW b, NEW c, NEW f, NEW k, NEW w,
           Layout(e, b, c, f, k, w)
    PROVE  \A i \in 1 .. Count : \A p \in e[i - 1] .. e[i] - 1 :
              p \in Places /\ p < streams
<1> TAKE i \in 1 .. Count
<1>1. i - 1 \in 0 .. Count /\ i \in 0 .. Count
  BY Bounds
<1>2. e[i - 1] \in 0 .. streams /\ e[i] \in 0 .. streams /\ streams \in 0 .. Backlog
  BY <1>1, Bounds
<1> QED
  BY <1>2, MemcpyAssumption DEF Places

LEMMA InRequest ==
    ASSUME TypeOK, NEW e, NEW b, NEW c, NEW f, NEW k, NEW w,
           Layout(e, b, c, f, k, w), NEW p \in 0 .. streams - 1
    PROVE  \E i \in 1 .. Count : p \in e[i - 1] .. e[i] - 1
<1>1. PICK i \in 1 .. Count : e[i - 1] <= p /\ p < e[i]
  BY DEF Layout, Ends
<1>2. i - 1 \in 0 .. Count /\ i \in 0 .. Count /\ streams \in 0 .. Backlog
  BY Bounds
<1>3. e[i - 1] \in 0 .. streams /\ e[i] \in 0 .. streams
  BY <1>2, Bounds
<1> QED
  BY <1>1, <1>2, <1>3

\* There is something left to write exactly when a request is unfinished.
LEMMA Unfinished ==
    ASSUME TypeOK, NEW e, NEW b, NEW c, NEW f, NEW k, NEW w,
           Layout(e, b, c, f, k, w)
    PROVE  /\ f < streams <=> k < Count
           /\ k < Count => e[k] <= f /\ f < e[k + 1]
<1>1. /\ k \in 0 .. Count /\ e[k] <= f /\ (k < Count => f < e[k + 1])
  BY DEF Layout, Finished
<1> QED
  BY <1>1, Bounds

\* Rings with nothing in them.
Empty ==
    /\ waiting = <<>> /\ streams = 0
    /\ rx = [s \in Slots |-> FreeRx] /\ tx = [s \in Slots |-> FreeTx]
    /\ rxNext = 0 /\ txNext = 0 /\ check = 0
    /\ dma = DmaIdle /\ intr = NoIntr
    /\ isr.pc = "idle" /\ isr.req = None

Laid == \E e, b, c, f, k, w : Layout(e, b, c, f, k, w)

LEMMA EmptyLayout == Empty => Laid
<1> SUFFICES ASSUME Empty PROVE Laid
  OBVIOUS
<1> DEFINE e == [i \in 0 .. 0 |-> 0]
<1>1. Count = 0 /\ 0 \in Slots /\ After(0, 0) = 0 /\ Sent(0) = 0
  BY AfterZero, MemcpyAssumption DEF Empty, Count, Sent, DmaIdle, Slots
<1>2. Ends(e)
  BY <1>1, MemcpyAssumption DEF Empty, Ends
<1>3. Where(0, 0, 0)
  BY <1>1 DEF Empty, Where, DmaIdle
<1>4. \A p \in Places : /\ rx[After(0, p)] = FreeRx
                        /\ tx[After(0, p)] = FreeTx
  BY <1>1, AfterType, MemcpyAssumption DEF Empty, Places
<1>5. Owners(0, 0)
  <2> SUFFICES ASSUME NEW p \in Places
               PROVE  /\ rx[After(0, p)].owner # "DMA" /\ ~(0 <= p /\ p < streams)
                      /\ tx[After(0, p)].owner # "DMA"
    BY <1>1 DEF Owners
  <2>1. p \in Nat /\ streams = 0
    BY MemcpyAssumption DEF Empty, Places
  <2> QED
    BY <1>4, <2>1 DEF FreeRx, FreeTx
<1>6. Contents(e, 0)
  BY <1>1, <1>4 DEF Contents, Empty, FreeRx, Places
<1>7. Carried(0, 0)
  BY DEF Carried, Empty, DmaIdle
<1>8. Walked(e, 0, 0) /\ Finished(e, 0, 0) /\ Told(e, 0, 0, 0)
  BY <1>1 DEF Walked, Finished, Told, Empty, NoIntr
<1> QED
  BY <1>2, <1>3, <1>5, <1>6, <1>7, <1>8 DEF Laid, Layout

LEMMA EmptyLayoutThen == Empty' => Laid'
  BY EmptyLayout, PTL

LEMMA InvInit ==
    ASSUME Init
    PROVE  Inv
<1>1. TypeOK
  <2>1. 0 \in Slots /\ None \in Piece
    BY MemcpyAssumption DEF Slots, Piece
  <2>2. waiting \in Seq([req : Requests, size : 0 .. MaxSize])
    BY DEF Init
  <2>3. /\ rx \in [Slots -> [owner : {"CPU", "DMA"}, piece : Piece,
                             cb : Requests \cup {None}]]
        /\ tx \in [Slots -> [owner : {"CPU", "DMA"}, piece : Piece, eof : BOOLEAN]]
    BY <2>1 DEF Init, FreeRx, FreeTx
  <2> QED
    BY <2>1, <2>2, <2>3 DEF Init, TypeOK, DmaIdle, NoIntr, IsrIdle
<1>2. \E e, b, c, f, k, w : Layout(e, b, c, f, k, w)
  BY EmptyLayout DEF Init, Empty, IsrIdle, Laid
<1> QED
  BY <1>1, <1>2 DEF Inv, Init

-----------------------------------------------------------------------------
\* The DMA.

LEMMA SendStep ==
    ASSUME TypeOK, NEW e, NEW b, NEW c, NEW f, NEW k, NEW w,
           Layout(e, b, c, f, k, w), DmaSend
    PROVE  TypeOK' /\ Layout(e, b, c, f, k, w)'
<1>1. /\ b \in Slots /\ f \in 0 .. streams /\ streams \in 0 .. Backlog
      /\ c \in 0 .. f /\ Count \in Nat
  BY Bounds
<1>2. /\ ~dma.busy /\ Sent(f) = f /\ dma.tx = After(b, f) /\ dma.rx = After(b, f)
      /\ tx[After(b, f)].owner = "DMA"
  BY DEF DmaSend, Layout, Where, Sent
<1>3. f \in Places /\ f < streams
  <2>1. \A p \in Places : (tx[After(b, p)].owner = "DMA") <=> (f <= p /\ p < streams)
    BY <1>2 DEF Layout, Owners
  <2>2. f # Backlog
    <3> SUFFICES ASSUME f = Backlog PROVE FALSE
      OBVIOUS
    <3>1. After(b, f) = After(b, 0) /\ 0 \in Places
      BY <1>1, AfterZero, MemcpyAssumption DEF Places
    <3> QED
      BY <1>1, <1>2, <2>1, <3>1, MemcpyAssumption
  <2>3. f \in Places
    BY <1>1, <2>2, MemcpyAssumption DEF Places
  <2> QED
    BY <1>2, <2>1, <2>3
<1>4. /\ After(b, f) \in Slots /\ After(dma.tx, 1) = After(b, f + 1)
      /\ After(b, f + 1) \in Slots
  BY <1>1, <1>2, <1>3, AfterNext, AfterType, MemcpyAssumption DEF Places
<1>5. /\ tx' = [tx EXCEPT ![After(b, f)].owner = "CPU"]
      /\ dma' = [dma EXCEPT !.tx = After(b, f + 1), !.busy = TRUE,
                            !.piece = tx[After(b, f)].piece,
                            !.eof = tx[After(b, f)].eof]
      /\ UNCHANGED <<up, rx, rxNext, txNext, check, intr, isr, waiting, streams>>
  BY <1>2, <1>4 DEF DmaSend, callers
<1>6. tx \in [Slots -> [owner : {"CPU", "DMA"}, piece : Piece, eof : BOOLEAN]]
  BY DEF TypeOK
<1>7. TypeOK'
  <2>1. tx' \in [Slots -> [owner : {"CPU", "DMA"}, piece : Piece, eof : BOOLEAN]]
    BY <1>4, <1>5, <1>6
  <2>2. tx[After(b, f)].piece \in Piece
    BY <1>4, <1>6
  <2>3. dma' \in [rx : Slots, tx : Slots, busy : BOOLEAN, piece : Piece, eof : BOOLEAN]
    <3>1. tx[After(b, f)].eof \in BOOLEAN
      BY <1>4, <1>6
    <3> QED
      BY <1>4, <1>5, <2>2, <3>1 DEF TypeOK
  <2> QED
    BY <1>5, <2>1, <2>3 DEF TypeOK
<1>8. \A p \in Places :
         /\ tx'[After(b, p)].owner = IF p = f THEN "CPU" ELSE tx[After(b, p)].owner
         /\ tx'[After(b, p)].piece = tx[After(b, p)].piece
         /\ tx'[After(b, p)].eof = tx[After(b, p)].eof
  <2> TAKE p \in Places
  <2>1. After(b, p) \in Slots /\ (After(b, p) = After(b, f) <=> p = f)
    BY <1>1, <1>3, AfterType, AfterInjective, MemcpyAssumption DEF Places
  <2> QED
    BY <1>4, <1>5, <1>6, <2>1
<1>9. Ends(e)' /\ Count' = Count
  BY <1>5 DEF Ends, Count, Layout
<1>10. Sent(f)' = f + 1 /\ Where(b, c, f)'
  BY <1>1, <1>2, <1>3, <1>4, <1>5 DEF Layout, Where, Sent
<1>11. Owners(b, f)'
  <2> SUFFICES ASSUME NEW p \in Places
               PROVE  /\ (rx[After(b, p)].owner = "DMA") <=> (f <= p /\ p < streams)
                      /\ (tx'[After(b, p)].owner = "DMA")
                            <=> (f + 1 <= p /\ p < streams)
    BY <1>5, <1>10 DEF Owners, Places
  <2>1. /\ (rx[After(b, p)].owner = "DMA") <=> (f <= p /\ p < streams)
        /\ (tx[After(b, p)].owner = "DMA") <=> (f <= p /\ p < streams)
    BY <1>2 DEF Layout, Owners
  <2>2. p \in Int /\ f \in Int
    BY <1>1 DEF Places
  <2> QED
    BY <1>8, <2>1, <2>2
<1>12. Contents(e, b)'
  <2>1. \A i \in 1 .. Count : \A p \in e[i - 1] .. e[i] - 1 : p \in Places
    BY Within
  <2> QED
    BY <1>5, <1>8, <1>9, <2>1 DEF Layout, Contents
<1>13. Carried(b, f)'
  BY <1>2, <1>3, <1>5, <1>8 DEF Carried, TypeOK
<1>14. Walked(e, b, c)' /\ Finished(e, f, k)' /\ Told(e, b, k, w)'
  BY <1>5, <1>9 DEF Layout, Walked, Finished, Told
<1> QED
  BY <1>7, <1>9, <1>10, <1>11, <1>12, <1>13, <1>14 DEF Layout

LEMMA ReceiveStep ==
    ASSUME TypeOK, NEW e, NEW b, NEW c, NEW f, NEW k, NEW w, Plain,
           Layout(e, b, c, f, k, w), DmaReceive,
           NEW l, l = IF dma.eof THEN k + 1 ELSE k
    PROVE  TypeOK' /\ Layout(e, b, c, f + 1, l, w)'
<1>1. /\ b \in Slots /\ f \in 0 .. streams /\ streams \in 0 .. Backlog
      /\ c \in 0 .. f /\ Count \in Nat /\ k \in 0 .. Count
      /\ \A i \in 0 .. Count : e[i] \in 0 .. streams
  BY Bounds
<1>2. /\ dma.busy /\ Sent(f) = f + 1 /\ dma.rx = After(b, f)
      /\ dma.tx = After(b, f + 1) /\ f + 1 <= streams
  BY DEF DmaReceive, Layout, Where, Sent
<1>3. f \in Places /\ f < streams
  BY <1>1, <1>2, MemcpyAssumption DEF Places
<1>4. /\ After(b, f) \in Slots /\ After(dma.rx, 1) = After(b, f + 1)
      /\ After(b, f + 1) \in Slots
  BY <1>1, <1>2, <1>3, AfterNext, AfterType, MemcpyAssumption DEF Places
<1>5. /\ rx' = [rx EXCEPT ![After(b, f)].owner = "CPU"]
      /\ dma' = [dma EXCEPT !.rx = After(b, f + 1), !.busy = FALSE]
      /\ intr' = IF dma.eof THEN [pending |-> TRUE, eof |-> After(b, f)] ELSE intr
      /\ dma.eof => isr.pc # "readEof"
      /\ UNCHANGED <<up, tx, rxNext, txNext, check, isr, waiting, streams>>
  BY <1>2, <1>4 DEF DmaReceive, callers, Plain
<1>6. rx \in [Slots -> [owner : {"CPU", "DMA"}, piece : Piece,
                       cb : Requests \cup {None}]]
  BY DEF TypeOK
<1>7. TypeOK'
  <2>1. rx' \in [Slots -> [owner : {"CPU", "DMA"}, piece : Piece,
                          cb : Requests \cup {None}]]
    BY <1>4, <1>5, <1>6
  <2>2. dma' \in [rx : Slots, tx : Slots, busy : BOOLEAN, piece : Piece, eof : BOOLEAN]
    BY <1>4, <1>5 DEF TypeOK
  <2>3. intr' \in [pending : BOOLEAN, eof : Slots]
    BY <1>4, <1>5 DEF TypeOK
  <2> QED
    BY <1>5, <2>1, <2>2, <2>3 DEF TypeOK
<1>8. \A p \in Places :
         /\ rx'[After(b, p)].owner = IF p = f THEN "CPU" ELSE rx[After(b, p)].owner
         /\ rx'[After(b, p)].piece = rx[After(b, p)].piece
         /\ rx'[After(b, p)].cb = rx[After(b, p)].cb
  <2> TAKE p \in Places
  <2>1. After(b, p) \in Slots /\ (After(b, p) = After(b, f) <=> p = f)
    BY <1>1, <1>3, AfterType, AfterInjective, MemcpyAssumption DEF Places
  <2> QED
    BY <1>4, <1>5, <1>6, <2>1
<1>9. Ends(e)' /\ Count' = Count
  BY <1>5 DEF Ends, Count, Layout
<1>10. Sent(f + 1)' = f + 1 /\ Where(b, c, f + 1)'
  BY <1>1, <1>2, <1>3, <1>4, <1>5 DEF Layout, Where, Sent
<1>11. Owners(b, f + 1)'
  <2> SUFFICES ASSUME NEW p \in Places
               PROVE  /\ (rx'[After(b, p)].owner = "DMA")
                            <=> (f + 1 <= p /\ p < streams)
                      /\ (tx[After(b, p)].owner = "DMA")
                            <=> (f + 1 <= p /\ p < streams)
    BY <1>5, <1>10 DEF Owners, Places
  <2>1. /\ (rx[After(b, p)].owner = "DMA") <=> (f <= p /\ p < streams)
        /\ (tx[After(b, p)].owner = "DMA") <=> (f + 1 <= p /\ p < streams)
    BY <1>2 DEF Layout, Owners
  <2>2. p \in Int /\ f \in Int
    BY <1>1 DEF Places
  <2> QED
    BY <1>8, <2>1, <2>2
<1>12. Contents(e, b)'
  <2>1. \A i \in 1 .. Count : \A p \in e[i - 1] .. e[i] - 1 : p \in Places
    BY Within
  <2>2. \A p \in streams .. Backlog - 1 : p \in Places
    BY <1>1 DEF Places
  <2> QED
    BY <1>5, <1>8, <1>9, <2>1, <2>2 DEF Layout, Contents
<1>13. Carried(b, f + 1)'
  BY <1>5 DEF Carried, TypeOK
<1>14. Walked(e, b, c)'
  BY <1>5, <1>9 DEF Layout, Walked
<1>15. k < Count /\ e[k] <= f /\ f < e[k + 1] /\ dma.eof = (f = e[k + 1] - 1)
  <2>1. k < Count /\ e[k] <= f /\ f < e[k + 1]
    BY <1>3, Unfinished
  <2>2. k + 1 \in 1 .. Count /\ f \in e[(k + 1) - 1] .. e[k + 1] - 1
    BY <1>1, <2>1
  <2>3. tx[After(b, f)].eof = (f = e[k + 1] - 1)
    BY <2>2 DEF Layout, Contents
  <2> QED
    BY <1>2, <2>1, <2>3 DEF Layout, Carried
<1>16. Finished(e, f + 1, l)'
  <2>1. k + 1 \in 0 .. Count /\ k \in 0 .. Count
    BY <1>1, <1>15
  <2>2. e[k] \in Int /\ e[k + 1] \in Int /\ f \in Int
    BY <1>1, <2>1
  <2>3. CASE dma.eof
    <3>1. l = k + 1 /\ f = e[k + 1] - 1
      BY <1>15, <2>3
    <3>2. l < Count => e[l] < e[l + 1] /\ e[l + 1] \in Int
      <4>1. l < Count => l \in 0 .. Count /\ l + 1 \in 0 .. Count
        BY <1>1, <3>1
      <4>2. \A i, j \in 0 .. Count : i < j => e[i] < e[j]
        BY DEF Layout, Ends
      <4> QED
        BY <1>1, <3>1, <4>1, <4>2
    <3> QED
      BY <1>1, <1>9, <1>15, <2>1, <2>2, <3>1, <3>2 DEF Finished
  <2>4. CASE ~dma.eof
    <3>1. l = k /\ f # e[k + 1] - 1
      BY <1>15, <2>4
    <3> QED
      BY <1>9, <1>15, <2>1, <2>2, <3>1 DEF Finished
  <2> QED
    BY <2>3, <2>4
<1>17. Told(e, b, l, w)'
  <2>1. CASE dma.eof
    <3>1. l = k + 1 /\ intr'.pending /\ intr'.eof = After(b, e[l] - 1)
          /\ isr' = isr /\ isr.pc # "readEof"
      BY <1>5, <1>15, <2>1
    <3>2. isr.pc \in {"next", "look", "callback"} =>
             w \in 1 .. k /\ isr.eof = After(b, e[w] - 1)
      BY DEF Layout, Told
    <3> QED
      BY <1>1, <3>1, <3>2 DEF Told
  <2>2. CASE ~dma.eof
    BY <1>5, <2>2 DEF Layout, Told
  <2> QED
    BY <2>1, <2>2
<1> QED
  BY <1>7, <1>9, <1>10, <1>11, <1>12, <1>13, <1>14, <1>16, <1>17 DEF Layout

-----------------------------------------------------------------------------
\* The handler.

LEMMA EnterStep ==
    ASSUME TypeOK, NEW e, NEW b, NEW c, NEW f, NEW k, NEW w,
           Layout(e, b, c, f, k, w), IsrEnter
    PROVE  TypeOK' /\ Layout(e, b, c, f, k, w)'
<1>1. /\ isr.pc = "idle" /\ intr.pending
      /\ intr' = [intr EXCEPT !.pending = FALSE]
      /\ isr' = [isr EXCEPT !.pc = "readEof"]
      /\ UNCHANGED <<up, rx, tx, rxNext, txNext, check, dma, waiting, streams>>
  BY DEF IsrEnter, ringVars, callers
<1>2. TypeOK'
  BY <1>1 DEF TypeOK
<1>3. Count' = Count /\ Sent(f)' = Sent(f)
  BY <1>1 DEF Count, Sent
<1>4. (/\ Ends(e) /\ Where(b, c, f) /\ Owners(b, f) /\ Contents(e, b)
       /\ Carried(b, f) /\ Finished(e, f, k))'
  BY <1>1, <1>3 DEF Layout, Ends, Where, Owners, Contents, Carried, Finished
<1>5. Walked(e, b, c)' /\ Told(e, b, k, w)'
  BY <1>1, <1>3 DEF Layout, Walked, Told
<1> QED
  BY <1>2, <1>4, <1>5 DEF Layout

LEMMA ReadEofStep ==
    ASSUME TypeOK, NEW e, NEW b, NEW c, NEW f, NEW k, NEW w,
           Layout(e, b, c, f, k, w), IsrReadEof
    PROVE  TypeOK' /\ Layout(e, b, c, f, k, k)'
<1>1. /\ isr.pc = "readEof"
      /\ isr' = [isr EXCEPT !.pc = "next", !.eof = intr.eof]
      /\ UNCHANGED <<up, rx, tx, rxNext, txNext, check, dma, intr, waiting, streams>>
  BY DEF IsrReadEof, ringVars, callers
<1>2. TypeOK'
  BY <1>1 DEF TypeOK
<1>3. Count' = Count /\ Sent(f)' = Sent(f)
  BY <1>1 DEF Count, Sent
<1>4. (/\ Ends(e) /\ Where(b, c, f) /\ Owners(b, f) /\ Contents(e, b)
       /\ Carried(b, f) /\ Finished(e, f, k))'
  BY <1>1, <1>3 DEF Layout, Ends, Where, Owners, Contents, Carried, Finished
<1>5. Walked(e, b, c)'
  BY <1>1, <1>3 DEF Layout, Walked
<1>6. /\ isr'.pc = "next" /\ isr'.eof = After(b, e[k] - 1)
      /\ ~intr'.pending /\ k > 0 /\ k \in Nat
  BY <1>1, Bounds DEF Layout, Told, TypeOK
<1>7. Told(e, b, k, k)'
  BY <1>6 DEF Told
<1> QED
  BY <1>2, <1>4, <1>5, <1>7 DEF Layout

\* While the handler walks, the oldest request is finished, and it is not past it.
LEMMA Walking ==
    ASSUME TypeOK, NEW e, NEW b, NEW c, NEW f, NEW k, NEW w,
           Layout(e, b, c, f, k, w), isr.pc \in {"next", "look", "callback"}
    PROVE  /\ Count > 0 /\ k > 0 /\ w \in 1 .. k
           /\ e[1] \in 1 .. f /\ e[w] \in e[1] .. f /\ e[k] \in e[1] .. f
           /\ w > 1 => e[1] < e[w]
           /\ c <= e[1]
<1>1. w \in 1 .. k /\ k \in 0 .. Count /\ Count \in Nat /\ e[k] <= f
  BY Bounds DEF Layout, Told, Finished
<1>2. /\ 0 \in 0 .. Count /\ 1 \in 0 .. Count /\ w \in 0 .. Count
      /\ Count > 0 /\ k > 0
  BY <1>1
<1>3. /\ \A i, j \in 0 .. Count : i < j => e[i] < e[j]
      /\ \A i \in 0 .. Count : e[i] \in 0 .. streams
      /\ e[0] = 0 /\ streams \in 0 .. Backlog /\ f \in 0 .. streams
  BY Bounds DEF Layout, Ends
<1>4. /\ e[1] \in Int /\ e[w] \in Int /\ e[k] \in Int
      /\ 0 < e[1] /\ (w > 1 => e[1] < e[w]) /\ (k > 1 => e[1] < e[k])
      /\ (w < k => e[w] < e[k])
  BY <1>1, <1>2, <1>3
<1>5. c <= e[1]
  BY <1>2 DEF Layout, Walked
<1> QED
  BY <1>1, <1>2, <1>3, <1>4, <1>5

LEMMA NextStep ==
    ASSUME TypeOK, NEW e, NEW b, NEW c, NEW f, NEW k, NEW w,
           Layout(e, b, c, f, k, w), IsrNext
    PROVE  TypeOK' /\ Layout(e, b, c + 1, f, k, w)'
<1>1. /\ b \in Slots /\ f \in 0 .. streams /\ streams \in 0 .. Backlog
      /\ c \in 0 .. f /\ Count \in Nat
  BY Bounds
<1>2. isr.pc = "next" /\ Count > 0 /\ e[1] \in 1 .. f /\ c < e[1]
  BY Walking DEF IsrNext, Layout, Walked
<1>3. c \in Places /\ c < f
  BY <1>1, <1>2, MemcpyAssumption DEF Places
<1>4. check = After(b, c) /\ After(b, c) \in Slots
  BY <1>1, <1>3, AfterType, MemcpyAssumption DEF Layout, Where, Places
<1>5. Returned(check)
  <2>1. rx[check].owner # "DMA"
    BY <1>1, <1>3, <1>4 DEF Layout, Owners
  <2>2. rx[check].owner \in {"CPU", "DMA"}
    BY <1>4 DEF TypeOK
  <2> QED
    BY <2>1, <2>2 DEF Returned
<1>6. After(check, 1) = After(b, c + 1) /\ After(b, c + 1) \in Slots
  BY <1>1, <1>3, <1>4, AfterNext, AfterType, MemcpyAssumption DEF Places
<1>7. /\ isr' = [isr EXCEPT !.pc = "look", !.at = After(b, c)]
      /\ check' = After(b, c + 1)
      /\ UNCHANGED <<up, rx, tx, rxNext, txNext, dma, intr, waiting, streams>>
  BY <1>4, <1>5, <1>6 DEF IsrNext, ringVars, callers
<1>8. TypeOK'
  BY <1>4, <1>6, <1>7 DEF TypeOK
<1>9. Count' = Count /\ Sent(f)' = Sent(f)
  BY <1>7 DEF Count, Sent
<1>10. (/\ Ends(e) /\ Owners(b, f) /\ Contents(e, b)
        /\ Carried(b, f) /\ Finished(e, f, k))'
  BY <1>7, <1>9 DEF Layout, Ends, Owners, Contents, Carried, Finished
<1>11. Where(b, c + 1, f)'
  BY <1>1, <1>3, <1>7, <1>9 DEF Layout, Where
<1>12. Walked(e, b, c + 1)'
  <2>1. isr'.pc = "look" /\ isr'.at = After(b, (c + 1) - 1) /\ isr'.req = None
    BY <1>1, <1>2, <1>7 DEF TypeOK, Layout, Walked
  <2> QED
    BY <1>1, <1>2, <1>9, <2>1 DEF Walked
<1>13. Told(e, b, k, w)'
  BY <1>2, <1>7 DEF Layout, Told
<1> QED
  BY <1>8, <1>10, <1>11, <1>12, <1>13 DEF Layout

LEMMA LookStep ==
    ASSUME TypeOK, NEW e, NEW b, NEW c, NEW f, NEW k, NEW w,
           Layout(e, b, c, f, k, w), IsrLook
    PROVE  TypeOK' /\ Layout(e, b, c, f, k, w)'
<1>1. /\ b \in Slots /\ f \in 0 .. streams /\ streams \in 0 .. Backlog
      /\ c \in 0 .. f /\ Count \in Nat /\ e[0] = 0
      /\ \A i \in 1 .. Count : waiting[i].req \in Requests
  BY Bounds
<1>2. /\ isr.pc = "look" /\ Count > 0 /\ e[1] \in 1 .. f /\ e[w] \in e[1] .. f
      /\ c \in 1 .. e[1] /\ isr.at = After(b, c - 1)
      /\ isr.eof = After(b, e[w] - 1)
  <2>1. isr.pc = "look"
    BY DEF IsrLook
  <2>2. Count > 0 /\ e[1] \in 1 .. f /\ e[w] \in e[1] .. f /\ c <= e[1]
    BY <2>1, Walking
  <2>3. c >= 1 /\ isr.at = After(b, c - 1) /\ isr.eof = After(b, e[w] - 1)
    BY <2>1 DEF Layout, Walked, Told
  <2> QED
    BY <1>1, <2>1, <2>2, <2>3
<1>3. c - 1 \in Places /\ e[w] - 1 \in Places
  BY <1>1, <1>2, MemcpyAssumption DEF Places
<1>4. rx[isr.at].cb = IF c = e[1] THEN waiting[1].req ELSE None
  <2>1. 1 \in 1 .. Count /\ c - 1 \in e[1 - 1] .. e[1] - 1
    BY <1>1, <1>2
  <2>2. rx[After(b, c - 1)].cb = IF c - 1 = e[1] - 1 THEN waiting[1].req ELSE None
    BY <2>1 DEF Layout, Contents
  <2> QED
    BY <1>2, <2>2
<1>5. /\ isr' = IF c = e[1] THEN [isr EXCEPT !.pc = "callback", !.req = waiting[1].req]
               ELSE [isr EXCEPT !.pc = "next", !.req = None]
      /\ UNCHANGED <<up, rx, tx, rxNext, txNext, check, dma, intr, waiting, streams>>
  <2>1. waiting[1].req # None
    BY <1>1, <1>2, MemcpyAssumption
  <2>2. c < e[1] => isr.at # isr.eof
    BY <1>1, <1>2, <1>3, AfterInjective
  <2>3. UNCHANGED <<up, rx, tx, rxNext, txNext, check, dma, intr, waiting, streams>>
    BY DEF IsrLook, ringVars, callers
  <2>4. CASE c = e[1]
    BY <1>2, <1>4, <2>1, <2>3, <2>4 DEF IsrLook
  <2>5. CASE c # e[1]
    <3>1. rx[isr.at].cb = None /\ isr.at # isr.eof
      BY <1>2, <1>4, <2>2, <2>5
    <3> QED
      BY <2>3, <2>5, <3>1 DEF IsrLook, Continue
  <2> QED
    BY <2>4, <2>5
<1>7. /\ isr'.pc = IF c = e[1] THEN "callback" ELSE "next"
      /\ isr'.req = IF c = e[1] THEN waiting[1].req ELSE None
      /\ isr'.at = isr.at /\ isr'.eof = isr.eof
  BY <1>2, <1>5 DEF TypeOK
<1>8. TypeOK'
  <2>1. /\ isr'.pc \in {"idle", "readEof", "next", "look", "callback"}
        /\ isr'.req \in Requests \cup {None}
    BY <1>1, <1>2, <1>7
  <2>2. isr' \in [pc : {"idle", "readEof", "next", "look", "callback"},
                 eof : Slots, at : Slots, req : Requests \cup {None}]
    BY <1>5, <1>7, <2>1 DEF TypeOK
  <2> QED
    BY <1>5, <2>2 DEF TypeOK
<1>9. Count' = Count /\ Sent(f)' = Sent(f)
  BY <1>5 DEF Count, Sent
<1>10. (/\ Ends(e) /\ Where(b, c, f) /\ Owners(b, f) /\ Contents(e, b)
        /\ Carried(b, f) /\ Finished(e, f, k))'
  BY <1>5, <1>9 DEF Layout, Ends, Where, Owners, Contents, Carried, Finished
<1>11. Walked(e, b, c)'
  BY <1>1, <1>2, <1>5, <1>7, <1>9 DEF Walked
<1>12. Told(e, b, k, w)'
  BY <1>2, <1>5, <1>7 DEF Layout, Told
<1> QED
  BY <1>8, <1>10, <1>11, <1>12 DEF Layout

\* The request called back is the oldest one.
LEMMA CallsOldest ==
    ASSUME TypeOK, NEW e, NEW b, NEW c, NEW f, NEW k, NEW w,
           Layout(e, b, c, f, k, w), IsrReturn
    PROVE  /\ waiting' = Tail(waiting) /\ streams' = streams - e[1]
           /\ Count' = Count - 1
           /\ \A i \in 1 .. Count - 1 : waiting'[i] = waiting[i + 1]
           /\ waiting' \in Seq([req : Requests, size : 0 .. MaxSize])
<1>1. /\ isr.pc = "callback" /\ Count > 0 /\ Count \in Nat
      /\ DOMAIN waiting = 1 .. Count
  BY Bounds, Walking DEF IsrReturn
<1>2. isr.req = waiting[1].req
  BY <1>1 DEF Layout, Walked
<1>3. waiting' = RemoveAt(waiting, 1) /\ streams' = streams - waiting[1].size
  <2>1. PICK i \in DOMAIN waiting : /\ waiting[i].req = isr.req
                                   /\ waiting' = RemoveAt(waiting, i)
                                   /\ streams' = streams - waiting[i].size
    BY DEF IsrReturn, CalledBack
  <2>2. i \in 1 .. Count /\ 1 \in 1 .. Count
    BY <1>1
  <2>3. i = 1
    BY <1>2, <2>1, <2>2 DEF Layout, Ends
  <2> QED
    BY <2>1, <2>3
<1>4. e[1] = waiting[1].size
  <2>1. e[1] = e[1 - 1] + waiting[1].size /\ e[0] = 0
    BY <1>1 DEF Layout, Ends
  <2>2. waiting[1].size \in 0 .. MaxSize
    BY <1>1, Bounds
  <2> QED
    BY <2>1, <2>2, MemcpyAssumption
<1> DEFINE R == [req : Requests, size : 0 .. MaxSize]
<1>5. waiting \in Seq(R) /\ waiting # <<>>
  BY <1>1 DEF TypeOK, Count
<1>6. /\ RemoveAt(waiting, 1) = Tail(waiting)
      /\ Tail(waiting) \in Seq(R) /\ Len(Tail(waiting)) = Len(waiting) - 1
      /\ \A i \in 1 .. Len(waiting) - 1 : Tail(waiting)[i] = waiting[i + 1]
  <2> HIDE DEF R
  <2>1. RemoveAt(waiting, 1) = SubSeq(waiting, 1, 0) \o SubSeq(waiting, 2, Len(waiting))
    BY DEF RemoveAt
  <2>2. /\ Tail(waiting) \in Seq(R) /\ Len(Tail(waiting)) = Len(waiting) - 1
        /\ \A i \in 1 .. Len(waiting) - 1 : Tail(waiting)[i] = waiting[i + 1]
    BY <1>5, HeadTailProperties
  <2>3. SubSeq(waiting, 1, 0) = <<>>
    BY <1>5, SubSeqEmpty
  <2>4. SubSeq(waiting, 2, Len(waiting)) = Tail(waiting)
    BY <1>5, TailIsSubSeq
  <2>5. <<>> \o Tail(waiting) = Tail(waiting)
    BY <2>2, ConcatEmptySeq
  <2> QED
    BY <2>1, <2>2, <2>3, <2>4, <2>5
<1> QED
  BY <1>3, <1>4, <1>6 DEF Count

\* When it has returned, the places are counted from the next request.
LEMMA ReturnStep ==
    ASSUME TypeOK, NEW e, NEW b, NEW c, NEW f, NEW k, NEW w,
           Layout(e, b, c, f, k, w), IsrReturn,
           NEW n, n = e[1]
    PROVE  TypeOK' /\ \E d : Layout(d, After(b, n), 0, f - n, k - 1, w - 1)'
<1>l. PICK l : l = Count - 1
  OBVIOUS
<1>d. PICK d : d = [i \in 0 .. l |-> e[i + 1] - n]
  OBVIOUS
<1> DEFINE a == After(b, n)
           goal == After(b, e[w] - 1)
<1>1. /\ b \in Slots /\ f \in 0 .. streams /\ streams \in 0 .. Backlog
      /\ Count \in Nat /\ k \in 0 .. Count /\ e[0] = 0 /\ e[Count] = streams
      /\ \A i \in 0 .. Count : e[i] \in 0 .. streams
  BY Bounds
<1>2. /\ isr.pc = "callback" /\ l \in Nat /\ Count = l + 1
      /\ k \in 1 .. Count /\ w \in 1 .. k
      /\ n \in 1 .. f /\ e[w] \in n .. f /\ e[k] \in n .. f
      /\ (w > 1 => n < e[w])
  <2>1. isr.pc = "callback"
    BY DEF IsrReturn
  <2> QED
    BY <1>1, <1>l, <2>1, Walking
<1>3. c = n /\ isr.at = After(b, n - 1) /\ isr.eof = After(b, e[w] - 1)
      /\ (intr.pending <=> w < k)
  BY <1>2 DEF Layout, Walked, Told
<1>4. /\ waiting' = Tail(waiting) /\ streams' = streams - n /\ Count' = l
      /\ \A i \in 1 .. l : waiting'[i] = waiting[i + 1]
      /\ waiting' \in Seq([req : Requests, size : 0 .. MaxSize])
  BY <1>l, CallsOldest
<1>5. /\ n - 1 \in Places /\ e[w] - 1 \in Places /\ n \in 0 .. Backlog
      /\ a \in Slots /\ After(b, n - 1) \in Slots
  <2>1. n - 1 \in Places /\ e[w] - 1 \in Places /\ n \in 0 .. Backlog
    BY <1>1, <1>2, MemcpyAssumption DEF Places
  <2>2. n \in 0 .. 2 * Backlog /\ n - 1 \in 0 .. 2 * Backlog
    BY <1>2, <2>1, MemcpyAssumption
  <2> QED
    BY <1>1, <2>1, <2>2, AfterType
<1>6. isr.at = isr.eof <=> w = 1
  <2>1. isr.at = isr.eof => n - 1 = e[w] - 1
    BY <1>1, <1>3, <1>5, AfterInjective
  <2>2. w > 1 => n # e[w]
    BY <1>2
  <2> QED
    BY <1>2, <1>3, <2>1, <2>2
<1>7. /\ rx' = [rx EXCEPT ![After(b, n - 1)].cb = None]
      /\ isr' = IF w = 1 THEN IsrIdle ELSE [isr EXCEPT !.pc = "next", !.req = None]
      /\ UNCHANGED <<up, tx, rxNext, txNext, check, dma, intr>>
  BY <1>3, <1>6 DEF IsrReturn, Continue
<1>8. rx \in [Slots -> [owner : {"CPU", "DMA"}, piece : Piece,
                       cb : Requests \cup {None}]]
  BY DEF TypeOK
<1>9. TypeOK'
  <2>1. rx' \in [Slots -> [owner : {"CPU", "DMA"}, piece : Piece,
                          cb : Requests \cup {None}]]
    BY <1>5, <1>7, <1>8
  <2>2. 0 \in Slots
    BY MemcpyAssumption DEF Slots
  <2>3. isr' \in [pc : {"idle", "readEof", "next", "look", "callback"},
                 eof : Slots, at : Slots, req : Requests \cup {None}]
    BY <1>7, <2>2 DEF TypeOK, IsrIdle
  <2>4. streams' \in Nat
    BY <1>1, <1>2, <1>4
  <2> QED
    BY <1>4, <1>7, <2>1, <2>3, <2>4 DEF TypeOK
\* The new places are the old ones, and those of the request that is over.
<1>10. \A p \in Places :
          LET q == IF p + n < Backlog THEN p + n ELSE p + n - Backlog
          IN  /\ q \in Places /\ After(a, p) = After(b, q)
              /\ rx'[After(a, p)].owner = rx[After(b, q)].owner
              /\ rx'[After(a, p)].piece = rx[After(b, q)].piece
              /\ rx'[After(a, p)].cb = IF q = n - 1 THEN None ELSE rx[After(b, q)].cb
  <2> TAKE p \in Places
  <2> DEFINE q == IF p + n < Backlog THEN p + n ELSE p + n - Backlog
  <2>1. q \in Places
    BY <1>1, <1>2, MemcpyAssumption DEF Places
  <2>2. After(a, p) = After(b, q)
    BY <1>1, <1>5, AfterAfter, MemcpyAssumption DEF Places
  <2>3. After(b, q) \in Slots /\ (After(b, q) = After(b, n - 1) <=> q = n - 1)
    <3> HIDE DEF q
    <3> QED
      BY <1>1, <1>5, <2>1, AfterType, AfterInjective, MemcpyAssumption DEF Places
  <2> HIDE DEF q
  <2>4. /\ rx'[After(b, q)].owner = rx[After(b, q)].owner
        /\ rx'[After(b, q)].piece = rx[After(b, q)].piece
        /\ rx'[After(b, q)].cb = IF q = n - 1 THEN None ELSE rx[After(b, q)].cb
    BY <1>5, <1>7, <1>8, <2>3
  <2>5. /\ q \in Places /\ After(a, p) = After(b, q)
        /\ rx'[After(a, p)].owner = rx[After(b, q)].owner
        /\ rx'[After(a, p)].piece = rx[After(b, q)].piece
        /\ rx'[After(a, p)].cb = IF q = n - 1 THEN None ELSE rx[After(b, q)].cb
    BY <2>1, <2>2, <2>4
  <2> QED
    BY <2>5 DEF q
\* A number of places is counted from the new start.
<1>11. \A m \in n .. Backlog : After(a, m - n) = After(b, m)
  <2> TAKE m \in n .. Backlog
  <2>1. m - n \in 0 .. Backlog /\ n + (m - n) = m
    BY <1>1, <1>2, MemcpyAssumption
  <2>2. After(a, m - n) = IF n + (m - n) < Backlog THEN After(b, n + (m - n))
                          ELSE After(b, n + (m - n) - Backlog)
    BY <1>1, <1>5, <2>1, AfterAfter
  <2>3. m = Backlog => After(b, m) = After(b, m - Backlog)
    BY <1>1, AfterZero, MemcpyAssumption
  <2> QED
    BY <1>2, <2>1, <2>2, <2>3, MemcpyAssumption
<1>12. /\ \A i \in 0 .. l : i + 1 \in 0 .. Count /\ d[i] = e[i + 1] - n
                           /\ e[i + 1] \in n .. streams
       /\ d \in [0 .. l -> 0 .. Backlog]
  <2>1. \A i, j \in 0 .. Count : i < j => e[i] < e[j]
    BY DEF Layout, Ends
  <2>2. \A i \in 0 .. l : i + 1 \in 0 .. Count /\ e[i + 1] \in n .. streams
    <3> TAKE i \in 0 .. l
    <3>1. i + 1 \in 0 .. Count /\ 1 \in 0 .. Count
      BY <1>1, <1>2
    <3>2. i > 0 => e[1] < e[i + 1]
      BY <2>1, <3>1
    <3> QED
      BY <1>1, <1>2, <3>1, <3>2
  <2>3. d = [i \in 0 .. l |-> e[i + 1] - n]
    BY <1>d
  <2>4. \A i \in 0 .. l : e[i + 1] - n \in 0 .. Backlog
    BY <1>1, <1>2, <2>2, MemcpyAssumption
  <2> QED
    BY <2>2, <2>3, <2>4
<1>13. Ends(d)'
  <2>1. /\ \A i \in 1 .. Count : e[i] = e[i - 1] + waiting[i].size
        /\ \A i, j \in 0 .. Count : i < j => e[i] < e[j]
        /\ \A p \in 0 .. streams - 1 :
              \E i \in 1 .. Count : e[i - 1] <= p /\ p < e[i]
        /\ \A i, j \in 1 .. Count : waiting[i].req = waiting[j].req => i = j
    BY DEF Layout, Ends
  <2>2. d[0] = 0 /\ d[l] = streams - n
    <3>1. 0 \in 0 .. l /\ l \in 0 .. l /\ 0 + 1 = 1 /\ l + 1 = Count
      BY <1>1, <1>2
    <3> QED
      BY <1>1, <1>2, <1>12, <3>1
  <2>3. \A i \in 1 .. l : d[i] = d[i - 1] + waiting'[i].size
    <3> TAKE i \in 1 .. l
    <3>1. /\ i \in 0 .. l /\ i - 1 \in 0 .. l /\ (i - 1) + 1 = i
          /\ i + 1 \in 1 .. Count /\ (i + 1) - 1 = i
      BY <1>1, <1>2
    <3>2. d[i] = e[i + 1] - n /\ d[i - 1] = e[i] - n /\ e[i] \in Int
      BY <1>1, <1>12, <3>1
    <3>3. e[i + 1] = e[i] + waiting[i + 1].size
      BY <2>1, <3>1
    <3>4. waiting[i + 1].size \in Nat
      BY <3>1, Bounds, MemcpyAssumption
    <3>5. waiting'[i].size = waiting[i + 1].size
      BY <1>4
    <3>6. n \in Int
      BY <1>1, <1>2
    <3> QED
      BY <3>2, <3>3, <3>4, <3>5, <3>6
  <2>4. \A i, j \in 0 .. l : i < j => d[i] < d[j]
    <3> SUFFICES ASSUME NEW i \in 0 .. l, NEW j \in 0 .. l, i < j
                 PROVE  d[i] < d[j]
      OBVIOUS
    <3>1. /\ d[i] = e[i + 1] - n /\ d[j] = e[j + 1] - n
          /\ e[i + 1] \in n .. streams /\ e[j + 1] \in n .. streams
      BY <1>12
    <3>2. i + 1 \in 0 .. Count /\ j + 1 \in 0 .. Count /\ i + 1 < j + 1
      BY <1>12
    <3>3. e[i + 1] < e[j + 1]
      BY <2>1, <3>2
    <3> QED
      BY <1>1, <1>2, <3>1, <3>3
  <2>5. \A p \in 0 .. (streams - n) - 1 :
           \E i \in 1 .. l : d[i - 1] <= p /\ p < d[i]
    <3> TAKE p \in 0 .. (streams - n) - 1
    <3>1. p + n \in 0 .. streams - 1
      BY <1>1, <1>2
    <3>2. PICK j \in 1 .. Count : e[j - 1] <= p + n /\ p + n < e[j]
      BY <2>1, <3>1
    <3>3. j # 1
      BY <1>1, <1>2, <3>1, <3>2
    <3>4. /\ j - 1 \in 1 .. l /\ j - 1 \in 0 .. l /\ j - 2 \in 0 .. l
          /\ (j - 1) + 1 = j /\ (j - 2) + 1 = j - 1 /\ (j - 1) - 1 = j - 2
      BY <1>1, <1>2, <3>3
    <3>5. /\ d[j - 1] = e[j] - n /\ d[(j - 1) - 1] = e[j - 1] - n
          /\ e[j] \in Int /\ e[j - 1] \in Int
      BY <1>1, <1>12, <3>4
    <3>6. d[(j - 1) - 1] <= p /\ p < d[j - 1]
      BY <1>2, <3>1, <3>2, <3>5
    <3> QED
      BY <3>4, <3>6
  <2>6. \A i, j \in 1 .. l : waiting'[i].req = waiting'[j].req => i = j
    <3> TAKE i \in 1 .. l, j \in 1 .. l
    <3>1. i + 1 \in 1 .. Count /\ j + 1 \in 1 .. Count
      BY <1>1, <1>2
    <3>2. waiting[i + 1].req = waiting[j + 1].req => i + 1 = j + 1
      BY <2>1, <3>1
    <3>3. waiting'[i] = waiting[i + 1] /\ waiting'[j] = waiting[j + 1]
      BY <1>4
    <3> QED
      BY <3>2, <3>3
  <2> QED
    BY <1>4, <1>12, <2>2, <2>3, <2>4, <2>5, <2>6 DEF Ends
<1>14. Sent(f - n)' = Sent(f) - n /\ Sent(f) \in n .. streams
  BY <1>1, <1>2, <1>7 DEF Sent, Layout, Where
<1>15. Where(a, 0, f - n)'
  <2>1. /\ rxNext = After(b, streams) /\ txNext = After(b, streams)
        /\ check = After(b, n) /\ dma.rx = After(b, f) /\ dma.tx = After(b, Sent(f))
    BY <1>3 DEF Layout, Where
  <2>2. /\ streams \in n .. Backlog /\ f \in n .. Backlog
        /\ Sent(f) \in n .. Backlog
    BY <1>1, <1>2, <1>14, MemcpyAssumption
  <2>3. /\ After(a, streams - n) = After(b, streams)
        /\ After(a, f - n) = After(b, f) /\ After(a, Sent(f) - n) = After(b, Sent(f))
        /\ After(a, 0) = a
    BY <1>5, <1>11, <2>2, AfterZero
  <2>4. /\ 0 \in 0 .. f - n /\ f - n \in 0 .. streams - n
        /\ Sent(f) - n <= streams - n
    BY <1>1, <1>2, <1>14
  <2> QED
    BY <1>4, <1>5, <1>7, <1>14, <2>1, <2>3, <2>4 DEF Where
<1>16. Owners(a, f - n)'
  <2> SUFFICES ASSUME NEW p \in Places
               PROVE  /\ (rx'[After(a, p)].owner = "DMA")
                            <=> (f - n <= p /\ p < streams - n)
                      /\ (tx[After(a, p)].owner = "DMA")
                            <=> (Sent(f) - n <= p /\ p < streams - n)
    BY <1>4, <1>7, <1>14 DEF Owners, Places
  <2> DEFINE q == IF p + n < Backlog THEN p + n ELSE p + n - Backlog
  <2>1. /\ q \in Places /\ After(a, p) = After(b, q)
        /\ rx'[After(a, p)].owner = rx[After(b, q)].owner
    BY <1>10
  <2>2. /\ (rx[After(b, q)].owner = "DMA") <=> (f <= q /\ q < streams)
        /\ (tx[After(b, q)].owner = "DMA") <=> (Sent(f) <= q /\ q < streams)
    BY <2>1 DEF Layout, Owners
  <2>3. p \in 0 .. Backlog - 1 /\ Backlog \in Nat
    BY MemcpyAssumption DEF Places
  <2>4. /\ (f <= q /\ q < streams) <=> (f - n <= p /\ p < streams - n)
        /\ (Sent(f) <= q /\ q < streams) <=> (Sent(f) - n <= p /\ p < streams - n)
    BY <1>1, <1>2, <1>14, <2>3
  <2> QED
    BY <2>1, <2>2, <2>4
<1>17. Contents(d, a)'
  <2>1. ASSUME NEW i \in 1 .. l, NEW p \in d[i - 1] .. d[i] - 1
        PROVE  /\ rx'[After(a, p)].piece = [req |-> waiting'[i].req,
                                            no  |-> p - d[i - 1] + 1]
               /\ tx[After(a, p)].piece = rx'[After(a, p)].piece
               /\ tx[After(a, p)].eof = (p = d[i] - 1)
               /\ rx'[After(a, p)].cb = IF p = d[i] - 1 THEN waiting'[i].req ELSE None
    <3>1. /\ i \in 0 .. l /\ i - 1 \in 0 .. l /\ (i - 1) + 1 = i
          /\ i + 1 \in 1 .. Count /\ (i + 1) - 1 = i
      BY <1>1, <1>2
    <3>2. /\ d[i] = e[i + 1] - n /\ d[i - 1] = e[i] - n
          /\ e[i] \in n .. streams /\ e[i + 1] \in n .. streams
      BY <1>12, <3>1
    <3>3. p + n \in e[(i + 1) - 1] .. e[i + 1] - 1 /\ p \in Places
          /\ p + n < Backlog /\ p + n # n - 1
      BY <1>1, <1>2, <3>1, <3>2, MemcpyAssumption DEF Places
    <3>4. /\ rx[After(b, p + n)].piece = [req |-> waiting[i + 1].req,
                                         no  |-> (p + n) - e[(i + 1) - 1] + 1]
          /\ tx[After(b, p + n)].piece = rx[After(b, p + n)].piece
          /\ tx[After(b, p + n)].eof = (p + n = e[i + 1] - 1)
          /\ rx[After(b, p + n)].cb =
                IF p + n = e[i + 1] - 1 THEN waiting[i + 1].req ELSE None
      BY <3>1, <3>3 DEF Layout, Contents
    <3>5. /\ After(a, p) = After(b, p + n)
          /\ rx'[After(a, p)].piece = rx[After(b, p + n)].piece
          /\ rx'[After(a, p)].cb = rx[After(b, p + n)].cb
      BY <1>10, <3>3
    <3>6. /\ (p + n) - e[(i + 1) - 1] + 1 = p - d[i - 1] + 1
          /\ (p + n = e[i + 1] - 1) = (p = d[i] - 1)
      BY <1>1, <1>2, <3>1, <3>2, <3>3 DEF Places
    <3>7. waiting'[i] = waiting[i + 1]
      BY <1>4
    <3> QED
      BY <3>4, <3>5, <3>6, <3>7
  <2>2. ASSUME NEW p \in streams - n .. Backlog - 1
        PROVE  rx'[After(a, p)].cb = None
    <3> DEFINE q == IF p + n < Backlog THEN p + n ELSE p + n - Backlog
    <3>1. p \in Places
      BY <1>1, <1>2 DEF Places
    <3>2. /\ After(a, p) = After(b, q)
          /\ rx'[After(a, p)].cb = IF q = n - 1 THEN None ELSE rx[After(b, q)].cb
      BY <1>10, <3>1
    <3>3. CASE p + n < Backlog
      <4>1. q = p + n /\ q \in streams .. Backlog - 1
        BY <1>1, <1>2, <3>3, MemcpyAssumption
      <4>2. rx[After(b, q)].cb = None
        BY <4>1 DEF Layout, Contents
      <4> QED
        BY <3>2, <4>2
    <3>4. CASE p + n >= Backlog
      <4>1. q = p + n - Backlog /\ q \in 0 .. n - 1
        BY <1>1, <1>2, <3>4, MemcpyAssumption
      <4>2. q \in e[1 - 1] .. e[1] - 1 /\ 1 \in 1 .. Count
        BY <1>1, <1>2, <4>1
      <4>3. q # n - 1 => rx[After(b, q)].cb = None
        BY <4>2 DEF Layout, Contents
      <4> QED
        BY <3>2, <4>3
    <3> QED
      BY <1>1, <1>2, <3>1, <3>3, <3>4, MemcpyAssumption DEF Places
  <2> QED
    BY <1>4, <1>7, <2>1, <2>2 DEF Contents
<1>18. Carried(a, f - n)'
  <2>1. f \in n .. Backlog
    BY <1>1, <1>2, MemcpyAssumption
  <2>2. After(a, f - n) = After(b, f)
    BY <1>11, <2>1
  <2> QED
    BY <1>7, <2>2 DEF Layout, Carried
<1>19. Walked(d, a, 0)'
  <2>1. l > 0 => d[1] > 0
    <3>1. l > 0 => 0 \in 0 .. l /\ 1 \in 0 .. l
      BY <1>2
    <3> QED
      BY <1>13, <1>4, <3>1 DEF Ends
  <2>2. w > 1 => l > 0
    BY <1>1, <1>2
  <2>3. isr'.pc \in {"idle", "next"} /\ isr'.req = None
    BY <1>7 DEF IsrIdle, TypeOK
  <2>4. l > 0 => d[1] \in Int
    BY <1>2, <1>12
  <2> QED
    BY <1>2, <1>4, <2>1, <2>3, <2>4 DEF Walked
<1>20. Finished(d, f - n, k - 1)'
  <2>1. e[k] <= f /\ (k < Count => f < e[k + 1])
    BY DEF Layout, Finished
  <2>2. k - 1 \in 0 .. l /\ (k - 1) + 1 = k /\ d[k - 1] = e[k] - n
    BY <1>1, <1>2, <1>12
  <2>3. k - 1 < l => /\ k < Count /\ (k - 1) + 1 \in 0 .. l
                     /\ d[(k - 1) + 1] = e[k + 1] - n /\ e[k + 1] \in Int
    BY <1>1, <1>2, <1>12
  <2>4. f \in Int /\ n \in Int /\ e[k] \in Int
    BY <1>1, <1>2
  <2>5. k - 1 < l => f - n < d[(k - 1) + 1]
    BY <2>1, <2>2, <2>3, <2>4
  <2>6. d[k - 1] <= f - n
    BY <2>1, <2>2, <2>4
  <2> QED
    BY <1>4, <2>2, <2>5, <2>6 DEF Finished
<1>21. Told(d, a, k - 1, w - 1)'
  <2>1. intr.pending => intr.eof = After(b, e[k] - 1) /\ k - 1 > 0
    BY <1>2, <1>3 DEF Layout, Told
  <2>2. /\ \A i \in 2 .. Count : d[i - 1] = e[i] - n /\ e[i] \in n .. streams
        /\ \A i \in 2 .. Count : e[i] > n
    <3> SUFFICES ASSUME NEW i \in 2 .. Count
                 PROVE  d[i - 1] = e[i] - n /\ e[i] \in n .. streams /\ e[i] > n
      OBVIOUS
    <3>1. i - 1 \in 0 .. l /\ (i - 1) + 1 = i /\ 1 \in 0 .. Count /\ i \in 0 .. Count
      BY <1>1, <1>2
    <3>2. e[1] < e[i]
      BY <3>1 DEF Layout, Ends
    <3> QED
      BY <1>1, <1>12, <3>1, <3>2
  <2>3. \A i \in 2 .. Count : After(a, d[i - 1] - 1) = After(b, e[i] - 1)
    <3> TAKE i \in 2 .. Count
    <3>1. /\ e[i] - 1 \in n .. Backlog
          /\ d[i - 1] - 1 = (e[i] - 1) - n
      BY <1>1, <1>2, <2>2, MemcpyAssumption
    <3>2. After(a, (e[i] - 1) - n) = After(b, e[i] - 1)
      BY <1>11, <3>1
    <3> QED
      BY <3>1, <3>2
  <2>4. CASE w = 1
    <3>1. isr'.pc = "idle"
      BY <1>7, <2>4 DEF IsrIdle
    <3>2. ~intr.pending => k - 1 = 0
      BY <1>2, <1>3, <2>4
    <3>3. intr.pending => k \in 2 .. Count
      BY <1>1, <1>2, <2>1
    <3> QED
      BY <1>7, <2>1, <2>3, <3>1, <3>2, <3>3 DEF Told
  <2>5. CASE w > 1
    <3>1. isr'.pc = "next" /\ isr'.eof = After(b, e[w] - 1)
      BY <1>2, <1>3, <1>7, <2>5 DEF TypeOK
    <3>2. w \in 2 .. Count /\ k \in 2 .. Count /\ w - 1 \in 1 .. k - 1
      BY <1>1, <1>2, <2>5
    <3>3. intr.pending <=> w - 1 < k - 1
      BY <1>2, <1>3
    <3> QED
      BY <1>7, <2>1, <2>3, <3>1, <3>2, <3>3 DEF Told
  <2> QED
    BY <1>2, <2>4, <2>5
<1> QED
  BY <1>9, <1>13, <1>15, <1>16, <1>17, <1>18, <1>19, <1>20, <1>21 DEF Layout

-----------------------------------------------------------------------------
\* The callers.

\* The descriptors past the last request are free to take in both rings.
LEMMA RoomPrepared ==
    ASSUME TypeOK, NEW e, NEW b, NEW c, NEW f, NEW k, NEW w,
           Layout(e, b, c, f, k, w), NEW size \in Nat, streams + size <= Backlog
    PROVE  /\ Prepared(rx, rxNext, size) = 0 .. size - 1
           /\ Prepared(tx, txNext, size) = 0 .. size - 1
<1>1. /\ b \in Slots /\ streams \in 0 .. Backlog /\ rxNext = After(b, streams)
      /\ txNext = After(b, streams)
  BY Bounds DEF Layout, Where
<1>2. ASSUME NEW j \in 0 .. size - 1
      PROVE  /\ rx[After(rxNext, j)].owner # "DMA"
             /\ tx[After(txNext, j)].owner # "DMA"
  <2>1. streams + j \in Places /\ j \in 0 .. Backlog /\ streams + j < Backlog
    BY <1>1, MemcpyAssumption DEF Places
  <2>2. After(After(b, streams), j) = After(b, streams + j)
    BY <1>1, <2>1, AfterAfter
  <2>3. ~(streams + j < streams)
    BY <1>1, <2>1
  <2> QED
    BY <1>1, <2>1, <2>2, <2>3 DEF Layout, Owners
<1>3. \A i \in 0 .. size - 1, j \in Int : j \in 0 .. i => j \in 0 .. size - 1
  OBVIOUS
<1> QED
  BY <1>2, <1>3 DEF Prepared

\* What a place holds when a request up to place t has been given to the DMA.
Given(b, r, t, p) ==
    IF streams <= p /\ p < t
    THEN /\ rx'[After(b, p)] = [owner |-> "DMA",
                                piece |-> [req |-> r, no |-> p - streams + 1],
                                cb    |-> IF p = t - 1 THEN r ELSE None]
         /\ tx'[After(b, p)] = [owner |-> "DMA",
                                piece |-> [req |-> r, no |-> p - streams + 1],
                                eof   |-> (p = t - 1)]
    ELSE rx'[After(b, p)] = rx[After(b, p)] /\ tx'[After(b, p)] = tx[After(b, p)]

LEMMA SubmitEffect ==
    ASSUME TypeOK, NEW e, NEW b, NEW c, NEW f, NEW k, NEW w, Plain,
           Layout(e, b, c, f, k, w),
           NEW r \in Requests, NEW size \in 0 .. MaxSize, Submit(r, size),
           NEW t, t = streams + size
    PROVE  /\ size \in 1 .. MaxSize /\ streams + size <= Backlog /\ up
           /\ \A i \in 1 .. Count : waiting[i].req # r
           /\ rxNext' = After(b, streams + size) /\ txNext' = After(b, streams + size)
           /\ waiting' = Append(waiting, [req |-> r, size |-> size])
           /\ streams' = streams + size
           /\ rx' \in [Slots -> [owner : {"CPU", "DMA"}, piece : Piece,
                                cb : Requests \cup {None}]]
           /\ tx' \in [Slots -> [owner : {"CPU", "DMA"}, piece : Piece, eof : BOOLEAN]]
           /\ \A p \in Places : Given(b, r, t, p)
<1>1. /\ b \in Slots /\ streams \in 0 .. Backlog /\ rxNext = After(b, streams)
      /\ txNext = After(b, streams) /\ DOMAIN waiting = 1 .. Count
  BY Bounds DEF Layout, Where
<1>2. /\ t = streams + size
      /\ size \in 1 .. MaxSize /\ size \in 1 .. Backlog
      /\ streams + size <= Backlog /\ streams + size \in 0 .. Backlog
  <2>1. size # 0 /\ streams + size <= Backlog
    BY DEF Submit, Allowed, Plain
  <2> QED
    BY <1>1, <2>1, MemcpyAssumption
<1>3. /\ Prepared(rx, rxNext, size) = 0 .. size - 1
      /\ Prepared(tx, txNext, size) = 0 .. size - 1
  BY <1>2, RoomPrepared
<1>4. Handed(size) = 0 .. size - 1 /\ (IF size = 0 THEN 0 ELSE size - 1) = size - 1
  BY <1>2 DEF Handed
<1>5. /\ up /\ \A i \in 1 .. Count : waiting[i].req # r
      /\ waiting' = Append(waiting, [req |-> r, size |-> size])
      /\ streams' = streams + size
      /\ rxNext' = After(rxNext, size - 1 + 1) /\ txNext' = After(txNext, size - 1 + 1)
  BY <1>1, <1>3, <1>4 DEF Submit
<1>6. After(rxNext, size - 1 + 1) = After(b, streams + size)
  <2>1. size - 1 + 1 = size /\ size \in 0 .. Backlog
    BY <1>2
  <2>2. After(After(b, streams), size) =
          IF streams + size < Backlog THEN After(b, streams + size)
          ELSE After(b, streams + size - Backlog)
    BY <1>1, <2>1, AfterAfter
  <2>3. streams + size = Backlog =>
           /\ After(b, streams + size) = b
           /\ After(b, streams + size - Backlog) = b
    BY <1>1, AfterZero, MemcpyAssumption
  <2> QED
    BY <1>1, <1>2, <2>1, <2>2, <2>3, MemcpyAssumption
<1> DEFINE NewRx(s, i) ==
               [owner |-> "DMA", piece |-> [req |-> r, no |-> i + 1],
                cb    |-> IF i = size - 1 THEN r ELSE rx[s].cb]
           NewTx(i) ==
               [owner |-> "DMA", piece |-> [req |-> r, no |-> i + 1],
                eof   |-> (i = size - 1)]
<1>7. /\ rx' = [s \in Slots |-> IF Distance(rxNext, s) \in 0 .. size - 1
                               THEN NewRx(s, Distance(rxNext, s)) ELSE rx[s]]
      /\ tx' = [s \in Slots |-> IF Distance(txNext, s) \in 0 .. size - 1
                               THEN NewTx(Distance(txNext, s)) ELSE tx[s]]
  <2>1. /\ rx' = [s \in Slots |-> rx'[s]] /\ tx' = [s \in Slots |-> tx'[s]]
    BY DEF Submit
  <2>2. ASSUME NEW s \in Slots, NEW i, i = Distance(rxNext, s)
        PROVE  rx'[s] = IF i \in 0 .. size - 1 THEN NewRx(s, i) ELSE rx[s]
    <3>1. /\ rx[s] \in [owner : {"CPU", "DMA"}, piece : Piece,
                        cb : Requests \cup {None}]
      BY DEF TypeOK
    <3>2. rx'[s] = LET d == IF i \in 0 .. size - 1
                           THEN [rx[s] EXCEPT !.piece = [req |-> r, no |-> i + 1]]
                           ELSE rx[s]
                       g == IF i \in 0 .. size - 1
                            THEN [d EXCEPT !.owner = "DMA"] ELSE d
                   IN  IF i = size - 1 THEN [g EXCEPT !.cb = r] ELSE g
      BY <1>3, <1>4, <2>2 DEF Submit
    <3>3. i = size - 1 => i \in 0 .. size - 1
      BY <1>2
    <3> QED
      BY <3>1, <3>2, <3>3
  <2>3. ASSUME NEW s \in Slots, NEW i, i = Distance(txNext, s)
        PROVE  tx'[s] = IF i \in 0 .. size - 1 THEN NewTx(i) ELSE tx[s]
    <3>1. tx[s] \in [owner : {"CPU", "DMA"}, piece : Piece, eof : BOOLEAN]
      BY DEF TypeOK
    <3>2. tx'[s] = LET d == IF i \in 0 .. size - 1
                           THEN [tx[s] EXCEPT !.piece = [req |-> r, no |-> i + 1]]
                           ELSE tx[s]
                       g == IF i \in 0 .. size - 1
                            THEN [d EXCEPT !.owner = "DMA"] ELSE d
                   IN  IF i \in 0 .. size - 1
                       THEN [g EXCEPT !.eof = (i = size - 1)] ELSE g
      BY <1>3, <1>4, <2>3 DEF Submit
    <3> QED
      BY <3>1, <3>2
  <2> HIDE DEF NewRx, NewTx
  <2> QED
    BY <2>1, <2>2, <2>3
<1>8. /\ rx' \in [Slots -> [owner : {"CPU", "DMA"}, piece : Piece,
                           cb : Requests \cup {None}]]
      /\ tx' \in [Slots -> [owner : {"CPU", "DMA"}, piece : Piece, eof : BOOLEAN]]
  <2>1. \A i \in 0 .. size - 1 : [req |-> r, no |-> i + 1] \in Piece
    BY <1>2, MemcpyAssumption DEF Piece
  <2>2. /\ rx \in [Slots -> [owner : {"CPU", "DMA"}, piece : Piece,
                             cb : Requests \cup {None}]]
        /\ tx \in [Slots -> [owner : {"CPU", "DMA"}, piece : Piece, eof : BOOLEAN]]
    BY DEF TypeOK
  <2>3. ASSUME NEW s \in Slots, NEW i \in 0 .. size - 1
        PROVE  /\ NewRx(s, i) \in [owner : {"CPU", "DMA"}, piece : Piece,
                                   cb : Requests \cup {None}]
               /\ NewTx(i) \in [owner : {"CPU", "DMA"}, piece : Piece, eof : BOOLEAN]
    BY <2>1, <2>2
  <2> HIDE DEF NewRx, NewTx
  <2> QED
    BY <1>7, <2>2, <2>3
<1>9. ASSUME NEW p \in Places
      PROVE  Given(b, r, t, p)
  <2> DEFINE i == Distance(After(b, streams), After(b, p))
  <2>1. p \in 0 .. Backlog - 1 /\ Backlog \in Nat /\ After(b, p) \in Slots
    BY <1>1, AfterType, MemcpyAssumption DEF Places
  <2>2. i = IF p < streams THEN p - streams + Backlog ELSE p - streams
    BY <1>1, DistanceIs
  <2> HIDE DEF i
  <2>3. i \in 0 .. size - 1 <=> streams <= p /\ p < t
    BY <1>1, <1>2, <2>1, <2>2
  <2>4. /\ rx'[After(b, p)] = IF i \in 0 .. size - 1 THEN NewRx(After(b, p), i)
                             ELSE rx[After(b, p)]
        /\ tx'[After(b, p)] = IF i \in 0 .. size - 1 THEN NewTx(i)
                             ELSE tx[After(b, p)]
    <3> HIDE DEF NewRx, NewTx
    <3> QED
      BY <1>1, <1>7, <2>1 DEF i
  <2>5. CASE streams <= p /\ p < t
    <3>1. /\ i = p - streams /\ i + 1 = p - streams + 1
          /\ (i = size - 1) = (p = t - 1)
      BY <1>1, <1>2, <2>1, <2>2, <2>5
    <3>2. rx[After(b, p)].cb = None
      <4>1. p \in streams .. Backlog - 1
        BY <1>1, <2>1, <2>5
      <4> QED
        BY <4>1 DEF Layout, Contents
    <3>3. rx'[After(b, p)] = NewRx(After(b, p), i) /\ tx'[After(b, p)] = NewTx(i)
      BY <2>3, <2>4, <2>5
    <3>4. rx'[After(b, p)] =
             [owner |-> "DMA", piece |-> [req |-> r, no |-> p - streams + 1],
              cb    |-> IF p = t - 1 THEN r ELSE None]
      BY <3>1, <3>2, <3>3
    <3>5. tx'[After(b, p)] =
             [owner |-> "DMA", piece |-> [req |-> r, no |-> p - streams + 1],
              eof   |-> (p = t - 1)]
      BY <3>1, <3>3
    <3>6. streams <= p /\ p < t
      BY <2>5
    <3> QED
      BY <3>4, <3>5, <3>6 DEF Given
  <2>6. CASE ~(streams <= p /\ p < t)
    BY <2>3, <2>4, <2>6 DEF Given
  <2> QED
    BY <2>5, <2>6
<1> QED
  BY <1>2, <1>5, <1>6, <1>8, <1>9, <1>1

LEMMA SubmitStep ==
    ASSUME TypeOK, NEW e, NEW b, NEW c, NEW f, NEW k, NEW w, Plain,
           Layout(e, b, c, f, k, w),
           NEW r \in Requests, NEW size \in 0 .. MaxSize, Submit(r, size)
    PROVE  TypeOK' /\ \E d : Layout(d, b, c, f, k, w)'
<1>l. PICK l : l = Count + 1
  OBVIOUS
<1>t. PICK t : t = streams + size
  OBVIOUS
<1>d. PICK d : d = [i \in 0 .. l |-> IF i = l THEN t ELSE e[i]]
  OBVIOUS
<1>1. /\ b \in Slots /\ f \in 0 .. streams /\ streams \in 0 .. Backlog
      /\ c \in 0 .. f /\ Count \in Nat /\ k \in 0 .. Count
      /\ e[0] = 0 /\ e[Count] = streams
      /\ l = Count + 1
  BY <1>l, Bounds
<1>2. /\ size \in 1 .. MaxSize /\ t = streams + size /\ t \in 1 .. Backlog
      /\ rxNext' = After(b, t) /\ txNext' = After(b, t) /\ streams' = t
      /\ streams < t
  <2>1. size \in 1 .. MaxSize /\ streams + size <= Backlog
    BY SubmitEffect
  <2>2. t \in 1 .. Backlog /\ streams < t
    BY <1>t, <1>1, <2>1, MemcpyAssumption
  <2>3. /\ rxNext' = After(b, streams + size) /\ txNext' = After(b, streams + size)
        /\ streams' = streams + size
    BY SubmitEffect
  <2> QED
    BY <1>t, <2>1, <2>2, <2>3
<1>3. UNCHANGED <<up, check, dma, intr, isr>>
  BY DEF Submit
<1>4. /\ waiting' \in Seq([req : Requests, size : 0 .. MaxSize])
      /\ Count' = l
      /\ \A i \in 1 .. Count : waiting'[i] = waiting[i]
      /\ waiting'[l] = [req |-> r, size |-> size]
  <2> DEFINE R == [req : Requests, size : 0 .. MaxSize]
             x == [req |-> r, size |-> size]
  <2>1. waiting \in Seq(R) /\ x \in R /\ waiting' = Append(waiting, x)
    BY SubmitEffect DEF TypeOK
  <2> HIDE DEF R, x
  <2>2. /\ Append(waiting, x) \in Seq(R)
        /\ Len(Append(waiting, x)) = Len(waiting) + 1
        /\ \A i \in 1 .. Len(waiting) : Append(waiting, x)[i] = waiting[i]
        /\ Append(waiting, x)[Len(waiting) + 1] = x
    BY <2>1, AppendProperties
  <2> QED
    BY <1>1, <2>1, <2>2 DEF Count, R, x
<1>5. TypeOK'
  <2>1. After(b, t) \in Slots
    BY <1>1, <1>2, AfterType, MemcpyAssumption
  <2>2. t \in Nat
    BY <1>2
  <2> QED
    BY <1>2, <1>3, <1>4, <2>1, <2>2, SubmitEffect DEF TypeOK
<1>6. /\ d \in [0 .. l -> 0 .. Backlog] /\ d[l] = t
      /\ \A i \in 0 .. Count : d[i] = e[i] /\ e[i] \in 0 .. streams
  <2>1. \A i \in 0 .. Count : e[i] \in 0 .. streams
    BY Bounds
  <2>2. \A i \in 0 .. l : i # l => i \in 0 .. Count
    BY <1>1
  <2>3. \A i \in 0 .. l : (IF i = l THEN t ELSE e[i]) \in 0 .. Backlog
    BY <1>1, <1>2, <2>1, <2>2, MemcpyAssumption
  <2>4. l \in 0 .. l /\ \A i \in 0 .. Count : i \in 0 .. l /\ i # l
    BY <1>1
  <2> QED
    BY <1>d, <2>1, <2>3, <2>4
<1>7. Ends(d)'
  <2>1. /\ \A i \in 1 .. Count : e[i] = e[i - 1] + waiting[i].size
        /\ \A i, j \in 0 .. Count : i < j => e[i] < e[j]
        /\ \A p \in 0 .. streams - 1 :
              \E i \in 1 .. Count : e[i - 1] <= p /\ p < e[i]
        /\ \A i, j \in 1 .. Count : waiting[i].req = waiting[j].req => i = j
    BY DEF Layout, Ends
  <2>2. d[0] = 0
    BY <1>1, <1>6
  <2>3. \A i \in 1 .. l : d[i] = d[i - 1] + waiting'[i].size
    <3> TAKE i \in 1 .. l
    <3>1. CASE i = l
      <4>1. i - 1 = Count /\ Count \in 0 .. Count
        BY <1>1, <3>1
      <4>2. waiting'[i].size = size
        BY <1>4, <3>1
      <4>3. d[i] = t /\ d[i - 1] = streams
        BY <1>1, <1>6, <3>1, <4>1
      <4> QED
        BY <1>2, <4>2, <4>3
    <3>2. CASE i # l
      <4>1. i \in 1 .. Count /\ i \in 0 .. Count /\ i - 1 \in 0 .. Count
        BY <1>1, <3>2
      <4> QED
        BY <1>4, <1>6, <2>1, <4>1
    <3> QED
      BY <3>1, <3>2
  <2>4. \A i, j \in 0 .. l : i < j => d[i] < d[j]
    <3> SUFFICES ASSUME NEW i \in 0 .. l, NEW j \in 0 .. l, i < j
                 PROVE  d[i] < d[j]
      OBVIOUS
    <3>1. i \in 0 .. Count /\ (j = l \/ j \in 0 .. Count)
      BY <1>1
    <3>2. CASE j = l
      <4>1. d[i] \in 0 .. streams /\ d[j] = t
        BY <1>6, <3>1, <3>2
      <4> QED
        BY <1>1, <1>2, <4>1
    <3>3. CASE j \in 0 .. Count
      BY <1>6, <2>1, <3>1, <3>3
    <3> QED
      BY <3>1, <3>2, <3>3
  <2>5. \A p \in 0 .. t - 1 : \E i \in 1 .. l : d[i - 1] <= p /\ p < d[i]
    <3> TAKE p \in 0 .. t - 1
    <3>1. CASE p < streams
      <4>1. PICK i \in 1 .. Count : e[i - 1] <= p /\ p < e[i]
        <5>1. p \in 0 .. streams - 1
          BY <1>1, <1>2, <3>1
        <5> QED
          BY <2>1, <5>1
      <4>2. i \in 1 .. l /\ i \in 0 .. Count /\ i - 1 \in 0 .. Count
        BY <1>1
      <4> QED
        BY <1>6, <4>1, <4>2
    <3>2. CASE p >= streams
      <4>1. l \in 1 .. l /\ l - 1 = Count /\ Count \in 0 .. Count
        BY <1>1
      <4>2. d[l - 1] = streams /\ d[l] = t
        BY <1>1, <1>6, <4>1
      <4>3. p < t
        BY <1>2
      <4> QED
        BY <3>2, <4>1, <4>2, <4>3
    <3> QED
      BY <1>1, <3>1, <3>2
  <2>6. \A i, j \in 1 .. l : waiting'[i].req = waiting'[j].req => i = j
    <3>1. \A i \in 1 .. l : i = l \/ i \in 1 .. Count
      BY <1>1
    <3>2. \A i \in 1 .. Count : waiting[i].req # r
      BY SubmitEffect
    <3>3. /\ waiting'[l].req = r
          /\ \A i \in 1 .. Count : waiting'[i].req = waiting[i].req
      BY <1>4
    <3> QED
      BY <2>1, <3>1, <3>2, <3>3
  <2> QED
    BY <1>2, <1>4, <1>6, <2>2, <2>3, <2>4, <2>5, <2>6 DEF Ends
<1>8. Sent(f)' = Sent(f) /\ Sent(f) \in 0 .. streams
  BY <1>1, <1>3 DEF Sent, Layout, Where
<1>9. Where(b, c, f)'
  BY <1>1, <1>2, <1>3, <1>8 DEF Layout, Where
<1>10. \A p \in Places :
          IF streams <= p /\ p < t
          THEN /\ rx'[After(b, p)] =
                     [owner |-> "DMA",
                      piece |-> [req |-> r, no |-> p - streams + 1],
                      cb    |-> IF p = t - 1 THEN r ELSE None]
               /\ tx'[After(b, p)] =
                     [owner |-> "DMA",
                      piece |-> [req |-> r, no |-> p - streams + 1],
                      eof   |-> (p = t - 1)]
          ELSE /\ rx'[After(b, p)] = rx[After(b, p)]
               /\ tx'[After(b, p)] = tx[After(b, p)]
  <2>1. \A p \in Places : Given(b, r, t, p)
    BY <1>t, SubmitEffect
  <2> QED
    BY <2>1 DEF Given
<1>11. Owners(b, f)'
  <2> SUFFICES ASSUME NEW p \in Places
               PROVE  /\ (rx'[After(b, p)].owner = "DMA") <=> (f <= p /\ p < t)
                      /\ (tx'[After(b, p)].owner = "DMA") <=> (Sent(f) <= p /\ p < t)
    BY <1>2, <1>8 DEF Owners, Places
  <2>1. /\ (rx[After(b, p)].owner = "DMA") <=> (f <= p /\ p < streams)
        /\ (tx[After(b, p)].owner = "DMA") <=> (Sent(f) <= p /\ p < streams)
    BY DEF Layout, Owners
  <2>2. p \in Int
    BY DEF Places
  <2>3. CASE streams <= p /\ p < t
    <3>1. rx'[After(b, p)].owner = "DMA" /\ tx'[After(b, p)].owner = "DMA"
      <4>1. /\ rx'[After(b, p)] =
                  [owner |-> "DMA",
                   piece |-> [req |-> r, no |-> p - streams + 1],
                   cb    |-> IF p = t - 1 THEN r ELSE None]
            /\ tx'[After(b, p)] =
                  [owner |-> "DMA",
                   piece |-> [req |-> r, no |-> p - streams + 1],
                   eof   |-> (p = t - 1)]
        BY <1>10, <2>3
      <4> QED
        BY <4>1
    <3>2. f <= p /\ Sent(f) <= p
      BY <1>1, <1>8, <2>2, <2>3
    <3> QED
      BY <2>3, <3>1, <3>2
  <2>4. CASE ~(streams <= p /\ p < t)
    <3>1. /\ rx'[After(b, p)] = rx[After(b, p)]
          /\ tx'[After(b, p)] = tx[After(b, p)]
      BY <1>10, <2>4
    <3>2. p < streams \/ p >= t
      BY <1>1, <1>2, <2>2, <2>4
    <3> QED
      BY <1>1, <1>2, <2>1, <2>2, <3>1, <3>2
  <2> QED
    BY <2>3, <2>4
<1>12. Contents(d, b)'
  <2>1. ASSUME NEW i \in 1 .. l, NEW p \in d[i - 1] .. d[i] - 1
        PROVE  /\ rx'[After(b, p)].piece = [req |-> waiting'[i].req,
                                            no  |-> p - d[i - 1] + 1]
               /\ tx'[After(b, p)].piece = rx'[After(b, p)].piece
               /\ tx'[After(b, p)].eof = (p = d[i] - 1)
               /\ rx'[After(b, p)].cb = IF p = d[i] - 1 THEN waiting'[i].req ELSE None
    <3>1. CASE i = l
      <4>1. i - 1 = Count /\ d[i - 1] = streams /\ d[i] = t
        <5>1. Count \in 0 .. Count /\ i - 1 = Count
          BY <1>1, <3>1
        <5> QED
          BY <1>1, <1>6, <3>1, <5>1
      <4>2. p \in Places /\ streams <= p /\ p < t
        BY <1>1, <1>2, <4>1, MemcpyAssumption DEF Places
      <4>3. /\ rx'[After(b, p)] =
                     [owner |-> "DMA",
                      piece |-> [req |-> r, no |-> p - streams + 1],
                      cb    |-> IF p = t - 1 THEN r ELSE None]
            /\ tx'[After(b, p)] =
                     [owner |-> "DMA",
                      piece |-> [req |-> r, no |-> p - streams + 1],
                      eof   |-> (p = t - 1)]
        BY <1>10, <4>2
      <4>4. waiting'[i].req = r
        BY <1>4, <3>1
      <4> QED
        BY <4>1, <4>3, <4>4
    <3>2. CASE i # l
      <4>1. i \in 1 .. Count /\ i \in 0 .. Count /\ i - 1 \in 0 .. Count
        BY <1>1, <3>2
      <4>2. d[i] = e[i] /\ d[i - 1] = e[i - 1] /\ p \in e[i - 1] .. e[i] - 1
        BY <1>6, <4>1
      <4>3. p \in Places /\ p < streams
        BY <4>1, <4>2, Within
      <4>4. /\ rx'[After(b, p)] = rx[After(b, p)]
            /\ tx'[After(b, p)] = tx[After(b, p)]
        <5>1. ~(streams <= p /\ p < t)
          BY <1>1, <4>3 DEF Places
        <5> QED
          BY <1>10, <4>3, <5>1
      <4>5. waiting'[i] = waiting[i]
        BY <1>4, <4>1
      <4>6. /\ rx[After(b, p)].piece = [req |-> waiting[i].req,
                                        no  |-> p - e[i - 1] + 1]
            /\ tx[After(b, p)].piece = rx[After(b, p)].piece
            /\ tx[After(b, p)].eof = (p = e[i] - 1)
            /\ rx[After(b, p)].cb = IF p = e[i] - 1 THEN waiting[i].req ELSE None
        BY <4>1, <4>2 DEF Layout, Contents
      <4> QED
        BY <4>2, <4>4, <4>5, <4>6
    <3> QED
      BY <3>1, <3>2
  <2>2. ASSUME NEW p \in t .. Backlog - 1
        PROVE  rx'[After(b, p)].cb = None
    <3>1. p \in Places /\ ~(streams <= p /\ p < t) /\ p \in streams .. Backlog - 1
      BY <1>1, <1>2 DEF Places
    <3>2. rx'[After(b, p)] = rx[After(b, p)]
      BY <1>10, <3>1
    <3> QED
      BY <3>1, <3>2 DEF Layout, Contents
  <2> QED
    BY <1>2, <1>4, <2>1, <2>2 DEF Contents
<1>13. Carried(b, f)'
  <2>1. dma.busy => f \in Places /\ f < streams
    BY <1>1, <1>8, MemcpyAssumption DEF Sent, Places
  <2>2. dma.busy => tx'[After(b, f)] = tx[After(b, f)]
    <3>1. f < streams => ~(streams <= f /\ f < t)
      BY <1>1
    <3> QED
      BY <1>10, <2>1, <3>1
  <2> QED
    BY <1>3, <2>2 DEF Layout, Carried
<1>14. Walked(d, b, c)'
  <2>1. l > 0 /\ 1 \in 1 .. l
    BY <1>1
  <2>2. CASE Count = 0
    <3>1. d[1] = t /\ c = 0 /\ isr.pc \in {"idle", "readEof", "next"} /\ isr.req = None
      <4>1. /\ c = 0 /\ ~(isr.pc \in {"look", "callback"})
            /\ isr.req = IF isr.pc = "callback" THEN waiting[1].req ELSE None
        BY <2>2 DEF Layout, Walked
      <4>2. isr.pc \in {"idle", "readEof", "next", "look", "callback"}
        BY DEF TypeOK
      <4>3. l = 1
        BY <1>1, <2>2
      <4> QED
        BY <1>6, <4>1, <4>2, <4>3
    <3> QED
      BY <1>2, <1>3, <1>4, <2>1, <3>1 DEF Walked
  <2>3. CASE Count > 0
    <3>1. 1 \in 0 .. Count /\ 1 \in 1 .. Count
      BY <1>1, <2>3
    <3>2. d[1] = e[1] /\ waiting'[1] = waiting[1]
      BY <1>4, <1>6, <3>1
    <3> QED
      BY <1>3, <1>4, <2>1, <2>3, <3>2 DEF Layout, Walked
  <2> QED
    BY <1>1, <2>2, <2>3
<1>15. Finished(d, f, k)'
  <2>1. k \in 0 .. Count /\ e[k] <= f /\ (k < Count => f < e[k + 1])
    BY DEF Layout, Finished
  <2>2. CASE k = Count
    <3>1. d[k] = e[k] /\ d[k + 1] = t /\ k + 1 = l
      BY <1>1, <1>6, <2>1, <2>2
    <3> QED
      BY <1>1, <1>2, <1>4, <2>1, <3>1 DEF Finished
  <2>3. CASE k < Count
    <3>1. d[k] = e[k] /\ d[k + 1] = e[k + 1]
      <4>1. k + 1 \in 0 .. Count
        BY <1>1, <2>3
      <4> QED
        BY <1>6, <2>1, <4>1
    <3> QED
      BY <1>1, <1>4, <2>1, <2>3, <3>1 DEF Finished
  <2> QED
    BY <1>1, <2>2, <2>3
<1>16. Told(d, b, k, w)'
  <2>1. \A i \in 1 .. k : d[i] = e[i]
    BY <1>1, <1>6
  <2>2. k > 0 => d[k] = e[k]
    BY <1>1, <1>6
  <2>3. w \in 1 .. k => d[w] = e[w]
    BY <2>1
  <2> QED
    BY <1>3, <2>2, <2>3 DEF Layout, Told
<1> QED
  BY <1>5, <1>7, <1>9, <1>11, <1>12, <1>13, <1>14, <1>15, <1>16 DEF Layout

\* A driver is uninstalled with nothing in its rings.
LEMMA UninstallStep ==
    ASSUME TypeOK, NEW e, NEW b, NEW c, NEW f, NEW k, NEW w,
           Layout(e, b, c, f, k, w), Uninstall
    PROVE  TypeOK' /\ Empty'
<1>1. Count = 0 /\ streams = 0
  <2>1. waiting = <<>>
    BY DEF Uninstall
  <2>2. Count = 0
    BY <2>1 DEF Count
  <2> QED
    BY <2>2, Bounds
<1>2. isr.pc = "idle" /\ isr.req = None
  BY DEF Uninstall, Layout, Walked
<1>3. Empty'
  BY <1>1, <1>2 DEF Uninstall, Empty, callers
<1>4. TypeOK'
  <2>1. 0 \in Slots /\ None \in Piece
    BY MemcpyAssumption DEF Slots, Piece
  <2>2. /\ rx' \in [Slots -> [owner : {"CPU", "DMA"}, piece : Piece,
                             cb : Requests \cup {None}]]
        /\ tx' \in [Slots -> [owner : {"CPU", "DMA"}, piece : Piece, eof : BOOLEAN]]
    BY <2>1 DEF Uninstall, FreeRx, FreeTx
  <2> QED
    BY <2>1, <2>2 DEF Uninstall, TypeOK, DmaIdle, NoIntr, callers
<1> QED
  BY <1>3, <1>4

-----------------------------------------------------------------------------
\* The refinement of CopyQueue: its queue and how many requests are copied.
Queued == [i \in DOMAIN waiting |-> waiting[i].req]
Done   == Cardinality({i \in DOMAIN waiting : Copied(waiting[i].req)})

\* Copied are the first k.
LEMMA CopiedFirst ==
    ASSUME TypeOK, NEW e, NEW b, NEW c, NEW f, NEW k, NEW w,
           Layout(e, b, c, f, k, w)
    PROVE  {i \in DOMAIN waiting : Copied(waiting[i].req)} = 1 .. k
<1>1. /\ b \in Slots /\ f \in 0 .. streams /\ streams \in 0 .. Backlog
      /\ Count \in Nat /\ k \in 0 .. Count /\ DOMAIN waiting = 1 .. Count
      /\ \A i \in 0 .. Count : e[i] \in 0 .. streams
      /\ \A i \in 1 .. Count : waiting[i].req \in Requests
  BY Bounds
<1>2. /\ \A i, j \in 0 .. Count : i < j => e[i] < e[j]
      /\ \A p \in 0 .. streams - 1 :
            \E i \in 1 .. Count : e[i - 1] <= p /\ p < e[i]
      /\ \A i, j \in 1 .. Count : waiting[i].req = waiting[j].req => i = j
  BY DEF Layout, Ends
<1>3. e[k] <= f /\ (k < Count => f < e[k + 1])
  BY DEF Layout, Finished
<1>4. ASSUME NEW i \in 1 .. Count, i <= k
      PROVE  Copied(waiting[i].req)
  <2> SUFFICES ASSUME NEW s \in Slots, rx[s].owner = "DMA", rx[s].piece # None,
                      rx[s].piece.req = waiting[i].req
               PROVE  FALSE
    BY DEF Copied
  <2>1. PICK p \in Places : s = After(b, p)
    BY <1>1, AfterOnto
  <2>2. f <= p /\ p < streams /\ p \in 0 .. streams - 1
    <3>1. f <= p /\ p < streams
      BY <2>1 DEF Layout, Owners
    <3> QED
      BY <1>1, <3>1 DEF Places
  <2>3. PICK j \in 1 .. Count : e[j - 1] <= p /\ p < e[j]
    BY <1>2, <2>2
  <2>4. rx[s].piece.req = waiting[j].req
    <3>1. p \in e[j - 1] .. e[j] - 1
      <4>1. j - 1 \in 0 .. Count /\ j \in 0 .. Count
        BY <1>1
      <4>2. e[j - 1] \in Int /\ e[j] \in Int
        BY <1>1, <4>1
      <4> QED
        BY <2>2, <2>3, <4>2
    <3>2. rx[After(b, p)].piece = [req |-> waiting[j].req, no |-> p - e[j - 1] + 1]
      BY <3>1 DEF Layout, Contents
    <3> QED
      BY <2>1, <3>2
  <2>5. i = j
    BY <1>2, <2>4
  <2>6. i \in 0 .. Count /\ k \in 0 .. Count
    BY <1>1
  <2>7. e[i] \in Int /\ e[k] \in Int /\ e[i] <= e[k]
    <3>1. e[i] \in Int /\ e[k] \in Int
      BY <1>1, <2>6
    <3>2. i < k => e[i] < e[k]
      BY <1>2, <2>6
    <3>3. i < k \/ i = k
      BY <1>4, <2>6
    <3> QED
      BY <3>1, <3>2, <3>3
  <2>8. p < e[i] /\ p \in Int /\ f \in Int
    BY <1>1, <2>2, <2>3, <2>5
  <2> QED
    BY <1>3, <2>2, <2>7, <2>8
<1>5. ASSUME NEW i \in 1 .. Count, i > k
      PROVE  ~Copied(waiting[i].req)
  <2> DEFINE p == e[i] - 1
  <2>1. f < e[i]
    <3>1. k + 1 \in 0 .. Count /\ i \in 0 .. Count /\ k < Count
      BY <1>1, <1>5
    <3>2. e[k + 1] <= e[i]
      BY <1>1, <1>2, <1>5, <3>1
    <3> QED
      BY <1>1, <1>3, <3>1, <3>2
  <2>2. i \in 1 .. Count /\ i - 1 \in 0 .. Count /\ i \in 0 .. Count /\ i - 1 < i
    BY <1>1
  <2>3. e[i - 1] < e[i] /\ e[i - 1] \in 0 .. streams /\ e[i] \in 0 .. streams
    BY <1>1, <1>2, <2>2
  <2>4. p \in e[i - 1] .. e[i] - 1 /\ f <= p /\ p < streams /\ p \in Places
    BY <1>1, <2>1, <2>3, MemcpyAssumption DEF Places
  <2>5. rx[After(b, p)].owner = "DMA"
    <3> HIDE DEF p
    <3> QED
      BY <2>4 DEF Layout, Owners
  <2>6. rx[After(b, p)].piece = [req |-> waiting[i].req, no |-> p - e[i - 1] + 1]
    <3> HIDE DEF p
    <3> QED
      BY <2>4 DEF Layout, Contents
  <2>7. After(b, p) \in Slots
    <3> HIDE DEF p
    <3> QED
      BY <1>1, <2>4, AfterType, MemcpyAssumption DEF Places
  <2>8. rx[After(b, p)].piece # None
    <3>1. waiting[i].size \in 0 .. MaxSize
      BY Bounds
    <3>2. e[i] = e[i - 1] + waiting[i].size
      BY DEF Layout, Ends
    <3>5. p - e[i - 1] + 1 = waiting[i].size /\ waiting[i].size \in 1 .. MaxSize
      BY <1>1, <2>3, <3>1, <3>2, MemcpyAssumption
    <3>3. [req |-> waiting[i].req, no |-> p - e[i - 1] + 1] # None
      <4> HIDE DEF p
      <4> QED
        BY <1>1, <3>5, MemcpyAssumption
    <3> QED
      BY <2>6, <3>3
  <2> QED
    BY <2>5, <2>6, <2>7, <2>8 DEF Copied
<1> QED
  BY <1>1, <1>4, <1>5

\* CopyQueue has as many requests done as the DMA has finished.
DoneOk == \A e, b, c, f, k, w : TypeOK /\ Layout(e, b, c, f, k, w) => Done = k

LEMMA DoneIs == DoneOk
<1> SUFFICES ASSUME NEW e, NEW b, NEW c, NEW f, NEW k, NEW w,
                    TypeOK, Layout(e, b, c, f, k, w)
             PROVE  Done = k
  BY DEF DoneOk
<1>1. Done = Cardinality(1 .. k)
  BY CopiedFirst DEF Done
<1>2. k \in Nat
  BY Bounds
<1>3. 1 \in Int /\ k \in Int
  BY <1>2
<1>4. Cardinality(1 .. k) = IF 1 > k THEN 0 ELSE k - 1 + 1
  BY <1>3, FS_Interval
<1> QED
  BY <1>1, <1>2, <1>4

LEMMA DoneIsThen == DoneOk'
  BY DoneIs, PTL

\* Each step keeps the layout, and is a step of CopyQueue or none.
LEMMA SubmitMaps ==
    ASSUME Inv, Plain, NEW r \in Requests, NEW size \in 0 .. MaxSize, Submit(r, size)
    PROVE  Inv' /\ Queue!Accept(r)
<1>1. PICK e, b, c, f, k, w : Layout(e, b, c, f, k, w)
  BY DEF Inv
<1>2. TypeOK /\ TypeOK' /\ \E d : Layout(d, b, c, f, k, w)'
  BY <1>1, SubmitStep DEF Inv
<1>3. Done = k /\ Done' = k
  BY <1>1, <1>2, DoneIs, DoneIsThen DEF DoneOk
<1>4. /\ up' /\ waiting' = Append(waiting, [req |-> r, size |-> size])
  <2>1. waiting' = Append(waiting, [req |-> r, size |-> size])
    <3>1. PICK t : t = streams + size
      OBVIOUS
    <3> QED
      BY <1>1, <1>2, <3>1, SubmitEffect
  <2> QED
    BY <2>1 DEF Submit
<1>5. Queued' = Append(Queued, r)
  <2> DEFINE x == [req |-> r, size |-> size]
  <2>1. waiting \in Seq([req : Requests, size : 0 .. MaxSize])
    BY <1>2 DEF TypeOK
  <2> QED
    BY <1>4, <2>1 DEF Queued
<1> QED
  BY <1>2, <1>3, <1>4, <1>5 DEF Inv, Queue!Accept, Queued, Done

LEMMA DoneSame ==
    ASSUME TypeOK, TypeOK', NEW e, NEW b, NEW c, NEW f, NEW k, NEW w,
           Layout(e, b, c, f, k, w), UNCHANGED waiting,
           NEW d, NEW a, NEW g, NEW h, NEW v, Layout(d, a, g, h, k, v)'
    PROVE  UNCHANGED <<Queued, Done>>
  BY DoneIs, DoneIsThen DEF DoneOk, Queued

LEMMA InstallMaps ==
    ASSUME Inv, Install
    PROVE  Inv' /\ UNCHANGED <<Queued, Done>>
<1>1. PICK e, b, c, f, k, w : Layout(e, b, c, f, k, w)
  BY DEF Inv
<1>2. up' /\ UNCHANGED <<rx, tx, rxNext, txNext, check, dma, intr, isr, waiting, streams>>
  BY DEF Install, ringVars, callers
<1>3. TypeOK /\ TypeOK'
  BY <1>2 DEF Inv, TypeOK, Install
<1>4. Count' = Count /\ Sent(f)' = Sent(f)
  BY <1>2 DEF Count, Sent
<1>5. Layout(e, b, c, f, k, w)'
  BY <1>1, <1>2, <1>4 DEF Layout, Ends, Where, Owners, Contents, Carried, Walked,
                          Finished, Told
<1> QED
  BY <1>1, <1>2, <1>3, <1>5, DoneSame DEF Inv

LEMMA UninstallMaps ==
    ASSUME Inv, Uninstall
    PROVE  Inv' /\ UNCHANGED <<Queued, Done>>
<1>1. PICK e, b, c, f, k, w : Layout(e, b, c, f, k, w)
  BY DEF Inv
<1>2. TypeOK' /\ Empty' /\ TypeOK
  BY <1>1, UninstallStep DEF Inv
<1>3. (\E e0, b0, c0, f0, k0, w0 : Layout(e0, b0, c0, f0, k0, w0))'
  BY <1>2, EmptyLayoutThen DEF Laid
<1>4. waiting = <<>> /\ waiting' = <<>>
  BY <1>2 DEF Uninstall, Empty
<1>5. Done' = Done /\ Queued' = Queued
  <2>1. DOMAIN waiting = {} /\ DOMAIN waiting' = {}
    BY <1>4
  <2> QED
    BY <1>4, <2>1 DEF Done, Queued
<1> QED
  BY <1>2, <1>3, <1>4, <1>5 DEF Inv

LEMMA DmaMaps ==
    ASSUME Inv, Plain, Hardware
    PROVE  Inv' /\ (Queue!Copy \/ UNCHANGED <<Queued, Done>>)
<1>1. PICK e, b, c, f, k, w : Layout(e, b, c, f, k, w)
  BY DEF Inv
<1>2. TypeOK /\ (~up => waiting = <<>>)
  BY DEF Inv
<1>3. UNCHANGED <<up, waiting>>
  BY DEF Hardware, DmaSend, DmaReceive, callers
<1>4. CASE DmaSend
  <2>1. TypeOK' /\ Layout(e, b, c, f, k, w)'
    BY <1>1, <1>2, <1>4, SendStep
  <2> QED
    BY <1>1, <1>2, <1>3, <2>1, DoneSame DEF Inv
<1>5. CASE DmaReceive
  <2>1. PICK l : l = IF dma.eof THEN k + 1 ELSE k
    OBVIOUS
  <2>2. TypeOK' /\ Layout(e, b, c, f + 1, l, w)'
    BY <1>1, <1>2, <1>5, <2>1, ReceiveStep
  <2>3. Inv'
    BY <1>2, <1>3, <2>2 DEF Inv
  <2>4. Done = k /\ Done' = l /\ Queued' = Queued
    BY <1>1, <1>2, <1>3, <2>2, DoneIs, DoneIsThen DEF DoneOk, Queued
  <2>5. k < l => k < Len(Queued)
    <3>1. Count' = Count /\ l \in 0 .. Count
      <4>1. Count' = Count
        BY <1>3 DEF Count
      <4>2. l \in 0 .. Count'
        BY <2>2 DEF Layout, Finished
      <4> QED
        BY <4>1, <4>2
    <3>2. Len(Queued) = Count /\ k \in Int /\ Count \in Int
      BY <1>1, <1>2, Bounds DEF Queued, Count, TypeOK
    <3> QED
      BY <3>1, <3>2
  <2>6. k \in Int
    BY <1>1, <1>2, Bounds
  <2> QED
    BY <2>1, <2>3, <2>4, <2>5, <2>6 DEF Queue!Copy, Queued, Done
<1> QED
  BY <1>4, <1>5 DEF Hardware

LEMMA IsrMaps ==
    ASSUME Inv, Isr
    PROVE  Inv' /\ (Queue!Notify \/ UNCHANGED <<Queued, Done>>)
<1>1. PICK e, b, c, f, k, w : Layout(e, b, c, f, k, w)
  BY DEF Inv
<1>2. TypeOK /\ (~up => waiting = <<>>)
  BY DEF Inv
<1>3. CASE IsrReturn
  <2>1. PICK n : n = e[1]
    OBVIOUS
  <2>2. TypeOK' /\ \E d : Layout(d, After(b, n), 0, f - n, k - 1, w - 1)'
    BY <1>1, <1>2, <1>3, <2>1, ReturnStep
  <2>3. Done = k /\ Done' = k - 1
    BY <1>1, <1>2, <2>2, DoneIs, DoneIsThen DEF DoneOk
  <2>4. waiting' = Tail(waiting) /\ waiting # <<>> /\ k > 0
    <3>1. isr.pc \in {"next", "look", "callback"}
      BY <1>3 DEF IsrReturn
    <3>2. Count > 0 /\ k > 0
      BY <1>1, <1>2, <3>1, Walking
    <3> QED
      BY <1>1, <1>2, <1>3, <3>2, CallsOldest DEF Count
  <2>5. Queued' = Tail(Queued)
    <3>1. waiting \in Seq([req : Requests, size : 0 .. MaxSize])
      BY <1>2 DEF TypeOK
    <3> QED
      BY <2>4, <3>1 DEF Queued
  <2>6. Inv'
    <3>1. up
      BY <1>2, <2>4
    <3>2. up' = up
      BY <1>3 DEF IsrReturn
    <3> QED
      BY <2>2, <3>1, <3>2 DEF Inv
  <2> QED
    BY <2>3, <2>4, <2>5, <2>6 DEF Queue!Notify, Queued, Done
<1>4. CASE IsrEnter \/ IsrReadEof \/ IsrNext \/ IsrLook
  <2>1. UNCHANGED <<up, waiting>>
    BY <1>4 DEF IsrEnter, IsrReadEof, IsrNext, IsrLook, callers
  <2>2. TypeOK' /\ \E g, v : Layout(e, b, g, f, k, v)'
    <3>1. CASE IsrEnter
      BY <1>1, <1>2, <3>1, EnterStep
    <3>2. CASE IsrReadEof
      BY <1>1, <1>2, <3>2, ReadEofStep
    <3>3. CASE IsrNext
      BY <1>1, <1>2, <3>3, NextStep
    <3>4. CASE IsrLook
      BY <1>1, <1>2, <3>4, LookStep
    <3> QED
      BY <1>4, <3>1, <3>2, <3>3, <3>4
  <2>3. UNCHANGED <<Queued, Done>>
    BY <1>1, <1>2, <2>1, <2>2, DoneSame
  <2> QED
    BY <1>2, <2>1, <2>2, <2>3 DEF Inv
<1> QED
  BY <1>3, <1>4 DEF Isr

LEMMA NextMaps ==
    ASSUME Plain
    PROVE  Inv /\ [Next]_vars => Inv' /\ [Queue!Next]_<<Queued, Done>>
<1> SUFFICES ASSUME Inv, [Next]_vars
             PROVE  Inv' /\ [Queue!Next]_<<Queued, Done>>
  OBVIOUS
<1>1. CASE UNCHANGED vars
  <2>1. PICK e, b, c, f, k, w : Layout(e, b, c, f, k, w)
    BY DEF Inv
  <2>2. Count' = Count /\ Sent(f)' = Sent(f)
    BY <1>1 DEF vars, Count, Sent
  <2>3. TypeOK' /\ Layout(e, b, c, f, k, w)'
    BY <1>1, <2>1, <2>2 DEF vars, Inv, TypeOK, Layout, Ends, Where, Owners, Contents,
                            Carried, Walked, Finished, Told
  <2> QED
    BY <1>1, <2>1, <2>3, DoneSame DEF vars, Inv
<1>2. CASE Next
  <2>1. CASE Install
    BY <2>1, InstallMaps
  <2>2. CASE Uninstall
    BY <2>2, UninstallMaps
  <2>3. ASSUME NEW r \in Requests, NEW size \in 0 .. MaxSize, Submit(r, size)
        PROVE  Inv' /\ [Queue!Next]_<<Queued, Done>>
    BY <2>3, SubmitMaps DEF Queue!Next
  <2>4. CASE Hardware
    BY <2>4, DmaMaps DEF Queue!Next
  <2>5. CASE Isr
    BY <2>5, IsrMaps DEF Queue!Next
  <2> QED
    BY <1>2, <2>1, <2>2, <2>3, <2>4, <2>5 DEF Next, Caller
<1> QED
  BY <1>1, <1>2

-----------------------------------------------------------------------------
LEMMA Invariance == ASSUME Plain PROVE Spec => []Inv
<1>1. Inv /\ [Next]_vars => Inv'
  BY NextMaps
<1> QED
  BY <1>1, InvInit, PTL DEF Spec

\* The DMA never owns a buffer of a request that is over (esp_async_memcpy.c
\* calls back when the last piece is written, and never before).
THEOREM BuffersHeldCorrect == ASSUME Plain PROVE Spec => []BuffersHeld
<1>1. Inv => BuffersHeld
  <2> SUFFICES ASSUME Inv, NEW s \in Slots, rx[s].owner = "DMA", rx[s].piece # None
               PROVE  \E i \in DOMAIN waiting : waiting[i].req = rx[s].piece.req
    BY DEF BuffersHeld
  <2>1. PICK e, b, c, f, k, w : TypeOK /\ Layout(e, b, c, f, k, w)
    BY DEF Inv
  <2>2. /\ b \in Slots /\ streams \in 0 .. Backlog /\ f \in 0 .. streams
        /\ DOMAIN waiting = 1 .. Count
    BY <2>1, Bounds
  <2>3. PICK p \in Places : s = After(b, p)
    BY <2>2, AfterOnto
  <2>4. p \in 0 .. streams - 1
    <3>1. f <= p /\ p < streams
      BY <2>1, <2>3 DEF Layout, Owners
    <3> QED
      BY <2>2, <3>1 DEF Places
  <2>5. PICK i \in 1 .. Count : p \in e[i - 1] .. e[i] - 1
    BY <2>1, <2>4, InRequest
  <2>6. rx[After(b, p)].piece = [req |-> waiting[i].req, no |-> p - e[i - 1] + 1]
    BY <2>1, <2>5 DEF Layout, Contents
  <2> QED
    BY <2>2, <2>3, <2>6
<1> QED
  BY <1>1, Invariance, PTL

\* esp_async_memcpy refuses no caller that stays within the backlog: it finds as
\* many free descriptors in both rings.
THEOREM NeverRefusedCorrect == ASSUME Plain PROVE Spec => []NeverRefused
<1>1. Inv => NeverRefused
  <2> SUFFICES ASSUME Inv, NEW size \in 0 .. Backlog, streams + size <= Backlog
               PROVE  0 .. size - 1 \subseteq Prepared(rx, rxNext, size)
                                             \cap Prepared(tx, txNext, size)
    BY DEF NeverRefused
  <2>1. PICK e, b, c, f, k, w : TypeOK /\ Layout(e, b, c, f, k, w)
    BY DEF Inv
  <2>2. size \in Nat
    OBVIOUS
  <2> QED
    BY <2>1, <2>2, RoomPrepared
<1> QED
  BY <1>1, Invariance, PTL

\* When the DMA has nothing to do and no interrupt is pending or being handled,
\* async_memcpy_isr_on_rx_done_event has called everybody back.
THEOREM NoCallbackLostCorrect == ASSUME Plain PROVE Spec => []NoCallbackLost
<1>1. Inv => NoCallbackLost
  <2> SUFFICES ASSUME Inv, \A s \in Slots : rx[s].owner = "CPU" /\ tx[s].owner = "CPU",
                      ~intr.pending, isr.pc = "idle"
               PROVE  waiting = <<>>
    BY DEF NoCallbackLost
  <2>1. PICK e, b, c, f, k, w : TypeOK /\ Layout(e, b, c, f, k, w)
    BY DEF Inv
  <2>2. /\ b \in Slots /\ streams \in 0 .. Backlog /\ f \in 0 .. streams
        /\ Count \in Nat
    BY <2>1, Bounds
  <2>3. k = 0
    BY <2>1 DEF Layout, Told
  <2>4. ~(f < streams)
    <3> SUFFICES ASSUME f < streams PROVE FALSE
      OBVIOUS
    <3>1. f \in Places /\ f <= f /\ f \in 0 .. 2 * Backlog
      BY <2>2, MemcpyAssumption DEF Places
    <3>2. rx[After(b, f)].owner = "DMA"
      BY <2>1, <3>1 DEF Layout, Owners
    <3> QED
      BY <2>2, <3>1, <3>2, AfterType
  <2>5. ~(k < Count)
    BY <2>1, <2>4, Unfinished
  <2>6. Len(waiting) = 0
    BY <2>2, <2>3, <2>5 DEF Count
  <2> QED
    BY <2>1, <2>6, EmptySeq DEF TypeOK
<1> QED
  BY <1>1, Invariance, PTL

\* The driver implements the promise of esp_async_memcpy.h to its callers: the
\* requests are copied in order, and each is called back once, in order, after
\* its copy.
THEOREM InOrderOnceCorrect == ASSUME Plain PROVE Spec => InOrderOnce
<1>1. Init => Queue!Init
  <2> SUFFICES ASSUME Init PROVE Queue!Init
    OBVIOUS
  <2>1. waiting = <<>> /\ DOMAIN waiting = {}
    BY DEF Init
  <2>2. {i \in DOMAIN waiting : Copied(waiting[i].req)} = {}
    BY <2>1
  <2>3. [i \in DOMAIN waiting |-> waiting[i].req] = <<>>
    BY <2>1
  <2> QED
    BY <2>2, <2>3, FS_EmptySet DEF Queue!Init
<1>2. Inv /\ [Next]_vars =>
         [Queue!Next]_<<[i \in DOMAIN waiting |-> waiting[i].req],
                        Cardinality({i \in DOMAIN waiting : Copied(waiting[i].req)})>>
  BY NextMaps DEF Queued, Done
<1> QED
  BY <1>1, <1>2, Invariance, PTL DEF Spec, InOrderOnce, Queue!Spec, Queue!vars

-----------------------------------------------------------------------------
\* The rings in step, which is inductive without the layout: also where callers
\* overcommit and the handler is told too early, as long as nobody asks for a
\* copy of 0 bytes, which hands over a descriptor that may be the DMA's.

PaceTypes ==
    /\ rx \in [Slots -> [owner : {"CPU", "DMA"}, piece : Piece,
                         cb : Requests \cup {None}]]
    /\ tx \in [Slots -> [owner : {"CPU", "DMA"}, piece : Piece, eof : BOOLEAN]]
    /\ rxNext \in Slots /\ txNext \in Slots
    /\ dma \in [rx : Slots, tx : Slots, busy : BOOLEAN, piece : Piece,
                eof : BOOLEAN]

\* The DMA is in both rings at the same place, or one further in that it reads.
PaceDma ==
    IF dma.busy
    THEN /\ dma.tx = After(dma.rx, 1)
         /\ rx[dma.rx].owner = "DMA" /\ rx[dma.rx].piece = dma.piece
         /\ tx[dma.rx].owner # "DMA"
    ELSE dma.tx = dma.rx

\* What it is to read it is to write.
PaceRings ==
    \A s \in Slots : tx[s].owner = "DMA" =>
        rx[s].owner = "DMA" /\ rx[s].piece = tx[s].piece

PaceInv == PaceTypes /\ PaceDma /\ PaceRings /\ rxNext = txNext

\* The rings as they are installed.
LEMMA PaceEmpty ==
    ASSUME rx = [s \in Slots |-> FreeRx], tx = [s \in Slots |-> FreeTx],
           rxNext = 0, txNext = 0, dma = DmaIdle
    PROVE  PaceInv
<1>1. 0 \in Slots /\ None \in Piece
  BY MemcpyAssumption DEF Slots, Piece
<1>2. PaceTypes
  BY <1>1 DEF PaceTypes, FreeRx, FreeTx, DmaIdle
<1>3. PaceDma /\ PaceRings
  BY DEF PaceDma, PaceRings, FreeTx, DmaIdle
<1> QED
  BY <1>2, <1>3 DEF PaceInv
LEMMA PaceEmptyThen ==
    ASSUME rx' = [s \in Slots |-> FreeRx], tx' = [s \in Slots |-> FreeTx],
           rxNext' = 0, txNext' = 0, dma' = DmaIdle
    PROVE  PaceInv'
<1>1. 0 \in Slots /\ None \in Piece
  BY MemcpyAssumption DEF Slots, Piece
<1>2. PaceTypes'
  BY <1>1 DEF PaceTypes, FreeRx, FreeTx, DmaIdle, Slots, Piece
<1>3. PaceDma' /\ PaceRings'
  BY DEF PaceDma, PaceRings, FreeTx, DmaIdle, Slots
<1> QED
  BY <1>2, <1>3 DEF PaceInv

\* What a call does to a descriptor of either ring: nothing to the DMA's, and
\* to the others what it does in both, if it hands over.
LEMMA PaceSubmitted ==
    ASSUME PaceInv, NEW r \in Requests, NEW size \in 1 .. MaxSize,
           Submit(r, size), NEW s \in Slots
    PROVE  /\ rx'[s] \in [owner : {"CPU", "DMA"}, piece : Piece,
                          cb : Requests \cup {None}]
           /\ tx'[s] \in [owner : {"CPU", "DMA"}, piece : Piece, eof : BOOLEAN]
           /\ rx[s].owner = "DMA" =>
                 /\ rx'[s].owner = "DMA" /\ rx'[s].piece = rx[s].piece
                 /\ tx'[s].owner = tx[s].owner
                 /\ tx[s].owner = "DMA" => tx'[s].piece = tx[s].piece
           /\ rx[s].owner # "DMA" /\ tx'[s].owner = "DMA" =>
                 rx'[s].owner = "DMA" /\ rx'[s].piece = tx'[s].piece
<1> DEFINE i == Distance(rxNext, s)
           rxSet == Prepared(rx, rxNext, size)
           txSet == Prepared(tx, txNext, size)
           all == rxSet = 0 .. size - 1 /\ txSet = 0 .. size - 1
           p == [req |-> r, no |-> i + 1]
<1>1. /\ Backlog \in Nat \ {0} /\ MaxSize \in 1 .. Backlog
      /\ Slots = 0 .. Backlog - 1 /\ PaceTypes
  BY MemcpyAssumption DEF Slots, PaceInv
<1>2. i \in 0 .. Backlog - 1 /\ After(rxNext, i) = s
  <2>1. rxNext \in Slots /\ 0 \in 0 .. Backlog /\ Places = 0 .. Backlog - 1
    BY <1>1 DEF PaceTypes, Places
  <2>2. PICK q \in Places : s = After(rxNext, q)
    BY <2>1, AfterOnto
  <2>3. After(rxNext, 0) = rxNext
    BY <2>1, AfterZero
  <2>4. Distance(rxNext, s) = IF q < 0 THEN q - 0 + Backlog ELSE q - 0
    BY <2>1, <2>2, <2>3, DistanceIs
  <2>5. Distance(rxNext, s) = q
    BY <2>1, <2>4
  <2> QED
    BY <2>1, <2>2, <2>5
<1>3. Handed(size) = 0 .. size - 1 /\ size # 0
  BY DEF Handed
<1>4. i \in rxSet => i \in 0 .. size - 1 /\ rx[s].owner # "DMA"
  BY <1>2 DEF Prepared
<1>5. i \in txSet => i \in 0 .. size - 1 /\ tx[s].owner # "DMA"
  BY <1>2 DEF Prepared, PaceInv
<1>6. i \in 0 .. size - 1 => p \in Piece
  BY <1>1 DEF Piece
<1> DEFINE g == all /\ i \in 0 .. size - 1
<1>7. /\ rx'[s] = LET d == IF i \in rxSet THEN [rx[s] EXCEPT !.piece = p]
                           ELSE rx[s]
                      h == IF g THEN [d EXCEPT !.owner = "DMA"] ELSE d
                  IN  IF all /\ i = size - 1 THEN [h EXCEPT !.cb = r] ELSE h
      /\ tx'[s] = LET d == IF i \in txSet THEN [tx[s] EXCEPT !.piece = p]
                           ELSE tx[s]
                      h == IF g THEN [d EXCEPT !.owner = "DMA"] ELSE d
                  IN  IF i \in txSet THEN [h EXCEPT !.eof = (i = size - 1)] ELSE h
  BY <1>3 DEF Submit, PaceInv
<1>8. /\ rx[s] \in [owner : {"CPU", "DMA"}, piece : Piece,
                    cb : Requests \cup {None}]
      /\ tx[s] \in [owner : {"CPU", "DMA"}, piece : Piece, eof : BOOLEAN]
  BY <1>1 DEF PaceTypes
<1>9. tx[s].owner = "DMA" => rx[s].owner = "DMA" /\ rx[s].piece = tx[s].piece
  BY DEF PaceInv, PaceRings
<1>10. g => i \in rxSet /\ i \in txSet
  OBVIOUS
<1> HIDE DEF i, rxSet, txSet, all, p, g
<1>11. i \in rxSet \/ i \in txSet => p \in Piece
  BY <1>4, <1>5, <1>6
<1>12. rx'[s] \in [owner : {"CPU", "DMA"}, piece : Piece,
                   cb : Requests \cup {None}]
  BY <1>7, <1>8, <1>11
<1>13. tx'[s] \in [owner : {"CPU", "DMA"}, piece : Piece, eof : BOOLEAN]
  <2> DEFINE d == IF i \in txSet THEN [tx[s] EXCEPT !.piece = p] ELSE tx[s]
             h == IF g THEN [d EXCEPT !.owner = "DMA"] ELSE d
             b == (i = size - 1)
  <2>1. d \in [owner : {"CPU", "DMA"}, piece : Piece, eof : BOOLEAN]
    BY <1>8, <1>11
  <2>2. h \in [owner : {"CPU", "DMA"}, piece : Piece, eof : BOOLEAN]
    BY <2>1
  <2>3. b \in BOOLEAN
    OBVIOUS
  <2>4. tx'[s] = IF i \in txSet THEN [h EXCEPT !.eof = b] ELSE h
    BY <1>7
  <2> HIDE DEF d, h, b
  <2> QED
    BY <2>2, <2>3, <2>4
<1>14. /\ rx'[s].owner = IF g THEN "DMA" ELSE rx[s].owner
       /\ rx'[s].piece = IF i \in rxSet THEN p ELSE rx[s].piece
       /\ tx'[s].owner = IF g THEN "DMA" ELSE tx[s].owner
       /\ tx'[s].piece = IF i \in txSet THEN p ELSE tx[s].piece
  BY <1>7, <1>8
<1> QED
  BY <1>4, <1>5, <1>9, <1>10, <1>12, <1>13, <1>14

LEMMA PaceSubmit ==
    ASSUME PaceInv, NEW r \in Requests, NEW size \in 1 .. MaxSize,
           Submit(r, size)
    PROVE  PaceInv'
<1>1. dma' = dma /\ dma.rx \in Slots /\ PaceTypes
  BY DEF Submit, PaceInv, PaceTypes
<1>2. rxNext' = txNext' /\ rxNext' \in Slots
  <2>1. rxNext = txNext /\ rxNext \in Slots /\ size \in 0 .. 2 * Backlog
    BY MemcpyAssumption DEF PaceInv, PaceTypes
  <2>2. After(rxNext, size) \in Slots
    BY <2>1, AfterType
  <2>3. (IF size = 0 THEN 0 ELSE size - 1) + 1 = size
    OBVIOUS
  <2> QED
    BY <2>1, <2>2, <2>3 DEF Submit
<1>3. PaceTypes'
  <2>1. /\ rx' = [s \in Slots |-> rx'[s]] /\ tx' = [s \in Slots |-> tx'[s]]
    BY DEF Submit
  <2>2. rx' \in [Slots -> [owner : {"CPU", "DMA"}, piece : Piece,
                           cb : Requests \cup {None}]]
    BY <2>1, PaceSubmitted
  <2>3. tx' \in [Slots -> [owner : {"CPU", "DMA"}, piece : Piece,
                           eof : BOOLEAN]]
    BY <2>1, PaceSubmitted
  <2> QED
    BY <1>1, <1>2, <2>2, <2>3 DEF PaceTypes, Slots, Piece
<1>4. PaceDma'
  BY <1>1, PaceSubmitted DEF PaceInv, PaceDma, After
<1>5. PaceRings'
  <2> SUFFICES ASSUME NEW s \in Slots, tx'[s].owner = "DMA"
               PROVE  rx'[s].owner = "DMA" /\ rx'[s].piece = tx'[s].piece
    BY DEF PaceRings, Slots
  <2>1. tx[s].owner = "DMA" => rx[s].owner = "DMA" /\ rx[s].piece = tx[s].piece
    BY DEF PaceInv, PaceRings
  <2> QED
    BY <2>1, PaceSubmitted
<1> QED
  BY <1>2, <1>3, <1>4, <1>5 DEF PaceInv

\* The DMA reads, and it writes.
LEMMA PaceSend == ASSUME PaceInv, DmaSend PROVE PaceInv'
<1>1. /\ PaceTypes /\ ~dma.busy /\ dma.tx = dma.rx /\ dma.rx \in Slots
      /\ tx[dma.rx].owner = "DMA" /\ rx[dma.rx].owner = "DMA"
      /\ rx[dma.rx].piece = tx[dma.rx].piece
  BY DEF PaceInv, PaceTypes, PaceDma, PaceRings, DmaSend
<1>2. After(dma.rx, 1) \in Slots
  BY <1>1, AfterType, MemcpyAssumption
<1>3. /\ tx' = [tx EXCEPT ![dma.rx].owner = "CPU"]
      /\ dma' = [dma EXCEPT !.tx = After(@, 1), !.busy = TRUE,
                            !.piece = tx[dma.rx].piece, !.eof = tx[dma.rx].eof]
      /\ rx' = rx /\ rxNext' = rxNext /\ txNext' = txNext
  BY <1>1 DEF DmaSend
<1>4. /\ dma'.rx = dma.rx /\ dma'.tx = After(dma.rx, 1) /\ dma'.busy
      /\ dma'.piece = tx[dma.rx].piece /\ tx'[dma.rx].owner = "CPU"
  BY <1>1, <1>3 DEF PaceTypes
<1>5. \A s \in Slots : tx'[s] = IF s = dma.rx THEN tx'[s] ELSE tx[s]
  BY <1>1, <1>3 DEF PaceTypes
<1>6. PaceTypes'
  <2>1. tx' \in [Slots -> [owner : {"CPU", "DMA"}, piece : Piece,
                           eof : BOOLEAN]]
    BY <1>1, <1>3 DEF PaceTypes
  <2>2. tx[dma.rx].piece \in Piece /\ tx[dma.rx].eof \in BOOLEAN
    BY <1>1 DEF PaceTypes
  <2>3. dma' \in [rx : Slots, tx : Slots, busy : BOOLEAN, piece : Piece,
                  eof : BOOLEAN]
    BY <1>1, <1>2, <1>3, <2>2 DEF PaceTypes
  <2> QED
    BY <1>1, <1>3, <2>1, <2>3 DEF PaceTypes, Slots, Piece
<1>7. PaceDma'
  BY <1>1, <1>3, <1>4 DEF PaceDma, After
<1>8. PaceRings'
  BY <1>3, <1>4, <1>5 DEF PaceInv, PaceRings, Slots
<1> QED
  BY <1>3, <1>6, <1>7, <1>8 DEF PaceInv

LEMMA PaceReceive == ASSUME PaceInv, DmaReceive PROVE PaceInv'
<1>1. /\ PaceTypes /\ dma.busy /\ dma.rx \in Slots
      /\ dma.tx = After(dma.rx, 1) /\ tx[dma.rx].owner # "DMA"
  BY DEF PaceInv, PaceTypes, PaceDma, DmaReceive
<1>2. After(dma.rx, 1) \in Slots
  BY <1>1, AfterType, MemcpyAssumption
<1>3. /\ rx' = [rx EXCEPT ![dma.rx].owner = "CPU"]
      /\ dma' = [dma EXCEPT !.rx = After(@, 1), !.busy = FALSE]
      /\ tx' = tx /\ rxNext' = rxNext /\ txNext' = txNext
  BY DEF DmaReceive
<1>4. dma'.rx = After(dma.rx, 1) /\ dma'.tx = dma.tx /\ ~dma'.busy
  BY <1>1, <1>3 DEF PaceTypes
<1>5. \A s \in Slots : s # dma.rx => rx'[s] = rx[s]
  BY <1>1, <1>3 DEF PaceTypes
<1>6. PaceTypes'
  <2>1. rx' \in [Slots -> [owner : {"CPU", "DMA"}, piece : Piece,
                           cb : Requests \cup {None}]]
    BY <1>1, <1>3 DEF PaceTypes
  <2>2. dma' \in [rx : Slots, tx : Slots, busy : BOOLEAN, piece : Piece,
                  eof : BOOLEAN]
    BY <1>1, <1>2, <1>3 DEF PaceTypes
  <2> QED
    BY <1>1, <1>3, <2>1, <2>2 DEF PaceTypes, Slots, Piece
<1>7. PaceDma'
  BY <1>1, <1>4 DEF PaceDma
<1>8. PaceRings'
  BY <1>1, <1>3, <1>5 DEF PaceInv, PaceRings, Slots
<1> QED
  BY <1>3, <1>6, <1>7, <1>8 DEF PaceInv

\* Only the callback of a descriptor changes.
LEMMA PaceReturn == ASSUME PaceInv, IsrReturn PROVE PaceInv'
<1>1. /\ rx' = [rx EXCEPT ![isr.at].cb = None]
      /\ tx' = tx /\ rxNext' = rxNext /\ txNext' = txNext /\ dma' = dma
  BY DEF IsrReturn
<1>2. PaceTypes
  BY DEF PaceInv
<1>3. \A s \in Slots : /\ rx'[s].owner = rx[s].owner
                       /\ rx'[s].piece = rx[s].piece
  BY <1>1, <1>2 DEF PaceTypes
<1>4. PaceTypes'
  <2>1. rx' \in [Slots -> [owner : {"CPU", "DMA"}, piece : Piece,
                           cb : Requests \cup {None}]]
    <3>1. CASE isr.at \in Slots
      <4>1. PICK a \in Slots : a = isr.at
        BY <3>1
      <4>2. [rx[a] EXCEPT !.cb = None] \in
                [owner : {"CPU", "DMA"}, piece : Piece,
                 cb : Requests \cup {None}]
        BY <1>2 DEF PaceTypes
      <4>3. rx' = [rx EXCEPT ![a] = [rx[a] EXCEPT !.cb = None]]
        BY <1>1, <4>1
      <4> QED
        BY <1>2, <4>2, <4>3 DEF PaceTypes
    <3>2. CASE isr.at \notin Slots
      BY <1>1, <1>2, <3>2 DEF PaceTypes
    <3> QED
      BY <3>1, <3>2
  <2> QED
    BY <1>1, <1>2, <2>1 DEF PaceTypes, Slots, Piece
<1>5. PaceDma'
  BY <1>1, <1>2, <1>3 DEF PaceInv, PaceTypes, PaceDma, After
<1>6. PaceRings'
  BY <1>1, <1>3 DEF PaceInv, PaceRings, Slots
<1> QED
  BY <1>1, <1>4, <1>5, <1>6 DEF PaceInv

\* Every step keeps the rings in step.
LEMMA PaceNext ==
    ASSUME "zeroLength" \notin Liberties, PaceInv, [Next]_vars
    PROVE  PaceInv'
<1>1. ASSUME UNCHANGED <<rx, tx, rxNext, txNext, dma>>
      PROVE  PaceInv'
  BY <1>1 DEF PaceInv, PaceTypes, PaceDma, PaceRings, Slots, Piece, After
<1>2. ASSUME NEW r \in Requests, NEW size \in 0 .. MaxSize, Submit(r, size)
      PROVE  PaceInv'
  <2>1. size # 0
    BY <1>2 DEF Submit, Allowed
  <2>2. size \in 1 .. MaxSize
    BY <2>1, MemcpyAssumption
  <2> QED
    BY <1>2, <2>2, PaceSubmit
<1>3. CASE Uninstall
  BY <1>3, PaceEmptyThen DEF Uninstall
<1>4. CASE DmaSend \/ DmaReceive
  BY <1>4, PaceSend, PaceReceive
<1>5. CASE IsrReturn
  BY <1>5, PaceReturn
<1>6. CASE Install \/ IsrEnter \/ IsrReadEof \/ IsrNext \/ IsrLook
  BY <1>1, <1>6
     DEF Install, IsrEnter, IsrReadEof, IsrNext, IsrLook, ringVars
<1>7. CASE UNCHANGED vars
  BY <1>1, <1>7 DEF vars
<1> QED
  BY <1>2, <1>3, <1>4, <1>5, <1>6, <1>7 DEF Next, Caller, Hardware, Isr

\* "Both tx and rx descriptor should move in the same pace" (esp_async_memcpy.c):
\* for whoever asks for at least one byte, whatever else he does.
THEOREM SamePaceCorrect ==
    ASSUME "zeroLength" \notin Liberties
    PROVE  Spec => []SamePace
<1>1. Init => PaceInv
  BY PaceEmpty DEF Init
<1>2. PaceInv /\ [Next]_vars => PaceInv'
  BY PaceNext
<1>3. PaceInv => SamePace
  <2> SUFFICES ASSUME PaceInv
               PROVE  SamePace
    OBVIOUS
  <2>1. dma.busy => rx[dma.rx].owner = "DMA" /\ rx[dma.rx].piece = dma.piece
    BY DEF PaceInv, PaceDma
  <2>2. \A s \in Slots : tx[s].owner = "DMA" => rx[s].owner = "DMA"
    BY DEF PaceInv, PaceRings
  <2>3. \A j \in 0 .. Backlog - 1 : After(rxNext, j) \in Slots
    <3>1. rxNext \in Slots
      BY DEF PaceInv, PaceTypes
    <3>2. \A j \in 0 .. Backlog - 1 : j \in 0 .. 2 * Backlog
      BY MemcpyAssumption
    <3> QED
      BY <3>1, <3>2, AfterType
  <2>4. \A i \in 0 .. Backlog - 1 : \A j \in 0 .. i : j \in 0 .. Backlog - 1
    BY MemcpyAssumption
  <2>5. rxNext = txNext
    BY DEF PaceInv
  <2>6. Prepared(rx, rxNext, Backlog) \subseteq Prepared(tx, txNext, Backlog)
    BY <2>2, <2>3, <2>4, <2>5 DEF Prepared
  <2> QED
    BY <2>1, <2>6 DEF SamePace
<1> QED
  BY <1>1, <1>2, <1>3, PTL DEF Spec

-----------------------------------------------------------------------------
\* The types, which hold where the rings are in step: `streams' never falls
\* below what the requests that wait have left of it.

PaceRest ==
    /\ up \in BOOLEAN
    /\ check \in Slots
    /\ intr \in [pending : BOOLEAN, eof : Slots]
    /\ isr \in [pc : {"idle", "readEof", "next", "look", "callback"},
                eof : Slots, at : Slots, req : Requests \cup {None}]
    /\ waiting \in Seq([req : Requests, size : 0 .. MaxSize])

\* total[i] is what the first i requests were given.
PaceTotals(total, queue) ==
    /\ total \in [0 .. Len(queue) -> Nat]
    /\ total[0] = 0
    /\ \A i \in 1 .. Len(queue) : total[i] = total[i - 1] + queue[i].size
    /\ \A i, j \in 0 .. Len(queue) : i <= j => total[i] <= total[j]
PaceSum(n, queue) == \E total : PaceTotals(total, queue) /\ total[Len(queue)] = n

PaceTyped == PaceInv /\ PaceRest /\ PaceSum(streams, waiting)

\* What RemoveAt of the library leaves of a sequence.
LEMMA RemoveAtIs ==
    ASSUME NEW S, NEW s \in Seq(S), NEW k \in 1 .. Len(s)
    PROVE  /\ RemoveAt(s, k) \in Seq(S) /\ Len(RemoveAt(s, k)) = Len(s) - 1
           /\ \A i \in 1 .. Len(s) - 1 :
                 RemoveAt(s, k)[i] = IF i < k THEN s[i] ELSE s[i + 1]
<1> DEFINE a == SubSeq(s, 1, k - 1)
           b == SubSeq(s, k + 1, Len(s))
           l == Len(s)
<1>0. l \in Nat /\ k \in 1 .. l
  OBVIOUS
<1>1. /\ a \in Seq(S) /\ Len(a) = k - 1
      /\ \A i \in 1 .. k - 1 : a[i] = s[i]
  OBVIOUS
<1>2. b \in Seq(S) /\ Len(b) = l - k
  OBVIOUS
<1>3. ASSUME NEW i \in 1 .. l - k PROVE b[i] = s[k + i]
  <2>1. b[i] = s[(k + 1) + i - 1]
    OBVIOUS
  <2>2. (k + 1) + i - 1 = k + i
    BY <1>0
  <2> QED
    BY <2>1, <2>2
<1>4. RemoveAt(s, k) = a \o b
  BY DEF RemoveAt
<1> HIDE DEF a, b, l
<1> DEFINE q == a \o b
<1>5. q \in Seq(S) /\ Len(q) = l - 1
  <2>1. q \in Seq(S) /\ Len(q) = Len(a) + Len(b)
    BY <1>1, <1>2, ConcatProperties
  <2> HIDE DEF q
  <2> QED
    BY <1>0, <1>1, <1>2, <2>1
<1>6. ASSUME NEW i \in 1 .. l - 1
      PROVE  q[i] = IF i < k THEN s[i] ELSE s[i + 1]
  <2>1. CASE i < k
    BY <1>0, <1>1, <1>2, <2>1
  <2>2. CASE ~(i < k)
    <3>1. i - (k - 1) \in 1 .. l - k /\ k + (i - (k - 1)) = i + 1
      BY <1>0, <2>2
    <3>2. i \in 1 .. Len(a) + Len(b) /\ ~(i <= Len(a))
      BY <1>0, <1>1, <1>2, <2>2
    <3>3. \A j \in 1 .. Len(a) + Len(b) :
             q[j] = IF j <= Len(a) THEN a[j] ELSE b[j - Len(a)]
      BY <1>1, <1>2, ConcatProperties
    <3>4. q[i] = b[i - Len(a)]
      BY <3>2, <3>3
    <3> QED
      BY <1>1, <1>3, <2>2, <3>1, <3>4
  <2> QED
    BY <2>1, <2>2
<1> QED
  BY <1>4, <1>5, <1>6 DEF l

\* What waits and its sum, when a request comes and when one goes.
LEMMA PaceAppended ==
    ASSUME NEW queue \in Seq([req : Requests, size : 0 .. MaxSize]),
           NEW n, PaceSum(n, queue),
           NEW w \in [req : Requests, size : 0 .. MaxSize]
    PROVE  /\ Append(queue, w) \in Seq([req : Requests, size : 0 .. MaxSize])
           /\ PaceSum(n + w.size, Append(queue, w))
<1> DEFINE l == Len(queue)
           q == Append(queue, w)
<1>1. PICK total : PaceTotals(total, queue) /\ total[l] = n
  BY DEF PaceSum
<1>2. /\ l \in Nat /\ w.size \in Nat /\ Len(q) = l + 1
      /\ q[l + 1] = w /\ \A i \in 1 .. l : q[i] = queue[i]
  BY MemcpyAssumption
<1> DEFINE t == [i \in 0 .. l + 1 |-> IF i <= l THEN total[i] ELSE n + w.size]
<1>3. total \in [0 .. l -> Nat] /\ total[0] = 0 /\ n \in Nat
  BY <1>1, <1>2 DEF PaceTotals
<1>4. t \in [0 .. l + 1 -> Nat] /\ t[0] = 0 /\ t[l + 1] = n + w.size
  BY <1>2, <1>3
<1>5. ASSUME NEW i \in 1 .. l + 1 PROVE t[i] = t[i - 1] + q[i].size
  <2>1. CASE i <= l
    BY <1>1, <1>2, <2>1 DEF PaceTotals
  <2>2. CASE i = l + 1
    BY <1>1, <1>2, <2>2
  <2> QED
    BY <1>2, <2>1, <2>2
<1>6. ASSUME NEW i \in 0 .. l + 1, NEW j \in 0 .. l + 1, i <= j
      PROVE  t[i] <= t[j]
  <2>1. CASE j <= l
    BY <1>1, <1>2, <1>6, <2>1 DEF PaceTotals
  <2>2. CASE j = l + 1 /\ i <= l
    <3>0. l \in 0 .. l /\ i \in 0 .. l
      BY <1>2, <2>2
    <3>1. total[i] <= total[l] /\ total[i] \in Nat
      BY <1>1, <1>3, <2>2, <3>0 DEF PaceTotals
    <3> QED
      BY <1>1, <1>2, <1>3, <2>2, <3>1
  <2>3. CASE i = l + 1 /\ j = l + 1
    BY <1>2, <1>3, <2>3
  <2> QED
    BY <1>2, <1>6, <2>1, <2>2, <2>3
<1> HIDE DEF t, q, l
<1>7. PaceTotals(t, q)
  BY <1>2, <1>4, <1>5, <1>6 DEF PaceTotals
<1> QED
  BY <1>2, <1>4, <1>7 DEF PaceSum, q

LEMMA PaceRemoved ==
    ASSUME NEW queue \in Seq([req : Requests, size : 0 .. MaxSize]),
           NEW n, PaceSum(n, queue), NEW k \in DOMAIN queue
    PROVE  /\ RemoveAt(queue, k) \in Seq([req : Requests, size : 0 .. MaxSize])
           /\ PaceSum(n - queue[k].size, RemoveAt(queue, k))
<1> DEFINE l == Len(queue)
           q == RemoveAt(queue, k)
           d == queue[k].size
<1>1. PICK total : PaceTotals(total, queue) /\ total[l] = n
  BY DEF PaceSum
<1>2. /\ l \in Nat /\ k \in 1 .. l
      /\ \A i \in 1 .. l : queue[i] \in [req : Requests, size : 0 .. MaxSize]
  <2>1. l \in Nat /\ k \in 1 .. l
    OBVIOUS
  <2>2. \A i \in 1 .. l : queue[i] \in [req : Requests, size : 0 .. MaxSize]
    BY ElementOfSeq
  <2> QED
    BY <2>1, <2>2
<1>3. /\ q \in Seq([req : Requests, size : 0 .. MaxSize]) /\ Len(q) = l - 1
      /\ \A i \in 1 .. l - 1 : q[i] = IF i < k THEN queue[i] ELSE queue[i + 1]
  BY <1>2, RemoveAtIs
<1>4. d \in Nat
  BY <1>2, MemcpyAssumption
<1>5. /\ total \in [0 .. l -> Nat] /\ total[0] = 0
      /\ total[k] = total[k - 1] + d
      /\ \A i \in 1 .. l : total[i] = total[i - 1] + queue[i].size
      /\ \A i, j \in 0 .. l : i <= j => total[i] <= total[j]
  BY <1>1, <1>2 DEF PaceTotals
<1> HIDE DEF d, q, l
<1>6. \A i \in k .. l : total[i] \in Nat /\ d <= total[i]
  <2> SUFFICES ASSUME NEW i \in k .. l PROVE total[i] \in Nat /\ d <= total[i]
    OBVIOUS
  <2>0. k \in 0 .. l /\ i \in 0 .. l /\ k - 1 \in 0 .. l /\ k <= i
    BY <1>2
  <2>1. total[k] <= total[i] /\ total[i] \in Nat /\ total[k] \in Nat
        /\ total[k - 1] \in Nat
    BY <1>5, <2>0
  <2> QED
    BY <1>4, <1>5, <2>1
<1> DEFINE t == [i \in 0 .. l - 1 |->
                    IF i < k THEN total[i] ELSE total[i + 1] - d]
<1>7. t \in [0 .. l - 1 -> Nat]
  <2> SUFFICES ASSUME NEW i \in 0 .. l - 1
               PROVE  (IF i < k THEN total[i] ELSE total[i + 1] - d) \in Nat
    OBVIOUS
  <2>1. i < k => total[i] \in Nat
    BY <1>2, <1>5
  <2>2. ~(i < k) => total[i + 1] \in Nat /\ d <= total[i + 1]
    BY <1>2, <1>6
  <2> QED
    BY <1>4, <2>1, <2>2
<1>8. t[0] = 0 /\ t[l - 1] = n - d
  <2>1. t[0] = total[0]
    BY <1>2
  <2>2. CASE k = l
    <3>1. t[l - 1] = total[l - 1] /\ total[l - 1] \in Nat
      BY <1>2, <1>5, <2>2
    <3>2. n = total[l - 1] + d
      BY <1>1, <1>5, <2>2 DEF l
    <3> QED
      BY <1>4, <1>5, <2>1, <3>1, <3>2
  <2>3. CASE k < l
    <3>1. t[l - 1] = total[(l - 1) + 1] - d /\ (l - 1) + 1 = l
      BY <1>2, <2>3
    <3> QED
      BY <1>1, <1>5, <2>1, <3>1 DEF l
  <2> QED
    BY <1>2, <2>2, <2>3
<1>9. ASSUME NEW i \in 1 .. l - 1 PROVE t[i] = t[i - 1] + q[i].size
  <2>0. q[i] = (IF i < k THEN queue[i] ELSE queue[i + 1]) /\ i \in 1 .. l
        /\ i + 1 \in 1 .. l /\ (i + 1) - 1 = i
    BY <1>2, <1>3
  <2>1. CASE i < k
    <3>1. t[i] = total[i] /\ t[i - 1] = total[i - 1]
      BY <1>2, <2>1
    <3> QED
      BY <1>5, <2>0, <2>1, <3>1
  <2>2. CASE i = k
    <3>1. t[i] = total[i + 1] - d /\ t[i - 1] = total[i - 1]
      BY <1>2, <2>2
    <3>2. total[i + 1] = total[i] + queue[i + 1].size
      BY <1>5, <2>0
    <3>3. total[i] = total[i - 1] + d
      BY <1>5, <2>2
    <3>4. /\ total[i - 1] \in Nat /\ queue[i + 1].size \in Nat
          /\ q[i].size = queue[i + 1].size
      <4>1. i - 1 \in 0 .. l /\ ~(i < k) /\ i + 1 \in 1 .. l
        BY <1>2, <2>0, <2>2
      <4>2. total[i - 1] \in Nat
        BY <1>5, <4>1
      <4>3. queue[i + 1].size \in 0 .. MaxSize
        BY <1>2, <4>1
      <4>4. q[i] = queue[i + 1]
        BY <2>0, <4>1
      <4> QED
        BY <4>2, <4>3, <4>4, MemcpyAssumption
    <3> QED
      BY <1>4, <3>1, <3>2, <3>3, <3>4
  <2>3. CASE i > k
    <3>1. t[i] = total[i + 1] - d /\ t[i - 1] = total[(i - 1) + 1] - d
      BY <1>2, <2>3
    <3>2. total[i + 1] = total[i] + queue[i + 1].size /\ (i - 1) + 1 = i
      BY <1>5, <2>0
    <3>4. /\ total[i] \in Nat /\ queue[i + 1].size \in Nat
          /\ q[i].size = queue[i + 1].size
      <4>1. i \in 0 .. l /\ ~(i < k)
        BY <1>2, <2>0, <2>3
      <4> QED
        BY <1>2, <1>5, <2>0, <4>1, MemcpyAssumption
    <3> QED
      BY <1>4, <3>1, <3>2, <3>4
  <2> QED
    BY <1>2, <2>1, <2>2, <2>3
<1>10. ASSUME NEW i \in 0 .. l - 1, NEW j \in 0 .. l - 1, i <= j
       PROVE  t[i] <= t[j]
  <2>0. /\ i \in 0 .. l /\ j \in 0 .. l /\ i + 1 \in 0 .. l /\ j + 1 \in 0 .. l
        /\ total[i] \in Nat /\ total[j] \in Nat
        /\ total[i + 1] \in Nat /\ total[j + 1] \in Nat
    BY <1>2, <1>5
  <2>1. total[i] <= total[j] /\ total[i + 1] <= total[j + 1]
    BY <1>5, <1>10, <2>0
  <2>2. CASE j < k
    BY <1>2, <1>10, <2>1, <2>2
  <2>3. CASE i < k /\ ~(j < k)
    <3>1. i <= k - 1 /\ k - 1 \in 0 .. l /\ k \in 0 .. l /\ k <= j + 1
      BY <1>2, <2>3
    <3>2. total[i] <= total[k - 1] /\ total[k] <= total[j + 1]
      BY <1>5, <2>0, <3>1
    <3>3. total[k - 1] \in Nat /\ total[k] \in Nat
      BY <1>5, <3>1
    <3>4. t[i] = total[i] /\ t[j] = total[j + 1] - d
      BY <2>3
    <3>5. total[k] = total[k - 1] + d
      BY <1>5
    <3>6. PICK x, y, z \in Nat : x = total[i] /\ y = total[k - 1]
                                /\ z = total[j + 1]
      BY <2>0, <3>3
    <3>7. x <= y /\ y + d <= z
      BY <3>2, <3>5, <3>6
    <3>8. x <= z - d
      BY <1>4, <3>7
    <3> QED
      BY <3>4, <3>6, <3>8
  <2>4. CASE ~(i < k)
    <3>1. t[i] = total[i + 1] - d /\ t[j] = total[j + 1] - d
      BY <1>2, <1>10, <2>4
    <3> QED
      BY <1>4, <2>0, <2>1, <3>1
  <2> QED
    BY <2>2, <2>3, <2>4
<1> HIDE DEF t
<1>11. PaceTotals(t, q)
  BY <1>3, <1>7, <1>8, <1>9, <1>10 DEF PaceTotals
<1>12. PaceSum(n - d, q)
  BY <1>3, <1>8, <1>11 DEF PaceSum
<1> QED
  BY <1>3, <1>12 DEF q, d

LEMMA PaceTypedNext ==
    ASSUME "zeroLength" \notin Liberties, PaceTyped, [Next]_vars
    PROVE  PaceTyped'
<1>0. PaceInv' /\ PaceInv /\ PaceRest /\ PaceSum(streams, waiting)
  BY PaceNext DEF PaceTyped
<1> SUFFICES PaceRest' /\ PaceSum(streams, waiting)'
  BY <1>0 DEF PaceTyped
<1>1. CASE UNCHANGED vars
  BY <1>0, <1>1 DEF vars, PaceRest, PaceSum, PaceTotals, Slots
<1>2. ASSUME NEW r \in Requests, NEW size \in 0 .. MaxSize, Submit(r, size)
      PROVE  PaceRest' /\ PaceSum(streams, waiting)'
  <2> DEFINE w == [req |-> r, size |-> size]
  <2>0. UNCHANGED <<up, check, intr, isr>>
    BY <1>2 DEF Submit
  <2>1. CASE UNCHANGED callers
    BY <1>0, <2>0, <2>1 DEF callers, PaceRest, PaceSum, PaceTotals, Slots
  <2>2. CASE waiting' = Append(waiting, w) /\ streams' = streams + size
    <3>1. w \in [req : Requests, size : 0 .. MaxSize] /\ w.size = size
      OBVIOUS
    <3>2. waiting \in Seq([req : Requests, size : 0 .. MaxSize])
      BY <1>0 DEF PaceRest
    <3> HIDE DEF w
    <3>3. /\ waiting' \in Seq([req : Requests, size : 0 .. MaxSize])
          /\ PaceSum(streams', waiting')
      BY <1>0, <2>2, <3>1, <3>2, PaceAppended
    <3> QED
      BY <1>0, <2>0, <3>3 DEF PaceRest, Slots, PaceSum, PaceTotals
  <2> QED
    BY <1>2, <2>1, <2>2 DEF Submit
<1>3. CASE IsrReturn
  <2>1. PICK k \in DOMAIN waiting : /\ waiting' = RemoveAt(waiting, k)
                                    /\ streams' = streams - waiting[k].size
    BY <1>3 DEF IsrReturn, CalledBack
  <2>2. waiting \in Seq([req : Requests, size : 0 .. MaxSize])
    BY <1>0 DEF PaceRest
  <2>3. /\ waiting' \in Seq([req : Requests, size : 0 .. MaxSize])
        /\ PaceSum(streams', waiting')
    BY <1>0, <2>1, <2>2, PaceRemoved
  <2>4. isr' \in [pc : {"idle", "readEof", "next", "look", "callback"},
                  eof : Slots, at : Slots, req : Requests \cup {None}]
    <3>1. IsrIdle \in [pc : {"idle", "readEof", "next", "look", "callback"},
                       eof : Slots, at : Slots, req : Requests \cup {None}]
      BY MemcpyAssumption DEF IsrIdle, Slots
    <3> QED
      BY <1>0, <1>3, <3>1 DEF IsrReturn, Continue, PaceRest
  <2> QED
    BY <1>0, <1>3, <2>3, <2>4
       DEF IsrReturn, PaceRest, Slots, PaceSum, PaceTotals
<1>4. CASE ~(UNCHANGED vars) /\ Next /\ UNCHANGED callers
  <2>1. PaceSum(streams, waiting)'
    BY <1>0, <1>4 DEF callers, PaceSum, PaceTotals
  <2>2. waiting' \in Seq([req : Requests, size : 0 .. MaxSize])
    BY <1>0, <1>4 DEF callers, PaceRest
  <2>3. 0 \in Slots /\ dma.rx \in Slots /\ check \in Slots
        /\ After(check, 1) \in Slots
    <3>1. 0 \in Slots /\ 1 \in 0 .. 2 * Backlog
      BY MemcpyAssumption DEF Slots
    <3>2. dma.rx \in Slots /\ check \in Slots
      BY <1>0 DEF PaceInv, PaceTypes, PaceRest
    <3> QED
      BY <3>1, <3>2, AfterType
  <2>4. isr.at \in Slots => rx[isr.at].cb \in Requests \cup {None}
    BY <1>0 DEF PaceInv, PaceTypes
  <2>5. CASE Install \/ Uninstall
    <3>1. up' \in BOOLEAN /\ isr' = isr /\ (check' = check \/ check' = 0)
          /\ (intr' = intr \/ intr' = NoIntr)
      BY <2>5 DEF Install, Uninstall
    <3>2. intr' \in [pending : BOOLEAN, eof : Slots]
      <4>1. intr \in [pending : BOOLEAN, eof : Slots]
        BY <1>0 DEF PaceRest
      <4>2. NoIntr \in [pending : BOOLEAN, eof : Slots]
        BY <2>3 DEF NoIntr
      <4> QED
        BY <3>1, <4>1, <4>2
    <3>3. check' \in Slots
      BY <2>3, <3>1
    <3>4. PaceRest'
      BY <1>0, <2>2, <3>1, <3>2, <3>3 DEF PaceRest, Slots
    <3> QED
      BY <2>1, <3>4
  <2>6. CASE \E r \in Requests, size \in 0 .. MaxSize : Submit(r, size)
    BY <1>2, <2>6
  <2>7. CASE DmaSend \/ DmaReceive
    <3>1. UNCHANGED <<up, check, isr>>
          /\ (intr' = intr \/ intr' = [pending |-> TRUE, eof |-> dma.rx])
      BY <2>7 DEF DmaSend, DmaReceive
    <3>2. intr' \in [pending : BOOLEAN, eof : Slots]
      <4>1. intr \in [pending : BOOLEAN, eof : Slots]
        BY <1>0 DEF PaceRest
      <4>2. [pending |-> TRUE, eof |-> dma.rx] \in
                [pending : BOOLEAN, eof : Slots]
        BY <2>3
      <4> QED
        BY <3>1, <4>1, <4>2
    <3>3. PaceRest'
      BY <1>0, <2>2, <3>1, <3>2 DEF PaceRest, Slots
    <3> QED
      BY <2>1, <3>3
  <2>8. CASE IsrEnter \/ IsrReadEof
    BY <1>0, <2>1, <2>2, <2>3, <2>8 DEF IsrEnter, IsrReadEof, PaceRest, Slots
  <2>9. CASE IsrNext
    <3>1. /\ UNCHANGED <<up, intr>>
          /\ \/ check' = check /\ isr' = IsrIdle
             \/ /\ check' = After(check, 1)
                /\ isr' = [isr EXCEPT !.pc = "look", !.at = check]
      BY <2>9 DEF IsrNext
    <3>2. isr' \in [pc : {"idle", "readEof", "next", "look", "callback"},
                    eof : Slots, at : Slots, req : Requests \cup {None}]
      <4>1. CASE isr' = IsrIdle
        BY <2>3, <4>1 DEF IsrIdle
      <4>2. CASE isr' = [isr EXCEPT !.pc = "look", !.at = check]
        BY <1>0, <2>3, <4>2 DEF PaceRest
      <4> QED
        BY <3>1, <4>1, <4>2
    <3>3. PaceRest'
      BY <1>0, <2>2, <2>3, <3>1, <3>2 DEF PaceRest, Slots
    <3> QED
      BY <2>1, <3>3
  <2>10. CASE IsrLook
    BY <1>0, <2>1, <2>2, <2>3, <2>4, <2>10
       DEF IsrLook, Continue, IsrIdle, PaceRest, Slots
  <2>11. CASE IsrReturn
    BY <1>3, <2>11
  <2> QED
    BY <1>4, <2>1, <2>5, <2>6, <2>7, <2>8, <2>9, <2>10, <2>11
       DEF Next, Caller, Hardware, Isr
<1> QED
  BY <1>1, <1>2, <1>3, <1>4
     DEF Next, Caller, Hardware, Isr, Install, Uninstall, DmaSend, DmaReceive,
         IsrEnter, IsrReadEof, IsrNext, IsrLook

\* Type correctness of the copy driver (esp_async_memcpy.c), for whoever asks for
\* at least one byte: also `streams', which callbacks in any order reduce, is
\* never negative.
THEOREM TypeCorrect ==
    ASSUME "zeroLength" \notin Liberties
    PROVE  Spec => []TypeOK
<1>1. Init => PaceTyped
  <2> SUFFICES ASSUME Init PROVE PaceTyped
    OBVIOUS
  <2>1. PaceInv
    BY PaceEmpty DEF Init
  <2>2. PaceRest
    BY MemcpyAssumption DEF Init, PaceRest, NoIntr, IsrIdle, Slots
  <2>3. Len(waiting) = 0 /\ streams = 0 /\ 1 .. 0 = {} /\ 0 .. 0 = {0}
    BY DEF Init
  <2>4. PaceTotals([i \in {0} |-> 0], waiting)
    BY <2>3 DEF PaceTotals
  <2>5. [i \in {0} |-> 0][Len(waiting)] = streams
    BY <2>3
  <2> QED
    BY <2>1, <2>2, <2>4, <2>5 DEF PaceTyped, PaceSum
<1>2. PaceTyped /\ [Next]_vars => PaceTyped'
  BY PaceTypedNext
<1>3. PaceTyped => TypeOK
  <2> SUFFICES ASSUME PaceTyped PROVE TypeOK
    OBVIOUS
  <2>1. Len(waiting) \in 0 .. Len(waiting)
    BY DEF PaceTyped, PaceRest
  <2>2. streams \in Nat
    BY <2>1 DEF PaceTyped, PaceSum, PaceTotals
  <2> QED
    BY <2>2 DEF PaceTyped, PaceInv, PaceTypes, PaceRest, TypeOK
<1> QED
  BY <1>1, <1>2, <1>3, PTL DEF Spec

-----------------------------------------------------------------------------
\* The rings of the Ethernet HAL, of one size.
CONSTANTS DescCount, MaxSegs, EmacLiberties

VARIABLES own, first, last, txOf, txAwake, txFrame, txAt,
          txDesc, left, poll, within, sends,
          rxDesc, rxOf, rxAt, rxAwake, rxFrame, body, segs, call, wanted,
          remain, since

Tx == INSTANCE EmacSend WITH
    Count <- DescCount, Liberties <- EmacLiberties, dma <- txAt,
    tx <- txDesc, of <- txOf, awake <- txAwake, frame <- txFrame

\* The remainder, less than twice around.
LEMMA Remainder ==
    ASSUME NEW C \in Nat \ {0}, NEW x \in 0 .. 2 * C - 1
    PROVE  x % C = IF x < C THEN x ELSE x - C
OBVIOUS

\* Every set of natural numbers that is not empty has a least one.
LEMMA Least ==
    ASSUME NEW S \in SUBSET Nat, S # {}
    PROVE  \E n \in S : \A m \in S : n <= m
<1>1. PICK n \in S : \A m \in S : ~(<<m, n>> \in OpToRel(<, Nat))
  BY NatLessThanWellFounded, WFMin
<1>2. ASSUME NEW m \in S PROVE n <= m
  <2>1. ~(m < n)
    BY <1>1 DEF OpToRel
  <2> QED
    BY <2>1
<1> QED
  BY <1>2

\* The descriptor n places after i.
RingAt(i, n) == IF i + n < DescCount THEN i + n ELSE i + n - DescCount

\* It is what the remainder gives, a descriptor, the next one, and n places
\* after it are as many more after i.
LEMMA RingPlace ==
    ASSUME DescCount \in Nat \ {0}, NEW i \in 0 .. DescCount - 1,
           NEW n \in 0 .. DescCount - 1
    PROVE  /\ (i + n) % DescCount = RingAt(i, n)
           /\ RingAt(i, n) \in 0 .. DescCount - 1
<1>1. i + n \in 0 .. 2 * DescCount - 1
  OBVIOUS
<1>2. RingAt(i, n) \in 0 .. DescCount - 1
  BY DEF RingAt
<1> DEFINE x == i + n
<1>3. x \in 0 .. 2 * DescCount - 1
  BY <1>1
<1>4. RingAt(i, n) = IF x < DescCount THEN x ELSE x - DescCount
  BY DEF RingAt
<1> HIDE DEF x
<1>5. x % DescCount = RingAt(i, n)
  BY <1>3, <1>4, Remainder
<1> QED
  BY <1>2, <1>5 DEF x

\* The next place, and once around.
LEMMA RingNext ==
    ASSUME DescCount \in Nat \ {0}, NEW i \in 0 .. DescCount - 1
    PROVE  /\ (i + 1) % DescCount = RingAt(i, 1)
           /\ RingAt(i, 1) \in 0 .. DescCount - 1
           /\ RingAt(i, 0) = i /\ RingAt(i, DescCount) = i
<1>1. RingAt(i, 1) \in 0 .. DescCount - 1 /\ RingAt(i, 0) = i
      /\ RingAt(i, DescCount) = i
  BY DEF RingAt
<1> DEFINE x == i + 1
<1>3. x \in 0 .. 2 * DescCount - 1
  OBVIOUS
<1>4. RingAt(i, 1) = IF x < DescCount THEN x ELSE x - DescCount
  BY DEF RingAt
<1> HIDE DEF x
<1>5. x % DescCount = RingAt(i, 1)
  BY <1>3, <1>4, Remainder
<1> QED
  BY <1>1, <1>5 DEF x

\* So many places on, and so many more.
LEMMA RingFurther ==
    ASSUME DescCount \in Nat \ {0}, NEW i \in 0 .. DescCount - 1,
           NEW m \in 0 .. DescCount, NEW n \in 0 .. DescCount
    PROVE  /\ RingAt(i, m) \in 0 .. DescCount - 1
           /\ RingAt(RingAt(i, m), n) =
                 RingAt(i, IF m + n <= DescCount THEN m + n
                           ELSE m + n - DescCount)
BY DEF RingAt

\* Two places are not the same.
LEMMA RingApart ==
    ASSUME DescCount \in Nat \ {0}, NEW i \in 0 .. DescCount - 1,
           NEW m \in 0 .. DescCount - 1, NEW n \in 0 .. DescCount - 1,
           RingAt(i, m) = RingAt(i, n)
    PROVE  m = n
BY DEF RingAt

\* Every descriptor has a place.
LEMMA RingAll ==
    ASSUME DescCount \in Nat \ {0}, NEW i \in 0 .. DescCount - 1,
           NEW j \in 0 .. DescCount - 1
    PROVE  \E n \in 0 .. DescCount - 1 : j = RingAt(i, n)
<1> DEFINE n == IF j >= i THEN j - i ELSE j - i + DescCount
<1>1. n \in 0 .. DescCount - 1 /\ j = RingAt(i, n)
  BY DEF RingAt
<1> QED
  BY <1>1

\* How far behind the place m the place n is.
LEMMA RingBehind ==
    ASSUME DescCount \in Nat \ {0}, NEW i \in 0 .. DescCount - 1,
           NEW m \in 0 .. DescCount, NEW n \in 0 .. DescCount - 1
    PROVE  (RingAt(i, n) - RingAt(i, m)) % DescCount =
               IF n >= m THEN n - m ELSE n - m + DescCount
<1> DEFINE x == RingAt(i, n) - RingAt(i, m)
           y == IF n >= m THEN n - m ELSE n - m + DescCount
<1>1. y \in 0 .. DescCount - 1
  OBVIOUS
<1>2. x \in Int /\ (x = y \/ x = y - DescCount)
  BY DEF RingAt
<1> HIDE DEF x, y
<1>3. x % DescCount = y
  <2>1. y % DescCount = y
    BY <1>1
  <2>2. (y - DescCount) % DescCount = y
    BY <1>1
  <2> QED
    BY <1>2, <2>1, <2>2
<1> QED
  BY <1>3 DEF x, y

-----------------------------------------------------------------------------
\* No frame is longer than the ring.
TxPlain == "long" \notin EmacLiberties

\* The descriptor n places after that which the DMA is on.
TxAt(n) == RingAt(txAt, n)

\* Types of the ring and of the call.
TxTypes ==
    /\ own \in [Tx!Slots -> BOOLEAN]
    /\ first \in [Tx!Slots -> BOOLEAN]
    /\ last \in [Tx!Slots -> BOOLEAN]
    /\ txOf \in [Tx!Slots -> Tx!Numbers]
    /\ txDesc \in Tx!Slots /\ txAt \in Tx!Slots
    /\ left \in 0 .. DescCount
    /\ poll \in BOOLEAN /\ within \in BOOLEAN /\ txAwake \in BOOLEAN
    /\ txFrame \in Tx!Numbers /\ sends \in Tx!Numbers

\* The g descriptors from that one on are the DMA's, and those still to be
\* given to it follow.
TxRing(g) ==
    /\ g + left <= DescCount
    /\ txDesc = TxAt(g)
    /\ \A n \in 0 .. DescCount - 1 : own[TxAt(n)] <=> n < g

\* The next u descriptors hold the frames that were accepted and not sent, one
\* behind the other, each from its first segment to its last.
TxFollows(n) ==
    /\ first[TxAt(n)] = last[TxAt(n - 1)]
    /\ txOf[TxAt(n)] = IF last[TxAt(n - 1)] THEN Tx!After(txOf[TxAt(n - 1)])
                                          ELSE txOf[TxAt(n - 1)]
TxFrames(u) ==
    /\ u = 0 => sends = txFrame /\ ~within
    /\ u > 0 => /\ txOf[TxAt(0)] = sends /\ first[TxAt(0)] = ~within
                /\ last[TxAt(u - 1)] /\ txFrame = Tx!After(txOf[TxAt(u - 1)])
    /\ \A n \in 1 .. u - 1 : TxFollows(n)

\* The DMA is awake if it has something to send, or is about to be woken.
TxTold == (left > 0 => poll) /\ (own[txAt] => txAwake \/ poll)

\* The invariant.
TxState(g) == TxRing(g) /\ TxFrames(g + left)
TxInv == TxTypes /\ TxTold /\ \E g \in 0 .. DescCount : TxState(g)

\* What is known of the state.
LEMMA TxKnown ==
    ASSUME Tx!EmacSendAssumption, TxTypes
    PROVE  /\ DescCount \in Nat \ {0} /\ Tx!Slots = 0 .. DescCount - 1
           /\ txAt \in 0 .. DescCount - 1 /\ txDesc \in 0 .. DescCount - 1
           /\ left \in 0 .. DescCount
           /\ \A n \in 0 .. DescCount : TxAt(n) \in 0 .. DescCount - 1
           /\ TxAt(0) = txAt
<1>1. /\ DescCount \in Nat \ {0} /\ Tx!Slots = 0 .. DescCount - 1
      /\ txAt \in 0 .. DescCount - 1 /\ txDesc \in 0 .. DescCount - 1
      /\ left \in 0 .. DescCount
  BY DEF Tx!EmacSendAssumption, TxTypes, Tx!Slots
<1>2. \A n \in 0 .. DescCount : TxAt(n) \in 0 .. DescCount - 1
  BY <1>1, RingFurther DEF TxAt
<1>3. TxAt(0) = txAt
  BY <1>1, RingNext DEF TxAt
<1> QED
  BY <1>1, <1>2, <1>3

\* The number of the next frame.
LEMMA TxAfter ==
    ASSUME Tx!EmacSendAssumption, NEW f \in Tx!Numbers
    PROVE  Tx!After(f) \in Tx!Numbers
<1> DEFINE x == f + 1
           C == DescCount + 2
<1>1. x \in 0 .. 2 * C - 1 /\ C \in Nat \ {0}
  BY DEF Tx!EmacSendAssumption, Tx!Numbers
<1> HIDE DEF x, C
<1>2. x % C \in 0 .. C - 1
  BY <1>1, Remainder
<1>3. Tx!After(f) = x % C /\ Tx!Numbers = 0 .. C - 1
  BY DEF Tx!After, Tx!Numbers, x, C, Tx!EmacSendAssumption
<1> QED
  BY <1>2, <1>3

\* The ring as it is set up.
LEMMA TxInitInv ==
    ASSUME Tx!EmacSendAssumption, Tx!Init
    PROVE  TxInv
<1>1. TxTypes
  <2>1. /\ DescCount \in Nat \ {0} /\ 0 \in Tx!Slots /\ 0 \in Tx!Numbers
        /\ 0 \in 0 .. DescCount
    BY DEF Tx!EmacSendAssumption, Tx!Slots, Tx!Numbers
  <2>2. /\ own \in [Tx!Slots -> BOOLEAN] /\ first \in [Tx!Slots -> BOOLEAN]
        /\ last \in [Tx!Slots -> BOOLEAN] /\ txOf \in [Tx!Slots -> Tx!Numbers]
    BY <2>1 DEF Tx!Init
  <2> QED
    BY <2>1, <2>2 DEF Tx!Init, TxTypes
<1>2. TxTold
  BY <1>1, TxKnown DEF Tx!Init, TxTold, Tx!Slots
<1>3. TxRing(0)
  BY <1>1, TxKnown DEF Tx!Init, TxRing, Tx!Slots
<1>4. TxFrames(0)
  BY DEF Tx!Init, TxFrames
<1>5. 0 \in 0 .. DescCount /\ 0 + left = 0
  BY DEF Tx!Init, Tx!EmacSendAssumption
<1> QED
  BY <1>1, <1>2, <1>3, <1>4, <1>5 DEF TxInv, TxState

\* How many of the CPU's lie behind tx_desc in a row.
LEMMA TxUsable ==
    ASSUME Tx!EmacSendAssumption, TxTypes, NEW g \in 0 .. DescCount,
           TxRing(g)
    PROVE  Tx!Usable = DescCount - g
<1>1. /\ DescCount \in Nat \ {0} /\ Tx!Slots = 0 .. DescCount - 1
      /\ txAt \in 0 .. DescCount - 1 /\ txDesc \in 0 .. DescCount - 1
  BY TxKnown
<1>2. ASSUME NEW m \in 0 .. DescCount - 1
      PROVE  ~own[(txDesc + m) % DescCount] <=> ~(g + m >= DescCount)
  <2> DEFINE k == IF g + m <= DescCount THEN g + m ELSE g + m - DescCount
  <2>1. (txDesc + m) % DescCount = RingAt(txDesc, m)
    BY <1>1, RingPlace
  <2>2. RingAt(txDesc, m) = TxAt(k)
    BY <1>1, RingFurther DEF TxRing, TxAt
  <2>3. CASE k = DescCount
    <3>0. TxAt(DescCount) = TxAt(0)
      BY <1>1, RingNext DEF TxAt
    <3>1. TxAt(k) = TxAt(0) /\ 0 < g /\ g + m = DescCount
      BY <1>1, <2>3, <3>0
    <3>2. own[TxAt(0)]
      BY <1>1, <3>1 DEF TxRing
    <3> QED
      BY <2>1, <2>2, <3>1, <3>2
  <2>4. CASE k # DescCount
    <3>1. k \in 0 .. DescCount - 1 /\ (k < g <=> g + m >= DescCount)
      BY <1>1, <2>4
    <3>2. own[TxAt(k)] <=> k < g
      BY <3>1 DEF TxRing
    <3> QED
      BY <2>1, <2>2, <3>1, <3>2
  <2> QED
    BY <2>3, <2>4
<1> DEFINE U == {n \in Tx!Slots :
                    \A m \in 0 .. n : ~own[(txDesc + m) % DescCount]}
<1>3. U = 0 .. DescCount - g - 1
  <2>1. ASSUME NEW n \in 0 .. DescCount - 1
        PROVE  (\A m \in 0 .. n : ~own[(txDesc + m) % DescCount])
                  <=> g + n < DescCount
    <3>1. ASSUME NEW m \in 0 .. n
          PROVE  m \in 0 .. DescCount - 1 /\ m <= n
      BY <1>1, <2>1
    <3>2. ASSUME g + n < DescCount, NEW m \in 0 .. n
          PROVE  ~own[(txDesc + m) % DescCount]
      <4>1. ~(g + m >= DescCount)
        BY <1>1, <3>1, <3>2
      <4> QED
        BY <1>2, <3>1, <4>1
    <3>3. ASSUME ~own[(txDesc + n) % DescCount] PROVE g + n < DescCount
      BY <1>1, <1>2, <3>3
    <3>4. n \in 0 .. n
      OBVIOUS
    <3> QED
      BY <3>2, <3>3, <3>4
  <2>2. U = {n \in 0 .. DescCount - 1 : g + n < DescCount}
    BY <1>1, <2>1
  <2> QED
    BY <1>1, <2>2
<1>4. Cardinality(0 .. DescCount - g - 1) = DescCount - g
  BY <1>1, FS_Interval
<1>5. Tx!Usable = Cardinality(U)
  BY DEF Tx!Usable, Tx!Cardinality, Cardinality
<1> QED
  BY <1>3, <1>4, <1>5

\* What is written, by places.
LEMMA TxWritten ==
    ASSUME Tx!EmacSendAssumption, TxTypes, NEW g \in 0 .. DescCount,
           TxRing(g), NEW n \in 0 .. DescCount - g, NEW size \in Nat,
           Tx!Write(n, size), NEW k \in 0 .. DescCount - 1
    PROVE  /\ k < g => /\ first'[TxAt(k)] = first[TxAt(k)]
                       /\ last'[TxAt(k)] = last[TxAt(k)]
                       /\ txOf'[TxAt(k)] = txOf[TxAt(k)]
           /\ k >= g /\ k < g + n => /\ first'[TxAt(k)] = (k = g)
                                     /\ last'[TxAt(k)] = (k - g = size - 1)
                                     /\ txOf'[TxAt(k)] = txFrame
<1>1. /\ DescCount \in Nat \ {0} /\ Tx!Slots = 0 .. DescCount - 1
      /\ txAt \in 0 .. DescCount - 1 /\ TxAt(k) \in 0 .. DescCount - 1
  BY TxKnown
<1>2. Tx!Behind(TxAt(k)) = IF k >= g THEN k - g ELSE k - g + DescCount
  BY <1>1, RingBehind DEF Tx!Behind, TxRing, TxAt
<1> DEFINE b == Tx!Behind(TxAt(k))
<1>3. /\ first'[TxAt(k)] = IF b < n THEN b = 0 ELSE first[TxAt(k)]
      /\ last'[TxAt(k)] = IF b < n THEN b = size - 1 ELSE last[TxAt(k)]
      /\ txOf'[TxAt(k)] = IF b < n THEN txFrame ELSE txOf[TxAt(k)]
  BY <1>1 DEF Tx!Write
<1>4. k < g => ~(b < n)
  BY <1>1, <1>2
<1>5. k >= g /\ k < g + n => b < n /\ b = k - g /\ (b = 0 <=> k = g)
  BY <1>1, <1>2
<1> QED
  BY <1>3, <1>4, <1>5

\* Writing descriptors leaves their types.
LEMMA TxWriteTypes ==
    ASSUME Tx!EmacSendAssumption, TxTypes, NEW n, NEW size, Tx!Write(n, size)
    PROVE  /\ first' \in [Tx!Slots -> BOOLEAN]
           /\ last' \in [Tx!Slots -> BOOLEAN]
           /\ txOf' \in [Tx!Slots -> Tx!Numbers]
<1>1. \A i \in Tx!Slots :
         /\ first[i] \in BOOLEAN /\ last[i] \in BOOLEAN
         /\ txOf[i] \in Tx!Numbers
  BY DEF TxTypes
<1>2. txFrame \in Tx!Numbers
  BY DEF TxTypes
<1> QED
  BY <1>1, <1>2 DEF Tx!Write

\* Frames that fit, one behind the other with those there are.
LEMMA TxTransmitInv ==
    ASSUME Tx!EmacSendAssumption, TxPlain, TxTypes, TxTold,
           NEW g \in 0 .. DescCount, TxState(g),
           NEW size \in 1 .. DescCount + 1, NEW several \in BOOLEAN,
           Tx!TransmitFrame(size, several)
    PROVE  TxInv'
<1>1. /\ DescCount \in Nat \ {0} /\ Tx!Slots = 0 .. DescCount - 1
      /\ txAt \in 0 .. DescCount - 1 /\ txDesc \in 0 .. DescCount - 1
      /\ \A n \in 0 .. DescCount : TxAt(n) \in 0 .. DescCount - 1
  BY TxKnown
<1>2. /\ left = 0 /\ ~poll /\ size <= DescCount
      /\ Tx!Fits(size) /\ Tx!Write(size, size) /\ left' = size
      /\ poll' = TRUE /\ txFrame' = Tx!After(txFrame)
      /\ UNCHANGED <<own, txDesc, txAt, within, txAwake, sends>>
  BY <1>1 DEF Tx!TransmitFrame, TxPlain
<1>3. TxRing(g) /\ TxFrames(g) /\ g + left = g
  BY <1>2 DEF TxState
<1>4. g + size <= DescCount /\ size \in 0 .. DescCount - g
  <2>1. Tx!Usable = DescCount - g
    BY <1>3, TxUsable
  <2> QED
    BY <1>1, <1>2, <2>1 DEF Tx!Fits
<1>5. TxTypes'
  <2>1. /\ first' \in [Tx!Slots -> BOOLEAN] /\ last' \in [Tx!Slots -> BOOLEAN]
        /\ txOf' \in [Tx!Slots -> Tx!Numbers]
    BY <1>2, TxWriteTypes
  <2>2. Tx!After(txFrame) \in Tx!Numbers
    BY TxAfter DEF TxTypes
  <2>3. size \in 0 .. DescCount
    BY <1>1, <1>2
  <2> QED
    BY <1>2, <2>1, <2>2, <2>3 DEF TxTypes
<1>6. TxTold'
  BY <1>2 DEF TxTold
<1>7. TxAt(0)' = TxAt(0) /\ \A n : TxAt(n)' = TxAt(n)
  BY <1>2 DEF TxAt
<1>8. TxRing(g)'
  BY <1>2, <1>3, <1>4, <1>7 DEF TxRing
<1>9. ASSUME NEW k \in 0 .. g + size - 1
      PROVE  /\ k \in 0 .. DescCount - 1
             /\ k < g => /\ first'[TxAt(k)] = first[TxAt(k)]
                         /\ last'[TxAt(k)] = last[TxAt(k)]
                         /\ txOf'[TxAt(k)] = txOf[TxAt(k)]
             /\ k >= g => /\ first'[TxAt(k)] = (k = g)
                          /\ last'[TxAt(k)] = (k - g = size - 1)
                          /\ txOf'[TxAt(k)] = txFrame
  <2>1. k \in 0 .. DescCount - 1 /\ size \in Nat /\ k < g + size
    BY <1>1, <1>4
  <2> QED
    BY <1>2, <1>3, <1>4, <2>1, TxWritten
<1>10. TxFrames(g + size)'
  <2>1. 0 \in 0 .. g + size - 1 /\ g + size - 1 \in 0 .. g + size - 1
        /\ g + size - 1 >= g /\ g + size > 0 /\ g + size - 1 - g = size - 1
    BY <1>1
  <2>2. txOf'[TxAt(0)] = sends /\ first'[TxAt(0)] = ~within
    <3>1. CASE g = 0
      BY <1>3, <1>9, <2>1, <3>1 DEF TxFrames
    <3>2. CASE g # 0
      BY <1>3, <1>9, <2>1, <3>2 DEF TxFrames
    <3> QED
      BY <3>1, <3>2
  <2>3. last'[TxAt(g + size - 1)] /\ txOf'[TxAt(g + size - 1)] = txFrame
    <3>1. PICK z \in 0 .. g + size - 1 : z = g + size - 1
      BY <2>1
    <3>2. z >= g /\ z - g = size - 1
      BY <2>1, <3>1
    <3>3. last'[TxAt(z)] = (z - g = size - 1) /\ txOf'[TxAt(z)] = txFrame
      BY <1>9, <3>2
    <3> QED
      BY <3>1, <3>2, <3>3
  <2>4. ASSUME NEW n \in 1 .. g + size - 1
        PROVE  /\ first'[TxAt(n)] = last'[TxAt(n - 1)]
               /\ txOf'[TxAt(n)] = IF last'[TxAt(n - 1)]
                                 THEN Tx!After(txOf'[TxAt(n - 1)])
                                 ELSE txOf'[TxAt(n - 1)]
    <3>1. n \in 0 .. g + size - 1 /\ n - 1 \in 0 .. g + size - 1
      BY <1>1, <2>4
    <3>2. CASE n < g
      <4>1. n \in 1 .. g - 1 /\ n - 1 < g
        BY <1>1, <3>2
      <4> QED
        BY <1>3, <1>9, <3>1, <3>2, <4>1 DEF TxFrames, TxFollows
    <3>3. CASE n = g
      <4>1. n - 1 < g /\ g > 0 /\ n >= g /\ n - 1 = g - 1
        BY <1>1, <3>3
      <4>2. last[TxAt(g - 1)] /\ txFrame = Tx!After(txOf[TxAt(g - 1)])
        BY <1>3, <4>1 DEF TxFrames
      <4>3. first'[TxAt(n)] /\ txOf'[TxAt(n)] = txFrame
        BY <1>9, <3>1, <3>3, <4>1
      <4>4. /\ last'[TxAt(n - 1)] = last[TxAt(n - 1)]
            /\ txOf'[TxAt(n - 1)] = txOf[TxAt(n - 1)]
        BY <1>9, <3>1, <4>1
      <4>5. first'[TxAt(n)] = (n = g)
        BY <1>9, <3>1, <4>1
      <4>6. last[TxAt(n - 1)] \in BOOLEAN
        BY <1>1, <3>1, <1>9 DEF TxTypes
      <4> QED
        BY <3>3, <4>1, <4>2, <4>3, <4>4, <4>5, <4>6
    <3>4. CASE n > g
      <4>1. n - 1 >= g /\ n >= g /\ n # g /\ n - 1 - g # size - 1
        BY <1>1, <2>4, <3>4
      <4>2. first'[TxAt(n)] = (n = g) /\ txOf'[TxAt(n)] = txFrame
        BY <1>9, <3>1, <4>1
      <4>3. /\ last'[TxAt(n - 1)] = (n - 1 - g = size - 1)
            /\ txOf'[TxAt(n - 1)] = txFrame
        BY <1>9, <3>1, <4>1
      <4> QED
        BY <4>1, <4>2, <4>3
    <3> QED
      BY <1>1, <3>2, <3>3, <3>4
  <2> QED
    BY <1>2, <1>7, <2>1, <2>2, <2>3, <2>4 DEF TxFrames, TxFollows
<1>11. (g + left)' = g + size
  BY <1>2
<1> QED
  BY <1>5, <1>6, <1>8, <1>10, <1>11 DEF TxInv, TxState

\* A frame that is refused has overwritten nothing.
LEMMA TxRefuseInv ==
    ASSUME Tx!EmacSendAssumption, TxTypes, TxTold,
           NEW g \in 0 .. DescCount, TxState(g),
           NEW size \in 1 .. DescCount, Tx!Refuse(size)
    PROVE  TxInv'
<1>1. /\ DescCount \in Nat \ {0} /\ Tx!Slots = 0 .. DescCount - 1
      /\ \A n \in 0 .. DescCount : TxAt(n) \in 0 .. DescCount - 1
  BY TxKnown
<1>2. /\ left = 0 /\ Tx!Write(Tx!Usable, size)
      /\ UNCHANGED <<own, txDesc, left, poll, txFrame, txAt, within,
                     txAwake, sends>>
  BY DEF Tx!Refuse
<1>3. TxRing(g) /\ TxFrames(g) /\ g + left = g
  BY <1>2 DEF TxState
<1>4. Tx!Usable = DescCount - g /\ DescCount - g \in 0 .. DescCount - g
  BY <1>1, <1>3, TxUsable
<1>5. TxTypes'
  <2>1. /\ first' \in [Tx!Slots -> BOOLEAN] /\ last' \in [Tx!Slots -> BOOLEAN]
        /\ txOf' \in [Tx!Slots -> Tx!Numbers]
    BY <1>2, TxWriteTypes
  <2> QED
    BY <1>2, <2>1 DEF TxTypes
<1>6. TxTold'
  BY <1>2 DEF TxTold
<1>7. \A n : TxAt(n)' = TxAt(n)
  BY <1>2 DEF TxAt
<1>8. TxRing(g)'
  BY <1>2, <1>3, <1>7 DEF TxRing
<1>9. ASSUME NEW k \in 0 .. g - 1
      PROVE  /\ first'[TxAt(k)] = first[TxAt(k)]
             /\ last'[TxAt(k)] = last[TxAt(k)]
             /\ txOf'[TxAt(k)] = txOf[TxAt(k)]
  <2>1. k \in 0 .. DescCount - 1 /\ size \in Nat /\ k < g
    BY <1>1
  <2> QED
    BY <1>2, <1>3, <1>4, <2>1, TxWritten
<1>10. TxFrames(g)'
  <2>1. g > 0 => 0 \in 0 .. g - 1 /\ g - 1 \in 0 .. g - 1
    BY <1>1
  <2>2. \A n \in 1 .. g - 1 : n \in 0 .. g - 1 /\ n - 1 \in 0 .. g - 1
    BY <1>1
  <2>3. g = 0 => sends' = txFrame' /\ ~within'
    BY <1>2, <1>3 DEF TxFrames
  <2>4. g > 0 => /\ txOf'[TxAt(0)] = sends' /\ first'[TxAt(0)] = ~within'
                 /\ last'[TxAt(g - 1)]
                 /\ txFrame' = Tx!After(txOf'[TxAt(g - 1)])
    BY <1>2, <1>3, <1>9, <2>1 DEF TxFrames
  <2>5. ASSUME NEW n \in 1 .. g - 1
        PROVE  /\ first'[TxAt(n)] = last'[TxAt(n - 1)]
               /\ txOf'[TxAt(n)] = IF last'[TxAt(n - 1)]
                                 THEN Tx!After(txOf'[TxAt(n - 1)])
                                 ELSE txOf'[TxAt(n - 1)]
    BY <1>3, <1>9, <2>2 DEF TxFrames, TxFollows
  <2> QED
    BY <1>7, <2>3, <2>4, <2>5 DEF TxFrames, TxFollows
<1> QED
  BY <1>2, <1>3, <1>5, <1>6, <1>8, <1>10 DEF TxInv, TxState

\* A descriptor of the frame is given to the DMA.
LEMMA TxGiveInv ==
    ASSUME Tx!EmacSendAssumption, TxTypes, TxTold,
           NEW g \in 0 .. DescCount, TxState(g), Tx!Give
    PROVE  TxInv'
<1>1. /\ DescCount \in Nat \ {0} /\ Tx!Slots = 0 .. DescCount - 1
      /\ txAt \in 0 .. DescCount - 1 /\ txDesc \in 0 .. DescCount - 1
      /\ left \in 0 .. DescCount
      /\ \A n \in 0 .. DescCount : TxAt(n) \in 0 .. DescCount - 1
  BY TxKnown
<1>2. /\ left > 0 /\ own' = [own EXCEPT ![txDesc] = TRUE]
      /\ txDesc' = Tx!Succ(txDesc)
      /\ left' = left - 1
      /\ UNCHANGED <<first, last, txOf, poll, txFrame, txAt, within,
                     txAwake, sends>>
  BY DEF Tx!Give
<1>3. /\ g + left <= DescCount /\ txDesc = TxAt(g) /\ TxFrames(g + left)
      /\ \A n \in 0 .. DescCount - 1 : own[TxAt(n)] <=> n < g
  BY DEF TxState, TxRing
<1>4. /\ g \in 0 .. DescCount - 1 /\ g + 1 \in 0 .. DescCount
      /\ left' \in 0 .. DescCount /\ g + 1 + left' = g + left
      /\ g + 1 + left' <= DescCount
  BY <1>1, <1>2, <1>3
<1>5. txDesc' = TxAt(g + 1) /\ txDesc' \in 0 .. DescCount - 1
  <2>1. txDesc' = RingAt(txDesc, 1)
    BY <1>1, <1>2, RingNext DEF Tx!Succ
  <2>2. RingAt(RingAt(txAt, g), 1) = RingAt(txAt, g + 1)
    BY <1>1, <1>4, RingFurther
  <2> QED
    BY <1>1, <1>3, <1>4, <2>1, <2>2 DEF TxAt
<1>6. TxTypes'
  BY <1>1, <1>2, <1>4, <1>5 DEF TxTypes
<1>7. \A n : TxAt(n)' = TxAt(n)
  BY <1>2 DEF TxAt
<1>8. TxTold'
  BY <1>2, <1>4 DEF TxTold
<1>9. TxRing(g + 1)'
  <2>1. ASSUME NEW n \in 0 .. DescCount - 1
        PROVE  own'[TxAt(n)] <=> n < g + 1
    <3>1. TxAt(n) = txDesc => n = g
      BY <1>1, <1>3, <1>4, RingApart DEF TxAt
    <3>2. own'[TxAt(n)] = IF TxAt(n) = txDesc THEN TRUE ELSE own[TxAt(n)]
      <4>1. TxAt(n) \in Tx!Slots /\ own \in [Tx!Slots -> BOOLEAN]
        BY <1>1 DEF TxTypes
      <4> QED
        BY <1>2, <4>1
    <3> QED
      BY <1>3, <1>4, <3>1, <3>2
  <2> QED
    BY <1>2, <1>4, <1>5, <1>7, <2>1 DEF TxRing
<1>10. TxFrames(g + 1 + left)'
  <2>1. PICK u \in Nat : u = g + left
    BY <1>1
  <2>2. TxFrames(u)
    BY <1>3, <2>1
  <2>3. TxFrames(u)'
    BY <1>2, <1>7, <2>2 DEF TxFrames, TxFollows
  <2>4. (g + 1 + left)' = u
    BY <1>4, <2>1
  <2> QED
    BY <2>3, <2>4
<1> QED
  BY <1>4, <1>6, <1>8, <1>9, <1>10 DEF TxInv, TxState

\* The DMA sends a descriptor.
LEMMA TxSendInv ==
    ASSUME Tx!EmacSendAssumption, TxTypes, TxTold,
           NEW g \in 0 .. DescCount, TxState(g), Tx!Send
    PROVE  TxInv'
<1>1. /\ DescCount \in Nat \ {0} /\ Tx!Slots = 0 .. DescCount - 1
      /\ txAt \in 0 .. DescCount - 1 /\ txDesc \in 0 .. DescCount - 1
      /\ left \in 0 .. DescCount
      /\ \A n \in 0 .. DescCount : TxAt(n) \in 0 .. DescCount - 1
      /\ TxAt(0) = txAt
  BY TxKnown
<1>2. /\ txAwake /\ own[txAt] /\ own' = [own EXCEPT ![txAt] = FALSE]
      /\ txAt' = Tx!Succ(txAt) /\ within' = ~last[txAt]
      /\ sends' = IF last[txAt] THEN Tx!After(sends) ELSE sends
      /\ UNCHANGED <<first, last, txOf, txDesc, left, poll, txFrame, txAwake>>
  BY DEF Tx!Send
<1>3. /\ g + left <= DescCount /\ txDesc = TxAt(g) /\ TxFrames(g + left)
      /\ \A n \in 0 .. DescCount - 1 : own[TxAt(n)] <=> n < g
  BY DEF TxState, TxRing
<1>4. g > 0
  BY <1>1, <1>2, <1>3
<1>5. txAt' = TxAt(1) /\ txAt' \in 0 .. DescCount - 1
  BY <1>1, <1>2, RingNext DEF Tx!Succ, TxAt
<1>6. TxTypes'
  <2>1. Tx!After(sends) \in Tx!Numbers /\ last[txAt] \in BOOLEAN
    BY <1>1, TxAfter DEF TxTypes
  <2> QED
    BY <1>1, <1>2, <1>5, <2>1 DEF TxTypes
<1>7. TxTold'
  BY <1>2 DEF TxTold
<1>8. ASSUME NEW n \in 0 .. DescCount - 1
      PROVE  TxAt(n)' = TxAt(n + 1)
  <2>1. RingAt(RingAt(txAt, 1), n) = RingAt(txAt, n + 1)
    BY <1>1, <1>8, RingFurther
  <2> QED
    BY <1>5, <2>1 DEF TxAt
<1>9. TxRing(g - 1)'
  <2>1. txDesc' = TxAt(g - 1)'
    <3>1. g - 1 \in 0 .. DescCount - 1 /\ g - 1 + 1 = g
      BY <1>1, <1>4
    <3> QED
      BY <1>2, <1>3, <1>8, <3>1
  <2>2. ASSUME NEW n \in 0 .. DescCount - 1
        PROVE  own'[TxAt(n)'] <=> n < g - 1
    <3>1. CASE n = DescCount - 1
      <4>1. TxAt(n + 1) = txAt
        BY <1>1, <3>1, RingNext DEF TxAt
      <4>2. ~own'[txAt]
        BY <1>1, <1>2 DEF TxTypes
      <4>3. ~(n < g - 1)
        BY <1>1, <3>1
      <4>4. TxAt(n)' = txAt
        BY <1>8, <4>1
      <4> QED
        BY <4>2, <4>3, <4>4
    <3>2. CASE n # DescCount - 1
      <4>1. n + 1 \in 0 .. DescCount - 1 /\ 0 \in 0 .. DescCount - 1
        BY <1>1, <3>2
      <4>2. TxAt(n + 1) # txAt
        BY <1>1, <4>1, RingApart DEF TxAt
      <4>3. own'[TxAt(n + 1)] = own[TxAt(n + 1)]
        BY <1>1, <1>2, <4>1, <4>2 DEF TxTypes
      <4>4. own[TxAt(n + 1)] <=> n + 1 < g
        BY <1>3, <4>1
      <4>5. n + 1 < g <=> n < g - 1
        BY <1>1
      <4>6. own'[TxAt(n)'] = own[TxAt(n + 1)]
        BY <1>8, <4>3
      <4> QED
        BY <4>4, <4>5, <4>6
    <3> QED
      BY <3>1, <3>2
  <2>3. g - 1 + left <= DescCount
    BY <1>1, <1>3, <1>4
  <2> QED
    BY <1>2, <2>1, <2>2, <2>3 DEF TxRing
<1>10. TxFrames(g - 1 + left)'
  <2>0. PICK u \in Nat : u = g + left
    BY <1>1
  <2>1. u \in 1 .. DescCount /\ g - 1 + left = u - 1 /\ TxFrames(u)
    BY <1>1, <1>3, <1>4, <2>0
  <2>2. txOf[txAt] = sends /\ last[txAt] \in BOOLEAN
    BY <1>1, <2>1 DEF TxFrames, TxTypes
  <2>3. CASE u = 1
    <3>1. last[txAt] /\ txFrame = Tx!After(txOf[txAt])
      BY <1>1, <2>1, <2>3 DEF TxFrames
    <3>2. TxFrames(0)'
      <4>1. sends' = Tx!After(txOf[txAt]) /\ ~within' /\ txFrame' = txFrame
        BY <1>2, <2>2, <3>1
      <4>2. 1 .. 0 - 1 = {}
        OBVIOUS
      <4>3. sends' = txFrame'
        BY <3>1, <4>1
      <4> QED
        BY <4>1, <4>2, <4>3 DEF TxFrames
    <3>3. (g - 1 + left)' = 0
      BY <1>2, <2>1, <2>3
    <3> QED
      BY <3>2, <3>3
  <2>4. CASE u # 1
    <3>1. 1 \in 1 .. u - 1 /\ 0 \in 0 .. DescCount - 1
          /\ u - 2 \in 0 .. DescCount - 1
          /\ u - 2 + 1 = u - 1 /\ 0 + 1 = 1 /\ u - 1 - 1 = u - 2 /\ 1 - 1 = 0
      BY <1>1, <2>1, <2>4
    <3>2. TxFollows(1)
      BY <2>1, <3>1 DEF TxFrames
    <3>3. txOf'[TxAt(0)'] = sends' /\ first'[TxAt(0)'] = ~within'
      BY <1>1, <1>2, <1>8, <2>2, <3>1, <3>2 DEF TxFollows
    <3>4. last'[TxAt(u - 2)'] /\ txFrame' = Tx!After(txOf'[TxAt(u - 2)'])
      <4>1. TxAt(u - 2)' = TxAt(u - 1)
        BY <1>8, <3>1
      <4>2. last[TxAt(u - 1)] /\ txFrame = Tx!After(txOf[TxAt(u - 1)])
        BY <2>1 DEF TxFrames
      <4> QED
        BY <1>2, <4>1, <4>2
    <3>5. ASSUME NEW n \in 1 .. u - 2
          PROVE  /\ first'[TxAt(n)'] = last'[TxAt(n - 1)']
                 /\ txOf'[TxAt(n)'] = IF last'[TxAt(n - 1)']
                                    THEN Tx!After(txOf'[TxAt(n - 1)'])
                                    ELSE txOf'[TxAt(n - 1)']
      <4>1. /\ n + 1 \in 1 .. u - 1 /\ n + 1 - 1 = n /\ n - 1 + 1 = n
            /\ n \in 0 .. DescCount - 1 /\ n - 1 \in 0 .. DescCount - 1
        BY <1>1, <2>1, <3>5
      <4>2. TxFollows(n + 1)
        BY <2>1, <4>1 DEF TxFrames
      <4>3. TxAt(n)' = TxAt(n + 1) /\ TxAt(n - 1)' = TxAt(n)
        BY <1>8, <4>1
      <4> QED
        BY <1>2, <4>1, <4>2, <4>3 DEF TxFollows
    <3>6. TxFrames(u - 1)'
      <4>1. u - 1 - 1 = u - 2 /\ u - 1 > 0
        BY <2>1, <2>4
      <4>2. PICK v \in Nat : v = u - 1
        BY <2>1
      <4>3. v - 1 = u - 2 /\ v > 0
        BY <4>1, <4>2
      <4>4. TxFrames(v)'
        BY <3>3, <3>4, <3>5, <4>3 DEF TxFrames, TxFollows
      <4> QED
        BY <4>2, <4>4
    <3>7. (g - 1 + left)' = u - 1
      BY <1>2, <2>1
    <3> QED
      BY <3>6, <3>7
  <2> QED
    BY <2>3, <2>4
<1>11. g - 1 \in 0 .. DescCount
  BY <1>1, <1>4
<1> QED
  BY <1>6, <1>7, <1>9, <1>10, <1>11 DEF TxInv, TxState

\* Nothing is under way in a frame: the ring is begun anew.
LEMMA TxRestartInv ==
    ASSUME Tx!EmacSendAssumption, TxTypes, TxTold, Tx!Restart
    PROVE  TxInv'
<1>1. /\ left = 0 /\ ~within /\ ~poll
      /\ own' = [i \in Tx!Slots |-> FALSE] /\ txDesc' = 0 /\ txAt' = 0
      /\ txAwake' = TRUE /\ sends' = txFrame
      /\ UNCHANGED <<first, last, txOf, left, poll, txFrame, within>>
  BY DEF Tx!Restart
<1>2. /\ DescCount \in Nat \ {0} /\ Tx!Slots = 0 .. DescCount - 1
      /\ 0 \in Tx!Slots /\ 0 \in 0 .. DescCount
  BY DEF Tx!EmacSendAssumption, Tx!Slots
<1>3. TxTypes'
  BY <1>1, <1>2 DEF TxTypes
<1>4. TxTold'
  BY <1>1, <1>2 DEF TxTold
<1>5. TxRing(0)'
  <2>1. \A n \in 0 .. DescCount - 1 : RingAt(0, n) \in Tx!Slots
    BY <1>2 DEF RingAt
  <2>2. RingAt(0, 0) = 0
    BY <1>2, RingNext
  <2>3. ASSUME NEW n \in 0 .. DescCount - 1
        PROVE  ~own'[RingAt(0, n)] /\ ~(n < 0)
    BY <1>1, <1>2, <2>1
  <2>4. \A n : TxAt(n)' = RingAt(0, n)
    BY <1>1 DEF TxAt
  <2>5. 0 + left' <= DescCount /\ txDesc' = TxAt(0)'
    BY <1>1, <1>2, <2>2, <2>4
  <2> QED
    BY <2>3, <2>4, <2>5 DEF TxRing
<1>6. TxFrames(0)'
  <2>1. 1 .. 0 - 1 = {}
    OBVIOUS
  <2> QED
    BY <1>1, <2>1 DEF TxFrames
<1>7. (0 + left)' = 0
  BY <1>1
<1> QED
  BY <1>2, <1>3, <1>4, <1>5, <1>6, <1>7 DEF TxInv, TxState

\* Every step keeps the invariant.
LEMMA TxNextInv ==
    ASSUME Tx!EmacSendAssumption, TxPlain, TxInv, [Tx!Next]_(Tx!vars)
    PROVE  TxInv'
<1>1. PICK g \in 0 .. DescCount : TxState(g)
  BY DEF TxInv
<1>2. TxTypes /\ TxTold
  BY DEF TxInv
<1>3. ASSUME NEW size \in 1 .. DescCount + 1, NEW several \in BOOLEAN,
             Tx!TransmitFrame(size, several)
      PROVE  TxInv'
  BY <1>1, <1>2, <1>3, TxTransmitInv
<1>4. ASSUME NEW size \in 1 .. DescCount, Tx!Refuse(size)
      PROVE  TxInv'
  BY <1>1, <1>2, <1>4, TxRefuseInv
<1>5. CASE Tx!Give
  BY <1>1, <1>2, <1>5, TxGiveInv
<1>6. CASE Tx!Poll
  <2>1. /\ left = 0 /\ poll' = FALSE /\ txAwake' = TRUE
        /\ UNCHANGED <<own, first, last, txOf, txDesc, left, txFrame, txAt,
                       within, sends>>
    BY <1>6 DEF Tx!Poll, Tx!Wakes
  <2>3. TxTypes'
    BY <1>2, <2>1 DEF TxTypes
  <2>4. TxTold'
    BY <1>2, <2>1 DEF TxTold
  <2>2. TxState(g)'
    BY <1>1, <1>6 DEF Tx!Poll, TxState, TxRing, TxFrames, TxFollows, TxAt
  <2> QED
    BY <2>2, <2>3, <2>4 DEF TxInv
<1>7. CASE Tx!Restart
  BY <1>2, <1>7, TxRestartInv
<1>8. CASE Tx!Send
  BY <1>1, <1>2, <1>8, TxSendInv
<1>9. CASE Tx!Suspend
  <2>1. TxTypes' /\ TxTold'
    BY <1>2, <1>9 DEF Tx!Suspend, TxTypes, TxTold
  <2>2. TxState(g)'
    BY <1>1, <1>9 DEF Tx!Suspend, TxState, TxRing, TxFrames, TxFollows, TxAt
  <2> QED
    BY <2>1, <2>2 DEF TxInv
<1>10. CASE UNCHANGED Tx!vars
  <2>1. TxTypes' /\ TxTold'
    BY <1>2, <1>10 DEF Tx!vars, TxTypes, TxTold
  <2>2. TxState(g)'
    BY <1>1, <1>10 DEF Tx!vars, TxState, TxRing, TxFrames, TxFollows, TxAt
  <2> QED
    BY <2>1, <2>2 DEF TxInv
<1> QED
  BY <1>3, <1>4, <1>5, <1>6, <1>7, <1>8, <1>9, <1>10 DEF Tx!Next

\* What the invariant says of what the run checks.
LEMMA TxImplied ==
    ASSUME Tx!EmacSendAssumption, TxInv
    PROVE  Tx!TypeOK /\ Tx!InStep /\ Tx!NothingForgotten
<1>1. PICK g \in 0 .. DescCount : TxState(g)
  BY DEF TxInv
<1>2. TxTypes /\ TxTold
  BY DEF TxInv
<1>3. /\ DescCount \in Nat \ {0} /\ left \in 0 .. DescCount /\ TxAt(0) = txAt
      /\ 0 \in 0 .. DescCount - 1
  BY <1>2, TxKnown
<1>4. own[txAt] <=> 0 < g
  BY <1>1, <1>3 DEF TxState, TxRing
<1>5. PICK u \in Nat : u = g + left
  BY <1>3
<1>6. TxFrames(u) /\ (u = 0 \/ u > 0)
  BY <1>1, <1>5 DEF TxState
<1>7. Tx!InStep
  <2>1. own[txAt] => u > 0
    BY <1>3, <1>4, <1>5
  <2> QED
    BY <1>3, <1>6, <2>1 DEF TxFrames, Tx!InStep
<1>8. Tx!NothingForgotten
  <2>1. within => u > 0
    BY <1>6 DEF TxFrames
  <2>2. u > 0 => 0 < g \/ left > 0
    BY <1>3, <1>5
  <2> QED
    BY <1>2, <1>4, <2>1, <2>2 DEF TxTold, Tx!NothingForgotten
<1> QED
  BY <1>2, <1>7, <1>8 DEF TxTypes, Tx!TypeOK

\* What the Ethernet DMA sends are the frames accepted, in order and whole, for
\* a ring of any size: it is never left before the rest of a frame but by a call
\* that is still giving it, and never stays suspended before what it was given.
THEOREM TxInOrder ==
    ASSUME Tx!EmacSendAssumption, TxPlain
    PROVE  Tx!Spec => [](Tx!TypeOK /\ Tx!InStep /\ Tx!NothingForgotten)
<1>1. Tx!Init => TxInv
  BY TxInitInv
<1>2. TxInv /\ [Tx!Next]_(Tx!vars) => TxInv'
  BY TxNextInv
<1>3. TxInv => Tx!TypeOK /\ Tx!InStep /\ Tx!NothingForgotten
  BY TxImplied
<1> QED
  BY <1>1, <1>2, <1>3, PTL DEF Tx!Spec

-----------------------------------------------------------------------------
\* The receiving half.
Rx == INSTANCE EmacRecv WITH
    Count <- DescCount, Liberties <- EmacLiberties, dma <- rxAt,
    rx <- rxDesc, of <- rxOf, awake <- rxAwake, frame <- rxFrame

\* The DMA leaves the descriptor alone that was given back and is looked at.
RxPlain == "refill" \notin EmacLiberties

\* A call is within a frame, or outside, where it has given it back entirely.
RxWithin == \/ call.pc \in {"copy", "flush"}
            \/ call.pc = "last" /\ ~last[call.iter]

\* The oldest descriptor that was not given back, and the n-th behind it.
RxBase == IF call.pc = "out" THEN rxDesc
          ELSE IF call.pc = "last" THEN RingAt(call.iter, 1)
          ELSE call.iter
RxNth(n) == RingAt(RxBase, n)

\* The frame that starts there, or goes on.
RxWanted == IF call.pc = "last" /\ ~RxWithin THEN Rx!After(wanted) ELSE wanted

\* Types of the ring and of the call.
RxTypes ==
    /\ own \in [Rx!Slots -> BOOLEAN]
    /\ first \in [Rx!Slots -> BOOLEAN]
    /\ last \in [Rx!Slots -> BOOLEAN]
    /\ body \in [Rx!Slots -> 0 .. MaxSegs]
    /\ rxOf \in [Rx!Slots -> Rx!Numbers]
    /\ rxAt \in Rx!Slots /\ rxDesc \in Rx!Slots
    /\ segs \in 0 .. MaxSegs - 1 /\ rxAwake \in BOOLEAN
    /\ rxFrame \in Rx!Numbers /\ wanted \in Rx!Numbers
    /\ call \in [pc : {"out", "copy", "last", "flush"}, iter : Rx!Slots,
                 left : 0 .. MaxSegs]
    /\ remain \in Nat /\ since \in Nat

\* n descriptors from the base on are not the DMA's, which is on the next one.
RxRing(n) ==
    /\ rxAt = RxNth(n)
    /\ \A m \in 0 .. DescCount - 1 : own[RxNth(m)] <=> m >= n

\* They hold frames one behind the other, each from its first segment to its
\* last, and of the one the DMA is receiving as many as it has filled.
RxFollows(m) ==
    /\ first[RxNth(m)] = last[RxNth(m - 1)]
    /\ rxOf[RxNth(m)] = IF last[RxNth(m - 1)] THEN Rx!After(rxOf[RxNth(m - 1)])
                                            ELSE rxOf[RxNth(m - 1)]
RxTail(n) ==
    n > 0 => IF last[RxNth(n - 1)]
             THEN segs = 0 /\ rxFrame = Rx!After(rxOf[RxNth(n - 1)])
             ELSE segs > 0 /\ rxFrame = rxOf[RxNth(n - 1)]
RxPart(n) ==
    segs <= n /\ \A k \in 0 .. n - 1 : k >= n - segs => ~last[RxNth(k)]

\* The length of a frame is that of its descriptors, or one less.
RxBody(m) ==
    last[RxNth(m)] =>
        /\ body[RxNth(m)] >= 1
        /\ \A q \in 0 .. m :
              first[RxNth(q)] /\ (\A k \in q .. m - 1 : ~last[RxNth(k)])
                  => body[RxNth(m)] <= m - q + 1
RxChain(n) ==
    /\ RxRing(n) /\ RxTail(n) /\ RxPart(n)
    /\ \A m \in 1 .. n - 1 : RxFollows(m)
    /\ \A m \in 0 .. n - 1 : RxBody(m)

\* The first of them is of the frame w, which is to come if there is none.
RxHead(n, w) == IF n = 0 THEN rxFrame = w /\ segs = 0 ELSE rxOf[RxNth(0)] = w

\* Outside of a frame the next one starts there; within it the end is still to
\* come, and not before all that is copied was.
RxCall(n) ==
    /\ ~RxWithin /\ n > 0 => first[RxNth(0)]
    /\ RxWithin => \E j \in 0 .. n - 1 : last[RxNth(j)]
    /\ call.pc = "copy" =>
          /\ call.left >= 1
          /\ \A k \in 0 .. n - 1 : k < call.left - 1 => ~last[RxNth(k)]
    /\ call.pc = "last" => n < DescCount

\* The frames there are.
RxEnds == {i \in Rx!Slots : ~own[i] /\ last[i]}
RxCounts ==
    Cardinality(RxEnds) = IF RxWithin THEN remain + since + 1
                          ELSE remain + since

\* The invariant.
RxState(n) == RxChain(n) /\ RxHead(n, RxWanted) /\ RxCall(n)
RxInv == RxTypes /\ RxCounts /\ \E n \in 0 .. DescCount : RxState(n)

\* What is known of the state.
LEMMA RxKnown ==
    ASSUME Rx!EmacRecvAssumption, RxTypes
    PROVE  /\ DescCount \in Nat \ {0, 1} /\ Rx!Slots = 0 .. DescCount - 1
           /\ DescCount \in Nat \ {0}
           /\ MaxSegs \in Nat \ {0} /\ segs \in 0 .. MaxSegs - 1
           /\ rxAt \in 0 .. DescCount - 1 /\ rxDesc \in 0 .. DescCount - 1
           /\ call.iter \in 0 .. DescCount - 1 /\ call.left \in 0 .. MaxSegs
           /\ call.pc \in {"out", "copy", "last", "flush"}
           /\ RxBase \in 0 .. DescCount - 1 /\ RxNth(0) = RxBase
           /\ \A n \in 0 .. DescCount : RxNth(n) \in 0 .. DescCount - 1
           /\ RxNth(DescCount) = RxBase
<1>1. /\ DescCount \in Nat \ {0, 1} /\ Rx!Slots = 0 .. DescCount - 1
      /\ DescCount \in Nat \ {0}
      /\ MaxSegs \in Nat \ {0} /\ segs \in 0 .. MaxSegs - 1
      /\ rxAt \in 0 .. DescCount - 1 /\ rxDesc \in 0 .. DescCount - 1
      /\ call.iter \in 0 .. DescCount - 1 /\ call.left \in 0 .. MaxSegs
      /\ call.pc \in {"out", "copy", "last", "flush"}
  BY DEF Rx!EmacRecvAssumption, RxTypes, Rx!Slots
<1>2. RxBase \in 0 .. DescCount - 1
  BY <1>1, RingNext DEF RxBase
<1>3. /\ \A n \in 0 .. DescCount : RxNth(n) \in 0 .. DescCount - 1
      /\ RxNth(0) = RxBase /\ RxNth(DescCount) = RxBase
  BY <1>1, <1>2, RingFurther, RingNext DEF RxNth
<1> QED
  BY <1>1, <1>2, <1>3

\* The number of the next frame.
LEMMA RxAfter ==
    ASSUME Rx!EmacRecvAssumption, NEW f \in Rx!Numbers
    PROVE  Rx!After(f) \in Rx!Numbers
<1> DEFINE x == f + 1
           C == DescCount + 2
<1>1. x \in 0 .. 2 * C - 1 /\ C \in Nat \ {0}
  BY DEF Rx!EmacRecvAssumption, Rx!Numbers
<1> HIDE DEF x, C
<1>2. x % C \in 0 .. C - 1
  BY <1>1, Remainder
<1>3. Rx!After(f) = x % C /\ Rx!Numbers = 0 .. C - 1
  BY DEF Rx!After, Rx!Numbers, x, C, Rx!EmacRecvAssumption
<1> QED
  BY <1>2, <1>3

\* There are finitely many ends.
LEMMA RxFinite ==
    ASSUME Rx!EmacRecvAssumption
    PROVE  /\ IsFiniteSet(RxEnds) /\ Cardinality(RxEnds) \in 0 .. DescCount
           /\ \A i : Cardinality(RxEnds \ {i}) =
                     IF i \in RxEnds THEN Cardinality(RxEnds) - 1
                                    ELSE Cardinality(RxEnds)
           /\ \A i : Cardinality(RxEnds \cup {i}) =
                     IF i \in RxEnds THEN Cardinality(RxEnds)
                                    ELSE Cardinality(RxEnds) + 1
<1>1. /\ DescCount \in Nat \ {0} /\ Rx!Slots = 0 .. DescCount - 1
  BY DEF Rx!EmacRecvAssumption, Rx!Slots
<1>2. IsFiniteSet(Rx!Slots) /\ Cardinality(Rx!Slots) = DescCount
  BY <1>1, FS_Interval
<1>3. RxEnds \in SUBSET Rx!Slots
  BY DEF RxEnds
<1>4. IsFiniteSet(RxEnds) /\ Cardinality(RxEnds) <= DescCount
  BY <1>2, <1>3, FS_Subset
<1>5. Cardinality(RxEnds) \in Nat
  BY <1>4, FS_CardinalityType
<1> QED
  BY <1>1, <1>4, <1>5, FS_RemoveElement, FS_AddElement

\* The ring as it is set up.
LEMMA RxInitInv ==
    ASSUME Rx!EmacRecvAssumption, Rx!Init
    PROVE  RxInv
<1>0. /\ DescCount \in Nat \ {0, 1} /\ Rx!Slots = 0 .. DescCount - 1
      /\ 0 \in Rx!Slots /\ 0 \in Rx!Numbers /\ MaxSegs \in Nat \ {0}
      /\ 0 \in 0 .. DescCount /\ 0 \in 0 .. MaxSegs /\ 0 \in 0 .. MaxSegs - 1
  BY DEF Rx!EmacRecvAssumption, Rx!Slots, Rx!Numbers
<1>1. RxTypes
  <2>1. /\ own \in [Rx!Slots -> BOOLEAN] /\ first \in [Rx!Slots -> BOOLEAN]
        /\ last \in [Rx!Slots -> BOOLEAN] /\ rxOf \in [Rx!Slots -> Rx!Numbers]
        /\ body \in [Rx!Slots -> 0 .. MaxSegs]
    BY <1>0 DEF Rx!Init
  <2>2. call \in [pc : {"out", "copy", "last", "flush"}, iter : Rx!Slots,
                 left : 0 .. MaxSegs]
    BY <1>0 DEF Rx!Init, Rx!Idle
  <2> QED
    BY <1>0, <2>1, <2>2 DEF Rx!Init, RxTypes
<1>2. call.pc = "out" /\ ~RxWithin
  BY DEF Rx!Init, Rx!Idle, RxWithin
<1>3. RxCounts
  <2>1. RxEnds = {}
    BY DEF Rx!Init, RxEnds
  <2> QED
    BY <1>2, <2>1, FS_EmptySet DEF RxCounts, Rx!Init
<1>4. RxNth(0) = 0 /\ \A n \in 0 .. DescCount : RxNth(n) \in Rx!Slots
  BY <1>0, <1>1, <1>2, RxKnown DEF RxBase, Rx!Init
<1>5. RxRing(0)
  <2>1. rxAt = RxNth(0)
    BY <1>4 DEF Rx!Init
  <2>2. ASSUME NEW m \in 0 .. DescCount - 1
        PROVE  own[RxNth(m)] /\ m >= 0
    <3>1. RxNth(m) \in Rx!Slots
      BY <1>0, <1>4
    <3> QED
      BY <3>1 DEF Rx!Init
  <2> QED
    BY <2>1, <2>2 DEF RxRing
<1>6. RxChain(0)
  <2>1. 1 .. 0 - 1 = {} /\ 0 .. 0 - 1 = {}
    OBVIOUS
  <2> QED
    BY <1>5, <2>1 DEF RxChain, RxTail, RxPart, Rx!Init
<1>7. RxHead(0, RxWanted)
  BY <1>2 DEF RxHead, RxWanted, Rx!Init
<1>8. RxCall(0)
  BY <1>0, <1>2 DEF RxCall
<1> QED
  BY <1>0, <1>1, <1>3, <1>6, <1>7, <1>8 DEF RxInv, RxState


\* What does not touch the ring, and goes on from the same descriptor.
LEMMA RxSame ==
    ASSUME NEW n \in 0 .. DescCount, NEW w, RxChain(n), RxHead(n, w),
           RxBase' = RxBase,
           UNCHANGED <<own, first, last, body, rxOf, rxAt, segs, rxFrame>>
    PROVE  /\ RxChain(n)' /\ RxHead(n, w)' /\ RxEnds' = RxEnds
           /\ \A m : RxNth(m)' = RxNth(m)
<1>1. \A m : RxNth(m)' = RxNth(m)
  BY DEF RxNth, RingAt
<1>2. RxRing(n)' /\ RxTail(n)' /\ RxPart(n)'
  BY <1>1 DEF RxChain, RxRing, RxTail, RxPart, Rx!After
<1>3. \A m \in 1 .. n - 1 : RxFollows(m)'
  BY <1>1 DEF RxChain, RxFollows, Rx!After
<1>4. \A m \in 0 .. n - 1 : RxBody(m)'
  BY <1>1 DEF RxChain, RxBody
<1>5. RxChain(n)'
  BY <1>2, <1>3, <1>4 DEF RxChain
<1>6. RxHead(n, w)' /\ RxEnds' = RxEnds
  BY <1>1 DEF RxHead, RxEnds, Rx!Slots
<1> QED
  BY <1>1, <1>5, <1>6

\* The oldest descriptor is given back, and the next one is the oldest.
LEMMA RxShift ==
    ASSUME Rx!EmacRecvAssumption, RxTypes, NEW n \in 1 .. DescCount,
           RxChain(n), \E j \in 0 .. n - 1 : last[RxNth(j)],
           RxBase' = RingAt(RxBase, 1),
           own' = [own EXCEPT ![RxBase] = TRUE],
           NEW w, w = IF last[RxBase] THEN Rx!After(rxOf[RxBase])
                                      ELSE rxOf[RxBase],
           UNCHANGED <<first, last, body, rxOf, rxAt, segs, rxFrame>>
    PROVE  /\ RxChain(n - 1)'
           /\ \A m \in 0 .. DescCount - 1 : RxNth(m)' = RxNth(m + 1)
           /\ RxHead(n - 1, w)'
           /\ n - 1 > 0 => first'[RxNth(0)'] = last[RxBase]
           /\ RxEnds' = RxEnds \ {RxBase}
           /\ RxBase \in RxEnds <=> last[RxBase]
<1>1. /\ DescCount \in Nat \ {0, 1} /\ Rx!Slots = 0 .. DescCount - 1
      /\ DescCount \in Nat \ {0} /\ segs \in 0 .. MaxSegs - 1
      /\ MaxSegs \in Nat \ {0}
      /\ RxBase \in 0 .. DescCount - 1 /\ RxNth(0) = RxBase
      /\ \A m \in 0 .. DescCount : RxNth(m) \in 0 .. DescCount - 1
      /\ RxNth(DescCount) = RxBase
  BY RxKnown
<1>2. ASSUME NEW m \in 0 .. DescCount - 1
      PROVE  RxNth(m)' = RxNth(m + 1)
  <2>1. RxNth(m)' = RingAt(RingAt(RxBase, 1), m)
    BY DEF RxNth, RingAt
  <2> QED
    BY <1>1, <2>1, RingFurther DEF RxNth
<1>3. RxRing(n) /\ RxTail(n) /\ RxPart(n) /\ segs < n
  BY <1>1 DEF RxChain, RxPart
<1>4. RxRing(n - 1)'
  <2>1. rxAt' = RxNth(n - 1)'
    <3>1. PICK p \in 0 .. DescCount - 1 : p = n - 1
      BY <1>1
    <3>2. RxNth(p)' = RxNth(n) /\ rxAt' = RxNth(n)
      BY <1>2, <1>3, <3>1 DEF RxRing
    <3> QED
      BY <3>1, <3>2
  <2>2. ASSUME NEW m \in 0 .. DescCount - 1
        PROVE  own'[RxNth(m + 1)] <=> m >= n - 1
    <3>1. CASE m + 1 = DescCount
      <4>1. m >= n - 1
        BY <1>1, <3>1
      <4>2. own'[RxBase]
        BY <1>1 DEF RxTypes
      <4> QED
        BY <1>1, <3>1, <4>1, <4>2
    <3>2. CASE m + 1 # DescCount
      <4>1. m + 1 \in 0 .. DescCount - 1 /\ 0 \in 0 .. DescCount - 1
        BY <1>1, <3>2
      <4>2. RxNth(m + 1) # RxBase
        BY <1>1, <4>1, RingApart DEF RxNth
      <4>3. own'[RxNth(m + 1)] = own[RxNth(m + 1)]
        BY <1>1, <4>1, <4>2 DEF RxTypes
      <4>4. own[RxNth(m + 1)] <=> m + 1 >= n
        BY <1>3, <4>1 DEF RxRing
      <4>5. m + 1 >= n <=> m >= n - 1
        OBVIOUS
      <4> QED
        BY <4>3, <4>4, <4>5
    <3> QED
      BY <3>1, <3>2
  <2> QED
    BY <1>2, <2>1, <2>2 DEF RxRing
<1>5. ASSUME n - 1 > 0
      PROVE  RxNth(n - 1 - 1)' = RxNth(n - 1)
  <2>1. PICK p \in 0 .. DescCount - 1 : p = n - 1 - 1
    BY <1>1, <1>5
  <2>2. p + 1 = n - 1 /\ RxNth(p)' = RxNth(p + 1)
    BY <1>2, <2>1
  <2> QED
    BY <2>1, <2>2
<1>6. RxTail(n - 1)'
  BY <1>3, <1>5 DEF RxTail, Rx!After
<1>7. RxPart(n - 1)'
  <2>1. ASSUME NEW k \in 0 .. n - 1 - 1, k >= n - 1 - segs
        PROVE  ~last'[RxNth(k)']
    <3>1. k + 1 \in 0 .. n - 1 /\ k + 1 >= n - segs /\ k \in 0 .. DescCount - 1
      BY <1>1, <2>1
    <3>2. ~last[RxNth(k + 1)]
      BY <1>3, <3>1 DEF RxPart
    <3> QED
      BY <1>2, <3>1, <3>2
  <2> QED
    BY <1>1, <1>3, <2>1 DEF RxPart
<1>8. ASSUME NEW m \in 1 .. n - 1 - 1
      PROVE  RxFollows(m)'
  <2>1. /\ m + 1 \in 1 .. n - 1 /\ m + 1 - 1 = m /\ m - 1 + 1 = m
        /\ m \in 0 .. DescCount - 1 /\ m - 1 \in 0 .. DescCount - 1
    BY <1>1
  <2>2. RxNth(m)' = RxNth(m + 1) /\ RxNth(m - 1)' = RxNth(m)
    BY <1>2, <2>1
  <2>3. RxFollows(m + 1)
    BY <2>1 DEF RxChain
  <2> QED
    BY <2>1, <2>2, <2>3 DEF RxFollows, Rx!After
<1>9. ASSUME NEW m \in 0 .. n - 1 - 1
      PROVE  RxBody(m)'
  <2>1. m + 1 \in 0 .. n - 1 /\ m \in 0 .. DescCount - 1
    BY <1>1
  <2>2. RxNth(m)' = RxNth(m + 1)
    BY <1>2, <2>1
  <2>3. SUFFICES ASSUME last[RxNth(m + 1)]
                 PROVE  /\ body[RxNth(m + 1)] >= 1
                        /\ \A q \in 0 .. m :
                              /\ first[RxNth(q)']
                              /\ \A k \in q .. m - 1 : ~last[RxNth(k)']
                              => body[RxNth(m + 1)] <= m - q + 1
    BY <2>2 DEF RxBody
  <2>4. RxBody(m + 1)
    BY <2>1 DEF RxChain
  <2>5. ASSUME NEW q \in 0 .. m, first[RxNth(q)'],
               \A k \in q .. m - 1 : ~last[RxNth(k)']
        PROVE  body[RxNth(m + 1)] <= m - q + 1
    <3>1. /\ q + 1 \in 0 .. m + 1 /\ m + 1 - (q + 1) + 1 = m - q + 1
          /\ q \in 0 .. DescCount - 1
      BY <1>1
    <3>2. first[RxNth(q + 1)]
      BY <1>2, <2>5, <3>1
    <3>3. ASSUME NEW k \in q + 1 .. m + 1 - 1
          PROVE  ~last[RxNth(k)]
      <4>1. /\ k - 1 \in q .. m - 1 /\ k - 1 + 1 = k
            /\ k - 1 \in 0 .. DescCount - 1
        BY <1>1
      <4>2. RxNth(k - 1)' = RxNth(k)
        BY <1>2, <4>1
      <4> QED
        BY <2>5, <4>1, <4>2
    <3>4. PICK z \in 0 .. m + 1 : z = q + 1
      BY <3>1
    <3>5. body[RxNth(m + 1)] <= m + 1 - z + 1
      BY <2>3, <2>4, <3>2, <3>3, <3>4 DEF RxBody
    <3> QED
      BY <3>1, <3>4, <3>5
  <2> QED
    BY <2>3, <2>4, <2>5 DEF RxBody
<1>10. RxChain(n - 1)'
  BY <1>4, <1>6, <1>7, <1>8, <1>9 DEF RxChain
<1>11. /\ RxHead(n - 1, w)'
       /\ n - 1 > 0 => first'[RxNth(0)'] = last[RxBase]
  <2>1. CASE n = 1
    <3>1. last[RxBase] /\ n - 1 = 0
      BY <1>1, <2>1
    <3>2. n > 0 /\ last[RxNth(n - 1)] /\ RxNth(n - 1) = RxBase
      BY <1>1, <2>1, <3>1
    <3>3. segs = 0 /\ rxFrame = Rx!After(rxOf[RxBase])
      BY <1>3, <3>2 DEF RxTail
    <3>4. segs' = 0 /\ rxFrame' = w
      BY <3>1, <3>3
    <3> QED
      BY <3>1, <3>4 DEF RxHead
  <2>2. CASE n # 1
    <3>1. /\ 1 \in 1 .. n - 1 /\ n - 1 > 0 /\ n - 1 # 0
          /\ 0 + 1 = 1 /\ 1 - 1 = 0
          /\ 0 \in 0 .. DescCount - 1
      BY <1>1, <2>2
    <3>2. RxFollows(1) /\ RxNth(0)' = RxNth(1)
      BY <1>2, <3>1 DEF RxChain
    <3>3. /\ first[RxNth(1)] = last[RxBase]
          /\ rxOf[RxNth(1)] = w
      BY <1>1, <3>1, <3>2 DEF RxFollows
    <3> QED
      BY <3>1, <3>2, <3>3 DEF RxHead
  <2> QED
    BY <2>1, <2>2
<1>12. RxEnds' = RxEnds \ {RxBase} /\ (RxBase \in RxEnds <=> last[RxBase])
  <2>1. RxEnds' = RxEnds \ {RxBase}
    BY <1>1 DEF RxEnds, RxTypes, Rx!Slots
  <2>2. own[RxNth(0)] <=> 0 >= n
    BY <1>1, <1>3 DEF RxRing
  <2>3. ~own[RxBase]
    BY <1>1, <2>2
  <2> QED
    BY <1>1, <2>1, <2>3 DEF RxEnds
<1> QED
  BY <1>2, <1>10, <1>11, <1>12

\* Within a call the oldest descriptor goes back, as the first of the frame it
\* is in; with the last one of it the call is outside.
LEMMA RxGiveBack ==
    ASSUME Rx!EmacRecvAssumption, RxTypes, RxTypes', RxCounts, RxWithin,
           NEW n \in 0 .. DescCount, RxState(n),
           RxBase' = RingAt(RxBase, 1),
           own' = [own EXCEPT ![RxBase] = TRUE],
           UNCHANGED <<first, last, body, rxOf, rxAt, segs, rxFrame, remain,
                       since>>,
           RxWithin' <=> ~last[RxBase],
           RxWanted' = IF last[RxBase] THEN Rx!After(wanted) ELSE wanted,
           call'.pc = "copy" => /\ call.pc = "copy" /\ call.left > 1
                                /\ call'.left = call.left - 1
    PROVE  RxInv'
<1>1. /\ DescCount \in Nat \ {0, 1} /\ DescCount \in Nat \ {0}
      /\ RxNth(0) = RxBase /\ call.left \in 0 .. MaxSegs
      /\ MaxSegs \in Nat \ {0}
  BY RxKnown
<1>2. PICK j \in 0 .. n - 1 : last[RxNth(j)]
  BY DEF RxState, RxCall
<1>3. n \in 1 .. DescCount /\ n # 0 /\ RxWanted = wanted
  BY <1>1, <1>2 DEF RxWanted, RxWithin
<1>4. rxOf[RxBase] = wanted
  BY <1>1, <1>3 DEF RxState, RxHead
<1>5. PICK w : w = IF last[RxBase] THEN Rx!After(rxOf[RxBase])
                                   ELSE rxOf[RxBase]
  OBVIOUS
<1>6. RxWanted' = w
  BY <1>4, <1>5
<1>7. PICK p \in 0 .. DescCount : p = n - 1
  BY <1>1, <1>3
<1>8. /\ RxChain(n - 1)'
      /\ \A m \in 0 .. DescCount - 1 : RxNth(m)' = RxNth(m + 1)
      /\ RxHead(n - 1, w)'
      /\ n - 1 > 0 => first'[RxNth(0)'] = last[RxBase]
      /\ RxEnds' = RxEnds \ {RxBase}
      /\ RxBase \in RxEnds <=> last[RxBase]
  BY <1>2, <1>3, <1>5, RxShift DEF RxState
<1>9. RxChain(p)' /\ RxHead(p, w)'
  BY <1>7, <1>8
<1>10. RxHead(p, RxWanted)'
  BY <1>6, <1>9 DEF RxHead
<1>11. ASSUME ~RxWithin', p > 0
       PROVE  first'[RxNth(0)']
  BY <1>7, <1>8, <1>11
<1>12. ASSUME RxWithin'
       PROVE  \E k \in 0 .. p - 1 : last'[RxNth(k)']
  <2>1. j # 0 /\ j - 1 \in 0 .. p - 1 /\ j - 1 \in 0 .. DescCount - 1
    BY <1>1, <1>2, <1>3, <1>7, <1>12
  <2>2. PICK k \in 0 .. p - 1 : k = j - 1
    BY <2>1
  <2>3. RxNth(k)' = RxNth(k + 1) /\ k + 1 = j
    BY <1>2, <1>8, <2>1, <2>2
  <2> QED
    BY <1>2, <2>3
<1>13. ASSUME call'.pc = "copy"
       PROVE  /\ call'.left >= 1
              /\ \A k \in 0 .. p - 1 : k < call'.left - 1 => ~last'[RxNth(k)']
  <2>1. call.pc = "copy" /\ call'.left = call.left - 1 /\ call'.left >= 1
    BY <1>1, <1>13
  <2>2. \A k \in 0 .. n - 1 : k < call.left - 1 => ~last[RxNth(k)]
    BY <2>1 DEF RxState, RxCall
  <2>3. ASSUME NEW k \in 0 .. p - 1, k < call'.left - 1
        PROVE  ~last'[RxNth(k)']
    <3>1. /\ k + 1 \in 0 .. n - 1 /\ k + 1 < call.left - 1
          /\ k \in 0 .. DescCount - 1
      BY <1>1, <1>7, <2>1, <2>3
    <3>2. RxNth(k)' = RxNth(k + 1) /\ ~last[RxNth(k + 1)]
      BY <1>8, <2>2, <3>1
    <3> QED
      BY <3>2
  <2> QED
    BY <2>1, <2>3
<1>14. p < DescCount
  BY <1>1, <1>3, <1>7
<1>15. RxCall(p)'
  BY <1>11, <1>12, <1>13, <1>14 DEF RxCall
<1>16. RxCounts'
  <2>1. /\ Cardinality(RxEnds) = remain + since + 1
        /\ remain \in Nat /\ since \in Nat
    BY DEF RxCounts, RxTypes
  <2>2. Cardinality(RxEnds') = IF last[RxBase] THEN Cardinality(RxEnds) - 1
                               ELSE Cardinality(RxEnds)
    BY <1>8, RxFinite
  <2>3. remain + since + 1 - 1 = remain + since
    BY <2>1
  <2> QED
    BY <2>1, <2>2, <2>3 DEF RxCounts
<1> QED
  BY <1>9, <1>10, <1>15, <1>16 DEF RxInv, RxState

\* Types of a step that gives back.
LEMMA RxGiveTypes ==
    ASSUME Rx!EmacRecvAssumption, RxTypes, Rx!Copy \/ Rx!ReleaseRest \/ Rx!Flush
    PROVE  RxTypes'
<1>1. /\ DescCount \in Nat \ {0, 1} /\ Rx!Slots = 0 .. DescCount - 1
      /\ call.iter \in Rx!Slots /\ call.left \in 0 .. MaxSegs
      /\ MaxSegs \in Nat \ {0} /\ DescCount \in Nat \ {0}
  BY RxKnown
<1>2. Rx!Succ(call.iter) \in Rx!Slots
  BY <1>1, RingNext DEF Rx!Succ
<1>3. Rx!After(wanted) \in Rx!Numbers
  BY RxAfter DEF RxTypes
<1>4. Rx!Idle \in [pc : {"out", "copy", "last", "flush"}, iter : Rx!Slots,
                   left : 0 .. MaxSegs]
  BY <1>1 DEF Rx!Idle
<1>5. own' \in [Rx!Slots -> BOOLEAN]
  BY <1>1, <1>2 DEF Rx!Copy, Rx!ReleaseRest, Rx!Flush, RxTypes
<1>6. call' \in [pc : {"out", "copy", "last", "flush"}, iter : Rx!Slots,
                 left : 0 .. MaxSegs]
  <2>1. CASE Rx!Copy
    <3>1. call.left > 1 => call.left - 1 \in 0 .. MaxSegs
      BY <1>1
    <3> QED
      BY <1>1, <1>2, <2>1, <3>1 DEF Rx!Copy, RxTypes
  <2>2. CASE Rx!ReleaseRest
    BY <1>2, <1>4, <2>2 DEF Rx!ReleaseRest, Rx!Leave, RxTypes
  <2>3. CASE Rx!Flush
    BY <1>2, <1>4, <2>3 DEF Rx!Flush, Rx!Leave, RxTypes
  <2> QED
    BY <2>1, <2>2, <2>3
<1>7. rxDesc' \in Rx!Slots /\ rxAwake' \in BOOLEAN /\ wanted' \in Rx!Numbers
  BY <1>2, <1>3 DEF Rx!Copy, Rx!ReleaseRest, Rx!Flush, Rx!Leave, RxTypes
<1>8. UNCHANGED <<first, last, body, rxOf, rxAt, segs, rxFrame, remain, since>>
  BY DEF Rx!Copy, Rx!ReleaseRest, Rx!Flush
<1> QED
  BY <1>5, <1>6, <1>7, <1>8 DEF RxTypes, Rx!Slots, Rx!Numbers

\* A segment is copied, and its descriptor goes back.
LEMMA RxCopyInv ==
    ASSUME Rx!EmacRecvAssumption, RxInv, Rx!Copy
    PROVE  RxInv'
<1>1. PICK n \in 0 .. DescCount : RxState(n)
  BY DEF RxInv
<1>2. /\ DescCount \in Nat \ {0, 1} /\ DescCount \in Nat \ {0}
      /\ call.iter \in 0 .. DescCount - 1 /\ call.left \in 0 .. MaxSegs
      /\ MaxSegs \in Nat \ {0}
  BY RxKnown DEF RxInv
<1>3. call.pc = "copy" /\ RxWithin /\ RxBase = call.iter /\ RxWanted = wanted
  BY DEF Rx!Copy, RxWithin, RxBase, RxWanted
<1>4. call.left >= 1 /\ (call.left > 1 => ~last[call.iter])
  <2>1. /\ call.left >= 1
        /\ \A k \in 0 .. n - 1 : k < call.left - 1 => ~last[RxNth(k)]
    BY <1>1, <1>3 DEF RxState, RxCall
  <2>2. 0 \in 0 .. n - 1
    BY <1>1, <1>3 DEF RxState, RxCall
  <2>3. RxNth(0) = call.iter
    BY <1>3, RxKnown DEF RxInv
  <2>4. call.left > 1 => 0 < call.left - 1
    BY <1>2
  <2> QED
    BY <2>1, <2>2, <2>3, <2>4
<1>5. /\ own' = [own EXCEPT ![RxBase] = TRUE]
      /\ UNCHANGED <<first, last, body, rxOf, rxAt, segs, rxFrame, rxDesc,
                     remain, since, wanted>>
  BY <1>3 DEF Rx!Copy
<1>6. RxTypes'
  BY RxGiveTypes DEF RxInv
<1>7. CASE call.left > 1
  <2>1. /\ call'.pc = "copy" /\ call'.left = call.left - 1
        /\ call'.iter = RingAt(call.iter, 1)
    BY <1>2, <1>3, <1>7, RingNext DEF Rx!Copy, Rx!Succ, RxInv, RxTypes
  <2>2. RxBase' = RingAt(RxBase, 1) /\ RxWithin' /\ RxWanted' = wanted
    BY <1>3, <1>5, <2>1 DEF RxBase, RxWithin, RxWanted
  <2> QED
    BY <1>1, <1>3, <1>4, <1>5, <1>6, <1>7, <2>1, <2>2, RxGiveBack DEF RxInv
<1>8. CASE ~(call.left > 1)
  <2>1. call'.pc = "last" /\ call'.iter = call.iter
    BY <1>8 DEF Rx!Copy, RxInv, RxTypes
  <2>2. /\ RxBase' = RingAt(RxBase, 1) /\ (RxWithin' <=> ~last[RxBase])
        /\ RxWanted' = IF last[RxBase] THEN Rx!After(wanted) ELSE wanted
    BY <1>3, <1>5, <2>1 DEF RxBase, RxWithin, RxWanted, RingAt, Rx!After
  <2>3. call'.pc # "copy"
    BY <2>1
  <2> QED
    BY <1>1, <1>3, <1>5, <1>6, <2>2, <2>3, RxGiveBack DEF RxInv
<1> QED
  BY <1>7, <1>8

\* A descriptor of the dropped frame goes back.
LEMMA RxFlushInv ==
    ASSUME Rx!EmacRecvAssumption, RxInv, Rx!Flush
    PROVE  RxInv'
<1>1. PICK n \in 0 .. DescCount : RxState(n)
  BY DEF RxInv
<1>2. /\ DescCount \in Nat \ {0, 1} /\ DescCount \in Nat \ {0}
      /\ call.iter \in 0 .. DescCount - 1
  BY RxKnown DEF RxInv
<1>3. call.pc = "flush" /\ RxWithin /\ RxBase = call.iter /\ RxWanted = wanted
  BY DEF Rx!Flush, RxWithin, RxBase, RxWanted
<1>4. /\ own' = [own EXCEPT ![RxBase] = TRUE]
      /\ UNCHANGED <<first, last, body, rxOf, rxAt, segs, rxFrame, remain,
                     since>>
  BY <1>3 DEF Rx!Flush
<1>5. RxTypes'
  BY RxGiveTypes DEF RxInv
<1>6. Rx!Succ(call.iter) = RingAt(RxBase, 1)
  BY <1>2, <1>3, RingNext DEF Rx!Succ
<1>7. CASE last[call.iter]
  <2>1. /\ call'.pc = "out" /\ rxDesc' = RingAt(RxBase, 1)
        /\ wanted' = Rx!After(wanted)
    BY <1>6, <1>7 DEF Rx!Flush, Rx!LastFound, Rx!Leave, Rx!Idle
  <2>2. /\ RxBase' = RingAt(RxBase, 1) /\ ~RxWithin'
        /\ RxWanted' = Rx!After(wanted)
    BY <2>1 DEF RxBase, RxWithin, RxWanted
  <2>3. call'.pc # "copy"
    BY <2>1
  <2> QED
    BY <1>1, <1>3, <1>4, <1>5, <1>7, <2>2, <2>3, RxGiveBack DEF RxInv
<1>8. CASE ~last[call.iter]
  <2>1. /\ call'.pc = "flush" /\ call'.iter = RingAt(RxBase, 1)
        /\ wanted' = wanted
    BY <1>3, <1>6, <1>8 DEF Rx!Flush, Rx!LastFound, RxInv, RxTypes
  <2>2. RxBase' = RingAt(RxBase, 1) /\ RxWithin' /\ RxWanted' = wanted
    BY <2>1 DEF RxBase, RxWithin, RxWanted
  <2>3. call'.pc # "copy"
    BY <2>1
  <2> QED
    BY <1>1, <1>3, <1>4, <1>5, <1>8, <2>2, <2>3, RxGiveBack DEF RxInv
<1> QED
  BY <1>7, <1>8

\* A step that leaves the ring and the frames as they are.
LEMMA RxLeft ==
    ASSUME Rx!EmacRecvAssumption, RxInv, RxTypes', RxBase' = RxBase,
           UNCHANGED <<own, first, last, body, rxOf, rxAt, segs, rxFrame,
                       remain, since>>,
           RxWithin' = RxWithin, RxWanted' = RxWanted,
           call' = call \/ call'.pc = "out"
    PROVE  RxInv'
<1>1. PICK n \in 0 .. DescCount : RxState(n)
  BY DEF RxInv
<1>2. PICK w : w = RxWanted
  OBVIOUS
<1>3. /\ RxChain(n)' /\ RxHead(n, w)' /\ RxEnds' = RxEnds
      /\ \A m : RxNth(m)' = RxNth(m)
  BY <1>1, <1>2, RxSame DEF RxState
<1>4. RxHead(n, RxWanted)'
  BY <1>2, <1>3 DEF RxHead
<1>5. RxCounts'
  BY <1>3 DEF RxInv, RxCounts
<1>6. RxCall(n)'
  <2>1. CASE call' = call
    BY <1>1, <1>3, <2>1 DEF RxState, RxCall
  <2>2. CASE call'.pc = "out"
    BY <1>1, <1>3, <2>2 DEF RxState, RxCall
  <2> QED
    BY <2>1, <2>2
<1> QED
  BY <1>3, <1>4, <1>5, <1>6 DEF RxInv, RxState

\* One of the rest of the frame goes back, or the call ends.
LEMMA RxReleaseInv ==
    ASSUME Rx!EmacRecvAssumption, RxInv, Rx!ReleaseRest
    PROVE  RxInv'
<1>1. PICK n \in 0 .. DescCount : RxState(n)
  BY DEF RxInv
<1>2. /\ DescCount \in Nat \ {0, 1} /\ DescCount \in Nat \ {0}
      /\ call.iter \in 0 .. DescCount - 1
  BY RxKnown DEF RxInv
<1>3. call.pc = "last" /\ RxBase = RingAt(call.iter, 1)
  BY DEF Rx!ReleaseRest, RxBase
<1>4. UNCHANGED <<first, last, body, rxOf, rxAt, segs, rxFrame, remain, since>>
  BY DEF Rx!ReleaseRest
<1>5. RxTypes'
  BY RxGiveTypes DEF RxInv
<1>6. Rx!Succ(call.iter) = RxBase
  BY <1>2, <1>3, RingNext DEF Rx!Succ
<1>7. CASE last[call.iter]
  <2>1. /\ call'.pc = "out" /\ rxDesc' = RxBase /\ wanted' = Rx!After(wanted)
        /\ own' = own
    BY <1>6, <1>7 DEF Rx!ReleaseRest, Rx!LastFound, Rx!Leave, Rx!Idle
  <2>2. ~RxWithin /\ RxWanted = Rx!After(wanted)
    BY <1>3, <1>7 DEF RxWithin, RxWanted
  <2>3. RxBase' = RxBase /\ ~RxWithin' /\ RxWanted' = Rx!After(wanted)
    BY <2>1 DEF RxBase, RxWithin, RxWanted
  <2>4. RxWithin' = RxWithin
    BY <2>2, <2>3 DEF RxWithin
  <2> QED
    BY <1>4, <1>5, <2>1, <2>2, <2>3, <2>4, RxLeft
<1>8. CASE ~last[call.iter]
  <2>1. /\ call'.pc = "last" /\ call'.iter = RxBase
        /\ own' = [own EXCEPT ![RxBase] = TRUE] /\ wanted' = wanted
    BY <1>3, <1>6, <1>8 DEF Rx!ReleaseRest, Rx!LastFound, RxInv, RxTypes
  <2>2. RxWithin
    BY <1>3, <1>8 DEF RxWithin
  <2>3. /\ RxBase' = RingAt(RxBase, 1) /\ (RxWithin' <=> ~last[RxBase])
        /\ RxWanted' = IF last[RxBase] THEN Rx!After(wanted) ELSE wanted
    BY <1>4, <2>1 DEF RxBase, RxWithin, RxWanted, RingAt, Rx!After
  <2>4. call'.pc # "copy"
    BY <2>1
  <2> QED
    BY <1>1, <1>4, <1>5, <2>1, <2>2, <2>3, <2>4, RxGiveBack DEF RxInv
<1> QED
  BY <1>7, <1>8

\* What the library chooses.
LEMMA RxLeast ==
    ASSUME NEW S \in SUBSET Nat, S # {}
    PROVE  Rx!Min(S) \in S /\ \A y \in S : Rx!Min(S) <= y
<1> DEFINE P(x) == \A y \in S : x <= y
<1>1. \E x \in S : P(x)
  BY Least
<1>2. Rx!Min(S) = CHOOSE x \in S : P(x)
  BY DEF Rx!Min
<1> HIDE DEF P
<1>3. Rx!Min(S) \in S /\ P(Rx!Min(S))
  BY <1>1, <1>2, Zenon
<1> QED
  BY <1>3 DEF P

\* The greatest of none but 0.
LEMMA RxGreatest ==
    Rx!Max({0}) = 0
<1> DEFINE P(x) == \A y \in {0} : x >= y
<1>1. P(0)
  OBVIOUS
<1>2. Rx!Max({0}) = CHOOSE x \in {0} : P(x)
  BY DEF Rx!Max
<1> HIDE DEF P
<1>3. Rx!Max({0}) \in {0}
  BY <1>1, <1>2, Zenon
<1> QED
  BY <1>3

\* Outside of a call, the ends that are counted are all there are.
LEMMA RxOffsets ==
    ASSUME Rx!EmacRecvAssumption, RxTypes, call.pc = "out",
           NEW n \in 0 .. DescCount, RxRing(n)
    PROVE  /\ \A m \in 0 .. DescCount - 1 : Rx!Nth(m) = RxNth(m)
           /\ Rx!Ends = {m \in 0 .. n - 1 : last[RxNth(m)]}
           /\ Rx!Cardinality(Rx!Ends) = Cardinality(RxEnds)
<1>1. /\ DescCount \in Nat \ {0, 1} /\ Rx!Slots = 0 .. DescCount - 1
      /\ DescCount \in Nat \ {0} /\ RxBase = rxDesc
      /\ rxDesc \in 0 .. DescCount - 1
      /\ \A m \in 0 .. DescCount : RxNth(m) \in 0 .. DescCount - 1
  BY RxKnown DEF RxBase
<1>2. ASSUME NEW m \in 0 .. DescCount - 1
      PROVE  Rx!Nth(m) = RxNth(m)
  BY <1>1, RingPlace DEF Rx!Nth, RxNth
<1>3. \A m \in 0 .. DescCount - 1 : own[RxNth(m)] <=> m >= n
  BY DEF RxRing
<1>4. Rx!Used = 0 .. n - 1
  <2>1. ASSUME NEW m \in 0 .. DescCount - 1, m \in Rx!Used
        PROVE  m \in 0 .. n - 1
    <3>1. ~own[Rx!Nth(m)]
      BY <2>1 DEF Rx!Used
    <3>2. ~(m >= n)
      BY <1>2, <1>3, <3>1
    <3> QED
      BY <3>2
  <2>2. ASSUME NEW m \in 0 .. n - 1
        PROVE  m \in Rx!Used
    <3>1. ASSUME NEW k \in 0 .. m
          PROVE  ~own[Rx!Nth(k)]
      <4>1. k \in 0 .. DescCount - 1 /\ ~(k >= n)
        BY <1>1
      <4> QED
        BY <1>2, <1>3, <4>1
    <3>2. m \in Rx!Slots
      BY <1>1
    <3> QED
      BY <3>1, <3>2 DEF Rx!Used
  <2>3. Rx!Used \subseteq 0 .. DescCount - 1
    BY <1>1 DEF Rx!Used
  <2> QED
    BY <2>1, <2>2, <2>3
<1> DEFINE E == {m \in 0 .. n - 1 : last[RxNth(m)]}
<1>5. Rx!Ends = E
  <2>1. \A m \in 0 .. n - 1 : m \in 0 .. DescCount - 1
    BY <1>1
  <2> QED
    BY <1>2, <1>4, <2>1 DEF Rx!Ends
<1>6. Cardinality(E) = Cardinality(RxEnds)
  <2>1. IsFiniteSet(E)
    <3>1. IsFiniteSet(0 .. n - 1)
      BY FS_Interval
    <3> QED
      BY <3>1, FS_Subset
  <2>2. [m \in E |-> RxNth(m)] \in Bijection(E, RxEnds)
    <3>1. ASSUME NEW m \in E
          PROVE  RxNth(m) \in RxEnds
      <4>1. m \in 0 .. DescCount - 1 /\ ~(m >= n) /\ last[RxNth(m)]
        BY <1>1
      <4>2. ~own[RxNth(m)] /\ RxNth(m) \in Rx!Slots
        BY <1>1, <1>3, <4>1
      <4> QED
        BY <4>1, <4>2 DEF RxEnds
    <3>2. ASSUME NEW m \in E, NEW k \in E, RxNth(m) = RxNth(k)
          PROVE  m = k
      <4>1. m \in 0 .. DescCount - 1 /\ k \in 0 .. DescCount - 1
        BY <1>1
      <4> QED
        BY <1>1, <3>2, <4>1, RingApart DEF RxNth
    <3>3. ASSUME NEW i \in RxEnds
          PROVE  \E m \in E : RxNth(m) = i
      <4>1. i \in 0 .. DescCount - 1 /\ ~own[i] /\ last[i]
        BY <1>1 DEF RxEnds
      <4>2. PICK m \in 0 .. DescCount - 1 : i = RxNth(m)
        BY <1>1, <4>1, RingAll DEF RxNth
      <4>3. ~(m >= n)
        BY <1>3, <4>1, <4>2
      <4>4. m \in E
        BY <4>1, <4>2, <4>3
      <4> QED
        BY <4>2, <4>4
    <3> HIDE DEF E
    <3> QED
      BY <3>1, <3>2, <3>3 DEF Bijection, Injection, Surjection, IsInjective
  <2>3. ExistsBijection(E, RxEnds)
    BY <2>2 DEF ExistsBijection
  <2> HIDE DEF E
  <2> QED
    BY <2>1, <2>3, FS_Bijection
<1>7. Rx!Cardinality(E) = Cardinality(E)
  BY DEF Rx!Cardinality, Cardinality
<1> QED
  BY <1>2, <1>5, <1>6, <1>7

\* A call begins: with the first descriptor of the oldest frame, whose length
\* is not more than that of its descriptors.
LEMMA RxBegins ==
    ASSUME Rx!EmacRecvAssumption, RxInv, call.pc = "out", Rx!Ends # {},
           NEW n \in 0 .. DescCount, RxState(n), NEW auto \in BOOLEAN
    PROVE  /\ Rx!FirstDesc(auto) = rxDesc
           /\ Rx!FramesRemain + 1 = Cardinality(RxEnds)
           /\ Rx!FramesRemain \in Nat
           /\ Rx!Min(Rx!Ends) \in 0 .. n - 1
           /\ last[RxNth(Rx!Min(Rx!Ends))]
           /\ Rx!Nth(Rx!Min(Rx!Ends)) = RxNth(Rx!Min(Rx!Ends))
           /\ \A k \in 0 .. Rx!Min(Rx!Ends) - 1 : ~last[RxNth(k)]
           /\ body[RxNth(Rx!Min(Rx!Ends))] \in 1 .. Rx!Min(Rx!Ends) + 1
<1>1. /\ DescCount \in Nat \ {0, 1} /\ Rx!Slots = 0 .. DescCount - 1
      /\ DescCount \in Nat \ {0} /\ RxBase = rxDesc
      /\ rxDesc \in 0 .. DescCount - 1
      /\ \A m \in 0 .. DescCount : RxNth(m) \in 0 .. DescCount - 1
      /\ RxNth(0) = rxDesc /\ RxTypes /\ MaxSegs \in Nat \ {0}
  BY RxKnown DEF RxBase, RxInv
<1>2. /\ \A m \in 0 .. DescCount - 1 : Rx!Nth(m) = RxNth(m)
      /\ Rx!Ends = {m \in 0 .. n - 1 : last[RxNth(m)]}
      /\ Rx!Cardinality(Rx!Ends) = Cardinality(RxEnds)
  BY <1>1, RxOffsets DEF RxState, RxChain
<1>3. Rx!Ends \in SUBSET Nat /\ Rx!Ends \subseteq 0 .. n - 1
  BY <1>1, <1>2
<1>4. PICK j : j = Rx!Min(Rx!Ends)
  OBVIOUS
<1>5. j \in Rx!Ends /\ \A k \in Rx!Ends : j <= k
  BY <1>3, <1>4, RxLeast
<1>6. j \in 0 .. n - 1 /\ last[RxNth(j)] /\ j \in 0 .. DescCount - 1
  BY <1>1, <1>2, <1>5
<1>7. ASSUME NEW k \in 0 .. j - 1
      PROVE  ~last[RxNth(k)]
  <2>1. k \in 0 .. n - 1 /\ ~(j <= k)
    BY <1>6
  <2> QED
    BY <1>2, <1>5, <2>1
<1>8. n > 0 /\ first[RxNth(0)]
  BY <1>6 DEF RxState, RxCall, RxWithin
<1>9. body[RxNth(j)] \in 1 .. j + 1
  <2>1. RxBody(j)
    BY <1>6 DEF RxState, RxChain
  <2>2. 0 \in 0 .. j
    BY <1>6
  <2>3. body[RxNth(j)] >= 1 /\ body[RxNth(j)] <= j - 0 + 1
    BY <1>6, <1>7, <1>8, <2>1, <2>2 DEF RxBody
  <2>4. body[RxNth(j)] \in 0 .. MaxSegs
    <3>1. body \in [Rx!Slots -> 0 .. MaxSegs]
      BY <1>1 DEF RxTypes
    <3>2. RxNth(j) \in Rx!Slots
      BY <1>1, <1>6
    <3> QED
      BY <3>1, <3>2
  <2> QED
    BY <1>1, <1>6, <2>3, <2>4
<1>10. Rx!FirstDesc(auto) = rxDesc
  <2>1. {m \in 0 .. j : first[Rx!Nth(m)]} = {0}
    <3>1. ASSUME NEW m \in 1 .. j
          PROVE  ~first[Rx!Nth(m)]
      <4>1. /\ m \in 1 .. n - 1 /\ m \in 0 .. DescCount - 1
            /\ m - 1 \in 0 .. j - 1
        BY <1>1, <1>6
      <4>2. RxFollows(m)
        BY <4>1 DEF RxState, RxChain
      <4>3. first[RxNth(m)] = last[RxNth(m - 1)]
        BY <4>2 DEF RxFollows
      <4>4. ~last[RxNth(m - 1)]
        <5>1. PICK z \in 0 .. j - 1 : z = m - 1
          BY <4>1
        <5> QED
          BY <1>7, <5>1
      <4> QED
        BY <1>2, <4>1, <4>3, <4>4
    <3>2. first[Rx!Nth(0)] /\ 0 \in 0 .. j
      BY <1>1, <1>2, <1>6, <1>8
    <3>3. \A m \in 0 .. j : m = 0 \/ m \in 1 .. j
      BY <1>6
    <3> QED
      BY <3>1, <3>2, <3>3
  <2>2. Rx!Nth(Rx!Max({0})) = rxDesc
    BY <1>1, <1>2, RxGreatest
  <2> QED
    BY <1>4, <2>1, <2>2 DEF Rx!FirstDesc
<1>11. /\ Rx!FramesRemain + 1 = Cardinality(RxEnds)
       /\ Rx!FramesRemain \in Nat
  <2>1. Rx!FramesRemain = Cardinality(RxEnds) - 1
    BY <1>2 DEF Rx!FramesRemain
  <2>2. Cardinality(RxEnds) \in Nat /\ IsFiniteSet(RxEnds)
    BY <1>1, RxFinite
  <2>3. RxEnds # {}
    <3>1. ~(j >= n)
      BY <1>6
    <3>2. ~own[RxNth(j)]
      BY <1>6, <3>1 DEF RxState, RxChain, RxRing
    <3> QED
      BY <1>1, <1>6, <3>2 DEF RxEnds
  <2>4. Cardinality(RxEnds) # 0
    BY <2>2, <2>3, FS_EmptySet
  <2> QED
    BY <2>1, <2>2, <2>4
<1> QED
  BY <1>2, <1>4, <1>6, <1>7, <1>9, <1>10, <1>11

\* What a call that begins does to the invariant.
LEMMA RxEnters ==
    ASSUME Rx!EmacRecvAssumption, RxInv, RxTypes', call.pc = "out",
           Rx!Ends # {}, NEW n \in 0 .. DescCount, RxState(n),
           call'.pc \in {"copy", "flush"}, call'.iter = rxDesc,
           call'.pc = "copy" =>
               /\ call'.left >= 1
               /\ \A k \in 0 .. n - 1 : k < call'.left - 1 => ~last[RxNth(k)],
           remain' = Rx!FramesRemain, since' = 0,
           UNCHANGED <<own, first, last, body, rxOf, rxAt, segs, rxFrame,
                       wanted>>
    PROVE  RxInv'
<1>1. /\ Rx!FramesRemain + 1 = Cardinality(RxEnds)
      /\ Rx!FramesRemain \in Nat
      /\ \E j \in 0 .. n - 1 : last[RxNth(j)]
  BY RxBegins
<1>2. /\ RxBase = rxDesc /\ RxBase' = RxBase /\ RxWanted = wanted
      /\ RxWanted' = wanted /\ RxWithin'
  BY DEF RxBase, RxWanted, RxWithin
<1>3. PICK w : w = wanted
  OBVIOUS
<1>4. /\ RxChain(n)' /\ RxHead(n, w)' /\ RxEnds' = RxEnds
      /\ \A m : RxNth(m)' = RxNth(m)
  BY <1>2, <1>3, RxSame DEF RxState
<1>5. RxHead(n, RxWanted)'
  BY <1>2, <1>3, <1>4 DEF RxHead
<1>6. RxCall(n)'
  BY <1>1, <1>2, <1>4 DEF RxCall
<1>7. RxCounts'
  <2>1. remain' + since' + 1 = Rx!FramesRemain + 1
    BY <1>1
  <2> QED
    BY <1>1, <1>2, <1>4, <2>1 DEF RxCounts
<1> QED
  BY <1>4, <1>5, <1>6, <1>7 DEF RxInv, RxState

\* Receiving begins.
LEMMA RxReceiveInv ==
    ASSUME Rx!EmacRecvAssumption, RxInv, NEW auto \in BOOLEAN,
           NEW size \in 1 .. MaxSegs, Rx!ReceiveFrame(auto, size)
    PROVE  RxInv'
<1>1. PICK n \in 0 .. DescCount : RxState(n)
  BY DEF RxInv
<1>2. /\ DescCount \in Nat \ {0, 1} /\ Rx!Slots = 0 .. DescCount - 1
      /\ MaxSegs \in Nat \ {0} /\ rxDesc \in 0 .. DescCount - 1
  BY RxKnown DEF RxInv
<1>3. call.pc = "out" /\ Rx!Ends # {}
  BY DEF Rx!ReceiveFrame
<1>4. PICK j : j = Rx!Min(Rx!Ends)
  OBVIOUS
<1>5. /\ Rx!FirstDesc(auto) = rxDesc /\ Rx!FramesRemain \in Nat
      /\ j \in 0 .. n - 1 /\ body[RxNth(j)] \in 1 .. j + 1
      /\ last[RxNth(j)] /\ Rx!Nth(j) = RxNth(j)
      /\ \A k \in 0 .. j - 1 : ~last[RxNth(k)]
  BY <1>1, <1>3, <1>4, RxBegins
<1>6. PICK l : l = Rx!Min({size, body[RxNth(j)]})
  OBVIOUS
<1>7. l \in 1 .. MaxSegs /\ l <= j + 1
  <2>1. size \in Nat /\ body[RxNth(j)] \in Nat
    BY <1>2, <1>5
  <2> DEFINE S == {size, body[RxNth(j)]}
  <2>2. S \in SUBSET Nat /\ S # {}
    BY <2>1
  <2>3. Rx!Min(S) \in S /\ \A y \in S : Rx!Min(S) <= y
    BY <2>2, RxLeast
  <2>4. l \in {size, body[RxNth(j)]} /\ l <= size /\ l <= body[RxNth(j)]
    BY <1>6, <2>3
  <2> QED
    BY <1>2, <1>5, <2>1, <2>4
<1>8. /\ call' = [pc |-> "copy", iter |-> rxDesc, left |-> l]
      /\ remain' = Rx!FramesRemain /\ since' = 0
      /\ UNCHANGED <<own, first, last, body, rxOf, rxAt, segs, rxAwake, rxFrame,
                     rxDesc, wanted>>
  BY <1>4, <1>5, <1>6 DEF Rx!ReceiveFrame
<1>9. call'.pc = "copy" /\ call'.iter = rxDesc /\ call'.left = l
  BY <1>8
<1>10. RxTypes'
  <2>1. l \in 0 .. MaxSegs /\ rxDesc \in Rx!Slots
    BY <1>2, <1>7
  <2>2. call' \in [pc : {"out", "copy", "last", "flush"}, iter : Rx!Slots,
                   left : 0 .. MaxSegs]
    BY <1>8, <2>1
  <2>3. remain' \in Nat /\ since' \in Nat
    BY <1>5, <1>8
  <2> QED
    BY <1>8, <2>2, <2>3 DEF RxInv, RxTypes, Rx!Slots, Rx!Numbers
<1>11. /\ call'.left >= 1
       /\ \A k \in 0 .. n - 1 : k < call'.left - 1 => ~last[RxNth(k)]
  <2>1. ASSUME NEW k \in 0 .. n - 1, k < l - 1
        PROVE  ~last[RxNth(k)]
    <3>1. k \in 0 .. j - 1
      BY <1>5, <1>7, <2>1
    <3> QED
      BY <1>5, <3>1
  <2> QED
    BY <1>7, <1>9, <2>1
<1> QED
  BY <1>1, <1>3, <1>8, <1>9, <1>10, <1>11, RxEnters

\* Dropping a frame begins.
LEMMA RxFlushFrameInv ==
    ASSUME Rx!EmacRecvAssumption, RxInv, Rx!FlushFrame
    PROVE  RxInv'
<1>1. PICK n \in 0 .. DescCount : RxState(n)
  BY DEF RxInv
<1>2. call.pc = "out" /\ Rx!Ends # {}
  BY DEF Rx!FlushFrame
<1>3. Rx!FirstDesc(FALSE) = rxDesc /\ Rx!FramesRemain \in Nat
  BY <1>1, <1>2, RxBegins
<1>4. /\ call' = [pc |-> "flush", iter |-> rxDesc, left |-> 0]
      /\ remain' = Rx!FramesRemain /\ since' = 0
      /\ UNCHANGED <<own, first, last, body, rxOf, rxAt, segs, rxAwake, rxFrame,
                     rxDesc, wanted>>
  BY <1>3 DEF Rx!FlushFrame
<1>5. call'.pc = "flush" /\ call'.iter = rxDesc
  BY <1>4
<1>6. RxTypes'
  <2>1. 0 \in 0 .. MaxSegs /\ rxDesc \in Rx!Slots
    BY DEF Rx!EmacRecvAssumption, RxInv, RxTypes
  <2>2. call' \in [pc : {"out", "copy", "last", "flush"}, iter : Rx!Slots,
                   left : 0 .. MaxSegs]
    BY <1>4, <2>1
  <2>3. remain' \in Nat /\ since' \in Nat
    BY <1>3, <1>4
  <2> QED
    BY <1>4, <2>2, <2>3 DEF RxInv, RxTypes, Rx!Slots, Rx!Numbers
<1> QED
  BY <1>1, <1>2, <1>4, <1>5, <1>6, RxEnters

\* A restart while no frame is under way.
LEMMA RxRestartInv ==
    ASSUME Rx!EmacRecvAssumption, RxInv, Rx!Restart
    PROVE  RxInv'
<1>1. /\ DescCount \in Nat \ {0, 1} /\ Rx!Slots = 0 .. DescCount - 1
      /\ 0 \in Rx!Slots /\ 0 \in 0 .. DescCount
  BY DEF Rx!EmacRecvAssumption, Rx!Slots
<1>2. /\ call'.pc = "out" /\ rxDesc' = 0 /\ rxAt' = 0 /\ segs' = 0
      /\ wanted' = rxFrame /\ rxFrame' = rxFrame /\ remain' = 0 /\ since' = 0
      /\ own' = [i \in Rx!Slots |-> TRUE]
  BY DEF Rx!Restart
<1>3. RxTypes'
  BY <1>1 DEF Rx!Restart, RxInv, RxTypes, Rx!Slots, Rx!Numbers
<1>4. RxBase' = 0 /\ ~RxWithin' /\ RxWanted' = wanted'
  BY <1>2 DEF RxBase, RxWithin, RxWanted
<1>5. \A m \in 0 .. DescCount : RxNth(m)' \in Rx!Slots
  BY <1>1, <1>4 DEF RxNth, RingAt
<1>6. RxRing(0)'
  <2>1. rxAt' = RxNth(0)'
    BY <1>1, <1>2, <1>4 DEF RxNth, RingAt
  <2>2. ASSUME NEW m \in 0 .. DescCount - 1
        PROVE  own'[RxNth(m)'] /\ m >= 0
    <3>1. RxNth(m)' \in Rx!Slots
      BY <1>1, <1>5
    <3> QED
      BY <1>2, <3>1
  <2> QED
    BY <2>1, <2>2 DEF RxRing
<1>7. RxChain(0)'
  <2>1. 1 .. 0 - 1 = {} /\ 0 .. 0 - 1 = {}
    OBVIOUS
  <2> QED
    BY <1>2, <1>6, <2>1 DEF RxChain, RxTail, RxPart
<1>8. RxHead(0, RxWanted)'
  BY <1>2, <1>4 DEF RxHead
<1>9. RxCall(0)'
  BY <1>1, <1>2, <1>4 DEF RxCall
<1>10. RxCounts'
  <2>1. RxEnds' = {}
    BY <1>2 DEF RxEnds, Rx!Slots
  <2> QED
    BY <1>2, <1>4, <2>1, FS_EmptySet DEF RxCounts
<1> QED
  BY <1>1, <1>3, <1>7, <1>8, <1>9, <1>10 DEF RxInv, RxState

\* The DMA suspends, or wakes up.
LEMMA RxPauseInv ==
    ASSUME Rx!EmacRecvAssumption, RxInv, Rx!Suspend \/ Rx!Arrive
    PROVE  RxInv'
<1>1. /\ rxAwake' \in BOOLEAN
      /\ UNCHANGED <<own, first, last, body, rxOf, rxAt, segs, rxFrame, rxDesc,
                     call, wanted, remain, since>>
  BY DEF Rx!Suspend, Rx!Arrive
<1>2. RxTypes'
  BY <1>1 DEF RxInv, RxTypes, Rx!Slots, Rx!Numbers
<1>3. RxBase' = RxBase /\ RxWithin' = RxWithin /\ RxWanted' = RxWanted
  BY <1>1 DEF RxBase, RxWithin, RxWanted, RingAt, Rx!After
<1> QED
  BY <1>1, <1>2, <1>3, RxLeft

\* Where the DMA fills a descriptor.
LEMMA RxFillPlace ==
    ASSUME Rx!EmacRecvAssumption, RxPlain, RxInv, NEW ends \in BOOLEAN,
           NEW crc \in BOOLEAN, Rx!Fill(ends, crc),
           NEW n \in 0 .. DescCount, RxState(n)
    PROVE  /\ n < DescCount
           /\ \A m : RxNth(m)' = RxNth(m)
           /\ RxBase' = RxBase
           /\ RxWithin' = RxWithin /\ RxWanted' = RxWanted
           /\ call.pc = "last" => n + 1 < DescCount
           /\ Rx!Succ(rxAt) = RxNth(n + 1)
           /\ \A m \in 0 .. DescCount - 1 : RxNth(m) = rxAt <=> m = n
<1>1. /\ DescCount \in Nat \ {0, 1} /\ Rx!Slots = 0 .. DescCount - 1
      /\ DescCount \in Nat \ {0} /\ RxBase \in 0 .. DescCount - 1
      /\ rxAt \in 0 .. DescCount - 1 /\ call.iter \in 0 .. DescCount - 1
      /\ \A m \in 0 .. DescCount : RxNth(m) \in 0 .. DescCount - 1
      /\ RxNth(0) = RxBase /\ RxNth(DescCount) = RxBase
  BY RxKnown DEF RxInv
<1>2. RxRing(n)
  BY DEF RxState, RxChain
<1>3. n < DescCount
  <2>1. SUFFICES ASSUME n = DescCount PROVE FALSE
    BY <1>1
  <2>2. own[RxNth(0)]
    BY <1>1, <1>2, <2>1 DEF RxRing, Rx!Fill
  <2>3. 0 >= n
    BY <1>1, <1>2, <2>2 DEF RxRing
  <2> QED
    BY <1>1, <2>1, <2>3
<1>4. \A m \in 0 .. DescCount - 1 : RxNth(m) = rxAt <=> m = n
  <2>1. n \in 0 .. DescCount - 1 /\ rxAt = RxNth(n)
    BY <1>1, <1>2, <1>3 DEF RxRing
  <2> QED
    BY <1>1, <2>1, RingApart DEF RxNth
<1>5. RxBase' = RxBase
  BY DEF RxBase, Rx!Fill, RingAt
<1>6. \A m : RxNth(m)' = RxNth(m)
  BY <1>5 DEF RxNth, RingAt
<1>7. Rx!Succ(rxAt) = RxNth(n + 1)
  <2>1. Rx!Succ(rxAt) = RingAt(rxAt, 1)
    BY <1>1, RingNext DEF Rx!Succ
  <2>2. RingAt(RingAt(RxBase, n), 1) = RingAt(RxBase, n + 1)
    BY <1>1, <1>3, RingFurther
  <2> QED
    BY <1>2, <2>1, <2>2 DEF RxRing, RxNth
<1>8. ASSUME call.pc = "last"
      PROVE  rxAt # call.iter /\ n + 1 < DescCount
  <2>1. rxAt # call.iter
    BY <1>8 DEF Rx!Fill, RxPlain
  <2>2. RxBase = RingAt(call.iter, 1)
    BY <1>8 DEF RxBase
  <2>3. SUFFICES ASSUME n = DescCount - 1 PROVE FALSE
    BY <1>1, <1>3, <2>1
  <2>4. RingAt(RingAt(call.iter, 1), n) = RingAt(call.iter, DescCount)
    <3>1. 1 \in 0 .. DescCount /\ 1 + n = DescCount /\ 1 + n <= DescCount
      BY <1>1, <2>3
    <3>2. RingAt(RingAt(call.iter, 1), n) = RingAt(call.iter, 1 + n)
      BY <1>1, <3>1, RingFurther
    <3> QED
      BY <3>1, <3>2
  <2> QED
    BY <1>1, <1>2, <2>1, <2>2, <2>4, RingNext DEF RxRing, RxNth
<1>9. RxWithin' = RxWithin
  <2>1. call' = call /\ (call.pc = "last" => last'[call.iter] = last[call.iter])
    BY <1>1, <1>8 DEF Rx!Fill, RxInv, RxTypes
  <2> QED
    BY <2>1 DEF RxWithin
<1>10. RxWanted' = RxWanted
  BY <1>9 DEF RxWanted, Rx!Fill, Rx!After
<1> QED
  BY <1>3, <1>4, <1>5, <1>6, <1>7, <1>8, <1>9, <1>10

\* Types of what it has filled.
LEMMA RxFillTypes ==
    ASSUME Rx!EmacRecvAssumption, RxInv, NEW ends \in BOOLEAN,
           NEW crc \in BOOLEAN, Rx!Fill(ends, crc)
    PROVE  RxTypes'
<1>1. /\ DescCount \in Nat \ {0, 1} /\ Rx!Slots = 0 .. DescCount - 1
      /\ rxAt \in Rx!Slots /\ MaxSegs \in Nat \ {0}
      /\ segs \in 0 .. MaxSegs - 1 /\ DescCount \in Nat \ {0} /\ RxTypes
  BY RxKnown DEF RxInv
<1>2. /\ own' \in [Rx!Slots -> BOOLEAN] /\ first' \in [Rx!Slots -> BOOLEAN]
      /\ last' \in [Rx!Slots -> BOOLEAN] /\ rxOf' \in [Rx!Slots -> Rx!Numbers]
  BY <1>1 DEF Rx!Fill, RxTypes
<1>3. body' \in [Rx!Slots -> 0 .. MaxSegs]
  <2> DEFINE b == IF crc THEN segs ELSE IF ends THEN segs + 1 ELSE 0
  <2>1. b \in 0 .. MaxSegs
    BY <1>1
  <2>2. body' = [body EXCEPT ![rxAt] = b]
    BY DEF Rx!Fill
  <2> HIDE DEF b
  <2> QED
    BY <1>1, <2>1, <2>2 DEF RxTypes
<1>4. rxAt' \in Rx!Slots
  BY <1>1, RingNext DEF Rx!Fill, Rx!Succ
<1>5. segs' \in 0 .. MaxSegs - 1
  BY <1>1 DEF Rx!Fill
<1>6. rxFrame' \in Rx!Numbers
  BY <1>1, RxAfter DEF Rx!Fill, RxTypes
<1>7. since' \in Nat
  BY <1>1 DEF Rx!Fill, RxTypes
<1>8. UNCHANGED <<rxAwake, rxDesc, call, wanted, remain>>
  BY DEF Rx!Fill
<1> QED
  BY <1>1, <1>2, <1>3, <1>4, <1>5, <1>6, <1>7, <1>8
     DEF RxTypes, Rx!Slots, Rx!Numbers

\* One more frame, or none.
LEMMA RxFillCounts ==
    ASSUME Rx!EmacRecvAssumption, RxPlain, RxInv, NEW ends \in BOOLEAN,
           NEW crc \in BOOLEAN, Rx!Fill(ends, crc), RxWithin' = RxWithin
    PROVE  RxCounts'
<1>1. rxAt \in Rx!Slots /\ own[rxAt]
  BY DEF Rx!Fill, RxInv, RxTypes
<1>2. RxEnds' = IF ends THEN RxEnds \cup {rxAt} ELSE RxEnds
  BY <1>1 DEF RxEnds, Rx!Fill, RxInv, RxTypes, Rx!Slots
<1>3. rxAt \notin RxEnds
  BY <1>1 DEF RxEnds
<1>4. Cardinality(RxEnds') = IF ends THEN Cardinality(RxEnds) + 1
                             ELSE Cardinality(RxEnds)
  BY <1>2, <1>3, RxFinite
<1>5. /\ remain \in Nat /\ since \in Nat /\ remain' = remain
      /\ since' = IF ends THEN since + 1 ELSE since
  BY DEF Rx!Fill, RxInv, RxTypes
<1>6. Cardinality(RxEnds) = IF RxWithin THEN remain + since + 1
                            ELSE remain + since
  BY DEF RxInv, RxCounts
<1>7. Cardinality(RxEnds') = IF RxWithin THEN remain' + since' + 1
                             ELSE remain' + since'
  BY <1>4, <1>5, <1>6
<1> QED
  BY <1>7 DEF RxCounts

\* The DMA fills a descriptor.
LEMMA RxFillInv ==
    ASSUME Rx!EmacRecvAssumption, RxPlain, RxInv, NEW ends \in BOOLEAN,
           NEW crc \in BOOLEAN, Rx!Fill(ends, crc)
    PROVE  RxInv'
<1>1. PICK n \in 0 .. DescCount : RxState(n)
  BY DEF RxInv
<1>2. /\ DescCount \in Nat \ {0, 1} /\ Rx!Slots = 0 .. DescCount - 1
      /\ DescCount \in Nat \ {0} /\ MaxSegs \in Nat \ {0}
      /\ rxAt \in 0 .. DescCount - 1 /\ segs \in 0 .. MaxSegs - 1
      /\ \A m \in 0 .. DescCount : RxNth(m) \in 0 .. DescCount - 1
  BY RxKnown DEF RxInv
<1>3. /\ n < DescCount
      /\ \A m : RxNth(m)' = RxNth(m)
      /\ RxBase' = RxBase
      /\ RxWithin' = RxWithin /\ RxWanted' = RxWanted
      /\ call.pc = "last" => n + 1 < DescCount
      /\ Rx!Succ(rxAt) = RxNth(n + 1)
      /\ \A m \in 0 .. DescCount - 1 : RxNth(m) = rxAt <=> m = n
  BY <1>1, RxFillPlace
<1>4. RxTypes' /\ RxCounts'
  BY <1>3, RxFillTypes, RxFillCounts
<1>5. /\ RxNth(n) = rxAt /\ RxRing(n) /\ RxTail(n) /\ RxPart(n)
      /\ n \in 0 .. DescCount - 1
  BY <1>1, <1>2, <1>3 DEF RxState, RxChain, RxRing
\* What it has filled, and what it has not.
<1>6. /\ ~own'[RxNth(n)] /\ first'[RxNth(n)] = (segs = 0)
      /\ last'[RxNth(n)] = ends /\ rxOf'[RxNth(n)] = rxFrame
      /\ body'[RxNth(n)] = IF crc THEN segs
                           ELSE IF ends THEN segs + 1 ELSE 0
  BY <1>2, <1>5 DEF Rx!Fill, RxInv, RxTypes
<1>7. ASSUME NEW m \in 0 .. DescCount - 1, m # n
      PROVE  /\ own'[RxNth(m)] = own[RxNth(m)]
             /\ first'[RxNth(m)] = first[RxNth(m)]
             /\ last'[RxNth(m)] = last[RxNth(m)]
             /\ rxOf'[RxNth(m)] = rxOf[RxNth(m)]
             /\ body'[RxNth(m)] = body[RxNth(m)]
  <2>1. RxNth(m) # rxAt /\ RxNth(m) \in Rx!Slots
    BY <1>2, <1>3, <1>7
  <2> QED
    BY <2>1 DEF Rx!Fill, RxInv, RxTypes
<1>8. /\ crc => ends /\ segs > 0
      /\ IF ends THEN segs' = 0 /\ rxFrame' = Rx!After(rxFrame)
                 ELSE segs' = segs + 1 /\ rxFrame' = rxFrame
      /\ rxAt' = Rx!Succ(rxAt) /\ call' = call
  BY DEF Rx!Fill
<1>9. PICK p \in 0 .. DescCount : p = n + 1
  BY <1>2, <1>3
<1>10. p - 1 = n /\ p > 0 /\ p # 0
  BY <1>9
<1>11. RxRing(p)'
  <2>1. rxAt' = RxNth(p)'
    BY <1>3, <1>8, <1>9
  <2>2. ASSUME NEW m \in 0 .. DescCount - 1
        PROVE  own'[RxNth(m)] <=> m >= p
    <3>1. CASE m = n
      <4>1. ~(m >= p)
        BY <1>9, <3>1
      <4> QED
        BY <1>6, <3>1, <4>1
    <3>2. CASE m # n
      <4>1. m >= p <=> m >= n
        BY <1>9, <3>2
      <4>2. own[RxNth(m)] <=> m >= n
        BY <1>5 DEF RxRing
      <4> QED
        BY <1>7, <3>2, <4>1, <4>2
    <3> QED
      BY <3>1, <3>2
  <2> QED
    BY <1>3, <2>1, <2>2 DEF RxRing
<1>12. RxTail(p)'
  <2>1. RxNth(p - 1)' = RxNth(n)
    BY <1>3, <1>10
  <2>2. segs + 1 > 0
    BY <1>2
  <2> QED
    BY <1>6, <1>8, <1>10, <2>1, <2>2 DEF RxTail, Rx!After
<1>13. RxPart(p)'
  <2>1. CASE ends
    <3>1. segs' = 0 /\ segs' <= p
      BY <1>8, <1>9, <2>1
    <3>2. \A k \in 0 .. p - 1 : ~(k >= p - segs')
      BY <1>9, <3>1
    <3> QED
      BY <3>1, <3>2 DEF RxPart
  <2>2. CASE ~ends
    <3>1. segs' = segs + 1 /\ segs' <= p
      BY <1>2, <1>5, <1>8, <1>9, <2>2 DEF RxPart
    <3>2. ASSUME NEW k \in 0 .. p - 1, k >= p - segs'
          PROVE  ~last'[RxNth(k)]
      <4>1. CASE k = n
        BY <1>6, <2>2, <4>1
      <4>2. CASE k # n
        <5>1. k \in 0 .. n - 1 /\ k >= n - segs /\ k \in 0 .. DescCount - 1
          BY <1>2, <1>9, <3>1, <3>2, <4>2
        <5>2. ~last[RxNth(k)]
          BY <1>5, <5>1 DEF RxPart
        <5> QED
          BY <1>7, <4>2, <5>1, <5>2
      <4> QED
        BY <4>1, <4>2
    <3> QED
      BY <1>3, <3>1, <3>2 DEF RxPart
  <2> QED
    BY <2>1, <2>2
<1>14. ASSUME NEW m \in 1 .. p - 1
       PROVE  RxFollows(m)'
  <2>1. /\ m \in 0 .. DescCount - 1 /\ m - 1 \in 0 .. DescCount - 1
        /\ m - 1 # n /\ m - 1 \in 0 .. n - 1
    BY <1>2, <1>9
  <2>2. PICK q \in 0 .. DescCount - 1 : q = m - 1
    BY <2>1
  <2>3. /\ last'[RxNth(m - 1)] = last[RxNth(m - 1)]
        /\ rxOf'[RxNth(m - 1)] = rxOf[RxNth(m - 1)]
    BY <1>7, <2>1, <2>2
  <2>4. CASE m = n
    <3>1. n > 0 /\ n - 1 = m - 1
      BY <2>1, <2>4
    <3>2. IF last[RxNth(m - 1)]
          THEN segs = 0 /\ rxFrame = Rx!After(rxOf[RxNth(m - 1)])
          ELSE segs > 0 /\ rxFrame = rxOf[RxNth(m - 1)]
      BY <1>5, <3>1 DEF RxTail
    <3>3. (segs = 0) = last[RxNth(m - 1)]
      <4>1. segs > 0 => segs # 0
        BY <1>2
      <4>2. last[RxNth(m - 1)] \in BOOLEAN
        <5>1. RxNth(m - 1) \in Rx!Slots
          BY <1>2, <2>2
        <5> QED
          BY <5>1 DEF RxInv, RxTypes
      <4> QED
        BY <3>2, <4>1, <4>2
    <3>4. first'[RxNth(m)] = last[RxNth(m - 1)]
      BY <1>6, <2>4, <3>3
    <3>5. rxOf'[RxNth(m)] = rxFrame
      BY <1>6, <2>4
    <3> QED
      BY <1>3, <2>3, <3>2, <3>4, <3>5 DEF RxFollows, Rx!After
  <2>5. CASE m # n
    <3>1. m \in 1 .. n - 1
      BY <1>9, <2>5
    <3>2. RxFollows(m)
      BY <1>1, <3>1 DEF RxState, RxChain
    <3>3. /\ first'[RxNth(m)] = first[RxNth(m)]
          /\ rxOf'[RxNth(m)] = rxOf[RxNth(m)]
      BY <1>7, <2>1, <2>5
    <3> QED
      BY <1>3, <2>3, <3>2, <3>3 DEF RxFollows, Rx!After
  <2> QED
    BY <2>4, <2>5
<1>15. ASSUME NEW m \in 0 .. p - 1
       PROVE  RxBody(m)'
  <2>1. m \in 0 .. DescCount - 1 /\ (m = n \/ m \in 0 .. n - 1)
    BY <1>2, <1>9
  <2>2. CASE m = n
    <3>1. SUFFICES ASSUME ends
                   PROVE  /\ body'[RxNth(n)] >= 1
                          /\ \A q \in 0 .. n :
                                /\ first'[RxNth(q)]
                                /\ \A k \in q .. n - 1 : ~last'[RxNth(k)]
                                => body'[RxNth(n)] <= n - q + 1
      BY <1>3, <1>6, <2>2 DEF RxBody
    <3>2. PICK b : b = body'[RxNth(n)]
      OBVIOUS
    <3>3. b = (IF crc THEN segs ELSE segs + 1) /\ b >= 1 /\ b <= segs + 1
      BY <1>2, <1>6, <1>8, <3>1, <3>2
    <3>4. ASSUME NEW q \in 0 .. n, first'[RxNth(q)],
                 \A k \in q .. n - 1 : ~last'[RxNth(k)]
          PROVE  b <= n - q + 1
      <4>1. CASE q = n
        <5>1. segs = 0
          BY <1>6, <3>4, <4>1
        <5> QED
          BY <1>8, <3>3, <4>1, <5>1
      <4>2. CASE q # n
        <5>1. q \in 0 .. n - 1 /\ q \in 0 .. DescCount - 1
          BY <1>2, <4>2
        <5>2. first[RxNth(q)]
          BY <1>7, <3>4, <4>2, <5>1
        <5>3. q <= n - segs
          <6>1. SUFFICES ASSUME q > n - segs PROVE FALSE
            BY <1>2, <5>1
          <6>2. /\ q \in 1 .. n - 1 /\ q - 1 \in 0 .. n - 1
                /\ q - 1 >= n - segs
            BY <1>2, <1>5, <5>1, <6>1 DEF RxPart
          <6>3. first[RxNth(q)] = last[RxNth(q - 1)]
            BY <1>1, <6>2 DEF RxState, RxChain, RxFollows
          <6>4. PICK z \in 0 .. n - 1 : z = q - 1
            BY <6>2
          <6>5. ~last[RxNth(z)]
            BY <1>5, <6>2, <6>4 DEF RxPart
          <6> QED
            BY <5>2, <6>3, <6>4, <6>5
        <5> QED
          BY <1>2, <3>3, <5>1, <5>3
      <4> QED
        BY <4>1, <4>2
    <3> QED
      BY <3>1, <3>2, <3>3, <3>4
  <2>3. CASE m \in 0 .. n - 1
    <3>1. RxBody(m) /\ m # n
      BY <1>1, <2>3 DEF RxState, RxChain
    <3>2. /\ last'[RxNth(m)] = last[RxNth(m)]
          /\ body'[RxNth(m)] = body[RxNth(m)]
      BY <1>7, <2>1, <3>1
    <3>3. \A q \in 0 .. m : first'[RxNth(q)] = first[RxNth(q)]
      <4>1. \A q \in 0 .. m : q \in 0 .. DescCount - 1 /\ q # n
        BY <1>2, <2>1, <2>3
      <4> QED
        BY <1>7, <4>1
    <3>4. \A q \in 0 .. m : \A k \in q .. m - 1 :
              last'[RxNth(k)] = last[RxNth(k)]
      <4>1. \A q \in 0 .. m : \A k \in q .. m - 1 :
                k \in 0 .. DescCount - 1 /\ k # n
        BY <1>2, <2>1, <2>3
      <4> QED
        BY <1>7, <4>1
    <3> QED
      BY <1>3, <3>1, <3>2, <3>3, <3>4 DEF RxBody
  <2> QED
    BY <2>1, <2>2, <2>3
<1>16. RxChain(p)'
  BY <1>11, <1>12, <1>13, <1>14, <1>15 DEF RxChain
<1>17. RxHead(p, RxWanted)'
  <2>1. CASE n = 0
    <3>1. rxFrame = RxWanted
      BY <1>1, <2>1 DEF RxState, RxHead
    <3> QED
      BY <1>3, <1>6, <1>10, <2>1, <3>1 DEF RxHead
  <2>2. CASE n # 0
    <3>1. rxOf[RxNth(0)] = RxWanted
      BY <1>1, <2>2 DEF RxState, RxHead
    <3>2. rxOf'[RxNth(0)] = rxOf[RxNth(0)]
      BY <1>2, <1>7, <2>2
    <3> QED
      BY <1>3, <1>10, <3>1, <3>2 DEF RxHead
  <2> QED
    BY <2>1, <2>2
<1>18. RxCall(p)'
  <2>1. ASSUME ~RxWithin
        PROVE  first'[RxNth(0)]
    <3>1. CASE n = 0
      <4>1. segs = 0
        BY <1>1, <3>1 DEF RxState, RxHead
      <4> QED
        BY <1>6, <3>1, <4>1
    <3>2. CASE n # 0
      <4>1. n > 0
        BY <3>2
      <4>2. first[RxNth(0)]
        BY <1>1, <2>1, <4>1 DEF RxState, RxCall
      <4> QED
        BY <1>2, <1>7, <3>2, <4>2
    <3> QED
      BY <3>1, <3>2
  <2>2. ASSUME RxWithin
        PROVE  \E j \in 0 .. n - 1 : last[RxNth(j)] /\ last'[RxNth(j)]
    <3>1. PICK j \in 0 .. n - 1 : last[RxNth(j)]
      BY <1>1, <2>2 DEF RxState, RxCall
    <3>2. j \in 0 .. DescCount - 1 /\ j # n
      BY <1>2
    <3>3. last'[RxNth(j)] = last[RxNth(j)]
      BY <1>7, <3>2
    <3> QED
      BY <3>1, <3>3
  <2>3. \A j \in 0 .. n - 1 : j \in 0 .. p - 1
    BY <1>9
  <2>4. ASSUME call.pc = "copy"
        PROVE  /\ call.left >= 1
               /\ \A k \in 0 .. p - 1 :
                      k < call.left - 1 => ~last'[RxNth(k)]
    <3>1. RxWithin
      BY <2>4 DEF RxWithin
    <3>2. /\ call.left >= 1
          /\ \A k \in 0 .. n - 1 : k < call.left - 1 => ~last[RxNth(k)]
      BY <1>1, <2>4 DEF RxState, RxCall
    <3>3. PICK j \in 0 .. n - 1 : last[RxNth(j)]
      BY <2>2, <3>1
    <3>4. ~(j < call.left - 1) /\ call.left \in Nat
      <4>1. call.left \in 0 .. MaxSegs
        BY RxKnown DEF RxInv
      <4> QED
        BY <1>2, <3>2, <3>3, <4>1
    <3>5. ASSUME NEW k \in 0 .. p - 1, k < call.left - 1
          PROVE  ~last'[RxNth(k)]
      <4>0. k # n
        <5>1. SUFFICES ASSUME k = n PROVE FALSE
          OBVIOUS
        <5>2. j < n /\ j \in Nat /\ n \in Nat
          BY <1>2
        <5>3. j < call.left - 1
          BY <3>4, <3>5, <5>1, <5>2
        <5> QED
          BY <3>4, <5>3
      <4>1. k # n /\ k \in 0 .. n - 1 /\ k \in 0 .. DescCount - 1
        BY <1>2, <1>9, <4>0
      <4>2. ~last[RxNth(k)]
        BY <3>2, <3>5, <4>1
      <4> QED
        BY <1>7, <4>1, <4>2
    <3> QED
      BY <3>2, <3>5
  <2>5. call.pc = "last" => p < DescCount
    BY <1>3, <1>9
  <2> QED
    BY <1>3, <1>8, <2>1, <2>2, <2>3, <2>4, <2>5 DEF RxCall
<1>19. p \in 0 .. DescCount
  OBVIOUS
<1> QED
  BY <1>4, <1>16, <1>17, <1>18, <1>19 DEF RxInv, RxState

\* Every step keeps the invariant.
LEMMA RxNextInv ==
    ASSUME Rx!EmacRecvAssumption, RxPlain, RxInv, [Rx!Next]_(Rx!vars)
    PROVE  RxInv'
<1>1. ASSUME NEW auto \in BOOLEAN, NEW size \in 1 .. MaxSegs,
             Rx!ReceiveFrame(auto, size)
      PROVE  RxInv'
  BY <1>1, RxReceiveInv
<1>2. CASE Rx!Copy
  BY <1>2, RxCopyInv
<1>3. CASE Rx!ReleaseRest
  BY <1>3, RxReleaseInv
<1>4. CASE Rx!FlushFrame
  BY <1>4, RxFlushFrameInv
<1>5. CASE Rx!Flush
  BY <1>5, RxFlushInv
<1>6. CASE Rx!Restart
  BY <1>6, RxRestartInv
<1>7. ASSUME NEW ends \in BOOLEAN, NEW crc \in BOOLEAN, Rx!Fill(ends, crc)
      PROVE  RxInv'
  BY <1>7, RxFillInv
<1>8. CASE Rx!Suspend \/ Rx!Arrive
  BY <1>8, RxPauseInv
<1>9. CASE UNCHANGED Rx!vars
  <2>1. UNCHANGED <<own, first, last, body, rxOf, rxAt, segs, rxAwake, rxFrame,
                    rxDesc, call, wanted, remain, since>>
    BY <1>9 DEF Rx!vars
  <2>2. RxTypes'
    BY <2>1 DEF RxInv, RxTypes, Rx!Slots, Rx!Numbers
  <2>3. RxBase' = RxBase /\ RxWithin' = RxWithin /\ RxWanted' = RxWanted
    BY <2>1 DEF RxBase, RxWithin, RxWanted, RingAt, Rx!After
  <2> QED
    BY <2>1, <2>2, <2>3, RxLeft
<1> QED
  BY <1>1, <1>2, <1>3, <1>4, <1>5, <1>6, <1>7, <1>8, <1>9 DEF Rx!Next

\* What the invariant says of what the run checks.
LEMMA RxImplied ==
    ASSUME Rx!EmacRecvAssumption, RxInv
    PROVE  Rx!TypeOK /\ Rx!InStep /\ Rx!RingExact /\ Rx!FramesCounted
<1>1. PICK n \in 0 .. DescCount : RxState(n)
  BY DEF RxInv
<1>2. /\ DescCount \in Nat \ {0, 1} /\ Rx!Slots = 0 .. DescCount - 1
      /\ DescCount \in Nat \ {0} /\ rxDesc \in 0 .. DescCount - 1
      /\ RxNth(0) = RxBase /\ 0 \in 0 .. DescCount - 1
  BY RxKnown DEF RxInv
<1>3. own[RxNth(0)] <=> 0 >= n
  BY <1>1, <1>2 DEF RxState, RxChain, RxRing
<1>4. ~own[RxBase] => n > 0 /\ n # 0
  BY <1>2, <1>3
<1>5. RxTypes /\ RxCounts
  BY DEF RxInv
<1>6. Rx!TypeOK
  <2>1. remain \in 0 .. DescCount + 1 /\ since \in 0 .. DescCount + 1
    <3>1. Cardinality(RxEnds) \in 0 .. DescCount
      BY RxFinite
    <3>2. remain \in Nat /\ since \in Nat
      BY <1>5 DEF RxTypes
    <3>3. remain + since <= Cardinality(RxEnds)
      BY <1>5, <3>1, <3>2 DEF RxCounts
    <3> QED
      BY <1>2, <3>1, <3>2, <3>3
  <2> QED
    BY <1>5, <2>1 DEF RxTypes, Rx!TypeOK
<1>7. Rx!InStep
  <2>1. ASSUME call.pc = "out", ~own[rxDesc]
        PROVE  first[rxDesc] /\ rxOf[rxDesc] = wanted
    <3>1. RxBase = rxDesc /\ ~RxWithin /\ RxWanted = wanted
      BY <2>1 DEF RxBase, RxWithin, RxWanted
    <3> QED
      BY <1>1, <1>2, <1>4, <2>1, <3>1 DEF RxState, RxHead, RxCall
  <2>2. ASSUME call.pc \in {"copy", "flush"}
        PROVE  ~own[call.iter] /\ rxOf[call.iter] = wanted
    <3>1. RxBase = call.iter /\ RxWithin /\ RxWanted = wanted
      BY <2>2 DEF RxBase, RxWithin, RxWanted
    <3>2. \E j \in 0 .. n - 1 : last[RxNth(j)]
      BY <1>1, <3>1 DEF RxState, RxCall
    <3>3. n # 0 /\ ~(0 >= n)
      BY <1>2, <3>2
    <3> QED
      BY <1>1, <1>2, <1>3, <3>1, <3>3 DEF RxState, RxHead
  <2> QED
    BY <2>1, <2>2 DEF Rx!InStep
<1>8. ASSUME call.pc = "out"
      PROVE  /\ rxAt = (rxDesc + n) % DescCount
             /\ \A m \in Rx!Slots : own[Rx!Nth(m)] <=> m >= n
             /\ remain + since = Rx!Cardinality(Rx!Ends)
  <2>1. RxBase = rxDesc /\ ~RxWithin /\ RxRing(n)
    BY <1>1, <1>8 DEF RxBase, RxWithin, RxState, RxChain
  <2>2. /\ \A m \in 0 .. DescCount - 1 : Rx!Nth(m) = RxNth(m)
        /\ Rx!Cardinality(Rx!Ends) = Cardinality(RxEnds)
    BY <1>5, <1>8, <2>1, RxOffsets
  <2>3. (rxDesc + n) % DescCount = RxNth(n)
    <3>1. CASE n = DescCount
      <4> DEFINE x == rxDesc + n
      <4>1. x \in 0 .. 2 * DescCount - 1 /\ ~(x < DescCount)
            /\ x - DescCount = rxDesc
        BY <1>2, <3>1
      <4> HIDE DEF x
      <4>2. x % DescCount = rxDesc
        BY <1>2, <4>1, Remainder
      <4>3. RxNth(n) = rxDesc
        BY <1>2, <2>1, <3>1, RingNext DEF RxNth
      <4> QED
        BY <4>2, <4>3 DEF x
    <3>2. CASE n # DescCount
      <4>1. n \in 0 .. DescCount - 1
        BY <1>2, <3>2
      <4> QED
        BY <1>2, <2>1, <4>1, RingPlace DEF RxNth
    <3> QED
      BY <3>1, <3>2
  <2> QED
    BY <1>2, <1>5, <2>1, <2>2, <2>3 DEF RxRing, RxCounts
<1>9. Rx!RingExact
  BY <1>8 DEF Rx!RingExact
<1>10. Rx!FramesCounted
  BY <1>8 DEF Rx!FramesCounted
<1> QED
  BY <1>6, <1>7, <1>9, <1>10

\* Whatever the number of descriptors and the length of the frames, the frames
\* are returned in the order they came in, each from its own descriptors and no
\* other's; no descriptor is lost; and what emac_hal_receive_frame answered with
\* what has come since are the frames there are: as long as the DMA does not
\* fill the descriptor that was just given back before it is looked at.
THEOREM RxInOrder ==
    ASSUME Rx!EmacRecvAssumption, RxPlain
    PROVE  Rx!Spec => [](Rx!TypeOK /\ Rx!InStep /\ Rx!RingExact
                         /\ Rx!FramesCounted)
<1>1. Rx!Init => RxInv
  BY RxInitInv
<1>2. RxInv /\ [Rx!Next]_(Rx!vars) => RxInv'
  BY RxNextInv
<1>3. RxInv => Rx!TypeOK /\ Rx!InStep /\ Rx!RingExact /\ Rx!FramesCounted
  BY RxImplied
<1> QED
  BY <1>1, <1>2, <1>3, PTL DEF Rx!Spec
=============================================================================
