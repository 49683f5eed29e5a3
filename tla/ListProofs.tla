------------------------------ MODULE ListProofs ------------------------------
(***************************************************************************)
(* Proofs about what is kept in lists, for any values of the constants:    *)
(* the cache of LogCache, the buffers of SdioRecv, the chain of SpiAppend  *)
(* and the ring of SdioSend.                                               *)
(*                                                                         *)
(* The path of an entry that sinks in the heap is a recursive function in  *)
(* LogCache, the chain in SpiAppend and what is in flight in SdioSend are  *)
(* what such a function leads to, and sums of lengths another; that there  *)
(* is one, and what it is, is shown by induction over a set.               *)
(***************************************************************************)
EXTENDS Integers, Sequences, FiniteSets, FiniteSetTheorems, SequenceTheorems,
        WellFoundedInduction, TLAPS

CONSTANT None

-----------------------------------------------------------------------------
\* Every set of natural numbers that is not empty has a least one.
LEMMA Least ==
    ASSUME NEW S \in SUBSET Nat, S # {}
    PROVE  \E n \in S : \A m \in S : n <= m
<1>1. PICK n \in S : \A m \in S : ~(<<m, n>> \in OpToRel(<, Nat))
  BY NatLessThanWellFounded, WFMin
<1>2. ASSUME NEW m \in S PROVE n <= m
  <2>1. ~(m < n)
    BY <1>1 DEF OpToRel
  <2> QED
    BY <2>1
<1> QED
  BY <1>2

\* Induction over a set: the library's takes an operator.
LEMMA Induct ==
    ASSUME NEW S, 0 \in S, \A n \in Nat : n \in S => n + 1 \in S
    PROVE  Nat \subseteq S
<1> DEFINE T == {n \in Nat : n \notin S}
<1>1. SUFFICES ASSUME T # {} PROVE FALSE
  OBVIOUS
<1>2. PICK n \in T : \A m \in T : n <= m
  BY <1>1, Least
<1>3. n # 0 /\ n - 1 \in Nat /\ n - 1 \notin T
  BY <1>2
<1> QED
  BY <1>2, <1>3

\* Halves, rounded down.
LEMMA Halves ==
    ASSUME NEW n \in Nat, NEW i \in 2 .. n
    PROVE  /\ i \div 2 \in 1 .. n /\ i \in 1 .. n /\ 2 * (i \div 2) <= i
           /\ i \in {2 * (i \div 2), 2 * (i \div 2) + 1}
OBVIOUS

-----------------------------------------------------------------------------
\* The cache of the log levels.
CONSTANTS Tags, TextOf, Levels, Size, Generations, MaxGeneration

VARIABLES default, levels, cache, newest

Log == INSTANCE LogCache WITH list <- levels

\* A full cache.
LogHeaps == [1 .. Size -> Log!Entry]

\* What the recursive function of BubbleDown says of a place, of itself as p.
LogPasses(heap, index, p, i) ==
    \/ i = index
    \/ i > index /\ p[i \div 2] /\ i = Log!OlderChild(heap, i \div 2)

\* There is a function that is what BubbleDown says of itself: it is built up
\* one place at a time.
LEMMA LogPath ==
    ASSUME NEW heap, NEW index \in Nat \ {0}, Size \in Nat
    PROVE  \E p \in [1 .. Size -> BOOLEAN] :
              p = [i \in 1 .. Size |-> LogPasses(heap, index, p, i)]
<1> DEFINE Upto(n) == \E p \in [1 .. n -> BOOLEAN] :
                         \A i \in 1 .. n : p[i] = LogPasses(heap, index, p, i)
           S == {n \in Nat : Upto(n)}
<1>1. 0 \in S
  <2> DEFINE e == [i \in 1 .. 0 |-> TRUE]
  <2>1. e \in [1 .. 0 -> BOOLEAN]
    OBVIOUS
  <2>2. \A i \in 1 .. 0 : e[i] = LogPasses(heap, index, e, i)
    OBVIOUS
  <2> HIDE DEF e
  <2>3. Upto(0)
    BY <2>1, <2>2
  <2> QED
    BY <2>3
<1>2. ASSUME NEW n \in Nat, n \in S PROVE n + 1 \in S
  <2>1. PICK p \in [1 .. n -> BOOLEAN] :
            \A i \in 1 .. n : p[i] = LogPasses(heap, index, p, i)
    BY <1>2
  <2> DEFINE q == [i \in 1 .. n + 1 |->
                      IF i = n + 1 THEN LogPasses(heap, index, p, i) ELSE p[i]]
  <2>2. q \in [1 .. n + 1 -> BOOLEAN]
    <3>1. LogPasses(heap, index, p, n + 1) \in BOOLEAN
      BY Zenon DEF LogPasses
    <3> QED
      BY <2>1, <3>1
  <2>3. ASSUME NEW i \in 1 .. n + 1
        PROVE  LogPasses(heap, index, q, i) = LogPasses(heap, index, p, i)
    <3>1. i > index => i \div 2 \in 1 .. n
      OBVIOUS
    <3>2. i > index => q[i \div 2] = p[i \div 2]
      BY <3>1
    <3> QED
      BY <3>2 DEF LogPasses
  <2>4. ASSUME NEW i \in 1 .. n + 1
        PROVE  q[i] = LogPasses(heap, index, q, i)
    BY <2>1, <2>3
  <2> HIDE DEF q
  <2> QED
    BY <2>2, <2>4
<1> HIDE DEF S
<1>3. Nat \subseteq S
  BY <1>1, <1>2, Induct
<1>4. PICK p \in [1 .. Size -> BOOLEAN] :
          \A i \in 1 .. Size : p[i] = LogPasses(heap, index, p, i)
  BY <1>3 DEF S
<1>5. p = [i \in 1 .. Size |-> LogPasses(heap, index, p, i)]
  BY <1>4
<1> QED
  BY <1>5

\* p is the path along which an entry sinks, and what it leaves is BubbleDown.
LogSunk(heap, index, p) ==
    /\ p \in [1 .. Size -> BOOLEAN]
    /\ \A i \in 1 .. Size : p[i] <=> LogPasses(heap, index, p, i)
    /\ Log!BubbleDown(heap, index) =
          [i \in 1 .. Size |->
              IF ~p[i] THEN heap[i]
              ELSE IF 2 * i > Size THEN heap[index]
              ELSE heap[Log!OlderChild(heap, i)]]

\* BubbleDown has such a path.
LEMMA LogBubbles ==
    ASSUME NEW heap, NEW index \in Nat \ {0}, Size \in Nat
    PROVE  \E p : LogSunk(heap, index, p)
<1> DEFINE Is(p) == p = [i \in 1 .. Size |->
              \/ i = index
              \/ /\ i > index
                 /\ p[i \div 2]
                 /\ i = Log!OlderChild(heap, i \div 2)]
<1>1. PICK r \in [1 .. Size -> BOOLEAN] : Is(r)
  <2>1. PICK p \in [1 .. Size -> BOOLEAN] :
            p = [i \in 1 .. Size |-> LogPasses(heap, index, p, i)]
    BY LogPath
  <2>2. Is(p)
    BY <2>1, Zenon DEF LogPasses
  <2> HIDE DEF Is
  <2> QED
    BY <2>2
<1>2. PICK p : p = CHOOSE f : Is(f)
  OBVIOUS
<1> HIDE DEF Is
<1>3. Is(p)
  BY <1>1, <1>2, Zenon
<1>4. p \in [1 .. Size -> BOOLEAN]
  BY <1>3 DEF Is
<1>5. \A i \in 1 .. Size : p[i] <=> LogPasses(heap, index, p, i)
  BY <1>3 DEF Is, LogPasses
<1>6. Log!BubbleDown(heap, index) =
                    [i \in 1 .. Size |->
                        IF ~p[i] THEN heap[i]
                        ELSE IF 2 * i > Size THEN heap[index]
                        ELSE heap[Log!OlderChild(heap, i)]]
  BY <1>2 DEF Log!BubbleDown, Is
<1> QED
  BY <1>4, <1>5, <1>6 DEF LogSunk

\* A path has one place at each depth.
LEMMA LogOnePath ==
    ASSUME NEW heap, NEW index \in Nat \ {0}, Size \in Nat,
           NEW p \in [1 .. Size -> BOOLEAN],
           \A i \in 1 .. Size : p[i] <=> LogPasses(heap, index, p, i)
    PROVE  /\ \A i \in 1 .. Size : p[i] => i >= index
           /\ \A i, j \in 1 .. Size : p[i] /\ p[j] /\ i < j => i <= j \div 2
<1>1. \A i \in 1 .. Size : p[i] => i >= index
  BY DEF LogPasses
<1> DEFINE S == {n \in Nat : \A i, j \in 1 .. Size :
                    j <= n /\ p[i] /\ p[j] /\ i < j => i <= j \div 2}
<1>2. 0 \in S
  OBVIOUS
<1>3. ASSUME NEW n \in Nat, n \in S PROVE n + 1 \in S
  <2> SUFFICES ASSUME NEW i \in 1 .. Size, NEW j \in 1 .. Size, j <= n + 1,
                      p[i], p[j], i < j
               PROVE  i <= j \div 2
    OBVIOUS
  <2>1. index <= i
    BY <1>1
  <2>2. /\ j \div 2 \in 1 .. Size /\ p[j \div 2]
        /\ j = Log!OlderChild(heap, j \div 2)
    BY <2>1 DEF LogPasses
  <2>3. SUFFICES ASSUME i > j \div 2 PROVE FALSE
    BY <2>2
  <2>4. index <= j \div 2
    BY <1>1, <2>2
  <2>5. /\ i \div 2 \in 1 .. Size /\ p[i \div 2]
        /\ i = Log!OlderChild(heap, i \div 2)
    BY <2>3, <2>4 DEF LogPasses
  <2>6. i \div 2 # j \div 2
    BY <2>2, <2>5
  <2>7. i \div 2 < j \div 2 /\ j \div 2 <= n
    BY <2>6, <2>2
  <2>8. i \div 2 <= (j \div 2) \div 2
    BY <2>7, <2>2, <2>5, <1>3
  <2>9. i = j \div 2 + 1 /\ i \div 2 = (j \div 2) \div 2 /\ j \div 2 > index
    BY <2>3, <2>4, <2>8, <2>7, <2>5, <1>1
  <2>10. j \div 2 = Log!OlderChild(heap, (j \div 2) \div 2)
    BY <2>2, <2>9 DEF LogPasses
  <2> QED
    BY <2>5, <2>9, <2>10
<1> HIDE DEF S
<1>4. Nat \subseteq S
  BY <1>2, <1>3, Induct
<1>5. Size \in S
  BY <1>4
<1> QED
  BY <1>1, <1>5 DEF S

\* The child a path continues with.
LogNext(heap, index, p, i) ==
    /\ Log!OlderChild(heap, i) \in {2 * i, 2 * i + 1}
    /\ Log!OlderChild(heap, i) \in 1 .. Size
    /\ Log!OlderChild(heap, i) \div 2 = i
    /\ Log!OlderChild(heap, i) > index
    /\ p[Log!OlderChild(heap, i)]

\* The path goes on down to a leaf.
LEMMA LogGoesOn ==
    ASSUME NEW heap, NEW index \in 1 .. Size, Size \in Nat, Size % 2 = 1,
           NEW p, LogSunk(heap, index, p), NEW i \in 1 .. Size, p[i],
           ~(2 * i > Size)
    PROVE  LogNext(heap, index, p, i)
<1>1. Log!OlderChild(heap, i) \in {2 * i, 2 * i + 1}
  BY DEF Log!OlderChild
<1>2. 2 * i + 1 <= Size
  OBVIOUS
<1>3. index <= i
  <2>1. index \in Nat \ {0} /\ p \in [1 .. Size -> BOOLEAN]
    BY DEF LogSunk
  <2>2. \A k \in 1 .. Size : p[k] <=> LogPasses(heap, index, p, k)
    BY DEF LogSunk
  <2>3. \A k \in 1 .. Size : p[k] => k >= index
    BY <2>1, <2>2, LogOnePath
  <2> QED
    BY <2>3
<1>4. /\ Log!OlderChild(heap, i) \in 1 .. Size
      /\ Log!OlderChild(heap, i) \div 2 = i
      /\ Log!OlderChild(heap, i) > index
  BY <1>1, <1>2, <1>3
<1>5. p[Log!OlderChild(heap, i)]
  BY <1>4 DEF LogSunk, LogPasses
<1> QED
  BY <1>1, <1>4, <1>5 DEF LogNext

\* What an entry that sinks leaves behind: each entry at one place.
LEMMA LogMoves ==
    ASSUME NEW heap \in LogHeaps, NEW index \in 1 .. Size, Size \in Nat,
           Size % 2 = 1
    PROVE  \E q \in [1 .. Size -> 1 .. Size] :
              /\ Log!BubbleDown(heap, index) = [i \in 1 .. Size |-> heap[q[i]]]
              /\ \A i, j \in 1 .. Size : q[i] = q[j] => i = j
<1>1. index \in Nat \ {0}
  OBVIOUS
<1>0. PICK p : LogSunk(heap, index, p)
  BY <1>1, LogBubbles
<1>2. /\ p \in [1 .. Size -> BOOLEAN]
      /\ \A i \in 1 .. Size : p[i] <=> LogPasses(heap, index, p, i)
      /\ Log!BubbleDown(heap, index) =
            [i \in 1 .. Size |->
                IF ~p[i] THEN heap[i]
                ELSE IF 2 * i > Size THEN heap[index]
                ELSE heap[Log!OlderChild(heap, i)]]
  BY <1>0 DEF LogSunk
<1>3. /\ \A i \in 1 .. Size : p[i] => i >= index
      /\ \A i, j \in 1 .. Size : p[i] /\ p[j] /\ i < j => i <= j \div 2
  BY <1>1, <1>2, LogOnePath
<1> DEFINE q == [i \in 1 .. Size |->
                    IF ~p[i] THEN i
                    ELSE IF 2 * i > Size THEN index
                    ELSE Log!OlderChild(heap, i)]
<1>4. ASSUME NEW i \in 1 .. Size, p[i], ~(2 * i > Size)
      PROVE  LogNext(heap, index, p, i)
  BY <1>0, <1>4, LogGoesOn
<1>5. q \in [1 .. Size -> 1 .. Size]
  BY <1>4 DEF LogNext
<1>6. Log!BubbleDown(heap, index) = [i \in 1 .. Size |-> heap[q[i]]]
  BY <1>2
<1>7. p[index]
  BY <1>2 DEF LogPasses
<1>8. ASSUME NEW i \in 1 .. Size, NEW j \in 1 .. Size, q[i] = q[j], i < j
      PROVE  FALSE
  <2>1. CASE ~p[i] \/ ~p[j]
    BY <2>1, <1>4, <1>7, <1>8 DEF LogNext
  <2>2. CASE p[i] /\ p[j]
    <3>1. 2 * i <= j
      BY <2>2, <1>3, <1>8
    <3>2. ~(2 * i > Size)
      BY <3>1
    <3>3. q[i] = Log!OlderChild(heap, i) /\ q[i] > index /\ q[i] \div 2 = i
      BY <2>2, <3>2, <1>4 DEF LogNext
    <3>4. CASE 2 * j > Size
      BY <2>2, <3>3, <3>4, <1>8
    <3>5. CASE ~(2 * j > Size)
      BY <2>2, <3>3, <3>5, <1>4, <1>8 DEF LogNext
    <3> QED
      BY <3>4, <3>5
  <2> QED
    BY <2>1, <2>2
<1> HIDE DEF q
<1>9. \A i, j \in 1 .. Size : q[i] = q[j] => i = j
  BY <1>8
<1> QED
  BY <1>5, <1>6, <1>9

\* The youngest of a heap sinks to a leaf, and leaves a heap.
LEMMA LogSinks ==
    ASSUME NEW heap \in LogHeaps, NEW index \in 1 .. Size, Size \in Nat,
           Size % 2 = 1, Generations \in Nat,
           \A i, j \in 1 .. Size :
              heap[i].generation = heap[j].generation => i = j,
           \A i \in 1 .. Size : i # index =>
              heap[i].generation < heap[index].generation,
           \A i \in 2 .. Size :
              IF i \div 2 # index
              THEN heap[i \div 2].generation < heap[i].generation
              ELSE index > 1 =>
                      heap[index \div 2].generation < heap[i].generation
    PROVE  \A i \in 2 .. Size : Log!BubbleDown(heap, index)[i \div 2].generation
                                < Log!BubbleDown(heap, index)[i].generation
<1>1. PICK p : LogSunk(heap, index, p)
  <2>1. index \in Nat \ {0}
    OBVIOUS
  <2> QED
    BY <2>1, LogBubbles, Zenon
<1> DEFINE new == Log!BubbleDown(heap, index)
           gen(k) == heap[k].generation
           older(k) == Log!OlderChild(heap, k)
<1>2. /\ \A k \in 1 .. Size : gen(k) \in Int
      /\ \A k, l \in 1 .. Size : gen(k) = gen(l) => k = l
      /\ \A k \in 1 .. Size : k # index => gen(k) < gen(index)
  BY DEF LogHeaps, Log!Entry
<1>3. \A k \in 1 .. Size :
          new[k] = IF ~p[k] THEN heap[k]
                   ELSE IF 2 * k > Size THEN heap[index]
                   ELSE heap[older(k)]
  BY <1>1 DEF LogSunk
<1>4. \A k \in 1 .. Size : p[k] /\ ~(2 * k > Size) =>
          LogNext(heap, index, p, k)
  BY <1>1, LogGoesOn
<1>5. p[index] /\ \A k \in 1 .. Size : p[k] => k >= index
  BY <1>1, LogOnePath DEF LogSunk, LogPasses
<1> SUFFICES ASSUME NEW i \in 2 .. Size
             PROVE  new[i \div 2].generation < new[i].generation
  OBVIOUS
<1>6. i \div 2 \in 1 .. Size /\ i \in 1 .. Size /\ 2 * (i \div 2) <= i
      /\ i \in {2 * (i \div 2), 2 * (i \div 2) + 1}
  BY Halves
<1>7. ASSUME p[i]
      PROVE  i = index \/ (i > index /\ p[i \div 2] /\ i = older(i \div 2))
  BY <1>1, <1>6, <1>7 DEF LogSunk, LogPasses
<1> HIDE DEF new, gen, older
<1>8. CASE p[i \div 2]
  <2>1. /\ new[i \div 2] = heap[older(i \div 2)]
        /\ older(i \div 2) \in 1 .. Size
        /\ older(i \div 2) \in {2 * (i \div 2), 2 * (i \div 2) + 1}
        /\ older(i \div 2) > index
    BY <1>8, <1>6, <1>3, <1>4 DEF LogNext, older
  <2>2. CASE p[i]
    <3>1. i \div 2 >= index /\ i > index /\ i = older(i \div 2)
      BY <2>2, <1>7, <1>8, <1>6, <1>5
    <3>2. CASE 2 * i > Size
      <4>1. new[i] = heap[index]
        BY <2>2, <3>2, <1>3
      <4> QED
        BY <4>1, <2>1, <3>1, <1>2 DEF gen
    <3>3. CASE ~(2 * i > Size)
      <4>1. new[i] = heap[older(i)] /\ older(i) \in 1 .. Size
            /\ older(i) \div 2 = i
        BY <2>2, <3>3, <1>3, <1>4 DEF LogNext, older
      <4>2. older(i) \in 2 .. Size /\ older(i) \div 2 # index
        BY <4>1, <3>1
      <4>3. gen(i) < gen(older(i))
        BY <4>1, <4>2 DEF gen
      <4> QED
        BY <4>1, <4>3, <2>1, <3>1 DEF gen
    <3> QED
      BY <3>2, <3>3
  <2>3. CASE ~p[i]
    <3>1. new[i] = heap[i]
      BY <2>3, <1>3, <1>6
    <3>2. older(i \div 2) # i
      BY <2>3, <1>4, <1>8, <1>6 DEF LogNext, older
    <3>3. gen(older(i \div 2)) < gen(i)
      <4>1. gen(older(i \div 2)) # gen(i)
        BY <3>2, <2>1, <1>2, <1>6
      <4>2. gen(older(i \div 2)) <= gen(i)
        BY <3>2, <1>6, <1>2, <2>1 DEF gen, older, Log!OlderChild
      <4>3. gen(older(i \div 2)) \in Int /\ gen(i) \in Int
        BY <1>2, <2>1, <1>6
      <4> QED
        BY <4>1, <4>2, <4>3
    <3> QED
      BY <3>1, <3>3, <2>1 DEF gen
  <2> QED
    BY <2>2, <2>3
<1>9. CASE ~p[i \div 2]
  <2>1. new[i \div 2] = heap[i \div 2]
    BY <1>9, <1>3, <1>6
  <2>2. i \div 2 # index
    BY <1>9, <1>5
  <2>3. gen(i \div 2) < gen(i)
    BY <2>2 DEF gen
  <2>4. CASE ~p[i]
    BY <2>4, <2>1, <2>3, <1>3, <1>6 DEF gen
  <2>5. CASE p[i]
    <3>1. i = index
      BY <2>5, <1>7, <1>9
    <3>2. CASE 2 * i > Size
      <4>1. new[i] = heap[index]
        BY <2>5, <3>2, <1>3, <1>6
      <4> QED
        BY <4>1, <2>1, <2>3, <3>1 DEF gen
    <3>3. CASE ~(2 * i > Size)
      <4>1. new[i] = heap[older(i)] /\ older(i) \in 2 .. Size
            /\ older(i) \div 2 = index
        BY <2>5, <3>1, <3>3, <1>3, <1>4, <1>6 DEF LogNext, older
      <4>2. heap[index \div 2].generation < heap[older(i)].generation
        BY <4>1, <3>1
      <4>3. new[i \div 2].generation = heap[index \div 2].generation
        BY <2>1, <3>1
      <4> QED
        BY <4>1, <4>2, <4>3
    <3> QED
      BY <3>2, <3>3
  <2> QED
    BY <2>4, <2>5
<1> QED
  BY <1>8, <1>9 DEF new

\* Two copies of a tag's text are not looked up: with two a level that is set is
\* not that of both in the cache.
LogDistinct == \A s, t \in Tags : TextOf[s] = TextOf[t] => s = t

\* Generations do not wrap around.
LogNarrow == MaxGeneration <= Generations

\* A full cache, of which one entry is replaced or becomes the youngest.
LogSettled(heap, index) ==
    /\ Len(cache) = Size
    /\ index \in 1 .. Size
    /\ heap \in LogHeaps
    /\ heap[index].generation = Log!Stamp
    /\ cache' = Log!BubbleDown(heap, index)
    /\ newest < MaxGeneration /\ newest' = newest + 1
    /\ UNCHANGED <<default, levels>>

\* A generation as an entry stores it.
LEMMA LogStampType ==
    ASSUME Log!LogAssumption, Log!TypeOK
    PROVE  Log!Stamp \in 0 .. Generations - 1
BY DEF Log!LogAssumption, Log!TypeOK, Log!Stamp

\* A full cache is a heap.
LEMMA LogFull ==
    ASSUME Log!LogAssumption, Log!TypeOK, Len(cache) = Size
    PROVE  cache \in LogHeaps
BY DEF Log!LogAssumption, Log!TypeOK, LogHeaps

\* The empty cache.
LEMMA LogEmpty == <<>> \in Seq(Log!Entry) /\ Len(<<>>) = 0
OBVIOUS

\* What a look-up does to the cache.
LEMMA LogHits ==
    ASSUME Log!LogAssumption, Log!TypeOK, NEW t \in Tags, Log!Hit(t)
    PROVE  \/ UNCHANGED Log!vars
           \/ \E i \in 1 .. Size :
                 LogSettled([cache EXCEPT ![i].generation = Log!Stamp], i)
<1>1. PICK i \in 1 .. Len(cache) :
          /\ IF Len(cache) = Size
             THEN /\ newest < MaxGeneration
                  /\ cache' = Log!BubbleDown(
                                  [cache EXCEPT ![i].generation = Log!Stamp], i)
                  /\ newest' = newest + 1
             ELSE UNCHANGED <<cache, newest>>
          /\ UNCHANGED <<default, levels>>
  BY DEF Log!Hit
<1>2. CASE Len(cache) = Size
  <2> DEFINE heap == [cache EXCEPT ![i].generation = Log!Stamp]
  <2>1. cache \in [1 .. Size -> Log!Entry] /\ i \in 1 .. Size
    BY <1>2, LogFull DEF LogHeaps
  <2>2. cache[i] \in Log!Entry
    BY <2>1
  <2>3. [cache[i] EXCEPT !.generation = Log!Stamp] \in Log!Entry
    BY <2>2, LogStampType DEF Log!Entry
  <2>4. heap = [cache EXCEPT ![i] = [cache[i] EXCEPT !.generation = Log!Stamp]]
    OBVIOUS
  <2>5. heap \in LogHeaps
    BY <2>1, <2>3, <2>4 DEF LogHeaps
  <2>6. heap[i].generation = Log!Stamp
    BY <2>1, <2>2, <2>4 DEF Log!Entry
  <2> QED
    BY <1>1, <1>2, <2>1, <2>5, <2>6 DEF LogSettled
<1>3. CASE Len(cache) # Size
  BY <1>1, <1>3 DEF Log!vars
<1> QED
  BY <1>2, <1>3

\* What add_to_cache writes.
LogEntry(t) == [tag |-> t, level |-> Log!LevelOf(TextOf[t]),
                generation |-> Log!Stamp]

\* What the look-up of a tag that is not in the cache does to it.
LEMMA LogMisses ==
    ASSUME Log!LogAssumption, Log!TypeOK, NEW t \in Tags, Log!Miss(t)
    PROVE  /\ LogEntry(t) \in Log!Entry
           /\ \A i \in 1 .. Len(cache) : cache[i].tag # t
           /\ \/ /\ Len(cache) < Size /\ cache' = Append(cache, LogEntry(t))
                 /\ newest < MaxGeneration /\ newest' = newest + 1
                 /\ UNCHANGED <<default, levels>>
              \/ LogSettled([cache EXCEPT ![1] = LogEntry(t)], 1)
<1>1. LogEntry(t) \in Log!Entry
  <2>1. TextOf[t] \in Log!Texts
    BY DEF Log!Texts
  <2>2. Log!LevelOf(TextOf[t]) \in Levels
    BY <2>1 DEF Log!LevelOf, Log!TypeOK
  <2> QED
    BY <2>2, LogStampType DEF Log!Entry, LogEntry
<1>2. CASE Len(cache) < Size
  BY <1>1, <1>2 DEF Log!Miss, LogEntry
<1>3. CASE ~(Len(cache) < Size)
  <2>1. Len(cache) = Size /\ 1 \in 1 .. Size
    BY <1>3 DEF Log!TypeOK, Log!LogAssumption
  <2>2. cache \in [1 .. Size -> Log!Entry]
    BY <2>1, LogFull DEF LogHeaps
  <2>3. /\ [cache EXCEPT ![1] = LogEntry(t)] \in LogHeaps
        /\ [cache EXCEPT ![1] = LogEntry(t)][1] = LogEntry(t)
    BY <1>1, <2>1, <2>2 DEF LogHeaps
  <2>4. LogEntry(t).generation = Log!Stamp
    BY DEF LogEntry
  <2> QED
    BY <1>1, <1>3, <2>1, <2>3, <2>4 DEF LogSettled, Log!Miss, LogEntry
<1> QED
  BY <1>2, <1>3

\* The entries after that are those of the heap, each once.
LEMMA LogSettles ==
    ASSUME Log!LogAssumption, NEW heap, NEW index, LogSettled(heap, index)
    PROVE  \E q \in [1 .. Size -> 1 .. Size] :
              /\ cache' = [i \in 1 .. Size |-> heap[q[i]]]
              /\ \A i, j \in 1 .. Size : q[i] = q[j] => i = j
<1>1. heap \in LogHeaps /\ index \in 1 .. Size /\ Size \in Nat /\ Size % 2 = 1
  BY DEF LogSettled, Log!LogAssumption
<1>2. cache' = Log!BubbleDown(heap, index)
  BY DEF LogSettled
<1> QED
  BY <1>1, <1>2, LogMoves

\* The cache stays full, and of its type.
LEMMA LogSettlesType ==
    ASSUME Log!LogAssumption, NEW heap, NEW index, LogSettled(heap, index)
    PROVE  /\ cache' \in Seq(Log!Entry) /\ Len(cache') = Size
           /\ cache' \in LogHeaps
<1>1. PICK q \in [1 .. Size -> 1 .. Size] :
          cache' = [i \in 1 .. Size |-> heap[q[i]]]
  BY LogSettles
<1>2. cache' \in [1 .. Size -> Log!Entry]
  BY <1>1 DEF LogSettled, LogHeaps
<1> QED
  BY <1>2 DEF LogHeaps, Log!LogAssumption

\* esp_log_level_set writes no more than levels.
LEMMA LogSets ==
    ASSUME Log!LogAssumption, Log!TypeOK, NEW x \in Log!Texts,
           NEW level \in Levels, Log!Set(x, level)
    PROVE  /\ cache' \in Seq(Log!Entry) /\ Len(cache') = Len(cache)
           /\ levels' \in [Log!Texts -> Levels \cup {Log!Unset}]
           /\ levels' = [levels EXCEPT ![x] = level]
           /\ UNCHANGED <<default, newest>>
           /\ \A i \in 1 .. Len(cache) :
                 /\ cache'[i].tag = cache[i].tag
                 /\ cache'[i].generation = cache[i].generation
                 /\ cache'[i].level =
                       IF /\ TextOf[cache[i].tag] = x
                          /\ \A j \in 1 .. i - 1 : TextOf[cache[j].tag] # x
                       THEN level ELSE cache[i].level
<1> DEFINE e(i) == IF /\ TextOf[cache[i].tag] = x
                      /\ \A j \in 1 .. i - 1 : TextOf[cache[j].tag] # x
                   THEN [cache[i] EXCEPT !.level = level] ELSE cache[i]
<1>1. cache' = [i \in 1 .. Len(cache) |-> e(i)]
  BY DEF Log!Set
<1>2. ASSUME NEW i \in 1 .. Len(cache)
      PROVE  /\ e(i) \in Log!Entry
             /\ e(i).tag = cache[i].tag
             /\ e(i).generation = cache[i].generation
             /\ e(i).level =
                       IF /\ TextOf[cache[i].tag] = x
                          /\ \A j \in 1 .. i - 1 : TextOf[cache[j].tag] # x
                       THEN level ELSE cache[i].level
  <2>1. cache[i] \in Log!Entry
    BY DEF Log!TypeOK
  <2> QED
    BY <2>1 DEF Log!Entry
<1> HIDE DEF e
<1>3. Len(cache) \in Nat
  BY DEF Log!TypeOK
<1>4. cache' \in Seq(Log!Entry) /\ Len(cache') = Len(cache)
  BY <1>1, <1>2, <1>3
<1>5. /\ levels' = [levels EXCEPT ![x] = level]
      /\ UNCHANGED <<default, newest>>
  BY DEF Log!Set
<1>6. levels' \in [Log!Texts -> Levels \cup {Log!Unset}]
  BY <1>5 DEF Log!TypeOK
<1> QED
  BY <1>1, <1>2, <1>4, <1>5, <1>6

\* Each step preserves the types.
LEMMA LogTypeNext ==
    ASSUME Log!LogAssumption, Log!TypeOK, [Log!Next]_(Log!vars)
    PROVE  Log!TypeOK'
<1>1. CASE UNCHANGED Log!vars
  BY <1>1 DEF Log!vars, Log!TypeOK
<1>2. ASSUME NEW heap, NEW index, LogSettled(heap, index) PROVE Log!TypeOK'
  <2>1. cache' \in Seq(Log!Entry) /\ Len(cache') = Size
    BY <1>2, LogSettlesType
  <2>2. newest' \in 0 .. MaxGeneration
    BY <1>2 DEF LogSettled, Log!TypeOK, Log!LogAssumption
  <2> QED
    BY <1>2, <2>1, <2>2 DEF LogSettled, Log!TypeOK, Log!LogAssumption
<1>3. ASSUME NEW t \in Tags, Log!Hit(t) PROVE Log!TypeOK'
  BY <1>1, <1>2, <1>3, LogHits
<1>4. ASSUME NEW t \in Tags, Log!Miss(t) PROVE Log!TypeOK'
  <2>1. CASE /\ Len(cache) < Size /\ cache' = Append(cache, LogEntry(t))
             /\ newest < MaxGeneration /\ newest' = newest + 1
             /\ UNCHANGED <<default, levels>>
    <3>1. LogEntry(t) \in Log!Entry
      BY <1>4, LogMisses
    <3>2. cache' \in Seq(Log!Entry) /\ Len(cache') = Len(cache) + 1
      BY <2>1, <3>1 DEF Log!TypeOK
    <3>3. Len(cache') <= Size /\ newest' \in 0 .. MaxGeneration
      BY <2>1, <3>2 DEF Log!TypeOK, Log!LogAssumption
    <3> QED
      BY <2>1, <3>2, <3>3 DEF Log!TypeOK
  <2> QED
    BY <1>4, <2>1, <1>2, LogMisses
<1>5. ASSUME NEW x \in Log!Texts, NEW level \in Levels, Log!Set(x, level)
      PROVE  Log!TypeOK'
  BY <1>5, LogSets DEF Log!TypeOK
<1>6. ASSUME NEW level \in Levels, Log!SetAll(level) PROVE Log!TypeOK'
  BY <1>6, LogEmpty DEF Log!SetAll, Log!TypeOK, Log!LogAssumption
<1> QED
  BY <1>1, <1>3, <1>4, <1>5, <1>6 DEF Log!Next

\* The types of an entry.
LEMMA LogEntryType ==
    ASSUME Log!LogAssumption, Log!TypeOK, NEW i \in 1 .. Len(cache)
    PROVE  cache[i].tag \in Tags /\ cache[i].generation \in Int
<1>1. cache[i] \in Log!Entry
  BY DEF Log!TypeOK
<1>2. Generations \in Nat
  BY DEF Log!LogAssumption
<1> QED
  BY <1>1, <1>2 DEF Log!Entry

\* The cache agrees with the levels that were set, and has each tag once.
LogAgreeing ==
    /\ Log!TypeOK
    /\ \A i, j \in 1 .. Len(cache) : cache[i].tag = cache[j].tag => i = j
    /\ Log!CacheAgrees

\* Each step preserves the agreement: an entry moves with its
\* level, and the first entry of a text is the only one.
LEMMA LogAgreeingNext ==
    ASSUME Log!LogAssumption, LogDistinct, LogAgreeing, [Log!Next]_(Log!vars)
    PROVE  LogAgreeing'
<1>0. Log!TypeOK /\ Log!TypeOK'
  BY LogTypeNext DEF LogAgreeing
<1>1. CASE UNCHANGED Log!vars
  BY <1>1 DEF Log!vars, LogAgreeing, Log!TypeOK, Log!CacheAgrees, Log!LevelOf
<1>2. ASSUME NEW heap, NEW index, LogSettled(heap, index),
             \A i \in 1 .. Size :
                heap[i].level = Log!LevelOf(TextOf[heap[i].tag]),
             \A i, j \in 1 .. Size : heap[i].tag = heap[j].tag => i = j
      PROVE  LogAgreeing'
  <2>1. PICK q \in [1 .. Size -> 1 .. Size] :
            /\ cache' = [i \in 1 .. Size |-> heap[q[i]]]
            /\ \A i, j \in 1 .. Size : q[i] = q[j] => i = j
    BY <1>2, LogSettles
  <2>2. Len(cache') = Size
    BY <1>2, LogSettlesType
  <2>3. \A i \in 1 .. Size : cache'[i] = heap[q[i]] /\ q[i] \in 1 .. Size
    BY <2>1
  <2>4. \A x : Log!LevelOf(x)' = Log!LevelOf(x)
    BY <1>2 DEF LogSettled, Log!LevelOf
  <2>5. \A i \in 1 .. Size :
            cache'[i].level = Log!LevelOf(TextOf[cache'[i].tag])
    BY <2>3, <1>2
  <2>6. Log!CacheAgrees'
    BY <2>2, <2>4, <2>5 DEF Log!CacheAgrees
  <2>7. \A i, j \in 1 .. Size : cache'[i].tag = cache'[j].tag => i = j
    BY <2>1, <2>3, <1>2
  <2> QED
    BY <1>0, <2>2, <2>6, <2>7 DEF LogAgreeing
<1>3. ASSUME NEW t \in Tags, Log!Hit(t) PROVE LogAgreeing'
  <2>1. CASE UNCHANGED Log!vars
    BY <2>1, <1>1
  <2>2. ASSUME NEW i \in 1 .. Size,
               LogSettled([cache EXCEPT ![i].generation = Log!Stamp], i)
        PROVE  LogAgreeing'
    <3> DEFINE heap == [cache EXCEPT ![i].generation = Log!Stamp]
    <3>1. cache \in LogHeaps /\ Len(cache) = Size
      BY <1>0, <2>2, LogFull DEF LogSettled
    <3>2. \A j \in 1 .. Size : /\ heap[j].tag = cache[j].tag
                               /\ heap[j].level = cache[j].level
      BY <3>1 DEF LogHeaps, Log!Entry
    <3> HIDE DEF heap
    <3>3. /\ \A j \in 1 .. Size :
                heap[j].level = Log!LevelOf(TextOf[heap[j].tag])
          /\ \A j, k \in 1 .. Size : heap[j].tag = heap[k].tag => j = k
      BY <3>1, <3>2 DEF LogAgreeing, Log!CacheAgrees
    <3>4. LogSettled(heap, i)
      BY <2>2 DEF heap
    <3> QED
      BY <3>3, <3>4, <1>2
  <2> QED
    BY <1>0, <1>3, <2>1, <2>2, LogHits
<1>4. ASSUME NEW t \in Tags, Log!Miss(t) PROVE LogAgreeing'
  <2>1. /\ LogEntry(t) \in Log!Entry
        /\ \A i \in 1 .. Len(cache) : cache[i].tag # t
    BY <1>0, <1>4, LogMisses
  <2>2. LogEntry(t).tag = t /\ LogEntry(t).level = Log!LevelOf(TextOf[t])
    BY DEF LogEntry
  <2>3. CASE /\ Len(cache) < Size /\ cache' = Append(cache, LogEntry(t))
             /\ newest < MaxGeneration /\ newest' = newest + 1
             /\ UNCHANGED <<default, levels>>
    <3>1. /\ Len(cache') = Len(cache) + 1 /\ Len(cache) \in Nat
          /\ cache'[Len(cache) + 1] = LogEntry(t)
          /\ \A i \in 1 .. Len(cache) : cache'[i] = cache[i]
      BY <1>0, <2>1, <2>3 DEF Log!TypeOK
    <3>2. \A x : Log!LevelOf(x)' = Log!LevelOf(x)
      BY <2>3 DEF Log!LevelOf
    <3>3. Log!CacheAgrees'
      BY <3>1, <3>2, <2>2 DEF LogAgreeing, Log!CacheAgrees
    <3>4. \A i, j \in 1 .. Len(cache') : cache'[i].tag = cache'[j].tag => i = j
      BY <3>1, <2>1, <2>2 DEF LogAgreeing
    <3> QED
      BY <1>0, <3>3, <3>4 DEF LogAgreeing
  <2>4. ASSUME LogSettled([cache EXCEPT ![1] = LogEntry(t)], 1)
        PROVE  LogAgreeing'
    <3> DEFINE heap == [cache EXCEPT ![1] = LogEntry(t)]
    <3>1. cache \in LogHeaps /\ Len(cache) = Size
      BY <1>0, <2>4, LogFull DEF LogSettled
    <3>2. \A j \in 1 .. Size : heap[j] = IF j = 1 THEN LogEntry(t) ELSE cache[j]
      BY <3>1 DEF LogHeaps
    <3> HIDE DEF heap
    <3>3. /\ \A j \in 1 .. Size :
                heap[j].level = Log!LevelOf(TextOf[heap[j].tag])
          /\ \A j, k \in 1 .. Size : heap[j].tag = heap[k].tag => j = k
      BY <3>1, <3>2, <2>1, <2>2 DEF LogAgreeing, Log!CacheAgrees
    <3>4. LogSettled(heap, 1)
      BY <2>4 DEF heap
    <3> QED
      BY <3>3, <3>4, <1>2
  <2> QED
    BY <1>0, <1>4, <2>3, <2>4, LogMisses
<1>5. ASSUME NEW x \in Log!Texts, NEW level \in Levels, Log!Set(x, level)
      PROVE  LogAgreeing'
  <2>1. /\ Len(cache') = Len(cache)
        /\ levels' = [levels EXCEPT ![x] = level]
        /\ UNCHANGED <<default, newest>>
        /\ \A i \in 1 .. Len(cache) :
                 /\ cache'[i].tag = cache[i].tag
                 /\ cache'[i].level =
                       IF /\ TextOf[cache[i].tag] = x
                          /\ \A j \in 1 .. i - 1 : TextOf[cache[j].tag] # x
                       THEN level ELSE cache[i].level
    BY <1>0, <1>5, LogSets
  <2>2. \A i, j \in 1 .. Len(cache') : cache'[i].tag = cache'[j].tag => i = j
    BY <2>1 DEF LogAgreeing
  <2>3. /\ level # Log!Unset
        /\ \A y \in Log!Texts :
              Log!LevelOf(y)' = IF y = x THEN level ELSE Log!LevelOf(y)
    BY <1>0, <2>1 DEF Log!TypeOK, Log!LevelOf, Log!LogAssumption, Log!Unset
  <2>4. \A i \in 1 .. Len(cache) :
            cache[i].tag \in Tags /\ TextOf[cache[i].tag] \in Log!Texts
    <3> SUFFICES ASSUME NEW i \in 1 .. Len(cache)
                 PROVE  /\ cache[i].tag \in Tags
                        /\ TextOf[cache[i].tag] \in Log!Texts
      OBVIOUS
    <3>1. cache[i].tag \in Tags
      BY <1>0, LogEntryType
    <3> QED
      BY <3>1 DEF Log!Texts
  <2>5. ASSUME NEW i \in 1 .. Len(cache), TextOf[cache[i].tag] = x,
               NEW j \in 1 .. i - 1
        PROVE  TextOf[cache[j].tag] # x
    <3>1. j \in 1 .. Len(cache) /\ j # i /\ Len(cache) \in Nat
      BY <1>0 DEF Log!TypeOK
    <3> QED
      BY <3>1, <2>4, <2>5 DEF LogAgreeing, LogDistinct
  <2>6. \A i \in 1 .. Len(cache) : cache'[i].level =
            IF TextOf[cache[i].tag] = x THEN level ELSE cache[i].level
    BY <2>1, <2>5
  <2>7. Log!CacheAgrees'
    BY <2>1, <2>3, <2>4, <2>6 DEF LogAgreeing, Log!CacheAgrees
  <2> QED
    BY <1>0, <2>2, <2>7 DEF LogAgreeing
<1>6. ASSUME NEW level \in Levels, Log!SetAll(level) PROVE LogAgreeing'
  <2>1. Len(cache') = 0
    BY <1>6, LogEmpty DEF Log!SetAll
  <2> QED
    BY <1>0, <2>1 DEF LogAgreeing, Log!CacheAgrees
<1> QED
  BY <1>1, <1>3, <1>4, <1>5, <1>6 DEF Log!Next

\* No two entries are of an age, and a parent is older than its children.
LogAged ==
    /\ Log!TypeOK
    /\ \A i, j \in 1 .. Len(cache) :
          cache[i].generation = cache[j].generation => i = j
    /\ \A i \in 1 .. Len(cache) : cache[i].generation < newest
    /\ Log!HeapOrder

\* Each step preserves the ages: the entry that becomes the youngest sinks, and
\* one that is added is a leaf.
LEMMA LogAgedNext ==
    ASSUME Log!LogAssumption, LogNarrow, LogAged, [Log!Next]_(Log!vars)
    PROVE  LogAged'
<1>0. Log!TypeOK /\ Log!TypeOK'
  BY LogTypeNext DEF LogAged
<1>1. CASE UNCHANGED Log!vars
  BY <1>1 DEF Log!vars, LogAged, Log!TypeOK, Log!HeapOrder
<1>2. newest < MaxGeneration => Log!Stamp = newest
  BY <1>0 DEF Log!TypeOK, Log!LogAssumption, LogNarrow, Log!Stamp
<1>3. ASSUME NEW heap, NEW index, LogSettled(heap, index),
             \A i \in 1 .. Size : i # index => heap[i] = cache[i]
      PROVE  LogAged'
  <2>1. /\ heap \in LogHeaps /\ index \in 1 .. Size /\ Size \in Nat
        /\ Size % 2 = 1 /\ Generations \in Nat /\ Len(cache) = Size
        /\ cache' = Log!BubbleDown(heap, index)
    BY <1>3 DEF LogSettled, Log!LogAssumption
  <2>2. PICK q \in [1 .. Size -> 1 .. Size] :
            /\ cache' = [i \in 1 .. Size |-> heap[q[i]]]
            /\ \A i, j \in 1 .. Size : q[i] = q[j] => i = j
    BY <1>3, LogSettles
  <2>3. \A i \in 1 .. Size : cache'[i] = heap[q[i]] /\ q[i] \in 1 .. Size
    BY <2>2
  <2>4. /\ heap[index].generation = newest
        /\ newest' = newest + 1 /\ newest \in Nat
    BY <1>0, <1>2, <1>3 DEF LogSettled, Log!TypeOK, Log!LogAssumption
  <2>5. \A i \in 1 .. Size : /\ heap[i].generation \in Int
                             /\ cache[i].generation \in Int
                             /\ cache[i].generation < newest
                             /\ i # index => heap[i] = cache[i]
    <3> SUFFICES ASSUME NEW i \in 1 .. Size
                 PROVE  /\ heap[i].generation \in Int
                        /\ cache[i].generation \in Int
                        /\ cache[i].generation < newest
                        /\ i # index => heap[i] = cache[i]
      OBVIOUS
    <3>1. cache[i].generation \in Int
      BY <1>0, <2>1, LogEntryType
    <3>2. cache[i].generation < newest
      BY <2>1 DEF LogAged
    <3>3. heap[i].generation \in Int
      <4>1. CASE i = index
        BY <4>1, <2>4
      <4>2. CASE i # index
        BY <4>2, <3>1, <1>3
      <4> QED
        BY <4>1, <4>2
    <3> QED
      BY <3>1, <3>2, <3>3, <1>3
  <2>6. /\ \A i, j \in 1 .. Size :
              heap[i].generation = heap[j].generation => i = j
        /\ \A i \in 1 .. Size : i # index =>
              heap[i].generation < heap[index].generation
    <3>1. \A i \in 1 .. Size : i # index => heap[i].generation < newest
      BY <2>5
    <3>2. \A i, j \in 1 .. Size :
              cache[i].generation = cache[j].generation => i = j
      BY <2>1 DEF LogAged
    <3>3. ASSUME NEW i \in 1 .. Size, NEW j \in 1 .. Size,
                 heap[i].generation = heap[j].generation
          PROVE  i = j
      <4>1. CASE i = index \/ j = index
        BY <4>1, <3>1, <3>3, <2>4
      <4>2. CASE i # index /\ j # index
        <5>1. heap[i] = cache[i] /\ heap[j] = cache[j]
          BY <4>2, <1>3
        <5> QED
          BY <5>1, <3>2, <3>3
      <4> QED
        BY <4>1, <4>2
    <3> QED
      BY <3>1, <3>3, <2>4
  <2>7. \A i \in 2 .. Size : i \div 2 \in 1 .. Size /\ i \in 1 .. Size
    BY <2>1
  <2>8. \A i \in 2 .. Size : cache[i \div 2].generation < cache[i].generation
    BY <2>1 DEF LogAged, Log!HeapOrder
  <2>9. ASSUME NEW i \in 2 .. Size
        PROVE  IF i \div 2 # index
               THEN heap[i \div 2].generation < heap[i].generation
               ELSE index > 1 =>
                       heap[index \div 2].generation < heap[i].generation
    <3>1. CASE i \div 2 # index
      <4>1. heap[i \div 2] = cache[i \div 2]
        BY <3>1, <2>5, <2>7
      <4>2. CASE i = index
        BY <4>1, <4>2, <3>1, <2>4, <2>5, <2>7
      <4>3. CASE i # index
        BY <4>1, <4>3, <3>1, <2>5, <2>7, <2>8
      <4> QED
        BY <4>2, <4>3
    <3>2. CASE i \div 2 = index /\ index > 1
      <4>1. /\ index \in 2 .. Size /\ index \div 2 # index /\ i # index
            /\ index \div 2 \in 1 .. Size
        BY <3>2, <2>1
      <4>2. /\ cache[index \div 2].generation < cache[index].generation
            /\ cache[index].generation < cache[i].generation
        BY <4>1, <3>2, <2>8
      <4>3. heap[index \div 2] = cache[index \div 2] /\ heap[i] = cache[i]
        BY <4>1, <2>5, <2>7
      <4>4. /\ cache[index \div 2].generation \in Int
            /\ cache[index].generation \in Int
            /\ cache[i].generation \in Int
        BY <4>1, <2>1, <2>5, <2>7
      <4>5. heap[index \div 2].generation < heap[i].generation
        BY <4>2, <4>3, <4>4
      <4> QED
        BY <3>2, <4>5
    <3> QED
      BY <3>1, <3>2
  <2>10. \A i \in 2 .. Size : cache'[i \div 2].generation < cache'[i].generation
    BY <2>1, <2>6, <2>9, LogSinks
  <2>11. Len(cache') = Size
    BY <1>3, LogSettlesType
  <2>12. Log!HeapOrder'
    BY <2>10, <2>11 DEF Log!HeapOrder
  <2>13. \A i, j \in 1 .. Size :
             cache'[i].generation = cache'[j].generation => i = j
    BY <2>2, <2>3, <2>6
  <2>14. \A i \in 1 .. Size : heap[i].generation < newest'
    BY <2>4, <2>5
  <2>15. \A i \in 1 .. Size : cache'[i].generation < newest'
    BY <2>3, <2>14
  <2> QED
    BY <1>0, <2>11, <2>12, <2>13, <2>15 DEF LogAged
<1>4. ASSUME NEW t \in Tags, Log!Hit(t) PROVE LogAged'
  <2>1. ASSUME NEW i \in 1 .. Size,
               LogSettled([cache EXCEPT ![i].generation = Log!Stamp], i)
        PROVE  LogAged'
    <3>1. cache \in [1 .. Size -> Log!Entry]
      BY <1>0, <2>1, LogFull DEF LogSettled, LogHeaps
    <3>2. \A j \in 1 .. Size : j # i =>
              [cache EXCEPT ![i].generation = Log!Stamp][j] = cache[j]
      BY <3>1
    <3> QED
      BY <2>1, <3>2, <1>3
  <2> QED
    BY <1>0, <1>1, <1>4, <2>1, LogHits
<1>5. ASSUME NEW t \in Tags, Log!Miss(t) PROVE LogAged'
  <2>1. CASE /\ Len(cache) < Size /\ cache' = Append(cache, LogEntry(t))
             /\ newest < MaxGeneration /\ newest' = newest + 1
             /\ UNCHANGED <<default, levels>>
    <3>1. LogEntry(t) \in Log!Entry /\ LogEntry(t).generation = newest
      BY <1>0, <1>2, <1>5, <2>1, LogMisses DEF LogEntry
    <3>2. /\ Len(cache') = Len(cache) + 1 /\ Len(cache) \in Nat
          /\ cache'[Len(cache) + 1].generation = newest
          /\ \A i \in 1 .. Len(cache) : cache'[i] = cache[i]
      BY <1>0, <2>1, <3>1 DEF Log!TypeOK
    <3>3. /\ newest \in Nat
          /\ \A i \in 1 .. Len(cache) : cache[i].generation \in Int
                                        /\ cache[i].generation < newest
      <4>1. newest \in Nat
        BY <1>0 DEF Log!TypeOK, Log!LogAssumption
      <4>2. \A i \in 1 .. Len(cache) : cache[i].generation \in Int
        BY <1>0, LogEntryType
      <4>3. \A i \in 1 .. Len(cache) : cache[i].generation < newest
        BY DEF LogAged
      <4> QED
        BY <4>1, <4>2, <4>3
    <3>4. /\ \A i, j \in 1 .. Len(cache') :
                cache'[i].generation = cache'[j].generation => i = j
          /\ \A i \in 1 .. Len(cache') : cache'[i].generation < newest'
      BY <2>1, <3>2, <3>3 DEF LogAged
    <3>5. ASSUME NEW i \in 2 .. Len(cache')
          PROVE  cache'[i \div 2].generation < cache'[i].generation
      <4>1. i \div 2 \in 1 .. Len(cache) /\ i \in 1 .. Len(cache) + 1
        BY <3>2
      <4>2. CASE i = Len(cache) + 1
        BY <4>1, <4>2, <3>2, <3>3
      <4>3. CASE i # Len(cache) + 1
        <5>1. i \in 2 .. Len(cache)
          BY <4>1, <4>3, <3>2
        <5> QED
          BY <4>1, <5>1, <3>2 DEF LogAged, Log!HeapOrder
      <4> QED
        BY <4>2, <4>3
    <3> QED
      BY <1>0, <3>4, <3>5 DEF LogAged, Log!HeapOrder
  <2>2. ASSUME LogSettled([cache EXCEPT ![1] = LogEntry(t)], 1)
        PROVE  LogAged'
    <3>1. cache \in [1 .. Size -> Log!Entry]
      BY <1>0, <2>2, LogFull DEF LogSettled, LogHeaps
    <3>2. \A j \in 1 .. Size : j # 1 =>
              [cache EXCEPT ![1] = LogEntry(t)][j] = cache[j]
      BY <3>1
    <3> QED
      BY <2>2, <3>2, <1>3
  <2> QED
    BY <1>0, <1>5, <2>1, <2>2, LogMisses
<1>6. ASSUME NEW x \in Log!Texts, NEW level \in Levels, Log!Set(x, level)
      PROVE  LogAged'
  <2>1. /\ Len(cache') = Len(cache) /\ newest' = newest
        /\ \A i \in 1 .. Len(cache) : cache'[i].generation = cache[i].generation
    BY <1>0, <1>6, LogSets
  <2>2. \A i \in 2 .. Len(cache) :
            i \div 2 \in 1 .. Len(cache) /\ i \in 1 .. Len(cache)
    BY <1>0 DEF Log!TypeOK
  <2> QED
    BY <1>0, <2>1, <2>2 DEF LogAged, Log!HeapOrder
<1>7. ASSUME NEW level \in Levels, Log!SetAll(level) PROVE LogAged'
  <2>1. Len(cache') = 0
    BY <1>7, LogEmpty DEF Log!SetAll
  <2> QED
    BY <1>0, <2>1 DEF LogAged, Log!HeapOrder
<1> QED
  BY <1>1, <1>4, <1>5, <1>6, <1>7 DEF Log!Next

\* Both hold of a cache that is empty.
LEMMA LogInit ==
    ASSUME Log!LogAssumption, Log!Init
    PROVE  LogAgreeing /\ LogAged
<1>1. Len(cache) = 0 /\ cache \in Seq(Log!Entry)
  BY LogEmpty DEF Log!Init
<1>2. Log!TypeOK
  BY <1>1 DEF Log!Init, Log!TypeOK, Log!LogAssumption
<1> QED
  BY <1>1, <1>2 DEF LogAgreeing, LogAged, Log!CacheAgrees, Log!HeapOrder

\* The types of the cache and of the levels.
THEOREM LogTyped == ASSUME Log!LogAssumption PROVE Log!Spec => []Log!TypeOK
<1>1. Log!Init => Log!TypeOK
  BY LogInit DEF LogAgreeing
<1>2. Log!TypeOK /\ [Log!Next]_(Log!vars) => Log!TypeOK'
  BY LogTypeNext
<1> QED
  BY <1>1, <1>2, PTL DEF Log!Spec

\* The cache changes no answer of esp_log_level_get, whatever was set, looked
\* up, evicted and reset before: as long as no text has two addresses.
THEOREM LogAgrees ==
    ASSUME Log!LogAssumption, LogDistinct
    PROVE  Log!Spec => []Log!CacheAgrees
<1>1. Log!Init => LogAgreeing
  BY LogInit
<1>2. LogAgreeing /\ [Log!Next]_(Log!vars) => LogAgreeing'
  BY LogAgreeingNext
<1>3. LogAgreeing => Log!CacheAgrees
  BY DEF LogAgreeing
<1> QED
  BY <1>1, <1>2, <1>3, PTL DEF Log!Spec

\* The assertion of the look-up: a parent in the heap is older than its
\* children, so that what is evicted was not used for the longest time: as long
\* as the generations do not wrap around.
THEOREM LogOrdered ==
    ASSUME Log!LogAssumption, LogNarrow
    PROVE  Log!Spec => []Log!HeapOrder
<1>1. Log!Init => LogAged
  BY LogInit
<1>2. LogAged /\ [Log!Next]_(Log!vars) => LogAged'
  BY LogAgedNext
<1>3. LogAged => Log!HeapOrder
  BY DEF LogAged
<1> QED
  BY <1>1, <1>2, <1>3, PTL DEF Log!Spec

-----------------------------------------------------------------------------
\* The buffers of the receiving half of the SDIO slave.
CONSTANTS Buffers, RecvLiberties

VARIABLES list, owner, cur, running, enabled, raised, isr, at, busy, credit,
          ready

Recv == INSTANCE SdioRecv WITH Liberties <- RecvLiberties

\* The caller keeps to what the driver above it does.
RecvPlain == "flushAll" \notin RecvLiberties /\ "startFull" \notin RecvLiberties

\* Types of the list and of its pointers; no buffer is in the list twice.
RecvTypes ==
    /\ list \in Seq(Buffers)
    /\ \A m, n \in 1 .. Len(list) : list[m] = list[n] => m = n
    /\ owner \in [Buffers -> BOOLEAN]
    /\ {cur, at} \subseteq Buffers \cup {None}
    /\ {running, enabled, raised, isr, busy} \subseteq BOOLEAN

\* The first f buffers of the list are full, the others still to be filled.
RecvSplit(f) ==
    /\ f \in 0 .. Len(list)
    /\ \A n \in 1 .. Len(list) : owner[list[n]] <=> n > f

\* What is given back next and what the host has been told, of the full
\* buffers.
RecvCounted(f) ==
    /\ ready \in 0 .. f
    /\ cur = IF ready < Len(list) THEN list[ready + 1] ELSE None
    /\ ready < f => raised \/ isr
    /\ credit = Len(list) - f

\* What the DMA is on.
RecvFilling(f) ==
    running => /\ busy <=> f < Len(list)
               /\ f < Len(list) => at = list[f + 1]
               /\ Len(list) > 0 => enabled /\ at # None

\* f buffers are full.
RecvState(f) == RecvSplit(f) /\ RecvCounted(f) /\ RecvFilling(f)

\* The invariant.
RecvInv == RecvTypes /\ \E f \in 0 .. Len(list) : RecvState(f)

\* The last place and those before it.
LEMMA Order ==
    ASSUME NEW b \in Nat, NEW a \in 0 .. b
    PROVE  /\ a \in Nat /\ a <= b
           /\ a = b \/ a < b
           /\ a < b => /\ a # b /\ b > 0 /\ a + 1 \in 1 .. b
                       /\ a + 1 # b => a + 1 < b /\ a + 1 + 1 \in 1 .. b
OBVIOUS

\* The buffers still to be filled are what follows the full ones.
LEMMA RecvEmpty ==
    ASSUME RecvTypes, NEW f, RecvSplit(f)
    PROVE  /\ Recv!Empty(list, owner) =
                 IF f < Len(list) THEN SubSeq(list, f + 1, Len(list)) ELSE <<>>
           /\ Len(Recv!Empty(list, owner)) = Len(list) - f
           /\ Recv!Empty(list, owner) = <<>> <=> f = Len(list)
           /\ f < Len(list) => Head(Recv!Empty(list, owner)) = list[f + 1]
<1>0. /\ DOMAIN list = 1 .. Len(list) /\ Len(list) \in Nat
      /\ f \in Nat /\ f <= Len(list)
  BY DEF RecvTypes, RecvSplit
<1>1. CASE f = Len(list)
  <2>1. ~(\E n \in DOMAIN list : owner[list[n]])
    BY <1>0, <1>1 DEF RecvSplit
  <2>2. Recv!Empty(list, owner) = <<>>
    BY <2>1 DEF Recv!Empty
  <2> QED
    BY <2>2, <1>0, <1>1
<1>2. CASE f < Len(list)
  <2> DEFINE First(n) == owner[list[n]] /\ \A m \in 1 .. n - 1 : ~owner[list[m]]
             e == CHOOSE n \in DOMAIN list : First(n)
  <2>1. f + 1 \in DOMAIN list /\ owner[list[f + 1]]
    BY <1>0, <1>2 DEF RecvSplit
  <2>2. First(f + 1)
    BY <1>0, <1>2, <2>1 DEF RecvSplit
  <2>3. ASSUME NEW n \in DOMAIN list, First(n) PROVE n = f + 1
    <3>1. n > f /\ n \in Nat
      BY <1>0, <2>3 DEF RecvSplit
    <3>2. ~(n > f + 1)
      <4>1. SUFFICES ASSUME n > f + 1 PROVE FALSE
        OBVIOUS
      <4>2. f + 1 \in 1 .. n - 1
        BY <4>1, <1>0, <3>1
      <4> QED
        BY <4>2, <2>3, <2>1
    <3> QED
      BY <3>1, <3>2, <1>0
  <2> HIDE DEF First
  <2>4. e = f + 1
    BY <2>1, <2>2, <2>3, Zenon
  <2>5. Recv!Empty(list, owner) = SubSeq(list, e, Len(list))
    BY <2>1 DEF Recv!Empty, First
  <2> HIDE DEF e
  <2>6. Recv!Empty(list, owner) = SubSeq(list, f + 1, Len(list))
    BY <2>4, <2>5
  <2> DEFINE rest == SubSeq(list, f + 1, Len(list))
  <2>7. f + 1 \in 1 .. Len(list) /\ Len(list) \in f + 1 .. Len(list)
    BY <1>0, <1>2
  <2>8. Head(rest) = list[f + 1]
    BY <2>7, HeadTailOfSubSeq DEF RecvTypes
  <2>9. Len(rest) = Len(list) - f
    <3>1. \A i \in f + 1 .. Len(list) : list[i] \in Buffers
      BY <1>0 DEF RecvTypes
    <3>2. Len(rest) = IF f + 1 <= Len(list) THEN Len(list) - (f + 1) + 1 ELSE 0
      BY <2>7, <3>1, SubSeqProperties
    <3> HIDE DEF rest
    <3> QED
      BY <1>0, <2>7, <3>2
  <2> HIDE DEF rest
  <2>10. Len(<<>>) = 0 /\ Len(rest) # 0
    <3>1. \A a, b \in Nat : a < b => b - a # 0
      OBVIOUS
    <3> QED
      BY <1>0, <1>2, <2>9, <3>1
  <2>11. rest # <<>>
    BY <2>10
  <2>12. Recv!Empty(list, owner) = rest
    BY <2>6 DEF rest
  <2>13. f # Len(list)
    <3>1. \A a, b \in Nat : a < b => a # b
      OBVIOUS
    <3> QED
      BY <1>0, <1>2, <3>1
  <2> QED
    BY <1>2, <2>8, <2>9, <2>11, <2>12, <2>13, <2>6 DEF rest
<1>3. f = Len(list) \/ f < Len(list)
  <2>1. \A a, b \in Nat : a <= b => a = b \/ a < b
    OBVIOUS
  <2> QED
    BY <1>0, <2>1
<1> QED
  BY <1>1, <1>2, <1>3

\* The buffer after one in the list.
LEMMA RecvNextOf ==
    ASSUME RecvTypes, NEW n \in 1 .. Len(list)
    PROVE  Recv!NextOf(list, list[n]) =
              IF n = Len(list) THEN None ELSE list[n + 1]
<1> DEFINE e == CHOOSE m \in DOMAIN list : list[m] = list[n]
<1>1. DOMAIN list = 1 .. Len(list)
  BY DEF RecvTypes
<1>2. \A m \in DOMAIN list : list[m] = list[n] => m = n
  BY <1>1 DEF RecvTypes
<1>3. e = n
  BY <1>1, <1>2, Zenon
<1>4. Recv!NextOf(list, list[n]) = IF e = Len(list) THEN None ELSE list[e + 1]
  BY DEF Recv!NextOf
<1> HIDE DEF e
<1> QED
  BY <1>3, <1>4

\* An empty list.
LEMMA RecvInitInv == ASSUME Recv!RecvAssumption, Recv!Init PROVE RecvInv
<1>1. /\ list = <<>> /\ Len(list) = 0 /\ list \in Seq(Buffers)
      /\ \A n \in 1 .. Len(list) : FALSE
  BY DEF Recv!Init
<1>2. RecvTypes
  BY <1>1 DEF Recv!Init, RecvTypes
<1>3. RecvSplit(0) /\ RecvCounted(0) /\ RecvFilling(0)
  BY <1>1 DEF Recv!Init, RecvSplit, RecvCounted, RecvFilling
<1> QED
  BY <1>1, <1>2, <1>3 DEF RecvInv, RecvState

\* A buffer that is loaded is the last one to be filled.
LEMMA RecvLoad ==
    ASSUME Recv!RecvAssumption, RecvTypes, NEW f, RecvState(f),
           NEW b \in Buffers, Recv!LoadBuf(b)
    PROVE  RecvTypes' /\ RecvState(f)'
<1>0. /\ list \in Seq(Buffers) /\ Len(list) \in Nat /\ f \in 0 .. Len(list)
      /\ \A n \in 1 .. Len(list) : list[n] \in Buffers
      /\ DOMAIN list = 1 .. Len(list)
  BY DEF RecvTypes, RecvState, RecvSplit
<1>1. /\ Len(list') = Len(list) + 1 /\ list' \in Seq(Buffers)
      /\ \A n \in 1 .. Len(list) : list'[n] = list[n]
      /\ list'[Len(list) + 1] = b
  BY <1>0 DEF Recv!LoadBuf
<1>2. \A n \in 1 .. Len(list) : list[n] # b
  BY <1>0 DEF Recv!LoadBuf, Recv!Range
<1>3. owner' = [owner EXCEPT ![b] = TRUE]
  BY DEF Recv!LoadBuf
<1>4. /\ owner'[b] = TRUE
      /\ \A n \in 1 .. Len(list) : owner'[list[n]] = owner[list[n]]
  BY <1>0, <1>2, <1>3 DEF RecvTypes
<1>5. RecvTypes'
  <2>1. \A m, n \in 1 .. Len(list') : list'[m] = list'[n] => m = n
    BY <1>0, <1>1, <1>2 DEF RecvTypes
  <2>2. owner' \in [Buffers -> BOOLEAN]
    BY <1>3 DEF RecvTypes
  <2>3. {cur, at}' \subseteq Buffers \cup {None}
    BY DEF RecvTypes, Recv!LoadBuf, Recv!CurAfterLoad
  <2>4. {running, enabled, raised, isr, busy}' \subseteq BOOLEAN
    BY DEF RecvTypes, Recv!LoadBuf
  <2> QED
    BY <1>1, <2>1, <2>2, <2>3, <2>4 DEF RecvTypes
<1>6. RecvSplit(f)'
  BY <1>0, <1>1, <1>4 DEF RecvState, RecvSplit
<1>7. None # b /\ \A n \in 1 .. Len(list) : list[n] # None
  BY <1>0 DEF Recv!RecvAssumption
<1>8. RecvCounted(f)'
  <2>1. cur' = IF cur = None THEN b ELSE cur
    BY DEF Recv!LoadBuf, Recv!CurAfterLoad
  <2>2. UNCHANGED <<ready, raised, isr>> /\ credit' = credit + 1
    BY DEF Recv!LoadBuf
  <2>3. /\ ready \in 0 .. f /\ credit = Len(list) - f
        /\ cur = IF ready < Len(list) THEN list[ready + 1] ELSE None
    BY DEF RecvState, RecvCounted
  <2>4. cur' = IF ready < Len(list') THEN list'[ready + 1] ELSE None
    <3>1. CASE ready < Len(list)
      <4>1. ready + 1 \in 1 .. Len(list)
        BY <1>0, <2>3, <3>1
      <4> QED
        BY <1>0, <1>1, <1>7, <2>1, <2>3, <3>1, <4>1
    <3>2. CASE ready = Len(list)
      BY <1>0, <1>1, <2>1, <2>3, <3>2
    <3>3. ready < Len(list) \/ ready = Len(list)
      <4>1. \A i, j, k \in Nat : i <= j /\ j <= k => i < k \/ i = k
        OBVIOUS
      <4>2. ready \in Nat /\ f \in Nat /\ ready <= f /\ f <= Len(list)
        BY <1>0, <2>3
      <4> QED
        BY <1>0, <4>1, <4>2
    <3> QED
      BY <3>1, <3>2, <3>3
  <2> QED
    BY <1>0, <1>1, <2>2, <2>3, <2>4 DEF RecvState, RecvCounted
<1>9. RecvFilling(f)'
  <2>1. SUFFICES ASSUME running PROVE RecvFilling(f)'
    BY DEF Recv!LoadBuf, RecvFilling
  <2>2. /\ busy <=> f < Len(list)
        /\ f < Len(list) => at = list[f + 1]
        /\ Len(list) > 0 => enabled /\ at # None
    BY <2>1 DEF RecvState, RecvFilling
  <2>3. CASE list = <<>>
    <3>1. Len(list) = 0 /\ f = 0
      BY <1>0, <2>3
    <3> QED
      BY <1>1, <1>7, <2>3, <3>1 DEF Recv!LoadBuf, RecvFilling
  <2>4. CASE list # <<>>
    <3>1. Len(list) > 0
      BY <1>0, <2>4
    <3>2. enabled' /\ at # None /\ enabled
      BY <2>2, <2>4, <3>1 DEF Recv!LoadBuf
    <3>3. CASE busy
      <4>1. f < Len(list) /\ f + 1 \in 1 .. Len(list)
        BY <1>0, <2>2, <3>3
      <4>2. UNCHANGED <<at, busy>>
        BY <2>4, <3>3 DEF Recv!LoadBuf
      <4> QED
        BY <1>0, <1>1, <2>2, <3>2, <3>3, <4>1, <4>2 DEF RecvFilling
    <3>4. CASE ~busy
      <4>1. f = Len(list)
        <5>1. \A i, j \in Nat : i <= j /\ ~(i < j) => i = j
          OBVIOUS
        <5>2. f \in Nat /\ f <= Len(list) /\ ~(f < Len(list))
          BY <1>0, <2>2, <3>4
        <5> QED
          BY <1>0, <5>1, <5>2
      <4>2. at' = b /\ busy'
        BY <2>4, <3>2, <3>4 DEF Recv!LoadBuf
      <4> QED
        BY <1>0, <1>1, <1>7, <3>2, <4>1, <4>2 DEF RecvFilling
    <3> QED
      BY <3>3, <3>4
  <2> QED
    BY <2>3, <2>4
<1> QED
  BY <1>5, <1>6, <1>8, <1>9 DEF RecvState

\* The DMA has filled a buffer.
LEMMA RecvDmaDone ==
    ASSUME Recv!RecvAssumption, RecvTypes, NEW f, RecvState(f), Recv!DmaDone
    PROVE  RecvTypes' /\ f + 1 \in 0 .. Len(list) /\ RecvState(f + 1)'
<1>0. /\ list \in Seq(Buffers) /\ Len(list) \in Nat /\ f \in 0 .. Len(list)
      /\ \A n \in 1 .. Len(list) : list[n] \in Buffers
      /\ DOMAIN list = 1 .. Len(list)
  BY DEF RecvTypes, RecvState, RecvSplit
<1>1. /\ running /\ busy /\ f < Len(list) /\ at = list[f + 1]
      /\ enabled /\ at # None
  BY <1>0 DEF Recv!DmaDone, RecvState, RecvFilling
<1>2. f + 1 \in 1 .. Len(list) /\ f + 1 \in 0 .. Len(list)
  BY <1>0, <1>1
<1>3. /\ owner' = [owner EXCEPT ![at] = FALSE]
      /\ credit' = credit - 1 /\ raised' = TRUE
      /\ UNCHANGED <<isr, list, cur, running, enabled, ready>>
  BY DEF Recv!DmaDone
<1>4. /\ owner'[list[f + 1]] = FALSE
      /\ \A n \in 1 .. Len(list) : n # f + 1 => owner'[list[n]] = owner[list[n]]
  BY <1>0, <1>1, <1>2, <1>3 DEF RecvTypes
<1>5. IF f + 1 = Len(list) THEN busy' = FALSE /\ UNCHANGED at
                           ELSE at' = list[f + 1 + 1] /\ UNCHANGED busy
  <2>1. Recv!NextOf(list, at) =
            IF f + 1 = Len(list) THEN None ELSE list[f + 1 + 1]
    BY <1>0, <1>1, <1>2, RecvNextOf
  <2>2. f + 1 # Len(list) =>
            list[f + 1 + 1] \in Buffers /\ list[f + 1 + 1] # None
    <3>1. f + 1 # Len(list) => f + 1 + 1 \in 1 .. Len(list)
      BY <1>0, <1>1, Order
    <3> QED
      BY <1>0, <3>1 DEF Recv!RecvAssumption
  <2> QED
    BY <2>1, <2>2 DEF Recv!DmaDone
<1>10. f + 1 # Len(list) =>
           list[f + 1 + 1] \in Buffers /\ list[f + 1 + 1] # None
  <2>1. f + 1 # Len(list) => f + 1 + 1 \in 1 .. Len(list)
    BY <1>0, <1>1, Order
  <2> QED
    BY <1>0, <2>1 DEF Recv!RecvAssumption
<1>6. RecvTypes'
  <2>1. owner' \in [Buffers -> BOOLEAN]
    BY <1>3 DEF RecvTypes
  <2>2. at' \in Buffers \cup {None} /\ busy' \in BOOLEAN
    BY <1>5, <1>10 DEF RecvTypes
  <2> QED
    BY <1>3, <2>1, <2>2 DEF RecvTypes
<1>7. RecvSplit(f + 1)'
  <2>1. ASSUME NEW n \in 1 .. Len(list) PROVE owner'[list[n]] <=> n > f + 1
    <3>1. owner[list[n]] <=> n > f
      BY DEF RecvState, RecvSplit
    <3>2. CASE n = f + 1
      BY <1>0, <1>4, <3>2
    <3>3. CASE n # f + 1
      <4>1. n > f <=> n > f + 1
        BY <1>0, <3>3
      <4> QED
        BY <1>4, <3>1, <3>3, <4>1
    <3> QED
      BY <3>2, <3>3
  <2> QED
    BY <1>2, <1>3, <2>1 DEF RecvSplit
<1>8. RecvCounted(f + 1)'
  BY <1>0, <1>3 DEF RecvState, RecvCounted
<1>9. RecvFilling(f + 1)'
  <2>1. f + 1 = Len(list) => ~(f + 1 < Len(list))
    BY <1>0
  <2>2. f + 1 # Len(list) => f + 1 < Len(list)
    BY <1>0, <1>1, Order
  <2>3. busy' <=> f + 1 < Len(list)
    BY <1>1, <1>5, <2>1, <2>2
  <2>4. f + 1 < Len(list) => at' = list[f + 1 + 1]
    BY <1>5, <2>1
  <2>5. at' # None
    BY <1>1, <1>5, <1>10
  <2> QED
    BY <1>1, <1>3, <2>3, <2>4, <2>5 DEF RecvFilling
<1> QED
  BY <1>2, <1>6, <1>7, <1>8, <1>9 DEF RecvState

\* The handler has no buffer left before those to be filled.
LEMMA RecvHandler ==
    ASSUME Recv!RecvAssumption, RecvTypes, NEW f, RecvState(f),
           Recv!RecvDone \/ Recv!HasNextItem \/ Recv!Stop
    PROVE  RecvTypes' /\ RecvState(f)'
<1>0. /\ list \in Seq(Buffers) /\ Len(list) \in Nat /\ f \in 0 .. Len(list)
      /\ \A n \in 1 .. Len(list) : list[n] \in Buffers
  BY DEF RecvTypes, RecvState, RecvSplit
<1>1. CASE Recv!RecvDone
  BY <1>1 DEF Recv!RecvDone, RecvTypes, RecvState, RecvSplit, RecvCounted,
              RecvFilling
<1>2. CASE Recv!Stop
  BY <1>2 DEF Recv!Stop, RecvTypes, RecvState, RecvSplit, RecvCounted,
              RecvFilling
<1>3. CASE Recv!HasNextItem
  <2>1. /\ ready \in 0 .. f
        /\ cur = IF ready < Len(list) THEN list[ready + 1] ELSE None
        /\ \A n \in 1 .. Len(list) : owner[list[n]] <=> n > f
    BY DEF RecvState, RecvCounted, RecvSplit
  <2>2. Recv!HasNext <=> ready < f
    <3>1. CASE ready < Len(list)
      <4>1. ready + 1 \in 1 .. Len(list) /\ cur = list[ready + 1] /\ cur # None
        BY <1>0, <2>1, <3>1 DEF Recv!RecvAssumption
      <4>2. owner[cur] <=> ready + 1 > f
        BY <2>1, <4>1
      <4> QED
        BY <1>0, <2>1, <4>1, <4>2 DEF Recv!HasNext
    <3>2. CASE ready = Len(list)
      BY <1>0, <2>1, <3>2 DEF Recv!HasNext
    <3> QED
      BY <1>0, <2>1, <3>1, <3>2
  <2>3. /\ isr' <=> Recv!HasNext
        /\ isr' \in BOOLEAN
        /\ UNCHANGED <<list, owner, running, enabled, raised, at, busy, credit>>
    BY <1>3 DEF Recv!HasNextItem, Recv!AsksAgain, Recv!HasNext
  <2>4. CASE ready < f
    <3>1. cur' = Recv!NextOf(list, cur) /\ ready' = ready + 1
      BY <1>3, <2>2, <2>4 DEF Recv!HasNextItem
    <3>2. ready + 1 \in 1 .. Len(list) /\ cur = list[ready + 1]
      BY <1>0, <2>1, <2>4
    <3>3. cur' = IF ready + 1 = Len(list) THEN None ELSE list[ready + 2]
      BY <1>0, <2>1, <3>1, <3>2, RecvNextOf
    <3>4. cur' = IF ready' < Len(list) THEN list[ready' + 1] ELSE None
      BY <1>0, <2>1, <3>1, <3>2, <3>3
    <3>5. cur' \in Buffers \cup {None}
      BY <1>0, <2>1, <3>2, <3>3
    <3> QED
      BY <1>0, <2>1, <2>2, <2>3, <2>4, <3>1, <3>4, <3>5
         DEF RecvTypes, RecvState, RecvSplit, RecvCounted, RecvFilling
  <2>5. CASE ~(ready < f)
    <3>1. UNCHANGED <<cur, ready>>
      BY <1>3, <2>2, <2>5 DEF Recv!HasNextItem
    <3> QED
      BY <2>3, <2>5, <3>1
         DEF RecvTypes, RecvState, RecvSplit, RecvCounted, RecvFilling
  <2> QED
    BY <2>4, <2>5
<1> QED
  BY <1>1, <1>2, <1>3

\* The first full buffer is given back.
LEMMA RecvUnload ==
    ASSUME Recv!RecvAssumption, RecvTypes, NEW f, RecvState(f), Recv!UnloadDesc
    PROVE  RecvTypes' /\ f - 1 \in 0 .. Len(list') /\ RecvState(f - 1)'
<1>0. /\ list \in Seq(Buffers) /\ Len(list) \in Nat /\ f \in 0 .. Len(list)
      /\ list # <<>> /\ ready \in 0 .. f /\ ready > 0
      /\ UNCHANGED <<isr, owner, cur, running, enabled, raised, at, busy,
                     credit>>
      /\ ready' = ready - 1
  BY DEF RecvTypes, RecvState, RecvSplit, RecvCounted, Recv!UnloadDesc
<1>1. /\ list' \in Seq(Buffers) /\ Len(list') = Len(list) - 1
      /\ \A n \in 1 .. Len(list') :
            list'[n] = list[n + 1] /\ n + 1 \in 1 .. Len(list)
      /\ f \in 1 .. Len(list)
  BY <1>0 DEF Recv!UnloadDesc
<1>2. f - 1 \in 0 .. Len(list')
  BY <1>0, <1>1
<1>3. RecvTypes'
  <2>1. \A m, n \in 1 .. Len(list') : list'[m] = list'[n] => m = n
    BY <1>0, <1>1 DEF RecvTypes
  <2> QED
    BY <1>0, <1>1, <2>1 DEF RecvTypes
<1>4. RecvSplit(f - 1)'
  <2>1. \A n \in 1 .. Len(list) : owner[list[n]] <=> n > f
    BY DEF RecvState, RecvSplit
  <2>2. ASSUME NEW n \in 1 .. Len(list')
        PROVE  owner'[list'[n]] <=> n > f - 1
    <3>1. owner'[list'[n]] = owner[list[n + 1]]
      BY <1>0, <1>1
    <3>2. owner[list[n + 1]] <=> n + 1 > f
      BY <1>1, <2>1
    <3>3. n \in Nat /\ (n + 1 > f <=> n > f - 1)
      BY <1>0, <1>1
    <3> QED
      BY <3>1, <3>2, <3>3
  <2> QED
    BY <1>2, <2>2 DEF RecvSplit
<1>5. RecvCounted(f - 1)'
  <2>1. ready' \in 0 .. f - 1 /\ credit' = Len(list') - (f - 1)
    BY <1>0, <1>1 DEF RecvState, RecvCounted
  <2>2. cur = IF ready < Len(list) THEN list[ready + 1] ELSE None
    BY DEF RecvState, RecvCounted
  <2>3. ready' < Len(list') => list'[ready' + 1] = list[ready + 1]
    BY <1>0, <1>1
  <2>4. ready' < Len(list') <=> ready < Len(list)
    BY <1>0, <1>1
  <2>5. cur' = IF ready' < Len(list') THEN list'[ready' + 1] ELSE None
    BY <1>0, <2>2, <2>3, <2>4
  <2>6. ready' < f - 1 => raised' \/ isr'
    BY <1>0, <1>1 DEF RecvState, RecvCounted
  <2> QED
    BY <2>1, <2>5, <2>6 DEF RecvCounted
<1>6. RecvFilling(f - 1)'
  <2>1. f < Len(list) <=> f - 1 < Len(list')
    BY <1>0, <1>1
  <2>2. f < Len(list) => list'[f - 1 + 1] = list[f + 1]
    BY <1>0, <1>1
  <2>3. Len(list) > 0
    BY <1>0
  <2> QED
    BY <1>0, <2>1, <2>2, <2>3 DEF RecvState, RecvFilling
<1> QED
  BY <1>2, <1>3, <1>4, <1>5, <1>6 DEF RecvState

\* The DMA stops, or starts at the first buffer to be filled.
LEMMA RecvStart ==
    ASSUME Recv!RecvAssumption, RecvPlain, RecvTypes, NEW f, RecvState(f),
           Recv!Start \/ Recv!ResetCounter
    PROVE  RecvTypes' /\ RecvState(f)'
<1>0. /\ list \in Seq(Buffers) /\ Len(list) \in Nat /\ f \in 0 .. Len(list)
      /\ \A n \in 1 .. Len(list) : list[n] \in Buffers
      /\ RecvSplit(f)
  BY DEF RecvTypes, RecvState, RecvSplit
<1>1. /\ Len(Recv!Empty(list, owner)) = Len(list) - f
      /\ Recv!Empty(list, owner) = <<>> <=> f = Len(list)
      /\ f < Len(list) => Head(Recv!Empty(list, owner)) = list[f + 1]
  BY <1>0, RecvEmpty
<1>2. CASE Recv!ResetCounter
  <2>1. /\ ~running /\ credit' = Len(list) - f
        /\ UNCHANGED <<list, owner, cur, running, enabled, raised, isr, at,
                       busy, ready>>
    BY <1>1, <1>2 DEF Recv!ResetCounter
  <2> QED
    BY <2>1 DEF RecvTypes, RecvState, RecvSplit, RecvCounted, RecvFilling
<1>3. CASE Recv!Start
  <2>1. /\ running' = TRUE
        /\ UNCHANGED <<isr, list, owner, cur, raised, credit, ready>>
        /\ list # <<>> => f # Len(list)
    BY <1>1, <1>3 DEF Recv!Start, RecvPlain
  <2>2. CASE f = Len(list)
    <3>1. list = <<>> /\ Len(list) = 0
      BY <2>1, <2>2
    <3>2. at' = None /\ busy' = FALSE /\ UNCHANGED enabled
      BY <1>1, <1>3, <2>2 DEF Recv!Start
    <3>3. RecvFilling(f)'
      BY <2>1, <2>2, <3>1, <3>2 DEF RecvFilling
    <3>4. RecvTypes'
      BY <2>1, <3>2 DEF RecvTypes
    <3>5. RecvSplit(f)' /\ RecvCounted(f)'
      BY <2>1 DEF RecvState, RecvSplit, RecvCounted
    <3> QED
      BY <3>3, <3>4, <3>5 DEF RecvState
  <2>3. CASE f < Len(list)
    <3>1. at' = list[f + 1] /\ busy' = TRUE /\ enabled' = TRUE
      BY <1>0, <1>1, <1>3, <2>3 DEF Recv!Start
    <3>2. list[f + 1] \in Buffers /\ list[f + 1] # None
      BY <1>0, <2>3 DEF Recv!RecvAssumption
    <3> QED
      BY <2>1, <2>3, <3>1, <3>2
         DEF RecvTypes, RecvState, RecvSplit, RecvCounted, RecvFilling
  <2> QED
    BY <1>0, <2>2, <2>3
<1> QED
  BY <1>2, <1>3

\* What is to be filled is given back to the caller.
LEMMA RecvFlush ==
    ASSUME Recv!RecvAssumption, RecvPlain, RecvTypes, NEW f, RecvState(f),
           Recv!FlushOneBuffer
    PROVE  RecvTypes' /\ f - 1 \in 0 .. Len(list') /\ RecvState(f - 1)'
<1>0. /\ list \in Seq(Buffers) /\ Len(list) \in Nat /\ f \in 0 .. Len(list)
      /\ ready \in 0 .. f /\ ready > 0 /\ ~running
      /\ UNCHANGED <<isr, cur, running, enabled, raised, at, busy>>
      /\ ready' = ready - 1 /\ credit' = credit + 1 /\ cur # None
  BY DEF RecvTypes, RecvState, RecvSplit, RecvCounted, Recv!FlushOneBuffer,
         Recv!CreditAfterFlush, RecvPlain
<1>1. /\ f \in 1 .. Len(list) /\ ready < Len(list) /\ cur = list[ready + 1]
      /\ ready + 1 \in 1 .. Len(list)
  BY <1>0 DEF RecvState, RecvCounted
<1>2. /\ list # <<>> /\ Head(list) = list[1] /\ list[1] \in Buffers
      /\ Tail(list) \in Seq(Buffers) /\ Len(Tail(list)) = Len(list) - 1
      /\ \A n \in 1 .. Len(list) - 1 : Tail(list)[n] = list[n + 1]
  BY <1>0, <1>1
<1>3. /\ list' = Append(Tail(list), list[1])
      /\ owner' = [owner EXCEPT ![list[1]] = TRUE]
  BY <1>2 DEF Recv!FlushOneBuffer
<1>4. /\ list' \in Seq(Buffers) /\ Len(list') = Len(list)
      /\ \A n \in 1 .. Len(list) - 1 : list'[n] = list[n + 1]
      /\ list'[Len(list)] = list[1]
  BY <1>0, <1>1, <1>2, <1>3
<1>5. \A n \in 1 .. Len(list) - 1 :
          n + 1 \in 1 .. Len(list) /\ list[n + 1] # list[1]
  BY <1>0, <1>1 DEF RecvTypes
<1>6. /\ owner'[list[1]] = TRUE
      /\ \A n \in 1 .. Len(list) - 1 : owner'[list[n + 1]] = owner[list[n + 1]]
  <2>1. owner'[list[1]] = TRUE
    BY <1>2, <1>3 DEF RecvTypes
  <2>2. \A n \in 1 .. Len(list) - 1 : list[n + 1] \in Buffers
    BY <1>5 DEF RecvTypes
  <2> QED
    BY <1>3, <1>5, <2>1, <2>2 DEF RecvTypes
<1>7. RecvTypes'
  <2>1. \A m, n \in 1 .. Len(list') : list'[m] = list'[n] => m = n
    BY <1>0, <1>1, <1>4, <1>5 DEF RecvTypes
  <2>2. owner' \in [Buffers -> BOOLEAN]
    BY <1>3 DEF RecvTypes
  <2> QED
    BY <1>0, <1>4, <2>1, <2>2 DEF RecvTypes
<1>8. f - 1 \in 0 .. Len(list')
  BY <1>1, <1>4
<1>9. RecvSplit(f - 1)'
  <2>1. ASSUME NEW n \in 1 .. Len(list) PROVE owner'[list'[n]] <=> n > f - 1
    <3>1. CASE n = Len(list)
      BY <1>1, <1>4, <1>6, <3>1
    <3>2. CASE n # Len(list)
      <4>1. n \in 1 .. Len(list) - 1
        BY <3>2, <1>0
      <4>2. owner'[list'[n]] <=> n + 1 > f
        BY <4>1, <1>4, <1>5, <1>6 DEF RecvState, RecvSplit
      <4> QED
        BY <4>1, <4>2, <1>0
    <3> QED
      BY <3>1, <3>2
  <2> QED
    BY <1>4, <1>8, <2>1 DEF RecvSplit
<1>10. RecvCounted(f - 1)'
  <2>1. ready' \in 0 .. f - 1 /\ credit' = Len(list') - (f - 1)
    BY <1>0, <1>4 DEF RecvState, RecvCounted
  <2>2. /\ ready' < Len(list') /\ ready' + 1 = ready
        /\ ready \in 1 .. Len(list) - 1
    BY <1>0, <1>1, <1>4
  <2>3. cur' = list'[ready' + 1]
    BY <1>0, <1>1, <1>4, <2>2
  <2>4. ready' < f - 1 => raised' \/ isr'
    BY <1>0, <1>1 DEF RecvState, RecvCounted
  <2> QED
    BY <2>1, <2>2, <2>3, <2>4 DEF RecvCounted
<1>11. RecvFilling(f - 1)'
  BY <1>0 DEF RecvFilling
<1> QED
  BY <1>7, <1>8, <1>9, <1>10, <1>11 DEF RecvState

\* Each step preserves the invariant.
LEMMA RecvNextInv ==
    ASSUME Recv!RecvAssumption, RecvPlain, RecvInv, [Recv!Next]_(Recv!vars)
    PROVE  RecvInv'
<1> PICK f \in 0 .. Len(list) : RecvState(f)
  BY DEF RecvInv
<1>0. RecvTypes
  BY DEF RecvInv
<1>1. CASE UNCHANGED Recv!vars
  BY <1>1 DEF Recv!vars, RecvInv, RecvTypes, RecvState, RecvSplit, RecvCounted,
              RecvFilling
<1>2. ASSUME RecvTypes', NEW g, RecvState(g)' PROVE RecvInv'
  <2>1. g \in 0 .. Len(list')
    BY <1>2 DEF RecvState, RecvSplit
  <2> QED
    BY <1>2, <2>1 DEF RecvInv
<1>3. ASSUME NEW b \in Buffers, Recv!LoadBuf(b) PROVE RecvInv'
  BY <1>0, <1>2, <1>3, RecvLoad
<1>4. CASE Recv!DmaDone
  BY <1>0, <1>2, <1>4, RecvDmaDone
<1>5. CASE Recv!RecvDone \/ Recv!HasNextItem \/ Recv!Stop
  BY <1>0, <1>2, <1>5, RecvHandler
<1>6. CASE Recv!UnloadDesc
  BY <1>0, <1>2, <1>6, RecvUnload
<1>7. CASE Recv!Start \/ Recv!ResetCounter
  BY <1>0, <1>2, <1>7, RecvStart
<1>8. CASE Recv!FlushOneBuffer
  BY <1>0, <1>2, <1>8, RecvFlush
<1> QED
  BY <1>1, <1>3, <1>4, <1>5, <1>6, <1>7, <1>8 DEF Recv!Next

\* The size of an interval.
LEMMA Interval ==
    ASSUME NEW m \in Nat, NEW n \in Nat, m <= n
    PROVE  IsFiniteSet(m + 1 .. n) /\ Cardinality(m + 1 .. n) = n - m
<1> DEFINE c == Cardinality(m + 1 .. n)
<1>1. m + 1 \in Int /\ n \in Int
  OBVIOUS
<1>2. IsFiniteSet(m + 1 .. n) /\ c = IF m + 1 > n THEN 0 ELSE n - (m + 1) + 1
  BY <1>1, FS_Interval
<1> HIDE DEF c
<1>3. c = n - m
  BY <1>2
<1> QED
  BY <1>2, <1>3 DEF c

\* The instance's finite sets are those of the library.
LEMMA RecvLibrary ==
    \A S : /\ Recv!IsFiniteSet(S) = IsFiniteSet(S)
           /\ Recv!Cardinality(S) = Cardinality(S)
BY DEF Recv!IsFiniteSet, Recv!Cardinality, IsFiniteSet, Cardinality

\* What the invariant says of what the run checks.
LEMMA RecvImplied ==
    ASSUME Recv!RecvAssumption, RecvInv
    PROVE  /\ Recv!TypeOK
           /\ Recv!ReturnedInOrder
           /\ Recv!NothingForgotten
           /\ Recv!CounterExact
<1> PICK f \in 0 .. Len(list) : RecvState(f)
  BY DEF RecvInv
<1>0. /\ RecvTypes /\ DOMAIN list = 1 .. Len(list) /\ Len(list) \in Nat
      /\ \A n \in 1 .. Len(list) : list[n] \in Buffers
      /\ RecvSplit(f) /\ RecvCounted(f)
  BY DEF RecvInv, RecvTypes, RecvState
<1>1. Recv!TypeOK
  <2>1. IsFiniteSet(1 .. Len(list)) /\ Cardinality(1 .. Len(list)) = Len(list)
    BY <1>0, Interval
  <2>2. IsFiniteSet(Buffers) /\ None \notin Buffers
    BY RecvLibrary DEF Recv!RecvAssumption
  <2>3. Cardinality(Buffers) \in Nat
    BY <2>2, FS_CardinalityType
  <2>4. Len(list) <= Cardinality(Buffers)
    <3> DEFINE S == {list[n] : n \in 1 .. Len(list)}
    <3>1. S \subseteq Buffers
      BY <1>0
    <3>2. IsFiniteSet(S) /\ Cardinality(S) <= Cardinality(Buffers)
      BY <3>1, <2>2, FS_Subset
    <3>3. [n \in 1 .. Len(list) |-> list[n]] \in Bijection(1 .. Len(list), S)
      BY <1>0 DEF RecvTypes, Bijection, Injection, Surjection, IsInjective
    <3>4. ExistsBijection(1 .. Len(list), S)
      BY <3>3 DEF ExistsBijection
    <3>5. Cardinality(S) = Len(list)
      BY <3>4, <2>1, <3>2, FS_Bijection
    <3> QED
      BY <3>2, <3>5
  <2>5. /\ credit \in 0 .. Cardinality(Buffers)
        /\ ready \in 0 .. Cardinality(Buffers)
    BY <1>0, <2>3, <2>4 DEF RecvCounted
  <2> QED
    BY <1>0, <2>5, RecvLibrary DEF Recv!TypeOK, RecvTypes, Recv!IsInjective
<1>2. Recv!ReturnedInOrder
  BY <1>0 DEF Recv!ReturnedInOrder, RecvSplit, RecvCounted
<1>3. Recv!NothingForgotten
  <2>1. /\ Recv!Empty(list, owner) = <<>> <=> f = Len(list)
        /\ f < Len(list) => Head(Recv!Empty(list, owner)) = list[f + 1]
    BY <1>0, RecvEmpty
  <2>2. running /\ Recv!Empty(list, owner) # <<>> =>
          busy /\ enabled /\ at = Head(Recv!Empty(list, owner))
    <3>1. f # Len(list) => f < Len(list) /\ Len(list) > 0
      BY <1>0, Order
    <3> QED
      BY <1>0, <2>1, <3>1 DEF RecvState, RecvFilling
  <2>3. Recv!HasNext => ready < f
    BY <1>0 DEF Recv!HasNext, RecvCounted, RecvSplit
  <2> QED
    BY <1>0, <2>2, <2>3 DEF Recv!NothingForgotten, RecvCounted
<1>4. Recv!CounterExact
  <2>1. {n \in DOMAIN list : owner[list[n]]} = f + 1 .. Len(list)
    BY <1>0 DEF RecvSplit
  <2>2. Cardinality(f + 1 .. Len(list)) = Len(list) - f
    BY <1>0, Interval
  <2> QED
    BY <1>0, <2>1, <2>2, RecvLibrary DEF Recv!CounterExact, RecvCounted
<1> QED
  BY <1>1, <1>2, <1>3, <1>4

\* The invariant holds.
LEMMA RecvInvariance ==
    ASSUME Recv!RecvAssumption, RecvPlain
    PROVE  Recv!Spec => []RecvInv
<1>1. Recv!Init => RecvInv
  BY RecvInitInv
<1>2. RecvInv /\ [Recv!Next]_(Recv!vars) => RecvInv'
  BY RecvNextInv
<1> QED
  BY <1>1, <1>2, PTL DEF Recv!Spec

\* Buffers are given back in the order they were loaded in and none before it is
\* full, the DMA is on the first that is to be filled, and the host has been
\* told of as many as there are to be filled: over loads, flushes, stops and
\* starts.
THEOREM RecvInOrder ==
    ASSUME Recv!RecvAssumption, RecvPlain
    PROVE  Recv!Spec => [](/\ Recv!TypeOK
                           /\ Recv!ReturnedInOrder
                           /\ Recv!NothingForgotten
                           /\ Recv!CounterExact)
<1>1. RecvInv => /\ Recv!TypeOK
                 /\ Recv!ReturnedInOrder
                 /\ Recv!NothingForgotten
                 /\ Recv!CounterExact
  BY RecvImplied
<1> QED
  BY <1>1, RecvInvariance, PTL

-----------------------------------------------------------------------------
\* The remainder, less than twice around.
LEMMA Remainder ==
    ASSUME NEW C \in Nat \ {0}, NEW x \in 0 .. 2 * C - 1
    PROVE  x % C = IF x < C THEN x ELSE x - C
OBVIOUS

\* f is what a link leads to, place after place, from a start.
Follows(f, C, start, links) ==
    f = [n \in 0 .. C |-> IF n = 0 THEN start
                          ELSE IF f[n - 1] = None THEN None
                          ELSE links[f[n - 1]]]

\* There is one such sequence.
LEMMA FollowsOne ==
    ASSUME NEW C \in Nat, NEW start, NEW links, NEW f, NEW g,
           Follows(f, C, start, links), Follows(g, C, start, links)
    PROVE  f = g
<1> DEFINE S == {n \in Nat : n <= C => f[n] = g[n]}
<1>1. /\ f[0] = start /\ g[0] = start
      /\ \A n \in 0 .. C : n # 0 =>
            /\ f[n] = IF f[n - 1] = None THEN None ELSE links[f[n - 1]]
            /\ g[n] = IF g[n - 1] = None THEN None ELSE links[g[n - 1]]
  <2>1. /\ f[0] = start
        /\ \A n \in 0 .. C : n # 0 =>
              f[n] = IF f[n - 1] = None THEN None ELSE links[f[n - 1]]
    BY DEF Follows
  <2>2. /\ g[0] = start
        /\ \A n \in 0 .. C : n # 0 =>
              g[n] = IF g[n - 1] = None THEN None ELSE links[g[n - 1]]
    BY DEF Follows
  <2> QED
    BY <2>1, <2>2
<1>2. 0 \in S
  BY <1>1
<1>3. ASSUME NEW n \in Nat, n \in S PROVE n + 1 \in S
  <2>1. SUFFICES ASSUME n + 1 <= C PROVE f[n + 1] = g[n + 1]
    OBVIOUS
  <2>2. n <= C /\ n + 1 \in 0 .. C /\ n + 1 # 0 /\ n + 1 - 1 = n
    BY <2>1
  <2>3. f[n] = g[n]
    BY <1>3, <2>2
  <2> QED
    BY <1>1, <2>2, <2>3
<1>4. Nat \subseteq S
  BY <1>2, <1>3, Induct
<1>5. \A n \in 0 .. C : f[n] = g[n]
  BY <1>4
<1>6. /\ f = [n \in 0 .. C |-> f[n]]
      /\ g = [n \in 0 .. C |-> g[n]]
  BY Zenon DEF Follows
<1> QED
  BY <1>5, <1>6

-----------------------------------------------------------------------------
\* The chain of the SPI slave in half duplex.
CONSTANTS Count, Transfers, SpiLiberties

VARIABLES next, arg, use, tail, head, started, unrecycled, append, onto, on,
          eof, out

Spi == INSTANCE SpiAppend WITH
    Liberties <- SpiLiberties, cur <- use, at <- onto, busy <- on

\* The caller keeps a descriptor back, and asks when something has ended.
SpiPlain == "full" \notin SpiLiberties /\ "early" \notin SpiLiberties

\* The descriptor i places before the last one linked.
SpiBack(i) == IF i <= tail THEN tail - i ELSE tail + Count - i

\* The n-th of L descriptors linked after the one given back last.
SpiPlace(L, n) == IF n = 0 THEN head ELSE SpiBack(L - n)

\* L descriptors are linked to the one given back last, in the order of the
\* ring.
SpiLinked(L) ==
    /\ L \in 0 .. Count - 1
    /\ tail \in Spi!Slots
    /\ IF head = Spi!Dummy THEN L > 0 ELSE head = SpiBack(L)
    /\ \A n \in 0 .. L : n < L => next[SpiPlace(L, n)] = SpiPlace(L, n + 1)
    /\ next[tail] = None

\* What the counter and the next descriptor are, before and after they are
\* advanced.
SpiCounted(L) ==
    IF append \in {"restart", "count"}
    THEN use = tail /\ unrecycled = L - 1
    ELSE /\ use = Spi!Succ(tail) /\ unrecycled = L
         /\ append = "link" =>
               L < Count - 1 /\ next[use] = None /\ arg[use] \in Transfers

\* E of the L have ended, which is where the DMA and its address register are.
SpiDone(L, E) ==
    /\ E \in 0 .. L
    /\ eof = None => E = 0 /\ on
    /\ eof # None => eof = SpiPlace(L, E)
    /\ IF on THEN E < L /\ onto = SpiPlace(L, E + 1)
       ELSE /\ onto = SpiPlace(L, E)
            /\ E < L => append = "restart" /\ E = L - 1

\* The state of a chain the DMA was started on.
SpiStarted(L, E) == started /\ SpiLinked(L) /\ SpiCounted(L) /\ SpiDone(L, E)

\* The state before that.
SpiIdle ==
    /\ ~started
    /\ append \in {"out", "link"}
    /\ use = 0 /\ head = Spi!Dummy /\ next[Spi!Dummy] = 0 /\ unrecycled = 0
    /\ ~on /\ eof = None
    /\ append = "link" => /\ next[0] = None /\ arg[0] \in Transfers
                          /\ Count > 1

\* The invariant.
SpiInv ==
    /\ Spi!TypeOK
    /\ \/ SpiIdle
       \/ \E L, E \in 0 .. Count - 1 : SpiStarted(L, E)

\* The descriptors and their order.
LEMMA SpiSlots ==
    ASSUME Spi!SpiAssumption
    PROVE  /\ Count \in Nat \ {0}
           /\ 0 \in Spi!Slots /\ Spi!Dummy \notin Spi!Slots
           /\ None # Spi!Dummy /\ None \notin Spi!Slots
           /\ \A i \in Spi!Slots : i \in Nat /\ i < Count
           /\ \A i \in Spi!Slots :
                 Spi!Succ(i) = IF i = Count - 1 THEN 0 ELSE i + 1
           /\ \A i \in Spi!Slots : Spi!Succ(i) \in Spi!Slots
<1>1. Count \in Nat \ {0} /\ None \notin 0 .. Count
  BY DEF Spi!SpiAssumption
<1>2. ASSUME NEW i \in Spi!Slots
      PROVE  Spi!Succ(i) = IF i = Count - 1 THEN 0 ELSE i + 1
  <2>1. i + 1 \in 0 .. 2 * Count - 1 /\ i \in 0 .. Count - 1
    BY <1>1, <1>2 DEF Spi!Slots
  <2> DEFINE x == i + 1
  <2>2. x \in 0 .. 2 * Count - 1
    BY <2>1
  <2> HIDE DEF x
  <2>3. x % Count = IF x < Count THEN x ELSE x - Count
    BY <1>1, <2>2, Remainder
  <2> QED
    BY <1>1, <2>1, <2>3 DEF Spi!Succ, x
<1> QED
  BY <1>1, <1>2 DEF Spi!Slots, Spi!Dummy

\* The places of a chain.
LEMMA SpiPlaces ==
    ASSUME Spi!SpiAssumption, NEW L \in 0 .. Count - 1, tail \in Spi!Slots,
           IF head = Spi!Dummy THEN L > 0 ELSE head = SpiBack(L)
    PROVE  /\ SpiPlace(L, 0) = head
           /\ \A n \in 1 .. L : SpiPlace(L, n) \in Spi!Slots
           /\ head \in Spi!Slots \cup {Spi!Dummy}
           /\ SpiPlace(L, L) = tail
           /\ \A m, n \in 0 .. L : SpiPlace(L, m) = SpiPlace(L, n) => m = n
           /\ L < Count - 1 =>
                \A n \in 0 .. L : SpiPlace(L, n) # Spi!Succ(tail)
<1>1. /\ Count \in Nat /\ Count > 0 /\ tail \in Nat /\ tail < Count
      /\ Spi!Dummy \notin Spi!Slots
      /\ Spi!Succ(tail) \in Spi!Slots
      /\ Spi!Succ(tail) = IF tail = Count - 1 THEN 0 ELSE tail + 1
  BY SpiSlots
<1>2. \A i \in 0 .. Count - 1 : SpiBack(i) \in Nat /\ SpiBack(i) < Count
  BY <1>1 DEF SpiBack
<1>3. \A i \in 0 .. Count - 1 : SpiBack(i) \in Spi!Slots
  BY <1>1, <1>2 DEF Spi!Slots
<1>4. \A i, j \in 0 .. Count - 1 : SpiBack(i) = SpiBack(j) => i = j
  BY <1>1 DEF SpiBack
<1>5. \A i \in 0 .. Count - 1 : i < Count - 1 => SpiBack(i) # Spi!Succ(tail)
  BY <1>1 DEF SpiBack
<1>6. SpiBack(0) = tail
  BY <1>1 DEF SpiBack
<1>7. \A n \in 1 .. L : L - n \in 0 .. Count - 1 /\ L - n < L
  BY <1>1
<1>8. \A n \in 0 .. L : n # 0 => n \in 1 .. L /\ SpiPlace(L, n) = SpiBack(L - n)
  BY DEF SpiPlace
<1>9. SpiPlace(L, 0) = head
  BY DEF SpiPlace
<1>10. \A n \in 1 .. L : SpiPlace(L, n) \in Spi!Slots
  BY <1>3, <1>7, <1>8
<1>11. head \in Spi!Slots \cup {Spi!Dummy}
  BY <1>3
<1>12. SpiPlace(L, L) = tail
  BY <1>6, <1>9, <1>1 DEF SpiPlace
<1>13. ASSUME NEW m \in 0 .. L, NEW n \in 0 .. L,
              SpiPlace(L, m) = SpiPlace(L, n)
       PROVE  m = n
  <2>1. CASE m = 0 /\ n = 0
    BY <2>1
  <2>2. CASE m # 0 /\ n # 0
    <3>1. SpiBack(L - m) = SpiBack(L - n)
      BY <1>8, <1>13, <2>2
    <3>2. L - m = L - n
      BY <1>4, <1>7, <1>8, <2>2, <3>1
    <3> QED
      BY <3>2
  <2>3. ASSUME NEW k \in 1 .. L, head = SpiPlace(L, k) PROVE FALSE
    <3>1. head # Spi!Dummy
      BY <1>1, <1>10, <2>3
    <3>2. SpiBack(L) = SpiBack(L - k)
      BY <1>8, <2>3, <3>1
    <3>3. L = L - k
      BY <1>4, <1>7, <3>2
    <3> QED
      BY <3>3
  <2> QED
    BY <1>8, <1>9, <1>13, <2>1, <2>2, <2>3
<1>14. ASSUME L < Count - 1, NEW n \in 0 .. L
       PROVE  SpiPlace(L, n) # Spi!Succ(tail)
  <2>1. CASE n = 0
    BY <1>1, <1>5, <1>9, <1>14, <2>1
  <2>2. CASE n # 0
    <3>1. L - n \in 0 .. Count - 1 /\ L - n < Count - 1
      BY <1>1, <1>14, <2>2
    <3> QED
      BY <1>5, <1>8, <2>2, <3>1
  <2> QED
    BY <2>1, <2>2
<1> QED
  BY <1>9, <1>10, <1>11, <1>12, <1>13, <1>14

\* The instance's finite sets are those of the library.
LEMMA SpiLibrary ==
    \A S : /\ Spi!IsFiniteSet(S) = IsFiniteSet(S)
           /\ Spi!Cardinality(S) = Cardinality(S)
BY DEF Spi!IsFiniteSet, Spi!Cardinality, IsFiniteSet, Cardinality

\* The queue that the chain stands for.
SpiQueue == [n \in DOMAIN Spi!Chain |-> arg[Spi!Chain[n]]]

\* Chain, whose links are followed one by one, is the L descriptors, and Ended
\* is E.
SpiShown ==
    \A L, E : Spi!TypeOK /\ SpiStarted(L, E) =>
        /\ Spi!Chain = [n \in 1 .. L |-> SpiPlace(L, n)]
        /\ SpiQueue = [n \in 1 .. L |-> arg[SpiPlace(L, n)]]
        /\ Spi!Ended = E

\* It is, in each state,
LEMMA SpiChain == ASSUME Spi!SpiAssumption PROVE SpiShown
<1> SUFFICES ASSUME Spi!TypeOK, NEW L, NEW E, SpiStarted(L, E)
             PROVE  /\ Spi!Chain = [n \in 1 .. L |-> SpiPlace(L, n)]
                    /\ SpiQueue = [n \in 1 .. L |-> arg[SpiPlace(L, n)]]
                    /\ Spi!Ended = E
  BY DEF SpiShown
<1>0. /\ L \in 0 .. Count - 1 /\ L \in Nat /\ E \in 0 .. L /\ started
      /\ \A n \in 0 .. L : n < L => next[SpiPlace(L, n)] = SpiPlace(L, n + 1)
      /\ next[SpiPlace(L, L)] = None
      /\ SpiPlace(L, 0) = head
      /\ \A n \in 1 .. L : SpiPlace(L, n) \in Spi!Slots
      /\ head \in Spi!Slots \cup {Spi!Dummy}
      /\ \A m, n \in 0 .. L : SpiPlace(L, m) = SpiPlace(L, n) => m = n
  BY SpiPlaces DEF SpiStarted, SpiLinked, SpiDone
<1>1. /\ Count \in Nat /\ None # Spi!Dummy /\ None \notin Spi!Slots
  BY SpiSlots
<1>2. \A n \in 0 .. L : SpiPlace(L, n) # None
  <2>1. \A n \in 0 .. L : n = 0 \/ n \in 1 .. L
    BY <1>0
  <2> QED
    BY <1>0, <1>1, <2>1
<1> DEFINE Is(f) == f = [n \in 0 .. Count |->
                           IF n = 0 THEN head
                           ELSE IF f[n - 1] = None THEN None
                           ELSE next[f[n - 1]]]
           g == [n \in 0 .. Count |-> IF n <= L THEN SpiPlace(L, n) ELSE None]
<1>3. Follows(g, Count, head, next)
  <2> DEFINE h == [n \in 0 .. Count |->
                           IF n = 0 THEN head
                           ELSE IF g[n - 1] = None THEN None
                           ELSE next[g[n - 1]]]
  <2>1. ASSUME NEW n \in 0 .. Count PROVE g[n] = h[n]
    <3>1. CASE n = 0
      BY <1>0, <1>1, <3>1
    <3>2. CASE n # 0 /\ n <= L
      <4>1. /\ n - 1 \in 0 .. L /\ n - 1 < L
            /\ n - 1 + 1 = n /\ n - 1 \in 0 .. Count
        BY <3>2, <1>0, <1>1
      <4>2. g[n - 1] = SpiPlace(L, n - 1) /\ g[n - 1] # None
        BY <4>1, <1>2
      <4>3. next[g[n - 1]] = SpiPlace(L, n)
        BY <4>1, <4>2, <1>0
      <4> QED
        BY <3>2, <4>2, <4>3
    <3>3. CASE n = L + 1
      <4>1. n - 1 = L /\ L \in 0 .. Count /\ L \in 0 .. L /\ n # 0 /\ ~(n <= L)
        BY <3>3, <1>0, <1>1
      <4>2. g[n - 1] = SpiPlace(L, L) /\ g[n - 1] # None
        BY <4>1, <1>2
      <4> QED
        BY <4>1, <4>2, <1>0
    <3>4. CASE n > L + 1
      <4>1. n - 1 \in 0 .. Count /\ n # 0 /\ ~(n <= L) /\ ~(n - 1 <= L)
        BY <3>4, <1>0, <1>1
      <4>2. g[n - 1] = None
        BY <4>1
      <4> QED
        BY <4>1, <4>2
    <3> QED
      BY <1>0, <3>1, <3>2, <3>3, <3>4
  <2>2. g = h
    <3>1. g = [n \in 0 .. Count |-> g[n]]
      OBVIOUS
    <3>2. h = [n \in 0 .. Count |-> h[n]]
      OBVIOUS
    <3> HIDE DEF g, h
    <3> QED
      BY <2>1, <3>1, <3>2
  <2>3. h = [n \in 0 .. Count |->
                           IF n = 0 THEN head
                           ELSE IF g[n - 1] = None THEN None
                           ELSE next[g[n - 1]]]
    OBVIOUS
  <2> HIDE DEF g, h
  <2> QED
    BY <2>2, <2>3, Zenon DEF Follows
<1>4. PICK r : r = CHOOSE f : Is(f)
  OBVIOUS
<1>5. r = g
  <2>1. Is(g)
    <3> HIDE DEF g
    <3> QED
      BY <1>3, Zenon DEF Follows
  <2>2. Is(r)
    <3> HIDE DEF Is, g
    <3> QED
      BY <1>4, <2>1, Zenon
  <2>3. Follows(r, Count, head, next)
    BY <2>2, Zenon DEF Follows
  <2> HIDE DEF g
  <2> QED
    BY <1>1, <1>3, <2>3, FollowsOne
<1>6. Spi!Chain = [n \in 1 .. Spi!Cardinality({m \in 1 .. Count : r[m] # None})
                     |-> r[n]]
  BY <1>0, <1>4 DEF Spi!Chain, Is
<1>7. {m \in 1 .. Count : r[m] # None} = 1 .. L
  BY <1>0, <1>1, <1>2, <1>5
<1>8. Spi!Cardinality(1 .. L) = L
  BY <1>0, SpiLibrary, FS_Interval
<1>9. Spi!Chain = [n \in 1 .. L |-> r[n]]
  BY <1>6, <1>7, <1>8
<1>10. \A n \in 1 .. L : r[n] = SpiPlace(L, n)
  BY <1>0, <1>1, <1>5
<1>11. Spi!Chain = [n \in 1 .. L |-> SpiPlace(L, n)]
  BY <1>9, <1>10
<1>12. Spi!Ended = E
  <2> DEFINE c == Spi!Chain
  <2>1. DOMAIN c = 1 .. L /\ \A n \in 1 .. L : c[n] = SpiPlace(L, n)
    BY <1>11
  <2>2. Spi!Range(c) = {c[n] : n \in 1 .. L}
    BY <2>1 DEF Spi!Range
  <2>3. Spi!Ended = IF eof \in Spi!Range(c)
                    THEN CHOOSE n \in DOMAIN c : c[n] = eof ELSE 0
    BY DEF Spi!Ended
  <2> HIDE DEF c
  <2>4. CASE E = 0
    <3>1. eof = None \/ eof = head
      BY <1>0, <2>4 DEF SpiStarted, SpiDone
    <3>2. \A n \in 1 .. L : c[n] # eof
      BY <1>0, <1>1, <1>2, <2>1, <3>1
    <3> QED
      BY <2>2, <2>3, <2>4, <3>2
  <2>5. CASE E # 0
    <3>1. eof = SpiPlace(L, E) /\ E \in 1 .. L
      BY <1>0, <2>5 DEF SpiStarted, SpiDone
    <3>2. eof \in Spi!Range(c) /\ c[E] = eof
      BY <2>1, <2>2, <3>1
    <3>3. \A n \in 1 .. L : c[n] = eof => n = E
      BY <1>0, <2>1, <3>1
    <3>4. (CHOOSE n \in DOMAIN c : c[n] = eof) = E
      BY <2>1, <3>1, <3>2, <3>3, Zenon
    <3> QED
      BY <2>3, <3>2, <3>4
  <2> QED
    BY <2>4, <2>5
<1>13. SpiQueue = [n \in 1 .. L |-> arg[SpiPlace(L, n)]]
  <2>1. DOMAIN Spi!Chain = 1 .. L
    BY <1>11
  <2>2. \A n \in 1 .. L : Spi!Chain[n] = SpiPlace(L, n)
    BY <1>11
  <2>3. SpiQueue = [n \in 1 .. L |-> arg[Spi!Chain[n]]]
    BY <2>1 DEF SpiQueue
  <2> QED
    BY <2>2, <2>3
<1> QED
  BY <1>11, <1>12, <1>13

\* and in the next one.
LEMMA SpiChainThen == ASSUME Spi!SpiAssumption PROVE SpiShown'
  BY SpiChain, PTL

\* Before the start there is no chain.
LEMMA SpiUnstarted ==
    /\ ~started /\ eof = None =>
          Spi!Chain = <<>> /\ SpiQueue = <<>> /\ Spi!Ended = 0
    /\ (~started /\ eof = None)' =>
          Spi!Chain' = <<>> /\ SpiQueue' = <<>> /\ Spi!Ended' = 0
<1>1. ~started => Spi!Chain = <<>>
  BY DEF Spi!Chain
<1>2. ~started' => Spi!Chain' = <<>>
  BY DEF Spi!Chain
<1>3. DOMAIN <<>> = {}
  OBVIOUS
<1> QED
  BY <1>1, <1>2, <1>3 DEF SpiQueue, Spi!Ended, Spi!Range

-----------------------------------------------------------------------------
\* A step of the queue.
SpiMoves == Spi!AQ!Next \/ UNCHANGED <<SpiQueue, Spi!Ended>>

\* The places, where the two ends of the chain stay.
LEMMA SpiSame ==
    ASSUME UNCHANGED <<head, tail>>
    PROVE  \A L, n : SpiPlace(L, n)' = SpiPlace(L, n)
BY DEF SpiPlace, SpiBack

\* What is known of the chain before a step.
SpiBefore(L, E) ==
    /\ L \in 0 .. Count - 1 /\ L \in Nat /\ E \in 0 .. L /\ started
    /\ \A n \in 0 .. L : n < L => next[SpiPlace(L, n)] = SpiPlace(L, n + 1)
    /\ tail \in Spi!Slots
    /\ IF head = Spi!Dummy THEN L > 0 ELSE head = SpiBack(L)
    /\ next[tail] = None
    /\ SpiPlace(L, L) = tail
    /\ SpiPlace(L, 0) = head
    /\ \A n \in 1 .. L : SpiPlace(L, n) \in Spi!Slots
    /\ \A n \in 0 .. L : SpiPlace(L, n) \in Spi!Slots \cup {Spi!Dummy}
    /\ \A n \in 0 .. L : SpiPlace(L, n) # None
    /\ \A m, n \in 0 .. L : SpiPlace(L, m) = SpiPlace(L, n) => m = n
    /\ L < Count - 1 => \A n \in 0 .. L : SpiPlace(L, n) # Spi!Succ(tail)
    /\ SpiQueue = [n \in 1 .. L |-> arg[SpiPlace(L, n)]]
    /\ Spi!Ended = E
    /\ Len(SpiQueue) = L

LEMMA SpiKnown ==
    ASSUME Spi!SpiAssumption, Spi!TypeOK, NEW L, NEW E, SpiStarted(L, E)
    PROVE  SpiBefore(L, E)
<1>1. /\ L \in 0 .. Count - 1 /\ L \in Nat /\ E \in 0 .. L /\ started
      /\ \A n \in 0 .. L : n < L => next[SpiPlace(L, n)] = SpiPlace(L, n + 1)
      /\ tail \in Spi!Slots
      /\ IF head = Spi!Dummy THEN L > 0 ELSE head = SpiBack(L)
      /\ next[tail] = None
  BY DEF SpiStarted, SpiLinked, SpiDone
<1>2. /\ SpiPlace(L, L) = tail
      /\ SpiPlace(L, 0) = head
      /\ \A n \in 1 .. L : SpiPlace(L, n) \in Spi!Slots
      /\ head \in Spi!Slots \cup {Spi!Dummy}
      /\ \A m, n \in 0 .. L : SpiPlace(L, m) = SpiPlace(L, n) => m = n
      /\ L < Count - 1 => \A n \in 0 .. L : SpiPlace(L, n) # Spi!Succ(tail)
  BY <1>1, SpiPlaces
<1>3. \A n \in 0 .. L : n = 0 \/ n \in 1 .. L
  BY <1>1
<1>4. \A n \in 0 .. L : SpiPlace(L, n) \in Spi!Slots \cup {Spi!Dummy}
  BY <1>2, <1>3
<1>5. \A n \in 0 .. L : SpiPlace(L, n) # None
  BY <1>4, SpiSlots
<1>6. SpiQueue = [n \in 1 .. L |-> arg[SpiPlace(L, n)]] /\ Spi!Ended = E
  BY SpiChain DEF SpiShown
<1>7. Len(SpiQueue) = L
  BY <1>1, <1>6
<1> QED
  BY <1>1, <1>2, <1>4, <1>5, <1>6, <1>7 DEF SpiBefore

\* The chain after a step.
LEMMA SpiThen ==
    ASSUME Spi!SpiAssumption, Spi!TypeOK', NEW L, NEW E, SpiStarted(L, E)'
    PROVE  /\ SpiInv'
           /\ SpiQueue' = [n \in 1 .. L |-> arg'[SpiPlace(L, n)']]
           /\ Spi!Ended' = E
<1>1. /\ SpiQueue' = [n \in 1 .. L |-> arg'[SpiPlace(L, n)']]
      /\ Spi!Ended' = E
  BY SpiChainThen DEF SpiShown
<1>2. L \in 0 .. Count - 1 /\ E \in 0 .. L /\ Count \in Nat
  BY SpiSlots DEF SpiStarted, SpiLinked, SpiDone
<1>3. E \in 0 .. Count - 1
  BY <1>2
<1>4. SpiInv'
  BY <1>2, <1>3 DEF SpiInv
<1> QED
  BY <1>1, <1>4

\* A descriptor that is filled is in no chain yet.
LEMMA SpiFill ==
    ASSUME Spi!SpiAssumption, SpiPlain, SpiInv, NEW t \in Transfers, Spi!Fill(t)
    PROVE  SpiInv' /\ UNCHANGED <<SpiQueue, Spi!Ended>>
<1>0. /\ Spi!TypeOK /\ use \in Spi!Slots /\ append = "out" /\ append' = "link"
      /\ next' = [next EXCEPT ![use] = None] /\ arg' = [arg EXCEPT ![use] = t]
      /\ UNCHANGED <<use, tail, head, started, unrecycled, onto, on, eof, out>>
      /\ ~(unrecycled >= Count - 1)
  BY DEF SpiInv, Spi!TypeOK, Spi!Fill, Spi!Refuses, SpiPlain
<1>1. Spi!TypeOK'
  BY <1>0 DEF Spi!TypeOK
<1>2. /\ next'[use] = None /\ arg'[use] \in Transfers
      /\ \A i \in Spi!Slots \cup {Spi!Dummy} : i # use => next'[i] = next[i]
      /\ \A i \in Spi!Slots : i # use => arg'[i] = arg[i]
  BY <1>0 DEF Spi!TypeOK
<1>3. CASE SpiIdle
  <2>1. SpiIdle'
    BY <1>0, <1>2, <1>3, SpiSlots DEF SpiIdle
  <2>2. ~started /\ eof = None
    BY <1>3 DEF SpiIdle
  <2> QED
    BY <1>0, <1>1, <2>1, <2>2, SpiUnstarted DEF SpiInv
<1>4. ASSUME NEW L, NEW E, SpiStarted(L, E)
      PROVE  SpiInv' /\ UNCHANGED <<SpiQueue, Spi!Ended>>
  <2>1. SpiBefore(L, E)
    BY <1>0, <1>4, SpiKnown
  <2>2. use = Spi!Succ(tail) /\ unrecycled = L
    BY <1>0, <1>4 DEF SpiStarted, SpiCounted
  <2>3. L < Count - 1
    BY <1>0, <2>1, <2>2, SpiSlots DEF SpiBefore
  <2>4. \A n \in 0 .. L : SpiPlace(L, n) # use
    BY <2>1, <2>2, <2>3 DEF SpiBefore
  <2>5. tail # use
    BY <2>1, <2>4 DEF SpiBefore
  <2>6. \A n : SpiPlace(L, n)' = SpiPlace(L, n)
    BY <1>0, SpiSame
  <2>7. \A n \in 0 .. L : next'[SpiPlace(L, n)] = next[SpiPlace(L, n)]
    BY <1>2, <2>1, <2>4 DEF SpiBefore
  <2>8. SpiLinked(L)'
    <3>1. next'[tail] = None
      BY <1>2, <2>1, <2>5 DEF SpiBefore
    <3>2. \A n \in 0 .. L :
              n < L => next'[SpiPlace(L, n)'] = SpiPlace(L, n + 1)'
      BY <2>1, <2>6, <2>7 DEF SpiBefore
    <3>3. SpiBack(L)' = SpiBack(L)
      BY <1>0 DEF SpiBack
    <3> QED
      BY <1>0, <2>1, <3>1, <3>2, <3>3 DEF SpiLinked, SpiBefore
  <2>9. SpiCounted(L)'
    BY <1>0, <1>2, <2>2, <2>3 DEF SpiCounted, Spi!Succ
  <2>10. SpiDone(L, E)'
    BY <1>0, <1>4, <2>6 DEF SpiStarted, SpiDone
  <2>11. SpiStarted(L, E)'
    BY <1>0, <2>1, <2>8, <2>9, <2>10 DEF SpiStarted, SpiBefore
  <2>12. /\ SpiInv' /\ SpiQueue' = [n \in 1 .. L |-> arg'[SpiPlace(L, n)']]
         /\ Spi!Ended' = E
    BY <1>1, <2>11, SpiThen
  <2>13. \A n \in 1 .. L : arg'[SpiPlace(L, n)'] = arg[SpiPlace(L, n)]
    <3>1. \A n \in 1 .. L : n \in 0 .. L
      BY <2>1 DEF SpiBefore
    <3> QED
      BY <1>2, <2>1, <2>4, <2>6, <3>1 DEF SpiBefore
  <2>14. SpiQueue' = SpiQueue
    BY <2>1, <2>12, <2>13 DEF SpiBefore
  <2> QED
    BY <2>1, <2>12, <2>14 DEF SpiBefore
<1> QED
  BY <1>3, <1>4 DEF SpiInv

\* The queue accepts.
LEMMA SpiAccepts ==
    ASSUME NEW r \in Transfers, SpiQueue' = Append(SpiQueue, r),
           Spi!Ended' = Spi!Ended
    PROVE  SpiMoves
BY DEF SpiMoves, SpiQueue, Spi!AQ!Next, Spi!AQ!Accept

\* The first descriptor is appended.
LEMMA SpiStart ==
    ASSUME Spi!SpiAssumption, SpiInv, Spi!Start
    PROVE  SpiInv' /\ SpiMoves
<1>0. /\ Spi!TypeOK /\ append = "link" /\ append' = "count"
      /\ ~started /\ started'
      /\ tail' = use /\ onto' = use /\ on' = TRUE
      /\ UNCHANGED <<next, arg, use, head, unrecycled, eof, out>>
  BY DEF SpiInv, Spi!Start
<1>1. SpiIdle
  BY <1>0 DEF SpiInv, SpiStarted
<1>2. /\ use = 0 /\ head = Spi!Dummy /\ next[Spi!Dummy] = 0 /\ next[0] = None
      /\ arg[0] \in Transfers /\ eof = None /\ unrecycled = 0 /\ Count > 1
  BY <1>0, <1>1 DEF SpiIdle
<1>3. Spi!TypeOK'
  BY <1>0 DEF Spi!TypeOK
<1>4. SpiPlace(1, 1)' = 0 /\ SpiPlace(1, 0)' = Spi!Dummy
  BY <1>0, <1>2, SpiSlots DEF SpiPlace, SpiBack
<1>5. SpiLinked(1)'
  <2>1. /\ 1 \in 0 .. Count - 1 /\ tail' \in Spi!Slots
        /\ head' = Spi!Dummy /\ 1 > 0
        /\ next'[tail'] = None
    BY <1>0, <1>2, SpiSlots
  <2>2. \A n \in 0 .. 1 : n < 1 => n = 0 /\ n + 1 = 1
    OBVIOUS
  <2>3. \A n \in 0 .. 1 : n < 1 => next'[SpiPlace(1, n)'] = SpiPlace(1, n + 1)'
    BY <1>0, <1>2, <1>4, <2>2
  <2> QED
    BY <2>1, <2>3 DEF SpiLinked
<1>6. SpiCounted(1)'
  BY <1>0, <1>2 DEF SpiCounted
<1>7. SpiDone(1, 0)'
  BY <1>0, <1>2, <1>4 DEF SpiDone
<1>8. SpiStarted(1, 0)'
  BY <1>0, <1>5, <1>6, <1>7 DEF SpiStarted
<1>9. /\ SpiInv' /\ SpiQueue' = [n \in 1 .. 1 |-> arg'[SpiPlace(1, n)']]
      /\ Spi!Ended' = 0
  BY <1>3, <1>8, SpiThen
<1>10. SpiQueue = <<>> /\ Spi!Ended = 0
  BY <1>0, <1>2, SpiUnstarted
<1>11. SpiQueue' = Append(<<>>, arg[0])
  <2>1. \A n \in 1 .. 1 : n = 1
    OBVIOUS
  <2>2. \A n \in 1 .. 1 : arg'[SpiPlace(1, n)'] = arg[0]
    BY <1>0, <1>4, <2>1
  <2>3. SpiQueue' = [n \in 1 .. 1 |-> arg[0]]
    BY <1>9, <2>2
  <2> QED
    BY <2>3
<1> QED
  BY <1>2, <1>9, <1>10, <1>11, SpiAccepts

\* Another descriptor is appended.
LEMMA SpiLink ==
    ASSUME Spi!SpiAssumption, SpiInv, Spi!Link
    PROVE  SpiInv' /\ SpiMoves
<1>0. /\ Spi!TypeOK /\ append = "link" /\ append' = "restart" /\ started
      /\ next' = [next EXCEPT ![tail] = use] /\ tail' = use
      /\ UNCHANGED <<arg, use, head, started, unrecycled, onto, on, eof, out>>
  BY DEF SpiInv, Spi!Link
<1>1. PICK L, E \in 0 .. Count - 1 : SpiStarted(L, E)
  BY <1>0 DEF SpiInv, SpiIdle
<1>2. SpiBefore(L, E)
  BY <1>0, <1>1, SpiKnown
<1>3. /\ use = Spi!Succ(tail) /\ unrecycled = L /\ L < Count - 1
      /\ next[use] = None /\ arg[use] \in Transfers /\ use \in Spi!Slots
  BY <1>0, <1>1 DEF SpiStarted, SpiCounted, Spi!TypeOK
<1>4. Spi!TypeOK'
  BY <1>0, <1>2, <1>3 DEF Spi!TypeOK, SpiBefore
<1>5. /\ L \in Nat /\ Count \in Nat /\ tail \in Nat /\ tail < Count
      /\ use = IF tail = Count - 1 THEN 0 ELSE tail + 1
  BY <1>2, <1>3, SpiSlots DEF SpiBefore
<1>6. \A i \in 0 .. L : SpiBack(i + 1)' = SpiBack(i)
  BY <1>0, <1>3, <1>5 DEF SpiBack
<1>7. \A n \in 0 .. L : SpiPlace(L + 1, n)' = SpiPlace(L, n)
  <2>1. \A n \in 0 .. L : L - n \in 0 .. L /\ L + 1 - n = L - n + 1
    BY <1>5
  <2> QED
    BY <1>0, <1>6, <2>1 DEF SpiPlace
<1>8. SpiPlace(L + 1, L + 1)' = use
  <2>1. L + 1 # 0 /\ L + 1 - (L + 1) = 0
    BY <1>5
  <2>2. use \in Nat /\ 0 <= use
    BY <1>5
  <2> QED
    BY <1>0, <2>1, <2>2 DEF SpiPlace, SpiBack
<1>9. /\ next'[tail] = use /\ next'[use] = None
      /\ \A n \in 0 .. L : n < L => next'[SpiPlace(L, n)] = SpiPlace(L, n + 1)
  <2>1. next'[tail] = use
    BY <1>0, <1>2 DEF Spi!TypeOK, SpiBefore
  <2>2. tail # use
    BY <1>2, <1>3 DEF SpiBefore
  <2>3. next'[use] = None
    BY <1>0, <1>3, <2>2 DEF Spi!TypeOK
  <2>4. ASSUME NEW n \in 0 .. L, n < L
        PROVE  next'[SpiPlace(L, n)] = SpiPlace(L, n + 1)
    <3>1. n # L /\ L \in 0 .. L
      BY <1>5, <2>4
    <3>2. SpiPlace(L, n) # tail /\ SpiPlace(L, n) \in Spi!Slots \cup {Spi!Dummy}
      BY <1>2, <3>1 DEF SpiBefore
    <3>3. next[SpiPlace(L, n)] = SpiPlace(L, n + 1)
      BY <1>2, <2>4 DEF SpiBefore
    <3> QED
      BY <1>0, <3>2, <3>3 DEF Spi!TypeOK
  <2> QED
    BY <2>1, <2>3, <2>4
<1>10. SpiLinked(L + 1)'
  <2>1. L + 1 \in 0 .. Count - 1 /\ L + 1 > 0
    BY <1>3, <1>5
  <2>2. head' # Spi!Dummy => head' = SpiBack(L + 1)'
    <3>1. L \in 0 .. L
      BY <1>5
    <3> QED
      BY <1>0, <1>2, <1>6, <3>1 DEF SpiBefore
  <2>3. \A n \in 0 .. L + 1 : n < L + 1 =>
            next'[SpiPlace(L + 1, n)'] = SpiPlace(L + 1, n + 1)'
    <3> SUFFICES ASSUME NEW n \in 0 .. L + 1, n < L + 1
                 PROVE  next'[SpiPlace(L + 1, n)'] = SpiPlace(L + 1, n + 1)'
      OBVIOUS
    <3>1. n \in 0 .. L
      BY <1>5
    <3>2. CASE n = L
      <4>1. SpiPlace(L + 1, n)' = tail
        BY <1>2, <1>7, <3>1, <3>2 DEF SpiBefore
      <4> QED
        BY <1>8, <1>9, <3>2, <4>1
    <3>3. CASE n < L
      <4>1. n + 1 \in 0 .. L
        BY <3>1, <3>3
      <4> QED
        BY <1>7, <1>9, <3>1, <3>3, <4>1
    <3> QED
      BY <1>5, <3>1, <3>2, <3>3
  <2>4. tail' \in Spi!Slots /\ next'[tail'] = None
    BY <1>0, <1>3, <1>9
  <2>5. Spi!Dummy' = Spi!Dummy
    BY DEF Spi!Dummy
  <2> QED
    BY <2>1, <2>2, <2>3, <2>4, <2>5 DEF SpiLinked
<1>11. SpiCounted(L + 1)'
  BY <1>0, <1>3, <1>5 DEF SpiCounted
<1>12. SpiDone(L + 1, E)'
  <2>1. E \in 0 .. L /\ E \in 0 .. L + 1
    BY <1>2, <1>5 DEF SpiBefore
  <2>2. /\ eof' = None => E = 0 /\ on'
        /\ eof' # None => eof' = SpiPlace(L + 1, E)'
    BY <1>0, <1>1, <1>7, <2>1 DEF SpiStarted, SpiDone
  <2>3. CASE on
    <3>1. E < L /\ onto = SpiPlace(L, E + 1) /\ E + 1 \in 0 .. L /\ E < L + 1
      BY <1>1, <1>5, <2>1, <2>3 DEF SpiStarted, SpiDone
    <3> QED
      BY <1>0, <1>7, <2>1, <2>2, <2>3, <3>1 DEF SpiDone
  <2>4. CASE ~on
    <3>1. onto = SpiPlace(L, E) /\ ~(E < L)
      BY <1>0, <1>1, <2>4 DEF SpiStarted, SpiDone
    <3>2. E = L /\ E = L + 1 - 1
      BY <1>5, <2>1, <3>1
    <3> QED
      BY <1>0, <1>7, <2>1, <2>2, <2>4, <3>1, <3>2 DEF SpiDone
  <2> QED
    BY <2>3, <2>4
<1>13. SpiStarted(L + 1, E)'
  BY <1>0, <1>10, <1>11, <1>12 DEF SpiStarted
<1>14. /\ SpiInv'
       /\ SpiQueue' = [n \in 1 .. L + 1 |-> arg'[SpiPlace(L + 1, n)']]
       /\ Spi!Ended' = E
  BY <1>4, <1>13, SpiThen
<1>15. SpiQueue' = Append(SpiQueue, arg[use])
  <2>1. SpiQueue = [n \in 1 .. L |-> arg[SpiPlace(L, n)]]
    BY <1>2 DEF SpiBefore
  <2> DEFINE a(n) == arg[SpiPlace(L, n)]
             q == [n \in 1 .. L |-> a(n)]
  <2>2. \A n \in 1 .. L + 1 :
            arg'[SpiPlace(L + 1, n)'] = IF n = L + 1 THEN arg[use] ELSE a(n)
    <3>1. \A n \in 1 .. L + 1 : n # L + 1 => n \in 0 .. L
      BY <1>5
    <3> QED
      BY <1>0, <1>7, <1>8, <3>1
  <2>3. SpiQueue' = [n \in 1 .. L + 1 |-> IF n = L + 1 THEN arg[use] ELSE a(n)]
    BY <1>14, <2>2
  <2> HIDE DEF a
  <2>4. [n \in 1 .. L + 1 |-> IF n = L + 1 THEN arg[use] ELSE a(n)]
                = Append(q, arg[use])
    BY <1>5
  <2> QED
    BY <2>1, <2>3, <2>4 DEF a
<1> QED
  BY <1>2, <1>3, <1>14, <1>15, SpiAccepts DEF SpiBefore

\* The DMA goes on to what was appended; the counter follows.
LEMMA SpiRestart ==
    ASSUME Spi!SpiAssumption, SpiInv, Spi!Restart \/ Spi!Advance
    PROVE  SpiInv' /\ UNCHANGED <<SpiQueue, Spi!Ended>>
<1>0. /\ Spi!TypeOK /\ append \in {"restart", "count"}
      /\ UNCHANGED <<next, arg, tail, head, started, eof, out>>
  BY DEF SpiInv, Spi!Restart, Spi!Advance
<1>1. PICK L, E \in 0 .. Count - 1 : SpiStarted(L, E)
  BY <1>0 DEF SpiInv, SpiIdle
<1>2. SpiBefore(L, E)
  BY <1>0, <1>1, SpiKnown
<1>3. use = tail /\ unrecycled = L - 1 /\ L \in Nat /\ E \in 0 .. L
  BY <1>0, <1>1, <1>2 DEF SpiStarted, SpiCounted, SpiBefore
<1>4. \A n : SpiPlace(L, n)' = SpiPlace(L, n)
  BY <1>0, SpiSame
<1>5. SpiLinked(L)'
  <2>1. SpiBack(L)' = SpiBack(L)
    BY <1>0 DEF SpiBack
  <2> QED
    BY <1>0, <1>1, <1>4, <2>1 DEF SpiStarted, SpiLinked
<1>6. ASSUME Spi!TypeOK', SpiCounted(L)', SpiDone(L, E)'
      PROVE  SpiInv' /\ UNCHANGED <<SpiQueue, Spi!Ended>>
  <2>1. SpiStarted(L, E)'
    BY <1>0, <1>2, <1>5, <1>6 DEF SpiStarted, SpiBefore
  <2>2. /\ SpiInv' /\ SpiQueue' = [n \in 1 .. L |-> arg'[SpiPlace(L, n)']]
        /\ Spi!Ended' = E
    BY <1>6, <2>1, SpiThen
  <2>3. \A n : arg'[SpiPlace(L, n)'] = arg[SpiPlace(L, n)]
    BY <1>0, <1>4
  <2>4. SpiQueue' = SpiQueue
    BY <1>2, <2>2, <2>3 DEF SpiBefore
  <2> QED
    BY <1>2, <2>2, <2>4 DEF SpiBefore
<1>7. CASE Spi!Restart
  <2>1. append = "restart" /\ append' = "count" /\ UNCHANGED <<use, unrecycled>>
    BY <1>7 DEF Spi!Restart
  <2>2. SpiCounted(L)'
    BY <1>0, <1>3, <2>1 DEF SpiCounted
  <2>3. /\ eof = None => E = 0 /\ on
        /\ eof # None => eof = SpiPlace(L, E)
    BY <1>1 DEF SpiStarted, SpiDone
  <2>4. CASE on
    <3>1. UNCHANGED <<onto, on>>
      BY <1>7, <2>4 DEF Spi!Restart
    <3>2. SpiDone(L, E)'
      BY <1>0, <1>1, <1>4, <2>4, <3>1 DEF SpiStarted, SpiDone
    <3>3. Spi!TypeOK'
      BY <1>0, <2>1, <3>1 DEF Spi!TypeOK
    <3> QED
      BY <1>6, <2>2, <3>2, <3>3
  <2>5. CASE ~on
    <3>1. onto = SpiPlace(L, E) /\ (E < L => E = L - 1)
      BY <1>1, <2>5 DEF SpiStarted, SpiDone
    <3>2. CASE E < L
      <4>1. next[onto] = SpiPlace(L, E + 1)
        BY <1>2, <1>3, <3>1, <3>2 DEF SpiBefore
      <4>2. E + 1 \in 1 .. L
        BY <1>3, <3>2
      <4>3. SpiPlace(L, E + 1) \in Spi!Slots /\ SpiPlace(L, E + 1) # None
        BY <1>2, <4>2, SpiSlots DEF SpiBefore
      <4>4. onto' = SpiPlace(L, E + 1) /\ on' = TRUE
        BY <1>7, <2>5, <4>1, <4>3 DEF Spi!Restart
      <4>5. SpiDone(L, E)'
        BY <1>0, <1>3, <1>4, <2>3, <3>2, <4>4 DEF SpiDone
      <4>6. Spi!TypeOK'
        BY <1>0, <2>1, <4>3, <4>4 DEF Spi!TypeOK
      <4> QED
        BY <1>6, <2>2, <4>5, <4>6
    <3>3. CASE ~(E < L)
      <4>1. E = L
        BY <1>3, <3>3
      <4>2. next[onto] = None
        BY <1>2, <3>1, <4>1 DEF SpiBefore
      <4>3. UNCHANGED <<onto, on>>
        BY <1>7, <4>2 DEF Spi!Restart
      <4>4. SpiDone(L, E)'
        BY <1>0, <1>3, <1>4, <2>3, <2>5, <3>1, <3>3, <4>3 DEF SpiDone
      <4>5. Spi!TypeOK'
        BY <1>0, <2>1, <4>3 DEF Spi!TypeOK
      <4> QED
        BY <1>6, <2>2, <4>4, <4>5
    <3> QED
      BY <3>2, <3>3
  <2> QED
    BY <2>4, <2>5
<1>8. CASE Spi!Advance
  <2>1. /\ append = "count" /\ append' = "out" /\ use' = Spi!Succ(use)
        /\ unrecycled' = unrecycled + 1 /\ UNCHANGED <<onto, on>>
    BY <1>8 DEF Spi!Advance
  <2>2. /\ use' = Spi!Succ(tail') /\ unrecycled' = L /\ use' \in Spi!Slots
        /\ unrecycled' \in -1 .. Count
    <3>1. L \in 0 .. Count - 1 /\ tail \in Spi!Slots /\ Count \in Nat
      BY <1>2, SpiSlots DEF SpiBefore
    <3> QED
      BY <1>0, <1>3, <2>1, <3>1, SpiSlots
  <2>3. SpiCounted(L)'
    BY <2>1, <2>2 DEF SpiCounted, Spi!Succ
  <2>4. SpiDone(L, E)'
    BY <1>0, <1>1, <1>4, <2>1 DEF SpiStarted, SpiDone
  <2>5. Spi!TypeOK'
    BY <1>0, <2>1, <2>2 DEF Spi!TypeOK
  <2> QED
    BY <1>6, <2>3, <2>4, <2>5
<1> QED
  BY <1>7, <1>8

\* The first that has ended is given back.
LEMMA SpiGetFinished ==
    ASSUME Spi!SpiAssumption, SpiPlain, SpiInv, Spi!GetFinished
    PROVE  SpiInv' /\ SpiMoves
<1>0. /\ Spi!TypeOK /\ eof # None /\ head # None /\ head # eof
      /\ head' = next[head] /\ unrecycled' = unrecycled - 1
      /\ out' = IF next[head] = None THEN out ELSE arg[next[head]]
      /\ UNCHANGED <<next, arg, use, tail, started, append, onto, on, eof>>
  BY DEF SpiInv, Spi!GetFinished, SpiPlain
<1>1. PICK L, E \in 0 .. Count - 1 : SpiStarted(L, E)
  BY <1>0 DEF SpiInv, SpiIdle
<1>2. SpiBefore(L, E)
  BY <1>0, <1>1, SpiKnown
<1>3. /\ eof = SpiPlace(L, E) /\ E \in 0 .. L /\ L \in Nat
      /\ SpiPlace(L, 0) = head
      /\ L \in 0 .. Count - 1 /\ Count \in Nat
  BY <1>0, <1>1, <1>2, SpiSlots DEF SpiStarted, SpiDone, SpiBefore
<1>4. E # 0
  BY <1>0, <1>3
<1>5. /\ 1 \in 1 .. L /\ 0 \in 0 .. L /\ 0 < L /\ 0 + 1 = 1
      /\ L - 1 \in 0 .. Count - 1
      /\ E - 1 \in 0 .. L - 1 /\ L - 1 \in Nat
  BY <1>3, <1>4
<1>6. /\ head' = SpiPlace(L, 1) /\ head' \in Spi!Slots /\ head' # None
      /\ head' # Spi!Dummy
  <2>1. next[SpiPlace(L, 0)] = SpiPlace(L, 1)
    BY <1>2, <1>5 DEF SpiBefore
  <2> QED
    BY <1>0, <1>2, <1>3, <1>5, <2>1, SpiSlots DEF SpiBefore
<1>7. \A n \in 0 .. L - 1 :
          n + 1 \in 1 .. L /\ SpiPlace(L - 1, n)' = SpiPlace(L, n + 1)
  <2>1. \A n \in 0 .. L - 1 : /\ n + 1 \in 1 .. L /\ n + 1 # 0
                              /\ L - 1 - n = L - (n + 1) /\ n = 0 => n + 1 = 1
    BY <1>5
  <2>2. \A i : SpiBack(i)' = SpiBack(i)
    BY <1>0 DEF SpiBack
  <2> QED
    BY <1>6, <2>1, <2>2 DEF SpiPlace
<1>8. Spi!TypeOK'
  <2>1. unrecycled \in {L - 1, L}
    BY <1>1 DEF SpiStarted, SpiCounted
  <2>2. unrecycled' \in -1 .. Count
    BY <1>0, <1>3, <1>5, <2>1
  <2>3. out' \in Transfers \cup {None}
    BY <1>0, <1>6 DEF Spi!TypeOK
  <2> QED
    BY <1>0, <1>6, <2>2, <2>3 DEF Spi!TypeOK
<1>9. SpiLinked(L - 1)'
  <2>1. \A n \in 0 .. L - 1 : n < L - 1 =>
            next'[SpiPlace(L - 1, n)'] = SpiPlace(L - 1, n + 1)'
    <3>1. \A n \in 0 .. L - 1 : n < L - 1 => /\ n + 1 \in 0 .. L - 1
                                             /\ n + 1 \in 0 .. L /\ n + 1 < L
      BY <1>5
    <3> QED
      BY <1>0, <1>2, <1>7, <3>1 DEF SpiBefore
  <2>2. head' = SpiBack(L - 1)'
    <3>1. head' = SpiBack(L - 1)
      BY <1>5, <1>6 DEF SpiPlace
    <3> QED
      BY <1>0, <3>1 DEF SpiBack
  <2>3. tail' \in Spi!Slots /\ next'[tail'] = None
    BY <1>0, <1>2 DEF SpiBefore
  <2>4. Spi!Dummy' = Spi!Dummy
    BY DEF Spi!Dummy
  <2> QED
    BY <1>5, <1>6, <2>1, <2>2, <2>3, <2>4 DEF SpiLinked
<1>10. SpiCounted(L - 1)'
  <2>1. Spi!Succ(tail)' = Spi!Succ(tail)
    BY <1>0 DEF Spi!Succ
  <2>2. CASE append \in {"restart", "count"}
    BY <1>0, <1>1, <1>3, <2>2 DEF SpiStarted, SpiCounted
  <2>3. CASE append \notin {"restart", "count"}
    BY <1>0, <1>1, <1>3, <2>1, <2>3 DEF SpiStarted, SpiCounted
  <2> QED
    BY <2>2, <2>3
<1>11. SpiDone(L - 1, E - 1)'
  <2>1. E - 1 \in 0 .. L - 1 /\ E - 1 + 1 = E
    BY <1>3, <1>5
  <2>2. SpiPlace(L - 1, E - 1)' = SpiPlace(L, E)
    BY <1>7, <2>1
  <2>3. CASE on
    <3>1. E < L /\ onto = SpiPlace(L, E + 1)
      BY <1>1, <2>3 DEF SpiStarted, SpiDone
    <3>2. E \in 0 .. L - 1 /\ E - 1 < L - 1
      BY <1>3, <3>1
    <3>3. SpiPlace(L - 1, E)' = SpiPlace(L, E + 1)
      BY <1>7, <3>2
    <3> QED
      BY <1>0, <1>3, <2>1, <2>2, <2>3, <3>1, <3>2, <3>3 DEF SpiDone
  <2>4. CASE ~on
    <3>1. onto = SpiPlace(L, E) /\ (E < L => append = "restart" /\ E = L - 1)
      BY <1>1, <2>4 DEF SpiStarted, SpiDone
    <3>2. E - 1 < L - 1 => append = "restart" /\ E - 1 = L - 1 - 1
      BY <1>3, <3>1
    <3> QED
      BY <1>0, <1>3, <2>1, <2>2, <2>4, <3>1, <3>2 DEF SpiDone
  <2> QED
    BY <2>3, <2>4
<1>12. SpiStarted(L - 1, E - 1)'
  BY <1>0, <1>2, <1>9, <1>10, <1>11 DEF SpiStarted, SpiBefore
<1>13. /\ SpiInv'
       /\ SpiQueue' = [n \in 1 .. L - 1 |-> arg'[SpiPlace(L - 1, n)']]
       /\ Spi!Ended' = E - 1
  BY <1>8, <1>12, SpiThen
<1>14. SpiQueue' = Tail(SpiQueue)
  <2> DEFINE a(n) == arg[SpiPlace(L, n)]
             q == [n \in 1 .. L |-> a(n)]
  <2>1. SpiQueue = q
    BY <1>2 DEF SpiBefore
  <2>2. \A n \in 1 .. L - 1 : arg'[SpiPlace(L - 1, n)'] = a(n + 1)
    <3>1. \A n \in 1 .. L - 1 : n \in 0 .. L - 1
      OBVIOUS
    <3> QED
      BY <1>0, <1>7, <3>1
  <2>3. SpiQueue' = [n \in 1 .. L - 1 |-> a(n + 1)]
    BY <1>13, <2>2
  <2> HIDE DEF a
  <2>4. Tail(q) = [n \in 1 .. L - 1 |-> a(n + 1)]
    BY <1>3, <1>5
  <2> QED
    BY <2>1, <2>3, <2>4
<1>15. Spi!Ended = E /\ E > 0
  BY <1>2, <1>3, <1>4 DEF SpiBefore
<1> QED
  BY <1>13, <1>14, <1>15 DEF SpiMoves, SpiQueue, Spi!AQ!Next, Spi!AQ!Notify

\* The DMA ends a descriptor.
LEMMA SpiDmaEnd ==
    ASSUME Spi!SpiAssumption, SpiInv, Spi!DmaEnd
    PROVE  SpiInv' /\ SpiMoves
<1>0. /\ Spi!TypeOK /\ on /\ eof' = onto
      /\ IF next[onto] = None THEN on' = FALSE /\ UNCHANGED onto
                            ELSE onto' = next[onto] /\ UNCHANGED on
      /\ UNCHANGED <<next, arg, use, tail, head, started, unrecycled, append,
                     out>>
  BY DEF SpiInv, Spi!DmaEnd
<1>1. PICK L, E \in 0 .. Count - 1 : SpiStarted(L, E)
  BY <1>0 DEF SpiInv, SpiIdle
<1>2. SpiBefore(L, E)
  BY <1>0, <1>1, SpiKnown
<1>3. /\ E < L /\ onto = SpiPlace(L, E + 1) /\ E \in 0 .. L /\ L \in Nat
      /\ L \in 0 .. Count - 1
  BY <1>0, <1>1, <1>2 DEF SpiStarted, SpiDone, SpiBefore
<1>4. E + 1 \in 1 .. L /\ E + 1 \in 0 .. L /\ (E + 1 = L \/ E + 1 < L)
  BY <1>3
<1>5. onto \in Spi!Slots /\ onto # None
  BY <1>2, <1>3, <1>4, SpiSlots DEF SpiBefore
<1>6. \A n : SpiPlace(L, n)' = SpiPlace(L, n)
  BY <1>0, SpiSame
<1>7. SpiLinked(L)'
  <2>1. SpiBack(L)' = SpiBack(L)
    BY <1>0 DEF SpiBack
  <2> QED
    BY <1>0, <1>1, <1>6, <2>1 DEF SpiStarted, SpiLinked
<1>8. SpiCounted(L)'
  BY <1>0, <1>1 DEF SpiStarted, SpiCounted, Spi!Succ
<1>9. SpiDone(L, E + 1)' /\ onto' \in Spi!Slots /\ on' \in BOOLEAN
  <2>1. CASE E + 1 = L
    <3>1. next[onto] = None
      BY <1>2, <1>3, <2>1 DEF SpiBefore
    <3>2. on' = FALSE /\ onto' = onto /\ ~(E + 1 < L)
      BY <1>0, <1>3, <2>1, <3>1
    <3> QED
      BY <1>0, <1>3, <1>4, <1>5, <1>6, <3>2 DEF SpiDone
  <2>2. CASE E + 1 < L
    <3>1. next[onto] = SpiPlace(L, E + 1 + 1)
      BY <1>2, <1>3, <1>4, <2>2 DEF SpiBefore
    <3>2. E + 1 + 1 \in 1 .. L
      BY <1>3, <2>2
    <3>3. SpiPlace(L, E + 1 + 1) \in Spi!Slots /\ SpiPlace(L, E + 1 + 1) # None
      BY <1>2, <3>2, SpiSlots DEF SpiBefore
    <3>4. onto' = SpiPlace(L, E + 1 + 1) /\ on'
      BY <1>0, <3>1, <3>3
    <3>5. SpiDone(L, E + 1)'
      BY <1>0, <1>3, <1>4, <1>5, <1>6, <2>2, <3>4 DEF SpiDone
    <3> QED
      BY <1>0, <3>1, <3>3, <3>4, <3>5
  <2> QED
    BY <1>4, <2>1, <2>2
<1>10. Spi!TypeOK'
  BY <1>0, <1>5, <1>9 DEF Spi!TypeOK
<1>11. SpiStarted(L, E + 1)'
  BY <1>0, <1>2, <1>7, <1>8, <1>9 DEF SpiStarted, SpiBefore
<1>12. /\ SpiInv' /\ SpiQueue' = [n \in 1 .. L |-> arg'[SpiPlace(L, n)']]
       /\ Spi!Ended' = E + 1
  BY <1>10, <1>11, SpiThen
<1>13. SpiQueue' = SpiQueue
  <2>1. \A n : arg'[SpiPlace(L, n)'] = arg[SpiPlace(L, n)]
    BY <1>0, <1>6
  <2> QED
    BY <1>2, <1>12, <2>1 DEF SpiBefore
<1>14. Spi!Ended = E /\ Len(SpiQueue) = L
  BY <1>2 DEF SpiBefore
<1> QED
  BY <1>3, <1>12, <1>13, <1>14 DEF SpiMoves, SpiQueue, Spi!AQ!Next, Spi!AQ!Copy

\* Nothing is appended.
LEMMA SpiInitInv ==
    ASSUME Spi!SpiAssumption, Spi!Init
    PROVE  SpiInv /\ Spi!AQ!Init
<1>0. Count \in Nat /\ 0 \in Spi!Slots
  BY SpiSlots
<1>1. Spi!TypeOK
  <2>1. next \in [Spi!Slots \cup {Spi!Dummy} -> Spi!Slots \cup {None}]
    BY <1>0 DEF Spi!Init
  <2>2. arg \in [Spi!Slots -> Transfers \cup {None}]
    BY DEF Spi!Init
  <2>3. 0 \in -1 .. Count
    BY <1>0
  <2>4. /\ use \in Spi!Slots /\ unrecycled \in -1 .. Count
        /\ {tail, onto, eof} \subseteq Spi!Slots \cup {None}
        /\ head \in Spi!Slots \cup {Spi!Dummy, None}
    BY <1>0, <2>3 DEF Spi!Init
  <2>5. /\ started \in BOOLEAN /\ on \in BOOLEAN
        /\ append \in {"out", "link", "restart", "count"}
        /\ out \in Transfers \cup {None}
    BY DEF Spi!Init
  <2> QED
    BY <2>1, <2>2, <2>4, <2>5 DEF Spi!TypeOK
<1>2. SpiIdle
  <2>1. next[Spi!Dummy] = 0
    BY DEF Spi!Init
  <2> QED
    BY <2>1 DEF Spi!Init, SpiIdle
<1>3. SpiQueue = <<>> /\ Spi!Ended = 0
  BY <1>2, SpiUnstarted DEF SpiIdle
<1> QED
  BY <1>1, <1>2, <1>3 DEF SpiInv, SpiQueue, Spi!AQ!Init

\* Each step preserves the invariant and is one of the queue.
LEMMA SpiNextInv ==
    ASSUME Spi!SpiAssumption, SpiPlain, SpiInv, [Spi!Next]_(Spi!vars)
    PROVE  SpiInv' /\ SpiMoves
<1>1. CASE UNCHANGED Spi!vars
  <2>1. UNCHANGED <<SpiQueue, Spi!Ended>>
    BY <1>1 DEF Spi!vars, SpiQueue, Spi!Ended, Spi!Chain, Spi!Range,
                Spi!Cardinality
  <2>2. SpiInv'
    BY <1>1 DEF Spi!vars, SpiInv, Spi!TypeOK, SpiIdle, SpiStarted, SpiLinked,
                SpiCounted, SpiDone, SpiPlace, SpiBack, Spi!Slots, Spi!Dummy,
                Spi!Succ
  <2> QED
    BY <2>1, <2>2 DEF SpiMoves
<1>2. CASE \E t \in Transfers : Spi!Fill(t)
  BY <1>2, SpiFill DEF SpiMoves
<1>3. CASE Spi!Start
  BY <1>3, SpiStart
<1>4. CASE Spi!Link
  BY <1>4, SpiLink
<1>5. CASE Spi!Restart \/ Spi!Advance
  BY <1>5, SpiRestart DEF SpiMoves
<1>6. CASE Spi!GetFinished
  BY <1>6, SpiGetFinished
<1>7. CASE Spi!DmaEnd
  BY <1>7, SpiDmaEnd
<1> QED
  BY <1>1, <1>2, <1>3, <1>4, <1>5, <1>6, <1>7 DEF Spi!Next

\* The invariant holds.
LEMMA SpiInvariance ==
    ASSUME Spi!SpiAssumption, SpiPlain
    PROVE  Spi!Spec => []SpiInv
<1>1. Spi!Init => SpiInv
  BY SpiInitInv
<1>2. SpiInv /\ [Spi!Next]_(Spi!vars) => SpiInv'
  BY SpiNextInv
<1> QED
  BY <1>1, <1>2, PTL DEF Spi!Spec

\* What the invariant says of what the run checks.
LEMMA SpiImplied ==
    ASSUME Spi!SpiAssumption, SpiInv
    PROVE  Spi!HeadAsserts /\ Spi!NothingForgotten
<1>1. CASE SpiIdle
  <2>1. Spi!Chain = <<>> /\ Spi!Ended = 0 /\ Len(<<>>) = 0
    BY <1>1, SpiUnstarted DEF SpiIdle
  <2> QED
    BY <1>1, <2>1, SpiSlots DEF SpiIdle, Spi!HeadAsserts, Spi!NothingForgotten
<1>2. ASSUME NEW L, NEW E, SpiStarted(L, E)
      PROVE  Spi!HeadAsserts /\ Spi!NothingForgotten
  <2>1. SpiBefore(L, E) /\ SpiShown /\ Spi!TypeOK
    BY <1>2, SpiKnown, SpiChain DEF SpiInv
  <2>2. head # None
    <3>1. 0 \in 0 .. L
      BY <2>1 DEF SpiBefore
    <3> QED
      BY <2>1, <3>1 DEF SpiBefore
  <2>3. head = eof => E = 0
    BY <1>2, <2>1, <2>2 DEF SpiStarted, SpiDone, SpiBefore
  <2>4. Spi!Chain = [n \in 1 .. L |-> SpiPlace(L, n)]
    BY <1>2, <2>1 DEF SpiShown
  <2>5. Len(Spi!Chain) = L
    BY <2>1, <2>4 DEF SpiBefore
  <2>6. E < L => on \/ append = "restart"
    BY <1>2 DEF SpiStarted, SpiDone
  <2> QED
    BY <2>1, <2>2, <2>3, <2>5, <2>6
       DEF SpiBefore, Spi!HeadAsserts, Spi!NothingForgotten
<1> QED
  BY <1>1, <1>2 DEF SpiInv

\* The chain of descriptors that transfers are appended to, while the DMA is
\* working on it, implements a queue: transfers are given back once each, in
\* their order, and none before it has ended.
THEOREM SpiPromised ==
    ASSUME Spi!SpiAssumption, SpiPlain
    PROVE  Spi!Spec => Spi!Promised
<1>1. Spi!Init => Spi!AQ!Init
  BY SpiInitInv
<1>2. SpiInv /\ [Spi!Next]_(Spi!vars) => [Spi!AQ!Next]_(Spi!AQ!vars)
  BY SpiNextInv DEF SpiMoves, SpiQueue, Spi!AQ!vars
<1> QED
  BY <1>1, <1>2, SpiInvariance, PTL DEF Spi!Spec, Spi!Promised, Spi!AQ!Spec

\* The handler never runs off the chain or takes what has ended for what was
\* given back last, and what is linked is worked on or about to be.
THEOREM SpiHeads ==
    ASSUME Spi!SpiAssumption, SpiPlain
    PROVE  Spi!Spec => [](/\ Spi!TypeOK /\ Spi!HeadAsserts
                          /\ Spi!NothingForgotten)
<1>1. SpiInv => Spi!TypeOK /\ Spi!HeadAsserts /\ Spi!NothingForgotten
  BY SpiImplied DEF SpiInv
<1> QED
  BY <1>1, SpiInvariance, PTL

-----------------------------------------------------------------------------
\* The ring of the sending half of the SDIO slave.
CONSTANTS QueueSize, SendBuffers, Lengths, MaxTotal, SendLiberties

VARIABLES mode, link, desc, write, read, free, state, flight, end, after,
          returned, total, pktLen, dma, invoked, routine, given, space

Send == INSTANCE SdioSend WITH
    Buffers <- SendBuffers, Liberties <- SendLiberties, head <- flight,
    tail <- total, isr <- routine, out <- given

\* Sending is not started with a packet in flight, nor the counter reset with
\* packets queued.
SendPlain == "restart" \notin SendLiberties /\ "recount" \notin SendLiberties

\* The descriptor n places after i.
SendAt(i, n) ==
    IF i + n < QueueSize + 1 THEN i + n ELSE i + n - (QueueSize + 1)

\* Types of the state.
SendTypes ==
    /\ mode \in {"packet", "stream"}
    /\ desc \in [Send!Slots -> [arg : SendBuffers \cup {None}, len : Nat,
                                pkt : 0 .. MaxTotal]]
    /\ {write, read, free} \subseteq Send!Slots
    /\ state \in {"idle", "wait", "sending", "result", "unsent"}
    /\ {flight, end, after} \subseteq Send!Slots \cup {None}
    /\ total \in 0 .. MaxTotal
    /\ pktLen \in 0 .. MaxTotal
    /\ dma \in {"off", "sending", "eof"}
    /\ invoked \in BOOLEAN
    /\ routine \in {"off", "results", "packet"}
    /\ given \in SendBuffers \cup {None}

\* d descriptors are in flight or have come back of what was, w wait.
SendRing(d, w) ==
    /\ d \in Nat /\ w \in Nat /\ space \in Nat /\ d + w + space <= QueueSize
    /\ read = SendAt(free, d) /\ write = SendAt(free, d + w)

\* The ring is closed, or the part in flight cut out of it.
SendLinks(d) ==
    IF flight = None
    THEN d = 0 /\ link = [i \in Send!Slots |-> Send!Succ(i)]
    ELSE /\ d > 0 /\ flight = SendAt(free, 1)
         /\ end = read /\ after = Send!Succ(read)
         /\ link = [i \in Send!Slots |->
                       IF i = read THEN None ELSE Send!Succ(i)]

\* k of those in flight have come back.
SendBack(d, k) ==
    /\ k \in 0 .. d
    /\ IF state = "result"
       THEN /\ k > 0 /\ flight # None
            /\ returned = IF k = d THEN None ELSE SendAt(free, k + 1)
       ELSE k = 0 /\ returned = None

\* What the states of sending, of the routine and of the DMA go with.
SendStage(w) ==
    /\ state \in {"wait", "unsent"} => flight = None
    /\ state = "sending" => flight # None /\ (routine # "results" => dma # "off")
    /\ routine = "results" => state \in {"sending", "result"} /\ dma = "off"
    /\ routine = "packet" => state \in {"wait", "sending"}
    /\ dma = "sending" => state = "sending"
    /\ dma = "eof" => state # "wait"
    /\ routine = "off" /\ flight = None /\ w > 0 /\ state # "unsent" => invoked

\* The length that the n-th of them was queued with, after those before.
SendPkt(n) == IF n = 0 THEN pktLen ELSE desc[SendAt(free, n)].pkt

\* It is that of the one before and its own.
SendAdds(n) == SendPkt(n) = SendPkt(n - 1) + desc[SendAt(free, n)].len

\* The lengths of those that wait.
SendWaiting(d, w) ==
    state # "unsent" => /\ total = SendPkt(d + w)
                        /\ \A n \in d + 1 .. d + w : SendAdds(n)

\* The lengths of those in flight; the counter may have been reset
\* before the first.
SendFlown(d) ==
    /\ d > 0 => desc[SendAt(free, 1)].len <= SendPkt(1)
    /\ \A n \in 2 .. d : SendAdds(n)
    /\ state = "sending" \/ routine = "results" => pktLen = SendPkt(d)

\* All of this.
SendState(d, w, k) ==
    /\ SendRing(d, w) /\ SendLinks(d) /\ SendBack(d, k) /\ SendStage(w)
    /\ SendWaiting(d, w) /\ SendFlown(d)

\* The invariant.
SendInv ==
    SendTypes /\ \E d, w, k \in 0 .. QueueSize : SendState(d, w, k)

\* Places around the ring,
LEMMA SendAround ==
    ASSUME Send!SendAssumption, NEW i \in Send!Slots, NEW n \in 0 .. QueueSize
    PROVE  /\ (i + n) % (QueueSize + 1) = SendAt(i, n)
           /\ SendAt(i, n) \in Send!Slots /\ SendAt(i, n) # None
<1>0. /\ QueueSize \in Nat /\ None \notin Send!Slots
      /\ Send!Slots = 0 .. QueueSize
  BY DEF Send!SendAssumption, Send!Slots
<1>1. i + n \in 0 .. 2 * (QueueSize + 1) - 1 /\ i \in 0 .. QueueSize
  BY <1>0
<1> DEFINE x == i + n
           C == QueueSize + 1
<1>2. x \in 0 .. 2 * C - 1 /\ C \in Nat \ {0}
  BY <1>0, <1>1
<1> HIDE DEF x, C
<1>3. x % C = IF x < C THEN x ELSE x - C
  BY <1>2, Remainder
<1>4. (i + n) % (QueueSize + 1) = SendAt(i, n)
  <2>1. SendAt(i, n) = IF x < C THEN x ELSE x - C
    BY <1>0, <1>1 DEF SendAt, x, C
  <2>2. x % C = SendAt(i, n)
    BY <1>3, <2>1
  <2> QED
    BY <2>2, Zenon DEF x, C
<1>5. SendAt(i, n) \in 0 .. QueueSize
  BY <1>0, <1>1 DEF SendAt
<1> QED
  BY <1>0, <1>4, <1>5

\* which are not the same,
LEMMA SendApart ==
    ASSUME Send!SendAssumption, NEW i \in Send!Slots,
           NEW m \in 0 .. QueueSize, NEW n \in 0 .. QueueSize,
           SendAt(i, m) = SendAt(i, n)
    PROVE  m = n
<1>1. QueueSize \in Nat /\ i \in 0 .. QueueSize
  BY DEF Send!SendAssumption, Send!Slots
<1> QED
  BY <1>1 DEF SendAt

\* follow one another
LEMMA SendSucc ==
    ASSUME Send!SendAssumption, NEW i \in Send!Slots
    PROVE  /\ Send!Succ(i) = IF i = QueueSize THEN 0 ELSE i + 1
           /\ Send!Succ(i) \in Send!Slots
<1>1. /\ QueueSize \in Nat /\ Send!Slots = 0 .. QueueSize
      /\ i \in 0 .. QueueSize /\ i + 1 \in 0 .. 2 * (QueueSize + 1) - 1
  BY DEF Send!SendAssumption, Send!Slots
<1> DEFINE x == i + 1
           C == QueueSize + 1
<1>2. x \in 0 .. 2 * C - 1 /\ C \in Nat \ {0}
  BY <1>1
<1> HIDE DEF x, C
<1>3. x % C = IF x < C THEN x ELSE x - C
  BY <1>2, Remainder
<1>4. Send!Succ(i) = IF i = QueueSize THEN 0 ELSE i + 1
  BY <1>1, <1>3 DEF Send!Succ, x, C
<1> QED
  BY <1>1, <1>4

\* place by place,
LEMMA SendNext ==
    ASSUME Send!SendAssumption, NEW i \in Send!Slots, NEW n \in 0 .. QueueSize,
           n < QueueSize
    PROVE  Send!Succ(SendAt(i, n)) = SendAt(i, n + 1)
<1>1. /\ QueueSize \in Nat /\ i \in 0 .. QueueSize
  BY DEF Send!SendAssumption, Send!Slots
<1>2. SendAt(i, n) \in Send!Slots
  BY SendAround
<1>3. Send!Succ(SendAt(i, n)) = IF SendAt(i, n) = QueueSize THEN 0
                                ELSE SendAt(i, n) + 1
  BY <1>2, SendSucc
<1> QED
  BY <1>1, <1>3 DEF SendAt

\* and are counted back.
LEMMA SendFrom ==
    ASSUME Send!SendAssumption, NEW i \in Send!Slots, NEW n \in 0 .. QueueSize
    PROVE  (SendAt(i, n) + QueueSize + 1 - i) % (QueueSize + 1) = n
<1>1. QueueSize \in Nat /\ i \in 0 .. QueueSize
  BY DEF Send!SendAssumption, Send!Slots
<1> DEFINE x == SendAt(i, n) + QueueSize + 1 - i
           C == QueueSize + 1
<1>2. /\ x = IF i + n < QueueSize + 1 THEN n + (QueueSize + 1) ELSE n
      /\ C = QueueSize + 1
  BY <1>1 DEF SendAt
<1>3. x \in 0 .. 2 * C - 1 /\ C \in Nat \ {0}
  BY <1>1, <1>2
<1> HIDE DEF x, C
<1>4. x % C = IF x < C THEN x ELSE x - C
  BY <1>3, Remainder
<1>5. x % C = n
  BY <1>1, <1>2, <1>4
<1> QED
  BY <1>5 DEF x, C

\* The descriptors.
LEMMA SendPlaces ==
    ASSUME Send!SendAssumption
    PROVE  /\ QueueSize \in Nat /\ 0 \in Send!Slots /\ None \notin Send!Slots
           /\ Send!Slots = 0 .. QueueSize
           /\ \A i \in Send!Slots : Send!Succ(i) \in Send!Slots
<1>1. /\ QueueSize \in Nat /\ None \notin Send!Slots
      /\ Send!Slots = 0 .. QueueSize
  BY DEF Send!SendAssumption, Send!Slots
<1>2. \A i \in Send!Slots : Send!Succ(i) \in Send!Slots
  BY SendSucc
<1>3. 0 \in Send!Slots
  BY <1>1
<1> QED
  BY <1>1, <1>2, <1>3

\* The instance's finite sets are those of the library.
LEMMA SendLibrary ==
    \A S : /\ Send!IsFiniteSet(S) = IsFiniteSet(S)
           /\ Send!Cardinality(S) = Cardinality(S)
BY DEF Send!IsFiniteSet, Send!Cardinality, IsFiniteSet, Cardinality

\* The walk from the first in flight that has not come back.
LEMMA SendWalk ==
    ASSUME Send!SendAssumption, free \in Send!Slots, NEW d \in 1 .. QueueSize,
           NEW k \in 0 .. QueueSize, k < d, read = SendAt(free, d),
           link = [i \in Send!Slots |->
                      IF i = read THEN None ELSE Send!Succ(i)]
    PROVE  Send!Walk(SendAt(free, k + 1)) =
              [n \in 1 .. d - k |-> SendAt(free, k + n)]
<1> DEFINE L == d - k
           p(n) == SendAt(free, k + 1 + n)
           start == SendAt(free, k + 1)
<1>0. /\ QueueSize \in Nat /\ L \in Nat /\ L > 0 /\ L - 1 \in 0 .. QueueSize
      /\ L <= QueueSize /\ d \in Nat /\ k \in Nat /\ k + L = d
  BY SendPlaces
<1>1. /\ \A n \in 0 .. L - 1 : k + 1 + n \in 0 .. QueueSize
      /\ \A n \in 0 .. L - 1 : n < L - 1 => k + 1 + n < d
      /\ \A n \in 0 .. L - 1 : n = L - 1 => k + 1 + n = d
      /\ k + 1 + 0 = k + 1
      /\ \A n \in 0 .. L - 1 : k + 1 + n + 1 = k + 1 + (n + 1)
  BY <1>0
<1>2. /\ p(0) = start
      /\ \A n \in 0 .. L - 1 : p(n) \in Send!Slots /\ p(n) # None
  <2>1. \A n \in 0 .. L - 1 : SendAt(free, k + 1 + n) \in Send!Slots
                            /\ SendAt(free, k + 1 + n) # None
    BY <1>1, SendAround
  <2> QED
    BY <1>1, <2>1
<1>3. \A n \in 0 .. L - 1 :
          link[p(n)] = IF n = L - 1 THEN None ELSE p(n + 1)
  <2> SUFFICES ASSUME NEW n \in 0 .. L - 1
               PROVE  link[p(n)] = IF n = L - 1 THEN None ELSE p(n + 1)
    OBVIOUS
  <2>1. CASE n = L - 1
    <3>1. p(n) = read
      BY <1>1, <2>1
    <3> QED
      BY <1>2, <2>1, <3>1
  <2>2. CASE n # L - 1
    <3>1. n < L - 1 /\ k + 1 + n \in 0 .. QueueSize /\ d \in 0 .. QueueSize
      BY <1>0, <1>1, <2>2
    <3>2. k + 1 + n # d /\ k + 1 + n < QueueSize
      BY <1>0, <1>1, <3>1
    <3>3. p(n) # read
      BY <3>1, <3>2, SendApart
    <3>4. link[p(n)] = Send!Succ(p(n))
      BY <1>2, <3>3
    <3>5. Send!Succ(p(n)) = SendAt(free, k + 1 + n + 1)
      BY <3>1, <3>2, SendNext
    <3> QED
      BY <1>1, <2>2, <3>4, <3>5
  <2> QED
    BY <2>1, <2>2
<1> DEFINE Is(f) == f = [n \in Send!Slots |->
                           IF n = 0 THEN start
                           ELSE IF f[n - 1] = None THEN None
                           ELSE link[f[n - 1]]]
           g == [n \in 0 .. QueueSize |-> IF n < L THEN p(n) ELSE None]
<1> HIDE DEF p, start
<1>4. Follows(g, QueueSize, start, link)
  <2> DEFINE h == [n \in 0 .. QueueSize |->
                           IF n = 0 THEN start
                           ELSE IF g[n - 1] = None THEN None
                           ELSE link[g[n - 1]]]
  <2>1. ASSUME NEW n \in 0 .. QueueSize PROVE g[n] = h[n]
    <3>1. CASE n = 0
      BY <1>0, <1>2, <3>1
    <3>2. CASE n # 0 /\ n < L
      <4>1. /\ n - 1 \in 0 .. L - 1 /\ n - 1 # L - 1 /\ n - 1 < L
            /\ n - 1 + 1 = n /\ n - 1 \in 0 .. QueueSize
        BY <3>2, <1>0
      <4>2. g[n - 1] = p(n - 1) /\ g[n - 1] # None
        BY <4>1, <1>2
      <4>3. link[g[n - 1]] = p(n)
        BY <4>1, <4>2, <1>3
      <4> QED
        BY <3>2, <4>2, <4>3
    <3>3. CASE n = L
      <4>1. /\ n - 1 = L - 1 /\ L - 1 \in 0 .. L - 1 /\ n - 1 \in 0 .. QueueSize
            /\ n # 0 /\ ~(n < L) /\ n - 1 < L
        BY <3>3, <1>0
      <4>2. g[n - 1] = p(L - 1) /\ g[n - 1] # None
        BY <4>1, <1>2
      <4>3. link[g[n - 1]] = None
        BY <4>1, <4>2, <1>3
      <4> QED
        BY <4>1, <4>2, <4>3
    <3>4. CASE n > L
      <4>1. n - 1 \in 0 .. QueueSize /\ n # 0 /\ ~(n < L) /\ ~(n - 1 < L)
        BY <3>4, <1>0
      <4>2. g[n - 1] = None
        BY <4>1
      <4> QED
        BY <4>1, <4>2
    <3> QED
      BY <1>0, <3>1, <3>2, <3>3, <3>4
  <2>2. g = h
    <3>1. g = [n \in 0 .. QueueSize |-> g[n]]
      OBVIOUS
    <3>2. h = [n \in 0 .. QueueSize |-> h[n]]
      OBVIOUS
    <3> HIDE DEF g, h
    <3> QED
      BY <2>1, <3>1, <3>2
  <2>3. h = [n \in 0 .. QueueSize |->
                           IF n = 0 THEN start
                           ELSE IF g[n - 1] = None THEN None
                           ELSE link[g[n - 1]]]
    OBVIOUS
  <2> HIDE DEF g, h
  <2> QED
    BY <2>2, <2>3, Zenon DEF Follows
<1>5. PICK r : r = CHOOSE f : Is(f)
  OBVIOUS
<1>6. r = g
  <2>0. Send!Slots = 0 .. QueueSize
    BY SendPlaces
  <2>1. Is(g)
    <3> HIDE DEF g
    <3> QED
      BY <1>4, <2>0, Zenon DEF Follows
  <2>2. Is(r)
    <3> HIDE DEF Is, g
    <3> QED
      BY <1>5, <2>1, Zenon
  <2>3. Follows(r, QueueSize, start, link)
    BY <2>0, <2>2, Zenon DEF Follows
  <2> HIDE DEF g
  <2> QED
    BY <1>0, <1>4, <2>3, FollowsOne
<1>7. Send!Walk(start) =
        [n \in 1 .. Send!Cardinality({m \in Send!Slots : r[m] # None})
           |-> r[n - 1]]
  BY <1>5 DEF Send!Walk, Is
<1>8. {m \in Send!Slots : r[m] # None} = 0 .. L - 1
  BY <1>0, <1>2, <1>6, SendPlaces
<1>9. Send!Cardinality(0 .. L - 1) = L
  BY <1>0, SendLibrary, FS_Interval
<1>10. Send!Walk(start) = [n \in 1 .. L |-> r[n - 1]]
  BY <1>7, <1>8, <1>9
<1>11. \A n \in 1 .. L : r[n - 1] = SendAt(free, k + n)
  <2> SUFFICES ASSUME NEW n \in 1 .. L PROVE r[n - 1] = SendAt(free, k + n)
    OBVIOUS
  <2>1. n - 1 \in 0 .. QueueSize /\ n - 1 < L /\ k + 1 + (n - 1) = k + n
    BY <1>0
  <2> QED
    BY <1>6, <2>1 DEF p
<1> QED
  BY <1>10, <1>11 DEF start

\* A place from a place.
LEMMA SendFurther ==
    ASSUME Send!SendAssumption, NEW i \in Send!Slots,
           NEW m \in 0 .. QueueSize, NEW n \in 0 .. QueueSize, m + n <= QueueSize
    PROVE  SendAt(SendAt(i, m), n) = SendAt(i, m + n)
<1>1. QueueSize \in Nat /\ Send!Slots = 0 .. QueueSize
  BY SendPlaces
<1> QED
  BY <1>1 DEF SendAt

-----------------------------------------------------------------------------
\* Two sequences of numbers that grow alike.
LEMMA Telescope ==
    ASSUME NEW L \in Nat, NEW f, NEW g, NEW x, f[0] \in Int, g[0] \in Int,
           \A n \in 1 .. L : /\ x[n] \in Int
                             /\ f[n] = f[n - 1] + x[n]
                             /\ g[n] = g[n - 1] + x[n]
    PROVE  /\ f[L] \in Int /\ g[L] \in Int
           /\ f[L] - f[0] = g[L] - g[0]
<1> DEFINE S == {n \in Nat : n <= L => /\ f[n] \in Int /\ g[n] \in Int
                                       /\ f[n] - f[0] = g[n] - g[0]}
<1>1. 0 \in S
  <2>1. f[0] - f[0] = g[0] - g[0]
    OBVIOUS
  <2> QED
    BY <2>1
<1>2. ASSUME NEW n \in Nat, n \in S PROVE n + 1 \in S
  <2>1. SUFFICES ASSUME n + 1 <= L
                 PROVE  /\ f[n + 1] \in Int /\ g[n + 1] \in Int
                        /\ f[n + 1] - f[0] = g[n + 1] - g[0]
    OBVIOUS
  <2>2. n <= L /\ n + 1 \in 1 .. L /\ n + 1 - 1 = n
    BY <2>1
  <2>3. f[n] \in Int /\ g[n] \in Int /\ f[n] - f[0] = g[n] - g[0]
    BY <1>2, <2>2
  <2>4. /\ x[n + 1] \in Int /\ f[n + 1] = f[n] + x[n + 1]
        /\ g[n + 1] = g[n] + x[n + 1]
    BY <2>2
  <2> QED
    BY <2>3, <2>4
<1>3. Nat \subseteq S
  BY <1>1, <1>2, Induct
<1> QED
  BY <1>3

\* The sums of numbers,
Sums(f, L, g) ==
    f = [n \in 0 .. L |-> IF n = 0 THEN 0 ELSE f[n - 1] + g[n]]

\* which there are.
LEMMA SumsExist ==
    ASSUME NEW L \in Nat, NEW g \in [1 .. L -> Nat]
    PROVE  \E f : Sums(f, L, g)
<1> DEFINE F(f, l) == /\ f \in [0 .. l -> Nat] /\ f[0] = 0
                      /\ \A n \in 1 .. l : f[n] = f[n - 1] + g[n]
           S == {l \in Nat : l <= L => \E f : F(f, l)}
<1>1. 0 \in S
  <2>1. F([n \in 0 .. 0 |-> 0], 0)
    OBVIOUS
  <2> QED
    BY <2>1
<1>2. ASSUME NEW l \in Nat, l \in S PROVE l + 1 \in S
  <2> HIDE DEF F
  <2>1. SUFFICES ASSUME l + 1 <= L PROVE \E f : F(f, l + 1)
    OBVIOUS
  <2>2. PICK f : F(f, l)
    BY <1>2, <2>1
  <2> USE DEF F
  <2> DEFINE h == [n \in 0 .. l + 1 |-> IF n = l + 1 THEN f[l] + g[l + 1]
                                        ELSE f[n]]
  <2>3. f[l] \in Nat /\ g[l + 1] \in Nat
    BY <2>1, <2>2
  <2>4. h \in [0 .. l + 1 -> Nat] /\ h[0] = 0
    BY <2>2, <2>3
  <2>5. ASSUME NEW n \in 1 .. l + 1 PROVE h[n] = h[n - 1] + g[n]
    <3>1. n - 1 \in 0 .. l /\ n - 1 # l + 1 /\ n - 1 \in 0 .. l + 1
      OBVIOUS
    <3>2. h[n - 1] = f[n - 1]
      BY <3>1
    <3>3. CASE n = l + 1
      <4>1. n - 1 = l
        BY <3>3
      <4> QED
        BY <3>2, <3>3, <4>1
    <3>4. CASE n # l + 1
      <4>1. n \in 1 .. l /\ n \in 0 .. l + 1
        BY <3>4
      <4>2. h[n] = f[n]
        BY <3>4, <4>1
      <4> QED
        BY <2>2, <3>2, <4>1, <4>2
    <3> QED
      BY <3>3, <3>4
  <2>6. F(h, l + 1)
    BY <2>4, <2>5
  <2> HIDE DEF h, F
  <2> QED
    BY <2>6
<1> HIDE DEF F
<1>3. L \in S
  BY <1>1, <1>2, Induct
<1>4. PICK f : F(f, L)
  BY <1>3
<1> USE DEF F
<1> DEFINE h == [n \in 0 .. L |-> IF n = 0 THEN 0 ELSE f[n - 1] + g[n]]
<1>5. ASSUME NEW n \in 0 .. L PROVE f[n] = h[n]
  <2>1. n = 0 \/ n \in 1 .. L
    OBVIOUS
  <2> QED
    BY <1>4, <2>1
<1>6. f = h
  <2>1. f = [n \in 0 .. L |-> f[n]] /\ h = [n \in 0 .. L |-> h[n]]
    BY <1>4
  <2> HIDE DEF h, F
  <2> QED
    BY <1>5, <2>1
<1>7. h = [n \in 0 .. L |-> IF n = 0 THEN 0 ELSE f[n - 1] + g[n]]
  OBVIOUS
<1> HIDE DEF h, F
<1>8. Sums(f, L, g)
  BY <1>6, <1>7, Zenon DEF Sums
<1> QED
  BY <1>8

\* Totals adds up the lengths of descriptors.
LEMMA SendTotals ==
    ASSUME SendTypes, NEW L \in Nat, NEW s \in [1 .. L -> Send!Slots]
    PROVE  /\ Len(s) = L
           /\ Send!Totals(s)[0] = 0
           /\ \A n \in 1 .. L :
                 Send!Totals(s)[n] = Send!Totals(s)[n - 1] + desc[s[n]].len
<1> DEFINE Is(f) == f = [n \in 0 .. Len(s) |->
                           IF n = 0 THEN 0 ELSE f[n - 1] + desc[s[n]].len]
           g == [n \in 1 .. L |-> desc[s[n]].len]
<1>1. Len(s) = L
  <2>1. s = [n \in 1 .. L |-> s[n]]
    OBVIOUS
  <2>2. Len([n \in 1 .. L |-> s[n]]) = L
    OBVIOUS
  <2> QED
    BY <2>1, <2>2, Zenon
<1>2. g \in [1 .. L -> Nat]
  BY DEF SendTypes
<1>3. PICK e : Sums(e, L, g)
  <2> HIDE DEF g
  <2> QED
    BY <1>2, SumsExist
<1>4. Is(e)
  <2> DEFINE a == [n \in 0 .. L |-> IF n = 0 THEN 0 ELSE e[n - 1] + g[n]]
             c == [n \in 0 .. Len(s) |->
                           IF n = 0 THEN 0 ELSE e[n - 1] + desc[s[n]].len]
  <2>1. \A n \in 0 .. L : n # 0 => n \in 1 .. L
    OBVIOUS
  <2>2. \A n \in 0 .. L : a[n] = c[n]
    BY <1>1, <2>1
  <2>3. a = [n \in 0 .. L |-> a[n]] /\ c = [n \in 0 .. L |-> c[n]]
    BY <1>1
  <2>4. a = c
    <3> HIDE DEF a, c
    <3> QED
      BY <2>2, <2>3
  <2>5. e = a
    BY <1>3, Zenon DEF Sums
  <2> QED
    BY <2>4, <2>5, Zenon
<1>5. PICK r : r = CHOOSE f : Is(f)
  OBVIOUS
<1>6. Is(r)
  <2> HIDE DEF Is
  <2> QED
    BY <1>4, <1>5, Zenon
<1>7. Send!Totals(s) = r
  BY <1>5 DEF Send!Totals, Is
<1>8. r[0] = 0 /\ \A n \in 1 .. L : r[n] = r[n - 1] + desc[s[n]].len
  <2>1. r = [n \in 0 .. L |-> IF n = 0 THEN 0 ELSE r[n - 1] + desc[s[n]].len]
    BY <1>1, <1>6, Zenon
  <2>2. 0 \in 0 .. L /\ \A n \in 1 .. L : n \in 0 .. L /\ n # 0
    OBVIOUS
  <2> QED
    BY <2>1, <2>2
<1> QED
  BY <1>1, <1>7, <1>8

-----------------------------------------------------------------------------
\* The queue that the ring stands for.
SendHeld == [n \in 1 .. Len(Send!Flying \o Send!Behind) |->
                desc[(Send!Flying \o Send!Behind)[n]].arg]

\* What Flying, Behind, Distance and the queue are.
SendShown ==
    \A d, w, k \in 0 .. QueueSize :
        SendTypes /\ SendRing(d, w) /\ SendLinks(d) /\ SendBack(d, k) =>
            /\ Send!Flying = [n \in 1 .. d - k |-> SendAt(free, k + n)]
            /\ Send!Behind = [n \in 1 .. w |-> SendAt(read, n)]
            /\ Send!Distance = d
            /\ SendHeld = [n \in 1 .. d - k + w |-> desc[SendAt(free, k + n)].arg]

\* They are, in each state,
LEMMA SendShows == ASSUME Send!SendAssumption PROVE SendShown
<1> SUFFICES ASSUME NEW d \in 0 .. QueueSize, NEW w \in 0 .. QueueSize,
                    NEW k \in 0 .. QueueSize, SendTypes, SendRing(d, w),
                    SendLinks(d), SendBack(d, k)
             PROVE
            /\ Send!Flying = [n \in 1 .. d - k |-> SendAt(free, k + n)]
            /\ Send!Behind = [n \in 1 .. w |-> SendAt(read, n)]
            /\ Send!Distance = d
            /\ SendHeld = [n \in 1 .. d - k + w |-> desc[SendAt(free, k + n)].arg]
  BY DEF SendShown
<1> DEFINE fly == [n \in 1 .. d - k |-> SendAt(free, k + n)]
           behind == [n \in 1 .. w |-> SendAt(read, n)]
           all == [n \in 1 .. d - k + w |-> SendAt(free, k + n)]
<1>0. /\ QueueSize \in Nat /\ d \in Nat /\ w \in Nat /\ k \in Nat /\ k <= d
      /\ d + w <= QueueSize /\ free \in Send!Slots /\ read \in Send!Slots
      /\ read = SendAt(free, d) /\ write = SendAt(free, d + w)
      /\ d - k \in Nat /\ d - k + w \in Nat /\ d + w \in 0 .. QueueSize
  <2>1. /\ QueueSize \in Nat /\ space \in Nat /\ d \in Nat /\ w \in Nat
        /\ k \in 0 .. d /\ d + w + space <= QueueSize
        /\ free \in Send!Slots /\ read \in Send!Slots
        /\ read = SendAt(free, d) /\ write = SendAt(free, d + w)
    BY SendPlaces DEF SendTypes, SendRing, SendBack
  <2>2. k \in Nat /\ k <= d /\ d + w <= QueueSize
    BY <2>1
  <2> QED
    BY <2>1, <2>2
<1>1. Send!Flying = fly
  <2>1. CASE state = "result"
    <3>1. flight # None /\ returned = IF k = d THEN None ELSE SendAt(free, k + 1)
      BY <2>1 DEF SendBack
    <3>2. CASE k = d
      <4>1. Send!Flying = <<>> /\ 1 .. d - k = {}
        BY <1>0, <2>1, <3>1, <3>2 DEF Send!Flying
      <4> QED
        BY <4>1
    <3>3. CASE k # d
      <4>1. k < d /\ d \in 1 .. QueueSize /\ k + 1 \in 0 .. QueueSize
        BY <1>0, <3>3
      <4>2. returned # None
        BY <1>0, <3>1, <3>3, <4>1, SendAround
      <4>3. Send!Flying = Send!Walk(SendAt(free, k + 1))
        BY <2>1, <3>1, <3>3, <4>2 DEF Send!Flying
      <4>4. link = [i \in Send!Slots |->
                       IF i = read THEN None ELSE Send!Succ(i)]
        BY <3>1 DEF SendLinks
      <4> QED
        BY <1>0, <4>1, <4>3, <4>4, SendWalk
    <3> QED
      BY <3>2, <3>3
  <2>2. CASE state # "result" /\ flight = None
    <3>1. Send!Flying = <<>> /\ d = 0 /\ k = 0 /\ 1 .. d - k = {}
      BY <2>2 DEF Send!Flying, SendLinks, SendBack
    <3> QED
      BY <3>1
  <2>3. CASE state # "result" /\ flight # None
    <3>1. /\ d > 0 /\ flight = SendAt(free, 1) /\ k = 0
          /\ link = [i \in Send!Slots |->
                       IF i = read THEN None ELSE Send!Succ(i)]
      BY <2>3 DEF SendLinks, SendBack
    <3>2. Send!Flying = Send!Walk(SendAt(free, 0 + 1))
      BY <2>3, <3>1 DEF Send!Flying
    <3>3. d \in 1 .. QueueSize /\ k < d
      BY <1>0, <3>1
    <3> QED
      BY <1>0, <3>1, <3>2, <3>3, SendWalk
  <2> QED
    BY <2>1, <2>2, <2>3
<1>2. Send!Behind = behind
  <2>1. write = SendAt(read, w)
    <3>1. SendAt(SendAt(free, d), w) = SendAt(free, d + w)
      BY <1>0, SendFurther
    <3> QED
      BY <1>0, <3>1, Zenon
  <2>2. (write + QueueSize + 1 - read) % (QueueSize + 1) = w
    BY <1>0, <2>1, SendFrom
  <2>3. \A n \in 1 .. w : (read + n) % (QueueSize + 1) = SendAt(read, n)
    <3> SUFFICES ASSUME NEW n \in 1 .. w
                 PROVE  (read + n) % (QueueSize + 1) = SendAt(read, n)
      BY Zenon
    <3>1. n \in 0 .. QueueSize
      BY <1>0
    <3> QED
      BY <1>0, <3>1, SendAround
  <2>4. Send!Behind = [n \in 1 .. w |-> (read + n) % (QueueSize + 1)]
    BY <2>2 DEF Send!Behind
  <2> QED
    BY <2>3, <2>4
<1>3. Send!Distance = d
  <2>1. (SendAt(free, d) + QueueSize + 1 - free) % (QueueSize + 1) = d
    BY <1>0, SendFrom
  <2> QED
    BY <1>0, <2>1, Zenon DEF Send!Distance
<1>4. fly \in Seq(Send!Slots) /\ Len(fly) = d - k
  <2>1. \A n \in 1 .. d - k : k + n \in 0 .. QueueSize
    BY <1>0
  <2>2. \A n \in 1 .. d - k : SendAt(free, k + n) \in Send!Slots
    BY <1>0, <2>1, SendAround
  <2> QED
    BY <1>0, <2>2
<1>5. behind \in Seq(Send!Slots) /\ Len(behind) = w
  <2>1. \A n \in 1 .. w : n \in 0 .. QueueSize
    BY <1>0
  <2>2. \A n \in 1 .. w : SendAt(read, n) \in Send!Slots
    BY <1>0, <2>1, SendAround
  <2> QED
    BY <1>0, <2>2
<1>6. fly \o behind = all
  <2> DEFINE b == fly \o behind
  <2>1. /\ b \in Seq(Send!Slots) /\ Len(b) = d - k + w
        /\ \A n \in 1 .. d - k + w :
              b[n] = IF n <= d - k THEN fly[n] ELSE behind[n - (d - k)]
    <3> HIDE DEF fly, behind
    <3>1. /\ b \in Seq(Send!Slots) /\ Len(b) = Len(fly) + Len(behind)
          /\ \A n \in 1 .. Len(fly) + Len(behind) :
                b[n] = IF n <= Len(fly) THEN fly[n] ELSE behind[n - Len(fly)]
      BY <1>4, <1>5, ConcatProperties, Zenon
    <3> QED
      BY <1>4, <1>5, <3>1
  <2>2. ASSUME NEW n \in 1 .. d - k + w PROVE b[n] = SendAt(free, k + n)
    <3>1. CASE n <= d - k
      <4>1. n \in 1 .. d - k
        BY <1>0, <3>1
      <4> QED
        BY <2>1, <3>1, <4>1
    <3>2. CASE ~(n <= d - k)
      <4>1. /\ n - (d - k) \in 1 .. w /\ n - (d - k) \in 0 .. QueueSize
            /\ d + (n - (d - k)) = k + n /\ d + (n - (d - k)) <= QueueSize
            /\ d \in 0 .. QueueSize
        BY <1>0, <3>2
      <4>2. b[n] = SendAt(read, n - (d - k))
        BY <2>1, <3>2, <4>1
      <4>3. SendAt(SendAt(free, d), n - (d - k)) = SendAt(free, d + (n - (d - k)))
        BY <1>0, <4>1, SendFurther
      <4> QED
        BY <1>0, <4>1, <4>2, <4>3, Zenon
    <3> QED
      BY <3>1, <3>2
  <2>3. b = [n \in 1 .. d - k + w |-> b[n]]
    <3> HIDE DEF b
    <3> QED
      BY <2>1, LenProperties
  <2> HIDE DEF b
  <2>4. b = all
    BY <2>2, <2>3
  <2> QED
    BY <2>4 DEF b
<1>7. Len(all) = d - k + w
  BY <1>0
<1>8. SendHeld = [n \in 1 .. d - k + w |-> desc[SendAt(free, k + n)].arg]
  <2>1. SendHeld = [n \in 1 .. d - k + w |-> desc[all[n]].arg]
    <3> HIDE DEF fly, behind, all
    <3> QED
      BY <1>1, <1>2, <1>6, <1>7 DEF SendHeld
  <2> QED
    BY <2>1
<1> QED
  BY <1>1, <1>2, <1>3, <1>8

\* and in the next one.
LEMMA SendShowsThen == ASSUME Send!SendAssumption PROVE SendShown'
  BY SendShows, PTL

-----------------------------------------------------------------------------
\* A step of the queue.
SendMoves == Send!AQ!Next \/ UNCHANGED Send!AQ!vars

\* What is known before a step,
SendBefore(d, w, k) ==
    /\ QueueSize \in Nat /\ MaxTotal \in Nat
    /\ d \in Nat /\ w \in Nat /\ k \in Nat /\ space \in Nat
    /\ k <= d /\ d + w + space <= QueueSize
    /\ d \in 0 .. QueueSize /\ w \in 0 .. QueueSize /\ d + w \in 0 .. QueueSize
    /\ free \in Send!Slots /\ read \in Send!Slots /\ write \in Send!Slots
    /\ read = SendAt(free, d) /\ write = SendAt(free, d + w)
    /\ read = write <=> w = 0
    /\ SendHeld = [n \in 1 .. d - k + w |-> desc[SendAt(free, k + n)].arg]
    /\ Len(SendHeld) = d - k + w

\* which follows from the invariant,
LEMMA SendKnown ==
    ASSUME Send!SendAssumption, SendTypes, NEW d \in 0 .. QueueSize,
           NEW w \in 0 .. QueueSize, NEW k \in 0 .. QueueSize,
           SendState(d, w, k)
    PROVE  SendBefore(d, w, k)
<1>1. /\ QueueSize \in Nat /\ MaxTotal \in Nat /\ space \in Nat /\ d \in Nat
      /\ w \in Nat /\ k \in 0 .. d /\ d + w + space <= QueueSize
      /\ free \in Send!Slots /\ read \in Send!Slots /\ write \in Send!Slots
      /\ read = SendAt(free, d) /\ write = SendAt(free, d + w)
  BY DEF SendState, SendTypes, SendRing, SendBack, Send!SendAssumption
<1>2. k \in Nat /\ k <= d /\ d + w \in 0 .. QueueSize /\ d \in 0 .. QueueSize
  BY <1>1
<1>3. read = write <=> w = 0
  <2>1. SendAt(free, d) = SendAt(free, d + w) => d = d + w
    BY <1>1, <1>2, SendApart
  <2>2. d = d + w => w = 0
    BY <1>1
  <2>3. w = 0 => d = d + w
    BY <1>1
  <2> QED
    BY <1>1, <2>1, <2>2, <2>3
<1>4. SendHeld = [n \in 1 .. d - k + w |-> desc[SendAt(free, k + n)].arg]
  BY SendShows DEF SendShown, SendState
<1>5. Len([n \in 1 .. d - k + w |-> desc[SendAt(free, k + n)].arg]) = d - k + w
  <2>1. d - k + w \in Nat
    BY <1>1, <1>2
  <2> QED
    BY <2>1
<1>6. Len(SendHeld) = d - k + w
  BY <1>4, <1>5
<1> QED
  BY <1>1, <1>2, <1>3, <1>4, <1>6 DEF SendBefore

\* and after it.
LEMMA SendThen ==
    ASSUME Send!SendAssumption, SendTypes', NEW d \in 0 .. QueueSize,
           NEW w \in 0 .. QueueSize, NEW k \in 0 .. QueueSize,
           SendState(d, w, k)'
    PROVE  /\ SendInv'
           /\ SendHeld' = [n \in 1 .. d - k + w |-> desc'[SendAt(free', k + n)].arg]
<1>1. SendInv'
  BY DEF SendInv
<1>2. SendHeld' = [n \in 1 .. d - k + w |-> desc'[SendAt(free', k + n)].arg]
  BY SendShowsThen DEF SendShown, SendState
<1> QED
  BY <1>1, <1>2

\* The first of the queue comes back.
LEMMA SendTakes ==
    ASSUME NEW L \in Nat, L > 0, Len(SendHeld) = L, NEW a, NEW c,
           SendHeld = [n \in 1 .. L |-> a[n]],
           SendHeld' = [n \in 1 .. L - 1 |-> c[n]],
           \A n \in 1 .. L - 1 : c[n] = a[n + 1],
           given' = a[1], QueueSize \in Nat, space \in Nat,
           space' \in space .. QueueSize - (L - 1)
    PROVE  SendMoves
<1> DEFINE q == [n \in 1 .. L |-> a[n]]
<1>1. SendHeld # <<>> /\ Head(SendHeld) = a[1]
  <2>1. SendHeld[1] = a[1]
    OBVIOUS
  <2>2. SendHeld # <<>>
    OBVIOUS
  <2>3. Head(q) = a[1]
    OBVIOUS
  <2> QED
    BY <2>2, <2>3
<1>2. Tail(SendHeld) = [n \in 1 .. L - 1 |-> a[n + 1]]
  <2>1. Tail(q) = [n \in 1 .. L - 1 |-> a[n + 1]]
    OBVIOUS
  <2> QED
    BY <2>1
<1>3. SendHeld' = Tail(SendHeld)
  BY <1>2
<1>4. Len(Tail(SendHeld)) = L - 1
  BY <1>2
<1> QED
  BY <1>1, <1>3, <1>4 DEF SendMoves, SendHeld, Send!AQ!Next, Send!AQ!Take

\* Space comes back.
LEMMA SendReleases ==
    ASSUME SendHeld' = SendHeld, given' = given, NEW L \in Nat,
           Len(SendHeld) = L, QueueSize \in Nat, space \in Nat,
           space' \in space .. QueueSize - L
    PROVE  SendMoves
BY DEF SendMoves, SendHeld, Send!AQ!Next, Send!AQ!Release

\* Nothing comes back.
LEMMA SendRests ==
    ASSUME SendHeld' = SendHeld, given' = given, space' = space
    PROVE  SendMoves
BY DEF SendMoves, SendHeld, Send!AQ!vars

\* A step that only changes where sending is.
LEMMA SendControls ==
    ASSUME Send!SendAssumption, SendTypes, NEW d \in 0 .. QueueSize,
           NEW w \in 0 .. QueueSize, NEW k \in 0 .. QueueSize,
           SendState(d, w, k), SendTypes', SendStage(w)', SendBack(d, k)',
           UNCHANGED <<mode, link, desc, write, read, free, flight, end, after,
                       total, pktLen, given, space>>,
           state' # "unsent" => state # "unsent",
           (state = "sending" \/ routine = "results")'
              => state = "sending" \/ routine = "results"
    PROVE  SendInv' /\ SendMoves
<1>1. SendBefore(d, w, k)
  BY SendKnown
<1>2. SendRing(d, w)' /\ SendLinks(d)'
  BY DEF SendState, SendRing, SendLinks
<1>3. \A n : SendPkt(n)' = SendPkt(n) /\ (SendAdds(n)' <=> SendAdds(n))
  BY DEF SendPkt, SendAdds
<1>4. SendWaiting(d, w)'
  BY <1>3 DEF SendState, SendWaiting
<1>5. SendFlown(d)'
  BY <1>3 DEF SendState, SendFlown
<1>6. SendState(d, w, k)'
  BY <1>2, <1>4, <1>5 DEF SendState
<1>7. /\ SendInv'
      /\ SendHeld' = [n \in 1 .. d - k + w |-> desc'[SendAt(free', k + n)].arg]
  BY <1>6, SendThen
<1>8. SendHeld' = SendHeld
  BY <1>1, <1>7 DEF SendBefore
<1> QED
  BY <1>7, <1>8, SendRests

\* Those steps.
LEMMA SendSwitches ==
    ASSUME Send!SendAssumption, SendPlain, SendInv,
           Send!Start \/ Send!Stop \/ Send!DmaSent \/ Send!IsrEnter
    PROVE  SendInv' /\ SendMoves
<1>1. PICK d \in 0 .. QueueSize, w \in 0 .. QueueSize, k \in 0 .. QueueSize :
         SendState(d, w, k)
  BY DEF SendInv
<1>2. /\ SendTypes /\ SendStage(w) /\ SendBack(d, k)
      /\ UNCHANGED <<mode, link, desc, write, read, free, flight, end, after,
                     returned, total, pktLen, given, space>>
  BY <1>1 DEF SendInv, SendState, Send!Start, Send!Stop, Send!DmaSent,
              Send!IsrEnter
<1>3. SendTypes'
  BY <1>2 DEF SendTypes, Send!Start, Send!Stop, Send!DmaSent, Send!IsrEnter
<1>4. /\ state' # "unsent" /\ state # "unsent"
      /\ state' = "result" <=> state = "result"
      /\ (state = "sending" \/ routine = "results")'
            => state = "sending" \/ routine = "results"
      /\ SendStage(w)'
  <2>1. CASE Send!Start
    BY <1>2, <2>1 DEF SendPlain, SendStage, SendTypes, Send!Start
  <2>2. CASE Send!Stop
    BY <1>2, <2>2 DEF SendStage, SendTypes, Send!Stop
  <2>3. CASE Send!DmaSent
    BY <1>2, <2>3 DEF SendStage, SendTypes, Send!DmaSent
  <2>4. CASE Send!IsrEnter
    BY <1>2, <2>4 DEF SendStage, SendTypes, Send!IsrEnter
  <2> QED
    BY <2>1, <2>2, <2>3, <2>4
<1>5. SendBack(d, k)'
  BY <1>2, <1>4 DEF SendBack
<1> QED
  BY <1>1, <1>2, <1>3, <1>4, <1>5, SendControls

\* A buffer of those in flight comes back.
LEMMA SendGives ==
    ASSUME Send!SendAssumption, SendInv, NEW slot, slot # None,
           slot = IF state = "result" THEN returned ELSE flight,
           Send!GiveBack(slot),
           state \in {"idle", "result"} \/ routine = "results",
           state = "idle" => routine = "off", state # "unsent",
           state = "result" => routine # "packet",
           UNCHANGED <<mode, desc, write, read, after, total, pktLen, dma,
                       invoked, routine>>
    PROVE  SendInv' /\ SendMoves
<1>1. PICK d \in 0 .. QueueSize, w \in 0 .. QueueSize, k \in 0 .. QueueSize :
         SendState(d, w, k)
  BY DEF SendInv
<1>2. SendTypes /\ SendBefore(d, w, k)
  BY <1>1, SendKnown DEF SendInv
<1> DEFINE L == d - k + w
<1>3. k < d /\ flight # None /\ slot = SendAt(free, k + 1)
  BY <1>1, <1>2 DEF SendState, SendBack, SendLinks, SendBefore
<1>4. /\ QueueSize \in Nat /\ d \in Nat /\ w \in Nat /\ k \in Nat
      /\ k + 1 \in 0 .. QueueSize /\ k + 1 \in 0 .. d /\ d \in 0 .. QueueSize
      /\ L \in Nat /\ L > 0 /\ d - (k + 1) + w = L - 1 /\ k < QueueSize
      /\ slot \in Send!Slots
  <2>1. /\ QueueSize \in Nat /\ d \in Nat /\ w \in Nat /\ k \in Nat
        /\ d + w <= QueueSize /\ d \in 0 .. QueueSize
        /\ free \in Send!Slots /\ d <= QueueSize
    <3>1. /\ QueueSize \in Nat /\ d \in Nat /\ w \in Nat /\ k \in Nat
          /\ space \in Nat /\ d + w + space <= QueueSize
          /\ d \in 0 .. QueueSize /\ free \in Send!Slots
      BY <1>2 DEF SendBefore
    <3> QED
      BY <3>1
  <2>2. /\ k + 1 \in 0 .. QueueSize /\ k + 1 \in 0 .. d
        /\ L \in Nat /\ L > 0 /\ d - (k + 1) + w = L - 1 /\ k < QueueSize
    BY <1>3, <2>1
  <2> QED
    BY <1>3, <2>1, <2>2, SendAround
<1>5. /\ returned' = link[slot] /\ given' = desc[slot].arg
      /\ state' = "result"
      /\ UNCHANGED <<link, free, flight, end, space>>
  BY DEF Send!GiveBack
<1>6. link[slot] = IF k + 1 = d THEN None ELSE SendAt(free, k + 1 + 1)
  <2>1. link[slot] = IF slot = read THEN None ELSE Send!Succ(slot)
    BY <1>1, <1>3, <1>4 DEF SendState, SendLinks
  <2>2. slot = read <=> k + 1 = d
    <3>1. slot = read => k + 1 = d
      <4>1. SUFFICES ASSUME SendAt(free, k + 1) = SendAt(free, d)
                     PROVE  k + 1 = d
        BY <1>2, <1>3 DEF SendBefore
      <4>2. free \in Send!Slots
        BY <1>2 DEF SendBefore
      <4> QED
        BY <1>4, <4>1, <4>2, SendApart
    <3> QED
      BY <1>2, <1>3, <3>1 DEF SendBefore
  <2>3. k + 1 # d => Send!Succ(slot) = SendAt(free, k + 1 + 1)
    <3>1. k + 1 # d => k + 1 < QueueSize
      BY <1>3, <1>4
    <3>2. free \in Send!Slots
      BY <1>2 DEF SendBefore
    <3> QED
      BY <1>3, <1>4, <3>1, <3>2, SendNext
  <2> QED
    BY <2>1, <2>2, <2>3
<1>7. SendTypes'
  BY <1>2, <1>4, <1>5 DEF SendTypes
<1>8. SendBack(d, k + 1)'
  BY <1>3, <1>4, <1>5, <1>6 DEF SendBack
<1>9. SendStage(w)'
  BY <1>1, <1>2, <1>3, <1>5 DEF SendState, SendStage, SendTypes
<1>10. \A n : SendPkt(n)' = SendPkt(n) /\ (SendAdds(n)' <=> SendAdds(n))
  BY <1>5 DEF SendPkt, SendAdds
<1>11. SendWaiting(d, w)' /\ SendFlown(d)'
  BY <1>1, <1>5, <1>10 DEF SendState, SendWaiting, SendFlown
<1>12. SendRing(d, w)' /\ SendLinks(d)'
  BY <1>1, <1>5 DEF SendState, SendRing, SendLinks
<1>13. SendState(d, w, k + 1)'
  BY <1>8, <1>9, <1>11, <1>12 DEF SendState
<1>14. /\ SendInv'
       /\ SendHeld' = [n \in 1 .. L - 1 |-> desc[SendAt(free, k + 1 + n)].arg]
  <2>1. /\ SendInv'
        /\ SendHeld' = [n \in 1 .. d - (k + 1) + w
                           |-> desc'[SendAt(free', k + 1 + n)].arg]
    BY <1>4, <1>7, <1>13, SendThen
  <2> QED
    BY <1>4, <1>5, <2>1
<1>15. SendMoves
  <2> DEFINE a == [n \in 1 .. L |-> desc[SendAt(free, k + n)].arg]
             c == [n \in 1 .. L - 1 |-> desc[SendAt(free, k + 1 + n)].arg]
  <2>1. SendHeld = [n \in 1 .. L |-> a[n]] /\ Len(SendHeld) = L
    BY <1>2 DEF SendBefore
  <2>2. SendHeld' = [n \in 1 .. L - 1 |-> c[n]]
    BY <1>14
  <2>3. \A n \in 1 .. L - 1 : c[n] = a[n + 1]
    <3>1. \A n \in 1 .. L - 1 : n + 1 \in 1 .. L /\ k + 1 + n = k + (n + 1)
      BY <1>4
    <3> QED
      BY <3>1
  <2>4. given' = a[1]
    <3>1. 1 \in 1 .. L
      BY <1>4
    <3> QED
      BY <1>3, <1>5, <3>1
  <2>5. space \in Nat /\ space' \in space .. QueueSize - (L - 1)
    <3>1. space \in Nat /\ d + w + space <= QueueSize /\ space' = space
      BY <1>2, <1>5 DEF SendBefore
    <3> QED
      BY <1>4, <3>1
  <2> HIDE DEF a, c, L
  <2> QED
    BY <1>4, <2>1, <2>2, <2>3, <2>4, <2>5, SendTakes
<1> QED
  BY <1>14, <1>15

\* In the routine, or by a flush.
LEMMA SendReturns ==
    ASSUME Send!SendAssumption, SendInv,
           \/ Send!IsrResult /\ Send!NextInflight(state = "sending") # None
           \/ Send!FlushInflight
    PROVE  SendInv' /\ SendMoves
<1> DEFINE slot == IF state = "result" THEN returned ELSE flight
<1>1. PICK w \in 0 .. QueueSize : SendStage(w)
  BY DEF SendInv, SendState
<1>2. CASE Send!IsrResult /\ Send!NextInflight(state = "sending") # None
  <2>1. routine = "results" /\ state \in {"sending", "result"}
    BY <1>1, <1>2 DEF SendStage, Send!IsrResult
  <2>2. Send!NextInflight(state = "sending") = slot
    BY <2>1 DEF Send!NextInflight
  <2>3. /\ slot # None /\ Send!GiveBack(slot)
        /\ UNCHANGED <<mode, desc, write, read, after, total, pktLen, dma,
                       invoked, routine>>
    BY <1>2, <2>2 DEF Send!IsrResult
  <2> HIDE DEF slot
  <2> QED
    BY <2>1, <2>3, SendGives DEF slot
<1>3. CASE Send!FlushInflight
  <2>1. routine = "off" /\ state \in {"idle", "result"}
    BY <1>3 DEF Send!FlushInflight
  <2>2. Send!NextInflight(state = "idle") = slot
    BY <2>1 DEF Send!NextInflight
  <2>3. /\ slot # None /\ Send!GiveBack(slot)
        /\ UNCHANGED <<mode, desc, write, read, after, total, pktLen, dma,
                       invoked, routine>>
    BY <1>3, <2>2 DEF Send!FlushInflight
  <2> HIDE DEF slot
  <2> QED
    BY <2>1, <2>3, SendGives DEF slot
<1> QED
  BY <1>2, <1>3

\* What closing the ring comes to.
LEMMA SendMended ==
    ASSUME Send!SendAssumption, SendInv, NEW d \in 0 .. QueueSize,
           NEW w \in 0 .. QueueSize, NEW k \in 0 .. QueueSize,
           SendState(d, w, k)
    PROVE  /\ Send!Mended = [i \in Send!Slots |-> Send!Succ(i)]
           /\ Send!Freed = read
           /\ Send!Returned = d
<1>1. SendBefore(d, w, k) /\ SendTypes
  BY SendKnown DEF SendInv
<1>2. Send!Distance = d
  BY <1>1, SendShows DEF SendShown, SendState
<1>3. CASE flight = None
  <2>1. d = 0 /\ link = [i \in Send!Slots |-> Send!Succ(i)]
    BY <1>3 DEF SendState, SendLinks
  <2>2. SendAt(free, 0) = free
    BY <1>1 DEF SendBefore, SendAt, Send!Slots
  <2> QED
    BY <1>1, <1>3, <2>1, <2>2 DEF SendBefore, Send!Mended, Send!Freed,
                                  Send!Returned
<1>4. CASE flight # None
  <2>1. /\ end = read /\ after = Send!Succ(read)
        /\ link = [i \in Send!Slots |->
                       IF i = read THEN None ELSE Send!Succ(i)]
    BY <1>4 DEF SendState, SendLinks
  <2>2. [link EXCEPT ![end] = after] = [i \in Send!Slots |-> Send!Succ(i)]
    BY <2>1
  <2> QED
    BY <1>2, <1>4, <2>2 DEF Send!Mended, Send!Freed, Send!Returned
<1> QED
  BY <1>3, <1>4

\* The places seen from the end of what was in flight.
LEMMA SendAgain ==
    ASSUME Send!SendAssumption, NEW d \in 0 .. QueueSize,
           NEW w \in 0 .. QueueSize, NEW k \in 0 .. QueueSize,
           SendBefore(d, w, k)
    PROVE  /\ SendAt(read, 0) = read
           /\ SendAt(read, w) = write
           /\ \A n \in 0 .. w : SendAt(read, n) = SendAt(free, d + n)
<1>1. /\ QueueSize \in Nat /\ d \in Nat /\ w \in Nat /\ space \in Nat
      /\ d + w + space <= QueueSize
      /\ read \in Send!Slots /\ free \in Send!Slots
      /\ read = SendAt(free, d) /\ write = SendAt(free, d + w)
  BY DEF SendBefore
<1>2. SendAt(read, 0) = read
  BY <1>1 DEF SendAt, Send!Slots
<1>3. ASSUME NEW n \in 0 .. w PROVE SendAt(read, n) = SendAt(free, d + n)
  <2>1. n \in 0 .. QueueSize /\ d + n <= QueueSize
    BY <1>1
  <2>2. SendAt(SendAt(free, d), n) = SendAt(free, d + n)
    BY <1>1, <2>1, SendFurther
  <2> QED
    BY <1>1, <2>2
<1>4. w \in 0 .. w
  BY <1>1
<1>5. SendAt(read, w) = write
  BY <1>1, <1>3, <1>4
<1> QED
  BY <1>2, <1>3, <1>5

\* The last of those in flight has come back, and their space comes back.
LEMMA SendEnds ==
    ASSUME Send!SendAssumption, SendInv, Send!IsrResult,
           Send!NextInflight(state = "sending") = None
    PROVE  SendInv' /\ SendMoves
<1>1. PICK d \in 0 .. QueueSize, w \in 0 .. QueueSize, k \in 0 .. QueueSize :
         SendState(d, w, k)
  BY DEF SendInv
<1>2. SendTypes /\ SendBefore(d, w, k)
  BY <1>1, SendKnown DEF SendInv
<1>3. routine = "results" /\ state = "result" /\ returned = None /\ k = d
  <2>1. routine = "results" /\ state \in {"sending", "result"}
    BY <1>1 DEF SendState, SendStage, Send!IsrResult
  <2>2. state # "sending"
    BY <1>1 DEF SendState, SendStage, Send!NextInflight
  <2>3. state = "result" /\ returned = None
    BY <2>1, <2>2 DEF Send!NextInflight
  <2>4. k = d \/ returned = SendAt(free, k + 1)
    BY <1>1, <2>3 DEF SendState, SendBack
  <2>5. k # d => k + 1 \in 0 .. QueueSize
    BY <1>2 DEF SendBefore
  <2>6. k = d
    <3>1. k # d => SendAt(free, k + 1) # None
      BY <1>2, <2>5, SendAround DEF SendBefore
    <3> QED
      BY <2>3, <2>4, <3>1
  <2> QED
    BY <2>1, <2>3, <2>6
<1>4. /\ link' = [i \in Send!Slots |-> Send!Succ(i)]
      /\ free' = read /\ space' = space + d
      /\ flight' = None /\ end' = None /\ state' = "wait"
      /\ routine' = "packet"
      /\ UNCHANGED <<returned, given, mode, desc, write, read, after, total,
                     pktLen, dma, invoked>>
  <2>1. /\ link' = Send!Mended /\ free' = Send!Freed
        /\ space' = space + Send!Returned
        /\ flight' = None /\ end' = None /\ state' = "wait"
        /\ routine' = "packet"
        /\ UNCHANGED <<returned, given, mode, desc, write, read, after, total,
                     pktLen, dma, invoked>>
    BY DEF Send!IsrResult, Send!AfterResults
  <2> QED
    BY <1>1, <2>1, SendMended
<1>5. /\ QueueSize \in Nat /\ d \in Nat /\ w \in Nat /\ space \in Nat
      /\ d + w + space <= QueueSize /\ 0 \in 0 .. QueueSize
      /\ w \in 0 .. QueueSize
  <2>1. /\ QueueSize \in Nat /\ d \in Nat /\ w \in Nat /\ space \in Nat
        /\ d + w + space <= QueueSize
    BY <1>2 DEF SendBefore
  <2> QED
    BY <2>1
<1>6. /\ SendAt(read, 0) = read /\ SendAt(read, w) = write
      /\ \A n \in 0 .. w : SendAt(read, n) = SendAt(free, d + n)
  BY <1>2, SendAgain
<1>7. SendTypes'
  BY <1>2, <1>4 DEF SendTypes
<1>8. SendRing(0, w)' /\ SendLinks(0)' /\ SendBack(0, 0)'
  <2>1. SendRing(0, w)'
    <3>1. 0 + w = w /\ 0 + w + (space + d) <= QueueSize /\ space + d \in Nat
      BY <1>5
    <3>2. SendAt(free, 0)' = SendAt(read, 0) /\ SendAt(free, 0 + w)' = SendAt(read, w)
      BY <1>4, <3>1 DEF SendAt
    <3> QED
      BY <1>4, <1>5, <1>6, <3>1, <3>2 DEF SendRing
  <2> QED
    BY <1>3, <1>4, <2>1 DEF SendLinks, SendBack
<1>9. SendStage(w)'
  BY <1>1, <1>3, <1>4 DEF SendState, SendStage
<1>10. /\ pktLen = SendPkt(d)
       /\ total = SendPkt(d + w) /\ \A n \in d + 1 .. d + w : SendAdds(n)
  BY <1>1, <1>3 DEF SendState, SendFlown, SendWaiting
<1>11. \A n \in 0 .. w : SendPkt(n)' = SendPkt(d + n)
  <2> SUFFICES ASSUME NEW n \in 0 .. w PROVE SendPkt(n)' = SendPkt(d + n)
    OBVIOUS
  <2>1. n = 0 => d + n = d
    BY <1>5
  <2>2. n # 0 => d + n # 0
    BY <1>5
  <2>3. SendAt(free, n)' = SendAt(free, d + n)
    BY <1>4, <1>6 DEF SendAt
  <2> QED
    BY <1>4, <1>10, <2>1, <2>2, <2>3 DEF SendPkt
<1>12. SendWaiting(0, w)'
  <2>1. total' = SendPkt(0 + w)'
    <3>1. 0 + w = w /\ w \in 0 .. w
      BY <1>5
    <3> QED
      BY <1>4, <1>10, <1>11, <3>1
  <2>2. ASSUME NEW n \in 0 + 1 .. 0 + w PROVE SendAdds(n)'
    <3>1. /\ n \in 0 .. w /\ n - 1 \in 0 .. w /\ d + n \in d + 1 .. d + w
          /\ d + (n - 1) = d + n - 1
      BY <1>5
    <3>2. SendAdds(d + n)
      BY <1>10, <3>1
    <3>3. SendAt(free, n)' = SendAt(free, d + n)
      BY <1>4, <1>6, <3>1 DEF SendAt
    <3>4. SendPkt(n)' = SendPkt(d + n) /\ SendPkt(n - 1)' = SendPkt(d + n - 1)
      BY <1>11, <3>1
    <3> QED
      BY <1>4, <3>2, <3>3, <3>4 DEF SendAdds
  <2> QED
    BY <2>1, <2>2 DEF SendWaiting
<1>13. SendFlown(0)'
  BY <1>4 DEF SendFlown
<1>14. SendState(0, w, 0)'
  BY <1>8, <1>9, <1>12, <1>13 DEF SendState
<1>15. /\ SendInv'
       /\ SendHeld' = [n \in 1 .. 0 - 0 + w |-> desc'[SendAt(free', 0 + n)].arg]
  BY <1>5, <1>7, <1>14, SendThen
<1>16. SendHeld' = SendHeld /\ Len(SendHeld) = w
  <2>1. 0 - 0 + w = w /\ d - d + w = w
    BY <1>5
  <2>2. \A n \in 1 .. w : n \in 0 .. w /\ 0 + n = n
    BY <1>5
  <2>3. \A n \in 1 .. w : SendAt(free', 0 + n) = SendAt(free, d + n)
    BY <1>4, <1>6, <2>2
  <2>4. SendHeld' = [n \in 1 .. w |-> desc[SendAt(free, d + n)].arg]
    BY <1>4, <1>15, <2>1, <2>3
  <2>5. /\ SendHeld = [n \in 1 .. w |-> desc[SendAt(free, d + n)].arg]
        /\ Len(SendHeld) = w
    BY <1>2, <1>3, <2>1 DEF SendBefore
  <2> QED
    BY <2>4, <2>5
<1>17. space' \in space .. QueueSize - w
  BY <1>4, <1>5
<1> QED
  BY <1>4, <1>5, <1>15, <1>16, <1>17, SendReleases

\* The next packet goes out, or there is none.
LEMMA SendStarts ==
    ASSUME Send!SendAssumption, SendInv, Send!IsrPacket
    PROVE  SendInv' /\ SendMoves
<1>1. PICK d \in 0 .. QueueSize, w \in 0 .. QueueSize, k \in 0 .. QueueSize :
         SendState(d, w, k)
  BY DEF SendInv
<1>2. SendTypes /\ SendBefore(d, w, k)
  BY <1>1, SendKnown DEF SendInv
<1>3. /\ routine = "packet" /\ routine' = "off"
      /\ UNCHANGED <<mode, desc, write, free, returned, total, invoked, given,
                     space>>
  BY DEF Send!IsrPacket
<1>4. CASE ~(state = "wait" /\ (flight # None \/ read # write))
  <2>1. UNCHANGED <<state, dma, flight, end, after, link, read, pktLen>>
    BY <1>4 DEF Send!IsrPacket
  <2>2. SendTypes'
    BY <1>2, <1>3, <2>1 DEF SendTypes
  <2>3. SendStage(w)'
    <3>1. state = "wait" => w = 0
      BY <1>2, <1>4 DEF SendBefore
    <3>2. SendStage(w) /\ (w = 0 => ~(w > 0))
      BY <1>1 DEF SendState
    <3> QED
      BY <1>3, <2>1, <3>1, <3>2 DEF SendStage
  <2>4. SendBack(d, k)'
    BY <1>1, <1>3, <2>1 DEF SendState, SendBack
  <2> QED
    BY <1>1, <1>2, <1>3, <2>1, <2>2, <2>3, <2>4, SendControls
<1>5. CASE state = "wait" /\ (flight # None \/ read # write)
  <2>1. flight = None /\ read # write /\ returned = None /\ d = 0 /\ k = 0
        /\ link = [i \in Send!Slots |-> Send!Succ(i)]
    BY <1>1, <1>5 DEF SendState, SendStage, SendLinks, SendBack
  <2>0. PICK c : c = IF mode = "packet" THEN 1 ELSE w
    OBVIOUS
  <2> DEFINE cut == SendAt(free, c)
  <2>2. /\ QueueSize \in Nat /\ MaxTotal \in Nat /\ w \in Nat /\ w > 0
        /\ space \in Nat /\ w + space <= QueueSize
        /\ c \in Nat /\ c > 0 /\ c \in 0 .. w /\ c \in 0 .. QueueSize
        /\ w - c \in Nat /\ w - c \in 0 .. QueueSize /\ c + (w - c) = w
        /\ 0 \in 0 .. QueueSize /\ 0 < QueueSize /\ 0 + w = w
        /\ 1 \in 0 .. QueueSize
    <3>1. /\ QueueSize \in Nat /\ MaxTotal \in Nat /\ w \in Nat /\ w # 0
          /\ space \in Nat /\ d + w + space <= QueueSize /\ d \in Nat
      BY <1>2, <2>1 DEF SendBefore
    <3>2. w > 0 /\ w + space <= QueueSize
      BY <2>1, <3>1
    <3>3. c \in Nat /\ c > 0 /\ c <= w
      BY <2>0, <3>1, <3>2
    <3> QED
      BY <3>1, <3>2, <3>3
  <2>3. /\ read = free /\ Send!Succ(read) = SendAt(free, 1)
        /\ Send!Cut = cut /\ cut \in Send!Slots
        /\ (IF mode = "packet" THEN Send!Succ(read) ELSE write) = cut
    <3>1. free \in Send!Slots /\ read = SendAt(free, d) /\ write = SendAt(free, d + w)
      BY <1>2 DEF SendBefore
    <3>2. SendAt(free, 0) = free
      BY <2>2, <3>1 DEF SendAt, Send!Slots
    <3>3. read = free /\ write = SendAt(free, w)
      BY <2>1, <2>2, <3>1, <3>2
    <3>4. Send!Succ(SendAt(free, 0)) = SendAt(free, 0 + 1)
      BY <2>2, <3>1, SendNext
    <3>5. Send!Succ(read) = SendAt(free, 1)
      BY <3>2, <3>3, <3>4
    <3>6. cut \in Send!Slots
      <4> QED
        BY <2>2, <3>1, SendAround
    <3> QED
      BY <2>0, <3>3, <3>5, <3>6 DEF Send!Cut
  <2>4. /\ state' = "sending" /\ dma' = "sending"
        /\ flight' = SendAt(free, 1) /\ end' = cut /\ after' = Send!Succ(cut)
        /\ link' = [i \in Send!Slots |->
                       IF i = cut THEN None ELSE Send!Succ(i)]
        /\ read' = cut /\ pktLen' = desc[cut].pkt
    <3>1. /\ state' = "sending" /\ dma' = "sending"
          /\ flight' = Send!Succ(read) /\ end' = Send!Cut
          /\ after' = link[Send!Cut]
          /\ link' = [link EXCEPT ![Send!Cut] = None]
          /\ read' = IF mode = "packet" THEN Send!Succ(read) ELSE write
          /\ pktLen' = desc[Send!Cut].pkt
      BY <1>5, <2>1 DEF Send!IsrPacket
    <3> HIDE DEF cut
    <3>2. /\ read' = cut /\ flight' = SendAt(free, 1) /\ after' = link[cut]
          /\ end' = cut /\ pktLen' = desc[cut].pkt
          /\ link' = [link EXCEPT ![cut] = None]
      BY <2>3, <3>1
    <3>3. link[cut] = Send!Succ(cut)
      BY <2>1, <2>3
    <3>4. link' = [i \in Send!Slots |->
                       IF i = cut THEN None ELSE Send!Succ(i)]
      BY <2>1, <3>2
    <3> QED
      BY <3>1, <3>2, <3>3, <3>4
  <2>5. SendTypes'
    <3>1. Send!Succ(cut) \in Send!Slots /\ SendAt(free, 1) \in Send!Slots
      BY <1>2, <2>2, <2>3, SendPlaces DEF SendBefore
    <3>2. desc[cut].pkt \in 0 .. MaxTotal
      BY <1>2, <2>3 DEF SendTypes
    <3> HIDE DEF cut
    <3> QED
      BY <1>2, <1>3, <2>3, <2>4, <3>1, <3>2 DEF SendTypes
  <2>6. SendRing(c, w - c)'
    <3>1. SendAt(free, c)' = cut /\ SendAt(free, c + (w - c))' = SendAt(free, w)
      BY <1>3, <2>2 DEF SendAt
    <3>2. write = SendAt(free, w)
      BY <1>2, <2>1, <2>2 DEF SendBefore
    <3> HIDE DEF cut
    <3> QED
      BY <1>3, <2>2, <2>4, <3>1, <3>2 DEF SendRing
  <2>7. SendLinks(c)'
    <3>1. SendAt(free, 1)' = SendAt(free, 1)
      BY <1>3 DEF SendAt
    <3>2. SendAt(free, 1) # None
      BY <1>2, <2>2, SendAround DEF SendBefore
    <3>3. Send!Succ(read)' = Send!Succ(cut)
      BY <2>4 DEF Send!Succ
    <3>4. [i \in Send!Slots |-> IF i = read THEN None ELSE Send!Succ(i)]'
             = [i \in Send!Slots |-> IF i = cut THEN None ELSE Send!Succ(i)]
      <4> HIDE DEF cut
      <4> QED
        BY <2>4
    <3> HIDE DEF cut
    <3> QED
      BY <2>2, <2>4, <3>1, <3>2, <3>3, <3>4 DEF SendLinks
  <2>8. SendBack(c, 0)'
    <3> QED
      BY <1>3, <2>1, <2>2, <2>4 DEF SendBack
  <2>9. SendStage(w - c)'
    <3>1. SendAt(free, 1) # None
      BY <1>2, <2>2, SendAround DEF SendBefore
    <3> HIDE DEF cut
    <3> QED
      BY <1>3, <2>4, <3>1 DEF SendStage
  <2>10. \A n \in 1 .. w : SendPkt(n)' = SendPkt(n)
    <3> SUFFICES ASSUME NEW n \in 1 .. w PROVE SendPkt(n)' = SendPkt(n)
      OBVIOUS
    <3>1. SendAt(free, n)' = SendAt(free, n) /\ n # 0
      BY <1>3 DEF SendAt
    <3> QED
      BY <1>3, <3>1 DEF SendPkt
  <2>11. \A n \in 2 .. w : SendAdds(n)' <=> SendAdds(n)
    <3> SUFFICES ASSUME NEW n \in 2 .. w PROVE SendAdds(n)' <=> SendAdds(n)
      OBVIOUS
    <3>1. n \in 1 .. w /\ n - 1 \in 1 .. w
      OBVIOUS
    <3>2. SendAt(free, n)' = SendAt(free, n)
      BY <1>3 DEF SendAt
    <3> QED
      BY <1>3, <2>10, <3>1, <3>2 DEF SendAdds
  <2>12. total = SendPkt(w) /\ \A n \in 1 .. w : SendAdds(n)
    BY <1>1, <1>5, <2>1, <2>2 DEF SendState, SendWaiting
  <2>13. SendWaiting(c, w - c)'
    <3>1. total' = SendPkt(c + (w - c))'
      <4>1. w \in 1 .. w
        BY <2>2
      <4>2. SendPkt(w)' = SendPkt(w)
        BY <2>10, <4>1
      <4> QED
        BY <1>3, <2>2, <2>12, <4>2
    <3>2. ASSUME NEW n \in c + 1 .. c + (w - c) PROVE SendAdds(n)'
      <4>1. n \in 2 .. w /\ n \in 1 .. w
        <5> QED
          BY <2>2
      <4> QED
        BY <2>11, <2>12, <4>1
    <3> QED
      BY <3>1, <3>2 DEF SendWaiting
  <2>14. SendFlown(c)'
    <3>1. (desc[SendAt(free, 1)].len <= SendPkt(1))'
      <4>1. 1 \in 1 .. w /\ 1 - 1 = 0
        BY <2>2
      <4>2. SendAdds(1)
        BY <2>12, <4>1
      <4>3. SendPkt(1) = pktLen + desc[SendAt(free, 1)].len
        BY <4>1, <4>2 DEF SendAdds, SendPkt
      <4>4. pktLen \in Nat /\ desc[SendAt(free, 1)].len \in Nat
        <5>1. SendAt(free, 1) \in Send!Slots
          BY <1>2, <2>2, SendAround DEF SendBefore
        <5>2. pktLen \in 0 .. MaxTotal
          BY <1>2 DEF SendTypes
        <5> QED
          BY <1>2, <2>2, <5>1, <5>2 DEF SendTypes
      <4>5. desc[SendAt(free, 1)].len <= SendPkt(1)
        BY <4>3, <4>4
      <4>6. SendPkt(1)' = SendPkt(1) /\ SendAt(free, 1)' = SendAt(free, 1)
        BY <1>3, <2>10, <4>1 DEF SendAt
      <4> QED
        BY <1>3, <4>5, <4>6
    <3>2. ASSUME NEW n \in 2 .. c PROVE SendAdds(n)'
      <4>1. n \in 2 .. w /\ n \in 1 .. w
        <5> QED
          BY <2>2
      <4> QED
        BY <2>11, <2>12, <4>1
    <3>3. pktLen' = SendPkt(c)'
      <4>1. SendPkt(c)' = SendPkt(c) /\ c # 0
        BY <2>2, <2>10
      <4>2. SendPkt(c) = desc[SendAt(free, c)].pkt
        BY <4>1 DEF SendPkt
      <4> QED
        BY <2>4, <4>1, <4>2
    <3> QED
      BY <3>1, <3>2, <3>3 DEF SendFlown
  <2>15. SendState(c, w - c, 0)'
    <3> QED
      BY <2>6, <2>7, <2>8, <2>9, <2>13, <2>14 DEF SendState
  <2>16. /\ SendInv'
         /\ SendHeld' = [n \in 1 .. c - 0 + (w - c)
                            |-> desc'[SendAt(free', 0 + n)].arg]
    <3> QED
      BY <2>2, <2>5, <2>15, SendThen
  <2>17. SendHeld' = SendHeld
    <3>1. c - 0 + (w - c) = w /\ d - k + w = w
      <4> QED
        BY <2>1, <2>2
    <3>2. SendHeld = [n \in 1 .. w |-> desc[SendAt(free, 0 + n)].arg]
      BY <1>2, <2>1, <3>1 DEF SendBefore
    <3> QED
      BY <1>3, <2>16, <3>1, <3>2
  <2> QED
    BY <1>3, <2>16, <2>17, SendRests
<1> QED
  BY <1>4, <1>5

\* A buffer more.
LEMMA SendPuts ==
    ASSUME Send!SendAssumption, SendInv, NEW b \in SendBuffers, Send!Queue(b)
    PROVE  SendInv' /\ SendMoves
<1>1. PICK d \in 0 .. QueueSize, w \in 0 .. QueueSize, k \in 0 .. QueueSize :
         SendState(d, w, k)
  BY DEF SendInv
<1>2. SendTypes /\ SendBefore(d, w, k)
  BY <1>1, SendKnown DEF SendInv
<1>0. PICK m : m = d + w
  OBVIOUS
<1> DEFINE L == d - k + w
           i == SendAt(free, m + 1)
<1>3. PICK len \in Lengths :
         /\ total + len <= MaxTotal /\ total' = total + len
         /\ desc' = [desc EXCEPT ![Send!Succ(write)] =
                        [arg |-> b, len |-> len, pkt |-> total + len]]
         /\ write' = Send!Succ(write)
  BY DEF Send!Queue
<1>4. /\ space > 0 /\ space' = space - 1 /\ invoked' = TRUE
      /\ UNCHANGED <<mode, link, read, free, state, flight, end, after,
                     returned, pktLen, dma, routine, given>>
  BY DEF Send!Queue
<1>5. /\ QueueSize \in Nat /\ MaxTotal \in Nat /\ d \in Nat /\ w \in Nat
      /\ k \in Nat /\ k <= d /\ space \in Nat /\ m + space <= QueueSize
      /\ m \in Nat /\ m \in 0 .. QueueSize /\ m + 1 \in 0 .. QueueSize
      /\ m < QueueSize /\ L \in Nat /\ w + 1 \in 0 .. QueueSize
      /\ w + 1 \in Nat /\ d + (w + 1) = m + 1 /\ d - k + (w + 1) = L + 1
      /\ d \in 0 .. QueueSize /\ k \in 0 .. QueueSize /\ k + (L + 1) = m + 1
      /\ space - 1 \in Nat /\ m + 1 + (space - 1) <= QueueSize
  <2>1. /\ QueueSize \in Nat /\ MaxTotal \in Nat /\ d \in Nat /\ w \in Nat
        /\ k \in Nat /\ k <= d /\ space \in Nat /\ d + w + space <= QueueSize
    BY <1>2 DEF SendBefore
  <2> QED
    BY <1>0, <1>4, <2>1
<1>6. /\ free \in Send!Slots /\ i \in Send!Slots /\ Send!Succ(write) = i
      /\ read = SendAt(free, d) /\ write = SendAt(free, m)
  <2>1. /\ free \in Send!Slots /\ read = SendAt(free, d)
        /\ write = SendAt(free, m)
    BY <1>0, <1>2 DEF SendBefore
  <2>2. i \in Send!Slots
    BY <1>5, <2>1, SendAround
  <2>3. Send!Succ(SendAt(free, m)) = SendAt(free, m + 1)
    BY <1>5, <2>1, SendNext
  <2> QED
    BY <2>1, <2>2, <2>3
<1>7. len \in Nat /\ total \in Nat /\ total + len \in 0 .. MaxTotal
  <2>1. len \in Nat /\ total \in 0 .. MaxTotal
    BY <1>2 DEF SendTypes, Send!SendAssumption
  <2> QED
    BY <1>3, <1>5, <2>1
<1> DEFINE new == [arg |-> b, len |-> len, pkt |-> total + len]
<1>8. desc' = [desc EXCEPT ![i] = new] /\ write' = i
  BY <1>3, <1>6
<1>9. desc'[i] = new /\ \A n \in 0 .. m : desc'[SendAt(free, n)] = desc[SendAt(free, n)]
  <2> HIDE DEF i, new
  <2>1. desc'[i] = new
    BY <1>2, <1>6, <1>8 DEF SendTypes
  <2>2. ASSUME NEW n \in 0 .. m
        PROVE  desc'[SendAt(free, n)] = desc[SendAt(free, n)]
    <3>1. n \in 0 .. QueueSize /\ n # m + 1
      <4> QED
        BY <1>5
    <3>2. SendAt(free, n) # i
      <4>1. SUFFICES ASSUME SendAt(free, n) = SendAt(free, m + 1) PROVE FALSE
        BY DEF i
      <4> QED
        BY <1>5, <1>6, <3>1, <4>1, SendApart
    <3>3. SendAt(free, n) \in Send!Slots
      BY <1>6, <3>1, SendAround
    <3> QED
      BY <1>2, <1>8, <3>2, <3>3 DEF SendTypes
  <2> QED
    BY <2>1, <2>2
<1>10. SendTypes'
  <2>1. new \in [arg : SendBuffers \cup {None}, len : Nat, pkt : 0 .. MaxTotal]
    BY <1>7
  <2>2. desc' \in [Send!Slots -> [arg : SendBuffers \cup {None}, len : Nat,
                                  pkt : 0 .. MaxTotal]]
    <3> HIDE DEF new, i
    <3> QED
      BY <1>2, <1>6, <1>8, <2>1 DEF SendTypes
  <2> HIDE DEF i, new
  <2> QED
    BY <1>2, <1>3, <1>4, <1>6, <1>7, <1>8, <2>2 DEF SendTypes
<1>11. \A n : SendAt(free, n)' = SendAt(free, n)
  BY <1>4 DEF SendAt
<1>12. SendRing(d, w + 1)'
  <2>1. SendAt(free, d)' = read /\ SendAt(free, d + (w + 1))' = i
    BY <1>5, <1>6, <1>11
  <2> HIDE DEF i
  <2>2. d + (w + 1) + (space - 1) <= QueueSize
    BY <1>5
  <2> QED
    BY <1>4, <1>5, <1>8, <2>1, <2>2 DEF SendRing
<1>13. SendLinks(d)' /\ SendBack(d, k)' /\ SendStage(w + 1)'
  <2>1. SendLinks(d) /\ SendBack(d, k) /\ SendStage(w)
    BY <1>1 DEF SendState
  <2>2. SendLinks(d)'
    BY <1>4, <2>1 DEF SendLinks, SendAt
  <2>3. SendBack(d, k)'
    BY <1>4, <2>1 DEF SendBack, SendAt
  <2>4. SendStage(w + 1)'
    BY <1>4, <2>1 DEF SendStage
  <2> QED
    BY <2>2, <2>3, <2>4
<1>14. \A n \in 0 .. m : SendPkt(n)' = SendPkt(n)
  BY <1>4, <1>9, <1>11 DEF SendPkt
<1>15. \A n \in 1 .. m : SendAdds(n)' <=> SendAdds(n)
  <2> SUFFICES ASSUME NEW n \in 1 .. m PROVE SendAdds(n)' <=> SendAdds(n)
    OBVIOUS
  <2>1. n \in 0 .. m /\ n - 1 \in 0 .. m
    <3> QED
      BY <1>5
  <2> QED
    BY <1>9, <1>11, <1>14, <2>1 DEF SendAdds
<1>16. SendWaiting(d, w + 1)'
  <2>1. CASE state = "unsent"
    BY <1>4, <2>1 DEF SendWaiting
  <2>2. CASE state # "unsent"
    <3>1. total = SendPkt(m) /\ \A n \in d + 1 .. m : SendAdds(n)
      BY <1>0, <1>1, <2>2 DEF SendState, SendWaiting
    <3>2. SendPkt(m + 1)' = total + len
      <4>1. SendAt(free, m + 1)' = i /\ m + 1 # 0
        BY <1>5, <1>11
      <4> HIDE DEF i
      <4> QED
        BY <1>9, <4>1 DEF SendPkt
    <3>3. ASSUME NEW n, n = m + 1 PROVE SendAdds(n)'
      <4>1. SendPkt(n - 1)' = total
        <5>1. n - 1 = m /\ m \in 0 .. m
          BY <1>5, <3>3
        <5> QED
          BY <1>14, <3>1, <5>1
      <4>2. SendAt(free, n)' = i
        BY <1>11, <3>3
      <4>3. desc'[i].len = len
        <5> HIDE DEF i
        <5> QED
          BY <1>9
      <4>4. SendPkt(n)' = total + len
        BY <3>2, <3>3
      <4> HIDE DEF i
      <4> QED
        BY <4>1, <4>2, <4>3, <4>4 DEF SendAdds
    <3>4. ASSUME NEW n \in d + 1 .. d + (w + 1) PROVE SendAdds(n)'
      <4>1. n = m + 1 \/ (n \in d + 1 .. m /\ n \in 1 .. m)
        BY <1>0, <1>5
      <4>2. CASE n = m + 1
        <5> QED
          BY <3>3, <4>2
      <4>3. CASE n \in d + 1 .. m /\ n \in 1 .. m
        <5> QED
          BY <1>15, <3>1, <4>3
      <4> QED
        BY <4>1, <4>2, <4>3
    <3>5. total' = SendPkt(d + (w + 1))'
      BY <1>3, <1>5, <3>2
    <3> QED
      BY <3>4, <3>5 DEF SendWaiting
  <2> QED
    BY <2>1, <2>2
<1>17. SendFlown(d)'
  <2>1. SendFlown(d)
    BY <1>1 DEF SendState
  <2>2. d \in 0 .. m /\ (\A n \in 2 .. d : n \in 1 .. m)
        /\ (d > 0 => 1 \in 0 .. m)
    BY <1>0, <1>5
  <2>3. (\A n \in 2 .. d : SendAdds(n))'
    BY <1>15, <2>1, <2>2 DEF SendFlown
  <2>4. (d > 0 => desc[SendAt(free, 1)].len <= SendPkt(1))'
    <3> QED
      BY <1>9, <1>11, <1>14, <2>1, <2>2 DEF SendFlown
  <2>5. (state = "sending" \/ routine = "results" => pktLen = SendPkt(d))'
    <3> QED
      BY <1>4, <1>14, <2>1, <2>2 DEF SendFlown
  <2> QED
    BY <2>3, <2>4, <2>5 DEF SendFlown
<1>18. SendState(d, w + 1, k)'
  BY <1>12, <1>13, <1>16, <1>17 DEF SendState
<1>19. /\ SendInv'
       /\ SendHeld' = [n \in 1 .. L + 1 |-> desc'[SendAt(free, k + n)].arg]
  <2>1. /\ SendInv'
        /\ SendHeld' = [n \in 1 .. d - k + (w + 1)
                           |-> desc'[SendAt(free', k + n)].arg]
    BY <1>5, <1>10, <1>18, SendThen
  <2> QED
    BY <1>4, <1>5, <2>1
<1>20. SendHeld' = Append(SendHeld, b)
  <2> DEFINE a == [n \in 1 .. L |-> desc[SendAt(free, k + n)].arg]
             c == [n \in 1 .. L + 1 |-> desc'[SendAt(free, k + n)].arg]
  <2>1. SendHeld = a /\ SendHeld' = c
    BY <1>2, <1>19 DEF SendBefore
  <2>2. \A n \in 1 .. L : c[n] = a[n]
    <3>1. ASSUME NEW n \in 1 .. L PROVE c[n] = a[n]
      <4>1. k + n \in 0 .. m /\ n \in 1 .. L + 1
        BY <1>0, <1>5
      <4> HIDE DEF L
      <4> QED
        BY <1>9, <4>1
    <3> QED
      BY <3>1
  <2>3. c[L + 1] = b
    <3>1. L + 1 \in 1 .. L + 1
      <4> HIDE DEF L
      <4> QED
        BY <1>5
    <3>2. c[L + 1] = desc'[i].arg
      BY <1>5, <3>1
    <3> HIDE DEF i, c
    <3> QED
      BY <1>9, <3>2
  <2>4. c = [n \in 1 .. L + 1 |-> c[n]] /\ a = [n \in 1 .. L |-> a[n]]
    OBVIOUS
  <2> HIDE DEF a, c, L
  <2>5. c = [n \in 1 .. L + 1 |-> IF n = L + 1 THEN b ELSE a[n]]
    <3>1. \A n \in 1 .. L + 1 : n # L + 1 => n \in 1 .. L
      BY <1>5
    <3>2. \A n \in 1 .. L + 1 : c[n] = IF n = L + 1 THEN b ELSE a[n]
      BY <2>2, <2>3, <3>1
    <3> QED
      BY <2>4, <3>2
  <2>6. Append([n \in 1 .. L |-> a[n]], b)
           = [n \in 1 .. L + 1 |-> IF n = L + 1 THEN b ELSE a[n]]
    BY <1>5
  <2> QED
    BY <2>1, <2>4, <2>5, <2>6
<1> QED
  BY <1>4, <1>19, <1>20 DEF SendMoves, SendHeld, Send!AQ!Next, Send!AQ!Put

\* The counter starts anew, with nothing but what is in flight.
LEMMA SendCounts ==
    ASSUME Send!SendAssumption, SendPlain, SendInv, Send!ResetCounter
    PROVE  SendInv' /\ SendMoves
<1>1. PICK d \in 0 .. QueueSize, w \in 0 .. QueueSize, k \in 0 .. QueueSize :
         SendState(d, w, k)
  BY DEF SendInv
<1>2. SendTypes /\ SendBefore(d, w, k)
  BY <1>1, SendKnown DEF SendInv
<1>3. /\ routine = "off" /\ state = "idle" /\ read = write /\ pktLen' = 0
      /\ UNCHANGED <<mode, link, write, read, free, flight, end, after,
                     returned, dma, invoked, routine, given, space>>
  BY DEF Send!ResetCounter, SendPlain
<1>4. w = 0 /\ k = 0
  BY <1>1, <1>2, <1>3 DEF SendState, SendBack, SendBefore
<1> DEFINE s == [n \in 1 .. d |-> SendAt(free, n)]
<1>5. /\ QueueSize \in Nat /\ MaxTotal \in Nat /\ d \in Nat
      /\ d \in 0 .. QueueSize /\ free \in Send!Slots
      /\ d - k = d /\ d + w = d /\ 0 \in 0 .. QueueSize /\ d <= QueueSize
      /\ d - 0 + 0 = d /\ d - k + w = d
  BY <1>2, <1>4 DEF SendBefore
<1>6. s \in [1 .. d -> Send!Slots]
  <2>1. \A n \in 1 .. d : n \in 0 .. QueueSize
    BY <1>5
  <2>2. \A n \in 1 .. d : SendAt(free, n) \in Send!Slots
    BY <1>5, <2>1, SendAround
  <2> QED
    BY <2>2
<1> DEFINE walked == (IF flight = None THEN <<>> ELSE Send!Walk(flight)) \o <<>>
<1>7. walked = s
  <2>1. Send!Flying = [n \in 1 .. d - k |-> SendAt(free, k + n)]
    BY <1>1, <1>2, SendShows DEF SendShown, SendState
  <2>2. \A n \in 1 .. d : k + n = n
    BY <1>4, <1>5
  <2>3. Send!Flying = s
    BY <1>5, <2>1, <2>2
  <2>4. Send!Flying = IF flight = None THEN <<>> ELSE Send!Walk(flight)
    BY <1>3 DEF Send!Flying
  <2>5. s \in Seq(Send!Slots)
    BY <1>5, <1>6
  <2>6. s \o <<>> = s
    <3> HIDE DEF s
    <3> QED
      BY <2>5, EmptySeq, ConcatProperties, ConcatEmptySeq
  <2> HIDE DEF s
  <2> QED
    BY <2>3, <2>4, <2>6
<1>8. s \in Seq(Send!Slots) /\ Len(s) = d /\ DOMAIN s = 1 .. d
  BY <1>5, <1>6
<1>9. \A m, n \in 1 .. d : s[m] = s[n] => m = n
  <2> SUFFICES ASSUME NEW m \in 1 .. d, NEW n \in 1 .. d, s[m] = s[n]
               PROVE  m = n
    OBVIOUS
  <2>1. m \in 0 .. QueueSize /\ n \in 0 .. QueueSize
    BY <1>5
  <2> QED
    BY <1>5, <2>1, SendApart
<1> HIDE DEF s
<1> DEFINE P(i, n) == /\ s[n] = i
                      /\ i \notin Send!Range(SubSeq(s, n + 1, Len(s)))
           LastAt(i) == CHOOSE n \in 1 .. Len(s) : P(i, n)
<1>10. \A j \in 1 .. d : LastAt(s[j]) = j
  <2> SUFFICES ASSUME NEW j \in 1 .. d PROVE LastAt(s[j]) = j
    OBVIOUS
  <2> DEFINE q == SubSeq(s, j + 1, d)
  <2>1. q \in Seq(Send!Slots) /\ Len(q) = d - j
        /\ \A n \in 1 .. d - j : q[n] = s[j + n]
    <3>1. /\ j + 1 \in 1 .. Len(s) + 1 /\ d \in j + 1 - 1 .. Len(s)
          /\ j + 1 <= d => d - (j + 1) + 1 = d - j
          /\ ~(j + 1 <= d) => d - j = 0
          /\ d \in 0 .. Len(s) /\ j + 1 >= 1
          /\ \A n \in 1 .. d - j : j + 1 + n - 1 = j + n
      BY <1>5, <1>8
    <3> QED
      BY <1>8, <3>1, SubSeqProperties
  <2>2. s[j] \notin Send!Range(q)
    <3> HIDE DEF q
    <3>1. DOMAIN q = 1 .. d - j
      BY <2>1
    <3>2. \A n \in 1 .. d - j : j + n \in 1 .. d /\ j + n # j
      BY <1>5
    <3>3. \A n \in 1 .. d - j : q[n] # s[j]
      BY <1>9, <2>1, <3>2
    <3> QED
      BY <3>1, <3>3 DEF Send!Range
  <2>3. P(s[j], j) /\ j \in 1 .. Len(s)
    BY <1>8, <2>2
  <2> HIDE DEF P
  <2>4. P(s[j], LastAt(s[j])) /\ LastAt(s[j]) \in 1 .. Len(s)
    BY <2>3, Zenon
  <2> USE DEF P
  <2> HIDE DEF LastAt
  <2> QED
    BY <1>8, <1>9, <2>4
<1> HIDE DEF P
<1> DEFINE T == Send!Totals(s)
           D(x) == [i \in Send!Slots |->
                      IF i \notin Send!Range(x) THEN desc[i]
                      ELSE [desc[i] EXCEPT !.pkt = Send!Totals(x)[
                              CHOOSE n \in 1 .. Len(x) :
                                x[n] = i /\ i \notin Send!Range(SubSeq(x, n + 1,
                                                             Len(x)))]]]
<1>11. total' = T[d] /\ desc' = D(s) /\ state' = state
  <2> DEFINE front == IF read = write THEN <<>> ELSE Send!Walk(Send!Succ(read))
             full == (IF flight = None THEN <<>> ELSE Send!Walk(flight)) \o front
  <2>1. ~Send!Closed(front) /\ front = <<>>
    BY <1>3 DEF Send!Closed
  <2>2. full = s
    <3> HIDE DEF front
    <3> QED
      BY <1>7, <2>1
  <2>3. /\ routine = "off"
        /\ IF Send!Closed(front)
           THEN state' = "endless" /\ UNCHANGED <<total, desc>>
           ELSE /\ total' = Send!Total(full) /\ desc' = D(full)
                /\ UNCHANGED state
    BY Zenon DEF Send!ResetCounter
  <2> HIDE DEF front, full, D
  <2>4. total' = Send!Total(full) /\ desc' = D(full) /\ state' = state
    BY <2>1, <2>3, Zenon
  <2>5. total' = Send!Total(s) /\ desc' = D(s)
    BY <2>2, <2>4, Zenon
  <2> QED
    BY <1>8, <2>4, <2>5 DEF Send!Total
<1>12. T[0] = 0 /\ \A n \in 1 .. d : T[n] = T[n - 1] + desc[s[n]].len
  BY <1>2, <1>5, <1>6, SendTotals DEF s
<1>13. \A n \in 1 .. d : /\ s[n] \in Send!Slots /\ s[n] = SendAt(free, n)
                         /\ desc[s[n]].len \in Nat /\ n # 0
                         /\ SendPkt(n) = desc[s[n]].pkt
                         /\ desc[s[n]].pkt \in 0 .. MaxTotal
  <2> SUFFICES ASSUME NEW n \in 1 .. d
               PROVE     /\ s[n] \in Send!Slots /\ s[n] = SendAt(free, n)
                         /\ desc[s[n]].len \in Nat /\ n # 0
                         /\ SendPkt(n) = desc[s[n]].pkt
                         /\ desc[s[n]].pkt \in 0 .. MaxTotal
    OBVIOUS
  <2>1. s[n] = SendAt(free, n) /\ s[n] \in Send!Slots /\ n # 0
    BY <1>6 DEF s
  <2> QED
    BY <1>2, <2>1 DEF SendTypes, SendPkt
<1> HIDE DEF T
<1>14. \A n \in 0 .. d : T[n] \in Nat /\ (n # 0 => T[n] <= SendPkt(n))
  <2> DEFINE S == {n \in Nat : n <= d => T[n] \in Nat /\ (n # 0 => T[n] <= SendPkt(n))}
  <2>1. 0 \in S
    BY <1>12
  <2>2. ASSUME NEW n \in Nat, n \in S PROVE n + 1 \in S
    <3>1. SUFFICES ASSUME n + 1 <= d
                   PROVE  T[n + 1] \in Nat /\ T[n + 1] <= SendPkt(n + 1)
      OBVIOUS
    <3>2. /\ n + 1 \in 1 .. d /\ n + 1 - 1 = n /\ n <= d /\ d > 0
          /\ n # 0 => n \in 1 .. d /\ n + 1 \in 2 .. d
          /\ n = 0 => n + 1 = 1
      BY <1>5, <3>1
    <3>3. T[n] \in Nat /\ (n # 0 => T[n] <= SendPkt(n))
      BY <2>2, <3>2
    <3>4. T[n + 1] = T[n] + desc[s[n + 1]].len /\ desc[s[n + 1]].len \in Nat
          /\ s[n + 1] = SendAt(free, n + 1)
      BY <1>12, <1>13, <3>2
    <3>5. T[n + 1] \in Nat
      BY <3>3, <3>4
    <3>6. SendPkt(n + 1) \in Nat
      BY <1>5, <1>13, <3>2
    <3>7. CASE n = 0
      <4>1. desc[SendAt(free, 1)].len <= SendPkt(1)
        BY <1>1, <3>2 DEF SendState, SendFlown
      <4>2. desc[s[n + 1]].len <= SendPkt(n + 1)
        BY <3>2, <3>4, <3>7, <4>1
      <4> QED
        BY <1>12, <3>4, <3>5, <3>7, <4>2
    <3>8. CASE n # 0
      <4>1. SendAdds(n + 1)
        BY <1>1, <3>2, <3>8 DEF SendState, SendFlown
      <4>2. SendPkt(n + 1) = SendPkt(n) + desc[s[n + 1]].len
        BY <3>2, <3>4, <4>1 DEF SendAdds
      <4>3. SendPkt(n) \in Nat
        BY <1>5, <1>13, <3>2, <3>8
      <4> QED
        BY <3>3, <3>4, <3>5, <3>8, <4>2, <4>3
    <3> QED
      BY <3>5, <3>7, <3>8
  <2>3. Nat \subseteq S
    <3> HIDE DEF S
    <3> QED
      BY <2>1, <2>2, Induct
  <2> QED
    BY <1>5, <2>3
<1>15. \A n \in 0 .. d : T[n] \in 0 .. MaxTotal
  <2> SUFFICES ASSUME NEW n \in 0 .. d PROVE T[n] \in 0 .. MaxTotal
    OBVIOUS
  <2>1. CASE n = 0
    BY <1>5, <1>12, <2>1
  <2>2. CASE n # 0
    <3>1. n \in 1 .. d
      BY <2>2
    <3> QED
      BY <1>5, <1>13, <1>14, <2>2, <3>1
  <2> QED
    BY <2>1, <2>2
<1>16. /\ desc' \in [Send!Slots -> [arg : SendBuffers \cup {None}, len : Nat,
                                    pkt : 0 .. MaxTotal]]
       /\ \A i \in Send!Slots : /\ desc'[i].arg = desc[i].arg
                                /\ desc'[i].len = desc[i].len
       /\ \A n \in 1 .. d : desc'[s[n]].pkt = T[n]
  <2> DEFINE F == [i \in Send!Slots |->
                      IF i \notin Send!Range(s) THEN desc[i]
                      ELSE [desc[i] EXCEPT !.pkt = T[LastAt(i)]]]
  <2>1. desc' = F
    BY <1>11 DEF P, T
  <2>2. Send!Range(s) = {s[n] : n \in 1 .. d}
    BY <1>8 DEF Send!Range
  <2> HIDE DEF LastAt
  <2>3. ASSUME NEW n \in 1 .. d
        PROVE  desc'[s[n]] = [desc[s[n]] EXCEPT !.pkt = T[n]]
    <3>1. s[n] \in Send!Range(s) /\ s[n] \in Send!Slots
      BY <1>13, <2>2
    <3> QED
      BY <1>10, <2>1, <3>1
  <2>4. ASSUME NEW i \in Send!Slots, i \notin Send!Range(s)
        PROVE  desc'[i] = desc[i]
    BY <2>1, <2>4
  <2>5. ASSUME NEW i \in Send!Slots
        PROVE  /\ desc'[i] \in [arg : SendBuffers \cup {None}, len : Nat,
                                pkt : 0 .. MaxTotal]
               /\ desc'[i].arg = desc[i].arg /\ desc'[i].len = desc[i].len
               /\ \A n \in 1 .. d : i = s[n] => desc'[i].pkt = T[n]
    <3>0. desc[i] \in [arg : SendBuffers \cup {None}, len : Nat,
                                pkt : 0 .. MaxTotal]
      BY <1>2 DEF SendTypes
    <3>1. CASE i \notin Send!Range(s)
      BY <2>2, <2>4, <3>0, <3>1
    <3>2. CASE i \in Send!Range(s)
      <4>1. PICK n \in 1 .. d : i = s[n]
        BY <2>2, <3>2
      <4>2. desc'[i] = [desc[i] EXCEPT !.pkt = T[n]] /\ T[n] \in 0 .. MaxTotal
        <5>1. n \in 0 .. d
          OBVIOUS
        <5> QED
          BY <1>15, <2>3, <4>1, <5>1
      <4>3. \A m \in 1 .. d : i = s[m] => m = n
        BY <1>9, <4>1
      <4> QED
        BY <3>0, <4>2, <4>3
    <3> QED
      BY <3>1, <3>2
  <2>6. desc' = [i \in Send!Slots |-> desc'[i]]
    BY <2>1
  <2> HIDE DEF F
  <2> QED
    BY <1>13, <2>5, <2>6
<1>17. SendTypes'
  <2>1. d \in 0 .. d
    BY <1>5
  <2>2. total' \in 0 .. MaxTotal /\ 0 \in 0 .. MaxTotal
    BY <1>5, <1>11, <1>15, <2>1
  <2> HIDE DEF D
  <2> QED
    BY <1>2, <1>3, <1>11, <1>16, <2>2 DEF SendTypes
<1>18. SendRing(d, 0)' /\ SendLinks(d)' /\ SendBack(d, 0)' /\ SendStage(0)'
  <2>1. SendRing(d, w) /\ SendLinks(d) /\ SendBack(d, k) /\ SendStage(w)
    BY <1>1 DEF SendState
  <2>2. SendRing(d, 0)'
    BY <1>3, <1>4, <2>1 DEF SendRing, SendAt
  <2> HIDE DEF D
  <2>3. SendLinks(d)'
    BY <1>3, <2>1 DEF SendLinks, SendAt
  <2>4. SendBack(d, 0)' /\ SendStage(0)'
    BY <1>3, <1>4, <1>11, <2>1 DEF SendBack, SendStage, SendAt
  <2> QED
    BY <2>2, <2>3, <2>4
<1>19. \A n \in 1 .. d : SendPkt(n)' = T[n]
  <2> SUFFICES ASSUME NEW n \in 1 .. d PROVE SendPkt(n)' = T[n]
    OBVIOUS
  <2>1. n # 0 /\ SendAt(free, n)' = s[n]
    BY <1>3, <1>13 DEF SendAt
  <2> QED
    BY <1>16, <2>1 DEF SendPkt
<1>20. SendPkt(0)' = T[0]
  BY <1>3, <1>12 DEF SendPkt
<1>21. SendWaiting(d, 0)'
  <2>1. d + 0 = d /\ (d = 0 \/ d \in 1 .. d) /\ \A n \in d + 1 .. d + 0 : FALSE
    BY <1>5
  <2>2. total' = SendPkt(d)'
    BY <1>11, <1>19, <1>20, <2>1
  <2> QED
    BY <2>1, <2>2 DEF SendWaiting
<1>22. SendFlown(d)'
  <2>1. ASSUME d > 0 PROVE (desc[SendAt(free, 1)].len <= SendPkt(1))'
    <3>1. 1 \in 1 .. d /\ 1 - 1 = 0
      BY <1>5, <2>1
    <3>2. T[1] = desc[s[1]].len /\ desc[s[1]].len \in Nat
      BY <1>12, <1>13, <3>1
    <3>3. SendAt(free, 1)' = s[1] /\ s[1] \in Send!Slots
      BY <1>3, <1>13, <3>1 DEF SendAt
    <3>4. (desc[SendAt(free, 1)].len)' = T[1] /\ SendPkt(1)' = T[1]
      BY <1>16, <1>19, <3>1, <3>2, <3>3
    <3> QED
      BY <3>2, <3>4
  <2>2. ASSUME NEW n \in 2 .. d PROVE SendAdds(n)'
    <3>1. n \in 1 .. d /\ n - 1 \in 1 .. d
      BY <1>5
    <3>2. SendAt(free, n)' = s[n] /\ s[n] \in Send!Slots
      BY <1>3, <1>13, <3>1 DEF SendAt
    <3>3. (desc[SendAt(free, n)].len)' = desc[s[n]].len
      BY <1>16, <3>2
    <3> QED
      BY <1>12, <1>19, <3>1, <3>3 DEF SendAdds
  <2>3. ~(state = "sending" \/ routine = "results")'
    BY <1>3, <1>11
  <2> QED
    BY <2>1, <2>2, <2>3 DEF SendFlown
<1>23. SendState(d, 0, 0)'
  BY <1>18, <1>21, <1>22 DEF SendState
<1>24. /\ SendInv'
       /\ SendHeld' = [n \in 1 .. d |-> desc'[SendAt(free, 0 + n)].arg]
  <2>1. /\ SendInv'
        /\ SendHeld' = [n \in 1 .. d - 0 + 0
                           |-> desc'[SendAt(free', 0 + n)].arg]
    BY <1>5, <1>17, <1>23, SendThen
  <2> QED
    BY <1>3, <1>5, <2>1
<1>25. SendHeld' = SendHeld
  <2>1. SendHeld = [n \in 1 .. d |-> desc[SendAt(free, 0 + n)].arg]
    BY <1>2, <1>4, <1>5 DEF SendBefore
  <2>2. \A n \in 1 .. d : desc'[SendAt(free, 0 + n)].arg = desc[SendAt(free, 0 + n)].arg
    <3>1. \A n \in 1 .. d : 0 + n = n
      OBVIOUS
    <3> QED
      BY <1>13, <1>16, <3>1
  <2> QED
    BY <1>24, <2>1, <2>2
<1> QED
  BY <1>3, <1>24, <1>25, SendRests

\* Flushing, with nothing left in flight.
LEMMA SendFlushes ==
    ASSUME Send!SendAssumption, SendInv, Send!FlushUnsent
    PROVE  SendInv' /\ SendMoves
<1>1. PICK d \in 0 .. QueueSize, w \in 0 .. QueueSize, k \in 0 .. QueueSize :
         SendState(d, w, k)
  BY DEF SendInv
<1>2. SendTypes /\ SendBefore(d, w, k)
  BY <1>1, SendKnown DEF SendInv
<1>3. /\ routine = "off" /\ state \in {"idle", "result", "unsent"}
      /\ state # "unsent" => Send!NextInflight(state = "idle") = None
      /\ UNCHANGED <<mode, desc, write, after, returned, pktLen, dma, invoked,
                     routine>>
  BY DEF Send!FlushUnsent
<1>4. returned = None /\ k = d
  <2>1. CASE state = "idle"
    BY <1>1, <1>3, <2>1 DEF SendState, SendBack, SendLinks, Send!NextInflight
  <2>2. CASE state = "unsent"
    BY <1>1, <2>2 DEF SendState, SendBack, SendLinks, SendStage
  <2>3. CASE state = "result"
    <3>1. returned = None
      BY <1>3, <2>3 DEF Send!NextInflight
    <3>2. k = d \/ returned = SendAt(free, k + 1)
      BY <1>1, <2>3 DEF SendState, SendBack
    <3>3. k # d => k + 1 \in 0 .. QueueSize
      BY <1>2 DEF SendBefore
    <3>4. k # d => SendAt(free, k + 1) # None
      BY <1>2, <3>3, SendAround DEF SendBefore
    <3> QED
      BY <3>1, <3>2, <3>4
  <2> QED
    BY <1>3, <2>1, <2>2, <2>3
<1>5. /\ Send!Mended = [i \in Send!Slots |-> Send!Succ(i)]
      /\ Send!Freed = read /\ Send!Returned = d
  BY <1>1, SendMended
<1>6. /\ link' = [i \in Send!Slots |-> Send!Succ(i)]
      /\ flight' = None /\ end' = None
  BY <1>5 DEF Send!FlushUnsent
<1>7. /\ QueueSize \in Nat /\ MaxTotal \in Nat /\ d \in Nat /\ w \in Nat
      /\ space \in Nat /\ d + w + space <= QueueSize /\ d - k + w = w
      /\ 0 \in 0 .. QueueSize /\ w \in 0 .. w
      /\ free \in Send!Slots /\ read \in Send!Slots
      /\ d \in 0 .. QueueSize /\ d + w \in 0 .. QueueSize
  BY <1>2, <1>4 DEF SendBefore
<1>8. /\ SendAt(read, 0) = read /\ SendAt(read, w) = write
      /\ \A n \in 0 .. w : SendAt(read, n) = SendAt(free, d + n)
  BY <1>2, SendAgain
<1>9. CASE read # write
  <2>1. /\ read' = Send!Succ(read) /\ free' = Send!Succ(read)
        /\ space' = space + 1 /\ given' = desc[Send!Succ(read)].arg
        /\ state' = "unsent" /\ total' = total
    BY <1>9 DEF Send!FlushUnsent
  <2>2. /\ w > 0 /\ w - 1 \in Nat /\ w - 1 \in 0 .. QueueSize /\ d < QueueSize
        /\ d + 1 \in 0 .. QueueSize /\ 0 + (w - 1) + (space + 1) <= QueueSize
        /\ space + 1 \in Nat /\ 0 - 0 + (w - 1) = w - 1 /\ 0 + (w - 1) = w - 1
        /\ d + 1 + (w - 1) = d + w
        /\ space + 1 \in space .. QueueSize - (w - 1)
    <3>1. w # 0
      BY <1>2, <1>9 DEF SendBefore
    <3> QED
      BY <1>7, <3>1
  <2>3. /\ Send!Succ(read) = SendAt(free, d + 1)
        /\ Send!Succ(read) \in Send!Slots
    <3>1. read = SendAt(free, d)
      BY <1>2 DEF SendBefore
    <3>2. Send!Succ(read) = SendAt(free, d + 1)
      BY <1>7, <2>2, <3>1, SendNext
    <3> QED
      BY <1>7, <2>2, <3>2, SendAround
  <2>4. \A n \in 0 .. w - 1 : SendAt(free', n) = SendAt(free, d + 1 + n)
    <3> SUFFICES ASSUME NEW n \in 0 .. w - 1
                 PROVE  SendAt(free', n) = SendAt(free, d + 1 + n)
      OBVIOUS
    <3>1. n \in 0 .. QueueSize /\ d + 1 + n <= QueueSize
      BY <1>7, <2>2
    <3> QED
      BY <1>7, <2>1, <2>2, <2>3, <3>1, SendFurther
  <2>5. SendTypes'
    BY <1>2, <1>3, <1>6, <2>1, <2>3 DEF SendTypes
  <2>6. SendRing(0, w - 1)'
    <3>1. 0 \in 0 .. w - 1 /\ w - 1 \in 0 .. w - 1 /\ d + 1 + 0 = d + 1
      BY <1>7, <2>2
    <3>2. SendAt(free', 0) = read' /\ SendAt(free', w - 1) = write'
      BY <1>2, <1>3, <2>1, <2>2, <2>3, <2>4, <3>1 DEF SendBefore
    <3>3. SendAt(free, 0)' = SendAt(free', 0)
          /\ SendAt(free, 0 + (w - 1))' = SendAt(free', w - 1)
      BY <2>2 DEF SendAt
    <3> QED
      BY <2>1, <2>2, <3>2, <3>3 DEF SendRing
  <2>7. SendLinks(0)' /\ SendBack(0, 0)'
    BY <1>3, <1>4, <1>6, <2>1 DEF SendLinks, SendBack
  <2>8. SendStage(w - 1)'
    BY <1>1, <1>3, <1>6, <2>1 DEF SendState, SendStage
  <2>9. SendWaiting(0, w - 1)' /\ SendFlown(0)'
    BY <1>3, <2>1 DEF SendWaiting, SendFlown
  <2>10. SendState(0, w - 1, 0)'
    BY <2>6, <2>7, <2>8, <2>9 DEF SendState
  <2>11. /\ SendInv'
         /\ SendHeld' = [n \in 1 .. 0 - 0 + (w - 1)
                            |-> desc'[SendAt(free', 0 + n)].arg]
    BY <1>7, <2>2, <2>5, <2>10, SendThen
  <2> DEFINE a == [n \in 1 .. w |-> desc[SendAt(free, d + n)].arg]
             c == [n \in 1 .. w - 1 |-> desc[SendAt(free, d + 1 + n)].arg]
  <2>12. SendHeld = [n \in 1 .. w |-> a[n]] /\ Len(SendHeld) = w
    BY <1>2, <1>4, <1>7 DEF SendBefore
  <2>13. SendHeld' = [n \in 1 .. w - 1 |-> c[n]]
    <3>1. \A n \in 1 .. w - 1 : n \in 0 .. w - 1 /\ 0 + n = n
      BY <2>2
    <3> QED
      BY <1>3, <2>2, <2>4, <2>11, <3>1
  <2>14. \A n \in 1 .. w - 1 : c[n] = a[n + 1]
    <3>1. \A n \in 1 .. w - 1 : n + 1 \in 1 .. w /\ d + 1 + n = d + (n + 1)
      BY <1>7
    <3> QED
      BY <3>1
  <2>15. given' = a[1]
    <3>1. 1 \in 1 .. w
      BY <1>7, <2>2
    <3> QED
      BY <2>1, <2>3, <3>1
  <2>16. space' \in space .. QueueSize - (w - 1)
    BY <2>1, <2>2
  <2> HIDE DEF a, c
  <2>17. SendMoves
    BY <1>7, <2>2, <2>12, <2>13, <2>14, <2>15, <2>16, SendTakes
  <2> QED
    BY <2>11, <2>17
<1>10. CASE read = write
  <2>1. /\ free' = read /\ space' = space + d /\ state' = "idle"
        /\ total' = pktLen /\ read' = read /\ given' = given
    BY <1>5, <1>10 DEF Send!FlushUnsent
  <2>2. w = 0
    BY <1>2, <1>10 DEF SendBefore
  <2>3. SendTypes'
    BY <1>2, <1>3, <1>6, <2>1 DEF SendTypes
  <2>4. SendRing(0, 0)'
    <3>1. SendAt(free, 0)' = read' /\ 0 + 0 = 0
      BY <1>8, <2>1 DEF SendAt
    <3>2. space' \in Nat /\ 0 + 0 + space' <= QueueSize
      BY <1>7, <2>1
    <3> QED
      BY <1>3, <1>10, <2>1, <3>1, <3>2 DEF SendRing
  <2>5. SendLinks(0)' /\ SendBack(0, 0)'
    BY <1>3, <1>4, <1>6, <2>1 DEF SendLinks, SendBack
  <2>6. SendStage(0)'
    BY <1>1, <1>3, <1>6, <2>1 DEF SendState, SendStage
  <2>7. SendWaiting(0, 0)' /\ SendFlown(0)'
    BY <1>3, <2>1 DEF SendWaiting, SendFlown, SendPkt
  <2>8. SendState(0, 0, 0)'
    BY <2>4, <2>5, <2>6, <2>7 DEF SendState
  <2>9. /\ SendInv'
        /\ SendHeld' = [n \in 1 .. 0 - 0 + 0
                           |-> desc'[SendAt(free', 0 + n)].arg]
    BY <1>7, <2>3, <2>8, SendThen
  <2>10. SendHeld' = <<>> /\ SendHeld = <<>>
    <3>1. 0 - 0 + 0 = 0 /\ 1 .. 0 = {} /\ d - k + w = 0
      BY <1>7, <2>2
    <3>2. SendHeld' = <<>>
      BY <2>9, <3>1
    <3>3. SendHeld = <<>>
      BY <1>2, <3>1 DEF SendBefore
    <3> QED
      BY <3>2, <3>3
  <2>11. space' \in space .. QueueSize - 0 /\ Len(SendHeld) = 0
    BY <1>7, <2>1, <2>10
  <2> QED
    BY <1>7, <2>1, <2>9, <2>10, <2>11, SendReleases
<1> QED
  BY <1>9, <1>10

\* An empty ring.
LEMMA SendStartsEmpty ==
    ASSUME Send!SendAssumption, Send!Init
    PROVE  SendInv /\ Send!AQ!Init
<1>1. /\ QueueSize \in Nat /\ MaxTotal \in Nat /\ 0 \in 0 .. QueueSize
      /\ 0 \in Send!Slots /\ 0 \in 0 .. MaxTotal /\ 0 + 0 + QueueSize <= QueueSize
      /\ 0 + 0 = 0 /\ \A i \in Send!Slots : Send!Succ(i) \in Send!Slots
  <2>1. QueueSize \in Nat /\ MaxTotal \in Nat
    BY DEF Send!SendAssumption
  <2>2. \A i \in Send!Slots : Send!Succ(i) \in Send!Slots
    BY SendPlaces
  <2> QED
    BY <2>1, <2>2, SendPlaces
<1>2. SendTypes
  BY <1>1 DEF SendTypes, Send!Init
<1>3. SendAt(0, 0) = 0
  BY <1>1 DEF SendAt
<1>4. SendState(0, 0, 0)
  <2>1. SendRing(0, 0)
    BY <1>1, <1>3 DEF SendRing, Send!Init
  <2>2. SendLinks(0) /\ SendBack(0, 0) /\ SendStage(0)
    BY DEF SendLinks, SendBack, SendStage, Send!Init
  <2>3. SendWaiting(0, 0) /\ SendFlown(0)
    BY <1>1 DEF SendWaiting, SendFlown, SendPkt, Send!Init
  <2> QED
    BY <2>1, <2>2, <2>3 DEF SendState
<1>5. SendInv
  BY <1>1, <1>2, <1>4 DEF SendInv
<1>6. SendHeld = <<>>
  <2>1. SendHeld = [n \in 1 .. 0 - 0 + 0 |-> desc[SendAt(free, 0 + n)].arg]
    BY <1>1, <1>2, <1>4, SendShows DEF SendShown, SendState
  <2>2. 1 .. 0 - 0 + 0 = {}
    OBVIOUS
  <2> QED
    BY <2>1, <2>2
<1> QED
  BY <1>5, <1>6 DEF SendHeld, Send!AQ!Init, Send!Init, Send!SendAssumption

\* Each step preserves the invariant and is one of the queue.
LEMMA SendSteps ==
    ASSUME Send!SendAssumption, SendPlain, SendInv, Send!Next
    PROVE  SendInv' /\ SendMoves
<1>1. CASE \E b \in SendBuffers : Send!Queue(b)
  BY <1>1, SendPuts
<1>2. CASE Send!Start \/ Send!Stop \/ Send!DmaSent \/ Send!IsrEnter
  BY <1>2, SendSwitches
<1>3. CASE Send!ResetCounter
  BY <1>3, SendCounts
<1>4. CASE Send!IsrResult
  BY <1>4, SendReturns, SendEnds
<1>5. CASE Send!IsrPacket
  BY <1>5, SendStarts
<1>6. CASE Send!FlushInflight
  BY <1>6, SendReturns
<1>7. CASE Send!FlushUnsent
  BY <1>7, SendFlushes
<1> QED
  BY <1>1, <1>2, <1>3, <1>4, <1>5, <1>6, <1>7 DEF Send!Next

\* So is none.
LEMMA SendStays ==
    ASSUME Send!SendAssumption, SendInv, UNCHANGED Send!vars
    PROVE  SendInv' /\ SendMoves
<1>1. PICK d \in 0 .. QueueSize, w \in 0 .. QueueSize, k \in 0 .. QueueSize :
         SendState(d, w, k)
  BY DEF SendInv
<1>2. SendTypes /\ SendTypes' /\ SendStage(w)' /\ SendBack(d, k)'
  BY <1>1 DEF SendInv, SendState, SendTypes, SendStage, SendBack, Send!vars
<1> QED
  BY <1>1, <1>2, SendControls DEF Send!vars

\* The invariant holds.
LEMMA SendInvariance ==
    ASSUME Send!SendAssumption, SendPlain
    PROVE  Send!Spec => []SendInv
<1>1. Send!Init => SendInv
  BY SendStartsEmpty
<1>2. SendInv /\ [Send!Next]_Send!vars => SendInv'
  BY SendSteps, SendStays
<1> QED
  BY <1>1, <1>2, PTL DEF Send!Spec

\* The ring of descriptors, of which the part in flight is cut out, implements a
\* queue: buffers come back once each and in their order, and their space never
\* before them; over packets, streams, stops, flushes and recounts.
THEOREM SendPromised ==
    ASSUME Send!SendAssumption, SendPlain
    PROVE  Send!Spec => Send!Promised
<1>1. Send!Init => SendInv /\ Send!AQ!Init
  BY SendStartsEmpty
<1>2. SendInv /\ [Send!Next]_Send!vars =>
         SendInv' /\ [Send!AQ!Next]_Send!AQ!vars
  BY SendSteps, SendStays DEF SendMoves
<1> QED
  BY <1>1, <1>2, PTL DEF Send!Spec, Send!Promised, Send!AQ!Spec

-----------------------------------------------------------------------------
\* What the invariant says of the assertions and of the handler.
LEMMA SendAsserts ==
    ASSUME Send!SendAssumption, SendInv
    PROVE  Send!RingAsserts /\ Send!NothingForgotten
<1>1. PICK d \in 0 .. QueueSize, w \in 0 .. QueueSize, k \in 0 .. QueueSize :
         SendState(d, w, k)
  BY DEF SendInv
<1>2. SendTypes /\ SendBefore(d, w, k)
  BY <1>1, SendKnown DEF SendInv
<1>3. SendLinks(d) /\ SendBack(d, k) /\ SendStage(w)
  BY <1>1 DEF SendState
<1>4. Send!RingAsserts
  <2>1. SendAt(free, 0) = free /\ (d > 0 => Send!Succ(free) = SendAt(free, 1))
    <3>1. /\ QueueSize \in Nat /\ 0 \in 0 .. QueueSize /\ free \in Send!Slots
          /\ d > 0 => 0 < QueueSize
      BY <1>2 DEF SendBefore
    <3>2. SendAt(free, 0) = free
      BY <3>1 DEF SendAt, Send!Slots
    <3>3. ASSUME d > 0 PROVE Send!Succ(free) = SendAt(free, 1)
      <4>1. Send!Succ(SendAt(free, 0)) = SendAt(free, 0 + 1)
        BY <3>1, <3>3, SendNext
      <4> QED
        BY <3>2, <4>1
    <3> QED
      BY <3>2, <3>3
  <2>2. flight # None => Send!Succ(free) = flight /\ end = read
    BY <1>3, <2>1 DEF SendLinks
  <2>3. flight = None => free = read
    BY <1>2, <1>3, <2>1 DEF SendLinks, SendBefore
  <2>4. state \in {"idle", "wait", "sending"} => returned = None
    BY <1>3 DEF SendBack
  <2>5. state = "sending" \/ routine = "results" => flight # None
    BY <1>3 DEF SendStage, SendBack
  <2> QED
    BY <2>2, <2>3, <2>4, <2>5 DEF Send!RingAsserts
<1>5. Send!NothingForgotten
  <2> SUFFICES ASSUME routine = "off", Send!Flying \o Send!Behind # <<>>
               PROVE  /\ state = "wait" => invoked
                      /\ state = "sending" => dma \in {"sending", "eof"}
    BY DEF Send!NothingForgotten
  <2>1. state = "sending" => dma \in {"sending", "eof"}
    BY <1>2, <1>3 DEF SendStage, SendTypes
  <2>2. ASSUME state = "wait" PROVE invoked
    <3>1. flight = None /\ d = 0 /\ k = 0
      BY <1>3, <2>2 DEF SendStage, SendLinks, SendBack
    <3>2. Send!Flying = <<>>
      BY <2>2, <3>1 DEF Send!Flying
    <3>3. Send!Behind = [n \in 1 .. w |-> SendAt(read, n)]
      BY <1>1, <1>2, SendShows DEF SendShown, SendState
    <3>4. w \in Nat
      BY <1>2 DEF SendBefore
    <3>5. w > 0
      <4>1. SUFFICES ASSUME w = 0 PROVE FALSE
        BY <3>4
      <4>2. Send!Behind = <<>>
        <5>1. 1 .. w = {}
          BY <4>1
        <5> QED
          BY <3>3, <5>1
      <4> QED
        BY <3>2, <4>2
    <3> QED
      BY <1>3, <2>2, <3>1, <3>5 DEF SendStage
  <2> QED
    BY <2>1, <2>2
<1> QED
  BY <1>4, <1>5

\* What it says of the lengths of the packets that wait.
LEMMA SendCounter ==
    ASSUME Send!SendAssumption, SendInv
    PROVE  Send!CounterExact
<1>1. PICK d \in 0 .. QueueSize, w \in 0 .. QueueSize, k \in 0 .. QueueSize :
         SendState(d, w, k)
  BY DEF SendInv
<1>2. SendTypes /\ SendBefore(d, w, k)
  BY <1>1, SendKnown DEF SendInv
<1>3. state # "endless"
  BY <1>2 DEF SendTypes
<1>4. ASSUME state # "unsent"
      PROVE  total = (IF flight = None THEN pktLen ELSE desc[end].pkt)
                        + Send!Total(Send!Behind)
  <2> DEFINE s == [n \in 1 .. w |-> SendAt(read, n)]
             T == Send!Totals(s)
             f == [n \in 0 .. w |-> SendPkt(d + n)]
  <2>1. /\ QueueSize \in Nat /\ MaxTotal \in Nat /\ d \in Nat /\ w \in Nat
        /\ space \in Nat /\ d + w + space <= QueueSize
        /\ free \in Send!Slots /\ read \in Send!Slots /\ read = SendAt(free, d)
    BY <1>2 DEF SendBefore
  <2>2. Send!Behind = s
    BY <1>1, <1>2, SendShows DEF SendShown, SendState
  <2>3. s \in [1 .. w -> Send!Slots]
    <3>1. \A n \in 1 .. w : n \in 0 .. QueueSize
      BY <2>1
    <3>2. \A n \in 1 .. w : SendAt(read, n) \in Send!Slots
      BY <2>1, <3>1, SendAround
    <3> QED
      BY <3>2
  <2>4. /\ Len(s) = w /\ T[0] = 0
        /\ \A n \in 1 .. w : T[n] = T[n - 1] + desc[s[n]].len
    <3> HIDE DEF s
    <3> QED
      BY <1>2, <2>1, <2>3, SendTotals
  <2>5. \A n \in 1 .. w : s[n] = SendAt(free, d + n) /\ desc[s[n]].len \in Nat
    <3>1. \A n \in 1 .. w : n \in 0 .. w /\ s[n] = SendAt(read, n)
      OBVIOUS
    <3>2. \A n \in 0 .. w : SendAt(read, n) = SendAt(free, d + n)
      BY <1>2, SendAgain
    <3>3. \A n \in 1 .. w : s[n] \in Send!Slots
      BY <2>3
    <3> HIDE DEF s
    <3> QED
      BY <1>2, <3>1, <3>2, <3>3 DEF SendTypes
  <2>6. total = SendPkt(d + w) /\ \A n \in d + 1 .. d + w : SendAdds(n)
    BY <1>1, <1>4 DEF SendState, SendWaiting
  <2>7. SendPkt(d) = IF flight = None THEN pktLen ELSE desc[end].pkt
    <3>1. SendLinks(d)
      BY <1>1 DEF SendState
    <3> QED
      BY <2>1, <3>1 DEF SendLinks, SendPkt
  <2>8. SendPkt(d) \in Int
    <3>1. read \in Send!Slots /\ (d # 0 => SendPkt(d) = desc[read].pkt)
      BY <2>1 DEF SendPkt
    <3>2. desc[read].pkt \in 0 .. MaxTotal /\ pktLen \in 0 .. MaxTotal
      BY <1>2, <3>1 DEF SendTypes
    <3>3. SendPkt(d) \in 0 .. MaxTotal
      BY <3>1, <3>2 DEF SendPkt
    <3> QED
      BY <2>1, <3>3
  <2> HIDE DEF T, s
  <2>9. \A n \in 1 .. w : f[n] = f[n - 1] + desc[s[n]].len
    <3> SUFFICES ASSUME NEW n \in 1 .. w
                 PROVE  f[n] = f[n - 1] + desc[s[n]].len
      OBVIOUS
    <3>1. /\ n \in 0 .. w /\ n - 1 \in 0 .. w /\ d + n \in d + 1 .. d + w
          /\ d + (n - 1) = d + n - 1
      BY <2>1
    <3>2. SendPkt(d + n) = SendPkt(d + n - 1) + desc[s[n]].len
      BY <2>5, <2>6, <3>1 DEF SendAdds
    <3> QED
      BY <3>1, <3>2
  <2>10. f[0] = SendPkt(d) /\ f[w] = total
    <3>1. 0 \in 0 .. w /\ w \in 0 .. w /\ d + 0 = d
      BY <2>1
    <3> QED
      BY <2>6, <3>1
  <2> HIDE DEF f
  <2> DEFINE x == [n \in 1 .. w |-> desc[s[n]].len]
  <2>11. \A n \in 1 .. w : /\ x[n] \in Int
                           /\ f[n] = f[n - 1] + x[n]
                           /\ T[n] = T[n - 1] + x[n]
    <3> SUFFICES ASSUME NEW n \in 1 .. w
                 PROVE  /\ x[n] \in Int
                        /\ f[n] = f[n - 1] + x[n]
                        /\ T[n] = T[n - 1] + x[n]
      OBVIOUS
    <3>1. x[n] = desc[s[n]].len
      OBVIOUS
    <3>2. desc[s[n]].len \in Nat
      BY <2>5
    <3> HIDE DEF x
    <3> QED
      BY <2>4, <2>9, <3>1, <3>2
  <2>12. f[0] \in Int /\ T[0] \in Int
    BY <2>4, <2>8, <2>10
  <2>13. f[w] \in Int /\ T[w] \in Int /\ f[w] - f[0] = T[w] - T[0]
    <3> HIDE DEF x
    <3> QED
      BY <2>1, <2>11, <2>12, Telescope
  <2>14. total = SendPkt(d) + T[w]
    BY <2>4, <2>8, <2>10, <2>13
  <2>15. Send!Total(Send!Behind) = T[w]
    BY <2>2, <2>4 DEF Send!Total, T
  <2> QED
    BY <2>7, <2>14, <2>15
<1> QED
  BY <1>3, <1>4 DEF Send!CounterExact

\* Every variable has its type.
LEMMA SendTyped ==
    ASSUME Send!SendAssumption, SendInv
    PROVE  Send!TypeOK
<1>1. PICK d \in 0 .. QueueSize, w \in 0 .. QueueSize, k \in 0 .. QueueSize :
         SendState(d, w, k)
  BY DEF SendInv
<1>2. SendTypes /\ SendBefore(d, w, k)
  BY <1>1, SendKnown DEF SendInv
<1>3. ASSUME NEW i \in Send!Slots PROVE Send!Succ(i) \in Send!Slots
  BY Remainder DEF Send!SendAssumption, Send!Slots, Send!Succ
<1>4. link \in [Send!Slots -> Send!Slots \cup {None}]
  BY <1>1, <1>3 DEF SendState, SendLinks
<1>5. desc \in [Send!Slots -> Send!Desc]
  <2>1. 0 .. MaxTotal \subseteq Nat
    BY DEF Send!SendAssumption
  <2> QED
    BY <1>2, <2>1 DEF SendTypes, Send!Desc
<1>6. returned \in Send!Slots \cup {None}
  <2>1. SendBack(d, k)
    BY <1>1 DEF SendState
  <2>2. state = "result" /\ k # d => SendAt(free, k + 1) \in Send!Slots
    <3>1. state = "result" /\ k # d => k + 1 \in 0 .. QueueSize
      BY <2>1 DEF SendBack, Send!SendAssumption
    <3>2. free \in Send!Slots
      BY <1>2 DEF SendTypes
    <3> QED
      BY <3>1, <3>2, SendAround
  <2> QED
    BY <2>1, <2>2 DEF SendBack
<1>7. space \in 0 .. QueueSize
  BY <1>1 DEF SendState, SendRing, Send!SendAssumption
<1> QED
  BY <1>2, <1>4, <1>5, <1>6, <1>7 DEF SendTypes, Send!TypeOK

\* The ring's assertions hold, no packet waits without the handler being about
\* to run, and the lengths the host will read add up to what is queued.
THEOREM SendCorrect ==
    ASSUME Send!SendAssumption, SendPlain
    PROVE  Send!Spec => [](/\ Send!TypeOK /\ Send!RingAsserts
                           /\ Send!NothingForgotten /\ Send!CounterExact)
<1>1. SendInv => /\ Send!TypeOK /\ Send!RingAsserts
                 /\ Send!NothingForgotten /\ Send!CounterExact
  BY SendTyped, SendAsserts, SendCounter
<1> QED
  BY <1>1, SendInvariance, PTL
===============================================================================
