--------------------------- MODULE InterruptProofs ---------------------------
(***************************************************************************)
(* Proofs about the four components that interrupts go through: IntrAlloc, *)
(* RtcIsr, IpcIsr and CrosscoreInt, for any value of their constants.      *)
(*                                                                         *)
(* Each is an instance of its own, and each theorem is about one of them:  *)
(* the names of a part of this module begin with that of its instance.     *)
(* Where two of them call a constant or a variable the same it is declared *)
(* once, unless both are variables.                                        *)
(***************************************************************************)
EXTENDS Integers, Sequences, FiniteSets, TLAPS

CONSTANTS Cores, Vectors, Sources, Handles, Liberties, None, Handlers, Bits,
          Mask, Functions, MaxNest, Senders, Reasons, NoCore

VARIABLES desc, handle, table, route, mask, enabled, saved, asleep, freeing,
          isr, list, iram, cache, ena, raw, rtcSaved, rtcAsleep, it, status,
          due, mux, startFl, endFl, func, finish, running, count, raised,
          handler, call, open, todo, reason, poked, sender, crossIsr, asked

Intr == INSTANCE IntrAlloc
Rtc == INSTANCE RtcIsr WITH saved <- rtcSaved, asleep <- rtcAsleep
Ipc == INSTANCE IpcIsr
Cross == INSTANCE CrosscoreInt WITH isr <- crossIsr

-----------------------------------------------------------------------------
\* A task that frees a handler does not change core while it does: under
\* "migrate" it may, and then the handler it removed from the table is another.
IntrPinned == "migrate" \notin Liberties

\* A descriptor no handler was allocated on names source 0.
IntrZeroTold == 0 \notin Sources \/ Liberties \cap {"noMemory", "reserve"} = {}

\* A vector without users has no handler and no list.  It is of no source or,
\* once malloc has failed there or it was reserved, of source 0.
IntrVacant(c, v) ==
    /\ table[c][v] = None
    /\ desc[c][v].list = {}
    /\ desc[c][v].flags \cap {"shared", "nonshared"} = {}
    /\ desc[c][v].source \in {0, Intr!Unused}
    /\ desc[c][v].known /\ desc[c][v].source = 0 =>
          Liberties \cap {"noMemory", "reserve"} # {}

\* A handler that does not share: it is the table's, and it the only user.
IntrAlone(c, v, h) ==
    /\ Intr!Users(c, v) = {h}
    /\ ~handle[h].shared
    /\ table[c][v] = h
    /\ desc[c][v].list = {}
    /\ desc[c][v].flags \cap {"shared", "nonshared"} = {"nonshared"}
    /\ desc[c][v].source = handle[h].source

\* The handlers that share are those of the list, and the table has the routine
\* that walks it.
IntrJoined(c, v) ==
    /\ Intr!Users(c, v) = desc[c][v].list
    /\ \A h \in Intr!Users(c, v) : handle[h].shared
    /\ table[c][v] = "shared"
    /\ desc[c][v].flags \cap {"shared", "nonshared"} = {"shared"}

\* What a vector's descriptor, its entry in the table and its bit in the mask
\* tell of its users.
IntrTold(c, v) ==
    /\ Intr!Users(c, v) = {} => IntrVacant(c, v)
    /\ Intr!Users(c, v) # {} =>
          /\ desc[c][v].known
          /\ IntrJoined(c, v) \/ \E h \in Intr!Users(c, v) : IntrAlone(c, v, h)
    /\ \A h \in Intr!Users(c, v) :
          /\ "iram" \in desc[c][v].flags <=> handle[h].iram
          /\ v \in mask[c] <=> ~handle[h].iram

\* A vector with users is enabled, unless the cache is off and they are in
\* flash; then it is among those to enable again.
IntrPowered(c, v) ==
    Intr!Users(c, v) # {} =>
        /\ asleep[c] => (v \in enabled[c] <=> v \notin mask[c])
        /\ asleep[c] /\ v \in mask[c] => v \in saved[c]
        /\ ~asleep[c] => v \in enabled[c]

\* The handlers a core has for one source are on one vector.
IntrOneVector ==
    \A g, h \in Intr!Live :
        handle[g].cpu = handle[h].cpu /\ handle[g].source = handle[h].source =>
            handle[g].intno = handle[h].intno

\* The invariant.  Routing and NoFreedHandler are part of it; HandlersMatch and
\* CacheOffSafe follow from what the descriptors tell.
IntrInv ==
    /\ Intr!TypeOK
    /\ freeing \subseteq Intr!Live
    /\ \A c \in Cores, v \in Vectors : IntrTold(c, v) /\ IntrPowered(c, v)
    /\ IntrOneVector
    /\ Intr!Routing
    /\ Intr!NoFreedHandler

\* A handle that is allocated is told from one that is not.
LEMMA IntrNotVacant == \A r \in Intr!Handle : r # Intr!NoHandle
BY DEF Intr!Handle, Intr!NoHandle

\* What the handles that are allocated are, and whose users.
LEMMA IntrLiveHandle ==
    ASSUME Intr!TypeOK
    PROVE  \A h \in Intr!Live : h \in Handles /\ handle[h] \in Intr!Handle
BY DEF Intr!TypeOK, Intr!Live

LEMMA IntrUserIs ==
    ASSUME Intr!TypeOK, NEW h \in Intr!Live
    PROVE  h \in Intr!Users(handle[h].cpu, handle[h].intno)
BY DEF Intr!Users

\* What is left alone stays told.
LEMMA IntrToldSame ==
    ASSUME NEW c, NEW v, IntrTold(c, v),
           desc'[c][v] = desc[c][v],
           table'[c][v] = table[c][v],
           Intr!Users(c, v)' = Intr!Users(c, v),
           \A h \in Intr!Users(c, v) : /\ handle'[h].shared = handle[h].shared
                                       /\ handle'[h].source = handle[h].source
                                       /\ handle'[h].iram = handle[h].iram,
           v \in mask'[c] <=> v \in mask[c]
    PROVE  IntrTold(c, v)'
<1>1. Intr!Users(c, v) = {} => IntrVacant(c, v)'
  BY DEF IntrTold, IntrVacant
<1>2. IntrJoined(c, v) => IntrJoined(c, v)'
  BY DEF IntrJoined
<1>3. ASSUME NEW h \in Intr!Users(c, v), IntrAlone(c, v, h)
      PROVE  IntrAlone(c, v, h)'
  BY <1>3 DEF IntrAlone
<1>4. \A h \in Intr!Users(c, v) :
          /\ "iram" \in desc'[c][v].flags <=> handle'[h].iram
          /\ v \in mask'[c] <=> ~handle'[h].iram
  BY DEF IntrTold
<1>5. Intr!Users(c, v) # {} =>
          /\ desc'[c][v].known
          /\ IntrJoined(c, v)' \/ \E h \in Intr!Users(c, v) : IntrAlone(c, v, h)'
  BY <1>2, <1>3 DEF IntrTold
<1> QED
  BY <1>1, <1>4, <1>5 DEF IntrTold

LEMMA IntrPoweredSame ==
    ASSUME NEW c, NEW v, IntrPowered(c, v),
           Intr!Users(c, v)' = {} <=> Intr!Users(c, v) = {},
           UNCHANGED <<asleep, saved, enabled>>,
           v \in mask'[c] <=> v \in mask[c]
    PROVE  IntrPowered(c, v)'
BY DEF IntrPowered

\* The descriptors tell who has a source.
LEMMA IntrSourceTold ==
    ASSUME Intr!IntrAssumption, IntrZeroTold, Intr!TypeOK,
           NEW c \in Cores, NEW v \in Vectors, NEW s \in Sources, IntrTold(c, v)
    PROVE  Intr!HasSource(c, v, s) <=> \E h \in Intr!Users(c, v) : handle[h].source = s
<1>0. s # Intr!Unused /\ s \in Nat
  BY DEF Intr!IntrAssumption, Intr!Unused
<1>1. CASE Intr!Users(c, v) = {}
  <2>1. IntrVacant(c, v)
    BY <1>1 DEF IntrTold
  <2>2. ~Intr!HasSource(c, v, s)
    BY <2>1, <1>0 DEF IntrVacant, Intr!HasSource, IntrZeroTold
  <2> QED
    BY <2>2, <1>1
<1>2. CASE Intr!Users(c, v) # {} /\ IntrJoined(c, v)
  BY <1>2 DEF IntrTold, IntrJoined, Intr!HasSource
<1>3. ASSUME NEW h \in Intr!Users(c, v), IntrAlone(c, v, h)
      PROVE  Intr!HasSource(c, v, s) <=> \E g \in Intr!Users(c, v) : handle[g].source = s
  BY <1>3 DEF IntrTold, IntrAlone, Intr!HasSource
<1> QED
  BY <1>1, <1>2, <1>3 DEF IntrTold

\* What a usable vector is.
LEMMA IntrUsableIs ==
    ASSUME Intr!IntrAssumption, Intr!TypeOK,
           NEW c \in Cores, NEW v \in Vectors,
           NEW shared \in BOOLEAN, NEW ram \in BOOLEAN,
           IntrTold(c, v), Intr!Usable(c, v, shared, ram)
    PROVE  /\ "nonshared" \notin desc[c][v].flags
           /\ \/ Intr!Users(c, v) = {} /\ IntrVacant(c, v)
              \/ /\ Intr!Users(c, v) # {} /\ IntrJoined(c, v) /\ shared
                 /\ \A h \in Intr!Users(c, v) : handle[h].iram <=> ram
<1>1. ASSUME NEW h \in Intr!Users(c, v), IntrAlone(c, v, h)
      PROVE  FALSE
  BY <1>1 DEF IntrAlone, Intr!Usable
<1>2. CASE IntrJoined(c, v) /\ Intr!Users(c, v) # {}
  <2>1. "shared" \in desc[c][v].flags
    BY <1>2 DEF IntrJoined
  <2>2. shared /\ ("iram" \in desc[c][v].flags <=> ram)
    BY <2>1 DEF Intr!Usable
  <2> QED
    BY <1>2, <2>2 DEF IntrTold, Intr!Usable
<1> QED
  BY <1>1, <1>2 DEF IntrTold, Intr!Usable

\* The vector chosen for a source is the one its users have.
LEMMA IntrChosenIs ==
    ASSUME Intr!IntrAssumption, IntrZeroTold, IntrInv,
           NEW c \in Cores, NEW v \in Vectors, NEW s \in Sources,
           NEW shared \in BOOLEAN, NEW ram \in BOOLEAN,
           Intr!Available(c, v, s, shared, ram)
    PROVE  /\ Intr!Usable(c, v, shared, ram)
           /\ \A h \in Intr!Live : handle[h].cpu = c /\ handle[h].source = s =>
                                 handle[h].intno = v
<1>0. \A w \in Vectors :
         Intr!HasSource(c, w, s) <=> \E h \in Intr!Users(c, w) : handle[h].source = s
  BY IntrSourceTold DEF IntrInv
<1>1. CASE \E w \in Vectors : Intr!HasSource(c, w, s)
  <2>1. Intr!IsFound(c, v, s) /\ Intr!Usable(c, v, shared, ram)
    BY <1>1 DEF Intr!Available
  <2>2. PICK g \in Intr!Users(c, v) : handle[g].source = s
    BY <2>1, <1>0 DEF Intr!IsFound
  <2>3. g \in Intr!Live /\ handle[g].cpu = c /\ handle[g].intno = v
    BY <2>2 DEF Intr!Users
  <2> QED
    BY <2>1, <2>2, <2>3 DEF IntrInv, IntrOneVector
<1>2. CASE ~\E w \in Vectors : Intr!HasSource(c, w, s)
  <2>1. Intr!IsBest(c, v, shared, ram)
    BY <1>2 DEF Intr!Available
  <2>2. Intr!Usable(c, v, shared, ram)
    BY <2>1 DEF Intr!IsBest
  <2>3. ASSUME NEW h \in Intr!Live, handle[h].cpu = c, handle[h].source = s
        PROVE  FALSE
    <3>1. handle[h].intno \in Vectors /\ h \in Intr!Users(c, handle[h].intno)
      BY <2>3, IntrLiveHandle DEF IntrInv, Intr!Handle, Intr!Users
    <3> QED
      BY <3>1, <2>3, <1>0, <1>2
  <2> QED
    BY <2>2, <2>3
<1> QED
  BY <1>1, <1>2

LEMMA IntrInitInv ==
    ASSUME Intr!IntrAssumption, Intr!Init
    PROVE  IntrInv
<1>1. Intr!Live = {} /\ \A c, v : Intr!Users(c, v) = {}
  BY DEF Intr!Init, Intr!Live, Intr!Users
<1>2. Intr!TypeOK
  BY DEF Intr!Init, Intr!TypeOK, Intr!Desc, Intr!NoDesc, Intr!Flags, Intr!NoIsr
<1>3. \A c \in Cores, v \in Vectors : IntrTold(c, v) /\ IntrPowered(c, v)
  <2> TAKE c \in Cores, v \in Vectors
  <2>1. IntrVacant(c, v)
    BY DEF Intr!Init, IntrVacant, Intr!NoDesc
  <2> QED
    BY <2>1, <1>1 DEF IntrTold, IntrPowered
<1>4. IntrOneVector /\ freeing \subseteq Intr!Live
  BY <1>1 DEF IntrOneVector, Intr!Init
<1>5. Intr!Routing
  BY <1>1 DEF Intr!Routing, Intr!Init
<1>6. Intr!NoFreedHandler
  BY DEF Intr!NoFreedHandler, Intr!Init
<1> QED
  BY <1>2, <1>3, <1>4, <1>5, <1>6 DEF IntrInv

\* Descriptors with one field changed.
LEMMA IntrDescKnown ==
    \A b : \A d \in Intr!Desc :
        [d EXCEPT !.known = b]
           = [known |-> b, flags |-> d.flags, source |-> d.source,
              list |-> d.list]
BY DEF Intr!Desc

LEMMA IntrDescFlags ==
    \A d \in Intr!Desc, f \in SUBSET Intr!Flags :
        [d EXCEPT !.flags = f]
           = [known |-> d.known, flags |-> f, source |-> d.source,
              list |-> d.list]
BY DEF Intr!Desc

\* A descriptor replaced by a descriptor.
LEMMA IntrDescTyped ==
    ASSUME Intr!TypeOK, NEW c \in Cores, NEW v \in Vectors, NEW e \in Intr!Desc
    PROVE  [desc EXCEPT ![c] = [desc[c] EXCEPT ![v] = e]]
              \in [Cores -> [Vectors -> Intr!Desc]]
<1>1. [desc[c] EXCEPT ![v] = e] \in [Vectors -> Intr!Desc]
  BY DEF Intr!TypeOK
<1> QED
  BY <1>1 DEF Intr!TypeOK

\* Each action preserves the invariant: those that change one descriptor, ...
LEMMA IntrReserveInv ==
    ASSUME Intr!IntrAssumption, IntrInv, NEW c \in Cores, NEW v \in Vectors,
           Intr!Reserve(c, v)
    PROVE  IntrInv'
<1>1. /\ Intr!Live' = Intr!Live
      /\ \A d, w : Intr!Users(d, w)' = Intr!Users(d, w)
  BY DEF Intr!Reserve, Intr!Live, Intr!Users
<1>2. Intr!TypeOK'
  <2> DEFINE e == [known |-> TRUE, flags |-> {"reserved"},
                   source |-> desc[c][v].source, list |-> desc[c][v].list]
  <2>0. desc[c][v] \in Intr!Desc /\ e \in Intr!Desc
    BY DEF IntrInv, Intr!TypeOK, Intr!Desc, Intr!Flags
  <2>3. desc' = [desc EXCEPT
           ![c] = [desc[c] EXCEPT
             ![v] = [[desc[c][v] EXCEPT !.known = TRUE]
                       EXCEPT !.flags = {"reserved"}]]]
    BY DEF IntrInv, Intr!TypeOK, Intr!Reserve
  <2> DEFINE k == [known |-> TRUE, flags |-> desc[c][v].flags,
                   source |-> desc[c][v].source, list |-> desc[c][v].list]
  <2>5. [desc[c][v] EXCEPT !.known = TRUE] = k /\ k \in Intr!Desc
    BY <2>0, IntrDescKnown DEF Intr!Desc
  <2>6. {"reserved"} \in SUBSET Intr!Flags
    BY DEF Intr!Flags
  <2>7. [k EXCEPT !.flags = {"reserved"}] = e
    BY <2>5, <2>6, IntrDescFlags
  <2>4. [[desc[c][v] EXCEPT !.known = TRUE] EXCEPT !.flags = {"reserved"}] = e
    BY <2>5, <2>7, Zenon
  <2>2. desc' = [desc EXCEPT ![c] = [desc[c] EXCEPT ![v] = e]]
    BY <2>3, <2>4
  <2>1. desc' \in [Cores -> [Vectors -> Intr!Desc]]
    BY <2>0, <2>2, IntrDescTyped DEF IntrInv
  <2> QED
    BY <2>1 DEF IntrInv, Intr!TypeOK, Intr!Reserve
<1>3. Intr!Users(c, v) = {} /\ IntrVacant(c, v)
  <2>1. ~IntrJoined(c, v) /\ \A h \in Intr!Users(c, v) : ~IntrAlone(c, v, h)
    BY DEF IntrJoined, IntrAlone, Intr!Reserve
  <2> QED
    BY <2>1 DEF IntrInv, IntrTold
<1>4. desc[c][v] \in Intr!Desc
  BY DEF IntrInv, Intr!TypeOK
<1>5. /\ desc'[c][v].known /\ desc'[c][v].flags = {"reserved"}
      /\ desc'[c][v].source = desc[c][v].source
      /\ desc'[c][v].list = desc[c][v].list
  BY <1>4 DEF IntrInv, Intr!TypeOK, Intr!Reserve, Intr!Desc
<1>6. IntrVacant(c, v)'
  BY <1>3, <1>5 DEF Intr!Reserve, IntrVacant
<1>7. ASSUME NEW d \in Cores, NEW w \in Vectors
      PROVE  IntrTold(d, w)'
  <2>1. CASE d = c /\ w = v
    BY <2>1, <1>1, <1>3, <1>6 DEF IntrTold
  <2>2. CASE ~(d = c /\ w = v)
    <3>1. desc'[d][w] = desc[d][w]
      BY <2>2 DEF IntrInv, Intr!TypeOK, Intr!Reserve
    <3>2. IntrTold(d, w) /\ UNCHANGED <<handle, table, mask>>
      BY DEF IntrInv, Intr!Reserve
    <3> QED
      BY <3>1, <3>2, <1>1, IntrToldSame
  <2> QED
    BY <2>1, <2>2
<1>8. \A d \in Cores, w \in Vectors : IntrPowered(d, w)'
  BY <1>1 DEF IntrInv, IntrPowered, Intr!Reserve
<1>9. IntrOneVector' /\ Intr!Routing' /\ Intr!NoFreedHandler' /\ (freeing \subseteq Intr!Live)'
  BY <1>1
     DEF IntrInv, IntrOneVector, Intr!Routing, Intr!NoFreedHandler,
         Intr!Reserve
<1> QED
  BY <1>2, <1>7, <1>8, <1>9 DEF IntrInv

LEMMA IntrAllocNoMemoryInv ==
    ASSUME Intr!IntrAssumption, IntrInv, NEW c \in Cores, Intr!AllocNoMemory(c)
    PROVE  IntrInv'
<1>0. PICK v \in Vectors :
         /\ ~desc[c][v].known
         /\ desc' = [desc EXCEPT ![c][v].known = TRUE]
  BY DEF Intr!AllocNoMemory
<1>1. /\ Intr!Live' = Intr!Live
      /\ \A d, w : Intr!Users(d, w)' = Intr!Users(d, w)
  BY DEF Intr!AllocNoMemory, Intr!Live, Intr!Users
<1>2. Intr!TypeOK'
  <2> DEFINE e == [known |-> TRUE, flags |-> desc[c][v].flags,
                   source |-> desc[c][v].source, list |-> desc[c][v].list]
  <2>0. desc[c][v] \in Intr!Desc /\ e \in Intr!Desc
    BY DEF IntrInv, Intr!TypeOK, Intr!Desc
  <2>3. [desc[c][v] EXCEPT !.known = TRUE] = e
    BY <2>0, IntrDescKnown
  <2>2. desc' = [desc EXCEPT ![c] = [desc[c] EXCEPT ![v] = e]]
    BY <1>0, <2>3
  <2>1. desc' \in [Cores -> [Vectors -> Intr!Desc]]
    BY <2>0, <2>2, IntrDescTyped DEF IntrInv
  <2> QED
    BY <2>1 DEF IntrInv, Intr!TypeOK, Intr!AllocNoMemory
<1>3. Intr!Users(c, v) = {} /\ IntrVacant(c, v)
  BY <1>0 DEF IntrInv, IntrTold
<1>4. desc[c][v] \in Intr!Desc
  BY DEF IntrInv, Intr!TypeOK
<1>5. /\ desc'[c][v].flags = desc[c][v].flags
      /\ desc'[c][v].source = desc[c][v].source
      /\ desc'[c][v].list = desc[c][v].list
  BY <1>0, <1>4 DEF IntrInv, Intr!TypeOK, Intr!Desc
<1>6. IntrVacant(c, v)'
  BY <1>3, <1>5 DEF Intr!AllocNoMemory, IntrVacant
<1>7. ASSUME NEW d \in Cores, NEW w \in Vectors
      PROVE  IntrTold(d, w)'
  <2>1. CASE d = c /\ w = v
    BY <2>1, <1>1, <1>3, <1>6 DEF IntrTold
  <2>2. CASE ~(d = c /\ w = v)
    <3>1. desc'[d][w] = desc[d][w]
      BY <2>2, <1>0 DEF IntrInv, Intr!TypeOK
    <3>2. IntrTold(d, w) /\ UNCHANGED <<handle, table, mask>>
      BY DEF IntrInv, Intr!AllocNoMemory
    <3> QED
      BY <3>1, <3>2, <1>1, IntrToldSame
  <2> QED
    BY <2>1, <2>2
<1>8. \A d \in Cores, w \in Vectors : IntrPowered(d, w)'
  BY <1>1 DEF IntrInv, IntrPowered, Intr!AllocNoMemory
<1>9. IntrOneVector' /\ Intr!Routing' /\ Intr!NoFreedHandler' /\ (freeing \subseteq Intr!Live)'
  BY <1>1
     DEF IntrInv, IntrOneVector, Intr!Routing, Intr!NoFreedHandler,
         Intr!AllocNoMemory
<1> QED
  BY <1>2, <1>7, <1>8, <1>9 DEF IntrInv

\* ... those that change none, ...
LEMMA IntrFreeStartInv ==
    ASSUME Intr!IntrAssumption, IntrInv, NEW h \in Handles, Intr!FreeStart(h)
    PROVE  IntrInv'
<1>1. /\ Intr!Live' = Intr!Live
      /\ \A d, w : Intr!Users(d, w)' = Intr!Users(d, w)
  BY DEF Intr!FreeStart, Intr!Live, Intr!Users
<1>2. Intr!TypeOK' /\ (freeing \subseteq Intr!Live)'
  BY <1>1 DEF IntrInv, Intr!TypeOK, Intr!FreeStart
<1>3. \A d \in Cores, w \in Vectors : IntrTold(d, w)' /\ IntrPowered(d, w)'
  BY <1>1, IntrToldSame, IntrPoweredSame DEF IntrInv, Intr!FreeStart
<1>4. IntrOneVector' /\ Intr!Routing' /\ Intr!NoFreedHandler'
  BY <1>1
     DEF IntrInv, IntrOneVector, Intr!Routing, Intr!NoFreedHandler,
         Intr!FreeStart
<1> QED
  BY <1>2, <1>3, <1>4 DEF IntrInv

LEMMA IntrNonIramDisableInv ==
    ASSUME Intr!IntrAssumption, IntrInv, NEW c \in Cores, Intr!NonIramDisable(c)
    PROVE  IntrInv'
<1>1. /\ Intr!Live' = Intr!Live
      /\ \A d, w : Intr!Users(d, w)' = Intr!Users(d, w)
  BY DEF Intr!NonIramDisable, Intr!Live, Intr!Users
<1>2. Intr!TypeOK' /\ (freeing \subseteq Intr!Live)'
  BY <1>1 DEF IntrInv, Intr!TypeOK, Intr!NonIramDisable
<1>3. \A d \in Cores, w \in Vectors : IntrTold(d, w)'
  BY <1>1, IntrToldSame DEF IntrInv, Intr!NonIramDisable
<1>4. ASSUME NEW d \in Cores, NEW w \in Vectors PROVE IntrPowered(d, w)'
  <2>0. IntrPowered(d, w)
    BY DEF IntrInv
  <2>1. CASE d = c
    BY <2>1, <2>0, <1>1
       DEF IntrInv, Intr!TypeOK, IntrPowered, Intr!NonIramDisable, Intr!Awake
  <2>2. CASE d # c
    BY <2>2, <2>0, <1>1
       DEF IntrInv, Intr!TypeOK, IntrPowered, Intr!NonIramDisable
  <2> QED
    BY <2>1, <2>2
<1>5. IntrOneVector' /\ Intr!Routing' /\ Intr!NoFreedHandler'
  BY <1>1
     DEF IntrInv, IntrOneVector, Intr!Routing, Intr!NoFreedHandler,
         Intr!NonIramDisable
<1> QED
  BY <1>2, <1>3, <1>4, <1>5 DEF IntrInv

LEMMA IntrNonIramEnableInv ==
    ASSUME Intr!IntrAssumption, IntrInv, NEW c \in Cores, Intr!NonIramEnable(c)
    PROVE  IntrInv'
<1>1. /\ Intr!Live' = Intr!Live
      /\ \A d, w : Intr!Users(d, w)' = Intr!Users(d, w)
  BY DEF Intr!NonIramEnable, Intr!Live, Intr!Users
<1>2. Intr!TypeOK' /\ (freeing \subseteq Intr!Live)'
  BY <1>1 DEF IntrInv, Intr!TypeOK, Intr!NonIramEnable
<1>3. \A d \in Cores, w \in Vectors : IntrTold(d, w)'
  BY <1>1, IntrToldSame DEF IntrInv, Intr!NonIramEnable
<1>4. ASSUME NEW d \in Cores, NEW w \in Vectors PROVE IntrPowered(d, w)'
  <2>0. IntrPowered(d, w)
    BY DEF IntrInv
  <2>1. CASE d = c
    BY <2>1, <2>0, <1>1
       DEF IntrInv, Intr!TypeOK, IntrPowered, Intr!NonIramEnable
  <2>2. CASE d # c
    BY <2>2, <2>0, <1>1
       DEF IntrInv, Intr!TypeOK, IntrPowered, Intr!NonIramEnable
  <2> QED
    BY <2>1, <2>2
<1>5. IntrOneVector' /\ Intr!Routing' /\ Intr!NoFreedHandler'
  BY <1>1
     DEF IntrInv, IntrOneVector, Intr!Routing, Intr!NoFreedHandler,
         Intr!NonIramEnable
<1> QED
  BY <1>2, <1>3, <1>4, <1>5 DEF IntrInv

LEMMA IntrIsrEnterInv ==
    ASSUME Intr!IntrAssumption, IntrInv, NEW c \in Cores, Intr!IsrEnter(c)
    PROVE  IntrInv'
<1>0. PICK s \in Sources, h \in Handles :
         /\ route[c][s] \in enabled[c]
         /\ table[c][route[c][s]] = "shared"
         /\ h \in desc[c][route[c][s]].list
         /\ isr' = [isr EXCEPT ![c] = [intno |-> route[c][s], head |-> h]]
  BY DEF Intr!IsrEnter
<1> PICK v : v = route[c][s]
  OBVIOUS
<1>1. /\ Intr!Live' = Intr!Live
      /\ \A d, w : Intr!Users(d, w)' = Intr!Users(d, w)
  BY DEF Intr!IsrEnter, Intr!Live, Intr!Users
<1>2. v \in Vectors
  BY <1>0 DEF IntrInv, Intr!TypeOK
<1>3. IntrJoined(c, v)
  <2>1. IntrTold(c, v) /\ table[c][v] = "shared"
    BY <1>0, <1>2 DEF IntrInv
  <2>2. ~IntrVacant(c, v) /\ ~\E g \in Intr!Users(c, v) : IntrAlone(c, v, g)
    BY <2>1
       DEF Intr!IntrAssumption, IntrVacant, IntrAlone, Intr!Users, Intr!Live
  <2> QED
    BY <2>1, <2>2 DEF IntrTold
<1>4. h \in Intr!Users(c, v)
  BY <1>0, <1>3 DEF IntrJoined
<1>5. Intr!TypeOK' /\ (freeing \subseteq Intr!Live)'
  BY <1>0, <1>1, <1>2 DEF IntrInv, Intr!TypeOK, Intr!IsrEnter
<1>6. Intr!NoFreedHandler'
  <2> SUFFICES ASSUME NEW d \in Cores, isr'[d] # Intr!NoIsr
               PROVE  isr'[d].head \in Intr!Users(d, isr'[d].intno)
    BY <1>1 DEF Intr!NoFreedHandler
  <2>1. CASE d = c
    BY <2>1, <1>0, <1>4 DEF IntrInv, Intr!TypeOK
  <2>2. CASE d # c
    BY <2>2, <1>0 DEF IntrInv, Intr!TypeOK, Intr!NoFreedHandler
  <2> QED
    BY <2>1, <2>2
<1>7. \A d \in Cores, w \in Vectors : IntrTold(d, w)' /\ IntrPowered(d, w)'
  BY <1>1, IntrToldSame, IntrPoweredSame DEF IntrInv, Intr!IsrEnter
<1>8. IntrOneVector' /\ Intr!Routing'
  BY <1>1 DEF IntrInv, IntrOneVector, Intr!Routing, Intr!IsrEnter
<1> QED
  BY <1>5, <1>6, <1>7, <1>8 DEF IntrInv

LEMMA IntrIsrWalkInv ==
    ASSUME Intr!IntrAssumption, IntrInv, NEW c \in Cores, Intr!IsrWalk(c)
    PROVE  IntrInv'
<1>1. /\ Intr!Live' = Intr!Live
      /\ \A d, w : Intr!Users(d, w)' = Intr!Users(d, w)
  BY DEF Intr!IsrWalk, Intr!Live, Intr!Users
<1>2. Intr!TypeOK' /\ (freeing \subseteq Intr!Live)'
  BY <1>1 DEF IntrInv, Intr!TypeOK, Intr!IsrWalk
<1>3. Intr!NoFreedHandler'
  BY <1>1 DEF IntrInv, Intr!TypeOK, Intr!NoFreedHandler, Intr!IsrWalk
<1>4. \A d \in Cores, w \in Vectors : IntrTold(d, w)' /\ IntrPowered(d, w)'
  BY <1>1, IntrToldSame, IntrPoweredSame DEF IntrInv, Intr!IsrWalk
<1>5. IntrOneVector' /\ Intr!Routing'
  BY <1>1 DEF IntrInv, IntrOneVector, Intr!Routing, Intr!IsrWalk
<1> QED
  BY <1>2, <1>3, <1>4, <1>5 DEF IntrInv

\* Handles with one field changed.
LEMMA IntrHandleOn ==
    \A b : \A r \in Intr!Handle :
        [r EXCEPT !.on = b]
           = [cpu |-> r.cpu, intno |-> r.intno, source |-> r.source,
              shared |-> r.shared, on |-> b, iram |-> r.iram]
BY DEF Intr!Handle

LEMMA IntrHandleIram ==
    \A b : \A r \in Intr!Handle :
        [r EXCEPT !.iram = b]
           = [cpu |-> r.cpu, intno |-> r.intno, source |-> r.source,
              shared |-> r.shared, on |-> r.on, iram |-> b]
BY DEF Intr!Handle

\* A handle that is changed and stays on its vector.
LEMMA IntrHandleStays ==
    ASSUME Intr!TypeOK, NEW h \in Intr!Live, NEW r \in Intr!Handle,
           handle' = [handle EXCEPT ![h] = r],
           r.cpu = handle[h].cpu, r.intno = handle[h].intno
    PROVE  /\ handle' \in [Handles -> Intr!Handle \cup {Intr!NoHandle}]
           /\ Intr!Live' = Intr!Live
           /\ \A d, w : Intr!Users(d, w)' = Intr!Users(d, w)
           /\ handle'[h] = r
           /\ \A g \in Handles : g # h => handle'[g] = handle[g]
<1>1. h \in Handles /\ handle[h] \in Intr!Handle
  BY IntrLiveHandle
<1>2. handle' \in [Handles -> Intr!Handle \cup {Intr!NoHandle}]
  BY DEF Intr!TypeOK
<1>3. handle'[h] = r /\ \A g \in Handles : g # h => handle'[g] = handle[g]
  BY <1>1 DEF Intr!TypeOK
<1>4. Intr!Live' = Intr!Live
  BY <1>1, <1>3, IntrNotVacant DEF Intr!Live
<1>5. \A d, w : Intr!Users(d, w)' = Intr!Users(d, w)
  BY <1>3, <1>4, <1>1 DEF Intr!Users, Intr!Live
<1> QED
  BY <1>2, <1>3, <1>4, <1>5

\* ... those that change one handle and its route, ...
LEMMA IntrEnableInv ==
    ASSUME Intr!IntrAssumption, IntrInv, NEW h \in Handles, Intr!Enable(h)
    PROVE  IntrInv'
<1> PICK q : q = handle[h]
  OBVIOUS
<1> DEFINE r == [cpu |-> q.cpu, intno |-> q.intno, source |-> q.source,
                 shared |-> q.shared, on |-> TRUE, iram |-> q.iram]
<1>1. h \in Intr!Live /\ q \in Intr!Handle /\ r \in Intr!Handle
  BY IntrLiveHandle DEF Intr!Enable, IntrInv, Intr!Handle
<1>2. handle' = [handle EXCEPT ![h] = r]
  BY <1>1, IntrHandleOn DEF Intr!Enable
<1>3. /\ handle' \in [Handles -> Intr!Handle \cup {Intr!NoHandle}]
      /\ Intr!Live' = Intr!Live
      /\ \A d, w : Intr!Users(d, w)' = Intr!Users(d, w)
      /\ handle'[h] = r
      /\ \A g \in Handles : g # h => handle'[g] = handle[g]
  BY <1>1, <1>2, IntrHandleStays DEF IntrInv
<1>4. /\ q.cpu \in Cores /\ q.intno \in Vectors /\ q.source \in Sources
      /\ route' = [route EXCEPT ![q.cpu][q.source] = q.intno]
  BY <1>1 DEF Intr!Handle, Intr!Enable, Intr!RouteOn
<1>5. Intr!TypeOK' /\ (freeing \subseteq Intr!Live)'
  <2>1. route' \in [Cores -> [Sources -> Vectors \cup {Intr!Off}]]
    BY <1>4 DEF IntrInv, Intr!TypeOK
  <2> QED
    BY <1>3, <2>1 DEF IntrInv, Intr!TypeOK, Intr!Enable
<1>6. ASSUME NEW d \in Cores, NEW w \in Vectors
      PROVE  IntrTold(d, w)' /\ IntrPowered(d, w)'
  <2>1. \A g \in Intr!Users(d, w) :
           /\ handle'[g].shared = handle[g].shared
           /\ handle'[g].source = handle[g].source
           /\ handle'[g].iram = handle[g].iram
    BY <1>3 DEF Intr!Users, Intr!Live
  <2>2. IntrTold(d, w) /\ IntrPowered(d, w)
    BY DEF IntrInv
  <2>3. UNCHANGED <<desc, table, mask, enabled, saved, asleep>>
    BY DEF Intr!Enable
  <2> QED
    BY <2>1, <2>2, <2>3, <1>3, IntrToldSame, IntrPoweredSame
<1>7. \A g \in Intr!Live : /\ handle'[g].cpu = handle[g].cpu
                           /\ handle'[g].source = handle[g].source
                           /\ handle'[g].intno = handle[g].intno
                           /\ g # h => handle'[g].on = handle[g].on
  BY <1>3 DEF Intr!Live
<1>8. IntrOneVector'
  BY <1>3, <1>7 DEF IntrInv, IntrOneVector
<1>9. Intr!Routing'
  <2> SUFFICES ASSUME NEW c \in Cores, NEW s \in Sources
      PROVE /\ \A g \in Intr!Live : handle[g].cpu = c /\ handle[g].source = s =>
                  (handle'[g].on => route'[c][s] = handle[g].intno)
            /\ (\A g \in Intr!Live : handle[g].cpu = c /\ handle[g].source = s =>
                                   ~handle'[g].on) => route'[c][s] = Intr!Off
    BY <1>3, <1>7 DEF Intr!Routing
  <2>1. CASE c = q.cpu /\ s = q.source
    <3>1. route'[c][s] = q.intno
      BY <2>1, <1>4 DEF IntrInv, Intr!TypeOK
    <3>2. handle'[h].on /\ handle[h].cpu = c /\ handle[h].source = s
      BY <1>3, <2>1
    <3>3. \A g \in Intr!Live : handle[g].cpu = c /\ handle[g].source = s =>
                             handle[g].intno = q.intno
      BY <3>2, <1>1 DEF IntrInv, IntrOneVector
    <3> QED
      BY <3>1, <3>2, <3>3, <1>1
  <2>2. CASE ~(c = q.cpu /\ s = q.source)
    <3>1. route'[c][s] = route[c][s]
      BY <2>2, <1>4 DEF IntrInv, Intr!TypeOK
    <3>2. \A g \in Intr!Live : handle[g].cpu = c /\ handle[g].source = s =>
                             g # h /\ handle'[g].on = handle[g].on
      BY <2>2, <1>7
    <3>3. /\ \A g \in Intr!Live : handle[g].cpu = c /\ handle[g].source = s =>
                (handle[g].on => route[c][s] = handle[g].intno)
          /\ (\A g \in Intr!Live : handle[g].cpu = c /\ handle[g].source = s =>
                                 ~handle[g].on) => route[c][s] = Intr!Off
      BY DEF IntrInv, Intr!Routing
    <3> QED
      BY <3>1, <3>2, <3>3
  <2> QED
    BY <2>1, <2>2
<1>10. Intr!NoFreedHandler'
  BY <1>3 DEF IntrInv, Intr!NoFreedHandler, Intr!Enable
<1> QED
  BY <1>5, <1>6, <1>8, <1>9, <1>10 DEF IntrInv

\* The users of a source share its vector: with nobody else of them on, none
\* is.
LEMMA IntrRouteOffIs ==
    ASSUME Intr!IntrAssumption, IntrInv, NEW h \in Intr!Live,
           NEW r \in Intr!Handle,
           r = handle[h], NEW g \in Intr!Live, g # h,
           handle[g].cpu = r.cpu, handle[g].source = r.source
    PROVE  /\ r.shared
           /\ g \in desc[r.cpu][r.intno].list \ {h}
<1>1. handle[g].intno = r.intno
  BY DEF IntrInv, IntrOneVector
<1>2. g \in Intr!Users(r.cpu, r.intno) /\ h \in Intr!Users(r.cpu, r.intno)
  BY <1>1 DEF Intr!Users
<1>3. r.cpu \in Cores /\ r.intno \in Vectors
  BY DEF Intr!Handle
<1>4. IntrTold(r.cpu, r.intno)
  BY <1>3 DEF IntrInv
<1>5. IntrJoined(r.cpu, r.intno)
  BY <1>2, <1>4 DEF IntrTold, IntrAlone
<1> QED
  BY <1>2, <1>5 DEF IntrJoined

\* The list of a vector holds users of it only.
LEMMA IntrListIs ==
    ASSUME IntrInv, NEW c \in Cores, NEW v \in Vectors
    PROVE  desc[c][v].list \subseteq Intr!Users(c, v)
<1>1. IntrTold(c, v)
  BY DEF IntrInv
<1>2. CASE Intr!Users(c, v) = {}
  BY <1>1, <1>2 DEF IntrTold, IntrVacant
<1>3. CASE IntrJoined(c, v)
  BY <1>3 DEF IntrJoined
<1>4. ASSUME NEW h \in Intr!Users(c, v), IntrAlone(c, v, h)
      PROVE  desc[c][v].list \subseteq Intr!Users(c, v)
  BY <1>4 DEF IntrAlone
<1> QED
  BY <1>1, <1>2, <1>3, <1>4 DEF IntrTold

\* What esp_intr_disable leaves in the matrix.
LEMMA IntrRouteOffRight ==
    ASSUME Intr!IntrAssumption, IntrInv, NEW h \in Intr!Live,
           NEW r \in Intr!Handle,
           r = handle[h],
           route' = Intr!RouteOff(h, r, desc[r.cpu][r.intno].list)
    PROVE  /\ route' \in [Cores -> [Sources -> Vectors \cup {Intr!Off}]]
           /\ \A c \in Cores, s \in Sources :
                ~(c = r.cpu /\ s = r.source) => route'[c][s] = route[c][s]
           /\ \A g \in Intr!Live :
                 (/\ g # h
                  /\ handle[g].cpu = r.cpu
                  /\ handle[g].source = r.source
                  /\ handle[g].on) => route'[r.cpu][r.source] = r.intno
           /\ (\A g \in Intr!Live :
                 (/\ g # h
                  /\ handle[g].cpu = r.cpu
                  /\ handle[g].source = r.source) => ~handle[g].on)
                 => route'[r.cpu][r.source] = Intr!Off
<1>0. r.cpu \in Cores /\ r.intno \in Vectors /\ r.source \in Sources
  BY DEF Intr!Handle
<1> PICK hs : hs = desc[r.cpu][r.intno].list
  OBVIOUS
<1>1. CASE r.shared /\ Intr!OthersOn(h, r, hs)
  <2>1. route' = route
    BY <1>1 DEF Intr!RouteOff
  <2>2. PICK g \in hs \ {h} : handle[g].on /\ handle[g].source = r.source
    BY <1>1 DEF Intr!OthersOn
  <2>3. g \in Intr!Live /\ handle[g].cpu = r.cpu /\ handle[g].intno = r.intno
    BY <2>2, <1>0, IntrListIs DEF Intr!Users
  <2>4. route[r.cpu][r.source] = r.intno
    BY <2>2, <2>3, <1>0 DEF IntrInv, Intr!Routing
  <2> QED
    BY <2>1, <2>2, <2>3, <2>4 DEF IntrInv, Intr!TypeOK
<1>2. CASE ~(r.shared /\ Intr!OthersOn(h, r, hs))
  <2>1. route' = [route EXCEPT ![r.cpu][r.source] = Intr!Off]
    BY <1>2 DEF Intr!RouteOff
  <2>2. /\ route' \in [Cores -> [Sources -> Vectors \cup {Intr!Off}]]
        /\ route'[r.cpu][r.source] = Intr!Off
        /\ \A c \in Cores, s \in Sources :
              ~(c = r.cpu /\ s = r.source) => route'[c][s] = route[c][s]
    BY <2>1, <1>0 DEF IntrInv, Intr!TypeOK
  <2>3. \A g \in Intr!Live :
           (/\ g # h
            /\ handle[g].cpu = r.cpu
            /\ handle[g].source = r.source) => ~handle[g].on
    BY <1>2, IntrRouteOffIs DEF Intr!OthersOn
  <2> QED
    BY <2>2, <2>3
<1> QED
  BY <1>1, <1>2

\* What esp_intr_disable changes but for the matrix.
LEMMA IntrDisableInv ==
    ASSUME Intr!IntrAssumption, IntrInv, NEW h \in Handles, Intr!Disable(h)
    PROVE  IntrInv'
<1> PICK q : q = handle[h]
  OBVIOUS
<1> DEFINE r == [cpu |-> q.cpu, intno |-> q.intno, source |-> q.source,
                 shared |-> q.shared, on |-> FALSE, iram |-> q.iram]
<1>1. h \in Intr!Live /\ q \in Intr!Handle /\ r \in Intr!Handle
  BY IntrLiveHandle DEF Intr!Disable, IntrInv, Intr!Handle
<1>2. handle' = [handle EXCEPT ![h] = r]
  BY <1>1, IntrHandleOn DEF Intr!Disable
<1>3. /\ handle' \in [Handles -> Intr!Handle \cup {Intr!NoHandle}]
      /\ Intr!Live' = Intr!Live
      /\ \A d, w : Intr!Users(d, w)' = Intr!Users(d, w)
      /\ handle'[h] = r
      /\ \A g \in Handles : g # h => handle'[g] = handle[g]
  BY <1>1, <1>2, IntrHandleStays DEF IntrInv
<1>4. /\ route' \in [Cores -> [Sources -> Vectors \cup {Intr!Off}]]
      /\ \A c \in Cores, s \in Sources :
            ~(c = q.cpu /\ s = q.source) => route'[c][s] = route[c][s]
      /\ \A g \in Intr!Live :
            (/\ g # h
             /\ handle[g].cpu = q.cpu
             /\ handle[g].source = q.source
             /\ handle[g].on) => route'[q.cpu][q.source] = q.intno
      /\ (\A g \in Intr!Live :
            (/\ g # h
             /\ handle[g].cpu = q.cpu
             /\ handle[g].source = q.source) => ~handle[g].on)
            => route'[q.cpu][q.source] = Intr!Off
  <2>1. route' = Intr!RouteOff(h, q, desc[q.cpu][q.intno].list)
    BY DEF Intr!Disable
  <2> QED
    BY <2>1, <1>1, IntrRouteOffRight
<1>5. Intr!TypeOK' /\ (freeing \subseteq Intr!Live)'
  BY <1>3, <1>4 DEF IntrInv, Intr!TypeOK, Intr!Disable
<1>6. ASSUME NEW d \in Cores, NEW w \in Vectors
      PROVE  IntrTold(d, w)' /\ IntrPowered(d, w)'
  <2>1. \A g \in Intr!Users(d, w) :
           /\ handle'[g].shared = handle[g].shared
           /\ handle'[g].source = handle[g].source
           /\ handle'[g].iram = handle[g].iram
    BY <1>3 DEF Intr!Users, Intr!Live
  <2>2. IntrTold(d, w) /\ IntrPowered(d, w)
    BY DEF IntrInv
  <2>3. UNCHANGED <<desc, table, mask, enabled, saved, asleep>>
    BY DEF Intr!Disable
  <2> QED
    BY <2>1, <2>2, <2>3, <1>3, IntrToldSame, IntrPoweredSame
<1>7. \A g \in Intr!Live : /\ handle'[g].cpu = handle[g].cpu
                           /\ handle'[g].source = handle[g].source
                           /\ handle'[g].intno = handle[g].intno
                           /\ g # h => handle'[g].on = handle[g].on
  BY <1>3 DEF Intr!Live
<1>8. IntrOneVector'
  BY <1>3, <1>7 DEF IntrInv, IntrOneVector
<1>9. Intr!Routing'
  <2> SUFFICES ASSUME NEW c \in Cores, NEW s \in Sources
      PROVE /\ \A g \in Intr!Live : handle[g].cpu = c /\ handle[g].source = s =>
                  (handle'[g].on => route'[c][s] = handle[g].intno)
            /\ (\A g \in Intr!Live : handle[g].cpu = c /\ handle[g].source = s =>
                                   ~handle'[g].on) => route'[c][s] = Intr!Off
    BY <1>3, <1>7 DEF Intr!Routing
  <2>1. CASE c = q.cpu /\ s = q.source
    <3>1. ~handle'[h].on
      BY <1>3
    <3>2. \A g \in Intr!Live : handle[g].cpu = c /\ handle[g].source = s =>
                             handle[g].intno = q.intno
      BY <2>1, <1>1 DEF IntrInv, IntrOneVector
    <3>3. \A g \in Intr!Live : handle[g].cpu = c /\ handle[g].source = s =>
                  (handle'[g].on => route'[c][s] = handle[g].intno)
      BY <3>1, <3>2, <2>1, <1>4, <1>7
    <3>4. (\A g \in Intr!Live : handle[g].cpu = c /\ handle[g].source = s =>
                                        ~handle'[g].on) => route'[c][s] = Intr!Off
      BY <2>1, <1>4, <1>7
    <3> QED
      BY <3>3, <3>4
  <2>2. CASE ~(c = q.cpu /\ s = q.source)
    <3>1. route'[c][s] = route[c][s]
      BY <2>2, <1>4
    <3>2. \A g \in Intr!Live : handle[g].cpu = c /\ handle[g].source = s =>
                             g # h /\ handle'[g].on = handle[g].on
      BY <2>2, <1>7
    <3>3. /\ \A g \in Intr!Live : handle[g].cpu = c /\ handle[g].source = s =>
                (handle[g].on => route[c][s] = handle[g].intno)
          /\ (\A g \in Intr!Live : handle[g].cpu = c /\ handle[g].source = s =>
                                 ~handle[g].on) => route[c][s] = Intr!Off
      BY DEF IntrInv, Intr!Routing
    <3> QED
      BY <3>1, <3>2, <3>3
  <2> QED
    BY <2>1, <2>2
<1>10. Intr!NoFreedHandler'
  BY <1>3 DEF IntrInv, Intr!NoFreedHandler, Intr!Disable
<1> QED
  BY <1>5, <1>6, <1>8, <1>9, <1>10 DEF IntrInv

\* ... the one that tells where a handler is, ...
LEMMA IntrSetInIramInv ==
    ASSUME Intr!IntrAssumption, IntrInv, NEW h \in Handles, Intr!SetInIram(h)
    PROVE  IntrInv'
<1> PICK q : q = handle[h]
  OBVIOUS
<1>0. PICK ram \in BOOLEAN :
         /\ handle' = [handle EXCEPT ![h].iram = ram]
         /\ mask' = Intr!Masked(q.cpu, q.intno, ram)
         /\ desc' = [desc EXCEPT ![q.cpu][q.intno].flags = Intr!InIram(@, ram)]
  BY DEF Intr!SetInIram
<1> PICK c, v : c = q.cpu /\ v = q.intno
  OBVIOUS
<1> DEFINE r == [cpu |-> q.cpu, intno |-> q.intno, source |-> q.source,
                 shared |-> q.shared, on |-> q.on, iram |-> ram]
           e == [known |-> desc[c][v].known,
                 flags |-> Intr!InIram(desc[c][v].flags, ram),
                 source |-> desc[c][v].source, list |-> desc[c][v].list]
<1>1. /\ h \in Intr!Live /\ q \in Intr!Handle /\ r \in Intr!Handle
      /\ c \in Cores /\ v \in Vectors /\ ~q.shared /\ ~asleep[c]
  BY IntrLiveHandle DEF Intr!SetInIram, IntrInv, Intr!Handle
<1>2. handle' = [handle EXCEPT ![h] = r]
  <2>1. [q EXCEPT !.iram = ram] = r
    BY <1>1, IntrHandleIram
  <2> QED
    BY <2>1, <1>0, Zenon
<1>3. /\ handle' \in [Handles -> Intr!Handle \cup {Intr!NoHandle}]
      /\ Intr!Live' = Intr!Live
      /\ \A d, w : Intr!Users(d, w)' = Intr!Users(d, w)
      /\ handle'[h] = r
      /\ \A g \in Handles : g # h => handle'[g] = handle[g]
  BY <1>1, <1>2, IntrHandleStays DEF IntrInv
<1>4. /\ desc' \in [Cores -> [Vectors -> Intr!Desc]]
      /\ desc'[c][v] = e
      /\ \A d \in Cores, w \in Vectors :
            ~(d = c /\ w = v) => desc'[d][w] = desc[d][w]
  <2>1. desc[c][v] \in Intr!Desc /\ Intr!InIram(desc[c][v].flags, ram) \in SUBSET Intr!Flags
    BY <1>1 DEF IntrInv, Intr!TypeOK, Intr!Desc, Intr!InIram, Intr!Flags
  <2>2. [desc[c][v] EXCEPT !.flags = Intr!InIram(@, ram)] = e /\ e \in Intr!Desc
    BY <2>1, IntrDescFlags DEF Intr!Desc
  <2>3. desc' = [desc EXCEPT ![c] = [desc[c] EXCEPT ![v] = e]]
    BY <1>0, <2>2
  <2>4. desc' \in [Cores -> [Vectors -> Intr!Desc]]
    BY <2>3, <2>2, <1>1, IntrDescTyped DEF IntrInv
  <2> HIDE DEF e
  <2> QED
    BY <2>3, <2>4, <1>1 DEF IntrInv, Intr!TypeOK
<1>5. /\ mask' \in [Cores -> SUBSET Vectors]
      /\ v \in mask'[c] <=> ~ram
      /\ \A d \in Cores, w \in Vectors :
            ~(d = c /\ w = v) => (w \in mask'[d] <=> w \in mask[d])
  BY <1>0, <1>1 DEF IntrInv, Intr!TypeOK, Intr!Masked
<1>6. Intr!TypeOK' /\ (freeing \subseteq Intr!Live)'
  BY <1>3, <1>4, <1>5 DEF IntrInv, Intr!TypeOK, Intr!SetInIram
<1>7. IntrAlone(c, v, h)
  <2>1. IntrTold(c, v) /\ h \in Intr!Users(c, v)
    BY <1>1 DEF IntrInv, Intr!Users
  <2> QED
    BY <2>1, <1>1 DEF IntrTold, IntrJoined, IntrAlone
<1>8. IntrTold(c, v)'
  <2>0. IntrTold(c, v)
    BY <1>1 DEF IntrInv
  <2>5. desc'[c][v].flags \cap {"shared", "nonshared"}
           = desc[c][v].flags \cap {"shared", "nonshared"}
    <3>1. ASSUME NEW f PROVE Intr!InIram(f, ram) \cap {"shared", "nonshared"}
                                = f \cap {"shared", "nonshared"}
      BY DEF Intr!InIram
    <3> QED
      BY <3>1, <1>4
  <2>6. /\ desc'[c][v].source = desc[c][v].source
        /\ desc'[c][v].list = desc[c][v].list
    BY <1>4
  <2>1. IntrAlone(c, v, h)'
    <3>1. /\ Intr!Users(c, v)' = {h}
          /\ ~handle'[h].shared
          /\ table'[c][v] = h
          /\ handle'[h].source = handle[h].source
      BY <1>1, <1>3, <1>7 DEF IntrAlone, Intr!SetInIram
    <3> QED
      BY <1>7, <3>1, <2>5, <2>6 DEF IntrAlone
  <2>2. "iram" \in desc'[c][v].flags <=> ram
    BY <1>4 DEF Intr!InIram
  <2>3. Intr!Users(c, v)' = {h} /\ handle'[h].iram = ram
    BY <1>7, <1>3 DEF IntrAlone
  <2>4. desc'[c][v].known
    BY <2>0, <1>7, <1>4 DEF IntrTold, IntrAlone
  <2> QED
    BY <2>1, <2>2, <2>3, <2>4, <1>5 DEF IntrTold
<1>9. ASSUME NEW d \in Cores, NEW w \in Vectors, ~(d = c /\ w = v)
      PROVE  IntrTold(d, w)'
  <2>1. \A g \in Intr!Users(d, w) : g # h
    BY <1>9 DEF Intr!Users
  <2>2. \A g \in Intr!Users(d, w) : handle'[g] = handle[g]
    BY <2>1, <1>3 DEF Intr!Users, Intr!Live
  <2>3. IntrTold(d, w) /\ table' = table
    BY DEF IntrInv, Intr!SetInIram
  <2> QED
    BY <2>2, <2>3, <1>3, <1>4, <1>5, <1>9, IntrToldSame
<1>10. ASSUME NEW d \in Cores, NEW w \in Vectors
       PROVE  IntrPowered(d, w)'
  <2>1. IntrPowered(d, w) /\ UNCHANGED <<asleep, saved, enabled>>
    BY DEF IntrInv, Intr!SetInIram
  <2>2. CASE d = c
    BY <2>1, <2>2, <1>1, <1>3 DEF IntrPowered
  <2>3. CASE d # c
    BY <2>1, <2>3, <1>3, <1>5, IntrPoweredSame
  <2> QED
    BY <2>2, <2>3
<1>11. \A g \in Intr!Live : /\ handle'[g].cpu = handle[g].cpu
                            /\ handle'[g].source = handle[g].source
                            /\ handle'[g].intno = handle[g].intno
                            /\ handle'[g].on = handle[g].on
  BY <1>3 DEF Intr!Live
<1>12. IntrOneVector' /\ Intr!Routing'
  BY <1>3, <1>11 DEF IntrInv, IntrOneVector, Intr!Routing, Intr!SetInIram
<1>13. Intr!NoFreedHandler'
  BY <1>3 DEF IntrInv, Intr!NoFreedHandler, Intr!SetInIram
<1> QED
  BY <1>6, <1>8, <1>9, <1>10, <1>12, <1>13 DEF IntrInv

\* A descriptor whose last user is gone.
LEMMA IntrDescFreed ==
    ASSUME NEW d \in Intr!Desc, NEW l, NEW last \in BOOLEAN
    PROVE  [d EXCEPT !.list = l,
                     !.flags = IF last THEN {} ELSE @,
                     !.source = IF last THEN Intr!Unused ELSE @]
              = [known |-> d.known,
                 flags |-> IF last THEN {} ELSE d.flags,
                 source |-> IF last THEN Intr!Unused ELSE d.source,
                 list |-> l]
<1> PICK f, s : /\ f = IF last THEN {} ELSE d.flags
                /\ s = IF last THEN Intr!Unused ELSE d.source
  OBVIOUS
<1>1. PICK x : x = [d EXCEPT !.list = l]
  OBVIOUS
<1>2. PICK y : y = [x EXCEPT !.flags = f]
  OBVIOUS
<1>3. x = [known |-> d.known, flags |-> d.flags, source |-> d.source,
           list |-> l]
  BY <1>1 DEF Intr!Desc
<1>4. y = [known |-> d.known, flags |-> f, source |-> d.source, list |-> l]
  BY <1>2, <1>3
<1>5. [y EXCEPT !.source = s]
         = [known |-> d.known, flags |-> f, source |-> s, list |-> l]
  BY <1>4
<1>6. [d EXCEPT !.list = l, !.flags = f, !.source = s]
         = [y EXCEPT !.source = s]
  BY <1>1, <1>2, Zenon
<1> QED
  BY <1>5, <1>6, Zenon

\* A vector nobody uses.
LEMMA IntrVacantTold ==
    \A c, v : Intr!Users(c, v) = {} /\ IntrVacant(c, v) => IntrTold(c, v)
BY Zenon DEF IntrTold

\* The same of the next state, for each of the ways a vector is used.
LEMMA IntrVacantToldThen ==
    \A c, v : Intr!Users(c, v)' = {} /\ IntrVacant(c, v)' => IntrTold(c, v)'
BY Zenon DEF IntrTold

LEMMA IntrJoinedToldThen ==
    ASSUME NEW c, NEW v, Intr!Users(c, v)' # {}, IntrJoined(c, v)', desc'[c][v].known,
           \A h \in Intr!Users(c, v)' :
              /\ "iram" \in desc'[c][v].flags <=> handle'[h].iram
              /\ v \in mask'[c] <=> ~handle'[h].iram
    PROVE  IntrTold(c, v)'
BY Zenon DEF IntrTold

LEMMA IntrAloneToldThen ==
    ASSUME NEW c, NEW v, NEW h, IntrAlone(c, v, h)', desc'[c][v].known,
           "iram" \in desc'[c][v].flags <=> handle'[h].iram,
           v \in mask'[c] <=> ~handle'[h].iram
    PROVE  IntrTold(c, v)'
<1>1. Intr!Users(c, v)' = {h}
  BY DEF IntrAlone
<1> QED
  BY <1>1 DEF IntrTold

\* ... and the two that change who uses a vector: esp_intr_free, and
\* esp_intr_alloc.
LEMMA IntrFreeInv ==
    ASSUME Intr!IntrAssumption, IntrPinned, IntrInv,
           NEW c \in Cores, NEW h \in Handles, Intr!Free(h, c)
    PROVE  IntrInv'
<1> PICK q : q = handle[h]
  OBVIOUS
<1> PICK v : v = q.intno
  OBVIOUS
<1>1. /\ h \in Intr!Live /\ q \in Intr!Handle /\ q.cpu = c
      /\ v \in Vectors /\ q.source \in Sources
  BY IntrLiveHandle
     DEF Intr!Free, Intr!FreeRunsOn, IntrPinned, IntrInv, Intr!Handle
<1>d. PICK d : d = desc[c][v]
  OBVIOUS
<1>r. PICK rest : rest = d.list \ {h}
  OBVIOUS
<1>l. PICK last \in BOOLEAN : last <=> (~q.shared \/ rest = {})
  OBVIOUS
<1> DEFINE e == [known |-> d.known,
                 flags |-> IF last THEN {} ELSE d.flags,
                 source |-> IF last THEN Intr!Unused ELSE d.source,
                 list |-> rest]
<1>2. handle' = [handle EXCEPT ![h] = Intr!NoHandle]
  BY DEF Intr!Free
<1>3. /\ handle' \in [Handles -> Intr!Handle \cup {Intr!NoHandle}]
      /\ Intr!Live' = Intr!Live \ {h}
      /\ \A g \in Handles : g # h => handle'[g] = handle[g]
  BY <1>2 DEF IntrInv, Intr!TypeOK, Intr!Live
<1>4. \A w, x : Intr!Users(w, x)' = Intr!Users(w, x) \ {h}
  BY <1>3 DEF Intr!Users, Intr!Live
<1>5. \A w, x : ~(w = c /\ x = v) => Intr!Users(w, x)' = Intr!Users(w, x)
  BY <1>4, <1>1 DEF Intr!Users
<1>6. d \in Intr!Desc /\ e \in Intr!Desc
  BY <1>1, <1>d, <1>r DEF IntrInv, Intr!TypeOK, Intr!Desc
<1>7. /\ desc' \in [Cores -> [Vectors -> Intr!Desc]]
      /\ desc'[c][v] = e
      /\ \A w \in Cores, x \in Vectors :
            ~(w = c /\ x = v) => desc'[w][x] = desc[w][x]
  <2>1. desc' = [desc EXCEPT ![c][v] =
              [d EXCEPT !.list = rest,
                        !.flags = IF last THEN {} ELSE @,
                        !.source = IF last THEN Intr!Unused ELSE @]]
    BY <1>1, <1>d, <1>r, <1>l, Zenon DEF Intr!Free
  <2>2. [d EXCEPT !.list = rest,
                  !.flags = IF last THEN {} ELSE @,
                  !.source = IF last THEN Intr!Unused ELSE @] = e
    BY <1>6, IntrDescFreed, Zenon
  <2>3. desc' = [desc EXCEPT ![c] = [desc[c] EXCEPT ![v] = e]]
    BY <2>1, <2>2, <1>d, Zenon
  <2>4. desc' \in [Cores -> [Vectors -> Intr!Desc]]
    BY <2>3, <1>6, <1>1, IntrDescTyped DEF IntrInv
  <2> HIDE DEF e
  <2> QED
    BY <2>3, <2>4, <1>1 DEF IntrInv, Intr!TypeOK
<1>8. /\ table' \in [Cores -> [Vectors -> Handles \cup {None, "shared"}]]
      /\ last => table'[c][v] = None
      /\ ~last => table' = table
      /\ \A w \in Cores, x \in Vectors :
            ~(w = c /\ x = v) => table'[w][x] = table[w][x]
  <2>1. table' = IF last THEN [table EXCEPT ![c][v] = None] ELSE table
    BY <1>1, <1>d, <1>r, <1>l DEF Intr!Free
  <2> QED
    BY <2>1, <1>1 DEF IntrInv, Intr!TypeOK
<1>9. /\ mask' \in [Cores -> SUBSET Vectors]
      /\ ~last => mask' = mask
      /\ \A w \in Cores, x \in Vectors :
            ~(w = c /\ x = v) => (x \in mask'[w] <=> x \in mask[w])
  <2>1. mask' = IF last THEN [mask EXCEPT ![c] = @ \ {v}] ELSE mask
    BY <1>1, <1>d, <1>r, <1>l DEF Intr!Free
  <2> QED
    BY <2>1, <1>1 DEF IntrInv, Intr!TypeOK
<1>10. /\ route' \in [Cores -> [Sources -> Vectors \cup {Intr!Off}]]
       /\ \A w \in Cores, s \in Sources :
             ~(w = c /\ s = q.source) => route'[w][s] = route[w][s]
       /\ \A g \in Intr!Live :
             (/\ g # h
              /\ handle[g].cpu = c
              /\ handle[g].source = q.source
              /\ handle[g].on) => route'[c][q.source] = v
       /\ (\A g \in Intr!Live :
             (/\ g # h
              /\ handle[g].cpu = c
              /\ handle[g].source = q.source) => ~handle[g].on)
             => route'[c][q.source] = Intr!Off
  <2>1. route' = Intr!RouteOff(h, q, desc[q.cpu][q.intno].list)
    BY DEF Intr!Free
  <2> QED
    <3> PICK s : s = q.source
      OBVIOUS
    <3>1. /\ route' \in [Cores -> [Sources -> Vectors \cup {Intr!Off}]]
          /\ \A w \in Cores, t \in Sources :
                ~(w = q.cpu /\ t = q.source) => route'[w][t] = route[w][t]
          /\ \A g \in Intr!Live :
                (/\ g # h
                 /\ handle[g].cpu = q.cpu
                 /\ handle[g].source = q.source
                 /\ handle[g].on) => route'[q.cpu][q.source] = q.intno
          /\ (\A g \in Intr!Live :
                (/\ g # h
                 /\ handle[g].cpu = q.cpu
                 /\ handle[g].source = q.source) => ~handle[g].on)
                => route'[q.cpu][q.source] = Intr!Off
      BY <2>1, <1>1, IntrRouteOffRight
    <3>2. q.cpu = c /\ q.intno = v
      BY <1>1
    <3> QED
      BY <3>1, <3>2, Zenon
<1>11. Intr!TypeOK' /\ (freeing \subseteq Intr!Live)'
  BY <1>3, <1>7, <1>8, <1>9, <1>10 DEF IntrInv, Intr!TypeOK, Intr!Free
<1>12. IntrTold(c, v) /\ h \in Intr!Users(c, v)
  BY <1>1 DEF IntrInv, Intr!Users
<1>13. ASSUME last PROVE IntrTold(c, v)'
  <2>1. Intr!Users(c, v) \ {h} = {} /\ rest = {}
    BY <1>12, <1>13, <1>1, <1>d, <1>r, <1>l DEF IntrTold, IntrJoined, IntrAlone
  <2>2. Intr!Users(c, v)' = {}
    BY <2>1, <1>4
  <2>3. desc'[c][v] = [known |-> d.known, flags |-> {}, source |-> Intr!Unused,
                       list |-> {}]
    BY <1>7, <1>13, <2>1
  <2>4. IntrVacant(c, v)'
    BY <2>3, <1>8, <1>13 DEF IntrVacant, Intr!Unused
  <2> QED
    BY <2>2, <2>4, IntrVacantToldThen
<1>14. ASSUME ~last PROVE IntrTold(c, v)'
  <2>1. q.shared /\ rest # {}
    BY <1>14, <1>l
  <2>2. IntrJoined(c, v)
    BY <2>1, <1>12 DEF IntrTold, IntrAlone
  <2>3. desc'[c][v] = [known |-> d.known, flags |-> d.flags,
                       source |-> d.source, list |-> rest]
    BY <1>7, <1>14
  <2>4. Intr!Users(c, v)' = rest
    BY <2>2, <1>4, <1>d, <1>r DEF IntrJoined
  <2>5. \A g \in rest : g \in Intr!Users(c, v) /\ handle'[g] = handle[g]
    BY <2>2, <1>3, <1>d, <1>r DEF IntrJoined, Intr!Users, Intr!Live
  <2>6. IntrJoined(c, v)'
    BY <2>2, <2>3, <2>4, <2>5, <1>8, <1>14, <1>d DEF IntrJoined
  <2>7. d.known
    BY <1>12, <1>d DEF IntrTold
  <2>8. \A g \in rest : /\ "iram" \in desc'[c][v].flags <=> handle'[g].iram
                        /\ v \in mask'[c] <=> ~handle'[g].iram
    BY <2>3, <2>5, <1>12, <1>9, <1>14, <1>d DEF IntrTold
  <2>9. desc'[c][v].known
    BY <2>3, <2>7
  <2> QED
    BY <2>1, <2>4, <2>6, <2>8, <2>9, IntrJoinedToldThen
<1>15. IntrTold(c, v)'
  BY <1>13, <1>14
<1>16. ASSUME NEW w \in Cores, NEW x \in Vectors, ~(w = c /\ x = v)
       PROVE  IntrTold(w, x)'
  <2>1. \A g \in Intr!Users(w, x) : g # h
    BY <1>16, <1>1 DEF Intr!Users
  <2>2. \A g \in Intr!Users(w, x) : handle'[g] = handle[g]
    BY <2>1, <1>3 DEF Intr!Users, Intr!Live
  <2>3. IntrTold(w, x)
    BY DEF IntrInv
  <2> QED
    <3>1. /\ desc'[w][x] = desc[w][x]
          /\ table'[w][x] = table[w][x]
          /\ x \in mask'[w] <=> x \in mask[w]
          /\ Intr!Users(w, x)' = Intr!Users(w, x)
      BY <1>5, <1>7, <1>8, <1>9, <1>16
    <3> QED
      BY <2>2, <2>3, <3>1, IntrToldSame
<1>17. ASSUME NEW w \in Cores, NEW x \in Vectors
       PROVE  IntrPowered(w, x)'
  <2>1. IntrPowered(w, x) /\ UNCHANGED <<asleep, saved, enabled>> /\ ~asleep[c]
    BY DEF IntrInv, Intr!Free, Intr!Awake
  <2>2. CASE w = c
    BY <2>1, <2>2, <1>4 DEF IntrPowered
  <2>3. CASE w # c
    <3>1. /\ Intr!Users(w, x)' = Intr!Users(w, x)
          /\ x \in mask'[w] <=> x \in mask[w]
      BY <2>3, <1>5, <1>9
    <3> QED
      BY <2>1, <3>1, IntrPoweredSame
  <2> QED
    BY <2>2, <2>3
<1>18. \A g \in Intr!Live : g # h => handle'[g] = handle[g]
  BY <1>3 DEF Intr!Live
<1>19. IntrOneVector'
  <2> SUFFICES ASSUME NEW f \in Intr!Live', NEW g \in Intr!Live',
                      handle'[f].cpu = handle'[g].cpu,
                      handle'[f].source = handle'[g].source
               PROVE  handle'[f].intno = handle'[g].intno
    BY DEF IntrOneVector
  <2>1. f \in Intr!Live /\ g \in Intr!Live
        /\ handle'[f] = handle[f] /\ handle'[g] = handle[g]
    BY <1>3, <1>18
  <2> QED
    BY <2>1 DEF IntrInv, IntrOneVector
<1>20. Intr!Routing'
  <2> SUFFICES ASSUME NEW w \in Cores, NEW s \in Sources
      PROVE /\ \A g \in Intr!Live : g # h /\ handle[g].cpu = w
                                          /\ handle[g].source = s =>
                  (handle[g].on => route'[w][s] = handle[g].intno)
            /\ (\A g \in Intr!Live : g # h /\ handle[g].cpu = w
                                           /\ handle[g].source = s =>
                                   ~handle[g].on) => route'[w][s] = Intr!Off
    BY <1>3, <1>18 DEF Intr!Routing
  <2>1. CASE w = c /\ s = q.source
    <3>2. \A g \in Intr!Live : handle[g].cpu = w /\ handle[g].source = s =>
                             handle[g].intno = v
      BY <2>1, <1>1 DEF IntrInv, IntrOneVector
    <3> QED
      BY <3>2, <2>1, <1>10
  <2>2. CASE ~(w = c /\ s = q.source)
    <3>1. route'[w][s] = route[w][s]
      BY <2>2, <1>10
    <3>2. \A g \in Intr!Live : handle[g].cpu = w /\ handle[g].source = s => g # h
      BY <2>2, <1>1
    <3>3. /\ \A g \in Intr!Live : handle[g].cpu = w /\ handle[g].source = s =>
                (handle[g].on => route[w][s] = handle[g].intno)
          /\ (\A g \in Intr!Live : handle[g].cpu = w /\ handle[g].source = s =>
                                 ~handle[g].on) => route[w][s] = Intr!Off
      BY DEF IntrInv, Intr!Routing
    <3> QED
      BY <3>1, <3>2, <3>3
  <2> QED
    BY <2>1, <2>2
<1>21. Intr!NoFreedHandler'
  BY <1>5 DEF IntrInv, Intr!NoFreedHandler, Intr!Free, Intr!Awake
<1> QED
  BY <1>11, <1>15, <1>16, <1>17, <1>19, <1>20, <1>21 DEF IntrInv

LEMMA IntrAllocInv ==
    ASSUME Intr!IntrAssumption, IntrZeroTold, IntrInv,
           NEW c \in Cores, NEW h \in Handles, Intr!Alloc(c, h)
    PROVE  IntrInv'
<1>0. PICK v \in Vectors, s \in Sources, shared \in BOOLEAN, ram \in BOOLEAN,
           off \in BOOLEAN :
         LET r == [cpu |-> c, intno |-> v, source |-> s, shared |-> shared,
                   on |-> ~off, iram |-> ram]
             d == desc[c][v]
         IN  /\ Intr!Available(c, v, s, shared, ram)
             /\ handle' = [handle EXCEPT ![h] = r]
             /\ desc' = [desc EXCEPT ![c][v] =
                   IF shared
                   THEN [known |-> TRUE, source |-> d.source,
                         flags |-> Intr!InIram(d.flags \cup {"shared"}, ram),
                         list |-> d.list \cup {h}]
                   ELSE [known |-> TRUE, source |-> s, list |-> d.list,
                         flags |-> Intr!InIram({"nonshared"}, ram)]]
             /\ table' = [table EXCEPT ![c][v] =
                             IF shared THEN "shared" ELSE h]
             /\ mask' = Intr!Masked(c, v, ram)
             /\ route' = IF off THEN Intr!RouteOff(h, r, d.list) ELSE Intr!RouteOn(r)
             /\ enabled' = [enabled EXCEPT ![c] = @ \cup {v}]
  BY DEF Intr!Alloc
<1> DEFINE r == [cpu |-> c, intno |-> v, source |-> s, shared |-> shared,
                 on |-> ~off, iram |-> ram]
<1>d. PICK d : d = desc[c][v]
  OBVIOUS
<1> DEFINE e == IF shared
                THEN [known |-> TRUE, source |-> d.source,
                      flags |-> Intr!InIram(d.flags \cup {"shared"}, ram),
                      list |-> d.list \cup {h}]
                ELSE [known |-> TRUE, source |-> s, list |-> d.list,
                      flags |-> Intr!InIram({"nonshared"}, ram)]
<1>1. /\ Intr!Usable(c, v, shared, ram)
      /\ \A g \in Intr!Live : handle[g].cpu = c /\ handle[g].source = s =>
                            handle[g].intno = v
  <2>1. Intr!Available(c, v, s, shared, ram)
    BY <1>0
  <2> QED
    BY <2>1, IntrChosenIs
<1>2. /\ "nonshared" \notin d.flags
      /\ \/ Intr!Users(c, v) = {} /\ IntrVacant(c, v)
         \/ /\ Intr!Users(c, v) # {} /\ IntrJoined(c, v) /\ shared
            /\ \A g \in Intr!Users(c, v) : handle[g].iram <=> ram
  <2>1. IntrTold(c, v) /\ Intr!TypeOK
    BY DEF IntrInv
  <2> QED
    BY <1>1, <2>1, <1>d, IntrUsableIs
<1>3. ~asleep[c] /\ isr[c] = Intr!NoIsr /\ handle[h] = Intr!NoHandle /\ h \notin Intr!Live
  BY DEF Intr!Alloc, Intr!Awake, Intr!Live
<1>4. r \in Intr!Handle /\ r # Intr!NoHandle
  <2>1. r \in Intr!Handle
    BY DEF Intr!Handle
  <2> QED
    BY <2>1, IntrNotVacant
<1>5. /\ handle' \in [Handles -> Intr!Handle \cup {Intr!NoHandle}]
      /\ handle'[h] = r
      /\ \A g \in Handles : g # h => handle'[g] = handle[g]
  <2>1. handle' = [handle EXCEPT ![h] = r]
    BY <1>0
  <2> HIDE DEF r
  <2> QED
    BY <2>1, <1>4 DEF IntrInv, Intr!TypeOK
<1>6. Intr!Live' = Intr!Live \cup {h} /\ \A g \in Intr!Live : g # h /\ handle'[g] = handle[g]
  BY <1>3, <1>4, <1>5 DEF Intr!Live
<1>7. /\ Intr!Users(c, v)' = Intr!Users(c, v) \cup {h}
      /\ \A w, x : ~(w = c /\ x = v) => Intr!Users(w, x)' = Intr!Users(w, x)
  BY <1>3, <1>5, <1>6 DEF Intr!Users
<1>8. d \in Intr!Desc /\ e \in Intr!Desc
  <2>1. d \in Intr!Desc
    BY <1>d DEF IntrInv, Intr!TypeOK
  <2>2. \A f \in SUBSET Intr!Flags : Intr!InIram(f, ram) \in SUBSET Intr!Flags
    BY DEF Intr!InIram, Intr!Flags
  <2>3. d.flags \cup {"shared"} \in SUBSET Intr!Flags
        /\ {"nonshared"} \in SUBSET Intr!Flags
    BY <2>1 DEF Intr!Desc, Intr!Flags
  <2>4. CASE shared
    BY <2>1, <2>2, <2>3, <2>4 DEF Intr!Desc
  <2>5. CASE ~shared
    BY <2>1, <2>2, <2>3, <2>5 DEF Intr!Desc
  <2> QED
    BY <2>1, <2>4, <2>5
<1>9. /\ desc' \in [Cores -> [Vectors -> Intr!Desc]]
      /\ desc'[c][v] = e
      /\ \A w \in Cores, x \in Vectors :
            ~(w = c /\ x = v) => desc'[w][x] = desc[w][x]
  <2>1. desc' = [desc EXCEPT ![c] = [desc[c] EXCEPT ![v] = e]]
    BY <1>0, <1>d
  <2>2. desc' \in [Cores -> [Vectors -> Intr!Desc]]
    BY <2>1, <1>8, IntrDescTyped DEF IntrInv
  <2> HIDE DEF e
  <2> QED
    BY <2>1, <2>2 DEF IntrInv, Intr!TypeOK
<1>10. /\ table' \in [Cores -> [Vectors -> Handles \cup {None, "shared"}]]
       /\ table'[c][v] = IF shared THEN "shared" ELSE h
       /\ \A w \in Cores, x \in Vectors :
             ~(w = c /\ x = v) => table'[w][x] = table[w][x]
  <2>1. table' = [table EXCEPT ![c][v] = IF shared THEN "shared" ELSE h]
    BY <1>0
  <2> QED
    BY <2>1 DEF IntrInv, Intr!TypeOK
<1>11. /\ mask' \in [Cores -> SUBSET Vectors]
       /\ v \in mask'[c] <=> ~ram
       /\ \A w \in Cores, x \in Vectors :
             ~(w = c /\ x = v) => (x \in mask'[w] <=> x \in mask[w])
  <2>1. mask' = Intr!Masked(c, v, ram)
    BY <1>0
  <2> QED
    BY <2>1 DEF IntrInv, Intr!TypeOK, Intr!Masked
<1>12. /\ enabled' \in [Cores -> SUBSET Vectors]
       /\ v \in enabled'[c]
       /\ \A w \in Cores, x \in Vectors :
             ~(w = c /\ x = v) => (x \in enabled'[w] <=> x \in enabled[w])
  <2>1. enabled' = [enabled EXCEPT ![c] = @ \cup {v}]
    BY <1>0
  <2> QED
    BY <2>1 DEF IntrInv, Intr!TypeOK
<1>13. /\ route' \in [Cores -> [Sources -> Vectors \cup {Intr!Off}]]
       /\ \A w \in Cores, t \in Sources :
             ~(w = c /\ t = s) => route'[w][t] = route[w][t]
       /\ ~off => route'[c][s] = v
       /\ off => /\ \A g \in Intr!Live : handle[g].cpu = c /\ handle[g].source = s =>
                       (handle[g].on => route'[c][s] = v)
                 /\ (\A g \in Intr!Live : handle[g].cpu = c /\ handle[g].source = s =>
                        ~handle[g].on) => route'[c][s] = Intr!Off
  <2>1. CASE ~off
    <3>1. route' = [route EXCEPT ![c][s] = v]
      BY <2>1, <1>0 DEF Intr!RouteOn
    <3> QED
      BY <2>1, <3>1 DEF IntrInv, Intr!TypeOK
  <2>2. CASE off
    <3>1. route' = Intr!RouteOff(h, r, d.list)
      BY <2>2, <1>0, <1>d
    <3>2. CASE shared /\ Intr!OthersOn(h, r, d.list)
      <4>1. route' = route
        BY <3>1, <3>2 DEF Intr!RouteOff
      <4>2. PICK g \in d.list \ {h} : handle[g].on /\ handle[g].source = s
        BY <3>2 DEF Intr!OthersOn
      <4>3. g \in Intr!Live /\ handle[g].cpu = c /\ handle[g].intno = v
        BY <4>2, <1>d, IntrListIs DEF Intr!Users
      <4>4. route[c][s] = v
        BY <4>2, <4>3 DEF IntrInv, Intr!Routing
      <4> QED
        BY <2>2, <4>1, <4>2, <4>3, <4>4 DEF IntrInv, Intr!TypeOK
    <3>3. CASE ~(shared /\ Intr!OthersOn(h, r, d.list))
      <4>1. route' = [route EXCEPT ![c][s] = Intr!Off]
        BY <3>1, <3>3 DEF Intr!RouteOff
      <4>2. /\ route' \in [Cores -> [Sources -> Vectors \cup {Intr!Off}]]
            /\ route'[c][s] = Intr!Off
            /\ \A w \in Cores, t \in Sources :
                  ~(w = c /\ t = s) => route'[w][t] = route[w][t]
        BY <4>1 DEF IntrInv, Intr!TypeOK
      <4>3. ASSUME NEW g \in Intr!Live, handle[g].cpu = c, handle[g].source = s,
                   handle[g].on
            PROVE  FALSE
        <5>1. g \in Intr!Users(c, v)
          BY <4>3, <1>1 DEF Intr!Users
        <5>2. shared /\ g \in d.list \ {h}
          BY <5>1, <1>2, <1>3, <1>d DEF IntrJoined, Intr!Users
        <5> QED
          BY <5>2, <4>3, <3>3 DEF Intr!OthersOn
      <4> QED
        BY <2>2, <4>2, <4>3
    <3> QED
      BY <3>2, <3>3
  <2> QED
    BY <2>1, <2>2
<1>14. Intr!TypeOK' /\ (freeing \subseteq Intr!Live)'
  <2>1. UNCHANGED <<saved, asleep, freeing, isr>>
    BY DEF Intr!Alloc
  <2> QED
    BY <2>1, <1>5, <1>6, <1>9, <1>10, <1>11, <1>12, <1>13
       DEF IntrInv, Intr!TypeOK
<1>15. /\ handle'[h].shared = shared /\ handle'[h].source = s
       /\ handle'[h].cpu = c /\ handle'[h].intno = v
       /\ handle'[h].iram = ram /\ handle'[h].on = ~off
  BY <1>5
<1>16. ASSUME shared PROVE IntrTold(c, v)'
  <2>1. Intr!Users(c, v) = d.list
    BY <1>2, <1>d DEF IntrVacant, IntrJoined
  <2>2. desc'[c][v] = [known |-> TRUE, source |-> d.source,
                       flags |-> Intr!InIram(d.flags \cup {"shared"}, ram),
                       list |-> d.list \cup {h}]
    BY <1>9, <1>16
  <2>3. \A g \in Intr!Users(c, v) :
           handle[g].shared /\ (handle[g].iram <=> ram)
    BY <1>2 DEF IntrJoined
  <2>4. \A g \in Intr!Users(c, v) : handle'[g] = handle[g]
    BY <1>6 DEF Intr!Users
  <2>5. \A f : "iram" \in Intr!InIram(f, ram) <=> ram
    BY DEF Intr!InIram
  <2>6. Intr!InIram(d.flags \cup {"shared"}, ram) \cap {"shared", "nonshared"}
           = {"shared"}
    BY <1>2 DEF Intr!InIram
  <2>7. IntrJoined(c, v)'
    <3>1. Intr!Users(c, v)' = desc'[c][v].list
      BY <1>7, <2>1, <2>2
    <3>2. \A g \in Intr!Users(c, v)' : handle'[g].shared
      BY <1>7, <1>15, <1>16, <2>3, <2>4
    <3>3. table'[c][v] = "shared"
      BY <1>10, <1>16
    <3>4. desc'[c][v].flags = Intr!InIram(d.flags \cup {"shared"}, ram)
      BY <2>2
    <3> QED
      BY <3>1, <3>2, <3>3, <3>4, <2>6 DEF IntrJoined
  <2>8. \A g \in Intr!Users(c, v)' :
           /\ "iram" \in desc'[c][v].flags <=> handle'[g].iram
           /\ v \in mask'[c] <=> ~handle'[g].iram
    BY <1>7, <1>11, <1>15, <2>2, <2>3, <2>4, <2>5
  <2>9. Intr!Users(c, v)' # {} /\ desc'[c][v].known
    BY <1>7, <2>2
  <2> QED
    BY <2>7, <2>8, <2>9, IntrJoinedToldThen
<1>17. ASSUME ~shared PROVE IntrTold(c, v)'
  <2>1. Intr!Users(c, v) = {} /\ IntrVacant(c, v)
    BY <1>2, <1>17
  <2>2. desc'[c][v] = [known |-> TRUE, source |-> s, list |-> d.list,
                       flags |-> Intr!InIram({"nonshared"}, ram)]
    BY <1>9, <1>17
  <2>3. Intr!InIram({"nonshared"}, ram) \cap {"shared", "nonshared"}
           = {"nonshared"}
        /\ ("iram" \in Intr!InIram({"nonshared"}, ram) <=> ram)
    BY DEF Intr!InIram
  <2>4. IntrAlone(c, v, h)'
    BY <1>7, <1>10, <1>15, <1>17, <2>1, <2>2, <2>3, <1>d
       DEF IntrAlone, IntrVacant
  <2>5. desc'[c][v].known /\ ("iram" \in desc'[c][v].flags <=> ram)
    BY <2>2, <2>3
  <2> QED
    BY <2>4, <2>5, <1>11, <1>15, IntrAloneToldThen
<1>18. ASSUME NEW w \in Cores, NEW x \in Vectors, ~(w = c /\ x = v)
       PROVE  IntrTold(w, x)' /\ IntrPowered(w, x)'
  <2>1. \A g \in Intr!Users(w, x) : handle'[g] = handle[g]
    BY <1>6 DEF Intr!Users
  <2>2. IntrTold(w, x) /\ IntrPowered(w, x) /\ UNCHANGED <<asleep, saved>>
    BY DEF IntrInv, Intr!Alloc
  <2>3. /\ desc'[w][x] = desc[w][x]
        /\ table'[w][x] = table[w][x]
        /\ x \in mask'[w] <=> x \in mask[w]
        /\ x \in enabled'[w] <=> x \in enabled[w]
        /\ Intr!Users(w, x)' = Intr!Users(w, x)
    BY <1>18, <1>7, <1>9, <1>10, <1>11, <1>12
  <2>4. IntrTold(w, x)'
    BY <2>1, <2>2, <2>3, IntrToldSame
  <2>5. IntrPowered(w, x)'
    BY <2>2, <2>3 DEF IntrPowered
  <2> QED
    BY <2>4, <2>5
<1>19. IntrPowered(c, v)'
  <2>1. ~asleep'[c]
    BY <1>3 DEF Intr!Alloc
  <2> QED
    BY <2>1, <1>12 DEF IntrPowered
<1>20. IntrTold(c, v)'
  BY <1>16, <1>17
<1>21. IntrOneVector'
  <2> SUFFICES ASSUME NEW f \in Intr!Live', NEW g \in Intr!Live',
                      handle'[f].cpu = handle'[g].cpu,
                      handle'[f].source = handle'[g].source
               PROVE  handle'[f].intno = handle'[g].intno
    BY DEF IntrOneVector
  <2>1. CASE f = h /\ g = h
    BY <2>1
  <2>2. CASE f = h /\ g # h
    BY <2>2, <1>1, <1>6, <1>15
  <2>3. CASE f # h /\ g = h
    BY <2>3, <1>1, <1>6, <1>15
  <2>4. CASE f # h /\ g # h
    BY <2>4, <1>6 DEF IntrInv, IntrOneVector
  <2> QED
    BY <2>1, <2>2, <2>3, <2>4
<1>22. Intr!Routing'
  <2> SUFFICES ASSUME NEW w \in Cores, NEW t \in Sources
      PROVE /\ \A g \in Intr!Live' : handle'[g].cpu = w /\ handle'[g].source = t =>
                  (handle'[g].on => route'[w][t] = handle'[g].intno)
            /\ (\A g \in Intr!Live' : handle'[g].cpu = w /\ handle'[g].source = t =>
                                   ~handle'[g].on) => route'[w][t] = Intr!Off
    BY DEF Intr!Routing
  <2>1. CASE w = c /\ t = s
    <3>0. \A g \in Intr!Live' : handle'[g].cpu = c /\ handle'[g].source = s =>
             /\ handle'[g].intno = v
             /\ g # h => g \in Intr!Live /\ handle'[g] = handle[g]
      BY <1>1, <1>6, <1>15
    <3>1. CASE ~off
      <4>1. route'[c][s] = v /\ handle'[h].on /\ h \in Intr!Live'
        BY <3>1, <1>6, <1>13, <1>15
      <4> QED
        BY <2>1, <3>0, <4>1, <1>15
    <3>2. CASE off
      <4>1. /\ \A g \in Intr!Live : handle[g].cpu = c /\ handle[g].source = s =>
                  (handle[g].on => route'[c][s] = v)
            /\ (\A g \in Intr!Live : handle[g].cpu = c /\ handle[g].source = s =>
                   ~handle[g].on) => route'[c][s] = Intr!Off
        BY <3>2, <1>13
      <4>2. /\ ~handle'[h].on
            /\ \A g \in Intr!Live : g # h /\ g \in Intr!Live' /\ handle'[g] = handle[g]
        BY <3>2, <1>6, <1>15
      <4>3. \A g \in Intr!Live' : handle'[g].cpu = c /\ handle'[g].source = s =>
               (handle'[g].on => route'[c][s] = handle'[g].intno)
        BY <3>0, <4>1, <4>2
      <4> QED
        BY <2>1, <4>1, <4>2, <4>3
    <3> QED
      BY <3>1, <3>2
  <2>2. CASE ~(w = c /\ t = s)
    <3>1. route'[w][t] = route[w][t]
      BY <2>2, <1>13
    <3>2. \A g \in Intr!Live' : handle'[g].cpu = w /\ handle'[g].source = t =>
             g \in Intr!Live /\ handle'[g] = handle[g]
      BY <2>2, <1>6, <1>15
    <3>3. /\ \A g \in Intr!Live : handle[g].cpu = w /\ handle[g].source = t =>
                (handle[g].on => route[w][t] = handle[g].intno)
          /\ (\A g \in Intr!Live : handle[g].cpu = w /\ handle[g].source = t =>
                                 ~handle[g].on) => route[w][t] = Intr!Off
      BY DEF IntrInv, Intr!Routing
    <3> QED
      BY <3>1, <3>2, <3>3, <1>6
  <2> QED
    BY <2>1, <2>2
<1>23. Intr!NoFreedHandler'
  <2>1. \A w, x : Intr!Users(w, x) \subseteq Intr!Users(w, x)'
    BY <1>7
  <2> QED
    BY <2>1 DEF IntrInv, Intr!NoFreedHandler, Intr!Alloc
<1>24. \A w \in Cores, x \in Vectors : IntrTold(w, x)' /\ IntrPowered(w, x)'
  BY <1>18, <1>19, <1>20
<1> QED
  BY <1>14, <1>21, <1>22, <1>23, <1>24 DEF IntrInv

\* A step of nobody leaves it, and so it holds throughout.
LEMMA IntrStutterInv ==
    ASSUME Intr!IntrAssumption, IntrInv, UNCHANGED Intr!vars
    PROVE  IntrInv'
<1>1. /\ Intr!Live' = Intr!Live
      /\ \A d, w : Intr!Users(d, w)' = Intr!Users(d, w)
  BY DEF Intr!vars, Intr!Live, Intr!Users
<1>2. Intr!TypeOK' /\ (freeing \subseteq Intr!Live)'
  BY <1>1 DEF IntrInv, Intr!TypeOK, Intr!vars
<1>3. \A d \in Cores, w \in Vectors : IntrTold(d, w)' /\ IntrPowered(d, w)'
  BY <1>1, IntrToldSame, IntrPoweredSame DEF IntrInv, Intr!vars
<1>4. IntrOneVector' /\ Intr!Routing' /\ Intr!NoFreedHandler'
  BY <1>1
     DEF IntrInv, IntrOneVector, Intr!Routing, Intr!NoFreedHandler, Intr!vars
<1> QED
  BY <1>2, <1>3, <1>4 DEF IntrInv

LEMMA IntrInvariance ==
    ASSUME Intr!IntrAssumption, IntrPinned, IntrZeroTold
    PROVE  Intr!Spec => []IntrInv
<1>1. Intr!Init => IntrInv
  BY IntrInitInv
<1>2. IntrInv /\ [Intr!Next]_(Intr!vars) => IntrInv'
  <2> SUFFICES ASSUME IntrInv, [Intr!Next]_(Intr!vars) PROVE IntrInv'
    OBVIOUS
  <2>1. CASE UNCHANGED Intr!vars
    BY <2>1, IntrStutterInv
  <2>2. ASSUME NEW c \in Cores, NEW h \in Handles, Intr!Alloc(c, h)
        PROVE  IntrInv'
    BY <2>2, IntrAllocInv
  <2>3. ASSUME NEW c \in Cores, NEW h \in Handles, Intr!Free(h, c)
        PROVE  IntrInv'
    BY <2>3, IntrFreeInv
  <2>4. ASSUME NEW c \in Cores, NEW v \in Vectors, Intr!Reserve(c, v)
        PROVE  IntrInv'
    BY <2>4, IntrReserveInv
  <2>5. ASSUME NEW c \in Cores,
               \/ Intr!AllocNoMemory(c)
               \/ Intr!NonIramDisable(c)
               \/ Intr!NonIramEnable(c)
               \/ Intr!IsrEnter(c)
               \/ Intr!IsrWalk(c)
        PROVE  IntrInv'
    BY <2>5, IntrAllocNoMemoryInv, IntrNonIramDisableInv, IntrNonIramEnableInv,
       IntrIsrEnterInv, IntrIsrWalkInv
  <2>6. ASSUME NEW h \in Handles,
               Intr!Enable(h) \/ Intr!Disable(h) \/ Intr!SetInIram(h) \/ Intr!FreeStart(h)
        PROVE  IntrInv'
    BY <2>6, IntrEnableInv, IntrDisableInv, IntrSetInIramInv, IntrFreeStartInv
  <2> QED
    BY <2>1, <2>2, <2>3, <2>4, <2>5, <2>6 DEF Intr!Next
<1> QED
  BY <1>1, <1>2, PTL DEF Intr!Spec

\* What the descriptors tell is that the table matches ...
LEMMA IntrInvMatch ==
    ASSUME Intr!IntrAssumption, IntrInv
    PROVE  Intr!HandlersMatch
<1> SUFFICES ASSUME NEW c \in Cores, NEW v \in Vectors
    PROVE \/ Intr!Users(c, v) = {} /\ table[c][v] = None
          \/ \E h \in Intr!Users(c, v) :
                Intr!Users(c, v) = {h} /\ table[c][v] = h /\ ~handle[h].shared
          \/ /\ Intr!Users(c, v) # {}
             /\ Intr!Users(c, v) = desc[c][v].list
             /\ \A h \in Intr!Users(c, v) : handle[h].shared
             /\ table[c][v] = "shared"
  BY DEF Intr!HandlersMatch
<1>1. IntrTold(c, v)
  BY DEF IntrInv
<1>2. CASE Intr!Users(c, v) = {}
  BY <1>1, <1>2 DEF IntrTold, IntrVacant
<1>3. CASE Intr!Users(c, v) # {} /\ IntrJoined(c, v)
  BY <1>3 DEF IntrJoined
<1>4. ASSUME NEW h \in Intr!Users(c, v), IntrAlone(c, v, h)
      PROVE  Intr!Users(c, v) = {h} /\ table[c][v] = h /\ ~handle[h].shared
  BY <1>4 DEF IntrAlone
<1> QED
  BY <1>1, <1>2, <1>3, <1>4 DEF IntrTold

\* ... and that the vectors enabled without the cache have handlers in IRAM.
LEMMA IntrInvCacheOff ==
    ASSUME Intr!IntrAssumption, IntrInv
    PROVE  Intr!CacheOffSafe
<1> SUFFICES ASSUME NEW h \in Intr!Live
    PROVE handle[h].intno \in enabled[handle[h].cpu]
             <=> (asleep[handle[h].cpu] => handle[h].iram)
  BY DEF Intr!CacheOffSafe
<1> PICK c, v : c = handle[h].cpu /\ v = handle[h].intno
  OBVIOUS
<1>1. c \in Cores /\ v \in Vectors
  BY IntrLiveHandle DEF IntrInv, Intr!Handle
<1>2. h \in Intr!Users(c, v) /\ IntrTold(c, v) /\ IntrPowered(c, v)
  BY <1>1 DEF IntrInv, Intr!Users
<1>3. v \in mask[c] <=> ~handle[h].iram
  BY <1>2 DEF IntrTold
<1>4. CASE asleep[c]
  <2>1. v \in enabled[c] <=> v \notin mask[c]
    BY <1>2, <1>4 DEF IntrPowered
  <2> QED
    BY <2>1, <1>3, <1>4
<1>5. CASE ~asleep[c]
  <2>1. v \in enabled[c]
    BY <1>2, <1>5 DEF IntrPowered
  <2> QED
    BY <2>1, <1>5
<1> QED
  BY <1>4, <1>5

\* A core's handler table holds exactly what esp_intr_alloc put there and
\* esp_intr_free has not removed: nothing, the one handler that does not share,
\* or the routine that walks the list of those that do.
THEOREM IntrMatched ==
    ASSUME Intr!IntrAssumption, IntrPinned, IntrZeroTold
    PROVE  Intr!Spec => []Intr!HandlersMatch
BY IntrInvariance, IntrInvMatch, PTL

\* A source is routed to the vector of its handlers while one of them is enabled,
\* and to none when all are disabled, whoever else is allocated, disabled, moved
\* or freed (esp_intr_enable, esp_intr_disable, esp_intr_free).
THEOREM IntrRouted ==
    ASSUME Intr!IntrAssumption, IntrPinned, IntrZeroTold
    PROVE  Intr!Spec => []Intr!Routing
<1>1. IntrInv => Intr!Routing
  BY DEF IntrInv
<1> QED
  BY <1>1, IntrInvariance, PTL

\* Between esp_intr_noniram_disable and esp_intr_noniram_enable the vectors in
\* use that are enabled are those whose handlers are in IRAM, and afterwards all
\* are again, although handlers come and go in between on the other core.
THEOREM IntrCacheOff ==
    ASSUME Intr!IntrAssumption, IntrPinned, IntrZeroTold
    PROVE  Intr!Spec => []Intr!CacheOffSafe
BY IntrInvariance, IntrInvCacheOff, PTL

\* shared_intr_isr never starts from an entry that esp_intr_free has freed.
THEOREM IntrNoneFreed ==
    ASSUME Intr!IntrAssumption, IntrPinned, IntrZeroTold
    PROVE  Intr!Spec => []Intr!NoFreedHandler
<1>1. IntrInv => Intr!NoFreedHandler
  BY DEF IntrInv
<1> QED
  BY <1>1, IntrInvariance, PTL

\* The descriptors, handles, routes and masks keep their types.
THEOREM IntrTyped ==
    ASSUME Intr!IntrAssumption, IntrPinned, IntrZeroTold
    PROVE  Intr!Spec => []Intr!TypeOK
<1>1. IntrInv => Intr!TypeOK
  BY DEF IntrInv
<1> QED
  BY <1>1, IntrInvariance, PTL

-----------------------------------------------------------------------------
\* No handler is deregistered by itself, nor shares a bit with one of the other
\* kind of memory: what either does is in the README.
RtcUnmixed == Liberties \cap {"running", "mixed"} = {}

\* The handlers that share a bit are in one kind of memory; the bits of those in
\* flash are not among the cached ones; and a walk of the list has before it what
\* was read and comes after the handler it has called.
RtcInv ==
    /\ Rtc!TypeOK
    /\ \A g, h \in Rtc!Range(list) :
          Mask[g] \cap Mask[h] # {} => (g \in iram <=> h \in iram)
    /\ \A h \in Rtc!Range(list) \ iram : Mask[h] \cap cache = {}
    /\ it = None => due = {} /\ status = {}
    /\ it # None => Mask[it] \cap status # {}
    /\ rtcAsleep => ena \subseteq cache /\ status \subseteq cache
    /\ Rtc!WalkComplete

\* The order of a list without duplicates.
LEMMA RtcOrder ==
    ASSUME Rtc!TypeOK
    PROVE  /\ \A g, h : Rtc!Before(g, h) => ~Rtc!Before(h, g) /\ g # h
           /\ \A f, g, h : Rtc!Before(f, g) /\ Rtc!Before(g, h) => Rtc!Before(f, h)
           /\ \A g, h : Rtc!Before(g, h) => g \in Rtc!Range(list) /\ h \in Rtc!Range(list)
<1>1. DOMAIN list \subseteq Int
  BY DEF Rtc!TypeOK
<1>2. \A m, n \in DOMAIN list : list[m] = list[n] => m = n
  BY DEF Rtc!TypeOK, Rtc!IsInjective
<1>3. \A g, h : Rtc!Before(g, h) => ~Rtc!Before(h, g) /\ g # h
  BY <1>1, <1>2 DEF Rtc!Before
<1>4. \A f, g, h : Rtc!Before(f, g) /\ Rtc!Before(g, h) => Rtc!Before(f, h)
  BY <1>1, <1>2 DEF Rtc!Before
<1>5. \A g, h : Rtc!Before(g, h) => g \in Rtc!Range(list) /\ h \in Rtc!Range(list)
  BY DEF Rtc!Before, Rtc!Range
<1> QED
  BY <1>3, <1>4, <1>5

\* A handler that is inserted at the head.
LEMMA RtcInserted ==
    ASSUME Rtc!TypeOK, NEW h \in Handlers, h \notin Rtc!Range(list),
           list' = <<h>> \o list
    PROVE  /\ list' \in Seq(Handlers) /\ Rtc!IsInjective(list')
           /\ Rtc!Range(list') = Rtc!Range(list) \cup {h}
           /\ \A f, g \in Rtc!Range(list) : Rtc!Before(f, g)' <=> Rtc!Before(f, g)
           /\ \A g : ~Rtc!Before(g, h)'
<1>1. /\ list' \in Seq(Handlers) /\ Len(list') = Len(list) + 1
      /\ Len(list) \in Nat /\ DOMAIN list = 1 .. Len(list)
      /\ DOMAIN list' = 1 .. Len(list) + 1
      /\ \A n \in 1 .. Len(list) + 1 :
            list'[n] = IF n = 1 THEN h ELSE list[n - 1]
  BY DEF Rtc!TypeOK
<1>2. \A n \in DOMAIN list : list[n] # h /\ list[n] \in Rtc!Range(list)
  BY DEF Rtc!Range
<1>3. \A m, n \in DOMAIN list : list[m] = list[n] => m = n
  BY DEF Rtc!TypeOK, Rtc!IsInjective
<1>4. Rtc!IsInjective(list')
  <2> SUFFICES ASSUME NEW m \in DOMAIN list', NEW n \in DOMAIN list',
                      list'[m] = list'[n]
               PROVE  m = n
    BY DEF Rtc!IsInjective
  <2>1. CASE m = 1 \/ n = 1
    BY <2>1, <1>1, <1>2
  <2>2. CASE m # 1 /\ n # 1
    <3>1. m - 1 \in DOMAIN list /\ n - 1 \in DOMAIN list
      BY <2>2, <1>1
    <3>2. list[m - 1] = list[n - 1]
      BY <2>2, <1>1
    <3>3. m - 1 = n - 1
      BY <3>1, <3>2, <1>3
    <3> QED
      BY <3>3, <1>1
  <2> QED
    BY <2>1, <2>2
<1>5. Rtc!Range(list') = Rtc!Range(list) \cup {h}
  <2>1. \A n \in DOMAIN list' : list'[n] \in Rtc!Range(list) \cup {h}
    BY <1>1, <1>2
  <2>2. \A n \in DOMAIN list : n + 1 \in DOMAIN list' /\ list'[n + 1] = list[n]
    BY <1>1
  <2>3. 1 \in DOMAIN list' /\ list'[1] = h
    BY <1>1
  <2>4. Rtc!Range(list') \subseteq Rtc!Range(list) \cup {h}
    BY <2>1 DEF Rtc!Range
  <2>5. Rtc!Range(list) \cup {h} \subseteq Rtc!Range(list')
    <3>1. ASSUME NEW x \in Rtc!Range(list) PROVE x \in Rtc!Range(list')
      <4>1. PICK n \in DOMAIN list : list[n] = x
        BY DEF Rtc!Range
      <4>2. n + 1 \in DOMAIN list' /\ list'[n + 1] = x
        BY <4>1, <2>2
      <4> QED
        BY <4>2 DEF Rtc!Range
    <3>2. h \in Rtc!Range(list')
      BY <2>3 DEF Rtc!Range
    <3> QED
      BY <3>1, <3>2
  <2> QED
    BY <2>4, <2>5
<1>6. ASSUME NEW f \in Rtc!Range(list), NEW g \in Rtc!Range(list)
      PROVE  Rtc!Before(f, g)' <=> Rtc!Before(f, g)
  <2>1. ASSUME Rtc!Before(f, g)' PROVE Rtc!Before(f, g)
    <3>1. PICK m \in DOMAIN list', n \in DOMAIN list' :
             m < n /\ list'[m] = f /\ list'[n] = g
      BY <2>1 DEF Rtc!Before
    <3>2. m # 1 /\ n # 1
      BY <3>1, <1>1, <1>2
    <3>3. /\ m - 1 \in DOMAIN list /\ n - 1 \in DOMAIN list /\ m - 1 < n - 1
          /\ list[m - 1] = f /\ list[n - 1] = g
      BY <3>1, <3>2, <1>1
    <3> QED
      BY <3>3 DEF Rtc!Before
  <2>2. ASSUME Rtc!Before(f, g) PROVE Rtc!Before(f, g)'
    <3>1. PICK m \in DOMAIN list, n \in DOMAIN list :
             m < n /\ list[m] = f /\ list[n] = g
      BY <2>2 DEF Rtc!Before
    <3>2. /\ m + 1 \in DOMAIN list' /\ n + 1 \in DOMAIN list' /\ m + 1 < n + 1
          /\ list'[m + 1] = f /\ list'[n + 1] = g
      BY <3>1, <1>1
    <3> QED
      BY <3>2 DEF Rtc!Before
  <2> QED
    BY <2>1, <2>2
<1>7. ASSUME NEW g, Rtc!Before(g, h)' PROVE FALSE
  <2>1. PICK m \in DOMAIN list', n \in DOMAIN list' :
           m < n /\ list'[m] = g /\ list'[n] = h
    BY <1>7 DEF Rtc!Before
  <2>2. n # 1 /\ n - 1 \in DOMAIN list /\ list[n - 1] = h
    BY <2>1, <1>1
  <2> QED
    BY <2>2, <1>2
<1> QED
  BY <1>1, <1>4, <1>5, <1>6, <1>7

\* A handler that is removed.
LEMMA RtcRemoved ==
    ASSUME Rtc!TypeOK, NEW i \in DOMAIN list, NEW h, list[i] = h,
           list' = Rtc!RemoveAt(list, i)
    PROVE  /\ list' \in Seq(Handlers) /\ Rtc!IsInjective(list')
           /\ Rtc!Range(list') = Rtc!Range(list) \ {h}
           /\ \A f, g \in Rtc!Range(list) \ {h} : Rtc!Before(f, g)' <=> Rtc!Before(f, g)
<1>0. /\ Len(list) \in Nat /\ DOMAIN list = 1 .. Len(list) /\ i \in Int
      /\ \A n \in DOMAIN list : list[n] \in Handlers
  BY DEF Rtc!TypeOK
<1>1. /\ list' \in Seq(Handlers) /\ Len(list') = Len(list) - 1
      /\ DOMAIN list' = 1 .. Len(list) - 1
      /\ \A n \in 1 .. Len(list) - 1 :
            list'[n] = IF n < i THEN list[n] ELSE list[n + 1]
  <2> DEFINE a == SubSeq(list, 1, i - 1)
             b == SubSeq(list, i + 1, Len(list))
  <2>1. /\ a \in Seq(Handlers) /\ Len(a) = i - 1
        /\ \A n \in 1 .. i - 1 : a[n] = list[n]
    BY <1>0 DEF Rtc!TypeOK
  <2>2. /\ b \in Seq(Handlers) /\ Len(b) = Len(list) - i
        /\ \A n \in 1 .. Len(list) - i : b[n] = list[n + i]
    BY <1>0 DEF Rtc!TypeOK
  <2>3. list' = a \o b
    BY DEF Rtc!RemoveAt
  <2> HIDE DEF a, b
  <2>4. list' \in Seq(Handlers) /\ Len(list') = Len(list) - 1
    <3>0. a \in Seq(Handlers) /\ b \in Seq(Handlers)
      BY <2>1, <2>2
    <3>1. a \o b \in Seq(Handlers) /\ Len(a \o b) = Len(a) + Len(b)
      BY <3>0
    <3>2. (i - 1) + (Len(list) - i) = Len(list) - 1
      BY <1>0
    <3> QED
      BY <3>1, <3>2, <2>1, <2>2, <2>3
  <2>5. ASSUME NEW n \in 1 .. Len(list) - 1
        PROVE  list'[n] = IF n < i THEN list[n] ELSE list[n + 1]
    <3>1. CASE n < i
      <4>1. list'[n] = a[n] /\ n \in 1 .. i - 1
        BY <3>1, <2>1, <2>2, <2>3, <1>0
      <4> QED
        BY <4>1, <2>1, <3>1
    <3>2. CASE ~(n < i)
      <4>1. list'[n] = b[n - (i - 1)] /\ n - (i - 1) \in 1 .. Len(list) - i
        BY <3>2, <2>1, <2>2, <2>3, <1>0
      <4>2. (n - (i - 1)) + i = n + 1
        BY <1>0
      <4> QED
        BY <4>1, <4>2, <2>2, <3>2
    <3> QED
      BY <3>1, <3>2
  <2> QED
    BY <2>4, <2>5, <1>0
<1>3. \A m, n \in DOMAIN list : list[m] = list[n] => m = n
  BY DEF Rtc!TypeOK, Rtc!IsInjective
<1>4. ASSUME NEW m \in DOMAIN list'
      PROVE  \E k \in DOMAIN list :
                /\ k # i /\ k = (IF m < i THEN m ELSE m + 1)
                /\ list'[m] = list[k]
  BY <1>0, <1>1
<1>5. ASSUME NEW k \in DOMAIN list, k # i
      PROVE  \E m \in DOMAIN list' :
                k = (IF m < i THEN m ELSE m + 1) /\ list'[m] = list[k]
  <2>1. CASE k < i
    <3>1. k \in DOMAIN list' /\ list'[k] = list[k]
      BY <2>1, <1>0, <1>1
    <3> QED
      BY <3>1, <2>1
  <2>2. CASE ~(k < i)
    <3>1. /\ k - 1 \in DOMAIN list' /\ ~(k - 1 < i)
          /\ (k - 1) + 1 = k /\ list'[k - 1] = list[k]
      BY <2>2, <1>0, <1>1, <1>5
    <3> QED
      BY <3>1
  <2> QED
    BY <2>1, <2>2
<1>6. Rtc!IsInjective(list')
  <2> SUFFICES ASSUME NEW m \in DOMAIN list', NEW n \in DOMAIN list',
                      list'[m] = list'[n]
               PROVE  m = n
    BY DEF Rtc!IsInjective
  <2>1. PICK j \in DOMAIN list : j = (IF m < i THEN m ELSE m + 1)
                                 /\ list'[m] = list[j]
    BY <1>4
  <2>2. PICK k \in DOMAIN list : k = (IF n < i THEN n ELSE n + 1)
                                 /\ list'[n] = list[k]
    BY <1>4
  <2>3. j = k
    BY <2>1, <2>2, <1>3
  <2>4. m \in Int /\ n \in Int
    BY <1>1, <1>0
  <2> QED
    BY <2>1, <2>2, <2>3, <2>4, <1>0
<1>7. Rtc!Range(list') = Rtc!Range(list) \ {h}
  <2>1. \A x \in Rtc!Range(list') : x \in Rtc!Range(list) \ {h}
    BY <1>4, <1>3 DEF Rtc!Range
  <2>2. \A x \in Rtc!Range(list) \ {h} : x \in Rtc!Range(list')
    BY <1>5 DEF Rtc!Range
  <2> QED
    BY <2>1, <2>2
<1>8. ASSUME NEW f \in Rtc!Range(list) \ {h}, NEW g \in Rtc!Range(list) \ {h}
      PROVE  Rtc!Before(f, g)' <=> Rtc!Before(f, g)
  <2>1. ASSUME Rtc!Before(f, g)' PROVE Rtc!Before(f, g)
    <3>1. PICK m \in DOMAIN list', n \in DOMAIN list' :
             m < n /\ list'[m] = f /\ list'[n] = g
      BY <2>1 DEF Rtc!Before
    <3>2. PICK j \in DOMAIN list : j = (IF m < i THEN m ELSE m + 1)
                                   /\ list'[m] = list[j]
      BY <1>4
    <3>3. PICK k \in DOMAIN list : k = (IF n < i THEN n ELSE n + 1)
                                   /\ list'[n] = list[k]
      BY <1>4
    <3>4. m \in Int /\ n \in Int
      BY <1>1, <1>0
    <3>5. j < k
      BY <3>1, <3>2, <3>3, <3>4, <1>0
    <3> QED
      BY <3>1, <3>2, <3>3, <3>5 DEF Rtc!Before
  <2>2. ASSUME Rtc!Before(f, g) PROVE Rtc!Before(f, g)'
    <3>1. PICK j \in DOMAIN list, k \in DOMAIN list :
             j < k /\ list[j] = f /\ list[k] = g
      BY <2>2 DEF Rtc!Before
    <3>2. j # i /\ k # i
      BY <3>1
    <3>3. PICK m \in DOMAIN list' : j = (IF m < i THEN m ELSE m + 1)
                                    /\ list'[m] = list[j]
      BY <3>2, <1>5
    <3>4. PICK n \in DOMAIN list' : k = (IF n < i THEN n ELSE n + 1)
                                    /\ list'[n] = list[k]
      BY <3>2, <1>5
    <3>5. m \in Int /\ n \in Int
      BY <1>1, <1>0
    <3>6. m < n
      BY <3>1, <3>3, <3>4, <3>5, <1>0
    <3> QED
      BY <3>1, <3>3, <3>4, <3>6 DEF Rtc!Before
  <2> QED
    BY <2>1, <2>2
<1> QED
  BY <1>1, <1>6, <1>7, <1>8

\* The routine goes on to the first of the handlers that match.
LEMMA RtcCallFirstIs ==
    ASSUME Rtc!TypeOK, NEW handlers \in SUBSET Rtc!Range(list),
           NEW bits \in SUBSET Bits,
           None \notin Handlers, Rtc!CallFirst(handlers, bits), list' = list,
           \A g, h : Rtc!Before(g, h) /\ g \in handlers => h \in handlers
    PROVE  /\ it' \in Handlers \cup {None}
           /\ status' \subseteq Bits
           /\ it' = None => due' = {} /\ status' = {}
           /\ it' # None => /\ it' \in handlers
                            /\ status' = bits
                            /\ Mask[it'] \cap status' # {}
                            /\ due' = Rtc!Matching(Rtc!Behind(it), status)'
<1>0. Rtc!Range(list) \subseteq Handlers
  BY DEF Rtc!TypeOK, Rtc!Range
<1>1. CASE Rtc!Matching(handlers, bits) = {}
  BY <1>1 DEF Rtc!CallFirst
<1>2. CASE Rtc!Matching(handlers, bits) # {}
  <2>1. PICK h \in Rtc!Matching(handlers, bits) :
           /\ \A g \in Rtc!Matching(handlers, bits) \ {h} : Rtc!Before(h, g)
           /\ it' = h /\ status' = bits
           /\ due' = Rtc!Matching(handlers, bits) \ {h}
    BY <1>2 DEF Rtc!CallFirst
  <2>2. h \in handlers /\ h \in Handlers /\ Mask[h] \cap bits # {}
    BY <2>1, <1>0 DEF Rtc!Matching
  <2>3. Rtc!Matching(Rtc!Behind(it), status)'
           = {g \in Rtc!Range(list) : Rtc!Before(h, g) /\ Mask[g] \cap bits # {}}
    BY <2>1 DEF Rtc!Matching, Rtc!Behind, Rtc!Before
  <2>4. \A g : g \in Rtc!Matching(handlers, bits) \ {h}
                  <=> /\ g \in Rtc!Range(list)
                      /\ Rtc!Before(h, g) /\ Mask[g] \cap bits # {}
    BY <2>1, <2>2, RtcOrder DEF Rtc!Matching
  <2> QED
    BY <2>1, <2>2, <2>3, <2>4
<1> QED
  BY <1>1, <1>2

\* The list is of handlers.
LEMMA RtcListed == Rtc!TypeOK => Rtc!Range(list) \subseteq Handlers
BY DEF Rtc!TypeOK, Rtc!Range

\* Each action preserves the invariant.
LEMMA RtcInitInv == Rtc!Init => RtcInv
<1> SUFFICES ASSUME Rtc!Init PROVE RtcInv
  OBVIOUS
<1>1. Rtc!Range(list) = {}
  BY DEF Rtc!Init, Rtc!Range
<1>2. Rtc!TypeOK
  <2>1. list \in Seq(Handlers) /\ Rtc!IsInjective(list)
    BY DEF Rtc!Init, Rtc!IsInjective
  <2>2. {cache, ena, raw, rtcSaved, status} \subseteq SUBSET Bits
    BY DEF Rtc!Init
  <2>3. iram \subseteq Rtc!Range(list) /\ rtcAsleep \in BOOLEAN
        /\ it \in Handlers \cup {None}
    BY DEF Rtc!Init
  <2> QED
    BY <2>1, <2>2, <2>3 DEF Rtc!TypeOK
<1> QED
  BY <1>1, <1>2 DEF Rtc!Init, RtcInv, Rtc!WalkComplete

LEMMA RtcRegisterInv ==
    ASSUME Rtc!RtcAssumption, RtcUnmixed, RtcInv, NEW h \in Handlers,
           NEW flash \in BOOLEAN,
           Rtc!Register(h, flash)
    PROVE  RtcInv'
<1>1. /\ list' \in Seq(Handlers) /\ Rtc!IsInjective(list')
      /\ Rtc!Range(list') = Rtc!Range(list) \cup {h}
      /\ \A f, g \in Rtc!Range(list) : Rtc!Before(f, g)' <=> Rtc!Before(f, g)
      /\ \A g : ~Rtc!Before(g, h)'
      /\ h \notin Rtc!Range(list)
  BY RtcInserted DEF RtcInv, Rtc!Register
<1>2. Mask[h] \subseteq Bits
  BY DEF Rtc!RtcAssumption
<1>3. \A g \in Rtc!Range(list) : Mask[g] \cap Mask[h] # {} => (g \in iram <=> ~flash)
  BY DEF Rtc!Register, RtcUnmixed
<1>4. /\ flash => cache' = cache \ Mask[h] /\ iram' = iram \ {h}
      /\ ~flash => cache' = cache \cup Mask[h] /\ iram' = iram \cup {h}
  BY DEF Rtc!Register
<1>5. Rtc!TypeOK'
  BY <1>1, <1>2, <1>4 DEF RtcInv, Rtc!TypeOK, Rtc!Register
<1>6. iram \subseteq Rtc!Range(list) /\ h \notin iram
  BY <1>1 DEF RtcInv, Rtc!TypeOK
<1>7. /\ h \in iram' <=> ~flash
      /\ \A g \in Rtc!Range(list) : g \in iram' <=> g \in iram
  BY <1>1, <1>4, <1>6
<1>8. \A f, g \in Rtc!Range(list)' :
         Mask[f] \cap Mask[g] # {} => (f \in iram' <=> g \in iram')
  <2>1. \A f, g \in Rtc!Range(list) :
           Mask[f] \cap Mask[g] # {} => (f \in iram <=> g \in iram)
    BY DEF RtcInv
  <2> QED
    BY <2>1, <1>1, <1>3, <1>7
<1>9. \A g \in Rtc!Range(list)' \ iram' : Mask[g] \cap cache' = {}
  <2>1. \A g \in Rtc!Range(list) \ iram : Mask[g] \cap cache = {}
    BY DEF RtcInv
  <2>2. CASE flash
    BY <2>1, <2>2, <1>1, <1>4, <1>7
  <2>3. CASE ~flash
    BY <2>1, <2>3, <1>1, <1>3, <1>4, <1>7
  <2> QED
    BY <2>2, <2>3
<1>10. Rtc!WalkComplete'
  <2> SUFFICES ASSUME it # None
               PROVE  it \in Rtc!Range(list)' /\ due = Rtc!Matching(Rtc!Behind(it), status)'
    BY DEF Rtc!WalkComplete, Rtc!Register
  <2>1. it \in Rtc!Range(list) /\ due = Rtc!Matching(Rtc!Behind(it), status)
    BY DEF RtcInv, Rtc!WalkComplete
  <2>2. Rtc!Behind(it)' = Rtc!Behind(it)
    BY <2>1, <1>1, RtcOrder DEF Rtc!Behind, Rtc!Register
  <2>3. status' = status
    BY DEF Rtc!Register
  <2> QED
    BY <2>1, <2>2, <2>3, <1>1 DEF Rtc!Matching
<1> QED
  BY <1>5, <1>8, <1>9, <1>10 DEF RtcInv, Rtc!Register

LEMMA RtcDeregisterInv ==
    ASSUME Rtc!RtcAssumption, RtcUnmixed, RtcInv, NEW h \in Handlers,
           Rtc!Deregister(h)
    PROVE  RtcInv'
<1>0. PICK i \in DOMAIN list : list[i] = h /\ list' = Rtc!RemoveAt(list, i)
  BY DEF Rtc!Deregister
<1>1. /\ list' \in Seq(Handlers) /\ Rtc!IsInjective(list')
      /\ Rtc!Range(list') = Rtc!Range(list) \ {h}
      /\ \A f, g \in Rtc!Range(list) \ {h} : Rtc!Before(f, g)' <=> Rtc!Before(f, g)
  BY <1>0, RtcRemoved DEF RtcInv
<1>2. it # h /\ cache' \subseteq cache /\ iram' = iram \ {h}
  BY DEF Rtc!Deregister, RtcUnmixed
<1>3. Rtc!TypeOK'
  BY <1>1, <1>2 DEF RtcInv, Rtc!TypeOK, Rtc!Deregister
<1>4. Rtc!WalkComplete'
  <2> SUFFICES ASSUME it # None
               PROVE  it \in Rtc!Range(list)' /\ due' = Rtc!Matching(Rtc!Behind(it), status)'
    BY DEF Rtc!WalkComplete, Rtc!Deregister
  <2>1. it \in Rtc!Range(list) /\ due = Rtc!Matching(Rtc!Behind(it), status)
    BY DEF RtcInv, Rtc!WalkComplete
  <2>2. Rtc!Behind(it)' = Rtc!Behind(it) \ {h}
    BY <2>1, <1>1, <1>2, RtcOrder DEF Rtc!Behind, Rtc!Deregister
  <2>3. status' = status /\ due' = due \ {h}
    BY DEF Rtc!Deregister
  <2> QED
    BY <2>1, <2>2, <2>3, <1>1, <1>2 DEF Rtc!Matching
<1>5. \A f, g \in Rtc!Range(list)' :
         Mask[f] \cap Mask[g] # {} => (f \in iram' <=> g \in iram')
  BY <1>1, <1>2 DEF RtcInv
<1>6. \A g \in Rtc!Range(list)' \ iram' : Mask[g] \cap cache' = {}
  BY <1>1, <1>2 DEF RtcInv
<1> QED
  BY <1>3, <1>4, <1>5, <1>6 DEF RtcInv, Rtc!Deregister

LEMMA RtcSetEnabledInv ==
    ASSUME RtcInv, NEW b \in Bits, Rtc!SetEnabled(b)
    PROVE  RtcInv'
<1>1. Rtc!TypeOK' /\ Rtc!WalkComplete'
  BY DEF RtcInv, Rtc!TypeOK, Rtc!SetEnabled, Rtc!WalkComplete, Rtc!Matching,
         Rtc!Behind, Rtc!Before
<1> QED
  BY <1>1 DEF RtcInv, Rtc!SetEnabled

LEMMA RtcHappenInv ==
    ASSUME RtcInv, NEW b \in Bits, Rtc!Happen(b)
    PROVE  RtcInv'
<1>1. Rtc!TypeOK' /\ Rtc!WalkComplete'
  BY DEF RtcInv, Rtc!TypeOK, Rtc!Happen, Rtc!WalkComplete, Rtc!Matching,
         Rtc!Behind, Rtc!Before
<1> QED
  BY <1>1 DEF RtcInv, Rtc!Happen

LEMMA RtcIsrEnterInv ==
    ASSUME Rtc!RtcAssumption, RtcInv, Rtc!IsrEnter
    PROVE  RtcInv'
<1> DEFINE bits == ena \cap raw
<1>0. bits \subseteq Bits /\ Rtc!TypeOK /\ list' = list
  BY DEF RtcInv, Rtc!TypeOK, Rtc!IsrEnter
<1>1. /\ it' \in Handlers \cup {None}
      /\ status' \subseteq Bits
      /\ it' = None => due' = {} /\ status' = {}
      /\ it' # None => /\ it' \in Rtc!Range(list)
                       /\ status' = bits
                       /\ Mask[it'] \cap status' # {}
                       /\ due' = Rtc!Matching(Rtc!Behind(it), status)'
  BY <1>0, RtcOrder, RtcCallFirstIs DEF Rtc!IsrEnter, Rtc!RtcAssumption
<1>2. raw' \subseteq Bits
  BY <1>0 DEF Rtc!IsrEnter, Rtc!CallFirst, Rtc!TypeOK
<1>3. Rtc!TypeOK'
  BY <1>1, <1>2 DEF RtcInv, Rtc!TypeOK, Rtc!IsrEnter
<1>4. Rtc!WalkComplete'
  BY <1>0, <1>1 DEF Rtc!WalkComplete
<1>5. rtcAsleep => status' \subseteq cache
  BY <1>1 DEF RtcInv
<1> QED
  BY <1>1, <1>3, <1>4, <1>5 DEF RtcInv, Rtc!IsrEnter

LEMMA RtcIsrNextInv ==
    ASSUME Rtc!RtcAssumption, RtcInv, Rtc!IsrNext
    PROVE  RtcInv'
<1>0. /\ status \subseteq Bits /\ Rtc!TypeOK /\ list' = list
      /\ Rtc!Behind(it) \subseteq Rtc!Range(list)
  BY DEF RtcInv, Rtc!TypeOK, Rtc!IsrNext, Rtc!Behind
<1>1. \A g, h : Rtc!Before(g, h) /\ g \in Rtc!Behind(it) => h \in Rtc!Behind(it)
  BY <1>0, RtcOrder DEF Rtc!Behind
<1>2. /\ it' \in Handlers \cup {None}
      /\ status' \subseteq Bits
      /\ it' = None => due' = {} /\ status' = {}
      /\ it' # None => /\ it' \in Rtc!Behind(it)
                       /\ status' = status
                       /\ Mask[it'] \cap status' # {}
                       /\ due' = Rtc!Matching(Rtc!Behind(it), status)'
  <2> PICK behind : behind = Rtc!Behind(it)
    OBVIOUS
  <2>1. Rtc!CallFirst(behind, status)
    BY DEF Rtc!IsrNext
  <2> QED
    BY <2>1, <1>0, <1>1, RtcCallFirstIs DEF Rtc!RtcAssumption
<1>3. raw' \subseteq Bits
  BY <1>0 DEF Rtc!IsrNext, Rtc!CallFirst, Rtc!TypeOK
<1>4. Rtc!TypeOK'
  BY <1>2, <1>3 DEF RtcInv, Rtc!TypeOK, Rtc!IsrNext
<1>5. Rtc!WalkComplete'
  BY <1>0, <1>2 DEF Rtc!WalkComplete
<1>6. rtcAsleep => status' \subseteq cache
  BY <1>2 DEF RtcInv
<1> QED
  BY <1>2, <1>4, <1>5, <1>6 DEF RtcInv, Rtc!IsrNext

LEMMA RtcNonIramDisableInv ==
    ASSUME RtcInv, Rtc!NonIramDisable
    PROVE  RtcInv'
<1>1. Rtc!TypeOK' /\ Rtc!WalkComplete'
  BY DEF RtcInv, Rtc!TypeOK, Rtc!NonIramDisable, Rtc!EnabledInIram,
         Rtc!WalkComplete
<1> QED
  BY <1>1 DEF RtcInv, Rtc!NonIramDisable, Rtc!EnabledInIram

LEMMA RtcNonIramEnableInv ==
    ASSUME RtcInv, Rtc!NonIramEnable
    PROVE  RtcInv'
<1>1. Rtc!TypeOK' /\ Rtc!WalkComplete'
  BY DEF RtcInv, Rtc!TypeOK, Rtc!NonIramEnable, Rtc!WalkComplete
<1> QED
  BY <1>1 DEF RtcInv, Rtc!NonIramEnable

\* The invariant holds throughout.
LEMMA RtcInvariance ==
    ASSUME Rtc!RtcAssumption, RtcUnmixed
    PROVE  Rtc!Spec => []RtcInv
<1>1. Rtc!Init => RtcInv
  BY RtcInitInv
<1>2. RtcInv /\ [Rtc!Next]_(Rtc!vars) => RtcInv'
  <2>1. RtcInv /\ UNCHANGED Rtc!vars => RtcInv'
    BY DEF Rtc!vars, RtcInv, Rtc!TypeOK, Rtc!WalkComplete, Rtc!Matching,
           Rtc!Behind, Rtc!Before
  <2> QED
    BY <2>1, RtcRegisterInv, RtcDeregisterInv, RtcSetEnabledInv,
       RtcHappenInv, RtcIsrEnterInv, RtcIsrNextInv, RtcNonIramDisableInv,
       RtcNonIramEnableInv DEF Rtc!Next
<1> QED
  BY <1>1, <1>2, PTL DEF Rtc!Spec

\* rtc_isr calls each handler of the bits it has read that stays registered, in
\* the order of the list, though others are registered and removed meanwhile.
THEOREM RtcWalked ==
    ASSUME Rtc!RtcAssumption, RtcUnmixed
    PROVE  Rtc!Spec => []Rtc!WalkComplete
<1>1. RtcInv => Rtc!WalkComplete
  BY DEF RtcInv
<1> QED
  BY <1>1, RtcInvariance, PTL

\* While the cache is off, rtc_isr calls handlers in IRAM only, and no bit of
\* another is enabled (rtc_isr_noniram_disable).
THEOREM RtcCacheOff ==
    ASSUME Rtc!RtcAssumption, RtcUnmixed
    PROVE  Rtc!Spec => []Rtc!CacheOffSafe
<1>1. RtcInv => Rtc!CacheOffSafe
  <2> SUFFICES ASSUME RtcInv, rtcAsleep
               PROVE  /\ it # None => it \in iram
                      /\ \A h \in Rtc!Range(list) :
                            Mask[h] \cap ena # {} => h \in iram
    BY DEF Rtc!CacheOffSafe
  <2>1. \A h \in Rtc!Range(list) : Mask[h] \cap cache # {} => h \in iram
    BY DEF RtcInv
  <2>2. ena \subseteq cache /\ status \subseteq cache
    BY DEF RtcInv
  <2>3. it # None => it \in Rtc!Range(list) /\ Mask[it] \cap status # {}
    BY DEF RtcInv, Rtc!WalkComplete
  <2> QED
    BY <2>1, <2>2, <2>3
<1> QED
  BY <1>1, RtcInvariance, PTL

\* The list of the handlers has none twice, and the registers keep their types.
THEOREM RtcTyped ==
    ASSUME Rtc!RtcAssumption, RtcUnmixed
    PROVE  Rtc!Spec => []Rtc!TypeOK
<1>1. RtcInv => Rtc!TypeOK
  BY DEF RtcInv
<1> QED
  BY <1>1, RtcInvariance, PTL

-----------------------------------------------------------------------------
\* esp_ipc_isr_stall_pause is not called while the other core is in a function of
\* the module: under "pause" it is, and then the core is neither stalled nor let go.
IpcUnpaused == "pause" \notin Liberties

\* A core that holds s_ipc_isr_mux: in a call, or with stalls it has not released.
IpcHolds(c) ==
    \/ call[c].pc \in {"post", "wait", "unlock"}
    \/ call[c].pc = "out" /\ count[c] > 0

\* What a call is about: the first stall of a nest waits for the start of the wait
\* function, and other calls are made by a core that has stalled nobody.
IpcCalled(c) ==
    /\ call[c].pc = "out" => call[c] = Ipc!NoCall
    /\ call[c].pc \in {"lock", "post", "wait"} =>
          IF call[c].fn = Ipc!Wait THEN running /\ open[c] = 1 /\ call[c].until = "start"
          ELSE call[c].fn \in Functions /\ open[c] = 0
    /\ call[c].pc = "unlock" => call[c].fn # Ipc!Wait /\ open[c] = 0
    /\ call[c].pc = "unlock" /\ call[c].until = "end" => todo = None

\* The interrupt of a core is raised, or its handler has not executed the call.
IpcReady(c) == c \in raised \/ handler[c].pc \in {"begun", "started", "run"}

\* One core at a time is called, what it executes is what was asked for, and the
\* flags are as its handler has left them.
IpcServing(c) ==
    /\ c \in raised => handler[c].pc = "off"
    /\ handler[c].pc \notin {"run", "done"} => handler[c].fn = None
    /\ handler[c].pc = "run" => handler[c].fn = func
    /\ IpcReady(c) => todo = func
    /\ handler[c].pc = "done" => todo = None
    /\ IpcReady(c) => (startFl <=> handler[c].pc \in {"started", "run"})
    /\ c \in raised \/ handler[c].pc # "off" =>
          /\ ~endFl
          /\ Ipc!Other(c) \notin raised /\ handler[Ipc!Other(c)].pc = "off"

\* While a core has stalled the other, that one has started and not finished the
\* wait function: the finish command is not given, nor the function replaced.
IpcStalled(c) ==
    /\ call[c].fn = Ipc!Wait /\ call[c].pc \in {"post", "wait"} => ~finish
    /\ call[c].fn = Ipc!Wait /\ call[c].pc = "wait" => func = Ipc!Wait /\ IpcReady(Ipc!Other(c))
    /\ call[c].pc = "out" /\ count[c] > 0 =>
          /\ ~finish /\ func = Ipc!Wait
          /\ handler[Ipc!Other(c)].pc \in {"started", "run"}

\* The invariant: the owner of the mutex is the core with a call or a stall, and
\* the count of the nested stalls is what the core has not released.
IpcInv ==
    /\ Ipc!TypeOK
    /\ \A c \in Ipc!Cores :
          /\ count[c] = IF running THEN open[c] ELSE 0
          /\ mux = c <=> IpcHolds(c)
          /\ IpcCalled(c) /\ IpcServing(c) /\ IpcStalled(c)
    /\ endFl => todo = None

\* Every core is the one that takes a step or the other one.
LEMMA IpcTwoCores ==
    ASSUME NEW c \in Ipc!Cores
    PROVE  /\ Ipc!Other(c) \in Ipc!Cores /\ Ipc!Other(c) # c /\ Ipc!Other(Ipc!Other(c)) = c
           /\ \A d \in Ipc!Cores : d = c \/ d = Ipc!Other(c)
           /\ Ipc!Cores = {c, Ipc!Other(c)}
BY DEF Ipc!Cores, Ipc!Other

\* Each action preserves the invariant.
LEMMA IpcInitInv == ASSUME Ipc!IpcAssumption PROVE Ipc!Init => IpcInv
<1> SUFFICES ASSUME Ipc!IpcAssumption, Ipc!Init PROVE IpcInv
  OBVIOUS
<1>1. Ipc!TypeOK
  <2>1. Ipc!HandlerOff \in Ipc!Handler /\ Ipc!NoCall \in Ipc!Call
    BY DEF Ipc!HandlerOff, Ipc!Handler, Ipc!NoCall, Ipc!Call
  <2>2. 0 \in 0 .. MaxNest
    BY DEF Ipc!IpcAssumption
  <2> QED
    BY <2>1, <2>2 DEF Ipc!Init, Ipc!TypeOK
<1>2. ASSUME NEW c \in Ipc!Cores
      PROVE  /\ count[c] = IF running THEN open[c] ELSE 0
             /\ mux = c <=> IpcHolds(c)
             /\ IpcCalled(c) /\ IpcServing(c) /\ IpcStalled(c)
  BY IpcTwoCores
     DEF Ipc!IpcAssumption, Ipc!Init, Ipc!HandlerOff, Ipc!NoCall, IpcHolds,
         IpcCalled, IpcServing, IpcReady, IpcStalled
<1> QED
  BY <1>1, <1>2 DEF Ipc!Init, IpcInv

LEMMA IpcAsmCallInv ==
    ASSUME Ipc!IpcAssumption, IpcUnpaused, IpcInv, NEW c \in Ipc!Cores,
           Ipc!AsmCall(c)
    PROVE  IpcInv'
<1> USE IpcTwoCores DEF IpcInv, Ipc!IpcAssumption
<1>1. Ipc!TypeOK'
  BY DEF Ipc!TypeOK, Ipc!Handler, Ipc!HandlerOff, Ipc!Call, Ipc!NoCall,
         Ipc!AsmCall, Ipc!Out
<1>2. ASSUME NEW d \in Ipc!Cores
      PROVE  /\ count'[d] = IF running' THEN open'[d] ELSE 0
             /\ mux' = d <=> IpcHolds(d)'
             /\ IpcCalled(d)' /\ IpcServing(d)' /\ IpcStalled(d)'
  BY DEF Ipc!TypeOK, Ipc!Handler, Ipc!HandlerOff, Ipc!Call, Ipc!NoCall,
         Ipc!AsmCall, Ipc!Out, IpcHolds, IpcCalled, IpcServing, IpcReady,
         IpcStalled
<1>3. (endFl => todo = None)'
  BY DEF Ipc!TypeOK, Ipc!AsmCall, Ipc!Out, IpcServing, IpcReady, Ipc!HandlerOff
<1> QED
  BY <1>1, <1>2, <1>3

LEMMA IpcStallInv ==
    ASSUME Ipc!IpcAssumption, IpcUnpaused, IpcInv, NEW c \in Ipc!Cores,
           Ipc!Stall(c)
    PROVE  IpcInv'
<1> USE IpcTwoCores DEF IpcInv, Ipc!IpcAssumption
<1>1. Ipc!TypeOK'
  BY DEF Ipc!TypeOK, Ipc!Handler, Ipc!HandlerOff, Ipc!Call, Ipc!NoCall,
         Ipc!Stall, Ipc!Out
<1>2. ASSUME NEW d \in Ipc!Cores
      PROVE  /\ count'[d] = IF running' THEN open'[d] ELSE 0
             /\ mux' = d <=> IpcHolds(d)'
             /\ IpcCalled(d)' /\ IpcServing(d)' /\ IpcStalled(d)'
  BY DEF Ipc!TypeOK, Ipc!Handler, Ipc!HandlerOff, Ipc!Call, Ipc!NoCall,
         Ipc!Stall, Ipc!Out, IpcHolds, IpcCalled, IpcServing, IpcReady,
         IpcStalled
<1>3. (endFl => todo = None)'
  BY DEF Ipc!TypeOK, Ipc!Stall, Ipc!Out, IpcServing, IpcReady, Ipc!HandlerOff
<1> QED
  BY <1>1, <1>2, <1>3

LEMMA IpcLockInv ==
    ASSUME Ipc!IpcAssumption, IpcUnpaused, IpcInv, NEW c \in Ipc!Cores,
           Ipc!Lock(c)
    PROVE  IpcInv'
<1> USE IpcTwoCores DEF IpcInv, Ipc!IpcAssumption
<1>1. Ipc!TypeOK'
  <2>1. call' \in [Ipc!Cores -> Ipc!Call]
    BY DEF Ipc!TypeOK, Ipc!Call, Ipc!NoCall, Ipc!Lock, Ipc!At, Ipc!Looked
  <2>2. ASSUME NEW d \in Ipc!Cores
        PROVE  count'[d] \in 0 .. MaxNest /\ open'[d] \in 0 .. MaxNest
    BY DEF Ipc!TypeOK, Ipc!Lock, Ipc!At, Ipc!Looked
  <2>3. call[c].fn \in Functions \cup {Ipc!Wait, None}
    BY DEF Ipc!TypeOK, Ipc!Call
  <2> QED
    BY <2>1, <2>2, <2>3 DEF Ipc!TypeOK, Ipc!Lock, Ipc!At, Ipc!Looked
<1>2. ASSUME NEW d \in Ipc!Cores
      PROVE  /\ count'[d] = IF running' THEN open'[d] ELSE 0
             /\ mux' = d <=> IpcHolds(d)'
             /\ IpcCalled(d)' /\ IpcServing(d)' /\ IpcStalled(d)'
  BY DEF Ipc!TypeOK, Ipc!Handler, Ipc!HandlerOff, Ipc!Call, Ipc!NoCall,
         Ipc!Lock, Ipc!At, Ipc!Looked, IpcHolds, IpcCalled, IpcServing,
         IpcReady, IpcStalled
<1>3. (endFl => todo = None)'
  BY DEF Ipc!TypeOK, Ipc!Lock, Ipc!At, Ipc!Looked, IpcServing, IpcReady,
         Ipc!HandlerOff
<1> QED
  BY <1>1, <1>2, <1>3

LEMMA IpcPostInv ==
    ASSUME Ipc!IpcAssumption, IpcUnpaused, IpcInv, NEW c \in Ipc!Cores,
           Ipc!Post(c)
    PROVE  IpcInv'
<1> USE IpcTwoCores DEF IpcInv, Ipc!IpcAssumption
<1>1. Ipc!TypeOK'
  <2>1. call' \in [Ipc!Cores -> Ipc!Call]
    BY DEF Ipc!TypeOK, Ipc!Call, Ipc!NoCall, Ipc!Post, Ipc!At, Ipc!StartFlag
  <2>2. ASSUME NEW d \in Ipc!Cores
        PROVE  count'[d] \in 0 .. MaxNest /\ open'[d] \in 0 .. MaxNest
    BY DEF Ipc!TypeOK, Ipc!Post, Ipc!At, Ipc!StartFlag
  <2>3. call[c].fn \in Functions \cup {Ipc!Wait, None}
    BY DEF Ipc!TypeOK, Ipc!Call
  <2>4. raised' \subseteq Ipc!Cores
    BY DEF Ipc!TypeOK, Ipc!Post
  <2> QED
    BY <2>1, <2>2, <2>3, <2>4 DEF Ipc!TypeOK, Ipc!Post, Ipc!StartFlag
<1>2. ASSUME NEW d \in Ipc!Cores
      PROVE  /\ count'[d] = IF running' THEN open'[d] ELSE 0
             /\ mux' = d <=> IpcHolds(d)'
             /\ IpcCalled(d)' /\ IpcServing(d)' /\ IpcStalled(d)'
  BY DEF Ipc!TypeOK, Ipc!Handler, Ipc!HandlerOff, Ipc!Call, Ipc!NoCall,
         Ipc!Post, Ipc!At, Ipc!StartFlag, IpcHolds, IpcCalled, IpcServing,
         IpcReady, IpcStalled
<1>3. (endFl => todo = None)'
  BY DEF Ipc!TypeOK, Ipc!Post, Ipc!At, Ipc!StartFlag, IpcServing, IpcReady,
         Ipc!HandlerOff
<1> QED
  BY <1>1, <1>2, <1>3

LEMMA IpcWakeInv ==
    ASSUME Ipc!IpcAssumption, IpcUnpaused, IpcInv, NEW c \in Ipc!Cores,
           Ipc!Wake(c)
    PROVE  IpcInv'
<1> USE IpcTwoCores DEF IpcInv, Ipc!IpcAssumption
<1>1. Ipc!TypeOK'
  BY DEF Ipc!TypeOK, Ipc!Handler, Ipc!HandlerOff, Ipc!Call, Ipc!NoCall,
         Ipc!Wake, Ipc!At
<1>2. ASSUME NEW d \in Ipc!Cores
      PROVE  /\ count'[d] = IF running' THEN open'[d] ELSE 0
             /\ mux' = d <=> IpcHolds(d)'
             /\ IpcCalled(d)' /\ IpcServing(d)' /\ IpcStalled(d)'
  BY DEF Ipc!TypeOK, Ipc!Handler, Ipc!HandlerOff, Ipc!Call, Ipc!NoCall,
         Ipc!Wake, Ipc!At, IpcHolds, IpcCalled, IpcServing, IpcReady,
         IpcStalled
<1>3. (endFl => todo = None)'
  BY DEF Ipc!TypeOK, Ipc!Wake, Ipc!At, IpcServing, IpcReady, Ipc!HandlerOff
<1> QED
  BY <1>1, <1>2, <1>3

LEMMA IpcReleaseInv ==
    ASSUME Ipc!IpcAssumption, IpcUnpaused, IpcInv, NEW c \in Ipc!Cores,
           Ipc!Release(c)
    PROVE  IpcInv'
<1> USE IpcTwoCores DEF IpcInv, Ipc!IpcAssumption
<1>1. Ipc!TypeOK'
  <2>1. call' \in [Ipc!Cores -> Ipc!Call]
    BY DEF Ipc!TypeOK, Ipc!Call, Ipc!NoCall, Ipc!Release, Ipc!Out
  <2>2. ASSUME NEW d \in Ipc!Cores
        PROVE  count'[d] \in 0 .. MaxNest /\ open'[d] \in 0 .. MaxNest
    BY DEF Ipc!TypeOK, Ipc!Release, Ipc!Out
  <2>3. call[c].fn \in Functions \cup {Ipc!Wait, None}
    BY DEF Ipc!TypeOK, Ipc!Call
  <2>4. count' \in [Ipc!Cores -> 0 .. MaxNest] /\ open' \in [Ipc!Cores -> 0 .. MaxNest]
    BY <2>2 DEF Ipc!TypeOK, Ipc!Release
  <2> QED
    BY <2>1, <2>4 DEF Ipc!TypeOK, Ipc!Release
<1>2. ASSUME NEW d \in Ipc!Cores
      PROVE  /\ count'[d] = IF running' THEN open'[d] ELSE 0
             /\ mux' = d <=> IpcHolds(d)'
             /\ IpcCalled(d)' /\ IpcServing(d)' /\ IpcStalled(d)'
  BY DEF Ipc!TypeOK, Ipc!Handler, Ipc!HandlerOff, Ipc!Call, Ipc!NoCall,
         Ipc!Release, Ipc!Out, IpcHolds, IpcCalled, IpcServing, IpcReady,
         IpcStalled
<1>3. (endFl => todo = None)'
  BY DEF Ipc!TypeOK, Ipc!Release, Ipc!Out, IpcServing, IpcReady, Ipc!HandlerOff
<1> QED
  BY <1>1, <1>2, <1>3

LEMMA IpcUnlockInv ==
    ASSUME Ipc!IpcAssumption, IpcUnpaused, IpcInv, NEW c \in Ipc!Cores,
           Ipc!Unlock(c)
    PROVE  IpcInv'
<1> USE IpcTwoCores DEF IpcInv, Ipc!IpcAssumption
<1>1. Ipc!TypeOK'
  BY DEF Ipc!TypeOK, Ipc!Handler, Ipc!HandlerOff, Ipc!Call, Ipc!NoCall,
         Ipc!Unlock, Ipc!At
<1>2. ASSUME NEW d \in Ipc!Cores
      PROVE  /\ count'[d] = IF running' THEN open'[d] ELSE 0
             /\ mux' = d <=> IpcHolds(d)'
             /\ IpcCalled(d)' /\ IpcServing(d)' /\ IpcStalled(d)'
  BY DEF Ipc!TypeOK, Ipc!Handler, Ipc!HandlerOff, Ipc!Call, Ipc!NoCall,
         Ipc!Unlock, Ipc!At, IpcHolds, IpcCalled, IpcServing, IpcReady,
         IpcStalled
<1>3. (endFl => todo = None)'
  BY DEF Ipc!TypeOK, Ipc!Unlock, Ipc!At, IpcServing, IpcReady, Ipc!HandlerOff
<1> QED
  BY <1>1, <1>2, <1>3

LEMMA IpcSetRunningInv ==
    ASSUME Ipc!IpcAssumption, IpcUnpaused, IpcInv, NEW c \in Ipc!Cores,
           Ipc!SetRunning(c)
    PROVE  IpcInv'
<1> USE IpcTwoCores DEF IpcInv, Ipc!IpcAssumption
<1>1. Ipc!TypeOK'
  BY DEF Ipc!TypeOK, Ipc!Handler, Ipc!HandlerOff, Ipc!Call, Ipc!NoCall,
         Ipc!SetRunning, Ipc!Out, IpcUnpaused
<1>2. ASSUME NEW d \in Ipc!Cores
      PROVE  /\ count'[d] = IF running' THEN open'[d] ELSE 0
             /\ mux' = d <=> IpcHolds(d)'
             /\ IpcCalled(d)' /\ IpcServing(d)' /\ IpcStalled(d)'
  BY DEF Ipc!TypeOK, Ipc!Handler, Ipc!HandlerOff, Ipc!Call, Ipc!NoCall,
         Ipc!SetRunning, Ipc!Out, IpcUnpaused, IpcHolds, IpcCalled, IpcServing,
         IpcReady, IpcStalled
<1>3. (endFl => todo = None)'
  BY DEF Ipc!TypeOK, Ipc!SetRunning, Ipc!Out, IpcUnpaused, IpcServing,
         IpcReady, Ipc!HandlerOff
<1> QED
  BY <1>1, <1>2, <1>3

LEMMA IpcHandlerEnterInv ==
    ASSUME Ipc!IpcAssumption, IpcUnpaused, IpcInv, NEW c \in Ipc!Cores,
           Ipc!HandlerEnter(c)
    PROVE  IpcInv'
<1> USE IpcTwoCores DEF IpcInv, Ipc!IpcAssumption
<1>1. Ipc!TypeOK'
  BY DEF Ipc!TypeOK, Ipc!Handler, Ipc!HandlerOff, Ipc!Call, Ipc!NoCall,
         Ipc!HandlerEnter
<1>2. ASSUME NEW d \in Ipc!Cores
      PROVE  /\ count'[d] = IF running' THEN open'[d] ELSE 0
             /\ mux' = d <=> IpcHolds(d)'
             /\ IpcCalled(d)' /\ IpcServing(d)' /\ IpcStalled(d)'
  BY DEF Ipc!TypeOK, Ipc!Handler, Ipc!HandlerOff, Ipc!Call, Ipc!NoCall,
         Ipc!HandlerEnter, IpcHolds, IpcCalled, IpcServing, IpcReady,
         IpcStalled
<1>3. (endFl => todo = None)'
  BY DEF Ipc!TypeOK, Ipc!HandlerEnter, IpcServing, IpcReady, Ipc!HandlerOff
<1> QED
  BY <1>1, <1>2, <1>3

LEMMA IpcHandlerStartInv ==
    ASSUME Ipc!IpcAssumption, IpcUnpaused, IpcInv, NEW c \in Ipc!Cores,
           Ipc!HandlerStart(c)
    PROVE  IpcInv'
<1> USE IpcTwoCores DEF IpcInv, Ipc!IpcAssumption
<1>1. Ipc!TypeOK'
  BY DEF Ipc!TypeOK, Ipc!Handler, Ipc!HandlerOff, Ipc!Call, Ipc!NoCall,
         Ipc!HandlerStart
<1>2. ASSUME NEW d \in Ipc!Cores
      PROVE  /\ count'[d] = IF running' THEN open'[d] ELSE 0
             /\ mux' = d <=> IpcHolds(d)'
             /\ IpcCalled(d)' /\ IpcServing(d)' /\ IpcStalled(d)'
  BY DEF Ipc!TypeOK, Ipc!Handler, Ipc!HandlerOff, Ipc!Call, Ipc!NoCall,
         Ipc!HandlerStart, IpcHolds, IpcCalled, IpcServing, IpcReady,
         IpcStalled
<1>3. (endFl => todo = None)'
  BY DEF Ipc!TypeOK, Ipc!HandlerStart, IpcServing, IpcReady, Ipc!HandlerOff
<1> QED
  BY <1>1, <1>2, <1>3

LEMMA IpcHandlerReadInv ==
    ASSUME Ipc!IpcAssumption, IpcUnpaused, IpcInv, NEW c \in Ipc!Cores,
           Ipc!HandlerRead(c)
    PROVE  IpcInv'
<1> USE IpcTwoCores DEF IpcInv, Ipc!IpcAssumption
<1>1. Ipc!TypeOK'
  BY DEF Ipc!TypeOK, Ipc!Handler, Ipc!HandlerOff, Ipc!Call, Ipc!NoCall,
         Ipc!HandlerRead
<1>2. ASSUME NEW d \in Ipc!Cores
      PROVE  /\ count'[d] = IF running' THEN open'[d] ELSE 0
             /\ mux' = d <=> IpcHolds(d)'
             /\ IpcCalled(d)' /\ IpcServing(d)' /\ IpcStalled(d)'
  BY DEF Ipc!TypeOK, Ipc!Handler, Ipc!HandlerOff, Ipc!Call, Ipc!NoCall,
         Ipc!HandlerRead, IpcHolds, IpcCalled, IpcServing, IpcReady, IpcStalled
<1>3. (endFl => todo = None)'
  BY DEF Ipc!TypeOK, Ipc!HandlerRead, IpcServing, IpcReady, Ipc!HandlerOff
<1> QED
  BY <1>1, <1>2, <1>3

LEMMA IpcHandlerRunInv ==
    ASSUME Ipc!IpcAssumption, IpcUnpaused, IpcInv, NEW c \in Ipc!Cores,
           Ipc!HandlerRun(c)
    PROVE  IpcInv'
<1> USE IpcTwoCores DEF IpcInv, Ipc!IpcAssumption
<1>1. Ipc!TypeOK'
  BY DEF Ipc!TypeOK, Ipc!Handler, Ipc!HandlerOff, Ipc!Call, Ipc!NoCall,
         Ipc!HandlerRun
<1>2. ASSUME NEW d \in Ipc!Cores
      PROVE  /\ count'[d] = IF running' THEN open'[d] ELSE 0
             /\ mux' = d <=> IpcHolds(d)'
             /\ IpcCalled(d)' /\ IpcServing(d)' /\ IpcStalled(d)'
  BY DEF Ipc!TypeOK, Ipc!Handler, Ipc!HandlerOff, Ipc!Call, Ipc!NoCall,
         Ipc!HandlerRun, IpcHolds, IpcCalled, IpcServing, IpcReady, IpcStalled
<1>3. (endFl => todo = None)'
  BY DEF Ipc!TypeOK, Ipc!HandlerRun, IpcServing, IpcReady, Ipc!HandlerOff
<1> QED
  BY <1>1, <1>2, <1>3

LEMMA IpcHandlerEndInv ==
    ASSUME Ipc!IpcAssumption, IpcUnpaused, IpcInv, NEW c \in Ipc!Cores,
           Ipc!HandlerEnd(c)
    PROVE  IpcInv'
<1> USE IpcTwoCores DEF IpcInv, Ipc!IpcAssumption
<1>1. Ipc!TypeOK'
  BY DEF Ipc!TypeOK, Ipc!Handler, Ipc!HandlerOff, Ipc!Call, Ipc!NoCall,
         Ipc!HandlerEnd
<1>2. ASSUME NEW d \in Ipc!Cores
      PROVE  /\ count'[d] = IF running' THEN open'[d] ELSE 0
             /\ mux' = d <=> IpcHolds(d)'
             /\ IpcCalled(d)' /\ IpcServing(d)' /\ IpcStalled(d)'
  BY DEF Ipc!TypeOK, Ipc!Handler, Ipc!HandlerOff, Ipc!Call, Ipc!NoCall,
         Ipc!HandlerEnd, IpcHolds, IpcCalled, IpcServing, IpcReady, IpcStalled
<1>3. (endFl => todo = None)'
  BY DEF Ipc!HandlerEnd, IpcServing
<1> QED
  BY <1>1, <1>2, <1>3

\* A step of nobody leaves it, and so it holds throughout.
LEMMA IpcStutterInv == ASSUME IpcInv, UNCHANGED Ipc!vars PROVE IpcInv'
BY DEF IpcInv, Ipc!TypeOK, IpcHolds, IpcCalled, IpcServing, IpcReady,
       IpcStalled, Ipc!vars

LEMMA IpcInvariance ==
    ASSUME Ipc!IpcAssumption, IpcUnpaused
    PROVE  Ipc!Spec => []IpcInv
<1>1. Ipc!Init => IpcInv
  BY IpcInitInv
<1>2. IpcInv /\ [Ipc!Next]_(Ipc!vars) => IpcInv'
  BY IpcStutterInv, IpcAsmCallInv, IpcStallInv, IpcLockInv, IpcPostInv,
     IpcWakeInv, IpcReleaseInv, IpcUnlockInv, IpcSetRunningInv,
     IpcHandlerEnterInv, IpcHandlerStartInv, IpcHandlerReadInv,
     IpcHandlerRunInv, IpcHandlerEndInv DEF Ipc!Next
<1> QED
  BY <1>1, <1>2, PTL DEF Ipc!Spec

\* From the return of esp_ipc_isr_stall_other_cpu to its release, the other core
\* is in the wait function, or has started and is about to read that it is.
THEOREM IpcStalls ==
    ASSUME Ipc!IpcAssumption, IpcUnpaused
    PROVE  Ipc!Spec => []Ipc!StallHolds
<1>1. ASSUME Ipc!IpcAssumption, IpcInv PROVE Ipc!StallHolds
  <2> SUFFICES ASSUME NEW c \in Ipc!Cores, running, call[c] = Ipc!NoCall, open[c] > 0
               PROVE  /\ ~finish
                      /\ \/ handler[Ipc!Other(c)] = [pc |-> "run", fn |-> Ipc!Wait]
                         \/ handler[Ipc!Other(c)].pc = "started" /\ func = Ipc!Wait
    BY DEF Ipc!StallHolds
  <2>1. /\ ~finish /\ func = Ipc!Wait
        /\ handler[Ipc!Other(c)].pc \in {"started", "run"}
    BY <1>1 DEF IpcInv, IpcStalled, Ipc!NoCall
  <2>2. handler[Ipc!Other(c)] \in Ipc!Handler
    BY <1>1, IpcTwoCores DEF IpcInv, Ipc!TypeOK
  <2>3. handler[Ipc!Other(c)].pc = "run" => handler[Ipc!Other(c)].fn = func
    BY <1>1, IpcTwoCores DEF IpcInv, IpcServing
  <2> QED
    BY <2>1, <2>2, <2>3 DEF Ipc!Handler
<1> QED
  BY <1>1, IpcInvariance, PTL

\* A function called by esp_ipc_isr_asm_call or its blocking form is executed once
\* by the other core, and before the blocking form returns.
THEOREM IpcOnce ==
    ASSUME Ipc!IpcAssumption, IpcUnpaused
    PROVE  Ipc!Spec => []Ipc!ExecutedOnce
<1>1. ASSUME Ipc!IpcAssumption, IpcInv PROVE Ipc!ExecutedOnce
  BY <1>1 DEF IpcInv, IpcCalled, IpcServing, IpcReady, Ipc!ExecutedOnce, Ipc!At
<1> QED
  BY <1>1, IpcInvariance, PTL

\* A core that has released its stalls, and makes no call, holds no mutex.
THEOREM IpcReleases ==
    ASSUME Ipc!IpcAssumption, IpcUnpaused
    PROVE  Ipc!Spec => []Ipc!Released
<1>1. ASSUME Ipc!IpcAssumption, IpcInv PROVE Ipc!Released
  BY <1>1 DEF IpcInv, Ipc!TypeOK, IpcHolds, Ipc!NoCall, Ipc!Released
<1> QED
  BY <1>1, IpcInvariance, PTL

\* The flags, the mutex and the calls keep their types.
THEOREM IpcTyped ==
    ASSUME Ipc!IpcAssumption, IpcUnpaused
    PROVE  Ipc!Spec => []Ipc!TypeOK
<1>1. IpcInv => Ipc!TypeOK
  BY DEF IpcInv
<1> QED
  BY <1>1, IpcInvariance, PTL

-----------------------------------------------------------------------------
\* What is promised is inductive as it is.
CrossInv == Cross!TypeOK /\ Cross!NoReasonLost

\* It holds before the first request, ...
LEMMA CrossInitInv ==
    ASSUME Cross!CrosscoreAssumption
    PROVE  Cross!Init => CrossInv
BY DEF Cross!Init, CrossInv, Cross!TypeOK, Cross!NoReasonLost, Cross!Isr

\* A sender that has marked a core is a promise of the poke, a poke one of the
\* handler, and the handler reads the word after it has cleared the interrupt.
LEMMA CrossStepInv ==
    ASSUME Cross!CrosscoreAssumption, CrossInv, [Cross!Next]_(Cross!vars)
    PROVE  CrossInv'
<1> USE DEF CrossInv, Cross!TypeOK, Cross!NoReasonLost, Cross!Isr,
            Cross!CrosscoreAssumption
<1>1. ASSUME NEW s \in Senders, Cross!Poke(s)
      PROVE  CrossInv'
  BY <1>1 DEF Cross!Poke
<1>2. ASSUME NEW s \in Senders, NEW c \in Cores, NEW r \in Reasons,
             Cross!Mark(s, c, r)
      PROVE  CrossInv'
  BY <1>2 DEF Cross!Mark
<1>3. ASSUME NEW c \in Cores, Cross!IsrClear(c)
      PROVE  CrossInv'
  BY <1>3 DEF Cross!IsrClear
<1>4. ASSUME NEW c \in Cores, Cross!IsrTake(c)
      PROVE  CrossInv'
  BY <1>4 DEF Cross!IsrTake
<1>5. CASE UNCHANGED Cross!vars
  BY <1>5 DEF Cross!vars
<1> QED
  BY <1>1, <1>2, <1>3, <1>4, <1>5 DEF Cross!Next

\* ... and throughout.
LEMMA CrossInvariance ==
    ASSUME Cross!CrosscoreAssumption
    PROVE  Cross!Spec => []CrossInv
<1>1. Cross!Init => CrossInv
  BY CrossInitInv
<1>2. CrossInv /\ [Cross!Next]_(Cross!vars) => CrossInv'
  BY CrossStepInv
<1> QED
  BY <1>1, <1>2, PTL DEF Cross!Spec

\* The state of the cross-core interrupt keeps its type.
THEOREM CrossTyped ==
    ASSUME Cross!CrosscoreAssumption
    PROVE  Cross!Spec => []Cross!TypeOK
<1>1. CrossInv => Cross!TypeOK
  BY DEF CrossInv
<1> QED
  BY <1>1, CrossInvariance, PTL

\* However many senders and cores: a request not served yet is in the word of
\* its core, and the interrupt that will read it is set, running or promised.
THEOREM CrossNothingLost ==
    ASSUME Cross!CrosscoreAssumption
    PROVE  Cross!Spec => []Cross!NoReasonLost
<1>1. CrossInv => Cross!NoReasonLost
  BY DEF CrossInv
<1> QED
  BY <1>1, CrossInvariance, PTL
=============================================================================
