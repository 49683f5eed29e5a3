------------------------------ MODULE IntrAlloc ------------------------------
(***************************************************************************)
(* The interrupt allocator (components/esp_hw_support/intr_alloc.c).  An   *)
(* allocation gives an interrupt source a CPU interrupt (a vector) of the  *)
(* core it is made on, alone or shared with other handlers, and routes the *)
(* source to it in the interrupt matrix.  All of it is done under one      *)
(* spinlock, but for the test that a handler is freed on its own core and  *)
(* the first access of the shared interrupt service routine: these are     *)
(* steps of their own.                                                     *)
(*                                                                         *)
(* Sources go through the matrix; those internal to a core are left out,   *)
(* as are priorities and trigger types (every vector fits every source),   *)
(* the status registers of shared handlers and the order of their list.    *)
(* A handle stands also for its handler and, when shared, for its entry    *)
(* in the list of the vector.                                              *)
(***************************************************************************)
EXTENDS Integers, FiniteSets

CONSTANTS
    Cores,
    Vectors,    \* CPU interrupts of a core that are not reserved by design
    Sources,    \* interrupt sources; 0 is one on every chip
    Handles,    \* handlers that are allocated
    Liberties,  \* "migrate": a task that frees may change core as it does;
                \* "noMemory": malloc fails; "reserve": vectors are reserved
    None        \* no handle

Off    == -1    \* INT_MUX_DISABLED_INTNO
Unused == -99   \* ETS_INTERNAL_UNUSED_INTR_SOURCE

IntrAssumption ==
    /\ Vectors \subseteq Nat
    /\ Sources \subseteq Nat
    /\ IsFiniteSet(Handles)
    /\ None \notin Handles
    /\ "shared" \notin Handles \cup {None}
    /\ Liberties \subseteq {"migrate", "noMemory", "reserve"}

VARIABLES
    desc,     \* the vector descriptors, see Desc
    handle,   \* the handles, see Handle
    table,    \* the handler each core has for each vector
    route,    \* the interrupt matrix: vector of each core for each source
    mask,     \* non_iram_int_mask
    enabled,  \* vectors enabled at CPU level
    saved,    \* non_iram_int_disabled
    asleep,   \* non_iram_int_disabled_flag
    freeing,  \* handles whose esp_intr_free has found itself on their core
    isr       \* per core, shared_intr_isr before it has the spinlock

vars == <<desc, handle, table, route, mask, enabled, saved, asleep, freeing,
          isr>>

Flags == {"reserved", "iram", "shared", "nonshared"}

Desc == [
    known  : BOOLEAN,          \* in the list of vector_desc_head
    flags  : SUBSET Flags,
    source : Sources \cup {0, Unused},
    list   : SUBSET Handles]   \* shared_vec_info

NoDesc == [known |-> FALSE, flags |-> {}, source |-> 0, list |-> {}]

Handle == [
    cpu    : Cores,
    intno  : Vectors,
    source : Sources,
    shared : BOOLEAN,
    on     : BOOLEAN,   \* not disabled; for a shared one, ~disabled
    iram   : BOOLEAN]   \* history: the handler was declared to be in IRAM

NoHandle == [on |-> FALSE]

Live == {h \in Handles : handle[h] # NoHandle}
Users(c, v) == {h \in Live : handle[h].cpu = c /\ handle[h].intno = v}

NoIsr == [intno |-> Off, head |-> None]

Init ==
    /\ desc = [c \in Cores |-> [v \in Vectors |-> NoDesc]]
    /\ handle = [h \in Handles |-> NoHandle]
    /\ table = [c \in Cores |-> [v \in Vectors |-> None]]
    /\ route = [c \in Cores |-> [s \in Sources |-> Off]]
    /\ mask = [c \in Cores |-> {}]
    /\ enabled = [c \in Cores |-> {}]
    /\ saved = [c \in Cores |-> {}]
    /\ asleep = [c \in Cores |-> FALSE]
    /\ freeing = {}
    /\ isr = [c \in Cores |-> NoIsr]

-----------------------------------------------------------------------------
\* is_vect_desc_usable.
Usable(c, v, shared, iram) ==
    /\ desc[c][v].flags \cap {"reserved", "nonshared"} = {}
    /\ IF "shared" \in desc[c][v].flags
       THEN shared /\ ("iram" \in desc[c][v].flags <=> iram)
       ELSE table[c][v] = None

\* find_desc_for_source: the first descriptor of the source.
HasSource(c, v, s) ==
    /\ desc[c][v].known
    /\ IF "shared" \in desc[c][v].flags
       THEN \E h \in desc[c][v].list : handle[h].source = s
       ELSE desc[c][v].source = s
IsFound(c, v, s) ==
    HasSource(c, v, s) /\ \A w \in Vectors : HasSource(c, w, s) => v <= w

\* get_available_int for a source no descriptor has: a shared vector with the
\* fewest handlers, or else the first free vector.
Better(c, v, w) ==
    LET ofV == Cardinality(desc[c][v].list)
        ofW == Cardinality(desc[c][w].list)
    IN  ofV < ofW \/ (ofV = ofW /\ v <= w)
IsBest(c, v, shared, iram) ==
    LET fits   == {w \in Vectors : Usable(c, w, shared, iram)}
        joined == {w \in fits : "shared" \in desc[c][w].flags}
    IN  IF joined # {} THEN v \in joined /\ \A w \in joined : Better(c, v, w)
                       ELSE v \in fits /\ \A w \in fits : v <= w

\* get_available_int.
Available(c, v, s, shared, iram) ==
    IF \E w \in Vectors : HasSource(c, w, s)
    THEN IsFound(c, v, s) /\ Usable(c, v, shared, iram)
    ELSE IsBest(c, v, shared, iram)

\* What esp_intr_disable of h leaves in the matrix: others that share the
\* source keep it connected.
OthersOn(h, r, list) == \E g \in list \ {h} : handle[g].on /\
                                              handle[g].source = r.source

\* Mutant: the last one to be disabled disconnects the source of all.
RouteOffAlways(h, r, list) == [route EXCEPT ![r.cpu][r.source] = Off]

RouteOff(h, r, list) ==
    IF r.shared /\ OthersOn(h, r, list) THEN route
    ELSE [route EXCEPT ![r.cpu][r.source] = Off]

RouteOn(r) == [route EXCEPT ![r.cpu][r.source] = r.intno]

\* Mutant: the mask of the vectors to be disabled without the flash cache is
\* only added to.
MaskedOnly(c, v, iram) == IF iram THEN mask
                                  ELSE [mask EXCEPT ![c] = @ \cup {v}]

Masked(c, v, iram) == [mask EXCEPT ![c] = IF iram THEN @ \ {v} ELSE @ \cup {v}]

InIram(flags, iram) == IF iram THEN flags \cup {"iram"} ELSE flags \ {"iram"}

-----------------------------------------------------------------------------
\* The tasks of a core run: no interrupt service routine, flash cache on.
Awake(c) == isr[c] = NoIsr /\ ~asleep[c]

\* esp_intr_alloc and esp_intr_alloc_intrstatus; with off,
\* ESP_INTR_FLAG_INTRDISABLED.
Alloc(c, h) ==
    /\ Awake(c)
    /\ handle[h] = NoHandle
    /\ \E v \in Vectors, s \in Sources, shared, iram, off \in BOOLEAN :
          LET r == [cpu |-> c, intno |-> v, source |-> s, shared |-> shared,
                    on |-> ~off, iram |-> iram]
              d == desc[c][v]
          IN  /\ Available(c, v, s, shared, iram)
              /\ handle' = [handle EXCEPT ![h] = r]
              /\ desc' = [desc EXCEPT ![c][v] =
                    IF shared
                    THEN [known |-> TRUE, source |-> d.source,
                          flags |-> InIram(d.flags \cup {"shared"}, iram),
                          list |-> d.list \cup {h}]
                    ELSE [known |-> TRUE, source |-> s, list |-> d.list,
                          flags |-> InIram({"nonshared"}, iram)]]
              /\ table' = [table EXCEPT ![c][v] =
                              IF shared THEN "shared" ELSE h]
              /\ mask' = Masked(c, v, iram)
              /\ route' = IF off THEN RouteOff(h, r, d.list) ELSE RouteOn(r)
              /\ enabled' = [enabled EXCEPT ![c] = @ \cup {v}]
    /\ UNCHANGED <<saved, asleep, freeing, isr>>

\* The same, out of memory for the entry of the list: the descriptor stays.
AllocNoMemory(c) ==
    /\ "noMemory" \in Liberties
    /\ Awake(c)
    /\ \E v \in Vectors, s \in Sources, iram \in BOOLEAN :
          /\ Available(c, v, s, TRUE, iram)
          /\ ~desc[c][v].known
          /\ desc' = [desc EXCEPT ![c][v].known = TRUE]
    /\ UNCHANGED <<handle, table, route, mask, enabled, saved, asleep,
                   freeing, isr>>

\* esp_intr_reserve, of a vector nobody uses.
Reserve(c, v) ==
    /\ "reserve" \in Liberties
    /\ Awake(c)
    /\ desc[c][v].flags = {}
    /\ desc' = [desc EXCEPT ![c][v].known = TRUE, ![c][v].flags = {"reserved"}]
    /\ UNCHANGED <<handle, table, route, mask, enabled, saved, asleep,
                   freeing, isr>>

\* esp_intr_enable, on any core.
Enable(h) ==
    /\ h \in Live \ freeing
    /\ handle' = [handle EXCEPT ![h].on = TRUE]
    /\ route' = RouteOn(handle[h])
    /\ UNCHANGED <<desc, table, mask, enabled, saved, asleep, freeing, isr>>

\* esp_intr_disable, on any core.
Disable(h) ==
    LET r == handle[h]
    IN  /\ h \in Live \ freeing
        /\ handle' = [handle EXCEPT ![h].on = FALSE]
        /\ route' = RouteOff(h, r, desc[r.cpu][r.intno].list)
        /\ UNCHANGED <<desc, table, mask, enabled, saved, asleep, freeing,
                       isr>>

\* esp_intr_set_in_iram, called by tasks.
SetInIram(h) ==
    LET r == handle[h]
    IN  /\ h \in Live \ freeing
        /\ ~r.shared
        /\ ~asleep[r.cpu]
        /\ \E iram \in BOOLEAN :
              /\ handle' = [handle EXCEPT ![h].iram = iram]
              /\ mask' = Masked(r.cpu, r.intno, iram)
              /\ desc' = [desc EXCEPT ![r.cpu][r.intno].flags =
                                         InIram(@, iram)]
        /\ UNCHANGED <<table, route, enabled, saved, asleep, freeing, isr>>

\* Mutant: nobody asks on which core esp_intr_free runs.
FreeHere(h, c) == TRUE

\* The critical section of esp_intr_free runs on the core of the vector: the
\* caller is there, or sends an IPC call there and waits for it.
FreeRunsOn(h, c) == c = handle[h].cpu \/ "migrate" \in Liberties

\* esp_intr_free: the core is right, or an IPC call makes it so.
FreeStart(h) ==
    /\ h \in Live \ freeing
    /\ freeing' = freeing \cup {h}
    /\ UNCHANGED <<desc, handle, table, route, mask, enabled, saved, asleep,
                   isr>>

\* The critical section, with esp_intr_disable, on the core c.  The flag
\* VECDESC_FL_INIRAM, which it leaves, is set anew before it is read again.
Free(h, c) ==
    LET r    == handle[h]
        d    == desc[r.cpu][r.intno]
        rest == d.list \ {h}
        last == ~r.shared \/ rest = {}
    IN  /\ h \in freeing
        /\ FreeRunsOn(h, c)
        /\ Awake(c)
        /\ freeing' = freeing \ {h}
        /\ handle' = [handle EXCEPT ![h] = NoHandle]
        /\ route' = RouteOff(h, r, d.list)
        /\ desc' = [desc EXCEPT ![r.cpu][r.intno] =
              [d EXCEPT !.list = rest,
                        !.flags = IF last THEN {} ELSE @,
                        !.source = IF last THEN Unused ELSE @]]
        /\ table' = IF last THEN [table EXCEPT ![c][r.intno] = None] ELSE table
        /\ mask' = IF last THEN [mask EXCEPT ![r.cpu] = @ \ {r.intno}]
                           ELSE mask
        /\ UNCHANGED <<enabled, saved, asleep, isr>>

-----------------------------------------------------------------------------
\* esp_intr_noniram_disable, before the flash cache is switched off.
NonIramDisable(c) ==
    /\ Awake(c)
    /\ asleep' = [asleep EXCEPT ![c] = TRUE]
    /\ saved' = [saved EXCEPT ![c] = enabled[c] \cap mask[c]]
    /\ enabled' = [enabled EXCEPT ![c] = @ \ mask[c]]
    /\ UNCHANGED <<desc, handle, table, route, mask, freeing, isr>>

\* esp_intr_noniram_enable.  What it leaves in non_iram_int_disabled is not
\* read before the next esp_intr_noniram_disable, and not kept here.
NonIramEnable(c) ==
    /\ asleep[c]
    /\ isr[c] = NoIsr
    /\ asleep' = [asleep EXCEPT ![c] = FALSE]
    /\ enabled' = [enabled EXCEPT ![c] = @ \cup saved[c]]
    /\ saved' = [saved EXCEPT ![c] = {}]
    /\ UNCHANGED <<desc, handle, table, route, mask, freeing, isr>>

\* shared_intr_isr: the head of the list is read before the spinlock is taken.
IsrEnter(c) ==
    /\ isr[c] = NoIsr
    /\ \E s \in Sources, h \in Handles :
          LET v == route[c][s]
          IN  /\ v \in enabled[c]
              /\ table[c][v] = "shared"
              /\ h \in desc[c][v].list
              /\ isr' = [isr EXCEPT ![c] = [intno |-> v, head |-> h]]
    /\ UNCHANGED <<desc, handle, table, route, mask, enabled, saved, asleep,
                   freeing>>

\* The walk over the list, under the spinlock.
IsrWalk(c) ==
    /\ isr[c] # NoIsr
    /\ isr' = [isr EXCEPT ![c] = NoIsr]
    /\ UNCHANGED <<desc, handle, table, route, mask, enabled, saved, asleep,
                   freeing>>

Next ==
    \/ \E c \in Cores :
          \/ \E h \in Handles : Alloc(c, h) \/ Free(h, c)
          \/ \E v \in Vectors : Reserve(c, v)
          \/ AllocNoMemory(c)
          \/ NonIramDisable(c) \/ NonIramEnable(c)
          \/ IsrEnter(c) \/ IsrWalk(c)
    \/ \E h \in Handles :
          Enable(h) \/ Disable(h) \/ SetInIram(h) \/ FreeStart(h)

Spec == Init /\ [][Next]_vars

-----------------------------------------------------------------------------
\* Types of the state of the interrupt allocator.
TypeOK ==
    /\ desc \in [Cores -> [Vectors -> Desc]]
    /\ handle \in [Handles -> Handle \cup {NoHandle}]
    /\ table \in [Cores -> [Vectors -> Handles \cup {None, "shared"}]]
    /\ route \in [Cores -> [Sources -> Vectors \cup {Off}]]
    /\ mask \in [Cores -> SUBSET Vectors]
    /\ enabled \in [Cores -> SUBSET Vectors]
    /\ saved \in [Cores -> SUBSET Vectors]
    /\ asleep \in [Cores -> BOOLEAN]
    /\ freeing \subseteq Handles
    /\ isr \in [Cores -> [intno : Vectors, head : Handles] \cup {NoIsr}]

\* What a core does on a vector is what was allocated there: its handler table
\* names the one unshared handler, or the shared routine when and only when
\* the list of the vector holds the handlers that share it, or nothing.
HandlersMatch ==
    \A c \in Cores, v \in Vectors :
        \/ Users(c, v) = {} /\ table[c][v] = None
        \/ \E h \in Users(c, v) :
              Users(c, v) = {h} /\ table[c][v] = h /\ ~handle[h].shared
        \/ /\ Users(c, v) # {}
           /\ Users(c, v) = desc[c][v].list
           /\ \A h \in Users(c, v) : handle[h].shared
           /\ table[c][v] = "shared"

\* A source reaches a vector as long as one of its handlers on that core is
\* enabled, and then that vector is the one of all of them; when all are
\* disabled or freed the source is disconnected.
Routing ==
    \A c \in Cores, s \in Sources :
        LET of == {h \in Live : handle[h].cpu = c /\ handle[h].source = s}
        IN  /\ \A h \in of : handle[h].on => route[c][s] = handle[h].intno
            /\ (\A h \in of : ~handle[h].on) => route[c][s] = Off

\* While a core works without its flash cache, its vectors with handlers that
\* are not in IRAM are disabled, and no others; afterwards none is.
CacheOffSafe ==
    \A h \in Live :
        LET r == handle[h]
        IN  r.intno \in enabled[r.cpu] <=> (asleep[r.cpu] => r.iram)

\* The shared routine, which reads the head of its list without the spinlock,
\* never walks from an entry that was freed meanwhile.
NoFreedHandler ==
    \A c \in Cores :
        isr[c] # NoIsr => isr[c].head \in Users(c, isr[c].intno)
=============================================================================
