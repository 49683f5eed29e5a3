-------------------------------- MODULE Gdma --------------------------------
(***************************************************************************)
(* The GDMA driver (components/esp_hw_support/dma/gdma.c): a platform of   *)
(* groups, each with a few pairs, each pair with one TX and one RX         *)
(* channel.  Channels are created and deleted by callers; groups and pairs *)
(* are installed lazily and kept by reference counts, each under the       *)
(* spinlock of the level above it.  One action is one critical section (or *)
(* the stretch of a call that touches only what the call owns), so the     *)
(* calls of several tasks interleave between the sections as in the code.  *)
(*                                                                         *)
(* A group or pair is named by its slot: the object a slot holds is        *)
(* allocated zeroed when the slot is filled and freed when it is emptied,  *)
(* so a pointer kept across that moment is a dangling one.  A failing      *)
(* call that changes nothing (no memory for the channel, a conflict in     *)
(* gdma_connect, a failing esp_intr_alloc) is a stutter and not listed.    *)
(***************************************************************************)
EXTENDS Integers, FiniteSets

CONSTANTS
    Tasks,            \* the tasks that call the driver
    Channels,         \* the heap objects a channel can live in
    GroupCount,       \* SOC_GDMA_GROUPS
    PairsPerGroup,    \* SOC_GDMA_PAIRS_PER_GROUP
    PeriphIds,        \* instance ids of triggers that are exclusive (>= 0)
    CallerLiberties,  \* what callers do beyond the plain use, see Liberties
    MaxGroupRefs,     \* bound: no new search once a group has this many refs
    None              \* the NULL handle

Groups == 0 .. GroupCount - 1
Pairs  == Groups \X (0 .. PairsPerGroup - 1)
Dirs   == {"TX", "RX"}

\* Where a search may stand: at a pair, or past the last group.
Cursors == (0 .. GroupCount) \X (0 .. PairsPerGroup - 1)

Unbound      == -1  \* SOC_GDMA_TRIG_PERIPH_M2M0 where M2M needs no id
NotConnected == 63  \* GDMA_INVALID_PERIPH_TRIG

(***************************************************************************)
(* sameDirection: names a sibling of its own direction (an error return).  *)
(* unreserved:    names a sibling made without reserve_sibling, or whose   *)
(*                reservation is used up.                                  *)
(* stayConnected: deletes a channel that was not disconnected.             *)
(* reregister:    registers event callbacks a second time.                 *)
(***************************************************************************)
Liberties == {"sameDirection", "unreserved", "stayConnected", "reregister"}

ASSUME GdmaAssumption ==
    /\ GroupCount \in Nat \ {0}
    /\ PairsPerGroup \in Nat \ {0}
    /\ PeriphIds \subseteq 0 .. NotConnected - 1
    /\ CallerLiberties \subseteq Liberties
    /\ MaxGroupRefs \in Nat
    /\ None \notin Channels
    /\ IsFiniteSet(Tasks)
    /\ IsFiniteSet(Channels)

VARIABLES
    groupUp,   \* s_platform.groups[g] # NULL; its clock is on exactly then
    groupRef,  \* s_platform.group_ref_counts[g]
    inUse,     \* group->tx/rx_periph_in_use_mask
    pairUp,    \* group->pairs[p] # NULL
    pairRef,   \* group->pair_ref_counts[p]
    occupy,    \* pair->occupy_code
    slot,      \* pair->tx_chan, pair->rx_chan
    events,    \* interrupt events enabled in the hardware, per pair
    handlers,  \* interrupt handlers installed with this channel as argument
    chan,      \* gdma_channel_t objects
    call       \* the call each task is in: program counter and locals

vars == <<groupUp, groupRef, inUse, pairUp, pairRef, occupy, slot, events,
          handlers, chan, call>>
groupVars == <<groupUp, groupRef, inUse>>
pairVars  == <<pairUp, pairRef, occupy, slot>>
intrVars  == <<events, handlers>>

FreeChannel ==
    [st |-> "free", dir |-> "TX", pair |-> <<0, 0>>, periph |-> NotConnected,
     intr |-> FALSE, cb |-> FALSE, reserves |-> FALSE]

Idle == [pc |-> "idle", op |-> "none", obj |-> None, code |-> {},
         pair |-> <<0, 0>>]

PCs == {"idle", "acquireGroup", "acquirePair", "refGroup", "occupy",
        "releasePair", "releasePairsGroup", "releaseGroup", "register",
        "uninstall", "disableEvents", "enableEvents"}

Channel == [st : {"free", "new", "live", "dying"}, dir : Dirs, pair : Pairs,
            periph : PeriphIds \cup {Unbound, NotConnected},
            intr : BOOLEAN, cb : BOOLEAN, reserves : BOOLEAN]

Call == [pc : PCs, op : {"none", "search", "error", "delete"},
         obj : Channels \cup {None}, code : SUBSET Dirs,
         pair : Cursors]

Init ==
    /\ groupUp = [g \in Groups |-> FALSE]
    /\ groupRef = [g \in Groups |-> 0]
    /\ inUse = [g \in Groups |-> [d \in Dirs |-> {}]]
    /\ pairUp = [q \in Pairs |-> FALSE]
    /\ pairRef = [q \in Pairs |-> 0]
    /\ occupy = [q \in Pairs |-> {}]
    /\ slot = [q \in Pairs |-> [d \in Dirs |-> None]]
    /\ events = [q \in Pairs |-> {}]
    /\ handlers = [c \in Channels |-> 0]
    /\ chan = [c \in Channels |-> FreeChannel]
    /\ call = [t \in Tasks |-> Idle]

-----------------------------------------------------------------------------
At(t, pc)   == call[t].pc = pc
GroupOf(t)  == call[t].pair[1]
Goto(t, pc) == call' = [call EXCEPT ![t].pc = pc]
Return(t)   == call' = [call EXCEPT ![t] = Idle]

\* A handle is used by one call at a time, as its owner is expected to do.
Usable(c) == chan[c].st = "live" /\ \A u \in Tasks : call[u].obj # c

\* Mutant: the sibling's position is not asked for.
SearchCodeUnreserved(d, reserve) == {d}

\* search_code of a request.
SearchCode(d, reserve) == IF reserve THEN Dirs ELSE {d}

\* gdma_new_channel without a sibling: the object is allocated, the search
\* starts at group 0.
NewChannel(t, c, d, reserve) ==
    /\ At(t, "idle")
    /\ chan[c].st = "free"
    /\ \A g \in Groups : groupRef[g] < MaxGroupRefs
    /\ chan' = [chan EXCEPT ![c] =
                   [FreeChannel EXCEPT !.st = "new", !.dir = d,
                                       !.reserves = reserve]]
    /\ call' = [call EXCEPT ![t] =
                   [pc |-> "acquireGroup", op |-> "search", obj |-> c,
                    code |-> SearchCode(d, reserve), pair |-> <<0, 0>>]]
    /\ UNCHANGED <<groupVars, pairVars, intrVars>>

\* gdma_new_channel with a sibling s: a reference to its pair, no search.
NewSibling(t, c, s) ==
    /\ At(t, "idle")
    /\ chan[c].st = "free"
    /\ Usable(s)
    /\ chan[s].reserves \/ "unreserved" \in CallerLiberties
    /\ \E d \in Dirs \ {chan[s].dir} :
          chan' = [chan EXCEPT
                      ![c] = [FreeChannel EXCEPT !.st = "new", !.dir = d],
                      ![s].reserves = FALSE]
    /\ pairRef' = [pairRef EXCEPT ![chan[s].pair] = @ + 1]
    /\ call' = [call EXCEPT ![t] =
                   [pc |-> "register", op |-> "search", obj |-> c,
                    code |-> {}, pair |-> chan[s].pair]]
    /\ UNCHANGED <<groupVars, pairUp, occupy, slot, intrVars>>

\* The same with a sibling of the wrong direction: the error path releases
\* the pair, the group pointer is still NULL there.
NewSiblingRejected(t, s) ==
    /\ "sameDirection" \in CallerLiberties
    /\ At(t, "idle")
    /\ Usable(s)
    /\ call' = [call EXCEPT ![t] =
                   [pc |-> "releasePair", op |-> "error", obj |-> None,
                    code |-> {}, pair |-> chan[s].pair]]
    /\ UNCHANGED <<groupVars, pairVars, intrVars, chan>>

\* gdma_acquire_group_handle: a filled slot is a zeroed group, whose module
\* has just been reset.
AcquireGroup(t) ==
    LET g == GroupOf(t) IN
    /\ At(t, "acquireGroup")
    /\ g \in Groups
    /\ groupRef' = [groupRef EXCEPT ![g] = @ + 1]
    /\ IF groupUp[g]
       THEN UNCHANGED <<groupUp, inUse, pairUp, pairRef, events>>
       ELSE /\ groupUp' = [groupUp EXCEPT ![g] = TRUE]
            /\ inUse' = [inUse EXCEPT ![g] = [d \in Dirs |-> {}]]
            /\ pairUp' = [q \in Pairs |-> q[1] # g /\ pairUp[q]]
            /\ pairRef' = [q \in Pairs |-> IF q[1] = g THEN 0 ELSE pairRef[q]]
            /\ events' = [q \in Pairs |-> IF q[1] = g THEN {} ELSE events[q]]
    /\ Goto(t, "acquirePair")
    /\ UNCHANGED <<occupy, slot, handlers, chan>>

\* No memory for the group, or no group left to search: the channel is freed.
GiveUpSearch(t) ==
    /\ At(t, "acquireGroup")
    /\ chan' = [chan EXCEPT ![call[t].obj] = FreeChannel]
    /\ Return(t)
    /\ UNCHANGED <<groupVars, pairVars, intrVars>>

\* gdma_acquire_pair_handle up to the unlock of the group.
AcquirePair(t) ==
    LET q == call[t].pair IN
    /\ At(t, "acquirePair")
    /\ pairRef' = [pairRef EXCEPT ![q] = @ + 1]
    /\ IF pairUp[q]
       THEN /\ Goto(t, "occupy")
            /\ UNCHANGED <<pairUp, occupy, slot>>
       ELSE /\ Goto(t, "refGroup")
            /\ pairUp' = [pairUp EXCEPT ![q] = TRUE]
            /\ occupy' = [occupy EXCEPT ![q] = {}]
            /\ slot' = [slot EXCEPT ![q] = [d \in Dirs |-> None]]
    /\ UNCHANGED <<groupVars, intrVars, chan>>

\* No memory for the pair: error path, the channel is freed, the group is
\* released.
AcquirePairNoMem(t) ==
    /\ At(t, "acquirePair")
    /\ chan' = [chan EXCEPT ![call[t].obj] = FreeChannel]
    /\ call' = [call EXCEPT ![t].pc = "releaseGroup", ![t].op = "error",
                            ![t].obj = None]
    /\ UNCHANGED <<groupVars, pairVars, intrVars>>

\* Mutant: a new pair obtains no reference to its group.
RefGroupForgotten(t) ==
    At(t, "refGroup") /\ Goto(t, "occupy")
    /\ UNCHANGED <<groupVars, pairVars, intrVars, chan>>

\* A new pair obtains its reference to the group, in a section of its own.
RefGroup(t) ==
    /\ At(t, "refGroup")
    /\ groupRef' = [groupRef EXCEPT ![GroupOf(t)] = @ + 1]
    /\ Goto(t, "occupy")
    /\ UNCHANGED <<groupUp, inUse, pairVars, intrVars, chan>>

\* Mutant: the positions are taken without a look at the occupy code.
OccupyUnchecked(t) ==
    LET q == call[t].pair IN
    /\ At(t, "occupy") /\ Goto(t, "register")
    /\ occupy' = [occupy EXCEPT ![q] = @ \cup call[t].code]
    /\ UNCHANGED <<groupVars, pairUp, pairRef, slot, intrVars, chan>>

\* The search takes the wanted positions of the pair if all are free.
Occupy(t) ==
    LET q == call[t].pair IN
    /\ At(t, "occupy")
    /\ IF call[t].code \cap occupy[q] = {}
       THEN /\ occupy' = [occupy EXCEPT ![q] = @ \cup call[t].code]
            /\ Goto(t, "register")
       ELSE /\ Goto(t, "releasePair")
            /\ UNCHANGED occupy
    /\ UNCHANGED <<groupVars, pairUp, pairRef, slot, intrVars, chan>>

\* search_done: the channel is entered in its pair and handed to the caller.
Register(t) ==
    LET c == call[t].obj
        q == call[t].pair IN
    /\ At(t, "register")
    /\ slot' = [slot EXCEPT ![q][chan[c].dir] = c]
    /\ chan' = [chan EXCEPT ![c].st = "live", ![c].pair = q]
    /\ Return(t)
    /\ UNCHANGED <<groupVars, pairUp, pairRef, occupy, intrVars>>

-----------------------------------------------------------------------------
\* Mutants: the search looks at one pair too many, or at the same one again.
AfterPairOneMore(t) ==
    CASE call[t].op # "search" -> Return(t)
      [] call[t].op = "search" /\ call[t].pair[2] + 1 <= PairsPerGroup ->
            call' = [call EXCEPT ![t].pc = "acquirePair",
                                 ![t].pair = <<@[1], @[2] + 1>>]
      [] OTHER -> Goto(t, "releaseGroup")
AfterPairAgain(t) ==
    IF call[t].op = "search" THEN Goto(t, "acquirePair") ELSE Return(t)

\* Where a call goes once it has let go of a pair it held.
AfterPair(t) ==
    CASE call[t].op # "search" -> Return(t)
      [] call[t].op = "search" /\ call[t].pair[2] + 1 < PairsPerGroup ->
            call' = [call EXCEPT ![t].pc = "acquirePair",
                                 ![t].pair = <<@[1], @[2] + 1>>]
      [] OTHER -> Goto(t, "releaseGroup")

\* gdma_release_pair_handle up to the unlock of the group.
ReleasePair(t) ==
    LET q == call[t].pair IN
    /\ At(t, "releasePair")
    /\ pairRef' = [pairRef EXCEPT ![q] = @ - 1]
    /\ IF pairRef[q] = 1
       THEN /\ pairUp' = [pairUp EXCEPT ![q] = FALSE]
            /\ Goto(t, "releasePairsGroup")
       ELSE /\ AfterPair(t)
            /\ UNCHANGED pairUp
    /\ UNCHANGED <<groupVars, occupy, slot, intrVars, chan>>

\* Mutant: the slot is emptied one reference too early.
DropGroupRefEarly(g) ==
    /\ groupRef' = [groupRef EXCEPT ![g] = @ - 1]
    /\ groupUp' = [groupUp EXCEPT ![g] = @ /\ groupRef[g] > 2]
    /\ UNCHANGED inUse

\* gdma_release_group_handle: the last reference empties the slot.
DropGroupRef(g) ==
    /\ groupRef' = [groupRef EXCEPT ![g] = @ - 1]
    /\ groupUp' = [groupUp EXCEPT ![g] = @ /\ groupRef[g] # 1]
    /\ UNCHANGED inUse

\* The group reference of a pair that has just been freed.
ReleasePairsGroup(t) ==
    /\ At(t, "releasePairsGroup")
    /\ DropGroupRef(GroupOf(t))
    /\ AfterPair(t)
    /\ UNCHANGED <<pairVars, intrVars, chan>>

\* The group reference of the search, once the group has no suitable pair or
\* the search has failed.
ReleaseGroup(t) ==
    /\ At(t, "releaseGroup")
    /\ DropGroupRef(GroupOf(t))
    /\ IF call[t].op = "search"
       THEN call' = [call EXCEPT ![t].pc = "acquireGroup",
                                 ![t].pair = <<@[1] + 1, 0>>]
       ELSE Return(t)
    /\ UNCHANGED <<pairVars, intrVars, chan>>

-----------------------------------------------------------------------------
\* gdma_del_tx_channel, gdma_del_rx_channel: first the position is given up.
DelChannel(t, c) ==
    LET q == chan[c].pair
        d == chan[c].dir IN
    /\ At(t, "idle")
    /\ Usable(c)
    /\ chan[c].periph = NotConnected \/ "stayConnected" \in CallerLiberties
    /\ slot' = [slot EXCEPT ![q][d] = None]
    /\ occupy' = [occupy EXCEPT ![q] = @ \ {d}]
    /\ IF chan[c].intr
       THEN /\ chan' = [chan EXCEPT ![c].st = "dying"]
            /\ call' = [call EXCEPT ![t] =
                           [pc |-> "uninstall", op |-> "delete", obj |-> c,
                            code |-> {}, pair |-> q]]
       ELSE /\ chan' = [chan EXCEPT ![c] = FreeChannel]
            /\ call' = [call EXCEPT ![t] =
                           [pc |-> "releasePair", op |-> "delete",
                            obj |-> None, code |-> {}, pair |-> q]]
    /\ UNCHANGED <<groupVars, pairUp, pairRef, intrVars>>

\* Mutant: the interrupt handle is not freed.
UninstallIntrForgotten(t) ==
    At(t, "uninstall") /\ Goto(t, "disableEvents")
    /\ UNCHANGED <<groupVars, pairVars, intrVars, chan>>

\* esp_intr_free of the handle the channel remembers.
UninstallIntr(t) ==
    /\ At(t, "uninstall")
    /\ handlers' = [handlers EXCEPT ![call[t].obj] = @ - 1]
    /\ Goto(t, "disableEvents")
    /\ UNCHANGED <<groupVars, pairVars, events, chan>>

\* All events of the direction are disabled, then the channel is freed.
DisableEvents(t) ==
    LET c == call[t].obj IN
    /\ At(t, "disableEvents")
    /\ events' = [events EXCEPT ![call[t].pair] = @ \ {chan[c].dir}]
    /\ chan' = [chan EXCEPT ![c] = FreeChannel]
    /\ call' = [call EXCEPT ![t].pc = "releasePair", ![t].obj = None]
    /\ UNCHANGED <<groupVars, pairVars, handlers>>

\* gdma_register_tx/rx_event_callbacks, first half: a handler is installed
\* and all events of the direction are disabled.
InstallIntr(t, c) ==
    /\ At(t, "idle")
    /\ Usable(c)
    /\ chan[c].intr => "reregister" \in CallerLiberties /\ handlers[c] < 2
    /\ handlers' = [handlers EXCEPT ![c] = @ + 1]
    /\ chan' = [chan EXCEPT ![c].intr = TRUE]
    /\ events' = [events EXCEPT ![chan[c].pair] = @ \ {chan[c].dir}]
    /\ call' = [call EXCEPT ![t] =
                   [pc |-> "enableEvents", op |-> "none", obj |-> c,
                    code |-> {}, pair |-> chan[c].pair]]
    /\ UNCHANGED <<groupVars, pairVars>>

\* Second half: the event is enabled if there is a callback for it.
EnableEvents(t, on) ==
    LET c == call[t].obj IN
    /\ At(t, "enableEvents")
    /\ events' = [events EXCEPT ![chan[c].pair] =
                     IF on THEN @ \cup {chan[c].dir} ELSE @ \ {chan[c].dir}]
    /\ chan' = [chan EXCEPT ![c].cb = on]
    /\ Return(t)
    /\ UNCHANGED <<groupVars, pairVars, handlers>>

\* Mutant: no peripheral ever conflicts.
ConflictMissed(g, d, id) == FALSE

\* Is the id taken in the group's mask of that direction?
Conflict(g, d, id) == id \in inUse[g][d]

\* gdma_connect: only an id >= 0 is entered in the group's mask.
Connect(t, c, id) ==
    LET g == chan[c].pair[1]
        d == chan[c].dir IN
    /\ At(t, "idle")
    /\ Usable(c)
    /\ chan[c].periph = NotConnected
    /\ ~Conflict(g, d, id)
    /\ inUse' = [inUse EXCEPT ![g][d] = @ \cup ({id} \cap PeriphIds)]
    /\ chan' = [chan EXCEPT ![c].periph = id]
    /\ UNCHANGED <<groupUp, groupRef, pairVars, intrVars, call>>

\* gdma_disconnect
Disconnect(t, c) ==
    LET g == chan[c].pair[1]
        d == chan[c].dir IN
    /\ At(t, "idle")
    /\ Usable(c)
    /\ chan[c].periph # NotConnected
    /\ inUse' = [inUse EXCEPT ![g][d] = @ \ {chan[c].periph}]
    /\ chan' = [chan EXCEPT ![c].periph = NotConnected]
    /\ UNCHANGED <<groupUp, groupRef, pairVars, intrVars, call>>

-----------------------------------------------------------------------------
Search(t) == \/ AcquireGroup(t) \/ GiveUpSearch(t)
             \/ AcquirePair(t)  \/ AcquirePairNoMem(t)
             \/ RefGroup(t)     \/ Occupy(t) \/ Register(t)

Release(t) == ReleasePair(t) \/ ReleasePairsGroup(t) \/ ReleaseGroup(t)

Interrupt(t) == \/ UninstallIntr(t) \/ DisableEvents(t)
                \/ \E on \in BOOLEAN : EnableEvents(t, on)

\* No pair has been released more often than acquired, and every live channel is
\* the one its pair knows.  Once a pair was freed under its users a further call
\* would use freed memory: the calls in progress end and the model stops.
Defined ==
    /\ \A q \in Pairs : pairRef[q] >= 0
    /\ \A c \in Channels : chan[c].st = "live" =>
           pairUp[chan[c].pair] /\ slot[chan[c].pair][chan[c].dir] = c

Invoke(t) ==
    Defined /\ \E c \in Channels :
        \/ \E d \in Dirs, reserve \in BOOLEAN : NewChannel(t, c, d, reserve)
        \/ \E s \in Channels : NewSibling(t, c, s)
        \/ NewSiblingRejected(t, c)
        \/ DelChannel(t, c)
        \/ InstallIntr(t, c)
        \/ \E id \in PeriphIds \cup {Unbound} : Connect(t, c, id)
        \/ Disconnect(t, c)

Step(t) == Search(t) \/ Release(t) \/ Interrupt(t)

Next == \E t \in Tasks : Invoke(t) \/ Step(t)

Spec == Init /\ [][Next]_vars

\* Every call goes on: a task inside the driver is not starved.
FairSpec == Spec /\ \A t \in Tasks : WF_vars(Step(t))
-----------------------------------------------------------------------------
\* Correctness.

TypeOK ==
    /\ groupUp \in [Groups -> BOOLEAN]
    /\ groupRef \in [Groups -> Int]
    /\ inUse \in [Groups -> [Dirs -> SUBSET PeriphIds]]
    /\ pairUp \in [Pairs -> BOOLEAN]
    /\ pairRef \in [Pairs -> Int]
    /\ occupy \in [Pairs -> SUBSET Dirs]
    /\ slot \in [Pairs -> [Dirs -> Channels \cup {None}]]
    /\ events \in [Pairs -> SUBSET Dirs]
    /\ handlers \in [Channels -> Int]
    /\ chan \in [Channels -> Channel]
    /\ call \in [Tasks -> Call]

\* Who refers to a pair: calls that acquired it and live channels.
HoldsPair(t, q) ==
    /\ call[t].pair = q
    /\ call[t].pc \in {"refGroup", "occupy", "register", "uninstall",
                       "disableEvents", "releasePair"}
PairTasks(q)    == {t \in Tasks : HoldsPair(t, q)}
PairChannels(q) == {c \in Channels : chan[c].st = "live" /\ chan[c].pair = q}

\* Who refers to a group: the searches in it (and the failed one that is
\* about to release it), the calls that have just freed a pair of it, and its
\* pairs (a new pair once its own reference is taken).
Searches(t, g) ==
    /\ GroupOf(t) = g
    /\ \/ At(t, "releaseGroup")
       \/ /\ call[t].op = "search"
          /\ call[t].pc \in {"acquirePair", "refGroup", "occupy",
                             "releasePair", "releasePairsGroup"}
Searchers(g)  == {t \in Tasks : Searches(t, g)}
PairFreers(g) == {t \in Tasks : GroupOf(t) = g /\ At(t, "releasePairsGroup")}
GroupPairs(g) == {q \in Pairs : /\ q[1] = g
                                /\ pairUp[q]
                                /\ \A t \in Tasks :
                                      At(t, "refGroup") => call[t].pair # q}

\* The count of a pair is exact, the count of a group never below its
\* references, and a slot is filled exactly while it is counted ("the driver
\* will free their memory only when their reference count reached to 0").
PairCounts ==
    \A q \in Pairs :
        /\ pairRef[q] = Cardinality(PairTasks(q))
                         + Cardinality(PairChannels(q))
        /\ pairUp[q] <=> pairRef[q] > 0
GroupCounts ==
    \A g \in Groups :
        /\ groupRef[g] >= Cardinality(Searchers(g))
                           + Cardinality(PairFreers(g))
                           + Cardinality(GroupPairs(g))
        /\ groupUp[g] <=> groupRef[g] > 0
RefCounts == PairCounts /\ GroupCounts

\* No live channel and no call in progress refers to a freed pair or group,
\* whatever the other tasks create, delete or fail to create meanwhile.
NoDanglingHandle ==
    /\ \A c \in Channels : chan[c].st = "live" =>
          pairUp[chan[c].pair] /\ groupUp[chan[c].pair[1]]
    /\ \A t \in Tasks :
          /\ \A q \in Pairs : t \in PairTasks(q) => pairUp[q] /\ groupUp[q[1]]
          /\ \A g \in Groups :
                t \in Searchers(g) \cup PairFreers(g) => groupUp[g]

\* A position of a pair belongs to one channel, and the pair knows which:
\* two searches, or a search and a sibling request, never get the same one.
ExclusivePositions ==
    \A c \in Channels : chan[c].st = "live" =>
        /\ slot[chan[c].pair][chan[c].dir] = c
        /\ \A e \in Channels \ {c} :
              chan[e].st = "live" =>
                  <<chan[e].pair, chan[e].dir>> # <<chan[c].pair, chan[c].dir>>

\* "each bit indicates which channel has been occupied (an occupied channel
\* will be skipped during channel search)": no search skips over the bit of a
\* channel that lives or is about to be registered.
OccupiedWhenTaken ==
    /\ \A c \in Channels :
          chan[c].st = "live" => chan[c].dir \in occupy[chan[c].pair]
    /\ \A t \in Tasks :
          At(t, "register") => chan[call[t].obj].dir \in occupy[call[t].pair]

\* A peripheral id is connected to at most one channel of each direction of a
\* group, and a group's mask holds exactly the ids its channels connect to.
ExclusivePeripherals ==
    /\ \A g \in Groups, d \in Dirs : groupUp[g] =>
          inUse[g][d] = {chan[c].periph : c \in {b \in Channels :
                            /\ chan[b].st = "live"
                            /\ chan[b].pair[1] = g
                            /\ chan[b].dir = d}} \cap PeriphIds
    /\ \A c, e \in Channels :
          /\ c # e
          /\ chan[c].st = "live" /\ chan[e].st = "live"
          /\ chan[c].pair[1] = chan[e].pair[1]
          /\ chan[c].dir = chan[e].dir
          /\ chan[c].periph \in PeriphIds
          => chan[c].periph # chan[e].periph

\* An interrupt handler never outlives the channel it gets as its argument.
NoStaleHandler ==
    \A c \in Channels : handlers[c] > 0 => chan[c].st \in {"live", "dying"}

\* A channel whose caller has registered a callback, and is not registering
\* one again, has its event enabled ("Set GDMA event callbacks").
CallbackArmed ==
    \A c \in Channels :
        Usable(c) /\ chan[c].cb => chan[c].dir \in events[chan[c].pair]

\* The assertions of the release functions: a count that falls to zero finds
\* its slot still filled, even when a failed call has released a pair it did
\* not hold.
AssertsHold ==
    \A t \in Tasks :
        /\ At(t, "releasePair") /\ pairRef[call[t].pair] = 1
              => pairUp[call[t].pair]
        /\ At(t, "releasePairsGroup") \/ At(t, "releaseGroup")
              => (groupRef[GroupOf(t)] = 1 => groupUp[GroupOf(t)])

\* Every call into the driver returns.
CallsReturn == \A t \in Tasks : ~At(t, "idle") ~> At(t, "idle")
=============================================================================
