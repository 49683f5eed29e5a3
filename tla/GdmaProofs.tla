----------------------------- MODULE GdmaProofs -----------------------------
(***************************************************************************)
(* The GDMA driver, proved for every number of tasks, channels, groups and *)
(* pairs.                                                                  *)
(*                                                                         *)
(* Type correctness: TypeOK is not inductive; a step also needs to know    *)
(* what the locals of a call are good for (GoodCall).                      *)
(*                                                                         *)
(* Safety, as long as no caller names a sibling of its own direction:      *)
(* every reference is counted and nothing that is referred to is freed;    *)
(* positions, peripherals and handlers belong to one channel.  RefCounts   *)
(* is inductive once it is known who owns a channel object (ObjectsOwned). *)
(* One step changes what one task holds, what one channel refers to, and   *)
(* whether one pair counts for its group; so it is enough to compare the   *)
(* change of a count with the change of three memberships (PairCountsStep, *)
(* GroupCountsStep).  Positions, Peripherals and Handlers are each         *)
(* inductive on top of Inv.                                                *)
(***************************************************************************)
EXTENDS Gdma, TLAPS, FiniteSetTheorems

\* What the locals of a call are good for at each of its steps.
GoodCall ==
    {r \in Call :
        /\ r.pc # "acquireGroup" => r.pair \in Pairs
        /\ r.pc = "idle" => r.op = "none" /\ r.obj = None
        /\ r.pc \in {"acquireGroup", "acquirePair", "refGroup", "occupy",
                     "register"} => r.op = "search"
        /\ r.pc \in {"uninstall", "disableEvents"} => r.op = "delete"
        /\ r.pc = "enableEvents" => r.op = "none"
        /\ r.pc \in {"uninstall", "disableEvents", "enableEvents"}
              => r.obj \in Channels
        /\ r.op = "search" => r.obj \in Channels
        /\ r.pc \in {"releasePair", "releasePairsGroup", "releaseGroup"}
              => \/ r.op = "search"
                 \/ r.op \in {"error", "delete"} /\ r.obj = None}

TypeInv == TypeOK /\ call \in [Tasks -> GoodCall]

LEMMA PairFacts ==
    /\ <<0, 0>> \in Pairs
    /\ Pairs \subseteq Cursors
    /\ \A q \in Pairs : q[1] \in Groups
    /\ \A q \in Cursors : q[1] \in Groups => q \in Pairs
    /\ \A q \in Pairs :
          /\ <<q[1] + 1, 0>> \in Cursors
          /\ q[2] + 1 < PairsPerGroup => <<q[1], q[2] + 1>> \in Pairs
  BY GdmaAssumption DEF Pairs, Groups, Cursors

LEMMA FreeChannelType == FreeChannel \in Channel
  BY PairFacts DEF FreeChannel, Channel, Dirs

LEMMA IdleType == Idle \in GoodCall
  BY PairFacts DEF Idle, GoodCall, Call, PCs

LEMMA FunUpdate ==
    ASSUME NEW S, NEW T, NEW f \in [S -> T], NEW x, NEW v \in T
    PROVE  [f EXCEPT ![x] = v] \in [S -> T]
  OBVIOUS

LEMMA TypeInit == Init => TypeInv
  BY PairFacts, FreeChannelType, IdleType, GdmaAssumption
  DEF Init, TypeInv, TypeOK, GoodCall, Groups

LEMMA TypeNewChannel ==
    ASSUME TypeInv, NEW t \in Tasks,
           NEW c \in Channels, NEW d \in Dirs, NEW reserve \in BOOLEAN,
           NewChannel(t, c, d, reserve)
    PROVE  TypeInv'
<1>1. chan \in [Channels -> Channel] /\ call \in [Tasks -> GoodCall]
  BY DEF TypeInv, TypeOK
<1>2. call' = [call EXCEPT ![t] = call'[t]]
  BY <1>1 DEF NewChannel
<1>3. call'[t] = [pc |-> "acquireGroup", op |-> "search", obj |-> c,
                  code |-> SearchCode(d, reserve), pair |-> <<0, 0>>]
  BY <1>1 DEF NewChannel
<1>4. call'[t] \in GoodCall
  BY <1>1, <1>3, PairFacts DEF SearchCode, GoodCall, Call, PCs, Channel, Dirs
<1>5. chan' \in [Channels -> Channel]
  <2>1. c \in Channels /\ chan[c] \in Channel
    BY DEF TypeInv, TypeOK, GoodCall
  <2>2. chan' = [chan EXCEPT ![c] = [FreeChannel EXCEPT !.st = "new", !.dir = d,
                                        !.reserves = reserve]]
    BY <2>1 DEF NewChannel, TypeInv, TypeOK
  <2>3. [FreeChannel EXCEPT !.st = "new", !.dir = d,
                                        !.reserves = reserve] \in Channel
    BY <2>1, FreeChannelType DEF Channel, GoodCall, Unbound
  <2> QED
    BY <2>1, <2>2, <2>3 DEF TypeInv, TypeOK
<1>6. /\ groupUp' \in [Groups -> BOOLEAN]
      /\ groupRef' \in [Groups -> Int]
  BY DEF NewChannel, TypeInv, TypeOK, groupVars
<1>7. inUse' \in [Groups -> [Dirs -> SUBSET PeriphIds]]
  BY DEF NewChannel, TypeInv, TypeOK, groupVars
<1>8. pairUp' \in [Pairs -> BOOLEAN] /\ pairRef' \in [Pairs -> Int]
  BY DEF NewChannel, TypeInv, TypeOK, pairVars
<1>9. occupy' \in [Pairs -> SUBSET Dirs]
  BY DEF NewChannel, TypeInv, TypeOK, pairVars
<1>10. slot' \in [Pairs -> [Dirs -> Channels \cup {None}]]
  BY DEF NewChannel, TypeInv, TypeOK, pairVars
<1>11. events' \in [Pairs -> SUBSET Dirs]
  BY DEF NewChannel, TypeInv, TypeOK, intrVars
<1>12. handlers' \in [Channels -> Int]
  BY DEF NewChannel, TypeInv, TypeOK, intrVars
<1> QED
  BY <1>2, <1>4, <1>5, <1>6, <1>7, <1>8, <1>9, <1>10, <1>11, <1>12
  DEF TypeInv, TypeOK, GoodCall

LEMMA TypeNewSiblingRejected ==
    ASSUME TypeInv, NEW t \in Tasks, NEW s \in Channels,
           NewSiblingRejected(t, s)
    PROVE  TypeInv'
<1>1. chan \in [Channels -> Channel] /\ call \in [Tasks -> GoodCall]
  BY DEF TypeInv, TypeOK
<1>2. call' = [call EXCEPT ![t] = call'[t]]
  BY <1>1 DEF NewSiblingRejected
<1>3. call'[t] = [pc |-> "releasePair", op |-> "error", obj |-> None,
                     code |-> {}, pair |-> chan[s].pair]
  BY <1>1 DEF NewSiblingRejected
<1>4. call'[t] \in GoodCall
  BY <1>1, <1>3, PairFacts DEF GoodCall, Call, PCs, Channel, Dirs
<1>5. chan' \in [Channels -> Channel]
  BY DEF NewSiblingRejected, TypeInv, TypeOK
<1>6. /\ groupUp' \in [Groups -> BOOLEAN]
      /\ groupRef' \in [Groups -> Int]
  BY DEF NewSiblingRejected, TypeInv, TypeOK, groupVars
<1>7. inUse' \in [Groups -> [Dirs -> SUBSET PeriphIds]]
  BY DEF NewSiblingRejected, TypeInv, TypeOK, groupVars
<1>8. pairUp' \in [Pairs -> BOOLEAN] /\ pairRef' \in [Pairs -> Int]
  BY DEF NewSiblingRejected, TypeInv, TypeOK, pairVars
<1>9. occupy' \in [Pairs -> SUBSET Dirs]
  BY DEF NewSiblingRejected, TypeInv, TypeOK, pairVars
<1>10. slot' \in [Pairs -> [Dirs -> Channels \cup {None}]]
  BY DEF NewSiblingRejected, TypeInv, TypeOK, pairVars
<1>11. events' \in [Pairs -> SUBSET Dirs]
  BY DEF NewSiblingRejected, TypeInv, TypeOK, intrVars
<1>12. handlers' \in [Channels -> Int]
  BY DEF NewSiblingRejected, TypeInv, TypeOK, intrVars
<1> QED
  BY <1>2, <1>4, <1>5, <1>6, <1>7, <1>8, <1>9, <1>10, <1>11, <1>12
  DEF TypeInv, TypeOK, GoodCall

LEMMA TypeAcquireGroup ==
    ASSUME TypeInv, NEW t \in Tasks,
           AcquireGroup(t)
    PROVE  TypeInv'
<1>1. call[t] \in GoodCall /\ call[t].pc = "acquireGroup"
  BY DEF AcquireGroup, TypeInv, At
<1>2. call' = [call EXCEPT ![t] = call'[t]]
  BY DEF AcquireGroup, TypeInv, TypeOK, Goto, Return
<1>3. call'[t] = [call[t] EXCEPT !.pc = "acquirePair"]
  BY DEF AcquireGroup, TypeInv, TypeOK, Goto, Return
<1>4. call'[t] \in GoodCall
  BY <1>1, <1>3, PairFacts, IdleType DEF AcquireGroup, GoodCall, Call, PCs, GroupOf
<1>5. chan' \in [Channels -> Channel]
  BY DEF AcquireGroup, TypeInv, TypeOK
<1>6. /\ groupUp' \in [Groups -> BOOLEAN]
      /\ groupRef' \in [Groups -> Int]
  <2>1. groupRef[GroupOf(t)] \in Int
    BY DEF AcquireGroup, TypeInv, TypeOK
  <2>2. groupRef' = [groupRef EXCEPT ![GroupOf(t)] =
                        groupRef[GroupOf(t)] + 1]
    BY DEF AcquireGroup
  <2>3. groupUp' \in {groupUp, [groupUp EXCEPT ![GroupOf(t)] = TRUE]}
    BY DEF AcquireGroup
  <2>4. groupRef' \in [Groups -> Int]
    <3>1. groupRef[GroupOf(t)] + 1 \in Int
      BY <2>1
    <3> QED
      BY <2>2, <3>1, FunUpdate DEF TypeInv, TypeOK
  <2>5. groupUp' \in [Groups -> BOOLEAN]
    BY <2>3 DEF TypeInv, TypeOK
  <2> QED
    BY <2>4, <2>5
<1>7. inUse' \in [Groups -> [Dirs -> SUBSET PeriphIds]]
  <2>1. inUse' \in {inUse, [inUse EXCEPT ![GroupOf(t)] =
                                            [d \in Dirs |-> {}]]}
    BY DEF AcquireGroup
  <2>2. [d \in Dirs |-> {}] \in [Dirs -> SUBSET PeriphIds]
    OBVIOUS
  <2> QED
    BY <2>1, <2>2, FunUpdate DEF TypeInv, TypeOK
<1>8. pairUp' \in [Pairs -> BOOLEAN] /\ pairRef' \in [Pairs -> Int]
  <2>1. CASE groupUp[GroupOf(t)]
    BY <2>1 DEF AcquireGroup, TypeInv, TypeOK
  <2>2. CASE ~groupUp[GroupOf(t)]
    <3>1. /\ pairUp' = [q \in Pairs |-> q[1] # GroupOf(t) /\ pairUp[q]]
          /\ pairRef' = [q \in Pairs |->
                            IF q[1] = GroupOf(t) THEN 0 ELSE pairRef[q]]
      BY <2>2 DEF AcquireGroup
    <3>2. \A q \in Pairs : pairRef[q] \in Int
      BY DEF TypeInv, TypeOK
    <3> QED
      BY <3>1, <3>2
  <2> QED
    BY <2>1, <2>2
<1>9. occupy' \in [Pairs -> SUBSET Dirs]
  BY DEF AcquireGroup, TypeInv, TypeOK, pairVars
<1>10. slot' \in [Pairs -> [Dirs -> Channels \cup {None}]]
  BY DEF AcquireGroup, TypeInv, TypeOK, pairVars
<1>11. events' \in [Pairs -> SUBSET Dirs]
  <2>1. \A q \in Pairs : events[q] \in SUBSET Dirs
    BY DEF TypeInv, TypeOK
  <2>2. events' \in {events, [q \in Pairs |->
                            IF q[1] = GroupOf(t) THEN {} ELSE events[q]]}
    BY DEF AcquireGroup
  <2> QED
    BY <2>1, <2>2 DEF TypeInv, TypeOK
<1>12. handlers' \in [Channels -> Int]
  BY DEF AcquireGroup, TypeInv, TypeOK, intrVars
<1> QED
  BY <1>2, <1>4, <1>5, <1>6, <1>7, <1>8, <1>9, <1>10, <1>11, <1>12
  DEF TypeInv, TypeOK, GoodCall

LEMMA TypeGiveUpSearch ==
    ASSUME TypeInv, NEW t \in Tasks,
           GiveUpSearch(t)
    PROVE  TypeInv'
<1>1. call[t] \in GoodCall /\ call[t].pc = "acquireGroup"
  BY DEF GiveUpSearch, TypeInv, At
<1>2. call' = [call EXCEPT ![t] = call'[t]]
  BY DEF GiveUpSearch, TypeInv, TypeOK, Goto, Return
<1>3. call'[t] = Idle
  BY DEF GiveUpSearch, TypeInv, TypeOK, Goto, Return
<1>4. call'[t] \in GoodCall
  BY <1>1, <1>3, PairFacts, IdleType DEF GiveUpSearch, GoodCall, Call, PCs, GroupOf
<1>5. chan' \in [Channels -> Channel]
  <2>1. call[t].obj \in Channels /\ chan[call[t].obj] \in Channel
    BY <1>1 DEF TypeInv, TypeOK, GoodCall
  <2>2. chan' = [chan EXCEPT ![call[t].obj] = FreeChannel]
    BY <2>1 DEF GiveUpSearch, TypeInv, TypeOK
  <2>3. FreeChannel \in Channel
    BY <2>1, FreeChannelType DEF Channel, GoodCall, Unbound
  <2> QED
    BY <2>1, <2>2, <2>3 DEF TypeInv, TypeOK
<1>6. /\ groupUp' \in [Groups -> BOOLEAN]
      /\ groupRef' \in [Groups -> Int]
  BY DEF GiveUpSearch, TypeInv, TypeOK, groupVars
<1>7. inUse' \in [Groups -> [Dirs -> SUBSET PeriphIds]]
  BY DEF GiveUpSearch, TypeInv, TypeOK, groupVars
<1>8. pairUp' \in [Pairs -> BOOLEAN] /\ pairRef' \in [Pairs -> Int]
  BY DEF GiveUpSearch, TypeInv, TypeOK, pairVars
<1>9. occupy' \in [Pairs -> SUBSET Dirs]
  BY DEF GiveUpSearch, TypeInv, TypeOK, pairVars
<1>10. slot' \in [Pairs -> [Dirs -> Channels \cup {None}]]
  BY DEF GiveUpSearch, TypeInv, TypeOK, pairVars
<1>11. events' \in [Pairs -> SUBSET Dirs]
  BY DEF GiveUpSearch, TypeInv, TypeOK, intrVars
<1>12. handlers' \in [Channels -> Int]
  BY DEF GiveUpSearch, TypeInv, TypeOK, intrVars
<1> QED
  BY <1>2, <1>4, <1>5, <1>6, <1>7, <1>8, <1>9, <1>10, <1>11, <1>12
  DEF TypeInv, TypeOK, GoodCall

LEMMA TypeAcquirePair ==
    ASSUME TypeInv, NEW t \in Tasks,
           AcquirePair(t)
    PROVE  TypeInv'
<1>1. call[t] \in GoodCall /\ call[t].pc = "acquirePair"
  BY DEF AcquirePair, TypeInv, At
<1>2. call' = [call EXCEPT ![t] = call'[t]]
  BY DEF AcquirePair, TypeInv, TypeOK, Goto, Return
<1>3. \/ call'[t] = [call[t] EXCEPT !.pc = "occupy"]
      \/ call'[t] = [call[t] EXCEPT !.pc = "refGroup"]
  BY DEF AcquirePair, TypeInv, TypeOK, Goto, Return
<1>4. call'[t] \in GoodCall
  BY <1>1, <1>3, PairFacts, IdleType DEF AcquirePair, GoodCall, Call, PCs, GroupOf
<1>5. chan' \in [Channels -> Channel]
  BY DEF AcquirePair, TypeInv, TypeOK
<1>6. /\ groupUp' \in [Groups -> BOOLEAN]
      /\ groupRef' \in [Groups -> Int]
  BY DEF AcquirePair, TypeInv, TypeOK, groupVars
<1>7. inUse' \in [Groups -> [Dirs -> SUBSET PeriphIds]]
  BY DEF AcquirePair, TypeInv, TypeOK, groupVars
<1>8. pairUp' \in [Pairs -> BOOLEAN] /\ pairRef' \in [Pairs -> Int]
  <2>1. pairRef[call[t].pair] \in Int
    BY <1>1 DEF TypeInv, TypeOK, GoodCall
  <2>2. pairRef' = [pairRef EXCEPT ![call[t].pair] =
                       pairRef[call[t].pair] + 1]
    BY DEF AcquirePair
  <2>3. pairUp' \in {pairUp, [pairUp EXCEPT ![call[t].pair] = TRUE]}
    BY DEF AcquirePair
  <2>4. pairUp' \in [Pairs -> BOOLEAN]
    BY <2>3 DEF TypeInv, TypeOK
  <2>5. pairRef' \in [Pairs -> Int]
    <3>1. pairRef[call[t].pair] + 1 \in Int
      BY <2>1
    <3> QED
      BY <2>2, <3>1, FunUpdate DEF TypeInv, TypeOK
  <2> QED
    BY <2>4, <2>5
<1>9. occupy' \in [Pairs -> SUBSET Dirs]
  <2>1. occupy' \in {occupy, [occupy EXCEPT ![call[t].pair] = {}]}
    BY DEF AcquirePair
  <2>2. {} \in SUBSET Dirs
    OBVIOUS
  <2> QED
    BY <2>1, <2>2, FunUpdate DEF TypeInv, TypeOK
<1>10. slot' \in [Pairs -> [Dirs -> Channels \cup {None}]]
  <2>1. slot' \in {slot, [slot EXCEPT ![call[t].pair] =
                                             [d \in Dirs |-> None]]}
    BY DEF AcquirePair
  <2> DEFINE empty == [d \in Dirs |-> None]
  <2>2. empty \in [Dirs -> Channels \cup {None}]
    OBVIOUS
  <2>3. slot \in [Pairs -> [Dirs -> Channels \cup {None}]]
    BY DEF TypeInv, TypeOK
  <2> HIDE DEF empty
  <2>4. [slot EXCEPT ![call[t].pair] = empty]
           \in [Pairs -> [Dirs -> Channels \cup {None}]]
    BY <2>2, <2>3, FunUpdate
  <2> QED
    BY <2>1, <2>3, <2>4 DEF empty
<1>11. events' \in [Pairs -> SUBSET Dirs]
  BY DEF AcquirePair, TypeInv, TypeOK, intrVars
<1>12. handlers' \in [Channels -> Int]
  BY DEF AcquirePair, TypeInv, TypeOK, intrVars
<1> QED
  BY <1>2, <1>4, <1>5, <1>6, <1>7, <1>8, <1>9, <1>10, <1>11, <1>12
  DEF TypeInv, TypeOK, GoodCall

LEMMA TypeAcquirePairNoMem ==
    ASSUME TypeInv, NEW t \in Tasks,
           AcquirePairNoMem(t)
    PROVE  TypeInv'
<1>1. call[t] \in GoodCall /\ call[t].pc = "acquirePair"
  BY DEF AcquirePairNoMem, TypeInv, At
<1>2. call' = [call EXCEPT ![t] = call'[t]]
  BY DEF AcquirePairNoMem, TypeInv, TypeOK, Goto, Return
<1>3. call'[t] = [call[t] EXCEPT !.pc = "releaseGroup", !.op = "error",
                                !.obj = None]
  BY DEF AcquirePairNoMem, TypeInv, TypeOK, Goto, Return
<1>4. call'[t] \in GoodCall
  <2>1. call[t] \in Call
    BY <1>1 DEF GoodCall
  <2>2. call'[t] \in Call
    BY <2>1, <1>3 DEF Call, PCs
  <2>3. /\ call'[t].pc = "releaseGroup"
        /\ call'[t].op \in {"error", "delete"}
        /\ call'[t].obj = None
        /\ call'[t].pair = call[t].pair
        /\ call[t].pair \in Pairs
    BY <1>1, <1>3, <2>1 DEF GoodCall, Call
  <2> QED
    BY <2>2, <2>3 DEF GoodCall
<1>5. chan' \in [Channels -> Channel]
  <2>1. call[t].obj \in Channels /\ chan[call[t].obj] \in Channel
    BY <1>1 DEF TypeInv, TypeOK, GoodCall
  <2>2. chan' = [chan EXCEPT ![call[t].obj] = FreeChannel]
    BY <2>1 DEF AcquirePairNoMem, TypeInv, TypeOK
  <2>3. FreeChannel \in Channel
    BY <2>1, FreeChannelType DEF Channel, GoodCall, Unbound
  <2> QED
    BY <2>1, <2>2, <2>3 DEF TypeInv, TypeOK
<1>6. /\ groupUp' \in [Groups -> BOOLEAN]
      /\ groupRef' \in [Groups -> Int]
  BY DEF AcquirePairNoMem, TypeInv, TypeOK, groupVars
<1>7. inUse' \in [Groups -> [Dirs -> SUBSET PeriphIds]]
  BY DEF AcquirePairNoMem, TypeInv, TypeOK, groupVars
<1>8. pairUp' \in [Pairs -> BOOLEAN] /\ pairRef' \in [Pairs -> Int]
  BY DEF AcquirePairNoMem, TypeInv, TypeOK, pairVars
<1>9. occupy' \in [Pairs -> SUBSET Dirs]
  BY DEF AcquirePairNoMem, TypeInv, TypeOK, pairVars
<1>10. slot' \in [Pairs -> [Dirs -> Channels \cup {None}]]
  BY DEF AcquirePairNoMem, TypeInv, TypeOK, pairVars
<1>11. events' \in [Pairs -> SUBSET Dirs]
  BY DEF AcquirePairNoMem, TypeInv, TypeOK, intrVars
<1>12. handlers' \in [Channels -> Int]
  BY DEF AcquirePairNoMem, TypeInv, TypeOK, intrVars
<1> QED
  BY <1>2, <1>4, <1>5, <1>6, <1>7, <1>8, <1>9, <1>10, <1>11, <1>12
  DEF TypeInv, TypeOK, GoodCall

LEMMA TypeRefGroup ==
    ASSUME TypeInv, NEW t \in Tasks,
           RefGroup(t)
    PROVE  TypeInv'
<1>1. call[t] \in GoodCall /\ call[t].pc = "refGroup"
  BY DEF RefGroup, TypeInv, At
<1>2. call' = [call EXCEPT ![t] = call'[t]]
  BY DEF RefGroup, TypeInv, TypeOK, Goto, Return
<1>3. call'[t] = [call[t] EXCEPT !.pc = "occupy"]
  BY DEF RefGroup, TypeInv, TypeOK, Goto, Return
<1>4. call'[t] \in GoodCall
  BY <1>1, <1>3, PairFacts, IdleType DEF RefGroup, GoodCall, Call, PCs, GroupOf
<1>5. chan' \in [Channels -> Channel]
  BY DEF RefGroup, TypeInv, TypeOK
<1>6. /\ groupUp' \in [Groups -> BOOLEAN]
      /\ groupRef' \in [Groups -> Int]
  <2>1. groupRef[GroupOf(t)] \in Int
    BY <1>1, PairFacts DEF TypeInv, TypeOK, GoodCall, GroupOf
  <2>2. groupRef' = [groupRef EXCEPT ![GroupOf(t)] =
                        groupRef[GroupOf(t)] + 1]
    BY DEF RefGroup
  <2> QED
    <3>1. groupRef[GroupOf(t)] + 1 \in Int
      BY <2>1
    <3>2. groupRef' \in [Groups -> Int]
      BY <2>2, <3>1, FunUpdate DEF TypeInv, TypeOK
    <3> QED
      BY <3>2 DEF RefGroup, TypeInv, TypeOK
<1>7. inUse' \in [Groups -> [Dirs -> SUBSET PeriphIds]]
  BY DEF RefGroup, TypeInv, TypeOK, DropGroupRef
<1>8. pairUp' \in [Pairs -> BOOLEAN] /\ pairRef' \in [Pairs -> Int]
  BY DEF RefGroup, TypeInv, TypeOK, pairVars
<1>9. occupy' \in [Pairs -> SUBSET Dirs]
  BY DEF RefGroup, TypeInv, TypeOK, pairVars
<1>10. slot' \in [Pairs -> [Dirs -> Channels \cup {None}]]
  BY DEF RefGroup, TypeInv, TypeOK, pairVars
<1>11. events' \in [Pairs -> SUBSET Dirs]
  BY DEF RefGroup, TypeInv, TypeOK, intrVars
<1>12. handlers' \in [Channels -> Int]
  BY DEF RefGroup, TypeInv, TypeOK, intrVars
<1> QED
  BY <1>2, <1>4, <1>5, <1>6, <1>7, <1>8, <1>9, <1>10, <1>11, <1>12
  DEF TypeInv, TypeOK, GoodCall

LEMMA TypeOccupy ==
    ASSUME TypeInv, NEW t \in Tasks,
           Occupy(t)
    PROVE  TypeInv'
<1>1. call[t] \in GoodCall /\ call[t].pc = "occupy"
  BY DEF Occupy, TypeInv, At
<1>2. call' = [call EXCEPT ![t] = call'[t]]
  BY DEF Occupy, TypeInv, TypeOK, Goto, Return
<1>3. \/ call'[t] = [call[t] EXCEPT !.pc = "register"]
      \/ call'[t] = [call[t] EXCEPT !.pc = "releasePair"]
  BY DEF Occupy, TypeInv, TypeOK, Goto, Return
<1>4. call'[t] \in GoodCall
  BY <1>1, <1>3, PairFacts, IdleType DEF Occupy, GoodCall, Call, PCs, GroupOf
<1>5. chan' \in [Channels -> Channel]
  BY DEF Occupy, TypeInv, TypeOK
<1>6. /\ groupUp' \in [Groups -> BOOLEAN]
      /\ groupRef' \in [Groups -> Int]
  BY DEF Occupy, TypeInv, TypeOK, groupVars
<1>7. inUse' \in [Groups -> [Dirs -> SUBSET PeriphIds]]
  BY DEF Occupy, TypeInv, TypeOK, groupVars
<1>8. pairUp' \in [Pairs -> BOOLEAN] /\ pairRef' \in [Pairs -> Int]
  BY DEF Occupy, TypeInv, TypeOK, pairVars
<1>9. occupy' \in [Pairs -> SUBSET Dirs]
  <2>1. /\ occupy[call[t].pair] \in SUBSET Dirs
        /\ call[t].code \in SUBSET Dirs
    BY <1>1 DEF TypeInv, TypeOK, GoodCall, Call
  <2>2. occupy' \in {occupy, [occupy EXCEPT ![call[t].pair] =
                          occupy[call[t].pair] \cup call[t].code]}
    BY DEF Occupy
  <2>3. occupy[call[t].pair] \cup call[t].code \in SUBSET Dirs
    BY <2>1
  <2> DEFINE v == occupy[call[t].pair] \cup call[t].code
  <2> HIDE DEF v
  <2>4. occupy' \in {occupy, [occupy EXCEPT ![call[t].pair] = v]}
    BY <2>2 DEF v
  <2>5. v \in SUBSET Dirs
    BY <2>3 DEF v
  <2> QED
    BY <2>4, <2>5 DEF TypeInv, TypeOK
<1>10. slot' \in [Pairs -> [Dirs -> Channels \cup {None}]]
  BY DEF Occupy, TypeInv, TypeOK, pairVars
<1>11. events' \in [Pairs -> SUBSET Dirs]
  BY DEF Occupy, TypeInv, TypeOK, intrVars
<1>12. handlers' \in [Channels -> Int]
  BY DEF Occupy, TypeInv, TypeOK, intrVars
<1> QED
  BY <1>2, <1>4, <1>5, <1>6, <1>7, <1>8, <1>9, <1>10, <1>11, <1>12
  DEF TypeInv, TypeOK, GoodCall

LEMMA TypeRegister ==
    ASSUME TypeInv, NEW t \in Tasks,
           Register(t)
    PROVE  TypeInv'
<1>1. call[t] \in GoodCall /\ call[t].pc = "register"
  BY DEF Register, TypeInv, At
<1>2. call' = [call EXCEPT ![t] = call'[t]]
  BY DEF Register, TypeInv, TypeOK, Goto, Return
<1>3. call'[t] = Idle
  BY DEF Register, TypeInv, TypeOK, Goto, Return
<1>4. call'[t] \in GoodCall
  BY <1>1, <1>3, PairFacts, IdleType DEF Register, GoodCall, Call, PCs, GroupOf
<1>5. chan' \in [Channels -> Channel]
  <2>1. call[t].obj \in Channels /\ chan[call[t].obj] \in Channel
    BY <1>1 DEF TypeInv, TypeOK, GoodCall
  <2>2. chan' = [chan EXCEPT ![call[t].obj] = [chan[call[t].obj] EXCEPT !.st = "live",
                                                    !.pair = call[t].pair]]
    BY <2>1 DEF Register, TypeInv, TypeOK
  <2>3. [chan[call[t].obj] EXCEPT !.st = "live",
                                                    !.pair = call[t].pair] \in Channel
    BY <2>1, <1>1, FreeChannelType DEF Channel, GoodCall, Unbound
  <2> QED
    BY <2>1, <2>2, <2>3 DEF TypeInv, TypeOK
<1>6. /\ groupUp' \in [Groups -> BOOLEAN]
      /\ groupRef' \in [Groups -> Int]
  BY DEF Register, TypeInv, TypeOK, groupVars
<1>7. inUse' \in [Groups -> [Dirs -> SUBSET PeriphIds]]
  BY DEF Register, TypeInv, TypeOK, groupVars
<1>8. pairUp' \in [Pairs -> BOOLEAN] /\ pairRef' \in [Pairs -> Int]
  BY DEF Register, TypeInv, TypeOK, pairVars
<1>9. occupy' \in [Pairs -> SUBSET Dirs]
  BY DEF Register, TypeInv, TypeOK, pairVars
<1>10. slot' \in [Pairs -> [Dirs -> Channels \cup {None}]]
  <2>1. /\ call[t].obj \in Channels
        /\ slot[call[t].pair] \in [Dirs -> Channels \cup {None}]
    BY <1>1 DEF TypeInv, TypeOK, GoodCall
  <2>2. slot' = [slot EXCEPT ![call[t].pair] =
                    [slot[call[t].pair] EXCEPT ![chan[call[t].obj].dir] =
                                                    call[t].obj]]
    BY DEF Register
  <2>3. [slot[call[t].pair] EXCEPT ![chan[call[t].obj].dir] = call[t].obj]
            \in [Dirs -> Channels \cup {None}]
    BY <2>1
  <2> QED
    BY <2>2, <2>3 DEF TypeInv, TypeOK
<1>11. events' \in [Pairs -> SUBSET Dirs]
  BY DEF Register, TypeInv, TypeOK, intrVars
<1>12. handlers' \in [Channels -> Int]
  BY DEF Register, TypeInv, TypeOK, intrVars
<1> QED
  BY <1>2, <1>4, <1>5, <1>6, <1>7, <1>8, <1>9, <1>10, <1>11, <1>12
  DEF TypeInv, TypeOK, GoodCall

LEMMA TypeUninstallIntr ==
    ASSUME TypeInv, NEW t \in Tasks,
           UninstallIntr(t)
    PROVE  TypeInv'
<1>1. call[t] \in GoodCall /\ call[t].pc = "uninstall"
  BY DEF UninstallIntr, TypeInv, At
<1>2. call' = [call EXCEPT ![t] = call'[t]]
  BY DEF UninstallIntr, TypeInv, TypeOK, Goto, Return
<1>3. call'[t] = [call[t] EXCEPT !.pc = "disableEvents"]
  BY DEF UninstallIntr, TypeInv, TypeOK, Goto, Return
<1>4. call'[t] \in GoodCall
  BY <1>1, <1>3, PairFacts, IdleType DEF UninstallIntr, GoodCall, Call, PCs, GroupOf
<1>5. chan' \in [Channels -> Channel]
  BY DEF UninstallIntr, TypeInv, TypeOK
<1>6. /\ groupUp' \in [Groups -> BOOLEAN]
      /\ groupRef' \in [Groups -> Int]
  BY DEF UninstallIntr, TypeInv, TypeOK, groupVars
<1>7. inUse' \in [Groups -> [Dirs -> SUBSET PeriphIds]]
  BY DEF UninstallIntr, TypeInv, TypeOK, groupVars
<1>8. pairUp' \in [Pairs -> BOOLEAN] /\ pairRef' \in [Pairs -> Int]
  BY DEF UninstallIntr, TypeInv, TypeOK, pairVars
<1>9. occupy' \in [Pairs -> SUBSET Dirs]
  BY DEF UninstallIntr, TypeInv, TypeOK, pairVars
<1>10. slot' \in [Pairs -> [Dirs -> Channels \cup {None}]]
  BY DEF UninstallIntr, TypeInv, TypeOK, pairVars
<1>11. events' \in [Pairs -> SUBSET Dirs]
  BY DEF UninstallIntr, TypeInv, TypeOK, intrVars
<1>12. handlers' \in [Channels -> Int]
  <2>1. handlers[call[t].obj] \in Int
    BY <1>1 DEF TypeInv, TypeOK, GoodCall
  <2>2. handlers' = [handlers EXCEPT ![call[t].obj] =
                        handlers[call[t].obj] - 1]
    BY DEF UninstallIntr
  <2>3. handlers[call[t].obj] - 1 \in Int
    BY <2>1
  <2> QED
    BY <2>2, <2>3, FunUpdate DEF TypeInv, TypeOK
<1> QED
  BY <1>2, <1>4, <1>5, <1>6, <1>7, <1>8, <1>9, <1>10, <1>11, <1>12
  DEF TypeInv, TypeOK, GoodCall

LEMMA TypeDisableEvents ==
    ASSUME TypeInv, NEW t \in Tasks,
           DisableEvents(t)
    PROVE  TypeInv'
<1>1. call[t] \in GoodCall /\ call[t].pc = "disableEvents"
  BY DEF DisableEvents, TypeInv, At
<1>2. call' = [call EXCEPT ![t] = call'[t]]
  BY DEF DisableEvents, TypeInv, TypeOK, Goto, Return
<1>3. call'[t] = [call[t] EXCEPT !.pc = "releasePair", !.obj = None]
  BY DEF DisableEvents, TypeInv, TypeOK, Goto, Return
<1>4. call'[t] \in GoodCall
  <2>1. call[t] \in Call
    BY <1>1 DEF GoodCall
  <2>2. call'[t] \in Call
    BY <2>1, <1>3 DEF Call, PCs
  <2>3. /\ call'[t].pc = "releasePair"
        /\ call'[t].op \in {"error", "delete"}
        /\ call'[t].obj = None
        /\ call'[t].pair = call[t].pair
        /\ call[t].pair \in Pairs
    BY <1>1, <1>3, <2>1 DEF GoodCall, Call
  <2> QED
    BY <2>2, <2>3 DEF GoodCall
<1>5. chan' \in [Channels -> Channel]
  <2>1. call[t].obj \in Channels /\ chan[call[t].obj] \in Channel
    BY <1>1 DEF TypeInv, TypeOK, GoodCall
  <2>2. chan' = [chan EXCEPT ![call[t].obj] = FreeChannel]
    BY <2>1 DEF DisableEvents, TypeInv, TypeOK
  <2>3. FreeChannel \in Channel
    BY <2>1, FreeChannelType DEF Channel, GoodCall, Unbound
  <2> QED
    BY <2>1, <2>2, <2>3 DEF TypeInv, TypeOK
<1>6. /\ groupUp' \in [Groups -> BOOLEAN]
      /\ groupRef' \in [Groups -> Int]
  BY DEF DisableEvents, TypeInv, TypeOK, groupVars
<1>7. inUse' \in [Groups -> [Dirs -> SUBSET PeriphIds]]
  BY DEF DisableEvents, TypeInv, TypeOK, groupVars
<1>8. pairUp' \in [Pairs -> BOOLEAN] /\ pairRef' \in [Pairs -> Int]
  BY DEF DisableEvents, TypeInv, TypeOK, pairVars
<1>9. occupy' \in [Pairs -> SUBSET Dirs]
  BY DEF DisableEvents, TypeInv, TypeOK, pairVars
<1>10. slot' \in [Pairs -> [Dirs -> Channels \cup {None}]]
  BY DEF DisableEvents, TypeInv, TypeOK, pairVars
<1>11. events' \in [Pairs -> SUBSET Dirs]
  BY DEF DisableEvents, TypeInv, TypeOK, intrVars
<1>12. handlers' \in [Channels -> Int]
  BY DEF DisableEvents, TypeInv, TypeOK, intrVars
<1> QED
  BY <1>2, <1>4, <1>5, <1>6, <1>7, <1>8, <1>9, <1>10, <1>11, <1>12
  DEF TypeInv, TypeOK, GoodCall

LEMMA TypeInstallIntr ==
    ASSUME TypeInv, NEW t \in Tasks, NEW c \in Channels,
           InstallIntr(t, c)
    PROVE  TypeInv'
<1>1. chan \in [Channels -> Channel] /\ call \in [Tasks -> GoodCall]
  BY DEF TypeInv, TypeOK
<1>2. call' = [call EXCEPT ![t] = call'[t]]
  BY <1>1 DEF InstallIntr
<1>3. call'[t] = [pc |-> "enableEvents", op |-> "none", obj |-> c,
                     code |-> {}, pair |-> chan[c].pair]
  BY <1>1 DEF InstallIntr
<1>4. call'[t] \in GoodCall
  BY <1>1, <1>3, PairFacts DEF GoodCall, Call, PCs, Channel, Dirs
<1>5. chan' \in [Channels -> Channel]
  <2>1. c \in Channels /\ chan[c] \in Channel
    BY DEF TypeInv, TypeOK, GoodCall
  <2>2. chan' = [chan EXCEPT ![c] = [chan[c] EXCEPT !.intr = TRUE]]
    BY <2>1 DEF InstallIntr, TypeInv, TypeOK
  <2>3. [chan[c] EXCEPT !.intr = TRUE] \in Channel
    BY <2>1, FreeChannelType DEF Channel, GoodCall, Unbound
  <2> QED
    BY <2>1, <2>2, <2>3 DEF TypeInv, TypeOK
<1>6. /\ groupUp' \in [Groups -> BOOLEAN]
      /\ groupRef' \in [Groups -> Int]
  BY DEF InstallIntr, TypeInv, TypeOK, groupVars
<1>7. inUse' \in [Groups -> [Dirs -> SUBSET PeriphIds]]
  BY DEF InstallIntr, TypeInv, TypeOK, groupVars
<1>8. pairUp' \in [Pairs -> BOOLEAN] /\ pairRef' \in [Pairs -> Int]
  BY DEF InstallIntr, TypeInv, TypeOK, pairVars
<1>9. occupy' \in [Pairs -> SUBSET Dirs]
  BY DEF InstallIntr, TypeInv, TypeOK, pairVars
<1>10. slot' \in [Pairs -> [Dirs -> Channels \cup {None}]]
  BY DEF InstallIntr, TypeInv, TypeOK, pairVars
<1>11. events' \in [Pairs -> SUBSET Dirs]
  BY DEF InstallIntr, TypeInv, TypeOK, intrVars
<1>12. handlers' \in [Channels -> Int]
  BY DEF InstallIntr, TypeInv, TypeOK, intrVars
<1> QED
  BY <1>2, <1>4, <1>5, <1>6, <1>7, <1>8, <1>9, <1>10, <1>11, <1>12
  DEF TypeInv, TypeOK, GoodCall

LEMMA TypeEnableEvents ==
    ASSUME TypeInv, NEW t \in Tasks, NEW on \in BOOLEAN,
           EnableEvents(t, on)
    PROVE  TypeInv'
<1>1. call[t] \in GoodCall /\ call[t].pc = "enableEvents"
  BY DEF EnableEvents, TypeInv, At
<1>2. call' = [call EXCEPT ![t] = call'[t]]
  BY DEF EnableEvents, TypeInv, TypeOK, Goto, Return
<1>3. call'[t] = Idle
  BY DEF EnableEvents, TypeInv, TypeOK, Goto, Return
<1>4. call'[t] \in GoodCall
  BY <1>1, <1>3, PairFacts, IdleType DEF EnableEvents, GoodCall, Call, PCs, GroupOf
<1>5. chan' \in [Channels -> Channel]
  <2>1. call[t].obj \in Channels /\ chan[call[t].obj] \in Channel
    BY <1>1 DEF TypeInv, TypeOK, GoodCall
  <2>2. chan' = [chan EXCEPT ![call[t].obj] = [chan[call[t].obj] EXCEPT !.cb = on]]
    BY <2>1 DEF EnableEvents, TypeInv, TypeOK
  <2>3. [chan[call[t].obj] EXCEPT !.cb = on] \in Channel
    BY <2>1, FreeChannelType DEF Channel, GoodCall, Unbound
  <2> QED
    BY <2>1, <2>2, <2>3 DEF TypeInv, TypeOK
<1>6. /\ groupUp' \in [Groups -> BOOLEAN]
      /\ groupRef' \in [Groups -> Int]
  BY DEF EnableEvents, TypeInv, TypeOK, groupVars
<1>7. inUse' \in [Groups -> [Dirs -> SUBSET PeriphIds]]
  BY DEF EnableEvents, TypeInv, TypeOK, groupVars
<1>8. pairUp' \in [Pairs -> BOOLEAN] /\ pairRef' \in [Pairs -> Int]
  BY DEF EnableEvents, TypeInv, TypeOK, pairVars
<1>9. occupy' \in [Pairs -> SUBSET Dirs]
  BY DEF EnableEvents, TypeInv, TypeOK, pairVars
<1>10. slot' \in [Pairs -> [Dirs -> Channels \cup {None}]]
  BY DEF EnableEvents, TypeInv, TypeOK, pairVars
<1>11. events' \in [Pairs -> SUBSET Dirs]
  <2>1. chan[call[t].obj] \in Channel
    BY <1>1 DEF TypeInv, TypeOK, GoodCall
  <2>2. /\ chan[call[t].obj].dir \in Dirs
        /\ events[chan[call[t].obj].pair] \in SUBSET Dirs
    BY <2>1 DEF TypeInv, TypeOK, Channel
  <2>3. \E e \in SUBSET Dirs :
           events' = [events EXCEPT ![chan[call[t].obj].pair] = e]
    BY <2>2 DEF EnableEvents
  <2> QED
    BY <2>3 DEF TypeInv, TypeOK
<1>12. handlers' \in [Channels -> Int]
  BY DEF EnableEvents, TypeInv, TypeOK, intrVars
<1> QED
  BY <1>2, <1>4, <1>5, <1>6, <1>7, <1>8, <1>9, <1>10, <1>11, <1>12
  DEF TypeInv, TypeOK, GoodCall

LEMMA TypeConnect ==
    ASSUME TypeInv, NEW t \in Tasks, NEW c \in Channels,
           NEW id \in PeriphIds \cup {Unbound},
           Connect(t, c, id)
    PROVE  TypeInv'
<1>5. chan' \in [Channels -> Channel]
  <2>1. c \in Channels /\ chan[c] \in Channel
    BY DEF TypeInv, TypeOK, GoodCall
  <2>2. chan' = [chan EXCEPT ![c] = [chan[c] EXCEPT !.periph = id]]
    BY <2>1 DEF Connect, TypeInv, TypeOK
  <2>3. [chan[c] EXCEPT !.periph = id] \in Channel
    BY <2>1, FreeChannelType DEF Channel, GoodCall, Unbound
  <2> QED
    BY <2>1, <2>2, <2>3 DEF TypeInv, TypeOK
<1>6. /\ groupUp' \in [Groups -> BOOLEAN]
      /\ groupRef' \in [Groups -> Int]
  BY DEF Connect, TypeInv, TypeOK, DropGroupRef
<1>7. inUse' \in [Groups -> [Dirs -> SUBSET PeriphIds]]
  <2> DEFINE g == chan[c].pair[1]
             d == chan[c].dir
             m == inUse[g][d] \cup ({id} \cap PeriphIds)
  <2>1. chan[c] \in Channel
    BY DEF TypeInv, TypeOK
  <2>2. g \in Groups /\ d \in Dirs
    BY <2>1, PairFacts DEF Channel
  <2>3. inUse[g] \in [Dirs -> SUBSET PeriphIds] /\ m \in SUBSET PeriphIds
    BY <2>2 DEF TypeInv, TypeOK
  <2>4. inUse' = [inUse EXCEPT ![g] = [inUse[g] EXCEPT ![d] = m]]
    BY DEF Connect
  <2>5. [inUse[g] EXCEPT ![d] = m] \in [Dirs -> SUBSET PeriphIds]
    BY <2>3
  <2> HIDE DEF g, d, m
  <2> QED
    BY <2>4, <2>5 DEF TypeInv, TypeOK
<1>8. pairUp' \in [Pairs -> BOOLEAN] /\ pairRef' \in [Pairs -> Int]
  BY DEF Connect, TypeInv, TypeOK, pairVars
<1>9. occupy' \in [Pairs -> SUBSET Dirs]
  BY DEF Connect, TypeInv, TypeOK, pairVars
<1>10. slot' \in [Pairs -> [Dirs -> Channels \cup {None}]]
  BY DEF Connect, TypeInv, TypeOK, pairVars
<1>11. events' \in [Pairs -> SUBSET Dirs]
  BY DEF Connect, TypeInv, TypeOK, intrVars
<1>12. handlers' \in [Channels -> Int]
  BY DEF Connect, TypeInv, TypeOK, intrVars
<1> QED
  BY <1>5, <1>6, <1>7, <1>8, <1>9, <1>10, <1>11, <1>12
  DEF TypeInv, TypeOK, GoodCall, Connect

LEMMA TypeDisconnect ==
    ASSUME TypeInv, NEW t \in Tasks, NEW c \in Channels,
           Disconnect(t, c)
    PROVE  TypeInv'
<1>5. chan' \in [Channels -> Channel]
  <2>1. c \in Channels /\ chan[c] \in Channel
    BY DEF TypeInv, TypeOK, GoodCall
  <2>2. chan' = [chan EXCEPT ![c] = [chan[c] EXCEPT !.periph = NotConnected]]
    BY <2>1 DEF Disconnect, TypeInv, TypeOK
  <2>3. [chan[c] EXCEPT !.periph = NotConnected] \in Channel
    BY <2>1, FreeChannelType DEF Channel, GoodCall, Unbound
  <2> QED
    BY <2>1, <2>2, <2>3 DEF TypeInv, TypeOK
<1>6. /\ groupUp' \in [Groups -> BOOLEAN]
      /\ groupRef' \in [Groups -> Int]
  BY DEF Disconnect, TypeInv, TypeOK, DropGroupRef
<1>7. inUse' \in [Groups -> [Dirs -> SUBSET PeriphIds]]
  <2> DEFINE g == chan[c].pair[1]
             d == chan[c].dir
             m == inUse[g][d] \ {chan[c].periph}
  <2>1. chan[c] \in Channel
    BY DEF TypeInv, TypeOK
  <2>2. g \in Groups /\ d \in Dirs
    BY <2>1, PairFacts DEF Channel
  <2>3. inUse[g] \in [Dirs -> SUBSET PeriphIds] /\ m \in SUBSET PeriphIds
    BY <2>2 DEF TypeInv, TypeOK
  <2>4. inUse' = [inUse EXCEPT ![g] = [inUse[g] EXCEPT ![d] = m]]
    BY DEF Disconnect
  <2>5. [inUse[g] EXCEPT ![d] = m] \in [Dirs -> SUBSET PeriphIds]
    BY <2>3
  <2> HIDE DEF g, d, m
  <2> QED
    BY <2>4, <2>5 DEF TypeInv, TypeOK
<1>8. pairUp' \in [Pairs -> BOOLEAN] /\ pairRef' \in [Pairs -> Int]
  BY DEF Disconnect, TypeInv, TypeOK, pairVars
<1>9. occupy' \in [Pairs -> SUBSET Dirs]
  BY DEF Disconnect, TypeInv, TypeOK, pairVars
<1>10. slot' \in [Pairs -> [Dirs -> Channels \cup {None}]]
  BY DEF Disconnect, TypeInv, TypeOK, pairVars
<1>11. events' \in [Pairs -> SUBSET Dirs]
  BY DEF Disconnect, TypeInv, TypeOK, intrVars
<1>12. handlers' \in [Channels -> Int]
  BY DEF Disconnect, TypeInv, TypeOK, intrVars
<1> QED
  BY <1>5, <1>6, <1>7, <1>8, <1>9, <1>10, <1>11, <1>12
  DEF TypeInv, TypeOK, GoodCall, Disconnect

LEMMA TypeNewSibling ==
    ASSUME TypeInv, NEW t \in Tasks, NEW c \in Channels, NEW s \in Channels,
           NewSibling(t, c, s)
    PROVE  TypeInv'
<1>1. chan \in [Channels -> Channel] /\ call \in [Tasks -> GoodCall]
  BY DEF TypeInv, TypeOK
<1>2. PICK d \in Dirs \ {chan[s].dir} :
         chan' = [chan EXCEPT
                     ![c] = [FreeChannel EXCEPT !.st = "new", !.dir = d],
                     ![s].reserves = FALSE]
  BY DEF NewSibling
<1>3. chan[s] \in Channel /\ chan[s].pair \in Pairs /\ c # s
  BY <1>1 DEF Channel, NewSibling, Usable
<1>4. call'[t] \in GoodCall
  <2>1. call'[t] = [pc |-> "register", op |-> "search", obj |-> c,
                    code |-> {}, pair |-> chan[s].pair]
    BY <1>1 DEF NewSibling
  <2> QED
    BY <2>1, <1>3, PairFacts DEF GoodCall, Call, PCs
<1>5. chan' \in [Channels -> Channel]
  <2>1. [FreeChannel EXCEPT !.st = "new", !.dir = d] \in Channel
    BY FreeChannelType DEF Channel
  <2>2. [chan[s] EXCEPT !.reserves = FALSE] \in Channel
    BY <1>3 DEF Channel
  <2>3. chan' = [[chan EXCEPT ![c] = [FreeChannel EXCEPT !.st = "new",
                                                        !.dir = d]]
                    EXCEPT ![s] = [chan[s] EXCEPT !.reserves = FALSE]]
    BY <1>1, <1>2, <1>3
  <2> QED
    BY <1>1, <2>1, <2>2, <2>3, FunUpdate
<1>6. pairRef' \in [Pairs -> Int]
  <2>1. pairRef \in [Pairs -> Int] /\ pairRef[chan[s].pair] + 1 \in Int
    BY <1>3 DEF TypeInv, TypeOK
  <2>2. pairRef' = [pairRef EXCEPT ![chan[s].pair] =
                       pairRef[chan[s].pair] + 1]
    BY DEF NewSibling
  <2> QED
    BY <2>1, <2>2, FunUpdate
<1>7. call' \in [Tasks -> GoodCall]
  <2>1. call' = [call EXCEPT ![t] = call'[t]]
    BY <1>1 DEF NewSibling
  <2> QED
    BY <2>1, <1>1, <1>4, FunUpdate
<1> QED
  BY <1>5, <1>6, <1>7
  DEF NewSibling, TypeInv, TypeOK, GoodCall, groupVars, intrVars

LEMMA TypeDelChannel ==
    ASSUME TypeInv, NEW t \in Tasks, NEW c \in Channels, DelChannel(t, c)
    PROVE  TypeInv'
<1> DEFINE q == chan[c].pair
           d == chan[c].dir
<1>1. /\ chan[c] \in Channel
      /\ q \in Pairs
      /\ d \in Dirs
      /\ chan \in [Channels -> Channel]
      /\ call \in [Tasks -> GoodCall]
  BY DEF TypeInv, TypeOK, Channel
<1>2. /\ call' = [call EXCEPT ![t] = call'[t]]
      /\ call'[t] \in
           {[pc |-> "uninstall", op |-> "delete", obj |-> c,
             code |-> {}, pair |-> q],
            [pc |-> "releasePair", op |-> "delete", obj |-> None,
             code |-> {}, pair |-> q]}
  BY <1>1 DEF DelChannel
<1>3. call'[t] \in GoodCall
  BY <1>1, <1>2, PairFacts DEF GoodCall, Call, PCs
<1>4. chan' \in [Channels -> Channel]
  <2>1. [chan[c] EXCEPT !.st = "dying"] \in Channel
    BY <1>1 DEF Channel
  <2>2. chan' \in {[chan EXCEPT ![c] = [chan[c] EXCEPT !.st = "dying"]],
                   [chan EXCEPT ![c] = FreeChannel]}
    BY <1>1 DEF DelChannel
  <2> QED
    BY <1>1, <2>1, <2>2, FreeChannelType, FunUpdate
<1>5. slot' \in [Pairs -> [Dirs -> Channels \cup {None}]]
  <2>1. slot[q] \in [Dirs -> Channels \cup {None}]
    BY <1>1 DEF TypeInv, TypeOK
  <2>2. slot' = [slot EXCEPT ![q] = [slot[q] EXCEPT ![d] = None]]
    BY DEF DelChannel
  <2> HIDE DEF q, d
  <2>3. [slot[q] EXCEPT ![d] = None] \in [Dirs -> Channels \cup {None}]
    BY <2>1
  <2> QED
    BY <2>2, <2>3, FunUpdate DEF TypeInv, TypeOK
<1>6. occupy' \in [Pairs -> SUBSET Dirs]
  <2>1. occupy[q] \ {d} \in SUBSET Dirs
    BY <1>1 DEF TypeInv, TypeOK
  <2>2. occupy' = [occupy EXCEPT ![q] = occupy[q] \ {d}]
    BY DEF DelChannel
  <2> HIDE DEF q, d
  <2> QED
    BY <2>1, <2>2, FunUpdate DEF TypeInv, TypeOK
<1>7. call' \in [Tasks -> GoodCall]
  BY <1>1, <1>2, <1>3, FunUpdate
<1> QED
  BY <1>4, <1>5, <1>6, <1>7
  DEF DelChannel, TypeInv, TypeOK, GoodCall, groupVars, intrVars

\* Where AfterPair takes a call that has let go of its pair.
LEMMA AfterPairCall ==
    ASSUME TypeInv, NEW t \in Tasks,
           call[t].pc \in {"releasePair", "releasePairsGroup"},
           AfterPair(t)
    PROVE  /\ call' = [call EXCEPT ![t] = call'[t]]
           /\ call'[t] \in GoodCall
           /\ \/ call[t].op # "search" /\ call'[t] = Idle
              \/ /\ call[t].op = "search"
                 /\ call[t].pair[2] + 1 < PairsPerGroup
                 /\ call'[t] = [call[t] EXCEPT
                         !.pc = "acquirePair",
                         !.pair = <<call[t].pair[1], call[t].pair[2] + 1>>]
              \/ /\ call[t].op = "search"
                 /\ call'[t] = [call[t] EXCEPT !.pc = "releaseGroup"]
<1>1. call \in [Tasks -> GoodCall] /\ call[t] \in GoodCall
  BY DEF TypeInv
<1>2. call' = [call EXCEPT ![t] = call'[t]]
  BY <1>1 DEF AfterPair, Return, Goto
<1>3. \/ call[t].op # "search" /\ call'[t] = Idle
      \/ /\ call[t].op = "search"
         /\ call[t].pair[2] + 1 < PairsPerGroup
         /\ call'[t] = [call[t] EXCEPT
                 !.pc = "acquirePair",
                 !.pair = <<call[t].pair[1], call[t].pair[2] + 1>>]
      \/ /\ call[t].op = "search"
         /\ call'[t] = [call[t] EXCEPT !.pc = "releaseGroup"]
  BY <1>1 DEF AfterPair, Return, Goto
<1>4. call'[t] \in GoodCall
  <2>1. call[t].pair \in Pairs
    BY <1>1 DEF GoodCall
  <2>2. CASE call'[t] = Idle
    BY <2>2, IdleType
  <2>3. CASE /\ call[t].op = "search"
             /\ call[t].pair[2] + 1 < PairsPerGroup
             /\ call'[t] = [call[t] EXCEPT
                     !.pc = "acquirePair",
                     !.pair = <<call[t].pair[1], call[t].pair[2] + 1>>]
    BY <1>1, <2>1, <2>3, PairFacts DEF GoodCall, Call, PCs
  <2>4. CASE /\ call[t].op = "search"
             /\ call'[t] = [call[t] EXCEPT !.pc = "releaseGroup"]
    BY <1>1, <2>1, <2>4, PairFacts DEF GoodCall, Call, PCs
  <2> QED
    BY <1>3, <2>2, <2>3, <2>4
<1> QED
  BY <1>2, <1>3, <1>4

LEMMA TypeReleasePair ==
    ASSUME TypeInv, NEW t \in Tasks, ReleasePair(t)
    PROVE  TypeInv'
<1> DEFINE q == call[t].pair
<1>1. /\ call \in [Tasks -> GoodCall]
      /\ call[t] \in GoodCall
      /\ call[t].pc = "releasePair"
      /\ q \in Pairs
  BY DEF ReleasePair, TypeInv, At, GoodCall
<1>2. /\ call' = [call EXCEPT ![t] = call'[t]]
      /\ call'[t] \in GoodCall
  <2>1. CASE AfterPair(t)
    BY <1>1, <2>1, AfterPairCall
  <2>2. CASE Goto(t, "releasePairsGroup")
    <3>1. call'[t] = [call[t] EXCEPT !.pc = "releasePairsGroup"]
      BY <1>1, <2>2 DEF Goto
    <3> QED
      BY <1>1, <2>2, <3>1 DEF Goto, GoodCall, Call, PCs
  <2> QED
    BY <2>1, <2>2 DEF ReleasePair
<1>3. pairRef' \in [Pairs -> Int]
  <2>1. pairRef' = [pairRef EXCEPT ![q] = pairRef[q] - 1]
    BY DEF ReleasePair
  <2> HIDE DEF q
  <2>2. pairRef[q] - 1 \in Int
    BY <1>1 DEF TypeInv, TypeOK
  <2> QED
    BY <2>1, <2>2, FunUpdate DEF TypeInv, TypeOK
<1>4. pairUp' \in [Pairs -> BOOLEAN]
  <2>1. pairUp' \in {pairUp, [pairUp EXCEPT ![q] = FALSE]}
    BY DEF ReleasePair
  <2> QED
    BY <2>1, FunUpdate DEF TypeInv, TypeOK
<1>5. call' \in [Tasks -> GoodCall]
  BY <1>1, <1>2, FunUpdate
<1> QED
  BY <1>3, <1>4, <1>5
  DEF ReleasePair, TypeInv, TypeOK, GoodCall, groupVars, intrVars

LEMMA TypeDropGroupRef ==
    ASSUME TypeInv, NEW g \in Groups, DropGroupRef(g)
    PROVE  /\ groupUp' \in [Groups -> BOOLEAN]
           /\ groupRef' \in [Groups -> Int]
           /\ inUse' = inUse
<1>1. groupRef' = [groupRef EXCEPT ![g] = groupRef[g] - 1]
  BY DEF DropGroupRef
<1>2. groupRef[g] - 1 \in Int
  BY DEF TypeInv, TypeOK
<1>3. groupUp' = [groupUp EXCEPT ![g] = (groupUp[g] /\ groupRef[g] # 1)]
  BY DEF DropGroupRef
<1>4. groupUp' \in [Groups -> BOOLEAN]
  BY <1>3 DEF TypeInv, TypeOK
<1> QED
  BY <1>1, <1>2, <1>4, FunUpdate DEF DropGroupRef, TypeInv, TypeOK

LEMMA TypeReleasePairsGroup ==
    ASSUME TypeInv, NEW t \in Tasks, ReleasePairsGroup(t)
    PROVE  TypeInv'
<1>1. /\ call \in [Tasks -> GoodCall]
      /\ call[t].pc = "releasePairsGroup"
      /\ GroupOf(t) \in Groups
  BY PairFacts DEF ReleasePairsGroup, TypeInv, At, GoodCall, GroupOf
<1>2. /\ call' = [call EXCEPT ![t] = call'[t]]
      /\ call'[t] \in GoodCall
  BY <1>1, AfterPairCall DEF ReleasePairsGroup
<1>3. call' \in [Tasks -> GoodCall]
  BY <1>1, <1>2, FunUpdate
<1> QED
  BY <1>1, <1>3, TypeDropGroupRef
  DEF ReleasePairsGroup, TypeInv, TypeOK, GoodCall, pairVars, intrVars

LEMMA TypeReleaseGroup ==
    ASSUME TypeInv, NEW t \in Tasks, ReleaseGroup(t)
    PROVE  TypeInv'
<1>1. /\ call \in [Tasks -> GoodCall]
      /\ call[t] \in GoodCall
      /\ call[t].pc = "releaseGroup"
      /\ call[t].pair \in Pairs
      /\ GroupOf(t) \in Groups
  BY PairFacts DEF ReleaseGroup, TypeInv, At, GoodCall, GroupOf
<1>2. /\ call' = [call EXCEPT ![t] = call'[t]]
      /\ \/ call'[t] = Idle
         \/ /\ call[t].op = "search"
            /\ call'[t] = [call[t] EXCEPT
                              !.pc = "acquireGroup",
                              !.pair = <<call[t].pair[1] + 1, 0>>]
  BY <1>1 DEF ReleaseGroup, Return
<1>3. call'[t] \in GoodCall
  <2>1. <<call[t].pair[1] + 1, 0>> \in Cursors
    BY <1>1, PairFacts
  <2> DEFINE cursor == <<call[t].pair[1] + 1, 0>>
  <2> HIDE DEF cursor
  <2>2. \/ call'[t] = Idle
        \/ /\ call[t].op = "search"
           /\ call'[t] = [call[t] EXCEPT !.pc = "acquireGroup",
                                         !.pair = cursor]
    BY <1>2 DEF cursor
  <2>3. cursor \in Cursors
    BY <2>1 DEF cursor
  <2> QED
    BY <1>1, <2>2, <2>3, IdleType DEF GoodCall, Call, PCs
<1>4. call' \in [Tasks -> GoodCall]
  BY <1>1, <1>2, <1>3, FunUpdate
<1> QED
  BY <1>1, <1>4, TypeDropGroupRef
  DEF ReleaseGroup, TypeInv, TypeOK, GoodCall, pairVars, intrVars

LEMMA TypeNext == TypeInv /\ [Next]_vars => TypeInv'
<1> SUFFICES ASSUME TypeInv, [Next]_vars
             PROVE  TypeInv'
  OBVIOUS
<1>1. CASE UNCHANGED vars
  BY <1>1 DEF TypeInv, TypeOK, vars
<1>2. ASSUME NEW t \in Tasks, Invoke(t)
      PROVE  TypeInv'
  BY <1>2, TypeNewChannel, TypeNewSibling, TypeNewSiblingRejected,
     TypeDelChannel, TypeInstallIntr, TypeConnect, TypeDisconnect
  DEF Invoke
<1>3. ASSUME NEW t \in Tasks, Search(t)
      PROVE  TypeInv'
  BY <1>3, TypeAcquireGroup, TypeGiveUpSearch, TypeAcquirePair,
     TypeAcquirePairNoMem, TypeRefGroup, TypeOccupy, TypeRegister
  DEF Search
<1>4. ASSUME NEW t \in Tasks, Release(t)
      PROVE  TypeInv'
  BY <1>4, TypeReleasePair, TypeReleasePairsGroup, TypeReleaseGroup
  DEF Release
<1>5. ASSUME NEW t \in Tasks, Interrupt(t)
      PROVE  TypeInv'
  BY <1>5, TypeUninstallIntr, TypeDisableEvents, TypeEnableEvents
  DEF Interrupt
<1> QED
  BY <1>1, <1>2, <1>3, <1>4, <1>5 DEF Next, Step

\* Type correctness: every variable stays in its type, whatever the callers
\* of gdma.c do (the liberties included).
THEOREM TypeCorrect == Spec => []TypeOK
<1>1. TypeInv => TypeOK
  BY DEF TypeInv
<1> QED
  BY <1>1, TypeInit, TypeNext, PTL DEF Spec

-----------------------------------------------------------------------------
\* Safety.

\* The object of a call belongs to that call alone, in the state its step needs.
ObjectOk(t) ==
    /\ call[t].op = "search" => chan[call[t].obj].st = "new"
    /\ call[t].pc \in {"uninstall", "disableEvents"}
          => chan[call[t].obj].st = "dying"
    /\ call[t].pc = "enableEvents" => chan[call[t].obj].st = "live"

ObjectsOwned ==
    /\ \A t \in Tasks : ObjectOk(t)
    /\ \A t, u \in Tasks :
          t # u /\ call[t].obj # None => call[u].obj # call[t].obj

Inv == TypeInv /\ ObjectsOwned /\ RefCounts

\* 1 for a member, 0 for the others.
Bit(p) == IF p THEN 1 ELSE 0

-----------------------------------------------------------------------------
\* Changing the membership of one element changes a cardinality by one.
LEMMA CardChange ==
    ASSUME NEW S, NEW T, NEW x, IsFiniteSet(S), S \ {x} = T \ {x}
    PROVE  /\ IsFiniteSet(T)
           /\ Cardinality(S) \in Nat
           /\ Cardinality(T) \in Nat
           /\ Cardinality(T) = Cardinality(S) + Bit(x \in T) - Bit(x \in S)
<1>1. /\ IsFiniteSet(S \ {x})
      /\ Cardinality(S \ {x}) = Cardinality(S) - Bit(x \in S)
  <2>1. CASE x \in S
    BY <2>1, FS_RemoveElement, FS_CardinalityType DEF Bit
  <2>2. CASE x \notin S
    BY <2>2, FS_RemoveElement, FS_CardinalityType DEF Bit
  <2> QED
    BY <2>1, <2>2
<1>2. /\ IsFiniteSet((T \ {x}) \cup {x})
      /\ Cardinality((T \ {x}) \cup {x}) = Cardinality(T \ {x}) + 1
  BY <1>1, FS_AddElement
<1>3. /\ IsFiniteSet(T)
      /\ Cardinality(T) = Cardinality(T \ {x}) + Bit(x \in T)
  <2>1. CASE x \in T
    <3>1. T = (T \ {x}) \cup {x}
      BY <2>1
    <3> QED
      BY <1>2, <2>1, <3>1 DEF Bit
  <2>2. CASE x \notin T
    <3>1. T \ {x} = T
      BY <2>2
    <3>2. IsFiniteSet(T \ {x})
      BY <1>1
    <3>3. IsFiniteSet(T) /\ Cardinality(T \ {x}) = Cardinality(T)
      BY <3>1, <3>2, Zenon
    <3>4. Cardinality(T) \in Nat
      BY <3>3, FS_CardinalityType
    <3> QED
      BY <2>2, <3>3, <3>4 DEF Bit
  <2> QED
    BY <2>1, <2>2
<1>4. Cardinality(S) \in Nat /\ Cardinality(T) \in Nat
  BY <1>3, FS_CardinalityType
<1>5. Cardinality(S \ {x}) = Cardinality(T \ {x})
  BY Zenon
<1> QED
  BY <1>1, <1>3, <1>4, <1>5 DEF Bit

LEMMA FinitePairs == IsFiniteSet(Pairs)
<1>1. /\ IsFiniteSet(0 .. GroupCount - 1)
      /\ IsFiniteSet(0 .. PairsPerGroup - 1)
  <2>1. GroupCount - 1 \in Int /\ PairsPerGroup - 1 \in Int /\ 0 \in Int
    BY GdmaAssumption
  <2> QED
    BY <2>1, FS_Interval, Zenon
<1> DEFINE G == 0 .. GroupCount - 1
           P == 0 .. PairsPerGroup - 1
<1>2. IsFiniteSet(G) /\ IsFiniteSet(P)
  BY <1>1
<1>3. Pairs = G \X P
  BY DEF Pairs, Groups
<1> HIDE DEF G, P
<1>4. IsFiniteSet(G \X P)
  BY <1>2, FS_Product, Zenon
<1> QED
  BY <1>3, <1>4, Zenon

LEMMA FiniteRefs ==
    /\ \A q : IsFiniteSet(PairTasks(q)) /\ IsFiniteSet(PairChannels(q))
    /\ \A g : /\ IsFiniteSet(Searchers(g))
              /\ IsFiniteSet(PairFreers(g))
              /\ IsFiniteSet(GroupPairs(g))
<1>1. ASSUME NEW q
      PROVE  IsFiniteSet(PairTasks(q)) /\ IsFiniteSet(PairChannels(q))
  BY FS_Subset, GdmaAssumption DEF PairTasks, PairChannels
<1>2. ASSUME NEW g
      PROVE  /\ IsFiniteSet(Searchers(g))
             /\ IsFiniteSet(PairFreers(g))
             /\ IsFiniteSet(GroupPairs(g))
  BY FS_Subset, FinitePairs, GdmaAssumption
  DEF Searchers, PairFreers, GroupPairs
<1> QED
  BY <1>1, <1>2

\* A member makes a cardinality positive, two members make it two.
LEMMA Member ==
    ASSUME NEW S, IsFiniteSet(S), NEW x \in S
    PROVE  /\ Cardinality(S) \in Nat /\ Cardinality(S) >= 1
           /\ \A y \in S : y # x => Cardinality(S) >= 2
<1>1. /\ IsFiniteSet(S \ {x})
      /\ Cardinality(S \ {x}) \in Nat
      /\ Cardinality(S) \in Nat
      /\ Cardinality(S \ {x}) = Cardinality(S) - 1
  BY FS_RemoveElement, FS_CardinalityType
<1>2. \A y \in S : y # x => Cardinality(S) >= 2
  <2> SUFFICES ASSUME NEW y \in S, y # x
               PROVE  Cardinality(S) >= 2
    OBVIOUS
  <2> DEFINE R == S \ {x}
  <2>1. IsFiniteSet(R) /\ y \in R
    BY <1>1
  <2> HIDE DEF R
  <2>2. /\ Cardinality(R \ {y}) = Cardinality(R) - 1
        /\ IsFiniteSet(R \ {y})
    BY <2>1, FS_RemoveElement
  <2>3. Cardinality(R \ {y}) \in Nat /\ Cardinality(R) \in Nat
    BY <2>1, <2>2, FS_CardinalityType
  <2>4. Cardinality(R) = Cardinality(S) - 1
    BY <1>1 DEF R
  <2> QED
    BY <1>1, <2>2, <2>3, <2>4
<1> QED
  BY <1>1, <1>2

\* A pair somebody refers to is installed and counted.
LEMMA PairReferred ==
    ASSUME PairCounts, NEW q \in Pairs,
           PairTasks(q) # {} \/ PairChannels(q) # {}
    PROVE  pairUp[q] /\ pairRef[q] > 0
<1>1. /\ Cardinality(PairTasks(q)) \in Nat
      /\ Cardinality(PairChannels(q)) \in Nat
  BY FiniteRefs, FS_CardinalityType
<1>2. PairTasks(q) # {} => Cardinality(PairTasks(q)) >= 1
  BY FiniteRefs, Member
<1>3. PairChannels(q) # {} => Cardinality(PairChannels(q)) >= 1
  BY FiniteRefs, Member
<1> QED
  BY <1>1, <1>2, <1>3 DEF PairCounts

\* A group somebody refers to is installed and counted.
LEMMA GroupReferred ==
    ASSUME TypeInv, GroupCounts, NEW g \in Groups,
           \/ Searchers(g) # {}
           \/ PairFreers(g) # {}
           \/ GroupPairs(g) # {}
    PROVE  groupUp[g] /\ groupRef[g] > 0
<1>1. /\ Cardinality(Searchers(g)) \in Nat
      /\ Cardinality(PairFreers(g)) \in Nat
      /\ Cardinality(GroupPairs(g)) \in Nat
      /\ groupRef[g] \in Int
  BY FiniteRefs, FS_CardinalityType DEF TypeInv, TypeOK
<1>2. /\ Searchers(g) # {} => Cardinality(Searchers(g)) >= 1
      /\ PairFreers(g) # {} => Cardinality(PairFreers(g)) >= 1
      /\ GroupPairs(g) # {} => Cardinality(GroupPairs(g)) >= 1
  BY FiniteRefs, Member
<1> QED
  BY <1>1, <1>2 DEF GroupCounts

-----------------------------------------------------------------------------
\* The memberships of the calls that do not take the step stay as they are.
LEMMA TaskFrame ==
    ASSUME NEW t \in Tasks, TypeInv, call' = [call EXCEPT ![t] = call'[t]]
    PROVE  /\ \A q : PairTasks(q)' \ {t} = PairTasks(q) \ {t}
           /\ \A g : Searchers(g)' \ {t} = Searchers(g) \ {t}
           /\ \A g : PairFreers(g)' \ {t} = PairFreers(g) \ {t}
<1>1. \A u \in Tasks : u # t => call'[u] = call[u]
  BY DEF TypeInv
<1> QED
  BY <1>1 DEF PairTasks, Searchers, PairFreers, HoldsPair, Searches, GroupOf, At

\* The counts of the pairs follow one task and one channel.
LEMMA PairCountsStep ==
    ASSUME NEW t \in Tasks, NEW c, TypeInv, TypeInv', PairCounts,
           call' = [call EXCEPT ![t] = call'[t]],
           \A e \in Channels : e # c => /\ chan'[e].st = chan[e].st
                                        /\ chan'[e].pair = chan[e].pair,
           \A q \in Pairs :
              /\ pairRef'[q] = pairRef[q]
                    + Bit(t \in PairTasks(q)') - Bit(t \in PairTasks(q))
                    + Bit(c \in PairChannels(q)') - Bit(c \in PairChannels(q))
              /\ pairUp'[q] <=> pairRef'[q] > 0
    PROVE  PairCounts'
<1> SUFFICES ASSUME NEW q \in Pairs
             PROVE  pairRef'[q] = Cardinality(PairTasks(q)')
                                  + Cardinality(PairChannels(q)')
  BY DEF PairCounts
<1>1. PairTasks(q)' \ {t} = PairTasks(q) \ {t}
  BY TaskFrame
<1>2. PairChannels(q)' \ {c} = PairChannels(q) \ {c}
  BY DEF PairChannels
<1>3. IsFiniteSet(PairTasks(q)) /\ IsFiniteSet(PairChannels(q))
  BY FiniteRefs
<1>4. /\ Cardinality(PairTasks(q)) \in Nat
      /\ Cardinality(PairTasks(q)') = Cardinality(PairTasks(q))
            + Bit(t \in PairTasks(q)') - Bit(t \in PairTasks(q))
  BY <1>1, <1>3, CardChange
<1>5. /\ Cardinality(PairChannels(q)) \in Nat
      /\ Cardinality(PairChannels(q)') = Cardinality(PairChannels(q))
            + Bit(c \in PairChannels(q)') - Bit(c \in PairChannels(q))
  BY <1>2, <1>3, CardChange
<1>6. pairRef[q] = Cardinality(PairTasks(q)) + Cardinality(PairChannels(q))
  BY DEF PairCounts
<1> QED
  BY <1>4, <1>5, <1>6 DEF Bit

\* The counts of the groups follow one task and one pair.
LEMMA GroupCountsStep ==
    ASSUME NEW t \in Tasks, NEW q \in Pairs, TypeInv, TypeInv', GroupCounts,
           call' = [call EXCEPT ![t] = call'[t]],
           \A g \in Groups :
              /\ GroupPairs(g)' \ {q} = GroupPairs(g) \ {q}
              /\ groupRef'[g] >= groupRef[g]
                    + Bit(t \in Searchers(g)') - Bit(t \in Searchers(g))
                    + Bit(t \in PairFreers(g)') - Bit(t \in PairFreers(g))
                    + Bit(q \in GroupPairs(g)') - Bit(q \in GroupPairs(g))
              /\ groupUp'[g] <=> groupRef'[g] > 0
    PROVE  GroupCounts'
<1> SUFFICES ASSUME NEW g \in Groups
             PROVE  groupRef'[g] >= Cardinality(Searchers(g)')
                                    + Cardinality(PairFreers(g)')
                                    + Cardinality(GroupPairs(g)')
  BY DEF GroupCounts
<1>1. /\ IsFiniteSet(Searchers(g))
      /\ IsFiniteSet(PairFreers(g))
      /\ IsFiniteSet(GroupPairs(g))
  BY FiniteRefs
<1>2. /\ Cardinality(Searchers(g)) \in Nat
      /\ Cardinality(Searchers(g)') = Cardinality(Searchers(g))
            + Bit(t \in Searchers(g)') - Bit(t \in Searchers(g))
  BY <1>1, TaskFrame, CardChange
<1>3. /\ Cardinality(PairFreers(g)) \in Nat
      /\ Cardinality(PairFreers(g)') = Cardinality(PairFreers(g))
            + Bit(t \in PairFreers(g)') - Bit(t \in PairFreers(g))
  BY <1>1, TaskFrame, CardChange
<1>4. /\ Cardinality(GroupPairs(g)) \in Nat
      /\ Cardinality(GroupPairs(g)') = Cardinality(GroupPairs(g))
            + Bit(q \in GroupPairs(g)') - Bit(q \in GroupPairs(g))
  BY <1>1, CardChange
<1>5. /\ groupRef[g] \in Int /\ groupRef'[g] \in Int
      /\ groupRef[g] >= Cardinality(Searchers(g))
                        + Cardinality(PairFreers(g))
                        + Cardinality(GroupPairs(g))
  BY DEF GroupCounts, TypeInv, TypeOK
<1> QED
  BY <1>2, <1>3, <1>4, <1>5 DEF Bit

\* A step that only moves a call along, or changes an object nobody counts.
LEMMA QuietStep ==
    ASSUME NEW t \in Tasks, TypeInv, TypeInv', RefCounts,
           call' = [call EXCEPT ![t] = call'[t]],
           UNCHANGED <<groupUp, groupRef, pairUp, pairRef>>,
           \A e \in Channels :
              /\ chan'[e].st = "live" <=> chan[e].st = "live"
              /\ chan[e].st = "live" => chan'[e].pair = chan[e].pair,
           \A q : t \in PairTasks(q)' <=> t \in PairTasks(q),
           \A g : /\ t \in Searchers(g)' => t \in Searchers(g)
                  /\ t \in PairFreers(g)' => t \in PairFreers(g),
           call[t].pc # "refGroup" /\ call'[t].pc # "refGroup"
    PROVE  RefCounts'
<1>1. \A q : PairTasks(q)' = PairTasks(q)
  <2> TAKE q
  <2>1. PairTasks(q)' \ {t} = PairTasks(q) \ {t}
    BY TaskFrame
  <2> QED
    BY <2>1
<1>2. \A q : PairChannels(q)' = PairChannels(q)
  BY DEF PairChannels
<1>3. \A g : Searchers(g)' \subseteq Searchers(g)
  <2> TAKE g
  <2>1. Searchers(g)' \ {t} = Searchers(g) \ {t}
    BY TaskFrame
  <2> QED
    BY <2>1
<1>4. \A g : PairFreers(g)' \subseteq PairFreers(g)
  <2> TAKE g
  <2>1. PairFreers(g)' \ {t} = PairFreers(g) \ {t}
    BY TaskFrame
  <2> QED
    BY <2>1
<1>5. \A g : GroupPairs(g)' = GroupPairs(g)
  <2>1. \A u \in Tasks : u # t => call'[u] = call[u]
    BY DEF TypeInv
  <2> QED
    BY <2>1 DEF GroupPairs, At
<1>6. PairCounts'
  BY <1>1, <1>2 DEF RefCounts, PairCounts
<1>7. GroupCounts'
  <2> SUFFICES ASSUME NEW g \in Groups
               PROVE  groupRef[g] >= Cardinality(Searchers(g)')
                                     + Cardinality(PairFreers(g)')
                                     + Cardinality(GroupPairs(g)')
    BY DEF RefCounts, GroupCounts
  <2>1. /\ Cardinality(Searchers(g)) \in Nat
        /\ Cardinality(Searchers(g)') \in Nat
        /\ Cardinality(Searchers(g)') <= Cardinality(Searchers(g))
    BY <1>3, FiniteRefs, FS_Subset, FS_CardinalityType
  <2>2. /\ Cardinality(PairFreers(g)) \in Nat
        /\ Cardinality(PairFreers(g)') \in Nat
        /\ Cardinality(PairFreers(g)') <= Cardinality(PairFreers(g))
    BY <1>4, FiniteRefs, FS_Subset, FS_CardinalityType
  <2>3. /\ Cardinality(GroupPairs(g)) \in Nat
        /\ Cardinality(GroupPairs(g)') = Cardinality(GroupPairs(g))
    BY <1>5, FiniteRefs, FS_CardinalityType
  <2>4. /\ groupRef[g] \in Int
        /\ groupRef[g] >= Cardinality(Searchers(g))
                          + Cardinality(PairFreers(g))
                          + Cardinality(GroupPairs(g))
    BY DEF RefCounts, GroupCounts, TypeInv, TypeOK
  <2> QED
    BY <2>1, <2>2, <2>3, <2>4
<1> QED
  BY <1>6, <1>7 DEF RefCounts

\* Objects stay owned if the step changes the state of one object, which no
\* other call has, and takes no other call's object.
LEMMA OwnStep ==
    ASSUME NEW t \in Tasks, NEW c, TypeInv, TypeInv', ObjectsOwned,
           call' = [call EXCEPT ![t] = call'[t]],
           \A e \in Channels : e # c => chan'[e].st = chan[e].st,
           \A u \in Tasks : u # t /\ call[u].obj # None
               => call[u].obj # c /\ call[u].obj # call'[t].obj,
           ObjectOk(t)'
    PROVE  ObjectsOwned'
<1>1. \A u \in Tasks : u # t => call'[u] = call[u] /\ call[u] \in GoodCall
  BY DEF TypeInv
<1>2. \A u \in Tasks : ObjectOk(u)'
  <2> SUFFICES ASSUME NEW u \in Tasks, u # t
               PROVE  ObjectOk(u)'
    OBVIOUS
  <2>1. \/ call[u].op # "search" /\ call[u].pc \notin
                {"uninstall", "disableEvents", "enableEvents"}
        \/ call[u].obj \in Channels
    BY <1>1 DEF GoodCall
  <2>2. CASE call[u].obj \in Channels
    <3>1. call[u].obj # None /\ chan'[call[u].obj].st = chan[call[u].obj].st
      BY <2>2, GdmaAssumption
    <3> QED
      BY <1>1, <3>1 DEF ObjectsOwned, ObjectOk
  <2>3. CASE call[u].op # "search" /\ call[u].pc \notin
                {"uninstall", "disableEvents", "enableEvents"}
    BY <1>1, <2>3 DEF ObjectOk
  <2> QED
    BY <2>1, <2>2, <2>3
<1>3. \A u, v \in Tasks :
         u # v /\ call'[u].obj # None => call'[v].obj # call'[u].obj
  BY <1>1 DEF ObjectsOwned
<1> QED
  BY <1>2, <1>3 DEF ObjectsOwned

\* An object a call holds is a channel that is not free.
LEMMA OwnedObject ==
    ASSUME TypeInv, ObjectsOwned, NEW u \in Tasks, call[u].obj # None
    PROVE  call[u].obj \in Channels /\ chan[call[u].obj].st # "free"
<1>1. call[u] \in GoodCall
  BY DEF TypeInv
<1>2. \/ call[u].op = "search"
      \/ call[u].pc \in {"uninstall", "disableEvents", "enableEvents"}
  BY <1>1 DEF GoodCall, Call, PCs
<1> QED
  BY <1>1, <1>2 DEF ObjectsOwned, ObjectOk, GoodCall, Call

LEMMA InvNewChannel ==
    ASSUME Inv, TypeInv', NEW t \in Tasks,
           NEW c \in Channels, NEW d \in Dirs, NEW reserve \in BOOLEAN,
           NewChannel(t, c, d, reserve)
    PROVE  ObjectsOwned' /\ RefCounts'
<1>1. /\ call \in [Tasks -> GoodCall] /\ call[t] \in GoodCall
      /\ call[t].pc = "idle"
  BY DEF NewChannel, Inv, TypeInv, At, GoodCall, Call
<1>2. /\ call' = [call EXCEPT ![t] = call'[t]]
      /\ call'[t] = [pc |-> "acquireGroup", op |-> "search", obj |-> c,
                    code |-> SearchCode(d, reserve), pair |-> <<0, 0>>]
  BY <1>1 DEF NewChannel, Goto, Return, GoodCall, Call, Idle
<1>3. /\ c \in Channels /\ chan[c].st = "free" /\ chan'[c].st = "new"
      /\ \A e \in Channels : e # c => chan'[e] = chan[e]
  BY <1>1 DEF NewChannel, Inv, TypeInv, TypeOK, FreeChannel, Usable, ObjectsOwned, ObjectOk
<1>4. ObjectsOwned'
  <2>1. ObjectOk(t)'
    BY <1>1, <1>2, <1>3 DEF ObjectOk, Idle, Inv, ObjectsOwned
  <2>2. \A u \in Tasks : u # t /\ call[u].obj # None
            => call[u].obj # c /\ call[u].obj # call'[t].obj
    BY <1>1, <1>2, <1>3, OwnedObject, GdmaAssumption
    DEF NewChannel, Usable, Inv, ObjectsOwned
  <2> QED
    BY <1>1, <1>2, <1>3, <2>1, <2>2, OwnStep DEF Inv
<1>5. RefCounts'
  <2>1. \A q : t \in PairTasks(q)' <=> t \in PairTasks(q)
    BY <1>1, <1>2 DEF PairTasks, HoldsPair, Idle
  <2>2. \A g : /\ t \in Searchers(g)' => t \in Searchers(g)
               /\ t \in PairFreers(g)' => t \in PairFreers(g)
    BY <1>1, <1>2 DEF Searchers, PairFreers, Searches, At, GroupOf, Idle
  <2>3. call[t].pc # "refGroup" /\ call'[t].pc # "refGroup"
    BY <1>1, <1>2 DEF Idle
  <2>4. UNCHANGED <<groupUp, groupRef, pairUp, pairRef>>
    BY DEF NewChannel, groupVars, pairVars
  <2>5. \A e \in Channels :
           /\ chan'[e].st = "live" <=> chan[e].st = "live"
           /\ chan[e].st = "live" => chan'[e].pair = chan[e].pair
    BY <1>1, <1>3
  <2> QED
    BY <1>2, <2>1, <2>2, <2>3, <2>4, <2>5, QuietStep DEF Inv
<1> QED
  BY <1>4, <1>5

LEMMA InvGiveUpSearch ==
    ASSUME Inv, TypeInv', NEW t \in Tasks,
           GiveUpSearch(t)
    PROVE  ObjectsOwned' /\ RefCounts'
<1>0. PICK o : o = call[t].obj
  OBVIOUS
<1>1. /\ call \in [Tasks -> GoodCall] /\ call[t] \in GoodCall
      /\ call[t].pc = "acquireGroup" /\ call[t].op = "search"
  BY <1>0 DEF GiveUpSearch, Inv, TypeInv, At, GoodCall, Call
<1>2. /\ call' = [call EXCEPT ![t] = call'[t]]
      /\ call'[t] = Idle
  BY <1>1 DEF GiveUpSearch, Goto, Return, GoodCall, Call, Idle
<1>3. /\ o \in Channels /\ chan[o].st = "new" /\ chan'[o].st = "free"
      /\ \A e \in Channels : e # o => chan'[e] = chan[e]
  BY <1>0, <1>1 DEF GiveUpSearch, Inv, TypeInv, TypeOK, FreeChannel, Usable, ObjectsOwned, ObjectOk
<1>4. ObjectsOwned'
  <2>1. ObjectOk(t)'
    BY <1>1, <1>2, <1>3 DEF ObjectOk, Idle, Inv, ObjectsOwned
  <2>2. \A u \in Tasks : u # t /\ call[u].obj # None
            => call[u].obj # o /\ call[u].obj # call'[t].obj
    BY <1>0, <1>1, <1>2, <1>3, OwnedObject, GdmaAssumption
    DEF GiveUpSearch, Usable, Inv, ObjectsOwned, Idle
  <2> QED
    BY <1>1, <1>2, <1>3, <2>1, <2>2, OwnStep DEF Inv
<1>5. RefCounts'
  <2>1. \A q : t \in PairTasks(q)' <=> t \in PairTasks(q)
    BY <1>1, <1>2 DEF PairTasks, HoldsPair, Idle
  <2>2. \A g : /\ t \in Searchers(g)' => t \in Searchers(g)
               /\ t \in PairFreers(g)' => t \in PairFreers(g)
    BY <1>1, <1>2 DEF Searchers, PairFreers, Searches, At, GroupOf, Idle
  <2>3. call[t].pc # "refGroup" /\ call'[t].pc # "refGroup"
    BY <1>1, <1>2 DEF Idle
  <2>4. UNCHANGED <<groupUp, groupRef, pairUp, pairRef>>
    BY DEF GiveUpSearch, groupVars, pairVars
  <2>5. \A e \in Channels :
           /\ chan'[e].st = "live" <=> chan[e].st = "live"
           /\ chan[e].st = "live" => chan'[e].pair = chan[e].pair
    BY <1>1, <1>3
  <2> QED
    BY <1>2, <2>1, <2>2, <2>3, <2>4, <2>5, QuietStep DEF Inv
<1> QED
  BY <1>4, <1>5

LEMMA InvAcquirePairNoMem ==
    ASSUME Inv, TypeInv', NEW t \in Tasks,
           AcquirePairNoMem(t)
    PROVE  ObjectsOwned' /\ RefCounts'
<1>0. PICK o : o = call[t].obj
  OBVIOUS
<1>1. /\ call \in [Tasks -> GoodCall] /\ call[t] \in GoodCall
      /\ call[t].pc = "acquirePair" /\ call[t].op = "search"
  BY <1>0 DEF AcquirePairNoMem, Inv, TypeInv, At, GoodCall, Call
<1>2. /\ call' = [call EXCEPT ![t] = call'[t]]
      /\ /\ call'[t].pc = "releaseGroup"
         /\ call'[t].op = "error"
         /\ call'[t].obj = None
         /\ call'[t].pair = call[t].pair
  BY <1>1 DEF AcquirePairNoMem, Goto, Return, GoodCall, Call, Idle
<1>3. /\ o \in Channels /\ chan[o].st = "new" /\ chan'[o].st = "free"
      /\ \A e \in Channels : e # o => chan'[e] = chan[e]
  BY <1>0, <1>1 DEF AcquirePairNoMem, Inv, TypeInv, TypeOK, FreeChannel, Usable, ObjectsOwned, ObjectOk
<1>4. ObjectsOwned'
  <2>1. ObjectOk(t)'
    BY <1>1, <1>2, <1>3 DEF ObjectOk, Idle, Inv, ObjectsOwned
  <2>2. \A u \in Tasks : u # t /\ call[u].obj # None
            => call[u].obj # o /\ call[u].obj # call'[t].obj
    BY <1>0, <1>1, <1>2, <1>3, OwnedObject, GdmaAssumption
    DEF AcquirePairNoMem, Usable, Inv, ObjectsOwned
  <2> QED
    BY <1>1, <1>2, <1>3, <2>1, <2>2, OwnStep DEF Inv
<1>5. RefCounts'
  <2>1. \A q : t \in PairTasks(q)' <=> t \in PairTasks(q)
    BY <1>1, <1>2 DEF PairTasks, HoldsPair, Idle
  <2>2. \A g : /\ t \in Searchers(g)' => t \in Searchers(g)
               /\ t \in PairFreers(g)' => t \in PairFreers(g)
    BY <1>1, <1>2 DEF Searchers, PairFreers, Searches, At, GroupOf, Idle
  <2>3. call[t].pc # "refGroup" /\ call'[t].pc # "refGroup"
    BY <1>1, <1>2 DEF Idle
  <2>4. UNCHANGED <<groupUp, groupRef, pairUp, pairRef>>
    BY DEF AcquirePairNoMem, groupVars, pairVars
  <2>5. \A e \in Channels :
           /\ chan'[e].st = "live" <=> chan[e].st = "live"
           /\ chan[e].st = "live" => chan'[e].pair = chan[e].pair
    BY <1>1, <1>3
  <2> QED
    BY <1>2, <2>1, <2>2, <2>3, <2>4, <2>5, QuietStep DEF Inv
<1> QED
  BY <1>4, <1>5

LEMMA InvOccupy ==
    ASSUME Inv, TypeInv', NEW t \in Tasks,
           Occupy(t)
    PROVE  ObjectsOwned' /\ RefCounts'
<1>1. /\ call \in [Tasks -> GoodCall] /\ call[t] \in GoodCall
      /\ call[t].pc = "occupy" /\ call[t].op = "search"
      /\ call[t].obj \in Channels
  BY DEF Occupy, Inv, TypeInv, At, GoodCall, Call
<1>2. /\ call' = [call EXCEPT ![t] = call'[t]]
      /\ /\ call'[t].pc \in {"register", "releasePair"}
         /\ call'[t].op = "search"
         /\ call'[t].obj = call[t].obj
         /\ call'[t].pair = call[t].pair
  BY <1>1 DEF Occupy, Goto, Return, GoodCall, Call, Idle
<1>3. chan' = chan
  BY <1>1 DEF Occupy, Inv, TypeInv, TypeOK, FreeChannel, Usable, ObjectsOwned, ObjectOk
<1>4. ObjectsOwned'
  <2>1. ObjectOk(t)'
    BY <1>1, <1>2, <1>3 DEF ObjectOk, Idle, Inv, ObjectsOwned
  <2>2. \A u \in Tasks : u # t /\ call[u].obj # None
            => call[u].obj # None /\ call[u].obj # call'[t].obj
    BY <1>1, <1>2, <1>3, OwnedObject, GdmaAssumption
    DEF Occupy, Usable, Inv, ObjectsOwned
  <2> QED
    BY <1>1, <1>2, <1>3, <2>1, <2>2, OwnStep DEF Inv
<1>5. RefCounts'
  <2>1. \A q : t \in PairTasks(q)' <=> t \in PairTasks(q)
    BY <1>1, <1>2 DEF PairTasks, HoldsPair, Idle
  <2>2. \A g : /\ t \in Searchers(g)' => t \in Searchers(g)
               /\ t \in PairFreers(g)' => t \in PairFreers(g)
    BY <1>1, <1>2 DEF Searchers, PairFreers, Searches, At, GroupOf, Idle
  <2>3. call[t].pc # "refGroup" /\ call'[t].pc # "refGroup"
    BY <1>1, <1>2 DEF Idle
  <2>4. UNCHANGED <<groupUp, groupRef, pairUp, pairRef>>
    BY DEF Occupy, groupVars, pairVars
  <2>5. \A e \in Channels :
           /\ chan'[e].st = "live" <=> chan[e].st = "live"
           /\ chan[e].st = "live" => chan'[e].pair = chan[e].pair
    BY <1>1, <1>3
  <2> QED
    BY <1>2, <2>1, <2>2, <2>3, <2>4, <2>5, QuietStep DEF Inv
<1> QED
  BY <1>4, <1>5

LEMMA InvUninstallIntr ==
    ASSUME Inv, TypeInv', NEW t \in Tasks,
           UninstallIntr(t)
    PROVE  ObjectsOwned' /\ RefCounts'
<1>1. /\ call \in [Tasks -> GoodCall] /\ call[t] \in GoodCall
      /\ call[t].pc = "uninstall" /\ call[t].op = "delete"
  BY DEF UninstallIntr, Inv, TypeInv, At, GoodCall, Call
<1>2. /\ call' = [call EXCEPT ![t] = call'[t]]
      /\ /\ call'[t].pc = "disableEvents"
         /\ call'[t].op = "delete"
         /\ call'[t].obj = call[t].obj
         /\ call'[t].pair = call[t].pair
  BY <1>1 DEF UninstallIntr, Goto, Return, GoodCall, Call, Idle
<1>3. chan' = chan
  BY <1>1 DEF UninstallIntr, Inv, TypeInv, TypeOK, FreeChannel, Usable, ObjectsOwned, ObjectOk
<1>4. ObjectsOwned'
  <2>1. ObjectOk(t)'
    BY <1>1, <1>2, <1>3 DEF ObjectOk, Idle, Inv, ObjectsOwned
  <2>2. \A u \in Tasks : u # t /\ call[u].obj # None
            => call[u].obj # None /\ call[u].obj # call'[t].obj
    BY <1>1, <1>2, <1>3, OwnedObject, GdmaAssumption
    DEF UninstallIntr, Usable, Inv, ObjectsOwned
  <2> QED
    BY <1>1, <1>2, <1>3, <2>1, <2>2, OwnStep DEF Inv
<1>5. RefCounts'
  <2>1. \A q : t \in PairTasks(q)' <=> t \in PairTasks(q)
    BY <1>1, <1>2 DEF PairTasks, HoldsPair, Idle
  <2>2. \A g : /\ t \in Searchers(g)' => t \in Searchers(g)
               /\ t \in PairFreers(g)' => t \in PairFreers(g)
    BY <1>1, <1>2 DEF Searchers, PairFreers, Searches, At, GroupOf, Idle
  <2>3. call[t].pc # "refGroup" /\ call'[t].pc # "refGroup"
    BY <1>1, <1>2 DEF Idle
  <2>4. UNCHANGED <<groupUp, groupRef, pairUp, pairRef>>
    BY DEF UninstallIntr, groupVars, pairVars
  <2>5. \A e \in Channels :
           /\ chan'[e].st = "live" <=> chan[e].st = "live"
           /\ chan[e].st = "live" => chan'[e].pair = chan[e].pair
    BY <1>1, <1>3
  <2> QED
    BY <1>2, <2>1, <2>2, <2>3, <2>4, <2>5, QuietStep DEF Inv
<1> QED
  BY <1>4, <1>5

LEMMA InvDisableEvents ==
    ASSUME Inv, TypeInv', NEW t \in Tasks,
           DisableEvents(t)
    PROVE  ObjectsOwned' /\ RefCounts'
<1>0. PICK o : o = call[t].obj
  OBVIOUS
<1>1. /\ call \in [Tasks -> GoodCall] /\ call[t] \in GoodCall
      /\ call[t].pc = "disableEvents" /\ call[t].op = "delete"
  BY <1>0 DEF DisableEvents, Inv, TypeInv, At, GoodCall, Call
<1>2. /\ call' = [call EXCEPT ![t] = call'[t]]
      /\ /\ call'[t].pc = "releasePair"
         /\ call'[t].op = "delete"
         /\ call'[t].obj = None
         /\ call'[t].pair = call[t].pair
  BY <1>1 DEF DisableEvents, Goto, Return, GoodCall, Call, Idle
<1>3. /\ o \in Channels /\ chan[o].st = "dying" /\ chan'[o].st = "free"
      /\ \A e \in Channels : e # o => chan'[e] = chan[e]
  BY <1>0, <1>1 DEF DisableEvents, Inv, TypeInv, TypeOK, FreeChannel, Usable, ObjectsOwned, ObjectOk
<1>4. ObjectsOwned'
  <2>1. ObjectOk(t)'
    BY <1>1, <1>2, <1>3 DEF ObjectOk, Idle, Inv, ObjectsOwned
  <2>2. \A u \in Tasks : u # t /\ call[u].obj # None
            => call[u].obj # o /\ call[u].obj # call'[t].obj
    BY <1>0, <1>1, <1>2, <1>3, OwnedObject, GdmaAssumption
    DEF DisableEvents, Usable, Inv, ObjectsOwned
  <2> QED
    BY <1>1, <1>2, <1>3, <2>1, <2>2, OwnStep DEF Inv
<1>5. RefCounts'
  <2>1. \A q : t \in PairTasks(q)' <=> t \in PairTasks(q)
    BY <1>1, <1>2 DEF PairTasks, HoldsPair, Idle
  <2>2. \A g : /\ t \in Searchers(g)' => t \in Searchers(g)
               /\ t \in PairFreers(g)' => t \in PairFreers(g)
    BY <1>1, <1>2 DEF Searchers, PairFreers, Searches, At, GroupOf, Idle
  <2>3. call[t].pc # "refGroup" /\ call'[t].pc # "refGroup"
    BY <1>1, <1>2 DEF Idle
  <2>4. UNCHANGED <<groupUp, groupRef, pairUp, pairRef>>
    BY DEF DisableEvents, groupVars, pairVars
  <2>5. \A e \in Channels :
           /\ chan'[e].st = "live" <=> chan[e].st = "live"
           /\ chan[e].st = "live" => chan'[e].pair = chan[e].pair
    BY <1>1, <1>3
  <2> QED
    BY <1>2, <2>1, <2>2, <2>3, <2>4, <2>5, QuietStep DEF Inv
<1> QED
  BY <1>4, <1>5

LEMMA InvInstallIntr ==
    ASSUME Inv, TypeInv', NEW t \in Tasks, NEW c \in Channels,
           InstallIntr(t, c)
    PROVE  ObjectsOwned' /\ RefCounts'
<1>1. /\ call \in [Tasks -> GoodCall] /\ call[t] \in GoodCall
      /\ call[t].pc = "idle"
  BY DEF InstallIntr, Inv, TypeInv, At, GoodCall, Call
<1>2. /\ call' = [call EXCEPT ![t] = call'[t]]
      /\ call'[t] = [pc |-> "enableEvents", op |-> "none", obj |-> c,
                    code |-> {}, pair |-> chan[c].pair]
  BY <1>1 DEF InstallIntr, Goto, Return, GoodCall, Call, Idle
<1>3. /\ c \in Channels /\ chan[c].st = "live" /\ chan'[c].st = "live"
      /\ chan'[c].pair = chan[c].pair
      /\ \A e \in Channels : e # c => chan'[e] = chan[e]
  BY <1>1 DEF InstallIntr, Inv, TypeInv, TypeOK, FreeChannel, Usable, ObjectsOwned, ObjectOk
<1>4. ObjectsOwned'
  <2>1. ObjectOk(t)'
    BY <1>1, <1>2, <1>3 DEF ObjectOk, Idle, Inv, ObjectsOwned
  <2>2. \A u \in Tasks : u # t /\ call[u].obj # None
            => call[u].obj # c /\ call[u].obj # call'[t].obj
    BY <1>1, <1>2, <1>3, OwnedObject, GdmaAssumption
    DEF InstallIntr, Usable, Inv, ObjectsOwned
  <2> QED
    BY <1>1, <1>2, <1>3, <2>1, <2>2, OwnStep DEF Inv
<1>5. RefCounts'
  <2>1. \A q : t \in PairTasks(q)' <=> t \in PairTasks(q)
    BY <1>1, <1>2 DEF PairTasks, HoldsPair, Idle
  <2>2. \A g : /\ t \in Searchers(g)' => t \in Searchers(g)
               /\ t \in PairFreers(g)' => t \in PairFreers(g)
    BY <1>1, <1>2 DEF Searchers, PairFreers, Searches, At, GroupOf, Idle
  <2>3. call[t].pc # "refGroup" /\ call'[t].pc # "refGroup"
    BY <1>1, <1>2 DEF Idle
  <2>4. UNCHANGED <<groupUp, groupRef, pairUp, pairRef>>
    BY DEF InstallIntr, groupVars, pairVars
  <2>5. \A e \in Channels :
           /\ chan'[e].st = "live" <=> chan[e].st = "live"
           /\ chan[e].st = "live" => chan'[e].pair = chan[e].pair
    BY <1>1, <1>3
  <2> QED
    BY <1>2, <2>1, <2>2, <2>3, <2>4, <2>5, QuietStep DEF Inv
<1> QED
  BY <1>4, <1>5

LEMMA InvEnableEvents ==
    ASSUME Inv, TypeInv', NEW t \in Tasks, NEW on \in BOOLEAN,
           EnableEvents(t, on)
    PROVE  ObjectsOwned' /\ RefCounts'
<1>0. PICK o : o = call[t].obj
  OBVIOUS
<1>1. /\ call \in [Tasks -> GoodCall] /\ call[t] \in GoodCall
      /\ call[t].pc = "enableEvents" /\ call[t].op = "none"
  BY <1>0 DEF EnableEvents, Inv, TypeInv, At, GoodCall, Call
<1>2. /\ call' = [call EXCEPT ![t] = call'[t]]
      /\ call'[t] = Idle
  BY <1>1 DEF EnableEvents, Goto, Return, GoodCall, Call, Idle
<1>3. /\ o \in Channels /\ chan[o].st = "live"
      /\ chan'[o].st = "live" /\ chan'[o].pair = chan[o].pair
      /\ \A e \in Channels : e # o => chan'[e] = chan[e]
  BY <1>0, <1>1 DEF EnableEvents, Inv, TypeInv, TypeOK, FreeChannel, Usable, ObjectsOwned, ObjectOk
<1>4. ObjectsOwned'
  <2>1. ObjectOk(t)'
    BY <1>1, <1>2, <1>3 DEF ObjectOk, Idle, Inv, ObjectsOwned
  <2>2. \A u \in Tasks : u # t /\ call[u].obj # None
            => call[u].obj # o /\ call[u].obj # call'[t].obj
    BY <1>0, <1>1, <1>2, <1>3, OwnedObject, GdmaAssumption
    DEF EnableEvents, Usable, Inv, ObjectsOwned, Idle
  <2> QED
    BY <1>1, <1>2, <1>3, <2>1, <2>2, OwnStep DEF Inv
<1>5. RefCounts'
  <2>1. \A q : t \in PairTasks(q)' <=> t \in PairTasks(q)
    BY <1>1, <1>2 DEF PairTasks, HoldsPair, Idle
  <2>2. \A g : /\ t \in Searchers(g)' => t \in Searchers(g)
               /\ t \in PairFreers(g)' => t \in PairFreers(g)
    BY <1>1, <1>2 DEF Searchers, PairFreers, Searches, At, GroupOf, Idle
  <2>3. call[t].pc # "refGroup" /\ call'[t].pc # "refGroup"
    BY <1>1, <1>2 DEF Idle
  <2>4. UNCHANGED <<groupUp, groupRef, pairUp, pairRef>>
    BY DEF EnableEvents, groupVars, pairVars
  <2>5. \A e \in Channels :
           /\ chan'[e].st = "live" <=> chan[e].st = "live"
           /\ chan[e].st = "live" => chan'[e].pair = chan[e].pair
    BY <1>1, <1>3
  <2> QED
    BY <1>2, <2>1, <2>2, <2>3, <2>4, <2>5, QuietStep DEF Inv
<1> QED
  BY <1>4, <1>5

LEMMA InvConnect ==
    ASSUME Inv, TypeInv', NEW t \in Tasks, NEW c \in Channels,
           NEW id \in PeriphIds \cup {Unbound},
           Connect(t, c, id)
    PROVE  ObjectsOwned' /\ RefCounts'
<1>1. /\ call \in [Tasks -> GoodCall] /\ call[t] \in GoodCall
      /\ call[t].pc = "idle" /\ call[t].op = "none" /\ call[t].obj = None
  BY DEF Connect, Inv, TypeInv, At, GoodCall, Call
<1>2. /\ call' = [call EXCEPT ![t] = call'[t]]
      /\ call'[t] = call[t]
  BY <1>1 DEF Connect, Goto, Return, GoodCall, Call, Idle
<1>3. /\ c \in Channels /\ chan[c].st = "live" /\ chan'[c].st = "live"
      /\ chan'[c].pair = chan[c].pair
      /\ \A e \in Channels : e # c => chan'[e] = chan[e]
  BY <1>1 DEF Connect, Inv, TypeInv, TypeOK, FreeChannel, Usable, ObjectsOwned, ObjectOk
<1>4. ObjectsOwned'
  <2>1. ObjectOk(t)'
    BY <1>1, <1>2, <1>3 DEF ObjectOk, Idle, Inv, ObjectsOwned
  <2>2. \A u \in Tasks : u # t /\ call[u].obj # None
            => call[u].obj # c /\ call[u].obj # call'[t].obj
    BY <1>1, <1>2, <1>3, OwnedObject, GdmaAssumption
    DEF Connect, Usable, Inv, ObjectsOwned
  <2> QED
    BY <1>1, <1>2, <1>3, <2>1, <2>2, OwnStep DEF Inv
<1>5. RefCounts'
  <2>1. \A q : t \in PairTasks(q)' <=> t \in PairTasks(q)
    BY <1>1, <1>2 DEF PairTasks, HoldsPair, Idle
  <2>2. \A g : /\ t \in Searchers(g)' => t \in Searchers(g)
               /\ t \in PairFreers(g)' => t \in PairFreers(g)
    BY <1>1, <1>2 DEF Searchers, PairFreers, Searches, At, GroupOf, Idle
  <2>3. call[t].pc # "refGroup" /\ call'[t].pc # "refGroup"
    BY <1>1, <1>2 DEF Idle
  <2>4. UNCHANGED <<groupUp, groupRef, pairUp, pairRef>>
    BY DEF Connect, groupVars, pairVars
  <2>5. \A e \in Channels :
           /\ chan'[e].st = "live" <=> chan[e].st = "live"
           /\ chan[e].st = "live" => chan'[e].pair = chan[e].pair
    BY <1>1, <1>3
  <2> QED
    BY <1>2, <2>1, <2>2, <2>3, <2>4, <2>5, QuietStep DEF Inv
<1> QED
  BY <1>4, <1>5

LEMMA InvDisconnect ==
    ASSUME Inv, TypeInv', NEW t \in Tasks, NEW c \in Channels,
           Disconnect(t, c)
    PROVE  ObjectsOwned' /\ RefCounts'
<1>1. /\ call \in [Tasks -> GoodCall] /\ call[t] \in GoodCall
      /\ call[t].pc = "idle" /\ call[t].op = "none" /\ call[t].obj = None
  BY DEF Disconnect, Inv, TypeInv, At, GoodCall, Call
<1>2. /\ call' = [call EXCEPT ![t] = call'[t]]
      /\ call'[t] = call[t]
  BY <1>1 DEF Disconnect, Goto, Return, GoodCall, Call, Idle
<1>3. /\ c \in Channels /\ chan[c].st = "live" /\ chan'[c].st = "live"
      /\ chan'[c].pair = chan[c].pair
      /\ \A e \in Channels : e # c => chan'[e] = chan[e]
  BY <1>1 DEF Disconnect, Inv, TypeInv, TypeOK, FreeChannel, Usable, ObjectsOwned, ObjectOk
<1>4. ObjectsOwned'
  <2>1. ObjectOk(t)'
    BY <1>1, <1>2, <1>3 DEF ObjectOk, Idle, Inv, ObjectsOwned
  <2>2. \A u \in Tasks : u # t /\ call[u].obj # None
            => call[u].obj # c /\ call[u].obj # call'[t].obj
    BY <1>1, <1>2, <1>3, OwnedObject, GdmaAssumption
    DEF Disconnect, Usable, Inv, ObjectsOwned
  <2> QED
    BY <1>1, <1>2, <1>3, <2>1, <2>2, OwnStep DEF Inv
<1>5. RefCounts'
  <2>1. \A q : t \in PairTasks(q)' <=> t \in PairTasks(q)
    BY <1>1, <1>2 DEF PairTasks, HoldsPair, Idle
  <2>2. \A g : /\ t \in Searchers(g)' => t \in Searchers(g)
               /\ t \in PairFreers(g)' => t \in PairFreers(g)
    BY <1>1, <1>2 DEF Searchers, PairFreers, Searches, At, GroupOf, Idle
  <2>3. call[t].pc # "refGroup" /\ call'[t].pc # "refGroup"
    BY <1>1, <1>2 DEF Idle
  <2>4. UNCHANGED <<groupUp, groupRef, pairUp, pairRef>>
    BY DEF Disconnect, groupVars, pairVars
  <2>5. \A e \in Channels :
           /\ chan'[e].st = "live" <=> chan[e].st = "live"
           /\ chan[e].st = "live" => chan'[e].pair = chan[e].pair
    BY <1>1, <1>3
  <2> QED
    BY <1>2, <2>1, <2>2, <2>3, <2>4, <2>5, QuietStep DEF Inv
<1> QED
  BY <1>4, <1>5

-----------------------------------------------------------------------------
\* The pairs of a group, when the step may concern the pair q only.
LEMMA PairFrame ==
    ASSUME NEW t \in Tasks, NEW q, TypeInv,
           call' = [call EXCEPT ![t] = call'[t]],
           \A r \in Pairs : r # q => pairUp'[r] = pairUp[r],
           call[t].pc = "refGroup" => call[t].pair = q,
           call'[t].pc = "refGroup" => call'[t].pair = q
    PROVE  \A g : GroupPairs(g)' \ {q} = GroupPairs(g) \ {q}
<1>1. \A u \in Tasks : u # t => call'[u] = call[u]
  BY DEF TypeInv
<1> QED
  BY <1>1 DEF GroupPairs, At

\* The same when the step concerns no pair.
LEMMA PairsKept ==
    ASSUME NEW t \in Tasks, TypeInv,
           call' = [call EXCEPT ![t] = call'[t]],
           pairUp' = pairUp,
           call[t].pc # "refGroup" /\ call'[t].pc # "refGroup"
    PROVE  \A g : GroupPairs(g)' = GroupPairs(g)
<1>1. \A u \in Tasks : u # t => call'[u] = call[u]
  BY DEF TypeInv
<1> QED
  BY <1>1 DEF GroupPairs, At

LEMMA InvRegister ==
    ASSUME Inv, TypeInv', NEW t \in Tasks, Register(t)
    PROVE  ObjectsOwned' /\ RefCounts'
<1>0. PICK o, q : o = call[t].obj /\ q = call[t].pair
  OBVIOUS
<1>1. /\ call[t].pc = "register" /\ call[t].op = "search"
      /\ o \in Channels /\ q \in Pairs
      /\ chan[o].st = "new"
  BY <1>0 DEF Register, Inv, TypeInv, At, GoodCall, ObjectsOwned, ObjectOk
<1>2. call' = [call EXCEPT ![t] = call'[t]] /\ call'[t] = Idle
  BY DEF Register, Return, Inv, TypeInv
<1>3. /\ chan'[o].st = "live" /\ chan'[o].pair = q
      /\ \A e \in Channels : e # o => chan'[e] = chan[e]
  BY <1>0, <1>1 DEF Register, Inv, TypeInv, TypeOK, Channel
<1>4. ObjectsOwned'
  <2>1. ObjectOk(t)'
    BY <1>2 DEF ObjectOk, Idle
  <2>2. \A u \in Tasks : u # t /\ call[u].obj # None
            => call[u].obj # o /\ call[u].obj # call'[t].obj
    BY <1>0, <1>1, <1>2, GdmaAssumption DEF Inv, ObjectsOwned, Idle
  <2> QED
    BY <1>2, <1>3, <2>1, <2>2, OwnStep DEF Inv
<1>5. PairCounts'
  <2>1. \A r \in Pairs : /\ t \in PairTasks(r) <=> r = q
                         /\ t \notin PairTasks(r)'
                         /\ o \notin PairChannels(r)
                         /\ o \in PairChannels(r)' <=> r = q
    BY <1>0, <1>1, <1>2, <1>3 DEF PairTasks, HoldsPair, PairChannels, Idle
  <2>2. /\ pairRef' = pairRef /\ pairUp' = pairUp
        /\ \A r \in Pairs : pairRef[r] \in Int
    BY DEF Register, Inv, TypeInv, TypeOK
  <2>3. \A r \in Pairs :
           /\ pairRef'[r] = pairRef[r]
                 + Bit(t \in PairTasks(r)') - Bit(t \in PairTasks(r))
                 + Bit(o \in PairChannels(r)') - Bit(o \in PairChannels(r))
           /\ pairUp'[r] <=> pairRef'[r] > 0
    BY <2>1, <2>2 DEF Bit, Inv, RefCounts, PairCounts
  <2> QED
    BY <1>2, <1>3, <2>3, PairCountsStep DEF Inv, RefCounts
<1>6. GroupCounts'
  <2>1. \A g : GroupPairs(g)' = GroupPairs(g)
    BY <1>1, <1>2, PairsKept DEF Register, Inv, Idle
  <2>2. \A g : /\ t \notin Searchers(g) /\ t \notin Searchers(g)'
               /\ t \notin PairFreers(g) /\ t \notin PairFreers(g)'
    BY <1>1, <1>2 DEF Searchers, PairFreers, Searches, At, GroupOf, Idle
  <2>3. /\ groupRef' = groupRef /\ groupUp' = groupUp
        /\ \A g \in Groups : groupRef[g] \in Int
    BY DEF Register, Inv, TypeInv, TypeOK, groupVars
  <2>4. \A g \in Groups :
           /\ GroupPairs(g)' \ {q} = GroupPairs(g) \ {q}
           /\ groupRef'[g] >= groupRef[g]
                 + Bit(t \in Searchers(g)') - Bit(t \in Searchers(g))
                 + Bit(t \in PairFreers(g)') - Bit(t \in PairFreers(g))
                 + Bit(q \in GroupPairs(g)') - Bit(q \in GroupPairs(g))
           /\ groupUp'[g] <=> groupRef'[g] > 0
    BY <2>1, <2>2, <2>3 DEF Bit, Inv, RefCounts, GroupCounts
  <2> QED
    BY <1>1, <1>2, <2>4, GroupCountsStep DEF Inv, RefCounts
<1> QED
  BY <1>4, <1>5, <1>6 DEF RefCounts

LEMMA InvDelChannel ==
    ASSUME Inv, TypeInv', NEW t \in Tasks, NEW c \in Channels,
           DelChannel(t, c)
    PROVE  ObjectsOwned' /\ RefCounts'
<1>0. PICK q : q = chan[c].pair
  OBVIOUS
<1>1. /\ call[t].pc = "idle"
      /\ q \in Pairs
      /\ chan[c].st = "live"
      /\ \A u \in Tasks : call[u].obj # c
  BY <1>0 DEF DelChannel, Usable, Inv, TypeInv, TypeOK, Channel, At
<1>2. /\ call' = [call EXCEPT ![t] = call'[t]]
      /\ call'[t].op = "delete" /\ call'[t].pair = q
      /\ \/ /\ call'[t].pc = "uninstall" /\ call'[t].obj = c
            /\ chan'[c].st = "dying"
         \/ /\ call'[t].pc = "releasePair" /\ call'[t].obj = None
            /\ chan'[c].st = "free"
      /\ \A e \in Channels : e # c => chan'[e] = chan[e]
  <2>1. chan[c] \in Channel /\ chan \in [Channels -> Channel]
    BY DEF Inv, TypeInv, TypeOK
  <2>2. CASE chan[c].intr
    BY <1>0, <2>1, <2>2 DEF DelChannel, Inv, TypeInv, Channel
  <2>3. CASE ~chan[c].intr
    BY <1>0, <2>1, <2>3 DEF DelChannel, Inv, TypeInv, FreeChannel
  <2> QED
    BY <2>2, <2>3
<1>4. ObjectsOwned'
  <2>1. ObjectOk(t)'
    BY <1>2 DEF ObjectOk
  <2>2. \A u \in Tasks : u # t /\ call[u].obj # None
            => call[u].obj # c /\ call[u].obj # call'[t].obj
    BY <1>1, <1>2
  <2> QED
    BY <1>2, <2>1, <2>2, OwnStep DEF Inv
<1>5. PairCounts'
  <2>1. \A r \in Pairs : /\ t \notin PairTasks(r)
                         /\ t \in PairTasks(r)' <=> r = q
                         /\ c \in PairChannels(r) <=> r = q
                         /\ c \notin PairChannels(r)'
    BY <1>0, <1>1, <1>2 DEF PairTasks, HoldsPair, PairChannels
  <2>2. /\ pairRef' = pairRef /\ pairUp' = pairUp
        /\ \A r \in Pairs : pairRef[r] \in Int
    BY DEF DelChannel, Inv, TypeInv, TypeOK
  <2>3. \A r \in Pairs :
           /\ pairRef'[r] = pairRef[r]
                 + Bit(t \in PairTasks(r)') - Bit(t \in PairTasks(r))
                 + Bit(c \in PairChannels(r)') - Bit(c \in PairChannels(r))
           /\ pairUp'[r] <=> pairRef'[r] > 0
    BY <2>1, <2>2 DEF Bit, Inv, RefCounts, PairCounts
  <2> QED
    BY <1>2, <2>3, PairCountsStep DEF Inv, RefCounts
<1>6. GroupCounts'
  <2>1. \A g : GroupPairs(g)' = GroupPairs(g)
    <3>1. call[t].pc # "refGroup" /\ call'[t].pc # "refGroup"
      BY <1>1, <1>2
    <3> QED
      BY <1>2, <3>1, PairsKept DEF DelChannel, Inv
  <2>2. \A g : /\ t \notin Searchers(g) /\ t \notin Searchers(g)'
               /\ t \notin PairFreers(g) /\ t \notin PairFreers(g)'
    BY <1>1, <1>2 DEF Searchers, PairFreers, Searches, At, GroupOf
  <2>3. /\ groupRef' = groupRef /\ groupUp' = groupUp
        /\ \A g \in Groups : groupRef[g] \in Int
    BY DEF DelChannel, Inv, TypeInv, TypeOK, groupVars
  <2>4. \A g \in Groups :
           /\ GroupPairs(g)' \ {q} = GroupPairs(g) \ {q}
           /\ groupRef'[g] >= groupRef[g]
                 + Bit(t \in Searchers(g)') - Bit(t \in Searchers(g))
                 + Bit(t \in PairFreers(g)') - Bit(t \in PairFreers(g))
                 + Bit(q \in GroupPairs(g)') - Bit(q \in GroupPairs(g))
           /\ groupUp'[g] <=> groupRef'[g] > 0
    BY <2>1, <2>2, <2>3 DEF Bit, Inv, RefCounts, GroupCounts
  <2> QED
    BY <1>1, <1>2, <2>4, GroupCountsStep DEF Inv, RefCounts
<1> QED
  BY <1>4, <1>5, <1>6 DEF RefCounts

LEMMA InvNewSibling ==
    ASSUME Inv, TypeInv', NEW t \in Tasks, NEW c \in Channels,
           NEW s \in Channels, NewSibling(t, c, s)
    PROVE  ObjectsOwned' /\ RefCounts'
<1>0. PICK q : q = chan[s].pair
  OBVIOUS
<1>1. /\ call[t].pc = "idle"
      /\ q \in Pairs
      /\ chan[c].st = "free" /\ chan[s].st = "live"
  BY <1>0 DEF NewSibling, Usable, Inv, TypeInv, TypeOK, Channel, At
<1>2. /\ call' = [call EXCEPT ![t] = call'[t]]
      /\ call'[t].pc = "register" /\ call'[t].op = "search"
      /\ call'[t].obj = c /\ call'[t].pair = q
  BY <1>0 DEF NewSibling, Inv, TypeInv
<1>3. /\ chan'[c].st = "new"
      /\ \A e \in Channels : e # c => /\ chan'[e].st = chan[e].st
                                      /\ chan'[e].pair = chan[e].pair
  <2>1. PICK d \in Dirs \ {chan[s].dir} :
           chan' = [chan EXCEPT
                       ![c] = [FreeChannel EXCEPT !.st = "new", !.dir = d],
                       ![s].reserves = FALSE]
    BY DEF NewSibling
  <2>2. \A e \in Channels : chan[e] \in Channel
    BY DEF Inv, TypeInv, TypeOK
  <2>3. /\ c # s
        /\ chan'[c] = [FreeChannel EXCEPT !.st = "new", !.dir = d]
        /\ chan'[s] = [chan[s] EXCEPT !.reserves = FALSE]
        /\ \A e \in Channels : e # c /\ e # s => chan'[e] = chan[e]
    BY <1>1, <2>1 DEF Inv, TypeInv, TypeOK
  <2>4. chan'[c].st = "new"
    BY <2>3 DEF FreeChannel
  <2>5. chan'[s].st = chan[s].st /\ chan'[s].pair = chan[s].pair
    BY <2>2, <2>3 DEF Channel
  <2> QED
    BY <2>3, <2>4, <2>5
<1>4. ObjectsOwned'
  <2>1. ObjectOk(t)'
    BY <1>2, <1>3 DEF ObjectOk
  <2>2. \A u \in Tasks : u # t /\ call[u].obj # None
            => call[u].obj # c /\ call[u].obj # call'[t].obj
    BY <1>1, <1>2, OwnedObject DEF Inv
  <2> QED
    BY <1>2, <1>3, <2>1, <2>2, OwnStep DEF Inv
<1>5. PairCounts'
  <2>1. \A r \in Pairs : /\ t \notin PairTasks(r)
                         /\ t \in PairTasks(r)' <=> r = q
                         /\ c \notin PairChannels(r)
                         /\ c \notin PairChannels(r)'
    BY <1>1, <1>2, <1>3 DEF PairTasks, HoldsPair, PairChannels
  <2>2. /\ pairRef' = [pairRef EXCEPT ![q] = pairRef[q] + 1]
        /\ pairUp' = pairUp
        /\ \A r \in Pairs : pairRef[r] \in Int
        /\ pairRef \in [Pairs -> Int]
    BY <1>0 DEF NewSibling, Inv, TypeInv, TypeOK
  <2>3. pairUp[q] /\ pairRef[q] > 0
    <3>1. s \in PairChannels(q)
      BY <1>0, <1>1 DEF PairChannels
    <3>2. PairCounts /\ PairChannels(q) # {}
      BY <3>1 DEF Inv, RefCounts
    <3> QED
      BY <1>1, <3>2, PairReferred
  <2>4. \A r \in Pairs :
           /\ pairRef'[r] = pairRef[r]
                 + Bit(t \in PairTasks(r)') - Bit(t \in PairTasks(r))
                 + Bit(c \in PairChannels(r)') - Bit(c \in PairChannels(r))
           /\ pairUp'[r] <=> pairRef'[r] > 0
    BY <1>1, <2>1, <2>2, <2>3 DEF Bit, Inv, RefCounts, PairCounts
  <2>5. /\ TypeInv /\ PairCounts
        /\ call' = [call EXCEPT ![t] = call'[t]]
        /\ \A e \in Channels : e # c => /\ chan'[e].st = chan[e].st
                                        /\ chan'[e].pair = chan[e].pair
    BY <1>2, <1>3 DEF Inv, RefCounts
  <2> QED
    BY <2>4, <2>5, PairCountsStep
<1>6. GroupCounts'
  <2>1. \A g : GroupPairs(g)' = GroupPairs(g)
    <3>1. call[t].pc # "refGroup" /\ call'[t].pc # "refGroup"
      BY <1>1, <1>2
    <3> QED
      BY <1>2, <3>1, PairsKept DEF NewSibling, Inv
  <2>2. \A g : /\ t \notin Searchers(g) /\ t \notin Searchers(g)'
               /\ t \notin PairFreers(g) /\ t \notin PairFreers(g)'
    BY <1>1, <1>2 DEF Searchers, PairFreers, Searches, At, GroupOf
  <2>3. /\ groupRef' = groupRef /\ groupUp' = groupUp
        /\ \A g \in Groups : groupRef[g] \in Int
    BY DEF NewSibling, Inv, TypeInv, TypeOK, groupVars
  <2>4. \A g \in Groups :
           /\ GroupPairs(g)' \ {q} = GroupPairs(g) \ {q}
           /\ groupRef'[g] >= groupRef[g]
                 + Bit(t \in Searchers(g)') - Bit(t \in Searchers(g))
                 + Bit(t \in PairFreers(g)') - Bit(t \in PairFreers(g))
                 + Bit(q \in GroupPairs(g)') - Bit(q \in GroupPairs(g))
           /\ groupUp'[g] <=> groupRef'[g] > 0
    BY <2>1, <2>2, <2>3 DEF Bit, Inv, RefCounts, GroupCounts
  <2> QED
    BY <1>1, <1>2, <2>4, GroupCountsStep DEF Inv, RefCounts
<1> QED
  BY <1>4, <1>5, <1>6 DEF RefCounts

\* No count is ever negative.
LEMMA CountsNonNegative ==
    ASSUME TypeInv, RefCounts
    PROVE  /\ \A q \in Pairs : pairRef[q] >= 0
           /\ \A g \in Groups : groupRef[g] >= 0
<1>1. ASSUME NEW q \in Pairs
      PROVE  pairRef[q] >= 0
  <2>1. /\ Cardinality(PairTasks(q)) \in Nat
        /\ Cardinality(PairChannels(q)) \in Nat
    BY FiniteRefs, FS_CardinalityType
  <2> QED
    BY <2>1 DEF RefCounts, PairCounts
<1>2. ASSUME NEW g \in Groups
      PROVE  groupRef[g] >= 0
  <2>1. /\ Cardinality(Searchers(g)) \in Nat
        /\ Cardinality(PairFreers(g)) \in Nat
        /\ Cardinality(GroupPairs(g)) \in Nat
        /\ groupRef[g] \in Int
    BY FiniteRefs, FS_CardinalityType DEF TypeInv, TypeOK
  <2> QED
    BY <2>1 DEF RefCounts, GroupCounts
<1> QED
  BY <1>1, <1>2

\* A call that keeps its object, or gives it up, while no object changes.
LEMMA OwnKept ==
    ASSUME NEW t \in Tasks, TypeInv, TypeInv', ObjectsOwned,
           call' = [call EXCEPT ![t] = call'[t]], chan' = chan,
           \/ call'[t] = Idle
           \/ /\ call[t].op = "search" \/ call'[t].op = "delete"
                                       \/ call'[t].op = "error"
              /\ call'[t].op = call[t].op
              /\ call'[t].obj = call[t].obj
              /\ call'[t].pc \notin {"uninstall", "disableEvents",
                                     "enableEvents"}
    PROVE  ObjectsOwned'
<1>1. ObjectOk(t)'
  BY DEF ObjectsOwned, ObjectOk, Idle
<1>2. \A u \in Tasks : u # t /\ call[u].obj # None
          => call[u].obj # None /\ call[u].obj # call'[t].obj
  BY DEF ObjectsOwned, Idle
<1> QED
  BY <1>1, <1>2, OwnStep

\* The slot of a group that is not installed holds no pair: filling it anew
\* loses nothing.
LEMMA EmptyGroup ==
    ASSUME Inv, NEW g \in Groups, ~groupUp[g]
    PROVE  \A q \in Pairs : q[1] = g => ~pairUp[q] /\ pairRef[q] = 0
<1> SUFFICES ASSUME NEW q \in Pairs, q[1] = g
             PROVE  ~pairUp[q] /\ pairRef[q] = 0
  OBVIOUS
<1>1. Searchers(g) = {} /\ GroupPairs(g) = {}
  BY GroupReferred DEF Inv, RefCounts
<1>2. ~pairUp[q]
  <2> SUFFICES ASSUME pairUp[q]
               PROVE  FALSE
    OBVIOUS
  <2>1. PICK u \in Tasks : call[u].pc = "refGroup" /\ call[u].pair = q
    BY <1>1 DEF GroupPairs, At
  <2>2. call[u].op = "search"
    BY <2>1 DEF Inv, TypeInv, GoodCall
  <2>3. u \in Searchers(g)
    BY <2>1, <2>2 DEF Searchers, Searches, GroupOf
  <2> QED
    BY <1>1, <2>3
<1>3. pairRef[q] \in Int /\ pairRef[q] >= 0
  BY CountsNonNegative DEF Inv, TypeInv, TypeOK
<1> QED
  BY <1>2, <1>3 DEF Inv, RefCounts, PairCounts

LEMMA InvAcquireGroup ==
    ASSUME Inv, TypeInv', NEW t \in Tasks, AcquireGroup(t)
    PROVE  ObjectsOwned' /\ RefCounts'
<1>0. PICK g, q : g = GroupOf(t) /\ q = call[t].pair
  OBVIOUS
<1>1. /\ call[t].pc = "acquireGroup" /\ call[t].op = "search"
      /\ call[t].obj \in Channels
      /\ g \in Groups /\ q \in Pairs /\ q[1] = g
  BY <1>0, PairFacts
  DEF AcquireGroup, Inv, TypeInv, At, GoodCall, Call, GroupOf
<1>2. /\ call' = [call EXCEPT ![t] = call'[t]]
      /\ call'[t].pc = "acquirePair" /\ call'[t].op = "search"
      /\ call'[t].obj = call[t].obj /\ call'[t].pair = q
      /\ chan' = chan
  BY <1>0, <1>1 DEF AcquireGroup, Goto, Inv, TypeInv, GoodCall, Call
<1>3. pairUp' = pairUp /\ pairRef' = pairRef
  <2>1. CASE groupUp[g]
    BY <1>0, <2>1 DEF AcquireGroup
  <2>2. CASE ~groupUp[g]
    <3>1. /\ pairUp' = [r \in Pairs |-> r[1] # g /\ pairUp[r]]
          /\ pairRef' = [r \in Pairs |-> IF r[1] = g THEN 0 ELSE pairRef[r]]
      BY <1>0, <2>2 DEF AcquireGroup
    <3>2. \A r \in Pairs : r[1] = g => ~pairUp[r] /\ pairRef[r] = 0
      BY <1>1, <2>2, EmptyGroup
    <3>3. pairUp' = pairUp
      BY <3>1, <3>2 DEF Inv, TypeInv, TypeOK
    <3>4. pairRef' = pairRef
      BY <3>1, <3>2 DEF Inv, TypeInv, TypeOK
    <3> QED
      BY <3>3, <3>4
  <2> QED
    BY <2>1, <2>2
<1>4. ObjectsOwned'
  BY <1>1, <1>2, OwnKept DEF Inv
<1>5. PairCounts'
  <2>1. \A r \in Pairs : /\ t \notin PairTasks(r)
                         /\ t \notin PairTasks(r)'
                         /\ None \notin PairChannels(r)
                         /\ None \notin PairChannels(r)'
    BY <1>1, <1>2, GdmaAssumption DEF PairTasks, HoldsPair, PairChannels
  <2>2. \A r \in Pairs : pairRef[r] \in Int
    BY DEF Inv, TypeInv, TypeOK
  <2>3. \A r \in Pairs :
           /\ pairRef'[r] = pairRef[r]
                 + Bit(t \in PairTasks(r)') - Bit(t \in PairTasks(r))
                 + Bit(None \in PairChannels(r)')
                 - Bit(None \in PairChannels(r))
           /\ pairUp'[r] <=> pairRef'[r] > 0
    BY <1>3, <2>1, <2>2 DEF Bit, Inv, RefCounts, PairCounts
  <2> QED
    BY <1>2, <2>3, PairCountsStep DEF Inv, RefCounts
<1>6. GroupCounts'
  <2>1. \A h : GroupPairs(h)' = GroupPairs(h)
    <3>1. call[t].pc # "refGroup" /\ call'[t].pc # "refGroup"
      BY <1>1, <1>2
    <3> QED
      BY <1>2, <1>3, <3>1, PairsKept DEF Inv
  <2>2. \A h : /\ t \notin Searchers(h)
               /\ t \in Searchers(h)' <=> h = g
               /\ t \notin PairFreers(h) /\ t \notin PairFreers(h)'
    BY <1>1, <1>2 DEF Searchers, PairFreers, Searches, At, GroupOf
  <2>3. /\ groupRef' = [groupRef EXCEPT ![g] = groupRef[g] + 1]
        /\ groupUp' \in {groupUp, [groupUp EXCEPT ![g] = TRUE]}
        /\ groupUp'[g]
    BY <1>0, <1>1 DEF AcquireGroup, Inv, TypeInv, TypeOK
  <2>4. /\ groupRef \in [Groups -> Int] /\ groupUp \in [Groups -> BOOLEAN]
        /\ groupRef[g] >= 0
    BY <1>1, CountsNonNegative DEF Inv, TypeInv, TypeOK
  <2>5. \A h \in Groups :
           /\ h # g => groupRef'[h] = groupRef[h] /\ groupUp'[h] = groupUp[h]
           /\ h = g => groupRef'[h] = groupRef[h] + 1 /\ groupUp'[h]
           /\ groupRef[h] \in Int
    BY <1>1, <2>3, <2>4
  <2>6. \A h \in Groups :
           /\ GroupPairs(h)' \ {q} = GroupPairs(h) \ {q}
           /\ groupRef'[h] >= groupRef[h]
                 + Bit(t \in Searchers(h)') - Bit(t \in Searchers(h))
                 + Bit(t \in PairFreers(h)') - Bit(t \in PairFreers(h))
                 + Bit(q \in GroupPairs(h)') - Bit(q \in GroupPairs(h))
           /\ groupUp'[h] <=> groupRef'[h] > 0
    BY <2>1, <2>2, <2>4, <2>5 DEF Bit, Inv, RefCounts, GroupCounts
  <2> QED
    BY <1>1, <1>2, <2>6, GroupCountsStep DEF Inv, RefCounts
<1> QED
  BY <1>4, <1>5, <1>6 DEF RefCounts

LEMMA InvAcquirePair ==
    ASSUME Inv, TypeInv', NEW t \in Tasks, AcquirePair(t)
    PROVE  ObjectsOwned' /\ RefCounts'
<1>0. PICK q : q = call[t].pair
  OBVIOUS
<1>1. /\ call[t].pc = "acquirePair" /\ call[t].op = "search"
      /\ call[t].obj \in Channels
      /\ q \in Pairs
  BY <1>0 DEF AcquirePair, Inv, TypeInv, At, GoodCall, Call
<1>2. /\ call' = [call EXCEPT ![t] = call'[t]]
      /\ call'[t].pc = IF pairUp[q] THEN "occupy" ELSE "refGroup"
      /\ call'[t].op = "search"
      /\ call'[t].obj = call[t].obj /\ call'[t].pair = q
      /\ chan' = chan
  BY <1>0, <1>1 DEF AcquirePair, Goto, Inv, TypeInv, GoodCall, Call
<1>3. /\ pairRef' = [pairRef EXCEPT ![q] = pairRef[q] + 1]
      /\ pairUp' \in {pairUp, [pairUp EXCEPT ![q] = TRUE]}
      /\ pairUp'[q]
      /\ groupRef' = groupRef /\ groupUp' = groupUp
  BY <1>0, <1>1 DEF AcquirePair, groupVars, Inv, TypeInv, TypeOK
<1>4. ObjectsOwned'
  BY <1>1, <1>2, OwnKept DEF Inv
<1>5. \A r \in Pairs :
         /\ r # q => pairRef'[r] = pairRef[r] /\ pairUp'[r] = pairUp[r]
         /\ r = q => pairRef'[r] = pairRef[r] + 1 /\ pairUp'[r]
         /\ pairRef[r] \in Int /\ pairRef[r] >= 0
  BY <1>1, <1>3, CountsNonNegative DEF Inv, TypeInv, TypeOK
<1>6. PairCounts'
  <2>1. \A r \in Pairs : /\ t \notin PairTasks(r)
                         /\ t \in PairTasks(r)' <=> r = q
                         /\ None \notin PairChannels(r)
                         /\ None \notin PairChannels(r)'
    BY <1>1, <1>2, GdmaAssumption DEF PairTasks, HoldsPair, PairChannels
  <2>2. \A r \in Pairs :
           /\ pairRef'[r] = pairRef[r]
                 + Bit(t \in PairTasks(r)') - Bit(t \in PairTasks(r))
                 + Bit(None \in PairChannels(r)')
                 - Bit(None \in PairChannels(r))
           /\ pairUp'[r] <=> pairRef'[r] > 0
    BY <1>5, <2>1 DEF Bit, Inv, RefCounts, PairCounts
  <2> QED
    BY <1>2, <2>2, PairCountsStep DEF Inv, RefCounts
<1>7. GroupCounts'
  <2>1. \A h : GroupPairs(h)' \ {q} = GroupPairs(h) \ {q}
    <3>1. \A r \in Pairs : r # q => pairUp'[r] = pairUp[r]
      BY <1>5
    <3>2. /\ call[t].pc = "refGroup" => call[t].pair = q
          /\ call'[t].pc = "refGroup" => call'[t].pair = q
      BY <1>0, <1>2
    <3> QED
      BY <1>2, <3>1, <3>2, PairFrame DEF Inv
  <2>2. \A h : q \in GroupPairs(h)' => q \in GroupPairs(h)
    <3>1. CASE pairUp[q]
      <4>1. \A u \in Tasks : u # t => call'[u] = call[u]
        BY <1>2 DEF Inv, TypeInv
      <4> QED
        BY <1>1, <3>1, <4>1 DEF GroupPairs, At
    <3>2. CASE ~pairUp[q]
      <4>1. call'[t].pc = "refGroup" /\ call'[t].pair = q
        BY <1>2, <3>2
      <4> QED
        BY <4>1 DEF GroupPairs, At
    <3> QED
      BY <3>1, <3>2
  <2>3. \A h : /\ t \in Searchers(h)' <=> t \in Searchers(h)
               /\ t \notin PairFreers(h) /\ t \notin PairFreers(h)'
    BY <1>0, <1>1, <1>2 DEF Searchers, PairFreers, Searches, At, GroupOf
  <2>4. \A h \in Groups : groupRef[h] \in Int
    BY DEF Inv, TypeInv, TypeOK
  <2>5. \A h \in Groups :
           /\ GroupPairs(h)' \ {q} = GroupPairs(h) \ {q}
           /\ groupRef'[h] >= groupRef[h]
                 + Bit(t \in Searchers(h)') - Bit(t \in Searchers(h))
                 + Bit(t \in PairFreers(h)') - Bit(t \in PairFreers(h))
                 + Bit(q \in GroupPairs(h)') - Bit(q \in GroupPairs(h))
           /\ groupUp'[h] <=> groupRef'[h] > 0
    BY <1>3, <2>1, <2>2, <2>3, <2>4 DEF Bit, Inv, RefCounts, GroupCounts
  <2> QED
    BY <1>1, <1>2, <2>5, GroupCountsStep DEF Inv, RefCounts
<1> QED
  BY <1>4, <1>6, <1>7 DEF RefCounts

LEMMA InvRefGroup ==
    ASSUME Inv, TypeInv', NEW t \in Tasks, RefGroup(t)
    PROVE  ObjectsOwned' /\ RefCounts'
<1>0. PICK q, g : q = call[t].pair /\ g = GroupOf(t)
  OBVIOUS
<1>1. /\ call[t].pc = "refGroup" /\ call[t].op = "search"
      /\ call[t].obj \in Channels
      /\ q \in Pairs /\ g \in Groups /\ q[1] = g
  BY <1>0, PairFacts DEF RefGroup, Inv, TypeInv, At, GoodCall, Call, GroupOf
<1>2. /\ call' = [call EXCEPT ![t] = call'[t]]
      /\ call'[t].pc = "occupy" /\ call'[t].op = "search"
      /\ call'[t].obj = call[t].obj /\ call'[t].pair = q
      /\ chan' = chan
  BY <1>0, <1>1 DEF RefGroup, Goto, Inv, TypeInv, GoodCall, Call
<1>3. /\ pairRef' = pairRef /\ pairUp' = pairUp
      /\ groupRef' = [groupRef EXCEPT ![g] = groupRef[g] + 1]
      /\ groupUp' = groupUp
  BY <1>0 DEF RefGroup, pairVars
<1>4. ObjectsOwned'
  BY <1>1, <1>2, OwnKept DEF Inv
<1>5. PairCounts'
  <2>1. \A r \in Pairs : /\ t \in PairTasks(r)' <=> t \in PairTasks(r)
                         /\ None \notin PairChannels(r)
                         /\ None \notin PairChannels(r)'
    BY <1>0, <1>1, <1>2, GdmaAssumption
    DEF PairTasks, HoldsPair, PairChannels
  <2>2. \A r \in Pairs : pairRef[r] \in Int
    BY DEF Inv, TypeInv, TypeOK
  <2>3. \A r \in Pairs :
           /\ pairRef'[r] = pairRef[r]
                 + Bit(t \in PairTasks(r)') - Bit(t \in PairTasks(r))
                 + Bit(None \in PairChannels(r)')
                 - Bit(None \in PairChannels(r))
           /\ pairUp'[r] <=> pairRef'[r] > 0
    BY <1>3, <2>1, <2>2 DEF Bit, Inv, RefCounts, PairCounts
  <2> QED
    BY <1>2, <2>3, PairCountsStep DEF Inv, RefCounts
<1>6. GroupCounts'
  <2>1. \A h : GroupPairs(h)' \ {q} = GroupPairs(h) \ {q}
    <3>1. \A r \in Pairs : r # q => pairUp'[r] = pairUp[r]
      BY <1>3
    <3>2. /\ call[t].pc = "refGroup" => call[t].pair = q
          /\ call'[t].pc = "refGroup" => call'[t].pair = q
      BY <1>0, <1>2
    <3> QED
      BY <1>2, <3>1, <3>2, PairFrame DEF Inv
  <2>2. \A h : h # g => q \notin GroupPairs(h) /\ q \notin GroupPairs(h)'
    BY <1>1 DEF GroupPairs
  <2>3. \A h : /\ t \in Searchers(h)' <=> t \in Searchers(h)
               /\ t \notin PairFreers(h) /\ t \notin PairFreers(h)'
    BY <1>0, <1>1, <1>2 DEF Searchers, PairFreers, Searches, At, GroupOf
  <2>4. groupUp[g] /\ groupRef[g] > 0
    <3>1. t \in Searchers(g)
      BY <1>0, <1>1 DEF Searchers, Searches, At
    <3>2. TypeInv /\ GroupCounts /\ Searchers(g) # {}
      BY <3>1 DEF Inv, RefCounts
    <3> QED
      BY <1>1, <3>2, GroupReferred
  <2>5. \A h \in Groups :
           /\ groupRef[h] \in Int
           /\ groupRef'[h] = groupRef[h] + Bit(h = g)
    BY <1>1, <1>3 DEF Bit, Inv, TypeInv, TypeOK
  <2>6. \A h \in Groups :
           /\ GroupPairs(h)' \ {q} = GroupPairs(h) \ {q}
           /\ groupRef'[h] >= groupRef[h]
                 + Bit(t \in Searchers(h)') - Bit(t \in Searchers(h))
                 + Bit(t \in PairFreers(h)') - Bit(t \in PairFreers(h))
                 + Bit(q \in GroupPairs(h)') - Bit(q \in GroupPairs(h))
           /\ groupUp'[h] <=> groupRef'[h] > 0
    BY <1>3, <2>1, <2>2, <2>3, <2>4, <2>5
    DEF Bit, Inv, RefCounts, GroupCounts
  <2> QED
    BY <1>1, <1>2, <2>6, GroupCountsStep DEF Inv, RefCounts
<1> QED
  BY <1>4, <1>5, <1>6 DEF RefCounts

\* A pair with one reference left is in nobody's use but the releasing call's,
\* so it counts for its group.
LEMMA LastOfPair ==
    ASSUME Inv, NEW t \in Tasks, NEW q \in Pairs, t \in PairTasks(q),
           call[t].pc # "refGroup", pairRef[q] = 1
    PROVE  q \in GroupPairs(q[1])
<1>1. pairUp[q]
  BY DEF Inv, RefCounts, PairCounts
<1>2. ASSUME NEW u \in Tasks, call[u].pc = "refGroup", call[u].pair = q
      PROVE  FALSE
  <2>1. u \in PairTasks(q) /\ u # t
    BY <1>2 DEF PairTasks, HoldsPair
  <2>2. Cardinality(PairTasks(q)) \in Nat /\ Cardinality(PairTasks(q)) >= 2
    BY <2>1, FiniteRefs, Member
  <2>3. Cardinality(PairChannels(q)) \in Nat
    BY FiniteRefs, FS_CardinalityType
  <2>4. pairRef[q] = Cardinality(PairTasks(q)) + Cardinality(PairChannels(q))
    BY DEF Inv, RefCounts, PairCounts
  <2> QED
    BY <2>2, <2>3, <2>4
<1> QED
  BY <1>1, <1>2 DEF GroupPairs, At

\* AfterPair in terms of the fields of the call.
LEMMA AfterPairFields ==
    ASSUME Inv, NEW t \in Tasks,
           call[t].pc \in {"releasePair", "releasePairsGroup"},
           AfterPair(t)
    PROVE  /\ call' = [call EXCEPT ![t] = call'[t]]
           /\ \/ call[t].op # "search" /\ call'[t] = Idle
              \/ /\ call[t].op = "search" /\ call'[t].op = "search"
                 /\ call'[t].obj = call[t].obj
                 /\ call'[t].pc \in {"acquirePair", "releaseGroup"}
                 /\ call'[t].pair[1] = call[t].pair[1]
<1>1. TypeInv /\ call[t] \in GoodCall
  BY DEF Inv, TypeInv
<1>2. /\ call' = [call EXCEPT ![t] = call'[t]]
      /\ \/ call[t].op # "search" /\ call'[t] = Idle
         \/ /\ call[t].op = "search"
            /\ call'[t] = [call[t] EXCEPT
                   !.pc = "acquirePair",
                   !.pair = <<call[t].pair[1], call[t].pair[2] + 1>>]
         \/ /\ call[t].op = "search"
            /\ call'[t] = [call[t] EXCEPT !.pc = "releaseGroup"]
  BY <1>1, AfterPairCall
<1>3. call[t] = [pc |-> call[t].pc, op |-> call[t].op, obj |-> call[t].obj,
                 code |-> call[t].code, pair |-> call[t].pair]
  BY <1>1 DEF GoodCall, Call
<1> DEFINE next == <<call[t].pair[1], call[t].pair[2] + 1>>
<1>4. next[1] = call[t].pair[1]
  OBVIOUS
<1> HIDE DEF next
<1>5. ASSUME call'[t] = [call[t] EXCEPT !.pc = "acquirePair", !.pair = next]
      PROVE  /\ call'[t].pc = "acquirePair" /\ call'[t].op = call[t].op
             /\ call'[t].obj = call[t].obj /\ call'[t].pair = next
  BY <1>3, <1>5
<1>6. ASSUME call'[t] = [call[t] EXCEPT !.pc = "releaseGroup"]
      PROVE  /\ call'[t].pc = "releaseGroup" /\ call'[t].op = call[t].op
             /\ call'[t].obj = call[t].obj /\ call'[t].pair = call[t].pair
  BY <1>3, <1>6
<1>7. CASE call[t].op # "search" /\ call'[t] = Idle
  BY <1>2, <1>7
<1>8. CASE /\ call[t].op = "search"
           /\ call'[t] = [call[t] EXCEPT
                   !.pc = "acquirePair",
                   !.pair = <<call[t].pair[1], call[t].pair[2] + 1>>]
  <2>1. call'[t] = [call[t] EXCEPT !.pc = "acquirePair", !.pair = next]
    BY <1>8 DEF next
  <2>2. /\ call'[t].pc = "acquirePair" /\ call'[t].op = call[t].op
        /\ call'[t].obj = call[t].obj
        /\ call'[t].pair[1] = call[t].pair[1]
    BY <1>4, <1>5, <2>1
  <2> QED
    BY <1>2, <1>8, <2>2
<1>9. CASE /\ call[t].op = "search"
           /\ call'[t] = [call[t] EXCEPT !.pc = "releaseGroup"]
  BY <1>2, <1>6, <1>9
<1> QED
  BY <1>2, <1>7, <1>8, <1>9

LEMMA InvReleasePair ==
    ASSUME Inv, TypeInv', NEW t \in Tasks, ReleasePair(t)
    PROVE  ObjectsOwned' /\ RefCounts'
<1>0. PICK q, g : q = call[t].pair /\ g = GroupOf(t)
  OBVIOUS
<1>1. /\ call[t] \in GoodCall /\ call[t].pc = "releasePair"
      /\ q \in Pairs /\ g \in Groups /\ q[1] = g
      /\ t \in PairTasks(q)
  BY <1>0, PairFacts
  DEF ReleasePair, Inv, TypeInv, At, GoodCall, GroupOf, PairTasks, HoldsPair
<1>2. /\ pairRef' = [pairRef EXCEPT ![q] = pairRef[q] - 1]
      /\ groupRef' = groupRef /\ groupUp' = groupUp /\ chan' = chan
  BY <1>0 DEF ReleasePair, groupVars
<1>3. \A r \in Pairs : /\ pairRef[r] \in Int
                        /\ pairRef'[r] = pairRef[r] - Bit(r = q)
  BY <1>1, <1>2 DEF Bit, Inv, TypeInv, TypeOK
<1>4. pairUp[q] /\ pairRef[q] > 0
  BY <1>1, PairReferred DEF Inv, RefCounts
<1>5. /\ call' = [call EXCEPT ![t] = call'[t]]
      /\ \/ /\ pairRef[q] = 1
            /\ pairUp' = [pairUp EXCEPT ![q] = FALSE]
            /\ call'[t].pc = "releasePairsGroup"
            /\ call'[t].op = call[t].op /\ call'[t].obj = call[t].obj
            /\ call'[t].pair = q
         \/ /\ pairRef[q] # 1
            /\ pairUp' = pairUp
            /\ call[t].op # "search"
            /\ call'[t] = Idle
         \/ /\ pairRef[q] # 1
            /\ pairUp' = pairUp
            /\ call[t].op = "search" /\ call'[t].op = "search"
            /\ call'[t].obj = call[t].obj
            /\ call'[t].pc \in {"acquirePair", "releaseGroup"}
            /\ call'[t].pair[1] = g
  <2>1. CASE pairRef[q] = 1
    BY <1>0, <1>1, <2>1 DEF ReleasePair, Goto, Inv, TypeInv, GoodCall, Call
  <2>2. CASE pairRef[q] # 1
    <3>1. AfterPair(t) /\ pairUp' = pairUp
      BY <1>0, <2>2 DEF ReleasePair
    <3> QED
      BY <1>0, <1>1, <2>2, <3>1, AfterPairFields DEF GroupOf
  <2> QED
    BY <2>1, <2>2
<1>6. ObjectsOwned'
  BY <1>1, <1>2, <1>5, OwnKept DEF Inv, GoodCall
<1>7. PairCounts'
  <2>1. \A r \in Pairs :
           /\ r # q => pairUp'[r] = pairUp[r]
           /\ r = q => (pairUp'[r] <=> pairRef[q] # 1)
    BY <1>1, <1>4, <1>5 DEF Inv, TypeInv, TypeOK
  <2>2. \A r \in Pairs :
           /\ pairRef'[r] = pairRef[r]
                 + Bit(t \in PairTasks(r)') - Bit(t \in PairTasks(r))
                 + Bit(None \in PairChannels(r)')
                 - Bit(None \in PairChannels(r))
           /\ pairUp'[r] <=> pairRef'[r] > 0
    <3> SUFFICES ASSUME NEW r \in Pairs
                 PROVE  /\ pairRef'[r] = pairRef[r]
                              + Bit(t \in PairTasks(r)')
                              - Bit(t \in PairTasks(r))
                              + Bit(None \in PairChannels(r)')
                              - Bit(None \in PairChannels(r))
                        /\ pairUp'[r] <=> pairRef'[r] > 0
      OBVIOUS
    <3>1. pairRef'[r] = pairRef[r] - Bit(r = q) /\ pairRef[r] \in Int
      BY <1>3
    <3>2. pairUp[r] <=> pairRef[r] > 0
      BY DEF Inv, RefCounts, PairCounts
    <3>3. /\ Bit(t \in PairTasks(r)') = 0
          /\ Bit(t \in PairTasks(r)) = Bit(r = q)
          /\ Bit(None \in PairChannels(r)') = 0
          /\ Bit(None \in PairChannels(r)) = 0
          /\ Bit(r = q) \in {0, 1}
      <4>1. /\ t \in PairTasks(r) <=> r = q
            /\ t \notin PairTasks(r)'
            /\ None \notin PairChannels(r)
            /\ None \notin PairChannels(r)'
        BY <1>0, <1>1, <1>5, GdmaAssumption
        DEF PairTasks, HoldsPair, PairChannels, Idle
      <4>2. CASE r = q
        BY <4>1, <4>2 DEF Bit
      <4>3. CASE r # q
        BY <4>1, <4>3 DEF Bit
      <4> QED
        BY <4>2, <4>3
    <3>4. pairUp'[r] <=> pairRef'[r] > 0
      <4>1. CASE r = q
        <5>1. pairRef'[r] = pairRef[q] - 1
          BY <3>1, <4>1 DEF Bit
        <5>2. pairRef[q] \in Int
          BY <3>1, <4>1
        <5>3. pairUp'[r] <=> pairRef[q] # 1
          BY <2>1, <4>1
        <5> QED
          BY <1>4, <5>1, <5>2, <5>3
      <4>2. CASE r # q
        BY <2>1, <3>1, <3>2, <4>2 DEF Bit
      <4> QED
        BY <4>1, <4>2
    <3> QED
      BY <3>1, <3>3, <3>4
  <2> QED
    BY <1>2, <1>5, <2>2, PairCountsStep DEF Inv, RefCounts
<1>8. GroupCounts'
  <2>1. \A h : GroupPairs(h)' \ {q} = GroupPairs(h) \ {q}
    <3>1. \A r \in Pairs : r # q => pairUp'[r] = pairUp[r]
      <4>1. pairUp' \in {pairUp, [pairUp EXCEPT ![q] = FALSE]}
        BY <1>5
      <4> QED
        BY <4>1 DEF Inv, TypeInv, TypeOK
    <3>2. call[t].pc # "refGroup" /\ call'[t].pc # "refGroup"
      BY <1>1, <1>5 DEF Idle
    <3> QED
      BY <1>5, <3>1, <3>2, PairFrame DEF Inv
  <2>2. \A h : h # g => q \notin GroupPairs(h) /\ q \notin GroupPairs(h)'
    BY <1>1 DEF GroupPairs
  <2>3. CASE pairRef[q] = 1
    <3>1. q \in GroupPairs(g)
      BY <1>1, <2>3, LastOfPair
    <3>2. q \notin GroupPairs(g)'
      BY <1>1, <1>5, <2>3 DEF GroupPairs, Inv, TypeInv, TypeOK
    <3>3. \A h : /\ t \in Searchers(h)' <=> t \in Searchers(h)
                 /\ t \notin PairFreers(h)
                 /\ t \in PairFreers(h)' <=> h = g
      BY <1>0, <1>1, <1>5, <2>3
      DEF Searchers, PairFreers, Searches, At, GroupOf
    <3>4. \A h \in Groups :
           /\ GroupPairs(h)' \ {q} = GroupPairs(h) \ {q}
           /\ groupRef'[h] >= groupRef[h]
                 + Bit(t \in Searchers(h)') - Bit(t \in Searchers(h))
                 + Bit(t \in PairFreers(h)') - Bit(t \in PairFreers(h))
                 + Bit(q \in GroupPairs(h)') - Bit(q \in GroupPairs(h))
           /\ groupUp'[h] <=> groupRef'[h] > 0
      <4>1. \A h \in Groups : groupRef[h] \in Int
        BY DEF Inv, TypeInv, TypeOK
      <4> QED
        BY <1>2, <2>1, <2>2, <3>1, <3>2, <3>3, <4>1
        DEF Bit, Inv, RefCounts, GroupCounts
    <3> QED
      BY <1>1, <1>5, <3>4, GroupCountsStep DEF Inv, RefCounts
  <2>4. CASE pairRef[q] # 1
    <3>1. \A h : GroupPairs(h)' = GroupPairs(h)
      <4>1. call[t].pc # "refGroup" /\ call'[t].pc # "refGroup"
        BY <1>1, <1>5 DEF Idle
      <4>2. pairUp' = pairUp
        BY <1>5, <2>4
      <4> QED
        BY <1>5, <4>1, <4>2, PairsKept DEF Inv
    <3>2. \A h : /\ t \in Searchers(h)' <=> t \in Searchers(h)
                 /\ t \notin PairFreers(h)
                 /\ t \notin PairFreers(h)'
      BY <1>0, <1>1, <1>5, <2>4
      DEF Searchers, PairFreers, Searches, At, GroupOf, Idle
    <3>3. \A h \in Groups :
           /\ GroupPairs(h)' \ {q} = GroupPairs(h) \ {q}
           /\ groupRef'[h] >= groupRef[h]
                 + Bit(t \in Searchers(h)') - Bit(t \in Searchers(h))
                 + Bit(t \in PairFreers(h)') - Bit(t \in PairFreers(h))
                 + Bit(q \in GroupPairs(h)') - Bit(q \in GroupPairs(h))
           /\ groupUp'[h] <=> groupRef'[h] > 0
      <4>1. \A h \in Groups : groupRef[h] \in Int
        BY DEF Inv, TypeInv, TypeOK
      <4> QED
        BY <1>2, <3>1, <3>2, <4>1 DEF Bit, Inv, RefCounts, GroupCounts
    <3> QED
      BY <1>1, <1>5, <3>3, GroupCountsStep DEF Inv, RefCounts
  <2> QED
    BY <2>3, <2>4
<1> QED
  BY <1>6, <1>7, <1>8 DEF RefCounts

\* What the release of a group reference does to the counts of the groups, when
\* the reference is the one t has held as a searcher or as the freer of a pair.
LEMMA DropStep ==
    ASSUME Inv, TypeInv', NEW t \in Tasks, NEW g \in Groups, NEW q \in Pairs,
           DropGroupRef(g),
           call' = [call EXCEPT ![t] = call'[t]],
           pairUp' = pairUp, pairRef' = pairRef, chan' = chan,
           call[t].pc # "refGroup" /\ call'[t].pc # "refGroup",
           \A r : t \notin PairTasks(r) /\ t \notin PairTasks(r)',
           t \in Searchers(g) \/ t \in PairFreers(g),
           \A h : Bit(t \in Searchers(h)') + Bit(t \in PairFreers(h)')
                    = Bit(t \in Searchers(h)) + Bit(t \in PairFreers(h))
                      - Bit(h = g)
    PROVE  RefCounts'
<1>1. groupUp[g] /\ groupRef[g] > 0
  BY GroupReferred DEF Inv, RefCounts
<1>2. \A h \in Groups :
         /\ groupRef[h] \in Int
         /\ groupRef'[h] = groupRef[h] - Bit(h = g)
         /\ h # g => groupUp'[h] = groupUp[h]
         /\ h = g => (groupUp'[h] <=> groupRef[g] # 1)
  <2>1. groupRef \in [Groups -> Int] /\ groupUp \in [Groups -> BOOLEAN]
    BY DEF Inv, TypeInv, TypeOK
  <2>2. /\ groupRef' = [groupRef EXCEPT ![g] = groupRef[g] - 1]
        /\ groupUp' = [groupUp EXCEPT ![g] = groupUp[g] /\ groupRef[g] # 1]
    BY DEF DropGroupRef
  <2>3. \A h \in Groups :
           /\ groupRef[h] \in Int
           /\ groupRef'[h] = groupRef[h] - Bit(h = g)
    BY <2>1, <2>2 DEF Bit
  <2>4. \A h \in Groups : h # g => groupUp'[h] = groupUp[h]
    BY <2>1, <2>2
  <2>5. groupUp'[g] <=> groupRef[g] # 1
    BY <1>1, <2>1, <2>2
  <2> QED
    BY <2>3, <2>4, <2>5
<1>3. PairCounts'
  <2>1. \A r \in Pairs : /\ pairRef[r] \in Int
                          /\ None \notin PairChannels(r)
                          /\ None \notin PairChannels(r)'
    BY GdmaAssumption DEF PairChannels, Inv, TypeInv, TypeOK
  <2>2. \A r \in Pairs :
           /\ pairRef'[r] = pairRef[r]
                 + Bit(t \in PairTasks(r)') - Bit(t \in PairTasks(r))
                 + Bit(None \in PairChannels(r)')
                 - Bit(None \in PairChannels(r))
           /\ pairUp'[r] <=> pairRef'[r] > 0
    BY <2>1 DEF Bit, Inv, RefCounts, PairCounts
  <2> QED
    BY <2>2, PairCountsStep DEF Inv, RefCounts
<1>4. GroupCounts'
  <2>1. \A h : GroupPairs(h)' = GroupPairs(h)
    BY PairsKept DEF Inv
  <2>2. \A h \in Groups :
           /\ GroupPairs(h)' \ {q} = GroupPairs(h) \ {q}
           /\ groupRef'[h] >= groupRef[h]
                 + Bit(t \in Searchers(h)') - Bit(t \in Searchers(h))
                 + Bit(t \in PairFreers(h)') - Bit(t \in PairFreers(h))
                 + Bit(q \in GroupPairs(h)') - Bit(q \in GroupPairs(h))
           /\ groupUp'[h] <=> groupRef'[h] > 0
    <3> SUFFICES ASSUME NEW h \in Groups
                 PROVE  /\ groupRef'[h] >= groupRef[h]
                              + Bit(t \in Searchers(h)')
                              - Bit(t \in Searchers(h))
                              + Bit(t \in PairFreers(h)')
                              - Bit(t \in PairFreers(h))
                        /\ groupUp'[h] <=> groupRef'[h] > 0
      BY <2>1, <1>2 DEF Bit
    <3>1. Bit(t \in Searchers(h)') + Bit(t \in PairFreers(h)')
             = Bit(t \in Searchers(h)) + Bit(t \in PairFreers(h)) - Bit(h = g)
      OBVIOUS
    <3>2. groupUp[h] <=> groupRef[h] > 0
      BY DEF Inv, RefCounts, GroupCounts
    <3> QED
      BY <1>1, <1>2, <3>1, <3>2 DEF Bit
  <2> QED
    BY <2>2, GroupCountsStep DEF Inv, RefCounts
<1> QED
  BY <1>3, <1>4 DEF RefCounts

LEMMA InvReleasePairsGroup ==
    ASSUME Inv, TypeInv', NEW t \in Tasks, ReleasePairsGroup(t)
    PROVE  ObjectsOwned' /\ RefCounts'
<1>0. PICK q, g : q = call[t].pair /\ g = GroupOf(t)
  OBVIOUS
<1>1. /\ call[t] \in GoodCall /\ call[t].pc = "releasePairsGroup"
      /\ q \in Pairs /\ g \in Groups /\ q[1] = g
  BY <1>0, PairFacts
  DEF ReleasePairsGroup, Inv, TypeInv, At, GoodCall, GroupOf
<1>2. /\ pairRef' = pairRef /\ pairUp' = pairUp /\ chan' = chan
      /\ DropGroupRef(g)
  BY <1>0 DEF ReleasePairsGroup, pairVars
<1>3. /\ call' = [call EXCEPT ![t] = call'[t]]
      /\ \/ call[t].op # "search" /\ call'[t] = Idle
         \/ /\ call[t].op = "search" /\ call'[t].op = "search"
            /\ call'[t].obj = call[t].obj
            /\ call'[t].pc \in {"acquirePair", "releaseGroup"}
            /\ call'[t].pair[1] = g
  <2>1. AfterPair(t)
    BY DEF ReleasePairsGroup
  <2> QED
    BY <1>0, <1>1, <2>1, AfterPairFields DEF GroupOf
<1>4. ObjectsOwned'
  BY <1>1, <1>2, <1>3, OwnKept DEF Inv
<1>5. \A h : /\ t \in Searchers(h)' <=> t \in Searchers(h)
             /\ t \in PairFreers(h) <=> h = g
             /\ t \notin PairFreers(h)'
  BY <1>0, <1>1, <1>3 DEF Searchers, PairFreers, Searches, At, GroupOf, Idle
<1>6. \A r : t \notin PairTasks(r) /\ t \notin PairTasks(r)'
  BY <1>1, <1>3 DEF PairTasks, HoldsPair, Idle
<1>7. /\ call[t].pc # "refGroup" /\ call'[t].pc # "refGroup"
      /\ t \in Searchers(g) \/ t \in PairFreers(g)
      /\ \A h : Bit(t \in Searchers(h)') + Bit(t \in PairFreers(h)')
                   = Bit(t \in Searchers(h)) + Bit(t \in PairFreers(h))
                     - Bit(h = g)
  BY <1>1, <1>3, <1>5 DEF Bit, Idle
<1>8. RefCounts'
  BY <1>1, <1>2, <1>3, <1>6, <1>7, DropStep
<1> QED
  BY <1>4, <1>8

LEMMA InvReleaseGroup ==
    ASSUME Inv, TypeInv', NEW t \in Tasks, ReleaseGroup(t)
    PROVE  ObjectsOwned' /\ RefCounts'
<1>0. PICK q, g : q = call[t].pair /\ g = GroupOf(t)
  OBVIOUS
<1>1. /\ call[t] \in GoodCall /\ call[t].pc = "releaseGroup"
      /\ q \in Pairs /\ g \in Groups /\ q[1] = g
  BY <1>0, PairFacts
  DEF ReleaseGroup, Inv, TypeInv, At, GoodCall, GroupOf
<1>2. /\ pairRef' = pairRef /\ pairUp' = pairUp /\ chan' = chan
      /\ DropGroupRef(g)
  BY <1>0 DEF ReleaseGroup, pairVars
<1>3. /\ call' = [call EXCEPT ![t] = call'[t]]
      /\ \/ call'[t] = Idle
         \/ /\ call[t].op = "search" /\ call'[t].op = "search"
            /\ call'[t].obj = call[t].obj
            /\ call'[t].pc = "acquireGroup"
  BY <1>1 DEF ReleaseGroup, Return, Inv, TypeInv, GoodCall, Call
<1>4. ObjectsOwned'
  BY <1>2, <1>3, OwnKept DEF Inv
<1>5. \A h : /\ t \notin Searchers(h)'
             /\ t \in Searchers(h) <=> h = g
             /\ t \notin PairFreers(h)
             /\ t \notin PairFreers(h)'
  BY <1>0, <1>1, <1>3 DEF Searchers, PairFreers, Searches, At, GroupOf, Idle
<1>6. \A r : t \notin PairTasks(r) /\ t \notin PairTasks(r)'
  BY <1>1, <1>3 DEF PairTasks, HoldsPair, Idle
<1>7. /\ call[t].pc # "refGroup" /\ call'[t].pc # "refGroup"
      /\ t \in Searchers(g) \/ t \in PairFreers(g)
      /\ \A h : Bit(t \in Searchers(h)') + Bit(t \in PairFreers(h)')
                   = Bit(t \in Searchers(h)) + Bit(t \in PairFreers(h))
                     - Bit(h = g)
  BY <1>1, <1>3, <1>5 DEF Bit, Idle
<1>8. RefCounts'
  BY <1>1, <1>2, <1>3, <1>6, <1>7, DropStep
<1> QED
  BY <1>4, <1>8

-----------------------------------------------------------------------------
LEMMA InvInit == Init => Inv
<1> SUFFICES ASSUME Init
             PROVE  Inv
  OBVIOUS
<1>1. TypeInv
  BY TypeInit
<1>2. ObjectsOwned
  BY DEF Init, ObjectsOwned, ObjectOk, Idle
<1>3. PairCounts
  <2>1. \A q \in Pairs : PairTasks(q) = {} /\ PairChannels(q) = {}
    BY DEF Init, PairTasks, HoldsPair, PairChannels, Idle, FreeChannel
  <2> QED
    <3>1. Cardinality({}) = 0
      BY FS_EmptySet
    <3> SUFFICES ASSUME NEW q \in Pairs
                 PROVE  /\ pairRef[q] = Cardinality(PairTasks(q))
                                         + Cardinality(PairChannels(q))
                        /\ pairUp[q] <=> pairRef[q] > 0
      BY DEF PairCounts
    <3>2. /\ Cardinality(PairTasks(q)) = 0
          /\ Cardinality(PairChannels(q)) = 0
      BY <2>1, <3>1, Zenon
    <3>3. pairRef[q] = 0 /\ pairUp[q] = FALSE
      BY DEF Init
    <3> QED
      BY <3>2, <3>3
<1>4. GroupCounts
  <2>1. \A g \in Groups : /\ Searchers(g) = {}
                           /\ PairFreers(g) = {}
                           /\ GroupPairs(g) = {}
    BY DEF Init, Searchers, PairFreers, GroupPairs, Searches, At, Idle
  <2> QED
    <3>1. Cardinality({}) = 0
      BY FS_EmptySet
    <3> SUFFICES ASSUME NEW g \in Groups
                 PROVE  /\ groupRef[g] >= Cardinality(Searchers(g))
                                          + Cardinality(PairFreers(g))
                                          + Cardinality(GroupPairs(g))
                        /\ groupUp[g] <=> groupRef[g] > 0
      BY DEF GroupCounts
    <3>2. /\ Cardinality(Searchers(g)) = 0
          /\ Cardinality(PairFreers(g)) = 0
          /\ Cardinality(GroupPairs(g)) = 0
      BY <2>1, <3>1, Zenon
    <3>3. groupRef[g] = 0 /\ groupUp[g] = FALSE
      BY DEF Init
    <3> QED
      BY <3>2, <3>3
<1> QED
  BY <1>1, <1>2, <1>3, <1>4 DEF Inv, RefCounts

LEMMA InvNext ==
    ASSUME "sameDirection" \notin CallerLiberties, Inv, [Next]_vars
    PROVE  Inv'
<1>1. TypeInv'
  BY TypeNext DEF Inv
<1>2. CASE UNCHANGED vars
  <2>1. ObjectsOwned'
    BY <1>2 DEF vars, Inv, ObjectsOwned, ObjectOk
  <2>2. /\ \A q : PairTasks(q)' = PairTasks(q)
        /\ \A q : PairChannels(q)' = PairChannels(q)
        /\ \A g : Searchers(g)' = Searchers(g)
        /\ \A g : PairFreers(g)' = PairFreers(g)
        /\ \A g : GroupPairs(g)' = GroupPairs(g)
    BY <1>2 DEF vars, PairTasks, HoldsPair, PairChannels, Searchers, Searches,
                PairFreers, GroupPairs, At, GroupOf
  <2>3. PairCounts'
    BY <1>2, <2>2 DEF vars, Inv, RefCounts, PairCounts
  <2>4. GroupCounts'
    BY <1>2, <2>2 DEF vars, Inv, RefCounts, GroupCounts
  <2> QED
    BY <1>1, <2>1, <2>3, <2>4 DEF Inv, RefCounts
<1>3. ASSUME NEW t \in Tasks, Invoke(t)
      PROVE  ObjectsOwned' /\ RefCounts'
  <2>1. PICK c \in Channels :
        \/ \E d \in Dirs, reserve \in BOOLEAN : NewChannel(t, c, d, reserve)
        \/ \E s \in Channels : NewSibling(t, c, s)
        \/ DelChannel(t, c)
        \/ InstallIntr(t, c)
        \/ \E id \in PeriphIds \cup {Unbound} : Connect(t, c, id)
        \/ Disconnect(t, c)
    BY <1>3 DEF Invoke, NewSiblingRejected
  <2> QED
    BY <1>1, <2>1, InvNewChannel, InvNewSibling, InvDelChannel,
       InvInstallIntr, InvConnect, InvDisconnect
<1>4. ASSUME NEW t \in Tasks, Search(t)
      PROVE  ObjectsOwned' /\ RefCounts'
  BY <1>1, <1>4, InvAcquireGroup, InvGiveUpSearch, InvAcquirePair,
     InvAcquirePairNoMem, InvRefGroup, InvOccupy, InvRegister
  DEF Search
<1>5. ASSUME NEW t \in Tasks, Release(t)
      PROVE  ObjectsOwned' /\ RefCounts'
  BY <1>1, <1>5, InvReleasePair, InvReleasePairsGroup, InvReleaseGroup
  DEF Release
<1>6. ASSUME NEW t \in Tasks, Interrupt(t)
      PROVE  ObjectsOwned' /\ RefCounts'
  BY <1>1, <1>6, InvUninstallIntr, InvDisableEvents, InvEnableEvents
  DEF Interrupt
<1> QED
  BY <1>1, <1>2, <1>3, <1>4, <1>5, <1>6 DEF Next, Step, Inv

\* What is referred to is installed: from the counts alone.
LEMMA NothingDangles == Inv => NoDanglingHandle
<1> SUFFICES ASSUME Inv
             PROVE  NoDanglingHandle
  OBVIOUS
<1>1. ASSUME NEW q \in Pairs, PairTasks(q) # {} \/ PairChannels(q) # {}
      PROVE  pairUp[q] /\ groupUp[q[1]]
  <2>1. pairUp[q] /\ q[1] \in Groups
    BY <1>1, PairReferred, PairFacts DEF Inv, RefCounts
  <2>2. \/ GroupPairs(q[1]) # {}
        \/ \E t \in Tasks : call[t].pc = "refGroup" /\ call[t].pair = q
    BY <2>1 DEF GroupPairs, At
  <2>3. ASSUME NEW t \in Tasks, call[t].pc = "refGroup", call[t].pair = q
        PROVE  Searchers(q[1]) # {}
    <3>1. call[t].op = "search"
      BY <2>3 DEF Inv, TypeInv, GoodCall
    <3> QED
      BY <2>3, <3>1 DEF Searchers, Searches, GroupOf
  <2>4. GroupPairs(q[1]) # {} \/ Searchers(q[1]) # {}
    BY <2>2, <2>3
  <2>5. groupUp[q[1]]
    BY <2>1, <2>4, GroupReferred DEF Inv, RefCounts
  <2> QED
    BY <2>1, <2>5
<1>2. ASSUME NEW c \in Channels, chan[c].st = "live"
      PROVE  pairUp[chan[c].pair] /\ groupUp[chan[c].pair[1]]
  <2>1. chan[c].pair \in Pairs
    BY DEF Inv, TypeInv, TypeOK, Channel
  <2>2. PairChannels(chan[c].pair) # {}
    BY <1>2 DEF PairChannels
  <2> QED
    BY <1>1, <2>1, <2>2
<1>3. ASSUME NEW t \in Tasks, NEW q \in Pairs, t \in PairTasks(q)
      PROVE  pairUp[q] /\ groupUp[q[1]]
  BY <1>1, <1>3
<1>4. ASSUME NEW t \in Tasks, NEW g \in Groups,
             t \in Searchers(g) \cup PairFreers(g)
      PROVE  groupUp[g]
  BY <1>4, GroupReferred DEF Inv, RefCounts
<1> QED
  BY <1>2, <1>3, <1>4 DEF NoDanglingHandle

\* The reference counts of gdma.c are right in every reachable state: a pair is
\* counted once per call and channel that uses it, a group at least once per
\* search, per call that has just freed one of its pairs and per installed pair,
\* and both are installed exactly while they are counted; provided no caller
\* passes a sibling of the wrong direction (MCGdma_rejected shows what then
\* happens).
THEOREM RefCountsCorrect ==
    ASSUME "sameDirection" \notin CallerLiberties
    PROVE  Spec => []RefCounts
<1>1. Init => Inv
  BY InvInit
<1>2. Inv /\ [Next]_vars => Inv'
  BY InvNext
<1>3. Inv => RefCounts
  BY DEF Inv
<1> QED
  BY <1>1, <1>2, <1>3, PTL DEF Spec

\* No live channel and no call in progress ever refers to a pair or a group that
\* was freed, under the same proviso.
THEOREM NoDanglingCorrect ==
    ASSUME "sameDirection" \notin CallerLiberties
    PROVE  Spec => []NoDanglingHandle
<1>1. Init => Inv
  BY InvInit
<1>2. Inv /\ [Next]_vars => Inv'
  BY InvNext
<1>3. Inv => NoDanglingHandle
  BY NothingDangles
<1> QED
  BY <1>1, <1>2, <1>3, PTL DEF Spec
-----------------------------------------------------------------------------
\* The positions a channel is entitled to, and whether it stands in a pair: as a
\* live channel, or as the object of a call that is about to register it.
Wants(c) == IF chan[c].reserves THEN Dirs ELSE {chan[c].dir}

StandsAt(c, q) ==
    \/ chan[c].st = "live" /\ chan[c].pair = q
    \/ \E t \in Tasks : /\ call[t].pc = "register"
                        /\ call[t].obj = c
                        /\ call[t].pair = q

\* What a channel that stands in a pair wants is marked there, and wanted by no
\* other; a live channel is entered in its pair; a search looks for what its
\* channel wants.
Marked ==
    \A c \in Channels, q \in Pairs :
        StandsAt(c, q) => Wants(c) \subseteq occupy[q]
Apart ==
    \A c, e \in Channels, q \in Pairs :
        c # e /\ StandsAt(c, q) /\ StandsAt(e, q)
            => Wants(c) \cap Wants(e) = {}
Entered ==
    \A c \in Channels :
        chan[c].st = "live" => slot[chan[c].pair][chan[c].dir] = c
Searching(t) == call[t].op = "search" /\ call[t].pc # "register"
CodesRight ==
    \A t \in Tasks : Searching(t) => call[t].code = Wants(call[t].obj)

Positions == Marked /\ Apart /\ Entered /\ CodesRight

\* A channel that a step leaves where it is.
Stays(c) == /\ chan'[c].st = "live" <=> chan[c].st = "live"
            /\ chan'[c].pair = chan[c].pair
            /\ chan'[c].dir = chan[c].dir
            /\ chan'[c].reserves = chan[c].reserves

\* Whoever stands in a pair refers to it, so the pair is installed.
LEMMA StandsInstalled ==
    ASSUME Inv, NEW c \in Channels, NEW q \in Pairs, StandsAt(c, q)
    PROVE  pairUp[q] /\ pairRef[q] > 0
<1>1. PairTasks(q) # {} \/ PairChannels(q) # {}
  BY DEF StandsAt, PairTasks, PairChannels, HoldsPair
<1> QED
  BY <1>1, PairReferred DEF Inv, RefCounts

\* A channel goes on standing where it stood, unless the step is about it.
LEMMA StandFrame ==
    ASSUME TypeInv, NEW t \in Tasks, NEW e,
           call' = [call EXCEPT ![t] = call'[t]],
           chan'[e].st = "live" <=> chan[e].st = "live",
           chan[e].st = "live" => chan'[e].pair = chan[e].pair,
           call[t].pc = "register" => call[t].obj # e,
           call'[t].pc = "register" => call'[t].obj # e
    PROVE  \A q : StandsAt(e, q)' <=> StandsAt(e, q)
<1>1. \A u \in Tasks : u # t => call'[u] = call[u]
  BY DEF TypeInv
<1> QED
  BY <1>1 DEF StandsAt

\* A step that marks nothing, enters nothing, and changes at most objects that
\* stand nowhere.
LEMMA QuietPositions ==
    ASSUME TypeInv, Positions, NEW t \in Tasks,
           call' = [call EXCEPT ![t] = call'[t]],
           call[t].pc # "register" /\ call'[t].pc # "register",
           occupy' = occupy /\ slot' = slot,
           \A e \in Channels :
              \/ Stays(e)
              \/ /\ chan[e].st # "live" /\ chan'[e].st # "live"
                 /\ \A u \in Tasks : u # t => call[u].obj # e,
           (Searching(t) => call[t].code = Wants(call[t].obj))',
           \A u \in Tasks : Searching(u) => call[u].obj \in Channels
    PROVE  Positions'
<1>1. \A u \in Tasks : u # t => call'[u] = call[u]
  BY DEF TypeInv
<1>2. \A e \in Channels : \A q : StandsAt(e, q)' <=> StandsAt(e, q)
  <2> SUFFICES ASSUME NEW e \in Channels
               PROVE  \A q : StandsAt(e, q)' <=> StandsAt(e, q)
    OBVIOUS
  <2>1. /\ chan'[e].st = "live" <=> chan[e].st = "live"
        /\ chan[e].st = "live" => chan'[e].pair = chan[e].pair
    BY DEF Stays
  <2> QED
    BY <2>1, StandFrame
<1>3. \A e \in Channels : \A q : StandsAt(e, q) => Wants(e)' = Wants(e)
  <2> SUFFICES ASSUME NEW e \in Channels, NEW q, StandsAt(e, q)
               PROVE  Wants(e)' = Wants(e)
    OBVIOUS
  <2>1. Stays(e)
    BY DEF StandsAt
  <2> QED
    BY <2>1 DEF Stays, Wants
<1>4. Marked'
  BY <1>2, <1>3 DEF Positions, Marked
<1>5. Apart'
  BY <1>2, <1>3 DEF Positions, Apart
<1>6. Entered'
  BY DEF Positions, Entered, Stays
<1>7. CodesRight'
  <2> SUFFICES ASSUME NEW u \in Tasks, u # t
               PROVE  (Searching(u) => call[u].code = Wants(call[u].obj))'
    BY DEF CodesRight
  <2>1. call'[u] = call[u] /\ (Searching(u)' <=> Searching(u))
    BY <1>1 DEF Searching
  <2> SUFFICES ASSUME Searching(u)
               PROVE  (call[u].code = Wants(call[u].obj))'
    BY <2>1
  <2>2. call[u].obj \in Channels /\ Stays(call[u].obj)
    BY DEF Searching
  <2>3. call[u].code = Wants(call[u].obj)
    BY DEF Positions, CodesRight
  <2> QED
    BY <2>1, <2>2, <2>3 DEF Stays, Wants
<1> QED
  BY <1>4, <1>5, <1>6, <1>7 DEF Positions


\* The object of a search is a channel.
LEMMA SearchObject ==
    ASSUME TypeInv
    PROVE  \A u \in Tasks : Searching(u) => call[u].obj \in Channels
  BY DEF TypeInv, GoodCall, Searching

\* The calls that leave every channel where it is.
LEMMA PositionsKept ==
    ASSUME Inv, Positions, NEW t \in Tasks,
           \/ UninstallIntr(t)
           \/ \E on \in BOOLEAN : EnableEvents(t, on)
           \/ \E c \in Channels : \/ InstallIntr(t, c)
                                  \/ Disconnect(t, c)
                                  \/ \E id \in PeriphIds \cup {Unbound} :
                                        Connect(t, c, id)
    PROVE  Positions'
<1>1. /\ call[t] \in GoodCall /\ call \in [Tasks -> GoodCall]
      /\ chan \in [Channels -> Channel]
  BY DEF Inv, TypeInv, TypeOK
<1>2. call[t].pc \in {"idle", "uninstall", "enableEvents"}
  BY DEF UninstallIntr, EnableEvents, InstallIntr, Disconnect, Connect, At
<1>3. occupy' = occupy /\ slot' = slot
  BY DEF UninstallIntr, EnableEvents, InstallIntr, Disconnect, Connect, pairVars
<1>4. /\ call' = [call EXCEPT ![t] = call'[t]]
      /\ call'[t].pc # "register" /\ call'[t].op # "search"
  <2>1. call[t].op \in {"none", "delete"}
    BY <1>1, <1>2 DEF GoodCall
  <2>2. CASE UninstallIntr(t)
    BY <1>1, <2>1, <2>2 DEF UninstallIntr, Goto, GoodCall, Call
  <2>3. CASE \E on \in BOOLEAN : EnableEvents(t, on)
    <3>1. call' = [call EXCEPT ![t] = Idle]
      BY <2>3 DEF EnableEvents, Return
    <3> QED
      BY <1>1, <3>1 DEF Idle
  <2>4. CASE \E c \in Channels : InstallIntr(t, c)
    BY <1>1, <2>4 DEF InstallIntr
  <2>5. CASE call' = call
    BY <1>1, <1>2, <2>1, <2>5
  <2> QED
    BY <2>2, <2>3, <2>4, <2>5 DEF Disconnect, Connect
<1>5. \A e \in Channels : Stays(e)
  <2> SUFFICES ASSUME NEW e \in Channels
               PROVE  Stays(e)
    OBVIOUS
  <2>1. CASE chan' = chan
    BY <2>1 DEF Stays
  <2>2. CASE \E o, on : chan' = [chan EXCEPT ![o].cb = on]
    BY <1>1, <2>2 DEF Stays, Channel
  <2>3. CASE \E o : chan' = [chan EXCEPT ![o].intr = TRUE]
    BY <1>1, <2>3 DEF Stays, Channel
  <2>4. CASE \E o, id : chan' = [chan EXCEPT ![o].periph = id]
    BY <1>1, <2>4 DEF Stays, Channel
  <2> QED
    BY <2>1, <2>2, <2>3, <2>4
    DEF UninstallIntr, EnableEvents, InstallIntr, Disconnect, Connect
<1>6. ~Searching(t)'
  BY <1>4 DEF Searching
<1> QED
  BY <1>2, <1>3, <1>4, <1>5, <1>6, SearchObject, QuietPositions DEF Inv

\* A search or release that goes on, with the objects as they are.
LEMMA PositionsSearching ==
    ASSUME Inv, Positions, NEW t \in Tasks,
           call' = [call EXCEPT ![t] = call'[t]],
           call[t].pc # "register" /\ call'[t].pc # "register",
           \/ call'[t].op # "search"
           \/ /\ call[t].op = "search"
              /\ call'[t].obj = call[t].obj
              /\ call'[t].code = call[t].code,
           occupy' = occupy, slot' = slot, chan' = chan
    PROVE  Positions'
<1>1. \A e \in Channels : Stays(e)
  BY DEF Stays
<1>2. (Searching(t) => call[t].code = Wants(call[t].obj))'
  BY DEF Searching, Wants, Positions, CodesRight
<1> QED
  BY <1>1, <1>2, SearchObject, QuietPositions DEF Inv

LEMMA PositionsSearch ==
    ASSUME Inv, Positions, NEW t \in Tasks,
           \/ AcquireGroup(t) \/ RefGroup(t) \/ ReleasePair(t)
           \/ ReleasePairsGroup(t) \/ ReleaseGroup(t)
    PROVE  Positions'
<1>1. /\ call[t] \in GoodCall /\ call \in [Tasks -> GoodCall]
      /\ call[t].pc # "register"
  BY DEF Inv, TypeInv, AcquireGroup, RefGroup, ReleasePair,
         ReleasePairsGroup, ReleaseGroup, At
<1>2. occupy' = occupy /\ slot' = slot /\ chan' = chan
  BY DEF AcquireGroup, RefGroup, ReleasePair, ReleasePairsGroup,
         ReleaseGroup, pairVars
<1>3. /\ call' = [call EXCEPT ![t] = call'[t]]
      /\ call'[t].pc # "register"
      /\ \/ call'[t].op # "search"
         \/ /\ call[t].op = "search"
            /\ call'[t].obj = call[t].obj
            /\ call'[t].code = call[t].code
  <2>1. CASE AcquireGroup(t) \/ RefGroup(t)
    BY <1>1, <2>1 DEF AcquireGroup, RefGroup, Goto, At, GoodCall, Call
  <2>2. CASE ReleaseGroup(t)
    BY <1>1, <2>2 DEF ReleaseGroup, Return, Idle, At, GoodCall, Call
  <2>3. CASE AfterPair(t)
    BY <1>1, <2>3 DEF AfterPair, Goto, Return, Idle, GoodCall, Call
  <2>4. CASE Goto(t, "releasePairsGroup")
    BY <1>1, <2>4 DEF Goto, GoodCall, Call
  <2> QED
    BY <2>1, <2>2, <2>3, <2>4 DEF ReleasePair, ReleasePairsGroup
<1> QED
  BY <1>1, <1>2, <1>3, PositionsSearching

\* The calls that begin or end the life of an object that stands nowhere.
LEMMA PositionsObjects ==
    ASSUME Inv, Positions, NEW t \in Tasks,
           \/ \E c \in Channels, d \in Dirs, reserve \in BOOLEAN :
                 NewChannel(t, c, d, reserve)
           \/ GiveUpSearch(t)
           \/ AcquirePairNoMem(t)
           \/ DisableEvents(t)
    PROVE  Positions'
<1>1. /\ call[t] \in GoodCall /\ call \in [Tasks -> GoodCall]
      /\ chan \in [Channels -> Channel]
      /\ call[t].pc # "register"
  BY DEF Inv, TypeInv, TypeOK, NewChannel, GiveUpSearch, AcquirePairNoMem,
         DisableEvents, At
<1>2. occupy' = occupy /\ slot' = slot
  BY DEF NewChannel, GiveUpSearch, AcquirePairNoMem, DisableEvents, pairVars
<1>3. CASE \E c \in Channels, d \in Dirs, reserve \in BOOLEAN :
              NewChannel(t, c, d, reserve)
  <2>1. PICK c \in Channels, d \in Dirs, reserve \in BOOLEAN :
             NewChannel(t, c, d, reserve)
    BY <1>3
  <2>2. /\ chan[c].st = "free"
        /\ chan'[c] = [FreeChannel EXCEPT !.st = "new", !.dir = d,
                                          !.reserves = reserve]
        /\ \A e \in Channels : e # c => chan'[e] = chan[e]
    BY <1>1, <2>1 DEF NewChannel
  <2>3. /\ chan'[c].st = "new" /\ chan'[c].dir = d
        /\ chan'[c].reserves = reserve
    BY <2>2 DEF FreeChannel
  <2>4. /\ call' = [call EXCEPT ![t] = call'[t]]
        /\ call'[t].pc = "acquireGroup"
        /\ call'[t].obj = c
        /\ call'[t].code = SearchCode(d, reserve)
    BY <1>1, <2>1 DEF NewChannel
  <2>5. \A u \in Tasks : call[u].obj # c
    BY <2>2, OwnedObject, GdmaAssumption DEF Inv
  <2>6. \A e \in Channels :
           \/ Stays(e)
           \/ /\ chan[e].st # "live" /\ chan'[e].st # "live"
              /\ \A u \in Tasks : u # t => call[u].obj # e
    BY <2>2, <2>3, <2>5 DEF Stays
  <2>7. (Searching(t) => call[t].code = Wants(call[t].obj))'
    BY <2>3, <2>4 DEF Wants, SearchCode
  <2> QED
    BY <1>1, <1>2, <2>4, <2>6, <2>7, SearchObject, QuietPositions DEF Inv
<1>4. CASE GiveUpSearch(t) \/ AcquirePairNoMem(t) \/ DisableEvents(t)
  <2> DEFINE o == call[t].obj
  <2>1. /\ o \in Channels /\ chan[o].st \in {"new", "dying"}
        /\ chan' = [chan EXCEPT ![o] = FreeChannel]
    BY <1>1, <1>4
    DEF GiveUpSearch, AcquirePairNoMem, DisableEvents, At, GoodCall, Inv,
        ObjectsOwned, ObjectOk
  <2>2. \A u \in Tasks : u # t => call[u].obj # o
    BY <2>1, GdmaAssumption DEF Inv, ObjectsOwned
  <2>3. /\ call' = [call EXCEPT ![t] = call'[t]]
        /\ call'[t].pc # "register" /\ call'[t].op # "search"
    <3>1. CASE GiveUpSearch(t)
      BY <1>1, <3>1 DEF GiveUpSearch, Return, Idle
    <3>2. CASE AcquirePairNoMem(t)
      BY <1>1, <3>2 DEF AcquirePairNoMem, GoodCall, Call
    <3>3. CASE DisableEvents(t)
      BY <1>1, <3>3 DEF DisableEvents, At, GoodCall, Call
    <3> QED
      BY <1>4, <3>1, <3>2, <3>3
  <2>4. chan'[o].st = "free" /\ \A e \in Channels : e # o => chan'[e] = chan[e]
    BY <1>1, <2>1 DEF FreeChannel
  <2>5. \A e \in Channels :
           \/ Stays(e)
           \/ /\ chan[e].st # "live" /\ chan'[e].st # "live"
              /\ \A u \in Tasks : u # t => call[u].obj # e
    BY <2>1, <2>2, <2>4 DEF Stays
  <2>6. ~Searching(t)'
    BY <2>3 DEF Searching
  <2> QED
    BY <1>1, <1>2, <2>3, <2>5, <2>6, SearchObject, QuietPositions DEF Inv
<1> QED
  BY <1>3, <1>4


\* A pair that is filled anew is nobody's.
LEMMA PositionsAcquirePair ==
    ASSUME Inv, Positions, NEW t \in Tasks, AcquirePair(t)
    PROVE  Positions'
<1> DEFINE q == call[t].pair
<1>1. /\ call[t] \in GoodCall /\ call \in [Tasks -> GoodCall]
      /\ call[t].pc = "acquirePair" /\ call[t].op = "search"
      /\ q \in Pairs /\ call[t].obj \in Channels
  BY DEF Inv, TypeInv, AcquirePair, At, GoodCall
<1>2. /\ call' = [call EXCEPT ![t] = call'[t]]
      /\ call'[t].pc # "register" /\ call'[t].op = "search"
      /\ call'[t].obj = call[t].obj /\ call'[t].code = call[t].code
      /\ chan' = chan
  BY <1>1 DEF AcquirePair, Goto, GoodCall, Call
<1>3. CASE pairUp[q]
  BY <1>1, <1>2, <1>3, PositionsSearching DEF AcquirePair
<1>4. CASE ~pairUp[q]
  <2>1. \A e \in Channels : \A r : StandsAt(e, r)' <=> StandsAt(e, r)
    BY <1>1, <1>2, StandFrame DEF Inv
  <2>2. \A e \in Channels : ~StandsAt(e, q)
    BY <1>1, <1>4, StandsInstalled
  <2>3. /\ occupy' = [occupy EXCEPT ![q] = {}]
        /\ slot' = [slot EXCEPT ![q] = [d \in Dirs |-> None]]
        /\ occupy \in [Pairs -> SUBSET Dirs]
        /\ slot \in [Pairs -> [Dirs -> Channels \cup {None}]]
        /\ chan \in [Channels -> Channel]
    BY <1>4 DEF AcquirePair, Inv, TypeInv, TypeOK
  <2>4. \A e : Wants(e)' = Wants(e)
    BY <1>2 DEF Wants
  <2>5. Marked'
    BY <2>1, <2>2, <2>3, <2>4 DEF Positions, Marked
  <2>6. Apart'
    BY <2>1, <2>4 DEF Positions, Apart
  <2>7. Entered'
    <3> SUFFICES ASSUME NEW e \in Channels, chan[e].st = "live"
                 PROVE  slot'[chan[e].pair][chan[e].dir] = e
      BY <1>2 DEF Entered
    <3>1. chan[e].pair \in Pairs /\ chan[e].pair # q
      BY <2>2, <2>3 DEF StandsAt, Channel
    <3>2. slot'[chan[e].pair] = slot[chan[e].pair]
      BY <2>3, <3>1
    <3> QED
      BY <3>2 DEF Positions, Entered
  <2>8. CodesRight'
    <3>1. \A u \in Tasks : /\ Searching(u)' <=> Searching(u)
                           /\ call'[u].obj = call[u].obj
                           /\ call'[u].code = call[u].code
      BY <1>1, <1>2 DEF Searching
    <3>2. \A u \in Tasks : Searching(u) => call[u].code = Wants(call[u].obj)
      BY DEF Positions, CodesRight
    <3> QED
      BY <1>2, <3>1, <3>2 DEF CodesRight, Wants
  <2> QED
    BY <2>5, <2>6, <2>7, <2>8 DEF Positions
<1> QED
  BY <1>3, <1>4

\* A search takes what is not marked, which nobody in the pair wants.
LEMMA PositionsOccupy ==
    ASSUME Inv, Positions, NEW t \in Tasks, Occupy(t)
    PROVE  Positions'
<1>0. PICK o, q : o = call[t].obj /\ q = call[t].pair
  OBVIOUS
<1>1. /\ call[t] \in GoodCall /\ call \in [Tasks -> GoodCall]
      /\ call[t].pc = "occupy" /\ call[t].op = "search"
      /\ q \in Pairs /\ o \in Channels
      /\ call[t].code = Wants(o)
      /\ chan' = chan /\ slot' = slot
  BY <1>0 DEF Inv, TypeInv, Occupy, At, GoodCall, Positions, CodesRight, Searching
<1>2. CASE call[t].code \cap occupy[q] = {}
  <2>1. /\ occupy' = [occupy EXCEPT ![q] = @ \cup Wants(o)]
        /\ occupy \in [Pairs -> SUBSET Dirs]
        /\ call' = [call EXCEPT ![t].pc = "register"]
    BY <1>0, <1>1, <1>2 DEF Occupy, Goto, Inv, TypeInv, TypeOK
  <2>2. /\ call'[t].pc = "register" /\ call'[t].obj = o /\ call'[t].pair = q
        /\ call' = [call EXCEPT ![t] = call'[t]]
        /\ \A u \in Tasks : u # t => call'[u] = call[u]
    BY <1>0, <1>1, <2>1 DEF GoodCall, Call
  <2>3. \A e \in Channels : \A r : e # o => (StandsAt(e, r)' <=> StandsAt(e, r))
    BY <1>0, <1>1, <2>2, StandFrame DEF Inv
  <2>4. \A r : StandsAt(o, r)' => r = q
    <3>1. chan[o].st = "new"
      BY <1>0, <1>1 DEF Inv, ObjectsOwned, ObjectOk
    <3>2. \A u \in Tasks : u # t => call[u].obj # o
      BY <1>0, <1>1, GdmaAssumption DEF Inv, ObjectsOwned
    <3> QED
      BY <1>1, <2>2, <3>1, <3>2 DEF StandsAt
  <2>5. \A e : Wants(e)' = Wants(e)
    BY <1>1 DEF Wants
  <2>6. Marked'
    BY <1>1, <2>1, <2>3, <2>4, <2>5 DEF Positions, Marked
  <2>7. \A e \in Channels : StandsAt(e, q) => Wants(e) \cap Wants(o) = {}
    BY <1>1, <1>2 DEF Positions, Marked
  <2>8. Apart'
    BY <1>1, <2>3, <2>4, <2>5, <2>7 DEF Positions, Apart
  <2>9. Entered'
    BY <1>1 DEF Positions, Entered
  <2>10. CodesRight'
    <3>1. \A u \in Tasks : Searching(u)' => u # t /\ Searching(u)
      BY <2>2 DEF Searching
    <3> QED
      BY <1>1, <2>2, <3>1 DEF Positions, CodesRight, Wants
  <2> QED
    BY <2>6, <2>8, <2>9, <2>10 DEF Positions
<1>3. CASE call[t].code \cap occupy[q] # {}
  <2>1. /\ call' = [call EXCEPT ![t] = call'[t]]
        /\ call'[t].pc = "releasePair"
        /\ call'[t].obj = call[t].obj /\ call'[t].code = call[t].code
        /\ occupy' = occupy
    BY <1>0, <1>1, <1>3 DEF Occupy, Goto, GoodCall, Call
  <2> QED
    BY <1>1, <2>1, PositionsSearching
<1> QED
  BY <1>2, <1>3

\* The object of the call becomes a live channel where it stood already.
LEMMA PositionsRegister ==
    ASSUME Inv, Positions, NEW t \in Tasks, Register(t)
    PROVE  Positions'
<1>0. PICK o, q : o = call[t].obj /\ q = call[t].pair
  OBVIOUS
<1>1. /\ call[t] \in GoodCall /\ call \in [Tasks -> GoodCall]
      /\ call[t].pc = "register" /\ call[t].op = "search"
      /\ q \in Pairs /\ o \in Channels /\ chan[o].st = "new"
      /\ occupy' = occupy
  BY <1>0 DEF Inv, TypeInv, Register, At, GoodCall, ObjectsOwned, ObjectOk
<1>2. /\ chan \in [Channels -> Channel]
      /\ slot \in [Pairs -> [Dirs -> Channels \cup {None}]]
      /\ slot' = [slot EXCEPT ![q][chan[o].dir] = o]
      /\ call' = [call EXCEPT ![t] = Idle]
  BY <1>0 DEF Inv, TypeInv, TypeOK, Register, Return
<1>3. /\ chan'[o].st = "live" /\ chan'[o].pair = q
      /\ chan'[o].dir = chan[o].dir /\ chan'[o].reserves = chan[o].reserves
      /\ \A e \in Channels : e # o => chan'[e] = chan[e]
  BY <1>0, <1>1, <1>2 DEF Register, Channel
<1>4. /\ call' = [call EXCEPT ![t] = call'[t]]
      /\ call'[t] = Idle
      /\ \A u \in Tasks : u # t => call'[u] = call[u]
  BY <1>1, <1>2
<1>5. \A e \in Channels : \A r : e # o => (StandsAt(e, r)' <=> StandsAt(e, r))
  BY <1>0, <1>1, <1>3, <1>4, StandFrame DEF Inv, Idle
<1>6. StandsAt(o, q) /\ \A r : StandsAt(o, r)' => r = q
  <2>1. \A u \in Tasks : u # t => call[u].obj # o
    BY <1>0, <1>1, GdmaAssumption DEF Inv, ObjectsOwned
  <2> QED
    BY <1>0, <1>1, <1>3, <1>4, <2>1 DEF StandsAt, Idle
<1>7. \A e \in Channels : Wants(e)' = Wants(e)
  BY <1>3 DEF Wants
<1>8. Marked'
  BY <1>1, <1>5, <1>6, <1>7 DEF Positions, Marked
<1>9. Apart'
  BY <1>1, <1>5, <1>6, <1>7 DEF Positions, Apart
<1>10. Entered'
  <2> SUFFICES ASSUME NEW e \in Channels, chan'[e].st = "live"
               PROVE  slot'[chan'[e].pair][chan'[e].dir] = e
    BY DEF Entered
  <2>1. chan[o].dir \in Dirs /\ chan[o] \in Channel
    BY <1>1, <1>2 DEF Channel
  <2>2. CASE e = o
    BY <1>1, <1>2, <1>3, <2>1, <2>2
  <2>3. CASE e # o
    <3>1. /\ chan'[e] = chan[e] /\ StandsAt(e, chan[e].pair)
          /\ slot[chan[e].pair][chan[e].dir] = e
          /\ chan[e].pair \in Pairs /\ chan[e].dir \in Dirs
      BY <1>2, <1>3, <2>3 DEF StandsAt, Positions, Entered, Channel
    <3>2. chan[e].pair # q \/ chan[e].dir # chan[o].dir
      <4> SUFFICES ASSUME chan[e].pair = q, chan[e].dir = chan[o].dir
                   PROVE  FALSE
        OBVIOUS
      <4>1. Wants(e) \cap Wants(o) = {}
        BY <1>1, <1>6, <2>3, <3>1 DEF Positions, Apart
      <4>2. chan[o].dir \in Wants(e) \cap Wants(o)
        BY <2>1, <3>1 DEF Wants
      <4> QED
        BY <4>1, <4>2
    <3>3. slot'[chan[e].pair][chan[e].dir] = slot[chan[e].pair][chan[e].dir]
      BY <1>1, <1>2, <2>1, <3>1, <3>2
    <3> QED
      BY <3>1, <3>3
  <2> QED
    BY <2>2, <2>3
<1>11. CodesRight'
  <2>1. \A u \in Tasks : Searching(u)' => u # t /\ Searching(u)
    BY <1>4 DEF Searching, Idle
  <2>2. \A u \in Tasks : Searching(u) => call[u].code = Wants(call[u].obj)
                                         /\ call[u].obj \in Channels
    BY SearchObject DEF Positions, CodesRight, Inv
  <2> SUFFICES ASSUME NEW u \in Tasks, Searching(u)'
               PROVE  (call[u].code = Wants(call[u].obj))'
    BY DEF CodesRight
  <2>3. /\ call'[u] = call[u] /\ call[u].code = Wants(call[u].obj)
        /\ call[u].obj \in Channels
    BY <1>4, <2>1, <2>2
  <2> QED
    BY <1>3, <2>3 DEF Wants
<1> QED
  BY <1>8, <1>9, <1>10, <1>11 DEF Positions


\* The reservation of a channel passes to its sibling.
LEMMA PositionsNewSibling ==
    ASSUME Inv, Positions, NEW t \in Tasks,
           NEW c \in Channels, NEW s \in Channels, NewSibling(t, c, s),
           "unreserved" \notin CallerLiberties
    PROVE  Positions'
<1>0. PICK q : q = chan[s].pair
  OBVIOUS
<1>1. /\ call[t] \in GoodCall /\ call \in [Tasks -> GoodCall]
      /\ chan \in [Channels -> Channel]
      /\ call[t].pc = "idle"
      /\ chan[c].st = "free" /\ chan[s].st = "live" /\ chan[s].reserves
      /\ c # s /\ q \in Pairs
      /\ occupy' = occupy /\ slot' = slot
  BY <1>0 DEF NewSibling, Usable, At, Inv, TypeInv, TypeOK, Channel
<1>2. PICK d \in Dirs \ {chan[s].dir} :
         chan' = [chan EXCEPT
                     ![c] = [FreeChannel EXCEPT !.st = "new", !.dir = d],
                     ![s].reserves = FALSE]
  BY DEF NewSibling
<1>3. /\ chan'[c].st = "new" /\ chan'[c].dir = d /\ ~chan'[c].reserves
      /\ chan'[s].st = "live" /\ chan'[s].pair = q
      /\ chan'[s].dir = chan[s].dir /\ ~chan'[s].reserves
      /\ \A e \in Channels : e # c /\ e # s => chan'[e] = chan[e]
  <2>1. chan'[c] = [FreeChannel EXCEPT !.st = "new", !.dir = d]
    BY <1>1, <1>2
  <2>2. chan'[s] = [chan[s] EXCEPT !.reserves = FALSE] /\ chan[s] \in Channel
    BY <1>1, <1>2
  <2> QED
    BY <1>0, <1>1, <1>2, <2>1, <2>2 DEF FreeChannel, Channel
<1>4. /\ call'[t].pc = "register" /\ call'[t].obj = c /\ call'[t].pair = q
      /\ call' = [call EXCEPT ![t] = call'[t]]
      /\ \A u \in Tasks : u # t => call'[u] = call[u]
  BY <1>0, <1>1 DEF NewSibling
<1>5. \A u \in Tasks : call[u].obj # c
  BY <1>1, OwnedObject, GdmaAssumption DEF Inv
<1>6. \A e \in Channels : \A r : e # c => (StandsAt(e, r)' <=> StandsAt(e, r))
  <2> SUFFICES ASSUME NEW e \in Channels, e # c
               PROVE  \A r : StandsAt(e, r)' <=> StandsAt(e, r)
    OBVIOUS
  <2>1. /\ chan'[e].st = "live" <=> chan[e].st = "live"
        /\ chan[e].st = "live" => chan'[e].pair = chan[e].pair
    BY <1>0, <1>1, <1>3
  <2> QED
    BY <1>1, <1>4, <2>1, StandFrame DEF Inv
<1>7. \A r : StandsAt(c, r)' => r = q
  BY <1>3, <1>4, <1>5 DEF StandsAt
<1>8. /\ StandsAt(s, q)
      /\ Wants(s) = Dirs /\ Wants(s)' = {chan[s].dir} /\ Wants(c)' = {d}
      /\ \A e \in Channels : e # c => Wants(e)' \subseteq Wants(e)
  <2>1. chan[s].dir \in Dirs
    BY <1>1 DEF Channel
  <2> QED
    BY <1>0, <1>1, <1>3, <2>1 DEF StandsAt, Wants
<1>9. Marked'
  <2>1. Dirs \subseteq occupy[q]
    BY <1>1, <1>8 DEF Positions, Marked
  <2> SUFFICES ASSUME NEW e \in Channels, NEW r \in Pairs, StandsAt(e, r)'
               PROVE  Wants(e)' \subseteq occupy[r]
    BY <1>1 DEF Marked
  <2>2. CASE e = c
    BY <1>2, <1>7, <1>8, <2>1, <2>2
  <2>3. CASE e # c
    BY <1>6, <1>8, <2>3 DEF Positions, Marked
  <2> QED
    BY <2>2, <2>3
<1>10. Apart'
  <2>1. ASSUME NEW e \in Channels, e # c, StandsAt(e, q)
        PROVE  d \notin Wants(e)'
    <3>1. CASE e = s
      BY <1>2, <1>8, <3>1
    <3>2. CASE e # s
      BY <1>1, <1>2, <1>8, <2>1, <3>2 DEF Positions, Apart
    <3> QED
      BY <3>1, <3>2
  <2> SUFFICES ASSUME NEW e \in Channels, NEW f \in Channels, NEW r \in Pairs,
                      e # f, StandsAt(e, r)', StandsAt(f, r)'
               PROVE  Wants(e)' \cap Wants(f)' = {}
    BY DEF Apart
  <2>2. CASE e = c
    BY <1>6, <1>7, <1>8, <2>1, <2>2
  <2>3. CASE f = c
    BY <1>6, <1>7, <1>8, <2>1, <2>3
  <2>4. CASE e # c /\ f # c
    BY <1>6, <1>8, <2>4 DEF Positions, Apart
  <2> QED
    BY <2>2, <2>3, <2>4
<1>11. Entered'
  <2>1. \A e \in Channels : chan'[e].st = "live" =>
           /\ chan[e].st = "live" /\ chan'[e].pair = chan[e].pair
           /\ chan'[e].dir = chan[e].dir
    BY <1>0, <1>1, <1>3
  <2> QED
    BY <1>1, <2>1 DEF Positions, Entered
<1>12. CodesRight'
  <2>1. \A u \in Tasks : call[u].obj # s
    BY DEF NewSibling, Usable
  <2> SUFFICES ASSUME NEW u \in Tasks, Searching(u)'
               PROVE  (call[u].code = Wants(call[u].obj))'
    BY DEF CodesRight
  <2>2. call'[u] = call[u] /\ Searching(u)
    BY <1>4 DEF Searching
  <2>3. /\ call[u].code = Wants(call[u].obj)
        /\ call[u].obj \in Channels /\ call[u].obj # c /\ call[u].obj # s
    BY <1>5, <2>1, <2>2, SearchObject DEF Positions, CodesRight, Inv
  <2> QED
    BY <1>3, <2>2, <2>3 DEF Wants
<1> QED
  BY <1>9, <1>10, <1>11, <1>12 DEF Positions

\* A deleted channel gives up its own position, which no other stands on.
LEMMA PositionsDelChannel ==
    ASSUME Inv, Positions, NEW t \in Tasks, NEW c \in Channels,
           DelChannel(t, c)
    PROVE  Positions'
<1>0. PICK q, d : q = chan[c].pair /\ d = chan[c].dir
  OBVIOUS
<1>1. /\ call[t] \in GoodCall /\ call \in [Tasks -> GoodCall]
      /\ chan \in [Channels -> Channel]
      /\ occupy \in [Pairs -> SUBSET Dirs]
      /\ slot \in [Pairs -> [Dirs -> Channels \cup {None}]]
      /\ call[t].pc = "idle" /\ chan[c].st = "live"
      /\ q \in Pairs /\ d \in Dirs
      /\ \A u \in Tasks : call[u].obj # c
      /\ slot' = [slot EXCEPT ![q][d] = None]
      /\ occupy' = [occupy EXCEPT ![q] = @ \ {d}]
  BY <1>0 DEF DelChannel, Usable, At, Inv, TypeInv, TypeOK, Channel
<1>2. /\ chan'[c].st \in {"dying", "free"}
      /\ \A e \in Channels : e # c => chan'[e] = chan[e]
  <2>1. CASE chan[c].intr
    BY <1>1, <2>1 DEF DelChannel, Channel
  <2>2. CASE ~chan[c].intr
    BY <1>1, <2>2 DEF DelChannel, FreeChannel
  <2> QED
    BY <2>1, <2>2
<1>3. /\ call' = [call EXCEPT ![t] = call'[t]]
      /\ call'[t].pc \in {"uninstall", "releasePair"}
      /\ call'[t].op = "delete"
      /\ \A u \in Tasks : u # t => call'[u] = call[u]
  BY <1>1 DEF DelChannel
<1>4. \A e \in Channels : \A r : e # c => (StandsAt(e, r)' <=> StandsAt(e, r))
  BY <1>1, <1>2, <1>3, StandFrame DEF Inv
<1>5. \A r : ~StandsAt(c, r)'
  BY <1>1, <1>2, <1>3 DEF StandsAt
<1>6. \A e \in Channels : e # c => Wants(e)' = Wants(e)
  BY <1>2 DEF Wants
<1>7. \A e \in Channels : e # c /\ StandsAt(e, q) => d \notin Wants(e)
  <2>1. StandsAt(c, q) /\ d \in Wants(c)
    BY <1>0, <1>1 DEF StandsAt, Wants
  <2> QED
    BY <1>1, <2>1 DEF Positions, Apart
<1>8. Marked'
  <2> SUFFICES ASSUME NEW e \in Channels, NEW r \in Pairs, StandsAt(e, r)'
               PROVE  Wants(e)' \subseteq occupy'[r]
    BY DEF Marked
  <2>1. e # c /\ StandsAt(e, r) /\ Wants(e)' = Wants(e)
    BY <1>4, <1>5, <1>6
  <2>2. Wants(e) \subseteq occupy[r]
    BY <2>1 DEF Positions, Marked
  <2> QED
    BY <1>1, <1>7, <2>1, <2>2
<1>9. Apart'
  BY <1>4, <1>5, <1>6 DEF Positions, Apart
<1>10. Entered'
  <2> SUFFICES ASSUME NEW e \in Channels, chan'[e].st = "live"
               PROVE  slot'[chan'[e].pair][chan'[e].dir] = e
    BY DEF Entered
  <2>1. /\ e # c /\ chan'[e] = chan[e] /\ chan[e].st = "live"
        /\ slot[chan[e].pair][chan[e].dir] = e
        /\ chan[e].pair \in Pairs /\ chan[e].dir \in Dirs
    BY <1>1, <1>2 DEF Positions, Entered, Channel
  <2>2. chan[e].pair # q \/ chan[e].dir # d
    BY <1>7, <2>1 DEF StandsAt, Wants
  <2> QED
    BY <1>1, <2>1, <2>2
<1>11. CodesRight'
  <2> SUFFICES ASSUME NEW u \in Tasks, Searching(u)'
               PROVE  (call[u].code = Wants(call[u].obj))'
    BY DEF CodesRight
  <2>1. call'[u] = call[u] /\ Searching(u)
    BY <1>3 DEF Searching
  <2>2. /\ call[u].code = Wants(call[u].obj)
        /\ call[u].obj \in Channels /\ call[u].obj # c
    BY <1>1, <2>1, SearchObject DEF Positions, CodesRight, Inv
  <2> QED
    BY <1>2, <2>1, <2>2 DEF Wants
<1> QED
  BY <1>8, <1>9, <1>10, <1>11 DEF Positions

LEMMA PositionsNext ==
    ASSUME "sameDirection" \notin CallerLiberties,
           "unreserved" \notin CallerLiberties,
           Inv, Positions, [Next]_vars
    PROVE  Positions'
<1>1. CASE UNCHANGED vars
  BY <1>1 DEF vars, Positions, Marked, Apart, Entered, CodesRight, Searching,
              StandsAt, Wants
<1>2. ASSUME NEW t \in Tasks, Invoke(t)
      PROVE  Positions'
  <2>1. PICK c \in Channels :
        \/ \E d \in Dirs, reserve \in BOOLEAN : NewChannel(t, c, d, reserve)
        \/ \E s \in Channels : NewSibling(t, c, s)
        \/ DelChannel(t, c)
        \/ InstallIntr(t, c)
        \/ \E id \in PeriphIds \cup {Unbound} : Connect(t, c, id)
        \/ Disconnect(t, c)
    BY <1>2 DEF Invoke, NewSiblingRejected
  <2> QED
    BY <2>1, PositionsObjects, PositionsNewSibling, PositionsDelChannel,
       PositionsKept
<1>3. ASSUME NEW t \in Tasks, Step(t)
      PROVE  Positions'
  BY <1>3, PositionsSearch, PositionsObjects, PositionsAcquirePair,
     PositionsOccupy, PositionsRegister, PositionsKept
  DEF Step, Search, Release, Interrupt
<1> QED
  BY <1>1, <1>2, <1>3 DEF Next

LEMMA PositionsInit == Init => Positions
  BY DEF Init, Positions, Marked, Apart, Entered, CodesRight, Searching,
         StandsAt, Idle, FreeChannel

\* What the driver promises about positions, for callers that name siblings as
\* gdma_new_channel asks them to ("sibling_chan", with reserve_sibling set before):
\* a position is never given to a second channel and a pair knows its channels;
THEOREM ExclusivePositionsCorrect ==
    ASSUME "sameDirection" \notin CallerLiberties,
           "unreserved" \notin CallerLiberties
    PROVE  Spec => []ExclusivePositions
<1>1. Init => Inv /\ Positions
  BY InvInit, PositionsInit
<1>2. Inv /\ Positions /\ [Next]_vars => Inv' /\ Positions'
  BY InvNext, PositionsNext
<1>3. Inv /\ Positions => ExclusivePositions
  <2> SUFFICES ASSUME Inv, Positions, NEW c \in Channels, NEW e \in Channels,
                      e # c, chan[c].st = "live", chan[e].st = "live",
                      chan[e].pair = chan[c].pair
               PROVE  chan[e].dir # chan[c].dir
    BY DEF ExclusivePositions, Positions, Entered
  <2>1. chan[c].pair \in Pairs
    BY DEF Inv, TypeInv, TypeOK, Channel
  <2>2. Wants(c) \cap Wants(e) = {}
    BY <2>1 DEF Positions, Apart, StandsAt
  <2>3. chan[c].dir \in Wants(c) /\ chan[e].dir \in Wants(e)
    BY DEF Wants, Inv, TypeInv, TypeOK, Channel
  <2> QED
    BY <2>2, <2>3
<1> QED
  BY <1>1, <1>2, <1>3, PTL DEF Spec

\* and a position that is taken, or about to be, is marked, so that no search
\* ever stops at it.
THEOREM OccupiedCorrect ==
    ASSUME "sameDirection" \notin CallerLiberties,
           "unreserved" \notin CallerLiberties
    PROVE  Spec => []OccupiedWhenTaken
<1>1. Init => Inv /\ Positions
  BY InvInit, PositionsInit
<1>2. Inv /\ Positions /\ [Next]_vars => Inv' /\ Positions'
  BY InvNext, PositionsNext
<1>3. Inv /\ Positions => OccupiedWhenTaken
  <2> SUFFICES ASSUME Inv, Positions
               PROVE  OccupiedWhenTaken
    OBVIOUS
  <2>1. \A c \in Channels : chan[c].dir \in Wants(c) /\ chan[c].pair \in Pairs
    BY DEF Wants, Inv, TypeInv, TypeOK, Channel
  <2>2. ASSUME NEW c \in Channels, chan[c].st = "live"
        PROVE  chan[c].dir \in occupy[chan[c].pair]
    BY <2>1, <2>2 DEF Positions, Marked, StandsAt
  <2>3. ASSUME NEW t \in Tasks, At(t, "register")
        PROVE  chan[call[t].obj].dir \in occupy[call[t].pair]
    <3>1. call[t].obj \in Channels /\ call[t].pair \in Pairs
      BY <2>3 DEF At, Inv, TypeInv, GoodCall
    <3>2. StandsAt(call[t].obj, call[t].pair)
      BY <2>3 DEF StandsAt, At
    <3> QED
      BY <2>1, <3>1, <3>2 DEF Positions, Marked
  <2> QED
    BY <2>2, <2>3 DEF OccupiedWhenTaken
<1> QED
  BY <1>1, <1>2, <1>3, PTL DEF Spec

-----------------------------------------------------------------------------
\* What is connected: a new object is not, and the masks are those of the live
\* channels.
Peripherals ==
    /\ \A c \in Channels :
          chan[c].st = "new" => chan[c].periph = NotConnected
    /\ ExclusivePeripherals

\* A channel of which no mask says anything.
Apathetic(c) == chan[c].st = "live" => chan[c].periph = NotConnected

\* A step after which the channels are connected as before, and no group has
\* been installed.
LEMMA QuietPeripherals ==
    ASSUME TypeInv, Peripherals, inUse' = inUse,
           \A g \in Groups : groupUp'[g] => groupUp[g],
           \A e \in Channels :
              \/ /\ chan'[e].st = chan[e].st
                 /\ chan'[e].pair = chan[e].pair
                 /\ chan'[e].dir = chan[e].dir
                 /\ chan'[e].periph = chan[e].periph
              \/ /\ Apathetic(e) /\ Apathetic(e)'
                 /\ chan'[e].st = "new" => chan'[e].periph = NotConnected
    PROVE  Peripherals'
<1> DEFINE Live(g, d) == {b \in Channels : /\ chan[b].st = "live"
                                           /\ chan[b].pair[1] = g
                                           /\ chan[b].dir = d}
<1>1. NotConnected \notin PeriphIds
  BY GdmaAssumption DEF NotConnected
<1>2. \A e \in Channels :
         chan'[e].st = "new" => chan'[e].periph = NotConnected
  BY DEF Peripherals
<1>3. ASSUME NEW g \in Groups, NEW d \in Dirs, groupUp'[g]
      PROVE  inUse'[g][d] = {chan'[c].periph : c \in Live(g, d)'} \cap PeriphIds
  <2>1. inUse[g][d] = {chan[c].periph : c \in Live(g, d)} \cap PeriphIds
    BY <1>3 DEF Peripherals, ExclusivePeripherals
  <2>2. \A id \in PeriphIds :
           (\E c \in Live(g, d) : chan[c].periph = id)
              <=> (\E c \in Live(g, d)' : chan'[c].periph = id)
    BY <1>1 DEF Apathetic
  <2> QED
    BY <2>1, <2>2
<1>4. ASSUME NEW c \in Channels, NEW e \in Channels, c # e,
             chan'[c].st = "live", chan'[e].st = "live",
             chan'[c].pair[1] = chan'[e].pair[1],
             chan'[c].dir = chan'[e].dir,
             chan'[c].periph \in PeriphIds
      PROVE  chan'[c].periph # chan'[e].periph
  BY <1>1, <1>4 DEF Apathetic, Peripherals, ExclusivePeripherals
<1> QED
  BY <1>2, <1>3, <1>4 DEF Peripherals, ExclusivePeripherals

\* A group that is installed anew has no channels and an empty mask.
LEMMA PeripheralsAcquireGroup ==
    ASSUME Inv, Peripherals, NEW t \in Tasks, AcquireGroup(t)
    PROVE  Peripherals'
<1> DEFINE g == GroupOf(t)
<1>1. CASE groupUp[g]
  BY <1>1, QuietPeripherals DEF AcquireGroup, Inv
<1>2. CASE ~groupUp[g]
  <2>1. \A c \in Channels : chan[c].st = "live" => chan[c].pair[1] # g
    BY <1>2, NothingDangles DEF NoDanglingHandle
  <2>2. /\ g \in Groups /\ chan' = chan
        /\ groupUp' = [groupUp EXCEPT ![g] = TRUE]
        /\ inUse' = [inUse EXCEPT ![g] = [d \in Dirs |-> {}]]
        /\ inUse \in [Groups -> [Dirs -> SUBSET PeriphIds]]
        /\ groupUp \in [Groups -> BOOLEAN]
    BY <1>2 DEF AcquireGroup, Inv, TypeInv, TypeOK
  <2> SUFFICES ASSUME NEW h \in Groups, NEW d \in Dirs, groupUp'[h]
               PROVE  inUse'[h][d] =
                        {chan[c].periph : c \in {b \in Channels :
                            /\ chan[b].st = "live"
                            /\ chan[b].pair[1] = h
                            /\ chan[b].dir = d}} \cap PeriphIds
    BY <2>2 DEF Peripherals, ExclusivePeripherals
  <2>3. CASE h = g
    BY <2>1, <2>2, <2>3
  <2>4. CASE h # g
    BY <2>2, <2>4 DEF Peripherals, ExclusivePeripherals
  <2> QED
    BY <2>3, <2>4
<1> QED
  BY <1>1, <1>2

\* Connecting enters an id nobody had; disconnecting removes one nobody else has.
LEMMA PeripheralsConnect ==
    ASSUME Inv, Peripherals, NEW t \in Tasks, NEW c \in Channels,
           \/ \E id \in PeriphIds \cup {Unbound} : Connect(t, c, id)
           \/ Disconnect(t, c)
    PROVE  Peripherals'
<1> DEFINE Live(h, d) == {b \in Channels : /\ chan[b].st = "live"
                                           /\ chan[b].pair[1] = h
                                           /\ chan[b].dir = d}
<1>0. PICK g, k : g = chan[c].pair[1] /\ k = chan[c].dir
  OBVIOUS
<1>1. PICK id : /\ chan' = [chan EXCEPT ![c].periph = id]
                /\ \/ /\ id \in PeriphIds \cup {Unbound}
                      /\ chan[c].periph = NotConnected
                      /\ id \notin inUse[g][k]
                      /\ inUse' = [inUse EXCEPT ![g][k] =
                                      @ \cup ({id} \cap PeriphIds)]
                   \/ /\ id = NotConnected
                      /\ inUse' = [inUse EXCEPT ![g][k] =
                                      @ \ {chan[c].periph}]
  BY <1>0 DEF Connect, Disconnect, Conflict
<1>2. /\ chan \in [Channels -> Channel]
      /\ inUse \in [Groups -> [Dirs -> SUBSET PeriphIds]]
      /\ chan[c].st = "live" /\ groupUp' = groupUp /\ groupUp[g]
      /\ g \in Groups /\ k \in Dirs
  <2>1. groupUp[g] /\ chan[c].pair \in Pairs
    BY <1>0, NothingDangles
    DEF NoDanglingHandle, Connect, Disconnect, Usable, Inv, TypeInv, TypeOK,
        Channel
  <2> QED
    BY <1>0, <2>1, PairFacts
    DEF Connect, Disconnect, Usable, Inv, TypeInv, TypeOK, Channel
<1>3. /\ NotConnected \notin PeriphIds
      /\ NotConnected # Unbound /\ Unbound \notin PeriphIds
  BY GdmaAssumption DEF NotConnected, Unbound
<1>4. /\ chan'[c].periph = id
      /\ \A e \in Channels : /\ chan'[e].st = chan[e].st
                             /\ chan'[e].pair = chan[e].pair
                             /\ chan'[e].dir = chan[e].dir
                             /\ e # c => chan'[e].periph = chan[e].periph
  BY <1>1, <1>2 DEF Channel
<1>5. inUse[g][k] = {chan[b].periph : b \in Live(g, k)} \cap PeriphIds
  BY <1>2 DEF Peripherals, ExclusivePeripherals
<1>6. \A b \in Live(g, k) : b # c /\ chan[b].periph \in PeriphIds
                              => /\ chan[b].periph # id
                                 /\ chan[b].periph # chan[c].periph
  <2> SUFFICES ASSUME NEW b \in Live(g, k), b # c,
                      chan[b].periph \in PeriphIds
               PROVE  /\ chan[b].periph # id
                      /\ chan[b].periph # chan[c].periph
    OBVIOUS
  <2>1. chan[b].periph \in inUse[g][k]
    BY <1>5
  <2>2. chan[b].periph # id
    BY <1>1, <1>3, <2>1
  <2>3. chan[b].periph # chan[c].periph
    BY <1>0, <1>2 DEF Peripherals, ExclusivePeripherals
  <2> QED
    BY <2>2, <2>3
<1>7. \A e \in Channels :
         chan'[e].st = "new" => chan'[e].periph = NotConnected
  BY <1>2, <1>4 DEF Peripherals
<1>8. ASSUME NEW h \in Groups, NEW d \in Dirs, groupUp'[h]
      PROVE  inUse'[h][d] = {chan'[b].periph : b \in Live(h, d)'} \cap PeriphIds
  <2>1. Live(h, d)' = Live(h, d)
    BY <1>4
  <2>2. CASE h # g \/ d # k
    <3>1. inUse'[h][d] = inUse[h][d]
      BY <1>1, <1>2, <2>2
    <3>2. c \notin Live(h, d)
      BY <1>0, <2>2
    <3>3. inUse[h][d] = {chan[b].periph : b \in Live(h, d)} \cap PeriphIds
      BY <1>2, <1>8 DEF Peripherals, ExclusivePeripherals
    <3>4. \A b \in Live(h, d) : chan'[b].periph = chan[b].periph
      BY <1>4, <3>2
    <3> QED
      BY <2>1, <3>1, <3>3, <3>4
  <2>3. CASE h = g /\ d = k
    <3>1. c \in Live(g, k)
      BY <1>0, <1>2
    <3>2. \A b \in Live(g, k) : b # c => chan'[b].periph = chan[b].periph
      BY <1>4
    <3>3. \A p \in PeriphIds :
             p \in inUse'[g][k] <=> \E b \in Live(g, k) : chan'[b].periph = p
      <4> TAKE p \in PeriphIds
      <4>1. p \in inUse[g][k] <=> \E b \in Live(g, k) : chan[b].periph = p
        BY <1>5
      <4>2. CASE /\ id \in PeriphIds \cup {Unbound}
                 /\ chan[c].periph = NotConnected
                 /\ inUse' = [inUse EXCEPT ![g][k] =
                                 @ \cup ({id} \cap PeriphIds)]
        <5>1. p \in inUse'[g][k] <=> p \in inUse[g][k] \/ p = id
          BY <1>2, <4>2
        <5> QED
          BY <1>3, <1>4, <3>1, <3>2, <4>1, <4>2, <5>1
      <4>3. CASE /\ id = NotConnected
                 /\ inUse' = [inUse EXCEPT ![g][k] = @ \ {chan[c].periph}]
        <5>1. p \in inUse'[g][k] <=> p \in inUse[g][k] /\ p # chan[c].periph
          BY <1>2, <4>3
        <5> QED
          BY <1>3, <1>4, <1>6, <3>1, <3>2, <4>1, <4>3, <5>1
      <4> QED
        BY <1>1, <4>2, <4>3
    <3>4. inUse'[g][k] \subseteq PeriphIds
      BY <1>1, <1>2
    <3> QED
      BY <2>1, <2>3, <3>3, <3>4
  <2> QED
    BY <2>2, <2>3
<1>9. ASSUME NEW a \in Channels, NEW e \in Channels, a # e,
             chan'[a].st = "live", chan'[e].st = "live",
             chan'[a].pair[1] = chan'[e].pair[1],
             chan'[a].dir = chan'[e].dir,
             chan'[a].periph \in PeriphIds
      PROVE  chan'[a].periph # chan'[e].periph
  <2>1. CASE a # c /\ e # c
    BY <1>4, <1>9, <2>1 DEF Peripherals, ExclusivePeripherals
  <2>2. CASE a = c
    <3>1. e \in Live(g, k) /\ chan'[e].periph = chan[e].periph
      BY <1>0, <1>4, <1>9, <2>2
    <3> QED
      BY <1>4, <1>6, <1>9, <2>2, <3>1
  <2>3. CASE e = c
    <3>1. a \in Live(g, k) /\ chan'[a].periph = chan[a].periph
      BY <1>0, <1>4, <1>9, <2>3
    <3> QED
      BY <1>4, <1>6, <1>9, <2>3, <3>1
  <2> QED
    BY <2>1, <2>2, <2>3
<1> QED
  BY <1>7, <1>8, <1>9 DEF Peripherals, ExclusivePeripherals


\* The steps of the driver that connect nothing.
LEMMA PeripheralsElsewhere ==
    ASSUME Inv, Peripherals, "stayConnected" \notin CallerLiberties,
           NEW t \in Tasks,
           \/ \E c \in Channels :
                 \/ \E d \in Dirs, reserve \in BOOLEAN :
                       NewChannel(t, c, d, reserve)
                 \/ \E s \in Channels : NewSibling(t, c, s)
                 \/ DelChannel(t, c)
                 \/ InstallIntr(t, c)
           \/ GiveUpSearch(t) \/ AcquirePair(t) \/ AcquirePairNoMem(t)
           \/ RefGroup(t) \/ Occupy(t) \/ Register(t)
           \/ Release(t) \/ Interrupt(t)
    PROVE  Peripherals'
<1>1. /\ chan \in [Channels -> Channel]
      /\ call[t] \in GoodCall /\ GroupOf(t) = call[t].pair[1]
      /\ groupUp \in [Groups -> BOOLEAN]
  BY DEF Inv, TypeInv, TypeOK, GroupOf
<1>2. inUse' = inUse
  BY DEF NewChannel, NewSibling, DelChannel, InstallIntr, GiveUpSearch,
         AcquirePair, AcquirePairNoMem, RefGroup, Occupy, Register, Release,
         ReleasePair, ReleasePairsGroup, ReleaseGroup, DropGroupRef, Interrupt,
         UninstallIntr, DisableEvents, EnableEvents, groupVars
<1>3. \A g \in Groups : groupUp'[g] => groupUp[g]
  <2>1. CASE groupUp' = groupUp
    BY <2>1
  <2>2. CASE \E g : DropGroupRef(g)
    BY <1>1, <2>2 DEF DropGroupRef
  <2> QED
    BY <2>1, <2>2
    DEF NewChannel, NewSibling, DelChannel, InstallIntr, GiveUpSearch,
        AcquirePair, AcquirePairNoMem, RefGroup, Occupy, Register, Release,
        ReleasePair, ReleasePairsGroup, ReleaseGroup, Interrupt,
        UninstallIntr, DisableEvents, EnableEvents, groupVars
<1>4. \A e \in Channels :
         \/ /\ chan'[e].st = chan[e].st
            /\ chan'[e].pair = chan[e].pair
            /\ chan'[e].dir = chan[e].dir
            /\ chan'[e].periph = chan[e].periph
         \/ /\ Apathetic(e) /\ Apathetic(e)'
            /\ chan'[e].st = "new" => chan'[e].periph = NotConnected
  <2> SUFFICES ASSUME NEW e \in Channels
               PROVE  \/ /\ chan'[e].st = chan[e].st
                         /\ chan'[e].pair = chan[e].pair
                         /\ chan'[e].dir = chan[e].dir
                         /\ chan'[e].periph = chan[e].periph
                      \/ /\ Apathetic(e) /\ Apathetic(e)'
                         /\ chan'[e].st = "new"
                               => chan'[e].periph = NotConnected
    OBVIOUS
  <2>1. CASE chan' = chan
    BY <2>1
  <2>2. CASE \E c \in Channels, d \in Dirs, reserve \in BOOLEAN :
                NewChannel(t, c, d, reserve)
    <3>1. PICK c \in Channels, d \in Dirs, reserve \in BOOLEAN :
             /\ chan[c].st = "free"
             /\ chan' = [chan EXCEPT ![c] =
                            [FreeChannel EXCEPT !.st = "new", !.dir = d,
                                                !.reserves = reserve]]
      BY <2>2 DEF NewChannel
    <3> QED
      BY <1>1, <3>1 DEF FreeChannel, Apathetic
  <2>3. CASE \E c, s \in Channels : NewSibling(t, c, s)
    <3>1. PICK c \in Channels, s \in Channels, d \in Dirs :
             /\ chan[c].st = "free" /\ chan[s].st = "live"
             /\ chan' = [chan EXCEPT
                     ![c] = [FreeChannel EXCEPT !.st = "new", !.dir = d],
                     ![s].reserves = FALSE]
      BY <2>3 DEF NewSibling, Usable
    <3>2. CASE e = c
      BY <1>1, <3>1, <3>2 DEF FreeChannel, Apathetic
    <3>3. CASE e # c
      BY <1>1, <3>1, <3>3 DEF Channel
    <3> QED
      BY <3>2, <3>3
  <2>4. CASE \E c \in Channels : DelChannel(t, c)
    <3>1. PICK c \in Channels :
             DelChannel(t, c) /\ chan[c].periph = NotConnected
      BY <2>4 DEF DelChannel
    <3>2. CASE chan[c].intr
      BY <1>1, <3>1, <3>2 DEF DelChannel, Apathetic, Channel
    <3>3. CASE ~chan[c].intr
      BY <1>1, <3>1, <3>3 DEF DelChannel, Apathetic, FreeChannel
    <3> QED
      BY <3>2, <3>3
  <2>5. CASE \E o : chan' = [chan EXCEPT ![o].intr = TRUE]
    BY <1>1, <2>5 DEF Channel
  <2>6. CASE \E o, on : chan' = [chan EXCEPT ![o].cb = on]
    BY <1>1, <2>6 DEF Channel
  <2>7. CASE GiveUpSearch(t) \/ AcquirePairNoMem(t) \/ DisableEvents(t)
    <3>1. /\ call[t].obj \in Channels
          /\ chan[call[t].obj].st \in {"new", "dying"}
          /\ chan' = [chan EXCEPT ![call[t].obj] = FreeChannel]
      BY <1>1, <2>7
      DEF GiveUpSearch, AcquirePairNoMem, DisableEvents, At, GoodCall, Inv,
          ObjectsOwned, ObjectOk
    <3> QED
      BY <1>1, <3>1 DEF Apathetic, FreeChannel
  <2>8. CASE Register(t)
    <3>1. /\ call[t].obj \in Channels /\ chan[call[t].obj].st = "new"
          /\ chan[call[t].obj].periph = NotConnected
          /\ chan' = [chan EXCEPT ![call[t].obj].st = "live",
                                  ![call[t].obj].pair = call[t].pair]
      BY <1>1, <2>8
      DEF Register, At, GoodCall, Inv, ObjectsOwned, ObjectOk, Peripherals
    <3> QED
      BY <1>1, <3>1 DEF Apathetic, Channel
  <2> QED
    BY <2>1, <2>2, <2>3, <2>4, <2>5, <2>6, <2>7, <2>8
    DEF InstallIntr, AcquirePair, RefGroup, Occupy, Release, ReleasePair,
        ReleasePairsGroup, ReleaseGroup, Interrupt, UninstallIntr,
        EnableEvents
<1> QED
  BY <1>2, <1>3, <1>4, QuietPeripherals DEF Inv

LEMMA PeripheralsNext ==
    ASSUME "sameDirection" \notin CallerLiberties,
           "stayConnected" \notin CallerLiberties,
           Inv, Peripherals, [Next]_vars
    PROVE  Peripherals'
<1>1. CASE UNCHANGED vars
  BY <1>1 DEF vars, Peripherals, ExclusivePeripherals
<1>2. ASSUME NEW t \in Tasks, Invoke(t)
      PROVE  Peripherals'
  <2>1. PICK c \in Channels :
        \/ \E d \in Dirs, reserve \in BOOLEAN : NewChannel(t, c, d, reserve)
        \/ \E s \in Channels : NewSibling(t, c, s)
        \/ DelChannel(t, c)
        \/ InstallIntr(t, c)
        \/ \E id \in PeriphIds \cup {Unbound} : Connect(t, c, id)
        \/ Disconnect(t, c)
    BY <1>2 DEF Invoke, NewSiblingRejected
  <2> QED
    BY <2>1, PeripheralsElsewhere, PeripheralsConnect
<1>3. ASSUME NEW t \in Tasks, Step(t)
      PROVE  Peripherals'
  BY <1>3, PeripheralsElsewhere, PeripheralsAcquireGroup DEF Step, Search
<1> QED
  BY <1>1, <1>2, <1>3 DEF Next


\* A peripheral is never connected to two channels of one direction of a group,
\* and the group's mask is exactly what its channels are connected to, provided
\* callers disconnect a channel before they delete it (a mask keeps the bit of a
\* deleted channel, gdma.c:654).
THEOREM ExclusivePeripheralsCorrect ==
    ASSUME "sameDirection" \notin CallerLiberties,
           "stayConnected" \notin CallerLiberties
    PROVE  Spec => []ExclusivePeripherals
<1>1. Init => Inv /\ Peripherals
  <2>1. Init => Peripherals
    BY DEF Init, Peripherals, ExclusivePeripherals, FreeChannel
  <2> QED
    BY <2>1, InvInit
<1>2. Inv /\ Peripherals /\ [Next]_vars => Inv' /\ Peripherals'
  BY InvNext, PeripheralsNext
<1>3. Peripherals => ExclusivePeripherals
  BY DEF Peripherals
<1> QED
  BY <1>1, <1>2, <1>3, PTL DEF Spec

-----------------------------------------------------------------------------
\* Which handlers are installed: those of the live channels that remember one,
\* and those that are about to be uninstalled.
Uninstalls(c) == \E t \in Tasks : At(t, "uninstall") /\ call[t].obj = c

Handlers ==
    \A c \in Channels :
        /\ chan[c].st = "new" => ~chan[c].intr
        /\ handlers[c] = IF \/ chan[c].st = "live" /\ chan[c].intr
                            \/ Uninstalls(c)
                         THEN 1 ELSE 0

\* A step that installs and uninstalls nothing.
LEMMA QuietHandlers ==
    ASSUME TypeInv, Handlers, NEW t \in Tasks,
           call' = [call EXCEPT ![t] = call'[t]], handlers' = handlers,
           call[t].pc # "uninstall" /\ call'[t].pc # "uninstall",
           \A e \in Channels :
              /\ chan'[e].st = "live" /\ chan'[e].intr
                    <=> chan[e].st = "live" /\ chan[e].intr
              /\ chan'[e].st = "new" => ~chan'[e].intr
    PROVE  Handlers'
<1>1. \A u \in Tasks : u # t => call'[u] = call[u]
  BY DEF TypeInv
<1>2. \A e : Uninstalls(e)' <=> Uninstalls(e)
  BY <1>1 DEF Uninstalls, At
<1> QED
  BY <1>2 DEF Handlers

LEMMA HandlersQuietSteps ==
    ASSUME Inv, Handlers, NEW t \in Tasks,
           \/ \E c \in Channels :
                 \/ \E d \in Dirs, reserve \in BOOLEAN :
                       NewChannel(t, c, d, reserve)
                 \/ \E s \in Channels : NewSibling(t, c, s)
                 \/ \E id \in PeriphIds \cup {Unbound} : Connect(t, c, id)
                 \/ Disconnect(t, c)
           \/ Search(t) \/ Release(t) \/ DisableEvents(t)
           \/ \E on \in BOOLEAN : EnableEvents(t, on)
    PROVE  Handlers'
<1>1. /\ chan \in [Channels -> Channel] /\ call \in [Tasks -> GoodCall]
      /\ call[t] \in GoodCall
  BY DEF Inv, TypeInv, TypeOK
<1>2. handlers' = handlers
  BY DEF NewChannel, NewSibling, Connect, Disconnect, Search, AcquireGroup,
         GiveUpSearch, AcquirePair, AcquirePairNoMem, RefGroup, Occupy,
         Register, Release, ReleasePair, ReleasePairsGroup, ReleaseGroup,
         DisableEvents, EnableEvents, intrVars
<1>3. /\ call' = [call EXCEPT ![t] = call'[t]]
      /\ call[t].pc # "uninstall" /\ call'[t].pc # "uninstall"
  <2>1. CASE call' = call /\ At(t, "idle")
    BY <1>1, <2>1 DEF At
  <2>2. CASE \E c \in Channels, d \in Dirs, reserve \in BOOLEAN :
                NewChannel(t, c, d, reserve)
    <3>1. PICK c \in Channels, d \in Dirs, reserve \in BOOLEAN :
             NewChannel(t, c, d, reserve)
      BY <2>2
    <3> QED
      BY <1>1, <3>1 DEF NewChannel, At
  <2>6. CASE \E c, s \in Channels : NewSibling(t, c, s)
    <3>1. PICK c \in Channels, s \in Channels : NewSibling(t, c, s)
      BY <2>6
    <3> QED
      BY <1>1, <3>1 DEF NewSibling, At
  <2>3. CASE Release(t)
    <3>1. CASE AfterPair(t)
      BY <1>1, <2>3, <3>1
      DEF AfterPair, Goto, Return, Idle, GoodCall, Call, Release, ReleasePair,
          ReleasePairsGroup, ReleaseGroup, At
    <3>2. CASE Goto(t, "releasePairsGroup")
      BY <1>1, <2>3, <3>2
      DEF Goto, GoodCall, Call, Release, ReleasePair, ReleasePairsGroup,
          ReleaseGroup, At
    <3>3. CASE ReleaseGroup(t)
      BY <1>1, <3>3 DEF ReleaseGroup, Return, Idle, At, GoodCall, Call
    <3> QED
      BY <2>3, <3>1, <3>2, <3>3 DEF Release, ReleasePair, ReleasePairsGroup
  <2>4. CASE Search(t)
    <3>1. call[t].pc # "uninstall"
      BY <2>4 DEF Search, AcquireGroup, GiveUpSearch, AcquirePair,
                  AcquirePairNoMem, RefGroup, Occupy, Register, At
    <3>2. \/ Return(t)
          \/ \E pc \in PCs \ {"uninstall"} : Goto(t, pc)
          \/ AcquirePairNoMem(t)
      BY <2>4 DEF Search, AcquireGroup, GiveUpSearch, AcquirePair, RefGroup,
                  Occupy, Register, PCs
    <3> QED
      BY <1>1, <3>1, <3>2
      DEF Return, Goto, AcquirePairNoMem, Idle, GoodCall, Call
  <2>5. CASE DisableEvents(t) \/ \E on \in BOOLEAN : EnableEvents(t, on)
    <3>1. CASE DisableEvents(t)
      BY <1>1, <3>1 DEF DisableEvents, At, GoodCall, Call
    <3>2. CASE \E on \in BOOLEAN : EnableEvents(t, on)
      <4>1. call[t].pc = "enableEvents" /\ call' = [call EXCEPT ![t] = Idle]
        BY <3>2 DEF EnableEvents, At, Return
      <4> QED
        BY <1>1, <4>1 DEF Idle
    <3> QED
      BY <2>5, <3>1, <3>2
  <2> QED
    BY <2>1, <2>2, <2>3, <2>4, <2>5, <2>6 DEF Connect, Disconnect
<1>4. \A e \in Channels :
         /\ chan'[e].st = "live" /\ chan'[e].intr
               <=> chan[e].st = "live" /\ chan[e].intr
         /\ chan'[e].st = "new" => ~chan'[e].intr
  <2> SUFFICES ASSUME NEW e \in Channels
               PROVE  /\ chan'[e].st = "live" /\ chan'[e].intr
                            <=> chan[e].st = "live" /\ chan[e].intr
                      /\ chan'[e].st = "new" => ~chan'[e].intr
    OBVIOUS
  <2>0. chan[e].st = "new" => ~chan[e].intr
    BY DEF Handlers
  <2>1. CASE chan' = chan
    BY <2>0, <2>1
  <2>2. CASE \E c \in Channels, d \in Dirs, reserve \in BOOLEAN :
                NewChannel(t, c, d, reserve)
    <3>1. PICK c \in Channels, d \in Dirs, reserve \in BOOLEAN :
             NewChannel(t, c, d, reserve)
      BY <2>2
    <3>2. /\ chan[c].st = "free"
          /\ chan' = [chan EXCEPT ![c] =
                         [FreeChannel EXCEPT !.st = "new", !.dir = d,
                                             !.reserves = reserve]]
      BY <3>1 DEF NewChannel
    <3>3. CASE e = c
      BY <1>1, <3>2, <3>3 DEF FreeChannel
    <3>4. CASE e # c
      BY <1>1, <2>0, <3>2, <3>4
    <3> QED
      BY <3>3, <3>4
  <2>3. CASE \E c, s \in Channels : NewSibling(t, c, s)
    <3>1. PICK c \in Channels, s \in Channels, d \in Dirs :
             /\ chan[c].st = "free" /\ chan[s].st = "live"
             /\ chan' = [chan EXCEPT
                     ![c] = [FreeChannel EXCEPT !.st = "new", !.dir = d],
                     ![s].reserves = FALSE]
      BY <2>3 DEF NewSibling, Usable
    <3>2. CASE e = c
      BY <1>1, <3>1, <3>2 DEF FreeChannel
    <3>3. CASE e # c
      BY <1>1, <2>0, <3>1, <3>3 DEF Channel
    <3> QED
      BY <3>2, <3>3
  <2>4. CASE \E o, id : chan' = [chan EXCEPT ![o].periph = id]
    BY <1>1, <2>0, <2>4 DEF Channel
  <2>5. CASE \E o, on : chan' = [chan EXCEPT ![o].cb = on]
    BY <1>1, <2>0, <2>5 DEF Channel
  <2>6. CASE GiveUpSearch(t) \/ AcquirePairNoMem(t) \/ DisableEvents(t)
    <3>1. /\ call[t].obj \in Channels
          /\ chan[call[t].obj].st \in {"new", "dying"}
          /\ chan' = [chan EXCEPT ![call[t].obj] = FreeChannel]
      BY <1>1, <2>6
      DEF GiveUpSearch, AcquirePairNoMem, DisableEvents, At, GoodCall, Inv,
          ObjectsOwned, ObjectOk
    <3> QED
      BY <1>1, <2>0, <3>1 DEF FreeChannel
  <2>7. CASE Register(t)
    <3>1. /\ call[t].obj \in Channels /\ chan[call[t].obj].st = "new"
          /\ ~chan[call[t].obj].intr
          /\ chan' = [chan EXCEPT ![call[t].obj].st = "live",
                                  ![call[t].obj].pair = call[t].pair]
      BY <1>1, <2>7
      DEF Register, At, GoodCall, Inv, ObjectsOwned, ObjectOk, Handlers
    <3> QED
      BY <1>1, <2>0, <3>1 DEF Channel
  <2> QED
    BY <2>1, <2>2, <2>3, <2>4, <2>5, <2>6, <2>7
    DEF Connect, Disconnect, Search, AcquireGroup, AcquirePair, RefGroup,
        Occupy, Release, ReleasePair, ReleasePairsGroup, ReleaseGroup,
        EnableEvents
<1> QED
  BY <1>2, <1>3, <1>4, QuietHandlers DEF Inv

\* The steps that install a handler, or take over or carry out its removal.
LEMMA HandlersIntrSteps ==
    ASSUME Inv, Handlers, "reregister" \notin CallerLiberties,
           NEW t \in Tasks,
           \/ \E c \in Channels : InstallIntr(t, c) \/ DelChannel(t, c)
           \/ UninstallIntr(t)
    PROVE  Handlers'
<1>1. /\ chan \in [Channels -> Channel] /\ call \in [Tasks -> GoodCall]
      /\ call[t] \in GoodCall /\ handlers \in [Channels -> Int]
  BY DEF Inv, TypeInv, TypeOK
<1>2. \A u, v \in Tasks : u # v /\ call[u].obj # None
                             => call[v].obj # call[u].obj
  BY DEF Inv, ObjectsOwned
<1>3. ASSUME NEW c \in Channels, InstallIntr(t, c)
      PROVE  Handlers'
  <2>1. /\ chan[c].st = "live" /\ ~chan[c].intr /\ ~Uninstalls(c)
        /\ chan' = [chan EXCEPT ![c].intr = TRUE]
        /\ handlers' = [handlers EXCEPT ![c] = @ + 1]
        /\ call[t].pc = "idle"
    BY <1>3 DEF InstallIntr, Usable, Uninstalls, At
  <2>2. call'[t].pc = "enableEvents" /\ \A u \in Tasks :
           u # t => call'[u] = call[u]
    BY <1>1, <1>3 DEF InstallIntr
  <2>3. \A e : Uninstalls(e)' <=> Uninstalls(e)
    BY <2>1, <2>2 DEF Uninstalls, At
  <2>4. handlers[c] = 0
    BY <2>1 DEF Handlers
  <2> SUFFICES ASSUME NEW e \in Channels
               PROVE  (/\ chan[e].st = "new" => ~chan[e].intr
                       /\ handlers[e] = IF \/ chan[e].st = "live"
                                              /\ chan[e].intr
                                           \/ Uninstalls(e)
                                        THEN 1 ELSE 0)'
    BY DEF Handlers
  <2>5. CASE e = c
    BY <1>1, <2>1, <2>3, <2>4, <2>5 DEF Channel
  <2>6. CASE e # c
    BY <1>1, <2>1, <2>3, <2>6 DEF Handlers
  <2> QED
    BY <2>5, <2>6
<1>4. ASSUME NEW c \in Channels, DelChannel(t, c)
      PROVE  Handlers'
  <2>1. /\ chan[c].st = "live" /\ ~Uninstalls(c) /\ handlers' = handlers
        /\ call[t].pc = "idle"
    BY <1>4 DEF DelChannel, Usable, Uninstalls, At, intrVars
  <2>2. /\ \A u \in Tasks : u # t => call'[u] = call[u]
        /\ chan'[c].st \in {"dying", "free"}
        /\ call'[t].pc = "uninstall" /\ call'[t].obj = c <=> chan[c].intr
        /\ call'[t].pc = "uninstall" => call'[t].obj = c
        /\ \A e \in Channels : e # c => chan'[e] = chan[e]
    <3>1. CASE chan[c].intr
      BY <1>1, <1>4, <3>1 DEF DelChannel, Channel
    <3>2. CASE ~chan[c].intr
      BY <1>1, <1>4, <3>2 DEF DelChannel, FreeChannel
    <3> QED
      BY <3>1, <3>2
  <2>3. Uninstalls(c)' <=> chan[c].intr
    BY <2>1, <2>2 DEF Uninstalls, At
  <2>4. \A e : e # c => (Uninstalls(e)' <=> Uninstalls(e))
    BY <2>1, <2>2 DEF Uninstalls, At
  <2> QED
    BY <2>1, <2>2, <2>3, <2>4 DEF Handlers
<1>5. ASSUME UninstallIntr(t)
      PROVE  Handlers'
  <2>0. PICK c : c = call[t].obj
    OBVIOUS
  <2>1. /\ c \in Channels /\ chan[c].st = "dying" /\ Uninstalls(c)
        /\ chan' = chan /\ handlers' = [handlers EXCEPT ![c] = @ - 1]
    BY <1>1, <1>5, <2>0
    DEF UninstallIntr, At, GoodCall, Uninstalls, Inv, ObjectsOwned, ObjectOk
  <2>2. /\ call[t].pc = "uninstall" /\ call'[t].pc = "disableEvents"
        /\ \A u \in Tasks : u # t => call'[u] = call[u]
    BY <1>1, <1>5 DEF UninstallIntr, At, Goto, GoodCall, Call
  <2>3. ~Uninstalls(c)'
    BY <1>2, <2>0, <2>1, <2>2, GdmaAssumption DEF Uninstalls, At
  <2>4. \A e : e # c => (Uninstalls(e)' <=> Uninstalls(e))
    BY <2>0, <2>2 DEF Uninstalls, At
  <2>5. handlers[c] = 1
    BY <2>1 DEF Handlers
  <2> QED
    BY <1>1, <2>1, <2>3, <2>4, <2>5 DEF Handlers
<1> QED
  BY <1>3, <1>4, <1>5

LEMMA HandlersNext ==
    ASSUME "sameDirection" \notin CallerLiberties,
           "reregister" \notin CallerLiberties,
           Inv, Handlers, [Next]_vars
    PROVE  Handlers'
<1>1. CASE UNCHANGED vars
  BY <1>1 DEF vars, Handlers, Uninstalls, At
<1>2. ASSUME NEW t \in Tasks, Invoke(t)
      PROVE  Handlers'
  <2>1. PICK c \in Channels :
        \/ \E d \in Dirs, reserve \in BOOLEAN : NewChannel(t, c, d, reserve)
        \/ \E s \in Channels : NewSibling(t, c, s)
        \/ DelChannel(t, c)
        \/ InstallIntr(t, c)
        \/ \E id \in PeriphIds \cup {Unbound} : Connect(t, c, id)
        \/ Disconnect(t, c)
    BY <1>2 DEF Invoke, NewSiblingRejected
  <2> QED
    BY <2>1, HandlersQuietSteps, HandlersIntrSteps
<1>3. ASSUME NEW t \in Tasks, Step(t)
      PROVE  Handlers'
  BY <1>3, HandlersQuietSteps, HandlersIntrSteps DEF Step, Interrupt
<1> QED
  BY <1>1, <1>2, <1>3 DEF Next

\* The interrupt handler of a channel never runs for an object that was freed
\* (gdma_del_tx_channel frees the interrupt first), provided a caller registers
\* callbacks once (a second registration forgets the first handler,
\* gdma.c:757).
THEOREM NoStaleHandlerCorrect ==
    ASSUME "sameDirection" \notin CallerLiberties,
           "reregister" \notin CallerLiberties
    PROVE  Spec => []NoStaleHandler
<1>1. Init => Inv /\ Handlers
  <2>1. Init => Handlers
    BY DEF Init, Handlers, Uninstalls, At, Idle, FreeChannel
  <2> QED
    BY <2>1, InvInit
<1>2. Inv /\ Handlers /\ [Next]_vars => Inv' /\ Handlers'
  BY InvNext, HandlersNext
<1>3. Inv /\ Handlers => NoStaleHandler
  BY DEF Handlers, NoStaleHandler, Uninstalls, At, Inv, ObjectsOwned, ObjectOk
<1> QED
  BY <1>1, <1>2, <1>3, PTL DEF Spec

\* The assertions of the release functions (gdma.c:528, 585, of a count
\* that has just become zero) hold as long as nothing is released that was not
\* acquired.
THEOREM AssertsCorrect ==
    ASSUME "sameDirection" \notin CallerLiberties
    PROVE  Spec => []AssertsHold
<1>1. Init => Inv
  BY InvInit
<1>2. Inv /\ [Next]_vars => Inv'
  BY InvNext
<1>3. Inv => AssertsHold
  <2> SUFFICES ASSUME Inv, NEW t \in Tasks,
                      At(t, "releasePair") \/ At(t, "releasePairsGroup")
                                           \/ At(t, "releaseGroup")
               PROVE  /\ pairRef[call[t].pair] = 1 => pairUp[call[t].pair]
                      /\ groupRef[GroupOf(t)] = 1 => groupUp[GroupOf(t)]
    BY DEF AssertsHold
  <2>1. call[t].pair \in Pairs /\ GroupOf(t) \in Groups
    BY PairFacts DEF At, GroupOf, Inv, TypeInv, GoodCall
  <2> QED
    BY <2>1 DEF Inv, RefCounts, PairCounts, GroupCounts
<1> QED
  BY <1>1, <1>2, <1>3, PTL DEF Spec

=============================================================================
