----------------------------- MODULE EtmChannels -----------------------------
(***************************************************************************)
(* The driver of the event task matrix                                     *)
(* (components/esp_hw_support/esp_etm.c): tasks create, connect, enable    *)
(* and delete channels of groups that exist while somebody refers to them. *)
(* References are counted under a mutex, the channels of a group given out *)
(* under its spinlock, and the registers written under neither.            *)
(***************************************************************************)
EXTENDS Integers, FiniteSets

CONSTANTS
    Tasks,
    Handles,     \* esp_etm_channel_handle_t
    GroupCount,  \* SOC_ETM_GROUPS
    ChansPerGroup,  \* SOC_ETM_CHANNELS_PER_GROUP
    Events,      \* what a channel may be connected to
    Liberties,   \* "noMemory": the allocation of a group may fail
    None         \* no event; not a handle, or not a call

Groups == 0 .. GroupCount - 1
Chans  == 0 .. ChansPerGroup - 1

Chan == [g : Groups, c : Chans, ena : BOOLEAN, ev : Events \cup {None}]

EtmAssumption ==
    /\ GroupCount \in Nat \ {0} /\ ChansPerGroup \in Nat \ {0}
    /\ IsFiniteSet(Handles) /\ IsFiniteSet(Tasks)
    /\ None \notin Events /\ None \notin Handles /\ None \notin Chan

VARIABLES
    up,     \* groups[] is set, and the group has its clock
    ref,    \* group_ref_counts
    slot,   \* per group and channel, the handle in chans[]
    reg,    \* per group and channel, the event in its register
    ena,    \* per group and channel, the channel is enabled
    chan,   \* per handle, its group and channel, event and state, or None
    call    \* per task: what it is doing, on which handle, and in which group

vars == <<up, ref, slot, reg, ena, chan, call>>

NoCall == [pc |-> "none", h |-> None, g |-> 0]

Init ==
    /\ up = [g \in Groups |-> FALSE]
    /\ ref = [g \in Groups |-> 0]
    /\ slot = [g \in Groups |-> [c \in Chans |-> None]]
    /\ reg = [g \in Groups |-> [c \in Chans |-> None]]
    /\ ena = [g \in Groups |-> [c \in Chans |-> FALSE]]
    /\ chan = [h \in Handles |-> None]
    /\ call = [t \in Tasks |-> NoCall]

Goto(t, pc) == call' = [call EXCEPT ![t].pc = pc]
\* Handles that are nobody's, and those that are created and in no call.
Spare(h) == chan[h] = None /\ \A t \in Tasks : call[t].h # h
Live(h)  == chan[h] # None /\ \A t \in Tasks : call[t].h # h

-----------------------------------------------------------------------------
\* Mutant: every acquisition resets the group.
AlwaysNew(g) == TRUE

\* A group that is made is reset.
NewGroup(g) == ~up[g]

\* etm_acquire_group_handle, and where the call goes on.
AcquireGroup(t, h, g, pc) ==
    /\ up' = [up EXCEPT ![g] = TRUE]
    /\ ref' = [ref EXCEPT ![g] = @ + 1]
    /\ IF NewGroup(g)
       THEN /\ reg' = [reg EXCEPT ![g] = [c \in Chans |-> None]]
            /\ ena' = [ena EXCEPT ![g] = [c \in Chans |-> FALSE]]
            /\ slot' = [slot EXCEPT ![g] = [c \in Chans |-> None]]
       ELSE UNCHANGED <<reg, ena, slot>>
    /\ call' = [call EXCEPT ![t] = [pc |-> pc, h |-> h, g |-> g]]

\* Mutant: the last reference does not take the group with it.
StaysUp(g) == TRUE

\* Somebody else refers to the group.
Shared(g) == ref[g] > 1

\* etm_release_group_handle.
ReleaseGroup(g) ==
    /\ ref' = [ref EXCEPT ![g] = @ - 1]
    /\ up' = [up EXCEPT ![g] = Shared(g)]

-----------------------------------------------------------------------------
\* esp_etm_new_channel looks for a channel in one group after the other, and
\* esp_etm_dump (for no handle) goes through them all.
Start(t, h) ==
    /\ call[t] = NoCall
    /\ h # None => Spare(h)
    /\ AcquireGroup(t, h, 0, IF h = None THEN "giveUp" ELSE "search")
    /\ UNCHANGED chan

NextGroup(t) ==
    LET g == call[t].g + 1
    IN  /\ call[t].pc = "next"
        /\ AcquireGroup(t, call[t].h, g,
                        IF call[t].h = None THEN "giveUp" ELSE "search")
        /\ UNCHANGED chan

\* There is no memory for a group: the call fails.
NoMemory(t) ==
    /\ "noMemory" \in Liberties
    /\ call[t].pc = "next" /\ ~up[call[t].g + 1]
    /\ call' = [call EXCEPT ![t] = NoCall]
    /\ UNCHANGED <<up, ref, slot, reg, ena, chan>>

\* etm_chan_register_to_group takes the first channel that is free.
Search(t) ==
    LET g == call[t].g
        free == {c \in Chans : slot[g][c] = None}
    IN  /\ call[t].pc = "search"
        /\ IF free = {}
           THEN Goto(t, "giveUp") /\ UNCHANGED <<slot, chan>>
           ELSE LET c == CHOOSE c \in free : \A d \in free : c <= d
                IN  /\ slot' = [slot EXCEPT ![g][c] = call[t].h]
                    /\ chan' = [chan EXCEPT ![call[t].h] =
                                  [g |-> g, c |-> c, ev |-> None, ena |-> FALSE]]
                    /\ call' = [call EXCEPT ![t] = NoCall]
        /\ UNCHANGED <<up, ref, reg, ena>>

\* The group is released, and the next one, if there is any, looked at.
GiveUp(t) ==
    /\ call[t].pc = "giveUp"
    /\ ReleaseGroup(call[t].g)
    /\ IF call[t].g + 1 \in Groups THEN Goto(t, "next")
                                   ELSE call' = [call EXCEPT ![t] = NoCall]
    /\ UNCHANGED <<slot, reg, ena, chan>>

\* esp_etm_channel_connect.
Connect(h, e) ==
    /\ Live(h)
    /\ reg' = [reg EXCEPT ![chan[h].g][chan[h].c] = e]
    /\ chan' = [chan EXCEPT ![h].ev = e]
    /\ UNCHANGED <<up, ref, slot, ena, call>>

\* esp_etm_channel_enable, esp_etm_channel_disable.
SetEnabled(h, enabled) ==
    /\ Live(h)
    /\ chan[h].ena # enabled
    /\ ena' = [ena EXCEPT ![chan[h].g][chan[h].c] = enabled]
    /\ chan' = [chan EXCEPT ![h].ena = enabled]
    /\ UNCHANGED <<up, ref, slot, reg, call>>

\* Mutant: the channel is given up before its registers are cleared.
GivenUpFirst(t) == slot' = [slot EXCEPT ![call'[t].g][chan[call'[t].h].c] = None]

\* It is given up after that.
KeptWhileCleared(t) == UNCHANGED slot

\* esp_etm_del_channel: the channel is disconnected,
Delete(t, h) ==
    /\ call[t] = NoCall
    /\ Live(h)
    /\ ~chan[h].ena
    /\ call' = [call EXCEPT ![t] = [pc |-> "clear", h |-> h, g |-> chan[h].g]]
    /\ KeptWhileCleared(t)
    /\ UNCHANGED <<up, ref, reg, ena, chan>>

Disconnect(t) ==
    /\ call[t].pc = "clear"
    /\ reg' = [reg EXCEPT ![call[t].g][chan[call[t].h].c] = None]
    /\ Goto(t, "unregister")
    /\ UNCHANGED <<up, ref, slot, ena, chan>>

\* then etm_chan_unregister_from_group gives it up,
Unregister(t) ==
    /\ call[t].pc = "unregister"
    /\ slot' = [slot EXCEPT ![call[t].g][chan[call[t].h].c] = None]
    /\ Goto(t, "release")
    /\ UNCHANGED <<up, ref, reg, ena, chan>>

\* and releases the group.
Release(t) ==
    /\ call[t].pc = "release"
    /\ ReleaseGroup(call[t].g)
    /\ chan' = [chan EXCEPT ![call[t].h] = None]
    /\ call' = [call EXCEPT ![t] = NoCall]
    /\ UNCHANGED <<slot, reg, ena>>

Next ==
    \/ \E t \in Tasks :
          \/ \E h \in Handles \cup {None} : Start(t, h)
          \/ NextGroup(t) \/ NoMemory(t) \/ Search(t) \/ GiveUp(t)
          \/ \E h \in Handles : Delete(t, h)
          \/ Disconnect(t) \/ Unregister(t) \/ Release(t)
    \/ \E h \in Handles : \/ \E e \in Events \cup {None} : Connect(h, e)
                          \/ \E enabled \in BOOLEAN : SetEnabled(h, enabled)

Spec == Init /\ [][Next]_vars

-----------------------------------------------------------------------------
\* Types of the groups and of the channels.
TypeOK ==
    /\ up \in [Groups -> BOOLEAN]
    /\ ref \in [Groups -> Nat]
    /\ slot \in [Groups -> [Chans -> Handles \cup {None}]]
    /\ reg \in [Groups -> [Chans -> Events \cup {None}]]
    /\ ena \in [Groups -> [Chans -> BOOLEAN]]
    /\ \A h \in Handles : chan[h] \in Chan \cup {None}
    /\ \A t \in Tasks : call[t].h \in Handles \cup {None} /\ call[t].g \in Groups

\* A channel keeps its place, its connection and its state in the registers of a
\* group that is up, whatever others create, delete or look at; and a channel
\* that is free neither listens nor is enabled.
ChannelsKept ==
    /\ \A h \in Handles : Live(h) =>
          LET k == chan[h]
          IN  /\ up[k.g]
              /\ slot[k.g][k.c] = h
              /\ reg[k.g][k.c] = k.ev
              /\ ena[k.g][k.c] = k.ena
    /\ \A g \in Groups, c \in Chans :
          up[g] /\ slot[g][c] = None => reg[g][c] = None /\ ~ena[g][c]

\* The count of a group is that of its channels and of the calls that look for
\* one, or at all of them; a group is there while that is not 0.
GroupsCounted ==
    \A g \in Groups :
        /\ ref[g] = Cardinality({h \in Handles : chan[h] # None /\ chan[h].g = g})
                    + Cardinality({t \in Tasks : /\ call[t].g = g
                                                 /\ call[t].pc \in {"search", "giveUp"}})
        /\ up[g] <=> ref[g] > 0
==============================================================================
