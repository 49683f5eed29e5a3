------------------------------ MODULE Retention ------------------------------
(***************************************************************************)
(* The lists by which the hardware saves and restores registers over a     *)
(* sleep (components/esp_hw_support/sleep_retention.c,                     *)
(* port/regdma_link.c): each entry of the hardware follows a chain of      *)
(* nodes through all priorities, nodes may be on several chains, and       *)
(* modules add and remove their nodes while the hardware may be told to    *)
(* follow the chains.                                                      *)
(***************************************************************************)
EXTENDS Naturals, SequencesExt

CONSTANTS
    Entries,    \* of the hardware, numbered from 0
    Calls,      \* the calls that create nodes, each of a module
    ModuleOf,
    Lowest,     \* SLEEP_RETENTION_REGDMA_LINK_LOWEST_PRIORITY
    PriorityOf,
    Table,      \* of each call: the owners of its nodes, as sets of entries
    Liberties,  \* "noMemory": allocations fail; "alone": with a node alone
                \* on some chain of its list; "crossed": see Crossed
    None        \* NULL

RetentionAssumption ==
    /\ DOMAIN ModuleOf = Calls
    /\ PriorityOf \in [Calls -> 0 .. Lowest]
    /\ \A c \in Calls : Table[c] \in Seq(SUBSET Entries \ {{}})

VARIABLES
    node,    \* the nodes there are: links, whether they branch, ref
    list,    \* of each priority: heads, tail, entries_bitmap, runtime_bitmap
    highpri,
    modules,
    addr,    \* what the hardware follows: pau_regdma_set_entry_link_addr
    op,      \* the removal under way, see Idle
    created  \* history: the calls that have succeeded, of modules not removed

vars == <<node, list, highpri, modules, addr, op, created>>

\* A node is named by its call and its place: from the node in front that
\* bonds the chains together, at 0, to the one behind its table.
FinalDefault == <<None, 0>>
Behind(c)   == Len(Table[c]) + 1

Nowhere == [e \in Entries |-> None]
NoList  == [heads |-> Nowhere, tail |-> None, entries |-> {}, runtime |-> {}]
Idle    == [module |-> None, stage |-> "idle",
            heads |-> Nowhere, join |-> FALSE]

Init ==
    /\ node = <<>>
    /\ list = [p \in 0 .. Lowest |-> NoList]
    /\ highpri = None
    /\ modules = {}
    /\ addr = Nowhere
    /\ op = Idle
    /\ created = {}

\* The nodes of entry e from n on, to NULL or to a node that was freed.
Walk(nodes, n, e) ==
    LET Nth[i \in Nat] == IF i = 0 THEN n ELSE nodes[Nth[i - 1]].next[e]
        End[i \in Nat] == IF Nth[i] \in DOMAIN nodes THEN End[i + 1] ELSE i
    IN  [i \in 1 .. End[0] |-> Nth[i - 1]]

\* The part of it up to the tail of a list.
UpTo(walk, tail) ==
    IF tail \notin Range(walk) THEN walk
    ELSE SubSeq(walk, 1, CHOOSE i \in DOMAIN walk : walk[i] = tail)
Chain(p, e) == UpTo(Walk(node, list[p].heads[e], e), list[p].tail)

\* sleep_retention_entries_join: the tail of each list is linked to the heads
\* of the next, and the hardware is told the first.
Used(lists)       == {p \in 0 .. Lowest : lists[p].entries # {}}
After(lists, p)   == Min({q \in Used(lists) : q > p})
Joined(nodes, lists) ==
    [n \in DOMAIN nodes |->
        IF \E p, q \in Used(lists) : lists[p].tail = n /\ q > p
        THEN [nodes[n] EXCEPT !.next =
                 lists[After(lists, CHOOSE p \in Used(lists) :
                                       lists[p].tail = n)].heads]
        ELSE nodes[n]]
Join(nodes, lists) ==
    /\ node' = Joined(nodes, lists)
    /\ highpri' = Min(Used(lists))
    /\ addr' = lists[Min(Used(lists))].heads

-----------------------------------------------------------------------------
\* Mutant: only what the node shares with the one before decides.
BranchShared(owner, runtime) == owner \cap runtime = {}

\* sleep_retention_entries_require_branch.
RequireBranch(owner, runtime) ==
    owner \ runtime # {} /\ owner \cap runtime # {}

\* sleep_retention_entries_try_create and sleep_retention_entries_update: a
\* node goes to the front of the list s.list of its priority.
Insert(s, name, owner, bonding) ==
    LET branch == bonding \/ RequireBranch(owner, s.list.runtime)
        heads  == s.list.heads
    IN  [node |-> (name :> [ref |-> {},
                            next |-> [e \in Entries |->
                                IF ~branch THEN heads[Min(owner)]
                                ELSE IF e \in owner THEN heads[e] ELSE None]])
                  @@ s.node,
         list |-> [heads   |-> [e \in Entries |-> IF e \in owner THEN name
                                                                ELSE heads[e]],
                   tail    |-> IF s.list.entries = {} THEN name
                                                      ELSE s.list.tail,
                   entries |-> s.list.entries \cup owner,
                   runtime |-> owner]]

\* sleep_retention_entries_create_wrapper, from the node behind the table to
\* the one in front, of which the first `count' are created.
InsertTable(s, c, count) ==
    FoldLeft(LAMBDA t, i :
                LET k == Behind(c) - i + 1
                    bonding == k \in {0, Behind(c)}
                IN  Insert(t, <<c, k>>,
                           IF bonding THEN Entries ELSE Table[c][k], bonding),
             s, [i \in 1 .. count |-> i])

\* sleep_retention_entries_check_and_create_final_default: a list is never
\* without an end, from the first call on.
Ended ==
    LET s == Insert([node |-> node, list |-> list[Lowest]], FinalDefault,
                    Entries, FALSE)
    IN  IF list[Lowest].entries # {} THEN <<node, list>>
        ELSE <<s.node, [list EXCEPT ![Lowest] = s.list]>>

With(c, count) ==
    LET p == PriorityOf[c]
        s == InsertTable([node |-> Ended[1], list |-> Ended[2][p]], c, count)
    IN  <<s.node, [Ended[2] EXCEPT ![p] = s.list]>>

\* Mutant: no node bonds the chains together in front of the table.
AllUnbonded(c) == Behind(c)

\* A node in front of the table, its own, and the one behind it.
All(c) == Behind(c) + 1

\* RequireBranch looks at no more than the owner of the node behind: a node
\* that shares no entry with it gets one successor, that of its first entry.
\* The table is crossed if another of its entries goes on elsewhere: its chain
\* then misses nodes, or passes some that are for others.
NextInTable(c, k, e) ==
    Min({i \in k + 1 .. Len(Table[c]) : e \in Table[c][i]} \cup {Behind(c)})
Crossed(c) ==
    \E k \in 1 .. Len(Table[c]) - 1 :
        /\ Table[c][k] \cap Table[c][k + 1] = {}
        /\ \E e, f \in Table[c][k] : NextInTable(c, k, e) # NextInTable(c, k, f)

\* sleep_retention_entries_create.
Create(c) ==
    LET all == With(c, All(c))
    IN  /\ op = Idle
        /\ c \notin created
        /\ Crossed(c) => "crossed" \in Liberties
        /\ modules' = modules \cup {ModuleOf[c]}
        /\ created' = created \cup {c}
        /\ Join(all[1], all[2])
        /\ list' = all[2]
        /\ UNCHANGED op

\* regdma_link_stats: every node learns on which chains it is.
Counted(nodes, heads) ==
    [n \in DOMAIN nodes |->
        [nodes[n] EXCEPT !.ref = @ \cup
            {e \in Entries : n \in Range(Walk(nodes, heads[e], e))}]]

Removing(m) == [Idle EXCEPT !.module = m, !.stage = "find"]

\* sleep_retention_entries_destroy, up to the search for what to remove.
StartRemoval(m, nodes, lists) ==
    /\ node' = Counted(Joined(nodes, lists), lists[Min(Used(lists))].heads)
    /\ highpri' = Min(Used(lists))
    /\ addr' = lists[Min(Used(lists))].heads
    /\ list' = lists
    /\ op' = Removing(m)
    /\ UNCHANGED <<modules, created>>

Destroy(m) ==
    /\ op = Idle
    /\ m \in modules
    /\ StartRemoval(m, node, list)

\* An allocation fails, and all the module has is removed.
CreateFails(c) ==
    /\ "noMemory" \in Liberties
    /\ op = Idle
    /\ c \notin created
    /\ Crossed(c) => "crossed" \in Liberties
    /\ modules # {}
    /\ \E count \in 0 .. Behind(c) :
          LET some == With(c, count)
              l    == some[2][PriorityOf[c]]
          IN  /\ count > 0 /\ (\E e \in Entries : l.heads[e] = l.tail)
                     => "alone" \in Liberties
              /\ StartRemoval(ModuleOf[c], some[1], some[2])

-----------------------------------------------------------------------------
\* sleep_retention_entries_get_destroy_context, of the nodes of the module in
\* one list: the first and the last of them in each chain, and the nodes
\* around them.
OfModule(n) ==
    n # None /\ n # FinalDefault /\ ModuleOf[n[1]] = op.module
FirstOf(p, e) ==
    LET c == Chain(p, e)
        found == {i \in 1 .. Len(c) - 1 : OfModule(c[i])}
    IN  IF found = {} THEN None ELSE c[Min(found)]
LastOf(p, e) ==
    LET c == Chain(p, e)
        found == {i \in DOMAIN c : OfModule(c[i]) /\
                                   (i < Len(c) => ~OfModule(c[i + 1]))}
    IN  IF found = {} THEN None ELSE c[Min(found)]
NextHead(p, e) ==
    IF LastOf(p, e) \in {None, list[p].tail} THEN None
    ELSE node[LastOf(p, e)].next[e]
PrevTail(p, e) ==
    LET c == Chain(p, e)
        found == {i \in 1 .. Len(c) - 1 : c[i + 1] = FirstOf(p, e)}
    IN  IF FirstOf(p, e) = None \/ found = {} THEN None ELSE c[Min(found)]

Exists(p) == list[p].entries # {} /\ \E e \in Entries : FirstOf(p, e) # None

\* Mutant: the list keeps its tail.
TailKept(p) == list[p].tail

\* The tail of a list whose last nodes are removed.
TailAfter(p) == PrevTail(p, 0)

\* sleep_retention_entries_dettach.
Detach(p) ==
    LET first  == [e \in Entries |-> FirstOf(p, e)]
        last   == LastOf(p, 0)
        next   == [e \in Entries |-> NextHead(p, e)]
        isHead == first = list[p].heads
        isTail == last = list[p].tail
        nodes  == IF isHead \/ isTail THEN node
                  ELSE [node EXCEPT ![PrevTail(p, 0)].next = next]
        heads  == IF ~isHead THEN list[p].heads
                  ELSE IF isTail THEN Nowhere ELSE next
        tail   == IF ~isTail THEN list[p].tail
                  ELSE IF isHead THEN None ELSE TailAfter(p)
        on     == UNION {Range(UpTo(Walk(nodes, heads[e], e), tail)) :
                            e \in Entries}
    IN  /\ op.stage = "find"
        /\ Exists(p)
        /\ \A q \in 0 .. p - 1 : ~Exists(q)
        /\ list' = [list EXCEPT ![p] =
               [heads   |-> heads,
                tail    |-> tail,
                entries |-> UNION {nodes[n].ref : n \in on},
                runtime |-> UNION {nodes[n].ref : n \in Range(heads) \ {None}}]]
        /\ node' = [nodes EXCEPT ![last].next = Nowhere]
        /\ op' = [op EXCEPT !.stage = "detached", !.heads = first,
                            !.join = isHead \/ isTail]
        /\ UNCHANGED <<highpri, modules, addr, created>>

\* The lists are joined again, and the nodes no chain holds any more freed.
Free ==
    LET nodes == IF op.join THEN Joined(node, list) ELSE node
        left(n) == nodes[n].ref \
                      {e \in Entries : n \in Range(Walk(nodes, op.heads[e], e))}
        touched == UNION {Range(Walk(nodes, op.heads[e], e)) : e \in Entries}
        freed   == {n \in touched : left(n) = {}}
    IN  /\ op.stage = "detached"
        /\ node' = [n \in DOMAIN nodes \ freed |->
                       [nodes[n] EXCEPT !.ref = left(n)]]
        /\ IF op.join
           THEN /\ highpri' = Min(Used(list))
                /\ addr' = list[Min(Used(list))].heads
           ELSE UNCHANGED <<highpri, addr>>
        /\ op' = Removing(op.module)
        /\ UNCHANGED <<list, modules, created>>

\* Nothing is left of the module; with the last one the final default goes.
Removed ==
    /\ op.stage = "find"
    /\ \A p \in 0 .. Lowest : ~Exists(p)
    /\ modules' = modules \ {op.module}
    /\ created' = {c \in created : ModuleOf[c] # op.module}
    /\ IF modules' = {}
       THEN /\ node' = <<>>
            /\ list' = [p \in 0 .. Lowest |-> NoList]
            /\ highpri' = None
            /\ addr' = Nowhere
       ELSE UNCHANGED <<node, list, highpri, addr>>
    /\ op' = Idle

Next ==
    \/ \E c \in Calls : Create(c) \/ CreateFails(c)
    \/ \E m \in Range(ModuleOf) : Destroy(m)
    \/ \E p \in 0 .. Lowest : Detach(p)
    \/ Free \/ Removed

Spec == Init /\ [][Next]_vars

-----------------------------------------------------------------------------
\* Types of the lists; a list has a tail and heads, or none of them.
TypeOK ==
    /\ \A n \in DOMAIN node : node[n].ref \subseteq Entries
    /\ \A p \in 0 .. Lowest :
          /\ list[p].entries \subseteq Entries
          /\ list[p].runtime \subseteq list[p].entries
          /\ list[p].entries = {} <=> list[p].tail = None
    /\ highpri \in 0 .. Lowest \cup {None}
    /\ modules \subseteq Range(ModuleOf)
    /\ op.module \in Range(ModuleOf) \cup {None}
    /\ created \subseteq Calls

\* The assertions of the removal: what is removed ends, and what is before it
\* ends, with one node in all chains; and before the final default is freed the
\* list it is in is the first.
RetentionAsserts ==
    op.stage = "find" =>
        /\ \A p \in Used(list), e \in Entries :
              LastOf(p, e) = LastOf(p, 0) /\ PrevTail(p, e) = PrevTail(p, 0)
        /\ modules = {op.module} /\ (\A p \in 0 .. Lowest : ~Exists(p))
              => highpri = Lowest

\* The nodes of the calls' tables that are for an entry.
NodesFor(calls, e) ==
    UNION {{<<c, k>> : k \in {k \in DOMAIN Table[c] : e \in Table[c][k]}} :
              c \in calls}

\* What the hardware follows from each entry: every node created for that entry,
\* once, those of a call in the order of its table and the calls in the order
\* of their priorities, none that is for another, and the final default last.
\* It may not be told to while nodes have been taken out and the rest is not
\* joined.
ChainsComplete ==
    op.stage # "detached" /\ addr # Nowhere =>
        \A e \in Entries :
            LET walk == Walk(node, addr[e], e)
                real == SelectSeq(walk, LAMBDA n : n # FinalDefault /\
                                                n[2] \in DOMAIN Table[n[1]])
            IN  /\ walk # <<>> /\ node[walk[Len(walk)]].next[e] = None
                /\ walk[Len(walk)] = FinalDefault
                /\ NodesFor({c \in created : ModuleOf[c] # op.module}, e)
                       \subseteq Range(real)
                /\ Range(real) \subseteq
                       NodesFor({c \in Calls : c \in created \/
                                               ModuleOf[c] = op.module}, e)
                /\ \A i, j \in DOMAIN real : i < j =>
                      /\ PriorityOf[real[i][1]] <= PriorityOf[real[j][1]]
                      /\ real[i][1] = real[j][1] => real[i][2] < real[j][2]

\* Which tables the decision about one owner links right: those that are not
\* crossed, and no others.
CrossedFail == ChainsComplete <=> \A c \in created : ~Crossed(c)

\* Nothing is leaked or freed too early: between the calls there are the nodes
\* they created, with those that bond them, and the final default.
NoLeak ==
    op = Idle => DOMAIN node =
        (IF modules = {} THEN {} ELSE {FinalDefault}) \cup
        UNION {{<<c, k>> : k \in 0 .. Behind(c)} : c \in created}
==============================================================================
