-------------------------------- MODULE LogCache --------------------------------
(***************************************************************************)
(* The log levels of the tags (components/log/log.c).  Levels that were set *)
(* are in a list, by the text of their tag; a cache remembers the level of  *)
(* the tags last looked up, by the address of the tag.  The cache is a      *)
(* binary heap in which an entry is younger than its parent, so that the    *)
(* entry to be replaced is the first one.  Every function runs under one    *)
(* lock; a list entry that finds no memory, after which the call has no     *)
(* effect, is left out.                                                    *)
(***************************************************************************)
EXTENDS Integers, Sequences

CONSTANTS
    Tags,         \* addresses of tags
    TextOf,       \* the text at each address
    Levels,
    Size,         \* TAG_CACHE_SIZE
    Generations,  \* 2 to the number of bits of an entry's generation
    MaxGeneration \* bound: how far s_log_cache_max_generation counts

Texts == {TextOf[t] : t \in Tags}
Unset == -1  \* a text that is not in the list

LogAssumption ==
    /\ Levels \subseteq Nat
    /\ Size \in Nat /\ Size % 2 = 1 /\ Size >= 3
    /\ Generations \in Nat \ {0}
    /\ MaxGeneration \in Nat

VARIABLES
    default,  \* esp_log_default_level
    list,     \* s_log_tags: the level set for each text
    cache,    \* the entries of s_log_cache in use
    newest    \* s_log_cache_max_generation

vars == <<default, list, cache, newest>>

Entry == [tag : Tags, level : Levels, generation : 0 .. Generations - 1]

Init ==
    /\ default \in Levels
    /\ list = [x \in Texts |-> Unset]
    /\ cache = <<>>
    /\ newest = 0

\* get_uncached_log_level, or else the default level.
LevelOf(text) == IF list[text] = Unset THEN default ELSE list[text]

\* The next generation, as an entry stores it.
Stamp == newest % Generations

-----------------------------------------------------------------------------
\* The child heap_bubble_down continues with.
OlderChild(heap, i) ==
    IF heap[2 * i].generation < heap[2 * i + 1].generation THEN 2 * i
                                                           ELSE 2 * i + 1

\* heap_bubble_down: the entry put at an index sinks to a leaf, and the older
\* child of each place it passes moves up.
BubbleDown(heap, index) ==
    LET Passed[i \in 1 .. Size] ==
            \/ i = index
            \/ /\ i > index
               /\ Passed[i \div 2]
               /\ i = OlderChild(heap, i \div 2)
    IN  [i \in 1 .. Size |->
            IF ~Passed[i] THEN heap[i]
            ELSE IF 2 * i > Size THEN heap[index]
            ELSE heap[OlderChild(heap, i)]]

-----------------------------------------------------------------------------
\* esp_log_level_get and esp_log_writev, a tag in the cache: its entry becomes
\* the youngest, once the cache is full.
Hit(t) ==
    \E i \in 1 .. Len(cache) :
        /\ cache[i].tag = t
        /\ \A j \in 1 .. i - 1 : cache[j].tag # t
        /\ IF Len(cache) = Size
           THEN /\ newest < MaxGeneration
                /\ cache' = BubbleDown([cache EXCEPT ![i].generation = Stamp],
                                       i)
                /\ newest' = newest + 1
           ELSE UNCHANGED <<cache, newest>>
        /\ UNCHANGED <<default, list>>

\* The same, a tag that is not there: add_to_cache replaces the first entry of
\* a full cache.
Miss(t) ==
    LET entry == [tag |-> t, level |-> LevelOf(TextOf[t]),
                  generation |-> Stamp]
    IN  /\ \A i \in 1 .. Len(cache) : cache[i].tag # t
        /\ newest < MaxGeneration
        /\ cache' = IF Len(cache) < Size THEN Append(cache, entry)
                    ELSE BubbleDown([cache EXCEPT ![1] = entry], 1)
        /\ newest' = newest + 1
        /\ UNCHANGED <<default, list>>

\* Mutant: a level that replaces another one is not told to the cache.
SetUncached(x, level) ==
    /\ list' = [list EXCEPT ![x] = level]
    /\ cache' = [i \in 1 .. Len(cache) |->
                    IF /\ TextOf[cache[i].tag] = x
                       /\ list[x] = Unset
                    THEN [cache[i] EXCEPT !.level = level] ELSE cache[i]]
    /\ UNCHANGED <<default, newest>>

\* esp_log_level_set; the first entry of the text in the cache is updated.
Set(x, level) ==
    /\ list' = [list EXCEPT ![x] = level]
    /\ cache' = [i \in 1 .. Len(cache) |->
                    IF /\ TextOf[cache[i].tag] = x
                       /\ \A j \in 1 .. i - 1 : TextOf[cache[j].tag] # x
                    THEN [cache[i] EXCEPT !.level = level] ELSE cache[i]]
    /\ UNCHANGED <<default, newest>>

\* esp_log_level_set of "*".
SetAll(level) ==
    /\ default' = level
    /\ list' = [x \in Texts |-> Unset]
    /\ cache' = <<>>
    /\ newest' = 0

Next ==
    \/ \E t \in Tags : Hit(t) \/ Miss(t)
    \/ \E x \in Texts, level \in Levels : Set(x, level)
    \/ \E level \in Levels : SetAll(level)

Spec == Init /\ [][Next]_vars

-----------------------------------------------------------------------------
\* Types of the log levels.
TypeOK ==
    /\ default \in Levels
    /\ list \in [Texts -> Levels \cup {Unset}]
    /\ cache \in Seq(Entry)
    /\ Len(cache) <= Size
    /\ newest \in 0 .. MaxGeneration

\* The cache changes no answer: whatever was set, looked up, evicted and reset
\* before, an entry holds the level its tag's text has now.
CacheAgrees ==
    \A i \in 1 .. Len(cache) : cache[i].level = LevelOf(TextOf[cache[i].tag])

\* The assertion of the lookup: a parent is older than its children, so that
\* the first entry is the one not used for the longest time.
HeapOrder ==
    \A i \in 2 .. Len(cache) :
        cache[i \div 2].generation < cache[i].generation
=============================================================================
