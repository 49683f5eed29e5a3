------------------------------- MODULE RtcIsr --------------------------------
(***************************************************************************)
(* The handlers that share the interrupt of the RTC                        *)
(* (components/esp_hw_support/rtc_module.c): a list under a spinlock,      *)
(* which the interrupt routine of one core gives up around every handler   *)
(* it calls while tasks of the other core register and deregister, and the *)
(* masks that keep handlers in flash from being called without the cache.  *)
(***************************************************************************)
EXTENDS SequencesExt

CONSTANTS
    Handlers,
    Bits,       \* of the interrupt registers
    Mask,       \* of each handler: rtc_intr_mask
    Liberties,  \* "running": a handler is deregistered while it runs;
                \* "mixed": handlers in IRAM and in flash share a bit
    None

RtcAssumption ==
    /\ Mask \in [Handlers -> SUBSET Bits \ {{}}]
    /\ None \notin Handlers

VARIABLES
    list,    \* s_rtc_isr_handler_list
    iram,    \* which of them have RTC_INTR_FLAG_IRAM
    cache,   \* rtc_intr_cache
    ena,     \* RTC_CNTL_INT_ENA_REG
    raw,     \* the events that have happened
    saved,   \* rtc_intr_enabled
    asleep,  \* the cache is off, between noniram_disable and noniram_enable
    it,      \* the handler the interrupt routine has called, or None
    status,  \* what it has read
    due      \* history: to be called and, if it stays registered, not yet

vars == <<list, iram, cache, ena, raw, saved, asleep, it, status, due>>

\* rtc_isr_ensure_installed has cleared the registers.
Init ==
    /\ list = <<>> /\ iram = {} /\ cache = {}
    /\ ena = {} /\ raw = {}
    /\ saved = {} /\ asleep = FALSE
    /\ it = None /\ status = {} /\ due = {}

\* The order of the list, and those of its handlers that match what was read.
Before(g, h) == \E m, n \in DOMAIN list : m < n /\ list[m] = g /\ list[n] = h
Behind(h) == {g \in Range(list) : Before(h, g)}
Matching(handlers, bits) == {h \in handlers : Mask[h] \cap bits # {}}

\* rtc_isr_register, of handlers of one kind for a bit.
Register(h, flash) ==
    /\ ~asleep
    /\ h \notin Range(list)
    /\ \A g \in Range(list) : Mask[g] \cap Mask[h] # {} =>
          (g \in iram <=> ~flash) \/ "mixed" \in Liberties
    /\ IF flash THEN cache' = cache \ Mask[h] /\ iram' = iram \ {h}
                ELSE cache' = cache \cup Mask[h] /\ iram' = iram \cup {h}
    /\ list' = <<h>> \o list
    /\ UNCHANGED <<ena, raw, saved, asleep, it, status, due>>

\* rtc_isr_deregister.
Deregister(h) ==
    /\ ~asleep
    /\ it = h => "running" \in Liberties
    /\ \E n \in DOMAIN list : list[n] = h /\ list' = RemoveAt(list, n)
    /\ iram' = iram \ {h}
    /\ cache' = IF h \in iram THEN cache \ Mask[h] ELSE cache
    /\ due' = due \ {h}
    /\ UNCHANGED <<ena, raw, saved, asleep, it, status>>

\* External: drivers enable the bits of their handlers and disable them.
SetEnabled(b) ==
    /\ ~asleep
    /\ ena' = IF b \in ena THEN ena \ {b} ELSE ena \cup {b}
    /\ UNCHANGED <<list, iram, cache, raw, saved, asleep, it, status, due>>

\* External: an event.
Happen(b) ==
    /\ b \notin raw
    /\ raw' = raw \cup {b}
    /\ UNCHANGED <<list, iram, cache, ena, saved, asleep, it, status, due>>

\* The routine goes on to the first of the handlers that matches, and clears
\* what it has read when there is none.
CallFirst(handlers, bits) ==
    LET found == Matching(handlers, bits)
    IN  \/ /\ found = {}
           /\ it' = None /\ status' = {} /\ due' = {} /\ raw' = raw \ bits
        \/ \E h \in found :
              /\ \A g \in found \ {h} : Before(h, g)
              /\ it' = h /\ status' = bits /\ due' = found \ {h}
              /\ UNCHANGED raw

\* rtc_isr, up to the first handler.
IsrEnter ==
    /\ it = None
    /\ ena \cap raw # {}
    /\ CallFirst(Range(list), ena \cap raw)
    /\ UNCHANGED <<list, iram, cache, ena, saved, asleep>>

\* A handler has returned, and the lock been taken again.
IsrNext ==
    /\ it # None
    /\ it \in Range(list)
    /\ CallFirst(Behind(it), status)
    /\ UNCHANGED <<list, iram, cache, ena, saved, asleep>>

\* Mutant: every bit stays enabled.
EnabledAll == ena

EnabledInIram == ena \cap cache

\* rtc_isr_noniram_disable and rtc_isr_noniram_enable, of a task on the core of
\* the interrupt while the other core stands still.
NonIramDisable ==
    /\ ~asleep
    /\ it = None
    /\ saved' = saved \cup ena
    /\ ena' = EnabledInIram
    /\ asleep' = TRUE
    /\ UNCHANGED <<list, iram, cache, raw, it, status, due>>

NonIramEnable ==
    /\ asleep
    /\ it = None
    /\ ena' = saved
    /\ saved' = {}
    /\ asleep' = FALSE
    /\ UNCHANGED <<list, iram, cache, raw, it, status, due>>

Next ==
    \/ \E h \in Handlers : Deregister(h) \/ \E flash \in BOOLEAN : Register(h, flash)
    \/ \E b \in Bits : SetEnabled(b) \/ Happen(b)
    \/ IsrEnter \/ IsrNext \/ NonIramDisable \/ NonIramEnable

Spec == Init /\ [][Next]_vars

-----------------------------------------------------------------------------
\* Types of the list and the masks.
TypeOK ==
    /\ list \in Seq(Handlers) /\ IsInjective(list)
    /\ iram \subseteq Range(list)
    /\ {cache, ena, raw, saved, status} \subseteq SUBSET Bits
    /\ asleep \in BOOLEAN
    /\ it \in Handlers \cup {None}

\* The walk never stands on an item that was freed, and has in front of it each
\* of the handlers that matched when it began and are still registered, whatever
\* is registered and deregistered while it is in a handler: each is called once,
\* and none that came later is.
WalkComplete ==
    it # None =>
        /\ it \in Range(list)
        /\ due = Matching(Behind(it), status)

\* While the cache is off no handler in flash is called or can be.
CacheOffSafe ==
    asleep => /\ it # None => it \in iram
              /\ \A h \in Range(list) : Mask[h] \cap ena # {} => h \in iram
==============================================================================
