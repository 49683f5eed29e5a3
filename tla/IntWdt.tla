-------------------------------- MODULE IntWdt --------------------------------
(***************************************************************************)
(* The interrupt watchdog of two cores (components/esp_system/int_wdt.c).  *)
(* The tick hook of the second core sets a flag; that of the first feeds    *)
(* the watchdog when it finds the flag set, and clears the flag after it.   *)
(* A core that does not serve interrupts any more must show as a watchdog   *)
(* that is not fed, and nothing else must.                                 *)
(*                                                                         *)
(* Time goes by in tick periods.  A core that is well has its tick once in  *)
(* every period, at any time of it, and finishes the hook in that period.   *)
(***************************************************************************)
EXTENDS Naturals

CONSTANT MaxPeriods  \* bound: periods that are counted

Cores == {0, 1}

VARIABLES
    ticked,   \* int_wdt_cpu1_ticked
    unfed,    \* periods that began since the watchdog was fed
    hook,     \* where the hook of the first core is
    due,      \* cores that have not had their tick of this period
    well,     \* cores that serve interrupts
    hung      \* history: periods that began since each core was last well

vars == <<ticked, unfed, hook, due, well, hung>>

\* The first feed, after which the timeouts are those of operation.
Init ==
    /\ ticked = FALSE
    /\ unfed = 0
    /\ hook = "out"
    /\ due = Cores
    /\ well = Cores
    /\ hung = [c \in Cores |-> 0]

-----------------------------------------------------------------------------
\* tick_hook of the second core.
TickSecond ==
    /\ 1 \in due \cap well
    /\ ticked' = TRUE
    /\ due' = due \ {1}
    /\ UNCHANGED <<unfed, hook, well, hung>>

\* tick_hook of the first core: it looks at the flag, ...
TickFirst ==
    /\ 0 \in due \cap well
    /\ hook' = IF ticked THEN "feed" ELSE "out"
    /\ due' = due \ {0}
    /\ UNCHANGED <<ticked, unfed, well, hung>>

\* ... feeds the watchdog, ...
Feed ==
    /\ hook = "feed"
    /\ 0 \in well
    /\ unfed' = 0
    /\ hook' = "clear"
    /\ UNCHANGED <<ticked, due, well, hung>>

\* Mutant: the flag is left set.
ClearForgotten ==
    /\ hook = "clear"
    /\ 0 \in well
    /\ hook' = "out"
    /\ UNCHANGED <<ticked, unfed, due, well, hung>>

\* ... and clears the flag.
Clear ==
    /\ hook = "clear"
    /\ 0 \in well
    /\ ticked' = FALSE
    /\ hook' = "out"
    /\ UNCHANGED <<unfed, due, well, hung>>

\* A core gets stuck with its interrupts disabled, between two accesses.
Hang(c) ==
    /\ c \in well
    /\ well' = well \ {c}
    /\ UNCHANGED <<ticked, unfed, hook, due, hung>>

\* A tick period ends and the next one begins.
Period ==
    /\ due \cap well = {}
    /\ hook = "out" \/ 0 \notin well
    /\ unfed < MaxPeriods
    /\ unfed' = unfed + 1
    /\ due' = Cores
    /\ hung' = [c \in Cores |-> IF c \in well THEN 0 ELSE hung[c] + 1]
    /\ UNCHANGED <<ticked, hook, well>>

Next ==
    \/ TickSecond \/ TickFirst \/ Feed \/ Clear
    \/ \E c \in Cores : Hang(c)
    \/ Period

Spec == Init /\ [][Next]_vars

-----------------------------------------------------------------------------
\* Types of the state of the interrupt watchdog.
TypeOK ==
    /\ ticked \in BOOLEAN
    /\ unfed \in Nat
    /\ hook \in {"out", "feed", "clear"}
    /\ due \subseteq Cores
    /\ well \subseteq Cores
    /\ hung \in [Cores -> Nat]

\* A core that hangs cannot be hidden by the other one: the watchdog has been
\* fed for at most two periods after it.  And while both are well it is fed
\* every other period at worst, although a tick of the second core
\* between the look at the flag and its clearing is lost: no more than two
\* periods begin without a feed.
HangsShow ==
    /\ \A c \in Cores : hung[c] <= unfed + 1
    /\ well = Cores => unfed <= 2
=============================================================================
