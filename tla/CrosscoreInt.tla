----------------------------- MODULE CrosscoreInt -----------------------------
(***************************************************************************)
(* The cross-core interrupt (components/esp_system/crosscore_int.c): a core *)
(* is asked to yield, to switch its frequency, to print its backtrace or to *)
(* abort by a bit in its word of reason and a poke of its interrupt line.   *)
(* The word is changed under a spinlock and the line outside of it, by any  *)
(* task or handler of any core.                                            *)
(***************************************************************************)
EXTENDS FiniteSets

CONSTANTS
    Cores,
    Senders,    \* tasks and handlers that send
    Reasons,    \* REASON_YIELD and the other bits
    NoCore

CrosscoreAssumption == NoCore \notin Cores

VARIABLES
    reason,  \* the bits of each core
    poked,   \* cores whose interrupt line is set
    sender,  \* the core each sender has marked and not poked yet
    isr,     \* esp_crosscore_isr of each core, see Isr
    asked    \* history: requests to each core that it has not served yet

vars == <<reason, poked, sender, isr, asked>>

Isr == {"off", "cleared"}  \* cleared: before it takes the reasons

Init ==
    /\ reason = [c \in Cores |-> {}]
    /\ poked = {}
    /\ sender = [s \in Senders |-> NoCore]
    /\ isr = [c \in Cores |-> "off"]
    /\ asked = [c \in Cores |-> {}]

\* Mutant: the reason replaces those of others.
MarkAlone(s, c, r) ==
    /\ sender[s] = NoCore
    /\ reason' = [reason EXCEPT ![c] = {r}]
    /\ asked' = [asked EXCEPT ![c] = @ \cup {r}]
    /\ sender' = [sender EXCEPT ![s] = c]
    /\ UNCHANGED <<poked, isr>>

\* esp_crosscore_int_send: the reason, under the spinlock ...
Mark(s, c, r) ==
    /\ sender[s] = NoCore
    /\ reason' = [reason EXCEPT ![c] = @ \cup {r}]
    /\ asked' = [asked EXCEPT ![c] = @ \cup {r}]
    /\ sender' = [sender EXCEPT ![s] = c]
    /\ UNCHANGED <<poked, isr>>

\* ... and then the interrupt.
Poke(s) ==
    /\ sender[s] # NoCore
    /\ poked' = poked \cup {sender[s]}
    /\ sender' = [sender EXCEPT ![s] = NoCore]
    /\ UNCHANGED <<reason, isr, asked>>

\* esp_crosscore_isr clears the interrupt first ...
IsrClear(c) ==
    /\ isr[c] = "off"
    /\ c \in poked
    /\ poked' = poked \ {c}
    /\ isr' = [isr EXCEPT ![c] = "cleared"]
    /\ UNCHANGED <<reason, sender, asked>>

\* ... takes the reasons, under the spinlock, and serves them.
IsrTake(c) ==
    /\ isr[c] = "cleared"
    /\ reason' = [reason EXCEPT ![c] = {}]
    /\ asked' = [asked EXCEPT ![c] = @ \ reason[c]]
    /\ isr' = [isr EXCEPT ![c] = "off"]
    /\ UNCHANGED <<poked, sender>>

Next ==
    \/ \E s \in Senders :
          Poke(s) \/ \E c \in Cores, r \in Reasons : Mark(s, c, r)
    \/ \E c \in Cores : IsrClear(c) \/ IsrTake(c)

Spec == Init /\ [][Next]_vars

-----------------------------------------------------------------------------
\* Types of the cross-core interrupt's state.
TypeOK ==
    /\ reason \in [Cores -> SUBSET Reasons]
    /\ poked \subseteq Cores
    /\ sender \in [Senders -> Cores \cup {NoCore}]
    /\ isr \in [Cores -> Isr]
    /\ asked \in [Cores -> SUBSET Reasons]

\* No request is forgotten: as long as one to a core is not served, the core's
\* interrupt is set or about to be, or its handler is about to look; and the
\* reason is in the word the handler will read.
NoReasonLost ==
    \A c \in Cores :
        asked[c] # {} =>
            /\ asked[c] \subseteq reason[c]
            /\ \/ c \in poked
               \/ isr[c] = "cleared"
               \/ \E s \in Senders : sender[s] = c
=============================================================================
