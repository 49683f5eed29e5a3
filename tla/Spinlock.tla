------------------------------- MODULE Spinlock -------------------------------
(***************************************************************************)
(* The recursive spinlock of the cores                                     *)
(* (components/esp_hw_support/include/spinlock.h), on which the critical    *)
(* sections of the drivers rest.  The interrupts of a core are disabled     *)
(* while it is in one of the two functions, so a core runs one at a time;   *)
(* the cores interleave between any two accesses of the lock's words.  The  *)
(* compare-and-set is an instruction where the lock is in internal RAM and, *)
(* where it is in external RAM, a sequence under a lock of its own (cpu.c).  *)
(***************************************************************************)
EXTENDS Naturals

CONSTANTS
    Cores,
    Free,       \* SPINLOCK_FREE
    MaxCount    \* 0xFF: what the nesting count must stay below

SpinlockAssumption ==
    /\ Free \notin Cores
    /\ MaxCount \in Nat \ {0}

VARIABLES
    owner,  \* lock->owner
    count,  \* lock->count
    pc,     \* where each core is, see Places
    held,   \* history: acquisitions each core has not released yet
    spiram, \* the lock is in external RAM
    cas     \* the core that holds external_ram_cas_lock, or Free

vars == <<owner, count, pc, held, spiram, cas>>

Places == {
    "out",      \* in neither function
    "nest",     \* has found itself the owner
    "try",      \* before a compare-and-set
    "read",     \* has external_ram_cas_lock, before it reads the owner
    "equal",    \* has read the owner it expects, before it writes its own
    "unlock",   \* before it gives up external_ram_cas_lock, without success
    "done",     \* the same, with success
    "set",      \* the compare-and-set succeeded
    "release",  \* before lock->count--
    "last"}     \* the count is 0, before lock->owner = SPINLOCK_FREE

Init ==
    /\ owner = Free
    /\ count = 0
    /\ pc = [c \in Cores |-> "out"]
    /\ held = [c \in Cores |-> 0]
    /\ spiram \in BOOLEAN
    /\ cas = Free

Goto(c, place) == pc' = [pc EXCEPT ![c] = place]

\* spinlock_acquire: is the caller the owner already?  What is below the bound
\* of the nesting is asserted by the code and up to the callers.
Acquire(c) ==
    /\ pc[c] = "out"
    /\ held[c] + 1 < MaxCount
    /\ Goto(c, IF owner = c THEN "nest" ELSE "try")
    /\ UNCHANGED <<owner, count, held, cas>>

Nest(c) ==
    /\ pc[c] = "nest"
    /\ count' = count + 1
    /\ held' = [held EXCEPT ![c] = @ + 1]
    /\ Goto(c, "out")
    /\ UNCHANGED <<owner, cas>>

\* Mutant: the lock is taken without a look at its owner.
GrabbedBlindly(c) == TRUE

\* The condition of esp_cpu_compare_and_set.
Grabbed(c) == owner = Free

CompareAndSet(c) ==
    /\ pc[c] = "try"
    /\ ~spiram
    /\ Grabbed(c)
    /\ owner' = c
    /\ Goto(c, "set")
    /\ UNCHANGED <<count, held, cas>>

\* esp_cpu_compare_and_set in external RAM: a failure where another core is
\* in it, and else a comparison and a write, with the other core kept out.
CasEnter(c) ==
    /\ pc[c] = "try"
    /\ spiram
    /\ cas = Free
    /\ cas' = c
    /\ Goto(c, "read")
    /\ UNCHANGED <<owner, count, held>>

CasRead(c) ==
    /\ pc[c] = "read"
    /\ Goto(c, IF Grabbed(c) THEN "equal" ELSE "unlock")
    /\ UNCHANGED <<owner, count, held, cas>>

CasWrite(c) ==
    /\ pc[c] = "equal"
    /\ owner' = c
    /\ Goto(c, "done")
    /\ UNCHANGED <<count, held, cas>>

\* After a failure it is tried again, or the time is up.
CasLeave(c) ==
    /\ pc[c] \in {"unlock", "done"}
    /\ cas' = Free
    /\ IF pc[c] = "done" THEN Goto(c, "set")
                          ELSE Goto(c, "try") \/ Goto(c, "out")
    /\ UNCHANGED <<owner, count, held>>

\* The compare-and-set failed and the time is up: the lock is another's or, in
\* external RAM, another core is in a compare-and-set of this or another lock.
GiveUp(c) ==
    /\ pc[c] = "try"
    /\ spiram \/ owner # Free
    /\ Goto(c, "out")
    /\ UNCHANGED <<owner, count, held, cas>>

Enter(c) ==
    /\ pc[c] = "set"
    /\ count' = count + 1
    /\ held' = [held EXCEPT ![c] = @ + 1]
    /\ Goto(c, "out")
    /\ UNCHANGED <<owner, cas>>

\* spinlock_release.
Release(c) ==
    /\ pc[c] = "out"
    /\ held[c] > 0
    /\ Goto(c, "release")
    /\ UNCHANGED <<owner, count, held, cas>>

\* Mutant: the owner is cleared before the count.
DecrementLate(c) ==
    /\ pc[c] = "release"
    /\ IF count = 1 THEN owner' = Free /\ Goto(c, "last")
                    ELSE Goto(c, "out") /\ UNCHANGED owner
    /\ count' = IF count = 1 THEN 1 ELSE count - 1
    /\ held' = [held EXCEPT ![c] = @ - 1]
    /\ UNCHANGED cas

Decrement(c) ==
    /\ pc[c] = "release"
    /\ count' = count - 1
    /\ held' = [held EXCEPT ![c] = @ - 1]
    /\ Goto(c, IF count = 1 THEN "last" ELSE "out")
    /\ UNCHANGED <<owner, cas>>

Unlock(c) ==
    /\ pc[c] = "last"
    /\ owner' = Free
    /\ Goto(c, "out")
    /\ UNCHANGED <<count, held, cas>>

Step(c) ==
    /\ UNCHANGED spiram
    /\ \/ Acquire(c) \/ Nest(c) \/ CompareAndSet(c) \/ GiveUp(c) \/ Enter(c)
       \/ CasEnter(c) \/ CasRead(c) \/ CasWrite(c) \/ CasLeave(c)
       \/ Release(c) \/ Decrement(c) \/ Unlock(c)

Next == \E c \in Cores : Step(c)

Spec == Init /\ [][Next]_vars

-----------------------------------------------------------------------------
\* Types of the words of the lock and of the cores' progress.
TypeOK ==
    /\ owner \in Cores \cup {Free}
    /\ count \in Nat
    /\ pc \in [Cores -> Places]
    /\ held \in [Cores -> Nat]
    /\ spiram \in BOOLEAN
    /\ cas \in Cores \cup {Free}

\* The lock excludes: while a core holds it, once or several times, no other
\* core does, whatever the others attempt between any two accesses.
Exclusive ==
    \A c, d \in Cores : held[c] > 0 /\ held[d] > 0 => c = d

\* The assertions of both functions: a core that has just taken the lock finds
\* the count 0, one that nests a count in range, one that releases finds itself
\* the owner, and one that gives up another core or none.
LockAsserts ==
    \A c \in Cores :
        /\ pc[c] = "nest" => count > 0 /\ count < MaxCount
        /\ pc[c] = "set" => owner = c /\ count = 0
        /\ pc[c] = "release" => owner = c /\ count > 0
        /\ pc[c] = "try" => owner # c /\ count < MaxCount
=============================================================================
