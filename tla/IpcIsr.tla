-------------------------------- MODULE IpcIsr --------------------------------
(***************************************************************************)
(* Calls in the high-priority interrupt of the other core, and the stall of *)
(* the other core that is built from them                                  *)
(* (components/esp_system/port/arch/xtensa/esp_ipc_isr.c, the handler of    *)
(* esp_ipc_isr_handler.S and the wait of esp_ipc_isr_routines.S).           *)
(*                                                                         *)
(* The mutex is the spinlock of Spinlock.tla, taken and released in one     *)
(* step each.  The code of a core stands still while its handler runs,      *)
(* whatever it has disabled: the interrupt is above the level of a critical *)
(* section.  Interrupt levels, which a stall stores in a word both cores    *)
(* share, and the abort of a panic are left out, and so are calls a core    *)
(* makes inside a stall of its own.                                         *)
(***************************************************************************)
EXTENDS Integers

CONSTANTS
    Functions,  \* what is called in the interrupt of the other core
    MaxNest,    \* bound: stalls of a core inside one another
    Liberties,  \* "pause": the feature is paused while the other core is in
                \* a function of this module; "slow": a stalled core may not
                \* look at the finish command between a release and a stall
    None

Cores    == {0, 1}
Other(c) == 1 - c
Wait     == "wait"  \* esp_ipc_isr_waiting_for_finish_cmd

IpcAssumption ==
    /\ MaxNest \in Nat
    /\ Wait \notin Functions
    /\ None \notin Cores /\ None \notin Functions /\ None # Wait

VARIABLES
    mux,      \* the owner of s_ipc_isr_mux
    startFl,  \* esp_ipc_isr_start_fl
    endFl,    \* esp_ipc_isr_end_fl
    func,     \* esp_ipc_func
    finish,   \* esp_ipc_isr_finish_cmd
    running,  \* s_stall_state = STALL_STATE_RUNNING
    count,    \* s_count_of_nested_calls
    raised,   \* cores whose interrupt is raised
    handler,  \* esp_ipc_isr_handler of each core, see Handler
    call,     \* the call each core is making, see Call
    open,     \* history: stalls of each core it has not released
    todo      \* history: the function called and not executed yet

vars == <<mux, startFl, endFl, func, finish, running, count, raised, handler,
          call, open, todo>>

Handler == [
    pc : {"off", "begun",   \* the interrupt is cleared
          "started",        \* the start flag is set
          "run",            \* it has read the function
          "done"},          \* before the end flag is set
    fn : Functions \cup {Wait, None}]

HandlerOff == [pc |-> "off", fn |-> None]

Call == [
    pc    : {"out", "lock", "post", "wait", "unlock"},
    fn    : Functions \cup {Wait, None},
    until : {"start", "end"}]

NoCall == [pc |-> "out", fn |-> None, until |-> "start"]

Init ==
    /\ mux = None
    /\ startFl = FALSE
    /\ endFl = TRUE
    /\ func = None
    /\ finish = FALSE
    /\ running = TRUE
    /\ count = [c \in Cores |-> 0]
    /\ raised = {}
    /\ handler = [c \in Cores |-> HandlerOff]
    /\ call = [c \in Cores |-> NoCall]
    /\ open = [c \in Cores |-> 0]
    /\ todo = None

-----------------------------------------------------------------------------
\* The code of c runs and is in no function of this module.
Out(c) == handler[c] = HandlerOff /\ call[c] = NoCall
At(c, place) == handler[c] = HandlerOff /\ call[c].pc = place

\* esp_ipc_isr_asm_call and esp_ipc_isr_asm_call_blocking; inside a stall of
\* its own a core would wait for itself.
AsmCall(c) ==
    /\ Out(c)
    /\ open[c] = 0
    /\ \E f \in Functions, until \in {"start", "end"} :
          call' = [call EXCEPT ![c] = [pc |-> "lock", fn |-> f,
                                       until |-> until]]
    /\ UNCHANGED <<mux, startFl, endFl, func, finish, running, count, raised,
                   handler, open, todo>>

\* esp_ipc_isr_stall_other_cpu, up to its critical section.
Stall(c) ==
    /\ Out(c)
    /\ open[c] < MaxNest
    /\ open' = [open EXCEPT ![c] = @ + 1]
    /\ IF running
       THEN /\ count' = [count EXCEPT ![c] = @ + 1]
            /\ call' = IF count[c] # 0 THEN call
                       ELSE [call EXCEPT ![c] = [pc |-> "lock", fn |-> Wait,
                                                 until |-> "start"]]
       ELSE UNCHANGED <<count, call>>
    /\ UNCHANGED <<mux, startFl, endFl, func, finish, running, raised,
                   handler, todo>>

\* The other core has seen the finish command: the few instructions to that
\* are shorter than those from a release to the next stall.
Looked(c) ==
    \/ "slow" \in Liberties
    \/ ~finish
    \/ func # Wait
    \/ handler[Other(c)].pc \notin {"started", "run"}

\* The critical section begins.
Lock(c) ==
    /\ At(c, "lock")
    /\ mux = None
    /\ mux' = c
    /\ IF call[c].fn = Wait THEN Looked(c) /\ finish' = FALSE
                            ELSE UNCHANGED finish
    /\ call' = [call EXCEPT ![c].pc = "post"]
    /\ UNCHANGED <<startFl, endFl, func, running, count, raised, handler,
                   open, todo>>

\* Mutant: the start flag of the call before is left set.
StartFlagKept == startFl

StartFlag == FALSE

\* esp_ipc_isr_call_and_wait: the previous call has ended; this one is
\* published and the interrupt raised.
Post(c) ==
    /\ At(c, "post")
    /\ endFl
    /\ func' = call[c].fn
    /\ startFl' = StartFlag
    /\ endFl' = FALSE
    /\ raised' = raised \cup {Other(c)}
    /\ todo' = call[c].fn
    /\ call' = [call EXCEPT ![c].pc = "wait"]
    /\ UNCHANGED <<mux, finish, running, count, handler, open>>

\* The caller waits for the start or the end.  A stall returns in its critical
\* section, the other calls leave it.
Wake(c) ==
    /\ At(c, "wait")
    /\ IF call[c].until = "start" THEN startFl ELSE endFl
    /\ call' = [call EXCEPT ![c] = IF call[c].fn = Wait THEN NoCall
                                   ELSE [@ EXCEPT !.pc = "unlock"]]
    /\ UNCHANGED <<mux, startFl, endFl, func, finish, running, count, raised,
                   handler, open, todo>>

\* esp_ipc_isr_release_other_cpu by a core that has stalled the other one, up
\* to the end of the critical section; the count below 0 is its assert(0).
Release(c) ==
    /\ Out(c)
    /\ open[c] > 0
    /\ open' = [open EXCEPT ![c] = @ - 1]
    /\ IF running
       THEN /\ count' = [count EXCEPT ![c] = @ - 1]
            /\ IF count[c] = 1
               THEN /\ finish' = TRUE
                    /\ call' = [call EXCEPT ![c].pc = "unlock"]
               ELSE UNCHANGED <<finish, call>>
       ELSE UNCHANGED <<count, finish, call>>
    /\ UNCHANGED <<mux, startFl, endFl, func, running, raised, handler, todo>>

\* The critical section ends.
Unlock(c) ==
    /\ At(c, "unlock")
    /\ mux' = None
    /\ call' = [call EXCEPT ![c] = NoCall]
    /\ UNCHANGED <<startFl, endFl, func, finish, running, count, raised,
                   handler, open, todo>>

\* esp_ipc_isr_stall_pause and esp_ipc_isr_stall_resume, a critical section.
SetRunning(c) ==
    /\ Out(c)
    /\ open[c] = 0
    /\ mux = None
    /\ "pause" \in Liberties \/ (open[Other(c)] = 0 /\ call[Other(c)] = NoCall)
    /\ running' \in BOOLEAN
    /\ UNCHANGED <<mux, startFl, endFl, func, finish, count, raised, handler,
                   call, open, todo>>

-----------------------------------------------------------------------------
\* The handler: it clears the interrupt ...
HandlerEnter(c) ==
    /\ c \in raised
    /\ handler[c] = HandlerOff
    /\ raised' = raised \ {c}
    /\ handler' = [handler EXCEPT ![c].pc = "begun"]
    /\ UNCHANGED <<mux, startFl, endFl, func, finish, running, count, call,
                   open, todo>>

\* ... sets the start flag ...
HandlerStart(c) ==
    /\ handler[c].pc = "begun"
    /\ startFl' = TRUE
    /\ handler' = [handler EXCEPT ![c].pc = "started"]
    /\ UNCHANGED <<mux, endFl, func, finish, running, count, raised, call,
                   open, todo>>

\* ... reads the function and its argument ...
HandlerRead(c) ==
    /\ handler[c].pc = "started"
    /\ handler' = [handler EXCEPT ![c] = [pc |-> "run", fn |-> func]]
    /\ UNCHANGED <<mux, startFl, endFl, func, finish, running, count, raised,
                   call, open, todo>>

\* ... executes it: a stalled core waits for the finish command ...
HandlerRun(c) ==
    /\ handler[c].pc = "run"
    /\ handler[c].fn = Wait => finish
    /\ handler' = [handler EXCEPT ![c].pc = "done"]
    /\ todo' = None
    /\ UNCHANGED <<mux, startFl, endFl, func, finish, running, count, raised,
                   call, open>>

\* ... and sets the end flag.
HandlerEnd(c) ==
    /\ handler[c].pc = "done"
    /\ endFl' = TRUE
    /\ handler' = [handler EXCEPT ![c] = HandlerOff]
    /\ UNCHANGED <<mux, startFl, func, finish, running, count, raised, call,
                   open, todo>>

Next ==
    \E c \in Cores :
        \/ AsmCall(c) \/ Stall(c) \/ Lock(c) \/ Post(c) \/ Wake(c)
        \/ Release(c) \/ Unlock(c) \/ SetRunning(c)
        \/ HandlerEnter(c) \/ HandlerStart(c) \/ HandlerRead(c)
        \/ HandlerRun(c) \/ HandlerEnd(c)

Spec == Init /\ [][Next]_vars

-----------------------------------------------------------------------------
\* Types of the state of esp_ipc_isr.
TypeOK ==
    /\ mux \in Cores \cup {None}
    /\ startFl \in BOOLEAN
    /\ endFl \in BOOLEAN
    /\ func \in Functions \cup {Wait, None}
    /\ finish \in BOOLEAN
    /\ running \in BOOLEAN
    /\ count \in [Cores -> 0 .. MaxNest]
    /\ raised \subseteq Cores
    /\ handler \in [Cores -> Handler]
    /\ call \in [Cores -> Call]
    /\ open \in [Cores -> 0 .. MaxNest]
    /\ todo \in Functions \cup {Wait, None}

\* From the return of its outermost stall to the last of its releases the other
\* core executes nothing but the wait for the finish command, in its handler.
StallHolds ==
    \A c \in Cores :
        running /\ call[c] = NoCall /\ open[c] > 0 =>
            /\ ~finish
            /\ \/ handler[Other(c)] = [pc |-> "run", fn |-> Wait]
               \/ handler[Other(c)].pc = "started" /\ func = Wait

\* Every call is executed once: the handler runs the function of the latest
\* call, the next call is published only when that one has been executed, and
\* a blocking call returns after it.
ExecutedOnce ==
    /\ \A c \in Cores :
          /\ handler[c].pc = "run" => handler[c].fn = todo
          /\ call[c].pc = "unlock" /\ call[c].until = "end" => todo = None
          /\ At(c, "post") /\ endFl => todo = None
    /\ todo # None => ~endFl

\* A core that has released as often as it stalled holds no mutex, and so keeps
\* the other core from nothing.
Released ==
    \A c \in Cores :
        open[c] = 0 /\ call[c] = NoCall => mux # c
=============================================================================
