------------------------------- MODULE EspIpc -------------------------------
(***************************************************************************)
(* Inter-processor calls (components/esp_system/esp_ipc.c).  Each core has *)
(* an IPC task that sleeps in xTaskNotifyWait.  A caller takes a mutex,    *)
(* leaves the function and its argument in s_func[cpu], notifies the task  *)
(* with what it will wait for, and waits on the core's ack semaphore.  The *)
(* gcov component wakes the same tasks from an interrupt, without a mutex. *)
(* A function is named by the caller that sent it.                         *)
(*                                                                         *)
(* FreeRTOS is modelled by what this file relies on: a mutex, a binary     *)
(* semaphore, a notification with a value that a second one overwrites or  *)
(* not.  Priorities are left out; so are calls made by the functions       *)
(* themselves.                                                             *)
(***************************************************************************)
EXTENDS Integers

CONSTANTS
    Callers,          \* tasks that call esp_ipc_call*
    Cores,            \* portNUM_PROCESSORS
    CallersPriority,  \* CONFIG_ESP_IPC_USES_CALLERS_PRIORITY
    MaxGcov,          \* bound: calls of esp_ipc_start_gcov_from_isr
    None

ASSUME EspIpcAssumption ==
    /\ 0 \in Cores
    /\ CallersPriority \in BOOLEAN
    /\ MaxGcov \in Nat
    /\ None \notin Callers \cup Cores
    /\ None \notin {"NO", "START", "END"}

VARIABLES
    mutex,     \* s_ipc_mutex: the caller that holds it
    ack,       \* s_ipc_ack: the semaphore is available
    func,      \* s_func
    arg,       \* s_func_arg, named like the function it belongs to
    note,      \* notification of an IPC task: its value, or None
    task,      \* ipc_task: program counter and locals
    call,      \* esp_ipc_call_and_wait: program counter and parameters
    gcovFunc,  \* s_gcov_func # NULL
    gcov,      \* the core esp_ipc_start_gcov_from_isr is about to notify
    gcovLeft,  \* calls of it left
    aborted    \* abort() was called

\* What the properties speak of: how far the function of the current call of a
\* caller has come.
VARIABLE stage

gcovVars == <<gcovFunc, gcov, gcovLeft>>
vars == <<mutex, ack, func, arg, note, task, call, gcovVars, aborted, stage>>

Waits   == {"START", "END"}
Sleeps  == [pc |-> "wait", wait |-> "NO", func |-> None, arg |-> None]
NotCalling == [pc |-> "idle", core |-> None, wait |-> "NO"]
MutexOf(k) == IF CallersPriority THEN k ELSE 0

Init ==
    /\ mutex = [k \in Cores |-> None]
    /\ ack = [k \in Cores |-> FALSE]
    /\ func = [k \in Cores |-> None]
    /\ arg = [k \in Cores |-> None]
    /\ note = [k \in Cores |-> None]
    /\ task = [k \in Cores |-> Sleeps]
    /\ call = [c \in Callers |-> NotCalling]
    /\ gcovFunc = FALSE
    /\ gcov = None
    /\ gcovLeft = MaxGcov
    /\ aborted = FALSE
    /\ stage = [c \in Callers |-> "none"]

-----------------------------------------------------------------------------
\* esp_ipc_call_and_wait, one action per access to what others share.
At(c, pc)   == ~aborted /\ call[c].pc = pc
Goto(c, pc) == call' = [call EXCEPT ![c].pc = pc]

Ask(c, k, w) ==
    /\ At(c, "idle")
    /\ call' = [call EXCEPT ![c] = [pc |-> "lock", core |-> k, wait |-> w]]
    /\ stage' = [stage EXCEPT ![c] = "asked"]
    /\ UNCHANGED <<mutex, ack, func, arg, note, task, gcovVars, aborted>>

Lock(c) ==
    LET m == MutexOf(call[c].core) IN
    /\ At(c, "lock")
    /\ mutex[m] = None
    /\ mutex' = [mutex EXCEPT ![m] = c]
    /\ Goto(c, "func")
    /\ UNCHANGED <<ack, func, arg, note, task, gcovVars, aborted, stage>>

\* Mutant: the task is notified before its argument is there.
SetFuncNotify(c) ==
    /\ At(c, "func")
    /\ func' = [func EXCEPT ![call[c].core] = c]
    /\ note' = [note EXCEPT ![call[c].core] = call[c].wait]
    /\ Goto(c, "arg")
    /\ UNCHANGED <<mutex, ack, arg, task, gcovVars, aborted, stage>>

SetFunc(c) ==
    /\ At(c, "func")
    /\ func' = [func EXCEPT ![call[c].core] = c]
    /\ Goto(c, "arg")
    /\ UNCHANGED <<mutex, ack, arg, note, task, gcovVars, aborted, stage>>

SetArg(c) ==
    /\ At(c, "arg")
    /\ arg' = [arg EXCEPT ![call[c].core] = c]
    /\ Goto(c, "notify")
    /\ UNCHANGED <<mutex, ack, func, note, task, gcovVars, aborted, stage>>

\* eSetValueWithOverwrite.
Notify(c) ==
    /\ At(c, "notify")
    /\ note' = [note EXCEPT ![call[c].core] = call[c].wait]
    /\ Goto(c, "ack")
    /\ UNCHANGED <<mutex, ack, func, arg, task, gcovVars, aborted, stage>>

TakeAck(c) ==
    /\ At(c, "ack")
    /\ ack[call[c].core]
    /\ ack' = [ack EXCEPT ![call[c].core] = FALSE]
    /\ Goto(c, "unlock")
    /\ UNCHANGED <<mutex, func, arg, note, task, gcovVars, aborted, stage>>

Unlock(c) ==
    /\ At(c, "unlock")
    /\ mutex' = [mutex EXCEPT ![MutexOf(call[c].core)] = None]
    /\ call' = [call EXCEPT ![c] = NotCalling]
    /\ stage' = [stage EXCEPT ![c] = "none"]
    /\ UNCHANGED <<ack, func, arg, note, task, gcovVars, aborted>>

CallStep(c) == SetFunc(c) \/ SetArg(c) \/ Notify(c) \/ TakeAck(c) \/ Unlock(c)

-----------------------------------------------------------------------------
\* ipc_task.
In(k, pc)      == ~aborted /\ task[k].pc = pc
Proceed(k, pc) == task' = [task EXCEPT ![k].pc = pc]

\* xTaskNotifyWait.
Wake(k) ==
    /\ In(k, "wait")
    /\ note[k] # None
    /\ task' = [task EXCEPT ![k] = [pc |-> "gcov", wait |-> note[k],
                                    func |-> None, arg |-> None]]
    /\ note' = [note EXCEPT ![k] = None]
    /\ UNCHANGED <<mutex, ack, func, arg, call, gcovVars, aborted, stage>>

LookGcov(k) ==
    /\ In(k, "gcov")
    /\ Proceed(k, IF gcovFunc THEN "gcovRun" ELSE "look")
    /\ UNCHANGED <<mutex, ack, func, arg, note, call, gcovVars, aborted, stage>>

\* The gcov function has been executed.
EndGcov(k) ==
    /\ In(k, "gcovRun")
    /\ gcovFunc' = FALSE
    /\ Proceed(k, IF task[k].wait = "NO" THEN "wait" ELSE "look")
    /\ UNCHANGED <<mutex, ack, func, arg, note, call,
                   gcov, gcovLeft, aborted, stage>>

\* Mutant: the function pointer is not checked.
LookFuncUnchecked(k) ==
    /\ In(k, "look")
    /\ task' = [task EXCEPT ![k].func = func[k], ![k].arg = arg[k],
           ![k].pc = IF task[k].wait = "START" THEN "give" ELSE "run"]
    /\ func' = [func EXCEPT ![k] = None]
    /\ aborted' = (task[k].wait = "NO")
    /\ stage' = [stage EXCEPT ![func[k]] = "begun"]
    /\ UNCHANGED <<mutex, ack, arg, note, call, gcovVars>>

\* Mutant: the acknowledgement comes first in any case.
LookFuncAckFirst(k) ==
    /\ In(k, "look")
    /\ IF func[k] = None
       THEN Proceed(k, "wait") /\ UNCHANGED <<func, ack, aborted, stage>>
       ELSE /\ task' = [task EXCEPT ![k].func = func[k], ![k].arg = arg[k],
                   ![k].pc = "run", ![k].wait = "START"]
            /\ ack' = [ack EXCEPT ![k] = TRUE]
            /\ func' = [func EXCEPT ![k] = None]
            /\ aborted' = (task[k].wait = "NO")
            /\ stage' = [stage EXCEPT ![func[k]] = "begun"]
    /\ UNCHANGED <<mutex, arg, note, call, gcovVars>>

\* if (s_func[cpuid]): the function is cached and cleared.  From here on the
\* task is bound to execute it, which is what "begun" stands for.
LookFunc(k) ==
    /\ In(k, "look")
    /\ IF func[k] = None
       THEN Proceed(k, "wait") /\ UNCHANGED <<func, aborted, stage>>
       ELSE /\ task' = [task EXCEPT ![k].func = func[k], ![k].arg = arg[k],
                   ![k].pc = IF task[k].wait = "START" THEN "give" ELSE "run"]
            /\ func' = [func EXCEPT ![k] = None]
            /\ aborted' = (task[k].wait = "NO")
            /\ stage' = [stage EXCEPT ![func[k]] = "begun"]
    /\ UNCHANGED <<mutex, ack, arg, note, call, gcovVars>>

\* Mutant: only a caller that waits for the end is acknowledged.
GiveAckEnd(k) ==
    /\ In(k, "give")
    /\ ack' = [ack EXCEPT ![k] = @ \/ task[k].wait = "END"]
    /\ Proceed(k, IF task[k].wait = "START" THEN "run" ELSE "wait")
    /\ UNCHANGED <<mutex, func, arg, note, call, gcovVars, aborted, stage>>

\* xSemaphoreGive, before the function or after it.
GiveAck(k) ==
    /\ In(k, "give")
    /\ ack' = [ack EXCEPT ![k] = TRUE]
    /\ Proceed(k, IF task[k].wait = "START" THEN "run" ELSE "wait")
    /\ UNCHANGED <<mutex, func, arg, note, call, gcovVars, aborted, stage>>

\* The function returns.  Its caller may have returned before, and may have
\* asked again.
EndFunc(k) ==
    LET c == task[k].func IN
    /\ In(k, "run")
    /\ task' = [task EXCEPT ![k].func = None, ![k].arg = None,
           ![k].pc = IF task[k].wait = "START" THEN "wait" ELSE "give"]
    /\ stage' = IF stage[c] = "begun" /\ call[c].core = k
                THEN [stage EXCEPT ![c] = "ended"] ELSE stage
    /\ UNCHANGED <<mutex, ack, func, arg, note, call, gcovVars, aborted>>

TaskStep(k) == \/ Wake(k) \/ LookGcov(k) \/ EndGcov(k)
               \/ LookFunc(k) \/ GiveAck(k) \/ EndFunc(k)

-----------------------------------------------------------------------------
\* esp_ipc_start_gcov_from_isr, in an interrupt on any core.
StartGcov(k) ==
    /\ ~aborted
    /\ gcovLeft > 0
    /\ gcov = None
    /\ ~gcovFunc
    /\ gcovFunc' = TRUE
    /\ gcov' = k
    /\ gcovLeft' = gcovLeft - 1
    /\ UNCHANGED <<mutex, ack, func, arg, note, task, call, aborted, stage>>

\* eSetValueWithoutOverwrite.
NotifyGcov ==
    /\ ~aborted
    /\ gcov # None
    /\ note' = [note EXCEPT ![gcov] = IF @ = None THEN "NO" ELSE @]
    /\ gcov' = None
    /\ UNCHANGED <<mutex, ack, func, arg, task, call,
                   gcovFunc, gcovLeft, aborted, stage>>

Next ==
    \/ \E c \in Callers :
          \/ \E k \in Cores, w \in Waits : Ask(c, k, w)
          \/ Lock(c) \/ CallStep(c)
    \/ \E k \in Cores : TaskStep(k) \/ StartGcov(k)
    \/ NotifyGcov

Spec == Init /\ [][Next]_vars

\* One of the callers that wait for mutex m gets it.
LockSome(m) == \E c \in Callers : MutexOf(call[c].core) = m /\ Lock(c)

\* Functions return; and no task keeps a core for ever from the tasks of lower
\* priority, which an IPC task is too while it has that of its caller (line
\* 149).  A mutex that stays free while somebody waits is taken, by whom is
\* not said: FreeRTOS wakes the waiter of the highest priority, and the giver
\* may take it again before that one runs.
FairSpec ==
    /\ Spec
    /\ \A k \in Cores : WF_vars(TaskStep(k)) /\ WF_vars(LockSome(k))
    /\ \A c \in Callers : WF_vars(CallStep(c))
    /\ WF_vars(NotifyGcov)

-----------------------------------------------------------------------------
CallPCs == {"idle", "lock", "func", "arg", "notify", "ack", "unlock"}
TaskPCs == {"wait", "gcov", "gcovRun", "look", "give", "run"}
Named   == Callers \cup {None}

TypeOK ==
    /\ mutex \in [Cores -> Named]
    /\ ack \in [Cores -> BOOLEAN]
    /\ func \in [Cores -> Named] /\ arg \in [Cores -> Named]
    /\ note \in [Cores -> Waits \cup {"NO", None}]
    /\ task \in [Cores -> [pc : TaskPCs, wait : Waits \cup {"NO"},
                           func : Named, arg : Named]]
    /\ call \in [Callers -> [pc : CallPCs, core : Cores \cup {None},
                             wait : Waits \cup {"NO"}]]
    /\ gcovFunc \in BOOLEAN /\ aborted \in BOOLEAN
    /\ gcov \in Cores \cup {None}
    /\ gcovLeft \in 0 .. MaxGcov
    /\ stage \in [Callers -> {"none", "asked", "begun", "ended"}]
    /\ \A k \in Cores : task[k].pc = "run" => task[k].func # None

\* A function is executed with the argument it was sent with, although both
\* are left in shared memory and the task may look there at any time.
OwnArgument ==
    \A k \in Cores : task[k].func # None /\ ~aborted =>
        task[k].arg = task[k].func

\* The calls behave as esp_ipc.h promises.
Remote == INSTANCE RemoteCall WITH
    ask <- [c \in Callers |-> [core |-> call[c].core, wait |-> call[c].wait,
                               stage |-> stage[c]]],
    busy <- [k \in Cores |-> task[k].func]
KeepsPromise == Remote!Spec

\* abort() in ipc_task is unreachable: a wake-up for gcov can meet an IPC call
\* without harm.
NoAbort == ~aborted

\* If the program was not aborted, a call that has the mutex returns: no
\* notification and no acknowledgement is lost to it.  So as long as callers
\* wait for a mutex they get it one after the other, though one of them may wait
\* for ever while others go by.
Waiting(m) == \E c \in Callers : At(c, "lock") /\ MutexOf(call[c].core) = m
CallsGoOn ==
    /\ \A c \in Callers :
          call[c].pc \notin {"idle", "lock"} ~> call[c].pc = "idle" \/ aborted
    /\ \A m \in Cores :
          <>[]Waiting(m) => []<><<LockSome(m)>>_vars \/ <>aborted
=============================================================================
