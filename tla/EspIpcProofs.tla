---------------------------- MODULE EspIpcProofs ----------------------------
(***************************************************************************)
(* Proofs about EspIpc, for any number of callers and cores and either     *)
(* configuration of the mutex: functions get their own arguments, and the  *)
(* calls implement RemoteCall, up to an abort of the program.              *)
(*                                                                         *)
(* A call that waits for its acknowledgement has a token in one place: the *)
(* notification, the IPC task before it looks at s_func (Carries), the     *)
(* task until it acknowledges (Serves), or the semaphore.  The mutex makes *)
(* the call the only one for its core, so there is one token at most.      *)
(***************************************************************************)
EXTENDS EspIpc, TLAPS

Inside  == {"func", "arg", "notify", "ack", "unlock"}
Done(w) == IF w = "START" THEN {"begun", "ended"} ELSE {"ended"}

\* The caller that holds the mutex for a core.
Owner(k) == mutex[MutexOf(k)]

CallOk(c) ==
    /\ call[c].pc = "idle" => call[c] = NotCalling /\ stage[c] = "none"
    /\ call[c].pc # "idle" => call[c].core \in Cores /\ call[c].wait \in Waits
    /\ call[c].pc \in {"lock", "func", "arg", "notify"} => stage[c] = "asked"
    /\ call[c].pc = "unlock" => stage[c] \in Done(call[c].wait)
    /\ call[c].pc \in Inside => Owner(call[c].core) = c
    /\ call[c].pc \in {"arg", "notify"} => func[call[c].core] = c

\* Function and argument as the caller leaves them.
FuncOk(k) ==
    func[k] # None =>
        /\ call[func[k]].core = k
        /\ call[func[k]].pc \in {"arg", "notify", "ack"}
        /\ stage[func[k]] = "asked"
        /\ call[func[k]].pc \in {"notify", "ack"} => arg[k] = func[k]

TaskOk(k) ==
    /\ task[k].pc \in {"give", "run"} => task[k].wait \in Waits
    /\ task[k].func # None <=> \/ task[k].pc = "run"
                               \/ task[k].pc = "give" /\ task[k].wait = "START"
    /\ task[k].func # None => task[k].arg = task[k].func

Carries(k) == task[k].pc \in {"gcov", "gcovRun", "look"} /\ task[k].wait \in Waits
Serves(k)  == \/ task[k].pc = "give"
              \/ task[k].pc = "run" /\ task[k].wait = "END"

AtAck(c, k, w) ==
    /\ c \in Callers
    /\ call[c].pc = "ack" /\ call[c].core = k /\ call[c].wait = w

Tokens(k) ==
    /\ note[k] \in Waits =>
          AtAck(Owner(k), k, note[k]) /\ func[k] = Owner(k)
    /\ Carries(k) =>
          AtAck(Owner(k), k, task[k].wait) /\ func[k] = Owner(k)
    /\ Serves(k) =>
          /\ AtAck(Owner(k), k, task[k].wait) /\ func[k] = None
          /\ IF task[k].func = None THEN stage[Owner(k)] = "ended"
             ELSE task[k].func = Owner(k) /\ stage[Owner(k)] = "begun"
    /\ ack[k] =>
          /\ AtAck(Owner(k), k, call[Owner(k)].wait) /\ func[k] = None
          /\ stage[Owner(k)] \in Done(call[Owner(k)].wait)
    /\ ~(note[k] \in Waits /\ Carries(k))
    /\ ~(ack[k] /\ Serves(k))

Good == /\ \A c \in Callers : CallOk(c)
        /\ \A k \in Cores : FuncOk(k) /\ TaskOk(k) /\ Tokens(k)

Inv == TypeOK /\ (aborted \/ Good)

-----------------------------------------------------------------------------
LEMMA Names == /\ None \notin Waits /\ "NO" \notin Waits /\ None # "NO"
               /\ None \notin Callers /\ None \notin Cores
               /\ \A k \in Cores : MutexOf(k) \in Cores
BY EspIpcAssumption DEF Waits, MutexOf

\* One step of a caller changes its program counter only.
LEMMA GotoStep ==
    ASSUME TypeOK, NEW c \in Callers, NEW pc \in CallPCs, Goto(c, pc)
    PROVE  /\ call' \in [Callers -> [pc : CallPCs, core : Cores \cup {None},
                                     wait : Waits \cup {"NO"}]]
           /\ call'[c].pc = pc
           /\ call'[c].core = call[c].core /\ call'[c].wait = call[c].wait
           /\ \A d \in Callers \ {c} : call'[d] = call[d]
BY DEF TypeOK, Goto

\* The mutex was free: nobody was inside with it.
LEMMA KeepsLock ==
    ASSUME TypeOK, Good, NEW c \in Callers, Lock(c)
    PROVE  TypeOK' /\ Good'
<1>1. /\ call[c].pc = "lock" /\ call[c].core \in Cores
      /\ call[c].wait \in Waits
      /\ MutexOf(call[c].core) \in Cores
      /\ mutex[MutexOf(call[c].core)] = None
      /\ mutex' = [mutex EXCEPT ![MutexOf(call[c].core)] = c]
      /\ UNCHANGED <<ack, func, arg, note, task, gcovVars, aborted, stage>>
  BY Names DEF Lock, At, Good, CallOk
<1>2. /\ call' \in [Callers -> [pc : CallPCs, core : Cores \cup {None},
                                wait : Waits \cup {"NO"}]]
      /\ call'[c].pc = "func"
      /\ call'[c].core = call[c].core /\ call'[c].wait = call[c].wait
      /\ \A d \in Callers \ {c} : call'[d] = call[d]
  BY GotoStep DEF Lock, CallPCs
<1>3. TypeOK'
  BY <1>1, <1>2, Names DEF TypeOK, gcovVars, Named
<1>4. ASSUME NEW d \in Callers PROVE CallOk(d)'
  <2>1. CallOk(d) /\ CallOk(c)
    BY DEF Good
  <2>2. CASE d = c
    <3>1. mutex'[MutexOf(call[c].core)] = c
      BY <1>1 DEF TypeOK
    <3> QED BY <1>1, <1>2, <2>1, <2>2, <3>1 DEF CallOk, Inside, Owner
  <2>3. CASE d # c
    <3>1. call'[d] = call[d]
      BY <1>2, <2>3
    <3>2. call[d].pc \in Inside =>
             /\ call[d].core \in Cores /\ MutexOf(call[d].core) \in Cores
             /\ mutex[MutexOf(call[d].core)] = d /\ d # None
      BY <2>1, Names DEF CallOk, Owner, Inside
    <3>3. call[d].pc \in Inside => mutex'[MutexOf(call[d].core)] = d
      BY <1>1, <3>2 DEF TypeOK
    <3> QED BY <1>1, <2>1, <3>1, <3>3 DEF CallOk, Owner
  <2> QED BY <2>2, <2>3
<1>5. ASSUME NEW k \in Cores PROVE FuncOk(k)'
  <2>1. FuncOk(k) /\ func[k] \in Callers \cup {None}
    BY DEF Good, TypeOK, Named
  <2> QED BY <1>1, <1>2, <2>1 DEF FuncOk
<1>6. ASSUME NEW k \in Cores PROVE TaskOk(k)'
  BY <1>1 DEF Good, TaskOk
<1>7. ASSUME NEW k \in Cores PROVE Tokens(k)'
  <2>1. Tokens(k)
    BY DEF Good
  <2>2. CASE MutexOf(k) = MutexOf(call[c].core)
    <3>1. Owner(k) = None
      BY <1>1, <2>2 DEF Owner
    <3> QED
      BY <1>1, <2>1, <3>1, Names DEF Tokens, AtAck, Carries, Serves
  <2>3. CASE MutexOf(k) # MutexOf(call[c].core)
    <3>1. Owner(k)' = Owner(k)
      BY <1>1, <2>3, Names DEF TypeOK, Owner
    <3> QED
      BY <1>1, <1>2, <2>1, <3>1 DEF Tokens, AtAck, Carries, Serves
  <2> QED BY <2>2, <2>3
<1> QED BY <1>3, <1>4, <1>5, <1>6, <1>7 DEF Good

\* There is no token of this core yet.
LEMMA KeepsSetFunc ==
    ASSUME TypeOK, Good, NEW c \in Callers, SetFunc(c)
    PROVE  TypeOK' /\ Good'
<1>1. /\ call[c].pc = "func" /\ call[c].core \in Cores
      /\ call[c].wait \in Waits
      /\ func' = [func EXCEPT ![call[c].core] = c]
      /\ UNCHANGED <<mutex, ack, arg, note, task, gcovVars, aborted, stage>>
  BY DEF SetFunc, At, Good, CallOk
<1>2. /\ call' \in [Callers -> [pc : CallPCs, core : Cores \cup {None},
                                wait : Waits \cup {"NO"}]]
      /\ call'[c].pc = "arg"
      /\ call'[c].core = call[c].core /\ call'[c].wait = call[c].wait
      /\ \A d \in Callers \ {c} : call'[d] = call[d]
  BY GotoStep DEF SetFunc, CallPCs
<1>3. TypeOK'
  BY <1>1, <1>2, Names DEF TypeOK, gcovVars, Named
<1>4. ASSUME NEW d \in Callers PROVE CallOk(d)'
  <2>1. CallOk(d) /\ CallOk(c)
    BY DEF Good
  <2>2. CASE d = c
    <3>1. func'[call[c].core] = c
      BY <1>1 DEF TypeOK
    <3> QED BY <1>1, <1>2, <2>1, <2>2, <3>1 DEF CallOk, Inside, Owner
  <2>3. CASE d # c
    <3>1. call[d].pc \in Inside => call[d].core # call[c].core
      BY <1>1, <2>1, <2>3 DEF CallOk, Inside
    <3>2. call[d].pc \in {"arg", "notify"} =>
             func'[call[d].core] = func[call[d].core]
      BY <1>1, <2>1, <3>1 DEF TypeOK, CallOk, Inside
    <3>3. call'[d] = call[d]
      BY <1>2, <2>3
    <3> QED BY <1>1, <2>1, <3>2, <3>3 DEF CallOk, Owner
  <2> QED BY <2>2, <2>3
<1>5. ASSUME NEW k \in Cores PROVE FuncOk(k)'
  <2>1. FuncOk(k) /\ func[k] \in Callers \cup {None}
    BY DEF Good, TypeOK, Named
  <2>2. CASE k = call[c].core
    BY <1>1, <1>2, <2>2 DEF Good, CallOk, FuncOk, TypeOK
  <2>3. CASE k # call[c].core
    BY <1>1, <1>2, <2>1, <2>3 DEF FuncOk, TypeOK
  <2> QED BY <2>2, <2>3
<1>6. ASSUME NEW k \in Cores PROVE TaskOk(k)'
  BY <1>1 DEF Good, TaskOk
<1>7. ASSUME NEW k \in Cores PROVE Tokens(k)'
  <2>1. Tokens(k)
    BY DEF Good
  <2>2. CASE k = call[c].core
    <3>1. Owner(k) = c /\ ~AtAck(c, k, note[k]) /\ ~AtAck(c, k, task[k].wait)
                     /\ ~AtAck(c, k, call[c].wait)
      BY <1>1, <2>2 DEF Good, CallOk, Inside, AtAck
    <3> QED
      BY <1>1, <1>2, <2>1, <3>1 DEF Tokens, Carries, Serves, Owner
  <2>3. CASE k # call[c].core
    BY <1>1, <1>2, <2>1, <2>3 DEF TypeOK, Tokens, AtAck, Owner, Carries, Serves
  <2> QED BY <2>2, <2>3
<1> QED BY <1>3, <1>4, <1>5, <1>6, <1>7 DEF Good

\* The argument now belongs to the function.
LEMMA KeepsSetArg ==
    ASSUME TypeOK, Good, NEW c \in Callers, SetArg(c)
    PROVE  TypeOK' /\ Good'
<1>1. /\ call[c].pc = "arg" /\ call[c].core \in Cores
      /\ call[c].wait \in Waits
      /\ arg' = [arg EXCEPT ![call[c].core] = c]
      /\ UNCHANGED <<mutex, ack, func, note, task, gcovVars, aborted, stage>>
  BY DEF SetArg, At, Good, CallOk
<1>2. /\ call' \in [Callers -> [pc : CallPCs, core : Cores \cup {None},
                                wait : Waits \cup {"NO"}]]
      /\ call'[c].pc = "notify"
      /\ call'[c].core = call[c].core /\ call'[c].wait = call[c].wait
      /\ \A d \in Callers \ {c} : call'[d] = call[d]
  BY GotoStep DEF SetArg, CallPCs
<1>3. TypeOK'
  BY <1>1, <1>2, Names DEF TypeOK, gcovVars, Named
<1>4. ASSUME NEW d \in Callers PROVE CallOk(d)'
  <2>1. CallOk(d) /\ CallOk(c)
    BY DEF Good
  <2>2. CASE d = c
    BY <1>1, <1>2, <2>1, <2>2 DEF CallOk, Inside, Owner
  <2>3. CASE d # c
    BY <1>1, <1>2, <2>1, <2>3 DEF CallOk, Owner
  <2> QED BY <2>2, <2>3
<1>5. ASSUME NEW k \in Cores PROVE FuncOk(k)'
  <2>1. /\ FuncOk(k) /\ func[k] \in Callers \cup {None}
        /\ k # call[c].core => arg'[k] = arg[k]
        /\ k = call[c].core => func[k] = c /\ arg'[k] = c
    BY <1>1 DEF Good, TypeOK, Named, CallOk
  <2> QED BY <1>1, <1>2, <2>1 DEF FuncOk
<1>6. ASSUME NEW k \in Cores PROVE TaskOk(k)'
  BY <1>1 DEF Good, TaskOk
<1>7. ASSUME NEW k \in Cores PROVE Tokens(k)'
  BY <1>1, <1>2 DEF Good, Tokens, AtAck, Owner, Carries, Serves
<1> QED BY <1>3, <1>4, <1>5, <1>6, <1>7 DEF Good

\* The token appears, in the notification.
LEMMA KeepsNotify ==
    ASSUME TypeOK, Good, NEW c \in Callers, Notify(c)
    PROVE  TypeOK' /\ Good'
<1>1. /\ call[c].pc = "notify" /\ call[c].core \in Cores
      /\ call[c].wait \in Waits
      /\ note' = [note EXCEPT ![call[c].core] = call[c].wait]
      /\ UNCHANGED <<mutex, ack, func, arg, task, gcovVars, aborted, stage>>
  BY DEF Notify, At, Good, CallOk
<1>2. /\ call' \in [Callers -> [pc : CallPCs, core : Cores \cup {None},
                                wait : Waits \cup {"NO"}]]
      /\ call'[c].pc = "ack"
      /\ call'[c].core = call[c].core /\ call'[c].wait = call[c].wait
      /\ \A d \in Callers \ {c} : call'[d] = call[d]
  BY GotoStep DEF Notify, CallPCs
<1>3. TypeOK'
  BY <1>1, <1>2, Names DEF TypeOK, gcovVars, Named
<1>4. ASSUME NEW d \in Callers PROVE CallOk(d)'
  <2>1. CallOk(d) /\ CallOk(c)
    BY DEF Good
  <2>2. CASE d = c
    BY <1>1, <1>2, <2>1, <2>2 DEF CallOk, Inside, Owner
  <2>3. CASE d # c
    BY <1>1, <1>2, <2>1, <2>3 DEF CallOk, Owner
  <2> QED BY <2>2, <2>3
<1>5. ASSUME NEW k \in Cores PROVE FuncOk(k)'
  <2>1. FuncOk(k) /\ func'[k] = func[k] /\ func[k] \in Callers \cup {None}
    BY <1>1 DEF Good, TypeOK, Named
  <2> QED
    BY <1>1, <1>2, <2>1, Names DEF FuncOk
<1>6. ASSUME NEW k \in Cores PROVE TaskOk(k)'
  BY <1>1 DEF Good, TaskOk
<1>7. ASSUME NEW k \in Cores PROVE Tokens(k)'
  <2>1. Tokens(k)
    BY DEF Good
  <2>2. CASE k = call[c].core
    <3>1. Owner(k) = c /\ ~AtAck(c, k, note[k]) /\ ~AtAck(c, k, task[k].wait)
                     /\ ~AtAck(c, k, call[c].wait)
      BY <1>1, <2>2 DEF Good, CallOk, Inside, AtAck
    <3>2. note[k] \notin Waits /\ ~Carries(k) /\ ~Serves(k) /\ ~ack[k]
      BY <2>1, <3>1 DEF Tokens
    <3>3. func[k] = c
      BY <1>1, <2>2 DEF Good, CallOk
    <3> QED
      BY <1>1, <1>2, <2>2, <3>1, <3>2, <3>3
      DEF TypeOK, Tokens, AtAck, Carries, Serves, Owner
  <2>3. CASE k # call[c].core
    BY <1>1, <1>2, <2>1, <2>3 DEF TypeOK, Tokens, AtAck, Owner, Carries, Serves
  <2> QED BY <2>2, <2>3
<1> QED BY <1>3, <1>4, <1>5, <1>6, <1>7 DEF Good

\* The token disappears; what the call waited for has happened.
LEMMA KeepsTakeAck ==
    ASSUME TypeOK, Good, NEW c \in Callers, TakeAck(c)
    PROVE  TypeOK' /\ Good'
<1>1. /\ call[c].pc = "ack" /\ call[c].core \in Cores
      /\ call[c].wait \in Waits
      /\ ack[call[c].core]
      /\ ack' = [ack EXCEPT ![call[c].core] = FALSE]
      /\ UNCHANGED <<mutex, func, arg, note, task, gcovVars, aborted, stage>>
  BY DEF TakeAck, At, Good, CallOk
<1>2. /\ call' \in [Callers -> [pc : CallPCs, core : Cores \cup {None},
                                wait : Waits \cup {"NO"}]]
      /\ call'[c].pc = "unlock"
      /\ call'[c].core = call[c].core /\ call'[c].wait = call[c].wait
      /\ \A d \in Callers \ {c} : call'[d] = call[d]
  BY GotoStep DEF TakeAck, CallPCs
<1>3. TypeOK'
  BY <1>1, <1>2, Names DEF TypeOK, gcovVars, Named
<1>4. ASSUME NEW d \in Callers PROVE CallOk(d)'
  <2>1. CallOk(d) /\ CallOk(c) /\ Tokens(call[c].core)
    BY <1>1 DEF Good
  <2>2. Owner(call[c].core) = c /\ stage[c] \in Done(call[c].wait)
    BY <1>1, <2>1 DEF CallOk, Tokens, Inside
  <2>3. CASE d = c
    BY <1>1, <1>2, <2>1, <2>2, <2>3 DEF CallOk, Inside, Owner
  <2>4. CASE d # c
    BY <1>1, <1>2, <2>1, <2>4 DEF CallOk, Owner
  <2> QED BY <2>3, <2>4
<1>5. ASSUME NEW k \in Cores PROVE FuncOk(k)'
  <2>1. FuncOk(k) /\ func[k] \in Callers \cup {None}
    BY DEF Good, TypeOK, Named
  <2>2. func[k] # c
    BY <1>1, <2>1, Names DEF Good, Tokens, FuncOk
  <2> QED BY <1>1, <1>2, <2>1, <2>2 DEF FuncOk
<1>6. ASSUME NEW k \in Cores PROVE TaskOk(k)'
  BY <1>1 DEF Good, TaskOk
<1>7. ASSUME NEW k \in Cores PROVE Tokens(k)'
  <2>1. Tokens(k)
    BY DEF Good
  <2>2. CASE k = call[c].core
    <3>1. note[k] \notin Waits /\ ~Carries(k) /\ ~Serves(k)
      BY <1>1, <2>1, <2>2, Names DEF Tokens, AtAck
    <3> QED
      BY <1>1, <2>2, <3>1 DEF TypeOK, Tokens, Carries, Serves
  <2>3. CASE k # call[c].core
    <3>1. ack'[k] = ack[k] /\ Owner(k)' = Owner(k)
      BY <1>1, <2>3 DEF TypeOK, Owner
    <3>2. \A u : AtAck(Owner(k), k, u) => AtAck(Owner(k), k, u)'
      BY <1>2, <2>3, <3>1 DEF AtAck
    <3>3. \A u : AtAck(Owner(k), k, u) =>
                    call'[Owner(k)].wait = call[Owner(k)].wait
      BY <1>2 DEF AtAck
    <3> QED BY <1>1, <2>1, <3>1, <3>2, <3>3 DEF Tokens, Carries, Serves
  <2> QED BY <2>2, <2>3
<1> QED BY <1>3, <1>4, <1>5, <1>6, <1>7 DEF Good

\* A caller outside has no function and no token.
LEMMA KeepsAsk ==
    ASSUME TypeOK, Good, NEW c \in Callers, NEW r \in Cores, NEW w \in Waits,
           Ask(c, r, w)
    PROVE  TypeOK' /\ Good'
<1>1. /\ call[c].pc = "idle"
      /\ call' = [call EXCEPT ![c] = [pc |-> "lock", core |-> r, wait |-> w]]
      /\ stage' = [stage EXCEPT ![c] = "asked"]
      /\ UNCHANGED <<mutex, ack, func, arg, note, task, gcovVars, aborted>>
  BY DEF Ask, At
<1>2. /\ call' \in [Callers -> [pc : CallPCs, core : Cores \cup {None},
                                wait : Waits \cup {"NO"}]]
      /\ call'[c].pc = "lock" /\ call'[c].core = r /\ call'[c].wait = w
      /\ \A d \in Callers \ {c} : call'[d] = call[d]
  BY <1>1 DEF TypeOK, CallPCs
<1>3. stage'[c] = "asked" /\ \A d \in Callers \ {c} : stage'[d] = stage[d]
  BY <1>1 DEF TypeOK
<1>4. TypeOK'
  BY <1>1, <1>2 DEF TypeOK, gcovVars
<1>5. ASSUME NEW d \in Callers PROVE CallOk(d)'
  BY <1>1, <1>2, <1>3 DEF Good, CallOk, Owner, Inside
<1>6. ASSUME NEW k \in Cores PROVE FuncOk(k)'
  <2>1. FuncOk(k) /\ func[k] \in Callers \cup {None}
    BY DEF Good, TypeOK, Named
  <2> QED BY <1>1, <1>2, <1>3, <2>1 DEF FuncOk
<1>7. ASSUME NEW k \in Cores PROVE TaskOk(k)'
  BY <1>1 DEF Good, TaskOk
<1>8. ASSUME NEW k \in Cores PROVE Tokens(k)'
  <2>1. Tokens(k) /\ Owner(k)' = Owner(k)
    BY <1>1 DEF Good, Owner
  <2>2. \A u : AtAck(Owner(k), k, u) => Owner(k) \in Callers \ {c}
    BY <1>1 DEF AtAck
  <2> QED BY <1>1, <1>2, <1>3, <2>1, <2>2 DEF Tokens, AtAck, Carries, Serves
<1> QED BY <1>4, <1>5, <1>6, <1>7, <1>8 DEF Good

\* The mutex is released by the caller that holds it, after its token is gone.
LEMMA KeepsUnlock ==
    ASSUME TypeOK, Good, NEW c \in Callers, Unlock(c)
    PROVE  TypeOK' /\ Good'
<1> DEFINE m == MutexOf(call[c].core)
<1>1. /\ call[c].pc = "unlock" /\ call[c].core \in Cores
      /\ m \in Cores /\ mutex[m] = c
      /\ mutex' = [mutex EXCEPT ![m] = None]
      /\ call' = [call EXCEPT ![c] = NotCalling]
      /\ stage' = [stage EXCEPT ![c] = "none"]
      /\ UNCHANGED <<ack, func, arg, note, task, gcovVars, aborted>>
  BY Names DEF Unlock, At, Good, CallOk, Inside, Owner
<1> HIDE DEF m
<1>2. /\ call' \in [Callers -> [pc : CallPCs, core : Cores \cup {None},
                                wait : Waits \cup {"NO"}]]
      /\ call'[c] = NotCalling /\ call'[c].pc = "idle"
      /\ \A d \in Callers \ {c} : call'[d] = call[d]
  BY <1>1 DEF TypeOK, CallPCs, NotCalling
<1>3. stage'[c] = "none" /\ \A d \in Callers \ {c} : stage'[d] = stage[d]
  BY <1>1 DEF TypeOK
<1>4. TypeOK'
  BY <1>1, <1>2 DEF TypeOK, Named, gcovVars
<1>5. \A k \in Cores : MutexOf(k) # m => Owner(k)' = Owner(k)
  BY <1>1, Names DEF TypeOK, Owner
<1>6. ASSUME NEW d \in Callers PROVE CallOk(d)'
  <2>1. CASE d = c
    BY <1>2, <1>3, <2>1 DEF CallOk, Inside
  <2>2. CASE d # c
    <3>1. call[d].pc \in Inside =>
             call[d].core \in Cores /\ MutexOf(call[d].core) # m
      BY <1>1, <2>2 DEF Good, CallOk, Owner, Inside
    <3>2. CallOk(d) /\ call'[d] = call[d] /\ stage'[d] = stage[d] /\ func' = func
      BY <1>1, <1>2, <1>3, <2>2 DEF Good
    <3>3. call[d].pc \in Inside => Owner(call[d].core)' = d
      BY <1>5, <3>1, <3>2 DEF CallOk
    <3> QED BY <3>2, <3>3 DEF CallOk, Owner
  <2> QED BY <2>1, <2>2
<1>7. ASSUME NEW k \in Cores PROVE FuncOk(k)'
  <2>1. FuncOk(k) /\ func[k] \in Callers \cup {None}
    BY DEF Good, TypeOK, Named
  <2> QED BY <1>1, <1>2, <1>3, <2>1 DEF FuncOk
<1>8. ASSUME NEW k \in Cores PROVE TaskOk(k)'
  BY <1>1 DEF Good, TaskOk
<1>9. ASSUME NEW k \in Cores PROVE Tokens(k)'
  <2>1. Tokens(k)
    BY DEF Good
  <2>2. CASE MutexOf(k) = m
    <3>1. Owner(k) = c /\ \A u : ~AtAck(c, k, u)
      BY <1>1, <2>2 DEF Owner, AtAck
    <3> QED BY <1>1, <2>1, <3>1 DEF Tokens, Carries, Serves
  <2>3. CASE MutexOf(k) # m
    <3>1. Owner(k)' = Owner(k) /\ \A u : AtAck(Owner(k), k, u) =>
                                            Owner(k) \in Callers \ {c}
      BY <1>1, <1>5, <2>3 DEF AtAck
    <3> QED BY <1>1, <1>2, <1>3, <2>1, <3>1 DEF Tokens, AtAck, Carries, Serves
  <2> QED BY <2>2, <2>3
<1> QED BY <1>4, <1>6, <1>7, <1>8, <1>9 DEF Good

-----------------------------------------------------------------------------
TaskType == [Cores -> [pc : TaskPCs, wait : Waits \cup {"NO"},
                       func : Named, arg : Named]]

LEMMA ProceedStep ==
    ASSUME TypeOK, NEW k \in Cores, NEW pc \in TaskPCs, Proceed(k, pc)
    PROVE  /\ task' \in TaskType
           /\ task'[k].pc = pc /\ task'[k].wait = task[k].wait
           /\ task'[k].func = task[k].func /\ task'[k].arg = task[k].arg
           /\ \A j \in Cores \ {k} : task'[j] = task[j]
<1>1. task \in TaskType /\ task' = [task EXCEPT ![k].pc = pc]
  BY DEF TypeOK, Proceed, TaskType
<1>2. task' \in TaskType
  BY <1>1 DEF TaskType
<1> QED BY <1>1, <1>2 DEF TaskType

\* Steps of the task of core k that leave the callers alone.
LEMMA CallersKept ==
    ASSUME Good, UNCHANGED <<mutex, func, arg, call, stage>>
    PROVE  /\ \A d \in Callers : CallOk(d)'
           /\ \A j \in Cores : FuncOk(j)'
           /\ \A j \in Cores : Owner(j)' = Owner(j)
BY DEF Good, CallOk, FuncOk, Owner

LEMMA OthersKept ==
    ASSUME Good, UNCHANGED <<mutex, call, stage>>, NEW j \in Cores,
           func'[j] = func[j], task'[j] = task[j], note'[j] = note[j],
           ack'[j] = ack[j]
    PROVE  TaskOk(j)' /\ Tokens(j)'
BY DEF Good, TaskOk, Tokens, AtAck, Owner, Carries, Serves

\* The token passes from the notification to the task.
LEMMA KeepsWake ==
    ASSUME TypeOK, Good, NEW k \in Cores, Wake(k)
    PROVE  TypeOK' /\ Good'
<1>1. /\ task[k].pc = "wait" /\ note[k] # None
      /\ note' = [note EXCEPT ![k] = None]
      /\ UNCHANGED <<mutex, ack, func, arg, call, gcovVars, aborted, stage>>
  BY DEF Wake, In
<1>2. /\ task' \in TaskType
      /\ task'[k].pc = "gcov" /\ task'[k].wait = note[k]
      /\ task'[k].func = None /\ task'[k].arg = None
      /\ \A j \in Cores \ {k} : task'[j] = task[j]
  <2>1. task' = [task EXCEPT ![k] = [pc |-> "gcov", wait |-> note[k],
                                     func |-> None, arg |-> None]]
    BY DEF Wake
  <2>2. note[k] \in Waits \cup {"NO"}
    BY <1>1 DEF TypeOK
  <2> QED
    BY <2>1, <2>2 DEF TypeOK, TaskType, TaskPCs, Named
<1>3. TypeOK'
  BY <1>1, <1>2 DEF TypeOK, TaskType, gcovVars
<1>4. ASSUME NEW j \in Cores PROVE TaskOk(j)' /\ Tokens(j)'
  <2>1. CASE j = k
    <3>1. Tokens(k) /\ Owner(k)' = Owner(k) /\ note'[k] = None
      BY <1>1 DEF Good, Owner, TypeOK
    <3>2. TaskOk(k)'
      BY <1>2 DEF TaskOk
    <3>3. ~Serves(k)' /\ (Carries(k)' => note[k] \in Waits) /\ note'[k] \notin Waits
      BY <1>2, <3>1, Names DEF Carries, Serves
    <3> QED
      BY <1>1, <1>2, <2>1, <3>1, <3>2, <3>3, Names DEF Tokens, AtAck
  <2>2. CASE j # k
    BY <1>1, <1>2, <2>2, OthersKept DEF TypeOK
  <2> QED BY <2>1, <2>2
<1> QED BY <1>1, <1>3, <1>4, CallersKept DEF Good

\* The token stays where it is, before the look at s_func.
LEMMA KeepsGcov ==
    ASSUME TypeOK, Good, NEW k \in Cores, LookGcov(k) \/ EndGcov(k)
    PROVE  TypeOK' /\ Good'
<1>1. /\ task[k].pc \in {"gcov", "gcovRun"}
      /\ UNCHANGED <<mutex, ack, func, arg, note, call, aborted, stage>>
      /\ gcovFunc' \in BOOLEAN /\ gcov' = gcov /\ gcovLeft' = gcovLeft
  BY DEF LookGcov, EndGcov, In, gcovVars, TypeOK
<1>2. PICK pc \in {"gcovRun", "look", "wait"} :
         Proceed(k, pc) /\ (pc = "wait" => task[k].wait = "NO")
  BY DEF LookGcov, EndGcov
<1>3. /\ task' \in TaskType
      /\ task'[k].pc = pc /\ task'[k].wait = task[k].wait
      /\ task'[k].func = task[k].func /\ task'[k].arg = task[k].arg
      /\ \A j \in Cores \ {k} : task'[j] = task[j]
  BY <1>2, ProceedStep DEF TaskPCs
<1>4. TypeOK'
  <2>1. \A j \in Cores : task'[j].pc = "run" => task'[j].func # None
    BY <1>2, <1>3 DEF TypeOK
  <2> QED BY <1>1, <1>3, <2>1 DEF TypeOK, TaskType
<1>5. ASSUME NEW j \in Cores PROVE TaskOk(j)' /\ Tokens(j)'
  <2>1. CASE j = k
    <3>1. Tokens(k) /\ TaskOk(k) /\ Owner(k)' = Owner(k)
      BY <1>1 DEF Good, Owner
    <3>2. TaskOk(k)'
      BY <1>1, <1>2, <1>3, <3>1 DEF TaskOk
    <3>3. ~Serves(k)' /\ ~Serves(k) /\ (Carries(k)' <=> Carries(k))
      BY <1>1, <1>2, <1>3, Names DEF Carries, Serves
    <3> QED
      BY <1>1, <1>3, <2>1, <3>1, <3>2, <3>3 DEF Tokens, AtAck
  <2>2. CASE j # k
    BY <1>1, <1>3, <2>2, OthersKept
  <2> QED BY <2>1, <2>2
<1> QED BY <1>1, <1>4, <1>5, CallersKept DEF Good

\* The token passes from the task to the semaphore.
LEMMA KeepsGiveAck ==
    ASSUME TypeOK, Good, NEW k \in Cores, GiveAck(k)
    PROVE  TypeOK' /\ Good'
<1>1. /\ task[k].pc = "give" /\ task[k].wait \in Waits
      /\ ack' = [ack EXCEPT ![k] = TRUE]
      /\ UNCHANGED <<mutex, func, arg, note, call, gcovVars, aborted, stage>>
  BY DEF GiveAck, In, Good, TaskOk
<1>2. PICK pc \in {"run", "wait"} :
         Proceed(k, pc) /\ (pc = "run" <=> task[k].wait = "START")
  BY DEF GiveAck
<1>3. /\ task' \in TaskType
      /\ task'[k].pc = pc /\ task'[k].wait = task[k].wait
      /\ task'[k].func = task[k].func /\ task'[k].arg = task[k].arg
      /\ \A j \in Cores \ {k} : task'[j] = task[j]
  BY <1>2, ProceedStep DEF TaskPCs
<1>4. TypeOK'
  <2>1. task'[k].pc = "run" => task'[k].func # None
    BY <1>1, <1>2, <1>3 DEF Good, TaskOk
  <2>2. /\ ack' \in [Cores -> BOOLEAN]
        /\ \A j \in Cores : task'[j].pc = "run" => task'[j].func # None
    BY <1>1, <1>3, <2>1 DEF TypeOK
  <2> QED BY <1>1, <1>3, <2>2 DEF TypeOK, TaskType, gcovVars
<1>5. ASSUME NEW j \in Cores PROVE TaskOk(j)' /\ Tokens(j)'
  <2>1. CASE j = k
    <3>1. Tokens(k) /\ TaskOk(k) /\ Owner(k)' = Owner(k) /\ Serves(k)
      BY <1>1 DEF Good, Owner, Serves
    <3>2. TaskOk(k)'
      BY <1>1, <1>2, <1>3, <3>1 DEF TaskOk
    <3>3. ~Serves(k)' /\ ~Carries(k)' /\ note[k] \notin Waits
      BY <1>2, <1>3, <3>1, Names DEF Carries, Serves, Tokens, AtAck
    <3>4. /\ AtAck(Owner(k), k, task[k].wait) /\ func[k] = None
          /\ stage[Owner(k)] \in Done(task[k].wait)
      BY <1>1, <3>1 DEF Tokens, TaskOk, Done, Waits
    <3> QED
      BY <1>1, <1>3, <2>1, <3>1, <3>2, <3>3, <3>4 DEF Tokens, AtAck
  <2>2. CASE j # k
    BY <1>1, <1>3, <2>2, OthersKept DEF TypeOK
  <2> QED BY <2>1, <2>2
<1> QED BY <1>1, <1>4, <1>5, CallersKept DEF Good

\* The task looks, and there is nothing to execute.
LEMMA KeepsLookNothing ==
    ASSUME TypeOK, Good, NEW k \in Cores, LookFunc(k), func[k] = None
    PROVE  TypeOK' /\ Good'
<1>1. /\ task[k].pc = "look" /\ Proceed(k, "wait")
      /\ UNCHANGED <<mutex, ack, func, arg, note, call, gcovVars, aborted, stage>>
  BY DEF LookFunc, In
<1>2. /\ task' \in TaskType
      /\ task'[k].pc = "wait" /\ task'[k].wait = task[k].wait
      /\ task'[k].func = task[k].func /\ task'[k].arg = task[k].arg
      /\ \A j \in Cores \ {k} : task'[j] = task[j]
  BY <1>1, ProceedStep DEF TaskPCs
<1>3. TypeOK'
  BY <1>1, <1>2 DEF TypeOK, TaskType, gcovVars
<1>4. ASSUME NEW j \in Cores PROVE TaskOk(j)' /\ Tokens(j)'
  <2>1. CASE j = k
    <3>1. Tokens(k) /\ TaskOk(k) /\ Owner(k)' = Owner(k)
      BY <1>1 DEF Good, Owner
    <3>2. TaskOk(k)'
      BY <1>1, <1>2, <3>1 DEF TaskOk
    <3> QED
      BY <1>1, <1>2, <2>1, <3>1, <3>2 DEF Tokens, AtAck, Carries, Serves
  <2>2. CASE j # k
    BY <1>1, <1>2, <2>2, OthersKept
  <2> QED BY <2>1, <2>2
<1> QED BY <1>1, <1>3, <1>4, CallersKept DEF Good

\* What the task finds when it takes a function: one whose call is complete,
\* or a wake-up that is not for a call, and then the program is aborted.
LEMMA TakeFunc ==
    ASSUME TypeOK, Good, NEW k \in Cores, LookFunc(k), func[k] # None
    PROVE  /\ task[k].pc = "look" /\ task[k].func = None
           /\ func[k] \in Callers /\ stage[func[k]] = "asked"
           /\ call[func[k]].core = k
           /\ task' = [task EXCEPT ![k].func = func[k], ![k].arg = arg[k],
                 ![k].pc = IF task[k].wait = "START" THEN "give" ELSE "run"]
           /\ func' = [func EXCEPT ![k] = None]
           /\ aborted' = (task[k].wait = "NO")
           /\ stage' = [stage EXCEPT ![func[k]] = "begun"]
           /\ UNCHANGED <<mutex, ack, arg, note, call, gcovVars>>
<1>1. /\ task[k].pc = "look" /\ func[k] \in Callers
      /\ FuncOk(k) /\ TaskOk(k)
  BY DEF LookFunc, In, Good, TypeOK, Named
<1> QED BY <1>1 DEF LookFunc, FuncOk, TaskOk

LEMMA TakenTask ==
    ASSUME TypeOK, Good, NEW k \in Cores, LookFunc(k), func[k] # None
    PROVE  /\ task' \in TaskType
           /\ task'[k].wait = task[k].wait
           /\ task'[k].func = func[k] /\ task'[k].arg = arg[k]
           /\ task'[k].pc = IF task[k].wait = "START" THEN "give" ELSE "run"
           /\ \A j \in Cores \ {k} : task'[j] = task[j]
<1> DEFINE pc == IF task[k].wait = "START" THEN "give" ELSE "run"
<1>1. pc \in TaskPCs
  BY DEF TaskPCs
<1>2. task' = [task EXCEPT ![k].func = func[k], ![k].arg = arg[k], ![k].pc = pc]
  BY TakeFunc
<1> HIDE DEF pc
<1>3. task \in TaskType /\ func[k] \in Named /\ arg[k] \in Named
  BY DEF TypeOK, TaskType
<1>4. /\ task'[k].wait = task[k].wait
      /\ task'[k].func = func[k] /\ task'[k].arg = arg[k]
      /\ task'[k].pc = pc
      /\ \A j \in Cores \ {k} : task'[j] = task[j]
  BY <1>2, <1>3 DEF TaskType
<1>5. task' \in TaskType
  <2>1. task'[k] = [pc |-> pc, wait |-> task[k].wait, func |-> func[k], arg |-> arg[k]]
    BY <1>2, <1>3 DEF TaskType
  <2>2. task' = [task EXCEPT ![k] = [pc |-> pc, wait |-> task[k].wait,
                                     func |-> func[k], arg |-> arg[k]]]
    BY <1>2, <1>3, <2>1 DEF TaskType
  <2> QED BY <1>1, <1>3, <2>2 DEF TaskType
<1> QED BY <1>4, <1>5 DEF pc

LEMMA KeepsLookFunc ==
    ASSUME TypeOK, Good, NEW k \in Cores, LookFunc(k), func[k] # None
    PROVE  TypeOK' /\ (aborted' \/ Good')
<1> DEFINE c == func[k]
<1>1. /\ task[k].pc = "look" /\ task[k].func = None
      /\ c \in Callers /\ stage[c] = "asked" /\ call[c].core = k
      /\ func' = [func EXCEPT ![k] = None]
      /\ aborted' = (task[k].wait = "NO")
      /\ stage' = [stage EXCEPT ![c] = "begun"]
      /\ UNCHANGED <<mutex, ack, arg, note, call, gcovVars>>
  BY TakeFunc
<1>2. /\ task' \in TaskType
      /\ task'[k].wait = task[k].wait
      /\ task'[k].func = c /\ task'[k].arg = arg[k]
      /\ task'[k].pc = IF task[k].wait = "START" THEN "give" ELSE "run"
      /\ \A j \in Cores \ {k} : task'[j] = task[j]
  BY TakenTask
<1> HIDE DEF c
<1>3. /\ stage'[c] = "begun" /\ \A d \in Callers \ {c} : stage'[d] = stage[d]
      /\ func'[k] = None /\ \A j \in Cores \ {k} : func'[j] = func[j]
  BY <1>1 DEF TypeOK
<1>4. TypeOK'
  <2>1. \A j \in Cores : task'[j].pc = "run" => task'[j].func # None
    BY <1>1, <1>2, Names DEF TypeOK
  <2>2. func' \in [Cores -> Named] /\ aborted' \in BOOLEAN
        /\ stage' \in [Callers -> {"none", "asked", "begun", "ended"}]
    BY <1>1 DEF TypeOK, Named
  <2> QED BY <1>1, <1>2, <2>1, <2>2 DEF TypeOK, TaskType, gcovVars
<1>5. SUFFICES ASSUME task[k].wait # "NO" PROVE Good'
  BY <1>1, <1>4
<1>6. /\ Carries(k) /\ task[k].wait \in Waits
      /\ AtAck(c, k, task[k].wait) /\ Owner(k) = c /\ arg[k] = c
      /\ note[k] \notin Waits /\ ~ack[k]
  <2>1. Carries(k) /\ task[k].wait \in Waits
    BY <1>1, <1>5 DEF TypeOK, Carries
  <2>2. Tokens(k) /\ FuncOk(k) /\ c # None
    BY <1>1, Names DEF Good
  <2>3. AtAck(c, k, task[k].wait) /\ Owner(k) = c
    BY <2>1, <2>2 DEF Tokens, c
  <2>4. arg[k] = c
    BY <2>2, <2>3 DEF FuncOk, AtAck, c
  <2>5. note[k] \notin Waits /\ ~ack[k]
    BY <2>1, <2>2 DEF Tokens, c
  <2> QED BY <2>1, <2>3, <2>4, <2>5
<1>7. ASSUME NEW d \in Callers PROVE CallOk(d)'
  <2>1. CallOk(d) /\ Owner(call[d].core)' = Owner(call[d].core)
    BY <1>1 DEF Good, Owner
  <2>2. CASE d = c
    BY <1>1, <1>3, <1>6, <2>1, <2>2 DEF CallOk, AtAck
  <2>3. CASE d # c
    BY <1>1, <1>3, <1>6, <2>1, <2>3 DEF CallOk, Inside
  <2> QED BY <2>2, <2>3
<1>8. ASSUME NEW j \in Cores PROVE FuncOk(j)'
  <2>1. FuncOk(j) /\ func[j] \in Callers \cup {None}
    BY DEF Good, TypeOK, Named
  <2> QED BY <1>1, <1>3, <2>1 DEF FuncOk
<1>9. ASSUME NEW j \in Cores PROVE TaskOk(j)' /\ Tokens(j)'
  <2>1. Tokens(j) /\ TaskOk(j) /\ Owner(j)' = Owner(j)
    BY <1>1 DEF Good, Owner
  <2>2. CASE j = k
    <3>1. TaskOk(k)'
      BY <1>1, <1>2, <1>6, Names DEF TaskOk, Waits
    <3>2. ~Carries(k)'
      BY <1>2 DEF Carries
    <3> QED
      BY <1>1, <1>2, <1>3, <1>6, <2>1, <2>2, <3>1, <3>2, Names DEF Tokens, AtAck
  <2>3. CASE j # k
    <3>1. TaskOk(j)'
      BY <1>2, <2>1, <2>3 DEF TaskOk
    <3>2. \A u : AtAck(Owner(j), j, u) => Owner(j) \in Callers \ {c}
      BY <1>1, <2>3 DEF AtAck
    <3> QED
      BY <1>1, <1>2, <1>3, <2>1, <2>3, <3>1, <3>2 DEF Tokens, AtAck, Carries, Serves
  <2> QED BY <2>2, <2>3
<1> QED BY <1>7, <1>8, <1>9 DEF Good

\* The function has returned.  Its caller, if it has asked again since, is not
\* affected; a call that waits for the end now has its token at the task's last
\* step.
LEMMA EndedTask ==
    ASSUME TypeOK, NEW k \in Cores, EndFunc(k)
    PROVE  /\ task[k].pc = "run" /\ task[k].func \in Callers
           /\ task' \in TaskType
           /\ task'[k].wait = task[k].wait
           /\ task'[k].func = None /\ task'[k].arg = None
           /\ task'[k].pc = IF task[k].wait = "START" THEN "wait" ELSE "give"
           /\ \A j \in Cores \ {k} : task'[j] = task[j]
           /\ UNCHANGED <<mutex, ack, func, arg, note, call, gcovVars, aborted>>
<1> DEFINE pc == IF task[k].wait = "START" THEN "wait" ELSE "give"
<1>1. pc \in TaskPCs
  BY DEF TaskPCs
<1>2. /\ task' = [task EXCEPT ![k].func = None, ![k].arg = None, ![k].pc = pc]
      /\ task[k].pc = "run"
      /\ UNCHANGED <<mutex, ack, func, arg, note, call, gcovVars, aborted>>
  BY DEF EndFunc, In
<1>3. task \in TaskType /\ task[k].func \in Callers /\ None \in Named
  BY <1>2 DEF TypeOK, TaskType, Named
<1> HIDE DEF pc
<1>4. /\ task'[k].wait = task[k].wait
      /\ task'[k].func = None /\ task'[k].arg = None
      /\ task'[k].pc = pc
      /\ \A j \in Cores \ {k} : task'[j] = task[j]
  BY <1>2, <1>3 DEF TaskType
<1>5. task' \in TaskType
  <2>1. task'[k] = [pc |-> pc, wait |-> task[k].wait, func |-> None, arg |-> None]
    BY <1>2, <1>3 DEF TaskType
  <2>2. task' = [task EXCEPT ![k] = [pc |-> pc, wait |-> task[k].wait,
                                     func |-> None, arg |-> None]]
    BY <1>2, <1>3, <2>1 DEF TaskType
  <2> QED BY <1>1, <1>3, <2>2 DEF TaskType
<1> QED BY <1>2, <1>3, <1>4, <1>5 DEF pc

LEMMA KeepsEndFunc ==
    ASSUME TypeOK, Good, NEW k \in Cores, EndFunc(k)
    PROVE  TypeOK' /\ Good'
<1> DEFINE c == task[k].func
<1>1. /\ task[k].pc = "run" /\ c \in Callers
      /\ task' \in TaskType
      /\ task'[k].wait = task[k].wait
      /\ task'[k].func = None /\ task'[k].arg = None
      /\ task'[k].pc = IF task[k].wait = "START" THEN "wait" ELSE "give"
      /\ \A j \in Cores \ {k} : task'[j] = task[j]
      /\ UNCHANGED <<mutex, ack, func, arg, note, call, gcovVars, aborted>>
  BY EndedTask
<1>2. /\ stage'[c] = IF stage[c] = "begun" /\ call[c].core = k
                     THEN "ended" ELSE stage[c]
      /\ \A d \in Callers \ {c} : stage'[d] = stage[d]
      /\ stage' \in [Callers -> {"none", "asked", "begun", "ended"}]
  BY <1>1 DEF EndFunc, TypeOK
<1> HIDE DEF c
<1>3. TypeOK'
  BY <1>1, <1>2 DEF TypeOK, TaskType, gcovVars
<1>4. ASSUME NEW d \in Callers PROVE CallOk(d)'
  BY <1>1, <1>2 DEF Good, CallOk, Owner, Inside, Done, Waits
<1>5. ASSUME NEW j \in Cores PROVE FuncOk(j)'
  <2>1. FuncOk(j) /\ func[j] \in Callers \cup {None}
    BY DEF Good, TypeOK, Named
  <2> QED BY <1>1, <1>2, <2>1 DEF FuncOk
<1>6. ASSUME NEW j \in Cores PROVE TaskOk(j)' /\ Tokens(j)'
  <2>1. Tokens(j) /\ TaskOk(j) /\ Owner(j)' = Owner(j)
    BY <1>1 DEF Good, Owner
  <2>2. CASE j = k
    <3>1. TaskOk(k)' /\ task[k].wait \in Waits
      BY <1>1, <2>1, <2>2, Names DEF TaskOk, Waits
    <3>2. /\ ~Carries(k) /\ ~Carries(k)'
          /\ Serves(k) <=> task[k].wait = "END"
          /\ Serves(k)' <=> task[k].wait = "END"
      BY <1>1, <3>1 DEF Carries, Serves, Waits
    <3>3. Serves(k) => /\ AtAck(Owner(k), k, task[k].wait) /\ func[k] = None
                       /\ Owner(k) = c /\ stage[c] = "begun"
      BY <1>1, <2>1, <2>2, Names DEF Tokens, c
    <3>4. Serves(k)' => /\ AtAck(Owner(k), k, task[k].wait)' /\ func'[k] = None
                        /\ Owner(k)' = c /\ stage'[c] = "ended"
      BY <1>1, <1>2, <2>1, <2>2, <3>2, <3>3 DEF AtAck
    <3>5. ack[k] => stage'[Owner(k)] \in Done(call[Owner(k)].wait)
      BY <1>1, <1>2, <2>1, <2>2 DEF Tokens, AtAck, Done
    <3> QED
      BY <1>1, <2>1, <2>2, <3>1, <3>2, <3>4, <3>5 DEF Tokens, AtAck
  <2>3. CASE j # k
    <3>1. TaskOk(j)' /\ (Carries(j)' <=> Carries(j)) /\ (Serves(j)' <=> Serves(j))
      BY <1>1, <2>1, <2>3 DEF TaskOk, Carries, Serves
    <3>2. \A u : AtAck(Owner(j), j, u) => stage'[Owner(j)] = stage[Owner(j)]
      BY <1>2, <2>3 DEF AtAck
    <3> QED
      BY <1>1, <2>1, <2>3, <3>1, <3>2 DEF Tokens, AtAck
  <2> QED BY <2>2, <2>3
<1> QED BY <1>3, <1>4, <1>5, <1>6 DEF Good

\* The interrupt overwrites no notification of a call.
LEMMA KeepsInterrupt ==
    ASSUME TypeOK, Good, (\E k \in Cores : StartGcov(k)) \/ NotifyGcov
    PROVE  TypeOK' /\ Good'
<1>1. /\ UNCHANGED <<mutex, ack, func, arg, task, call, aborted, stage>>
      /\ gcovFunc' \in BOOLEAN /\ gcov' \in Cores \cup {None}
      /\ gcovLeft' \in 0 .. MaxGcov
  <2>1. CASE \E k \in Cores : StartGcov(k)
    <3>1. gcovLeft \in 0 .. MaxGcov /\ gcovLeft > 0 /\ gcovLeft' = gcovLeft - 1
      BY <2>1 DEF StartGcov, TypeOK
    <3>2. gcovLeft' \in 0 .. MaxGcov
      BY <3>1, EspIpcAssumption
    <3> QED BY <2>1, <3>2 DEF StartGcov
  <2>2. CASE NotifyGcov
    BY <2>2 DEF NotifyGcov, TypeOK
  <2> QED BY <2>1, <2>2
<1>2. /\ note' \in [Cores -> Waits \cup {"NO", None}]
      /\ \A j \in Cores : note'[j] # note[j] => note[j] = None /\ note'[j] = "NO"
  BY DEF StartGcov, NotifyGcov, TypeOK
<1>3. TypeOK'
  BY <1>1, <1>2 DEF TypeOK
<1>4. ASSUME NEW j \in Cores PROVE TaskOk(j)' /\ Tokens(j)'
  <2>1. Tokens(j) /\ TaskOk(j) /\ Owner(j)' = Owner(j)
    BY <1>1 DEF Good, Owner
  <2>2. note'[j] \in Waits => note'[j] = note[j]
    BY <1>2, Names
  <2> QED BY <1>1, <2>1, <2>2 DEF TaskOk, Tokens, AtAck, Carries, Serves
<1> QED BY <1>1, <1>3, <1>4, CallersKept DEF Good

-----------------------------------------------------------------------------
\* An aborted program does nothing.
LEMMA AbortedStops == Next => ~aborted
BY DEF Next, Ask, Lock, CallStep, SetFunc, SetArg, Notify, TakeAck, Unlock,
       TaskStep, Wake, LookGcov, EndGcov, LookFunc, GiveAck, EndFunc,
       StartGcov, NotifyGcov, At, In

LEMMA InvInit == Init => Inv
<1> SUFFICES ASSUME Init PROVE Inv
  OBVIOUS
<1>1. TypeOK
  <2>1. Sleeps \in [pc : TaskPCs, wait : Waits \cup {"NO"}, func : Named, arg : Named]
    BY DEF Sleeps, TaskPCs, Named
  <2>2. NotCalling \in [pc : CallPCs, core : Cores \cup {None},
                       wait : Waits \cup {"NO"}]
    BY DEF NotCalling, CallPCs
  <2>3. \A k \in Cores : task[k].pc # "run"
    BY DEF Init, Sleeps
  <2>4. gcovLeft \in 0 .. MaxGcov /\ gcovFunc = FALSE /\ gcov = None
    BY EspIpcAssumption DEF Init
  <2>5. /\ mutex \in [Cores -> Named] /\ func \in [Cores -> Named]
        /\ arg \in [Cores -> Named]
        /\ ack \in [Cores -> BOOLEAN] /\ aborted = FALSE
        /\ note \in [Cores -> Waits \cup {"NO", None}]
    BY DEF Init, Named
  <2>6. /\ task = [k \in Cores |-> Sleeps]
        /\ call = [c \in Callers |-> NotCalling]
        /\ stage \in [Callers -> {"none", "asked", "begun", "ended"}]
    BY DEF Init
  <2>7. /\ task \in [Cores -> [pc : TaskPCs, wait : Waits \cup {"NO"},
                              func : Named, arg : Named]]
        /\ call \in [Callers -> [pc : CallPCs, core : Cores \cup {None},
                                wait : Waits \cup {"NO"}]]
    BY <2>1, <2>2, <2>6
  <2> QED BY <2>3, <2>4, <2>5, <2>6, <2>7 DEF TypeOK
<1>2. Good
  BY Names DEF Init, Good, CallOk, FuncOk, TaskOk, Tokens, Carries, Serves,
       NotCalling, Sleeps, Inside
<1> QED BY <1>1, <1>2 DEF Inv

LEMMA InvNext == Inv /\ [Next]_vars => Inv'
<1> SUFFICES ASSUME Inv, [Next]_vars PROVE Inv'
  OBVIOUS
<1>1. CASE UNCHANGED vars
  <2>1. UNCHANGED <<mutex, ack, func, arg, note, task, call, gcovFunc, gcov,
                    gcovLeft, aborted, stage>>
    BY <1>1 DEF vars, gcovVars
  <2>2. TypeOK'
    BY <2>1 DEF Inv, TypeOK
  <2>3. ASSUME Good PROVE Good'
    <3>1. \A k \in Cores : TaskOk(k)' /\ Tokens(k)'
      BY <2>1, <2>3, OthersKept
    <3> QED BY <2>1, <2>3, <3>1, CallersKept DEF Good
  <2> QED BY <2>1, <2>2, <2>3 DEF Inv
<1>2. CASE Next
  <2>1. TypeOK /\ Good
    BY <1>2, AbortedStops DEF Inv
  <2>2. ASSUME NEW c \in Callers, NEW k \in Cores, NEW w \in Waits, Ask(c, k, w)
        PROVE  Inv'
    BY <2>1, <2>2, KeepsAsk DEF Inv
  <2>3. ASSUME NEW c \in Callers, Lock(c) \/ CallStep(c) PROVE Inv'
    BY <2>1, <2>3, KeepsLock, KeepsSetFunc, KeepsSetArg, KeepsNotify,
       KeepsTakeAck, KeepsUnlock DEF Inv, CallStep
  <2>4. ASSUME NEW k \in Cores, TaskStep(k) PROVE Inv'
    <3>1. CASE LookFunc(k)
      BY <2>1, <3>1, KeepsLookNothing, KeepsLookFunc DEF Inv
    <3>2. CASE ~LookFunc(k)
      BY <2>1, <2>4, <3>2, KeepsWake, KeepsGcov, KeepsGiveAck, KeepsEndFunc
      DEF Inv, TaskStep
    <3> QED BY <3>1, <3>2
  <2>5. CASE (\E k \in Cores : StartGcov(k)) \/ NotifyGcov
    BY <2>1, <2>5, KeepsInterrupt DEF Inv
  <2> QED BY <1>2, <2>2, <2>3, <2>4, <2>5 DEF Next
<1> QED BY <1>1, <1>2

LEMMA Invariance == Spec => []Inv
BY InvInit, InvNext, PTL DEF Spec

\* Type correctness of the calls and the IPC tasks.
THEOREM TypeCorrect == Spec => []TypeOK
<1>1. Inv => TypeOK
  BY DEF Inv
<1> QED BY <1>1, Invariance, PTL

\* ipc_task executes a function with the argument esp_ipc_call stored with it.
THEOREM OwnArgumentCorrect == Spec => []OwnArgument
<1>1. Inv => OwnArgument
  BY DEF Inv, Good, TaskOk, OwnArgument
<1> QED BY <1>1, Invariance, PTL

-----------------------------------------------------------------------------
\* The refinement, step by step: the calls and the cores as RemoteCall sees
\* them.
Asked(c) == [core |-> call[c].core, wait |-> call[c].wait, stage |-> stage[c]]
Asks     == [c \in Callers |-> Asked(c)]
Busy     == [k \in Cores |-> task[k].func]

\* A step that changes no call and no function is a stutter.
LEMMA Stutters ==
    ASSUME \A d \in Callers : Asked(d)' = Asked(d),
           \A j \in Cores : task'[j].func = task[j].func
    PROVE  UNCHANGED <<Asks, Busy>>
BY DEF Asks, Busy

LEMMA OneAsks ==
    ASSUME NEW c \in Callers, NEW r, Asked(c)' = r,
           \A d \in Callers \ {c} : Asked(d)' = Asked(d)
    PROVE  Asks' = [Asks EXCEPT ![c] = r]
BY DEF Asks

LEMMA OneBusy ==
    ASSUME NEW k \in Cores, NEW f, task'[k].func = f,
           \A j \in Cores \ {k} : task'[j] = task[j]
    PROVE  Busy' = [Busy EXCEPT ![k] = f]
BY DEF Busy

LEMMA MapsInit == Init => Remote!Init
BY DEF Init, Remote!Init, Remote!NoAsk, NotCalling, Sleeps

LEMMA MapsAsk ==
    ASSUME TypeOK, Good, NEW c \in Callers, NEW k \in Cores, NEW w \in Waits,
           Ask(c, k, w)
    PROVE  Remote!Ask(c, k, w)
<1>1. call[c] = NotCalling /\ stage[c] = "none"
  BY DEF Ask, At, Good, CallOk
<1>2. /\ call' = [call EXCEPT ![c] = [pc |-> "lock", core |-> k, wait |-> w]]
      /\ stage' = [stage EXCEPT ![c] = "asked"]
      /\ task' = task
  BY DEF Ask
<1>3. /\ call'[c].core = k /\ call'[c].wait = w
      /\ \A d \in Callers \ {c} : call'[d] = call[d]
      /\ stage'[c] = "asked" /\ \A d \in Callers \ {c} : stage'[d] = stage[d]
  BY <1>2 DEF TypeOK
<1>4. /\ Asked(c)' = [core |-> k, wait |-> w, stage |-> "asked"]
      /\ \A d \in Callers \ {c} : Asked(d)' = Asked(d)
  BY <1>3 DEF Asked
<1>5. Asks' = [Asks EXCEPT ![c] = [core |-> k, wait |-> w, stage |-> "asked"]]
  BY <1>4, OneAsks
<1>6. Asks[c] = Remote!NoAsk /\ Busy' = Busy
  BY <1>1, <1>2 DEF Asks, Asked, Busy, Remote!NoAsk, NotCalling
<1> QED BY <1>5, <1>6 DEF Remote!Ask, Asks, Asked, Busy

\* The caller returns after what it waited for.
LEMMA MapsUnlock ==
    ASSUME TypeOK, Good, NEW c \in Callers, Unlock(c)
    PROVE  Remote!Return(c)
<1>1. call[c].wait \in Waits /\ stage[c] \in Done(call[c].wait)
  BY DEF Unlock, At, Good, CallOk
<1>2. /\ call' = [call EXCEPT ![c] = NotCalling]
      /\ stage' = [stage EXCEPT ![c] = "none"]
      /\ task' = task
  BY DEF Unlock
<1>3. /\ call'[c] = NotCalling /\ \A d \in Callers \ {c} : call'[d] = call[d]
      /\ stage'[c] = "none" /\ \A d \in Callers \ {c} : stage'[d] = stage[d]
  BY <1>2 DEF TypeOK
<1>4. /\ Asked(c)' = Remote!NoAsk
      /\ \A d \in Callers \ {c} : Asked(d)' = Asked(d)
  BY <1>3 DEF Asked, Remote!NoAsk, NotCalling
<1>5. Asks' = [Asks EXCEPT ![c] = Remote!NoAsk] /\ Busy' = Busy
  BY <1>2, <1>4, OneAsks DEF Busy
<1>6. \/ Asks[c].wait = "START" /\ Asks[c].stage \in {"begun", "ended"}
      \/ Asks[c].wait = "END" /\ Asks[c].stage = "ended"
  BY <1>1 DEF Asks, Asked, Done, Waits
<1> QED BY <1>5, <1>6 DEF Remote!Return, Asks, Asked, Busy

\* The task begins the function of a call that was sent to its core.
LEMMA MapsLookFunc ==
    ASSUME TypeOK, Good, NEW k \in Cores, LookFunc(k), func[k] # None
    PROVE  \E c \in Callers : Remote!Begin(c, k)
<1>0. PICK c \in Callers : c = func[k]
  BY TakeFunc
<1>1. /\ task[k].func = None
      /\ stage[c] = "asked" /\ call[c].core = k
      /\ stage' = [stage EXCEPT ![c] = "begun"] /\ call' = call
  BY <1>0, TakeFunc
<1>2. task'[k].func = c /\ \A j \in Cores \ {k} : task'[j] = task[j]
  BY <1>0, TakenTask
<1>3. stage'[c] = "begun" /\ \A d \in Callers \ {c} : stage'[d] = stage[d]
  BY <1>1 DEF TypeOK
<1>4. /\ Asked(c)' = [Asked(c) EXCEPT !.stage = "begun"]
      /\ \A d \in Callers \ {c} : Asked(d)' = Asked(d)
  BY <1>1, <1>3 DEF Asked
<1>5. Asks' = [Asks EXCEPT ![c] = [Asked(c) EXCEPT !.stage = "begun"]]
  BY <1>1, <1>4, OneAsks
<1>6. Asks' = [Asks EXCEPT ![c].stage = "begun"]
  BY <1>1, <1>5 DEF Asks
<1>7. Busy' = [Busy EXCEPT ![k] = c]
  BY <1>2, OneBusy
<1>8. Asks[c].stage = "asked" /\ Asks[c].core = k /\ Busy[k] = None
  BY <1>1 DEF Asks, Asked, Busy
<1>9. Remote!Begin(c, k)
  BY <1>6, <1>7, <1>8 DEF Remote!Begin, Asks, Asked, Busy
<1> QED BY <1>1, <1>9

\* The function ends, for a caller that waits, has returned or has asked again.
LEMMA MapsEndFunc ==
    ASSUME TypeOK, Good, NEW k \in Cores, EndFunc(k)
    PROVE  Remote!End(k)
<1>0. PICK c \in Callers : c = task[k].func
  BY EndedTask
<1>1. /\ task'[k].func = None /\ call' = call
      /\ \A j \in Cores \ {k} : task'[j] = task[j]
  BY EndedTask
<1>2. stage' = IF stage[c] = "begun" /\ call[c].core = k
               THEN [stage EXCEPT ![c] = "ended"] ELSE stage
  BY <1>0 DEF EndFunc
<1>3. Busy[k] = c
  BY <1>0 DEF Busy
<1>4. Busy[k] # None /\ Busy' = [Busy EXCEPT ![k] = None]
  BY <1>1, <1>3, Names, OneBusy
<1>5. CASE stage[c] = "begun" /\ call[c].core = k
  <2>1. /\ Asked(c)' = [Asked(c) EXCEPT !.stage = "ended"]
        /\ \A d \in Callers \ {c} : Asked(d)' = Asked(d)
    BY <1>1, <1>2, <1>5 DEF Asked, TypeOK
  <2>2. Asks' = [Asks EXCEPT ![c] = [Asked(c) EXCEPT !.stage = "ended"]]
    BY <1>1, <2>1, OneAsks
  <2>3. Asks' = [Asks EXCEPT ![c].stage = "ended"]
    BY <1>1, <2>2 DEF Asks
  <2>4. Asks[c].stage = "begun" /\ Asks[c].core = k
    BY <1>1, <1>5 DEF Asks, Asked
  <2>5. Asks' = Remote!Ran(Asks, Busy[k], k)
    BY <1>3, <2>3, <2>4 DEF Remote!Ran
  <2> QED BY <1>4, <2>5 DEF Remote!End, Asks, Asked, Busy
<1>6. CASE ~(stage[c] = "begun" /\ call[c].core = k)
  <2>1. Asks' = Asks
    BY <1>1, <1>2, <1>6 DEF Asks, Asked
  <2>2. ~(Asks[c].stage = "begun" /\ Asks[c].core = k)
    BY <1>1, <1>6 DEF Asks, Asked
  <2>3. Asks' = Remote!Ran(Asks, Busy[k], k)
    BY <1>3, <2>1, <2>2 DEF Remote!Ran
  <2> QED BY <1>4, <2>3 DEF Remote!End, Asks, Asked, Busy
<1> QED BY <1>5, <1>6

\* The other steps of a caller change its program counter.
LEMMA CallerStutters ==
    ASSUME TypeOK, NEW c \in Callers,
           Lock(c) \/ SetFunc(c) \/ SetArg(c) \/ Notify(c) \/ TakeAck(c)
    PROVE  UNCHANGED <<Asks, Busy>>
<1>1. stage' = stage /\ task' = task
  BY DEF Lock, SetFunc, SetArg, Notify, TakeAck
<1>2. PICK pc \in CallPCs : Goto(c, pc)
  BY DEF Lock, SetFunc, SetArg, Notify, TakeAck, CallPCs
<1>3. /\ call'[c].core = call[c].core /\ call'[c].wait = call[c].wait
      /\ \A d \in Callers \ {c} : call'[d] = call[d]
  BY <1>2, GotoStep
<1> QED BY <1>1, <1>3, Stutters DEF Asked

\* So do the other steps of a task.
LEMMA TaskStutters ==
    ASSUME TypeOK, Good, NEW k \in Cores,
           \/ Wake(k) \/ LookGcov(k) \/ EndGcov(k) \/ GiveAck(k)
           \/ LookFunc(k) /\ func[k] = None
    PROVE  UNCHANGED <<Asks, Busy>>
<1>1. stage' = stage /\ call' = call
  BY DEF Wake, LookGcov, EndGcov, GiveAck, LookFunc
<1>2. CASE Wake(k)
  <2>1. task[k].func = None
    BY <1>2 DEF Wake, In, Good, TaskOk
  <2>2. task'[k].func = None /\ \A j \in Cores \ {k} : task'[j] = task[j]
    BY <1>2 DEF Wake, TypeOK
  <2> QED BY <1>1, <2>1, <2>2, Stutters DEF Asked
<1>3. CASE ~Wake(k)
  <2>1. PICK pc \in TaskPCs : Proceed(k, pc)
    BY <1>3 DEF LookGcov, EndGcov, GiveAck, LookFunc, TaskPCs
  <2>2. /\ task'[k].func = task[k].func
        /\ \A j \in Cores \ {k} : task'[j] = task[j]
    BY <2>1, ProceedStep
  <2> QED BY <1>1, <2>2, Stutters DEF Asked
<1> QED BY <1>2, <1>3

LEMMA NextMaps == Inv /\ [Next]_vars => [Remote!Next]_<<Asks, Busy>>
<1> SUFFICES ASSUME Inv, [Next]_vars PROVE [Remote!Next]_<<Asks, Busy>>
  OBVIOUS
<1>1. CASE UNCHANGED vars
  BY <1>1 DEF vars, Asks, Asked, Busy
<1>2. CASE Next
  <2>1. TypeOK /\ Good
    BY <1>2, AbortedStops DEF Inv
  <2>2. ASSUME NEW c \in Callers, NEW k \in Cores, NEW w \in Waits, Ask(c, k, w)
        PROVE  Remote!Next
    <3>1. Remote!Ask(c, k, w)
      BY <2>1, <2>2, MapsAsk
    <3> QED BY <3>1 DEF Remote!Next, Waits
  <2>3. ASSUME NEW c \in Callers, Lock(c) \/ CallStep(c)
        PROVE  Remote!Next \/ UNCHANGED <<Asks, Busy>>
    <3>1. CASE Unlock(c)
      <4>1. Remote!Return(c)
        BY <2>1, <3>1, MapsUnlock
      <4> QED BY <4>1 DEF Remote!Next
    <3>2. CASE ~Unlock(c)
      BY <2>1, <2>3, <3>2, CallerStutters DEF CallStep
    <3> QED BY <3>1, <3>2
  <2>4. ASSUME NEW k \in Cores, TaskStep(k)
        PROVE  Remote!Next \/ UNCHANGED <<Asks, Busy>>
    <3>1. CASE LookFunc(k) /\ func[k] # None
      <4>1. \E c \in Callers : Remote!Begin(c, k)
        BY <2>1, <3>1, MapsLookFunc
      <4> QED BY <4>1 DEF Remote!Next
    <3>2. CASE EndFunc(k)
      <4>1. Remote!End(k)
        BY <2>1, <3>2, MapsEndFunc
      <4> QED BY <4>1 DEF Remote!Next
    <3>3. CASE ~EndFunc(k) /\ ~(LookFunc(k) /\ func[k] # None)
      BY <2>1, <2>4, <3>3, TaskStutters DEF TaskStep
    <3> QED BY <3>1, <3>2, <3>3
  <2>5. CASE (\E k \in Cores : StartGcov(k)) \/ NotifyGcov
    <3>1. UNCHANGED <<call, task, stage>>
      BY <2>5 DEF StartGcov, NotifyGcov
    <3> QED BY <3>1 DEF Asks, Asked, Busy
  <2> QED BY <1>2, <2>2, <2>3, <2>4, <2>5 DEF Next
<1> QED BY <1>1, <1>2

\* esp_ipc.c implements the promise of esp_ipc.h: each function is executed
\* once, on its core, one at a time, and a call returns after the beginning or
\* the end of its function.
THEOREM KeepsPromiseCorrect == Spec => KeepsPromise
<1>1. Inv /\ [Next]_vars =>
         [Remote!Next]_<<[c \in Callers |-> [core |-> call[c].core,
                                             wait |-> call[c].wait,
                                             stage |-> stage[c]]],
                         [k \in Cores |-> task[k].func]>>
  BY NextMaps DEF Asks, Asked, Busy
<1> QED BY <1>1, MapsInit, Invariance, PTL DEF Spec, KeepsPromise, Remote!Spec
=============================================================================
