----------------------------- MODULE RemoteCall -----------------------------
(***************************************************************************)
(* What esp_ipc promises (components/esp_system/include/esp_ipc.h): the    *)
(* function of a call is executed exactly once, on the core it was sent    *)
(* to, one function at a time.  esp_ipc_call returns once it has begun,    *)
(* esp_ipc_call_blocking once it has ended.                                *)
(***************************************************************************)
CONSTANTS Callers, Cores, None

VARIABLES
    ask,   \* the current call of each caller: core, what it waits for, stage
    busy   \* the caller whose function a core executes

NoAsk == [core |-> None, wait |-> "NO", stage |-> "none"]

Init == /\ ask = [c \in Callers |-> NoAsk]
        /\ busy = [k \in Cores |-> None]

Ask(c, k, w) ==
    /\ ask[c] = NoAsk
    /\ ask' = [ask EXCEPT ![c] = [core |-> k, wait |-> w, stage |-> "asked"]]
    /\ UNCHANGED busy

Begin(c, k) ==
    /\ ask[c].stage = "asked" /\ ask[c].core = k
    /\ busy[k] = None
    /\ ask' = [ask EXCEPT ![c].stage = "begun"]
    /\ busy' = [busy EXCEPT ![k] = c]

\* A caller that did not wait may have returned, and may have asked again.
Ran(asked, c, k) ==
    IF asked[c].stage = "begun" /\ asked[c].core = k
    THEN [asked EXCEPT ![c].stage = "ended"]
    ELSE asked

End(k) ==
    /\ busy[k] # None
    /\ ask' = Ran(ask, busy[k], k)
    /\ busy' = [busy EXCEPT ![k] = None]

Return(c) ==
    /\ \/ ask[c].wait = "START" /\ ask[c].stage \in {"begun", "ended"}
       \/ ask[c].wait = "END" /\ ask[c].stage = "ended"
    /\ ask' = [ask EXCEPT ![c] = NoAsk]
    /\ UNCHANGED busy

Next == \/ \E c \in Callers, k \in Cores :
              Ask(c, k, "START") \/ Ask(c, k, "END") \/ Begin(c, k)
        \/ \E k \in Cores : End(k)
        \/ \E c \in Callers : Return(c)

Spec == Init /\ [][Next]_<<ask, busy>>
=============================================================================
