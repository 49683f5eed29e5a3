------------------------------- MODULE MCGdma -------------------------------
(* Model values and symmetry for checking Gdma on small instances.         *)
EXTENDS Gdma, TLC

CONSTANTS t1, t2, c1, c2, c3

TwoTasks == {t1, t2}
OneChannel == {c1}
TwoChannels == {c1, c2}
ThreeChannels == {c1, c2, c3}

\* Callers who only search and delete: they neither connect nor register
\* callbacks, and search for transmit channels.  Two searches at a time can
\* then take the last pair and find all pairs occupied, in a state space that
\* is small enough for liveness.  Nothing restricts the steps inside a call.
SearchNext ==
    /\ Next
    /\ \A c \in Channels : chan'[c].periph = NotConnected /\ ~chan'[c].intr
    /\ \A t \in Tasks :
          call'[t].pc = "acquireGroup" => chan'[call'[t].obj].dir = "TX"
SearchSpec == Init /\ [][SearchNext]_vars /\ \A t \in Tasks : WF_vars(Step(t))

Symmetry == Permutations(Tasks) \cup Permutations(Channels)
=============================================================================
