------------------------------ MODULE MCTaskWdt ------------------------------
(* Model values and symmetry for checking TaskWdt on small instances.        *)
EXTENDS TaskWdt, TLC
CONSTANTS c1, c2, i1, i2
TwoClients == {c1, c2}
OneClient  == {c1}
OneIdle    == {i1}
TwoIdle    == {i1, i2}
Symmetry   == Permutations(Clients) \cup Permutations(Idle)
=============================================================================
