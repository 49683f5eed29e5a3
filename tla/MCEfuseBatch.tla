----------------------------- MODULE MCEfuseBatch -----------------------------
(* Values for checking EfuseBatch on small instances.                       *)
EXTENDS EfuseBatch
CONSTANTS t1, t2, rd1
TwoTasks  == {t1, t2}
OneReader == {rd1}
\* BLOCK0 with one register, a coded block with two.
WidthOf   == [r \in 0 .. 2 |-> 1]
OneTwo    == [r \in 0 .. 2 |-> IF r = 0 THEN 0 ELSE 1]
=============================================================================
