------------------------------ MODULE MCEspIpc ------------------------------
(* Model values for checking EspIpc on small instances.                     *)
EXTENDS EspIpc
CONSTANTS c1, c2, c3
TwoCallers   == {c1, c2}
ThreeCallers == {c1, c2, c3}
TwoCores     == {0, 1}
=============================================================================
