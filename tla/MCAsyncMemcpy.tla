---- MODULE MCAsyncMemcpy ----
EXTENDS AsyncMemcpy

CONSTANTS r1, r2, r3

TwoRequests == {r1, r2}
ThreeRequests == {r1, r2, r3}
====
