--------------------------- MODULE MCRuntimeControl ---------------------------
\* Small instances of RuntimeControl for TLC.
EXTENDS RuntimeControl

CONSTANTS o1, o2, c1, c2

MCOps == {o1, o2}
OneOp == {o1}
OneCall == {c1}
TwoCalls == {c1, c2}
MCSessions == 1..8
===============================================================================
