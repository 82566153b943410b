--------------------------- MODULE MCRuntimeDelivery ---------------------------
\* Small instances of RuntimeDelivery for TLC.
EXTENDS RuntimeDelivery

MCConns == {1, 2}
===============================================================================
