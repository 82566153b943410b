--------------------------- MODULE MCQueuedSends ----------------------------
(* Instances of QueuedSends for TLC. *)
EXTENDS QueuedSends, TLC

CONSTANTS q1, d1, s1, s2, c1, c2
===============================================================================
