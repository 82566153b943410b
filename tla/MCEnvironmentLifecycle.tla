----------------------- MODULE MCEnvironmentLifecycle -----------------------
(* Small instances of EnvironmentLifecycle for TLC. *)
EXTENDS EnvironmentLifecycle, TLC

CONSTANTS c1, c2, w1, start1, stop1, delete1, none

CallSymmetry == Permutations(Calls)
=============================================================================
