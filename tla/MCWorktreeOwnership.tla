------------------------ MODULE MCWorktreeOwnership ------------------------
(* A small repository: two worktree paths, two threads, two processes.                  *)
EXTENDS WorktreeOwnership, TLC

CONSTANTS w1, w2, t1, t2, s1, s2, p1, p2

OwnershipSymmetry ==
  Permutations(Trees) \cup Permutations(Threads) \cup Permutations(Spaces) \cup Permutations(Procs)
===============================================================================
