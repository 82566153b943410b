---------------------------- MODULE MCTaskExecution ----------------------------
EXTENDS TaskExecution, TLC

CONSTANTS e1, e2, start1, cancel1, archive1, start2, send2, respond2, c1, c2

CallSymmetry == Permutations(Calls)
MCEnvOf == [e \in Execs |-> "env"]
MCKind == [o \in Ops |->
  CASE o \in {start1, start2} -> "start" [] o = cancel1 -> "cancel" [] o = send2 -> "send"
    [] o = respond2 -> "respond" [] OTHER -> "archive"]
MCOf == [o \in Ops |-> IF o \in {start2, send2, respond2} THEN e2 ELSE e1]
================================================================================
