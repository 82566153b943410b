------------------------------ MODULE EventLedger ------------------------------
(***************************************************************************)
(* What event delivery promises: the events a Workspace Runtime wrote to   *)
(* its journal file reach the server's ledger once each, in the order in   *)
(* which they were written, with nothing lost and nothing added.           *)
(***************************************************************************)
EXTENDS Naturals, Sequences

CONSTANT Event

VARIABLES written, stored

Init == written = <<>> /\ stored = <<>>

\* A save of the journal file may make several new events durable.
Write == /\ written' \in Seq(Event) /\ Len(written) < Len(written')
         /\ written = SubSeq(written', 1, Len(written))
         /\ UNCHANGED stored

\* The server persists the oldest event it does not have yet.
Store == /\ Len(stored) < Len(written)
         /\ stored' = Append(stored, written[Len(stored) + 1])
         /\ UNCHANGED written

Next == Write \/ Store

Spec == Init /\ [][Next]_<<written, stored>>
===============================================================================
