------------------------------ MODULE RuntimeRow ------------------------------
(***************************************************************************)
(* What the Workspace Runtime session store does to one generation's row.  *)
(* A row of workspace_runtime_generations is a record                      *)
(*   [last |-> last_sequence, lifecycle |-> lifecycle_state,               *)
(*    conn |-> connection_state, session |-> current_session_id]           *)
(* and the ledger workspace_runtime_events is a set of events              *)
(*   [seq |-> sequence, id |-> event_id, body |-> type and content].       *)
(* The fingerprint of an event is its whole record.  The body of a         *)
(* lifecycle event is the state it reports; all other kinds are "other".   *)
(***************************************************************************)
EXTENDS Naturals

NoSession == 0

Lifecycles ==
  {"starting", "running", "suspended", "stopping", "stopped", "failed"}

ConnectionStates ==
  {"connecting", "online", "disconnected", "stale", "stopped", "superseded"}

\* The lifecycle states that may follow each state.
ValidTransition(current, next) ==
  next \in CASE current = "starting"  -> {"starting", "running", "stopping", "failed"}
             [] current = "running"   -> {"running", "suspended", "stopping", "failed"}
             [] current = "suspended" -> {"suspended", "running", "stopping", "failed"}
             [] current = "stopping"  -> {"stopping", "stopped", "failed"}
             [] current = "stopped"   -> {"stopped"}
             [] current = "failed"    -> {"failed", "stopping", "stopped"}

\* A generation as `issue` inserts it.
NewRow == [last |-> 0, lifecycle |-> "starting", conn |-> "connecting",
           session |-> NoSession]

\* Registration is refused on a stopped row and when the client claims to have
\* been acknowledged beyond what was persisted.
MayRegister(row, resume) == row.lifecycle # "stopped" /\ resume <= row.last

\* Mutant: only a first registration puts the row online.
RegisteredOnce(row, session) ==
  [row EXCEPT !.session = session,
              !.conn = IF @ = "connecting" THEN "online" ELSE @]

Registered(row, session) == [row EXCEPT !.session = session, !.conn = "online"]

\* Mutant: any session of the row may append.
MayAppendOnline(row, session) == row.conn = "online" /\ row.lifecycle # "stopped"

MayAppend(row, session) ==
  row.session = session /\ row.conn = "online" /\ row.lifecycle # "stopped"

\* Ledger rows that share the event's identity or its place.
Prior(ledger, e) == {r \in ledger : r.id = e.id \/ r.seq = e.seq}

IsReplay(ledger, e) == Prior(ledger, e) = {e}

\* Mutant: a gap in the sequence is accepted.
IsLater(row, ledger, e) ==
  /\ Prior(ledger, e) = {}
  /\ e.seq > row.last
  /\ e.body \in Lifecycles => ValidTransition(row.lifecycle, e.body)

IsNext(row, ledger, e) ==
  /\ Prior(ledger, e) = {}
  /\ e.seq = row.last + 1
  /\ e.body \in Lifecycles => ValidTransition(row.lifecycle, e.body)

\* Mutant: every event overwrites the lifecycle state.
AppliedAlways(row, e) == [row EXCEPT !.last = e.seq, !.lifecycle = e.body]

Applied(row, e) ==
  [row EXCEPT !.last = e.seq,
              !.lifecycle = IF e.body \in Lifecycles THEN e.body ELSE @,
              !.conn = IF e.body = "stopped" THEN "stopped" ELSE @]

\* A socket that closes marks the row only while the row is still its own.
Disconnected(row, session) ==
  IF row.session = session /\ row.conn = "online"
  THEN [row EXCEPT !.conn = "disconnected"] ELSE row

MayTurnStale(row) == row.conn \in {"online", "disconnected"}

Staled(row) == [row EXCEPT !.conn = "stale"]
===============================================================================
