------------------------ MODULE EnvironmentLifecycle ------------------------
(* Starting, stopping and deleting one provider-managed execution environment (a GitHub  *)
(* Codespace) while Codex tasks are admitted to it and run in it: the operations' rows   *)
(* with their fence, the stored observation of the provider, the safety check before a   *)
(* stop or a delete, and the answers of the provider, which may fail, be lost, or be     *)
(* saved later than a newer one.  Provisioning, which comes before the environment       *)
(* exists, is left out.                                                                  *)
EXTENDS Integers, FiniteSets

CONSTANTS Starts, Stops, Deletes,  \* operation IDs of the requests, by their action
          None,                    \* the operation of a status request
          Calls,                   \* requests handled at the same time
          Works,                   \* tasks of the environment, each a Codex thread
          MaxTroubles              \* bound: failed or lost answers, handlers that die, and
                                   \* changes of the environment that are made elsewhere

Ops == Starts \cup Stops \cup Deletes

ASSUME OperationsAssumption ==
  /\ Starts \cap (Stops \cup Deletes) = {} /\ Stops \cap Deletes = {} /\ None \notin Ops
ASSUME TroublesAssumption == MaxTroubles \in Nat

VARIABLES op,      \* op[o]: the state of the operation's row
          call,    \* call[c]: what the request's handler does next (at), for which operation
                   \* (of), what its observation is for (why) and the state observed (seen)
          fresh,   \* requests that hold an observation newer than the stored one
          before,  \* before[c]: those of them whose observation is older than c's
          bind,    \* the stored lifecycle state of the environment
          env,     \* the state of the Codespace itself
          row,     \* row[w]: the task's row in codex_machine_task_starts or _sends
          late,    \* late[w]: its message waited in the queue and was taken up without admission
          ran,     \* ran[w]: the turn of its row has begun
          thread,  \* thread[w]: the task's thread as the Codex host lists it
          hits,    \* hits[o]: how often the provider carried the operation out
          troubles \* failures, deaths and changes elsewhere so far

handler == <<call, fresh, before>>
tasks == <<row, late, ran, thread>>
vars == <<op, handler, bind, env, tasks, hits, troubles>>

Native == {"starting", "running", "stopping", "stopped"}
Lifecycle == Native \cup {"failed", "deleted"}
Safe == {"stopped", "deleted"}
Steps == {"idle", "ask", "read", "save", "rows", "list", "act", "unsure", "retry", "complete"}
Idle == [at |-> "idle", of |-> None, why |-> "status", seen |-> "failed"]

Init ==
  /\ op = [o \in Ops |-> "none"]
  /\ call = [c \in Calls |-> Idle]
  /\ fresh = {} /\ before = [c \in Calls |-> {}]
  /\ bind = "running" /\ env = "running"
  /\ row = [w \in Works |-> "none"] /\ late = [w \in Works |-> FALSE]
  /\ ran = [w \in Works |-> FALSE] /\ thread = [w \in Works |-> "none"]
  /\ hits = [o \in Ops |-> 0]
  /\ troubles = 0

-------------------------------------------------------------------------------
\* Operations of the store.

\* The rows that fence the environment (an uncertain row has always been dispatched).
Unresolved(o) == op[o] \in {"dispatching", "uncertain"}

\* Mutant: an uncertain operation does not fence.
MayReserveOwn(o) ==
  op[o] \in {"none", "retryable"} /\ \A other \in Ops \ {o} : op[other] # "dispatching"
\* `reserve': a new row, or a retryable one taken up again, unless another is unresolved.
MayReserve(o) ==
  /\ op[o] \in {"none", "retryable"}
  /\ \A other \in Ops \ {o} : ~Unresolved(other)

\* Mutant: an operation with an unknown outcome may be sent again.
MoveToRetry(o, state) ==
  op' = [op EXCEPT ![o] = IF ~Unresolved(o) THEN @ ELSE
                          IF state = "uncertain" THEN "retryable" ELSE state]
\* `transition' moves an unresolved row only, else it throws.
Move(o, state) == op' = [op EXCEPT ![o] = IF Unresolved(o) THEN state ELSE @]

\* Mutant: admission that looks at the stored state only.
AdmittedUnfenced == bind = "running"
\* Work is admitted when the stored state is running and no stop or delete is unresolved.
Admitted == bind = "running" /\ \A o \in Stops \cup Deletes : ~Unresolved(o)

Trouble == troubles < MaxTroubles /\ troubles' = troubles + 1

-------------------------------------------------------------------------------
\* Requests.

At(c, step) == call[c].at = step
Goto(c, step) == call' = [call EXCEPT ![c].at = step]
Observe(c, step, state) == call' = [call EXCEPT ![c].at = step, ![c].seen = state]
Take(c, o, step, purpose) ==
  call' = [call EXCEPT ![c] = [at |-> step, of |-> o, why |-> purpose, seen |-> "failed"]]
Leave(c) == call' = [call EXCEPT ![c] = Idle]

Reserve(c) == \E o \in Ops :
  /\ At(c, "idle") /\ MayReserve(o)
  /\ op' = [op EXCEPT ![o] = "dispatching"]
  /\ IF o \in Starts THEN Take(c, o, "act", "finish") ELSE Take(c, o, "ask", "safety")
  /\ UNCHANGED <<fresh, before, bind, env, tasks, hits, troubles>>

\* A request whose operation is uncertain is never sent again but looked up.
Reconcile(c) == \E o \in Ops :
  /\ At(c, "idle") /\ op[o] = "uncertain"
  /\ Take(c, o, "ask", "reconcile")
  /\ UNCHANGED <<op, fresh, before, bind, env, tasks, hits, troubles>>

Status(c) ==
  /\ At(c, "idle") /\ Take(c, None, "ask", "status")
  /\ UNCHANGED <<op, fresh, before, bind, env, tasks, hits, troubles>>

\* The runner answers `failed' both for a Codespace that is gone and for any error.
Shown == IF env = "gone" THEN "failed" ELSE env

Ask(c) ==
  /\ At(c, "ask")
  /\ \/ Observe(c, "read", Shown) /\ UNCHANGED troubles
     \/ Observe(c, "read", "failed") /\ Trouble
  /\ UNCHANGED <<op, fresh, before, bind, env, tasks, hits>>

\* `reconciles'; a gone Codespace is observed as missing only by a request without its name.
Reconciles(o, state) ==
  \/ o \in Starts /\ state \in {"running", "starting"}
  \/ o \in Stops /\ state \in {"stopped", "stopping"}
  \/ o \in Deletes /\ state = "deleted"

\* The answer has arrived: its observation time is the time of the answer.
Stamp(c) ==
  /\ At(c, "read")
  /\ IF call[c].why = "reconcile" /\ ~Reconciles(call[c].of, call[c].seen)
     THEN Leave(c) /\ UNCHANGED <<fresh, before>>
     ELSE /\ Goto(c, "save")
          /\ before' = [before EXCEPT ![c] = fresh] /\ fresh' = fresh \cup {c}
  /\ UNCHANGED <<op, bind, env, tasks, hits, troubles>>

\* c no longer holds an observation that is to be saved.
Forget(gone) ==
  before' = [d \in Calls |-> IF d \in gone THEN {} ELSE before[d] \ gone]

\* `saveBinding' keeps, and returns, the stored state when that was observed later.
Save(c) ==
  LET saved == IF c \in fresh THEN call[c].seen ELSE bind
  IN  /\ At(c, "save") /\ bind' = saved
      /\ fresh' = IF c \in fresh THEN fresh \ (before[c] \cup {c}) ELSE fresh
      /\ Forget({c})
      /\ CASE call[c].why = "status" -> Leave(c)
           [] call[c].why = "safety" -> Observe(c, "rows", saved)
           [] OTHER -> Goto(c, "complete")
      /\ UNCHANGED <<op, env, tasks, hits, troubles>>

-------------------------------------------------------------------------------
\* The safety check of a stop or a delete: first the rows, then the host's threads.

Pending(w) == row[w] \in {"pending", "uncertain"}

CheckRows(c) ==
  /\ At(c, "rows")
  /\ Goto(c, IF \E w \in Works : Pending(w) THEN "complete"
             ELSE IF call[c].seen \in Safe THEN "act" ELSE "list")
  /\ UNCHANGED <<op, fresh, before, bind, env, tasks, hits, troubles>>

\* The inventory or a query of the check throws.
CheckThrows(c) ==
  /\ At(c, "rows") /\ Trouble /\ Goto(c, "retry")
  /\ UNCHANGED <<op, fresh, before, bind, env, tasks, hits>>

Blocks(o, w) ==
  IF o \in Deletes THEN thread[w] \in {"active", "idle"} ELSE thread[w] = "active"

ListThreads(c) ==
  /\ At(c, "list")
  /\ \/ /\ env = "running" /\ UNCHANGED troubles
        /\ Goto(c, IF \E w \in Works : Blocks(call[c].of, w) THEN "complete" ELSE "act")
     \/ env # "running" /\ UNCHANGED troubles /\ Goto(c, "complete")
     \/ Trouble /\ Goto(c, "complete")
  /\ UNCHANGED <<op, fresh, before, bind, env, tasks, hits>>

-------------------------------------------------------------------------------
\* The provider carries an operation out, or not, and answers, or not.

Changes(o) ==
  \/ o \in Starts /\ env = "stopped"
  \/ o \in Stops /\ env \notin {"stopped", "gone"}
  \/ o \in Deletes /\ env # "gone"
After(o) == IF o \in Starts THEN "starting" ELSE IF o \in Stops THEN "stopping" ELSE "gone"

\* The turns of an environment end with it.
Halt == thread' = [w \in Works |-> IF thread[w] = "active" THEN "idle" ELSE thread[w]]

Carry(o) ==
  IF Changes(o)
  THEN env' = After(o) /\ hits' = [hits EXCEPT ![o] = @ + 1] /\ Halt
  ELSE UNCHANGED <<env, hits, thread>>

\* Mutant: a deletion is answered with the state of a status request.
AnswerMissing(o) == IF o \in Deletes THEN "missing" ELSE IF Changes(o) THEN After(o) ELSE Shown
Answer(o) ==
  IF o \in Deletes THEN "deleted" ELSE IF Changes(o) THEN After(o) ELSE Shown

Act(c) ==
  LET o == call[c].of
  IN  /\ At(c, "act")
      /\ \/ /\ env # "gone" /\ Carry(o) /\ UNCHANGED troubles
            /\ call' = [call EXCEPT ![c] = [at |-> "read", of |-> o, why |-> "finish",
                                            seen |-> Answer(o)]]
         \/ env # "gone" /\ Carry(o) /\ Trouble /\ Goto(c, "unsure")
         \/ /\ UNCHANGED <<env, hits, thread>>
            /\ \/ env = "gone" /\ UNCHANGED troubles /\ Goto(c, "unsure")
               \/ Trouble /\ (Goto(c, "unsure") \/ Goto(c, "retry"))
      /\ UNCHANGED <<op, fresh, before, bind, row, late, ran>>

\* The outcome is recorded, and the request answered.
Outcome(step) ==
  IF step = "unsure" THEN "uncertain" ELSE IF step = "retry" THEN "retryable" ELSE "completed"
Record(c) ==
  /\ call[c].at \in {"unsure", "retry", "complete"}
  /\ Move(call[c].of, Outcome(call[c].at)) /\ Leave(c)
  /\ UNCHANGED <<fresh, before, bind, env, tasks, hits, troubles>>

\* A write of one handler throws, or the server crashes with all of them.
Abort == \E gone \in {{c} : c \in Calls} \cup {Calls} :
  /\ \A c \in gone : gone = Calls \/ ~At(c, "idle")
  /\ Trouble
  /\ call' = [c \in Calls |-> IF c \in gone THEN Idle ELSE call[c]]
  /\ fresh' = fresh \ gone /\ Forget(gone)
  /\ UNCHANGED <<op, bind, env, tasks, hits>>

-------------------------------------------------------------------------------
\* Tasks: a request reserves a row, its turn begins on the host, the row is resolved.

Put(w, state) == row' = [row EXCEPT ![w] = state]

Admit(w) ==
  /\ Admitted /\ row[w] \in {"none", "completed"} /\ thread[w] # "archived" /\ Put(w, "pending")
  /\ late' = [late EXCEPT ![w] = FALSE] /\ ran' = [ran EXCEPT ![w] = FALSE]
  /\ UNCHANGED <<op, handler, bind, env, thread, hits, troubles>>

\* The thread is active: the message waits in the queue, and is taken up when it is idle.
Enqueue(w) ==
  /\ Pending(w) /\ ~ran[w] /\ thread[w] = "active" /\ Put(w, "queued")
  /\ UNCHANGED <<op, handler, bind, env, late, ran, thread, hits, troubles>>
Dequeue(w) ==
  /\ row[w] = "queued" /\ thread[w] = "idle" /\ env = "running" /\ Put(w, "pending")
  /\ late' = [late EXCEPT ![w] = TRUE]
  /\ UNCHANGED <<op, handler, bind, env, ran, thread, hits, troubles>>

Begin(w) ==
  /\ Pending(w) /\ ~ran[w] /\ env = "running" /\ thread[w] \in {"none", "idle"}
  /\ thread' = [thread EXCEPT ![w] = "active"] /\ ran' = [ran EXCEPT ![w] = TRUE]
  /\ UNCHANGED <<op, handler, bind, env, row, late, hits, troubles>>

Resolve(w) ==
  /\ \/ Pending(w) /\ Put(w, IF ran[w] THEN "completed" ELSE "none") /\ ran' = [ran EXCEPT ![w] = FALSE]
     \/ row[w] = "pending" /\ Put(w, "uncertain") /\ UNCHANGED ran
  /\ UNCHANGED <<op, handler, bind, env, late, thread, hits, troubles>>

EndTurn(w) ==
  /\ \/ thread[w] = "active" /\ thread' = [thread EXCEPT ![w] = "idle"]
     \/ thread[w] = "idle" /\ thread' = [thread EXCEPT ![w] = "archived"]
  /\ UNCHANGED <<op, handler, bind, env, row, late, ran, hits, troubles>>

\* The Codespace arrives at its state; it is started or stopped on GitHub, or stops when idle.
Drift ==
  /\ \/ env = "starting" /\ env' = "running" /\ UNCHANGED <<thread, troubles>>
     \/ env = "stopping" /\ env' = "stopped" /\ UNCHANGED <<thread, troubles>>
     \/ env = "stopped" /\ env' = "starting" /\ Trouble /\ UNCHANGED thread
     \/ env = "running" /\ env' = "stopping" /\ Trouble /\ Halt
  /\ UNCHANGED <<op, handler, bind, row, late, ran, hits>>

Handle(c) ==
  \/ Reserve(c) \/ Reconcile(c) \/ Status(c) \/ Ask(c) \/ Stamp(c) \/ Save(c)
  \/ CheckRows(c) \/ CheckThrows(c) \/ ListThreads(c) \/ Act(c) \/ Record(c)
Work(w) == Admit(w) \/ Enqueue(w) \/ Dequeue(w) \/ Begin(w) \/ Resolve(w) \/ EndTurn(w)

Next == (\E c \in Calls : Handle(c)) \/ Abort \/ (\E w \in Works : Work(w)) \/ Drift
Spec == Init /\ [][Next]_vars

-------------------------------------------------------------------------------
\* Properties.

\* Every variable keeps its type.
TypeOK ==
  /\ op \in [Ops -> {"none", "dispatching", "retryable", "uncertain", "completed"}]
  /\ call \in [Calls -> [at : Steps, of : Ops \cup {None}, seen : Lifecycle,
                         why : {"status", "safety", "reconcile", "finish"}]]
  /\ bind \in Lifecycle /\ env \in Native \cup {"gone"}
  /\ fresh \subseteq Calls /\ before \in [Calls -> SUBSET Calls]
  /\ row \in [Works -> {"none", "pending", "queued", "uncertain", "completed"}]
  /\ late \in [Works -> BOOLEAN] /\ ran \in [Works -> BOOLEAN]
  /\ thread \in [Works -> {"none", "active", "idle", "archived"}]
  /\ hits \in [Ops -> Nat]
  /\ troubles \in 0 .. MaxTroubles

\* One handler at a time changes the environment: as long as a request is between its
\* reservation and its recorded outcome, its row is dispatching, no other operation is
\* unresolved, and no other request is on that path, whatever was retried, looked up or
\* left behind by a handler that died (store.ts, `reserve' and `transition').
Mutating(c) == ~At(c, "idle") /\ call[c].why \in {"safety", "finish"}
FenceHolds == \A c \in Calls : Mutating(c) =>
  /\ op[call[c].of] = "dispatching"
  /\ \A o \in Ops \ {call[c].of} : ~Unresolved(o)
  /\ \A d \in Calls \ {c} : ~Mutating(d)

\* The provider carries an operation out at most once, although the request is repeated
\* after lost answers, failures and crashes (the test `never redelivers an uncertain
\* delete and fences competing operations').
NeverTwice == \A o \in Ops : hits[o] <= 1

\* A stop or a delete that ends a running environment, after a check that did not find it
\* stored as stopped or deleted, ends no turn and overtakes no task that is about to begin
\* one, except for messages that were taken up from the queue (configured-runtime.ts,
\* `createActiveExecutionGuard', with the admission of codex-machine-tasks/store.ts).
Ends(c) == At(c, "act") /\ call'[c].at # "act" /\ env = "running" /\ env' # "running"
Busy(w) == thread[w] = "active" \/ (Pending(w) /\ ~ran[w])
SparesAdmitted == \A c \in Calls :
  (Ends(c) /\ call[c].seen \notin Safe) => \A w \in Works : Busy(w) => late[w]
SparesWork == [][SparesAdmitted]_vars
=============================================================================
