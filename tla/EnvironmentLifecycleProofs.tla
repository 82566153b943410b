--------------------- MODULE EnvironmentLifecycleProofs ---------------------
(***************************************************************************)
(* Proofs about EnvironmentLifecycle for any operations, requests and      *)
(* tasks: one handler at a time is on the way to the provider, the         *)
(* provider carries an operation out at most once, and a stop or a delete  *)
(* spares the work that was admitted.                                      *)
(***************************************************************************)
EXTENDS EnvironmentLifecycle, TLAPS

Purposes == {"status", "safety", "reconcile", "finish"}
CallType == [at : Steps, of : Ops \cup {None}, seen : Lifecycle, why : Purposes]
Ending == Stops \cup Deletes

\* What the step and the purpose of a handler say of each other.
Shape(k) ==
  /\ k.why # "status" => k.of \in Ops
  /\ k.why = "safety" => k.of \in Ending
  /\ k.at \in {"rows", "list"} => k.why = "safety"
  /\ k.at \in {"act", "unsure", "retry"} => k.why \in {"safety", "finish"}
  /\ k.at = "act" /\ k.why = "finish" => k.of \in Starts
  /\ k.at = "complete" => k.why # "status"
  /\ k.at = "ask" => k.why # "finish"
Shaped == \A c \in Calls : Shape(call[c])

\* A request that looks an operation up never meets it before its outcome is unknown.
Looks(c) == ~At(c, "idle") /\ call[c].why = "reconcile"
LookedUp == \A c \in Calls : Looks(c) => op[call[c].of] \in {"uncertain", "completed"}

\* A request that has not been to the provider, and the count of what has been there.
NotYet(c) ==
  \/ call[c].at \in {"act", "retry"}
  \/ call[c].why = "safety" /\ call[c].at \notin {"idle", "unsure"}
Counted ==
  /\ \A o \in Ops : hits[o] \in {0, 1} /\ (op[o] \in {"none", "retryable"} => hits[o] = 0)
  /\ \A c \in Calls : NotYet(c) => hits[call[c].of] = 0

\* What the checks of a stop or a delete have established.
Checked(c) ==
  /\ call[c].at \in {"list", "act"} /\ call[c].of \in Ending
  /\ call[c].at = "act" => call[c].seen \notin Safe
Spared(c, w) == Pending(w) \/ (At(c, "act") /\ thread[w] = "active") => late[w]
Sparing == \A c \in Calls : Checked(c) => \A w \in Works : Spared(c, w)

Inv == TypeOK /\ Shaped /\ FenceHolds /\ LookedUp /\ Counted /\ Sparing

-------------------------------------------------------------------------------
\* What the assignments to a handler's record amount to.
LEMMA CallTyped ==
  ASSUME TypeOK, NEW c \in Calls
  PROVE  /\ call[c] \in CallType /\ call[c].at \in Steps /\ call[c].of \in Ops \cup {None}
         /\ call[c].seen \in Lifecycle /\ call[c].why \in Purposes
<1>1. call[c] \in CallType BY DEF TypeOK, CallType, Purposes
<1> QED BY <1>1 DEF CallType

LEMMA SetFacts ==
  ASSUME TypeOK, NEW c \in Calls, NEW k \in CallType, call' = [call EXCEPT ![c] = k]
  PROVE  /\ call' \in [Calls -> CallType] /\ call'[c] = k
         /\ \A d \in Calls \ {c} : call'[d] = call[d]
BY DEF TypeOK, CallType, Purposes

LEMMA GotoFacts ==
  ASSUME TypeOK, NEW c \in Calls, NEW step \in Steps, Goto(c, step)
  PROVE  /\ call' \in [Calls -> CallType]
         /\ call'[c].at = step /\ call'[c].of = call[c].of
         /\ call'[c].why = call[c].why /\ call'[c].seen = call[c].seen
         /\ \A d \in Calls \ {c} : call'[d] = call[d]
<1>1. call' = [call EXCEPT ![c] = [call[c] EXCEPT !.at = step]] BY DEF Goto
<1>2. [call[c] EXCEPT !.at = step] \in CallType BY CallTyped DEF CallType
<1>3. call' \in [Calls -> CallType] /\ call'[c] = [call[c] EXCEPT !.at = step]
      /\ \A d \in Calls \ {c} : call'[d] = call[d]
  BY <1>1, <1>2, SetFacts
<1> QED BY <1>3, CallTyped DEF CallType

LEMMA ObserveFacts ==
  ASSUME TypeOK, NEW c \in Calls, NEW step \in Steps, NEW state \in Lifecycle,
         Observe(c, step, state)
  PROVE  /\ call' \in [Calls -> CallType]
         /\ call'[c].at = step /\ call'[c].of = call[c].of
         /\ call'[c].why = call[c].why /\ call'[c].seen = state
         /\ \A d \in Calls \ {c} : call'[d] = call[d]
<1>1. call' = [call EXCEPT ![c] = [call[c] EXCEPT !.at = step, !.seen = state]]
  BY DEF Observe, TypeOK
<1>2. [call[c] EXCEPT !.at = step, !.seen = state] \in CallType BY CallTyped DEF CallType
<1>3. call' \in [Calls -> CallType] /\ call'[c] = [call[c] EXCEPT !.at = step, !.seen = state]
      /\ \A d \in Calls \ {c} : call'[d] = call[d]
  BY <1>1, <1>2, SetFacts
<1> QED BY <1>3, CallTyped DEF CallType

LEMMA TakeFacts ==
  ASSUME TypeOK, NEW c \in Calls, NEW o \in Ops \cup {None}, NEW step \in Steps,
         NEW purpose \in Purposes, Take(c, o, step, purpose)
  PROVE  /\ call' \in [Calls -> CallType]
         /\ call'[c].at = step /\ call'[c].of = o
         /\ call'[c].why = purpose /\ call'[c].seen = "failed"
         /\ \A d \in Calls \ {c} : call'[d] = call[d]
<1> DEFINE k == [at |-> step, of |-> o, why |-> purpose, seen |-> "failed"]
<1>1. k \in CallType BY DEF CallType, Lifecycle
<1>2. call' \in [Calls -> CallType] /\ call'[c] = k /\ \A d \in Calls \ {c} : call'[d] = call[d]
  BY <1>1, SetFacts DEF Take
<1> QED BY <1>2

LEMMA LeaveFacts ==
  ASSUME TypeOK, NEW c \in Calls, Leave(c)
  PROVE  /\ call' \in [Calls -> CallType]
         /\ call'[c].at = "idle" /\ call'[c].of = None
         /\ call'[c].why = "status" /\ call'[c].seen = "failed"
         /\ \A d \in Calls \ {c} : call'[d] = call[d]
<1>1. Idle \in CallType BY DEF Idle, CallType, Lifecycle, Steps, Purposes
<1>2. call' \in [Calls -> CallType] /\ call'[c] = Idle /\ \A d \in Calls \ {c} : call'[d] = call[d]
  BY <1>1, SetFacts DEF Leave
<1> QED BY <1>2 DEF Idle

\* A step of one handler that leaves the rows, the count and the tasks alone.
LEMMA StepKeeps ==
  ASSUME Inv, TypeOK', NEW c \in Calls, \A d \in Calls \ {c} : call'[d] = call[d],
         UNCHANGED <<op, hits, row, late, thread>>, Shape(call'[c]),
         Mutating(c)' => Mutating(c) /\ call'[c].of = call[c].of,
         NotYet(c)' => NotYet(c) /\ call'[c].of = call[c].of,
         Looks(c)' => Looks(c) /\ call'[c].of = call[c].of,
         Checked(c)' => \A w \in Works : Spared(c, w)'
  PROVE  Inv'
<1>1. Shaped' BY DEF Inv, Shaped
<1>2. FenceHolds' BY DEF Inv, FenceHolds, Mutating, Unresolved, At
<1>3. LookedUp' BY DEF Inv, LookedUp, Looks, At
<1>4. Counted' BY DEF Inv, Counted, NotYet
<1>5. Sparing' BY DEF Inv, Sparing, Checked, Spared, At, Pending
<1> QED BY <1>1, <1>2, <1>3, <1>4, <1>5 DEF Inv

-------------------------------------------------------------------------------
\* The steps of a handler.
LEMMA AskKeeps == ASSUME Inv, NEW c \in Calls, Ask(c) PROVE Inv'
<1> USE DEF Inv
<1>1. Shown \in Lifecycle BY DEF Shown, TypeOK, Lifecycle, Native
<1>2. "read" \in Steps /\ "failed" \in Lifecycle BY DEF Steps, Lifecycle
<1>3. \E state \in Lifecycle : Observe(c, "read", state) BY <1>1, <1>2 DEF Ask
<1>4. /\ call' \in [Calls -> CallType]
      /\ call'[c].at = "read" /\ call'[c].of = call[c].of /\ call'[c].why = call[c].why
      /\ \A d \in Calls \ {c} : call'[d] = call[d]
  BY <1>2, <1>3, ObserveFacts
<1>5. TypeOK' BY <1>4, TroublesAssumption DEF Ask, TypeOK, CallType, Purposes, tasks, Trouble
<1>6. UNCHANGED <<op, hits, row, late, thread>> /\ call[c].at = "ask" BY DEF Ask, tasks, At
<1>7. Shape(call'[c]) BY <1>4 DEF Shaped, Shape
<1>8. (Mutating(c)' => Mutating(c)) /\ (NotYet(c)' => NotYet(c)) /\ (Looks(c)' => Looks(c))
  BY <1>4, <1>6 DEF Mutating, NotYet, Looks, At
<1>9. ~Checked(c)' BY <1>4 DEF Checked
<1> QED BY <1>4, <1>5, <1>6, <1>7, <1>8, <1>9, StepKeeps

LEMMA StatusKeeps == ASSUME Inv, NEW c \in Calls, Status(c) PROVE Inv'
<1> USE DEF Inv
<1>1. "ask" \in Steps /\ "status" \in Purposes BY DEF Steps, Purposes
<1>2. /\ call' \in [Calls -> CallType]
      /\ call'[c].at = "ask" /\ call'[c].of = None /\ call'[c].why = "status"
      /\ \A d \in Calls \ {c} : call'[d] = call[d]
  BY <1>1, TakeFacts DEF Status
<1>3. TypeOK' BY <1>2 DEF Status, TypeOK, CallType, Purposes, tasks
<1>4. UNCHANGED <<op, hits, row, late, thread>> BY DEF Status, tasks
<1>5. Shape(call'[c]) BY <1>2 DEF Shape
<1>6. ~Mutating(c)' /\ ~NotYet(c)' /\ ~Looks(c)' /\ ~Checked(c)'
  BY <1>2 DEF Mutating, NotYet, Looks, Checked
<1> QED BY <1>2, <1>3, <1>4, <1>5, <1>6, StepKeeps

\* Leaving forgets everything.
LEMMA LeaveKeeps ==
  ASSUME Inv, TypeOK', NEW c \in Calls, Leave(c), UNCHANGED <<op, hits, row, late, thread>>
  PROVE  Inv'
<1> USE DEF Inv
<1>1. /\ call'[c].at = "idle" /\ call'[c].of = None /\ call'[c].why = "status"
      /\ \A d \in Calls \ {c} : call'[d] = call[d]
  BY LeaveFacts
<1>2. Shape(call'[c]) BY <1>1 DEF Shape
<1>3. ~Mutating(c)' /\ ~NotYet(c)' /\ ~Looks(c)' /\ ~Checked(c)'
  BY <1>1 DEF Mutating, NotYet, Looks, Checked
<1> QED BY <1>1, <1>2, <1>3, StepKeeps

\* Going on to a step that no fact is attached to, or to one that keeps its facts.
LEMMA GoKeeps ==
  ASSUME Inv, TypeOK', NEW c \in Calls, NEW step \in Steps, call[c].at # "idle",
         call'[c].at = step, call'[c].of = call[c].of, call'[c].why = call[c].why,
         \A d \in Calls \ {c} : call'[d] = call[d],
         UNCHANGED <<op, hits, row, late, thread>>, Shape(call'[c]),
         NotYet(c)' => NotYet(c), Checked(c)' => \A w \in Works : Spared(c, w)'
  PROVE  Inv'
<1>1. (Mutating(c)' => Mutating(c)) /\ (Looks(c)' => Looks(c)) BY DEF Mutating, Looks, At
<1> QED BY <1>1, StepKeeps

LEMMA StampKeeps == ASSUME Inv, NEW c \in Calls, Stamp(c) PROVE Inv'
<1> USE DEF Inv
<1>1. UNCHANGED <<op, hits, row, late, thread>> /\ call[c].at = "read" BY DEF Stamp, tasks, At
<1>2. CASE Leave(c) /\ UNCHANGED <<fresh, before>>
  <2>1. call' \in [Calls -> CallType] BY <1>2, LeaveFacts
  <2>2. TypeOK' BY <1>2, <2>1 DEF Stamp, TypeOK, CallType, Purposes, tasks
  <2> QED BY <1>1, <1>2, <2>2, LeaveKeeps
<1>3. CASE /\ Goto(c, "save") /\ before' = [before EXCEPT ![c] = fresh]
           /\ fresh' = fresh \cup {c}
  <2>1. "save" \in Steps BY DEF Steps
  <2>2. /\ call' \in [Calls -> CallType]
        /\ call'[c].at = "save" /\ call'[c].of = call[c].of /\ call'[c].why = call[c].why
        /\ \A d \in Calls \ {c} : call'[d] = call[d]
    BY <1>3, <2>1, GotoFacts
  <2>3. TypeOK' BY <1>3, <2>2 DEF Stamp, TypeOK, CallType, Purposes, tasks
  <2>4. Shape(call'[c]) BY <2>2 DEF Shaped, Shape
  <2>5. (NotYet(c)' => NotYet(c)) /\ ~Checked(c)' BY <1>1, <2>2 DEF NotYet, Checked
  <2> QED BY <1>1, <2>1, <2>2, <2>3, <2>4, <2>5, GoKeeps
<1> QED BY <1>2, <1>3 DEF Stamp

LEMMA SaveKeeps == ASSUME Inv, NEW c \in Calls, Save(c) PROVE Inv'
<1> USE DEF Inv
<1> DEFINE saved == IF c \in fresh THEN call[c].seen ELSE bind
<1>1. UNCHANGED <<op, hits, row, late, thread>> /\ call[c].at = "save" BY DEF Save, tasks, At
<1>2. saved \in Lifecycle BY CallTyped DEF TypeOK
<1>3. bind' \in Lifecycle /\ fresh' \subseteq Calls /\ before' \in [Calls -> SUBSET Calls]
  BY <1>2 DEF Save, Forget, TypeOK
<1>4. ASSUME call' \in [Calls -> CallType] PROVE TypeOK'
  BY <1>3, <1>4 DEF Save, TypeOK, CallType, Purposes, tasks
<1>5. CASE Leave(c)
  <2>1. TypeOK' BY <1>4, <1>5, LeaveFacts
  <2> QED BY <1>1, <1>5, <2>1, LeaveKeeps
<1>6. CASE call[c].why = "safety" /\ Observe(c, "rows", saved)
  <2>1. "rows" \in Steps BY DEF Steps
  <2>2. /\ call' \in [Calls -> CallType]
        /\ call'[c].at = "rows" /\ call'[c].of = call[c].of /\ call'[c].why = call[c].why
        /\ \A d \in Calls \ {c} : call'[d] = call[d]
    BY <1>2, <1>6, <2>1, ObserveFacts
  <2>3. TypeOK' BY <1>4, <2>2
  <2>4. Shape(call'[c]) BY <1>6, <2>2 DEF Shaped, Shape
  <2>5. (NotYet(c)' => NotYet(c)) /\ ~Checked(c)' BY <1>1, <2>2 DEF NotYet, Checked
  <2> QED BY <1>1, <2>1, <2>2, <2>3, <2>4, <2>5, GoKeeps
<1>7. CASE call[c].why # "status" /\ Goto(c, "complete")
  <2>1. "complete" \in Steps BY DEF Steps
  <2>2. /\ call' \in [Calls -> CallType]
        /\ call'[c].at = "complete" /\ call'[c].of = call[c].of /\ call'[c].why = call[c].why
        /\ \A d \in Calls \ {c} : call'[d] = call[d]
    BY <1>7, <2>1, GotoFacts
  <2>3. TypeOK' BY <1>4, <2>2
  <2>4. Shape(call'[c]) BY <1>7, <2>2 DEF Shaped, Shape
  <2>5. (NotYet(c)' => NotYet(c)) /\ ~Checked(c)' BY <1>1, <2>2 DEF NotYet, Checked
  <2> QED BY <1>1, <2>1, <2>2, <2>3, <2>4, <2>5, GoKeeps
<1>8. \/ call[c].why = "status" /\ Leave(c)
      \/ call[c].why = "safety" /\ Observe(c, "rows", saved)
      \/ call[c].why # "status" /\ Goto(c, "complete")
  BY DEF Save
<1> QED BY <1>5, <1>6, <1>7, <1>8

LEMMA RowsKeep == ASSUME Inv, NEW c \in Calls, CheckRows(c) PROVE Inv'
<1> USE DEF Inv
<1>1. UNCHANGED <<op, hits, row, late, thread>> /\ call[c].at = "rows"
  BY DEF CheckRows, tasks, At
<1>2. PICK step \in {"complete", "act", "list"} :
        /\ Goto(c, step) /\ (step # "complete" => \A w \in Works : ~Pending(w))
        /\ (step = "act" => call[c].seen \in Safe)
  BY DEF CheckRows
<1>3. step \in Steps BY DEF Steps
<1>4. /\ call' \in [Calls -> CallType]
      /\ call'[c].at = step /\ call'[c].of = call[c].of /\ call'[c].why = call[c].why
      /\ call'[c].seen = call[c].seen /\ \A d \in Calls \ {c} : call'[d] = call[d]
  BY <1>2, <1>3, GotoFacts
<1>5. TypeOK' BY <1>4 DEF CheckRows, TypeOK, CallType, Purposes, tasks
<1>6. call[c].why = "safety" /\ call[c].of \in Ending BY <1>1 DEF Shaped, Shape
<1>7. Shape(call'[c]) BY <1>4, <1>6 DEF Shaped, Shape, Ending, Ops
<1>8. NotYet(c)' => NotYet(c) BY <1>1, <1>6 DEF NotYet
<1>9. Checked(c)' => \A w \in Works : Spared(c, w)'
  BY <1>1, <1>2, <1>4 DEF Checked, Spared, Pending, At
<1> QED BY <1>1, <1>3, <1>4, <1>5, <1>7, <1>8, <1>9, GoKeeps

LEMMA ThrowsKeeps == ASSUME Inv, NEW c \in Calls, CheckThrows(c) PROVE Inv'
<1> USE DEF Inv
<1>1. UNCHANGED <<op, hits, row, late, thread>> /\ call[c].at = "rows"
  BY DEF CheckThrows, tasks, At
<1>2. "retry" \in Steps BY DEF Steps
<1>3. /\ call' \in [Calls -> CallType]
      /\ call'[c].at = "retry" /\ call'[c].of = call[c].of /\ call'[c].why = call[c].why
      /\ \A d \in Calls \ {c} : call'[d] = call[d]
  BY <1>2, GotoFacts DEF CheckThrows
<1>4. TypeOK' BY <1>3, TroublesAssumption DEF CheckThrows, TypeOK, CallType, Purposes, tasks, Trouble
<1>5. call[c].why = "safety" /\ call[c].of \in Ending BY <1>1 DEF Shaped, Shape
<1>6. Shape(call'[c]) BY <1>3, <1>5 DEF Shaped, Shape, Ending, Ops
<1>7. (NotYet(c)' => NotYet(c)) /\ ~Checked(c)' BY <1>1, <1>3, <1>5 DEF NotYet, Checked
<1> QED BY <1>1, <1>2, <1>3, <1>4, <1>6, <1>7, GoKeeps

LEMMA ListKeeps == ASSUME Inv, NEW c \in Calls, ListThreads(c) PROVE Inv'
<1> USE DEF Inv
<1>1. UNCHANGED <<op, hits, row, late, thread>> /\ call[c].at = "list"
  BY DEF ListThreads, tasks, At
<1>2. PICK step \in {"complete", "act"} :
        Goto(c, step) /\ (step = "act" => \A w \in Works : thread[w] # "active")
  BY DEF ListThreads, Blocks
<1>3. step \in Steps BY DEF Steps
<1>4. /\ call' \in [Calls -> CallType]
      /\ call'[c].at = step /\ call'[c].of = call[c].of /\ call'[c].why = call[c].why
      /\ call'[c].seen = call[c].seen /\ \A d \in Calls \ {c} : call'[d] = call[d]
  BY <1>2, <1>3, GotoFacts
<1>5. TypeOK' BY <1>4, TroublesAssumption DEF ListThreads, TypeOK, CallType, Purposes, tasks, Trouble
<1>6. call[c].why = "safety" /\ call[c].of \in Ending BY <1>1 DEF Shaped, Shape
<1>7. Shape(call'[c]) BY <1>4, <1>6 DEF Shaped, Shape, Ending, Ops
<1>8. NotYet(c)' => NotYet(c) BY <1>1, <1>6 DEF NotYet
<1>9. \A w \in Works : Spared(c, w) BY <1>1, <1>6 DEF Sparing, Checked
<1>10. Checked(c)' => \A w \in Works : Spared(c, w)'
  BY <1>1, <1>2, <1>4, <1>9 DEF Checked, Spared, Pending, At
<1> QED BY <1>1, <1>3, <1>4, <1>5, <1>7, <1>8, <1>10, GoKeeps

\* A reservation finds every row resolved, so that no other handler is on its way.
LEMMA ReserveKeeps == ASSUME Inv, NEW c \in Calls, Reserve(c) PROVE Inv'
<1> USE DEF Inv
<1>1. PICK o \in Ops :
        /\ MayReserve(o) /\ op' = [op EXCEPT ![o] = "dispatching"]
        /\ IF o \in Starts THEN Take(c, o, "act", "finish") ELSE Take(c, o, "ask", "safety")
  BY DEF Reserve
<1>2. UNCHANGED <<fresh, before, bind, env, tasks, hits, troubles>> /\ call[c].at = "idle"
  BY DEF Reserve, At
<1>3. {"act", "ask"} \subseteq Steps /\ {"finish", "safety"} \subseteq Purposes
  BY DEF Steps, Purposes
<1>4. /\ call' \in [Calls -> CallType] /\ call'[c].of = o
      /\ call'[c].at = IF o \in Starts THEN "act" ELSE "ask"
      /\ call'[c].why = IF o \in Starts THEN "finish" ELSE "safety"
      /\ \A d \in Calls \ {c} : call'[d] = call[d]
  <2>1. CASE o \in Starts BY <1>1, <1>3, <2>1, TakeFacts
  <2>2. CASE o \notin Starts BY <1>1, <1>3, <2>2, TakeFacts
  <2> QED BY <2>1, <2>2
<1>5. TypeOK' BY <1>1, <1>2, <1>4 DEF TypeOK, CallType, Purposes, tasks
<1>6. op'[o] = "dispatching" /\ \A x \in Ops \ {o} : op'[x] = op[x] BY <1>1 DEF TypeOK
<1>7. \A d \in Calls : ~Mutating(d) BY <1>1 DEF MayReserve, FenceHolds, Unresolved, Mutating, Shaped, Shape
<1>8. Shaped'
  <2>1. Shape(call'[c]) BY <1>4 DEF Shape, Ending, Ops
  <2> QED BY <1>4, <2>1 DEF Shaped
<1>9. FenceHolds'
  <2>1. \A d \in Calls \ {c} : ~Mutating(d)' BY <1>4, <1>7 DEF Mutating, At
  <2>2. \A x \in Ops \ {o} : ~Unresolved(x)' BY <1>1, <1>6 DEF MayReserve, Unresolved
  <2> QED BY <1>4, <1>6, <2>1, <2>2 DEF FenceHolds
<1>10. LookedUp' BY <1>1, <1>4, <1>6 DEF LookedUp, Looks, At, MayReserve
<1>11. Counted'
  <2>1. hits[o] = 0 BY <1>1 DEF Counted, MayReserve
  <2> QED BY <1>2, <1>4, <1>6, <2>1 DEF Counted, NotYet
<1>12. Sparing'
  <2>1. ~Checked(c)' BY <1>4, OperationsAssumption DEF Checked, Ending
  <2> QED BY <1>2, <1>4, <2>1 DEF Sparing, Checked, Spared, Pending, At, tasks
<1> QED BY <1>5, <1>8, <1>9, <1>10, <1>11, <1>12

LEMMA ReconcileKeeps == ASSUME Inv, NEW c \in Calls, Reconcile(c) PROVE Inv'
<1> USE DEF Inv
<1>1. PICK o \in Ops : op[o] = "uncertain" /\ Take(c, o, "ask", "reconcile") BY DEF Reconcile
<1>2. UNCHANGED <<op, fresh, before, bind, env, tasks, hits, troubles>> BY DEF Reconcile
<1>3. "ask" \in Steps /\ "reconcile" \in Purposes BY DEF Steps, Purposes
<1>4. /\ call' \in [Calls -> CallType]
      /\ call'[c].at = "ask" /\ call'[c].of = o /\ call'[c].why = "reconcile"
      /\ \A d \in Calls \ {c} : call'[d] = call[d]
  BY <1>1, <1>3, TakeFacts
<1>5. TypeOK' BY <1>2, <1>4 DEF TypeOK, CallType, Purposes, tasks
<1>6. Shaped' BY <1>4 DEF Shaped, Shape
<1>7. ~Mutating(c)' /\ ~NotYet(c)' /\ ~Checked(c)' BY <1>4 DEF Mutating, NotYet, Checked
<1>8. FenceHolds' BY <1>2, <1>4, <1>7 DEF FenceHolds, Mutating, Unresolved, At
<1>9. LookedUp' BY <1>1, <1>2, <1>4 DEF LookedUp, Looks, At
<1>10. Counted' BY <1>2, <1>4, <1>7 DEF Counted, NotYet
<1>11. Sparing' BY <1>2, <1>4, <1>7 DEF Sparing, Checked, Spared, Pending, At, tasks
<1> QED BY <1>5, <1>6, <1>8, <1>9, <1>10, <1>11

\* An operation that has reached the provider has not been there, and does not go back.
LEMMA ActKeeps == ASSUME Inv, NEW c \in Calls, Act(c) PROVE Inv'
<1> USE DEF Inv
<1> DEFINE o == call[c].of
<1>1. UNCHANGED <<op, fresh, before, bind, row, late, ran>> /\ call[c].at = "act"
  BY DEF Act, At
<1>2. call[c].why \in {"safety", "finish"} /\ o \in Ops BY <1>1 DEF Shaped, Shape
<1>3. troubles' \in 0 .. MaxTroubles
  BY TroublesAssumption DEF Act, Trouble, TypeOK
<1>4. Answer(o) \in Lifecycle BY DEF Answer, Changes, After, Shown, Lifecycle, Native, TypeOK
<1>5. /\ call' \in [Calls -> CallType] /\ call'[c].of = o
      /\ call'[c].at \in {"read", "unsure", "retry"} /\ call'[c].why \in {"safety", "finish"}
      /\ call'[c].at = "read" => call'[c].why = "finish"
      /\ call'[c].why = "safety" => call[c].why = "safety"
      /\ call'[c].at = "retry" => UNCHANGED <<env, hits, thread>>
      /\ \A d \in Calls \ {c} : call'[d] = call[d]
  <2> DEFINE k == [at |-> "read", of |-> o, why |-> "finish", seen |-> Answer(o)]
  <2>1. CASE call' = [call EXCEPT ![c] = k]
    <3>1. k \in CallType BY <1>2, <1>4 DEF CallType, Steps, Purposes
    <3>2. call' \in [Calls -> CallType] /\ call'[c] = k
          /\ \A d \in Calls \ {c} : call'[d] = call[d]
      BY <2>1, <3>1, SetFacts
    <3> QED BY <3>2
  <2>2. CASE Goto(c, "unsure") BY <1>2, <2>2, GotoFacts DEF Steps
  <2>3. CASE Goto(c, "retry") /\ UNCHANGED <<env, hits, thread>>
    BY <1>2, <2>3, GotoFacts DEF Steps
  <2> QED BY <2>1, <2>2, <2>3 DEF Act
<1>6. Carry(o) \/ UNCHANGED <<env, hits, thread>> BY DEF Act
<1>7. /\ env' \in Native \cup {"gone"}
      /\ thread' \in [Works -> {"none", "active", "idle", "archived"}]
      /\ \A w \in Works : thread'[w] = "active" => thread[w] = "active"
  BY <1>6 DEF Carry, Halt, After, TypeOK, Native
<1>8. hits[o] = 0 BY <1>1 DEF Counted, NotYet
<1>9. hits' \in [Ops -> Nat] /\ hits'[o] \in {0, 1} /\ \A x \in Ops \ {o} : hits'[x] = hits[x]
  BY <1>2, <1>6, <1>8 DEF Carry, TypeOK
<1>10. TypeOK' BY <1>1, <1>3, <1>5, <1>7, <1>9 DEF TypeOK, CallType, Purposes
<1>11. Shaped'
  <2>1. Shape(call'[c])
    BY <1>1, <1>2, <1>5 DEF Shaped, Shape
  <2> QED BY <1>5, <2>1 DEF Shaped
<1>12. Mutating(c) BY <1>1, <1>2 DEF Mutating, At
<1>13. op[o] = "dispatching" /\ \A d \in Calls \ {c} : ~Mutating(d) BY <1>12 DEF FenceHolds
<1>14. FenceHolds' BY <1>1, <1>5, <1>12 DEF FenceHolds, Mutating, Unresolved, At
<1>15. LookedUp' BY <1>1, <1>5 DEF LookedUp, Looks, At
<1>16. Counted'
  <2>1. \A d \in Calls \ {c} : ~NotYet(d)'
    BY <1>5, <1>13 DEF NotYet, Mutating, At, Shaped, Shape
  <2>2. NotYet(c)' => hits'[o] = 0 BY <1>5, <1>8 DEF NotYet
  <2> QED BY <1>1, <1>5, <1>9, <1>13, <2>1, <2>2 DEF Counted
<1>17. Sparing'
  <2>1. ~Checked(c)' BY <1>5 DEF Checked
  <2> QED BY <1>1, <1>5, <1>7, <2>1 DEF Sparing, Checked, Spared, Pending, At
<1> QED BY <1>10, <1>11, <1>14, <1>15, <1>16, <1>17

LEMMA RecordKeeps == ASSUME Inv, NEW c \in Calls, Record(c) PROVE Inv'
<1> USE DEF Inv
<1> DEFINE o == call[c].of
<1>1. /\ UNCHANGED <<fresh, before, bind, env, tasks, hits, troubles>>
      /\ call[c].at \in {"unsure", "retry", "complete"}
  BY DEF Record
<1>2. o \in Ops /\ call[c].why # "status" BY <1>1 DEF Shaped, Shape
<1>3. /\ call' \in [Calls -> CallType] /\ call'[c].at = "idle" /\ call'[c].of = None
      /\ call'[c].why = "status" /\ \A d \in Calls \ {c} : call'[d] = call[d]
  BY LeaveFacts DEF Record
<1>4. Outcome(call[c].at) \in {"uncertain", "retryable", "completed"} BY DEF Outcome
<1>5. /\ op' \in [Ops -> {"none", "dispatching", "retryable", "uncertain", "completed"}]
      /\ op'[o] = IF Unresolved(o) THEN Outcome(call[c].at) ELSE op[o]
      /\ \A x \in Ops \ {o} : op'[x] = op[x]
  BY <1>2, <1>4 DEF Record, Move, TypeOK
<1>6. TypeOK' BY <1>1, <1>3, <1>5 DEF TypeOK, CallType, Purposes, tasks
<1>7. Shape(call'[c]) /\ ~Mutating(c)' /\ ~NotYet(c)' /\ ~Checked(c)' /\ ~Looks(c)'
  BY <1>3 DEF Shape, Mutating, NotYet, Checked, Looks, At
<1>8. Shaped' BY <1>3, <1>7 DEF Shaped
<1>9. Mutating(c) \/ (Looks(c) /\ call[c].at = "complete")
  BY <1>1, <1>2, CallTyped DEF Mutating, Looks, At, Shaped, Shape, Purposes
<1>10. \A d \in Calls \ {c} : Mutating(d) => call[d].of # o
  <2>1. CASE Mutating(c) BY <2>1 DEF FenceHolds
  <2>2. CASE Looks(c)
    <3>1. op[o] # "dispatching" BY <2>2 DEF LookedUp
    <3> QED BY <3>1 DEF FenceHolds
  <2> QED BY <1>9, <2>1, <2>2
<1>11. FenceHolds'
  <2>1. ASSUME NEW d \in Calls, Mutating(d)' PROVE d # c /\ Mutating(d) /\ call'[d].of = call[d].of
    BY <1>3, <1>7, <2>1 DEF Mutating, At
  <2>2. ASSUME NEW d \in Calls, Mutating(d)'
        PROVE  /\ op'[call'[d].of] = "dispatching"
               /\ \A x \in Ops \ {call'[d].of} : ~Unresolved(x)'
    <3>1. op[call[d].of] = "dispatching" /\ \A x \in Ops \ {call[d].of} : ~Unresolved(x)
      BY <2>1, <2>2 DEF FenceHolds
    <3>2. call[d].of # o /\ call[d].of \in Ops BY <1>10, <2>1, <2>2 DEF Mutating, Shaped, Shape
    <3> QED BY <1>2, <1>5, <2>1, <2>2, <3>1, <3>2 DEF Unresolved
  <2>3. ASSUME NEW d \in Calls, Mutating(d)', NEW e \in Calls \ {d} PROVE ~Mutating(e)'
    BY <1>3, <1>7, <2>1, <2>3 DEF FenceHolds, Mutating, At
  <2> QED BY <2>2, <2>3 DEF FenceHolds
<1>12. LookedUp'
  <2>1. ASSUME NEW d \in Calls \ {c}, Looks(d)
        PROVE op'[call[d].of] \in {"uncertain", "completed"}
    <3>1. op[call[d].of] \in {"uncertain", "completed"} /\ call[d].of \in Ops
      BY <2>1 DEF LookedUp, Looks, Shaped, Shape
    <3>2. CASE call[d].of # o BY <1>5, <3>1, <3>2
    <3>3. CASE call[d].of = o
      <4>1. ~Mutating(c) BY <3>1, <3>3 DEF FenceHolds
      <4>2. call[c].at = "complete" BY <1>9, <4>1
      <4> QED BY <1>5, <3>1, <3>3, <4>2 DEF Outcome, Unresolved
    <3> QED BY <3>2, <3>3
  <2> QED BY <1>3, <1>7, <2>1 DEF LookedUp, Looks, At
<1>13. Counted'
  <2>1. op'[o] \in {"none", "retryable"} => hits[o] = 0
    <3>1. CASE call[c].at = "retry" BY <1>1, <3>1 DEF Counted, NotYet
    <3>2. CASE call[c].at # "retry" BY <1>1, <1>2, <1>5, <3>2 DEF Counted, Outcome, Unresolved
    <3> QED BY <3>1, <3>2
  <2> QED BY <1>1, <1>2, <1>3, <1>5, <1>7, <2>1 DEF Counted, NotYet
<1>14. Sparing' BY <1>1, <1>3, <1>7 DEF Sparing, Checked, Spared, Pending, At, tasks
<1> QED BY <1>6, <1>8, <1>11, <1>12, <1>13, <1>14

LEMMA AbortKeeps == ASSUME Inv, Abort PROVE Inv'
<1> USE DEF Inv
<1>1. PICK gone \in {{c} : c \in Calls} \cup {Calls} :
        /\ call' = [c \in Calls |-> IF c \in gone THEN Idle ELSE call[c]]
        /\ fresh' = fresh \ gone /\ Forget(gone)
  BY DEF Abort
<1>2. UNCHANGED <<op, bind, env, tasks, hits>> /\ troubles' \in 0 .. MaxTroubles
  BY TroublesAssumption DEF Abort, Trouble, TypeOK
<1>3. Idle \in CallType BY DEF Idle, CallType, Lifecycle, Steps, Purposes
<1>4. call' \in [Calls -> CallType] BY <1>1, <1>3 DEF TypeOK, CallType, Purposes
<1>5. before' \in [Calls -> SUBSET Calls] /\ fresh' \subseteq Calls
  BY <1>1 DEF Forget, TypeOK
<1>6. TypeOK' BY <1>2, <1>4, <1>5 DEF TypeOK, CallType, Purposes, tasks
<1>7. \A c \in Calls : call'[c] = call[c] \/ call'[c] = Idle BY <1>1
<1>8. \A c \in Calls : call'[c] = Idle =>
        Shape(call'[c]) /\ ~Mutating(c)' /\ ~NotYet(c)' /\ ~Checked(c)' /\ ~Looks(c)'
  BY DEF Idle, Shape, Mutating, NotYet, Checked, Looks, At
<1>9. Shaped' BY <1>7, <1>8 DEF Shaped
<1>10. FenceHolds' BY <1>2, <1>7, <1>8 DEF FenceHolds, Mutating, Unresolved, At
<1>11. LookedUp' BY <1>2, <1>7, <1>8 DEF LookedUp, Looks, At
<1>12. Counted' BY <1>2, <1>7, <1>8 DEF Counted, NotYet
<1>13. Sparing' BY <1>2, <1>7, <1>8 DEF Sparing, Checked, Spared, Pending, At, tasks
<1> QED BY <1>6, <1>9, <1>10, <1>11, <1>12, <1>13

-------------------------------------------------------------------------------
\* Tasks and the environment.
LEMMA RestKeeps ==
  ASSUME Inv, TypeOK', UNCHANGED <<op, call, hits>>,
         \A c \in Calls : Checked(c) => \A w \in Works : Spared(c, w)'
  PROVE  Inv'
<1> USE DEF Inv
<1>1. Shaped' /\ FenceHolds' /\ LookedUp' /\ Counted'
  BY DEF Shaped, FenceHolds, Mutating, Unresolved, At, LookedUp, Looks, Counted, NotYet
<1>2. Sparing' BY DEF Sparing, Checked
<1> QED BY <1>1, <1>2

LEMMA WorkKeeps == ASSUME Inv, NEW w \in Works, Work(w) PROVE Inv'
<1> USE DEF Inv
<1>1. UNCHANGED <<op, call, hits, fresh, before, bind, env, troubles>>
  BY DEF Work, Admit, Enqueue, Dequeue, Begin, Resolve, EndTurn, handler
<1>2. TypeOK'
  <2>1. /\ row' \in [Works -> {"none", "pending", "queued", "uncertain", "completed"}]
        /\ late' \in [Works -> BOOLEAN] /\ ran' \in [Works -> BOOLEAN]
        /\ thread' \in [Works -> {"none", "active", "idle", "archived"}]
    BY DEF Work, Admit, Enqueue, Dequeue, Begin, Resolve, EndTurn, Put, TypeOK
  <2> QED BY <1>1, <2>1 DEF TypeOK
<1>3. ASSUME NEW c \in Calls, Checked(c), NEW v \in Works PROVE Spared(c, v)'
  <2>1. Spared(c, v) BY <1>3 DEF Sparing
  <2>2. ~Admitted
    <3>1. call[c].of \in Ending /\ op[call[c].of] = "dispatching"
      BY <1>3 DEF Checked, Shaped, Shape, FenceHolds, Mutating, At
    <3> QED BY <3>1 DEF Admitted, Unresolved, Ending
  <2>3. CASE v # w
    <3>1. row'[v] = row[v] /\ late'[v] = late[v] /\ thread'[v] = thread[v]
      BY <2>3 DEF Work, Admit, Enqueue, Dequeue, Begin, Resolve, EndTurn, Put, TypeOK
    <3> QED BY <1>1, <2>1, <3>1 DEF Spared, Pending, At
  <2>4. CASE v = w
    <3>1. CASE Dequeue(w) BY <2>4, <3>1 DEF Dequeue, Spared, TypeOK
    <3>2. CASE Enqueue(w) BY <1>1, <2>1, <2>4, <3>2 DEF Enqueue, Put, Spared, Pending, At, TypeOK
    <3>3. CASE Begin(w) BY <1>1, <2>1, <2>4, <3>3 DEF Begin, Spared, Pending, At, TypeOK
    <3>4. CASE Resolve(w) BY <1>1, <2>1, <2>4, <3>4 DEF Resolve, Put, Spared, Pending, At, TypeOK
    <3>5. CASE EndTurn(w) BY <1>1, <2>1, <2>4, <3>5 DEF EndTurn, Spared, Pending, At, TypeOK
    <3> QED BY <2>2, <3>1, <3>2, <3>3, <3>4, <3>5 DEF Work, Admit
  <2> QED BY <2>3, <2>4
<1> QED BY <1>1, <1>2, <1>3, RestKeeps

LEMMA DriftKeeps == ASSUME Inv, Drift PROVE Inv'
<1> USE DEF Inv
<1>1. UNCHANGED <<op, call, hits, fresh, before, bind, row, late, ran>> BY DEF Drift, handler
<1>2. /\ env' \in Native \cup {"gone"} /\ troubles' \in 0 .. MaxTroubles
      /\ thread' \in [Works -> {"none", "active", "idle", "archived"}]
      /\ \A w \in Works : thread'[w] = "active" => thread[w] = "active"
  BY TroublesAssumption DEF Drift, Halt, Trouble, TypeOK, Native
<1>3. TypeOK' BY <1>1, <1>2 DEF TypeOK
<1>4. \A c \in Calls : Checked(c) => \A w \in Works : Spared(c, w)'
  BY <1>1, <1>2 DEF Sparing, Spared, Pending, At
<1> QED BY <1>1, <1>3, <1>4, RestKeeps

LEMMA InvInit == Init => Inv
<1> SUFFICES ASSUME Init PROVE Inv OBVIOUS
<1>1. Idle \in CallType BY DEF Idle, CallType, Lifecycle, Steps, Purposes
<1>2. TypeOK
  BY <1>1, TroublesAssumption DEF Init, TypeOK, CallType, Purposes, Lifecycle, Native
<1>3. \A c \in Calls : call[c] = Idle BY DEF Init
<1>4. Shaped BY <1>3 DEF Shaped, Shape, Idle
<1>5. FenceHolds /\ LookedUp /\ Sparing
  BY <1>3 DEF FenceHolds, Mutating, LookedUp, Looks, Sparing, Checked, At, Idle
<1>6. Counted BY <1>3 DEF Counted, NotYet, Idle, Init
<1> QED BY <1>2, <1>4, <1>5, <1>6 DEF Inv

LEMMA InvStep == Inv /\ [Next]_vars => Inv'
<1> SUFFICES ASSUME Inv, [Next]_vars PROVE Inv' OBVIOUS
<1>1. CASE \E c \in Calls : Handle(c)
  BY <1>1, ReserveKeeps, ReconcileKeeps, StatusKeeps, AskKeeps, StampKeeps, SaveKeeps,
     RowsKeep, ThrowsKeeps, ListKeeps, ActKeeps, RecordKeeps DEF Handle
<1>2. CASE Abort BY <1>2, AbortKeeps
<1>3. CASE \E w \in Works : Work(w) BY <1>3, WorkKeeps
<1>4. CASE Drift BY <1>4, DriftKeeps
<1>5. CASE UNCHANGED vars
  <2>1. TypeOK' BY <1>5 DEF Inv, TypeOK, vars, handler, tasks
  <2>2. \A c \in Calls : Checked(c) => \A w \in Works : Spared(c, w)'
    BY <1>5 DEF Inv, Sparing, Spared, Pending, At, vars, handler, tasks
  <2> QED BY <1>5, <2>1, <2>2, RestKeeps DEF vars, handler
<1> QED BY <1>1, <1>2, <1>3, <1>4, <1>5 DEF Next

\* A step that ends a running environment is the provider's, for a checked operation.
LEMMA EndingSpares == Inv /\ [Next]_vars => SparesAdmitted
<1> SUFFICES ASSUME Inv, [Next]_vars, NEW c \in Calls, Ends(c), call[c].seen \notin Safe,
                    NEW w \in Works, Busy(w)
             PROVE  late[w]
  BY DEF SparesAdmitted
<1> USE DEF Inv
<1>1. call[c].at = "act" /\ call'[c].at # "act" /\ env = "running" /\ env' # "running"
  BY DEF Ends, At
<1>2. ~Abort /\ ~Drift /\ ~(UNCHANGED vars) /\ \A v \in Works : ~Work(v)
  BY <1>1 DEF Abort, Drift, vars, handler, Work, Admit, Enqueue, Dequeue, Begin, Resolve, EndTurn
<1>3. PICK d \in Calls : Act(d)
  BY <1>1, <1>2 DEF Next, Handle, Reserve, Reconcile, Status, Ask, Stamp, Save, CheckRows,
                    CheckThrows, ListThreads, Record
<1>4. d = c
  <2>1. Mutating(c) /\ Mutating(d)
    BY <1>1, <1>3 DEF Act, At, Mutating, Shaped, Shape
  <2> QED BY <2>1 DEF FenceHolds
<1>5. Changes(call[c].of) BY <1>1, <1>3, <1>4 DEF Act, Carry
<1>6. call[c].of \in Ending BY <1>1, <1>5 DEF Changes, Ending
<1>7. Spared(c, w) BY <1>1, <1>6 DEF Checked, Sparing
<1> QED BY <1>1, <1>7 DEF Spared, Busy, At

-------------------------------------------------------------------------------
\* Every reachable state is well typed.
THEOREM LifecycleTyped == Spec => []TypeOK
<1>1. Inv => TypeOK BY DEF Inv
<1> QED BY InvInit, InvStep, <1>1, PTL DEF Spec

\* One handler at a time is between its reservation and its recorded outcome, and every
\* other operation is resolved meanwhile.
THEOREM OneAtATime == Spec => []FenceHolds
<1>1. Inv => FenceHolds BY DEF Inv
<1> QED BY InvInit, InvStep, <1>1, PTL DEF Spec

\* The provider carries an operation out at most once.
THEOREM AtMostOnce == Spec => []NeverTwice
<1>1. Inv => NeverTwice BY DEF Inv, Counted, NeverTwice
<1> QED BY InvInit, InvStep, <1>1, PTL DEF Spec

\* A checked stop or delete spares what was admitted.
THEOREM AdmittedSpared == Spec => SparesWork
<1>1. Inv /\ [Next]_vars => [SparesAdmitted]_vars BY EndingSpares
<1> QED BY InvInit, InvStep, <1>1, PTL DEF Spec, SparesWork
=============================================================================
