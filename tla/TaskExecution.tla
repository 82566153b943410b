----------------------------- MODULE TaskExecution -----------------------------
(***************************************************************************)
(* Task executions of one owner: requests start an agent in an environment *)
(* under a capacity lease, mutate and cancel the execution, and read it    *)
(* with fresh evidence of the agent.  Every statement against PostgreSQL   *)
(* and every call of the executor is a step, so requests interleave at     *)
(* each await.                                                             *)
(*                                                                         *)
(* Rows are updated under the version a request has read.  A request keeps *)
(* the state it has seen and whether the row is still at that version, in  *)
(* place of the number.  An operation row is [state, recon], where recon   *)
(* is result.reconcileState.                                               *)
(***************************************************************************)
EXTENDS Naturals, FiniteSets

CONSTANTS
  Execs,      \* task executions
  EnvOf,      \* environment of an execution
  Ops,        \* operation identifiers of the callers
  Kind,       \* what an operation asks for
  Of,         \* the execution it is about
  Calls,      \* slots for concurrent requests
  MaxEvents   \* bound: requests, expired leases, failures and restarts in one behaviour

Kinds == {"start", "send", "respond", "cancel", "archive"}
ASSUME OpsAssumption == Kind \in [Ops -> Kinds] /\ Of \in [Ops -> Execs]
ASSUME NoneAssumption == "none" \notin Ops
ASSUME BoundAssumption == MaxEvents \in Nat

VARIABLES
  exe,    \* state column of task_executions
  commit, \* executions whose source commit is known
  bound,  \* executions with a row in task_execution_bindings
  lease,  \* the capacity lease of an execution
  op,     \* rows of execution_operations
  agent,  \* the executor's task for an execution
  call,   \* requests in the service
  events  \* what MaxEvents bounds, so far
vars == <<exe, commit, bound, lease, op, agent, call, events>>
others == <<commit, bound, lease, op, agent, events>>
rows == <<exe, commit, bound, lease, op>>

Waiting == {"waiting_for_approval", "waiting_for_input"}
Live == {"running"} \cup Waiting
Closed == {"cancelled", "archived"}
States == {"absent", "planned", "preparing_environment", "preparing_workspace",
           "starting_agent", "blocked", "uncertain"} \cup Live \cup Closed
Free == [op |-> "none", exec |-> "none", at |-> "free", then |-> "none",
         seen |-> "absent", fresh |-> FALSE, was |-> "absent", caught |-> FALSE]

-------------------------------------------------------------------------------
\* Moves of an execution's row.

Follows(from) ==
  CASE from = "planned" -> {"preparing_environment", "preparing_workspace", "starting_agent"}
    [] from = "preparing_environment" -> {"preparing_workspace"}
    [] from = "preparing_workspace" -> {"starting_agent"}
    [] from = "starting_agent" -> {"running"}
    [] from = "running" -> Waiting
    [] from \in Waiting -> {"running"}
    [] OTHER -> {}

\* sourceStatesForTaskExecutionTransition
MayMoveAnywhere(from, to) == from # "absent" /\ to \notin {"archived", "planned"}
MayMove(from, to) ==
  /\ from \notin Closed \cup {"absent"} /\ to \notin {"archived", "planned"}
  /\ \/ from \in {"blocked", "uncertain"}
     \/ to \in {"blocked", "uncertain", "cancelled"}
     \/ to \in Follows(from)

Is(c, kind) == call[c].op \in Ops /\ Kind[call[c].op] = kind
Goto(c, at) == call' = [call EXCEPT ![c].at = at]
End(c) == call' = [call EXCEPT ![c] = Free]

\* The awaits inside a request's try block, and what an exception does.
StartTry == {"source", "acquire", "environment", "connect", "workspace", "agent",
             "dispatch", "answer", "bind", "run", "block", "doubt", "finishing",
             "completed", "uncertain"}
MutationTry == {"act", "sent", "interrupt", "stop", "unsure"}
Guarded(c) ==
  /\ ~call[c].caught
  /\ IF Is(c, "start") THEN \/ call[c].at \in StartTry
                            \/ call[c].at = "refresh" /\ call[c].then = "completed"
     ELSE call[c].at \in MutationTry
Thrown(c) ==
  IF Guarded(c) THEN call' = [call EXCEPT ![c].at = "catch", ![c].caught = TRUE] ELSE End(c)

\* The row is written: what other requests have read of it is out of date.
Wrote(c, at) ==
  call' = [x \in Calls |->
    IF x = c THEN [call[c] EXCEPT !.at = at, !.seen = exe'[call[c].exec], !.fresh = TRUE]
    ELSE IF call[x].exec = call[c].exec THEN [call[x] EXCEPT !.fresh = FALSE]
    ELSE call[x]]
Adopt(c, at) ==
  call' = [call EXCEPT ![c].at = at, ![c].seen = exe[call[c].exec], ![c].fresh = TRUE]

\* transitionTaskExecution: nothing to do, a write under the version seen, the
\* state another request already wrote, or an exception.  Blocked rows also
\* differ in their reason, which either matches or does not.
Move(c, to, at) ==
  LET e == call[c].exec
      applies == call[c].fresh /\ MayMove(exe[e], to)
  IN /\ \/ call[c].seen = to /\ Goto(c, at) /\ UNCHANGED exe
        \/ /\ call[c].seen # to \/ to = "blocked"
           /\ applies
           /\ exe' = [exe EXCEPT ![e] = to] /\ Wrote(c, at)
        \/ /\ call[c].seen # to \/ to = "blocked"
           /\ ~applies /\ exe[e] = to
           /\ Adopt(c, at) /\ UNCHANGED exe
        \/ /\ call[c].seen # to \/ to = "blocked"
           /\ ~applies /\ (exe[e] # to \/ to = "blocked")
           /\ Thrown(c) /\ UNCHANGED exe
     /\ UNCHANGED others

\* updateConnectorBinding: the columns are as wanted, are changed, or have been
\* changed the same way or differently by another request.
Touch(c, at) ==
  /\ UNCHANGED <<rows, agent, events>>
  /\ \/ Goto(c, at)
     \/ call[c].fresh /\ exe[call[c].exec] \notin Closed /\ Wrote(c, at)
     \/ ~call[c].fresh /\ (Adopt(c, at) \/ Thrown(c))

Skip(c, at) == Goto(c, at) /\ UNCHANGED <<rows, agent, events>>

-------------------------------------------------------------------------------
\* Moves of an operation's row.

\* allowedSourceStates
Sources(to) == IF to = "confirmed" THEN {"dispatched", "uncertain"}
               ELSE {"reserved", "dispatched", "confirmed", "uncertain"}

\* operations.transition: refused when the row is elsewhere, or there with another
\* result.  A mutation settles after its try block.
Transition(c, to, recon, next) ==
  LET o == call[c].op IN
  /\ \/ /\ op[o].state \in Sources(to)
        /\ op' = [op EXCEPT ![o] = [state |-> to, recon |-> recon]] /\ next
     \/ op[o].state = to /\ next /\ UNCHANGED op
     \/ op[o].state \notin Sources(to) /\ Thrown(c) /\ UNCHANGED op
  /\ UNCHANGED <<exe, commit, bound, lease, agent, events>>

Init ==
  /\ exe = [e \in Execs |-> "absent"] /\ bound = {} /\ lease = [e \in Execs |-> "none"]
  /\ op = [o \in Ops |-> [state |-> "none", recon |-> "none"]]
  /\ agent = [e \in Execs |-> "none"] /\ call = [c \in Calls |-> Free]
  /\ commit = {} /\ events = 0

\* A request arrives and reads the execution; a first start creates it.
Ask(c, o) ==
  LET e == Of[o] IN
  /\ call[c] = Free /\ events < MaxEvents /\ events' = events + 1
  /\ \/ exe[e] # "absent" /\ UNCHANGED exe
     \/ exe[e] = "absent" /\ Kind[o] = "start" /\ exe' = [exe EXCEPT ![e] = "planned"]
  /\ call' = [call EXCEPT ![c] = [Free EXCEPT !.op = o, !.exec = e, !.at = "reserve",
                                              !.seen = exe'[e], !.fresh = TRUE]]
  /\ UNCHANGED <<commit, bound, lease, op, agent>>

Get(c, e) ==
  /\ call[c] = Free /\ exe[e] # "absent" /\ events < MaxEvents /\ events' = events + 1
  /\ call' = [call EXCEPT ![c] = [Free EXCEPT !.exec = e, !.at = "answering"]]
  /\ UNCHANGED <<rows, agent>>

Reserve(c) ==
  LET o == call[c].op
      recon == op[o].recon
      redone == recon \notin {"none", "uncertain"} \cup Closed
                /\ call[c].seen \in {recon, "uncertain"}
  IN /\ call[c].at = "reserve"
     /\ \/ op[o].state = "none" /\ op' = [op EXCEPT ![o].state = "reserved"] /\ Goto(c, "claim")
        \/ op[o].state \in {"blocked", "completed"} /\ Goto(c, "answering") /\ UNCHANGED op
        \/ op[o].state \in {"reserved", "dispatched", "confirmed"} /\ Goto(c, "claim") /\ UNCHANGED op
        \/ op[o].state = "uncertain" /\ Is(c, "start") /\ Goto(c, "confirm") /\ UNCHANGED op
        \/ /\ op[o].state = "uncertain" /\ ~Is(c, "start") /\ UNCHANGED op
           /\ IF redone THEN call' = [call EXCEPT ![c].at = "redo", ![c].was = recon]
              ELSE Goto(c, "answering")
     /\ UNCHANGED <<exe, commit, bound, lease, agent, events>>

\* The previous attempt of a mutation is reconciled from the state it started in.
Redo(c) ==
  /\ call[c].at = "redo"
  /\ IF call[c].seen = "uncertain" THEN Move(c, call[c].was, "confirm") ELSE Skip(c, "confirm")

Confirm(c) ==
  call[c].at = "confirm" /\ Transition(c, "confirmed", "none", Goto(c, "claim"))

ClaimDispatch(c) ==
  LET o == call[c].op IN
  /\ call[c].at = "claim"
  /\ \/ /\ op[o].state \in {"reserved", "confirmed"}
        /\ op' = [op EXCEPT ![o] = [state |-> "dispatched", recon |-> "none"]]
        /\ call' = [call EXCEPT ![c].at = IF Is(c, "start") THEN "source" ELSE "act",
                                ![c].was = call[c].seen]
     \/ op[o].state \notin {"reserved", "confirmed"} /\ Goto(c, "answering") /\ UNCHANGED op
  /\ UNCHANGED <<exe, commit, bound, lease, agent, events>>

-------------------------------------------------------------------------------
\* Start.

\* The source is prepared once; GitHub may refuse it, which blocks the execution, and
\* another request may have written the row.
PrepareSource(c) ==
  LET e == call[c].exec IN
  /\ call[c].at = "source"
  /\ \/ call[c].seen = "running" /\ Skip(c, "finishing")
     \/ call[c].seen # "running" /\ e \in commit /\ Skip(c, "acquire")
     \/ call[c].seen # "running" /\ e \notin commit /\ Skip(c, "block")
     \/ /\ call[c].seen # "running" /\ e \notin commit /\ call[c].fresh /\ exe[e] \notin Closed
        /\ UNCHANGED <<exe, bound, lease, op, agent, events>>
        /\ commit' = commit \cup {e} /\ Wrote(c, "acquire")
     \/ /\ call[c].seen # "running" /\ ~(call[c].fresh /\ exe[e] \notin Closed)
        /\ Thrown(c) \/ (e \in commit /\ Adopt(c, "acquire"))
        /\ UNCHANGED <<rows, agent, events>>

Holders(env) == {f \in Execs : EnvOf[f] = env /\ lease[f] = "active"}

\* A lease that exists is replayed whatever became of it.
Acquire(c) ==
  LET e == call[c].exec IN
  /\ call[c].at = "acquire"
  /\ \/ lease[e] # "none" /\ Goto(c, "environment") /\ UNCHANGED lease
     \/ /\ lease[e] = "none" /\ Holders(EnvOf[e]) = {}
        /\ lease' = [lease EXCEPT ![e] = "active"] /\ Goto(c, "environment")
     \/ lease[e] = "none" /\ Holders(EnvOf[e]) # {} /\ Goto(c, "block") /\ UNCHANGED lease
  /\ UNCHANGED <<exe, commit, bound, op, agent, events>>

PrepareEnvironment(c) ==
  /\ call[c].at = "environment"
  /\ IF call[c].seen \in {"preparing_workspace", "starting_agent"} THEN Skip(c, "workspace")
     ELSE Move(c, "preparing_environment", "connect")

\* Inventory, environment lifecycle, connector and agent runtime as they are found.
Connect(c) ==
  call[c].at = "connect" /\ (Touch(c, "workspace") \/ Skip(c, "doubt") \/ Skip(c, "block"))

PrepareWorkspace(c) ==
  /\ call[c].at = "workspace"
  /\ IF call[c].seen = "starting_agent" THEN Skip(c, "dispatch")
     ELSE Move(c, "preparing_workspace", "agent")
StartAgent(c) == call[c].at = "agent" /\ Move(c, "starting_agent", "dispatch")

\* codex.start under the operation's nested identifier: the request is fenced by the
\* identifier, so an execution has one task however often it is sent.
CodexStart(c) ==
  LET e == call[c].exec IN
  /\ call[c].at = "dispatch"
  /\ \/ /\ agent' = [agent EXCEPT ![e] = IF @ = "none" THEN "pending" ELSE @]
        /\ Goto(c, "answer") /\ UNCHANGED <<rows, events>>
     \/ Skip(c, "block")

CodexAnswers(c) ==
  LET e == call[c].exec IN
  /\ call[c].at = "answer"
  /\ \/ agent[e] \in {"working", "idle"} /\ Touch(c, "bind")
     \/ Skip(c, "doubt")
     \/ /\ agent[e] \in {"none", "pending"} /\ Goto(c, "block")
        /\ agent' = [agent EXCEPT ![e] = "none"] /\ UNCHANGED <<rows, events>>

\* The connector has been bound; workspace and executor follow.
RunBeforeBinding(c) == call[c].at = "bind" /\ Move(c, "running", "finishing")
BindExecutor(c) ==
  /\ call[c].at = "bind"
  /\ bound' = bound \cup {call[c].exec} /\ Goto(c, "run")
  /\ UNCHANGED <<exe, commit, lease, op, agent, events>>
Run(c) == call[c].at = "run" /\ Move(c, "running", "finishing")

Block(c) == call[c].at = "block" /\ Move(c, "blocked", "pausing")
Doubt(c) == call[c].at = "doubt" /\ Move(c, "uncertain", "uncertain")

-------------------------------------------------------------------------------
\* Mutations.  The label a request moves on to is the state its operation gets.

Refused(c) == Skip(c, "blocked")

Send(c) ==
  LET e == call[c].exec IN
  /\ call[c].at = "act" /\ Is(c, "send")
  /\ \/ call[c].seen \notin Live /\ Refused(c)
     \/ call[c].seen \in Live /\ e \notin bound /\ Move(c, "blocked", "blocked")
     \/ /\ call[c].seen \in Live /\ e \in bound
        /\ \/ /\ agent' = [agent EXCEPT ![e] = "working"]
              /\ (Goto(c, "sent") \/ Goto(c, "unsure")) /\ UNCHANGED <<rows, events>>
           \/ Skip(c, "unsure") \/ Refused(c) \/ Skip(c, "completed")
           \/ Move(c, "blocked", "blocked")
           \/ \E w \in Waiting : Move(c, w, "completed")

\* respond_task_execution_approval and respond_task_execution_input
Respond(c) ==
  LET e == call[c].exec IN
  /\ call[c].at = "act" /\ Is(c, "respond")
  /\ \/ call[c].seen \notin Waiting /\ Refused(c)
     \/ call[c].seen \in Waiting /\ Move(c, "blocked", "blocked")
     \/ /\ call[c].seen \in Waiting /\ e \in bound
        /\ Skip(c, "sent") \/ Skip(c, "unsure")

Accepted(c) == call[c].at = "sent" /\ Move(c, "running", "completed")
Unsure(c) == call[c].at = "unsure" /\ Move(c, "uncertain", "uncertain")

Cancel(c) ==
  LET e == call[c].exec
      perhapsStarted == call[c].seen \in {"starting_agent", "uncertain"} \cup Live
  IN /\ call[c].at = "act" /\ Is(c, "cancel")
     /\ \/ call[c].seen = "cancelled" /\ Skip(c, "completed")
        \/ /\ call[c].seen # "cancelled" /\ e \notin bound
           /\ Skip(c, IF perhapsStarted THEN "unsure" ELSE "stop")
        \/ /\ call[c].seen # "cancelled" /\ e \in bound
           /\ Skip(c, "unsure") \/ Skip(c, IF agent[e] = "working" THEN "interrupt" ELSE "stop")

Interrupt(c) ==
  /\ call[c].at = "interrupt"
  /\ \/ agent' = [agent EXCEPT ![call[c].exec] = "idle"] /\ (Goto(c, "stop") \/ Goto(c, "unsure"))
     \/ Goto(c, "unsure") /\ UNCHANGED agent
  /\ UNCHANGED <<rows, events>>
Stop(c) == call[c].at = "stop" /\ Move(c, "cancelled", "completed")

Archive(c) ==
  LET e == call[c].exec IN
  /\ call[c].at = "act" /\ Is(c, "archive")
  /\ \/ call[c].seen = "archived" /\ Skip(c, "completed")
     \/ /\ call[c].fresh /\ exe[e] = "cancelled"
        /\ exe' = [exe EXCEPT ![e] = "archived"] /\ Wrote(c, "completed") /\ UNCHANGED others
     \/ call[c].seen # "archived" /\ (~call[c].fresh \/ exe[e] # "cancelled") /\ Refused(c)

-------------------------------------------------------------------------------
\* Both: the catch block, the operation's new state, the answer.

\* The catch block of start reads the row again; a mutation's keeps what it had read.
Catch(c) ==
  /\ call[c].at = "catch"
  /\ IF Is(c, "start") THEN Adopt(c, "doubt") /\ UNCHANGED <<rows, agent, events>>
     ELSE Skip(c, "unsure")

Settle(c) ==
  LET to == call[c].at
      recon == IF to = "uncertain" /\ ~Is(c, "start") THEN call[c].was ELSE "none"
  IN /\ to \in {"completed", "confirmed", "blocked", "uncertain"}
     /\ Transition(c, to, recon, IF Is(c, "start") /\ to # "uncertain" THEN End(c)
                                 ELSE Goto(c, "answering"))

\* reader.get, for itself or for the answer of an operation.
Look(c) ==
  LET e == call[c].exec
      then == CASE call[c].at = "finishing" -> "completed" [] call[c].at = "pausing" -> "confirmed"
                [] OTHER -> "release"
  IN /\ call[c].at \in {"finishing", "pausing", "answering"}
     /\ call' = [call EXCEPT ![c].seen = exe[e], ![c].fresh = TRUE, ![c].then = then,
                   ![c].at = IF e \in bound /\ exe[e] \notin Closed THEN "refresh" ELSE then]
     /\ UNCHANGED <<rows, agent, events>>

\* refreshCodexExecution: no evidence, a session that wants attention, or neither.
Refresh(c) ==
  /\ call[c].at = "refresh"
  /\ \/ Move(c, "blocked", call[c].then)
     \/ \E w \in Waiting : Move(c, w, call[c].then)
     \/ call[c].seen \in Waiting \cup {"blocked"} /\ Move(c, "running", call[c].then)
     \/ call[c].seen \notin Waiting \cup {"blocked"} /\ Skip(c, call[c].then)

\* Only a cancel releases the lease, when its answer shows the execution cancelled.
ReleaseAsCancelled(c) ==
  LET e == call[c].exec IN
  /\ call[c].at = "release"
  /\ lease' = IF call[c].seen = "cancelled" THEN [lease EXCEPT ![e] = "cancelled"] ELSE lease
  /\ End(c) /\ UNCHANGED <<exe, commit, bound, op, agent, events>>
ReleaseCapacity(c) ==
  LET e == call[c].exec IN
  /\ call[c].at = "release"
  /\ lease' = IF Is(c, "cancel") /\ call[c].seen = "cancelled" /\ lease[e] = "active"
              THEN [lease EXCEPT ![e] = "released"] ELSE lease
  /\ End(c) /\ UNCHANGED <<exe, commit, bound, op, agent, events>>

-------------------------------------------------------------------------------
\* The rest of the world.

AgentWorks(e) ==
  /\ agent[e] = "pending" /\ agent' = [agent EXCEPT ![e] = "working"]
  /\ UNCHANGED <<rows, call, events>>
AgentIdles(e) ==
  /\ agent[e] = "working" /\ agent' = [agent EXCEPT ![e] = "idle"]
  /\ UNCHANGED <<rows, call, events>>
LeaseExpires(e) ==
  /\ lease[e] = "active" /\ lease' = [lease EXCEPT ![e] = "expired"]
  /\ events < MaxEvents /\ events' = events + 1
  /\ UNCHANGED <<exe, commit, bound, op, agent, call>>

\* updateHandoff takes a new version of a row that has not been dispatched.
UpdateHandoff(e) ==
  /\ exe[e] \in {"planned", "preparing_environment", "preparing_workspace", "blocked"}
  /\ e \notin bound /\ events < MaxEvents /\ events' = events + 1
  /\ call' = [c \in Calls |-> IF call[c].exec = e THEN [call[c] EXCEPT !.fresh = FALSE] ELSE call[c]]
  /\ UNCHANGED <<rows, agent>>

\* A statement or a call of the executor fails; the server restarts.
Fail(c) ==
  /\ Guarded(c) /\ events < MaxEvents /\ events' = events + 1
  /\ Thrown(c) /\ UNCHANGED <<rows, agent>>
ServerCrash ==
  /\ events < MaxEvents /\ events' = events + 1
  /\ call' = [c \in Calls |-> Free] /\ UNCHANGED <<rows, agent>>

StartStep(c) ==
  \/ PrepareSource(c) \/ Acquire(c) \/ PrepareEnvironment(c) \/ Connect(c)
  \/ PrepareWorkspace(c) \/ StartAgent(c) \/ CodexStart(c) \/ CodexAnswers(c)
  \/ BindExecutor(c) \/ Run(c) \/ Block(c) \/ Doubt(c)
MutationStep(c) ==
  \/ Send(c) \/ Respond(c) \/ Accepted(c) \/ Unsure(c) \/ Cancel(c) \/ Interrupt(c)
  \/ Stop(c) \/ Archive(c)
Step(c) ==
  \/ Reserve(c) \/ Redo(c) \/ Confirm(c) \/ ClaimDispatch(c) \/ StartStep(c) \/ MutationStep(c)
  \/ Catch(c) \/ Settle(c) \/ Look(c) \/ Refresh(c) \/ ReleaseCapacity(c)
World(e) == AgentWorks(e) \/ AgentIdles(e) \/ LeaseExpires(e) \/ UpdateHandoff(e)

Next ==
  \/ \E c \in Calls : Step(c) \/ Fail(c) \/ (\E o \in Ops : Ask(c, o)) \/ (\E e \in Execs : Get(c, e))
  \/ \E e \in Execs : World(e)
  \/ ServerCrash
Spec == Init /\ [][Next]_vars

-------------------------------------------------------------------------------
\* Properties.

Labels == StartTry \cup MutationTry \cup
  {"free", "reserve", "redo", "confirm", "claim", "catch", "refresh", "pausing", "answering",
   "release", "confirmed", "blocked"}
TypeOK ==
  /\ exe \in [Execs -> States] /\ bound \subseteq Execs /\ commit \subseteq Execs
  /\ lease \in [Execs -> {"none", "active", "released", "expired"}]
  /\ op \in [Ops -> [state : {"none", "reserved", "dispatched", "confirmed", "uncertain",
                              "blocked", "completed"}, recon : {"none"} \cup States]]
  /\ agent \in [Execs -> {"none", "pending", "working", "idle"}]
  /\ call \in [Calls -> [op : {"none"} \cup Ops, exec : {"none"} \cup Execs, at : Labels,
                         then : {"none", "completed", "confirmed", "release"},
                         seen : States, fresh : BOOLEAN, was : States, caught : BOOLEAN]]
  /\ events \in 0..MaxEvents

\* An execution that is shown running, or waiting for its user, is bound to a task the
\* executor really started: whatever retries, reconciliations, refreshes and failures
\* went before, the state column is never ahead of the binding and of the agent.
RunningIsBound ==
  \A e \in Execs : exe[e] \in Live => e \in bound /\ agent[e] \in {"working", "idle"}

\* What a caller was told stands: an operation that is recorded completed has had its
\* effect and no other request undoes it.  A start is bound, a cancelled execution
\* stays closed, an archived one archived.
OutcomesStand ==
  \A o \in Ops : op[o].state = "completed" =>
    /\ Kind[o] = "start" => Of[o] \in bound
    /\ Kind[o] = "cancel" => exe[Of[o]] \in Closed
    /\ Kind[o] = "archive" => exe[Of[o]] = "archived"
===============================================================================
