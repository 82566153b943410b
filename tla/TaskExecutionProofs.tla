-------------------------- MODULE TaskExecutionProofs --------------------------
(***************************************************************************)
(* Proofs about TaskExecution for any executions, operations and requests: *)
(* the state column is never ahead of the executor binding, and completed  *)
(* operations stand.  The invariant Inv says what every request in flight  *)
(* may rely on at the label it has reached.                                *)
(***************************************************************************)
EXTENDS TaskExecution, TLAPS

Works == {"working", "idle"}
CallType == [op : {"none"} \cup Ops, exec : {"none"} \cup Execs, at : Labels,
             then : {"none", "completed", "confirmed", "release"},
             seen : States, fresh : BOOLEAN, was : States, caught : BOOLEAN]
StartLabels == {"source", "acquire", "environment", "connect", "workspace", "agent",
                "dispatch", "answer", "bind", "run", "finishing"}
IsOf(k, kinds) == k.op \in Ops /\ Kind[k.op] \in kinds

\* What a request knows of bindings and agents, and what its label says.
Ground(k, bo, ag) ==
  /\ k.at # "free" => k.exec \in Execs
  /\ k.seen # "absent" => k.exec \in Execs
  /\ k.op \in Ops => k.exec = Of[k.op]
  /\ k.at = "reserve" => k.op \in Ops
  /\ k.seen \in Live => k.exec \in bo
  /\ k.was \in Live => k.exec \in bo
  /\ k.at \in {"run", "sent", "refresh"} => k.exec \in bo
  /\ k.at = "bind" => ag[k.exec] \in Works
  /\ k.at \in StartLabels => IsOf(k, {"start"})
  /\ k.at \in {"interrupt", "stop"} => IsOf(k, {"cancel"})
  /\ k.at = "sent" => IsOf(k, {"send", "respond"})
  /\ IsOf(k, {"start"}) /\ k.at \in {"finishing", "completed"} => k.exec \in bo
  /\ k.at = "refresh" => k.then # "none" /\ (k.then = "completed" => IsOf(k, {"start"}))

\* What it knows of executions that are over.
Final(k, ex) ==
  /\ k.seen \in Closed => ex[k.exec] \in Closed
  /\ k.seen = "archived" => ex[k.exec] = "archived"
  /\ IsOf(k, {"cancel"}) /\ k.at = "completed" => ex[k.exec] \in Closed
  /\ IsOf(k, {"archive"}) /\ k.at = "completed" => ex[k.exec] = "archived"

BoundWorks == \A e \in bound : agent[e] \in Works
Informed == \A c \in Calls : Ground(call[c], bound, agent) /\ Final(call[c], exe)
ReconBound == \A o \in Ops : op[o].recon \in Live => Of[o] \in bound
Inv == TypeOK /\ RunningIsBound /\ BoundWorks /\ Informed /\ ReconBound /\ OutcomesStand

\* What no step takes back.
Kept ==
  /\ bound \subseteq bound'
  /\ \A e \in Execs : agent[e] \in Works => agent'[e] \in Works
  /\ \A e \in Execs : exe[e] \in Closed => exe'[e] \in Closed
  /\ \A e \in Execs : exe[e] = "archived" => exe'[e] = "archived"

Untouched(x) == call'[x] = call[x] \/ call'[x] = [call[x] EXCEPT !.fresh = FALSE]

-------------------------------------------------------------------------------
\* A fact about the agent, the binding and the execution outlives every step.
LEMMA GroundKept ==
  ASSUME NEW k, NEW bo, NEW bo2, NEW ag, NEW ag2, Ground(k, bo, ag), bo \subseteq bo2,
         \A e \in Execs : ag[e] \in Works => ag2[e] \in Works
  PROVE Ground(k, bo2, ag2)
BY DEF Ground

LEMMA FinalKept ==
  ASSUME NEW k, NEW ex, NEW ex2, Final(k, ex), k.seen # "absent" => k.exec \in Execs,
         k.at # "free" => k.exec \in Execs,
         \A e \in Execs : ex[e] \in Closed => ex2[e] \in Closed,
         \A e \in Execs : ex[e] = "archived" => ex2[e] = "archived"
  PROVE Final(k, ex2)
BY DEF Final, Closed

\* Nothing a request relies on mentions the version it has read.
LEMMA FreshIsFree ==
  ASSUME NEW k \in CallType, NEW bo, NEW ag, NEW ex, Ground(k, bo, ag), Final(k, ex)
  PROVE Ground([k EXCEPT !.fresh = FALSE], bo, ag) /\ Final([k EXCEPT !.fresh = FALSE], ex)
BY DEF Ground, Final, CallType, IsOf

\* The requests a step leaves alone keep what they know.
LEMMA OthersKeep ==
  ASSUME TypeOK, Informed, Kept, NEW x \in Calls, Untouched(x)
  PROVE Ground(call'[x], bound', agent') /\ Final(call'[x], exe')
<1>1. call[x] \in CallType BY DEF TypeOK, CallType
<1>2. Ground(call[x], bound, agent) /\ Final(call[x], exe) BY DEF Informed
<1>3. Ground(call'[x], bound, agent) /\ Final(call'[x], exe)
  BY <1>1, <1>2, FreshIsFree DEF Untouched
<1>4. Ground(call'[x], bound', agent') BY <1>3, GroundKept DEF Kept
<1>5. Final(call'[x], exe') BY <1>3, FinalKept DEF Kept, Ground
<1> QED BY <1>4, <1>5

\* What a step of one request has to establish.
LEMMA StepKeeps ==
  ASSUME Inv, NEW c \in Calls, TypeOK', Kept,
         \A x \in Calls \ {c} : Untouched(x),
         Ground(call'[c], bound', agent'), Final(call'[c], exe'),
         RunningIsBound', BoundWorks', ReconBound', OutcomesStand'
  PROVE  Inv'
<1>1. ASSUME NEW x \in Calls PROVE Ground(call'[x], bound', agent') /\ Final(call'[x], exe')
  <2>1. CASE x = c BY <2>1
  <2>2. CASE x # c BY <2>2, OthersKeep DEF Inv
  <2> QED BY <2>1, <2>2
<1>2. Informed' BY <1>1 DEF Informed
<1> QED BY <1>2 DEF Inv

\* A step that changes nothing but what one request remembers.
LEMMA CallStep ==
  ASSUME Inv, NEW c \in Calls, NEW k \in CallType, call' = [call EXCEPT ![c] = k],
         UNCHANGED <<rows, agent>>, events' \in 0..MaxEvents,
         Ground(k, bound, agent), Final(k, exe)
  PROVE  Inv'
<1>1. TypeOK' BY DEF Inv, TypeOK, CallType, rows
<1>2. Kept BY DEF Kept, rows
<1>3. \A x \in Calls \ {c} : Untouched(x) BY DEF Untouched, Inv, TypeOK
<1>4. call'[c] = k BY DEF Inv, TypeOK
<1>5. RunningIsBound' /\ BoundWorks' /\ ReconBound' /\ OutcomesStand'
  BY DEF Inv, RunningIsBound, BoundWorks, ReconBound, OutcomesStand, rows
<1>6. Ground(k, bound', agent') /\ Final(k, exe') BY DEF rows
<1> QED BY <1>1, <1>2, <1>3, <1>4, <1>5, <1>6, StepKeeps

LEMMA CallTyped ==
  ASSUME Inv, NEW c \in Calls
  PROVE  call[c] \in CallType /\ Ground(call[c], bound, agent) /\ Final(call[c], exe)
BY DEF Inv, TypeOK, Informed, CallType

LEMMA FreeKnows == Free \in CallType /\ Ground(Free, bound, agent) /\ Final(Free, exe)
<1>1. Free \in CallType BY DEF Free, CallType, States, Labels
<1>2. Ground(Free, bound, agent)
  BY NoneAssumption DEF Free, Ground, IsOf, Live, Waiting, StartLabels
<1>3. Final(Free, exe) BY NoneAssumption DEF Free, Final, IsOf, Closed
<1> QED BY <1>1, <1>2, <1>3

\* Labels that stand for no fact.
Silent == Labels \ ({"reserve", "run", "sent", "refresh", "interrupt", "stop", "completed"}
                     \cup StartLabels)

LEMMA SilentKnows ==
  ASSUME Inv, NEW c \in Calls, NEW at \in Silent, call[c].at # "free", NEW caught \in BOOLEAN
  PROVE  /\ [call[c] EXCEPT !.at = at, !.caught = caught] \in CallType
         /\ Ground([call[c] EXCEPT !.at = at, !.caught = caught], bound, agent)
         /\ Final([call[c] EXCEPT !.at = at, !.caught = caught], exe)
<1>1. PICK k : k = [call[c] EXCEPT !.at = at, !.caught = caught] OBVIOUS
<1>2. k \in CallType /\ k.at = at BY <1>1, CallTyped DEF CallType, Silent
<1>3. Ground(k, bound, agent) BY <1>1, <1>2, CallTyped DEF Silent, Ground, CallType, IsOf, StartLabels
<1>4. Final(k, exe) BY <1>1, <1>2, CallTyped DEF Silent, Final, CallType, IsOf
<1> QED BY <1>1, <1>2, <1>3, <1>4

LEMMA ThrownKeeps ==
  ASSUME Inv, NEW c \in Calls, Thrown(c), call[c].at # "free", UNCHANGED <<rows, agent>>,
         events' \in 0..MaxEvents
  PROVE  Inv'
<1>1. CASE Guarded(c)
  <2> DEFINE k == [call[c] EXCEPT !.at = "catch", !.caught = TRUE]
  <2>1. call' = [call EXCEPT ![c] = k] BY <1>1 DEF Thrown
  <2>2. "catch" \in Silent BY DEF Silent, Labels, StartLabels
  <2>3. k \in CallType /\ Ground(k, bound, agent) /\ Final(k, exe) BY <2>2, SilentKnows
  <2> HIDE DEF k
  <2> QED BY <2>1, <2>3, CallStep
<1>2. CASE ~Guarded(c) BY <1>2, CallStep, FreeKnows DEF Thrown, End
<1> QED BY <1>1, <1>2

LEMMA RecordsKeep ==
  ASSUME Inv, Kept, UNCHANGED op
  PROVE  ReconBound' /\ OutcomesStand'
BY OpsAssumption DEF Inv, Kept, ReconBound, OutcomesStand

\* An execution's row moves, or is found moved, to a state the request may give it.
LEMMA MoveKeeps ==
  ASSUME Inv, NEW c \in Calls, NEW to \in States, NEW at \in Labels, call[c].at # "free",
         Move(c, to, at), to \in Live => call[c].exec \in bound,
         Ground([call[c] EXCEPT !.at = at], bound, agent),
         at = "completed" => /\ ~IsOf(call[c], {"archive"})
                             /\ IsOf(call[c], {"cancel"}) => to = "cancelled"
  PROVE  Inv'
<1> DEFINE e == call[c].exec
<1>0. /\ call[c] \in CallType /\ e \in Execs /\ exe \in [Execs -> States]
      /\ Ground(call[c], bound, agent) /\ Final(call[c], exe)
  BY CallTyped DEF Inv, TypeOK, Ground
<1>1. events' \in 0..MaxEvents BY DEF Inv, TypeOK, Move, others
<1>2. CASE call[c].seen = to /\ Goto(c, at) /\ UNCHANGED exe
  <2> DEFINE k == [call[c] EXCEPT !.at = at]
  <2>1. k \in CallType /\ Ground(k, bound, agent) BY <1>0 DEF CallType
  <2>2. Final(k, exe) BY <1>0, <1>2 DEF Final, IsOf, CallType, Closed
  <2>3. call' = [call EXCEPT ![c] = k] /\ UNCHANGED <<rows, agent>>
    BY <1>2 DEF Goto, rows, Move, others
  <2> HIDE DEF k
  <2> QED BY <1>1, <2>1, <2>2, <2>3, CallStep
<1>3. CASE exe[e] = to /\ Adopt(c, at) /\ UNCHANGED exe
  <2> DEFINE k == [call[c] EXCEPT !.at = at, !.seen = exe[e], !.fresh = TRUE]
  <2>1. k \in CallType BY <1>0 DEF CallType
  <2>2. Ground(k, bound, agent) BY <1>0, <1>3 DEF Ground, IsOf, CallType
  <2>3. Final(k, exe) BY <1>0, <1>3 DEF Final, IsOf, CallType, Closed
  <2>4. call' = [call EXCEPT ![c] = k] /\ UNCHANGED <<rows, agent>>
    BY <1>3 DEF Adopt, rows, Move, others
  <2> HIDE DEF k
  <2> QED BY <1>1, <2>1, <2>2, <2>3, <2>4, CallStep
<1>4. CASE Thrown(c) /\ UNCHANGED exe
  BY <1>1, <1>4, ThrownKeeps DEF Move, others, rows
<1>5. CASE MayMove(exe[e], to) /\ exe' = [exe EXCEPT ![e] = to] /\ Wrote(c, at)
  <2> DEFINE k == [call[c] EXCEPT !.at = at, !.seen = to, !.fresh = TRUE]
  <2>0. UNCHANGED others BY DEF Move
  <2>1. k \in CallType BY <1>0 DEF CallType
  <2>2. exe'[e] = to /\ exe' \in [Execs -> States] BY <1>0, <1>5
  <2>3. call'[c] = k /\ \A x \in Calls \ {c} : Untouched(x)
    BY <1>5, <2>2 DEF Wrote, Untouched
  <2>4. call' \in [Calls -> CallType]
    <3> SUFFICES ASSUME NEW x \in Calls PROVE call'[x] \in CallType BY <1>5 DEF Wrote
    <3>1. call[x] \in CallType /\ [call[x] EXCEPT !.fresh = FALSE] \in CallType
      BY CallTyped DEF CallType
    <3> HIDE DEF k
    <3> QED BY <2>1, <2>3, <3>1 DEF Untouched
  <2>5. TypeOK' BY <2>0, <2>2, <2>4 DEF Inv, TypeOK, others, CallType
  <2>6. Kept BY <1>0, <1>5, <2>0 DEF Kept, others, MayMove, Closed
  <2>7. Ground(k, bound', agent')
    BY <1>0, <2>0 DEF Ground, IsOf, CallType, others
  <2>8. Final(k, exe')
    BY <1>0, <1>5, <2>2 DEF Final, IsOf, CallType, Closed, MayMove
  <2>9. RunningIsBound' /\ BoundWorks'
    BY <1>0, <1>5, <2>0, <2>2 DEF Inv, RunningIsBound, BoundWorks, others, TypeOK, Works
  <2>10. ReconBound' /\ OutcomesStand' BY <2>0, <2>6, RecordsKeep DEF others
  <2> HIDE DEF k
  <2> QED BY <2>3, <2>5, <2>6, <2>7, <2>8, <2>9, <2>10, StepKeeps
<1> QED BY <1>2, <1>3, <1>4, <1>5 DEF Move

\* A label that promises no more than what the request knows.
LEMMA SkipKeeps ==
  ASSUME Inv, NEW c \in Calls, NEW at \in Labels, call[c].at # "free", Skip(c, at),
         Ground([call[c] EXCEPT !.at = at], bound, agent),
         at = "completed" => Final([call[c] EXCEPT !.at = at], exe)
  PROVE  Inv'
<1> DEFINE k == [call[c] EXCEPT !.at = at]
<1>1. k \in CallType BY CallTyped DEF CallType
<1>2. Ground(k, bound, agent) /\ Final(k, exe) BY CallTyped DEF Final, IsOf, CallType
<1>3. call' = [call EXCEPT ![c] = k] /\ UNCHANGED <<rows, agent>> /\ events' \in 0..MaxEvents
  BY DEF Skip, Goto, Inv, TypeOK
<1> HIDE DEF k
<1> QED BY <1>1, <1>2, <1>3, CallStep

\* An operation's row moves; a completed operation has had its effect.
LEMMA TransitionKeeps ==
  ASSUME Inv, NEW c \in Calls, call[c].at # "free", NEW recon \in {"none"} \cup States,
         NEW to \in {"completed", "confirmed", "blocked", "uncertain"},
         NEW k \in CallType, Transition(c, to, recon, call' = [call EXCEPT ![c] = k]),
         Ground(k, bound, agent), Final(k, exe),
         recon \in Live => call[c].exec \in bound,
         to = "completed" => call[c].at = "completed"
  PROVE  Inv'
<1>0. /\ call[c] \in CallType /\ Ground(call[c], bound, agent) /\ Final(call[c], exe)
  BY CallTyped
<1>1. UNCHANGED <<exe, commit, bound, lease, agent, events>> BY DEF Transition
<1>2. CASE op' = op
  <2>1. call' = [call EXCEPT ![c] = k] \/ Thrown(c) BY <1>2 DEF Transition
  <2>2. UNCHANGED <<rows, agent>> /\ events' \in 0..MaxEvents
    BY <1>1, <1>2 DEF rows, Inv, TypeOK
  <2> QED BY <2>1, <2>2, CallStep, ThrownKeeps
<1>3. CASE /\ op' = [op EXCEPT ![call[c].op] = [state |-> to, recon |-> recon]]
           /\ call' = [call EXCEPT ![c] = k]
  <2>1. TypeOK' BY <1>1, <1>3 DEF Inv, TypeOK, CallType
  <2>2. Kept BY <1>1 DEF Kept
  <2>3. call'[c] = k /\ \A x \in Calls \ {c} : Untouched(x)
    BY <1>3 DEF Untouched, Inv, TypeOK
  <2>4. ReconBound' BY <1>0, <1>1, <1>3 DEF Inv, TypeOK, ReconBound, Ground
  <2>5. OutcomesStand'
    BY <1>0, <1>1, <1>3 DEF Inv, TypeOK, OutcomesStand, Ground, Final, IsOf
  <2>6. RunningIsBound' /\ BoundWorks' BY <1>1 DEF Inv, RunningIsBound, BoundWorks
  <2> QED BY <1>1, <2>1, <2>2, <2>3, <2>4, <2>5, <2>6, StepKeeps
<1> QED BY <1>2, <1>3 DEF Transition

\* Reading the row again keeps an invariant request informed.
LEMMA ReadKnows ==
  ASSUME Inv, NEW c \in Calls, NEW at \in Labels \ {"completed"}, call[c].at # "free",
         Ground([call[c] EXCEPT !.at = at], bound, agent)
  PROVE  LET k == [call[c] EXCEPT !.at = at, !.seen = exe[call[c].exec], !.fresh = TRUE]
         IN k \in CallType /\ Ground(k, bound, agent) /\ Final(k, exe)
<1> DEFINE e == call[c].exec
           k == [call[c] EXCEPT !.at = at, !.seen = exe[e], !.fresh = TRUE]
<1>0. call[c] \in CallType /\ e \in Execs /\ Ground(call[c], bound, agent)
  BY CallTyped DEF Ground
<1>1. exe[e] \in States /\ (exe[e] \in Live => e \in bound)
  BY <1>0 DEF Inv, TypeOK, RunningIsBound
<1>2. k \in CallType BY <1>0, <1>1 DEF CallType
<1>3. Ground(k, bound, agent) BY <1>0, <1>1 DEF Ground, IsOf, CallType
<1>4. Final(k, exe) BY <1>0 DEF Final, IsOf, CallType
<1> QED BY <1>2, <1>3, <1>4

LEMMA AdoptKeeps ==
  ASSUME Inv, NEW c \in Calls, NEW at \in Labels \ {"completed"}, call[c].at # "free",
         Adopt(c, at), UNCHANGED <<rows, agent, events>>,
         Ground([call[c] EXCEPT !.at = at], bound, agent)
  PROVE  Inv'
<1> DEFINE k == [call[c] EXCEPT !.at = at, !.seen = exe[call[c].exec], !.fresh = TRUE]
<1>1. k \in CallType /\ Ground(k, bound, agent) /\ Final(k, exe) BY ReadKnows
<1>2. call' = [call EXCEPT ![c] = k] /\ events' \in 0..MaxEvents /\ UNCHANGED <<rows, agent>>
  BY DEF Adopt, Inv, TypeOK
<1> HIDE DEF k
<1> QED BY <1>1, <1>2, CallStep

\* A write that leaves every state as it is.
LEMMA WroteKeeps ==
  ASSUME Inv, NEW c \in Calls, NEW at \in Labels \ {"completed"}, call[c].at # "free",
         Wrote(c, at), UNCHANGED <<exe, bound, lease, op, agent, events>>,
         commit' \subseteq Execs, Ground([call[c] EXCEPT !.at = at], bound, agent)
  PROVE  Inv'
<1> DEFINE k == [call[c] EXCEPT !.at = at, !.seen = exe[call[c].exec], !.fresh = TRUE]
<1>1. k \in CallType /\ Ground(k, bound, agent) /\ Final(k, exe) BY ReadKnows
<1>2. call'[c] = k /\ \A x \in Calls \ {c} : Untouched(x) BY DEF Wrote, Untouched
<1> HIDE DEF k
<1>3. call' \in [Calls -> CallType]
  <2> SUFFICES ASSUME NEW x \in Calls PROVE call'[x] \in CallType BY DEF Wrote
  <2>1. call[x] \in CallType /\ [call[x] EXCEPT !.fresh = FALSE] \in CallType
    BY CallTyped DEF CallType
  <2> QED BY <1>1, <1>2, <2>1 DEF Untouched
<1>4. TypeOK' BY <1>3 DEF Inv, TypeOK, CallType
<1>5. Kept BY DEF Kept
<1>6. RunningIsBound' /\ BoundWorks' BY DEF Inv, RunningIsBound, BoundWorks
<1> QED BY <1>1, <1>2, <1>4, <1>5, <1>6, StepKeeps, RecordsKeep

LEMMA TouchKeeps ==
  ASSUME Inv, NEW c \in Calls, NEW at \in Labels \ {"completed"}, call[c].at # "free",
         Touch(c, at), Ground([call[c] EXCEPT !.at = at], bound, agent)
  PROVE  Inv'
<1>1. UNCHANGED <<rows, agent, events>> BY DEF Touch
<1>2. UNCHANGED <<exe, commit, bound, lease, op>> BY <1>1 DEF rows
<1>3. CASE Goto(c, at) BY <1>1, <1>3, SkipKeeps DEF Skip
<1>4. CASE Wrote(c, at) BY <1>1, <1>2, <1>4, WroteKeeps DEF Inv, TypeOK
<1>5. CASE Adopt(c, at) BY <1>1, <1>5, AdoptKeeps
<1>6. CASE Thrown(c) BY <1>1, <1>6, ThrownKeeps DEF Inv, TypeOK
<1> QED BY <1>3, <1>4, <1>5, <1>6 DEF Touch

\* What has to hold for a request to go on at a label.
Earned(c, at) ==
  /\ at \in {"run", "sent"} => call[c].exec \in bound
  /\ at = "bind" => agent[call[c].exec] \in Works
  /\ at \in StartLabels => IsOf(call[c], {"start"})
  /\ at \in {"interrupt", "stop"} => IsOf(call[c], {"cancel"})
  /\ at = "sent" => IsOf(call[c], {"send", "respond"})
  /\ IsOf(call[c], {"start"}) /\ at \in {"finishing", "completed"} => call[c].exec \in bound

LEMMA EarnedKnows ==
  ASSUME Inv, NEW c \in Calls, NEW at \in Labels \ {"reserve", "refresh"},
         call[c].at # "free", Earned(c, at)
  PROVE  Ground([call[c] EXCEPT !.at = at], bound, agent)
BY CallTyped DEF Earned, Ground, IsOf, CallType

\* A call of the executor.
LEMMA AgentKeeps ==
  ASSUME Inv, NEW c \in Calls, NEW at \in Labels \ {"reserve", "refresh", "completed"},
         call[c].at # "free", Earned(c, at), Goto(c, at), UNCHANGED <<rows, events>>,
         agent' \in [Execs -> {"none", "pending", "working", "idle"}],
         \A e \in Execs : agent[e] \in Works => agent'[e] \in Works
  PROVE  Inv'
<1> DEFINE k == [call[c] EXCEPT !.at = at]
<1>1. Ground(k, bound, agent) BY EarnedKnows
<1>2. k \in CallType /\ Final(k, exe) BY CallTyped DEF CallType, Final, IsOf
<1>3. call' = [call EXCEPT ![c] = k] BY DEF Goto
<1> HIDE DEF k
<1>4. UNCHANGED <<exe, commit, bound, lease, op, events>> BY DEF rows
<1>5. TypeOK' BY <1>2, <1>3, <1>4 DEF Inv, TypeOK, CallType
<1>6. Kept BY <1>4 DEF Kept
<1>7. call'[c] = k /\ \A x \in Calls \ {c} : Untouched(x)
  BY <1>3 DEF Untouched, Inv, TypeOK
<1>8. RunningIsBound' /\ BoundWorks'
  BY <1>4 DEF Inv, RunningIsBound, BoundWorks, Works, TypeOK
<1>9. Ground(k, bound', agent') BY <1>1, <1>4, GroundKept
<1> QED BY <1>2, <1>4, <1>5, <1>6, <1>7, <1>8, <1>9, StepKeeps, RecordsKeep

LEMMA StartStepKeeps ==
  ASSUME Inv, NEW c \in Calls, StartStep(c)
  PROVE  Inv'
<1> DEFINE e == call[c].exec
<1> USE DEF Labels, StartTry, MutationTry, StartLabels
<1>0. call[c] \in CallType /\ Ground(call[c], bound, agent) /\ Final(call[c], exe)
  BY CallTyped
<1>1. ASSUME PrepareSource(c) PROVE Inv'
  <2>0. IsOf(call[c], {"start"}) /\ call[c].at # "free" BY <1>0, <1>1 DEF PrepareSource, Ground
  <2>1. CASE call[c].seen = "running" /\ Skip(c, "finishing")
    <3>1. Earned(c, "finishing") BY <1>0, <2>0, <2>1 DEF Earned, Ground, Live
    <3> QED BY <2>0, <2>1, <3>1, EarnedKnows, SkipKeeps
  <2>2. Earned(c, "acquire") /\ Earned(c, "block") BY <2>0 DEF Earned
  <2>3. CASE Skip(c, "acquire") BY <2>0, <2>2, <2>3, EarnedKnows, SkipKeeps
  <2>4. CASE Skip(c, "block") BY <2>0, <2>2, <2>4, EarnedKnows, SkipKeeps
  <2>5. CASE /\ UNCHANGED <<exe, bound, lease, op, agent, events>>
             /\ commit' = commit \cup {e} /\ Wrote(c, "acquire")
    <3>1. commit' \subseteq Execs BY <1>0, <2>0, <2>5 DEF Inv, TypeOK, Ground
    <3> QED BY <2>0, <2>2, <2>5, <3>1, EarnedKnows, WroteKeeps
  <2>6. CASE (Thrown(c) \/ Adopt(c, "acquire")) /\ UNCHANGED <<rows, agent, events>>
    BY <2>0, <2>2, <2>6, EarnedKnows, AdoptKeeps, ThrownKeeps DEF Inv, TypeOK
  <2> QED BY <1>1, <2>1, <2>3, <2>4, <2>5, <2>6 DEF PrepareSource
<1>2. ASSUME Acquire(c) PROVE Inv'
  <2>0. IsOf(call[c], {"start"}) /\ call[c].at # "free" BY <1>0, <1>2 DEF Acquire, Ground
  <2>1. Earned(c, "environment") /\ Earned(c, "block") BY <2>0 DEF Earned
  <2>2. PICK at \in {"environment", "block"} : Goto(c, at) BY <1>2 DEF Acquire
  <2> DEFINE k == [call[c] EXCEPT !.at = at]
  <2>3. Ground(k, bound, agent) BY <2>0, <2>1, EarnedKnows
  <2>4. k \in CallType /\ Final(k, exe) BY <1>0 DEF CallType, Final, IsOf
  <2>5. call' = [call EXCEPT ![c] = k] BY <2>2 DEF Goto
  <2>6. lease' \in [Execs -> {"none", "active", "released", "expired"}]
    BY <1>2 DEF Acquire, Inv, TypeOK
  <2>7. UNCHANGED <<exe, commit, bound, op, agent, events>> BY <1>2 DEF Acquire
  <2> HIDE DEF k
  <2>8. TypeOK' BY <2>4, <2>5, <2>6, <2>7 DEF Inv, TypeOK, CallType
  <2>9. Kept BY <2>7 DEF Kept
  <2>10. call'[c] = k /\ \A x \in Calls \ {c} : Untouched(x)
    BY <2>5 DEF Untouched, Inv, TypeOK
  <2>11. RunningIsBound' /\ BoundWorks' BY <2>7 DEF Inv, RunningIsBound, BoundWorks
  <2> QED BY <2>3, <2>4, <2>7, <2>8, <2>9, <2>10, <2>11, StepKeeps, RecordsKeep
<1>3. ASSUME PrepareEnvironment(c) PROVE Inv'
  <2>0. IsOf(call[c], {"start"}) /\ call[c].at # "free"
    BY <1>0, <1>3 DEF PrepareEnvironment, Ground
  <2>1. Earned(c, "workspace") /\ Earned(c, "connect") BY <2>0 DEF Earned
  <2>2. "preparing_environment" \in States \ Live BY DEF States, Live, Waiting
  <2>3. CASE Skip(c, "workspace") BY <2>0, <2>1, <2>3, EarnedKnows, SkipKeeps
  <2>4. CASE Move(c, "preparing_environment", "connect")
    BY <2>0, <2>1, <2>2, <2>4, EarnedKnows, MoveKeeps
  <2> QED BY <1>3, <2>3, <2>4 DEF PrepareEnvironment
<1>4. ASSUME Connect(c) PROVE Inv'
  <2>0. IsOf(call[c], {"start"}) /\ call[c].at # "free" BY <1>0, <1>4 DEF Connect, Ground
  <2>1. Earned(c, "workspace") /\ Earned(c, "doubt") /\ Earned(c, "block")
    BY <2>0 DEF Earned
  <2>2. CASE Touch(c, "workspace") BY <2>0, <2>1, <2>2, EarnedKnows, TouchKeeps
  <2>3. CASE Skip(c, "doubt") BY <2>0, <2>1, <2>3, EarnedKnows, SkipKeeps
  <2>4. CASE Skip(c, "block") BY <2>0, <2>1, <2>4, EarnedKnows, SkipKeeps
  <2> QED BY <1>4, <2>2, <2>3, <2>4 DEF Connect
<1>5. ASSUME PrepareWorkspace(c) PROVE Inv'
  <2>0. IsOf(call[c], {"start"}) /\ call[c].at # "free"
    BY <1>0, <1>5 DEF PrepareWorkspace, Ground
  <2>1. Earned(c, "dispatch") /\ Earned(c, "agent") BY <2>0 DEF Earned
  <2>2. "preparing_workspace" \in States \ Live BY DEF States, Live, Waiting
  <2>3. CASE Skip(c, "dispatch") BY <2>0, <2>1, <2>3, EarnedKnows, SkipKeeps
  <2>4. CASE Move(c, "preparing_workspace", "agent")
    BY <2>0, <2>1, <2>2, <2>4, EarnedKnows, MoveKeeps
  <2> QED BY <1>5, <2>3, <2>4 DEF PrepareWorkspace
<1>6. ASSUME StartAgent(c) PROVE Inv'
  <2>0. IsOf(call[c], {"start"}) /\ call[c].at # "free" BY <1>0, <1>6 DEF StartAgent, Ground
  <2>1. Earned(c, "dispatch") BY <2>0 DEF Earned
  <2>2. "starting_agent" \in States \ Live BY DEF States, Live, Waiting
  <2> QED BY <1>6, <2>0, <2>1, <2>2, EarnedKnows, MoveKeeps DEF StartAgent
<1>7. ASSUME Run(c) PROVE Inv'
  <2>0. IsOf(call[c], {"start"}) /\ call[c].at # "free" /\ e \in bound
    BY <1>0, <1>7 DEF Run, Ground
  <2>1. Earned(c, "finishing") BY <2>0 DEF Earned
  <2>2. "running" \in States BY DEF States, Live
  <2> QED BY <1>7, <2>0, <2>1, <2>2, EarnedKnows, MoveKeeps DEF Run
<1>8. ASSUME Block(c) PROVE Inv'
  <2>1. call[c].at # "free" /\ Earned(c, "pausing") BY <1>8 DEF Block, Earned
  <2>2. "blocked" \in States \ Live BY DEF States, Live, Waiting
  <2> QED BY <1>8, <2>1, <2>2, EarnedKnows, MoveKeeps DEF Block
<1>9. ASSUME Doubt(c) PROVE Inv'
  <2>1. call[c].at # "free" /\ Earned(c, "uncertain") BY <1>9 DEF Doubt, Earned
  <2>2. "uncertain" \in States \ Live BY DEF States, Live, Waiting
  <2> QED BY <1>9, <2>1, <2>2, EarnedKnows, MoveKeeps DEF Doubt
<1>10. ASSUME CodexStart(c) PROVE Inv'
  <2>0. IsOf(call[c], {"start"}) /\ call[c].at # "free" BY <1>0, <1>10 DEF CodexStart, Ground
  <2>1. Earned(c, "answer") /\ Earned(c, "block") BY <2>0 DEF Earned
  <2>2. CASE Skip(c, "block") BY <2>0, <2>1, <2>2, EarnedKnows, SkipKeeps
  <2>3. CASE /\ agent' = [agent EXCEPT ![e] = IF @ = "none" THEN "pending" ELSE @]
             /\ Goto(c, "answer") /\ UNCHANGED <<rows, events>>
    <3>1. agent' \in [Execs -> {"none", "pending", "working", "idle"}]
      BY <2>3 DEF Inv, TypeOK
    <3>2. \A f \in Execs : agent[f] \in Works => agent'[f] \in Works
      BY <2>3 DEF Inv, TypeOK, Works
    <3> QED BY <2>0, <2>1, <2>3, <3>1, <3>2, AgentKeeps
  <2> QED BY <1>10, <2>2, <2>3 DEF CodexStart
<1>11. ASSUME CodexAnswers(c) PROVE Inv'
  <2>0. IsOf(call[c], {"start"}) /\ call[c].at # "free" BY <1>0, <1>11 DEF CodexAnswers, Ground
  <2>1. Earned(c, "doubt") /\ Earned(c, "block") BY <2>0 DEF Earned
  <2>2. CASE agent[e] \in Works /\ Touch(c, "bind")
    <3>1. Earned(c, "bind") BY <2>0, <2>2 DEF Earned
    <3> QED BY <2>0, <2>2, <3>1, EarnedKnows, TouchKeeps
  <2>3. CASE Skip(c, "doubt") BY <2>0, <2>1, <2>3, EarnedKnows, SkipKeeps
  <2>4. CASE /\ agent[e] \in {"none", "pending"} /\ Goto(c, "block")
             /\ agent' = [agent EXCEPT ![e] = "none"] /\ UNCHANGED <<rows, events>>
    <3>1. agent' \in [Execs -> {"none", "pending", "working", "idle"}]
      BY <2>4 DEF Inv, TypeOK
    <3>2. \A f \in Execs : agent[f] \in Works => agent'[f] \in Works
      BY <2>4 DEF Inv, TypeOK, Works
    <3> QED BY <2>0, <2>1, <2>4, <3>1, <3>2, AgentKeeps
  <2> QED BY <1>11, <2>2, <2>3, <2>4 DEF CodexAnswers, Works
<1>12. ASSUME BindExecutor(c) PROVE Inv'
  <2> DEFINE k == [call[c] EXCEPT !.at = "run"]
  <2>0. /\ IsOf(call[c], {"start"}) /\ call[c].at # "free" /\ agent[e] \in Works
        /\ e \in Execs
    BY <1>0, <1>12 DEF BindExecutor, Ground
  <2>1. bound' = bound \cup {e} /\ UNCHANGED <<exe, commit, lease, op, agent, events>>
    BY <1>12 DEF BindExecutor
  <2>2. Ground(k, bound', agent') BY <1>0, <2>0, <2>1 DEF Ground, IsOf, CallType
  <2>3. k \in CallType /\ Final(k, exe') BY <1>0, <2>1 DEF CallType, Final, IsOf
  <2>4. call' = [call EXCEPT ![c] = k] BY <1>12 DEF BindExecutor, Goto
  <2> HIDE DEF k
  <2>5. TypeOK' BY <2>0, <2>1, <2>3, <2>4 DEF Inv, TypeOK, CallType
  <2>6. Kept BY <2>1 DEF Kept
  <2>7. call'[c] = k /\ \A x \in Calls \ {c} : Untouched(x)
    BY <2>4 DEF Untouched, Inv, TypeOK
  <2>8. RunningIsBound' /\ BoundWorks' BY <2>0, <2>1 DEF Inv, RunningIsBound, BoundWorks
  <2> QED BY <2>1, <2>2, <2>3, <2>5, <2>6, <2>7, <2>8, StepKeeps, RecordsKeep
<1> QED BY <1>1, <1>2, <1>3, <1>4, <1>5, <1>6, <1>7, <1>8, <1>9,
     <1>10, <1>11, <1>12 DEF StartStep

LEMMA MutationStepKeeps ==
  ASSUME Inv, NEW c \in Calls, MutationStep(c)
  PROVE  Inv'
<1> DEFINE e == call[c].exec
<1> USE DEF Labels, StartTry, MutationTry, StartLabels
<1>0. call[c] \in CallType /\ Ground(call[c], bound, agent) /\ Final(call[c], exe)
  BY CallTyped
<1>1. /\ "blocked" \in States \ Live /\ "uncertain" \in States \ Live
      /\ "cancelled" \in States \ Live /\ "running" \in States /\ Waiting \subseteq States
  BY DEF States, Live, Waiting, Closed
<1>2. Earned(c, "blocked") /\ Earned(c, "unsure") /\ Earned(c, "uncertain")
  BY DEF Earned
<1>3. ASSUME Send(c) PROVE Inv'
  <2>0. IsOf(call[c], {"send"}) /\ call[c].at # "free" BY <1>3 DEF Send, Is, IsOf
  <2>1. Earned(c, "completed") /\ (e \in bound => Earned(c, "sent"))
    BY <2>0 DEF Earned, IsOf
  <2>2. CASE Skip(c, "blocked") BY <1>2, <2>0, <2>2, EarnedKnows, SkipKeeps
  <2>3. CASE Skip(c, "unsure") BY <1>2, <2>0, <2>3, EarnedKnows, SkipKeeps
  <2>4. CASE Skip(c, "completed")
    <3>1. Final([call[c] EXCEPT !.at = "completed"], exe)
      BY <1>0, <2>0 DEF Final, IsOf, CallType
    <3> QED BY <2>0, <2>1, <2>4, <3>1, EarnedKnows, SkipKeeps
  <2>5. CASE Move(c, "blocked", "blocked") BY <1>1, <1>2, <2>0, <2>5, EarnedKnows, MoveKeeps
  <2>6. ASSUME e \in bound, NEW w \in Waiting, Move(c, w, "completed") PROVE Inv'
    BY <1>1, <2>0, <2>1, <2>6, EarnedKnows, MoveKeeps DEF IsOf
  <2>7. CASE /\ e \in bound /\ agent' = [agent EXCEPT ![e] = "working"]
             /\ Goto(c, "sent") \/ Goto(c, "unsure")
             /\ UNCHANGED <<rows, events>>
    <3>1. agent' \in [Execs -> {"none", "pending", "working", "idle"}]
      BY <2>7 DEF Inv, TypeOK
    <3>2. \A f \in Execs : agent[f] \in Works => agent'[f] \in Works
      BY <2>7 DEF Inv, TypeOK, Works
    <3> QED BY <1>2, <2>0, <2>1, <2>7, <3>1, <3>2, AgentKeeps
  <2> QED BY <1>3, <2>2, <2>3, <2>4, <2>5, <2>6, <2>7 DEF Send, Refused
<1>4. ASSUME Respond(c) PROVE Inv'
  <2>0. IsOf(call[c], {"respond"}) /\ call[c].at # "free" BY <1>4 DEF Respond, Is, IsOf
  <2>1. e \in bound => Earned(c, "sent") BY <2>0 DEF Earned, IsOf
  <2>2. CASE Skip(c, "blocked") BY <1>2, <2>0, <2>2, EarnedKnows, SkipKeeps
  <2>3. CASE Skip(c, "unsure") BY <1>2, <2>0, <2>3, EarnedKnows, SkipKeeps
  <2>4. CASE e \in bound /\ Skip(c, "sent") BY <2>0, <2>1, <2>4, EarnedKnows, SkipKeeps
  <2>5. CASE Move(c, "blocked", "blocked") BY <1>1, <1>2, <2>0, <2>5, EarnedKnows, MoveKeeps
  <2> QED BY <1>4, <2>2, <2>3, <2>4, <2>5 DEF Respond, Refused
<1>5. ASSUME Accepted(c) PROVE Inv'
  <2>0. IsOf(call[c], {"send", "respond"}) /\ call[c].at # "free" /\ e \in bound
    BY <1>0, <1>5 DEF Accepted, Ground
  <2>1. Earned(c, "completed") BY <2>0 DEF Earned
  <2>2. Move(c, "running", "completed") BY <1>5 DEF Accepted
  <2> QED BY <1>1, <2>0, <2>1, <2>2, EarnedKnows, MoveKeeps DEF IsOf
<1>6. ASSUME Unsure(c) PROVE Inv'
  BY <1>1, <1>2, <1>6, EarnedKnows, MoveKeeps DEF Unsure
<1>7. ASSUME Cancel(c) PROVE Inv'
  <2>0. IsOf(call[c], {"cancel"}) /\ call[c].at # "free" BY <1>7 DEF Cancel, Is, IsOf
  <2>1. Earned(c, "completed") /\ Earned(c, "stop") /\ Earned(c, "interrupt")
    BY <2>0 DEF Earned, IsOf
  <2>2. CASE call[c].seen = "cancelled" /\ Skip(c, "completed")
    <3>1. Final([call[c] EXCEPT !.at = "completed"], exe)
      BY <1>0, <2>0, <2>2 DEF Final, IsOf, CallType, Closed
    <3> QED BY <2>0, <2>1, <2>2, <3>1, EarnedKnows, SkipKeeps
  <2>3. CASE Skip(c, "unsure") BY <1>2, <2>0, <2>3, EarnedKnows, SkipKeeps
  <2>4. CASE Skip(c, "stop") BY <2>0, <2>1, <2>4, EarnedKnows, SkipKeeps
  <2>5. CASE Skip(c, "interrupt") BY <2>1, <2>0, <2>5, EarnedKnows, SkipKeeps
  <2> QED BY <1>7, <2>2, <2>3, <2>4, <2>5 DEF Cancel
<1>8. ASSUME Interrupt(c) PROVE Inv'
  <2>0. IsOf(call[c], {"cancel"}) /\ call[c].at # "free" BY <1>0, <1>8 DEF Interrupt, Ground
  <2>1. Earned(c, "stop") BY <2>0 DEF Earned, IsOf
  <2>2. (Goto(c, "stop") \/ Goto(c, "unsure")) /\ UNCHANGED <<rows, events>>
    BY <1>8 DEF Interrupt
  <2>3. agent' \in [Execs -> {"none", "pending", "working", "idle"}]
    BY <1>8 DEF Interrupt, Inv, TypeOK
  <2>4. \A f \in Execs : agent[f] \in Works => agent'[f] \in Works
    BY <1>8 DEF Interrupt, Inv, TypeOK, Works
  <2> QED BY <1>2, <2>0, <2>1, <2>2, <2>3, <2>4, AgentKeeps
<1>9. ASSUME Stop(c) PROVE Inv'
  <2>0. IsOf(call[c], {"cancel"}) /\ call[c].at # "free" BY <1>0, <1>9 DEF Stop, Ground
  <2>1. Earned(c, "completed") BY <2>0 DEF Earned, IsOf
  <2>2. Move(c, "cancelled", "completed") BY <1>9 DEF Stop
  <2> QED BY <1>1, <2>0, <2>1, <2>2, EarnedKnows, MoveKeeps DEF IsOf
<1>10. ASSUME Archive(c) PROVE Inv'
  <2>0. IsOf(call[c], {"archive"}) /\ call[c].at # "free" BY <1>10 DEF Archive, Is, IsOf
  <2>1. Earned(c, "completed") BY <2>0 DEF Earned, IsOf
  <2>2. CASE Skip(c, "blocked") BY <1>2, <2>0, <2>2, EarnedKnows, SkipKeeps
  <2>3. CASE call[c].seen = "archived" /\ Skip(c, "completed")
    <3>1. Final([call[c] EXCEPT !.at = "completed"], exe)
      BY <1>0, <2>0, <2>3 DEF Final, IsOf, CallType, Closed
    <3> QED BY <2>0, <2>1, <2>3, <3>1, EarnedKnows, SkipKeeps
  <2>4. CASE /\ exe[e] = "cancelled" /\ exe' = [exe EXCEPT ![e] = "archived"]
             /\ Wrote(c, "completed") /\ UNCHANGED others
    <3> DEFINE k == [call[c] EXCEPT !.at = "completed", !.seen = "archived", !.fresh = TRUE]
    <3>0. e \in Execs BY <1>0, <2>0 DEF Ground
    <3>1. exe'[e] = "archived" /\ exe' \in [Execs -> States]
      BY <2>4, <3>0 DEF Inv, TypeOK, States, Closed
    <3>2. k \in CallType
      <4>1. call[c] \in CallType BY <1>0
      <4>2. "completed" \in Labels OBVIOUS
      <4>3. "archived" \in States BY DEF States, Closed
      <4> HIDE DEF Labels, StartTry, MutationTry, StartLabels
      <4> QED BY <4>1, <4>2, <4>3 DEF CallType
    <3>3. call'[c] = k /\ \A x \in Calls \ {c} : Untouched(x)
      BY <2>4, <3>1 DEF Wrote, Untouched
    <3>4. Ground(k, bound', agent')
      BY <1>0, <2>0, <2>4 DEF Ground, IsOf, CallType, others, Live, Waiting
    <3>5. Final(k, exe') BY <2>0, <3>1 DEF Final, IsOf, Closed
    <3> HIDE DEF k
    <3>6. call' \in [Calls -> CallType]
      <4> SUFFICES ASSUME NEW x \in Calls PROVE call'[x] \in CallType BY <2>4 DEF Wrote
      <4>1. call[x] \in CallType /\ [call[x] EXCEPT !.fresh = FALSE] \in CallType
        <5>1. call[x] \in CallType BY CallTyped
        <5> HIDE DEF Labels, StartTry, MutationTry, StartLabels
        <5> QED BY <5>1 DEF CallType
      <4> QED BY <3>2, <3>3, <4>1 DEF Untouched
    <3>7. TypeOK' BY <2>4, <3>1, <3>6 DEF Inv, TypeOK, others, CallType
    <3>8. Kept BY <2>4, <3>0 DEF Kept, others, Closed, Inv, TypeOK
    <3>9. RunningIsBound' /\ BoundWorks'
      BY <2>4, <3>0 DEF Inv, RunningIsBound, BoundWorks, others, TypeOK, Live, Waiting
    <3> QED BY <2>4, <3>3, <3>4, <3>5, <3>7, <3>8, <3>9, StepKeeps, RecordsKeep DEF others
  <2> QED BY <1>10, <2>2, <2>3, <2>4 DEF Archive, Refused
<1> QED BY <1>3, <1>4, <1>5, <1>6, <1>7, <1>8, <1>9, <1>10 DEF MutationStep

LEMMA ServiceStepKeeps ==
  ASSUME Inv, NEW c \in Calls,
         \/ Reserve(c) \/ Redo(c) \/ Confirm(c) \/ ClaimDispatch(c) \/ Catch(c) \/ Settle(c)
         \/ Look(c) \/ Refresh(c) \/ ReleaseCapacity(c)
  PROVE  Inv'
<1> DEFINE e == call[c].exec
           o == call[c].op
           At(at) == [call[c] EXCEPT !.at = at]
<1> USE DEF Labels, StartTry, MutationTry, StartLabels
<1>0. call[c] \in CallType /\ Ground(call[c], bound, agent) /\ Final(call[c], exe)
  BY CallTyped
<1>1. Earned(c, "answering") /\ Earned(c, "claim") /\ Earned(c, "confirm") /\ Earned(c, "unsure")
      /\ Earned(c, "doubt") /\ Earned(c, "act")
  BY DEF Earned
<1>2. ASSUME NEW at \in {"answering", "claim", "confirm", "act"}, call[c].at # "free"
      PROVE  At(at) \in CallType /\ Ground(At(at), bound, agent) /\ Final(At(at), exe)
  <2>1. Ground(At(at), bound, agent) BY <1>1, <1>2, EarnedKnows
  <2> QED BY <1>0, <2>1 DEF CallType, Final, IsOf
<1>3. ASSUME Reserve(c) PROVE Inv'
  <2>0. call[c].at # "free" /\ o \in Ops /\ op[o].recon \in {"none"} \cup States
    BY <1>0, <1>3 DEF Reserve, Ground, Inv, TypeOK
  <2>1. UNCHANGED <<exe, commit, bound, lease, agent, events>> BY <1>3 DEF Reserve
  <2>2. CASE UNCHANGED op /\ \E at \in {"answering", "claim", "confirm"} : Goto(c, at)
    <3>1. UNCHANGED <<rows, agent>> /\ events' \in 0..MaxEvents
      BY <2>1, <2>2 DEF rows, Inv, TypeOK
    <3> QED BY <1>2, <2>0, <2>2, <3>1, CallStep DEF Goto
  <2>3. CASE /\ UNCHANGED op /\ op[o].recon \in States
             /\ call' = [call EXCEPT ![c].at = "redo", ![c].was = op[o].recon]
    <3> DEFINE k == [call[c] EXCEPT !.at = "redo", !.was = op[o].recon]
    <3>1. UNCHANGED <<rows, agent>> /\ events' \in 0..MaxEvents
      BY <2>1, <2>3 DEF rows, Inv, TypeOK
    <3>2. k \in CallType BY <1>0, <2>3 DEF CallType
    <3>5. Final(k, exe) BY <1>0 DEF CallType, Final, IsOf
    <3>3. Ground(k, bound, agent)
      BY <1>0, <2>0, <2>3 DEF Ground, IsOf, CallType, Inv, ReconBound
    <3>4. call' = [call EXCEPT ![c] = k] BY <2>3
    <3> HIDE DEF k
    <3> QED BY <3>1, <3>2, <3>3, <3>4, <3>5, CallStep
  <2>4. CASE op' = [op EXCEPT ![o].state = "reserved"] /\ op[o].state = "none" /\ Goto(c, "claim")
    <3> DEFINE k == At("claim")
    <3>1. k \in CallType /\ Ground(k, bound, agent) /\ Final(k, exe) BY <1>2, <2>0
    <3>2. call' = [call EXCEPT ![c] = k] BY <2>4 DEF Goto
    <3> HIDE DEF k
    <3>8. op' \in [Ops -> [state : {"none", "reserved", "dispatched", "confirmed", "uncertain",
                                   "blocked", "completed"}, recon : {"none"} \cup States]]
      <4> DEFINE Rows == [state : {"none", "reserved", "dispatched", "confirmed", "uncertain",
                                   "blocked", "completed"}, recon : {"none"} \cup States]
      <4>1. op \in [Ops -> Rows] BY DEF Inv, TypeOK
      <4>2. \A r \in Rows : [r EXCEPT !.state = "reserved"] \in Rows OBVIOUS
      <4>3. op' = [op EXCEPT ![o] = [op[o] EXCEPT !.state = "reserved"]] BY <2>4
      <4>4. [op[o] EXCEPT !.state = "reserved"] \in Rows BY <2>0, <4>1, <4>2
      <4>5. op' \in [Ops -> Rows] BY <4>1, <4>3, <4>4
      <4> QED BY <4>5
    <3>9. call' \in [Calls -> CallType] BY <3>1, <3>2 DEF Inv, TypeOK, CallType
    <3>3. TypeOK' BY <2>1, <3>8, <3>9 DEF Inv, TypeOK, CallType
    <3>4. Kept BY <2>1 DEF Kept
    <3>5. call'[c] = k /\ \A x \in Calls \ {c} : Untouched(x)
      BY <3>2 DEF Untouched, Inv, TypeOK
    <3>6. RunningIsBound' /\ BoundWorks' BY <2>1 DEF Inv, RunningIsBound, BoundWorks
    <3>7. ReconBound' /\ OutcomesStand'
      BY <2>1, <2>4 DEF Inv, TypeOK, ReconBound, OutcomesStand
    <3> QED BY <2>1, <3>1, <3>3, <3>4, <3>5, <3>6, <3>7, StepKeeps
  <2>5. op[o].recon \notin {"none", "uncertain"} \cup Closed => op[o].recon \in States BY <2>0
  <2> QED BY <1>3, <2>2, <2>3, <2>4, <2>5 DEF Reserve
<1>4. ASSUME Redo(c) PROVE Inv'
  <2>0. call[c].at # "free" /\ call[c].was \in States /\ (call[c].was \in Live => e \in bound)
    BY <1>0, <1>4 DEF Redo, Ground, CallType
  <2> QED BY <1>1, <1>4, <2>0, EarnedKnows, MoveKeeps, SkipKeeps DEF Redo
<1>5. ASSUME Confirm(c) PROVE Inv'
  <2> DEFINE k == At("claim")
  <2>0. call[c].at # "free" BY <1>5 DEF Confirm
  <2>1. k \in CallType /\ Ground(k, bound, agent) /\ Final(k, exe) BY <1>2, <2>0
  <2>2. Transition(c, "confirmed", "none", call' = [call EXCEPT ![c] = k])
    BY <1>5 DEF Confirm, Goto, Transition
  <2>3. "none" \notin Live BY DEF Live, Waiting
  <2> HIDE DEF k
  <2> QED BY <2>0, <2>1, <2>2, <2>3, TransitionKeeps
<1>6. ASSUME ClaimDispatch(c) PROVE Inv'
  <2>0. call[c].at # "free" BY <1>6 DEF ClaimDispatch
  <2>1. UNCHANGED <<exe, commit, bound, lease, agent, events>> BY <1>6 DEF ClaimDispatch
  <2>2. CASE UNCHANGED op /\ Goto(c, "answering")
    <3>1. UNCHANGED <<rows, agent>> /\ events' \in 0..MaxEvents
      BY <2>1, <2>2 DEF rows, Inv, TypeOK
    <3> QED BY <1>2, <2>0, <2>2, <3>1, CallStep DEF Goto
  <2>3. CASE /\ op[o].state \in {"reserved", "confirmed"}
             /\ op' = [op EXCEPT ![o] = [state |-> "dispatched", recon |-> "none"]]
             /\ call' = [call EXCEPT ![c].at = IF Is(c, "start") THEN "source" ELSE "act",
                                     ![c].was = call[c].seen]
    <3> DEFINE k == [call[c] EXCEPT !.at = IF Is(c, "start") THEN "source" ELSE "act",
                                    !.was = call[c].seen]
    <3>1. k \in CallType
      <4>1. PICK at \in Labels : at = IF Is(c, "start") THEN "source" ELSE "act" BY DEF Labels
      <4>2. PICK s \in States : s = call[c].seen BY <1>0 DEF CallType
      <4>3. PICK m \in CallType : m = call[c] BY <1>0
      <4>4. k = [m EXCEPT !.at = at, !.was = s] BY <4>1, <4>2, <4>3
      <4> HIDE DEF k, Labels, StartTry, MutationTry, StartLabels
      <4> QED BY <4>4 DEF CallType
    <3>2. Final(k, exe) BY <1>0 DEF CallType, Final, IsOf
    <3>3. Ground(k, bound, agent) BY <1>0, <2>0 DEF Ground, IsOf, CallType, Is
    <3>4. call' = [call EXCEPT ![c] = k] BY <2>3
    <3> HIDE DEF k
    <3>5. op' \in [Ops -> [state : {"none", "reserved", "dispatched", "confirmed", "uncertain",
                                   "blocked", "completed"}, recon : {"none"} \cup States]]
      BY <2>3 DEF Inv, TypeOK
    <3>6. call' \in [Calls -> CallType] BY <3>1, <3>4 DEF Inv, TypeOK, CallType
    <3>7. TypeOK' BY <2>1, <3>5, <3>6 DEF Inv, TypeOK, CallType
    <3>8. Kept BY <2>1 DEF Kept
    <3>9. call'[c] = k /\ \A x \in Calls \ {c} : Untouched(x)
      BY <3>4 DEF Untouched, Inv, TypeOK
    <3>10. RunningIsBound' /\ BoundWorks' BY <2>1 DEF Inv, RunningIsBound, BoundWorks
    <3>11. "none" \notin Live BY DEF Live, Waiting
    <3>12. ReconBound' /\ OutcomesStand'
      BY <2>1, <2>3, <3>11 DEF Inv, TypeOK, ReconBound, OutcomesStand
    <3> QED BY <2>1, <3>1, <3>2, <3>3, <3>7, <3>8, <3>9, <3>10, <3>12, StepKeeps
  <2> QED BY <1>6, <2>2, <2>3 DEF ClaimDispatch
<1>7. ASSUME Catch(c) PROVE Inv'
  <2>0. call[c].at # "free" BY <1>7 DEF Catch
  <2>1. CASE Adopt(c, "doubt") /\ UNCHANGED <<rows, agent, events>>
    BY <1>1, <2>0, <2>1, EarnedKnows, AdoptKeeps
  <2>2. CASE Skip(c, "unsure") BY <1>1, <2>0, <2>2, EarnedKnows, SkipKeeps
  <2> QED BY <1>7, <2>1, <2>2 DEF Catch
<1>8. ASSUME Settle(c) PROVE Inv'
  <2> DEFINE to == call[c].at
             recon == IF to = "uncertain" /\ ~Is(c, "start") THEN call[c].was ELSE "none"
             next == IF Is(c, "start") /\ to # "uncertain" THEN Free ELSE At("answering")
  <2>0. to \in {"completed", "confirmed", "blocked", "uncertain"} BY <1>8 DEF Settle
  <2>1. recon \in {"none"} \cup States /\ (recon \in Live => e \in bound)
    BY <1>0 DEF CallType, Ground, Live, Waiting
  <2>2. next \in CallType /\ Ground(next, bound, agent) /\ Final(next, exe)
    BY <1>2, <2>0, FreeKnows
  <2>3. Transition(c, to, recon, call' = [call EXCEPT ![c] = next])
    BY <1>8 DEF Settle, Goto, End, Transition
  <2> HIDE DEF next, recon
  <2> QED BY <2>0, <2>1, <2>2, <2>3, TransitionKeeps
<1>9. ASSUME Look(c) PROVE Inv'
  <2> DEFINE then == CASE call[c].at = "finishing" -> "completed"
                       [] call[c].at = "pausing" -> "confirmed" [] OTHER -> "release"
             at == IF e \in bound /\ exe[e] \notin Closed THEN "refresh" ELSE then
             k == [call[c] EXCEPT !.seen = exe[e], !.fresh = TRUE, !.then = then, !.at = at]
  <2>0. call[c].at \in {"finishing", "pausing", "answering"} /\ e \in Execs
    BY <1>0, <1>9 DEF Look, Ground
  <2>1. exe[e] \in States /\ (exe[e] \in Live => e \in bound)
    BY <2>0 DEF Inv, TypeOK, RunningIsBound
  <2>2. then \in {"completed", "confirmed", "release"}
        /\ (then = "completed" => call[c].at = "finishing")
    BY <2>0
  <2>3. k.exec = e /\ k.op = o /\ k.seen = exe[e] /\ k.was = call[c].was /\ k.then = then
        /\ k.at = at
    BY <1>0 DEF CallType
  <2>4. k \in CallType BY <1>0, <2>1, <2>2 DEF CallType
  <2>5. call' = [call EXCEPT ![c] = k] /\ UNCHANGED <<rows, agent>> /\ events' \in 0..MaxEvents
    BY <1>9 DEF Look, Inv, TypeOK
  <2> HIDE DEF k, then
  <2>6. Ground(k, bound, agent) BY <1>0, <2>0, <2>1, <2>2, <2>3 DEF Ground, IsOf
  <2>7. Final(k, exe) BY <1>0, <2>0, <2>2, <2>3 DEF Final, Ground, IsOf
  <2> QED BY <2>4, <2>5, <2>6, <2>7, CallStep
<1>10. ASSUME Refresh(c) PROVE Inv'
  <2>0. /\ call[c].at = "refresh" /\ e \in bound
        /\ call[c].then \in {"completed", "confirmed", "release"}
        /\ call[c].then = "completed" => IsOf(call[c], {"start"})
    BY <1>0, <1>10 DEF Refresh, Ground, CallType
  <2>1. Earned(c, call[c].then) BY <2>0 DEF Earned, IsOf
  <2>2. Ground(At(call[c].then), bound, agent) BY <2>0, <2>1, EarnedKnows
  <2>3. ~IsOf(call[c], {"start"}) \/ ~IsOf(call[c], {"archive", "cancel"}) BY DEF IsOf
  <2>4. ASSUME NEW to \in States, Move(c, to, call[c].then) PROVE Inv'
    BY <2>0, <2>2, <2>3, <2>4, MoveKeeps DEF IsOf
  <2>5. CASE Skip(c, call[c].then)
    <3>1. call[c].then = "completed" => Final(At(call[c].then), exe)
      BY <1>0, <2>0 DEF Final, IsOf, CallType
    <3> QED BY <2>0, <2>2, <2>5, <3>1, SkipKeeps
  <2>6. {"blocked", "running"} \cup Waiting \subseteq States BY DEF States, Live
  <2> QED BY <1>10, <2>4, <2>5, <2>6 DEF Refresh
<1>11. ASSUME ReleaseCapacity(c) PROVE Inv'
  <2>1. call' = [call EXCEPT ![c] = Free] /\ UNCHANGED <<exe, commit, bound, op, agent, events>>
    BY <1>11 DEF ReleaseCapacity, End
  <2>2. lease' \in [Execs -> {"none", "active", "released", "expired"}]
    BY <1>11 DEF ReleaseCapacity, Inv, TypeOK
  <2>3. TypeOK' BY <2>1, <2>2, FreeKnows DEF Inv, TypeOK, CallType
  <2>4. Kept BY <2>1 DEF Kept
  <2>5. call'[c] = Free /\ \A x \in Calls \ {c} : Untouched(x)
    BY <2>1 DEF Untouched, Inv, TypeOK
  <2>6. RunningIsBound' /\ BoundWorks' BY <2>1 DEF Inv, RunningIsBound, BoundWorks
  <2> QED BY <2>1, <2>3, <2>4, <2>5, <2>6, FreeKnows, StepKeeps, RecordsKeep
<1> QED BY <1>3, <1>4, <1>5, <1>6, <1>7, <1>8, <1>9, <1>10, <1>11

\* A new request knows nothing but the row it has read.
LEMMA NewKnows ==
  ASSUME NEW o \in {"none"} \cup Ops, NEW e \in Execs, o \in Ops => e = Of[o],
         NEW at \in {"reserve", "answering"}, at = "reserve" => o \in Ops,
         NEW seen \in States, NEW fresh \in BOOLEAN, NEW bo, NEW ag, NEW ex,
         seen \in Live => e \in bo, seen \in Closed => ex[e] = seen
  PROVE  LET k == [Free EXCEPT !.op = o, !.exec = e, !.at = at, !.seen = seen, !.fresh = fresh]
         IN k \in CallType /\ Ground(k, bo, ag) /\ Final(k, ex)
<1> DEFINE k == [Free EXCEPT !.op = o, !.exec = e, !.at = at, !.seen = seen, !.fresh = fresh]
<1>1. k \in CallType BY FreeKnows DEF CallType, Labels
<1>2. /\ k.op = o /\ k.exec = e /\ k.at = at /\ k.then = "none" /\ k.seen = seen
      /\ k.was = "absent"
  BY DEF Free
<1> HIDE DEF k
<1>3. Ground(k, bo, ag) BY <1>2 DEF Ground, IsOf, StartLabels, Live, Waiting
<1>4. Final(k, ex) BY <1>2 DEF Final, IsOf, Closed
<1> QED BY <1>1, <1>3, <1>4 DEF k

LEMMA RequestKeeps ==
  ASSUME Inv, NEW c \in Calls,
         (\E o \in Ops : Ask(c, o)) \/ (\E e \in Execs : Get(c, e))
  PROVE  Inv'
<1>1. ASSUME NEW o \in Ops, Ask(c, o) PROVE Inv'
  <2> DEFINE e == Of[o]
             k == [Free EXCEPT !.op = o, !.exec = e, !.at = "reserve", !.seen = exe'[e],
                               !.fresh = TRUE]
  <2>0. e \in Execs BY OpsAssumption
  <2>1. UNCHANGED <<commit, bound, lease, op, agent>> /\ events' \in 0..MaxEvents
    <3>1. events \in 0..MaxEvents BY DEF Inv, TypeOK
    <3>2. events < MaxEvents /\ events' = events + 1 BY <1>1 DEF Ask
    <3>3. events' \in 0..MaxEvents BY ONLY <3>1, <3>2, BoundAssumption
    <3>4. UNCHANGED <<commit, bound, lease, op, agent>> BY <1>1 DEF Ask
    <3> QED BY <3>3, <3>4
  <2>2. exe' = exe \/ (exe[e] = "absent" /\ exe' = [exe EXCEPT ![e] = "planned"])
    BY <1>1 DEF Ask
  <2>3. exe' \in [Execs -> States] /\ exe'[e] \in States /\ (exe'[e] \in Live => e \in bound')
    BY <2>0, <2>1, <2>2 DEF Inv, TypeOK, RunningIsBound, States, Live, Waiting
  <2>4. k \in CallType /\ Ground(k, bound', agent') /\ Final(k, exe')
    BY <2>0, <2>3, NewKnows
  <2>5. call' = [call EXCEPT ![c] = k] BY <1>1 DEF Ask
  <2> HIDE DEF k
  <2>6. TypeOK' BY <2>1, <2>3, <2>4, <2>5 DEF Inv, TypeOK, CallType
  <2>7. Kept BY <2>0, <2>1, <2>2 DEF Kept, Closed, Inv, TypeOK
  <2>8. call'[c] = k /\ \A x \in Calls \ {c} : Untouched(x)
    BY <2>5 DEF Untouched, Inv, TypeOK
  <2>9. RunningIsBound' /\ BoundWorks'
    BY <2>0, <2>1, <2>2 DEF Inv, RunningIsBound, BoundWorks, TypeOK, Live, Waiting
  <2> QED BY <2>1, <2>4, <2>6, <2>7, <2>8, <2>9, StepKeeps, RecordsKeep
<1>2. ASSUME NEW e \in Execs, Get(c, e) PROVE Inv'
  <2> DEFINE k == [Free EXCEPT !.exec = e, !.at = "answering"]
  <2>1. k \in CallType BY FreeKnows DEF CallType, Labels
  <2>2. /\ k.op = "none" /\ k.exec = e /\ k.at = "answering" /\ k.then = "none"
        /\ k.seen = "absent" /\ k.was = "absent"
    BY DEF Free
  <2>3. call' = [call EXCEPT ![c] = k] /\ UNCHANGED <<rows, agent>> BY <1>2 DEF Get
  <2>4. events' \in 0..MaxEvents
    <3>1. events \in 0..MaxEvents BY DEF Inv, TypeOK
    <3>2. events < MaxEvents /\ events' = events + 1 BY <1>2 DEF Get
    <3> QED BY ONLY <3>1, <3>2, BoundAssumption
  <2> HIDE DEF k
  <2>5. Ground(k, bound, agent)
    BY <2>2, NoneAssumption DEF Ground, IsOf, StartLabels, Live, Waiting
  <2>6. Final(k, exe) BY <2>2, NoneAssumption DEF Final, IsOf, Closed
  <2> QED BY <2>1, <2>3, <2>4, <2>5, <2>6, CallStep
<1> QED BY <1>1, <1>2

\* A step of no request.
LEMMA WorldStepKeeps ==
  ASSUME Inv, TypeOK', Kept, \A x \in Calls : Untouched(x), UNCHANGED <<exe, bound, op>>
  PROVE  Inv'
<1>1. Informed' BY OthersKeep DEF Inv, Informed
<1>2. RunningIsBound' /\ BoundWorks'
  BY DEF Inv, RunningIsBound, BoundWorks, Kept, TypeOK, Works
<1> QED BY <1>1, <1>2, RecordsKeep DEF Inv

LEMMA WorldKeeps ==
  ASSUME Inv, NEW e \in Execs, World(e)
  PROVE  Inv'
<1>1. ASSUME AgentWorks(e) \/ AgentIdles(e) PROVE Inv'
  <2>1. UNCHANGED <<exe, commit, bound, lease, op, call, events>>
    BY <1>1 DEF AgentWorks, AgentIdles, rows
  <2>2. TypeOK' BY <1>1, <2>1 DEF AgentWorks, AgentIdles, Inv, TypeOK
  <2>3. Kept BY <1>1, <2>1 DEF AgentWorks, AgentIdles, Inv, TypeOK, Kept, Works
  <2> QED BY <2>1, <2>2, <2>3, WorldStepKeeps DEF Untouched
<1>2. ASSUME LeaseExpires(e) PROVE Inv'
  <2>1. UNCHANGED <<exe, commit, bound, op, agent, call>> BY <1>2 DEF LeaseExpires
  <2>2. TypeOK' BY <1>2, <2>1, BoundAssumption DEF LeaseExpires, Inv, TypeOK
  <2> QED BY <2>1, <2>2, WorldStepKeeps DEF Untouched, Kept
<1>3. ASSUME UpdateHandoff(e) PROVE Inv'
  <2>1. UNCHANGED <<exe, commit, bound, lease, op, agent>> BY <1>3 DEF UpdateHandoff, rows
  <2>2. \A x \in Calls : Untouched(x) BY <1>3 DEF UpdateHandoff, Untouched
  <2>3. call' \in [Calls -> CallType]
    <3> SUFFICES ASSUME NEW x \in Calls PROVE call'[x] \in CallType BY <1>3 DEF UpdateHandoff
    <3>1. call[x] \in CallType /\ [call[x] EXCEPT !.fresh = FALSE] \in CallType
      BY CallTyped DEF CallType
    <3> QED BY <2>2, <3>1 DEF Untouched
  <2>4. events' \in 0..MaxEvents BY <1>3, BoundAssumption DEF UpdateHandoff, Inv, TypeOK
  <2>5. TypeOK' BY <2>1, <2>3, <2>4 DEF Inv, TypeOK, CallType
  <2> QED BY <2>1, <2>2, <2>5, WorldStepKeeps DEF Kept
<1> QED BY <1>1, <1>2, <1>3 DEF World

LEMMA FaultKeeps ==
  ASSUME Inv, (\E c \in Calls : Fail(c)) \/ ServerCrash
  PROVE  Inv'
<1>1. ASSUME NEW c \in Calls, Fail(c) PROVE Inv'
  <2>1. call[c].at # "free" BY <1>1 DEF Fail, Guarded, StartTry, MutationTry
  <2>2. events' \in 0..MaxEvents BY <1>1, BoundAssumption DEF Fail, Inv, TypeOK
  <2> QED BY <1>1, <2>1, <2>2, ThrownKeeps DEF Fail
<1>2. ASSUME ServerCrash PROVE Inv'
  <2>1. UNCHANGED <<exe, commit, bound, lease, op, agent>> BY <1>2 DEF ServerCrash, rows
  <2>2. call' = [c \in Calls |-> Free] BY <1>2 DEF ServerCrash
  <2>3. events' \in 0..MaxEvents BY <1>2, BoundAssumption DEF ServerCrash, Inv, TypeOK
  <2>4. TypeOK' BY <2>1, <2>2, <2>3, FreeKnows DEF Inv, TypeOK, CallType
  <2>5. Informed' BY <2>1, <2>2, FreeKnows DEF Informed
  <2>6. Kept BY <2>1 DEF Kept
  <2>7. RunningIsBound' /\ BoundWorks' BY <2>1 DEF Inv, RunningIsBound, BoundWorks
  <2> QED BY <2>1, <2>4, <2>5, <2>6, <2>7, RecordsKeep DEF Inv
<1> QED BY <1>1, <1>2

LEMMA InvInit == Init => Inv
<1> SUFFICES ASSUME Init PROVE Inv OBVIOUS
<1>1. TypeOK BY FreeKnows, BoundAssumption DEF Init, TypeOK, CallType, States
<1>2. Informed BY FreeKnows DEF Init, Informed
<1>3. RunningIsBound /\ BoundWorks /\ ReconBound /\ OutcomesStand
  BY DEF Init, RunningIsBound, BoundWorks, ReconBound, OutcomesStand, Live, Waiting
<1> QED BY <1>1, <1>2, <1>3 DEF Inv

LEMMA InvStep == Inv /\ [Next]_vars => Inv'
<1> SUFFICES ASSUME Inv, [Next]_vars PROVE Inv' OBVIOUS
<1>1. ASSUME NEW c \in Calls, Step(c) PROVE Inv'
  BY <1>1, ServiceStepKeeps, StartStepKeeps, MutationStepKeeps DEF Step
<1>2. CASE \E c \in Calls : Step(c) BY <1>1, <1>2
<1>3. CASE \E c \in Calls : (\E o \in Ops : Ask(c, o)) \/ (\E e \in Execs : Get(c, e))
  BY <1>3, RequestKeeps
<1>4. CASE \E e \in Execs : World(e) BY <1>4, WorldKeeps
<1>5. CASE (\E c \in Calls : Fail(c)) \/ ServerCrash BY <1>5, FaultKeeps
<1>6. CASE UNCHANGED vars
  BY <1>6 DEF vars, Inv, TypeOK, RunningIsBound, BoundWorks, Informed, ReconBound, OutcomesStand
<1> QED BY <1>2, <1>3, <1>4, <1>5, <1>6 DEF Next

-------------------------------------------------------------------------------
\* The variables keep their types in every behaviour of the service.
THEOREM ExecutionTyped == Spec => []TypeOK
<1>1. Inv => TypeOK BY DEF Inv
<1> QED BY <1>1, InvInit, InvStep, PTL DEF Spec

\* The state column never says running or waiting before the executor is bound and
\* its task really started: no retry, reconciliation, refresh, race of requests,
\* exception or restart brings the column ahead of the evidence.
THEOREM NeverAheadOfTheAgent == Spec => []RunningIsBound
<1>1. Inv => RunningIsBound BY DEF Inv
<1> QED BY <1>1, InvInit, InvStep, PTL DEF Spec

\* What was recorded completed stays true: a completed start is bound, a completed
\* cancel leaves the execution closed whatever the other requests do, and a
\* completed archive leaves it archived.
THEOREM CompletedStands == Spec => []OutcomesStand
<1>1. Inv => OutcomesStand BY DEF Inv
<1> QED BY <1>1, InvInit, InvStep, PTL DEF Spec
===============================================================================
