----------------------------- MODULE RuntimeControl -----------------------------
(***************************************************************************)
(* Control of one Workspace Runtime generation: callers ask the server for *)
(* operations (git, dev servers, task start), the dispatcher sends each as *)
(* a numbered command over the runtime's socket, the Go receiver executes  *)
(* it and journals its responses, and PostgreSQL keeps the outcome.        *)
(*                                                                         *)
(* An operation row is [state, session, seq |-> command_sequence,          *)
(* acc |-> accepted_event_sequence, res |-> result_event_sequence,         *)
(* lease |-> its lease has not run out].  A journal is [cmd, acc, last,    *)
(* log] with a log entry per accepted command: first and second are the    *)
(* event sequences of its two responses.  0 stands for null everywhere.    *)
(***************************************************************************)
EXTENDS Naturals, Sequences, FiniteSets

CONSTANTS
  Ops,         \* operations callers ask for
  Mutations,   \* those with access mode mutation
  Calls,       \* slots for concurrent requests
  Sessions,    \* identifiers of socket sessions, recycled when nothing names them
  MaxCommands, \* maximumControlCommands: log entries the journal keeps
  MaxFaults    \* bound: lost connections, crashes and restarts of one behaviour

ASSUME OpsAssumption == IsFiniteSet(Ops) /\ Mutations \subseteq Ops
ASSUME SessionsAssumption == Sessions \subseteq (Nat \ {0}) /\ IsFiniteSet(Sessions)
ASSUME LimitsAssumption == MaxCommands \in Nat \ {0} /\ MaxFaults \in Nat

NoSession == 0

VARIABLES
  op,       \* rows of canonical_runtime_control_operations
  cmdMark,  \* last_control_command_sequence of the generation
  evMark,   \* last_control_event_sequence of the generation
  current,  \* current_session_id of the generation
  map,      \* session in the connections map
  call,     \* requests in the service and the dispatcher
  link,     \* whether the runtime holds a socket open
  session,  \* session the server gave to that socket
  srv,      \* how far the server is with registering that socket
  resumeAt, \* event watermark read before the registration was stored
  backlog,  \* command sequences the registration listener still has to send again
  toRt,     \* frames on their way to the runtime
  toSrv,    \* frames on their way to the server
  late,     \* responses of the previous socket the server has not processed yet
  dying,    \* session of a socket whose close event is still to come
  rt, disk, \* the receiver's journal in memory and in its file
  busy,     \* the command the receiver is executing
  effect,   \* operations that took effect on the machine
  ran,      \* history: how often each operation was executed afresh
  faults

store == <<op, cmdMark, evMark, current>>
gateway == <<map, session, srv, resumeAt, backlog, dying>>
wires == <<link, toRt, toSrv, late>>
receiver == <<rt, disk, busy, effect, ran>>
vars == <<store, gateway, wires, receiver, call, faults>>

Unresolved == {"dispatching", "uncertain"}
Terminal == {"completed", "failed"}
NoRow == [state |-> "none", session |-> NoSession, seq |-> 0, acc |-> 0, res |-> 0,
          lease |-> FALSE]
EmptyJournal == [cmd |-> 0, acc |-> 0, last |-> 0, log |-> <<>>]
Free == [phase |-> "free"]
Idle == [phase |-> "idle"]

CloseFrame == [type |-> "close"]
Response(o, kind, ev) == [type |-> kind, op |-> o, ev |-> ev, session |-> session]
Outcomes == {"result", "unavailable", "uncertain"}

\* Frames reach the runtime while the map points to its socket; after socket.close
\* nothing more is sent.
Sent(frame) ==
  IF link = "down" \/ (toRt # <<>> /\ toRt[Len(toRt)] = CloseFrame) THEN toRt
  ELSE Append(toRt, frame)
SentTo(s, frame) == IF s = session THEN Sent(frame) ELSE toRt

\* The connection handler has finished its registration.
Active == srv = "resending" /\ backlog = {}

-------------------------------------------------------------------------------
\* The receiver's journal.

Newest(entry) == IF entry.second = 0 THEN entry.first ELSE entry.second

\* What saveControlJournal insists on: events strictly increase through the log,
\* and the last one is the journal's.
Valid(j) ==
  /\ j.acc <= j.last /\ Len(j.log) <= MaxCommands
  /\ \A i \in DOMAIN j.log :
       /\ j.log[i].second # 0 => j.log[i].first < j.log[i].second
       /\ i > 1 => Newest(j.log[i - 1]) < j.log[i].first
  /\ j.log # <<>> => Newest(j.log[Len(j.log)]) = j.last

Places(j, n) == {i \in DOMAIN j.log : j.log[i].seq = n}

\* A new command's record, with its accepted response; the oldest one makes room.
Journaled(j, o, n) ==
  LET log == Append(j.log, [seq |-> n, op |-> o, first |-> j.last + 1, second |-> 0,
                            kind |-> "open", prepared |-> FALSE])
  IN [cmd |-> n, acc |-> j.acc, last |-> j.last + 1,
      log |-> IF Len(log) > MaxCommands THEN Tail(log) ELSE log]

Concluded(j, i, kind) ==
  [j EXCEPT !.last = @ + 1, !.log[i].second = j.last + 1, !.log[i].kind = kind]

\* The intent of a mutation is journaled before it is executed.
Prepared(j, i) == [j EXCEPT !.log[i].prepared = TRUE]

\* The responses of one command as they are sent again.
Replayed(entry) ==
  <<Response(entry.op, "accepted", entry.first)>> \o
  (IF entry.second = 0 THEN <<>> ELSE <<Response(entry.op, entry.kind, entry.second)>>)

\* Every response in the journal above the server's watermark.
Unseen(j, mark) ==
  LET log == {j.log[i] : i \in DOMAIN j.log}
  IN {m \in {Response(e.op, "accepted", e.first) : e \in log}
             \cup {Response(e.op, e.kind, e.second) : e \in {d \in log : d.second # 0}} :
        m.ev > mark}

\* They are sent again when a socket is bound, in the order of their events, which
\* leaves one sequence.
Resent(j, mark) ==
  LET unseen == Unseen(j, mark)
  IN {s \in [1..Cardinality(unseen) -> unseen] :
        \A k, n \in DOMAIN s : k < n => s[k].ev < s[n].ev}

-------------------------------------------------------------------------------
Init ==
  /\ op = [o \in Ops |-> NoRow] /\ cmdMark = 0 /\ evMark = 0 /\ current = NoSession
  /\ call = [c \in Calls |-> Free]
  /\ map = NoSession /\ session = NoSession /\ srv = "none" /\ resumeAt = 0
  /\ backlog = {} /\ dying = NoSession
  /\ link = "down" /\ toRt = <<>> /\ toSrv = <<>> /\ late = <<>>
  /\ rt = EmptyJournal /\ disk = EmptyJournal /\ busy = Idle
  /\ effect = {} /\ ran = [o \in Ops |-> 0] /\ faults = 0

-------------------------------------------------------------------------------
\* Requests: service.execute and dispatcher.dispatch, one action per await.

\* No record answers the request yet, and the runtime is online: its session becomes
\* the target of the operation.
Ask(c, o) ==
  /\ call[c] = Free /\ op[o].state = "none" /\ map # NoSession
  /\ call' = [call EXCEPT ![c] = [phase |-> "asked", op |-> o, session |-> current]]
  /\ UNCHANGED <<store, gateway, wires, receiver, faults>>

Fenced(o) ==
  \E p \in Mutations \ {o} : op[p].state \in {"reserved"} \cup Unresolved

\* Mutant: an uncertain mutation no longer holds the fence.
MayReserveAfterUncertain(o, s) ==
  \/ op[o].state = "none" /\ ~(o \in Mutations /\ \E p \in Mutations \ {o} :
                                  op[p].state \in {"reserved", "dispatching"})
  \/ op[o].state = "reserved" /\ ~op[o].lease /\ op[o].session = s

\* A new row, or a reservation whose lease ran out.
MayReserve(o, s) ==
  \/ op[o].state = "none" /\ ~(o \in Mutations /\ Fenced(o))
  \/ op[o].state = "reserved" /\ ~op[o].lease /\ op[o].session = s

Reserve(c) ==
  /\ call[c].phase = "asked"
  /\ LET o == call[c].op
         s == call[c].session
     IN IF MayReserve(o, s)
        THEN /\ op' = [op EXCEPT ![o] = [NoRow EXCEPT !.state = "reserved", !.session = s,
                                                      !.lease = TRUE]]
             /\ call' = [call EXCEPT ![c].phase = "reserved"]
        ELSE /\ op' = [op EXCEPT ![o] =
                  IF @.state = "dispatching" /\ ~@.lease /\ @.session = s
                  THEN [@ EXCEPT !.state = "uncertain"] ELSE @]
             /\ call' = [call EXCEPT ![c] = Free]
  /\ UNCHANGED <<cmdMark, evMark, current, gateway, wires, receiver, faults>>

\* freshTarget failed or was denied: failReserved.
TargetChanged(c) ==
  /\ call[c].phase = "reserved"
  /\ op' = [op EXCEPT ![call[c].op] =
       IF @.state = "reserved" /\ @.session = call[c].session
       THEN [@ EXCEPT !.state = "failed", !.lease = FALSE] ELSE @]
  /\ call' = [call EXCEPT ![c] = Free]
  /\ UNCHANGED <<cmdMark, evMark, current, gateway, wires, receiver, faults>>

MayDispatch(o, s) ==
  op[o].state = "reserved" /\ op[o].lease /\ op[o].session = s /\ current = s

MarkDispatchAttempted(c) ==
  /\ call[c].phase = "reserved"
  /\ IF MayDispatch(call[c].op, call[c].session)
     THEN /\ cmdMark' = cmdMark + 1
          /\ op' = [op EXCEPT ![call[c].op].state = "dispatching",
                              ![call[c].op].seq = cmdMark + 1,
                              ![call[c].op].lease = TRUE]
          /\ call' = [call EXCEPT ![c].phase = "marked"]
     ELSE /\ call' = [call EXCEPT ![c] = Free]
          /\ UNCHANGED <<op, cmdMark>>
  /\ UNCHANGED <<evMark, current, gateway, wires, receiver, faults>>

\* Mutant: the failure code goes into the state column.
MarkedWithCode(o, s) ==
  [op EXCEPT ![o] = IF @.state = "dispatching" /\ @.session = s
                    THEN [@ EXCEPT !.state = "runtime_timeout", !.lease = FALSE] ELSE @]

\* markUncertain without a result: any other state, or another session, refuses it.
MarkedUncertain(o, s) ==
  [op EXCEPT ![o] = IF @.state = "dispatching" /\ @.session = s
                    THEN [@ EXCEPT !.state = "uncertain", !.lease = FALSE] ELSE @]

DispatchControl(c) ==
  /\ call[c].phase = "marked"
  /\ IF map = call[c].session
     THEN /\ toRt' = SentTo(map, [type |-> "command", op |-> call[c].op,
                                  seq |-> op[call[c].op].seq])
          /\ call' = [call EXCEPT ![c].phase = "waiting"]
          /\ UNCHANGED op
     ELSE /\ op' = MarkedUncertain(call[c].op, call[c].session)
          /\ call' = [call EXCEPT ![c] = Free]
          /\ UNCHANGED toRt
  /\ UNCHANGED <<cmdMark, evMark, current, gateway, link, toSrv, late, receiver, faults>>

\* No answer in 15 seconds.  When the answer was being processed and had read the row
\* before, its transaction then finds the row changed and the socket is closed.
DispatchTimeout(c) ==
  LET o == call[c].op IN
  /\ call[c].phase = "waiting"
  /\ op' = MarkedUncertain(o, call[c].session)
  /\ call' = [call EXCEPT ![c] = Free]
  /\ \/ UNCHANGED <<toRt, toSrv>>
     \/ /\ Active /\ toSrv # <<>> /\ op' # op
        /\ Head(toSrv).type \in {"result", "unavailable"} /\ Head(toSrv).op = o
        /\ toSrv' = Tail(toSrv) /\ toRt' = Sent(CloseFrame)
  /\ UNCHANGED <<cmdMark, evMark, current, gateway, link, late, receiver, faults>>

\* Ten seconds of a reservation, thirty of a dispatch nobody waits for any more.
LeaseExpires(o) ==
  /\ op[o].lease
  /\ \A c \in Calls : call[c] # Free /\ call[c].op = o =>
        call[c].phase \notin {"marked", "waiting"}
  /\ op' = [op EXCEPT ![o].lease = FALSE]
  /\ UNCHANGED <<cmdMark, evMark, current, gateway, wires, receiver, call, faults>>

-------------------------------------------------------------------------------
\* The gateway: registration with its recovery listener, and responses.

\* service.register up to the transaction: the resume evidence is compared.
ReadResume ==
  /\ srv = "none" /\ toSrv # <<>> /\ link = "up"
  /\ toSrv' = Tail(toSrv)
  /\ LET r == Head(toSrv) IN
       IF r.cmd > cmdMark \/ r.last < evMark
       THEN /\ srv' = "failed" /\ toRt' = Sent(CloseFrame) /\ UNCHANGED resumeAt
       ELSE /\ srv' = "registering" /\ resumeAt' = evMark /\ UNCHANGED toRt
  /\ UNCHANGED <<store, map, session, backlog, dying, link, late, receiver, call, faults>>

\* Sessions some record, request or frame still names.
Named ==
  {current, map, session, dying} \cup {op[o].session : o \in Ops}
  \cup {call[c].session : c \in {d \in Calls : call[d] # Free}}
  \cup {late[i].session : i \in DOMAIN late}

\* The transaction, the map and the answer.
Register(s) ==
  /\ srv = "registering"
  /\ s \in Sessions \ Named /\ \A t \in Sessions \ Named : s <= t
  /\ current' = s /\ map' = s /\ session' = s /\ srv' = "querying"
  /\ toRt' = Sent([type |-> "registered", ev |-> resumeAt])
  /\ late' = <<>>
  /\ UNCHANGED <<op, cmdMark, evMark, resumeAt, backlog, dying, link, toSrv, receiver,
                 call, faults>>

\* The listener reads what is unresolved.
ReadUnresolved ==
  /\ srv = "querying"
  /\ backlog' = {op[o].seq : o \in {p \in Ops : op[p].state \in Unresolved}}
  /\ srv' = "resending"
  /\ UNCHANGED <<store, map, session, resumeAt, dying, wires, receiver, call, faults>>

Rebound(o) == [op EXCEPT ![o].session = session]

\* In the order of the commands, each is bound to the new session and sent again; a row
\* or a session that changed meanwhile fails the registration.
Resend ==
  /\ srv = "resending" /\ backlog # {}
  /\ \E o \in Ops :
       /\ op[o].seq \in backlog /\ \A n \in backlog : op[o].seq <= n
       /\ IF op[o].state \in Unresolved /\ current = session
          THEN /\ op' = Rebound(o)
               /\ IF map = session
                  THEN /\ toRt' = Sent([type |-> "command", op |-> o, seq |-> op[o].seq])
                       /\ backlog' = backlog \ {op[o].seq} /\ UNCHANGED srv
                  ELSE toRt' = Sent(CloseFrame) /\ backlog' = {} /\ srv' = "failed"
          ELSE /\ toRt' = Sent(CloseFrame) /\ backlog' = {} /\ srv' = "failed"
               /\ UNCHANGED op
  /\ UNCHANGED <<cmdMark, evMark, current, map, session, resumeAt, dying, link, toSrv,
                 late, receiver, call, faults>>

\* advanceEventSequence: contiguous, and only for the current session.
Advances(m) == current = m.session /\ m.ev = evMark + 1

\* The row holds this response already.
Repeats(row, m) ==
  IF m.type = "accepted" THEN row.acc = m.ev
  ELSE /\ row.res = m.ev
       /\ row.state = CASE m.type = "result" -> "completed"
                        [] m.type = "unavailable" -> "failed"
                        [] m.type = "uncertain" -> "uncertain"

\* The response is recorded and moves the event watermark.
Records(row, m) ==
  /\ row.state \in Unresolved /\ Advances(m)
  /\ IF m.type = "accepted" THEN row.acc = 0
     ELSE row.acc < m.ev /\ (m.type = "uncertain" => row.res = 0)

\* Mutant: an error that leaves the outcome open is recorded as a failure.
AnsweredFinally(row, m) ==
  IF m.type = "accepted" THEN [row EXCEPT !.acc = m.ev]
  ELSE [row EXCEPT !.res = m.ev, !.lease = FALSE,
                   !.state = IF m.type = "result" THEN "completed" ELSE "failed"]

\* accept, complete, reconcile and markUncertain.
Answered(row, m) ==
  IF m.type = "accepted" THEN [row EXCEPT !.acc = m.ev]
  ELSE [row EXCEPT !.res = m.ev, !.lease = FALSE,
                   !.state = CASE m.type = "result" -> "completed"
                               [] m.type = "unavailable" -> "failed"
                               [] m.type = "uncertain" -> "uncertain"]

\* handleMessage: record, acknowledge on the current socket, settle the caller.
HandleMessage(m) ==
  LET row == op[m.op]
      bound == row.session = m.session
      taken == bound /\ (Repeats(row, m) \/ Records(row, m))
  IN /\ IF bound /\ ~Repeats(row, m) /\ Records(row, m)
        THEN op' = [op EXCEPT ![m.op] = Answered(row, m)] /\ evMark' = evMark + 1
        ELSE UNCHANGED <<op, evMark>>
     /\ IF taken /\ map = m.session
        THEN /\ toRt' = SentTo(map, [type |-> "ack", ev |-> m.ev])
             /\ call' = [c \in Calls |->
                  IF /\ m.type \in Outcomes /\ call[c] # Free
                     /\ call[c].op = m.op /\ call[c].phase = "waiting"
                  THEN Free ELSE call[c]]
        ELSE toRt' = SentTo(m.session, CloseFrame) /\ UNCHANGED call

HandleLive ==
  /\ Active /\ toSrv # <<>> /\ toSrv' = Tail(toSrv)
  /\ HandleMessage(Head(toSrv))
  /\ UNCHANGED <<cmdMark, current, gateway, link, late, receiver, faults>>

HandleLate ==
  /\ late # <<>> /\ late' = Tail(late)
  /\ HandleMessage(Head(late))
  /\ UNCHANGED <<cmdMark, current, gateway, link, toSrv, receiver, faults>>

\* service.disconnect; a socket that closes before its registration is complete has
\* no `active` and leaves the map alone.
CloseEvent ==
  /\ dying # NoSession
  /\ map' = IF map = dying THEN NoSession ELSE map
  /\ dying' = NoSession
  /\ UNCHANGED <<store, session, srv, resumeAt, backlog, wires, receiver, call, faults>>

-------------------------------------------------------------------------------
\* The runtime.

\* The socket is gone: what was written may still be read by the server, in part.
Hangup ==
  /\ link' = "down" /\ toRt' = <<>> /\ toSrv' = <<>>
  /\ IF link = "up" /\ Active
     THEN /\ dying' = session
          /\ \E n \in 0..Len(toSrv) : late' = SubSeq(toSrv, 1, n)
     ELSE UNCHANGED <<dying, late>>

\* Mutant: acceptance is only written to the file with the outcome.
SaveLater(j, frames, next) ==
  /\ rt' = j /\ busy' = next
  /\ disk' = IF next = Idle THEN j ELSE disk
  /\ toSrv' = IF link = "up" THEN toSrv \o frames ELSE toSrv
  /\ UNCHANGED <<link, late, dying>>
  /\ toRt' = IF busy = Idle THEN Tail(toRt) ELSE toRt

\* saveControlJournal, then the frames and the next step; a journal that is not valid
\* stays in memory and ends the connection.
Save(j, frames, next) ==
  /\ rt' = j
  /\ IF Valid(j)
     THEN /\ disk' = j /\ busy' = next
          /\ toSrv' = IF link = "up" THEN toSrv \o frames ELSE toSrv
          /\ UNCHANGED <<link, late, dying>>
          /\ toRt' = IF busy = Idle THEN Tail(toRt) ELSE toRt
     ELSE Hangup /\ busy' = Idle /\ UNCHANGED disk

Refuse == Hangup /\ UNCHANGED <<rt, disk, busy>>

Dial ==
  /\ link = "down" /\ busy = Idle
  /\ link' = "up" /\ toSrv' = <<[cmd |-> rt.cmd, last |-> rt.last]>>
  /\ session' = NoSession /\ srv' = "none" /\ backlog' = {}
  /\ UNCHANGED <<store, map, resumeAt, dying, toRt, late, receiver, call, faults>>

Reads(type) == link = "up" /\ busy = Idle /\ toRt # <<>> /\ Head(toRt).type = type
quietServer == <<store, map, session, srv, resumeAt, backlog, call, faults>>

Bind ==
  /\ Reads("registered")
  /\ LET w == Head(toRt).ev IN
       IF w < rt.acc \/ w > rt.last THEN Refuse
       ELSE \E frames \in Resent([rt EXCEPT !.acc = w], w) :
              Save([rt EXCEPT !.acc = w], frames, Idle)
  /\ UNCHANGED <<quietServer, effect, ran>>

Acknowledge ==
  /\ Reads("ack")
  /\ LET w == Head(toRt).ev IN
       IF w < rt.acc \/ w > rt.last THEN Refuse
       ELSE Save([rt EXCEPT !.acc = w], <<>>, Idle)
  /\ UNCHANGED <<quietServer, effect, ran>>

\* A command that was accepted before: it is never executed again, at most its recorded
\* intent is checked or finished.
Replay ==
  /\ Reads("command") /\ Head(toRt).seq <= rt.cmd
  /\ LET n == Head(toRt).seq IN
       IF Places(rt, n) = {} THEN Refuse /\ UNCHANGED effect
       ELSE \E i \in Places(rt, n) :
         LET e == rt.log[i] IN
         IF e.second # 0
         THEN Save(rt, Replayed(e), Idle) /\ UNCHANGED effect
         ELSE \E kind \in {"uncertain"} \cup (IF e.prepared THEN {"result"} ELSE {}) :
           /\ Save(Concluded(rt, i, kind), Replayed(Concluded(rt, i, kind).log[i]), Idle)
           /\ effect' \in {effect} \cup (IF e.prepared THEN {effect \cup {e.op}} ELSE {})
           /\ kind = "result" => e.op \in effect'
  /\ UNCHANGED <<quietServer, ran>>

Follows(n) == n = rt.cmd + 1

\* A new command: journaled and acknowledged; when that cannot be sent it is not executed.
Accept ==
  /\ Reads("command") /\ Head(toRt).seq > rt.cmd
  /\ LET o == Head(toRt).op
         n == Head(toRt).seq
     IN IF ~Follows(n) THEN Refuse /\ UNCHANGED faults
        ELSE \/ /\ Save(Journaled(rt, o, n), <<Response(o, "accepted", rt.last + 1)>>,
                        [phase |-> "accepted", op |-> o, seq |-> n])
                /\ UNCHANGED faults
             \/ /\ faults < MaxFaults /\ faults' = faults + 1
                /\ rt' = Journaled(rt, o, n) /\ Hangup /\ UNCHANGED busy
                /\ disk' = IF Valid(rt') THEN rt' ELSE disk
  /\ UNCHANGED <<store, map, session, srv, resumeAt, backlog, call, effect, ran>>

\* prepareMutationEvidence: the intent is journaled, or the command is refused.
Prepare ==
  /\ busy.phase = "accepted" /\ busy.op \in Mutations
  /\ \E i \in Places(rt, busy.seq) :
       \/ Save(Prepared(rt, i), <<>>, [busy EXCEPT !.phase = "prepared"])
       \/ Save(Concluded(rt, i, "unavailable"),
               <<Response(busy.op, "unavailable", rt.last + 1)>>, Idle)
  /\ UNCHANGED <<quietServer, effect, ran>>

\* The operation runs and may fail with or without having had its effect.
Execute ==
  /\ busy # Idle /\ busy.phase = IF busy.op \in Mutations THEN "prepared" ELSE "accepted"
  /\ ran' = [ran EXCEPT ![busy.op] = @ + 1]
  /\ \/ effect' = effect \cup {busy.op} /\ busy' = [busy EXCEPT !.phase = "result"]
     \/ /\ effect' \in {effect, effect \cup (Mutations \cap {busy.op})}
        /\ busy' = [busy EXCEPT !.phase =
                       IF busy.op \in Mutations THEN "uncertain" ELSE "unavailable"]
  /\ UNCHANGED <<quietServer, wires, dying, rt, disk>>

\* Mutant: the outcome is journaled and not sent.
ConcludeSilently ==
  /\ busy.phase \in Outcomes
  /\ \E i \in Places(rt, busy.seq) : Save(Concluded(rt, i, busy.phase), <<>>, Idle)
  /\ UNCHANGED <<quietServer, effect, ran>>

Conclude ==
  /\ busy.phase \in Outcomes
  /\ \E i \in Places(rt, busy.seq) :
       Save(Concluded(rt, i, busy.phase),
            <<Response(busy.op, busy.phase, rt.last + 1)>>, Idle)
  /\ UNCHANGED <<quietServer, effect, ran>>

Closed == Reads("close") /\ Refuse /\ UNCHANGED <<quietServer, effect, ran>>

-------------------------------------------------------------------------------
\* Faults.

Fault == faults < MaxFaults /\ faults' = faults + 1

Lose ==
  /\ Fault /\ link = "up" /\ Hangup
  /\ UNCHANGED <<store, map, session, srv, resumeAt, backlog, call, receiver>>

\* The runtime process dies and starts again from its journal file.
RuntimeCrash ==
  /\ Fault /\ Hangup /\ rt' = disk /\ busy' = Idle
  /\ UNCHANGED <<store, map, session, srv, resumeAt, backlog, call, disk, effect, ran>>

ServerRestart ==
  /\ Fault
  /\ map' = NoSession /\ session' = NoSession /\ srv' = "failed" /\ backlog' = {}
  /\ dying' = NoSession /\ link' = "down" /\ toRt' = <<>> /\ toSrv' = <<>> /\ late' = <<>>
  /\ call' = [c \in Calls |-> Free]
  /\ UNCHANGED <<store, resumeAt, receiver>>

-------------------------------------------------------------------------------
CallStep(c) ==
  Reserve(c) \/ TargetChanged(c) \/ MarkDispatchAttempted(c) \/ DispatchControl(c)
ServerStep ==
  \/ ReadResume \/ ReadUnresolved \/ Resend \/ HandleLive \/ CloseEvent
  \/ \E s \in Sessions : Register(s)
RuntimeStep ==
  Dial \/ Bind \/ Acknowledge \/ Replay \/ Accept \/ Prepare \/ Execute \/ Conclude \/ Closed

Next ==
  \/ \E c \in Calls : CallStep(c) \/ DispatchTimeout(c) \/ \E o \in Ops : Ask(c, o)
  \/ \E o \in Ops : LeaseExpires(o)
  \/ ServerStep \/ HandleLate
  \/ RuntimeStep
  \/ Lose \/ RuntimeCrash \/ ServerRestart

\* The event loop of the server and the loop of the runtime keep running.
Fairness == WF_vars(ServerStep) /\ WF_vars(RuntimeStep)

Spec == Init /\ [][Next]_vars /\ Fairness

-------------------------------------------------------------------------------
\* Properties.

States == {"none", "reserved"} \cup Unresolved \cup Terminal
Journals ==
  [cmd : Nat, acc : Nat, last : Nat,
   log : Seq([seq : Nat, op : Ops, first : Nat, second : Nat,
              kind : {"open"} \cup Outcomes, prepared : BOOLEAN])]

\* Types of the rows, the requests, the journals and the gateway.
TypeOK ==
  /\ op \in [Ops -> [state : States, session : Sessions \cup {NoSession}, seq : Nat,
                     acc : Nat, res : Nat, lease : BOOLEAN]]
  /\ cmdMark \in Nat /\ evMark \in Nat /\ resumeAt \in Nat
  /\ {current, map, session, dying} \subseteq Sessions \cup {NoSession}
  /\ link \in {"up", "down"}
  /\ srv \in {"none", "registering", "querying", "resending", "failed"}
  /\ rt \in Journals /\ disk \in Journals
  /\ effect \subseteq Ops /\ ran \in [Ops -> Nat]

\* Whatever was lost or replayed, the runtime's journal (in memory and in the file) knows
\* at least the events the server recorded and at most the commands it numbered, which is
\* the resume evidence register insists on (service.ts:126).
ResumeEvidenceHolds ==
  \A j \in {rt, disk} : j.cmd <= cmdMark /\ evMark <= j.last /\ j.acc <= evMark

\* A command that reaches the runtime again, after a crash, a lost answer or a second
\* registration, is not executed again (control_receiver.go:212).
ExecutedOnce == \A o \in Ops : ran[o] <= 1

\* What the server says of a mutation is what happened on the machine: a completed one had
\* its effect, a failed one had none, in any order of timeouts, replays and recoveries.
OutcomesTrue ==
  \A o \in Mutations :
    /\ op[o].state = "completed" => o \in effect
    /\ op[o].state = "failed" => o \notin effect

\* The runtime never works on a mutation while another one of the generation is reserved
\* or its outcome is unknown (postgres-operation-store.ts:118).
MutationsFenced ==
  busy # Idle /\ busy.op \in Mutations => ~Fenced(busy.op)

\* An outcome in the runtime's journal becomes known to the server if the connection
\* finally holds: nothing on either side forgets to send it, or refuses it.
Answer(o) == \E i \in DOMAIN rt.log : rt.log[i].op = o /\ rt.log[i].second # 0
OutcomesArrive ==
  <>[](link = "up") => \A o \in Ops : Answer(o) ~> (op[o].res # 0)

\* Once faults have ended, the runtime holds a connection again (the test at
\* tests/canonical-runtime-control.test.ts:449 resends what the runtime already accepted).
ConnectionRecovers == <>[](link = "up")
=================================================================================
