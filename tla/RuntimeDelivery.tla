---------------------------- MODULE RuntimeDelivery ----------------------------
(***************************************************************************)
(* One Workspace Runtime generation under one credential: the Go session   *)
(* client with its on-disk journal, the sockets it opens one after the     *)
(* other, and the session gateway that persists its events.                *)
(*                                                                         *)
(* The client appends an event to its journal, saves the journal, sends    *)
(* the head and waits for the acknowledgement; connections break at any    *)
(* point, either process restarts, the server declares the session stale,  *)
(* the credential expires, and SIGTERM starts a graceful shutdown.         *)
(***************************************************************************)
EXTENDS RuntimeRow, Sequences, FiniteSets

CONSTANTS
  Conns,        \* identifiers of sockets, recycled once both ends are gone
  MaxEvents,    \* bound: events the client creates before it stops polling
  MaxFaults,    \* bound: faults and suspensions of one behaviour
  InitialState  \* the lifecycle in the state file when the client starts

ASSUME ConnsAssumption == Conns \subseteq (Nat \ {NoSession}) /\ IsFiniteSet(Conns)
ASSUME BoundsAssumption == MaxEvents \in Nat /\ MaxFaults \in Nat
ASSUME InitialStateAssumption == InitialState \in {"starting", "running"}

NoConn == NoSession

VARIABLES
  pc,            \* where Client.Run stands
  mode,          \* "run", or the first ("stop") or second ("stop2") shutdown flush
  cancelled,     \* the context was cancelled by SIGTERM
  journal,       \* the journal in the client's memory
  disk,          \* the journal file
  lastLifecycle, \* lifecycle last reported on this connection
  lastState,     \* state file last read on this connection
  conn,          \* the client's connection
  exit,          \* how Run returned
  mgr,           \* what the runtime manager is doing with the process group
  link,          \* per socket: both directions and the server's view of it
  current,       \* the socket in the service's connections map
  row, ledger,   \* the persisted generation and its events
  expired,       \* the credential has expired
  minted,        \* events created so far, which makes event ids unique
  produced,      \* history: events in the order they reached the journal file
  faults         \* faults so far

clientVars == <<pc, mode, cancelled, journal, disk, lastLifecycle, lastState,
                conn, exit, minted, produced>>
serverVars == <<current, row, ledger, expired>>
vars == <<clientVars, serverVars, link, mgr, faults>>

Events == [seq : Nat, id : Nat, body : Lifecycles \cup {"other"}]
Journals == [acked : Nat, events : Seq(Events)]
Messages == [type : {"register", "registered", "accepted"}, seq : Nat]
            \cup [type : {"event"}, event : Events]
            \cup [type : {"close"}, code : {1000, 1006, 1008, 1012}]

\* Suspend stops the whole process group, and Stop does not continue it.
Frozen == mgr \in {"suspended", "stopping frozen"}

\* The lifecycle in the state file: Resume continues the process group before the
\* file says running again.
StateFile == CASE mgr = "starting" -> "starting"
               [] mgr = "running" -> "running"
               [] mgr \in {"suspended", "resuming"} -> "suspended"
               [] mgr \in {"stopping", "stopping frozen"} -> "stopping"

FreeLink == [up |-> <<>>, down |-> <<>>, phase |-> "free", closing |-> FALSE]

\* A recycled identifier never equals a session that is still recorded anywhere.
Idle(c) == link[c].phase = "free" /\ c \notin {conn, current, row.session}

Registration(seq) == [type |-> "register", seq |-> seq]
RegisteredMessage(seq) == [type |-> "registered", seq |-> seq]
Accepted(seq) == [type |-> "accepted", seq |-> seq]
EventMessage(e) == [type |-> "event", event |-> e]
Close(code) == [type |-> "close", code |-> code]

\* socket.close(code): what was sent before still arrives, then the close frame.
Closing(l, code) ==
  IF l.closing \/ l.phase = "free" THEN l
  ELSE [l EXCEPT !.closing = TRUE, !.down = Append(@, Close(code))]

-------------------------------------------------------------------------------
\* The client's journal.

Newest(j) == j.acked + Len(j.events)

\* Mutant: sequence numbers counted from the journal's length alone.
JournaledFromLength(j, bodies) ==
  [j EXCEPT !.events = @ \o [i \in 1..Len(bodies) |->
      [seq |-> Len(j.events) + i, id |-> minted + i, body |-> bodies[i]]]]

\* event(): the next sequence number is computed from the journal in memory.
Journaled(j, bodies) ==
  [j EXCEPT !.events = @ \o [i \in 1..Len(bodies) |->
      [seq |-> Newest(j) + i, id |-> minted + i, body |-> bodies[i]]]]

\* Mutant: an acknowledgement empties the journal.
AcknowledgeAll(j, seq) == [acked |-> seq, events |-> <<>>]

\* acknowledge(): drop events from the front while they are not beyond seq, and
\* move the watermark.
Acknowledge(j, seq) ==
  LET dropped == CHOOSE n \in 0..Len(j.events) :
                   /\ \A i \in 1..n : j.events[i].seq <= seq
                   /\ n < Len(j.events) => j.events[n + 1].seq > seq
  IN [acked |-> seq, events |-> SubSeq(j.events, dropped + 1, Len(j.events))]

AppendEvents(bodies) ==
  /\ journal' = Journaled(journal, bodies)
  /\ minted' = minted + Len(bodies)

Init ==
  /\ pc = "down" /\ mode = "run" /\ cancelled = FALSE /\ exit = "none"
  /\ journal = [acked |-> 0, events |-> <<>>]
  /\ disk = [acked |-> 0, events |-> <<>>]
  /\ lastLifecycle = "running" /\ lastState = "none" /\ conn = NoConn
  /\ mgr = InitialState
  /\ link = [c \in Conns |-> FreeLink]
  /\ current = NoConn /\ row = NewRow /\ ledger = {} /\ expired = FALSE
  /\ minted = 0 /\ produced = <<>> /\ faults = 0

\* Run: load the journal; a fresh one starts with "running" and the log pointer.
Start ==
  /\ pc = "down" /\ ~Frozen
  /\ IF disk.acked = 0 /\ disk.events = <<>>
     THEN /\ journal' = Journaled(disk, <<"running", "other">>)
          /\ minted' = minted + 2
          /\ pc' = "saving"
     ELSE /\ journal' = disk /\ pc' = "dialing" /\ UNCHANGED minted
  /\ UNCHANGED <<mode, cancelled, disk, lastLifecycle, lastState, conn, exit,
                 produced, serverVars, link, mgr, faults>>

\* Dial with the credential and send the registration.
Dial(c) ==
  /\ pc = "dialing" /\ ~expired /\ Idle(c)
  /\ mode = "run" => ~cancelled
  /\ conn' = c /\ pc' = "registering"
  /\ link' = [link EXCEPT ![c] = [FreeLink EXCEPT
                 !.phase = "open", !.up = <<Registration(journal.acked)>>]]
  /\ UNCHANGED <<mode, cancelled, journal, disk, lastLifecycle, lastState, exit,
                 minted, produced,
                 serverVars, mgr, faults>>

\* runConnection returns: what was not read is gone, and so are its locals.
Hangup ==
  /\ conn' = NoConn /\ lastLifecycle' = "running" /\ lastState' = "none"
  /\ link' = [c \in Conns |-> IF c = conn THEN [link[c] EXCEPT !.down = <<>>]
                                         ELSE link[c]]

\* Run and runConnection return: the loop sees the cancellation outside a
\* registered connection, or an expired credential.
Exit(result) ==
  /\ pc' = "exited" /\ exit' = result /\ Hangup
  /\ UNCHANGED <<mode, cancelled, journal, disk, minted, produced, mgr>>

GiveUp ==
  /\ \/ pc \in {"dialing", "registering"} /\ mode = "run" /\ cancelled
     \/ pc = "dialing" /\ expired
  /\ Exit("gave up")
  /\ UNCHANGED <<serverVars, faults>>

Receive(c) == link' = [link EXCEPT ![c].down = Tail(@)]
Head1(c) == link[c].down # <<>> /\ conn = c

ReceiveRegistered(c) ==
  /\ pc = "registering" /\ Head1(c) /\ Head(link[c].down).type = "registered"
  /\ Head(link[c].down).seq >= journal.acked
  /\ journal' = Acknowledge(journal, Head(link[c].down).seq)
  /\ Receive(c) /\ pc' = "saving"
  /\ UNCHANGED <<mode, cancelled, disk, lastLifecycle, lastState, conn, exit,
                 minted, produced, serverVars, mgr, faults>>

\* saveJournal: an atomic rename.  A save outside a connection precedes the
\* first dial; otherwise flush comes next.
Save ==
  /\ pc = "saving"
  /\ disk' = journal
  /\ produced' = produced \o
       SubSeq(journal.events, Len(produced) - journal.acked + 1, Len(journal.events))
  /\ pc' = IF conn = NoConn THEN "dialing" ELSE "sending"
  /\ UNCHANGED <<mode, cancelled, journal, lastLifecycle, lastState, conn, exit,
                 minted, serverVars, link, mgr, faults>>

\* flush: write the head and wait for its acknowledgement.
Send ==
  /\ pc = "sending" /\ journal.events # <<>>
  /\ mode = "run" => ~cancelled
  /\ link' = [link EXCEPT ![conn].up =
                 IF link[conn].phase = "free" THEN @
                 ELSE Append(@, EventMessage(Head(journal.events)))]
  /\ pc' = "awaiting"
  /\ UNCHANGED <<mode, cancelled, journal, disk, lastLifecycle, lastState, conn,
                 exit, minted, produced, serverVars, mgr, faults>>

Flushed ==
  /\ pc = "sending" /\ journal.events = <<>>
  /\ \/ /\ mode = "run" /\ pc' = "ready"
        /\ UNCHANGED <<mode, cancelled, journal, disk, lastLifecycle, lastState,
                       conn, exit, minted, produced, link, mgr>>
     \/ mode # "run" /\ Exit("ok")
  /\ UNCHANGED <<serverVars, faults>>

ReceiveAccepted(c) ==
  /\ pc = "awaiting" /\ Head1(c) /\ Head(link[c].down).type = "accepted"
  /\ Head(link[c].down).seq = Head(journal.events).seq
  /\ journal' = Acknowledge(journal, Head(link[c].down).seq)
  /\ Receive(c) /\ pc' = "saving"
  /\ UNCHANGED <<mode, cancelled, disk, lastLifecycle, lastState, conn, exit,
                 minted, produced, serverVars, mgr, faults>>

\* Mutant: any close while "stopped" is in flight counts as its acknowledgement.
StoppedByAnyClose(c) ==
  /\ pc = "awaiting" /\ Head1(c) /\ Head(link[c].down).type = "close"
  /\ Head(journal.events).body = "stopped"
  /\ journal' = Acknowledge(journal, Head(journal.events).seq)
  /\ disk' = Acknowledge(journal, Head(journal.events).seq)
  /\ Hangup
  /\ pc' = IF mode = "run" THEN "dialing" ELSE "exited"
  /\ exit' = IF mode = "run" THEN exit ELSE "ok"
  /\ UNCHANGED <<mode, cancelled, minted, produced, serverVars, mgr, faults>>

\* A normal close while "stopped" is in flight counts as its acknowledgement.
StoppedByClose(c) ==
  /\ pc = "awaiting" /\ Head1(c) /\ Head(link[c].down) = Close(1000)
  /\ Head(journal.events).body = "stopped"
  /\ journal' = Acknowledge(journal, Head(journal.events).seq)
  /\ disk' = Acknowledge(journal, Head(journal.events).seq)
  /\ Hangup
  /\ pc' = IF mode = "run" THEN "dialing" ELSE "exited"
  /\ exit' = IF mode = "run" THEN exit ELSE "ok"
  /\ UNCHANGED <<mode, cancelled, minted, produced, serverVars, mgr, faults>>

\* What a failed connection leads to: another dial, the shutdown sequence when
\* the context is cancelled inside a flush, the one shutdown reconnect, or exit.
Lost ==
  /\ Hangup
  /\ \/ /\ mode = "run" /\ ~(cancelled /\ pc \in {"sending", "awaiting"})
        /\ pc' = "dialing" /\ UNCHANGED <<mode, exit, journal, minted>>
     \/ /\ mode = "run" /\ cancelled /\ pc \in {"sending", "awaiting"}
        /\ AppendEvents(<<"stopping", "stopped">>)
        /\ mode' = "stop2" /\ pc' = "saving" /\ UNCHANGED exit
     \/ /\ mode = "stop"
        /\ mode' = "stop2" /\ pc' = "dialing" /\ UNCHANGED <<exit, journal, minted>>
     \/ /\ mode = "stop2"
        /\ pc' = "exited" /\ exit' = "failed" /\ UNCHANGED <<mode, journal, minted>>
  /\ UNCHANGED <<cancelled, disk, produced, serverVars, mgr>>

Connected == conn # NoConn /\ pc \in {"registering", "sending", "awaiting", "ready"}

\* The client reads what ends the connection: a close frame or the end of the
\* stream, a regressed registration, an acknowledgement of another event.
EndsConnection(m) ==
  \/ m.type = "close" /\ pc # "sending"
     /\ ~(pc = "awaiting" /\ m.code = 1000 /\ Head(journal.events).body = "stopped")
  \/ m.type = "registered" /\ pc = "registering" /\ m.seq < journal.acked
  \/ m.type = "accepted" /\ pc = "awaiting" /\ m.seq # Head(journal.events).seq
  \/ m.type = "accepted" /\ pc = "ready"

ReceiveEnd(c) ==
  /\ Connected /\ conn = c
  /\ \/ Head1(c) /\ EndsConnection(Head(link[c].down))
     \/ link[c].down = <<>> /\ link[c].phase = "free" /\ pc # "sending"
  /\ Lost
  /\ UNCHANGED faults

-------------------------------------------------------------------------------
\* The select loop of a registered connection.

\* statePoll: report what changed in the state file since it was last read on
\* this connection.  Every change also reports the dev servers.
Poll ==
  /\ pc = "ready" /\ mode = "run" /\ minted < MaxEvents
  /\ StateFile # lastState
  /\ AppendEvents(IF StateFile # lastLifecycle THEN <<StateFile, "other">>
                                               ELSE <<"other">>)
  /\ lastLifecycle' = StateFile /\ lastState' = StateFile
  /\ pc' = "saving"
  /\ UNCHANGED <<mode, cancelled, disk, conn, exit, produced, serverVars, link,
                 mgr, faults>>

\* Mutant: the heartbeat goes out before the journal is saved.
HeartbeatUnsaved ==
  /\ pc = "ready" /\ mode = "run" /\ minted < MaxEvents
  /\ AppendEvents(<<"other">>)
  /\ pc' = "sending"
  /\ UNCHANGED <<mode, cancelled, disk, lastLifecycle, lastState, conn, exit,
                 produced, serverVars, link, mgr, faults>>

Heartbeat ==
  /\ pc = "ready" /\ mode = "run" /\ minted < MaxEvents
  /\ AppendEvents(<<"other">>)
  /\ pc' = "saving"
  /\ UNCHANGED <<mode, cancelled, disk, lastLifecycle, lastState, conn, exit,
                 produced, serverVars, link, mgr, faults>>

\* flushGracefulShutdown, entered from the select loop or from a flush.
BeginShutdown ==
  /\ pc \in {"ready", "sending", "awaiting"} /\ mode = "run" /\ cancelled
  /\ AppendEvents(<<"stopping", "stopped">>)
  /\ mode' = "stop" /\ pc' = "saving"
  /\ UNCHANGED <<cancelled, disk, lastLifecycle, lastState, conn, exit, produced,
                 serverVars, link, mgr, faults>>

ClientStep ==
  /\ ~Frozen
  /\ \/ GiveUp \/ Save \/ Send \/ Flushed
     \/ Poll \/ Heartbeat \/ BeginShutdown
     \/ \E c \in Conns : \/ Dial(c) \/ ReceiveRegistered(c) \/ ReceiveAccepted(c)
                         \/ StoppedByClose(c) \/ ReceiveEnd(c)

-------------------------------------------------------------------------------
\* The session gateway: the messages of a socket are processed one at a time, also
\* those that arrive while it is closing.

\* send() on a socket that is closing or gone delivers nothing.
Answered(c, m) ==
  IF link[c].closing \/ conn # c THEN link[c].down ELSE Append(link[c].down, m)

Refuse(c) ==
  /\ link' = [link EXCEPT ![c] = Closing([link[c] EXCEPT !.up = Tail(@)], 1008)]
  /\ UNCHANGED <<current, row, ledger>>

\* register: the row moves to the new session, then the service's map does, then
\* the socket it replaces is closed.  An orphan is a registration still in flight
\* when its socket's close event came: nothing will ever disconnect it.
ServerRegister(c) ==
  /\ link[c].phase \in {"open", "orphan"} /\ link[c].up # <<>>
  /\ IF ~expired /\ MayRegister(row, Head(link[c].up).seq)
     THEN /\ row' = Registered(row, c) /\ current' = c
          /\ link' = [d \in Conns |->
               IF d = c
               THEN [link[c] EXCEPT
                       !.up = Tail(@), !.down = Answered(c, RegisteredMessage(row.last)),
                       !.phase = IF @ = "open" THEN "active" ELSE "free"]
               ELSE IF d = current THEN Closing(link[d], 1012) ELSE link[d]]
          /\ UNCHANGED ledger
     ELSE IF link[c].phase = "open" THEN Refuse(c)
     ELSE /\ link' = [link EXCEPT ![c] = [FreeLink EXCEPT !.down = link[c].down]]
          /\ UNCHANGED <<current, row, ledger>>
  /\ UNCHANGED <<clientVars, expired, mgr, faults>>

\* append: an exact replay is acknowledged again, the next event is persisted
\* together with the row, anything else closes the socket.
ServerAppend(c) ==
  /\ link[c].phase = "active" /\ link[c].up # <<>>
  /\ LET e == Head(link[c].up).event
         reply(r) == [link[c] EXCEPT !.up = Tail(@), !.down = Answered(c, Accepted(r.last))]
         next == Applied(row, e)
     IN IF expired \/ ~MayAppend(row, c) THEN Refuse(c)
        ELSE IF IsReplay(ledger, e)
        THEN /\ link' = [link EXCEPT ![c] = reply(row)]
             /\ UNCHANGED <<current, row, ledger>>
        ELSE IF IsNext(row, ledger, e)
        THEN /\ row' = next /\ ledger' = ledger \cup {e}
             /\ link' = [link EXCEPT ![c] = IF next.lifecycle = "stopped"
                                            THEN Closing(reply(next), 1000) ELSE reply(next)]
             /\ UNCHANGED current
        ELSE Refuse(c)
  /\ UNCHANGED <<clientVars, expired, mgr, faults>>

\* The close event of a socket: the map forgets it if it is still its own, and the
\* row turns disconnected under the same condition.
SocketClosed(c) ==
  /\ link[c].phase \in {"open", "active"} /\ (link[c].closing \/ conn # c)
  /\ IF link[c].phase = "active"
     THEN /\ current' = IF current = c THEN NoConn ELSE current
          /\ row' = Disconnected(row, c)
          /\ link' = [link EXCEPT ![c] = [FreeLink EXCEPT !.down = link[c].down]]
     ELSE /\ link' = [link EXCEPT ![c] =
               IF @.up = <<>> THEN [FreeLink EXCEPT !.down = link[c].down]
               ELSE [@ EXCEPT !.closing = TRUE, !.phase = "orphan"]]
          /\ UNCHANGED <<current, row>>
  /\ UNCHANGED <<clientVars, ledger, expired, mgr, faults>>

-------------------------------------------------------------------------------
\* Faults, each charged to the budget.

Fault == faults < MaxFaults /\ faults' = faults + 1

ConnectionError == Fault /\ ~Frozen /\ Connected /\ Lost

\* The client's process dies; the next one loads the journal file.
Crash ==
  /\ Fault /\ ~Frozen /\ pc \notin {"down", "exited"}
  /\ pc' = "down" /\ mode' = "run" /\ cancelled' = FALSE /\ Hangup
  /\ journal' = disk
  /\ UNCHANGED <<disk, exit, minted, produced, serverVars, mgr>>

\* The server's process dies: sockets and map are gone, rows and ledger stay.
ServerRestart ==
  /\ Fault
  /\ link' = [c \in Conns |-> [FreeLink EXCEPT !.down = link[c].down]]
  /\ current' = NoConn
  /\ UNCHANGED <<clientVars, row, ledger, expired, mgr>>

\* expireStale: no heartbeat was received in time.
MarkStale ==
  /\ Fault /\ MayTurnStale(row)
  /\ row' = Staled(row)
  /\ IF current # NoConn /\ current = row.session
     THEN /\ link' = [link EXCEPT ![current] = Closing(@, 1008)]
          /\ current' = NoConn
     ELSE UNCHANGED <<link, current>>
  /\ UNCHANGED <<clientVars, ledger, expired, mgr>>

RegistrationTimeout(c) ==
  /\ Fault /\ link[c].phase = "open" /\ ~link[c].closing
  /\ link' = [link EXCEPT ![c] = Closing(@, 1008)]
  /\ UNCHANGED <<clientVars, serverVars, mgr>>

Expire ==
  /\ Fault /\ ~expired
  /\ expired' = TRUE
  /\ link' = [c \in Conns |-> Closing(link[c], 1008)]
  /\ UNCHANGED <<clientVars, current, row, ledger, mgr>>

\* The two seconds a graceful shutdown has are over, or the process is killed.
ShutdownTimeout ==
  /\ Fault /\ pc # "exited"
  /\ mode # "run" \/ mgr = "stopping frozen"
  /\ Exit("killed")
  /\ UNCHANGED serverVars

-------------------------------------------------------------------------------
\* The runtime manager.

Manage(from, to) ==
  /\ mgr = from /\ mgr' = to
  /\ UNCHANGED <<clientVars, serverVars, link>>

Started == ~cancelled /\ Manage("starting", "running") /\ UNCHANGED faults
Suspend == Fault /\ Manage("running", "suspended")
Resume == Manage("suspended", "resuming") /\ UNCHANGED faults
Resumed == Manage("resuming", "running") /\ UNCHANGED faults
ResumeFailed == Fault /\ Manage("resuming", "suspended")
Stop == /\ \/ Manage("running", "stopping") \/ Manage("suspended", "stopping frozen")
        /\ UNCHANGED faults

\* SIGTERM, of Stop or of a failed start; a frozen process does not see it.
Terminate ==
  /\ mgr \in {"starting", "stopping"} /\ ~cancelled /\ pc \notin {"down", "exited"}
  /\ cancelled' = TRUE
  /\ UNCHANGED <<pc, mode, journal, disk, lastLifecycle, lastState, conn, exit,
                 minted, produced, serverVars, link, mgr, faults>>

ServerStep(c) == ServerRegister(c) \/ ServerAppend(c) \/ SocketClosed(c)

Manager == Started \/ Suspend \/ Resume \/ Resumed \/ ResumeFailed \/ Stop \/ Terminate

FaultStep ==
  \/ ConnectionError \/ Crash \/ ServerRestart \/ MarkStale \/ Expire \/ ShutdownTimeout
  \/ \E c \in Conns : RegistrationTimeout(c)

Next == \/ Start \/ ClientStep
        \/ \E c \in Conns : ServerStep(c)
        \/ Manager
        \/ FaultStep

\* The client's thread runs, the server processes what it has read and a closing
\* handshake ends; nobody has to suspend, resume, stop or restart anything.
Fairness ==
  /\ WF_vars(ClientStep)
  /\ \A c \in Conns : WF_vars(ServerRegister(c) \/ ServerAppend(c))
                      /\ WF_vars(SocketClosed(c))

Spec == Init /\ [][Next]_vars /\ Fairness

-------------------------------------------------------------------------------
TypeOK ==
  /\ pc \in {"down", "dialing", "registering", "saving", "sending", "awaiting",
             "ready", "exited"}
  /\ mode \in {"run", "stop", "stop2"} /\ cancelled \in BOOLEAN
  /\ journal \in Journals /\ disk \in Journals
  /\ lastLifecycle \in Lifecycles /\ lastState \in Lifecycles \cup {"none"}
  /\ conn \in Conns \cup {NoConn} /\ current \in Conns \cup {NoConn}
  /\ exit \in {"none", "ok", "gave up", "failed", "killed"}
  /\ mgr \in {"starting", "running", "suspended", "resuming", "stopping",
              "stopping frozen"}
  /\ link \in [Conns -> [up : Seq(Messages), down : Seq(Messages),
                         phase : {"free", "open", "active", "orphan"},
                         closing : BOOLEAN]]
  /\ row \in [last : Nat, lifecycle : Lifecycles, conn : ConnectionStates,
              session : Conns \cup {NoSession}]
  /\ ledger \in SUBSET Events /\ expired \in BOOLEAN
  /\ minted \in Nat /\ produced \in Seq(Events) /\ faults \in 0..MaxFaults

\* The journal file and the row never disagree about what still has to be sent:
\* the server is at or beyond the file's watermark, never beyond its last event,
\* and the file still holds exactly the written events above its watermark.
WatermarksAgree ==
  /\ disk.acked <= row.last /\ row.last <= Newest(disk)
  /\ disk.events = SubSeq(produced, disk.acked + 1, Len(produced))

\* An event a connected client has under way on the session that owns the row is
\* an exact replay or the next event: no crash, reconnect, suspension or restart
\* makes the server refuse it as a changed replay, a gap or an invalid transition.
NoEventRefused ==
  \A c \in Conns :
    (/\ link[c].phase = "active" /\ link[c].up # <<>>
     /\ MayAppend(row, c) /\ ~expired)
    => LET e == Head(link[c].up).event IN IsReplay(ledger, e) \/ IsNext(row, ledger, e)

\* Run returns without an error only after the server persisted "stopped".
CleanExitMeansStopped == exit = "ok" => row.lifecycle = "stopped"

StoredEvents ==
  [i \in 1..Cardinality(ledger) |-> CHOOSE e \in ledger : e.seq = i]

Abstract == INSTANCE EventLedger WITH Event <- Events, written <- produced,
                                      stored <- StoredEvents

\* Delivery implements the ledger: exactly once and in order.
ExactlyOnceInOrder == Abstract!Spec

\* A client that stays up, thawed and authorised gets every written event stored.
Delivered ==
  <>[](pc \notin {"down", "exited"} /\ ~Frozen /\ ~expired)
  => \A n \in 1..(MaxEvents + 4) : Len(produced) >= n ~> row.last >= n
===============================================================================
