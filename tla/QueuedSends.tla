---------------------------- MODULE QueuedSends -----------------------------
(* Messages that clients send to one Codex thread: the requests, the rows that persist   *)
(* them, the queue dispatcher that delivers a message once the thread is idle, and the   *)
(* Codex host that starts a turn at most once under one operation ID.  The server runs   *)
(* two services over the same rows, one for its HTTP API and one for MCP, each with a    *)
(* dispatcher of its own; they start on demand and die together.  Messages that steer an *)
(* active turn and requests that wait for a turn's end are left out.                     *)
EXTENDS Integers, FiniteSets

CONSTANTS Queue,        \* operations with delivery `queue'
          Direct,       \* operations with delivery `new-turn'
          Services,     \* service instances of the server process
          Calls,        \* client requests
          MaxAttempt,   \* bound: dispatch attempts of an operation
          MaxGeneration,\* bound: runtime generations
          MaxLost,      \* bound: answers of the host that are lost or ambiguous
          MaxCrashes,   \* bound: crashes of the server
          MaxOthers     \* bound: turns that other clients start

ASSUME BoundsAssumption ==
  /\ MaxAttempt \in Nat /\ MaxGeneration \in Nat \ {0}
  /\ MaxLost \in Nat /\ MaxCrashes \in Nat /\ MaxOthers \in Nat

Ops == Queue \cup Direct
Loops == Services \X Ops
Actors == Calls \cup Loops
Ids == Ops \X (0 .. MaxAttempt)     \* dispatch IDs; attempt 0 is the operation ID itself

ASSUME NamesAssumption == Queue \cap Direct = {} /\ Calls \cap Loops = {}

VARIABLES row,     \* row[o]: the operation's row in codex_machine_task_sends
          act,     \* act[a]: a request that is handled, or a dispatcher's loop for an operation
          known,   \* known[s]: the runtime generation the service has seen; 0: none, Down: not started
          again,   \* the services whose dispatcher waits to list the rows again
          gen,     \* the generation of the runtime
          busy,    \* the thread has an active turn
          ledger,  \* ledger[id]: what the generation's host has answered to a dispatch ID
          late,    \* dispatch IDs on their way whose sender no longer waits
          turns,   \* turns[o]: how many turns ran with the operation's message
          faults   \* answers lost, crashes and other clients' turns so far

vars == <<row, act, known, again, gen, busy, ledger, late, turns, faults>>
host == <<gen, busy, ledger, late, turns>>

Down == -1
Unresolved == {"pending", "queued", "uncertain"}
NoRow == [st |-> "none", attempt |-> 0, gen |-> 0, res |-> "none"]
Off(s, o) == [at |-> "off", op |-> o, svc |-> s, gen |-> 0, seen |-> 0, k |-> 0,
              ans |-> "none", rec |-> FALSE]

Init ==
  /\ row = [o \in Ops |-> NoRow]
  /\ act = [a \in Actors |-> IF a \in Calls THEN [Off("none", "none") EXCEPT !.at = "new"]
                          ELSE Off(a[1], a[2])]
  /\ known = [s \in Services |-> Down] /\ again = {}
  /\ gen = 1 /\ busy = FALSE /\ ledger = [i \in Ids |-> "none"] /\ late = {}
  /\ turns = [o \in Ops |-> 0]
  /\ faults = [lost |-> 0, crashes |-> 0, others |-> 0]

-------------------------------------------------------------------------------
\* The rows.

\* isRecoverableQueuedRow
RecoverableAny(r) == r.st \in Unresolved   \* mutant: of any delivery
Recoverable(r) == r.st \in Unresolved /\ r.res = "queued"

\* sendLookup: what a request learns of an earlier request with its operation ID.
Found(o) == CASE row[o].st = "completed" -> "replayed"
              [] Recoverable(row[o]) -> "queued"
              [] OTHER -> row[o].st            \* "none", "pending" or "uncertain"

\* transitionSend: of an unresolved row, under the generation the sender has bound it to.
\* A transition to uncertain has no result and clears the row's.
Moved(o, st, res) == row' = [row EXCEPT ![o].st = st, ![o].res = res]
MayMove(o, g) == row[o].st \in Unresolved /\ row[o].gen = g

\* The fence of the unique index: one unresolved message for each thread.
Fenced(o) == \E p \in Ops \ {o} : row[p].st \in Unresolved

-------------------------------------------------------------------------------
\* Dispatchers.

\* schedule: an operation that already has a loop in this service gets no second one.
ScheduledAgain(acts, s, o, g, rec, k) ==      \* mutant: restarts a loop that runs
  [acts EXCEPT ![<<s, o>>] = [@ EXCEPT !.at = "top", !.gen = g, !.rec = rec, !.k = k]]
Scheduled(acts, s, o, g, rec, k) ==
  IF acts[<<s, o>>].at # "off" THEN acts
  ELSE [acts EXCEPT ![<<s, o>>] = [@ EXCEPT !.at = "top", !.gen = g, !.rec = rec, !.k = k]]

\* resume: list the recoverable rows and schedule them.
Resumed(acts, s) ==
  [a \in Actors |->
     IF a \in Loops /\ a[1] = s /\ Recoverable(row[a[2]])
     THEN LET r == row[a[2]]
          IN Scheduled(acts, s, a[2], r.gen, r.st # "queued", r.attempt)[a]
     ELSE acts[a]]

\* A service is created for the first request after a start of the server.
Start(s) ==
  /\ known[s] = Down /\ known' = [known EXCEPT ![s] = 0]
  /\ act' = Resumed(act, s) /\ UNCHANGED <<row, again, host, faults>>

\* Any request that resolves a target reads the inventory and with it the generation.
Inventory(s) ==
  /\ known[s] \notin {Down, gen} /\ known' = [known EXCEPT ![s] = gen]
  /\ UNCHANGED <<row, act, again, host, faults>>

\* The loop of a failed dispatch ends; all rows are listed again after a delay.
Resume(s) ==
  /\ s \in again /\ again' = again \ {s} /\ act' = Resumed(act, s)
  /\ UNCHANGED <<row, known, host, faults>>

Goes(a, at) == act' = [act EXCEPT ![a].at = at, ![a].ans = "none"]
Sends(a, k) == [act EXCEPT ![a].at = "sent", ![a].k = k, ![a].ans = "sent"]
Gives(a) == Goes(a, "off") /\ again' = again \cup {act[a].svc} /\ UNCHANGED row

\* One round of a loop begins: a row that was dispatched before is reconciled under the
\* dispatch ID of its attempt, a stale generation is rebound, else the thread is read.
Top(a) ==
  /\ a \in Loops /\ act[a].at = "top" /\ known[act[a].svc] # 0
  /\ act' = IF act[a].rec THEN Sends(a, act[a].k)
            ELSE [act EXCEPT ![a].at = IF known[act[a].svc] # act[a].gen THEN "rebind" ELSE "read"]
  /\ UNCHANGED <<row, known, again, host, faults>>

\* rebindQueuedSend; a row that is not queued any more is completed as not sent.
Rebind(a) ==
  LET o == act[a].op IN
  /\ a \in Loops /\ act[a].at = "rebind"
  /\ IF row[o].st = "queued" /\ row[o].gen = act[a].gen
     THEN /\ row' = [row EXCEPT ![o].gen = known[act[a].svc]]
          /\ act' = [act EXCEPT ![a].at = "read", ![a].gen = known[act[a].svc]]
          /\ UNCHANGED again
     ELSE IF MayMove(o, act[a].gen)
     THEN Moved(o, "completed", "blocked") /\ Goes(a, "off") /\ UNCHANGED again
     ELSE Gives(a)
  /\ UNCHANGED <<known, host, faults>>

\* The thread must be idle.
Read(a) ==
  /\ a \in Loops /\ act[a].at = "read" /\ Goes(a, IF busy THEN "top" ELSE "claim")
  /\ known' = [known EXCEPT ![act[a].svc] = gen]
  /\ UNCHANGED <<row, again, host, faults>>

\* resumeQueuedSend, and the send under the ID of the new attempt.
AttemptsSame(a) == Sends(a, row[act[a].op].attempt)   \* mutant: under the last attempt's ID
Attempts(a) == Sends(a, row[act[a].op].attempt + 1)
Claim(a) ==
  LET o == act[a].op IN
  /\ a \in Loops /\ act[a].at = "claim"
  /\ IF row[o].st = "queued" /\ row[o].gen = act[a].gen
     THEN /\ row[o].attempt < MaxAttempt
          /\ row' = [row EXCEPT ![o].st = "pending", ![o].attempt = @ + 1]
          /\ act' = Attempts(a)
     ELSE Goes(a, "off") /\ UNCHANGED row
  /\ UNCHANGED <<known, again, host, faults>>

\* The answer, or the end of waiting for it.  The thread may have become active since it
\* was read: the message is queued again.  An error ends a reconciliation.
Dispatched(a) ==
  LET o == act[a].op
      ans == act[a].ans
      ends(st, res) == Moved(o, st, res) /\ Goes(a, "off") /\ UNCHANGED again
  IN /\ a \in Loops /\ act[a].at = "sent" /\ ans \notin {"none", "sent"}
     /\ IF ~MayMove(o, act[a].gen) \/ (ans = "lost" /\ act[a].rec) THEN Gives(a)
        ELSE \/ /\ ans = "rejected" /\ Moved(o, "queued", "queued") /\ UNCHANGED again
                /\ act' = [act EXCEPT ![a].at = "top", ![a].ans = "none", ![a].rec = FALSE]
             \/ ans \in {"ambiguous", "lost"} /\ ends("uncertain", "none")
             \/ ans = "accepted" /\ ends("completed", "accepted")
             \/ ans = "refused" /\ ends("completed", "blocked")
     /\ UNCHANGED <<known, host, faults>>

-------------------------------------------------------------------------------
\* Requests.

Finished(acts, c) == [acts EXCEPT ![c] = [Off("none", "none") EXCEPT !.at = "done"]]

\* lookupSendRequest: a request for an operation that the dispatcher owns resumes it.
Known(c, s, found) == act' = Finished(IF found = "queued" THEN Resumed(act, s) ELSE act, c)
Begin(c, s, o) ==
  /\ act[c].at = "new" /\ known[s] # Down
  /\ IF Found(o) \in {"replayed", "queued"} THEN Known(c, s, Found(o))
     ELSE act' = [act EXCEPT ![c] = [@ EXCEPT !.at = "look", !.op = o, !.svc = s,
                                              !.gen = row[o].gen, !.ans = Found(o)]]
  /\ UNCHANGED <<row, known, again, host, faults>>

\* target, lookupSend and resolveMessageDelivery: the generation, the row again if there
\* was none, and whether the thread is active.
Resolve(c) ==
  LET o == act[c].op
      found == IF act[c].ans = "none" THEN Found(o) ELSE act[c].ans
  IN /\ c \in Calls /\ act[c].at = "look" /\ known' = [known EXCEPT ![act[c].svc] = gen]
     /\ IF found \in {"replayed", "queued"} THEN Known(c, act[c].svc, found)
        ELSE act' = [act EXCEPT ![c].at = "reserve", ![c].seen = gen,
               ![c].gen = IF found = "none" THEN gen ELSE IF @ = 0 THEN row[o].gen ELSE @,
               ![c].ans = IF o \in Queue /\ found # "uncertain" /\ busy THEN "active" ELSE "none"]
     /\ UNCHANGED <<row, again, host, faults>>

\* reserveSend.  The row of a queued message holds the answer `queued' from the start.
Reserve(c) ==
  LET o == act[c].op
      goes(g, rec) ==
        act' = IF act[c].ans = "active" THEN [act EXCEPT ![c].at = "enqueue"]
               ELSE [Sends(c, 0) EXCEPT ![c].gen = g, ![c].rec = rec]
  IN /\ c \in Calls /\ act[c].at = "reserve" /\ UNCHANGED <<known, again, host, faults>>
     /\ CASE Found(o) = "none" /\ ~Fenced(o) ->
               /\ row' = [row EXCEPT ![o] = [st |-> "pending", attempt |-> 0, gen |-> act[c].gen,
                                             res |-> IF o \in Queue THEN "queued" ELSE "none"]]
               /\ goes(act[c].gen, FALSE)
          [] Found(o) = "replayed" \/ (Found(o) = "none" /\ Fenced(o)) ->
               act' = Finished(act, c) /\ UNCHANGED row
          [] Found(o) = "queued" ->
               /\ act' = Finished(Scheduled(act, act[c].svc, o, act[c].gen,
                                            row[o].st # "queued", row[o].attempt), c)
               /\ UNCHANGED row
          [] Found(o) \in {"pending", "uncertain"} ->
               /\ goes(row[o].gen, Found(o) = "uncertain" \/ act[c].seen # row[o].gen)
               /\ UNCHANGED row

\* enqueue: queueSend, and a loop of this service.
Enqueue(c) ==
  LET o == act[c].op IN
  /\ c \in Calls /\ act[c].at = "enqueue"
  /\ IF MayMove(o, act[c].gen)
     THEN /\ Moved(o, "queued", "queued")
          /\ act' = Finished(Scheduled(act, act[c].svc, o, act[c].gen, FALSE, 0), c)
     ELSE act' = Finished(act, c) /\ UNCHANGED row
  /\ UNCHANGED <<known, again, host, faults>>

\* The answer to a request that dispatches itself.  An ambiguous one is reconciled once,
\* by the same command under the same ID.
Answer(c) ==
  LET o == act[c].op
      ans == act[c].ans
      ends(st, res) == act' = Finished(act, c) /\ IF MayMove(o, act[c].gen) THEN Moved(o, st, res)
                                                                            ELSE UNCHANGED row
  IN /\ c \in Calls /\ act[c].at = "sent" /\ ans \notin {"none", "sent"}
     /\ \/ /\ ans = "ambiguous" /\ ~act[c].rec
           /\ act' = [Sends(c, 0) EXCEPT ![c].rec = TRUE] /\ UNCHANGED row
        \/ ans = "rejected" /\ o \in Queue /\ Goes(c, "enqueue") /\ UNCHANGED row
        \/ ans = "rejected" /\ o \in Direct /\ ends("completed", "blocked")
        \/ ans = "refused" /\ ends("completed", "blocked")
        \/ ans = "accepted" /\ ends("completed", "accepted")
        \/ (ans = "lost" \/ (ans = "ambiguous" /\ act[c].rec)) /\ ends("uncertain", "none")
     /\ UNCHANGED <<known, again, host, faults>>

-------------------------------------------------------------------------------
\* The host, and what may fail.

\* continue: the ledger answers a dispatch ID as before when the turn was started or the
\* thread was found active; else the command starts a turn if the thread is idle.
Continues(id) ==
  IF ledger[id] \in {"accepted", "rejected"} \/ busy
  THEN /\ ledger' = [ledger EXCEPT ![id] = IF @ = "none" THEN "rejected" ELSE @]
       /\ UNCHANGED <<busy, turns>>
  ELSE /\ ledger' = [ledger EXCEPT ![id] = "accepted"] /\ busy' = TRUE
       /\ turns' = [turns EXCEPT ![id[1]] = IF @ < 3 THEN @ + 1 ELSE @]
Sent(a) == act[a].at = "sent" /\ act[a].ans = "sent"
IdOf(a) == <<act[a].op, act[a].k>>
Told(a, ans) == act' = [act EXCEPT ![a].ans = ans]

Serve(a) ==
  /\ Sent(a) /\ Continues(IdOf(a))
  /\ Told(a, IF ledger'[IdOf(a)] = "accepted" THEN "accepted" ELSE "rejected")
  /\ UNCHANGED <<row, known, again, gen, late, faults>>

\* turn/start fails with an answer: nothing was applied, and the thread stays resumed.
Refuse(a) ==
  /\ Sent(a) /\ ledger[IdOf(a)] \in {"none", "idle"} /\ ~busy /\ Told(a, "refused")
  /\ ledger' = [ledger EXCEPT ![IdOf(a)] = "idle"]
  /\ UNCHANGED <<row, known, again, gen, busy, late, turns, faults>>

\* The host's answer is lost, or the host cannot tell the outcome of what it applied.
ServeUnheard(a) ==
  /\ Sent(a) /\ faults.lost < MaxLost /\ faults' = [faults EXCEPT !.lost = @ + 1]
  /\ Continues(IdOf(a)) /\ \E ans \in {"ambiguous", "lost"} : Told(a, ans)
  /\ UNCHANGED <<row, known, again, gen, late>>

\* The 30 seconds of waiting pass before the host serves the command, if it ever does.
Drop(a) ==
  /\ Sent(a) /\ faults.lost < MaxLost /\ faults' = [faults EXCEPT !.lost = @ + 1]
  /\ Told(a, "lost") /\ late' = late \cup {IdOf(a)}
  /\ UNCHANGED <<row, known, again, gen, busy, ledger, turns>>
ServeLate ==
  \E id \in late : late' = late \ {id} /\ Continues(id) /\ UNCHANGED <<row, act, known, again, gen, faults>>

ThreadEnds == busy /\ busy' = FALSE /\ UNCHANGED <<row, act, known, again, gen, ledger, late, turns, faults>>
OtherTurn ==
  /\ ~busy /\ busy' = TRUE
  /\ faults.others < MaxOthers /\ faults' = [faults EXCEPT !.others = @ + 1]
  /\ UNCHANGED <<row, act, known, again, gen, ledger, late, turns>>

\* A new generation of the runtime has a new host with an empty ledger.
Replace ==
  /\ gen < MaxGeneration /\ gen' = gen + 1
  /\ ledger' = [i \in Ids |-> "none"] /\ busy' = FALSE /\ late' = {}
  /\ act' = [a \in Actors |-> IF Sent(a) THEN [act[a] EXCEPT !.ans = "lost"] ELSE act[a]]
  /\ UNCHANGED <<row, known, again, turns, faults>>

\* The server stops at any point; what it has sent may still arrive.
Crash ==
  /\ faults.crashes < MaxCrashes /\ faults' = [faults EXCEPT !.crashes = @ + 1]
  /\ late' = late \cup {IdOf(a) : a \in {b \in Actors : Sent(b)}}
  /\ act' = [a \in Actors |-> IF a \in Loops THEN Off(a[1], a[2])
                              ELSE IF act[a].at = "new" THEN act[a] ELSE Finished(act, a)[a]]
  /\ known' = [s \in Services |-> Down] /\ again' = {}
  /\ UNCHANGED <<row, gen, busy, ledger, turns>>

-------------------------------------------------------------------------------
LoopStep(a) == Top(a) \/ Rebind(a) \/ Read(a) \/ Claim(a) \/ Dispatched(a)
CallStep(c) == Resolve(c) \/ Reserve(c) \/ Enqueue(c) \/ Answer(c)
Request(c) == \E s \in Services, o \in Ops : Begin(c, s, o)

Next ==
  \/ \E s \in Services : Start(s) \/ Inventory(s) \/ Resume(s)
  \/ \E a \in Loops : LoopStep(a)
  \/ \E c \in Calls : Request(c) \/ CallStep(c)
  \/ \E a \in Actors : Serve(a) \/ Refuse(a) \/ ServeUnheard(a) \/ Drop(a)
  \/ ServeLate \/ ThreadEnds \/ OtherTurn \/ Replace \/ Crash

\* The server keeps running its code and the host answers.  A service is started, and
\* learns of a new generation, only by requests: clients are assumed to keep coming.
Fairness ==
  /\ \A s \in Services : WF_vars(Start(s)) /\ WF_vars(Inventory(s)) /\ WF_vars(Resume(s))
  /\ \A a \in Loops : WF_vars(LoopStep(a))
  /\ \A c \in Calls : WF_vars(CallStep(c))
  /\ \A a \in Actors : WF_vars(Serve(a))
  /\ WF_vars(ThreadEnds)

Spec == Init /\ [][Next]_vars /\ Fairness

-------------------------------------------------------------------------------
Answers == {"none", "sent", "accepted", "rejected", "refused", "ambiguous", "lost"}
Numbers == 0 .. MaxAttempt
Generations == 0 .. MaxGeneration

\* Every variable keeps to its type, a row is queued only for an operation that asked for
\* it, and a dispatcher works only on such an operation and only while its service runs.
TypeOK ==
  /\ row \in [Ops -> [st : Unresolved \cup {"none", "completed"}, attempt : Numbers,
                      gen : Generations, res : {"none", "queued", "accepted", "blocked"}]]
  /\ act \in [Actors -> [at : {"new", "look", "reserve", "enqueue", "sent", "done", "off",
                               "top", "rebind", "read", "claim"},
                         op : Ops \cup {"none"}, svc : Services \cup {"none"}, gen : Generations,
                         seen : Generations, k : Numbers, rec : BOOLEAN,
                         ans : Answers \cup {"active", "pending", "uncertain"}]]
  /\ known \in [Services -> Generations \cup {Down}] /\ again \subseteq Services
  /\ gen \in 1 .. MaxGeneration /\ busy \in BOOLEAN /\ late \subseteq Ids
  /\ ledger \in [Ids -> {"none", "idle", "rejected", "accepted"}] /\ turns \in [Ops -> 0 .. 3]
  /\ \A o \in Direct : row[o].st # "queued" /\ row[o].res # "queued" /\ row[o].attempt = 0
  /\ \A a \in Loops : act[a].at # "off" => a[2] \in Queue /\ known[a[1]] # Down

\* A message has no second turn (docs/codex-sessions.md:40): one that its request sends
\* itself has none in a generation, whatever is lost, retried or served late, and one that
\* is queued has none as long as the server, the runtime and their answers last and one
\* service dispatches it.
NoSecondTurn ==
  /\ \A o \in Direct : turns[o] <= gen
  /\ faults.lost = 0 /\ faults.crashes = 0 /\ gen = 1 => \A o \in Queue : turns[o] <= 1

\* What docs/codex-sessions.md:40 says of every operation: "Operation replays never create
\* a second turn."
OneTurnEach == \A o \in Ops : turns[o] <= 1

\* A queued message does not stay queued (docs/codex-sessions.md:41: it is dispatched when
\* the thread becomes idle).
QueuedEnds == \A o \in Queue : row[o].st = "queued" ~> row[o].st \in {"completed", "uncertain"}

===============================================================================
