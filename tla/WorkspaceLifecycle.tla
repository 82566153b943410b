--------------------------- MODULE WorkspaceLifecycle ---------------------------
(***************************************************************************)
(* The Workspace Runtime manager: start, suspend, resume, stop, clean,     *)
(* reconcile and the dev-server mutations, each under the workspace's file *)
(* lock, against the durable record, the runtime's process group and the   *)
(* Project Serve sessions of its dev servers.                              *)
(*                                                                         *)
(* A record is [state, gen, handle, servers, act, removed]: servers is the *)
(* ledger, a sequence of [name, sgen, mode]; act is the persisted intent   *)
(* [name, action, sgen].  A session is [state, gen, sgen, mode], where     *)
(*   healthy  runs;                  shaky  runs, the next probe fails;    *)
(*   flagged  runs, a probe failed;  lost   dead, still listed as running; *)
(*   bad      listed with an error.                                        *)
(* The manager crashes between any two of its durable or external effects. *)
(***************************************************************************)
EXTENDS Naturals, Sequences, FiniteSets, SequencesExt

CONSTANTS
  Gens,      \* runtime generations
  Expected,  \* dev servers of the manifest, in its order
  ServerGens,\* server generations, recycled when nothing names them
  MaxFaults  \* bound: crashes, deaths and failing calls of one behaviour

ASSUME ExpectedAssumption == Expected \in Seq(STRING) /\ IsInjective(Expected)
ASSUME ServerGensAssumption == ServerGens \subseteq Nat \ {0} /\ IsFiniteSet(ServerGens)
ASSUME LimitsAssumption == MaxFaults \in Nat

VARIABLES
  disk,  \* the record in the workspace's state file
  mem,   \* the copy the running operation works on
  job,   \* the operation that holds the lock, and how far it is
  proc,  \* process group of each generation
  serve, \* session of each dev server
  gdir,  \* directory of each generation
  faults

vars == <<disk, mem, job, proc, serve, gdir, faults>>

Names == Range(Expected)
Idle == [op |-> "none", at |-> "idle", todo |-> <<>>, flag |-> FALSE]
NoAct == [name |-> "", action |-> "none", sgen |-> 0]
NoSession == [state |-> "none", gen |-> "", sgen |-> 0, mode |-> "local"]
NoRecord == [state |-> "absent", gen |-> "", handle |-> FALSE, servers |-> <<>>,
             act |-> NoAct, removed |-> TRUE]

\* A fault that may happen now; most calls may fail.
Fault == faults < MaxFaults /\ faults' = faults + 1
NoFault == UNCHANGED faults

-------------------------------------------------------------------------------
\* What the manager observes.

\* ProcessProvider.Inspect: Exists is FALSE, or the leader is alive but does not own
\* the private socket, or the PID belongs to another process, or it is ours.
Exists(r) == r.handle /\ proc[r.gen] \in {"inert", "running", "frozen", "reused"}
Owned(r) == r.handle /\ proc[r.gen] \in {"running", "frozen"}
Foreign(r) == Exists(r) /\ ~Owned(r)

\* ObserveSessions lists without probing.
Listed(n) == serve[n].state \in {"healthy", "shaky", "lost"}
Unhealthy(n) == serve[n].state \in {"bad", "flagged"}

Matches(r, e) == serve[e.name].gen = r.gen /\ serve[e.name].sgen = e.sgen

\* Status probes one session and then exactServer compares it.
Probed(s) ==
  [s EXCEPT !.state = CASE @ = "lost" -> "bad" [] @ = "shaky" -> "flagged"
                        [] @ = "flagged" -> "healthy" [] OTHER -> @]
Exact(r, e) == Matches(r, e) /\ serve[e.name].state \in {"healthy", "flagged"}

\* Servers are probed in the ledger's order up to the first that is not exact.
ProbedAll(r) ==
  LET failing == {i \in DOMAIN r.servers : ~Exact(r, r.servers[i])}
      reached == {i \in DOMAIN r.servers : \A j \in failing : i <= j}
  IN [n \in Names |-> IF \E i \in reached : r.servers[i].name = n
                      THEN Probed(serve[n]) ELSE serve[n]]
AllExact(r) == \A i \in DOMAIN r.servers : Exact(r, r.servers[i])

\* The elements of s that are in T, in their order.
Only(s, T) ==
  LET upTo[i \in 0..Len(s)] ==
        IF i = 0 THEN <<>>
        ELSE IF s[i] \in T THEN Append(upTo[i - 1], s[i]) ELSE upTo[i - 1]
  IN upTo[Len(s)]

NamesOf(servers) == [i \in DOMAIN servers |-> servers[i].name]
Without(servers, n) == Only(servers, {e \in Range(servers) : e.name # n})
Entry(n) == [name |-> n, sgen |-> serve'[n].sgen, mode |-> serve'[n].mode]
Recorded(r, n) == n \in Range(NamesOf(r.servers))

\* inspectResources and inspectSuspended.
Inspected(r) ==
  /\ r.act = NoAct /\ Owned(r) /\ proc[r.gen] = "running"
  /\ NamesOf(r.servers) = Expected /\ AllExact(r)
InspectedSuspended(r) ==
  r.act = NoAct /\ Owned(r) /\ proc[r.gen] = "frozen" /\ r.servers = <<>>

\* Inspection probes the servers only behind the checks before them.
ProbedBy(r) ==
  IF r.act = NoAct /\ Owned(r) /\ proc[r.gen] = "running" /\ NamesOf(r.servers) = Expected
  THEN ProbedAll(r) ELSE serve

PreflightOwned(r) == r.act = NoAct /\ (r.handle => Owned(r)) /\ AllExact(r)
ProbedByPreflight(r) ==
  IF r.act = NoAct /\ (r.handle => Owned(r)) THEN ProbedAll(r) ELSE serve

\* The least server generation that nothing names; none when the bound is used up.
Fresh(n) ==
  LET used == {serve[n].sgen, disk.act.sgen, mem.act.sgen}
              \cup {disk.servers[i].sgen : i \in DOMAIN disk.servers}
              \cup {mem.servers[i].sgen : i \in DOMAIN mem.servers}
  IN {s \in ServerGens \ used : \A t \in ServerGens \ used : s <= t}

-------------------------------------------------------------------------------
\* How an operation goes on: to another step, or to its end with or without a save.

To(at, r) == job' = [job EXCEPT !.at = at] /\ mem' = r /\ UNCHANGED disk
Switch(op, at, r) == job' = [job EXCEPT !.op = op, !.at = at] /\ mem' = r /\ UNCHANGED disk
SaveAnd(at, r) == job' = [job EXCEPT !.at = at] /\ mem' = r /\ disk' = r
End(r) == disk' = r /\ mem' = r /\ job' = Idle
Quit == mem' = disk /\ job' = Idle /\ UNCHANGED disk

Stale(r) == [r EXCEPT !.state = "stale"]
Failed(r) == [r EXCEPT !.state = "failed", !.handle = FALSE, !.servers = <<>>, !.act = NoAct]

\* stopServers returned.
StopsDone(r) ==
  CASE job.op = "suspend" -> To("freeze", r)
    [] job.op = "stop" -> To("terminate", r)
    [] job.op = "rollback" -> To("refreeze", r)
    [] job.op \in {"failstart", "reconcile"} -> To("kill", r)
StopFailed(r) ==
  CASE job.op = "suspend" -> Switch("restart", "ledger", r)
    [] job.op = "stop" -> /\ job' = [job EXCEPT !.at = "terminate", !.flag = TRUE]
                          /\ mem' = r /\ UNCHANGED disk
    [] job.op = "rollback" -> End(r)
    [] job.op = "failstart" -> End(Stale(r))
    [] job.op = "reconcile" -> IF r.state = "stopping" THEN Quit ELSE End(Stale(r))
    [] job.op = "mutate" -> Quit

\* startNamedServers returned.
StartsDone(r) ==
  CASE job.op = "start" -> To("inspect", r)
    [] job.op = "resume" -> To("inspect", r)
    [] job.op = "restart" -> End([r EXCEPT !.state = "running"])
    [] job.op = "mutate" -> Quit
StartFailed(r) ==
  CASE job.op = "start" -> Switch("failstart", "ledger", r)
    [] job.op = "resume" -> Switch("rollback", "ledger", r)
    [] job.op = "restart" -> End(Stale(r))
    [] job.op = "mutate" -> Quit

\* reconcileDevServerLedger returned; restartServers starts what is missing.
Missing(r) == Only(Expected, {n \in Names : ~Recorded(r, n)})
LedgerDone(r) ==
  CASE job.op = "restart" -> /\ job' = [job EXCEPT !.at = "start", !.todo = Missing(r)]
                             /\ mem' = r /\ disk' = r
    [] job.op = "rollback" -> SaveAnd("stop", r)
    [] job.op = "failstart" -> SaveAnd("cleanup", r)
    [] job.op = "reconcile" -> SaveAnd("judge", r)
    [] job.op = "mutate" -> SaveAnd("mutate", r)
LedgerFailed == IF job.op = "mutate" THEN Quit ELSE End(Stale(mem))

-------------------------------------------------------------------------------
Init ==
  /\ disk = NoRecord /\ mem = NoRecord /\ job = Idle
  /\ proc = [g \in Gens |-> "none"] /\ gdir = [g \in Gens |-> "absent"]
  /\ serve = [n \in Names |-> NoSession] /\ faults = 0

Begin(op, at, todo) == job' = [op |-> op, at |-> at, todo |-> todo, flag |-> FALSE]

-------------------------------------------------------------------------------
\* Start.

\* The generation's directory is created before the record that names it.
StartNew(g) ==
  /\ job = Idle /\ disk.removed /\ gdir[g] # "active" /\ proc[g] = "none"
  /\ disk.state \in {"absent", "stopped", "failed"}
  /\ gdir' = [gdir EXCEPT ![g] = "active"]
  /\ mem' = [NoRecord EXCEPT !.state = "starting", !.gen = g, !.removed = FALSE]
  /\ Begin("start", "create", Expected)
  /\ NoFault /\ UNCHANGED <<disk, proc, serve>>

Create ==
  /\ job.at = "create" /\ SaveAnd("launch", mem)
  /\ NoFault /\ UNCHANGED <<proc, serve, gdir>>

\* Mutant: the runtime's command is started before its handle is durable.
LaunchUnsupervised ==
  /\ job.at = "launch" /\ UNCHANGED <<serve, gdir>>
  /\ proc' = [proc EXCEPT ![mem.gen] = "running"] /\ To("commit", mem) /\ NoFault

\* Setup, startup commands and the start of the supervisor, which waits for its request.
Launch ==
  /\ job.at = "launch" /\ UNCHANGED <<serve, gdir>>
  /\ \/ proc' = [proc EXCEPT ![mem.gen] = "inert"] /\ To("commit", mem) /\ NoFault
     \/ StartFailed(mem) /\ Fault /\ UNCHANGED proc

Commit ==
  /\ job.at = "commit" /\ SaveAnd("release", [mem EXCEPT !.handle = TRUE])
  /\ NoFault /\ UNCHANGED <<proc, serve, gdir>>

\* The request starts the command; when the handshake or the socket fails the
\* supervisor is killed.
Release ==
  /\ job.at = "release" /\ UNCHANGED <<serve, gdir>>
  /\ \/ /\ proc[mem.gen] = "inert" /\ proc' = [proc EXCEPT ![mem.gen] = "running"]
        /\ To("start", mem) /\ NoFault
     \/ /\ proc[mem.gen] = "inert" /\ proc' = [proc EXCEPT ![mem.gen] = "none"]
        /\ StartFailed(mem) /\ Fault
     \/ proc[mem.gen] # "inert" /\ UNCHANGED proc /\ StartFailed(mem) /\ NoFault

\* The last step of Start and of Resume; Resume saves running whatever it finds.
InspectStarted ==
  /\ job.at = "inspect" /\ serve' = ProbedBy(mem) /\ UNCHANGED <<proc, gdir>>
  /\ LET r == [mem EXCEPT !.state = "running"] IN
       \/ Inspected(mem) /\ End(r) /\ NoFault
       \/ ~Inspected(mem) /\ job.op = "resume" /\ End(r) /\ NoFault
       \/ ~Inspected(mem) /\ job.op = "start" /\ StartFailed(mem) /\ NoFault
       \/ /\ Inspected(mem) /\ job.op = "start" /\ Fault  \* state or ready file
          /\ job' = [job EXCEPT !.op = "failstart", !.at = "ledger"] /\ mem' = r /\ disk' = r

\* Start of a running generation, Inspect, and every operation refused by its inspection.
Inspect ==
  /\ job = Idle /\ disk.state = "running" /\ serve' = ProbedBy(disk) /\ serve' # serve
  /\ NoFault /\ UNCHANGED <<disk, mem, job, proc, gdir>>

-------------------------------------------------------------------------------
\* Dev servers: intent, effect, record.

Started(n, mode, state) ==
  [state : {state}, gen : {mem.gen}, sgen : Fresh(n), mode : {mode}]

\* StartWithOptions: another generation's session and one in another mode are refused,
\* a healthy one is taken, what is dead is replaced.
StartSession(n, mode, done, failed) ==
  LET s == serve[n]
      set(t) == serve' = [serve EXCEPT ![n] = t]
  IN IF s.state # "none" /\ s.gen # mem.gen THEN set(s) /\ failed /\ NoFault
     ELSE CASE s.state \in {"healthy", "flagged"} ->
                 /\ NoFault /\ set([s EXCEPT !.state = "healthy"])
                 /\ IF s.mode = mode THEN done ELSE failed
            [] s.state = "shaky" -> set(Probed(s)) /\ failed /\ NoFault
            [] OTHER ->
                 \/ (\E t \in Started(n, mode, "healthy") : set(t)) /\ done /\ NoFault
                 \/ /\ \E t \in Started(n, mode, "bad") \cup {NoSession} : set(t)
                    /\ failed /\ Fault

\* StopExpected leaves the session, or what is left of it, listed when it fails.
StopSession(n, done, failed) ==
  LET s == serve[n] IN
    IF s.state # "none" /\ s.gen # mem.gen
    THEN UNCHANGED serve /\ failed /\ NoFault
    ELSE \/ serve' = [serve EXCEPT ![n] = NoSession] /\ done /\ NoFault
         \/ /\ s.state # "none" /\ serve' = [serve EXCEPT ![n].state = "bad"]
            /\ failed /\ Fault

\* Mutant: every action is spelled operation + "ing".
ActingMisspelled(r, n, action, sgen) ==
  [r EXCEPT !.act = [name |-> n, sgen |-> sgen,
                     action |-> IF action = "stopping" THEN "stoping" ELSE action]]

Acting(r, n, action, sgen) ==
  [r EXCEPT !.act = [name |-> n, action |-> action, sgen |-> sgen]]

\* Mutant: a dev server is started without a durable intent.
NextStartUnsaved ==
  /\ job.at = "start"
  /\ IF job.todo = <<>> THEN StartsDone(mem)
     ELSE To("starting", Acting(mem, Head(job.todo), "starting", 0))
  /\ NoFault /\ UNCHANGED <<proc, serve, gdir>>

NextStart ==
  /\ job.at = "start"
  /\ IF job.todo = <<>> THEN StartsDone(mem)
     ELSE SaveAnd("starting", Acting(mem, Head(job.todo), "starting", 0))
  /\ NoFault /\ UNCHANGED <<proc, serve, gdir>>

StartOne ==
  /\ job.at = "starting"
  /\ LET n == mem.act.name IN
       StartSession(n, "local",
         To("started", [mem EXCEPT !.act = NoAct, !.servers = Append(@, Entry(n))]),
         StartFailed(mem))
  /\ UNCHANGED <<proc, gdir>>

StartedOne ==
  /\ job.at = "started" /\ disk' = mem /\ mem' = mem
  /\ job' = [job EXCEPT !.at = "start", !.todo = Tail(@)]
  /\ NoFault /\ UNCHANGED <<proc, serve, gdir>>

NextStop ==
  /\ job.at = "stop" /\ NoFault /\ UNCHANGED <<proc, gdir>>
  /\ IF mem.servers = <<>> THEN StopsDone(mem) /\ UNCHANGED serve
     ELSE LET e == Last(mem.servers) IN
       /\ serve' = [serve EXCEPT ![e.name] = Probed(@)]
       /\ IF Exact(mem, e) THEN SaveAnd("stopping", Acting(mem, e.name, "stopping", 0))
          ELSE StopFailed(mem)

StopOne ==
  /\ job.at = "stopping"
  /\ LET n == mem.act.name IN
       StopSession(n,
         To("stopped", [mem EXCEPT !.act = NoAct, !.servers = Without(@, n)]),
         StopFailed(mem))
  /\ UNCHANGED <<proc, gdir>>

StoppedOne ==
  /\ job.at = "stopped" /\ IF job.op = "mutate" THEN End(mem) ELSE SaveAnd("stop", mem)
  /\ NoFault /\ UNCHANGED <<proc, serve, gdir>>

-------------------------------------------------------------------------------
\* reconcileDevServerLedger.

ForeignSession == \E n \in Names : serve[n].state # "none" /\ serve[n].gen # mem.gen
\* Mutant: what is left of an interrupted start is not stopped.
MustStopListed(n) == mem.act.action = "stopping" /\ Listed(n)

MustStop(n) == Unhealthy(n) \/ (mem.act.action = "stopping" /\ Listed(n))

\* The ledger that the intent and the listing imply.
Adopted ==
  LET n == mem.act.name
      taken == IF mem.act.action = "starting" /\ Listed(n)
               THEN Append(mem.servers,
                           [name |-> n, sgen |-> serve[n].sgen, mode |-> serve[n].mode])
               ELSE mem.servers
  IN Only(taken, {e \in Range(taken) : Listed(e.name)})

LedgerClear ==
  /\ \A n \in Names : ~Unhealthy(n)
  /\ \A i \in DOMAIN Adopted : Matches(mem, Adopted[i])
  /\ \A n \in Names : Listed(n) => n \in Range(NamesOf(Adopted))

Ledger ==
  /\ job.at = "ledger" /\ UNCHANGED <<proc, gdir>>
  /\ IF ForeignSession THEN LedgerFailed /\ NoFault /\ UNCHANGED serve
     ELSE IF mem.act # NoAct /\ MustStop(mem.act.name)
     THEN StopSession(mem.act.name, To("ledger", mem), LedgerFailed)
     ELSE /\ NoFault /\ UNCHANGED serve
          /\ IF LedgerClear
             THEN LedgerDone([mem EXCEPT !.servers = Adopted, !.act = NoAct])
             ELSE LedgerFailed

-------------------------------------------------------------------------------
\* cleanupOwned, used by a failed Start and by Reconcile.

CleanupFailed(r) ==
  IF job.op = "reconcile" /\ r.state = "stopping" THEN Quit ELSE End(Stale(r))

Cleanup ==
  /\ job.at = "cleanup" /\ NoFault /\ UNCHANGED <<proc, gdir>>
  /\ serve' = IF mem.act = NoAct /\ ~Foreign(mem) THEN ProbedAll(mem) ELSE serve
  /\ IF mem.act = NoAct /\ ~Foreign(mem) /\ AllExact(mem)
     THEN /\ job' = [job EXCEPT !.at = "stop", !.flag = Exists(mem)]
          /\ mem' = mem /\ UNCHANGED disk
     ELSE CleanupFailed(mem)

CleanedUp(r) ==
  IF job.op = "reconcile" /\ r.state = "stopping"
  THEN End([r EXCEPT !.state = "stopped", !.handle = FALSE, !.servers = <<>>])
  ELSE End(Failed(r))

\* Mutant: the error of provider.Stop is dropped.
KillUnchecked ==
  /\ job.at = "kill" /\ UNCHANGED <<serve, gdir>>
  /\ CleanedUp(mem) /\ NoFault /\ proc' \in {proc, [proc EXCEPT ![mem.gen] = "none"]}

\* provider.Stop on an owned group; only a group the preflight saw is stopped.
Kill ==
  /\ job.at = "kill" /\ UNCHANGED <<serve, gdir>>
  /\ IF ~job.flag THEN CleanedUp(mem) /\ NoFault /\ UNCHANGED proc
     ELSE IF ~Owned(mem) THEN CleanupFailed(mem) /\ NoFault /\ UNCHANGED proc
     ELSE \/ proc' = [proc EXCEPT ![mem.gen] = "none"] /\ CleanedUp(mem) /\ NoFault
          \/ UNCHANGED proc /\ CleanupFailed(mem) /\ Fault

-------------------------------------------------------------------------------
\* Suspend and Resume.

Suspend ==
  /\ job = Idle /\ disk.state = "running" /\ Inspected(disk)
  /\ serve' = ProbedBy(disk) /\ Begin("suspend", "stop", <<>>)
  /\ mem' = [disk EXCEPT !.state = "suspending"] /\ disk' = mem'
  /\ NoFault /\ UNCHANGED <<proc, gdir>>

\* SIGSTOP to the verified group, or the dev servers are started again.
Freeze ==
  /\ job.at = "freeze" /\ UNCHANGED <<serve, gdir>>
  /\ \/ /\ Owned(mem) /\ proc' = [proc EXCEPT ![mem.gen] = "frozen"] /\ NoFault
        /\ To("frozen", [mem EXCEPT !.state = "suspended"])
     \/ /\ (IF Owned(mem) THEN Fault ELSE NoFault) /\ UNCHANGED <<proc, disk>>
        /\ mem' = mem
        /\ job' = [job EXCEPT !.op = "restart", !.at = "start", !.todo = Missing(mem)]

Frozen ==
  /\ job.at = "frozen" /\ End(mem) /\ NoFault /\ UNCHANGED <<proc, serve, gdir>>

Resume ==
  /\ job = Idle /\ disk.state = "suspended" /\ InspectedSuspended(disk)
  /\ Begin("resume", "thaw", Expected)
  /\ mem' = [disk EXCEPT !.state = "resuming"] /\ disk' = mem'
  /\ NoFault /\ UNCHANGED <<proc, serve, gdir>>

Thaw ==
  /\ job.at = "thaw" /\ UNCHANGED <<serve, gdir>>
  /\ \/ /\ Owned(mem) /\ proc' = [proc EXCEPT ![mem.gen] = "running"] /\ NoFault
        /\ To("start", mem)
     \/ /\ (IF Owned(mem) THEN Fault ELSE NoFault) /\ UNCHANGED proc
        /\ End([mem EXCEPT !.state = "suspended"])

\* A failed Resume stops the group again; otherwise the record stays in resuming.
Refreeze ==
  /\ job.at = "refreeze" /\ UNCHANGED <<serve, gdir>>
  /\ \/ /\ Owned(mem) /\ proc' = [proc EXCEPT ![mem.gen] = "frozen"] /\ NoFault
        /\ To("frozen", [mem EXCEPT !.state = "suspended", !.servers = <<>>])
     \/ (IF Owned(mem) THEN Fault ELSE NoFault) /\ UNCHANGED proc /\ End(mem)

-------------------------------------------------------------------------------
\* Stop and Clean.

\* Any state with an owned process may be stopped; a record without a handle is
\* refused when stopping is saved.
Stop ==
  /\ job = Idle /\ disk.state \notin {"absent", "stopped"}
  /\ serve' = ProbedByPreflight(disk) /\ NoFault /\ UNCHANGED <<proc, gdir>>
  /\ IF PreflightOwned(disk) /\ disk.handle
     THEN /\ Begin("stop", "stop", <<>>)
          /\ mem' = [disk EXCEPT !.state = "stopping"] /\ disk' = mem'
     ELSE serve' # serve /\ UNCHANGED <<disk, mem, job>>

\* Shutdown hooks and the process group; every error makes the record stale.
Terminate ==
  /\ job.at = "terminate" /\ UNCHANGED <<serve, gdir>>
  /\ LET done == [mem EXCEPT !.state = "stopped", !.servers = <<>>] IN
       \/ /\ Owned(mem) /\ ~job.flag /\ NoFault
          /\ proc' = [proc EXCEPT ![mem.gen] = "none"] /\ To("ended", done)
       \/ /\ Owned(mem) /\ job.flag /\ NoFault
          /\ proc' = [proc EXCEPT ![mem.gen] = "none"] /\ To("ended", Stale(mem))
       \/ /\ Owned(mem) /\ Fault  \* a hook or the signals fail
          /\ proc' \in {proc, [proc EXCEPT ![mem.gen] = "none"]} /\ To("ended", Stale(mem))
       \/ ~Owned(mem) /\ NoFault /\ UNCHANGED proc /\ To("ended", Stale(mem))

Ended ==
  /\ job.at = "ended" /\ End(mem) /\ NoFault /\ UNCHANGED <<proc, serve, gdir>>

\* Mutant: a stale runtime may be cleaned.
CleanStale ==
  /\ job = Idle /\ disk.state \in {"stopped", "failed", "stale"} /\ disk.servers = <<>>
  /\ ~disk.removed
  /\ Begin("clean", "clean", <<>>) /\ mem' = [disk EXCEPT !.state = "cleaning"] /\ disk' = mem'
  /\ NoFault /\ UNCHANGED <<proc, serve, gdir>>

Clean ==
  /\ job = Idle /\ disk.state \in {"stopped", "failed"} /\ disk.servers = <<>>
  /\ ~disk.removed /\ ~Exists(disk)
  /\ Begin("clean", "clean", <<>>) /\ mem' = [disk EXCEPT !.state = "cleaning"] /\ disk' = mem'
  /\ NoFault /\ UNCHANGED <<proc, serve, gdir>>

\* provider.Clean and removeGeneration, which a retry finishes.
RemoveGeneration ==
  /\ job.at = "clean" /\ UNCHANGED <<proc, serve>>
  /\ \/ /\ gdir[mem.gen] # "absent" /\ NoFault
        /\ gdir' = [gdir EXCEPT ![mem.gen] = "retained"] /\ To("cleaned", mem)
     \/ Quit /\ Fault /\ UNCHANGED gdir

Cleaned ==
  /\ job.at = "cleaned"
  /\ End([mem EXCEPT !.state = "stopped", !.handle = FALSE, !.removed = TRUE])
  /\ NoFault /\ UNCHANGED <<proc, serve, gdir>>

-------------------------------------------------------------------------------
\* Reconcile.

Reconcile ==
  /\ job = Idle /\ disk.state \notin {"absent", "stopped", "failed"}
  /\ IF disk.state = "cleaning"
     THEN ~Exists(disk) /\ Begin("clean", "clean", <<>>)
     ELSE Begin("reconcile", "ledger", <<>>)
  /\ mem' = disk /\ NoFault /\ UNCHANGED <<disk, proc, serve, gdir>>

\* The classified record against the process.
Judge ==
  /\ job.at = "judge" /\ NoFault /\ UNCHANGED <<proc, gdir>>
  /\ LET gone == IF mem.state = "stopping"
                 THEN End([mem EXCEPT !.state = "stopped", !.handle = FALSE])
                 ELSE End(Failed(mem))
         absent == IF mem.servers # <<>> THEN To("cleanup", mem) ELSE gone
     IN CASE mem.state = "running" ->
               /\ serve' = ProbedBy(mem)
               /\ IF Inspected(mem) THEN End(mem)
                  ELSE IF Exists(mem) THEN End(Stale(mem)) ELSE absent
          [] mem.state = "suspended" ->
               /\ UNCHANGED serve
               /\ IF InspectedSuspended(mem) THEN End(mem) ELSE End(Stale(mem))
          [] mem.state = "stale" -> To("cleanup", mem) /\ UNCHANGED serve
          [] mem.state \in {"starting", "suspending", "resuming", "stopping"} ->
               IF mem.state # "stopping" /\ ~mem.handle /\ mem.servers = <<>>
               THEN End(Failed(mem)) /\ UNCHANGED serve
               ELSE IF Foreign(mem) \/ ~mem.handle
               THEN CleanupFailed(mem) /\ UNCHANGED serve
               ELSE IF ~Exists(mem) THEN absent /\ UNCHANGED serve
               ELSE /\ serve' = ProbedAll(mem)
                    /\ IF AllExact(mem) THEN To("cleanup", mem) ELSE CleanupFailed(mem)

-------------------------------------------------------------------------------
\* MutateDevServer.

\* A new request, or the retry of the one that is pending.
Mutate(n, action) ==
  /\ job = Idle /\ disk.state = "running" /\ mem' = disk
  /\ IF disk.act = NoAct THEN job' = [Idle EXCEPT !.op = "mutate", !.at = "mutate",
                                                  !.todo = <<n, action>>]
     ELSE /\ disk.act.name = n /\ disk.act.action = action
          /\ job' = [Idle EXCEPT !.op = "mutate", !.todo = <<n, action>>,
                       !.at = IF action = "publishing" THEN "publish" ELSE "ledger"]
  /\ NoFault /\ UNCHANGED <<disk, proc, serve, gdir>>

\* The intent is saved, or nothing is left to do.
MutateOne ==
  /\ job.at = "mutate" /\ NoFault /\ UNCHANGED <<proc, serve, gdir>>
  /\ LET n == job.todo[1]
         action == job.todo[2]
         mine == {e \in Range(mem.servers) : e.name = n}
         intend(at, sgen) == /\ job' = [job EXCEPT !.at = at, !.todo = <<n>>]
                             /\ mem' = Acting(mem, n, action, sgen) /\ disk' = mem'
     IN CASE action = "starting" /\ mine = {} -> intend("starting", 0)
          [] action = "stopping" /\ mine # {} -> \E e \in mine : intend("stopping", e.sgen)
          [] action = "publishing" /\ \E e \in mine : e.mode = "local" ->
               \E e \in mine : intend("publish", e.sgen)
          [] OTHER -> Quit

Published(n) ==
  To("ended", [mem EXCEPT !.act = NoAct, !.servers = Append(Without(@, n), Entry(n))])

\* recoverPublishedServer: a published session is taken as it is; the local one is
\* stopped and started under a new server generation; a missing one is started.
Publish ==
  /\ job.at = "publish" /\ UNCHANGED <<proc, gdir>>
  /\ LET n == mem.act.name
         s == serve[n]
     IN IF s.state = "none" THEN StartSession(n, "managed", Published(n), Quit)
        ELSE IF s.gen # mem.gen \/ s.state = "bad"
        THEN Quit /\ NoFault /\ UNCHANGED serve
        ELSE IF s.mode = "managed"
        THEN /\ UNCHANGED serve /\ NoFault
             /\ IF s.state = "flagged" THEN Quit ELSE Published(n)
        ELSE IF s.sgen # mem.act.sgen THEN Quit /\ NoFault /\ UNCHANGED serve
        ELSE \/ /\ \E t \in Started(n, "managed", "healthy") : serve' = [serve EXCEPT ![n] = t]
                /\ Published(n) /\ NoFault
             \/ /\ \E t \in {[s EXCEPT !.state = "bad"], NoSession}
                             \cup Started(n, "managed", "bad") : serve' = [serve EXCEPT ![n] = t]
                /\ Quit /\ Fault

-------------------------------------------------------------------------------
\* Faults.

\* A call that was interrupted leaves a session listed in the middle of its transition.
Interrupted(n) ==
  LET s == serve[n]
      broken == IF s.state = "none" THEN s ELSE [s EXCEPT !.state = "bad"]
  IN CASE job.at = "starting" /\ s.state = "none" -> {s} \cup Started(n, "local", "bad")
       [] job.at = "stopping" \/ (job.at = "ledger" /\ mem.act # NoAct) -> {s, broken}
       [] job.at = "publish" -> {s, NoSession} \cup Started(n, "managed", "bad")
       [] OTHER -> {s}

\* The manager dies and the lock is free.
Crash ==
  /\ job # Idle /\ Fault /\ Quit /\ UNCHANGED <<proc, gdir>>
  /\ IF mem.act.name \notin Names THEN UNCHANGED serve
     ELSE \E t \in Interrupted(mem.act.name) : serve' = [serve EXCEPT ![mem.act.name] = t]

\* A supervisor without a request reads the end of its pipe once its manager is gone.
SupervisorExits(g) ==
  /\ proc[g] = "inert" /\ ~(job.at \in {"commit", "release"} /\ mem.gen = g)
  /\ proc' = [proc EXCEPT ![g] = "none"] /\ NoFault
  /\ UNCHANGED <<disk, mem, job, serve, gdir>>

\* The whole group exits, or only its leader is killed; a free PID is taken by another
\* process and given up again.
ProcessExits(g) ==
  /\ proc[g] \in {"running", "frozen", "inert"} /\ Fault
  /\ proc' \in {[proc EXCEPT ![g] = "none"], [proc EXCEPT ![g] =
                  IF @ = "running" THEN "headless" ELSE "none"]}
  /\ UNCHANGED <<disk, mem, job, serve, gdir>>
HeadlessEnds(g) ==
  /\ proc[g] = "headless" /\ proc' = [proc EXCEPT ![g] = "none"] /\ NoFault
  /\ UNCHANGED <<disk, mem, job, serve, gdir>>
PidReused(g) ==
  /\ proc[g] = "none" /\ disk.gen = g /\ disk.handle /\ Fault
  /\ proc' = [proc EXCEPT ![g] = "reused"]
  /\ UNCHANGED <<disk, mem, job, serve, gdir>>
PidFreed(g) ==
  /\ proc[g] = "reused" /\ proc' = [proc EXCEPT ![g] = "none"] /\ NoFault
  /\ UNCHANGED <<disk, mem, job, serve, gdir>>

\* A dev server dies, or its next probe fails.
ServerFails(n) ==
  /\ serve[n].state = "healthy" /\ Fault
  /\ \E s \in {"lost", "shaky"} : serve' = [serve EXCEPT ![n].state = s]
  /\ UNCHANGED <<disk, mem, job, proc, gdir>>

-------------------------------------------------------------------------------
Step ==
  \/ Create \/ Launch \/ Commit \/ Release \/ InspectStarted
  \/ NextStart \/ StartOne \/ StartedOne \/ NextStop \/ StopOne \/ StoppedOne
  \/ Ledger \/ Cleanup \/ Kill \/ Judge \/ MutateOne \/ Publish
  \/ Freeze \/ Frozen \/ Thaw \/ Refreeze \/ Terminate \/ Ended
  \/ RemoveGeneration \/ Cleaned

Actions == {"starting", "stopping", "publishing"}

Request ==
  \/ Inspect \/ Suspend \/ Resume \/ Stop \/ Clean
  \/ \E g \in Gens : StartNew(g)
  \/ \E n \in Names, a \in Actions : Mutate(n, a)

Environment ==
  \E g \in Gens : SupervisorExits(g) \/ HeadlessEnds(g) \/ PidFreed(g)

Next ==
  \/ Step \/ Request \/ Reconcile \/ Environment
  \/ Crash \/ \E g \in Gens : ProcessExits(g) \/ PidReused(g)
  \/ \E n \in Names : ServerFails(n)

\* An operation runs to its end; somebody keeps asking for Reconcile.
Fairness == WF_vars(Step) /\ WF_vars(Environment) /\ SF_vars(Reconcile)

Spec == Init /\ [][Next]_vars /\ Fairness

-------------------------------------------------------------------------------
\* Properties.

States == {"absent", "starting", "running", "suspending", "suspended", "resuming",
           "stopping", "stopped", "cleaning", "stale", "failed"}
Entries == [name : Names, sgen : ServerGens, mode : {"local", "managed"}]
Records ==
  [state : States, gen : Gens \cup {""}, handle : BOOLEAN, servers : Seq(Entries),
   act : [name : Names \cup {""}, action : Actions \cup {"none"}, sgen : ServerGens \cup {0}],
   removed : BOOLEAN]

\* Types of the record, its copy, the process groups, sessions and directories.
TypeOK ==
  /\ disk \in Records /\ mem \in Records
  /\ proc \in [Gens -> {"none", "inert", "running", "frozen", "headless", "reused"}]
  /\ serve \in [Names -> [state : {"none", "healthy", "shaky", "flagged", "lost", "bad"},
                          gen : Gens \cup {""}, sgen : ServerGens \cup {0},
                          mode : {"local", "managed"}]]
  /\ gdir \in [Gens -> {"absent", "active", "retained"}] /\ faults \in 0..MaxFaults

\* A command never runs without a durable record that names its generation and holds its
\* handle, at whatever step the manager died (start.go:133, process.go:121).
OwnedProcess ==
  \A g \in Gens : proc[g] \in {"running", "frozen"} => disk.gen = g /\ disk.handle

\* A dev server's session is always named by the record: by its ledger or by the intent
\* that was saved before the session was touched.
OwnedServers ==
  \A n \in Names : serve[n].state # "none" =>
    serve[n].gen = disk.gen /\ (Recorded(disk, n) \/ disk.act.name = n)

\* Whenever no command runs, the saved record tells the truth about the machine: stopped or
\* failed leaves nothing of its generation behind, suspended no running process and no
\* session, running no frozen process (lifecycle.go:99, 136, 228).
StatesAgree ==
  job = Idle =>
    /\ disk.state \in {"stopped", "failed"} =>
         /\ disk.act = NoAct /\ disk.servers = <<>>
         /\ \A g \in Gens : proc[g] \notin {"running", "frozen"}
         /\ \A n \in Names : serve[n].state = "none"
    /\ disk.state = "suspended" =>
         proc[disk.gen] # "running" /\ \A n \in Names : serve[n].state = "none"
    /\ disk.state = "running" => proc[disk.gen] # "frozen"

\* Only a generation that was proven absent is moved out of the active namespace.
OnlyDeadRetained ==
  \A g \in Gens : gdir[g] = "retained" => proc[g] \notin {"running", "frozen"}

Settled == job = Idle /\ disk.state \in {"absent", "running", "suspended", "stopped", "failed"}

\* Sessions that contradict the record, which Reconcile does not touch.
Blocked ==
  \/ \E n \in Names : serve[n].state \in {"bad", "flagged"} /\ disk.act.name # n
  \/ \E i \in DOMAIN disk.servers :
       serve[disk.servers[i].name].state # "none" /\ ~Matches(disk, disk.servers[i])

\* After the last fault Reconcile leads every record out of its intermediate state, unless
\* a session contradicts it.
Settles == []<>(Settled \/ Blocked)
===============================================================================
