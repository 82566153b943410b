# Project Space: a TLA+ verification project

This directory models the parts of Project Space whose correctness depends on the order of things:
messages, crashes, reconnects, retries, callbacks, database transactions, timeouts and file locks. It
covers how a runtime reports to the server and is controlled by it, how its processes are managed on the
machine, and how tasks, worktrees, messages and environments are shared by callers that retry.

Line numbers are those of the repository this directory belongs to. The exact correspondence of every
definition to the code is the `map` of `PROJECT.json`.

## 1. The system

Project Space lets people and agents work on tasks in *workspaces*: Git worktrees on machines called
environments. A TypeScript server holds the database and the HTTP, WebSocket and MCP interfaces; the Go
binary `project` runs on the machines, owns worktrees and processes and reports back; a React
application shows the result.

| Component (code) | State it keeps | Operations | What is hard | What makes it correct | Module |
|---|---|---|---|---|---|
| **Session authority** `server/workspace-runtime-session` | generations, credentials, events (PostgreSQL); connections map (memory) | issue, revoke, register, append, disconnect, cleanup, expiry | awaits between transaction and map; late close events; replayed launches; restarts | one live generation, one writer, ledger equals row, terminal stays terminal | `RuntimeSession` |
| **Session client** `internal/workspacesession/client.go` | journal in memory and in a file | start, register, flush, poll, heartbeat, shutdown, reconnect | crash between save and send; lost acknowledgements; frozen process; SIGTERM in a flush | every event written is stored exactly once, in order, eventually | `RuntimeDelivery` |
| **Runtime control** `server/canonical-runtime-control`, `internal/workspacesession/control_*.go` | operation rows, watermarks; control journal (file) | reserve, dispatch, accept, complete, uncertain, re-send | timeout against late answer; replay after a crash; the mutation fence | a command runs once; what is said of it is what happened; it becomes known | `RuntimeControl` |
| **Runtime manager** `internal/workspacerun` | runtime record with dev-server ledger and intent, generation directories (files, one lock per workspace) | start, suspend, resume, stop, clean, reconcile, dev-server commands | crash between process and record; several steps of which one fails | nothing runs that the record does not name; reconcile leads to rest | `WorkspaceLifecycle` |
| **Process runner** `internal/projectrun` | process groups, serve sessions | supervised start, suspend, resume, stop, status | a recycled pid; a frozen group; a dead leader | signals only to a verified group | `WorkspaceLifecycle` (as the manager uses it) |
| **Task execution** `server/task-execution` | executions, bindings, capacity leases, operations | start, send, respond, cancel, archive, get, handoff | versions read before awaits; retries of uncertain operations; crashes | never shown ahead of the agent; completed stays true | `TaskExecution` |
| **Worktree ownership** `internal/worktreeownership` | four git configuration keys per worktree, file lock | prepare, claim, claim exact, recover, check, cleanup | several writes per claim, crashes between them, work outside the lock | grants hold; one worktree per thread; no work is deleted | `WorktreeOwnership` |
| **Machine tasks** `server/codex-machine-tasks`, `codex-sessions/operation-ledger.ts` | message rows, dispatcher loops, the host's ledger | send, queue, claim, reconcile | lost answers, late commands, replaced runtimes, restarts | a message has one turn; a queued message does not stay queued | `QueuedSends` |
| **Environment lifecycle** `server/execution-environment-lifecycle` | operation rows, stored observation | start, stop, delete, status | unknown outcome of a provider call; check, await, then stop | one operation at a time, one effect each, admitted work is spared | `EnvironmentLifecycle` |

How they interact: a *launch* calls `issue` and starts the *manager* over SSH, which starts a
detached process group whose leader is the *session client*. The client opens a WebSocket with the
credential, registers, and then sends one event at a time; the same socket carries *control* commands and
their responses. The *manager* tells the client what happens only through a state file that the client
polls four times a second, and through signals. The *session authority* keeps the durable row and ledger in
PostgreSQL and, in memory, a map from a workspace to the one socket commands are sent to. *Task
execution* prepares an environment (through the *environment lifecycle*), a worktree (claimed by
*worktree ownership* on the machine) and an agent, whose messages go through *machine tasks*; a stop of the
environment must not overtake any of them.

`PROJECT.json` lists all components with their status and, under `hazards`, everything in this code
that is hard to test, with the properties that watch it.

## 2. The modules

| Module | Models | Uses |
|---|---|---|
| `RuntimeRow` | what `postgres-store.ts` does to one generation's row and events, as operators | `Naturals` |
| `RuntimeSession`, `RuntimeSessionProofs` | the session authority of one workspace with *arbitrary* clients; theorems | `RuntimeRow` |
| `EventLedger` | the promise of event delivery: what was written is stored once each, in order | |
| `RuntimeDelivery`, `RuntimeDeliveryProofs` | one generation's Go client with its journal, the sockets, the gateway and the manager around it; theorems | `RuntimeRow`, instantiates `EventLedger` |
| `RuntimeControl`, `RuntimeControlProofs` | requests, operation store, dispatcher, socket and Go receiver of one generation; theorems | |
| `WorkspaceLifecycle`, `WorkspaceLifecycleProofs` | the manager of one workspace, step by step, with its process groups and dev servers; theorems | `SequencesExt` |
| `TaskExecution`, `TaskExecutionProofs` | the execution service, one statement or call per step; theorems | |
| `WorktreeOwnership`, `WorktreeOwnershipProofs` | commands of CLI processes on the worktrees of one repository; theorems | |
| `QueuedSends`, `QueuedSendsProofs` | messages to one Codex thread: rows, dispatchers, runtime, host ledger; theorems | |
| `EnvironmentLifecycle`, `EnvironmentLifecycleProofs` | operations of one environment against tasks admitted to it; theorems | |
| `MC...` | the constants and symmetry sets of the runs | the module of that name |

`RuntimeSession` and `RuntimeDelivery` share `RuntimeRow`, so the server of both is the same code. They cut
the system differently: `RuntimeSession` keeps everything the server can do wrong and lets clients do
anything; `RuntimeDelivery` has one generation and one credential, merges each server handler into one action
and keeps everything the real client does. The other modules meet at interfaces: `RuntimeControl` assumes of
the session layer what `RuntimeSession` shows (one session writes), `WorkspaceLifecycle` refines the few
manager steps `RuntimeDelivery` has as its environment, and `EnvironmentLifecycle` sees the rows of
`QueuedSends` as states of work.

### RuntimeSession

| TLA+ | Code |
|---|---|
| `gen`, `cred`, `ledger` | rows of `workspace_runtime_generations`, `_credentials`, `_events` |
| `sock[s]` | a WebSocket and the closure of its handler: `phase` is where the promise chain stands, `alive` means its close event has not come, `closing` that we called `close` |
| `map` | the entry of `connections` for the workspace |
| `staleCloses`, `revokes` | `expireStale` and `revoke` between their transaction and their look at the map |
| `Issue`, `Revoke`/`CloseRevoked`, `Expire`/`CloseExpired`, `Connect`, `RegisterStore`/`RegisterMap`, `AppendEvent`, `CloseEvent`/`DisconnectStore`, `MarkStale`/`CloseStale`, `Restart` | the operation of that name; a slash stands at an await |

Every transaction takes `pg_advisory_xact_lock` for the workspace or is a single statement, so one
transaction is one action. What the service does before the next await is another. A socket that was closed
still delivers messages that were already read. `writers` is a history variable. Abstracted: payloads and
capabilities, the evidence of `sameRegistration`, the operation identity of a launch, time.

### RuntimeDelivery

| TLA+ | Code |
|---|---|
| `journal`, `disk` | the `journal` value in memory and the file `saveJournal` renames into place |
| `pc`, `mode`, `exit`, `cancelled` | where `Run`/`runConnection`/`flush`/`flushGracefulShutdown` stand; the cancelled context |
| `lastLifecycle`, `lastState` | the two locals of `runConnection` |
| `link[c]` | both directions of a socket and the server's handler of it |
| `current`, `row`, `ledger`, `expired` | the map entry, the durable row and events, the credential |
| `mgr` | what the manager does: it decides the state file (`StateFile`) and whether the group is frozen (`Frozen`) |

Abstracted: an event is its sequence number, its identifier and its body; a lifecycle event's body is the
state, all others are `other`. Backoff and timers are nondeterministic. A broken connection loses a suffix
of each direction.

### RuntimeControl

| TLA+ | Code |
|---|---|
| `op[o]` | the row of an operation: state, session, command sequence, sequences of its two responses, lease |
| `cmdMark`, `evMark`, `current`, `map` | the generation's watermarks and session; the connections map |
| `call`, `srv`, `resumeAt`, `backlog` | requests in `service.execute` and `dispatch`; how far `register` and the registration listener are |
| `toRt`, `toSrv`, `late`, `dying` | frames under way, those of the previous socket, its close event |
| `rt`, `disk`, `busy` | the receiver's journal, its file, the command that is executed |
| `effect`, `ran` | what happened on the machine, and how often a command was executed afresh |

A command that does not change state is one whose effect is nothing; `Mutations` names the others. Grants,
fingerprints and payloads are the identity of the operation. The receiver's recovery of an interrupted
mutation asks the machine what happened (`Replay`, `Prepare`).

### WorkspaceLifecycle

| TLA+ | Code |
|---|---|
| `disk`, `mem` | the saved record, and the copy that the running command works on |
| `job` | the command that holds the lock and the step it is at: one durable write or outside effect per step |
| `proc[g]` | the process group of a generation: `inert` (waiting for its release), running, frozen, `headless` (the leader died alone), reused pid |
| `serve[n]` | the serve session of a dev server, with what the next probe will find |
| `gdir[g]` | the generation's directory: absent, active, retained |

`Crash` may come at any step: the lock is freed by the kernel and `mem` is lost. A failing call and a dying
process are faults too. `Matches`, `Exact` and `Inspected` are the manager's checks, side effects
of `Status` included (`ProbedBy`).

### TaskExecution

A request (`call[c]`) is at the label of the statement or call it does next. It carries the state it has
seen and whether the row is still at that version, which stands for the number in `version`. `agent[e]` is
the executor's task, which may be pending, at work or idle, or absent. `StartTry` and `MutationTry` are the labels
inside a `try`, from which `Catch` and `Fail` may follow. Left out: queued delivery, the expiry of rows after
thirty days, an event append that fails after its write, lease renewal, listing, waiting and `readByExecutor`.

### WorktreeOwnership

`at`, `branch`, `head` and `dirty` are the repository; `conf[w]` are the four keys; `proc[p]` is a CLI process
at one of the `git config` writes (`step`) with what it wants to write; `granted` and `loose` are history:
what callers were told, and which trees were claimed by `ClaimExact` or left their branch. Commits, edits,
checkouts, pushes, `git worktree add` and `remove` happen without the lock. Assumed: nobody removes a worktree
while a command works on it.

### QueuedSends

`row[o]` is the row of a message; `act[a]` a request or a loop of a dispatcher; `known[s]` what a service knows of the
runtime's generation; `ledger` the host's answers per dispatch identifier; `late` commands whose sender gave
up and that may still be served. The host serves a command, refuses it, serves it without being heard, or
serves it late. Left out: steering, waiting for the end of a turn, `releaseSend`.

### EnvironmentLifecycle

`op[o]` is the row of an operation, `call[c]` the handler of a request, `bind` the stored observation, `env` the
Codespace itself, `row[w]` and `thread[w]` a task's row and Codex thread. `fresh` and `before` say which
observation is older than the stored one, which `saveBinding` compares by time. Left out: provisioning,
attaching, reauthorisation (a failing answer like another); `failed` stands for failed, uncertain and missing.

## 3. The runs

| Run | Bounds | States | Shows |
|---|---|---|---|
| `delivery_safety` | 2 sockets, 4 polled events (plus the terminal ones), 2 faults, state file at `starting` | 1.4 million | types; journal file and row never part; a clean exit means `stopped` was stored; delivery implements `EventLedger` |
| `delivery_live` | 2 sockets, 3 polled events, 1 fault | 47 thousand | no event of the owning session is refused; everything written is eventually stored |
| `session` | 2 generations, credentials, sockets, event identifiers, registrations; sequence to 2 | 0.7 million up to symmetry | one live generation, ledger equals row, writers in order, closed stays closed, cleanup spares the current session |
| `control` | 2 mutations, one request at a time, 1 fault | 0.5 million | commands run once, outcomes are true and arrive, mutations are fenced |
| `lifecycle` | 2 generations, 2 dev servers, 2 faults | 0.3 million | ownership of processes and servers, truth of the record, reconciliation ends |
| `execution` | 2 executions of one environment, 6 operations, 2 requests at a time, 3 events | 1.3 million up to symmetry | state never ahead of the agent, completed stands |
| `ownership` | 2 worktrees, threads, workspace identifiers and processes | 1.5 million up to symmetry | grants, marks, one tree each, identifiers, no lost work |
| `queue` | one queued and one direct message, 2 requests, 2 generations, 1 lost answer, 1 crash, 1 turn of another client | 0.2 million | no second turn, queued ends |
| `environment` | a start, a stop and a delete, 2 requests at a time, one task, 2 failures or changes | 9.6 million up to symmetry | fence, one effect, admitted work is spared |
| `v_startup`, `v_livelock`, `v_queue` | the smallest that show it | | the findings of section 5 |

Why the bounds are enough for what they are used for. A second socket, request or process is what an
interleaving needs, and identifiers are recycled, so a behaviour opens any number of them one after
the other; a third that overlaps both adds only another old one. One fault in `control` and `delivery_live` is a crash or a lost
connection at any step, with any number of re-sends after it; two in the others allow a crash
during the recovery from another. Two mutations are what the fence is about; two generations make supersession and replacement
mean something. In `ownership` nothing is bounded but the sets. The theorems of section 6 remove
the bounds of all the models.

`MaxEvents`, `MaxFaults`, `MaxSequence`, `MaxSessions`, `MaxAttempt`, `MaxGeneration`, `MaxLost`, `MaxCrashes`,
`MaxOthers` and `MaxTroubles` are the only bounds of the models; each stands in a guard. `ServerGens` is a pool that
`Fresh` takes from: a session is started while a generation is left that nothing names. `MaxCommands` is the code's
own limit. Deadlock checking is off where the system may stop: a stopped runtime, operations that are all
answered. Symmetry is used in runs of safety and action properties only.

**Fairness.** `RuntimeDelivery`: weak fairness of the client's steps while its process is not frozen, of the
server processing what has arrived, and of close events. `RuntimeControl`: the server's event loop and the
runtime's loop keep running; `OutcomesArrive` is conditional on a connection that finally holds.
`WorkspaceLifecycle`: a command runs to its end, a dying group ends, and a caller that was left with
an intermediate state keeps asking for the `reconcile` operation, the only one that leads out of it. `QueuedSends`: the server runs its code, the host answers, turns
end, and clients keep coming (a service starts, and learns of a new generation, only by a request). Go's
scheduler, Node's event loop and TCP's timeouts justify the rest. Nothing is assumed of faults. The single
fault of `delivery_live` is deliberate: with two client crashes during shutdown the journal holds a first
`stopped` with events behind it, which the server rightly never takes (listed as a hazard).

Every property has a mutant in `PROJECT.json`: a definition changed the way a plausible bug would change
the code (a journal renumbered from its length, a save after the effect in place of before it, a lock not
taken, an uncertain operation that may be sent again, a process started without its supervisor...). Each
makes its property fail. They stand beside the definitions they alter, marked as mutants.

## 4. The properties

*Delivery.* `WatermarksAgree` relates the client's file to the server's row at every moment; it is what
makes crash recovery sound. `ExactlyOnceInOrder` is refinement: `produced` and the server's ledger implement
`EventLedger`. `CleanExitMeansStopped` is about the one acknowledgement that is inferred from a close
code. `NoEventRefused`: when the runtime was running as its client started, no history makes the server see a changed
replay, a gap or an invalid transition from the session that owns the row. `Delivered` is the liveness property.

*Session.* `OneLiveGeneration`, `LedgerMatchesRow`, `WritersInOrder`, `ClosedStaysClosed` and
`CleanupSparesCurrent` (whatever late close event, revocation or stale snapshot arrives, the entry
of the session that is online stays until its own socket is gone).

*Control.* `ResumeEvidenceHolds` relates four watermarks on two machines, which `register` insists on;
`ExecutedOnce` and `OutcomesTrue` compare what the server says with what happened; `MutationsFenced` looks from the
runtime at the server's fence; `OutcomesArrive` is liveness.

*Lifecycle.* `OwnedProcess` and `OwnedServers`: whatever step the manager died at, a running process or session is named
by the durable record. `StatesAgree`: between commands the record tells the truth. `OnlyDeadRetained`: cleaning
takes only what is dead. `Settles`: reconciliation ends, unless a session contradicts the record (`Blocked`).

*Execution.* `RunningIsBound`: the shown state is never ahead of the binding and of the agent. `OutcomesStand`:
what a caller was told stays.

*Ownership.* `GrantsHold`, `ManagedIsOwned` (the mark comes last), `OneTreeEach`, `SpacesStand` and
`WorkSurvives` (a branch that a failed preparation deletes had no commit of its own).

*Queue.* `NoSecondTurn` says how far the promise of `docs/codex-sessions.md:40` holds, `QueuedEnds` that a queued
message is dispatched or known to be uncertain.

*Environment.* `FenceHolds`, `NeverTwice`, and `SparesWork`: check and admission together leave no gap, but for messages
that are taken up from the queue without admission.

## 5. What the code does differently from what it says

1. **A slow start blocks the event stream** (`v_startup`). A client whose first poll finds the dev servers
   still starting reports `running`, then `starting`; the server refuses the second for ever
   (`client.go:147`, `280`; `postgres-store.ts:325`).
2. **An uncertain operation breaks every connection** (`v_livelock`). It is re-sent on each registration, the
   server acknowledges the replayed answers by their own numbers, and the runtime drops a
   connection whose acknowledgement is below its watermark (`control_receiver.go:191`).
3. **A repeated request sends its message twice** (`v_queue`). The enqueue of the first request undoes what the
   second has done since (`codex-machine-tasks/store.ts:547`).

Seen while modelling, each described under `hazards` and not a run of its own: a reconnect during resume leaves
the row suspended (`client.go:240`); a credential issued for a superseded generation leaves none live
(`postgres-store.ts:122`); a cancel can release the capacity of an agent that is being started
(`service-mutations.ts:164`); a stop can end the turn of a message taken up from the queue
(`execution-environment-lifecycle/configured-runtime.ts:90`); a dev server that dies alone blocks `stop` and
`reconcile` for ever, since its session contradicts the record and may not be stopped otherwise
(`manager_sessions.go:115`); a crash between the generation's directory and the first save makes a retry of that
generation fail; two services may dispatch one queued row (`configured-runtime.ts:102`).

## 6. What is proved

Eight modules have proofs, which hold for every value of the constants the assumptions allow: any number of
generations, sockets, executions, requests, worktrees and processes, and no bound on counters other than its type.
A leaf cites few facts, so that it takes a fraction of the time a prover is allowed: a type invariant is proved in
halves, what an action leaves alone one action at a time, and arithmetic apart from the definitions that give its numbers.

**`RuntimeSessionProofs`.** `TypeInv` is `TypeOK` with `ScopedSockets` (a socket in use has a generation and a credential,
one that is free has no close event left). `RowInv` is about each generation separately and rests on the lemma `RowSteps`, which says what
the operators of `RuntimeRow` may do to a row; it needs `SessionsInOrder`, a strengthening that bounds every
session by the last one handed out. `ServiceInv` relates memory to rows: `SessionsBound` (no two
sockets have one session) and `PendingCloses` (what a pending revocation or stale snapshot may still name). From them follow that one generation is live, that the ledger is
the row, that writers come in order, that closed stays closed, that a cleanup spares the current socket, and
`SnapshotsDefined`. Assumed: `NoneAssumption`, `BodiesAssumption`, `BoundsAssumption`.

**`RuntimeDeliveryProofs`.** The journal in memory, the file and the row are three views of one sequence `w`:
all that was written to the file (`produced`), then what memory has not saved yet. `Chain` numbers it, `Holds` says that
a journal is its end from the watermark on, `Stored` that the ledger is its beginning. `LinkOK` is about what a
socket still carries: every event under way is one of `w` and at most the next to be stored (`Sent`), no
acknowledgement exceeds the row and a normal close means "stopped" was stored (`Told`).
`Inv == TypeOK /\ JournalInv /\ ServerInv /\ LinkInv /\ ClientInv` is inductive: without `Sent` a replay after a
reconnect could be a gap, without `Told` an old answer could empty the journal. Theorems: `DeliveryTyped`,
`FileAgreesWithRow`, `CleanExit`, `EventsArriveInOrder`, and `DeliveryIsLedger`, the refinement: `StepShape` says that a
step writes, or stores the next event, or does neither, and `StoredIs` that the mapped sequence is the beginning of
`produced`. `NoneRefused` adds what the events say: `Tale` tells the lifecycle states of `w` (it begins with
"running", after "stopping" nothing is awake, and only while the manager is stopping), `Report`
relates the row's state to the last one stored,
and `MayFollow` concludes that the next is a transition the server allows. It assumes `InitialState = "running"`,
which is what `v_startup` shows to be necessary, and no bound on faults. Assumed of all:
`ConnsAssumption`, `BoundsAssumption`, `InitialStateAssumption`.

**`TaskExecutionProofs`.** The requests work on copies read earlier, so the invariant must say what a copy is worth:
`Ground` states, label by label, what a request may rely on there. With it
`Inv == TypeOK /\ RunningIsBound /\ BoundWorks /\ Informed /\ ReconBound /\ OutcomesStand` is inductive. Theorems: `ExecutionTyped`,
`NeverAheadOfTheAgent`, `CompletedStands`. Assumed: `OpsAssumption`, `NoneAssumption`, `BoundAssumption`.

**`WorktreeOwnershipProofs`.** A command writes several keys under the lock, and may die after each.
`Sound(p)` states what a command that holds the lock may rely on at its step;
`IInv == TypeOK /\ GrantsHold /\ ManagedIsOwned /\ OneTreeEach /\ Placed /\ Resting /\ AllSound` is inductive, where `Placed` says
that a tree that is gone has no keys and one away from its branch is loose, and `Resting` that an idle process holds nothing.
`Kept` says that a command that is writing finds the workspace ID it is going to write, or none, from which `SpacesImmutable` follows. Theorems: `OwnershipTyped`, `GrantsStand`, `MarkComesLast`,
`OneTreePerThread`, and of steps `SpacesImmutable` and `WorkStands`. Assumed: `UnsetAssumption`.

**`EnvironmentLifecycleProofs`.** `Inv == TypeOK /\ Shaped /\ FenceHolds /\ LookedUp /\ Counted /\ Sparing`: `LookedUp` says what a handler's
lookup is still worth when it acts, `Counted` relates effects to rows, `Sparing` is the gap between the check for work
and the admission of work. Theorems: `LifecycleTyped`, `OneAtATime`, `AtMostOnce`, `AdmittedSpared`. Assumed:
`OperationsAssumption`, `TroublesAssumption`.

**`RuntimeControlProofs`.** All five invariants, for any journal limit, so also when the log has dropped entries.
What a response on a wire, an entry of either journal and a terminal row say of an operation is one predicate, `Says`: an
outcome means that the operation is over, a result of a mutation that it had its effect, a refusal that it had none, that no intent is
journaled and that the number is spent in the file. `Kept` lists what no step takes back (numbers, effects, commands in the file,
and that an operation with no intent gains nothing); `SaysKept` concludes that what was once true to say stays true, for
responses of old sockets too. `Inv == TypeOK /\ RowsInv /\ CallsInv /\ WiresInv /\ JournalsInv /\ BusyInv /\ HistoryInv` is inductive:
`BusyInv` needs memory to equal the file while a command is executed, `WiresInv` that a response under way is in the file and
a command under way has its row's number, `HistoryInv` that what was executed has a number the file knows, which is why a
crash cannot make it new. A further theorem, `OutcomesStayFinal`, says of steps that a
recorded outcome is never changed, so that a request that gives up while its answer came on the replaced socket reopens
nothing: `StatesSettled` goes through every action that writes a row, and with `OutcomesTrue` before and after the step the
machine has to stand too. Theorems: `ControlTyped`, `ResumeEvidence`,
`NeverTwiceExecuted`, `OutcomesAreTrue`, `OutcomesStayFinal`, `FenceKeepsApart`.
Assumed: `OpsAssumption`, `SessionsAssumption`, `LimitsAssumption`.

**`QueuedSendsProofs`.** `IInv == Typed /\ Placed /\ DirectOnce /\ OneId` is inductive in every history: a message that its
request sends has one dispatch identifier (`OneId`), and each new host counts one turn at most, which is `DirectSendsOnce`. A
queued message gets a new identifier with each attempt, so its invariant `QueueCalm` is about who may still make one: while nothing
was lost and nobody died (`Calm`), earlier attempts are answered or will not be sent again (`Attempted`), a request that found
the thread busy is alone (`Held`), and a row that was answered and could be queued again is held by a loop that is going to complete it
(`LoopHolds`). `LoopCalm` says when a loop may queue its message again: it was told that the thread is busy, the host has
begun no turn under its identifier, and no request is on its way that could still begin one.
Theorems: `SendsTyped`, `DirectSendsOnce`, `QueuedSendsOnce`. Assumed: `BoundsAssumption`, `NamesAssumption`, and for `QueuedSendsOnce`
`OneService`: one service dispatches. The server runs two, and with both of them a row may be claimed twice without any fault
(the hazard at `configured-runtime.ts:102`); the theorem says that nothing else is needed.

**`WorkspaceLifecycleProofs`.** All five invariants, for any generations and any manifest. The
record is true to the machine not only between commands but at every step of each: `Truthful(r, p, s)` says of a record `r`, the process
groups `p` and the sessions `s` that what runs has its generation and handle in `r` (`Holds`), that every session is named by its ledger
or intent (`Covers`), and that its state claims nothing false (`Claims`).
`Inv == Machine /\ OnlyDeadRetained /\ Truthful(disk) /\ Truthful(mem) /\ (Idle \/ Working)` is inductive. The saved record must be
true because the manager may die now, the copy because it is saved next; `Working` says, for each operation and step, how far
the copy may be ahead of the file, whether an intent is saved (`Intended`), and what the operation has seen of the process
group and may still rely on although that may die meanwhile (`Seen`: a step between the check of a group and its
kill or its freezing). A crash in the middle of a session's transition is covered since the intent is then
saved (`InterruptedFacts`). The ledger's filter is a recursive function; what it keeps is shown by induction on the length
(`SetInduction`, `OnlyKeeps`). Theorems: `ManagerTyped`, `CommandsOwned`, `SessionsOwned`, `RecordsAgree`,
`RetainedDead`. Assumed: `ExpectedAssumption`, `LimitsAssumption`.

**Only model-checked.** All liveness (`Delivered`, `OutcomesArrive`, `Settles`, `QueuedEnds`), for good: the prover
treats neither fairness nor `ENABLED`. Every invariant and every action property that a passing run checks is a theorem, and so is
the refinement.

## 7. Not modelled

- *Launch*, *task delivery*, *machine power*, *project-hostd*: operation ledgers and a socket gateway of the
  same shape as those modelled, with fewer states. Launch is a sequence over `issue` and `revoke`, which
  `RuntimeSession` takes in any order.
- *Codex sessions*: event streams, approvals and steering follow the Codex App Server protocol, whose server is
  not in the repository.
- *Provisioning* of an environment, and the expiry of execution rows after thirty days.
- User interfaces, GitHub and chat clients, catalogs, inventories, SSH gateway, readiness, CLI helpers: requests
  and responses, parsing and I/O, without concurrent state of their own. They are most of the repository's lines.
- Schema, packaging, deployment and scripts. The constraints the modelled tables rely on (unique indexes that
  fence, allowed states) are part of the models.
- Values: payloads, fingerprints, signatures, sizes, clocks. The limits on sizes (256 journal events, 32
  commands, 256 KiB) are listed as hazards.
