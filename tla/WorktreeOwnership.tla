------------------------- MODULE WorktreeOwnership -------------------------
(* Ownership of the linked worktrees of one repository, internal/worktreeownership.  A   *)
(* worktree's owner, workspace ID, task and managed mark are four keys of its own git    *)
(* configuration.  Project CLI processes write them one `git config` at a time, under    *)
(* one file lock; people, agents and git itself change the files, the commits and the    *)
(* checked out branch without that lock, and any process may die between two writes.     *)

CONSTANTS Trees,    \* standard worktree paths, each with the branch of its name
          Threads,  \* Codex threads
          Spaces,   \* workspace IDs, issued by the server or drawn at random
          Procs     \* CLI processes that run at the same time

ASSUME UnsetAssumption == "" \notin Threads \cup Spaces \cup Procs

VARIABLES at,       \* at[w]: is there a worktree, on its branch or away on another one
          branch,   \* the trees whose branch exists
          head,     \* head[w]: what the branch points to
          dirty,    \* the trees with uncommitted changes
          conf,     \* conf[w][k]: the worktree's configuration
          lock,     \* the process that holds the ownership lock, or none
          proc,     \* proc[p]: the command that runs
          granted,  \* granted[w]: what callers were told and nobody has taken over
          loose     \* the trees that an exact claim assigned or that left their branch

vars == <<at, branch, head, dirty, conf, lock, proc, granted, loose>>
work == <<at, branch, head, dirty>>

Keys == {"task", "space", "owner", "managed"}
Unset == [k \in Keys |-> ""]
Idle == [kind |-> "idle", on |-> "", step |-> "", want |-> Unset]
Labels == Keys \cup {"", "done", "inspect", "remove", "unbranch"}

Owned(t) == {w \in Trees : at[w] = "linked" /\ conf[w]["owner"] = t}
Managed(w) == conf[w]["managed"] = "true"

\* ensureUnownedWorktreeClaimable
Claimable(w) == w \notin dirty /\ head[w] \in {"base", "remote"}

\* The order in which a command writes the keys; a key it leaves alone keeps its value.
AfterOwner(kind, k) ==
  CASE k = "task" -> "space" [] k = "space" -> "managed" [] k = "managed" -> "owner" [] OTHER -> "done"
AfterLost(kind, k) == IF k = "task" THEN "owner" ELSE IF k = "owner" THEN "manage" ELSE "done"
After(kind, k) ==
  CASE kind = "ready" /\ k = "space" -> "task"
    [] kind = "ready" /\ k = "task" -> "managed"
    [] kind # "ready" /\ k = "task" -> "space"
    [] kind # "ready" /\ k = "space" -> "owner"
    [] kind = "recover" /\ k = "owner" -> "done"
    [] kind # "recover" /\ k = "owner" -> "managed"
    [] OTHER -> "done"

Wanting(task, space, owner) ==
  [k \in Keys |-> CASE k = "task" -> task [] k = "space" -> space
                    [] k = "owner" -> owner [] OTHER -> "true"]
TaskOr(w, name) == IF conf[w]["task"] = "" THEN name ELSE conf[w]["task"]
Drawn == {s \in Spaces : \A w \in Trees : conf[w]["space"] # s}

Begin(p, kind, w, step, want) ==
  /\ lock' = p
  /\ proc' = [proc EXCEPT ![p] = [kind |-> kind, on |-> w, step |-> step, want |-> want]]
  /\ UNCHANGED <<conf, granted>>
FreeUnlocked(p) == proc[p] = Idle
Free(p) == lock = "" /\ proc[p] = Idle
End(p) == lock' = "" /\ proc' = [proc EXCEPT ![p] = Idle]
Tell(w, t, s) == granted' = [granted EXCEPT ![w] = @ \cup {[thread |-> t, space |-> s]}]

-------------------------------------------------------------------------------
\* Commands.  A command that is refused changes nothing and is left out.

Init ==
  /\ at = [w \in Trees |-> "absent"] /\ branch = {} /\ dirty = {} /\ loose = {}
  /\ head = [w \in Trees |-> "base"] /\ conf = [w \in Trees |-> Unset]
  /\ lock = "" /\ proc = [p \in Procs |-> Idle] /\ granted = [w \in Trees |-> {}]

\* Claim, of an existing worktree from inside it.
MayClaimForeign(t, w) ==
  /\ at[w] = "linked" /\ Owned(t) \subseteq {w} /\ (~Managed(w) => Claimable(w))
MayClaim(t, w) ==
  /\ at[w] = "linked" /\ Owned(t) \subseteq {w} /\ conf[w]["owner"] \in {"", t}
  /\ conf[w]["owner"] = "" => Claimable(w)
Claim(p, t, w) ==
  /\ Free(p) /\ MayClaim(t, w)
  /\ ~(conf[w]["owner"] = t /\ Managed(w))
  /\ Begin(p, "claim", w, "task", Wanting(TaskOr(w, "branch"), conf[w]["space"], t))
  /\ UNCHANGED <<work, loose>>

\* ClaimExact, for the worktree the server has materialised: the identities are the
\* server's, and what is recorded already must agree with them.
AgreesOnOwner(w, t, s) == conf[w]["owner"] \in {"", t}
Agrees(w, t, s) ==
  /\ conf[w]["owner"] \in {"", t} /\ conf[w]["space"] \in {"", s}
  /\ conf[w]["task"] \in {"", "named"}
  /\ Managed(w) => conf[w]["owner"] # "" /\ conf[w]["space"] # ""
ClaimExact(p, t, w, s) ==
  /\ Free(p) /\ at[w] = "linked" /\ Agrees(w, t, s) /\ ~Managed(w) /\ Claimable(w)
  /\ Begin(p, "exact", w, "task", Wanting("named", s, t))
  /\ loose' = loose \cup {w} /\ UNCHANGED work

\* Prepare, when the thread has a worktree: what a dead process left out is completed.
PrepareOwned(p, t, w, s) ==
  /\ Free(p) /\ Owned(t) = {w}
  /\ s \in IF conf[w]["space"] = "" THEN Drawn ELSE {conf[w]["space"]}
  /\ Begin(p, "ready", w, "space", Wanting(TaskOr(w, "branch"), s, t))
  /\ UNCHANGED <<work, loose>>

\* Prepare, when it has none: a new branch and worktree from the default branch.
PrepareNew(p, t, w, s) ==
  /\ Free(p) /\ Owned(t) = {} /\ at[w] = "absent" /\ w \notin branch /\ s \in Drawn
  /\ at' = [at EXCEPT ![w] = "linked"] /\ branch' = branch \cup {w}
  /\ head' = [head EXCEPT ![w] = "base"]
  /\ Begin(p, "create", w, "task", Wanting("named", s, t))
  /\ UNCHANGED <<dirty, loose>>

\* Recover: the caller names the owner it replaces.
MayRecover(from, to, w) ==
  /\ at[w] = "linked" /\ Managed(w) /\ conf[w]["owner"] = from /\ from # to
  /\ Owned(to) \subseteq {w} /\ Claimable(w)
Recover(p, from, to, w) ==
  /\ Free(p) /\ MayRecover(from, to, w)
  /\ Begin(p, "recover", w, "owner", [conf[w] EXCEPT !["owner"] = to])
  /\ UNCHANGED <<work, loose>>

\* Check, and the claims and preparations that find everything in place.
Check(p, t, w) ==
  /\ Free(p) /\ at[w] = "linked" /\ Managed(w) /\ conf[w]["owner"] = t
  /\ \/ Owned(t) = {w} /\ Tell(w, t, conf[w]["space"])
     \/ \E s \in Spaces : Agrees(w, t, s) /\ conf[w]["space"] = s /\ Tell(w, t, s)
  /\ UNCHANGED <<work, conf, lock, proc, loose>>

\* One `git config --worktree`.  Replacing the owner is the takeover its caller asked for.
Write(p) ==
  LET w == proc[p].on
      k == proc[p].step
  IN /\ k \in Keys
     /\ conf' = [conf EXCEPT ![w][k] = proc[p].want[k]]
     /\ proc' = [proc EXCEPT ![p].step = After(proc[p].kind, k)]
     /\ granted' = IF proc[p].kind = "recover" THEN [granted EXCEPT ![w] = {}] ELSE granted
     /\ UNCHANGED <<work, lock, loose>>

\* The answer; Claim and Recover read the configuration again before it.
Answer(p) ==
  LET w == proc[p].on IN
  /\ proc[p].step = "done" /\ End(p)
  /\ IF proc[p].kind \notin {"claim", "recover"}
     THEN Tell(w, proc[p].want["owner"], proc[p].want["space"])
     ELSE IF conf[w]["owner"] = proc[p].want["owner"] /\ Managed(w)
     THEN Tell(w, proc[p].want["owner"], "")
     ELSE UNCHANGED granted
  /\ UNCHANGED <<work, conf, loose>>

\* A git command fails.  A worktree that Prepare has created is cleaned up.
Fail(p) ==
  /\ proc[p].step \in Keys
  /\ IF proc[p].kind = "create"
     THEN proc' = [proc EXCEPT ![p].step = "inspect"] /\ UNCHANGED lock
     ELSE End(p)
  /\ UNCHANGED <<work, conf, granted, loose>>

\* cleanupCreatedWorktree: only what nobody has used is removed.
Unused(p, w) ==
  /\ at[w] = "linked" /\ w \notin dirty /\ head[w] = "base"
  /\ conf[w]["owner"] \in {"", proc[p].want["owner"]} /\ ~Managed(w)
Inspect(p) ==
  /\ proc[p].step = "inspect"
  /\ IF Unused(p, proc[p].on)
     THEN proc' = [proc EXCEPT ![p].step = "remove"] /\ UNCHANGED lock
     ELSE End(p)
  /\ UNCHANGED <<work, conf, granted, loose>>

Unlink(w) == at' = [at EXCEPT ![w] = "absent"] /\ conf' = [conf EXCEPT ![w] = Unset]
\* `git worktree remove` refuses a worktree with changes.
Remove(p) ==
  LET w == proc[p].on IN
  /\ proc[p].step = "remove"
  /\ IF at[w] # "absent" /\ w \notin dirty
     THEN /\ Unlink(w) /\ loose' = loose \ {w}
          /\ proc' = [proc EXCEPT ![p].step = "unbranch"] /\ UNCHANGED lock
     ELSE End(p) /\ UNCHANGED <<at, conf, loose>>
  /\ UNCHANGED <<branch, head, dirty, granted>>

\* `git update-ref -d` names the commit the branch had.
AnyCommit(w) == TRUE
SameCommit(w) == head[w] = "base"
Unbranch(p) ==
  LET w == proc[p].on IN
  /\ proc[p].step = "unbranch" /\ End(p)
  /\ branch' = IF w \in branch /\ at[w] = "absent" /\ SameCommit(w) THEN branch \ {w} ELSE branch
  /\ UNCHANGED <<at, head, dirty, conf, granted, loose>>

\* The process dies; the system drops its lock.
Die(p) == proc[p] # Idle /\ End(p) /\ UNCHANGED <<work, conf, granted, loose>>

-------------------------------------------------------------------------------
\* What happens without the lock.

\* Somebody adds a worktree for a branch, or removes one that has no changes and that no
\* command is working on.
AddTree(w) ==
  /\ at[w] = "absent" /\ at' = [at EXCEPT ![w] = "linked"] /\ branch' = branch \cup {w}
  /\ head' = [head EXCEPT ![w] = IF w \in branch THEN @ ELSE "base"]
  /\ UNCHANGED <<dirty, conf, lock, proc, granted, loose>>
RemoveTree(w) ==
  /\ at[w] = "linked" /\ w \notin dirty /\ (\A p \in Procs : proc[p].on # w) /\ Unlink(w)
  /\ granted' = [granted EXCEPT ![w] = {}] /\ loose' = loose \ {w}
  /\ UNCHANGED <<branch, head, dirty, lock, proc>>
\* Another branch is checked out, and later the worktree's own again.
Leave(w) ==
  /\ at[w] = "linked" /\ at' = [at EXCEPT ![w] = "away"] /\ loose' = loose \cup {w}
  /\ UNCHANGED <<branch, head, dirty, conf, lock, proc, granted>>
Return(w) ==
  /\ at[w] = "away" /\ at' = [at EXCEPT ![w] = "linked"]
  /\ UNCHANGED <<branch, head, dirty, conf, lock, proc, granted, loose>>
Edit(w) ==
  /\ at[w] = "linked" /\ dirty' = dirty \cup {w}
  /\ UNCHANGED <<at, branch, head, conf, lock, proc, granted, loose>>
Commit(w) ==
  /\ at[w] = "linked" /\ w \in dirty /\ dirty' = dirty \ {w}
  /\ head' = [head EXCEPT ![w] = "local"]
  /\ UNCHANGED <<at, branch, conf, lock, proc, granted, loose>>
Push(w) ==
  /\ w \in branch /\ head[w] = "local" /\ head' = [head EXCEPT ![w] = "remote"]
  /\ UNCHANGED <<at, branch, dirty, conf, lock, proc, granted, loose>>

Command(p) ==
  \/ \E w \in Trees, t \in Threads :
       \/ Claim(p, t, w) \/ Check(p, t, w) \/ (\E from \in Threads : Recover(p, from, t, w))
       \/ \E s \in Spaces : ClaimExact(p, t, w, s) \/ PrepareOwned(p, t, w, s) \/ PrepareNew(p, t, w, s)
  \/ Write(p) \/ Answer(p) \/ Fail(p) \/ Inspect(p) \/ Remove(p) \/ Unbranch(p) \/ Die(p)
World(w) ==
  \/ AddTree(w) \/ RemoveTree(w) \/ Leave(w) \/ Return(w)
  \/ Edit(w) \/ Commit(w) \/ Push(w)

Next == (\E p \in Procs : Command(p)) \/ (\E w \in Trees : World(w))
Spec == Init /\ [][Next]_vars

-------------------------------------------------------------------------------
\* Properties.

Configs == {c \in [Keys -> {"", "branch", "named", "true"} \cup Spaces \cup Threads] :
              /\ c["task"] \in {"", "branch", "named"} /\ c["space"] \in {""} \cup Spaces
              /\ c["owner"] \in {""} \cup Threads /\ c["managed"] \in {"", "true"}}
TypeOK ==
  /\ at \in [Trees -> {"absent", "linked", "away"}] /\ branch \subseteq Trees
  /\ head \in [Trees -> {"base", "local", "remote"}]
  /\ dirty \subseteq Trees /\ loose \subseteq Trees
  /\ conf \in [Trees -> Configs] /\ lock \in {""} \cup Procs
  /\ proc \in [Procs -> [kind : {"idle", "claim", "exact", "ready", "create", "recover"},
                         on : {""} \cup Trees, step : Labels, want : Configs]]
  /\ granted \in [Trees -> SUBSET [thread : Threads, space : {""} \cup Spaces]]

\* What a caller was told stays true: a thread that was told that it owns a managed
\* worktree, and under which workspace ID, does so until that worktree is removed or a
\* recovery that names it takes it over, whoever claims, prepares, fails or dies meanwhile.
GrantsHold ==
  \A w \in Trees : \A g \in granted[w] :
    /\ at[w] # "absent" /\ Managed(w) /\ conf[w]["owner"] = g.thread
    /\ g.space # "" => conf[w]["space"] = g.space

\* The managed mark is written last: a worktree that carries it has an owner and a task,
\* also when the process that claimed it died between two writes and another finished.
ManagedIsOwned ==
  \A w \in Trees : Managed(w) => conf[w]["owner"] # "" /\ conf[w]["task"] # ""

\* However claims, preparations and recoveries interleave, no thread gets two worktrees,
\* exact claims and worktrees that were away on another branch left aside.
OneTreeEach ==
  \A v, w \in Trees \ loose :
    conf[v]["owner"] # "" /\ conf[v]["owner"] = conf[w]["owner"] => v = w

\* A workspace ID is immutable: once recorded it stays until the worktree is removed.
SpacesStand ==
  [][\A w \in Trees : conf[w]["space"] # "" /\ at'[w] # "absent"
       => conf'[w]["space"] = conf[w]["space"]]_vars

\* A failed preparation loses nobody's work: a branch that goes away never had a commit
\* of its own, whatever was done in the worktree while it was being cleaned up.
WorkSurvives ==
  [][\A w \in branch \ branch' : head[w] \notin {"local", "remote"}]_vars
===============================================================================
