---------------------- MODULE WorktreeOwnershipProofs ----------------------
(* Proofs about worktree ownership, for any number of worktrees, threads, workspace IDs *)
(* and processes: what callers were told stays true, the managed mark comes last, no    *)
(* thread is given two worktrees, and neither workspace IDs nor commits are lost.       *)
EXTENDS WorktreeOwnership, TLAPS

-------------------------------------------------------------------------------
\* The inductive invariant.

\* The keys that a command has settled when it is about to write `step'.
Written(kind, step) ==
  IF step = "done" THEN Keys
  ELSE IF kind = "recover" THEN Keys \ {"owner"}
  ELSE IF kind = "ready"
    THEN {"owner"} \cup (IF step = "space" THEN {} ELSE {"space"})
           \cup (IF step = "managed" THEN {"task"} ELSE {})
    ELSE (IF step = "task" THEN {} ELSE {"task"})
           \cup (IF step \in {"task", "space"} THEN {} ELSE {"space"})
           \cup (IF step = "managed" THEN {"owner"} ELSE {})
Steps(kind) ==
  IF kind = "recover" THEN {"owner", "done"}
  ELSE IF kind = "ready" THEN {"space", "task", "managed", "done"}
  ELSE IF kind = "create" THEN Keys \cup {"done", "inspect", "remove", "unbranch"}
  ELSE Keys \cup {"done"}
New == {"claim", "exact", "create"}

\* A running command holds the lock, works on a worktree that is there, has settled
\* what it has written, and gives its worktree to a thread that has no other.
Sound(p) ==
  LET c == proc[p]
      w == c.on
  IN c.kind # "idle" =>
       /\ lock = p /\ w \in Trees /\ c.step \in Steps(c.kind)
       /\ c.want["owner"] \in Threads /\ c.want["task"] # "" /\ c.want["managed"] = "true"
       /\ c.step # "unbranch" => at[w] # "absent"
       /\ c.step \in Keys \cup {"done"} =>
            \A k \in Written(c.kind, c.step) : conf[w][k] = c.want[k]
       /\ c.kind \in New \/ (c.kind = "recover" /\ c.step = "done") => granted[w] = {}
       /\ c.kind = "ready" => conf[w]["space"] \in {"", c.want["space"]}
       /\ c.kind = "exact" => w \in loose
       /\ c.kind # "exact" =>
            \A v \in Trees \ loose : conf[v]["owner"] = c.want["owner"] => v = w
AllSound == \A p \in Procs : Sound(p)

\* A worktree that is not there has no configuration; one that is away is set aside.
Placed == \A w \in Trees : /\ at[w] = "absent" => conf[w] = Unset
                           /\ at[w] = "away" => w \in loose
Resting == \A p \in Procs : proc[p].kind = "idle" => proc[p] = Idle
IInv ==
  TypeOK /\ GrantsHold /\ ManagedIsOwned /\ OneTreeEach /\ Placed /\ Resting /\ AllSound

-------------------------------------------------------------------------------
\* Lemmas.

LEMMA UnsetFacts ==
  /\ Unset \in Configs /\ Unset["task"] = "" /\ Unset["space"] = ""
  /\ Unset["owner"] = "" /\ Unset["managed"] = ""
  /\ Idle.kind = "idle" /\ Idle.on = "" /\ Idle.step = "" /\ Idle.want = Unset
<1>1. /\ Unset["task"] = "" /\ Unset["space"] = "" /\ Unset["owner"] = ""
      /\ Unset["managed"] = "" /\ \A k \in Keys : Unset[k] = ""
  BY DEF Unset, Keys
<1>2. Unset \in [Keys -> {"", "branch", "named", "true"} \cup Spaces \cup Threads]
  BY DEF Unset
<1>3. Unset \in Configs BY <1>1, <1>2 DEF Configs
<1>4. Idle.kind = "idle" /\ Idle.on = "" /\ Idle.step = "" /\ Idle.want = Unset
  BY DEF Idle
<1> QED BY <1>1, <1>3, <1>4

LEMMA Alone ==
  ASSUME IInv, NEW p \in Procs, NEW q \in Procs, q # p,
         lock = "" \/ proc[p].kind # "idle"
  PROVE  proc[q].kind = "idle"
<1>1. \A r \in Procs : proc[r].kind # "idle" => lock = r
  BY DEF IInv, AllSound, Sound
<1> QED BY <1>1, UnsetAssumption

\* Only configurations of the right type are wanted.
Wants(c, s, t) ==
  /\ c \in Configs /\ c["task"] # "" /\ c["space"] = s /\ c["owner"] = t /\ c["managed"] = "true"
LEMMA WantedType ==
  ASSUME NEW n \in {"branch", "named"}, NEW s \in {""} \cup Spaces, NEW t \in Threads
  PROVE  Wants(Wanting(n, s, t), s, t)
<1> DEFINE c == Wanting(n, s, t)
<1>1. c["task"] = n /\ c["space"] = s /\ c["owner"] = t /\ c["managed"] = "true"
  BY DEF Wanting, Keys
<1>2. c \in [Keys -> {"", "branch", "named", "true"} \cup Spaces \cup Threads]
  BY DEF Wanting, Keys
<1> HIDE DEF c
<1>3. c \in Configs BY <1>1, <1>2 DEF Configs
<1>4. Wants(c, s, t) BY <1>1, <1>3 DEF Wants
<1> QED BY <1>4 DEF c

\* A command begins: nobody else runs, and nothing but its record and the places of
\* worktrees changes.
Opens(p, kind, w, step, want) ==
  /\ Free(p) /\ Begin(p, kind, w, step, want) /\ step \in Steps(kind) \cap Keys
  /\ want \in Configs /\ want["owner"] \in Threads /\ want["task"] # ""
  /\ want["managed"] = "true" /\ \A k \in Written(kind, step) : conf[w][k] = want[k]
  /\ kind \in New => granted[w] = {}
  /\ kind = "ready" => conf[w]["space"] \in {"", want["space"]}
  /\ kind = "exact" => w \in loose'
  /\ kind # "exact" => \A v \in Trees \ loose : conf[v]["owner"] = want["owner"] => v = w
Moves(w) ==
  /\ UNCHANGED dirty /\ branch' \subseteq Trees /\ head' \in [Trees -> {"base", "local", "remote"}]
  /\ at' = at \/ at' = [at EXCEPT ![w] = "linked"]
  /\ at'[w] = "linked" /\ loose \subseteq loose' /\ loose' \subseteq Trees
LEMMA BeginKeeps ==
  ASSUME IInv, NEW p \in Procs, NEW w \in Trees, NEW step, NEW want,
         NEW kind \in {"claim", "exact", "ready", "create", "recover"},
         Opens(p, kind, w, step, want), Moves(w)
  PROVE  IInv'
<1> DEFINE c == [kind |-> kind, on |-> w, step |-> step, want |-> want]
<1>1. /\ lock' = p /\ proc' = [proc EXCEPT ![p] = c] /\ conf' = conf /\ granted' = granted
      /\ proc[p] = Idle /\ lock = "" /\ step \in Steps(kind) \cap Keys
  BY DEF Begin, Opens, Free
<1>2. c.kind = kind /\ c.on = w /\ c.step = step /\ c.want = want
  OBVIOUS
<1>3. c \in [kind : {"idle", "claim", "exact", "ready", "create", "recover"},
             on : {""} \cup Trees, step : Labels, want : Configs]
  BY DEF Labels, Opens
<1> HIDE DEF c
<1>a. at' \in [Trees -> {"absent", "linked", "away"}] /\ loose \subseteq loose'
      /\ \A v \in Trees : at'[v] = at[v] \/ at'[v] = "linked"
  <2>1. /\ at' = at \/ at' = [at EXCEPT ![w] = "linked"]
        /\ loose \subseteq loose'
    BY DEF Moves
  <2>2. at \in [Trees -> {"absent", "linked", "away"}] BY DEF IInv, TypeOK
  <2> QED BY ONLY w \in Trees, <2>1, <2>2
<1>4. TypeOK' BY <1>1, <1>3, <1>a DEF IInv, TypeOK, Moves
<1>5. GrantsHold' BY <1>1, <1>a DEF IInv, GrantsHold, Managed
<1>6. ManagedIsOwned' BY <1>1 DEF IInv, ManagedIsOwned, Managed
<1>7. OneTreeEach' BY <1>1, <1>a DEF IInv, OneTreeEach
<1>8. Placed' BY <1>1, <1>a DEF IInv, Placed
<1>9. proc'[p] = c /\ \A q \in Procs : q # p => proc'[q] = proc[q] /\ proc[q].kind = "idle"
  <2>1. proc'[p] = c /\ \A q \in Procs : q # p => proc'[q] = proc[q]
    BY <1>1 DEF IInv, TypeOK
  <2> QED BY <1>1, <2>1, Alone
<1>10. Sound(p)'
  <2>1. /\ want["owner"] \in Threads /\ want["task"] # "" /\ want["managed"] = "true"
        /\ \A k \in Written(kind, step) : conf'[w][k] = want[k]
        /\ kind \in New \/ (kind = "recover" /\ step = "done") => granted'[w] = {}
        /\ kind = "ready" => conf'[w]["space"] \in {"", want["space"]}
        /\ kind = "exact" => w \in loose'
        /\ kind # "exact" =>
             \A v \in Trees \ loose' : conf'[v]["owner"] = want["owner"] => v = w
    BY <1>1, <1>a DEF Opens, Keys
  <2>2. at'[w] # "absent" BY DEF Moves
  <2>3. lock' = p /\ w \in Trees /\ step \in Steps(kind) BY <1>1
  <2>4. proc'[p] = c BY <1>9
  <2> QED BY <1>2, <2>1, <2>2, <2>3, <2>4 DEF Sound
<1>11. AllSound'
  <2> SUFFICES ASSUME NEW q \in Procs PROVE Sound(q)'
    BY DEF AllSound
  <2>1. CASE q = p BY <2>1, <1>10
  <2>2. CASE q # p BY <2>2, <1>9 DEF Sound
  <2> QED BY <2>1, <2>2
<1>12. Resting' BY <1>2, <1>9 DEF IInv, Resting
<1> QED BY <1>4, <1>5, <1>6, <1>7, <1>8, <1>11, <1>12 DEF IInv

\* A thread that owns at most the worktree w has no other.
LEMMA NoOther ==
  ASSUME IInv, NEW t \in Threads, NEW w, Owned(t) \subseteq {w}
  PROVE  \A v \in Trees \ loose : conf[v]["owner"] = t => v = w
<1> SUFFICES ASSUME NEW v \in Trees \ loose, conf[v]["owner"] = t PROVE v = w
  OBVIOUS
<1>1. at[v] # "absent" BY UnsetFacts, UnsetAssumption DEF IInv, Placed, Keys
<1>2. at[v] = "linked" BY <1>1 DEF IInv, Placed, TypeOK
<1> QED BY <1>2 DEF Owned

\* An unmanaged worktree has been granted to nobody.
LEMMA Ungranted ==
  ASSUME IInv, NEW w \in Trees, ~Managed(w)
  PROVE  granted[w] = {}
BY DEF IInv, GrantsHold

-------------------------------------------------------------------------------
\* Commands.

LEMMA ClaimKeeps ==
  ASSUME IInv, NEW p \in Procs, NEW t \in Threads, NEW w \in Trees, Claim(p, t, w)
  PROVE  IInv'
<1> DEFINE want == Wanting(TaskOr(w, "branch"), conf[w]["space"], t)
<1>1. /\ Free(p) /\ at[w] = "linked" /\ Owned(t) \subseteq {w} /\ conf[w]["owner"] \in {"", t}
      /\ ~(conf[w]["owner"] = t /\ Managed(w)) /\ Begin(p, "claim", w, "task", want)
      /\ UNCHANGED <<at, branch, head, dirty, loose>>
  BY DEF Claim, MayClaim, work
<1>2. ~Managed(w) BY <1>1 DEF IInv, ManagedIsOwned
<1>3. conf[w] \in Configs BY DEF IInv, TypeOK
<1>4. TaskOr(w, "branch") \in {"branch", "named"} /\ conf[w]["space"] \in {""} \cup Spaces
  BY <1>3 DEF Configs, TaskOr
<1>0. Wants(want, conf[w]["space"], t) BY <1>4, WantedType
<1>5. want \in Configs /\ want["owner"] = t /\ want["task"] # "" /\ want["managed"] = "true"
  BY <1>0 DEF Wants
<1> HIDE DEF want
<1>6. "task" \in Steps("claim") \cap Keys /\ Written("claim", "task") = {}
  BY DEF Steps, Keys, Written
<1>7. Opens(p, "claim", w, "task", want)
  BY <1>1, <1>2, <1>5, <1>6, Ungranted, NoOther DEF Opens
<1>8. Moves(w) BY <1>1 DEF Moves, IInv, TypeOK
<1> QED BY <1>7, <1>8, BeginKeeps

LEMMA ClaimExactKeeps ==
  ASSUME IInv, NEW p \in Procs, NEW t \in Threads, NEW w \in Trees, NEW s \in Spaces,
         ClaimExact(p, t, w, s)
  PROVE  IInv'
<1> DEFINE want == Wanting("named", s, t)
<1>1. /\ Free(p) /\ at[w] = "linked" /\ ~Managed(w) /\ Begin(p, "exact", w, "task", want)
      /\ loose' = loose \cup {w} /\ UNCHANGED <<at, branch, head, dirty>>
  BY DEF ClaimExact, work
<1>0. Wants(want, s, t) BY WantedType
<1>2. want \in Configs /\ want["owner"] = t /\ want["task"] # "" /\ want["managed"] = "true"
  BY <1>0 DEF Wants
<1> HIDE DEF want
<1>3. "task" \in Steps("exact") \cap Keys /\ Written("exact", "task") = {}
  BY DEF Steps, Keys, Written
<1>4. Opens(p, "exact", w, "task", want)
  BY <1>1, <1>2, <1>3, Ungranted DEF Opens
<1>5. Moves(w) BY <1>1 DEF Moves, IInv, TypeOK
<1> QED BY <1>4, <1>5, BeginKeeps

LEMMA PrepareOwnedKeeps ==
  ASSUME IInv, NEW p \in Procs, NEW t \in Threads, NEW w \in Trees, NEW s \in Spaces,
         PrepareOwned(p, t, w, s)
  PROVE  IInv'
<1> DEFINE want == Wanting(TaskOr(w, "branch"), s, t)
<1>1. /\ Free(p) /\ Owned(t) = {w} /\ Begin(p, "ready", w, "space", want)
      /\ conf[w]["space"] \in {"", s} /\ UNCHANGED <<at, branch, head, dirty, loose>>
  BY DEF PrepareOwned, work
<1>2. at[w] = "linked" /\ conf[w]["owner"] = t BY <1>1 DEF Owned
<1>3. TaskOr(w, "branch") \in {"branch", "named"}
  BY DEF IInv, TypeOK, Configs, TaskOr
<1>0. Wants(want, s, t) BY <1>3, WantedType
<1>4. /\ want \in Configs /\ want["owner"] = t /\ want["task"] # "" /\ want["managed"] = "true"
      /\ want["space"] = s
  BY <1>0 DEF Wants
<1> HIDE DEF want
<1>5. "space" \in Steps("ready") \cap Keys /\ Written("ready", "space") = {"owner"}
  BY DEF Steps, Keys, Written
<1>6. Opens(p, "ready", w, "space", want)
  BY <1>1, <1>2, <1>4, <1>5, NoOther DEF Opens, New
<1>7. Moves(w) BY <1>1, <1>2 DEF Moves, IInv, TypeOK
<1> QED BY <1>6, <1>7, BeginKeeps

LEMMA PrepareNewKeeps ==
  ASSUME IInv, NEW p \in Procs, NEW t \in Threads, NEW w \in Trees, NEW s \in Spaces,
         PrepareNew(p, t, w, s)
  PROVE  IInv'
<1> DEFINE want == Wanting("named", s, t)
<1>1. /\ Free(p) /\ Owned(t) = {} /\ at[w] = "absent" /\ Begin(p, "create", w, "task", want)
      /\ at' = [at EXCEPT ![w] = "linked"] /\ branch' = branch \cup {w}
      /\ head' = [head EXCEPT ![w] = "base"] /\ UNCHANGED <<dirty, loose>>
  BY DEF PrepareNew
<1>0. Wants(want, s, t) BY WantedType
<1>2. want \in Configs /\ want["owner"] = t /\ want["task"] # "" /\ want["managed"] = "true"
  BY <1>0 DEF Wants
<1> HIDE DEF want
<1>3. "task" \in Steps("create") \cap Keys /\ Written("create", "task") = {}
  BY DEF Steps, Keys, Written
<1>4. granted[w] = {} BY <1>1 DEF IInv, GrantsHold
<1>5. Opens(p, "create", w, "task", want)
  BY <1>1, <1>2, <1>3, <1>4, NoOther DEF Opens
<1>6. Moves(w) BY <1>1 DEF Moves, IInv, TypeOK
<1> QED BY <1>5, <1>6, BeginKeeps

LEMMA RecoverKeeps ==
  ASSUME IInv, NEW p \in Procs, NEW from \in Threads, NEW t \in Threads, NEW w \in Trees,
         Recover(p, from, t, w)
  PROVE  IInv'
<1> DEFINE want == [conf[w] EXCEPT !["owner"] = t]
<1>1. /\ Free(p) /\ at[w] = "linked" /\ Managed(w) /\ Owned(t) \subseteq {w}
      /\ Begin(p, "recover", w, "owner", want)
      /\ UNCHANGED <<at, branch, head, dirty, loose>>
  BY DEF Recover, MayRecover, work
<1>2. conf[w] \in Configs /\ conf[w]["task"] # "" /\ conf[w]["managed"] = "true"
  BY <1>1 DEF IInv, TypeOK, ManagedIsOwned, Managed
<1>3. want["owner"] = t /\ \A k \in Keys \ {"owner"} : want[k] = conf[w][k]
  BY <1>2 DEF Configs, Keys
<1>4. want \in Configs BY <1>2, <1>3 DEF Configs, Keys
<1> HIDE DEF want
<1>5. want["task"] # "" /\ want["managed"] = "true" BY <1>2, <1>3 DEF Keys
<1>6. "owner" \in Steps("recover") \cap Keys /\ Written("recover", "owner") = Keys \ {"owner"}
  BY DEF Steps, Keys, Written
<1>7. Opens(p, "recover", w, "owner", want)
  BY <1>1, <1>3, <1>4, <1>5, <1>6, NoOther DEF Opens, New
<1>8. Moves(w) BY <1>1 DEF Moves, IInv, TypeOK
<1> QED BY <1>7, <1>8, BeginKeeps

\* A process that runs holds the lock, works on a worktree and has a kind of its own.
LEMMA Running ==
  ASSUME IInv, NEW p \in Procs, proc[p].step # ""
  PROVE  /\ proc[p].kind \in {"claim", "exact", "ready", "create", "recover"}
         /\ Sound(p) /\ lock = p /\ proc[p].on \in Trees /\ proc[p].want \in Configs
         /\ proc[p].step \in Steps(proc[p].kind)
<1>1. proc[p].kind # "idle" BY UnsetFacts DEF IInv, Resting
<1>2. proc[p].kind \in {"claim", "exact", "ready", "create", "recover"} /\ proc[p].want \in Configs
  BY <1>1 DEF IInv, TypeOK
<1>3. Sound(p) BY DEF IInv, AllSound
<1>4. lock = p /\ proc[p].on \in Trees /\ proc[p].step \in Steps(proc[p].kind)
  BY <1>1, <1>3 DEF Sound
<1> QED BY <1>2, <1>3, <1>4

LEMMA Nobody ==
  ASSUME IInv, lock = ""
  PROVE  \A p \in Procs : proc[p].kind = "idle"
<1>1. \A r \in Procs : proc[r].kind # "idle" => lock = r
  BY DEF IInv, AllSound, Sound
<1> QED BY <1>1, UnsetAssumption

\* A command ends: nobody runs.
LEMMA EndKeeps ==
  ASSUME IInv, NEW p \in Procs, proc[p].kind # "idle", End(p)
  PROVE  /\ lock' = "" /\ Resting' /\ AllSound'
         /\ proc' \in [Procs -> [kind : {"idle", "claim", "exact", "ready", "create", "recover"},
                                on : {""} \cup Trees, step : Labels, want : Configs]]
<1> DEFINE C == [kind : {"idle", "claim", "exact", "ready", "create", "recover"},
                 on : {""} \cup Trees, step : Labels, want : Configs]
<1>1. Idle \in C BY UnsetFacts DEF Idle, Labels
<1>2. proc \in [Procs -> C] BY DEF IInv, TypeOK
<1> HIDE DEF C
<1>3. lock' = "" /\ proc' = [proc EXCEPT ![p] = Idle] BY DEF End
<1>4. proc'[p] = Idle /\ \A q \in Procs : q # p => proc'[q] = proc[q]
  BY <1>2, <1>3
<1>5. \A q \in Procs : proc'[q] = Idle
  BY <1>4, Alone DEF IInv, Resting
<1>6. Resting' BY <1>5 DEF Resting
<1>7. AllSound' BY <1>5, UnsetFacts DEF AllSound, Sound
<1>8. proc' \in [Procs -> C] BY <1>1, <1>2, <1>3
<1> QED BY <1>3, <1>6, <1>7, <1>8 DEF C

\* A caller is told what is true.
LEMMA TellKeeps ==
  ASSUME IInv, NEW w \in Trees, NEW t \in Threads, NEW s \in {""} \cup Spaces, Tell(w, t, s),
         UNCHANGED <<at, conf>>, at[w] # "absent", Managed(w), conf[w]["owner"] = t,
         s # "" => conf[w]["space"] = s
  PROVE  /\ GrantsHold' /\ granted' \in [Trees -> SUBSET [thread : Threads, space : {""} \cup Spaces]]
<1> DEFINE g == [thread |-> t, space |-> s]
           G == [thread : Threads, space : {""} \cup Spaces]
<1>1. g \in G /\ g.thread = t /\ g.space = s OBVIOUS
<1>2. granted \in [Trees -> SUBSET G] BY DEF IInv, TypeOK
<1>3. granted' = [granted EXCEPT ![w] = @ \cup {g}] BY DEF Tell
<1> HIDE DEF g, G
<1>4. granted' \in [Trees -> SUBSET G] BY <1>1, <1>2, <1>3
<1>5. \A v \in Trees : \A h \in granted'[v] : h \in granted[v] \/ (v = w /\ h = g)
  BY <1>2, <1>3
<1>6. GrantsHold' BY <1>1, <1>5 DEF IInv, GrantsHold, Managed
<1> QED BY <1>4, <1>6 DEF G

LEMMA CheckKeeps ==
  ASSUME IInv, NEW p \in Procs, NEW t \in Threads, NEW w \in Trees, Check(p, t, w)
  PROVE  IInv'
<1>1. /\ Free(p) /\ at[w] = "linked" /\ Managed(w) /\ conf[w]["owner"] = t
      /\ UNCHANGED <<at, branch, head, dirty, conf, lock, proc, loose>>
  BY DEF Check, work
<1>2. PICK s \in {""} \cup Spaces : conf[w]["space"] = s /\ Tell(w, t, s)
  <2>1. conf[w]["space"] \in {""} \cup Spaces BY DEF IInv, TypeOK, Configs
  <2> QED BY <2>1 DEF Check
<1>3. GrantsHold' /\ granted' \in [Trees -> SUBSET [thread : Threads, space : {""} \cup Spaces]]
  BY <1>1, <1>2, TellKeeps
<1>4. TypeOK' BY <1>1, <1>3 DEF IInv, TypeOK
<1>5. ManagedIsOwned' /\ OneTreeEach' /\ Placed' /\ Resting'
  BY <1>1 DEF IInv, ManagedIsOwned, Managed, OneTreeEach, Placed, Resting
<1>6. AllSound' BY <1>1, Nobody DEF Free, AllSound, Sound
<1> QED BY <1>3, <1>4, <1>5, <1>6 DEF IInv

LEMMA AnswerKeeps ==
  ASSUME IInv, NEW p \in Procs, Answer(p)
  PROVE  IInv'
<1> DEFINE c == proc[p]
           w == c.on
<1>1. /\ c.step = "done" /\ End(p)
      /\ UNCHANGED <<at, branch, head, dirty, conf, loose>>
      /\ \/ Tell(w, c.want["owner"], c.want["space"]) \/ Tell(w, c.want["owner"], "")
         \/ UNCHANGED granted
  BY DEF Answer, work
<1>2. /\ c.kind \in {"claim", "exact", "ready", "create", "recover"}
      /\ Sound(p) /\ w \in Trees /\ c.want \in Configs
  BY <1>1, Running
<1>3. c.want["owner"] \in Threads /\ c.want["managed"] = "true" /\ at[w] # "absent"
  BY <1>1, <1>2 DEF Sound
<1>4. \A k \in Keys : conf[w][k] = c.want[k]
  BY <1>1, <1>2 DEF Sound, Written
<1>5. c.want["space"] \in {""} \cup Spaces BY <1>2 DEF Configs
<1>6. Managed(w) /\ conf[w]["owner"] = c.want["owner"] /\ conf[w]["space"] = c.want["space"]
  BY <1>3, <1>4 DEF Managed, Keys
<1> HIDE DEF c, w
<1>7. GrantsHold' /\ granted' \in [Trees -> SUBSET [thread : Threads, space : {""} \cup Spaces]]
  <2>1. CASE UNCHANGED granted BY <1>1, <2>1 DEF IInv, GrantsHold, TypeOK, Managed
  <2>2. CASE Tell(w, c.want["owner"], c.want["space"])
    BY <1>1, <1>2, <1>3, <1>5, <1>6, <2>2, TellKeeps
  <2>3. CASE Tell(w, c.want["owner"], "")
    BY <1>1, <1>2, <1>3, <1>6, <2>3, TellKeeps
  <2> QED BY <1>1, <2>1, <2>2, <2>3
<1>8. proc[p].kind # "idle" BY <1>2 DEF c
<1>9. /\ lock' = "" /\ Resting' /\ AllSound'
      /\ proc' \in [Procs -> [kind : {"idle", "claim", "exact", "ready", "create", "recover"},
                             on : {""} \cup Trees, step : Labels, want : Configs]]
  BY <1>1, <1>8, EndKeeps
<1>10. TypeOK' BY <1>1, <1>7, <1>9 DEF IInv, TypeOK
<1>11. ManagedIsOwned' /\ OneTreeEach' /\ Placed'
  BY <1>1 DEF IInv, ManagedIsOwned, Managed, OneTreeEach, Placed
<1> QED BY <1>7, <1>9, <1>10, <1>11 DEF IInv

\* A command ends and leaves the configuration alone.
LEMMA EndsKeeps ==
  ASSUME IInv, NEW p \in Procs, proc[p].kind # "idle", End(p),
         UNCHANGED <<at, head, dirty, conf, granted, loose>>, branch' \subseteq Trees
  PROVE  IInv'
<1>1. /\ lock' = "" /\ Resting' /\ AllSound'
      /\ proc' \in [Procs -> [kind : {"idle", "claim", "exact", "ready", "create", "recover"},
                             on : {""} \cup Trees, step : Labels, want : Configs]]
  BY EndKeeps
<1>2. TypeOK' BY <1>1 DEF IInv, TypeOK
<1>3. GrantsHold' /\ ManagedIsOwned' /\ OneTreeEach' /\ Placed'
  BY DEF IInv, GrantsHold, ManagedIsOwned, Managed, OneTreeEach, Placed
<1> QED BY <1>1, <1>2, <1>3 DEF IInv

LEMMA DieKeeps ==
  ASSUME IInv, NEW p \in Procs, Die(p)
  PROVE  IInv'
<1>1. proc[p].kind # "idle" BY DEF Die, IInv, Resting
<1> QED BY <1>1, EndsKeeps DEF Die, work, IInv, TypeOK

LEMMA UnbranchKeeps ==
  ASSUME IInv, NEW p \in Procs, Unbranch(p)
  PROVE  IInv'
<1>1. proc[p].step = "unbranch" /\ End(p) /\ UNCHANGED <<at, head, dirty, conf, granted, loose>>
      /\ branch' \subseteq branch
  BY DEF Unbranch
<1>2. proc[p].kind # "idle" BY <1>1, Running
<1> QED BY <1>1, <1>2, EndsKeeps DEF IInv, TypeOK

\* A command goes on to its next step; nobody else runs.
LEMMA StepKeeps ==
  ASSUME IInv, NEW p \in Procs, proc[p].step # "", NEW next \in Steps(proc[p].kind),
         proc' = [proc EXCEPT ![p].step = next], UNCHANGED lock, Sound(p)'
  PROVE  /\ Resting' /\ AllSound'
         /\ proc' \in [Procs -> [kind : {"idle", "claim", "exact", "ready", "create", "recover"},
                                on : {""} \cup Trees, step : Labels, want : Configs]]
         /\ proc'[p].kind = proc[p].kind /\ proc'[p].on = proc[p].on
         /\ proc'[p].want = proc[p].want /\ proc'[p].step = next
<1>1. proc[p].kind \in {"claim", "exact", "ready", "create", "recover"}
  BY Running
<1>2. next \in Labels BY <1>1 DEF Steps, Labels, Keys
<1>3. /\ proc'[p] = [proc[p] EXCEPT !.step = next] /\ \A q \in Procs : q # p => proc'[q] = proc[q]
      /\ proc' \in [Procs -> [kind : {"idle", "claim", "exact", "ready", "create", "recover"},
                             on : {""} \cup Trees, step : Labels, want : Configs]]
  <2>1. PICK T : T = [kind : {"idle", "claim", "exact", "ready", "create", "recover"},
                      on : {""} \cup Trees, step : Labels, want : Configs]
    OBVIOUS
  <2>2. proc \in [Procs -> T] BY <2>1 DEF IInv, TypeOK
  <2>3. PICK r : r = [proc[p] EXCEPT !.step = next] OBVIOUS
  <2>4. r \in T BY <1>2, <2>1, <2>2, <2>3
  <2>5. proc' = [proc EXCEPT ![p] = r] BY <2>3
  <2>6. proc'[p] = r /\ (\A q \in Procs : q # p => proc'[q] = proc[q]) /\ proc' \in [Procs -> T]
    BY ONLY p \in Procs, <2>2, <2>4, <2>5
  <2> QED BY <2>1, <2>3, <2>6
<1>4. /\ proc'[p].kind = proc[p].kind /\ proc'[p].on = proc[p].on
      /\ proc'[p].want = proc[p].want /\ proc'[p].step = next
  BY <1>3 DEF IInv, TypeOK
<1>5. \A q \in Procs : q # p => proc'[q] = proc[q] /\ proc[q].kind = "idle"
  BY <1>1, <1>3, Alone
<1>6. Resting' BY <1>1, <1>4, <1>5 DEF IInv, Resting
<1>7. AllSound'
  <2> SUFFICES ASSUME NEW q \in Procs PROVE Sound(q)'
    BY DEF AllSound
  <2>1. CASE q = p BY <2>1
  <2>2. CASE q # p BY <1>5, <2>2 DEF Sound
  <2> QED BY <2>1, <2>2
<1> QED BY <1>3, <1>4, <1>6, <1>7

\* The steps of a clean-up, which write no configuration.
LEMMA CleanupKeeps ==
  ASSUME IInv, NEW p \in Procs, proc[p].step \in Keys \cup {"inspect"}, proc[p].kind = "create",
         NEW next \in {"inspect", "remove"}, proc' = [proc EXCEPT ![p].step = next],
         UNCHANGED <<at, branch, head, dirty, conf, granted, loose, lock>>
  PROVE  IInv'
<1>1. proc[p].step # "" /\ next \in Steps(proc[p].kind) /\ proc[p].step # "unbranch"
  BY DEF Keys, Steps
<1>2. Sound(p) BY DEF IInv, AllSound
<1>3. /\ proc'[p].kind = proc[p].kind /\ proc'[p].on = proc[p].on
      /\ proc'[p].want = proc[p].want /\ proc'[p].step = next
  BY DEF IInv, TypeOK
<1>4. next \notin Keys \cup {"done"} /\ next # "unbranch" BY DEF Keys
<1>5. Sound(p)' BY <1>1, <1>2, <1>3, <1>4 DEF Sound
<1>6. /\ Resting' /\ AllSound'
      /\ proc' \in [Procs -> [kind : {"idle", "claim", "exact", "ready", "create", "recover"},
                             on : {""} \cup Trees, step : Labels, want : Configs]]
  BY <1>1, <1>5, StepKeeps
<1>7. TypeOK' BY <1>6 DEF IInv, TypeOK
<1>8. GrantsHold' /\ ManagedIsOwned' /\ OneTreeEach' /\ Placed'
  BY DEF IInv, GrantsHold, ManagedIsOwned, Managed, OneTreeEach, Placed
<1> QED BY <1>6, <1>7, <1>8 DEF IInv

LEMMA FailKeeps ==
  ASSUME IInv, NEW p \in Procs, Fail(p)
  PROVE  IInv'
<1>1. proc[p].step \in Keys /\ UNCHANGED <<at, branch, head, dirty, conf, granted, loose>>
  BY DEF Fail, work
<1>2. proc[p].kind # "idle" BY <1>1, Running DEF Keys
<1>3. CASE proc[p].kind = "create"
  BY <1>1, <1>3, CleanupKeeps DEF Fail
<1>4. CASE proc[p].kind # "create"
  BY <1>1, <1>2, <1>4, EndsKeeps DEF Fail, IInv, TypeOK
<1> QED BY <1>3, <1>4

LEMMA InspectKeeps ==
  ASSUME IInv, NEW p \in Procs, Inspect(p)
  PROVE  IInv'
<1>1. proc[p].step = "inspect" /\ UNCHANGED <<at, branch, head, dirty, conf, granted, loose>>
  BY DEF Inspect, work
<1>2. proc[p].kind = "create" BY <1>1, Running DEF Steps, Keys
<1>3. CASE Unused(p, proc[p].on)
  BY <1>1, <1>2, <1>3, CleanupKeeps DEF Inspect
<1>4. CASE ~Unused(p, proc[p].on)
  BY <1>1, <1>2, <1>4, EndsKeeps DEF Inspect, IInv, TypeOK
<1> QED BY <1>3, <1>4

\* The worktree that is removed has been granted to nobody.
LEMMA RemoveKeeps ==
  ASSUME IInv, NEW p \in Procs, Remove(p)
  PROVE  IInv'
<1> DEFINE w == proc[p].on
<1>1. proc[p].step = "remove" /\ UNCHANGED <<branch, head, dirty, granted>>
  BY DEF Remove
<1>2. proc[p].kind = "create" /\ Sound(p) /\ w \in Trees
  BY <1>1, Running DEF Steps, Keys
<1>3. CASE at[w] # "absent" /\ w \notin dirty
  <2>1. /\ at' = [at EXCEPT ![w] = "absent"] /\ conf' = [conf EXCEPT ![w] = Unset]
        /\ loose' = loose \ {w} /\ lock' = lock
        /\ proc' = [proc EXCEPT ![p].step = "unbranch"]
    BY <1>1, <1>3 DEF Remove, Unlink
  <2>2. granted[w] = {} BY <1>2 DEF Sound, New
  <2>3. /\ at'[w] = "absent" /\ conf'[w] = Unset
        /\ \A v \in Trees : v # w => at'[v] = at[v] /\ conf'[v] = conf[v]
        /\ at' \in [Trees -> {"absent", "linked", "away"}] /\ conf' \in [Trees -> Configs]
    BY <1>2, <2>1, UnsetFacts DEF IInv, TypeOK
  <2>4. /\ proc'[p].kind = proc[p].kind /\ proc'[p].on = w
        /\ proc'[p].want = proc[p].want /\ proc'[p].step = "unbranch"
    BY <2>1 DEF IInv, TypeOK
  <2>5. "unbranch" \in Steps(proc[p].kind) BY <1>2 DEF Steps
  <2>6. Sound(p)'
    <3>1. \A v \in Trees \ loose' : conf'[v]["owner"] = proc[p].want["owner"] => v = w
      BY <1>2, <2>1, <2>3 DEF Sound
    <3> QED BY <1>2, <2>1, <2>2, <2>4, <2>5, <3>1, <1>1 DEF Sound, Keys
  <2>7. /\ Resting' /\ AllSound'
        /\ proc' \in [Procs -> [kind : {"idle", "claim", "exact", "ready", "create", "recover"},
                               on : {""} \cup Trees, step : Labels, want : Configs]]
    BY <1>1, <2>1, <2>5, <2>6, StepKeeps
  <2>8. TypeOK' BY <1>1, <2>1, <2>3, <2>7 DEF IInv, TypeOK
  <2> HIDE DEF w
  <2>9. GrantsHold'
    <3> SUFFICES ASSUME NEW v \in Trees, NEW g \in granted'[v]
                 PROVE  /\ at'[v] # "absent" /\ Managed(v)' /\ conf'[v]["owner"] = g.thread
                        /\ g.space # "" => conf'[v]["space"] = g.space
      BY DEF GrantsHold
    <3>1. v # w /\ g \in granted[v] BY <1>1, <2>2
    <3>2. at'[v] = at[v] /\ conf'[v] = conf[v] BY <2>3, <3>1
    <3>3. /\ at[v] # "absent" /\ Managed(v) /\ conf[v]["owner"] = g.thread
          /\ g.space # "" => conf[v]["space"] = g.space
      BY <3>1 DEF IInv, GrantsHold
    <3> QED BY <3>2, <3>3 DEF Managed
  <2>10. ManagedIsOwned' BY <2>3, UnsetFacts DEF IInv, ManagedIsOwned, Managed
  <2>11. OneTreeEach'
    <3> SUFFICES ASSUME NEW u \in Trees \ loose', NEW v \in Trees \ loose',
                        conf'[u]["owner"] # "", conf'[u]["owner"] = conf'[v]["owner"]
                 PROVE  u = v
      BY DEF OneTreeEach
    <3>1. u # w /\ v # w BY <2>3, UnsetFacts
    <3>2. u \notin loose /\ v \notin loose BY <2>1, <3>1
    <3> QED BY <2>3, <3>1, <3>2 DEF IInv, OneTreeEach
  <2>12. Placed' BY <2>1, <2>3 DEF IInv, Placed
  <2> QED BY <2>7, <2>8, <2>9, <2>10, <2>11, <2>12 DEF IInv
<1>4. CASE ~(at[w] # "absent" /\ w \notin dirty)
  <2>1. End(p) /\ UNCHANGED <<at, conf, loose>> BY <1>4 DEF Remove
  <2> QED BY <1>1, <1>2, <2>1, EndsKeeps DEF IInv, TypeOK
<1> QED BY <1>3, <1>4

\* What has been written grows by the key that is written.
Grows(kind, k, next) ==
  /\ next \in Steps(kind) /\ next # "unbranch"
  /\ Written(kind, next) \subseteq Written(kind, k) \cup {k}
  /\ kind = "recover" => k = "owner" /\ next = "done"
  /\ kind = "ready" => k # "owner" /\ "owner" \in Written(kind, k)
  /\ k = "managed" => "owner" \in Written(kind, k) /\ "task" \in Written(kind, k)
LEMMA AfterFacts ==
  ASSUME NEW kind \in {"claim", "exact", "ready", "create", "recover"},
         NEW k \in Steps(kind) \cap Keys
  PROVE  Grows(kind, k, After(kind, k))
<1> USE DEF Grows
<1>1. CASE kind = "recover"
  <2>1. k = "owner" BY <1>1 DEF Steps, Keys
  <2>2. After(kind, k) = "done" BY <1>1, <2>1 DEF After
  <2>3. Written(kind, "done") = Keys /\ Written(kind, k) \cup {k} = Keys
    BY <1>1, <2>1 DEF Written, Keys
  <2> QED BY <1>1, <2>1, <2>2, <2>3 DEF Steps
<1>2. CASE kind = "ready"
  <2>1. k \in {"space", "task", "managed"} BY <1>2 DEF Steps, Keys
  <2>2. CASE k = "space" BY <1>2, <2>2 DEF Steps, Keys, After, Written
  <2>3. CASE k = "task" BY <1>2, <2>3 DEF Steps, Keys, After, Written
  <2>4. CASE k = "managed" BY <1>2, <2>4 DEF Steps, Keys, After, Written
  <2> QED BY <2>1, <2>2, <2>3, <2>4
<1>3. CASE kind \in {"claim", "exact", "create"} /\ k = "task"
  BY <1>3 DEF Steps, Keys, After, Written
<1>4. CASE kind \in {"claim", "exact", "create"} /\ k = "space"
  BY <1>4 DEF Steps, Keys, After, Written
<1>5. CASE kind \in {"claim", "exact", "create"} /\ k = "owner"
  BY <1>5 DEF Steps, Keys, After, Written
<1>6. CASE kind \in {"claim", "exact", "create"} /\ k = "managed"
  BY <1>6 DEF Steps, Keys, After, Written
<1> QED BY <1>1, <1>2, <1>3, <1>4, <1>5, <1>6 DEF Keys

\* One key is written.
LEMMA WriteKeeps ==
  ASSUME IInv, NEW p \in Procs, Write(p)
  PROVE  IInv'
<1> DEFINE w == proc[p].on
           k == proc[p].step
           kind == proc[p].kind
           want == proc[p].want
           next == After(kind, k)
<1>1. /\ k \in Keys /\ conf' = [conf EXCEPT ![w][k] = want[k]]
      /\ proc' = [proc EXCEPT ![p].step = next]
      /\ granted' = IF kind = "recover" THEN [granted EXCEPT ![w] = {}] ELSE granted
      /\ UNCHANGED <<at, branch, head, dirty, lock, loose>>
  BY DEF Write, work
<1>2. /\ kind \in {"claim", "exact", "ready", "create", "recover"} /\ k \in Steps(kind) \cap Keys
      /\ w \in Trees /\ want \in Configs /\ Sound(p) /\ k # ""
  BY <1>1, Running DEF Keys
<1>3. /\ next \in Steps(kind) /\ next # "unbranch"
      /\ Written(kind, next) \subseteq Written(kind, k) \cup {k}
      /\ kind = "recover" => k = "owner" /\ next = "done"
      /\ kind = "ready" => k # "owner" /\ "owner" \in Written(kind, k)
      /\ k = "managed" => "owner" \in Written(kind, k) /\ "task" \in Written(kind, k)
  <2>1. Grows(kind, k, next) BY <1>2, AfterFacts
  <2> QED BY <2>1 DEF Grows
<1>4. /\ lock = p /\ want["owner"] \in Threads /\ want["task"] # "" /\ want["managed"] = "true"
      /\ at[w] # "absent" /\ \A j \in Written(kind, k) : conf[w][j] = want[j]
      /\ kind \in New => granted[w] = {}
      /\ kind = "ready" => conf[w]["space"] \in {"", want["space"]}
      /\ kind = "exact" => w \in loose
      /\ kind # "exact" => \A v \in Trees \ loose : conf[v]["owner"] = want["owner"] => v = w
  <2>1. k # "unbranch" /\ kind # "idle" BY <1>1, <1>2 DEF Keys
  <2> QED BY <1>1, <1>2, <2>1 DEF Sound
<1>5. /\ proc'[p].kind = kind /\ proc'[p].on = w /\ proc'[p].want = want /\ proc'[p].step = next
  BY <1>1 DEF IInv, TypeOK
<1> HIDE DEF w, k, kind, want, next
<1>6. conf[w] \in Configs BY <1>2 DEF IInv, TypeOK
<1>7. /\ conf'[w] = [conf[w] EXCEPT ![k] = want[k]]
      /\ \A v \in Trees : v # w => conf'[v] = conf[v]
  BY <1>1, <1>2 DEF IInv, TypeOK
<1>8. conf'[w][k] = want[k] /\ \A j \in Keys : j # k => conf'[w][j] = conf[w][j]
  BY <1>1, <1>6, <1>7 DEF Configs
<1>9. conf'[w] \in Configs
  <2>1. conf'[w] \in [Keys -> {"", "branch", "named", "true"} \cup Spaces \cup Threads]
    <3>1. /\ conf[w] \in [Keys -> {"", "branch", "named", "true"} \cup Spaces \cup Threads]
          /\ want \in [Keys -> {"", "branch", "named", "true"} \cup Spaces \cup Threads]
      BY <1>2, <1>6 DEF Configs
    <3>2. want[k] \in {"", "branch", "named", "true"} \cup Spaces \cup Threads BY <1>1, <3>1
    <3>3. conf'[w] = [conf[w] EXCEPT ![k] = want[k]] BY <1>7
    <3>4. PICK S : S = {"", "branch", "named", "true"} \cup Spaces \cup Threads OBVIOUS
    <3>5. conf[w] \in [Keys -> S] /\ want[k] \in S BY <3>1, <3>2, <3>4
    <3>6. conf'[w] \in [Keys -> S] BY ONLY <3>3, <3>5
    <3> QED BY <3>4, <3>6
  <2>2. \A j \in Keys : conf'[w][j] \in {conf[w][j], want[j]}
    BY <1>8
  <2>3. /\ conf'[w]["task"] \in {"", "branch", "named"} /\ conf'[w]["space"] \in {""} \cup Spaces
        /\ conf'[w]["owner"] \in {""} \cup Threads /\ conf'[w]["managed"] \in {"", "true"}
    BY <1>2, <1>6, <2>2 DEF Configs, Keys
  <2> QED BY <2>1, <2>3 DEF Configs
<1>10. conf' \in [Trees -> Configs]
  BY <1>1, <1>2, <1>7, <1>9 DEF IInv, TypeOK
<1>11. /\ granted' \in [Trees -> SUBSET [thread : Threads, space : {""} \cup Spaces]]
       /\ kind # "ready" => granted'[w] = {} /\ \A v \in Trees : v # w => granted'[v] = granted[v]
       /\ kind = "ready" => granted' = granted
  BY <1>1, <1>2, <1>4 DEF IInv, TypeOK, New
<1>12. \A j \in Written(kind, next) : conf'[w][j] = want[j]
  <2> SUFFICES ASSUME NEW j \in Written(kind, next) PROVE conf'[w][j] = want[j]
    OBVIOUS
  <2>1. Written(kind, next) \subseteq Keys BY DEF Written, Keys
  <2> QED BY <1>3, <1>4, <1>8, <2>1
<1>13. kind = "ready" => conf'[w]["space"] \in {"", want["space"]}
  BY <1>4, <1>8 DEF Keys
<1>14. kind # "exact" => \A v \in Trees \ loose' : conf'[v]["owner"] = want["owner"] => v = w
  BY <1>1, <1>4, <1>7
<1>15. Sound(p)'
  <2>1. /\ lock' = p /\ w \in Trees /\ at'[w] # "absent"
        /\ kind \in New \/ (kind = "recover" /\ next = "done") => granted'[w] = {}
        /\ kind = "exact" => w \in loose'
    BY <1>1, <1>2, <1>4, <1>11 DEF New
  <2> QED BY <1>3, <1>4, <1>5, <1>12, <1>13, <1>14, <2>1 DEF Sound
<1>16. /\ Resting' /\ AllSound'
       /\ proc' \in [Procs -> [kind : {"idle", "claim", "exact", "ready", "create", "recover"},
                              on : {""} \cup Trees, step : Labels, want : Configs]]
  BY <1>1, <1>2, <1>3, <1>15, StepKeeps DEF k, kind
<1>17. TypeOK' BY <1>1, <1>10, <1>11, <1>16 DEF IInv, TypeOK
<1>18. GrantsHold'
  <2> SUFFICES ASSUME NEW v \in Trees, NEW g \in granted'[v]
               PROVE  /\ at'[v] # "absent" /\ Managed(v)' /\ conf'[v]["owner"] = g.thread
                      /\ g.space # "" => conf'[v]["space"] = g.space
    BY DEF GrantsHold
  <2>1. g \in granted[v] BY <1>11
  <2>2. /\ at[v] # "absent" /\ conf[v]["managed"] = "true" /\ conf[v]["owner"] = g.thread
        /\ g.space # "" => conf[v]["space"] = g.space
    BY <2>1 DEF IInv, GrantsHold, Managed
  <2>3. CASE v # w BY <1>1, <1>7, <2>2, <2>3 DEF Managed
  <2>4. CASE v = w
    <3>1. kind = "ready" BY <1>11, <2>4
    <3>2. conf'[w]["owner"] = conf[w]["owner"] BY <1>3, <1>8, <3>1 DEF Keys
    <3>3. conf'[w]["managed"] = "true" BY <1>4, <1>8, <2>2, <2>4 DEF Keys
    <3>4. g.space # "" => conf'[w]["space"] = g.space BY <1>4, <1>8, <2>2, <2>4, <3>1 DEF Keys
    <3> QED BY <1>1, <2>2, <2>4, <3>2, <3>3, <3>4 DEF Managed
  <2> QED BY <2>3, <2>4
<1>19. ManagedIsOwned'
  <2> SUFFICES ASSUME NEW v \in Trees, Managed(v)'
               PROVE  conf'[v]["owner"] # "" /\ conf'[v]["task"] # ""
    BY DEF ManagedIsOwned
  <2>1. CASE v # w BY <1>7, <2>1 DEF IInv, ManagedIsOwned, Managed
  <2>2. CASE v = w
    <3>1. want["owner"] # "" BY <1>4, UnsetAssumption
    <3>2. CASE k = "managed"
      BY <1>3, <1>4, <1>8, <2>2, <3>1, <3>2 DEF Keys
    <3>3. CASE k # "managed"
      <4>1. conf[w]["managed"] = "true" BY <1>8, <2>2, <3>3 DEF Managed, Keys
      <4>2. conf[w]["owner"] # "" /\ conf[w]["task"] # ""
        BY <1>2, <4>1 DEF IInv, ManagedIsOwned, Managed
      <4> QED BY <1>4, <1>8, <2>2, <3>1, <4>2 DEF Keys
    <3> QED BY <3>2, <3>3
  <2> QED BY <2>1, <2>2
<1>20. OneTreeEach'
  <2> SUFFICES ASSUME NEW u \in Trees \ loose, NEW v \in Trees \ loose,
                      conf'[u]["owner"] # "", conf'[u]["owner"] = conf'[v]["owner"]
               PROVE  u = v
    BY <1>1 DEF OneTreeEach
  <2>1. CASE k # "owner"
    <3>1. conf'[u]["owner"] = conf[u]["owner"] /\ conf'[v]["owner"] = conf[v]["owner"]
      BY <1>7, <1>8, <2>1 DEF Keys
    <3> QED BY <3>1 DEF IInv, OneTreeEach
  <2>2. CASE k = "owner" /\ kind # "exact"
    <3>1. conf'[w]["owner"] = want["owner"] BY <1>8, <2>2
    <3>2. CASE u # w /\ v # w BY <1>7, <3>2 DEF IInv, OneTreeEach
    <3>3. CASE u = w \/ v = w BY <1>1, <1>14, <2>2, <3>1, <3>3
    <3> QED BY <3>2, <3>3
  <2>3. CASE k = "owner" /\ kind = "exact"
    BY <1>4, <1>7, <2>3 DEF IInv, OneTreeEach
  <2> QED BY <2>1, <2>2, <2>3
<1>21. Placed' BY <1>1, <1>4, <1>7 DEF IInv, Placed
<1> QED BY <1>16, <1>17, <1>18, <1>19, <1>20, <1>21 DEF IInv

-------------------------------------------------------------------------------
\* What happens without the lock.

\* Whatever is done to a worktree that stays, the configuration stays.
LEMMA StayKeeps ==
  ASSUME IInv, UNCHANGED <<conf, lock, proc, granted>>,
         branch' \subseteq Trees, head' \in [Trees -> {"base", "local", "remote"}],
         dirty' \subseteq Trees, loose' \subseteq Trees, loose \subseteq loose',
         at' \in [Trees -> {"absent", "linked", "away"}],
         \A v \in Trees : /\ at'[v] = "absent" => at[v] = "absent"
                          /\ at'[v] = "away" => v \in loose'
  PROVE  IInv'
<1>1. TypeOK' BY DEF IInv, TypeOK
<1>2. GrantsHold' BY DEF IInv, GrantsHold, Managed
<1>3. ManagedIsOwned' /\ OneTreeEach' /\ Resting'
  BY DEF IInv, ManagedIsOwned, Managed, OneTreeEach, Resting
<1>4. Placed' BY DEF IInv, Placed
<1>5. AllSound'
  <2> SUFFICES ASSUME NEW p \in Procs, proc[p].kind # "idle" PROVE Sound(p)'
    BY DEF AllSound, Sound
  <2>1. Sound(p) /\ proc[p].on \in Trees BY DEF IInv, AllSound, Sound
  <2> QED BY <2>1 DEF Sound
<1> QED BY <1>1, <1>2, <1>3, <1>4, <1>5 DEF IInv

LEMMA RemoveTreeKeeps ==
  ASSUME IInv, NEW w \in Trees, RemoveTree(w)
  PROVE  IInv'
<1>1. /\ \A p \in Procs : proc[p].on # w
      /\ at' = [at EXCEPT ![w] = "absent"] /\ conf' = [conf EXCEPT ![w] = Unset]
      /\ granted' = [granted EXCEPT ![w] = {}] /\ loose' = loose \ {w}
      /\ UNCHANGED <<branch, head, dirty, lock, proc>>
  BY DEF RemoveTree, Unlink
<1>2. /\ at'[w] = "absent" /\ conf'[w] = Unset /\ granted'[w] = {}
      /\ \A v \in Trees : v # w => at'[v] = at[v] /\ conf'[v] = conf[v] /\ granted'[v] = granted[v]
      /\ at' \in [Trees -> {"absent", "linked", "away"}] /\ conf' \in [Trees -> Configs]
      /\ granted' \in [Trees -> SUBSET [thread : Threads, space : {""} \cup Spaces]]
  BY <1>1, UnsetFacts DEF IInv, TypeOK
<1>3. TypeOK' BY <1>1, <1>2 DEF IInv, TypeOK
<1>4. GrantsHold'
  <2> SUFFICES ASSUME NEW v \in Trees, NEW g \in granted'[v]
               PROVE  /\ at'[v] # "absent" /\ Managed(v)' /\ conf'[v]["owner"] = g.thread
                      /\ g.space # "" => conf'[v]["space"] = g.space
    BY DEF GrantsHold
  <2>1. v # w BY <1>2
  <2>2. at'[v] = at[v] /\ conf'[v] = conf[v] /\ g \in granted[v] BY <1>2, <2>1
  <2>3. /\ at[v] # "absent" /\ Managed(v) /\ conf[v]["owner"] = g.thread
        /\ g.space # "" => conf[v]["space"] = g.space
    BY <2>2 DEF IInv, GrantsHold
  <2> QED BY <2>2, <2>3 DEF Managed
<1>5. ManagedIsOwned'
  <2> SUFFICES ASSUME NEW v \in Trees, Managed(v)'
               PROVE  conf'[v]["owner"] # "" /\ conf'[v]["task"] # ""
    BY DEF ManagedIsOwned
  <2>1. v # w BY <1>2, UnsetFacts DEF Managed
  <2>2. conf'[v] = conf[v] BY <1>2, <2>1
  <2>3. Managed(v) BY <2>2 DEF Managed
  <2> QED BY <2>2, <2>3 DEF IInv, ManagedIsOwned
<1>6. OneTreeEach'
  <2> SUFFICES ASSUME NEW u \in Trees \ loose', NEW v \in Trees \ loose',
                      conf'[u]["owner"] # "", conf'[u]["owner"] = conf'[v]["owner"]
               PROVE  u = v
    BY DEF OneTreeEach
  <2>1. u # w /\ v # w BY <1>2, UnsetFacts
  <2>2. u \notin loose /\ v \notin loose BY <1>1, <2>1
  <2> QED BY <1>2, <2>1, <2>2 DEF IInv, OneTreeEach
<1>7. Placed' BY <1>1, <1>2 DEF IInv, Placed
<1>8. Resting' BY <1>1 DEF IInv, Resting
<1>9. AllSound'
  <2> SUFFICES ASSUME NEW p \in Procs, proc[p].kind # "idle" PROVE Sound(p)'
    BY <1>1 DEF AllSound, Sound
  <2>1. Sound(p) /\ proc[p].on \in Trees /\ proc[p].want["owner"] \in Threads
    BY DEF IInv, AllSound, Sound
  <2>2. proc[p].on # w BY <1>1
  <2>3. \A v \in Trees \ loose' : conf'[v]["owner"] = proc[p].want["owner"] => v \in Trees \ loose /\ v # w
    <3> SUFFICES ASSUME NEW v \in Trees \ loose', conf'[v]["owner"] = proc[p].want["owner"]
                 PROVE  v \in Trees \ loose /\ v # w
      OBVIOUS
    <3>1. conf'[v]["owner"] # "" BY <2>1, UnsetAssumption
    <3>2. v # w BY <1>2, <3>1, UnsetFacts
    <3> QED BY <1>1, <3>2
  <2>4. proc[p].kind # "exact" =>
          \A v \in Trees \ loose' : conf'[v]["owner"] = proc[p].want["owner"] => v = proc[p].on
    BY <1>2, <2>1, <2>3 DEF Sound
  <2>5. LET v == proc[p].on
        IN  /\ at'[v] = at[v] /\ conf'[v] = conf[v] /\ granted'[v] = granted[v]
            /\ v \in loose => v \in loose'
    BY <1>1, <1>2, <2>1, <2>2
  <2>6. UNCHANGED <<lock, proc>> BY <1>1
  <2> QED BY <2>1, <2>4, <2>5, <2>6 DEF Sound
<1> QED BY <1>3, <1>4, <1>5, <1>6, <1>7, <1>8, <1>9 DEF IInv

LEMMA WorldKeeps ==
  ASSUME IInv, NEW w \in Trees, World(w)
  PROVE  IInv'
<1> USE DEF IInv, TypeOK, Placed
<1>1. CASE AddTree(w) BY <1>1, StayKeeps DEF AddTree
<1>2. CASE RemoveTree(w) BY <1>2, RemoveTreeKeeps
<1>3. CASE Leave(w) BY <1>3, StayKeeps DEF Leave
<1>4. CASE Return(w) BY <1>4, StayKeeps DEF Return
<1>5. CASE Edit(w) BY <1>5, StayKeeps DEF Edit
<1>6. CASE Commit(w) BY <1>6, StayKeeps DEF Commit
<1>7. CASE Push(w) BY <1>7, StayKeeps DEF Push
<1> QED BY <1>1, <1>2, <1>3, <1>4, <1>5, <1>6, <1>7 DEF World

-------------------------------------------------------------------------------
\* The theorems.

LEMMA InvInit ==
  ASSUME Init PROVE IInv
<1>1. TypeOK BY UnsetFacts DEF Init, TypeOK, Idle, Labels
<1>2. GrantsHold /\ Placed BY DEF Init, GrantsHold, Placed
<1>3. ManagedIsOwned /\ OneTreeEach
  BY UnsetFacts DEF Init, ManagedIsOwned, Managed, OneTreeEach
<1>4. Resting /\ AllSound BY UnsetFacts DEF Init, Resting, AllSound, Sound
<1> QED BY <1>1, <1>2, <1>3, <1>4 DEF IInv

LEMMA InvStep ==
  ASSUME IInv, [Next]_vars PROVE IInv'
<1>1. CASE UNCHANGED vars
  <2>1. TypeOK' BY <1>1 DEF vars, IInv, TypeOK
  <2>2. GrantsHold' BY <1>1 DEF vars, IInv, GrantsHold, Managed
  <2>3. ManagedIsOwned' /\ OneTreeEach'
    BY <1>1 DEF vars, IInv, ManagedIsOwned, Managed, OneTreeEach
  <2>4. Placed' /\ Resting' BY <1>1 DEF vars, IInv, Placed, Resting
  <2>5. AllSound'
    <3> SUFFICES ASSUME NEW p \in Procs PROVE Sound(p)' BY DEF AllSound
    <3>1. Sound(p) BY DEF IInv, AllSound
    <3> QED BY <1>1, <3>1 DEF vars, Sound, Managed
  <2> QED BY <2>1, <2>2, <2>3, <2>4, <2>5 DEF IInv
<1>2. ASSUME NEW p \in Procs, Command(p) PROVE IInv'
  <2>1. ASSUME NEW w \in Trees, NEW t \in Threads,
               \/ Claim(p, t, w) \/ Check(p, t, w)
               \/ \E from \in Threads : Recover(p, from, t, w)
        PROVE  IInv'
    BY <2>1, ClaimKeeps, CheckKeeps, RecoverKeeps
  <2>2. ASSUME NEW w \in Trees, NEW t \in Threads, NEW s \in Spaces,
               ClaimExact(p, t, w, s) \/ PrepareOwned(p, t, w, s) \/ PrepareNew(p, t, w, s)
        PROVE  IInv'
    BY <2>2, ClaimExactKeeps, PrepareOwnedKeeps, PrepareNewKeeps
  <2>3. CASE Write(p) BY <2>3, WriteKeeps
  <2>4. CASE Answer(p) BY <2>4, AnswerKeeps
  <2>5. CASE Fail(p) BY <2>5, FailKeeps
  <2>6. CASE Inspect(p) BY <2>6, InspectKeeps
  <2>7. CASE Remove(p) BY <2>7, RemoveKeeps
  <2>8. CASE Unbranch(p) BY <2>8, UnbranchKeeps
  <2>9. CASE Die(p) BY <2>9, DieKeeps
  <2> QED BY <1>2, <2>1, <2>2, <2>3, <2>4, <2>5, <2>6, <2>7, <2>8, <2>9 DEF Command
<1> QED BY <1>1, <1>2, WorldKeeps DEF Next

LEMMA Always == Spec => []IInv
BY InvInit, InvStep, PTL DEF Spec

\* The state has the type that the configurations, the lock and the commands allow.
THEOREM OwnershipTyped == Spec => []TypeOK
<1>1. IInv => TypeOK BY DEF IInv
<1> QED BY <1>1, Always, PTL

\* What a caller was told about a worktree, its owner and its workspace ID, stays true
\* until the worktree is removed or a recovery that names it takes it over.
THEOREM GrantsStand == Spec => []GrantsHold
<1>1. IInv => GrantsHold BY DEF IInv
<1> QED BY <1>1, Always, PTL

\* A worktree with the managed mark has an owner and a task, wherever commands died.
THEOREM MarkComesLast == Spec => []ManagedIsOwned
<1>1. IInv => ManagedIsOwned BY DEF IInv
<1> QED BY <1>1, Always, PTL

\* No thread owns two worktrees, those apart that an exact claim assigned or that were
\* away on another branch.
THEOREM OneTreePerThread == Spec => []OneTreeEach
<1>1. IInv => OneTreeEach BY DEF IInv
<1> QED BY <1>1, Always, PTL

-------------------------------------------------------------------------------
\* What a step may never do.

\* A command that is writing finds no workspace ID, or the one it is going to write: it
\* read the configuration under the lock, and the trees it works on stay.
Kept(p) == proc[p].step \in Keys => conf[proc[p].on]["space"] \in {"", proc[p].want["space"]}
AllKept == \A p \in Procs : Kept(p)
SpacesStay ==
  \A w \in Trees : conf[w]["space"] # "" /\ at'[w] # "absent"
    => conf'[w]["space"] = conf[w]["space"]

LEMMA RestKept == ASSUME IInv, NEW p \in Procs, proc[p].kind = "idle" PROVE proc[p].step \notin Keys
BY UnsetFacts DEF IInv, Resting, Keys

\* The configurations stay, and no command goes on to write.
LEMMA QuietKept ==
  ASSUME AllKept, conf' = conf,
         \A q \in Procs : proc'[q] = proc[q] \/ proc'[q].step \notin Keys
  PROVE  AllKept' /\ SpacesStay
BY DEF AllKept, Kept, SpacesStay

\* A command begins, and has read the workspace ID it is going to write.
LEMMA BeginKept ==
  ASSUME IInv, AllKept, NEW p \in Procs, NEW w \in Trees, NEW kind, NEW step, NEW want,
         Begin(p, kind, w, step, want), conf[w]["space"] \in {"", want["space"]}
  PROVE  AllKept' /\ SpacesStay
<1> DEFINE c == [kind |-> kind, on |-> w, step |-> step, want |-> want]
<1>1. c.on = w /\ c.want = want OBVIOUS
<1>2. conf' = conf /\ proc' = [proc EXCEPT ![p] = c] BY DEF Begin
<1> HIDE DEF c
<1>3. proc'[p] = c /\ \A q \in Procs : q # p => proc'[q] = proc[q] BY <1>2 DEF IInv, TypeOK
<1>4. ASSUME NEW q \in Procs PROVE Kept(q)'
  <2>1. CASE q = p BY <1>1, <1>2, <1>3, <2>1 DEF Kept
  <2>2. CASE q # p BY <1>2, <1>3, <2>2 DEF AllKept, Kept
  <2> QED BY <2>1, <2>2
<1> QED BY <1>2, <1>4 DEF AllKept, SpacesStay

LEMMA OpeningKept ==
  ASSUME IInv, AllKept, NEW p \in Procs, NEW w \in Trees, NEW t \in Threads,
         \/ Claim(p, t, w) \/ Check(p, t, w) \/ (\E from \in Threads : Recover(p, from, t, w))
         \/ \E s \in Spaces : ClaimExact(p, t, w, s) \/ PrepareOwned(p, t, w, s) \/ PrepareNew(p, t, w, s)
  PROVE  AllKept' /\ SpacesStay
<1>1. conf[w] \in Configs BY DEF IInv, TypeOK
<1>2. \A n, s, o : Wanting(n, s, o)["space"] = s BY DEF Wanting, Keys
<1>3. CASE Claim(p, t, w)
  <2>1. Begin(p, "claim", w, "task", Wanting(TaskOr(w, "branch"), conf[w]["space"], t))
    BY <1>3 DEF Claim
  <2> QED BY <1>2, <2>1, BeginKept
<1>4. CASE Check(p, t, w) BY <1>4, QuietKept DEF Check
<1>5. ASSUME NEW from \in Threads, Recover(p, from, t, w) PROVE AllKept' /\ SpacesStay
  <2>1. Begin(p, "recover", w, "owner", [conf[w] EXCEPT !["owner"] = t]) BY <1>5 DEF Recover
  <2>2. [conf[w] EXCEPT !["owner"] = t]["space"] = conf[w]["space"] BY <1>1 DEF Configs, Keys
  <2> QED BY <2>1, <2>2, BeginKept
<1>6. ASSUME NEW s \in Spaces, ClaimExact(p, t, w, s) PROVE AllKept' /\ SpacesStay
  <2>1. Begin(p, "exact", w, "task", Wanting("named", s, t)) /\ conf[w]["space"] \in {"", s}
    BY <1>6 DEF ClaimExact, Agrees
  <2> QED BY <1>2, <2>1, BeginKept
<1>7. ASSUME NEW s \in Spaces, PrepareOwned(p, t, w, s) PROVE AllKept' /\ SpacesStay
  <2>1. /\ Begin(p, "ready", w, "space", Wanting(TaskOr(w, "branch"), s, t))
        /\ conf[w]["space"] \in {"", s}
    BY <1>7 DEF PrepareOwned
  <2> QED BY <1>2, <2>1, BeginKept
<1>8. ASSUME NEW s \in Spaces, PrepareNew(p, t, w, s) PROVE AllKept' /\ SpacesStay
  <2>1. Begin(p, "create", w, "task", Wanting("named", s, t)) /\ conf[w]["space"] = ""
    BY <1>8, UnsetFacts DEF PrepareNew, IInv, Placed
  <2> QED BY <1>2, <2>1, BeginKept
<1> QED BY <1>3, <1>4, <1>5, <1>6, <1>7, <1>8

LEMMA WriteKept ==
  ASSUME IInv, AllKept, NEW p \in Procs, Write(p)
  PROVE  AllKept' /\ SpacesStay
<1> DEFINE w == proc[p].on
           k == proc[p].step
           want == proc[p].want
           next == After(proc[p].kind, k)
<1>1. /\ k \in Keys /\ conf' = [conf EXCEPT ![w][k] = want[k]]
      /\ proc' = [proc EXCEPT ![p].step = next]
  BY DEF Write
<1>2. k # "" BY <1>1 DEF Keys
<1>3. w \in Trees /\ lock = p /\ proc[p].kind # "idle" BY <1>2, Running
<1>4. conf[w] \in Configs BY <1>3 DEF IInv, TypeOK
<1>5. conf[w]["space"] \in {"", want["space"]} BY <1>1 DEF AllKept, Kept
<1>6. proc'[p].on = w /\ proc'[p].want = want BY <1>1 DEF IInv, TypeOK
<1>7. \A q \in Procs : q # p => proc'[q] = proc[q] BY <1>1 DEF IInv, TypeOK
<1>8. ASSUME NEW q \in Procs, q # p PROVE proc[q].step \notin Keys
  BY <1>3, <1>8, Alone, RestKept
<1> HIDE DEF w, k, want, next
<1>9. /\ conf'[w] = [conf[w] EXCEPT ![k] = want[k]]
      /\ \A v \in Trees : v # w => conf'[v] = conf[v]
  BY <1>1, <1>3 DEF IInv, TypeOK
<1>10. conf'[w]["space"] = IF k = "space" THEN want["space"] ELSE conf[w]["space"]
  <2>1. PICK S : conf[w] \in [Keys -> S] BY <1>4 DEF Configs
  <2>2. "space" \in Keys BY DEF Keys
  <2>3. conf'[w] = [conf[w] EXCEPT ![k] = want[k]] BY <1>9
  <2> QED BY ONLY <2>1, <2>2, <2>3
<1>11. Kept(p)' BY <1>5, <1>6, <1>10 DEF Kept
<1>12. AllKept' BY <1>7, <1>8, <1>11 DEF AllKept, Kept
<1>13. SpacesStay BY <1>5, <1>9, <1>10 DEF SpacesStay
<1> QED BY <1>12, <1>13

LEMMA EndingKept ==
  ASSUME IInv, AllKept, NEW p \in Procs,
         Answer(p) \/ Fail(p) \/ Inspect(p) \/ Unbranch(p) \/ Die(p)
  PROVE  AllKept' /\ SpacesStay
<1>1. conf' = conf BY DEF Answer, Fail, Inspect, Unbranch, Die
<1>2. \/ End(p) \/ proc' = [proc EXCEPT ![p].step = "inspect"]
      \/ proc' = [proc EXCEPT ![p].step = "remove"]
  BY DEF Answer, Fail, Inspect, Unbranch, Die
<1>3. Idle.step \notin Keys BY UnsetFacts DEF Keys
<1>4. \A q \in Procs : proc'[q] = proc[q] \/ proc'[q].step \notin Keys
  <2>1. CASE End(p) BY <1>3, <2>1 DEF End, IInv, TypeOK
  <2>2. CASE proc' = [proc EXCEPT ![p].step = "inspect"] BY <2>2 DEF IInv, TypeOK, Keys
  <2>3. CASE proc' = [proc EXCEPT ![p].step = "remove"] BY <2>3 DEF IInv, TypeOK, Keys
  <2> QED BY <1>2, <2>1, <2>2, <2>3
<1> QED BY <1>1, <1>4, QuietKept

LEMMA RemoveKept ==
  ASSUME IInv, AllKept, NEW p \in Procs, Remove(p)
  PROVE  AllKept' /\ SpacesStay
<1> DEFINE w == proc[p].on
<1>1. /\ proc[p].step = "remove"
      /\ \/ Unlink(w) /\ proc' = [proc EXCEPT ![p].step = "unbranch"]
         \/ End(p) /\ conf' = conf
  BY DEF Remove
<1>2. w \in Trees /\ proc[p].kind # "idle" BY <1>1, Running
<1>3. CASE End(p) /\ conf' = conf
  <2>1. Idle.step \notin Keys BY UnsetFacts DEF Keys
  <2>2. \A q \in Procs : proc'[q] = proc[q] \/ proc'[q].step \notin Keys
    BY <1>3, <2>1 DEF End, IInv, TypeOK
  <2> QED BY <1>3, <2>2, QuietKept
<1>4. CASE Unlink(w) /\ proc' = [proc EXCEPT ![p].step = "unbranch"]
  <2>1. at'[w] = "absent" /\ \A v \in Trees : v # w => conf'[v] = conf[v]
    BY <1>2, <1>4 DEF Unlink, IInv, TypeOK
  <2>2. proc'[p].step \notin Keys /\ \A q \in Procs : q # p => proc'[q] = proc[q]
    BY <1>4 DEF IInv, TypeOK, Keys
  <2>3. ASSUME NEW q \in Procs, q # p PROVE proc[q].step \notin Keys
    BY <1>2, <2>3, Alone, RestKept
  <2>4. AllKept' BY <2>2, <2>3 DEF AllKept, Kept
  <2>5. SpacesStay BY <2>1 DEF SpacesStay
  <2> QED BY <2>4, <2>5
<1> QED BY <1>1, <1>3, <1>4

LEMMA WorldKept ==
  ASSUME IInv, AllKept, NEW w \in Trees, World(w)
  PROVE  AllKept' /\ SpacesStay
<1>1. CASE RemoveTree(w)
  <2>1. /\ \A p \in Procs : proc[p].on # w
        /\ at' = [at EXCEPT ![w] = "absent"] /\ conf' = [conf EXCEPT ![w] = Unset]
        /\ proc' = proc
    BY <1>1 DEF RemoveTree, Unlink
  <2>2. at'[w] = "absent" /\ \A v \in Trees : v # w => conf'[v] = conf[v]
    BY <2>1 DEF IInv, TypeOK
  <2>3. AllKept'
    <3>1. ASSUME NEW q \in Procs, proc[q].step \in Keys PROVE proc[q].on \in Trees
      BY <3>1, Running DEF Keys
    <3> QED BY <2>1, <2>2, <3>1 DEF AllKept, Kept
  <2>4. SpacesStay BY <2>2 DEF SpacesStay
  <2> QED BY <2>3, <2>4
<1>2. CASE ~RemoveTree(w)
  <2>1. UNCHANGED <<conf, proc>>
    BY <1>2 DEF World, AddTree, Leave, Return, Edit, Commit, Push
  <2> QED BY <2>1, QuietKept
<1> QED BY <1>1, <1>2

LEMMA KeptStep ==
  ASSUME IInv, AllKept, [Next]_vars
  PROVE  AllKept' /\ SpacesStay
<1>1. CASE UNCHANGED vars BY <1>1, QuietKept DEF vars
<1>2. ASSUME NEW p \in Procs, Command(p) PROVE AllKept' /\ SpacesStay
  BY <1>2, OpeningKept, WriteKept, EndingKept, RemoveKept DEF Command
<1> QED BY <1>1, <1>2, WorldKept DEF Next

\* A workspace ID that is recorded stays for as long as its worktree does, whatever is
\* claimed, prepared or recovered and wherever commands fail or die.
THEOREM SpacesImmutable == Spec => SpacesStand
<1>1. Init => AllKept BY UnsetFacts DEF Init, AllKept, Kept, Keys
<1>2. IInv /\ AllKept /\ [Next]_vars => AllKept' /\ [SpacesStay]_vars BY KeptStep
<1>3. Spec => [][SpacesStay]_vars BY <1>1, <1>2, Always, PTL DEF Spec
<1>4. [][SpacesStay]_vars => SpacesStand BY PTL DEF SpacesStand, SpacesStay
<1> QED BY <1>3, <1>4

\* Only the cleanup of a failed preparation takes a branch away, and never one that
\* points to a commit of its own.
LEMMA BranchStep ==
  ASSUME [Next]_vars
  PROVE  \A w \in branch \ branch' : head[w] \notin {"local", "remote"}
<1>1. CASE UNCHANGED vars BY <1>1 DEF vars
<1>2. ASSUME NEW p \in Procs, Command(p)
      PROVE  \A w \in branch \ branch' : head[w] \notin {"local", "remote"}
  <2>1. CASE Unbranch(p) BY <2>1 DEF Unbranch, SameCommit
  <2>2. CASE ~Unbranch(p)
    <3>1. ASSUME NEW v \in Trees, NEW t \in Threads,
                 \/ Claim(p, t, v) \/ Check(p, t, v) \/ (\E from \in Threads : Recover(p, from, t, v))
                 \/ \E s \in Spaces : ClaimExact(p, t, v, s) \/ PrepareOwned(p, t, v, s)
                                      \/ PrepareNew(p, t, v, s)
          PROVE  branch \subseteq branch'
      BY <3>1 DEF Claim, Check, Recover, ClaimExact, PrepareOwned, PrepareNew, work
    <3>2. ASSUME Write(p) \/ Answer(p) \/ Fail(p) \/ Inspect(p) \/ Remove(p) \/ Die(p)
          PROVE  branch' = branch
      BY <3>2 DEF Write, Answer, Fail, Inspect, Remove, Die, work
    <3>3. branch \subseteq branch' BY <1>2, <2>2, <3>1, <3>2 DEF Command
    <3> QED BY <3>3
  <2> QED BY <2>1, <2>2
<1>3. ASSUME NEW v \in Trees, World(v)
      PROVE  \A w \in branch \ branch' : head[w] \notin {"local", "remote"}
  <2>1. branch \subseteq branch'
    BY <1>3 DEF World, AddTree, RemoveTree, Leave, Return, Edit, Commit, Push
  <2> QED BY <2>1
<1> QED BY <1>1, <1>2, <1>3 DEF Next

\* A branch that goes away never had a commit of its own, whatever was done in the
\* worktree while the preparation that failed was being cleaned up.
THEOREM WorkStands == Spec => WorkSurvives
<1>1. [Next]_vars => [\A w \in branch \ branch' : head[w] \notin {"local", "remote"}]_vars
  BY BranchStep
<1> QED BY <1>1, PTL DEF Spec, WorkSurvives

===============================================================================
