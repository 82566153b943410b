--------------------- MODULE WorkspaceLifecycleProofs ---------------------
(***************************************************************************)
(* Proofs about WorkspaceLifecycle for any generations and any manifest of *)
(* dev servers: the record in the state file is true to the machine at     *)
(* every step of every operation, so a manager that dies between any two   *)
(* of them leaves nothing that runs and that the record does not name.     *)
(***************************************************************************)
EXTENDS WorkspaceLifecycle, WellFoundedInduction, TLAPS

Live == {"running", "frozen"}
ProcStates == {"none", "inert", "running", "frozen", "headless", "reused"}
Intents == [name : Names, action : Actions, sgen : ServerGens \cup {0}]
Sessions == [state : {"healthy", "shaky", "flagged", "lost", "bad"}, gen : Gens,
             sgen : ServerGens, mode : {"local", "managed"}]
Runtimes == [state : States \ {"absent"}, gen : Gens, handle : BOOLEAN,
             servers : Seq(Entries), act : Intents \cup {NoAct}, removed : BOOLEAN]

Machine ==
  /\ proc \in [Gens -> ProcStates]
  /\ serve \in [Names -> Sessions \cup {NoSession}]
  /\ gdir \in [Gens -> {"absent", "active", "retained"}]
  /\ faults \in 0..MaxFaults

-------------------------------------------------------------------------------
\* What a record must say of process groups p and sessions s, whichever operation is at
\* work: the strengthening of OwnedProcess, OwnedServers and StatesAgree.
Holds(r, p) == \A g \in Gens : p[g] \in Live => r.gen = g /\ r.handle
Covers(r, s) ==
  \A n \in Names : s[n] # NoSession =>
    s[n].gen = r.gen /\ (Recorded(r, n) \/ (r.act # NoAct /\ r.act.name = n))
Bare(r) == r.act = NoAct /\ r.servers = <<>>
Dead == {"absent", "stopped", "cleaning", "failed"}
Claims(r, p) ==
  /\ r.state \in Dead => Bare(r) /\ \A g \in Gens : p[g] \notin Live
  /\ r.state = "suspended" => Bare(r) /\ p[r.gen] # "running"
  /\ r.state = "running" => p[r.gen] # "frozen"
Truthful(r, p, s) ==
  r \in Runtimes \cup {NoRecord} /\ Holds(r, p) /\ Covers(r, s) /\ Claims(r, p)

-------------------------------------------------------------------------------
\* The steps of each operation, and the states of the record it works on.
Path(op) ==
  CASE op = "start" -> {"create", "launch", "commit", "release", "start", "starting",
                        "started", "inspect"}
    [] op = "resume" -> {"thaw", "start", "starting", "started", "inspect"}
    [] op = "suspend" -> {"stop", "stopping", "stopped", "freeze", "frozen"}
    [] op = "stop" -> {"stop", "stopping", "stopped", "terminate", "ended"}
    [] op = "restart" -> {"ledger", "start", "starting", "started"}
    [] op = "rollback" -> {"ledger", "stop", "stopping", "stopped", "refreeze", "frozen"}
    [] op = "failstart" -> {"ledger", "cleanup", "stop", "stopping", "stopped", "kill"}
    [] op = "reconcile" -> {"ledger", "judge", "cleanup", "stop", "stopping", "stopped", "kill"}
    [] op = "mutate" -> {"ledger", "mutate", "publish", "starting", "started", "start",
                         "stopping", "stopped", "ended"}
    [] op = "clean" -> {"clean", "cleaned"}
Operations == {"start", "resume", "suspend", "stop", "restart", "rollback", "failstart",
               "reconcile", "mutate", "clean"}
Worked(op) ==
  CASE op = "start" -> {"starting"}
    [] op \in {"resume", "rollback"} -> {"resuming"}
    [] op \in {"suspend", "restart"} -> {"suspending"}
    [] op = "stop" -> {"stopping"}
    [] op = "failstart" -> {"starting", "running"}
    [] op = "reconcile" -> States \ Dead
    [] op = "mutate" -> {"running"}
    [] op = "clean" -> {"cleaning"}

\* Where the operation's copy of the record is ahead of the saved one, and where an
\* intent is being carried out.
Ahead == {"create", "started", "stopped", "frozen", "ended"}
Intending == {"starting", "stopping", "publish"}
Places == {"create", "launch", "commit", "release", "inspect", "start", "starting", "started",
           "stop", "stopping", "stopped", "ledger", "judge", "cleanup", "kill", "mutate",
           "publish", "freeze", "frozen", "thaw", "refreeze", "terminate", "ended", "clean",
           "cleaned"}
Jobs == [op : Operations, at : Places, todo : Seq(Names \cup Actions), flag : BOOLEAN]

\* What an operation j that works on m, with d saved, has to say of them.
Doing(j) == j \in Jobs /\ j.at \in Path(j.op)
Following(j, d, m) ==
  /\ m \in Runtimes /\ (j.at \notin Ahead => m = d)
  /\ j.at \notin {"frozen", "ended"} => m.state \in Worked(j.op)
Todo(j) ==
  /\ j.op \in {"start", "resume", "restart"} /\ j.at # "ledger" =>
       /\ j.todo \in Seq(Names)
       /\ j.at \in {"starting", "started"} => j.todo # <<>>
  /\ j.op = "mutate" =>
       /\ j.at \in {"ledger", "mutate"} => \E n \in Names, a \in Actions : j.todo = <<n, a>>
       /\ j.at \in {"starting", "started"} => \E n \in Names : j.todo = <<n>>
       /\ j.at = "start" => j.todo = <<>>
Intended(j, m) ==
  /\ j.at \in Intending => m.act # NoAct
  /\ j.at \notin Intending \cup {"ledger", "ended", "terminate"} => m.act = NoAct
  /\ j.at \in {"freeze", "refreeze", "kill", "thaw"} => m.servers = <<>>
  /\ j.at = "terminate" /\ ~j.flag => Bare(m)
\* What it has seen or made of the process group x and of the directory y.
Unfrozen(j) ==
  \/ j.op \in {"start", "restart"} \/ (j.op = "resume" /\ j.at # "thaw")
  \/ j.op = "suspend" /\ j.at # "frozen"
Unowned(j) ==
  /\ j.op \in {"failstart", "reconcile"} /\ ~j.flag
  /\ j.at \in {"stop", "stopping", "stopped", "kill"}
Seen(j, m, x, y) ==
  /\ Unfrozen(j) => x # "frozen"
  /\ Unowned(j) => x \notin Live
  /\ j.at = "thaw" => x # "running"
  /\ j.at \in {"create", "launch", "commit", "release"} => y = "active"
  /\ j.at = "release" => m.handle
Works(j, d, m, p, y) ==
  /\ Doing(j) /\ Following(j, d, m) /\ Todo(j) /\ Intended(j, m)
  /\ Seen(j, m, p[m.gen], y[m.gen])
Working == Works(job, disk, mem, proc, gdir)

Inv ==
  /\ Machine /\ OnlyDeadRetained
  /\ Truthful(disk, proc, serve) /\ Truthful(mem, proc, serve)
  /\ (job = Idle /\ mem = disk) \/ Working

-------------------------------------------------------------------------------
\* Induction over the natural numbers for the membership of a set.
LEMMA SetInduction ==
  ASSUME NEW S, 0 \in S, \A n \in Nat : n \in S => n + 1 \in S
  PROVE  \A n \in Nat : n \in S
<1> SUFFICES ASSUME NEW n \in Nat, n \notin S PROVE FALSE
  OBVIOUS
<1>1. PICK W : W = {k \in Nat : k \notin S} OBVIOUS
<1>2. W \subseteq Nat /\ W # {} BY <1>1
<1>3. PICK m \in W : \A k \in W : ~(<<k, m>> \in OpToRel(<, Nat))
  BY <1>2, NatLessThanWellFounded, WFMin
<1>4. \A k \in W : ~(k < m) BY <1>2, <1>3 DEF OpToRel
<1>5. m # 0 /\ m \in Nat /\ m \notin S BY <1>1
<1>6. m - 1 \in Nat /\ m - 1 < m /\ m = (m - 1) + 1 BY <1>5
<1>7. m - 1 \in S BY <1>1, <1>4, <1>6
<1> QED BY <1>5, <1>6, <1>7

\* The recursive function of Only exists on every prefix of the sequence.
UpTo(S, s, T, n) ==
  {f \in [0..n -> Seq(S)] :
     \A i \in 0..n : f[i] = IF i = 0 THEN <<>>
                            ELSE IF s[i] \in T THEN Append(f[i - 1], s[i]) ELSE f[i - 1]}

LEMMA PrefixStep ==
  ASSUME NEW S, NEW s \in Seq(S), NEW T, NEW n \in Nat, n + 1 <= Len(s),
         NEW f \in UpTo(S, s, T, n)
  PROVE  UpTo(S, s, T, n + 1) # {}
<1>1. PICK e : e = s[n + 1] OBVIOUS
<1>2. e \in S BY <1>1, n + 1 \in 1..Len(s)
<1>3. f \in [0..n -> Seq(S)] /\ f[n] \in Seq(S) BY DEF UpTo
<1>4. PICK t : t = IF e \in T THEN Append(f[n], e) ELSE f[n] OBVIOUS
<1>5. t \in Seq(S) BY <1>2, <1>3, <1>4
<1>6. PICK g : g = [i \in 0..(n + 1) |-> IF i <= n THEN f[i] ELSE t] OBVIOUS
<1>7. g \in [0..(n + 1) -> Seq(S)] BY <1>3, <1>5, <1>6
<1>8. ASSUME NEW i \in 0..(n + 1)
      PROVE  g[i] = IF i = 0 THEN <<>>
                    ELSE IF s[i] \in T THEN Append(g[i - 1], s[i]) ELSE g[i - 1]
  <2>1. CASE i <= n
    <3>1. i \in 0..n /\ g[i] = f[i] BY <2>1, <1>6
    <3>2. i # 0 => i - 1 \in 0..n /\ i - 1 \in 0..(n + 1) /\ g[i - 1] = f[i - 1] BY <2>1, <1>6
    <3> QED BY <3>1, <3>2 DEF UpTo
  <2>2. CASE ~(i <= n)
    <3>1. i = n + 1 /\ i # 0 /\ i - 1 = n BY <2>2
    <3>2. g[i] = t /\ g[n] = f[n] BY <3>1, <1>6
    <3> QED BY <3>1, <3>2, <1>1, <1>4
  <2> QED BY <2>1, <2>2
<1>9. g \in UpTo(S, s, T, n + 1) BY <1>7, <1>8 DEF UpTo
<1> QED BY <1>9

LEMMA PrefixExists ==
  ASSUME NEW S, NEW s \in Seq(S), NEW T
  PROVE  UpTo(S, s, T, Len(s)) # {}
<1>1. PICK P : P = {n \in Nat : n <= Len(s) => UpTo(S, s, T, n) # {}} OBVIOUS
<1>2. 0 \in P
  <2>1. PICK f : f = [i \in 0..0 |-> <<>>] OBVIOUS
  <2>2. f \in [0..0 -> Seq(S)] BY <2>1
  <2>3. f \in UpTo(S, s, T, 0) BY <2>1, <2>2 DEF UpTo
  <2> QED BY <2>3, <1>1
<1>3. ASSUME NEW n \in Nat, n \in P PROVE n + 1 \in P
  <2>1. n + 1 \in Nat OBVIOUS
  <2>2. n + 1 <= Len(s) => UpTo(S, s, T, n + 1) # {}
    <3> SUFFICES ASSUME n + 1 <= Len(s) PROVE UpTo(S, s, T, n + 1) # {} OBVIOUS
    <3>1. n <= Len(s) OBVIOUS
    <3>2. PICK f : f \in UpTo(S, s, T, n) BY <3>1, <1>3, <1>1
    <3> QED BY <3>2, PrefixStep
  <2> QED BY <2>1, <2>2, <1>1
<1>4. \A n \in Nat : n \in P BY <1>2, <1>3, SetInduction
<1>5. Len(s) \in Nat /\ Len(s) <= Len(s) OBVIOUS
<1> QED BY <1>1, <1>4, <1>5

\* What Only returns is such a function's value for the whole sequence.
LEMMA OnlyPrefix ==
  ASSUME NEW S, NEW s \in Seq(S), NEW T
  PROVE  \E f \in UpTo(S, s, T, Len(s)) : Only(s, T) = f[Len(s)]
<1> DEFINE Rec(f) == [i \in 0..Len(s) |-> IF i = 0 THEN <<>>
                       ELSE IF s[i] \in T THEN Append(f[i - 1], s[i]) ELSE f[i - 1]]
<1>1. PICK h : h \in UpTo(S, s, T, Len(s)) BY PrefixExists
<1>2. h = Rec(h) BY <1>1 DEF UpTo
<1>3. PICK f : f = CHOOSE g : g = Rec(g) OBVIOUS
<1>4. f = Rec(f) BY <1>2, <1>3
<1>5. Only(s, T) = f[Len(s)] BY <1>3 DEF Only
<1>6. \A i \in 0..Len(s) : f[i] = IF i = 0 THEN <<>>
                        ELSE IF s[i] \in T THEN Append(f[i - 1], s[i]) ELSE f[i - 1]
  BY <1>4
<1>7. PICK P : P = {n \in Nat : n <= Len(s) => f[n] \in Seq(S)} OBVIOUS
<1> HIDE DEF Rec
<1>8. 0 \in P
  <2>1. 0 \in 0..Len(s) /\ 0 \in Nat OBVIOUS
  <2>2. f[0] = <<>> BY <2>1, <1>6
  <2>3. <<>> \in Seq(S) OBVIOUS
  <2> QED BY <2>1, <2>2, <2>3, <1>7
<1>9. ASSUME NEW n \in Nat, n \in P PROVE n + 1 \in P
  <2>1. n + 1 \in Nat OBVIOUS
  <2>2. n + 1 <= Len(s) => f[n + 1] \in Seq(S)
    <3> SUFFICES ASSUME n + 1 <= Len(s) PROVE f[n + 1] \in Seq(S) OBVIOUS
    <3>1. n <= Len(s) /\ n + 1 \in 0..Len(s) /\ n + 1 # 0 /\ (n + 1) - 1 = n OBVIOUS
    <3>2. f[n] \in Seq(S) BY <3>1, <1>9, <1>7
    <3>3. s[n + 1] \in S BY n + 1 \in 1..Len(s)
    <3>4. f[n + 1] = IF s[n + 1] \in T THEN Append(f[n], s[n + 1]) ELSE f[n]
      BY <3>1, <1>6
    <3> QED BY <3>2, <3>3, <3>4
  <2> QED BY <2>1, <2>2, <1>7
<1>10. \A n \in Nat : n \in P BY <1>8, <1>9, SetInduction
<1>11. \A i \in 0..Len(s) : f[i] \in Seq(S) BY <1>10, <1>7
<1>12. f = [i \in 0..Len(s) |-> f[i]] BY <1>4 DEF Rec
<1>13. f \in [0..Len(s) -> Seq(S)] BY <1>11, <1>12
<1>14. f \in UpTo(S, s, T, Len(s)) BY <1>13, <1>6 DEF UpTo
<1> QED BY <1>14, <1>5

\* Only(s, T) has the elements of s that are in T.
LEMMA OnlyTyped ==
  ASSUME NEW S, NEW s \in Seq(S), NEW T
  PROVE  /\ Only(s, T) \in Seq(S)
         /\ Len(s) = 0 => Only(s, T) = <<>>
<1>1. PICK f \in UpTo(S, s, T, Len(s)) : Only(s, T) = f[Len(s)] BY OnlyPrefix
<1>2. Len(s) \in 0..Len(s) OBVIOUS
<1> QED BY <1>1, <1>2 DEF UpTo

LEMMA OnlyKeeps ==
  ASSUME NEW S, NEW s \in Seq(S), NEW T, NEW i \in DOMAIN s, s[i] \in T
  PROVE  \E j \in DOMAIN Only(s, T) : Only(s, T)[j] = s[i]
<1>1. PICK f \in UpTo(S, s, T, Len(s)) : Only(s, T) = f[Len(s)] BY OnlyPrefix
<1>2. \A n \in 0..Len(s) : f[n] \in Seq(S) BY <1>1 DEF UpTo
<1>3. \A n \in 0..Len(s) : f[n] = IF n = 0 THEN <<>>
                        ELSE IF s[n] \in T THEN Append(f[n - 1], s[n]) ELSE f[n - 1]
  BY <1>1 DEF UpTo
<1>4. PICK P : P = {n \in Nat : i <= n /\ n <= Len(s) =>
                                 \E j \in DOMAIN f[n] : f[n][j] = s[i]}
  OBVIOUS
<1>5. 0 \in P BY <1>4
<1>6. ASSUME NEW n \in Nat, n \in P PROVE n + 1 \in P
  <2>1. n + 1 \in Nat OBVIOUS
  <2>2. ASSUME i <= n + 1, n + 1 <= Len(s) PROVE \E j \in DOMAIN f[n + 1] : f[n + 1][j] = s[i]
    <3>1. n <= Len(s) /\ n + 1 \in 0..Len(s) /\ n \in 0..Len(s) /\ n + 1 # 0 /\ (n + 1) - 1 = n
      BY <2>2
    <3>2. PICK a : a = f[n] OBVIOUS
    <3>3. a \in Seq(S) BY <3>1, <3>2, <1>2
    <3>4. f[n + 1] = IF s[n + 1] \in T THEN Append(a, s[n + 1]) ELSE a BY <3>1, <3>2, <1>3
    <3>5. s[n + 1] \in S BY <2>2, n + 1 \in 1..Len(s)
    <3>6. CASE i = n + 1
      <4>1. f[n + 1] = Append(a, s[i]) BY <3>4, <3>6
      <4>2. Len(a) + 1 \in DOMAIN Append(a, s[i]) /\ Append(a, s[i])[Len(a) + 1] = s[i]
        BY <3>3, <3>5, <3>6
      <4> QED BY <4>1, <4>2
    <3>7. CASE i # n + 1
      <4>1. i <= n BY <2>2, <3>7
      <4>2. PICK j \in DOMAIN a : a[j] = s[i] BY <4>1, <3>1, <3>2, <1>6, <1>4
      <4>3. j \in DOMAIN Append(a, s[n + 1]) /\ Append(a, s[n + 1])[j] = s[i]
        BY <4>2, <3>3, <3>5
      <4> QED BY <4>2, <4>3, <3>4
    <3> QED BY <3>6, <3>7
  <2> QED BY <2>1, <2>2, <1>4
<1>7. \A n \in Nat : n \in P BY <1>5, <1>6, SetInduction
<1>8. Len(s) \in Nat /\ i <= Len(s) /\ Len(s) <= Len(s) OBVIOUS
<1> QED BY <1>1, <1>4, <1>7, <1>8

-------------------------------------------------------------------------------
\* Records.
LEMMA RecordFacts ==
  ASSUME NEW r \in Runtimes \cup {NoRecord}
  PROVE  /\ r.servers \in Seq(Entries) /\ r.act \in Intents \cup {NoAct}
         /\ r.handle \in BOOLEAN /\ r.removed \in BOOLEAN
         /\ r.gen \in Gens \cup {""} /\ r.state \in States
         /\ r.state # "absent" => r \in Runtimes /\ r.gen \in Gens
         /\ r.state = "absent" => r = NoRecord
<1>1. CASE r \in Runtimes BY <1>1 DEF Runtimes, States
<1>2. CASE r = NoRecord
  <2>1. <<>> \in Seq(Entries) OBVIOUS
  <2> QED BY <2>1, <1>2 DEF NoRecord, States
<1> QED BY <1>1, <1>2

LEMMA RecordedAt ==
  ASSUME NEW r \in Runtimes \cup {NoRecord}, NEW n
  PROVE  Recorded(r, n) <=> \E i \in DOMAIN r.servers : r.servers[i].name = n
BY DEF Recorded, NamesOf, Range

LEMMA EntryFacts ==
  ASSUME NEW r \in Runtimes \cup {NoRecord}, NEW i \in DOMAIN r.servers
  PROVE  r.servers[i] \in Entries /\ r.servers[i].name \in Names
<1>1. r.servers \in Seq(Entries) BY RecordFacts
<1>2. r.servers[i] \in Entries BY <1>1
<1> QED BY <1>2 DEF Entries

LEMMA RecordTyped ==
  ASSUME NEW r \in Runtimes \cup {NoRecord}
  PROVE  r \in Records
<1>1. NoAct \in [name : Names \cup {""}, action : Actions \cup {"none"},
                 sgen : ServerGens \cup {0}]
  BY DEF NoAct
<1>2. Intents \subseteq [name : Names \cup {""}, action : Actions \cup {"none"},
                         sgen : ServerGens \cup {0}]
  BY DEF Intents
<1>3. CASE r \in Runtimes
  <2>1. PICK G, A : G = Gens \cup {""}
                    /\ A = [name : Names \cup {""}, action : Actions \cup {"none"},
                            sgen : ServerGens \cup {0}]
    OBVIOUS
  <2>2. Gens \subseteq G /\ NoAct \in A /\ Intents \subseteq A BY <2>1, <1>1, <1>2
  <2>3. r \in [state : States, gen : G, handle : BOOLEAN, servers : Seq(Entries), act : A,
               removed : BOOLEAN]
    BY ONLY <2>2, <1>3 DEF Runtimes
  <2> QED BY <2>1, <2>3 DEF Records
<1>4. CASE r = NoRecord
  <2>1. <<>> \in Seq(Entries) OBVIOUS
  <2> QED BY <2>1, <1>1, <1>4 DEF NoRecord, Records, States
<1> QED BY <1>3, <1>4

\* Sessions.
LEMMA SessionFacts ==
  ASSUME NEW t \in Sessions \cup {NoSession}
  PROVE  /\ t.state = "none" <=> t = NoSession
         /\ t # NoSession => t \in Sessions /\ t.gen \in Gens /\ t.sgen \in ServerGens
         /\ t.mode \in {"local", "managed"}
<1>1. CASE t = NoSession BY <1>1 DEF NoSession
<1>2. CASE t \in Sessions
  <2>1. t.state # "none" /\ NoSession.state = "none" BY <1>2 DEF Sessions, NoSession
  <2> QED BY <2>1, <1>2 DEF Sessions
<1> QED BY <1>1, <1>2

LEMMA ProbedFacts ==
  ASSUME NEW t \in Sessions \cup {NoSession}
  PROVE  /\ Probed(t) \in Sessions \cup {NoSession}
         /\ Probed(t) = NoSession <=> t = NoSession
         /\ Probed(t).gen = t.gen
<1>1. CASE t = NoSession
  <2>1. Probed(t) = t BY <1>1 DEF NoSession, Probed
  <2> QED BY <2>1, <1>1
<1>2. CASE t \in Sessions
  <2>1. PICK x : x = Probed(t).state OBVIOUS
  <2>2. x \in {"healthy", "shaky", "flagged", "lost", "bad"} /\ Probed(t) = [t EXCEPT !.state = x]
    BY <1>2, <2>1 DEF Sessions, Probed
  <2>3. Probed(t) \in Sessions /\ Probed(t).gen = t.gen BY <1>2, <2>2 DEF Sessions
  <2>4. NoSession \notin Sessions BY DEF Sessions, NoSession
  <2> QED BY <2>3, <2>4, <1>2
<1> QED BY <1>1, <1>2

\* A session may be gone in t, but there is none that was not there in s.
Shrinks(s, t) ==
  \A n \in Names : t[n] # NoSession => s[n] # NoSession /\ t[n].gen = s[n].gen
Tables == [Names -> Sessions \cup {NoSession}]
Quieter(p, q) == \A g \in Gens : q[g] \in Live => q[g] = p[g]

LEMMA ProbedAllKeeps ==
  ASSUME Machine, NEW r
  PROVE  ProbedAll(r) \in Tables /\ Shrinks(serve, ProbedAll(r))
<1>1. PICK t : t = ProbedAll(r) OBVIOUS
<1>2. \A n \in Names : t[n] \in {serve[n], Probed(serve[n])} BY <1>1 DEF ProbedAll
<1>3. \A n \in Names : serve[n] \in Sessions \cup {NoSession} BY DEF Machine
<1>4. \A n \in Names : t[n] \in Sessions \cup {NoSession} BY <1>2, <1>3, ProbedFacts
<1>5. t = [n \in Names |-> t[n]] BY <1>1 DEF ProbedAll
<1>6. t \in Tables BY <1>4, <1>5 DEF Tables
<1>7. Shrinks(serve, t) BY <1>2, <1>3, ProbedFacts DEF Shrinks
<1> QED BY <1>1, <1>6, <1>7

LEMMA SameKeeps ==
  ASSUME Machine
  PROVE  serve \in Tables /\ Shrinks(serve, serve)
BY DEF Machine, Tables, Shrinks

LEMMA ProbedByKeeps ==
  ASSUME Machine, NEW r
  PROVE  /\ ProbedBy(r) \in Tables /\ Shrinks(serve, ProbedBy(r))
         /\ ProbedByPreflight(r) \in Tables /\ Shrinks(serve, ProbedByPreflight(r))
BY ProbedAllKeeps, SameKeeps DEF ProbedBy, ProbedByPreflight

LEMMA SetKeeps ==
  ASSUME Machine, NEW n \in Names, NEW t \in Sessions \cup {NoSession}, NEW s,
         t # NoSession => serve[n] # NoSession /\ t.gen = serve[n].gen,
         s = [serve EXCEPT ![n] = t]
  PROVE  s \in Tables /\ Shrinks(serve, s)
BY DEF Machine, Tables, Shrinks

-------------------------------------------------------------------------------
\* A record stays true when processes end and sessions go.
LEMMA TruthfulKept ==
  ASSUME NEW r, NEW p, NEW q, NEW s, NEW t, Truthful(r, p, s), Quieter(p, q), Shrinks(s, t)
  PROVE  Truthful(r, q, t)
<1>1. r \in Runtimes \cup {NoRecord} BY DEF Truthful
<1>2. Holds(r, q) BY DEF Truthful, Holds, Quieter
<1>3. Covers(r, t) BY DEF Truthful, Covers, Shrinks
<1>4. ASSUME r.state \in Dead PROVE Bare(r) /\ \A g \in Gens : q[g] \notin Live
  BY <1>4 DEF Truthful, Claims, Quieter
<1>5. ASSUME r.state = "suspended" PROVE Bare(r) /\ q[r.gen] # "running"
  <2>1. r.gen \in Gens BY <1>1, <1>5, RecordFacts
  <2>2. Bare(r) /\ p[r.gen] # "running" BY <1>5 DEF Truthful, Claims
  <2> QED BY <2>1, <2>2 DEF Quieter, Live
<1>6. ASSUME r.state = "running" PROVE q[r.gen] # "frozen"
  <2>1. r.gen \in Gens BY <1>1, <1>6, RecordFacts
  <2>2. p[r.gen] # "frozen" BY <1>6 DEF Truthful, Claims
  <2> QED BY <2>1, <2>2 DEF Quieter, Live
<1> QED BY <1>1, <1>2, <1>3, <1>4, <1>5, <1>6 DEF Truthful, Claims

\* Nothing listens for a record without ledger and intent.
LEMMA BareCovers ==
  ASSUME NEW r \in Runtimes \cup {NoRecord}, NEW s, Bare(r), Covers(r, s)
  PROVE  \A n \in Names : s[n] = NoSession
<1>1. r.servers = <<>> /\ r.act = NoAct BY DEF Bare
<1>2. DOMAIN r.servers = {} BY <1>1
<1>3. \A n \in Names : ~Recorded(r, n) BY <1>2, RecordedAt
<1> QED BY <1>1, <1>3 DEF Covers

LEMMA StaleTruthful ==
  ASSUME NEW r \in Runtimes, NEW p, NEW s, Truthful(r, p, s)
  PROVE  Truthful(Stale(r), p, s)
<1>1. PICK q : q = Stale(r) OBVIOUS
<1>2. q \in Runtimes BY <1>1 DEF Stale, Runtimes, States
<1>3. q.state = "stale" /\ q.gen = r.gen /\ q.handle = r.handle /\ q.servers = r.servers
      /\ q.act = r.act
  BY <1>1 DEF Stale, Runtimes
<1>4. Holds(q, p) /\ Covers(q, s)
  BY <1>3 DEF Truthful, Holds, Covers, Recorded, NamesOf
<1>5. Claims(q, p) BY <1>3 DEF Claims, Dead
<1> QED BY <1>1, <1>2, <1>4, <1>5 DEF Truthful

\* With no process and no session, every record that holds neither is true.
LEMMA NothingLeft ==
  ASSUME NEW r \in Runtimes, NEW p, NEW s, Bare(r),
         \A g \in Gens : p[g] \notin Live, \A n \in Names : s[n] = NoSession
  PROVE  Truthful(r, p, s)
<1>1. r.gen \in Gens BY RecordFacts DEF Runtimes
<1>2. p[r.gen] \notin Live BY <1>1
<1>3. p[r.gen] # "running" /\ p[r.gen] # "frozen" BY <1>2 DEF Live
<1> QED BY <1>3 DEF Truthful, Holds, Covers, Claims

-------------------------------------------------------------------------------
\* The operation that is at work.
LEMMA AtWork ==
  ASSUME Inv, job.at # "idle"
  PROVE  /\ job \in Jobs /\ Doing(job) /\ Following(job, disk, mem) /\ Todo(job)
         /\ Intended(job, mem) /\ Seen(job, mem, proc[mem.gen], gdir[mem.gen])
         /\ mem \in Runtimes /\ mem.gen \in Gens /\ job # Idle
         /\ job.at \notin Ahead => mem = disk
<1>1. job # Idle BY DEF Idle
<1>2. Working BY <1>1 DEF Inv
<1>3. mem \in Runtimes BY <1>2 DEF Working, Works, Following
<1>4. mem.gen \in Gens BY <1>3 DEF Runtimes
<1> QED BY <1>1, <1>2, <1>3, <1>4 DEF Working, Works, Following, Doing

LEMMA PathFacts ==
  ASSUME NEW j, Doing(j)
  PROVE  /\ j.at \in {"create", "launch", "commit", "release"} => j.op = "start"
         /\ j.at = "inspect" => j.op \in {"start", "resume"}
         /\ j.at \in {"start", "starting", "started"} =>
              j.op \in {"start", "resume", "restart", "mutate"}
         /\ j.at = "stop" => j.op \in {"suspend", "stop", "rollback", "failstart", "reconcile"}
         /\ j.at \in {"stopping", "stopped"} =>
              j.op \in {"suspend", "stop", "rollback", "failstart", "reconcile", "mutate"}
         /\ j.at = "ledger" => j.op \in {"restart", "rollback", "failstart", "reconcile", "mutate"}
         /\ j.at \in {"cleanup", "kill"} => j.op \in {"failstart", "reconcile"}
         /\ j.at = "judge" => j.op = "reconcile"
         /\ j.at \in {"mutate", "publish"} => j.op = "mutate"
         /\ j.at = "freeze" => j.op = "suspend"
         /\ j.at = "frozen" => j.op \in {"suspend", "rollback"}
         /\ j.at = "thaw" => j.op = "resume"
         /\ j.at = "refreeze" => j.op = "rollback"
         /\ j.at = "terminate" => j.op = "stop"
         /\ j.at = "ended" => j.op \in {"stop", "mutate"}
         /\ j.at \in {"clean", "cleaned"} => j.op = "clean"
<1>1. j.op \in Operations /\ j.at \in Path(j.op) BY DEF Doing, Jobs
<1> QED BY <1>1 DEF Operations, Path

-------------------------------------------------------------------------------
\* How a step leaves the record and the operation.
LEMMA QuitInv ==
  ASSUME Machine', OnlyDeadRetained', Truthful(disk, proc', serve'), Quit
  PROVE  Inv'
<1>1. mem' = disk /\ disk' = disk /\ job' = Idle BY DEF Quit
<1>2. Truthful(disk', proc', serve') /\ Truthful(mem', proc', serve') BY <1>1
<1>3. (job = Idle /\ mem = disk)' BY <1>1
<1> QED BY <1>2, <1>3 DEF Inv

LEMMA EndInv ==
  ASSUME NEW r, Machine', OnlyDeadRetained', Truthful(r, proc', serve'), End(r)
  PROVE  Inv'
<1>1. mem' = r /\ disk' = r /\ job' = Idle BY DEF End
<1>2. Truthful(disk', proc', serve') /\ Truthful(mem', proc', serve') BY <1>1
<1>3. (job = Idle /\ mem = disk)' BY <1>1
<1> QED BY <1>2, <1>3 DEF Inv

LEMMA GoInv ==
  ASSUME Machine', OnlyDeadRetained', Truthful(disk', proc', serve'),
         Truthful(mem', proc', serve'), Works(job', disk', mem', proc', gdir')
  PROVE  Inv'
BY DEF Inv, Working

LEMMA StaleInv ==
  ASSUME Machine', OnlyDeadRetained', mem \in Runtimes, Truthful(mem, proc', serve'),
         End(Stale(mem))
  PROVE  Inv'
<1>1. Truthful(Stale(mem), proc', serve') BY StaleTruthful
<1> QED BY <1>1, EndInv

\* A step that leaves processes and directories alone and starts no session.
LEMMA CalmStep ==
  ASSUME Inv, UNCHANGED <<proc, gdir>>, faults' \in 0..MaxFaults,
         serve' \in Tables, Shrinks(serve, serve')
  PROVE  /\ Machine' /\ OnlyDeadRetained' /\ Truthful(disk, proc', serve')
         /\ Truthful(mem, proc', serve')
<1>1. Machine' BY DEF Inv, Machine, Tables
<1>2. OnlyDeadRetained' BY DEF Inv, OnlyDeadRetained
<1>3. Quieter(proc, proc') BY DEF Quieter
<1>4. Truthful(disk, proc, serve) /\ Truthful(mem, proc, serve) BY DEF Inv
<1>5. Truthful(disk, proc', serve') BY <1>3, <1>4, TruthfulKept
<1>6. Truthful(mem, proc', serve') BY <1>3, <1>4, TruthfulKept
<1> QED BY <1>1, <1>2, <1>5, <1>6

LEMMA FaultFacts ==
  ASSUME Inv, Fault \/ NoFault
  PROVE  faults' \in 0..MaxFaults
<1>1. faults \in 0..MaxFaults /\ MaxFaults \in Nat BY LimitsAssumption DEF Inv, Machine
<1> QED BY <1>1 DEF Fault, NoFault

LEMMA StillStep ==
  ASSUME Inv, UNCHANGED <<proc, serve, gdir>>, Fault \/ NoFault
  PROVE  /\ Machine' /\ OnlyDeadRetained' /\ Truthful(disk, proc', serve')
         /\ Truthful(mem, proc', serve')
<1>1. serve' \in Tables /\ Shrinks(serve, serve')
  <2>1. serve \in Tables /\ Shrinks(serve, serve) BY SameKeeps DEF Inv
  <2> QED BY <2>1
<1> QED BY <1>1, CalmStep, FaultFacts

-------------------------------------------------------------------------------
\* A failed start of a dev server, or of the runtime.
LEMMA StartFailedInv ==
  ASSUME Inv, Machine', OnlyDeadRetained', Truthful(mem, proc', serve'),
         job.at \in {"launch", "release", "inspect", "starting"}, StartFailed(mem),
         job.op \in {"start", "resume", "restart", "mutate"}
  PROVE  Inv'
<1>1. job.at # "idle" /\ job.at \notin Ahead BY DEF Ahead
<1>2. /\ job \in Jobs /\ Doing(job) /\ Following(job, disk, mem) /\ Todo(job)
      /\ mem \in Runtimes /\ mem.gen \in Gens /\ mem = disk
  BY <1>1, AtWork
<1>3. mem.state \in Worked(job.op) BY <1>1, <1>2 DEF Following, Ahead
<1>4. CASE job.op = "start"
  <2>1. job' = [job EXCEPT !.op = "failstart", !.at = "ledger"] /\ mem' = mem /\ disk' = disk
    BY <1>4 DEF StartFailed, Switch
  <2>2. job' \in Jobs /\ job'.at = "ledger" /\ job'.op = "failstart"
    BY <2>1, <1>2 DEF Jobs, Operations, Places
  <2>3. mem.state \in Worked("failstart") BY <1>3, <1>4 DEF Worked
  <2>4. Works(job', disk', mem', proc', gdir')
    BY <2>1, <2>2, <2>3, <1>2
    DEF Works, Doing, Following, Todo, Intended, Seen, Unfrozen, Unowned, Path, Ahead, Intending
  <2> QED BY <2>1, <2>4, <1>2, GoInv
<1>5. CASE job.op = "resume"
  <2>1. job' = [job EXCEPT !.op = "rollback", !.at = "ledger"] /\ mem' = mem /\ disk' = disk
    BY <1>5 DEF StartFailed, Switch
  <2>2. job' \in Jobs /\ job'.at = "ledger" /\ job'.op = "rollback"
    BY <2>1, <1>2 DEF Jobs, Operations, Places
  <2>3. mem.state \in Worked("rollback") BY <1>3, <1>5 DEF Worked
  <2>4. Works(job', disk', mem', proc', gdir')
    BY <2>1, <2>2, <2>3, <1>2
    DEF Works, Doing, Following, Todo, Intended, Seen, Unfrozen, Unowned, Path, Ahead, Intending
  <2> QED BY <2>1, <2>4, <1>2, GoInv
<1>6. CASE job.op = "restart"
  <2>1. End(Stale(mem)) BY <1>6 DEF StartFailed
  <2> QED BY <2>1, <1>2, StaleInv
<1>7. CASE job.op = "mutate"
  <2>1. Quit BY <1>7 DEF StartFailed
  <2> QED BY <2>1, <1>2, QuitInv
<1> QED BY <1>4, <1>5, <1>6, <1>7

\* The servers of a list are started.
LEMMA StartsDoneInv ==
  ASSUME Inv, UNCHANGED <<proc, gdir>>, Machine', OnlyDeadRetained',
         Truthful(mem, proc', serve'), job.at = "start", StartsDone(mem)
  PROVE  Inv'
<1>1. job.at # "idle" /\ job.at \notin Ahead BY DEF Ahead
<1>2. /\ job \in Jobs /\ Doing(job) /\ Following(job, disk, mem) /\ Todo(job)
      /\ Intended(job, mem) /\ Seen(job, mem, proc[mem.gen], gdir[mem.gen])
      /\ mem \in Runtimes /\ mem.gen \in Gens /\ mem = disk
  BY <1>1, AtWork
<1>3. job.op \in {"start", "resume", "restart", "mutate"} BY <1>2, PathFacts
<1>4. mem.state \in Worked(job.op) BY <1>1, <1>2 DEF Following, Ahead
<1>5. CASE job.op \in {"start", "resume"}
  <2>1. job' = [job EXCEPT !.at = "inspect"] /\ mem' = mem /\ disk' = disk
    BY <1>5 DEF StartsDone, To
  <2>2. job' \in Jobs /\ job'.at = "inspect" /\ job'.op = job.op /\ job'.todo = job.todo
    BY <2>1, <1>2 DEF Jobs, Places
  <2>3. mem.act = NoAct BY <1>2 DEF Intended, Intending
  <2>4. proc[mem.gen] # "frozen" BY <1>2, <1>5 DEF Seen, Unfrozen
  <2>5. Works(job', disk', mem', proc', gdir')
    BY <2>1, <2>2, <2>3, <2>4, <1>2, <1>4, <1>5
    DEF Works, Doing, Following, Todo, Intended, Seen, Unfrozen, Unowned, Path, Ahead, Intending
  <2> QED BY <2>1, <2>5, <1>2, GoInv
<1>6. CASE job.op = "restart"
  <2>1. PICK r : r = [mem EXCEPT !.state = "running"] OBVIOUS
  <2>2. End(r) BY <2>1, <1>6 DEF StartsDone
  <2>3. proc[mem.gen] # "frozen" BY <1>2, <1>6 DEF Seen, Unfrozen
  <2>4. r \in Runtimes /\ r.state = "running" /\ r.gen = mem.gen /\ r.handle = mem.handle
        /\ r.servers = mem.servers /\ r.act = mem.act
    BY <2>1, <1>2 DEF Runtimes, States
  <2>5. Truthful(r, proc', serve')
    BY <2>3, <2>4
    DEF Truthful, Holds, Covers, Claims, Dead, Recorded, NamesOf
  <2> QED BY <2>2, <2>5, EndInv
<1>7. CASE job.op = "mutate"
  <2>1. Quit BY <1>7 DEF StartsDone
  <2> QED BY <2>1, <1>2, QuitInv
<1> QED BY <1>3, <1>5, <1>6, <1>7

-------------------------------------------------------------------------------
\* The names of the manifest, and those of them that a record does not have.
LEMMA ExpectedNames ==
  /\ Expected \in Seq(Names)
  /\ \A r : Missing(r) \in Seq(Names)
<1>1. Expected \in Seq(STRING) BY ExpectedAssumption
<1>2. \A i \in DOMAIN Expected : Expected[i] \in Names BY DEF Names, Range
<1>3. Expected \in Seq(Names) BY <1>1, <1>2
<1>4. ASSUME NEW r PROVE Missing(r) \in Seq(Names)
  BY <1>3, OnlyTyped DEF Missing
<1> QED BY <1>3, <1>4

LEMMA TodoTyped == \A q \in Seq(Names) : q \in Seq(Names \cup Actions)
OBVIOUS

-------------------------------------------------------------------------------
\* Every dev server of the ledger is stopped.
LEMMA StopsDoneInv ==
  ASSUME Inv, UNCHANGED <<proc, gdir>>, Machine', OnlyDeadRetained',
         Truthful(mem, proc', serve'), job.at = "stop", mem.servers = <<>>, StopsDone(mem)
  PROVE  Inv'
<1>1. job.at # "idle" /\ job.at \notin Ahead BY DEF Ahead
<1>2. /\ job \in Jobs /\ Doing(job) /\ Following(job, disk, mem) /\ Todo(job)
      /\ Intended(job, mem) /\ Seen(job, mem, proc[mem.gen], gdir[mem.gen])
      /\ mem \in Runtimes /\ mem.gen \in Gens /\ mem = disk
  BY <1>1, AtWork
<1>3. job.op \in {"suspend", "stop", "rollback", "failstart", "reconcile"} BY <1>2, PathFacts
<1>4. mem.state \in Worked(job.op) BY <1>1, <1>2 DEF Following, Ahead
<1>5. mem.act = NoAct BY <1>2 DEF Intended, Intending
<1>6. PICK a : a = CASE job.op = "suspend" -> "freeze" [] job.op = "stop" -> "terminate"
                     [] job.op = "rollback" -> "refreeze" [] OTHER -> "kill"
  OBVIOUS
<1>7. job' = [job EXCEPT !.at = a] /\ mem' = mem /\ disk' = disk
  BY <1>3, <1>6 DEF StopsDone, To
<1>8. a \in Places /\ a \in Path(job.op) BY <1>3, <1>6 DEF Places, Path
<1>9. job' \in Jobs /\ job'.at = a /\ job'.op = job.op /\ job'.todo = job.todo
      /\ job'.flag = job.flag
  BY <1>7, <1>8, <1>2 DEF Jobs
<1>10. Doing(job') BY <1>8, <1>9 DEF Doing
<1>11. Following(job', disk', mem') BY <1>7, <1>9, <1>2, <1>4 DEF Following
<1>12. Todo(job') BY <1>9, <1>3 DEF Todo
<1>13. Intended(job', mem') BY <1>3, <1>5, <1>6, <1>7, <1>9 DEF Intended, Bare, Intending
<1>14. Seen(job', mem', proc'[mem'.gen], gdir'[mem'.gen])
  BY <1>2, <1>3, <1>6, <1>7, <1>9 DEF Seen, Unfrozen, Unowned
<1>15. Works(job', disk', mem', proc', gdir')
  BY <1>10, <1>11, <1>12, <1>13, <1>14 DEF Works
<1> QED BY <1>2, <1>7, <1>15, GoInv

\* One of them does not stop, or is not what the ledger says.
LEMMA StopFailedInv ==
  ASSUME Inv, UNCHANGED <<proc, gdir>>, Machine', OnlyDeadRetained',
         Truthful(mem, proc', serve'), job.at \in {"stop", "stopping"}, StopFailed(mem)
  PROVE  Inv'
<1>1. job.at # "idle" /\ job.at \notin Ahead BY DEF Ahead
<1>2. /\ job \in Jobs /\ Doing(job) /\ Following(job, disk, mem) /\ Todo(job)
      /\ Intended(job, mem) /\ Seen(job, mem, proc[mem.gen], gdir[mem.gen])
      /\ mem \in Runtimes /\ mem.gen \in Gens /\ mem = disk
  BY <1>1, AtWork
<1>3. job.op \in {"suspend", "stop", "rollback", "failstart", "reconcile", "mutate"}
  BY <1>2, PathFacts
<1>4. mem.state \in Worked(job.op) BY <1>1, <1>2 DEF Following, Ahead
<1>5. CASE job.op = "suspend"
  <2>1. job' = [job EXCEPT !.op = "restart", !.at = "ledger"] /\ mem' = mem /\ disk' = disk
    BY <1>5 DEF StopFailed, Switch
  <2>2. job' \in Jobs /\ job'.at = "ledger" /\ job'.op = "restart" /\ job'.todo = job.todo
    BY <2>1, <1>2 DEF Jobs, Operations, Places
  <2>3. mem.state \in Worked("restart") BY <1>4, <1>5 DEF Worked
  <2>4. proc[mem.gen] # "frozen" BY <1>2, <1>5 DEF Seen, Unfrozen
  <2>5. Works(job', disk', mem', proc', gdir')
    BY <2>1, <2>2, <2>3, <2>4, <1>2
    DEF Works, Doing, Following, Todo, Intended, Seen, Unfrozen, Unowned, Path, Ahead, Intending
  <2> QED BY <2>1, <2>5, <1>2, GoInv
<1>6. CASE job.op = "stop"
  <2>1. job' = [job EXCEPT !.at = "terminate", !.flag = TRUE] /\ mem' = mem /\ disk' = disk
    BY <1>6 DEF StopFailed
  <2>2. job' \in Jobs /\ job'.at = "terminate" /\ job'.op = "stop" /\ job'.flag = TRUE
    BY <2>1, <1>2, <1>6 DEF Jobs, Places
  <2>3. Works(job', disk', mem', proc', gdir')
    BY <2>1, <2>2, <1>2, <1>4, <1>6
    DEF Works, Doing, Following, Todo, Intended, Seen, Unfrozen, Unowned, Path, Ahead, Intending
  <2> QED BY <2>1, <2>3, <1>2, GoInv
<1>7. CASE job.op = "rollback"
  <2>1. End(mem) BY <1>7 DEF StopFailed
  <2> QED BY <2>1, EndInv
<1>8. CASE job.op \in {"failstart", "reconcile"}
  <2>1. Quit \/ End(Stale(mem)) BY <1>8 DEF StopFailed
  <2> QED BY <2>1, <1>2, StaleInv, QuitInv
<1>9. CASE job.op = "mutate"
  <2>1. Quit BY <1>9 DEF StopFailed
  <2> QED BY <2>1, <1>2, QuitInv
<1> QED BY <1>3, <1>5, <1>6, <1>7, <1>8, <1>9

-------------------------------------------------------------------------------
\* The reconciled ledger is saved and the operation goes on, or it gives up.
LEMMA LedgerFailedInv ==
  ASSUME Inv, Machine', OnlyDeadRetained', Truthful(mem, proc', serve'),
         job.at = "ledger", LedgerFailed
  PROVE  Inv'
<1>1. job.at # "idle" /\ job.at \notin Ahead BY DEF Ahead
<1>2. mem = disk /\ mem \in Runtimes BY <1>1, AtWork
<1> QED BY <1>2, QuitInv, StaleInv DEF LedgerFailed

LEMMA LedgerDoneInv ==
  ASSUME Inv, UNCHANGED <<proc, gdir>>, Machine', OnlyDeadRetained',
         NEW r \in Runtimes, r.state = mem.state, r.gen = mem.gen, r.act = NoAct,
         Truthful(r, proc', serve'), job.at = "ledger", LedgerDone(r)
  PROVE  Inv'
<1>1. job.at # "idle" /\ job.at \notin Ahead BY DEF Ahead
<1>2. /\ job \in Jobs /\ Doing(job) /\ Following(job, disk, mem) /\ Todo(job)
      /\ Seen(job, mem, proc[mem.gen], gdir[mem.gen])
      /\ mem \in Runtimes /\ mem.gen \in Gens /\ mem = disk
  BY <1>1, AtWork
<1>3. job.op \in {"restart", "rollback", "failstart", "reconcile", "mutate"} BY <1>2, PathFacts
<1>4. r.state \in Worked(job.op) BY <1>1, <1>2 DEF Following, Ahead
<1>5. CASE job.op = "restart"
  <2>1. job' = [job EXCEPT !.at = "start", !.todo = Missing(r)] /\ mem' = r /\ disk' = r
    BY <1>5 DEF LedgerDone
  <2>2. Missing(r) \in Seq(Names) /\ Missing(r) \in Seq(Names \cup Actions)
    BY ExpectedNames, TodoTyped
  <2>3. job' \in Jobs /\ job'.at = "start" /\ job'.op = "restart" /\ job'.todo = Missing(r)
    BY <2>1, <2>2, <1>2, <1>5 DEF Jobs, Places
  <2>4. proc[r.gen] # "frozen" BY <1>2, <1>5 DEF Seen, Unfrozen
  <2>5. Works(job', disk', mem', proc', gdir')
    BY <2>1, <2>2, <2>3, <2>4, <1>4, <1>5
    DEF Works, Doing, Following, Todo, Intended, Seen, Unfrozen, Unowned, Path, Ahead, Intending
  <2> QED BY <2>1, <2>5, GoInv
<1>6. CASE job.op # "restart"
  <2>1. PICK a : a = CASE job.op = "rollback" -> "stop" [] job.op = "failstart" -> "cleanup"
                       [] job.op = "reconcile" -> "judge" [] OTHER -> "mutate"
    OBVIOUS
  <2>2. job' = [job EXCEPT !.at = a] /\ mem' = r /\ disk' = r
    BY <2>1, <1>3, <1>6 DEF LedgerDone, SaveAnd
  <2>3. a \in Places /\ a \in Path(job.op) BY <2>1, <1>3, <1>6 DEF Places, Path
  <2>4. job' \in Jobs /\ job'.at = a /\ job'.op = job.op /\ job'.todo = job.todo
    BY <2>2, <2>3, <1>2 DEF Jobs
  <2>5. Doing(job') BY <2>3, <2>4 DEF Doing
  <2>6. Following(job', disk', mem') BY <2>2, <2>4, <1>4 DEF Following
  <2>7. Todo(job') BY <2>1, <2>4, <1>2, <1>3, <1>6 DEF Todo
  <2>8. Intended(job', mem') BY <2>1, <2>2, <2>4, <1>3, <1>6 DEF Intended, Intending
  <2>9. Seen(job', mem', proc'[mem'.gen], gdir'[mem'.gen])
    BY <2>1, <2>2, <2>4, <1>3, <1>6 DEF Seen, Unfrozen, Unowned
  <2>10. Works(job', disk', mem', proc', gdir')
    BY <2>5, <2>6, <2>7, <2>8, <2>9 DEF Works
  <2> QED BY <2>2, <2>10, GoInv
<1> QED BY <1>5, <1>6

-------------------------------------------------------------------------------
\* cleanupOwned refuses, or has left nothing of the generation.
LEMMA CleanupFailedInv ==
  ASSUME Inv, Machine', OnlyDeadRetained', Truthful(mem, proc', serve'),
         job.at \in {"cleanup", "kill", "judge"}, CleanupFailed(mem)
  PROVE  Inv'
<1>1. job.at # "idle" /\ job.at \notin Ahead BY DEF Ahead
<1>2. mem = disk /\ mem \in Runtimes BY <1>1, AtWork
<1> QED BY <1>2, QuitInv, StaleInv DEF CleanupFailed

LEMMA FailedBare ==
  ASSUME NEW r \in Runtimes
  PROVE  Failed(r) \in Runtimes /\ Bare(Failed(r))
<1>1. PICK q : q = Failed(r) OBVIOUS
<1>2. <<>> \in Seq(Entries) OBVIOUS
<1>3. q \in Runtimes /\ q.servers = <<>> /\ q.act = NoAct
  BY <1>1, <1>2 DEF Failed, Runtimes, States
<1> QED BY <1>1, <1>3 DEF Bare

LEMMA CleanedUpInv ==
  ASSUME Machine', OnlyDeadRetained', mem \in Runtimes, mem.act = NoAct,
         \A g \in Gens : proc'[g] \notin Live, \A n \in Names : serve'[n] = NoSession,
         CleanedUp(mem)
  PROVE  Inv'
<1>1. CASE End(Failed(mem))
  <2>1. Failed(mem) \in Runtimes /\ Bare(Failed(mem)) BY FailedBare
  <2>2. Truthful(Failed(mem), proc', serve') BY <2>1, NothingLeft
  <2> QED BY <2>2, <1>1, EndInv
<1>2. CASE End([mem EXCEPT !.state = "stopped", !.handle = FALSE, !.servers = <<>>])
  <2>1. PICK q : q = [mem EXCEPT !.state = "stopped", !.handle = FALSE, !.servers = <<>>]
    OBVIOUS
  <2>2. <<>> \in Seq(Entries) OBVIOUS
  <2>3. q \in Runtimes /\ q.servers = <<>> /\ q.act = NoAct
    BY <2>1, <2>2 DEF Runtimes, States
  <2>4. Bare(q) BY <2>3 DEF Bare
  <2>5. Truthful(q, proc', serve') BY <2>3, <2>4, NothingLeft
  <2>6. End(q) BY <2>1, <1>2
  <2> QED BY <2>5, <2>6, EndInv
<1> QED BY <1>1, <1>2 DEF CleanedUp

-------------------------------------------------------------------------------
\* What happens to processes and sessions while an operation waits.
LEMMA EnvInv ==
  ASSUME Inv, UNCHANGED <<disk, mem, job, gdir>>, Machine', Quieter(proc, proc'),
         Shrinks(serve, serve')
  PROVE  Inv'
<1>1. Truthful(disk, proc', serve') /\ Truthful(mem, proc', serve')
  BY TruthfulKept DEF Inv
<1>2. OnlyDeadRetained' BY DEF Inv, OnlyDeadRetained, Quieter, Live
<1>3. ASSUME Working PROVE Works(job, disk, mem, proc', gdir')
  <2>1. Doing(job) /\ Following(job, disk, mem) /\ Todo(job) /\ Intended(job, mem)
        /\ Seen(job, mem, proc[mem.gen], gdir[mem.gen])
    BY <1>3 DEF Working, Works
  <2>2. mem.gen \in Gens BY <2>1 DEF Following, Runtimes
  <2>3. proc'[mem.gen] \in Live => proc'[mem.gen] = proc[mem.gen] BY <2>2 DEF Quieter
  <2>4. Seen(job, mem, proc'[mem.gen], gdir'[mem.gen]) BY <2>1, <2>3 DEF Seen, Live
  <2> QED BY <2>1, <2>4 DEF Works
<1>4. CASE Working
  <2>1. Works(job', disk', mem', proc', gdir') BY <1>3, <1>4
  <2> QED BY <2>1, <1>1, <1>2, GoInv
<1>5. CASE job = Idle /\ mem = disk
  <2>1. (job = Idle /\ mem = disk)' BY <1>5
  <2> QED BY <2>1, <1>1, <1>2 DEF Inv
<1> QED BY <1>4, <1>5 DEF Inv

\* A process group ends, or is not one that counts.
LEMMA ProcStep ==
  ASSUME Inv, UNCHANGED <<serve, gdir>>, faults' \in 0..MaxFaults, NEW g \in Gens,
         NEW x \in ProcStates, x \notin Live, proc' = [proc EXCEPT ![g] = x]
  PROVE  /\ Machine' /\ OnlyDeadRetained' /\ Quieter(proc, proc') /\ Shrinks(serve, serve')
         /\ Truthful(disk, proc', serve') /\ Truthful(mem, proc', serve')
         /\ proc'[g] = x
<1>1. proc \in [Gens -> ProcStates] BY DEF Inv, Machine
<1>2. proc' \in [Gens -> ProcStates] /\ proc'[g] = x
      /\ \A h \in Gens : h # g => proc'[h] = proc[h]
  BY <1>1
<1>3. Machine' BY <1>2 DEF Inv, Machine
<1>4. Quieter(proc, proc') BY <1>2 DEF Quieter
<1>5. Shrinks(serve, serve') BY DEF Shrinks
<1>6. OnlyDeadRetained' BY <1>4 DEF Inv, OnlyDeadRetained, Quieter, Live
<1>7. Truthful(disk, proc', serve') /\ Truthful(mem, proc', serve')
  BY <1>4, <1>5, TruthfulKept DEF Inv
<1> QED BY <1>2, <1>3, <1>4, <1>5, <1>6, <1>7

LEMMA SupervisorExitsInv ==
  ASSUME Inv, NEW g \in Gens, SupervisorExits(g) PROVE Inv'
<1>1. proc' = [proc EXCEPT ![g] = "none"] /\ UNCHANGED <<disk, mem, job, serve, gdir>> /\ NoFault
  BY DEF SupervisorExits
<1>2. "none" \in ProcStates /\ "none" \notin Live BY DEF ProcStates, Live
<1>3. faults' \in 0..MaxFaults BY <1>1, FaultFacts
<1> QED BY <1>1, <1>2, <1>3, ProcStep, EnvInv

LEMMA HeadlessEndsInv ==
  ASSUME Inv, NEW g \in Gens, HeadlessEnds(g) PROVE Inv'
<1>1. proc' = [proc EXCEPT ![g] = "none"] /\ UNCHANGED <<disk, mem, job, serve, gdir>> /\ NoFault
  BY DEF HeadlessEnds
<1>2. "none" \in ProcStates /\ "none" \notin Live BY DEF ProcStates, Live
<1>3. faults' \in 0..MaxFaults BY <1>1, FaultFacts
<1> QED BY <1>1, <1>2, <1>3, ProcStep, EnvInv

LEMMA PidFreedInv ==
  ASSUME Inv, NEW g \in Gens, PidFreed(g) PROVE Inv'
<1>1. proc' = [proc EXCEPT ![g] = "none"] /\ UNCHANGED <<disk, mem, job, serve, gdir>> /\ NoFault
  BY DEF PidFreed
<1>2. "none" \in ProcStates /\ "none" \notin Live BY DEF ProcStates, Live
<1>3. faults' \in 0..MaxFaults BY <1>1, FaultFacts
<1> QED BY <1>1, <1>2, <1>3, ProcStep, EnvInv

LEMMA PidReusedInv ==
  ASSUME Inv, NEW g \in Gens, PidReused(g) PROVE Inv'
<1>1. proc' = [proc EXCEPT ![g] = "reused"] /\ UNCHANGED <<disk, mem, job, serve, gdir>> /\ Fault
  BY DEF PidReused
<1>2. "reused" \in ProcStates /\ "reused" \notin Live BY DEF ProcStates, Live
<1>3. faults' \in 0..MaxFaults BY <1>1, FaultFacts
<1> QED BY <1>1, <1>2, <1>3, ProcStep, EnvInv

LEMMA ProcessExitsInv ==
  ASSUME Inv, NEW g \in Gens, ProcessExits(g) PROVE Inv'
<1>1. UNCHANGED <<disk, mem, job, serve, gdir>> /\ Fault BY DEF ProcessExits
<1>2. PICK x : x \in {"none", "headless"} /\ proc' = [proc EXCEPT ![g] = x]
  <2>1. proc' = [proc EXCEPT ![g] = "none"] \/ proc' = [proc EXCEPT ![g] = "headless"]
    BY DEF ProcessExits
  <2> QED BY <2>1
<1>3. x \in ProcStates /\ x \notin Live BY <1>2 DEF ProcStates, Live
<1>4. faults' \in 0..MaxFaults BY <1>1, FaultFacts
<1> QED BY <1>1, <1>2, <1>3, <1>4, ProcStep, EnvInv

LEMMA ServerFailsInv ==
  ASSUME Inv, NEW n \in Names, ServerFails(n) PROVE Inv'
<1>1. UNCHANGED <<disk, mem, job, proc, gdir>> /\ Fault BY DEF ServerFails
<1>2. PICK x \in {"lost", "shaky"} : serve' = [serve EXCEPT ![n].state = x] BY DEF ServerFails
<1>3. serve[n] \in Sessions \cup {NoSession} /\ serve[n].state = "healthy"
  BY DEF ServerFails, Inv, Machine
<1>4. serve[n] # NoSession /\ serve[n] \in Sessions
  <2>1. NoSession.state = "none" BY DEF NoSession
  <2> QED BY <2>1, <1>3
<1>5. PICK t : t = [serve[n] EXCEPT !.state = x] OBVIOUS
<1>6. t \in Sessions /\ t.gen = serve[n].gen BY <1>4, <1>5 DEF Sessions
<1>7. serve' = [serve EXCEPT ![n] = t] BY <1>2, <1>5
<1>8. serve' \in Tables /\ Shrinks(serve, serve')
  <2>1. PICK s : s = [serve EXCEPT ![n] = t] OBVIOUS
  <2>2. s \in Tables /\ Shrinks(serve, s) BY <2>1, <1>4, <1>6, SetKeeps DEF Inv
  <2> QED BY <2>1, <2>2, <1>7
<1>9. faults' \in 0..MaxFaults BY <1>1, FaultFacts
<1>10. Machine' BY <1>1, <1>8, <1>9 DEF Inv, Machine, Tables
<1>11. Quieter(proc, proc') BY <1>1 DEF Quieter
<1> QED BY <1>1, <1>8, <1>10, <1>11, EnvInv

-------------------------------------------------------------------------------
\* Start.
LEMMA StartNewInv ==
  ASSUME Inv, NEW g \in Gens, StartNew(g) PROVE Inv'
<1>1. disk.state \in Dead BY DEF StartNew, Dead
<1>2. Bare(disk) /\ \A h \in Gens : proc[h] \notin Live
  BY <1>1 DEF Inv, Truthful, Claims
<1>3. \A n \in Names : serve[n] = NoSession
  BY <1>2, BareCovers DEF Inv, Truthful
<1>4. PICK q : q = [NoRecord EXCEPT !.state = "starting", !.gen = g, !.removed = FALSE]
  OBVIOUS
<1>5. <<>> \in Seq(Entries) OBVIOUS
<1>6. q \in Runtimes /\ q.gen = g /\ q.state = "starting" /\ q.act = NoAct /\ q.servers = <<>>
  BY <1>4, <1>5 DEF NoRecord, Runtimes, States
<1>7. /\ mem' = q /\ disk' = disk /\ proc' = proc /\ serve' = serve
      /\ gdir' = [gdir EXCEPT ![g] = "active"] /\ NoFault /\ proc[g] = "none"
      /\ job' = [op |-> "start", at |-> "create", todo |-> Expected, flag |-> FALSE]
  BY <1>4 DEF StartNew, Begin
<1>8. gdir \in [Gens -> {"absent", "active", "retained"}] BY DEF Inv, Machine
<1>9. gdir' \in [Gens -> {"absent", "active", "retained"}] /\ gdir'[g] = "active"
      /\ \A h \in Gens : gdir'[h] = "retained" => gdir[h] = "retained"
  BY <1>7, <1>8
<1>10. faults' \in 0..MaxFaults BY <1>7, FaultFacts
<1>11. Machine' BY <1>7, <1>9, <1>10 DEF Inv, Machine
<1>12. OnlyDeadRetained' BY <1>7, <1>9 DEF Inv, OnlyDeadRetained
<1>13. Truthful(disk', proc', serve') BY <1>7 DEF Inv
<1>14. Truthful(q, proc, serve)
  <2>1. Bare(q) BY <1>6 DEF Bare
  <2> QED BY <2>1, <1>2, <1>3, <1>6, NothingLeft
<1>15. Truthful(mem', proc', serve') BY <1>7, <1>14
<1>16. Expected \in Seq(Names) /\ Expected \in Seq(Names \cup Actions)
  BY ExpectedNames, TodoTyped
<1>17. job' \in Jobs /\ job'.op = "start" /\ job'.at = "create" /\ job'.todo = Expected
  BY <1>7, <1>16 DEF Jobs, Operations, Places
<1>18. Works(job', disk', mem', proc', gdir')
  BY <1>6, <1>7, <1>9, <1>16, <1>17
  DEF Works, Doing, Following, Todo, Intended, Seen, Unfrozen, Unowned, Path, Ahead,
      Intending, Worked
<1> QED BY <1>11, <1>12, <1>13, <1>15, <1>18, GoInv

LEMMA CreateInv ==
  ASSUME Inv, Create PROVE Inv'
<1>1. job.at = "create" /\ job.at # "idle" BY DEF Create
<1>2. /\ job \in Jobs /\ Doing(job) /\ Following(job, disk, mem) /\ Todo(job)
      /\ Intended(job, mem) /\ Seen(job, mem, proc[mem.gen], gdir[mem.gen])
      /\ mem \in Runtimes /\ mem.gen \in Gens
  BY <1>1, AtWork
<1>3. job.op = "start" BY <1>1, <1>2, PathFacts
<1>4. job' = [job EXCEPT !.at = "launch"] /\ mem' = mem /\ disk' = mem
      /\ NoFault /\ UNCHANGED <<proc, serve, gdir>>
  BY DEF Create, SaveAnd
<1>5. Machine' /\ OnlyDeadRetained' /\ Truthful(mem, proc', serve') BY <1>4, StillStep
<1>6. job' \in Jobs /\ job'.at = "launch" /\ job'.op = "start" /\ job'.todo = job.todo
  BY <1>2, <1>3, <1>4 DEF Jobs, Places
<1>7. Works(job', disk', mem', proc', gdir')
  BY <1>1, <1>2, <1>3, <1>4, <1>6
  DEF Works, Doing, Following, Todo, Intended, Seen, Unfrozen, Unowned, Path, Ahead, Intending
<1> QED BY <1>4, <1>5, <1>7, GoInv

LEMMA LaunchInv ==
  ASSUME Inv, Launch PROVE Inv'
<1>1. job.at = "launch" /\ job.at # "idle" /\ job.at \notin Ahead BY DEF Launch, Ahead
<1>2. /\ job \in Jobs /\ Doing(job) /\ Following(job, disk, mem) /\ Todo(job)
      /\ Intended(job, mem) /\ Seen(job, mem, proc[mem.gen], gdir[mem.gen])
      /\ mem \in Runtimes /\ mem.gen \in Gens /\ mem = disk
  BY <1>1, AtWork
<1>3. job.op = "start" BY <1>1, <1>2, PathFacts
<1>4. UNCHANGED <<serve, gdir>> BY DEF Launch
<1>5. CASE proc' = [proc EXCEPT ![mem.gen] = "inert"] /\ To("commit", mem) /\ NoFault
  <2>1. job' = [job EXCEPT !.at = "commit"] /\ mem' = mem /\ disk' = disk BY <1>5 DEF To
  <2>2. "inert" \in ProcStates /\ "inert" \notin Live BY DEF ProcStates, Live
  <2>3. faults' \in 0..MaxFaults BY <1>5, FaultFacts
  <2>4. Machine' /\ OnlyDeadRetained' /\ Truthful(mem, proc', serve')
        /\ Truthful(disk, proc', serve') /\ proc'[mem.gen] = "inert"
    BY <1>2, <1>4, <1>5, <2>2, <2>3, ProcStep
  <2>5. job' \in Jobs /\ job'.at = "commit" /\ job'.op = "start" /\ job'.todo = job.todo
    BY <2>1, <1>2, <1>3 DEF Jobs, Places
  <2>6. Works(job', disk', mem', proc', gdir')
    BY <2>1, <2>4, <2>5, <1>1, <1>2, <1>3, <1>4
    DEF Works, Doing, Following, Todo, Intended, Seen, Unfrozen, Unowned, Path, Ahead, Intending
  <2> QED BY <2>1, <2>4, <2>6, GoInv
<1>6. CASE StartFailed(mem) /\ Fault /\ UNCHANGED proc
  <2>1. Machine' /\ OnlyDeadRetained' /\ Truthful(mem, proc', serve')
    BY <1>4, <1>6, StillStep
  <2> QED BY <2>1, <1>1, <1>3, <1>6, StartFailedInv
<1> QED BY <1>5, <1>6 DEF Launch

LEMMA CommitInv ==
  ASSUME Inv, Commit PROVE Inv'
<1>1. job.at = "commit" /\ job.at # "idle" /\ job.at \notin Ahead BY DEF Commit, Ahead
<1>2. /\ job \in Jobs /\ Doing(job) /\ Following(job, disk, mem) /\ Todo(job)
      /\ Intended(job, mem) /\ Seen(job, mem, proc[mem.gen], gdir[mem.gen])
      /\ mem \in Runtimes /\ mem.gen \in Gens /\ mem = disk
  BY <1>1, AtWork
<1>3. job.op = "start" BY <1>1, <1>2, PathFacts
<1>4. PICK q : q = [mem EXCEPT !.handle = TRUE] OBVIOUS
<1>5. q \in Runtimes /\ q.handle /\ q.gen = mem.gen /\ q.state = mem.state /\ q.act = mem.act
      /\ q.servers = mem.servers
  BY <1>2, <1>4 DEF Runtimes
<1>6. job' = [job EXCEPT !.at = "release"] /\ mem' = q /\ disk' = q
      /\ NoFault /\ UNCHANGED <<proc, serve, gdir>>
  BY <1>4 DEF Commit, SaveAnd
<1>7. Machine' /\ OnlyDeadRetained' /\ Truthful(mem, proc', serve') BY <1>6, StillStep
<1>8. Truthful(q, proc', serve')
  <2>1. Holds(q, proc') BY <1>5, <1>7 DEF Truthful, Holds
  <2>2. Covers(q, serve') BY <1>5, <1>7 DEF Truthful, Covers, Recorded, NamesOf
  <2>3. Claims(q, proc') BY <1>5, <1>7 DEF Truthful, Claims, Bare
  <2> QED BY <2>1, <2>2, <2>3, <1>5 DEF Truthful
<1>9. job' \in Jobs /\ job'.at = "release" /\ job'.op = "start" /\ job'.todo = job.todo
  BY <1>2, <1>3, <1>6 DEF Jobs, Places
<1>10. Works(job', disk', mem', proc', gdir')
  BY <1>1, <1>2, <1>3, <1>5, <1>6, <1>9
  DEF Works, Doing, Following, Todo, Intended, Seen, Unfrozen, Unowned, Path, Ahead, Intending
<1> QED BY <1>6, <1>7, <1>8, <1>10, GoInv

\* A group of the record's generation that is set going by an operation, where the record
\* has its handle, the directory is not retained and no state is claimed that contradicts it.
LEMMA GroupSet ==
  ASSUME Inv, UNCHANGED <<serve, gdir>>, faults' \in 0..MaxFaults, mem \in Runtimes,
         mem = disk, NEW x \in ProcStates, proc' = [proc EXCEPT ![mem.gen] = x],
         gdir[mem.gen] # "retained", mem.handle, mem.state \notin Dead,
         mem.state # "suspended", mem.state # "running"
  PROVE  /\ Machine' /\ OnlyDeadRetained' /\ Truthful(mem, proc', serve')
         /\ Truthful(disk, proc', serve') /\ proc'[mem.gen] = x
<1>1. proc \in [Gens -> ProcStates] /\ mem.gen \in Gens BY DEF Inv, Machine, Runtimes
<1>2. proc' \in [Gens -> ProcStates] /\ proc'[mem.gen] = x
      /\ \A h \in Gens : h # mem.gen => proc'[h] = proc[h]
  BY <1>1
<1>3. Machine' BY <1>2 DEF Inv, Machine
<1>4. OnlyDeadRetained' BY <1>2 DEF Inv, OnlyDeadRetained
<1>5. Holds(mem, proc') BY <1>2 DEF Inv, Truthful, Holds
<1>6. Covers(mem, serve') BY DEF Inv, Truthful
<1>7. Claims(mem, proc') BY DEF Claims
<1>8. Truthful(mem, proc', serve') BY <1>5, <1>6, <1>7 DEF Truthful
<1> QED BY <1>2, <1>3, <1>4, <1>8

LEMMA ReleaseInv ==
  ASSUME Inv, Release PROVE Inv'
<1>1. job.at = "release" /\ job.at # "idle" /\ job.at \notin Ahead BY DEF Release, Ahead
<1>2. /\ job \in Jobs /\ Doing(job) /\ Following(job, disk, mem) /\ Todo(job)
      /\ Intended(job, mem) /\ Seen(job, mem, proc[mem.gen], gdir[mem.gen])
      /\ mem \in Runtimes /\ mem.gen \in Gens /\ mem = disk
  BY <1>1, AtWork
<1>3. job.op = "start" BY <1>1, <1>2, PathFacts
<1>4. mem.state = "starting" BY <1>1, <1>2, <1>3 DEF Following, Worked, Ahead
<1>5. UNCHANGED <<serve, gdir>> BY DEF Release
<1>6. CASE proc' = [proc EXCEPT ![mem.gen] = "running"] /\ To("start", mem) /\ NoFault
  <2>1. job' = [job EXCEPT !.at = "start"] /\ mem' = mem /\ disk' = disk BY <1>6 DEF To
  <2>2. "running" \in ProcStates BY DEF ProcStates
  <2>3. faults' \in 0..MaxFaults BY <1>6, FaultFacts
  <2>4. gdir[mem.gen] # "retained" /\ mem.handle BY <1>1, <1>2 DEF Seen
  <2>5. mem.state \notin Dead /\ mem.state # "suspended" /\ mem.state # "running"
    BY <1>4 DEF Dead
  <2>6. Machine' /\ OnlyDeadRetained' /\ Truthful(mem, proc', serve')
        /\ Truthful(disk, proc', serve') /\ proc'[mem.gen] = "running"
    BY <1>2, <1>5, <1>6, <2>2, <2>3, <2>4, <2>5, GroupSet
  <2>7. job' \in Jobs /\ job'.at = "start" /\ job'.op = "start" /\ job'.todo = job.todo
    BY <2>1, <1>2, <1>3 DEF Jobs, Places
  <2>8. Works(job', disk', mem', proc', gdir')
    BY <2>1, <2>6, <2>7, <1>1, <1>2, <1>3
    DEF Works, Doing, Following, Todo, Intended, Seen, Unfrozen, Unowned, Path, Ahead, Intending
  <2> QED BY <2>1, <2>6, <2>8, GoInv
<1>7. CASE proc' = [proc EXCEPT ![mem.gen] = "none"] /\ StartFailed(mem) /\ Fault
  <2>1. "none" \in ProcStates /\ "none" \notin Live BY DEF ProcStates, Live
  <2>2. faults' \in 0..MaxFaults BY <1>7, FaultFacts
  <2>3. Machine' /\ OnlyDeadRetained' /\ Truthful(mem, proc', serve')
    BY <1>2, <1>5, <1>7, <2>1, <2>2, ProcStep
  <2> QED BY <2>3, <1>1, <1>3, <1>7, StartFailedInv
<1>8. CASE UNCHANGED proc /\ StartFailed(mem) /\ NoFault
  <2>1. Machine' /\ OnlyDeadRetained' /\ Truthful(mem, proc', serve')
    BY <1>5, <1>8, StillStep
  <2> QED BY <2>1, <1>1, <1>3, <1>8, StartFailedInv
<1> QED BY <1>6, <1>7, <1>8 DEF Release

\* A record that is saved as running, where the group is not stopped.
LEMMA RunningTruthful ==
  ASSUME NEW r \in Runtimes, NEW p, NEW s, Truthful(r, p, s), p[r.gen] # "frozen", NEW q,
         q = [r EXCEPT !.state = "running"]
  PROVE  /\ q \in Runtimes /\ q.state = "running" /\ q.gen = r.gen /\ q.act = r.act
         /\ Truthful(q, p, s)
<1>1. q \in Runtimes /\ q.state = "running" /\ q.gen = r.gen /\ q.handle = r.handle
      /\ q.servers = r.servers /\ q.act = r.act
  BY DEF Runtimes, States
<1>2. Truthful(q, p, s)
  BY <1>1 DEF Truthful, Holds, Covers, Claims, Dead, Recorded, NamesOf
<1> QED BY <1>1, <1>2

LEMMA InspectStartedInv ==
  ASSUME Inv, InspectStarted PROVE Inv'
<1>1. job.at = "inspect" /\ job.at # "idle" /\ job.at \notin Ahead BY DEF InspectStarted, Ahead
<1>2. /\ job \in Jobs /\ Doing(job) /\ Following(job, disk, mem) /\ Todo(job)
      /\ Intended(job, mem) /\ Seen(job, mem, proc[mem.gen], gdir[mem.gen])
      /\ mem \in Runtimes /\ mem.gen \in Gens /\ mem = disk
  BY <1>1, AtWork
<1>3. job.op \in {"start", "resume"} BY <1>1, <1>2, PathFacts
<1>4. proc[mem.gen] # "frozen" BY <1>1, <1>2, <1>3 DEF Seen, Unfrozen
<1>5. serve' = ProbedBy(mem) /\ UNCHANGED <<proc, gdir>> /\ (Fault \/ NoFault)
  BY DEF InspectStarted
<1>6. serve' \in Tables /\ Shrinks(serve, serve')
  <2>1. ProbedBy(mem) \in Tables /\ Shrinks(serve, ProbedBy(mem)) BY ProbedByKeeps DEF Inv
  <2> QED BY <2>1, <1>5
<1>7. Machine' /\ OnlyDeadRetained' /\ Truthful(mem, proc', serve')
      /\ Truthful(disk, proc', serve')
  BY <1>5, <1>6, FaultFacts, CalmStep
<1>8. PICK r : r = [mem EXCEPT !.state = "running"] OBVIOUS
<1>9. r \in Runtimes /\ r.state = "running" /\ r.gen = mem.gen /\ r.act = mem.act
      /\ Truthful(r, proc', serve')
  <2>1. proc'[mem.gen] # "frozen" BY <1>4, <1>5
  <2> QED BY <2>1, <1>2, <1>7, <1>8, RunningTruthful
<1>10. CASE End(r) BY <1>7, <1>9, <1>10, EndInv
<1>11. CASE StartFailed(mem) BY <1>1, <1>3, <1>7, <1>11, StartFailedInv
<1>12. CASE /\ job.op = "start" /\ mem' = r /\ disk' = r
            /\ job' = [job EXCEPT !.op = "failstart", !.at = "ledger"]
  <2>1. job' \in Jobs /\ job'.at = "ledger" /\ job'.op = "failstart" /\ job'.todo = job.todo
    BY <1>2, <1>12 DEF Jobs, Operations, Places
  <2>2. Works(job', disk', mem', proc', gdir')
    BY <2>1, <1>2, <1>9, <1>12
    DEF Works, Doing, Following, Todo, Intended, Seen, Unfrozen, Unowned, Path, Ahead,
        Intending, Worked
  <2> QED BY <2>2, <1>7, <1>9, <1>12, GoInv
<1> QED BY <1>8, <1>10, <1>11, <1>12 DEF InspectStarted

\* A refused request still probes the servers.
LEMMA InspectInv ==
  ASSUME Inv, Inspect PROVE Inv'
<1>1. serve' = ProbedBy(disk) /\ UNCHANGED <<disk, mem, job, proc, gdir>> /\ NoFault
  BY DEF Inspect
<1>2. serve' \in Tables /\ Shrinks(serve, serve')
  <2>1. ProbedBy(disk) \in Tables /\ Shrinks(serve, ProbedBy(disk)) BY ProbedByKeeps DEF Inv
  <2> QED BY <2>1, <1>1
<1>3. Machine' BY <1>1, <1>2, FaultFacts, CalmStep
<1>4. Quieter(proc, proc') BY <1>1 DEF Quieter
<1> QED BY <1>1, <1>2, <1>3, <1>4, EnvInv

-------------------------------------------------------------------------------
\* Dev servers: the intent, the session, the ledger.
LEMMA ActNames ==
  ASSUME NEW r \in Runtimes, r.act # NoAct
  PROVE  r.act \in Intents /\ r.act.name \in Names
<1>1. r.act \in Intents BY DEF Runtimes
<1> QED BY <1>1 DEF Intents

LEMMA ActingTruthful ==
  ASSUME NEW r \in Runtimes, NEW p, NEW s, Truthful(r, p, s), r.act = NoAct,
         NEW n \in Names, NEW a \in Actions, NEW g \in ServerGens \cup {0},
         r.state \notin Dead, r.state # "suspended", NEW q, q = Acting(r, n, a, g)
  PROVE  /\ q \in Runtimes /\ q.act # NoAct /\ q.gen = r.gen /\ q.state = r.state
         /\ q.servers = r.servers /\ Truthful(q, p, s)
<1>1. PICK i : i = [name |-> n, action |-> a, sgen |-> g] OBVIOUS
<1>2. i \in Intents BY <1>1 DEF Intents
<1>3. i.action = a /\ NoAct.action = "none" /\ a # "none" BY <1>1 DEF NoAct, Actions
<1>4. q = [r EXCEPT !.act = i] BY <1>1 DEF Acting
<1>5. q \in Runtimes /\ q.act = i /\ q.gen = r.gen /\ q.state = r.state /\ q.handle = r.handle
      /\ q.servers = r.servers
  BY <1>2, <1>4 DEF Runtimes
<1>6. q.act # NoAct BY <1>3, <1>5
<1>7. Holds(q, p) BY <1>5 DEF Truthful, Holds
<1>8. Covers(q, s) BY <1>5 DEF Truthful, Covers, Recorded, NamesOf
<1>9. Claims(q, p) BY <1>5 DEF Truthful, Claims
<1> QED BY <1>5, <1>6, <1>7, <1>8, <1>9 DEF Truthful

\* The intent is cleared where the ledger names every session that there is.
LEMMA ActDone ==
  ASSUME NEW r \in Runtimes, NEW p, NEW s, Truthful(r, p, s), r.act # NoAct,
         NEW q \in Runtimes, q.state = r.state, q.gen = r.gen, q.handle = r.handle,
         \A m \in Names : s[m] # NoSession => Recorded(q, m)
  PROVE  Truthful(q, p, s)
<1>1. r.state \notin Dead /\ r.state # "suspended" BY DEF Truthful, Claims, Bare
<1>2. Holds(q, p) BY DEF Truthful, Holds
<1>3. Covers(q, s) BY DEF Truthful, Covers
<1>4. Claims(q, p) BY <1>1 DEF Truthful, Claims
<1> QED BY <1>2, <1>3, <1>4 DEF Truthful

\* A session that belongs to the durable intent may come, change and go.
LEMMA IntendedSession ==
  ASSUME Inv, UNCHANGED <<proc, gdir>>, faults' \in 0..MaxFaults, mem \in Runtimes,
         mem.act # NoAct, serve' \in Tables,
         \A m \in Names : m # mem.act.name => serve'[m] = serve[m],
         serve'[mem.act.name] # NoSession => serve'[mem.act.name].gen = mem.gen
  PROVE  Machine' /\ OnlyDeadRetained' /\ Truthful(mem, proc', serve')
<1>1. Machine' BY DEF Inv, Machine, Tables
<1>2. OnlyDeadRetained' BY DEF Inv, OnlyDeadRetained
<1>3. Covers(mem, serve') BY DEF Inv, Truthful, Covers
<1>4. Truthful(mem, proc', serve') BY <1>3 DEF Inv, Truthful
<1> QED BY <1>1, <1>2, <1>4

LEMMA SetSession ==
  ASSUME Inv, NEW n \in Names, NEW t \in Sessions \cup {NoSession},
         serve' = [serve EXCEPT ![n] = t]
  PROVE  serve' \in Tables /\ serve'[n] = t /\ \A m \in Names : m # n => serve'[m] = serve[m]
<1>1. serve \in Tables BY SameKeeps DEF Inv
<1> QED BY <1>1 DEF Tables

\* What the session of the intent belongs to.
LEMMA OwnSession ==
  ASSUME Inv, NEW n \in Names, NEW s, s = serve[n]
  PROVE  s \in Sessions \cup {NoSession} /\ (s # NoSession => s.gen = mem.gen)
BY DEF Inv, Machine, Truthful, Covers

LEMMA StartedFacts ==
  ASSUME mem \in Runtimes, NEW n, NEW mode \in {"local", "managed"},
         NEW state \in {"healthy", "bad"}, NEW t \in Started(n, mode, state)
  PROVE  t \in Sessions /\ t.gen = mem.gen
<1>1. mem.gen \in Gens BY DEF Runtimes
<1>2. Fresh(n) \subseteq ServerGens BY DEF Fresh
<1> QED BY <1>1, <1>2 DEF Started, Sessions

LEMMA StateSet ==
  ASSUME NEW s \in Sessions, NEW x \in {"healthy", "bad"}, NEW t, t = [s EXCEPT !.state = x]
  PROVE  t \in Sessions /\ t.gen = s.gen
BY DEF Sessions

LEMMA SessionNotNone == NoSession \notin Sessions
BY DEF Sessions, NoSession

\* The ledger with the entry of a session that runs.
LEMMA AppendFacts ==
  ASSUME NEW b \in Seq(Entries), NEW e \in Entries, NEW c, c = Append(b, e)
  PROVE  /\ c \in Seq(Entries)
         /\ \A i \in DOMAIN b : i \in DOMAIN c /\ c[i] = b[i]
         /\ \E i \in DOMAIN c : c[i] = e
<1>1. c \in Seq(Entries) /\ \A i \in DOMAIN b : i \in DOMAIN c /\ c[i] = b[i] OBVIOUS
<1>2. Len(b) + 1 \in DOMAIN c /\ c[Len(b) + 1] = e OBVIOUS
<1> QED BY <1>1, <1>2

LEMMA WithoutFacts ==
  ASSUME NEW b \in Seq(Entries), NEW n, NEW c, c = Without(b, n)
  PROVE  /\ c \in Seq(Entries)
         /\ \A i \in DOMAIN b : b[i].name # n => \E j \in DOMAIN c : c[j] = b[i]
<1>1. PICK T : T = {e \in Range(b) : e.name # n} OBVIOUS
<1>2. c = Only(b, T) BY <1>1 DEF Without
<1>3. c \in Seq(Entries) BY <1>2, OnlyTyped
<1>4. ASSUME NEW i \in DOMAIN b, b[i].name # n PROVE \E j \in DOMAIN c : c[j] = b[i]
  <2>1. b[i] \in T BY <1>1, <1>4 DEF Range
  <2> QED BY <2>1, <1>2, OnlyKeeps
<1> QED BY <1>3, <1>4

\* The entry of a dev server whose session runs after the step.
LEMMA EntryTyped ==
  ASSUME NEW n \in Names, serve'[n] \in Sessions
  PROVE  Entry(n) \in Entries /\ Entry(n).name = n
BY DEF Entry, Entries, Sessions

LEMMA NextStartInv ==
  ASSUME Inv, NextStart PROVE Inv'
<1>1. job.at = "start" /\ job.at # "idle" /\ job.at \notin Ahead BY DEF NextStart, Ahead
<1>2. /\ job \in Jobs /\ Doing(job) /\ Following(job, disk, mem) /\ Todo(job)
      /\ Intended(job, mem) /\ Seen(job, mem, proc[mem.gen], gdir[mem.gen])
      /\ mem \in Runtimes /\ mem.gen \in Gens /\ mem = disk
  BY <1>1, AtWork
<1>3. job.op \in {"start", "resume", "restart", "mutate"} BY <1>1, <1>2, PathFacts
<1>4. mem.state \in Worked(job.op) BY <1>1, <1>2 DEF Following, Ahead
<1>5. NoFault /\ UNCHANGED <<proc, serve, gdir>> BY DEF NextStart
<1>6. Machine' /\ OnlyDeadRetained' /\ Truthful(mem, proc', serve') BY <1>5, StillStep
<1>7. CASE job.todo = <<>>
  <2>1. StartsDone(mem) BY <1>7 DEF NextStart
  <2> QED BY <2>1, <1>1, <1>5, <1>6, StartsDoneInv
<1>8. CASE job.todo # <<>>
  <2>1. job.op \in {"start", "resume", "restart"} /\ job.todo \in Seq(Names)
    BY <1>1, <1>2, <1>3, <1>8 DEF Todo
  <2>2. PICK n : n = Head(job.todo) OBVIOUS
  <2>3. n \in Names BY <2>1, <2>2, <1>8
  <2>4. PICK q : q = Acting(mem, n, "starting", 0) OBVIOUS
  <2>5. mem.act = NoAct BY <1>1, <1>2 DEF Intended, Intending
  <2>6. mem.state \notin Dead /\ mem.state # "suspended" BY <2>1, <1>4 DEF Worked, Dead
  <2>7. "starting" \in Actions /\ 0 \in ServerGens \cup {0} BY DEF Actions
  <2>8. q \in Runtimes /\ q.act # NoAct /\ q.gen = mem.gen /\ q.state = mem.state
        /\ Truthful(q, proc', serve')
    BY <2>3, <2>4, <2>5, <2>6, <2>7, <1>2, <1>6, ActingTruthful
  <2>9. job' = [job EXCEPT !.at = "starting"] /\ mem' = q /\ disk' = q
    BY <2>2, <2>4, <1>8 DEF NextStart, SaveAnd
  <2>10. job' \in Jobs /\ job'.at = "starting" /\ job'.op = job.op /\ job'.todo = job.todo
    BY <2>9, <1>2 DEF Jobs, Places
  <2>11. "starting" \in Path(job.op) BY <2>1 DEF Path
  <2>12. Doing(job') BY <2>10, <2>11 DEF Doing
  <2>13. Following(job', disk', mem') BY <2>8, <2>9, <2>10, <1>4 DEF Following
  <2>14. Todo(job') BY <2>1, <2>10, <1>8 DEF Todo
  <2>15. Intended(job', mem') BY <2>8, <2>9, <2>10 DEF Intended, Intending
  <2>16. proc[mem.gen] # "frozen" BY <2>1, <1>1, <1>2 DEF Seen, Unfrozen
  <2>17. Seen(job', mem', proc'[mem'.gen], gdir'[mem'.gen])
    BY <2>1, <2>8, <2>9, <2>10, <2>16, <1>5 DEF Seen, Unowned
  <2>18. Works(job', disk', mem', proc', gdir')
    BY <2>12, <2>13, <2>14, <2>15, <2>17 DEF Works
  <2> QED BY <2>8, <2>9, <2>18, <1>6, GoInv
<1> QED BY <1>7, <1>8

\* What StartWithOptions leaves of the session, and how the operation goes on.
LEMMA StartOneFacts ==
  ASSUME Inv, StartOne, mem \in Runtimes, mem.act # NoAct, NEW n, n = mem.act.name
  PROVE  /\ UNCHANGED <<proc, gdir>> /\ (Fault \/ NoFault)
         /\ \E t \in Sessions \cup {NoSession} :
              /\ t # NoSession => t.gen = mem.gen
              /\ serve' = [serve EXCEPT ![n] = t]
              /\ \/ StartFailed(mem)
                 \/ /\ t \in Sessions
                    /\ To("started", [mem EXCEPT !.act = NoAct, !.servers = Append(@, Entry(n))])
<1>1. UNCHANGED <<proc, gdir>> BY DEF StartOne
<1>2. n \in Names BY ActNames
<1>3. PICK s : s = serve[n] OBVIOUS
<1>4. s \in Sessions \cup {NoSession} /\ (s # NoSession => s.gen = mem.gen)
  BY <1>2, <1>3, OwnSession
<1> DEFINE Done == To("started", [mem EXCEPT !.act = NoAct, !.servers = Append(@, Entry(n))])
           Set(t) == serve' = [serve EXCEPT ![n] = t]
           Goal(t) == /\ t \in Sessions \cup {NoSession} /\ (t # NoSession => t.gen = mem.gen)
                      /\ Set(t) /\ (StartFailed(mem) \/ (t \in Sessions /\ Done))
<1>5. CASE s.state # "none" /\ s.gen # mem.gen
  <2>1. NoSession.state = "none" BY DEF NoSession
  <2> QED BY <2>1, <1>4, <1>5
<1>6. CASE ~(s.state # "none" /\ s.gen # mem.gen) /\ s.state \in {"healthy", "flagged"}
  <2>1. PICK t : t = [s EXCEPT !.state = "healthy"] OBVIOUS
  <2>2. s # NoSession /\ s \in Sessions
    <3>1. NoSession.state = "none" BY DEF NoSession
    <3> QED BY <3>1, <1>4, <1>6
  <2>3. t \in Sessions /\ t.gen = mem.gen BY <2>1, <2>2, <1>4, StateSet
  <2>4. Set(t) /\ NoFault /\ (StartFailed(mem) \/ Done)
    BY <2>1, <1>3, <1>6 DEF StartOne, StartSession
  <2>5. Goal(t) BY <2>3, <2>4
  <2> QED BY <2>4, <2>5, <1>1
<1>7. CASE ~(s.state # "none" /\ s.gen # mem.gen) /\ s.state = "shaky"
  <2>1. PICK t : t = Probed(s) OBVIOUS
  <2>2. t \in Sessions \cup {NoSession} /\ (t = NoSession <=> s = NoSession) /\ t.gen = s.gen
    BY <2>1, <1>4, ProbedFacts
  <2>3. Set(t) /\ NoFault /\ StartFailed(mem)
    BY <2>1, <1>3, <1>7 DEF StartOne, StartSession
  <2>4. Goal(t) BY <2>2, <2>3, <1>4
  <2> QED BY <2>3, <2>4, <1>1
<1>8. CASE /\ ~(s.state # "none" /\ s.gen # mem.gen)
           /\ s.state \notin {"healthy", "flagged", "shaky"}
  <2>1. \/ (\E t \in Started(n, "local", "healthy") : Set(t)) /\ Done /\ NoFault
        \/ /\ \E t \in Started(n, "local", "bad") \cup {NoSession} : Set(t)
           /\ StartFailed(mem) /\ Fault
    BY <1>3, <1>8 DEF StartOne, StartSession
  <2>2. CASE (\E t \in Started(n, "local", "healthy") : Set(t)) /\ Done /\ NoFault
    <3>1. PICK t \in Started(n, "local", "healthy") : Set(t) BY <2>2
    <3>2. t \in Sessions /\ t.gen = mem.gen BY StartedFacts
    <3>3. Goal(t) BY <3>1, <3>2, <2>2
    <3> QED BY <3>3, <2>2, <1>1
  <2>3. CASE /\ \E t \in Started(n, "local", "bad") \cup {NoSession} : Set(t)
             /\ StartFailed(mem) /\ Fault
    <3>1. PICK t \in Started(n, "local", "bad") \cup {NoSession} : Set(t) BY <2>3
    <3>2. t \in Sessions \cup {NoSession} /\ (t # NoSession => t.gen = mem.gen)
      BY <3>1, StartedFacts
    <3>3. Goal(t) BY <3>1, <3>2, <2>3
    <3> QED BY <3>3, <2>3, <1>1
  <2> QED BY <2>1, <2>2, <2>3
<1> QED BY <1>5, <1>6, <1>7, <1>8

LEMMA StartOneInv ==
  ASSUME Inv, StartOne PROVE Inv'
<1>1. job.at = "starting" /\ job.at # "idle" /\ job.at \notin Ahead BY DEF StartOne, Ahead
<1>2. /\ job \in Jobs /\ Doing(job) /\ Following(job, disk, mem) /\ Todo(job)
      /\ Intended(job, mem) /\ Seen(job, mem, proc[mem.gen], gdir[mem.gen])
      /\ mem \in Runtimes /\ mem.gen \in Gens /\ mem = disk
  BY <1>1, AtWork
<1>3. job.op \in {"start", "resume", "restart", "mutate"} BY <1>1, <1>2, PathFacts
<1>4. mem.act # NoAct BY <1>1, <1>2 DEF Intended, Intending
<1>5. PICK n : n = mem.act.name OBVIOUS
<1>6. n \in Names BY <1>2, <1>4, <1>5, ActNames
<1>7. UNCHANGED <<proc, gdir>> /\ (Fault \/ NoFault) BY <1>2, <1>4, <1>5, StartOneFacts
<1>8. PICK t \in Sessions \cup {NoSession} :
        /\ t # NoSession => t.gen = mem.gen
        /\ serve' = [serve EXCEPT ![n] = t]
        /\ \/ StartFailed(mem)
           \/ /\ t \in Sessions
              /\ To("started", [mem EXCEPT !.act = NoAct, !.servers = Append(@, Entry(n))])
  BY <1>2, <1>4, <1>5, StartOneFacts
<1>9. /\ Machine' /\ OnlyDeadRetained' /\ Truthful(mem, proc', serve') /\ serve'[n] = t
      /\ \A m \in Names : m # n => serve'[m] = serve[m]
  <2>1. faults' \in 0..MaxFaults BY <1>7, FaultFacts
  <2>2. (t # NoSession => t.gen = mem.gen) /\ serve' = [serve EXCEPT ![n] = t] BY <1>8
  <2>3. serve' \in Tables /\ serve'[n] = t /\ \A m \in Names : m # n => serve'[m] = serve[m]
    BY <2>2, <1>6, SetSession
  <2> QED BY <2>1, <2>2, <2>3, <1>2, <1>4, <1>5, <1>7, IntendedSession
<1>10. CASE StartFailed(mem) BY <1>1, <1>3, <1>9, <1>10, StartFailedInv
<1>11. CASE /\ t \in Sessions
            /\ To("started", [mem EXCEPT !.act = NoAct, !.servers = Append(@, Entry(n))])
  <2>1. PICK e : e = Entry(n) OBVIOUS
  <2>2. e \in Entries /\ e.name = n BY <2>1, <1>6, <1>9, <1>11, EntryTyped
  <2>3. PICK c : c = Append(mem.servers, e) OBVIOUS
  <2>4. mem.servers \in Seq(Entries) BY <1>2, RecordFacts
  <2>5. /\ c \in Seq(Entries)
        /\ \A i \in DOMAIN mem.servers : i \in DOMAIN c /\ c[i] = mem.servers[i]
        /\ \E i \in DOMAIN c : c[i] = e
    BY <2>2, <2>3, <2>4, AppendFacts
  <2>6. PICK q : q = [mem EXCEPT !.act = NoAct, !.servers = c] OBVIOUS
  <2>7. q \in Runtimes /\ q.act = NoAct /\ q.servers = c /\ q.state = mem.state
        /\ q.gen = mem.gen /\ q.handle = mem.handle
    BY <2>5, <2>6, <1>2 DEF Runtimes
  <2>8. ASSUME NEW m \in Names, serve'[m] # NoSession PROVE Recorded(q, m)
    <3>1. CASE m = n BY <3>1, <2>2, <2>5, <2>7, RecordedAt
    <3>2. CASE m # n
      <4>1. Recorded(mem, m) BY <3>2, <2>8, <1>5, <1>9 DEF Truthful, Covers
      <4>2. PICK i \in DOMAIN mem.servers : mem.servers[i].name = m BY <4>1, <1>2, RecordedAt
      <4> QED BY <4>2, <2>5, <2>7, RecordedAt
    <3> QED BY <3>1, <3>2
  <2>9. Truthful(q, proc', serve') BY <2>7, <2>8, <1>2, <1>4, <1>9, ActDone
  <2>10. job' = [job EXCEPT !.at = "started"] /\ mem' = q /\ disk' = disk
    BY <2>1, <2>3, <2>6, <1>11 DEF To
  <2>11. job' \in Jobs /\ job'.at = "started" /\ job'.op = job.op /\ job'.todo = job.todo
    BY <2>10, <1>2 DEF Jobs, Places
  <2>12. "started" \in Path(job.op) BY <1>3 DEF Path
  <2>13. Doing(job') BY <2>11, <2>12 DEF Doing
  <2>14. mem.state \in Worked(job.op) BY <1>1, <1>2 DEF Following
  <2>15. Following(job', disk', mem') BY <2>7, <2>10, <2>11, <2>14 DEF Following, Ahead
  <2>16. Todo(job') BY <2>11, <1>1, <1>2 DEF Todo
  <2>17. Intended(job', mem') BY <2>7, <2>10, <2>11 DEF Intended, Intending
  <2>18. Seen(job', mem', proc'[mem'.gen], gdir'[mem'.gen])
    BY <2>7, <2>10, <2>11, <1>1, <1>2, <1>3, <1>7 DEF Seen, Unfrozen, Unowned
  <2>19. Works(job', disk', mem', proc', gdir')
    BY <2>13, <2>15, <2>16, <2>17, <2>18 DEF Works
  <2>20. Truthful(disk', proc', serve') BY <2>10, <1>2, <1>9
  <2> QED BY <2>9, <2>10, <2>19, <2>20, <1>9, GoInv
<1> QED BY <1>8, <1>10, <1>11

LEMMA StartedOneInv ==
  ASSUME Inv, StartedOne PROVE Inv'
<1>1. job.at = "started" /\ job.at # "idle" BY DEF StartedOne
<1>2. /\ job \in Jobs /\ Doing(job) /\ Following(job, disk, mem) /\ Todo(job)
      /\ Intended(job, mem) /\ Seen(job, mem, proc[mem.gen], gdir[mem.gen])
      /\ mem \in Runtimes /\ mem.gen \in Gens
  BY <1>1, AtWork
<1>3. job.op \in {"start", "resume", "restart", "mutate"} BY <1>1, <1>2, PathFacts
<1>4. /\ NoFault /\ UNCHANGED <<proc, serve, gdir>> /\ mem' = mem /\ disk' = mem
      /\ job' = [job EXCEPT !.at = "start", !.todo = Tail(@)]
  BY DEF StartedOne
<1>5. Machine' /\ OnlyDeadRetained' /\ Truthful(mem, proc', serve') BY <1>4, StillStep
<1>6. PICK d : d = Tail(job.todo) OBVIOUS
<1>7. /\ d \in Seq(Names \cup Actions)
      /\ job.op \in {"start", "resume", "restart"} => d \in Seq(Names)
      /\ job.op = "mutate" => d = <<>>
  <2>1. CASE job.op \in {"start", "resume", "restart"}
    <3>1. job.todo \in Seq(Names) /\ job.todo # <<>> BY <2>1, <1>1, <1>2 DEF Todo
    <3>2. d \in Seq(Names) BY <3>1, <1>6
    <3> QED BY <3>2, <2>1, TodoTyped
  <2>2. CASE job.op = "mutate"
    <3>1. PICK n \in Names : job.todo = <<n>> BY <2>2, <1>1, <1>2 DEF Todo
    <3>2. d = <<>> BY <3>1, <1>6
    <3> QED BY <3>2, <2>2
  <2> QED BY <2>1, <2>2, <1>3
<1>8. job' = [job EXCEPT !.at = "start", !.todo = d] BY <1>4, <1>6
<1>9. job' \in Jobs /\ job'.at = "start" /\ job'.op = job.op /\ job'.todo = d
  BY <1>2, <1>7, <1>8 DEF Jobs, Places
<1>10. "start" \in Path(job.op) BY <1>3 DEF Path
<1>11. Doing(job') BY <1>9, <1>10 DEF Doing
<1>12. Following(job', disk', mem') BY <1>1, <1>2, <1>4, <1>9 DEF Following
<1>13. Todo(job') BY <1>7, <1>9 DEF Todo
<1>14. Intended(job', mem') BY <1>1, <1>2, <1>4, <1>9 DEF Intended, Intending
<1>15. Seen(job', mem', proc'[mem'.gen], gdir'[mem'.gen])
  BY <1>1, <1>2, <1>3, <1>4, <1>9 DEF Seen, Unfrozen, Unowned
<1>16. Works(job', disk', mem', proc', gdir')
  BY <1>11, <1>12, <1>13, <1>14, <1>15 DEF Works
<1> QED BY <1>4, <1>5, <1>16, GoInv

LEMMA NextStopInv ==
  ASSUME Inv, NextStop PROVE Inv'
<1>1. job.at = "stop" /\ job.at # "idle" /\ job.at \notin Ahead BY DEF NextStop, Ahead
<1>2. /\ job \in Jobs /\ Doing(job) /\ Following(job, disk, mem) /\ Todo(job)
      /\ Intended(job, mem) /\ Seen(job, mem, proc[mem.gen], gdir[mem.gen])
      /\ mem \in Runtimes /\ mem.gen \in Gens /\ mem = disk
  BY <1>1, AtWork
<1>3. job.op \in {"suspend", "stop", "rollback", "failstart", "reconcile"}
  BY <1>1, <1>2, PathFacts
<1>4. mem.state \in Worked(job.op) BY <1>1, <1>2 DEF Following, Ahead
<1>5. mem.act = NoAct BY <1>1, <1>2 DEF Intended, Intending
<1>6. NoFault /\ UNCHANGED <<proc, gdir>> BY DEF NextStop
<1>7. CASE mem.servers = <<>>
  <2>1. StopsDone(mem) /\ UNCHANGED serve BY <1>7 DEF NextStop
  <2>2. Machine' /\ OnlyDeadRetained' /\ Truthful(mem, proc', serve')
    BY <2>1, <1>6, StillStep
  <2> QED BY <2>1, <2>2, <1>1, <1>6, <1>7, StopsDoneInv
<1>8. CASE mem.servers # <<>>
  <2>1. PICK e : e = Last(mem.servers) OBVIOUS
  <2>2. mem.servers \in Seq(Entries) BY <1>2, RecordFacts
  <2>3. e \in Entries /\ e.name \in Names
    <3>1. Len(mem.servers) \in 1..Len(mem.servers) BY <2>2, <1>8
    <3>2. e \in Entries BY <3>1, <2>1, <2>2 DEF Last
    <3> QED BY <3>2 DEF Entries
  <2>4. PICK n : n = e.name OBVIOUS
  <2>5. PICK t : t = Probed(serve[n]) OBVIOUS
  <2>6. serve[n] \in Sessions \cup {NoSession} BY <2>3, <2>4 DEF Inv, Machine
  <2>7. t \in Sessions \cup {NoSession} /\ t.gen = serve[n].gen
        /\ (t = NoSession <=> serve[n] = NoSession)
    BY <2>5, <2>6, ProbedFacts
  <2>8. serve' = [serve EXCEPT ![n] = t]
    BY <2>1, <2>4, <2>5, <1>8 DEF NextStop
  <2>9. serve' \in Tables /\ serve'[n] = t /\ \A m \in Names : m # n => serve'[m] = serve[m]
    <3>1. n \in Names BY <2>3, <2>4
    <3>2. t \in Sessions \cup {NoSession} BY <2>7
    <3> QED BY <3>1, <3>2, <2>8, SetSession
  <2>10. Shrinks(serve, serve') BY <2>7, <2>9 DEF Shrinks
  <2>11. faults' \in 0..MaxFaults BY <1>6, FaultFacts
  <2>12. Machine' /\ OnlyDeadRetained' /\ Truthful(mem, proc', serve')
    BY <2>9, <2>10, <2>11, <1>6, CalmStep
  <2>13. CASE StopFailed(mem) BY <2>12, <2>13, <1>1, <1>6, StopFailedInv
  <2>14. CASE SaveAnd("stopping", Acting(mem, e.name, "stopping", 0))
    <3>1. PICK q : q = Acting(mem, n, "stopping", 0) OBVIOUS
    <3>2. mem.state \notin Dead /\ mem.state # "suspended"
      BY <1>8, <2>12 DEF Truthful, Claims, Bare
    <3>3. "stopping" \in Actions /\ 0 \in ServerGens \cup {0} BY DEF Actions
    <3>4. q \in Runtimes /\ q.act # NoAct /\ q.gen = mem.gen /\ q.state = mem.state
          /\ Truthful(q, proc', serve')
      BY <3>1, <3>2, <3>3, <2>3, <2>4, <2>12, <1>2, <1>5, ActingTruthful
    <3>5. job' = [job EXCEPT !.at = "stopping"] /\ mem' = q /\ disk' = q
      BY <3>1, <2>4, <2>14 DEF SaveAnd
    <3>6. job' \in Jobs /\ job'.at = "stopping" /\ job'.op = job.op /\ job'.todo = job.todo
          /\ job'.flag = job.flag
      BY <3>5, <1>2 DEF Jobs, Places
    <3>7. "stopping" \in Path(job.op) BY <1>3 DEF Path
    <3>8. Doing(job') BY <3>6, <3>7 DEF Doing
    <3>9. Following(job', disk', mem') BY <3>4, <3>5, <3>6, <1>4 DEF Following
    <3>10. Todo(job') BY <3>6, <1>3 DEF Todo
    <3>11. Intended(job', mem') BY <3>4, <3>5, <3>6 DEF Intended, Intending
    <3>12. Seen(job', mem', proc'[mem'.gen], gdir'[mem'.gen])
      BY <3>4, <3>5, <3>6, <1>1, <1>2, <1>3, <1>6 DEF Seen, Unfrozen, Unowned
    <3>13. Works(job', disk', mem', proc', gdir')
      BY <3>8, <3>9, <3>10, <3>11, <3>12 DEF Works
    <3> QED BY <3>4, <3>5, <3>13, <2>12, GoInv
  <2> QED BY <2>1, <2>13, <2>14, <1>8 DEF NextStop
<1> QED BY <1>7, <1>8

\* What StopExpected leaves of the session of the intent.
LEMMA StopLeaves ==
  ASSUME Inv, mem.act # NoAct, mem \in Runtimes, UNCHANGED <<proc, gdir>>,
         NEW n, n = mem.act.name,
         \/ serve' = [serve EXCEPT ![n] = NoSession] /\ NoFault
         \/ serve[n].state # "none" /\ serve' = [serve EXCEPT ![n].state = "bad"] /\ Fault
  PROVE  /\ Machine' /\ OnlyDeadRetained' /\ Truthful(mem, proc', serve')
         /\ serve' = [serve EXCEPT ![n] = NoSession] => serve'[n] = NoSession
         /\ \A m \in Names : m # n => serve'[m] = serve[m]
<1>1. n \in Names BY ActNames
<1>2. PICK s : s = serve[n] OBVIOUS
<1>3. s \in Sessions \cup {NoSession} /\ (s # NoSession => s.gen = mem.gen)
  BY <1>1, <1>2, OwnSession
<1>4. faults' \in 0..MaxFaults BY FaultFacts
<1>5. PICK t : t \in Sessions \cup {NoSession} /\ serve' = [serve EXCEPT ![n] = t]
               /\ (t # NoSession => t.gen = mem.gen)
  <2>1. CASE serve' = [serve EXCEPT ![n] = NoSession] BY <2>1
  <2>2. CASE serve[n].state # "none" /\ serve' = [serve EXCEPT ![n].state = "bad"]
    <3>1. PICK t : t = [s EXCEPT !.state = "bad"] OBVIOUS
    <3>2. NoSession.state = "none" BY DEF NoSession
    <3>3. s \in Sessions /\ s # NoSession BY <3>2, <2>2, <1>2, <1>3
    <3>4. t \in Sessions /\ t.gen = s.gen BY <3>1, <3>3, StateSet
    <3>5. serve' = [serve EXCEPT ![n] = t] BY <3>1, <2>2, <1>2
    <3> QED BY <3>3, <3>4, <3>5, <1>3
  <2> QED BY <2>1, <2>2
<1>6. serve' \in Tables /\ serve'[n] = t /\ \A m \in Names : m # n => serve'[m] = serve[m]
  BY <1>1, <1>5, SetSession
<1>7. Machine' /\ OnlyDeadRetained' /\ Truthful(mem, proc', serve')
  BY <1>4, <1>5, <1>6, IntendedSession
<1>8. ASSUME serve' = [serve EXCEPT ![n] = NoSession] PROVE serve'[n] = NoSession
  <2>1. serve \in Tables BY SameKeeps DEF Inv
  <2> QED BY <2>1, <1>1, <1>8 DEF Tables
<1> QED BY <1>6, <1>7, <1>8

LEMMA StopOneInv ==
  ASSUME Inv, StopOne PROVE Inv'
<1>1. job.at = "stopping" /\ job.at # "idle" /\ job.at \notin Ahead BY DEF StopOne, Ahead
<1>2. /\ job \in Jobs /\ Doing(job) /\ Following(job, disk, mem) /\ Todo(job)
      /\ Intended(job, mem) /\ Seen(job, mem, proc[mem.gen], gdir[mem.gen])
      /\ mem \in Runtimes /\ mem.gen \in Gens /\ mem = disk
  BY <1>1, AtWork
<1>3. job.op \in {"suspend", "stop", "rollback", "failstart", "reconcile", "mutate"}
  BY <1>1, <1>2, PathFacts
<1>4. mem.act # NoAct BY <1>1, <1>2 DEF Intended, Intending
<1>5. PICK n : n = mem.act.name OBVIOUS
<1>6. n \in Names BY <1>2, <1>4, <1>5, ActNames
<1>7. UNCHANGED <<proc, gdir>> BY DEF StopOne
<1>8. serve[n] \in Sessions \cup {NoSession} /\ (serve[n] # NoSession => serve[n].gen = mem.gen)
  BY <1>6, OwnSession
<1>9. ~(serve[n].state # "none" /\ serve[n].gen # mem.gen)
  <2>1. NoSession.state = "none" BY DEF NoSession
  <2> QED BY <2>1, <1>8
<1>10. \/ /\ serve' = [serve EXCEPT ![n] = NoSession] /\ NoFault
          /\ To("stopped", [mem EXCEPT !.act = NoAct, !.servers = Without(@, n)])
       \/ /\ serve[n].state # "none" /\ serve' = [serve EXCEPT ![n].state = "bad"] /\ Fault
          /\ StopFailed(mem)
  BY <1>5, <1>9 DEF StopOne, StopSession
<1>11. \/ serve' = [serve EXCEPT ![n] = NoSession] /\ NoFault
       \/ serve[n].state # "none" /\ serve' = [serve EXCEPT ![n].state = "bad"] /\ Fault
  BY <1>10
<1>12. /\ Machine' /\ OnlyDeadRetained' /\ Truthful(mem, proc', serve')
       /\ serve' = [serve EXCEPT ![n] = NoSession] => serve'[n] = NoSession
       /\ \A m \in Names : m # n => serve'[m] = serve[m]
  BY <1>2, <1>4, <1>5, <1>7, <1>11, StopLeaves
<1>13. CASE StopFailed(mem) BY <1>1, <1>7, <1>12, <1>13, StopFailedInv
<1>14. CASE /\ serve' = [serve EXCEPT ![n] = NoSession]
            /\ To("stopped", [mem EXCEPT !.act = NoAct, !.servers = Without(@, n)])
  <2>1. serve'[n] = NoSession BY <1>12, <1>14
  <2>2. PICK c : c = Without(mem.servers, n) OBVIOUS
  <2>3. mem.servers \in Seq(Entries) BY <1>2, RecordFacts
  <2>4. /\ c \in Seq(Entries)
        /\ \A i \in DOMAIN mem.servers : mem.servers[i].name # n =>
             \E j \in DOMAIN c : c[j] = mem.servers[i]
    BY <2>2, <2>3, WithoutFacts
  <2>5. PICK q : q = [mem EXCEPT !.act = NoAct, !.servers = c] OBVIOUS
  <2>6. q \in Runtimes /\ q.act = NoAct /\ q.servers = c /\ q.state = mem.state
        /\ q.gen = mem.gen /\ q.handle = mem.handle
    BY <2>4, <2>5, <1>2 DEF Runtimes
  <2>7. ASSUME NEW m \in Names, serve'[m] # NoSession PROVE Recorded(q, m)
    <3>1. m # n BY <2>1, <2>7
    <3>2. Recorded(mem, m) BY <3>1, <2>7, <1>5, <1>12 DEF Truthful, Covers
    <3>3. PICK i \in DOMAIN mem.servers : mem.servers[i].name = m BY <3>2, <1>2, RecordedAt
    <3>4. \E j \in DOMAIN c : c[j] = mem.servers[i] BY <3>1, <3>3, <2>4
    <3> QED BY <3>3, <3>4, <2>6, RecordedAt
  <2>8. Truthful(q, proc', serve') BY <2>6, <2>7, <1>2, <1>4, <1>12, ActDone
  <2>9. job' = [job EXCEPT !.at = "stopped"] /\ mem' = q /\ disk' = disk
    BY <2>2, <2>5, <1>14 DEF To
  <2>10. job' \in Jobs /\ job'.at = "stopped" /\ job'.op = job.op /\ job'.todo = job.todo
         /\ job'.flag = job.flag
    BY <2>9, <1>2 DEF Jobs, Places
  <2>11. "stopped" \in Path(job.op) BY <1>3 DEF Path
  <2>12. Doing(job') BY <2>10, <2>11 DEF Doing
  <2>13. mem.state \in Worked(job.op) BY <1>1, <1>2 DEF Following
  <2>14. Following(job', disk', mem') BY <2>6, <2>9, <2>10, <2>13 DEF Following, Ahead
  <2>15. Todo(job') BY <2>10, <1>3 DEF Todo
  <2>16. Intended(job', mem') BY <2>6, <2>9, <2>10 DEF Intended, Intending
  <2>17. Seen(job', mem', proc'[mem'.gen], gdir'[mem'.gen])
    BY <2>6, <2>9, <2>10, <1>1, <1>2, <1>3, <1>7 DEF Seen, Unfrozen, Unowned
  <2>18. Works(job', disk', mem', proc', gdir')
    BY <2>12, <2>14, <2>15, <2>16, <2>17 DEF Works
  <2>19. Truthful(disk', proc', serve') BY <2>9, <1>2, <1>12
  <2> QED BY <2>8, <2>9, <2>18, <2>19, <1>12, GoInv
<1> QED BY <1>10, <1>13, <1>14

LEMMA StoppedOneInv ==
  ASSUME Inv, StoppedOne PROVE Inv'
<1>1. job.at = "stopped" /\ job.at # "idle" BY DEF StoppedOne
<1>2. /\ job \in Jobs /\ Doing(job) /\ Following(job, disk, mem) /\ Todo(job)
      /\ Intended(job, mem) /\ Seen(job, mem, proc[mem.gen], gdir[mem.gen])
      /\ mem \in Runtimes /\ mem.gen \in Gens
  BY <1>1, AtWork
<1>3. job.op \in {"suspend", "stop", "rollback", "failstart", "reconcile", "mutate"}
  BY <1>1, <1>2, PathFacts
<1>4. NoFault /\ UNCHANGED <<proc, serve, gdir>> BY DEF StoppedOne
<1>5. Machine' /\ OnlyDeadRetained' /\ Truthful(mem, proc', serve') BY <1>4, StillStep
<1>6. CASE job.op = "mutate"
  <2>1. End(mem) BY <1>6 DEF StoppedOne
  <2> QED BY <2>1, <1>5, EndInv
<1>7. CASE job.op # "mutate"
  <2>1. job' = [job EXCEPT !.at = "stop"] /\ mem' = mem /\ disk' = mem
    BY <1>7 DEF StoppedOne, SaveAnd
  <2>2. job' \in Jobs /\ job'.at = "stop" /\ job'.op = job.op /\ job'.flag = job.flag
    BY <2>1, <1>2 DEF Jobs, Places
  <2>3. "stop" \in Path(job.op) BY <1>3, <1>7 DEF Path
  <2>4. Doing(job') BY <2>2, <2>3 DEF Doing
  <2>5. Following(job', disk', mem') BY <2>1, <2>2, <1>1, <1>2 DEF Following
  <2>6. Todo(job') BY <2>2, <1>3, <1>7 DEF Todo
  <2>7. Intended(job', mem') BY <2>1, <2>2, <1>1, <1>2 DEF Intended, Intending
  <2>8. Seen(job', mem', proc'[mem'.gen], gdir'[mem'.gen])
    BY <2>1, <2>2, <1>1, <1>2, <1>3, <1>4 DEF Seen, Unfrozen, Unowned
  <2>9. Works(job', disk', mem', proc', gdir')
    BY <2>4, <2>5, <2>6, <2>7, <2>8 DEF Works
  <2> QED BY <2>1, <2>9, <1>5, GoInv
<1> QED BY <1>6, <1>7

-------------------------------------------------------------------------------
\* The ledger that the intent and the listing imply.
LEMMA AdoptedFacts ==
  ASSUME Inv, mem \in Runtimes, NEW c, c = Adopted
  PROVE  /\ c \in Seq(Entries)
         /\ Bare(mem) => c = <<>>
<1>1. PICK n : n = mem.act.name OBVIOUS
<1>2. PICK b : b = IF mem.act.action = "starting" /\ Listed(n)
                   THEN Append(mem.servers,
                          [name |-> n, sgen |-> serve[n].sgen, mode |-> serve[n].mode])
                   ELSE mem.servers
  OBVIOUS
<1>3. PICK T : T = {e \in Range(b) : Listed(e.name)} OBVIOUS
<1>4. c = Only(b, T) BY <1>1, <1>2, <1>3 DEF Adopted
<1>5. mem.servers \in Seq(Entries) BY RecordFacts
<1>6. b \in Seq(Entries)
  <2>1. CASE mem.act.action = "starting" /\ Listed(n)
    <3>1. NoAct.action = "none" BY DEF NoAct
    <3>2. mem.act # NoAct BY <3>1, <2>1
    <3>3. n \in Names BY <3>2, <1>1, ActNames
    <3>4. serve[n] \in Sessions \cup {NoSession} BY <3>3 DEF Inv, Machine
    <3>5. NoSession.state = "none" BY DEF NoSession
    <3>6. serve[n].state # "none" BY <2>1 DEF Listed
    <3>7. serve[n] \in Sessions BY <3>4, <3>5, <3>6
    <3>8. PICK e : e = [name |-> n, sgen |-> serve[n].sgen, mode |-> serve[n].mode] OBVIOUS
    <3>9. e \in Entries BY <3>3, <3>7, <3>8 DEF Entries, Sessions
    <3>10. b = Append(mem.servers, e) BY <3>8, <2>1, <1>2
    <3> QED BY <3>9, <3>10, <1>5
  <2>2. CASE ~(mem.act.action = "starting" /\ Listed(n)) BY <2>2, <1>2, <1>5
  <2> QED BY <2>1, <2>2
<1>7. c \in Seq(Entries) BY <1>4, <1>6, OnlyTyped
<1>8. ASSUME Bare(mem) PROVE c = <<>>
  <2>1. mem.act.action = "none" /\ mem.servers = <<>>
    <3>1. NoAct.action = "none" BY DEF NoAct
    <3> QED BY <3>1, <1>8 DEF Bare
  <2>2. b = <<>> /\ Len(b) = 0 BY <2>1, <1>2
  <2> QED BY <2>2, <1>4, <1>6, OnlyTyped
<1> QED BY <1>7, <1>8

LEMMA LedgerInv ==
  ASSUME Inv, Ledger PROVE Inv'
<1>1. job.at = "ledger" /\ job.at # "idle" /\ job.at \notin Ahead BY DEF Ledger, Ahead
<1>2. /\ job \in Jobs /\ Doing(job) /\ Following(job, disk, mem) /\ Todo(job)
      /\ Intended(job, mem) /\ Seen(job, mem, proc[mem.gen], gdir[mem.gen])
      /\ mem \in Runtimes /\ mem.gen \in Gens /\ mem = disk
  BY <1>1, AtWork
<1>3. UNCHANGED <<proc, gdir>> BY DEF Ledger
<1>4. CASE LedgerFailed /\ NoFault /\ UNCHANGED serve
  <2>1. Machine' /\ OnlyDeadRetained' /\ Truthful(mem, proc', serve')
    BY <1>3, <1>4, StillStep
  <2> QED BY <2>1, <1>1, <1>4, LedgerFailedInv
<1>5. CASE mem.act # NoAct /\ StopSession(mem.act.name, To("ledger", mem), LedgerFailed)
  <2>1. PICK n : n = mem.act.name OBVIOUS
  <2>2. n \in Names BY <2>1, <1>2, <1>5, ActNames
  <2>3. serve[n] \in Sessions \cup {NoSession}
        /\ (serve[n] # NoSession => serve[n].gen = mem.gen)
    BY <2>2, OwnSession
  <2>4. ~(serve[n].state # "none" /\ serve[n].gen # mem.gen)
    <3>1. NoSession.state = "none" BY DEF NoSession
    <3> QED BY <3>1, <2>3
  <2>5. \/ /\ serve' = [serve EXCEPT ![n] = NoSession] /\ NoFault
           /\ To("ledger", mem)
        \/ /\ serve[n].state # "none" /\ serve' = [serve EXCEPT ![n].state = "bad"] /\ Fault
           /\ LedgerFailed
    BY <2>1, <2>4, <1>5 DEF StopSession
  <2>6. \/ serve' = [serve EXCEPT ![n] = NoSession] /\ NoFault
        \/ serve[n].state # "none" /\ serve' = [serve EXCEPT ![n].state = "bad"] /\ Fault
    BY <2>5
  <2>7. Machine' /\ OnlyDeadRetained' /\ Truthful(mem, proc', serve')
    BY <2>1, <2>6, <1>2, <1>3, <1>5, StopLeaves
  <2>8. CASE LedgerFailed BY <2>7, <2>8, <1>1, LedgerFailedInv
  <2>9. CASE To("ledger", mem)
    <3>1. job' = [job EXCEPT !.at = "ledger"] /\ mem' = mem /\ disk' = disk BY <2>9 DEF To
    <3>2. job' \in Jobs /\ job'.at = "ledger" /\ job'.op = job.op /\ job'.todo = job.todo
          /\ job'.flag = job.flag
      BY <3>1, <1>2 DEF Jobs, Places
    <3>3. Doing(job') BY <3>2, <1>1, <1>2 DEF Doing
    <3>4. Following(job', disk', mem') BY <3>1, <3>2, <1>1, <1>2 DEF Following
    <3>5. Todo(job') BY <3>2, <1>1, <1>2 DEF Todo
    <3>6. Intended(job', mem') BY <3>1, <3>2, <1>1, <1>2 DEF Intended, Intending
    <3>7. Seen(job', mem', proc'[mem'.gen], gdir'[mem'.gen])
      BY <3>1, <3>2, <1>1, <1>2, <1>3 DEF Seen, Unfrozen, Unowned
    <3>8. Works(job', disk', mem', proc', gdir')
      BY <3>3, <3>4, <3>5, <3>6, <3>7 DEF Works
    <3> QED BY <3>1, <3>8, <2>7, <1>2, GoInv
  <2> QED BY <2>5, <2>8, <2>9
<1>6. CASE /\ NoFault /\ UNCHANGED serve /\ LedgerClear
           /\ LedgerDone([mem EXCEPT !.servers = Adopted, !.act = NoAct])
  <2>1. Machine' /\ OnlyDeadRetained' /\ Truthful(mem, proc', serve')
    BY <1>3, <1>6, StillStep
  <2>2. PICK c : c = Adopted OBVIOUS
  <2>3. c \in Seq(Entries) /\ (Bare(mem) => c = <<>>) BY <2>2, <1>2, AdoptedFacts
  <2>4. PICK r : r = [mem EXCEPT !.servers = c, !.act = NoAct] OBVIOUS
  <2>5. r \in Runtimes /\ r.state = mem.state /\ r.gen = mem.gen /\ r.handle = mem.handle
        /\ r.act = NoAct /\ r.servers = c
    BY <2>3, <2>4, <1>2 DEF Runtimes
  <2>6. LedgerDone(r) BY <2>2, <2>4, <1>6
  <2>7. Holds(r, proc') BY <2>1, <2>5 DEF Truthful, Holds
  <2>8. ASSUME NEW n \in Names, serve'[n] # NoSession
        PROVE  serve'[n].gen = r.gen /\ Recorded(r, n)
    <3>1. serve[n] \in Sessions /\ serve'[n] = serve[n]
      BY <2>8, <1>6 DEF Inv, Machine
    <3>2. ~Unhealthy(n) BY <1>6 DEF LedgerClear
    <3>3. Listed(n) BY <3>1, <3>2 DEF Sessions, Unhealthy, Listed
    <3>4. n \in Range(NamesOf(c)) BY <3>3, <2>2, <1>6 DEF LedgerClear
    <3>5. Recorded(r, n) BY <3>4, <2>5 DEF Recorded
    <3>6. serve'[n].gen = mem.gen BY <2>1, <2>8 DEF Truthful, Covers
    <3> QED BY <3>5, <3>6, <2>5
  <2>9. Covers(r, serve') BY <2>8 DEF Covers
  <2>10. Bare(mem) => Bare(r) BY <2>3, <2>5 DEF Bare
  <2>11. Claims(r, proc') BY <2>1, <2>5, <2>10 DEF Truthful, Claims
  <2>12. Truthful(r, proc', serve') BY <2>5, <2>7, <2>9, <2>11 DEF Truthful
  <2> QED BY <2>1, <2>5, <2>6, <2>12, <1>1, <1>3, LedgerDoneInv
<1> QED BY <1>4, <1>5, <1>6 DEF Ledger

-------------------------------------------------------------------------------
\* cleanupOwned.
LEMMA NotOwned ==
  ASSUME Inv, ~Exists(mem), mem.gen \in Gens
  PROVE  proc[mem.gen] \notin Live
<1>1. Holds(mem, proc) BY DEF Inv, Truthful
<1> QED BY <1>1 DEF Exists, Holds, Live

LEMMA NoOther ==
  ASSUME Inv, mem.gen \in Gens, NEW p, p \in [Gens -> ProcStates], p[mem.gen] \notin Live,
         \A g \in Gens : g # mem.gen => p[g] = proc[g]
  PROVE  \A g \in Gens : p[g] \notin Live
<1>1. Holds(mem, proc) BY DEF Inv, Truthful
<1> QED BY <1>1 DEF Holds

LEMMA CleanupInv ==
  ASSUME Inv, Cleanup PROVE Inv'
<1>1. job.at = "cleanup" /\ job.at # "idle" /\ job.at \notin Ahead BY DEF Cleanup, Ahead
<1>2. /\ job \in Jobs /\ Doing(job) /\ Following(job, disk, mem) /\ Todo(job)
      /\ Intended(job, mem) /\ Seen(job, mem, proc[mem.gen], gdir[mem.gen])
      /\ mem \in Runtimes /\ mem.gen \in Gens /\ mem = disk
  BY <1>1, AtWork
<1>3. job.op \in {"failstart", "reconcile"} BY <1>1, <1>2, PathFacts
<1>4. NoFault /\ UNCHANGED <<proc, gdir>> BY DEF Cleanup
<1>5. serve' \in Tables /\ Shrinks(serve, serve')
  <2>1. serve' = ProbedAll(mem) \/ serve' = serve BY DEF Cleanup
  <2>2. ProbedAll(mem) \in Tables /\ Shrinks(serve, ProbedAll(mem)) BY ProbedAllKeeps DEF Inv
  <2>3. serve \in Tables /\ Shrinks(serve, serve) BY SameKeeps DEF Inv
  <2> QED BY <2>1, <2>2, <2>3
<1>6. Machine' /\ OnlyDeadRetained' /\ Truthful(mem, proc', serve')
      /\ Truthful(disk, proc', serve')
  BY <1>4, <1>5, FaultFacts, CalmStep
<1>7. CASE CleanupFailed(mem) BY <1>1, <1>6, <1>7, CleanupFailedInv
<1>8. CASE /\ job' = [job EXCEPT !.at = "stop", !.flag = Exists(mem)]
           /\ mem' = mem /\ UNCHANGED disk
  <2>1. PICK f \in BOOLEAN : f = Exists(mem)
    <3>1. Exists(mem) \in BOOLEAN BY DEF Exists
    <3> QED BY <3>1
  <2>2. job' = [job EXCEPT !.at = "stop", !.flag = f] BY <2>1, <1>8
  <2>3. job' \in Jobs /\ job'.at = "stop" /\ job'.op = job.op /\ job'.flag = f
    BY <2>1, <2>2, <1>2 DEF Jobs, Places
  <2>4. ~f => proc[mem.gen] \notin Live BY <2>1, <1>2, NotOwned
  <2>5. Works(job', disk', mem', proc', gdir')
    BY <2>3, <2>4, <1>1, <1>2, <1>3, <1>4, <1>8
    DEF Works, Doing, Following, Todo, Intended, Seen, Unfrozen, Unowned, Path, Ahead, Intending
  <2> QED BY <2>5, <1>6, <1>8, GoInv
<1> QED BY <1>7, <1>8 DEF Cleanup

LEMMA KillInv ==
  ASSUME Inv, Kill PROVE Inv'
<1>1. job.at = "kill" /\ job.at # "idle" /\ job.at \notin Ahead BY DEF Kill, Ahead
<1>2. /\ job \in Jobs /\ Doing(job) /\ Following(job, disk, mem) /\ Todo(job)
      /\ Intended(job, mem) /\ Seen(job, mem, proc[mem.gen], gdir[mem.gen])
      /\ mem \in Runtimes /\ mem.gen \in Gens /\ mem = disk
  BY <1>1, AtWork
<1>3. job.op \in {"failstart", "reconcile"} BY <1>1, <1>2, PathFacts
<1>4. UNCHANGED <<serve, gdir>> BY DEF Kill
<1>5. mem.act = NoAct /\ mem.servers = <<>> BY <1>1, <1>2 DEF Intended, Intending
<1>6. \A n \in Names : serve'[n] = NoSession
  <2>1. Bare(mem) BY <1>5 DEF Bare
  <2>2. Covers(mem, serve) BY DEF Inv, Truthful
  <2>3. \A n \in Names : serve[n] = NoSession BY <2>1, <2>2, <1>2, BareCovers
  <2> QED BY <2>3, <1>4
<1>7. proc \in [Gens -> ProcStates] BY DEF Inv, Machine
<1>8. CASE ~job.flag /\ CleanedUp(mem) /\ NoFault /\ UNCHANGED proc
  <2>1. Machine' /\ OnlyDeadRetained' BY <1>4, <1>8, StillStep
  <2>2. proc[mem.gen] \notin Live BY <1>1, <1>2, <1>3, <1>8 DEF Seen, Unowned
  <2>3. \A g \in Gens : proc[g] \notin Live BY <2>2, <1>2, <1>7, NoOther
  <2>4. \A g \in Gens : proc'[g] \notin Live BY <2>3, <1>8
  <2> QED BY <2>1, <2>4, <1>2, <1>5, <1>6, <1>8, CleanedUpInv
<1>9. CASE proc' = [proc EXCEPT ![mem.gen] = "none"] /\ CleanedUp(mem) /\ NoFault
  <2>1. "none" \in ProcStates /\ "none" \notin Live BY DEF ProcStates, Live
  <2>2. faults' \in 0..MaxFaults BY <1>9, FaultFacts
  <2>3. Machine' /\ OnlyDeadRetained' BY <2>1, <2>2, <1>2, <1>4, <1>9, ProcStep
  <2>4. proc' \in [Gens -> ProcStates] /\ proc'[mem.gen] = "none"
        /\ \A g \in Gens : g # mem.gen => proc'[g] = proc[g]
    BY <2>1, <1>2, <1>7, <1>9
  <2>5. PICK p : p = proc' OBVIOUS
  <2>6. \A g \in Gens : p[g] \notin Live BY <2>1, <2>4, <2>5, <1>2, NoOther
  <2>7. \A g \in Gens : proc'[g] \notin Live BY <2>5, <2>6
  <2> QED BY <2>3, <2>7, <1>2, <1>5, <1>6, <1>9, CleanedUpInv
<1>10. CASE CleanupFailed(mem) /\ (Fault \/ NoFault) /\ UNCHANGED proc
  <2>1. Machine' /\ OnlyDeadRetained' /\ Truthful(mem, proc', serve')
    BY <1>4, <1>10, StillStep
  <2> QED BY <2>1, <1>1, <1>10, CleanupFailedInv
<1> QED BY <1>8, <1>9, <1>10 DEF Kill

LEMMA JudgeInv ==
  ASSUME Inv, Judge PROVE Inv'
<1>1. job.at = "judge" /\ job.at # "idle" /\ job.at \notin Ahead BY DEF Judge, Ahead
<1>2. /\ job \in Jobs /\ Doing(job) /\ Following(job, disk, mem) /\ Todo(job)
      /\ Intended(job, mem) /\ Seen(job, mem, proc[mem.gen], gdir[mem.gen])
      /\ mem \in Runtimes /\ mem.gen \in Gens /\ mem = disk
  BY <1>1, AtWork
<1>3. job.op = "reconcile" BY <1>1, <1>2, PathFacts
<1>4. mem.state \in States \ Dead BY <1>1, <1>2, <1>3 DEF Following, Worked, Ahead
<1>5. NoFault /\ UNCHANGED <<proc, gdir>> BY DEF Judge
<1>6. mem.act = NoAct BY <1>1, <1>2 DEF Intended, Intending
<1> DEFINE Gone == IF mem.state = "stopping"
                   THEN End([mem EXCEPT !.state = "stopped", !.handle = FALSE])
                   ELSE End(Failed(mem))
           Absent == IF mem.servers # <<>> THEN To("cleanup", mem) ELSE Gone
           Ends == End(mem) \/ End(Stale(mem)) \/ CleanupFailed(mem)
           Fails == ~mem.handle /\ mem.servers = <<>> /\ End(Failed(mem))
           Absents == ~Exists(mem) /\ Absent
<1>7. serve' \in {serve, ProbedAll(mem), ProbedBy(mem)}
      /\ (Ends \/ Fails \/ Absents \/ To("cleanup", mem))
  <2>1. CASE mem.state = "running"
    <3>1. /\ serve' = ProbedBy(mem)
          /\ IF Inspected(mem) THEN End(mem)
             ELSE IF Exists(mem) THEN End(Stale(mem)) ELSE Absent
      BY <2>1 DEF Judge
    <3> QED BY <3>1
  <2>2. CASE mem.state = "suspended"
    <3>1. UNCHANGED serve /\ IF InspectedSuspended(mem) THEN End(mem) ELSE End(Stale(mem))
      BY <2>2 DEF Judge
    <3> QED BY <3>1
  <2>3. CASE mem.state = "stale"
    <3>1. To("cleanup", mem) /\ UNCHANGED serve BY <2>3 DEF Judge
    <3> QED BY <3>1
  <2>4. CASE mem.state \in {"starting", "suspending", "resuming", "stopping"}
    <3>1. IF mem.state # "stopping" /\ ~mem.handle /\ mem.servers = <<>>
          THEN End(Failed(mem)) /\ UNCHANGED serve
          ELSE IF Foreign(mem) \/ ~mem.handle
          THEN CleanupFailed(mem) /\ UNCHANGED serve
          ELSE IF ~Exists(mem) THEN Absent /\ UNCHANGED serve
          ELSE /\ serve' = ProbedAll(mem)
               /\ IF AllExact(mem) THEN To("cleanup", mem) ELSE CleanupFailed(mem)
      BY <2>4 DEF Judge
    <3> QED BY <3>1
  <2> QED BY <2>1, <2>2, <2>3, <2>4, <1>4 DEF States, Dead
<1>8. serve' \in Tables /\ Shrinks(serve, serve')
  <2>1. ProbedAll(mem) \in Tables /\ Shrinks(serve, ProbedAll(mem)) BY ProbedAllKeeps DEF Inv
  <2>2. serve \in Tables /\ Shrinks(serve, serve) BY SameKeeps DEF Inv
  <2>3. ProbedBy(mem) \in Tables /\ Shrinks(serve, ProbedBy(mem)) BY ProbedByKeeps DEF Inv
  <2> QED BY <2>1, <2>2, <2>3, <1>7
<1>9. Machine' /\ OnlyDeadRetained' /\ Truthful(mem, proc', serve')
      /\ Truthful(disk, proc', serve')
  BY <1>5, <1>8, FaultFacts, CalmStep
<1>10. CASE Ends BY <1>1, <1>2, <1>9, <1>10, EndInv, StaleInv, CleanupFailedInv
<1>11. CASE To("cleanup", mem)
  <2>1. job' = [job EXCEPT !.at = "cleanup"] /\ mem' = mem /\ disk' = disk BY <1>11 DEF To
  <2>2. job' \in Jobs /\ job'.at = "cleanup" /\ job'.op = "reconcile"
    BY <2>1, <1>2, <1>3 DEF Jobs, Places
  <2>3. Works(job', disk', mem', proc', gdir')
    BY <2>1, <2>2, <1>1, <1>2, <1>3, <1>6
    DEF Works, Doing, Following, Todo, Intended, Seen, Unfrozen, Unowned, Path, Ahead, Intending
  <2> QED BY <2>1, <2>3, <1>9, GoInv
<1>12. ASSUME mem.servers = <<>> PROVE \A n \in Names : serve'[n] = NoSession
  <2>1. Bare(mem) BY <1>6, <1>12 DEF Bare
  <2>2. Covers(mem, serve') BY <1>9 DEF Truthful
  <2>3. PICK s : s = serve' OBVIOUS
  <2>4. Covers(mem, s) BY <2>2, <2>3
  <2>5. \A n \in Names : s[n] = NoSession BY <2>1, <2>4, <1>2, BareCovers
  <2> QED BY <2>3, <2>5
<1>13. CASE Fails
  <2>1. \A g \in Gens : proc'[g] \notin Live BY <1>9, <1>13 DEF Truthful, Holds
  <2>2. \A n \in Names : serve'[n] = NoSession BY <1>12, <1>13
  <2>3. Failed(mem) \in Runtimes /\ Bare(Failed(mem)) BY <1>2, FailedBare
  <2>4. Truthful(Failed(mem), proc', serve') BY <2>1, <2>2, <2>3, NothingLeft
  <2> QED BY <2>4, <1>9, <1>13, EndInv
<1>14. CASE Absents /\ mem.servers = <<>>
  <2>1. proc[mem.gen] \notin Live BY <1>2, <1>14, NotOwned
  <2>2. proc \in [Gens -> ProcStates] BY DEF Inv, Machine
  <2>3. \A g \in Gens : proc[g] \notin Live BY <2>1, <2>2, <1>2, NoOther
  <2>4. \A g \in Gens : proc'[g] \notin Live BY <2>3, <1>5
  <2>5. \A n \in Names : serve'[n] = NoSession BY <1>12, <1>14
  <2>6. CASE End(Failed(mem))
    <3>1. Failed(mem) \in Runtimes /\ Bare(Failed(mem)) BY <1>2, FailedBare
    <3>2. Truthful(Failed(mem), proc', serve') BY <2>4, <2>5, <3>1, NothingLeft
    <3> QED BY <3>2, <2>6, <1>9, EndInv
  <2>7. CASE End([mem EXCEPT !.state = "stopped", !.handle = FALSE])
    <3>1. PICK q : q = [mem EXCEPT !.state = "stopped", !.handle = FALSE] OBVIOUS
    <3>2. q \in Runtimes /\ q.servers = <<>> /\ q.act = NoAct
      BY <3>1, <1>2, <1>6, <1>14 DEF Runtimes, States
    <3>3. Bare(q) BY <3>2 DEF Bare
    <3>4. Truthful(q, proc', serve') BY <2>4, <2>5, <3>2, <3>3, NothingLeft
    <3>5. End(q) BY <3>1, <2>7
    <3> QED BY <3>4, <3>5, <1>9, EndInv
  <2> QED BY <2>6, <2>7, <1>14
<1>15. Absents => To("cleanup", mem) \/ mem.servers = <<>> OBVIOUS
<1> QED BY <1>7, <1>10, <1>11, <1>13, <1>14, <1>15

-------------------------------------------------------------------------------
\* Suspend and Resume.

\* The record while its state is changed to one that claims nothing, and its copy is saved.
LEMMA SavedState ==
  ASSUME NEW r \in Runtimes, NEW p, NEW s, Truthful(r, p, s),
         NEW x \in {"suspending", "resuming", "stopping"}, NEW q, q = [r EXCEPT !.state = x]
  PROVE  /\ q \in Runtimes /\ q.state = x /\ q.gen = r.gen /\ q.act = r.act
         /\ q.servers = r.servers /\ q.handle = r.handle /\ Truthful(q, p, s)
<1>1. q \in Runtimes /\ q.state = x /\ q.gen = r.gen /\ q.handle = r.handle
      /\ q.servers = r.servers /\ q.act = r.act
  BY DEF Runtimes, States
<1>2. Holds(q, p) /\ Covers(q, s) BY <1>1 DEF Truthful, Holds, Covers, Recorded, NamesOf
<1>3. Claims(q, p) BY <1>1 DEF Claims, Dead
<1> QED BY <1>1, <1>2, <1>3 DEF Truthful

LEMMA SuspendInv ==
  ASSUME Inv, Suspend PROVE Inv'
<1>1. /\ job = Idle /\ disk.state = "running" /\ Inspected(disk) /\ serve' = ProbedBy(disk)
      /\ NoFault /\ UNCHANGED <<proc, gdir>>
      /\ job' = [op |-> "suspend", at |-> "stop", todo |-> <<>>, flag |-> FALSE]
  BY DEF Suspend, Begin
<1>2. PICK q : q = [disk EXCEPT !.state = "suspending"] OBVIOUS
<1>3. mem' = q /\ disk' = q BY <1>2 DEF Suspend
<1>4. disk \in Runtimes /\ disk.gen \in Gens BY <1>1, RecordFacts DEF Inv, Truthful
<1>5. serve' \in Tables /\ Shrinks(serve, serve')
  <2>1. ProbedBy(disk) \in Tables /\ Shrinks(serve, ProbedBy(disk)) BY ProbedByKeeps DEF Inv
  <2> QED BY <2>1, <1>1
<1>6. Machine' /\ OnlyDeadRetained' /\ Truthful(disk, proc', serve')
  BY <1>1, <1>5, FaultFacts, CalmStep
<1>7. q \in Runtimes /\ q.state = "suspending" /\ q.gen = disk.gen /\ q.act = disk.act
      /\ Truthful(q, proc', serve')
  BY <1>2, <1>4, <1>6, SavedState
<1>8. q.act = NoAct /\ proc[q.gen] # "frozen" BY <1>1, <1>7 DEF Inspected
<1>9. <<>> \in Seq(Names \cup Actions) OBVIOUS
<1>10. job' \in Jobs /\ job'.op = "suspend" /\ job'.at = "stop"
  BY <1>1, <1>9 DEF Jobs, Operations, Places
<1>11. Works(job', disk', mem', proc', gdir')
  BY <1>1, <1>3, <1>7, <1>8, <1>10
  DEF Works, Doing, Following, Todo, Intended, Seen, Unfrozen, Unowned, Path, Ahead,
      Intending, Worked
<1> QED BY <1>3, <1>6, <1>7, <1>11, GoInv

LEMMA ResumeInv ==
  ASSUME Inv, Resume PROVE Inv'
<1>1. /\ job = Idle /\ disk.state = "suspended" /\ InspectedSuspended(disk)
      /\ NoFault /\ UNCHANGED <<proc, serve, gdir>>
      /\ job' = [op |-> "resume", at |-> "thaw", todo |-> Expected, flag |-> FALSE]
  BY DEF Resume, Begin
<1>2. PICK q : q = [disk EXCEPT !.state = "resuming"] OBVIOUS
<1>3. mem' = q /\ disk' = q BY <1>2 DEF Resume
<1>4. disk \in Runtimes /\ disk.gen \in Gens BY <1>1, RecordFacts DEF Inv, Truthful
<1>5. Machine' /\ OnlyDeadRetained' /\ Truthful(disk, proc', serve') BY <1>1, StillStep
<1>6. q \in Runtimes /\ q.state = "resuming" /\ q.gen = disk.gen /\ q.act = disk.act
      /\ q.servers = disk.servers /\ Truthful(q, proc', serve')
  BY <1>2, <1>4, <1>5, SavedState
<1>7. q.act = NoAct /\ q.servers = <<>> /\ proc[q.gen] = "frozen"
  BY <1>1, <1>6 DEF InspectedSuspended
<1>8. Expected \in Seq(Names) /\ Expected \in Seq(Names \cup Actions)
  BY ExpectedNames, TodoTyped
<1>9. job' \in Jobs /\ job'.op = "resume" /\ job'.at = "thaw" /\ job'.todo = Expected
  BY <1>1, <1>8 DEF Jobs, Operations, Places
<1>10. Works(job', disk', mem', proc', gdir')
  BY <1>1, <1>3, <1>6, <1>7, <1>8, <1>9
  DEF Works, Doing, Following, Todo, Intended, Seen, Unfrozen, Unowned, Path, Ahead,
      Intending, Worked
<1> QED BY <1>3, <1>5, <1>6, <1>10, GoInv

\* A record without ledger and intent that is saved as suspended.
LEMMA SuspendedTruthful ==
  ASSUME NEW r \in Runtimes, NEW p, NEW s, Truthful(r, p, s), r.act = NoAct, r.servers = <<>>,
         p[r.gen] # "running", NEW q,
         q = [r EXCEPT !.state = "suspended", !.servers = <<>>]
           \/ q = [r EXCEPT !.state = "suspended"]
  PROVE  /\ q \in Runtimes /\ q.gen = r.gen /\ q.act = NoAct /\ q.servers = <<>>
         /\ Truthful(q, p, s)
<1>1. <<>> \in Seq(Entries) OBVIOUS
<1>2. q \in Runtimes /\ q.state = "suspended" /\ q.gen = r.gen /\ q.handle = r.handle
      /\ q.servers = r.servers /\ q.act = r.act
  <2>1. CASE q = [r EXCEPT !.state = "suspended", !.servers = <<>>]
    BY <1>1, <2>1 DEF Runtimes, States
  <2>2. CASE q = [r EXCEPT !.state = "suspended"] BY <2>2 DEF Runtimes, States
  <2> QED BY <2>1, <2>2
<1>3. Holds(q, p) /\ Covers(q, s) BY <1>2 DEF Truthful, Holds, Covers, Recorded, NamesOf
<1>4. Claims(q, p) BY <1>2 DEF Claims, Dead, Bare
<1> QED BY <1>2, <1>3, <1>4 DEF Truthful

\* An owned group's directory is in its place.
LEMMA OwnedPlace ==
  ASSUME Inv, Owned(mem), mem.gen \in Gens
  PROVE  mem.handle /\ gdir[mem.gen] # "retained"
BY DEF Inv, Owned, OnlyDeadRetained

LEMMA FreezeInv ==
  ASSUME Inv, Freeze PROVE Inv'
<1>1. job.at = "freeze" /\ job.at # "idle" /\ job.at \notin Ahead BY DEF Freeze, Ahead
<1>2. /\ job \in Jobs /\ Doing(job) /\ Following(job, disk, mem) /\ Todo(job)
      /\ Intended(job, mem) /\ Seen(job, mem, proc[mem.gen], gdir[mem.gen])
      /\ mem \in Runtimes /\ mem.gen \in Gens /\ mem = disk
  BY <1>1, AtWork
<1>3. job.op = "suspend" BY <1>1, <1>2, PathFacts
<1>4. mem.state = "suspending" BY <1>1, <1>2, <1>3 DEF Following, Worked, Ahead
<1>5. mem.act = NoAct /\ mem.servers = <<>> BY <1>1, <1>2 DEF Intended, Intending
<1>6. UNCHANGED <<serve, gdir>> BY DEF Freeze
<1>7. CASE /\ Owned(mem) /\ proc' = [proc EXCEPT ![mem.gen] = "frozen"] /\ NoFault
           /\ To("frozen", [mem EXCEPT !.state = "suspended"])
  <2>1. "frozen" \in ProcStates BY DEF ProcStates
  <2>2. faults' \in 0..MaxFaults BY <1>7, FaultFacts
  <2>3. mem.handle /\ gdir[mem.gen] # "retained" BY <1>2, <1>7, OwnedPlace
  <2>4. mem.state \notin Dead /\ mem.state # "suspended" /\ mem.state # "running"
    BY <1>4 DEF Dead
  <2>5. Machine' /\ OnlyDeadRetained' /\ Truthful(mem, proc', serve')
        /\ Truthful(disk, proc', serve') /\ proc'[mem.gen] = "frozen"
    BY <1>2, <1>6, <1>7, <2>1, <2>2, <2>3, <2>4, GroupSet
  <2>6. PICK q : q = [mem EXCEPT !.state = "suspended"] OBVIOUS
  <2>7. q \in Runtimes /\ q.gen = mem.gen /\ q.act = NoAct /\ Truthful(q, proc', serve')
    <3>1. PICK p : p = proc' OBVIOUS
    <3>2. PICK s : s = serve' OBVIOUS
    <3>3. p[mem.gen] # "running" BY <3>1, <2>5
    <3>4. Truthful(mem, p, s) BY <3>1, <3>2, <2>5
    <3>5. mem \in Runtimes /\ mem.act = NoAct /\ mem.servers = <<>> BY <1>2, <1>5
    <3>6. q \in Runtimes /\ q.gen = mem.gen /\ q.act = NoAct /\ Truthful(q, p, s)
      BY <3>3, <3>4, <3>5, <2>6, SuspendedTruthful
    <3> QED BY <3>1, <3>2, <3>6
  <2>8. job' = [job EXCEPT !.at = "frozen"] /\ mem' = q /\ disk' = disk
    BY <2>6, <1>7 DEF To
  <2>9. job' \in Jobs /\ job'.at = "frozen" /\ job'.op = "suspend"
    BY <2>8, <1>2, <1>3 DEF Jobs, Places
  <2>10. Works(job', disk', mem', proc', gdir')
    BY <2>7, <2>8, <2>9
    DEF Works, Doing, Following, Todo, Intended, Seen, Unfrozen, Unowned, Path, Ahead, Intending
  <2> QED BY <2>5, <2>7, <2>8, <2>10, GoInv
<1>8. CASE /\ Fault \/ NoFault
           /\ UNCHANGED <<proc, disk>> /\ mem' = mem
           /\ job' = [job EXCEPT !.op = "restart", !.at = "start", !.todo = Missing(mem)]
  <2>1. Machine' /\ OnlyDeadRetained' /\ Truthful(mem, proc', serve')
        /\ Truthful(disk, proc', serve')
    BY <1>6, <1>8, StillStep
  <2>2. PICK d : d = Missing(mem) OBVIOUS
  <2>3. d \in Seq(Names) /\ d \in Seq(Names \cup Actions) BY <2>2, ExpectedNames, TodoTyped
  <2>4. job' \in Jobs /\ job'.at = "start" /\ job'.op = "restart" /\ job'.todo = d
    BY <2>2, <2>3, <1>2, <1>8 DEF Jobs, Operations, Places
  <2>5. proc[mem.gen] # "frozen" BY <1>1, <1>2, <1>3 DEF Seen, Unfrozen
  <2>6. Works(job', disk', mem', proc', gdir')
    BY <2>3, <2>4, <2>5, <1>2, <1>4, <1>5, <1>6, <1>8
    DEF Works, Doing, Following, Todo, Intended, Seen, Unfrozen, Unowned, Path, Ahead,
        Intending, Worked
  <2> QED BY <2>1, <2>6, <1>8, GoInv
<1> QED BY <1>7, <1>8 DEF Freeze

LEMMA FrozenInv ==
  ASSUME Inv, Frozen PROVE Inv'
<1>1. End(mem) /\ NoFault /\ UNCHANGED <<proc, serve, gdir>> BY DEF Frozen
<1>2. Machine' /\ OnlyDeadRetained' /\ Truthful(mem, proc', serve') BY <1>1, StillStep
<1> QED BY <1>1, <1>2, EndInv

LEMMA ThawInv ==
  ASSUME Inv, Thaw PROVE Inv'
<1>1. job.at = "thaw" /\ job.at # "idle" /\ job.at \notin Ahead BY DEF Thaw, Ahead
<1>2. /\ job \in Jobs /\ Doing(job) /\ Following(job, disk, mem) /\ Todo(job)
      /\ Intended(job, mem) /\ Seen(job, mem, proc[mem.gen], gdir[mem.gen])
      /\ mem \in Runtimes /\ mem.gen \in Gens /\ mem = disk
  BY <1>1, AtWork
<1>3. job.op = "resume" BY <1>1, <1>2, PathFacts
<1>4. mem.state = "resuming" BY <1>1, <1>2, <1>3 DEF Following, Worked, Ahead
<1>5. mem.act = NoAct /\ mem.servers = <<>> BY <1>1, <1>2 DEF Intended, Intending
<1>6. UNCHANGED <<serve, gdir>> BY DEF Thaw
<1>7. CASE /\ Owned(mem) /\ proc' = [proc EXCEPT ![mem.gen] = "running"] /\ NoFault
           /\ To("start", mem)
  <2>1. "running" \in ProcStates BY DEF ProcStates
  <2>2. faults' \in 0..MaxFaults BY <1>7, FaultFacts
  <2>3. mem.handle /\ gdir[mem.gen] # "retained" BY <1>2, <1>7, OwnedPlace
  <2>4. mem.state \notin Dead /\ mem.state # "suspended" /\ mem.state # "running"
    BY <1>4 DEF Dead
  <2>5. Machine' /\ OnlyDeadRetained' /\ Truthful(mem, proc', serve')
        /\ Truthful(disk, proc', serve') /\ proc'[mem.gen] = "running"
    BY <1>2, <1>6, <1>7, <2>1, <2>2, <2>3, <2>4, GroupSet
  <2>6. job' = [job EXCEPT !.at = "start"] /\ mem' = mem /\ disk' = disk BY <1>7 DEF To
  <2>7. job' \in Jobs /\ job'.at = "start" /\ job'.op = "resume" /\ job'.todo = job.todo
    BY <2>6, <1>2, <1>3 DEF Jobs, Places
  <2>8. Works(job', disk', mem', proc', gdir')
    BY <2>5, <2>6, <2>7, <1>1, <1>2, <1>3, <1>5
    DEF Works, Doing, Following, Todo, Intended, Seen, Unfrozen, Unowned, Path, Ahead, Intending
  <2> QED BY <2>5, <2>6, <2>8, GoInv
<1>8. CASE /\ Fault \/ NoFault
           /\ UNCHANGED proc /\ End([mem EXCEPT !.state = "suspended"])
  <2>1. Machine' /\ OnlyDeadRetained' /\ Truthful(mem, proc', serve')
    BY <1>6, <1>8, StillStep
  <2>2. PICK q : q = [mem EXCEPT !.state = "suspended"] OBVIOUS
  <2>3. proc'[mem.gen] # "running" BY <1>1, <1>2, <1>8 DEF Seen
  <2>4. Truthful(q, proc', serve') BY <2>1, <2>2, <2>3, <1>2, <1>5, SuspendedTruthful
  <2>5. End(q) BY <2>2, <1>8
  <2> QED BY <2>1, <2>4, <2>5, EndInv
<1> QED BY <1>7, <1>8 DEF Thaw

LEMMA RefreezeInv ==
  ASSUME Inv, Refreeze PROVE Inv'
<1>1. job.at = "refreeze" /\ job.at # "idle" /\ job.at \notin Ahead BY DEF Refreeze, Ahead
<1>2. /\ job \in Jobs /\ Doing(job) /\ Following(job, disk, mem) /\ Todo(job)
      /\ Intended(job, mem) /\ Seen(job, mem, proc[mem.gen], gdir[mem.gen])
      /\ mem \in Runtimes /\ mem.gen \in Gens /\ mem = disk
  BY <1>1, AtWork
<1>3. job.op = "rollback" BY <1>1, <1>2, PathFacts
<1>4. mem.state = "resuming" BY <1>1, <1>2, <1>3 DEF Following, Worked, Ahead
<1>5. mem.act = NoAct /\ mem.servers = <<>> BY <1>1, <1>2 DEF Intended, Intending
<1>6. UNCHANGED <<serve, gdir>> BY DEF Refreeze
<1>7. CASE /\ Owned(mem) /\ proc' = [proc EXCEPT ![mem.gen] = "frozen"] /\ NoFault
           /\ To("frozen", [mem EXCEPT !.state = "suspended", !.servers = <<>>])
  <2>1. "frozen" \in ProcStates BY DEF ProcStates
  <2>2. faults' \in 0..MaxFaults BY <1>7, FaultFacts
  <2>3. mem.handle /\ gdir[mem.gen] # "retained" BY <1>2, <1>7, OwnedPlace
  <2>4. mem.state \notin Dead /\ mem.state # "suspended" /\ mem.state # "running"
    BY <1>4 DEF Dead
  <2>5. Machine' /\ OnlyDeadRetained' /\ Truthful(mem, proc', serve')
        /\ Truthful(disk, proc', serve') /\ proc'[mem.gen] = "frozen"
    BY <1>2, <1>6, <1>7, <2>1, <2>2, <2>3, <2>4, GroupSet
  <2>6. PICK q : q = [mem EXCEPT !.state = "suspended", !.servers = <<>>] OBVIOUS
  <2>7. q \in Runtimes /\ q.gen = mem.gen /\ q.act = NoAct /\ Truthful(q, proc', serve')
    <3>1. PICK p : p = proc' OBVIOUS
    <3>2. PICK s : s = serve' OBVIOUS
    <3>3. p[mem.gen] # "running" BY <3>1, <2>5
    <3>4. Truthful(mem, p, s) BY <3>1, <3>2, <2>5
    <3>5. mem \in Runtimes /\ mem.act = NoAct /\ mem.servers = <<>> BY <1>2, <1>5
    <3>6. q \in Runtimes /\ q.gen = mem.gen /\ q.act = NoAct /\ Truthful(q, p, s)
      BY <3>3, <3>4, <3>5, <2>6, SuspendedTruthful
    <3> QED BY <3>1, <3>2, <3>6
  <2>8. job' = [job EXCEPT !.at = "frozen"] /\ mem' = q /\ disk' = disk
    BY <2>6, <1>7 DEF To
  <2>9. job' \in Jobs /\ job'.at = "frozen" /\ job'.op = "rollback"
    BY <2>8, <1>2, <1>3 DEF Jobs, Places
  <2>10. Works(job', disk', mem', proc', gdir')
    BY <2>7, <2>8, <2>9
    DEF Works, Doing, Following, Todo, Intended, Seen, Unfrozen, Unowned, Path, Ahead, Intending
  <2> QED BY <2>5, <2>7, <2>8, <2>10, GoInv
<1>8. CASE (Fault \/ NoFault) /\ UNCHANGED proc /\ End(mem)
  <2>1. Machine' /\ OnlyDeadRetained' /\ Truthful(mem, proc', serve')
    BY <1>6, <1>8, StillStep
  <2> QED BY <2>1, <1>8, EndInv
<1> QED BY <1>7, <1>8 DEF Refreeze

-------------------------------------------------------------------------------
\* Stop and Clean.
LEMMA StopInv ==
  ASSUME Inv, Stop PROVE Inv'
<1>1. /\ job = Idle /\ disk.state \notin {"absent", "stopped"}
      /\ serve' = ProbedByPreflight(disk) /\ NoFault /\ UNCHANGED <<proc, gdir>>
  BY DEF Stop
<1>2. disk \in Runtimes /\ disk.gen \in Gens BY <1>1, RecordFacts DEF Inv, Truthful
<1>3. serve' \in Tables /\ Shrinks(serve, serve')
  <2>1. ProbedByPreflight(disk) \in Tables /\ Shrinks(serve, ProbedByPreflight(disk))
    BY ProbedByKeeps DEF Inv
  <2> QED BY <2>1, <1>1
<1>4. Machine' /\ OnlyDeadRetained' /\ Truthful(disk, proc', serve')
  BY <1>1, <1>3, FaultFacts, CalmStep
<1>5. CASE PreflightOwned(disk) /\ disk.handle
  <2>1. job' = [op |-> "stop", at |-> "stop", todo |-> <<>>, flag |-> FALSE]
    BY <1>5 DEF Stop, Begin
  <2>2. PICK q : q = [disk EXCEPT !.state = "stopping"] OBVIOUS
  <2>3. mem' = q /\ disk' = q BY <2>2, <1>5 DEF Stop
  <2>4. q \in Runtimes /\ q.state = "stopping" /\ q.gen = disk.gen /\ q.act = disk.act
        /\ Truthful(q, proc', serve')
    BY <2>2, <1>2, <1>4, SavedState
  <2>5. q.act = NoAct BY <2>4, <1>5 DEF PreflightOwned
  <2>6. <<>> \in Seq(Names \cup Actions) OBVIOUS
  <2>7. job' \in Jobs /\ job'.op = "stop" /\ job'.at = "stop"
    BY <2>1, <2>6 DEF Jobs, Operations, Places
  <2>8. Works(job', disk', mem', proc', gdir')
    BY <2>3, <2>4, <2>5, <2>7
    DEF Works, Doing, Following, Todo, Intended, Seen, Unfrozen, Unowned, Path, Ahead,
        Intending, Worked
  <2> QED BY <2>3, <2>4, <2>8, <1>4, GoInv
<1>6. CASE ~(PreflightOwned(disk) /\ disk.handle)
  <2>1. UNCHANGED <<disk, mem, job>> BY <1>6 DEF Stop
  <2>2. Quieter(proc, proc') BY <1>1 DEF Quieter
  <2> QED BY <2>1, <2>2, <1>1, <1>3, <1>4, EnvInv
<1> QED BY <1>5, <1>6

LEMMA TerminateInv ==
  ASSUME Inv, Terminate PROVE Inv'
<1>1. job.at = "terminate" /\ job.at # "idle" /\ job.at \notin Ahead BY DEF Terminate, Ahead
<1>2. /\ job \in Jobs /\ Doing(job) /\ Following(job, disk, mem) /\ Todo(job)
      /\ Intended(job, mem) /\ Seen(job, mem, proc[mem.gen], gdir[mem.gen])
      /\ mem \in Runtimes /\ mem.gen \in Gens /\ mem = disk
  BY <1>1, AtWork
<1>3. job.op = "stop" BY <1>1, <1>2, PathFacts
<1>4. UNCHANGED <<serve, gdir>> /\ (Fault \/ NoFault) BY DEF Terminate
<1>5. faults' \in 0..MaxFaults BY <1>4, FaultFacts
<1>6. "none" \in ProcStates /\ "none" \notin Live BY DEF ProcStates, Live
<1>7. proc \in [Gens -> ProcStates] BY DEF Inv, Machine
<1>8. proc' = proc \/ proc' = [proc EXCEPT ![mem.gen] = "none"] BY DEF Terminate
<1>9. Machine' /\ OnlyDeadRetained' /\ Truthful(mem, proc', serve')
      /\ Truthful(disk, proc', serve')
  <2>1. CASE proc' = proc BY <2>1, <1>4, StillStep
  <2>2. CASE proc' = [proc EXCEPT ![mem.gen] = "none"]
    BY <2>2, <1>2, <1>4, <1>5, <1>6, ProcStep
  <2> QED BY <2>1, <2>2, <1>8
<1>10. ASSUME NEW q \in Runtimes, Truthful(q, proc', serve'), To("ended", q) PROVE Inv'
  <2>1. job' = [job EXCEPT !.at = "ended"] /\ mem' = q /\ disk' = disk BY <1>10 DEF To
  <2>2. job' \in Jobs /\ job'.at = "ended" /\ job'.op = "stop"
    BY <2>1, <1>2, <1>3 DEF Jobs, Places
  <2>3. Works(job', disk', mem', proc', gdir')
    BY <2>1, <2>2
    DEF Works, Doing, Following, Todo, Intended, Seen, Unfrozen, Unowned, Path, Ahead, Intending
  <2> QED BY <2>1, <2>3, <1>9, <1>10, GoInv
<1>11. CASE To("ended", Stale(mem))
  <2>1. Truthful(Stale(mem), proc', serve') BY <1>2, <1>9, StaleTruthful
  <2>2. PICK q : q = Stale(mem) OBVIOUS
  <2>3. q \in Runtimes BY <2>2, <1>2 DEF Stale, Runtimes, States
  <2>4. Truthful(q, proc', serve') /\ To("ended", q) BY <2>1, <2>2, <1>11
  <2> QED BY <2>3, <2>4, <1>10
<1>12. CASE /\ ~job.flag /\ proc' = [proc EXCEPT ![mem.gen] = "none"]
            /\ To("ended", [mem EXCEPT !.state = "stopped", !.servers = <<>>])
  <2>1. Bare(mem) BY <1>1, <1>2, <1>12 DEF Intended
  <2>2. Covers(mem, serve) BY DEF Inv, Truthful
  <2>3. \A n \in Names : serve[n] = NoSession BY <2>1, <2>2, <1>2, BareCovers
  <2>4. \A n \in Names : serve'[n] = NoSession BY <2>3, <1>4
  <2>5. proc' \in [Gens -> ProcStates] /\ proc'[mem.gen] = "none"
        /\ \A g \in Gens : g # mem.gen => proc'[g] = proc[g]
    BY <1>2, <1>6, <1>7, <1>12
  <2>6. PICK p : p = proc' OBVIOUS
  <2>7. \A g \in Gens : p[g] \notin Live BY <2>5, <2>6, <1>2, <1>6, NoOther
  <2>8. \A g \in Gens : proc'[g] \notin Live BY <2>6, <2>7
  <2>9. PICK q : q = [mem EXCEPT !.state = "stopped", !.servers = <<>>] OBVIOUS
  <2>10. <<>> \in Seq(Entries) OBVIOUS
  <2>11. q \in Runtimes /\ q.servers = <<>> /\ q.act = mem.act
    BY <2>9, <2>10, <1>2 DEF Runtimes, States
  <2>12. Bare(q) BY <2>1, <2>11 DEF Bare
  <2>13. Truthful(q, proc', serve') BY <2>4, <2>8, <2>11, <2>12, NothingLeft
  <2>14. To("ended", q) BY <2>9, <1>12
  <2> QED BY <2>11, <2>13, <2>14, <1>10
<1> QED BY <1>11, <1>12 DEF Terminate

LEMMA EndedInv ==
  ASSUME Inv, Ended PROVE Inv'
<1>1. End(mem) /\ NoFault /\ UNCHANGED <<proc, serve, gdir>> BY DEF Ended
<1>2. Machine' /\ OnlyDeadRetained' /\ Truthful(mem, proc', serve') BY <1>1, StillStep
<1> QED BY <1>1, <1>2, EndInv

\* An operation that cleans a record: d is saved, and names no process and no session.
LEMMA CleanBegins ==
  ASSUME Inv, UNCHANGED <<proc, serve, gdir>>, NoFault, NEW q \in Runtimes,
         q.state = "cleaning", Truthful(q, proc', serve'), mem' = q, disk' = q,
         job' = [op |-> "clean", at |-> "clean", todo |-> <<>>, flag |-> FALSE]
  PROVE  Inv'
<1>1. Machine' /\ OnlyDeadRetained' BY StillStep
<1>2. <<>> \in Seq(Names \cup Actions) OBVIOUS
<1>3. job' \in Jobs /\ job'.op = "clean" /\ job'.at = "clean"
  BY <1>2 DEF Jobs, Operations, Places
<1>4. q.act = NoAct BY DEF Truthful, Claims, Dead, Bare
<1>5. Works(job', disk', mem', proc', gdir')
  BY <1>3, <1>4
  DEF Works, Doing, Following, Todo, Intended, Seen, Unfrozen, Unowned, Path, Ahead,
      Intending, Worked
<1> QED BY <1>1, <1>5, GoInv

LEMMA CleanInv ==
  ASSUME Inv, Clean PROVE Inv'
<1>1. /\ disk.state \in {"stopped", "failed"} /\ NoFault /\ UNCHANGED <<proc, serve, gdir>>
      /\ job' = [op |-> "clean", at |-> "clean", todo |-> <<>>, flag |-> FALSE]
  BY DEF Clean, Begin
<1>2. PICK q : q = [disk EXCEPT !.state = "cleaning"] OBVIOUS
<1>3. mem' = q /\ disk' = q BY <1>2 DEF Clean
<1>4. disk \in Runtimes BY <1>1, RecordFacts DEF Inv, Truthful
<1>5. Truthful(disk, proc', serve') BY <1>1, StillStep
<1>6. q \in Runtimes /\ q.state = "cleaning" /\ q.gen = disk.gen /\ q.handle = disk.handle
      /\ q.servers = disk.servers /\ q.act = disk.act
  BY <1>2, <1>4 DEF Runtimes, States
<1>7. Holds(q, proc') /\ Covers(q, serve')
  BY <1>5, <1>6 DEF Truthful, Holds, Covers, Recorded, NamesOf
<1>8. Claims(q, proc') BY <1>1, <1>5, <1>6 DEF Truthful, Claims, Dead, Bare
<1>9. Truthful(q, proc', serve') BY <1>6, <1>7, <1>8 DEF Truthful
<1> QED BY <1>1, <1>3, <1>6, <1>9, CleanBegins

LEMMA RemoveGenerationInv ==
  ASSUME Inv, RemoveGeneration PROVE Inv'
<1>1. job.at = "clean" /\ job.at # "idle" /\ job.at \notin Ahead BY DEF RemoveGeneration, Ahead
<1>2. /\ job \in Jobs /\ Doing(job) /\ Following(job, disk, mem) /\ Todo(job)
      /\ Intended(job, mem) /\ Seen(job, mem, proc[mem.gen], gdir[mem.gen])
      /\ mem \in Runtimes /\ mem.gen \in Gens /\ mem = disk
  BY <1>1, AtWork
<1>3. job.op = "clean" BY <1>1, <1>2, PathFacts
<1>4. mem.state = "cleaning" BY <1>1, <1>2, <1>3 DEF Following, Worked, Ahead
<1>5. UNCHANGED <<proc, serve>> BY DEF RemoveGeneration
<1>6. CASE Quit /\ Fault /\ UNCHANGED gdir
  <2>1. Machine' /\ OnlyDeadRetained' /\ Truthful(disk, proc', serve')
    BY <1>5, <1>6, StillStep
  <2> QED BY <2>1, <1>6, QuitInv
<1>7. CASE /\ gdir' = [gdir EXCEPT ![mem.gen] = "retained"] /\ To("cleaned", mem) /\ NoFault
  <2>1. gdir \in [Gens -> {"absent", "active", "retained"}] BY DEF Inv, Machine
  <2>2. gdir' \in [Gens -> {"absent", "active", "retained"}]
        /\ \A g \in Gens : g # mem.gen => gdir'[g] = gdir[g]
    BY <2>1, <1>7
  <2>3. faults' \in 0..MaxFaults BY <1>7, FaultFacts
  <2>4. Machine' BY <2>2, <2>3, <1>5 DEF Inv, Machine
  <2>5. \A g \in Gens : proc[g] \notin Live BY <1>4 DEF Inv, Truthful, Claims, Dead
  <2>6. OnlyDeadRetained' BY <2>5, <1>5 DEF OnlyDeadRetained, Live
  <2>7. Truthful(mem, proc', serve') /\ Truthful(disk, proc', serve') BY <1>5 DEF Inv
  <2>8. job' = [job EXCEPT !.at = "cleaned"] /\ mem' = mem /\ disk' = disk BY <1>7 DEF To
  <2>9. job' \in Jobs /\ job'.at = "cleaned" /\ job'.op = "clean"
    BY <2>8, <1>2, <1>3 DEF Jobs, Places
  <2>10. Works(job', disk', mem', proc', gdir')
    BY <2>8, <2>9, <1>1, <1>2, <1>3
    DEF Works, Doing, Following, Todo, Intended, Seen, Unfrozen, Unowned, Path, Ahead, Intending
  <2> QED BY <2>4, <2>6, <2>7, <2>8, <2>10, GoInv
<1> QED BY <1>6, <1>7 DEF RemoveGeneration

LEMMA CleanedInv ==
  ASSUME Inv, Cleaned PROVE Inv'
<1>1. job.at = "cleaned" /\ job.at # "idle" /\ job.at \notin Ahead BY DEF Cleaned, Ahead
<1>2. /\ Doing(job) /\ Following(job, disk, mem) /\ mem \in Runtimes
  BY <1>1, AtWork
<1>3. job.op = "clean" BY <1>1, <1>2, PathFacts
<1>4. mem.state = "cleaning" BY <1>1, <1>2, <1>3 DEF Following, Worked
<1>5. PICK q : q = [mem EXCEPT !.state = "stopped", !.handle = FALSE, !.removed = TRUE] OBVIOUS
<1>6. End(q) /\ NoFault /\ UNCHANGED <<proc, serve, gdir>> BY <1>5 DEF Cleaned
<1>7. Machine' /\ OnlyDeadRetained' BY <1>6, StillStep
<1>8. Bare(mem) /\ \A g \in Gens : proc[g] \notin Live
  BY <1>4 DEF Inv, Truthful, Claims, Dead
<1>9. Covers(mem, serve) BY DEF Inv, Truthful
<1>10. \A n \in Names : serve[n] = NoSession BY <1>2, <1>8, <1>9, BareCovers
<1>11. q \in Runtimes /\ q.servers = mem.servers /\ q.act = mem.act
  BY <1>2, <1>5 DEF Runtimes, States
<1>12. Bare(q) BY <1>8, <1>11 DEF Bare
<1>13. Truthful(q, proc, serve) BY <1>8, <1>10, <1>11, <1>12, NothingLeft
<1>14. Truthful(q, proc', serve') BY <1>6, <1>13
<1> QED BY <1>6, <1>7, <1>14, EndInv

-------------------------------------------------------------------------------
\* Reconcile.
LEMMA ReconcileInv ==
  ASSUME Inv, Reconcile PROVE Inv'
<1>1. /\ disk.state \notin {"absent", "stopped", "failed"} /\ mem' = disk /\ disk' = disk
      /\ NoFault /\ UNCHANGED <<proc, serve, gdir>>
  BY DEF Reconcile
<1>2. disk \in Runtimes /\ disk.state \in States BY <1>1, RecordFacts DEF Inv, Truthful
<1>3. Machine' /\ OnlyDeadRetained' /\ Truthful(disk, proc', serve') BY <1>1, StillStep
<1>4. CASE disk.state = "cleaning"
  <2>1. job' = [op |-> "clean", at |-> "clean", todo |-> <<>>, flag |-> FALSE]
    BY <1>4 DEF Reconcile, Begin
  <2> QED BY <2>1, <1>1, <1>2, <1>3, <1>4, CleanBegins
<1>5. CASE disk.state # "cleaning"
  <2>1. job' = [op |-> "reconcile", at |-> "ledger", todo |-> <<>>, flag |-> FALSE]
    BY <1>5 DEF Reconcile, Begin
  <2>2. <<>> \in Seq(Names \cup Actions) OBVIOUS
  <2>3. job' \in Jobs /\ job'.op = "reconcile" /\ job'.at = "ledger"
    BY <2>1, <2>2 DEF Jobs, Operations, Places
  <2>4. disk.state \in Worked("reconcile") BY <1>1, <1>2, <1>5 DEF Worked, Dead
  <2>5. Works(job', disk', mem', proc', gdir')
    BY <2>3, <2>4, <1>1, <1>2
    DEF Works, Doing, Following, Todo, Intended, Seen, Unfrozen, Unowned, Path, Ahead, Intending
  <2> QED BY <2>5, <1>1, <1>3, GoInv
<1> QED BY <1>4, <1>5

-------------------------------------------------------------------------------
\* MutateDevServer.
LEMMA MutateInv ==
  ASSUME Inv, NEW n \in Names, NEW a \in Actions, Mutate(n, a) PROVE Inv'
<1>1. /\ job = Idle /\ disk.state = "running" /\ mem' = disk /\ disk' = disk
      /\ NoFault /\ UNCHANGED <<proc, serve, gdir>>
  BY DEF Mutate
<1>2. disk \in Runtimes BY <1>1, RecordFacts DEF Inv, Truthful
<1>3. Machine' /\ OnlyDeadRetained' /\ Truthful(disk, proc', serve') BY <1>1, StillStep
<1>4. PICK x : x = IF disk.act = NoAct THEN "mutate"
                   ELSE IF a = "publishing" THEN "publish" ELSE "ledger"
  OBVIOUS
<1>5. <<n, a>> \in Seq(Names \cup Actions) OBVIOUS
<1>6. job' = [op |-> "mutate", at |-> x, todo |-> <<n, a>>, flag |-> FALSE]
  BY <1>4 DEF Mutate, Idle
<1>7. job' \in Jobs /\ job'.op = "mutate" /\ job'.at = x /\ job'.todo = <<n, a>>
  BY <1>4, <1>5, <1>6 DEF Jobs, Operations, Places
<1>8. x \in Path("mutate") BY <1>4 DEF Path
<1>9. Doing(job') BY <1>7, <1>8 DEF Doing
<1>10. Following(job', disk', mem') BY <1>1, <1>2, <1>7 DEF Following, Worked
<1>11. Todo(job') BY <1>4, <1>7 DEF Todo
<1>12. Intended(job', mem') BY <1>1, <1>4, <1>7 DEF Intended, Intending
<1>13. Seen(job', mem', proc'[mem'.gen], gdir'[mem'.gen])
  BY <1>4, <1>7 DEF Seen, Unfrozen, Unowned
<1>14. Works(job', disk', mem', proc', gdir')
  BY <1>9, <1>10, <1>11, <1>12, <1>13 DEF Works
<1> QED BY <1>1, <1>3, <1>14, GoInv

LEMMA MutateOneInv ==
  ASSUME Inv, MutateOne PROVE Inv'
<1>1. job.at = "mutate" /\ job.at # "idle" /\ job.at \notin Ahead BY DEF MutateOne, Ahead
<1>2. /\ job \in Jobs /\ Doing(job) /\ Following(job, disk, mem) /\ Todo(job)
      /\ Intended(job, mem) /\ Seen(job, mem, proc[mem.gen], gdir[mem.gen])
      /\ mem \in Runtimes /\ mem.gen \in Gens /\ mem = disk
  BY <1>1, AtWork
<1>3. job.op = "mutate"
  <2>1. job.op \in Operations BY <1>2 DEF Jobs
  <2>2. job.at \in Path(job.op) BY <1>2 DEF Doing
  <2> QED BY <2>1, <2>2, <1>1 DEF Operations, Path
<1>4. mem.state = "running" BY <1>1, <1>2, <1>3 DEF Following, Worked, Ahead
<1>5. mem.act = NoAct BY <1>1, <1>2 DEF Intended, Intending
<1>6. NoFault /\ UNCHANGED <<proc, serve, gdir>> BY DEF MutateOne
<1>7. Machine' /\ OnlyDeadRetained' /\ Truthful(mem, proc', serve') BY <1>6, StillStep
<1>8. PICK n \in Names, a \in Actions : job.todo = <<n, a>> BY <1>1, <1>2, <1>3 DEF Todo
<1>9. job.todo[1] = n /\ job.todo[2] = a BY <1>8
<1>10. ASSUME NEW x \in {"starting", "stopping", "publish"}, NEW g \in ServerGens \cup {0},
              job' = [job EXCEPT !.at = x, !.todo = <<n>>],
              mem' = Acting(mem, n, a, g), disk' = mem'
       PROVE  Inv'
  <2>1. PICK q : q = Acting(mem, n, a, g) OBVIOUS
  <2>2. mem.state \notin Dead /\ mem.state # "suspended" BY <1>4 DEF Dead
  <2>3. q \in Runtimes /\ q.act # NoAct /\ q.gen = mem.gen /\ q.state = mem.state
        /\ Truthful(q, proc', serve')
    BY <2>1, <2>2, <1>2, <1>5, <1>7, ActingTruthful
  <2>4. mem' = q /\ disk' = q BY <2>1, <1>10
  <2>5. <<n>> \in Seq(Names \cup Actions) OBVIOUS
  <2>6. job' \in Jobs /\ job'.at = x /\ job'.op = "mutate" /\ job'.todo = <<n>>
    BY <2>5, <1>2, <1>3, <1>10 DEF Jobs, Places
  <2>7. x \in Path("mutate") BY DEF Path
  <2>8. Doing(job') BY <2>6, <2>7 DEF Doing
  <2>9. Following(job', disk', mem') BY <2>3, <2>4, <2>6, <1>4 DEF Following, Worked
  <2>10. Todo(job') BY <2>6 DEF Todo
  <2>11. Intended(job', mem') BY <2>3, <2>4, <2>6 DEF Intended, Intending
  <2>12. Seen(job', mem', proc'[mem'.gen], gdir'[mem'.gen])
    BY <2>6 DEF Seen, Unfrozen, Unowned
  <2>13. Works(job', disk', mem', proc', gdir')
    BY <2>8, <2>9, <2>10, <2>11, <2>12 DEF Works
  <2> QED BY <2>3, <2>4, <2>13, <1>7, GoInv
<1>11. PICK mine : mine = {e \in Range(mem.servers) : e.name = n} OBVIOUS
<1>12. \A e \in mine : e.sgen \in ServerGens \cup {0}
  <2>1. mem.servers \in Seq(Entries) BY <1>2, RecordFacts
  <2>2. mine \subseteq Entries BY <2>1, <1>11 DEF Range
  <2> QED BY <2>2 DEF Entries
<1> DEFINE Intend(x, g) == /\ job' = [job EXCEPT !.at = x, !.todo = <<n>>]
                           /\ mem' = Acting(mem, n, a, g) /\ disk' = mem'
<1>13. \/ Intend("starting", 0)
       \/ \E e \in mine : Intend("stopping", e.sgen)
       \/ \E e \in mine : Intend("publish", e.sgen)
       \/ Quit
  BY <1>9, <1>11 DEF MutateOne
<1>14. CASE Intend("starting", 0)
  <2>1. 0 \in ServerGens \cup {0} OBVIOUS
  <2> QED BY <2>1, <1>10, <1>14
<1>15. CASE \E e \in mine : Intend("stopping", e.sgen) BY <1>10, <1>12, <1>15
<1>16. CASE \E e \in mine : Intend("publish", e.sgen) BY <1>10, <1>12, <1>16
<1>17. CASE Quit BY <1>2, <1>7, <1>17, QuitInv
<1> QED BY <1>13, <1>14, <1>15, <1>16, <1>17

\* What a publication leaves of the session: the one there was, none or a new one.
LEMMA PublishFacts ==
  ASSUME Inv, Publish, mem \in Runtimes, mem.act # NoAct, NEW n, n = mem.act.name
  PROVE  /\ UNCHANGED <<proc, gdir>> /\ (Fault \/ NoFault)
         /\ \E t \in Sessions \cup {NoSession} :
              /\ t # NoSession => t.gen = mem.gen
              /\ serve' = [serve EXCEPT ![n] = t]
              /\ Quit \/ (t \in Sessions /\ Published(n))
<1>1. UNCHANGED <<proc, gdir>> BY DEF Publish
<1>2. n \in Names BY ActNames
<1>3. PICK s : s = serve[n] OBVIOUS
<1>4. s \in Sessions \cup {NoSession} /\ (s # NoSession => s.gen = mem.gen)
  BY <1>2, <1>3, OwnSession
<1>5. UNCHANGED serve => serve' = [serve EXCEPT ![n] = s]
  <2>1. serve \in Tables BY SameKeeps DEF Inv
  <2> QED BY <2>1, <1>3 DEF Tables
<1>6. (s.state # "none" <=> s \in Sessions) /\ (s.state = "none" <=> s = NoSession)
  BY <1>4, SessionFacts, SessionNotNone
<1> DEFINE Set(t) == serve' = [serve EXCEPT ![n] = t]
           Goal(t) == /\ t \in Sessions \cup {NoSession} /\ (t # NoSession => t.gen = mem.gen)
                      /\ Set(t) /\ (Quit \/ (t \in Sessions /\ Published(n)))
<1>7. CASE s.state = "none"
  <2>1. \/ (\E t \in Started(n, "managed", "healthy") : Set(t)) /\ Published(n) /\ NoFault
        \/ /\ \E t \in Started(n, "managed", "bad") \cup {NoSession} : Set(t)
           /\ Quit /\ Fault
    BY <1>3, <1>7 DEF Publish, StartSession
  <2>2. CASE (\E t \in Started(n, "managed", "healthy") : Set(t)) /\ Published(n) /\ NoFault
    <3>1. PICK t \in Started(n, "managed", "healthy") : Set(t) BY <2>2
    <3>2. t \in Sessions /\ t.gen = mem.gen BY StartedFacts
    <3>3. Goal(t) BY <3>1, <3>2, <2>2
    <3> QED BY <3>3, <2>2, <1>1
  <2>3. CASE /\ \E t \in Started(n, "managed", "bad") \cup {NoSession} : Set(t)
             /\ Quit /\ Fault
    <3>1. PICK t \in Started(n, "managed", "bad") \cup {NoSession} : Set(t) BY <2>3
    <3>2. t \in Sessions \cup {NoSession} /\ (t # NoSession => t.gen = mem.gen)
      BY <3>1, StartedFacts
    <3>3. Goal(t) BY <3>1, <3>2, <2>3
    <3> QED BY <3>3, <2>3, <1>1
  <2> QED BY <2>1, <2>2, <2>3
<1>8. CASE s.state # "none"
  <2>1. \/ Quit /\ NoFault /\ UNCHANGED serve
        \/ Published(n) /\ NoFault /\ UNCHANGED serve
        \/ /\ \E t \in Started(n, "managed", "healthy") : Set(t)
           /\ Published(n) /\ NoFault
        \/ /\ \E t \in {[s EXCEPT !.state = "bad"], NoSession}
                         \cup Started(n, "managed", "bad") : Set(t)
           /\ Quit /\ Fault
    BY <1>3, <1>8 DEF Publish
  <2>2. CASE (Quit \/ Published(n)) /\ NoFault /\ UNCHANGED serve
    <3>1. Goal(s) BY <2>2, <1>4, <1>5, <1>6, <1>8
    <3> QED BY <3>1, <2>2, <1>1
  <2>3. CASE /\ \E t \in Started(n, "managed", "healthy") : Set(t)
             /\ Published(n) /\ NoFault
    <3>1. PICK t \in Started(n, "managed", "healthy") : Set(t) BY <2>3
    <3>2. t \in Sessions /\ t.gen = mem.gen BY StartedFacts
    <3>3. Goal(t) BY <3>1, <3>2, <2>3
    <3> QED BY <3>3, <2>3, <1>1
  <2>4. CASE /\ \E t \in {[s EXCEPT !.state = "bad"], NoSession}
                           \cup Started(n, "managed", "bad") : Set(t)
             /\ Quit /\ Fault
    <3>1. PICK t \in {[s EXCEPT !.state = "bad"], NoSession}
                       \cup Started(n, "managed", "bad") : Set(t)
      BY <2>4
    <3>2. t \in Sessions \cup {NoSession} /\ (t # NoSession => t.gen = mem.gen)
      <4>1. CASE t = [s EXCEPT !.state = "bad"] BY <4>1, <1>4, <1>6, <1>8, StateSet
      <4>2. CASE t = NoSession BY <4>2
      <4>3. CASE t \in Started(n, "managed", "bad") BY <4>3, StartedFacts
      <4> QED BY <3>1, <4>1, <4>2, <4>3
    <3>3. Goal(t) BY <3>1, <3>2, <2>4
    <3> QED BY <3>3, <2>4, <1>1
  <2> QED BY <2>1, <2>2, <2>3, <2>4
<1> QED BY <1>7, <1>8

LEMMA PublishInv ==
  ASSUME Inv, Publish PROVE Inv'
<1>1. job.at = "publish" /\ job.at # "idle" /\ job.at \notin Ahead BY DEF Publish, Ahead
<1>2. /\ job \in Jobs /\ Doing(job) /\ Following(job, disk, mem) /\ Todo(job)
      /\ Intended(job, mem) /\ Seen(job, mem, proc[mem.gen], gdir[mem.gen])
      /\ mem \in Runtimes /\ mem.gen \in Gens /\ mem = disk
  BY <1>1, AtWork
<1>3. job.op = "mutate"
  <2>1. job.op \in Operations BY <1>2 DEF Jobs
  <2>2. job.at \in Path(job.op) BY <1>2 DEF Doing
  <2> QED BY <2>1, <2>2, <1>1 DEF Operations, Path
<1>4. mem.act # NoAct BY <1>1, <1>2 DEF Intended, Intending
<1>5. PICK n : n = mem.act.name OBVIOUS
<1>6. n \in Names BY <1>2, <1>4, <1>5, ActNames
<1>7. UNCHANGED <<proc, gdir>> /\ (Fault \/ NoFault) BY <1>2, <1>4, <1>5, PublishFacts
<1>8. PICK t \in Sessions \cup {NoSession} :
        /\ t # NoSession => t.gen = mem.gen
        /\ serve' = [serve EXCEPT ![n] = t]
        /\ Quit \/ (t \in Sessions /\ Published(n))
  BY <1>2, <1>4, <1>5, PublishFacts
<1>9. /\ Machine' /\ OnlyDeadRetained' /\ Truthful(mem, proc', serve') /\ serve'[n] = t
      /\ \A m \in Names : m # n => serve'[m] = serve[m]
  <2>1. faults' \in 0..MaxFaults BY <1>7, FaultFacts
  <2>2. (t # NoSession => t.gen = mem.gen) /\ serve' = [serve EXCEPT ![n] = t] BY <1>8
  <2>3. serve' \in Tables /\ serve'[n] = t /\ \A m \in Names : m # n => serve'[m] = serve[m]
    BY <2>2, <1>6, SetSession
  <2> QED BY <2>1, <2>2, <2>3, <1>2, <1>4, <1>5, <1>7, IntendedSession
<1>10. CASE Quit BY <1>2, <1>9, <1>10, QuitInv
<1>11. CASE t \in Sessions /\ Published(n)
  <2>1. PICK e : e = Entry(n) OBVIOUS
  <2>2. e \in Entries /\ e.name = n BY <2>1, <1>6, <1>9, <1>11, EntryTyped
  <2>3. PICK b : b = Without(mem.servers, n) OBVIOUS
  <2>4. mem.servers \in Seq(Entries) BY <1>2, RecordFacts
  <2>5. /\ b \in Seq(Entries)
        /\ \A i \in DOMAIN mem.servers : mem.servers[i].name # n =>
             \E j \in DOMAIN b : b[j] = mem.servers[i]
    BY <2>3, <2>4, WithoutFacts
  <2>6. PICK c : c = Append(b, e) OBVIOUS
  <2>7. /\ c \in Seq(Entries)
        /\ \A i \in DOMAIN b : i \in DOMAIN c /\ c[i] = b[i]
        /\ \E i \in DOMAIN c : c[i] = e
    BY <2>2, <2>5, <2>6, AppendFacts
  <2>8. PICK q : q = [mem EXCEPT !.act = NoAct, !.servers = c] OBVIOUS
  <2>9. q \in Runtimes /\ q.act = NoAct /\ q.servers = c /\ q.state = mem.state
        /\ q.gen = mem.gen /\ q.handle = mem.handle
    BY <2>7, <2>8, <1>2 DEF Runtimes
  <2>10. ASSUME NEW m \in Names, serve'[m] # NoSession PROVE Recorded(q, m)
    <3>1. CASE m = n BY <3>1, <2>2, <2>7, <2>9, RecordedAt
    <3>2. CASE m # n
      <4>1. Recorded(mem, m) BY <3>2, <2>10, <1>5, <1>9 DEF Truthful, Covers
      <4>2. PICK i \in DOMAIN mem.servers : mem.servers[i].name = m BY <4>1, <1>2, RecordedAt
      <4>3. PICK j \in DOMAIN b : b[j] = mem.servers[i] BY <4>2, <3>2, <2>5
      <4>4. j \in DOMAIN c /\ c[j].name = m BY <4>2, <4>3, <2>7
      <4> QED BY <4>4, <2>9, RecordedAt
    <3> QED BY <3>1, <3>2
  <2>11. Truthful(q, proc', serve') BY <2>9, <2>10, <1>2, <1>4, <1>9, ActDone
  <2>12. job' = [job EXCEPT !.at = "ended"] /\ mem' = q /\ disk' = disk
    BY <2>1, <2>3, <2>6, <2>8, <1>11 DEF Published, To
  <2>13. job' \in Jobs /\ job'.at = "ended" /\ job'.op = "mutate"
    BY <2>12, <1>2, <1>3 DEF Jobs, Places
  <2>14. Works(job', disk', mem', proc', gdir')
    BY <2>9, <2>12, <2>13
    DEF Works, Doing, Following, Todo, Intended, Seen, Unfrozen, Unowned, Path, Ahead, Intending
  <2>15. Truthful(disk', proc', serve') BY <2>12, <1>2, <1>9
  <2> QED BY <2>11, <2>12, <2>14, <2>15, <1>9, GoInv
<1> QED BY <1>8, <1>10, <1>11

-------------------------------------------------------------------------------
\* The manager dies: what it was doing to the session of its intent is left half done.
LEMMA InterruptedFacts ==
  ASSUME Inv, mem \in Runtimes, NEW n \in Names, NEW t \in Interrupted(n)
  PROVE  /\ t \in Sessions \cup {NoSession} /\ (t # NoSession => t.gen = mem.gen)
         /\ t = serve[n] \/ job.at \in Intending \/ (job.at = "ledger" /\ mem.act # NoAct)
<1>1. PICK s : s = serve[n] OBVIOUS
<1>2. s \in Sessions \cup {NoSession} /\ (s # NoSession => s.gen = mem.gen)
  BY <1>1, OwnSession
<1>3. t = s \/ job.at \in Intending \/ (job.at = "ledger" /\ mem.act # NoAct)
  BY <1>1 DEF Interrupted, Intending
<1>4. \/ t = s \/ t = NoSession
      \/ s.state # "none" /\ t = [s EXCEPT !.state = "bad"]
      \/ t \in Started(n, "local", "bad") \cup Started(n, "managed", "bad")
  BY <1>1 DEF Interrupted
<1>5. ASSUME s.state # "none", t = [s EXCEPT !.state = "bad"]
      PROVE  t \in Sessions /\ t.gen = mem.gen
  <2>1. s \in Sessions /\ s.gen = mem.gen BY <1>2, <1>5, SessionFacts
  <2> QED BY <2>1, <1>5, StateSet
<1>6. ASSUME t \in Started(n, "local", "bad") \cup Started(n, "managed", "bad")
      PROVE  t \in Sessions /\ t.gen = mem.gen
  BY <1>6, StartedFacts
<1> QED BY <1>1, <1>2, <1>3, <1>4, <1>5, <1>6

LEMMA CrashInv ==
  ASSUME Inv, Crash PROVE Inv'
<1>1. job # Idle /\ Fault /\ Quit /\ UNCHANGED <<proc, gdir>> BY DEF Crash
<1>2. job.at # "idle"
  <2>1. Doing(job) BY <1>1 DEF Inv, Working, Works
  <2> QED BY <2>1 DEF Doing, Jobs, Places
<1>3. mem \in Runtimes /\ (job.at \notin Ahead => mem = disk) /\ Intended(job, mem)
  BY <1>2, AtWork
<1>4. PICK n : n = mem.act.name OBVIOUS
<1>5. CASE UNCHANGED serve
  <2>1. Machine' /\ OnlyDeadRetained' /\ Truthful(disk, proc', serve')
    BY <1>1, <1>5, StillStep
  <2> QED BY <2>1, <1>1, QuitInv
<1>6. CASE n \in Names /\ \E t \in Interrupted(n) : serve' = [serve EXCEPT ![n] = t]
  <2>1. PICK t \in Interrupted(n) : serve' = [serve EXCEPT ![n] = t] BY <1>6
  <2>2. n \in Names BY <1>6
  <2>3. /\ t \in Sessions \cup {NoSession} /\ (t # NoSession => t.gen = mem.gen)
        /\ t = serve[n] \/ job.at \in Intending \/ (job.at = "ledger" /\ mem.act # NoAct)
    BY <2>2, <1>3, InterruptedFacts
  <2>4. CASE t = serve[n]
    <3>1. serve \in Tables BY SameKeeps DEF Inv
    <3>2. UNCHANGED serve BY <3>1, <2>1, <2>2, <2>4 DEF Tables
    <3> QED BY <3>2, <1>5
  <2>5. CASE job.at \in Intending \/ (job.at = "ledger" /\ mem.act # NoAct)
    <3>1. mem.act # NoAct BY <2>5, <1>3 DEF Intended
    <3>2. mem = disk BY <2>5, <1>3 DEF Intending, Ahead
    <3>3. serve' \in Tables /\ serve'[n] = t
          /\ \A m \in Names : m # n => serve'[m] = serve[m]
      BY <2>1, <2>2, <2>3, SetSession
    <3>4. faults' \in 0..MaxFaults BY <1>1, FaultFacts
    <3>5. t # NoSession => t.gen = mem.gen BY <2>3
    <3>6. Machine' /\ OnlyDeadRetained' /\ Truthful(mem, proc', serve')
      BY <3>1, <3>3, <3>4, <3>5, <1>1, <1>3, <1>4, IntendedSession
    <3>7. Truthful(disk, proc', serve') BY <3>2, <3>6
    <3> QED BY <3>6, <3>7, <1>1, QuitInv
  <2> QED BY <2>3, <2>4, <2>5
<1> QED BY <1>4, <1>5, <1>6 DEF Crash

-------------------------------------------------------------------------------
\* The inductive invariant.
LEMMA InitInv ==
  ASSUME Init PROVE Inv
<1>1. MaxFaults \in Nat BY LimitsAssumption
<1>2. Machine BY <1>1 DEF Init, Machine, ProcStates
<1>3. OnlyDeadRetained BY DEF Init, OnlyDeadRetained
<1>4. \A g \in Gens : proc[g] \notin Live BY DEF Init, Live
<1>5. \A n \in Names : serve[n] = NoSession BY DEF Init
<1>6. NoRecord.state = "absent" /\ Bare(NoRecord) BY DEF NoRecord, Bare
<1>7. Truthful(NoRecord, proc, serve)
  BY <1>4, <1>5, <1>6 DEF Truthful, Holds, Covers, Claims
<1> QED BY <1>2, <1>3, <1>7 DEF Init, Inv

LEMMA NextInv ==
  ASSUME Inv, [Next]_vars PROVE Inv'
<1>1. CASE Step
  BY <1>1, CreateInv, LaunchInv, CommitInv, ReleaseInv, InspectStartedInv, NextStartInv,
     StartOneInv, StartedOneInv, NextStopInv, StopOneInv, StoppedOneInv, LedgerInv, CleanupInv,
     KillInv, JudgeInv, MutateOneInv, PublishInv, FreezeInv, FrozenInv, ThawInv, RefreezeInv,
     TerminateInv, EndedInv, RemoveGenerationInv, CleanedInv
  DEF Step
<1>2. CASE Request
  BY <1>2, InspectInv, SuspendInv, ResumeInv, StopInv, CleanInv, StartNewInv, MutateInv
  DEF Request
<1>3. CASE Reconcile BY <1>3, ReconcileInv
<1>4. CASE Environment
  BY <1>4, SupervisorExitsInv, HeadlessEndsInv, PidFreedInv DEF Environment
<1>5. CASE Crash BY <1>5, CrashInv
<1>6. CASE \E g \in Gens : ProcessExits(g) \/ PidReused(g)
  BY <1>6, ProcessExitsInv, PidReusedInv
<1>7. CASE \E n \in Names : ServerFails(n) BY <1>7, ServerFailsInv
<1>8. CASE UNCHANGED vars
  <2>1. UNCHANGED <<disk, mem, job, proc, serve, gdir, faults>> BY <1>8 DEF vars
  <2>2. Machine' BY <2>1 DEF Inv, Machine
  <2>3. Quieter(proc, proc') /\ Shrinks(serve, serve') BY <2>1 DEF Quieter, Shrinks
  <2> QED BY <2>1, <2>2, <2>3, EnvInv
<1> QED BY <1>1, <1>2, <1>3, <1>4, <1>5, <1>6, <1>7, <1>8 DEF Next

LEMMA SpecInv == Spec => []Inv
<1>1. Init => Inv BY InitInv
<1>2. Inv /\ [Next]_vars => Inv' BY NextInv
<1> QED BY <1>1, <1>2, PTL DEF Spec

-------------------------------------------------------------------------------
\* What the invariant says of the properties.
LEMMA SessionTyped ==
  ASSUME NEW t \in Sessions \cup {NoSession}
  PROVE  t \in [state : {"none", "healthy", "shaky", "flagged", "lost", "bad"},
                gen : Gens \cup {""}, sgen : ServerGens \cup {0}, mode : {"local", "managed"}]
<1>1. CASE t = NoSession BY <1>1 DEF NoSession
<1>2. CASE t \in Sessions
  <2>1. t.state \in {"healthy", "shaky", "flagged", "lost", "bad"} /\ t.gen \in Gens
        /\ t.sgen \in ServerGens /\ t.mode \in {"local", "managed"}
        /\ t = [state |-> t.state, gen |-> t.gen, sgen |-> t.sgen, mode |-> t.mode]
    BY <1>2 DEF Sessions
  <2> QED BY <2>1
<1> QED BY <1>1, <1>2

LEMMA InvTyped ==
  ASSUME Inv PROVE TypeOK
<1>1. disk \in Records /\ mem \in Records BY RecordTyped DEF Inv, Truthful
<1>2. ASSUME NEW n \in Names
      PROVE  serve[n] \in [state : {"none", "healthy", "shaky", "flagged", "lost", "bad"},
                           gen : Gens \cup {""}, sgen : ServerGens \cup {0},
                           mode : {"local", "managed"}]
  <2>1. serve[n] \in Sessions \cup {NoSession} BY DEF Inv, Machine
  <2> QED BY <2>1, SessionTyped
<1>3. serve \in [Names -> [state : {"none", "healthy", "shaky", "flagged", "lost", "bad"},
                           gen : Gens \cup {""}, sgen : ServerGens \cup {0},
                           mode : {"local", "managed"}]]
  BY <1>2 DEF Inv, Machine
<1> QED BY <1>1, <1>3 DEF Inv, Machine, ProcStates, TypeOK

LEMMA InvOwnedServers ==
  ASSUME Inv PROVE OwnedServers
<1> SUFFICES ASSUME NEW n \in Names, serve[n].state # "none"
             PROVE  serve[n].gen = disk.gen /\ (Recorded(disk, n) \/ disk.act.name = n)
  BY DEF OwnedServers
<1>1. NoSession.state = "none" BY DEF NoSession
<1>2. serve[n] # NoSession BY <1>1
<1> QED BY <1>2 DEF Inv, Truthful, Covers

LEMMA InvStatesAgree ==
  ASSUME Inv PROVE StatesAgree
<1>1. NoSession.state = "none" BY DEF NoSession
<1>2. disk \in Runtimes \cup {NoRecord} /\ Covers(disk, serve) /\ Claims(disk, proc)
  BY DEF Inv, Truthful
<1>3. ASSUME Bare(disk) PROVE \A n \in Names : serve[n].state = "none"
  BY <1>1, <1>2, <1>3, BareCovers
<1>4. ASSUME disk.state \in {"stopped", "failed"}
      PROVE  /\ Bare(disk) /\ \A g \in Gens : proc[g] \notin {"running", "frozen"}
             /\ \A n \in Names : serve[n].state = "none"
  BY <1>2, <1>3, <1>4 DEF Claims, Dead, Live
<1>5. ASSUME disk.state = "suspended"
      PROVE  proc[disk.gen] # "running" /\ \A n \in Names : serve[n].state = "none"
  BY <1>2, <1>3, <1>5 DEF Claims
<1>6. ASSUME disk.state = "running" PROVE proc[disk.gen] # "frozen"
  BY <1>2, <1>6 DEF Claims
<1> QED BY <1>4, <1>5, <1>6 DEF StatesAgree, Bare

\* The record and its copy, the process groups, the sessions and the directories keep
\* their types: no operation writes a state, an entry or an intent that the next one
\* cannot read (internal/workspacerun/types.go).
THEOREM ManagerTyped == Spec => []TypeOK
<1>1. Inv => TypeOK BY InvTyped
<1> QED BY <1>1, SpecInv, PTL

\* A runtime's command never runs, or is suspended, without a saved record that names its
\* generation and holds its handle: Commit saves the handle before Release lets the
\* supervisor start the command (start.go:133, process.go:121).
THEOREM CommandsOwned == Spec => []OwnedProcess
<1>1. Inv => OwnedProcess BY DEF Inv, Truthful, Holds, Live, OwnedProcess
<1> QED BY <1>1, SpecInv, PTL

\* A dev server's session is always named by the saved ledger or by the saved intent, so
\* whoever takes the lock after a crash knows of it.
THEOREM SessionsOwned == Spec => []OwnedServers
<1>1. Inv => OwnedServers BY InvOwnedServers
<1> QED BY <1>1, SpecInv, PTL

\* While nobody holds the lock, a record that says stopped or failed has left no process
\* and no session, a suspended one runs nothing and a running one is not frozen, whatever
\* crashed, died or failed before (lifecycle.go:99, 136, 228).
THEOREM RecordsAgree == Spec => []StatesAgree
<1>1. Inv => StatesAgree BY InvStatesAgree
<1> QED BY <1>1, SpecInv, PTL

\* Clean moves the directory of a generation away only when nothing of it runs.
THEOREM RetainedDead == Spec => []OnlyDeadRetained
<1>1. Inv => OnlyDeadRetained BY DEF Inv
<1> QED BY <1>1, SpecInv, PTL
===============================================================================
