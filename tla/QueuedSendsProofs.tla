-------------------------- MODULE QueuedSendsProofs --------------------------
(***************************************************************************)
(* Proofs about QueuedSends for any operations, requests, services, and    *)
(* any bounds: the types, that a message its request sends itself has at   *)
(* most one turn in each generation, and that a queued message has one     *)
(* turn while one service dispatches it and nothing fails.                 *)
(***************************************************************************)
EXTENDS QueuedSends, TLAPS

RowType == [st : Unresolved \cup {"none", "completed"}, attempt : Numbers, gen : Generations,
            res : {"none", "queued", "accepted", "blocked"}]
ActType == [at : {"new", "look", "reserve", "enqueue", "sent", "done", "off", "top", "rebind",
                  "read", "claim"},
            op : Ops \cup {"none"}, svc : Services \cup {"none"}, gen : Generations,
            seen : Generations, k : Numbers, rec : BOOLEAN,
            ans : Answers \cup {"active", "pending", "uncertain"}]
LoopLabels == {"off", "top", "rebind", "read", "claim", "sent"}
CallLabels == {"new", "look", "reserve", "enqueue", "sent", "done"}
Working == {"look", "reserve", "enqueue", "sent"}

-------------------------------------------------------------------------------
\* The inductive invariant.

Typed == TypeOK /\ faults \in [lost : Nat, crashes : Nat, others : Nat]

\* Whose step is whose: a loop is named by its service and operation, a request that works
\* has an operation and a running service, and sends under the operation ID itself.
LoopPlaced(a) == act[a].op = a[2] /\ act[a].svc = a[1] /\ act[a].at \in LoopLabels
CallPlaced(c) ==
  /\ act[c].at \in CallLabels /\ act[c].k = 0
  /\ act[c].at \in Working =>
       act[c].op \in Ops /\ act[c].svc \in Services /\ known[act[c].svc] # Down
  /\ act[c].at = "enqueue" \/ act[c].ans = "active" => act[c].op \in Queue
Placed ==
  /\ \A a \in Loops : LoopPlaced(a)
  /\ \A c \in Calls : CallPlaced(c)
  /\ \A s \in again : known[s] # Down
  /\ \A s \in Services : known[s] <= gen

\* A message that its request sends has one dispatch ID, which starts one turn for each host.
DirectOnce == \A o \in Direct : turns[o] <= gen
OneId ==
  /\ \A id \in late : id[1] \in Direct => id[2] = 0
  /\ \A o \in Direct : ledger[<<o, 0>>] # "accepted" => turns[o] + 1 <= gen

\* Nothing was lost, nobody died.
Calm == faults.lost = 0 /\ faults.crashes = 0 /\ gen = 1

Answered(o) == ledger[<<o, row[o].attempt>>]
Unserved(o) == \E c \in Calls : act[c].op = o /\ Sent(c)
Owns(c, o) == act[c].op = o /\ act[c].at \in {"enqueue", "sent"}
Requeues(c, o) ==
  act[c].op = o /\ (act[c].at = "enqueue" \/ (act[c].at = "sent" /\ act[c].ans = "rejected"))
LoopHolds(o) == \E s \in Services : act[<<s, o>>].at = "sent" /\ act[<<s, o>>].ans # "rejected"
Refused(o) == \E a \in Actors : act[a].op = o /\ act[a].at = "sent" /\ act[a].ans = "refused"
Heard == {"sent", "accepted", "rejected", "refused"}

\* The row in a calm run, and what it is before any request.
RowCalm(o) ==
  /\ row[o].st \in {"none", "pending", "queued", "completed"}
  /\ row[o].st \in Unresolved => row[o].res = "queued"
  /\ row[o].st = "none" =>
       /\ row[o].attempt = 0 /\ Answered(o) = "none"
       /\ \A c \in Calls : ~Owns(c, o)

\* Later attempts were not sent, and earlier ones are answered or will not be sent again.
Attempted(o) ==
  /\ \A k \in Numbers : k > row[o].attempt => ledger[<<o, k>>] = "none"
  /\ \A k \in Numbers : k < row[o].attempt => ledger[<<o, k>>] = "rejected" \/ ~Unserved(o)

LoopCalm(s, o) ==
  LET l == act[<<s, o>>] IN
  /\ l.at # "off" => l.gen = 1 /\ row[o].st # "none" /\ l.at # "rebind"
  /\ l.at = "sent" \/ (l.at = "top" /\ l.rec) => l.k = row[o].attempt
  /\ l.at \in {"read", "claim"} \/ (l.at = "top" /\ ~l.rec) => row[o].st \in {"queued", "completed"}
  /\ l.at \in {"read", "claim"} => ~l.rec
  /\ l.at = "sent" => l.ans \in Heard
  /\ l.at = "sent" /\ l.ans = "rejected" /\ row[o].st \in Unresolved =>
       Answered(o) = "rejected" \/ (Answered(o) # "accepted" /\ ~Unserved(o))

CallCalm(c) ==
  /\ act[c].at = "look" => /\ act[c].gen \in {0, 1}
                           /\ act[c].ans # "none" => row[act[c].op].st # "none" /\ act[c].gen = 1
  /\ act[c].at \in {"reserve", "enqueue", "sent"} => act[c].gen = 1
  /\ act[c].at = "sent" => act[c].ans \in Heard

\* The turn of the last attempt is not followed by another: a row that is or will be queued
\* again after it is held by a loop that is going to complete it.
Held(o) ==
  /\ row[o].st = "queued" => Answered(o) = "rejected" \/ ~Unserved(o)
  /\ row[o].st \in Unresolved /\ Answered(o) = "accepted"
     /\ (row[o].st = "queued" \/ row[o].attempt > 0 \/ \E c \in Calls : Requeues(c, o))
     => LoopHolds(o)
  /\ Answered(o) = "idle" => row[o].st = "completed" \/ Refused(o)
  /\ \A c, d \in Calls : Owns(c, o) /\ Owns(d, o) => c = d
  /\ turns[o] <= IF Answered(o) = "accepted" THEN 1 ELSE 0

QueueCalm ==
  /\ late = {}
  /\ \A o \in Ops : row[o].gen = IF row[o].st = "none" THEN 0 ELSE 1
  /\ \A c \in Calls : CallCalm(c)
  /\ \A o \in Queue : RowCalm(o) /\ Attempted(o) /\ Held(o) /\ \A s \in Services : LoopCalm(s, o)

IInv == Typed /\ Placed /\ DirectOnce /\ OneId
CalmInv == Calm => QueueCalm

-------------------------------------------------------------------------------
\* Types.

LEMMA TypeParts ==
  ASSUME IInv
  PROVE  /\ row \in [Ops -> RowType] /\ act \in [Actors -> ActType]
         /\ known \in [Services -> Generations \cup {Down}] /\ again \subseteq Services
         /\ gen \in 1 .. MaxGeneration /\ busy \in BOOLEAN /\ late \subseteq Ids
         /\ ledger \in [Ids -> {"none", "idle", "rejected", "accepted"}]
         /\ turns \in [Ops -> 0 .. 3] /\ faults \in [lost : Nat, crashes : Nat, others : Nat]
         /\ \A o \in Direct : row[o].st # "queued" /\ row[o].res # "queued" /\ row[o].attempt = 0
         /\ \A a \in Loops : act[a].at # "off" => a[2] \in Queue /\ known[a[1]] # Down
BY DEF IInv, Typed, TypeOK, RowType, ActType

LEMMA TypeWhole ==
  ASSUME row \in [Ops -> RowType], act \in [Actors -> ActType],
         known \in [Services -> Generations \cup {Down}], again \subseteq Services,
         gen \in 1 .. MaxGeneration, busy \in BOOLEAN, late \subseteq Ids,
         ledger \in [Ids -> {"none", "idle", "rejected", "accepted"}],
         turns \in [Ops -> 0 .. 3], faults \in [lost : Nat, crashes : Nat, others : Nat],
         \A o \in Direct : row[o].st # "queued" /\ row[o].res # "queued" /\ row[o].attempt = 0,
         \A a \in Loops : act[a].at # "off" => a[2] \in Queue /\ known[a[1]] # Down
  PROVE  Typed
BY DEF Typed, TypeOK, RowType, ActType

LEMMA Names ==
  /\ Queue \subseteq Ops /\ Direct \subseteq Ops /\ Calls \subseteq Actors /\ Loops \subseteq Actors
  /\ \A o \in Queue : o \notin Direct
  /\ \A c \in Calls : c \notin Loops
  /\ \A a \in Loops : a[1] \in Services /\ a[2] \in Ops /\ a = <<a[1], a[2]>>
  /\ \A s \in Services, o \in Ops : <<s, o>> \in Loops
  /\ 0 \in Numbers /\ 0 \in Generations
BY NamesAssumption, BoundsAssumption DEF Ops, Loops, Actors, Numbers, Generations

LEMMA ActFields ==
  ASSUME IInv, NEW a \in Actors
  PROVE  /\ act[a] \in ActType /\ act[a].gen \in Generations /\ act[a].k \in Numbers
         /\ act[a].rec \in BOOLEAN
BY TypeParts DEF ActType

\* The fields of a record that changes.
LEMMA RowFields ==
  ASSUME NEW r \in RowType
  PROVE  /\ r.attempt \in Numbers /\ r.gen \in Generations
         /\ r.st \in Unresolved \cup {"none", "completed"}
         /\ r.res \in {"none", "queued", "accepted", "blocked"}
BY DEF RowType

LEMMA OffParts ==
  /\ \A s \in Services, o \in Ops : /\ Off(s, o) \in ActType /\ Off(s, o).at = "off"
                                    /\ Off(s, o).op = o /\ Off(s, o).svc = s
  /\ [Off("none", "none") EXCEPT !.at = "done"] \in ActType
  /\ [Off("none", "none") EXCEPT !.at = "new"] \in ActType
<1>1. ASSUME NEW s \in Services \cup {"none"}, NEW o \in Ops \cup {"none"}
      PROVE  Off(s, o) \in ActType /\ Off(s, o).at = "off" /\ Off(s, o).op = o /\ Off(s, o).svc = s
  BY Names DEF Off, ActType, Answers
<1>2. PICK x \in ActType : x = Off("none", "none")
  BY <1>1
<1>3. [x EXCEPT !.at = "done"] \in ActType /\ [x EXCEPT !.at = "new"] \in ActType
  BY DEF ActType
<1> QED BY <1>1, <1>2, <1>3

Begun(x, m, g, rec, k) ==
  /\ m.at = "off" /\ x \in ActType /\ x.at = "top" /\ x.gen = g /\ x.rec = rec /\ x.k = k
  /\ x.op = m.op /\ x.svc = m.svc

LEMMA ScheduledParts ==
  ASSUME NEW acts \in [Actors -> ActType], NEW s \in Services, NEW o \in Ops,
         NEW g \in Generations, NEW rec \in BOOLEAN, NEW k \in Numbers
  PROVE  /\ Scheduled(acts, s, o, g, rec, k) \in [Actors -> ActType]
         /\ \A a \in Actors : \/ Scheduled(acts, s, o, g, rec, k)[a] = acts[a]
                              \/ /\ a = <<s, o>>
                                 /\ Begun(Scheduled(acts, s, o, g, rec, k)[a], acts[a], g, rec, k)
<1>1. <<s, o>> \in Actors
  BY Names
<1>2. CASE acts[<<s, o>>].at # "off"
  BY <1>2 DEF Scheduled
<1>3. CASE acts[<<s, o>>].at = "off"
  <2>1. PICK x : x = [acts[<<s, o>>] EXCEPT !.at = "top", !.gen = g, !.rec = rec, !.k = k]
    OBVIOUS
  <2>2. Begun(x, acts[<<s, o>>], g, rec, k)
    <3>1. acts[<<s, o>>] \in ActType
      BY <1>1
    <3> QED BY <1>3, <2>1, <3>1 DEF Begun, ActType
  <2>3. Scheduled(acts, s, o, g, rec, k) = [acts EXCEPT ![<<s, o>>] = x]
    BY <1>3, <2>1 DEF Scheduled
  <2>4. x \in ActType
    BY <2>2 DEF Begun
  <2> QED BY <1>1, <2>2, <2>3, <2>4
<1> QED BY <1>2, <1>3

LEMMA ResumedParts ==
  ASSUME IInv, NEW acts \in [Actors -> ActType], NEW s \in Services
  PROVE  /\ Resumed(acts, s) \in [Actors -> ActType]
         /\ \A a \in Actors : \/ Resumed(acts, s)[a] = acts[a]
                              \/ /\ a \in Loops /\ a[1] = s /\ Recoverable(row[a[2]])
                                 /\ Begun(Resumed(acts, s)[a], acts[a], row[a[2]].gen,
                                          row[a[2]].st # "queued", row[a[2]].attempt)
<1>1. ASSUME NEW a \in Actors
      PROVE  /\ Resumed(acts, s)[a] \in ActType
             /\ \/ Resumed(acts, s)[a] = acts[a]
                \/ /\ a \in Loops /\ a[1] = s /\ Recoverable(row[a[2]])
                   /\ Begun(Resumed(acts, s)[a], acts[a], row[a[2]].gen,
                            row[a[2]].st # "queued", row[a[2]].attempt)
  <2>1. CASE a \in Loops /\ a[1] = s /\ Recoverable(row[a[2]])
    <3>1. a[2] \in Ops /\ row[a[2]] \in RowType
      BY <2>1, Names, TypeParts
    <3>2. PICK o, g, rec, k : /\ o = a[2] /\ g = row[o].gen /\ rec = (row[o].st # "queued")
                              /\ k = row[o].attempt
      OBVIOUS
    <3>3. o \in Ops /\ g \in Generations /\ rec \in BOOLEAN /\ k \in Numbers
      BY <3>1, <3>2, RowFields
    <3>4. Resumed(acts, s)[a] = Scheduled(acts, s, o, g, rec, k)[a]
      BY <2>1, <3>2 DEF Resumed
    <3>5. \/ Scheduled(acts, s, o, g, rec, k)[a] = acts[a]
          \/ Begun(Scheduled(acts, s, o, g, rec, k)[a], acts[a], g, rec, k)
      BY <3>3, ScheduledParts
    <3>6. Resumed(acts, s)[a] \in ActType
      BY <3>4, <3>5 DEF Begun
    <3> QED BY <2>1, <3>2, <3>4, <3>5, <3>6
  <2>2. CASE ~(a \in Loops /\ a[1] = s /\ Recoverable(row[a[2]]))
    BY <2>2 DEF Resumed
  <2> QED BY <2>1, <2>2
<1>2. Resumed(acts, s) \in [Actors -> ActType]
  <2>1. Resumed(acts, s) = [a \in Actors |-> Resumed(acts, s)[a]]
    BY DEF Resumed
  <2> QED BY <1>1, <2>1
<1> QED BY <1>1, <1>2

\* Steps of the server leave the host alone.
LEMMA ServerKeeps ==
  ASSUME IInv, UNCHANGED <<host, faults>>, act' \in [Actors -> ActType], row' \in [Ops -> RowType],
         known' \in [Services -> Generations \cup {Down}], again' \subseteq Services,
         \A o \in Direct : \/ row'[o] = row[o]
                           \/ row'[o].st # "queued" /\ row'[o].res # "queued" /\ row'[o].attempt = 0,
         \A s \in Services : (known[s] # Down => known'[s] # Down) /\ known'[s] <= gen,
         \A s \in again' : known'[s] # Down,
         \A a \in Loops : \/ act'[a] = act[a]
                          \/ /\ LoopPlaced(a)'
                             /\ act'[a].at # "off" => a[2] \in Queue /\ known'[a[1]] # Down,
         \A c \in Calls : act'[c] = act[c] \/ CallPlaced(c)'
  PROVE  IInv'
<1>1. UNCHANGED <<gen, busy, ledger, late, turns, faults>>
  BY DEF host
<1>2. \A o \in Direct : row'[o].st # "queued" /\ row'[o].res # "queued" /\ row'[o].attempt = 0
  BY TypeParts
<1>3. \A a \in Loops : act'[a].at # "off" => a[2] \in Queue /\ known'[a[1]] # Down
  BY TypeParts, Names
<1>4. Typed'
  <2>1. /\ gen' \in 1 .. MaxGeneration /\ busy' \in BOOLEAN /\ late' \subseteq Ids
        /\ ledger' \in [Ids -> {"none", "idle", "rejected", "accepted"}]
        /\ turns' \in [Ops -> 0 .. 3] /\ faults' \in [lost : Nat, crashes : Nat, others : Nat]
    BY <1>1, TypeParts
  <2> QED BY <1>2, <1>3, <2>1, TypeWhole DEF Typed, TypeOK, RowType, ActType
<1>5. \A a \in Loops : LoopPlaced(a)'
  BY DEF IInv, Placed, LoopPlaced
<1>6. \A c \in Calls : CallPlaced(c)'
  BY DEF IInv, Placed, CallPlaced
<1>7. Placed'
  BY <1>1, <1>5, <1>6 DEF Placed
<1>8. DirectOnce' /\ OneId'
  BY <1>1 DEF IInv, DirectOnce, OneId
<1> QED BY <1>4, <1>7, <1>8 DEF IInv

\* A dispatcher's step: its own loop moves, and only its own operation's row.
LEMMA LoopKeeps ==
  ASSUME IInv, UNCHANGED <<host, faults>>, NEW a \in Loops, act[a].at # "off",
         NEW x \in ActType, x.op = act[a].op, x.svc = act[a].svc, x.at \in LoopLabels,
         act' = [act EXCEPT ![a] = x],
         row' = row \/ \E r \in RowType : row' = [row EXCEPT ![a[2]] = r],
         known' = known \/ known' = [known EXCEPT ![a[1]] = gen],
         again' = again \/ again' = again \cup {a[1]}
  PROVE  IInv'
<1>1. a[1] \in Services /\ a[2] \in Queue /\ a[2] \in Ops /\ a[2] \notin Direct /\ known[a[1]] # Down
  BY TypeParts, Names
<1>2. /\ act' \in [Actors -> ActType] /\ act'[a] = x
      /\ \A b \in Actors : b # a => act'[b] = act[b]
  BY TypeParts, Names
<1>3. row' \in [Ops -> RowType] /\ \A o \in Direct : row'[o] = row[o]
  BY <1>1, TypeParts, Names
<1>4. gen \in Generations /\ gen # Down /\ gen <= gen
  BY TypeParts, BoundsAssumption DEF Generations, Down
<1>5. /\ known' \in [Services -> Generations \cup {Down}]
      /\ \A s \in Services : (known[s] # Down => known'[s] # Down) /\ known'[s] <= gen
  <2>1. \A s \in Services : known[s] <= gen
    BY DEF IInv, Placed
  <2> QED BY <1>4, <2>1, TypeParts
<1>6. again' \subseteq Services /\ \A s \in again' : known'[s] # Down
  <2>1. \A s \in again : s \in Services /\ known[s] # Down
    BY TypeParts DEF IInv, Placed
  <2> QED BY <1>1, <1>5, <2>1
<1>7. LoopPlaced(a)'
  BY <1>2 DEF LoopPlaced, IInv, Placed
<1>8. \A b \in Loops : \/ act'[b] = act[b]
                       \/ LoopPlaced(b)' /\ (act'[b].at # "off" => b[2] \in Queue /\ known'[b[1]] # Down)
  BY <1>1, <1>2, <1>5, <1>7, Names
<1>9. \A c \in Calls : act'[c] = act[c] \/ CallPlaced(c)'
  BY <1>2, Names
<1> QED BY <1>2, <1>3, <1>5, <1>6, <1>8, <1>9, ServerKeeps

\* A loop that starts: of a queued message, in a service that runs.
Starts(a) ==
  /\ a \in Loops /\ a[2] \in Queue /\ known'[a[1]] # Down
  /\ \E g, rec, k : Begun(act'[a], act[a], g, rec, k)

\* A request's step: it moves, and loops may start.
LEMMA CallKeeps ==
  ASSUME IInv, UNCHANGED <<host, faults, again>>, act' \in [Actors -> ActType],
         row' \in [Ops -> RowType],
         \A o \in Direct : \/ row'[o] = row[o]
                           \/ row'[o].st # "queued" /\ row'[o].res # "queued" /\ row'[o].attempt = 0,
         known' \in [Services -> Generations \cup {Down}],
         \A s \in Services : (known[s] # Down => known'[s] # Down) /\ known'[s] <= gen,
         \A a \in Loops : act'[a] = act[a] \/ Starts(a),
         \A c \in Calls : act'[c] = act[c] \/ CallPlaced(c)'
  PROVE  IInv'
<1>1. again' \subseteq Services /\ \A s \in again' : known'[s] # Down
  <2>1. \A s \in again : s \in Services /\ known[s] # Down
    BY TypeParts DEF IInv, Placed
  <2> QED BY <2>1
<1>2. ASSUME NEW a \in Loops, Starts(a)
      PROVE  LoopPlaced(a)' /\ (act'[a].at # "off" => a[2] \in Queue /\ known'[a[1]] # Down)
  BY <1>2 DEF Starts, Begun, LoopPlaced, LoopLabels, IInv, Placed
<1> QED BY <1>1, <1>2, ServerKeeps

LEMMA RecoverableQueue ==
  ASSUME IInv, NEW o \in Ops, Recoverable(row[o])
  PROVE  o \in Queue /\ row[o].st \in Unresolved
BY TypeParts, Names DEF Recoverable, Ops

\* The services list the rows.
LEMMA ResumedKeeps ==
  ASSUME IInv, UNCHANGED <<host, faults, row>>, NEW s \in Services, act' = Resumed(act, s),
         known' = [known EXCEPT ![s] = 0] \/ (known' = known /\ known[s] # Down),
         again' \subseteq again
  PROVE  IInv'
<1>1. act' \in [Actors -> ActType] /\ row' \in [Ops -> RowType]
  BY TypeParts, ResumedParts
<1>2. gen \in Nat /\ 0 <= gen /\ 0 # Down /\ 0 \in Generations
  BY TypeParts, BoundsAssumption DEF Generations, Down
<1>3. /\ known' \in [Services -> Generations \cup {Down}]
      /\ \A t \in Services : (known[t] # Down => known'[t] # Down) /\ known'[t] <= gen
  <2>1. \A t \in Services : known[t] <= gen
    BY DEF IInv, Placed
  <2> QED BY <1>2, <2>1, TypeParts
<1>4. known'[s] # Down
  BY <1>2, TypeParts
<1>5. ASSUME NEW a \in Actors
      PROVE  act'[a] = act[a] \/ Starts(a)
  <2>1. \/ act'[a] = act[a]
        \/ /\ a \in Loops /\ a[1] = s /\ Recoverable(row[a[2]])
           /\ Begun(act'[a], act[a], row[a[2]].gen, row[a[2]].st # "queued", row[a[2]].attempt)
    BY TypeParts, ResumedParts
  <2> QED BY <1>4, <2>1, Names, RecoverableQueue DEF Starts
<1>6. \A a \in Loops : \/ act'[a] = act[a]
                       \/ LoopPlaced(a)' /\ (act'[a].at # "off" => a[2] \in Queue /\ known'[a[1]] # Down)
  <2>1. ASSUME NEW a \in Loops, Starts(a)
        PROVE  LoopPlaced(a)' /\ (act'[a].at # "off" => a[2] \in Queue /\ known'[a[1]] # Down)
    BY <2>1 DEF Starts, Begun, LoopPlaced, LoopLabels, IInv, Placed
  <2> QED BY <1>5, <2>1, Names
<1>7. \A c \in Calls : act'[c] = act[c]
  BY <1>5, Names DEF Starts
<1>8. again' \subseteq Services /\ \A t \in again' : known'[t] # Down
  <2>1. \A t \in again : t \in Services /\ known[t] # Down
    BY TypeParts DEF IInv, Placed
  <2> QED BY <1>3, <2>1
<1> QED BY <1>1, <1>3, <1>6, <1>7, <1>8, ServerKeeps

LEMMA StartKeeps ==
  ASSUME IInv, NEW s \in Services, Start(s)
  PROVE  IInv'
BY ResumedKeeps DEF Start

LEMMA ResumeKeeps ==
  ASSUME IInv, NEW s \in Services, Resume(s)
  PROVE  IInv'
<1>1. known[s] # Down
  BY DEF Resume, IInv, Placed
<1> QED BY <1>1, ResumedKeeps DEF Resume

LEMMA InventoryKeeps ==
  ASSUME IInv, NEW s \in Services, Inventory(s)
  PROVE  IInv'
<1>1. gen \in Generations /\ gen # Down /\ gen <= gen
  BY TypeParts, BoundsAssumption DEF Generations, Down
<1>2. \A t \in Services : known[t] <= gen
  BY DEF IInv, Placed
<1>3. \A t \in again : known[t] # Down /\ t \in Services
  BY TypeParts DEF IInv, Placed
<1>4. /\ known' \in [Services -> Generations \cup {Down}]
      /\ \A t \in Services : (known[t] # Down => known'[t] # Down) /\ known'[t] <= gen
  BY <1>1, <1>2, TypeParts DEF Inventory
<1>5. UNCHANGED <<host, faults, row, act, again>>
  BY DEF Inventory
<1>6. \A t \in again' : known'[t] # Down
  BY <1>3, <1>4, <1>5
<1> QED BY <1>4, <1>5, <1>6, TypeParts, ServerKeeps

\* What a label and an answer change.
LEMMA MovedRow ==
  ASSUME IInv, NEW o \in Ops,
         NEW st \in Unresolved \cup {"completed"}, NEW res \in {"none", "queued", "accepted", "blocked"},
         Moved(o, st, res)
  PROVE  \E r \in RowType : row' = [row EXCEPT ![o] = r] /\ r.st = st /\ r.res = res
                            /\ r.attempt = row[o].attempt /\ r.gen = row[o].gen
<1>1. PICK r : r = [row[o] EXCEPT !.st = st, !.res = res]
  OBVIOUS
<1>2. row[o] \in RowType
  BY TypeParts
<1>3. r \in RowType /\ r.st = st /\ r.res = res /\ r.attempt = row[o].attempt /\ r.gen = row[o].gen
  BY <1>1, <1>2 DEF RowType
<1>4. row' = [row EXCEPT ![o] = r]
  BY <1>1 DEF Moved
<1> QED BY <1>3, <1>4

LEMMA GoesParts ==
  ASSUME IInv, NEW a \in Actors, NEW at \in LoopLabels \cup CallLabels, Goes(a, at)
  PROVE  \E x \in ActType : /\ act' = [act EXCEPT ![a] = x] /\ x.at = at /\ x.ans = "none"
                            /\ x.op = act[a].op /\ x.svc = act[a].svc /\ x.gen = act[a].gen
                            /\ x.k = act[a].k /\ x.rec = act[a].rec
<1>1. PICK x : x = [act[a] EXCEPT !.at = at, !.ans = "none"]
  OBVIOUS
<1>2. act[a] \in ActType
  BY ActFields
<1>3. /\ x \in ActType /\ x.at = at /\ x.ans = "none" /\ x.op = act[a].op /\ x.svc = act[a].svc
      /\ x.gen = act[a].gen /\ x.k = act[a].k /\ x.rec = act[a].rec
  BY <1>1, <1>2 DEF ActType, LoopLabels, CallLabels, Answers
<1>4. act' = [act EXCEPT ![a] = x]
  BY <1>1 DEF Goes
<1> QED BY <1>3, <1>4

LEMMA SendsParts ==
  ASSUME IInv, NEW a \in Actors, NEW k \in Numbers
  PROVE  \E x \in ActType : /\ Sends(a, k) = [act EXCEPT ![a] = x] /\ x.at = "sent"
                            /\ x.ans = "sent" /\ x.k = k /\ x.op = act[a].op
                            /\ x.svc = act[a].svc /\ x.gen = act[a].gen /\ x.rec = act[a].rec
<1>1. PICK x : x = [act[a] EXCEPT !.at = "sent", !.k = k, !.ans = "sent"]
  OBVIOUS
<1>2. act[a] \in ActType
  BY ActFields
<1>3. /\ x \in ActType /\ x.at = "sent" /\ x.ans = "sent" /\ x.k = k /\ x.op = act[a].op
      /\ x.svc = act[a].svc /\ x.gen = act[a].gen /\ x.rec = act[a].rec
  BY <1>1, <1>2 DEF ActType, Answers
<1>4. Sends(a, k) = [act EXCEPT ![a] = x]
  BY <1>1 DEF Sends
<1> QED BY <1>3, <1>4

LEMMA LoopOf ==
  ASSUME IInv, NEW a \in Loops
  PROVE  /\ a \in Actors /\ act[a].op = a[2] /\ act[a].svc = a[1] /\ act[a].at \in LoopLabels
         /\ a[1] \in Services /\ a[2] \in Ops /\ row[a[2]] \in RowType
         /\ act[a].at # "off" => a[2] \in Queue /\ known[a[1]] # Down
BY TypeParts, Names DEF IInv, Placed, LoopPlaced

LEMMA TopParts ==
  ASSUME IInv, NEW a \in Loops, Top(a)
  PROVE  \E x \in ActType :
           /\ act' = [act EXCEPT ![a] = x] /\ x.op = act[a].op /\ x.svc = act[a].svc
           /\ x.gen = act[a].gen /\ x.rec = act[a].rec /\ x.k = act[a].k
           /\ \/ act[a].rec /\ x.at = "sent" /\ x.ans = "sent"
              \/ ~act[a].rec /\ x.at = IF known[act[a].svc] # act[a].gen THEN "rebind" ELSE "read"
<1>1. CASE act[a].rec
  <2>0. a \in Actors /\ act[a].k \in Numbers
    BY LoopOf, ActFields
  <2>1. PICK x \in ActType : /\ Sends(a, act[a].k) = [act EXCEPT ![a] = x] /\ x.at = "sent"
                             /\ x.ans = "sent" /\ x.k = act[a].k /\ x.op = act[a].op
                             /\ x.svc = act[a].svc /\ x.gen = act[a].gen /\ x.rec = act[a].rec
    BY <2>0, SendsParts
  <2> QED BY <1>1, <2>1 DEF Top
<1>2. CASE ~act[a].rec
  <2>1. PICK x : x = [act[a] EXCEPT !.at = IF known[act[a].svc] # act[a].gen THEN "rebind" ELSE "read"]
    OBVIOUS
  <2>2. act[a] \in ActType
    BY LoopOf, ActFields
  <2>3. /\ x \in ActType /\ x.at = (IF known[act[a].svc] # act[a].gen THEN "rebind" ELSE "read")
        /\ x.op = act[a].op /\ x.svc = act[a].svc
        /\ x.gen = act[a].gen /\ x.rec = act[a].rec /\ x.k = act[a].k
    BY <2>1, <2>2 DEF ActType
  <2>4. act' = [act EXCEPT ![a] = x]
    BY <1>2, <2>1 DEF Top
  <2> QED BY <1>2, <2>3, <2>4
<1> QED BY <1>1, <1>2

LEMMA TopKeeps ==
  ASSUME IInv, NEW a \in Loops, Top(a)
  PROVE  IInv'
<1>1. PICK x \in ActType :
           /\ act' = [act EXCEPT ![a] = x] /\ x.op = act[a].op /\ x.svc = act[a].svc
           /\ x.gen = act[a].gen /\ x.rec = act[a].rec /\ x.k = act[a].k
           /\ \/ act[a].rec /\ x.at = "sent" /\ x.ans = "sent"
              \/ ~act[a].rec /\ x.at = IF known[act[a].svc] # act[a].gen THEN "rebind" ELSE "read"
  BY TopParts
<1>2. x.at \in LoopLabels /\ act[a].at # "off"
  BY <1>1 DEF LoopLabels, Top
<1>3. UNCHANGED <<host, faults, row, known, again>>
  BY DEF Top
<1> QED BY <1>1, <1>2, <1>3, LoopKeeps

LEMMA RebindKeeps ==
  ASSUME IInv, NEW a \in Loops, Rebind(a)
  PROVE  IInv'
<1> DEFINE o == act[a].op
<1>1. /\ a \in Actors /\ o = a[2] /\ act[a].svc = a[1] /\ act[a].at # "off" /\ o \in Ops
      /\ a[1] \in Services /\ known[a[1]] # Down /\ row[o] \in RowType
  BY LoopOf DEF Rebind
<1>2. UNCHANGED <<host, faults, known>>
  BY DEF Rebind
<1>3. CASE row[o].st = "queued" /\ row[o].gen = act[a].gen
  <2>1. known[a[1]] \in Generations
    BY <1>1, TypeParts
  <2>2. PICK r : r = [row[o] EXCEPT !.gen = known[a[1]]]
    OBVIOUS
  <2>3. r \in RowType
    BY <1>1, <2>1, <2>2 DEF RowType
  <2>4. row' = [row EXCEPT ![a[2]] = r]
    BY <1>1, <1>3, <2>2 DEF Rebind
  <2>5. PICK x : x = [act[a] EXCEPT !.at = "read", !.gen = known[a[1]]]
    OBVIOUS
  <2>6. x \in ActType /\ x.op = act[a].op /\ x.svc = act[a].svc /\ x.at \in LoopLabels
    <3>1. act[a] \in ActType
      BY <1>1, ActFields
    <3> QED BY <2>1, <2>5, <3>1 DEF ActType, LoopLabels
  <2>7. act' = [act EXCEPT ![a] = x] /\ again' = again
    BY <1>1, <1>3, <2>5 DEF Rebind
  <2> QED BY <1>1, <1>2, <2>3, <2>4, <2>6, <2>7, LoopKeeps
<1>4. CASE ~(row[o].st = "queued" /\ row[o].gen = act[a].gen)
  <2>1. /\ Goes(a, "off")
        /\ \/ Moved(o, "completed", "blocked") /\ UNCHANGED again
           \/ UNCHANGED row /\ again' = again \cup {a[1]}
    BY <1>1, <1>4 DEF Rebind, Gives
  <2>2. PICK x \in ActType : /\ act' = [act EXCEPT ![a] = x] /\ x.at = "off"
                             /\ x.op = act[a].op /\ x.svc = act[a].svc
    BY <1>1, <2>1, GoesParts DEF LoopLabels
  <2>3. row' = row \/ \E r \in RowType : row' = [row EXCEPT ![a[2]] = r]
    <3>1. CASE Moved(o, "completed", "blocked")
      BY <1>1, <3>1, MovedRow
    <3> QED BY <2>1, <3>1
  <2>4. x.at \in LoopLabels
    BY <2>2 DEF LoopLabels
  <2> QED BY <1>1, <1>2, <2>1, <2>2, <2>3, <2>4, LoopKeeps
<1> QED BY <1>3, <1>4

LEMMA ReadParts ==
  ASSUME IInv, NEW a \in Loops, Read(a)
  PROVE  \E x \in ActType :
           /\ act' = [act EXCEPT ![a] = x] /\ x.op = act[a].op /\ x.svc = act[a].svc
           /\ x.gen = act[a].gen /\ x.rec = act[a].rec /\ x.k = act[a].k
           /\ x.at \in {"top", "claim"} /\ x.ans = "none"
<1>1. a \in Actors
  BY LoopOf
<1>2. CASE busy
  <2>1. Goes(a, "top")
    BY <1>2 DEF Read
  <2> QED BY <1>1, <2>1, GoesParts DEF LoopLabels
<1>3. CASE ~busy
  <2>1. Goes(a, "claim")
    BY <1>3 DEF Read
  <2> QED BY <1>1, <2>1, GoesParts DEF LoopLabels
<1> QED BY <1>2, <1>3

LEMMA ReadKeeps ==
  ASSUME IInv, NEW a \in Loops, Read(a)
  PROVE  IInv'
<1>1. PICK x \in ActType :
           /\ act' = [act EXCEPT ![a] = x] /\ x.op = act[a].op /\ x.svc = act[a].svc
           /\ x.at \in {"top", "claim"}
  BY ReadParts
<1>2. x.at \in LoopLabels /\ act[a].at # "off" /\ act[a].svc = a[1]
  BY <1>1, LoopOf DEF LoopLabels, Read
<1>3. UNCHANGED <<host, faults, row, again>> /\ known' = [known EXCEPT ![act[a].svc] = gen]
  BY DEF Read
<1> QED BY <1>1, <1>2, <1>3, LoopKeeps

LEMMA ClaimParts ==
  ASSUME IInv, NEW a \in Loops, Claim(a)
  PROVE  \E x \in ActType :
           /\ act' = [act EXCEPT ![a] = x] /\ x.op = act[a].op /\ x.svc = act[a].svc
           /\ x.gen = act[a].gen /\ x.rec = act[a].rec
           /\ \/ row' = row /\ x.at = "off"
              \/ \E r \in RowType :
                   /\ row[a[2]].st = "queued" /\ row' = [row EXCEPT ![a[2]] = r]
                   /\ r.st = "pending" /\ r.attempt = row[a[2]].attempt + 1
                   /\ r.gen = row[a[2]].gen /\ r.res = row[a[2]].res
                   /\ x.at = "sent" /\ x.ans = "sent" /\ x.k = r.attempt
<1> DEFINE o == act[a].op
<1>1. a \in Actors /\ o = a[2] /\ o \in Ops /\ row[o] \in RowType
  BY LoopOf
<1>2. CASE row[o].st = "queued" /\ row[o].gen = act[a].gen
  <2>1. row[o].attempt < MaxAttempt
    BY <1>2 DEF Claim
  <2>2. PICK k : k = row[o].attempt + 1
    OBVIOUS
  <2>3. k \in Numbers
    BY <1>1, <2>1, <2>2, RowFields, BoundsAssumption DEF Numbers
  <2>4. PICK r : r = [row[o] EXCEPT !.st = "pending", !.attempt = row[o].attempt + 1]
    OBVIOUS
  <2>5. r \in RowType /\ r.st = "pending" /\ r.attempt = k /\ r.gen = row[o].gen /\ r.res = row[o].res
    BY <1>1, <2>2, <2>3, <2>4 DEF RowType, Unresolved
  <2>6. row' = [row EXCEPT ![o] = r]
    BY <1>1, <1>2, <2>4, TypeParts DEF Claim
  <2>7. PICK x \in ActType : /\ Sends(a, k) = [act EXCEPT ![a] = x] /\ x.at = "sent"
                             /\ x.ans = "sent" /\ x.k = k /\ x.op = act[a].op
                             /\ x.svc = act[a].svc /\ x.gen = act[a].gen /\ x.rec = act[a].rec
    BY <1>1, <2>3, SendsParts
  <2>8. act' = Sends(a, k)
    BY <1>2, <2>2 DEF Claim, Attempts
  <2> QED BY <1>1, <1>2, <2>2, <2>5, <2>6, <2>7, <2>8
<1>3. CASE ~(row[o].st = "queued" /\ row[o].gen = act[a].gen)
  <2>1. Goes(a, "off") /\ row' = row
    BY <1>3 DEF Claim
  <2>2. PICK x \in ActType : /\ act' = [act EXCEPT ![a] = x] /\ x.at = "off"
                             /\ x.op = act[a].op /\ x.svc = act[a].svc
                             /\ x.gen = act[a].gen /\ x.rec = act[a].rec
    BY <1>1, <2>1, GoesParts DEF LoopLabels
  <2> QED BY <2>1, <2>2
<1> QED BY <1>2, <1>3

LEMMA ClaimKeeps ==
  ASSUME IInv, NEW a \in Loops, Claim(a)
  PROVE  IInv'
<1>1. PICK x \in ActType :
           /\ act' = [act EXCEPT ![a] = x] /\ x.op = act[a].op /\ x.svc = act[a].svc
           /\ x.at \in {"off", "sent"}
           /\ row' = row \/ \E r \in RowType : row' = [row EXCEPT ![a[2]] = r]
  BY ClaimParts
<1>2. x.at \in LoopLabels /\ act[a].at # "off"
  BY <1>1 DEF LoopLabels, Claim
<1>3. UNCHANGED <<host, faults, known, again>>
  BY DEF Claim
<1> QED BY <1>1, <1>2, <1>3, LoopKeeps

LEMMA DispatchedParts ==
  ASSUME IInv, NEW a \in Loops, Dispatched(a)
  PROVE  \E x \in ActType :
           /\ act' = [act EXCEPT ![a] = x] /\ x.op = act[a].op /\ x.svc = act[a].svc
           /\ x.gen = act[a].gen
           /\ \/ /\ row' = row /\ x.at = "off" /\ again' = again \cup {a[1]}
                 /\ ~MayMove(a[2], act[a].gen) \/ act[a].ans = "lost"
              \/ \E r \in RowType :
                   /\ again' = again /\ row' = [row EXCEPT ![a[2]] = r] /\ row[a[2]].st \in Unresolved
                   /\ r.attempt = row[a[2]].attempt /\ r.gen = row[a[2]].gen
                   /\ \/ /\ act[a].ans = "rejected" /\ r.st = "queued" /\ r.res = "queued"
                         /\ x.at = "top" /\ ~x.rec
                      \/ act[a].ans \in {"ambiguous", "lost"} /\ r.st = "uncertain" /\ x.at = "off"
                      \/ act[a].ans \in {"accepted", "refused"} /\ r.st = "completed" /\ x.at = "off"
<1> DEFINE o == act[a].op
<1>1. a \in Actors /\ o = a[2] /\ o \in Ops /\ row[o] \in RowType /\ act[a].svc = a[1]
  BY LoopOf
<1>2. ASSUME Goes(a, "off")
      PROVE  \E x \in ActType : /\ act' = [act EXCEPT ![a] = x] /\ x.at = "off"
                                /\ x.op = act[a].op /\ x.svc = act[a].svc /\ x.gen = act[a].gen
  BY <1>1, <1>2, GoesParts DEF LoopLabels
<1>3. ASSUME NEW st \in {"queued", "uncertain", "completed"},
             NEW res \in {"none", "queued", "accepted", "blocked"}, Moved(o, st, res)
      PROVE  \E r \in RowType : row' = [row EXCEPT ![a[2]] = r] /\ r.st = st /\ r.res = res
                            /\ r.attempt = row[a[2]].attempt /\ r.gen = row[a[2]].gen
  BY <1>1, <1>3, MovedRow DEF Unresolved
<1>4. CASE ~MayMove(o, act[a].gen) \/ (act[a].ans = "lost" /\ act[a].rec)
  <2>1. Goes(a, "off") /\ row' = row /\ again' = again \cup {a[1]}
    BY <1>1, <1>4 DEF Dispatched, Gives
  <2> HIDE DEF o
  <2> QED BY <1>1, <1>2, <1>4, <2>1
<1>5. CASE ~(~MayMove(o, act[a].gen) \/ (act[a].ans = "lost" /\ act[a].rec))
  <2>1. row[o].st \in Unresolved
    BY <1>5 DEF MayMove
  <2>2. CASE act[a].ans = "rejected"
    <3>1. /\ Moved(o, "queued", "queued") /\ again' = again
          /\ act' = [act EXCEPT ![a].at = "top", ![a].ans = "none", ![a].rec = FALSE]
      BY <1>5, <2>2 DEF Dispatched
    <3>2. PICK x : x = [act[a] EXCEPT !.at = "top", !.ans = "none", !.rec = FALSE]
      OBVIOUS
    <3>3. act[a] \in ActType
      BY <1>1, ActFields
    <3>4. /\ x \in ActType /\ x.op = act[a].op /\ x.svc = act[a].svc /\ x.gen = act[a].gen
          /\ x.at = "top" /\ ~x.rec
      BY <3>2, <3>3 DEF ActType, Answers
    <3>5. act' = [act EXCEPT ![a] = x]
      BY <3>1, <3>2
    <3>6. PICK r \in RowType : row' = [row EXCEPT ![a[2]] = r] /\ r.st = "queued" /\ r.res = "queued"
                            /\ r.attempt = row[a[2]].attempt /\ r.gen = row[a[2]].gen
      BY <1>3, <3>1
    <3> HIDE DEF o
    <3> QED BY <1>1, <2>1, <2>2, <3>1, <3>4, <3>5, <3>6
  <2>3. CASE act[a].ans \in {"ambiguous", "lost"}
    <3>1. Moved(o, "uncertain", "none") /\ again' = again /\ Goes(a, "off")
      BY <1>5, <2>3 DEF Dispatched
    <3>2. PICK r \in RowType : row' = [row EXCEPT ![a[2]] = r] /\ r.st = "uncertain"
                            /\ r.attempt = row[a[2]].attempt /\ r.gen = row[a[2]].gen
      BY <1>3, <3>1
    <3>3. PICK x \in ActType : /\ act' = [act EXCEPT ![a] = x] /\ x.at = "off"
                               /\ x.op = act[a].op /\ x.svc = act[a].svc /\ x.gen = act[a].gen
      BY <1>2, <3>1
    <3> HIDE DEF o
    <3> QED BY <1>1, <2>1, <2>3, <3>1, <3>2, <3>3
  <2>4. CASE act[a].ans \in {"accepted", "refused"}
    <3>1. PICK res \in {"accepted", "blocked"} : Moved(o, "completed", res)
      BY <1>5, <2>4 DEF Dispatched
    <3>2. again' = again /\ Goes(a, "off")
      BY <1>5, <2>4 DEF Dispatched
    <3>3. PICK r \in RowType : row' = [row EXCEPT ![a[2]] = r] /\ r.st = "completed"
                            /\ r.attempt = row[a[2]].attempt /\ r.gen = row[a[2]].gen
      BY <1>3, <3>1
    <3>4. PICK x \in ActType : /\ act' = [act EXCEPT ![a] = x] /\ x.at = "off"
                               /\ x.op = act[a].op /\ x.svc = act[a].svc /\ x.gen = act[a].gen
      BY <1>2, <3>2
    <3> HIDE DEF o
    <3> QED BY <1>1, <2>1, <2>4, <3>2, <3>3, <3>4
  <2>5. act[a].ans \in {"rejected", "ambiguous", "lost", "accepted", "refused"}
    BY <1>5 DEF Dispatched
  <2> QED BY <2>2, <2>3, <2>4, <2>5
<1> QED BY <1>4, <1>5

LEMMA DispatchedKeeps ==
  ASSUME IInv, NEW a \in Loops, Dispatched(a)
  PROVE  IInv'
<1>1. PICK x \in ActType :
           /\ act' = [act EXCEPT ![a] = x] /\ x.op = act[a].op /\ x.svc = act[a].svc
           /\ x.at \in {"off", "top"}
           /\ again' = again \/ again' = again \cup {a[1]}
           /\ row' = row \/ \E r \in RowType : row' = [row EXCEPT ![a[2]] = r]
  BY DispatchedParts
<1>2. x.at \in LoopLabels /\ act[a].at # "off"
  BY <1>1 DEF LoopLabels, Dispatched
<1>3. UNCHANGED <<host, faults, known>>
  BY DEF Dispatched
<1> QED BY <1>1, <1>2, <1>3, LoopKeeps

-------------------------------------------------------------------------------
\* Requests.

Done(x) == x \in ActType /\ x.at = "done" /\ x.ans = "none" /\ x.k = 0

LEMMA FinishedParts ==
  ASSUME NEW acts \in [Actors -> ActType], NEW c \in Calls
  PROVE  /\ Finished(acts, c) \in [Actors -> ActType] /\ Done(Finished(acts, c)[c])
         /\ \A a \in Actors : a # c => Finished(acts, c)[a] = acts[a]
<1>1. PICK x : x = [Off("none", "none") EXCEPT !.at = "done"]
  OBVIOUS
<1>2. Done(x)
  BY <1>1, OffParts DEF Done, Off
<1>3. Finished(acts, c) = [acts EXCEPT ![c] = x]
  BY <1>1 DEF Finished
<1> QED BY <1>2, <1>3, Names DEF Done

\* A loop that starts for a row as it stands.
Listed(a, s, gens) ==
  /\ a \in Loops /\ a[1] = s /\ a[2] \in Queue /\ row[a[2]].st \in Unresolved
  /\ \E h \in gens \cup {row[a[2]].gen} :
       Begun(act'[a], act[a], h, row[a[2]].st # "queued", row[a[2]].attempt)

\* A request moves, and its service may list rows.
CallMoves(c, x, s, gens) ==
  /\ act' \in [Actors -> ActType] /\ x \in ActType /\ act'[c] = x
  /\ \A a \in Actors : a # c => act'[a] = act[a] \/ Listed(a, s, gens)

LEMMA ResumedMoves ==
  ASSUME IInv, NEW s \in Services, act' = Resumed(act, s)
  PROVE  /\ act' \in [Actors -> ActType]
         /\ \A a \in Actors : act'[a] = act[a] \/ Listed(a, s, {})
<1>1. ASSUME NEW a \in Actors
      PROVE  act'[a] = act[a] \/ Listed(a, s, {})
  <2>1. \/ act'[a] = act[a]
        \/ /\ a \in Loops /\ a[1] = s /\ Recoverable(row[a[2]])
           /\ Begun(act'[a], act[a], row[a[2]].gen, row[a[2]].st # "queued", row[a[2]].attempt)
    BY TypeParts, ResumedParts
  <2> QED BY <2>1, Names, RecoverableQueue DEF Listed
<1> QED BY <1>1, TypeParts, ResumedParts

LEMMA KnownMoves ==
  ASSUME IInv, NEW c \in Calls, NEW s \in Services, NEW found, Known(c, s, found)
  PROVE  \E x : Done(x) /\ CallMoves(c, x, s, {})
<1>1. CASE found = "queued"
  <2>1. act' = Finished(Resumed(act, s), c)
    BY <1>1 DEF Known
  <2>2. /\ Resumed(act, s) \in [Actors -> ActType]
        /\ \A a \in Actors : \/ Resumed(act, s)[a] = act[a]
                              \/ /\ a \in Loops /\ a[1] = s /\ Recoverable(row[a[2]])
                                 /\ Begun(Resumed(act, s)[a], act[a], row[a[2]].gen,
                                          row[a[2]].st # "queued", row[a[2]].attempt)
    BY TypeParts, ResumedParts
  <2>3. /\ act' \in [Actors -> ActType] /\ Done(act'[c])
        /\ \A a \in Actors : a # c => act'[a] = Resumed(act, s)[a]
    BY <2>1, <2>2, FinishedParts
  <2>4. \A a \in Actors : a # c => act'[a] = act[a] \/ Listed(a, s, {})
    BY <2>2, <2>3, Names, RecoverableQueue DEF Listed
  <2> QED BY <2>3, <2>4 DEF CallMoves, Done
<1>2. CASE found # "queued"
  <2>1. act' = Finished(act, c)
    BY <1>2 DEF Known
  <2>2. /\ act' \in [Actors -> ActType] /\ Done(act'[c])
        /\ \A a \in Actors : a # c => act'[a] = act[a]
    BY <2>1, TypeParts, FinishedParts
  <2> QED BY <2>2 DEF CallMoves, Done
<1> QED BY <1>1, <1>2

LEMMA CallMovesKeeps ==
  ASSUME IInv, UNCHANGED <<host, faults, again>>, NEW c \in Calls, NEW s \in Services, known[s] # Down,
         NEW x, NEW gens, CallMoves(c, x, s, gens),
         row' \in [Ops -> RowType],
         \A o \in Direct : \/ row'[o] = row[o]
                           \/ row'[o].st # "queued" /\ row'[o].res # "queued" /\ row'[o].attempt = 0,
         known' = known \/ known' = [known EXCEPT ![s] = gen],
         CallPlaced(c)'
  PROVE  IInv'
<1>1. gen \in Generations /\ gen # Down /\ gen <= gen
  BY TypeParts, BoundsAssumption DEF Generations, Down
<1>2. \A t \in Services : known[t] <= gen
  BY DEF IInv, Placed
<1>3. /\ known' \in [Services -> Generations \cup {Down}]
      /\ \A t \in Services : (known[t] # Down => known'[t] # Down) /\ known'[t] <= gen
  BY <1>1, <1>2, TypeParts
<1>4. \A a \in Actors : Listed(a, s, gens) => Starts(a)
  BY <1>3 DEF Listed, Starts
<1>5. /\ act' \in [Actors -> ActType]
      /\ \A a \in Loops : act'[a] = act[a] \/ Starts(a)
      /\ \A d \in Calls : act'[d] = act[d] \/ CallPlaced(d)'
  BY <1>4, Names DEF CallMoves, Listed
<1> QED BY <1>3, <1>5, CallKeeps

LEMMA DonePlaced ==
  ASSUME NEW c, Done(act'[c])
  PROVE  CallPlaced(c)'
BY DEF Done, CallPlaced, CallLabels, Working

LEMMA FoundParts ==
  ASSUME IInv, NEW o \in Ops
  PROVE  /\ Found(o) \in {"replayed", "queued", "none", "pending", "uncertain"}
         /\ Found(o) = "none" <=> row[o].st = "none"
         /\ Found(o) = "replayed" <=> row[o].st = "completed"
         /\ Found(o) \in {"pending", "uncertain"} => row[o].st = Found(o) /\ ~Recoverable(row[o])
         /\ Found(o) = "queued" => row[o].st \in Unresolved /\ row[o].attempt \in Numbers
         /\ Found(o) = "queued" => Recoverable(row[o]) \/ row[o].st = "queued"
BY TypeParts, RowFields DEF Found, Recoverable, Unresolved

LEMMA CallOf ==
  ASSUME IInv, NEW c \in Calls
  PROVE  /\ c \in Actors /\ act[c] \in ActType /\ act[c].k = 0 /\ act[c].gen \in Generations
         /\ act[c].at \in Working =>
              /\ act[c].op \in Ops /\ row[act[c].op] \in RowType
              /\ act[c].svc \in Services /\ known[act[c].svc] # Down
         /\ act[c].at = "enqueue" \/ act[c].ans = "active" => act[c].op \in Queue
BY TypeParts, Names, ActFields DEF IInv, Placed, CallPlaced

LEMMA BeginParts ==
  ASSUME IInv, NEW c \in Calls, NEW s \in Services, NEW o \in Ops, Begin(c, s, o)
  PROVE  \E x : /\ CallMoves(c, x, s, {})
                /\ \/ Done(x)
                   \/ /\ x.at = "look" /\ x.op = o /\ x.svc = s /\ x.k = 0 /\ x.gen = row[o].gen
                      /\ x.ans = Found(o) /\ Found(o) \in {"none", "pending", "uncertain"}
                      /\ \A a \in Actors : a # c => act'[a] = act[a]
<1>1. CASE Found(o) \in {"replayed", "queued"}
  BY <1>1, KnownMoves DEF Begin
<1>2. CASE Found(o) \notin {"replayed", "queued"}
  <2>1. PICK x : x = [act[c] EXCEPT !.at = "look", !.op = o, !.svc = s, !.gen = row[o].gen,
                                    !.ans = Found(o)]
    OBVIOUS
  <2>2. Found(o) \in {"none", "pending", "uncertain"}
    BY <1>2, FoundParts
  <2>3. row[o].gen \in Generations
    BY TypeParts, RowFields
  <2>4. /\ x \in ActType /\ x.at = "look" /\ x.op = o /\ x.svc = s /\ x.k = 0 /\ x.gen = row[o].gen
        /\ x.ans = Found(o)
    BY <2>1, <2>2, <2>3, CallOf DEF ActType, Answers
  <2>5. act' = [act EXCEPT ![c] = x]
    BY <1>2, <2>1 DEF Begin
  <2>6. act'[c] = x /\ (\A a \in Actors : a # c => act'[a] = act[a]) /\ act' \in [Actors -> ActType]
    BY <2>4, <2>5, CallOf, TypeParts
  <2> QED BY <2>2, <2>4, <2>6 DEF CallMoves
<1> QED BY <1>1, <1>2

LEMMA BeginKeeps ==
  ASSUME IInv, NEW c \in Calls, NEW s \in Services, NEW o \in Ops, Begin(c, s, o)
  PROVE  IInv'
<1>1. PICK x : /\ CallMoves(c, x, s, {})
                /\ \/ Done(x)
                   \/ /\ x.at = "look" /\ x.op = o /\ x.svc = s /\ x.k = 0
                      /\ x.ans = Found(o) /\ Found(o) \in {"none", "pending", "uncertain"}
  BY BeginParts
<1>2. UNCHANGED <<host, faults, again, row, known>> /\ known[s] # Down
  BY DEF Begin
<1>3. CallPlaced(c)'
  <2>1. act'[c] = x
    BY <1>1 DEF CallMoves
  <2>2. CASE Done(x)
    BY <2>1, <2>2, DonePlaced
  <2>3. CASE x.at = "look" /\ x.op = o /\ x.svc = s /\ x.k = 0
             /\ x.ans = Found(o) /\ Found(o) \in {"none", "pending", "uncertain"}
    BY <1>2, <2>1, <2>3 DEF CallPlaced, CallLabels, Working
  <2> QED BY <1>1, <2>2, <2>3
<1>4. row' \in [Ops -> RowType]
  BY <1>2, TypeParts
<1> QED BY <1>1, <1>2, <1>3, <1>4, CallMovesKeeps

LEMMA ResolveParts ==
  ASSUME IInv, NEW c \in Calls, Resolve(c)
  PROVE  \E x : /\ CallMoves(c, x, act[c].svc, {})
                /\ \/ Done(x)
                   \/ /\ x.at = "reserve" /\ x.op = act[c].op /\ x.svc = act[c].svc /\ x.k = 0
                      /\ x.ans \in {"none", "active"} /\ (x.ans = "active" => act[c].op \in Queue)
                      /\ \/ x.gen = gen
                         \/ x.gen = act[c].gen /\ act[c].gen # 0
                         \/ x.gen = row[act[c].op].gen
                            /\ (act[c].ans # "none" \/ row[act[c].op].st # "none")
                      /\ \A a \in Actors : a # c => act'[a] = act[a]
<1>1. PICK o, found : /\ o = act[c].op
                      /\ found = IF act[c].ans = "none" THEN Found(o) ELSE act[c].ans
  OBVIOUS
<1>2. act[c].at \in Working
  BY DEF Resolve, Working
<1>3. o \in Ops /\ act[c].svc \in Services /\ act[c].k = 0 /\ row[o] \in RowType /\ act[c] \in ActType
  BY <1>1, <1>2, CallOf
<1>4. CASE found \in {"replayed", "queued"}
  <2>1. Known(c, act[c].svc, found)
    BY <1>1, <1>4 DEF Resolve
  <2> QED BY <1>3, <2>1, KnownMoves
<1>5. CASE found \notin {"replayed", "queued"}
  <2>1. PICK g, ans : /\ g = IF found = "none" THEN gen ELSE IF act[c].gen = 0 THEN row[o].gen ELSE act[c].gen
                      /\ ans = IF o \in Queue /\ found # "uncertain" /\ busy THEN "active" ELSE "none"
    OBVIOUS
  <2>2. PICK x : x = [act[c] EXCEPT !.at = "reserve", !.seen = gen, !.gen = g, !.ans = ans]
    OBVIOUS
  <2>3. gen \in Generations /\ row[o].gen \in Generations /\ act[c].gen \in Generations
    BY <1>3, TypeParts, RowFields, CallOf DEF Generations
  <2>4. g \in Generations /\ ans \in {"none", "active"} /\ (ans = "active" => o \in Queue)
    BY <2>1, <2>3
  <2>5. /\ x \in ActType /\ x.at = "reserve" /\ x.op = o /\ x.svc = act[c].svc /\ x.k = 0 /\ x.gen = g
        /\ x.ans = ans
    BY <1>1, <1>3, <2>2, <2>3, <2>4 DEF ActType, Answers
  <2>6. act' = [act EXCEPT ![c] = x]
    <3>1. act' = [act EXCEPT ![c].at = "reserve", ![c].seen = gen,
               ![c].gen = IF found = "none" THEN gen ELSE IF @ = 0 THEN row[o].gen ELSE @,
               ![c].ans = IF o \in Queue /\ found # "uncertain" /\ busy THEN "active" ELSE "none"]
      BY <1>1, <1>5 DEF Resolve
    <3> QED BY <1>3, <2>1, <2>2, <3>1, CallOf, TypeParts DEF ActType
  <2>7. act'[c] = x /\ (\A a \in Actors : a # c => act'[a] = act[a]) /\ act' \in [Actors -> ActType]
    BY <2>5, <2>6, CallOf, TypeParts
  <2>8. \/ g = gen
        \/ g = act[c].gen /\ act[c].gen # 0
        \/ g = row[o].gen /\ (act[c].ans # "none" \/ row[o].st # "none")
    <3>1. Found(o) = "none" <=> row[o].st = "none"
      BY <1>3, FoundParts
    <3> QED BY <1>1, <2>1, <3>1
  <2> QED BY <1>1, <2>4, <2>5, <2>7, <2>8 DEF CallMoves
<1> QED BY <1>4, <1>5

LEMMA ResolveKeeps ==
  ASSUME IInv, NEW c \in Calls, Resolve(c)
  PROVE  IInv'
<1>1. act[c].at \in Working
  BY DEF Resolve, Working
<1>2. act[c].op \in Ops /\ act[c].svc \in Services /\ known[act[c].svc] # Down
  BY <1>1, CallOf
<1>3. UNCHANGED <<host, faults, again, row>> /\ known' = [known EXCEPT ![act[c].svc] = gen]
  BY DEF Resolve
<1>4. PICK x : /\ CallMoves(c, x, act[c].svc, {})
               /\ \/ Done(x)
                  \/ /\ x.at = "reserve" /\ x.op = act[c].op /\ x.svc = act[c].svc /\ x.k = 0
                     /\ x.ans = "active" => act[c].op \in Queue
  BY ResolveParts
<1>5. CallPlaced(c)'
  <2>1. act'[c] = x
    BY <1>4 DEF CallMoves
  <2>2. CASE Done(x)
    BY <2>1, <2>2, DonePlaced
  <2>3. CASE /\ x.at = "reserve" /\ x.op = act[c].op /\ x.svc = act[c].svc /\ x.k = 0
             /\ x.ans = "active" => act[c].op \in Queue
    <3>1. known'[act[c].svc] # Down
      BY <1>2, <1>3, TypeParts, BoundsAssumption DEF Down
    <3> QED BY <1>2, <2>1, <2>3, <3>1 DEF CallPlaced, CallLabels, Working
  <2> QED BY <1>4, <2>2, <2>3
<1>6. row' \in [Ops -> RowType]
  BY <1>3, TypeParts
<1> QED BY <1>2, <1>3, <1>4, <1>5, <1>6, CallMovesKeeps

\* Where a reservation goes on: to the queue if the thread was active, else to the host.
Onward(c, g, rec) ==
  act' = IF act[c].ans = "active" THEN [act EXCEPT ![c].at = "enqueue"]
         ELSE [Sends(c, 0) EXCEPT ![c].gen = g, ![c].rec = rec]
Arrived(c, x, g) ==
  /\ CallMoves(c, x, act[c].svc, {}) /\ x.op = act[c].op /\ x.svc = act[c].svc /\ x.k = 0
  /\ \A a \in Actors : a # c => act'[a] = act[a]
  /\ \/ x.at = "enqueue" /\ act[c].op \in Queue /\ x.gen = act[c].gen
     \/ x.at = "sent" /\ x.ans = "sent" /\ x.gen = g

LEMMA GoesOn ==
  ASSUME IInv, NEW c \in Calls, act[c].at = "reserve", NEW g \in Generations, NEW rec \in BOOLEAN,
         Onward(c, g, rec)
  PROVE  \E x : Arrived(c, x, g)
<1>1. act[c] \in ActType /\ act[c].k = 0 /\ c \in Actors
  BY CallOf
<1>2. CASE act[c].ans = "active"
  <2>1. PICK x : x = [act[c] EXCEPT !.at = "enqueue"]
    OBVIOUS
  <2>2. /\ x \in ActType /\ x.at = "enqueue" /\ x.op = act[c].op /\ x.svc = act[c].svc /\ x.k = 0
        /\ x.gen = act[c].gen
    BY <1>1, <2>1 DEF ActType
  <2>3. act' = [act EXCEPT ![c] = x]
    BY <1>2, <2>1 DEF Onward
  <2>4. act'[c] = x /\ (\A a \in Actors : a # c => act'[a] = act[a]) /\ act' \in [Actors -> ActType]
    BY <1>1, <2>2, <2>3, TypeParts
  <2>5. act[c].op \in Queue
    BY <1>2, CallOf
  <2> QED BY <2>2, <2>4, <2>5 DEF CallMoves, Arrived
<1>3. CASE act[c].ans # "active"
  <2>1. PICK y \in ActType : /\ Sends(c, 0) = [act EXCEPT ![c] = y] /\ y.at = "sent"
                             /\ y.ans = "sent" /\ y.k = 0 /\ y.op = act[c].op /\ y.svc = act[c].svc
    BY <1>1, Names, SendsParts
  <2>2. PICK x : x = [y EXCEPT !.gen = g, !.rec = rec]
    OBVIOUS
  <2>3. /\ x \in ActType /\ x.at = "sent" /\ x.op = act[c].op /\ x.svc = act[c].svc /\ x.k = 0
        /\ x.ans = "sent" /\ x.gen = g
    BY <2>1, <2>2 DEF ActType
  <2>4. act' = [act EXCEPT ![c] = x]
    <3>1. act' = [Sends(c, 0) EXCEPT ![c].gen = g, ![c].rec = rec]
      BY <1>3 DEF Onward
    <3>2. PICK w : w = [act EXCEPT ![c] = y]
      OBVIOUS
    <3>3. Sends(c, 0) = w /\ w \in [Actors -> ActType] /\ w[c] = y
      BY <1>1, <2>1, <3>2, TypeParts
    <3>4. act' = [w EXCEPT ![c] = x]
      BY <1>1, <2>2, <3>1, <3>3 DEF ActType
    <3> QED BY <1>1, <3>2, <3>4, TypeParts
  <2>5. act'[c] = x /\ (\A a \in Actors : a # c => act'[a] = act[a]) /\ act' \in [Actors -> ActType]
    <3>1. act \in [Actors -> ActType]
      BY TypeParts
    <3> QED BY ONLY <1>1, <2>3, <2>4, <3>1
  <2> QED BY <2>3, <2>5 DEF CallMoves, Arrived
<1> QED BY <1>2, <1>3

LEMMA ReserveParts ==
  ASSUME IInv, NEW c \in Calls, Reserve(c)
  PROVE  \E x : /\ CallMoves(c, x, act[c].svc, {act[c].gen})
                /\ \/ Done(x) /\ row' = row
                   \/ /\ x.op = act[c].op /\ x.svc = act[c].svc /\ x.k = 0
                      /\ \A a \in Actors : a # c => act'[a] = act[a]
                      /\ \/ x.at = "enqueue" /\ act[c].op \in Queue /\ x.gen = act[c].gen
                         \/ /\ x.at = "sent" /\ x.ans = "sent"
                            /\ x.gen \in {act[c].gen, row[act[c].op].gen}
                            /\ x.gen = act[c].gen \/ row[act[c].op].st # "none"
                      /\ \/ row' = row /\ row[act[c].op].st \in {"pending", "uncertain"}
                            /\ ~Recoverable(row[act[c].op])
                         \/ /\ row[act[c].op].st = "none"
                            /\ \E r \in RowType :
                                 /\ row' = [row EXCEPT ![act[c].op] = r] /\ r.st = "pending"
                                 /\ r.attempt = 0 /\ r.gen = act[c].gen
                                 /\ r.res = IF act[c].op \in Queue THEN "queued" ELSE "none"
<1> DEFINE o == act[c].op
<1>1. act[c].at \in Working /\ act[c].at = "reserve"
  BY DEF Reserve, Working
<1>2. /\ o \in Ops /\ act[c].svc \in Services /\ act[c].k = 0 /\ row[o] \in RowType
      /\ act[c].gen \in Generations
  BY <1>1, CallOf
<1>3. row[o].gen \in Generations /\ row[o].attempt \in Numbers
  BY <1>2, RowFields
<1>4. CASE Found(o) = "none" /\ ~Fenced(o)
  <2>1. PICK r : r = [st |-> "pending", attempt |-> 0, gen |-> act[c].gen,
                      res |-> IF o \in Queue THEN "queued" ELSE "none"]
    OBVIOUS
  <2>2. /\ r \in RowType /\ r.st = "pending" /\ r.attempt = 0 /\ r.gen = act[c].gen
        /\ r.res = IF o \in Queue THEN "queued" ELSE "none"
    BY <1>2, <2>1, Names DEF RowType, Unresolved
  <2>3. row' = [row EXCEPT ![o] = r]
    BY <1>4, <2>1 DEF Reserve
  <2>8. PICK g \in Generations, rec \in BOOLEAN : g = act[c].gen /\ rec = FALSE
    BY <1>2
  <2>4. Onward(c, g, rec)
    BY <1>4, <2>8 DEF Reserve, Onward
  <2>5. PICK x : /\ CallMoves(c, x, act[c].svc, {}) /\ x.op = act[c].op /\ x.svc = act[c].svc /\ x.k = 0
                 /\ \A a \in Actors : a # c => act'[a] = act[a]
                 /\ \/ x.at = "enqueue" /\ act[c].op \in Queue /\ x.gen = act[c].gen
                    \/ x.at = "sent" /\ x.ans = "sent" /\ x.gen = g
    <3>1. PICK x : Arrived(c, x, g)
      BY <1>1, <2>4, GoesOn
    <3> QED BY <3>1 DEF Arrived
  <2>6. CallMoves(c, x, act[c].svc, {act[c].gen})
    BY <2>5 DEF CallMoves
  <2>7. row[o].st = "none"
    BY <1>2, <1>4, FoundParts
  <2>9. /\ x.op = o /\ x.svc = act[c].svc /\ x.k = 0
        /\ \A a \in Actors : a # c => act'[a] = act[a]
        /\ \/ x.at = "enqueue" /\ o \in Queue /\ x.gen = act[c].gen
           \/ /\ x.at = "sent" /\ x.ans = "sent"
              /\ x.gen \in {act[c].gen, row[o].gen}
              /\ x.gen = act[c].gen \/ row[o].st # "none"
    <3>1. x.op = o /\ x.svc = act[c].svc /\ x.k = 0
      BY <2>5
    <3>2. \A a \in Actors : a # c => act'[a] = act[a]
      BY <2>5
    <3>3. \/ x.at = "enqueue" /\ o \in Queue /\ x.gen = act[c].gen
          \/ x.at = "sent" /\ x.ans = "sent" /\ x.gen = g
      BY <2>5
    <3>4. g \in {act[c].gen, row[o].gen} /\ g = act[c].gen
      BY <2>8
    <3> HIDE DEF o
    <3> QED BY <3>1, <3>2, <3>3, <3>4
  <2> HIDE DEF o
  <2> QED BY <2>2, <2>3, <2>6, <2>7, <2>9 DEF o
<1>5. CASE Found(o) = "replayed" \/ (Found(o) = "none" /\ Fenced(o))
  <2>1. act' = Finished(act, c) /\ row' = row
    BY <1>5 DEF Reserve
  <2>2. /\ act' \in [Actors -> ActType] /\ Done(act'[c])
        /\ \A a \in Actors : a # c => act'[a] = act[a]
    BY <2>1, TypeParts, FinishedParts
  <2> QED BY <2>1, <2>2 DEF CallMoves, Done
<1>6. CASE Found(o) = "queued"
  <2>1. row' = row /\ act' = Finished(Scheduled(act, act[c].svc, o, act[c].gen,
                                                row[o].st # "queued", row[o].attempt), c)
    BY <1>6 DEF Reserve
  <2>2. PICK acts, g, rec, k : /\ acts = Scheduled(act, act[c].svc, o, g, rec, k)
                               /\ g = act[c].gen /\ rec = (row[o].st # "queued") /\ k = row[o].attempt
    OBVIOUS
  <2>3. /\ acts \in [Actors -> ActType]
        /\ \A a \in Actors : \/ acts[a] = act[a]
                             \/ a = <<act[c].svc, o>> /\ Begun(acts[a], act[a], g, rec, k)
    <3>1. g \in Generations /\ rec \in BOOLEAN /\ k \in Numbers
      BY <1>2, <1>3, <2>2
    <3>2. acts = Scheduled(act, act[c].svc, o, g, rec, k) /\ act \in [Actors -> ActType]
      BY <2>2, TypeParts
    <3>3. act[c].svc \in Services /\ o \in Ops
      BY <1>2
    <3> HIDE DEF o
    <3> QED BY <3>1, <3>2, <3>3, ScheduledParts
  <2>4. /\ act' \in [Actors -> ActType] /\ Done(act'[c])
        /\ \A a \in Actors : a # c => act'[a] = acts[a]
    BY <2>1, <2>2, <2>3, FinishedParts
  <2>5. o \in Queue /\ row[o].st \in Unresolved
    <3>1. Recoverable(row[o]) \/ row[o].st = "queued"
      BY <1>2, <1>6, FoundParts
    <3>2. row[o].st = "queued" => o \in Queue /\ row[o].st \in Unresolved
      BY <1>2, TypeParts DEF Ops, Unresolved
    <3> QED BY <1>2, <3>1, <3>2, RecoverableQueue
  <2>6. ASSUME NEW a \in Actors, a # c
        PROVE  act'[a] = act[a] \/ Listed(a, act[c].svc, {act[c].gen})
    <3>1. CASE a = <<act[c].svc, o>>
      <4>1. a \in Loops /\ a[1] = act[c].svc /\ a[2] = o
        BY <1>2, <3>1, Names
      <4> QED BY <2>2, <2>3, <2>4, <2>5, <2>6, <4>1 DEF Listed
    <3>2. CASE a # <<act[c].svc, o>>
      BY <2>3, <2>4, <2>6, <3>2
    <3> QED BY <3>1, <3>2
  <2> QED BY <2>1, <2>4, <2>6 DEF CallMoves, Done
<1>7. CASE Found(o) \in {"pending", "uncertain"}
  <2>1. PICK g \in Generations, rec \in BOOLEAN :
             g = row[o].gen /\ rec = (Found(o) = "uncertain" \/ act[c].seen # row[o].gen)
    BY <1>3
  <2>2. /\ row' = row
        /\ Onward(c, g, rec)
    BY <1>7, <2>1 DEF Reserve, Onward
  <2>3. PICK x : /\ CallMoves(c, x, act[c].svc, {}) /\ x.op = act[c].op /\ x.svc = act[c].svc /\ x.k = 0
                 /\ \A a \in Actors : a # c => act'[a] = act[a]
                 /\ \/ x.at = "enqueue" /\ act[c].op \in Queue /\ x.gen = act[c].gen
                    \/ x.at = "sent" /\ x.ans = "sent" /\ x.gen = g
    <3>1. PICK x : Arrived(c, x, g)
      BY <1>1, <2>2, GoesOn
    <3> QED BY <3>1 DEF Arrived
  <2>4. CallMoves(c, x, act[c].svc, {act[c].gen})
    BY <2>3 DEF CallMoves
  <2>5. row[o].st \in {"pending", "uncertain"} /\ ~Recoverable(row[o]) /\ row[o].st # "none"
    BY <1>2, <1>7, FoundParts
  <2>9. /\ x.op = o /\ x.svc = act[c].svc /\ x.k = 0
        /\ \A a \in Actors : a # c => act'[a] = act[a]
        /\ \/ x.at = "enqueue" /\ o \in Queue /\ x.gen = act[c].gen
           \/ /\ x.at = "sent" /\ x.ans = "sent"
              /\ x.gen \in {act[c].gen, row[o].gen}
              /\ x.gen = act[c].gen \/ row[o].st # "none"
    <3>1. x.op = o /\ x.svc = act[c].svc /\ x.k = 0
      BY <2>3
    <3>2. \A a \in Actors : a # c => act'[a] = act[a]
      BY <2>3
    <3>3. \/ x.at = "enqueue" /\ o \in Queue /\ x.gen = act[c].gen
          \/ x.at = "sent" /\ x.ans = "sent" /\ x.gen = g
      BY <2>3
    <3>4. g \in {act[c].gen, row[o].gen} /\ row[o].st # "none"
      BY <2>1, <2>5
    <3> HIDE DEF o
    <3> QED BY <3>1, <3>2, <3>3, <3>4
  <2> HIDE DEF o
  <2> QED BY <2>2, <2>4, <2>5, <2>9 DEF o
<1>8. Found(o) \in {"replayed", "queued", "none", "pending", "uncertain"}
  BY <1>2, FoundParts
<1> HIDE DEF o
<1> QED BY <1>4, <1>5, <1>6, <1>7, <1>8

LEMMA ReserveKeeps ==
  ASSUME IInv, NEW c \in Calls, Reserve(c)
  PROVE  IInv'
<1> DEFINE o == act[c].op
<1>1. act[c].at \in Working
  BY DEF Reserve, Working
<1>2. /\ o \in Ops /\ act[c].svc \in Services /\ known[act[c].svc] # Down
  BY <1>1, CallOf
<1>3. UNCHANGED <<host, faults, again, known>>
  BY DEF Reserve
<1>4. PICK x : /\ CallMoves(c, x, act[c].svc, {act[c].gen})
               /\ \/ Done(x) /\ row' = row
                  \/ /\ x.op = o /\ x.svc = act[c].svc /\ x.k = 0
                     /\ \/ x.at = "enqueue" /\ o \in Queue
                        \/ x.at = "sent" /\ x.ans = "sent"
                     /\ \/ row' = row
                        \/ \E r \in RowType :
                                 /\ row' = [row EXCEPT ![o] = r] /\ r.st = "pending"
                                 /\ r.attempt = 0 /\ r.res = IF o \in Queue THEN "queued" ELSE "none"
  BY ReserveParts
<1>5. CallPlaced(c)'
  <2>1. act'[c] = x
    BY <1>4 DEF CallMoves
  <2>2. CASE Done(x)
    BY <2>1, <2>2, DonePlaced
  <2>3. CASE /\ x.op = o /\ x.svc = act[c].svc /\ x.k = 0
             /\ \/ x.at = "enqueue" /\ o \in Queue
                \/ x.at = "sent" /\ x.ans = "sent"
    BY <1>2, <1>3, <2>1, <2>3 DEF CallPlaced, CallLabels, Working
  <2> QED BY <1>4, <2>2, <2>3
<1>6. /\ row' \in [Ops -> RowType]
      /\ \A p \in Direct : \/ row'[p] = row[p]
                           \/ row'[p].st # "queued" /\ row'[p].res # "queued" /\ row'[p].attempt = 0
  <2>1. CASE row' = row
    BY <2>1, TypeParts
  <2>2. CASE \E r \in RowType : /\ row' = [row EXCEPT ![o] = r] /\ r.st = "pending"
                                /\ r.attempt = 0 /\ r.res = IF o \in Queue THEN "queued" ELSE "none"
    <3>1. PICK r \in RowType : /\ row' = [row EXCEPT ![o] = r] /\ r.st = "pending"
                                /\ r.attempt = 0 /\ r.res = IF o \in Queue THEN "queued" ELSE "none"
      BY <2>2
    <3> HIDE DEF o
    <3> QED BY <1>2, <3>1, TypeParts, Names
  <2> HIDE DEF o
  <2> QED BY <1>4, <2>1, <2>2
<1> QED BY <1>2, <1>3, <1>4, <1>5, <1>6, CallMovesKeeps

LEMMA EnqueueParts ==
  ASSUME IInv, NEW c \in Calls, Enqueue(c)
  PROVE  /\ act' \in [Actors -> ActType] /\ Done(act'[c]) /\ act[c].op \in Queue
         /\ \/ row' = row /\ \A a \in Actors : a # c => act'[a] = act[a]
            \/ /\ row[act[c].op].st \in Unresolved
               /\ \E r \in RowType :
                    /\ row' = [row EXCEPT ![act[c].op] = r] /\ r.st = "queued" /\ r.res = "queued"
                    /\ r.attempt = row[act[c].op].attempt /\ r.gen = row[act[c].op].gen
               /\ \A a \in Actors : a # c =>
                    \/ act'[a] = act[a]
                    \/ /\ a \in Loops /\ a[1] = act[c].svc /\ a[2] = act[c].op
                       /\ Begun(act'[a], act[a], act[c].gen, FALSE, 0)
<1> DEFINE o == act[c].op
<1>1. act[c].at \in Working /\ act[c].at = "enqueue"
  BY DEF Enqueue, Working
<1>2. /\ o \in Ops /\ o \in Queue /\ act[c].svc \in Services /\ act[c].gen \in Generations
  BY <1>1, CallOf
<1>3. CASE MayMove(o, act[c].gen)
  <2>1. Moved(o, "queued", "queued")
    BY <1>3 DEF Enqueue
  <2>2. PICK acts, g, rec, k : /\ acts = Scheduled(act, act[c].svc, o, g, rec, k)
                               /\ g = act[c].gen /\ rec = FALSE /\ k = 0
    OBVIOUS
  <2>3. act' = Finished(acts, c)
    BY <1>3, <2>2 DEF Enqueue
  <2>4. /\ acts \in [Actors -> ActType]
        /\ \A a \in Actors : \/ acts[a] = act[a]
                             \/ a = <<act[c].svc, o>> /\ Begun(acts[a], act[a], g, rec, k)
    <3>1. g \in Generations /\ rec \in BOOLEAN /\ k \in Numbers
      BY <1>2, <2>2, Names
    <3>2. acts = Scheduled(act, act[c].svc, o, g, rec, k) /\ act \in [Actors -> ActType]
      BY <2>2, TypeParts
    <3>3. act[c].svc \in Services /\ o \in Ops
      BY <1>2
    <3> HIDE DEF o
    <3> QED BY <3>1, <3>2, <3>3, ScheduledParts
  <2>5. /\ act' \in [Actors -> ActType] /\ Done(act'[c])
        /\ \A a \in Actors : a # c => act'[a] = acts[a]
    BY <2>3, <2>4, FinishedParts
  <2>6. PICK r \in RowType : row' = [row EXCEPT ![o] = r] /\ r.st = "queued" /\ r.res = "queued"
                             /\ r.attempt = row[o].attempt /\ r.gen = row[o].gen
    BY <1>2, <2>1, MovedRow DEF Unresolved
  <2>7. ASSUME NEW a \in Actors, a # c
        PROVE  \/ act'[a] = act[a]
               \/ /\ a \in Loops /\ a[1] = act[c].svc /\ a[2] = o
                  /\ Begun(act'[a], act[a], act[c].gen, FALSE, 0)
    <3>1. CASE a = <<act[c].svc, o>>
      <4>1. a \in Loops /\ a[1] = act[c].svc /\ a[2] = o
        BY <1>2, <3>1, Names
      <4> QED BY <2>2, <2>4, <2>5, <2>7, <4>1
    <3>2. CASE a # <<act[c].svc, o>>
      BY <2>4, <2>5, <2>7, <3>2
    <3> QED BY <3>1, <3>2
  <2>8. row[o].st \in Unresolved
    BY <1>3 DEF MayMove
  <2> QED BY <1>2, <2>5, <2>6, <2>7, <2>8
<1>4. CASE ~MayMove(o, act[c].gen)
  <2>1. act' = Finished(act, c) /\ row' = row
    BY <1>4 DEF Enqueue
  <2> QED BY <1>2, <2>1, TypeParts, FinishedParts
<1> QED BY <1>3, <1>4

LEMMA EnqueueKeeps ==
  ASSUME IInv, NEW c \in Calls, Enqueue(c)
  PROVE  IInv'
<1> DEFINE o == act[c].op
<1>1. /\ act' \in [Actors -> ActType] /\ Done(act'[c]) /\ o \in Queue
      /\ row' = row \/ \E r \in RowType : row' = [row EXCEPT ![o] = r]
      /\ \A a \in Actors : a # c =>
                    \/ act'[a] = act[a]
                    \/ /\ a \in Loops /\ a[1] = act[c].svc /\ a[2] = o
                       /\ Begun(act'[a], act[a], act[c].gen, FALSE, 0)
  BY EnqueueParts
<1>2. act[c].at \in Working
  BY DEF Enqueue, Working
<1>3. /\ o \in Ops /\ act[c].svc \in Services /\ known[act[c].svc] # Down
  BY <1>2, CallOf
<1>4. UNCHANGED <<host, faults, again, known>>
  BY DEF Enqueue
<1>5. \A a \in Loops : act'[a] = act[a] \/ Starts(a)
  <2> SUFFICES ASSUME NEW a \in Loops, act'[a] # act[a]
               PROVE  Starts(a)
    OBVIOUS
  <2>1. a \in Actors /\ a # c
    BY Names
  <2> QED BY <1>1, <1>3, <1>4, <2>1 DEF Starts
<1>6. \A d \in Calls : act'[d] = act[d] \/ CallPlaced(d)'
  BY <1>1, Names, DonePlaced
<1>7. row' \in [Ops -> RowType] /\ \A p \in Direct : row'[p] = row[p]
  BY <1>1, <1>3, TypeParts, Names
<1>8. /\ known' \in [Services -> Generations \cup {Down}]
      /\ \A s \in Services : (known[s] # Down => known'[s] # Down) /\ known'[s] <= gen
  BY <1>4, TypeParts DEF IInv, Placed
<1> QED BY <1>1, <1>4, <1>5, <1>6, <1>7, <1>8, CallKeeps

LEMMA AnswerParts ==
  ASSUME IInv, NEW c \in Calls, Answer(c)
  PROVE  \E x \in ActType :
           /\ act' = [act EXCEPT ![c] = x]
           /\ \/ /\ x.at = "sent" /\ x.ans = "sent" /\ act[c].ans = "ambiguous" /\ row' = row
                 /\ x.op = act[c].op /\ x.svc = act[c].svc /\ x.k = 0
              \/ /\ x.at = "enqueue" /\ act[c].ans = "rejected" /\ act[c].op \in Queue /\ row' = row
                 /\ x.op = act[c].op /\ x.svc = act[c].svc /\ x.k = 0 /\ x.gen = act[c].gen
                 /\ x.ans = "none"
              \/ /\ Done(x)
                 /\ act[c].ans = "rejected" => act[c].op \notin Queue
                 /\ \/ row' = row /\ ~MayMove(act[c].op, act[c].gen)
                    \/ /\ row[act[c].op].st \in Unresolved
                       /\ \E r \in RowType :
                            /\ row' = [row EXCEPT ![act[c].op] = r]
                            /\ r.attempt = row[act[c].op].attempt /\ r.gen = row[act[c].op].gen
                            /\ r.res # "queued"
                            /\ \/ r.st = "completed" /\ act[c].ans \notin {"lost", "ambiguous"}
                               \/ r.st = "uncertain" /\ act[c].ans \in {"lost", "ambiguous"}
<1> DEFINE o == act[c].op
<1>1. act[c].at \in Working /\ act[c].at = "sent"
  BY DEF Answer, Working
<1>2. /\ c \in Actors /\ o \in Ops /\ act[c].svc \in Services /\ act[c].k = 0 /\ act[c] \in ActType
  BY <1>1, CallOf
<1>3. CASE act[c].ans = "ambiguous" /\ ~act[c].rec /\ row' = row
           /\ act' = [Sends(c, 0) EXCEPT ![c].rec = TRUE]
  <2>1. PICK y \in ActType : /\ Sends(c, 0) = [act EXCEPT ![c] = y] /\ y.at = "sent"
                             /\ y.ans = "sent" /\ y.k = 0 /\ y.op = act[c].op /\ y.svc = act[c].svc
    BY <1>2, Names, SendsParts
  <2>2. PICK x : x = [y EXCEPT !.rec = TRUE]
    OBVIOUS
  <2>3. /\ x \in ActType /\ x.at = "sent" /\ x.op = act[c].op /\ x.svc = act[c].svc /\ x.k = 0
        /\ x.ans = "sent"
    BY <2>1, <2>2 DEF ActType
  <2>4. act' = [act EXCEPT ![c] = x]
    <3>1. PICK w : w = [act EXCEPT ![c] = y]
      OBVIOUS
    <3>2. Sends(c, 0) = w /\ w \in [Actors -> ActType] /\ w[c] = y
      BY <1>2, <2>1, <3>1, TypeParts
    <3>3. act' = [w EXCEPT ![c] = x]
      BY <1>2, <1>3, <2>2, <3>2 DEF ActType
    <3> QED BY <1>2, <3>1, <3>3, TypeParts
  <2> QED BY <1>3, <2>3, <2>4
<1>4. CASE act[c].ans = "rejected" /\ o \in Queue /\ Goes(c, "enqueue") /\ row' = row
  <2>1. PICK x \in ActType : /\ act' = [act EXCEPT ![c] = x] /\ x.at = "enqueue" /\ x.ans = "none"
                             /\ x.op = act[c].op /\ x.svc = act[c].svc /\ x.gen = act[c].gen
                             /\ x.k = act[c].k
    BY <1>2, <1>4, GoesParts DEF CallLabels
  <2> QED BY <1>2, <1>4, <2>1
<1>5. ASSUME act' = Finished(act, c)
      PROVE  \E x \in ActType : act' = [act EXCEPT ![c] = x] /\ Done(x)
  <2>1. PICK x : x = [Off("none", "none") EXCEPT !.at = "done"]
    OBVIOUS
  <2>2. Done(x)
    BY <2>1, OffParts DEF Done, Off
  <2>3. act' = [act EXCEPT ![c] = x]
    BY <1>5, <2>1 DEF Finished
  <2> QED BY <2>2, <2>3 DEF Done
<1>6. ASSUME NEW st \in {"completed", "uncertain"}, NEW res \in {"blocked", "accepted", "none"},
             IF MayMove(o, act[c].gen) THEN Moved(o, st, res) ELSE UNCHANGED row
      PROVE  \/ row' = row /\ ~MayMove(o, act[c].gen)
             \/ /\ row[o].st \in Unresolved
                /\ \E r \in RowType : /\ row' = [row EXCEPT ![o] = r] /\ r.st = st /\ r.res # "queued"
                                      /\ r.attempt = row[o].attempt /\ r.gen = row[o].gen
  <2>1. CASE MayMove(o, act[c].gen)
    <3>1. row[o].st \in Unresolved
      BY <2>1 DEF MayMove
    <3>2. \E r \in RowType : row' = [row EXCEPT ![o] = r] /\ r.st = st /\ r.res = res
                             /\ r.attempt = row[o].attempt /\ r.gen = row[o].gen
      BY <1>2, <1>6, <2>1, MovedRow DEF Unresolved
    <3> HIDE DEF o
    <3> QED BY <3>1, <3>2
  <2>2. CASE ~MayMove(o, act[c].gen)
    BY <1>6, <2>2
  <2> QED BY <2>1, <2>2
<1>7. CASE /\ act' = Finished(act, c)
           /\ (act[c].ans = "rejected" /\ o \in Direct) \/ act[c].ans \in {"refused", "accepted"}
           /\ \E res \in {"blocked", "accepted"} :
                IF MayMove(o, act[c].gen) THEN Moved(o, "completed", res) ELSE UNCHANGED row
  <2>1. PICK x \in ActType : act' = [act EXCEPT ![c] = x] /\ Done(x)
    BY <1>5, <1>7
  <2>2. \/ row' = row /\ ~MayMove(o, act[c].gen)
        \/ /\ row[o].st \in Unresolved
           /\ \E r \in RowType : /\ row' = [row EXCEPT ![o] = r] /\ r.st = "completed" /\ r.res # "queued"
                                 /\ r.attempt = row[o].attempt /\ r.gen = row[o].gen
    BY <1>6, <1>7
  <2>3. act[c].ans = "rejected" => o \notin Queue
    BY <1>7, Names
  <2>4. act[c].ans \notin {"lost", "ambiguous"}
    BY <1>7
  <2> QED BY <2>1, <2>2, <2>3, <2>4
<1>8. CASE /\ act' = Finished(act, c) /\ act[c].ans \in {"lost", "ambiguous"}
           /\ IF MayMove(o, act[c].gen) THEN Moved(o, "uncertain", "none") ELSE UNCHANGED row
  <2>1. PICK x \in ActType : act' = [act EXCEPT ![c] = x] /\ Done(x)
    BY <1>5, <1>8
  <2>2. \/ row' = row /\ ~MayMove(o, act[c].gen)
        \/ /\ row[o].st \in Unresolved
           /\ \E r \in RowType : /\ row' = [row EXCEPT ![o] = r] /\ r.st = "uncertain" /\ r.res # "queued"
                                 /\ r.attempt = row[o].attempt /\ r.gen = row[o].gen
    BY <1>6, <1>8
  <2> QED BY <1>8, <2>1, <2>2
<1>9. \/ act[c].ans = "ambiguous" /\ ~act[c].rec /\ row' = row
           /\ act' = [Sends(c, 0) EXCEPT ![c].rec = TRUE]
      \/ act[c].ans = "rejected" /\ o \in Queue /\ Goes(c, "enqueue") /\ row' = row
      \/ /\ act' = Finished(act, c)
         /\ (act[c].ans = "rejected" /\ o \in Direct) \/ act[c].ans \in {"refused", "accepted"}
         /\ \E res \in {"blocked", "accepted"} :
              IF MayMove(o, act[c].gen) THEN Moved(o, "completed", res) ELSE UNCHANGED row
      \/ /\ act' = Finished(act, c) /\ act[c].ans \in {"lost", "ambiguous"}
         /\ IF MayMove(o, act[c].gen) THEN Moved(o, "uncertain", "none") ELSE UNCHANGED row
  BY DEF Answer
<1> QED BY <1>3, <1>4, <1>7, <1>8, <1>9

LEMMA AnswerKeeps ==
  ASSUME IInv, NEW c \in Calls, Answer(c)
  PROVE  IInv'
<1> DEFINE o == act[c].op
<1>1. act[c].at \in Working
  BY DEF Answer, Working
<1>2. /\ c \in Actors /\ o \in Ops /\ act[c].svc \in Services /\ known[act[c].svc] # Down
  BY <1>1, CallOf
<1>3. UNCHANGED <<host, faults, again, known>>
  BY DEF Answer
<1>4. PICK x \in ActType :
           /\ act' = [act EXCEPT ![c] = x]
           /\ \/ /\ x.at = "sent" /\ x.ans = "sent"
                 /\ x.op = act[c].op /\ x.svc = act[c].svc /\ x.k = 0
              \/ /\ x.at = "enqueue" /\ act[c].op \in Queue
                 /\ x.op = act[c].op /\ x.svc = act[c].svc /\ x.k = 0
              \/ Done(x)
           /\ \/ row' = row
              \/ \E r \in RowType :
                    /\ row' = [row EXCEPT ![o] = r] /\ r.attempt = row[o].attempt
                    /\ r.res # "queued" /\ r.st \in {"completed", "uncertain"}
  BY AnswerParts
<1>5. /\ act' \in [Actors -> ActType] /\ act'[c] = x /\ \A a \in Actors : a # c => act'[a] = act[a]
  BY <1>2, <1>4, TypeParts
<1>6. CallPlaced(c)'
  <2>1. CASE Done(x)
    BY <1>5, <2>1, DonePlaced
  <2>2. CASE ~Done(x)
    BY <1>2, <1>3, <1>4, <1>5, <2>2 DEF CallPlaced, CallLabels, Working
  <2> QED BY <2>1, <2>2
<1>7. \A d \in Calls : act'[d] = act[d] \/ CallPlaced(d)'
  BY <1>5, <1>6, Names
<1>8. \A a \in Loops : act'[a] = act[a]
  BY <1>5, Names
<1>9. /\ row' \in [Ops -> RowType]
      /\ \A p \in Direct : \/ row'[p] = row[p]
                           \/ row'[p].st # "queued" /\ row'[p].res # "queued" /\ row'[p].attempt = 0
  <2>1. CASE row' = row
    BY <2>1, TypeParts
  <2>2. CASE \E r \in RowType :
                    /\ row' = [row EXCEPT ![o] = r] /\ r.attempt = row[o].attempt
                    /\ r.res # "queued" /\ r.st \in {"completed", "uncertain"}
    <3>1. PICK r \in RowType :
                    /\ row' = [row EXCEPT ![o] = r] /\ r.attempt = row[o].attempt
                    /\ r.res # "queued" /\ r.st \in {"completed", "uncertain"}
      BY <2>2
    <3> HIDE DEF o
    <3> QED BY <1>2, <3>1, TypeParts
  <2> HIDE DEF o
  <2> QED BY <1>4, <2>1, <2>2
<1>10. /\ known' \in [Services -> Generations \cup {Down}]
       /\ \A s \in Services : (known[s] # Down => known'[s] # Down) /\ known'[s] <= gen
  BY <1>3, TypeParts DEF IInv, Placed
<1> QED BY <1>3, <1>5, <1>7, <1>8, <1>9, <1>10, CallKeeps

-------------------------------------------------------------------------------
\* The host.

LEMMA SentParts ==
  ASSUME IInv, NEW a \in Actors, Sent(a)
  PROVE  /\ act[a].op \in Ops /\ act[a].k \in Numbers /\ IdOf(a) \in Ids
         /\ IdOf(a)[1] = act[a].op /\ IdOf(a)[2] = act[a].k
         /\ IdOf(a)[1] \in Direct => IdOf(a)[2] = 0
<1>1. act[a].at = "sent" /\ act[a].k \in Numbers
  BY ActFields DEF Sent
<1>2. CASE a \in Loops
  <2>1. act[a].op = a[2] /\ a[2] \in Queue
    BY <1>1, <1>2, LoopOf
  <2> QED BY <1>1, <2>1, Names DEF IdOf, Ids, Numbers
<1>3. CASE a \in Calls
  <2>1. act[a].op \in Ops /\ act[a].k = 0
    BY <1>1, <1>3, CallOf DEF Working
  <2> QED BY <1>1, <2>1 DEF IdOf, Ids, Numbers
<1> QED BY <1>2, <1>3 DEF Actors

LEMMA ToldParts ==
  ASSUME IInv, NEW a \in Actors, NEW ans \in Answers, Told(a, ans)
  PROVE  \E x \in ActType : /\ act' = [act EXCEPT ![a] = x] /\ x.ans = ans /\ x.at = act[a].at
                            /\ x.op = act[a].op /\ x.svc = act[a].svc /\ x.gen = act[a].gen
                            /\ x.k = act[a].k /\ x.rec = act[a].rec
<1>1. PICK x : x = [act[a] EXCEPT !.ans = ans]
  OBVIOUS
<1>2. act[a] \in ActType
  BY ActFields
<1>3. /\ x \in ActType /\ x.ans = ans /\ x.at = act[a].at /\ x.op = act[a].op /\ x.svc = act[a].svc
      /\ x.gen = act[a].gen /\ x.k = act[a].k /\ x.rec = act[a].rec
  BY <1>1, <1>2 DEF ActType
<1>4. act' = [act EXCEPT ![a] = x]
  BY <1>1 DEF Told
<1> QED BY <1>3, <1>4

LEMMA HostKeeps ==
  ASSUME IInv, UNCHANGED <<row, known, again, gen>>,
         faults' \in [lost : Nat, crashes : Nat, others : Nat], busy' \in BOOLEAN, late' \subseteq Ids,
         ledger' \in [Ids -> {"none", "idle", "rejected", "accepted"}], turns' \in [Ops -> 0 .. 3],
         DirectOnce', OneId',
         \/ act' = act
         \/ \E a \in Actors, ans \in Answers : Told(a, ans)
  PROVE  IInv'
<1>1. /\ act' \in [Actors -> ActType]
      /\ \A b \in Actors : /\ act'[b].at = act[b].at /\ act'[b].op = act[b].op
                           /\ act'[b].svc = act[b].svc /\ act'[b].k = act[b].k
                           /\ act'[b].ans = "active" => act[b].ans = "active"
  <2>1. CASE act' = act
    BY <2>1, TypeParts
  <2>2. CASE \E a \in Actors, ans \in Answers : Told(a, ans)
    <3>1. PICK a \in Actors, ans \in Answers : Told(a, ans)
      BY <2>2
    <3>2. PICK x \in ActType : /\ act' = [act EXCEPT ![a] = x] /\ x.ans = ans /\ x.at = act[a].at
                               /\ x.op = act[a].op /\ x.svc = act[a].svc /\ x.k = act[a].k
      BY <3>1, ToldParts
    <3>3. ans # "active"
      BY DEF Answers
    <3> QED BY <3>2, <3>3, TypeParts
  <2> QED BY <2>1, <2>2
<1>2. Typed'
  <2>1. /\ row' \in [Ops -> RowType] /\ known' \in [Services -> Generations \cup {Down}]
        /\ again' \subseteq Services /\ gen' \in 1 .. MaxGeneration
        /\ \A o \in Direct : row'[o].st # "queued" /\ row'[o].res # "queued" /\ row'[o].attempt = 0
    BY TypeParts
  <2>2. \A a \in Loops : act'[a].at # "off" => a[2] \in Queue /\ known'[a[1]] # Down
    BY <1>1, TypeParts, Names
  <2> QED BY <1>1, <2>1, <2>2, TypeWhole DEF Typed, TypeOK, RowType, ActType
<1>3. \A a \in Loops : LoopPlaced(a)'
  BY <1>1, Names DEF IInv, Placed, LoopPlaced
<1>4. \A c \in Calls : CallPlaced(c)'
  BY <1>1, Names DEF IInv, Placed, CallPlaced
<1>5. Placed'
  BY <1>3, <1>4 DEF Placed, IInv
<1> QED BY <1>2, <1>5 DEF IInv

\* What the host does with a dispatch ID.
LEMMA ContinuesParts ==
  ASSUME IInv, NEW id \in Ids, Continues(id)
  PROVE  /\ ledger' \in [Ids -> {"none", "idle", "rejected", "accepted"}]
         /\ turns' \in [Ops -> 0 .. 3] /\ busy' \in BOOLEAN
         /\ \A i \in Ids : i # id => ledger'[i] = ledger[i]
         /\ \A o \in Ops : o # id[1] => turns'[o] = turns[o]
         /\ \/ /\ turns' = turns
               /\ \/ ledger'[id] = ledger[id]
                  \/ ledger[id] = "none" /\ ledger'[id] = "rejected"
               /\ ledger[id] \in {"accepted", "rejected"} \/ busy
               /\ ledger[id] \notin {"accepted", "idle"} => ledger'[id] = "rejected"
            \/ /\ ledger[id] \notin {"accepted", "rejected"} /\ ledger'[id] = "accepted"
               /\ turns'[id[1]] <= turns[id[1]] + 1
<1>1. id[1] \in Ops
  BY DEF Ids
<1>2. ledger[id] \in {"none", "idle", "rejected", "accepted"} /\ turns[id[1]] \in 0 .. 3
  BY <1>1, TypeParts
<1>3. CASE ledger[id] \in {"accepted", "rejected"} \/ busy
  <2>1. PICK y : y = IF ledger[id] = "none" THEN "rejected" ELSE ledger[id]
    OBVIOUS
  <2>2. ledger' = [ledger EXCEPT ![id] = y] /\ busy' = busy /\ turns' = turns
    BY <1>3, <2>1, TypeParts DEF Continues
  <2>3. y \in {"none", "idle", "rejected", "accepted"}
    BY <1>2, <2>1
  <2> QED BY <1>2, <1>3, <2>1, <2>2, <2>3, TypeParts
<1>4. CASE ~(ledger[id] \in {"accepted", "rejected"} \/ busy)
  <2>1. PICK n : n = IF turns[id[1]] < 3 THEN turns[id[1]] + 1 ELSE turns[id[1]]
    OBVIOUS
  <2>2. n \in 0 .. 3 /\ n <= turns[id[1]] + 1
    BY <1>2, <2>1
  <2>3. ledger' = [ledger EXCEPT ![id] = "accepted"] /\ busy' = TRUE /\ turns' = [turns EXCEPT ![id[1]] = n]
    BY <1>1, <1>4, <2>1, TypeParts DEF Continues
  <2> QED BY <1>1, <1>4, <2>2, <2>3, TypeParts
<1> QED BY <1>3, <1>4

LEMMA ContinuesOnce ==
  ASSUME IInv, NEW id \in Ids, Continues(id), gen' = gen, late' \subseteq late \cup {id},
         id[1] \in Direct => id[2] = 0
  PROVE  DirectOnce' /\ OneId'
<1>1. \A o \in Direct : <<o, 0>> \in Ids /\ o \in Ops /\ turns[o] \in Nat
  BY Names, TypeParts DEF Ids, Numbers
<1>2. gen \in Nat
  BY TypeParts
<1>3. ASSUME NEW o \in Direct
      PROVE  turns'[o] <= gen /\ (ledger'[<<o, 0>>] # "accepted" => turns'[o] + 1 <= gen)
  <2>1. turns[o] <= gen /\ (ledger[<<o, 0>>] # "accepted" => turns[o] + 1 <= gen)
    BY DEF IInv, DirectOnce, OneId
  <2>2. CASE o # id[1]
    <3>1. <<o, 0>> # id
      BY <2>2
    <3>2. turns'[o] = turns[o] /\ ledger'[<<o, 0>>] = ledger[<<o, 0>>]
      BY <1>1, <2>2, <3>1, ContinuesParts
    <3> QED BY <2>1, <3>2
  <2>3. CASE o = id[1]
    <3>1. id = <<o, 0>>
      BY <2>3 DEF Ids
    <3>2. turns'[o] \in Nat /\ turns[o] \in Nat
      <4>1. turns' \in [Ops -> 0 .. 3] /\ o \in Ops
        BY <1>1, ContinuesParts
      <4>2. turns'[o] \in 0 .. 3
        BY <4>1
      <4>3. turns'[o] \in Nat
        BY <4>2
      <4>4. turns[o] \in Nat
        BY <1>1
      <4> QED BY <4>3, <4>4
    <3>3. \/ turns' = turns /\ (ledger'[id] = ledger[id] \/ ledger[id] = "none")
          \/ ledger[id] # "accepted" /\ ledger'[id] = "accepted" /\ turns'[o] <= turns[o] + 1
      BY <2>3, ContinuesParts
    <3>4. CASE turns' = turns /\ (ledger'[id] = ledger[id] \/ ledger[id] = "none")
      BY <2>1, <3>1, <3>4
    <3>5. CASE ledger[id] # "accepted" /\ ledger'[id] = "accepted" /\ turns'[o] <= turns[o] + 1
      <4>1. turns[o] + 1 <= gen
        BY <2>1, <3>1, <3>5
      <4>2. turns'[o] <= gen
        BY <1>2, <3>2, <3>5, <4>1
      <4> QED BY <3>1, <3>5, <4>2
    <3> QED BY <3>3, <3>4, <3>5
  <2> QED BY <2>2, <2>3
<1>4. \A i \in late' : i[1] \in Direct => i[2] = 0
  BY DEF IInv, OneId
<1> QED BY <1>3, <1>4 DEF DirectOnce, OneId

LEMMA ServeKeeps ==
  ASSUME IInv, NEW a \in Actors, Serve(a) \/ ServeUnheard(a)
  PROVE  IInv'
<1>1. Sent(a) /\ Continues(IdOf(a)) /\ UNCHANGED <<row, known, again, gen, late>>
  BY DEF Serve, ServeUnheard
<1>2. IdOf(a) \in Ids /\ (IdOf(a)[1] \in Direct => IdOf(a)[2] = 0)
  BY <1>1, SentParts
<1>3. DirectOnce' /\ OneId'
  BY <1>1, <1>2, ContinuesOnce
<1>4. /\ ledger' \in [Ids -> {"none", "idle", "rejected", "accepted"}]
      /\ turns' \in [Ops -> 0 .. 3] /\ busy' \in BOOLEAN
  BY <1>1, <1>2, ContinuesParts
<1>5. \E ans \in Answers : Told(a, ans)
  BY DEF Serve, ServeUnheard, Answers
<1>6. faults' \in [lost : Nat, crashes : Nat, others : Nat]
  <2>1. faults \in [lost : Nat, crashes : Nat, others : Nat]
    BY TypeParts
  <2> QED BY <2>1 DEF Serve, ServeUnheard
<1>7. late' \subseteq Ids
  BY <1>1, TypeParts
<1> QED BY <1>1, <1>3, <1>4, <1>5, <1>6, <1>7, HostKeeps

LEMMA RefuseKeeps ==
  ASSUME IInv, NEW a \in Actors, Refuse(a)
  PROVE  IInv'
<1>1. IdOf(a) \in Ids
  BY SentParts DEF Refuse
<1>2. /\ ledger' = [ledger EXCEPT ![IdOf(a)] = "idle"] /\ ledger[IdOf(a)] # "accepted"
      /\ UNCHANGED <<row, known, again, gen, busy, late, turns, faults>>
  BY DEF Refuse
<1>3. ledger' \in [Ids -> {"none", "idle", "rejected", "accepted"}]
  BY <1>1, <1>2, TypeParts
<1>4. \A o \in Direct : ledger'[<<o, 0>>] # "accepted" => ledger[<<o, 0>>] # "accepted"
  <2>1. \A o \in Direct : <<o, 0>> \in Ids
    BY Names DEF Ids, Numbers
  <2> QED BY <1>1, <1>2, <2>1, TypeParts
<1>5. DirectOnce' /\ OneId'
  BY <1>2, <1>4 DEF IInv, DirectOnce, OneId
<1>6. \E ans \in Answers : Told(a, ans)
  BY DEF Refuse, Answers
<1>7. /\ busy' \in BOOLEAN /\ late' \subseteq Ids /\ turns' \in [Ops -> 0 .. 3]
      /\ faults' \in [lost : Nat, crashes : Nat, others : Nat]
  BY <1>2, TypeParts
<1> QED BY <1>2, <1>3, <1>5, <1>6, <1>7, HostKeeps

LEMMA DropKeeps ==
  ASSUME IInv, NEW a \in Actors, Drop(a)
  PROVE  IInv'
<1>1. IdOf(a) \in Ids /\ (IdOf(a)[1] \in Direct => IdOf(a)[2] = 0)
  BY SentParts DEF Drop
<1>2. UNCHANGED <<row, known, again, gen, busy, ledger, turns>> /\ late' = late \cup {IdOf(a)}
  BY DEF Drop
<1>3. DirectOnce' /\ OneId'
  BY <1>1, <1>2 DEF IInv, DirectOnce, OneId
<1>4. \E ans \in Answers : Told(a, ans)
  BY DEF Drop, Answers
<1>5. faults' \in [lost : Nat, crashes : Nat, others : Nat]
  <2>1. faults \in [lost : Nat, crashes : Nat, others : Nat]
    BY TypeParts
  <2> QED BY <2>1 DEF Drop
<1>6. /\ busy' \in BOOLEAN /\ turns' \in [Ops -> 0 .. 3] /\ late' \subseteq Ids
      /\ ledger' \in [Ids -> {"none", "idle", "rejected", "accepted"}]
  BY <1>1, <1>2, TypeParts
<1> QED BY <1>2, <1>3, <1>4, <1>5, <1>6, HostKeeps

LEMMA ServeLateKeeps ==
  ASSUME IInv, ServeLate
  PROVE  IInv'
<1>1. PICK id \in late : late' = late \ {id} /\ Continues(id)
  BY DEF ServeLate
<1>2. UNCHANGED <<row, act, known, again, gen, faults>>
  BY DEF ServeLate
<1>3. id \in Ids /\ (id[1] \in Direct => id[2] = 0)
  BY TypeParts DEF IInv, OneId
<1>4. DirectOnce' /\ OneId'
  BY <1>1, <1>2, <1>3, ContinuesOnce
<1>5. /\ ledger' \in [Ids -> {"none", "idle", "rejected", "accepted"}]
      /\ turns' \in [Ops -> 0 .. 3] /\ busy' \in BOOLEAN
  BY <1>1, <1>3, ContinuesParts
<1>6. late' \subseteq Ids /\ faults' \in [lost : Nat, crashes : Nat, others : Nat]
  BY <1>1, <1>2, TypeParts
<1> QED BY <1>2, <1>4, <1>5, <1>6, HostKeeps

LEMMA ThreadKeeps ==
  ASSUME IInv, ThreadEnds \/ OtherTurn
  PROVE  IInv'
<1>1. UNCHANGED <<row, act, known, again, gen, ledger, late, turns>> /\ busy' \in BOOLEAN
  BY DEF ThreadEnds, OtherTurn
<1>2. faults' \in [lost : Nat, crashes : Nat, others : Nat]
  <2>1. faults \in [lost : Nat, crashes : Nat, others : Nat]
    BY TypeParts
  <2> QED BY <2>1 DEF ThreadEnds, OtherTurn
<1>3. DirectOnce' /\ OneId'
  BY <1>1 DEF IInv, DirectOnce, OneId
<1>4. /\ late' \subseteq Ids /\ turns' \in [Ops -> 0 .. 3]
      /\ ledger' \in [Ids -> {"none", "idle", "rejected", "accepted"}]
  BY <1>1, TypeParts
<1> QED BY <1>1, <1>2, <1>3, <1>4, HostKeeps

LEMMA ReplaceKeeps ==
  ASSUME IInv, Replace
  PROVE  IInv'
<1>1. /\ gen \in Nat /\ gen < MaxGeneration /\ gen' = gen + 1 /\ late' = {} /\ busy' = FALSE
      /\ UNCHANGED <<row, known, again, turns, faults>> /\ ledger' = [i \in Ids |-> "none"]
  BY TypeParts DEF Replace
<1>2. gen' \in 1 .. MaxGeneration
  BY <1>1, BoundsAssumption
<1>3. ASSUME NEW a \in Actors
      PROVE  /\ act'[a] \in ActType /\ act'[a].at = act[a].at /\ act'[a].op = act[a].op
             /\ act'[a].svc = act[a].svc /\ act'[a].k = act[a].k
             /\ act'[a].ans = "active" => act[a].ans = "active"
  <2>1. act'[a] = IF Sent(a) THEN [act[a] EXCEPT !.ans = "lost"] ELSE act[a]
    BY DEF Replace
  <2>2. PICK x : x = [act[a] EXCEPT !.ans = "lost"]
    OBVIOUS
  <2>3. act[a] \in ActType
    BY ActFields
  <2>4. /\ x \in ActType /\ x.at = act[a].at /\ x.op = act[a].op /\ x.svc = act[a].svc
        /\ x.k = act[a].k /\ x.ans = "lost"
    BY <2>2, <2>3 DEF ActType, Answers
  <2> QED BY <2>1, <2>2, <2>3, <2>4
<1>4. act' \in [Actors -> ActType]
  <2>1. act' = [a \in Actors |-> act'[a]]
    BY DEF Replace
  <2> QED BY <1>3, <2>1
<1>5. Typed'
  <2>1. /\ row' \in [Ops -> RowType] /\ known' \in [Services -> Generations \cup {Down}]
        /\ again' \subseteq Services /\ busy' \in BOOLEAN /\ late' \subseteq Ids
        /\ ledger' \in [Ids -> {"none", "idle", "rejected", "accepted"}] /\ turns' \in [Ops -> 0 .. 3]
        /\ faults' \in [lost : Nat, crashes : Nat, others : Nat]
        /\ \A o \in Direct : row'[o].st # "queued" /\ row'[o].res # "queued" /\ row'[o].attempt = 0
    BY <1>1, TypeParts
  <2>2. \A a \in Loops : act'[a].at # "off" => a[2] \in Queue /\ known'[a[1]] # Down
    BY <1>1, <1>3, TypeParts, Names
  <2> QED BY <1>2, <1>4, <2>1, <2>2, TypeWhole DEF Typed, TypeOK, RowType, ActType
<1>6. \A a \in Loops : LoopPlaced(a)'
  BY <1>3, Names DEF IInv, Placed, LoopPlaced
<1>7. \A c \in Calls : CallPlaced(c)'
  BY <1>1, <1>3, Names DEF IInv, Placed, CallPlaced
<1>8. \A s \in Services : known'[s] <= gen'
  <2>1. ASSUME NEW s \in Services
        PROVE  known[s] <= gen + 1
    <3>1. known[s] <= gen /\ known[s] \in Int
      BY TypeParts DEF IInv, Placed, Generations, Down
    <3> QED BY <1>1, <3>1
  <2> QED BY <1>1, <2>1
<1>9. Placed'
  BY <1>1, <1>6, <1>7, <1>8 DEF Placed, IInv
<1>10. DirectOnce' /\ OneId'
  <2>1. ASSUME NEW o \in Direct
        PROVE  turns[o] <= gen + 1 /\ turns[o] + 1 <= gen + 1
    <3>1. turns[o] <= gen /\ turns[o] \in Int
      BY TypeParts, Names DEF IInv, DirectOnce
    <3> QED BY <1>1, <3>1
  <2> QED BY <1>1, <2>1 DEF DirectOnce, OneId
<1> QED BY <1>5, <1>9, <1>10 DEF IInv

LEMMA CrashKeeps ==
  ASSUME IInv, Crash
  PROVE  IInv'
<1>1. /\ UNCHANGED <<row, gen, busy, ledger, turns>> /\ again' = {}
      /\ known' = [s \in Services |-> Down]
      /\ late' = late \cup {IdOf(a) : a \in {b \in Actors : Sent(b)}}
  BY DEF Crash
<1>2. faults' \in [lost : Nat, crashes : Nat, others : Nat]
  <2>1. faults \in [lost : Nat, crashes : Nat, others : Nat]
    BY TypeParts
  <2> QED BY <2>1 DEF Crash
<1>3. late' \subseteq Ids /\ \A id \in late' : id[1] \in Direct => id[2] = 0
  <2>1. \A a \in Actors : Sent(a) => IdOf(a) \in Ids /\ (IdOf(a)[1] \in Direct => IdOf(a)[2] = 0)
    BY SentParts
  <2>2. late \subseteq Ids /\ \A id \in late : id[1] \in Direct => id[2] = 0
    BY TypeParts DEF IInv, OneId
  <2> QED BY <1>1, <2>1, <2>2
<1>4. ASSUME NEW a \in Loops
      PROVE  act'[a] = Off(a[1], a[2])
  BY <1>4, Names DEF Crash
<1>5. ASSUME NEW c \in Calls
      PROVE  (act'[c] = act[c] /\ act[c].at = "new") \/ Done(act'[c])
  BY <1>5, Names, TypeParts, FinishedParts DEF Crash
<1>6. ASSUME NEW a \in Actors
      PROVE  act'[a] \in ActType
  <2>1. CASE a \in Loops
    BY <1>4, <2>1, Names, OffParts
  <2>2. CASE a \in Calls
    BY <1>5, <2>2, CallOf DEF Done
  <2> QED BY <2>1, <2>2 DEF Actors
<1>7. act' \in [Actors -> ActType]
  <2>1. act' = [a \in Actors |-> act'[a]]
    BY DEF Crash
  <2> QED BY <1>6, <2>1
<1>8. Typed'
  <2>1. /\ row' \in [Ops -> RowType] /\ known' \in [Services -> Generations \cup {Down}]
        /\ again' \subseteq Services /\ busy' \in BOOLEAN /\ gen' \in 1 .. MaxGeneration
        /\ ledger' \in [Ids -> {"none", "idle", "rejected", "accepted"}] /\ turns' \in [Ops -> 0 .. 3]
        /\ \A o \in Direct : row'[o].st # "queued" /\ row'[o].res # "queued" /\ row'[o].attempt = 0
    BY <1>1, TypeParts
  <2>2. \A a \in Loops : act'[a].at = "off"
    BY <1>4, Names, OffParts
  <2> QED BY <1>2, <1>3, <1>7, <2>1, <2>2, TypeWhole DEF Typed, TypeOK, RowType, ActType
<1>9. \A a \in Loops : LoopPlaced(a)'
  BY <1>4, Names, OffParts DEF LoopPlaced, LoopLabels
<1>10. \A c \in Calls : CallPlaced(c)'
  <2>1. \A c \in Calls : act'[c] = act[c] /\ act[c].at = "new" => CallPlaced(c)'
    BY DEF IInv, Placed, CallPlaced, Working
  <2> QED BY <1>5, <2>1, DonePlaced
<1>11. \A s \in Services : known'[s] <= gen'
  BY <1>1, TypeParts DEF Down
<1>12. Placed'
  BY <1>1, <1>9, <1>10, <1>11 DEF Placed
<1>13. DirectOnce' /\ OneId'
  BY <1>1, <1>3 DEF IInv, DirectOnce, OneId
<1> QED BY <1>8, <1>12, <1>13 DEF IInv

-------------------------------------------------------------------------------
\* Every step, and the first state.

LEMMA NextKeeps ==
  ASSUME IInv, Next
  PROVE  IInv'
<1>1. CASE \E s \in Services : Start(s) \/ Inventory(s) \/ Resume(s)
  BY <1>1, StartKeeps, InventoryKeeps, ResumeKeeps
<1>2. CASE \E a \in Loops : LoopStep(a)
  BY <1>2, TopKeeps, RebindKeeps, ReadKeeps, ClaimKeeps, DispatchedKeeps DEF LoopStep
<1>3. CASE \E c \in Calls : Request(c) \/ CallStep(c)
  <2>1. PICK c \in Calls : Request(c) \/ CallStep(c)
    BY <1>3
  <2>2. CASE Request(c)
    BY <2>2, BeginKeeps DEF Request
  <2>3. CASE CallStep(c)
    BY <2>3, ResolveKeeps, ReserveKeeps, EnqueueKeeps, AnswerKeeps DEF CallStep
  <2> QED BY <2>1, <2>2, <2>3
<1>4. CASE \E a \in Actors : Serve(a) \/ Refuse(a) \/ ServeUnheard(a) \/ Drop(a)
  BY <1>4, ServeKeeps, RefuseKeeps, DropKeeps
<1>5. CASE ServeLate \/ ThreadEnds \/ OtherTurn \/ Replace \/ Crash
  BY <1>5, ServeLateKeeps, ThreadKeeps, ReplaceKeeps, CrashKeeps
<1> QED BY <1>1, <1>2, <1>3, <1>4, <1>5 DEF Next

LEMMA InitActs ==
  ASSUME Init
  PROVE  /\ act \in [Actors -> ActType]
         /\ \A a \in Loops : act[a] = Off(a[1], a[2])
         /\ \A c \in Calls : act[c].at = "new" /\ act[c].k = 0 /\ act[c].ans = "none"
<1>1. PICK m : m = [Off("none", "none") EXCEPT !.at = "new"]
  OBVIOUS
<1>2. m \in ActType /\ m.at = "new" /\ m.k = 0 /\ m.ans = "none"
  BY <1>1, OffParts DEF Off
<1>3. act = [a \in Actors |-> IF a \in Calls THEN m ELSE Off(a[1], a[2])]
  BY <1>1 DEF Init
<1>4. \A a \in Loops : act[a] = Off(a[1], a[2]) /\ act[a] \in ActType
  BY <1>3, Names, OffParts
<1>5. \A c \in Calls : act[c] = m
  BY <1>3, Names
<1>6. \A a \in Actors : act[a] \in ActType
  BY <1>2, <1>4, <1>5 DEF Actors
<1> QED BY <1>2, <1>3, <1>4, <1>5, <1>6

LEMMA InitInv ==
  ASSUME Init
  PROVE  IInv
<1>1. NoRow \in RowType /\ NoRow.st = "none" /\ NoRow.res = "none" /\ NoRow.attempt = 0
  BY Names DEF NoRow, RowType
<1>2. row \in [Ops -> RowType] /\ \A o \in Ops : row[o] = NoRow
  BY <1>1 DEF Init
<1>3. 1 \in 1 .. MaxGeneration
  BY BoundsAssumption
<1>4. Typed
  <2>1. \A o \in Direct : row[o].st # "queued" /\ row[o].res # "queued" /\ row[o].attempt = 0
    BY <1>1, <1>2, Names
  <2>2. \A a \in Loops : act[a].at = "off"
    BY InitActs, Names, OffParts
  <2>3. /\ known \in [Services -> Generations \cup {Down}] /\ again \subseteq Services
        /\ busy \in BOOLEAN /\ gen \in 1 .. MaxGeneration /\ late \subseteq Ids
        /\ ledger \in [Ids -> {"none", "idle", "rejected", "accepted"}]
        /\ turns \in [Ops -> 0 .. 3] /\ faults \in [lost : Nat, crashes : Nat, others : Nat]
    <3>1. 0 \in 0 .. 3 /\ 0 \in Nat
      OBVIOUS
    <3>2. faults \in [lost : Nat, crashes : Nat, others : Nat]
      BY <3>1 DEF Init
    <3>3. turns \in [Ops -> 0 .. 3] /\ known \in [Services -> Generations \cup {Down}]
      BY <3>1 DEF Init
    <3>4. ledger \in [Ids -> {"none", "idle", "rejected", "accepted"}]
      BY DEF Init
    <3> QED BY <1>3, <3>2, <3>3, <3>4 DEF Init
  <2> QED BY <1>2, <2>1, <2>2, <2>3, InitActs, TypeWhole
<1>5. \A a \in Loops : LoopPlaced(a)
  BY InitActs, Names, OffParts DEF LoopPlaced, LoopLabels
<1>6. \A c \in Calls : CallPlaced(c)
  BY InitActs DEF CallPlaced, CallLabels, Working
<1>7. Placed
  BY <1>5, <1>6 DEF Placed, Init, Down
<1>8. DirectOnce /\ OneId
  BY Names DEF DirectOnce, OneId, Init
<1> QED BY <1>4, <1>7, <1>8 DEF IInv

LEMMA Kept == Spec => []IInv
<1>1. Init => IInv
  BY InitInv
<1>2. IInv /\ UNCHANGED vars => IInv'
  <2> SUFFICES ASSUME IInv, UNCHANGED vars
               PROVE  IInv'
    OBVIOUS
  <2>1. /\ Typed' /\ DirectOnce' /\ OneId'
    BY DEF IInv, vars, Typed, TypeOK, DirectOnce, OneId
  <2>2. Placed'
    BY DEF IInv, vars, Placed, LoopPlaced, CallPlaced
  <2> QED BY <2>1, <2>2 DEF IInv
<1>3. IInv /\ [Next]_vars => IInv'
  BY <1>2, NextKeeps
<1> QED BY <1>1, <1>3, PTL DEF Spec

-------------------------------------------------------------------------------
\* Every variable keeps to its type, whatever the bounds and the numbers of requests,
\* operations and services (rows, dispatcher loops, host ledger).
THEOREM SendsTyped == Spec => []TypeOK
<1>1. IInv => TypeOK
  BY DEF IInv, Typed
<1> QED BY <1>1, Kept, PTL

\* A message that its request sends has at most one turn for each generation of the
\* runtime, whatever answers are lost, whoever dies, and whatever is retried or served
\* late: one dispatch ID, and a ledger that starts a turn once (docs/codex-sessions.md:40).
THEOREM DirectSendsOnce == Spec => []DirectOnce
<1>1. IInv => DirectOnce
  BY DEF IInv
<1> QED BY <1>1, Kept, PTL

-------------------------------------------------------------------------------
\* Calm runs of one service.

OneService == \A s, t \in Services : s = t

\* A request or a loop takes no part in what happens to an operation.
Aside(c, o) == act'[c] = act[c] \/ (~Owns(c, o) /\ ~Owns(c, o)')
AsideLoop(s, o) ==
  act'[<<s, o>>] = act[<<s, o>>] \/ (act[<<s, o>>].at # "sent" /\ act'[<<s, o>>].at # "sent")
SameHost(o) ==
  /\ \A k \in Numbers : ledger'[<<o, k>>] = ledger[<<o, k>>]
  /\ turns'[o] = turns[o]
Quiet(o) ==
  /\ row'[o] = row[o] /\ SameHost(o)
  /\ \A c \in Calls : Aside(c, o)
  /\ \A s \in Services : AsideLoop(s, o)

CalmAt(o) == RowCalm(o) /\ Attempted(o) /\ Held(o)

\* An answer is refused to a loop of the operation or to a request that owns it.
LEMMA RefusedBy ==
  ASSUME \A a \in Loops : LoopPlaced(a), NEW o \in Ops
  PROVE  Refused(o) <=> \/ \E c \in Calls : Owns(c, o) /\ act[c].at = "sent" /\ act[c].ans = "refused"
                        \/ \E s \in Services : act[<<s, o>>].at = "sent" /\ act[<<s, o>>].ans = "refused"
<1>1. ASSUME NEW a \in Loops, act[a].op = o
      PROVE  a = <<a[1], o>> /\ a[1] \in Services
  BY <1>1, Names DEF LoopPlaced
<1>2. ASSUME NEW s \in Services
      PROVE  <<s, o>> \in Loops /\ act[<<s, o>>].op = o
  <2>1. <<s, o>> \in Loops /\ <<s, o>>[2] = o
    BY Names
  <2> QED BY <2>1 DEF LoopPlaced
<1>3. ASSUME Refused(o)
      PROVE  \/ \E c \in Calls : Owns(c, o) /\ act[c].at = "sent" /\ act[c].ans = "refused"
             \/ \E s \in Services : act[<<s, o>>].at = "sent" /\ act[<<s, o>>].ans = "refused"
  <2>1. PICK a \in Actors : act[a].op = o /\ act[a].at = "sent" /\ act[a].ans = "refused"
    BY <1>3 DEF Refused
  <2>2. CASE a \in Loops
    <3>1. a = <<a[1], o>> /\ a[1] \in Services
      BY <1>1, <2>1, <2>2
    <3>2. PICK s : s = a[1]
      OBVIOUS
    <3>3. s \in Services /\ act[<<s, o>>].at = "sent" /\ act[<<s, o>>].ans = "refused"
      BY <2>1, <3>1, <3>2
    <3> QED BY <3>3
  <2>3. CASE a \in Calls
    BY <2>1, <2>3 DEF Owns
  <2> QED BY <2>2, <2>3 DEF Actors
<1>4. ASSUME \/ \E c \in Calls : Owns(c, o) /\ act[c].at = "sent" /\ act[c].ans = "refused"
             \/ \E s \in Services : act[<<s, o>>].at = "sent" /\ act[<<s, o>>].ans = "refused"
      PROVE  Refused(o)
  BY <1>2, <1>4, Names DEF Refused, Owns
<1> QED BY <1>3, <1>4

LEMMA AsideParts ==
  ASSUME NEW o, \A c \in Calls : Aside(c, o)
  PROVE  /\ \A c \in Calls : Owns(c, o)' => Owns(c, o)
         /\ \A c \in Calls : Requeues(c, o)' => Requeues(c, o)
         /\ Unserved(o)' => Unserved(o)
         /\ \A c \in Calls : /\ Owns(c, o) => Owns(c, o)' /\ act'[c] = act[c]
<1>1. ASSUME NEW c \in Calls, Owns(c, o) \/ Owns(c, o)'
      PROVE  act'[c] = act[c]
  BY <1>1 DEF Aside
<1>2. \A c \in Calls : Requeues(c, o)' => Owns(c, o)'
  BY DEF Requeues, Owns
<1>3. ASSUME Unserved(o)'
      PROVE  Unserved(o)
  <2>1. PICK c \in Calls : act'[c].op = o /\ act'[c].at = "sent" /\ act'[c].ans = "sent"
    BY <1>3 DEF Unserved, Sent
  <2>2. Owns(c, o)'
    BY <2>1 DEF Owns
  <2>3. act'[c] = act[c]
    BY <1>1, <2>2
  <2> QED BY <2>1, <2>3 DEF Unserved, Sent
<1> QED BY <1>1, <1>2, <1>3 DEF Owns, Requeues

LEMMA QuietCalm ==
  ASSUME IInv, IInv', NEW o \in Queue, CalmAt(o), Quiet(o)
  PROVE  CalmAt(o)'
<1>1. o \in Ops /\ row[o].attempt \in Numbers
  BY Names, TypeParts, RowFields
<1>2. /\ row'[o] = row[o] /\ turns'[o] = turns[o]
      /\ \A k \in Numbers : ledger'[<<o, k>>] = ledger[<<o, k>>]
  BY DEF Quiet, SameHost
<1>3. Answered(o)' = Answered(o)
  BY <1>1, <1>2 DEF Answered
<1>4. /\ \A c \in Calls : Owns(c, o)' => Owns(c, o)
      /\ \A c \in Calls : Requeues(c, o)' => Requeues(c, o)
      /\ Unserved(o)' => Unserved(o)
      /\ \A c \in Calls : Owns(c, o) => Owns(c, o)' /\ act'[c] = act[c]
  BY AsideParts DEF Quiet
<1>5. RowCalm(o)'
  BY <1>2, <1>3, <1>4 DEF CalmAt, RowCalm
<1>6. Attempted(o)'
  BY <1>2, <1>4 DEF CalmAt, Attempted
<1>7. LoopHolds(o) => LoopHolds(o)'
  BY DEF Quiet, AsideLoop, LoopHolds
<1>8. Refused(o) => Refused(o)'
  <2>1. ASSUME Refused(o)
        PROVE  \/ \E c \in Calls : Owns(c, o)' /\ act'[c].at = "sent" /\ act'[c].ans = "refused"
               \/ \E s \in Services : act'[<<s, o>>].at = "sent" /\ act'[<<s, o>>].ans = "refused"
    <3>1. \A a \in Loops : LoopPlaced(a)
      BY DEF IInv, Placed
    <3>2. \/ \E c \in Calls : Owns(c, o) /\ act[c].at = "sent" /\ act[c].ans = "refused"
          \/ \E s \in Services : act[<<s, o>>].at = "sent" /\ act[<<s, o>>].ans = "refused"
      BY <1>1, <2>1, <3>1, RefusedBy
    <3>3. \A s \in Services : act[<<s, o>>].at = "sent" => act'[<<s, o>>] = act[<<s, o>>]
      BY DEF Quiet, AsideLoop
    <3> QED BY <1>4, <3>2, <3>3
  <2>2. ASSUME NEW c \in Calls, Owns(c, o)', act'[c].at = "sent", act'[c].ans = "refused"
        PROVE  Refused(o)'
    BY <2>2, Names DEF Refused, Owns
  <2>3. ASSUME NEW s \in Services, act'[<<s, o>>].at = "sent", act'[<<s, o>>].ans = "refused"
        PROVE  Refused(o)'
    <3>1. <<s, o>> \in Loops /\ <<s, o>> \in Actors /\ <<s, o>>[2] = o
      BY <1>1, Names
    <3>2. act'[<<s, o>>].op = o
      BY <3>1 DEF IInv, Placed, LoopPlaced
    <3> QED BY <2>3, <3>1, <3>2 DEF Refused
  <2> QED BY <2>1, <2>2, <2>3
<1>9. Held(o)'
  BY <1>2, <1>3, <1>4, <1>7, <1>8 DEF CalmAt, Held
<1> QED BY <1>5, <1>6, <1>9 DEF CalmAt

LEMMA LoopQuiet ==
  ASSUME IInv, NEW o \in Queue, NEW s \in Services, LoopCalm(s, o), row'[o] = row[o], SameHost(o),
         \A c \in Calls : Aside(c, o), act'[<<s, o>>] = act[<<s, o>>]
  PROVE  LoopCalm(s, o)'
<1>1. o \in Ops /\ row[o].attempt \in Numbers
  BY Names, TypeParts, RowFields
<1>2. Answered(o)' = Answered(o)
  BY <1>1 DEF Answered, SameHost
<1>3. Unserved(o)' => Unserved(o)
  BY AsideParts
<1> QED BY <1>2, <1>3 DEF LoopCalm

LEMMA LoopBegins ==
  ASSUME NEW o, NEW s, NEW m, NEW rec, NEW k, Begun(act'[<<s, o>>], m, 1, rec, k),
         row'[o].st \in Unresolved, ~rec => row'[o].st = "queued", rec => k = row'[o].attempt
  PROVE  LoopCalm(s, o)'
BY DEF Begun, LoopCalm, Unresolved

\* A step moves a request, and operations that it leaves alone or whose part is shown.
LEMMA CalmStep ==
  ASSUME IInv, IInv', QueueCalm, late' = late,
         \A o \in Ops : /\ row'[o].gen = IF row'[o].st = "none" THEN 0 ELSE 1
                        /\ row[o].st # "none" => row'[o].st # "none",
         \A c \in Calls : act'[c] = act[c] \/ CallCalm(c)',
         \A o \in Queue :
           \/ Quiet(o) /\ \A s \in Services : act'[<<s, o>>] = act[<<s, o>>] \/ LoopCalm(s, o)'
           \/ CalmAt(o)' /\ \A s \in Services : LoopCalm(s, o)'
  PROVE  QueueCalm'
<1>1. ASSUME NEW c \in Calls
      PROVE  CallCalm(c)'
  <2>1. CASE act'[c] = act[c]
    <3>1. CallCalm(c)
      BY DEF QueueCalm
    <3>2. act[c].at = "look" /\ row[act[c].op].st # "none" => row'[act[c].op].st # "none"
      BY CallOf DEF Working
    <3> QED BY <2>1, <3>1, <3>2 DEF CallCalm
  <2> QED BY <2>1
<1>2. ASSUME NEW o \in Queue
      PROVE  CalmAt(o)' /\ \A s \in Services : LoopCalm(s, o)'
  <2>1. CASE Quiet(o) /\ \A s \in Services : act'[<<s, o>>] = act[<<s, o>>] \/ LoopCalm(s, o)'
    <3>1. CalmAt(o) /\ \A s \in Services : LoopCalm(s, o)
      BY DEF QueueCalm, CalmAt
    <3>2. CalmAt(o)'
      BY <2>1, <3>1, QuietCalm
    <3>3. \A s \in Services : LoopCalm(s, o)'
      BY <2>1, <3>1, LoopQuiet DEF Quiet
    <3> QED BY <3>2, <3>3
  <2> QED BY <2>1
<1> QED BY <1>1, <1>2 DEF QueueCalm, CalmAt

LEMMA LoopListed ==
  ASSUME IInv, QueueCalm, NEW o \in Queue, NEW t \in Services, row'[o] = row[o],
         NEW s, NEW gens \in SUBSET {1}, Listed(<<t, o>>, s, gens)
  PROVE  LoopCalm(t, o)' /\ AsideLoop(t, o)
<1>1. o \in Ops
  BY Names
<1>2. row[o].st \in Unresolved /\ row[o].st # "none"
  BY DEF Listed, Unresolved
<1>3. row[o].gen = 1
  BY <1>1, <1>2 DEF QueueCalm
<1>4. Begun(act'[<<t, o>>], act[<<t, o>>], 1, row[o].st # "queued", row[o].attempt)
  BY <1>3 DEF Listed
<1>5. LoopCalm(t, o)'
  <2>1. PICK rec, k : rec = (row[o].st # "queued") /\ k = row[o].attempt
    OBVIOUS
  <2>2. Begun(act'[<<t, o>>], act[<<t, o>>], 1, rec, k)
    BY <1>4, <2>1
  <2>3. /\ row'[o].st \in Unresolved /\ (~rec => row'[o].st = "queued")
        /\ rec => k = row'[o].attempt
    BY <1>2, <2>1
  <2> QED BY <2>2, <2>3, LoopBegins
<1>6. AsideLoop(t, o)
  BY <1>4 DEF Begun, AsideLoop
<1> QED BY <1>5, <1>6

LEMMA RowsKeep ==
  ASSUME QueueCalm, row' = row
  PROVE  \A o \in Ops : /\ row'[o].gen = IF row'[o].st = "none" THEN 0 ELSE 1
                        /\ row[o].st # "none" => row'[o].st # "none"
BY DEF QueueCalm

\* A request moves that owns no queued message, before and after.
LEMMA CallMovesCalm ==
  ASSUME IInv, IInv', QueueCalm, NEW c \in Calls, NEW s, NEW x, NEW gens \in SUBSET {1},
         CallMoves(c, x, s, gens), UNCHANGED host, \A o \in Queue : row'[o] = row[o],
         \A o \in Ops : /\ row'[o].gen = IF row'[o].st = "none" THEN 0 ELSE 1
                        /\ row[o].st # "none" => row'[o].st # "none",
         CallCalm(c)', \A o \in Queue : ~Owns(c, o) /\ ~Owns(c, o)'
  PROVE  QueueCalm'
<1>1. late' = late /\ \A o \in Ops : SameHost(o)
  BY DEF host, SameHost
<1>2. \A d \in Calls : d # c => act'[d] = act[d]
  BY Names DEF CallMoves, Listed
<1>3. \A d \in Calls : act'[d] = act[d] \/ CallCalm(d)'
  BY <1>2
<1>4. ASSUME NEW o \in Queue
      PROVE  Quiet(o) /\ \A t \in Services : act'[<<t, o>>] = act[<<t, o>>] \/ LoopCalm(t, o)'
  <2>1. o \in Ops
    BY Names
  <2>2. \A d \in Calls : Aside(d, o)
    BY <1>2 DEF Aside
  <2>3. ASSUME NEW t \in Services
        PROVE  AsideLoop(t, o) /\ (act'[<<t, o>>] = act[<<t, o>>] \/ LoopCalm(t, o)')
    <3>1. <<t, o>> \in Actors /\ <<t, o>> # c
      BY <2>1, Names
    <3>2. act'[<<t, o>>] = act[<<t, o>>] \/ Listed(<<t, o>>, s, gens)
      BY <3>1 DEF CallMoves
    <3>3. CASE Listed(<<t, o>>, s, gens)
      BY <3>3, LoopListed
    <3>4. CASE act'[<<t, o>>] = act[<<t, o>>]
      BY <3>4 DEF AsideLoop
    <3> QED BY <3>2, <3>3, <3>4
  <2> QED BY <1>1, <2>1, <2>2, <2>3 DEF Quiet
<1> QED BY <1>1, <1>3, <1>4, CalmStep

\* The services list the rows, learn of the generation, or the thread changes.
LEMMA ListCalm ==
  ASSUME IInv, IInv', QueueCalm, NEW s \in Services,
         UNCHANGED <<row, host>>, act' = Resumed(act, s)
  PROVE  QueueCalm'
<1>1. late' = late /\ \A o \in Ops : SameHost(o)
  BY DEF host, SameHost
<1>2. \A a \in Actors : act'[a] = act[a] \/ Listed(a, s, {})
  BY ResumedMoves
<1>3. \A d \in Calls : act'[d] = act[d]
  BY <1>2, Names DEF Listed
<1>4. ASSUME NEW o \in Queue
      PROVE  Quiet(o) /\ \A t \in Services : act'[<<t, o>>] = act[<<t, o>>] \/ LoopCalm(t, o)'
  <2>1. o \in Ops
    BY Names
  <2>2. ASSUME NEW t \in Services
        PROVE  AsideLoop(t, o) /\ (act'[<<t, o>>] = act[<<t, o>>] \/ LoopCalm(t, o)')
    <3>1. <<t, o>> \in Actors
      BY <2>1, Names
    <3>2. CASE Listed(<<t, o>>, s, {})
      <4>1. {} \in SUBSET {1}
        OBVIOUS
      <4> QED BY <3>2, <4>1, LoopListed
    <3>3. CASE act'[<<t, o>>] = act[<<t, o>>]
      BY <3>3 DEF AsideLoop
    <3> QED BY <1>2, <3>1, <3>2, <3>3
  <2> QED BY <1>1, <1>3, <2>1, <2>2 DEF Quiet, Aside
<1> QED BY <1>1, <1>3, <1>4, RowsKeep, CalmStep

LEMMA StillCalm ==
  ASSUME IInv, IInv', QueueCalm, UNCHANGED <<row, act, late, ledger, turns>>
  PROVE  QueueCalm'
<1>1. \A o \in Ops : SameHost(o)
  BY DEF SameHost
<1>2. \A o \in Queue : Quiet(o) /\ \A t \in Services : act'[<<t, o>>] = act[<<t, o>>]
  BY <1>1, Names DEF Quiet, Aside, AsideLoop
<1> QED BY <1>2, RowsKeep, CalmStep

LEMMA BeginCalm ==
  ASSUME IInv, IInv', QueueCalm, NEW c \in Calls, NEW s \in Services, NEW o \in Ops, Begin(c, s, o)
  PROVE  QueueCalm'
<1>1. PICK x : /\ CallMoves(c, x, s, {})
               /\ \/ Done(x)
                  \/ /\ x.at = "look" /\ x.op = o /\ x.gen = row[o].gen
                     /\ x.ans = Found(o) /\ Found(o) \in {"none", "pending", "uncertain"}
  BY BeginParts
<1>2. act'[c] = x /\ act[c].at = "new" /\ UNCHANGED <<row, host>>
  BY <1>1 DEF CallMoves, Begin
<1>3. row[o].gen = IF row[o].st = "none" THEN 0 ELSE 1
  BY DEF QueueCalm
<1>4. CallCalm(c)'
  <2>1. CASE Done(x)
    BY <1>2, <2>1 DEF Done, CallCalm
  <2>2. CASE /\ x.at = "look" /\ x.op = o /\ x.gen = row[o].gen
             /\ x.ans = Found(o) /\ Found(o) \in {"none", "pending", "uncertain"}
    <3>1. Found(o) = "none" <=> row[o].st = "none"
      BY FoundParts
    <3>2. x.gen \in {0, 1} /\ (x.ans # "none" => row[o].st # "none" /\ x.gen = 1)
      BY <1>3, <2>2, <3>1
    <3> QED BY <1>2, <2>2, <3>2 DEF CallCalm
  <2> QED BY <1>1, <2>1, <2>2
<1>5. \A p \in Queue : ~Owns(c, p) /\ ~Owns(c, p)'
  BY <1>1, <1>2 DEF Owns, Done
<1>6. {} \in SUBSET {1}
  OBVIOUS
<1> QED BY <1>1, <1>2, <1>4, <1>5, <1>6, RowsKeep, CallMovesCalm

LEMMA ResolveCalm ==
  ASSUME IInv, IInv', QueueCalm, gen = 1, NEW c \in Calls, Resolve(c)
  PROVE  QueueCalm'
<1> DEFINE o == act[c].op
<1>1. PICK x : /\ CallMoves(c, x, act[c].svc, {})
               /\ \/ Done(x)
                  \/ /\ x.at = "reserve"
                     /\ \/ x.gen = gen
                        \/ x.gen = act[c].gen /\ act[c].gen # 0
                        \/ x.gen = row[o].gen /\ (act[c].ans # "none" \/ row[o].st # "none")
  BY ResolveParts
<1>2. act'[c] = x /\ act[c].at = "look" /\ UNCHANGED <<row, host>>
  BY <1>1 DEF CallMoves, Resolve
<1>3. o \in Ops
  BY <1>2, CallOf DEF Working
<1>4. CallCalm(c)'
  <2>1. CASE Done(x)
    BY <1>2, <2>1 DEF Done, CallCalm
  <2>2. CASE /\ x.at = "reserve"
             /\ \/ x.gen = gen
                \/ x.gen = act[c].gen /\ act[c].gen # 0
                \/ x.gen = row[o].gen /\ (act[c].ans # "none" \/ row[o].st # "none")
    <3>1. act[c].gen \in {0, 1} /\ (act[c].ans # "none" => row[o].st # "none")
      BY <1>2 DEF QueueCalm, CallCalm
    <3>2. row[o].st # "none" => row[o].gen = 1
      BY <1>3 DEF QueueCalm
    <3>3. x.gen = 1
      BY <2>2, <3>1, <3>2
    <3> QED BY <1>2, <2>2, <3>3 DEF CallCalm
  <2> QED BY <1>1, <2>1, <2>2
<1>5. \A p \in Queue : ~Owns(c, p) /\ ~Owns(c, p)'
  BY <1>1, <1>2 DEF Owns, Done
<1>6. {} \in SUBSET {1}
  OBVIOUS
<1> HIDE DEF o
<1> QED BY <1>1, <1>2, <1>4, <1>5, <1>6, RowsKeep, CallMovesCalm

\* The dispatcher's steps.

LEMMA CallsSame ==
  ASSUME \A c \in Calls : act'[c] = act[c], NEW o
  PROVE  /\ Unserved(o)' <=> Unserved(o)
         /\ \A c \in Calls : (Owns(c, o)' <=> Owns(c, o)) /\ (Requeues(c, o)' <=> Requeues(c, o))
         /\ \A c \in Calls : Aside(c, o)
BY DEF Unserved, Sent, Owns, Requeues, Aside

LEMMA RefusedAgain ==
  ASSUME IInv', NEW o \in Ops,
         \/ \E c \in Calls : Owns(c, o)' /\ act'[c].at = "sent" /\ act'[c].ans = "refused"
         \/ \E s \in Services : act'[<<s, o>>].at = "sent" /\ act'[<<s, o>>].ans = "refused"
  PROVE  Refused(o)'
<1>1. ASSUME NEW c \in Calls, Owns(c, o)', act'[c].at = "sent", act'[c].ans = "refused"
      PROVE  Refused(o)'
  BY <1>1, Names DEF Refused, Owns
<1>2. ASSUME NEW s \in Services, act'[<<s, o>>].at = "sent", act'[<<s, o>>].ans = "refused"
      PROVE  Refused(o)'
  <2>1. <<s, o>> \in Loops /\ <<s, o>> \in Actors /\ <<s, o>>[2] = o
    BY Names
  <2>2. act'[<<s, o>>].op = o
    BY <2>1 DEF IInv, Placed, LoopPlaced
  <2> QED BY <1>2, <2>1, <2>2 DEF Refused
<1> QED BY <1>1, <1>2

\* With one service an operation has one loop.
LEMMA OneLoop ==
  ASSUME OneService, NEW a \in Loops
  PROVE  /\ \A s \in Services : s = a[1] /\ <<s, a[2]>> = a
         /\ LoopHolds(a[2]) <=> act[a].at = "sent" /\ act[a].ans # "rejected"
         /\ LoopHolds(a[2])' <=> act'[a].at = "sent" /\ act'[a].ans # "rejected"
<1>1. a[1] \in Services /\ a = <<a[1], a[2]>>
  BY Names
<1>2. \A s \in Services : s = a[1]
  BY <1>1 DEF OneService
<1> QED BY <1>1, <1>2 DEF LoopHolds

LEMMA LoopMovesCalm ==
  ASSUME IInv, IInv', QueueCalm, OneService, NEW a \in Loops, a[2] \in Queue, NEW x,
         act' = [act EXCEPT ![a] = x], UNCHANGED host,
         \A p \in Ops : p # a[2] => row'[p] = row[p],
         row'[a[2]].gen = 1, row'[a[2]].st # "none",
         CalmAt(a[2])', LoopCalm(a[1], a[2])'
  PROVE  QueueCalm'
<1>1. late' = late /\ \A o \in Ops : SameHost(o)
  BY DEF host, SameHost
<1>2. \A b \in Actors : b # a => act'[b] = act[b]
  BY TypeParts
<1>3. \A c \in Calls : act'[c] = act[c]
  BY <1>2, Names
<1>4. \A o \in Ops : /\ row'[o].gen = IF row'[o].st = "none" THEN 0 ELSE 1
                     /\ row[o].st # "none" => row'[o].st # "none"
  BY DEF QueueCalm
<1>5. ASSUME NEW o \in Queue
      PROVE  \/ Quiet(o) /\ \A s \in Services : act'[<<s, o>>] = act[<<s, o>>] \/ LoopCalm(s, o)'
             \/ CalmAt(o)' /\ \A s \in Services : LoopCalm(s, o)'
  <2>1. o \in Ops
    BY Names
  <2>2. CASE o = a[2]
    BY <2>2, OneLoop
  <2>3. CASE o # a[2]
    <3>1. \A s \in Services : <<s, o>> \in Actors /\ <<s, o>> # a
      BY <2>1, <2>3, Names
    <3>2. \A s \in Services : act'[<<s, o>>] = act[<<s, o>>]
      BY <1>2, <3>1
    <3> QED BY <1>1, <1>3, <2>1, <2>3, <3>2 DEF Quiet, Aside, AsideLoop
  <2> QED BY <2>2, <2>3
<1> QED BY <1>1, <1>3, <1>4, <1>5, CalmStep

\* What is known of a loop's operation before its step.
LEMMA LoopCalmParts ==
  ASSUME IInv, QueueCalm, NEW a \in Loops, act[a].at # "off"
  PROVE  /\ a[1] \in Services /\ a[2] \in Queue /\ a[2] \in Ops /\ a = <<a[1], a[2]>>
         /\ LoopCalm(a[1], a[2]) /\ CalmAt(a[2])
         /\ act[a].gen = 1 /\ row[a[2]].st # "none" /\ row[a[2]].gen = 1 /\ act[a].at # "rebind"
         /\ row[a[2]].attempt \in Numbers
<1>1. a[1] \in Services /\ a[2] \in Queue /\ a[2] \in Ops /\ a = <<a[1], a[2]>>
  BY TypeParts, Names
<1>2. LoopCalm(a[1], a[2]) /\ CalmAt(a[2])
  BY <1>1 DEF QueueCalm, CalmAt
<1>3. act[a].gen = 1 /\ row[a[2]].st # "none" /\ act[a].at # "rebind"
  BY <1>1, <1>2 DEF LoopCalm
<1>4. row[a[2]].gen = 1
  BY <1>1, <1>3 DEF QueueCalm
<1>5. row[a[2]].attempt \in Numbers
  BY <1>1, TypeParts, RowFields
<1> QED BY <1>1, <1>2, <1>3, <1>4, <1>5

\* A loop that was not answered goes on without a change of its row.
LEMMA LoopGoesCalm ==
  ASSUME IInv, IInv', QueueCalm, OneService, NEW a \in Loops, act[a].at # "off", act[a].at # "sent",
         NEW x, act' = [act EXCEPT ![a] = x], UNCHANGED <<row, host>>, LoopCalm(a[1], a[2])',
         x.at = "sent" => x.ans = "sent"
  PROVE  QueueCalm'
<1> DEFINE o == a[2]
<1>1. /\ a[1] \in Services /\ o \in Queue /\ o \in Ops /\ a = <<a[1], o>> /\ a \in Actors
      /\ CalmAt(o) /\ row[o].st # "none" /\ row[o].gen = 1 /\ row[o].attempt \in Numbers
  BY LoopCalmParts, Names
<1>2. SameHost(o)
  BY DEF host, SameHost
<1>3. act'[a] = x /\ \A b \in Actors : b # a => act'[b] = act[b]
  BY <1>1, TypeParts
<1>4. \A c \in Calls : act'[c] = act[c]
  BY <1>3, Names
<1>5. CalmAt(o)'
  <2>1. CASE x.at # "sent"
    <3>1. \A s \in Services : AsideLoop(s, o)
      BY <1>3, <2>1, OneLoop DEF AsideLoop
    <3>2. Quiet(o)
      BY <1>2, <1>4, <3>1, CallsSame DEF Quiet
    <3> QED BY <1>1, <3>2, QuietCalm
  <2>2. CASE x.at = "sent"
    <3>1. Answered(o)' = Answered(o)
      BY <1>1, <1>2 DEF Answered, SameHost
    <3>2. /\ Unserved(o)' <=> Unserved(o)
          /\ \A c \in Calls : (Owns(c, o)' <=> Owns(c, o)) /\ (Requeues(c, o)' <=> Requeues(c, o))
      BY <1>4, CallsSame
    <3>3. RowCalm(o)' /\ Attempted(o)'
      BY <1>1, <1>2, <3>1, <3>2 DEF CalmAt, RowCalm, Attempted, SameHost
    <3>4. Refused(o) => Refused(o)'
      <4>1. ASSUME Refused(o)
            PROVE  \E c \in Calls : Owns(c, o) /\ act[c].at = "sent" /\ act[c].ans = "refused"
        <5>1. \A b \in Loops : LoopPlaced(b)
          BY DEF IInv, Placed
        <5>2. \A s \in Services : act[<<s, o>>].at # "sent"
          BY OneLoop
        <5> QED BY <1>1, <4>1, <5>1, <5>2, RefusedBy
      <4>2. ASSUME NEW c \in Calls, Owns(c, o) /\ act[c].at = "sent" /\ act[c].ans = "refused"
            PROVE  Refused(o)'
        <5>1. Owns(c, o)' /\ act'[c].at = "sent" /\ act'[c].ans = "refused"
          BY <1>4, <3>2, <4>2
        <5> QED BY <1>1, <5>1, RefusedAgain
      <4> QED BY <4>1, <4>2
    <3>5. LoopHolds(o)'
      BY <1>3, <2>2, OneLoop
    <3>6. Held(o)'
      BY <1>1, <1>2, <3>1, <3>2, <3>4, <3>5 DEF CalmAt, Held, SameHost
    <3> QED BY <3>3, <3>6 DEF CalmAt
  <2> QED BY <2>1, <2>2
<1>6. row' = row
  OBVIOUS
<1> HIDE DEF o
<1> QED BY <1>1, <1>5, <1>6, LoopMovesCalm DEF o

LEMMA TopCalm ==
  ASSUME IInv, IInv', QueueCalm, OneService, gen = 1, NEW a \in Loops, Top(a)
  PROVE  QueueCalm'
<1>1. act[a].at = "top" /\ UNCHANGED <<row, host>>
  BY DEF Top
<1>2. /\ a[1] \in Services /\ a[2] \in Queue /\ a[2] \in Ops /\ a = <<a[1], a[2]>> /\ a \in Actors
      /\ LoopCalm(a[1], a[2]) /\ act[a].gen = 1 /\ row[a[2]].st # "none"
  BY <1>1, LoopCalmParts, Names
<1>3. PICK x \in ActType :
           /\ act' = [act EXCEPT ![a] = x] /\ x.gen = act[a].gen /\ x.rec = act[a].rec /\ x.k = act[a].k
           /\ \/ act[a].rec /\ x.at = "sent" /\ x.ans = "sent"
              \/ ~act[a].rec /\ x.at = IF known[act[a].svc] # act[a].gen THEN "rebind" ELSE "read"
  BY TopParts
<1>4. act'[a] = x
  BY <1>2, <1>3, TypeParts
<1>5. known[act[a].svc] = 1
  <2>1. act[a].svc = a[1] /\ known[a[1]] # Down /\ known[a[1]] # 0
    BY <1>1, LoopOf DEF Top
  <2>2. known[a[1]] <= 1 /\ known[a[1]] \in Nat
    BY <1>2, <2>1, TypeParts DEF IInv, Placed, Generations
  <2> QED BY <2>1, <2>2
<1>6. LoopCalm(a[1], a[2])'
  BY <1>1, <1>2, <1>3, <1>4, <1>5 DEF LoopCalm, Heard
<1>7. x.at = "sent" => x.ans = "sent"
  BY <1>2, <1>3, <1>5
<1> QED BY <1>1, <1>3, <1>6, <1>7, LoopGoesCalm

LEMMA ReadCalm ==
  ASSUME IInv, IInv', QueueCalm, OneService, NEW a \in Loops, Read(a)
  PROVE  QueueCalm'
<1>1. act[a].at = "read" /\ UNCHANGED <<row, host>>
  BY DEF Read
<1>2. /\ a[1] \in Services /\ a[2] \in Queue /\ a[2] \in Ops /\ a = <<a[1], a[2]>> /\ a \in Actors
      /\ LoopCalm(a[1], a[2]) /\ act[a].gen = 1 /\ row[a[2]].st # "none"
  BY <1>1, LoopCalmParts, Names
<1>3. PICK x \in ActType :
           /\ act' = [act EXCEPT ![a] = x] /\ x.gen = act[a].gen /\ x.rec = act[a].rec /\ x.k = act[a].k
           /\ x.at \in {"top", "claim"}
  BY ReadParts
<1>4. act'[a] = x
  BY <1>2, <1>3, TypeParts
<1>5. LoopCalm(a[1], a[2])'
  BY <1>1, <1>2, <1>3, <1>4 DEF LoopCalm
<1>6. x.at = "sent" => x.ans = "sent"
  BY <1>3
<1> QED BY <1>1, <1>3, <1>5, <1>6, LoopGoesCalm

LEMMA ClaimCalm ==
  ASSUME IInv, IInv', QueueCalm, OneService, NEW a \in Loops, Claim(a)
  PROVE  QueueCalm'
<1> DEFINE o == a[2]
<1>1. act[a].at = "claim" /\ UNCHANGED host
  BY DEF Claim
<1>2. /\ a[1] \in Services /\ o \in Queue /\ o \in Ops /\ a = <<a[1], o>> /\ a \in Actors
      /\ LoopCalm(a[1], o) /\ CalmAt(o) /\ act[a].gen = 1 /\ row[o].st # "none" /\ row[o].gen = 1
      /\ row[o].attempt \in Numbers
  BY <1>1, LoopCalmParts, Names
<1>3. PICK x \in ActType :
           /\ act' = [act EXCEPT ![a] = x] /\ x.gen = act[a].gen /\ x.rec = act[a].rec
           /\ \/ row' = row /\ x.at = "off"
              \/ \E r \in RowType :
                   /\ row[o].st = "queued" /\ row' = [row EXCEPT ![o] = r]
                   /\ r.st = "pending" /\ r.attempt = row[o].attempt + 1
                   /\ r.gen = row[o].gen /\ r.res = row[o].res
                   /\ x.at = "sent" /\ x.ans = "sent" /\ x.k = r.attempt
  BY ClaimParts
<1>4. act'[a] = x /\ \A b \in Actors : b # a => act'[b] = act[b]
  BY <1>2, <1>3, TypeParts
<1>5. CASE row' = row /\ x.at = "off"
  <2>1. LoopCalm(a[1], o)'
    BY <1>2, <1>4, <1>5 DEF LoopCalm
  <2> QED BY <1>1, <1>3, <1>5, <2>1, LoopGoesCalm
<1>6. CASE \E r \in RowType :
                   /\ row[o].st = "queued" /\ row' = [row EXCEPT ![o] = r]
                   /\ r.st = "pending" /\ r.attempt = row[o].attempt + 1
                   /\ r.gen = row[o].gen /\ r.res = row[o].res
                   /\ x.at = "sent" /\ x.ans = "sent" /\ x.k = r.attempt
  <2>1. PICK r \in RowType :
                   /\ row[o].st = "queued" /\ row' = [row EXCEPT ![o] = r]
                   /\ r.st = "pending" /\ r.attempt = row[o].attempt + 1
                   /\ r.gen = row[o].gen /\ r.res = row[o].res
                   /\ x.at = "sent" /\ x.ans = "sent" /\ x.k = r.attempt
    BY <1>6
  <2>2. row'[o] = r /\ r.attempt \in Numbers /\ \A p \in Ops : p # o => row'[p] = row[p]
    BY <1>2, <2>1, TypeParts, RowFields
  <2>3. \A c \in Calls : act'[c] = act[c]
    BY <1>4, Names
  <2>4. /\ Unserved(o)' <=> Unserved(o)
        /\ \A c \in Calls : (Owns(c, o)' <=> Owns(c, o)) /\ (Requeues(c, o)' <=> Requeues(c, o))
    BY <2>3, CallsSame
  <2>5. /\ \A k \in Numbers : ledger'[<<o, k>>] = ledger[<<o, k>>]
        /\ turns'[o] = turns[o]
    BY <1>1 DEF host
  <2>6. row[o].attempt \in Nat /\ \A k \in Numbers : k \in Nat
    BY <1>2 DEF Numbers
  <2>7. ~LoopHolds(o)
    BY <1>1, OneLoop
  <2>8. Answered(o) # "accepted"
    BY <1>2, <2>1, <2>7 DEF CalmAt, Held, Unresolved
  <2>9. Answered(o)' = "none"
    <3>1. r.attempt > row[o].attempt
      BY <2>1, <2>6
    <3>2. ledger[<<o, r.attempt>>] = "none"
      BY <1>2, <2>2, <3>1 DEF CalmAt, Attempted
    <3> QED BY <2>2, <2>5, <3>2 DEF Answered
  <2>10. RowCalm(o)'
    BY <1>2, <2>1, <2>2 DEF CalmAt, RowCalm, Unresolved
  <2>11. Attempted(o)'
    <3>1. ASSUME NEW k \in Numbers, k > r.attempt
          PROVE  ledger'[<<o, k>>] = "none"
      <4>1. k > row[o].attempt
        BY <2>1, <2>6, <3>1
      <4> QED BY <1>2, <2>5, <4>1 DEF CalmAt, Attempted
    <3>2. ASSUME NEW k \in Numbers, k < r.attempt
          PROVE  ledger'[<<o, k>>] = "rejected" \/ ~Unserved(o)'
      <4>1. k < row[o].attempt \/ k = row[o].attempt
        BY <2>1, <2>6, <3>2
      <4>2. CASE k < row[o].attempt
        BY <1>2, <2>4, <2>5, <4>2 DEF CalmAt, Attempted
      <4>3. CASE k = row[o].attempt
        BY <1>2, <2>1, <2>4, <2>5, <4>3 DEF CalmAt, Held, Answered
      <4> QED BY <4>1, <4>2, <4>3
    <3> QED BY <2>2, <3>1, <3>2 DEF Attempted
  <2>12. Held(o)'
    <3>1. turns[o] <= 0
      BY <1>2, <2>8 DEF CalmAt, Held
    <3> QED BY <1>2, <2>1, <2>2, <2>4, <2>5, <2>9, <3>1 DEF CalmAt, Held
  <2>13. LoopCalm(a[1], o)'
    BY <1>2, <1>3, <1>4, <2>1, <2>2 DEF LoopCalm, Heard
  <2>14. row'[o].gen = 1 /\ row'[o].st # "none" /\ CalmAt(o)'
    BY <1>2, <2>1, <2>2, <2>10, <2>11, <2>12 DEF CalmAt
  <2> QED BY <1>1, <1>2, <1>3, <2>2, <2>13, <2>14, LoopMovesCalm
<1> HIDE DEF o
<1> QED BY <1>3, <1>5, <1>6

LEMMA DispatchedCalm ==
  ASSUME IInv, IInv', QueueCalm, OneService, NEW a \in Loops, Dispatched(a)
  PROVE  QueueCalm'
<1> DEFINE o == a[2]
<1>1. act[a].at = "sent" /\ UNCHANGED host
  BY DEF Dispatched
<1>2. /\ a[1] \in Services /\ o \in Queue /\ o \in Ops /\ a = <<a[1], o>> /\ a \in Actors
      /\ LoopCalm(a[1], o) /\ CalmAt(o) /\ act[a].gen = 1 /\ row[o].st # "none" /\ row[o].gen = 1
      /\ row[o].attempt \in Numbers
  BY <1>1, LoopCalmParts, Names
<1>3. act[a].ans \in Heard
  BY <1>1, <1>2 DEF LoopCalm
<1>4. PICK x \in ActType :
           /\ act' = [act EXCEPT ![a] = x] /\ x.gen = act[a].gen
           /\ \/ /\ row' = row /\ x.at = "off"
                 /\ ~MayMove(o, act[a].gen) \/ act[a].ans = "lost"
              \/ \E r \in RowType :
                   /\ row' = [row EXCEPT ![o] = r] /\ row[o].st \in Unresolved
                   /\ r.attempt = row[o].attempt /\ r.gen = row[o].gen
                   /\ \/ /\ act[a].ans = "rejected" /\ r.st = "queued" /\ r.res = "queued"
                         /\ x.at = "top" /\ ~x.rec
                      \/ act[a].ans \in {"ambiguous", "lost"} /\ r.st = "uncertain" /\ x.at = "off"
                      \/ act[a].ans \in {"accepted", "refused"} /\ r.st = "completed" /\ x.at = "off"
  BY DispatchedParts
<1>5. act'[a] = x /\ \A b \in Actors : b # a => act'[b] = act[b]
  BY <1>2, <1>4, TypeParts
<1>6. \A c \in Calls : act'[c] = act[c]
  BY <1>5, Names
<1>7. /\ Unserved(o)' <=> Unserved(o)
      /\ \A c \in Calls : (Owns(c, o)' <=> Owns(c, o)) /\ (Requeues(c, o)' <=> Requeues(c, o))
  BY <1>6, CallsSame
<1>8. /\ \A k \in Numbers : ledger'[<<o, k>>] = ledger[<<o, k>>]
      /\ turns'[o] = turns[o]
  BY <1>1 DEF host
<1>9. CASE /\ row' = row /\ x.at = "off"
           /\ ~MayMove(o, act[a].gen) \/ act[a].ans = "lost"
  <2>1. row[o].st = "completed"
    <3>1. row[o].st \notin Unresolved
      BY <1>2, <1>3, <1>9 DEF MayMove, Heard
    <3> QED BY <1>2, <3>1 DEF CalmAt, RowCalm, Unresolved
  <2>2. LoopCalm(a[1], o)'
    BY <1>2, <1>5, <1>9 DEF LoopCalm
  <2>3. Answered(o)' = Answered(o)
    BY <1>2, <1>8, <1>9 DEF Answered
  <2>4. CalmAt(o)'
    BY <1>2, <1>7, <1>8, <1>9, <2>1, <2>3 DEF CalmAt, RowCalm, Attempted, Held, Unresolved
  <2> QED BY <1>1, <1>2, <1>4, <1>9, <2>2, <2>4, LoopMovesCalm
<1>10. ASSUME NEW r \in RowType, row' = [row EXCEPT ![o] = r], row[o].st \in Unresolved,
              r.attempt = row[o].attempt, r.gen = row[o].gen,
              \/ /\ act[a].ans = "rejected" /\ r.st = "queued" /\ r.res = "queued"
                 /\ x.at = "top" /\ ~x.rec
              \/ r.st = "completed" /\ x.at = "off"
       PROVE  QueueCalm'
  <2>1. row'[o] = r /\ \A p \in Ops : p # o => row'[p] = row[p]
    BY <1>2, <1>10, TypeParts
  <2>2. Answered(o)' = Answered(o)
    BY <1>2, <1>8, <1>10, <2>1 DEF Answered
  <2>3. RowCalm(o)' /\ Attempted(o)'
    BY <1>2, <1>7, <1>8, <1>10, <2>1, <2>2 DEF CalmAt, RowCalm, Attempted, Unresolved
  <2>4. LoopCalm(a[1], o)'
    BY <1>2, <1>4, <1>5, <1>10, <2>1 DEF LoopCalm
  <2>5. Held(o)'
    <3>1. CASE r.st = "completed"
      BY <1>2, <1>7, <1>8, <2>1, <2>2, <3>1 DEF CalmAt, Held, Unresolved
    <3>2. CASE act[a].ans = "rejected" /\ r.st = "queued" /\ r.res = "queued"
      <4>1. Answered(o) = "rejected" \/ (Answered(o) # "accepted" /\ ~Unserved(o))
        BY <1>1, <1>2, <1>10, <3>2 DEF LoopCalm
      <4>2. ASSUME Answered(o) = "idle"
            PROVE  Refused(o)'
        <5>1. row[o].st # "completed"
          BY <1>10 DEF Unresolved
        <5>2. Refused(o)
          BY <1>2, <4>2, <5>1 DEF CalmAt, Held
        <5>3. \A b \in Loops : LoopPlaced(b)
          BY DEF IInv, Placed
        <5>4. \A s \in Services : act[<<s, o>>].ans # "refused"
          BY <3>2, OneLoop
        <5>5. PICK c \in Calls : Owns(c, o) /\ act[c].at = "sent" /\ act[c].ans = "refused"
          BY <1>2, <5>2, <5>3, <5>4, RefusedBy
        <5>6. Owns(c, o)' /\ act'[c].at = "sent" /\ act'[c].ans = "refused"
          BY <1>6, <1>7, <5>5
        <5> QED BY <1>2, <5>6, RefusedAgain
      <4> QED BY <1>2, <1>7, <1>8, <2>1, <2>2, <4>1, <4>2, <3>2 DEF CalmAt, Held
    <3> QED BY <1>10, <3>1, <3>2
  <2>6. row'[o].gen = 1 /\ row'[o].st # "none" /\ CalmAt(o)'
    BY <1>2, <1>10, <2>1, <2>3, <2>5 DEF CalmAt
  <2> QED BY <1>1, <1>2, <1>4, <2>1, <2>4, <2>6, LoopMovesCalm
<1>11. act[a].ans \notin {"ambiguous", "lost"}
  BY <1>3 DEF Heard
<1> HIDE DEF o
<1> QED BY <1>4, <1>9, <1>10, <1>11

\* Requests.

\* A step that concerns one queued message.
LEMMA OpCalm ==
  ASSUME IInv, IInv', QueueCalm, late' = late, NEW o \in Queue,
         \A c \in Calls : \/ act'[c] = act[c]
                          \/ CallCalm(c)' /\ \A p \in Queue \ {o} : ~Owns(c, p) /\ ~Owns(c, p)',
         \A p \in Queue \ {o} : /\ SameHost(p)
                                /\ \A s \in Services : act'[<<s, p>>] = act[<<s, p>>],
         \A p \in Ops : p # o => row'[p] = row[p],
         row'[o].gen = 1, row'[o].st # "none",
         CalmAt(o)', \A s \in Services : LoopCalm(s, o)'
  PROVE  QueueCalm'
<1>1. \A p \in Ops : /\ row'[p].gen = IF row'[p].st = "none" THEN 0 ELSE 1
                     /\ row[p].st # "none" => row'[p].st # "none"
  BY DEF QueueCalm
<1>2. ASSUME NEW p \in Queue, p # o
      PROVE  Quiet(p) /\ \A s \in Services : act'[<<s, p>>] = act[<<s, p>>]
  <2>1. p \in Ops
    BY Names
  <2>2. \A c \in Calls : Aside(c, p)
    BY <1>2 DEF Aside
  <2> QED BY <1>2, <2>1, <2>2 DEF Quiet, AsideLoop
<1> QED BY <1>1, <1>2, CalmStep

LEMMA NewRowCalm ==
  ASSUME IInv, IInv', QueueCalm, UNCHANGED host, NEW c \in Calls, act[c].at = "reserve",
         NEW o \in Queue, act[c].op = o, row[o].st = "none",
         NEW r \in RowType, row' = [row EXCEPT ![o] = r], r.st = "pending", r.attempt = 0, r.gen = 1,
         r.res = "queued", \A a \in Actors : a # c => act'[a] = act[a],
         NEW x, act'[c] = x, x.op = o, x.gen = 1, x.at = "enqueue" \/ (x.at = "sent" /\ x.ans = "sent")
  PROVE  QueueCalm'
<1>1. o \in Ops /\ late' = late /\ \A p \in Ops : SameHost(p)
  BY Names DEF host, SameHost
<1>2. row'[o] = r /\ \A p \in Ops : p # o => row'[p] = row[p]
  BY <1>1, TypeParts
<1>3. \A d \in Calls : d # c => act'[d] = act[d]
  BY Names
<1>4. \A s \in Services, p \in Ops : act'[<<s, p>>] = act[<<s, p>>]
  BY Names
<1>5. CalmAt(o) /\ \A s \in Services : LoopCalm(s, o)
  BY DEF QueueCalm, CalmAt
<1>6. /\ row[o].attempt = 0 /\ Answered(o) = "none" /\ \A d \in Calls : ~Owns(d, o)
  BY <1>5 DEF CalmAt, RowCalm
<1>7. Answered(o)' = "none" /\ 0 \in Numbers
  <2>1. 0 \in Numbers
    BY Names
  <2> QED BY <1>1, <1>2, <1>6, <2>1 DEF Answered, SameHost
<1>8. RowCalm(o)'
  BY <1>2 DEF RowCalm, Unresolved
<1>9. Attempted(o)'
  <2>1. \A k \in Numbers : ~(k < 0)
    BY DEF Numbers
  <2>2. \A k \in Numbers : ledger'[<<o, k>>] = ledger[<<o, k>>]
    BY <1>1 DEF SameHost
  <2> QED BY <1>2, <1>5, <1>6, <2>1, <2>2 DEF CalmAt, Attempted
<1>10. Held(o)'
  <2>1. \A d \in Calls : Owns(d, o)' => d = c
    BY <1>3, <1>6 DEF Owns
  <2>2. turns'[o] <= 0
    BY <1>1, <1>5, <1>6 DEF CalmAt, Held, SameHost
  <2> QED BY <1>2, <1>7, <2>1, <2>2 DEF Held
<1>11. \A s \in Services : LoopCalm(s, o)'
  <2>1. ASSUME NEW s \in Services
        PROVE  LoopCalm(s, o)'
    <3>1. act[<<s, o>>].at = "off"
      BY <1>5 DEF LoopCalm
    <3>2. act'[<<s, o>>].at = "off"
      BY <1>1, <1>4, <3>1
    <3> QED BY <3>2 DEF LoopCalm
  <2> QED BY <2>1
<1>12. CallCalm(c)' /\ \A p \in Queue \ {o} : ~Owns(c, p) /\ ~Owns(c, p)'
  BY DEF CallCalm, Owns, Heard
<1>13. \A d \in Calls : \/ act'[d] = act[d]
                        \/ CallCalm(d)' /\ \A p \in Queue \ {o} : ~Owns(d, p) /\ ~Owns(d, p)'
  BY <1>3, <1>12
<1>14. \A p \in Queue \ {o} : /\ SameHost(p)
                              /\ \A s \in Services : act'[<<s, p>>] = act[<<s, p>>]
  BY <1>1, <1>4, Names
<1>15. CalmAt(o)' /\ row'[o].gen = 1 /\ row'[o].st # "none"
  BY <1>2, <1>8, <1>9, <1>10 DEF CalmAt
<1> QED BY <1>1, <1>2, <1>11, <1>13, <1>14, <1>15, OpCalm

LEMMA ReserveCalm ==
  ASSUME IInv, IInv', QueueCalm, NEW c \in Calls, Reserve(c)
  PROVE  QueueCalm'
<1> DEFINE o == act[c].op
<1>1. act[c].at = "reserve" /\ act[c].gen = 1 /\ UNCHANGED host
  BY DEF Reserve, QueueCalm, CallCalm
<1>2. o \in Ops /\ row[o].gen = IF row[o].st = "none" THEN 0 ELSE 1
  BY <1>1, CallOf DEF Working, QueueCalm
<1>3. PICK x : /\ CallMoves(c, x, act[c].svc, {act[c].gen})
                /\ \/ Done(x) /\ row' = row
                   \/ /\ x.op = act[c].op /\ x.svc = act[c].svc /\ x.k = 0
                      /\ \A a \in Actors : a # c => act'[a] = act[a]
                      /\ \/ x.at = "enqueue" /\ act[c].op \in Queue /\ x.gen = act[c].gen
                         \/ /\ x.at = "sent" /\ x.ans = "sent"
                            /\ x.gen \in {act[c].gen, row[act[c].op].gen}
                            /\ x.gen = act[c].gen \/ row[act[c].op].st # "none"
                      /\ \/ row' = row /\ row[act[c].op].st \in {"pending", "uncertain"}
                            /\ ~Recoverable(row[act[c].op])
                         \/ /\ row[act[c].op].st = "none"
                            /\ \E r \in RowType :
                                 /\ row' = [row EXCEPT ![act[c].op] = r] /\ r.st = "pending"
                                 /\ r.attempt = 0 /\ r.gen = act[c].gen
                                 /\ r.res = IF act[c].op \in Queue THEN "queued" ELSE "none"
  BY ReserveParts
<1>4. act'[c] = x /\ {act[c].gen} \in SUBSET {1}
  BY <1>1, <1>3 DEF CallMoves
<1>5. CASE Done(x) /\ row' = row
  <2>1. CallCalm(c)' /\ \A p \in Queue : ~Owns(c, p) /\ ~Owns(c, p)'
    BY <1>1, <1>4, <1>5 DEF Done, CallCalm, Owns
  <2> QED BY <1>1, <1>3, <1>4, <1>5, <2>1, RowsKeep, CallMovesCalm
<1>6. ASSUME ~(Done(x) /\ row' = row)
      PROVE  x.op = o /\ x.gen = 1 /\ (x.at = "enqueue" \/ (x.at = "sent" /\ x.ans = "sent"))
  BY <1>1, <1>2, <1>3, <1>6
<1>7. ASSUME ~(Done(x) /\ row' = row)
      PROVE  CallCalm(c)'
  BY <1>4, <1>6, <1>7 DEF CallCalm, Heard
<1>8. CASE ~(Done(x) /\ row' = row) /\ o \notin Queue
  <2>1. \A p \in Queue : ~Owns(c, p) /\ ~Owns(c, p)'
    BY <1>1, <1>4, <1>6, <1>8 DEF Owns
  <2>2. row' = row \/ \E r \in RowType : /\ row' = [row EXCEPT ![o] = r] /\ r.st = "pending"
                                         /\ r.gen = act[c].gen
    BY <1>3, <1>8
  <2>3. /\ \A p \in Queue : row'[p] = row[p]
        /\ \A p \in Ops : /\ row'[p].gen = IF row'[p].st = "none" THEN 0 ELSE 1
                          /\ row[p].st # "none" => row'[p].st # "none"
    <3>1. CASE row' = row
      BY <3>1, RowsKeep
    <3>2. CASE \E r \in RowType : /\ row' = [row EXCEPT ![o] = r] /\ r.st = "pending"
                                  /\ r.gen = act[c].gen
      <4>1. PICK r \in RowType : row' = [row EXCEPT ![o] = r] /\ r.st = "pending" /\ r.gen = act[c].gen
        BY <3>2
      <4>2. row'[o] = r /\ \A p \in Ops : p # o => row'[p] = row[p]
        BY <1>2, <4>1, TypeParts
      <4>3. \A p \in Ops : row[p].gen = IF row[p].st = "none" THEN 0 ELSE 1
        BY DEF QueueCalm
      <4> HIDE DEF o
      <4> QED BY <1>1, <1>8, <4>1, <4>2, <4>3, Names
    <3> HIDE DEF o
    <3> QED BY <2>2, <3>1, <3>2
  <2> HIDE DEF o
  <2> QED BY <1>1, <1>3, <1>4, <1>7, <1>8, <2>1, <2>3, CallMovesCalm
<1>9. CASE ~(Done(x) /\ row' = row) /\ o \in Queue
  <2>1. row[o].st \in {"pending", "uncertain"} => Recoverable(row[o])
    <3>1. row[o].st \in Unresolved => row[o].res = "queued"
      BY <1>9 DEF QueueCalm, RowCalm
    <3> QED BY <3>1 DEF Recoverable, Unresolved
  <2>2. row[o].st = "none" /\ \A a \in Actors : a # c => act'[a] = act[a]
    BY <1>3, <1>9, <2>1
  <2>3. PICK r \in RowType : /\ row' = [row EXCEPT ![o] = r] /\ r.st = "pending"
                             /\ r.attempt = 0 /\ r.gen = 1 /\ r.res = "queued"
    BY <1>1, <1>3, <1>9, <2>1
  <2> QED BY <1>1, <1>4, <1>6, <1>9, <2>2, <2>3, NewRowCalm
<1> QED BY <1>5, <1>8, <1>9

\* A message whose row has ended needs nothing more.
LEMMA EndedCalm ==
  ASSUME IInv, NEW o \in Queue, CalmAt(o), row'[o].st = "completed", row'[o].attempt = row[o].attempt,
         SameHost(o), \A c \in Calls : Owns(c, o)' => Owns(c, o) /\ act'[c].ans = act[c].ans,
         \A c \in Calls : act'[c].ans = "sent" /\ Owns(c, o)' => act'[c].at = act[c].at
  PROVE  CalmAt(o)'
<1>1. row[o].attempt \in Numbers
  BY Names, TypeParts, RowFields
<1>2. Answered(o)' = Answered(o) /\ turns'[o] = turns[o]
  BY <1>1 DEF Answered, SameHost
<1>3. RowCalm(o)'
  BY DEF RowCalm, Unresolved
<1>4. Unserved(o)' => Unserved(o)
  BY DEF Unserved, Sent, Owns
<1>5. Attempted(o)'
  BY <1>4 DEF CalmAt, Attempted, SameHost
<1>6. Held(o)'
  BY <1>2 DEF CalmAt, Held, Unresolved
<1> QED BY <1>3, <1>5, <1>6 DEF CalmAt

\* What is known of the operation of a request that owns it.
LEMMA OwnerParts ==
  ASSUME IInv, QueueCalm, NEW c \in Calls, act[c].at \in {"enqueue", "sent"}, act[c].op \in Queue
  PROVE  /\ act[c].op \in Ops /\ act[c].gen = 1 /\ row[act[c].op].st # "none" /\ row[act[c].op].gen = 1
         /\ CalmAt(act[c].op) /\ \A s \in Services : LoopCalm(s, act[c].op)
         /\ \A d \in Calls : Owns(d, act[c].op) => d = c
         /\ row[act[c].op].attempt \in Numbers
         /\ act[c].at = "sent" => act[c].ans \in Heard
<1> DEFINE o == act[c].op
<1>1. o \in Ops /\ row[o].attempt \in Numbers
  BY Names, TypeParts, RowFields
<1>2. CalmAt(o) /\ \A s \in Services : LoopCalm(s, o)
  BY DEF QueueCalm, CalmAt
<1>3. Owns(c, o)
  BY DEF Owns
<1>4. row[o].st # "none"
  BY <1>2, <1>3 DEF CalmAt, RowCalm
<1>5. row[o].gen = 1
  BY <1>1, <1>4 DEF QueueCalm
<1>6. act[c].gen = 1 /\ (act[c].at = "sent" => act[c].ans \in Heard)
  BY DEF QueueCalm, CallCalm
<1>7. \A d \in Calls : Owns(d, o) => d = c
  BY <1>2, <1>3 DEF CalmAt, Held
<1> QED BY <1>1, <1>2, <1>4, <1>5, <1>6, <1>7

LEMMA EnqueueCalm ==
  ASSUME IInv, IInv', QueueCalm, NEW c \in Calls, Enqueue(c)
  PROVE  QueueCalm'
<1>0. PICK o : o = act[c].op
  OBVIOUS
<1>1. act[c].at = "enqueue" /\ UNCHANGED host
  BY DEF Enqueue
<1>2. /\ Done(act'[c]) /\ o \in Queue
      /\ \/ row' = row /\ \A a \in Actors : a # c => act'[a] = act[a]
         \/ /\ row[o].st \in Unresolved
            /\ \E r \in RowType :
                    /\ row' = [row EXCEPT ![o] = r] /\ r.st = "queued" /\ r.res = "queued"
                    /\ r.attempt = row[o].attempt /\ r.gen = row[o].gen
            /\ \A a \in Actors : a # c =>
                    \/ act'[a] = act[a]
                    \/ /\ a \in Loops /\ a[1] = act[c].svc /\ a[2] = o
                       /\ Begun(act'[a], act[a], act[c].gen, FALSE, 0)
  BY <1>0, EnqueueParts
<1>3. /\ o \in Ops /\ act[c].gen = 1 /\ row[o].st # "none" /\ row[o].gen = 1
      /\ CalmAt(o) /\ \A s \in Services : LoopCalm(s, o)
      /\ row[o].attempt \in Numbers
  BY <1>0, <1>1, <1>2, OwnerParts
<1>4. \A d \in Calls : Owns(d, o) => d = c
  BY <1>0, <1>1, <1>2, OwnerParts
<1>5. \A d \in Calls : d # c => act'[d] = act[d]
  BY <1>2, Names
<1>6. late' = late /\ \A p \in Ops : SameHost(p)
  BY <1>1 DEF host, SameHost
<1>7. \A d \in Calls : \/ act'[d] = act[d]
                       \/ CallCalm(d)' /\ \A p \in Queue \ {o} : ~Owns(d, p) /\ ~Owns(d, p)'
  BY <1>0, <1>2, <1>5 DEF Done, CallCalm, Owns
<1>8. \A p \in Queue \ {o} : /\ SameHost(p)
                             /\ \A s \in Services : act'[<<s, p>>] = act[<<s, p>>]
  <2>1. \A p \in Queue : p \in Ops
    BY Names
  <2>2. \A s \in Services, p \in Ops : <<s, p>> \in Actors /\ <<s, p>> # c /\ <<s, p>>[2] = p
    BY Names
  <2> QED BY <1>2, <1>6, <2>1, <2>2
<1>9. /\ \A d \in Calls : ~Owns(d, o)'
      /\ Answered(o) = ledger[<<o, row[o].attempt>>]
  BY <1>2, <1>4, <1>5 DEF Done, Owns, Answered
<1>10. ~Unserved(o)' /\ \A d \in Calls : ~Requeues(d, o)'
  BY <1>9 DEF Unserved, Sent, Owns, Requeues
<1>11. Requeues(c, o)
  BY <1>0, <1>1 DEF Requeues
<1>12. /\ \A p \in Ops : p # o => row'[p] = row[p]
       /\ row'[o].attempt = row[o].attempt /\ row'[o].gen = 1
       /\ row'[o].st = row[o].st \/ (row'[o].st = "queued" /\ row[o].st \in Unresolved)
       /\ row'[o].res = row[o].res \/ row'[o].res = "queued"
  <2>1. CASE row' = row
    BY <1>3, <2>1
  <2>2. CASE row' # row
    <3>1. PICK r \in RowType :
                    /\ row' = [row EXCEPT ![o] = r] /\ r.st = "queued" /\ r.res = "queued"
                    /\ r.attempt = row[o].attempt /\ r.gen = row[o].gen
      BY <1>2, <2>2
    <3>2. row'[o] = r /\ \A p \in Ops : p # o => row'[p] = row[p]
      BY <1>3, <3>1, TypeParts
    <3>3. row[o].st \in Unresolved
      BY <1>2, <2>2
    <3> QED BY <1>3, <3>1, <3>2, <3>3
  <2> QED BY <2>1, <2>2
<1>13. Answered(o)' = Answered(o)
  BY <1>3, <1>6, <1>12 DEF Answered, SameHost
<1>14. row'[o].st # "none" /\ (row'[o].st \in Unresolved => row[o].st \in Unresolved)
  BY <1>3, <1>12
<1>15. ASSUME NEW s \in Services
       PROVE  \/ act'[<<s, o>>] = act[<<s, o>>]
              \/ row'[o].st = "queued" /\ Begun(act'[<<s, o>>], act[<<s, o>>], 1, FALSE, 0)
  <2>1. <<s, o>> \in Actors /\ <<s, o>> # c
    BY <1>3, Names
  <2>2. CASE act'[<<s, o>>] # act[<<s, o>>]
    <3>1. PICK r \in RowType : row' = [row EXCEPT ![o] = r] /\ r.st = "queued"
      BY <1>2, <2>1, <2>2
    <3>2. row'[o].st = "queued"
      BY <1>3, <3>1, TypeParts
    <3> QED BY <1>2, <1>3, <2>1, <2>2, <3>2
  <2> QED BY <2>2
<1>16. RowCalm(o)'
  BY <1>3, <1>12, <1>14 DEF CalmAt, RowCalm
<1>17. Attempted(o)'
  BY <1>3, <1>6, <1>10, <1>12 DEF CalmAt, Attempted, SameHost
<1>18. LoopHolds(o) => LoopHolds(o)'
  BY <1>15 DEF LoopHolds, Begun
<1>19. Refused(o) => Refused(o)'
  <2>1. ASSUME Refused(o)
        PROVE  \E s \in Services : act[<<s, o>>].at = "sent" /\ act[<<s, o>>].ans = "refused"
    <3>1. \A b \in Loops : LoopPlaced(b)
      BY DEF IInv, Placed
    <3>2. \A d \in Calls : Owns(d, o) => act[d].at = "enqueue"
      BY <1>1, <1>4
    <3> QED BY <1>3, <2>1, <3>1, <3>2, RefusedBy
  <2>2. ASSUME NEW s \in Services, act[<<s, o>>].at = "sent" /\ act[<<s, o>>].ans = "refused"
        PROVE  Refused(o)'
    <3>1. act'[<<s, o>>] = act[<<s, o>>]
      BY <1>15, <2>2 DEF Begun
    <3> QED BY <1>3, <2>2, <3>1, RefusedAgain
  <2> QED BY <2>1, <2>2
<1>20. Held(o)'
  <2>1. turns'[o] = turns[o]
    BY <1>3, <1>6 DEF SameHost
  <2>2. row'[o].st \in Unresolved /\ Answered(o) = "accepted" => LoopHolds(o)'
    BY <1>3, <1>11, <1>14, <1>18 DEF CalmAt, Held
  <2>3. Answered(o) = "idle" => row'[o].st = "completed" \/ Refused(o)'
    BY <1>3, <1>12, <1>19 DEF CalmAt, Held, Unresolved
  <2> QED BY <1>3, <1>9, <1>10, <1>13, <2>1, <2>2, <2>3 DEF CalmAt, Held
<1>21. \A s \in Services : LoopCalm(s, o)'
  <2>1. ASSUME NEW s \in Services
        PROVE  LoopCalm(s, o)'
    <3>1. CASE act'[<<s, o>>] = act[<<s, o>>]
      BY <1>3, <1>10, <1>12, <1>13, <1>14, <3>1 DEF LoopCalm
    <3>2. CASE row'[o].st = "queued" /\ Begun(act'[<<s, o>>], act[<<s, o>>], 1, FALSE, 0)
      BY <3>2 DEF Begun, LoopCalm
    <3> QED BY <1>15, <3>1, <3>2
  <2> QED BY <2>1
<1>22. CalmAt(o)'
  BY <1>16, <1>17, <1>20 DEF CalmAt
<1> QED BY <1>2, <1>6, <1>7, <1>8, <1>12, <1>14, <1>21, <1>22, OpCalm

LEMMA AnswerCalm ==
  ASSUME IInv, IInv', QueueCalm, NEW c \in Calls, Answer(c)
  PROVE  QueueCalm'
<1>0. PICK o : o = act[c].op
  OBVIOUS
<1>1. act[c].at = "sent" /\ act[c].gen = 1 /\ act[c].ans \in Heard /\ UNCHANGED host
  BY DEF Answer, QueueCalm, CallCalm
<1>2. o \in Ops /\ c \in Actors
  BY <1>0, <1>1, CallOf DEF Working
<1>3. PICK x \in ActType :
           /\ act' = [act EXCEPT ![c] = x]
           /\ \/ /\ x.at = "sent" /\ x.ans = "sent" /\ act[c].ans = "ambiguous" /\ row' = row
                 /\ x.op = act[c].op /\ x.svc = act[c].svc /\ x.k = 0
              \/ /\ x.at = "enqueue" /\ act[c].ans = "rejected" /\ act[c].op \in Queue /\ row' = row
                 /\ x.op = act[c].op /\ x.svc = act[c].svc /\ x.k = 0 /\ x.gen = act[c].gen
                 /\ x.ans = "none"
              \/ /\ Done(x)
                 /\ act[c].ans = "rejected" => act[c].op \notin Queue
                 /\ \/ row' = row /\ ~MayMove(act[c].op, act[c].gen)
                    \/ /\ row[act[c].op].st \in Unresolved
                       /\ \E r \in RowType :
                            /\ row' = [row EXCEPT ![act[c].op] = r]
                            /\ r.attempt = row[act[c].op].attempt /\ r.gen = row[act[c].op].gen
                            /\ r.res # "queued"
                            /\ \/ r.st = "completed" /\ act[c].ans \notin {"lost", "ambiguous"}
                               \/ r.st = "uncertain" /\ act[c].ans \in {"lost", "ambiguous"}
  BY AnswerParts
<1>4. act[c].ans \notin {"lost", "ambiguous"}
  BY <1>1 DEF Heard
<1>5. act'[c] = x /\ (\A a \in Actors : a # c => act'[a] = act[a]) /\ act' \in [Actors -> ActType]
  BY <1>2, <1>3, TypeParts
<1>6. \A d \in Calls : d # c => act'[d] = act[d]
  BY <1>5, Names
<1>7. \A s \in Services, p \in Ops : act'[<<s, p>>] = act[<<s, p>>]
  BY <1>5, Names
<1>8. late' = late /\ \A p \in Ops : SameHost(p)
  BY <1>1 DEF host, SameHost
<1>9. CallCalm(c)'
  BY <1>1, <1>3, <1>4, <1>5 DEF CallCalm, Done
<1>10. CASE o \notin Queue
  <2>1. CallMoves(c, x, act[c].svc, {})
    BY <1>5 DEF CallMoves
  <2>2. \A p \in Queue : ~Owns(c, p) /\ ~Owns(c, p)'
    BY <1>0, <1>3, <1>4, <1>5, <1>10 DEF Owns, Done
  <2>3. row' = row \/ \E r \in RowType : /\ row[o].st \in Unresolved /\ row' = [row EXCEPT ![o] = r]
                                         /\ r.st = "completed" /\ r.gen = row[o].gen
    BY <1>0, <1>3, <1>4
  <2>4. /\ \A p \in Queue : row'[p] = row[p]
        /\ \A p \in Ops : /\ row'[p].gen = IF row'[p].st = "none" THEN 0 ELSE 1
                          /\ row[p].st # "none" => row'[p].st # "none"
    <3>1. CASE row' = row
      BY <3>1, RowsKeep
    <3>2. CASE row' # row
      <4>1. PICK r \in RowType : /\ row[o].st \in Unresolved /\ row' = [row EXCEPT ![o] = r]
                                 /\ r.st = "completed" /\ r.gen = row[o].gen
        BY <2>3, <3>2
      <4>2. row'[o] = r /\ \A p \in Ops : p # o => row'[p] = row[p]
        BY <1>2, <4>1, TypeParts
      <4>3. \A p \in Ops : row[p].gen = IF row[p].st = "none" THEN 0 ELSE 1
        BY DEF QueueCalm
      <4>4. row[o].st # "none"
        BY <4>1 DEF Unresolved
      <4> QED BY <1>2, <1>10, <4>1, <4>2, <4>3, <4>4, Names
    <3> QED BY <3>1, <3>2
  <2>5. {} \in SUBSET {1}
    OBVIOUS
  <2> QED BY <1>1, <1>9, <2>1, <2>2, <2>4, <2>5, CallMovesCalm
<1>11. CASE o \in Queue
  <2>1. /\ row[o].st # "none" /\ row[o].gen = 1 /\ row[o].attempt \in Numbers
        /\ CalmAt(o) /\ \A s \in Services : LoopCalm(s, o)
    BY <1>0, <1>1, <1>11, OwnerParts
  <2>2. \A d \in Calls : Owns(d, o) => d = c
    BY <1>0, <1>1, <1>11, OwnerParts
  <2>3. \A d \in Calls : \/ act'[d] = act[d]
                         \/ CallCalm(d)' /\ \A p \in Queue \ {o} : ~Owns(d, p) /\ ~Owns(d, p)'
    BY <1>0, <1>3, <1>4, <1>5, <1>6, <1>9 DEF Owns, Done
  <2>4. \A p \in Queue \ {o} : /\ SameHost(p)
                               /\ \A s \in Services : act'[<<s, p>>] = act[<<s, p>>]
    BY <1>7, <1>8, Names
  <2>5. SameHost(o)
    BY <1>2, <1>8
  <2>6. CASE x.at = "enqueue" /\ act[c].ans = "rejected" /\ row' = row /\ x.op = o
    <3>1. Answered(o)' = Answered(o)
      BY <2>1, <2>5, <2>6 DEF Answered, SameHost
    <3>2. /\ \A d \in Calls : Owns(d, o)' => d = c
          /\ \A d \in Calls : Requeues(d, o)' => Requeues(d, o)
      BY <1>0, <1>1, <1>5, <1>6, <2>2, <2>6 DEF Owns, Requeues
    <3>3. Unserved(o)' => Unserved(o)
      BY <1>5, <1>6, <2>6 DEF Unserved, Sent
    <3>4. LoopHolds(o)' <=> LoopHolds(o)
      BY <1>2, <1>7 DEF LoopHolds
    <3>5. Refused(o) => Refused(o)'
      <4>1. ASSUME Refused(o)
            PROVE  \E s \in Services : act[<<s, o>>].at = "sent" /\ act[<<s, o>>].ans = "refused"
        <5>1. \A b \in Loops : LoopPlaced(b)
          BY DEF IInv, Placed
        <5>2. \A d \in Calls : Owns(d, o) => act[d].ans # "refused"
          BY <2>2, <2>6
        <5> QED BY <1>2, <4>1, <5>1, <5>2, RefusedBy
      <4> QED BY <1>2, <1>7, <4>1, RefusedAgain
    <3>6. RowCalm(o)' /\ Attempted(o)'
      BY <2>1, <2>5, <2>6, <3>1, <3>3 DEF CalmAt, RowCalm, Attempted, SameHost
    <3>7. Held(o)'
      BY <2>1, <2>5, <2>6, <3>1, <3>2, <3>3, <3>4, <3>5 DEF CalmAt, Held, SameHost
    <3>8. \A s \in Services : LoopCalm(s, o)'
      BY <1>2, <1>7, <2>1, <2>6, <3>1, <3>3 DEF LoopCalm
    <3>9. CalmAt(o)'
      BY <3>6, <3>7 DEF CalmAt
    <3>10. \A p \in Ops : p # o => row'[p] = row[p]
      BY <2>6
    <3>11. row'[o].gen = 1 /\ row'[o].st # "none"
      BY <2>1, <2>6
    <3> QED BY <1>8, <1>11, <2>3, <2>4, <3>8, <3>9, <3>10, <3>11, OpCalm
  <2>7. CASE Done(x)
    <3>1. /\ row'[o].st = "completed" /\ row'[o].attempt = row[o].attempt /\ row'[o].gen = 1
          /\ \A p \in Ops : p # o => row'[p] = row[p]
      <4>1. CASE row' = row /\ ~MayMove(o, act[c].gen)
        BY <1>1, <2>1, <4>1 DEF MayMove, CalmAt, RowCalm, Unresolved
      <4>2. CASE ~(row' = row /\ ~MayMove(o, act[c].gen))
        <5>1. PICK r \in RowType : /\ row' = [row EXCEPT ![o] = r] /\ r.st = "completed"
                                   /\ r.attempt = row[o].attempt /\ r.gen = row[o].gen
          BY <1>0, <1>3, <1>4, <2>7, <4>2 DEF Done
        <5>2. row'[o] = r /\ \A p \in Ops : p # o => row'[p] = row[p]
          BY <1>2, <5>1, TypeParts
        <5> QED BY <2>1, <5>1, <5>2
      <4> QED BY <4>1, <4>2
    <3>2. \A d \in Calls : ~Owns(d, o)'
      BY <1>5, <1>6, <2>2, <2>7 DEF Owns, Done
    <3>3. CalmAt(o)'
      BY <1>11, <2>1, <2>5, <3>1, <3>2, EndedCalm
    <3>4. \A s \in Services : LoopCalm(s, o)'
      BY <1>2, <1>7, <2>1, <3>1 DEF LoopCalm, Unresolved
    <3>5. row'[o].st # "none"
      BY <3>1
    <3> QED BY <1>8, <1>11, <2>3, <2>4, <3>1, <3>3, <3>4, <3>5, OpCalm
  <2> QED BY <1>0, <1>3, <1>4, <2>6, <2>7
<1> QED BY <1>10, <1>11

-------------------------------------------------------------------------------
\* The host's answers.

\* An answer that arrives: what the host did with the dispatch ID before it answered.
Hosted(o, n, ans) ==
  /\ \A i \in Ids : i # <<o, n>> => ledger'[i] = ledger[i]
  /\ \A p \in Ops : p # o => turns'[p] = turns[p]
  /\ \/ /\ turns' = turns /\ ledger'[<<o, n>>] # "none"
        /\ \/ ledger'[<<o, n>>] = ledger[<<o, n>>]
           \/ ledger[<<o, n>>] = "none" /\ ledger'[<<o, n>>] = "rejected"
        /\ ans = IF ledger'[<<o, n>>] = "accepted" THEN "accepted" ELSE "rejected"
     \/ /\ ledger[<<o, n>>] \notin {"accepted", "rejected"} /\ ledger'[<<o, n>>] = "accepted"
        /\ turns'[o] <= turns[o] + 1 /\ ans = "accepted"
     \/ /\ ledger[<<o, n>>] \in {"none", "idle"} /\ ledger'[<<o, n>>] = "idle"
        /\ turns' = turns /\ ans = "refused"

\* The record of who was answered.
Replied(a, x, o, n, ans) ==
  /\ Sent(a) /\ act[a].op = o /\ act[a].k = n
  /\ act' = [act EXCEPT ![a] = x] /\ x.at = "sent" /\ x.op = o /\ x.gen = act[a].gen
  /\ x.k = n /\ x.ans = ans /\ x.rec = act[a].rec

LEMMA ToldCalm ==
  ASSUME IInv, IInv', QueueCalm, NEW a \in Actors, NEW x, NEW o \in Ops, NEW n \in Numbers,
         NEW ans \in Heard, Replied(a, x, o, n, ans), Hosted(o, n, ans), UNCHANGED <<row, late>>,
         o \in Queue => CalmAt(o)' /\ \A s \in Services : LoopCalm(s, o)'
  PROVE  QueueCalm'
<1>1. act'[a] = x /\ \A b \in Actors : b # a => act'[b] = act[b]
  BY TypeParts DEF Replied
<1>2. ASSUME NEW c \in Calls
      PROVE  act'[c] = act[c] \/ CallCalm(c)'
  <2>1. CASE c = a
    <3>1. CallCalm(c)
      BY DEF QueueCalm
    <3> QED BY <1>1, <2>1, <3>1 DEF CallCalm, Replied, Sent
  <2> QED BY <1>1, <2>1, Names
<1>3. ASSUME NEW p \in Queue, p # o
      PROVE  Quiet(p) /\ \A s \in Services : act'[<<s, p>>] = act[<<s, p>>]
  <2>1. p \in Ops
    BY Names
  <2>2. \A k \in Numbers : <<p, k>> \in Ids /\ <<p, k>> # <<o, n>>
    BY <1>3, <2>1 DEF Ids, Numbers
  <2>3. SameHost(p)
    BY <1>3, <2>1, <2>2 DEF SameHost, Hosted
  <2>4. \A c \in Calls : Aside(c, p)
    <3>1. ASSUME NEW c \in Calls
          PROVE  Aside(c, p)
      <4>1. CASE c = a
        BY <1>1, <1>3, <4>1 DEF Aside, Owns, Replied
      <4> QED BY <1>1, <4>1, Names DEF Aside
    <3> QED BY <3>1
  <2>5. \A s \in Services : act'[<<s, p>>] = act[<<s, p>>]
    <3>1. ASSUME NEW s \in Services
          PROVE  act'[<<s, p>>] = act[<<s, p>>]
      <4>1. <<s, p>> \in Loops /\ <<s, p>> \in Actors /\ <<s, p>>[2] = p
        BY <2>1, Names
      <4>2. act[<<s, p>>].op = p
        BY <4>1 DEF IInv, Placed, LoopPlaced
      <4>3. <<s, p>> # a
        BY <1>3, <4>2 DEF Replied
      <4> QED BY <1>1, <4>1, <4>3
    <3> QED BY <3>1
  <2> QED BY <2>3, <2>4, <2>5 DEF Quiet, AsideLoop
<1>4. /\ \A p \in Ops : /\ row'[p].gen = IF row'[p].st = "none" THEN 0 ELSE 1
                        /\ row[p].st # "none" => row'[p].st # "none"
      /\ late' = late
  BY RowsKeep
<1> QED BY <1>2, <1>3, <1>4, CalmStep

\* What an answer to the last attempt leaves of an operation's turns.
LEMMA HostedTurns ==
  ASSUME IInv, IInv', NEW o \in Queue, NEW ans, CalmAt(o), row' = row,
         Hosted(o, row[o].attempt, ans)
  PROVE  /\ turns'[o] <= IF Answered(o)' = "accepted" THEN 1 ELSE 0
         /\ \A k \in Numbers : k # row[o].attempt => ledger'[<<o, k>>] = ledger[<<o, k>>]
<1>0. PICK n : n = row[o].attempt
  OBVIOUS
<1>1. o \in Ops /\ n \in Numbers
  BY <1>0, Names, TypeParts, RowFields
<1>2. \A k \in Numbers : k # n => <<o, k>> \in Ids /\ <<o, k>> # <<o, n>>
  BY <1>1 DEF Ids, Numbers
<1>3. turns[o] \in 0 .. 3 /\ turns'[o] \in 0 .. 3
  <2>1. turns \in [Ops -> 0 .. 3] /\ turns' \in [Ops -> 0 .. 3]
    BY TypeParts DEF IInv, Typed, TypeOK
  <2> QED BY <1>1, <2>1
<1>4. turns[o] <= IF ledger[<<o, n>>] = "accepted" THEN 1 ELSE 0
  BY <1>0 DEF CalmAt, Held, Answered
<1>5. Answered(o)' = ledger'[<<o, n>>]
  BY <1>0 DEF Answered
<1>6. turns'[o] <= IF ledger'[<<o, n>>] = "accepted" THEN 1 ELSE 0
  <2>1. Hosted(o, n, ans)
    BY <1>0
  <2> QED BY <1>3, <1>4, <2>1 DEF Hosted
<1> QED BY <1>0, <1>1, <1>2, <1>5, <1>6 DEF Hosted

\* The host answers a request of a queued message, which sent it under the operation ID.
LEMMA CallAnswered ==
  ASSUME IInv, IInv', QueueCalm, NEW c \in Calls, NEW x, NEW o \in Queue,
         NEW ans \in Heard \ {"sent"}, Replied(c, x, o, 0, ans), Hosted(o, 0, ans), row' = row
  PROVE  CalmAt(o)' /\ \A s \in Services : LoopCalm(s, o)'
<1>1. /\ o \in Ops /\ c \in Actors /\ CalmAt(o) /\ \A s \in Services : LoopCalm(s, o)
      /\ row[o].st # "none" /\ \A d \in Calls : Owns(d, o) => d = c
  BY OwnerParts, Names DEF Replied, Sent
<1>2. PICK n \in Numbers : n = row[o].attempt
  BY <1>1, TypeParts, RowFields
<1>3. /\ act'[c] = x /\ \A d \in Calls : d # c => act'[d] = act[d]
      /\ \A s \in Services : act'[<<s, o>>] = act[<<s, o>>]
  <2>1. \A b \in Actors : b # c => act'[b] = act[b]
    BY TypeParts DEF Replied
  <2>2. \A s \in Services : <<s, o>> \in Actors /\ <<s, o>> # c
    BY <1>1, Names
  <2> QED BY <1>1, <2>1, <2>2, TypeParts, Names DEF Replied
<1>4. Owns(c, o) /\ Unserved(o) /\ act[c].ans = "sent"
  BY DEF Replied, Sent, Owns, Unserved
<1>5. ~Unserved(o)' /\ \A d \in Calls : Owns(d, o)' => d = c
  <2>1. \A d \in Calls : Owns(d, o)' => d = c
    BY <1>1, <1>3 DEF Owns
  <2> QED BY <1>3, <2>1 DEF Unserved, Sent, Owns, Replied
<1>6. LoopHolds(o) <=> LoopHolds(o)'
  BY <1>3 DEF LoopHolds
<1>7. Refused(o) \/ ans = "refused" => Refused(o)'
  <2>1. CASE ans = "refused"
    <3>1. Owns(c, o)' /\ act'[c].at = "sent" /\ act'[c].ans = "refused"
      BY <1>3, <2>1 DEF Owns, Replied
    <3> QED BY <1>1, <3>1, RefusedAgain
  <2>2. CASE Refused(o)
    <3>1. \A b \in Loops : LoopPlaced(b)
      BY DEF IInv, Placed
    <3>2. \A d \in Calls : Owns(d, o) => act[d].ans # "refused"
      BY <1>1, <1>4
    <3>3. PICK s \in Services : act[<<s, o>>].at = "sent" /\ act[<<s, o>>].ans = "refused"
      BY <1>1, <2>2, <3>1, <3>2, RefusedBy
    <3>4. act'[<<s, o>>].at = "sent" /\ act'[<<s, o>>].ans = "refused"
      BY <1>3, <3>3
    <3> QED BY <1>1, <3>4, RefusedAgain
  <2> QED BY <2>1, <2>2
<1>8. Answered(o) = ledger[<<o, n>>] /\ Answered(o)' = ledger'[<<o, n>>]
  BY <1>2 DEF Answered
<1>9. CASE n # 0
  <2>1. ledger[<<o, 0>>] = "rejected"
    <3>1. 0 < n /\ 0 \in Numbers
      BY <1>9, Names DEF Numbers
    <3> QED BY <1>1, <1>2, <1>4, <3>1 DEF CalmAt, Attempted
  <2>2. \A k \in Numbers : <<o, k>> \in Ids /\ (k # 0 => <<o, k>> # <<o, 0>>)
    BY <1>1 DEF Ids, Numbers
  <2>3. (\A k \in Numbers : ledger'[<<o, k>>] = ledger[<<o, k>>]) /\ turns'[o] = turns[o]
    BY <2>1, <2>2 DEF Hosted
  <2>4. Answered(o)' = Answered(o) /\ ans = "rejected"
    BY <1>2, <1>8, <2>1, <2>3 DEF Hosted
  <2>5. RowCalm(o)' /\ Attempted(o)'
    BY <1>1, <1>5, <2>3, <2>4 DEF CalmAt, RowCalm, Attempted
  <2>6. row[o].attempt > 0
    BY <1>2, <1>9 DEF Numbers
  <2>7. Held(o)'
    BY <1>1, <1>5, <1>6, <1>7, <2>3, <2>4, <2>6 DEF CalmAt, Held
  <2>8. \A s \in Services : LoopCalm(s, o)'
    BY <1>1, <1>3, <1>5, <2>4 DEF LoopCalm
  <2> QED BY <2>5, <2>7, <2>8 DEF CalmAt
<1>10. CASE n = 0
  <2>1. /\ turns'[o] <= IF Answered(o)' = "accepted" THEN 1 ELSE 0
        /\ \A k \in Numbers : k # row[o].attempt => ledger'[<<o, k>>] = ledger[<<o, k>>]
    BY <1>1, <1>2, <1>10, HostedTurns
  <2>2. /\ \/ /\ Answered(o)' \in {Answered(o), "rejected"} /\ (Answered(o) = "accepted" => Answered(o)' = "accepted")
              /\ ans = IF Answered(o)' = "accepted" THEN "accepted" ELSE "rejected"
           \/ Answered(o) # "rejected" /\ Answered(o)' = "accepted" /\ ans = "accepted"
           \/ Answered(o)' = "idle" /\ ans = "refused"
        /\ Answered(o)' # "accepted" => ans # "accepted"
    BY <1>8, <1>10 DEF Hosted
  <2>3. RowCalm(o)'
    BY <1>1 DEF CalmAt, RowCalm
  <2>4. Attempted(o)'
    BY <1>1, <1>2, <1>10, <1>5, <2>1 DEF CalmAt, Attempted, Numbers
  <2>5. Answered(o)' = "accepted" => ans = "accepted" /\ ~Requeues(c, o)'
    BY <1>3, <2>2 DEF Requeues, Replied
  <2>6. Answered(o)' = "accepted" /\ row[o].st = "queued" => LoopHolds(o)'
    <3>1. row[o].st = "queued" => Answered(o) = "rejected"
      BY <1>1, <1>4 DEF CalmAt, Held
    <3> QED BY <2>2, <3>1
  <2>7. \A d \in Calls : Requeues(d, o)' => d = c
    BY <1>5 DEF Requeues, Owns
  <2>8. Answered(o)' = "idle" => row[o].st = "completed" \/ Refused(o)'
    BY <1>1, <1>7, <2>2 DEF CalmAt, Held
  <2>9. row'[o].attempt = 0
    BY <1>2, <1>10
  <2>10. Held(o)'
    <3>1. row'[o].st = "queued" => Answered(o)' = "rejected" \/ ~Unserved(o)'
      BY <1>5
    <3>2. row'[o].st \in Unresolved /\ Answered(o)' = "accepted"
          /\ (row'[o].st = "queued" \/ row'[o].attempt > 0 \/ \E d \in Calls : Requeues(d, o)')
          => LoopHolds(o)'
      BY <2>5, <2>6, <2>7, <2>9
    <3>3. Answered(o)' = "idle" => row'[o].st = "completed" \/ Refused(o)'
      BY <2>8
    <3>4. \A d, e \in Calls : Owns(d, o)' /\ Owns(e, o)' => d = e
      BY <1>5
    <3> QED BY <2>1, <3>1, <3>2, <3>3, <3>4 DEF Held
  <2>11. \A s \in Services : LoopCalm(s, o)'
    <3>1. ASSUME NEW s \in Services
          PROVE  LoopCalm(s, o)'
      <4>1. LoopCalm(s, o)
        BY <1>1
      <4>2. act[<<s, o>>].at = "sent" /\ act[<<s, o>>].ans = "rejected" /\ row[o].st \in Unresolved =>
              Answered(o)' # "accepted"
        <5>1. act[<<s, o>>].at = "sent" /\ act[<<s, o>>].ans = "rejected" /\ row[o].st \in Unresolved =>
                Answered(o) = "rejected"
          BY <1>4, <4>1 DEF LoopCalm
        <5> QED BY <2>2, <5>1
      <4> QED BY <1>3, <1>5, <4>1, <4>2 DEF LoopCalm
    <3> QED BY <3>1
  <2> QED BY <2>3, <2>4, <2>10, <2>11 DEF CalmAt
<1> QED BY <1>9, <1>10

\* The host answers a loop, which sent under the ID of the last attempt.
LEMMA LoopAnswered ==
  ASSUME IInv, IInv', QueueCalm, OneService, NEW a \in Loops, NEW x, NEW o \in Queue, NEW n \in Numbers,
         NEW ans \in Heard \ {"sent"}, Replied(a, x, o, n, ans), Hosted(o, n, ans), row' = row
  PROVE  CalmAt(o)' /\ \A s \in Services : LoopCalm(s, o)'
<1>1. o = a[2]
  BY DEF Replied, IInv, Placed, LoopPlaced
<1>2. act[a].at = "sent" /\ act[a].ans = "sent" /\ act[a].k = n
  BY DEF Replied, Sent
<1>3. /\ a[1] \in Services /\ o \in Ops /\ a = <<a[1], o>> /\ a \in Actors
      /\ LoopCalm(a[1], o) /\ CalmAt(o) /\ act[a].gen = 1 /\ row[o].st # "none" /\ row[o].gen = 1
  BY <1>1, <1>2, LoopCalmParts, Names
<1>4. n = row[o].attempt
  BY <1>2, <1>3 DEF LoopCalm
<1>5. act'[a] = x /\ \A c \in Calls : act'[c] = act[c]
  <2>1. \A b \in Actors : b # a => act'[b] = act[b]
    BY TypeParts DEF Replied
  <2> QED BY <1>3, <2>1, TypeParts, Names DEF Replied
<1>6. /\ Unserved(o)' <=> Unserved(o)
      /\ \A c \in Calls : (Owns(c, o)' <=> Owns(c, o)) /\ (Requeues(c, o)' <=> Requeues(c, o))
  BY <1>5, CallsSame
<1>7. LoopHolds(o)' <=> ans # "rejected"
  BY <1>1, <1>5, OneLoop DEF Replied
<1>8. /\ turns'[o] <= IF Answered(o)' = "accepted" THEN 1 ELSE 0
      /\ \A k \in Numbers : k # row[o].attempt => ledger'[<<o, k>>] = ledger[<<o, k>>]
  BY <1>3, <1>4, HostedTurns
<1>9. Answered(o) = ledger[<<o, n>>] /\ Answered(o)' = ledger'[<<o, n>>]
  BY <1>4 DEF Answered
<1>10. /\ \/ /\ Answered(o)' = Answered(o) \/ Answered(o)' = "rejected"
             /\ ans = IF Answered(o)' = "accepted" THEN "accepted" ELSE "rejected"
             /\ Answered(o)' # "none"
          \/ Answered(o) # "rejected" /\ Answered(o)' = "accepted" /\ ans = "accepted"
          \/ Answered(o)' = "idle" /\ ans = "refused"
       /\ Answered(o) = "rejected" => Answered(o)' = "rejected"
       /\ Answered(o)' = "accepted" => ans = "accepted"
       /\ Answered(o)' \in {"idle", "rejected", "accepted"}
  <2>1. <<o, n>> \in Ids
    BY <1>3 DEF Ids, Numbers
  <2>2. ledger[<<o, n>>] \in {"none", "idle", "rejected", "accepted"}
    BY <2>1, TypeParts
  <2> QED BY <1>9, <2>2 DEF Hosted
<1>11. ASSUME NEW d \in Calls, Owns(d, o), act[d].at = "sent", act[d].ans = "refused"
       PROVE  Refused(o)' /\ ~Unserved(o)
  <2>1. Owns(d, o)' /\ act'[d].at = "sent" /\ act'[d].ans = "refused"
    BY <1>5, <1>6, <1>11
  <2>2. Refused(o)'
    BY <1>3, <2>1, RefusedAgain
  <2>3. \A e \in Calls : Owns(e, o) => e = d
    BY <1>3, <1>11 DEF CalmAt, Held
  <2> QED BY <1>11, <2>2, <2>3 DEF Unserved, Owns, Sent
<1>12. Answered(o) = "idle" => row[o].st = "completed" \/ (Refused(o)' /\ ~Unserved(o))
  <2> SUFFICES ASSUME Answered(o) = "idle", row[o].st # "completed"
               PROVE  Refused(o)' /\ ~Unserved(o)
    OBVIOUS
  <2>1. Refused(o)
    BY <1>3 DEF CalmAt, Held
  <2>2. \A b \in Loops : LoopPlaced(b)
    BY DEF IInv, Placed
  <2>3. \A s \in Services : act[<<s, o>>].ans # "refused"
    BY <1>1, <1>2, OneLoop
  <2>4. PICK d \in Calls : Owns(d, o) /\ act[d].at = "sent" /\ act[d].ans = "refused"
    BY <1>3, <2>1, <2>2, <2>3, RefusedBy
  <2> QED BY <1>11, <2>4
<1>13. RowCalm(o)'
  BY <1>3 DEF CalmAt, RowCalm
<1>14. Attempted(o)'
  <2>1. \A k \in Numbers : k > row[o].attempt \/ k < row[o].attempt => k # row[o].attempt
    <3>1. row[o].attempt \in Nat
      BY <1>4 DEF Numbers
    <3> QED BY <3>1 DEF Numbers
  <2> QED BY <1>3, <1>6, <1>8, <2>1 DEF CalmAt, Attempted
<1>15. Held(o)'
  <2>1. row'[o].st = "queued" => Answered(o)' = "rejected" \/ ~Unserved(o)'
    BY <1>3, <1>6, <1>10 DEF CalmAt, Held
  <2>2. Answered(o)' = "accepted" => LoopHolds(o)'
    BY <1>7, <1>10
  <2>3. Answered(o)' = "idle" => row'[o].st = "completed" \/ Refused(o)'
    <3>1. CASE ans = "refused"
      <4>1. act'[<<a[1], o>>].at = "sent" /\ act'[<<a[1], o>>].ans = "refused"
        BY <1>3, <1>5, <3>1 DEF Replied
      <4> QED BY <1>3, <4>1, RefusedAgain
    <3>2. CASE ans # "refused"
      BY <1>10, <1>12, <3>2
    <3> QED BY <3>1, <3>2
  <2>4. \A d, e \in Calls : Owns(d, o)' /\ Owns(e, o)' => d = e
    BY <1>3, <1>6 DEF CalmAt, Held
  <2> QED BY <1>8, <2>1, <2>2, <2>3, <2>4 DEF Held
<1>16. LoopCalm(a[1], o)'
  <2>1. ans = "rejected" /\ row'[o].st \in Unresolved =>
          Answered(o)' = "rejected" \/ (Answered(o)' # "accepted" /\ ~Unserved(o)')
    BY <1>6, <1>10, <1>12 DEF Unresolved
  <2> QED BY <1>2, <1>3, <1>5, <2>1 DEF LoopCalm, Replied
<1>17. \A s \in Services : LoopCalm(s, o)'
  BY <1>16, OneLoop
<1> QED BY <1>13, <1>14, <1>15, <1>17 DEF CalmAt

LEMMA HostedCalm ==
  ASSUME IInv, IInv', QueueCalm, OneService, NEW a \in Actors, NEW x, NEW o \in Ops, NEW n \in Numbers,
         NEW ans \in Heard \ {"sent"}, Replied(a, x, o, n, ans), Hosted(o, n, ans),
         UNCHANGED <<row, late>>
  PROVE  QueueCalm'
<1>1. ASSUME o \in Queue
      PROVE  CalmAt(o)' /\ \A s \in Services : LoopCalm(s, o)'
  <2>1. CASE a \in Calls
    <3>1. n = 0
      BY <2>1 DEF Replied, IInv, Placed, CallPlaced
    <3> QED BY <1>1, <2>1, <3>1, CallAnswered
  <2>2. CASE a \in Loops
    BY <1>1, <2>2, LoopAnswered
  <2> QED BY <2>1, <2>2 DEF Actors
<1> QED BY <1>1, ToldCalm

LEMMA ToldReplied ==
  ASSUME IInv, NEW a \in Actors, Sent(a), NEW ans \in Answers, Told(a, ans)
  PROVE  \E x : Replied(a, x, act[a].op, act[a].k, ans)
BY ToldParts DEF Replied, Sent

LEMMA ServeCalm ==
  ASSUME IInv, IInv', QueueCalm, OneService, NEW a \in Actors, Serve(a)
  PROVE  QueueCalm'
<1>1. PICK o, n : o = act[a].op /\ n = act[a].k
  OBVIOUS
<1>2. Sent(a) /\ IdOf(a) = <<o, n>> /\ UNCHANGED <<row, late>> /\ Continues(<<o, n>>)
  BY <1>1 DEF Serve, IdOf
<1>3. o \in Ops /\ n \in Numbers /\ <<o, n>> \in Ids
  BY <1>1, <1>2, SentParts
<1>4. PICK ans : ans = IF ledger'[<<o, n>>] = "accepted" THEN "accepted" ELSE "rejected"
  OBVIOUS
<1>5. Told(a, ans)
  BY <1>2, <1>4 DEF Serve
<1>6. ans \in Answers /\ ans \in Heard \ {"sent"}
  BY <1>4 DEF Answers, Heard
<1>7. PICK x : Replied(a, x, o, n, ans)
  BY <1>1, <1>2, <1>5, <1>6, ToldReplied
<1>8. Hosted(o, n, ans)
  <2>1. <<o, n>>[1] = o
    OBVIOUS
  <2>2. /\ \A i \in Ids : i # <<o, n>> => ledger'[i] = ledger[i]
        /\ \A p \in Ops : p # o => turns'[p] = turns[p]
        /\ \/ /\ turns' = turns
              /\ \/ ledger'[<<o, n>>] = ledger[<<o, n>>]
                 \/ ledger[<<o, n>>] = "none" /\ ledger'[<<o, n>>] = "rejected"
              /\ ledger[<<o, n>>] \notin {"accepted", "idle"} => ledger'[<<o, n>>] = "rejected"
           \/ /\ ledger[<<o, n>>] \notin {"accepted", "rejected"} /\ ledger'[<<o, n>>] = "accepted"
              /\ turns'[o] <= turns[o] + 1
    BY <1>2, <1>3, <2>1, ContinuesParts
  <2> QED BY <1>4, <2>2 DEF Hosted
<1> QED BY <1>2, <1>3, <1>6, <1>7, <1>8, HostedCalm

LEMMA RefuseCalm ==
  ASSUME IInv, IInv', QueueCalm, OneService, NEW a \in Actors, Refuse(a)
  PROVE  QueueCalm'
<1>1. PICK o, n : o = act[a].op /\ n = act[a].k
  OBVIOUS
<1>2. /\ Sent(a) /\ Told(a, "refused") /\ UNCHANGED <<row, late, turns>>
      /\ ledger[<<o, n>>] \in {"none", "idle"} /\ ledger' = [ledger EXCEPT ![<<o, n>>] = "idle"]
  BY <1>1 DEF Refuse, IdOf
<1>3. o \in Ops /\ n \in Numbers /\ <<o, n>> \in Ids
  BY <1>1, <1>2, SentParts DEF IdOf
<1>4. "refused" \in Answers /\ "refused" \in Heard \ {"sent"}
  BY DEF Answers, Heard
<1>5. PICK x : Replied(a, x, o, n, "refused")
  BY <1>1, <1>2, <1>4, ToldReplied
<1>6. Hosted(o, n, "refused")
  BY <1>2, <1>3, TypeParts DEF Hosted
<1> QED BY <1>2, <1>3, <1>4, <1>5, <1>6, HostedCalm

\* What is not calm never gets calm again, and only an untroubled step leaves it calm.
LEMMA CalmBefore ==
  ASSUME IInv, Next, Calm'
  PROVE  /\ Calm /\ ~Replace /\ ~Crash
         /\ \A a \in Actors : ~ServeUnheard(a) /\ ~Drop(a)
<1>1. /\ faults.lost \in Nat /\ faults.crashes \in Nat /\ faults.others \in Nat /\ gen \in Nat
      /\ gen >= 1 /\ faults \in [lost : Nat, crashes : Nat, others : Nat]
  BY TypeParts
<1>2. faults'.lost = 0 /\ faults'.crashes = 0 /\ gen' = 1
  BY DEF Calm
<1>3. ~Replace
  BY <1>1, <1>2 DEF Replace
<1>4. ~Crash
  <2>1. Crash => faults'.crashes = faults.crashes + 1
    BY <1>1 DEF Crash
  <2> QED BY <1>1, <1>2, <2>1
<1>5. ASSUME NEW a \in Actors
      PROVE  ~ServeUnheard(a) /\ ~Drop(a)
  <2>1. ServeUnheard(a) \/ Drop(a) => faults'.lost = faults.lost + 1
    BY <1>1 DEF ServeUnheard, Drop
  <2> QED BY <1>1, <1>2, <2>1
<1>6. UNCHANGED <<gen, faults>> \/ OtherTurn
  <2>1. ASSUME NEW s \in Services, Start(s) \/ Inventory(s) \/ Resume(s)
        PROVE  UNCHANGED <<gen, faults>>
    BY <2>1 DEF Start, Inventory, Resume, host
  <2>2. ASSUME NEW a \in Loops, LoopStep(a)
        PROVE  UNCHANGED <<gen, faults>>
    BY <2>2 DEF LoopStep, Top, Rebind, Read, Claim, Dispatched, host
  <2>3. ASSUME NEW c \in Calls, Request(c) \/ CallStep(c)
        PROVE  UNCHANGED <<gen, faults>>
    BY <2>3 DEF Request, Begin, CallStep, Resolve, Reserve, Enqueue, Answer, host
  <2>4. ASSUME NEW a \in Actors, Serve(a) \/ Refuse(a)
        PROVE  UNCHANGED <<gen, faults>>
    BY <2>4 DEF Serve, Refuse
  <2>5. ServeLate \/ ThreadEnds => UNCHANGED <<gen, faults>>
    BY DEF ServeLate, ThreadEnds
  <2> QED BY <1>3, <1>4, <1>5, <2>1, <2>2, <2>3, <2>4, <2>5 DEF Next
<1>7. OtherTurn => gen' = gen /\ faults'.lost = faults.lost /\ faults'.crashes = faults.crashes
  BY <1>1 DEF OtherTurn
<1>8. Calm
  BY <1>2, <1>6, <1>7 DEF Calm
<1> QED BY <1>3, <1>4, <1>5, <1>8

LEMMA NextCalm ==
  ASSUME IInv, IInv', CalmInv, OneService, Next
  PROVE  CalmInv'
<1> SUFFICES ASSUME Calm'
             PROVE  QueueCalm'
  BY DEF CalmInv
<1>1. /\ Calm /\ ~Replace /\ ~Crash
      /\ \A a \in Actors : ~ServeUnheard(a) /\ ~Drop(a)
  BY CalmBefore
<1>2. QueueCalm /\ gen = 1
  BY <1>1 DEF CalmInv, Calm
<1>3. ASSUME NEW s \in Services, Start(s) \/ Inventory(s) \/ Resume(s)
      PROVE  QueueCalm'
  <2>1. CASE Start(s)
    BY <1>2, <2>1, ListCalm DEF Start
  <2>2. CASE Inventory(s)
    BY <1>2, <2>2, StillCalm DEF Inventory, host
  <2>3. CASE Resume(s)
    BY <1>2, <2>3, ListCalm DEF Resume
  <2> QED BY <1>3, <2>1, <2>2, <2>3
<1>4. ASSUME NEW a \in Loops, LoopStep(a)
      PROVE  QueueCalm'
  <2>1. ~Rebind(a)
    BY <1>2, LoopCalmParts DEF Rebind
  <2> QED BY <1>2, <1>4, <2>1, TopCalm, ReadCalm, ClaimCalm, DispatchedCalm DEF LoopStep
<1>5. ASSUME NEW c \in Calls, Request(c) \/ CallStep(c)
      PROVE  QueueCalm'
  <2>1. CASE Request(c)
    BY <1>2, <2>1, BeginCalm DEF Request
  <2>2. CASE CallStep(c)
    BY <1>2, <2>2, ResolveCalm, ReserveCalm, EnqueueCalm, AnswerCalm DEF CallStep
  <2> QED BY <1>5, <2>1, <2>2
<1>6. ASSUME NEW a \in Actors, Serve(a) \/ Refuse(a)
      PROVE  QueueCalm'
  BY <1>2, <1>6, ServeCalm, RefuseCalm
<1>7. ~ServeLate
  BY <1>2 DEF ServeLate, QueueCalm
<1>8. CASE ThreadEnds \/ OtherTurn
  BY <1>2, <1>8, StillCalm DEF ThreadEnds, OtherTurn
<1> QED BY <1>1, <1>3, <1>4, <1>5, <1>6, <1>7, <1>8 DEF Next

LEMMA InitCalm ==
  ASSUME Init
  PROVE  QueueCalm
<1>1. /\ \A o \in Ops : row[o] = NoRow /\ turns[o] = 0
      /\ \A i \in Ids : ledger[i] = "none"
      /\ late = {}
  BY DEF Init
<1>2. NoRow.st = "none" /\ NoRow.gen = 0 /\ NoRow.attempt = 0
  BY DEF NoRow
<1>3. \A c \in Calls : act[c].at = "new"
  BY InitActs
<1>4. \A s \in Services, o \in Ops : act[<<s, o>>].at = "off"
  <2>1. ASSUME NEW s \in Services, NEW o \in Ops
        PROVE  act[<<s, o>>].at = "off"
    <3>1. <<s, o>> \in Loops /\ <<s, o>>[1] = s /\ <<s, o>>[2] = o
      BY Names
    <3>2. act[<<s, o>>] = Off(s, o)
      BY <3>1, InitActs
    <3> QED BY <3>2, OffParts
  <2> QED BY <2>1
<1>5. \A c \in Calls : CallCalm(c)
  BY <1>3 DEF CallCalm
<1>6. ASSUME NEW o \in Queue
      PROVE  RowCalm(o) /\ Attempted(o) /\ Held(o) /\ \A s \in Services : LoopCalm(s, o)
  <2>1. o \in Ops /\ row[o].st = "none" /\ row[o].attempt = 0 /\ turns[o] = 0
    BY <1>1, <1>2, Names
  <2>2. \A k \in Numbers : ledger[<<o, k>>] = "none"
    BY <1>1, <2>1 DEF Ids, Numbers
  <2>3. Answered(o) = "none"
    BY <2>1, <2>2, Names DEF Answered
  <2>4. ~Unserved(o) /\ \A c \in Calls : ~Owns(c, o)
    BY <1>3 DEF Unserved, Sent, Owns
  <2>5. RowCalm(o) /\ Attempted(o)
    BY <2>1, <2>2, <2>3, <2>4 DEF RowCalm, Attempted, Unresolved
  <2>6. Held(o)
    BY <2>1, <2>3, <2>4 DEF Held, Unresolved
  <2>7. \A s \in Services : LoopCalm(s, o)
    BY <1>4, <2>1 DEF LoopCalm
  <2> QED BY <2>5, <2>6, <2>7
<1> QED BY <1>1, <1>2, <1>5, <1>6 DEF QueueCalm

LEMMA CalmKept ==
  ASSUME OneService
  PROVE  Spec => []CalmInv
<1>1. Init => CalmInv
  BY InitCalm DEF CalmInv
<1>2. CalmInv /\ UNCHANGED vars => CalmInv'
  BY DEF CalmInv, Calm, QueueCalm, CallCalm, RowCalm, Attempted, Held, LoopCalm, Answered, Unserved,
         Owns, Requeues, LoopHolds, Refused, Sent, vars
<1>3. IInv /\ IInv' /\ CalmInv /\ [Next]_vars => CalmInv'
  BY <1>2, NextCalm
<1> QED BY <1>1, <1>3, Kept, PTL DEF Spec

\* A queued message has one turn as long as nothing is lost, nobody dies and the runtime
\* stays, if one service dispatches it: with the two that the server runs it may have a
\* second turn without any fault.  A message that its request sends has none in any case.
THEOREM QueuedSendsOnce ==
  ASSUME OneService
  PROVE  Spec => []NoSecondTurn
<1>1. IInv /\ CalmInv => NoSecondTurn
  <2> SUFFICES ASSUME IInv, CalmInv
               PROVE  NoSecondTurn
    OBVIOUS
  <2>1. ASSUME Calm, NEW o \in Queue
        PROVE  turns[o] <= 1
    <3>1. turns[o] \in 0 .. 3
      BY TypeParts, Names
    <3>2. turns[o] <= IF Answered(o) = "accepted" THEN 1 ELSE 0
      BY <2>1 DEF CalmInv, QueueCalm, Held
    <3> QED BY <3>1, <3>2
  <2> QED BY <2>1 DEF IInv, DirectOnce, NoSecondTurn, Calm
<1> QED BY <1>1, Kept, CalmKept, PTL

=================================================================================
