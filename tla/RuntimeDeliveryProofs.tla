------------------------- MODULE RuntimeDeliveryProofs -------------------------
(***************************************************************************)
(* Proofs about RuntimeDelivery, for every set of sockets, every bound and *)
(* every history of crashes, lost connections, restarts and suspensions:   *)
(* the types, the agreement of the journal file with the row, what a clean *)
(* exit means, that delivery implements the event ledger, and that no      *)
(* event is refused unless the runtime was still starting.                 *)
(*                                                                         *)
(* Memory, file and row are three views of one sequence of events, here w: *)
(* everything written so far followed by what memory has not saved yet.    *)
(***************************************************************************)
EXTENDS RuntimeDelivery, SequenceTheorems, FunctionTheorems, FiniteSetTheorems, TLAPS

Bodies == Lifecycles \cup {"other"}
Links == [up : Seq(Messages), down : Seq(Messages),
          phase : {"free", "open", "active", "orphan"}, closing : BOOLEAN]
Rows == [last : Nat, lifecycle : Lifecycles, conn : ConnectionStates,
         session : Conns \cup {NoSession}]

-------------------------------------------------------------------------------
\* The inductive invariant.

\* Events are numbered by their place, have rising identifiers, and a "stopped" comes
\* right after a "stopping".
Chain(w, m) ==
  /\ \A n \in 1..Len(w) : /\ w[n].seq = n /\ w[n].id <= m
                          /\ w[n].body = "stopped" => n > 1 /\ w[n - 1].body = "stopping"
  /\ \A k, n \in 1..Len(w) : k < n => w[k].id < w[n].id

\* A journal holds the end of w, from its watermark on.
Holds(j, w) ==
  /\ Len(w) = j.acked + Len(j.events)
  /\ \A i \in 1..Len(j.events) : j.events[i] = w[j.acked + i]

Prefix(p, w) == Len(p) <= Len(w) /\ \A n \in 1..Len(p) : p[n] = w[n]

\* A shutdown that began ends with "stopped".
Terminal(w, md) == md # "run" => Len(w) > 0 /\ w[Len(w)].body = "stopped"

Extends(w, j, p, m, md) ==
  Chain(w, m) /\ Holds(j, w) /\ Prefix(p, w) /\ j.acked <= Len(p) /\ Terminal(w, md)

\* The journal in memory and in the file.
JournalInv ==
  /\ Holds(disk, produced)
  /\ \E w \in Seq(Events) : Extends(w, journal, produced, minted, mode)
  /\ pc \notin {"saving", "exited"} => journal = disk
  /\ pc = "awaiting" => journal.events # <<>>

\* The row r and its events lg are a prefix of the events p that were written.
Stored(r, lg, p) ==
  /\ r.last <= Len(p)
  /\ lg = {p[n] : n \in 1..r.last}
  /\ r.last > 0 /\ p[r.last].body \in Lifecycles => r.lifecycle = p[r.last].body
  /\ r.lifecycle = "stopped" => r.last > 0 /\ p[r.last].body = "stopped"

ServerInv ==
  /\ Stored(row, ledger, produced)
  /\ disk.acked <= row.last /\ journal.acked <= row.last
  /\ exit = "ok" => row.lifecycle = "stopped"

\* What is under way to the server, and the socket's state that goes with it.
Sent(l, p, r) ==
  /\ l.phase \in {"open", "orphan"} =>
       /\ l.up # <<>> => Len(l.up) = 1 /\ l.up[1].type = "register"
       /\ \A k \in 1..Len(l.down) : l.down[k].type = "close"
  /\ l.phase \in {"active", "free"} =>
       \A k \in 1..Len(l.up) :
         /\ l.up[k].type = "event" /\ l.up[k].event.seq \in 1..Len(p)
         /\ l.up[k].event.seq <= r.last + 1
         /\ l.up[k].event = p[l.up[k].event.seq]

\* What is under way to the client.
Told(l, r) ==
  \A k \in 1..Len(l.down) :
    /\ l.down[k].type \in {"registered", "accepted"} => l.down[k].seq <= r.last
    /\ l.down[k] = Close(1000) => r.lifecycle = "stopped"

LinkOK(l, p, r) == l \in Links /\ Sent(l, p, r) /\ Told(l, r)
LinkInv == \A c \in Conns : LinkOK(link[c], produced, row)

\* Where the client stands with its connection.
ClientInv ==
  /\ pc \in {"registering", "sending", "awaiting", "ready"} => conn # NoConn
  /\ pc \in {"saving", "sending", "awaiting", "ready"} /\ conn # NoConn
       => link[conn].phase \in {"active", "free"}
  /\ pc = "down" => mode = "run" /\ conn = NoConn

Inv == TypeOK /\ JournalInv /\ ServerInv /\ LinkInv /\ ClientInv

-------------------------------------------------------------------------------
\* Journals.

LEMMA FunctionIsSeq ==
  ASSUME NEW S, NEW n \in Nat, NEW f \in [1..n -> S]
  PROVE  f \in Seq(S) /\ Len(f) = n
OBVIOUS

\* What is left of a sequence when its first k elements are dropped.
LEMMA Dropped ==
  ASSUME NEW S, NEW s \in Seq(S), NEW k \in 0..Len(s)
  PROVE  /\ SubSeq(s, k + 1, Len(s)) \in Seq(S) /\ Len(SubSeq(s, k + 1, Len(s))) = Len(s) - k
         /\ \A i \in 1 .. Len(s) - k : SubSeq(s, k + 1, Len(s))[i] = s[k + i]
<1> DEFINE n == Len(s)
           t == SubSeq(s, k + 1, n)
<1>1. n \in Nat /\ k \in Nat /\ k <= n /\ \A i \in k + 1 .. n : s[i] \in S
  OBVIOUS
<1>2. k + 1 \in Int /\ n \in Int
  BY <1>1
<1>3. /\ t \in Seq(S) /\ Len(t) = IF k + 1 <= n THEN n - (k + 1) + 1 ELSE 0
      /\ \A i \in 1 .. n - (k + 1) + 1 : t[i] = s[k + 1 + i - 1]
  BY <1>1, <1>2, SubSeqProperties
<1> HIDE DEF n, t
<1>4. /\ (IF k + 1 <= n THEN n - (k + 1) + 1 ELSE 0) = n - k /\ n - (k + 1) + 1 = n - k
      /\ \A i \in 1 .. n - k : k + 1 + i - 1 = k + i
  BY <1>1
<1>5. t \in Seq(S) /\ Len(t) = n - k /\ \A i \in 1 .. n - k : t[i] = s[k + i]
  BY <1>3, <1>4
<1> QED BY <1>5 DEF n, t

\* Every "stopped" among new events follows a "stopping".
Paired(bodies) ==
  \A i \in 1..Len(bodies) : bodies[i] = "stopped" => i > 1 /\ bodies[i - 1] = "stopping"

LEMMA ChainGrows ==
  ASSUME NEW m \in Nat, NEW w \in Seq(Events), Chain(w, m), NEW new \in Seq(Events),
         \A i \in 1..Len(new) :
           /\ new[i].seq = Len(w) + i /\ new[i].id = m + i
           /\ new[i].body = "stopped" => i > 1 /\ new[i - 1].body = "stopping"
  PROVE  Chain(w \o new, m + Len(new))
<1> DEFINE v == w \o new
<1>1. Len(w) \in Nat /\ Len(new) \in Nat
  OBVIOUS
<1>2. \A n \in 1..Len(w) : w[n].id \in Nat /\ w[n].id <= m
  <2>1. \A n \in 1..Len(w) : w[n] \in Events
    OBVIOUS
  <2> QED BY <2>1 DEF Events, Chain
<1>3. /\ Len(v) = Len(w) + Len(new)
      /\ \A n \in 1..Len(w) : v[n] = w[n]
      /\ \A i \in 1..Len(new) : v[Len(w) + i] = new[i]
  BY <1>1, ConcatProperties
<1> HIDE DEF v
<1>4. ASSUME NEW n \in 1..Len(v), n > Len(w)
      PROVE  n - Len(w) \in 1..Len(new) /\ n = Len(w) + (n - Len(w))
  BY <1>1, <1>3, <1>4
<1>5. ASSUME NEW n \in 1..Len(v)
      PROVE  /\ v[n].seq = n /\ v[n].id <= m + Len(new)
             /\ v[n].body = "stopped" => n > 1 /\ v[n - 1].body = "stopping"
  <2>1. CASE n <= Len(w)
    <3>1. n \in 1..Len(w) /\ v[n] = w[n] /\ (n > 1 => v[n - 1] = w[n - 1])
      BY <1>1, <1>3, <2>1
    <3>2. w[n].id <= m + Len(new)
      BY <1>1, <1>2, <3>1
    <3> QED BY <3>1, <3>2 DEF Chain
  <2>2. CASE n > Len(w)
    <3> DEFINE i == n - Len(w)
    <3>1. i \in 1..Len(new) /\ n = Len(w) + i
      BY <1>4, <2>2
    <3> HIDE DEF i
    <3>2. v[n] = new[i]
      BY <1>3, <3>1
    <3>3. v[n].seq = n /\ v[n].id <= m + Len(new)
      BY <1>1, <3>1, <3>2
    <3>4. i > 1 => n > 1 /\ v[n - 1] = new[i - 1]
      <4>1. i > 1 => n > 1 /\ i - 1 \in 1..Len(new) /\ n - 1 = Len(w) + (i - 1)
        BY <1>1, <3>1
      <4> QED BY <1>3, <4>1
    <3> QED BY <3>1, <3>2, <3>3, <3>4
  <2> QED BY <1>1, <1>3, <2>1, <2>2
<1>6. ASSUME NEW k \in 1..Len(v), NEW n \in 1..Len(v), k < n
      PROVE  v[k].id < v[n].id
  <2>1. CASE n <= Len(w)
    <3>1. k \in 1..Len(w) /\ n \in 1..Len(w)
      BY <1>1, <1>3, <1>6, <2>1
    <3> QED BY <1>3, <1>6, <3>1 DEF Chain
  <2>2. CASE n > Len(w)
    <3> DEFINE i == n - Len(w)
    <3>1. i \in 1..Len(new) /\ n = Len(w) + i
      BY <1>4, <2>2
    <3>2. v[n].id = m + i
      BY <1>3, <3>1
    <3>3. CASE k <= Len(w)
      <4>1. k \in 1..Len(w)
        BY <1>1, <1>3, <3>3
      <4>2. v[k].id \in Nat /\ v[k].id <= m
        BY <1>2, <1>3, <4>1
      <4> HIDE DEF i
      <4> QED BY <3>1, <3>2, <4>2
    <3>4. CASE k > Len(w)
      <4> DEFINE h == k - Len(w)
      <4>1. h \in 1..Len(new) /\ k = Len(w) + h /\ h < i
        BY <1>1, <1>4, <1>6, <3>1, <3>4
      <4>2. v[k].id = m + h
        BY <1>3, <4>1
      <4> HIDE DEF i, h
      <4> QED BY <3>1, <3>2, <4>1, <4>2
    <3> QED BY <1>1, <1>3, <3>3, <3>4
  <2> QED BY <1>1, <1>3, <2>1, <2>2
<1>7. Chain(v, m + Len(new))
  BY <1>5, <1>6 DEF Chain
<1> QED BY <1>7 DEF v

LEMMA HoldsGrows ==
  ASSUME NEW a \in Nat, NEW es \in Seq(Events), NEW w \in Seq(Events),
         Holds([acked |-> a, events |-> es], w), NEW new \in Seq(Events)
  PROVE  Holds([acked |-> a, events |-> es \o new], w \o new)
<1>1. Len(w) \in Nat /\ Len(es) \in Nat /\ Len(new) \in Nat
  OBVIOUS
<1>2. Len(w) = a + Len(es) /\ \A i \in 1..Len(es) : es[i] = w[a + i]
  BY DEF Holds
<1>3. /\ Len(w \o new) = Len(w) + Len(new)
      /\ \A n \in 1 .. Len(w) + Len(new) :
           (w \o new)[n] = IF n <= Len(w) THEN w[n] ELSE new[n - Len(w)]
  BY ConcatProperties
<1>4. /\ Len(es \o new) = Len(es) + Len(new)
      /\ \A n \in 1 .. Len(es) + Len(new) :
           (es \o new)[n] = IF n <= Len(es) THEN es[n] ELSE new[n - Len(es)]
  BY ConcatProperties
<1>5. Len(w \o new) = a + Len(es \o new)
  BY <1>1, <1>2, <1>3, <1>4
<1>6. ASSUME NEW i \in 1 .. Len(es) + Len(new)
      PROVE  (es \o new)[i] = (w \o new)[a + i]
  <2>1. a + i \in 1 .. Len(w) + Len(new)
    BY <1>1, <1>2
  <2>2. CASE i <= Len(es)
    <3>1. i \in 1..Len(es) /\ a + i <= Len(w)
      BY <1>1, <1>2, <2>2
    <3> QED BY <1>2, <1>3, <1>4, <2>1, <3>1
  <2>3. CASE ~(i <= Len(es))
    <3>1. ~(a + i <= Len(w)) /\ (a + i) - Len(w) = i - Len(es)
      BY <1>1, <1>2, <2>3
    <3>2. (es \o new)[i] = new[i - Len(es)]
      BY <1>4, <2>3
    <3>3. (w \o new)[a + i] = new[(a + i) - Len(w)]
      BY <1>3, <2>1, <3>1
    <3> QED BY <3>1, <3>2, <3>3
  <2> QED BY <2>2, <2>3
<1> QED BY <1>4, <1>5, <1>6 DEF Holds

\* Appending to a journal appends to the sequence it is the end of.
LEMMA JournaledOK ==
  ASSUME minted \in Nat, NEW j \in Journals, NEW p \in Seq(Events), NEW w \in Seq(Events),
         Chain(w, minted), Holds(j, w), Prefix(p, w),
         NEW bodies \in Seq(Bodies), Paired(bodies)
  PROVE  /\ Journaled(j, bodies) \in Journals
         /\ Journaled(j, bodies).acked = j.acked
         /\ minted + Len(bodies) \in Nat
         /\ \E v \in Seq(Events) :
              /\ Chain(v, minted + Len(bodies)) /\ Holds(Journaled(j, bodies), v)
              /\ Prefix(p, v) /\ Len(v) = Len(w) + Len(bodies)
              /\ bodies # <<>> => v[Len(v)].body = bodies[Len(bodies)]
<1> DEFINE new == [i \in 1..Len(bodies) |->
                     [seq |-> Newest(j) + i, id |-> minted + i, body |-> bodies[i]]]
<1>1. /\ j.acked \in Nat /\ j.events \in Seq(Events)
      /\ j = [acked |-> j.acked, events |-> j.events]
  BY DEF Journals
<1>2. Len(w) \in Nat /\ Len(p) \in Nat /\ Len(bodies) \in Nat /\ Newest(j) = Len(w)
  BY <1>1 DEF Newest, Holds
<1>3. new \in Seq(Events) /\ Len(new) = Len(bodies)
  <2>1. ASSUME NEW i \in 1..Len(bodies)
        PROVE  [seq |-> Newest(j) + i, id |-> minted + i, body |-> bodies[i]] \in Events
    <3>1. bodies[i] \in Bodies /\ Newest(j) + i \in Nat /\ minted + i \in Nat
      BY <1>2
    <3> QED BY <3>1 DEF Events, Bodies
  <2>2. new \in [1..Len(bodies) -> Events]
    BY <2>1
  <2> HIDE DEF new
  <2> QED BY <1>2, <2>2, FunctionIsSeq
<1>4. \A i \in 1..Len(new) : /\ new[i].seq = Len(w) + i /\ new[i].id = minted + i
                             /\ new[i].body = bodies[i]
  BY <1>2, <1>3
<1>5. Journaled(j, bodies) = [acked |-> j.acked, events |-> j.events \o new]
  <2>1. \A x : [j EXCEPT !.events = x] = [acked |-> j.acked, events |-> x]
    BY <1>1
  <2> QED BY <2>1 DEF Journaled
<1> HIDE DEF new
<1>6. Chain(w \o new, minted + Len(bodies))
  <2>1. \A i \in 1..Len(new) :
          new[i].body = "stopped" => i > 1 /\ new[i - 1].body = "stopping"
    <3> TAKE i \in 1..Len(new)
    <3>1. i \in 1..Len(bodies) /\ (i > 1 => i - 1 \in 1..Len(new))
      BY <1>2, <1>3
    <3>2. bodies[i] = "stopped" => i > 1 /\ bodies[i - 1] = "stopping"
      BY <3>1 DEF Paired
    <3> QED BY <1>4, <3>1, <3>2
  <2> QED BY <1>3, <1>4, <2>1, ChainGrows
<1>7. Holds(Journaled(j, bodies), w \o new)
  BY <1>1, <1>3, <1>5, HoldsGrows
<1>8. /\ w \o new \in Seq(Events) /\ Len(w \o new) = Len(w) + Len(bodies)
      /\ \A n \in 1..Len(w) : (w \o new)[n] = w[n]
      /\ bodies # <<>> => (w \o new)[Len(w) + Len(bodies)] = new[Len(bodies)]
  <2>1. /\ w \o new \in Seq(Events) /\ Len(w \o new) = Len(w) + Len(new)
        /\ \A n \in 1 .. Len(w) + Len(new) :
             (w \o new)[n] = IF n <= Len(w) THEN w[n] ELSE new[n - Len(w)]
    BY <1>3, ConcatProperties
  <2>2. bodies # <<>> => Len(bodies) > 0
    OBVIOUS
  <2> QED BY <1>2, <1>3, <2>1, <2>2
<1>9. Prefix(p, w \o new)
  BY <1>2, <1>8 DEF Prefix
<1>10. bodies # <<>> => (w \o new)[Len(w \o new)].body = bodies[Len(bodies)]
  <2>1. bodies # <<>> => Len(bodies) \in 1..Len(bodies)
    OBVIOUS
  <2> QED BY <1>3, <1>4, <1>8, <2>1
<1>11. j.events \o new \in Seq(Events)
  BY <1>1, <1>3, ConcatProperties
<1>12. Journaled(j, bodies) \in Journals /\ Journaled(j, bodies).acked = j.acked
  BY <1>1, <1>5, <1>11 DEF Journals
<1>13. minted + Len(bodies) \in Nat
  BY <1>2
<1> QED BY <1>6, <1>7, <1>8, <1>9, <1>10, <1>12, <1>13

\* Acknowledging drops what is at or below the new watermark and nothing else.
LEMMA AcknowledgeOK ==
  ASSUME NEW j \in Journals, NEW w \in Seq(Events), NEW m, Chain(w, m), Holds(j, w),
         NEW s \in Nat, j.acked <= s, s <= Len(w)
  PROVE  /\ Acknowledge(j, s) \in Journals /\ Acknowledge(j, s).acked = s
         /\ Holds(Acknowledge(j, s), w)
<1> DEFINE D(n) == /\ \A i \in 1..n : j.events[i].seq <= s
                   /\ n < Len(j.events) => j.events[n + 1].seq > s
           dropped == CHOOSE n \in 0..Len(j.events) : D(n)
           d == s - j.acked
<1>1. /\ j.acked \in Nat /\ j.events \in Seq(Events) /\ Len(j.events) \in Nat
      /\ Len(w) \in Nat /\ Len(w) = j.acked + Len(j.events)
  BY DEF Journals, Holds
<1>2. d \in 0..Len(j.events) /\ s = j.acked + d
  BY <1>1
<1>3. \A i \in 1..Len(j.events) : j.events[i].seq = j.acked + i
  <2>1. \A i \in 1..Len(j.events) : j.acked + i \in 1..Len(w)
    BY <1>1
  <2> QED BY <2>1 DEF Holds, Chain
<1> HIDE DEF d
<1>4. D(d)
  <2>1. \A i \in 1..d : i \in 1..Len(j.events) /\ j.acked + i <= s
    BY <1>1, <1>2
  <2>2. d < Len(j.events) => d + 1 \in 1..Len(j.events) /\ j.acked + (d + 1) > s
    BY <1>1, <1>2
  <2> QED BY <1>3, <2>1, <2>2
<1>5. ASSUME NEW n \in 0..Len(j.events), D(n) PROVE n = d
  <2>1. CASE n < d
    <3>1. n < Len(j.events) /\ n + 1 \in 1..Len(j.events) /\ ~(j.acked + (n + 1) > s)
      BY <1>1, <1>2, <2>1
    <3> QED BY <1>3, <1>5, <3>1
  <2>2. CASE n > d
    <3>1. d + 1 \in 1..n /\ d + 1 \in 1..Len(j.events) /\ ~(j.acked + (d + 1) <= s)
      BY <1>1, <1>2, <2>2
    <3> QED BY <1>3, <1>5, <3>1
  <2> QED BY <1>1, <1>2, <2>1, <2>2
<1> HIDE DEF D
<1>6. dropped = d
  BY <1>2, <1>4, <1>5
<1>7. Acknowledge(j, s) = [acked |-> s, events |-> SubSeq(j.events, d + 1, Len(j.events))]
  <2>1. Acknowledge(j, s) = [acked |-> s, events |-> SubSeq(j.events, dropped + 1, Len(j.events))]
    BY DEF Acknowledge, D
  <2> QED BY <1>6, <2>1
<1>8. /\ SubSeq(j.events, d + 1, Len(j.events)) \in Seq(Events)
      /\ Len(SubSeq(j.events, d + 1, Len(j.events))) = Len(j.events) - d
      /\ \A i \in 1 .. Len(j.events) - d :
           SubSeq(j.events, d + 1, Len(j.events))[i] = j.events[d + i]
  BY <1>1, <1>2, Dropped
<1>9. \A i \in 1 .. Len(j.events) - d : /\ d + i \in 1..Len(j.events)
                                         /\ j.acked + (d + i) = s + i
  BY <1>1, <1>2
<1>10. Holds(Acknowledge(j, s), w)
  <2>1. Len(w) = s + (Len(j.events) - d)
    BY <1>1, <1>2
  <2>2. \A i \in 1 .. Len(j.events) - d : j.events[d + i] = w[s + i]
    BY <1>9 DEF Holds
  <2> QED BY <1>7, <1>8, <2>1, <2>2 DEF Holds
<1> QED BY <1>7, <1>8, <1>10 DEF Journals

\* A save makes the file hold everything that was written.
LEMMA SavedOK ==
  ASSUME NEW j \in Journals, NEW p \in Seq(Events), NEW w \in Seq(Events),
         Holds(j, w), Prefix(p, w), j.acked <= Len(p)
  PROVE  p \o SubSeq(j.events, Len(p) - j.acked + 1, Len(j.events)) = w
<1> DEFINE d == Len(p) - j.acked
           rest == SubSeq(j.events, d + 1, Len(j.events))
<1>1. /\ j.acked \in Nat /\ j.events \in Seq(Events) /\ Len(j.events) \in Nat
      /\ Len(w) \in Nat /\ Len(p) \in Nat
  BY DEF Journals
<1>2. Len(w) = j.acked + Len(j.events) /\ Len(p) <= Len(w)
  BY DEF Holds, Prefix
<1>3. d \in Nat /\ Len(p) = j.acked + d /\ d <= Len(j.events)
  BY <1>1, <1>2
<1>n. d \in Nat
  BY <1>3
<1> HIDE DEF d
<1>4. /\ rest \in Seq(Events) /\ Len(rest) = Len(j.events) - d
      /\ \A i \in 1 .. Len(j.events) - d : rest[i] = j.events[d + i]
  <2>1. d \in 0..Len(j.events)
    BY <1>1, <1>3
  <2> QED BY <1>1, <2>1, Dropped
<1> HIDE DEF rest
<1>5. /\ p \o rest \in Seq(Events) /\ Len(p \o rest) = Len(p) + Len(rest)
      /\ \A n \in 1 .. Len(p) + Len(rest) :
           (p \o rest)[n] = IF n <= Len(p) THEN p[n] ELSE rest[n - Len(p)]
  BY <1>4, ConcatProperties
<1>6. Len(p \o rest) = Len(w)
  <2>1. Len(rest) = Len(j.events) - d /\ Len(p \o rest) = Len(p) + Len(rest)
    BY <1>4, <1>5
  <2>2. Len(p) = j.acked + d /\ d \in Nat /\ j.acked \in Nat /\ Len(j.events) \in Nat
    BY <1>1, <1>3
  <2>3. Len(w) = j.acked + Len(j.events)
    BY <1>2
  <2> QED BY <2>1, <2>2, <2>3
<1>7. ASSUME NEW n \in 1..Len(p \o rest) PROVE (p \o rest)[n] = w[n]
  <2>1. CASE n <= Len(p)
    <3>1. n \in 1..Len(p)
      BY <1>1, <1>5, <2>1
    <3> QED BY <1>5, <2>1, <3>1 DEF Prefix
  <2>2. CASE ~(n <= Len(p))
    <3> DEFINE i == n - Len(p)
    <3>0. n \in 1 .. Len(p) + Len(rest) /\ Len(rest) = Len(j.events) - d
      BY <1>4, <1>5
    <3>1. i \in 1 .. Len(j.events) - d /\ n = Len(p) + i
      BY <1>1, <1>n, <2>2, <3>0
    <3>2. (p \o rest)[n] = rest[i]
      BY <1>5, <2>2
    <3>3. d + i \in 1..Len(j.events) /\ n = j.acked + (d + i)
      <4>1. d + i \in 1..Len(j.events)
        BY <1>1, <1>n, <3>1
      <4>2. n = j.acked + (d + i)
        BY <1>1, <1>3, <3>1
      <4> QED BY <4>1, <4>2
    <3> HIDE DEF i
    <3> QED BY <1>4, <3>1, <3>2, <3>3 DEF Holds
  <2> QED BY <2>1, <2>2
<1>8. p \o rest = w
  BY <1>5, <1>6, <1>7, SeqEqual
<1> QED BY <1>8 DEF rest, d

LEMMA PrefixSelf ==
  ASSUME NEW w \in Seq(Events) PROVE Prefix(w, w)
BY DEF Prefix

LEMMA PrefixChain ==
  ASSUME NEW p \in Seq(Events), NEW w \in Seq(Events), NEW m \in Nat, Prefix(p, w), Chain(w, m)
  PROVE  Chain(p, m)
<1>1. Len(p) \in Nat /\ Len(w) \in Nat /\ Len(p) <= Len(w)
  BY DEF Prefix
<1>2. \A n \in 1..Len(p) : n \in 1..Len(w) /\ p[n] = w[n] /\ (n > 1 => p[n - 1] = w[n - 1])
  BY <1>1 DEF Prefix
<1> QED BY <1>2 DEF Chain

\* Two events of a chain that share their number or their identifier are the same.
LEMMA ChainUnique ==
  ASSUME NEW w \in Seq(Events), NEW m \in Nat, Chain(w, m),
         NEW k \in 1..Len(w), NEW n \in 1..Len(w), w[k].id = w[n].id \/ w[k].seq = w[n].seq
  PROVE  k = n
<1>1. Len(w) \in Nat /\ w[k].id \in Nat /\ w[n].id \in Nat
  <2>1. w[k] \in Events /\ w[n] \in Events
    OBVIOUS
  <2> QED BY <2>1 DEF Events
<1>2. w[k].seq = k /\ w[n].seq = n /\ (k < n => w[k].id < w[n].id) /\ (n < k => w[n].id < w[k].id)
  BY DEF Chain
<1> QED BY <1>1, <1>2

-------------------------------------------------------------------------------
\* Links.

LEMMA CloseMessage ==
  ASSUME NEW code \in {1000, 1006, 1008, 1012}
  PROVE  Close(code) \in Messages /\ Close(code).type = "close"
BY DEF Close, Messages

LEMMA SeqMessage ==
  ASSUME NEW seq \in Nat
  PROVE  /\ Accepted(seq) \in Messages /\ Accepted(seq).type = "accepted"
         /\ Accepted(seq).seq = seq /\ Accepted(seq) # Close(1000)
         /\ RegisteredMessage(seq) \in Messages /\ RegisteredMessage(seq).type = "registered"
         /\ RegisteredMessage(seq).seq = seq /\ RegisteredMessage(seq) # Close(1000)
         /\ Registration(seq) \in Messages /\ Registration(seq).type = "register"
BY DEF Accepted, RegisteredMessage, Registration, Messages, Close

LEMMA EventIsMessage ==
  ASSUME NEW e \in Events
  PROVE  EventMessage(e) \in Messages /\ EventMessage(e).type = "event" /\ EventMessage(e).event = e
BY DEF EventMessage, Messages

LEMMA MessageTyped ==
  ASSUME NEW m \in Messages
  PROVE  /\ m.type \in {"register", "registered", "accepted"} => m.seq \in Nat
         /\ m.type = "event" => m.event \in Events
BY DEF Messages

\* A socket's record by its fields, and what updates of one, two or three do to it.
LinkOf(u, d, ph, cl) == [up |-> u, down |-> d, phase |-> ph, closing |-> cl]

LEMMA LinkFields ==
  ASSUME NEW l \in Links
  PROVE  /\ l.up \in Seq(Messages) /\ l.down \in Seq(Messages) /\ l.closing \in BOOLEAN
         /\ l.phase \in {"free", "open", "active", "orphan"}
         /\ l = LinkOf(l.up, l.down, l.phase, l.closing)
BY DEF Links, LinkOf

LEMMA SetField ==
  /\ \A u, d, ph, cl, z : [LinkOf(u, d, ph, cl) EXCEPT !.up = z] = LinkOf(z, d, ph, cl)
  /\ \A u, d, ph, cl, z : [LinkOf(u, d, ph, cl) EXCEPT !.down = z] = LinkOf(u, z, ph, cl)
  /\ \A u, d, ph, cl, z : [LinkOf(u, d, ph, cl) EXCEPT !.phase = z] = LinkOf(u, d, z, cl)
  /\ \A u, d, ph, cl, z : [LinkOf(u, d, ph, cl) EXCEPT !.closing = z] = LinkOf(u, d, ph, z)
BY DEF LinkOf

LEMMA SetDown == \A l \in Links : \A x : [l EXCEPT !.down = x] = LinkOf(l.up, x, l.phase, l.closing)
BY LinkFields, SetField

LEMMA SetUp == \A l \in Links : \A x : [l EXCEPT !.up = x] = LinkOf(x, l.down, l.phase, l.closing)
BY LinkFields, SetField

LEMMA SetClosingDown == \A l \in Links : \A x, y : [l EXCEPT !.closing = x, !.down = y] = LinkOf(l.up, y, l.phase, x)
<1> TAKE l \in Links
<1> TAKE x, y
<1> DEFINE m == [l EXCEPT !.closing = x]
<1>1. m = LinkOf(l.up, l.down, l.phase, x)
  BY LinkFields, SetField
<1>2. [m EXCEPT !.down = y] = LinkOf(l.up, y, l.phase, x)
  <2> HIDE DEF m
  <2> QED BY <1>1, SetField
<1> QED BY <1>2

LEMMA SetUpDown == \A l \in Links : \A x, y : [l EXCEPT !.up = x, !.down = y] = LinkOf(x, y, l.phase, l.closing)
<1> TAKE l \in Links
<1> TAKE x, y
<1> DEFINE m == [l EXCEPT !.up = x]
<1>1. m = LinkOf(x, l.down, l.phase, l.closing)
  BY LinkFields, SetField
<1>2. [m EXCEPT !.down = y] = LinkOf(x, y, l.phase, l.closing)
  <2> HIDE DEF m
  <2> QED BY <1>1, SetField
<1> QED BY <1>2

LEMMA SetClosingPhase == \A l \in Links : \A x, y : [l EXCEPT !.closing = x, !.phase = y] = LinkOf(l.up, l.down, y, x)
<1> TAKE l \in Links
<1> TAKE x, y
<1> DEFINE m == [l EXCEPT !.closing = x]
<1>1. m = LinkOf(l.up, l.down, l.phase, x)
  BY LinkFields, SetField
<1>2. [m EXCEPT !.phase = y] = LinkOf(l.up, l.down, y, x)
  <2> HIDE DEF m
  <2> QED BY <1>1, SetField
<1> QED BY <1>2

LEMMA SetPhaseUp == \A l \in Links : \A x, y : [l EXCEPT !.phase = x, !.up = y] = LinkOf(y, l.down, x, l.closing)
<1> TAKE l \in Links
<1> TAKE x, y
<1> DEFINE m == [l EXCEPT !.phase = x]
<1>1. m = LinkOf(l.up, l.down, x, l.closing)
  BY LinkFields, SetField
<1>2. [m EXCEPT !.up = y] = LinkOf(y, l.down, x, l.closing)
  <2> HIDE DEF m
  <2> QED BY <1>1, SetField
<1> QED BY <1>2

LEMMA ClosedDown ==
  ASSUME NEW l \in Links PROVE \A y : [l EXCEPT !.closing = TRUE, !.down = y] = LinkOf(l.up, y, l.phase, TRUE)
<1>1. \A x, y : [l EXCEPT !.closing = x, !.down = y] = LinkOf(l.up, y, l.phase, x)
  BY SetClosingDown, Zenon
<1> QED BY <1>1, Zenon

LEMMA ClosedPhase ==
  ASSUME NEW l \in Links PROVE \A y : [l EXCEPT !.closing = TRUE, !.phase = y] = LinkOf(l.up, l.down, y, TRUE)
<1>1. \A x, y : [l EXCEPT !.closing = x, !.phase = y] = LinkOf(l.up, l.down, y, x)
  BY SetClosingPhase, Zenon
<1> QED BY <1>1, Zenon

LEMMA ClosingIs ==
  ASSUME NEW l \in Links, NEW code, ~(l.closing \/ l.phase = "free")
  PROVE  \E b \in BOOLEAN :
           Closing(l, code) = LinkOf(l.up, Append(l.down, Close(code)), l.phase, b)
<1>1. Closing(l, code) = [l EXCEPT !.closing = TRUE, !.down = Append(l.down, Close(code))]
  BY DEF Closing
<1>2. \A y : [l EXCEPT !.closing = TRUE, !.down = y] = LinkOf(l.up, y, l.phase, TRUE)
  BY ClosedDown
<1>3. Closing(l, code) = LinkOf(l.up, Append(l.down, Close(code)), l.phase, TRUE)
  BY <1>1, <1>2, Zenon
<1>4. TRUE \in BOOLEAN
  OBVIOUS
<1> QED BY <1>3, <1>4, Zenon

LEMMA SetUpDownPhase ==
  \A l \in Links : \A x, y, z :
    [l EXCEPT !.up = x, !.down = y, !.phase = z] = LinkOf(x, y, z, l.closing)
<1> TAKE l \in Links
<1> TAKE x, y, z
<1> DEFINE m == [l EXCEPT !.up = x, !.down = y]
<1>1. m = LinkOf(x, y, l.phase, l.closing)
  BY SetUpDown, Zenon
<1>2. [m EXCEPT !.phase = z] = LinkOf(x, y, z, l.closing)
  <2> HIDE DEF m
  <2> QED BY <1>1, SetField
<1> QED BY <1>2

\* More was written, more was persisted, nothing stopped is started again.
Later(p, q, r, s) ==
  Prefix(p, q) /\ r.last <= s.last /\ (r.lifecycle = "stopped" => s.lifecycle = "stopped")

LEMMA LinkLater ==
  ASSUME NEW p \in Seq(Events), NEW q \in Seq(Events), NEW r \in Rows, NEW s \in Rows,
         Later(p, q, r, s), NEW l, LinkOK(l, p, r)
  PROVE  LinkOK(l, q, s)
<1>1. /\ r.last \in Nat /\ s.last \in Nat /\ r.last <= s.last /\ Len(p) \in Nat /\ Len(q) \in Nat
      /\ Len(p) <= Len(q) /\ \A n \in 1..Len(p) : p[n] = q[n]
  BY DEF Later, Prefix, Rows
<1>2. l \in Links
  BY DEF LinkOK
<1>3. Told(l, s)
  <2> SUFFICES ASSUME NEW k \in 1..Len(l.down)
               PROVE  /\ l.down[k].type \in {"registered", "accepted"} => l.down[k].seq <= s.last
                      /\ l.down[k] = Close(1000) => s.lifecycle = "stopped"
    BY DEF Told
  <2>1. /\ l.down[k].type \in {"registered", "accepted"} => l.down[k].seq <= r.last
        /\ l.down[k] = Close(1000) => r.lifecycle = "stopped"
    BY DEF LinkOK, Told
  <2>2. l.down[k] \in Messages
    BY <1>2, LinkFields
  <2>3. l.down[k].type \in {"registered", "accepted"} => l.down[k].seq \in Nat
    BY <2>2, MessageTyped
  <2>4. r.last \in Nat /\ s.last \in Nat /\ r.last <= s.last
        /\ (r.lifecycle = "stopped" => s.lifecycle = "stopped")
    BY <1>1 DEF Later
  <2> QED BY <2>1, <2>3, <2>4
<1>4. ASSUME l.phase \in {"active", "free"}, NEW k \in 1..Len(l.up)
      PROVE  /\ l.up[k].type = "event" /\ l.up[k].event.seq \in 1..Len(q)
             /\ l.up[k].event.seq <= s.last + 1
             /\ l.up[k].event = q[l.up[k].event.seq]
  <2>1. /\ l.up[k].type = "event" /\ l.up[k].event.seq \in 1..Len(p)
        /\ l.up[k].event.seq <= r.last + 1
        /\ l.up[k].event = p[l.up[k].event.seq]
    BY <1>4 DEF LinkOK, Sent
  <2>2. ASSUME NEW n \in 1..Len(p), n <= r.last + 1
        PROVE  n \in 1..Len(q) /\ n <= s.last + 1 /\ q[n] = p[n]
    BY <1>1, <2>2
  <2>3. PICK n : n = l.up[k].event.seq
    OBVIOUS
  <2> QED BY <2>1, <2>2, <2>3
<1> QED BY <1>2, <1>3, <1>4 DEF LinkOK, Sent

\* close(code) adds the close frame at most once and does nothing else.
LEMMA LinkClosing ==
  ASSUME NEW p, NEW r, NEW l, LinkOK(l, p, r),
         NEW code \in {1000, 1006, 1008, 1012}, code = 1000 => r.lifecycle = "stopped"
  PROVE  LinkOK(Closing(l, code), p, r) /\ Closing(l, code).phase = l.phase
<1>1. CASE l.closing \/ l.phase = "free"
  BY <1>1 DEF Closing
<1>2. CASE ~(l.closing \/ l.phase = "free")
  <2> DEFINE d == Append(l.down, Close(code))
             k == Closing(l, code)
  <2>1. l \in Links /\ Close(code) \in Messages /\ Close(code).type = "close"
    BY CloseMessage DEF LinkOK
  <2>2. PICK b \in BOOLEAN : k = LinkOf(l.up, d, l.phase, b)
    BY <1>2, <2>1, ClosingIs
  <2>3. /\ d \in Seq(Messages) /\ Len(d) = Len(l.down) + 1 /\ Len(l.down) \in Nat
        /\ \A i \in 1..Len(l.down) : d[i] = l.down[i]
        /\ d[Len(l.down) + 1] = Close(code)
    BY <2>1, LinkFields, AppendProperties
  <2> HIDE DEF d, k
  <2>f. k.up = l.up /\ k.down = d /\ k.phase = l.phase
    BY <2>2 DEF LinkOf
  <2>4. ASSUME NEW i \in 1..Len(d) PROVE i \in 1..Len(l.down) \/ i = Len(l.down) + 1
    BY <2>3
  <2>5. k \in Links
    BY <2>1, <2>2, <2>3, LinkFields DEF Links, LinkOf
  <2>6. Close(code) = Close(1000) => code = 1000
    BY DEF Close
  <2>t. Told(l, r) /\ Sent(l, p, r)
    BY DEF LinkOK
  <2>7. Told(k, r)
    <3>1. ASSUME NEW i \in 1..Len(d)
          PROVE  /\ d[i].type \in {"registered", "accepted"} => d[i].seq <= r.last
                 /\ d[i] = Close(1000) => r.lifecycle = "stopped"
      <4>1. CASE i \in 1..Len(l.down) BY <2>3, <2>t, <4>1 DEF Told
      <4>2. CASE i = Len(l.down) + 1 BY <2>1, <2>3, <2>6, <4>2
      <4> QED BY <2>4, <4>1, <4>2
    <3> QED BY <2>f, <3>1 DEF Told
  <2>8. Sent(k, p, r)
    <3>1. ASSUME l.phase \in {"open", "orphan"}, NEW i \in 1..Len(d) PROVE d[i].type = "close"
      <4>1. CASE i \in 1..Len(l.down) BY <2>3, <2>t, <3>1, <4>1 DEF Sent
      <4>2. CASE i = Len(l.down) + 1 BY <2>1, <2>3, <4>2
      <4> QED BY <2>4, <4>1, <4>2
    <3>2. /\ k.phase \in {"open", "orphan"} =>
               /\ k.up # <<>> => Len(k.up) = 1 /\ k.up[1].type = "register"
               /\ \A i \in 1..Len(k.down) : k.down[i].type = "close"
      BY <2>f, <2>t, <3>1 DEF Sent
    <3>3. k.phase \in {"active", "free"} =>
            \A i \in 1..Len(k.up) :
              /\ k.up[i].type = "event" /\ k.up[i].event.seq \in 1..Len(p)
              /\ k.up[i].event.seq <= r.last + 1
              /\ k.up[i].event = p[k.up[i].event.seq]
      BY ONLY <2>f, <2>t DEF Sent
    <3> QED BY ONLY <3>2, <3>3 DEF Sent
  <2> QED BY <2>5, <2>7, <2>8, <2>f DEF LinkOK, k
<1> QED BY <1>1, <1>2

\* Reading from either end, losing what was not read, and forgetting a socket.
LEMMA LinkTail ==
  ASSUME NEW p, NEW r, NEW l, LinkOK(l, p, r), l.down # <<>>
  PROVE  LinkOK([l EXCEPT !.down = Tail(@)], p, r)
<1> DEFINE d == Tail(l.down)
<1>1. l \in Links /\ l.down \in Seq(Messages)
  BY LinkFields DEF LinkOK
<1>2. /\ d \in Seq(Messages) /\ Len(d) = Len(l.down) - 1 /\ Len(l.down) \in Nat
      /\ \A i \in 1..Len(d) : d[i] = l.down[i + 1]
  BY <1>1, HeadTailProperties
<1> HIDE DEF d
<1>3. \A i \in 1..Len(d) : i + 1 \in 1..Len(l.down)
  BY <1>2
<1> DEFINE k == [l EXCEPT !.down = d]
<1>4. k = LinkOf(l.up, d, l.phase, l.closing)
  BY <1>1, SetDown, SetUp
<1>5. k \in Links
  BY <1>1, <1>2, <1>4, LinkFields DEF Links, LinkOf
<1>6. Told(k, r)
  BY <1>2, <1>3, <1>4 DEF LinkOK, Told, LinkOf
<1>7. Sent(k, p, r)
  BY <1>2, <1>3, <1>4 DEF LinkOK, Sent, LinkOf
<1> QED BY <1>5, <1>6, <1>7 DEF LinkOK, d

LEMMA LinkMute ==
  ASSUME NEW p, NEW r, NEW l, LinkOK(l, p, r)
  PROVE  LinkOK([l EXCEPT !.down = <<>>], p, r)
<1> DEFINE k == [l EXCEPT !.down = <<>>]
<1>1. l \in Links /\ k = LinkOf(l.up, <<>>, l.phase, l.closing)
  BY SetDown, SetUp DEF LinkOK
<1>2. k \in Links
  <2>1. <<>> \in Seq(Messages)
    OBVIOUS
  <2> QED BY <1>1, <2>1, LinkFields DEF Links, LinkOf
<1>3. Told(k, r) /\ Sent(k, p, r)
  BY <1>1 DEF LinkOK, Told, Sent, LinkOf
<1> QED BY <1>2, <1>3 DEF LinkOK

LEMMA LinkFreed ==
  ASSUME NEW p, NEW r, NEW l, LinkOK(l, p, r)
  PROVE  LinkOK([FreeLink EXCEPT !.down = l.down], p, r)
<1> DEFINE k == [FreeLink EXCEPT !.down = l.down]
<1>1. l \in Links /\ k = LinkOf(<<>>, l.down, "free", FALSE)
  <2>1. FreeLink \in Links /\ FreeLink = LinkOf(<<>>, <<>>, "free", FALSE)
    <3>1. <<>> \in Seq(Messages)
      OBVIOUS
    <3> QED BY <3>1 DEF FreeLink, Links, LinkOf
  <2>2. k = LinkOf(<<>>, l.down, "free", FALSE)
    <3>1. k = LinkOf(FreeLink.up, l.down, FreeLink.phase, FreeLink.closing)
      BY <2>1, SetDown, SetUp
    <3>2. FreeLink.up = <<>> /\ FreeLink.phase = "free" /\ FreeLink.closing = FALSE
      BY DEF FreeLink
    <3> QED BY <3>1, <3>2
  <2> QED BY <2>2 DEF LinkOK
<1>2. k \in Links
  <2>1. <<>> \in Seq(Messages)
    OBVIOUS
  <2> QED BY <1>1, <2>1, LinkFields DEF Links, LinkOf
<1>3. Told(k, r) /\ Sent(k, p, r)
  BY <1>1 DEF LinkOK, Told, Sent, LinkOf
<1> QED BY <1>2, <1>3 DEF LinkOK

LEMMA LinkPop ==
  ASSUME NEW p, NEW r, NEW l, LinkOK(l, p, r), l.up # <<>>
  PROVE  LinkOK([l EXCEPT !.up = Tail(@)], p, r)
<1> DEFINE u == Tail(l.up)
<1>1. l \in Links /\ l.up \in Seq(Messages)
  BY LinkFields DEF LinkOK
<1>2. /\ u \in Seq(Messages) /\ Len(u) = Len(l.up) - 1 /\ Len(l.up) \in Nat
      /\ \A i \in 1..Len(u) : u[i] = l.up[i + 1]
  BY <1>1, HeadTailProperties
<1>3. Len(l.up) = 1 => u = <<>>
  <2>1. Len(l.up) = 1 => Len(u) = 0
    BY <1>2
  <2>2. u \in Seq(Messages)
    BY <1>2
  <2> HIDE DEF u
  <2> QED BY <2>1, <2>2
<1> HIDE DEF u
<1>4. \A i \in 1..Len(u) : i + 1 \in 1..Len(l.up)
  BY <1>2
<1> DEFINE k == [l EXCEPT !.up = u]
<1>5. k = LinkOf(u, l.down, l.phase, l.closing)
  BY <1>1, SetDown, SetUp
<1>6. k \in Links
  BY <1>1, <1>2, <1>5, LinkFields DEF Links, LinkOf
<1>7. Told(k, r)
  BY <1>5 DEF LinkOK, Told, LinkOf
<1>8. Sent(k, p, r)
  BY <1>2, <1>3, <1>4, <1>5 DEF LinkOK, Sent, LinkOf
<1> QED BY <1>6, <1>7, <1>8 DEF LinkOK, u

\* The server answers on a socket whose registration it has processed.
LEMMA LinkAnswer ==
  ASSUME NEW p, NEW r, NEW l, LinkOK(l, p, r), l.phase \in {"active", "free"},
         NEW m \in Messages, m.type \in {"registered", "accepted"}, m.seq <= r.last,
         m # Close(1000)
  PROVE  LinkOK([l EXCEPT !.down = Append(@, m)], p, r)
<1> DEFINE d == Append(l.down, m)
<1>1. l \in Links /\ l.down \in Seq(Messages)
  BY LinkFields DEF LinkOK
<1>2. /\ d \in Seq(Messages) /\ Len(d) = Len(l.down) + 1 /\ Len(l.down) \in Nat
      /\ \A i \in 1..Len(l.down) : d[i] = l.down[i]
      /\ d[Len(l.down) + 1] = m
  BY <1>1, AppendProperties
<1> HIDE DEF d
<1>3. ASSUME NEW i \in 1..Len(d) PROVE i \in 1..Len(l.down) \/ i = Len(l.down) + 1
  BY <1>2
<1> DEFINE k == [l EXCEPT !.down = d]
<1>4. k = LinkOf(l.up, d, l.phase, l.closing)
  BY <1>1, SetDown, SetUp
<1>5. k \in Links
  BY <1>1, <1>2, <1>4, LinkFields DEF Links, LinkOf
<1>6. Told(k, r)
  BY <1>2, <1>3, <1>4 DEF LinkOK, Told, LinkOf
<1>7. Sent(k, p, r)
  BY <1>4 DEF LinkOK, Sent, LinkOf
<1> QED BY <1>5, <1>6, <1>7 DEF LinkOK, d

\* The client sends an event that was written and is next at the latest.
LEMMA LinkSend ==
  ASSUME NEW p, NEW r, NEW l, LinkOK(l, p, r), l.phase \in {"active", "free"},
         NEW e \in Events, e.seq \in 1..Len(p), e.seq <= r.last + 1, e = p[e.seq]
  PROVE  LinkOK([l EXCEPT !.up = Append(@, EventMessage(e))], p, r)
<1> DEFINE m == EventMessage(e)
           u == Append(l.up, m)
<1>1. /\ l \in Links /\ l.up \in Seq(Messages)
      /\ m \in Messages /\ m.type = "event" /\ m.event = e
  BY LinkFields, EventIsMessage DEF LinkOK
<1> HIDE DEF m
<1>2. /\ u \in Seq(Messages) /\ Len(u) = Len(l.up) + 1 /\ Len(l.up) \in Nat
      /\ \A i \in 1..Len(l.up) : u[i] = l.up[i]
      /\ u[Len(l.up) + 1] = m
  BY <1>1, AppendProperties
<1> HIDE DEF u
<1>3. ASSUME NEW i \in 1..Len(u) PROVE i \in 1..Len(l.up) \/ i = Len(l.up) + 1
  BY <1>2
<1> DEFINE k == [l EXCEPT !.up = u]
<1>4. k = LinkOf(u, l.down, l.phase, l.closing)
  BY <1>1, SetDown, SetUp
<1>5. k \in Links
  BY <1>1, <1>2, <1>4, LinkFields DEF Links, LinkOf
<1>6. Told(k, r)
  BY <1>4 DEF LinkOK, Told, LinkOf
<1>7. ASSUME NEW i \in 1..Len(u)
      PROVE  /\ u[i].type = "event" /\ u[i].event.seq \in 1..Len(p)
             /\ u[i].event.seq <= r.last + 1 /\ u[i].event = p[u[i].event.seq]
  <2>1. CASE i \in 1..Len(l.up)
    BY <1>2, <2>1 DEF LinkOK, Sent, LinkOf
  <2>2. CASE i = Len(l.up) + 1
    BY <1>1, <1>2, <2>2
  <2> QED BY <1>3, <2>1, <2>2
<1>8. Sent(k, p, r)
  BY <1>4, <1>7 DEF Sent, LinkOf
<1> QED BY <1>5, <1>6, <1>8 DEF LinkOK, m, u

\* The server reads a message and answers it.
LEMMA LinkReply ==
  ASSUME NEW p, NEW r, NEW l, LinkOK(l, p, r), l.up # <<>>,
         NEW d, LinkOK([l EXCEPT !.down = d], p, r)
  PROVE  LinkOK(LinkOf(Tail(l.up), d, l.phase, l.closing), p, r)
<1>1. l \in Links
  BY DEF LinkOK
<1> DEFINE m == [l EXCEPT !.down = d]
<1>2. m = LinkOf(l.up, d, l.phase, l.closing)
  BY <1>1, SetDown
<1>3. m.up = l.up /\ m.down = d /\ m.phase = l.phase /\ m.closing = l.closing
  BY <1>2 DEF LinkOf
<1>4. m \in Links /\ LinkOK(m, p, r)
  BY DEF LinkOK
<1> HIDE DEF m
<1>5. LinkOK([m EXCEPT !.up = Tail(m.up)], p, r)
  BY <1>3, <1>4, LinkPop
<1>6. [m EXCEPT !.up = Tail(m.up)] = LinkOf(Tail(l.up), d, l.phase, l.closing)
  BY <1>3, <1>4, SetUp
<1> QED BY <1>5, <1>6

\* The one message of an open socket is its registration; nothing else is answered yet.
LEMMA LinkRegistered ==
  ASSUME NEW p, NEW r, r.last \in Nat, NEW l, LinkOK(l, p, r), l.phase \in {"open", "orphan"},
         l.up # <<>>, NEW d,
         d \in {l.down, Append(l.down, RegisteredMessage(r.last))},
         NEW ph \in {"active", "free"}
  PROVE  LinkOK([l EXCEPT !.up = Tail(l.up), !.down = d, !.phase = ph], p, r)
<1> DEFINE k == LinkOf(Tail(l.up), d, ph, l.closing)
<1>1. l \in Links /\ l.up \in Seq(Messages) /\ l.down \in Seq(Messages) /\ l.closing \in BOOLEAN
  BY LinkFields DEF LinkOK
<1>2. Tail(l.up) \in Seq(Messages) /\ Len(Tail(l.up)) = 0
  <2>1. Len(l.up) = 1
    BY DEF LinkOK, Sent
  <2> QED BY <1>1, <2>1, HeadTailProperties
<1>3. Told([l EXCEPT !.down = d], r) /\ d \in Seq(Messages)
  <2>1. CASE d = l.down
    <3>1. [l EXCEPT !.down = d] = LinkOf(l.up, d, l.phase, l.closing)
      BY <1>1, SetDown
    <3> QED BY <1>1, <2>1, <3>1 DEF LinkOK, Told, LinkOf
  <2>2. CASE d = Append(l.down, RegisteredMessage(r.last))
    <3> DEFINE m == RegisteredMessage(r.last)
    <3>1. m \in Messages /\ m.seq = r.last /\ m # Close(1000)
      BY SeqMessage
    <3> HIDE DEF m
    <3>2. /\ d \in Seq(Messages) /\ Len(d) = Len(l.down) + 1 /\ Len(l.down) \in Nat
          /\ \A i \in 1..Len(l.down) : d[i] = l.down[i]
          /\ d[Len(l.down) + 1] = m
      BY <1>1, <2>2, <3>1, AppendProperties DEF m
    <3>3. ASSUME NEW i \in 1..Len(d) PROVE i \in 1..Len(l.down) \/ i = Len(l.down) + 1
      BY <3>2
    <3>4. [l EXCEPT !.down = d] = LinkOf(l.up, d, l.phase, l.closing)
      BY <1>1, SetDown
    <3> QED BY <3>1, <3>2, <3>3, <3>4 DEF LinkOK, Told, LinkOf
  <2> QED BY <2>1, <2>2
<1>4. [l EXCEPT !.down = d] = LinkOf(l.up, d, l.phase, l.closing)
  BY <1>1, SetDown
<1>5. Told(k, r) /\ k \in Links
  BY <1>1, <1>2, <1>3, <1>4 DEF Told, Links, LinkOf
<1>6. Sent(k, p, r)
  BY <1>2 DEF Sent, LinkOf
<1>7. [l EXCEPT !.up = Tail(l.up), !.down = d, !.phase = ph] = k
  BY <1>1, SetUpDownPhase, Zenon
<1> QED BY <1>5, <1>6, <1>7 DEF LinkOK

LEMMA LinkOrphaned ==
  ASSUME NEW p, NEW r, NEW l, LinkOK(l, p, r), l.phase = "open"
  PROVE  LinkOK([l EXCEPT !.closing = TRUE, !.phase = "orphan"], p, r)
<1>1. l \in Links
  BY DEF LinkOK
<1>2. PICK b \in BOOLEAN :
        [l EXCEPT !.closing = TRUE, !.phase = "orphan"] = LinkOf(l.up, l.down, "orphan", b)
  <2>1. [l EXCEPT !.closing = TRUE, !.phase = "orphan"] = LinkOf(l.up, l.down, "orphan", TRUE)
    BY <1>1, ClosedPhase
  <2>2. TRUE \in BOOLEAN
    OBVIOUS
  <2> QED BY <2>1, <2>2, Zenon
<1> DEFINE k == LinkOf(l.up, l.down, "orphan", b)
<1>3. k \in Links /\ Told(k, r) /\ Sent(k, p, r)
  BY <1>1, LinkFields DEF LinkOK, Told, Sent, Links, LinkOf
<1> QED BY <1>2, <1>3 DEF LinkOK

LEMMA LinkDialed ==
  ASSUME NEW p, NEW r, NEW seq \in Nat
  PROVE  LinkOK([FreeLink EXCEPT !.phase = "open", !.up = <<Registration(seq)>>], p, r)
<1> DEFINE k == [FreeLink EXCEPT !.phase = "open", !.up = <<Registration(seq)>>]
           g == LinkOf(<<Registration(seq)>>, FreeLink.down, "open", FreeLink.closing)
<1>0. FreeLink \in Links /\ FreeLink.down = <<>>
  <2>1. <<>> \in Seq(Messages)
    OBVIOUS
  <2> QED BY <2>1 DEF Links, FreeLink
<1>1. k = g
  BY <1>0, SetPhaseUp, Zenon
<1>2. Registration(seq) \in Messages /\ Registration(seq).type = "register"
  BY SeqMessage
<1>3. <<Registration(seq)>> \in Seq(Messages) /\ <<>> \in Seq(Messages)
  BY <1>2
<1>4. g \in Links
  BY <1>0, <1>3, LinkFields DEF Links, LinkOf
<1>5. Told(g, r) /\ Sent(g, p, r)
  BY <1>0, <1>2 DEF Told, Sent, LinkOf
<1> QED BY <1>1, <1>4, <1>5 DEF LinkOK

LEMMA LinkFree == ASSUME NEW p, NEW r PROVE LinkOK(FreeLink, p, r)
<1>1. <<>> \in Seq(Messages)
  OBVIOUS
<1> QED BY <1>1 DEF LinkOK, Links, Sent, Told, FreeLink

\* One socket changes, or all of them do.
LEMMA LinkAt ==
  ASSUME link \in [Conns -> Links], NEW p, NEW r, \A d \in Conns : LinkOK(link[d], p, r),
         NEW c \in Conns, NEW x, LinkOK(x, p, r)
  PROVE  /\ [link EXCEPT ![c] = x] \in [Conns -> Links]
         /\ \A d \in Conns : LinkOK([link EXCEPT ![c] = x][d], p, r)
<1>1. x \in Links
  BY DEF LinkOK
<1>2. \A d \in Conns : [link EXCEPT ![c] = x][d] = IF d = c THEN x ELSE link[d]
  OBVIOUS
<1> QED BY <1>1, <1>2

-------------------------------------------------------------------------------
\* The row.

LEMMA RowKept ==
  ASSUME NEW r \in Rows, NEW c \in Conns
  PROVE  /\ \A s \in {Registered(r, c), Disconnected(r, c), Staled(r)} :
              s \in Rows /\ s.last = r.last /\ s.lifecycle = r.lifecycle
BY DEF Rows, Registered, Disconnected, Staled, ConnectionStates

LEMMA StoredKept ==
  ASSUME NEW p \in Seq(Events), NEW q \in Seq(Events), Prefix(p, q), NEW r \in Rows, NEW s \in Rows,
         s.last = r.last, s.lifecycle = r.lifecycle, NEW lg, Stored(r, lg, p)
  PROVE  Stored(s, lg, q)
<1>1. /\ Len(p) \in Nat /\ Len(q) \in Nat /\ Len(p) <= Len(q) /\ r.last \in Nat /\ r.last <= Len(p)
  BY DEF Prefix, Rows, Stored
<1>2. \A n \in 1..r.last : n \in 1..Len(p) /\ q[n] = p[n]
  BY <1>1 DEF Prefix
<1>3. {q[n] : n \in 1..s.last} = {p[n] : n \in 1..r.last}
  BY <1>2
<1>4. r.last > 0 => r.last \in 1..r.last
  BY <1>1
<1> QED BY <1>1, <1>2, <1>3, <1>4 DEF Stored

\* An event that was written, and is next at the latest, meets itself or nothing.
LEMMA EventPlaced ==
  ASSUME NEW p \in Seq(Events), NEW m \in Nat, Chain(p, m), NEW r \in Rows, NEW lg, Stored(r, lg, p),
         NEW e \in Events, e.seq \in 1..Len(p), e = p[e.seq], e.seq <= r.last + 1
  PROVE  \/ e.seq <= r.last /\ IsReplay(lg, e)
         \/ e.seq = r.last + 1 /\ Prior(lg, e) = {}
<1>1. Len(p) \in Nat /\ r.last \in Nat /\ r.last <= Len(p) /\ e.seq \in Nat
  BY DEF Rows, Stored, Events
<1>2. \A n \in 1..r.last : n \in 1..Len(p) /\ p[n] \in lg
  BY <1>1 DEF Stored
<1>3. ASSUME NEW x \in Prior(lg, e) PROVE x = e /\ e.seq \in 1..r.last
  <2>1. PICK n \in 1..r.last : x = p[n]
    BY DEF Prior, Stored
  <2>2. n \in 1..Len(p) /\ (p[n].id = p[e.seq].id \/ p[n].seq = p[e.seq].seq)
    BY <1>2, <2>1 DEF Prior
  <2>3. n = e.seq
    BY <2>2, ChainUnique
  <2> QED BY <2>1, <2>3
<1>4. CASE e.seq <= r.last
  <2>1. e \in lg
    BY <1>1, <1>2, <1>4
  <2>2. Prior(lg, e) = {e}
    BY <1>3, <2>1 DEF Prior
  <2> QED BY <1>4, <2>2 DEF IsReplay
<1>5. CASE ~(e.seq <= r.last)
  <2>1. e.seq = r.last + 1 /\ e.seq \notin 1..r.last
    BY <1>1, <1>5
  <2> QED BY <1>3, <2>1
<1> QED BY <1>4, <1>5

LEMMA StoredNext ==
  ASSUME NEW p \in Seq(Events), NEW r \in Rows, NEW lg, Stored(r, lg, p),
         NEW e \in Events, e.seq \in 1..Len(p), e = p[e.seq], e.seq = r.last + 1,
         r.lifecycle # "stopped"
  PROVE  /\ Applied(r, e) \in Rows /\ Applied(r, e).last = r.last + 1
         /\ Stored(Applied(r, e), lg \cup {e}, p)
<1> DEFINE s == Applied(r, e)
<1>1. /\ s \in Rows /\ s.last = r.last + 1
      /\ s.lifecycle = IF e.body \in Lifecycles THEN e.body ELSE r.lifecycle
  BY DEF Applied, Rows, Events, ConnectionStates
<1> HIDE DEF s
<1>2. r.last \in Nat /\ Len(p) \in Nat /\ s.last <= Len(p) /\ e = p[s.last] /\ s.last > 0
  BY <1>1 DEF Rows
<1>3. \A n : n \in 1..s.last <=> n \in 1..r.last \/ n = s.last
  BY <1>1, <1>2
<1>4. lg \cup {e} = {p[n] : n \in 1..s.last}
  BY <1>2, <1>3 DEF Stored
<1>5. Stored(s, lg \cup {e}, p)
  BY <1>1, <1>2, <1>4 DEF Stored
<1> QED BY <1>1, <1>5 DEF s

-------------------------------------------------------------------------------
\* What the actions of the client do to the parts of the invariant.

LEMMA TypeParts ==
  TypeOK => /\ journal \in Journals /\ disk \in Journals /\ produced \in Seq(Events)
            /\ minted \in Nat /\ row \in Rows /\ link \in [Conns -> Links]
            /\ journal.acked \in Nat /\ disk.acked \in Nat /\ row.last \in Nat
BY DEF TypeOK, Rows, Links, Journals

\* The type invariant in two halves.
ClientTyped ==
  /\ pc \in {"down", "dialing", "registering", "saving", "sending", "awaiting", "ready", "exited"}
  /\ mode \in {"run", "stop", "stop2"} /\ cancelled \in BOOLEAN
  /\ journal \in Journals /\ disk \in Journals
  /\ lastLifecycle \in Lifecycles /\ lastState \in Lifecycles \cup {"none"}
  /\ conn \in Conns \cup {NoConn} /\ exit \in {"none", "ok", "gave up", "failed", "killed"}
  /\ minted \in Nat /\ produced \in Seq(Events)

OthersTyped ==
  /\ mgr \in {"starting", "running", "suspended", "resuming", "stopping", "stopping frozen"}
  /\ link \in [Conns -> Links] /\ current \in Conns \cup {NoConn}
  /\ row \in Rows /\ ledger \in SUBSET Events
  /\ expired \in BOOLEAN /\ faults \in 0..MaxFaults

LEMMA TypeHalves == TypeOK <=> ClientTyped /\ OthersTyped
BY DEF TypeOK, ClientTyped, OthersTyped, Links, Rows

LEMMA JournalFrame ==
  ASSUME JournalInv, UNCHANGED <<journal, disk, produced, minted>>,
         mode' \in {"run", mode} \/ mode # "run",
         pc' \notin {"saving", "exited"} => pc \notin {"saving", "exited"},
         pc' = "awaiting" => journal.events # <<>>
  PROVE  JournalInv'
<1>1. PICK w \in Seq(Events) : Extends(w, journal, produced, minted, mode)
  BY DEF JournalInv
<1>2. Extends(w, journal, produced, minted, mode')
  BY <1>1 DEF Extends, Terminal
<1> QED BY <1>2 DEF JournalInv

LEMMA JournalAppends ==
  ASSUME TypeOK, JournalInv, NEW bodies \in Seq(Bodies), Paired(bodies), bodies # <<>>,
         AppendEvents(bodies), UNCHANGED <<disk, produced>>, pc' = "saving",
         mode' = "run" \/ bodies[Len(bodies)] = "stopped"
  PROVE  JournalInv' /\ journal' \in Journals /\ minted' \in Nat /\ journal'.acked = journal.acked
<1>1. PICK w \in Seq(Events) : Extends(w, journal, produced, minted, mode)
  BY DEF JournalInv
<1>2. /\ journal' = Journaled(journal, bodies) /\ minted' = minted + Len(bodies)
      /\ Len(bodies) \in Nat /\ Len(bodies) > 0 /\ Len(w) \in Nat
  BY DEF AppendEvents
<1>3. /\ Journaled(journal, bodies) \in Journals
      /\ Journaled(journal, bodies).acked = journal.acked
      /\ minted + Len(bodies) \in Nat
      /\ \E v \in Seq(Events) :
           /\ Chain(v, minted + Len(bodies)) /\ Holds(Journaled(journal, bodies), v)
           /\ Prefix(produced, v) /\ Len(v) = Len(w) + Len(bodies)
           /\ bodies # <<>> => v[Len(v)].body = bodies[Len(bodies)]
  BY <1>1, TypeParts, JournaledOK DEF Extends
<1>4. PICK v \in Seq(Events) :
           /\ Chain(v, minted') /\ Holds(journal', v)
           /\ Prefix(produced, v) /\ Len(v) = Len(w) + Len(bodies)
           /\ v[Len(v)].body = bodies[Len(bodies)]
  BY <1>2, <1>3
<1>5. Terminal(v, mode')
  BY <1>2, <1>4 DEF Terminal
<1>6. Extends(v, journal', produced', minted', mode')
  BY <1>1, <1>2, <1>3, <1>4, <1>5 DEF Extends
<1> QED BY <1>2, <1>3, <1>6 DEF JournalInv

LEMMA JournalAcknowledges ==
  ASSUME TypeOK, JournalInv, ServerInv, NEW s \in Nat, journal.acked <= s, s <= row.last,
         journal' = Acknowledge(journal, s), UNCHANGED <<produced, minted, mode>>,
         \/ disk' = disk /\ pc' = "saving"
         \/ disk' = journal' /\ journal = disk /\ pc' # "awaiting"
  PROVE  JournalInv' /\ journal' \in Journals /\ disk' \in Journals /\ journal'.acked = s
<1>1. PICK w \in Seq(Events) : Extends(w, journal, produced, minted, mode)
  BY DEF JournalInv
<1>2. /\ journal \in Journals /\ disk \in Journals /\ produced \in Seq(Events) /\ minted \in Nat
      /\ row.last \in Nat /\ row.last <= Len(produced) /\ Len(produced) <= Len(w)
      /\ Len(produced) \in Nat /\ Len(w) \in Nat
  BY <1>1, TypeParts DEF ServerInv, Stored, Extends, Prefix
<1>3. s <= Len(produced) /\ s <= Len(w)
  BY <1>2
<1>4. journal' \in Journals /\ journal'.acked = s /\ Holds(journal', w)
  BY <1>1, <1>2, <1>3, AcknowledgeOK DEF Extends
<1>5. Extends(w, journal', produced', minted', mode')
  BY <1>1, <1>3, <1>4 DEF Extends
<1>6. journal = disk => Holds(journal', produced)
  <2>1. Chain(produced, minted)
    BY <1>1, <1>2, PrefixChain DEF Extends
  <2> QED BY <1>2, <1>3, <2>1, AcknowledgeOK DEF JournalInv
<1> QED BY <1>2, <1>4, <1>5, <1>6 DEF JournalInv

\* The file is what the journal was, or what it will be.
LEMMA SavedEvents ==
  ASSUME TypeOK, JournalInv, Save
  PROVE  /\ JournalInv' /\ produced' \in Seq(Events) /\ Prefix(produced, produced')
<1>1. PICK w \in Seq(Events) : Extends(w, journal, produced, minted, mode)
  BY DEF JournalInv
<1>2. produced' = w
  BY <1>1, TypeParts, SavedOK DEF Save, Extends
<1>3. Prefix(w, w) /\ Len(produced) \in Nat /\ Len(w) \in Nat /\ Len(produced) <= Len(w)
  BY <1>1, TypeParts, PrefixSelf DEF Extends, Prefix
<1>4. /\ journal' = journal /\ disk' = journal /\ minted' = minted /\ mode' = mode
      /\ pc' \in {"dialing", "sending"}
  BY DEF Save
<1>5. Extends(w, journal', produced', minted', mode')
  BY <1>1, <1>2, <1>3, <1>4, TypeParts DEF Extends
<1>6. Holds(disk', produced')
  BY <1>1, <1>2, <1>4 DEF Extends
<1> QED BY <1>1, <1>2, <1>4, <1>5, <1>6 DEF JournalInv, Extends

LEMMA ServerFrame ==
  ASSUME TypeOK, ServerInv, UNCHANGED <<ledger, exit>>,
         row' \in Rows, row'.last = row.last, row'.lifecycle = row.lifecycle,
         produced' \in Seq(Events), Prefix(produced, produced'),
         disk'.acked <= row.last, journal'.acked <= row.last
  PROVE  ServerInv'
BY TypeParts, StoredKept DEF ServerInv

LEMMA SamePrefix == TypeOK => Prefix(produced, produced)
BY TypeParts, PrefixSelf

LEMMA LinkFrame ==
  ASSUME TypeOK, LinkInv, UNCHANGED link,
         row' \in Rows, row'.last >= row.last,
         row.lifecycle = "stopped" => row'.lifecycle = "stopped",
         produced' \in Seq(Events), Prefix(produced, produced')
  PROVE  LinkInv'
<1>1. Later(produced, produced', row, row')
  BY TypeParts DEF Later, Rows
<1> QED BY <1>1, TypeParts, LinkLater DEF LinkInv

\* A connection that is given up forgets what it has not read.
LEMMA HangupLinks ==
  ASSUME TypeOK, LinkInv, Hangup, UNCHANGED <<row, produced>>
  PROVE  LinkInv' /\ link' \in [Conns -> Links] /\ \A c \in Conns : link'[c].phase = link[c].phase
<1>1. ASSUME NEW c \in Conns
      PROVE  LinkOK(link'[c], produced, row) /\ link'[c].phase = link[c].phase
  <2>1. LinkOK(link[c], produced, row) /\ link[c] \in Links
    BY TypeParts DEF LinkInv
  <2>2. LinkOK([link[c] EXCEPT !.down = <<>>], produced, row)
    BY <2>1, LinkMute
  <2>3. [link[c] EXCEPT !.down = <<>>].phase = link[c].phase
    BY <2>1 DEF Links
  <2> QED BY <2>1, <2>2, <2>3 DEF Hangup
<1>2. link' \in [Conns -> Links]
  BY <1>1 DEF Hangup, LinkOK
<1> QED BY <1>1, <1>2 DEF LinkInv

-------------------------------------------------------------------------------
\* The steps of the client.

LEMMA BodiesPaired ==
  /\ <<"running", "other">> \in Seq(Bodies) /\ Paired(<<"running", "other">>)
  /\ <<"stopping", "stopped">> \in Seq(Bodies) /\ Paired(<<"stopping", "stopped">>)
  /\ <<"stopping", "stopped">>[Len(<<"stopping", "stopped">>)] = "stopped"
  /\ \A x \in Bodies \ {"stopped"} :
       /\ <<x>> \in Seq(Bodies) /\ Paired(<<x>>)
       /\ <<x, "other">> \in Seq(Bodies) /\ Paired(<<x, "other">>)
BY DEF Bodies, Lifecycles, Paired

LEMMA InvParts ==
  Inv => /\ TypeOK /\ JournalInv /\ ServerInv /\ LinkInv /\ ClientInv
         /\ Prefix(produced, produced) /\ disk.acked <= row.last /\ journal.acked <= row.last
BY SamePrefix DEF Inv, ServerInv

LEMMA StartStep == ASSUME Inv, Start PROVE Inv'
<1>1. /\ journal = disk /\ mode = "run" /\ mode' = mode /\ conn' = conn /\ conn = NoConn
      /\ UNCHANGED <<disk, produced, row, ledger, link, exit>>
  BY InvParts DEF Start, JournalInv, ClientInv, serverVars
<1>2. /\ JournalInv' /\ journal' \in Journals /\ minted' \in Nat /\ journal'.acked = journal.acked
      /\ pc' \in {"saving", "dialing"}
  <2>1. CASE disk.acked = 0 /\ disk.events = <<>>
    <3>1. AppendEvents(<<"running", "other">>) /\ pc' = "saving"
      BY <1>1, <2>1 DEF Start, AppendEvents
    <3>2. <<"running", "other">> # <<>>
      OBVIOUS
    <3> QED BY <1>1, <3>1, <3>2, BodiesPaired, InvParts, JournalAppends
  <2>2. CASE ~(disk.acked = 0 /\ disk.events = <<>>)
    <3>1. UNCHANGED <<journal, minted>> /\ pc' = "dialing" /\ pc = "down"
      BY <1>1, <2>2 DEF Start
    <3> QED BY <1>1, <3>1, InvParts, JournalFrame, TypeParts
  <2> QED BY <2>1, <2>2
<1>3. TypeOK'
  <2>1. ClientTyped'
    BY <1>1, <1>2, InvParts, TypeHalves DEF ClientTyped, Start, serverVars
  <2>2. OthersTyped'
    BY <1>1, <1>2, InvParts, TypeHalves DEF OthersTyped, Start, serverVars
  <2> QED BY <2>1, <2>2 DEF TypeOK, ClientTyped, OthersTyped, Links, Rows
<1>4. ServerInv' /\ LinkInv'
  BY <1>1, <1>2, InvParts, TypeParts, ServerFrame, LinkFrame
<1>5. ClientInv'
  BY <1>1, <1>2, InvParts DEF Start, ClientInv
<1> QED BY <1>2, <1>3, <1>4, <1>5 DEF Inv

LEMMA DialStep == ASSUME Inv, NEW c \in Conns, Dial(c) PROVE Inv'
<1>1. /\ UNCHANGED <<journal, disk, produced, minted, mode, row, ledger, exit>>
      /\ pc = "dialing" /\ pc' = "registering" /\ conn' = c /\ c # NoConn
      /\ link' = [link EXCEPT ![c] = [FreeLink EXCEPT
                    !.phase = "open", !.up = <<Registration(journal.acked)>>]]
  BY ConnsAssumption DEF Dial, serverVars, NoConn
<1>2. JournalInv'
  BY <1>1, InvParts, JournalFrame
<1>3. LinkOK([FreeLink EXCEPT !.phase = "open", !.up = <<Registration(journal.acked)>>],
             produced, row)
  BY InvParts, TypeParts, LinkDialed
<1>4. link' \in [Conns -> Links] /\ LinkInv'
  <2>1. \A d \in Conns : LinkOK(link[d], produced, row)
    BY InvParts DEF LinkInv
  <2> DEFINE x == [FreeLink EXCEPT !.phase = "open", !.up = <<Registration(journal.acked)>>]
  <2>2. link' = [link EXCEPT ![c] = x] /\ LinkOK(x, produced, row)
    BY <1>1, <1>3
  <2> HIDE DEF x
  <2> QED BY <1>1, <2>1, <2>2, InvParts, TypeParts, LinkAt DEF LinkInv
<1>5. TypeOK'
  <2>1. ClientTyped'
    BY <1>1, <1>4, InvParts, TypeHalves DEF ClientTyped, Dial, serverVars, Links
  <2>2. OthersTyped'
    BY <1>1, <1>4, InvParts, TypeHalves DEF OthersTyped, Dial, serverVars, Links
  <2> QED BY <2>1, <2>2 DEF TypeOK, ClientTyped, OthersTyped, Links, Rows
<1>6. ServerInv'
  BY <1>1, InvParts, TypeParts, ServerFrame
<1>7. ClientInv'
  BY <1>1 DEF ClientInv
<1> QED BY <1>2, <1>4, <1>5, <1>6, <1>7 DEF Inv

LEMMA ExitStep ==
  ASSUME Inv, NEW result \in {"ok", "gave up", "killed"}, Exit(result), UNCHANGED serverVars,
         faults' \in 0..MaxFaults, result = "ok" => row.lifecycle = "stopped"
  PROVE  Inv'
<1>1. /\ UNCHANGED <<journal, disk, produced, minted, mode, row, ledger>>
      /\ pc' = "exited" /\ exit' = result /\ conn' = NoConn /\ Hangup
  BY DEF Exit, serverVars, Hangup
<1>2. JournalInv'
  BY <1>1, InvParts, JournalFrame
<1>3. LinkInv' /\ link' \in [Conns -> Links]
  BY <1>1, InvParts, HangupLinks
<1>4. TypeOK'
  <2>1. ClientTyped'
    BY <1>1, <1>3, InvParts, TypeHalves DEF ClientTyped, Exit, Hangup, serverVars, Links, Lifecycles
  <2>2. OthersTyped'
    BY <1>1, <1>3, InvParts, TypeHalves DEF OthersTyped, Exit, Hangup, serverVars, Links, Lifecycles
  <2> QED BY <2>1, <2>2 DEF TypeOK, ClientTyped, OthersTyped, Links, Rows
<1>5. ServerInv'
  BY <1>1, InvParts DEF ServerInv
<1>6. ClientInv'
  BY <1>1 DEF ClientInv
<1> QED BY <1>2, <1>3, <1>4, <1>5, <1>6 DEF Inv

\* A client whose journal is empty has everything it wrote stored, "stopped" included.
LEMMA FlushedStopped ==
  ASSUME Inv, pc = "sending", journal.events = <<>>, mode # "run"
  PROVE  row.lifecycle = "stopped"
<1>1. PICK w \in Seq(Events) : Extends(w, journal, produced, minted, mode)
  BY InvParts DEF JournalInv
<1>2. journal = disk /\ Holds(disk, produced) /\ Stored(row, ledger, produced)
  BY InvParts DEF JournalInv, ServerInv
<1>3. /\ journal.acked \in Nat /\ row.last \in Nat /\ Len(produced) \in Nat
      /\ journal.acked <= row.last /\ row.last <= Len(produced)
  BY <1>2, InvParts, TypeParts DEF Stored
<1>4. Len(journal.events) = 0
  OBVIOUS
<1>5. Len(produced) = journal.acked /\ Len(w) = journal.acked
  BY <1>1, <1>2, <1>3, <1>4 DEF Extends, Holds
<1>6. row.last = Len(produced) /\ Len(w) = Len(produced)
  BY <1>3, <1>5
<1>7. Len(w) > 0 /\ w[Len(w)].body = "stopped" /\ produced[Len(produced)] = w[Len(w)]
  BY <1>1, <1>3, <1>6 DEF Extends, Terminal, Prefix
<1>8. row.last > 0 /\ produced[row.last].body = "stopped"
  BY <1>6, <1>7
<1> QED BY <1>2, <1>8 DEF Stored, Lifecycles

LEMMA FlushedStep == ASSUME Inv, Flushed PROVE Inv'
<1>1. faults' \in 0..MaxFaults
  BY InvParts DEF Flushed, TypeOK
<1>2. CASE mode # "run" /\ Exit("ok")
  BY <1>1, <1>2, FlushedStopped, ExitStep DEF Flushed
<1>3. CASE ~(mode # "run" /\ Exit("ok"))
  <2>1. /\ UNCHANGED <<journal, disk, produced, minted, mode, row, ledger, exit, link, conn>>
        /\ pc = "sending" /\ pc' = "ready"
    BY <1>3 DEF Flushed, serverVars
  <2>2. JournalInv'
    BY <2>1, InvParts, JournalFrame
  <2>3. TypeOK'
    <3>1. ClientTyped'
      BY <1>1, <1>3, <2>1, InvParts, TypeHalves DEF ClientTyped, Flushed, serverVars
    <3>2. OthersTyped'
      BY <1>1, <1>3, <2>1, InvParts, TypeHalves DEF OthersTyped, Flushed, serverVars
    <3> QED BY <3>1, <3>2 DEF TypeOK, ClientTyped, OthersTyped, Links, Rows
  <2>4. ServerInv' /\ LinkInv'
    BY <2>1, InvParts, TypeParts, ServerFrame, LinkFrame
  <2>5. ClientInv'
    BY <2>1, InvParts DEF ClientInv
  <2> QED BY <2>2, <2>3, <2>4, <2>5 DEF Inv
<1> QED BY <1>2, <1>3

LEMMA GiveUpStep == ASSUME Inv, GiveUp PROVE Inv'
<1>1. faults' \in 0..MaxFaults
  BY InvParts DEF GiveUp, TypeOK
<1> QED BY <1>1, ExitStep DEF GiveUp

LEMMA SaveStep == ASSUME Inv, Save PROVE Inv'
<1>1. /\ UNCHANGED <<row, ledger, exit, link, conn, journal, mode>> /\ disk' = journal
      /\ pc = "saving" /\ pc' = IF conn = NoConn THEN "dialing" ELSE "sending"
  BY DEF Save, serverVars
<1>2. JournalInv' /\ produced' \in Seq(Events) /\ Prefix(produced, produced')
  BY InvParts, SavedEvents
<1>3. TypeOK'
  <2>1. ClientTyped'
    BY <1>1, <1>2, InvParts, TypeHalves DEF ClientTyped, Save, serverVars
  <2>2. OthersTyped'
    BY <1>1, <1>2, InvParts, TypeHalves DEF OthersTyped, Save, serverVars
  <2> QED BY <2>1, <2>2 DEF TypeOK, ClientTyped, OthersTyped, Links, Rows
<1>4. ServerInv' /\ LinkInv'
  BY <1>1, <1>2, InvParts, TypeParts, ServerFrame, LinkFrame
<1>5. ClientInv'
  BY <1>1, InvParts DEF ClientInv
<1> QED BY <1>2, <1>3, <1>4, <1>5 DEF Inv

\* What the client sends is the oldest event that was not acknowledged.
LEMMA SendStep == ASSUME Inv, Send PROVE Inv'
<1> DEFINE e == Head(journal.events)
<1>1. /\ UNCHANGED <<journal, disk, produced, minted, mode, row, ledger, exit, conn>>
      /\ pc = "sending" /\ pc' = "awaiting" /\ journal.events # <<>>
      /\ conn \in Conns /\ link[conn].phase \in {"active", "free"} /\ journal = disk
  BY InvParts DEF Send, serverVars, ClientInv, JournalInv, TypeOK
<1>2. JournalInv'
  BY <1>1, InvParts, JournalFrame
<1>3. /\ e \in Events /\ e.seq \in 1..Len(produced) /\ e.seq <= row.last + 1
      /\ e = produced[e.seq]
  <2>1. /\ journal.events \in Seq(Events) /\ journal.acked \in Nat /\ row.last \in Nat
        /\ journal.acked <= row.last /\ produced \in Seq(Events)
    BY InvParts, TypeParts DEF Journals
  <2>2. e \in Events /\ e = journal.events[1] /\ Len(journal.events) \in Nat \ {0}
    BY <1>1, <2>1, EmptySeq
  <2>3. e = produced[journal.acked + 1] /\ Len(produced) = journal.acked + Len(journal.events)
    <3>1. Holds(journal, produced)
      BY <1>1, InvParts DEF JournalInv
    <3>2. /\ Len(produced) = journal.acked + Len(journal.events)
          /\ \A i \in 1..Len(journal.events) : journal.events[i] = produced[journal.acked + i]
      BY <3>1 DEF Holds
    <3>3. 1 \in 1..Len(journal.events)
      BY <2>2
    <3> QED BY <2>2, <3>2, <3>3
  <2>4. Len(produced) \in Nat /\ journal.acked + 1 \in 1..Len(produced)
    BY <2>1, <2>2, <2>3
  <2>5. produced[journal.acked + 1].seq = journal.acked + 1
    <3>1. Chain(produced, minted)
      BY InvParts, TypeParts, PrefixChain DEF JournalInv, Extends
    <3> QED BY <2>4, <3>1 DEF Chain
  <2> HIDE DEF e
  <2>6. e.seq = journal.acked + 1
    BY <2>3, <2>5
  <2>7. journal.acked + 1 <= row.last + 1
    BY <2>1
  <2> QED BY <2>2, <2>3, <2>4, <2>6, <2>7
<1> HIDE DEF e
<1>4. LinkOK(link[conn], produced, row) /\ link[conn] \in Links
  BY <1>1, InvParts, TypeParts DEF LinkInv
<1> DEFINE x == [link[conn] EXCEPT !.up = IF link[conn].phase = "free" THEN @
                                          ELSE Append(@, EventMessage(e))]
<1>5. LinkOK(x, produced, row)
  <2>1. CASE link[conn].phase = "free"
    <3>1. x = [link[conn] EXCEPT !.up = link[conn].up]
      BY <2>1
    <3>2. [link[conn] EXCEPT !.up = link[conn].up] = link[conn]
      BY <1>4, SetUp, LinkFields
    <3> QED BY <1>4, <3>1, <3>2
  <2>2. CASE link[conn].phase # "free"
    <3>1. x = [link[conn] EXCEPT !.up = Append(@, EventMessage(e))]
      BY <2>2
    <3>2. LinkOK([link[conn] EXCEPT !.up = Append(@, EventMessage(e))], produced, row)
      BY <1>1, <1>3, <1>4, LinkSend
    <3> QED BY <3>1, <3>2
  <2> QED BY <2>1, <2>2
<1>6. link' = [link EXCEPT ![conn] = x]
  BY DEF Send, e
<1>7. x.phase = link[conn].phase
  BY <1>4 DEF Links
<1> HIDE DEF x
<1>8. link' \in [Conns -> Links] /\ LinkInv'
  BY <1>1, <1>5, <1>6, InvParts, TypeParts, LinkAt DEF LinkInv
<1>9. TypeOK'
  <2>1. ClientTyped'
    BY <1>1, <1>8, InvParts, TypeHalves DEF ClientTyped, Send, serverVars, Links
  <2>2. OthersTyped'
    BY <1>1, <1>8, InvParts, TypeHalves DEF OthersTyped, Send, serverVars, Links
  <2> QED BY <2>1, <2>2 DEF TypeOK, ClientTyped, OthersTyped, Links, Rows
<1>10. ServerInv'
  BY <1>1, InvParts, TypeParts, ServerFrame
<1>11. ClientInv'
  <2>1. link'[conn].phase = link[conn].phase
    BY <1>1, <1>6, <1>7, InvParts, TypeParts
  <2> QED BY <1>1, <2>1, InvParts DEF ClientInv
<1> QED BY <1>2, <1>8, <1>9, <1>10, <1>11 DEF Inv

\* Reading the message at the head of the connection.
LEMMA ReceiveLinks ==
  ASSUME Inv, NEW c \in Conns, Receive(c), link[c].down # <<>>, UNCHANGED <<row, produced>>
  PROVE  /\ LinkInv' /\ link' \in [Conns -> Links]
         /\ \A d \in Conns : link'[d].phase = link[d].phase
<1> DEFINE x == [link[c] EXCEPT !.down = Tail(@)]
<1>1. LinkOK(link[c], produced, row) /\ link[c] \in Links
  BY InvParts, TypeParts DEF LinkInv
<1>2. LinkOK(x, produced, row) /\ x.phase = link[c].phase
  <2>1. LinkOK(x, produced, row)
    BY <1>1, LinkTail
  <2>2. x.phase = link[c].phase
    BY <1>1 DEF Links
  <2> QED BY <2>1, <2>2
<1>3. link' = [link EXCEPT ![c] = x]
  BY DEF Receive
<1> HIDE DEF x
<1>4. link' \in [Conns -> Links] /\ LinkInv'
  BY <1>2, <1>3, InvParts, TypeParts, LinkAt DEF LinkInv
<1>5. \A d \in Conns : link'[d] = IF d = c THEN x ELSE link[d]
  BY <1>3, InvParts, TypeParts
<1> QED BY <1>2, <1>4, <1>5

\* A message from the server never acknowledges more than was stored.
LEMMA HeadTold ==
  ASSUME Inv, NEW c \in Conns, link[c].down # <<>>
  PROVE  /\ Head(link[c].down) \in Messages
         /\ Head(link[c].down).type \in {"registered", "accepted"} =>
              /\ Head(link[c].down).seq \in Nat /\ Head(link[c].down).seq <= row.last
              /\ link[c].phase \in {"active", "free"}
         /\ Head(link[c].down) = Close(1000) => row.lifecycle = "stopped"
<1>1. LinkOK(link[c], produced, row) /\ link[c] \in Links /\ link[c].down \in Seq(Messages)
  BY InvParts, TypeParts, LinkFields DEF LinkInv
<1>2. /\ Head(link[c].down) \in Messages /\ Head(link[c].down) = link[c].down[1]
      /\ 1 \in 1..Len(link[c].down)
  BY <1>1, EmptySeq
<1>3. Told(link[c], row) /\ Sent(link[c], produced, row)
  BY <1>1 DEF LinkOK
<1>4. link[c].phase \in {"open", "orphan"} => Head(link[c].down).type = "close"
  BY <1>2, <1>3 DEF Sent
<1>5. Head(link[c].down).type \in {"registered", "accepted"} =>
        Head(link[c].down).seq \in Nat /\ Head(link[c].down).seq <= row.last
  BY <1>2, <1>3, MessageTyped DEF Told
<1>6. Head(link[c].down) = Close(1000) => row.lifecycle = "stopped"
  BY <1>2, <1>3 DEF Told
<1>7. link[c].phase \in {"free", "open", "active", "orphan"}
  BY <1>1, LinkFields
<1> QED BY <1>2, <1>4, <1>5, <1>6, <1>7

LEMMA AcknowledgeStep ==
  ASSUME Inv, NEW c \in Conns, NEW type \in {"registered", "accepted"},
         link[c].down # <<>>, conn = c, Head(link[c].down).type = type,
         Head(link[c].down).seq >= journal.acked,
         journal' = Acknowledge(journal, Head(link[c].down).seq),
         Receive(c), pc' = "saving",
         UNCHANGED <<mode, cancelled, disk, lastLifecycle, lastState, conn, exit,
                     minted, produced, serverVars, mgr, faults>>
  PROVE  Inv'
<1> DEFINE s == Head(link[c].down).seq
<1>1. s \in Nat /\ s <= row.last /\ link[c].phase \in {"active", "free"}
  BY HeadTold
<1> HIDE DEF s
<1>2. journal' = Acknowledge(journal, s) /\ journal.acked <= s
  BY <1>1, InvParts, TypeParts DEF s
<1>3. UNCHANGED <<row, ledger>>
  BY DEF serverVars
<1>4. JournalInv' /\ journal' \in Journals /\ journal'.acked = s
  BY <1>1, <1>2, InvParts, JournalAcknowledges
<1>5. LinkInv' /\ link' \in [Conns -> Links] /\ link'[c].phase = link[c].phase
  BY <1>3, ReceiveLinks
<1>6. TypeOK'
  <2>1. ClientTyped'
    BY <1>3, <1>4, <1>5, InvParts, TypeHalves DEF ClientTyped, serverVars
  <2>2. OthersTyped'
    BY <1>3, <1>4, <1>5, InvParts, TypeHalves DEF OthersTyped, serverVars
  <2> QED BY <2>1, <2>2 DEF TypeOK, ClientTyped, OthersTyped, Links, Rows
<1>7. ServerInv'
  BY <1>1, <1>3, <1>4, InvParts, TypeParts, ServerFrame
<1>8. ClientInv'
  BY <1>1, <1>5 DEF ClientInv
<1> QED BY <1>4, <1>5, <1>6, <1>7, <1>8 DEF Inv

LEMMA ReceiveRegisteredStep == ASSUME Inv, NEW c \in Conns, ReceiveRegistered(c) PROVE Inv'
BY AcknowledgeStep DEF ReceiveRegistered, Head1

\* The event that waits for its acknowledgement is next after the watermark.
LEMMA AwaitedNext ==
  ASSUME Inv, pc = "awaiting"
  PROVE  /\ Head(journal.events) \in Events /\ Head(journal.events).seq = journal.acked + 1
         /\ Head(journal.events) = produced[journal.acked + 1]
         /\ journal.acked + 1 \in 1..Len(produced) /\ journal = disk /\ Chain(produced, minted)
<1>1. journal = disk /\ journal.events # <<>> /\ Holds(disk, produced)
  BY InvParts DEF JournalInv
<1>2. /\ journal.events \in Seq(Events) /\ journal.acked \in Nat /\ produced \in Seq(Events)
  BY InvParts, TypeParts DEF Journals
<1>3. /\ Head(journal.events) \in Events /\ Head(journal.events) = journal.events[1]
      /\ Len(journal.events) \in Nat \ {0}
  BY <1>1, <1>2, EmptySeq
<1>4. /\ Head(journal.events) = produced[journal.acked + 1]
      /\ Len(produced) = journal.acked + Len(journal.events)
  BY <1>1, <1>2, <1>3 DEF Holds
<1>5. journal.acked + 1 \in 1..Len(produced)
  BY <1>2, <1>3, <1>4
<1>6. Chain(produced, minted)
  BY InvParts, TypeParts, PrefixChain DEF JournalInv, Extends
<1>7. produced[journal.acked + 1].seq = journal.acked + 1
  BY <1>5, <1>6 DEF Chain
<1> QED BY <1>1, <1>3, <1>4, <1>5, <1>6, <1>7

LEMMA ReceiveAcceptedStep == ASSUME Inv, NEW c \in Conns, ReceiveAccepted(c) PROVE Inv'
<1>1. pc = "awaiting" /\ Head(link[c].down).seq = Head(journal.events).seq
  BY DEF ReceiveAccepted
<1>2. Head(link[c].down).seq >= journal.acked
  BY <1>1, AwaitedNext, InvParts, TypeParts
<1> QED BY <1>2, AcknowledgeStep DEF ReceiveAccepted, Head1

LEMMA InvInit == ASSUME Init PROVE Inv
<1>1. <<>> \in Seq(Events) /\ Len(<<>>) = 0
  OBVIOUS
<1>2. TypeOK
  <2>1. journal \in Journals /\ disk \in Journals /\ produced \in Seq(Events)
    BY <1>1 DEF Init, Journals
  <2>2. link \in [Conns -> Links] /\ row \in Rows
    <3>1. <<>> \in Seq(Messages)
      OBVIOUS
    <3> QED BY <3>1 DEF Init, FreeLink, Links, NewRow, Rows, Lifecycles, ConnectionStates, NoSession
  <2>3. mgr \in {"starting", "running"} /\ faults \in 0..MaxFaults
    BY InitialStateAssumption, BoundsAssumption DEF Init
  <2>4. ledger \in SUBSET Events
    BY DEF Init
  <2> QED BY <2>1, <2>2, <2>3, <2>4 DEF TypeOK, Init, Rows, Links, Lifecycles
<1>3. JournalInv
  <2>1. Extends(<<>>, journal, produced, minted, mode)
    BY <1>1 DEF Init, Extends, Chain, Holds, Prefix, Terminal
  <2>2. Holds(disk, produced) /\ journal = disk /\ pc = "down"
    BY <1>1 DEF Init, Holds
  <2> QED BY <1>1, <2>1, <2>2 DEF JournalInv
<1>4. ServerInv
  <2>1. {produced[n] : n \in 1..row.last} = {}
    BY DEF Init, NewRow
  <2> QED BY <1>1, <2>1 DEF Init, NewRow, ServerInv, Stored
<1>5. LinkInv
  BY LinkFree DEF Init, LinkInv
<1>6. ClientInv
  BY DEF Init, ClientInv
<1> QED BY <1>2, <1>3, <1>4, <1>5, <1>6 DEF Inv

\* The server closes normally only after it persisted the "stopped" that is awaited.
LEMMA StoppedByCloseStep == ASSUME Inv, NEW c \in Conns, StoppedByClose(c) PROVE Inv'
<1> DEFINE h == journal.acked + 1
<1>1. /\ pc = "awaiting" /\ Head(journal.events).body = "stopped" /\ row.lifecycle = "stopped"
      /\ UNCHANGED <<mode, minted, produced, row, ledger>> /\ Hangup
      /\ pc' \in {"dialing", "exited"} /\ exit' \in {exit, "ok"} /\ disk' = journal'
  BY HeadTold DEF StoppedByClose, Head1, serverVars
<1>2. /\ journal' = Acknowledge(journal, h) /\ h \in 1..Len(produced) /\ journal = disk
      /\ produced[h].body = "stopped" /\ Chain(produced, minted)
  BY <1>1, AwaitedNext DEF StoppedByClose
<1>3. /\ row.last \in Nat /\ journal.acked \in Nat /\ journal.acked <= row.last
      /\ produced[row.last].body = "stopped" /\ row.last > 0
  BY <1>1, InvParts, TypeParts DEF ServerInv, Stored
<1>4. h <= row.last
  <2>1. row.last = journal.acked => h - 1 = row.last
    BY <1>3
  <2>2. produced[h - 1].body = "stopping"
    BY <1>2 DEF Chain
  <2>3. row.last # journal.acked
    BY <1>3, <2>1, <2>2
  <2> QED BY <1>3, <2>3
<1>5. h \in Nat /\ journal.acked <= h
  BY <1>3
<1> HIDE DEF h
<1>6. JournalInv' /\ journal' \in Journals /\ disk' \in Journals /\ journal'.acked = h
  BY <1>1, <1>2, <1>4, <1>5, InvParts, JournalAcknowledges
<1>7. LinkInv' /\ link' \in [Conns -> Links]
  BY <1>1, InvParts, HangupLinks
<1>8. TypeOK'
  <2>0. ClientTyped /\ OthersTyped BY InvParts, TypeHalves
  <2>1. ClientTyped'
    BY <1>6, <2>0 DEF ClientTyped, StoppedByClose, Hangup, Lifecycles
  <2>2. OthersTyped'
    BY <1>7, <2>0 DEF OthersTyped, StoppedByClose, serverVars
  <2> QED BY <2>1, <2>2 DEF TypeOK, ClientTyped, OthersTyped, Links, Rows
<1>9. ServerInv'
  BY <1>1, <1>4, <1>6, InvParts DEF ServerInv
<1>10. ClientInv'
  BY <1>1 DEF ClientInv, Hangup
<1> QED BY <1>6, <1>7, <1>8, <1>9, <1>10 DEF Inv

LEMMA LostStep ==
  ASSUME Inv, Lost, pc \in {"registering", "sending", "awaiting", "ready"},
         faults' \in 0..MaxFaults
  PROVE  Inv'
<1>1. /\ UNCHANGED <<disk, produced, row, ledger>> /\ Hangup /\ conn' = NoConn
      /\ mode' \in {"run", "stop", "stop2"} /\ pc' \in {"dialing", "saving", "exited"}
      /\ exit' \in {exit, "failed"}
  BY InvParts DEF Lost, Hangup, serverVars, TypeOK
<1>2. JournalInv' /\ journal' \in Journals /\ minted' \in Nat /\ journal'.acked = journal.acked
  <2>1. CASE AppendEvents(<<"stopping", "stopped">>) /\ pc' = "saving"
    <3>1. <<"stopping", "stopped">> # <<>>
      OBVIOUS
    <3> QED BY <1>1, <2>1, <3>1, BodiesPaired, InvParts, JournalAppends
  <2>2. CASE UNCHANGED <<journal, minted>> /\ pc' # "awaiting"
             /\ (mode' = mode \/ mode # "run")
    BY <1>1, <2>2, InvParts, TypeParts, JournalFrame
  <2> QED BY <2>1, <2>2 DEF Lost
<1>3. LinkInv' /\ link' \in [Conns -> Links]
  BY <1>1, InvParts, HangupLinks
<1>4. TypeOK'
  <2>1. ClientTyped'
    BY <1>1, <1>2, <1>3, InvParts, TypeHalves DEF ClientTyped, Lost, Hangup, Lifecycles
  <2>2. OthersTyped'
    BY <1>1, <1>2, <1>3, InvParts, TypeHalves DEF OthersTyped, Lost, serverVars
  <2> QED BY <2>1, <2>2 DEF TypeOK, ClientTyped, OthersTyped, Links, Rows
<1>5. ServerInv'
  BY <1>1, <1>2, InvParts DEF ServerInv
<1>6. ClientInv'
  BY <1>1 DEF ClientInv
<1> QED BY <1>2, <1>3, <1>4, <1>5, <1>6 DEF Inv

LEMMA ReceiveEndStep == ASSUME Inv, NEW c \in Conns, ReceiveEnd(c) PROVE Inv'
BY LostStep, InvParts DEF ReceiveEnd, Connected, TypeOK

LEMMA FaultCounted == TypeOK /\ Fault => faults' \in 0..MaxFaults
<1>1. MaxFaults \in Nat
  BY BoundsAssumption
<1>2. TypeOK => faults \in 0..MaxFaults
  BY DEF TypeOK
<1> QED BY <1>1, <1>2 DEF Fault

LEMMA ConnectionErrorStep == ASSUME Inv, ConnectionError PROVE Inv'
BY LostStep, InvParts, FaultCounted DEF ConnectionError, Connected

\* The client appends events on a registered connection.
LEMMA AppendStep ==
  ASSUME Inv, NEW bodies \in Seq(Bodies), Paired(bodies), bodies # <<>>, AppendEvents(bodies),
         pc \in {"ready", "sending", "awaiting"}, pc' = "saving",
         mode' = "run" \/ bodies[Len(bodies)] = "stopped", mode' \in {"run", "stop"},
         lastLifecycle' \in Lifecycles, lastState' \in Lifecycles \cup {"none"},
         UNCHANGED <<cancelled, disk, conn, exit, produced, serverVars, link, mgr, faults>>
  PROVE  Inv'
<1>1. UNCHANGED <<row, ledger, disk, exit, produced, link>>
  BY DEF serverVars
<1>2. JournalInv' /\ journal' \in Journals /\ minted' \in Nat /\ journal'.acked = journal.acked
  BY <1>1, InvParts, JournalAppends
<1>3. TypeOK'
  <2>1. ClientTyped'
    BY <1>1, <1>2, InvParts, TypeHalves DEF ClientTyped, serverVars
  <2>2. OthersTyped'
    BY <1>1, <1>2, InvParts, TypeHalves DEF OthersTyped, serverVars
  <2> QED BY <2>1, <2>2 DEF TypeOK, ClientTyped, OthersTyped, Links, Rows
<1>4. ServerInv' /\ LinkInv'
  BY <1>1, <1>2, InvParts, TypeParts, ServerFrame, LinkFrame
<1>5. ClientInv'
  BY <1>1, InvParts DEF ClientInv
<1> QED BY <1>2, <1>3, <1>4, <1>5 DEF Inv

LEMMA PollStep == ASSUME Inv, Poll PROVE Inv'
<1>1. StateFile \in Lifecycles \ {"stopped"} /\ StateFile \in Bodies \ {"stopped"}
  BY InvParts DEF TypeOK, StateFile, Lifecycles, Bodies
<1>2. "other" \in Bodies \ {"stopped"}
  BY DEF Bodies
<1>3. PICK bodies \in {<<StateFile, "other">>, <<"other">>} : AppendEvents(bodies)
  BY DEF Poll
<1>4. bodies \in Seq(Bodies) /\ Paired(bodies)
  BY <1>1, <1>2, <1>3, BodiesPaired
<1>5. bodies # <<>>
  OBVIOUS
<1> QED BY <1>1, <1>3, <1>4, <1>5, AppendStep DEF Poll

LEMMA HeartbeatStep == ASSUME Inv, Heartbeat PROVE Inv'
<1>1. "other" \in Bodies \ {"stopped"}
  BY DEF Bodies
<1>2. <<"other">> \in Seq(Bodies) /\ Paired(<<"other">>)
  BY <1>1, BodiesPaired
<1>3. <<"other">> # <<>>
  OBVIOUS
<1> QED BY <1>2, <1>3, InvParts, AppendStep DEF Heartbeat, TypeOK

LEMMA BeginShutdownStep == ASSUME Inv, BeginShutdown PROVE Inv'
<1>1. <<"stopping", "stopped">> # <<>>
  OBVIOUS
<1> QED BY <1>1, InvParts, BodiesPaired, AppendStep DEF BeginShutdown, TypeOK

-------------------------------------------------------------------------------
\* The steps of the server.

\* A step of the server touches no journal; what it must preserve.
LEMMA ServerFrameStep ==
  ASSUME Inv, UNCHANGED <<pc, mode, journal, disk, conn, minted, produced>>,
         TypeOK', ServerInv', LinkInv',
         pc \in {"saving", "sending", "awaiting", "ready"} /\ conn # NoConn
           => link'[conn].phase \in {"active", "free"}
  PROVE  Inv'
<1>1. JournalInv'
  BY InvParts DEF JournalInv
<1>2. ClientInv'
  BY InvParts DEF ClientInv
<1> QED BY <1>1, <1>2 DEF Inv

\* An active or free socket is not opened again while the client holds it.
LEMMA PhaseKept ==
  ASSUME Inv, \A c \in Conns : link[c].phase \in {"active", "free"}
                               => link'[c].phase \in {"active", "free"}
  PROVE  pc \in {"saving", "sending", "awaiting", "ready"} /\ conn # NoConn
           => link'[conn].phase \in {"active", "free"}
<1>1. conn # NoConn => conn \in Conns
  BY InvParts DEF TypeOK
<1> QED BY <1>1, InvParts DEF ClientInv

LEMMA ServerTyped ==
  ASSUME Inv, UNCHANGED <<clientVars, mgr>>, current' \in Conns \cup {NoConn},
         faults' \in 0..MaxFaults, expired' \in BOOLEAN, row' \in Rows,
         ledger' \in SUBSET Events, link' \in [Conns -> Links]
  PROVE  TypeOK'
<1>1. UNCHANGED <<pc, mode, cancelled, journal, disk, lastLifecycle, lastState, conn, exit,
                  minted, produced, mgr>>
  BY DEF clientVars
<1>2. /\ pc' \in {"down", "dialing", "registering", "saving", "sending", "awaiting",
                  "ready", "exited"}
      /\ mode' \in {"run", "stop", "stop2"} /\ cancelled' \in BOOLEAN
      /\ journal' \in Journals /\ disk' \in Journals
      /\ lastLifecycle' \in Lifecycles /\ lastState' \in Lifecycles \cup {"none"}
  BY <1>1, InvParts DEF TypeOK
<1>3. /\ conn' \in Conns \cup {NoConn}
      /\ exit' \in {"none", "ok", "gave up", "failed", "killed"}
      /\ mgr' \in {"starting", "running", "suspended", "resuming", "stopping",
                   "stopping frozen"}
      /\ minted' \in Nat /\ produced' \in Seq(Events)
  BY <1>1, InvParts DEF TypeOK
<1> QED BY <1>2, <1>3 DEF TypeOK, Links, Rows

\* One socket changes and the row and its events do not.
LEMMA LinkStep ==
  ASSUME Inv, UNCHANGED <<clientVars, row, ledger, mgr>>, current' \in {current, NoConn},
         faults' \in 0..MaxFaults, expired' \in BOOLEAN,
         NEW c \in Conns, NEW x, LinkOK(x, produced, row), link' = [link EXCEPT ![c] = x],
         link[c].phase \in {"active", "free"} => x.phase \in {"active", "free"}
  PROVE  Inv'
<1>1. UNCHANGED <<pc, mode, journal, disk, conn, minted, produced, exit, cancelled,
                  lastLifecycle, lastState, row, ledger, mgr>>
  BY DEF clientVars
<1>2. link' \in [Conns -> Links] /\ LinkInv'
  BY <1>1, InvParts, TypeParts, LinkAt DEF LinkInv
<1>3. \A d \in Conns : link[d].phase \in {"active", "free"}
                       => link'[d].phase \in {"active", "free"}
  BY InvParts, TypeParts
<1>4. TypeOK'
  <2>1. current' \in Conns \cup {NoConn} /\ row' \in Rows /\ ledger' \in SUBSET Events
    BY InvParts, TypeParts DEF TypeOK
  <2> QED BY <1>2, <2>1, ServerTyped
<1>5. ServerInv'
  BY <1>1, InvParts DEF ServerInv
<1> QED BY <1>1, <1>2, <1>3, <1>4, <1>5, PhaseKept, ServerFrameStep

\* Every socket may change and the row keeps its last event and its lifecycle.
LEMMA RowStep ==
  ASSUME Inv, UNCHANGED <<clientVars, ledger, mgr>>, current' \in Conns \cup {NoConn},
         faults' \in 0..MaxFaults, expired' \in BOOLEAN,
         row' \in Rows, row'.last = row.last, row'.lifecycle = row.lifecycle,
         link' = [c \in Conns |-> link'[c]],
         \A c \in Conns :
           /\ LinkOK(link'[c], produced, row)
           /\ link[c].phase \in {"active", "free"} => link'[c].phase \in {"active", "free"}
  PROVE  Inv'
<1>1. UNCHANGED <<pc, mode, journal, disk, conn, minted, produced, exit, cancelled,
                  lastLifecycle, lastState, ledger, mgr>>
  BY DEF clientVars
<1>2. link' \in [Conns -> Links]
  BY DEF LinkOK
<1>3. LinkInv'
  <2>1. Later(produced, produced, row, row')
    BY InvParts, TypeParts DEF Later, Rows
  <2> QED BY <1>1, <2>1, InvParts, TypeParts, LinkLater DEF LinkInv
<1>4. TypeOK'
  <2>1. ledger' \in SUBSET Events
    BY InvParts DEF TypeOK
  <2> QED BY <1>2, <2>1, ServerTyped
<1>5. ServerInv'
  BY <1>1, InvParts, TypeParts, ServerFrame
<1> QED BY <1>1, <1>3, <1>4, <1>5, PhaseKept, ServerFrameStep

LEMMA LinkTyped ==
  ASSUME Inv, NEW c \in Conns
  PROVE  /\ LinkOK(link[c], produced, row) /\ link[c] \in Links
         /\ link[c].up \in Seq(Messages) /\ link[c].down \in Seq(Messages)
         /\ link[c].phase \in {"free", "open", "active", "orphan"}
BY InvParts, TypeParts, LinkFields DEF LinkInv

LEMMA RefuseStep ==
  ASSUME Inv, NEW c \in Conns, link[c].up # <<>>, Refuse(c),
         UNCHANGED <<clientVars, expired, mgr, faults>>
  PROVE  Inv'
<1> DEFINE l == [link[c] EXCEPT !.up = Tail(@)]
<1>1. LinkOK(l, produced, row) /\ l.phase = link[c].phase
  <2>1. LinkOK(l, produced, row)
    BY LinkTyped, LinkPop
  <2>2. l.phase = link[c].phase
    BY LinkTyped DEF Links
  <2> QED BY <2>1, <2>2
<1>2. link' = [link EXCEPT ![c] = Closing(l, 1008)]
  BY DEF Refuse
<1> HIDE DEF l
<1>3. LinkOK(Closing(l, 1008), produced, row) /\ Closing(l, 1008).phase = link[c].phase
  BY <1>1, LinkClosing
<1>4. /\ UNCHANGED <<clientVars, row, ledger, mgr>> /\ current' \in {current, NoConn}
      /\ faults' \in 0..MaxFaults /\ expired' \in BOOLEAN
  BY InvParts DEF Refuse, TypeOK
<1> DEFINE x == Closing(l, 1008)
<1>5. LinkOK(x, produced, row) /\ x.phase = link[c].phase /\ link' = [link EXCEPT ![c] = x]
  BY <1>2, <1>3
<1> HIDE DEF x
<1> QED BY <1>4, <1>5, LinkStep

LEMMA FreedLink ==
  ASSUME Inv, NEW c \in Conns
  PROVE  /\ LinkOK([FreeLink EXCEPT !.down = link[c].down], produced, row)
         /\ [FreeLink EXCEPT !.down = link[c].down].phase = "free"
<1>1. LinkOK([FreeLink EXCEPT !.down = link[c].down], produced, row)
  BY LinkTyped, LinkFreed
<1>2. [FreeLink EXCEPT !.down = link[c].down].phase = "free"
  BY DEF FreeLink
<1> QED BY <1>1, <1>2

\* A registered session replaces the one before it, whose socket is closed.
LEMMA ServerRegisterStep == ASSUME Inv, NEW c \in Conns, ServerRegister(c) PROVE Inv'
<1>1. /\ link[c].phase \in {"open", "orphan"} /\ link[c].up # <<>>
      /\ UNCHANGED <<clientVars, expired, mgr, faults>>
  BY DEF ServerRegister
<1>2. faults' \in 0..MaxFaults /\ expired' \in BOOLEAN
  BY <1>1, InvParts DEF TypeOK
<1>3. CASE ~expired /\ MayRegister(row, Head(link[c].up).seq)
  <2> DEFINE d == Answered(c, RegisteredMessage(row.last))
             ph == IF link[c].phase = "open" THEN "active" ELSE "free"
             x == [link[c] EXCEPT !.up = Tail(link[c].up), !.down = d, !.phase = ph]
             y(b) == IF b = current THEN Closing(link[b], 1012) ELSE link[b]
  <2>1. /\ row' = Registered(row, c) /\ current' = c /\ UNCHANGED ledger
        /\ link' = [b \in Conns |->
             IF b = c
             THEN [link[c] EXCEPT !.up = Tail(@), !.down = d,
                                  !.phase = IF @ = "open" THEN "active" ELSE "free"]
             ELSE y(b)]
    BY <1>3 DEF ServerRegister
  <2>2. x = [link[c] EXCEPT !.up = Tail(@), !.down = d,
                            !.phase = IF @ = "open" THEN "active" ELSE "free"]
    OBVIOUS
  <2>3. /\ d \in {link[c].down, Append(link[c].down, RegisteredMessage(row.last))}
        /\ ph \in {"active", "free"}
    BY DEF Answered
  <2>4. x.phase = ph
    <3> HIDE DEF d, ph
    <3> QED BY LinkTyped DEF Links
  <2>5. LinkOK(x, produced, row)
    <3> HIDE DEF d, ph
    <3> QED BY <1>1, <2>3, LinkTyped, LinkRegistered, InvParts, TypeParts
  <2>6. ASSUME NEW b \in Conns
        PROVE  LinkOK(y(b), produced, row) /\ y(b).phase = link[b].phase
    <3>1. LinkOK(link[b], produced, row)
      BY LinkTyped
    <3>2. /\ LinkOK(Closing(link[b], 1012), produced, row)
          /\ Closing(link[b], 1012).phase = link[b].phase
      BY <3>1, LinkClosing
    <3> QED BY <3>1, <3>2
  <2> HIDE DEF x, y, d, ph
  <2>7. link' = [b \in Conns |-> IF b = c THEN x ELSE y(b)]
    BY <2>1, <2>2
  <2>8. \A b \in Conns :
           /\ LinkOK(link'[b], produced, row)
           /\ link[b].phase \in {"active", "free"} => link'[b].phase \in {"active", "free"}
    BY <2>3, <2>4, <2>5, <2>6, <2>7
  <2>9. link' = [b \in Conns |-> link'[b]]
    BY <2>7
  <2>10. row' \in Rows /\ row'.last = row.last /\ row'.lifecycle = row.lifecycle
    BY <2>1, InvParts, TypeParts, RowKept
  <2>11. UNCHANGED <<clientVars, ledger, mgr>> /\ current' \in Conns \cup {NoConn}
    BY <1>1, <2>1
  <2> QED BY <1>2, <2>8, <2>9, <2>10, <2>11, RowStep
<1>4. CASE Refuse(c)
  BY <1>1, <1>4, RefuseStep
<1>5. CASE /\ link' = [link EXCEPT ![c] = [FreeLink EXCEPT !.down = link[c].down]]
           /\ UNCHANGED <<current, row, ledger>>
  BY <1>1, <1>2, <1>5, FreedLink, LinkStep
<1> QED BY <1>3, <1>4, <1>5 DEF ServerRegister

LEMMA SocketClosedStep == ASSUME Inv, NEW c \in Conns, SocketClosed(c) PROVE Inv'
<1>1. /\ link[c].phase \in {"open", "active"}
      /\ UNCHANGED <<clientVars, ledger, expired, mgr, faults>>
  BY DEF SocketClosed
<1>2. faults' \in 0..MaxFaults /\ expired' \in BOOLEAN
  BY <1>1, InvParts DEF TypeOK
<1>3. CASE link[c].phase = "active"
  <2> DEFINE x == [FreeLink EXCEPT !.down = link[c].down]
  <2>1. /\ current' \in {current, NoConn} /\ row' = Disconnected(row, c)
        /\ link' = [link EXCEPT ![c] = x]
    BY <1>3 DEF SocketClosed
  <2>2. LinkOK(x, produced, row) /\ x.phase = "free"
    BY FreedLink
  <2> HIDE DEF x
  <2>3. link' \in [Conns -> Links] /\ \A b \in Conns : LinkOK(link'[b], produced, row)
    BY <2>1, <2>2, InvParts, TypeParts, LinkAt DEF LinkInv
  <2>4. \A b \in Conns : link[b].phase \in {"active", "free"}
                         => link'[b].phase \in {"active", "free"}
    BY <2>1, <2>2, InvParts, TypeParts
  <2>5. row' \in Rows /\ row'.last = row.last /\ row'.lifecycle = row.lifecycle
    BY <2>1, InvParts, TypeParts, RowKept
  <2>6. current' \in Conns \cup {NoConn}
    BY <2>1, InvParts DEF TypeOK
  <2>7. link' = [b \in Conns |-> link'[b]]
    BY <2>3
  <2> QED BY <1>1, <1>2, <2>3, <2>4, <2>5, <2>6, <2>7, RowStep
<1>4. CASE link[c].phase = "open"
  <2> DEFINE x == IF link[c].up = <<>> THEN [FreeLink EXCEPT !.down = link[c].down]
                  ELSE [link[c] EXCEPT !.closing = TRUE, !.phase = "orphan"]
  <2>1. UNCHANGED <<current, row>> /\ link' = [link EXCEPT ![c] = x]
    BY <1>4 DEF SocketClosed
  <2>2. LinkOK(x, produced, row)
    BY <1>4, FreedLink, LinkTyped, LinkOrphaned
  <2> HIDE DEF x
  <2> QED BY <1>1, <1>2, <1>4, <2>1, <2>2, LinkStep
<1> QED BY <1>1, <1>3, <1>4

\* What arrives on a registered connection is an event that was written, and no gap.
LEMMA HeadSent ==
  ASSUME Inv, NEW c \in Conns, link[c].phase = "active", link[c].up # <<>>
  PROVE  LET e == Head(link[c].up).event
         IN  /\ e \in Events /\ e.seq \in 1..Len(produced) /\ e.seq <= row.last + 1
             /\ e = produced[e.seq]
<1>1. Head(link[c].up) \in Messages /\ Head(link[c].up) = link[c].up[1] /\ 1 \in 1..Len(link[c].up)
  BY LinkTyped, EmptySeq
<1>2. Sent(link[c], produced, row)
  BY LinkTyped DEF LinkOK
<1>3. /\ link[c].up[1].type = "event" /\ link[c].up[1].event.seq \in 1..Len(produced)
      /\ link[c].up[1].event.seq <= row.last + 1
      /\ link[c].up[1].event = produced[link[c].up[1].event.seq]
  BY <1>1, <1>2 DEF Sent
<1> QED BY <1>1, <1>3, MessageTyped

LEMMA LinkLastClose ==
  ASSUME NEW p, NEW r, NEW l, LinkOK(l, p, r), l.phase = "active"
  PROVE  LET y == IF r.lifecycle = "stopped" THEN Closing(l, 1000) ELSE l
         IN  LinkOK(y, p, r) /\ y.phase = "active"
<1>1. CASE r.lifecycle = "stopped"
  <2>1. LinkOK(Closing(l, 1000), p, r) /\ Closing(l, 1000).phase = l.phase
    BY <1>1, LinkClosing
  <2> QED BY <1>1, <2>1
<1>2. CASE r.lifecycle # "stopped"
  BY <1>2
<1> QED BY <1>1, <1>2

LEMMA LinkAcknowledged ==
  ASSUME NEW p, NEW r, r.last \in Nat, NEW l, LinkOK(l, p, r), l.phase = "active", l.up # <<>>,
         NEW d \in {l.down, Append(l.down, Accepted(r.last))}
  PROVE  LinkOK(LinkOf(Tail(l.up), d, l.phase, l.closing), p, r)
<1>1. LinkOK([l EXCEPT !.down = l.down], p, r)
  <2>1. [l EXCEPT !.down = l.down] = l
    BY SetDown, LinkFields DEF LinkOK
  <2> QED BY <2>1
<1>2. LinkOK([l EXCEPT !.down = Append(l.down, Accepted(r.last))], p, r)
  BY SeqMessage, LinkAnswer
<1>3. LinkOK([l EXCEPT !.down = d], p, r)
  BY <1>1, <1>2
<1> QED BY <1>3, LinkReply

\* An acknowledgement never claims more than the row holds.
LEMMA LinkAccepted ==
  ASSUME Inv, NEW c \in Conns, link[c].phase = "active", link[c].up # <<>>,
         NEW r \in Rows, LinkOK(link[c], produced, r)
  PROVE  LET x == LinkOf(Tail(link[c].up), Answered(c, Accepted(r.last)),
                         link[c].phase, link[c].closing)
         IN  LinkOK(x, produced, r) /\ x.phase = "active"
<1> DEFINE d == Answered(c, Accepted(r.last))
<1>1. r.last \in Nat
  BY DEF Rows
<1>2. d \in {link[c].down, Append(link[c].down, Accepted(r.last))}
  BY DEF Answered
<1> HIDE DEF d
<1>3. LinkOK(LinkOf(Tail(link[c].up), d, link[c].phase, link[c].closing), produced, r)
  BY <1>1, <1>2, LinkAcknowledged
<1>4. LinkOf(Tail(link[c].up), d, link[c].phase, link[c].closing).phase = "active"
  BY DEF LinkOf
<1> QED BY <1>3, <1>4 DEF d

Due(c) == Head(link[c].up).event
Reply(c, r) == LinkOf(Tail(link[c].up), Answered(c, Accepted(r.last)),
                      link[c].phase, link[c].closing)

\* The part of ServerAppend that persists an event.
Persisted(c) ==
  LET next == Applied(row, Due(c))
  IN  /\ link[c].phase = "active" /\ link[c].up # <<>>
      /\ MayAppend(row, c) /\ IsNext(row, ledger, Due(c))
      /\ row' = next /\ ledger' = ledger \cup {Due(c)}
      /\ link' = [link EXCEPT ![c] = IF next.lifecycle = "stopped"
                                     THEN Closing(Reply(c, next), 1000) ELSE Reply(c, next)]
      /\ UNCHANGED <<clientVars, current, expired, mgr, faults>>

\* A persisted event was the next one written, so the events stored stay a prefix.
LEMMA PersistStep == ASSUME Inv, NEW c \in Conns, Persisted(c) PROVE Inv'
<1>a. PICK e : e = Due(c)
  OBVIOUS
<1>b. PICK next : next = Applied(row, e)
  OBVIOUS
<1>c. PICK x : x = Reply(c, next)
  OBVIOUS
<1>d. PICK y : y = IF next.lifecycle = "stopped" THEN Closing(x, 1000) ELSE x
  OBVIOUS
<1>e. /\ link[c].phase = "active" /\ link[c].up # <<>>
      /\ MayAppend(row, c) /\ IsNext(row, ledger, e)
      /\ row' = next /\ ledger' = ledger \cup {e} /\ link' = [link EXCEPT ![c] = y]
      /\ UNCHANGED <<clientVars, current, expired, mgr, faults>>
  BY <1>a, <1>b, <1>c, <1>d DEF Persisted
<1>1. /\ UNCHANGED <<pc, mode, journal, disk, conn, minted, produced, exit>>
      /\ row.lifecycle # "stopped" /\ e.seq = row.last + 1 /\ row \in Rows /\ row.last \in Nat
  BY <1>e, InvParts, TypeParts DEF clientVars, MayAppend, IsNext
<1>2. e \in Events /\ e.seq \in 1..Len(produced) /\ e = produced[e.seq]
  BY <1>a, <1>e, HeadSent DEF Due
<1>3. /\ row' \in Rows /\ row'.last = row.last + 1 /\ Stored(row', ledger', produced')
  BY <1>1, <1>2, <1>b, <1>e, InvParts, TypeParts, StoredNext DEF ServerInv
<1>4. ServerInv'
  <2>1. disk'.acked <= row'.last /\ journal'.acked <= row'.last
    BY <1>1, <1>3, InvParts, TypeParts
  <2>2. exit' # "ok"
    BY <1>1, InvParts DEF ServerInv
  <2> QED BY <1>3, <2>1, <2>2 DEF ServerInv
<1>5. \A d \in Conns : LinkOK(link[d], produced, row')
  <2>1. row.last <= row'.last
    BY <1>1, <1>3
  <2>2. Later(produced, produced, row, row')
    BY <1>1, <2>1, InvParts DEF Later
  <2> QED BY <1>1, <1>3, <2>2, InvParts, TypeParts, LinkLater DEF LinkInv
<1>6. LinkOK(x, produced, next) /\ x.phase = "active"
  <2>1. next \in Rows /\ LinkOK(link[c], produced, next)
    BY <1>3, <1>5, <1>e
  <2> QED BY <2>1, <1>c, <1>e, LinkAccepted DEF Reply
<1>7. LinkOK(y, produced, row') /\ y.phase = "active"
  <2>1. LinkOK(y, produced, next) /\ y.phase = "active"
    BY <1>6, <1>d, LinkLastClose
  <2> QED BY <2>1, <1>e
<1>8. link' \in [Conns -> Links] /\ LinkInv'
  BY <1>1, <1>5, <1>7, <1>e, InvParts, TypeParts, LinkAt DEF LinkInv
<1>9. \A d \in Conns : link[d].phase \in {"active", "free"}
                        => link'[d].phase \in {"active", "free"}
  BY <1>7, <1>e, InvParts, TypeParts
<1>10. TypeOK'
  <2>1. /\ current' \in Conns \cup {NoConn} /\ faults' \in 0..MaxFaults /\ expired' \in BOOLEAN
        /\ ledger' \in SUBSET Events /\ UNCHANGED <<clientVars, mgr>>
    BY <1>2, <1>e, InvParts DEF TypeOK
  <2> QED BY <1>3, <1>8, <2>1, ServerTyped
<1> QED BY <1>1, <1>4, <1>8, <1>9, <1>10, PhaseKept, ServerFrameStep

LEMMA ServerAppendStep == ASSUME Inv, NEW c \in Conns, ServerAppend(c) PROVE Inv'
<1> DEFINE e == Head(link[c].up).event
           reply(r) == LinkOf(Tail(link[c].up), Answered(c, Accepted(r.last)),
                              link[c].phase, link[c].closing)
           next == Applied(row, e)
<1>1. /\ link[c].phase = "active" /\ link[c].up # <<>>
      /\ UNCHANGED <<clientVars, expired, mgr, faults>>
  BY DEF ServerAppend
<1>2. CASE Refuse(c)
  BY <1>1, <1>2, RefuseStep
<1>3. CASE link' = [link EXCEPT ![c] = reply(row)] /\ UNCHANGED <<current, row, ledger>>
  <2>1. LinkOK(reply(row), produced, row) /\ reply(row).phase = "active"
    BY <1>1, LinkTyped, LinkAccepted, InvParts, TypeParts
  <2> DEFINE x == reply(row)
  <2>2. LinkOK(x, produced, row) /\ x.phase = "active" /\ link' = [link EXCEPT ![c] = x]
    BY <1>3, <2>1
  <2> HIDE DEF x
  <2>3. /\ UNCHANGED <<clientVars, row, ledger, mgr>> /\ current' \in {current, NoConn}
        /\ faults' \in 0..MaxFaults /\ expired' \in BOOLEAN
    BY <1>1, <1>3, InvParts DEF TypeOK
  <2> QED BY <2>2, <2>3, LinkStep
<1>4. CASE /\ MayAppend(row, c) /\ ~IsReplay(ledger, e) /\ IsNext(row, ledger, e)
           /\ row' = next /\ ledger' = ledger \cup {e}
           /\ link' = [link EXCEPT ![c] = IF next.lifecycle = "stopped"
                                          THEN Closing(reply(next), 1000) ELSE reply(next)]
           /\ UNCHANGED current
  BY <1>1, <1>4, PersistStep DEF Persisted, Due, Reply
<1>5. \A r : [link[c] EXCEPT !.up = Tail(@), !.down = Answered(c, Accepted(r.last))] = reply(r)
  BY LinkTyped, SetUpDown, Zenon
<1> DEFINE answer(r) == [link[c] EXCEPT !.up = Tail(@), !.down = Answered(c, Accepted(r.last))]
<1>6. \/ Refuse(c)
      \/ link' = [link EXCEPT ![c] = answer(row)] /\ UNCHANGED <<current, row, ledger>>
      \/ /\ MayAppend(row, c) /\ ~IsReplay(ledger, e) /\ IsNext(row, ledger, e)
         /\ row' = next /\ ledger' = ledger \cup {e}
         /\ link' = [link EXCEPT ![c] = IF next.lifecycle = "stopped"
                                        THEN Closing(answer(next), 1000) ELSE answer(next)]
         /\ UNCHANGED current
  BY Zenon DEF ServerAppend
<1>7. answer(row) = reply(row) /\ answer(next) = reply(next)
  BY <1>5
<1> HIDE DEF answer, reply, next, e
<1> QED BY <1>2, <1>3, <1>4, <1>6, <1>7

-------------------------------------------------------------------------------
\* Faults and the runtime manager.

\* A new process of the client loads the journal file.
LEMMA CrashStep == ASSUME Inv, Crash PROVE Inv'
<1>1. /\ UNCHANGED <<disk, produced, minted, row, ledger, exit>> /\ Hangup /\ conn' = NoConn
      /\ journal' = disk /\ pc' = "down" /\ mode' = "run"
  BY DEF Crash, Hangup, serverVars
<1>2. JournalInv'
  <2>1. Chain(produced, minted) /\ Holds(disk, produced)
    BY InvParts, TypeParts, PrefixChain DEF JournalInv, Extends
  <2>2. disk.acked <= Len(produced)
    BY InvParts, TypeParts DEF ServerInv, Stored
  <2>3. Extends(produced, journal', produced', minted', mode')
    BY <1>1, <2>1, <2>2, InvParts DEF Extends, Terminal
  <2> QED BY <1>1, <2>1, <2>3, TypeParts, InvParts DEF JournalInv
<1>3. LinkInv' /\ link' \in [Conns -> Links]
  BY <1>1, InvParts, HangupLinks
<1>4. TypeOK'
  <2>1. faults' \in 0..MaxFaults
    BY InvParts, FaultCounted DEF Crash
  <2> QED BY <1>1, <1>3, <2>1, InvParts DEF TypeOK, Crash, Hangup, serverVars, Links, Lifecycles
<1>5. ServerInv'
  BY <1>1, InvParts DEF ServerInv
<1>6. ClientInv'
  BY <1>1 DEF ClientInv
<1> QED BY <1>2, <1>3, <1>4, <1>5, <1>6 DEF Inv

LEMMA ServerRestartStep == ASSUME Inv, ServerRestart PROVE Inv'
<1>1. /\ UNCHANGED <<clientVars, row, ledger, expired, mgr>> /\ current' = NoConn
      /\ link' = [c \in Conns |-> [FreeLink EXCEPT !.down = link[c].down]]
  BY DEF ServerRestart
<1>2. faults' \in 0..MaxFaults /\ expired' \in BOOLEAN
  BY <1>1, InvParts, FaultCounted DEF TypeOK, ServerRestart
<1>3. \A c \in Conns : LinkOK(link'[c], produced, row) /\ link'[c].phase = "free"
  BY <1>1, FreedLink
<1>4. link' = [c \in Conns |-> link'[c]]
  BY <1>1
<1>5. /\ UNCHANGED <<clientVars, ledger, mgr>> /\ current' \in Conns \cup {NoConn}
      /\ row' \in Rows /\ row'.last = row.last /\ row'.lifecycle = row.lifecycle
  BY <1>1, InvParts, TypeParts
<1> QED BY <1>2, <1>3, <1>4, <1>5, RowStep

LEMMA MarkStaleStep == ASSUME Inv, MarkStale PROVE Inv'
<1>1. /\ UNCHANGED <<clientVars, ledger, expired, mgr>> /\ row' = Staled(row)
      /\ faults' \in 0..MaxFaults
  BY InvParts, FaultCounted DEF MarkStale
<1>2. expired' \in BOOLEAN /\ current' \in Conns \cup {NoConn}
  BY <1>1, InvParts DEF TypeOK, MarkStale
<1>3. row' \in Rows /\ row'.last = row.last /\ row'.lifecycle = row.lifecycle
  <2>1. ASSUME NEW c \in Conns PROVE Staled(row) \in Rows
                 /\ Staled(row).last = row.last /\ Staled(row).lifecycle = row.lifecycle
    BY InvParts, TypeParts, RowKept
  <2>2. row \in Rows
    BY InvParts, TypeParts
  <2> QED BY <1>1, <2>2 DEF Staled, Rows, ConnectionStates
<1>4. ASSUME NEW c \in Conns
      PROVE  /\ LinkOK(Closing(link[c], 1008), produced, row)
             /\ Closing(link[c], 1008).phase = link[c].phase
  <2>1. LinkOK(link[c], produced, row)
    BY LinkTyped
  <2> QED BY <2>1, LinkClosing
<1>5. /\ link' = [c \in Conns |-> link'[c]]
      /\ \A c \in Conns : link'[c] \in {link[c], Closing(link[c], 1008)}
  <2>1. link \in [Conns -> Links]
    BY InvParts, TypeParts
  <2>2. CASE current # NoConn /\ current = row.session
    <3> DEFINE x == Closing(link[current], 1008)
    <3>1. link' = [link EXCEPT ![current] = x]
      BY <2>2 DEF MarkStale
    <3>2. x = Closing(link[current], 1008)
      OBVIOUS
    <3> HIDE DEF x
    <3>3. link' = [c \in Conns |-> IF c = current THEN x ELSE link[c]]
      BY <2>1, <3>1
    <3> QED BY <3>2, <3>3
  <2>3. CASE ~(current # NoConn /\ current = row.session)
    BY <2>1, <2>3 DEF MarkStale
  <2> QED BY <2>2, <2>3
<1>6. \A c \in Conns :
           /\ LinkOK(link'[c], produced, row)
           /\ link[c].phase \in {"active", "free"} => link'[c].phase \in {"active", "free"}
  BY <1>4, <1>5, LinkTyped
<1>7. link' = [c \in Conns |-> link'[c]]
  BY <1>5
<1>8. UNCHANGED <<clientVars, ledger, mgr>>
  BY <1>1
<1> QED BY <1>1, <1>2, <1>3, <1>6, <1>7, <1>8, RowStep

LEMMA RegistrationTimeoutStep ==
  ASSUME Inv, NEW c \in Conns, RegistrationTimeout(c) PROVE Inv'
<1> DEFINE x == Closing(link[c], 1008)
<1>1. LinkOK(x, produced, row) /\ x.phase = link[c].phase
  <2>1. LinkOK(link[c], produced, row)
    BY LinkTyped
  <2> QED BY <2>1, LinkClosing
<1>2. link' = [link EXCEPT ![c] = x]
  BY DEF RegistrationTimeout
<1> HIDE DEF x
<1>3. /\ UNCHANGED <<clientVars, row, ledger, mgr, expired>> /\ current' \in {current, NoConn}
      /\ faults' \in 0..MaxFaults
  BY InvParts, FaultCounted DEF RegistrationTimeout, serverVars
<1>4. expired' \in BOOLEAN /\ UNCHANGED <<clientVars, row, ledger, mgr>>
  BY <1>3, InvParts DEF TypeOK
<1> QED BY <1>1, <1>2, <1>3, <1>4, LinkStep

LEMMA ExpireStep == ASSUME Inv, Expire PROVE Inv'
<1>1. /\ UNCHANGED <<clientVars, current, row, ledger, mgr>> /\ expired' \in BOOLEAN
      /\ faults' \in 0..MaxFaults
  BY InvParts, FaultCounted DEF Expire
<1>2. link' = [c \in Conns |-> Closing(link[c], 1008)]
  BY DEF Expire
<1>3. ASSUME NEW c \in Conns
      PROVE  /\ LinkOK(Closing(link[c], 1008), produced, row)
             /\ Closing(link[c], 1008).phase = link[c].phase
  <2>1. LinkOK(link[c], produced, row)
    BY LinkTyped
  <2> QED BY <2>1, LinkClosing
<1>4. \A c \in Conns :
           /\ LinkOK(link'[c], produced, row)
           /\ link[c].phase \in {"active", "free"} => link'[c].phase \in {"active", "free"}
  BY <1>2, <1>3
<1>5. link' = [c \in Conns |-> link'[c]]
  BY <1>2
<1>6. /\ UNCHANGED <<clientVars, ledger, mgr>> /\ current' \in Conns \cup {NoConn}
      /\ row' \in Rows /\ row'.last = row.last /\ row'.lifecycle = row.lifecycle
  BY <1>1, InvParts, TypeParts DEF TypeOK
<1> QED BY <1>1, <1>4, <1>5, <1>6, RowStep

LEMMA ShutdownTimeoutStep == ASSUME Inv, ShutdownTimeout PROVE Inv'
<1>1. faults' \in 0..MaxFaults
  BY InvParts, FaultCounted DEF ShutdownTimeout
<1> QED BY <1>1, ExitStep DEF ShutdownTimeout

\* Neither the process group's state nor a pending SIGTERM is part of delivery.
LEMMA ManagerStep == ASSUME Inv, Manager PROVE Inv'
<1>1. UNCHANGED <<pc, mode, journal, disk, lastLifecycle, lastState, conn, exit, minted,
                  produced, current, row, ledger, expired, link>>
  BY DEF Manager, Started, Suspend, Resume, Resumed, ResumeFailed, Stop, Manage, Terminate,
         clientVars, serverVars
<1>2. /\ faults' \in 0..MaxFaults /\ cancelled' \in BOOLEAN
      /\ mgr' \in {"starting", "running", "suspended", "resuming", "stopping",
                   "stopping frozen"}
  <2>1. UNCHANGED faults \/ Fault
    BY DEF Manager, Started, Suspend, Resume, Resumed, ResumeFailed, Stop, Manage, Terminate
  <2>2. faults' \in 0..MaxFaults
    BY <2>1, InvParts, FaultCounted DEF TypeOK
  <2>3. mgr \in {"starting", "running", "suspended", "resuming", "stopping",
                   "stopping frozen"} /\ cancelled \in BOOLEAN
    BY InvParts DEF TypeOK
  <2>4. cancelled' = cancelled \/ cancelled' = TRUE
    BY DEF Manager, Started, Suspend, Resume, Resumed, ResumeFailed, Stop, Manage, Terminate,
         clientVars
  <2>5. mgr' \in {mgr, "running", "suspended", "resuming", "stopping", "stopping frozen"}
    BY DEF Manager, Started, Suspend, Resume, Resumed, ResumeFailed, Stop, Manage, Terminate
  <2> QED BY <2>2, <2>3, <2>4, <2>5
<1>3. TypeOK'
  <2>1. ClientTyped'
    BY <1>1, <1>2, InvParts, TypeHalves DEF ClientTyped
  <2>2. OthersTyped'
    BY <1>1, <1>2, InvParts, TypeHalves DEF OthersTyped
  <2> QED BY <2>1, <2>2 DEF TypeOK, ClientTyped, OthersTyped, Links, Rows
<1>4. JournalInv' /\ ServerInv' /\ LinkInv' /\ ClientInv'
  BY <1>1, InvParts DEF JournalInv, ServerInv, LinkInv, ClientInv
<1> QED BY <1>3, <1>4 DEF Inv

\* Every step preserves the invariant.
LEMMA NextStep == ASSUME Inv, [Next]_vars PROVE Inv'
<1>1. CASE Start
  BY <1>1, StartStep
<1>2. CASE ClientStep
  BY <1>2, GiveUpStep, SaveStep, SendStep, FlushedStep, PollStep, HeartbeatStep,
     BeginShutdownStep, DialStep, ReceiveRegisteredStep, ReceiveAcceptedStep,
     StoppedByCloseStep, ReceiveEndStep DEF ClientStep
<1>3. CASE \E c \in Conns : ServerStep(c)
  BY <1>3, ServerRegisterStep, ServerAppendStep, SocketClosedStep DEF ServerStep
<1>4. CASE Manager
  BY <1>4, ManagerStep
<1>5. CASE FaultStep
  BY <1>5, ConnectionErrorStep, CrashStep, ServerRestartStep, MarkStaleStep, ExpireStep,
     ShutdownTimeoutStep, RegistrationTimeoutStep DEF FaultStep
<1>6. CASE UNCHANGED vars
  <2>1. UNCHANGED <<pc, mode, cancelled, journal, disk, lastLifecycle, lastState, conn, exit,
                    minted, produced, current, row, ledger, expired, link, mgr, faults>>
    BY <1>6 DEF vars, clientVars, serverVars
  <2>2. UNCHANGED <<clientVars, mgr>>
    BY <2>1 DEF clientVars
  <2>3. TypeOK'
    BY <2>1, <2>2, InvParts, TypeParts, ServerTyped DEF TypeOK
  <2>4. JournalInv' /\ ServerInv' /\ LinkInv' /\ ClientInv'
    BY <2>1, InvParts DEF JournalInv, ServerInv, LinkInv, ClientInv
  <2> QED BY <2>3, <2>4 DEF Inv
<1> QED BY <1>1, <1>2, <1>3, <1>4, <1>5, <1>6 DEF Next

-------------------------------------------------------------------------------
\* The theorems.

LEMMA Always == Spec => []Inv
<1>1. Init => Inv
  BY InvInit
<1>2. Inv /\ [Next]_vars => Inv'
  BY NextStep
<1> QED BY <1>1, <1>2, PTL DEF Spec

\* The state of client, sockets, row and ledger keeps its types, whatever crashes, is
\* suspended or reconnects.
THEOREM DeliveryTyped == Spec => []TypeOK
<1>1. Inv => TypeOK
  BY DEF Inv
<1> QED BY <1>1, Always, PTL

\* The journal file and the row agree on what still has to be sent: the server stands
\* between the file's watermark and its last event, and the file holds what it still owes.
THEOREM FileAgreesWithRow == Spec => []WatermarksAgree
<1>1. ASSUME Inv PROVE WatermarksAgree
  <2>1. /\ Holds(disk, produced) /\ disk.acked <= row.last /\ row.last <= Len(produced)
        /\ disk.acked \in Nat /\ disk.events \in Seq(Events) /\ produced \in Seq(Events)
    BY <1>1, InvParts, TypeParts DEF JournalInv, ServerInv, Stored, Journals
  <2>2. Len(produced) = disk.acked + Len(disk.events) /\ Len(disk.events) \in Nat
    BY <2>1 DEF Holds
  <2> DEFINE rest == SubSeq(produced, disk.acked + 1, Len(produced))
  <2>3. /\ rest \in Seq(Events) /\ Len(rest) = Len(disk.events)
        /\ \A i \in 1..Len(disk.events) : rest[i] = produced[disk.acked + i]
    <3>1. disk.acked \in 0..Len(produced) /\ Len(produced) - disk.acked = Len(disk.events)
      BY <2>1, <2>2
    <3>2. /\ rest \in Seq(Events) /\ Len(rest) = Len(produced) - disk.acked
          /\ \A i \in 1 .. Len(produced) - disk.acked : rest[i] = produced[disk.acked + i]
      BY <2>1, <3>1, Dropped
    <3> HIDE DEF rest
    <3> QED BY <3>1, <3>2
  <2> HIDE DEF rest
  <2>4. disk.events = rest
    <3>1. \A i \in 1..Len(disk.events) : disk.events[i] = rest[i]
      BY <2>1, <2>3 DEF Holds
    <3> QED BY <2>1, <2>3, <3>1, SeqEqual
  <2> QED BY <2>1, <2>2, <2>4 DEF WatermarksAgree, Newest, rest
<1> QED BY <1>1, Always, PTL

\* A client that reports success after its shutdown has its "stopped" persisted.
THEOREM CleanExit == Spec => []CleanExitMeansStopped
<1>1. Inv => CleanExitMeansStopped
  BY DEF Inv, ServerInv, CleanExitMeansStopped
<1> QED BY <1>1, Always, PTL

\* The events stored are the first ones written, in their order.
StoredFirst ==
  /\ StoredEvents \in Seq(Events) /\ Len(StoredEvents) = row.last
  /\ \A i \in 1..row.last : StoredEvents[i] = produced[i]

LEMMA StoredIs == Inv => StoredFirst
<1> SUFFICES ASSUME Inv PROVE StoredFirst
  OBVIOUS
<1>1. /\ row.last \in Nat /\ row.last <= Len(produced) /\ Len(produced) \in Nat
      /\ ledger = {produced[n] : n \in 1..row.last} /\ produced \in Seq(Events)
      /\ \A n \in 1..row.last : n \in 1..Len(produced)
  BY InvParts, TypeParts DEF ServerInv, Stored
<1>2. \A n \in 1..row.last : produced[n].seq = n /\ produced[n] \in Events
  <2>1. Chain(produced, minted)
    BY InvParts, TypeParts, PrefixChain DEF JournalInv, Extends
  <2> QED BY <1>1, <2>1 DEF Chain
<1>3. Cardinality(ledger) = row.last
  <2> DEFINE f == [n \in 1..row.last |-> produced[n]]
  <2>1. f \in [1..row.last -> ledger]
    BY <1>1
  <2>2. \A k, n \in 1..row.last : f[k] = f[n] => k = n
    BY <1>2
  <2>3. \A e \in ledger : \E n \in 1..row.last : f[n] = e
    BY <1>1
  <2> HIDE DEF f
  <2>4. f \in Bijection(1..row.last, ledger)
    BY <2>1, <2>2, <2>3, Fun_IsBij
  <2>5. ExistsBijection(1..row.last, ledger)
    BY <2>4 DEF ExistsBijection
  <2> QED BY <1>1, <2>5, FS_CountingElements
<1>4. ASSUME NEW i \in 1..row.last
      PROVE  (CHOOSE e \in ledger : e.seq = i) = produced[i]
  <2>1. produced[i] \in ledger /\ produced[i].seq = i
    BY <1>1, <1>2
  <2>2. \A e \in ledger : e.seq = i => e = produced[i]
    BY <1>1, <1>2
  <2> QED BY <2>1, <2>2
<1>5. StoredEvents = [i \in 1..row.last |-> produced[i]]
  BY <1>3, <1>4 DEF StoredEvents
<1>6. [i \in 1..row.last |-> produced[i]] \in [1..row.last -> Events]
  BY <1>2
<1> DEFINE s == [i \in 1..row.last |-> produced[i]]
<1>7. \A i \in 1..row.last : s[i] = produced[i]
  OBVIOUS
<1>8. StoredEvents = s /\ s \in [1..row.last -> Events]
  BY <1>5, <1>6
<1> HIDE DEF s
<1>9. s \in Seq(Events) /\ Len(s) = row.last
  BY <1>1, <1>8, FunctionIsSeq
<1> QED BY <1>7, <1>8, <1>9 DEF StoredFirst

\* The handlers of the server touch neither the client nor the manager.
LEMMA ServerApart ==
  ASSUME NEW c \in Conns, ServerStep(c)
  PROVE  UNCHANGED <<clientVars, mgr>>
<1>1. CASE ServerRegister(c) BY <1>1 DEF ServerRegister
<1>2. CASE ServerAppend(c) BY <1>2 DEF ServerAppend
<1>3. CASE SocketClosed(c) BY <1>3 DEF SocketClosed
<1> QED BY <1>1, <1>2, <1>3 DEF ServerStep

\* A fault neither writes nor stores, and the row at most goes stale.
LEMMA FaultsApart ==
  ASSUME FaultStep
  PROVE  UNCHANGED <<produced, ledger>> /\ row' \in {row, Staled(row)}
<1>1. CASE ConnectionError \/ Crash
  BY <1>1 DEF ConnectionError, Lost, Crash, serverVars
<1>2. CASE ServerRestart \/ MarkStale \/ Expire
  BY <1>2 DEF ServerRestart, MarkStale, Expire, clientVars
<1>3. CASE ShutdownTimeout BY <1>3 DEF ShutdownTimeout, Exit, serverVars
<1>4. CASE \E c \in Conns : RegistrationTimeout(c)
  BY <1>4 DEF RegistrationTimeout, clientVars, serverVars
<1> QED BY <1>1, <1>2, <1>3, <1>4 DEF FaultStep

\* A step writes, or stores the next event, or does neither.
LEMMA StepShape ==
  ASSUME Inv, [Next]_vars
  PROVE  \/ UNCHANGED ledger /\ produced' \in Seq(Events) /\ Prefix(produced, produced')
         \/ UNCHANGED produced /\ row'.last = row.last + 1
<1>1. UNCHANGED <<produced, ledger>>
        => UNCHANGED ledger /\ produced' \in Seq(Events) /\ Prefix(produced, produced')
  BY InvParts, TypeParts
<1>2. CASE Start
  BY <1>1, <1>2 DEF Start, serverVars
<1>3. CASE ClientStep
  <2>1. CASE Save
    BY <2>1, InvParts, SavedEvents DEF Save, serverVars
  <2>2. CASE GiveUp \/ Send \/ Flushed \/ Poll \/ Heartbeat \/ BeginShutdown
    BY <1>1, <2>2 DEF GiveUp, Send, Flushed, Exit, Poll, Heartbeat, BeginShutdown, serverVars
  <2>3. ASSUME NEW c \in Conns,
               Dial(c) \/ ReceiveRegistered(c) \/ ReceiveAccepted(c)
                 \/ StoppedByClose(c) \/ ReceiveEnd(c)
        PROVE  UNCHANGED <<produced, ledger>>
    BY <2>3 DEF Dial, ReceiveRegistered, ReceiveAccepted, StoppedByClose, ReceiveEnd, Lost,
                serverVars
  <2> QED BY <1>1, <1>3, <2>1, <2>2, <2>3 DEF ClientStep
<1>4. ASSUME NEW c \in Conns, ServerStep(c)
      PROVE  UNCHANGED <<produced, ledger>> \/ (UNCHANGED produced /\ row'.last = row.last + 1)
  <2>1. CASE ServerRegister(c) \/ SocketClosed(c)
    <3>1. UNCHANGED clientVars BY <1>4, ServerApart
    <3>2. UNCHANGED ledger BY <2>1 DEF ServerRegister, SocketClosed, Refuse
    <3> QED BY <3>1, <3>2 DEF clientVars
  <2>2. CASE ServerAppend(c)
    <3> DEFINE e == Head(link[c].up).event
    <3>a. UNCHANGED clientVars
      BY <1>4, ServerApart
    <3>b. UNCHANGED produced
      BY <3>a DEF clientVars
    <3>1. CASE UNCHANGED ledger
      BY <3>b, <3>1
    <3>2. CASE IsNext(row, ledger, e) /\ row' = Applied(row, e)
      <4>1. e.seq = row.last + 1 /\ row \in Rows /\ UNCHANGED produced
        BY <3>2, <3>b, InvParts, TypeParts DEF IsNext
      <4> HIDE DEF e
      <4>2. Applied(row, e).last = e.seq
        BY <4>1 DEF Applied, Rows
      <4> QED BY <3>2, <4>1, <4>2
    <3> QED BY <2>2, <3>1, <3>2 DEF ServerAppend, Refuse
  <2> QED BY <1>4, <2>1, <2>2 DEF ServerStep
<1>5. CASE Manager
  BY <1>1, <1>5 DEF Manager, Started, Suspend, Resume, Resumed, ResumeFailed, Stop, Manage,
                    Terminate, clientVars, serverVars
<1>6. CASE FaultStep
  <2>1. UNCHANGED <<produced, ledger>> BY <1>6, FaultsApart
  <2> QED BY <1>1, <2>1
<1>7. CASE UNCHANGED vars
  BY <1>1, <1>7 DEF vars, clientVars, serverVars
<1> QED BY <1>1, <1>2, <1>3, <1>4, <1>5, <1>6, <1>7 DEF Next

\* The client and the server, with the socket between them, deliver every event the
\* journal file ever held to the ledger once and in order: the detailed behaviour is one
\* of the event ledger.
THEOREM DeliveryIsLedger == Spec => ExactlyOnceInOrder
<1>1. ASSUME Init PROVE Abstract!Init
  <2>1. Inv /\ produced = <<>> /\ row.last = 0
    BY <1>1, InvInit DEF Init, NewRow
  <2>2. StoredEvents \in Seq(Events) /\ Len(StoredEvents) = 0
    BY <2>1, StoredIs DEF StoredFirst
  <2>3. StoredEvents = <<>>
    BY <2>2, EmptySeq
  <2> QED BY <2>1, <2>3 DEF Abstract!Init
<1>2. ASSUME Inv, [Next]_vars
      PROVE  [Abstract!Next]_<<produced, StoredEvents>>
  <2>1. Inv'
    BY <1>2, NextStep
  <2>2. produced \in Seq(Events) /\ Len(produced) \in Nat /\ row.last \in Nat
    BY <1>2, InvParts, TypeParts
  <2>3. CASE UNCHANGED ledger /\ produced' \in Seq(Events) /\ Prefix(produced, produced')
    <3>1. StoredEvents' = StoredEvents
      BY <2>3 DEF StoredEvents
    <3>2. CASE Len(produced) = Len(produced')
      <4>1. produced' = produced
        BY <2>2, <2>3, <3>2, SeqEqual DEF Prefix
      <4> QED BY <3>1, <4>1
    <3>3. CASE Len(produced) < Len(produced')
      <4> DEFINE start == SubSeq(produced', 1, Len(produced))
      <4>1. Len(produced') \in Nat /\ 1 \in Int /\ Len(produced) \in Int
        BY <2>2, <2>3
      <4>2. \A n \in 1..Len(produced) : produced'[n] \in Events
        BY <2>2, <2>3, <3>3, <4>1
      <4>3. /\ start \in Seq(Events)
            /\ Len(start) = IF 1 <= Len(produced) THEN Len(produced) - 1 + 1 ELSE 0
            /\ \A i \in 1 .. Len(produced) - 1 + 1 : start[i] = produced'[1 + i - 1]
        BY <4>1, <4>2, SubSeqProperties
      <4> HIDE DEF start
      <4>4. Len(start) = Len(produced)
        BY <2>2, <4>3
      <4>5. \A i \in 1..Len(produced) : start[i] = produced'[i]
        BY <2>2, <4>3
      <4>6. produced = start
        BY <2>2, <2>3, <4>3, <4>4, <4>5, SeqEqual DEF Prefix
      <4> QED BY <2>3, <3>1, <3>3, <4>6 DEF Abstract!Next, Abstract!Write, start
    <3> QED BY <2>2, <2>3, <3>2, <3>3 DEF Prefix
  <2>4. CASE UNCHANGED produced /\ row'.last = row.last + 1
    <3>1. /\ StoredEvents \in Seq(Events) /\ Len(StoredEvents) = row.last
          /\ \A i \in 1..row.last : StoredEvents[i] = produced[i]
      BY <1>2, StoredIs DEF StoredFirst
    <3>2. /\ StoredEvents' \in Seq(Events) /\ Len(StoredEvents') = row'.last
          /\ \A i \in 1..row'.last : StoredEvents'[i] = produced'[i]
      <4>1. (Inv => StoredFirst)'
        BY StoredIs, PTL
      <4> QED BY <2>1, <4>1 DEF StoredFirst
    <3>3. row'.last <= Len(produced)
      BY <2>1, <2>4 DEF Inv, ServerInv, Stored
    <3> DEFINE s == StoredEvents
               t == StoredEvents'
               x == produced[Len(s) + 1]
    <3>4. s \in Seq(Events) /\ t \in Seq(Events) /\ Len(s) = row.last /\ Len(t) = row.last + 1
      BY <2>4, <3>1, <3>2
    <3>5. Len(s) < Len(produced) /\ x \in Events
      BY <2>2, <2>4, <3>3, <3>4
    <3>6. \A i \in 1..row.last : s[i] = produced[i] /\ t[i] = produced[i]
      BY <2>2, <2>4, <3>1, <3>2
    <3>7. t[row.last + 1] = x
      <4>1. row.last + 1 = row'.last /\ row.last + 1 \in 1..row'.last
        BY <2>2, <2>4
      <4>2. t[row.last + 1] = produced[row.last + 1]
        BY <2>4, <3>2, <4>1
      <4> QED BY <3>4, <4>2
    <3> HIDE DEF s, t, x
    <3>8. /\ Append(s, x) \in Seq(Events) /\ Len(Append(s, x)) = Len(s) + 1
          /\ \A i \in 1..Len(s) : Append(s, x)[i] = s[i]
          /\ Append(s, x)[Len(s) + 1] = x
      BY <3>4, <3>5, AppendProperties
    <3>9. \A i \in 1..Len(t) : t[i] = Append(s, x)[i]
      <4>1. \A i \in 1..Len(t) : i \in 1..row.last \/ i = row.last + 1
        BY <2>2, <3>4
      <4> QED BY <3>4, <3>6, <3>7, <3>8, <4>1
    <3>10. t = Append(s, x)
      BY <3>4, <3>8, <3>9, SeqEqual
    <3> QED BY <2>4, <3>5, <3>10 DEF Abstract!Next, Abstract!Store, s, t, x
  <2> QED BY <1>2, <2>3, <2>4, StepShape
<1> QED BY <1>1, <1>2, Always, PTL DEF Spec, ExactlyOnceInOrder, Abstract!Spec

\* What arrives on a registered connection is a replay of a stored event or the event
\* after the last one stored, never a gap and never a changed replay.
NoGap ==
  \A c \in Conns :
    (link[c].phase = "active" /\ link[c].up # <<>>)
    => LET e == Head(link[c].up).event
       IN  IsReplay(ledger, e) \/ (e.seq = row.last + 1 /\ Prior(ledger, e) = {})

\* However often the client crashes and reconnects, the server can refuse its next event
\* only for the lifecycle it reports, never for its number or its identity.
THEOREM EventsArriveInOrder == Spec => []NoGap
<1>1. ASSUME Inv PROVE NoGap
  <2>1. Chain(produced, minted) /\ Stored(row, ledger, produced)
    BY <1>1, InvParts, TypeParts, PrefixChain DEF JournalInv, Extends, ServerInv
  <2>2. ASSUME NEW c \in Conns, link[c].phase = "active", link[c].up # <<>>,
               NEW e, e = Head(link[c].up).event
        PROVE  IsReplay(ledger, e) \/ (e.seq = row.last + 1 /\ Prior(ledger, e) = {})
    <3>1. e \in Events /\ e.seq \in 1..Len(produced) /\ e.seq <= row.last + 1 /\ e = produced[e.seq]
      BY <1>1, <2>2, HeadSent
    <3> QED BY <1>1, <2>1, <3>1, InvParts, TypeParts, EventPlaced
  <2> QED BY <2>2 DEF NoGap
<1> QED BY <1>1, Always, PTL

-------------------------------------------------------------------------------
\* What the client reports.  The lifecycle states of the whole sequence w are those of a
\* runtime that runs, may be suspended and resumed, and once it is stopping never
\* runs again; the row's state is that of the last one stored.

Reports == {"running", "suspended", "stopping", "stopped", "other"}
Final == {"stopping", "stopped"}
Awake == {"running", "suspended"}
Leaving == {"stopping", "stopping frozen"}

Tale(w, g) ==
  /\ Len(w) > 0 => w[1].body = "running"
  /\ \A n \in 1..Len(w) : w[n].body \in Reports /\ (w[n].body \in Final => g \in Leaving)
  /\ \A k, n \in 1..Len(w) : k < n /\ w[k].body \in Final => w[n].body \notin Awake

Tells == \A w \in Seq(Events) : Holds(journal, w) /\ Prefix(produced, w) => Tale(w, mgr)
Willing == mgr # "starting" /\ (cancelled => mgr \in Leaving)
Up == pc \notin {"down", "exited"}
Begun == Up => Newest(journal) > 0
Reported ==
  /\ row.last = 0 => row.lifecycle = "starting"
  /\ row.last > 0 => \E n \in 1..row.last : produced[n].body = row.lifecycle
Report == Tells /\ Willing /\ Begun /\ Reported

\* Bodies that may be appended to the journal j while the manager is at g.
Fit(bodies, j, g) ==
  /\ bodies \in Seq(Bodies) /\ Len(bodies) > 0
  /\ Newest(j) = 0 => bodies[1] = "running"
  /\ \A i \in 1..Len(bodies) :
       /\ bodies[i] \in Reports /\ (bodies[i] \in Final => g \in Leaving)
       /\ bodies[i] \in Awake => i = 1 /\ ~(g \in Leaving /\ Newest(j) > 0)

LEMMA FitFacts ==
  ASSUME NEW j, NEW g
  PROVE  /\ Newest(j) = 0 => Fit(<<"running", "other">>, j, g)
         /\ Newest(j) > 0 /\ Newest(j) # 0 =>
              /\ Fit(<<"other">>, j, g)
              /\ g \in Leaving => Fit(<<"stopping", "stopped">>, j, g)
              /\ \A x \in Awake \cup {"stopping"} :
                   (g \in Leaving <=> x = "stopping") => Fit(<<x, "other">>, j, g)
BY DEF Fit, Reports, Final, Awake, Bodies, Lifecycles

LEMMA TalePrefix ==
  ASSUME NEW w \in Seq(Events), NEW v \in Seq(Events), Prefix(v, w), NEW g, NEW h,
         g \in Leaving => h \in Leaving, Tale(w, g)
  PROVE  Tale(v, h)
<1>1. Len(v) \in Nat /\ Len(w) \in Nat /\ \A n \in 1..Len(v) : n \in 1..Len(w) /\ v[n] = w[n]
  BY DEF Prefix
<1>2. Len(v) > 0 => Len(w) > 0 /\ v[1] = w[1]
  BY <1>1
<1> QED BY <1>1, <1>2 DEF Tale

\* The journal and what was written determine the whole.
LEMMA OneWhole ==
  ASSUME NEW j \in Journals, NEW p \in Seq(Events), j.acked <= Len(p),
         NEW w \in Seq(Events), NEW v \in Seq(Events),
         Holds(j, w), Prefix(p, w), Holds(j, v), Prefix(p, v)
  PROVE  Prefix(v, w)
<1>1. /\ Len(w) \in Nat /\ Len(v) \in Nat /\ Len(p) \in Nat /\ j.acked \in Nat
      /\ Len(j.events) \in Nat /\ Len(w) = j.acked + Len(j.events) /\ Len(v) = Len(w)
  BY DEF Journals, Holds
<1>2. ASSUME NEW n \in 1..Len(v) PROVE v[n] = w[n]
  <2>1. CASE n <= Len(p) BY <1>1, <2>1 DEF Prefix
  <2>2. CASE ~(n <= Len(p))
    <3>1. n - j.acked \in 1..Len(j.events) /\ j.acked + (n - j.acked) = n
      BY <1>1, <2>2
    <3> QED BY <3>1 DEF Holds
  <2> QED BY <2>1, <2>2
<1> QED BY <1>1, <1>2 DEF Prefix

\* What appending makes of the whole.
LEMMA AppendedWhole ==
  ASSUME minted \in Nat, NEW j \in Journals, NEW p \in Seq(Events), j.acked <= Len(p),
         NEW w \in Seq(Events), NEW v \in Seq(Events), NEW bodies \in Seq(Bodies),
         Holds(j, w), Prefix(p, w), Holds(Journaled(j, bodies), v), Prefix(p, v)
  PROVE  /\ Len(v) = Len(w) + Len(bodies) /\ Newest(Journaled(j, bodies)) = Len(v)
         /\ \A n \in 1..Len(w) : v[n] = w[n]
         /\ \A i \in 1..Len(bodies) : v[Len(w) + i].body = bodies[i]
<1> DEFINE new == [i \in 1..Len(bodies) |->
                     [seq |-> Newest(j) + i, id |-> minted + i, body |-> bodies[i]]]
           es == j.events
<1>1. /\ j.acked \in Nat /\ es \in Seq(Events) /\ j = [acked |-> j.acked, events |-> es]
      /\ Len(es) \in Nat /\ Len(bodies) \in Nat /\ Len(w) \in Nat /\ Len(v) \in Nat
      /\ Len(p) \in Nat /\ Len(w) = j.acked + Len(es) /\ Newest(j) = Len(w)
  BY DEF Journals, Holds, Newest
<1>2. new \in Seq(Events) /\ Len(new) = Len(bodies)
  <2>1. ASSUME NEW i \in 1..Len(bodies)
        PROVE  [seq |-> Newest(j) + i, id |-> minted + i, body |-> bodies[i]] \in Events
    <3>0. bodies[i] \in Bodies /\ Newest(j) \in Nat BY <1>1
    <3>1. bodies[i] \in Bodies /\ Newest(j) + i \in Nat /\ minted + i \in Nat
      BY <3>0
    <3> QED BY <3>1 DEF Events, Bodies
  <2>2. new \in [1..Len(bodies) -> Events]
    BY <2>1
  <2> HIDE DEF new
  <2> QED BY <1>1, <2>2, FunctionIsSeq
<1>3. \A i \in 1..Len(bodies) : new[i].body = bodies[i]
  OBVIOUS
<1>4. Journaled(j, bodies) = [acked |-> j.acked, events |-> es \o new]
  <2>1. \A x : [j EXCEPT !.events = x] = [acked |-> j.acked, events |-> x]
    BY <1>1
  <2> QED BY <2>1 DEF Journaled
<1> HIDE DEF new, es
<1>5. /\ Len(es \o new) = Len(es) + Len(bodies)
      /\ \A i \in 1..Len(es) : (es \o new)[i] = es[i]
      /\ \A i \in 1..Len(bodies) : (es \o new)[Len(es) + i] = new[i]
  <2>1. /\ Len(es \o new) = Len(es) + Len(new)
        /\ \A n \in 1 .. Len(es) + Len(new) :
             (es \o new)[n] = IF n <= Len(es) THEN es[n] ELSE new[n - Len(es)]
    <3>1. es \in Seq(Events) /\ new \in Seq(Events) BY <1>1, <1>2
    <3> QED BY <3>1, ConcatProperties
  <2>2. ASSUME NEW i \in 1..Len(bodies) PROVE (es \o new)[Len(es) + i] = new[i]
    <3>0. Len(es) \in Nat /\ Len(bodies) \in Nat /\ Len(new) = Len(bodies) BY <1>1, <1>2
    <3>1. /\ Len(es) + i \in 1 .. Len(es) + Len(new) /\ ~(Len(es) + i <= Len(es))
          /\ (Len(es) + i) - Len(es) = i
      BY <3>0
    <3> QED BY <2>1, <3>1
  <2> QED BY <1>1, <1>2, <2>1, <2>2
<1>6. /\ Len(v) = j.acked + Len(es \o new)
      /\ \A i \in 1..Len(es \o new) : (es \o new)[i] = v[j.acked + i]
  BY <1>4 DEF Holds
<1>7. Len(v) = Len(w) + Len(bodies) BY <1>1, <1>5, <1>6
<1>8. ASSUME NEW n \in 1..Len(w) PROVE v[n] = w[n]
  <2>1. n \in 1..Len(v) BY <1>1, <1>7
  <2>2. CASE n <= Len(p)
    <3>1. n \in 1..Len(p) BY <1>1, <2>2
    <3> QED BY <3>1 DEF Prefix
  <2>3. CASE ~(n <= Len(p))
    <3>1. PICK i \in 1..Len(es) : n = j.acked + i
      <4>1. n - j.acked \in 1..Len(es) /\ n = j.acked + (n - j.acked) BY <1>1, <2>3
      <4> QED BY <4>1
    <3>2. es[i] = w[n] BY <3>1 DEF Holds, es
    <3>3. i \in 1..Len(es \o new) BY <1>1, <1>5
    <3> QED BY <1>5, <1>6, <3>1, <3>2, <3>3
  <2> QED BY <2>2, <2>3
<1>9. ASSUME NEW i \in 1..Len(bodies) PROVE v[Len(w) + i].body = bodies[i]
  <2>1. Len(es) + i \in 1..Len(es \o new) /\ j.acked + (Len(es) + i) = Len(w) + i
    BY <1>1, <1>5
  <2>2. v[Len(w) + i] = new[i] BY <1>5, <1>6, <2>1
  <2> QED BY <1>3, <2>2
<1>10. Newest(Journaled(j, bodies)) = Len(v) BY <1>4, <1>6 DEF Newest
<1> QED BY <1>7, <1>8, <1>9, <1>10

LEMMA TaleGrows ==
  ASSUME NEW j, NEW g, NEW w \in Seq(Events), NEW v \in Seq(Events), NEW bodies,
         Fit(bodies, j, g), Newest(j) = Len(w), Len(v) = Len(w) + Len(bodies),
         \A n \in 1..Len(w) : v[n] = w[n],
         \A i \in 1..Len(bodies) : v[Len(w) + i].body = bodies[i],
         Tale(w, g)
  PROVE  Tale(v, g)
<1>1. Len(w) \in Nat /\ Len(bodies) \in Nat /\ Len(bodies) > 0 BY DEF Fit
<1>2. ASSUME NEW n \in 1..Len(v), n > Len(w)
      PROVE  \E i \in 1..Len(bodies) : n = Len(w) + i /\ v[n].body = bodies[i]
  <2>1. n - Len(w) \in 1..Len(bodies) /\ n = Len(w) + (n - Len(w)) BY <1>1, <1>2
  <2> QED BY <2>1
<1>3. v[1].body = "running"
  <2>1. CASE Len(w) = 0
    <3>1. 1 \in 1..Len(bodies) /\ Len(w) + 1 = 1 BY <1>1, <2>1
    <3> QED BY <2>1, <3>1 DEF Fit
  <2>2. CASE Len(w) > 0
    <3>1. 1 \in 1..Len(w) BY <1>1, <2>2
    <3> QED BY <2>2, <3>1 DEF Tale
  <2> QED BY <1>1, <2>1, <2>2
<1>4. ASSUME NEW n \in 1..Len(v)
      PROVE  v[n].body \in Reports /\ (v[n].body \in Final => g \in Leaving)
  <2>1. CASE n <= Len(w)
    <3>1. n \in 1..Len(w) BY <1>1, <2>1
    <3> QED BY <3>1 DEF Tale
  <2>2. CASE n > Len(w) BY <1>2, <2>2 DEF Fit
  <2> QED BY <1>1, <2>1, <2>2
<1>5. ASSUME NEW k \in 1..Len(v), NEW n \in 1..Len(v), k < n, v[k].body \in Final
      PROVE  v[n].body \notin Awake
  <2>1. CASE n <= Len(w)
    <3>1. n \in 1..Len(w) /\ k \in 1..Len(w) BY <1>1, <1>5, <2>1
    <3> QED BY <1>5, <3>1 DEF Tale
  <2>2. CASE n > Len(w)
    <3>1. PICK i \in 1..Len(bodies) : n = Len(w) + i /\ v[n].body = bodies[i] BY <1>2, <2>2
    <3>2. g \in Leaving BY <1>4, <1>5
    <3>3. CASE Len(w) > 0 BY <3>1, <3>2, <3>3 DEF Fit
    <3>4. CASE Len(w) = 0
      <4>1. i # 1 BY <1>5, <3>1, <3>4
      <4> QED BY <3>1, <4>1 DEF Fit
    <3> QED BY <1>1, <3>3, <3>4
  <2> QED BY <1>1, <2>1, <2>2
<1> QED BY <1>3, <1>4, <1>5 DEF Tale

\* A runtime that is stopping does not come back, and only then is SIGTERM sent.
LEMMA WillingStep ==
  ASSUME Willing, [Next]_vars
  PROVE  Willing' /\ (mgr \in Leaving => mgr' \in Leaving)
<1>1. CASE UNCHANGED mgr /\ (cancelled' => cancelled)
  BY <1>1 DEF Willing
<1>2. CASE Start BY <1>1, <1>2 DEF Start
<1>3. CASE ClientStep
  <2>1. CASE GiveUp \/ Save \/ Send \/ Flushed \/ Poll \/ Heartbeat \/ BeginShutdown
    BY <1>1, <2>1 DEF GiveUp, Save, Send, Flushed, Exit, Poll, Heartbeat, BeginShutdown
  <2>2. ASSUME NEW c \in Conns,
               Dial(c) \/ ReceiveRegistered(c) \/ ReceiveAccepted(c)
                 \/ StoppedByClose(c) \/ ReceiveEnd(c)
        PROVE  UNCHANGED mgr /\ (cancelled' => cancelled)
    BY <2>2 DEF Dial, ReceiveRegistered, ReceiveAccepted, StoppedByClose, ReceiveEnd, Lost
  <2> QED BY <1>1, <1>3, <2>1, <2>2 DEF ClientStep
<1>4. CASE \E c \in Conns : ServerStep(c)
  <2>1. UNCHANGED <<clientVars, mgr>> BY <1>4, ServerApart
  <2> QED BY <1>1, <2>1 DEF clientVars
<1>5. CASE Manager
  <2>1. CASE Terminate BY <2>1 DEF Willing, Leaving, Terminate
  <2>2. CASE ~Terminate
    <3>1. UNCHANGED cancelled
      BY <1>5, <2>2 DEF Manager, Started, Suspend, Resume, Resumed, ResumeFailed, Stop, Manage,
                        clientVars
    <3>2. mgr' # "starting" /\ (mgr \in Leaving => mgr' \in Leaving)
      BY <1>5, <2>2 DEF Leaving, Manager, Started, Suspend, Resume, Resumed, ResumeFailed, Stop,
                        Manage
    <3> QED BY <3>1, <3>2 DEF Willing
  <2> QED BY <2>1, <2>2
<1>6. CASE FaultStep
  <2>1. CASE ConnectionError \/ Crash
    BY <1>1, <2>1 DEF ConnectionError, Lost, Crash
  <2>2. CASE ServerRestart \/ MarkStale \/ Expire
    BY <1>1, <2>2 DEF ServerRestart, MarkStale, Expire, clientVars
  <2>3. CASE ShutdownTimeout BY <1>1, <2>3 DEF ShutdownTimeout, Exit
  <2>4. CASE \E c \in Conns : RegistrationTimeout(c)
    BY <1>1, <2>4 DEF RegistrationTimeout, clientVars
  <2> QED BY <1>6, <2>1, <2>2, <2>3, <2>4 DEF FaultStep
<1>7. CASE UNCHANGED vars BY <1>1, <1>7 DEF vars, clientVars
<1> QED BY <1>2, <1>3, <1>4, <1>5, <1>6, <1>7 DEF Next

\* What a step does to the journal.
Stays ==
  /\ UNCHANGED journal /\ produced' \in Seq(Events) /\ Prefix(produced, produced')
  /\ Up' => Up \/ Newest(journal) > 0
Reloads == UNCHANGED produced /\ journal' = disk /\ ~Up'
Shortens ==
  /\ UNCHANGED produced /\ Up
  /\ \E s \in Nat : /\ journal.acked <= s /\ s <= Len(produced)
                    /\ journal' = Acknowledge(journal, s)
Lengthens ==
  UNCHANGED <<produced, mgr>> /\ \E bodies : Fit(bodies, journal, mgr) /\ AppendEvents(bodies)
Moved == Stays \/ Reloads \/ Shortens \/ Lengthens

LEMMA UntouchedMoved ==
  ASSUME Inv, UNCHANGED <<journal, produced>>, Up' => Up
  PROVE  Moved
BY InvParts, TypeParts DEF Moved, Stays

LEMMA NewestTyped ==
  ASSUME Inv
  PROVE  Newest(journal) \in Nat /\ (Newest(journal) = 0 <=> journal.acked = 0 /\ journal.events = <<>>)
<1>1. journal.acked \in Nat /\ journal.events \in Seq(Events) /\ Len(journal.events) \in Nat
  BY InvParts, TypeParts DEF Journals
<1>2. journal.events = <<>> <=> Len(journal.events) = 0 BY <1>1, EmptySeq
<1> QED BY <1>1, <1>2 DEF Newest

LEMMA StartMoved == ASSUME Inv, Start PROVE Moved
<1>1. journal = disk /\ UNCHANGED <<produced, mgr>> BY InvParts DEF Start, JournalInv
<1>2. CASE disk.acked = 0 /\ disk.events = <<>>
  <2>1. AppendEvents(<<"running", "other">>) BY <1>1, <1>2 DEF Start, AppendEvents
  <2>2. Fit(<<"running", "other">>, journal, mgr) BY <1>1, <1>2, NewestTyped, FitFacts
  <2> QED BY <1>1, <2>1, <2>2 DEF Moved, Lengthens
<1>3. CASE ~(disk.acked = 0 /\ disk.events = <<>>)
  <2>1. UNCHANGED journal /\ Newest(journal) > 0 BY <1>1, <1>3, NewestTyped DEF Start
  <2> QED BY <1>1, <2>1, InvParts, TypeParts DEF Moved, Stays
<1> QED BY <1>2, <1>3

LEMMA ShutdownMoved ==
  ASSUME Inv, Willing, Begun, Up, cancelled, UNCHANGED <<produced, mgr>>,
         AppendEvents(<<"stopping", "stopped">>)
  PROVE  Moved
<1>1. mgr \in Leaving BY DEF Willing
<1>2. Newest(journal) > 0 /\ Newest(journal) # 0 BY NewestTyped DEF Begun
<1>3. Fit(<<"stopping", "stopped">>, journal, mgr) BY <1>1, <1>2, FitFacts
<1> QED BY <1>3 DEF Moved, Lengthens

LEMMA LostMoved ==
  ASSUME Inv, Willing, Begun, Lost, Up
  PROVE  Moved
<1>1. UNCHANGED <<produced, mgr>> BY DEF Lost
<1>2. CASE UNCHANGED journal BY <1>1, <1>2, UntouchedMoved
<1>3. CASE cancelled /\ AppendEvents(<<"stopping", "stopped">>)
  BY <1>1, <1>3, ShutdownMoved
<1> QED BY <1>2, <1>3 DEF Lost

LEMMA PollMoved == ASSUME Inv, Willing, Begun, Poll PROVE Moved
<1>1. Newest(journal) > 0 /\ Newest(journal) # 0 BY NewestTyped DEF Begun, Poll, Up
<1>2. StateFile \in Awake \cup {"stopping"} /\ (mgr \in Leaving <=> StateFile = "stopping")
  BY InvParts DEF TypeOK, Willing, StateFile, Awake, Leaving
<1>3. PICK bodies \in {<<StateFile, "other">>, <<"other">>} : AppendEvents(bodies)
  BY DEF Poll
<1>4. Fit(bodies, journal, mgr) BY <1>1, <1>2, <1>3, FitFacts
<1> QED BY <1>3, <1>4 DEF Moved, Lengthens, Poll

LEMMA AcknowledgeMoved ==
  ASSUME Inv, NEW c \in Conns, Up, UNCHANGED produced,
         \/ ReceiveRegistered(c) \/ ReceiveAccepted(c) \/ StoppedByClose(c)
  PROVE  Moved
<1>1. /\ journal.acked \in Nat /\ row.last \in Nat /\ row.last <= Len(produced) /\ Len(produced) \in Nat
      /\ journal.acked <= row.last
  BY InvParts, TypeParts DEF ServerInv, Stored
<1>2. CASE ReceiveRegistered(c)
  <2>1. /\ link[c].down # <<>> /\ Head(link[c].down).type = "registered"
        /\ Head(link[c].down).seq >= journal.acked
        /\ journal' = Acknowledge(journal, Head(link[c].down).seq)
    BY <1>2 DEF ReceiveRegistered, Head1
  <2>2. PICK s : s = Head(link[c].down).seq OBVIOUS
  <2>3. s \in Nat /\ s <= row.last BY <2>1, <2>2, HeadTold
  <2>4. journal.acked <= s /\ s <= Len(produced) BY <1>1, <2>1, <2>2, <2>3
  <2> QED BY <2>1, <2>2, <2>3, <2>4 DEF Moved, Shortens
<1>3. CASE ReceiveAccepted(c)
  <2>1. /\ journal' = Acknowledge(journal, Head(journal.events).seq) /\ pc = "awaiting"
    BY <1>3 DEF ReceiveAccepted
  <2>2. journal' = Acknowledge(journal, journal.acked + 1) /\ journal.acked + 1 <= Len(produced)
    BY <1>1, <2>1, AwaitedNext
  <2> QED BY <1>1, <2>2 DEF Moved, Shortens
<1>4. CASE StoppedByClose(c)
  <2>1. /\ journal' = Acknowledge(journal, Head(journal.events).seq) /\ pc = "awaiting"
    BY <1>4 DEF StoppedByClose
  <2>2. journal' = Acknowledge(journal, journal.acked + 1) /\ journal.acked + 1 <= Len(produced)
    BY <1>1, <2>1, AwaitedNext
  <2> QED BY <1>1, <2>2 DEF Moved, Shortens
<1> QED BY <1>2, <1>3, <1>4

LEMMA MovedStep ==
  ASSUME Inv, Willing, Begun, [Next]_vars
  PROVE  Moved
<1>1. CASE Start BY <1>1, StartMoved
<1>2. CASE ClientStep
  <2>1. CASE Save
    <3>1. journal' = journal /\ Up BY <2>1 DEF Save, Up
    <3> QED BY <2>1, <3>1, InvParts, SavedEvents DEF Moved, Stays
  <2>2. CASE GiveUp \/ Send \/ Flushed
    <3>1. UNCHANGED <<journal, produced>> /\ Up BY <2>2 DEF GiveUp, Send, Flushed, Exit, Up
    <3> QED BY <3>1, UntouchedMoved
  <2>3. CASE Poll BY <2>3, PollMoved
  <2>4. CASE Heartbeat
    <3>1. Newest(journal) > 0 /\ Newest(journal) # 0 BY <2>4, NewestTyped DEF Begun, Heartbeat, Up
    <3>2. Fit(<<"other">>, journal, mgr) BY <3>1, FitFacts
    <3> QED BY <2>4, <3>2 DEF Moved, Lengthens, Heartbeat
  <2>5. CASE BeginShutdown
    <3>1. /\ Up /\ cancelled /\ UNCHANGED <<produced, mgr>>
          /\ AppendEvents(<<"stopping", "stopped">>)
      BY <2>5 DEF BeginShutdown, Up
    <3> QED BY <3>1, ShutdownMoved
  <2>6. ASSUME NEW c \in Conns, Dial(c) PROVE Moved
    BY <2>6, UntouchedMoved DEF Dial, Up
  <2>7. ASSUME NEW c \in Conns, ReceiveRegistered(c) \/ ReceiveAccepted(c) \/ StoppedByClose(c)
        PROVE  Moved
    <3>1. Up /\ UNCHANGED produced
      BY <2>7 DEF ReceiveRegistered, ReceiveAccepted, StoppedByClose, Up
    <3> QED BY <2>7, <3>1, AcknowledgeMoved
  <2>8. ASSUME NEW c \in Conns, ReceiveEnd(c) PROVE Moved
    BY <2>8, LostMoved DEF ReceiveEnd, Connected, Up
  <2> QED BY <1>2, <2>1, <2>2, <2>3, <2>4, <2>5, <2>6, <2>7, <2>8 DEF ClientStep
<1>3. CASE \E c \in Conns : ServerStep(c)
  <2>1. UNCHANGED clientVars BY <1>3, ServerApart
  <2> QED BY <2>1, UntouchedMoved DEF clientVars, Up
<1>4. CASE Manager
  <2>1. UNCHANGED <<journal, produced, pc>>
    BY <1>4 DEF Manager, Started, Suspend, Resume, Resumed, ResumeFailed, Stop, Manage, Terminate,
                clientVars
  <2> QED BY <2>1, UntouchedMoved DEF Up
<1>5. CASE FaultStep
  <2>1. CASE ConnectionError BY <2>1, LostMoved DEF ConnectionError, Connected, Up
  <2>2. CASE Crash BY <2>2 DEF Crash, Moved, Reloads, Up
  <2>3. CASE ShutdownTimeout
    <3>1. UNCHANGED <<journal, produced>> /\ ~Up'
      BY <2>3 DEF ShutdownTimeout, Exit, Up
    <3> QED BY <3>1, UntouchedMoved
  <2>4. CASE ServerRestart \/ MarkStale \/ Expire \/ \E c \in Conns : RegistrationTimeout(c)
    <3>1. UNCHANGED clientVars BY <2>4 DEF ServerRestart, MarkStale, Expire, RegistrationTimeout
    <3> QED BY <3>1, UntouchedMoved DEF clientVars, Up
  <2> QED BY <1>5, <2>1, <2>2, <2>3, <2>4 DEF FaultStep
<1>6. CASE UNCHANGED vars
  <2>1. UNCHANGED <<journal, produced, pc>> BY <1>6 DEF vars, clientVars
  <2> QED BY <2>1, UntouchedMoved DEF Up
<1> QED BY <1>1, <1>2, <1>3, <1>4, <1>5, <1>6 DEF Next

LEMMA TellsStep ==
  ASSUME Inv, Inv', Tells, Moved, mgr \in Leaving => mgr' \in Leaving
  PROVE  Tells' /\ (Begun => Begun')
<1>1. PICK w \in Seq(Events) : Extends(w, journal, produced, minted, mode)
  BY InvParts DEF JournalInv
<1>2. /\ Holds(journal, w) /\ Prefix(produced, w) /\ Chain(w, minted) /\ Tale(w, mgr)
      /\ journal \in Journals /\ produced \in Seq(Events) /\ minted \in Nat
      /\ journal.acked \in Nat /\ journal.acked <= Len(produced) /\ Len(produced) \in Nat
      /\ Len(w) \in Nat /\ Len(produced) <= Len(w) /\ Len(w) = Newest(journal)
  <2>1. /\ journal \in Journals /\ produced \in Seq(Events) /\ minted \in Nat
        /\ journal.acked \in Nat /\ Len(produced) \in Nat /\ Len(w) \in Nat
    BY InvParts, TypeParts
  <2>2. /\ Holds(journal, w) /\ Prefix(produced, w) /\ Chain(w, minted)
        /\ journal.acked <= Len(produced)
    BY <1>1 DEF Extends
  <2>3. Tale(w, mgr) BY <2>2 DEF Tells
  <2>4. Len(produced) <= Len(w) /\ Len(w) = Newest(journal) BY <2>2 DEF Prefix, Holds, Newest
  <2> QED BY <2>1, <2>2, <2>3, <2>4
<1>3. CASE Stays
  <2>1. ASSUME NEW v \in Seq(Events), Holds(journal', v), Prefix(produced', v) PROVE Tale(v, mgr')
    <3>1. Holds(journal, v) /\ Prefix(produced, v)
      <4>1. Len(produced') \in Nat /\ Len(v) \in Nat BY <1>3 DEF Stays
      <4> QED BY <1>2, <1>3, <2>1, <4>1 DEF Stays, Prefix
    <3>2. Prefix(v, v) BY PrefixSelf
    <3>3. Tale(v, mgr) BY <3>1 DEF Tells
    <3> QED BY <3>2, <3>3, TalePrefix
  <2>2. Begun => Begun' BY <1>3 DEF Stays, Begun, Newest
  <2> QED BY <2>1, <2>2 DEF Tells
<1>4. CASE Reloads
  <2>1. ASSUME NEW v \in Seq(Events), Holds(journal', v), Prefix(produced', v) PROVE Tale(v, mgr')
    <3>1. Holds(disk, produced) /\ Holds(disk, v) /\ Prefix(produced, v)
      BY <1>4, <2>1, InvParts DEF JournalInv, Reloads
    <3>2. Len(v) = Len(produced) BY <3>1 DEF Holds
    <3>3. Prefix(v, w) BY <1>2, <3>1, <3>2 DEF Prefix
    <3> QED BY <1>2, <3>3, TalePrefix
  <2>2. Begun' BY <1>4 DEF Reloads, Begun
  <2> QED BY <2>1, <2>2 DEF Tells
<1>5. CASE Shortens
  <2>1. PICK s \in Nat : /\ journal.acked <= s /\ s <= Len(produced)
                         /\ journal' = Acknowledge(journal, s)
    BY <1>5 DEF Shortens
  <2>2. s <= Len(w) BY <1>2, <2>1
  <2>3. journal' \in Journals /\ journal'.acked = s /\ Holds(journal', w)
    BY <1>2, <2>1, <2>2, AcknowledgeOK
  <2>4. UNCHANGED produced /\ Up BY <1>5 DEF Shortens
  <2>5. PICK k : k = journal' OBVIOUS
  <2>6. ASSUME NEW v \in Seq(Events), Holds(k, v), Prefix(produced, v) PROVE Tale(v, mgr')
    <3>1. Prefix(v, w) BY <1>2, <2>1, <2>3, <2>5, <2>6, OneWhole
    <3> QED BY <1>2, <3>1, TalePrefix
  <2>7. Newest(k) = Newest(journal) BY <1>2, <2>3, <2>5 DEF Holds, Newest
  <2>8. Begun => Begun' BY <2>4, <2>5, <2>7 DEF Begun, Newest
  <2> QED BY <2>4, <2>5, <2>6, <2>8 DEF Tells
<1>6. CASE Lengthens
  <2>1. PICK bodies : Fit(bodies, journal, mgr) /\ journal' = Journaled(journal, bodies)
    BY <1>6 DEF Lengthens, AppendEvents
  <2>2. UNCHANGED <<produced, mgr>> BY <1>6 DEF Lengthens
  <2>3. bodies \in Seq(Bodies) /\ Len(bodies) \in Nat /\ Len(bodies) > 0 BY <2>1 DEF Fit
  <2>t. /\ minted \in Nat /\ journal \in Journals /\ produced \in Seq(Events)
        /\ w \in Seq(Events)
    BY <1>2, TypeParts
  <2>4. ASSUME NEW v \in Seq(Events), Holds(Journaled(journal, bodies), v), Prefix(produced, v)
        PROVE  Tale(v, mgr) /\ Newest(Journaled(journal, bodies)) > 0
    <3>0. journal.acked <= Len(produced) /\ Holds(journal, w) /\ Prefix(produced, w) BY <1>2
    <3>1. /\ Len(v) = Len(w) + Len(bodies) /\ Newest(Journaled(journal, bodies)) = Len(v)
          /\ \A n \in 1..Len(w) : v[n] = w[n]
          /\ \A i \in 1..Len(bodies) : v[Len(w) + i].body = bodies[i]
      BY <2>t, <2>3, <2>4, <3>0, AppendedWhole
    <3>2. Tale(v, mgr) BY <1>2, <2>1, <3>1, TaleGrows
    <3> QED BY <1>2, <2>3, <3>1, <3>2
  <2>5. Tells' BY <2>1, <2>2, <2>4 DEF Tells
  <2>6. PICK v \in Seq(Events) : Extends(v, journal', produced', minted', mode')
    BY DEF Inv, JournalInv
  <2>7. Newest(Journaled(journal, bodies)) > 0 BY <2>1, <2>2, <2>4, <2>6 DEF Extends
  <2> QED BY <2>1, <2>5, <2>7 DEF Begun, Newest
<1> QED BY <1>3, <1>4, <1>5, <1>6 DEF Moved

\* What the row says is what was reported last.
LEMMA ReportedStep ==
  ASSUME Inv, Tells, Reported, [Next]_vars
  PROVE  Reported'
<1>1. /\ row \in Rows /\ row.last \in Nat /\ row.last <= Len(produced) /\ Len(produced) \in Nat
  BY InvParts, TypeParts DEF ServerInv, Stored
<1>2. CASE /\ row'.last = row.last /\ row'.lifecycle = row.lifecycle
           /\ produced' \in Seq(Events) /\ Prefix(produced, produced')
  <2>1. \A n \in 1..row.last : produced'[n] = produced[n] BY <1>1, <1>2 DEF Prefix
  <2> QED BY <1>2, <2>1 DEF Reported
<1>3. ASSUME NEW c \in Conns, link[c].phase = "active", link[c].up # <<>>, UNCHANGED produced,
             NEW e, e = Head(link[c].up).event, IsNext(row, ledger, e), row' = Applied(row, e)
      PROVE  Reported'
  <2>1. e.seq = row.last + 1 /\ e.seq \in 1..Len(produced) /\ e = produced[e.seq] /\ e \in Events
    BY <1>3, HeadSent DEF IsNext
  <2>2. /\ row'.last = e.seq
        /\ row'.lifecycle = IF e.body \in Lifecycles THEN e.body ELSE row.lifecycle
    BY <1>1, <1>3 DEF Applied, Rows
  <2>3. e.body \in Lifecycles \/ row.last > 0
    <3>1. SUFFICES ASSUME row.last = 0 PROVE e.body = "running" BY <1>1 DEF Lifecycles
    <3>2. PICK w \in Seq(Events) : Extends(w, journal, produced, minted, mode)
      BY InvParts DEF JournalInv
    <3>3. Tale(w, mgr) /\ Prefix(produced, w) BY <3>2 DEF Extends, Tells
    <3>4. Len(w) \in Nat /\ Len(w) > 0 /\ produced[1] = w[1] BY <1>1, <2>1, <3>1, <3>3 DEF Prefix
    <3> QED BY <2>1, <3>1, <3>3, <3>4 DEF Tale
  <2>4. CASE e.body \in Lifecycles
    <3>1. row'.last \in 1..row'.last BY <1>1, <2>1, <2>2
    <3> QED BY <1>1, <1>3, <2>1, <2>2, <2>4, <3>1 DEF Reported
  <2>5. CASE e.body \notin Lifecycles
    <3>1. PICK n \in 1..row.last : produced[n].body = row.lifecycle BY <2>3, <2>5 DEF Reported
    <3>2. n \in 1..row'.last /\ row'.last > 0 BY <1>1, <2>1, <2>2
    <3> QED BY <1>3, <2>2, <2>5, <3>1, <3>2 DEF Reported
  <2> QED BY <2>4, <2>5
<1>4. UNCHANGED <<produced, row>> => Reported' BY DEF Reported
<1>5. CASE Start BY <1>4, <1>5 DEF Start, serverVars
<1>6. CASE ClientStep
  <2>1. CASE Save
    <3>1. UNCHANGED row BY <2>1 DEF Save, serverVars
    <3> QED BY <1>2, <2>1, <3>1, InvParts, SavedEvents
  <2>2. CASE GiveUp \/ Send \/ Flushed \/ Poll \/ Heartbeat \/ BeginShutdown
    BY <1>4, <2>2 DEF GiveUp, Send, Flushed, Exit, Poll, Heartbeat, BeginShutdown, serverVars
  <2>3. ASSUME NEW c \in Conns,
               Dial(c) \/ ReceiveRegistered(c) \/ ReceiveAccepted(c)
                 \/ StoppedByClose(c) \/ ReceiveEnd(c)
        PROVE  UNCHANGED <<produced, row>>
    BY <2>3 DEF Dial, ReceiveRegistered, ReceiveAccepted, StoppedByClose, ReceiveEnd, Lost,
                serverVars
  <2> QED BY <1>4, <1>6, <2>1, <2>2, <2>3 DEF ClientStep
<1>7. ASSUME NEW c \in Conns, ServerStep(c) PROVE Reported'
  <2>0. UNCHANGED clientVars BY <1>7, ServerApart
  <2>1. UNCHANGED produced /\ produced \in Seq(Events) /\ Prefix(produced, produced)
    BY <2>0, InvParts, TypeParts DEF clientVars
  <2>2. CASE row' \in {row, Registered(row, c), Disconnected(row, c)}
    <3>1. row'.last = row.last /\ row'.lifecycle = row.lifecycle BY <1>1, <2>2, RowKept
    <3> QED BY <1>2, <2>1, <3>1
  <2>3. CASE ServerAppend(c) /\ row' # row
    <3>1. PICK e : e = Head(link[c].up).event OBVIOUS
    <3>2. /\ link[c].phase = "active" /\ link[c].up # <<>> /\ IsNext(row, ledger, e)
          /\ row' = Applied(row, e)
      BY <2>3, <3>1 DEF ServerAppend, Refuse
    <3> QED BY <1>3, <2>1, <3>1, <3>2
  <2> QED BY <1>7, <2>2, <2>3 DEF ServerStep, ServerRegister, SocketClosed, Refuse
<1>8. CASE Manager
  BY <1>4, <1>8 DEF Manager, Started, Suspend, Resume, Resumed, ResumeFailed, Stop, Manage,
                    Terminate, clientVars, serverVars
<1>9. CASE FaultStep
  <2>0. UNCHANGED produced /\ row' \in {row, Staled(row)} BY <1>9, FaultsApart
  <2>1. UNCHANGED produced /\ produced \in Seq(Events) /\ Prefix(produced, produced)
    BY <2>0, InvParts, TypeParts
  <2>2. row' \in {row, Staled(row)} BY <2>0
  <2>3. row'.last = row.last /\ row'.lifecycle = row.lifecycle
    BY <1>1, <2>2 DEF Staled, Rows
  <2> QED BY <1>2, <2>1, <2>3
<1>10. CASE UNCHANGED vars BY <1>4, <1>10 DEF vars, clientVars, serverVars
<1> QED BY <1>5, <1>6, <1>7, <1>8, <1>9, <1>10 DEF Next

\* The next event reports a state that may follow the row's.
LEMMA MayFollow ==
  ASSUME Inv, Report, NEW e, e \in Events, e.seq = row.last + 1, e.seq \in 1..Len(produced),
         e = produced[e.seq], row.lifecycle # "stopped", e.body \in Lifecycles
  PROVE  ValidTransition(row.lifecycle, e.body)
<1>1. PICK w \in Seq(Events) : Extends(w, journal, produced, minted, mode)
  BY InvParts DEF JournalInv
<1>2. /\ Chain(produced, minted) /\ Prefix(produced, w) /\ Tale(w, mgr) /\ produced \in Seq(Events)
      /\ minted \in Nat
  BY <1>1, InvParts, TypeParts, PrefixChain DEF Extends, Report, Tells
<1>3. Tale(produced, mgr) BY <1>2, TalePrefix
<1>4. row.last \in Nat /\ row.last <= Len(produced) /\ Len(produced) \in Nat /\ row.lifecycle \in Lifecycles
  BY InvParts, TypeParts DEF ServerInv, Stored, Rows
<1>5. e.body \in Reports BY <1>3 DEF Tale
<1>6. CASE row.last = 0
  <2>1. e.body = "running" BY <1>3, <1>4, <1>6 DEF Tale
  <2>2. row.lifecycle = "starting" BY <1>6 DEF Report, Reported
  <2> QED BY <2>1, <2>2 DEF ValidTransition
<1>7. CASE row.last > 0
  <2>1. PICK n \in 1..row.last : produced[n].body = row.lifecycle BY <1>7 DEF Report, Reported
  <2>2. n \in 1..Len(produced) /\ n < e.seq BY <1>4
  <2>3. row.lifecycle \in Reports \ {"other", "stopped"} BY <1>3, <1>4, <2>1, <2>2 DEF Tale, Lifecycles
  <2>4. row.lifecycle \in Final => e.body \notin Awake BY <1>3, <2>1, <2>2 DEF Tale
  <2>5. e.body = "stopped" => row.lifecycle = "stopping"
    <3>1. ASSUME e.body = "stopped" PROVE produced[e.seq - 1].body = "stopping"
      BY <1>2, <3>1 DEF Chain
    <3>2. e.seq - 1 = row.last BY <1>4
    <3> QED BY <1>7, <3>1, <3>2, InvParts DEF ServerInv, Stored, Lifecycles
  <2> QED BY <1>5, <2>3, <2>4, <2>5 DEF Reports, Final, Awake, Lifecycles, ValidTransition
<1> QED BY <1>4, <1>6, <1>7

\* A client whose runtime was running when it started never sends the server an event
\* that is refused, however often either process dies, connections break and the
\* runtime is suspended and resumed: not for its number, its identity or its state.
THEOREM NoneRefused ==
  ASSUME InitialState = "running" PROVE Spec => []NoEventRefused
<1>1. ASSUME Init PROVE Report
  <2>1. mgr = "running" /\ ~cancelled /\ ~Up /\ row.last = 0 /\ row.lifecycle = "starting"
    BY <1>1 DEF Init, NewRow, Up
  <2>2. Willing /\ Begun /\ Reported BY <2>1 DEF Willing, Begun, Reported
  <2>3. ASSUME NEW w \in Seq(Events), Holds(journal, w) PROVE Tale(w, mgr)
    <3>1. journal.acked = 0 /\ journal.events = <<>> BY <1>1 DEF Init
    <3>2. Len(w) = 0 BY <2>3, <3>1 DEF Holds
    <3> QED BY <3>2 DEF Tale
  <2> QED BY <2>2, <2>3 DEF Report, Tells
<1>2. Inv /\ Report /\ [Next]_vars => Report'
  <2> SUFFICES ASSUME Inv, Report, [Next]_vars PROVE Report'
    OBVIOUS
  <2>1. Willing' /\ (mgr \in Leaving => mgr' \in Leaving) BY WillingStep DEF Report
  <2>2. Tells' /\ Begun' BY <2>1, NextStep, MovedStep, TellsStep DEF Report
  <2>3. Reported' BY ReportedStep DEF Report
  <2> QED BY <2>1, <2>2, <2>3 DEF Report
<1>3. ASSUME Inv, Report PROVE NoEventRefused
  <2> SUFFICES ASSUME NEW c \in Conns, link[c].phase = "active", link[c].up # <<>>,
                      MayAppend(row, c), NEW e, e = Head(link[c].up).event
               PROVE  IsReplay(ledger, e) \/ IsNext(row, ledger, e)
    BY DEF NoEventRefused
  <2>1. e \in Events /\ e.seq \in 1..Len(produced) /\ e.seq <= row.last + 1 /\ e = produced[e.seq]
    BY <1>3, HeadSent
  <2>2. Chain(produced, minted) /\ Stored(row, ledger, produced)
    BY <1>3, InvParts, TypeParts, PrefixChain DEF JournalInv, Extends, ServerInv
  <2>3. IsReplay(ledger, e) \/ (e.seq = row.last + 1 /\ Prior(ledger, e) = {})
    BY <1>3, <2>1, <2>2, InvParts, TypeParts, EventPlaced
  <2>4. row.lifecycle # "stopped" BY DEF MayAppend
  <2> QED BY <1>3, <2>1, <2>3, <2>4, MayFollow DEF IsNext
<1> QED BY <1>1, <1>2, <1>3, Always, PTL DEF Spec
===============================================================================
