------------------------- MODULE RuntimeSessionProofs -------------------------
(***************************************************************************)
(* Proofs that the session authority of RuntimeSession keeps its promises  *)
(* for any number of generations, credentials, sockets and events.         *)
(***************************************************************************)
EXTENDS RuntimeSession, TLAPS

-------------------------------------------------------------------------------
\* Types.

\* A socket in use carries the scope its credential had when it was opened, and
\* only a socket in use is alive.
ScopedSockets ==
  {x \in Sockets : /\ x.phase # "free" => x.gen \in Gens /\ x.cred \in Creds
                   /\ x.phase = "free" => ~x.alive}

TypeInv == TypeOK /\ sock \in [Socks -> ScopedSockets]

LEMMA FreeSocketScoped == FreeSocket \in ScopedSockets
BY DEF FreeSocket, ScopedSockets, Sockets, NoSession

\* The updates of a socket that the actions are made of.
LEMMA SocketUpdates ==
  ASSUME NEW x \in ScopedSockets
  PROVE  /\ [x EXCEPT !.closing = TRUE] \in ScopedSockets
         /\ [x EXCEPT !.alive = FALSE] \in ScopedSockets
         /\ x.phase # "free" => [x EXCEPT !.phase = "active"] \in ScopedSockets
BY DEF ScopedSockets, Sockets

LEMMA RegisteredSocket ==
  ASSUME NEW x \in ScopedSockets, x.phase # "free", NEW n \in Nat
  PROVE  [x EXCEPT !.phase = "registered", !.session = n] \in ScopedSockets
BY DEF ScopedSockets, Sockets

LEMMA ClosedByScoped ==
  ASSUME sock \in [Socks -> ScopedSockets], NEW closing
  PROVE  ClosedBy(closing) \in [Socks -> ScopedSockets]
BY SocketUpdates DEF ClosedBy

\* The updates of a row.
LEMMA RowUpdates ==
  ASSUME NEW r \in Generations, NEW n \in Nat
  PROVE  /\ Registered(r, n) \in Generations
         /\ Disconnected(r, n) \in Generations
         /\ Staled(r) \in Generations
         /\ [r EXCEPT !.conn = "superseded", !.superseded = TRUE,
                      !.session = NoSession] \in Generations
         /\ \A c \in Creds \cup {None} :
              [r EXCEPT !.known = TRUE, !.conn = "connecting",
                        !.session = NoSession, !.cred = c] \in Generations
BY DEF Registered, Disconnected, Staled, Generations, ConnectionStates, NoSession

LEMMA AppliedType ==
  ASSUME NEW r \in Generations, NEW e \in Events
  PROVE  Applied(r, e) \in Generations
<1> DEFINE lifecycle == IF e.body \in Lifecycles THEN e.body ELSE r.lifecycle
           conn == IF e.body = "stopped" THEN "stopped" ELSE r.conn
<1>1. e.seq \in Nat /\ lifecycle \in Lifecycles /\ conn \in ConnectionStates
  BY BoundsAssumption DEF Events, Generations, ConnectionStates
<1>2. Applied(r, e) = [r EXCEPT !.last = e.seq, !.lifecycle = lifecycle, !.conn = conn]
  BY DEF Applied
<1> HIDE DEF lifecycle, conn
<1>3. QED
  BY <1>1, <1>2 DEF Generations

LEMMA InitTypeInv == Init => TypeInv
BY FreeSocketScoped
DEF Init, TypeInv, TypeOK, Generations, Credentials, ScopedSockets,
    NoSession, Lifecycles, ConnectionStates

LEMMA NextTypeInv == TypeInv /\ [Next]_vars => TypeInv'
<1> SUFFICES ASSUME TypeInv, [Next]_vars
             PROVE  TypeInv'
  OBVIOUS
<1>a. sock \in [Socks -> ScopedSockets] /\ TypeOK
  BY DEF TypeInv
<1>b. ASSUME sock' \in [Socks -> ScopedSockets]
      PROVE  sock' \in [Socks -> Sockets]
  BY <1>b DEF ScopedSockets
<1>1. ASSUME NEW g \in Gens, NEW c \in Creds, Issue(g, c)
      PROVE  TypeInv'
  <2>1. gen' \in [Gens -> Generations]
    <3> DEFINE d == IF gen[g].superseded THEN gen[g].cred ELSE c
    <3>1. d \in Creds \cup {None}
      BY <1>a DEF TypeOK, Generations
    <3>2. ASSUME NEW p \in Gens
          PROVE  gen'[p] \in Generations
      <4>1. gen[p] \in Generations
        BY <1>a DEF TypeOK
      <4>2. CASE p = g
        <5>1. gen'[p] = [gen[g] EXCEPT !.known = TRUE, !.conn = "connecting",
                                       !.session = NoSession, !.cred = d]
          BY <1>1, <4>2 DEF Issue
        <5> HIDE DEF d
        <5>2. QED
          BY <3>1, <4>1, <4>2, <5>1, RowUpdates
      <4>3. CASE p # g
        <5>1. \/ gen'[p] = gen[p]
              \/ gen'[p] = [gen[p] EXCEPT !.conn = "superseded", !.superseded = TRUE,
                                          !.session = NoSession]
          BY <1>1, <4>3 DEF Issue
        <5>2. QED
          BY <4>1, <5>1, RowUpdates
      <4>4. QED
        BY <4>2, <4>3
    <3>3. gen' = [p \in Gens |-> gen'[p]]
      BY <1>1 DEF Issue
    <3>4. QED
      BY <3>2, <3>3
  <2>2. cred' \in [Creds -> Credentials]
    <3>1. cred' = [d \in Creds |-> cred'[d]]
      BY <1>1 DEF Issue
    <3>2. ASSUME NEW d \in Creds
          PROVE  cred'[d] \in Credentials
      <4>1. cred[d] \in Credentials
        BY <1>a DEF TypeOK
      <4>2. cred'[d] \in {[cred[d] EXCEPT !.gen = g], [cred[d] EXCEPT !.revoked = TRUE],
                         cred[d]}
        BY <1>1 DEF Issue
      <4>3. QED
        BY <4>1, <4>2 DEF Credentials
    <3>3. QED
      BY <3>1, <3>2
  <2>3. QED
    BY <1>1, <1>a, <2>1, <2>2 DEF Issue, served, TypeInv, TypeOK
<1>2. ASSUME NEW c \in Creds, Revoke(c)
      PROVE  TypeInv'
  BY <1>2, <1>a DEF Revoke, TypeInv, TypeOK, Credentials
<1>3. ASSUME NEW c \in Creds, CloseRevoked(c)
      PROVE  TypeInv'
  BY <1>3, <1>a, <1>b, ClosedByScoped DEF CloseRevoked, stored, TypeInv, TypeOK
<1>4. ASSUME NEW c \in Creds, Expire(c)
      PROVE  TypeInv'
  BY <1>4, <1>a DEF Expire, served, TypeInv, TypeOK, Credentials
<1>5. ASSUME NEW s \in Socks, CloseExpired(s)
      PROVE  TypeInv'
  BY <1>5, <1>a, <1>b, ClosedByScoped DEF CloseExpired, stored, TypeInv, TypeOK
<1>6. ASSUME NEW s \in Socks, NEW c \in Creds, Connect(s, c)
      PROVE  TypeInv'
  <2>1. ASSUME NEW g \in Gens
        PROVE  [FreeSocket EXCEPT !.phase = "open", !.alive = TRUE,
                                  !.cred = c, !.gen = g] \in ScopedSockets
    BY DEF FreeSocket, ScopedSockets, Sockets, NoSession
  <2>2. sock' \in [Socks -> ScopedSockets]
    BY <1>6, <1>a, <2>1 DEF Connect
  <2>3. QED
    BY <1>6, <1>a, <1>b, <2>2 DEF Connect, stored, TypeInv, TypeOK
<1>7. ASSUME NEW s \in Socks, NEW resume \in 0..MaxSequence,
             RegisterStore(s, resume)
      PROVE  TypeInv'
  <2>1. sock[s] \in ScopedSockets /\ sock[s].gen \in Gens /\ sessions \in Nat
    BY <1>7, <1>a DEF RegisterStore, TypeOK, ScopedSockets
  <2>2. gen' \in [Gens -> Generations] /\ sessions' \in Nat
    <3>1. \/ gen' = gen /\ sessions' = sessions
          \/ /\ gen' = [gen EXCEPT ![sock[s].gen] = Registered(@, sessions + 1)]
             /\ sessions' = sessions + 1
      BY <1>7 DEF RegisterStore
    <3>2. gen[sock[s].gen] \in Generations /\ sessions + 1 \in Nat
      BY <1>a, <2>1 DEF TypeOK
    <3>3. Registered(gen[sock[s].gen], sessions + 1) \in Generations
      BY <3>2, RowUpdates
    <3>4. QED
      BY <1>a, <2>1, <3>1, <3>3 DEF TypeOK
  <2>3. sock' \in [Socks -> ScopedSockets]
    <3> DEFINE n == sessions + 1
    <3>a. sock[s].phase # "free" /\ n \in Nat
      BY <1>7, <2>1 DEF RegisterStore
    <3>1. [sock[s] EXCEPT !.phase = "registered", !.session = n] \in ScopedSockets
      <4> HIDE DEF n
      <4>1. QED
        BY <2>1, <3>a, RegisteredSocket
    <3>2. \/ sock' = [sock EXCEPT ![s] = [sock[s] EXCEPT !.phase = "registered",
                                                         !.session = n]]
          \/ sock' = ClosedBy({s})
          \/ sock' = [sock EXCEPT ![s] = FreeSocket]
      BY <1>7, <1>a DEF RegisterStore
    <3>3. QED
      BY <1>a, <3>1, <3>2, ClosedByScoped, FreeSocketScoped
  <2>4. QED
    BY <1>7, <1>a, <1>b, <2>2, <2>3 DEF RegisterStore, TypeInv, TypeOK
<1>8. ASSUME NEW s \in Socks, RegisterMap(s)
      PROVE  TypeInv'
  <2>1. sock[s] \in ScopedSockets /\ sock[s].phase = "registered"
    BY <1>8, <1>a DEF RegisterMap
  <2>2. map' \in Entries
    BY <1>8, <2>1 DEF RegisterMap, Entries, ScopedSockets, Sockets
  <2>3. sock' \in [Socks -> ScopedSockets]
    <3> DEFINE others == IF map = NoEntry THEN sock ELSE ClosedBy({map.sock} \ {s})
               own == IF sock[s].alive THEN [sock[s] EXCEPT !.phase = "active"]
                      ELSE FreeSocket
    <3>1. others \in [Socks -> ScopedSockets]
      BY <1>a, ClosedByScoped
    <3>2. own \in ScopedSockets
      BY <2>1, SocketUpdates, FreeSocketScoped
    <3>3. sock' = [others EXCEPT ![s] = own]
      BY <1>8 DEF RegisterMap
    <3> HIDE DEF others, own
    <3>4. QED
      BY <3>1, <3>2, <3>3
  <2>4. QED
    BY <1>8, <1>a, <1>b, <2>2, <2>3 DEF RegisterMap, stored, TypeInv, TypeOK
<1>9. ASSUME NEW s \in Socks, NEW e \in Events, AppendEvent(s, e)
      PROVE  TypeInv'
  <2>1. sock[s].gen \in Gens /\ sock[s].session \in Nat
    BY <1>9, <1>a DEF AppendEvent, ScopedSockets, Sockets
  <2>2. Applied(gen[sock[s].gen], e) \in Generations
    BY <1>a, <2>1, AppliedType DEF TypeOK
  <2>3. gen' \in [Gens -> Generations] /\ ledger' \in [Gens -> SUBSET Events]
    <3> DEFINE g == sock[s].gen
    <3>1. \/ gen' = gen /\ ledger' = ledger
          \/ /\ gen' = [gen EXCEPT ![g] = Applied(gen[g], e)]
             /\ ledger' = [ledger EXCEPT ![g] = @ \cup {e}]
      BY <1>9 DEF AppendEvent
    <3>2. gen \in [Gens -> Generations] /\ ledger \in [Gens -> SUBSET Events]
      BY <1>a DEF TypeOK
    <3>3. QED
      BY <2>1, <2>2, <3>1, <3>2
  <2>4. writers' \in [Gens -> Seq(Nat)]
    <3> DEFINE g == sock[s].gen
    <3>1. \/ writers' = writers
          \/ writers' = [writers EXCEPT ![g] = Append(@, sock[s].session)]
      BY <1>9 DEF AppendEvent
    <3>2. writers[g] \in Seq(Nat)
      BY <1>a, <2>1 DEF TypeOK
    <3>3. Append(writers[g], sock[s].session) \in Seq(Nat)
      BY <2>1, <3>2
    <3>4. writers \in [Gens -> Seq(Nat)]
      BY <1>a DEF TypeOK
    <3>5. QED
      BY <2>1, <3>1, <3>3, <3>4
  <2>5. sock' \in [Socks -> ScopedSockets]
    BY <1>9, <1>a, ClosedByScoped DEF AppendEvent
  <2>6. QED
    BY <1>9, <1>a, <1>b, <2>3, <2>4, <2>5 DEF AppendEvent, TypeInv, TypeOK
<1>10. ASSUME NEW s \in Socks, CloseEvent(s)
       PROVE  TypeInv'
  <2>1. \/ sock' = [sock EXCEPT ![s] = [sock[s] EXCEPT !.alive = FALSE]]
        \/ sock' = [sock EXCEPT ![s] = FreeSocket]
    BY <1>10, <1>a DEF CloseEvent
  <2>2. sock' \in [Socks -> ScopedSockets]
    <3>1. PICK x \in ScopedSockets : sock' = [sock EXCEPT ![s] = x]
      BY <1>a, <2>1, SocketUpdates, FreeSocketScoped
    <3>2. QED
      BY <1>a, <3>1
  <2>3. QED
    BY <1>10, <1>a, <1>b, <2>2 DEF CloseEvent, stored, TypeInv, TypeOK
<1>11. ASSUME NEW s \in Socks, DisconnectStore(s)
       PROVE  TypeInv'
  <2>1. sock[s].gen \in Gens /\ sock[s].session \in Nat
    BY <1>11, <1>a DEF DisconnectStore, ScopedSockets, Sockets
  <2>2. gen' \in [Gens -> Generations]
    BY <1>11, <1>a, <2>1, RowUpdates DEF DisconnectStore, TypeOK
  <2>3. sock' \in [Socks -> ScopedSockets]
    BY <1>11, <1>a, FreeSocketScoped DEF DisconnectStore
  <2>4. QED
    BY <1>11, <1>a, <1>b, <2>2, <2>3 DEF DisconnectStore, TypeInv, TypeOK
<1>12. ASSUME NEW g \in Gens, MarkStale(g)
       PROVE  TypeInv'
  <2>1. gen[g] \in Generations /\ gen[g].session \in Nat
    BY <1>a DEF TypeOK, Generations
  <2>2. gen' \in [Gens -> Generations]
    BY <1>12, <1>a, <2>1, RowUpdates DEF MarkStale, TypeOK
  <2>3. staleCloses' \in SUBSET Snapshots
    BY <1>12, <1>a, <2>1 DEF MarkStale, TypeOK, Snapshots
  <2>4. QED
    BY <1>12, <1>a, <2>2, <2>3 DEF MarkStale, TypeInv, TypeOK
<1>13. ASSUME NEW x \in staleCloses, CloseStale(x)
       PROVE  TypeInv'
  BY <1>13, <1>a, <1>b, ClosedByScoped DEF CloseStale, stored, TypeInv, TypeOK
<1>14. CASE Restart
  BY <1>14, <1>a, <1>b, FreeSocketScoped DEF Restart, stored, TypeInv, TypeOK
<1>15. CASE UNCHANGED vars
  BY <1>15, <1>a DEF vars, stored, served, TypeInv, TypeOK
<1>16. QED
  BY <1>1, <1>2, <1>3, <1>4, <1>5, <1>6, <1>7, <1>8, <1>9, <1>10, <1>11, <1>12,
     <1>13, <1>14, <1>15
  DEF Next, Launch, Handle, Cleanup

\* Every variable keeps its type, for all constants: launches, the handlers of the
\* gateway and the cleanup never store a value the columns or the map cannot hold.
THEOREM TypeCorrect == Spec => []TypeOK
<1>1. Spec => []TypeInv
  BY InitTypeInv, NextTypeInv, PTL DEF Spec
<1>2. TypeInv => TypeOK
  BY DEF TypeInv
<1>3. QED
  BY <1>1, <1>2, PTL

-------------------------------------------------------------------------------
\* What one step may do to the row of one generation.

SameRecord(g) == ledger'[g] = ledger[g] /\ writers'[g] = writers[g]

RowKept(g) == gen'[g] = gen[g] /\ SameRecord(g)

RowIssued(g) ==
  /\ SameRecord(g)
  /\ \A p \in Gens \ {g} : ~Live(p)'
  /\ \E c \in Creds \cup {None} :
       gen'[g] = [gen[g] EXCEPT !.known = TRUE, !.conn = "connecting",
                                !.session = NoSession, !.cred = c]

RowSuperseded(g) ==
  /\ SameRecord(g)
  /\ gen'[g] = [gen[g] EXCEPT !.conn = "superseded", !.superseded = TRUE,
                              !.session = NoSession]

RowRegistered(g) ==
  /\ SameRecord(g) /\ Live(g) /\ gen[g].lifecycle # "stopped"
  /\ sessions' = sessions + 1
  /\ gen'[g] = Registered(gen[g], sessions + 1)

RowMarked(g) ==
  /\ SameRecord(g) /\ Live(g) /\ MayTurnStale(gen[g])
  /\ \/ gen'[g] = [gen[g] EXCEPT !.conn = "disconnected"]
     \/ gen'[g] = Staled(gen[g])

RowAppended(g) ==
  /\ Live(g) /\ gen[g].lifecycle # "stopped" /\ gen[g].conn = "online"
  /\ \E e \in Events :
       /\ IsNext(gen[g], ledger[g], e)
       /\ gen'[g] = Applied(gen[g], e)
       /\ ledger'[g] = ledger[g] \cup {e}
       /\ writers'[g] = Append(writers[g], gen[g].session)

RowStep(g) == \/ RowKept(g) \/ RowIssued(g) \/ RowSuperseded(g)
              \/ RowRegistered(g) \/ RowMarked(g) \/ RowAppended(g)

LEMMA UnchangedRow ==
  ASSUME UNCHANGED <<gen, ledger, writers>>, NEW g
  PROVE  RowStep(g)
BY DEF RowStep, RowKept, SameRecord

LEMMA RowSteps ==
  ASSUME TypeInv, [Next]_vars, NEW g \in Gens
  PROVE  RowStep(g)
<1>a. /\ sock \in [Socks -> ScopedSockets] /\ gen \in [Gens -> Generations]
      /\ ledger \in [Gens -> SUBSET Events] /\ writers \in [Gens -> Seq(Nat)]
  BY DEF TypeInv, TypeOK
<1>1. ASSUME NEW h \in Gens, NEW c \in Creds, Issue(h, c)
      PROVE  RowStep(g)
  <2>1. SameRecord(g)
    BY <1>1 DEF Issue, SameRecord
  <2>2. CASE g = h
    <3> DEFINE d == IF gen[h].superseded THEN gen[h].cred ELSE c
    <3>1. d \in Creds \cup {None}
      BY <1>a DEF Generations
    <3>2. gen'[g] = [gen[g] EXCEPT !.known = TRUE, !.conn = "connecting",
                                   !.session = NoSession, !.cred = d]
      BY <1>1, <2>2 DEF Issue
    <3>3. ASSUME NEW p \in Gens \ {g}
          PROVE  ~Live(p)'
      BY <1>1, <1>a, <2>2 DEF Issue, Live, Generations
    <3> HIDE DEF d
    <3>4. QED
      BY <2>1, <3>1, <3>2, <3>3 DEF RowStep, RowIssued
  <2>3. CASE g # h
    BY <1>1, <2>1, <2>3 DEF Issue, RowStep, RowKept, RowSuperseded
  <2>4. QED
    BY <2>2, <2>3
<1>2. ASSUME NEW s \in Socks, NEW resume \in 0..MaxSequence,
             RegisterStore(s, resume)
      PROVE  RowStep(g)
  <2>1. sock[s].gen \in Gens
    BY <1>2, <1>a DEF RegisterStore, ScopedSockets
  <2>2. SameRecord(g)
    BY <1>2 DEF RegisterStore, SameRecord
  <2>3. CASE /\ g = sock[s].gen
             /\ Authorised(g, sock[s].cred) /\ MayRegister(gen[g], resume)
    BY <1>2, <1>a, <2>2, <2>3
    DEF RegisterStore, RowStep, RowRegistered, Authorised, MayRegister
  <2>4. CASE ~(/\ g = sock[s].gen
               /\ Authorised(g, sock[s].cred) /\ MayRegister(gen[g], resume))
    BY <1>2, <1>a, <2>1, <2>2, <2>4 DEF RegisterStore, RowStep, RowKept
  <2>5. QED
    BY <2>3, <2>4
<1>3. ASSUME NEW s \in Socks, NEW e \in Events, AppendEvent(s, e)
      PROVE  RowStep(g)
  <2> DEFINE h == sock[s].gen
  <2>1. h \in Gens
    BY <1>3, <1>a DEF AppendEvent, ScopedSockets
  <2>2. \/ UNCHANGED <<gen, ledger, writers>>
        \/ /\ Authorised(h, sock[s].cred) /\ MayAppend(gen[h], sock[s].session)
           /\ IsNext(gen[h], ledger[h], e)
           /\ gen' = [gen EXCEPT ![h] = Applied(gen[h], e)]
           /\ ledger' = [ledger EXCEPT ![h] = @ \cup {e}]
           /\ writers' = [writers EXCEPT ![h] = Append(@, sock[s].session)]
    BY <1>3 DEF AppendEvent
  <2>3. CASE /\ g = h /\ Authorised(h, sock[s].cred)
             /\ MayAppend(gen[h], sock[s].session) /\ IsNext(gen[h], ledger[h], e)
             /\ gen'[g] = Applied(gen[g], e)
             /\ ledger'[g] = ledger[g] \cup {e}
             /\ writers'[g] = Append(writers[g], sock[s].session)
    BY <2>3 DEF RowStep, RowAppended, Authorised, MayAppend
  <2>4. CASE RowKept(g)
    BY <2>4 DEF RowStep
  <2>5. QED
    BY <1>a, <2>1, <2>2, <2>3, <2>4 DEF RowKept, SameRecord
<1>4. ASSUME NEW s \in Socks, DisconnectStore(s)
      PROVE  RowStep(g)
  <2>1. sock[s].gen \in Gens
    BY <1>4, <1>a DEF DisconnectStore, ScopedSockets
  <2>2. SameRecord(g)
    BY <1>4 DEF DisconnectStore, SameRecord
  <2>3. QED
    BY <1>4, <1>a, <2>1, <2>2
    DEF DisconnectStore, Disconnected, RowStep, RowKept, RowMarked, MayTurnStale
<1>5. ASSUME NEW h \in Gens, MarkStale(h)
      PROVE  RowStep(g)
  BY <1>5, <1>a DEF MarkStale, RowStep, RowKept, RowMarked, SameRecord
<1>6. QED
  <2>1. ASSUME NEW c \in Creds, Revoke(c) \/ CloseRevoked(c) \/ Expire(c)
        PROVE  RowStep(g)
    BY <2>1, UnchangedRow DEF Revoke, CloseRevoked, Expire, stored
  <2>2. ASSUME NEW s \in Socks,
               \/ \E c \in Creds : Connect(s, c)
               \/ RegisterMap(s) \/ CloseEvent(s) \/ CloseExpired(s)
        PROVE  RowStep(g)
    BY <2>2, UnchangedRow DEF Connect, RegisterMap, CloseEvent, CloseExpired, stored
  <2>3. ASSUME \/ \E x \in staleCloses : CloseStale(x)
               \/ Restart \/ UNCHANGED vars
        PROVE  RowStep(g)
    BY <2>3, UnchangedRow DEF CloseStale, Restart, vars, stored
  <2>4. QED
    BY <1>1, <1>2, <1>3, <1>4, <1>5, <2>1, <2>2, <2>3
    DEF Next, Launch, Handle, Cleanup

\* Registrations only ever create the next session identifier.
LEMMA SessionsGrow ==
  ASSUME TypeInv, [Next]_vars
  PROVE  sessions' \in {sessions, sessions + 1}
BY DEF Next, Launch, Handle, Cleanup, Issue, Revoke, CloseRevoked, Expire, Connect,
       RegisterStore, RegisterMap, AppendEvent, CloseEvent, DisconnectStore,
       CloseExpired, MarkStale, CloseStale, Restart, vars, stored, served

-------------------------------------------------------------------------------
\* One live generation.

LEMMA NextOneLive ==
  ASSUME TypeInv, OneLiveGeneration, [Next]_vars
  PROVE  OneLiveGeneration'
<1> SUFFICES ASSUME NEW g \in Gens, NEW h \in Gens, Live(g)', Live(h)', g # h
             PROVE  FALSE
  BY DEF OneLiveGeneration
<1>1. ASSUME NEW p \in Gens, Live(p)', ~RowIssued(p)
      PROVE  Live(p)
  <2>1. gen[p] \in Generations /\ RowStep(p)
    BY RowSteps DEF TypeInv, TypeOK
  <2>2. QED
    BY <1>1, <2>1
    DEF RowStep, RowKept, RowSuperseded, RowRegistered, RowMarked, RowAppended,
        Live, Generations, Registered, Staled, Applied
<1>2. ~RowIssued(g) /\ ~RowIssued(h)
  BY DEF RowIssued
<1>3. QED
  BY <1>1, <1>2 DEF OneLiveGeneration

\* No history of launches, revocations, retries and registrations leaves a workspace
\* with two generations that could both be authorised to write.
THEOREM OneLive == Spec => []OneLiveGeneration
<1>1. Init => TypeInv /\ OneLiveGeneration
  BY InitTypeInv DEF Init, OneLiveGeneration, Live
<1>2. TypeInv /\ OneLiveGeneration /\ [Next]_vars => TypeInv' /\ OneLiveGeneration'
  BY NextTypeInv, NextOneLive
<1>3. QED
  BY <1>1, <1>2, PTL DEF Spec

-------------------------------------------------------------------------------
\* The rows, the ledger and the sessions.

\* Sessions of rows are sessions that were created; what a row that is online was
\* written by is not later than its own session.
SessionsInOrder ==
  \A g \in Gens :
    /\ gen[g].session <= sessions
    /\ \A i \in 1..Len(writers[g]) :
         /\ writers[g][i] <= sessions
         /\ gen[g].conn = "online" => writers[g][i] <= gen[g].session

RowInv == /\ TypeInv /\ LedgerMatchesRow /\ SnapshotsExist
          /\ SessionsInOrder /\ WritersInOrder

LEMMA InitRowInv == Init => RowInv
<1> SUFFICES ASSUME Init PROVE RowInv
  OBVIOUS
<1>1. TypeInv
  BY InitTypeInv
<1>2. LedgerMatchesRow /\ SnapshotsExist
  BY DEF Init, LedgerMatchesRow, SnapshotsExist, Live
<1>3. SessionsInOrder /\ WritersInOrder
  BY DEF Init, SessionsInOrder, WritersInOrder, NoSession
<1>4. QED
  BY <1>1, <1>2, <1>3 DEF RowInv

LEMMA NextLedger ==
  ASSUME TypeInv, LedgerMatchesRow, [Next]_vars
  PROVE  LedgerMatchesRow'
<1> SUFFICES ASSUME NEW g \in Gens
             PROVE  (/\ {e.seq : e \in ledger[g]} = 1..gen[g].last
                     /\ \A d, e \in ledger[g] : d.seq = e.seq \/ d.id = e.id => d = e)'
  BY DEF LedgerMatchesRow
<1>a. /\ {e.seq : e \in ledger[g]} = 1..gen[g].last
      /\ \A d, e \in ledger[g] : d.seq = e.seq \/ d.id = e.id => d = e
  BY DEF LedgerMatchesRow
<1>b. gen[g] \in Generations /\ gen[g].last \in Nat /\ RowStep(g)
  BY RowSteps DEF TypeInv, TypeOK, Generations
<1>1. CASE RowAppended(g)
  <2>1. PICK e \in Events : /\ IsNext(gen[g], ledger[g], e)
                            /\ gen'[g] = Applied(gen[g], e)
                            /\ ledger'[g] = ledger[g] \cup {e}
    BY <1>1 DEF RowAppended
  <2>2. gen'[g].last = gen[g].last + 1 /\ e.seq = gen[g].last + 1
    BY <1>b, <2>1 DEF Applied, IsNext, Generations
  <2>3. {d.seq : d \in ledger'[g]} = {d.seq : d \in ledger[g]} \cup {e.seq}
    BY <2>1
  <2>4. 1..(gen[g].last + 1) = 1..gen[g].last \cup {gen[g].last + 1}
    BY <1>b
  <2>5. \A d \in ledger[g] : d.seq # e.seq /\ d.id # e.id
    BY <2>1 DEF IsNext, Prior
  <2>6. {d.seq : d \in ledger'[g]} = 1..gen'[g].last
    BY <1>a, <2>2, <2>3, <2>4
  <2>7. \A c, d \in ledger'[g] : c.seq = d.seq \/ c.id = d.id => c = d
    BY <1>a, <2>1, <2>5
  <2>8. QED
    BY <2>6, <2>7
<1>2. CASE ~RowAppended(g)
  <2>1. ledger'[g] = ledger[g] /\ gen'[g].last = gen[g].last
    BY <1>b, <1>2
    DEF RowStep, RowKept, RowIssued, RowSuperseded, RowRegistered, RowMarked,
        SameRecord, Registered, Staled, Generations
  <2>2. QED
    BY <1>a, <2>1
<1>3. QED
  BY <1>1, <1>2

LEMMA NextSnapshots ==
  ASSUME TypeInv, SnapshotsExist, [Next]_vars
  PROVE  SnapshotsExist'
<1> SUFFICES ASSUME NEW g \in Gens, Live(g)',
                    gen'[g].conn \in {"online", "disconnected", "stale"}
             PROVE  gen'[g].session # NoSession
  BY DEF SnapshotsExist
<1>a. gen[g] \in Generations /\ RowStep(g) /\ sessions \in Nat
  BY RowSteps DEF TypeInv, TypeOK
<1>b. Live(g) /\ gen[g].conn \in {"online", "disconnected", "stale"}
      => gen[g].session # NoSession
  BY DEF SnapshotsExist
<1>1. CASE RowKept(g)
  BY <1>1, <1>b DEF RowKept, Live
<1>2. CASE RowIssued(g) \/ RowSuperseded(g)
  BY <1>2, <1>a DEF RowIssued, RowSuperseded, Live, Generations
<1>3. CASE RowRegistered(g)
  BY <1>3, <1>a DEF RowRegistered, Registered, Generations, NoSession
<1>4. CASE RowMarked(g)
  BY <1>4, <1>a, <1>b DEF RowMarked, MayTurnStale, Staled, Generations
<1>5. CASE RowAppended(g)
  BY <1>5, <1>a, <1>b DEF RowAppended, Applied, Generations
<1>6. QED
  BY <1>1, <1>2, <1>3, <1>4, <1>5, <1>a DEF RowStep

LEMMA NextSessions ==
  ASSUME TypeInv, SessionsInOrder, [Next]_vars
  PROVE  SessionsInOrder'
<1> SUFFICES ASSUME NEW g \in Gens
             PROVE  (/\ gen[g].session <= sessions
                     /\ \A i \in 1..Len(writers[g]) :
                          /\ writers[g][i] <= sessions
                          /\ gen[g].conn = "online" => writers[g][i] <= gen[g].session)'
  BY DEF SessionsInOrder
<1>a. /\ gen[g] \in Generations /\ gen[g].session \in Nat /\ sessions \in Nat
      /\ sessions' \in {sessions, sessions + 1} /\ RowStep(g)
      /\ writers[g] \in Seq(Nat)
  BY RowSteps, SessionsGrow DEF TypeInv, TypeOK, Generations
<1>b. \A i \in 1..Len(writers[g]) : writers[g][i] \in Nat
  BY <1>a
<1>c. /\ gen[g].session <= sessions
      /\ \A i \in 1..Len(writers[g]) :
           /\ writers[g][i] <= sessions
           /\ gen[g].conn = "online" => writers[g][i] <= gen[g].session
  BY DEF SessionsInOrder
<1>1. CASE RowKept(g)
  BY <1>1, <1>a, <1>b, <1>c DEF RowKept, SameRecord
<1>2. CASE RowIssued(g) \/ RowSuperseded(g) \/ RowMarked(g)
  <2>1. /\ gen'[g].session \in {gen[g].session, NoSession}
        /\ gen'[g].conn # "online" /\ writers'[g] = writers[g]
    BY <1>2, <1>a
    DEF RowIssued, RowSuperseded, RowMarked, Staled, SameRecord, Generations
  <2>2. QED
    BY <1>a, <1>b, <1>c, <2>1 DEF NoSession
<1>3. CASE RowRegistered(g)
  <2>1. /\ gen'[g].session = sessions + 1 /\ sessions' = sessions + 1
        /\ writers'[g] = writers[g]
    BY <1>3, <1>a DEF RowRegistered, Registered, SameRecord, Generations
  <2>2. QED
    BY <1>a, <1>b, <1>c, <2>1
<1>4. CASE RowAppended(g)
  <2>1. /\ gen'[g].session = gen[g].session /\ gen[g].conn = "online"
        /\ writers'[g] = Append(writers[g], gen[g].session)
    BY <1>4, <1>a DEF RowAppended, Applied, Generations
  <2>2. \A i \in 1..Len(writers'[g]) : writers'[g][i] <= gen[g].session
    <3>1. Len(writers'[g]) = Len(writers[g]) + 1
      BY <1>a, <2>1
    <3>2. \A i \in 1..Len(writers'[g]) :
            writers'[g][i] = IF i <= Len(writers[g]) THEN writers[g][i]
                             ELSE gen[g].session
      BY <1>a, <2>1, <3>1
    <3>3. QED
      BY <1>a, <1>b, <1>c, <2>1, <3>1, <3>2
  <2>3. \A i \in 1..Len(writers'[g]) : writers'[g][i] \in Nat
    BY <1>a, <2>1
  <2>4. QED
    BY <1>a, <1>c, <2>1, <2>2, <2>3
<1>5. QED
  BY <1>1, <1>2, <1>3, <1>4, <1>a DEF RowStep

LEMMA NextWriters ==
  ASSUME TypeInv, SessionsInOrder, WritersInOrder, [Next]_vars
  PROVE  WritersInOrder'
<1> SUFFICES ASSUME NEW g \in Gens,
                    NEW i \in 1..Len(writers'[g]), NEW j \in 1..Len(writers'[g]),
                    i <= j
             PROVE  writers'[g][i] <= writers'[g][j]
  BY DEF WritersInOrder
<1>a. gen[g].session \in Nat /\ RowStep(g) /\ writers[g] \in Seq(Nat)
  BY RowSteps DEF TypeInv, TypeOK, Generations
<1>1. CASE RowAppended(g)
  <2>1. writers'[g] = Append(writers[g], gen[g].session)
        /\ Len(writers'[g]) = Len(writers[g]) + 1
    BY <1>1, <1>a DEF RowAppended
  <2>2. CASE j = Len(writers[g]) + 1
    <3>1. writers'[g][j] = gen[g].session
      BY <1>a, <2>1, <2>2
    <3>2. CASE i = j
      BY <1>a, <3>1, <3>2
    <3>3. CASE i # j
      <4>1. i \in 1..Len(writers[g]) /\ writers'[g][i] = writers[g][i]
        BY <1>a, <2>1, <2>2, <3>3
      <4>2. QED
        BY <1>1, <3>1, <4>1 DEF RowAppended, SessionsInOrder
    <3>4. QED
      BY <3>2, <3>3
  <2>3. CASE j # Len(writers[g]) + 1
    <3>1. /\ i \in 1..Len(writers[g]) /\ writers'[g][i] = writers[g][i]
          /\ j \in 1..Len(writers[g]) /\ writers'[g][j] = writers[g][j]
      BY <1>a, <2>1, <2>3
    <3>2. QED
      BY <3>1 DEF WritersInOrder
  <2>4. QED
    BY <2>2, <2>3
<1>2. CASE ~RowAppended(g)
  <2>1. writers'[g] = writers[g]
    BY <1>a, <1>2
    DEF RowStep, RowKept, RowIssued, RowSuperseded, RowRegistered, RowMarked, SameRecord
  <2>2. QED
    BY <2>1 DEF WritersInOrder
<1>3. QED
  BY <1>1, <1>2

LEMMA RowInvariant == Spec => []RowInv
<1>1. RowInv /\ [Next]_vars => RowInv'
  BY NextTypeInv, NextLedger, NextSnapshots, NextSessions, NextWriters DEF RowInv
<1>2. QED
  BY InitRowInv, <1>1, PTL DEF Spec

\* Whatever clients send, replay and retry, a row's last sequence and its ledger stay
\* in step, and no sequence number or event identifier is taken twice.
THEOREM LedgerExact == Spec => []LedgerMatchesRow
<1>1. RowInv => LedgerMatchesRow
  BY DEF RowInv
<1>2. QED
  BY RowInvariant, <1>1, PTL

\* A session that was replaced never stores an event after its successor did.
THEOREM SingleWriter == Spec => []WritersInOrder
<1>1. RowInv => WritersInOrder
  BY DEF RowInv
<1>2. QED
  BY RowInvariant, <1>1, PTL

\* The conversion of a row into a snapshot never meets a live row without a session.
THEOREM SnapshotsDefined == Spec => []SnapshotsExist
<1>1. RowInv => SnapshotsExist
  BY DEF RowInv
<1>2. QED
  BY RowInvariant, <1>1, PTL

\* Nothing is appended to a superseded or stopped generation, and neither a launch
\* nor a registration brings it back.
THEOREM ClosedForGood == Spec => ClosedStaysClosed
<1> DEFINE Stays(g) ==
      Closed(g) => /\ Closed(g)' /\ (gen[g].superseded => gen'[g].superseded)
                   /\ ledger'[g] = ledger[g] /\ gen'[g].last = gen[g].last
                   /\ gen'[g].lifecycle = gen[g].lifecycle
<1>1. ASSUME TypeInv, [Next]_vars, NEW g \in Gens
      PROVE  Stays(g)
  <2>1. gen[g] \in Generations /\ RowStep(g)
    BY <1>1, RowSteps DEF TypeInv, TypeOK
  <2>2. CASE RowKept(g) \/ RowSuperseded(g)
    BY <2>1, <2>2 DEF RowKept, RowSuperseded, SameRecord, Closed, Generations
  <2>3. CASE RowIssued(g)
    BY <2>1, <2>3 DEF RowIssued, SameRecord, Closed, Generations
  <2>4. CASE RowRegistered(g)
    BY <2>1, <2>4 DEF RowRegistered, Closed, Live
  <2>5. CASE RowMarked(g)
    BY <2>1, <2>5 DEF RowMarked, SameRecord, Staled, Closed, Live, Generations
  <2>6. CASE RowAppended(g)
    BY <2>1, <2>6 DEF RowAppended, Closed, Live
  <2>7. QED
    BY <2>1, <2>2, <2>3, <2>4, <2>5, <2>6 DEF RowStep
<1>2. TypeInv /\ [Next]_vars => [\A g \in Gens : Stays(g)]_vars
  BY <1>1
<1>3. Spec => []TypeInv
  BY InitTypeInv, NextTypeInv, PTL DEF Spec
<1>4. QED
  BY <1>2, <1>3, PTL DEF Spec, ClosedStaysClosed

-------------------------------------------------------------------------------
\* The sockets, the connections map and the late cleanups.

\* A socket whose handler holds a session.
Bound(s) == sock[s].phase \in {"registered", "active"}

\* Sessions belong to one socket each, and the map's session to the map's socket.
SessionsBound ==
  /\ \A s \in Socks : Bound(s) => sock[s].session <= sessions
  /\ \A s, t \in Socks : Bound(s) /\ Bound(t) /\ sock[s].session = sock[t].session
                         => s = t
  /\ map # NoEntry =>
       /\ map.session <= sessions
       /\ \A s \in Socks : Bound(s) /\ sock[s].session = map.session => s = map.sock

\* A close that is still to come is of a credential that was revoked, or of a session
\* that is not online any more.
PendingCloses ==
  /\ \A c \in revokes : cred[c].revoked
  /\ \A x \in staleCloses :
       /\ x.session <= sessions
       /\ gen[x.gen].session = x.session => gen[x.gen].conn # "online"

ServiceInv == TypeInv /\ SessionsBound /\ PendingCloses

KeepsSession(s) == Bound(s)' => Bound(s) /\ sock'[s].session = sock[s].session

TakesSession(s) ==
  /\ sessions' = sessions + 1 /\ sock'[s].session = sessions + 1
  /\ UNCHANGED map
  /\ \A t \in Socks \ {s} : KeepsSession(t)

EntersMap(s) ==
  /\ Bound(s) /\ map'.sock = s /\ map'.session = sock[s].session
  /\ \A t \in Socks : KeepsSession(t)

SocketStep == \/ map' \in {map, NoEntry} /\ \A s \in Socks : KeepsSession(s)
              \/ \E s \in Socks : TakesSession(s) \/ EntersMap(s)

LEMMA ClosedByKeeps ==
  ASSUME sock \in [Socks -> ScopedSockets], NEW s \in Socks, NEW closing
  PROVE  /\ ClosedBy(closing)[s].phase = sock[s].phase
         /\ ClosedBy(closing)[s].session = sock[s].session
BY DEF ClosedBy, ScopedSockets, Sockets

LEMMA SocketSteps ==
  ASSUME TypeInv, [Next]_vars
  PROVE  SocketStep
<1>a. sock \in [Socks -> ScopedSockets]
  BY DEF TypeInv
<1>1. ASSUME NEW s \in Socks, NEW resume \in 0..MaxSequence,
             RegisterStore(s, resume)
      PROVE  SocketStep
  <2>1. CASE /\ sessions' = sessions + 1
             /\ sock' = [sock EXCEPT ![s].phase = "registered", ![s].session = sessions']
    <3>1. sock'[s].session = sessions + 1 /\ \A t \in Socks \ {s} : sock'[t] = sock[t]
      BY <1>a, <2>1 DEF ScopedSockets, Sockets
    <3>2. TakesSession(s)
      BY <1>1, <2>1, <3>1 DEF TakesSession, KeepsSession, Bound, RegisterStore
    <3>3. QED
      BY <3>2 DEF SocketStep
  <2>2. CASE sock' = ClosedBy({s}) \/ sock' = [sock EXCEPT ![s] = FreeSocket]
    <3>1. \A t \in Socks : KeepsSession(t)
      BY <1>a, <2>2, ClosedByKeeps DEF KeepsSession, Bound, FreeSocket
    <3>2. QED
      BY <1>1, <3>1 DEF SocketStep, RegisterStore
  <2>3. QED
    BY <1>1, <2>1, <2>2 DEF RegisterStore
<1>2. ASSUME NEW s \in Socks, RegisterMap(s)
      PROVE  SocketStep
  <2> DEFINE others == IF map = NoEntry THEN sock ELSE ClosedBy({map.sock} \ {s})
             own == IF sock[s].alive THEN [sock[s] EXCEPT !.phase = "active"]
                    ELSE FreeSocket
  <2>1. \A t \in Socks : /\ others[t].phase = sock[t].phase
                         /\ others[t].session = sock[t].session
    BY <1>a, ClosedByKeeps
  <2>2. own.phase # "free" => own.session = sock[s].session
    BY <1>a DEF ScopedSockets, Sockets, FreeSocket
  <2>3. others \in [Socks -> ScopedSockets]
    BY <1>a, ClosedByScoped
  <2>4. sock' = [others EXCEPT ![s] = own]
    BY <1>2 DEF RegisterMap
  <2>5. \A t \in Socks : KeepsSession(t)
    <3> HIDE DEF others, own
    <3>1. QED
      BY <1>2, <2>1, <2>2, <2>3, <2>4 DEF KeepsSession, Bound, RegisterMap
  <2>6. QED
    BY <1>2, <2>5 DEF SocketStep, EntersMap, Bound, RegisterMap
<1>3. ASSUME NEW s \in Socks, CloseEvent(s)
      PROVE  SocketStep
  <2>1. \A t \in Socks : KeepsSession(t)
    BY <1>3, <1>a DEF CloseEvent, KeepsSession, Bound, ScopedSockets, Sockets, FreeSocket
  <2>2. QED
    BY <1>3, <2>1 DEF SocketStep, CloseEvent
<1>4. ASSUME NEW s \in Socks,
             \/ \E c \in Creds : Connect(s, c)
             \/ DisconnectStore(s)
      PROVE  SocketStep
  <2>1. sock'[s].phase \in {"open", "free"} /\ \A t \in Socks \ {s} : sock'[t] = sock[t]
    <3>1. ASSUME NEW c \in Creds, Connect(s, c)
          PROVE  sock'[s].phase = "open" /\ \A t \in Socks \ {s} : sock'[t] = sock[t]
      BY <3>1, <1>a DEF Connect, FreeSocket
    <3>2. ASSUME DisconnectStore(s)
          PROVE  sock'[s].phase = "free" /\ \A t \in Socks \ {s} : sock'[t] = sock[t]
      BY <3>2, <1>a DEF DisconnectStore, FreeSocket
    <3>3. QED
      BY <1>4, <3>1, <3>2
  <2>2. \A t \in Socks : KeepsSession(t)
    BY <2>1 DEF KeepsSession, Bound
  <2>3. QED
    BY <1>4, <2>2 DEF SocketStep, Connect, DisconnectStore
<1>5. ASSUME NEW closing,
             sock' = sock \/ sock' = ClosedBy(closing), map' \in {map, NoEntry}
      PROVE  SocketStep
  BY <1>5, <1>a, ClosedByKeeps DEF SocketStep, KeepsSession, Bound
<1>6. ASSUME Restart
      PROVE  SocketStep
  BY <1>6 DEF Restart, SocketStep, KeepsSession, Bound, FreeSocket
<1>7. QED
  <2>1. ASSUME NEW c \in Creds,
               \/ \E g \in Gens : Issue(g, c)
               \/ Revoke(c) \/ CloseRevoked(c) \/ Expire(c)
        PROVE  SocketStep
    BY <2>1, <1>5 DEF Issue, Revoke, CloseRevoked, Expire, served
  <2>2. ASSUME NEW s \in Socks, (\E e \in Events : AppendEvent(s, e)) \/ CloseExpired(s)
        PROVE  SocketStep
    BY <2>2, <1>5 DEF AppendEvent, CloseExpired
  <2>3. ASSUME \/ \E g \in Gens : MarkStale(g)
               \/ \E x \in staleCloses : CloseStale(x)
               \/ UNCHANGED vars
        PROVE  SocketStep
    BY <2>3, <1>5 DEF MarkStale, CloseStale, vars, served
  <2>4. QED
    BY <1>1, <1>2, <1>3, <1>4, <1>6, <2>1, <2>2, <2>3 DEF Next, Launch, Handle, Cleanup

LEMMA NextSessionsBound ==
  ASSUME TypeInv, SessionsBound, [Next]_vars
  PROVE  SessionsBound'
<1>a. /\ sessions \in Nat /\ sessions' \in {sessions, sessions + 1} /\ SocketStep
      /\ \A s \in Socks : sock[s].session \in Nat
      /\ map # NoEntry => map.session \in Nat
  BY SessionsGrow, SocketSteps DEF TypeInv, TypeOK, Sockets, Entries
<1>1. CASE map' \in {map, NoEntry} /\ \A s \in Socks : KeepsSession(s)
  BY <1>1, <1>a DEF SessionsBound, KeepsSession
<1>2. ASSUME NEW s \in Socks, TakesSession(s)
      PROVE  SessionsBound'
  BY <1>2, <1>a DEF SessionsBound, KeepsSession, TakesSession
<1>3. ASSUME NEW s \in Socks, EntersMap(s)
      PROVE  SessionsBound'
  BY <1>3, <1>a DEF SessionsBound, KeepsSession, EntersMap
<1>4. QED
  BY <1>a, <1>1, <1>2, <1>3 DEF SocketStep

LEMMA NextRevokes ==
  ASSUME TypeInv, [Next]_vars, \A c \in revokes : cred[c].revoked
  PROVE  \A c \in revokes' : cred'[c].revoked
<1>a. cred \in [Creds -> Credentials] /\ revokes \subseteq Creds
  BY DEF TypeInv, TypeOK
<1>1. ASSUME NEW g \in Gens, NEW d \in Creds, Issue(g, d)
      PROVE  \A c \in revokes' : cred'[c].revoked
  <2>1. revokes' = revokes
    BY <1>1 DEF Issue, served
  <2>2. ASSUME NEW c \in revokes
        PROVE  cred'[c].revoked
    <3>1. cred'[c] \in {[cred[c] EXCEPT !.gen = g], [cred[c] EXCEPT !.revoked = TRUE],
                        cred[c]}
      BY <1>1, <1>a DEF Issue
    <3>2. QED
      BY <1>a, <3>1 DEF Credentials
  <2>3. QED
    BY <2>1, <2>2
<1>2. ASSUME NEW d \in Creds, Revoke(d)
      PROVE  \A c \in revokes' : cred'[c].revoked
  BY <1>2, <1>a DEF Revoke, Credentials
<1>3. ASSUME NEW d \in Creds, Expire(d)
      PROVE  \A c \in revokes' : cred'[c].revoked
  BY <1>3, <1>a DEF Expire, served, Credentials
<1>4. ASSUME UNCHANGED cred, revokes' \subseteq revokes
      PROVE  \A c \in revokes' : cred'[c].revoked
  BY <1>4
<1>5. QED
  <2>1. ASSUME NEW c \in Creds, CloseRevoked(c)
        PROVE  UNCHANGED cred /\ revokes' \subseteq revokes
    <3>1. UNCHANGED stored
      BY <2>1 DEF CloseRevoked
    <3>2. revokes' = revokes \ {c}
      BY <2>1 DEF CloseRevoked
    <3>3. UNCHANGED cred
      BY <3>1 DEF stored
    <3>4. QED
      BY <3>2, <3>3
  <2>2. ASSUME NEW s \in Socks, Handle(s)
        PROVE  UNCHANGED cred /\ revokes' \subseteq revokes
    BY <2>2 DEF Handle, Connect, RegisterStore, RegisterMap, AppendEvent, CloseEvent,
                DisconnectStore, CloseExpired, stored
  <2>3. ASSUME Cleanup \/ UNCHANGED vars
        PROVE  UNCHANGED cred /\ revokes' \subseteq revokes
    BY <2>3 DEF Cleanup, MarkStale, CloseStale, Restart, vars, stored, served
  <2>4. QED
    BY <1>1, <1>2, <1>3, <1>4, <2>1, <2>2, <2>3 DEF Next, Launch

LEMMA NextStaleCloses ==
  ASSUME TypeInv, SessionsInOrder, PendingCloses, [Next]_vars, NEW x \in staleCloses'
  PROVE  /\ x.session <= sessions'
         /\ gen'[x.gen].session = x.session => gen'[x.gen].conn # "online"
<1>a. /\ gen \in [Gens -> Generations] /\ staleCloses \subseteq Snapshots
      /\ sessions \in Nat /\ sessions' \in {sessions, sessions + 1}
      /\ \A g \in Gens : gen[g].session \in Nat
  BY SessionsGrow DEF TypeInv, TypeOK, Generations
<1>1. CASE x \in staleCloses
  <2> DEFINE r == gen[x.gen]
  <2>1. /\ x.gen \in Gens /\ x.session \in Nat /\ x.session <= sessions
        /\ r.session = x.session => r.conn # "online"
    BY <1>a, <1>1 DEF PendingCloses, Snapshots
  <2>2. r \in Generations /\ RowStep(x.gen)
    BY <1>a, <2>1, RowSteps
  <2>3. CASE RowRegistered(x.gen)
    <3>1. gen'[x.gen].session = sessions + 1
      BY <2>2, <2>3 DEF RowRegistered, Registered, Generations
    <3>2. QED
      BY <1>a, <2>1, <3>1
  <2>4. CASE RowKept(x.gen)
    BY <1>a, <2>1, <2>4 DEF RowKept
  <2>5. CASE RowIssued(x.gen) \/ RowSuperseded(x.gen) \/ RowMarked(x.gen)
    <3>1. gen'[x.gen].conn # "online"
      BY <2>2, <2>5 DEF RowIssued, RowSuperseded, RowMarked, Staled, Generations
    <3>2. QED
      BY <1>a, <2>1, <3>1
  <2>6. CASE RowAppended(x.gen)
    <3>1. gen'[x.gen].session = r.session /\ r.conn = "online"
      BY <2>2, <2>6 DEF RowAppended, Applied, Generations
    <3>2. QED
      BY <1>a, <2>1, <3>1
  <2>7. QED
    BY <2>2, <2>3, <2>4, <2>5, <2>6 DEF RowStep
<1>2. CASE x \notin staleCloses
  <2>1. PICK g \in Gens : MarkStale(g)
    <3>1. ASSUME Launch
          PROVE  UNCHANGED staleCloses
      BY <3>1 DEF Launch, Issue, Revoke, CloseRevoked, Expire, served
    <3>2. ASSUME NEW s \in Socks, Handle(s)
          PROVE  UNCHANGED staleCloses
      BY <3>2 DEF Handle, Connect, RegisterStore, RegisterMap, AppendEvent, CloseEvent,
                  DisconnectStore, CloseExpired
    <3>3. ASSUME NEW y \in staleCloses, CloseStale(y)
          PROVE  staleCloses' \subseteq staleCloses
      BY <3>3 DEF CloseStale
    <3>4. ASSUME Restart \/ UNCHANGED vars
          PROVE  staleCloses' \subseteq staleCloses
      BY <3>4 DEF Restart, vars, served
    <3>5. ~(staleCloses' \subseteq staleCloses)
      BY <1>2
    <3>6. Cleanup \/ UNCHANGED vars
      BY <3>1, <3>2, <3>5 DEF Next
    <3>7. QED
      BY <3>3, <3>4, <3>5, <3>6 DEF Cleanup
  <2>2. x = [gen |-> g, session |-> gen[g].session] /\ gen'[g].conn = "stale"
    BY <1>a, <1>2, <2>1 DEF MarkStale, Staled, Generations
  <2>3. QED
    <3>1. x.gen = g /\ x.session = gen[g].session
      BY <2>2
    <3>2. gen[g].session <= sessions
      BY DEF SessionsInOrder
    <3>3. x.session <= sessions'
      BY <1>a, <3>1, <3>2
    <3>4. QED
      BY <2>2, <3>1, <3>3
<1>3. QED
  BY <1>1, <1>2

LEMMA ServiceInvariant == Spec => [](RowInv /\ ServiceInv)
<1>1. Init => ServiceInv
  BY InitTypeInv
  DEF Init, ServiceInv, SessionsBound, PendingCloses, Bound, FreeSocket
<1>2. RowInv /\ ServiceInv /\ [Next]_vars => ServiceInv'
  BY NextTypeInv, NextSessionsBound, NextRevokes, NextStaleCloses
  DEF RowInv, ServiceInv, PendingCloses
<1>3. QED
  BY RowInvariant, <1>1, <1>2, PTL DEF Spec

\* No revocation, expiry, close event or cleanup that comes late takes the entry of
\* the session that is online now out of the connections map and leaves its socket.
THEOREM CurrentSpared == Spec => CleanupSparesCurrent
<1> DEFINE Spared == CurrentEntry /\ map' = NoEntry => ~sock'[map.sock].alive
<1>1. ASSUME ServiceInv, [Next]_vars
      PROVE  Spared
  <2> SUFFICES ASSUME CurrentEntry, map' = NoEntry
               PROVE  ~sock'[map.sock].alive
    OBVIOUS
  <2>a. /\ map \in Entries /\ map # NoEntry /\ map.sock \in Socks
        /\ sock \in [Socks -> ScopedSockets]
    BY <1>1 DEF ServiceInv, TypeInv, TypeOK, CurrentEntry, Entries
  <2>1. ASSUME NEW c \in Creds, CloseRevoked(c)
        PROVE  FALSE
    BY <1>1, <2>a, <2>1
    DEF CloseRevoked, ServiceInv, PendingCloses, CurrentEntry, Authorised
  <2>2. ASSUME NEW s \in Socks, RegisterMap(s)
        PROVE  FALSE
    <3>1. NoEntry.sock \notin Socks /\ map'.sock \in Socks
      BY <2>2, NoneAssumption DEF RegisterMap, NoEntry
    <3>2. QED
      BY <3>1
  <2>3. ASSUME NEW s \in Socks, CloseEvent(s)
        PROVE  ~sock'[map.sock].alive
    <3>1. s = map.sock
      BY <1>1, <2>a, <2>3 DEF CloseEvent, ServiceInv, SessionsBound, Bound
    <3>2. QED
      BY <2>a, <2>3, <3>1 DEF CloseEvent, ScopedSockets, Sockets, FreeSocket
  <2>4. ASSUME NEW x \in staleCloses, CloseStale(x)
        PROVE  FALSE
    BY <1>1, <2>a, <2>4 DEF CloseStale, ServiceInv, PendingCloses, CurrentEntry
  <2>5. CASE Restart
    BY <2>a, <2>5 DEF Restart, FreeSocket
  <2>6. QED
    BY <1>1, <2>a, <2>1, <2>2, <2>3, <2>4, <2>5
    DEF Next, Launch, Handle, Cleanup, Issue, Revoke, Expire, Connect, RegisterStore,
        AppendEvent, DisconnectStore, CloseExpired, MarkStale, vars, served
<1>2. ServiceInv /\ [Next]_vars => [Spared]_vars
  BY <1>1
<1>3. QED
  BY <1>2, ServiceInvariant, PTL DEF Spec, CleanupSparesCurrent
===============================================================================
