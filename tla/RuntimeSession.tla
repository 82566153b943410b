---------------------------- MODULE RuntimeSession ----------------------------
(***************************************************************************)
(* The session authority of one workspace: its generations and credentials *)
(* in the database, the sockets of the session gateway, and the service's  *)
(* connections map.  Clients are arbitrary: any holder of a credential may *)
(* open sockets, register, send any event and vanish.                      *)
(*                                                                         *)
(* Each database transaction is one action.  What the service does after   *)
(* it is another one, so calls overlap at every await.                     *)
(***************************************************************************)
EXTENDS RuntimeRow, Sequences

CONSTANTS
  Gens,         \* generations a launch may ask for
  Creds,        \* credentials, each issued at most once
  Socks,        \* sockets, recycled once nothing refers to them
  EventIds,     \* event identifiers clients choose from
  Bodies,       \* event bodies clients choose from
  MaxSequence,  \* bound: sequence numbers clients choose from
  MaxSessions   \* bound: registrations

None == "none"

ASSUME NoneAssumption == None \notin Gens \cup Creds \cup Socks
ASSUME BodiesAssumption == Bodies \subseteq Lifecycles \cup {"other"}
ASSUME BoundsAssumption == MaxSequence \in Nat /\ MaxSessions \in Nat

VARIABLES
  gen,         \* workspace_runtime_generations
  cred,        \* workspace_runtime_credentials
  ledger,      \* workspace_runtime_events
  sock,        \* the sockets and where their handlers stand
  map,         \* the service's connections entry of this workspace, or NoEntry
  staleCloses, \* snapshots marked stale whose sockets are not closed yet
  revokes,     \* credentials revoked whose sockets are not closed yet
  sessions,    \* session identifiers created so far
  writers      \* history: per generation, the session that stored each event

stored == <<gen, cred, ledger, writers>>
served == <<sock, map, staleCloses, revokes>>
vars == <<stored, served, sessions>>

Events == [seq : 1..MaxSequence, id : EventIds, body : Bodies]

Generations == [known : BOOLEAN, superseded : BOOLEAN, cred : Creds \cup {None},
                last : Nat, lifecycle : Lifecycles, conn : ConnectionStates,
                session : Nat]
Credentials == [gen : Gens \cup {None}, revoked : BOOLEAN, expired : BOOLEAN]
Sockets == [phase : {"free", "open", "registered", "active"}, alive : BOOLEAN,
            closing : BOOLEAN, cred : Creds \cup {None}, gen : Gens \cup {None},
            session : Nat]
Entries == [sock : Socks, session : Nat, gen : Gens, cred : Creds]
Snapshots == [gen : Gens, session : Nat]

NoEntry == [sock |-> None, session |-> NoSession, gen |-> None, cred |-> None]
FreeSocket == [phase |-> "free", alive |-> FALSE, closing |-> FALSE,
               cred |-> None, gen |-> None, session |-> NoSession]

Init ==
  /\ gen = [g \in Gens |-> [known |-> FALSE, superseded |-> FALSE, cred |-> None,
                            last |-> 0, lifecycle |-> "starting",
                            conn |-> "connecting", session |-> NoSession]]
  /\ cred = [c \in Creds |-> [gen |-> None, revoked |-> FALSE, expired |-> FALSE]]
  /\ ledger = [g \in Gens |-> {}]
  /\ sock = [s \in Socks |-> FreeSocket]
  /\ map = NoEntry /\ staleCloses = {} /\ revokes = {} /\ sessions = 0
  /\ writers = [g \in Gens |-> <<>>]

Live(g) == gen[g].known /\ ~gen[g].superseded

\* Mutant: only the credential is compared with the row.
AuthorisedByCredential(g, c) == gen[g].cred = c /\ ~cred[c].expired

\* currentForUpdate, and the lookup of authenticate: the credential is in force and
\* its generation is the live one.
Authorised(g, c) ==
  /\ Live(g) /\ gen[g].cred = c
  /\ ~cred[c].revoked /\ ~cred[c].expired

\* socket.close: the close event comes later, messages still arrive until then.
ClosedBy(closing) ==
  [s \in Socks |-> IF s \in closing /\ sock[s].alive
                   THEN [sock[s] EXCEPT !.closing = TRUE] ELSE sock[s]]

-------------------------------------------------------------------------------
\* The launch side.

\* issue: refused while the same generation still has a session or a credential in
\* force; another live generation is superseded and loses its credentials.  The row
\* of a generation that was superseded before is found again and stays superseded.
MayIssue(g) ==
  \A p \in Gens : Live(p) /\ p = g =>
    gen[p].session = NoSession
    /\ (gen[p].cred # None => cred[gen[p].cred].revoked)

\* Mutant: the generation that was live stays so.
IssueBeside(g, c) ==
  /\ cred[c].gen = None /\ MayIssue(g)
  /\ gen' = [gen EXCEPT ![g].known = TRUE, ![g].cred = c, ![g].session = NoSession]
  /\ cred' = [d \in Creds |-> IF d = c THEN [cred[c] EXCEPT !.gen = g]
                              ELSE [cred[d] EXCEPT !.revoked = cred[d].gen # None]]
  /\ UNCHANGED <<ledger, writers, served, sessions>>

Issue(g, c) ==
  /\ cred[c].gen = None /\ MayIssue(g)
  /\ LET replaced == {p \in Gens \ {g} : Live(p)}
         stale(p) == [gen[p] EXCEPT !.conn = "superseded", !.superseded = TRUE,
                                    !.session = NoSession]
         fresh == [gen[g] EXCEPT !.known = TRUE, !.conn = "connecting",
                                 !.session = NoSession,
                                 !.cred = IF gen[g].superseded THEN @ ELSE c]
     IN /\ gen' = [p \in Gens |-> IF p = g THEN fresh
                                  ELSE IF p \in replaced THEN stale(p) ELSE gen[p]]
        /\ cred' = [d \in Creds |->
             IF d = c THEN [cred[c] EXCEPT !.gen = g]
             ELSE IF cred[d].gen # None /\ replaced # {}
                  THEN [cred[d] EXCEPT !.revoked = TRUE] ELSE cred[d]]
  /\ UNCHANGED <<ledger, writers, served, sessions>>

\* revoke: the transaction, then the look at the connections map.
Revoke(c) ==
  /\ cred[c].gen # None
  /\ cred' = [cred EXCEPT ![c].revoked = TRUE]
  /\ revokes' = revokes \cup {c}
  /\ UNCHANGED <<gen, ledger, writers, sock, map, staleCloses, sessions>>

CloseRevoked(c) ==
  /\ c \in revokes /\ revokes' = revokes \ {c}
  /\ IF map # NoEntry /\ map.cred = c
     THEN map' = NoEntry /\ sock' = ClosedBy({map.sock})
     ELSE UNCHANGED <<map, sock>>
  /\ UNCHANGED <<stored, staleCloses, sessions>>

\* The credential's expiry passes; each of its sockets has a timer of its own.
Expire(c) ==
  /\ cred[c].gen # None
  /\ cred' = [cred EXCEPT ![c].expired = TRUE]
  /\ UNCHANGED <<gen, ledger, writers, served, sessions>>

CloseExpired(s) ==
  /\ sock[s].alive /\ ~sock[s].closing /\ cred[sock[s].cred].expired
  /\ sock' = ClosedBy({s})
  /\ UNCHANGED <<stored, map, staleCloses, revokes, sessions>>

-------------------------------------------------------------------------------
\* The socket's handler.

\* authenticate and upgrade: the socket keeps a copy of the credential's scope.
Connect(s, c) ==
  /\ sock[s].phase = "free" /\ (map # NoEntry => map.sock # s)
  /\ \E g \in Gens :
       /\ Authorised(g, c)
       /\ sock' = [sock EXCEPT ![s] = [FreeSocket EXCEPT
                     !.phase = "open", !.alive = TRUE, !.cred = c, !.gen = g]]
  /\ UNCHANGED <<stored, map, staleCloses, revokes, sessions>>

\* store.register: the row moves to a new session.
RegisterStore(s, resume) ==
  /\ sock[s].phase = "open" /\ sessions < MaxSessions
  /\ LET g == sock[s].gen
     IN IF Authorised(g, sock[s].cred) /\ MayRegister(gen[g], resume)
        THEN /\ sessions' = sessions + 1
             /\ gen' = [gen EXCEPT ![g] = Registered(@, sessions')]
             /\ sock' = [sock EXCEPT ![s].phase = "registered",
                                     ![s].session = sessions']
        ELSE /\ sock' = IF sock[s].alive THEN ClosedBy({s})
                        ELSE [sock EXCEPT ![s] = FreeSocket]
             /\ UNCHANGED <<gen, sessions>>
  /\ UNCHANGED <<cred, ledger, writers, map, staleCloses, revokes>>

\* Mutant: the entry is filled from the handler's state after the step.
RegisterMapLate(s) ==
  /\ sock[s].phase = "registered"
  /\ sock' = [(IF map = NoEntry THEN sock ELSE ClosedBy({map.sock} \ {s})) EXCEPT
                ![s] = IF sock[s].alive THEN [sock[s] EXCEPT !.phase = "active"]
                       ELSE FreeSocket]
  /\ map' = [sock |-> s, session |-> sock'[s].session, gen |-> sock'[s].gen,
             cred |-> sock'[s].cred]
  /\ UNCHANGED <<stored, staleCloses, revokes, sessions>>

\* The rest of register: the map moves to the new session and the socket it held is
\* closed.  If the close event came first, nothing will disconnect this session.
RegisterMap(s) ==
  /\ sock[s].phase = "registered"
  /\ map' = [sock |-> s, session |-> sock[s].session, gen |-> sock[s].gen,
             cred |-> sock[s].cred]
  /\ sock' = [(IF map = NoEntry THEN sock ELSE ClosedBy({map.sock} \ {s})) EXCEPT
                ![s] = IF sock[s].alive THEN [sock[s] EXCEPT !.phase = "active"]
                       ELSE FreeSocket]
  /\ UNCHANGED <<stored, staleCloses, revokes, sessions>>

\* append: an exact replay changes nothing, the next event is stored, anything else
\* fails.  A socket whose client reported "stopped" is closed.
AppendEvent(s, e) ==
  /\ sock[s].phase = "active"
  /\ LET g == sock[s].gen
         next == Applied(gen[g], e)
         accepts == Authorised(g, sock[s].cred) /\ MayAppend(gen[g], sock[s].session)
     IN IF accepts /\ IsReplay(ledger[g], e)
        THEN UNCHANGED <<gen, ledger, writers, sock>>
        ELSE IF accepts /\ IsNext(gen[g], ledger[g], e)
        THEN /\ gen' = [gen EXCEPT ![g] = next]
             /\ ledger' = [ledger EXCEPT ![g] = @ \cup {e}]
             /\ writers' = [writers EXCEPT ![g] = Append(@, sock[s].session)]
             /\ sock' = IF next.lifecycle = "stopped" THEN ClosedBy({s}) ELSE sock
        ELSE sock' = ClosedBy({s}) /\ UNCHANGED <<gen, ledger, writers>>
  /\ UNCHANGED <<cred, map, staleCloses, revokes, sessions>>

\* The close event, after a close of ours or because the client is gone.  A message
\* that was read before is still processed.
CloseEvent(s) ==
  /\ sock[s].alive
  /\ IF sock[s].phase = "active" /\ map # NoEntry /\ map.session = sock[s].session
     THEN map' = NoEntry ELSE UNCHANGED map
  /\ \/ sock' = [sock EXCEPT ![s].alive = FALSE]
     \/ sock[s].phase = "open" /\ sock' = [sock EXCEPT ![s] = FreeSocket]
  /\ UNCHANGED <<stored, staleCloses, revokes, sessions>>

\* disconnect: the row is marked only while it is still this session's.
DisconnectStore(s) ==
  /\ sock[s].phase = "active" /\ ~sock[s].alive
  /\ LET g == sock[s].gen
     IN gen' = IF Live(g) /\ gen[g].cred = sock[s].cred
               THEN [gen EXCEPT ![g] = Disconnected(@, sock[s].session)] ELSE gen
  /\ sock' = [sock EXCEPT ![s] = FreeSocket]
  /\ UNCHANGED <<cred, ledger, writers, map, staleCloses, revokes, sessions>>

-------------------------------------------------------------------------------
\* The cleanup every fifteen seconds, and a restart of the server.

MarkStale(g) ==
  /\ Live(g) /\ MayTurnStale(gen[g])
  /\ gen' = [gen EXCEPT ![g] = Staled(@)]
  /\ staleCloses' = staleCloses \cup {[gen |-> g, session |-> gen[g].session]}
  /\ UNCHANGED <<cred, ledger, writers, sock, map, revokes, sessions>>

\* Mutant: whatever session the generation has now is closed.
CloseStaleGeneration(x) ==
  /\ x \in staleCloses /\ staleCloses' = staleCloses \ {x}
  /\ IF map # NoEntry /\ map.gen = x.gen
     THEN map' = NoEntry /\ sock' = ClosedBy({map.sock})
     ELSE UNCHANGED <<map, sock>>
  /\ UNCHANGED <<stored, revokes, sessions>>

\* closeSnapshot: only the session that was marked.
CloseStale(x) ==
  /\ x \in staleCloses /\ staleCloses' = staleCloses \ {x}
  /\ IF map # NoEntry /\ map.gen = x.gen /\ map.session = x.session
     THEN map' = NoEntry /\ sock' = ClosedBy({map.sock})
     ELSE UNCHANGED <<map, sock>>
  /\ UNCHANGED <<stored, revokes, sessions>>

Restart ==
  /\ sock' = [s \in Socks |-> FreeSocket]
  /\ map' = NoEntry /\ staleCloses' = {} /\ revokes' = {}
  /\ UNCHANGED <<stored, sessions>>

Launch == \E c \in Creds : \/ \E g \in Gens : Issue(g, c)
                           \/ Revoke(c) \/ CloseRevoked(c) \/ Expire(c)

Handle(s) ==
  \/ \E c \in Creds : Connect(s, c)
  \/ \E resume \in 0..MaxSequence : RegisterStore(s, resume)
  \/ RegisterMap(s)
  \/ \E e \in Events : AppendEvent(s, e)
  \/ CloseEvent(s) \/ DisconnectStore(s) \/ CloseExpired(s)

Cleanup == \/ \E g \in Gens : MarkStale(g)
           \/ \E x \in staleCloses : CloseStale(x)
           \/ Restart

Next == Launch \/ (\E s \in Socks : Handle(s)) \/ Cleanup

Spec == Init /\ [][Next]_vars

-------------------------------------------------------------------------------
TypeOK ==
  /\ gen \in [Gens -> Generations]
  /\ cred \in [Creds -> Credentials]
  /\ ledger \in [Gens -> SUBSET Events]
  /\ sock \in [Socks -> Sockets]
  /\ map \in Entries \cup {NoEntry}
  /\ staleCloses \in SUBSET Snapshots /\ revokes \in SUBSET Creds
  /\ sessions \in Nat
  /\ writers \in [Gens -> Seq(Nat)]

\* A workspace never has two live generations, in whatever order launches, retries,
\* revocations and registrations come.
OneLiveGeneration == \A g, h \in Gens : Live(g) /\ Live(h) => g = h

\* The ledger of a generation holds one event for each sequence number up to the
\* row's and no others: a row and its events never part, also across replays,
\* conflicting clients and restarts.
LedgerMatchesRow ==
  \A g \in Gens :
    /\ {e.seq : e \in ledger[g]} = 1..gen[g].last
    /\ \A d, e \in ledger[g] : d.seq = e.seq \/ d.id = e.id => d = e

\* One socket session owns writes at a time: once a later session stored an event,
\* no earlier one stores another.
WritersInOrder ==
  \A g \in Gens : \A i, j \in 1..Len(writers[g]) :
    i <= j => writers[g][i] <= writers[g][j]

\* Every live row the cleanup or a listing turns into a snapshot has a session; the
\* conversion throws for one that has none, and then no row is cleaned up.
SnapshotsExist ==
  \A g \in Gens : Live(g) /\ gen[g].conn \in {"online", "disconnected", "stale"}
                 => gen[g].session # NoSession

\* A superseded or stopped generation takes no further event and does not come back.
Closed(g) == gen[g].superseded \/ gen[g].lifecycle = "stopped"

ClosedStaysClosed ==
  [][\A g \in Gens : Closed(g) =>
       /\ Closed(g)' /\ (gen[g].superseded => gen'[g].superseded)
       /\ ledger'[g] = ledger[g] /\ gen'[g].last = gen[g].last
       /\ gen'[g].lifecycle = gen[g].lifecycle]_vars

\* The entry of a session that is online under a credential in force is dropped only
\* together with its socket: no late cleanup of an older session, credential or
\* socket takes it away.
CurrentEntry ==
  /\ map # NoEntry /\ Authorised(map.gen, map.cred)
  /\ gen[map.gen].session = map.session /\ gen[map.gen].conn = "online"

CleanupSparesCurrent ==
  [][CurrentEntry /\ map' = NoEntry => ~sock'[map.sock].alive]_vars
===============================================================================
