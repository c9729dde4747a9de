----------------------------- MODULE Connections -----------------------------
(***************************************************************************)
(* The reactor thread's connection tables and the operations that keep     *)
(* them: ConnectionManager (close), BackendConnector (connect),            *)
(* RetryHandler, EventHandlers (what an epoll event does to a pair), the   *)
(* accept path of LoadBalancer, and the way a closed pair's backend socket *)
(* goes back to the ConnectionPool.                                        *)
(*                                                                         *)
(* All of that state is owned by one thread, so one handler invocation is  *)
(* one step.  A handler calls several of these operations in turn (a retry *)
(* is close_backend_connection_only followed by connect), so every         *)
(* operation is written as a function from a snapshot of the tables to the *)
(* set of snapshots it can leave: the nondeterminism is the network's      *)
(* (did connect succeed?), the kernel's (which descriptor number?) and the *)
(* router's (which eligible backend?; see BackendRouting for which).       *)
(*                                                                         *)
(* The states of the backends are written by the health checker, the       *)
(* config reload and the shutdown watcher (see BackendLifecycle); here     *)
(* they may change at any time.                                            *)
(***************************************************************************)
EXTENDS Integers, FiniteSets

CONSTANTS
  Fd,            \* descriptor numbers; the kernel reuses one once it is closed
  Node,          \* BackendNode objects
  Addr,          \* host:port pairs
  AddrOf,        \* the address a BackendNode was built with
  None,          \* "no entry" in a map, or a null pointer
  MaxGlobal,     \* max_global_connections_
  MaxPerBackend, \* max_connections_per_backend_, 0 = unlimited
  MaxRetry,      \* RetryHandler::MAX_RETRY_ATTEMPTS
  Tls,           \* is tls_context_ initialised?
  HttpErrors,    \* mode == "http": rejections are answered before the close
  PoolEnabled,   \* is there a ConnectionPoolManager?
  PoolMin, PoolMax  \* PoolConfig::min_connections, max_connections

VARIABLES
  conn,     \* connections_: state of the entry for a descriptor, or "none"
  peer,     \* Connection::peer_, as the descriptor of the peer
  node,     \* backend_connections_: the node a backend socket belongs to
  owner,    \* backend_to_client_map_
  retries,  \* client_retry_counts_
  tracked,  \* the keys of backpressure_start_times_
  errors,   \* entries inserted by send_http_error_and_close
  active,   \* BackendNode::active_connections_
  idle,     \* ConnectionPool::connections_, per address
  borrowed, \* ConnectionPool::active_count_, per address
  health,   \* BackendNode::state_
  backends, \* BackendPool::backends_
  alive     \* nodes some shared_ptr still owns: weak_ptr::lock succeeds

tables == <<conn, peer, node, owner, retries, tracked, errors, active, idle,
            borrowed>>
vars == <<tables, health, backends, alive>>

Health == {"HEALTHY", "UNHEALTHY", "DRAINING"}
ConnectionState == {"none", "HANDSHAKE", "CONNECTING", "ESTABLISHED"}

ASSUME ConstantsAssumption ==
  /\ IsFiniteSet(Fd) /\ None \notin Fd \cup Node
  /\ AddrOf \in [Node -> Addr]
  /\ MaxGlobal \in Nat /\ MaxPerBackend \in Nat /\ MaxRetry \in Nat
  /\ {Tls, HttpErrors, PoolEnabled} \subseteq BOOLEAN
  /\ PoolMin \in Nat /\ PoolMax \in Nat

-----------------------------------------------------------------------------
(* Snapshots of the tables. *)

Now == [conn |-> conn, peer |-> peer, node |-> node, owner |-> owner,
        retries |-> retries, tracked |-> tracked, errors |-> errors,
        active |-> active, idle |-> idle, borrowed |-> borrowed]

Become(s) ==
  /\ conn' = s.conn /\ peer' = s.peer /\ node' = s.node /\ owner' = s.owner
  /\ retries' = s.retries /\ tracked' = s.tracked /\ errors' = s.errors
  /\ active' = s.active /\ idle' = s.idle /\ borrowed' = s.borrowed

Wipe(f, S, v) == [x \in DOMAIN f |-> IF x \in S THEN v ELSE f[x]]

Open(s) == {f \in Fd : s.conn[f] # "none"}
Clients(s) == {f \in Open(s) : s.node[f] = None}
Idle(s) == UNION {s.idle[a] : a \in Addr}
Free(s) == Fd \ (Open(s) \cup Idle(s))

\* The established backend sockets of node n: what active[n] should count.
Serving(s, n) == {f \in Fd : s.conn[f] = "ESTABLISHED" /\ s.node[f] = n}

\* Mutant: a socket still connecting is uncounted too.
UncountAlways(s, f, count) ==
  [n \in Node |-> IF s.node[f] = n /\ n \in alive /\ count[n] > 0
                    THEN count[n] - 1 ELSE count[n]]

(* BackendNode::decrement_connections for entry f, reached only if the     *)
(* entry was ESTABLISHED and its weak_ptr can still be locked.             *)
Uncount(s, f, count) ==
  [n \in Node |-> IF /\ s.conn[f] = "ESTABLISHED" /\ s.node[f] = n
                     /\ n \in alive /\ count[n] > 0
                    THEN count[n] - 1 ELSE count[n]]

-----------------------------------------------------------------------------
(* ConnectionManager *)

(* ConnectionPoolManager::release for the backend socket p, which was      *)
(* borrowed from, or opened next to, the pool of address a.  Validation    *)
(* may find the socket dead, in which case it is closed.                   *)
PoolRelease(s, p, a) ==
  LET t == [s EXCEPT !.borrowed = [s.borrowed EXCEPT ![a] = IF @ > 0 THEN @ - 1 ELSE 0]]
  IN  {t, [t EXCEPT !.idle = [t.idle EXCEPT ![a] = @ \cup {p}]]}

(* What close_connection leaves: the entry and its peer leave every table. *)
ClosePair(s, f) ==
  LET p == s.peer[f]
      gone == {f, p} \ {None}
  IN  [s EXCEPT
         !.conn = Wipe(s.conn, gone, "none"),
         !.peer = Wipe(s.peer, gone, None),
         !.node = Wipe(s.node, gone, None),
         !.owner = Wipe(s.owner, gone \cup {x \in Fd : s.owner[x] = f}, None),
         !.retries = Wipe(s.retries, gone, None),
         !.tracked = s.tracked \ gone,
         !.errors = s.errors \ gone,
         !.active = Uncount(s, f, IF p = None THEN s.active
                                  ELSE Uncount(s, p, s.active))]

(* close_connection: a client's backend socket is offered to the pool.     *)
CloseConnection(s, f) ==
  LET p == s.peer[f]
  IN  IF PoolEnabled /\ s.node[f] = None /\ p # None
        THEN PoolRelease(ClosePair(s, f), p, AddrOf[s.node[p]])
        ELSE {ClosePair(s, f)}

\* Mutant: the client keeps its pointer to the closed backend.
CloseBackendOnlyKeepsPeer(s, f) ==
  [s EXCEPT !.conn = Wipe(s.conn, {f}, "none"), !.peer = Wipe(s.peer, {f}, None),
            !.node = Wipe(s.node, {f}, None), !.owner = Wipe(s.owner, {f}, None),
            !.tracked = s.tracked \ {f}, !.active = Uncount(s, f, s.active)]

\* Mutant: backend_to_client_map_ keeps the closed backend.
CloseBackendOnlyKeepsOwner(s, f) ==
  [s EXCEPT !.conn = Wipe(s.conn, {f}, "none"),
            !.peer = Wipe(s.peer, {f, s.peer[f]}, None),
            !.node = Wipe(s.node, {f}, None),
            !.tracked = s.tracked \ {f}, !.active = Uncount(s, f, s.active)]

(* close_backend_connection_only: the client stays, without a peer.        *)
CloseBackendOnly(s, f) ==
  [s EXCEPT !.conn = Wipe(s.conn, {f}, "none"),
            !.peer = Wipe(s.peer, {f, s.peer[f]}, None),
            !.node = Wipe(s.node, {f}, None),
            !.owner = Wipe(s.owner, {f}, None),
            !.tracked = s.tracked \ {f},
            !.active = Uncount(s, f, s.active)]

-----------------------------------------------------------------------------
(* BackendConnector and RetryHandler *)

\* The nodes BackendPool::select_backend chooses from.
Eligible(s) ==
  {n \in backends : /\ health[n] = "HEALTHY"
                    /\ MaxPerBackend = 0 \/ s.active[n] < MaxPerBackend}

(* The tail of connect: client c and backend socket b become a pair, and   *)
(* one that is already established is counted.                             *)
Pair(s, c, b, n, st, r) ==
  LET up == IF st = "ESTABLISHED" THEN 1 ELSE 0
  IN  [s EXCEPT !.conn = [s.conn EXCEPT ![c] = "ESTABLISHED", ![b] = st],
                !.peer = [s.peer EXCEPT ![c] = b, ![b] = c],
                !.node = [s.node EXCEPT ![b] = n],
                !.owner = [s.owner EXCEPT ![b] = c],
                !.retries = [s.retries EXCEPT ![c] = r],
                !.active = [s.active EXCEPT ![n] = s.active[n] + up]]

\* One more socket is out, and these stay idle.
Lend(s, a, keep) ==
  [s EXCEPT !.borrowed = [s.borrowed EXCEPT ![a] = s.borrowed[a] + 1],
            !.idle = [s.idle EXCEPT ![a] = keep]]

\* Mutant: the borrowed socket stays in the idle list.
BorrowKeepsIdle(s, c, n, r) ==
  {Pair(s, c, b, n, "ESTABLISHED", r) : b \in s.idle[AddrOf[n]]}
  \cup {Pair(s, c, b, n, "ESTABLISHED", r) : b \in Free(s) \ {c}}

\* The idle socket b is lent; others that fail validation are closed.
BorrowIdle(s, c, n, r, b) ==
  {Pair(Lend(s, AddrOf[n], keep), c, b, n, "ESTABLISHED", r) :
     keep \in SUBSET (s.idle[AddrOf[n]] \ {b})}

\* With none idle a new socket is opened, below PoolMax.
BorrowNew(s, c, n, r) ==
  IF s.idle[AddrOf[n]] = {} /\ s.borrowed[AddrOf[n]] < PoolMax
    THEN {Pair(Lend(s, AddrOf[n], {}), c, b, n, "ESTABLISHED", r) :
            b \in Free(s) \ {c}}
    ELSE {}

(* ConnectionPool::borrow for client c and node n.  (Finding only invalid  *)
(* idle sockets is undefined behaviour in the code; see ConnectionPool.)   *)
Borrow(s, c, n, r) ==
  (UNION {BorrowIdle(s, c, n, r, b) : b \in s.idle[AddrOf[n]]})
  \cup BorrowNew(s, c, n, r)

(* One attempt at node n that leaves a pair; count k of the attempt.       *)
Attempt(s, c, n, k) ==
  LET sockets == IF ~PoolEnabled \/ s.idle[AddrOf[n]] = {}
                   THEN Free(s) \ {c} ELSE {}
  IN  (IF PoolEnabled THEN Borrow(s, c, n, k) ELSE {})
      \cup {Pair(s, c, b, n, "CONNECTING", k) : b \in sockets}
      \cup {Pair(s, c, b, n, "ESTABLISHED", k) : b \in sockets}

(* connect for client c, which is in none of the tables.  It ends with a   *)
(* pair, or with the client closed: no eligible backend, no descriptor or  *)
(* no address for it, or retries used up.  An immediate connect failure    *)
(* calls RetryHandler::retry, which calls connect again with the count one *)
(* higher; the pair that ends such a chain carries the last count.         *)
Connect(s, c, r) ==
  {s} \cup UNION {UNION {Attempt(s, c, n, k) : k \in r .. MaxRetry} :
                    n \in Eligible(s)}

\* Mutant: the attempt is not counted.
RetryUncounted(s, c, r) == IF r >= MaxRetry THEN {s} ELSE Connect(s, c, r)

(* RetryHandler::retry *)
Retry(s, c, r) == IF r >= MaxRetry THEN {s} ELSE Connect(s, c, r + 1)

-----------------------------------------------------------------------------
(* EventHandlers *)

\* The client's entry is moved out of connections_ for connect to use.
TakeOut(s, c) == [s EXCEPT !.conn = [s.conn EXCEPT ![c] = "none"]]

(* try_retry_on_backend_error, falling back to closing the pair.           *)
RetryOrClose(s, b) ==
  LET c == s.owner[b]
  IN  IF c = None \/ c \notin Open(s)
        THEN CloseConnection(s, b)
        ELSE Retry(TakeOut(CloseBackendOnly(s, b), c), c,
                   IF s.retries[c] = None THEN 0 ELSE s.retries[c])

(* What forwarding does to the backpressure tracking of f and its peer: it *)
(* starts for a side whose buffer is over the high-water mark and ends for *)
(* one whose buffer is not, whatever the buffers hold.                     *)
Touch(s, f) ==
  LET pair == {x \in {f, s.peer[f]} \ {None} : s.conn[x] = "ESTABLISHED"}
  IN  {[s EXCEPT !.tracked = (@ \ pair) \cup T] : T \in SUBSET pair}

(* The connect of b completed.  The same event then forwards what the      *)
(* client has sent so far, and reads or writes b, any of which may fail.   *)
Establish(s, b) ==
  LET n == s.node[b]
      up == IF n \in alive THEN 1 ELSE 0
      t == [s EXCEPT !.conn = [s.conn EXCEPT ![b] = "ESTABLISHED"],
                     !.active = [s.active EXCEPT ![n] = s.active[n] + up]]
  IN  Touch(t, b) \cup {CloseBackendOnly(t, b)} \cup CloseConnection(t, b)

(* handle_tls_handshake, when SSL_accept succeeds: the client is handed to *)
(* connect as a new one would be.  (WANT_READ and WANT_WRITE change        *)
(* nothing; a failure is a close of handle_client_event.)                  *)
HandleTlsHandshake(c) ==
  /\ conn[c] = "HANDSHAKE"
  /\ \E s \in Connect(TakeOut(Now, c), c, 0) : Become(s)

(* handle_client_event: the client is closed (error, expired backpressure, *)
(* failed handshake or write, end of file with nobody to forward to), its  *)
(* handshake completes, its backend's socket turns out unwritable, or data *)
(* moves.                                                                  *)
HandleClientEvent(c) ==
  /\ c \in Clients(Now) \ errors
  /\ \/ \E s \in CloseConnection(Now, c) : Become(s)
     \/ HandleTlsHandshake(c)
     \/ /\ conn[c] = "ESTABLISHED" /\ peer[c] # None
        /\ conn[peer[c]] = "ESTABLISHED"
        /\ \E s \in CloseConnection(Now, peer[c]) : Become(s)
     \/ /\ conn[c] = "ESTABLISHED"
        /\ \E s \in Touch(Now, c) : Become(s)
  /\ UNCHANGED <<health, backends, alive>>

(* handle_backend_event while the connect is in progress: it failed or     *)
(* took too long, or it succeeded, or an entry left in                     *)
(* backpressure_start_times_ by an earlier user of the descriptor expires. *)
HandleConnectingBackend(b) ==
  /\ b \in Open(Now) /\ node[b] # None /\ conn[b] = "CONNECTING"
  /\ \/ \E s \in RetryOrClose(Now, b) : Become(s)
     \/ \E s \in Establish(Now, b) : Become(s)
     \/ b \in tracked /\ \E s \in CloseConnection(Now, b) : Become(s)
  /\ UNCHANGED <<health, backends, alive>>

(* handle_backend_event on an established backend: end of file or error    *)
(* closes it alone; a failed write or expired backpressure closes the      *)
(* pair, and so does a failed write to the client while forwarding.        *)
HandleBackendEvent(b) ==
  /\ b \in Open(Now) /\ node[b] # None /\ conn[b] = "ESTABLISHED"
  /\ \/ Become(CloseBackendOnly(Now, b))
     \/ \E s \in CloseConnection(Now, b) : Become(s)
     \/ /\ peer[b] # None
        /\ \E s \in CloseConnection(Now, peer[b]) : Become(s)
     \/ \E s \in Touch(Now, b) : Become(s)
  /\ UNCHANGED <<health, backends, alive>>

-----------------------------------------------------------------------------
(* LoadBalancer *)

\* A new entry of connections_, which may be there only to send an error.
Insert(s, c, st, E) ==
  [s EXCEPT !.conn = [s.conn EXCEPT ![c] = st], !.errors = s.errors \cup E]

\* Mutant: count_established_connections instead of
\* count_active_client_connections, so handshakes are not counted.
AcceptCountsEstablished(c) ==
  /\ c \in Free(Now)
  /\ Cardinality({f \in Clients(Now) : conn[f] = "ESTABLISHED"}) < MaxGlobal
  /\ Become(Insert(Now, c, "HANDSHAKE", {}))
  /\ UNCHANGED <<health, backends, alive>>

(* handle_accept (or try_dequeue_clients) lets in a client whose socket    *)
(* got descriptor c.                                                       *)
Accept(c) ==
  /\ c \in Free(Now) /\ Cardinality(Clients(Now)) < MaxGlobal
  /\ IF Tls THEN Become(Insert(Now, c, "HANDSHAKE", {}))
            ELSE \E s \in Connect(Now, c, 0) : Become(s)
  /\ UNCHANGED <<health, backends, alive>>

(* send_http_error_and_close, when the socket buffer takes only part of    *)
(* the response: the rest waits in an entry of connections_.               *)
RejectWithError(c) ==
  /\ HttpErrors /\ c \in Free(Now)
  /\ Become(Insert(Now, c, "ESTABLISHED", {c}))
  /\ UNCHANGED <<health, backends, alive>>

(* The callback registered there: the response is out, or cannot be sent.  *)
ErrorSent(c) ==
  /\ c \in errors
  /\ \E s \in CloseConnection(Now, c) : Become(s)
  /\ UNCHANGED <<health, backends, alive>>

(* check_request_timeouts, check_handshake_timeouts and                    *)
(* check_backpressure_timeouts, for one of the descriptors they collect.   *)
TimeOut(f) ==
  /\ f \in Open(Now)
  /\ \/ node[f] = None /\ conn[f] \in {"ESTABLISHED", "HANDSHAKE"}
     \/ f \in tracked
  /\ \E s \in CloseConnection(Now, f) : Become(s)
  /\ UNCHANGED <<health, backends, alive>>

(* ConnectionPool::evict_expired closes some idle sockets of address a.    *)
EvictExpired(a) ==
  /\ \E keep \in (SUBSET idle[a]) \ {idle[a]} :
       /\ Cardinality(keep) >= PoolMin
       /\ idle' = [idle EXCEPT ![a] = keep]
  /\ UNCHANGED <<conn, peer, node, owner, retries, tracked, errors, active,
                 borrowed, health, backends, alive>>

\* Mutant: a draining node is removed whatever it still serves.
CleanupDraining ==
  LET drained == {n \in backends : health[n] = "DRAINING"}
  IN  /\ drained # {}
      /\ backends' = backends \ drained
      /\ UNCHANGED <<tables, health, alive>>

(* cleanup_drained_backends: the pool drops its reference; the health      *)
(* checker's snapshot of the list may keep the node alive a little longer. *)
CleanupDrained ==
  LET drained == {n \in backends : health[n] = "DRAINING" /\ active[n] = 0}
  IN  /\ drained # {}
      /\ backends' = backends \ drained
      /\ UNCHANGED <<tables, health, alive>>

ReleaseNode(n) ==
  /\ n \in alive \ backends
  /\ alive' = alive \ {n}
  /\ UNCHANGED <<tables, health, backends>>

(* LoadBalancer::add_backend: a new node for an address that has none.     *)
AddBackend(n) ==
  /\ n \notin alive /\ \A f \in Fd : node[f] # n
  /\ \A m \in backends : AddrOf[m] # AddrOf[n]
  /\ backends' = backends \cup {n} /\ alive' = alive \cup {n}
  /\ health' = [health EXCEPT ![n] = "HEALTHY"]
  /\ active' = [active EXCEPT ![n] = 0]
  /\ UNCHANGED <<conn, peer, node, owner, retries, tracked, errors, idle,
                 borrowed>>

(* BackendNode::set_state, from whichever thread.                          *)
SetState(n, h) ==
  /\ n \in alive /\ h # health[n]
  /\ health' = [health EXCEPT ![n] = h]
  /\ UNCHANGED <<tables, backends, alive>>

Init ==
  /\ conn = [f \in Fd |-> "none"] /\ peer = [f \in Fd |-> None]
  /\ node = [f \in Fd |-> None] /\ owner = [f \in Fd |-> None]
  /\ retries = [f \in Fd |-> None] /\ tracked = {} /\ errors = {}
  /\ active = [n \in Node |-> 0]
  /\ idle = [a \in Addr |-> {}] /\ borrowed = [a \in Addr |-> 0]
  /\ health = [n \in Node |-> "HEALTHY"] /\ backends = {} /\ alive = {}

Next ==
  \/ \E f \in Fd : \/ Accept(f) \/ RejectWithError(f) \/ ErrorSent(f)
                   \/ HandleClientEvent(f) \/ HandleConnectingBackend(f)
                   \/ HandleBackendEvent(f) \/ TimeOut(f)
  \/ \E a \in Addr : EvictExpired(a)
  \/ CleanupDrained
  \/ \E n \in Node : ReleaseNode(n) \/ AddBackend(n)
  \/ \E n \in Node, h \in Health : SetState(n, h)

Spec == Init /\ [][Next]_vars

-----------------------------------------------------------------------------
(* Properties *)

(* The tables hold what their C++ types allow.                             *)
TypeOK ==
  /\ conn \in [Fd -> ConnectionState]
  /\ peer \in [Fd -> Fd \cup {None}] /\ owner \in [Fd -> Fd \cup {None}]
  /\ node \in [Fd -> Node \cup {None}]
  /\ retries \in [Fd -> (0 .. MaxRetry) \cup {None}]
  /\ tracked \in SUBSET Fd /\ errors \in SUBSET Fd
  /\ active \in [Node -> Nat]
  /\ idle \in [Addr -> SUBSET Fd] /\ borrowed \in [Addr -> Nat]
  /\ health \in [Node -> Health] /\ backends \in SUBSET alive
  /\ alive \in SUBSET Node

(* peer_ never dangles: it leads to an entry of connections_ that points   *)
(* back, and a pair is one client and one backend socket.                  *)
PeersPaired ==
  \A f \in Fd : peer[f] # None =>
    /\ conn[f] # "none" /\ conn[peer[f]] # "none"
    /\ peer[peer[f]] = f
    /\ (node[f] = None) # (node[peer[f]] = None)

(* A backend socket in the tables always has its client, and               *)
(* backend_to_client_map_ (which retries use) and peer_ (which closing     *)
(* uses) agree on which client that is.  No backend socket is orphaned.    *)
NoOrphanBackend ==
  \A f \in Fd : /\ owner[f] = IF node[f] = None THEN None ELSE peer[f]
                /\ node[f] # None => conn[f] # "none" /\ peer[f] # None

(* The load a node reports, which least-connections, the per-backend cap   *)
(* and draining all use, is the number of its established sockets, through *)
(* every path that opens, retries, pools or closes one.                    *)
ActiveCountExact ==
  \A n \in alive : active[n] = Cardinality(Serving(Now, n))

(* A descriptor has one owner: it is in connections_ or in one idle list,  *)
(* never in both or in two.                                                *)
OneOwner ==
  /\ Open(Now) \cap Idle(Now) = {}
  /\ \A a, b \in Addr : a # b => idle[a] \cap idle[b] = {}

(* Clients let in (those not being sent an error) never exceed             *)
(* max_global_connections.                                                 *)
GlobalLimit == Cardinality(Clients(Now) \ errors) <= MaxGlobal

(* A client that stays connected while its backend is replaced has used    *)
(* one more of its retries, so it meets at most MaxRetry + 1 backends.     *)
RetryProgress ==
  [][\A c \in Fd :
       (peer[c] # None /\ peer'[c] # None /\ node[c] = None /\ node'[c] = None
        /\ <<peer'[c], node'[peer'[c]]>> # <<peer[c], node[peer[c]]>>)
       => retries'[c] > retries[c]]_vars

(* A node is dropped from the pool only when it serves no established      *)
(* connection, so the shared_ptr it loses was not needed to count one.     *)
DrainedBeforeRemoval ==
  [][\A n \in backends \ backends' : Serving(Now, n) = {}]_vars

(* README.md:168, max_connections_per_backend: no node serves more         *)
(* connections than that.  The code compares the cap with active_          *)
(* connections_, which a connection joins only once it is established.     *)
BackendCap ==
  MaxPerBackend > 0 =>
    \A n \in alive : Cardinality(Serving(Now, n)) <= MaxPerBackend
=============================================================================
