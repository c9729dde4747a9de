--------------------------- MODULE BackendRouting ---------------------------
(***************************************************************************)
(* Which backend a connection goes to: BackendPool::select_backend with    *)
(* its two algorithms, the sessions of SessionManager that override them,  *)
(* and the attempts of BackendConnector and RetryHandler that call it.     *)
(* Everything here runs on the reactor thread; the health of a backend and *)
(* the load of others change between two calls.                            *)
(***************************************************************************)
EXTENDS Naturals, FiniteSets, SequencesExt, FiniteSetsExt

CONSTANTS
  Node,         \* backends, one per address
  Weight,       \* BackendNode::weight_
  Cap,          \* max_connections_per_backend, 0 = unlimited
  Key,          \* session keys; None = sticky sessions do not apply
  None,
  Ttl,          \* sticky_sessions_ttl_seconds
  MaxRetry,     \* RetryHandler::MAX_RETRY_ATTEMPTS
  Algorithms,   \* the algorithms a configuration may name
  CounterMod,   \* weighted_counter_ wraps at this value (2^32)
  MaxLoad,      \* bound on a node's connections
  MaxTime       \* bound on the clock

VARIABLES
  backends,   \* BackendPool::backends_
  health,     \* BackendNode::state_: is it HEALTHY?
  active,     \* BackendNode::active_connections_
  counter,    \* weighted_counter_
  algorithm,  \* algorithm_
  sessions,   \* SessionManager::sessions_
  now,
  attempt,    \* the connect in progress: key, node and retry_count
  picks,      \* history: weighted picks since the choice or counter changed
  kept        \* history: where a key's session has been usable ever since

vars == <<backends, health, active, counter, algorithm, sessions, now, attempt,
          picks, kept>>

ASSUME RoutingAssumption ==
  /\ Weight \in [Node -> Nat] /\ {Cap, Ttl, MaxRetry, MaxLoad, MaxTime} \subseteq Nat
  /\ CounterMod \in Nat \ {0}
  /\ Algorithms \subseteq {"round_robin", "least_connections"}
  /\ None \notin Key \cup Node

-----------------------------------------------------------------------------
(* select_backend *)

Usable(n) == health[n] /\ (Cap = 0 \/ active[n] < Cap)
Healthy == SelectSeq(backends, Usable)

\* The sum of the weights of the first i of s.
Upto(s, i) == MapThenSumSet(LAMBDA j : Weight[s[j]], 1 .. i)
Total(s) == Upto(s, Len(s))

\* Mutant: off by one.
WeightedPickLate(s) ==
  LET target == counter % Total(s)
  IN  s[Min({i \in DOMAIN s : target <= Upto(s, i)})]

(* select_weighted_round_robin *)
WeightedPick(s) ==
  LET target == counter % Total(s)
  IN  s[Min({i \in DOMAIN s : target < Upto(s, i)})]

(* The comparison of two loads as doubles: with weight 0 a load is         *)
(* infinite, or not a number if there are no connections either.           *)
Less(m, n) ==
  Weight[m] # 0 /\ IF Weight[n] = 0 THEN active[n] > 0
                   ELSE active[m] * Weight[n] < active[n] * Weight[m]

\* Mutant: the weights are not looked at.
LeastLoadedUnweighted(s) ==
  FoldLeft(LAMBDA m, n : IF active[n] < active[m] THEN n ELSE m, Head(s), s)

(* std::min_element: the first with nothing smaller.                       *)
LeastLoaded(s) ==
  FoldLeft(LAMBDA m, n : IF Less(n, m) THEN n ELSE m, Head(s), s)

\* Mutant: the capacity of the sticky backend is not checked.
StickyNodeUncapped(k) ==
  IF /\ k # None /\ sessions[k] # None /\ now < sessions[k].expires
     /\ Contains(backends, sessions[k].node) /\ health[sessions[k].node]
    THEN sessions[k].node ELSE None

(* get_session, and the first part of select_backend: the node of a live   *)
(* session, if it may be used.                                             *)
StickyNode(k) ==
  IF /\ k # None /\ sessions[k] # None /\ now < sessions[k].expires
     /\ Contains(backends, sessions[k].node) /\ Usable(sessions[k].node)
    THEN sessions[k].node ELSE None

-----------------------------------------------------------------------------
(* BackendConnector::connect *)

\* A node was chosen for key k: the session is set and the attempt begins.
Start(k, n, r) ==
  /\ attempt' = [key |-> k, node |-> n, retry |-> r]
  /\ sessions' = IF k = None THEN sessions
                 ELSE [sessions EXCEPT ![k] = [node |-> n, expires |-> now + Ttl]]
  /\ kept' = IF k = None \/ Ttl = 0 THEN kept
             ELSE [kept EXCEPT ![k] = [node |-> n, until |-> now + Ttl]]
  /\ UNCHANGED <<backends, health, active, algorithm, now>>

(* connect as far as the choice; with nobody to choose, the client is      *)
(* closed.                                                                 *)
Choose(k, r) ==
  \/ /\ StickyNode(k) # None
     /\ Start(k, StickyNode(k), r) /\ UNCHANGED <<counter, picks>>
  \/ /\ StickyNode(k) = None /\ Healthy # <<>>
     /\ algorithm = "round_robin" /\ Total(Healthy) > 0
     /\ Start(k, WeightedPick(Healthy), r)
     /\ counter' = (counter + 1) % CounterMod
     /\ picks' = IF counter' = 0 THEN <<>> ELSE
          LET p == Append(picks, WeightedPick(Healthy))
          IN  IF Len(p) > Total(Healthy) THEN Tail(p) ELSE p
  \/ /\ StickyNode(k) = None /\ Healthy # <<>>
     /\ algorithm = "round_robin" /\ Total(Healthy) = 0
     /\ Start(k, Head(Healthy), r) /\ UNCHANGED <<counter, picks>>
  \/ /\ StickyNode(k) = None /\ Healthy # <<>>
     /\ algorithm = "least_connections"
     /\ Start(k, LeastLoaded(Healthy), r) /\ UNCHANGED <<counter, picks>>
  \/ /\ StickyNode(k) = None /\ Healthy = <<>> /\ attempt' = None
     /\ UNCHANGED <<backends, health, active, counter, algorithm, sessions, now,
                    picks, kept>>

Route(k) == attempt = None /\ Choose(k, 0)

(* The histories after a step that is not a choice: weighted picks count   *)
(* on while the list to pick from stays the same, and a session is kept    *)
(* while it lasts and its node may be used.                                *)
Observe ==
  /\ picks' = IF Healthy' = Healthy /\ algorithm' = algorithm THEN picks ELSE <<>>
  /\ kept' = [k \in Key |->
       IF /\ kept[k] # None /\ now' < kept[k].until
          /\ Contains(backends', kept[k].node) /\ health'[kept[k].node]
          /\ Cap = 0 \/ active'[kept[k].node] < Cap
         THEN kept[k] ELSE None]

(* The connection counts only if its node has not been removed meanwhile. *)
Established ==
  /\ attempt # None /\ attempt' = None
  /\ IF attempt.node = None THEN active' = active ELSE
       /\ active[attempt.node] < MaxLoad
       /\ active' = [active EXCEPT ![attempt.node] = @ + 1]
  /\ UNCHANGED <<backends, health, counter, algorithm, sessions, now>>
  /\ Observe

(* The connect failed: RetryHandler::retry, with the client's key.         *)
Failed ==
  /\ attempt # None
  /\ \/ attempt.retry < MaxRetry /\ Choose(attempt.key, attempt.retry + 1)
     \/ /\ attempt.retry >= MaxRetry /\ attempt' = None
        /\ UNCHANGED <<backends, health, active, counter, algorithm, sessions,
                       now, picks, kept>>

Finished(n) ==
  /\ active[n] > 0 /\ active' = [active EXCEPT ![n] = @ - 1]
  /\ UNCHANGED <<backends, health, counter, algorithm, sessions, now, attempt>>
  /\ Observe

-----------------------------------------------------------------------------
(* What changes the choice between two calls *)

SetState(n) ==
  /\ Contains(backends, n) /\ health' = [health EXCEPT ![n] = ~@]
  /\ UNCHANGED <<backends, active, counter, algorithm, sessions, now, attempt>>
  /\ Observe

AddBackend(n) ==
  /\ ~Contains(backends, n) /\ backends' = Append(backends, n)
  /\ health' = [health EXCEPT ![n] = TRUE]
  /\ UNCHANGED <<active, counter, algorithm, sessions, now, attempt>>
  /\ Observe

(* cleanup_drained_backends; Node stands for the address, which may come   *)
(* back.  A connect in progress is left with an expired weak_ptr.          *)
RemoveBackend(n) ==
  /\ Contains(backends, n) /\ ~health[n] /\ active[n] = 0
  /\ backends' = SelectSeq(backends, LAMBDA m : m # n)
  /\ attempt' = IF attempt # None /\ attempt.node = n
                  THEN [attempt EXCEPT !.node = None] ELSE attempt
  /\ UNCHANGED <<health, active, counter, algorithm, sessions, now>>
  /\ Observe

SetAlgorithm(a) ==
  /\ algorithm # a /\ algorithm' = a
  /\ UNCHANGED <<backends, health, active, counter, sessions, now, attempt>>
  /\ Observe

Tick ==
  /\ now < MaxTime /\ now' = now + 1
  /\ UNCHANGED <<backends, health, active, counter, algorithm, sessions, attempt>>
  /\ Observe

\* Mutant: a session is dropped a second early.
CleanupSessionsEarly ==
  /\ sessions' = [k \in Key |-> IF sessions[k] # None /\ now + 1 >= sessions[k].expires
                                  THEN None ELSE sessions[k]]
  /\ sessions' # sessions
  /\ UNCHANGED <<backends, health, active, counter, algorithm, now, attempt,
                 picks, kept>>

(* cleanup_expired_sessions *)
CleanupSessions ==
  /\ sessions' = [k \in Key |-> IF sessions[k] # None /\ now >= sessions[k].expires
                                  THEN None ELSE sessions[k]]
  /\ sessions' # sessions
  /\ UNCHANGED <<backends, health, active, counter, algorithm, now, attempt,
                 picks, kept>>

Init ==
  /\ backends \in SetToSeqs(Node) /\ health = [n \in Node |-> TRUE]
  /\ active = [n \in Node |-> 0] /\ counter = 0 /\ algorithm \in Algorithms
  /\ sessions = [k \in Key |-> None] /\ now = 0 /\ attempt = None
  /\ picks = <<>> /\ kept = [k \in Key |-> None]

Next ==
  \/ \E k \in Key \cup {None} : Route(k)
  \/ Established \/ Failed \/ Tick \/ CleanupSessions
  \/ \E n \in Node : \/ Finished(n) \/ SetState(n)
                     \/ AddBackend(n) \/ RemoveBackend(n)
  \/ \E a \in Algorithms : SetAlgorithm(a)

Spec == Init /\ [][Next]_vars

-----------------------------------------------------------------------------
(* Properties *)

(* Every variable of the router has its type.                              *)
TypeOK ==
  /\ backends \in Seq(Node) /\ health \in [Node -> BOOLEAN]
  /\ active \in [Node -> 0 .. MaxLoad] /\ counter \in 0 .. CounterMod - 1
  /\ algorithm \in Algorithms /\ now \in 0 .. MaxTime
  /\ sessions \in [Key -> [node : Node, expires : 0 .. MaxTime + Ttl] \cup {None}]
  /\ attempt \in [key : Key \cup {None}, node : Node \cup {None},
                  retry : 0 .. MaxRetry] \cup {None}
  /\ picks \in Seq(Node)
  /\ kept \in [Key -> [node : Node, until : 0 .. MaxTime + Ttl] \cup {None}]

\* A step that begins an attempt.
Begins == attempt' \notin {attempt, None} /\ attempt'.node # None

(* README.md:161, "Gets 3x traffic": out of as many consecutive weighted   *)
(* picks from an unchanged list as the weights add up to, wherever in the  *)
(* cycle they start, each backend gets exactly its weight.                 *)
WeightedShare ==
  Healthy # <<>> /\ Len(picks) = Total(Healthy) =>
    \A n \in Node : Contains(Healthy, n) =>
      Cardinality({i \in DOMAIN picks : picks[i] = n}) = Weight[n]

(* architecture.md:57 and README.md:535: every attempt, sticky, routed or  *)
(* retried, goes to a backend that is in the pool, healthy and below its   *)
(* cap at that moment.                                                     *)
SkipsUnusable ==
  [][Begins => Contains(backends, attempt'.node) /\ Usable(attempt'.node)]_vars

(* README.md:530: while its session lasts and its backend may be used, a   *)
(* client goes to the same backend, whatever other clients do and whatever *)
(* else happens to the pool, the algorithm and the session table.          *)
StickyKept ==
  [][Begins /\ attempt'.key # None /\ kept[attempt'.key] # None
       => attempt'.node = kept[attempt'.key].node]_vars

(* No backend with a weight has less load for its weight than the one that *)
(* least_connections picks without a session.                              *)
PicksLeastLoaded ==
  [][Begins /\ algorithm = "least_connections" /\ attempt'.key = None
       => \A m \in Node : Contains(Healthy, m) => ~Less(m, attempt'.node)]_vars
=============================================================================
