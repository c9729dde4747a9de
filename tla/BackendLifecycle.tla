-------------------------- MODULE BackendLifecycle --------------------------
(***************************************************************************)
(* How a backend joins, leaves and recovers: BackendNode::state_ is        *)
(* written by three threads without a common lock.                         *)
(*   reactor         apply_config marks, restores and adds backends;       *)
(*                   cleanup_drained_backends removes them; routing reads  *)
(*   health checker  update_backend_state reads the state, counts the      *)
(*                   probe and may then write the state, holding only its  *)
(*                   own state_mutex_                                      *)
(*   shutdown        shutdown_gracefully marks every backend               *)
(* A thread is split into steps where another thread's write or a mutex    *)
(* can come between.                                                       *)
(***************************************************************************)
EXTENDS Integers

CONSTANTS
  Node, Addr, AddrOf,   \* BackendNode objects and the host:port each is for
  Configs,              \* the backend lists a config file may hold
  None,
  CheckerOn,            \* health_check_enabled
  FailureThreshold, SuccessThreshold,
  MaxLoad,              \* bound on a node's connections
  MaxCount              \* the consecutive counters saturate here

VARIABLES
  wanted,   \* the backends of last_applied_config_
  pool,     \* BackendPool::backends_
  health,   \* BackendNode::state_
  load,     \* BackendNode::active_connections_
  phase,    \* where the reactor is: loop, apply, cleanup or unwatch
  work,     \* apply: configured addresses still to be handled
  leaving,  \* unwatch: nodes to be taken from the health checker
  watched,  \* HealthChecker::backends_
  fails,    \* consecutive_failures_
  oks,      \* consecutive_successes_
  todo,     \* run_loop: the part of backends_copy not yet probed
  verdict,  \* update_backend_state: the state about to be written, or None
  stop,     \* run, marked, draining or stopped
  streak    \* history: the node's last probes, n > 0 good or -n > 0 bad ones

reactor == <<wanted, pool, load, phase, work, leaving>>
checker == <<fails, oks, todo, verdict, streak>>
vars == <<reactor, checker, watched, health, stop>>

ASSUME LifecycleAssumption ==
  /\ AddrOf \in [Node -> Addr] /\ Configs \subseteq SUBSET Addr
  /\ CheckerOn \in BOOLEAN
  /\ FailureThreshold \in Nat \ {0} /\ SuccessThreshold \in Nat \ {0}
  /\ MaxLoad \in Nat /\ MaxCount \in Nat
  /\ MaxCount >= FailureThreshold /\ MaxCount >= SuccessThreshold
  /\ None \notin [node : Node, to : {"HEALTHY", "UNHEALTHY"}]

Health == {"HEALTHY", "UNHEALTHY", "DRAINING"}
NodesAt(a) == {n \in pool : AddrOf[n] = a}

-----------------------------------------------------------------------------
(* Reactor: the periodic callback of LoadBalancer *)

\* The periodic tick, with no new configuration.
Tick ==
  /\ phase = "loop" /\ stop \in {"run", "marked"}
  /\ phase' = "cleanup"
  /\ UNCHANGED <<wanted, pool, load, work, leaving, checker, watched, health, stop>>

(* apply_config, first loop: backends the new configuration C leaves out   *)
(* are marked.  (Nothing but draining_ stops it during a shutdown.)        *)
Reload(C) ==
  /\ phase = "loop" /\ stop \in {"run", "marked"}
  /\ wanted' = C /\ work' = C
  /\ phase' = IF C = {} THEN "cleanup" ELSE "apply"
  /\ health' = [n \in Node |-> IF n \in pool /\ AddrOf[n] \notin C
                                 THEN "DRAINING" ELSE health[n]]
  /\ UNCHANGED <<pool, load, leaving, checker, watched, stop>>

NextAddress(a) ==
  /\ work' = work \ {a}
  /\ phase' = IF work = {a} THEN "cleanup" ELSE "apply"

(* Second loop, for an address that has a node: a draining one is restored. *)
KeepBackend(a) ==
  /\ phase = "apply" /\ a \in work
  /\ \E n \in NodesAt(a) :
       health' = [health EXCEPT ![n] = IF @ = "DRAINING" THEN "HEALTHY" ELSE @]
  /\ NextAddress(a)
  /\ UNCHANGED <<wanted, pool, load, leaving, checker, watched, stop>>

\* Mutant: the health checker is not told.
AddBackendUnwatched(a) ==
  /\ phase = "apply" /\ a \in work /\ NodesAt(a) = {} /\ verdict = None
  /\ \E n \in Node \ (pool \cup watched \cup todo) :
       /\ AddrOf[n] = a
       /\ pool' = pool \cup {n}
       /\ health' = [health EXCEPT ![n] = "HEALTHY"]
       /\ load' = [load EXCEPT ![n] = 0]
  /\ NextAddress(a)
  /\ UNCHANGED <<wanted, leaving, watched, checker, stop>>

(* Second loop, for an address that has none: LoadBalancer::add_backend.   *)
(* HealthChecker::add_backend waits for state_mutex_.  A node object that  *)
(* a probe still refers to is not the new one.                             *)
AddBackend(a) ==
  /\ phase = "apply" /\ a \in work /\ NodesAt(a) = {} /\ verdict = None
  /\ \E n \in Node \ (pool \cup watched \cup todo) :
       /\ AddrOf[n] = a
       /\ pool' = pool \cup {n}
       /\ health' = [health EXCEPT ![n] = "HEALTHY"]
       /\ load' = [load EXCEPT ![n] = 0]
       /\ watched' = watched \cup {n}
       /\ fails' = [fails EXCEPT ![n] = 0] /\ oks' = [oks EXCEPT ![n] = 0]
       /\ streak' = [streak EXCEPT ![n] = 0]
  /\ NextAddress(a)
  /\ UNCHANGED <<wanted, leaving, todo, verdict, stop>>

\* Mutant: only nodes the configuration still wants are looked at.
CleanupWanted ==
  /\ phase = "cleanup"
  /\ LET drained == {n \in pool : /\ health[n] = "DRAINING" /\ load[n] = 0
                                  /\ AddrOf[n] \in wanted}
     IN  /\ pool' = pool \ drained /\ leaving' = drained
         /\ phase' = IF drained = {} THEN "loop" ELSE "unwatch"
  /\ UNCHANGED <<wanted, load, work, checker, watched, health, stop>>

(* cleanup_drained_backends: the pool drops the node first ...             *)
Cleanup ==
  /\ phase = "cleanup"
  /\ LET drained == {n \in pool : health[n] = "DRAINING" /\ load[n] = 0}
     IN  /\ pool' = pool \ drained /\ leaving' = drained
         /\ phase' = IF drained = {} THEN "loop" ELSE "unwatch"
  /\ UNCHANGED <<wanted, load, work, checker, watched, health, stop>>

(* ... then the health checker does, once state_mutex_ is free.            *)
Unwatch ==
  /\ phase = "unwatch" /\ verdict = None
  /\ watched' = watched \ leaving /\ leaving' = {} /\ phase' = "loop"
  /\ fails' = [n \in Node |-> IF n \in leaving THEN 0 ELSE fails[n]]
  /\ oks' = [n \in Node |-> IF n \in leaving THEN 0 ELSE oks[n]]
  /\ UNCHANGED <<wanted, pool, load, work, todo, verdict, streak, health, stop>>

(* A connection to n is established: a new client's, or a retry.           *)
Route(n) ==
  /\ phase = "loop" /\ stop # "stopped"
  /\ n \in pool /\ health[n] = "HEALTHY" /\ load[n] < MaxLoad
  /\ load' = [load EXCEPT ![n] = @ + 1]
  /\ UNCHANGED <<wanted, pool, phase, work, leaving, checker, watched, health, stop>>

(* A connection to n is closed.                                            *)
Finish(n) ==
  /\ phase = "loop" /\ load[n] > 0
  /\ load' = [load EXCEPT ![n] = @ - 1]
  /\ UNCHANGED <<wanted, pool, phase, work, leaving, checker, watched, health, stop>>

-----------------------------------------------------------------------------
(* HealthChecker::run_loop *)

CopyBackends ==
  /\ CheckerOn /\ stop # "stopped" /\ todo = {} /\ verdict = None /\ watched # {}
  /\ todo' = watched
  /\ UNCHANGED <<reactor, watched, fails, oks, verdict, streak, health, stop>>

Up(c) == IF c < MaxCount THEN c + 1 ELSE c

Streak(k, ok) == IF ok THEN IF k >= 0 THEN Up(k) ELSE 1
                       ELSE IF k <= 0 THEN -Up(-k) ELSE -1

\* Mutant: a success does not reset the failures.
ProbeKeepsFailures(n, ok) ==
  LET good == IF ok THEN Up(oks[n]) ELSE 0
      bad == IF ok THEN fails[n] ELSE Up(fails[n])
      down == ~ok /\ health[n] = "HEALTHY" /\ bad >= FailureThreshold
      up == ok /\ health[n] = "UNHEALTHY" /\ good >= SuccessThreshold
  IN  /\ n \in todo /\ verdict = None
      /\ todo' = todo \ {n}
      /\ oks' = [oks EXCEPT ![n] = IF up THEN 0 ELSE good]
      /\ fails' = [fails EXCEPT ![n] = IF down THEN 0 ELSE bad]
      /\ verdict' = IF up THEN [node |-> n, to |-> "HEALTHY"]
                    ELSE IF down THEN [node |-> n, to |-> "UNHEALTHY"] ELSE None
      /\ streak' = [streak EXCEPT ![n] = Streak(@, ok)]
      /\ UNCHANGED <<reactor, watched, health, stop>>

\* Mutant: a backend is given up for good.
ProbeNeverUp(n, ok) ==
  LET bad == IF ok THEN 0 ELSE Up(fails[n])
      down == ~ok /\ health[n] = "HEALTHY" /\ bad >= FailureThreshold
  IN  /\ n \in todo /\ verdict = None
      /\ todo' = todo \ {n}
      /\ fails' = [fails EXCEPT ![n] = IF down THEN 0 ELSE bad]
      /\ verdict' = IF down THEN [node |-> n, to |-> "UNHEALTHY"] ELSE None
      /\ streak' = [streak EXCEPT ![n] = Streak(@, ok)]
      /\ UNCHANGED <<reactor, watched, oks, health, stop>>

\* Mutant: a backend that is DRAINING is judged like any other.
ProbeDraining(n, ok) ==
  LET good == IF ok THEN Up(oks[n]) ELSE 0
      bad == IF ok THEN 0 ELSE Up(fails[n])
      up == ok /\ health[n] # "HEALTHY" /\ good >= SuccessThreshold
      down == ~ok /\ health[n] = "HEALTHY" /\ bad >= FailureThreshold
  IN  /\ n \in todo /\ verdict = None
      /\ todo' = todo \ {n}
      /\ oks' = [oks EXCEPT ![n] = IF up THEN 0 ELSE good]
      /\ fails' = [fails EXCEPT ![n] = IF down THEN 0 ELSE bad]
      /\ verdict' = IF up THEN [node |-> n, to |-> "HEALTHY"]
                    ELSE IF down THEN [node |-> n, to |-> "UNHEALTHY"] ELSE None
      /\ streak' = [streak EXCEPT ![n] = Streak(@, ok)]
      /\ UNCHANGED <<reactor, watched, health, stop>>

(* check_backend and the first part of update_backend_state: the probe     *)
(* succeeds or not, the state is read, the counters move.  If the state is *)
(* to change, the thread keeps state_mutex_ until it has written it.       *)
Probe(n, ok) ==
  LET good == IF ok THEN Up(oks[n]) ELSE 0
      bad == IF ok THEN 0 ELSE Up(fails[n])
      up == ok /\ health[n] = "UNHEALTHY" /\ good >= SuccessThreshold
      down == ~ok /\ health[n] = "HEALTHY" /\ bad >= FailureThreshold
  IN  /\ n \in todo /\ verdict = None
      /\ todo' = todo \ {n}
      /\ oks' = [oks EXCEPT ![n] = IF up THEN 0 ELSE good]
      /\ fails' = [fails EXCEPT ![n] = IF down THEN 0 ELSE bad]
      /\ verdict' = IF up THEN [node |-> n, to |-> "HEALTHY"]
                    ELSE IF down THEN [node |-> n, to |-> "UNHEALTHY"] ELSE None
      /\ streak' = [streak EXCEPT ![n] = Streak(@, ok)]
      /\ UNCHANGED <<reactor, watched, health, stop>>

(* The write, whatever the state has become since it was read.             *)
WriteVerdict ==
  /\ verdict # None
  /\ health' = [health EXCEPT ![verdict.node] = verdict.to]
  /\ verdict' = None
  /\ UNCHANGED <<reactor, watched, fails, oks, todo, streak, stop>>

-----------------------------------------------------------------------------
(* The shutdown watcher: shutdown_gracefully *)

MarkAll ==
  /\ stop = "run" /\ stop' = "marked"
  /\ health' = [n \in Node |-> IF n \in pool THEN "DRAINING" ELSE health[n]]
  /\ UNCHANGED <<reactor, checker, watched>>

SetDraining ==
  /\ stop = "marked" /\ stop' = "draining"
  /\ UNCHANGED <<reactor, checker, watched, health>>

\* Mutant: without the deadline.
ShutDownWhenDrained ==
  /\ stop = "draining" /\ verdict = None
  /\ \A n \in Node : load[n] = 0
  /\ stop' = "stopped" /\ todo' = {}
  /\ UNCHANGED <<reactor, fails, oks, verdict, streak, watched, health>>

(* No connection left (seen by the watcher or by check_graceful_shutdown), *)
(* or the deadline passed: close everything and join the health checker.   *)
ShutDown ==
  /\ stop = "draining" /\ verdict = None
  /\ (\A n \in Node : load[n] = 0) \/ phase = "loop"
  /\ stop' = "stopped" /\ load' = [n \in Node |-> 0] /\ todo' = {}
  /\ UNCHANGED <<wanted, pool, phase, work, leaving, fails, oks, verdict, streak,
                 watched, health>>

-----------------------------------------------------------------------------
(* initialize_from_config has added the backends of one configuration,     *)
(* each as one of the nodes for its address.                               *)
Init ==
  /\ wanted \in Configs
  /\ pool \in {P \in SUBSET Node :
                 /\ {AddrOf[n] : n \in P} = wanted
                 /\ \A m, n \in P : AddrOf[m] = AddrOf[n] => m = n}
  /\ watched = pool /\ health = [n \in Node |-> "HEALTHY"]
  /\ load = [n \in Node |-> 0]
  /\ phase = "loop" /\ work = {} /\ leaving = {}
  /\ fails = [n \in Node |-> 0] /\ oks = [n \in Node |-> 0]
  /\ streak = [n \in Node |-> 0]
  /\ todo = {} /\ verdict = None /\ stop = "run"

ReactorNext ==
  \/ Tick \/ Cleanup \/ Unwatch
  \/ \E C \in Configs : Reload(C)
  \/ \E a \in Addr : KeepBackend(a) \/ AddBackend(a)
  \/ \E n \in Node : Route(n) \/ Finish(n)

CheckerNext ==
  \/ CopyBackends \/ WriteVerdict
  \/ \E n \in Node, ok \in BOOLEAN : Probe(n, ok)

Next == ReactorNext \/ CheckerNext \/ MarkAll \/ SetDraining \/ ShutDown

Spec == Init /\ [][Next]_vars

(* The threads keep running: the reactor its steps and its one-second      *)
(* tick, the health checker its loop, the watcher its call.  A reload or a *)
(* connection need never come, and a connection need never end.            *)
Fairness ==
  /\ SF_vars(Tick) /\ WF_vars(Cleanup) /\ WF_vars(Unwatch)
  /\ \A a \in Addr : WF_vars(KeepBackend(a) \/ AddBackend(a))
  /\ WF_vars(CopyBackends) /\ WF_vars(WriteVerdict)
  /\ \A n \in Node : WF_vars(\E ok \in BOOLEAN : Probe(n, ok))
  /\ WF_vars(SetDraining) /\ SF_vars(ShutDown)

FairSpec == Spec /\ Fairness

-----------------------------------------------------------------------------
(* Properties *)

(* Every variable has its type; counters and loads stay within bounds.    *)
TypeOK ==
  /\ wanted \in Configs /\ pool \subseteq Node /\ watched \subseteq Node
  /\ health \in [Node -> Health] /\ load \in [Node -> 0 .. MaxLoad]
  /\ phase \in {"loop", "apply", "cleanup", "unwatch"}
  /\ work \subseteq Addr /\ leaving \subseteq Node
  /\ fails \in [Node -> 0 .. MaxCount] /\ oks \in [Node -> 0 .. MaxCount]
  /\ streak \in [Node -> (-MaxCount) .. MaxCount]
  /\ todo \subseteq Node
  /\ verdict \in [node : Node, to : {"HEALTHY", "UNHEALTHY"}] \cup {None}
  /\ stop \in {"run", "marked", "draining", "stopped"}

(* Two lists hold the backends: BackendPool::backends_ and                 *)
(* HealthChecker::backends_.  Whenever the reactor is back in its loop     *)
(* they agree, so every routable backend is probed and no removed one is   *)
(* (after the round in progress).                                          *)
ListsAgree == phase = "loop" => watched = pool

(* However a backend is removed and added again, an address never has two  *)
(* nodes in the pool: its load and its health are kept in one place.       *)
OneNodePerAddress ==
  \A m, n \in pool : AddrOf[m] = AddrOf[n] => m = n

(* README.md:569: a backend changes state only after the threshold's       *)
(* number of consecutive probes, counted from the probes themselves and    *)
(* not from the counters, which reloads, removals and transitions reset.   *)
ThresholdsRespected ==
  [][\A n \in pool \cap pool' :
       /\ health[n] = "HEALTHY" /\ health'[n] = "UNHEALTHY"
            => streak[n] <= -FailureThreshold
       /\ health[n] = "UNHEALTHY" /\ health'[n] = "HEALTHY"
            => streak[n] >= SuccessThreshold]_vars

(* README.md:571: a backend that stops failing its probes is in the end    *)
(* not UNHEALTHY for good, while it is in the pool.                        *)
Recovers ==
  \A n \in Node :
    <>[][~Probe(n, FALSE)]_vars
      => <>[](n \in pool /\ stop = "run" => health[n] # "UNHEALTHY")

(* If connections end, as request_timeout_ms makes them, a backend that    *)
(* the configuration leaves out and that stays marked is in the end        *)
(* removed, unless a later one brings it back or a shutdown begins.        *)
DrainCompletes ==
  (\A n \in Node : SF_vars(Finish(n))) =>
    \A n \in Node :
      (n \in pool /\ AddrOf[n] \notin wanted)
        ~> (\/ n \notin pool \/ AddrOf[n] \in wanted
            \/ health[n] # "DRAINING" \/ stop # "run")

(* architecture.md:309-310: a shutdown that has begun ends, whatever the   *)
(* backends, the clients and a reload in progress do.                      *)
ShutdownCompletes == stop = "marked" ~> stop = "stopped"

(* A backend that was marked DRAINING, by a reload or by a shutdown, stays *)
(* so until a configuration that lists it is applied: the health checker   *)
(* passes over it.  The one exception is a verdict it had already reached  *)
(* when the backend was marked, and writes without looking again.          *)
DrainingKept ==
  [][/\ \A n \in pool :
          health[n] = "DRAINING" /\ health'[n] # "DRAINING"
            => \/ phase = "apply" /\ AddrOf[n] \in wanted
               \/ verdict # None /\ verdict.node = n
     /\ verdict = None /\ verdict' # None => health[verdict'.node] # "DRAINING"]_vars
=============================================================================
