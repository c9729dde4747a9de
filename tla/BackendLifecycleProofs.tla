----------------------- MODULE BackendLifecycleProofs -----------------------
(***************************************************************************)
(* What holds of a backend's state for any number of backends, any         *)
(* configurations and any thresholds, although three threads write it.     *)
(*                                                                         *)
(* The two lists agree because the reactor changes both within one pass:   *)
(* Lists says how far apart they are in between.  The thresholds are       *)
(* respected because a counter never exceeds the run of probes it stands   *)
(* for (Counted), and because the verdict the health checker has reached   *)
(* but not yet written was earned (Earned), whatever happens to the state  *)
(* meanwhile.                                                              *)
(***************************************************************************)
EXTENDS BackendLifecycle, TLAPS

(* Outside the unwatch step the lists are equal; in it, the health checker *)
(* also has the nodes that are leaving.                                    *)
Lists ==
  /\ phase # "unwatch" => watched = pool /\ leaving = {}
  /\ phase = "unwatch" => watched = pool \cup leaving /\ pool \cap leaving = {}
  /\ phase = "apply" => work \subseteq wanted

(* The counters are no more than the last probes say.                      *)
Counted ==
  \A n \in Node :
    /\ fails[n] > 0 => streak[n] <= -fails[n]
    /\ oks[n] > 0 => streak[n] >= oks[n]

(* A state about to be written was earned by the probes.                   *)
Earned ==
  verdict # None =>
    /\ verdict.to = "UNHEALTHY" => streak[verdict.node] <= -FailureThreshold
    /\ verdict.to = "HEALTHY" => streak[verdict.node] >= SuccessThreshold

Inv == TypeOK /\ Lists /\ OneNodePerAddress /\ Counted /\ Earned

-----------------------------------------------------------------------------
(* Saturating counters stay within their bound.                            *)
LEMMA UpType == \A c \in 0 .. MaxCount : Up(c) \in 0 .. MaxCount /\ (Up(c) >= c) /\ Up(c) <= c + 1
BY LifecycleAssumption DEF Up

(* A run of probes grows by one or starts again at one.                    *)
LEMMA StreakType ==
  ASSUME NEW k \in (-MaxCount) .. MaxCount, NEW ok \in BOOLEAN
  PROVE  Streak(k, ok) \in (-MaxCount) .. MaxCount
BY LifecycleAssumption DEF Streak, Up

(* The program starts with the two lists equal and nothing counted.        *)
LEMMA InitInv == Init => Inv
<1>. SUFFICES ASSUME Init PROVE Inv
  OBVIOUS
<1>. USE LifecycleAssumption
<1>1. TypeOK
  BY DEF Init, TypeOK, Health
<1>2. Lists /\ OneNodePerAddress
  BY DEF Init, Lists, OneNodePerAddress
<1>3. Counted /\ Earned
  BY DEF Init, Counted, Earned
<1>. QED
  BY <1>1, <1>2, <1>3 DEF Inv

-----------------------------------------------------------------------------
(* The reactor's steps leave the health checker's counters alone, except   *)
(* for a node that joins or leaves.                                        *)
LEMMA ReactorKeeps == Inv /\ ReactorNext => Inv'
<1>. SUFFICES ASSUME Inv, ReactorNext PROVE Inv'
  OBVIOUS
<1>. USE LifecycleAssumption DEF Inv
<1>1. CASE Tick
  BY <1>1 DEF Tick, TypeOK, Lists, OneNodePerAddress, Counted, Earned, checker
<1>2. CASE Cleanup
  BY <1>2 DEF Cleanup, TypeOK, Lists, OneNodePerAddress, Counted, Earned, checker
<1>3. CASE Unwatch
  <2>1. TypeOK'
    BY <1>3 DEF Unwatch, TypeOK
  <2>2. Lists' /\ OneNodePerAddress' /\ Counted' /\ Earned'
    BY <1>3 DEF Unwatch, TypeOK, Lists, OneNodePerAddress, Counted, Earned
  <2>. QED
    BY <2>1, <2>2
<1>4. ASSUME NEW C \in Configs, Reload(C) PROVE Inv'
  BY <1>4 DEF Reload, TypeOK, Health, Lists, OneNodePerAddress, Counted, Earned, checker
<1>5. ASSUME NEW a \in Addr, KeepBackend(a) PROVE Inv'
  <2>1. PICK n \in NodesAt(a) :
          health' = [health EXCEPT ![n] = IF health[n] = "DRAINING" THEN "HEALTHY" ELSE health[n]]
    BY <1>5 DEF KeepBackend
  <2>2. /\ NextAddress(a) /\ phase = "apply"
        /\ UNCHANGED <<wanted, pool, load, leaving, checker, watched, stop>>
    BY <1>5 DEF KeepBackend
  <2>3. TypeOK'
    BY <2>1, <2>2 DEF NodesAt, NextAddress, TypeOK, Health, checker
  <2>4. Lists' /\ OneNodePerAddress' /\ Counted' /\ Earned'
    BY <2>2 DEF NextAddress, Lists, OneNodePerAddress, Counted, Earned, checker
  <2>. QED
    BY <2>3, <2>4
<1>6. ASSUME NEW a \in Addr, AddBackend(a) PROVE Inv'
  <2>1. PICK n \in Node \ (pool \cup watched \cup todo) :
          /\ AddrOf[n] = a
          /\ pool' = pool \cup {n}
          /\ health' = [health EXCEPT ![n] = "HEALTHY"]
          /\ load' = [load EXCEPT ![n] = 0]
          /\ watched' = watched \cup {n}
          /\ fails' = [fails EXCEPT ![n] = 0] /\ oks' = [oks EXCEPT ![n] = 0]
          /\ streak' = [streak EXCEPT ![n] = 0]
    BY <1>6 DEF AddBackend
  <2>2. /\ phase = "apply" /\ a \in work /\ NodesAt(a) = {} /\ verdict = None
        /\ NextAddress(a) /\ UNCHANGED <<wanted, leaving, todo, verdict, stop>>
    BY <1>6 DEF AddBackend
  <2>3. TypeOK'
    BY <2>1, <2>2 DEF TypeOK, Health, NextAddress
  <2>4. Lists' /\ Earned'
    BY <2>1, <2>2 DEF Lists, Earned, NextAddress, TypeOK
  <2>5. OneNodePerAddress'
    BY <2>1, <2>2 DEF OneNodePerAddress, NodesAt
  <2>6. Counted'
    BY <2>1 DEF Counted, TypeOK
  <2>. QED
    BY <2>3, <2>4, <2>5, <2>6
<1>7. ASSUME NEW n \in Node, Route(n) \/ Finish(n) PROVE Inv'
  BY <1>7 DEF Route, Finish, TypeOK, Lists, OneNodePerAddress, Counted, Earned, checker
<1>. QED
  BY <1>1, <1>2, <1>3, <1>4, <1>5, <1>6, <1>7 DEF ReactorNext

(* A probe moves the counters and the run together.                        *)
LEMMA ProbeKeeps ==
  ASSUME Inv, NEW n \in Node, NEW ok \in BOOLEAN, Probe(n, ok) PROVE Inv'
<1>. USE LifecycleAssumption DEF Inv
<1>. DEFINE good == IF ok THEN Up(oks[n]) ELSE 0
            bad == IF ok THEN 0 ELSE Up(fails[n])
            up == ok /\ health[n] = "UNHEALTHY" /\ good >= SuccessThreshold
            down == ~ok /\ health[n] = "HEALTHY" /\ bad >= FailureThreshold
<1>1. /\ todo' = todo \ {n}
      /\ oks' = [oks EXCEPT ![n] = IF up THEN 0 ELSE good]
      /\ fails' = [fails EXCEPT ![n] = IF down THEN 0 ELSE bad]
      /\ verdict' = IF up THEN [node |-> n, to |-> "HEALTHY"]
                    ELSE IF down THEN [node |-> n, to |-> "UNHEALTHY"] ELSE None
      /\ streak' = [streak EXCEPT ![n] = Streak(streak[n], ok)]
      /\ UNCHANGED <<reactor, watched, health, stop>>
  BY DEF Probe
<1>2. /\ oks[n] \in 0 .. MaxCount /\ fails[n] \in 0 .. MaxCount
      /\ streak[n] \in (-MaxCount) .. MaxCount
  BY DEF TypeOK
<1>3. /\ good \in 0 .. MaxCount /\ bad \in 0 .. MaxCount
      /\ Streak(streak[n], ok) \in (-MaxCount) .. MaxCount
  BY <1>2, UpType, StreakType
<1>4. /\ good > 0 => Streak(streak[n], ok) >= good
      /\ bad > 0 => Streak(streak[n], ok) <= -bad
  <2>1. CASE ok
    BY <1>2, <2>1 DEF Counted, Streak, Up
  <2>2. CASE ~ok
    BY <1>2, <2>2 DEF Counted, Streak, Up
  <2>. QED
    BY <2>1, <2>2
<1>. HIDE DEF good, bad
<1>5. TypeOK'
  <2>1. /\ oks' \in [Node -> 0 .. MaxCount] /\ fails' \in [Node -> 0 .. MaxCount]
        /\ streak' \in [Node -> (-MaxCount) .. MaxCount]
    BY <1>1, <1>3 DEF TypeOK
  <2>2. verdict' \in [node : Node, to : {"HEALTHY", "UNHEALTHY"}] \cup {None}
    BY <1>1
  <2>. QED
    BY <1>1, <2>1, <2>2 DEF TypeOK, reactor
<1>6. Lists' /\ OneNodePerAddress'
  BY <1>1 DEF Lists, OneNodePerAddress, reactor
<1>7. Counted'
  BY <1>1, <1>3, <1>4 DEF Counted, TypeOK
<1>8. Earned'
  BY <1>1, <1>3, <1>4 DEF Earned, TypeOK
<1>. QED
  BY <1>5, <1>6, <1>7, <1>8

(* Every step of the three threads keeps the invariant.                    *)
LEMMA StepInv == Inv /\ [Next]_vars => Inv'
<1>. SUFFICES ASSUME Inv, [Next]_vars PROVE Inv'
  OBVIOUS
<1>. USE LifecycleAssumption
<1>1. CASE ReactorNext
  BY <1>1, ReactorKeeps
<1>2. CASE CopyBackends
  BY <1>2 DEF CopyBackends, Inv, TypeOK, Lists, OneNodePerAddress, Counted, Earned, reactor
<1>3. CASE WriteVerdict
  BY <1>3 DEF WriteVerdict, Inv, TypeOK, Health, Lists, OneNodePerAddress, Counted, Earned, reactor
<1>4. ASSUME NEW n \in Node, NEW ok \in BOOLEAN, Probe(n, ok) PROVE Inv'
  BY <1>4, ProbeKeeps
<1>5. CASE MarkAll \/ SetDraining
  BY <1>5 DEF MarkAll, SetDraining, Inv, TypeOK, Health, Lists, OneNodePerAddress, Counted, Earned,
      reactor, checker
<1>6. CASE ShutDown
  BY <1>6 DEF ShutDown, Inv, TypeOK, Lists, OneNodePerAddress, Counted, Earned
<1>7. CASE UNCHANGED vars
  BY <1>7 DEF vars, Inv, TypeOK, Lists, OneNodePerAddress, Counted, Earned, reactor, checker
<1>. QED
  BY <1>1, <1>2, <1>3, <1>4, <1>5, <1>6, <1>7 DEF Next, CheckerNext

(* The invariant holds in every state.                                     *)
LEMMA InvHolds == Spec => []Inv
BY InitInv, StepInv, PTL DEF Spec

-----------------------------------------------------------------------------
(* For any backends and configurations, whenever the reactor is back in    *)
(* its loop the health checker probes exactly the backends of the pool.    *)
THEOREM ListsInStep == Spec => []ListsAgree
<1>1. Inv => ListsAgree
  BY DEF Inv, Lists, ListsAgree
<1>. QED
  BY <1>1, InvHolds, PTL

(* However often a backend is removed and added again, even while probes   *)
(* of the removed node are under way, an address has one node.             *)
THEOREM AddressesUnique == Spec => []OneNodePerAddress
<1>1. Inv => OneNodePerAddress
  BY DEF Inv
<1>. QED
  BY <1>1, InvHolds, PTL

(* For any thresholds, no backend in the pool changes state before the     *)
(* threshold's number of probes in a row.                                  *)
THEOREM ThresholdsHold == Spec => ThresholdsRespected
<1>. DEFINE Step == \A n \in pool \cap pool' :
       /\ health[n] = "HEALTHY" /\ health'[n] = "UNHEALTHY"
            => streak[n] <= -FailureThreshold
       /\ health[n] = "UNHEALTHY" /\ health'[n] = "HEALTHY"
            => streak[n] >= SuccessThreshold
<1>1. Inv /\ [Next]_vars => [Step]_vars
  <2>. SUFFICES ASSUME Inv, [Next]_vars PROVE Step \/ UNCHANGED vars
    OBVIOUS
  <2>1. ASSUME NEW n \in pool \cap pool', health'[n] # health[n], health'[n] # "DRAINING",
               health[n] # "DRAINING"
        PROVE  verdict # None /\ verdict.node = n /\ verdict.to = health'[n]
    <3>. USE <2>1 DEF Inv, TypeOK
    <3>1. CASE \E C \in Configs : Reload(C)
      BY <3>1 DEF Reload
    <3>2. CASE \E a \in Addr : KeepBackend(a)
      BY <3>2 DEF KeepBackend
    <3>3. CASE \E a \in Addr : AddBackend(a)
      BY <3>3 DEF AddBackend
    <3>4. CASE MarkAll
      BY <3>4 DEF MarkAll
    <3>5. CASE WriteVerdict
      BY <3>5 DEF WriteVerdict
    <3>6. CASE UNCHANGED health
      BY <3>6
    <3>. QED
      BY <3>1, <3>2, <3>3, <3>4, <3>5, <3>6
      DEF Next, ReactorNext, CheckerNext, Tick, Cleanup, Unwatch, Route, Finish, CopyBackends, Probe,
          SetDraining, ShutDown, vars
  <2>2. ASSUME NEW n \in pool \cap pool' PROVE
          /\ health[n] = "HEALTHY" /\ health'[n] = "UNHEALTHY" => streak[n] <= -FailureThreshold
          /\ health[n] = "UNHEALTHY" /\ health'[n] = "HEALTHY" => streak[n] >= SuccessThreshold
    BY <2>1, <2>2 DEF Inv, Earned
  <2>. QED
    BY <2>2
<1>. QED
  BY <1>1, InvHolds, PTL DEF Spec, ThresholdsRespected

(* For any backends and configurations: a backend that was marked DRAINING *)
(* leaves that state only for a configuration that lists it, or by a       *)
(* verdict reached before it was marked.                                   *)
THEOREM DrainingHolds == Spec => DrainingKept
<1>. DEFINE Step ==
       /\ \A n \in pool :
            health[n] = "DRAINING" /\ health'[n] # "DRAINING"
              => \/ phase = "apply" /\ AddrOf[n] \in wanted
                 \/ verdict # None /\ verdict.node = n
       /\ verdict = None /\ verdict' # None => health[verdict'.node] # "DRAINING"
<1>1. Inv /\ [Next]_vars => [Step]_vars
  <2>. SUFFICES ASSUME Inv, [Next]_vars PROVE Step \/ UNCHANGED vars
    OBVIOUS
  <2>1. ASSUME NEW n \in pool, health[n] = "DRAINING", health'[n] # "DRAINING"
        PROVE  \/ phase = "apply" /\ AddrOf[n] \in wanted
               \/ verdict # None /\ verdict.node = n
    <3>. USE <2>1 DEF Inv, TypeOK
    <3>1. CASE \E C \in Configs : Reload(C)
      BY <3>1 DEF Reload
    <3>2. CASE \E a \in Addr : KeepBackend(a)
      BY <3>2 DEF KeepBackend, NodesAt, Lists
    <3>3. CASE \E a \in Addr : AddBackend(a)
      BY <3>3 DEF AddBackend
    <3>4. CASE MarkAll
      BY <3>4 DEF MarkAll
    <3>5. CASE WriteVerdict
      BY <3>5 DEF WriteVerdict
    <3>6. CASE UNCHANGED health
      BY <3>6
    <3>. QED
      BY <3>1, <3>2, <3>3, <3>4, <3>5, <3>6
      DEF Next, ReactorNext, CheckerNext, Tick, Cleanup, Unwatch, Route, Finish, CopyBackends, Probe,
          SetDraining, ShutDown, vars
  <2>2. ASSUME verdict = None, verdict' # None PROVE health[verdict'.node] # "DRAINING"
    <3>1. PICK n \in Node, ok \in BOOLEAN : Probe(n, ok)
      BY <2>2
      DEF Next, ReactorNext, CheckerNext, Tick, Cleanup, Unwatch, Route, Finish, CopyBackends,
          Reload, KeepBackend, AddBackend, WriteVerdict, MarkAll, SetDraining, ShutDown, vars, checker
    <3>2. verdict'.node = n /\ health[n] \in {"HEALTHY", "UNHEALTHY"}
      BY <2>2, <3>1 DEF Probe
    <3>. QED
      BY <3>2
  <2>. QED
    BY <2>1, <2>2
<1>. QED
  BY <1>1, InvHolds, PTL DEF Spec, DrainingKept
=============================================================================
