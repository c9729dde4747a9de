-------------------------- MODULE BackgroundProofs --------------------------
(***************************************************************************)
(* The reactor, main and the tasks use the pool as ThreadPool describes it,*)
(* so what is proved of the pool holds here; and the configuration is never*)
(* checked by two workers at once, whatever their number.                  *)
(***************************************************************************)
EXTENDS Background, ThreadPoolProofs

(* Every step is a step of the pool, or leaves it alone.                   *)
LEMMA StepPool == [Next]_vars => [PoolNext]_pool
<1>. SUFFICES ASSUME [Next]_vars PROVE [PoolNext]_pool
  OBVIOUS
<1>. USE BackgroundAssumption DEF PoolNext, WorkerStep
<1>1. CASE StartMetrics
  BY <1>1 DEF StartMetrics
<1>2. CASE RunReturns \/ StopMetrics \/ MetricsStopped \/ ApplyPending \/ Disk
  BY <1>2 DEF RunReturns, StopMetrics, MetricsStopped, ApplyPending, Disk, Edit, Delete, Second
<1>3. CASE Destroy
  BY <1>3 DEF Destroy
<1>4. CASE PostCheck
  BY <1>4 DEF PostCheck
<1>5. CASE PostShort
  BY <1>5 DEF PostShort
<1>6. CASE PoolOnly
  BY <1>6 DEF PoolOnly, Shared
<1>7. ASSUME NEW w \in Worker, MetricsEnds(w) \/ ShortEnds(w) \/ CheckStep(w)
      PROVE  [PoolNext]_pool
  BY <1>7 DEF MetricsEnds, ShortEnds, CheckStep, Compare, Load, Stamp, Publish, ClearFlag
<1>8. CASE UNCHANGED vars
  BY <1>8 DEF vars
<1>. QED
  BY <1>1, <1>2, <1>3, <1>4, <1>5, <1>6, <1>7, <1>8 DEF Next

(* The composition implements the pool: LoadBalancer and MetricsServer     *)
(* never touch it but through post() and its destructor.                   *)
THEOREM ImplementsPool == Spec => PoolSpec
<1>1. Init => PoolInit
  BY DEF Init
<1>. QED
  BY <1>1, StepPool, PTL DEF Spec, PoolSpec

(* For any number of workers, no posted check, scrape or log drain is left *)
(* in the queue with every worker asleep.                                  *)
THEOREM NoTaskForgotten == Spec => []NoSleepOnWork
BY ImplementsPool, NoLostWakeup, PTL

-----------------------------------------------------------------------------
(* One check at a time *)

(* The invariant, with the pool's for what is queued.                      *)
CheckInv == PoolTypeOK /\ OneCheck

(* Nothing of the check is touched: the flag, the queue and the workers'   *)
(* tasks stay.                                                             *)
LEMMA Untouched ==
  ASSUME CheckInv, UNCHANGED <<tasks, task, checking>> PROVE OneCheck'
BY DEF CheckInv, OneCheck, Queued, Checking

(* A worker that finishes a task leaves the others to theirs.              *)
LEMMA RunKeeps ==
  ASSUME CheckInv, NEW w \in Worker, Run(w), task[w] # "config", checking' = checking
  PROVE  OneCheck'
<1>1. tasks' = tasks /\ \A v \in Worker : task'[v] = "config" => task[v] = "config"
  BY PoolAssumption, BackgroundAssumption DEF CheckInv, PoolTypeOK, Run
<1>2. Queued' = Queued /\ Checking' \subseteq Checking
  BY <1>1 DEF Queued, Checking
<1>3. task'[w] = None /\ \A v \in Worker : v # w => task'[v] = task[v]
  BY DEF CheckInv, PoolTypeOK, Run
<1>4. Checking' = Checking
  BY <1>1, <1>3 DEF Checking
<1>. QED
  BY <1>2, <1>4 DEF CheckInv, OneCheck

(* A task other than a check is queued behind the others.                  *)
LEMMA PostKeeps ==
  ASSUME CheckInv, NEW t \in Task \ {"config"}, Post(t), checking' = checking
  PROVE  OneCheck'
<1>1. /\ DOMAIN tasks' = DOMAIN tasks \cup {Len(tasks) + 1}
      /\ \A i \in DOMAIN tasks : tasks'[i] = tasks[i]
      /\ tasks'[Len(tasks) + 1] = t
  BY DEF CheckInv, PoolTypeOK, Post
<1>2. Queued' = Queued
  BY <1>1 DEF Queued
<1>3. Checking' = Checking
  BY DEF Checking, Post
<1>. QED
  BY <1>2, <1>3 DEF CheckInv, OneCheck

(* The queue gives its first task to a worker.                             *)
LEMMA PopKeeps ==
  ASSUME CheckInv, IInv, NEW w \in Worker, Pop(w), checking' = checking
  PROVE  OneCheck'
<1>1. CASE stopping /\ tasks = <<>>
  BY <1>1, Untouched DEF Pop
<1>2. CASE tasks # <<>>
  <2>1. /\ tasks' = Tail(tasks) /\ task' = [task EXCEPT ![w] = Head(tasks)]
        /\ tasks \in Seq(Task) /\ task \in [Worker -> Task \cup {None}]
    BY <1>2 DEF CheckInv, PoolTypeOK, Pop
  <2>2. /\ Head(tasks) = tasks[1] /\ 1 \in DOMAIN tasks
        /\ \A i \in DOMAIN tasks' : i + 1 \in DOMAIN tasks /\ i + 1 # 1 /\ i \in Nat /\ tasks'[i] = tasks[i + 1]
    BY <1>2, <2>1
  <2>3. \A i \in Queued' : i + 1 \in Queued /\ i + 1 # 1 /\ i \in Nat
    BY <2>2 DEF Queued
  <2>4. \A v \in Checking' : v \in Checking \/ (v = w /\ 1 \in Queued)
    BY <2>1, <2>2 DEF Queued, Checking
  <2>5. \A i, j \in Queued' : i = j
    BY <2>3 DEF CheckInv, OneCheck
  <2>6. CASE 1 \in Queued
    <3>1. Checking = {} /\ Queued' = {} /\ checking
      BY <2>3, <2>6 DEF CheckInv, OneCheck
    <3>. QED
      BY <2>4, <2>5, <3>1 DEF OneCheck
  <2>7. CASE 1 \notin Queued
    <3>1. Checking' \subseteq Checking
      BY <2>4, <2>7
    <3>2. Queued = {} => Queued' = {}
      BY <2>3
    <3>. QED
      BY <2>5, <3>1, <3>2 DEF CheckInv, OneCheck
  <2>. QED
    BY <2>6, <2>7
<1>. QED
  BY <1>1, <1>2 DEF IInv, MutexHeld, Pop

(* Every step of the reactor, of main and of a worker keeps the invariant. *)
LEMMA StepOneCheck == CheckInv /\ IInv /\ [Next]_vars => OneCheck'
<1>. SUFFICES ASSUME CheckInv, IInv, [Next]_vars PROVE OneCheck'
  OBVIOUS
<1>1. CASE StartMetrics \/ PostShort
  BY <1>1, PostKeeps, BackgroundAssumption DEF StartMetrics, PostShort, reload
<1>2. CASE RunReturns \/ StopMetrics \/ MetricsStopped \/ ApplyPending \/ Disk \/ Destroy
  BY <1>2, Untouched
  DEF RunReturns, StopMetrics, MetricsStopped, ApplyPending, Disk, Edit, Delete, Second, Destroy,
      Store, pool, reload
<1>3. CASE PostCheck
  <2>1. CASE checking
    BY <1>3, <2>1, Untouched DEF PostCheck, pool
  <2>2. CASE ~checking
    <3>1. /\ tasks' = Append(tasks, "config") /\ checking' /\ task' = task
          /\ tasks \in Seq(Task) /\ "config" \in Task
      BY <1>3, <2>2, BackgroundAssumption DEF PostCheck, Post, CheckInv, PoolTypeOK
    <3>2. Queued = {} /\ Checking = {}
      BY <2>2 DEF CheckInv, OneCheck
    <3>3. /\ DOMAIN tasks' = DOMAIN tasks \cup {Len(tasks) + 1}
          /\ \A i \in DOMAIN tasks : tasks'[i] = tasks[i]
      BY <3>1
    <3>4. Queued' \subseteq {Len(tasks) + 1} /\ Checking' = {}
      BY <3>1, <3>2, <3>3 DEF Queued, Checking
    <3>. QED
      BY <3>1, <3>4 DEF OneCheck
  <2>. QED
    BY <2>1, <2>2
<1>4. CASE PoolOnly
  <2>1. CASE Notify \/ NotifyAll \/ Join
    BY <1>4, <2>1, Untouched DEF PoolOnly, Notify, NotifyAll, Join, reload
  <2>2. ASSUME NEW w \in Worker, Top(w) \/ Lock(w) \/ Sleep(w) \/ WakeSpuriously(w) PROVE OneCheck'
    BY <1>4, <2>2, Untouched DEF PoolOnly, Top, Lock, Sleep, WakeSpuriously, reload
  <2>3. ASSUME NEW w \in Worker, Pop(w) PROVE OneCheck'
    BY <1>4, <2>3, PopKeeps DEF PoolOnly, reload
  <2>. QED
    BY <1>4, <2>1, <2>2, <2>3 DEF PoolOnly, Shared
<1>5. ASSUME NEW w \in Worker, MetricsEnds(w) \/ ShortEnds(w) PROVE OneCheck'
  BY <1>5, RunKeeps DEF MetricsEnds, ShortEnds, reload
<1>6. ASSUME NEW w \in Worker, Compare(w) \/ Load(w) \/ Stamp(w) \/ Publish(w) PROVE OneCheck'
  BY <1>6, Untouched DEF Compare, Load, Stamp, Publish, pool
<1>7. ASSUME NEW w \in Worker, ClearFlag(w) PROVE OneCheck'
  <2>1. /\ task[w] = "config" /\ tasks' = tasks /\ task' = [task EXCEPT ![w] = None]
        /\ task \in [Worker -> Task \cup {None}] /\ None # "config"
    BY <1>7, PoolAssumption, BackgroundAssumption DEF ClearFlag, Checks, Run, CheckInv, PoolTypeOK
  <2>2. Queued = {} /\ Checking = {w}
    BY <2>1 DEF CheckInv, OneCheck, Checking
  <2>3. Queued' = {} /\ Checking' = {}
    BY <2>1, <2>2 DEF Queued, Checking
  <2>. QED
    BY <2>3 DEF OneCheck
<1>8. CASE UNCHANGED vars
  BY <1>8, Untouched DEF vars, pool, reload
<1>. QED
  BY <1>1, <1>2, <1>3, <1>4, <1>5, <1>6, <1>7, <1>8 DEF Next, CheckStep

(* For any number of workers, ConfigManager::check_and_reload never runs   *)
(* twice at a time, and the flag says so.                                  *)
THEOREM ChecksExcluded == Spec => []OneCheck
<1>1. Init => IInv /\ CheckInv
  <2>1. Init => IInv
    BY InitIInv DEF Init
  <2>2. Init => Queued = {} /\ Checking = {}
    BY PoolAssumption, BackgroundAssumption DEF Init, PoolInit, Queued, Checking
  <2>. QED
    BY <2>1, <2>2 DEF IInv, CheckInv, OneCheck
<1>2. IInv /\ CheckInv /\ [Next]_vars => (IInv /\ CheckInv)'
  BY StepPool, StepIInv, StepOneCheck DEF IInv, CheckInv
<1>3. CheckInv => OneCheck
  BY DEF CheckInv
<1>. QED
  BY <1>1, <1>2, <1>3, PTL DEF Spec
=============================================================================
