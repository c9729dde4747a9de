----------------------------- MODULE Background -----------------------------
(***************************************************************************)
(* The work LoadBalancer gives to its ThreadPool, and its end.             *)
(*   reactor  the periodic tick applies a pending configuration and posts  *)
(*            the next check of the file, unless one is in progress        *)
(*   worker   runs the check (ConfigManager), MetricsServer::run_loop, or  *)
(*            a short task: a log drain, a scrape whose client is served   *)
(*   main     starts the metrics server, stops it once run() has returned, *)
(*            and destroys the pool with the LoadBalancer                  *)
(* The tick is modelled up to these two things; what applying a            *)
(* configuration does to the backends is BackendLifecycle's.               *)
(*                                                                         *)
(* The configuration file is edited at any time.  Its modification time is *)
(* in whole seconds, so two edits may share one.                           *)
(***************************************************************************)
EXTENDS ThreadPool

CONSTANTS
  Config,   \* what the file may say
  MaxClock  \* bound on the seconds that pass

VARIABLES
  main,      \* start, run, closing, waiting or destroy
  running,   \* MetricsServer::running_
  active,    \* MetricsServer::pool_task_active_
  ticking,   \* is the reactor between the two things?
  checking,  \* config_check_in_progress_
  job,       \* where the check is: none, load, stamp, publish or clear
  loaded,    \* the configuration it has parsed
  known,     \* ConfigManager::last_modified_time_
  pending,   \* pending_config_
  applied,   \* last_applied_config_
  file,      \* external: what the file says; None: it is gone or not valid YAML
  stamp,     \* external: its modification time, 0 when it is gone
  clock      \* external: the second

server == <<main, running, active>>
reload == <<ticking, checking, job, loaded, known, pending, applied>>
disk == <<file, stamp, clock>>
vars == <<pool, server, reload, disk>>

ASSUME BackgroundAssumption ==
  Task = {"metrics", "config", "short"} /\ None \notin Config /\ MaxClock \in Nat \ {0}

-----------------------------------------------------------------------------
(* MetricsServer and main *)

\* start()
StartMetrics ==
  /\ main = "start" /\ main' = "run" /\ running' = TRUE /\ active' = TRUE
  /\ Post("metrics") /\ UNCHANGED <<reload, disk>>

(* run_loop sees that running_ is off.                                     *)
MetricsEnds(w) ==
  /\ task[w] = "metrics" /\ ~running /\ active' = FALSE
  /\ Run(w) /\ UNCHANGED <<main, running, reload, disk>>

(* LoadBalancer::run returns: a graceful shutdown has taken its time.      *)
RunReturns ==
  /\ main = "run" /\ ~ticking /\ main' = "closing" /\ clock' = MaxClock
  /\ UNCHANGED <<pool, running, active, reload, file, stamp>>

(* stop(): running_ is switched off ...                                    *)
StopMetrics ==
  /\ main = "closing" /\ main' = "waiting" /\ running' = FALSE
  /\ UNCHANGED <<pool, active, reload, disk>>

(* ... and it returns when run_loop has.                                   *)
MetricsStopped ==
  /\ main = "waiting" /\ ~active /\ main' = "destroy"
  /\ UNCHANGED <<pool, running, active, reload, disk>>

(* The members of LoadBalancer are destroyed: pending_config_, although a  *)
(* check still running may write it again, then the pool.                  *)
Destroy ==
  /\ main = "destroy" /\ pending' = None /\ Store
  /\ UNCHANGED <<server, ticking, checking, job, loaded, known, applied, disk>>

-----------------------------------------------------------------------------
(* Short tasks *)

PostShort ==
  /\ main # "start" /\ Len(tasks) + 1 < MaxQueue
  /\ Post("short") /\ UNCHANGED <<server, reload, disk>>

ShortEnds(w) == task[w] = "short" /\ Run(w) /\ UNCHANGED <<server, reload, disk>>

-----------------------------------------------------------------------------
(* The tick *)

ApplyPending ==
  /\ main = "run" /\ ~ticking /\ ticking' = TRUE
  /\ applied' = IF pending = None THEN applied ELSE pending
  /\ pending' = None
  /\ UNCHANGED <<pool, server, checking, job, loaded, known, disk>>

\* Mutant: the flag is set but not tested.
PostCheckAgain ==
  /\ ticking /\ ticking' = FALSE /\ Post("config") /\ checking' = TRUE
  /\ UNCHANGED <<server, job, loaded, known, pending, applied, disk>>

PostCheck ==
  /\ ticking /\ ticking' = FALSE
  /\ IF checking THEN UNCHANGED <<pool, checking>> ELSE Post("config") /\ checking' = TRUE
  /\ UNCHANGED <<server, job, loaded, known, pending, applied, disk>>

-----------------------------------------------------------------------------
(* The check: check_and_reload and load_from_file *)

Checks(w) == pc[w] = "run" /\ task[w] = "config"

(* Only a file that is newer than the one last loaded is read.             *)
Compare(w) ==
  /\ Checks(w) /\ job = "none"
  /\ job' = IF stamp > known THEN "load" ELSE "clear"
  /\ UNCHANGED <<pool, server, ticking, checking, loaded, known, pending, applied, disk>>

\* Mutant: a file that does not parse ends the check with the flag still set.
LoadThrows(w) ==
  /\ Checks(w) /\ job = "load"
  /\ IF file # None THEN loaded' = file /\ job' = "stamp" /\ UNCHANGED pool
     ELSE job' = "none" /\ UNCHANGED loaded /\ Run(w)
  /\ UNCHANGED <<server, ticking, checking, known, pending, applied, disk>>

(* A file that is gone or does not parse changes nothing.                  *)
Load(w) ==
  /\ Checks(w) /\ job = "load"
  /\ IF file # None THEN loaded' = file /\ job' = "stamp"
     ELSE job' = "clear" /\ UNCHANGED loaded
  /\ UNCHANGED <<pool, server, ticking, checking, known, pending, applied, disk>>

(* The time recorded is the one the file has by now.                       *)
Stamp(w) ==
  /\ Checks(w) /\ job = "stamp" /\ known' = stamp /\ job' = "publish"
  /\ UNCHANGED <<pool, server, ticking, checking, loaded, pending, applied, disk>>

Publish(w) ==
  /\ Checks(w) /\ job = "publish" /\ pending' = loaded /\ loaded' = None /\ job' = "clear"
  /\ UNCHANGED <<pool, server, ticking, checking, known, applied, disk>>

ClearFlag(w) ==
  /\ Checks(w) /\ job = "clear" /\ checking' = FALSE /\ job' = "none"
  /\ Run(w) /\ UNCHANGED <<server, ticking, loaded, known, pending, applied, disk>>

CheckStep(w) == Compare(w) \/ Load(w) \/ Stamp(w) \/ Publish(w) \/ ClearFlag(w)

-----------------------------------------------------------------------------
(* External: the file and the clock *)

Edit(C) == file' = C /\ stamp' = clock /\ UNCHANGED <<pool, server, reload, clock>>

Delete == file' = None /\ stamp' = 0 /\ UNCHANGED <<pool, server, reload, clock>>

Second == clock < MaxClock /\ clock' = clock + 1 /\ UNCHANGED <<pool, server, reload, file, stamp>>

(* Once run() has returned, the file no longer matters.                    *)
Disk == main = "run" /\ (Delete \/ Second \/ \E C \in Config \cup {None} : Edit(C))

-----------------------------------------------------------------------------
Shared(w) == Top(w) \/ Lock(w) \/ Sleep(w) \/ Pop(w) \/ WakeSpuriously(w)
PoolOnly ==
  /\ Notify \/ NotifyAll \/ Join \/ \E w \in Worker : Shared(w)
  /\ UNCHANGED <<server, reload, disk>>

(* main has loaded the file and started the watcher.                       *)
Init ==
  /\ PoolInit /\ main = "start" /\ running = FALSE /\ active = FALSE
  /\ ticking = FALSE /\ checking = FALSE /\ job = "none" /\ loaded = None /\ pending = None
  /\ file \in Config /\ applied = file
  /\ clock = 1 /\ stamp = 1 /\ known = 1

Next ==
  \/ StartMetrics \/ RunReturns \/ StopMetrics \/ MetricsStopped \/ Destroy
  \/ ApplyPending \/ PostCheck \/ PostShort \/ PoolOnly \/ Disk
  \/ \E w \in Worker : MetricsEnds(w) \/ ShortEnds(w) \/ CheckStep(w)

Spec == Init /\ [][Next]_vars

(* Every thread that can run does; who wants the mutex gets it in the end, *)
(* and short tasks end.  Nobody relies on a spurious wake-up, and nothing  *)
(* need be posted but the checks, edited or shut down.                     *)
FairSpec ==
  /\ Spec
  /\ WF_vars(\/ ApplyPending \/ StopMetrics \/ MetricsStopped \/ Destroy
             \/ PoolOnly /\ (NotifyAll \/ Join))
  /\ SF_vars(StartMetrics \/ PostCheck)
  /\ WF_vars(PoolOnly /\ Notify)
  /\ \A w \in Worker :
       /\ SF_vars(PoolOnly /\ Lock(w))
       /\ WF_vars(\/ PoolOnly /\ (Top(w) \/ Sleep(w) \/ Pop(w))
                  \/ MetricsEnds(w) \/ ShortEnds(w) \/ CheckStep(w))

-----------------------------------------------------------------------------
(* Properties *)

(* ConfigManager is used without a lock, and may be: at most one check is  *)
(* queued or running, since the flag is set before a check is posted, is   *)
(* only tested by the thread that sets it, and is cleared last.            *)
Queued == {i \in DOMAIN tasks : tasks[i] = "config"}
Checking == {w \in Worker : task[w] = "config"}
OneCheck ==
  /\ \A i, j \in Queued : i = j
  /\ \A v, w \in Checking : v = w
  /\ Queued = {} \/ Checking = {}
  /\ Queued # {} \/ Checking # {} => checking

(* An edit is applied in the end: a file that parses and is newer than the *)
(* one last loaded, unless it is changed again or the program ends.  So the*)
(* flag that keeps the next check from being posted is always cleared,     *)
(* although one worker belongs to the metrics server; with a single worker *)
(* no check would ever run.  The edit may not have been made between the   *)
(* reading of the file and the recording of its time: an edit there, or in *)
(* the second already recorded, is never noticed.                          *)
EditApplied ==
  \A C \in Config :
    /\ file = C /\ stamp > known /\ job # "stamp"
    ~> applied = C \/ file # C \/ main # "run"

(* The program ends: MetricsServer::stop() returns, even when the accept   *)
(* loop is stopped before a worker has taken it, and the destructor "sets  *)
(* stopping_, wakes all workers, and joins them" (architecture.md:335),    *)
(* running what is queued and finishing a check.  The exception: the       *)
(* destructor does not take mutex_, so a worker that has already looked at *)
(* stopping_ and is about to sleep misses notify_all, and is waited for    *)
(* without end.                                                            *)
TeardownEnds ==
  main = "closing" ~> dtor = "joined" \/ (dtor = "stored" /\ \E w \in Worker : pc[w] = "block")
=============================================================================
