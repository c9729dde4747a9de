---------------------------- MODULE AsyncLogger ----------------------------
(***************************************************************************)
(* Logger: log() puts a line in a bounded queue that either the logger's   *)
(* own thread or a task posted to the ThreadPool writes out.  The main     *)
(* thread starts the logger, may hand it a pool, and stops it, while other *)
(* threads log.  Each step is one access of an atomic, or one critical     *)
(* section of queue_mutex_.  The pool is seen as drain tasks that wait     *)
(* (posted) until one of its workers takes them (ThreadPool is about how). *)
(***************************************************************************)
EXTENDS Naturals, Sequences, FiniteSets

CONSTANTS
  Producer,  \* threads that call log()
  Worker,    \* pool workers that may run a drain task
  Main,      \* the main thread, which drains the rest in stop()
  MaxQueue,  \* MAX_QUEUE_SIZE
  MaxLines   \* bound on the lines logged

VARIABLES
  queue,     \* log_queue_
  lines,     \* lines accepted so far
  running,   \* running_
  pool,      \* thread_pool_ is set
  pending,   \* drain_pending_
  posted,    \* drain tasks in the pool's queue
  at,        \* where each producer is in log()
  drain,     \* where each drainer is in drain_queue()
  own,       \* where the own thread is in worker_loop()
  main,      \* where the main thread is
  since,     \* history: lines accepted before the pool was set
  early      \* history: lines accepted before stop() was called

vars == <<queue, lines, running, pool, pending, posted, at, drain, own, main,
          since, early>>

Drainer == Worker \cup {Main}

ASSUME LoggerAssumption ==
  /\ Main \notin Worker
  /\ MaxQueue \in Nat \ {0} /\ MaxLines \in Nat

(* Nobody holds queue_mutex_ across steps.                                 *)
QueueFree == own \notin {"block", "check"}

-----------------------------------------------------------------------------
(* log() *)

Log(p) ==
  /\ at[p] = "idle" /\ running
  /\ lines + Cardinality({q \in Producer : at[q] = "push"}) < MaxLines
  /\ at' = [at EXCEPT ![p] = "push"]
  /\ UNCHANGED <<queue, lines, running, pool, pending, posted, drain, own,
                 main, since, early>>

Push(p) ==
  /\ at[p] = "push" /\ QueueFree
  /\ IF Len(queue) >= MaxQueue
       THEN at' = [at EXCEPT ![p] = "idle"] /\ UNCHANGED <<queue, lines, early>>
       ELSE /\ at' = [at EXCEPT ![p] = "kick"]
            /\ lines' = lines + 1 /\ queue' = Append(queue, lines + 1)
            /\ early' = IF running THEN lines + 1 ELSE early
  /\ UNCHANGED <<running, pool, pending, posted, drain, own, main, since>>

(* thread_pool_ is read: the drain goes to the pool, or the own thread is  *)
(* notified.                                                               *)
Kick(p) ==
  /\ at[p] = "kick"
  /\ at' = [at EXCEPT ![p] = IF pool THEN "post" ELSE "idle"]
  /\ own' = IF ~pool /\ own = "wait" THEN "want" ELSE own
  /\ UNCHANGED <<queue, lines, running, pool, pending, posted, drain, main,
                 since, early>>

\* Mutant: a drain is posted only by the producer that finds the queue
\* with its own line alone.
PostDrainIfFirst(p) ==
  /\ at[p] = "post" /\ at' = [at EXCEPT ![p] = "idle"]
  /\ posted' = IF ~pending /\ Len(queue) = 1 THEN posted + 1 ELSE posted
  /\ pending' = (pending \/ Len(queue) = 1)
  /\ UNCHANGED <<queue, lines, running, pool, drain, own, main, since,
                 early>>

\* Mutant: drain_pending_ is not looked at.
PostDrainAlways(p) ==
  /\ at[p] = "post" /\ at' = [at EXCEPT ![p] = "idle"]
  /\ posted' = posted + 1 /\ pending' = TRUE
  /\ UNCHANGED <<queue, lines, running, pool, drain, own, main, since, early>>

\* Mutant: once stop() has begun nothing is posted, but the flag goes up.
PostDrainRefused(p) ==
  /\ at[p] = "post" /\ at' = [at EXCEPT ![p] = "idle"]
  /\ posted' = IF pending \/ ~running THEN posted ELSE posted + 1
  /\ pending' = TRUE
  /\ UNCHANGED <<queue, lines, running, pool, drain, own, main, since, early>>

(* The exchange of drain_pending_, and the post by whoever wins it: until  *)
(* its drain starts, that flag keeps everyone else out.                    *)
PostDrain(p) ==
  /\ at[p] = "post" /\ at' = [at EXCEPT ![p] = "idle"]
  /\ posted' = IF pending THEN posted ELSE posted + 1
  /\ pending' = TRUE
  /\ UNCHANGED <<queue, lines, running, pool, drain, own, main, since,
                 early>>

-----------------------------------------------------------------------------
(* drain_queue(), as a pool task and in stop() *)

TakeTask(w) ==
  /\ posted > 0 /\ drain[w] = "idle"
  /\ posted' = posted - 1 /\ drain' = [drain EXCEPT ![w] = "clear"]
  /\ UNCHANGED <<queue, lines, running, pool, pending, at, own, main, since,
                 early>>

ClearPending(d) ==
  /\ drain[d] = "clear" /\ drain' = [drain EXCEPT ![d] = "pop"]
  /\ pending' = FALSE
  /\ UNCHANGED <<queue, lines, running, pool, posted, at, own, main, since,
                 early>>

PopLine(d) ==
  /\ drain[d] = "pop" /\ QueueFree
  /\ IF queue = <<>>
       THEN /\ drain' = [drain EXCEPT ![d] = "idle"] /\ UNCHANGED queue
       ELSE /\ drain' = [drain EXCEPT ![d] = "write"]
            /\ queue' = Tail(queue)
  /\ UNCHANGED <<lines, running, pool, pending, posted, at, own, main, since,
                 early>>

WriteLine(d) ==
  /\ drain[d] = "write" /\ drain' = [drain EXCEPT ![d] = "pop"]
  /\ UNCHANGED <<queue, lines, running, pool, pending, posted, at, own, main,
                 since, early>>

-----------------------------------------------------------------------------
(* worker_loop() of the own thread.  In "block" and "check" it holds       *)
(* queue_mutex_.                                                           *)

OwnTop ==
  /\ own = "top" /\ own' = IF ~running \/ pool THEN "done" ELSE "want"
  /\ UNCHANGED <<queue, lines, running, pool, pending, posted, at, drain,
                 main, since, early>>

(* The wait predicate, under the lock.                                     *)
OwnLook ==
  /\ own = "want"
  /\ own' = IF queue # <<>> \/ ~running \/ pool THEN "check" ELSE "block"
  /\ UNCHANGED <<queue, lines, running, pool, pending, posted, at, drain,
                 main, since, early>>

OwnSleep ==
  /\ own = "block" /\ own' = "wait"
  /\ UNCHANGED <<queue, lines, running, pool, pending, posted, at, drain,
                 main, since, early>>

OwnWakeSpuriously ==
  /\ own = "wait" /\ own' = "want"
  /\ UNCHANGED <<queue, lines, running, pool, pending, posted, at, drain,
                 main, since, early>>

(* Leave for the pool, or pop a line; "pop" is the loop after a write.     *)
OwnPop ==
  /\ own \in {"check", "pop"}
  /\ IF own = "check" /\ pool
       THEN own' = "done" /\ UNCHANGED queue
       ELSE IF queue = <<>>
       THEN own' = "top" /\ UNCHANGED queue
       ELSE /\ own' = "write"
            /\ queue' = Tail(queue)
  /\ UNCHANGED <<lines, running, pool, pending, posted, at, drain, main,
                 since, early>>

OwnWrite ==
  /\ own = "write" /\ own' = "pop"
  /\ UNCHANGED <<queue, lines, running, pool, pending, posted, at, drain,
                 main, since, early>>

OwnStep == OwnTop \/ OwnLook \/ OwnSleep \/ OwnPop \/ OwnWrite

-----------------------------------------------------------------------------
(* The main thread: set_thread_pool(pool) once at startup, then stop() *)

SetThreadPool ==
  /\ main = "live" /\ ~pool /\ pool' = TRUE /\ main' = "notify"
  /\ since' = lines
  /\ UNCHANGED <<queue, lines, running, pending, posted, at, drain, own, early>>

StopRunning ==
  /\ main = "live" /\ running' = FALSE /\ main' = "detach"
  /\ UNCHANGED <<queue, lines, pool, pending, posted, at, drain, own, since,
                 early>>

StopDetach ==
  /\ main = "detach" /\ pool' = FALSE /\ main' = "notify"
  /\ UNCHANGED <<queue, lines, running, pending, posted, at, drain, own,
                 since, early>>

(* queue_cv_.notify_all, of set_thread_pool() and of stop().               *)
NotifyAll ==
  /\ main = "notify" /\ main' = "join"
  /\ own' = IF own = "wait" THEN "want" ELSE own
  /\ UNCHANGED <<queue, lines, running, pool, pending, posted, at, drain,
                 since, early>>

Join ==
  /\ main = "join" /\ own = "done"
  /\ main' = IF running THEN "live" ELSE "spin"
  /\ UNCHANGED <<queue, lines, running, pool, pending, posted, at, drain,
                 own, since, early>>

\* Mutant: stop() returns when the pool has no drain to run, without
\* draining what is left.
StopSpinReturns ==
  /\ main = "spin" /\ ~pending /\ main' = "drain"
  /\ UNCHANGED <<queue, lines, running, pool, pending, posted, at, drain,
                 own, since, early>>

(* The wait for drain_pending_ to go down, then the last drain_queue().    *)
StopSpin ==
  /\ main = "spin" /\ ~pending /\ main' = "drain"
  /\ drain' = [drain EXCEPT ![Main] = "clear"]
  /\ UNCHANGED <<queue, lines, running, pool, pending, posted, at, own,
                 since, early>>

StopReturn ==
  /\ main = "drain" /\ drain[Main] = "idle" /\ main' = "stopped"
  /\ UNCHANGED <<queue, lines, running, pool, pending, posted, at, drain,
                 own, since, early>>

MainStep == StopDetach \/ NotifyAll \/ Join \/ StopSpin \/ StopReturn

-----------------------------------------------------------------------------
Init ==
  /\ queue = <<>> /\ lines = 0 /\ since = 0 /\ early = 0
  /\ running = TRUE /\ pool = FALSE /\ pending = FALSE /\ posted = 0
  /\ at = [p \in Producer |-> "idle"]
  /\ drain = [d \in Drainer |-> "idle"]
  /\ own = "top" /\ main = "live"

LogStep(p) == Push(p) \/ Kick(p) \/ PostDrain(p)
DrainStep(d) == ClearPending(d) \/ PopLine(d) \/ WriteLine(d)

Next ==
  \/ \E p \in Producer : Log(p) \/ LogStep(p)
  \/ \E w \in Worker : TakeTask(w)
  \/ \E d \in Drainer : DrainStep(d)
  \/ OwnStep \/ OwnWakeSpuriously \/ SetThreadPool \/ StopRunning \/ MainStep

Spec == Init /\ [][Next]_vars

(* Threads inside log(), drain_queue(), worker_loop() and stop() go on,    *)
(* and the pool runs the tasks it has; nobody need log or stop.            *)
FairSpec ==
  /\ Spec
  /\ WF_vars(OwnStep) /\ WF_vars(MainStep)
  /\ WF_vars(\E w \in Worker : TakeTask(w))
  /\ \A p \in Producer : WF_vars(LogStep(p))
  /\ \A d \in Drainer : WF_vars(DrainStep(d))

-----------------------------------------------------------------------------
(* Properties *)

(* Every variable of the logger has its type.                              *)
TypeOK ==
  /\ queue \in Seq(1..MaxLines) /\ Len(queue) <= MaxQueue
  /\ lines \in 0..MaxLines /\ since \in 0..MaxLines /\ early \in 0..MaxLines
  /\ running \in BOOLEAN /\ pool \in BOOLEAN /\ pending \in BOOLEAN
  /\ posted \in Nat
  /\ at \in [Producer -> {"idle", "push", "kick", "post"}]
  /\ drain \in [Drainer -> {"idle", "clear", "pop", "write"}]
  /\ own \in {"top", "want", "block", "wait", "check", "pop", "write", "done"}
  /\ main \in {"live", "detach", "notify", "join", "spin", "drain", "stopped"}

(* A line accepted while the logger has a pool is never forgotten, however *)
(* the switch from the own thread went: a drain is under way or posted, or *)
(* the producer that put it there has yet to look at drain_pending_.       *)
NoStrandedLine ==
  pool /\ running /\ (\E i \in DOMAIN queue : queue[i] > since) =>
    \/ posted > 0
    \/ \E w \in Worker : drain[w] # "idle"
    \/ \E p \in Producer : at[p] \in {"kick", "post"}

(* drain_pending_ keeps the pool from being flooded: until stop() there is *)
(* at most one drain that has not begun (another may be writing already).  *)
OneDrainWaiting ==
  running => posted + Cardinality({w \in Worker : drain[w] = "clear"}) <= 1

(* When stop() has returned, no line accepted before it was called is      *)
(* still in the queue, whoever took it out.                                *)
StopFlushes ==
  main = "stopped" => \A i \in DOMAIN queue : queue[i] > early

(* architecture.md:326: with the own thread gone, stop() ends, although    *)
(* producers caught inside log() may still set the flag it waits for.      *)
StopReturns == ~running /\ own = "done" ~> main = "stopped"
=============================================================================
