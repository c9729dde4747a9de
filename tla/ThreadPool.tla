----------------------------- MODULE ThreadPool -----------------------------
(***************************************************************************)
(* ThreadPool: workers that wait on a condition variable for tasks, and a  *)
(* destructor that stops them.  post() changes the queue under mutex_ and  *)
(* notifies after releasing it; the destructor changes stopping_ and       *)
(* notifies without ever taking mutex_.  A worker is split where it takes  *)
(* and gives up the mutex: between evaluating the wait predicate and going *)
(* to sleep it holds it.                                                   *)
(***************************************************************************)
EXTENDS Naturals, Sequences

CONSTANTS
  Worker,     \* the threads of workers_
  Task,       \* what may be posted
  None,       \* nobody holds mutex_, or a worker has no task
  MaxQueue,   \* bound on the tasks queued
  MaxPosting  \* bound on the threads inside post() at the same time

VARIABLES
  tasks,     \* tasks_
  notifies,  \* posts that have not yet called notify_one
  pc,        \* where each worker is in worker_loop
  task,      \* the task it took
  mutex,     \* who holds mutex_
  stopping,  \* stopping_
  dtor       \* ~ThreadPool: live, stored, joining or joined

pool == <<tasks, notifies, pc, task, mutex, stopping, dtor>>

ASSUME PoolAssumption ==
  Worker # {} /\ None \notin Worker \cup Task /\ MaxQueue \in Nat /\ MaxPosting \in Nat

Pc == {"top", "want", "block", "wait", "pop", "run", "done"}

-----------------------------------------------------------------------------
(* post *)

(* A task is queued under the lock; a pool that is stopping drops it.      *)
Post(t) ==
  /\ Len(tasks) < MaxQueue /\ notifies < MaxPosting
  /\ mutex = None /\ ~stopping
  /\ tasks' = Append(tasks, t) /\ notifies' = notifies + 1
  /\ UNCHANGED <<pc, task, mutex, stopping, dtor>>

(* cv_.notify_one wakes one worker that sleeps, if there is one.           *)
Notify ==
  /\ notifies > 0 /\ notifies' = notifies - 1
  /\ IF \E w \in Worker : pc[w] = "wait"
       THEN \E w \in Worker : pc[w] = "wait" /\ pc' = [pc EXCEPT ![w] = "want"]
       ELSE pc' = pc
  /\ UNCHANGED <<tasks, task, mutex, stopping, dtor>>

-----------------------------------------------------------------------------
(* worker_loop *)

Top(w) ==
  /\ pc[w] = "top"
  /\ pc' = [pc EXCEPT ![w] = IF stopping THEN "done" ELSE "want"]
  /\ UNCHANGED <<tasks, notifies, task, mutex, stopping, dtor>>

\* Mutant: the lock is released before the predicate is evaluated, so a
\* post can come between that and the sleep.
LockReleased(w) ==
  /\ pc[w] = "want" /\ mutex = None
  /\ pc' = [pc EXCEPT ![w] = IF stopping \/ tasks # <<>> THEN "pop" ELSE "block"]
  /\ mutex' = IF pc'[w] = "pop" THEN w ELSE None
  /\ UNCHANGED <<tasks, notifies, task, stopping, dtor>>

(* The lock is taken and the predicate evaluated.                          *)
Lock(w) ==
  /\ pc[w] = "want" /\ mutex = None /\ mutex' = w
  /\ pc' = [pc EXCEPT ![w] = IF stopping \/ tasks # <<>> THEN "pop" ELSE "block"]
  /\ UNCHANGED <<tasks, notifies, task, stopping, dtor>>

(* cv_.wait releases the lock and sleeps.                                  *)
Sleep(w) ==
  /\ pc[w] = "block" /\ pc' = [pc EXCEPT ![w] = "wait"] /\ mutex' = None
  /\ UNCHANGED <<tasks, notifies, task, stopping, dtor>>

WakeSpuriously(w) ==
  /\ pc[w] = "wait" /\ pc' = [pc EXCEPT ![w] = "want"]
  /\ UNCHANGED <<tasks, notifies, task, mutex, stopping, dtor>>

(* The predicate held: leave, or take the first task.                      *)
Pop(w) ==
  /\ pc[w] = "pop" /\ mutex' = None
  /\ IF stopping /\ tasks = <<>>
       THEN pc' = [pc EXCEPT ![w] = "done"] /\ UNCHANGED <<tasks, task>>
       ELSE /\ pc' = [pc EXCEPT ![w] = "run"]
            /\ task' = [task EXCEPT ![w] = Head(tasks)] /\ tasks' = Tail(tasks)
  /\ UNCHANGED <<notifies, stopping, dtor>>

(* The task returns, or throws and is swallowed.                           *)
Run(w) ==
  /\ pc[w] = "run" /\ pc' = [pc EXCEPT ![w] = "top"]
  /\ task' = [task EXCEPT ![w] = None]
  /\ UNCHANGED <<tasks, notifies, mutex, stopping, dtor>>

WorkerStep(w) == Top(w) \/ Lock(w) \/ Sleep(w) \/ Pop(w) \/ Run(w)

-----------------------------------------------------------------------------
(* ~ThreadPool *)

Store ==
  /\ dtor = "live" /\ dtor' = "stored" /\ stopping' = TRUE
  /\ UNCHANGED <<tasks, notifies, pc, task, mutex>>

\* Mutant: only one worker is woken.
NotifyOneOfAll ==
  /\ dtor = "stored" /\ dtor' = "joining"
  /\ IF \E w \in Worker : pc[w] = "wait"
       THEN \E w \in Worker : pc[w] = "wait" /\ pc' = [pc EXCEPT ![w] = "want"]
       ELSE pc' = pc
  /\ UNCHANGED <<tasks, notifies, task, mutex, stopping>>

NotifyAll ==
  /\ dtor = "stored" /\ dtor' = "joining"
  /\ pc' = [w \in Worker |-> IF pc[w] = "wait" THEN "want" ELSE pc[w]]
  /\ UNCHANGED <<tasks, notifies, task, mutex, stopping>>

Join ==
  /\ dtor = "joining" /\ \A w \in Worker : pc[w] = "done"
  /\ dtor' = "joined"
  /\ UNCHANGED <<tasks, notifies, pc, task, mutex, stopping>>

PoolInit ==
  /\ tasks = <<>> /\ notifies = 0
  /\ pc = [w \in Worker |-> "top"] /\ task = [w \in Worker |-> None] /\ mutex = None
  /\ stopping = FALSE /\ dtor = "live"

PoolNext ==
  \/ Notify \/ Store \/ NotifyAll \/ Join
  \/ \E t \in Task : Post(t)
  \/ \E w \in Worker : WorkerStep(w) \/ WakeSpuriously(w)

PoolSpec == PoolInit /\ [][PoolNext]_pool

-----------------------------------------------------------------------------
(* Properties *)

(* Every variable of the pool has its type.                                *)
PoolTypeOK ==
  /\ tasks \in Seq(Task) /\ notifies \in Nat
  /\ pc \in [Worker -> Pc] /\ task \in [Worker -> Task \cup {None}]
  /\ mutex \in Worker \cup {None}
  /\ stopping \in BOOLEAN /\ dtor \in {"live", "stored", "joining", "joined"}

(* No lost wake-up in post(): while the pool is alive, work in the queue   *)
(* means that some worker is awake or about to be woken.                   *)
NoSleepOnWork ==
  ~stopping /\ tasks # <<>> =>
    notifies > 0 \/ \E w \in Worker : pc[w] \notin {"wait", "done"}
=============================================================================
