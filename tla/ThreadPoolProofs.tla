-------------------------- MODULE ThreadPoolProofs --------------------------
(***************************************************************************)
(* post() loses no wake-up, for any number of workers and tasks.           *)
(*                                                                         *)
(* NoSleepOnWork is not inductive: a worker on its way to sleep must not   *)
(* have missed a task.  It cannot, since it holds mutex_ from the moment   *)
(* it sees an empty queue until it sleeps; MutexHeld says so.              *)
(***************************************************************************)
EXTENDS ThreadPool, TLAPS

(* A worker that is about to sleep or to pop holds the mutex, with what it *)
(* has seen of the queue still true; a worker leaves only a stopping pool. *)
MutexHeld ==
  \A w \in Worker :
    /\ pc[w] = "block" => mutex = w /\ tasks = <<>>
    /\ pc[w] = "pop" => mutex = w /\ (stopping \/ tasks # <<>>)
    /\ pc[w] = "done" => stopping

IInv == PoolTypeOK /\ MutexHeld /\ NoSleepOnWork

(* The pool starts with every worker awake and no task.                    *)
LEMMA InitIInv == PoolInit => IInv
<1>1. PoolInit => PoolTypeOK
  <2>1. PoolInit => stopping \in BOOLEAN /\ pc \in [Worker -> Pc]
    BY Zenon DEF PoolInit, Pc
  <2>2. PoolInit => tasks \in Seq(Task)
    BY DEF PoolInit
  <2>. QED
    BY <2>1, <2>2 DEF PoolInit, PoolTypeOK
<1>2. PoolInit => MutexHeld /\ NoSleepOnWork
  BY DEF PoolInit, MutexHeld, NoSleepOnWork
<1>. QED
  BY <1>1, <1>2 DEF IInv

(* Every step of a poster, a worker or the destructor keeps the invariant. *)
LEMMA StepIInv == IInv /\ [PoolNext]_pool => IInv'
<1>. SUFFICES ASSUME IInv, [PoolNext]_pool PROVE IInv'
  OBVIOUS
<1>. USE PoolAssumption DEF IInv, PoolTypeOK, MutexHeld, NoSleepOnWork, Pc
<1>1. ASSUME NEW t \in Task, Post(t) PROVE IInv'
  BY <1>1 DEF Post
<1>2. CASE Notify
  <2>1. CASE \E w \in Worker : pc[w] = "wait"
    <3>1. PICK w \in Worker : pc[w] = "wait" /\ pc' = [pc EXCEPT ![w] = "want"]
      BY <1>2, <2>1 DEF Notify
    <3>2. pc'[w] = "want" /\ pc' \in [Worker -> Pc]
      BY <3>1
    <3>. QED
      BY <1>2, <3>1, <3>2 DEF Notify
  <2>2. CASE ~ \E w \in Worker : pc[w] = "wait"
    <3>1. PICK w \in Worker : TRUE
      OBVIOUS
    <3>. QED
      BY <1>2, <2>2, <3>1 DEF Notify
  <2>. QED
    BY <2>1, <2>2
<1>3. CASE Store
  BY <1>3 DEF Store
<1>4. CASE NotifyAll
  BY <1>4 DEF NotifyAll
<1>5. CASE Join
  BY <1>5 DEF Join
<1>6. ASSUME NEW w \in Worker, Top(w) PROVE IInv'
  BY <1>6 DEF Top
<1>7. ASSUME NEW w \in Worker, Lock(w) PROVE IInv'
  BY <1>7 DEF Lock
<1>8. ASSUME NEW w \in Worker, Sleep(w) PROVE IInv'
  BY <1>8 DEF Sleep
<1>9. ASSUME NEW w \in Worker, WakeSpuriously(w) PROVE IInv'
  BY <1>9 DEF WakeSpuriously
<1>10. ASSUME NEW w \in Worker, Pop(w) PROVE IInv'
  <2>1. CASE stopping /\ tasks = <<>>
    BY <1>10, <2>1 DEF Pop
  <2>2. CASE tasks # <<>>
    <3>1. Head(tasks) \in Task /\ Tail(tasks) \in Seq(Task)
      BY <2>2
    <3>. QED
      BY <1>10, <2>2, <3>1 DEF Pop
  <2>. QED
    BY <1>10, <2>1, <2>2 DEF Pop
<1>11. ASSUME NEW w \in Worker, Run(w) PROVE IInv'
  BY <1>11 DEF Run
<1>12. CASE UNCHANGED pool
  BY <1>12 DEF pool
<1>. HIDE DEF IInv
<1>. QED
  BY <1>1, <1>2, <1>3, <1>4, <1>5, <1>6, <1>7, <1>8, <1>9, <1>10, <1>11, <1>12
  DEF PoolNext, WorkerStep

(* For any set of workers and any number of posts: while the pool is       *)
(* alive, a queued task means a worker is awake or about to be woken.      *)
THEOREM NoLostWakeup == PoolSpec => []NoSleepOnWork
<1>1. IInv => NoSleepOnWork
  BY DEF IInv
<1>. QED
  BY <1>1, InitIInv, StepIInv, PTL DEF PoolSpec
=============================================================================
