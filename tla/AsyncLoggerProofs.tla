------------------------- MODULE AsyncLoggerProofs -------------------------
(***************************************************************************)
(* The logger with a pool forgets no line and floods no pool, for any      *)
(* number of threads that log, pool workers and lines.                     *)
(*                                                                         *)
(* A producer that finds drain_pending_ set posts nothing, so what has to  *)
(* be carried along is that, until stop(), the flag stands for exactly one *)
(* drain that has not begun to look at the queue: FlagExact.               *)
(***************************************************************************)
EXTENDS AsyncLogger, FiniteSetTheorems, TLAPS

(* What the steps read of the types.                                       *)
Shape ==
  /\ posted \in Nat /\ lines \in Nat /\ since \in Nat
  /\ queue \in Seq(Nat)
  /\ at \in [Producer -> {"idle", "push", "kick", "post"}]
  /\ drain \in [Drainer -> {"idle", "clear", "pop", "write"}]

(* Lines are numbered as they are accepted.                                *)
Numbered == \A i \in DOMAIN queue : queue[i] <= lines

(* The main thread drains only in stop(), and nobody posts without a pool. *)
Quiet ==
  /\ main \in {"detach", "spin", "drain", "stopped"} => ~running
  /\ running => drain[Main] = "idle"
  /\ running /\ ~pool => \A p \in Producer : at[p] # "post"

Starting == {w \in Worker : drain[w] = "clear"}

FlagExact ==
  running => \/ ~pending /\ posted = 0 /\ Starting = {}
             \/ pending /\ posted = 1 /\ Starting = {}
             \/ pending /\ posted = 0 /\ \E w \in Worker : Starting = {w}

IInv == Shape /\ Numbered /\ Quiet /\ FlagExact /\ NoStrandedLine

(* A logger starts with no line and no drain.                              *)
LEMMA InitIInv == Init => IInv
<1>1. Init => Shape
  BY DEF Init, Shape
<1>2. Init => drain[Main] = "idle" /\ \A w \in Worker : drain[w] = "idle"
  BY DEF Init, Drainer
<1>3. Init => ~pending /\ posted = 0 /\ queue = <<>> /\ main = "live" /\ ~pool
  BY DEF Init
<1>4. Init => \A p \in Producer : at[p] = "idle"
  BY DEF Init
<1>. QED
  BY <1>1, <1>2, <1>3, <1>4
  DEF IInv, Numbered, Quiet, FlagExact, Starting, NoStrandedLine

(* Taking the first line off the queue leaves lines of the queue.          *)
LEMMA TailFacts ==
  ASSUME NEW q \in Seq(Nat), q # <<>>
  PROVE  /\ Tail(q) \in Seq(Nat)
         /\ \A i \in DOMAIN Tail(q) : i + 1 \in DOMAIN q /\ Tail(q)[i] = q[i + 1]
OBVIOUS

(* Lines keep their types and numbers, whoever adds or takes one.          *)
LEMMA StepLines == Shape /\ Numbered /\ [Next]_vars => Shape' /\ Numbered'
<1>. SUFFICES ASSUME Shape, Numbered, [Next]_vars PROVE Shape' /\ Numbered'
  OBVIOUS
<1>. USE DEF Shape, Numbered
<1>1. ASSUME NEW p \in Producer, Log(p) PROVE Shape' /\ Numbered'
  BY <1>1 DEF Log
<1>2. ASSUME NEW p \in Producer, Push(p) PROVE Shape' /\ Numbered'
  <2>1. CASE Len(queue) >= MaxQueue
    BY <1>2, <2>1 DEF Push
  <2>2. CASE ~(Len(queue) >= MaxQueue)
    <3>1. queue' = Append(queue, lines + 1) /\ lines' = lines + 1
      BY <1>2, <2>2 DEF Push
    <3>2. queue' \in Seq(Nat) /\ \A i \in DOMAIN queue' : queue'[i] <= lines'
      BY <3>1
    <3>3. at' \in [Producer -> {"idle", "push", "kick", "post"}]
      BY <1>2, <2>2 DEF Push
    <3>4. UNCHANGED <<posted, since, drain, Drainer>>
      BY <1>2 DEF Push, Drainer
    <3>. QED
      BY <3>1, <3>2, <3>3, <3>4
  <2>. QED
    BY <2>1, <2>2
<1>3. ASSUME NEW p \in Producer, Kick(p) PROVE Shape' /\ Numbered'
  BY <1>3 DEF Kick
<1>4. ASSUME NEW p \in Producer, PostDrain(p) PROVE Shape' /\ Numbered'
  BY <1>4 DEF PostDrain
<1>5. ASSUME NEW w \in Worker, TakeTask(w) PROVE Shape' /\ Numbered'
  BY <1>5 DEF TakeTask, Drainer
<1>6. ASSUME NEW d \in Drainer, ClearPending(d) \/ WriteLine(d)
      PROVE Shape' /\ Numbered'
  BY <1>6 DEF ClearPending, WriteLine
<1>0. ASSUME queue # <<>>, queue' = Tail(queue), lines' = lines
      PROVE queue' \in Seq(Nat) /\ Numbered'
  <2>1. /\ queue' \in Seq(Nat)
        /\ \A i \in DOMAIN queue' : i + 1 \in DOMAIN queue /\ queue'[i] = queue[i + 1]
    BY <1>0, TailFacts
  <2>. QED
    BY <1>0, <2>1
<1>7. ASSUME NEW d \in Drainer, PopLine(d) PROVE Shape' /\ Numbered'
  <2>1. CASE queue = <<>>
    BY <1>7, <2>1 DEF PopLine
  <2>2. CASE queue # <<>>
    <3>1. queue' \in Seq(Nat) /\ Numbered'
      BY <1>0, <1>7, <2>2 DEF PopLine
    <3>2. drain' \in [Drainer -> {"idle", "clear", "pop", "write"}]
      BY <1>7, <2>2 DEF PopLine
    <3>3. UNCHANGED <<posted, lines, since, at>>
      BY <1>7 DEF PopLine
    <3>. QED
      BY <3>1, <3>2, <3>3 DEF Drainer
  <2>. QED
    BY <2>1, <2>2
<1>8. CASE OwnPop
  <2>1. CASE UNCHANGED queue
    BY <1>8, <2>1 DEF OwnPop
  <2>2. CASE queue # <<>> /\ queue' = Tail(queue)
    <3>1. queue' \in Seq(Nat) /\ Numbered'
      BY <1>0, <1>8, <2>2 DEF OwnPop
    <3>2. UNCHANGED <<posted, lines, since, at, drain>>
      BY <1>8 DEF OwnPop
    <3>. QED
      BY <3>1, <3>2 DEF Drainer
  <2>. QED
    BY <1>8, <2>1, <2>2 DEF OwnPop
<1>9. CASE OwnTop \/ OwnLook \/ OwnSleep \/ OwnWrite \/ OwnWakeSpuriously
  BY <1>9 DEF OwnTop, OwnLook, OwnSleep, OwnWrite, OwnWakeSpuriously
<1>10. CASE SetThreadPool \/ StopRunning
  BY <1>10 DEF SetThreadPool, StopRunning
<1>11. CASE StopSpin
  BY <1>11 DEF StopSpin, Drainer
<1>12. CASE StopDetach \/ NotifyAll \/ Join \/ StopReturn
  BY <1>12 DEF StopDetach, NotifyAll, Join, StopReturn
<1>13. CASE UNCHANGED vars
  BY <1>13 DEF vars
<1>. HIDE DEF Shape, Numbered
<1>. QED
  BY <1>1, <1>2, <1>3, <1>4, <1>5, <1>6, <1>7, <1>8, <1>9, <1>10, <1>11, <1>12,
     <1>13 DEF Next, LogStep, DrainStep, OwnStep, MainStep

(* The flag stays exact: the exchange admits one producer, and the drain   *)
(* it posts is the one that takes the flag down.                           *)
LEMMA StepFlag ==
  Shape /\ Quiet /\ FlagExact /\ [Next]_vars => Quiet' /\ FlagExact'
<1>. SUFFICES ASSUME Shape, Quiet, FlagExact, [Next]_vars
              PROVE  Quiet' /\ FlagExact'
  OBVIOUS
<1>. USE LoggerAssumption DEF Shape, Quiet, FlagExact, Starting, Drainer
<1>1. ASSUME NEW p \in Producer, Log(p) \/ Push(p) PROVE Quiet' /\ FlagExact'
  BY <1>1 DEF Log, Push
<1>3. ASSUME NEW p \in Producer, Kick(p) PROVE Quiet' /\ FlagExact'
  BY <1>3 DEF Kick
<1>4. ASSUME NEW p \in Producer, PostDrain(p) PROVE Quiet' /\ FlagExact'
  BY <1>4 DEF PostDrain
<1>5. ASSUME NEW w \in Worker, TakeTask(w) PROVE Quiet' /\ FlagExact'
  <2>1. drain' = [drain EXCEPT ![w] = "clear"] /\ posted' = posted - 1 /\ posted > 0
    BY <1>5 DEF TakeTask
  <2>2. running => Starting = {} /\ posted = 1 /\ pending
    BY <2>1
  <2>3. running => Starting' = {w}
    BY <2>1, <2>2
  <2>4. running => posted' = 0 /\ pending' /\ running'
    BY <1>5, <2>2 DEF TakeTask
  <2>5. Quiet'
    BY <1>5 DEF TakeTask
  <2>6. running' => running
    BY <1>5 DEF TakeTask
  <2>. QED
    BY <2>3, <2>4, <2>5, <2>6
<1>6. ASSUME NEW d \in Drainer, ClearPending(d) PROVE Quiet' /\ FlagExact'
  <2>1. running => d \in Worker
    BY <1>6 DEF ClearPending
  <2>2. running => d \in Starting /\ posted = 0 /\ Starting = {d}
    BY <1>6, <2>1 DEF ClearPending
  <2>3. running => Starting' = {}
    BY <1>6, <2>2 DEF ClearPending
  <2>. QED
    BY <1>6, <2>1, <2>2, <2>3 DEF ClearPending
<1>7. ASSUME NEW d \in Drainer, PopLine(d) \/ WriteLine(d)
      PROVE Quiet' /\ FlagExact'
  <2>1. running => d \in Worker
    BY <1>7 DEF PopLine, WriteLine
  <2>2. Starting' = Starting
    BY <1>7 DEF PopLine, WriteLine
  <2>. QED
    BY <1>7, <2>1, <2>2 DEF PopLine, WriteLine
<1>8. CASE OwnStep \/ OwnWakeSpuriously
  BY <1>8 DEF OwnStep, OwnTop, OwnLook, OwnSleep, OwnPop, OwnWrite, OwnWakeSpuriously
<1>9. CASE SetThreadPool
  BY <1>9 DEF SetThreadPool
<1>10. CASE StopRunning
  BY <1>10 DEF StopRunning
<1>11. CASE MainStep
  BY <1>11 DEF MainStep, StopDetach, NotifyAll, Join, StopSpin, StopReturn
<1>12. CASE UNCHANGED vars
  BY <1>12 DEF vars
<1>. HIDE DEF Quiet, FlagExact
<1>. QED
  BY <1>1, <1>3, <1>4, <1>5, <1>6, <1>7, <1>8, <1>9, <1>10, <1>11, <1>12
  DEF Next, LogStep, DrainStep

(* No step leaves a line with nobody on the way to it.                     *)
LEMMA StepLine == IInv /\ [Next]_vars => NoStrandedLine'
<1>. SUFFICES ASSUME IInv, [Next]_vars,
                     pool', running', \E i \in DOMAIN queue' : queue'[i] > since'
              PROVE  \/ posted' > 0
                     \/ \E w \in Worker : drain'[w] # "idle"
                     \/ \E p \in Producer : at'[p] \in {"kick", "post"}
  BY DEF NoStrandedLine
<1>. DEFINE Behind == \/ posted > 0
                      \/ \E w \in Worker : drain[w] # "idle"
                      \/ \E p \in Producer : at[p] \in {"kick", "post"}
<1>. USE LoggerAssumption DEF IInv, Shape, Drainer
<1>0. ASSUME pool, running, \E i \in DOMAIN queue : queue[i] > since PROVE Behind
  BY <1>0 DEF NoStrandedLine
<1>1. ASSUME NEW p \in Producer, Log(p) PROVE Behind'
  BY <1>0, <1>1 DEF Log
<1>2. ASSUME NEW p \in Producer, Push(p) PROVE Behind'
  <2>1. CASE Len(queue) >= MaxQueue
    BY <1>0, <1>2, <2>1 DEF Push
  <2>2. CASE ~(Len(queue) >= MaxQueue)
    BY <1>2, <2>2 DEF Push
  <2>. QED
    BY <2>1, <2>2
<1>3. ASSUME NEW p \in Producer, Kick(p) PROVE Behind'
  <2>1. pool /\ at'[p] = "post"
    BY <1>3 DEF Kick
  <2>. QED
    BY <2>1
<1>4. ASSUME NEW p \in Producer, PostDrain(p) PROVE Behind'
  <2>1. running
    BY <1>4 DEF PostDrain
  <2>2. CASE pending
    <3>1. posted > 0 \/ \E w \in Worker : drain[w] = "clear"
      BY <2>1, <2>2 DEF FlagExact, Starting
    <3>. QED
      BY <1>4, <2>2, <3>1 DEF PostDrain
  <2>3. CASE ~pending
    BY <1>4, <2>3 DEF PostDrain
  <2>. QED
    BY <2>2, <2>3
<1>5. ASSUME NEW w \in Worker, TakeTask(w) PROVE Behind'
  BY <1>5 DEF TakeTask
<1>6. ASSUME NEW d \in Drainer, ClearPending(d) \/ PopLine(d) \/ WriteLine(d)
      PROVE Behind'
  <2>1. d \in Worker
    BY <1>6 DEF ClearPending, PopLine, WriteLine, Quiet
  <2>2. queue' # <<>>
    OBVIOUS
  <2>3. drain'[d] # "idle"
    BY <1>6, <2>2 DEF ClearPending, PopLine, WriteLine
  <2>. QED
    BY <2>1, <2>3
<1>7. CASE OwnPop
  <2>1. \E i \in DOMAIN queue : queue[i] > since
    <3>1. CASE UNCHANGED queue
      BY <1>7, <3>1 DEF OwnPop
    <3>2. CASE queue # <<>> /\ queue' = Tail(queue)
      <4>1. \A i \in DOMAIN queue' :
              i + 1 \in DOMAIN queue /\ queue'[i] = queue[i + 1]
        BY <3>2, TailFacts
      <4>. QED
        BY <1>7, <4>1 DEF OwnPop
    <3>. QED
      BY <1>7, <3>1, <3>2 DEF OwnPop
  <2>. QED
    BY <1>0, <1>7, <2>1 DEF OwnPop
<1>8. CASE OwnTop \/ OwnLook \/ OwnSleep \/ OwnWrite \/ OwnWakeSpuriously
  BY <1>0, <1>8 DEF OwnTop, OwnLook, OwnSleep, OwnWrite, OwnWakeSpuriously
<1>9. CASE SetThreadPool
  BY <1>9 DEF SetThreadPool, Numbered
<1>10. CASE StopRunning
  BY <1>10 DEF StopRunning
<1>11. CASE StopSpin
  BY <1>11 DEF StopSpin, Quiet
<1>12. CASE StopDetach
  BY <1>12 DEF StopDetach
<1>13. CASE NotifyAll \/ Join \/ StopReturn
  BY <1>0, <1>13 DEF NotifyAll, Join, StopReturn
<1>14. CASE UNCHANGED vars
  BY <1>0, <1>14 DEF vars
<1>. HIDE DEF IInv, Shape
<1>. QED
  BY <1>1, <1>2, <1>3, <1>4, <1>5, <1>6, <1>7, <1>8, <1>9, <1>10, <1>11, <1>12,
     <1>13, <1>14 DEF Next, LogStep, DrainStep, OwnStep, MainStep

(* The three parts of the invariant hold together at every step.           *)
LEMMA AlwaysIInv == Spec => []IInv
<1>1. IInv /\ [Next]_vars => IInv'
  BY StepLines, StepFlag, StepLine DEF IInv
<1>. QED
  BY <1>1, InitIInv, PTL DEF Spec

(* While the logger has a pool and runs, a line accepted since then always *)
(* has a drain, or a producer about to see to one, behind it.              *)
THEOREM NoLineForgotten == Spec => []NoStrandedLine
<1>1. IInv => NoStrandedLine
  BY DEF IInv
<1>. QED
  BY <1>1, AlwaysIInv, PTL

(* Until stop() the pool holds at most one drain that has not begun.       *)
THEOREM PoolNotFlooded == Spec => []OneDrainWaiting
<1>1. IInv => OneDrainWaiting
  <2>. SUFFICES ASSUME IInv, running
                PROVE  posted + Cardinality(Starting) <= 1
    BY DEF OneDrainWaiting, Starting
  <2>1. Cardinality({}) = 0 /\ \A w \in Worker : Cardinality({w}) = 1
    BY FS_EmptySet, FS_Singleton
  <2>2. CASE Starting = {}
    BY <2>1, <2>2 DEF IInv, FlagExact
  <2>3. CASE posted = 0 /\ \E w \in Worker : Starting = {w}
    BY <2>1, <2>3
  <2>. QED
    BY <2>2, <2>3 DEF IInv, FlagExact
<1>. QED
  BY <1>1, AlwaysIInv, PTL
=============================================================================
