----------------------------- MODULE Admission -----------------------------
(***************************************************************************)
(* What handle_accept does with a new connection before it is given a      *)
(* backend: the address lists, the per-address rate limit, the memory      *)
(* budget, the global limit and the queue of waiting clients; and what the *)
(* periodic callback does about the queue and the rate limiter's records.  *)
(* All of it runs on the reactor thread.  The clock advances by one second *)
(* at a time, and the callback runs once in each; connections come and go  *)
(* before and after it.                                                    *)
(***************************************************************************)
EXTENDS Naturals, Sequences, FiniteSets

CONSTANTS
  Ip,          \* client addresses
  Allowed,     \* those is_ip_allowed lets pass
  MaxGlobal,   \* max_global_connections_
  RateMax,     \* rate_limit_max_connections
  Window,      \* rate_limit_window_seconds
  QueueMax,    \* queue_max_size
  MaxWait,     \* queue_max_wait_ms, in seconds
  MaxTime,     \* bound on the clock
  MaxArrivals  \* bound on the connections that arrive

VARIABLES
  now,
  due,       \* the periodic callback has yet to run in this second
  stamps,    \* rate_limit_tracker_: times of the connections of an address
  pending,   \* pending_clients_: clients, by number, and their enqueue_time
  active,    \* clients that count_active_client_connections counts
  memory,    \* MemoryBudget::is_exceeded
  queueOn,   \* Config::queue_enabled
  arrivals,  \* connections so far
  passed,    \* history: times at which an address passed the rate limit
  served     \* history: the clients taken from the queue, in order

vars == <<now, due, stamps, pending, active, memory, queueOn, arrivals, passed,
          served>>

ASSUME AdmissionAssumption ==
  /\ Allowed \subseteq Ip
  /\ {MaxGlobal, QueueMax, MaxTime, MaxArrivals} \subseteq Nat
  /\ {RateMax, Window, MaxWait} \subseteq Nat \ {0}

-----------------------------------------------------------------------------
(* The rate limiter *)

\* Mutant: a connection exactly one window old is forgotten.
RecentShort(times) == SelectSeq(times, LAMBDA t : t + Window > now)

(* What remove_if leaves: ts < now - window goes.                          *)
Recent(times) == SelectSeq(times, LAMBDA t : t + Window >= now)

\* check_rate_limit
RateExceeded(ip) == Len(Recent(stamps[ip])) >= RateMax

-----------------------------------------------------------------------------
(* handle_accept, for one connection, which gets the next number *)

\* Into the queue, if it is enabled and has room.
CanQueue == queueOn /\ Len(pending) < QueueMax

Enqueue ==
  pending' = Append(pending, [client |-> arrivals + 1, since |-> now])

Arrive == arrivals < MaxArrivals /\ arrivals' = arrivals + 1

(* Turned away by the address lists or the rate limit.                     *)
Reject(ip) ==
  /\ Arrive
  /\ \/ ip \notin Allowed /\ stamps' = stamps
     \/ /\ ip \in Allowed /\ RateExceeded(ip)
        /\ stamps' = [stamps EXCEPT ![ip] = Recent(@)]
  /\ UNCHANGED <<now, due, pending, active, memory, queueOn, passed, served>>

\* Past the rate limit, which remembers the connection.
Pass(ip) ==
  /\ Arrive /\ ip \in Allowed /\ ~RateExceeded(ip)
  /\ stamps' = [stamps EXCEPT ![ip] = Append(Recent(@), now)]
  /\ passed' = [passed EXCEPT ![ip] = Append(@, now)]
  /\ UNCHANGED <<now, due, memory, queueOn, served>>

Full == Cardinality(active) >= MaxGlobal

(* No memory or no room: the client waits, or is turned away.              *)
QueueOrDrop(ip) ==
  /\ Pass(ip) /\ (memory \/ Full)
  /\ IF CanQueue THEN Enqueue ELSE pending' = pending
  /\ active' = active

(* The client is let in; connect may close it at once.                     *)
Admit(ip) ==
  /\ Pass(ip) /\ ~memory /\ ~Full
  /\ active' \in {active, active \cup {arrivals + 1}}
  /\ pending' = pending

-----------------------------------------------------------------------------
(* The periodic callback: cleanup_rate_limit_entries, try_dequeue_clients *)

Waiting == SelectSeq(pending, LAMBDA c : now - c.since < MaxWait)

\* Mutant: one client more than there is room for.
DequeueOneMore ==
  LET n == IF memory \/ Cardinality(active) > MaxGlobal THEN 0
           ELSE IF Waiting = <<>> THEN 0 ELSE 1
  IN  /\ pending' = SubSeq(Waiting, n + 1, Len(Waiting))
      /\ served' = served \o [i \in 1 .. n |-> Waiting[i].client]
      /\ active' = active \cup {Waiting[i].client : i \in 1 .. n}

\* Mutant: the client that came last is taken first.
DequeueLast ==
  LET n == IF memory \/ Full \/ Waiting = <<>> THEN 0 ELSE 1
      l == Len(Waiting)
  IN  /\ pending' = SubSeq(Waiting, 1, l - n)
      /\ served' = served \o [i \in 1 .. n |-> Waiting[l].client]
      /\ active' = active \cup {Waiting[l].client : i \in 1 .. n}

\* Mutant: the time a client has waited is not looked at.
DequeueKeepsAll ==
  LET n == IF memory \/ Full \/ pending = <<>> THEN 0 ELSE 1
  IN  /\ pending' = SubSeq(pending, n + 1, Len(pending))
      /\ served' = served \o [i \in 1 .. n |-> pending[i].client]
      /\ active' = active \cup {pending[i].client : i \in 1 .. n}

(* try_dequeue_clients: clients that have waited too long are dropped;     *)
(* then clients are taken from the front while there is room.  Of those    *)
(* taken, the ones in J get a backend and take up room, the others are     *)
(* closed at once.                                                         *)
Dequeue ==
  \E n \in 0 .. Len(Waiting) :
  \E J \in SUBSET {Waiting[i].client : i \in 1 .. n} :
    LET Before(i) == active \cup {c \in J : \E j \in 1 .. i - 1 : Waiting[j].client = c}
        Room(i) == ~memory /\ Cardinality(Before(i)) < MaxGlobal
    IN  /\ \A i \in 1 .. n : Room(i)
        /\ n < Len(Waiting) => ~Room(n + 1)
        /\ pending' = SubSeq(Waiting, n + 1, Len(Waiting))
        /\ served' = served \o [i \in 1 .. n |-> Waiting[i].client]
        /\ active' = active \cup J

Periodic ==
  /\ due /\ due' = FALSE
  /\ stamps' = [ip \in Ip |-> Recent(stamps[ip])]
  /\ IF queueOn /\ QueueMax > 0 THEN Dequeue
                                ELSE UNCHANGED <<pending, active, served>>
  /\ UNCHANGED <<now, memory, queueOn, arrivals, passed>>

-----------------------------------------------------------------------------
(* Around it *)

Second ==
  /\ ~due /\ now < MaxTime /\ now' = now + 1 /\ due' = TRUE
  /\ UNCHANGED <<stamps, pending, active, memory, queueOn, arrivals, passed,
                 served>>

Leave(c) ==
  /\ c \in active /\ active' = active \ {c}
  /\ UNCHANGED <<now, due, stamps, pending, memory, queueOn, arrivals, passed,
                 served>>

(* Buffers fill and empty (MemoryBudget).                                  *)
MemoryChanges ==
  /\ memory' = ~memory
  /\ UNCHANGED <<now, due, stamps, pending, active, queueOn, arrivals, passed,
                 served>>

(* Every use of queue_enabled reads the current configuration.             *)
ReloadQueue ==
  /\ queueOn' = ~queueOn
  /\ UNCHANGED <<now, due, stamps, pending, active, memory, arrivals, passed,
                 served>>

Init ==
  /\ now = 0 /\ due = FALSE /\ arrivals = 0 /\ memory = FALSE /\ queueOn = TRUE
  /\ stamps = [ip \in Ip |-> <<>>] /\ passed = [ip \in Ip |-> <<>>]
  /\ pending = <<>> /\ active = {} /\ served = <<>>

Next ==
  \/ \E ip \in Ip : Reject(ip) \/ QueueOrDrop(ip) \/ Admit(ip)
  \/ \E c \in 1 .. MaxArrivals : Leave(c)
  \/ Periodic \/ Second \/ MemoryChanges \/ ReloadQueue

Spec == Init /\ [][Next]_vars

-----------------------------------------------------------------------------
(* Properties *)

(* Every variable has its type, and the queue its bound.                   *)
TypeOK ==
  /\ now \in 0 .. MaxTime /\ due \in BOOLEAN /\ arrivals \in 0 .. MaxArrivals
  /\ stamps \in [Ip -> Seq(0 .. MaxTime)] /\ passed \in [Ip -> Seq(0 .. MaxTime)]
  /\ pending \in Seq([client : 1 .. MaxArrivals, since : 0 .. MaxTime])
  /\ Len(pending) <= QueueMax
  /\ active \subseteq 1 .. MaxArrivals /\ served \in Seq(1 .. MaxArrivals)
  /\ memory \in BOOLEAN /\ queueOn \in BOOLEAN

(* README.md:483, "Counts connections within the last N seconds (sliding   *)
(* window)": in no window, wherever it starts, do more than RateMax        *)
(* connections of one address pass, whatever the periodic cleanup removes  *)
(* from the tracker in between.                                            *)
SlidingWindow ==
  \A ip \in Ip : \A i \in DOMAIN passed[ip] :
    i + RateMax \in DOMAIN passed[ip]
      => passed[ip][i + RateMax] - passed[ip][i] > Window

(* README.md:504, "Connections are served in the order they were queued",  *)
(* and so before any that is still in the queue.                           *)
QueueIsFifo ==
  LET line == served \o [i \in DOMAIN pending |-> pending[i].client]
  IN  \A i, j \in DOMAIN line : i < j => line[i] < line[j]

(* max_global_connections holds for clients from the queue as for those    *)
(* let in directly, in whatever order the two paths take the room.         *)
ActiveWithinLimit == Cardinality(active) <= MaxGlobal

(* README.md:506, "Queued connections are dropped if they wait longer than *)
(* max_wait_ms": each run of the callback with the queue enabled leaves no *)
(* client that is overdue, whether it found memory and room or not and     *)
(* however long a reload had the queue disabled before.                    *)
OverdueDropped ==
  [][Periodic /\ queueOn
       => \A i \in DOMAIN pending' : now - pending'[i].since < MaxWait]_vars
=============================================================================
