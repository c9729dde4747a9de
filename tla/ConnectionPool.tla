--------------------------- MODULE ConnectionPool ---------------------------
(***************************************************************************)
(* The idle list of one ConnectionPool, and active_count_ beside it.       *)
(* Connections knows the list only as a set; here it is the deque, with    *)
(* the time each socket was put there and the iterator loop of borrow().   *)
(*                                                                         *)
(* Every call is made under mutex_, by the reactor thread.  What happens   *)
(* in between: the peer of an idle socket may close it, time passes, and a *)
(* socket that is out may be closed without the pool being told (a backend *)
(* that fails is closed by close_backend_connection_only).                 *)
(***************************************************************************)
EXTENDS Naturals, Sequences, FiniteSets, SequencesExt

CONSTANTS
  Sock,        \* sockets to the backend
  MinIdle,     \* PoolConfig::min_connections
  MaxActive,   \* PoolConfig::max_connections
  MaxIdleTime, \* PoolConfig::max_idle_time_ms
  MaxTime      \* bound on the clock

VARIABLES
  idle,    \* connections_: records of a socket and its last_used
  out,     \* sockets in use by a pair of connections
  dead,    \* sockets that recv(MSG_PEEK) will find closed
  active,  \* active_count_
  now

vars == <<idle, out, dead, active, now>>

ASSUME PoolConfigAssumption ==
  /\ IsFiniteSet(Sock)
  /\ {MinIdle, MaxActive, MaxIdleTime, MaxTime} \subseteq Nat

InPool == {idle[i].sock : i \in DOMAIN idle}
Live(i) == idle[i].sock \notin dead
Fresh == Sock \ (out \cup InPool)

-----------------------------------------------------------------------------
(* borrow() *)

\* Mutant: the socket is lent without validating it.
BorrowUnchecked ==
  /\ idle # <<>>
  /\ out' = out \cup {Head(idle).sock} /\ idle' = Tail(idle)
  /\ active' = active + 1
  /\ UNCHANGED <<dead, now>>

\* Mutant: the lent socket is not erased.
BorrowKeeps ==
  /\ \E i \in DOMAIN idle :
       /\ Live(i) /\ \A j \in 1 .. i - 1 : ~Live(j)
       /\ out' = out \cup {idle[i].sock}
       /\ idle' = SubSeq(idle, i, Len(idle))
       /\ active' = active + 1
  /\ UNCHANGED <<dead, now>>

(* The loop meets a live socket: those before it have been closed and      *)
(* erased.  (Erasing the first of several leaves libstdc++'s iterator just *)
(* before the new first, where ++it takes it back into the deque.)         *)
BorrowIdle ==
  /\ \E i \in DOMAIN idle :
       /\ Live(i) /\ \A j \in 1 .. i - 1 : ~Live(j)
       /\ out' = out \cup {idle[i].sock}
       /\ idle' = SubSeq(idle, i + 1, Len(idle))
       /\ active' = active + 1
  /\ UNCHANGED <<dead, now>>

(* The loop erases the only element left: the iterator is now end(), and   *)
(* ++it takes it past the end.  What is read from there on is undefined;   *)
(* the process ends (and with it the model), or goes on as if the loop had *)
(* ended: borrow() creates a connection or gives nothing.                  *)
BorrowPastEnd ==
  /\ idle # <<>> /\ \A i \in DOMAIN idle : ~Live(i)
  /\ idle' = <<>>
  /\ \/ UNCHANGED <<out, dead, active>>
     \/ /\ active < MaxActive /\ active' = active + 1
        /\ \E s \in Fresh : out' = out \cup {s} /\ dead' = dead \ {s}
  /\ UNCHANGED now

(* Nothing idle: create_connection, if the count allows it.                *)
BorrowNew ==
  /\ idle = <<>> /\ active < MaxActive
  /\ \E s \in Fresh : out' = out \cup {s} /\ dead' = dead \ {s}
  /\ active' = active + 1
  /\ UNCHANGED <<idle, now>>

(* borrow() gave nothing and BackendConnector opens a socket of its own.   *)
OpenDirect ==
  /\ idle = <<>>
  /\ \E s \in Fresh : out' = out \cup {s} /\ dead' = dead \ {s}
  /\ UNCHANGED <<idle, active, now>>

-----------------------------------------------------------------------------
(* release() and evict_expired() *)

Release(s) ==
  /\ s \in out /\ out' = out \ {s}
  /\ active' = IF active > 0 THEN active - 1 ELSE 0
  /\ idle' = IF s \in dead THEN idle
             ELSE Append(idle, [sock |-> s, used |-> now])
  /\ UNCHANGED <<dead, now>>

Expired(i) == now - idle[i].used > MaxIdleTime

\* Mutant: eviction looks at the most recently used sockets first.
EvictNewest ==
  LET Old == {i \in DOMAIN idle : Expired(i)}
      n == IF Len(idle) > MinIdle THEN Len(idle) - MinIdle ELSE 0
      k == IF Cardinality(Old) < n THEN Cardinality(Old) ELSE n
  IN  /\ k > 0 /\ idle' = SubSeq(idle, 1, Len(idle) - k)
      /\ UNCHANGED <<out, dead, active, now>>

(* evict_expired(): in order, an expired socket goes while more than the   *)
(* minimum are left.                                                       *)
Evict ==
  LET Old == {i \in DOMAIN idle : Expired(i)}
      Gone == {i \in Old : Len(idle) - Cardinality({j \in Old : j < i}) > MinIdle}
      kept == SetToSortSeq(DOMAIN idle \ Gone, <)
  IN  /\ Gone # {} /\ idle' = [j \in DOMAIN kept |-> idle[kept[j]]]
      /\ UNCHANGED <<out, dead, active, now>>

-----------------------------------------------------------------------------
(* Around the pool *)

PeerCloses(s) ==
  /\ s \in (out \cup InPool) \ dead /\ dead' = dead \cup {s}
  /\ UNCHANGED <<idle, out, active, now>>

(* A failed backend socket is closed; active_count_ is not told.           *)
Abandon(s) ==
  /\ s \in out /\ out' = out \ {s}
  /\ UNCHANGED <<idle, dead, active, now>>

Tick ==
  /\ now < MaxTime /\ now' = now + 1
  /\ UNCHANGED <<idle, out, dead, active>>

Init ==
  /\ idle = <<>> /\ out = {} /\ dead = {} /\ active = 0 /\ now = 0

Next ==
  \/ BorrowIdle \/ BorrowPastEnd \/ BorrowNew \/ OpenDirect
  \/ Evict \/ Tick
  \/ \E s \in Sock : Release(s) \/ PeerCloses(s) \/ Abandon(s)

Spec == Init /\ [][Next]_vars

-----------------------------------------------------------------------------
(* Properties *)

(* Every variable of the pool has its type.                                *)
TypeOK ==
  /\ idle \in Seq([sock : Sock, used : 0 .. MaxTime])
  /\ out \subseteq Sock /\ dead \subseteq Sock
  /\ active \in Nat /\ now \in 0 .. MaxTime

(* A socket is in one place: no socket is lent twice, lent while idle, or  *)
(* put in the idle list twice, so two clients never share one backend      *)
(* stream.                                                                 *)
OneHolder ==
  /\ InPool \cap out = {}
  /\ \A i, j \in DOMAIN idle : idle[i].sock = idle[j].sock => i = j

(* architecture.md:190, "(validating it first)": what borrow() takes from  *)
(* the idle list is not a socket its peer has closed.                      *)
LentIsLive == [][\A s \in InPool \cap out' : s \notin dead]_vars

(* evict_expired() goes by age although it walks the deque by position and *)
(* stops counting at min_connections: it never drops a socket while it     *)
(* keeps one that was idle longer, and never goes below the minimum.       *)
EvictsOldest ==
  [][Evict => /\ Len(idle') >= MinIdle
              /\ \A i \in DOMAIN idle, j \in DOMAIN idle' :
                   idle[i].sock \notin {idle'[k].sock : k \in DOMAIN idle'}
                     => idle[i].used <= idle'[j].used]_vars
=============================================================================
