-------------------------- MODULE ConnectionsProofs --------------------------
(***************************************************************************)
(* Proofs about Connections, for any number of descriptors, nodes and      *)
(* retries and any limits.                                                 *)
(*                                                                         *)
(* Every operation maps a snapshot of the tables to snapshots, so the      *)
(* argument is made once per operation: a lemma ...Fields says what the    *)
(* operation leaves in each table, a lemma ...Good that it preserves the   *)
(* inductive invariant Good and admits no client.  Handlers compose        *)
(* operations, and so do their proofs.                                     *)
(***************************************************************************)
EXTENDS Connections, FiniteSetTheorems, TLAPS

Snapshot ==
  [conn : [Fd -> ConnectionState], peer : [Fd -> Fd \cup {None}],
   node : [Fd -> Node \cup {None}], owner : [Fd -> Fd \cup {None}],
   retries : [Fd -> (0 .. MaxRetry) \cup {None}], tracked : SUBSET Fd,
   errors : SUBSET Fd, active : [Node -> Nat], idle : [Addr -> SUBSET Fd],
   borrowed : [Addr -> Nat]]

\* Who is paired with whom, and what each entry may then be.
Pairing(s) ==
  \A f \in Fd :
    /\ s.conn[f] = "none" => s.peer[f] = None /\ s.node[f] = None
    /\ s.conn[f] = "HANDSHAKE" => s.peer[f] = None
    /\ s.peer[f] # None => /\ s.peer[s.peer[f]] = f
                           /\ (s.node[f] = None) # (s.node[s.peer[f]] = None)
    /\ s.owner[f] = IF s.node[f] = None THEN None ELSE s.peer[f]
    /\ s.node[f] # None => s.peer[f] # None
    /\ f \in s.errors => s.conn[f] # "none" /\ s.peer[f] = None /\ s.node[f] = None

\* A descriptor is in connections_ or in one idle list.
Owned(s) ==
  /\ \A f \in Fd, a \in Addr : s.conn[f] # "none" => f \notin s.idle[a]
  /\ \A a, b \in Addr : a # b => s.idle[a] \cap s.idle[b] = {}

Counted(s) ==
  /\ alive \subseteq Node
  /\ \A n \in alive : s.active[n] = Cardinality(Serving(s, n))

Good(s) == Pairing(s) /\ Owned(s) /\ Counted(s)

Admitted(s) == Clients(s) \ s.errors

-----------------------------------------------------------------------------
(* Arithmetic and sets *)

(* A node serves finitely many sockets, so they can be counted.            *)
LEMMA ServingFinite ==
  ASSUME NEW s, NEW n
  PROVE  IsFiniteSet(Serving(s, n)) /\ Cardinality(Serving(s, n)) \in Nat
<1>1. IsFiniteSet(Fd)
  BY ConstantsAssumption
<1>2. Serving(s, n) \subseteq Fd
  BY DEF Serving
<1> QED
  BY <1>1, <1>2, FS_Subset, FS_CardinalityType

\* Taking one element out of a counted set, with the guard of
\* decrement_connections: the guard never bites.
LEMMA CountDown ==
  ASSUME NEW s, NEW n, NEW x,
         NEW k, k = Cardinality(Serving(s, n))
  PROVE  Cardinality(Serving(s, n) \ {x}) =
           IF x \in Serving(s, n) /\ k > 0 THEN k - 1 ELSE k
<1>1. IsFiniteSet(Serving(s, n)) /\ k \in Nat
  BY ServingFinite
<1>2. CASE x \in Serving(s, n)
  <2>1. Cardinality(Serving(s, n) \ {x}) = k - 1
    BY <1>1, <1>2, FS_RemoveElement
  <2>2. k # 0
    BY <1>1, <1>2, FS_EmptySet
  <2> QED
    BY <1>1, <1>2, <2>1, <2>2
<1>3. CASE x \notin Serving(s, n)
  <2>1. Serving(s, n) \ {x} = Serving(s, n)
    BY <1>3
  <2> QED
    BY <1>3, <2>1
<1> QED
  BY <1>2, <1>3

-----------------------------------------------------------------------------
(* What each operation leaves in the tables *)

Paired(s, t, c, b, n, st) ==
  /\ t \in Snapshot /\ t.errors = s.errors /\ t.idle = s.idle
  /\ \A x \in Fd :
       /\ t.conn[x] = IF x = b THEN st ELSE IF x = c THEN "ESTABLISHED" ELSE s.conn[x]
       /\ t.peer[x] = IF x = b THEN c ELSE IF x = c THEN b ELSE s.peer[x]
       /\ t.node[x] = IF x = b THEN n ELSE s.node[x]
       /\ t.owner[x] = IF x = b THEN c ELSE s.owner[x]
  /\ \A m \in Node : t.active[m] = IF m = n /\ st = "ESTABLISHED"
                                     THEN s.active[m] + 1 ELSE s.active[m]

PairClosed(s, t, f) ==
  /\ t \in Snapshot /\ t.errors = s.errors \ {f, s.peer[f]} /\ t.idle = s.idle
  /\ \A x \in Fd :
       /\ t.conn[x] = IF x \in {f, s.peer[f]} THEN "none" ELSE s.conn[x]
       /\ t.peer[x] = IF x \in {f, s.peer[f]} THEN None ELSE s.peer[x]
       /\ t.node[x] = IF x \in {f, s.peer[f]} THEN None ELSE s.node[x]
       /\ t.owner[x] = IF x \in {f, s.peer[f]} \/ s.owner[x] = f
                         THEN None ELSE s.owner[x]
  /\ t.active = Uncount(s, f, IF s.peer[f] = None THEN s.active
                              ELSE Uncount(s, s.peer[f], s.active))

BackendClosed(s, t, f) ==
  /\ t \in Snapshot /\ t.errors = s.errors /\ t.idle = s.idle
  /\ \A x \in Fd :
       /\ t.conn[x] = IF x = f THEN "none" ELSE s.conn[x]
       /\ t.peer[x] = IF x \in {f, s.peer[f]} THEN None ELSE s.peer[x]
       /\ t.node[x] = IF x = f THEN None ELSE s.node[x]
       /\ t.owner[x] = IF x = f THEN None ELSE s.owner[x]
  /\ t.active = Uncount(s, f, s.active)

(* What pairing a client with a backend socket does to each table.         *)
LEMMA PairFields ==
  ASSUME NEW s \in Snapshot, NEW c \in Fd, NEW b \in Fd, NEW n \in Node,
         NEW st \in {"CONNECTING", "ESTABLISHED"}, NEW r \in 0 .. MaxRetry,
         NEW t, t = Pair(s, c, b, n, st, r)
  PROVE  Paired(s, t, c, b, n, st)
<1> DEFINE up == IF st = "ESTABLISHED" THEN 1 ELSE 0
           cc == [s.conn EXCEPT ![c] = "ESTABLISHED", ![b] = st]
           pp == [s.peer EXCEPT ![c] = b, ![b] = c]
           nn == [s.node EXCEPT ![b] = n]
           oo == [s.owner EXCEPT ![b] = c]
           rr == [s.retries EXCEPT ![c] = r]
           aa == [s.active EXCEPT ![n] = s.active[n] + up]
<1>1. cc \in [Fd -> ConnectionState]
  BY DEF Snapshot, ConnectionState
<1>2. /\ pp \in [Fd -> Fd \cup {None}] /\ nn \in [Fd -> Node \cup {None}]
      /\ oo \in [Fd -> Fd \cup {None}]
  BY DEF Snapshot
<1>3. rr \in [Fd -> (0 .. MaxRetry) \cup {None}]
  BY DEF Snapshot
<1>4. aa \in [Node -> Nat]
  BY DEF Snapshot
<1>6. t = [s EXCEPT !.conn = cc, !.peer = pp, !.node = nn, !.owner = oo,
                    !.retries = rr, !.active = aa]
  BY DEF Pair
<1> HIDE DEF cc, pp, nn, oo, rr, aa
<1>7. t \in Snapshot
  BY <1>1, <1>2, <1>3, <1>4, <1>6, ZenonT(30) DEF Snapshot
<1>8. /\ t.conn = cc /\ t.peer = pp /\ t.node = nn /\ t.owner = oo
      /\ t.errors = s.errors /\ t.idle = s.idle /\ t.active = aa
  BY <1>6 DEF Snapshot
<1> QED
  BY <1>7, <1>8 DEF Paired, cc, pp, nn, oo, aa, Snapshot

(* What close_connection does to each table.                               *)
LEMMA ClosePairFields ==
  ASSUME NEW s \in Snapshot, NEW f \in Fd, NEW t, t = ClosePair(s, f)
  PROVE  PairClosed(s, t, f)
<1> DEFINE gone == {f, s.peer[f]} \ {None}
           cc == Wipe(s.conn, gone, "none")
           pp == Wipe(s.peer, gone, None)
           nn == Wipe(s.node, gone, None)
           oo == Wipe(s.owner, gone \cup {x \in Fd : s.owner[x] = f}, None)
           rr == Wipe(s.retries, gone, None)
           aa == Uncount(s, f, IF s.peer[f] = None THEN s.active
                               ELSE Uncount(s, s.peer[f], s.active))
           tt == s.tracked \ gone
           ee == s.errors \ gone
<1>1. cc \in [Fd -> ConnectionState]
  BY DEF Wipe, Snapshot, ConnectionState
<1>2. /\ pp \in [Fd -> Fd \cup {None}] /\ nn \in [Fd -> Node \cup {None}]
      /\ oo \in [Fd -> Fd \cup {None}]
  BY DEF Wipe, Snapshot
<1>3. rr \in [Fd -> (0 .. MaxRetry) \cup {None}]
  BY DEF Wipe, Snapshot
<1>4. aa \in [Node -> Nat]
  <2>1. s.active \in [Node -> Nat]
    BY DEF Snapshot
  <2>2. Uncount(s, s.peer[f], s.active) \in [Node -> Nat]
    BY <2>1 DEF Uncount
  <2> QED
    BY <2>1, <2>2 DEF Uncount
<1>6. t = [s EXCEPT !.conn = cc, !.peer = pp, !.node = nn, !.owner = oo,
                    !.retries = rr, !.tracked = tt,
                    !.errors = ee, !.active = aa]
  BY DEF ClosePair
<1>0. tt \in SUBSET Fd /\ ee \in SUBSET Fd
  BY DEF Snapshot
<1> HIDE DEF cc, pp, nn, oo, rr, tt, ee, aa
<1>7. t \in Snapshot
  BY <1>0, <1>1, <1>2, <1>3, <1>4, <1>6, ZenonT(30) DEF Snapshot
<1>8. /\ t.conn = cc /\ t.peer = pp /\ t.node = nn /\ t.owner = oo
      /\ t.errors = ee /\ t.idle = s.idle /\ t.active = aa
  BY <1>6 DEF Snapshot
<1> QED
  BY <1>7, <1>8, ConstantsAssumption DEF PairClosed, cc, pp, nn, oo, ee, aa, Wipe, Snapshot

(* What close_backend_connection_only does to each table.                  *)
LEMMA CloseBackendOnlyFields ==
  ASSUME NEW s \in Snapshot, NEW f \in Fd, NEW t, t = CloseBackendOnly(s, f)
  PROVE  BackendClosed(s, t, f)
<1> DEFINE cc == Wipe(s.conn, {f}, "none")
           pp == Wipe(s.peer, {f, s.peer[f]}, None)
           nn == Wipe(s.node, {f}, None)
           oo == Wipe(s.owner, {f}, None)
           tt == s.tracked \ {f}
           aa == Uncount(s, f, s.active)
<1>1. cc \in [Fd -> ConnectionState]
  BY DEF Wipe, Snapshot, ConnectionState
<1>2. /\ pp \in [Fd -> Fd \cup {None}] /\ nn \in [Fd -> Node \cup {None}]
      /\ oo \in [Fd -> Fd \cup {None}]
  BY DEF Wipe, Snapshot
<1>3. aa \in [Node -> Nat]
  BY DEF Uncount, Snapshot
<1>4. t = [s EXCEPT !.conn = cc, !.peer = pp, !.node = nn, !.owner = oo,
                    !.tracked = tt, !.active = aa]
  BY DEF CloseBackendOnly
<1>0. tt \in SUBSET Fd
  BY DEF Snapshot
<1> HIDE DEF cc, pp, nn, oo, tt, aa
<1>5. t \in Snapshot
  BY <1>0, <1>1, <1>2, <1>3, <1>4, ZenonT(30) DEF Snapshot
<1>6. /\ t.conn = cc /\ t.peer = pp /\ t.node = nn /\ t.owner = oo
      /\ t.errors = s.errors /\ t.idle = s.idle /\ t.active = aa
  BY <1>4 DEF Snapshot
<1> QED
  BY <1>5, <1>6 DEF BackendClosed, cc, pp, nn, oo, aa, Wipe, Snapshot

-----------------------------------------------------------------------------
(* The operations preserve Good *)

\* A client and a free descriptor become a pair: connect's tail.
LEMMA PairGood ==
  ASSUME NEW s \in Snapshot, Good(s), NEW c \in Fd, NEW b \in Fd,
         NEW n \in Node, NEW st \in {"CONNECTING", "ESTABLISHED"},
         NEW r \in 0 .. MaxRetry, c # b,
         s.conn[c] = "none", s.conn[b] = "none",
         c \notin Idle(s), b \notin Idle(s),
         NEW t, t = Pair(s, c, b, n, st, r)
  PROVE  t \in Snapshot /\ Good(t) /\ Admitted(t) \subseteq Admitted(s) \cup {c}
<1>1. Paired(s, t, c, b, n, st)
  BY PairFields
<1>2. /\ s.conn \in [Fd -> ConnectionState] /\ s.peer \in [Fd -> Fd \cup {None}]
      /\ s.node \in [Fd -> Node \cup {None}] /\ s.owner \in [Fd -> Fd \cup {None}]
  BY DEF Snapshot
<1>3. None \notin Fd /\ None \notin Node
  BY ConstantsAssumption
<1>4. Pairing(t)
  BY <1>1, <1>2, <1>3 DEF Paired, Pairing, Good
<1>5. Owned(t)
  BY <1>1, <1>2 DEF Paired, Owned, Good, Idle
<1>6. Counted(t)
  <2> SUFFICES ASSUME NEW m \in alive
               PROVE  t.active[m] = Cardinality(Serving(t, m))
    BY DEF Counted, Good
  <2>1. m \in Node /\ s.active[m] = Cardinality(Serving(s, m))
    BY DEF Good, Counted
  <2>2. CASE m = n /\ st = "ESTABLISHED"
    <3>1. Serving(t, m) = Serving(s, m) \cup {b} /\ b \notin Serving(s, m)
      BY <1>1, <1>2, <1>3, <2>1, <2>2 DEF Paired, Serving, Good, Pairing
    <3>2. Cardinality(Serving(t, m)) = Cardinality(Serving(s, m)) + 1
      BY <3>1, ServingFinite, FS_AddElement, ZenonT(30)
    <3>3. t.active[m] = s.active[m] + 1
      BY <1>1, <2>1, <2>2 DEF Paired
    <3> QED
      BY <3>1, <3>2, <3>3, <2>1
  <2>3. CASE ~(m = n /\ st = "ESTABLISHED")
    <3>1. Serving(t, m) = Serving(s, m)
      BY <1>1, <1>2, <1>3, <2>1, <2>3 DEF Paired, Serving, Good, Pairing
    <3> QED
      BY <3>1, <2>1, <2>3, <1>1 DEF Paired
  <2> QED
    BY <2>2, <2>3
<1>7. Admitted(t) \subseteq Admitted(s) \cup {c}
  BY <1>1, <1>2, <1>3 DEF Paired, Admitted, Clients, Open
<1> QED
  BY <1>1, <1>4, <1>5, <1>6, <1>7 DEF Paired, Good

\* The closed pair leaves every table, and its node is uncounted.
LEMMA ClosePairGood ==
  ASSUME NEW s \in Snapshot, Good(s), NEW f \in Fd, s.conn[f] # "none",
         NEW t, t = ClosePair(s, f)
  PROVE  /\ t \in Snapshot /\ Good(t) /\ Admitted(t) \subseteq Admitted(s)
         /\ t.idle = s.idle
         /\ t.conn[f] = "none" /\ (s.peer[f] # None => t.conn[s.peer[f]] = "none")
<1>1. PairClosed(s, t, f)
  BY ClosePairFields
<1>2. /\ s.conn \in [Fd -> ConnectionState] /\ s.peer \in [Fd -> Fd \cup {None}]
      /\ s.node \in [Fd -> Node \cup {None}] /\ s.owner \in [Fd -> Fd \cup {None}]
      /\ s.active \in [Node -> Nat]
  BY DEF Snapshot
<1>3. None \notin Fd /\ None \notin Node
  BY ConstantsAssumption
<1>4. Pairing(t)
  BY <1>1, <1>2, <1>3 DEF PairClosed, Pairing, Good
<1>5. Owned(t)
  BY <1>1, <1>2 DEF PairClosed, Owned, Good
<1>6. Counted(t)
  <2> SUFFICES ASSUME NEW m \in alive
               PROVE  t.active[m] = Cardinality(Serving(t, m))
    BY DEF Counted, Good
  <2>1. m \in Node /\ s.active[m] = Cardinality(Serving(s, m))
    BY DEF Good, Counted
  <2> DEFINE p == s.peer[f]
             x == IF p # None /\ s.conn[p] = "ESTABLISHED" /\ s.node[p] = m
                    THEN p ELSE f
  <2>2. /\ p # None => p \in Fd
        /\ p # None => ~(s.node[f] = m /\ s.node[p] = m)
        /\ x \in Fd
    BY <1>2, <1>3, <2>1 DEF Good, Pairing
  <2>3. t.active[m] = IF x \in Serving(s, m) /\ s.active[m] > 0
                        THEN s.active[m] - 1 ELSE s.active[m]
    <3> DEFINE rest == IF p = None THEN s.active ELSE Uncount(s, p, s.active)
    <3>1. rest[m] = IF p # None /\ p \in Serving(s, m) /\ s.active[m] > 0
                      THEN s.active[m] - 1 ELSE s.active[m]
      BY <1>2, <2>1, <2>2 DEF Uncount, Serving
    <3>2. t.active = Uncount(s, f, rest)
      BY <1>1 DEF PairClosed
    <3> HIDE DEF rest
    <3>3. t.active[m] = IF f \in Serving(s, m) /\ rest[m] > 0
                          THEN rest[m] - 1 ELSE rest[m]
      BY <3>2, <2>1 DEF Uncount, Serving
    <3> QED
      BY <3>1, <3>3, <2>2 DEF Serving
  <2>4. Serving(t, m) = Serving(s, m) \ {x}
    BY <1>1, <1>2, <1>3, <2>1, <2>2 DEF PairClosed, Serving
  <2> QED
    BY <2>1, <2>3, <2>4, CountDown
<1>7. Admitted(t) \subseteq Admitted(s)
  BY <1>1, <1>2 DEF PairClosed, Admitted, Clients, Open
<1> QED
  BY <1>1, <1>2, <1>4, <1>5, <1>6, <1>7 DEF PairClosed, Good

\* close_backend_connection_only: the client is left without a peer.
LEMMA CloseBackendOnlyGood ==
  ASSUME NEW s \in Snapshot, Good(s), NEW f \in Fd, s.node[f] # None,
         NEW t, t = CloseBackendOnly(s, f)
  PROVE  /\ t \in Snapshot /\ Good(t) /\ Admitted(t) \subseteq Admitted(s)
         /\ s.peer[f] \in Fd /\ s.owner[f] = s.peer[f]
         /\ t.peer[s.peer[f]] = None /\ t.node[s.peer[f]] = None
         /\ s.peer[f] \notin t.errors /\ t.idle = s.idle
         /\ t.conn[s.peer[f]] = s.conn[s.peer[f]] /\ s.peer[f] \in Admitted(s)
<1>1. BackendClosed(s, t, f)
  BY CloseBackendOnlyFields
<1>2. /\ s.conn \in [Fd -> ConnectionState] /\ s.peer \in [Fd -> Fd \cup {None}]
      /\ s.node \in [Fd -> Node \cup {None}] /\ s.owner \in [Fd -> Fd \cup {None}]
      /\ s.active \in [Node -> Nat]
  BY DEF Snapshot
<1>3. None \notin Fd /\ None \notin Node
  BY ConstantsAssumption
<1>4. Pairing(t)
  BY <1>1, <1>2, <1>3 DEF BackendClosed, Pairing, Good
<1>5. Owned(t)
  BY <1>1, <1>2 DEF BackendClosed, Owned, Good
<1>6. Counted(t)
  <2> SUFFICES ASSUME NEW m \in alive
               PROVE  t.active[m] = Cardinality(Serving(t, m))
    BY DEF Counted, Good
  <2>1. m \in Node /\ s.active[m] = Cardinality(Serving(s, m))
    BY DEF Good, Counted
  <2>2. t.active[m] = IF f \in Serving(s, m) /\ s.active[m] > 0
                        THEN s.active[m] - 1 ELSE s.active[m]
    BY <1>1, <1>2, <2>1 DEF BackendClosed, Uncount, Serving
  <2>3. Serving(t, m) = Serving(s, m) \ {f}
    BY <1>1, <1>2, <1>3, <2>1 DEF BackendClosed, Serving
  <2> QED
    BY <2>1, <2>2, <2>3, CountDown
<1>7. Admitted(t) \subseteq Admitted(s)
  BY <1>1, <1>2 DEF BackendClosed, Admitted, Clients, Open
<1>8. /\ s.peer[f] \in Fd /\ s.owner[f] = s.peer[f] /\ s.peer[f] # f
      /\ s.node[s.peer[f]] = None /\ s.peer[f] \notin s.errors
      /\ s.conn[s.peer[f]] # "none"
  BY <1>2, <1>3 DEF Good, Pairing
<1>9. s.peer[f] \in Admitted(s)
  BY <1>8 DEF Admitted, Clients, Open
<1> QED
  BY <1>1, <1>2, <1>4, <1>5, <1>6, <1>7, <1>8, <1>9 DEF BackendClosed, Good

\* close_connection, with or without a pool to give the socket to.
LEMMA CloseConnectionGood ==
  ASSUME NEW s \in Snapshot, Good(s), NEW f \in Fd, s.conn[f] # "none",
         NEW t \in CloseConnection(s, f)
  PROVE  t \in Snapshot /\ Good(t) /\ Admitted(t) \subseteq Admitted(s)
<1> DEFINE u == ClosePair(s, f)
           p == s.peer[f]
           a == AddrOf[s.node[p]]
           bb == [u.borrowed EXCEPT ![a] = IF @ > 0 THEN @ - 1 ELSE 0]
           v == [u EXCEPT !.borrowed = bb]
           ii == [v.idle EXCEPT ![a] = @ \cup {p}]
           w == [v EXCEPT !.idle = ii]
<1>1. /\ u \in Snapshot /\ Good(u) /\ Admitted(u) \subseteq Admitted(s)
      /\ u.idle = s.idle /\ (p # None => u.conn[p] = "none")
  BY ClosePairGood
<1>2. /\ s.conn \in [Fd -> ConnectionState] /\ s.peer \in [Fd -> Fd \cup {None}]
      /\ s.node \in [Fd -> Node \cup {None}] /\ s.idle \in [Addr -> SUBSET Fd]
  BY DEF Snapshot
<1>3. None \notin Fd /\ None \notin Node /\ AddrOf \in [Node -> Addr]
  BY ConstantsAssumption
<1>4. CASE t = u
  BY <1>1, <1>4
<1>5. CASE s.node[f] = None /\ p # None /\ t \in {v, w}
  <2>0. s.node[f] = None /\ p # None
    BY <1>5, ZenonT(30)
  <2>1. p \in Fd /\ s.node[p] \in Node /\ s.conn[p] # "none" /\ a \in Addr
    BY <1>2, <1>3, <2>0 DEF Good, Pairing
  <2> HIDE DEF u, p, a
  <2>2. bb \in [Addr -> Nat]
    BY <1>1, <2>1 DEF Snapshot
  <2> HIDE DEF bb
  <2>3. /\ v \in Snapshot /\ v.idle = s.idle
        /\ v.conn = u.conn /\ v.peer = u.peer /\ v.node = u.node
        /\ v.owner = u.owner /\ v.errors = u.errors /\ v.active = u.active
    BY <1>1, <2>2, ZenonT(30) DEF Snapshot
  <2> HIDE DEF v
  <2>4. ii \in [Addr -> SUBSET Fd]
    BY <1>2, <2>1, <2>3
  <2>5. \A b \in Addr : ii[b] = IF b = a THEN s.idle[b] \cup {p} ELSE s.idle[b]
    BY <1>2, <2>1, <2>3, ZenonT(30)
  <2> HIDE DEF ii
  <2>6. /\ w \in Snapshot /\ w.idle = ii
        /\ w.conn = u.conn /\ w.peer = u.peer /\ w.node = u.node
        /\ w.owner = u.owner /\ w.errors = u.errors /\ w.active = u.active
    BY <2>3, <2>4, ZenonT(30) DEF Snapshot
  <2> HIDE DEF w
  <2>7. /\ t \in Snapshot /\ t.conn = u.conn /\ t.peer = u.peer
        /\ t.node = u.node /\ t.owner = u.owner /\ t.errors = u.errors
        /\ t.active = u.active /\ t.idle \in {s.idle, ii}
    BY <1>5, <2>3, <2>6
  <2>8. Pairing(t)
    BY <1>1, <2>7 DEF Good, Pairing
  <2>9. Owned(t)
    <3>1. CASE t.idle = s.idle
      BY <1>1, <2>7, <3>1 DEF Good, Owned
    <3>2. CASE t.idle = ii
      <4>1. \A b \in Addr : p \notin s.idle[b]
        BY <2>1 DEF Good, Owned
      <4>2. \A g \in Fd, b \in Addr : t.conn[g] # "none" => g \notin ii[b]
        <5>1. u.conn[p] = "none" /\ Owned(u)
          BY <1>1, <2>0 DEF Good
        <5> QED
          BY <1>1, <5>1, <2>5, <2>7, ZenonT(30) DEF Owned
      <4>3. \A b, d \in Addr : b # d => ii[b] \cap ii[d] = {}
        BY <2>5, <4>1, ZenonT(30) DEF Good, Owned
      <4> QED
        BY <3>2, <4>2, <4>3 DEF Owned
    <3> QED
      BY <2>7, <3>1, <3>2
  <2>10. Counted(t)
    <3>1. \A m : Serving(t, m) = Serving(u, m)
      BY <2>7 DEF Serving
    <3> QED
      BY <1>1, <2>7, <3>1 DEF Good, Counted
  <2>11. Admitted(t) = Admitted(u)
    BY <2>7 DEF Admitted, Clients, Open
  <2> QED
    BY <1>1, <2>7, <2>8, <2>9, <2>10, <2>11 DEF Good
<1> QED
  BY <1>4, <1>5, ZenonT(30) DEF CloseConnection, PoolRelease

\* Lending a socket: idle lists shrink and nothing else that Good sees moves.
LEMMA LendGood ==
  ASSUME NEW s \in Snapshot, Good(s), NEW a \in Addr,
         NEW keep \in SUBSET s.idle[a], NEW t, t = Lend(s, a, keep)
  PROVE  /\ t \in Snapshot /\ Good(t) /\ Admitted(t) = Admitted(s)
         /\ t.conn = s.conn
         /\ \A b \in Addr : t.idle[b] = IF b = a THEN keep ELSE s.idle[b]
<1> DEFINE bb == [s.borrowed EXCEPT ![a] = s.borrowed[a] + 1]
           ii == [s.idle EXCEPT ![a] = keep]
<1>1. bb \in [Addr -> Nat] /\ ii \in [Addr -> SUBSET Fd]
  BY DEF Snapshot
<1>2. \A b \in Addr : ii[b] = IF b = a THEN keep ELSE s.idle[b]
  BY DEF Snapshot
<1>3. t = [s EXCEPT !.borrowed = bb, !.idle = ii]
  BY DEF Lend
<1> HIDE DEF bb, ii
<1>4. /\ t \in Snapshot /\ t.conn = s.conn /\ t.peer = s.peer
      /\ t.node = s.node /\ t.owner = s.owner /\ t.errors = s.errors
      /\ t.active = s.active /\ t.idle = ii
  BY <1>1, <1>3, ZenonT(30) DEF Snapshot
<1>5. Pairing(t)
  BY <1>4 DEF Good, Pairing
<1>6. Owned(t)
  BY <1>2, <1>4 DEF Good, Owned
<1>7. Counted(t)
  <2>1. \A m : Serving(t, m) = Serving(s, m)
    BY <1>4 DEF Serving
  <2> QED
    BY <1>4, <2>1 DEF Good, Counted
<1>8. Admitted(t) = Admitted(s)
  BY <1>4 DEF Admitted, Clients, Open
<1> QED
  BY <1>2, <1>4, <1>5, <1>6, <1>7, <1>8 DEF Good

\* borrow hands out a socket that is in no other table.
LEMMA BorrowGood ==
  ASSUME NEW s \in Snapshot, Good(s), NEW c \in Fd, NEW n \in Node,
         NEW r \in 0 .. MaxRetry, s.conn[c] = "none", c \notin Idle(s),
         NEW t \in Borrow(s, c, n, r)
  PROVE  t \in Snapshot /\ Good(t) /\ Admitted(t) \subseteq Admitted(s) \cup {c}
<1> DEFINE a == AddrOf[n]
<1>0. \/ \E b \in s.idle[a] : t \in BorrowIdle(s, c, n, r, b)
      \/ \E b \in Free(s) \ {c} :
           t = Pair(Lend(s, a, {}), c, b, n, "ESTABLISHED", r)
  <2>1. t \in BorrowNew(s, c, n, r) =>
          \E b \in Free(s) \ {c} : t = Pair(Lend(s, a, {}), c, b, n, "ESTABLISHED", r)
    BY DEF BorrowNew
  <2> QED
    BY <2>1 DEF Borrow
<1>1. a \in Addr
  BY ConstantsAssumption
<1>2. s.idle \in [Addr -> SUBSET Fd]
  BY DEF Snapshot
<1> SUFFICES ASSUME NEW b \in Fd, NEW keep \in SUBSET s.idle[a],
                    b # c, s.conn[b] = "none", b \notin keep,
                    \A d \in Addr \ {a} : b \notin s.idle[d],
                    t = Pair(Lend(s, a, keep), c, b, n, "ESTABLISHED", r)
             PROVE  /\ t \in Snapshot /\ Good(t)
                    /\ Admitted(t) \subseteq Admitted(s) \cup {c}
  <2>1. ASSUME NEW b \in s.idle[a], t \in BorrowIdle(s, c, n, r, b)
        PROVE  t \in Snapshot /\ Good(t) /\ Admitted(t) \subseteq Admitted(s) \cup {c}
    <3>1. PICK keep \in SUBSET (s.idle[a] \ {b}) :
            t = Pair(Lend(s, a, keep), c, b, n, "ESTABLISHED", r)
      BY <2>1 DEF BorrowIdle
    <3>2. b \in Fd /\ b # c
      BY <1>1, <1>2 DEF Idle
    <3>3. s.conn[b] = "none" /\ \A d \in Addr \ {a} : b \notin s.idle[d]
      BY <1>1, <3>2 DEF Good, Owned
    <3> QED
      BY <3>1, <3>2, <3>3
  <2>2. ASSUME NEW b \in Free(s) \ {c},
               t = Pair(Lend(s, a, {}), c, b, n, "ESTABLISHED", r)
        PROVE  t \in Snapshot /\ Good(t) /\ Admitted(t) \subseteq Admitted(s) \cup {c}
    <3>1. b \in Fd /\ s.conn[b] = "none" /\ \A d \in Addr : b \notin s.idle[d]
      BY DEF Free, Open, Idle
    <3> QED
      BY <2>2, <3>1
  <2>4. CASE \E b \in s.idle[a] : t \in BorrowIdle(s, c, n, r, b)
    BY <2>1, <2>4
  <2>5. CASE \E b \in Free(s) \ {c} :
               t = Pair(Lend(s, a, {}), c, b, n, "ESTABLISHED", r)
    BY <2>2, <2>5
  <2> QED
    BY <1>0, <2>4, <2>5
<1> DEFINE u == Lend(s, a, keep)
<1>3. /\ u \in Snapshot /\ Good(u) /\ Admitted(u) = Admitted(s)
      /\ u.conn = s.conn
      /\ \A d \in Addr : u.idle[d] = IF d = a THEN keep ELSE s.idle[d]
  BY <1>1, LendGood
<1> HIDE DEF u
<1>4. c \notin Idle(u) /\ b \notin Idle(u)
  BY <1>1, <1>2, <1>3 DEF Idle
<1>5. t = Pair(u, c, b, n, "ESTABLISHED", r)
  BY DEF u
<1> QED
  BY <1>3, <1>4, <1>5, PairGood

\* One attempt, pooled or direct.
LEMMA AttemptGood ==
  ASSUME NEW s \in Snapshot, Good(s), NEW c \in Fd, NEW n \in Node,
         NEW r \in 0 .. MaxRetry, s.conn[c] = "none", c \notin Idle(s),
         NEW t \in Attempt(s, c, n, r)
  PROVE  t \in Snapshot /\ Good(t) /\ Admitted(t) \subseteq Admitted(s) \cup {c}
<1>1. CASE t \in Borrow(s, c, n, r)
  BY <1>1, BorrowGood
<1>2. CASE \E b \in Free(s) \ {c}, st \in {"CONNECTING", "ESTABLISHED"} :
             t = Pair(s, c, b, n, st, r)
  <2>1. PICK b \in Free(s) \ {c}, st \in {"CONNECTING", "ESTABLISHED"} :
               t = Pair(s, c, b, n, st, r)
    BY <1>2
  <2>2. b \in Fd /\ b # c /\ s.conn[b] = "none" /\ b \notin Idle(s)
    BY DEF Free, Open
  <2> QED
    BY <2>1, <2>2, PairGood
<1> QED
  BY <1>1, <1>2 DEF Attempt

\* connect: a pair at some node, or the client dropped.
LEMMA ConnectGood ==
  ASSUME NEW s \in Snapshot, Good(s), backends \subseteq Node, NEW c \in Fd,
         NEW r \in 0 .. MaxRetry, s.conn[c] = "none", c \notin Idle(s),
         NEW t \in Connect(s, c, r)
  PROVE  t \in Snapshot /\ Good(t) /\ Admitted(t) \subseteq Admitted(s) \cup {c}
<1>1. CASE t = s
  BY <1>1
<1>2. CASE \E n \in Eligible(s), k \in r .. MaxRetry : t \in Attempt(s, c, n, k)
  <2>1. PICK n \in Eligible(s), k \in r .. MaxRetry : t \in Attempt(s, c, n, k)
    BY <1>2
  <2>2. n \in Node
    BY DEF Eligible
  <2>3. k \in 0 .. MaxRetry
    BY ConstantsAssumption
  <2> QED
    BY <2>1, <2>2, <2>3, AttemptGood
<1> QED
  BY <1>1, <1>2 DEF Connect

(* RetryHandler::retry keeps the tables good.                              *)
LEMMA RetryGood ==
  ASSUME NEW s \in Snapshot, Good(s), backends \subseteq Node, NEW c \in Fd,
         NEW r \in 0 .. MaxRetry, s.conn[c] = "none", c \notin Idle(s),
         NEW t \in Retry(s, c, r)
  PROVE  t \in Snapshot /\ Good(t) /\ Admitted(t) \subseteq Admitted(s) \cup {c}
<1>1. CASE r >= MaxRetry
  BY <1>1 DEF Retry
<1>2. CASE ~(r >= MaxRetry)
  <2>1. r + 1 \in 0 .. MaxRetry /\ t \in Connect(s, c, r + 1)
    BY <1>2, ConstantsAssumption DEF Retry
  <2> QED
    BY <2>1, ConnectGood
<1> QED
  BY <1>1, <1>2

\* The client is out of connections_ while connect looks for a backend.
LEMMA TakeOutGood ==
  ASSUME NEW s \in Snapshot, Good(s), NEW c \in Fd, s.conn[c] # "none",
         s.peer[c] = None, s.node[c] = None, c \notin s.errors,
         NEW t, t = TakeOut(s, c)
  PROVE  /\ t \in Snapshot /\ Good(t) /\ Admitted(t) \subseteq Admitted(s)
         /\ t.conn[c] = "none" /\ c \notin Idle(t) /\ t.retries = s.retries
<1> DEFINE cc == [s.conn EXCEPT ![c] = "none"]
<1>1. cc \in [Fd -> ConnectionState]
  BY DEF Snapshot, ConnectionState
<1>2. \A x \in Fd : cc[x] = IF x = c THEN "none" ELSE s.conn[x]
  BY DEF Snapshot
<1>3. t = [s EXCEPT !.conn = cc]
  BY DEF TakeOut
<1> HIDE DEF cc
<1>4. /\ t \in Snapshot /\ t.conn = cc /\ t.peer = s.peer
      /\ t.node = s.node /\ t.owner = s.owner /\ t.errors = s.errors
      /\ t.active = s.active /\ t.idle = s.idle /\ t.retries = s.retries
  BY <1>1, <1>3, SMTT(30) DEF Snapshot
<1>5. Pairing(t)
  BY <1>2, <1>4 DEF Good, Pairing
<1>6. Owned(t)
  BY <1>2, <1>4 DEF Good, Owned
<1>7. Counted(t)
  <2>1. \A m \in Node : Serving(t, m) = Serving(s, m)
    BY <1>2, <1>4, ConstantsAssumption DEF Serving
  <2> QED
    BY <1>4, <2>1 DEF Good, Counted
<1>8. Admitted(t) \subseteq Admitted(s)
  BY <1>2, <1>4 DEF Admitted, Clients, Open
<1>9. c \notin Idle(t)
  BY <1>4 DEF Good, Owned, Idle
<1> QED
  BY <1>2, <1>4, <1>5, <1>6, <1>7, <1>8, <1>9 DEF Good

\* try_retry_on_backend_error moves the client to another backend.
LEMMA RetryOrCloseGood ==
  ASSUME NEW s \in Snapshot, Good(s), backends \subseteq Node, NEW b \in Fd,
         s.node[b] # None, NEW t \in RetryOrClose(s, b)
  PROVE  t \in Snapshot /\ Good(t) /\ Admitted(t) \subseteq Admitted(s)
<1> DEFINE c == s.owner[b]
           r == IF s.retries[c] = None THEN 0 ELSE s.retries[c]
           u == CloseBackendOnly(s, b)
           v == TakeOut(u, c)
<1>1. CASE t \in CloseConnection(s, b)
  <2>1. s.conn[b] # "none"
    BY DEF Good, Pairing
  <2> QED
    BY <1>1, <2>1, CloseConnectionGood
<1>2. CASE t \in Retry(v, c, r) /\ c \in Open(s)
  <2>1. /\ u \in Snapshot /\ Good(u) /\ Admitted(u) \subseteq Admitted(s)
        /\ c \in Fd /\ u.peer[c] = None /\ u.node[c] = None
        /\ c \notin u.errors /\ u.conn[c] = s.conn[c] /\ c \in Admitted(s)
    BY CloseBackendOnlyGood, SMTT(30)
  <2>2. u.conn[c] # "none" /\ r \in 0 .. MaxRetry
    BY <1>2, <2>1, ConstantsAssumption DEF Open, Snapshot
  <2> HIDE DEF u, c, r
  <2>3. /\ v \in Snapshot /\ Good(v) /\ Admitted(v) \subseteq Admitted(u)
        /\ v.conn[c] = "none" /\ c \notin Idle(v)
    BY <2>1, <2>2, TakeOutGood
  <2> HIDE DEF v
  <2>4. t \in Snapshot /\ Good(t) /\ Admitted(t) \subseteq Admitted(v) \cup {c}
    BY <1>2, <2>1, <2>2, <2>3, RetryGood
  <2> QED
    BY <2>1, <2>3, <2>4, SMTT(30)
<1> QED
  BY <1>1, <1>2 DEF RetryOrClose

(* Backpressure tracking keeps the tables good.                            *)
LEMMA TouchGood ==
  ASSUME NEW s \in Snapshot, Good(s), NEW f \in Fd, NEW t \in Touch(s, f)
  PROVE  t \in Snapshot /\ Good(t) /\ Admitted(t) = Admitted(s)
<1> DEFINE pair == {x \in {f, s.peer[f]} \ {None} : s.conn[x] = "ESTABLISHED"}
<1>1. PICK T \in SUBSET pair : t = [s EXCEPT !.tracked = (s.tracked \ pair) \cup T]
  BY DEF Touch
<1> DEFINE tt == (s.tracked \ pair) \cup T
<1>2. tt \in SUBSET Fd
  BY DEF Snapshot
<1> HIDE DEF pair, tt
<1>3. /\ t \in Snapshot /\ t.conn = s.conn /\ t.peer = s.peer
      /\ t.node = s.node /\ t.owner = s.owner /\ t.errors = s.errors
      /\ t.active = s.active /\ t.idle = s.idle
  BY <1>1, <1>2, SMTT(30) DEF Snapshot, tt
<1>4. Pairing(t) /\ Owned(t)
  BY <1>3 DEF Good, Pairing, Owned
<1>5. Counted(t)
  <2>1. \A m : Serving(t, m) = Serving(s, m)
    BY <1>3 DEF Serving
  <2> QED
    BY <1>3, <2>1 DEF Good, Counted
<1>6. Admitted(t) = Admitted(s)
  BY <1>3 DEF Admitted, Clients, Open
<1> QED
  BY <1>3, <1>4, <1>5, <1>6 DEF Good

\* The connect of b completes, and b is counted.
LEMMA EstablishGood ==
  ASSUME NEW s \in Snapshot, Good(s), NEW b \in Fd, s.node[b] # None,
         s.conn[b] = "CONNECTING", NEW t \in Establish(s, b)
  PROVE  t \in Snapshot /\ Good(t) /\ Admitted(t) \subseteq Admitted(s)
<1> DEFINE n == s.node[b]
           up == IF n \in alive THEN 1 ELSE 0
           cc == [s.conn EXCEPT ![b] = "ESTABLISHED"]
           aa == [s.active EXCEPT ![n] = s.active[n] + up]
           u == [s EXCEPT !.conn = cc, !.active = aa]
<1>1. t \in Touch(u, b) \/ t = CloseBackendOnly(u, b) \/ t \in CloseConnection(u, b)
  BY DEF Establish
<1>2. n \in Node
  BY DEF Snapshot
<1>3. cc \in [Fd -> ConnectionState] /\ aa \in [Node -> Nat]
  BY <1>2 DEF Snapshot, ConnectionState
<1>4. \A x \in Fd : cc[x] = IF x = b THEN "ESTABLISHED" ELSE s.conn[x]
  BY DEF Snapshot
<1>5. \A m \in Node : aa[m] = IF m = n THEN s.active[m] + up ELSE s.active[m]
  BY <1>2 DEF Snapshot
<1> HIDE DEF cc, aa
<1>7. /\ u \in Snapshot /\ u.conn = cc /\ u.peer = s.peer
      /\ u.node = s.node /\ u.owner = s.owner /\ u.errors = s.errors
      /\ u.active = aa /\ u.idle = s.idle
  BY <1>3, ZenonT(30) DEF Snapshot
<1> HIDE DEF u
<1>8. Pairing(u)
  BY <1>4, <1>7 DEF Good, Pairing
<1>9. Owned(u)
  BY <1>4, <1>7 DEF Good, Owned
<1>10. Counted(u)
  <2> SUFFICES ASSUME NEW m \in alive
               PROVE  u.active[m] = Cardinality(Serving(u, m))
    BY DEF Counted, Good
  <2>1. m \in Node /\ s.active[m] = Cardinality(Serving(s, m))
    BY DEF Good, Counted
  <2>2. CASE m = n
    <3>1. Serving(u, m) = Serving(s, m) \cup {b} /\ b \notin Serving(s, m)
      BY <1>4, <1>7, <2>2 DEF Serving
    <3>2. Cardinality(Serving(u, m)) = Cardinality(Serving(s, m)) + 1
      BY <3>1, ServingFinite, FS_AddElement, ZenonT(30)
    <3>3. u.active[m] = s.active[m] + 1
      BY <1>5, <1>7, <2>1, <2>2
    <3> QED
      BY <3>2, <3>3, <2>1
  <2>3. CASE m # n
    <3>1. Serving(u, m) = Serving(s, m)
      BY <1>4, <1>7, <2>3 DEF Serving
    <3> QED
      BY <1>5, <1>7, <2>1, <2>3, <3>1
  <2> QED
    BY <2>2, <2>3
<1>11. Good(u)
  BY <1>8, <1>9, <1>10 DEF Good
<1>12. Admitted(u) \subseteq Admitted(s)
  BY <1>4, <1>7 DEF Admitted, Clients, Open
<1>13. u.node[b] # None /\ u.conn[b] # "none"
  BY <1>4, <1>7, SMTT(30)
<1>14. t \in Snapshot /\ Good(t) /\ Admitted(t) \subseteq Admitted(u)
  BY <1>1, <1>7, <1>11, <1>13, TouchGood, CloseBackendOnlyGood, CloseConnectionGood
<1> QED
  BY <1>12, <1>14

\* A new entry without a peer: a TLS handshake, or an error on its way out.
LEMMA InsertGood ==
  ASSUME NEW s \in Snapshot, Good(s), NEW c \in Free(s),
         NEW st \in {"HANDSHAKE", "ESTABLISHED"}, NEW E \in SUBSET {c},
         NEW t, t = Insert(s, c, st, E)
  PROVE  /\ t \in Snapshot /\ Good(t) /\ Admitted(t) \subseteq Admitted(s) \cup {c}
         /\ E = {c} => Admitted(t) \subseteq Admitted(s)
<1> DEFINE cc == [s.conn EXCEPT ![c] = st]
           ee == s.errors \cup E
<1>1. c \in Fd /\ s.conn[c] = "none" /\ \A a \in Addr : c \notin s.idle[a]
  BY DEF Free, Open, Idle
<1>2. cc \in [Fd -> ConnectionState] /\ ee \in SUBSET Fd
  BY <1>1 DEF Snapshot, ConnectionState
<1>3. \A x \in Fd : cc[x] = IF x = c THEN st ELSE s.conn[x]
  BY DEF Snapshot
<1>4. t = [s EXCEPT !.conn = cc, !.errors = ee]
  BY DEF Insert
<1> HIDE DEF cc, ee
<1>5. /\ t \in Snapshot /\ t.conn = cc /\ t.peer = s.peer
      /\ t.node = s.node /\ t.owner = s.owner /\ t.errors = ee
      /\ t.active = s.active /\ t.idle = s.idle
  BY <1>2, <1>4, ZenonT(30) DEF Snapshot
<1>6. Pairing(t)
  BY <1>1, <1>3, <1>5 DEF Good, Pairing, ee
<1>7. Owned(t)
  BY <1>1, <1>3, <1>5 DEF Good, Owned
<1>8. Counted(t)
  <2>1. s.node[c] = None
    BY <1>1 DEF Good, Pairing
  <2>2. \A m \in Node : Serving(t, m) = Serving(s, m)
    BY <1>1, <1>3, <1>5, <2>1, ConstantsAssumption DEF Serving
  <2> QED
    BY <1>5, <2>2 DEF Good, Counted
<1>9. /\ Admitted(t) \subseteq Admitted(s) \cup {c}
      /\ E = {c} => Admitted(t) \subseteq Admitted(s)
  BY <1>3, <1>5 DEF Admitted, Clients, Open, ee
<1> QED
  BY <1>5, <1>6, <1>7, <1>8, <1>9 DEF Good

-----------------------------------------------------------------------------
(* From operations to steps *)

\* The inductive invariant.
IInv == TypeOK /\ Good(Now) /\ GlobalLimit

(* The tables read back from their snapshot.                               *)
LEMMA NowFields ==
  ASSUME TypeOK
  PROVE  /\ Now \in Snapshot /\ alive \subseteq Node /\ backends \subseteq Node
         /\ Now.conn = conn /\ Now.peer = peer /\ Now.node = node
         /\ Now.owner = owner /\ Now.errors = errors /\ Now.active = active
         /\ Now.idle = idle /\ Now.retries = retries
BY DEF TypeOK, Now, Snapshot

\* A step that leaves the tables of pairs, or of owners, as they are.
LEMMA SamePairing ==
  ASSUME Pairing(Now), conn' = conn, peer' = peer, node' = node,
         owner' = owner, errors' = errors
  PROVE  Pairing(Now)'
BY ZenonT(30) DEF Pairing, Now

LEMMA SameOwned ==
  ASSUME Owned(Now), conn' = conn, idle' = idle
  PROVE  Owned(Now)'
BY ZenonT(30) DEF Owned, Now

LEMMA SmallerOwned ==
  ASSUME Owned(Now), conn' = conn, \A a \in Addr : idle'[a] \subseteq idle[a]
  PROVE  Owned(Now)'
<1>1. Now.conn = conn /\ Now.idle = idle
  BY DEF Now
<1>2. (Now.conn)' = conn /\ (Now.idle)' = idle'
  BY DEF Now
<1>3. \A f \in Fd, a \in Addr : conn[f] # "none" => f \notin idle'[a]
  BY <1>1, ZenonT(30) DEF Owned
<1>4. ASSUME NEW a \in Addr, NEW b \in Addr, a # b
      PROVE  idle'[a] \cap idle'[b] = {}
  <2>1. idle[a] \cap idle[b] = {}
    BY <1>1, <1>4, ZenonT(30) DEF Owned
  <2>2. idle'[a] \subseteq idle[a] /\ idle'[b] \subseteq idle[b]
    OBVIOUS
  <2> QED
    BY <2>1, <2>2
<1> QED
  BY <1>2, <1>3, <1>4, ZenonT(30) DEF Owned

\* The peer of an entry is open and points back.
LEMMA PeerOpen ==
  ASSUME TypeOK, Pairing(Now), NEW f \in Fd, peer[f] # None
  PROVE  /\ peer[f] \in Fd /\ conn[peer[f]] # "none" /\ conn[f] # "none"
         /\ peer[peer[f]] = f /\ (node[f] = None) # (node[peer[f]] = None)
<1> DEFINE g == peer[f]
<1>1. g \in Fd
  BY DEF TypeOK
<1>2. /\ peer[g] = f /\ (node[f] = None) # (node[g] = None)
      /\ conn[f] # "none"
  BY ZenonT(30) DEF Pairing, Now
<1>3. conn[g] = "none" => peer[g] = None
  BY <1>1, ZenonT(30) DEF Pairing, Now
<1>4. f # None
  BY ConstantsAssumption
<1> QED
  BY <1>1, <1>2, <1>3, <1>4, ZenonT(30)

\* A handler that leaves a good snapshot with few enough clients.
LEMMA Becoming ==
  ASSUME TypeOK, NEW t \in Snapshot, Good(t), Become(t),
         Cardinality(Admitted(t)) <= MaxGlobal,
         UNCHANGED <<health, backends, alive>>
  PROVE  IInv'
<1>1. TypeOK'
  BY DEF TypeOK, Snapshot, Become
<1>2. Pairing(Now)'
  BY ZenonT(30) DEF Good, Pairing, Now, Become
<1>3. Owned(Now)'
  BY ZenonT(30) DEF Good, Owned, Now, Become
<1>4. Counted(Now)'
  <2>1. \A m : Serving(Now, m)' = Serving(t, m)
    BY ZenonT(30) DEF Serving, Now, Become
  <2> QED
    BY <2>1, SMTT(30) DEF Good, Counted, Now, Become
<1>5. GlobalLimit'
  <2>1. (Clients(Now) \ errors)' = Admitted(t)
    BY ZenonT(30) DEF Admitted, Clients, Open, Now, Become
  <2> QED
    BY <2>1 DEF GlobalLimit
<1> QED
  BY <1>1, <1>2, <1>3, <1>4, <1>5 DEF IInv, Good

(* There are finitely many clients, so they can be counted.                *)
LEMMA ClientsFinite ==
  ASSUME NEW s
  PROVE  IsFiniteSet(Clients(s)) /\ IsFiniteSet(Admitted(s))
<1>1. Clients(s) \subseteq Fd /\ Admitted(s) \subseteq Fd
  BY DEF Clients, Open, Admitted
<1> QED
  BY <1>1, FS_Subset, ConstantsAssumption

\* A handler that admits no client.
LEMMA NoNewClient ==
  ASSUME IInv, NEW t \in Snapshot, Good(t), Become(t),
         Admitted(t) \subseteq Admitted(Now),
         UNCHANGED <<health, backends, alive>>
  PROVE  IInv'
<1>1. /\ Cardinality(Admitted(t)) <= Cardinality(Admitted(Now))
      /\ Cardinality(Admitted(t)) \in Nat /\ Cardinality(Admitted(Now)) \in Nat
  BY ClientsFinite, FS_Subset, FS_CardinalityType
<1>2. Cardinality(Admitted(Now)) <= MaxGlobal
  BY NowFields DEF IInv, GlobalLimit, Admitted
<1>3. Cardinality(Admitted(t)) <= MaxGlobal
  BY <1>1, <1>2, ConstantsAssumption
<1> QED
  BY <1>3, Becoming DEF IInv

\* A handler that admits one, below the limit.
LEMMA OneNewClient ==
  ASSUME IInv, NEW t \in Snapshot, Good(t), Become(t), NEW c \in Fd,
         Admitted(t) \subseteq Admitted(Now) \cup {c},
         Cardinality(Clients(Now)) < MaxGlobal,
         UNCHANGED <<health, backends, alive>>
  PROVE  IInv'
<1>1. Admitted(t) \subseteq Clients(Now) \cup {c}
  BY DEF Admitted
<1>2. /\ IsFiniteSet(Clients(Now) \cup {c})
      /\ Cardinality(Clients(Now) \cup {c}) <= Cardinality(Clients(Now)) + 1
      /\ Cardinality(Clients(Now)) \in Nat
  BY ClientsFinite, FS_AddElement, FS_CardinalityType
<1>3. /\ Cardinality(Admitted(t)) <= Cardinality(Clients(Now) \cup {c})
      /\ Cardinality(Admitted(t)) \in Nat
      /\ Cardinality(Clients(Now) \cup {c}) \in Nat
  BY <1>1, <1>2, ClientsFinite, FS_Subset, FS_CardinalityType
<1>4. Cardinality(Admitted(t)) <= MaxGlobal
  BY <1>2, <1>3, ConstantsAssumption
<1> QED
  BY <1>4, Becoming DEF IInv

(* A load balancer that has just started satisfies the invariant.          *)
LEMMA InitIInv ==
  ASSUME Init
  PROVE  IInv
<1>1. TypeOK
  BY ConstantsAssumption, SMTT(30) DEF Init, TypeOK, ConnectionState, Health
<1>2. Pairing(Now) /\ Owned(Now)
  BY DEF Init, Pairing, Owned, Now
<1>3. Counted(Now)
  BY DEF Init, Counted
<1>4. GlobalLimit
  <2>1. Clients(Now) \ errors = {}
    BY DEF Init, Clients, Open, Now
  <2> QED
    BY <2>1, FS_EmptySet, ConstantsAssumption DEF GlobalLimit
<1> QED
  BY <1>1, <1>2, <1>3, <1>4, SMTT(30) DEF IInv, Good

\* One step per action; the handlers by the lemmas of the operations they
\* call, the actions on the backend list directly.
LEMMA StepIInv ==
  ASSUME IInv, [Next]_vars
  PROVE  IInv'
<1>1. /\ Now \in Snapshot /\ Good(Now) /\ backends \subseteq Node
      /\ Now.conn = conn /\ Now.peer = peer /\ Now.node = node
      /\ Now.owner = owner /\ Now.errors = errors /\ Now.active = active
      /\ Now.idle = idle /\ TypeOK
  BY NowFields DEF IInv
<1>2. None \notin Fd /\ None \notin Node
  BY ConstantsAssumption
<1>3. ASSUME NEW c \in Fd, Accept(c)
      PROVE  IInv'
  <2>1. conn[c] = "none" /\ c \notin Idle(Now)
    BY <1>1, <1>3 DEF Accept, Free, Open
  <2>2. CASE Tls
    <3> DEFINE t == Insert(Now, c, "HANDSHAKE", {})
    <3>1. t \in Snapshot /\ Good(t) /\ Admitted(t) \subseteq Admitted(Now) \cup {c}
      BY <1>1, <1>3, InsertGood DEF Accept
    <3>2. Become(t)
      BY <1>3, <2>2 DEF Accept
    <3> HIDE DEF t
    <3> QED
      BY <1>3, <3>1, <3>2, OneNewClient DEF Accept
  <2>3. CASE ~Tls
    <3>1. PICK t \in Connect(Now, c, 0) : Become(t)
      BY <1>3, <2>3 DEF Accept
    <3>2. t \in Snapshot /\ Good(t) /\ Admitted(t) \subseteq Admitted(Now) \cup {c}
      BY <1>1, <2>1, ConnectGood, ConstantsAssumption
    <3> QED
      BY <1>3, <3>1, <3>2, OneNewClient DEF Accept
  <2> QED
    BY <2>2, <2>3
<1>4. ASSUME NEW c \in Fd, RejectWithError(c)
      PROVE  IInv'
  <2> DEFINE t == Insert(Now, c, "ESTABLISHED", {c})
  <2>1. t \in Snapshot /\ Good(t) /\ Admitted(t) \subseteq Admitted(Now)
    BY <1>1, <1>4, InsertGood DEF RejectWithError
  <2>2. Become(t) /\ UNCHANGED <<health, backends, alive>>
    BY <1>4 DEF RejectWithError
  <2> HIDE DEF t
  <2> QED
    BY <2>1, <2>2, NoNewClient
<1>5. ASSUME NEW f \in Fd, conn[f] # "none",
             \E t \in CloseConnection(Now, f) : Become(t),
             UNCHANGED <<health, backends, alive>>
      PROVE  IInv'
  BY <1>1, <1>5, CloseConnectionGood, NoNewClient
<1>6. ASSUME NEW f \in Fd, \E t \in Touch(Now, f) : Become(t),
             UNCHANGED <<health, backends, alive>>
      PROVE  IInv'
  BY <1>1, <1>6, TouchGood, NoNewClient
<1>7. ASSUME NEW c \in Fd, ErrorSent(c)
      PROVE  IInv'
  <2>1. conn[c] # "none"
    BY <1>1, <1>7 DEF ErrorSent, Good, Pairing
  <2> QED
    BY <1>5, <1>7, <2>1, SMTT(30) DEF ErrorSent
<1>8. ASSUME NEW f \in Fd, TimeOut(f)
      PROVE  IInv'
  BY <1>1, <1>5, <1>8, SMTT(30) DEF TimeOut, Open
<1>9. ASSUME NEW c \in Fd, HandleClientEvent(c)
      PROVE  IInv'
  <2>1. conn[c] # "none" /\ node[c] = None /\ c \notin errors
        /\ UNCHANGED <<health, backends, alive>>
    BY <1>1, <1>9 DEF HandleClientEvent, Clients, Open
  <2>2. CASE \E t \in CloseConnection(Now, c) : Become(t)
    BY <1>5, <2>1, <2>2
  <2>3. CASE conn[c] = "HANDSHAKE" /\ \E t \in Connect(TakeOut(Now, c), c, 0) : Become(t)
    <3> DEFINE u == TakeOut(Now, c)
    <3>1. peer[c] = None
      BY <1>1, <2>3, SMTT(30) DEF Good, Pairing
    <3>2. /\ u \in Snapshot /\ Good(u) /\ Admitted(u) \subseteq Admitted(Now)
          /\ u.conn[c] = "none" /\ c \notin Idle(u)
      BY <1>1, <2>1, <3>1, TakeOutGood
    <3>3. PICK t \in Connect(u, c, 0) : Become(t)
      BY <2>3, SMTT(30)
    <3> HIDE DEF u
    <3>4. t \in Snapshot /\ Good(t) /\ Admitted(t) \subseteq Admitted(u) \cup {c}
      BY <1>1, <3>2, ConnectGood, ConstantsAssumption
    <3>5. c \in Admitted(Now)
      BY <1>1, <2>1 DEF Admitted, Clients, Open
    <3>6. Admitted(t) \subseteq Admitted(Now)
      BY <3>2, <3>4, <3>5
    <3> QED
      BY <2>1, <3>3, <3>4, <3>6, NoNewClient, SMTT(30)
  <2>4. CASE /\ peer[c] # None
             /\ \E t \in CloseConnection(Now, peer[c]) : Become(t)
    <3>1. peer[c] \in Fd /\ conn[peer[c]] # "none"
      BY <1>1, <2>4, PeerOpen DEF Good
    <3> QED
      BY <1>5, <2>1, <2>4, <3>1, SMTT(30)
  <2>5. CASE \E t \in Touch(Now, c) : Become(t)
    BY <1>6, <2>1, <2>5
  <2> QED
    BY <1>9, <2>2, <2>3, <2>4, <2>5, SMTT(30) DEF HandleClientEvent, HandleTlsHandshake
<1>10. ASSUME NEW b \in Fd, HandleConnectingBackend(b)
       PROVE  IInv'
  <2>1. conn[b] = "CONNECTING" /\ node[b] # None
        /\ UNCHANGED <<health, backends, alive>>
    BY <1>10 DEF HandleConnectingBackend
  <2>2. CASE \E t \in RetryOrClose(Now, b) : Become(t)
    BY <1>1, <2>1, <2>2, RetryOrCloseGood, NoNewClient, SMTT(30)
  <2>3. CASE \E t \in Establish(Now, b) : Become(t)
    BY <1>1, <2>1, <2>3, EstablishGood, NoNewClient
  <2>4. CASE \E t \in CloseConnection(Now, b) : Become(t)
    BY <1>5, <2>1, <2>4, SMTT(30)
  <2> QED
    BY <1>10, <2>2, <2>3, <2>4 DEF HandleConnectingBackend
<1>11. ASSUME NEW b \in Fd, HandleBackendEvent(b)
       PROVE  IInv'
  <2>1. conn[b] = "ESTABLISHED" /\ node[b] # None
        /\ UNCHANGED <<health, backends, alive>>
    BY <1>11 DEF HandleBackendEvent
  <2>2. CASE Become(CloseBackendOnly(Now, b))
    <3> DEFINE t == CloseBackendOnly(Now, b)
    <3>1. t \in Snapshot /\ Good(t) /\ Admitted(t) \subseteq Admitted(Now)
      BY <1>1, <2>1, CloseBackendOnlyGood
    <3>2. Become(t)
      BY <2>2
    <3> HIDE DEF t
    <3> QED
      BY <2>1, <3>1, <3>2, NoNewClient, SMTT(30)
  <2>3. CASE \E t \in CloseConnection(Now, b) : Become(t)
    BY <1>5, <2>1, <2>3, SMTT(30)
  <2>4. CASE /\ peer[b] # None
             /\ \E t \in CloseConnection(Now, peer[b]) : Become(t)
    <3>1. peer[b] \in Fd /\ conn[peer[b]] # "none"
      BY <1>1, <2>4, PeerOpen DEF Good
    <3> QED
      BY <1>5, <2>1, <2>4, <3>1, SMTT(30)
  <2>5. CASE \E t \in Touch(Now, b) : Become(t)
    BY <1>6, <2>1, <2>5
  <2> QED
    BY <1>11, <2>2, <2>3, <2>4, <2>5 DEF HandleBackendEvent
<1>12. ASSUME NEW a \in Addr, EvictExpired(a)
       PROVE  IInv'
  <2>1. /\ idle' \in [Addr -> SUBSET Fd]
        /\ \A d \in Addr : idle'[d] \subseteq idle[d]
    BY <1>1, <1>12, SMTT(30) DEF EvictExpired, TypeOK
  <2>2. TypeOK'
    BY <1>1, <1>12, <2>1 DEF EvictExpired, TypeOK
  <2>3. Pairing(Now)'
    BY <1>1, <1>12, SamePairing, ZenonT(30) DEF EvictExpired, Good
  <2>4. Owned(Now)'
    BY <1>1, <1>12, <2>1, SmallerOwned, ZenonT(30) DEF EvictExpired, Good
  <2>5. Counted(Now)' /\ GlobalLimit'
    BY <1>1, <1>12, ZenonT(30) DEF IInv, EvictExpired, Good, Counted, Serving, GlobalLimit,
                       Clients, Open, Now
  <2> QED
    BY <2>2, <2>3, <2>4, <2>5, SMTT(30) DEF IInv, Good
<1>13. ASSUME UNCHANGED tables, TypeOK', alive' \subseteq alive
       PROVE  IInv'
  <2>1. Pairing(Now)' /\ Owned(Now)'
    BY <1>1, <1>13, SamePairing, SameOwned DEF Good, tables
  <2>2. Counted(Now)' /\ GlobalLimit'
    BY <1>1, <1>13, ZenonT(30) DEF IInv, Good, Counted, Serving, GlobalLimit, Clients, Open,
                       Now, tables
  <2> QED
    BY <1>13, <2>1, <2>2 DEF IInv, Good
<1>14. ASSUME CleanupDrained
       PROVE  IInv'
  BY <1>1, <1>13, <1>14, ZenonT(30) DEF CleanupDrained, TypeOK, tables
<1>15. ASSUME NEW n \in Node, ReleaseNode(n)
       PROVE  IInv'
  BY <1>1, <1>13, <1>15, ZenonT(30) DEF ReleaseNode, TypeOK, tables
<1>16. ASSUME NEW n \in Node, AddBackend(n)
       PROVE  IInv'
  <2>1. TypeOK'
    BY <1>1, <1>16, ZenonT(30) DEF AddBackend, TypeOK, Health
  <2>2. Pairing(Now)' /\ Owned(Now)'
    BY <1>1, <1>16, SamePairing, SameOwned, ZenonT(30) DEF AddBackend, Good
  <2>3. GlobalLimit'
    BY <1>16, ZenonT(30) DEF IInv, AddBackend, GlobalLimit, Clients, Open, Now
  <2>4. Counted(Now)'
    <3> SUFFICES ASSUME NEW m \in alive'
                 PROVE  active'[m] = Cardinality(Serving(Now, m)')
      BY <2>1, ZenonT(30) DEF Counted, Now, TypeOK
    <3>1. Serving(Now, m)' = Serving(Now, m)
      BY <1>16, ZenonT(30) DEF AddBackend, Serving, Now
    <3>2. CASE m = n
      <4>1. Serving(Now, m) = {}
        BY <1>16, <3>2, ZenonT(30) DEF AddBackend, Serving, Now
      <4>2. active'[m] = 0
        BY <1>1, <1>16, <3>2, ZenonT(30) DEF AddBackend, TypeOK
      <4> QED
        BY <3>1, <4>1, <4>2, FS_EmptySet
    <3>3. CASE m # n
      <4>1. m \in alive /\ active'[m] = active[m]
        BY <1>1, <1>16, <3>3 DEF AddBackend, TypeOK
      <4> QED
        BY <1>1, <3>1, <4>1, SMTT(30) DEF Good, Counted
    <3> QED
      BY <3>2, <3>3
  <2> QED
    BY <2>1, <2>2, <2>3, <2>4 DEF IInv, Good
<1>17. ASSUME NEW n \in Node, NEW h \in Health, SetState(n, h)
       PROVE  IInv'
  BY <1>1, <1>13, <1>17, ZenonT(30) DEF SetState, TypeOK, tables
<1>18. CASE UNCHANGED vars
  BY <1>1, <1>13, <1>18 DEF vars, TypeOK, tables
<1> QED
  BY <1>3, <1>4, <1>7, <1>8, <1>9, <1>10, <1>11, <1>12, <1>14, <1>15, <1>16,
     <1>17, <1>18 DEF Next

-----------------------------------------------------------------------------
(* Theorems *)

LEMMA Invariance == Spec => []IInv
BY InitIInv, StepIInv, PTL DEF Spec

(* The tables hold what their C++ types allow; in particular no counter    *)
(* that close_connection or release decrements goes below zero.            *)
THEOREM TypeCorrect == Spec => []TypeOK
<1>1. IInv => TypeOK
  BY DEF IInv
<1> QED
  BY Invariance, <1>1, PTL

(* No peer_ ever dangles, however closes, retries, pool returns and late   *)
(* events interleave.                                                      *)
THEOREM NoDanglingPeer == Spec => []PeersPaired
<1>1. IInv => PeersPaired
  BY PeerOpen, ZenonT(30) DEF IInv, Good, PeersPaired
<1> QED
  BY Invariance, <1>1, PTL

(* No backend socket outlives its client, and backend_to_client_map_ and   *)
(* peer_ agree.                                                            *)
THEOREM BackendsOwned == Spec => []NoOrphanBackend
<1>1. IInv => NoOrphanBackend
  BY ConstantsAssumption, ZenonT(30) DEF IInv, TypeOK, Good, Pairing, NoOrphanBackend, Now
<1> QED
  BY Invariance, <1>1, PTL

(* A node's active_connections_ is exactly the number of its established   *)
(* sockets, through every path that opens, retries, pools or closes one.   *)
THEOREM CountsExact == Spec => []ActiveCountExact
<1>1. IInv => ActiveCountExact
  BY DEF IInv, Good, Counted, ActiveCountExact, Now
<1> QED
  BY Invariance, <1>1, PTL

(* A descriptor is never both in use and idle in a pool, nor in two pools. *)
THEOREM DescriptorsOwnedOnce == Spec => []OneOwner
<1>1. IInv => OneOwner
  <2> SUFFICES ASSUME IInv PROVE OneOwner
    OBVIOUS
  <2>1. Owned(Now) /\ Now.conn = conn /\ Now.idle = idle
    BY DEF IInv, Good, Now
  <2>2. \A f \in Fd, a \in Addr : conn[f] # "none" => f \notin idle[a]
    BY <2>1, ZenonT(30) DEF Owned
  <2>3. \A a, b \in Addr : a # b => idle[a] \cap idle[b] = {}
    BY <2>1 DEF Owned
  <2>4. Open(Now) \cap Idle(Now) = {}
    <3>1. \A f \in Open(Now) : f \in Fd /\ conn[f] # "none"
      BY <2>1 DEF Open
    <3>2. \A f \in Idle(Now) : \E a \in Addr : f \in idle[a]
      BY <2>1 DEF Idle
    <3> QED
      BY <2>2, <3>1, <3>2
  <2> QED
    BY <2>3, <2>4 DEF OneOwner
<1> QED
  BY Invariance, <1>1, PTL

(* Admitted clients never exceed max_global_connections_.                  *)
THEOREM LimitHolds == Spec => []GlobalLimit
<1>1. IInv => GlobalLimit
  BY DEF IInv
<1> QED
  BY Invariance, <1>1, PTL

(* A backend leaves the pool only once it serves no established connection.*)
THEOREM RemovalSafe == Spec => DrainedBeforeRemoval
<1>1. ASSUME IInv, [Next]_vars
      PROVE  [\A n \in backends \ backends' : Serving(Now, n) = {}]_vars
  <2> SUFFICES ASSUME NEW n \in backends \ backends'
               PROVE  Serving(Now, n) = {}
    OBVIOUS
  <2>1. CleanupDrained
    <3>1. ASSUME NEW f \in Fd,
                 \/ Accept(f) \/ RejectWithError(f) \/ ErrorSent(f)
                 \/ HandleClientEvent(f) \/ HandleConnectingBackend(f)
                 \/ HandleBackendEvent(f) \/ TimeOut(f)
          PROVE  backends' = backends
      BY <3>1, ZenonT(30) DEF Accept, RejectWithError, ErrorSent, HandleClientEvent,
                  HandleConnectingBackend, HandleBackendEvent, TimeOut
    <3>2. ASSUME NEW a \in Addr, EvictExpired(a)
          PROVE  backends' = backends
      BY <3>2, SMTT(30) DEF EvictExpired
    <3>3. ASSUME NEW m \in Node, NEW h \in Health,
                 ReleaseNode(m) \/ AddBackend(m) \/ SetState(m, h)
          PROVE  backends \subseteq backends'
      BY <3>3 DEF ReleaseNode, AddBackend, SetState
    <3>4. vars' = vars => backends' = backends
      BY DEF vars
    <3>5. Health # {}
      BY DEF Health
    <3> QED
      BY <1>1, <3>1, <3>2, <3>3, <3>4, <3>5 DEF Next
  <2>2. active[n] = 0 /\ n \in alive
    BY <1>1, <2>1, SMTT(30) DEF CleanupDrained, IInv, TypeOK
  <2>3. Cardinality(Serving(Now, n)) = 0
    BY <1>1, <2>2 DEF IInv, Good, Counted, Now
  <2> QED
    BY <2>3, ServingFinite, FS_EmptySet
<1> QED
  BY Invariance, <1>1, PTL DEF Spec, DrainedBeforeRemoval
=============================================================================
