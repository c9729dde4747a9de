--------------------------- MODULE AdmissionProofs ---------------------------
(***************************************************************************)
(* The global limit on clients, for every limit, queue and number of       *)
(* arrivals.  Only try_dequeue_clients needs an argument: it lets several  *)
(* clients in at once, but looks at the count again before each of them,   *)
(* so that the last one found room beside all the others.                  *)
(***************************************************************************)
EXTENDS Admission, FiniteSetTheorems, TLAPS

Inv == IsFiniteSet(active) /\ ActiveWithinLimit

(* One client more, where there was room for one.                          *)
LEMMA OneMore ==
  ASSUME NEW A, IsFiniteSet(A), Cardinality(A) < MaxGlobal, NEW c
  PROVE  IsFiniteSet(A \cup {c}) /\ Cardinality(A \cup {c}) <= MaxGlobal
<1>1. IsFiniteSet(A \cup {c})
      /\ Cardinality(A \cup {c}) = IF c \in A THEN Cardinality(A) ELSE Cardinality(A) + 1
  BY FS_AddElement
<1>2. Cardinality(A) \in Nat /\ MaxGlobal \in Nat
  BY FS_CardinalityType, AdmissionAssumption
<1>. QED
  BY <1>1, <1>2

(* try_dequeue_clients stays within the limit.                             *)
LEMMA DequeueInv ==
  ASSUME Inv, Dequeue PROVE Inv'
<1>1. PICK n \in 0 .. Len(Waiting) :
        \E J \in SUBSET {Waiting[i].client : i \in 1 .. n} :
          /\ \A i \in 1 .. n :
               Cardinality(active \cup {c \in J : \E j \in 1 .. i - 1 : Waiting[j].client = c}) < MaxGlobal
          /\ active' = active \cup J
  BY DEF Dequeue
<1>2. PICK J \in SUBSET {Waiting[i].client : i \in 1 .. n} :
          /\ \A i \in 1 .. n :
               Cardinality(active \cup {c \in J : \E j \in 1 .. i - 1 : Waiting[j].client = c}) < MaxGlobal
          /\ active' = active \cup J
  BY <1>1
<1>3. CASE n = 0
  <2>1. J = {}
    BY <1>2, <1>3
  <2>2. active' = active
    BY <1>2, <2>1
  <2>. QED
    BY <2>2 DEF Inv, ActiveWithinLimit
<1>4. CASE n # 0
  <2>. DEFINE E == {c \in J : \E j \in 1 .. n - 1 : Waiting[j].client = c}
              last == Waiting[n].client
  <2>1. n \in Nat /\ n \in 1 .. n
    BY <1>4
  <2>2. IsFiniteSet(active \cup E) /\ Cardinality(active \cup E) < MaxGlobal
    <3>1. Cardinality(active \cup E) < MaxGlobal
      BY <1>2, <2>1
    <3>2. IsFiniteSet(J)
      <4>1. IsFiniteSet(1 .. n)
        BY <2>1, FS_Interval
      <4>2. IsFiniteSet({Waiting[i].client : i \in 1 .. n})
        <5>. DEFINE T == {Waiting[i].client : i \in 1 .. n}
                    f == [i \in 1 .. n |-> Waiting[i].client]
        <5>1. f \in Surjection(1 .. n, T)
          BY DEF Surjection
        <5>. HIDE DEF f
        <5>. QED
          BY <4>1, <5>1, FS_Surjection
      <4>. QED
        BY <4>2, FS_Subset
    <3>3. IsFiniteSet(E)
      BY <3>2, FS_Subset
    <3>. QED
      BY <3>1, <3>3, FS_Union DEF Inv
  <2>3. \A c \in J : c \in E \/ c = last
    <3>1. ASSUME NEW c \in J PROVE c \in E \/ c = last
      <4>1. PICK i \in 1 .. n : c = Waiting[i].client
        OBVIOUS
      <4>2. i = n \/ i \in 1 .. n - 1
        BY <2>1
      <4>. QED
        BY <4>1, <4>2
    <3>. QED
      BY <3>1
  <2>4. active' \subseteq (active \cup E) \cup {last}
    BY <1>2, <2>3
  <2>. HIDE DEF E, last
  <2>5. IsFiniteSet((active \cup E) \cup {last}) /\ Cardinality((active \cup E) \cup {last}) <= MaxGlobal
    BY <2>2, OneMore
  <2>6. IsFiniteSet(active') /\ Cardinality(active') <= Cardinality((active \cup E) \cup {last})
    BY <2>4, <2>5, FS_Subset
  <2>7. /\ Cardinality(active') \in Nat /\ Cardinality((active \cup E) \cup {last}) \in Nat
        /\ MaxGlobal \in Nat
    BY <2>5, <2>6, FS_CardinalityType, AdmissionAssumption
  <2>8. Cardinality(active') <= MaxGlobal
    BY <2>5, <2>6, <2>7
  <2>. QED
    BY <2>6, <2>8 DEF Inv, ActiveWithinLimit
<1>. QED
  BY <1>3, <1>4

(* Inv is inductive.                                                       *)
LEMMA NextInv == Inv /\ [Next]_vars => Inv'
<1>. SUFFICES ASSUME Inv, [Next]_vars PROVE Inv'
  OBVIOUS
<1>1. CASE active' = active
  BY <1>1 DEF Inv, ActiveWithinLimit
<1>2. ASSUME NEW ip \in Ip, Reject(ip) \/ QueueOrDrop(ip) PROVE active' = active
  BY <1>2 DEF Reject, QueueOrDrop
<1>3. ASSUME NEW ip \in Ip, Admit(ip) PROVE Inv'
  <2>1. CASE active' = active \cup {arrivals + 1}
    <3>1. IsFiniteSet(active) /\ Cardinality(active) < MaxGlobal
      <4>1. Cardinality(active) \in Nat /\ MaxGlobal \in Nat
        BY FS_CardinalityType, AdmissionAssumption DEF Inv
      <4>. QED
        BY <1>3, <4>1 DEF Admit, Full, Inv
    <3>. QED
      BY <2>1, <3>1, OneMore DEF Inv, ActiveWithinLimit
  <2>. QED
    BY <1>1, <1>3, <2>1 DEF Admit
<1>4. ASSUME NEW c \in 1 .. MaxArrivals, Leave(c) PROVE Inv'
  <2>1. active' = active \ {c}
    BY <1>4 DEF Leave
  <2>2. active \ {c} \subseteq active
    OBVIOUS
  <2>3. IsFiniteSet(active \ {c}) /\ Cardinality(active \ {c}) <= Cardinality(active)
    BY <2>2, FS_Subset DEF Inv
  <2>4. Cardinality(active \ {c}) \in Nat /\ Cardinality(active) \in Nat /\ MaxGlobal \in Nat
    BY <2>3, FS_CardinalityType, AdmissionAssumption DEF Inv
  <2>. QED
    BY <2>1, <2>3, <2>4 DEF Inv, ActiveWithinLimit
<1>5. CASE Periodic
  BY <1>1, <1>5, DequeueInv DEF Periodic
<1>6. CASE Second \/ MemoryChanges \/ ReloadQueue \/ UNCHANGED vars
  BY <1>1, <1>6 DEF Second, MemoryChanges, ReloadQueue, vars
<1>. QED
  BY <1>1, <1>2, <1>3, <1>4, <1>5, <1>6 DEF Next

(* However clients from the queue and clients let in directly alternate,   *)
(* and however many try_dequeue_clients takes in one call, the load        *)
(* balancer never serves more than max_global_connections of them.         *)
THEOREM LimitKept == Spec => []ActiveWithinLimit
<1>1. Init => Inv
  <2>. SUFFICES ASSUME Init PROVE Inv
    OBVIOUS
  <2>1. active = {} /\ IsFiniteSet({}) /\ Cardinality({}) = 0
    BY FS_EmptySet DEF Init
  <2>. QED
    BY <2>1, AdmissionAssumption DEF Inv, ActiveWithinLimit
<1>2. Inv => ActiveWithinLimit
  BY DEF Inv
<1>. QED
  BY <1>1, <1>2, NextInv, PTL DEF Spec
=============================================================================
