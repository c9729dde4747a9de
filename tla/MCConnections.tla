---------------------------- MODULE MCConnections ----------------------------
(* Small instances of Connections for TLC. *)
EXTENDS Connections, TLC
CONSTANTS f1, f2, f3, f4, n1, n2, a1, a2

MCAddrOf == [n \in Node |-> IF n = n1 THEN a1 ELSE a2]
MCSameAddr == [n \in Node |-> a1]
Symmetry == Permutations(Fd)
=============================================================================
