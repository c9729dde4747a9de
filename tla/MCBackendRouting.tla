-------------------------- MODULE MCBackendRouting --------------------------
(* Small instances of BackendRouting for TLC. *)
EXTENDS BackendRouting
CONSTANTS n1, n2, n3, k1
Weights == [n \in Node |-> IF n = n1 THEN 2 ELSE IF n = n2 THEN 1 ELSE 0]
=============================================================================
