------------------------- MODULE MCBackendLifecycle -------------------------
(* Small instances of BackendLifecycle for TLC. *)
EXTENDS BackendLifecycle
CONSTANTS n1, n2, a1

\* Two nodes for one address, which comes and goes.
MCAddrOf == [n \in Node |-> a1]
MCConfigs == {{a1}, {}}
=============================================================================
