---------------------------- MODULE MCBackground ----------------------------
(* Small instances of Background for TLC. *)
EXTENDS Background
CONSTANTS w1, w2
=============================================================================
