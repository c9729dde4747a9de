---------------------------- MODULE MCAsyncLogger ----------------------------
(* Small instances of AsyncLogger for TLC. *)
EXTENDS AsyncLogger
CONSTANTS p1, p2, w1, w2
=============================================================================
