-------------------------- MODULE MCConnectionPool --------------------------
(* Small instances of ConnectionPool for TLC. *)
EXTENDS ConnectionPool, TLC
CONSTANTS s1, s2, s3
Sockets == Permutations(Sock)
=============================================================================
