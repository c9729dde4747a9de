---------------------------- MODULE MCForwarding ----------------------------
(* Small instances of Forwarding for TLC: enough bytes towards the backend *)
(* to fill a send queue, a write buffer and part of a read buffer.         *)
EXTENDS Forwarding

MCMaxSent == [c \in Side |-> IF c = "backend" THEN 4 ELSE 1]
=============================================================================
