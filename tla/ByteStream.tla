----------------------------- MODULE ByteStream -----------------------------
(***************************************************************************)
(* What forwarding promises the two remote programs of a pair: towards     *)
(* each side a stream of bytes that arrive in the order they were sent,    *)
(* none twice, none skipped, and none of another pair's.  The stream may   *)
(* be cut at any time; what was in flight is then lost from the end.       *)
(***************************************************************************)
EXTENDS Naturals, Sequences

CONSTANT Direction

VARIABLES
  sent,    \* how many bytes were sent in a direction, over all pairs
  flight,  \* the bytes on their way, the oldest first
  got,     \* the bytes of this pair that have arrived
  cut      \* the directions that carry nothing more

vars == <<sent, flight, got, cut>>

Init ==
  /\ sent = [d \in Direction |-> 0]
  /\ flight = [d \in Direction |-> <<>>]
  /\ got = [d \in Direction |-> <<>>]
  /\ cut = Direction

(* The next byte is sent; on a direction that is cut it goes nowhere.      *)
Send(d) ==
  /\ sent' = [sent EXCEPT ![d] = sent[d] + 1]
  /\ flight' = [flight EXCEPT ![d] = IF d \in cut THEN flight[d]
                                     ELSE Append(flight[d], sent[d] + 1)]
  /\ UNCHANGED <<got, cut>>

(* In each direction some of the oldest bytes arrive, and a direction that *)
(* is cut may lose an end of the others.                                   *)
Move(d) ==
  \E k \in 0 .. Len(flight[d]) : \E n \in k .. Len(flight[d]) :
    /\ got'[d] = got[d] \o SubSeq(flight[d], 1, k)
    /\ flight'[d] = SubSeq(flight[d], k + 1, n)
    /\ n < Len(flight[d]) => d \in cut'

Progress ==
  /\ cut \subseteq cut' /\ cut' \subseteq Direction /\ \A d \in Direction : Move(d)
  /\ flight' = [d \in Direction |-> flight'[d]] /\ got' = [d \in Direction |-> got'[d]]
  /\ UNCHANGED sent

(* Before anything arrived, the source may be replaced by another one: a   *)
(* connection attempt that is retried with a different backend.            *)
Reroute(d) ==
  /\ got[d] = <<>> /\ flight' = [flight EXCEPT ![d] = <<>>]
  /\ UNCHANGED <<sent, got, cut>>

(* A new pair starts with nothing in flight.                               *)
Restart ==
  /\ cut = Direction /\ cut' = {}
  /\ flight' = [d \in Direction |-> <<>>] /\ got' = [d \in Direction |-> <<>>]
  /\ UNCHANGED sent

Next ==
  \/ Progress \/ Restart
  \/ \E d \in Direction : Send(d) \/ Reroute(d)

Spec == Init /\ [][Next]_vars
=============================================================================
