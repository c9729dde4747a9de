-------------------------- MODULE ForwardingProofs --------------------------
(***************************************************************************)
(* MemoryBudget counts what the buffers hold, for every buffer size, every *)
(* set of limits and any number of pairs and bytes, in both modes.         *)
(*                                                                         *)
(* Every operation is a function from snapshots to snapshots, so the proof *)
(* has one lemma per operation: it keeps a snapshot Good.  Good adds to    *)
(* Counted what the arithmetic needs: a buffer is at most Buf long, or the *)
(* room computed for a copy would be negative, and a send queue at most    *)
(* Kernel.  The fields that no count depends on are left open.             *)
(***************************************************************************)
EXTENDS Forwarding, TLAPS

Bytes == [Side -> Seq(Nat)]
Count(f, c) == Len(f[c])

\* n bytes are taken off the front of f[c], and put at the end of h[b].
Taken(f, c, n) == [f EXCEPT ![c] = Rest(f[c], n)]
Added(h, b, f, c, n) == [h EXCEPT ![b] = h[b] \o First(f[c], n)]

Shape(s) ==
  /\ {"rbuf", "wbuf", "used", "outq", "inq", "pipe"} \subseteq DOMAIN s
  /\ s.rbuf \in Bytes /\ s.wbuf \in Bytes /\ s.used \in Nat
  /\ s.outq \in Bytes /\ s.inq \in Bytes /\ s.pipe \in Bytes

Sized(s) ==
  \A c \in Side : Count(s.rbuf, c) <= Buf /\ Count(s.wbuf, c) <= Buf /\ Count(s.outq, c) <= Kernel

Sum(rb, wb) ==
  (Count(rb, "client") + Count(wb, "client")) + (Count(rb, "backend") + Count(wb, "backend"))
HeldBy(s) == Sum(s.rbuf, s.wbuf)

Counted(s) == s.used <= HeldBy(s) /\ (0 \notin Limits => s.used = HeldBy(s))

Good(s) == Shape(s) /\ Sized(s) /\ Counted(s)
AllGood(S) == \A s \in S : Good(s)

\* t differs from s in nothing that is counted, and its send queues fit.
Same(s, t) ==
  /\ Shape(t) /\ t.rbuf = s.rbuf /\ t.wbuf = s.wbuf /\ t.used = s.used
  /\ \A c \in Side : Count(t.outq, c) <= Kernel

-----------------------------------------------------------------------------
(* Sequences and sums *)

(* One of the two sides is c, the other is not.                            *)
LEMMA Sides ==
  ASSUME NEW c \in Side
  PROVE  Other(c) \in Side /\ Other(c) # c /\ \A d \in Side : d = c \/ d = Other(c)
BY DEF Side, Other

(* The length of a buffer is a number.                                     *)
LEMMA Length ==
  ASSUME NEW f \in Bytes, NEW c \in Side
  PROVE  f[c] \in Seq(Nat) /\ Count(f, c) \in Nat
BY DEF Bytes, Count

(* Joined sequences of bytes.                                              *)
LEMMA Joined ==
  ASSUME NEW q \in Seq(Nat), NEW r \in Seq(Nat)
  PROVE  q \o r \in Seq(Nat) /\ Len(q \o r) = Len(q) + Len(r)
OBVIOUS

(* The first n bytes of a queue are taken off it.                          *)
LEMMA TakeOff ==
  ASSUME NEW f \in Bytes, NEW c \in Side, NEW n \in Nat, n <= Count(f, c)
  PROVE  /\ Taken(f, c, n) \in Bytes /\ Count(Taken(f, c, n), c) = Count(f, c) - n
         /\ \A d \in Side : d # c => Count(Taken(f, c, n), d) = Count(f, d)
<1>1. f[c] \in Seq(Nat) /\ n \in 0 .. Len(f[c])
  BY Length DEF Count
<1>2. Rest(f[c], n) \in Seq(Nat) /\ Len(Rest(f[c], n)) = Len(f[c]) - n
  BY <1>1 DEF Rest
<1>. QED
  BY <1>2 DEF Bytes, Count, Taken

(* ... and put at the end of another.                                      *)
LEMMA PutOn ==
  ASSUME NEW f \in Bytes, NEW c \in Side, NEW n \in Nat, n <= Count(f, c),
         NEW h \in Bytes, NEW b \in Side
  PROVE  /\ Added(h, b, f, c, n) \in Bytes /\ Count(Added(h, b, f, c, n), b) = Count(h, b) + n
         /\ \A d \in Side : d # b => Count(Added(h, b, f, c, n), d) = Count(h, d)
<1>1. f[c] \in Seq(Nat) /\ n \in 0 .. Len(f[c]) /\ h[b] \in Seq(Nat)
  BY Length DEF Count
<1>2. First(f[c], n) \in Seq(Nat) /\ Len(First(f[c], n)) = n
  BY <1>1 DEF First
<1>. DEFINE q == h[b] \o First(f[c], n)
            g == Added(h, b, f, c, n)
<1>3. q \in Seq(Nat) /\ Len(q) = Len(h[b]) + n
  <2>. DEFINE r == First(f[c], n)
  <2>1. r \in Seq(Nat) /\ Len(r) = n
    BY <1>2
  <2>. HIDE DEF r
  <2>2. h[b] \o r \in Seq(Nat) /\ Len(h[b] \o r) = Len(h[b]) + Len(r)
    BY <1>1, <2>1, Joined
  <2>. QED
    BY <2>1, <2>2 DEF r
<1>4. Len(q) = Count(h, b) + n /\ g = [h EXCEPT ![b] = q]
  BY <1>3 DEF Count, Added
<1>. HIDE DEF q, g
<1>5. g \in Bytes /\ g[b] = q /\ \A d \in Side : d # b => g[d] = h[d]
  BY <1>3, <1>4 DEF Bytes
<1>6. /\ g \in Bytes /\ Count(g, b) = Count(h, b) + n
      /\ \A d \in Side : d # b => Count(g, d) = Count(h, d)
  BY <1>4, <1>5 DEF Count
<1>. QED
  BY <1>6 DEF g

(* A queue is emptied.                                                     *)
LEMMA Emptied ==
  ASSUME NEW f \in Bytes, NEW c \in Side, NEW g, g = [f EXCEPT ![c] = <<>>]
  PROVE  /\ g \in Bytes /\ Count(g, c) = 0
         /\ \A d \in Side : d # c => Count(g, d) = Count(f, d)
BY DEF Bytes, Count

(* Buffers that differ on one side only.                                   *)
LEMMA SumChange ==
  ASSUME NEW rb \in Bytes, NEW wb \in Bytes, NEW rc \in Bytes, NEW wc \in Bytes, NEW c \in Side,
         \A d \in Side : d # c => Count(rc, d) = Count(rb, d) /\ Count(wc, d) = Count(wb, d)
  PROVE  /\ Sum(rb, wb) \in Nat /\ Sum(rb, wb) >= Count(rb, c) + Count(wb, c)
         /\ Sum(rc, wc) = Sum(rb, wb) - (Count(rb, c) + Count(wb, c)) + (Count(rc, c) + Count(wc, c))
<1>1. /\ Count(rb, "client") \in Nat /\ Count(wb, "client") \in Nat
      /\ Count(rc, "client") \in Nat /\ Count(wc, "client") \in Nat
      /\ Count(rb, "backend") \in Nat /\ Count(wb, "backend") \in Nat
      /\ Count(rc, "backend") \in Nat /\ Count(wc, "backend") \in Nat
  BY Length DEF Side
<1>2. CASE c = "client"
  <2>1. Count(rc, "backend") = Count(rb, "backend") /\ Count(wc, "backend") = Count(wb, "backend")
    BY <1>2 DEF Side
  <2>. QED
    BY <1>1, <1>2, <2>1 DEF Sum
<1>3. CASE c = "backend"
  <2>1. Count(rc, "client") = Count(rb, "client") /\ Count(wc, "client") = Count(wb, "client")
    BY <1>3 DEF Side
  <2>. QED
    BY <1>1, <1>3, <2>1 DEF Sum
<1>. QED
  BY <1>2, <1>3 DEF Side

(* What a snapshot holds, as numbers.                                      *)
LEMMA Numbers ==
  ASSUME NEW s, Shape(s)
  PROVE  /\ HeldBy(s) \in Nat /\ s.used \in Nat
         /\ \A c \in Side : /\ Count(s.rbuf, c) \in Nat /\ Count(s.wbuf, c) \in Nat
                            /\ Count(s.outq, c) \in Nat /\ Count(s.inq, c) \in Nat
                            /\ Count(s.pipe, c) \in Nat
<1>1. HeldBy(s) \in Nat
  BY SumChange DEF Shape, HeldBy, Side
<1>. QED
  BY <1>1, Length DEF Shape

(* A step that touches nothing that is counted.                            *)
LEMMA SameGood ==
  ASSUME NEW s, Good(s), NEW t, Same(s, t) PROVE Good(t)
BY DEF Good, Same, Sized, Counted, HeldBy

-----------------------------------------------------------------------------
(* Connection *)

(* read_from_fd counts the bytes it appends, whatever it reserved.         *)
LEMMA ReadGood ==
  ASSUME NEW s, Good(s), NEW c \in Side, limit \in Limits
  PROVE  Good(ReadFromFd(s, c).s)
<1>. DEFINE room == Buf - Len(s.rbuf[c])
            n == Least(room, Len(s.inq[c]))
            m == IF limit = 0 THEN s.used ELSE s.used + room
            rb == Added(s.rbuf, c, s.inq, c, n)
            iq == Taken(s.inq, c, n)
            t == ReadFromFd(s, c).s
<1>0. Shape(s) /\ Sized(s) /\ Counted(s) /\ limit \in Nat /\ Buf \in Nat
  BY ForwardingAssumption DEF Good
<1>1. /\ Count(s.rbuf, c) \in Nat /\ Count(s.inq, c) \in Nat /\ Count(s.rbuf, c) <= Buf
      /\ s.used \in Nat /\ room = Buf - Count(s.rbuf, c) /\ n = Least(room, Count(s.inq, c))
      /\ m = IF limit = 0 THEN s.used ELSE s.used + room
  BY <1>0, Numbers DEF Sized, Count
<1>. HIDE DEF room, n, m
<1>2. room \in Nat /\ n \in Nat /\ n <= room /\ n <= Count(s.inq, c) /\ m \in Nat
  BY <1>0, <1>1 DEF Least
<1>3. /\ rb \in Bytes /\ iq \in Bytes /\ Count(rb, c) = Count(s.rbuf, c) + n
      /\ \A d \in Side : d # c => Count(rb, d) = Count(s.rbuf, d)
  <2>1. s.rbuf \in Bytes /\ s.inq \in Bytes
    BY <1>0 DEF Shape
  <2>2. iq \in Bytes
    BY <1>2, <2>1, TakeOff
  <2>. QED
    BY <1>2, <2>1, <2>2, PutOn
<1>4. CASE room <= 0 \/ ~CanReserve(s, room)
  <2>1. Same(s, t)
    BY <1>0, <1>4 DEF ReadFromFd, Result, Shape, Same, Sized, room
  <2>. QED
    BY <2>1, SameGood
<1>5. CASE ~(room <= 0) /\ CanReserve(s, room) /\ n = 0
  <2>1. /\ t.rbuf = s.rbuf /\ t.wbuf = s.wbuf /\ t.outq = s.outq /\ t.inq = s.inq /\ t.pipe = s.pipe
        /\ t.used = (IF m > room THEN m - room ELSE 0)
        /\ DOMAIN t = DOMAIN s
    BY <1>0, <1>5 DEF ReadFromFd, Result, Shape, Reserve, Release, room, n, m
  <2>. HIDE DEF t
  <2>2. t.used \in Nat /\ t.used <= s.used /\ (limit # 0 => t.used = s.used)
    BY <1>0, <1>1, <1>2, <2>1
  <2>3. Shape(t) /\ HeldBy(t) = HeldBy(s) /\ Sized(t)
    BY <1>0, <2>1, <2>2 DEF Shape, HeldBy, Sized
  <2>4. Good(t)
    BY <1>0, <1>1, <2>2, <2>3, Numbers DEF Good, Counted
  <2>. QED
    BY <2>4 DEF t
<1>6. CASE ~(room <= 0) /\ CanReserve(s, room) /\ n # 0
  <2>1. /\ t.rbuf = rb /\ t.wbuf = s.wbuf /\ t.outq = s.outq /\ t.inq = iq /\ t.pipe = s.pipe
        /\ t.used = (IF m > room - n THEN m - (room - n) ELSE 0)
        /\ DOMAIN t = DOMAIN s
    BY <1>0, <1>6 DEF ReadFromFd, Result, Shape, Reserve, Release, Added, Taken, room, n, m
  <2>. HIDE DEF t, rb, iq
  <2>2. t.used \in Nat /\ t.used <= s.used + n /\ (limit # 0 => t.used = s.used + n)
    BY <1>0, <1>1, <1>2, <1>6, <2>1
  <2>3. Shape(t)
    BY <1>0, <1>3, <2>1, <2>2 DEF Shape
  <2>4. Sized(t)
    BY <1>0, <1>1, <1>2, <1>3, <2>1 DEF Sized
  <2>5. HeldBy(t) = HeldBy(s) + n /\ HeldBy(s) \in Nat
    <3>1. /\ Sum(rb, s.wbuf) = Sum(s.rbuf, s.wbuf) - (Count(s.rbuf, c) + Count(s.wbuf, c))
                                 + (Count(rb, c) + Count(s.wbuf, c))
          /\ Sum(s.rbuf, s.wbuf) \in Nat
      BY <1>0, <1>3, SumChange DEF Shape
    <3>2. Count(s.wbuf, c) \in Nat
      BY <1>0, Numbers
    <3>. QED
      BY <1>1, <1>2, <1>3, <2>1, <3>1, <3>2 DEF HeldBy
  <2>6. Counted(t)
    BY <1>0, <1>1, <1>2, <2>2, <2>5 DEF Counted
  <2>7. Good(t)
    BY <2>3, <2>4, <2>6 DEF Good
  <2>. QED
    BY <2>7 DEF t
<1>. QED
  BY <1>4, <1>5, <1>6

(* Interest, clocks, flags and half-closing touch nothing that is counted. *)
LEMMA MarkGood ==
  ASSUME NEW s, Good(s), NEW c, NEW x
  PROVE  /\ Good(Watch(s, c, x)) /\ Good(SetBackpressure(s, c, x)) /\ Good(ShutdownWrite(s, c))
         /\ Good(StartBackpressure(s, c)) /\ Good(ClearBackpressure(s, c)) /\ Good(TrackPending(s, x))
<1>1. Same(s, Watch(s, c, x)) /\ Same(s, ShutdownWrite(s, c))
  BY DEF Good, Same, Shape, Sized, Watch, ShutdownWrite
<1>2. /\ Same(s, StartBackpressure(s, c)) /\ Same(s, ClearBackpressure(s, c))
      /\ Same(s, TrackPending(s, x))
  BY DEF Good, Same, Shape, Sized, StartBackpressure, ClearBackpressure, TrackPending
<1>3. Good(StartBackpressure(s, c)) /\ Good(ClearBackpressure(s, c))
  BY <1>2, SameGood
<1>. QED
  BY <1>1, <1>2, <1>3, SameGood DEF SetBackpressure

(* write_to_fd releases the bytes it writes.                               *)
LEMMA WriteGood ==
  ASSUME NEW s, Good(s), NEW c \in Side, NEW x \in WriteToFd(s, c)
  PROVE  Good(x.s)
<1>. DEFINE n == IF s.up[c] THEN Least(Kernel - Len(s.outq[c]), Len(s.wbuf[c])) ELSE 0
            w == Release([s EXCEPT !.wbuf = [s.wbuf EXCEPT ![c] = Rest(s.wbuf[c], n)],
                                   !.outq = [s.outq EXCEPT ![c] = s.outq[c] \o First(s.wbuf[c], n)],
                                   !.blocked = [s.blocked EXCEPT ![c] = FALSE]], n)
            wb == Taken(s.wbuf, c, n)
            oq == Added(s.outq, c, s.wbuf, c, n)
<1>0. Shape(s) /\ Sized(s) /\ Counted(s) /\ Kernel \in Nat
  BY ForwardingAssumption DEF Good
<1>1. /\ Count(s.wbuf, c) \in Nat /\ Count(s.rbuf, c) \in Nat /\ Count(s.outq, c) \in Nat
      /\ Count(s.outq, c) <= Kernel /\ Count(s.wbuf, c) <= Buf
      /\ n = IF s.up[c] THEN Least(Kernel - Count(s.outq, c), Count(s.wbuf, c)) ELSE 0
  BY <1>0, Numbers DEF Sized, Count
<1>2. x = Result(s, TRUE) \/ x = Result(s, FALSE) \/ x = Result(w, TRUE)
      \/ x = Result(Acknowledge(w, c), TRUE)
  BY DEF WriteToFd
<1>3. /\ w.wbuf = wb /\ w.outq = oq /\ w.rbuf = s.rbuf /\ w.inq = s.inq /\ w.pipe = s.pipe
      /\ w.used = (IF s.used > n THEN s.used - n ELSE 0) /\ DOMAIN w = DOMAIN s
  BY <1>0 DEF Release, Shape, Taken, Added
<1>. HIDE DEF n, w
<1>4. n \in Nat /\ n <= Count(s.wbuf, c) /\ n <= Kernel - Count(s.outq, c)
  BY <1>0, <1>1 DEF Least
<1>5. /\ wb \in Bytes /\ Count(wb, c) = Count(s.wbuf, c) - n
      /\ \A d \in Side : d # c => Count(wb, d) = Count(s.wbuf, d)
  BY <1>0, <1>4, TakeOff DEF Shape
<1>6. /\ oq \in Bytes /\ Count(oq, c) = Count(s.outq, c) + n
      /\ \A d \in Side : d # c => Count(oq, d) = Count(s.outq, d)
  BY <1>0, <1>4, PutOn DEF Shape
<1>. HIDE DEF wb, oq
<1>7. HeldBy(w) = HeldBy(s) - n /\ HeldBy(s) \in Nat /\ HeldBy(s) >= n
  <2>1. /\ Sum(s.rbuf, wb) = Sum(s.rbuf, s.wbuf) - (Count(s.rbuf, c) + Count(s.wbuf, c))
                               + (Count(s.rbuf, c) + Count(wb, c))
        /\ Sum(s.rbuf, s.wbuf) \in Nat
        /\ Sum(s.rbuf, s.wbuf) >= Count(s.rbuf, c) + Count(s.wbuf, c)
    BY <1>0, <1>5, SumChange DEF Shape
  <2>. QED
    BY <1>1, <1>3, <1>4, <1>5, <2>1 DEF HeldBy
<1>8. w.used \in Nat /\ Counted(w)
  <2>1. s.used \in Nat
    BY <1>0, Numbers
  <2>2. w.used \in Nat /\ w.used <= HeldBy(w) /\ (s.used = HeldBy(s) => w.used = HeldBy(w))
    BY <1>0, <1>3, <1>4, <1>7, <2>1 DEF Counted
  <2>. QED
    BY <1>0, <2>2 DEF Counted
<1>9. Shape(w)
  BY <1>0, <1>3, <1>5, <1>6, <1>8 DEF Shape
<1>10. Sized(w)
  <2>1. Count(wb, c) <= Buf /\ Count(oq, c) <= Kernel
    BY <1>0, <1>1, <1>4, <1>5, <1>6, ForwardingAssumption
  <2>. QED
    BY <1>0, <1>3, <1>5, <1>6, <2>1 DEF Sized
<1>11. Good(w)
  BY <1>8, <1>9, <1>10 DEF Good
<1>12. Good(Acknowledge(w, c))
  <2>1. Same(w, Acknowledge(w, c))
    <3>. DEFINE g == [w.outq EXCEPT ![c] = <<>>]
                a == Acknowledge(w, c)
    <3>1. a.rbuf = w.rbuf /\ a.wbuf = w.wbuf /\ a.used = w.used /\ a.inq = w.inq /\ a.pipe = w.pipe
          /\ a.outq = g /\ DOMAIN a = DOMAIN w
      BY <1>9 DEF Acknowledge, Shape
    <3>2. g \in Bytes /\ Count(g, c) = 0 /\ \A d \in Side : d # c => Count(g, d) = Count(w.outq, d)
      BY <1>9, Emptied DEF Shape
    <3>. HIDE DEF g, a
    <3>3. Same(w, a)
      BY <1>0, <1>9, <1>10, <3>1, <3>2 DEF Same, Shape, Sized
    <3>. QED
      BY <3>3 DEF a
  <2>. QED
    BY <1>11, <2>1, SameGood
<1>. QED
  BY <1>2, <1>11, <1>12 DEF Result

(* Connection::close releases what its two buffers held.                   *)
LEMMA CloseOneGood ==
  ASSUME NEW s, Good(s), NEW c \in Side PROVE Good(CloseOne(s, c))
<1>. DEFINE k == Len(s.rbuf[c]) + Len(s.wbuf[c])
            rb == [s.rbuf EXCEPT ![c] = <<>>]
            wb == [s.wbuf EXCEPT ![c] = <<>>]
            iq == [s.inq EXCEPT ![c] = <<>>]
            oq == [s.outq EXCEPT ![c] = IF s.inq[c] = <<>> THEN s.outq[c] ELSE <<>>]
            t == CloseOne(s, c)
<1>0. Shape(s) /\ Sized(s) /\ Counted(s) /\ Kernel \in Nat /\ Buf \in Nat
  BY ForwardingAssumption DEF Good
<1>1. s.rbuf \in Bytes /\ s.wbuf \in Bytes /\ s.inq \in Bytes /\ s.outq \in Bytes
  BY <1>0 DEF Shape
<1>2. /\ t.rbuf = rb /\ t.wbuf = wb /\ t.inq = iq /\ t.outq = oq /\ t.pipe = s.pipe
      /\ t.used = (IF s.used > k THEN s.used - k ELSE 0) /\ DOMAIN t = DOMAIN s
  BY <1>0 DEF CloseOne, Release, Shape
<1>3. k = Count(s.rbuf, c) + Count(s.wbuf, c) /\ Count(s.rbuf, c) \in Nat /\ Count(s.wbuf, c) \in Nat
  BY <1>0, Numbers DEF Count
<1>4. rb \in Bytes /\ Count(rb, c) = 0 /\ \A d \in Side : d # c => Count(rb, d) = Count(s.rbuf, d)
  BY <1>1, Emptied
<1>5. wb \in Bytes /\ Count(wb, c) = 0 /\ \A d \in Side : d # c => Count(wb, d) = Count(s.wbuf, d)
  BY <1>1, Emptied
<1>6. iq \in Bytes
  BY <1>1, Emptied
<1>7. oq \in Bytes /\ \A d \in Side : Count(oq, d) <= Kernel
  <2>1. oq = s.outq \/ oq = [s.outq EXCEPT ![c] = <<>>]
    BY <1>1 DEF Bytes
  <2>2. /\ [s.outq EXCEPT ![c] = <<>>] \in Bytes /\ Count([s.outq EXCEPT ![c] = <<>>], c) = 0
        /\ \A d \in Side : d # c => Count([s.outq EXCEPT ![c] = <<>>], d) = Count(s.outq, d)
    BY <1>1, Emptied
  <2>. HIDE DEF oq
  <2>. QED
    BY <1>0, <1>1, <2>1, <2>2 DEF Sized
<1>. HIDE DEF k, rb, wb, iq, oq, t
<1>8. /\ Sum(rb, wb) = Sum(s.rbuf, s.wbuf) - k /\ Sum(s.rbuf, s.wbuf) \in Nat /\ k \in Nat
      /\ Sum(s.rbuf, s.wbuf) >= k
  <2>1. /\ Sum(s.rbuf, s.wbuf) \in Nat /\ Sum(s.rbuf, s.wbuf) >= Count(s.rbuf, c) + Count(s.wbuf, c)
        /\ Sum(rb, wb) = Sum(s.rbuf, s.wbuf) - (Count(s.rbuf, c) + Count(s.wbuf, c))
                         + (Count(rb, c) + Count(wb, c))
    BY <1>1, <1>4, <1>5, SumChange
  <2>. QED
    BY <1>3, <1>4, <1>5, <2>1
<1>9. t.used \in Nat /\ Counted(t)
  <2>1. s.used \in Nat
    BY <1>0, Numbers
  <2>2. t.used \in Nat /\ t.used <= HeldBy(t) /\ (s.used = HeldBy(s) => t.used = HeldBy(t))
    BY <1>0, <1>2, <1>8, <2>1 DEF Counted, HeldBy
  <2>. QED
    BY <1>0, <2>2 DEF Counted
<1>10. Shape(t)
  BY <1>0, <1>2, <1>4, <1>5, <1>6, <1>7, <1>9 DEF Shape
<1>11. Sized(t)
  BY <1>0, <1>2, <1>4, <1>5, <1>7 DEF Sized
<1>12. Good(t)
  BY <1>9, <1>10, <1>11 DEF Good
<1>. QED
  BY <1>12 DEF t

(* So every way of closing counts right.                                   *)
LEMMA CloseGood ==
  ASSUME NEW s, Good(s), NEW c \in Side
  PROVE  Good(CloseConnection(s, c)) /\ Good(HandlerClose(s, c)) /\ Good(CloseBackendOnly(s))
<1>1. ASSUME NEW t, Good(t) PROVE Good(CloseConnection(t, c))
  BY <1>1, CloseOneGood, Sides DEF CloseConnection
<1>. DEFINE p == [s EXCEPT !.pipes = {}, !.pipe = [d \in Side |-> <<>>]]
<1>2. Good(p)
  <2>1. [d \in Side |-> <<>>] \in Bytes
    BY DEF Bytes
  <2>2. Same(s, p)
    BY <2>1 DEF Good, Same, Shape, Sized
  <2>. QED
    BY <2>2, SameGood
<1>. HIDE DEF p
<1>3. Good(CloseConnection(p, c))
  BY <1>1, <1>2
<1>4. Good(HandlerClose(s, c))
  BY <1>3 DEF HandlerClose, p
<1>5. Good(CloseBackendOnly(s))
  BY CloseOneGood DEF CloseBackendOnly, Side
<1>. QED
  BY <1>1, <1>4, <1>5

(* Bytes that go from a read buffer to the peer's write buffer stay        *)
(* counted once.                                                           *)
LEMMA MoveGood ==
  ASSUME NEW s, Good(s), NEW f \in Side, NEW n \in Nat,
         n <= Count(s.rbuf, f), n <= Buf - Count(s.wbuf, Other(f)),
         NEW m, DOMAIN m = DOMAIN s, m.used = s.used,
         m.rbuf = Taken(s.rbuf, f, n), m.wbuf = Added(s.wbuf, Other(f), s.rbuf, f, n),
         m.outq = s.outq, m.inq = s.inq, m.pipe = s.pipe
  PROVE  Good(m)
<1>. DEFINE rb == Taken(s.rbuf, f, n)
            t == Other(f)
            wb == Added(s.wbuf, t, s.rbuf, f, n)
<1>0. Shape(s) /\ Sized(s) /\ Counted(s) /\ Kernel \in Nat /\ Buf \in Nat
  BY ForwardingAssumption DEF Good
<1>1. s.rbuf \in Bytes /\ s.wbuf \in Bytes
  BY <1>0 DEF Shape
<1>2. t \in Side /\ t # f /\ \A d \in Side : d = f \/ d = t
  BY Sides
<1>3. rb \in Bytes /\ Count(rb, f) = Count(s.rbuf, f) - n /\ \A d \in Side : d # f => Count(rb, d) = Count(s.rbuf, d)
  BY <1>1, TakeOff
<1>4. wb \in Bytes /\ Count(wb, t) = Count(s.wbuf, t) + n /\ \A d \in Side : d # t => Count(wb, d) = Count(s.wbuf, d)
  BY <1>1, <1>2, PutOn
<1>5. /\ Count(s.rbuf, f) \in Nat /\ Count(s.wbuf, t) \in Nat /\ Count(s.rbuf, f) <= Buf
      /\ Count(s.wbuf, f) \in Nat /\ Count(s.rbuf, t) \in Nat /\ n <= Buf - Count(s.wbuf, t)
  BY <1>0, <1>2, Numbers DEF Sized
<1>. HIDE DEF rb, wb, t
<1>6. m.rbuf = rb /\ m.wbuf = wb
  BY DEF rb, wb, t
<1>7. Sum(rb, wb) = Sum(s.rbuf, s.wbuf)
  <2>1. /\ Sum(rb, s.wbuf) = Sum(s.rbuf, s.wbuf) - (Count(s.rbuf, f) + Count(s.wbuf, f))
                              + (Count(rb, f) + Count(s.wbuf, f))
        /\ Sum(s.rbuf, s.wbuf) \in Nat
    BY <1>1, <1>3, SumChange
  <2>2. /\ Sum(rb, wb) = Sum(rb, s.wbuf) - (Count(rb, t) + Count(s.wbuf, t)) + (Count(rb, t) + Count(wb, t))
        /\ Sum(rb, s.wbuf) \in Nat
    BY <1>1, <1>2, <1>3, <1>4, SumChange
  <2>3. Count(rb, t) = Count(s.rbuf, t)
    BY <1>2, <1>3
  <2>. QED
    BY <1>3, <1>4, <1>5, <2>1, <2>2, <2>3
<1>8. Shape(m)
  BY <1>0, <1>3, <1>4, <1>6 DEF Shape
<1>9. Sized(m)
  <2>1. Count(rb, f) <= Buf /\ Count(wb, t) <= Buf
    BY <1>0, <1>3, <1>4, <1>5
  <2>2. Count(rb, t) <= Buf /\ Count(wb, f) <= Buf
    BY <1>0, <1>2, <1>3, <1>4 DEF Sized
  <2>3. \A d \in Side : Count(rb, d) <= Buf /\ Count(wb, d) <= Buf
    BY <1>2, <2>1, <2>2
  <2>. QED
    BY <1>0, <1>6, <2>3 DEF Sized
<1>10. Counted(m)
  BY <1>0, <1>6, <1>7 DEF Counted, HeldBy
<1>. QED
  BY <1>8, <1>9, <1>10 DEF Good

-----------------------------------------------------------------------------
(* Forwarding *)

(* DataForwarder::forward, and forward_with_buffers.                       *)
LEMMA CopyGood ==
  ASSUME NEW s, Good(s), NEW f \in Side
  PROVE  AllGood(Copy(s, f, Other(f))) /\ AllGood(CopyForPipe(s, f, Other(f)))
<1>. DEFINE t == Other(f)
            n == Least(Len(s.rbuf[f]), Buf - Len(s.wbuf[t]))
            rb == [s.rbuf EXCEPT ![f] = Rest(s.rbuf[f], n)]
            wb == [s.wbuf EXCEPT ![t] = s.wbuf[t] \o First(s.rbuf[f], n)]
            m == [s EXCEPT !.wbuf = wb, !.rbuf = rb, !.full = [s.full EXCEPT ![f] = FALSE]]
            p == [s EXCEPT !.wbuf = wb, !.rbuf = rb]
            q == Watch(Watch(m, t, Both), f, ReadEvents(m, f))
            r == Watch(Watch(StartBackpressure(p, f), t, Both), f, Both)
            blocked_s == Watch(StartBackpressure(s, f), f, {"OUT"})
<1>0. Shape(s) /\ Sized(s) /\ Buf \in Nat /\ t \in Side
  BY ForwardingAssumption, Sides DEF Good
<1>1. Good(m) /\ Good(p)
  <2>1. /\ Count(s.rbuf, f) \in Nat /\ Count(s.wbuf, t) \in Nat /\ Count(s.wbuf, t) <= Buf
        /\ n = Least(Count(s.rbuf, f), Buf - Count(s.wbuf, t))
    BY <1>0, Numbers DEF Sized, Count
  <2>2. /\ m.rbuf = Taken(s.rbuf, f, n) /\ m.wbuf = Added(s.wbuf, t, s.rbuf, f, n)
        /\ m.outq = s.outq /\ m.inq = s.inq /\ m.pipe = s.pipe /\ m.used = s.used /\ DOMAIN m = DOMAIN s
    BY <1>0 DEF Shape, Taken, Added
  <2>3. /\ p.rbuf = Taken(s.rbuf, f, n) /\ p.wbuf = Added(s.wbuf, t, s.rbuf, f, n)
        /\ p.outq = s.outq /\ p.inq = s.inq /\ p.pipe = s.pipe /\ p.used = s.used /\ DOMAIN p = DOMAIN s
    BY <1>0 DEF Shape, Taken, Added
  <2>. HIDE DEF n, m, p
  <2>4. n \in Nat /\ n <= Count(s.rbuf, f) /\ n <= Buf - Count(s.wbuf, t)
    BY <1>0, <2>1 DEF Least
  <2>. QED
    BY <2>2, <2>3, <2>4, MoveGood
<1>2. Good(q) /\ Good(r) /\ Good(blocked_s)
  <2>. HIDE DEF m, p
  <2>. QED
    BY <1>1, MarkGood
<1>3. AllGood(Copy(s, f, t))
  <2>1. Copy(s, f, t) =
          IF s.rbuf[f] = <<>> THEN {s}
          ELSE IF n = 0 THEN {blocked_s}
          ELSE {IF ~w.ok THEN CloseConnection(w.s, t)
                ELSE SetBackpressure(w.s, f, PendingSend(w.s, t)) : w \in WriteToFd(q, t)}
    BY DEF Copy
  <2>. HIDE DEF q, n, blocked_s, t
  <2>2. ASSUME NEW w \in WriteToFd(q, t)
        PROVE  Good(IF ~w.ok THEN CloseConnection(w.s, t) ELSE SetBackpressure(w.s, f, PendingSend(w.s, t)))
    <3>1. Good(w.s)
      BY <1>0, <1>2, WriteGood
    <3>2. Good(CloseConnection(w.s, t)) /\ Good(SetBackpressure(w.s, f, PendingSend(w.s, t)))
      BY <1>0, <3>1, CloseGood, MarkGood
    <3>. QED
      BY <3>2
  <2>. QED
    BY <1>2, <2>1, <2>2 DEF AllGood
<1>4. AllGood(CopyForPipe(s, f, t))
  <2>1. CopyForPipe(s, f, t) =
          IF s.rbuf[f] = <<>> THEN {s}
          ELSE IF n = 0 THEN {blocked_s}
          ELSE {IF ~w.ok THEN CloseConnection(w.s, t)
                ELSE SetBackpressure(w.s, f, w.s.wbuf[t] # <<>>) : w \in WriteToFd(r, t)}
    BY DEF CopyForPipe
  <2>. HIDE DEF r, n, blocked_s, t
  <2>2. ASSUME NEW w \in WriteToFd(r, t)
        PROVE  Good(IF ~w.ok THEN CloseConnection(w.s, t) ELSE SetBackpressure(w.s, f, w.s.wbuf[t] # <<>>))
    <3>1. Good(w.s)
      BY <1>0, <1>2, WriteGood
    <3>2. Good(CloseConnection(w.s, t)) /\ Good(SetBackpressure(w.s, f, w.s.wbuf[t] # <<>>))
      BY <1>0, <3>1, CloseGood, MarkGood
    <3>. QED
      BY <3>2
  <2>. QED
    BY <1>2, <2>1, <2>2 DEF AllGood
<1>. QED
  BY <1>3, <1>4

(* splice_out never overfills the send queue; the pipes are not counted.   *)
LEMMA DrainGood ==
  ASSUME NEW s, Good(s), NEW t \in Side, SpliceOut(s, t) >= 0
  PROVE  Good(Drain(s, t, SpliceOut(s, t)))
<1>. DEFINE n == SpliceOut(s, t)
            d == Drain(s, t, n)
            oq == Added(s.outq, t, s.pipe, t, n)
            pq == Taken(s.pipe, t, n)
<1>0. Shape(s) /\ Sized(s) /\ Kernel \in Nat
  BY ForwardingAssumption DEF Good
<1>1. /\ Count(s.pipe, t) \in Nat /\ Count(s.outq, t) \in Nat /\ Count(s.outq, t) <= Kernel
      /\ n = 0 \/ n = -1 \/ n = Least(Count(s.pipe, t), Kernel - Count(s.outq, t))
  BY <1>0, Numbers DEF SpliceOut, Sized, Count
<1>2. /\ d.rbuf = s.rbuf /\ d.wbuf = s.wbuf /\ d.used = s.used /\ d.inq = s.inq
      /\ d.outq = oq /\ d.pipe = pq /\ DOMAIN d = DOMAIN s
  BY <1>0 DEF Drain, Shape, Taken, Added
<1>. HIDE DEF n
<1>3. n \in Nat /\ n <= Count(s.pipe, t) /\ n <= Kernel - Count(s.outq, t)
  <2>1. n >= 0
    BY DEF n
  <2>. QED
    BY <1>0, <1>1, <2>1 DEF Least
<1>4. oq \in Bytes /\ Count(oq, t) = Count(s.outq, t) + n /\ \A c \in Side : c # t => Count(oq, c) = Count(s.outq, c)
  BY <1>0, <1>3, PutOn DEF Shape
<1>5. pq \in Bytes
  BY <1>0, <1>3, TakeOff DEF Shape
<1>. HIDE DEF oq, pq, d
<1>6. Count(oq, t) <= Kernel
  BY <1>0, <1>1, <1>3, <1>4
<1>7. Same(s, d)
  BY <1>0, <1>2, <1>4, <1>5, <1>6 DEF Same, Shape, Sized
<1>8. Good(d)
  BY <1>7, SameGood
<1>. QED
  BY <1>8 DEF d, n

(* SpliceForwarder::forward.                                               *)
LEMMA SpliceInGood ==
  ASSUME NEW s, Good(s), NEW f \in Side, NEW t \in Side PROVE Good(SpliceIn(s, f, t))
<1>. DEFINE n == Least(PipeSize - Len(s.pipe[t]), Len(s.inq[f]))
            in == Fill(s, f, t, n)
            out == SpliceOut(in, t)
            left == Drain(in, t, out)
<1>0. Shape(s) /\ Sized(s) /\ PipeSize \in Nat
  BY ForwardingAssumption DEF Good
<1>1. CASE PipeSize - Len(s.pipe[t]) <= 0 \/ n = 0
  <2>1. SpliceIn(s, f, t) = s \/ SpliceIn(s, f, t) = CloseConnection(s, f)
    BY <1>1 DEF SpliceIn
  <2>. QED
    BY <2>1, CloseGood
<1>2. CASE ~(PipeSize - Len(s.pipe[t]) <= 0) /\ n # 0
  <2>1. SpliceIn(s, f, t) = (IF out < 0 THEN CloseConnection(in, t)
                             ELSE IF left.pipe[t] # <<>> THEN Stall(left, f, t)
                             ELSE ClearBackpressure(left, f))
    BY <1>2 DEF SpliceIn
  <2>2. Good(in)
    <3>1. /\ Count(s.pipe, t) \in Nat /\ Count(s.inq, f) \in Nat /\ ~(PipeSize - Count(s.pipe, t) <= 0)
          /\ n = Least(PipeSize - Count(s.pipe, t), Count(s.inq, f))
      BY <1>0, <1>2, Numbers DEF Count
    <3>2. /\ in.rbuf = s.rbuf /\ in.wbuf = s.wbuf /\ in.used = s.used /\ in.outq = s.outq
          /\ in.inq = Taken(s.inq, f, n) /\ in.pipe = Added(s.pipe, t, s.inq, f, n) /\ DOMAIN in = DOMAIN s
      BY <1>0 DEF Fill, Shape, Taken, Added
    <3>. HIDE DEF n, in
    <3>3. n \in Nat /\ n <= Count(s.inq, f)
      BY <1>0, <3>1 DEF Least
    <3>4. Taken(s.inq, f, n) \in Bytes /\ Added(s.pipe, t, s.inq, f, n) \in Bytes
      BY <1>0, <3>3, TakeOff, PutOn DEF Shape
    <3>5. Same(s, in)
      BY <1>0, <3>2, <3>4 DEF Same, Shape, Sized
    <3>. QED
      BY <3>5, SameGood
  <2>. HIDE DEF in
  <2>3. CASE out < 0
    BY <2>1, <2>2, <2>3, CloseGood
  <2>4. CASE ~(out < 0)
    <3>1. out \in Int
      <4>1. Good(in) => Count(in.pipe, t) \in Nat /\ Count(in.outq, t) \in Nat /\ Kernel \in Nat
        BY Numbers, ForwardingAssumption DEF Good
      <4>2. out = 0 \/ out = -1 \/ out = Least(Count(in.pipe, t), Kernel - Count(in.outq, t))
        BY DEF SpliceOut, Count
      <4>. HIDE DEF out
      <4>. QED
        BY <2>2, <4>1, <4>2 DEF Least
    <3>2. Good(left)
      <4>1. SpliceOut(in, t) >= 0
        BY <2>4, <3>1
      <4>. QED
        BY <2>2, <4>1, DrainGood
    <3>. HIDE DEF left
    <3>3. Good(Stall(left, f, t)) /\ Good(ClearBackpressure(left, f))
      BY <3>2, MarkGood DEF Stall
    <3>. HIDE DEF out
    <3>. QED
      BY <2>1, <2>4, <3>3
  <2>. QED
    BY <2>3, <2>4
<1>. QED
  BY <1>1, <1>2

(* ... from its start.                                                     *)
LEMMA SpliceGood ==
  ASSUME NEW s, Good(s), NEW f \in Side, NEW t \in Side PROVE Good(Splice(s, f, t))
<1>. DEFINE out == SpliceOut(s, t)
<1>1. Good(SpliceIn(s, f, t)) /\ Good(CloseConnection(s, t)) /\ Good(Stall(s, f, t))
  BY SpliceInGood, CloseGood, MarkGood DEF Stall
<1>2. CASE out < 0 \/ out = 0 \/ s.pipe[t] = <<>>
  BY <1>1, <1>2 DEF Splice
<1>3. CASE ~(out < 0) /\ out # 0 /\ s.pipe[t] # <<>>
  <2>1. Count(s.pipe, t) \in Nat /\ Count(s.outq, t) \in Nat /\ Kernel \in Nat
    BY Numbers, ForwardingAssumption DEF Good
  <2>2. out = 0 \/ out = -1 \/ out = Least(Count(s.pipe, t), Kernel - Count(s.outq, t))
    BY DEF SpliceOut, Count
  <2>. HIDE DEF out
  <2>3. out >= 0
    BY <1>3, <2>1, <2>2 DEF Least
  <2>4. Good(Drain(s, t, out))
    BY <2>3, DrainGood DEF out
  <2>5. Good(SpliceIn(Drain(s, t, out), f, t))
    BY <2>4, SpliceInGood
  <2>6. Splice(s, f, t) = SpliceIn(Drain(s, t, out), f, t)
    BY <1>3 DEF Splice, out
  <2>. QED
    BY <2>5, <2>6
<1>. QED
  BY <1>2, <1>3

(* The forward callback.                                                   *)
LEMMA ForwardGood ==
  ASSUME NEW s, Good(s), NEW f \in Side
  PROVE  AllGood(Forward(s, f, Other(f))) /\ AllGood(ForwardBuffered(s, f))
<1>. DEFINE t == Other(f)
            p == [s EXCEPT !.pipes = s.pipes \cup {t}]
<1>0. t \in Side
  BY Sides
<1>1. Good(p)
  <2>1. Same(s, p)
    BY DEF Good, Same, Shape, Sized
  <2>. QED
    BY <2>1, SameGood
<1>2. Good(Splice(s, f, t)) /\ Good(Splice(p, f, t))
  <2>. HIDE DEF p, t
  <2>. QED
    BY <1>0, <1>1, SpliceGood
<1>3. AllGood(Copy(s, f, t)) /\ AllGood(CopyForPipe(s, f, t))
  BY CopyGood
<1>4. Forward(s, f, t) \in {{s}, Copy(s, f, t), {Splice(s, f, t)}, {Splice(p, f, t)} \cup CopyForPipe(s, f, t)}
  BY DEF Forward
<1>. HIDE DEF p
<1>5. AllGood(Forward(s, f, t))
  <2>. HIDE DEF t
  <2>. QED
    BY <1>2, <1>3, <1>4 DEF AllGood
<1>. QED
  BY <1>5 DEF ForwardBuffered, AllGood

-----------------------------------------------------------------------------
(* EventHandlers *)

(* The end of a stream, with what was buffered sent on first.              *)
LEMMA EndGood ==
  ASSUME NEW s, Good(s), NEW c \in Side PROVE AllGood(EndOfStream(s, c))
<1>1. \A x \in ForwardBuffered(s, c) : Good(x)
  BY ForwardGood DEF AllGood
<1>2. ASSUME NEW x, Good(x)
      PROVE  /\ Good(Watch(ShutdownWrite(x, "backend"), "client", {"OUT"}))
             /\ Good(CloseBackendOnly(ShutdownWrite(x, "client")))
  <2>1. Good(ShutdownWrite(x, "backend")) /\ Good(ShutdownWrite(x, "client"))
    BY <1>2, MarkGood
  <2>. QED
    BY <2>1, MarkGood, CloseGood
<1>3. Good(HandlerClose(s, c)) /\ Good(CloseBackendOnly(s))
  BY CloseGood
<1>. QED
  BY <1>1, <1>2, <1>3 DEF EndOfStream, AllGood

(* EPOLLIN.                                                                *)
LEMMA HandleReadGood ==
  ASSUME NEW s, Good(s), NEW c \in Side, limit \in Limits PROVE AllGood(HandleRead(s, c))
<1>. DEFINE r == ReadFromFd(s, c)
            q == Watch(r.s, c, {"OUT"})
<1>1. Good(r.s)
  BY ReadGood
<1>2. AllGood(Forward(s, c, Other(c)))
  BY ForwardGood
<1>3. HandleRead(s, c) \in {{s}, Forward(s, c, Other(c)), {Watch(StartBackpressure(r.s, c), c, {"OUT"})},
                            ForwardBuffered(q, c), ForwardBuffered(r.s, c),
                            UNION {EndOfStream(x, c) : x \in ForwardBuffered(r.s, c)}}
  BY DEF HandleRead
<1>. HIDE DEF r
<1>4. Good(q) /\ Good(StartBackpressure(r.s, c))
  BY <1>1, MarkGood
<1>5. Good(Watch(StartBackpressure(r.s, c), c, {"OUT"}))
  BY <1>4, MarkGood
<1>. HIDE DEF q
<1>6. AllGood(ForwardBuffered(q, c)) /\ AllGood(ForwardBuffered(r.s, c))
  BY <1>1, <1>4, ForwardGood
<1>7. AllGood(UNION {EndOfStream(x, c) : x \in ForwardBuffered(r.s, c)})
  <2>1. ASSUME NEW x \in ForwardBuffered(r.s, c) PROVE AllGood(EndOfStream(x, c))
    <3>1. Good(x)
      BY <1>6 DEF AllGood
    <3>. QED
      BY <3>1, EndGood
  <2>. QED
    BY <2>1 DEF AllGood
<1>. QED
  BY <1>2, <1>3, <1>5, <1>6, <1>7 DEF AllGood

(* EPOLLOUT.                                                               *)
LEMMA HandleWriteGood ==
  ASSUME NEW s, Good(s), NEW c \in Side PROVE AllGood(HandleWrite(s, c))
<1>1. ASSUME NEW x, Good(x) PROVE Good(AfterWrite(x, c))
  <2>. DEFINE own == IF c = "client" /\ ~x.blocked[c] THEN Watch(x, c, Both) ELSE x
              peer == IF ~Peered(own, c) THEN own
                      ELSE IF c = "client" THEN Watch(own, "backend", Both)
                      ELSE Watch(own, "client", ReadEvents(own, "client"))
  <2>1. Good(own)
    BY <1>1, MarkGood
  <2>2. Good(peer)
    <3>. HIDE DEF own
    <3>1. Good(Watch(own, "backend", Both)) /\ Good(Watch(own, "client", ReadEvents(own, "client")))
      BY <2>1, MarkGood
    <3>. QED
      BY <2>1, <3>1
  <2>3. AfterWrite(x, c) = TrackPending(peer, {c} \cup IF peer.paired THEN {Other(c)} ELSE {})
    BY DEF AfterWrite
  <2>. HIDE DEF peer
  <2>. QED
    BY <2>2, <2>3, MarkGood
<1>2. ASSUME NEW w \in WriteToFd(s, c) PROVE Good(AfterWrite(w.s, c)) /\ Good(HandlerClose(w.s, c))
  <2>1. Good(w.s)
    BY WriteGood
  <2>. QED
    BY <1>1, <2>1, CloseGood
<1>. QED
  BY <1>2 DEF HandleWrite, AllGood

(* A fresh backend socket has nothing to send.                             *)
LEMMA FreshGood ==
  ASSUME NEW s, Good(s), NEW st PROVE Good(FreshBackend(s, st))
<1>. DEFINE t == FreshBackend(s, st)
            iq == [s.inq EXCEPT !["backend"] = <<>>]
            oq == [s.outq EXCEPT !["backend"] = <<>>]
<1>0. Shape(s) /\ Sized(s) /\ Kernel \in Nat /\ "backend" \in Side
  BY ForwardingAssumption DEF Good, Side
<1>1. /\ t.rbuf = s.rbuf /\ t.wbuf = s.wbuf /\ t.used = s.used /\ t.pipe = s.pipe
      /\ t.inq = iq /\ t.outq = oq /\ DOMAIN t = DOMAIN s
  BY <1>0 DEF FreshBackend, Shape
<1>2. /\ iq \in Bytes /\ oq \in Bytes /\ Count(oq, "backend") = 0
      /\ \A d \in Side : d # "backend" => Count(oq, d) = Count(s.outq, d)
  BY <1>0, Emptied DEF Shape
<1>. HIDE DEF t, iq, oq
<1>3. Same(s, t)
  BY <1>0, <1>1, <1>2 DEF Same, Shape, Sized
<1>4. Good(t)
  BY <1>3, SameGood
<1>. QED
  BY <1>4 DEF t

(* A failed connect, and an error on an established backend.               *)
LEMMA BackendErrorGood ==
  ASSUME NEW s, Good(s), limit \in Limits
  PROVE  AllGood(RetryOrClose(s)) /\ AllGood(BackendError(s))
<1>. DEFINE r == ReadFromFd(s, "backend").s
<1>0. "backend" \in Side /\ "client" \in Side
  BY DEF Side
<1>1. Good(CloseBackendOnly(s)) /\ Good(HandlerClose(s, "backend"))
  BY <1>0, CloseGood
<1>2. AllGood(RetryOrClose(s))
  BY <1>1, FreshGood DEF RetryOrClose, AllGood
<1>3. Good(r)
  BY <1>0, ReadGood
<1>. HIDE DEF r
<1>4. Good(CloseBackendOnly(r)) /\ \A x \in ForwardBuffered(r, "backend") : Good(x)
  BY <1>0, <1>3, CloseGood, ForwardGood DEF AllGood
<1>5. ASSUME NEW x, Good(x)
      PROVE  Good(CloseBackendOnly(ShutdownWrite(Watch(x, "client", Both), "client")))
  <2>1. Good(Watch(x, "client", Both))
    BY <1>5, MarkGood
  <2>2. Good(ShutdownWrite(Watch(x, "client", Both), "client"))
    BY <2>1, MarkGood
  <2>. QED
    BY <1>0, <2>2, CloseGood
<1>6. AllGood(BackendError(s))
  BY <1>2, <1>4, <1>5 DEF BackendError, AllGood, r
<1>. QED
  BY <1>2, <1>6

(* The handler of one event.                                               *)
LEMMA HandleGood ==
  ASSUME NEW s, Good(s), NEW c \in Side, NEW event, limit \in Limits
  PROVE  AllGood(Handle(s, c, event))
<1>0. "backend" \in Side /\ "client" \in Side
  BY DEF Side
<1>1. ASSUME NEW x, Good(x), NEW d \in Side PROVE AllGood(Transfer(x, d, event))
  BY <1>1, HandleReadGood, HandleWriteGood DEF Transfer
<1>2. AllGood(RetryOrClose(s)) /\ AllGood(BackendError(s)) /\ Good(HandlerClose(s, c))
  BY BackendErrorGood, CloseGood
<1>3. Good(ConnectBackend(s))
  <2>. DEFINE e == [s EXCEPT !.state = [s.state EXCEPT !["backend"] = "ESTABLISHED"]]
  <2>1. Same(s, e)
    BY DEF Good, Same, Shape, Sized
  <2>. HIDE DEF e
  <2>2. Good(Watch(e, "backend", Both))
    BY <2>1, SameGood, MarkGood
  <2>. QED
    BY <2>2 DEF ConnectBackend, e
<1>4. \A x \in ForwardBuffered(ConnectBackend(s), "client") : Good(x)
  BY <1>0, <1>3, ForwardGood DEF AllGood
<1>5. AllGood(UNION {Transfer(x, "backend", event) : x \in ForwardBuffered(ConnectBackend(s), "client")})
  BY <1>0, <1>1, <1>4 DEF AllGood
<1>6. AllGood(BackendEvent(s, event))
  <2>1. AllGood(Transfer(s, "backend", event))
    BY <1>0, <1>1
  <2>. QED
    BY <1>2, <1>5, <2>1 DEF BackendEvent, AllGood
<1>7. AllGood(Transfer(s, c, event))
  BY <1>1
<1>. QED
  BY <1>2, <1>6, <1>7 DEF Handle, AllGood

-----------------------------------------------------------------------------
(* The steps *)

Inv == Good(Now) /\ limit \in Limits /\ sent \in [Side -> Nat]

(* A good snapshot becomes a good state.                                   *)
LEMMA BecomeGood ==
  ASSUME NEW s, Good(s), Become(s) PROVE Good(Now)'
<1>1. Same(s, Now)'
  BY DEF Good, Same, Shape, Sized, Become, Now
<1>. QED
  BY <1>1, SameGood

(* So does a step of the remote programs and of TCP.                       *)
LEMMA NetworkGood ==
  ASSUME Inv, UNCHANGED buffers, inq' \in Bytes, outq' \in Bytes,
         \A c \in Side : Count(outq, c)' <= Kernel
  PROVE  Good(Now)'
<1>1. Shape(Now) /\ Sized(Now) /\ Counted(Now)
  BY DEF Inv, Good
<1>2. Shape(Now')
  BY <1>1 DEF Shape, Now, buffers
<1>3. Sized(Now')
  BY <1>1 DEF Sized, Now, buffers, Count
<1>4. Counted(Now')
  BY <1>1 DEF Counted, HeldBy, Sum, Now, buffers
<1>. QED
  BY <1>2, <1>3, <1>4 DEF Good

(* Inv holds initially.                                                    *)
LEMMA InitInv == Init => Inv
<1>. SUFFICES ASSUME Init PROVE Inv
  OBVIOUS
<1>. DEFINE e == [c \in Side |-> <<>>]
<1>1. e \in Bytes /\ \A c \in Side : Count(e, c) = 0
  BY DEF Bytes, Count
<1>2. rbuf = e /\ wbuf = e /\ inq = e /\ outq = e /\ pipe = e /\ used = 0
  BY DEF Init
<1>. HIDE DEF e
<1>3. Shape(Now)
  BY <1>1, <1>2 DEF Shape, Now
<1>4. Sized(Now)
  BY <1>1, <1>2, ForwardingAssumption DEF Sized, Now
<1>5. Counted(Now)
  <2>1. Count(e, "client") = 0 /\ Count(e, "backend") = 0
    BY <1>1 DEF Side
  <2>. QED
    BY <1>2, <2>1 DEF Counted, HeldBy, Sum, Now
<1>6. limit \in Limits /\ sent \in [Side -> Nat]
  BY DEF Init
<1>. QED
  BY <1>3, <1>4, <1>5, <1>6 DEF Inv, Good

(* Inv is inductive.                                                       *)
LEMMA NextInv == Inv /\ [Next]_vars => Inv'
<1>. SUFFICES ASSUME Inv, [Next]_vars PROVE Inv'
  OBVIOUS
<1>0. Good(Now) /\ limit \in Limits /\ sent \in [Side -> Nat] /\ "client" \in Side /\ "backend" \in Side
  BY DEF Inv, Side
<1>00. /\ inq \in Bytes /\ outq \in Bytes /\ \A d \in Side : Count(outq, d) <= Kernel
  BY <1>0 DEF Good, Shape, Sized, Now
<1>1. CASE Poll
  <2>1. Good(Now)'
    BY <1>1, <1>00, NetworkGood DEF Poll, network, Count
  <2>. QED
    BY <1>0, <1>1, <2>1 DEF Poll, Inv
<1>2. CASE Tick
  <2>1. ASSUME NEW s, Good(s), NEW D PROVE Good(CloseAll(s, D))
    BY <1>0, <2>1, CloseGood DEF CloseAll
  <2>2. PICK expired \in SUBSET tracked, request \in SUBSET {"client"} :
          Become(CloseAll(CloseAll(Now, request), expired))
    BY <1>2 DEF Tick
  <2>3. Good(CloseAll(Now, request))
    BY <1>0, <2>1
  <2>4. Good(CloseAll(CloseAll(Now, request), expired))
    BY <2>1, <2>3
  <2>5. Good(Now)'
    BY <2>2, <2>4, BecomeGood
  <2>. QED
    BY <1>0, <1>2, <2>5 DEF Tick, Inv
<1>3. CASE Accept
  <2>. DEFINE e == [c \in Side |-> <<>>]
  <2>1. e \in Bytes /\ \A c \in Side : Count(e, c) = 0
    BY DEF Bytes, Count
  <2>2. PICK st \in {"CONNECTING", "ESTABLISHED"} :
          Become([FreshBackend(Now, st) EXCEPT
                    !.state = [c \in Side |-> IF c = "client" THEN "ESTABLISHED" ELSE st],
                    !.interest = [c \in Side |-> IF c = "client" \/ st = "ESTABLISHED" THEN Both ELSE {"OUT"}],
                    !.up = [c \in Side |-> c = "client" \/ st = "ESTABLISHED"],
                    !.outq = e,
                    !.eof = [c \in Side |-> FALSE], !.dead = [c \in Side |-> FALSE],
                    !.shut = [c \in Side |-> FALSE], !.got = e])
    BY <1>3 DEF Accept
  <2>. DEFINE s == FreshBackend(Now, st)
              t == [s EXCEPT
                    !.state = [c \in Side |-> IF c = "client" THEN "ESTABLISHED" ELSE st],
                    !.interest = [c \in Side |-> IF c = "client" \/ st = "ESTABLISHED" THEN Both ELSE {"OUT"}],
                    !.up = [c \in Side |-> c = "client" \/ st = "ESTABLISHED"],
                    !.outq = e,
                    !.eof = [c \in Side |-> FALSE], !.dead = [c \in Side |-> FALSE],
                    !.shut = [c \in Side |-> FALSE], !.got = e]
  <2>3. Good(s)
    BY <1>0, FreshGood
  <2>4. Become(t)
    BY <2>2
  <2>. HIDE DEF s, e
  <2>5. /\ t.rbuf = s.rbuf /\ t.wbuf = s.wbuf /\ t.used = s.used /\ t.pipe = s.pipe
        /\ t.inq = s.inq /\ t.outq = e /\ DOMAIN t = DOMAIN s
    BY <2>3 DEF Good, Shape
  <2>. HIDE DEF t
  <2>6. Same(s, t)
    BY <2>1, <2>3, <2>5, ForwardingAssumption DEF Same, Good, Shape
  <2>7. Good(t)
    BY <2>3, <2>6, SameGood
  <2>8. Good(Now)'
    BY <2>4, <2>7, BecomeGood
  <2>. QED
    BY <1>0, <1>3, <2>8 DEF Accept, Inv
<1>4. CASE Connected
  <2>1. Good(Now)'
    BY <1>4, <1>00, NetworkGood DEF Connected, local, Count
  <2>. QED
    BY <1>0, <1>4, <2>1 DEF Connected, local, Inv
<1>5. ASSUME NEW c \in Side, Dispatch(c) PROVE Inv'
  <2>1. ASSUME NEW S, AllGood(S), NEW event PROVE AllGood(HandleIf(S, c, event))
    <3>1. \A s \in S : AllGood(Handle(s, c, event))
      BY <1>0, <2>1, HandleGood DEF AllGood
    <3>. QED
      BY <2>1, <3>1 DEF HandleIf, AllGood
  <2>2. AllGood({Now})
    BY <1>0 DEF AllGood
  <2>3. AllGood(HandleIf({Now}, c, "ERR"))
    BY <2>1, <2>2
  <2>4. AllGood(HandleIf(HandleIf({Now}, c, "ERR"), c, "IN"))
    BY <2>1, <2>3
  <2>5. AllGood(HandleIf(HandleIf(HandleIf({Now}, c, "ERR"), c, "IN"), c, "OUT"))
    BY <2>1, <2>4
  <2>6. PICK s \in HandleIf(HandleIf(HandleIf({Now}, c, "ERR"), c, "IN"), c, "OUT") : Become(s)
    BY <1>5 DEF Dispatch
  <2>7. Good(Now)'
    BY <2>5, <2>6, BecomeGood DEF AllGood
  <2>. QED
    BY <1>0, <1>5, <2>7 DEF Dispatch, Inv
<1>6. ASSUME NEW c \in Side, Remote(c) PROVE Inv'
  <2>1. CASE Send(c)
    <3>1. sent[Other(c)] \in Nat /\ sent' \in [Side -> Nat]
      BY <1>0, <2>1, Sides DEF Send
    <3>2. inq' \in Bytes
      BY <1>00, <2>1, <3>1 DEF Send, Bytes
    <3>3. Good(Now)'
      BY <1>00, <2>1, <3>2, NetworkGood DEF Send, local, Count
    <3>. QED
      BY <1>0, <2>1, <3>1, <3>3 DEF Send, local, Inv
  <2>2. CASE Finish(c)
    <3>1. Good(Now)'
      BY <1>00, <2>2, NetworkGood DEF Finish, local, Count
    <3>. QED
      BY <1>0, <2>2, <3>1 DEF Finish, local, Inv
  <2>3. CASE Deliver(c)
    <3>1. outq[c] \in Seq(Nat) /\ outq[c] # <<>> /\ Len(outq[c]) <= Kernel /\ Kernel \in Nat
      BY <1>00, <2>3, ForwardingAssumption DEF Deliver, Bytes, Count
    <3>2. Tail(outq[c]) \in Seq(Nat) /\ Len(Tail(outq[c])) <= Kernel
      BY <3>1
    <3>3. outq' = [outq EXCEPT ![c] = Tail(outq[c])]
      BY <2>3 DEF Deliver
    <3>4. outq' \in Bytes /\ \A d \in Side : Count(outq, d)' <= Kernel
      BY <1>00, <3>2, <3>3 DEF Bytes, Count
    <3>5. Good(Now)'
      BY <1>00, <2>3, <3>4, NetworkGood DEF Deliver, local
    <3>. QED
      BY <1>0, <2>3, <3>5 DEF Deliver, local, Inv
  <2>4. CASE Reset(c)
    <3>1. outq' = [outq EXCEPT ![c] = <<>>]
      BY <2>4 DEF Reset
    <3>2. outq' \in Bytes /\ \A d \in Side : Count(outq, d)' <= Kernel
      BY <1>00, <3>1, ForwardingAssumption DEF Bytes, Count
    <3>3. Good(Now)'
      BY <1>00, <2>4, <3>2, NetworkGood DEF Reset, local
    <3>. QED
      BY <1>0, <2>4, <3>3 DEF Reset, local, Inv
  <2>. QED
    BY <1>6, <2>1, <2>2, <2>3, <2>4 DEF Remote
<1>7. CASE UNCHANGED vars
  <2>1. Good(Now)'
    BY <1>7, <1>00, NetworkGood DEF vars, network, Count
  <2>. QED
    BY <1>0, <1>7, <2>1 DEF vars, Inv
<1>. QED
  BY <1>1, <1>2, <1>3, <1>4, <1>5, <1>6, <1>7 DEF Next

(* The budget is never counted wrong: in either mode, for every buffer,    *)
(* pipe and send-queue size and every set of limits a reload may choose,   *)
(* used_bytes_ is what the buffers of the open connections hold, through   *)
(* refused and partly used reservations, retries and every way of closing; *)
(* if a reload may switch the limit off, it is at most that.               *)
THEOREM BudgetExact == Spec => []Budget
<1>1. Inv => Budget
  <2>. SUFFICES ASSUME Inv PROVE Budget
    OBVIOUS
  <2>1. Counted(Now) /\ Shape(Now)
    BY DEF Inv, Good
  <2>2. HeldBy(Now) = Held
    <3>1. /\ Count(rbuf, "client") \in Nat /\ Count(wbuf, "client") \in Nat
          /\ Count(rbuf, "backend") \in Nat /\ Count(wbuf, "backend") \in Nat
      BY <2>1, Numbers DEF Now, Side
    <3>2. Held = Count(rbuf, "client") + Count(wbuf, "client") + Count(rbuf, "backend") + Count(wbuf, "backend")
      BY DEF Held, Count
    <3>3. HeldBy(Now) = Sum(rbuf, wbuf)
      BY DEF HeldBy, Now
    <3>. QED
      BY <3>1, <3>2, <3>3 DEF Sum
  <2>. QED
    BY <2>1, <2>2 DEF Counted, Budget, Now
<1>. QED
  BY <1>1, InitInv, NextInv, PTL DEF Spec

=============================================================================
