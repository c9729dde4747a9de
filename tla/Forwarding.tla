----------------------------- MODULE Forwarding -----------------------------
(***************************************************************************)
(* How bytes move through a pair of connections: the two user-space        *)
(* buffers of each Connection, the MemoryBudget they are counted against,  *)
(* DataForwarder and SpliceForwarder, the back-pressure clocks, what       *)
(* EventHandlers does with each event, and the batch of events that one    *)
(* epoll_wait hands to EpollReactor::run.                                  *)
(*                                                                         *)
(* The sockets and the remote programs behind them are external: a receive *)
(* queue, a send queue of Kernel bytes that the remote acknowledges, ends  *)
(* of stream and resets, with level-triggered readiness.  A byte is its    *)
(* number in its direction's stream, counted over all pairs.               *)
(*                                                                         *)
(* One pair is open at a time; when both descriptors are closed, a new     *)
(* pair gets the same numbers, possibly while a batch is being handled.    *)
(* The reactor thread owns all of this, so the events of one descriptor    *)
(* are one step.  Operations are functions from a snapshot to the set of   *)
(* snapshots they can leave.  Where the code goes on with a Connection     *)
(* that a call has destroyed, nothing more is done: its state field no     *)
(* longer reads ESTABLISHED, and every later call finds no entry.          *)
(***************************************************************************)
EXTENDS Integers, Sequences

CONSTANTS
  Buf,        \* MAX_BUFFER_SIZE
  Kernel,     \* room in a socket's send queue
  PipeSize,   \* MAX_PIPE_SIZE
  UseSplice,  \* use_splice_
  Limits,     \* the values global_buffer_budget may be configured to
  MaxSent,    \* bound: bytes sent towards each side
  MaxPairs    \* bound: pairs opened one after the other

Side == {"client", "backend"}
Other(c) == IF c = "client" THEN "backend" ELSE "client"

ASSUME ForwardingAssumption ==
  /\ Buf \in Nat \ {0} /\ Kernel \in Nat \ {0} /\ PipeSize \in Nat \ {0}
  /\ UseSplice \in BOOLEAN /\ Limits \subseteq Nat /\ Limits # {}
  /\ MaxSent \in [Side -> Nat] /\ MaxPairs \in Nat \ {0}

VARIABLES
  state,     \* ConnectionState; CLOSED is no entry in connections_
  paired,    \* do the two connections point at each other?
  rbuf,      \* Connection::read_buf_
  wbuf,      \* Connection::write_buf_
  blocked,   \* Connection::memory_blocked_
  full,      \* Connection::buffer_full_
  interest,  \* the events the descriptor is registered for
  tracked,   \* the keys of backpressure_start_times_
  used,      \* MemoryBudget::used_bytes_
  limit,     \* MemoryBudget::limit_bytes_
  pipes,     \* SpliceForwarder::pipes_: the directions that have a pipe
  pipe,      \* the bytes in the pipe towards a side; pending is their number
  up,        \* external: the TCP connection exists
  inq,       \* external: received, not yet read
  eof,       \* external: the remote has sent its last byte
  dead,      \* external: the connection was reset or refused
  outq,      \* external: written, not yet acknowledged
  shut,      \* external: shutdown(SHUT_WR) was called
  sent,      \* external: bytes sent towards a side, over all pairs
  got,       \* external: bytes of this pair that the remote received
  batch,     \* the events of this epoll_wait that are still to be handled
  pairs      \* pairs opened so far

buffers == <<state, paired, rbuf, wbuf, blocked, full, interest, tracked, used,
             pipes, pipe>>
network == <<up, inq, eof, dead, outq, shut, got>>
vars == <<buffers, network, limit, sent, batch, pairs>>

Now == [state |-> state, paired |-> paired, rbuf |-> rbuf, wbuf |-> wbuf,
        blocked |-> blocked, full |-> full, interest |-> interest,
        tracked |-> tracked, used |-> used, pipes |-> pipes, pipe |-> pipe,
        up |-> up, inq |-> inq, eof |-> eof, dead |-> dead, outq |-> outq,
        shut |-> shut, got |-> got]

Become(s) ==
  /\ state' = s.state /\ paired' = s.paired /\ rbuf' = s.rbuf /\ wbuf' = s.wbuf
  /\ blocked' = s.blocked /\ full' = s.full /\ interest' = s.interest
  /\ tracked' = s.tracked /\ used' = s.used /\ pipes' = s.pipes /\ pipe' = s.pipe
  /\ up' = s.up /\ inq' = s.inq /\ eof' = s.eof /\ dead' = s.dead
  /\ outq' = s.outq /\ shut' = s.shut /\ got' = s.got

Least(m, n) == IF m < n THEN m ELSE n
First(q, n) == SubSeq(q, 1, n)
Rest(q, n) == SubSeq(q, n + 1, Len(q))
Both == {"IN", "OUT"}

-----------------------------------------------------------------------------
(* MemoryBudget *)

\* try_reserve; an unlimited budget counts nothing.
CanReserve(s, n) == limit = 0 \/ n = 0 \/ s.used + n <= limit
Reserve(s, n) == [s EXCEPT !.used = IF limit = 0 THEN s.used ELSE s.used + n]

\* release
Release(s, n) == [s EXCEPT !.used = IF s.used > n THEN s.used - n ELSE 0]

-----------------------------------------------------------------------------
(* Connection *)

Result(s, ok) == [s |-> s, ok |-> ok]

\* Mutant: what was reserved and not filled stays reserved.
ReadFromFdKeepsRoom(s, c) ==
  LET room == Buf - Len(s.rbuf[c])
      n == Least(room, Len(s.inq[c]))
      r == Reserve([s EXCEPT !.full = [s.full EXCEPT ![c] = FALSE]], room)
  IN  IF room <= 0
        THEN Result([s EXCEPT !.full = [s.full EXCEPT ![c] = TRUE]], TRUE)
      ELSE IF ~CanReserve(s, room)
        THEN Result([s EXCEPT !.full = [s.full EXCEPT ![c] = FALSE],
                              !.blocked = [s.blocked EXCEPT ![c] = TRUE]], TRUE)
      ELSE Result([r EXCEPT !.rbuf = [r.rbuf EXCEPT ![c] = r.rbuf[c] \o First(r.inq[c], n)],
                            !.inq = [r.inq EXCEPT ![c] = Rest(r.inq[c], n)],
                            !.blocked = [r.blocked EXCEPT ![c] = FALSE],
                            !.full = [r.full EXCEPT ![c] = n = room]],
                  n > 0 \/ ~(s.eof[c] \/ s.dead[c]))

(* read_from_fd: room for a whole buffer is reserved before the read, and  *)
(* what was not filled is released after it.  A failed read leaves         *)
(* memory_blocked_ as it was.                                              *)
ReadFromFd(s, c) ==
  LET room == Buf - Len(s.rbuf[c])
      n == Least(room, Len(s.inq[c]))
      r == Reserve([s EXCEPT !.full = [s.full EXCEPT ![c] = FALSE]], room)
  IN  IF room <= 0
        THEN Result([s EXCEPT !.full = [s.full EXCEPT ![c] = TRUE]], TRUE)
      ELSE IF ~CanReserve(s, room)
        THEN Result([s EXCEPT !.full = [s.full EXCEPT ![c] = FALSE],
                                  !.blocked = [s.blocked EXCEPT ![c] = TRUE]], TRUE)
      ELSE IF n = 0
        THEN Result(Release(r, room), ~(s.eof[c] \/ s.dead[c]))
      ELSE Result(Release([r EXCEPT !.rbuf = [r.rbuf EXCEPT ![c] = r.rbuf[c] \o First(r.inq[c], n)],
                                        !.inq = [r.inq EXCEPT ![c] = Rest(r.inq[c], n)],
                                        !.blocked = [r.blocked EXCEPT ![c] = FALSE],
                                        !.full = [r.full EXCEPT ![c] = n = room]],
                              room - n), TRUE)

\* The remote has acknowledged everything that was written.
Acknowledge(s, c) ==
  [s EXCEPT !.got = [s.got EXCEPT ![c] = s.got[c] \o s.outq[c]],
            !.outq = [s.outq EXCEPT ![c] = <<>>]]

(* write_to_fd; what is written may be acknowledged before the caller      *)
(* looks.                                                                  *)
WriteToFd(s, c) ==
  LET n == IF s.up[c] THEN Least(Kernel - Len(s.outq[c]), Len(s.wbuf[c])) ELSE 0
      w == Release([s EXCEPT !.wbuf = [s.wbuf EXCEPT ![c] = Rest(s.wbuf[c], n)],
                             !.outq = [s.outq EXCEPT ![c] = s.outq[c] \o First(s.wbuf[c], n)],
                             !.blocked = [s.blocked EXCEPT ![c] = FALSE]], n)
  IN  IF s.wbuf[c] = <<>> THEN {Result(s, TRUE)}
      ELSE IF s.shut[c] \/ s.dead[c] THEN {Result(s, FALSE)}
      ELSE IF n = 0 THEN {Result(s, TRUE)}
      ELSE {Result(w, TRUE), Result(Acknowledge(w, c), TRUE)}

\* has_pending_send: pending_kernel_bytes counts what is not acknowledged.
PendingSend(s, c) == s.wbuf[c] # <<>> \/ s.outq[c] # <<>>

\* Mutant: the buffers keep their bytes for the descriptor's next use.
CloseOneKeepsBytes(s, c) ==
  [s EXCEPT !.state = [s.state EXCEPT ![c] = "CLOSED"],
            !.interest = [s.interest EXCEPT ![c] = {}],
            !.tracked = s.tracked \ {c}, !.paired = FALSE,
            !.inq = [s.inq EXCEPT ![c] = <<>>],
            !.outq = [s.outq EXCEPT ![c] = IF s.inq[c] = <<>> THEN s.outq[c] ELSE <<>>]]

(* Connection::close, and what the close callers erase for the descriptor. *)
(* Closing a socket with unread bytes resets it.                           *)
CloseOne(s, c) ==
  LET r == Release(s, Len(s.rbuf[c]) + Len(s.wbuf[c]))
  IN  [r EXCEPT !.state = [r.state EXCEPT ![c] = "CLOSED"],
                !.rbuf = [r.rbuf EXCEPT ![c] = <<>>], !.wbuf = [r.wbuf EXCEPT ![c] = <<>>],
                !.blocked = [r.blocked EXCEPT ![c] = FALSE],
                !.full = [r.full EXCEPT ![c] = FALSE],
                !.interest = [r.interest EXCEPT ![c] = {}],
                !.tracked = r.tracked \ {c}, !.paired = FALSE,
                !.inq = [r.inq EXCEPT ![c] = <<>>],
                !.outq = [r.outq EXCEPT ![c] = IF r.inq[c] = <<>> THEN r.outq[c] ELSE <<>>]]

-----------------------------------------------------------------------------
(* ConnectionManager, and the close callback LoadBalancer gives to         *)
(* EventHandlers, the only one that drops the pipes.                       *)

CloseConnection(s, c) ==
  IF s.state[c] = "CLOSED" THEN s
  ELSE IF s.paired THEN CloseOne(CloseOne(s, Other(c)), c)
  ELSE CloseOne(s, c)

CloseBackendOnly(s) == IF s.state["backend"] = "CLOSED" THEN s ELSE CloseOne(s, "backend")

HandlerClose(s, c) ==
  CloseConnection([s EXCEPT !.pipes = {}, !.pipe = [d \in Side |-> <<>>]], c)

Established(s, c) == s.state[c] = "ESTABLISHED"
Peered(s, c) == s.paired /\ Established(s, Other(c))
Watch(s, c, events) == [s EXCEPT !.interest = [s.interest EXCEPT ![c] = events]]
StartBackpressure(s, c) == [s EXCEPT !.tracked = s.tracked \cup {c}]
ClearBackpressure(s, c) == [s EXCEPT !.tracked = s.tracked \ {c}]
SetBackpressure(s, c, on) == IF on THEN StartBackpressure(s, c) ELSE ClearBackpressure(s, c)
\* A connection out of memory, or with a full read buffer, is not read.
ReadEvents(s, c) == IF s.blocked[c] \/ s.full[c] THEN {"OUT"} ELSE Both

\* shutdown(SHUT_WR); a connection attempt in progress is aborted.
ShutdownWrite(s, c) ==
  [s EXCEPT !.shut = [s.shut EXCEPT ![c] = TRUE],
            !.dead = [s.dead EXCEPT ![c] = s.dead[c] \/ ~s.up[c]]]

-----------------------------------------------------------------------------
(* DataForwarder::forward *)

\* Mutant: the clock runs only when nothing could be copied.
CopyUntimed(s, f, t) ==
  LET n == Least(Len(s.rbuf[f]), Buf - Len(s.wbuf[t]))
      moved == [s EXCEPT !.wbuf = [s.wbuf EXCEPT ![t] = s.wbuf[t] \o First(s.rbuf[f], n)],
                         !.rbuf = [s.rbuf EXCEPT ![f] = Rest(s.rbuf[f], n)],
                         !.full = [s.full EXCEPT ![f] = FALSE]]
      ready == Watch(Watch(moved, t, Both), f, ReadEvents(moved, f))
  IN  IF s.rbuf[f] = <<>> THEN {s}
      ELSE IF n = 0 THEN {Watch(StartBackpressure(s, f), f, {"OUT"})}
      ELSE {IF ~w.ok THEN CloseConnection(w.s, t)
            ELSE ClearBackpressure(w.s, f) : w \in WriteToFd(ready, t)}

\* Copy what fits, then send what can be sent.
Copy(s, f, t) ==
  LET n == Least(Len(s.rbuf[f]), Buf - Len(s.wbuf[t]))
      moved == [s EXCEPT !.wbuf = [s.wbuf EXCEPT ![t] = s.wbuf[t] \o First(s.rbuf[f], n)],
                         !.rbuf = [s.rbuf EXCEPT ![f] = Rest(s.rbuf[f], n)],
                         !.full = [s.full EXCEPT ![f] = FALSE]]
      ready == Watch(Watch(moved, t, Both), f, ReadEvents(moved, f))
  IN  IF s.rbuf[f] = <<>> THEN {s}
      ELSE IF n = 0 THEN {Watch(StartBackpressure(s, f), f, {"OUT"})}
      ELSE {IF ~w.ok THEN CloseConnection(w.s, t)
            ELSE SetBackpressure(w.s, f, PendingSend(w.s, t)) : w \in WriteToFd(ready, t)}

-----------------------------------------------------------------------------
(* SpliceForwarder *)

\* splice_out: how many bytes leave the pipe towards t, or -1.
SpliceOut(s, t) ==
  IF s.pipe[t] = <<>> THEN 0
  ELSE IF s.shut[t] \/ s.dead[t] THEN -1
  ELSE IF s.up[t] THEN Least(Len(s.pipe[t]), Kernel - Len(s.outq[t])) ELSE 0

Drain(s, t, n) ==
  [s EXCEPT !.pipe = [s.pipe EXCEPT ![t] = Rest(s.pipe[t], n)],
            !.outq = [s.outq EXCEPT ![t] = s.outq[t] \o First(s.pipe[t], n)]]

\* splice_in: n bytes enter it.
Fill(s, f, t, n) ==
  [s EXCEPT !.pipe = [s.pipe EXCEPT ![t] = s.pipe[t] \o First(s.inq[f], n)],
            !.inq = [s.inq EXCEPT ![f] = Rest(s.inq[f], n)]]

\* The pipe could not be emptied: wait for t.
Stall(s, f, t) == Watch(StartBackpressure(s, f), t, Both)

\* forward, from splice_in on.
SpliceIn(s, f, t) ==
  LET room == PipeSize - Len(s.pipe[t])
      n == Least(room, Len(s.inq[f]))
      in == Fill(s, f, t, n)
      out == SpliceOut(in, t)
      left == Drain(in, t, out)
  IN  IF room <= 0 THEN s
      ELSE IF n = 0 THEN IF s.eof[f] \/ s.dead[f] THEN CloseConnection(s, f) ELSE s
      ELSE IF out < 0 THEN CloseConnection(in, t)
      ELSE IF left.pipe[t] # <<>> THEN Stall(left, f, t)
      ELSE ClearBackpressure(left, f)

Splice(s, f, t) ==
  LET out == SpliceOut(s, t)
  IN  IF s.pipe[t] = <<>> THEN SpliceIn(s, f, t)
      ELSE IF out < 0 THEN CloseConnection(s, t)
      ELSE IF out = 0 THEN Stall(s, f, t)
      ELSE SpliceIn(Drain(s, t, out), f, t)

\* forward_with_buffers, when pipe2 fails.
CopyForPipe(s, f, t) ==
  LET n == Least(Len(s.rbuf[f]), Buf - Len(s.wbuf[t]))
      moved == [s EXCEPT !.wbuf = [s.wbuf EXCEPT ![t] = s.wbuf[t] \o First(s.rbuf[f], n)],
                         !.rbuf = [s.rbuf EXCEPT ![f] = Rest(s.rbuf[f], n)]]
      ready == Watch(Watch(StartBackpressure(moved, f), t, Both), f, Both)
  IN  IF s.rbuf[f] = <<>> THEN {s}
      ELSE IF n = 0 THEN {Watch(StartBackpressure(s, f), f, {"OUT"})}
      ELSE {IF ~w.ok THEN CloseConnection(w.s, t)
            ELSE SetBackpressure(w.s, f, w.s.wbuf[t] # <<>>) : w \in WriteToFd(ready, t)}

(* The forward callback: what is sent on depends on the mode, and in       *)
(* splice mode on whether the pipe exists or can be made.                  *)
Forward(s, f, t) ==
  IF ~(Established(s, f) /\ Established(s, t)) THEN {s}
  ELSE IF ~UseSplice THEN Copy(s, f, t)
  ELSE IF t \in s.pipes THEN {Splice(s, f, t)}
  ELSE {Splice([s EXCEPT !.pipes = s.pipes \cup {t}], f, t)} \cup CopyForPipe(s, f, t)

-----------------------------------------------------------------------------
(* EventHandlers *)

ForwardBuffered(s, c) ==
  IF Peered(s, c) /\ s.rbuf[c] # <<>> THEN Forward(s, c, Other(c)) ELSE {s}

\* The remote of c has finished, or the read failed.
EndOfStream(s, c) ==
  IF s.state[c] = "CLOSED" THEN {s}
  ELSE IF Peered(s, c)
    THEN {IF x.state[c] = "CLOSED" THEN x
          ELSE IF c = "client" THEN Watch(ShutdownWrite(x, "backend"), "client", {"OUT"})
          ELSE CloseBackendOnly(ShutdownWrite(x, "client")) : x \in ForwardBuffered(s, c)}
  ELSE {IF c = "client" THEN HandlerClose(s, c) ELSE CloseBackendOnly(s)}

HandleRead(s, c) ==
  LET r == ReadFromFd(s, c)
  IN  IF ~Established(s, c) THEN {s}
      ELSE IF UseSplice /\ Peered(s, c) THEN Forward(s, c, Other(c))
      ELSE IF r.s.blocked[c] THEN {Watch(StartBackpressure(r.s, c), c, {"OUT"})}
      ELSE IF r.s.full[c] THEN ForwardBuffered(Watch(r.s, c, {"OUT"}), c)
      ELSE IF r.ok THEN ForwardBuffered(r.s, c)
      ELSE UNION {EndOfStream(x, c) : x \in ForwardBuffered(r.s, c)}

\* start_backpressure_ for every side in D that has bytes to send.
TrackPending(s, D) == [s EXCEPT !.tracked = s.tracked \cup {c \in D : PendingSend(s, c)}]

\* Mutant: a write does not re-arm EPOLLIN.
AfterWriteUnwatched(s, c) == TrackPending(s, {c} \cup IF s.paired THEN {Other(c)} ELSE {})

\* What follows a write that did not fail.
AfterWrite(s, c) ==
  LET own == IF c = "client" /\ ~s.blocked[c] THEN Watch(s, c, Both) ELSE s
      peer == IF ~Peered(own, c) THEN own
              ELSE IF c = "client" THEN Watch(own, "backend", Both)
              ELSE Watch(own, "client", ReadEvents(own, "client"))
  IN  TrackPending(peer, {c} \cup IF peer.paired THEN {Other(c)} ELSE {})

HandleWrite(s, c) ==
  IF ~Established(s, c) THEN {s}
  ELSE {IF w.ok THEN AfterWrite(w.s, c) ELSE HandlerClose(w.s, c) : w \in WriteToFd(s, c)}

\* A connecting socket with no error pending counts as connected.
ConnectBackend(s) ==
  Watch([s EXCEPT !.state = [s.state EXCEPT !["backend"] = "ESTABLISHED"]], "backend", Both)

\* BackendConnector::connect gives the client another backend socket.
FreshBackend(s, st) ==
  [s EXCEPT !.state = [s.state EXCEPT !["backend"] = st], !.paired = TRUE,
            !.interest = [s.interest EXCEPT !["backend"] = IF st = "ESTABLISHED" THEN Both ELSE {"OUT"}],
            !.up = [s.up EXCEPT !["backend"] = st = "ESTABLISHED"],
            !.inq = [s.inq EXCEPT !["backend"] = <<>>],
            !.outq = [s.outq EXCEPT !["backend"] = <<>>],
            !.eof = [s.eof EXCEPT !["backend"] = FALSE],
            !.dead = [s.dead EXCEPT !["backend"] = FALSE],
            !.shut = [s.shut EXCEPT !["backend"] = FALSE]]

\* try_retry_on_backend_error, or the end of the retries (see Connections).
RetryOrClose(s) ==
  {FreshBackend(CloseBackendOnly(s), st) : st \in {"CONNECTING", "ESTABLISHED"}}
  \cup {HandlerClose(s, "backend")}

BackendError(s) ==
  IF s.state["backend"] = "CONNECTING" THEN RetryOrClose(s)
  ELSE LET r == ReadFromFd(s, "backend").s
       IN  IF ~Peered(r, "backend") THEN {CloseBackendOnly(r)}
           ELSE {IF x.state["backend"] = "CLOSED" THEN x
                 ELSE CloseBackendOnly(ShutdownWrite(Watch(x, "client", Both), "client")) :
                   x \in ForwardBuffered(r, "backend")}

Transfer(s, c, event) == IF event = "IN" THEN HandleRead(s, c) ELSE HandleWrite(s, c)

\* Anything but an error on a connecting socket first settles the connect.
BackendEvent(s, event) ==
  IF s.state["backend"] # "CONNECTING" THEN Transfer(s, "backend", event)
  ELSE (IF s.dead["backend"] THEN {}
        ELSE UNION {Transfer(x, "backend", event) : x \in ForwardBuffered(ConnectBackend(s), "client")})
       \cup RetryOrClose(s)

(* handle_client_event and handle_backend_event: a clock that has run out  *)
(* closes the pair before anything else is done.                           *)
Handle(s, c, event) ==
  IF s.state[c] = "CLOSED" THEN {s}
  ELSE {HandlerClose(s, c) : x \in s.tracked \cap {c}}
       \cup IF event = "ERR" THEN IF c = "client" THEN {HandlerClose(s, c)} ELSE BackendError(s)
            ELSE IF c = "client" THEN Transfer(s, c, event)
            ELSE BackendEvent(s, event)

-----------------------------------------------------------------------------
(* EpollReactor::run *)

\* What epoll reports for c: level-triggered, errors whether asked or not.
Ready(c) ==
  IF state[c] = "CLOSED" THEN {}
  ELSE {e \in {"ERR", "IN", "OUT"} :
          \/ e = "ERR" /\ (dead[c] \/ (shut[c] /\ eof[c]))
          \/ e = "IN" /\ e \in interest[c] /\ (inq[c] # <<>> \/ eof[c] \/ dead[c])
          \/ e = "OUT" /\ e \in interest[c] /\ ((up[c] /\ Len(outq[c]) < Kernel) \/ shut[c] \/ dead[c])}

Collect == /\ batch = [c \in Side |-> {}]
           /\ batch' = [c \in Side |-> Ready(c)]

(* epoll_wait returns.                                                     *)
Poll ==
  /\ Collect
  /\ UNCHANGED <<buffers, network, limit, sent, pairs>>

\* CloseConnection for every side in D.
CloseAll(s, D) ==
  LET one == IF "client" \in D THEN CloseConnection(s, "client") ELSE s
  IN  IF "backend" \in D THEN CloseConnection(one, "backend") ELSE one

(* It returns and the periodic callback runs before the events are         *)
(* handled: a reload may change the budget, check_request_timeouts may     *)
(* close the client, check_backpressure_timeouts the clocks that ran out.  *)
Tick ==
  /\ Collect
  /\ \E expired \in SUBSET tracked, request \in SUBSET {"client"} :
       Become(CloseAll(CloseAll(Now, request), expired))
  /\ limit' \in Limits
  /\ UNCHANGED <<sent, pairs>>

\* The handler is called for each event of c, while c stays registered.
HandleIf(S, c, event) ==
  IF event \in batch[c] THEN UNION {Handle(s, c, event) : s \in S} ELSE S

(* The events of one descriptor are handled.                               *)
Dispatch(c) ==
  /\ batch[c] # {} /\ batch' = [batch EXCEPT ![c] = {}]
  /\ \E s \in HandleIf(HandleIf(HandleIf({Now}, c, "ERR"), c, "IN"), c, "OUT") : Become(s)
  /\ UNCHANGED <<limit, sent, pairs>>

(* A client is accepted and paired on the descriptors that were closed.    *)
Accept ==
  /\ pairs < MaxPairs /\ state = [c \in Side |-> "CLOSED"]
  /\ pairs' = pairs + 1
  /\ \E st \in {"CONNECTING", "ESTABLISHED"} :
       Become([FreshBackend(Now, st) EXCEPT
                 !.state = [c \in Side |-> IF c = "client" THEN "ESTABLISHED" ELSE st],
                 !.interest = [c \in Side |-> IF c = "client" \/ st = "ESTABLISHED" THEN Both ELSE {"OUT"}],
                 !.up = [c \in Side |-> c = "client" \/ st = "ESTABLISHED"],
                 !.outq = [c \in Side |-> <<>>],
                 !.eof = [c \in Side |-> FALSE], !.dead = [c \in Side |-> FALSE],
                 !.shut = [c \in Side |-> FALSE], !.got = [c \in Side |-> <<>>]])
  /\ UNCHANGED <<limit, sent, batch>>

-----------------------------------------------------------------------------
(* External: the remote programs and TCP *)

Alive(c) == state[c] # "CLOSED" /\ ~dead[c]
local == <<buffers, limit, batch, pairs>>

Send(c) ==
  /\ Alive(c) /\ up[c] /\ ~eof[c] /\ sent[Other(c)] < MaxSent[Other(c)]
  /\ sent' = [sent EXCEPT ![Other(c)] = @ + 1]
  /\ inq' = [inq EXCEPT ![c] = Append(@, sent[Other(c)] + 1)]
  /\ UNCHANGED <<local, up, eof, dead, outq, shut, got>>

Finish(c) ==
  /\ Alive(c) /\ up[c] /\ ~eof[c] /\ eof' = [eof EXCEPT ![c] = TRUE]
  /\ UNCHANGED <<local, up, inq, dead, outq, shut, sent, got>>

Deliver(c) ==
  /\ outq[c] # <<>> /\ outq' = [outq EXCEPT ![c] = Tail(@)]
  /\ got' = [got EXCEPT ![c] = Append(@, Head(outq[c]))]
  /\ UNCHANGED <<local, up, inq, eof, dead, shut, sent>>

Reset(c) ==
  /\ Alive(c) /\ dead' = [dead EXCEPT ![c] = TRUE]
  /\ outq' = [outq EXCEPT ![c] = <<>>]
  /\ UNCHANGED <<local, up, inq, eof, shut, sent, got>>

Connected ==
  /\ Alive("backend") /\ ~up["backend"] /\ up' = [up EXCEPT !["backend"] = TRUE]
  /\ UNCHANGED <<local, inq, eof, dead, outq, shut, sent, got>>

Remote(c) == Send(c) \/ Finish(c) \/ Deliver(c) \/ Reset(c)

Init ==
  /\ state = [c \in Side |-> "CLOSED"] /\ paired = FALSE
  /\ rbuf = [c \in Side |-> <<>>] /\ wbuf = [c \in Side |-> <<>>]
  /\ blocked = [c \in Side |-> FALSE] /\ full = [c \in Side |-> FALSE]
  /\ interest = [c \in Side |-> {}] /\ tracked = {}
  /\ used = 0 /\ limit \in Limits
  /\ pipes = {} /\ pipe = [c \in Side |-> <<>>]
  /\ up = [c \in Side |-> FALSE] /\ inq = [c \in Side |-> <<>>]
  /\ eof = [c \in Side |-> FALSE] /\ dead = [c \in Side |-> FALSE]
  /\ outq = [c \in Side |-> <<>>] /\ shut = [c \in Side |-> FALSE]
  /\ sent = [c \in Side |-> 0] /\ got = [c \in Side |-> <<>>]
  /\ batch = [c \in Side |-> {}] /\ pairs = 0

Next ==
  \/ Poll \/ Tick \/ Accept \/ Connected
  \/ \E c \in Side : Dispatch(c) \/ Remote(c)

Spec == Init /\ [][Next]_vars

(* The reactor loop goes on: epoll_wait returns and every batch is handled *)
(* to its end.  TCP acknowledges what was written and settles a connection *)
(* attempt.  The remote programs owe nothing.                              *)
FairSpec ==
  /\ Spec /\ WF_vars(Poll) /\ WF_vars(~up["backend"] /\ (Connected \/ Reset("backend")))
  /\ \A c \in Side : WF_vars(Deliver(c)) /\ []<>(batch[c] = {})

-----------------------------------------------------------------------------
(* Properties *)

(* Buffers, queues and pipes hold bytes, and no user-space buffer more than*)
(* MAX_BUFFER_SIZE of them; every flag, clock and event set is in range.   *)
TypeOK ==
  /\ state \in [Side -> {"CLOSED", "CONNECTING", "ESTABLISHED"}] /\ paired \in BOOLEAN
  /\ rbuf \in [Side -> Seq(Nat)] /\ wbuf \in [Side -> Seq(Nat)]
  /\ \A c \in Side : Len(rbuf[c]) <= Buf /\ Len(wbuf[c]) <= Buf
  /\ blocked \in [Side -> BOOLEAN] /\ full \in [Side -> BOOLEAN]
  /\ interest \in [Side -> SUBSET Both] /\ tracked \subseteq Side
  /\ used \in Nat /\ limit \in Limits
  /\ pipes \subseteq Side /\ pipe \in [Side -> Seq(Nat)]
  /\ up \in [Side -> BOOLEAN] /\ inq \in [Side -> Seq(Nat)] /\ outq \in [Side -> Seq(Nat)]
  /\ eof \in [Side -> BOOLEAN] /\ dead \in [Side -> BOOLEAN] /\ shut \in [Side -> BOOLEAN]
  /\ sent \in [Side -> Nat] /\ got \in [Side -> Seq(Nat)]
  /\ batch \in [Side -> SUBSET {"ERR", "IN", "OUT"}] /\ pairs \in Nat

Held == Len(rbuf["client"]) + Len(wbuf["client"]) + Len(rbuf["backend"]) + Len(wbuf["backend"])

(* MemoryBudget counts exactly the bytes in the buffers of the open        *)
(* connections, through reservations that were refused or larger than the  *)
(* read, retries and every way of closing; when reloads may switch the     *)
(* limit off and on, it never counts more than there are.                  *)
Budget == used <= Held /\ (0 \notin Limits => used = Held)

BothUp == paired /\ \A c \in Side : state[c] = "ESTABLISHED"
Waiting(c) == BothUp /\ (rbuf[c] # <<>> \/ pipe[Other(c)] # <<>>) /\ c \notin tracked

(* On an established pair, no step leaves bytes of c that could not be sent*)
(* on without the back-pressure clock of c running (forward starts it), so *)
(* that a receiver that stays stuck is given up after the timeout.  Bytes  *)
(* read before the backend was connected are the exception.                *)
LeftIsTimed == [][\A c \in Side : BothUp /\ Waiting(c)' => Waiting(c)]_vars

(* Reading that was paused, because a buffer was full or the receiver slow,*)
(* is taken up again or the connection ends: the WRITE events that re-arm  *)
(* EPOLLIN are never all lost.  A connection that ran out of the memory    *)
(* budget is left out; nothing resumes that one but a write.               *)
Resumes == \A c \in Side : state[c] = "ESTABLISHED" /\ "IN" \notin interest[c] /\ ~blocked[c]
                           ~> state[c] # "ESTABLISHED" \/ "IN" \in interest[c] \/ blocked[c]

(* What is on its way towards d: in the send queue, the write buffer, and  *)
(* while the pair lasts the pipe, the peer's read buffer and its socket.   *)
Broken(d) == ~paired \/ (dead[d] /\ state[d] # "CONNECTING")
InFlight(d) ==
  IF dead[d] /\ state[d] # "CONNECTING" THEN <<>>
  ELSE outq[d] \o wbuf[d] \o (IF paired THEN pipe[d] \o rbuf[Other(d)] \o inq[Other(d)] ELSE <<>>)
Streams == INSTANCE ByteStream WITH
  Direction <- Side, flight <- [d \in Side |-> InFlight(d)], cut <- {d \in Side : Broken(d)}

(* Forwarding implements ByteStream: through partial reads and writes, full*)
(* buffers, refused memory, half-closed connections, retries and events    *)
(* left over from descriptors that were closed and used again, each side   *)
(* gets the bytes of its own pair, in order, none twice and none skipped.  *)
ByteStreams == Streams!Spec
=============================================================================
