-------------------------- MODULE HttpForwarding ---------------------------
(***************************************************************************)
(* HTTP mode on one client descriptor: the resumable request and response  *)
(* parsers, HttpDataForwarder with the state it keeps per descriptor, the  *)
(* access log entries it and ConnectionManager write, and the session key  *)
(* LoadBalancer keeps per descriptor.  Client connections come and go, and *)
(* the next one gets the same descriptor number.                           *)
(*                                                                         *)
(* Bytes are lines and body bytes ("units"); a read returns any number of  *)
(* them.  The socket side (back-pressure, budgets, epoll) is Forwarding's: *)
(* here a buffer takes any part of what is copied, the budget may refuse,  *)
(* a write may fail and a connection may end at any time.                  *)
(***************************************************************************)
EXTENDS HttpHeaders, SequencesExt

CONSTANTS
  Requests, Responses,   \* what remote programs send: [headers, body], see Units
  ToAdd, ToRemove,       \* http_headers.request.add and .remove
  Pool,                  \* whether connection_pool is enabled
  MaxClients,            \* client connections, one after the other
  MaxRequests            \* requests over all of them

ASSUME HttpAssumption == Pool \in BOOLEAN /\ MaxClients \in Nat /\ MaxRequests \in Nat

VARIABLES
  accepted,   \* client connections accepted so far, all with the same descriptor
  client,     \* the one that holds the descriptor, 0 when it is free
  backend,    \* its backend connection: "none", "connecting" or "up"; "idle" in the pool
  rbuf,       \* read_buffer of each side
  http,       \* http_states_[client_fd]
  key,        \* client_session_keys_[client_fd]
  arrived,    \* what the remote program of each open connection was given
  log,        \* access log entries
  seen,       \* requests the request parser recognised (history)
  irregular,  \* what happened that a plain exchange is spared (history)
  wire,       \* units sent by each remote program, not read yet (external)
  sent,       \* the requests: [client, m] (external)
  answered    \* how many of the requests it was given the backend answered (external)

vars == <<accepted, client, backend, rbuf, http, key, arrived, log, seen, irregular, wire, sent, answered>>

Side == {"client", "backend"}
Other(x) == IF x = "client" THEN "backend" ELSE "client"

Now == [accepted |-> accepted, client |-> client, backend |-> backend, rbuf |-> rbuf, http |-> http, key |-> key,
        arrived |-> arrived, log |-> log, seen |-> seen, irregular |-> irregular,
        wire |-> wire, sent |-> sent, answered |-> answered]
Become(s) ==
  /\ accepted' = s.accepted /\ client' = s.client /\ backend' = s.backend /\ rbuf' = s.rbuf /\ http' = s.http
  /\ key' = s.key /\ arrived' = s.arrived /\ log' = s.log /\ seen' = s.seen
  /\ irregular' = s.irregular /\ wire' = s.wire /\ sent' = s.sent /\ answered' = s.answered

Nothing == [x \in Side |-> <<>>]

(***************************************************************************)
(* Messages.  Request r and its response carry the number r.               *)
(***************************************************************************)
Units(first, r, m) ==
  <<[k |-> first, r |-> r]>>
    \o [i \in 1 .. Len(m.headers) |-> [k |-> "header", n |-> m.headers[i][1], v |-> m.headers[i][2]]]
    \o m.junk \o <<[k |-> "blank"]>> \o [i \in 1 .. m.body |-> [k |-> "body", r |-> r]]

Numbers(units, kind) ==
  LET s == SelectSeq(units, LAMBDA u : u.k = kind) IN [i \in DOMAIN s |-> s[i].r]

Junk == [k |-> "junk"]   \* a line that is no header: it has no colon

(***************************************************************************)
(* HttpRequestParser and HttpResponseParser.  parse() starts at the first  *)
(* byte of the buffer every time and keeps state_ from the last call.      *)
(***************************************************************************)
NewParser == [state |-> "first", err |-> FALSE, length |-> 0, first |-> 0,
              headers |-> NoHeaders, body |-> <<>>]

IsContentLength(n) == n \in {<<"content-length", 0>>, <<"content-length", 1>>}

parse_header(p, u) ==
  [p EXCEPT !.headers = Put(p.headers, u.n, u.v),
            !.length = IF IsContentLength(u.n) THEN u.v[1] ELSE p.length]

ParseLine(p, u, first) ==
  CASE p.state = "first" /\ u.k = first -> [p EXCEPT !.first = u.r, !.state = "headers"]
    [] p.state = "headers" /\ u.k = "blank" -> [p EXCEPT !.state = "body"]
    [] p.state = "headers" /\ u.k = "header" -> parse_header(p, u)
    [] OTHER -> [p EXCEPT !.err = TRUE]

ParseLines(p, buf, first) ==
  FoldLeft(LAMBDA a, u : IF a.p.err \/ a.p.state \in {"body", "complete"} THEN a
                         ELSE [p |-> ParseLine(a.p, u, first), consumed |-> a.consumed + 1],
           [p |-> p, consumed |-> 0], buf)

RequestBody(p, buf, consumed) ==
  IF p.length = 0 THEN [p EXCEPT !.state = "complete"]
  ELSE IF Len(buf) - consumed < p.length THEN p
  ELSE [p EXCEPT !.body = SubSeq(buf, consumed + 1, consumed + p.length), !.state = "complete"]

ResponseBody(p, buf, consumed) ==
  LET last == IF p.length = 0 THEN Len(buf) ELSE Min({Len(buf), consumed + p.length})
      q    == [p EXCEPT !.body = SubSeq(buf, consumed + 1, last)]
  IN IF p.length > 0 /\ Len(q.body) # p.length THEN q ELSE [q EXCEPT !.state = "complete"]

parse(p, buf, first) ==
  LET a == ParseLines(p, buf, first)
  IN IF p.err \/ a.p.state # "body" THEN a.p
     ELSE IF first = "request" THEN RequestBody(a.p, buf, a.consumed)
     ELSE ResponseBody(a.p, buf, a.consumed)

(* serialize_http_request and _response: what is left of the buffer after  *)
(* the message is not in it.                                               *)
serialize(first, p) ==
  <<[k |-> first, r |-> p.first]>>
    \o FoldSet(LAMBDA n, a : Append(a, [k |-> "header", n |-> n, v |-> p.headers[n]]),
               <<>>, DOMAIN p.headers)
    \o <<[k |-> "blank"]>> \o p.body

(***************************************************************************)
(* HttpDataForwarder.  request_info.req = 0 is the empty method.           *)
(***************************************************************************)
NewInfo == [req |-> 0, client |-> 0, status |-> 0, backend |-> FALSE]
NewState == [known |-> FALSE, parser |-> NewParser, request_parsed |-> FALSE,
             response_parser |-> NewParser, response_parsed |-> FALSE, info |-> NewInfo]

is_http_request(buf) == buf[1].k = "request"

Note(s, what) == [s EXCEPT !.irregular = s.irregular \cup {what}]

Entry(info) == [req |-> info.req, client |-> info.client, status |-> info.status,
                backend |-> info.backend]

(* AccessLogger::log, through either callback.                             *)
LogRequest(s) ==
  IF s.http.info.req = 0 THEN s ELSE [s EXCEPT !.log = Append(s.log, Entry(s.http.info))]

\* Mutant: the pooled backend keeps its buffers.
UnpairedKeepsBuffers(s, b) ==
  [s EXCEPT !.client = 0, !.backend = b, !.arrived["client"] = <<>>,
            !.rbuf = IF b = "idle" THEN [s.rbuf EXCEPT !["client"] = <<>>] ELSE Nothing]

(* ConnectionManager::close_connection of the client's descriptor: a       *)
(* request without a complete response is logged and its state erased, and *)
(* the backend connection goes to the pool with its buffers cleared.       *)
Unpaired(s, b) ==
  [s EXCEPT !.client = 0, !.backend = b, !.rbuf = Nothing, !.arrived["client"] = <<>>]

CloseClient(s) ==
  LET t == Unpaired(s, IF Pool /\ s.backend # "none" THEN "idle" ELSE "none")
  IN IF s.http.info.req = 0 THEN t ELSE [LogRequest(t) EXCEPT !.http = NewState]

(* close_connection of the backend's: the client is closed as its peer, a  *)
(* path that neither logs nor erases.                                      *)
CloseBackend(s) == Note(Unpaired(s, "none"), "closed through backend")

close_connection(s, x) == IF x = "client" THEN CloseClient(s) ELSE CloseBackend(s)

CloseBackendOnly(s) == [s EXCEPT !.backend = "none", !.rbuf["backend"] = <<>>]

(* parse_and_modify_http_request: the outcomes [s, ok].  The growth of the *)
(* buffer may be refused after the request was changed.                    *)
Outcome(s, ok) == [s |-> s, ok |-> ok]

Replace(s, x, units) ==
  {Outcome([s EXCEPT !.rbuf[x] = units], TRUE), Outcome(Note(s, "refused"), FALSE)}

parse_and_modify_http_request(s) ==
  LET p      == parse(s.http.parser, s.rbuf["client"], "request")
      own    == modify_request_headers(p.headers, s.client)
      q      == [p EXCEPT !.headers = apply_custom_headers(own, ToAdd, ToRemove)]
      cookie == get_cookie(q.headers, "session")
  IN IF p.state # "complete" THEN {Outcome([s EXCEPT !.http.parser = p], FALSE)}
     ELSE Replace([s EXCEPT !.http.parser = q, !.http.info.req = q.first,
                            !.http.info.client = s.client, !.seen = s.seen \cup {q.first},
                            !.key = IF cookie = <<>> THEN s.key ELSE cookie[1]],
                  "client", serialize("request", q))

(* parse_and_modify_http_response, with the session cookie injected.       *)
parse_and_modify_http_response(s) ==
  LET p == parse(s.http.response_parser, s.rbuf["backend"], "status")
      q == [p EXCEPT !.headers = Put(p.headers, Name("set-cookie"), <<s.key>>)]
  IN IF p.state # "complete" THEN {Outcome([s EXCEPT !.http.response_parser = p], FALSE)}
     ELSE Replace([s EXCEPT !.http.response_parser = q], "backend", serialize("status", q))

\* Mutant: the line the buffer starts with is passed over.
parse_response_statusFromSecond(s) ==
  LET at == {i \in DOMAIN s.rbuf["backend"] : i > 1 /\ s.rbuf["backend"][i].k = "status"}
  IN IF s.http.info.status # 0 \/ at = {} THEN s
     ELSE [s EXCEPT !.http.info.status = s.rbuf["backend"][Min(at)].r]

(* parse_response_status: the first status line in the buffer.             *)
parse_response_status(s) ==
  LET at == {i \in DOMAIN s.rbuf["backend"] : s.rbuf["backend"][i].k = "status"}
  IN IF s.http.info.status # 0 \/ at = {} THEN s
     ELSE [s EXCEPT !.http.info.status = s.rbuf["backend"][Min(at)].r]

(* The answer to an invalid request.                                       *)
BadRequest(s) ==
  CloseBackend([s EXCEPT !.log = Append(s.log, [Entry(NewInfo) EXCEPT !.client = s.client])])

\* Mutant: the request's entry is not reset.
FinishedKeepsInfo(s) ==
  IF s.http.info.status = 0 \/ s.rbuf["backend"] # <<>> THEN s
  ELSE [LogRequest(s) EXCEPT !.http = [NewState EXCEPT !.known = TRUE, !.info = s.http.info]]

(* Lines 127-205: part of the buffer goes to the other side, and when that *)
(* emptied the buffer of a response it is logged and the state starts over.*)
Finished(s) ==
  IF s.http.info.status = 0 \/ s.rbuf["backend"] # <<>> THEN s
  ELSE [LogRequest(s) EXCEPT !.http = [NewState EXCEPT !.known = TRUE]]

(* How much of a buffer the other side takes: nothing, one unit or all of  *)
(* it (a bound: any number of units is possible).                          *)
Portions(buf) == {0, 1, Len(buf)}

Copy(s, x) ==
  UNION {LET to  == Other(x)
             t   == [s EXCEPT !.arrived[to] = s.arrived[to] \o SubSeq(s.rbuf[x], 1, n),
                              !.rbuf[x] = SubSeq(s.rbuf[x], n + 1, Len(s.rbuf[x]))]
         IN IF n = 0 THEN {s}
            ELSE {close_connection(s, to), IF x = "backend" THEN Finished(t) ELSE t} :
         n \in Portions(s.rbuf[x])}

(* forward(): the outcomes of forwarding what side x has buffered.         *)
ForwardRequest(s) ==
  LET t == [s EXCEPT !.http.known = TRUE]
      parsed(o) == [o.s EXCEPT !.http.request_parsed = TRUE]
      send(u) == IF u.http.parser.err THEN {BadRequest(u)} ELSE Copy(u, "client")
  IN IF t.http.request_parsed THEN send(t)
     ELSE UNION {IF o.ok THEN send(parsed(o)) ELSE {o.s} : o \in parse_and_modify_http_request(t)}

ForwardResponse(s) ==
  LET t == [s EXCEPT !.http.known = TRUE]
      parsed(o) == [o.s EXCEPT !.http.response_parsed = TRUE]
      send(u) == Copy(parse_response_status(u), "backend")
  IN IF t.http.response_parsed THEN send(t)
     ELSE UNION {IF o.ok THEN send(parsed(o)) ELSE {o.s} : o \in parse_and_modify_http_response(t)}

forward(s, x) ==
  IF s.client = 0 \/ s.backend # "up" \/ s.rbuf[x] = <<>> THEN {s}
  ELSE IF is_http_request(s.rbuf[x]) THEN ForwardRequest(s)
  ELSE IF x = "client" THEN Copy(s, "client")
  ELSE ForwardResponse(s)

(***************************************************************************)
(* The handlers.                                                           *)
(***************************************************************************)
(* LoadBalancer::handle_accept: the session key of the descriptor, or else *)
(* the client's address, is the one the backend is chosen by; then         *)
(* BackendConnector::connect with set_backend_for_request.                 *)
get_session_key(s, c) == IF s.key # 0 THEN s.key ELSE c

set_backend_for_request(s) ==
  IF s.http.known THEN [s EXCEPT !.http.info.backend = TRUE] ELSE s

(* A socket that is not connected yet, or one the pool has connected; an   *)
(* idle one is preferred.  A fresh socket starts with nothing under way.   *)
Fresh(s, b) ==
  [s EXCEPT !.backend = b, !.arrived["backend"] = <<>>, !.wire["backend"] = <<>>, !.answered = 0]

Owes(s) == s.wire["backend"] # <<>> \/ s.answered < Len(Numbers(s.arrived["backend"], "request"))

Connect(s) ==
  {set_backend_for_request(t) : t \in
     IF s.backend = "idle"
     THEN {[IF Owes(s) THEN Note(s, "lent with an answer due") ELSE s EXCEPT !.backend = "up"]}
     ELSE {Fresh(s, "connecting")} \cup (IF Pool THEN {Fresh(s, "up")} ELSE {})}

Accept ==
  LET c == accepted + 1
  IN /\ client = 0 /\ c <= MaxClients
     /\ \E t \in Connect([Now EXCEPT !.client = c, !.accepted = c, !.wire["client"] = <<>>,
                                     !.key = get_session_key(Now, c)]) : Become(t)

(* A READ event of side x: read_from_fd, then forward.                     *)
Cut(units, n) == n < Len(units) /\ units[n + 1].k \notin {"request", "status"}

Read(x) ==
  \E n \in 1 .. Len(wire[x]) :
    LET s == [Now EXCEPT !.rbuf[x] = rbuf[x] \o SubSeq(wire[x], 1, n),
                         !.wire[x] = SubSeq(wire[x], n + 1, Len(wire[x]))]
    IN /\ client # 0 /\ (x = "backend" => backend = "up")
       /\ \E t \in forward(IF Cut(wire[x], n) THEN Note(s, "split") ELSE s, x) : Become(t)

(* The backend's socket became writable: the connection is established and *)
(* what the client sent meanwhile is forwarded.  Or it failed: another     *)
(* backend is tried, or the pair is closed.                                *)
BackendConnected ==
  /\ client # 0 /\ backend = "connecting"
  /\ \E t \in forward([Now EXCEPT !.backend = "up"], "client") : Become(t)

BackendFailed ==
  /\ client # 0 /\ backend = "connecting"
  /\ \E t \in Connect(CloseBackendOnly(Now)) \cup {CloseBackend(Now)} : Become(t)

(* The backend ended an established connection: what it sent is forwarded  *)
(* and only its side is closed.                                            *)
BackendEnded ==
  /\ client # 0 /\ backend = "up" /\ wire["backend"] = <<>>
  /\ \E t \in forward(Now, "backend") :
       Become(IF t.client = 0 THEN t ELSE CloseBackendOnly(t))

(* A descriptor's error, time-out or failed write closes it and its peer.  *)
Close(x) ==
  /\ client # 0 /\ (x = "backend" => backend # "none")
  /\ Become(close_connection(Now, x))

(***************************************************************************)
(* The remote programs (external).  Every response has one byte of body.   *)
(***************************************************************************)
(* The client has the whole response to each of its requests.              *)
HasAnswer(r) == r \in Range(Numbers(arrived["client"], "body"))
Waits == \E r \in DOMAIN sent : sent[r].client = client /\ ~HasAnswer(r)

ClientSends(m) ==
  LET r == Len(sent) + 1
      s == [Now EXCEPT !.sent = Append(sent, [client |-> client, m |-> m]),
                       !.wire["client"] = wire["client"] \o Units("request", r, m)]
  IN /\ client # 0 /\ r <= MaxRequests
     /\ Become(IF Waits THEN Note(s, "pipelined") ELSE s)

(* The backend answers, in order, the requests it has to the last byte.    *)
Heads == {i \in DOMAIN arrived["backend"] : arrived["backend"][i].k = "blank"}
Asked == Numbers(arrived["backend"], "request")
HasRequest(i) ==
  /\ i <= Len(Asked) /\ i <= Cardinality(Heads)
  /\ sent[Asked[i]].m.body = 0 \/ Asked[i] \in Range(Numbers(arrived["backend"], "body"))

BackendAnswers(m) ==
  /\ backend \in {"up", "idle"} /\ HasRequest(answered + 1)
  /\ Become([Now EXCEPT !.answered = answered + 1,
                        !.wire["backend"] = wire["backend"] \o Units("status", Asked[answered + 1], m)])

IdleDies ==
  /\ backend = "idle" /\ Become([Now EXCEPT !.backend = "none"])

Init ==
  /\ accepted = 0 /\ client = 0 /\ backend = "none" /\ rbuf = Nothing /\ http = NewState /\ key = 0
  /\ arrived = Nothing /\ log = <<>> /\ seen = {} /\ irregular = {}
  /\ wire = Nothing /\ sent = <<>> /\ answered = 0

Next ==
  \/ Accept
  \/ \E x \in Side : Read(x) \/ Close(x)
  \/ BackendConnected \/ BackendFailed \/ BackendEnded \/ IdleDies
  \/ \E m \in Requests : ClientSends(m)
  \/ \E m \in Responses : BackendAnswers(m)

Spec == Init /\ [][Next]_vars

(***************************************************************************)
(* Properties.                                                             *)
(***************************************************************************)
(* The descriptor is held by the latest client or free, an idle backend    *)
(* connection has no client, and what is known of a request, logged or not,*)
(* is about requests that were sent and clients that were accepted.        *)
TypeOK ==
  /\ accepted \in 0 .. MaxClients /\ client \in {0, accepted}
  /\ backend \in {"none", "connecting", "up", "idle"} /\ (backend = "idle" => client = 0)
  /\ http.parser.state \in {"first", "headers", "body", "complete"}
  /\ http.response_parser.state \in {"first", "headers", "body", "complete"}
  /\ seen \subseteq DOMAIN sent
  /\ \A e \in Range(log) \cup {http.info} :
       e.req \in {0} \cup DOMAIN sent /\ e.client \in 0 .. accepted /\ e.status \in {0} \cup DOMAIN sent

Logged(r) == {i \in DOMAIN log : log[i].req = r}

(* A request the parser recognised is in the access log exactly once, from *)
(* the moment its request_info is given up, be it by the completed response*)
(* (access_log_callback_, then the reset) or by the close of the client    *)
(* (close_connection, then clear_request_info), across split and pipelined *)
(* messages and descriptors that change hands.  Two things void it: the    *)
(* memory budget refusing a rewritten message, which is then parsed again, *)
(* and an idle backend connection lent while it still owes a response.     *)
RecognisedOnce ==
  irregular \cap {"refused", "lent with an answer due"} = {} => \A r \in seen :
    Cardinality(Logged(r)) = (IF http.info.req = r THEN 0 ELSE 1)

(* No message was split or pipelined, no rewrite refused, no client closed *)
(* through its backend and no backend lent with a response due.            *)
Plain == irregular = {}

(* README "Per-Request: Each HTTP request is logged when its response      *)
(* completes": in plain exchanges, also on a kept-alive connection and over*)
(* reused backend connections, a client that has a response has an entry   *)
(* with its own address, its request and that response's status.           *)
AnsweredIsLogged ==
  Plain => \A r \in DOMAIN sent :
    HasAnswer(r) => \E i \in DOMAIN log : /\ log[i].req = r /\ log[i].status = r
                                         /\ log[i].client = sent[r].client

(* The headers of the request that starts at unit i of what the backend    *)
(* has, whose blank line is unit j.                                        *)
HeadersAt(i, j) == [n \in {arrived["backend"][x].n : x \in i + 1 .. j - 1} |->
  arrived["backend"][CHOOSE x \in i + 1 .. j - 1 : arrived["backend"][x].n = n].v]

Words(h) == {n[1] : n \in DOMAIN h}
Original(m) == [n \in {m.headers[i][1] : i \in DOMAIN m.headers} |->
  m.headers[CHOOSE i \in DOMAIN m.headers : m.headers[i][1] = n][2]]
Own == {"x-forwarded-for", "x-real-ip", "x-forwarded-proto", "x-forwarded-host"}

Rewritten(h, m, c) ==
  LET o == Original(m)
  IN /\ h[Name("x-forwarded-for")] = Append(get_header(o, Name("x-forwarded-for")), c)
     /\ \A n \in DOMAIN ToAdd : get_header(h, n) = ToAdd[n]
     /\ Words(h) \cap Words([n \in ToRemove |-> 0]) \subseteq Words(ToAdd)
     /\ Words(o) \ Words([n \in ToRemove |-> 0]) \subseteq Words(h)
     /\ Words(h) \subseteq Words(o) \cup Words(ToAdd) \cup Own
     /\ \A n \in DOMAIN o \cap DOMAIN h : n[1] \in Words(ToAdd) \cup Own \/ h[n] = o[n]

(* In plain exchanges every request a backend has received, the later ones *)
(* of a kept-alive connection included, was rewritten exactly once: the    *)
(* client's address is appended to X-Forwarded-For, removed headers are    *)
(* gone in every spelling, added ones are there, nothing else changed, and *)
(* the body that follows the head is that request's own.                   *)
RequestsRewritten ==
  Plain => \A i \in DOMAIN arrived["backend"] : arrived["backend"][i].k = "request" =>
    LET r == arrived["backend"][i].r
        ends == {j \in Heads : j > i}
        rest == SubSeq(arrived["backend"], Min(ends) + 1, Len(arrived["backend"]))
    IN ends # {} =>
         /\ Rewritten(HeadersAt(i, Min(ends)), sent[r].m, sent[r].client)
         /\ rest # <<>> => /\ rest[1].k = IF sent[r].m.body = 1 THEN "body" ELSE "request"
                           /\ rest[1].k = "body" => rest[1].r = r

(* A client is only ever given responses to its own requests, as long as   *)
(* not two of the irregular things happened on the descriptor and the pool *)
(* lent no connection with a response due: a backend connection that goes  *)
(* to the pool or a state kept for the next client carries no response over*)
(* (pool_release_callback clears the buffers, erase or reset the parsers). *)
OwnAnswers ==
  "lent with an answer due" \notin irregular /\ Cardinality(irregular) <= 1 =>
    \A r \in Range(Numbers(arrived["client"], "status")) : sent[r].client = client
=============================================================================
