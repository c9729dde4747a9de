---------------------------- MODULE HttpHeaders ----------------------------
(***************************************************************************)
(* The header operations of http_request.cpp and http_handler.cpp.  A      *)
(* header map is a function from names to values.  A name is a pair of the *)
(* word it spells and the spelling: two names differ only in case when     *)
(* they share the word, and spelling 0 is the one the code writes.  A      *)
(* value is a sequence of its parts, <<>> being the empty string.  CHOOSE  *)
(* stands for the order in which an unordered_map is iterated.             *)
(***************************************************************************)
EXTENDS Naturals, Sequences, FiniteSetsExt, TLC

Name(word) == <<word, 0>>
NoHeaders == [n \in {} |-> <<>>]

Put(h, n, v) == (n :> v) @@ h

SameWord(h, n) == {m \in DOMAIN h : m[1] = n[1]}

(* HttpRequest::get_header: the exact spelling first, then any other.      *)
get_header(h, n) ==
  IF n \in DOMAIN h THEN h[n]
  ELSE IF SameWord(h, n) = {} THEN <<>>
  ELSE h[CHOOSE m \in SameWord(h, n) : TRUE]

(* HttpHandler::modify_request_headers.                                    *)
modify_request_headers(h, ip) ==
  LET for   == Put(h, Name("x-forwarded-for"), Append(get_header(h, Name("x-forwarded-for")), ip))
      real  == Put(for, Name("x-real-ip"), <<ip>>)
      proto == Put(real, Name("x-forwarded-proto"), <<"http">>)
      host  == get_header(proto, Name("host"))
  IN IF host = <<>> THEN proto ELSE Put(proto, Name("x-forwarded-host"), host)

\* Mutant: only the spelling that is configured is removed.
EraseExact(n, h) == [m \in DOMAIN h \ {n} |-> h[m]]

(* HttpHandler::apply_custom_headers, the same for a request and for a     *)
(* response: removals first; then each addition overwrites one spelling of *)
(* its name, adds it, or erases it when its value is empty.                *)
Erase(n, h) == [m \in DOMAIN h \ SameWord(h, n) |-> h[m]]

AddHeader(n, v, h) ==
  IF v = <<>> THEN Erase(n, h)
  ELSE IF SameWord(h, n) = {} THEN Put(h, n, v)
  ELSE Put(h, CHOOSE m \in SameWord(h, n) : TRUE, v)

apply_custom_headers(h, add, remove) ==
  FoldSet(LAMBDA n, a : AddHeader(n, add[n], a), FoldSet(Erase, h, remove), DOMAIN add)

(* HttpRequest::get_cookie over the segments of a Cookie header: the first *)
(* of that name.  A segment without "=" swallows the one after it, whose   *)
(* "=" is taken to be its own.                                             *)
Flag(s) == s.value = <<>>
get_cookie(h, name) ==
  LET segments == get_header(h, Name("cookie"))
      match    == {i \in 1 .. Len(segments) : /\ segments[i].name = name /\ ~Flag(segments[i])
                                              /\ i > 1 => ~Flag(segments[i - 1])}
  IN IF match = {} THEN <<>> ELSE segments[Min(match)].value
=============================================================================
