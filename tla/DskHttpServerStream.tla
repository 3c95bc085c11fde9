------------------------- MODULE DskHttpServerStream -------------------------
(***************************************************************************)
(* The server's end of an HTTP connection (dsk-http-server-stream.c), with *)
(* wait_for_content_complete, which is the default and what dsk-http-       *)
(* server.c uses.  A request is handed to the program when all of it is     *)
(* there; the program answers in any order and at any time, and the answers *)
(* go out in the order of the requests.  Operators on the stream, s; the    *)
(* transfers are numbered in the order in which they are created.           *)
(*                                                                         *)
(* Left out: websockets, "Connection: close" in a request, chunk            *)
(* extensions, the limit on headers, answers that dsk_http_server_stream_   *)
(* respond refuses (it answers 500 itself).                                 *)
(***************************************************************************)
EXTENDS DskHttpWire

CONSTANTS
  Answers,        \* what the server's program answers
  MaxPostData     \* max_post_data_size

\* n: octets it says it has, or -1; body: whether the status allows a body;
\* close: it asks for the connection to be closed.
ASSUME AnswersAssumption ==
  /\ Answers \subseteq [n : Nat \cup {-1}, body : BOOLEAN, close : BOOLEAN]
  /\ MaxPostData \in Nat

NoAnswer == [n |-> -1, body |-> FALSE, close |-> FALSE]

ServerTransfers == [
  request : Nat,                       \* number of the request, or 0
  read_state : {"header", "post", "size", "chunk", "after", "trailer", "done"},
  remaining : Nat, post_data : Seq(Token),
  returned : BOOLEAN, responded : BOOLEAN, failed : BOOLEAN,
  answer : Answers \cup {NoAnswer},
  has_content : BOOLEAN, content : Sources,
  trap : BOOLEAN, blocked_content : BOOLEAN]

Servers(n) == [
  open : BOOLEAN, queue : Seq(1..n), read_transfer : 0..n, next_request : 0..n,
  n_transfers : 0..n, incoming : Seq(Token), outgoing : Seq(Token),
  read_trap : BOOLEAN, write_trap : BOOLEAN, no_more_transfers : BOOLEAN,
  deferred_shutdown : BOOLEAN, request_available : BOOLEAN,
  starting : BOOLEAN, x : [1..n -> ServerTransfers]]

ServerNew(n) == [
  open |-> TRUE, queue |-> <<>>, read_transfer |-> 0, next_request |-> 0, n_transfers |-> 0,
  incoming |-> <<>>, outgoing |-> <<>>, read_trap |-> TRUE, write_trap |-> FALSE,
  no_more_transfers |-> FALSE, deferred_shutdown |-> FALSE, request_available |-> FALSE,
  starting |-> FALSE,
  x |-> [k \in 1..n |->
          [request |-> 0, read_state |-> "header", remaining |-> 0, post_data |-> <<>>,
           returned |-> FALSE, responded |-> FALSE, failed |-> FALSE, answer |-> NoAnswer,
           has_content |-> FALSE, content |-> StreamSource, trap |-> FALSE,
           blocked_content |-> FALSE]]]

\* do_shutdown.  A transfer that the program has and has not answered stays alive, as failed.
DoShutdown(s) ==
  [s EXCEPT !.open = FALSE, !.queue = <<>>, !.read_transfer = 0, !.next_request = 0,
            !.read_trap = FALSE, !.write_trap = FALSE, !.request_available = FALSE,
            !.starting = FALSE,
            !.x = [k \in DOMAIN s.x |->
                    IF ~Contains(s.queue, k) THEN s.x[k]
                    ELSE [s.x[k] EXCEPT !.trap = FALSE,
                                        !.failed = s.x[k].returned /\ ~s.x[k].responded]]]

DoDeferredShutdown(s) ==
  IF s.outgoing = <<>> THEN DoShutdown([s EXCEPT !.deferred_shutdown = TRUE])
  ELSE [s EXCEPT !.deferred_shutdown = TRUE]

-----------------------------------------------------------------------------
(* Reading requests. *)

\* mutant: it is announced in place of one that waits
AnnounceLatest(s, k) ==
  [s EXCEPT !.x[k].read_state = "done", !.read_transfer = 0,
            !.next_request = k, !.request_available = TRUE]

\* The request is complete: announce it, unless one before it is still to be fetched.
Announce(s, k) ==
  [s EXCEPT !.x[k].read_state = "done", !.read_transfer = 0,
            !.next_request = IF @ = 0 THEN k ELSE @,
            !.request_available = TRUE]

\* done_reading_post_data
DoneReadingPostData(s, k) == Announce(s, k)

\* The whole header of request i is there, which says that its body has n octets.
RequestHeader(s, k, i, n, script) ==
  LET d == [s EXCEPT !.x[k].request = i]
      has_content == script[i].method = "POST"
  IN CASE ~has_content \/ n = 0 -> Announce(d, k)
       [] has_content /\ n = Chunked -> [d EXCEPT !.x[k].read_state = "size"]
       [] has_content /\ n > 0 -> [d EXCEPT !.x[k].read_state = "post", !.x[k].remaining = n]
       [] has_content /\ n = UntilClose -> DoShutdown(d)

PostOctet(s, k, t) ==
  [s EXCEPT !.x[k].post_data = Append(@, t), !.x[k].remaining = @ - 1]

\* The loop of handle_source_readable, for one token.
ServerReadToken(s, script) ==
  LET t == Head(s.incoming)
      fresh == s.read_transfer = 0
      k == IF fresh THEN s.n_transfers + 1 ELSE s.read_transfer
      e == [s EXCEPT !.incoming = Tail(@)]
      d == IF fresh
           THEN [e EXCEPT !.read_transfer = k, !.n_transfers = k, !.queue = Append(@, k)]
           ELSE e
      In(state, kind) == d.x[k].read_state = state /\ t.k = kind
      more == PostOctet(d, k, t)
      last == s.x[k].remaining = 1
  IN CASE s.incoming = <<>> \/ ~s.open \/ ~s.read_trap -> s
       [] fresh /\ s.no_more_transfers -> [s EXCEPT !.incoming = <<>>, !.read_trap = FALSE]
       [] In("header", "line") -> d
       [] In("header", "head") -> RequestHeader(d, k, t.id, t.n, script)
       [] In("post", "data") -> IF last THEN DoneReadingPostData(more, k) ELSE more
       [] In("size", "size") ->
            [d EXCEPT !.x[k].remaining = t.n,
                      !.x[k].read_state = IF t.n = 0 THEN "trailer" ELSE "chunk"]
       [] In("chunk", "data") ->
            IF Len(more.x[k].post_data) > MaxPostData THEN DoShutdown(more)
            ELSE IF last THEN [more EXCEPT !.x[k].read_state = "after"] ELSE more
       [] In("after", "nl") -> [d EXCEPT !.x[k].read_state = "size"]
       [] In("trailer", "nl") -> DoneReadingPostData(d, k)
       [] OTHER -> DoShutdown(d)

\* handle_source_readable, with data; at the end of the data or on an error it is DoShutdown.
ServerReadable(s, data, script) ==
  LET d == [s EXCEPT !.incoming = @ \o data] IN
  Iterate(LAMBDA e : ServerReadToken(e, script), d, Len(d.incoming))

\* dsk_http_server_stream_get_request
GetRequest(s) ==
  LET k == s.next_request
      next == After(s.queue, k)
      ready == next # 0 /\ s.x[next].read_state = "done"
  IN [s EXCEPT !.x[k].returned = TRUE,
               !.next_request = IF ready THEN next ELSE 0,
               !.request_available = @ /\ ready]

-----------------------------------------------------------------------------
(* Writing answers. *)

HasContent(r, a) == r.method # "HEAD" /\ a.body

\* The length that the header of the answer gives (dsk_http_response_new).
AnswerLength(a) == IF a.n >= 0 THEN a.n ELSE IF a.close THEN UntilClose ELSE Chunked

\* handle_content_readable for the first transfer.  At the end of its content the transfer goes,
\* and the next one starts if it has been answered.
ContentReadable(s) ==
  LET k == Head(s.queue)
      y == s.x[k]
      chunked == AnswerLength(y.answer) = Chunked
      result == Result(y.content)
      more == [s EXCEPT !.outgoing = @ \o Framed(k, Unread(k, y.content), chunked),
                        !.x[k].content = ReadAll(@)]
      full == Len(more.outgoing) > MaxOutgoing
      out == s.outgoing \o LastChunk(k, chunked)
      gone == [s EXCEPT !.outgoing = out, !.write_trap = @ \/ out # <<>>,
                        !.queue = Tail(@), !.x[k].trap = FALSE]
      next == After(s.queue, k)
  IN CASE result = "success" ->
            [more EXCEPT !.write_trap = TRUE, !.x[k].blocked_content = full]
       [] result = "again" -> s
       [] result = "error" -> DoShutdown(s)
       [] result = "eof" /\ y.answer.close -> DoDeferredShutdown(gone)
       [] result = "eof" /\ ~y.answer.close ->
            [gone EXCEPT !.starting = next # 0 /\ s.x[next].responded]

\* start_transfer for the first transfer; a transfer without content stays first for ever.
StartTransfer(s) ==
  LET k == Head(s.queue)
      a == s.x[k].answer
      d == [s EXCEPT !.outgoing = @ \o <<Line(k), HeadOf(k, AnswerLength(a))>>,
                     !.write_trap = TRUE, !.x[k].trap = s.x[k].has_content, !.starting = FALSE]
  IN CASE s.x[k].has_content -> ContentReadable(d)
       [] ~s.x[k].has_content /\ a.close -> DoDeferredShutdown(d)
       [] OTHER -> d

\* start_transfer ends in handle_content_readable, which may call start_transfer.
StartTransfers(s) ==
  Iterate(LAMBDA d : IF d.starting THEN StartTransfer(d) ELSE d, s, Len(s.queue) + 1)

\* dsk_http_server_stream_respond
Respond(s, k, a, script) ==
  LET d == [s EXCEPT !.x[k].responded = TRUE, !.x[k].answer = a,
                     !.x[k].has_content = HasContent(script[s.x[k].request], a),
                     !.x[k].content = IF a.n >= 0 THEN SlabSource(a.n) ELSE StreamSource,
                     !.no_more_transfers = @ \/ a.close]
  IN IF s.x[k].failed THEN [s EXCEPT !.x[k].responded = TRUE]
     ELSE StartTransfers([d EXCEPT !.starting = Head(s.queue) = k])

\* handle_sink_writable; the transport takes n tokens, or fails.
ServerWrote(s, n, fails) ==
  LET rest == SubSeq(s.outgoing, n + 1, Len(s.outgoing))
      d == [s EXCEPT !.outgoing = rest, !.write_trap = rest # <<>>]
      unblocks == Len(rest) <= MaxOutgoing /\ s.queue # <<>>
      e == IF unblocks THEN [d EXCEPT !.x[Head(s.queue)].blocked_content = FALSE] ELSE d
  IN IF fails \/ (rest = <<>> /\ s.deferred_shutdown) THEN DoShutdown(e) ELSE e
=============================================================================
