------------------------- MODULE DskHttpClientStream -------------------------
(***************************************************************************)
(* The client's end of an HTTP connection (dsk-http-client-stream.c).  The  *)
(* program queues requests, which are written one after the other           *)
(* (pipelining); the answers come in the same order, so each one belongs to *)
(* the first transfer of the queue.  This module holds the handlers as      *)
(* operators on the stream, c; DskHttp puts them together.                  *)
(*                                                                         *)
(* Left out: websockets, compressed content, "100 Continue", chunk          *)
(* extensions, a post-data stream for which the request states a length,    *)
(* and the limit on headers.                                                *)
(***************************************************************************)
EXTENDS DskHttpWire

CONSTANT MaxPipelined    \* max_pipelined_requests

ASSUME PipelineAssumption == MaxPipelined \in Nat \ {0}

ClientTransfers == [
  post_data : Sources, posting : BOOLEAN,        \* posting: post_data # NULL
  write_state : {"init", "content", "done"}, post_data_trap : BOOLEAN,
  read_state : {"header", "body", "size", "chunk", "after", "trailer", "done"},
  checked : {"no", "partly", "garbage"},         \* what has come of a header
  remaining : Nat, content : Seq(Token), failed : BOOLEAN,
  calls : Seq({"response", "complete", "error", "destroy"})]

Clients(n) == [
  open : BOOLEAN,                                \* source, sink # NULL
  queue : Seq(1..n), outgoing_data_transfer : 0..n,
  n_pending : Nat, incoming : Seq(Token), outgoing : Seq(Token),
  read_trap : BOOLEAN, write_trap : BOOLEAN,
  blocked : BOOLEAN,                             \* of handle_writable, while it runs
  x : [1..n -> ClientTransfers],
  fault : {"none", "spins", "dangling"}]

NewTransfer(r) == [
  post_data |-> IF r.body = "chunked" THEN StreamSource ELSE SlabSource(r.n),
  posting |-> r.body # "none",
  write_state |-> "init", post_data_trap |-> FALSE, read_state |-> "header",
  checked |-> "no", remaining |-> 0, content |-> <<>>, failed |-> FALSE, calls |-> <<>>]

ClientNew(script) == [
  open |-> TRUE, queue |-> <<>>, outgoing_data_transfer |-> 0, n_pending |-> 0,
  incoming |-> <<>>, outgoing |-> <<>>, read_trap |-> TRUE, write_trap |-> FALSE,
  blocked |-> FALSE, x |-> [i \in DOMAIN script |-> NewTransfer(script[i])],
  fault |-> "none"]

\* client_stream_set_error for transfer i, or for none
SetError(c, i) ==
  IF i = 0 THEN c
  ELSE [c EXCEPT !.x[i].failed = TRUE, !.x[i].calls = Append(@, "error")]

\* mutant: whoever has been told of an error is told again
ClientShutdownAll(c) ==
  LET Ended(y) == [y EXCEPT !.calls = @ \o <<"error", "destroy">>,
                            !.post_data_trap = FALSE, !.posting = FALSE]
  IN [c EXCEPT !.open = FALSE, !.read_trap = FALSE, !.write_trap = FALSE,
               !.outgoing_data_transfer = 0, !.queue = <<>>,
               !.x = [i \in DOMAIN c.x |-> IF Contains(c.queue, i) THEN Ended(c.x[i]) ELSE c.x[i]]]

\* dsk_http_client_stream_shutdown: whoever has not been told of an error is told of this.
ClientShutdown(c) ==
  LET Ended(y) == [y EXCEPT !.calls = @ \o (IF y.failed THEN <<"destroy">>
                                            ELSE <<"error", "destroy">>),
                            !.post_data_trap = FALSE, !.posting = FALSE]
  IN [c EXCEPT !.open = FALSE, !.read_trap = FALSE, !.write_trap = FALSE,
               !.outgoing_data_transfer = 0, !.queue = <<>>,
               !.x = [i \in DOMAIN c.x |-> IF Contains(c.queue, i) THEN Ended(c.x[i]) ELSE c.x[i]]]

Fail(c, i) == ClientShutdown(SetError(c, i))

MaybeAddWriteHook(c) ==
  [c EXCEPT !.write_trap = @ \/ (c.n_pending < MaxPipelined /\ c.open)]

\* dsk_http_client_stream_request
ClientRequest(c, i) ==
  MaybeAddWriteHook([c EXCEPT !.queue = Append(@, i),
                              !.outgoing_data_transfer = IF @ = 0 THEN i ELSE @,
                              !.n_pending = @ + 1])

-----------------------------------------------------------------------------
(* Writing. *)

\* The transfer being written has been freed: its memory is used.
Dangles(c) ==
  c.outgoing_data_transfer # 0 /\ ~Contains(c.queue, c.outgoing_data_transfer)

Written(c, i) ==
  [c EXCEPT !.x[i].write_state = "done", !.n_pending = @ - 1,
            !.outgoing_data_transfer = After(c.queue, i)]

BodyLength(r) == IF r.body = "length" THEN r.n ELSE IF r.body = "chunked" THEN Chunked ELSE UntilClose

\* A step of the loop in handle_writable.
WriteStep(c, script) ==
  LET i == c.outgoing_data_transfer
      y == c.x[i]
      chunked == script[i].body = "chunked"
      begun == [c EXCEPT !.outgoing = @ \o <<Line(i), HeadOf(i, BodyLength(script[i]))>>]
      result == Result(y.post_data)
  IN CASE i = 0 \/ c.blocked \/ Len(c.outgoing) >= MaxOutgoing \/ ~c.open \/ c.fault # "none" -> c
       [] Dangles(c) -> [c EXCEPT !.fault = "dangling"]
       [] y.write_state = "init" /\ y.posting -> [begun EXCEPT !.x[i].write_state = "content"]
       [] y.write_state = "init" /\ ~y.posting -> Written(begun, i)
       [] y.write_state = "content" /\ result = "success" ->
            [c EXCEPT !.outgoing = @ \o Framed(i, Unread(i, y.post_data), chunked),
                      !.x[i].post_data = ReadAll(@)]
       [] y.write_state = "content" /\ result = "again" ->
            [c EXCEPT !.blocked = TRUE, !.x[i].post_data_trap = TRUE]
       [] y.write_state = "content" /\ result = "eof" ->
            Written([c EXCEPT !.outgoing = @ \o LastChunk(i, chunked),
                              !.x[i].post_data_trap = FALSE, !.x[i].posting = FALSE], i)
       [] y.write_state = "content" /\ result = "error" -> Fail(c, i)

WriteSteps(c, script) ==
  Iterate(LAMBDA d : WriteStep(d, script), [c EXCEPT !.blocked = FALSE], 3 * Len(script))

\* handle_writable after its loop; the transport takes n tokens, or fails.
ClientWrote(c, n, fails) ==
  LET rest == SubSeq(c.outgoing, n + 1, Len(c.outgoing))
      idle == c.outgoing_data_transfer = 0 \/ c.blocked
      d == [c EXCEPT !.blocked = FALSE]
  IN CASE fails /\ Dangles(c) -> [d EXCEPT !.fault = "dangling"]
       [] fails /\ ~Dangles(c) -> Fail(d, c.outgoing_data_transfer)
       [] OTHER -> [d EXCEPT !.outgoing = rest, !.write_trap = ~(idle /\ rest = <<>>)]

\* mutant: the octets are not sent on
PostDataReadableNoHook(c, i, script) ==
  LET chunked == script[i].body = "chunked" IN
  IF Result(c.x[i].post_data) = "error" THEN Fail(c, i)
  ELSE IF Result(c.x[i].post_data) = "success"
  THEN [c EXCEPT !.outgoing = @ \o Framed(i, Unread(i, c.x[i].post_data), chunked),
                 !.x[i].post_data = ReadAll(@)]
  ELSE [c EXCEPT !.outgoing = @ \o LastChunk(i, chunked), !.x[i].post_data_trap = FALSE,
                 !.outgoing_data_transfer = After(c.queue, i), !.x[i].posting = FALSE]

\* handle_post_data_readable.  At the end of the data n_pending stays as it is.
PostDataReadable(c, i, script) ==
  LET y == c.x[i]
      chunked == script[i].body = "chunked"
      more == MaybeAddWriteHook(
                [c EXCEPT !.outgoing = @ \o Framed(i, Unread(i, y.post_data), chunked),
                          !.x[i].post_data = ReadAll(@)])
      result == Result(y.post_data)
  IN CASE ~Contains(c.queue, i) -> [c EXCEPT !.fault = "dangling"]
       [] Contains(c.queue, i) /\ result = "success" ->
            [more EXCEPT !.x[i].post_data_trap = Len(more.outgoing) <= MaxOutgoing]
       [] Contains(c.queue, i) /\ result = "eof" ->
            MaybeAddWriteHook([c EXCEPT !.outgoing = @ \o LastChunk(i, chunked),
                                        !.outgoing_data_transfer = After(c.queue, i),
                                        !.x[i].post_data_trap = FALSE, !.x[i].posting = FALSE])
       [] Contains(c.queue, i) /\ result = "error" -> Fail(c, i)
       [] OTHER -> c

-----------------------------------------------------------------------------
(* Reading. *)

\* transfer_done.  The stream may still be writing this transfer.
TransferDone(c) ==
  LET i == Head(c.queue) IN
  [c EXCEPT !.queue = Tail(@), !.x[i].read_state = "done",
            !.x[i].calls = @ \o <<"complete", "destroy">>]

HasResponseBody(r, n) == r.method # "HEAD" /\ n # UntilClose

\* The whole header is there.
Response(c, r, n) ==
  LET i == Head(c.queue)
      d == [c EXCEPT !.x[i].calls = Append(@, "response"), !.x[i].checked = "no",
                     !.x[i].remaining = IF n > 0 THEN n ELSE 0,
                     !.x[i].read_state = IF n = Chunked THEN "size" ELSE "body"]
  IN IF HasResponseBody(r, n) /\ n # 0 THEN d ELSE TransferDone(d)

Content(c, t) ==
  LET i == Head(c.queue) IN
  [c EXCEPT !.x[i].content = Append(@, t), !.x[i].remaining = @ - 1]

\* The loop of handle_transport_source_readable, for one token.  In the code the beginning of a
\* header stays in incoming_data, here it is noted in checked.
ReadToken(c, script) ==
  LET i == Head(c.queue)
      t == Head(c.incoming)
      d == [c EXCEPT !.incoming = Tail(@)]
      In(state, kinds) == c.queue # <<>> /\ c.x[i].read_state = state /\ t.k \in kinds
      last == c.x[i].remaining = 1
  IN CASE c.incoming = <<>> \/ ~c.open -> c
       [] c.queue = <<>> -> IF t.k = "nl" THEN d ELSE ClientShutdown(d)
       [] In("header", {"nl"}) -> d
       [] In("header", {"line"}) -> [d EXCEPT !.x[i].checked = IF @ = "no" THEN "partly" ELSE @]
       [] In("header", {"size", "data"}) -> [d EXCEPT !.x[i].checked = "garbage"]
       [] In("header", {"head"}) ->
            IF c.x[i].checked = "garbage" THEN Fail(d, i) ELSE Response(d, script[i], t.n)
       [] In("body", {"data"}) -> IF last THEN TransferDone(Content(d, t)) ELSE Content(d, t)
       [] In("size", {"size"}) ->
            [d EXCEPT !.x[i].remaining = t.n,
                      !.x[i].read_state = IF t.n = 0 THEN "trailer" ELSE "chunk"]
       [] In("chunk", {"data"}) ->
            IF last THEN [Content(d, t) EXCEPT !.x[i].read_state = "after"] ELSE Content(d, t)
       [] In("after", {"nl"}) -> [d EXCEPT !.x[i].read_state = "size"]
       [] In("trailer", {"nl"}) -> TransferDone(d)
       [] OTHER -> Fail(d, i)

\* handle_transport_source_readable
ClientReadable(c, data, script) ==
  LET d == [c EXCEPT !.incoming = @ \o data] IN
  Iterate(LAMBDA e : ReadToken(e, script), d, Len(d.incoming))

\* ... when the read fails
ClientReadError(c) == Fail(c, IF c.queue = <<>> THEN 0 ELSE Head(c.queue))

\* ... at the end of the data: with part of a header that does not end in a newline the loop
\* `while (stream->incoming_data.size > 0)' neither ends nor reads (spins).
ClientEof(c, spins) ==
  IF spins THEN [c EXCEPT !.fault = "spins"] ELSE ClientShutdown(c)

MaySpin(c) == c.queue # <<>> /\ c.x[Head(c.queue)].checked # "no"
=============================================================================
