----------------------------- MODULE DskHttpWire -----------------------------
(***************************************************************************)
(* What travels between the two ends of an HTTP connection, and the        *)
(* sources of content.  The text of a message is cut into tokens at the    *)
(* places where the state of a reader changes:                             *)
(*   line  the beginning of a header, which does not end there             *)
(*   head  the rest of a header; n tells how long the body is              *)
(*   size  the header of a chunk, with its length n                        *)
(*   data  octet n of a body                                               *)
(*   nl    an empty line, or the end of a chunk                            *)
(* id is the number of the request or response that a token belongs to; no *)
(* reader looks at it, it is there for the properties.                     *)
(***************************************************************************)
EXTENDS Naturals, Integers, Sequences, SequencesExt, FiniteSetsExt

CONSTANTS
  Scripts,        \* the sequences of requests that the client's program may make
  NetSize,        \* octets that fit into each direction of the connection
  MaxOutgoing     \* max_outgoing_data, max_outgoing_buffer_size

\* Lengths of a body whose header does not give one.
Chunked == -1     \* Transfer-Encoding: chunked
UntilClose == -2  \* it ends with the connection (or there is none)

Methods == {"GET", "HEAD", "POST"}
Bodies == {"none", "length", "chunked"}

ASSUME WireAssumption ==
  /\ \A sc \in Scripts : \A i \in DOMAIN sc :
       sc[i] \in [method : Methods, body : Bodies, n : Nat]
  /\ NetSize \in Nat \ {0} /\ MaxOutgoing \in Nat \ {0}

Token == [k : {"line", "head", "size", "data", "nl"}, id : Nat, n : Int]

Line(i) == [k |-> "line", id |-> i, n |-> 0]
HeadOf(i, n) == [k |-> "head", id |-> i, n |-> n]
Size(i, n) == [k |-> "size", id |-> i, n |-> n]
Nl(i) == [k |-> "nl", id |-> i, n |-> 0]

-----------------------------------------------------------------------------
(* A source of content: octets 1..read have been read out of 1..sent.      *)

Sources == [sent : Nat, read : Nat, end : {"open", "eof", "error"}]

StreamSource == [sent |-> 0, read |-> 0, end |-> "open"]
SlabSource(n) == [sent |-> n, read |-> 0, end |-> "eof"]

\* dsk_octet_source_read_buffer
Result(src) ==
  IF src.end = "error" THEN "error"
  ELSE IF src.read < src.sent THEN "success"
  ELSE IF src.end = "eof" THEN "eof" ELSE "again"

Unread(i, src) ==
  [j \in 1..(src.sent - src.read) |-> [k |-> "data", id |-> i, n |-> src.read + j]]

ReadAll(src) == [src EXCEPT !.read = src.sent]

\* Content on the wire, in a chunk of its own if the message is chunked.
Framed(i, data, chunked) ==
  IF chunked THEN <<Size(i, Len(data))>> \o data \o <<Nl(i)>> ELSE data

LastChunk(i, chunked) == IF chunked THEN <<Size(i, 0), Nl(i)>> ELSE <<>>

\* What follows i in a queue, or 0.
After(queue, i) ==
  LET at == SelectInSeq(queue, LAMBDA j : j = i) IN
  IF at \in 1..(Len(queue) - 1) THEN queue[at + 1] ELSE 0

\* op applied n times to s.  (The sets of one element have TLC evaluate every step once.)
Iterate(op(_), s, n) ==
  FoldLeft(LAMBDA acc, j : CHOOSE r \in {op(v) : v \in {acc}} : TRUE, s, [j \in 1..n |-> j])
=============================================================================
