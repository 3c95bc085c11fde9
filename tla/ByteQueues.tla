------------------------------ MODULE ByteQueues ------------------------------
(***************************************************************************)
(* What the buffers of dsk-buffer.c promise, without fragments: each is a   *)
(* queue of bytes. Bytes are put at the end, taken from the front, moved    *)
(* from the front of one queue to the end of another; a hole left with      *)
(* dsk_buffer_append_placeholder is filled in place, wherever it has moved  *)
(* to. What a call hands out is what it takes away.                         *)
(***************************************************************************)
EXTENDS Naturals, Sequences

CONSTANTS Buffers,
          Bytes,        \* what may be put in
          Unset         \* a byte of a hole that is not yet filled

VARIABLES queue,        \* [Buffers -> Seq(Bytes \cup {Unset})]
          got,          \* the bytes the last call took out of a buffer
          hole          \* is there a hole?

vars == <<queue, got, hole>>

Prefix(q, n) == SubSeq(q, 1, n)
Rest(q, n) == SubSeq(q, n + 1, Len(q))

Init == queue = [b \in Buffers |-> <<>>] /\ got = <<>> /\ hole = FALSE

(* A step from the queues q to the queues r: the bytes of the queue after   *)
(* its old contents, any number, are new.                                   *)
Put(q, r, b) ==
  /\ \E more \in {Rest(r[b], Len(q[b]))}:
       /\ r = [q EXCEPT ![b] = @ \o more]
       /\ \/ hole' = hole /\ \A i \in DOMAIN more: more[i] \in Bytes
          \/ ~hole /\ hole' /\ \A i \in DOMAIN more: more[i] = Unset
  /\ got' = <<>>

(* Some bytes of the front are handed out; of a line, all but its end.      *)
Take(q, r, b) == \E n \in 0..Len(q[b]):
  /\ r = [q EXCEPT ![b] = Rest(@, n)]
  /\ \/ got' = Prefix(q[b], n)
     \/ n > 0 /\ got' = Prefix(q[b], n - 1)
  /\ UNCHANGED hole

Move(q, r, from, to) == \E n \in 0..Len(q[from]):
  /\ r = [q EXCEPT ![from] = Rest(@, n), ![to] = @ \o Prefix(q[from], n)]
  /\ got' = <<>> /\ UNCHANGED hole

(* The hole is filled, and nothing else changes.                            *)
Fill(q, r) ==
  /\ hole /\ ~hole'
  /\ r \in [Buffers -> Seq(Bytes)]
  /\ \A b \in Buffers:
       /\ Len(r[b]) = Len(q[b])
       /\ \A i \in DOMAIN q[b]: q[b][i] \in {Unset, r[b][i]}
  /\ got' = <<>>

Next == \E q \in {queue}, r \in {queue'}:
          \/ Fill(q, r)
          \/ \E b \in Buffers:
               \/ Put(q, r, b) \/ Take(q, r, b)
               \/ \E to \in Buffers \ {b}: Move(q, r, b, to)

Spec == Init /\ [][Next]_vars

=============================================================================
