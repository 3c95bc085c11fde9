------------------------------ MODULE DskStream ------------------------------
(***************************************************************************)
(* A chain of the library's octet sources and sinks:                       *)
(*                                                                         *)
(*   producer -> pipe 1 -> filter source -> connection -> pipe 2 -> consumer *)
(*                                                                         *)
(* A pipe (dsk-octet-pipe.c) is a sink whose data appear in a memory source *)
(* (dsk-memory-source.c), the filter source (dsk-octet-filter-source.c)    *)
(* sends what it reads through a filter, and the connection                *)
(* (dsk-octet-connection.c) moves octets from a source to a sink.  Nobody  *)
(* blocks: each part tells the next one by a hook that it may go on, so a   *)
(* hook that is not set in time leaves everybody waiting.                  *)
(*                                                                         *)
(* Of a hook this module keeps whether it is notified when the loop is      *)
(* idle and whether its one trap is there and unblocked; that such hooks   *)
(* get notified is IdleHooksNotified of DskHook.  An octet is the number    *)
(* of its position.  Objects are held by the next part of the chain only;  *)
(* the program keeps a reference to the connection.                        *)
(***************************************************************************)
EXTENDS Naturals, Integers, Sequences, SequencesExt, FiniteSetsExt

CONSTANTS
  FirstPipe,      \* buffer_low_amount of pipe 1
  SecondPipe,     \* and of pipe 2
  MaxBuffer,      \* max_buffer of the connection
  Keep,           \* octets the filter holds back until it is finished
  MaxWritten      \* bound: octets the producer writes

ASSUME SizesAssumption ==
  /\ {FirstPipe, SecondPipe, MaxBuffer} \subseteq Nat \ {0}
  /\ Keep \in Nat /\ MaxWritten \in Nat

PipeSize == <<FirstPipe, SecondPipe>>

VARIABLES
  pipe,           \* both pipes, each with its sink and its memory source
  filter,         \* the filter source
  conn,           \* the connection
  producer, consumer,   \* the program at both ends
  broken,         \* history: the filter failed, or part of the chain was shut down or dropped
  written,        \* history: number of octets accepted by pipe 1
  consumed        \* history: octets read from pipe 2

vars == <<pipe, filter, conn, producer, consumer, broken, written, consumed>>
programVars == <<producer, consumer, written, consumed>>

NoTrap == -1      \* block_count of a trap that is not there

\* Types, and that no buffer outgrows its size: a pipe is never overfull, and the connection,
\* which reads whatever there is, stops reading when it has MaxBuffer octets.
TypeOK ==
  /\ pipe \in [1..2 -> [buffer: Seq(Nat), done_adding: BOOLEAN, got_shutdown: BOOLEAN,
                        connected: BOOLEAN, buffer_low_trap: BOOLEAN, readable: BOOLEAN,
                        buffer_low: BOOLEAN, writable: BOOLEAN]]
  /\ filter \in [buffer: Seq(Nat), held: Seq(Nat), filter: BOOLEAN, sub: BOOLEAN,
                 read_trap: BOOLEAN, readable: BOOLEAN]
  /\ conn \in [buffer: Seq(Nat), source: BOOLEAN, sink: BOOLEAN, read_trap: {NoTrap, 0, 1},
               write_trap: {NoTrap, 0, 1}, refs: 0..2, crashed: BOOLEAN]
  /\ producer \in [open: BOOLEAN, error: BOOLEAN] /\ broken \in BOOLEAN
  /\ consumer \in [open: BOOLEAN, reads: BOOLEAN, eof: BOOLEAN]
  /\ written \in 0..MaxWritten /\ consumed \in Seq(Nat)
  /\ \A i \in 1..2 : Len(pipe[i].buffer) <= PipeSize[i]
  /\ Len(conn.buffer) < MaxBuffer + PipeSize[1] + Keep

-----------------------------------------------------------------------------
(* Pipes.  connected: sink->source # NULL.                                 *)

dsk_octet_pipe_new ==
  [buffer |-> <<>>, done_adding |-> FALSE, got_shutdown |-> FALSE, connected |-> TRUE,
   buffer_low_trap |-> FALSE, readable |-> FALSE, buffer_low |-> FALSE, writable |-> TRUE]

\* dsk_memory_source_added_data, after an append: more than PipeSize is never there.
WithData(p, i, data) ==
  LET full == Len(p.buffer) + Len(data) = PipeSize[i] IN
  [p EXCEPT !.buffer = @ \o data,
            !.writable = @ /\ ~full,
            !.buffer_low_trap = @ \/ full,
            !.readable = TRUE]

\* Both ways to write; only one of them looks at got_shutdown.  n is what was taken.
PipeWrite(p, i, data, looks) ==
  LET room == PipeSize[i] - Len(p.buffer)
      n == Min({room, Len(data)})
  IN CASE ~p.connected \/ (looks /\ p.got_shutdown) -> [rv |-> "error", n |-> 0, pipe |-> p]
       [] p.connected /\ ~(looks /\ p.got_shutdown) /\ data = <<>> ->
            [rv |-> "success", n |-> 0, pipe |-> p]
       [] p.connected /\ ~(looks /\ p.got_shutdown) /\ data # <<>> /\ room = 0 ->
            [rv |-> "again", n |-> 0, pipe |-> p]
       [] OTHER -> [rv |-> "success", n |-> n, pipe |-> WithData(p, i, SubSeq(data, 1, n))]

\* handle_source_buffer_low
BufferLow(p) == [p EXCEPT !.writable = TRUE, !.buffer_low_trap = FALSE]

SinkShutdown(p) ==
  IF p.connected
  THEN [p EXCEPT !.connected = FALSE, !.buffer_low_trap = FALSE, !.done_adding = TRUE,
                 !.buffer_low = FALSE, !.readable = TRUE]
  ELSE p

\* dsk_memory_source_read with max_len n, which may be shorter than what is there.
PipeRead(p, n) ==
  LET len == Min({n, Len(p.buffer)})
      rest == SubSeq(p.buffer, len + 1, Len(p.buffer))
      p2 == IF p.done_adding THEN [p EXCEPT !.buffer = rest]
            ELSE [p EXCEPT !.buffer = rest, !.buffer_low = TRUE,
                           !.readable = @ /\ rest # <<>>]
  IN [rv |-> IF len > 0 THEN "success" ELSE IF p.done_adding THEN "eof" ELSE "again",
      data |-> SubSeq(p.buffer, 1, len), pipe |-> p2]

PipeReadBuffer(p) ==
  IF p.buffer = <<>> /\ p.done_adding
  THEN [rv |-> "eof", data |-> <<>>, pipe |-> p]
  ELSE [rv |-> IF p.buffer = <<>> THEN "again" ELSE "success", data |-> p.buffer,
        pipe |-> IF p.done_adding THEN [p EXCEPT !.buffer = <<>>]
                 ELSE [p EXCEPT !.buffer = <<>>, !.buffer_low = TRUE, !.readable = FALSE]]

\* mutant: the writer is not told
SourceFinalizeSilent(p) ==
  IF p.connected
  THEN [p EXCEPT !.buffer = <<>>, !.buffer_low_trap = FALSE, !.connected = FALSE]
  ELSE [p EXCEPT !.buffer = <<>>]

\* The last reference to the memory source goes: source_finalized, then its finalizer.
SourceFinalize(p) ==
  IF p.connected
  THEN [p EXCEPT !.buffer = <<>>, !.buffer_low_trap = FALSE, !.connected = FALSE, !.writable = TRUE]
  ELSE [p EXCEPT !.buffer = <<>>]

-----------------------------------------------------------------------------
(* The filter source, over pipe 1.  It passes on what it has, but the last *)
(* Keep octets, which come when it is finished.                            *)

\* mutant: what is kept is passed on as well
PassedAll(all) == all

Passed(all) == SubSeq(all, 1, Len(all) - Min({Keep, Len(all)}))
Held(all) == SubSeq(all, Len(all) - Min({Keep, Len(all)}) + 1, Len(all))

\* read_into_buffer; ok: whether the filter accepts the data, or its end.
ReadIntoBuffer(f, p, ok) ==
  LET r == PipeReadBuffer(p)
      all == f.held \o r.data
  IN CASE r.rv = "eof" ->
            [ok |-> ok, pipe |-> SourceFinalize(p),
             filter |-> [f EXCEPT !.read_trap = FALSE, !.sub = FALSE, !.filter = FALSE,
                                  !.buffer = @ \o f.held, !.held = <<>>]]
       [] r.rv = "again" -> [ok |-> TRUE, pipe |-> r.pipe, filter |-> f]
       [] r.rv = "success" ->
            [ok |-> ok, pipe |-> r.pipe,
             filter |-> IF ok THEN [f EXCEPT !.buffer = @ \o Passed(all), !.held = Held(all)] ELSE f]

\* dsk_octet_source_filter_read_buffer; trapped: its hook has an unblocked trap.
FilterReadBuffer(f, p, trapped, ok) ==
  LET r == IF f.buffer = <<>> /\ f.filter THEN ReadIntoBuffer(f, p, ok)
           ELSE [ok |-> TRUE, pipe |-> p, filter |-> f]
      g == r.filter
  IN [pipe |-> r.pipe,
      rv |-> IF ~r.ok THEN "error"
             ELSE IF g.buffer # <<>> THEN "success"
             ELSE IF g.filter THEN "again" ELSE "eof",
      data |-> IF r.ok THEN g.buffer ELSE <<>>,
      filter |-> IF r.ok /\ g.buffer # <<>>
                 THEN [g EXCEPT !.buffer = <<>>, !.readable = ~g.filter,
                                !.read_trap = @ \/ (g.sub /\ trapped)]
                 ELSE g]

\* dsk_octet_source_filter_shutdown; sub is finalized, having no other reference.
FilterShutdown(f) ==
  [f EXCEPT !.read_trap = FALSE, !.sub = FALSE, !.filter = FALSE, !.buffer = <<>>,
            !.held = <<>>, !.readable = TRUE]

\* mutant: blocking stops the trap below, unblocking does not start it again
SetPollOff(f, is_trapped) == [f EXCEPT !.read_trap = @ /\ is_trapped]

\* set_poll, called when the trap of the hook comes, goes, blocks or unblocks.
SetPoll(f, is_trapped) == [f EXCEPT !.read_trap = f.sub /\ is_trapped]

-----------------------------------------------------------------------------
(* The connection. *)

dsk_octet_connection_new ==
  [buffer |-> <<>>, source |-> TRUE, sink |-> TRUE, read_trap |-> 0, write_trap |-> 1,
   refs |-> 2, crashed |-> FALSE]

\* source_hook_destroyed: with the connection's the last reference to the filter source goes.
DropSource ==
  /\ filter' = FilterShutdown(filter)
  /\ pipe' = [pipe EXCEPT ![1] = IF filter.sub THEN SourceFinalize(@) ELSE @]

\* done_reading of handle_source_readable.  c: the connection; p, the first pipe, and f
\* are as the read left them.  If the buffer is empty both traps go, and the sink is
\* finalized (which shuts it down) before dsk_octet_sink_shutdown can be called.
DoneReading(c, f, p) ==
  LET both == c.buffer = <<>> /\ c.write_trap # NoTrap IN
  /\ conn' = [c EXCEPT !.source = FALSE, !.read_trap = NoTrap,
                       !.write_trap = IF both THEN NoTrap ELSE @,
                       !.sink = @ /\ ~both,
                       !.refs = @ - (IF both THEN 2 ELSE 1)]
  /\ filter' = FilterShutdown(f)
  /\ pipe' = [pipe EXCEPT ![1] = IF f.sub THEN SourceFinalize(p) ELSE p,
                          ![2] = IF both THEN SinkShutdown(@) ELSE @]

\* handle_source_readable
SourceReadable(ok) ==
  LET r == FilterReadBuffer(filter, pipe[1], TRUE, ok)
      c == [conn EXCEPT !.buffer = @ \o r.data]
      full == Len(c.buffer) >= MaxBuffer
  IN \/ /\ r.rv = "again"
        /\ filter' = r.filter /\ pipe' = [pipe EXCEPT ![1] = r.pipe]
        /\ UNCHANGED <<conn, broken>>
     \/ /\ r.rv \in {"eof", "error"}
        /\ DoneReading(conn, r.filter, r.pipe)
        /\ broken' = (broken \/ r.rv = "error")
     \/ /\ r.rv = "success"
        /\ conn' = [c EXCEPT !.write_trap = IF @ = 1 THEN 0 ELSE @,
                             !.read_trap = IF full THEN 1 ELSE @]
        /\ filter' = IF full THEN SetPoll(r.filter, FALSE) ELSE r.filter
        /\ pipe' = [pipe EXCEPT ![1] = r.pipe]
        /\ UNCHANGED broken

\* handle_sink_writable
SinkWritable ==
  LET w == PipeWrite(pipe[2], 2, conn.buffer, FALSE)
      rest == SubSeq(conn.buffer, w.n + 1, Len(conn.buffer))
      unblocks == conn.read_trap = 1 /\ Len(rest) < MaxBuffer
  IN \/ /\ w.rv # "error"
        /\ conn' = [conn EXCEPT !.buffer = rest,
                                !.write_trap = IF rest = <<>> THEN 1 ELSE 0,
                                !.read_trap = IF unblocks THEN 0 ELSE @]
        /\ filter' = IF unblocks THEN SetPoll(filter, TRUE) ELSE filter
        /\ pipe' = [pipe EXCEPT ![2] = w.pipe]
     \/ /\ w.rv = "error"
        /\ conn' = [conn EXCEPT !.source = FALSE, !.sink = FALSE, !.refs = 0,
                                !.read_trap = NoTrap, !.write_trap = NoTrap]
        /\ IF conn.source THEN DropSource ELSE UNCHANGED <<filter, pipe>>

\* dsk_octet_connection_shutdown: the destroy functions of the traps drop both ends, so
\* nothing is left to shut down when it comes to that.
ConnectionShutdown ==
  /\ conn.refs > 0 /\ ~conn.crashed
  /\ conn' = [conn EXCEPT !.source = FALSE, !.sink = FALSE, !.refs = 0,
                          !.read_trap = NoTrap, !.write_trap = NoTrap]
  /\ filter' = IF conn.source THEN FilterShutdown(filter) ELSE filter
  /\ pipe' = [pipe EXCEPT ![1] = IF conn.source /\ filter.sub THEN SourceFinalize(@) ELSE @,
                          ![2] = IF conn.sink THEN SinkShutdown(@) ELSE @]
  /\ broken' = TRUE
  /\ UNCHANGED programVars

\* dsk_octet_connection_disconnect destroys read_trap, which is NULL by then, where
\* write_trap is meant: the program crashes.
ConnectionDisconnect ==
  /\ conn.write_trap # NoTrap /\ ~conn.crashed
  /\ conn' = [conn EXCEPT !.crashed = TRUE]
  /\ UNCHANGED <<pipe, filter, broken, programVars>>

-----------------------------------------------------------------------------
(* Hooks notified by the idle handler of dsk-hook.c. *)

\* The readable hook of pipe 1 calls notify_filter_readable, which notifies the hook of
\* the filter source; afterwards the trap on pipe 1 stays only if that hook is trapped.
\* (When the connection ends in it, what this looks at is freed memory; the trap has been
\* destroyed by then, so it makes no difference what is read.)
NotifySource ==
  /\ ~conn.crashed
  /\ pipe[1].readable /\ filter.read_trap /\ conn.read_trap = 0
  /\ \E ok \in BOOLEAN : SourceReadable(ok)
  /\ UNCHANGED programVars

\* The filter source's own hook: it has octets left or is at its end.
NotifyFilter ==
  /\ ~conn.crashed
  /\ filter.readable /\ conn.read_trap = 0
  /\ \E ok \in BOOLEAN : SourceReadable(ok)
  /\ UNCHANGED programVars

NotifySink ==
  /\ ~conn.crashed
  /\ pipe[2].writable /\ conn.write_trap = 0
  /\ SinkWritable
  /\ UNCHANGED <<broken, programVars>>

NotifyBufferLow(i) ==
  /\ ~conn.crashed
  /\ pipe[i].buffer_low /\ pipe[i].buffer_low_trap
  /\ pipe' = [pipe EXCEPT ![i] = BufferLow(@)]
  /\ UNCHANGED <<filter, conn, broken, programVars>>

-----------------------------------------------------------------------------
(* The program. *)

Octets(n) == [i \in 1..n |-> written + i]

\* The producer writes up to n octets.
ProducerWrites(n) ==
  LET w == PipeWrite(pipe[1], 1, Octets(n), TRUE) IN
  /\ pipe' = [pipe EXCEPT ![1] = w.pipe]
  /\ written' = written + w.n
  /\ producer' = IF w.rv = "error" THEN [producer EXCEPT !.error = TRUE] ELSE producer
  /\ UNCHANGED <<filter, conn, consumer, broken, consumed>>

\* At any time, or in the callback of its trap on the writable hook.
Write ==
  /\ producer.open /\ ~producer.error /\ ~conn.crashed
  /\ \E n \in 1..(MaxWritten - written) : ProducerWrites(n)

ShutDownSink ==
  /\ producer.open /\ ~conn.crashed
  /\ producer' = [producer EXCEPT !.open = FALSE]
  /\ pipe' = [pipe EXCEPT ![1] = SinkShutdown(@)]
  /\ UNCHANGED <<filter, conn, consumer, broken, written, consumed>>

\* The consumer's callback on the readable hook reads all or one octet.
Consume ==
  /\ ~conn.crashed
  /\ consumer.reads /\ pipe[2].readable
  /\ \E r \in {PipeReadBuffer(pipe[2]), PipeRead(pipe[2], 1)} :
       /\ pipe' = [pipe EXCEPT ![2] = r.pipe]
       /\ consumed' = consumed \o r.data
       /\ consumer' = IF r.rv = "eof" THEN [consumer EXCEPT !.eof = TRUE, !.reads = FALSE]
                      ELSE consumer
  /\ UNCHANGED <<filter, conn, producer, broken, written>>

\* dsk_octet_source_shutdown of the last source: it is only noted.
ShutDownSource ==
  /\ consumer.open /\ consumer.reads /\ ~conn.crashed
  /\ consumer' = [consumer EXCEPT !.reads = FALSE]
  /\ pipe' = [pipe EXCEPT ![2].got_shutdown = TRUE]
  /\ UNCHANGED <<filter, conn, producer, broken, written, consumed>>

\* The consumer drops its reference to the last source.
DropLastSource ==
  /\ consumer.open /\ ~conn.crashed
  /\ consumer' = [consumer EXCEPT !.open = FALSE, !.reads = FALSE]
  /\ pipe' = [pipe EXCEPT ![2] = SourceFinalize(@)]
  /\ broken' = TRUE
  /\ UNCHANGED <<filter, conn, producer, written, consumed>>

Init ==
  /\ pipe = [i \in 1..2 |-> dsk_octet_pipe_new]
  /\ filter = [buffer |-> <<>>, held |-> <<>>, filter |-> TRUE, sub |-> TRUE,
               read_trap |-> TRUE, readable |-> FALSE]
  /\ conn = dsk_octet_connection_new
  /\ producer = [open |-> TRUE, error |-> FALSE] /\ broken = FALSE
  /\ consumer = [open |-> TRUE, reads |-> TRUE, eof |-> FALSE]
  /\ written = 0 /\ consumed = <<>>

Idle ==
  \/ NotifySource \/ NotifyFilter \/ NotifySink
  \/ \E i \in 1..2 : NotifyBufferLow(i)

Next ==
  \/ Idle \/ Consume
  \/ Write \/ ShutDownSink \/ ShutDownSource \/ DropLastSource
  \/ ConnectionShutdown \/ ConnectionDisconnect

Spec == Init /\ [][Next]_vars

\* The idle handler notifies every hook that stays idle and trapped (IdleHooksNotified of
\* DskHook), and a consumer that traps the last source reads from it when told to.
FairSpec ==
  /\ Spec
  /\ WF_vars(NotifySource) /\ WF_vars(NotifyFilter) /\ WF_vars(NotifySink)
  /\ \A i \in 1..2 : WF_vars(NotifyBufferLow(i))
  /\ WF_vars(Consume)

-----------------------------------------------------------------------------
(* Properties. *)

Sent == [i \in 1..written |-> i]
InTransit == pipe[2].buffer \o conn.buffer \o filter.buffer \o filter.held \o pipe[1].buffer

\* No octet is lost, doubled or moved past another on its way through both pipes, the
\* filter and the connection, whatever part is full, blocked or finished at the time;
\* after a failure the consumer still has read a beginning of what was written.
NothingLost ==
  /\ TypeOK
  /\ ~broken => consumed \o InTransit = Sent
  /\ IsPrefix(consumed \o pipe[2].buffer, Sent)

Stopped == conn.crashed \/ (consumer.open /\ ~consumer.reads /\ ~consumer.eof)

\* Whatever was written, but for what the filter holds back, reaches a consumer that reads:
\* the traps of the connection and the filter source are blocked and unblocked so that no
\* part waits for one that waits for it.
Delivered ==
  \A n \in 1..MaxWritten : written >= n ~> Len(consumed) + Keep >= n \/ broken \/ Stopped

\* A producer that was told to wait is told to go on, be it because the consumer reads, or
\* because the chain behind the pipe is gone, which it then learns from an error; and when the
\* connection lets go of its sink, the consumer reads the end.
BothEndsAreTold ==
  /\ ~pipe[1].writable ~> pipe[1].writable \/ ~producer.open \/ Stopped
  /\ ~conn.sink ~> consumer.eof \/ ~consumer.open \/ Stopped
=============================================================================
