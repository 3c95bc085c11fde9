--------------------------- MODULE DskClientStream ---------------------------
(***************************************************************************)
(* dsk-client-stream.c: a stream that looks up a name, connects, closes    *)
(* the connection when it is idle for too long, and connects again some    *)
(* time after it was disconnected or failed to connect.  Each of its steps *)
(* is a callback: of the DNS client, of a timer, or of the loop when the    *)
(* descriptor is ready; the program may change the times and the traps,    *)
(* and disconnect, between any two of them and in the disconnect hook.      *)
(*                                                                         *)
(* What goes over the connection is left out, but for its effect on the     *)
(* idle timer.  The end of the data or an error while reading changes      *)
(* nothing: it is for the program to disconnect.                            *)
(***************************************************************************)
EXTENDS Naturals, Integers

CONSTANTS
  Times,          \* the times that the program sets, in ticks
  MaxQuiet        \* bound: ticks that are told apart

ASSUME TimesAssumption == MaxQuiet \in Nat /\ Times \subseteq 0..MaxQuiet

VARIABLES
  stream,         \* the stream
  trapped,        \* which of "read" and "write" are trapped on source and sink
  shut,           \* which of them have been shut down
  held,           \* the program holds a reference
  notifying,      \* dsk_client_stream_disconnect is in its hook
  up,             \* the other end can be reached
  quiet,          \* history: ticks since the last traffic, or since the idle time was set
  cancelled,      \* history: the program took away the timer that the stream waited for
  fault           \* history: an assertion failed, or memory was used that is freed

vars == <<stream, trapped, shut, held, notifying, up, quiet, cancelled, fault>>

Ways == {"read", "write"}
TimesOrNone == Times \cup {-1}

Streams ==
  [is_resolving_name : BOOLEAN, is_connecting : BOOLEAN, is_connected : BOOLEAN,
   fd : BOOLEAN, watch : SUBSET Ways, name : {"dns", "address", "long_path"},
   reconnect_time_ms : TimesOrNone, reconnect_timer : Nat \cup {-1},
   idle_disconnect_time_ms : TimesOrNone, idle_disconnect_timer : BOOLEAN,
   idle_left : Nat \cup {-1}]

TypeOK ==
  /\ stream \in Streams
  /\ trapped \subseteq Ways \ shut /\ shut \subseteq Ways
  /\ held \in BOOLEAN /\ notifying \in BOOLEAN /\ up \in BOOLEAN
  /\ quiet \in 0..MaxQuiet /\ cancelled \in BOOLEAN /\ fault \in {"none", "assert", "stale"}

Runs == fault = "none"

\* Between callbacks; the program or the loop may act.
AtRest == Runs /\ ~notifying

-----------------------------------------------------------------------------
(* Operators on the stream.  A timer is the ticks it has left, -1 if there  *)
(* is none.  idle_disconnect_timer: the pointer is set; nothing clears it    *)
(* when the timer has fired (idle_left -1) or the stream disconnects.       *)

\* stream_do_watch_fd
Watching(s, traps) == IF s.is_connected THEN [s EXCEPT !.watch = traps] ELSE s

\* ping_idle_disconnect_timer
Pinged(s) ==
  IF s.idle_disconnect_time_ms >= 0 /\ s.is_connected
  THEN [s EXCEPT !.idle_left = s.idle_disconnect_time_ms] ELSE s

\* mutant: no timer for this connection
FdConnectedNoTimer(s) ==
  Watching([s EXCEPT !.is_connecting = FALSE, !.is_connected = TRUE, !.fd = TRUE], trapped)

\* The stream gets connected; handle_fd_connected.
FdConnected(s) ==
  LET c == Watching([s EXCEPT !.is_connecting = FALSE, !.is_connected = TRUE, !.fd = TRUE], trapped)
  IN IF s.idle_disconnect_time_ms >= 0
     THEN [c EXCEPT !.idle_disconnect_timer = TRUE, !.idle_left = s.idle_disconnect_time_ms]
     ELSE c

\* mutant: only if it is not zero
MaybeReconnectLater(s) ==
  IF s.reconnect_time_ms > 1 THEN [s EXCEPT !.reconnect_timer = s.reconnect_time_ms] ELSE s

\* maybe_set_autoreconnect_timer
MaybeReconnect(s) ==
  IF s.reconnect_time_ms >= 0 THEN [s EXCEPT !.reconnect_timer = s.reconnect_time_ms] ELSE s

\* mutant: the descriptor stays open
ConnectFailedOpen(s) == MaybeReconnect([s EXCEPT !.is_connecting = FALSE, !.watch = {}])

ConnectFailed(s) ==
  MaybeReconnect([s EXCEPT !.is_connecting = FALSE, !.fd = FALSE, !.watch = {}])

\* Where begin_connecting_sockaddr may lead; it fails an assertion if the idle timer of an
\* earlier connection is still noted when it gets connected.
Attempts(s) ==
  {[s EXCEPT !.is_connecting = TRUE, !.fd = TRUE, !.watch = Ways]}
    \cup (IF up THEN {FdConnected(s)} ELSE {ConnectFailed(s)})

\* begin_connecting to a name, an address (or a path that fits), or a path too long for a local
\* socket, for which nothing is done: no connection, and no timer either.
Begun(s) ==
  CASE s.name = "dns" -> {[s EXCEPT !.is_resolving_name = TRUE]}
    [] s.name = "address" -> Attempts(s)
    [] s.name = "long_path" -> {s}

\* The assertion of handle_fd_connected on the way from s to t.
Asserts(s, t) == t.is_connected /\ ~s.is_connected /\ s.idle_disconnect_timer

Become(t) ==
  /\ stream' = t
  /\ fault' = IF Asserts(stream, t) THEN "assert" ELSE fault
  /\ quiet' = IF t.is_connected /\ ~stream.is_connected THEN 0 ELSE quiet

\* dsk_client_stream_finalize: a timer that has fired is removed once more.
Finalized(s) == [s EXCEPT !.reconnect_timer = -1, !.idle_left = -1, !.fd = FALSE, !.watch = {},
                          !.is_connecting = FALSE, !.is_connected = FALSE]
FinalizeFault(s) == IF s.idle_disconnect_timer /\ s.idle_left = -1 THEN "stale" ELSE fault

-----------------------------------------------------------------------------
(* Callbacks. *)

\* handle_dns_done.  Its reference may be the last one.
HandleDnsDone ==
  /\ AtRest /\ stream.is_resolving_name
  /\ LET s == [stream EXCEPT !.is_resolving_name = FALSE] IN
     \E t \in IF up THEN Attempts(s) ELSE Attempts(s) \cup {ConnectFailed(s)} :
       IF held THEN Become(t)
       ELSE /\ stream' = Finalized(t)
            /\ fault' = IF Asserts(stream, t) THEN "assert" ELSE FinalizeFault(t)
            /\ UNCHANGED quiet
  /\ UNCHANGED <<trapped, shut, held, notifying, up, cancelled>>

\* handle_fd_connecting; EAGAIN, after which it waits on, is a stutter.
HandleFdConnecting ==
  /\ AtRest /\ stream.is_connecting
  /\ Become(IF up THEN FdConnected(stream) ELSE ConnectFailed(stream))
  /\ UNCHANGED <<trapped, shut, held, notifying, up, cancelled>>

HandleReconnectTimerExpired ==
  /\ AtRest /\ stream.reconnect_timer = 0
  /\ \E t \in Begun([stream EXCEPT !.reconnect_timer = -1]) : Become(t)
  /\ UNCHANGED <<trapped, shut, held, notifying, up, cancelled>>

\* dsk_client_stream_disconnect, up to its hook.
Disconnected(s) == [s EXCEPT !.is_connected = FALSE, !.fd = FALSE, !.watch = {}]

HandleIdleTooLong ==
  /\ AtRest /\ stream.idle_left = 0
  /\ LET s == [stream EXCEPT !.idle_left = -1] IN
     stream' = IF s.is_connected THEN Disconnected(s) ELSE s
  /\ notifying' = stream.is_connected
  /\ UNCHANGED <<trapped, shut, held, up, quiet, cancelled, fault>>

\* The hook returns; maybe_set_autoreconnect_timer asserts that there is no timer yet.
DisconnectReturns ==
  /\ Runs /\ notifying
  /\ notifying' = FALSE
  /\ stream' = MaybeReconnect(stream)
  /\ fault' = IF stream.reconnect_timer # -1 THEN "assert" ELSE fault
  /\ UNCHANGED <<trapped, shut, held, up, quiet, cancelled>>

-----------------------------------------------------------------------------
(* The program. *)

\* dsk_client_stream_disconnect
Disconnect ==
  /\ AtRest /\ held /\ stream.is_connected
  /\ stream' = Disconnected(stream) /\ notifying' = TRUE
  /\ UNCHANGED <<trapped, shut, held, up, quiet, cancelled, fault>>

\* dsk_client_stream_set_reconnect_time, also from the disconnect hook.  The same time as before
\* is no change.  If -1 comes while the stream waits, the timer goes and reconnect_time_ms
\* stays: the same time later is still no change, and for another one the timer that is
\* not there is removed.
SetReconnectTime(millis) ==
  LET relevant == ~stream.fd /\ ~stream.is_resolving_name IN
  /\ Runs /\ held
  /\ \/ /\ millis = stream.reconnect_time_ms
        /\ UNCHANGED <<stream, cancelled, fault>>
     \/ /\ millis # stream.reconnect_time_ms /\ ~relevant
        /\ stream' = [stream EXCEPT !.reconnect_time_ms = millis]
        /\ UNCHANGED <<cancelled, fault>>
     \/ /\ millis # stream.reconnect_time_ms /\ relevant /\ millis = -1
        /\ stream' = [stream EXCEPT !.reconnect_timer = -1]
        /\ cancelled' = (cancelled \/ stream.reconnect_timer # -1)
        /\ UNCHANGED fault
     \/ /\ millis # stream.reconnect_time_ms /\ relevant /\ millis # -1
        /\ stream' = [stream EXCEPT !.reconnect_timer = millis, !.reconnect_time_ms = millis]
        /\ fault' = IF stream.reconnect_time_ms >= 0
                    THEN IF stream.reconnect_timer = -1 THEN "stale" ELSE fault
                    ELSE IF stream.reconnect_timer # -1 THEN "assert" ELSE fault
        /\ UNCHANGED cancelled
  /\ UNCHANGED <<trapped, shut, held, notifying, up, quiet>>

\* dsk_client_stream_set_max_idle_time, also from the disconnect hook.
SetMaxIdleTime(millis) ==
  LET on == millis >= 0 /\ stream.is_connected IN
  /\ Runs /\ held /\ millis # stream.idle_disconnect_time_ms
  /\ stream' = [stream EXCEPT !.idle_disconnect_time_ms = millis,
                              !.idle_disconnect_timer = on, !.idle_left = IF on THEN millis ELSE -1]
  /\ fault' = FinalizeFault(stream)
  /\ quiet' = 0
  /\ UNCHANGED <<trapped, shut, held, notifying, up, cancelled>>

\* A trap comes, goes, is blocked or unblocked: the set_poll functions of source and sink.
SetPoll(traps) ==
  /\ Runs /\ held /\ traps # trapped /\ traps \cap shut = {}
  /\ trapped' = traps /\ stream' = Watching(stream, traps)
  /\ UNCHANGED <<shut, held, notifying, up, quiet, cancelled, fault>>

\* dsk_client_stream_source_shutdown, dsk_client_stream_sink_shutdown
ShutDown(way) ==
  /\ AtRest /\ held /\ way \notin shut
  /\ shut' = shut \cup {way} /\ trapped' = trapped \ {way}
  /\ stream' = Watching(stream, trapped \ {way})
  /\ UNCHANGED <<held, notifying, up, quiet, cancelled, fault>>

\* A read or write function succeeds.
Transfer ==
  /\ AtRest /\ held /\ stream.is_connected /\ up
  /\ stream' = Pinged(stream) /\ quiet' = 0
  /\ UNCHANGED <<trapped, shut, held, notifying, up, cancelled, fault>>

\* The program drops its references; a lookup that is underway has another one.
Drop ==
  /\ AtRest /\ held
  /\ held' = FALSE /\ trapped' = {}
  /\ IF stream.is_resolving_name THEN UNCHANGED <<stream, fault>>
     ELSE stream' = Finalized(stream) /\ fault' = FinalizeFault(stream)
  /\ UNCHANGED <<shut, notifying, up, quiet, cancelled>>

-----------------------------------------------------------------------------
Tick ==
  /\ AtRest /\ (stream.idle_left > 0 \/ stream.reconnect_timer > 0)
  /\ stream' = [stream EXCEPT !.idle_left = IF @ > 0 THEN @ - 1 ELSE @,
                              !.reconnect_timer = IF @ > 0 THEN @ - 1 ELSE @]
  /\ quiet' = IF quiet < MaxQuiet THEN quiet + 1 ELSE quiet
  /\ UNCHANGED <<trapped, shut, held, notifying, up, cancelled, fault>>

NetworkChanges ==
  /\ Runs /\ up' = ~up
  /\ UNCHANGED <<stream, trapped, shut, held, notifying, quiet, cancelled, fault>>

\* dsk_client_stream_new
Init ==
  /\ up \in BOOLEAN
  /\ trapped = {} /\ shut = {} /\ held = TRUE /\ notifying = FALSE /\ quiet = 0
  /\ cancelled = FALSE /\ fault = "none"
  /\ \E reconnect, idle \in TimesOrNone, name \in {"dns", "address", "long_path"} :
       /\ stream \in Begun(
            [is_resolving_name |-> FALSE, is_connecting |-> FALSE, is_connected |-> FALSE,
             fd |-> FALSE, watch |-> {}, name |-> name,
             reconnect_time_ms |-> reconnect, reconnect_timer |-> -1,
             idle_disconnect_time_ms |-> idle, idle_disconnect_timer |-> FALSE, idle_left |-> -1])

Callback ==
  \/ HandleDnsDone \/ HandleFdConnecting \/ HandleReconnectTimerExpired \/ HandleIdleTooLong

Next ==
  \/ Callback \/ DisconnectReturns \/ Tick \/ NetworkChanges
  \/ Disconnect \/ Transfer \/ Drop
  \/ \E t \in TimesOrNone : SetReconnectTime(t) \/ SetMaxIdleTime(t)
  \/ \E traps \in SUBSET Ways : SetPoll(traps)
  \/ \E way \in Ways : ShutDown(way)

Spec == Init /\ [][Next]_vars

\* Lookups are answered (LookupsAnswered of DskDns), timers fire (TimersFire of DskDispatch),
\* the kernel reports on a connection that is being made, and hooks return.
FairSpec ==
  /\ Spec
  /\ WF_vars(HandleDnsDone) /\ WF_vars(HandleFdConnecting)
  /\ WF_vars(HandleReconnectTimerExpired) /\ WF_vars(HandleIdleTooLong)
  /\ WF_vars(DisconnectReturns) /\ WF_vars(Tick)

-----------------------------------------------------------------------------
(* Properties. *)

Waiting == stream.reconnect_timer >= 0
Phases ==
  {p \in {"resolving", "connecting", "connected", "waiting"} :
     \/ p = "resolving" /\ stream.is_resolving_name
     \/ p = "connecting" /\ stream.is_connecting
     \/ p = "connected" /\ stream.is_connected
     \/ p = "waiting" /\ Waiting}

\* There is nothing to do next: no reconnection is wanted, the program took the timer away, after
\* which it cannot have another one, or the path is too long.
Stopped == stream.reconnect_time_ms = -1 \/ cancelled \/ stream.name = "long_path"

\* At rest the stream does one thing at a time, has a descriptor only for a connection, and it
\* does nothing at all only if it is Stopped: no callback forgets to plan the next step, and
\* none plans a second one. A connection is watched for what its source and
\* its sink are trapped for, also if that changed while it was being made; until then it is
\* watched for the connection itself.
OnePhase ==
  /\ TypeOK
  /\ AtRest /\ held =>
       /\ \A p, q \in Phases : p = q
       /\ Phases = {} => Stopped
       /\ stream.fd <=> Phases \cap {"connecting", "connected"} # {}
  /\ Runs => stream.watch = IF stream.is_connected THEN trapped
                            ELSE IF stream.is_connecting THEN Ways ELSE {}

\* A connection that is to be closed when idle has its timer, which counts from the last
\* traffic: it is not closed early, and not forgotten.
IdleTimerKept ==
  AtRest /\ stream.is_connected =>
    /\ stream.idle_disconnect_timer <=> stream.idle_disconnect_time_ms >= 0
    /\ stream.idle_disconnect_timer =>
         stream.idle_left + quiet >= stream.idle_disconnect_time_ms /\ stream.idle_left >= 0

\* "dsk_assert (stream->idle_disconnect_timer == NULL)" (dsk-client-stream.c:254): a connection
\* is made without the idle timer of an earlier one.
NoTimerOnConnect ==
  [][stream'.is_connected /\ ~stream.is_connected => ~stream.idle_disconnect_timer]_vars

\* A stream that is not Stopped is connected again, whatever failed before and however often,
\* unless the other end cannot be reached, or the program changes the time again and again,
\* which starts the timer anew.
KeepsTrying ==
  <>[][\A t \in TimesOrNone : ~SetReconnectTime(t)]_vars =>
    (~stream.is_connected ~> stream.is_connected \/ ~held \/ ~up \/ Stopped \/ ~Runs)

=============================================================================
