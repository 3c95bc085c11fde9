------------------------ MODULE DskClientStreamProofs ------------------------
(***************************************************************************)
(* Proofs about the client stream, for any times and any bound on the      *)
(* ticks: it does one thing at a time, and a connection that is to be       *)
(* closed when idle has its timer.                                         *)
(***************************************************************************)
EXTENDS DskClientStream, TLAPS

(* One thing at a time: a stream that resolves a name, connects, is *)
(* connected or waits to reconnect does none of the others, and has a *)
(* descriptor and watches it as that thing wants. *)
Idle(s) == ~s.is_resolving_name /\ ~s.is_connecting /\ ~s.is_connected
OneThing(s) ==
  /\ s.is_resolving_name => ~s.is_connecting /\ ~s.is_connected /\ s.reconnect_timer = -1
  /\ s.is_connecting => ~s.is_connected /\ s.reconnect_timer = -1
  /\ s.is_connected => s.reconnect_timer = -1
  /\ s.fd <=> s.is_connecting \/ s.is_connected
WatchedFor(s, traps) ==
  s.watch = IF s.is_connected THEN traps ELSE IF s.is_connecting THEN Ways ELSE {}
Timed(s, q) ==
  s.is_connected =>
    /\ s.idle_disconnect_timer <=> s.idle_disconnect_time_ms >= 0
    /\ s.idle_disconnect_timer => s.idle_left + q >= s.idle_disconnect_time_ms /\ s.idle_left >= 0

(* Inductive: in the disconnect hook the stream is idle; at rest it is idle *)
(* and without a timer only if it is Stopped; without the program's *)
(* reference only a lookup goes on. *)
ClientInv ==
  /\ TypeOK
  /\ Runs =>
       /\ OneThing(stream) /\ WatchedFor(stream, trapped) /\ Timed(stream, quiet)
       /\ notifying => Idle(stream)
       /\ ~notifying /\ held /\ Idle(stream) => Stopped \/ stream.reconnect_timer # -1
       /\ ~held => ~stream.is_connecting /\ ~stream.is_connected /\ stream.reconnect_timer = -1
                   /\ ~notifying

LEMMA TimesAreSmall ==
  ASSUME NEW t \in TimesOrNone
  PROVE  t = -1 \/ (t \in Nat /\ t >= 0 /\ t <= MaxQuiet)
<1>1. CASE t = -1
  BY <1>1
<1>2. CASE t \in Times
  <2>1. t \in 0..MaxQuiet
    BY <1>2, TimesAssumption
  <2>2. QED BY <2>1, TimesAssumption
<1>3. QED BY <1>1, <1>2 DEF TimesOrNone

(* A stream at rest: what every callback finds and leaves. *)
Well(s, traps, q) ==
  s \in Streams /\ OneThing(s) /\ WatchedFor(s, traps) /\ Timed(s, q)

LEMMA MaybeReconnectKeeps ==
  ASSUME NEW s, NEW traps, NEW q, Well(s, traps, q), Idle(s)
  PROVE  /\ Well(MaybeReconnect(s), traps, q)
         /\ Idle(MaybeReconnect(s))
         /\ MaybeReconnect(s).reconnect_time_ms = s.reconnect_time_ms
         /\ MaybeReconnect(s).name = s.name
         /\ MaybeReconnect(s).reconnect_timer # -1 \/ s.reconnect_time_ms = -1
BY TimesAssumption DEF Well, Idle, MaybeReconnect, Streams, TimesOrNone, OneThing, WatchedFor, Timed

(* A connection that fails leaves a stream that waits, if it is to. *)
LEMMA ConnectFailedKeeps ==
  ASSUME NEW s, NEW traps, NEW q, NEW p, s \in Streams, OneThing(s), s.reconnect_timer = -1,
         ~s.is_resolving_name, ~s.is_connected
  PROVE  /\ Well(ConnectFailed(s), traps, q)
         /\ Idle(ConnectFailed(s))
         /\ ConnectFailed(s).reconnect_time_ms = s.reconnect_time_ms
         /\ ConnectFailed(s).name = s.name
         /\ ConnectFailed(s).reconnect_timer # -1 \/ s.reconnect_time_ms = -1
<1> DEFINE t == [s EXCEPT !.is_connecting = FALSE, !.fd = FALSE, !.watch = {}]
<1>1. Well(t, traps, q) /\ Idle(t) /\ t.reconnect_time_ms = s.reconnect_time_ms
      /\ t.name = s.name
  BY DEF Well, Idle, Streams, OneThing, WatchedFor, Timed
<1>2. ConnectFailed(s) = MaybeReconnect(t)
  BY DEF ConnectFailed
<1> HIDE DEF t
<1>3. QED BY <1>1, <1>2, MaybeReconnectKeeps

(* One that is made has its timer, if no earlier one is noted. *)
LEMMA FdConnectedKeeps ==
  ASSUME NEW s, s \in Streams, OneThing(s), s.reconnect_timer = -1, trapped \subseteq Ways,
         ~s.is_resolving_name, ~s.is_connected
  PROVE  /\ FdConnected(s) \in Streams
         /\ OneThing(FdConnected(s)) /\ WatchedFor(FdConnected(s), trapped)
         /\ FdConnected(s).is_connected
         /\ FdConnected(s).reconnect_time_ms = s.reconnect_time_ms
         /\ FdConnected(s).name = s.name
         /\ ~s.idle_disconnect_timer => Timed(FdConnected(s), 0)
<1> DEFINE c == [s EXCEPT !.is_connecting = FALSE, !.is_connected = TRUE, !.fd = TRUE, !.watch = trapped]
<1>1. /\ c \in Streams /\ OneThing(c) /\ WatchedFor(c, trapped) /\ c.is_connected
      /\ c.reconnect_time_ms = s.reconnect_time_ms /\ c.name = s.name
      /\ c.idle_disconnect_timer = s.idle_disconnect_timer
      /\ c.idle_disconnect_time_ms = s.idle_disconnect_time_ms
  BY DEF Streams, OneThing, WatchedFor
<1>2. FdConnected(s) = IF s.idle_disconnect_time_ms >= 0
                       THEN [c EXCEPT !.idle_disconnect_timer = TRUE,
                                      !.idle_left = s.idle_disconnect_time_ms]
                       ELSE c
  BY DEF FdConnected, Watching
<1>3. s.idle_disconnect_time_ms \in TimesOrNone
  BY DEF Streams
<1> HIDE DEF c
<1>4. CASE s.idle_disconnect_time_ms >= 0
  <2> DEFINE d == [c EXCEPT !.idle_disconnect_timer = TRUE, !.idle_left = s.idle_disconnect_time_ms]
  <2>1. s.idle_disconnect_time_ms \in Nat
    BY <1>3, <1>4, TimesAreSmall
  <2>2. d \in Streams
    BY <1>1, <2>1 DEF Streams
  <2>3. OneThing(d) /\ WatchedFor(d, trapped)
    BY <1>1 DEF Streams, OneThing, WatchedFor
  <2>4. Timed(d, 0)
    BY <1>1, <1>4, <2>1 DEF Streams, Timed
  <2>5. d.is_connected /\ d.reconnect_time_ms = s.reconnect_time_ms /\ d.name = s.name
    BY <1>1 DEF Streams
  <2> HIDE DEF d
  <2>6. FdConnected(s) = d
    BY <1>2, <1>4 DEF d
  <2>7. QED BY <2>2, <2>3, <2>4, <2>5, <2>6
<1>5. CASE ~(s.idle_disconnect_time_ms >= 0)
  <2>1. FdConnected(s) = c
    BY <1>2, <1>5
  <2>2. ~s.idle_disconnect_timer => Timed(c, 0)
    BY <1>1, <1>5 DEF Timed
  <2>3. QED BY <1>1, <2>1, <2>2
<1>6. QED BY <1>4, <1>5

(* What an attempt to connect, or the beginning of one, makes of a stream *)
(* that does nothing. *)
Leads(s, t) ==
  /\ t \in Streams /\ OneThing(t) /\ WatchedFor(t, trapped)
  /\ t.is_connected /\ ~s.idle_disconnect_timer => Timed(t, 0)
  /\ t.reconnect_time_ms = s.reconnect_time_ms /\ t.name = s.name
  /\ Idle(t) => t.reconnect_timer # -1 \/ s.reconnect_time_ms = -1 \/ s.name = "long_path"

LEMMA AttemptsLead ==
  ASSUME NEW s, s \in Streams, OneThing(s), s.reconnect_timer = -1, trapped \subseteq Ways,
         ~s.is_resolving_name, ~s.is_connected, NEW t \in Attempts(s)
  PROVE  Leads(s, t) /\ ~t.is_resolving_name
<1>1. CASE t = [s EXCEPT !.is_connecting = TRUE, !.fd = TRUE, !.watch = Ways]
  BY <1>1 DEF Leads, Streams, OneThing, WatchedFor, Idle
<1>2. CASE t = FdConnected(s)
  BY <1>2, FdConnectedKeeps DEF Leads, Idle, OneThing
<1>3. CASE t = ConnectFailed(s)
  <2>1. /\ Well(t, trapped, 0) /\ Idle(t) /\ t.reconnect_time_ms = s.reconnect_time_ms
        /\ t.name = s.name
        /\ t.reconnect_timer # -1 \/ s.reconnect_time_ms = -1
    BY <1>3, ConnectFailedKeeps
  <2>2. QED BY <2>1 DEF Leads, Well, Idle
<1>4. QED BY <1>1, <1>2, <1>3 DEF Attempts

LEMMA BegunLeads ==
  ASSUME NEW s, s \in Streams, OneThing(s), s.reconnect_timer = -1, trapped \subseteq Ways,
         Idle(s), WatchedFor(s, trapped), NEW t \in Begun(s)
  PROVE  Leads(s, t)
<1>1. CASE s.name = "dns"
  <2>1. t = [s EXCEPT !.is_resolving_name = TRUE]
    BY <1>1 DEF Begun
  <2>2. ~s.is_connecting /\ ~s.is_connected /\ ~s.fd /\ s.watch = {}
    BY DEF Idle, OneThing, WatchedFor
  <2>3. QED BY <2>1, <2>2 DEF Leads, Streams, OneThing, WatchedFor, Idle
<1>2. CASE s.name = "address"
  BY <1>2, AttemptsLead DEF Begun, Idle
<1>3. CASE s.name = "long_path"
  <2>1. t = s
    BY <1>3 DEF Begun
  <2>2. QED BY <1>3, <2>1 DEF Leads, Idle
<1>4. QED BY <1>1, <1>2, <1>3 DEF Streams

(* A callback after which the stream is t, with what led there. *)
LEMMA BecomeKeeps ==
  ASSUME ClientInv, Runs, NEW t, Leads(stream, t), ~stream.is_connected, ~notifying, held, Become(t),
         UNCHANGED <<trapped, shut, held, notifying, up, cancelled>>
  PROVE  ClientInv'
<1>1. /\ stream' = t /\ quiet' \in 0..MaxQuiet
      /\ quiet' = IF t.is_connected THEN 0 ELSE quiet
      /\ fault' = IF t.is_connected /\ stream.idle_disconnect_timer THEN "assert" ELSE fault
  BY TimesAssumption DEF Become, Asserts, ClientInv, TypeOK
<1>2. TypeOK'
  BY <1>1 DEF ClientInv, TypeOK, Leads
<1>3. ASSUME Runs'
      PROVE  /\ OneThing(t) /\ WatchedFor(t, trapped) /\ Timed(t, quiet')
             /\ Idle(t) => Stopped' \/ t.reconnect_timer # -1
  <2>1. t.is_connected => ~stream.idle_disconnect_timer
    BY <1>1, <1>3 DEF Runs
  <2>2. Timed(t, quiet')
    BY <1>1, <2>1 DEF Leads, Timed
  <2>3. QED BY <1>1, <2>2 DEF Leads, Stopped
<1>4. QED BY <1>1, <1>2, <1>3 DEF ClientInv

LEMMA FinalizedKeeps ==
  ASSUME NEW s \in Streams, ~s.is_resolving_name
  PROVE  /\ Finalized(s) \in Streams /\ OneThing(Finalized(s)) /\ Idle(Finalized(s))
         /\ WatchedFor(Finalized(s), {}) /\ Finalized(s).reconnect_timer = -1
BY DEF Finalized, Streams, OneThing, Idle, WatchedFor

LEMMA DnsDoneKeeps == ClientInv /\ HandleDnsDone => ClientInv'
<1> SUFFICES ASSUME ClientInv, HandleDnsDone PROVE ClientInv'
  OBVIOUS
<1> DEFINE s == [stream EXCEPT !.is_resolving_name = FALSE]
<1>1. /\ Runs /\ ~notifying /\ stream.is_resolving_name /\ stream \in Streams
      /\ OneThing(stream) /\ WatchedFor(stream, trapped) /\ trapped \subseteq Ways
      /\ UNCHANGED <<trapped, shut, held, notifying, up, cancelled>>
  BY DEF HandleDnsDone, AtRest, ClientInv, TypeOK
<1>2. /\ s \in Streams /\ OneThing(s) /\ s.reconnect_timer = -1 /\ ~s.is_resolving_name
      /\ ~s.is_connected /\ ~s.is_connecting
      /\ s.reconnect_time_ms = stream.reconnect_time_ms /\ s.name = stream.name
      /\ s.idle_disconnect_timer = stream.idle_disconnect_timer
  BY <1>1 DEF Streams, OneThing
<1>3. PICK t \in IF up THEN Attempts(s) ELSE Attempts(s) \cup {ConnectFailed(s)} :
        IF held THEN Become(t)
        ELSE /\ stream' = Finalized(t)
             /\ fault' = IF Asserts(stream, t) THEN "assert" ELSE FinalizeFault(t)
             /\ UNCHANGED quiet
  BY DEF HandleDnsDone
<1> HIDE DEF s
<1>4. Leads(s, t) /\ ~t.is_resolving_name
  <2>1. CASE t \in Attempts(s)
    BY <1>1, <1>2, <2>1, AttemptsLead
  <2>2. CASE ~up /\ t = ConnectFailed(s)
    <3>1. t \in Attempts(s)
      BY <2>2 DEF Attempts
    <3>2. QED BY <3>1, <2>1
  <2>3. QED BY <1>3, <2>1, <2>2
<1>5. Leads(stream, t)
  BY <1>2, <1>4 DEF Leads
<1>6. CASE held
  BY <1>1, <1>3, <1>5, <1>6, BecomeKeeps DEF OneThing
<1>7. CASE ~held
  <2>1. /\ stream' = Finalized(t) /\ fault' \in {"none", "assert", "stale"} /\ quiet' = quiet
    BY <1>3, <1>7 DEF ClientInv, TypeOK, FinalizeFault
  <2>2. /\ stream' \in Streams /\ OneThing(stream') /\ Idle(stream')
        /\ WatchedFor(stream', {}) /\ stream'.reconnect_timer = -1
    BY <1>4, <1>5, <2>1, FinalizedKeeps DEF Leads
  <2>3. TypeOK'
    BY <1>1, <2>1, <2>2 DEF ClientInv, TypeOK
  <2>4. WatchedFor(stream', trapped') /\ Timed(stream', quiet')
    BY <2>2 DEF WatchedFor, Timed, Idle
  <2>5. QED BY <1>1, <1>7, <2>2, <2>3, <2>4 DEF ClientInv, Idle
<1>8. QED BY <1>6, <1>7 DEF ClientInv, TypeOK

LEMMA ConnectingKeeps == ClientInv /\ HandleFdConnecting => ClientInv'
<1> SUFFICES ASSUME ClientInv, HandleFdConnecting PROVE ClientInv'
  OBVIOUS
<1> DEFINE t == IF up THEN FdConnected(stream) ELSE ConnectFailed(stream)
<1>1. /\ Runs /\ ~notifying /\ stream.is_connecting /\ stream \in Streams
      /\ OneThing(stream) /\ trapped \subseteq Ways /\ held
      /\ UNCHANGED <<trapped, shut, held, notifying, up, cancelled>> /\ Become(t)
  BY DEF HandleFdConnecting, AtRest, ClientInv, TypeOK
<1>2. /\ stream.reconnect_timer = -1 /\ ~stream.is_resolving_name /\ ~stream.is_connected
  BY <1>1 DEF OneThing
<1>3. t \in Attempts(stream)
  BY DEF Attempts
<1> HIDE DEF t
<1>4. Leads(stream, t)
  BY <1>1, <1>2, <1>3, AttemptsLead
<1>5. QED BY <1>1, <1>2, <1>4, BecomeKeeps

LEMMA ReconnectKeeps == ClientInv /\ HandleReconnectTimerExpired => ClientInv'
<1> SUFFICES ASSUME ClientInv, HandleReconnectTimerExpired PROVE ClientInv'
  OBVIOUS
<1> DEFINE s == [stream EXCEPT !.reconnect_timer = -1]
<1>1. /\ Runs /\ ~notifying /\ stream.reconnect_timer = 0 /\ stream \in Streams
      /\ OneThing(stream) /\ WatchedFor(stream, trapped) /\ trapped \subseteq Ways
      /\ UNCHANGED <<trapped, shut, held, notifying, up, cancelled>>
  BY DEF HandleReconnectTimerExpired, AtRest, ClientInv, TypeOK
<1>2. Idle(stream) /\ held
  BY <1>1 DEF OneThing, Idle, ClientInv, TypeOK
<1>3. /\ s \in Streams /\ OneThing(s) /\ s.reconnect_timer = -1 /\ Idle(s)
      /\ WatchedFor(s, trapped) /\ s.reconnect_time_ms = stream.reconnect_time_ms
      /\ s.idle_disconnect_timer = stream.idle_disconnect_timer /\ s.name = stream.name
  BY <1>1, <1>2 DEF Streams, OneThing, Idle, WatchedFor
<1>4. PICK t \in Begun(s) : Become(t)
  BY DEF HandleReconnectTimerExpired
<1> HIDE DEF s
<1>5. Leads(s, t)
  BY <1>1, <1>3, BegunLeads
<1>6. Leads(stream, t)
  BY <1>3, <1>5 DEF Leads
<1>7. QED BY <1>1, <1>2, <1>4, <1>6, BecomeKeeps DEF Idle

(* Disconnecting, by the program or the idle timer. *)
LEMMA DisconnectedKeeps ==
  ASSUME NEW s \in Streams, OneThing(s), s.is_connected
  PROVE  /\ Disconnected(s) \in Streams /\ OneThing(Disconnected(s)) /\ Idle(Disconnected(s))
         /\ Disconnected(s).watch = {}
BY DEF Disconnected, Streams, OneThing, Idle

LEMMA DisconnectKeeps == ClientInv /\ Disconnect => ClientInv'
<1> SUFFICES ASSUME ClientInv, Disconnect PROVE ClientInv'
  OBVIOUS
<1>1. /\ Runs /\ held /\ stream.is_connected /\ stream' = Disconnected(stream) /\ notifying'
      /\ stream \in Streams /\ OneThing(stream) /\ notifying' \in BOOLEAN
      /\ UNCHANGED <<trapped, shut, held, up, quiet, cancelled, fault>>
  BY DEF Disconnect, AtRest, ClientInv, TypeOK
<1>2. /\ stream' \in Streams /\ OneThing(stream') /\ Idle(stream') /\ stream'.watch = {}
  BY <1>1, DisconnectedKeeps
<1>3. WatchedFor(stream', trapped') /\ Timed(stream', quiet')
  BY <1>2 DEF Idle, WatchedFor, Timed
<1>4. QED BY <1>1, <1>2, <1>3 DEF ClientInv, TypeOK, Runs

LEMMA IdleTooLongKeeps == ClientInv /\ HandleIdleTooLong => ClientInv'
<1> SUFFICES ASSUME ClientInv, HandleIdleTooLong PROVE ClientInv'
  OBVIOUS
<1> DEFINE s == [stream EXCEPT !.idle_left = -1]
<1>1. /\ Runs /\ ~notifying /\ stream \in Streams
      /\ OneThing(stream) /\ WatchedFor(stream, trapped) /\ trapped \subseteq Ways
      /\ stream' = IF s.is_connected THEN Disconnected(s) ELSE s
      /\ notifying' = stream.is_connected
      /\ UNCHANGED <<trapped, shut, held, up, quiet, cancelled, fault>>
  BY DEF HandleIdleTooLong, AtRest, ClientInv, TypeOK
<1>2. /\ s \in Streams /\ OneThing(s) /\ WatchedFor(s, trapped)
      /\ s.is_connected = stream.is_connected /\ s.is_connecting = stream.is_connecting
      /\ s.is_resolving_name = stream.is_resolving_name
      /\ s.reconnect_timer = stream.reconnect_timer
      /\ s.reconnect_time_ms = stream.reconnect_time_ms /\ s.name = stream.name
  BY <1>1 DEF Streams, OneThing, WatchedFor
<1>3. notifying' \in BOOLEAN
  BY <1>1 DEF Streams
<1> HIDE DEF s
<1>4. CASE stream.is_connected
  <2>1. /\ stream' \in Streams /\ OneThing(stream') /\ Idle(stream') /\ stream'.watch = {}
    BY <1>1, <1>2, <1>4, DisconnectedKeeps
  <2>2. WatchedFor(stream', trapped') /\ Timed(stream', quiet')
    BY <2>1 DEF Idle, WatchedFor, Timed
  <2>3. held
    BY <1>1, <1>4 DEF ClientInv, TypeOK
  <2>4. QED BY <1>1, <1>3, <1>4, <2>1, <2>2, <2>3 DEF ClientInv, TypeOK, Runs
<1>5. CASE ~stream.is_connected
  <2>1. stream' = s /\ ~notifying'
    BY <1>1, <1>2, <1>5
  <2>2. Timed(s, quiet')
    BY <1>2, <1>5 DEF Timed
  <2>3. (Idle(s) <=> Idle(stream)) /\ (Stopped' <=> Stopped)
    BY <1>1, <1>2, <2>1 DEF Idle, Stopped
  <2>4. QED BY <1>1, <1>2, <1>3, <2>1, <2>2, <2>3 DEF ClientInv, TypeOK, Runs
<1>6. QED BY <1>4, <1>5 DEF ClientInv, TypeOK, Streams

LEMMA DisconnectReturnKeeps == ClientInv /\ DisconnectReturns => ClientInv'
<1> SUFFICES ASSUME ClientInv, DisconnectReturns PROVE ClientInv'
  OBVIOUS
<1>1. /\ Runs /\ notifying /\ ~notifying' /\ notifying' \in BOOLEAN
      /\ stream' = MaybeReconnect(stream) /\ held
      /\ fault' \in {"none", "assert", "stale"}
      /\ Well(stream, trapped, quiet) /\ Idle(stream)
      /\ UNCHANGED <<trapped, shut, held, up, quiet, cancelled>>
  BY DEF DisconnectReturns, ClientInv, TypeOK, Well
<1>2. /\ Well(stream', trapped, quiet) /\ Idle(stream')
      /\ stream'.reconnect_timer # -1 \/ Stopped'
  BY <1>1, MaybeReconnectKeeps DEF Stopped
<1>3. QED BY <1>1, <1>2 DEF ClientInv, TypeOK, Well

(* The program sets a time. *)
LEMMA ReconnectTimeKeeps ==
  ASSUME ClientInv, NEW millis \in TimesOrNone, SetReconnectTime(millis)
  PROVE  ClientInv'
<1>1. /\ Runs /\ held /\ stream \in Streams /\ OneThing(stream) /\ WatchedFor(stream, trapped)
      /\ Timed(stream, quiet) /\ cancelled \in BOOLEAN
      /\ UNCHANGED <<trapped, shut, held, notifying, up, quiet>>
  BY DEF SetReconnectTime, ClientInv, TypeOK
<1>2. millis = -1 \/ (millis \in Nat /\ millis >= 0)
  BY TimesAreSmall
<1>3. CASE UNCHANGED <<stream, cancelled, fault>>
  BY <1>1, <1>3 DEF ClientInv, TypeOK, Runs, Stopped
<1>4. CASE /\ stream.fd \/ stream.is_resolving_name
           /\ stream' = [stream EXCEPT !.reconnect_time_ms = millis]
           /\ UNCHANGED <<cancelled, fault>>
  <2>1. /\ stream' \in Streams /\ OneThing(stream') /\ WatchedFor(stream', trapped)
        /\ Timed(stream', quiet) /\ (Idle(stream') <=> Idle(stream))
        /\ stream'.reconnect_timer = stream.reconnect_timer
        /\ ~Idle(stream)
    BY <1>1, <1>4 DEF Streams, OneThing, WatchedFor, Timed, Idle
  <2>2. QED BY <1>1, <1>4, <2>1 DEF ClientInv, TypeOK, Runs
<1>5. CASE /\ ~stream.fd /\ ~stream.is_resolving_name
           /\ stream' = [stream EXCEPT !.reconnect_timer = -1]
           /\ cancelled' = (cancelled \/ stream.reconnect_timer # -1)
           /\ UNCHANGED fault
  <2>1. /\ stream' \in Streams /\ OneThing(stream') /\ WatchedFor(stream', trapped)
        /\ Timed(stream', quiet) /\ Idle(stream') /\ Idle(stream)
        /\ stream'.reconnect_time_ms = stream.reconnect_time_ms /\ stream'.name = stream.name
    BY <1>1, <1>5 DEF Streams, OneThing, WatchedFor, Timed, Idle
  <2>2. ~notifying => Stopped'
    BY <1>1, <1>5, <2>1 DEF ClientInv, Stopped
  <2>3. cancelled' \in BOOLEAN
    BY <1>1, <1>5
  <2>4. QED BY <1>1, <1>5, <2>1, <2>2, <2>3 DEF ClientInv, TypeOK
<1>6. CASE /\ ~stream.fd /\ ~stream.is_resolving_name /\ millis # -1
           /\ stream' = [stream EXCEPT !.reconnect_timer = millis, !.reconnect_time_ms = millis]
           /\ fault' \in {"none", "assert", "stale"}
           /\ UNCHANGED cancelled
  <2>1. /\ stream' \in Streams /\ OneThing(stream') /\ WatchedFor(stream', trapped)
        /\ Timed(stream', quiet) /\ Idle(stream') /\ Idle(stream) /\ stream'.reconnect_timer # -1
    BY <1>1, <1>2, <1>6 DEF Streams, OneThing, WatchedFor, Timed, Idle
  <2>2. QED BY <1>1, <1>6, <2>1 DEF ClientInv, TypeOK
<1>7. fault \in {"none", "assert", "stale"}
  BY DEF ClientInv, TypeOK
<1>8. QED BY <1>3, <1>4, <1>5, <1>6, <1>7 DEF SetReconnectTime

LEMMA MaxIdleTimeKeeps ==
  ASSUME ClientInv, NEW millis \in TimesOrNone, SetMaxIdleTime(millis)
  PROVE  ClientInv'
<1> DEFINE on == millis >= 0 /\ stream.is_connected
<1>1. /\ Runs /\ held /\ stream \in Streams /\ OneThing(stream) /\ WatchedFor(stream, trapped)
      /\ stream' = [stream EXCEPT !.idle_disconnect_time_ms = millis,
                                  !.idle_disconnect_timer = on, !.idle_left = IF on THEN millis ELSE -1]
      /\ quiet' = 0 /\ fault' \in {"none", "assert", "stale"}
      /\ UNCHANGED <<trapped, shut, held, notifying, up, cancelled>>
  BY DEF SetMaxIdleTime, FinalizeFault, ClientInv, TypeOK
<1>2. millis = -1 \/ (millis \in Nat /\ millis >= 0)
  BY TimesAreSmall
<1>3. on \in BOOLEAN /\ (IF on THEN millis ELSE -1) \in Nat \cup {-1} /\ quiet' \in 0..MaxQuiet
  BY <1>1, <1>2, TimesAssumption DEF Streams
<1>4. /\ stream' \in Streams /\ OneThing(stream') /\ WatchedFor(stream', trapped)
      /\ (Idle(stream') <=> Idle(stream))
      /\ (Stopped' <=> Stopped)
      /\ stream'.reconnect_timer = stream.reconnect_timer
      /\ stream'.is_connected = stream.is_connected /\ stream'.is_connecting = stream.is_connecting
  BY <1>1, <1>3 DEF Streams, OneThing, WatchedFor, Idle, Stopped
<1>5. Timed(stream', quiet')
  <2>1. CASE on
    <3>1. stream' = [stream EXCEPT !.idle_disconnect_time_ms = millis,
                                   !.idle_disconnect_timer = TRUE, !.idle_left = millis]
      BY <1>1, <2>1
    <3>2. /\ stream'.idle_disconnect_timer /\ stream'.idle_disconnect_time_ms = millis
          /\ stream'.idle_left = millis
      BY <1>1, <3>1 DEF Streams
    <3>3. millis \in Nat /\ millis >= 0
      BY <1>2, <2>1
    <3>4. QED BY <1>1, <3>2, <3>3 DEF Timed
  <2>2. CASE ~on
    <3>1. stream' = [stream EXCEPT !.idle_disconnect_time_ms = millis,
                                   !.idle_disconnect_timer = FALSE, !.idle_left = -1]
      BY <1>1, <2>2
    <3>2. ~stream'.idle_disconnect_timer /\ stream'.idle_disconnect_time_ms = millis
      BY <1>1, <3>1 DEF Streams
    <3>3. ~stream'.is_connected \/ ~(millis >= 0)
      BY <1>4, <2>2
    <3>4. QED BY <3>2, <3>3 DEF Timed
  <2>3. QED BY <2>1, <2>2
<1>6. QED BY <1>1, <1>3, <1>4, <1>5 DEF ClientInv, TypeOK

(* Traps, data, the clock and the network. *)
LEMMA TrapsKeep ==
  ASSUME ClientInv, NEW traps \in SUBSET Ways, NEW gone \in SUBSET Ways, traps \cap gone = {}, Runs,
         trapped' = traps, shut' = gone, stream' = Watching(stream, traps),
         UNCHANGED <<held, notifying, up, quiet, cancelled, fault>>
  PROVE  ClientInv'
<1>1. /\ stream \in Streams /\ OneThing(stream) /\ WatchedFor(stream, trapped)
      /\ Timed(stream, quiet)
  BY DEF ClientInv, TypeOK
<1>2. /\ stream' \in Streams /\ OneThing(stream') /\ WatchedFor(stream', traps)
      /\ Timed(stream', quiet) /\ (Idle(stream') <=> Idle(stream))
      /\ (Stopped' <=> Stopped)
      /\ stream'.reconnect_timer = stream.reconnect_timer
      /\ stream'.is_connected = stream.is_connected /\ stream'.is_connecting = stream.is_connecting
  BY <1>1 DEF Watching, Streams, OneThing, WatchedFor, Timed, Idle, Stopped
<1>3. TypeOK'
  BY <1>2 DEF ClientInv, TypeOK
<1>4. QED BY <1>2, <1>3 DEF ClientInv, Runs

LEMMA TransferKeeps == ClientInv /\ Transfer => ClientInv'
<1> SUFFICES ASSUME ClientInv, Transfer PROVE ClientInv'
  OBVIOUS
<1>1. /\ Runs /\ stream \in Streams /\ OneThing(stream) /\ WatchedFor(stream, trapped)
      /\ Timed(stream, quiet) /\ stream' = Pinged(stream) /\ quiet' = 0 /\ stream.is_connected
      /\ UNCHANGED <<trapped, shut, held, notifying, up, cancelled, fault>>
  BY DEF Transfer, AtRest, ClientInv, TypeOK
<1>2. /\ stream.idle_disconnect_time_ms = -1
         \/ (stream.idle_disconnect_time_ms \in Nat /\ stream.idle_disconnect_time_ms >= 0)
      /\ quiet' \in 0..MaxQuiet
  BY <1>1, TimesAreSmall, TimesAssumption DEF Streams
<1>3. CASE stream.idle_disconnect_time_ms >= 0
  <2>1. stream' = [stream EXCEPT !.idle_left = stream.idle_disconnect_time_ms]
    BY <1>1, <1>3 DEF Pinged
  <2>2. /\ stream' \in Streams /\ OneThing(stream') /\ WatchedFor(stream', trapped)
        /\ ~Idle(stream') /\ stream'.is_connected
    BY <1>1, <1>2, <1>3, <2>1 DEF Streams, OneThing, WatchedFor, Idle
  <2>3. Timed(stream', quiet')
    BY <1>1, <1>2, <1>3, <2>1 DEF Timed, Streams
  <2>4. QED BY <1>1, <1>2, <2>2, <2>3 DEF ClientInv, TypeOK, Runs, Idle
<1>4. CASE ~(stream.idle_disconnect_time_ms >= 0)
  <2>1. stream' = stream
    BY <1>1, <1>4 DEF Pinged
  <2>2. Timed(stream', quiet')
    BY <1>1, <1>4, <2>1 DEF Timed
  <2>3. QED BY <1>1, <1>2, <2>1, <2>2 DEF ClientInv, TypeOK, Runs, Idle, Stopped
<1>5. QED BY <1>3, <1>4

LEMMA DropKeeps == ClientInv /\ Drop => ClientInv'
<1> SUFFICES ASSUME ClientInv, Drop PROVE ClientInv'
  OBVIOUS
<1>1. /\ Runs /\ ~notifying /\ stream \in Streams /\ OneThing(stream) /\ WatchedFor(stream, trapped)
      /\ held' = FALSE /\ trapped' = {}
      /\ UNCHANGED <<shut, notifying, up, quiet, cancelled>>
  BY DEF Drop, AtRest, ClientInv, TypeOK
<1>2. CASE stream.is_resolving_name
  <2>1. UNCHANGED <<stream, fault>>
    BY <1>2 DEF Drop
  <2>2. ~stream.is_connecting /\ ~stream.is_connected /\ stream.reconnect_timer = -1
    BY <1>1, <1>2 DEF OneThing
  <2>3. WatchedFor(stream', trapped')
    BY <1>1, <2>1, <2>2 DEF WatchedFor
  <2>4. QED BY <1>1, <2>1, <2>2, <2>3 DEF ClientInv, TypeOK, Runs
<1>3. CASE ~stream.is_resolving_name
  <2>1. stream' = Finalized(stream) /\ fault' \in {"none", "assert", "stale"}
    BY <1>3 DEF Drop, FinalizeFault, ClientInv, TypeOK
  <2>2. /\ stream' \in Streams /\ OneThing(stream') /\ Idle(stream')
        /\ WatchedFor(stream', {}) /\ stream'.reconnect_timer = -1
    BY <1>1, <1>3, <2>1, FinalizedKeeps
  <2>3. Timed(stream', quiet')
    BY <2>2 DEF Timed, Idle
  <2>4. QED BY <1>1, <2>1, <2>2, <2>3 DEF ClientInv, TypeOK, Idle
<1>4. QED BY <1>2, <1>3

LEMMA TickKeeps == ClientInv /\ Tick => ClientInv'
<1> SUFFICES ASSUME ClientInv, Tick PROVE ClientInv'
  OBVIOUS
<1> DEFINE left == stream.idle_left
           wait == stream.reconnect_timer
           newleft == IF left > 0 THEN left - 1 ELSE left
           newwait == IF wait > 0 THEN wait - 1 ELSE wait
<1>1. /\ Runs /\ stream \in Streams /\ OneThing(stream) /\ WatchedFor(stream, trapped)
      /\ Timed(stream, quiet) /\ (left > 0 \/ wait > 0)
      /\ stream' = [stream EXCEPT !.idle_left = newleft, !.reconnect_timer = newwait]
      /\ quiet' = IF quiet < MaxQuiet THEN quiet + 1 ELSE quiet
      /\ UNCHANGED <<trapped, shut, held, notifying, up, cancelled, fault>>
  BY DEF Tick, AtRest, ClientInv, TypeOK
<1>2. /\ left \in Nat \cup {-1} /\ wait \in Nat \cup {-1} /\ quiet \in 0..MaxQuiet /\ MaxQuiet \in Nat
  BY <1>1, TimesAssumption DEF Streams, ClientInv, TypeOK
<1>3. /\ newleft \in Nat \cup {-1} /\ newwait \in Nat \cup {-1} /\ quiet' \in 0..MaxQuiet
      /\ newwait = -1 <=> wait = -1
      /\ quiet' = quiet + 1 \/ (quiet' = quiet /\ quiet = MaxQuiet)
  BY <1>1, <1>2
<1>4. /\ stream' \in Streams /\ OneThing(stream') /\ WatchedFor(stream', trapped)
      /\ (Idle(stream') <=> Idle(stream))
      /\ (Stopped' <=> Stopped)
      /\ stream'.reconnect_timer = newwait /\ stream'.idle_left = newleft
      /\ stream'.is_connected = stream.is_connected /\ stream'.is_connecting = stream.is_connecting
      /\ stream'.idle_disconnect_timer = stream.idle_disconnect_timer
      /\ stream'.idle_disconnect_time_ms = stream.idle_disconnect_time_ms
  <2> HIDE DEF newleft, newwait
  <2>1. QED BY <1>1, <1>3 DEF Streams, OneThing, WatchedFor, Idle, Stopped
<1>5. ASSUME stream.is_connected, stream.idle_disconnect_timer
      PROVE  newleft + quiet' >= stream.idle_disconnect_time_ms /\ newleft >= 0
  <2>1. wait = -1 /\ left > 0
    BY <1>1, <1>5 DEF OneThing
  <2>2. /\ left + quiet >= stream.idle_disconnect_time_ms
        /\ stream.idle_disconnect_time_ms \in Int /\ stream.idle_disconnect_time_ms <= MaxQuiet
    <3>1. stream.idle_disconnect_time_ms \in TimesOrNone
      BY <1>1 DEF Streams
    <3>2. /\ stream.idle_disconnect_time_ms \in Int /\ stream.idle_disconnect_time_ms <= MaxQuiet
      BY <1>2, <3>1, TimesAreSmall
    <3>3. left + quiet >= stream.idle_disconnect_time_ms
      BY <1>1, <1>5 DEF Timed
    <3>4. QED BY <3>2, <3>3
  <2>3. newleft = left - 1 /\ left \in Nat
    BY <1>2, <2>1
  <2>4. CASE quiet' = quiet + 1
    BY <1>2, <2>1, <2>2, <2>3, <2>4
  <2>5. CASE quiet' = quiet /\ quiet = MaxQuiet
    BY <1>2, <2>1, <2>2, <2>3, <2>5
  <2>6. QED BY <1>3, <2>4, <2>5
<1> HIDE DEF newleft, newwait, left, wait
<1>6. Timed(stream', quiet')
  <2>1. CASE stream.is_connected /\ stream.idle_disconnect_timer
    <3>1. newleft + quiet' >= stream.idle_disconnect_time_ms /\ newleft >= 0
      BY <1>5, <2>1
    <3>2. stream.idle_disconnect_time_ms >= 0
      BY <1>1, <2>1 DEF Timed
    <3>3. QED BY <1>4, <2>1, <3>1, <3>2 DEF Timed
  <2>2. CASE stream.is_connected /\ ~stream.idle_disconnect_timer
    <3>1. ~(stream.idle_disconnect_time_ms >= 0)
      BY <1>1, <2>2 DEF Timed
    <3>2. QED BY <1>4, <2>2, <3>1 DEF Timed
  <2>3. CASE ~stream.is_connected
    BY <1>4, <2>3 DEF Timed
  <2>4. QED BY <2>1, <2>2, <2>3
<1>7. wait = stream.reconnect_timer
  BY DEF wait
<1>8. QED BY <1>1, <1>3, <1>4, <1>6, <1>7 DEF ClientInv, TypeOK, Runs

LEMMA InitKeeps == Init => ClientInv
<1> SUFFICES ASSUME Init PROVE ClientInv
  OBVIOUS
<1>1. /\ up \in BOOLEAN /\ trapped = {} /\ shut = {} /\ held = TRUE /\ notifying = FALSE
      /\ quiet = 0 /\ cancelled = FALSE /\ fault = "none" /\ quiet \in 0..MaxQuiet
  BY TimesAssumption DEF Init
<1>2. PICK reconnect \in TimesOrNone, idle \in TimesOrNone, name \in {"dns", "address", "long_path"} :
        stream \in Begun(
          [is_resolving_name |-> FALSE, is_connecting |-> FALSE, is_connected |-> FALSE,
           fd |-> FALSE, watch |-> {}, name |-> name,
           reconnect_time_ms |-> reconnect, reconnect_timer |-> -1,
           idle_disconnect_time_ms |-> idle, idle_disconnect_timer |-> FALSE, idle_left |-> -1])
  BY DEF Init
<1> DEFINE s == [is_resolving_name |-> FALSE, is_connecting |-> FALSE, is_connected |-> FALSE,
                 fd |-> FALSE, watch |-> {}, name |-> name,
                 reconnect_time_ms |-> reconnect, reconnect_timer |-> -1,
                 idle_disconnect_time_ms |-> idle, idle_disconnect_timer |-> FALSE, idle_left |-> -1]
<1>3. /\ s \in Streams /\ OneThing(s) /\ WatchedFor(s, trapped) /\ Idle(s)
      /\ s.reconnect_timer = -1 /\ ~s.idle_disconnect_timer
  BY <1>1 DEF Streams, OneThing, WatchedFor, Idle
<1>4. stream \in Begun(s)
  BY <1>2
<1> HIDE DEF s
<1>5. Leads(s, stream)
  BY <1>1, <1>3, <1>4, BegunLeads
<1>6. Timed(stream, quiet)
  BY <1>1, <1>3, <1>5 DEF Leads, Timed
<1>7. QED BY <1>1, <1>3, <1>5, <1>6 DEF ClientInv, TypeOK, Leads, Stopped

LEMMA NextKeeps == ClientInv /\ [Next]_vars => ClientInv'
<1> SUFFICES ASSUME ClientInv, [Next]_vars PROVE ClientInv'
  OBVIOUS
<1>1. CASE Callback
  BY <1>1, DnsDoneKeeps, ConnectingKeeps, ReconnectKeeps, IdleTooLongKeeps DEF Callback
<1>2. CASE DisconnectReturns
  BY <1>2, DisconnectReturnKeeps
<1>3. CASE Tick
  BY <1>3, TickKeeps
<1>4. CASE NetworkChanges
  BY <1>4 DEF NetworkChanges, ClientInv, TypeOK, Runs, Stopped
<1>5. CASE Disconnect
  BY <1>5, DisconnectKeeps
<1>6. CASE Transfer
  BY <1>6, TransferKeeps
<1>7. CASE Drop
  BY <1>7, DropKeeps
<1>8. CASE \E t \in TimesOrNone : SetReconnectTime(t) \/ SetMaxIdleTime(t)
  BY <1>8, ReconnectTimeKeeps, MaxIdleTimeKeeps
<1>9. ASSUME NEW traps \in SUBSET Ways, SetPoll(traps) PROVE ClientInv'
  <2>1. shut \in SUBSET Ways
    BY DEF ClientInv, TypeOK
  <2>2. QED BY <1>9, <2>1, TrapsKeep DEF SetPoll
<1>10. ASSUME NEW way \in Ways, ShutDown(way) PROVE ClientInv'
  <2>1. trapped \in SUBSET Ways /\ shut \in SUBSET Ways /\ trapped \cap shut = {}
    BY DEF ClientInv, TypeOK
  <2>2. /\ trapped \ {way} \in SUBSET Ways /\ shut \cup {way} \in SUBSET Ways
        /\ (trapped \ {way}) \cap (shut \cup {way}) = {}
    BY <2>1
  <2>3. QED BY <1>10, <2>2, TrapsKeep DEF ShutDown, AtRest
<1>11. CASE UNCHANGED vars
  BY <1>11 DEF vars, ClientInv, TypeOK, Runs, Stopped
<1>12. QED BY <1>1, <1>2, <1>3, <1>4, <1>5, <1>6, <1>7, <1>8, <1>9, <1>10, <1>11 DEF Next

LEMMA InvariantHolds == Spec => []ClientInv
BY InitKeeps, NextKeeps, PTL DEF Spec

(* At rest a stream does one thing, and nothing only if no reconnection is *)
(* wanted, its path is too long for a local socket, or the program took *)
(* away the timer it waited for (after which the code cannot set another); *)
(* it is watched for what is trapped, whatever callbacks and calls of the *)
(* program come in whatever order: OnePhase for any set of times, as long *)
(* as no assertion has failed and no memory was used that is not there. *)
THEOREM AlwaysOnePhase == Spec => []OnePhase
<1>1. ASSUME ClientInv PROVE OnePhase
  <2>1. ASSUME AtRest, held
        PROVE  /\ \A p, q \in Phases : p = q
               /\ Phases = {} => Stopped
               /\ stream.fd <=> Phases \cap {"connecting", "connected"} # {}
    <3>1. /\ OneThing(stream) /\ stream.reconnect_timer \in Nat \cup {-1}
          /\ Idle(stream) => Stopped \/ stream.reconnect_timer # -1
      BY <1>1, <2>1 DEF ClientInv, TypeOK, Streams, AtRest
    <3>2. Waiting <=> stream.reconnect_timer # -1
      BY <3>1 DEF Waiting
    <3>3. QED BY <3>1, <3>2 DEF OneThing, Idle, Phases
  <2>2. QED BY <1>1, <2>1 DEF OnePhase, ClientInv, WatchedFor
<1>2. QED BY <1>1, InvariantHolds, PTL

(* A connection to be closed when idle has its timer, and not too short a *)
(* one: IdleTimerKept for any times. *)
THEOREM IdleTimerAlwaysKept == Spec => []IdleTimerKept
<1>1. ASSUME ClientInv PROVE IdleTimerKept
  <2>1. AtRest => Timed(stream, quiet)
    BY <1>1 DEF ClientInv, AtRest
  <2>2. QED BY <2>1 DEF IdleTimerKept, Timed
<1>2. QED BY <1>1, InvariantHolds, PTL
=============================================================================
