--------------------------- MODULE DskStreamProofs ---------------------------
(***************************************************************************)
(* Octets pass from a producer through a pipe, a filter source, a           *)
(* connection and a second pipe to a consumer, and none is lost, doubled or *)
(* put out of order, for any sizes of the buffers, any octets the filter    *)
(* holds back, and any order of hooks, failures and shutdowns. What is in   *)
(* each buffer, put together from the consumer's side, is what was written. *)
(* For that to be inductive it has to be known that                         *)
(*  - a connection holds each end exactly as long as it has a trap on it,   *)
(*    lets go of its source first, and reads only below MaxBuffer octets;   *)
(*  - the filter source's own buffer is empty between two calls, and what   *)
(*    its filter holds back goes with the filter;                           *)
(*  - after a failure nothing comes through the filter any more, and as     *)
(*    long as the connection can write, what it has is next: a part in the  *)
(*    middle is never missing.                                              *)
(***************************************************************************)
EXTENDS DskStream, SequenceTheorems, TLAPS

(* What the variables hold. *)
Octet == Seq(Nat)
Pipes == [buffer: Octet, done_adding: BOOLEAN, got_shutdown: BOOLEAN,
          connected: BOOLEAN, buffer_low_trap: BOOLEAN, readable: BOOLEAN,
          buffer_low: BOOLEAN, writable: BOOLEAN]
Filters == [buffer: Octet, held: Octet, filter: BOOLEAN, sub: BOOLEAN,
            read_trap: BOOLEAN, readable: BOOLEAN]
Traps == {NoTrap, 0, 1}
Refs == 0..2
Connections == [buffer: Octet, source: BOOLEAN, sink: BOOLEAN, read_trap: Traps,
                write_trap: Traps, refs: Refs, crashed: BOOLEAN]

LEMMA TrapsAndRefs == NoTrap \in Traps /\ 0 \in Traps /\ 1 \in Traps /\ 0 \in Refs /\ 1 \in Refs /\ 2 \in Refs
BY DEF Traps, Refs

-----------------------------------------------------------------------------
(* Sequences: cutting and joining them, and prefixes. Octets are numbered, *)
(* so that a sequence says which octets it has and in which order. *)

LEMMA MinOfTwo ==
  ASSUME NEW a \in Int, NEW b \in Int
  PROVE  Min({a, b}) = IF a <= b THEN a ELSE b
<1> DEFINE m == IF a <= b THEN a ELSE b
<1>1. m \in {a, b} /\ \A y \in {a, b} : m =< y
  OBVIOUS
<1>2. \A x \in {a, b} : (\A y \in {a, b} : x =< y) => x = m
  OBVIOUS
<1>3. QED BY <1>1, <1>2 DEF Min

LEMMA Cut ==
  ASSUME NEW s \in Octet, NEW n \in 0..Len(s)
  PROVE  /\ SubSeq(s, 1, n) \in Octet /\ Len(SubSeq(s, 1, n)) = n
         /\ SubSeq(s, n + 1, Len(s)) \in Octet /\ Len(SubSeq(s, n + 1, Len(s))) = Len(s) - n
         /\ SubSeq(s, 1, n) \o SubSeq(s, n + 1, Len(s)) = s
<1>1. Len(s) \in Nat
  BY LenProperties DEF Octet
<1>2. \A i \in 1..Len(s) : s[i] \in Nat
  BY ElementOfSeq DEF Octet
<1>3. /\ SubSeq(s, 1, n) \in Seq(Nat) /\ Len(SubSeq(s, 1, n)) = n
  <2>1. \A i \in 1..n : s[i] \in Nat
    BY <1>1, <1>2
  <2>2. n \in Int /\ 1 \in Int
    BY <1>1
  <2>3. QED BY <1>1, <2>1, <2>2, SubSeqProperties
<1>4. /\ SubSeq(s, n + 1, Len(s)) \in Seq(Nat) /\ Len(SubSeq(s, n + 1, Len(s))) = Len(s) - n
  <2>1. \A i \in (n + 1)..Len(s) : s[i] \in Nat
    BY <1>1, <1>2
  <2>2. n + 1 \in Int /\ Len(s) \in Int
    BY <1>1
  <2>3. QED BY <1>1, <2>1, <2>2, SubSeqProperties
<1>5. SubSeq(s, 1, n) \o SubSeq(s, n + 1, Len(s)) = s
  <2>1. 1 \in 1..(Len(s) + 1) /\ n \in (1 - 1)..Len(s) /\ Len(s) \in n..Len(s)
    BY <1>1
  <2>2. SubSeq(s, 1, n) \o SubSeq(s, n + 1, Len(s)) = SubSeq(s, 1, Len(s))
    BY <2>1, ConcatAdjacentSubSeq DEF Octet
  <2>3. QED BY <2>2, SubSeqFull DEF Octet
<1>6. QED BY <1>3, <1>4, <1>5 DEF Octet

LEMMA Joined ==
  ASSUME NEW a \in Octet, NEW b \in Octet
  PROVE  a \o b \in Octet /\ Len(a \o b) = Len(a) + Len(b) /\ Len(a) \in Nat /\ Len(b) \in Nat
BY ConcatProperties, LenProperties DEF Octet

LEMMA Nothing ==
  ASSUME NEW a \in Octet
  PROVE  /\ a \o <<>> = a /\ <<>> \o a = a /\ <<>> \in Octet
         /\ Len(<<>>) = 0 /\ Len(a) \in Nat /\ (a = <<>> <=> Len(a) = 0)
BY ConcatEmptySeq, EmptySeq, LenProperties DEF Octet

LEMMA Regrouped ==
  ASSUME NEW a \in Octet, NEW b \in Octet, NEW c \in Octet
  PROVE  (a \o b) \o c = a \o (b \o c)
BY SMTT(30), ConcatAssociative DEF Octet

LEMMA PrefixByElement ==
  ASSUME NEW a \in Octet, NEW s \in Octet
  PROVE  IsPrefix(a, s) <=> Len(a) <= Len(s) /\ \A i \in 1..Len(a) : a[i] = s[i]
<1>1. Len(a) \in Nat /\ Len(s) \in Nat
  BY LenProperties DEF Octet
<1>2. SubSeq(a, 1, Len(a)) = a
  BY SubSeqFull DEF Octet
<1>3. CASE Len(a) <= Len(s)
  <2>1. /\ SubSeq(s, 1, Len(a)) \in Seq(Nat) /\ Len(SubSeq(s, 1, Len(a))) = Len(a)
    BY <1>1, <1>3, Cut DEF Octet
  <2>2. \A i \in 1..Len(a) : SubSeq(s, 1, Len(a))[i] = s[i]
    <3>1. \A i \in 1..Len(a) : s[i] \in Nat
      BY <1>1, <1>3, ElementOfSeq DEF Octet
    <3>2. 1 \in Int /\ Len(a) \in Int
      BY <1>1
    <3>3. /\ SubSeq(s, 1, Len(a)) \in Seq(Nat)
          /\ Len(SubSeq(s, 1, Len(a))) = IF 1 <= Len(a) THEN Len(a) - 1 + 1 ELSE 0
          /\ \A i \in 1..(Len(a) - 1 + 1) : SubSeq(s, 1, Len(a))[i] = s[1 + i - 1]
      BY <3>1, <3>2, SubSeqProperties
    <3>4. QED BY <1>1, <3>3
  <2>3. a = SubSeq(s, 1, Len(a)) <=> \A i \in 1..Len(a) : a[i] = SubSeq(s, 1, Len(a))[i]
    BY <2>1, SeqEqual DEF Octet
  <2>4. QED BY <1>2, <1>3, <2>2, <2>3 DEF IsPrefix
<1>4. CASE ~(Len(a) <= Len(s))
  BY <1>4 DEF IsPrefix
<1>5. QED BY <1>3, <1>4

LEMMA ItsOwnPrefix ==
  ASSUME NEW s \in Octet
  PROVE  IsPrefix(s, s)
<1>1. Len(s) \in Nat
  BY LenProperties DEF Octet
<1>2. QED BY <1>1, PrefixByElement

LEMMA PrefixOfPrefix ==
  ASSUME NEW a \in Octet, NEW b \in Octet, NEW s \in Octet, IsPrefix(a \o b, s)
  PROVE  IsPrefix(a, s)
<1>1. Len(a) \in Nat /\ Len(b) \in Nat /\ Len(s) \in Nat
  BY LenProperties DEF Octet
<1>2. a \o b \in Octet /\ Len(a \o b) = Len(a) + Len(b)
  BY Joined
<1>3. \A i \in 1..Len(a) : (a \o b)[i] = a[i]
  BY <1>1, ConcatProperties DEF Octet
<1>4. Len(a \o b) <= Len(s) /\ \A i \in 1..Len(a \o b) : (a \o b)[i] = s[i]
  BY <1>2, PrefixByElement
<1>5. Len(a) <= Len(s) /\ \A i \in 1..Len(a) : a[i] = s[i]
  BY <1>1, <1>2, <1>3, <1>4
<1>6. QED BY <1>5, PrefixByElement

LEMMA PrefixOfLonger ==
  ASSUME NEW a \in Octet, NEW s \in Octet, NEW t \in Octet, IsPrefix(a, s)
  PROVE  IsPrefix(a, s \o t)
<1>1. Len(a) \in Nat /\ Len(s) \in Nat /\ Len(t) \in Nat
  BY LenProperties DEF Octet
<1>2. s \o t \in Octet /\ Len(s \o t) = Len(s) + Len(t)
  BY Joined
<1>3. \A i \in 1..Len(s) : (s \o t)[i] = s[i]
  BY <1>1, ConcatProperties DEF Octet
<1>4. Len(a) <= Len(s) /\ \A i \in 1..Len(a) : a[i] = s[i]
  BY PrefixByElement
<1>5. Len(a) <= Len(s \o t) /\ \A i \in 1..Len(a) : a[i] = (s \o t)[i]
  BY <1>1, <1>2, <1>3, <1>4
<1>6. QED BY <1>2, <1>5, PrefixByElement

-----------------------------------------------------------------------------
(* Pipes. *)

LEMMA Sizes ==
  /\ PipeSize[1] \in Nat \ {0} /\ PipeSize[2] \in Nat \ {0}
  /\ MaxBuffer \in Nat \ {0} /\ Keep \in Nat /\ MaxWritten \in Nat
BY SizesAssumption DEF PipeSize

LEMMA WithDataKeeps ==
  ASSUME NEW p \in Pipes, NEW i \in 1..2, NEW data \in Octet,
         Len(p.buffer) + Len(data) <= PipeSize[i]
  PROVE  /\ WithData(p, i, data) \in Pipes
         /\ Len(WithData(p, i, data).buffer) <= PipeSize[i]
         /\ WithData(p, i, data).buffer = p.buffer \o data
         /\ WithData(p, i, data).connected = p.connected
<1>1. p.buffer \in Octet
  BY DEF Pipes
<1>2. p.buffer \o data \in Octet /\ Len(p.buffer \o data) = Len(p.buffer) + Len(data)
  BY <1>1, Joined
<1>3. /\ WithData(p, i, data) \in Pipes
      /\ WithData(p, i, data).buffer = p.buffer \o data
      /\ WithData(p, i, data).connected = p.connected
  BY <1>2 DEF WithData, Pipes
<1>4. QED BY <1>2, <1>3

(* A write takes the first octets, as many as there is room for; w: what it *)
(* returns. *)
WriteGives(p, i, data, w) ==
  /\ w.pipe \in Pipes /\ Len(w.pipe.buffer) <= PipeSize[i]
  /\ w.n \in 0..Len(data)
  /\ w.pipe.buffer = p.buffer \o SubSeq(data, 1, w.n)
  /\ w.pipe.connected = p.connected
  /\ ~p.connected => w.rv = "error"
  /\ w.rv = "error" => w.n = 0 /\ w.pipe = p

LEMMA WriteKeeps ==
  ASSUME NEW p \in Pipes, NEW i \in 1..2, NEW data \in Octet, NEW looks \in BOOLEAN,
         Len(p.buffer) <= PipeSize[i]
  PROVE  /\ WriteGives(p, i, data, PipeWrite(p, i, data, looks))
         /\ PipeWrite(p, i, data, looks).rv = "error" /\ p.connected => looks
<1> DEFINE room == PipeSize[i] - Len(p.buffer)
           n == Min({room, Len(data)})
           error == ~p.connected \/ (looks /\ p.got_shutdown)
           d == SubSeq(data, 1, n)
           w == PipeWrite(p, i, data, looks)
<1>1. p.buffer \in Octet /\ Len(p.buffer) \in Nat /\ Len(data) \in Nat /\ room \in Nat
      /\ PipeSize[i] \in Nat
  BY Sizes, LenProperties DEF Pipes, Octet
<1>2. n = IF room <= Len(data) THEN room ELSE Len(data)
  BY <1>1, MinOfTwo
<1>3. n \in 0..Len(data) /\ Len(p.buffer) + n <= PipeSize[i]
  BY <1>1, <1>2
<1>4. SubSeq(data, 1, 0) = <<>> /\ p.buffer \o <<>> = p.buffer
  BY <1>1, Nothing, SubSeqEmpty
<1>5. CASE error
  <2>1. w = [rv |-> "error", n |-> 0, pipe |-> p]
    BY <1>5 DEF PipeWrite
  <2>2. p.connected => looks
    BY <1>5
  <2> HIDE DEF w, WriteGives
  <2>3. w.rv = "error" /\ w.n = 0 /\ w.pipe = p
    BY <2>1
  <2>4. w.n \in 0..Len(data) /\ w.pipe.buffer = p.buffer \o SubSeq(data, 1, w.n)
    <3>1. w.n \in 0..Len(data)
      BY <1>1, <2>3
    <3>2. p.buffer = p.buffer \o SubSeq(data, 1, 0)
      BY <1>4
    <3>3. QED BY <2>3, <3>1, <3>2
  <2>5. w.pipe \in Pipes /\ Len(w.pipe.buffer) <= PipeSize[i] /\ w.pipe.connected = p.connected
    BY <2>3
  <2>6. QED BY <2>2, <2>3, <2>4, <2>5 DEF w, WriteGives
<1>6. CASE ~error /\ (data = <<>> \/ room = 0)
  <2>1. \/ w = [rv |-> "success", n |-> 0, pipe |-> p]
        \/ w = [rv |-> "again", n |-> 0, pipe |-> p]
    BY <1>6 DEF PipeWrite
  <2>2. p.connected
    BY <1>6
  <2> HIDE DEF w, WriteGives
  <2>3. w.rv # "error" /\ w.n = 0 /\ w.pipe = p
    BY <2>1
  <2>4. w.n \in 0..Len(data) /\ w.pipe.buffer = p.buffer \o SubSeq(data, 1, w.n)
    <3>1. w.n \in 0..Len(data)
      BY <1>1, <2>3
    <3>2. p.buffer = p.buffer \o SubSeq(data, 1, 0)
      BY <1>4
    <3>3. QED BY <2>3, <3>1, <3>2
  <2>5. w.pipe \in Pipes /\ Len(w.pipe.buffer) <= PipeSize[i] /\ w.pipe.connected = p.connected
    BY <2>3
  <2>6. QED BY <2>2, <2>3, <2>4, <2>5 DEF w, WriteGives
<1>7. CASE ~error /\ data # <<>> /\ room # 0
  <2>1. w = [rv |-> "success", n |-> n, pipe |-> WithData(p, i, d)]
    BY <1>7 DEF PipeWrite
  <2>2. p.connected
    BY <1>7
  <2> HIDE DEF n, w
  <2>3. d \in Octet /\ Len(d) = n
    BY <1>3, Cut
  <2> HIDE DEF d
  <2>4. /\ WithData(p, i, d) \in Pipes
        /\ Len(WithData(p, i, d).buffer) <= PipeSize[i]
        /\ WithData(p, i, d).buffer = p.buffer \o d
        /\ WithData(p, i, d).connected = p.connected
    BY <1>3, <2>3, WithDataKeeps
  <2>5. w.rv # "error" /\ w.n = n /\ w.pipe = WithData(p, i, d) /\ d = SubSeq(data, 1, w.n)
    BY <2>1 DEF d
  <2>6. QED BY <1>3, <2>2, <2>4, <2>5 DEF w, WriteGives
<1>8. QED BY <1>5, <1>6, <1>7

LEMMA ReadKeeps ==
  ASSUME NEW p \in Pipes, NEW n \in Nat
  PROVE  LET r == PipeRead(p, n) IN
         /\ r.pipe \in Pipes /\ r.data \in Octet /\ Len(r.pipe.buffer) <= Len(p.buffer)
         /\ r.data \o r.pipe.buffer = p.buffer
         /\ r.pipe.connected = p.connected
<1> DEFINE len == Min({n, Len(p.buffer)})
           r == PipeRead(p, n)
           rest == SubSeq(p.buffer, len + 1, Len(p.buffer))
<1>1. p.buffer \in Octet /\ Len(p.buffer) \in Nat
  BY LenProperties DEF Pipes, Octet
<1>2. len \in 0..Len(p.buffer)
  BY <1>1, MinOfTwo
<1> HIDE DEF len
<1>3. rest \in Octet /\ Len(rest) = Len(p.buffer) - len
      /\ SubSeq(p.buffer, 1, len) \in Octet /\ SubSeq(p.buffer, 1, len) \o rest = p.buffer
  BY <1>1, <1>2, Cut
<1>4. r.data = SubSeq(p.buffer, 1, len)
  BY DEF PipeRead, len
<1>5. r.pipe = IF p.done_adding THEN [p EXCEPT !.buffer = rest]
               ELSE [p EXCEPT !.buffer = rest, !.buffer_low = TRUE, !.readable = @ /\ rest # <<>>]
  BY DEF PipeRead, len
<1> HIDE DEF rest, r
<1>6. r.pipe \in Pipes /\ r.pipe.buffer = rest /\ r.pipe.connected = p.connected
  BY <1>3, <1>5 DEF Pipes
<1>7. Len(rest) <= Len(p.buffer)
  BY <1>1, <1>2, <1>3
<1>8. QED BY <1>3, <1>4, <1>6, <1>7 DEF r

LEMMA ReadBufferKeeps ==
  ASSUME NEW p \in Pipes
  PROVE  LET r == PipeReadBuffer(p) IN
         /\ r.pipe \in Pipes /\ r.data = p.buffer /\ r.pipe.buffer = <<>>
         /\ r.pipe.connected = p.connected
         /\ r.rv \in {"eof", "again", "success"}
         /\ r.rv # "success" => p.buffer = <<>>
BY Nothing DEF PipeReadBuffer, Pipes

LEMMA ShutdownKeeps ==
  ASSUME NEW p \in Pipes
  PROVE  /\ SinkShutdown(p) \in Pipes /\ ~SinkShutdown(p).connected
         /\ SinkShutdown(p).buffer = p.buffer
BY DEF SinkShutdown, Pipes

LEMMA FinalizeKeeps ==
  ASSUME NEW p \in Pipes
  PROVE  /\ SourceFinalize(p) \in Pipes /\ ~SourceFinalize(p).connected
         /\ SourceFinalize(p).buffer = <<>>
BY EmptySeq DEF SourceFinalize, Pipes, Octet

-----------------------------------------------------------------------------
(* The filter source. *)

(* What it is like when nobody reads from it. *)
FilterRests(f, p) ==
  /\ f.buffer = <<>> /\ Len(f.held) <= Keep
  /\ ~f.sub => ~f.filter /\ ~p.connected /\ p.buffer = <<>>
  /\ ~f.filter => ~f.sub /\ f.held = <<>>

(* The filter passes some of what it gets and holds back the rest. *)
LEMMA PassedAndHeld ==
  ASSUME NEW all \in Octet
  PROVE  /\ Passed(all) \in Octet /\ Held(all) \in Octet
         /\ Passed(all) \o Held(all) = all
         /\ Len(Passed(all)) <= Len(all) /\ Len(Held(all)) <= Keep
<1> DEFINE n == Len(all) - Min({Keep, Len(all)})
<1>1. Len(all) \in Nat /\ Keep \in Nat
  BY LenProperties, Sizes DEF Octet
<1>2. n \in 0..Len(all) /\ Len(all) - n <= Keep
  BY <1>1, MinOfTwo
<1> HIDE DEF n
<1>3. /\ SubSeq(all, 1, n) \in Octet /\ Len(SubSeq(all, 1, n)) = n
      /\ SubSeq(all, n + 1, Len(all)) \in Octet /\ Len(SubSeq(all, n + 1, Len(all))) = Len(all) - n
      /\ SubSeq(all, 1, n) \o SubSeq(all, n + 1, Len(all)) = all
  BY <1>2, Cut
<1>4. Passed(all) = SubSeq(all, 1, n) /\ Held(all) = SubSeq(all, n + 1, Len(all))
  BY DEF Passed, Held, n
<1>5. n <= Len(all)
  BY <1>1, <1>2
<1>6. QED BY <1>2, <1>3, <1>4, <1>5

LEMMA IntoBufferKeeps ==
  ASSUME NEW f \in Filters, NEW p \in Pipes, NEW ok \in BOOLEAN,
         FilterRests(f, p), f.filter, Len(p.buffer) <= PipeSize[1]
  PROVE  LET r == ReadIntoBuffer(f, p, ok) IN
         /\ r.filter \in Filters /\ r.pipe \in Pipes /\ r.ok \in BOOLEAN
         /\ Len(r.pipe.buffer) <= PipeSize[1] /\ Len(r.filter.held) <= Keep
         /\ Len(r.filter.buffer) <= Keep + PipeSize[1]
         /\ ~r.filter.sub => ~r.pipe.connected /\ r.pipe.buffer = <<>>
         /\ r.filter.sub <=> r.filter.filter
         /\ ~r.filter.filter => r.filter.held = <<>>
         /\ r.ok => r.filter.buffer \o (r.filter.held \o r.pipe.buffer) = f.held \o p.buffer
<1> DEFINE r == ReadIntoBuffer(f, p, ok)
           b == PipeReadBuffer(p)
           all == f.held \o b.data
<1>1. /\ p.buffer \in Octet /\ f.held \in Octet /\ Len(p.buffer) \in Nat /\ Len(f.held) \in Nat
      /\ Keep \in Nat /\ PipeSize[1] \in Nat /\ f.buffer = <<>> /\ Len(f.held) <= Keep
      /\ f.sub /\ f.filter
  BY Sizes, LenProperties DEF Pipes, Filters, FilterRests, Octet
<1>2. /\ b.pipe \in Pipes /\ b.data = p.buffer /\ b.pipe.buffer = <<>>
      /\ b.rv \in {"eof", "again", "success"}
      /\ b.rv # "success" => p.buffer = <<>>
  BY ReadBufferKeeps
<1> HIDE DEF b
<1>3. CASE b.rv = "eof"
  <2>1. r = [ok |-> ok, pipe |-> SourceFinalize(p),
             filter |-> [f EXCEPT !.read_trap = FALSE, !.sub = FALSE, !.filter = FALSE,
                                  !.buffer = @ \o f.held, !.held = <<>>]]
    BY <1>3 DEF ReadIntoBuffer, b
  <2>2. f.buffer \o f.held = f.held
    BY <1>1, Nothing
  <2> DEFINE g == [f EXCEPT !.read_trap = FALSE, !.sub = FALSE, !.filter = FALSE,
                            !.buffer = f.held, !.held = <<>>]
  <2>3. g \in Filters /\ ~g.sub /\ ~g.filter /\ g.buffer = f.held /\ g.held = <<>>
    BY <1>1, Nothing DEF Filters
  <2>4. SourceFinalize(p) \in Pipes /\ ~SourceFinalize(p).connected /\ SourceFinalize(p).buffer = <<>>
    BY FinalizeKeeps
  <2>5. r.ok = ok /\ r.pipe = SourceFinalize(p) /\ r.filter = g
    BY <2>1, <2>2
  <2>6. p.buffer = <<>> /\ f.held \o (<<>> \o <<>>) = f.held \o <<>> /\ Len(<<>>) = 0
    BY <1>1, <1>2, <1>3, Nothing
  <2> HIDE DEF g, r
  <2>7. Len(f.held) <= Keep + PipeSize[1] /\ 0 <= Keep /\ 0 <= PipeSize[1]
    BY <1>1
  <2>8. QED BY <2>3, <2>4, <2>5, <2>6, <2>7 DEF r
<1>4. CASE b.rv = "again"
  <2>1. r = [ok |-> TRUE, pipe |-> b.pipe, filter |-> f]
    BY <1>4 DEF ReadIntoBuffer, b
  <2>2. f.buffer \o (f.held \o <<>>) = f.held \o <<>> /\ p.buffer = <<>> /\ Len(<<>>) = 0
    BY <1>1, <1>2, <1>4, Nothing
  <2>3. 0 <= Keep + PipeSize[1] /\ 0 <= PipeSize[1]
    BY <1>1
  <2> HIDE DEF r
  <2>4. r.ok /\ r.ok \in BOOLEAN /\ r.pipe = b.pipe /\ r.filter = f
    BY <2>1
  <2>5. QED BY <1>1, <1>2, <2>2, <2>3, <2>4 DEF r
<1>5. CASE b.rv = "success"
  <2> DEFINE g == [f EXCEPT !.buffer = @ \o Passed(all), !.held = Held(all)]
  <2>1. r = [ok |-> ok, pipe |-> b.pipe, filter |-> IF ok THEN g ELSE f]
    BY <1>5 DEF ReadIntoBuffer, b
  <2>2. /\ all \in Octet /\ Len(all) = Len(f.held) + Len(p.buffer) /\ all = f.held \o p.buffer
    BY <1>1, <1>2, Joined
  <2> HIDE DEF all, r
  <2>3. Len(all) <= Keep + PipeSize[1] /\ 0 <= Keep + PipeSize[1] /\ 0 <= PipeSize[1]
    <3> DEFINE h == Len(f.held)
               w == Len(p.buffer)
    <3>1. Len(all) = h + w
      BY <2>2
    <3>2. h \in Nat /\ w \in Nat /\ Keep \in Nat /\ PipeSize[1] \in Nat /\ h <= Keep /\ w <= PipeSize[1]
      BY <1>1
    <3> HIDE DEF h, w
    <3>3. QED BY <3>1, <3>2
  <2>4. /\ Passed(all) \in Octet /\ Held(all) \in Octet
        /\ Passed(all) \o Held(all) = all
        /\ Len(Passed(all)) <= Len(all) /\ Len(Held(all)) <= Keep
        /\ Len(Passed(all)) \in Nat /\ Len(all) \in Nat
    BY <2>2, PassedAndHeld, Nothing
  <2>5. f.buffer \o Passed(all) = Passed(all) /\ Held(all) \o <<>> = Held(all) /\ Len(<<>>) = 0
    BY <1>1, <2>4, Nothing
  <2>6. g \in Filters /\ g.buffer = Passed(all) /\ g.held = Held(all) /\ g.sub /\ g.filter
    BY <1>1, <2>4, <2>5 DEF Filters
  <2>7. Len(Passed(all)) <= Keep + PipeSize[1]
    BY <1>1, <2>3, <2>4
  <2>8. r.ok = ok /\ r.pipe = b.pipe /\ r.filter = IF ok THEN g ELSE f
    BY <2>1
  <2> HIDE DEF g
  <2>9. CASE ok
    BY <1>2, <2>2, <2>3, <2>4, <2>5, <2>6, <2>7, <2>8, <2>9 DEF r
  <2>10. CASE ~ok
    BY <1>1, <1>2, <2>3, <2>5, <2>8, <2>10 DEF r
  <2>11. QED BY <2>9, <2>10
<1>6. QED BY <1>2, <1>3, <1>4, <1>5

(* What a read takes from it: the next octets of what it holds back and of *)
(* the pipe, unless it fails. *)
ReadGives(f, p, r) ==
  /\ r.filter \in Filters /\ r.pipe \in Pipes /\ r.data \in Octet
  /\ r.rv \in {"error", "success", "again", "eof"}
  /\ Len(r.pipe.buffer) <= PipeSize[1] /\ Len(r.data) <= Keep + PipeSize[1]
  /\ ~r.filter.sub => ~r.pipe.connected /\ r.pipe.buffer = <<>>
  /\ r.rv \in {"success", "again"} => FilterRests(r.filter, r.pipe)
  /\ r.rv # "error" => r.data \o (r.filter.held \o r.pipe.buffer) = f.held \o p.buffer
  /\ r.rv \in {"eof", "again"} => r.data = <<>>
  /\ r.rv = "eof" => r.filter.held = <<>> /\ r.pipe.buffer = <<>>

LEMMA FilterReadKeeps ==
  ASSUME NEW f \in Filters, NEW p \in Pipes, NEW trapped \in BOOLEAN, NEW ok \in BOOLEAN,
         FilterRests(f, p), Len(p.buffer) <= PipeSize[1]
  PROVE  ReadGives(f, p, FilterReadBuffer(f, p, trapped, ok))
<1> DEFINE r == FilterReadBuffer(f, p, trapped, ok)
           b == IF f.buffer = <<>> /\ f.filter THEN ReadIntoBuffer(f, p, ok)
                ELSE [ok |-> TRUE, pipe |-> p, filter |-> f]
           g == b.filter
           h == [g EXCEPT !.buffer = <<>>, !.readable = ~g.filter, !.read_trap = @ \/ (g.sub /\ trapped)]
<1>1. /\ p.buffer \in Octet /\ f.held \in Octet /\ f.buffer = <<>> /\ Len(<<>>) = 0
      /\ Keep \in Nat /\ PipeSize[1] \in Nat
  BY Sizes, Nothing DEF Pipes, Filters, FilterRests
<1>2. /\ g \in Filters /\ b.pipe \in Pipes /\ b.ok \in BOOLEAN
      /\ Len(b.pipe.buffer) <= PipeSize[1] /\ Len(g.held) <= Keep
      /\ Len(g.buffer) <= Keep + PipeSize[1]
      /\ ~g.sub => ~b.pipe.connected /\ b.pipe.buffer = <<>>
      /\ g.sub <=> g.filter
      /\ ~g.filter => g.held = <<>>
      /\ b.ok => g.buffer \o (g.held \o b.pipe.buffer) = f.held \o p.buffer
  <2>1. CASE f.filter
    <3>1. b = ReadIntoBuffer(f, p, ok)
      BY <1>1, <2>1
    <3> HIDE DEF b
    <3>2. QED BY <2>1, <3>1, IntoBufferKeeps
  <2>2. CASE ~f.filter
    <3>1. b = [ok |-> TRUE, pipe |-> p, filter |-> f]
      BY <2>2
    <3> HIDE DEF b
    <3>2. b.ok = TRUE /\ b.pipe = p /\ b.filter = f
      BY <3>1
    <3>3. ~f.sub /\ f.held = <<>> /\ p.buffer = <<>> /\ ~p.connected /\ 0 <= Keep + PipeSize[1]
      BY <1>1, <2>2 DEF FilterRests
    <3>4. <<>> \o (<<>> \o <<>>) = <<>> \o <<>>
      BY Nothing, <1>1
    <3>5. Len(<<>>) <= PipeSize[1] /\ Len(<<>>) <= Keep
      BY <1>1
    <3>6. QED BY <1>1, <2>2, <3>2, <3>3, <3>4, <3>5
  <2>3. QED BY <2>1, <2>2
<1> HIDE DEF b
<1>3. g.held \in Octet /\ g.buffer \in Octet /\ b.pipe.buffer \in Octet
  BY <1>2 DEF Filters, Pipes
<1>4. /\ r.rv = IF ~b.ok THEN "error" ELSE IF g.buffer # <<>> THEN "success"
                ELSE IF g.filter THEN "again" ELSE "eof"
      /\ r.data = IF b.ok THEN g.buffer ELSE <<>>
      /\ r.pipe = b.pipe
      /\ r.filter = IF b.ok /\ g.buffer # <<>> THEN h ELSE g
  BY DEF FilterReadBuffer, b
<1>5. /\ h \in Filters /\ h.buffer = <<>> /\ h.held = g.held /\ h.sub = g.sub /\ h.filter = g.filter
  BY <1>1, <1>2, Nothing DEF Filters
<1> HIDE DEF r, g, h
<1>6. <<>> \in Octet /\ Len(<<>>) <= Keep + PipeSize[1]
  BY <1>1, Nothing
<1>7. CASE ~b.ok
  <2>1. r.rv = "error" /\ r.data = <<>> /\ r.pipe = b.pipe /\ r.filter = g
    BY <1>4, <1>7
  <2>2. QED BY <1>2, <1>6, <2>1 DEF r, ReadGives
<1>8. CASE b.ok /\ g.buffer # <<>>
  <2>1. r.rv = "success" /\ r.data = g.buffer /\ r.pipe = b.pipe /\ r.filter = h
    BY <1>4, <1>8
  <2>2. FilterRests(h, b.pipe)
    BY <1>2, <1>5 DEF FilterRests
  <2>3. QED BY <1>2, <1>3, <1>5, <1>8, <2>1, <2>2 DEF r, ReadGives
<1>9. CASE b.ok /\ g.buffer = <<>> /\ g.filter
  <2>1. r.rv = "again" /\ r.data = <<>> /\ r.pipe = b.pipe /\ r.filter = g
    BY <1>4, <1>9
  <2>2. FilterRests(g, b.pipe)
    BY <1>2, <1>9 DEF FilterRests
  <2>3. QED BY <1>2, <1>6, <1>9, <2>1, <2>2 DEF r, ReadGives
<1>10. CASE b.ok /\ g.buffer = <<>> /\ ~g.filter
  <2>1. r.rv = "eof" /\ r.data = <<>> /\ r.pipe = b.pipe /\ r.filter = g
    BY <1>4, <1>10
  <2>2. QED BY <1>2, <1>6, <1>10, <2>1 DEF r, ReadGives
<1>11. QED BY <1>2, <1>7, <1>8, <1>9, <1>10

LEMMA FilterShutdownKeeps ==
  ASSUME NEW f \in Filters, NEW p \in Pipes, ~f.sub => ~p.connected /\ p.buffer = <<>>
  PROVE  LET q == IF f.sub THEN SourceFinalize(p) ELSE p IN
         /\ FilterShutdown(f) \in Filters /\ q \in Pipes
         /\ FilterRests(FilterShutdown(f), q)
         /\ q.buffer = <<>> /\ ~q.connected
         /\ FilterShutdown(f).held = <<>> /\ ~FilterShutdown(f).sub /\ ~FilterShutdown(f).filter
<1>1. <<>> \in Octet /\ Len(<<>>) <= Keep
  BY Sizes, EmptySeq DEF Octet
<1>2. /\ FilterShutdown(f) \in Filters /\ FilterShutdown(f).buffer = <<>>
      /\ FilterShutdown(f).held = <<>> /\ ~FilterShutdown(f).sub /\ ~FilterShutdown(f).filter
  BY <1>1 DEF FilterShutdown, Filters
<1>3. /\ SourceFinalize(p) \in Pipes /\ ~SourceFinalize(p).connected
      /\ SourceFinalize(p).buffer = <<>>
  BY FinalizeKeeps
<1>4. QED BY <1>1, <1>2, <1>3 DEF FilterRests

LEMMA SetPollKeeps ==
  ASSUME NEW f \in Filters, NEW p \in Pipes, NEW t \in BOOLEAN, FilterRests(f, p)
  PROVE  SetPoll(f, t) \in Filters /\ FilterRests(SetPoll(f, t), p) /\ SetPoll(f, t).held = f.held
BY DEF SetPoll, Filters, FilterRests

-----------------------------------------------------------------------------
(* The whole chain. *)

(* Octets that reached the last pipe, and those still behind it. *)
Arrived == consumed \o pipe[2].buffer
Coming == conn.buffer \o (filter.held \o pipe[1].buffer)

(* A connection holds an end as long as it has a trap on it, it lets go of *)
(* its source first, and it reads only with less than MaxBuffer octets. *)
Linked(c, f) ==
  /\ c.source <=> c.read_trap # NoTrap
  /\ c.sink <=> c.write_trap # NoTrap
  /\ c.source => c.sink
  /\ c.refs = IF c.source THEN 2 ELSE IF c.sink THEN 1 ELSE 0
  /\ c.read_trap = 0 => Len(c.buffer) < MaxBuffer
  /\ ~c.source => ~f.sub

(* Until a failure everything written is read or on its way.  After one *)
(* nothing comes through the filter any more, and as long as the connection *)
(* can still write, what it has is next. *)
Flows(front, rest, sent, c, connected, failed) ==
  /\ ~failed => front \o rest = sent
  /\ ~failed /\ c.sink => connected
  /\ failed /\ connected => ~c.source
  /\ connected => IsPrefix(front \o rest, sent)
  /\ IsPrefix(front, sent)

Sized(b) == Len(b) < MaxBuffer + PipeSize[1] + Keep

StreamInv ==
  /\ pipe \in [1..2 -> Pipes] /\ filter \in Filters /\ conn \in Connections
  /\ producer \in [open: BOOLEAN, error: BOOLEAN]
  /\ consumer \in [open: BOOLEAN, reads: BOOLEAN, eof: BOOLEAN]
  /\ broken \in BOOLEAN /\ written \in 0..MaxWritten /\ consumed \in Octet
  /\ \A i \in 1..2 : Len(pipe[i].buffer) <= PipeSize[i]
  /\ Sized(conn.buffer)
  /\ FilterRests(filter, pipe[1]) /\ Linked(conn, filter)
  /\ Flows(Arrived, Coming, Sent, conn, pipe[2].connected, broken)

LEMMA SentIsASequence ==
  ASSUME NEW n \in Nat
  PROVE  [i \in 1..n |-> i] \in Octet /\ Len([i \in 1..n |-> i]) = n
BY DEF Octet

(* The invariant says what NothingLost does. *)
LEMMA InvGivesNothingLost == StreamInv => NothingLost
<1> SUFFICES ASSUME StreamInv PROVE NothingLost
  OBVIOUS
<1>1. TypeOK
  BY DEF StreamInv, TypeOK, Pipes, Filters, Connections, Traps, Refs, Octet, Sized
<1>2. /\ consumed \in Octet /\ pipe[2].buffer \in Octet /\ conn.buffer \in Octet
      /\ filter.held \in Octet /\ pipe[1].buffer \in Octet /\ filter.buffer = <<>>
  BY DEF StreamInv, Pipes, Filters, Connections, FilterRests
<1>3. consumed \o InTransit = Arrived \o Coming
  <2> DEFINE a == consumed
             b == pipe[2].buffer
             c == conn.buffer
             d == filter.held
             e == pipe[1].buffer
             x == b \o c
             y == d \o e
             z == c \o y
  <2>1. a \in Octet /\ b \in Octet /\ c \in Octet /\ d \in Octet /\ e \in Octet
    BY <1>2
  <2>2. /\ InTransit = x \o <<>> \o d \o e
        /\ Arrived = a \o b /\ Coming = z
    BY <1>2 DEF InTransit, Arrived, Coming
  <2> HIDE DEF a, b, c, d, e
  <2>3. x \in Octet /\ y \in Octet
    BY <2>1, Joined
  <2> HIDE DEF x, y
  <2>4. z \in Octet /\ x \o <<>> = x
    BY <2>1, <2>3, Joined, Nothing
  <2> HIDE DEF z
  <2>5. (x \o d) \o e = x \o y
    BY ONLY <2>1, <2>3, Regrouped, SMTT(40) DEF y
  <2>6. x \o y = b \o z
    BY ONLY <2>1, <2>3, Regrouped, SMTT(40) DEF x, z
  <2>7. a \o (b \o z) = (a \o b) \o z
    BY ONLY <2>1, <2>4, Regrouped, SMTT(40)
  <2>8. InTransit = b \o z
    BY <2>2, <2>4, <2>5, <2>6
  <2>9. QED BY <2>2, <2>7, <2>8 DEF a
<1>4. (~broken => Arrived \o Coming = Sent) /\ IsPrefix(Arrived, Sent)
  BY DEF StreamInv, Flows
<1>5. QED BY <1>1, <1>3, <1>4 DEF NothingLost, Arrived

LEMMA InitHolds == Init => StreamInv
<1> SUFFICES ASSUME Init PROVE StreamInv
  OBVIOUS
<1>1. <<>> \in Octet /\ Len(<<>>) = 0 /\ <<>> \o <<>> = <<>>
  BY Nothing, EmptySeq DEF Octet
<1>2. /\ pipe = [i \in 1..2 |-> dsk_octet_pipe_new] /\ conn = dsk_octet_connection_new
      /\ filter = [buffer |-> <<>>, held |-> <<>>, filter |-> TRUE, sub |-> TRUE,
                   read_trap |-> TRUE, readable |-> FALSE]
      /\ producer = [open |-> TRUE, error |-> FALSE] /\ broken = FALSE
      /\ consumer = [open |-> TRUE, reads |-> TRUE, eof |-> FALSE]
      /\ written = 0 /\ consumed = <<>>
  BY DEF Init
<1>3. dsk_octet_pipe_new \in Pipes /\ dsk_octet_pipe_new.buffer = <<>> /\ dsk_octet_pipe_new.connected
  BY <1>1 DEF dsk_octet_pipe_new, Pipes
<1>4. filter \in Filters /\ filter.held = <<>> /\ filter.buffer = <<>> /\ filter.sub /\ filter.filter
  BY <1>1, <1>2 DEF Filters
<1>5. /\ conn \in Connections /\ conn.buffer = <<>> /\ conn.source /\ conn.sink
      /\ conn.read_trap = 0 /\ conn.write_trap = 1 /\ conn.refs = 2
  BY <1>1, <1>2, TrapsAndRefs DEF dsk_octet_connection_new, Connections
<1>6. /\ pipe \in [1..2 -> Pipes] /\ pipe[1].buffer = <<>> /\ pipe[2].buffer = <<>> /\ pipe[2].connected
  BY <1>2, <1>3
<1>7. \A i \in 1..2 : Len(pipe[i].buffer) <= PipeSize[i]
  BY <1>1, <1>6, Sizes
<1>8. Sized(conn.buffer) /\ Linked(conn, filter) /\ FilterRests(filter, pipe[1])
  BY <1>1, <1>4, <1>5, <1>6, Sizes DEF Sized, Linked, FilterRests, NoTrap
<1>9. Arrived = <<>> /\ Coming = <<>>
  BY <1>1, <1>2, <1>4, <1>5, <1>6 DEF Arrived, Coming
<1>10. Sent = <<>>
  <2>1. Sent \in Octet /\ Len(Sent) = 0
    BY <1>2, SentIsASequence DEF Sent
  <2>2. QED BY <2>1, Nothing
<1>11. IsPrefix(<<>>, <<>>)
  BY <1>1, ItsOwnPrefix
<1>12. Flows(Arrived, Coming, Sent, conn, pipe[2].connected, broken)
  BY <1>1, <1>2, <1>5, <1>6, <1>9, <1>10, <1>11 DEF Flows
<1>13. /\ producer \in [open: BOOLEAN, error: BOOLEAN]
       /\ consumer \in [open: BOOLEAN, reads: BOOLEAN, eof: BOOLEAN]
       /\ broken \in BOOLEAN /\ written \in 0..MaxWritten /\ consumed \in Octet
  <2>1. written \in 0..MaxWritten
    BY <1>2, Sizes
  <2>2. consumed \in Octet
    BY <1>1, <1>2
  <2>3. QED BY <1>2, <2>1, <2>2
<1>14. QED BY <1>4, <1>5, <1>6, <1>7, <1>8, <1>12, <1>13 DEF StreamInv

-----------------------------------------------------------------------------
(* The connection's steps. *)

(* The invariant in parts: what the links are, what the program knows, and *)
(* the flow of octets. *)
Parts ==
  /\ pipe[1] \in Pipes /\ pipe[2] \in Pipes /\ filter \in Filters /\ conn \in Connections
  /\ Len(pipe[1].buffer) <= PipeSize[1] /\ Len(pipe[2].buffer) <= PipeSize[2]
  /\ Sized(conn.buffer)
  /\ FilterRests(filter, pipe[1]) /\ Linked(conn, filter)

Program ==
  /\ producer \in [open: BOOLEAN, error: BOOLEAN]
  /\ consumer \in [open: BOOLEAN, reads: BOOLEAN, eof: BOOLEAN]
  /\ broken \in BOOLEAN /\ written \in 0..MaxWritten /\ consumed \in Octet

InFlow == Flows(Arrived, Coming, Sent, conn, pipe[2].connected, broken)

LEMMA InvInParts ==
  StreamInv <=> pipe \in [1..2 -> Pipes] /\ Parts /\ Program /\ InFlow
<1>1. 1..2 = {1, 2}
  OBVIOUS
<1>2. QED BY <1>1 DEF StreamInv, Parts, Program, InFlow

LEMMA PartsMakeInv ==
  pipe' \in [1..2 -> Pipes] /\ Parts' /\ Program' /\ InFlow' => StreamInv'
<1>1. 1..2 = {1, 2}
  OBVIOUS
<1>2. QED BY <1>1 DEF StreamInv, Parts, Program, InFlow

LEMMA Buffers ==
  ASSUME Parts, Program
  PROVE  /\ consumed \in Octet /\ pipe[2].buffer \in Octet /\ conn.buffer \in Octet
         /\ filter.held \in Octet /\ pipe[1].buffer \in Octet
         /\ filter.held \o pipe[1].buffer \in Octet
         /\ Arrived \in Octet /\ Coming \in Octet /\ Sent \in Octet
<1>1. /\ consumed \in Octet /\ pipe[2].buffer \in Octet /\ conn.buffer \in Octet
      /\ filter.held \in Octet /\ pipe[1].buffer \in Octet
  BY DEF Parts, Program, Pipes, Filters, Connections
<1>2. filter.held \o pipe[1].buffer \in Octet /\ Arrived \in Octet
  BY <1>1, Joined DEF Arrived
<1>3. Coming \in Octet
  BY <1>1, <1>2, Joined DEF Coming
<1>4. Sent \in Octet
  BY SentIsASequence, Sizes DEF Sent, Program
<1>5. QED BY <1>1, <1>2, <1>3, <1>4

WithoutSource(c) ==
  [c EXCEPT !.source = FALSE, !.read_trap = NoTrap, !.sink = TRUE, !.refs = 1]
WithoutBoth(c) ==
  [c EXCEPT !.source = FALSE, !.sink = FALSE, !.refs = 0, !.read_trap = NoTrap,
            !.write_trap = NoTrap]

LEMMA WithoutSourceIs ==
  ASSUME NEW c \in Connections
  PROVE  /\ WithoutSource(c) \in Connections /\ WithoutSource(c).buffer = c.buffer
         /\ ~WithoutSource(c).source /\ WithoutSource(c).sink /\ WithoutSource(c).refs = 1
         /\ WithoutSource(c).read_trap = NoTrap /\ WithoutSource(c).write_trap = c.write_trap
<1> DEFINE d == WithoutSource(c)
<1>1. d \in Connections
  BY TrapsAndRefs DEF WithoutSource, Connections
<1>2. d.buffer = c.buffer /\ d.read_trap = NoTrap /\ d.write_trap = c.write_trap /\ d.refs = 1
  BY DEF WithoutSource, Connections
<1>3. ~d.source /\ d.sink
  BY DEF WithoutSource, Connections
<1>4. QED BY <1>1, <1>2, <1>3

LEMMA WithoutBothIs ==
  ASSUME NEW c \in Connections
  PROVE  /\ WithoutBoth(c) \in Connections /\ WithoutBoth(c).buffer = c.buffer
         /\ ~WithoutBoth(c).source /\ ~WithoutBoth(c).sink /\ WithoutBoth(c).refs = 0
         /\ WithoutBoth(c).read_trap = NoTrap /\ WithoutBoth(c).write_trap = NoTrap
<1> DEFINE d == WithoutBoth(c)
<1>1. d \in Connections
  BY TrapsAndRefs DEF WithoutBoth, Connections
<1>2. d.buffer = c.buffer /\ d.read_trap = NoTrap /\ d.write_trap = NoTrap /\ d.refs = 0
  BY DEF WithoutBoth, Connections
<1>3. ~d.source /\ ~d.sink
  BY DEF WithoutBoth, Connections
<1>4. QED BY <1>1, <1>2, <1>3

(* The connection's source is at its end, or failed. *)
LEMMA DoneReadingKeeps ==
  ASSUME StreamInv, NEW f \in Filters, NEW p \in Pipes,
         ~f.sub => ~p.connected /\ p.buffer = <<>>,
         conn.read_trap = 0, DoneReading(conn, f, p)
  PROVE  /\ pipe' \in [1..2 -> Pipes] /\ Parts'
         /\ conn'.buffer = conn.buffer /\ filter'.held = <<>> /\ pipe'[1].buffer = <<>>
         /\ pipe'[2].buffer = pipe[2].buffer
         /\ conn'.sink => conn.sink /\ pipe'[2].connected = pipe[2].connected
         /\ ~conn'.source
         /\ pipe'[2].connected => pipe[2].connected
<1> DEFINE both == conn.buffer = <<>> /\ conn.write_trap # NoTrap
           q == IF f.sub THEN SourceFinalize(p) ELSE p
           g == FilterShutdown(f)
           p2 == IF both THEN SinkShutdown(pipe[2]) ELSE pipe[2]
           c == [conn EXCEPT !.source = FALSE, !.read_trap = NoTrap,
                             !.write_trap = IF both THEN NoTrap ELSE @,
                             !.sink = @ /\ ~both,
                             !.refs = @ - (IF both THEN 2 ELSE 1)]
<1>1. pipe \in [1..2 -> Pipes] /\ Parts
  BY InvInParts
<1>2. /\ g \in Filters /\ q \in Pipes /\ FilterRests(g, q) /\ q.buffer = <<>> /\ g.held = <<>> /\ ~g.sub
  BY FilterShutdownKeeps
<1>3. /\ p2 \in Pipes /\ p2.buffer = pipe[2].buffer /\ (p2.connected => pipe[2].connected)
      /\ ~both => p2 = pipe[2]
  BY <1>1, ShutdownKeeps DEF Parts
<1>4. conn' = c /\ filter' = g /\ pipe' = [pipe EXCEPT ![1] = q, ![2] = p2]
  BY DEF DoneReading
<1>5. conn \in Connections /\ conn.source /\ conn.sink /\ conn.refs = 2 /\ conn.write_trap # NoTrap
  BY <1>1 DEF Parts, Linked, NoTrap
<1>6. /\ c \in Connections /\ c.buffer = conn.buffer /\ ~c.source /\ c.read_trap = NoTrap
      /\ both => ~c.sink /\ c.write_trap = NoTrap /\ c.refs = 0
      /\ ~both => c.sink /\ c.write_trap = conn.write_trap /\ c.refs = 1
  <2> HIDE DEF both
  <2>1. CASE both
    <3>1. (conn.sink /\ ~both) = FALSE /\ conn.refs - 2 = 0
      BY <1>5, <2>1
    <3>2. c = WithoutBoth(conn)
      BY <2>1, <3>1 DEF WithoutBoth
    <3> HIDE DEF c
    <3>3. QED BY <1>5, <2>1, <3>2, WithoutBothIs
  <2>2. CASE ~both
    <3>1. (conn.sink /\ ~both) = TRUE /\ conn.refs - 1 = 1
      BY <1>5, <2>2
    <3>2. c = WithoutSource(conn)
      <4>1. conn = [conn EXCEPT !.write_trap = conn.write_trap]
        BY <1>5 DEF Connections
      <4>2. QED BY <1>5, <2>2, <3>1, <4>1 DEF WithoutSource, Connections
    <3> HIDE DEF c
    <3>3. QED BY <1>5, <2>2, <3>2, WithoutSourceIs
  <2>3. QED BY <2>1, <2>2
<1> HIDE DEF both, q, g, p2, c
<1>7. Linked(c, g)
  <2>1. CASE both
    BY <1>2, <1>6, <2>1 DEF Linked, NoTrap
  <2>2. CASE ~both
    BY <1>2, <1>5, <1>6, <2>2 DEF Linked, NoTrap
  <2>3. QED BY <2>1, <2>2
<1>8. pipe' \in [1..2 -> Pipes] /\ pipe'[1] = q /\ pipe'[2] = p2
  BY <1>1, <1>2, <1>3, <1>4
<1>9. Len(q.buffer) <= PipeSize[1] /\ Len(p2.buffer) <= PipeSize[2]
  BY <1>1, <1>2, <1>3, Sizes, EmptySeq DEF Parts
<1>10. Parts'
  BY <1>1, <1>2, <1>3, <1>4, <1>6, <1>7, <1>8, <1>9 DEF Parts, Sized
<1>11. conn'.sink => conn.sink /\ pipe'[2].connected = pipe[2].connected
  BY <1>3, <1>4, <1>5, <1>6, <1>8
<1>12. QED BY <1>2, <1>3, <1>4, <1>6, <1>8, <1>10, <1>11

(* The connection's hook on its source: it reads what there is. *)
LEMMA SourceReadableKeeps ==
  ASSUME StreamInv, NEW ok \in BOOLEAN, conn.read_trap = 0, SourceReadable(ok),
         UNCHANGED programVars
  PROVE  StreamInv'
<1> DEFINE r == FilterReadBuffer(filter, pipe[1], TRUE, ok)
           c == [conn EXCEPT !.buffer = @ \o r.data]
           full == Len(c.buffer) >= MaxBuffer
           d == [c EXCEPT !.write_trap = IF @ = 1 THEN 0 ELSE @, !.read_trap = IF full THEN 1 ELSE @]
           g == IF full THEN SetPoll(r.filter, FALSE) ELSE r.filter
<1>1. pipe \in [1..2 -> Pipes] /\ Parts /\ Program /\ InFlow
  BY InvInParts
<1>2. /\ r.filter \in Filters /\ r.pipe \in Pipes /\ r.data \in Octet
      /\ r.rv \in {"error", "success", "again", "eof"}
      /\ Len(r.pipe.buffer) <= PipeSize[1] /\ Len(r.data) <= Keep + PipeSize[1]
      /\ ~r.filter.sub => ~r.pipe.connected /\ r.pipe.buffer = <<>>
      /\ r.rv \in {"success", "again"} => FilterRests(r.filter, r.pipe)
      /\ r.rv # "error" => r.data \o (r.filter.held \o r.pipe.buffer) = filter.held \o pipe[1].buffer
      /\ r.rv \in {"eof", "again"} => r.data = <<>>
      /\ r.rv = "eof" => r.filter.held = <<>> /\ r.pipe.buffer = <<>>
  <2>1. /\ filter \in Filters /\ pipe[1] \in Pipes /\ FilterRests(filter, pipe[1])
        /\ Len(pipe[1].buffer) <= PipeSize[1]
    BY <1>1 DEF Parts
  <2>2. ReadGives(filter, pipe[1], r)
    BY <2>1, FilterReadKeeps
  <2> HIDE DEF r
  <2>3. QED BY <2>2 DEF ReadGives
<1>3. Program' /\ Arrived \in Octet /\ Coming \in Octet /\ Sent \in Octet /\ Sent' = Sent
      /\ conn.buffer \in Octet /\ filter.held \o pipe[1].buffer \in Octet
      /\ r.filter.held \o r.pipe.buffer \in Octet
  <2>1. broken' \in BOOLEAN
    BY <1>1 DEF SourceReadable, Program
  <2>2. r.filter.held \in Octet /\ r.pipe.buffer \in Octet
    BY <1>2 DEF Filters, Pipes
  <2>3. r.filter.held \o r.pipe.buffer \in Octet
    BY <2>2, Joined
  <2>4. Program' /\ Sent' = Sent
    BY <1>1, <2>1 DEF Program, programVars, Sent
  <2>5. QED BY <1>1, <2>3, <2>4, Buffers
<1>4. \/ /\ r.rv = "again"
         /\ filter' = r.filter /\ pipe' = [pipe EXCEPT ![1] = r.pipe]
         /\ UNCHANGED <<conn, broken>>
      \/ /\ r.rv \in {"eof", "error"}
         /\ DoneReading(conn, r.filter, r.pipe)
         /\ broken' = (broken \/ r.rv = "error")
      \/ /\ r.rv = "success"
         /\ conn' = d /\ filter' = g
         /\ pipe' = [pipe EXCEPT ![1] = r.pipe]
         /\ UNCHANGED broken
  BY DEF SourceReadable
<1>5. conn \in Connections /\ conn.source /\ conn.sink /\ Len(conn.buffer) < MaxBuffer
  BY <1>1 DEF Parts, Linked, NoTrap
<1> HIDE DEF r
<1>6. CASE r.rv = "again"
  <2>1. filter' = r.filter /\ pipe' = [pipe EXCEPT ![1] = r.pipe] /\ UNCHANGED <<conn, broken>>
    BY <1>4, <1>6
  <2>2. pipe' \in [1..2 -> Pipes] /\ pipe'[1] = r.pipe /\ pipe'[2] = pipe[2]
    BY <1>1, <1>2, <2>1
  <2>3. Parts'
    BY <1>1, <1>2, <1>5, <1>6, <2>1, <2>2 DEF Parts, Linked
  <2>4. r.data \o (r.filter.held \o r.pipe.buffer) = r.filter.held \o r.pipe.buffer
    BY <1>2, <1>3, <1>6, Nothing
  <2>5. Coming' = Coming
    BY <1>2, <1>6, <2>1, <2>2, <2>4 DEF Coming
  <2>6. Arrived' = Arrived
    BY <2>2 DEF Arrived, programVars
  <2>7. InFlow'
    BY <1>1, <1>3, <2>1, <2>2, <2>5, <2>6 DEF InFlow
  <2>8. QED BY <1>3, <2>2, <2>3, <2>7, PartsMakeInv
<1>7. CASE r.rv \in {"eof", "error"}
  <2>1. DoneReading(conn, r.filter, r.pipe) /\ broken' = (broken \/ r.rv = "error")
    BY <1>4, <1>7
  <2>2. /\ pipe' \in [1..2 -> Pipes] /\ Parts'
        /\ conn'.buffer = conn.buffer /\ filter'.held = <<>> /\ pipe'[1].buffer = <<>>
        /\ pipe'[2].buffer = pipe[2].buffer
        /\ conn'.sink => conn.sink /\ pipe'[2].connected = pipe[2].connected
        /\ ~conn'.source
        /\ pipe'[2].connected => pipe[2].connected
    BY <1>2, <2>1, DoneReadingKeeps
  <2>3. Arrived' = Arrived
    BY <2>2 DEF Arrived, programVars
  <2>4. Coming' = conn.buffer
    BY <1>3, <2>2, Nothing DEF Coming
  <2>5. CASE r.rv = "eof"
    <3>1. filter.held \o pipe[1].buffer = <<>>
      BY <1>2, <2>5, Nothing
    <3>2. Coming = conn.buffer
      BY <1>3, <3>1, Nothing DEF Coming
    <3>3. broken' = broken
      BY <1>1, <2>1, <2>5 DEF Program
    <3>4. InFlow'
      BY <1>1, <1>3, <2>2, <2>3, <2>4, <3>2, <3>3 DEF InFlow, Flows
    <3>5. QED BY <1>3, <2>2, <3>4, PartsMakeInv
  <2>6. CASE r.rv = "error"
    <3>1. broken' = TRUE
      BY <2>1, <2>6
    <3>2. ASSUME pipe'[2].connected PROVE IsPrefix(Arrived \o conn.buffer, Sent)
      <4>1. IsPrefix(Arrived \o Coming, Sent)
        BY <1>1, <2>2, <3>2 DEF InFlow, Flows
      <4> DEFINE a == Arrived \o conn.buffer
                 b == filter.held \o pipe[1].buffer
      <4>2. a \o b = Arrived \o Coming
        <5> DEFINE x == conn.buffer
        <5>1. x \in Octet /\ b \in Octet /\ Arrived \in Octet
          BY <1>3
        <5> HIDE DEF b, x
        <5>2. (Arrived \o x) \o b = Arrived \o (x \o b)
          BY ONLY <5>1, Regrouped, SMTT(40)
        <5>3. QED BY <5>2 DEF Coming, b, x
      <4>3. a \in Octet /\ b \in Octet
        BY <1>3, Joined
      <4> HIDE DEF a, b
      <4>4. IsPrefix(a \o b, Sent)
        BY <4>1, <4>2
      <4>5. IsPrefix(a, Sent)
        BY <1>3, <4>3, <4>4, PrefixOfPrefix
      <4>6. QED BY <4>5 DEF a
    <3>3. InFlow'
      BY <1>1, <1>3, <2>2, <2>3, <2>4, <3>1, <3>2 DEF InFlow, Flows
    <3>4. QED BY <1>3, <2>2, <3>3, PartsMakeInv
  <2>7. QED BY <1>7, <2>5, <2>6
<1>8. CASE r.rv = "success"
  <2>1. conn' = d /\ filter' = g /\ pipe' = [pipe EXCEPT ![1] = r.pipe] /\ UNCHANGED broken
    BY <1>4, <1>8
  <2>2. pipe' \in [1..2 -> Pipes] /\ pipe'[1] = r.pipe /\ pipe'[2] = pipe[2]
    BY <1>1, <1>2, <2>1
  <2>3. conn.buffer \o r.data \in Octet /\ Len(conn.buffer \o r.data) = Len(conn.buffer) + Len(r.data)
        /\ Len(conn.buffer) \in Nat /\ Len(r.data) \in Nat
    BY <1>2, <1>3, Joined
  <2>4. c \in Connections /\ c.buffer = conn.buffer \o r.data /\ c.source /\ c.sink
        /\ c.read_trap = 0 /\ c.write_trap = conn.write_trap /\ c.refs = conn.refs
    BY <1>5, <2>3 DEF Connections
  <2>5. Sized(c.buffer)
    <3> DEFINE l == Len(conn.buffer)
               n == Len(r.data)
    <3>1. l \in Nat /\ n \in Nat /\ l < MaxBuffer /\ n <= Keep + PipeSize[1]
          /\ Len(c.buffer) = l + n
      BY <1>2, <1>5, <2>3, <2>4
    <3> HIDE DEF l, n, c
    <3>2. QED BY <3>1, Sizes DEF Sized
  <2> HIDE DEF c, full
  <2>6. /\ d \in Connections /\ d.buffer = c.buffer /\ d.source /\ d.sink /\ d.refs = c.refs
        /\ d.write_trap # NoTrap
        /\ d.read_trap = IF full THEN 1 ELSE 0
    <3> DEFINE w == IF c.write_trap = 1 THEN 0 ELSE c.write_trap
               p == IF full THEN 1 ELSE 0
    <3>1. c.write_trap \in Traps /\ c.write_trap # NoTrap
      BY <1>1, <1>5, <2>4 DEF Connections, Parts, Linked
    <3>2. w \in Traps /\ p \in Traps /\ w # NoTrap
      BY <3>1, TrapsAndRefs DEF NoTrap
    <3>3. d = [c EXCEPT !.write_trap = w, !.read_trap = p]
      BY <2>4 DEF Connections
    <3>4. p = IF full THEN 1 ELSE 0
      OBVIOUS
    <3> HIDE DEF w, p, d
    <3>5. d \in Connections
      BY <2>4, <3>2, <3>3 DEF Connections
    <3>6. d.buffer = c.buffer /\ d.refs = c.refs /\ d.write_trap = w /\ d.read_trap = p
      BY <2>4, <3>3 DEF Connections
    <3>7. d.source = c.source /\ d.sink = c.sink
      BY <2>4, <3>3 DEF Connections
    <3>8. QED BY <2>4, <3>2, <3>4, <3>5, <3>6, <3>7
  <2>7. conn.refs = 2
    BY <1>1, <1>5 DEF Parts, Linked
  <2>8. g \in Filters /\ FilterRests(g, r.pipe) /\ g.held = r.filter.held
    BY <1>2, <1>8, SetPollKeeps
  <2> HIDE DEF d, g
  <2>9. Linked(d, g)
    <3>1. d.read_trap = 0 => Len(c.buffer) < MaxBuffer
      <4> DEFINE n == Len(c.buffer)
      <4>1. n \in Nat
        BY <2>3, <2>4, Nothing
      <4>2. full <=> n >= MaxBuffer
        BY DEF full
      <4>3. d.read_trap = 0 => ~full
        BY <2>6
      <4> HIDE DEF n
      <4>4. d.read_trap = 0 => n < MaxBuffer
        BY <4>1, <4>2, <4>3, Sizes
      <4>5. QED BY <4>4 DEF n
    <3>2. d.read_trap # NoTrap /\ d.refs = 2
      BY <2>4, <2>6, <2>7 DEF NoTrap
    <3>3. d.source /\ d.sink /\ d.write_trap # NoTrap /\ Len(d.buffer) = Len(c.buffer)
      BY <2>6
    <3>4. QED BY <3>1, <3>2, <3>3 DEF Linked
  <2>10. Parts'
    BY <1>1, <1>2, <2>1, <2>2, <2>5, <2>6, <2>8, <2>9 DEF Parts
  <2>11. Coming' = Coming
    <3> DEFINE b == r.filter.held \o r.pipe.buffer
    <3>1. Coming' = (conn.buffer \o r.data) \o b
      BY <2>1, <2>2, <2>4, <2>6, <2>8 DEF Coming
    <3>2. Coming = conn.buffer \o (r.data \o b)
      BY <1>2, <1>8 DEF Coming
    <3> DEFINE x == conn.buffer
               y == r.data
    <3>3. b \in Octet /\ y \in Octet /\ x \in Octet
      BY <1>2, <1>3
    <3> HIDE DEF b, x, y
    <3>4. (x \o y) \o b = x \o (y \o b)
      BY ONLY <3>3, Regrouped, SMTT(40)
    <3>5. QED BY <3>1, <3>2, <3>4 DEF x, y
  <2>12. Arrived' = Arrived
    BY <2>2 DEF Arrived, programVars
  <2>13. InFlow'
    BY <1>1, <1>3, <1>5, <2>1, <2>2, <2>4, <2>6, <2>11, <2>12 DEF InFlow, Flows
  <2>14. QED BY <1>3, <2>2, <2>10, <2>13, PartsMakeInv
<1>9. QED BY <1>2, <1>6, <1>7, <1>8

(* The connection lets go of both ends after a failure: nothing more comes. *)
Dropped(p2) ==
  /\ p2 \in Pipes /\ p2.buffer = pipe[2].buffer
  /\ p2.connected => pipe[2].connected /\ ~conn.sink
  /\ broken' = TRUE
  /\ conn' = WithoutBoth(conn)
  /\ filter' = IF conn.source THEN FilterShutdown(filter) ELSE filter
  /\ pipe' = [pipe EXCEPT ![1] = IF conn.source /\ filter.sub THEN SourceFinalize(@) ELSE @,
                          ![2] = p2]
  /\ UNCHANGED programVars

LEMMA DroppedKeeps ==
  ASSUME StreamInv, NEW p2, Dropped(p2)
  PROVE  StreamInv'
<1> DEFINE p1 == IF conn.source /\ filter.sub THEN SourceFinalize(pipe[1]) ELSE pipe[1]
           g == IF conn.source THEN FilterShutdown(filter) ELSE filter
           c == WithoutBoth(conn)
<1>1. pipe \in [1..2 -> Pipes] /\ Parts /\ Program /\ InFlow
  BY InvInParts
<1>2. /\ p2 \in Pipes /\ p2.buffer = pipe[2].buffer
      /\ p2.connected => pipe[2].connected /\ ~conn.sink
      /\ broken' = TRUE /\ conn' = c /\ filter' = g
      /\ pipe' = [pipe EXCEPT ![1] = p1, ![2] = p2]
      /\ UNCHANGED programVars
  BY DEF Dropped
<1>3. /\ pipe[1] \in Pipes /\ filter \in Filters /\ conn \in Connections
      /\ ~filter.sub => ~pipe[1].connected /\ pipe[1].buffer = <<>>
      /\ ~conn.source => ~filter.sub
      /\ conn.source => conn.sink
  BY <1>1 DEF Parts, FilterRests, Linked
<1>4. /\ g \in Filters /\ p1 \in Pipes /\ FilterRests(g, p1) /\ p1.buffer = <<>> /\ ~g.sub
      /\ ~conn.source => g = filter /\ p1 = pipe[1]
  <2>1. CASE conn.source
    <3>1. p1 = (IF filter.sub THEN SourceFinalize(pipe[1]) ELSE pipe[1]) /\ g = FilterShutdown(filter)
      BY <2>1
    <3> HIDE DEF p1, g
    <3>2. QED BY <1>3, <2>1, <3>1, FilterShutdownKeeps
  <2>2. CASE ~conn.source
    <3>1. p1 = pipe[1] /\ g = filter
      BY <2>2
    <3> HIDE DEF p1, g
    <3>2. QED BY <1>1, <1>3, <2>2, <3>1 DEF Parts
  <2>3. QED BY <2>1, <2>2
<1>5. /\ c \in Connections /\ c.buffer = conn.buffer /\ ~c.source /\ ~c.sink /\ c.refs = 0
      /\ c.read_trap = NoTrap /\ c.write_trap = NoTrap
  BY <1>3, WithoutBothIs
<1> HIDE DEF p1, g, c
<1>6. pipe' \in [1..2 -> Pipes] /\ pipe'[1] = p1 /\ pipe'[2] = p2
  BY <1>1, <1>2, <1>4
<1>7. Linked(c, g)
  BY <1>4, <1>5 DEF Linked, NoTrap
<1>8. Len(p1.buffer) <= PipeSize[1]
  BY <1>4, Sizes, EmptySeq
<1>9. Parts'
  BY <1>1, <1>2, <1>4, <1>5, <1>6, <1>7, <1>8 DEF Parts, Sized
<1>10. Program' /\ Sent' = Sent
  BY <1>1, <1>2 DEF Program, programVars, Sent
<1>11. Arrived' = Arrived
  BY <1>2, <1>6 DEF Arrived, programVars
<1>12. ASSUME p2.connected PROVE Coming' = Coming
  <2>1. ~conn.sink /\ ~conn.source
    BY <1>2, <1>3, <1>12
  <2>2. g = filter /\ p1 = pipe[1] /\ c.buffer = conn.buffer
    BY <1>4, <1>5, <2>1
  <2>3. QED BY <1>2, <1>6, <2>2 DEF Coming
<1>13. InFlow'
  BY <1>1, <1>2, <1>5, <1>6, <1>10, <1>11, <1>12 DEF InFlow, Flows
<1>14. QED BY <1>6, <1>9, <1>10, <1>13, PartsMakeInv

LEMMA ConnectionShutdownKeeps ==
  ASSUME StreamInv, ConnectionShutdown
  PROVE  StreamInv'
<1> DEFINE p2 == IF conn.sink THEN SinkShutdown(pipe[2]) ELSE pipe[2]
<1>1. pipe[2] \in Pipes
  BY InvInParts DEF Parts
<1>2. p2 \in Pipes /\ p2.buffer = pipe[2].buffer /\ (p2.connected => pipe[2].connected /\ ~conn.sink)
  BY <1>1, ShutdownKeeps
<1>3. /\ pipe' = [pipe EXCEPT ![1] = IF conn.source /\ filter.sub THEN SourceFinalize(@) ELSE @,
                              ![2] = p2]
      /\ conn' = WithoutBoth(conn)
      /\ filter' = IF conn.source THEN FilterShutdown(filter) ELSE filter
      /\ broken' = TRUE /\ UNCHANGED programVars
  BY DEF ConnectionShutdown, WithoutBoth
<1> HIDE DEF p2
<1>4. Dropped(p2)
  BY <1>2, <1>3 DEF Dropped
<1>5. QED BY <1>4, DroppedKeeps

(* The connection's hook on its sink: it writes what it has. *)
LEMMA SinkWritableKeeps ==
  ASSUME StreamInv, conn.write_trap = 0, SinkWritable, UNCHANGED <<broken, programVars>>
  PROVE  StreamInv'
<1> DEFINE w == PipeWrite(pipe[2], 2, conn.buffer, FALSE)
           x == SubSeq(conn.buffer, 1, w.n)
           rest == SubSeq(conn.buffer, w.n + 1, Len(conn.buffer))
           unblocks == conn.read_trap = 1 /\ Len(rest) < MaxBuffer
           wt == IF rest = <<>> THEN 1 ELSE 0
           rt == IF unblocks THEN 0 ELSE conn.read_trap
           c == [conn EXCEPT !.buffer = rest, !.write_trap = wt, !.read_trap = rt]
           g == IF unblocks THEN SetPoll(filter, TRUE) ELSE filter
<1>1. pipe \in [1..2 -> Pipes] /\ Parts /\ Program /\ InFlow
  BY InvInParts
<1>2. /\ pipe[1] \in Pipes /\ pipe[2] \in Pipes /\ filter \in Filters /\ conn \in Connections
      /\ Len(pipe[2].buffer) <= PipeSize[2] /\ conn.buffer \in Octet /\ conn.sink
      /\ FilterRests(filter, pipe[1])
  BY <1>1, Buffers DEF Parts, Linked, NoTrap
<1>3. WriteGives(pipe[2], 2, conn.buffer, w) /\ (w.rv = "error" => ~pipe[2].connected)
  <2>1. \A looks \in BOOLEAN :
          /\ WriteGives(pipe[2], 2, conn.buffer, PipeWrite(pipe[2], 2, conn.buffer, looks))
          /\ PipeWrite(pipe[2], 2, conn.buffer, looks).rv = "error" /\ pipe[2].connected => looks
    BY <1>2, WriteKeeps
  <2>2. QED BY <2>1
<1>4. x \in Octet /\ rest \in Octet /\ x \o rest = conn.buffer /\ Len(rest) = Len(conn.buffer) - w.n
      /\ Len(conn.buffer) \in Nat
  <2>1. w.n \in 0..Len(conn.buffer)
    BY <1>3 DEF WriteGives
  <2> HIDE DEF w
  <2>2. QED BY <1>2, <2>1, Cut, Nothing
<1>5. w.n \in 0..Len(conn.buffer) /\ w.pipe \in Pipes /\ Len(w.pipe.buffer) <= PipeSize[2]
      /\ w.pipe.buffer = pipe[2].buffer \o x /\ w.pipe.connected = pipe[2].connected
  BY <1>3 DEF WriteGives
<1>6. \/ /\ w.rv # "error"
         /\ conn' = c /\ filter' = g /\ pipe' = [pipe EXCEPT ![2] = w.pipe]
      \/ /\ w.rv = "error"
         /\ conn' = WithoutBoth(conn)
         /\ IF conn.source THEN DropSource ELSE UNCHANGED <<filter, pipe>>
  BY DEF SinkWritable, WithoutBoth
<1> DEFINE l == Len(conn.buffer)
           n == Len(rest)
<1>7. l \in Nat /\ n \in Nat /\ n <= l
  <2> DEFINE k == w.n
  <2>1. k \in 0..l /\ n = l - k /\ l \in Nat
    BY <1>4, <1>5
  <2> HIDE DEF k, l, n
  <2>2. QED BY <2>1
<1> HIDE DEF w
<1>8. CASE w.rv = "error"
  <2>1. ~pipe[2].connected /\ broken = TRUE
    BY <1>1, <1>2, <1>3, <1>8 DEF InFlow, Flows, Program
  <2>2. /\ conn' = WithoutBoth(conn)
        /\ IF conn.source THEN DropSource ELSE UNCHANGED <<filter, pipe>>
    BY <1>6, <1>8
  <2>3. filter' = IF conn.source THEN FilterShutdown(filter) ELSE filter
    BY <2>2 DEF DropSource
  <2>4. pipe' = [pipe EXCEPT ![1] = IF conn.source /\ filter.sub THEN SourceFinalize(@) ELSE @,
                             ![2] = pipe[2]]
    <3>1. CASE conn.source
      BY <1>1, <2>2, <3>1 DEF DropSource
    <3>2. CASE ~conn.source
      BY <1>1, <2>2, <3>2
    <3>3. QED BY <3>1, <3>2
  <2>5. Dropped(pipe[2])
    BY <1>2, <2>1, <2>2, <2>3, <2>4 DEF Dropped
  <2>6. QED BY <2>5, DroppedKeeps
<1>9. CASE w.rv # "error"
  <2>1. pipe[2].connected
    BY <1>3, <1>9 DEF WriteGives
  <2>2. conn' = c /\ filter' = g /\ pipe' = [pipe EXCEPT ![2] = w.pipe]
    BY <1>6, <1>9
  <2> HIDE DEF rest, x
  <2>3. conn.read_trap \in Traps /\ (conn.source <=> conn.read_trap # NoTrap)
        /\ (conn.read_trap = 0 => Len(conn.buffer) < MaxBuffer)
    BY <1>1 DEF Parts, Linked, Connections
  <2>4. /\ wt \in Traps /\ rt \in Traps /\ wt # NoTrap /\ (rt # NoTrap <=> conn.read_trap # NoTrap)
        /\ rt = 0 => n < MaxBuffer
    <3>1. wt \in Traps /\ wt # NoTrap
      BY TrapsAndRefs DEF NoTrap
    <3>2. CASE unblocks
      BY <2>3, <3>1, <3>2, TrapsAndRefs DEF NoTrap
    <3>3. CASE ~unblocks
      <4>1. rt = conn.read_trap /\ (rt = 0 => l < MaxBuffer)
        BY <2>3, <3>3
      <4> HIDE DEF rt, wt, l, n
      <4>2. rt = 0 => n < MaxBuffer
        BY <1>7, <4>1, Sizes
      <4>3. QED BY <2>3, <3>1, <4>1, <4>2
    <3>4. QED BY <3>2, <3>3
  <2>5. /\ g \in Filters /\ FilterRests(g, pipe[1]) /\ g.held = filter.held /\ g.sub = filter.sub
    <3>1. CASE unblocks
      <4>1. g = SetPoll(filter, TRUE) /\ TRUE \in BOOLEAN
        BY <3>1
      <4>2. SetPoll(filter, TRUE).sub = filter.sub
        BY <1>2 DEF SetPoll, Filters
      <4> HIDE DEF g
      <4>3. QED BY <1>2, <4>1, <4>2, SetPollKeeps
    <3>2. CASE ~unblocks
      BY <1>2, <3>2
    <3>3. QED BY <3>1, <3>2
  <2> HIDE DEF wt, rt, g
  <2>6. c \in Connections /\ c.buffer = rest /\ c.write_trap = wt /\ c.read_trap = rt /\ c.refs = conn.refs
    BY <1>2, <1>4, <2>4 DEF Connections
  <2>7. c.source = conn.source /\ c.sink = conn.sink
    BY <1>2 DEF Connections
  <2> HIDE DEF c
  <2>8. Linked(c, g)
    <3>1. Linked(conn, filter)
      BY <1>1 DEF Parts
    <3>2. c.read_trap = 0 => Len(c.buffer) < MaxBuffer
      BY <2>4, <2>6
    <3>3. QED BY <1>2, <2>3, <2>4, <2>5, <2>6, <2>7, <3>1, <3>2 DEF Linked
  <2>9. Sized(c.buffer)
    <3>1. l < MaxBuffer + PipeSize[1] + Keep
      BY <1>1 DEF Parts, Sized
    <3> HIDE DEF l, n
    <3>2. n < MaxBuffer + PipeSize[1] + Keep
      BY <1>7, <3>1, Sizes
    <3>3. QED BY <2>6, <3>2 DEF Sized, n
  <2>10. pipe' \in [1..2 -> Pipes] /\ pipe'[1] = pipe[1] /\ pipe'[2] = w.pipe
    BY <1>1, <1>5, <2>2
  <2>11. Parts'
    BY <1>1, <1>5, <2>2, <2>5, <2>6, <2>8, <2>9, <2>10 DEF Parts
  <2>12. Program' /\ Sent' = Sent /\ Sent \in Octet
    BY <1>1, Buffers DEF Program, programVars, Sent
  <2>13. Arrived' \o Coming' = Arrived \o Coming /\ Arrived' \in Octet /\ Coming' \in Octet
    <3> DEFINE a == consumed
               b == pipe[2].buffer
               y == filter.held \o pipe[1].buffer
               bx == b \o x
               ab == a \o b
               ry == rest \o y
    <3>1. a \in Octet /\ b \in Octet /\ y \in Octet
      BY <1>1, Buffers
    <3>2. Arrived' = a \o bx /\ Coming' = ry /\ Arrived = ab /\ Coming = (x \o rest) \o y
      BY <1>4, <1>5, <2>2, <2>5, <2>6, <2>10 DEF Arrived, Coming, programVars
    <3> HIDE DEF a, b, y
    <3>3. bx \in Octet /\ ab \in Octet /\ ry \in Octet
      BY <1>4, <3>1, Joined
    <3>4. x \in Octet /\ rest \in Octet
      BY <1>4
    <3>5. a \o bx = ab \o x
      BY ONLY <3>1, <3>4, Regrouped, SMTT(40)
    <3>6. (x \o rest) \o y = x \o ry
      BY ONLY <3>1, <3>4, Regrouped, SMTT(40)
    <3> HIDE DEF ab, ry, bx
    <3>7. (ab \o x) \o ry = ab \o (x \o ry)
      BY ONLY <3>3, <3>4, Regrouped, SMTT(40)
    <3>8. a \o bx \in Octet
      BY <3>1, <3>3, Joined
    <3>9. QED BY <3>2, <3>3, <3>5, <3>6, <3>7, <3>8
  <2>14. IsPrefix(Arrived' \o Coming', Sent)
    BY <1>1, <2>1, <2>13 DEF InFlow, Flows
  <2>15. IsPrefix(Arrived', Sent)
    BY <2>12, <2>13, <2>14, PrefixOfPrefix
  <2>16. InFlow'
    BY <1>1, <1>5, <2>1, <2>2, <2>7, <2>10, <2>12, <2>13, <2>14, <2>15 DEF InFlow, Flows
  <2>17. QED BY <2>10, <2>11, <2>12, <2>16, PartsMakeInv
<1>10. QED BY <1>8, <1>9

-----------------------------------------------------------------------------
(* The program's steps. *)

LEMMA BufferLowKeeps ==
  ASSUME StreamInv, NEW i \in 1..2, NotifyBufferLow(i)
  PROVE  StreamInv'
<1>1. pipe \in [1..2 -> Pipes] /\ Parts /\ Program /\ InFlow
  BY InvInParts
<1>2. pipe' = [pipe EXCEPT ![i] = BufferLow(pipe[i])] /\ UNCHANGED <<filter, conn, broken, programVars>>
  BY DEF NotifyBufferLow
<1>3. /\ BufferLow(pipe[i]) \in Pipes /\ BufferLow(pipe[i]).buffer = pipe[i].buffer
      /\ BufferLow(pipe[i]).connected = pipe[i].connected
  BY <1>1 DEF BufferLow, Pipes
<1>4. /\ pipe' \in [1..2 -> Pipes]
      /\ pipe'[1].buffer = pipe[1].buffer /\ pipe'[1].connected = pipe[1].connected
      /\ pipe'[2].buffer = pipe[2].buffer /\ pipe'[2].connected = pipe[2].connected
      /\ pipe'[1] \in Pipes /\ pipe'[2] \in Pipes
  BY <1>1, <1>2, <1>3
<1>5. Parts'
  BY <1>1, <1>2, <1>4 DEF Parts, FilterRests
<1>6. Program' /\ Sent' = Sent /\ Arrived' = Arrived /\ Coming' = Coming
  BY <1>1, <1>2, <1>4 DEF Program, programVars, Sent, Arrived, Coming
<1>7. InFlow'
  BY <1>1, <1>2, <1>4, <1>6 DEF InFlow
<1>8. QED BY <1>4, <1>5, <1>6, <1>7, PartsMakeInv

(* What the producer writes is put at the end of both. *)
LEMMA SentGrows ==
  ASSUME NEW n \in Nat, NEW k \in 0..n, written \in Nat
  PROVE  /\ Octets(n) \in Octet /\ Len(Octets(n)) = n /\ SubSeq(Octets(n), 1, k) \in Octet
         /\ [i \in 1..(written + k) |-> i] = Sent \o SubSeq(Octets(n), 1, k)
<1> DEFINE t == SubSeq(Octets(n), 1, k)
           s == [i \in 1..(written + k) |-> i]
<1>1. Octets(n) \in Octet /\ Len(Octets(n)) = n
  BY DEF Octets, Octet
<1>2. t \in Octet /\ Len(t) = k
  BY <1>1, Cut
<1>3. \A i \in 1..k : t[i] = written + i
  <2>1. \A i \in 1..n : Octets(n)[i] = written + i /\ Octets(n)[i] \in Nat
    BY DEF Octets
  <2>2. 1 \in Int /\ k \in Int /\ \A i \in 1..k : Octets(n)[i] \in Nat
    BY <2>1
  <2>3. /\ SubSeq(Octets(n), 1, k) \in Seq(Nat)
        /\ Len(SubSeq(Octets(n), 1, k)) = IF 1 <= k THEN k - 1 + 1 ELSE 0
        /\ \A i \in 1..(k - 1 + 1) : SubSeq(Octets(n), 1, k)[i] = Octets(n)[1 + i - 1]
    BY <2>2, SubSeqProperties
  <2>4. QED BY <2>1, <2>3
<1>4. Sent \in Octet /\ Len(Sent) = written /\ \A i \in 1..written : Sent[i] = i
  BY SentIsASequence DEF Sent
<1>5. s \in Octet /\ Len(s) = written + k /\ \A i \in 1..(written + k) : s[i] = i
  <2>1. written + k \in Nat
    OBVIOUS
  <2>2. QED BY <2>1, SentIsASequence
<1> HIDE DEF t, s
<1>6. Sent \o t \in Octet /\ Len(Sent \o t) = written + k
  BY <1>2, <1>4, Joined
<1>7. \A i \in 1..(written + k) : (Sent \o t)[i] = IF i <= written THEN Sent[i] ELSE t[i - written]
  BY <1>2, <1>4, ConcatProperties DEF Octet
<1>8. \A i \in 1..(written + k) : (Sent \o t)[i] = i
  <2> TAKE i \in 1..(written + k)
  <2>1. CASE i <= written
    <3>1. i \in 1..written
      BY <2>1
    <3>2. (Sent \o t)[i] = Sent[i]
      BY <1>7, <2>1
    <3>3. QED BY <1>4, <3>1, <3>2
  <2>2. CASE ~(i <= written)
    <3>1. i - written \in 1..k /\ written + (i - written) = i
      BY <2>2
    <3>2. (Sent \o t)[i] = t[i - written]
      BY <1>7, <2>2
    <3>3. QED BY <1>3, <3>1, <3>2
  <2>3. QED BY <2>1, <2>2
<1>9. s = Sent \o t
  BY <1>5, <1>6, <1>8, SeqEqual DEF Octet
<1>10. QED BY <1>1, <1>2, <1>9 DEF t, s

LEMMA ProducerWritesKeeps ==
  ASSUME StreamInv, NEW n \in 1..(MaxWritten - written), ProducerWrites(n)
  PROVE  StreamInv'
<1> DEFINE w == PipeWrite(pipe[1], 1, Octets(n), TRUE)
           x == SubSeq(Octets(n), 1, w.n)
<1>1. pipe \in [1..2 -> Pipes] /\ Parts /\ Program /\ InFlow
  BY InvInParts
<1>2. pipe[1] \in Pipes /\ Len(pipe[1].buffer) <= PipeSize[1] /\ written \in Nat /\ n \in Nat
      /\ written + n <= MaxWritten
  BY <1>1, Sizes DEF Parts, Program
<1>3. Octets(n) \in Octet /\ Len(Octets(n)) = n
  <2>1. 0 \in 0..n
    BY <1>2
  <2>2. QED BY <1>2, <2>1, SentGrows
<1>4. WriteGives(pipe[1], 1, Octets(n), w)
  <2>1. \A looks \in BOOLEAN : WriteGives(pipe[1], 1, Octets(n), PipeWrite(pipe[1], 1, Octets(n), looks))
    BY <1>2, <1>3, WriteKeeps
  <2>2. QED BY <2>1
<1>5. /\ pipe' = [pipe EXCEPT ![1] = w.pipe] /\ written' = written + w.n
      /\ producer' = IF w.rv = "error" THEN [producer EXCEPT !.error = TRUE] ELSE producer
      /\ UNCHANGED <<filter, conn, consumer, broken, consumed>>
  BY DEF ProducerWrites
<1> HIDE DEF w
<1>6. /\ w.n \in 0..n /\ w.pipe \in Pipes /\ Len(w.pipe.buffer) <= PipeSize[1]
      /\ w.pipe.buffer = pipe[1].buffer \o x /\ w.pipe.connected = pipe[1].connected
      /\ ~pipe[1].connected => w.n = 0 /\ w.pipe = pipe[1]
  BY <1>3, <1>4 DEF WriteGives
<1>7. x \in Octet /\ Sent' = Sent \o x
  <2> DEFINE k == w.n
  <2>1. k \in 0..n /\ written' = written + k
    BY <1>5, <1>6
  <2> HIDE DEF k
  <2>2. /\ SubSeq(Octets(n), 1, k) \in Octet
        /\ [i \in 1..(written + k) |-> i] = Sent \o SubSeq(Octets(n), 1, k)
    BY <1>2, <2>1, SentGrows
  <2>3. Sent' = [i \in 1..(written + k) |-> i]
    BY <2>1 DEF Sent
  <2>4. QED BY <2>2, <2>3 DEF k
<1>8. pipe' \in [1..2 -> Pipes] /\ pipe'[1] = w.pipe /\ pipe'[2] = pipe[2]
  BY <1>1, <1>5, <1>6
<1>9. FilterRests(filter, w.pipe)
  BY <1>1, <1>6 DEF Parts, FilterRests
<1>10. Parts'
  BY <1>1, <1>5, <1>6, <1>8, <1>9 DEF Parts
<1>11. Program'
  <2>1. written' \in 0..MaxWritten
    <3> DEFINE k == w.n
    <3>1. k \in 0..n /\ written' = written + k
      BY <1>5, <1>6
    <3> HIDE DEF k
    <3>2. QED BY <1>2, <3>1, Sizes
  <2>2. producer' \in [open: BOOLEAN, error: BOOLEAN]
    BY <1>1, <1>5 DEF Program
  <2>3. QED BY <1>1, <1>5, <2>1, <2>2 DEF Program
<1>12. Arrived' = Arrived
  BY <1>5, <1>8 DEF Arrived
<1>13. Coming' = Coming \o x
  <2> DEFINE a == conn.buffer
             b == filter.held
             c == pipe[1].buffer
             bc == b \o c
             cx == c \o x
  <2>1. a \in Octet /\ b \in Octet /\ c \in Octet
    BY <1>1, Buffers
  <2>2. Coming' = a \o (b \o cx) /\ Coming = a \o bc
    BY <1>5, <1>6, <1>8 DEF Coming
  <2> HIDE DEF a, b, c, x
  <2>3. b \o cx = bc \o x
    BY ONLY <1>7, <2>1, Regrouped, SMTT(40)
  <2>4. bc \in Octet
    BY <2>1, Joined
  <2> HIDE DEF bc
  <2>5. (a \o bc) \o x = a \o (bc \o x)
    BY ONLY <1>7, <2>1, <2>4, Regrouped, SMTT(40)
  <2>6. QED BY <2>2, <2>3, <2>5
<1>14. Arrived \in Octet /\ Coming \in Octet /\ Sent \in Octet /\ Arrived \o Coming \in Octet
  BY <1>1, Buffers, Joined
<1> HIDE DEF x
<1>15. Arrived' \o Coming' = (Arrived \o Coming) \o x
  <2>1. (Arrived \o Coming) \o x = Arrived \o (Coming \o x)
    BY ONLY <1>7, <1>14, Regrouped, SMTT(40)
  <2>2. QED BY <1>12, <1>13, <2>1
<1>16. IsPrefix(Arrived', Sent')
  <2>1. IsPrefix(Arrived, Sent)
    BY <1>1 DEF InFlow, Flows
  <2>2. QED BY <1>7, <1>12, <1>14, <2>1, PrefixOfLonger
<1>17. CASE pipe[1].connected
  <2>1. conn.source
    BY <1>1, <1>17 DEF Parts, Linked, FilterRests
  <2>2. pipe[2].connected => ~broken
    BY <1>1, <2>1 DEF InFlow, Flows, Program
  <2>3. ~broken => Arrived' \o Coming' = Sent'
    BY <1>1, <1>7, <1>15 DEF InFlow, Flows
  <2>4. pipe[2].connected => IsPrefix(Arrived' \o Coming', Sent')
    <3>1. Sent' \in Octet
      BY <1>7, <1>14, Joined
    <3>2. QED BY <2>2, <2>3, <3>1, ItsOwnPrefix
  <2>5. InFlow'
    BY <1>1, <1>5, <1>8, <1>16, <2>3, <2>4 DEF InFlow, Flows
  <2>6. QED BY <1>8, <1>10, <1>11, <2>5, PartsMakeInv
<1>18. CASE ~pipe[1].connected
  <2>1. written' = written
    BY <1>2, <1>5, <1>6, <1>18
  <2>2. Sent' = Sent
    BY <2>1 DEF Sent
  <2>3. pipe'[1] = pipe[1]
    BY <1>6, <1>8, <1>18
  <2>4. Coming' = Coming
    BY <1>5, <2>3 DEF Coming
  <2>5. InFlow'
    BY <1>1, <1>5, <1>8, <1>12, <2>2, <2>4 DEF InFlow
  <2>6. QED BY <1>8, <1>10, <1>11, <2>5, PartsMakeInv
<1>19. QED BY <1>17, <1>18

LEMMA ShutDownSinkKeeps ==
  ASSUME StreamInv, ShutDownSink
  PROVE  StreamInv'
<1>1. pipe \in [1..2 -> Pipes] /\ Parts /\ Program /\ InFlow
  BY InvInParts
<1>2. /\ pipe' = [pipe EXCEPT ![1] = SinkShutdown(pipe[1])]
      /\ producer' = [producer EXCEPT !.open = FALSE]
      /\ UNCHANGED <<filter, conn, consumer, broken, written, consumed>>
  BY DEF ShutDownSink
<1>3. /\ SinkShutdown(pipe[1]) \in Pipes /\ ~SinkShutdown(pipe[1]).connected
      /\ SinkShutdown(pipe[1]).buffer = pipe[1].buffer
  BY <1>1, ShutdownKeeps DEF Parts
<1>4. /\ pipe' \in [1..2 -> Pipes] /\ pipe'[2] = pipe[2]
      /\ pipe'[1] \in Pipes /\ pipe'[1].buffer = pipe[1].buffer /\ ~pipe'[1].connected
  BY <1>1, <1>2, <1>3
<1>5. Parts'
  BY <1>1, <1>2, <1>4 DEF Parts, FilterRests
<1>6. Program'
  BY <1>1, <1>2 DEF Program
<1>7. Sent' = Sent /\ Arrived' = Arrived /\ Coming' = Coming
  BY <1>2, <1>4 DEF Sent, Arrived, Coming
<1>8. InFlow'
  BY <1>1, <1>2, <1>4, <1>7 DEF InFlow
<1>9. QED BY <1>4, <1>5, <1>6, <1>8, PartsMakeInv

(* The consumer reads one octet, or all, from the last pipe. *)
LEMMA ConsumeKeeps ==
  ASSUME StreamInv, Consume
  PROVE  StreamInv'
<1>1. pipe \in [1..2 -> Pipes] /\ Parts /\ Program /\ InFlow
  BY InvInParts
<1>2. PICK r \in {PipeReadBuffer(pipe[2]), PipeRead(pipe[2], 1)} :
        /\ pipe' = [pipe EXCEPT ![2] = r.pipe]
        /\ consumed' = consumed \o r.data
        /\ consumer' = IF r.rv = "eof" THEN [consumer EXCEPT !.eof = TRUE, !.reads = FALSE]
                       ELSE consumer
  BY DEF Consume
<1>3. UNCHANGED <<filter, conn, producer, broken, written>>
  BY DEF Consume
<1>4. /\ consumed \in Octet /\ pipe[2].buffer \in Octet /\ pipe[2] \in Pipes
      /\ Len(pipe[2].buffer) <= PipeSize[2]
  BY <1>1, Buffers DEF Parts
<1>5. /\ r.pipe \in Pipes /\ r.data \in Octet /\ Len(r.pipe.buffer) <= PipeSize[2]
      /\ r.data \o r.pipe.buffer = pipe[2].buffer
      /\ r.pipe.connected = pipe[2].connected
  <2>1. CASE r = PipeReadBuffer(pipe[2])
    <3>1. /\ r.pipe \in Pipes /\ r.data = pipe[2].buffer /\ r.pipe.buffer = <<>>
          /\ r.pipe.connected = pipe[2].connected
      BY <1>4, <2>1, ReadBufferKeeps
    <3>2. Len(r.pipe.buffer) <= PipeSize[2] /\ r.data \o r.pipe.buffer = pipe[2].buffer
      BY <1>4, <3>1, Nothing, Sizes
    <3>3. QED BY <1>4, <3>1, <3>2
  <2>2. CASE r = PipeRead(pipe[2], 1)
    <3>1. /\ r.pipe \in Pipes /\ r.data \in Octet /\ Len(r.pipe.buffer) <= Len(pipe[2].buffer)
          /\ r.data \o r.pipe.buffer = pipe[2].buffer
          /\ r.pipe.connected = pipe[2].connected
      BY <1>4, <2>2, ReadKeeps
    <3>2. Len(r.pipe.buffer) <= PipeSize[2]
      <4> DEFINE l == Len(r.pipe.buffer)
                 n == Len(pipe[2].buffer)
      <4>1. l \in Nat /\ n \in Nat /\ l <= n /\ n <= PipeSize[2]
        <5>1. r.pipe.buffer \in Octet
          BY <3>1 DEF Pipes
        <5>2. QED BY <1>4, <3>1, <5>1, Nothing
      <4> HIDE DEF l, n
      <4>2. l <= PipeSize[2]
        BY <4>1, Sizes
      <4>3. QED BY <4>2 DEF l
    <3>3. QED BY <3>1, <3>2
  <2>3. QED BY <2>1, <2>2
<1>6. pipe' \in [1..2 -> Pipes] /\ pipe'[1] = pipe[1] /\ pipe'[2] = r.pipe
  BY <1>1, <1>2, <1>5
<1>7. Parts'
  BY <1>1, <1>3, <1>5, <1>6 DEF Parts
<1>8. Arrived' = Arrived /\ consumed' \in Octet
  <2> DEFINE a == consumed
             b == r.data
             c == r.pipe.buffer
  <2>1. a \in Octet /\ b \in Octet /\ c \in Octet
    BY <1>4, <1>5 DEF Pipes
  <2>2. Arrived' = (a \o b) \o c /\ Arrived = a \o (b \o c) /\ consumed' = a \o b
    BY <1>2, <1>5, <1>6 DEF Arrived
  <2> HIDE DEF a, b, c
  <2>3. (a \o b) \o c = a \o (b \o c)
    BY <2>1, Regrouped, SMTT(40)
  <2>4. QED BY <2>1, <2>2, <2>3, Joined
<1>9. Program'
  <2>1. consumer' \in [open: BOOLEAN, reads: BOOLEAN, eof: BOOLEAN]
    BY <1>1, <1>2 DEF Program
  <2>2. QED BY <1>1, <1>3, <1>8, <2>1 DEF Program
<1>10. Sent' = Sent /\ Coming' = Coming
  BY <1>3, <1>6 DEF Sent, Coming
<1>11. InFlow'
  BY <1>1, <1>3, <1>5, <1>6, <1>8, <1>10 DEF InFlow
<1>12. QED BY <1>6, <1>7, <1>9, <1>11, PartsMakeInv

LEMMA ShutDownSourceKeeps ==
  ASSUME StreamInv, ShutDownSource
  PROVE  StreamInv'
<1>1. pipe \in [1..2 -> Pipes] /\ Parts /\ Program /\ InFlow
  BY InvInParts
<1>2. /\ pipe' = [pipe EXCEPT ![2].got_shutdown = TRUE]
      /\ consumer' = [consumer EXCEPT !.reads = FALSE]
      /\ UNCHANGED <<filter, conn, producer, broken, written, consumed>>
  BY DEF ShutDownSource
<1>3. /\ pipe' \in [1..2 -> Pipes] /\ pipe'[1] = pipe[1]
      /\ pipe'[2] \in Pipes /\ pipe'[2].buffer = pipe[2].buffer
      /\ pipe'[2].connected = pipe[2].connected
  <2> DEFINE q == [pipe[2] EXCEPT !.got_shutdown = TRUE]
  <2>1. pipe[2] \in Pipes
    BY <1>1
  <2>2. q \in Pipes /\ q.buffer = pipe[2].buffer /\ q.connected = pipe[2].connected
    BY <2>1 DEF Pipes
  <2>3. pipe' = [pipe EXCEPT ![2] = q]
    BY <1>2
  <2> HIDE DEF q
  <2>4. QED BY <1>1, <2>2, <2>3
<1>4. Parts'
  BY <1>1, <1>2, <1>3 DEF Parts
<1>5. Program'
  BY <1>1, <1>2 DEF Program
<1>6. Sent' = Sent /\ Arrived' = Arrived /\ Coming' = Coming
  BY <1>2, <1>3 DEF Sent, Arrived, Coming
<1>7. InFlow'
  BY <1>1, <1>2, <1>3, <1>6 DEF InFlow
<1>8. QED BY <1>3, <1>4, <1>5, <1>7, PartsMakeInv

(* The consumer lets go: what was on its way is lost with the last pipe. *)
LEMMA DropLastSourceKeeps ==
  ASSUME StreamInv, DropLastSource
  PROVE  StreamInv'
<1>1. pipe \in [1..2 -> Pipes] /\ Parts /\ Program /\ InFlow
  BY InvInParts
<1>2. /\ pipe' = [pipe EXCEPT ![2] = SourceFinalize(pipe[2])]
      /\ consumer' = [consumer EXCEPT !.open = FALSE, !.reads = FALSE]
      /\ broken' = TRUE
      /\ UNCHANGED <<filter, conn, producer, written, consumed>>
  BY DEF DropLastSource
<1>3. /\ SourceFinalize(pipe[2]) \in Pipes /\ ~SourceFinalize(pipe[2]).connected
      /\ SourceFinalize(pipe[2]).buffer = <<>>
  BY <1>1, FinalizeKeeps DEF Parts
<1>4. /\ pipe' \in [1..2 -> Pipes] /\ pipe'[1] = pipe[1]
      /\ pipe'[2] \in Pipes /\ pipe'[2].buffer = <<>> /\ ~pipe'[2].connected
  BY <1>1, <1>2, <1>3
<1>5. Parts'
  <2>1. Len(pipe'[2].buffer) <= PipeSize[2]
    BY <1>4, Sizes, EmptySeq
  <2>2. QED BY <1>1, <1>2, <1>4, <2>1 DEF Parts
<1>6. Program'
  BY <1>1, <1>2 DEF Program
<1>7. /\ consumed \in Octet /\ pipe[2].buffer \in Octet /\ Sent \in Octet
  BY <1>1, Buffers
<1>8. IsPrefix(Arrived', Sent')
  <2> DEFINE b == pipe[2].buffer
  <2>1. IsPrefix(consumed \o b, Sent) /\ b \in Octet
    BY <1>1, <1>7 DEF InFlow, Flows, Arrived
  <2> HIDE DEF b
  <2>2. IsPrefix(consumed, Sent)
    BY <1>7, <2>1, PrefixOfPrefix
  <2>3. Arrived' = consumed /\ Sent' = Sent
    BY <1>2, <1>4, <1>7, Nothing DEF Arrived, Sent
  <2>4. QED BY <2>2, <2>3
<1>9. InFlow'
  BY <1>2, <1>4, <1>8 DEF InFlow, Flows
<1>10. QED BY <1>4, <1>5, <1>6, <1>9, PartsMakeInv

LEMMA CrashKeeps ==
  ASSUME StreamInv, ConnectionDisconnect
  PROVE  StreamInv'
<1>1. pipe \in [1..2 -> Pipes] /\ Parts /\ Program /\ InFlow
  BY InvInParts
<1>2. conn' = [conn EXCEPT !.crashed = TRUE] /\ UNCHANGED <<pipe, filter, broken, programVars>>
  BY DEF ConnectionDisconnect
<1>3. conn \in Connections
  BY <1>1 DEF Parts
<1>4. /\ conn' \in Connections /\ conn'.buffer = conn.buffer
      /\ conn'.read_trap = conn.read_trap /\ conn'.write_trap = conn.write_trap
      /\ conn'.refs = conn.refs
  BY <1>2, <1>3 DEF Connections
<1>5. conn'.source = conn.source /\ conn'.sink = conn.sink
  BY <1>2, <1>3 DEF Connections
<1>6. Linked(conn', filter')
  <2>1. Linked(conn, filter)
    BY <1>1 DEF Parts
  <2>2. QED BY <1>2, <1>4, <1>5, <2>1 DEF Linked
<1>7. Parts'
  BY <1>1, <1>2, <1>4, <1>6 DEF Parts
<1>8. Program' /\ Sent' = Sent /\ Arrived' = Arrived /\ Coming' = Coming
  BY <1>1, <1>2, <1>4 DEF Program, programVars, Sent, Arrived, Coming
<1>9. InFlow'
  BY <1>1, <1>2, <1>5, <1>8 DEF InFlow, Flows
<1>10. QED BY <1>1, <1>2, <1>7, <1>8, <1>9, PartsMakeInv

-----------------------------------------------------------------------------

(* One step of any of the actions. *)
LEMMA StepsKeepInv == StreamInv /\ [Next]_vars => StreamInv'
<1> SUFFICES ASSUME StreamInv, [Next]_vars PROVE StreamInv'
  OBVIOUS
<1>1. CASE NotifySource
  <2>1. PICK ok \in BOOLEAN : SourceReadable(ok)
    BY <1>1 DEF NotifySource
  <2>2. conn.read_trap = 0 /\ UNCHANGED programVars
    BY <1>1 DEF NotifySource
  <2>3. QED BY <2>1, <2>2, SourceReadableKeeps
<1>2. CASE NotifyFilter
  <2>1. PICK ok \in BOOLEAN : SourceReadable(ok)
    BY <1>2 DEF NotifyFilter
  <2>2. conn.read_trap = 0 /\ UNCHANGED programVars
    BY <1>2 DEF NotifyFilter
  <2>3. QED BY <2>1, <2>2, SourceReadableKeeps
<1>3. CASE NotifySink
  <2>1. conn.write_trap = 0 /\ SinkWritable /\ UNCHANGED <<broken, programVars>>
    BY <1>3 DEF NotifySink
  <2>2. QED BY <2>1, SinkWritableKeeps
<1>4. CASE \E i \in 1..2 : NotifyBufferLow(i)
  BY <1>4, BufferLowKeeps
<1>5. CASE Consume
  BY <1>5, ConsumeKeeps
<1>6. CASE Write
  <2>1. PICK n \in 1..(MaxWritten - written) : ProducerWrites(n)
    BY <1>6 DEF Write
  <2>2. QED BY <2>1, ProducerWritesKeeps
<1>7. CASE ShutDownSink
  BY <1>7, ShutDownSinkKeeps
<1>8. CASE ShutDownSource
  BY <1>8, ShutDownSourceKeeps
<1>9. CASE DropLastSource
  BY <1>9, DropLastSourceKeeps
<1>10. CASE ConnectionShutdown
  BY <1>10, ConnectionShutdownKeeps
<1>11. CASE ConnectionDisconnect
  BY <1>11, CrashKeeps
<1>12. CASE UNCHANGED vars
  <2>1. UNCHANGED <<pipe, filter, conn, producer, consumer, broken, written, consumed>>
    BY <1>12 DEF vars
  <2>2. QED BY <2>1 DEF StreamInv, Arrived, Coming, Sent
<1>13. QED
  BY <1>1, <1>2, <1>3, <1>4, <1>5, <1>6, <1>7, <1>8, <1>9, <1>10, <1>11, <1>12 DEF Next, Idle

(* NothingLost holds in every reachable state: what the consumer has read *)
(* is the beginning of what was written, until a failure the rest is in the *)
(* buffers in its order, and no buffer holds more than its bound. *)
THEOREM NothingEverLost == Spec => []NothingLost
<1>1. Spec => []StreamInv
  BY InitHolds, StepsKeepInv, PTL DEF Spec
<1>2. QED BY <1>1, InvGivesNothingLost, PTL
=============================================================================
