------------------------------- MODULE DskFeeds -------------------------------
(***************************************************************************)
(* What else is fed a document in pieces: the checksums (dsk-checksum.c)    *)
(* and the decoder of multipart MIME messages (dsk-mime-multipart.c). They  *)
(* have the shape of a filter: feed is its process, done its finish.        *)
(*                                                                         *)
(* A block that a hash has processed is an element of its state h, so that  *)
(* two digests are equal when the same blocks made them. The arithmetic of  *)
(* the rounds is left out.                                                  *)
(***************************************************************************)
EXTENDS DskFilters, Bitwise

CONSTANTS BlockSize,    \* the bytes of a block, 64
          WordBits      \* the bits of an unsigned int, 32

Word == 2 ^ WordBits
CountSize == WordBits \div 4            \* the bytes of the count of bits: two words
Stop80 == 128                           \* 0x80, that ends the message
Zeros(n) == [i \in 1..n |-> 0]
Padding == <<Stop80>> \o Zeros(BlockSize - 1)
BigEndian(x) == [i \in 1..CountSize |-> (x \div 256 ^ (CountSize - i)) % 256]

(* The blocks of whole, and what is left.                                   *)
Blocks(bytes) ==
  [i \in 1..(Len(bytes) \div BlockSize) |->
     SubSeq(bytes, (i - 1) * BlockSize + 1, i * BlockSize)]
Rest(bytes) == SubSeq(bytes, Len(bytes) - (Len(bytes) % BlockSize) + 1, Len(bytes))

Md5Calc(h, block) == Append(h, block)
Sha1Step(h, block) == Append(h, block)
Sha256Process64(h, block) == Append(h, block)

-----------------------------------------------------------------------------
(* MD5. c: [h, buf, n], the n bits counted so far, buf the first md5_i      *)
(* bytes of md5_buf.                                                        *)
Md5Init == [h |-> <<>>, buf |-> <<>>, n |-> 0]

Md5Loop(c, input) ==
  LET gap == BlockSize - Len(c.buf)
      first == Md5Calc(c.h, c.buf \o SubSeq(input, 1, gap))
      later == SubSeq(input, gap + 1, Len(input))
      n == (c.n + ((Len(input) * 8) % Word)) % 2 ^ (2 * WordBits)    \* length is unsigned
  IN IF Len(input) >= gap
     THEN [h |-> FoldLeft(Md5Calc, first, Blocks(later)), buf |-> Rest(later), n |-> n]
     ELSE [c EXCEPT !.buf = @ \o input, !.n = n]

Md5Pad(c) ==
  LET gap == BlockSize - Len(c.buf)
      full == c.buf \o SubSeq(Padding, 1, gap)
  IN IF gap > CountSize
     THEN Md5Calc(c.h, c.buf \o SubSeq(Padding, 1, gap - CountSize) \o Reverse(BigEndian(c.n)))
     ELSE Md5Calc(Md5Calc(c.h, full),
                  Zeros(BlockSize - CountSize) \o Reverse(BigEndian(c.n)))

(* SHA-1. m is the first COUNT bytes of the block.                          *)
Sha1Init == [h |-> <<>>, m |-> <<>>, c |-> 0]

Sha1Taken(x, input) ==                  \* a turn of the loop
  LET m == x.m \o input
      c == (x.c + Len(input) * 8) % 2 ^ (2 * WordBits)
  IN IF Len(m) = BlockSize THEN [h |-> Sha1Step(x.h, m), m |-> <<>>, c |-> c]
     ELSE [x EXCEPT !.m = m, !.c = c]
RECURSIVE Sha1Loop(_, _)
Sha1Loop(x, input) ==
  LET gap == BlockSize - Len(x.m)
  IN IF input = <<>> THEN x
     ELSE IF gap < Len(input)
     THEN Sha1Loop(Sha1Taken(x, SubSeq(input, 1, gap)), SubSeq(input, gap + 1, Len(input)))
     ELSE Sha1Taken(x, input)

PutPad(x, byte) == [Sha1Taken(x, <<byte>>) EXCEPT !.c = x.c]
Sha1Pad(x) ==
  LET ended == PutPad(x, Stop80)
      left == BlockSize - Len(ended.m)
      room == IF left >= CountSize THEN ended
              ELSE [ended EXCEPT !.h = Sha1Step(@, ended.m \o Zeros(left)), !.m = <<>>]
      filled == [room EXCEPT !.m = @ \o Zeros(BlockSize - Len(@) - CountSize)]
  IN FoldLeft(PutPad, filled, BigEndian(x.c)).h

(* SHA-256. total: the bytes fed so far, low word and high word; buffer its *)
(* part that is in use.                                                     *)
Sha256Init == [state |-> <<>>, total |-> <<0, 0>>, buffer |-> <<>>]

Sha256Feed(x, input) ==
  LET low == (x.total[1] + Len(input)) % Word
      total == <<low, IF low < Len(input) THEN (x.total[2] + 1) % Word ELSE x.total[2]>>
      fill == BlockSize - Len(x.buffer)
      fills == x.buffer # <<>> /\ Len(input) >= fill
      state == IF fills THEN Sha256Process64(x.state, x.buffer \o SubSeq(input, 1, fill))
               ELSE x.state
      left == IF fills THEN <<>> ELSE x.buffer
      rest == IF fills THEN SubSeq(input, fill + 1, Len(input)) ELSE input
  IN IF input = <<>> THEN x
     ELSE [state |-> FoldLeft(Sha256Process64, state, Blocks(rest)),
           total |-> total, buffer |-> left \o Rest(rest)]

Sha256Done(x) ==
  LET bits == 2 ^ (WordBits - 3)
      high == (x.total[1] \div bits + x.total[2] * 8) % Word
      low == (x.total[1] * 8) % Word
      last == x.total[1] % BlockSize
      padn == IF last < BlockSize - CountSize THEN BlockSize - CountSize - last
              ELSE 2 * BlockSize - CountSize - last
  IN Sha256Feed(Sha256Feed(x, SubSeq(Padding \o Zeros(BlockSize), 1, padn)),
                BigEndian(high * Word + low)).state

(* CRC, of 16 bits instead of 32. The table holds what eight shifts of a    *)
(* byte through the polynomial come to.                                     *)
Polynomial == 40961                     \* 0xa001 for 0xedb88320
RECURSIVE Shifted(_, _)
Shifted(n, v) ==
  IF n = 0 THEN v
  ELSE Shifted(n - 1, IF v % 2 = 1 THEN Polynomial ^^ (v \div 2) ELSE v \div 2)
Crc32Table == [v \in 0..255 |-> Shifted(8, v)]
Crc32Byte(val, s) == Crc32Table[(val ^^ s) % 256] ^^ (val \div 256)
Crc32(val, bytes) == FoldLeft(Crc32Byte, val, bytes)
(* The bytes of the value, on a machine that stores the low one first.      *)
CrcBytes(val, swap) ==
  LET stored == <<val % 256, val \div 256>> IN IF swap THEN Reverse(stored) ELSE stored

-----------------------------------------------------------------------------
(* The multipart decoder. Header lines are elements of the input, beyond    *)
(* the bytes: a field and the value it is given.                            *)
KEY == 0
CONTENT_TYPE == 1
LOCATION == 2
DESCRIPTION == 3
ENCODING == 4                           \* values: the transfer decoders
OTHER_FIELD == 5                        \* no field the decoder knows
Header(field, value) == 256 + 4 * field + value
IsHeader(c) == c >= 256
FieldOf(c) == (c - 256) \div 4
ValueOf(c) == (c - 256) % 4
Decoders == <<"identity", "unquote_printable", "base64_decoder">>
HYPHEN == 45
NewLine(bytes) == SelectInSeq(bytes, LAMBDA c: c = LF)     \* 0: there is none

(* f.opt is the boundary. piece: the fields of the part; a field that is    *)
(* not set again for the next part is Stale, a pointer into storage that    *)
(* has been given back.                                                     *)
None == -1
Stale == -2
NewMultipart == [state |-> "WAITING_FOR_FIRST_SEP_LINE", incoming |-> <<>>,
                 piece |-> [i \in KEY..DESCRIPTION |-> None],
                 decoder |-> Filter("none", {}, 0), body |-> <<>>]

(* A turn of the machine: what is there now, and whether to go on.          *)
Turn(st, out, go) == [st |-> st, out |-> out, go |-> go]
Again(st) == Turn(st, <<>>, "again")
Wait(st) == Turn(st, <<>>, "ok")
Fail(st) == Turn(st, <<>>, "error")
Discard(st, n) == [st EXCEPT !.incoming = SubSeq(@, n + 1, Len(@))]
IsBoundary(boundary, bytes) == IsPrefix(<<HYPHEN, HYPHEN>> \o boundary, bytes)

WaitForFirstSepLine(boundary, st) ==
  LET nl == NewLine(st.incoming) - 1
      fits == nl \in Len(boundary) + 2..Len(boundary) + 5
      after == Len(boundary) + 3
      rest == Discard(st, nl + 1)
  IN CASE nl < 0 -> Wait(st)
       [] ~fits \/ ~IsBoundary(boundary, st.incoming) -> Again(rest)
       [] IsSpace(st.incoming[after]) -> Again([rest EXCEPT !.state = "READING_HEADER"])
       [] st.incoming[after + 1] = HYPHEN -> Wait([rest EXCEPT !.state = "ENDED"])
       [] OTHER -> Again(Discard(rest, nl + 1))             \* and the line after it

ProcessHeaderLine(st, line) ==
  LET c == line[1]
  IN IF Len(line) # 1 \/ ~IsHeader(c) \/ FieldOf(c) = OTHER_FIELD THEN Fail(st)
     ELSE IF FieldOf(c) # ENCODING THEN Again([st EXCEPT !.piece[FieldOf(c)] = ValueOf(c)])
     ELSE IF ValueOf(c) + 1 \notin DOMAIN Decoders THEN Fail([st EXCEPT !.decoder = Filter("none", {}, 0)])
     ELSE Again([st EXCEPT !.decoder = New(Decoders[ValueOf(c) + 1], {})])

DoneWithHeader(st) ==
  [st EXCEPT !.state = "CONTENT_LINE_START",
             !.decoder = IF @.kind = "none" THEN New("identity", {}) ELSE @]

ReadHeader(st) ==
  LET nl == NewLine(st.incoming) - 1
      n == IF nl > 0 /\ st.incoming[nl] = CR THEN nl - 1 ELSE nl
      rest == Discard(st, nl + 1)
  IN CASE nl < 0 -> Wait(st)
       [] n = 0 -> Again(DoneWithHeader(rest))
       [] OTHER -> ProcessHeaderLine(rest, SubSeq(st.incoming, 1, n))

(* A part is over. Neither its fields nor its transfer decoder are reset.   *)
DoneWithContentBody(st, state) ==
  LET t == Finish(st.decoder)
      part == [fields |-> st.piece, value |-> st.body \o t.out]
  IN IF t.end # "ok" THEN Fail(st)
     ELSE Turn([st EXCEPT !.state = state, !.body = <<>>,
                          !.piece = [i \in KEY..DESCRIPTION |->
                                       IF @[i] = None THEN None ELSE Stale]],
               <<part>>, IF state = "ENDED" THEN "ok" ELSE "again")

(* bytes go through the transfer decoder into the body.                     *)
Decoded(st, bytes) ==
  LET r == ProcessBuffer(st.decoder, <<>>, bytes)
  IN [st |-> [st EXCEPT !.decoder = r.filter, !.body = @ \o r.out], ok |-> r.end = "ok"]

(* What is known not to be a boundary is content, but for a CR that may be  *)
(* the end of its line.                                                     *)
AmountOf(incoming, nl) ==
  IF nl < 0 THEN IF incoming # <<>> /\ Last(incoming) = CR THEN Len(incoming) - 1
                 ELSE Len(incoming)
  ELSE IF nl > 0 /\ incoming[nl] = CR THEN nl - 1 ELSE nl + 1
Content(st, nl) ==
  LET crlf == Decoded(st, <<CR, LF>>)
      pending == IF st.state = "CONTENT_LINE_START_CRLF" THEN crlf ELSE [st |-> st, ok |-> TRUE]
      amount == AmountOf(st.incoming, nl)
      fed == Decoded(pending.st, SubSeq(st.incoming, 1, amount))
      crlf_pending == nl > 0 /\ amount = nl - 1
      rest == Discard(fed.st, IF crlf_pending THEN amount + 2 ELSE amount)
  IN IF ~pending.ok THEN Fail(pending.st)
     ELSE IF ~fed.ok THEN Fail(fed.st)
     ELSE IF nl < 0 THEN Wait([rest EXCEPT !.state = "CONTENT_MIDLINE"])
     ELSE Again([rest EXCEPT !.state = IF crlf_pending THEN "CONTENT_LINE_START_CRLF"
                                       ELSE "CONTENT_LINE_START"])

ReadContent(boundary, st) ==
  LET nl == NewLine(st.incoming) - 1
      starts == st.state # "CONTENT_MIDLINE"
      after == Len(boundary) + 3
      marks == /\ starts /\ nl \in Len(boundary) + 2..Len(boundary) + 5
               /\ IsBoundary(boundary, st.incoming)
      rest == Discard(st, nl + 1)
  IN CASE starts /\ nl < 0 /\ Len(st.incoming) < Len(boundary) + 6 -> Wait(st)
       [] marks /\ st.incoming[after] = HYPHEN /\ st.incoming[after + 1] = HYPHEN ->
            DoneWithContentBody(rest, "ENDED")
       [] marks /\ IsSpace(st.incoming[after]) -> DoneWithContentBody(rest, "READING_HEADER")
       [] OTHER -> Content(st, nl)

MultipartTurn(boundary, st) ==
  CASE st.state = "WAITING_FOR_FIRST_SEP_LINE" -> WaitForFirstSepLine(boundary, st)
    [] st.state = "READING_HEADER" -> ReadHeader(st)
    [] OTHER -> ReadContent(boundary, st)

RECURSIVE MultipartTurns(_, _, _)
MultipartTurns(f, out, turn) ==
  IF turn.go # "again"
  THEN [filter |-> [f EXCEPT !.st = turn.st], out |-> out \o turn.out, end |-> turn.go]
  ELSE MultipartTurns(f, out \o turn.out, MultipartTurn(f.opt, turn.st))
MultipartFeed(f, data) ==
  LET st == [f.st EXCEPT !.incoming = @ \o data]
  IN MultipartTurns(f, <<>>, IF st.state = "ENDED" THEN Fail(st) ELSE Again(st))

-----------------------------------------------------------------------------
(* The constructors, feed and done.                                         *)
Hashes == {"md5", "sha1", "sha256"}
Crcs == {"crc32", "crc32_swapped"}
Checksums == Hashes \cup Crcs

NewFeed(kind, opt) ==
  Filter(kind, opt, CASE kind = "md5" -> Md5Init [] kind = "sha1" -> Sha1Init
                      [] kind = "sha256" -> Sha256Init [] kind \in Crcs -> 0
                      [] OTHER -> NewMultipart)

ChecksumFed(f, data) ==
  CASE f.kind = "md5" -> Md5Loop(f.st, data) [] f.kind = "sha1" -> Sha1Loop(f.st, data)
    [] f.kind = "sha256" -> Sha256Feed(f.st, data) [] OTHER -> Crc32(f.st, data)
FeedMore(f, data) ==
  IF f.kind \in Checksums
  THEN [filter |-> [f EXCEPT !.st = ChecksumFed(f, data)], out |-> <<>>, end |-> "ok"]
  ELSE MultipartFeed(f, data)

ChecksumDone(f) ==
  CASE f.kind = "md5" -> Md5Pad(f.st) [] f.kind = "sha1" -> Sha1Pad(f.st)
    [] f.kind = "sha256" -> Sha256Done(f.st)
    [] OTHER -> CrcBytes(f.st, f.kind = "crc32_swapped")
FeedDone(f) ==
  IF f.kind \in Checksums THEN [filter |-> f, out |-> ChecksumDone(f), end |-> "ok"]
  ELSE [filter |-> f, out |-> <<>>, end |-> IF f.st.state = "ENDED" THEN "ok" ELSE "error"]

=============================================================================
