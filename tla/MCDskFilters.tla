----------------------------- MODULE MCDskFilters -----------------------------
(***************************************************************************)
(* One filter, or chain of filters, a checksum, or the decoder of multipart *)
(* messages is fed a document in pieces of any lengths, as it comes from a  *)
(* socket, and finished.                                                    *)
(***************************************************************************)
EXTENDS DskFeeds, FiniteSets

CONSTANTS MaxLength,    \* bound: bytes of a document for a filter
          Careful       \* leave out what the code gets wrong

VARIABLES subject,      \* what is tried, an element of Subjects
          source,       \* what doc is the encoded form of, or doc
          doc,          \* the document
          fed,          \* how much of it has been fed
          m             \* [chain, out, end]: the filters and their output

vars == <<subject, source, doc, fed, m>>

Words(bytes) == UNION {[1..n -> bytes]: n \in 1..MaxLength}
IsFeed(kind) == kind \in Checksums \cup {"multipart"}
Make(list) == [i \in DOMAIN list |-> IF IsFeed(list[i][1]) THEN NewFeed(list[i][1], list[i][2])
                                     ELSE New(list[i][1], list[i][2])]
Fresh(list) == [chain |-> Make(list), out |-> <<>>, end |-> "ok"]

Alone(r) == [chain |-> <<r.filter>>, out |-> r.out, end |-> r.end]
Processed(chain, piece) == IF IsFeed(chain[1].kind) THEN Alone(FeedMore(chain[1], piece))
                           ELSE ChainProcess(chain, piece)
Finished(chain) == IF IsFeed(chain[1].kind) THEN Alone(FeedDone(chain[1]))
                   ELSE ChainFinish(chain)
Continued(out, r) == [r EXCEPT !.out = out \o @]
Run(machine, piece) == Continued(machine.out, Processed(machine.chain, piece))
Over(r) == [r EXCEPT !.end = IF @ = "ok" THEN "finished" ELSE "cut short"]
Ended(machine) == Over(Continued(machine.out, Finished(machine.chain)))
EndedIfWell(r) == IF r.end = "ok" THEN Ended(r) ELSE r
Filtered(list, text) == EndedIfWell(Run(Fresh(list), text))

b == DoubledByte
x == 120
(* encode: a filter and the bytes to try it on; decode: the filter that     *)
(* undoes it, tried on what the other one makes of them; raw: a filter on   *)
(* bytes no encoder made; chain: filters that undo each other, in one.      *)
Encoders == {
  <<"base64_encoder", {}, {0, 77, 251}>>, <<"base64_encoder", {"break_lines"}, {0, 255}>>,
  <<"hex_encoder", {"spaces", "break_lines"}, {10, 255}>>,
  <<"hex_encoder", {"break_lines"}, {10, 255}>>,
  <<"url_encoder", {}, {SPACE, b, PLUS, 255}>>,
  <<"quote_printable", {}, {SPACE, b, EQUALS, LF}>>,
  <<"byte_doubler", {}, {b, x}>>, <<"xml_escaper", {}, {60, AMPERSAND, b}>>,
  <<"c_quoter", {"quotes"}, {LF, QUOTE, BACKSLASH, b}>>,
  <<"c_quoter", {}, {LF, QUOTE, QUESTION, 49}>>}
UndoneBy == [base64_encoder |-> "base64_decoder", hex_encoder |-> "hex_decoder",
            url_encoder |-> "url_decoder", quote_printable |-> "unquote_printable",
            byte_doubler |-> "byte_undoubler", c_quoter |-> "c_unquoter",
            xml_escaper |-> "identity"]
Raw == {
  <<"hex_decoder", {}, {51, 102, SPACE, x}>>, <<"url_decoder", {}, {PERCENT, 52, PLUS, x}>>,
  <<"unquote_printable", {}, {EQUALS, 65, SPACE, CR, LF}>>,
  <<"byte_undoubler", {}, {b, x}>>, <<"byte_undoubler", {"ignore_errors"}, {b, x}>>,
  <<"whitespace_trimmer", {}, {SPACE, LF, x}>>,
  <<"c_unquoter", {}, {BACKSLASH, 55, 52, 110}>>, <<"identity", {}, {b}>>}

Subjects ==
  LET Sub(how, list, bytes) == [how |-> how, list |-> list, bytes |-> bytes]
      One(e) == <<e[1], e[2]>>
      Undo(e) == <<UndoneBy[e[1]], e[2] \ {"break_lines", "spaces"}>>
      Undone == {e \in Encoders: e[1] # "xml_escaper" /\ e[1] # "c_quoter" /\
                                 ~(e[1] = "base64_encoder" /\ e[2] # {})}
                  \cup {e \in Encoders: e[1] = "c_quoter" /\ e[2] = {}}
  IN  {Sub("encode", <<One(e)>>, e[3]): e \in Encoders}
        \cup {Sub("raw", <<One(e)>>, e[3]): e \in Raw}
        \cup {Sub("decode", <<One(e), Undo(e)>>, e[3]): e \in Undone}
        \cup {Sub("chain", <<One(e), Undo(e)>>, e[3]):
                e \in {f \in Undone: f[1] # "url_encoder"}}
        \cup {Sub("chain", <<<<"hex_encoder", {}>>, <<"byte_doubler", {}>>,
                             <<"byte_undoubler", {}>>, <<"hex_decoder", {}>>>>, {187, b})}

Parts(s) == IF s.how = "decode" THEN Tail(s.list) ELSE s.list

(* Messages for a checksum: a few blocks, and one of more bits than a word  *)
(* counts.                                                                  *)
Counting(n) == [i \in 1..n |-> i]
Lengths(kind) == (1..2 * BlockSize + 1) \cup
                 (IF kind = "md5" /\ Careful THEN {} ELSE {Word \div 8 + 1})

(* Multipart messages: parts, each header lines and lines of content, with  *)
(* either end of line, perhaps a preamble, perhaps cut before the last      *)
(* boundary.                                                                *)
Boundary == <<b>>
Ordinary == <<x>>
Deceptive == <<HYPHEN, HYPHEN, b, x>>
Escaped == <<EQUALS, 51, 49>>           \* "=31"
Contents == {<<>>, <<Ordinary>>, <<Deceptive, <<>>>>, <<<<>>, Escaped>>}
Headers == {<<>>, <<Header(KEY, 1)>>, <<Header(CONTENT_TYPE, 1), Header(KEY, 2)>>,
            <<Header(ENCODING, 1)>>, <<Header(KEY, 1), Header(ENCODING, 0)>>}
Part(headers, lines) == [headers |-> headers, lines |-> lines]
MimeParts == {Part(h, <<Ordinary, Deceptive>>): h \in Headers}
               \cup {Part(<<Header(KEY, 1)>>, lines): lines \in Contents}
               \cup {Part(<<Header(ENCODING, 1)>>, <<Escaped, <<>>>>)}
SetBy(part) == {FieldOf(part.headers[i]): i \in DOMAIN part.headers}
Messages ==
  {msg \in [parts: {<<p>>: p \in MimeParts} \cup (MimeParts \X MimeParts),
            crlf: BOOLEAN, preamble: BOOLEAN, cut: BOOLEAN]:
     /\ msg.preamble => Len(msg.parts) = 1
     /\ msg.cut => Len(msg.parts) = 1 /\ msg.crlf
     /\ Len(msg.parts) = 2 => msg.crlf \/ Len(msg.parts[1].lines) < 2
     /\ Careful /\ Len(msg.parts) = 2 => SetBy(msg.parts[1]) \subseteq SetBy(msg.parts[2])}

Written(msg) ==
  LET eol == IF msg.crlf THEN <<CR, LF>> ELSE <<LF>>
      Lines(lines) == FlattenSeq([i \in DOMAIN lines |-> lines[i] \o eol])
      Line(tokens) == FlattenSeq([i \in DOMAIN tokens |-> <<tokens[i]>> \o eol])
      mark == <<HYPHEN, HYPHEN>> \o Boundary
      Each(part) == mark \o eol \o Line(part.headers) \o eol \o Lines(part.lines)
  IN (IF msg.preamble THEN Ordinary \o eol ELSE <<>>)
       \o FlattenSeq([i \in DOMAIN msg.parts |-> Each(msg.parts[i])])
       \o (IF msg.cut THEN <<>> ELSE mark \o <<HYPHEN, HYPHEN>> \o eol)

(* What the parts of a message say: the end of the line before a boundary   *)
(* belongs to the boundary, if it is CR LF. The lines of a part that is     *)
(* quoted printable end with LF when it is decoded.                         *)
Says(part, crlf) ==
  LET quoted == Header(ENCODING, 1) \in Range(part.headers)
      Plain(line) == IF quoted /\ line = Escaped THEN <<49>> ELSE line
      eol == IF crlf /\ ~quoted THEN <<CR, LF>> ELSE <<LF>>
      n == Len(part.lines)
      Given(field) == {v \in 0..3: Header(field, v) \in Range(part.headers)}
  IN [fields |-> [f \in KEY..DESCRIPTION |->
                    IF Given(f) = {} THEN None ELSE CHOOSE v \in Given(f): TRUE],
      value |-> FlattenSeq([i \in 1..n |->
                  Plain(part.lines[i]) \o (IF crlf /\ i = n THEN <<>> ELSE eol)])]

(* The digest of a document: of the blocks of it, the byte that ends it,    *)
(* zeros and the count of its bits; or the remainder, a bit at a time.      *)
RECURSIVE Remainder(_, _)
Remainder(reg, bits) ==
  IF bits = <<>> THEN reg
  ELSE Remainder(IF reg % 2 # bits[1] THEN Polynomial ^^ (reg \div 2) ELSE reg \div 2, Tail(bits))
DigestOf(kind, bytes) ==
  LET fill == CHOOSE k \in 0..BlockSize - 1: (Len(bytes) + 1 + k + CountSize) % BlockSize = 0
      count == BigEndian(8 * Len(bytes))
      bits == FlattenSeq([i \in DOMAIN bytes |-> [j \in 1..8 |-> (bytes[i] \div 2 ^ (j - 1)) % 2]])
      reg == Remainder(0, bits)
  IN CASE kind = "crc32" -> <<reg % 256, reg \div 256>>
       [] kind = "crc32_swapped" -> <<reg \div 256, reg % 256>>
       [] OTHER -> Blocks(bytes \o <<128>> \o Zeros(fill)
                            \o (IF kind = "md5" THEN Reverse(count) ELSE count))

Feeds == {[how |-> "digest", list |-> <<<<kind, {}>>>>, bytes |-> {}]: kind \in Checksums}
           \cup {[how |-> "multipart", list |-> <<<<"multipart", Boundary>>>>, bytes |-> {}]}
Sources(s) == CASE s.how = "digest" -> {Counting(n): n \in Lengths(s.list[1][1])}
                [] s.how = "multipart" -> Messages
                [] OTHER -> Words(s.bytes)
Text(s, w) == CASE s.how = "decode" -> Filtered(<<s.list[1]>>, w).out
                [] s.how = "multipart" -> Written(w)
                [] OTHER -> w

Init == /\ subject \in Subjects \cup Feeds
        /\ source \in Sources(subject)
        /\ doc = Text(subject, source)
        /\ fed = 0
        /\ m = Fresh(Parts(subject))

(* Where a piece may end without one of the faults of the decoders showing. *)
EndsWell(n) ==
  LET kind == Parts(subject)[1][1]
  IN  \/ fed + n = Len(doc)
      \/ kind = "base64_decoder" /\ n % 4 = 0
      \/ kind = "url_decoder" /\ doc[fed + n] # PERCENT
           /\ (fed + n > 1 => doc[fed + n - 1] # PERCENT)
      \/ kind = "url_decoder" /\ doc[fed + n] = PERCENT /\ fed + n + 1 < Len(doc)
      \/ kind = "unquote_printable" /\ doc[fed + n] # CR
      \/ kind \notin {"base64_decoder", "url_decoder", "unquote_printable"}

Feed(n) ==
  /\ m.end = "ok" /\ n <= Len(doc) - fed
  /\ Careful => EndsWell(n)
  /\ m' = Run(m, SubSeq(doc, fed + 1, fed + n))
  /\ fed' = fed + n
  /\ UNCHANGED <<subject, source, doc>>

FinishUp ==
  /\ m.end = "ok" /\ fed = Len(doc)
  /\ m' = Ended(m)
  /\ UNCHANGED <<subject, source, doc, fed>>

Next == FinishUp \/ \E n \in 1..Len(doc): Feed(n)

Spec == Init /\ [][Next]_vars

(* It makes no difference in which pieces a document comes: the filter has  *)
(* written the same, and is in the same state, as if it had come whole; and *)
(* an error is found whatever the pieces.                                   *)
FeedsJoin ==
  fed > 0 =>
    \E whole \in {IF m.end \in {"ok", "error"}
                  THEN Run(Fresh(Parts(subject)), SubSeq(doc, 1, fed))
                  ELSE Filtered(Parts(subject), doc)}:
      /\ m.end = whole.end
      /\ m.end # "error" => m = whole

(* What is encoded and decoded is what was put in; a digest is that of the  *)
(* message padded with the count of its bits; the parts of a multipart      *)
(* message are those that were written, and one without its end is refused. *)
RoundTrips ==
  /\ subject.how \in {"decode", "chain"} =>
       /\ m.end \in {"ok", "finished"}
       /\ m.end = "finished" => m.out = source
  /\ subject.how = "digest" /\ m.end = "finished" =>
       m.out = DigestOf(subject.list[1][1], doc)
  /\ subject.how = "multipart" =>
       /\ m.end \in {"ok", IF source.cut THEN "cut short" ELSE "finished"}
       /\ m.end = "finished" =>
            m.out = [i \in DOMAIN source.parts |-> Says(source.parts[i], source.crlf)]

=============================================================================
