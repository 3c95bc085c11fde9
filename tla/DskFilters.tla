------------------------------ MODULE DskFilters ------------------------------
(***************************************************************************)
(* The octet filters of the library: what each makes of the next piece of   *)
(* its input (dsk_octet_filter_process), of the end of it (finish), and     *)
(* chains of filters. A filter is [kind, opt, st]: the class, the options   *)
(* given to its constructor, and the fields that live from one call to the  *)
(* next. Bytes are numbers.                                                 *)
(*                                                                         *)
(* The loop of a process function is a sequence of steps. A step sees the   *)
(* rest of the piece, as the C code does, and says how much it used, what   *)
(* it wrote, and whether to go on: "ok", "error", or "overrun", when the C  *)
(* code reads beyond the piece.                                             *)
(***************************************************************************)
EXTENDS Integers, Sequences, SequencesExt

CONSTANTS Base64LineLength,     \* BASE64_LINE_LENGTH, 64
          HexLineLength,        \* 60
          QpLineLength,         \* MAX_LINE_LENGTH, 76
          MaxSpaces,            \* MAX_SPACES, 76
          ChunkSize,            \* the bytes in a fragment of a buffer
          DoubledByte           \* the byte given to the doubler and undoubler

TAB == 9
LF == 10
CR == 13
SPACE == 32
QUOTE == 34
PERCENT == 37
AMPERSAND == 38
PLUS == 43
ZERO == 48
EQUALS == 61
QUESTION == 63
BACKSLASH == 92

IsDigit(c) == c \in 48..57
IsXdigit(c) == c \in (48..57) \cup (65..70) \cup (97..102)
XdigitValue(c) == IF c < 58 THEN c - 48 ELSE IF c < 71 THEN c - 55 ELSE c - 87
HexDigit(n) == IF n < 10 THEN 48 + n ELSE 87 + n
UpperHexDigit(n) == IF n < 10 THEN 48 + n ELSE 55 + n
IsSpace(c) == c \in {9, 10, 11, 12, 13, 32}
IsToken(c) == c \in (48..57) \cup (65..90) \cup (97..122) \cup {45, 95}

Filter(kind, opt, st) == [kind |-> kind, opt |-> opt, st |-> st]
Step(used, out, st) == [used |-> used, out |-> out, st |-> st, end |-> "ok"]
Stop(how, st) == [used |-> 0, out |-> <<>>, st |-> st, end |-> how]

-----------------------------------------------------------------------------
(* Base 64. st of the encoder: partial bytes, room left on the line.        *)

Base64Char(v) == IF v < 26 THEN 65 + v ELSE IF v < 52 THEN 71 + v
                 ELSE IF v < 62 THEN v - 4 ELSE IF v = 62 THEN 43 ELSE 47
Base64Skipped == {SPACE, BACKSLASH, EQUALS}
Base64Value(c) == IF c \in 65..90 THEN c - 65 ELSE IF c \in 97..122 THEN c - 71
                  ELSE IF IsDigit(c) THEN c + 4 ELSE IF c = 43 THEN 62
                  ELSE IF c = 47 THEN 63 ELSE -1

\* Mutant: four bits of the last byte where there are two.
PumpBlockShift(b) == <<Base64Char(b[1] \div 4),
                       Base64Char((b[1] % 4) * 16 + b[2] \div 16),
                       Base64Char((b[2] % 16) * 4 + b[3] \div 128),
                       Base64Char(b[3] % 64)>>

PumpBlock(b) == <<Base64Char(b[1] \div 4),
                  Base64Char((b[1] % 4) * 16 + b[2] \div 16),
                  Base64Char((b[2] % 16) * 4 + b[3] \div 64),
                  Base64Char(b[3] % 64)>>

Base64EncodeStep(f, in) ==
  LET all == f.st.partial \o in
      end == "break_lines" \in f.opt /\ f.st.length_remaining <= 4
  IN  IF Len(all) < 3
      THEN Step(Len(in), <<>>, [f.st EXCEPT !.partial = all])
      ELSE Step(3 - Len(f.st.partial),
                PumpBlock(all) \o (IF end THEN <<LF>> ELSE <<>>),
                [partial |-> <<>>,
                 length_remaining |-> IF end THEN Base64LineLength
                                      ELSE f.st.length_remaining - 4])

Base64EncodeFinish(f) ==
  LET n == Len(f.st.partial)
  IN  SubSeq(PumpBlock(f.st.partial \o <<0, 0, 0>>), 1, IF n = 0 THEN 0 ELSE n + 1)
        \o <<EQUALS>>

(* The decoder works on copies of its fields, and never stores them back:   *)
(* Process starts each piece from the state of a new decoder.               *)
Base64DecodeStep(f, in) ==
  LET v == Base64Value(in[1])
  IN  IF in[1] \in Base64Skipped THEN Step(1, <<>>, f.st)
      ELSE IF v = -1 THEN Stop("error", f.st)
      ELSE CASE f.st.state = 0 -> Step(1, <<>>, [state |-> 1, partial |-> v * 4])
             [] f.st.state = 1 -> Step(1, <<f.st.partial + v \div 16>>,
                                       [state |-> 2, partial |-> (v % 16) * 16])
             [] f.st.state = 2 -> Step(1, <<f.st.partial + v \div 4>>,
                                       [state |-> 3, partial |-> (v % 4) * 64])
             [] f.st.state = 3 -> Step(1, <<f.st.partial + v>>,
                                       [state |-> 0, partial |-> 0])

-----------------------------------------------------------------------------
(* Hexadecimal. st: of the encoder cur_line_len, of the decoder the nibble  *)
(* that waits, or -1.                                                       *)

HexEncodeStep(f, in) ==
  LET digits == <<HexDigit(in[1] \div 16), HexDigit(in[1] % 16)>>
      break  == "break_lines" \in f.opt /\ f.st = HexLineLength
      spaces == "spaces" \in f.opt
  IN  IF break THEN Step(1, digits \o <<LF>>, 0)
      ELSE IF spaces THEN Step(1, digits \o <<SPACE>>, f.st + 3)
      ELSE Step(1, digits, f.st + 2)

HexEncodeFinish(f) ==
  IF "break_lines" \in f.opt /\ f.st # 0 THEN <<LF>> ELSE <<>>

\* Mutant: the nibble is kept only if the other one is in the same piece.
HexDecodeStepForgets(f, in) ==
  IF IsXdigit(in[1])
  THEN IF f.st # -1 THEN Step(1, <<f.st * 16 + XdigitValue(in[1])>>, -1)
                    ELSE Step(1, <<>>, IF Len(in) = 1 THEN -1 ELSE XdigitValue(in[1]))
  ELSE IF IsSpace(in[1]) THEN Step(1, <<>>, f.st)
  ELSE Stop("error", f.st)

HexDecodeStep(f, in) ==
  IF IsXdigit(in[1])
  THEN IF f.st # -1 THEN Step(1, <<f.st * 16 + XdigitValue(in[1])>>, -1)
                    ELSE Step(1, <<>>, XdigitValue(in[1]))
  ELSE IF IsSpace(in[1]) THEN Step(1, <<>>, f.st)
  ELSE Stop("error", f.st)

-----------------------------------------------------------------------------
(* URL encoding. st of the decoder: state 0, 1 (got percent), 2 (and one    *)
(* digit, the nibble).                                                      *)

UrlEncodeStep(f, in) ==
  Step(1, IF IsToken(in[1]) THEN <<in[1]>>
          ELSE IF in[1] = SPACE THEN <<PLUS>>
          ELSE <<PERCENT, HexDigit(in[1] \div 16), HexDigit(in[1] % 16)>>, f.st)

UrlState(state, nibble) == [state |-> state, nibble |-> nibble]

(* After a percent sign: in begins with what should be two digits. skip is  *)
(* the number of bytes of in before them.                                   *)
UrlPair(f, in, skip) ==
  LET n == Len(in) - skip
  IN  IF n = 0 THEN Step(skip, <<>>, UrlState(1, 0))
      ELSE IF ~IsXdigit(in[skip + 1]) THEN Stop("error", f.st)
      ELSE IF n = 1 THEN Step(skip + 1, <<>>, UrlState(2, XdigitValue(in[skip + 1])))
      ELSE IF ~IsXdigit(in[skip + 2]) THEN Stop("error", f.st)
      ELSE Step(skip + 2, <<XdigitValue(in[skip + 1]) * 16 + XdigitValue(in[skip + 2])>>,
                UrlState(0, 0))

(* In state 2 one byte is used, and two are counted: the last byte of the   *)
(* piece is never looked at, and with only one the count wraps around.      *)
UrlDecodeStep(f, in) ==
  CASE f.st.state = 1 -> UrlPair(f, in, 0)
    [] f.st.state = 2 ->
         IF ~IsXdigit(in[1]) THEN Stop("error", f.st)
         ELSE IF Len(in) = 1 THEN Stop("overrun", f.st)
         ELSE [Step(1, <<f.st.nibble * 16 + XdigitValue(in[1])>>, UrlState(0, 0))
                 EXCEPT !.end = "short"]
    [] f.st.state = 0 ->
         IF in[1] = PERCENT THEN UrlPair(f, in, 1)
         ELSE Step(1, IF in[1] = PLUS THEN <<SPACE>> ELSE <<in[1]>>, f.st)

-----------------------------------------------------------------------------
(* Quoted-printable (RFC 2045). st of the encoder: the length of the line,  *)
(* to which an escaped byte adds nothing. st of the decoder: state, the     *)
(* spaces held back, the nibble.                                            *)

IsPassthrough(c) == c \in (33..60) \cup (62..126)
SoftBreak == <<EQUALS, CR, LF>>

QuoteStep(f, in) ==
  LET c == in[1]
      full == f.st + 3 > QpLineLength
  IN  IF IsPassthrough(c)
      THEN IF f.st + 1 >= QpLineLength THEN Step(1, <<c>> \o SoftBreak, 0)
                                       ELSE Step(1, <<c>>, f.st + 1)
      ELSE Step(1, (IF full THEN SoftBreak ELSE <<>>) \o
                   <<EQUALS, UpperHexDigit(c \div 16), UpperHexDigit(c % 16)>>,
                IF full THEN 0 ELSE f.st)

UnquoteState(state, info) == [state |-> state, info |-> info]
Normal == UnquoteState("NORMAL", <<>>)

(* From NORMAL, a CR at the end of a piece is forgotten.                    *)
UnquoteStep(f, in) ==
  LET c == in[1]
  IN  CASE f.st.state = "NORMAL" ->
             IF c \in {SPACE, TAB} THEN Step(1, <<>>, UnquoteState("SPACES", <<c>>))
             ELSE IF c = EQUALS THEN Step(1, <<>>, UnquoteState("EQUALS", <<>>))
             ELSE IF c = CR
             THEN Step(1, <<>>, IF Len(in) = 1 THEN f.st ELSE UnquoteState("CR", <<>>))
             ELSE Step(1, <<c>>, f.st)
        [] f.st.state = "SPACES" ->
             IF c \in {SPACE, TAB}
             THEN IF Len(f.st.info) < MaxSpaces
                  THEN Step(1, <<>>, [f.st EXCEPT !.info = Append(@, c)])
                  ELSE Stop("error", f.st)
             ELSE IF c = CR THEN Step(1, <<>>, UnquoteState("CR", <<>>))
             ELSE IF c = LF THEN Step(0, <<>>, Normal)
             ELSE Step(0, f.st.info, Normal)
        [] f.st.state = "EQUALS" ->
             IF c = LF THEN Step(1, <<>>, Normal)
             ELSE IF c = CR THEN Step(1, <<>>, UnquoteState("EQ_CR", <<>>))
             ELSE IF ~IsXdigit(c) THEN Stop("error", f.st)
             ELSE IF Len(in) = 1
             THEN Step(1, <<>>, UnquoteState("EQUALS_HEX", <<XdigitValue(c)>>))
             ELSE IF ~IsXdigit(in[2]) THEN Stop("error", f.st)
             ELSE Step(2, <<XdigitValue(c) * 16 + XdigitValue(in[2])>>, Normal)
        [] f.st.state = "EQUALS_HEX" ->
             IF IsXdigit(c) THEN Step(1, <<f.st.info[1] * 16 + XdigitValue(c)>>, Normal)
                            ELSE Stop("error", f.st)
        [] f.st.state = "CR" ->
             IF c = LF THEN Step(1, <<LF>>, Normal) ELSE Stop("error", f.st)
        [] f.st.state = "EQ_CR" ->
             IF c = LF THEN Step(1, <<>>, Normal) ELSE Stop("error", f.st)

-----------------------------------------------------------------------------
(* Bytes doubled. st of the undoubler: has_one_byte.                        *)

DoubleStep(f, in) == Step(1, IF in[1] = DoubledByte THEN <<in[1], in[1]>> ELSE <<in[1]>>, f.st)

UndoubleStep(f, in) ==
  LET lenient == "ignore_errors" \in f.opt
  IN  IF f.st
      THEN IF in[1] = DoubledByte THEN Step(1, <<>>, FALSE)
           ELSE IF lenient THEN Step(0, <<>>, FALSE) ELSE Stop("error", f.st)
      ELSE IF in[1] # DoubledByte THEN Step(1, <<in[1]>>, FALSE)
      ELSE IF Len(in) = 1 THEN Step(1, <<in[1]>>, TRUE)
      ELSE IF in[2] = in[1] THEN Step(2, <<in[1]>>, FALSE)
      ELSE IF lenient THEN Step(1, <<in[1]>>, FALSE)
      ELSE Stop("error", f.st)

(* Whitespace: runs of it become one space, none at either end. st:         *)
(* in_space, in_initial_space. (in_initial_space ends with the first space  *)
(* that is followed by something, and the filter starts in_space.)          *)
TrimStep(f, in) ==
  IF IsSpace(in[1]) THEN Step(1, <<>>, [f.st EXCEPT !.in_space = TRUE])
  ELSE Step(1, (IF f.st.in_space /\ ~f.st.in_initial_space THEN <<SPACE>> ELSE <<>>)
                 \o <<in[1]>>,
            [in_space |-> FALSE,
             in_initial_space |-> f.st.in_initial_space /\ ~f.st.in_space])

(* "<", ">" and "&" as entities, written as one number above the bytes.     *)
XmlEscapeStep(f, in) ==
  Step(1, IF in[1] \in {60, 62, AMPERSAND} THEN <<256 + in[1]>> ELSE <<in[1]>>, f.st)

-----------------------------------------------------------------------------
(* Quoting for C. st: state, last_char (32 when none), needs_initial_quote, *)
(* and the label the code is at, which is the state only when a piece       *)
(* begins.                                                                  *)

Unescaped == 32
Escapes == {<<7, 97>>, <<8, 98>>, <<12, 102>>, <<10, 110>>, <<13, 114>>, <<9, 116>>,
            <<11, 118>>, <<QUOTE, QUOTE>>, <<BACKSLASH, BACKSLASH>>}
EscapeOf(c) == (CHOOSE e \in Escapes: e[1] = c)[2]
EscapedBy(c) == (CHOOSE e \in Escapes: e[2] = c)[1]
TrigraphEnds == {61, 47, 40, 41, 33, 60, 62, 45}

Octal3(c) == <<BACKSLASH, ZERO + (c \div 64), ZERO + ((c \div 8) % 8), ZERO + (c % 8)>>
WriteOctal(c) == IF c < 8 THEN <<BACKSLASH, ZERO + c>>
                 ELSE IF c < 64 THEN <<BACKSLASH, ZERO + (c \div 8), ZERO + (c % 8)>>
                 ELSE Octal3(c)

CQuoteStep(f, in) ==
  LET c == in[1]
      trigraphs == "trigraphs" \in f.opt
      quote == f.st.needs_initial_quote
      At(label) == [f.st EXCEPT !.label = label]
      To(state) == [f.st EXCEPT !.label = state, !.state = state]
  IN  IF quote THEN Step(0, <<QUOTE>>, [f.st EXCEPT !.needs_initial_quote = FALSE])
      ELSE CASE f.st.label = "DEFAULT" ->
             IF c \in 32..126 /\ c \notin {QUOTE, BACKSLASH} /\ ~(trigraphs /\ c = QUESTION)
             THEN Step(1, <<c>>, f.st)
             ELSE IF c \in {e[1]: e \in Escapes}
             THEN Step(1, <<BACKSLASH, EscapeOf(c)>>, f.st)
             ELSE IF c = QUESTION THEN Step(1, <<QUESTION>>, To("TRIGRAPH_1"))
             ELSE Step(1, <<>>, [To("OCTAL") EXCEPT !.last_char = c])
        [] f.st.label = "OCTAL" ->
             Step(0, IF IsDigit(c) THEN Octal3(c) ELSE WriteOctal(f.st.last_char),
                  To("DEFAULT"))
        [] f.st.label = "TRIGRAPH_1" ->
             Step(0, <<>>, IF c = QUESTION THEN At("TRIGRAPH_2") ELSE To("DEFAULT"))
        [] f.st.label = "TRIGRAPH_2" ->
             IF c \in TrigraphEnds THEN Step(0, <<BACKSLASH, QUESTION>>, At("DEFAULT"))
             ELSE IF c = QUESTION THEN Step(1, <<QUESTION>>, f.st)
             ELSE Step(0, <<>>, To("DEFAULT"))

(* last_char is not reset when it has been written.                         *)
CQuoteFinish(f) ==
  (IF f.st.last_char # Unescaped THEN WriteOctal(f.st.last_char) ELSE <<>>)
    \o (IF "quotes" \in f.opt
        THEN (IF f.st.needs_initial_quote THEN <<QUOTE>> ELSE <<>>) \o <<QUOTE>>
        ELSE <<>>)

(* st: state, partial_octal, remove_initial_quote. text: what of the piece  *)
(* is not written yet; with remove_quotes, the closing quote ends the       *)
(* function before it is written.                                           *)
CUnquoteStep(f, in) ==
  LET c == in[1]
      octal == c \in 48..55
      quotes == "quotes" \in f.opt
      next == f.st.partial_octal * 8 + c - ZERO
      To(state) == [f.st EXCEPT !.state = state]
      Octals(state, n) == [f.st EXCEPT !.state = state, !.partial_octal = n]
      stops == {i \in DOMAIN in: in[i] = BACKSLASH \/ (quotes /\ in[i] = QUOTE)}
      first == IF stops = {} THEN Len(in) + 1
               ELSE CHOOSE i \in stops: \A j \in stops: i <= j
  IN  IF f.st.remove_initial_quote
      THEN IF c = QUOTE THEN Step(1, <<>>, [f.st EXCEPT !.remove_initial_quote = FALSE])
                        ELSE Stop("error", f.st)
      ELSE CASE f.st.state = "DEFAULT" ->
             IF first > Len(in) THEN Step(Len(in), in, f.st)
             ELSE IF in[first] = BACKSLASH
             THEN Step(first, SubSeq(in, 1, first - 1), To("AFTER_BACKSLASH"))
             ELSE IF first # Len(in) THEN Stop("error", f.st)
             ELSE Step(first, <<>>, To("DONE"))
        [] f.st.state = "AFTER_BACKSLASH" ->
             IF octal THEN Step(1, <<>>, Octals("AFTER_1_OCTAL", c - ZERO))
             ELSE IF c \in {39, QUESTION} THEN Step(1, <<c>>, To("DEFAULT"))
             ELSE IF c \in {e[2]: e \in Escapes} THEN Step(1, <<EscapedBy(c)>>, To("DEFAULT"))
             ELSE Stop("error", f.st)
        [] f.st.state = "AFTER_1_OCTAL" ->
             IF octal THEN Step(1, <<>>, Octals("AFTER_2_OCTAL", next))
             ELSE Step(0, <<f.st.partial_octal>>, To("DEFAULT"))
        [] f.st.state = "AFTER_2_OCTAL" ->
             IF ~octal THEN Step(0, <<f.st.partial_octal>>, To("DEFAULT"))
             ELSE IF f.st.partial_octal >= 32 THEN Stop("error", f.st)
             ELSE Step(1, <<next>>, To("DEFAULT"))
        [] f.st.state = "DONE" ->
             IF IsSpace(c) THEN Step(1, <<>>, f.st) ELSE Stop("error", f.st)

-----------------------------------------------------------------------------
(* The filters as their constructors make them.                             *)
New(kind, opt) == Filter(kind, opt,
  CASE kind = "base64_encoder" -> [partial |-> <<>>, length_remaining |-> Base64LineLength]
    [] kind = "base64_decoder" -> [state |-> 0, partial |-> 0]
    [] kind = "hex_encoder" -> 0
    [] kind = "hex_decoder" -> -1
    [] kind = "url_decoder" -> UrlState(0, 0)
    [] kind = "quote_printable" -> 0
    [] kind = "unquote_printable" -> Normal
    [] kind = "byte_undoubler" -> FALSE
    [] kind = "whitespace_trimmer" -> [in_space |-> TRUE, in_initial_space |-> TRUE]
    [] kind = "c_quoter" -> [state |-> "DEFAULT", label |-> "DEFAULT",
                             last_char |-> Unescaped,
                             needs_initial_quote |-> "quotes" \in opt]
    [] kind = "c_unquoter" -> [state |-> "DEFAULT", partial_octal |-> 0,
                               remove_initial_quote |-> "quotes" \in opt]
    [] OTHER -> 0)

StepOf(f, in) ==
  CASE f.kind = "base64_encoder" -> Base64EncodeStep(f, in)
    [] f.kind = "base64_decoder" -> Base64DecodeStep(f, in)
    [] f.kind = "hex_encoder" -> HexEncodeStep(f, in)
    [] f.kind = "hex_decoder" -> HexDecodeStep(f, in)
    [] f.kind = "url_encoder" -> UrlEncodeStep(f, in)
    [] f.kind = "url_decoder" -> UrlDecodeStep(f, in)
    [] f.kind = "quote_printable" -> QuoteStep(f, in)
    [] f.kind = "unquote_printable" -> UnquoteStep(f, in)
    [] f.kind = "byte_doubler" -> DoubleStep(f, in)
    [] f.kind = "byte_undoubler" -> UndoubleStep(f, in)
    [] f.kind = "whitespace_trimmer" -> TrimStep(f, in)
    [] f.kind = "xml_escaper" -> XmlEscapeStep(f, in)
    [] f.kind = "c_quoter" -> CQuoteStep(f, in)
    [] f.kind = "c_unquoter" -> CUnquoteStep(f, in)
    [] OTHER -> Step(Len(in), in, f.st)         \* dsk_octet_filter_identity

(* What process does when it is entered and left, besides the loop.         *)
Entered(f) == IF f.kind = "c_quoter" THEN [f EXCEPT !.st.label = f.st.state]
              ELSE IF f.kind = "base64_decoder" THEN New(f.kind, f.opt)
              ELSE f

RECURSIVE Steps(_, _, _), Stepped(_, _, _, _)
Stepped(f, out, in, s) ==
  LET g == [f EXCEPT !.st = s.st]
      rest == SubSeq(in, s.used + 1, Len(in))
  IN  IF s.end \in {"error", "overrun"}
      THEN [filter |-> g, out |-> out \o s.out, end |-> s.end]
      ELSE Steps(g, out \o s.out, IF s.end = "short" THEN Front(rest) ELSE rest)
Steps(f, out, in) ==
  IF in = <<>> THEN [filter |-> f, out |-> out, end |-> "ok"]
  ELSE Stepped(f, out, in, StepOf(f, in))

Process(f, in) == Steps(Entered(f), <<>>, in)

FinishOutput(f) ==
  CASE f.kind = "base64_encoder" -> Base64EncodeFinish(f)
    [] f.kind = "hex_encoder" -> HexEncodeFinish(f)
    [] f.kind = "c_quoter" -> CQuoteFinish(f)
    [] f.kind = "c_unquoter" /\ f.st.state \in {"AFTER_1_OCTAL", "AFTER_2_OCTAL"} ->
         <<f.st.partial_octal>>
    [] OTHER -> <<>>
FinishFails(f) ==
  CASE f.kind = "hex_decoder" -> f.st # -1
    [] f.kind = "url_decoder" -> f.st.state # 0
    [] f.kind = "unquote_printable" -> f.st.state \notin {"NORMAL", "SPACES"}
    [] f.kind = "byte_undoubler" -> f.st /\ "ignore_errors" \notin f.opt
    [] f.kind = "c_unquoter" -> f.st.state = "AFTER_BACKSLASH"
    [] OTHER -> FALSE
Finish(f) == [filter |-> f, out |-> FinishOutput(f),
              end |-> IF FinishFails(f) THEN "error" ELSE "ok"]

-----------------------------------------------------------------------------
(* dsk_octet_filter_process_buffer: the fragments of a buffer, one by one.  *)
RECURSIVE ProcessBuffer(_, _, _), BufferProcessed(_, _, _)
BufferProcessed(out, rest, r) ==
  IF r.end # "ok" THEN [r EXCEPT !.out = out \o @]
  ELSE ProcessBuffer(r.filter, out \o r.out, rest)
ProcessBuffer(f, out, buf) ==
  IF buf = <<>> THEN [filter |-> f, out |-> out, end |-> "ok"]
  ELSE LET n == IF Len(buf) > ChunkSize THEN ChunkSize ELSE Len(buf)
       IN  BufferProcessed(out, SubSeq(buf, n + 1, Len(buf)),
                           Process(f, SubSeq(buf, 1, n)))

(* dsk-octet-filter-chain.c. A chain is a sequence of filters; the output   *)
(* of filter i, in buf, goes through the ones after it.                     *)
RECURSIVE Through(_, _, _), WentThrough(_, _, _)
WentThrough(chain, i, r) ==
  LET next == [chain EXCEPT ![i] = r.filter]
  IN  IF r.end = "ok" THEN Through(next, i + 1, r.out)
      ELSE [chain |-> next, out |-> <<>>, end |-> r.end]
Through(chain, i, buf) ==
  IF i > Len(chain) THEN [chain |-> chain, out |-> buf, end |-> "ok"]
  ELSE WentThrough(chain, i, ProcessBuffer(chain[i], <<>>, buf))

(* The first filter of a chain is given the caller's bytes, and the only    *)
(* one writes to the caller's buffer, whatever becomes of it.               *)
FirstProcessed(chain, r) ==
  LET next == [chain EXCEPT ![1] = r.filter]
  IN  IF Len(chain) = 1 THEN [chain |-> next, out |-> r.out, end |-> r.end]
      ELSE IF r.end # "ok" THEN [chain |-> next, out |-> <<>>, end |-> r.end]
      ELSE Through(next, 2, r.out)
ChainProcess(chain, in) == FirstProcessed(chain, Process(chain[1], in))

RECURSIVE ChainFinishFrom(_, _, _), Flushed(_, _, _)
Flushed(i, out, t) ==
  IF t.end # "ok" THEN [t EXCEPT !.out = out \o @]
  ELSE ChainFinishFrom(t.chain, i + 1, out \o t.out)
ChainFinishFrom(chain, i, out) ==
  IF i > Len(chain) THEN [chain |-> chain, out |-> out, end |-> "ok"]
  ELSE IF Finish(chain[i]).end # "ok" THEN [chain |-> chain, out |-> out, end |-> "error"]
  ELSE Flushed(i, out, Through(chain, i + 1, Finish(chain[i]).out))
ChainFinish(chain) == ChainFinishFrom(chain, 1, <<>>)

=============================================================================
