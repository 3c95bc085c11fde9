-------------------------------- MODULE DskJson --------------------------------
(***************************************************************************)
(* JSON: the text made of a value (dsk-json-output.c) and the parser that   *)
(* is fed a text in pieces (dsk-json-parser.c). The parser takes one        *)
(* character after the other; what it keeps between two calls of feed is    *)
(* the record of NewParser. Characters are strings of length 1; "hi", "lo"  *)
(* and "bmp" stand for four hex digits: a first half of a surrogate pair, a *)
(* second half, and neither; "wide" is the character of a pair and "other"  *)
(* that of "bmp", both of them in UTF-8. A number is a numeral for it.      *)
(***************************************************************************)
EXTENDS Naturals, Sequences, SequencesExt, FiniteSets

CONSTANTS INDENT        \* spaces for each level, 2

LF == "\n"
QUOTE == "\""
BACKSLASH == "\\"
Blanks == {" ", "\t", LF}
Digits == {"1", "2"}
Signs == {"+", "-"}
NumberChars == Digits \cup Signs \cup {".", "e", "E"}
Letters == {"a", "t", "r", "u", "e", "f", "l", "s", "n"}

(* A value: text is that of a number or string, subs are the values of an   *)
(* array or object, names the names of the members.                         *)
Value(type, text, names, subs) ==
  [type |-> type, text |-> text, names |-> names, subs |-> subs]
Simple(type) == Value(type, <<>>, <<>>, <<>>)
Word == [true |-> <<"t", "r", "u", "e">>, false |-> <<"f", "a", "l", "s", "e">>,
         null |-> <<"n", "u", "l", "l">>]

-----------------------------------------------------------------------------
(* dsk_json_value_serialize. LF and TAB are written as themselves behind a  *)
(* backslash, which no JSON parser takes, this one included.                *)
Quoted(c) ==
  CASE c \in {QUOTE, BACKSLASH, LF, "\t"} -> <<BACKSLASH, c>>
    [] c = "wide" -> <<BACKSLASH, "u", "hi", BACKSLASH, "u", "lo">>
    [] c = "other" -> <<BACKSLASH, "u", "bmp">>
    [] OTHER -> <<c>>
QuotedString(text) ==
  <<QUOTE>> \o FoldLeft(LAMBDA all, c: all \o Quoted(c), <<>>, text) \o <<QUOTE>>

Spaces(n) == [i \in 1..n |-> " "]

(* indent is -1 for the compact form; here, pretty is indent >= 0.          *)
RECURSIVE Serialize(_, _, _)
Serialize(v, pretty, indent) ==
  LET object == v.type = "object"
      newline == IF pretty THEN <<LF>> ELSE <<>>
      pad(n) == IF pretty THEN Spaces(n) ELSE <<>>
      item(i) ==
        pad(indent + INDENT)
          \o (IF object THEN QuotedString(v.names[i]) \o <<":">> \o pad(1) ELSE <<>>)
          \o Serialize(v.subs[i], pretty, indent + INDENT)
          \o (IF i < Len(v.subs) THEN <<",">> ELSE <<>>) \o newline
      items == FoldLeft(LAMBDA all, i: all \o item(i), <<>>,
                        [i \in DOMAIN v.subs |-> i])
  IN  CASE v.type \in DOMAIN Word -> Word[v.type]
        [] v.type = "number" -> v.text
        [] v.type = "string" -> QuotedString(v.text)
        [] object -> <<"{">> \o newline \o items \o pad(indent) \o <<"}">>
        [] OTHER -> <<"[">> \o newline \o items \o pad(indent) \o <<"]">>

-----------------------------------------------------------------------------
NewParser == [lex |-> "INIT",           \* lex_state
              str |-> <<>>,             \* of the string or number
              u |-> FALSE,              \* bs_sequence: a "u" after the backslash
              fixed_n_chars |-> 0,
              surrogate |-> FALSE,      \* utf16_surrogate # 0
              parse |-> "INIT",         \* parse_state
              stack |-> <<>>, queue |-> <<>>,
              end |-> "ok"]             \* or "error", from then on

Fail(p) == [p EXCEPT !.end = "error"]

(* A value is complete: it goes to the innermost open one, or is a result.  *)
HandleSubvalue(p, v) ==
  IF p.stack = <<>> THEN [p EXCEPT !.queue = Append(@, v), !.parse = "INIT"]
  ELSE [p EXCEPT !.stack[Len(p.stack)].subs = Append(@, v),
                 !.parse = IF Last(p.stack).type = "object" THEN "GOT_MEMBER"
                                                            ELSE "GOT_ELEMENT"]

(* object_finished, array_finished.                                         *)
Finished(p) == HandleSubvalue([p EXCEPT !.stack = Front(@)], Last(p.stack))

(* strtod, with an end that nobody looks at: the longest beginning that is  *)
(* a numeral, or 0 if none is.                                              *)
Unsigned(text) == IF text # <<>> /\ Head(text) \in Signs THEN Tail(text) ELSE text
AllDigits(text) == text # <<>> /\ ToSet(text) \subseteq Digits
Decimal(text) ==
  Cardinality({i \in DOMAIN text: text[i] = "."}) <= 1
  /\ AllDigits(SelectSeq(text, LAMBDA c: c # "."))
IsNumeral(text) ==
  LET u == Unsigned(text)
      exponents == {i \in DOMAIN u: u[i] \in {"e", "E"}}
  IN  IF exponents = {} THEN Decimal(u)
      ELSE \E i \in exponents: /\ Decimal(SubSeq(u, 1, i - 1))
                               /\ AllDigits(Unsigned(SubSeq(u, i + 1, Len(u))))
Strtod(text) ==
  LET ends == {n \in DOMAIN text: IsNumeral(SubSeq(text, 1, n))}
  IN  IF ends = {} THEN <<"0">>
      ELSE SubSeq(text, 1, CHOOSE n \in ends: \A m \in ends: m <= n)

Push(p, type) == [p EXCEPT !.stack = Append(@, Simple(type))]

HandleExpectedSubvalue(p, token) ==
  CASE token = "{" -> [Push(p, "object") EXCEPT !.parse = "EXPECTING_MEMBER"]
    [] token = "[" -> [Push(p, "array") EXCEPT !.parse = "EXPECTING_ELEMENT"]
    [] token = "string" -> HandleSubvalue(p, Value("string", p.str, <<>>, <<>>))
    [] token = "number" -> HandleSubvalue(p, Value("number", Strtod(p.str), <<>>, <<>>))
    [] token \in DOMAIN Word -> HandleSubvalue(p, Simple(token))
    [] OTHER -> Fail(p)

HandleToken(p, token) ==
  LET top == Len(p.stack)
      q == CASE p.parse \in {"INIT", "GOT_MEMBER_COLON"} -> HandleExpectedSubvalue(p, token)
             [] p.parse = "EXPECTING_ELEMENT" ->
                  IF token = "]" THEN Finished(p) ELSE HandleExpectedSubvalue(p, token)
             [] p.parse = "EXPECTING_MEMBER" ->
                  IF token = "string"
                  THEN [p EXCEPT !.stack[top].names = Append(@, p.str),
                                 !.parse = "GOT_MEMBER_NAME"]
                  ELSE IF token = "}" THEN Finished(p) ELSE Fail(p)
             [] p.parse = "GOT_MEMBER_NAME" ->
                  IF token = ":" THEN [p EXCEPT !.parse = "GOT_MEMBER_COLON"] ELSE Fail(p)
             [] p.parse = "GOT_MEMBER" ->
                  IF token = "," THEN [p EXCEPT !.parse = "EXPECTING_MEMBER"]
                  ELSE IF token = "}" THEN Finished(p) ELSE Fail(p)
             [] p.parse = "GOT_ELEMENT" ->
                  IF token = "," THEN [p EXCEPT !.parse = "EXPECTING_ELEMENT"]
                  ELSE IF token = "]" THEN Finished(p) ELSE Fail(p)
  IN  [q EXCEPT !.str = <<>>]

(* One character, by lex_state.                                             *)
LexInit(p, c) ==
  CASE c \in Blanks -> p
    [] c \in {"t", "f", "n"} ->
         [p EXCEPT !.lex = CHOOSE w \in DOMAIN Word: Word[w][1] = c, !.fixed_n_chars = 1]
    [] c = QUOTE -> [p EXCEPT !.lex = "IN_DQ", !.str = <<>>]
    [] c \in Digits \cup Signs -> [p EXCEPT !.lex = "IN_NUMBER", !.str = <<c>>]
    [] c \in {"{", "}", "[", "]", ",", ":"} -> HandleToken(p, c)
    [] OTHER -> Fail(p)

(* The token before c is complete; c is looked at again if it was good.     *)
\* Mutant: the character that ends the token is used up.
EndTokenUses(p, token, c) == HandleToken([p EXCEPT !.lex = "INIT"], token)

EndToken(p, token, c) ==
  LET q == HandleToken([p EXCEPT !.lex = "INIT"], token)
  IN  IF q.end = "ok" THEN LexInit(q, c) ELSE q

LexWord(p, c) ==
  IF p.fixed_n_chars = Len(Word[p.lex])
  THEN IF c \in Digits \cup Letters THEN Fail(p) ELSE EndToken(p, p.lex, c)
  ELSE IF c = Word[p.lex][p.fixed_n_chars + 1]
  THEN [p EXCEPT !.fixed_n_chars = @ + 1] ELSE Fail(p)

LexString(p, c) ==
  CASE c = QUOTE -> [HandleToken(p, "string") EXCEPT !.lex = "INIT"]
    [] c = BACKSLASH -> [p EXCEPT !.lex = "IN_DQ_BS", !.u = FALSE]
    [] OTHER -> [p EXCEPT !.str = Append(@, c)]

(* utf16_surrogate is looked at by the next \u only: not by the characters  *)
(* in between, and not by the end of the string.                            *)
LexCode(p, c) ==
  LET Put(char) == [p EXCEPT !.str = Append(@, char), !.lex = "IN_DQ", !.surrogate = FALSE]
  IN  CASE c = "lo" /\ p.surrogate -> Put("wide")
        [] c = "hi" /\ ~p.surrogate -> [p EXCEPT !.surrogate = TRUE, !.lex = "IN_DQ"]
        [] c = "bmp" /\ ~p.surrogate -> Put("other")
        [] OTHER -> Fail(p)
LexEscape(p, c) ==
  IF p.u THEN LexCode(p, c)
  ELSE CASE c = "n" -> [p EXCEPT !.str = Append(@, LF), !.lex = "IN_DQ"]
         [] c \in {QUOTE, BACKSLASH} -> [p EXCEPT !.str = Append(@, c), !.lex = "IN_DQ"]
         [] c = "u" -> [p EXCEPT !.u = TRUE]
         [] OTHER -> Fail(p)

(* Whether these characters make up a number is not looked at.              *)
LexNumber(p, c) == IF c \in NumberChars THEN [p EXCEPT !.str = Append(@, c)]
                                        ELSE EndToken(p, "number", c)

LexChar(p, c) ==
  CASE p.end # "ok" -> p
    [] p.lex = "INIT" -> LexInit(p, c)
    [] p.lex \in DOMAIN Word -> LexWord(p, c)
    [] p.lex = "IN_DQ" -> LexString(p, c)
    [] p.lex = "IN_DQ_BS" -> LexEscape(p, c)
    [] p.lex = "IN_NUMBER" -> LexNumber(p, c)

(* dsk_json_parser_feed, dsk_json_parser_finish.                            *)
FeedParser(p, piece) == FoldLeft(LexChar, p, piece)

FinishParser(p) ==
  LET q == CASE p.lex \in DOMAIN Word ->
                  IF p.fixed_n_chars = Len(Word[p.lex]) THEN HandleToken(p, p.lex) ELSE Fail(p)
             [] p.lex \in {"IN_DQ", "IN_DQ_BS"} -> Fail(p)
             [] p.lex = "IN_NUMBER" -> HandleToken(p, "number")
             [] OTHER -> p
  IN  IF q.end # "ok" THEN q
      ELSE IF q.parse # "INIT" THEN Fail(q) ELSE [q EXCEPT !.end = "finished"]

-----------------------------------------------------------------------------
(* A parser is fed a text piece by piece: the text of a value, as the library *)
(* writes it, or such a text with one character left out, put in, or        *)
(* replaced. (LexChar does not see the pieces, so their length is fixed.)   *)

CONSTANTS PieceLength,
          Careful       \* leave out what the code gets wrong

VARIABLES value,        \* the value whose text is fed, if nothing was changed
          doc,          \* the text
          sent,         \* how much of it has been fed
          parser

vars == <<value, doc, sent, parser>>

a == "a"
One == Value("number", <<"1">>, <<>>, <<>>)
Str(text) == Value("string", text, <<>>, <<>>)
Texts == {<<>>, <<a, QUOTE>>, <<BACKSLASH>>, <<"wide", "other">>}
           \cup (IF Careful THEN {} ELSE {<<LF>>})
Numbers == {Value("number", text, <<>>, <<>>):
              text \in {<<"1">>, <<"-", "1", ".", "2">>, <<"1", "e", "+", "2", "2">>}}
Leaves == Numbers \cup {Simple("true"), Simple("null")} \cup {Str(t): t \in Texts}
Nested(subs) == {Value("array", <<>>, <<>>, s): s \in subs}
                  \cup {Value("object", <<>>, [i \in DOMAIN s |-> IF i = 1 THEN <<>> ELSE <<a>>], s):
                          s \in subs}
Flat == Nested({<<>>, <<Simple("false")>>, <<One, One>>, <<Str(<<a>>), Simple("true")>>})
Values == Leaves \cup Flat
            \cup Nested({<<v>>: v \in Flat} \cup {<<v, Simple("null")>>: v \in Flat}
                          \cup {<<One, v>>: v \in Flat})

Compact(v) == Serialize(v, FALSE, 0)
Spoilers == {"[", "]", "}", ",", ":", QUOTE, "1", " ", "t", "-", ".", "e"}
Spoilt(text) ==
  {RemoveAt(text, i): i \in DOMAIN text}
    \cup {[text EXCEPT ![i] = c]: i \in DOMAIN text, c \in Spoilers}
    \cup {InsertAt(text, i, c): i \in DOMAIN text, c \in Spoilers}
Halves == {<<QUOTE, BACKSLASH, "u", "hi", QUOTE, ",", QUOTE, BACKSLASH, "u", "lo", QUOTE>>,
           <<QUOTE, BACKSLASH, "u", "hi", a, BACKSLASH, "u", "lo", QUOTE>>}

(* No first half of a pair stands alone.                                    *)
WellPaired(text) ==
  \A i \in DOMAIN text:
    text[i] = "hi" => i + 3 <= Len(text) /\ SubSeq(text, i + 1, i + 3) = <<BACKSLASH, "u", "lo">>

Init ==
  /\ \/ \E v \in Values: value = v /\ doc \in {Compact(v), Serialize(v, TRUE, 0)}
     \/ \E v \in Leaves \cup Flat: value = Simple("none") /\ doc \in Spoilt(Compact(v))
     \/ value = Simple("none") /\ doc \in {<<"[">> \o h \o <<"]">>: h \in Halves}
  /\ Careful => WellPaired(doc)
  /\ sent = 0 /\ parser = NewParser

FeedPiece(n) ==
  /\ parser.end = "ok" /\ sent < Len(doc)
  /\ \E to \in {IF sent + n < Len(doc) THEN sent + n ELSE Len(doc)}:
       /\ parser' = FeedParser(parser, SubSeq(doc, sent + 1, to))
       /\ sent' = to
  /\ UNCHANGED <<value, doc>>

EndOfText ==
  /\ parser.end = "ok" /\ sent = Len(doc)
  /\ parser' = FinishParser(parser)
  /\ UNCHANGED <<value, doc, sent>>

Next == EndOfText \/ FeedPiece(PieceLength)

Spec == Init /\ [][Next]_vars

(* A text means what its characters say: outside strings blanks do not      *)
(* matter, nor does a comma before the end of an array or object.           *)
InString(text, i) ==
  LET before == SelectSeq([j \in 1..(i - 1) |-> j],
                          LAMBDA j: text[j] = QUOTE /\ (j = 1 \/ text[j-1] # BACKSLASH
                                      \/ (j > 2 /\ text[j-2] = BACKSLASH)))
  IN  Len(before) % 2 = 1
Bare(text) ==
  LET kept == SelectSeq([i \in DOMAIN text |-> <<text[i], InString(text, i)>>],
                        LAMBDA e: e[2] \/ e[1] \notin Blanks)
      comma(i) == kept[i] = <<",", FALSE>> /\ i < Len(kept) /\ kept[i+1][1] \in {"]", "}"}
      used == SelectSeq([i \in DOMAIN kept |-> i], LAMBDA i: ~comma(i))
  IN  [i \in DOMAIN used |-> kept[used[i]][1]]

(* A run of characters that the parser takes for a number, and is none:     *)
(* 1-2, 1.2.3, 1e, or a sign alone.                                         *)
HasBadNumeral(text) ==
  \E i \in DOMAIN text:
    /\ text[i] \in Digits \cup Signs /\ ~InString(text, i)
    /\ i = 1 \/ text[i-1] \notin NumberChars \cup Letters
    /\ \E j \in i..Len(text):
         /\ \A k \in i..j: text[k] \in NumberChars
         /\ j = Len(text) \/ text[j+1] \notin NumberChars
         /\ ~IsNumeral(SubSeq(text, i, j))

(* The values found are those the text says, and it says nothing else. This *)
(* is not so for a text with what looks like a number and is none, which    *)
(* the parser takes for the number that it begins with, or for 0            *)
(* (dsk-json-parser.c:279); it is left out if Careful.                      *)
ParsedAsWritten ==
  parser.end = "finished" =>
    \/ Careful /\ HasBadNumeral(doc)
    \/ FoldLeft(LAMBDA all, v: all \o Compact(v), <<>>, parser.queue) = Bare(doc)

(* What the library writes the library reads.                               *)
RoundTrips ==
  value.type # "none" =>
    /\ parser.end # "error"
    /\ parser.end = "finished" => parser.queue = <<value>>

=============================================================================
