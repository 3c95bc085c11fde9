--------------------------------- MODULE DskXml ---------------------------------
(***************************************************************************)
(* XML written (dsk-xml.c) and parsed (dsk-xml-parser.c, with IGNORE_NS).   *)
(* The parser is fed in pieces and keeps its place in the lexer between     *)
(* them; elements whose path was asked for, and what is in them, become     *)
(* nodes. A string is a sequence of characters, strings of length 1. Line   *)
(* numbers, namespaces and characters of several octets are left out.       *)
(***************************************************************************)
EXTENDS Naturals, Sequences, SequencesExt, FiniteSetsExt

CONSTANTS MaxDepth,         \* MAX_DEPTH
          MaxEntityRef      \* MAX_ENTITY_REF_LENGTH

Blanks == {" ", "\n"}
Zero == "NUL"
Dash == "-"
Colon == ":"

TextNode(str) == [type |-> "text", str |-> str]
CommentNode(str) == [type |-> "comment", str |-> str]
Element(name, attrs, children) ==
  [type |-> "element", name |-> name, attrs |-> attrs, children |-> children]

-----------------------------------------------------------------------------
(* dsk_xml_write_to_buffer. *)
Entity ==
  [c \in {"<", ">", "&", "\""} |->
     CASE c = "<" -> <<"&", "l", "t", ";">> [] c = ">" -> <<"&", "g", "t", ";">>
       [] c = "&" -> <<"&", "a", "m", "p", ";">> [] OTHER -> <<"&", "q", "u", "o", "t", ";">>]
EscapeString(str) ==
  FlattenSeq([i \in DOMAIN str |-> IF str[i] \in DOMAIN Entity THEN Entity[str[i]] ELSE <<str[i]>>])

AttrText(attr) ==
  <<" ">> \o EscapeString(attr[1]) \o <<"=", "\"">> \o EscapeString(attr[2]) \o <<"\"">>
RECURSIVE Written(_)
Written(xml) ==
  CASE xml.type = "element" ->
         <<"<">> \o EscapeString(xml.name)
           \o FlattenSeq([i \in DOMAIN xml.attrs |-> AttrText(xml.attrs[i])]) \o <<">">>
           \o FlattenSeq([i \in DOMAIN xml.children |-> Written(xml.children[i])])
           \o <<"<", "/">> \o EscapeString(xml.name) \o <<">">>
    [] xml.type = "text" -> EscapeString(xml.str)
    [] xml.type = "comment" ->
         <<"<", "!", "-", "-", " ">> \o EscapeString(xml.str) \o <<"-", "-", ">">>

(* _dsk_xml_new_elt_parse, from the name and the attributes as they lie in *)
(* the buffer, each with a NUL behind it. Runs of text become one. *)
Strings(kv) ==
  LET ends == <<0>> \o SelectSeq([i \in DOMAIN kv |-> IF kv[i] = Zero THEN i ELSE 0],
                                 LAMBDA i: i # 0)
  IN  [j \in 1..Len(ends) - 1 |-> SubSeq(kv, ends[j] + 1, ends[j + 1] - 1)]
Joined(nodes, node) ==
  IF nodes # <<>> /\ node.type = "text" /\ Last(nodes).type = "text"
  THEN Append(Front(nodes), TextNode(Last(nodes).str \o node.str))
  ELSE Append(nodes, node)
Condensed(children) == FoldLeft(Joined, <<>>, children)
NewElement(kv, n_attrs, children, condense_text) ==
  LET strs == Strings(kv)
  IN  Element(strs[1], [i \in 1..n_attrs |-> <<strs[2 * i], strs[2 * i + 1]>>],
              IF condense_text THEN Condensed(children) ELSE children)

-----------------------------------------------------------------------------
(* dsk_xml_parser_config_new: the paths as a tree. "*" starts as a name *)
(* like any other; then what follows it is joined into what follows each of *)
(* its siblings. *)
Star == <<"*">>
NewParseState == [ret |-> {}, transitions |-> <<>>, wildcard |-> <<>>]
Names(state) == DOMAIN state.transitions
Transition(state, name) ==
  IF name \in Names(state) THEN state.transitions[name] ELSE NewParseState

RECURSIVE WithPath(_, _, _)
WithPath(state, path, i) ==
  IF path = <<>> THEN [state EXCEPT !.ret = @ \cup {i}]
  ELSE [state EXCEPT !.transitions =
          [n \in Names(state) \cup {path[1]} |->
             IF n = path[1] THEN WithPath(Transition(state, n), Tail(path), i) ELSE @[n]]]

RECURSIVE UnionCopy(_, _)
UnionCopy(dst, src) ==
  [dst EXCEPT !.ret = @ \cup src.ret,
              !.transitions =
     [n \in Names(dst) \cup Names(src) |->
        IF n \in Names(src) THEN UnionCopy(Transition(dst, n), src.transitions[n]) ELSE @[n]]]

RECURSIVE ExpandWildcards(_)
ExpandWildcards(state) ==
  [state EXCEPT
     !.wildcard = IF Star \in Names(state) THEN <<ExpandWildcards(state.transitions[Star])>> ELSE <<>>,
     !.transitions = [n \in Names(state) \ {Star} |->
        ExpandWildcards(IF Star \in Names(state) THEN UnionCopy(@[n], @[Star]) ELSE @[n])]]

NewConfig(paths, include_comments) ==
  [base |-> ExpandWildcards(FoldLeft(LAMBDA s, i: WithPath(s, paths[i], i), NewParseState,
                                     [i \in DOMAIN paths |-> i])),
   include_comments |-> include_comments]

NextState(state, name) ==
  CASE name \in Names(state) -> state.transitions[name]
    [] name \notin Names(state) /\ state.wildcard # <<>> -> state.wildcard[1]
    [] OTHER -> NewParseState

-----------------------------------------------------------------------------
(* The parser. counted is entity_buf_len, unread what this piece has added *)
(* to an entity without counting it; label is where the lexer is, which is *)
(* lex_state but in one case. *)
StackNode(kv, n_attrs, state, needed) ==
  [kv |-> kv, n_attrs |-> n_attrs, state |-> state, needed |-> needed,
   condense_text |-> FALSE, children |-> <<>>]
NewParser(config) ==
  [lex_state |-> "DEFAULT", label |-> "DEFAULT", buffer |-> <<>>, n_attrs |-> 0,
   entity_buf |-> <<>>, counted |-> 0, unread |-> 0,
   stack |-> <<StackNode(<<>>, 0, config.base, FALSE)>>, results |-> <<>>,
   config |-> config, ok |-> TRUE]

Top(p) == Last(p.stack)
Suppressed(p) == ~Top(p).needed
To(p, state) == [p EXCEPT !.lex_state = state, !.label = state]
Bad(p) == [p EXCEPT !.ok = FALSE]
Put(p, c) == [p EXCEPT !.buffer = Append(@, c)]
Keep(p, c) == IF Suppressed(p) THEN p ELSE Put(p, c)
Clear(p) == [p EXCEPT !.buffer = <<>>]
Condense(p) == [p EXCEPT !.stack[Len(p.stack)].condense_text = TRUE]
AddChild(p, node) == [p EXCEPT !.stack[Len(p.stack)].children = Append(@, node)]

HandleTextNode(p) ==
  IF Zero \in ToSet(p.buffer) THEN Bad(p) ELSE Clear(AddChild(p, TextNode(p.buffer)))
HandleComment(p) ==
  IF Zero \in ToSet(p.buffer) THEN Bad(p) ELSE Clear(AddChild(p, CommentNode(p.buffer)))

(* utf_validate_open_element: in values a space is the only blank. (That it *)
(* fails an assertion when a name or value has a NUL in it is a fault too.) *)
ValidElement(kv, n_attrs) ==
  /\ Len(Strings(kv)) = 2 * n_attrs + 1
  /\ \A i \in DOMAIN Strings(kv):
       ToSet(Strings(kv)[i]) \cap (IF i % 2 = 1 /\ i > 1 THEN {"\n"} ELSE Blanks) = {}

Opened(p, state) ==
  Clear([p EXCEPT !.stack = Append(@, StackNode(p.buffer, p.n_attrs, state,
                                                 Top(p).needed \/ state.ret # {}))])
HandleOpenElement(p) ==
  IF ~ValidElement(p.buffer, p.n_attrs) \/ Len(p.stack) = MaxDepth THEN Bad(p)
  ELSE Opened(p, NextState(Top(p).state, Strings(p.buffer)[1]))

Results(p, node) ==
  [i \in 1..Cardinality(Top(p).state.ret) |->
     [index |-> SetToSortSeq(Top(p).state.ret, <)[i], xml |-> node]]
Popped(p) == Clear([p EXCEPT !.stack = Front(@), !.n_attrs = 0])
Completed(p, node) ==
  LET q == Popped([p EXCEPT !.results = @ \o Results(p, node)])
  IN  IF Suppressed(q) THEN q ELSE AddChild(q, node)
(* The name to be closed is taken without its prefix, the one it is *)
(* compared with is not. *)
Suffix(name) ==
  IF Colon \in ToSet(name) THEN SubSeq(name, SelectInSeq(name, LAMBDA c: c = Colon) + 1, Len(name)) ELSE name
HandleCloseElement(p) ==
  IF \/ Len(p.stack) = 1 \/ ~ValidElement(p.buffer, 0)
     \/ Suffix(Strings(p.buffer)[1]) # Strings(Top(p).kv)[1]
  THEN Bad(p)
  ELSE IF Suppressed(p) THEN Popped(p)
  ELSE Completed(p, NewElement(Top(p).kv, Top(p).n_attrs, Top(p).children, Top(p).condense_text))

(* handle_empty_element: the name is still in the buffer. *)
Reopened(p, name) ==
  IF p.ok THEN HandleCloseElement([p EXCEPT !.buffer = name \o <<Zero>>]) ELSE p
HandleEmptyElement(p) == Reopened(HandleOpenElement(p), Strings(p.buffer)[1])

(* handle_char_entity. It tests a letter or another where it should test *)
(* one and another, and a short name goes through the cases of the longer. *)
Digits == <<"0", "1", "2", "3", "4", "5", "6", "7", "8", "9", "a", "b", "c", "d", "e", "f">>
DigitsBelow(base) == {Digits[i]: i \in 1..base}
DigitValue(d) == (CHOOSE i \in DOMAIN Digits: Digits[i] = d) - 1
Number(digits, base) == FoldLeft(LAMBDA n, d: n * base + DigitValue(d), 0, digits)
CharOf(n) == CASE n = 0 -> Zero [] n = 38 -> "&" [] n = 60 -> "<" [] OTHER -> "?"
ByValue(p, digits, base) ==
  IF ToSet(digits) \subseteq DigitsBelow(base) THEN Put(p, CharOf(Number(digits, base))) ELSE Bad(p)
UnicodeByValue(p, b, n) ==
  CASE b[2] = "x" -> ByValue(p, SubSeq(b, 3, n), 16)
    [] b[2] \in DigitsBelow(10) -> ByValue(p, SubSeq(b, 2, n), 10)
    [] OTHER -> Bad(p)
Named(p, b, n) ==
  CASE n = 2 /\ SubSeq(b, 1, 2) = <<"l", "t">> -> Put(p, "<")
    [] n = 2 /\ SubSeq(b, 1, 2) = <<"g", "t">> -> Put(p, ">")
    [] n \in 2..3 /\ b[1] = "a" /\ (b[2] = "m" \/ b[3] = "p") -> Put(p, "&")
    [] n \in 2..4 /\ b[1] = "a" /\ (b[2] = "p" \/ b[3] = "o" \/ b[4] = "s") -> Put(p, "'")
    [] n \in 2..4 /\ b[1] = "q" /\ (b[2] = "u" \/ b[3] = "o" \/ b[4] = "t") -> Put(p, "\"")
    [] OTHER -> Bad(p)
Anything == <<"?", "?", "?", "?">>      \* what was in the memory
HandleCharEntity(p) ==
  IF p.counted < 2 THEN Bad(p)
  ELSE IF p.entity_buf[1] = "#" THEN UnicodeByValue(p, p.entity_buf, p.counted)
  ELSE Named(p, p.entity_buf \o Anything, p.counted)

-----------------------------------------------------------------------------
(* dsk_xml_parser_feed, character by character. *)
Default(p, c) ==
  CASE c = "<" -> To(IF Suppressed(p) \/ p.buffer = <<>> THEN Clear(p) ELSE HandleTextNode(p), "LT")
    [] c = "&" -> To([p EXCEPT !.counted = 0], "DEFAULT_ENTITY_REF")
    [] OTHER -> Keep(p, c)

Remembered(p, at, c) ==
  IF Suppressed(p) THEN p
  ELSE [p EXCEPT !.entity_buf = SubSeq(@, 1, at) \o <<c>> \o SubSeq(@, at + 2, Len(@))]
DefaultEntityRef(p, c) ==
  CASE c = ";" -> To(IF Suppressed(p) THEN p ELSE HandleCharEntity(p), "DEFAULT")
    [] c # ";" /\ p.counted = MaxEntityRef -> Bad(p)
    [] OTHER -> [Remembered(p, p.counted, c) EXCEPT !.counted = @ + 1]

Lt(p, c) ==
  CASE c = "!" -> To(p, "LT_BANG")
    [] c = "/" -> To(p, "LT_SLASH")
    [] c = "?" -> To(Condense(p), "PROCESSING_INSTRUCTION")
    [] c \in Blanks -> p
    [] OTHER -> To([Put(p, c) EXCEPT !.n_attrs = 0], "OPEN_ELEMENT_NAME")

OpenElementName(p, c) ==
  CASE c \in Blanks -> To(Put(p, Zero), "OPEN_IN_ATTRS")
    [] c = ">" -> To(HandleOpenElement(Put(p, Zero)), "DEFAULT")
    [] c = "/" -> To(Put(p, Zero), "OPEN_CLOSE")
    [] c = "=" -> Bad(p)
    [] OTHER -> Put(p, c)
OpenInAttrs(p, c) ==
  CASE c \in Blanks -> p
    [] c = ">" -> To(HandleOpenElement(p), "DEFAULT")
    [] c = "/" -> To(p, "OPEN_CLOSE")
    [] c = "=" -> Bad(p)
    [] OTHER -> To([Put(p, c) EXCEPT !.n_attrs = @ + 1], "OPEN_IN_ATTR_NAME")
OpenInAttrName(p, c) ==
  CASE c \in Blanks -> To(Put(p, Zero), "OPEN_AFTER_ATTR_NAME")
    [] c \in {">", "/"} -> Bad(p)
    [] c = "=" -> To(Put(p, Zero), "OPEN_AFTER_ATTR_NAME_EQ")
    [] OTHER -> Put(p, c)
OpenAfterAttrName(p, c) ==
  CASE c \in Blanks -> p
    [] c = "=" -> To(p, "OPEN_AFTER_ATTR_NAME_EQ")
    [] OTHER -> Bad(p)
(* A blank leads back to before the "=", for the rest of the piece. *)
OpenAfterAttrNameEq(p, c) ==
  CASE c \in Blanks -> [p EXCEPT !.label = "OPEN_AFTER_ATTR_NAME"]
    [] c = "\"" -> To(p, "OPEN_IN_ATTR_VALUE_DQ")
    [] c = "'" -> To(p, "OPEN_IN_ATTR_VALUE_SQ")
    [] OTHER -> Bad(p)
OpenInAttrValue(p, c, quote, entity_ref) ==
  CASE c = quote -> To(Put(p, Zero), "OPEN_IN_ATTRS")
    [] c = "&" -> To([p EXCEPT !.counted = 0, !.unread = 0], entity_ref)
    [] OTHER -> Put(p, c)
(* What this piece holds of the entity is not counted when it is used. *)
OpenInAttrValueEntityRef(p, c, value) ==
  CASE c = ";" -> To([IF Suppressed(p) THEN p ELSE HandleCharEntity(p) EXCEPT !.unread = 0], value)
    [] c # ";" /\ p.counted + p.unread = MaxEntityRef -> Bad(p)
    [] OTHER -> [Remembered(p, p.counted + p.unread, c) EXCEPT !.unread = @ + 1]

LtSlash(p, c) ==
  CASE c \in Blanks -> p
    [] c \in {"<", ">", "="} -> Bad(p)
    [] OTHER -> To(Put(p, c), "CLOSE_ELEMENT_NAME")
CloseElementName(p, c) ==
  CASE c \in Blanks -> To(p, "AFTER_CLOSE_ELEMENT_NAME")
    [] c \in {"<", "="} -> Bad(p)
    [] c = ">" -> To(HandleCloseElement(Put(p, Zero)), "DEFAULT")
    [] OTHER -> Put(p, c)
AfterCloseElementName(p, c) ==
  CASE c \in Blanks -> p
    [] c = ">" -> To(HandleCloseElement(Put(p, Zero)), "DEFAULT")
    [] OTHER -> Bad(p)
OpenClose(p, c) ==
  CASE c \in Blanks -> p
    [] c = ">" -> To(HandleEmptyElement(p), "DEFAULT")
    [] OTHER -> Bad(p)

LtBang(p, c) ==
  CASE c = "[" -> To(p, "LT_BANG_LBRACK")
    [] c = Dash -> To(p, "LT_BANG_MINUS")
    [] c \in Blanks -> p
    [] OTHER -> To(Put(Condense(Clear(p)), c), "BANG_DIRECTIVE")
LtBangMinus(p, c) == IF c = Dash THEN To(Condense(Clear(p)), "COMMENT") ELSE Bad(p)
KeepComment(p, c) == IF p.config.include_comments THEN Keep(p, c) ELSE p
Comment(p, c) == IF c = Dash THEN To(p, "COMMENT_MINUS") ELSE KeepComment(p, c)
(* The hyphen is put where it should not be, and what follows it is lost. *)
CommentMinus(p, c) ==
  IF c = Dash THEN To(p, "COMMENT_MINUS_MINUS") ELSE To(Put(p, Dash), "COMMENT")
CommentMinusMinus(p, c) ==
  CASE c = Dash -> KeepComment(p, Dash)
    [] c = ">" -> To(IF p.config.include_comments /\ ~Suppressed(p) THEN HandleComment(p) ELSE p,
                     "DEFAULT")
    [] OTHER -> To(p, "COMMENT")

CDATA == <<"C", "D", "A", "T", "A">>
LtBangLbrack(p, c) ==
  IF c = CDATA[1] THEN To([p EXCEPT !.counted = 1], "IN_CDATAHDR") ELSE Bad(p)
InCdataHdr(p, c) ==
  CASE c # CDATA[p.counted + 1] -> Bad(p)
    [] c = CDATA[p.counted + 1] /\ p.counted = 4 -> To([p EXCEPT !.counted = 5], "CDATAHDR")
    [] OTHER -> [p EXCEPT !.counted = @ + 1]
CdataHdr(p, c) ==
  CASE c \in Blanks -> p
    [] c = "[" -> To(Condense(p), "CDATA")
    [] OTHER -> Bad(p)
Cdata(p, c) == IF c = "]" THEN To(p, "CDATA_RBRACK") ELSE Keep(p, c)
CdataRbrack(p, c) ==
  IF c = "]" THEN To(p, "CDATA_RBRACK_RBRACK") ELSE To(Keep(Keep(p, "]"), c), "CDATA")
CdataRbrackRbrack(p, c) ==
  CASE c = "]" -> Keep(p, "]")
    [] c = ">" -> To(p, "DEFAULT")
    [] OTHER -> To(Put(Put(Put(p, "]"), "]"), c), "CDATA")

(* The text of a directive stays in the buffer. *)
BangDirective(p, c) == IF c = ">" THEN To(Put(p, c), "DEFAULT") ELSE Put(p, c)
ProcessingInstruction(p, c) == IF c = "?" THEN To(p, "PROCESSING_INSTRUCTION_QM") ELSE p
ProcessingInstructionQm(p, c) ==
  CASE c = "?" -> p [] c = ">" -> To(p, "DEFAULT") [] OTHER -> To(p, "PROCESSING_INSTRUCTION")

InTag(p, c) ==
  CASE p.label = "OPEN_ELEMENT_NAME" -> OpenElementName(p, c)
    [] p.label = "OPEN_IN_ATTRS" -> OpenInAttrs(p, c)
    [] p.label = "OPEN_IN_ATTR_NAME" -> OpenInAttrName(p, c)
    [] p.label = "OPEN_AFTER_ATTR_NAME" -> OpenAfterAttrName(p, c)
    [] p.label = "OPEN_AFTER_ATTR_NAME_EQ" -> OpenAfterAttrNameEq(p, c)
    [] p.label = "OPEN_IN_ATTR_VALUE_DQ" ->
         OpenInAttrValue(p, c, "\"", "OPEN_IN_ATTR_VALUE_DQ_ENTITY_REF")
    [] p.label = "OPEN_IN_ATTR_VALUE_SQ" ->
         OpenInAttrValue(p, c, "'", "OPEN_IN_ATTR_VALUE_SQ_ENTITY_REF")
    [] p.label = "OPEN_IN_ATTR_VALUE_DQ_ENTITY_REF" ->
         OpenInAttrValueEntityRef(p, c, "OPEN_IN_ATTR_VALUE_DQ")
    [] p.label = "OPEN_IN_ATTR_VALUE_SQ_ENTITY_REF" ->
         OpenInAttrValueEntityRef(p, c, "OPEN_IN_ATTR_VALUE_SQ")
    [] p.label = "LT_SLASH" -> LtSlash(p, c)
    [] p.label = "CLOSE_ELEMENT_NAME" -> CloseElementName(p, c)
    [] p.label = "AFTER_CLOSE_ELEMENT_NAME" -> AfterCloseElementName(p, c)
    [] p.label = "OPEN_CLOSE" -> OpenClose(p, c)
InMarkup(p, c) ==
  CASE p.label = "LT_BANG" -> LtBang(p, c)
    [] p.label = "LT_BANG_MINUS" -> LtBangMinus(p, c)
    [] p.label = "COMMENT" -> Comment(p, c)
    [] p.label = "COMMENT_MINUS" -> CommentMinus(p, c)
    [] p.label = "COMMENT_MINUS_MINUS" -> CommentMinusMinus(p, c)
    [] p.label = "LT_BANG_LBRACK" -> LtBangLbrack(p, c)
    [] p.label = "IN_CDATAHDR" -> InCdataHdr(p, c)
    [] p.label = "CDATAHDR" -> CdataHdr(p, c)
    [] p.label = "CDATA" -> Cdata(p, c)
    [] p.label = "CDATA_RBRACK" -> CdataRbrack(p, c)
    [] p.label = "CDATA_RBRACK_RBRACK" -> CdataRbrackRbrack(p, c)
    [] p.label = "BANG_DIRECTIVE" -> BangDirective(p, c)
    [] p.label = "PROCESSING_INSTRUCTION" -> ProcessingInstruction(p, c)
    [] p.label = "PROCESSING_INSTRUCTION_QM" -> ProcessingInstructionQm(p, c)
    [] OTHER -> InTag(p, c)
LexStep(p, c) ==
  CASE ~p.ok -> p
    [] p.ok /\ p.label = "DEFAULT" -> Default(p, c)
    [] p.ok /\ p.label = "DEFAULT_ENTITY_REF" -> DefaultEntityRef(p, c)
    [] p.ok /\ p.label = "LT" -> Lt(p, c)
    [] OTHER -> InMarkup(p, c)
EndOfPiece(p) ==
  [p EXCEPT !.label = p.lex_state, !.counted = @ + p.unread, !.unread = 0]
Feed(p, piece) == EndOfPiece(FoldLeft(LexStep, p, piece))

-----------------------------------------------------------------------------
(* A document is fed to the parser in pieces; the elements at some paths *)
(* are wanted. It is written by the library, or in one of the styles of *)
(* other programs, or is not well-formed. *)
CONSTANT Careful            \* leave out what the code gets wrong

VARIABLES xml,              \* the document
          style,            \* how it is written
          paths,            \* which elements are wanted
          unsent,           \* what was not fed yet
          lexer             \* the parser

vars == <<xml, style, paths, unsent, lexer>>

A == <<"a">>
B == <<"b">>
Texts == {TextNode(<<"b">>), TextNode(<<"<", "b", "&">>), TextNode(<<"]", "]">>)}
Comments == {CommentNode(<<"a">>), CommentNode(<<"a", "-", "b">>)}
Attrs == {<<>>, <<<<A, <<"b", " ">>>>>>}
Odd ==
  {Element(A, <<<<A, <<"<", "\"">>>>, <<B, <<>>>>>>, <<>>), Element(B, <<<<A, <<"\n">>>>>>, <<>>),
   Element(<<"b", ":", "a">>, <<>>, <<>>)}
Leaves == {Element(n, as, <<>>): n \in {A, B}, as \in Attrs}
Inner ==
  Leaves \cup Odd \cup {Element(n, <<>>, <<t>>): n \in {A, B}, t \in Texts}
    \cup {Element(A, <<>>, <<Element(B, <<>>, <<>>)>>)}
Documents ==
  {Element(n, <<>>, <<c>>): n \in {A, B}, c \in Inner}
    \cup {Element(A, as, <<t, e>>): as \in Attrs, t \in Texts, e \in Leaves \cup Comments}
    \cup {Element(A, <<>>, <<c, e>>): c \in Comments, e \in Texts \cup Leaves}
    \cup {Element(A, <<>>, <<t, c, u>>): t \in Texts, c \in Comments, u \in Texts}

Misnamed(e) == <<"<", "a", ">", "&">> \o e \o <<";", "<", "/", "a", ">">>
(* Not well-formed, though some have a well-formed element in them. *)
Malformed ==
  {<<"<", "/", "a", ">">>, <<"<", "a", ">", "<", "/", "b", ">">>, <<"<", "a", " ", "b", ">">>,
   <<"<", "a", "=", ">">>, <<"<", "a", " ", "=", ">">>, <<"<", "a", " ", "b", "=", "a", ">">>,
   <<"<", "a", " ", "b", " ", "b">>, <<"<", "a", "/", "b", ">">>, <<"<", "/", "a", " ", "b">>,
   <<"<", "/", "=">>, <<"<", "!", "-", "a">>, <<"<", "!", "[", "a">>, <<"<", "!", "[", "C", "A">>,
   <<"<", "!", "[", "C", "D", "A", "T", "A", "a">>,
   <<"<", "a", ">", "<", "a", ">", "<", "a", ">", "<", "a", ">">>}
    \cup {Misnamed(e):
            e \in {<<"l">>, <<"b", "t">>, <<"#", "x", "g">>, <<"#", "a">>, <<"#", "0">>,
                   <<"l", "t", "l", "t", "l">>, <<"a", "m">>, <<"a", "a", "p">>}}

-----------------------------------------------------------------------------
(* Other ways of writing. *)
Cut(str, c, by) == FlattenSeq([i \in DOMAIN str |-> IF str[i] = c THEN by ELSE <<str[i]>>])
Numeric(str) ==
  Cut(Cut(str, "&", <<"&", "#", "3", "8", ";">>), "<", <<"&", "#", "x", "3", "c", ";">>)
InCdata(str) ==
  <<"<", "!", "[">> \o CDATA \o <<" ", "[">> \o str \o <<"]", "]", ">">>
Instruction == <<"<", "?", "a", "?", "b", "?", "?", ">">>
Directive == <<"<", "!", "a", " ", "b", ">">>

RECURSIVE Rendered(_, _)
Children(x, s) == FlattenSeq([i \in DOMAIN x.children |-> Rendered(x.children[i], s)])
AttrRendered(attr, s) ==
  IF s = "loose" THEN <<"\n">> \o attr[1] \o <<" ", "=", "'">> \o attr[2] \o <<"'", " ">>
  ELSE <<" ">> \o attr[1] \o <<"=">> \o (IF s = "spaced" THEN <<" ">> ELSE <<>>)
         \o <<"'">> \o attr[2] \o <<"'">>
Rendered(x, s) ==
  CASE x.type = "text" ->
         IF s = "loose" THEN InCdata(x.str) ELSE Instruction \o Numeric(x.str)
    [] x.type = "comment" -> <<"<", "!", "-", "-">> \o x.str \o <<"-", "-", ">">>
    [] x.type = "element" /\ s = "loose" /\ x.children = <<>> ->
         <<"<">> \o x.name \o FlattenSeq([i \in DOMAIN x.attrs |-> AttrRendered(x.attrs[i], s)])
           \o <<"/", " ", ">">>
    [] OTHER ->
         <<"<">> \o (IF s = "loose" THEN <<" ">> ELSE <<>>) \o x.name
           \o FlattenSeq([i \in DOMAIN x.attrs |-> AttrRendered(x.attrs[i], s)]) \o <<">">>
           \o (IF s = "directive" THEN Directive ELSE <<>>) \o Children(x, s)
           \o <<"<", "/">> \o (IF s = "loose" THEN <<" ">> ELSE <<>>) \o x.name
           \o (IF s = "loose" THEN <<"\n">> ELSE <<>>) \o <<">">>
Styles == {"library", "loose", "strict", "spaced", "directive"}
InStyle(x, s) == IF s = "library" THEN Written(x) ELSE Directive \o Rendered(x, s)

(* What is wanted of it: in the order of the closing tags, for each path *)
(* that leads there, the element with its comments, or without. *)
RECURSIVE Plain(_, _)
Plain(x, comments) ==
  IF x.type # "element" THEN x
  ELSE [x EXCEPT !.children =
          Condensed([i \in DOMAIN SelectSeq(@, LAMBDA c: comments \/ c.type # "comment") |->
             Plain(SelectSeq(@, LAMBDA c: comments \/ c.type # "comment")[i], comments)])]
Leads(path, names) ==
  Len(path) = Len(names) /\ \A i \in DOMAIN path: path[i] \in {Star, names[i]}
RECURSIVE Wanted(_, _, _, _)
Wanted(x, names, ps, comments) ==
  IF x.type # "element" THEN <<>>
  ELSE FlattenSeq([i \in DOMAIN x.children |-> Wanted(x.children[i], Append(names, x.name), ps, comments)])
         \o [i \in DOMAIN SelectSeq([j \in DOMAIN ps |-> j], LAMBDA j: Leads(ps[j], Append(names, x.name))) |->
               [index |-> SelectSeq([j \in DOMAIN ps |-> j],
                                    LAMBDA j: Leads(ps[j], Append(names, x.name)))[i],
                xml |-> Plain(x, comments)]]

PathLists ==
  {<<<<A>>>>, <<<<Star, B>>, <<A, B>>>>, <<<<A, B>>, <<A, Star>>, <<A>>>>,
   <<<<B>>, <<Star>>, <<A, Star, Star>>, <<Star, A, B>>>>}

-----------------------------------------------------------------------------
(* What the code gets wrong: references in values, blanks behind "=", *)
(* hyphens in comments, directives in elements, prefixes, line ends in *)
(* values; a comment that is written gets a blank in front and is not *)
(* read as it was escaped. *)
RECURSIVE Parts(_)
Parts(x) ==
  {x} \cup (IF x.type = "element" THEN UNION {Parts(x.children[i]): i \in DOMAIN x.children} ELSE {})
HasReferences(x) ==
  x.type = "element" /\ \E i \in DOMAIN x.attrs: ToSet(x.attrs[i][2]) \cap DOMAIN Entity # {}
HasLineEnd(x) == x.type = "element" /\ \E i \in DOMAIN x.attrs: "\n" \in ToSet(x.attrs[i][2])
SparedPart(x, s) ==
  CASE x.type = "text" -> TRUE
    [] x.type = "comment" -> s # "library" /\ Dash \notin ToSet(x.str)
    [] OTHER -> /\ ~HasLineEnd(x) /\ Colon \notin ToSet(x.name)
                /\ s = "library" => ~HasReferences(x)
                /\ s = "spaced" => x.attrs = <<>>
Spared(x, s) == s # "directive" /\ \A y \in Parts(x): SparedPart(y, s)
SparedText(t) == t \notin {Misnamed(<<"a", "m">>), Misnamed(<<"a", "a", "p">>)}

Init ==
  /\ paths \in PathLists
  /\ \E comments \in BOOLEAN: lexer = NewParser(NewConfig(paths, comments))
  /\ \/ /\ xml \in Documents /\ style \in Styles
        /\ Careful => Spared(xml, style)
        /\ unsent = InStyle(xml, style)
     \/ /\ style = "none" /\ xml = Element(A, <<>>, <<>>)
        /\ unsent \in Malformed /\ <<A>> \in ToSet(paths)     \* so that text is looked at
        /\ Careful => SparedText(unsent)

FeedPiece(n) ==
  /\ lexer.ok /\ n \in 1..Len(unsent)
  /\ lexer' = Feed(lexer, SubSeq(unsent, 1, n))
  /\ unsent' = SubSeq(unsent, n + 1, Len(unsent))
  /\ UNCHANGED <<xml, style, paths>>

Next == \E n \in {3, Len(unsent)}: FeedPiece(n)
Spec == Init /\ [][Next]_vars

(* However a document is written, and in whatever pieces it comes, once it *)
(* has come the elements that were wanted have been found as they were *)
(* meant; from one that is not well-formed none is found. *)
ParsedAsWritten ==
  IF style = "none" THEN lexer.results = <<>> /\ (unsent = <<>> => ~lexer.ok)
  ELSE /\ lexer.ok
       /\ unsent = <<>> =>
            lexer.results = Wanted(xml, <<>>, paths, lexer.config.include_comments)

===============================================================================
