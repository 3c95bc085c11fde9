------------------------------ MODULE DskPattern ------------------------------
(***************************************************************************)
(* Regular expressions (dsk-pattern.c): a text is cut into tokens, these    *)
(* are reduced to a pattern, patterns become one nondeterministic automaton *)
(* whose states are shared and changed in place, and that is run as a       *)
(* deterministic one. A state of the latter is the set of the former's      *)
(* states it was made for; how its moves are packed into ranges of          *)
(* characters and found by bisection is left out. A text is a sequence of   *)
(* characters, strings of length 1; three letters stand for all of them.    *)
(***************************************************************************)
EXTENDS Naturals, Sequences, SequencesExt, FiniteSetsExt

Zero == "Zero"
Characters ==
  <<"(", ")", "*", "+", "-", ".", "?", "[", "\\", "]", "^", "a", "b", "c", "|">>
Letters == {"a", "b", "c"}
Place(c) == IF c = Zero THEN 0 ELSE CHOOSE i \in DOMAIN Characters: Characters[i] = c

(* A class is a set of characters. That of Zero alone is the null pointer,   *)
(* which elsewhere says that a move takes no character.                     *)
NullClass == {Zero}
CharClassDot == ToSet(Characters)
Reversed(class) == CharClassDot \ class

Error == [type |-> "error"]
Literal(class) == [type |-> "literal", class |-> class]
Unary(type, p) == [type |-> type, a |-> p]
Binary(type, p, q) == [type |-> type, a |-> p, b |-> q]
EmptyPattern == [type |-> "unset"]     \* the empty pattern, whose type is never written

-----------------------------------------------------------------------------
(* get_backslash_char_class: a class and the text behind it. \0 stands for  *)
(* the codes in octal, \w for the classes with a name.                      *)
Piece(ok, class, rest) == [ok |-> ok, class |-> class, rest |-> rest]
Failed == Piece(FALSE, {}, <<>>)

BackslashClass(at) ==
  CASE at # <<>> /\ at[1] \in CharClassDot \ Letters -> Piece(TRUE, {at[1]}, Tail(at))
    [] at # <<>> /\ at[1] = "0" -> Piece(TRUE, NullClass, Tail(at))
    [] at # <<>> /\ at[1] = "w" -> Piece(TRUE, Letters, Tail(at))
    [] OTHER -> Failed

(* parse_character_class, from behind the bracket or the circumflex: one    *)
(* character, class or range after the other is added to class.             *)
ClassItem(at) ==
  CASE at = <<>> -> Piece(TRUE, NullClass, <<>>)
    [] at # <<>> /\ at[1] = "\\" -> BackslashClass(Tail(at))
    [] OTHER -> Piece(TRUE, {at[1]}, Tail(at))

Only(class) == CHOOSE c \in class: TRUE
IsSingle(piece) == Cardinality(piece.class) = 1

RangeClass(first, at, last) ==
  IF (at # <<>> /\ at[1] = "]") \/ ~last.ok \/ ~IsSingle(last)
     \/ Place(Only(first)) > Place(Only(last.class))
  THEN Failed
  ELSE Piece(TRUE, {c \in CharClassDot \cup {Zero}:
                      Place(c) \in Place(Only(first))..Place(Only(last.class))}, last.rest)

RangeOrItem(item) ==
  IF item.ok /\ IsSingle(item) /\ item.rest # <<>> /\ item.rest[1] = "-"
  THEN RangeClass(item.class, Tail(item.rest), ClassItem(Tail(item.rest)))
  ELSE item

RECURSIVE ClassItems(_, _)
MoreItems(class, piece) ==
  IF ~piece.ok THEN Failed ELSE ClassItems(class \cup piece.class, piece.rest)
ClassItems(class, at) ==
  IF at = <<>> \/ at[1] = "]" THEN Piece(TRUE, class, at)
  ELSE MoreItems(class, RangeOrItem(ClassItem(at)))

Bracketed(reverse, piece) ==
  IF ~piece.ok \/ piece.rest = <<>> THEN Failed
  ELSE Piece(TRUE, IF reverse THEN Reversed(piece.class) ELSE piece.class, Tail(piece.rest))
CharacterClass(at) ==
  IF at # <<>> /\ at[1] = "^" THEN Bracketed(TRUE, ClassItems({}, Tail(at)))
  ELSE Bracketed(FALSE, ClassItems({}, at))

(* tokenize. A token that is a pattern carries it.                          *)
Operators == {"*", "+", "?", "(", ")", "|"}
PatternToken(p) == [type |-> "pattern", pattern |-> p]

RECURSIVE Tokenize(_, _)
WithClass(tokens, piece) ==
  IF ~piece.ok THEN <<Error>>
  ELSE Tokenize(piece.rest, Append(tokens, PatternToken(Literal(piece.class))))
Tokenize(at, tokens) ==
  CASE at = <<>> -> tokens
    [] at # <<>> /\ at[1] \in Operators -> Tokenize(Tail(at), Append(tokens, [type |-> at[1]]))
    [] at # <<>> /\ at[1] = "[" -> WithClass(tokens, CharacterClass(Tail(at)))
    [] at # <<>> /\ at[1] = "\\" -> WithClass(tokens, BackslashClass(Tail(at)))
    [] at # <<>> /\ at[1] = "." -> WithClass(tokens, Piece(TRUE, CharClassDot, Tail(at)))
    [] OTHER -> WithClass(tokens, Piece(TRUE, {at[1]}, Tail(at)))

-----------------------------------------------------------------------------
(* parse_pattern: parentheses, then *, + and ?, then concatenation, then    *)
(* alternatives, each over the whole list of tokens.                        *)
Is(tokens, i, type) == tokens[i].type = type
Depth(tokens, from, to) ==
  Cardinality({i \in from..to: Is(tokens, i, "(")}) - Cardinality({i \in from..to: Is(tokens, i, ")")})
Closers(tokens, from) ==
  {i \in from..Len(tokens): Is(tokens, i, ")") /\ Depth(tokens, from, i) = 0}
Parens(tokens) == {i \in DOMAIN tokens: tokens[i].type \in {"(", ")"}}

Quantifier == [t \in {"*", "+", "?"} |->
                 CASE t = "*" -> "star" [] t = "+" -> "plus" [] OTHER -> "optional"]
Quantified(tokens, t) ==
  IF t.type \notin DOMAIN Quantifier THEN Append(tokens, t)
  ELSE IF tokens = <<>> \/ Last(tokens).type # "pattern" THEN <<Error>>
  ELSE Append(Front(tokens), PatternToken(Unary(Quantifier[t.type], Last(tokens).pattern)))

Concatenated(tokens, t) ==
  IF t.type = "pattern" /\ tokens # <<>> /\ Last(tokens).type = "pattern"
  THEN Append(Front(tokens), PatternToken(Binary("concat", Last(tokens).pattern, t.pattern)))
  ELSE Append(tokens, t)

HasEmpty(tokens) ==
  \/ tokens = <<>> \/ Is(tokens, 1, "|") \/ Is(tokens, Len(tokens), "|")
  \/ \E i \in 1..Len(tokens) - 1: Is(tokens, i, "|") /\ Is(tokens, i + 1, "|")
Patterns(tokens) == SelectSeq(tokens, LAMBDA t: t.type = "pattern")
Alternatives(tokens) ==
  (IF HasEmpty(tokens) THEN <<EmptyPattern>> ELSE <<>>)
    \o [i \in DOMAIN Patterns(tokens) |-> Patterns(tokens)[i].pattern]
Alternation(ps) == FoldLeft(LAMBDA p, q: Binary("alt", p, q), ps[1], Tail(ps))

HasError(tokens) == \E i \in DOMAIN tokens: tokens[i] = Error
Reduced(tokens) ==
  IF HasError(tokens) THEN Error
  ELSE Alternation(Alternatives(FoldLeft(Concatenated, <<>>, tokens)))

RECURSIVE ParsePattern(_), OpenParens(_)
Parenthesized(tokens, from, to, p) ==
  IF p = Error THEN <<Error>>
  ELSE OpenParens(SubSeq(tokens, 1, from - 1) \o <<PatternToken(p)>>
                    \o SubSeq(tokens, to + 1, Len(tokens)))
OpenParens(tokens) ==
  IF Parens(tokens) = {} THEN tokens
  ELSE IF Is(tokens, Min(Parens(tokens)), ")") \/ Closers(tokens, Min(Parens(tokens))) = {}
  THEN <<Error>>
  ELSE Parenthesized(tokens, Min(Parens(tokens)), Min(Closers(tokens, Min(Parens(tokens)))),
                     ParsePattern(SubSeq(tokens, Min(Parens(tokens)) + 1,
                                         Min(Closers(tokens, Min(Parens(tokens)))) - 1)))
ParsePattern(tokens) ==
  IF HasError(tokens) THEN Error
  ELSE Reduced(FoldLeft(Quantified, <<>>, OpenParens(tokens)))

-----------------------------------------------------------------------------
(* The automaton: the moves out of each state, and which pattern it ends,   *)
(* or 0. A move is a class and a state.                                     *)
NoStates == [moves |-> <<>>, ends |-> <<>>]
Size(nfa) == Len(nfa.moves)
NewState(nfa, moves, ends) ==
  [moves |-> Append(nfa.moves, moves), ends |-> Append(nfa.ends, ends)]
WithMoves(nfa, s, moves) == [nfa EXCEPT !.moves[s] = @ \cup moves]
Built(nfa, at) == [nfa |-> nfa, at |-> at]

(* pattern_to_nfa_state. No state is made for the pattern alone: the start  *)
(* of an alternative gets the moves of the other's, the state that comes    *)
(* after a plus gets a move back, whoever else comes to them.               *)
Alternated(a, b) == Built(WithMoves(b.nfa, a.at, b.nfa.moves[b.at]), a.at)
Skippable(a, result) == Built(WithMoves(a.nfa, a.at, {<<NullClass, result>>}), a.at)
Repeated(a, result) == Built(WithMoves(a.nfa, result, {<<NullClass, a.at>>}), a.at)

RECURSIVE PatternToNfa(_, _, _)
SecondAlternated(a, q, result) == Alternated(a, PatternToNfa(q, result, a.nfa))
FirstConcatenated(p, b) == PatternToNfa(p, b.at, b.nfa)
Starred(p, result, nfa) ==
  Repeated(Skippable(PatternToNfa(p, result, nfa), result), result)
PatternToNfa(p, result, nfa) ==
  CASE p.type = "literal" ->
         Built(NewState(nfa, {<<p.class, result>>}, 0), Size(nfa) + 1)
    [] p.type = "alt" -> SecondAlternated(PatternToNfa(p.a, result, nfa), p.b, result)
    [] p.type = "concat" -> FirstConcatenated(p.a, PatternToNfa(p.b, result, nfa))
    [] p.type = "optional" -> Skippable(PatternToNfa(p.a, result, nfa), result)
    [] p.type = "plus" -> Repeated(PatternToNfa(p.a, result, nfa), result)
    [] p.type = "star" ->
         Starred(p.a, Size(nfa) + 1, NewState(nfa, {<<NullClass, result>>}, 0))

(* nfa_state_prune_null_transitions on every state: it gets the moves, and  *)
(* the end, of the states it reaches without a character. A state that was  *)
(* pruned before has those of the states behind it, so their order does not *)
(* matter.                                                                  *)
RECURSIVE Reached(_, _)
ReachedOr(nfa, states, more) ==
  IF more \subseteq states THEN states ELSE Reached(nfa, states \cup more)
Reached(nfa, states) ==
  ReachedOr(nfa, states, {t[2]: t \in {t \in UNION {nfa.moves[s]: s \in states}: t[1] = NullClass}})
PrunedMoves(nfa, states) ==
  {t \in UNION {nfa.moves[s]: s \in states}: t[1] # NullClass}
PrunedEnd(nfa, states) == Max({nfa.ends[s]: s \in states})
Pruned(nfa) ==
  [moves |-> [s \in DOMAIN nfa.moves |-> PrunedMoves(nfa, Reached(nfa, {s}))],
   ends |-> [s \in DOMAIN nfa.ends |-> PrunedEnd(nfa, Reached(nfa, {s}))]]

(* dsk_pattern_compile: the automaton of all entries, and where each starts.*)
Entered(all, built) == [nfa |-> built.nfa, init |-> all.init \cup {built.at}, error |-> FALSE]
Entry(all, p) ==
  IF p = Error \/ all.error THEN [all EXCEPT !.error = TRUE]
  ELSE Entered(all, PatternToNfa(p, Size(all.nfa) + 1,
                                 NewState(all.nfa, {}, Cardinality(all.init) + 1)))
Complete(all) == [all EXCEPT !.nfa = Pruned(@)]
PatternCompile(texts) ==
  Complete(FoldLeft(LAMBDA all, t: Entry(all, ParsePattern(Tokenize(t, <<>>))),
                    [nfa |-> NoStates, init |-> {}, error |-> FALSE], texts))

(* dsk_pattern_match: one character, and the entry found at the end.        *)
After(nfa, states, c) ==
  {t[2]: t \in {t \in UNION {nfa.moves[s]: s \in states}: c \in t[1]}}
Found(nfa, states) ==
  LET ends == {nfa.ends[s]: s \in states} \ {0}
  IN  IF ends = {} THEN 0 ELSE Min(ends)

-----------------------------------------------------------------------------
(* A pattern, or two of them, is compiled, and then given a text character  *)
(* by character. A pattern is built as a tree, which says what it means;    *)
(* the library gets its text.                                               *)

CONSTANTS MaxTyped,     \* bound: characters matched
          Careful       \* leave out what the code gets wrong

VARIABLES meant,        \* the patterns; one of type "text" is a text that is none
          automaton,    \* what they are compiled to
          states,       \* the state of the automaton
          typed         \* the characters so far

vars == <<meant, automaton, states, typed>>

(* The text of a tree, with as many parentheses as it needs. The classes    *)
(* have names here.                                                         *)
ClassText ==
  [a |-> <<"a">>, b |-> <<"b">>, ab |-> <<"[", "a", "-", "b", "]">>,
   notb |-> <<"[", "^", "b", "]">>, any |-> <<".">>, w |-> <<"\\", "w">>]
ClassMeant ==
  [a |-> {"a"}, b |-> {"b"}, ab |-> {"a", "b"}, notb |-> CharClassDot \ {"b"},
   any |-> CharClassDot, w |-> Letters]
Level == [literal |-> 3, optional |-> 2, star |-> 2, plus |-> 2, concat |-> 1, alt |-> 0]
RECURSIVE Text(_, _)
Bare(p) ==
  CASE p.type = "literal" -> ClassText[p.class]
    [] p.type \in {"optional", "star", "plus"} ->
         Append(Text(p.a, 2), CHOOSE t \in DOMAIN Quantifier: Quantifier[t] = p.type)
    [] p.type = "concat" -> Text(p.a, 1) \o Text(p.b, 1)
    [] p.type = "alt" -> Text(p.a, 0) \o <<"|">> \o Text(p.b, 0)
Text(p, level) == IF Level[p.type] < level THEN <<"(">> \o Bare(p) \o <<")">> ELSE Bare(p)

(* The words a tree stands for.                                             *)
RECURSIVE Matches(_, _)
Matches(p, w) ==
  CASE p.type = "literal" -> Len(w) = 1 /\ w[1] \in ClassMeant[p.class]
    [] p.type = "alt" -> Matches(p.a, w) \/ Matches(p.b, w)
    [] p.type = "concat" ->
         \E i \in 0..Len(w): Matches(p.a, SubSeq(w, 1, i)) /\ Matches(p.b, SubSeq(w, i + 1, Len(w)))
    [] p.type = "optional" -> w = <<>> \/ Matches(p.a, w)
    [] OTHER -> 
         \/ IF p.type = "star" THEN w = <<>> ELSE Matches(p.a, w)
         \/ \E i \in 1..Len(w): Matches(p.a, SubSeq(w, 1, i)) /\ Matches(p, SubSeq(w, i + 1, Len(w)))

Leaves == {Literal(c): c \in {"a", "b"}}
Unaries(ps) == {Unary(type, p): type \in {"optional", "star", "plus"}, p \in ps}
Binaries(ps, qs) == {Binary(type, p, q): type \in {"concat", "alt"}, p \in ps, q \in qs}
Simple == {Literal(c): c \in DOMAIN ClassText} \cup Unaries(Leaves) \cup Binaries(Leaves, Leaves)
Loops == Unaries(Leaves)
Trees ==
  UNION {Simple, Unaries(Simple), Binaries(Simple, Simple),
         Unaries(Binaries(Loops, Leaves) \cup Binaries(Leaves, Loops)),
         Binaries(Binaries(Leaves, Loops), Leaves), Binaries(Leaves, Binaries(Loops, Leaves)),
         Unaries(Unaries(Binaries(Loops, Leaves)))}

(* As no state is made for a pattern as such, the automaton of one may be   *)
(* entered again by its first state, in its middle even, and the state      *)
(* behind one that ends in a plus leads back into it. Whoever shares that   *)
(* state then accepts words it should not: "ab" for a*|b, "ba" for b|a+,    *)
(* "a" for (a*b)?, "b" for (ab+)*, "aba" for a+b*. Sound: none of that.     *)
RECURSIVE Restarts(_), Midway(_), EndsOpen(_), EndsInside(_), Sound(_)
Restarts(p) ==
  p.type # "literal" /\ (p.type \in {"star", "plus"} \/ Restarts(p.a))
Midway(p) ==
  p.type # "literal" /\ (IF p.type = "concat" THEN Restarts(p.a) ELSE Midway(p.a))
EndsOpen(p) ==
  CASE p.type = "plus" -> TRUE
    [] p.type = "concat" -> EndsOpen(p.b)
    [] p.type = "alt" -> EndsOpen(p.a) \/ EndsOpen(p.b)
    [] p.type = "optional" -> EndsOpen(p.a)
    [] OTHER -> FALSE
EndsInside(p) ==
  /\ p.type \notin {"literal", "star"}
  /\ IF p.type = "concat" THEN EndsOpen(p.b) ELSE EndsInside(p.a)
Sound(p) ==
  CASE p.type = "literal" -> TRUE
    [] p.type = "alt" -> /\ Sound(p.a) /\ Sound(p.b)
                         /\ ~Restarts(p.a) /\ ~EndsOpen(p.a) /\ ~EndsOpen(p.b)
    [] p.type = "concat" -> Sound(p.a) /\ Sound(p.b) /\ ~(EndsOpen(p.a) /\ Restarts(p.b))
    [] p.type \in {"optional", "star"} -> Sound(p.a) /\ ~Midway(p.a) /\ ~EndsInside(p.a)
    [] p.type = "plus" -> Sound(p.a)

Malformed ==
  {<<"(">>, <<"a", ")">>, <<"*">>, <<"a", "|", "+">>, <<"(", "?", ")">>, <<"(", "(", "a", ")">>,
   <<"[", "a">>, <<"[", "b", "-", "a", "]">>, <<"[", "a", "-", "]">>,
   <<"[", "a", "-", "\\", "w", "]">>, <<"\\">>}

PatternText(p) == IF p.type = "text" THEN p.a ELSE Text(p, 0)
Compiled(all) == automaton = all /\ states = all.init

Init ==
  /\ \/ \E p \in Trees: meant = <<p>>
     \/ \E p \in Simple, q \in Simple: meant = <<p, q>>
     \/ \E t \in Malformed: meant = <<Unary("text", t)>>
  /\ Careful => \A i \in DOMAIN meant: meant[i].type # "text" => Sound(meant[i])
  /\ Compiled(PatternCompile([i \in DOMAIN meant |-> PatternText(meant[i])]))
  /\ typed = <<>>

Type(c) ==
  /\ ~automaton.error /\ Len(typed) < MaxTyped /\ states # {}
  /\ states' = After(automaton.nfa, states, c)
  /\ typed' = Append(typed, c)
  /\ UNCHANGED <<meant, automaton>>

Next == \E c \in {"a", "b"}: Type(c)
Spec == Init /\ [][Next]_vars

FirstOf(ps, w) ==
  LET which == {i \in DOMAIN ps: Matches(ps[i], w)}
  IN  IF which = {} THEN 0 ELSE Min(which)

(* A text matches the first of the patterns that mean it, and none if none  *)
(* does; a text that is no pattern is refused.                              *)
MatchesPattern ==
  /\ automaton.error <=> \E i \in DOMAIN meant: meant[i].type = "text"
  /\ ~automaton.error => Found(automaton.nfa, states) = FirstOf(meant, typed)

===============================================================================
