-------------------------------- MODULE MCDbcc --------------------------------
(***************************************************************************)
(* The compiler's values, expressions, layouts, initializers and switches    *)
(* beside what the language says of them: operations on pairs of small       *)
(* values, expressions that grow by an operator at a time, structures that   *)
(* grow by a member, and so on. With Careful, what the code is known to get  *)
(* wrong is left out; Careful = FALSE shows it.                              *)
(***************************************************************************)
EXTENDS Integers, Sequences, FiniteSets, SequencesExt

CONSTANTS ByteBits, Careful,
          MaxOperators,     \* bound: how often an expression grows
          MaxMembers        \* bound: the members of a structure, pieces of an initializer

VARIABLES asked,      \* the kind of question, and what it is about
          expr,       \* an expression, as the code has made it
          meaning     \* its type and value, as the language has them

Env == [alignof_int |-> [n \in {1, 2, 4, 8} |-> n],
        alignof_float |-> [r \in {"float", "double", "long double"} |-> IF r = "float" THEN 4 ELSE 8],
        sizeof_bool |-> 1, alignof_bool |-> 1, sizeof_long_double |-> 8, sizeof_int |-> 4,
        sizeof_long_int |-> 8, sizeof_pointer |-> 8,
        is_char_signed |-> TRUE, min_struct_alignof |-> 1, min_struct_sizeof |-> 1]
Type == INSTANCE DbccType WITH target_env <- Env, Careful <- TRUE

CInt == Type!GetIntType
CUInt == Type!GetUnsignedIntType
CLong == Type!GetLongType
CDouble == Type!GetDoubleType
CComplex == Type!GetComplexDoubleType
Color == Type!NewEnum(Type!EmptyTags, 1, <<[name |-> 1, value |-> 0], [name |-> 2, value |-> 3]>>).type
Point == Type!NewStruct(1, <<[name |-> 1, type |-> CInt], [name |-> 2, type |-> CDouble]>>)
IntPtr == Type!NewPointer(0, CInt)

GLOBAL(type) == [entry_type |-> "GLOBAL", type |-> type, value |-> 0]
Variables == <<GLOBAL(CInt), GLOBAL(Type!NewQualified(CInt, {"const"})), GLOBAL(IntPtr),
               GLOBAL(Type!NewPointer(0, Point)), GLOBAL(Point), GLOBAL(CDouble),
               [entry_type |-> "ENUM_VALUE", type |-> Color, value |-> 3],
               GLOBAL(Type!NewFunction(CInt, <<[name |-> 1, type |-> CInt]>>, FALSE))>>

INSTANCE DbccExpr WITH target_env <- Env, symbols <- Variables

-----------------------------------------------------------------------------
(* The language. *)

Integral == {"char", "uchar", "short", "ushort", "int", "uint", "long", "ulong"}
Arithmetic == Integral \cup {"double", "complex"}
Bits(name) ==
  ByteBits * (CASE name \in {"char", "uchar"} -> 1 [] name \in {"short", "ushort"} -> 2
                [] name \in {"int", "uint"} -> 4 [] OTHER -> 8)
HasSign(name) == name \in {"char", "short", "int", "long"}
Wrapped(name, x) ==
  IF name \notin Integral THEN x
  ELSE LET low == x % (2 ^ Bits(name))
       IN IF HasSign(name) /\ 2 * low >= 2 ^ Bits(name) THEN low - 2 ^ Bits(name) ELSE low
Ranked == <<"complex", "double", "ulong", "long", "uint", "int">>
Common(s, t) ==
  Ranked[CHOOSE i \in DOMAIN Ranked : /\ Ranked[i] \in {s, t} \/ i = 6
                                      /\ \A j \in 1..i - 1 : Ranked[j] \notin {s, t}]

(* What a value of the code stands for. *)
ValueOf(name, v) ==
  CASE name \in Integral -> Wrapped(name, FoldRight(LAMBDA b, above : b + 2 ^ ByteBits * above, v, 0))
    [] name = "double" -> v[1]
    [] OTHER -> FoldRight(LAMBDA b, above : b + 2 ^ ByteBits * above, SubSeq(v, 1, 4), 0)

(* A value is the tuple of its parts: two of a complex number, none if it is *)
(* not known. *)
Thing(type, value, lvalue) == [type |-> type, value |-> value, lvalue |-> lvalue]
NoValue == <<>>
Unknown(type) == Thing(type, NoValue, FALSE)
Wrong == Unknown("wrong")
Points(t) == t.type \in {"int*", "const int*", "point*", "double*"}
Target(t) == CASE t.type = "int*" -> "int" [] t.type = "point*" -> "point" [] t.type = "double*" -> "double"
Scalar(t) == t.type \in Arithmetic \cup {"const int", "color"} \/ Points(t)
Number(t) == t.type \in Arithmetic \cup {"const int"}
Whole(t) == t.type \in Integral \cup {"const int"}
Bare(t) == IF t.type = "const int" THEN "int" ELSE t.type
IsValue(t) == t.value # NoValue
True(t) == \E i \in DOMAIN t.value : t.value[i] # 0
IsNull(t) == t.value = <<0>> /\ Whole(t)

(* A number that is converted. *)
Converted(to, x) ==
  IF to = "complex" THEN <<x[1], IF Len(x) = 2 THEN x[2] ELSE 0>> ELSE <<Wrapped(to, x[1])>>
Plus(name, x, y) == [i \in DOMAIN x |-> Wrapped(name, x[i] + y[i])]

BitOf(x, i) == (x \div 2 ^ i) % 2
Bitwise2(op, name, x, y) ==
  LET BitHolds(i) == CASE op = "BITWISE_AND" -> BitOf(x, i) = 1 /\ BitOf(y, i) = 1
                       [] op = "BITWISE_OR" -> BitOf(x, i) = 1 \/ BitOf(y, i) = 1
                       [] op = "BITWISE_XOR" -> BitOf(x, i) # BitOf(y, i)
  IN Wrapped(name, FoldRight(LAMBDA i, sum : sum + (IF BitHolds(i) THEN 2 ^ i ELSE 0),
                             [i \in 1..Bits(name) |-> i - 1], 0))

Both(t, u, fits, type, value) ==
  IF ~fits THEN Wrong ELSE Thing(type, IF IsValue(t) /\ IsValue(u) THEN value ELSE NoValue, FALSE)
Binary(op, t, u) ==
  LET type == Common(Bare(t), Bare(u))
      Value(Op(_, _, _)) == Op(type, Converted(type, t.value), Converted(type, u.value))
  IN CASE op = "ADD" ->
            IF Points(t) /\ Whole(u) THEN Unknown(t.type)
            ELSE IF Whole(t) /\ Points(u) THEN Unknown(u.type)
            ELSE Both(t, u, Number(t) /\ Number(u), type, Value(Plus))
       [] op = "SUB" -> IF Points(t) /\ t.type = u.type THEN Unknown("long")
                        ELSE IF Points(t) /\ Whole(u) THEN Unknown(t.type)
                        ELSE Both(t, u, Number(t) /\ Number(u), type, NoValue)
       [] op = "MUL" -> Both(t, u, Number(t) /\ Number(u), type, NoValue)
       [] op \in {"LT", "EQ"} ->
            Both(t, u, \/ Points(t) /\ t.type = u.type
                       \/ Number(t) /\ Number(u) /\ ("complex" \notin {t.type, u.type} \/ op = "EQ"),
                 "int", NoValue)
       [] op = "LOGICAL_AND" ->
            Both(t, u, Scalar(t) /\ Scalar(u), "int", <<IF True(t) /\ True(u) THEN 1 ELSE 0>>)
       [] op = "LOGICAL_OR" ->
            Both(t, u, Scalar(t) /\ Scalar(u), "int", <<IF True(t) \/ True(u) THEN 1 ELSE 0>>)
       [] op \in {"BITWISE_AND", "BITWISE_OR", "BITWISE_XOR"} ->
            Both(t, u, Whole(t) /\ Whole(u), type,
                 <<Bitwise2(op, type, Converted(type, t.value)[1], Converted(type, u.value)[1])>>)
       [] op = "COMMA" -> Unknown(u.type)

Unary(op, t) ==
  CASE op \in {"NOOP", "NEGATE"} -> IF Number(t) THEN Unknown(Bare(t)) ELSE Wrong
    [] op = "LOGICAL_NOT" -> IF Scalar(t) THEN Unknown("int") ELSE Wrong
    [] op = "BITWISE_NOT" ->
         IF ~Whole(t) THEN Wrong
         ELSE Thing(Bare(t), IF IsValue(t) THEN <<Wrapped(Bare(t), -1 - t.value[1])>> ELSE NoValue, FALSE)
    [] op = "REFERENCE" -> IF t.lvalue THEN Unknown(t.type \o "*") ELSE Wrong
    [] op = "DEREFERENCE" -> IF Points(t) THEN Thing(Target(t), NoValue, TRUE) ELSE Wrong
Cast(to, t) ==
  IF ~Scalar(t) THEN Wrong
  ELSE Thing(to, IF IsValue(t) THEN Converted(to, t.value) ELSE NoValue, FALSE)
Choose3(c, t, u) ==
  LET type == Common(t.type, u.type)
      chosen == IF True(c) THEN t ELSE u
  IN IF ~Scalar(c) THEN Wrong
     ELSE IF Number(t) /\ Number(u)
     THEN Thing(type, IF IsValue(c) /\ IsValue(chosen) THEN Converted(type, chosen.value)
                      ELSE NoValue, FALSE)
     ELSE IF Points(t) /\ (u.type = t.type \/ IsNull(u)) THEN Unknown(t.type)
     ELSE IF Points(u) /\ IsNull(t) THEN Unknown(u.type)
     ELSE Wrong
Done == Unknown("done")     \* assigned or called
Assigned(op, t, u) ==
  IF /\ t.lvalue
     /\ \/ Number(t) /\ Number(u)
        \/ op = "ASSIGN" /\ Points(t) /\ (u.type = t.type \/ IsNull(u))
        \/ op = "ADD" /\ Points(t) /\ Whole(u)
  THEN Done ELSE Wrong
Member(is_pointer, t, name) ==
  IF t.type = (IF is_pointer THEN "point*" ELSE "point") /\ name \in {1, 2}
  THEN Thing(<<"int", "double">>[name], NoValue, is_pointer \/ t.lvalue) ELSE Wrong
Called(t, args) == IF t.type = "function" /\ Len(args) = 1 /\ Number(args[1]) THEN Done ELSE Wrong

(* What the code is known to get wrong, see the README. *)
Unsafe2(op, t, u) ==
  \/ "color" \in {t.type, u.type} /\ op \notin {"LOGICAL_AND", "LOGICAL_OR", "COMMA"}
  \/ IsValue(t) /\ IsValue(u) /\ op \in {"SUB", "MUL", "LT", "EQ"}
  \/ op \in {"BITWISE_AND", "BITWISE_OR", "BITWISE_XOR"} /\ Whole(t) /\ Whole(u)
     /\ ~(IsValue(t) /\ IsValue(u))
  \/ op = "SUB" /\ Points(t) /\ Points(u) /\ t.type # u.type
  \/ op = "EQ" /\ (Points(t) \/ Points(u)) /\ (IsNull(t) \/ IsNull(u))
Unsafe1(op, t) ==
  \/ op \in {"NOOP", "NEGATE"} /\ t.type \in {"const int", "color"}
  \/ op = "LOGICAL_NOT" /\ IsValue(t)
  \/ op = "BITWISE_NOT" /\ t.type = "color"
  \/ op = "REFERENCE" /\ t.type \notin {"int", "double", "point"}
  \/ op = "DEREFERENCE" /\ t.type \in {"function", "const int*"}
Plain(t) == t.type \notin {"const int", "color", "function"}

-----------------------------------------------------------------------------
(* Expressions grow. *)

IntThing(name, type, x) == <<NewIntConstant(type, x), Thing(name, <<x>>, FALSE)>>
One == IntThing("int", CInt, -2)
Zero == IntThing("int", CInt, 0)
Three == <<NewFloatConstant(CDouble, 3), Thing("double", <<3>>, FALSE)>>
X == <<NewIdentifier(1), Thing("int", NoValue, TRUE)>>
P == <<NewIdentifier(3), Thing("int*", NoValue, TRUE)>>
Constants ==
  {One, Zero, Three, IntThing("uint", CUInt, 0), IntThing("uint", CUInt, 254),
   IntThing("long", CLong, 3), <<NewEnumConstant(Color, 2), Thing("color", <<3>>, FALSE)>>,
   <<NewFloatConstant(CComplex, 2), Thing("complex", <<2, 0>>, FALSE)>>}
Meant == <<"int", "const int", "int*", "point*", "point", "double", "color", "function">>
Identifiers ==
  {<<NewIdentifier(name), Thing(Meant[name], IF name = 7 THEN <<3>> ELSE NoValue, name < 7)>> :
     name \in DOMAIN Meant}
  \cup {<<NewIdentifier(9), Wrong>>}
Others == IF asked.size = 0 THEN {One, Zero, Three, X, P} ELSE {X}

Grows == /\ asked.kind = "expression" /\ asked.size < MaxOperators
         /\ ~Bad(expr) /\ meaning.type \notin {"wrong", "done"}
Becomes(e, t) ==
  expr' = e /\ meaning' = t /\ asked' = [asked EXCEPT !.size = @ + 1]

(* With another expression, on either side of it. *)
Sides(other) == {<<<<expr, meaning>>, other>>, <<other, <<expr, meaning>>>>}
GrowBinary(op, a, b) ==
  /\ ~(Careful /\ Unsafe2(op, a[2], b[2]))
  /\ Becomes(NewBinary(op, a[1], b[1]), Binary(op, a[2], b[2]))
GrowUnary(op) ==
  /\ ~(Careful /\ Unsafe1(op, meaning))
  /\ Becomes(NewUnary(op, expr, asked.size), Unary(op, meaning))
GrowCast(to, type) ==
  /\ Careful => /\ Typed(expr) /\ meaning.type \notin {"color", "function"}
                /\ ~(IsValue(meaning) /\ (to = "int*" \/ meaning.type = "complex"))
                /\ ~(to = "double" /\ Points(meaning)) /\ ~(to = "int*" /\ ~Points(meaning))
  /\ Becomes(NewCast(type, expr), Cast(to, meaning))
(* As a condition, or as what is chosen. *)
Thirds(other) ==
  {<<<<expr, meaning>>, other, Three>>}
  \cup {<<c, <<expr, meaning>>, other>> :
          c \in {d \in {X, One} : Careful => Plain(meaning) /\ ~(meaning.type = "point" /\ other[2].type = "point")
                                           /\ ~(IsValue(d[2]) /\ (Points(meaning) \/ Points(other[2])))}}
GrowTernary(c, a, b) ==
  /\ ~(Careful /\ c[2].type = "function")
  /\ Becomes(NewTernary(c[1], a[1], b[1], asked.size), Choose3(c[2], a[2], b[2]))
GrowAssign(op, other) ==
  /\ Careful => Plain(meaning) /\ ~(op = "AND" /\ "double" \in {meaning.type, other[2].type})
  /\ Becomes(NewInplaceBinary(op, expr, other[1]), Assigned(op, meaning, other[2]))
GrowIncrement(op) ==
  /\ Careful => Typed(expr) /\ Plain(meaning)
  /\ Becomes(NewInplaceUnary(op, expr),
             IF meaning.lvalue /\ Scalar(meaning) THEN Unknown(meaning.type) ELSE Wrong)
GrowAccess(is_pointer, name) ==
  Becomes(NewAccess(is_pointer, expr, name), Member(is_pointer, meaning, name))
GrowSubscript(other) ==
  /\ ~(Careful /\ "color" \in {meaning.type, other[2].type})
  /\ Becomes(NewSubscript(expr, other[1], asked.size),
             Unary("DEREFERENCE", Binary("ADD", meaning, other[2])))
Infer ==
  /\ asked.kind = "expression" /\ ~Bad(expr)
  /\ expr' = DoTypeInference(expr, asked.size) /\ UNCHANGED <<asked, meaning>>
(* sizeof is refused unless the type is incomplete. *)
GrowMeasure(op) ==
  /\ Careful => Typed(expr) /\ op = "alignof" /\ meaning.type \in {"int", "long", "double", "complex", "point"}
  /\ Becomes(IF op = "alignof" THEN NewAlignofExpr(expr) ELSE NewSizeofExpr(expr),
             IF op = "alignof" THEN Thing("ulong", <<IF meaning.type = "int" THEN 4 ELSE 8>>, FALSE)
             ELSE Unknown("ulong"))
Generic ==
  /\ Typed(expr)
  /\ Becomes(NewGenericSelection(expr, <<[type |-> CDouble, expr |-> Three[1]],
                                         [type |-> CInt, expr |-> One[1]]>>, Zero[1]),
             CASE meaning.type = "double" -> Three[2] [] Bare(meaning) = "int" -> One[2]
               [] OTHER -> Zero[2])
Call(args) ==
  /\ Typed(expr)
  /\ Becomes(NewCall(expr, [i \in DOMAIN args |-> args[i][1]]),
             Called(meaning, [i \in DOMAIN args |-> args[i][2]]))

Operate ==
  /\ Grows
  /\ \/ \E op \in {"ADD", "SUB", "MUL", "LT", "EQ", "LOGICAL_AND", "LOGICAL_OR", "BITWISE_AND",
                   "BITWISE_OR", "BITWISE_XOR", "COMMA"}, o \in Others :
          \E s \in Sides(o) : GrowBinary(op, s[1], s[2])
     \/ \E op \in UnaryOperators : GrowUnary(op)
     \/ \E to \in {<<"int", CInt>>, <<"uint", CUInt>>, <<"long", CLong>>, <<"double", CDouble>>,
                  <<"complex", CComplex>>, <<"int*", IntPtr>>} : GrowCast(to[1], to[2])
     \/ \E op \in {"alignof", "sizeof"} : GrowMeasure(op)
Select ==
  /\ Grows
  /\ \/ \E o \in Others : GrowSubscript(o) \/ \E t \in Thirds(o) : GrowTernary(t[1], t[2], t[3])
     \/ \E is_pointer \in BOOLEAN, name \in 1..3 : GrowAccess(is_pointer, name)
     \/ Generic
Change ==
  /\ Grows
  /\ \/ \E op \in {"ASSIGN", "ADD", "AND"}, o \in Others : GrowAssign(op, o)
     \/ \E op \in InplaceUnaryOperators : GrowIncrement(op)
     \/ \E args \in {<<>>, <<Three>>, <<IntThing("int*", IntPtr, 0)>>, <<One, One>>} : Call(args)

(* A type of the code and one of the language; what is assigned or called *)
(* gets none. *)
TypeOf(name) ==
  CASE name \in {"int", "const int"} -> CInt
    [] name = "uint" -> CUInt
    [] name = "long" -> CLong
    [] name = "ulong" -> Type!GetUnsignedLongType
    [] name = "double" -> CDouble
    [] name = "complex" -> CComplex
    [] name = "color" -> Color
    [] name = "point" -> Point
    [] name = "done" -> NoType
Is(type, name) ==
  CASE name \in {"int*", "const int*", "double*", "point*"} ->
         IsPointer(type) /\ Dequalify(Dequalify(type).target) = TypeOf(Target(Unknown(name)))
    [] name = "function" -> type.metatype = "FUNCTION"
    [] OTHER -> Dequalify(type) = TypeOf(name)
TypedAsC ==
  asked.kind = "expression" =>
    /\ expr.expr_type # "crashed"
    /\ expr.expr_type = "failed" => meaning.type = "wrong"
    /\ expr.types_inferred => Is(expr.value_type, meaning.type)
    /\ Constant(expr) /\ Typed(expr) =>
         meaning.value = IF meaning.type = "complex" THEN <<expr.constant[1], expr.constant[9]>>
                         ELSE <<ValueOf(meaning.type, expr.constant)>>

-----------------------------------------------------------------------------
(* Two numbers of one of the smallest integer types. *)

Small == [char |-> Type!GetCharType, uchar |-> Type!IntType(FALSE, 1),
          short |-> Type!IntType(TRUE, 2), ushort |-> Type!IntType(FALSE, 2)]
NumbersOf(name) == {Wrapped(name, x) : x \in 0..2 ^ Bits(name) - 1}

Calculate ==
  /\ asked.kind = "numbers"
  /\ \E name \in DOMAIN Small :
       \E x \in NumbersOf(name), y \in NumbersOf(name) :
         asked' = [kind |-> "calculation", name |-> name, type |-> Small[name], x |-> x, y |-> y]
  /\ UNCHANGED <<expr, meaning>>

(* C's quotient leaves a remainder with the sign of the dividend. *)
IsQuotient(q, x, y) == LET r == x - q * y
                       IN Magnitude(r) < Magnitude(y) /\ (r = 0 \/ (r < 0) = (x < 0))
Says(name, v, x) == ValueOf(name, v) = Wrapped(name, x)
OfIntegers(name, type, x, y, a, b) ==
  /\ \A p \in {<<ValueAdd(type, a, b), x + y>>, <<ValueSubtract(type, a, b), x - y>>,
              <<ValueMultiply(type, a, b), x * y>>, <<ValueNegate(type, a), 0 - x>>,
              <<ValueBitwiseNot(type, a), -1 - x>>,
              <<ValueBitwiseAnd(type, a, b), Bitwise2("BITWISE_AND", name, x, y)>>,
              <<ValueBitwiseOr(type, a, b), Bitwise2("BITWISE_OR", name, x, y)>>,
              <<ValueBitwiseXor(type, a, b), Bitwise2("BITWISE_XOR", name, x, y)>>}
            \cup (IF y \in 0..Bits(name) - 1
                  THEN {<<ValueShiftLeft(type, a, b), x * 2 ^ y>>,
                        <<ValueShiftRight(type, a, b), x \div 2 ^ y>>} ELSE {}) :
       Says(name, p[1], p[2])
  /\ \A quotient \in {ValueDivide(type, a, b)}, remainder \in {ValueRemainder(type, a, b)} :
       IF y = 0 THEN quotient = Crash /\ remainder = Crash
       ELSE \E q \in -(2 ^ Bits(name))..2 ^ Bits(name) :
              IsQuotient(q, x, y) /\ Says(name, quotient, q) /\ Says(name, remainder, x - q * y)
  /\ \A op \in {"LT", "LTEQ", "EQ"} :
       ValueCompare(type, op, a, b)
         = SetInt64(CInt, IF CASE op = "LT" -> x < y [] op = "LTEQ" -> x <= y [] op = "EQ" -> x = y
                          THEN 1 ELSE 0)
  /\ Wrapped(name, ValueToUint64(type, a)) = x /\ GetInt64(type, a) = x
  /\ ScalarToTristate(type, a) = IF x = 0 THEN "NO" ELSE "YES"
(* The same two as real numbers, and as the parts of a complex one; products *)
(* of complex numbers, and most quotients, are wrong. *)
OfFloats(name, type, x, y, a) ==
  \E re \in {CastValue(CDouble, type, a)}, im \in {SetLongDouble(CDouble, y)},
     whole \in {Pair(16, x, y)}, square \in {Pair(16, x * x - y * y, 2 * x * y)} :
     /\ re = SetInt64(CDouble, x) /\ CastValue(type, CDouble, re) = a
     /\ CastValue(CComplex, CDouble, re) = Pair(16, x, 0)
     /\ CastValue(Type!FloatType("complex", "float"), CComplex, whole) = Pair(8, x, y)
     /\ ValueAdd(CDouble, re, im)[1] = x + y /\ ValueMultiply(CDouble, re, im)[1] = x * y
     /\ (ValueCompare(CDouble, "LTEQ", re, im) = SetInt64(CInt, 1)) = (x <= y)
     /\ ValueSubtract(CComplex, square, whole) = Pair(16, x * x - y * y - x, 2 * x * y - y)
     /\ ~Careful => ValueMultiply(CComplex, whole, whole) = square
     /\ y # 0 => ValueDivide(CDouble, ValueMultiply(CDouble, re, im), im) = re
     /\ (x # 0 \/ y # 0) /\ (Careful => Magnitude(x) < Magnitude(y)) =>
          ValueDivide(CComplex, square, whole) = whole
Calculates ==
  asked.kind = "calculation" =>
    \E a \in {SetInt64(asked.type, asked.x)}, b \in {SetInt64(asked.type, asked.y)} :
      /\ OfIntegers(asked.name, asked.type, asked.x, asked.y, a, b)
      /\ OfFloats(asked.name, asked.type, asked.x, asked.y, a)
      /\ \A name \in DOMAIN Small :
           \E v \in {CastValue(Small[name], asked.type, a)} : Says(name, v, asked.x)

-----------------------------------------------------------------------------
(* The members of a structure, of a union, and an enumeration's values. Only *)
(* in the order of their names are they sorted; what has no alignment of its *)
(* own, such as a pointer, is laid over the first member. *)

AddMember ==
  /\ asked.kind = "layout" /\ Len(asked.members) < MaxMembers
  /\ \E name \in 1..3, type \in {Small.char, CInt, CDouble, Point} \cup (IF Careful THEN {} ELSE {IntPtr}) :
       /\ Careful => \A i \in DOMAIN asked.members : asked.members[i].name <= name
       /\ asked' = [asked EXCEPT !.members = Append(@, [name |-> name, type |-> type])]
  /\ UNCHANGED <<expr, meaning>>

Finds(Lookup1(_), keys) ==
  \A key \in 0..7 : LET i == Lookup1(key)
                    IN IF key \in {keys[j] : j \in DOMAIN keys} THEN i # 0 /\ keys[i] = key ELSE i = 0
Put(v, offset, piece) ==
  [i \in DOMAIN v |-> IF i > offset /\ i <= offset + Len(piece) THEN piece[i - offset] ELSE v[i]]
Apart(s) ==
  LET End(i) == s.members[i].offset + s.members[i].type.size
      filled == FoldLeft(LAMBDA v, i : Put(v, s.members[i].offset, SetInt64(s.members[i].type, i)),
                         Zeros(s.size), [i \in DOMAIN s.members |-> i])
  IN /\ s.size % s.align = 0
     /\ \A i \in DOMAIN s.members :
          /\ s.members[i].offset % s.members[i].type.align = 0 /\ s.align % s.members[i].type.align = 0
          /\ End(i) <= IF i = Len(s.members) THEN s.size ELSE s.members[i + 1].offset
     /\ (\A i \in DOMAIN s.members : s.members[i].type.metatype # "STRUCT") =>
          ToJson(s, filled) = <<"list", [i \in DOMAIN s.members |->
                                      <<"number", Wrapped(IF s.members[i].type.size = 1 THEN "char" ELSE "int", i)>>]>>
LaidOut ==
  asked.kind = "layout" =>
    LET names == [i \in DOMAIN asked.members |-> asked.members[i].name]
        values == [i \in DOMAIN names |-> [name |-> names[i], value |-> 2 * i]]
        wrong == \E i, j \in DOMAIN names : i # j /\ names[i] = names[j]
    IN \E struct \in {NewStruct(1, asked.members)}, union \in {NewUnion(EmptyTags, 1, asked.members).type},
          enum \in {NewEnum(EmptyTags, 1, values).type} :
       /\ (struct = NoType) = (wrong \/ names = <<>>)
       /\ (union = NoType) = (wrong \/ names = <<>>) /\ (enum = NoType) = wrong
       /\ struct # NoType =>
            /\ Apart(struct) /\ Finds(LAMBDA key : LookupMember(struct, key), names)
            /\ [CompleteStruct(NewIncomplete("STRUCT", 1), asked.members) EXCEPT !.incomplete = FALSE]
                 = struct
            /\ Finds(LAMBDA key : EnumLookupByName(enum, key), names)
            /\ Finds(LAMBDA key : EnumLookupValue(enum, key), [i \in DOMAIN names |-> 2 * i])
       /\ union # NoType =>
            /\ [CompleteUnion(NewIncomplete("UNION", 1), asked.members) EXCEPT !.incomplete = FALSE] = union
            /\ Finds(LAMBDA key : LookupMember(union, key), names)
            /\ union.size % union.align = 0
            /\ \A i \in DOMAIN names : union.size >= asked.members[i].type.size
                                       /\ union.align % asked.members[i].type.align = 0

-----------------------------------------------------------------------------
(* An array of two structures of an integer and a union is initialized. An *)
(* index is taken only if it is a floating-point number. *)

Either == Type!NewUnion(Type!EmptyTags, 1, <<[name |-> 1, type |-> Small.char],
                                             [name |-> 2, type |-> CLong]>>).type
Things == Type!NewArray(2, Type!NewStruct(2, <<[name |-> 1, type |-> CInt],
                                               [name |-> 2, type |-> Either]>>))
At(i) == [index |-> IF Careful THEN NewFloatConstant(CDouble, i) ELSE NewIntConstant(CInt, i)]
Of(name) == [member |-> name]
Init1(designators, e, pieces) ==
  [designators |-> designators, is_expr |-> pieces = <<>>, expr |-> e, pieces |-> pieces]
(* Pieces, each with the place and length of what it sets: none if it is *)
(* wrong. *)
Pieces ==
  {<<Init1(<<At(i), Of(1)>>, X[1], <<>>), <<<<16 * i, 4>>>>>> : i \in 0..1}
  \cup {<<Init1(<<At(1), Of(2), Of(k)>>, One[1], <<>>), <<<<24, <<1, 8>>[k]>>>>>> : k \in 1..2}
  \cup {<<Init1(<<At(0)>>, X[1], <<Init1(<<Of(2), Of(2)>>, One[1], <<>>), Init1(<<Of(1)>>, X[1], <<>>)>>),
          <<<<8, 8>>, <<0, 4>>>>>>,
        <<Init1(<<At(0), Of(3)>>, X[1], <<>>), <<>>>>,
        <<Init1(<<Of(1)>>, X[1], <<>>), <<>>>>,
        <<Init1(<<At(0), Of(1)>>, NewIdentifier(9), <<>>), <<>>>>}

AddPiece ==
  /\ asked.kind = "initializer" /\ Len(asked.pieces) < MaxMembers - 1
  /\ \E piece \in Pieces : asked' = [asked EXCEPT !.pieces = Append(@, piece)]
  /\ UNCHANGED <<expr, meaning>>

Initializes ==
  asked.kind = "initializer" =>
    \E made \in {Flatten([i \in DOMAIN asked.pieces |-> asked.pieces[i][1]], Things, 0, 1)} :
       IF \E i \in DOMAIN asked.pieces : asked.pieces[i][2] = <<>> THEN made = NoPieces
       ELSE /\ made # NoPieces
            /\ [i \in DOMAIN made |-> <<made[i].offset, made[i].length>>]
                 = FlattenSeq([i \in DOMAIN asked.pieces |-> asked.pieces[i][2]])
            /\ \A i \in DOMAIN made : Typed(made[i].expr)

-----------------------------------------------------------------------------
(* The statements of a switch's body, each with the cases it adds. Two cases *)
(* are more than the table holds. *)
Case(x) == NewCase(NewIntConstant(CInt, x))
Statements ==
  {<<Case(1), <<1>>>>, <<Case(2), <<2>>>>, <<NewCase(X[1]), <<0>>>>,
   <<Statement("EXPR", <<>>), <<>>>>,
   <<Conditional("WHILE", One[1], <<Case(1)>>), <<1>>>>,
   <<Statement("COMPOUND", <<NewSwitch(One[1], Case(2)), Case(1)>>), <<1>>>>}
AddStatement ==
  /\ asked.kind = "switch" /\ Len(asked.body) < MaxMembers - 1
  /\ \E s \in Statements :
       /\ Careful => \A i \in DOMAIN asked.body : asked.body[i][2] \in {<<>>, s[2], <<0>>} \/ s[2] = <<>>
       /\ asked' = [asked EXCEPT !.body = Append(@, s)]
  /\ UNCHANGED <<expr, meaning>>
Switches ==
  asked.kind = "switch" =>
    \E body \in {Statement("COMPOUND", [i \in DOMAIN asked.body |-> asked.body[i][1]])},
       cases \in {FlattenSeq([i \in DOMAIN asked.body |-> asked.body[i][2]])} :
    \E made \in {NewSwitch(One[1], body)} :
       /\ NewSwitch(Three[1], body) = NoStatement
       /\ (made = NoStatement) = (<<0>> \in {asked.body[i][2] : i \in DOMAIN asked.body}
                                 \/ ~IsInjective(cases))
       /\ made # NoStatement => made.type = "SWITCH" /\ made.cases = cases

Ask == Calculate \/ AddMember \/ AddPiece \/ AddStatement

CompiledAsC == TypedAsC /\ Calculates

Init ==
  \/ /\ asked \in {[kind |-> "numbers"], [kind |-> "layout", members |-> <<>>],
                   [kind |-> "initializer", pieces |-> <<>>], [kind |-> "switch", body |-> <<>>]}
     /\ expr = "none" /\ meaning = "none"
  \/ /\ asked = [kind |-> "expression", size |-> 0]
     /\ \E start \in Constants \cup Identifiers : expr = start[1] /\ meaning = start[2]
Next == Operate \/ Select \/ Change \/ Infer \/ Ask
Spec == Init /\ [][Next]_<<asked, expr, meaning>>
=============================================================================
