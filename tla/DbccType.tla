------------------------------ MODULE DbccType ------------------------------
(***************************************************************************)
(* The compiler's types and the values of its constants (dbcc-type.c,        *)
(* dbcc-namespace.c, dbcc-constant.c): how types are made and laid out, and  *)
(* the arithmetic that folds constants.                                      *)
(*                                                                           *)
(* A type is a record; a pointer type carries the identity of the call that  *)
(* made it, for types are compared by their address. A value is the tuple of *)
(* its bytes, of ByteBits bits each, the lowest first; a floating-point      *)
(* number, integral here, lies in the first cell of its bytes.               *)
(***************************************************************************)
EXTENDS Integers, Sequences, FiniteSets, SequencesExt, Bitwise

CONSTANTS
  ByteBits,     \* bits of a byte
  target_env,   \* the target environment: a record of sizes and alignments
  Careful       \* TRUE: enumerations as if the array of their values were allocated

Refused == <<>>     \* a function that returns false or NULL
Crash == <<-1>>     \* one that fails an assertion, or traps

Base == 2 ^ ByteBits
Stored(n, x) == [i \in 1..n |-> (x \div Base ^ (i - 1)) % Base]
Raw(v) == FoldRight(LAMBDA b, above : b + Base * above, v, 0)
Signed(v) == IF 2 * Raw(v) >= Base ^ Len(v) THEN Raw(v) - Base ^ Len(v) ELSE Raw(v)
Cells(n, x) == [i \in 1..n |-> IF i = 1 THEN x ELSE 0]
Half(v, k) == v[1 + (k * Len(v)) \div 2]      \* the real part (0), the imaginary part (1)
Pair(n, re, im) == Cells(n \div 2, re) \o Cells(n \div 2, im)
Zeros(n) == [i \in 1..n |-> 0]
IsZero(v) == \A i \in DOMAIN v : v[i] = 0

-----------------------------------------------------------------------------
(* Types. *)

IntType(signed, size) ==
  [metatype |-> "INT", size |-> size, align |-> target_env.alignof_int[size],
   is_signed |-> signed]
BoolType == [metatype |-> "BOOL", size |-> target_env.sizeof_bool,
             align |-> target_env.alignof_bool]
FloatType(form, real) ==
  LET size == CASE real = "float" -> 4
                [] real = "double" -> 8
                [] OTHER -> target_env.sizeof_long_double
  IN [metatype |-> "FLOAT", form |-> form, real |-> real,
      size |-> IF form = "complex" THEN 2 * size ELSE size,
      align |-> target_env.alignof_float[real]]
(* The built-in type of that name has the metatype of a float. *)
VoidType == [metatype |-> "FLOAT", form |-> "real", real |-> "float", size |-> 0, align |-> 1]

GetIntType == IntType(TRUE, target_env.sizeof_int)
GetUnsignedIntType == IntType(FALSE, target_env.sizeof_int)
GetLongType == IntType(TRUE, target_env.sizeof_long_int)
GetUnsignedLongType == IntType(FALSE, target_env.sizeof_long_int)
GetSizeType == IntType(FALSE, target_env.sizeof_pointer)
GetPtrdiffType == IntType(TRUE, target_env.sizeof_pointer)
GetCharType == IntType(target_env.is_char_signed, 1)
GetDoubleType == FloatType("real", "double")
GetComplexDoubleType == FloatType("complex", "double")

NewPointer(id, target) ==
  [metatype |-> "POINTER", size |-> target_env.sizeof_pointer, align |-> 0,
   target |-> target, id |-> id]
NewArray(count, element) ==     \* a negative count: of no given length
  [metatype |-> "ARRAY", n_elements |-> count, element |-> element, align |-> 0,
   size |-> element.size * (IF count < 0 THEN 0 ELSE count)]
NewFunction(result, params, varargs) ==
  LET none == Len(params) = 1 /\ params[1].name = 0 /\ params[1].type.metatype = "VOID"
  IN [metatype |-> "FUNCTION", result |-> result, has_varargs |-> varargs,
      params |-> IF none THEN <<>> ELSE params, size |-> 0, align |-> 0]

NoType == [metatype |-> "none"]
Qualifiers(type) == IF type.metatype = "QUALIFIED" THEN type.qualifiers ELSE {}
Dequalify(type) == IF type.metatype = "QUALIFIED" THEN type.underlying ELSE type

(* A qualified type never has a qualified one under it. NoType: an error. *)
NewQualified(type, qualifiers) ==
  LET base == Dequalify(type)
      all == Qualifiers(type) \cup qualifiers
  IN IF all = Qualifiers(type) THEN type
     ELSE IF \/ "restrict" \in all /\ base.metatype # "POINTER"
             \/ /\ "atomic" \in all
                /\ base.metatype \in {"FUNCTION", "ARRAY", "VARIABLE_LENGTH_ARRAY"}
          THEN NoType
     ELSE [metatype |-> "QUALIFIED", underlying |-> base, qualifiers |-> all,
           size |-> base.size, align |-> 0]

TypesCompatible(a, b) == Dequalify(a) = Dequalify(b)
MakeComposite(a, b) == NewQualified(Dequalify(a), Qualifiers(a) \cup Qualifiers(b))
PointerDereference(type) ==
  IF Dequalify(type).metatype = "POINTER" THEN Dequalify(type).target ELSE NoType
IsIncomplete(type) ==
  type.metatype = "VOID" \/ (type.metatype \in {"STRUCT", "UNION"} /\ type.incomplete)

IsScalar(type) == Dequalify(type).metatype \in {"BOOL", "INT", "FLOAT", "ENUM", "POINTER"}
IsInteger(type) == Dequalify(type).metatype \in {"BOOL", "INT", "ENUM"}
IsFloatingPoint(type) == Dequalify(type).metatype = "FLOAT"
IsPointer(type) == Dequalify(type).metatype = "POINTER"
IsConst(type) == "const" \in Qualifiers(type)
IsReal(type) == IsInteger(type) \/ (IsFloatingPoint(type) /\ Dequalify(type).form = "real")
(* These look at the type as it is, qualified types included. *)
IsArithmetic(type) == type.metatype \in {"BOOL", "INT", "ENUM", "FLOAT"}
IsUnsigned(type) ==
  type.metatype \in {"BOOL", "ENUM"} \/ (type.metatype = "INT" /\ ~type.is_signed)
IsComplex(type) == type.metatype = "FLOAT" /\ type.form # "real"

-----------------------------------------------------------------------------
(* Enumerations, structures and unions. A symbol is a number, 0 for none; it *)
(* stands for the address that members are sorted by. The comparisons never *)
(* say "greater", and the sort of four or fewer exchanges two neighbours *)
(* only then: the order is the one that the members were given in. *)

SortedBy(things) == [i \in DOMAIN things |-> i]

(* The index at which a search by halves ends, 0 when it finds nothing: it *)
(* looks among the things that have the keys given, in the sorted order. *)
Bisect(keys, sorted, wanted) ==
  LET Halve[step \in 0..Len(keys), start \in 0..Len(keys), n \in 0..Len(keys)] ==
        LET at == start + n \div 2
        IN IF n = 0 THEN 0
           ELSE IF wanted < keys[sorted[at + 1]] THEN Halve[step - 1, start, n \div 2]
           ELSE IF wanted > keys[sorted[at + 1]] THEN Halve[step - 1, at + 1, start + n - (at + 1)]
           ELSE sorted[at + 1]
  IN Halve[Len(keys), 0, Len(keys)]

Names(things) == [i \in DOMAIN things |-> things[i].name]
AdjacentTwins(keys) == \E i \in 1..Len(keys) - 1 : keys[i] = keys[i + 1] /\ keys[i] # 0

EmptyTags == [enum |-> {}, union |-> {}, struct |-> {}]

(* The tags of a scope after the type, and the type: NoType for an error. *)
NewEnum(ns, tag, values) ==
  LET type == [metatype |-> "ENUM", tag |-> tag, values |-> values, is_signed |-> FALSE,
               size |-> target_env.sizeof_int, align |-> 0,
               by_sym |-> SortedBy(values), by_value |-> SortedBy(values)]
      twins == \E i, j \in DOMAIN values : i # j /\ values[i].name = values[j].name
      fails == (tag # 0 /\ tag \in ns.enum) \/ twins
      crashes == values # <<>> /\ ~Careful
  IN [type |-> IF fails THEN NoType
               ELSE IF crashes THEN [metatype |-> "crash"] ELSE type,
      ns |-> IF fails \/ crashes \/ tag = 0 THEN ns
             ELSE [ns EXCEPT !.enum = @ \cup {tag}]]
EnumLookupByName(type, name) == Bisect(Names(type.values), type.by_sym, name)
EnumLookupValue(type, value) ==
  Bisect([i \in DOMAIN type.values |-> type.values[i].value], type.by_value, value)

Align(offset, align) ==
  IF align = 0 THEN 0 ELSE ((offset + align - 1) \div align) * align
Larger(a, b) == IF a < b THEN b ELSE a

GetMembersBySym(members) ==
  IF members = <<>> \/ AdjacentTwins(Names(members)) THEN Refused ELSE SortedBy(members)

WithStructMembers(type, members) ==
  LET Placed(at, member) ==
        LET offset == Align(at.offset, member.type.align)
        IN [offset |-> offset + member.type.size,
            align |-> Larger(at.align, member.type.align),
            members |-> Append(at.members, [name |-> member.name, type |-> member.type,
                                            offset |-> offset])]
      all == FoldLeft(Placed, [offset |-> 0, align |-> target_env.min_struct_alignof,
                               members |-> <<>>], members)
  IN [type EXCEPT !.members = all.members, !.by_sym = SortedBy(members),
                  !.size = Larger(Align(all.offset, all.align), target_env.min_struct_sizeof),
                  !.align = all.align]

WithUnionBranches(type, branches) ==
  LET align == FoldLeft(LAMBDA a, b : Larger(a, b.type.align),
                        target_env.min_struct_alignof, branches)
      size == FoldLeft(LAMBDA s, b : Larger(s, b.type.size),
                       target_env.min_struct_sizeof, branches)
  IN [type EXCEPT !.members = branches, !.by_sym = SortedBy(branches),
                  !.size = Align(size, align), !.align = align]

NewIncomplete(metatype, tag) ==
  [metatype |-> metatype, tag |-> tag, incomplete |-> TRUE, members |-> <<>>,
   by_sym |-> <<>>, size |-> 0, align |-> 0]
NewStruct(tag, members) ==
  IF GetMembersBySym(members) = Refused THEN NoType
  ELSE WithStructMembers([NewIncomplete("STRUCT", tag) EXCEPT !.incomplete = FALSE], members)
(* A structure or union that is completed remains marked as incomplete. *)
CompleteStruct(type, members) ==
  IF GetMembersBySym(members) = Refused THEN NoType ELSE WithStructMembers(type, members)
NewUnion(ns, tag, branches) ==
  IF (tag # 0 /\ tag \in ns.union) \/ GetMembersBySym(branches) = Refused
  THEN [type |-> NoType, ns |-> ns]
  ELSE [type |-> WithUnionBranches([NewIncomplete("UNION", tag) EXCEPT !.incomplete = FALSE],
                                   branches),
        ns |-> IF tag = 0 THEN ns ELSE [ns EXCEPT !.union = @ \cup {tag}]]
CompleteUnion(type, branches) ==
  IF GetMembersBySym(branches) = Refused THEN NoType ELSE WithUnionBranches(type, branches)

LookupMember(type, name) == Bisect(Names(type.members), type.by_sym, name)

-----------------------------------------------------------------------------
(* Values. *)

NumberOf(type, v) == IF IsUnsigned(type) THEN Raw(v) ELSE Signed(v)

GetInt64(qualified, v) ==
  LET type == Dequalify(qualified)
  IN IF type.metatype # "FLOAT" THEN NumberOf(type, v)
     ELSE IF type.form = "real" THEN v[1] ELSE 0
SetInt64(qualified, x) ==
  LET type == Dequalify(qualified)
  IN IF type.metatype # "FLOAT" THEN Stored(type.size, x)
     ELSE CASE type.form = "real" -> Cells(type.size, x)
            [] type.form = "complex" -> Pair(type.size, x, 0)
            [] OTHER -> Crash
SetLongDouble(type, x) == SetInt64(type, x)
ValueToUint64(type, v) ==     \* an enumeration is signed here
  CASE type.metatype = "INT" -> NumberOf(type, v)
    [] type.metatype = "ENUM" -> Signed(v)

CastIntToIntUnsigned(dst, src, v) ==
  IF dst.size = src.size THEN v ELSE Stored(dst.size, Raw(v))
CastIntToInt(dst, src, v) ==
  IF dst.size = src.size THEN v ELSE Stored(dst.size, NumberOf(src, v))
CastIntToFloat(dst, src, v) ==
  CASE dst.form = "real" -> Cells(dst.size, NumberOf(src, v))
    [] dst.form = "complex" -> Pair(dst.size, NumberOf(src, v), 0)
    [] OTHER -> Refused
CastFloatToInt(dst, src, v) == IF src.form = "real" THEN Stored(dst.size, v[1]) ELSE Refused
(* No case of the switch takes a complex double to a complex long double, *)
(* nor a complex to a real number, nor a real to an imaginary one. *)
CastFloatToFloat(dst, src, v) ==
  CASE dst.form = src.form /\ dst.real = src.real -> v
    [] dst.form = src.form /\ dst.form # "complex" -> Cells(dst.size, v[1])
    [] dst.form = "complex" /\ src.form = "real" -> Pair(dst.size, v[1], 0)
    [] dst.form = "complex" /\ src.form = "imaginary" -> Pair(dst.size, 0, v[1])
    [] /\ dst.form = "complex" /\ src.form = "complex"
       /\ ~(dst.real = "long double" /\ src.real = "double")
         -> Pair(dst.size, Half(v, 0), Half(v, 1))
    [] OTHER -> Refused
CastValue(to, from, v) ==
  LET dst == Dequalify(to)
      src == Dequalify(from)
  IN CASE src.metatype = "INT" /\ dst.metatype = "INT" -> CastIntToInt(dst, src, v)
       [] src.metatype = "INT" /\ dst.metatype = "FLOAT" -> CastIntToFloat(dst, src, v)
       [] src.metatype = "FLOAT" /\ dst.metatype = "INT" -> CastFloatToInt(dst, src, v)
       [] src.metatype = "FLOAT" /\ dst.metatype = "FLOAT" -> CastFloatToFloat(dst, src, v)
       [] OTHER -> Refused

IntLike(type) == type.metatype \in {"INT", "ENUM"}

ValueAdd(qualified, a, b) ==
  LET type == Dequalify(qualified)
  IN CASE IntLike(type) -> Stored(type.size, Raw(a) + Raw(b))
       [] type.metatype = "FLOAT" -> [i \in DOMAIN a |-> a[i] + b[i]]
       [] OTHER -> Crash
ValueSubtract(qualified, a, b) ==
  LET type == Dequalify(qualified)
  IN CASE IntLike(type) -> Stored(type.size, Raw(a) - Raw(b))
       [] type.metatype = "FLOAT" -> [i \in DOMAIN a |-> a[i] - b[i]]
       [] OTHER -> Crash
(* Complex numbers are multiplied part by part. *)
ValueMultiply(qualified, a, b) ==
  LET type == Dequalify(qualified)
  IN CASE IntLike(type) -> Stored(type.size, NumberOf(type, a) * NumberOf(type, b))
       [] type.metatype = "FLOAT" -> [i \in DOMAIN a |-> a[i] * b[i]]
       [] OTHER -> Crash

Magnitude(x) == IF x < 0 THEN -x ELSE x
Sign(x) == IF x < 0 THEN -1 ELSE 1
Quotient(x, y) == Sign(x) * Sign(y) * (Magnitude(x) \div Magnitude(y))    \* C's
(* Both halves are those of the source with the fraction bi / br, or br / bi,*)
(* multiplied out; the first one has the wrong sign in its imaginary part. *)
ComplexDivide(n, ar, ai, br, bi) ==
  LET squares == br * br + bi * bi
  IN IF Magnitude(br) >= Magnitude(bi)
     THEN Pair(n, Quotient(ar * br + ai * bi, squares), Quotient(ai * br + ar * bi, squares))
     ELSE Pair(n, Quotient(ar * br + ai * bi, squares), Quotient(ai * br - ar * bi, squares))
ValueDivide(qualified, a, b) ==
  LET type == Dequalify(qualified)
  IN CASE IntLike(type) ->
            IF Raw(b) = 0 THEN Crash
            ELSE Stored(type.size, Quotient(NumberOf(type, a), NumberOf(type, b)))
       [] type.metatype = "FLOAT" /\ type.form = "real" -> Cells(type.size, Quotient(a[1], b[1]))
       [] type.metatype = "FLOAT" /\ type.form = "complex" ->
            ComplexDivide(type.size, Half(a, 0), Half(a, 1), Half(b, 0), Half(b, 1))
       [] OTHER -> Crash

ValueRemainder(type, a, b) ==
  IF ~IsInteger(type) THEN Refused
  ELSE IF Raw(b) = 0 THEN Crash
  ELSE LET x == NumberOf(type, a)
           y == NumberOf(type, b)
       IN Stored(type.size, x - y * Quotient(x, y))
ValueShiftLeft(type, a, b) ==
  IF ~IsInteger(type) THEN Refused
  ELSE Stored(type.size, NumberOf(type, a) * 2 ^ NumberOf(type, b))
ValueShiftRight(type, a, b) ==
  IF ~IsInteger(type) THEN Refused
  ELSE Stored(type.size, NumberOf(type, a) \div 2 ^ NumberOf(type, b))

ValueBitwiseAnd(type, a, b) == [i \in 1..type.size |-> a[i] & b[i]]
ValueBitwiseOr(type, a, b) == [i \in 1..type.size |-> a[i] | b[i]]
ValueBitwiseXor(type, a, b) == [i \in 1..type.size |-> a[i] ^^ b[i]]
ValueBitwiseNot(type, a) == [i \in 1..type.size |-> (Base - 1) - a[i]]
ValueNegate(qualified, a) ==
  LET type == Dequalify(qualified)
  IN CASE IntLike(type) -> Stored(type.size, 0 - Signed(a))
       [] type.metatype = "FLOAT" -> [i \in DOMAIN a |-> 0 - a[i]]
       [] OTHER -> Crash

Holds(op, x, y) ==
  CASE op = "LT" -> x < y
    [] op = "LTEQ" -> x <= y
    [] op = "GT" -> x > y
    [] op = "GTEQ" -> x >= y
    [] op = "EQ" -> x = y
    [] op = "NE" -> x # y
Bit(holds) == IF holds THEN 1 ELSE 0
ValueCompare(qualified, op, a, b) ==
  LET type == Dequalify(qualified)
  IN CASE IsInteger(type) ->
            SetInt64(GetIntType, Bit(Holds(op, NumberOf(type, a), NumberOf(type, b))))
       [] type.metatype = "FLOAT" /\ type.form = "real" ->
            SetInt64(GetIntType, Bit(Holds(op, a[1], b[1])))
       [] OTHER -> Crash

ScalarToTristate(type, v) ==
  IF type.metatype \notin {"FLOAT", "INT", "ENUM", "POINTER"} THEN "MAYBE"
  ELSE IF IsZero(v) THEN "NO" ELSE "YES"

-----------------------------------------------------------------------------
(* The text of a value: numbers, lists and members as they would be read *)
(* back. No bit field is ever made, and Refused is an error, for pointers, *)
(* unions and the like. *)
Read(v, from, n) == SubSeq(v, from + 1, from + n)

EnumToJson(type, x) ==      \* the test is the wrong way round
  IF EnumLookupValue(type, x) = 0 THEN Crash ELSE <<"enum", type.tag, x>>

RECURSIVE ToJson(_, _)
ToJson(qualified, v) ==
  LET type == Dequalify(qualified)
      All(parts) == IF \E i \in DOMAIN parts : parts[i] = Refused THEN Refused
                    ELSE <<"list", parts>>
  IN CASE type.metatype = "VOID" -> <<"null">>
       [] type.metatype = "INT" -> <<"number", NumberOf(type, v)>>
       [] type.metatype = "FLOAT" /\ type.form = "real" -> <<"number", v[1]>>
       [] type.metatype = "FLOAT" /\ type.form = "complex" -> <<"pair", Half(v, 0), Half(v, 1)>>
       [] type.metatype = "FLOAT" /\ type.form = "imaginary" -> <<"pair", 0, v[1]>>
       [] type.metatype = "ARRAY" ->
            All([i \in 1..(IF type.n_elements < 0 THEN 0 ELSE type.n_elements) |->
                   ToJson(type.element, Read(v, (i - 1) * type.element.size, type.element.size))])
       [] type.metatype = "STRUCT" ->
            All([i \in DOMAIN type.members |->
                   LET m == type.members[i]
                   IN ToJson(m.type, Read(v, m.offset, m.type.size))])
       [] type.metatype = "ENUM" -> EnumToJson(type, GetInt64(type, v))
       [] OTHER -> Refused
=============================================================================
