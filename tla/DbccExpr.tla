------------------------------ MODULE DbccExpr ------------------------------
(***************************************************************************)
(* The compiler's expressions (dbcc-expr.c) and the statements that hold     *)
(* them (dbcc-statement.c): each expression gets its type, and its value     *)
(* where that is constant, when it is made, or, if it has an identifier in   *)
(* it, when types are inferred for the whole of it.                          *)
(*                                                                           *)
(* An expression is a record; its operands are in args. NoType and no value  *)
(* (the empty tuple) stand for NULL. Operations return an expression, Failed *)
(* for an error that is reported, or Crashed: a failed assertion, a NULL     *)
(* pointer followed, or memory freed that was not allocated.                 *)
(***************************************************************************)
EXTENDS DbccType

CONSTANT symbols    \* names, numbers from 1, to their entries in the name space

NoConstant == <<>>
Expr(expr_type, op, args, type, constant) ==
  [expr_type |-> expr_type, op |-> op, name |-> 0, args |-> args, value_type |-> type,
   constant |-> constant, types_inferred |-> FALSE]
Failed == Expr("failed", "", <<>>, NoType, NoConstant)
Crashed == Expr("crashed", "", <<>>, NoType, NoConstant)
Bad(e) == e.expr_type \in {"failed", "crashed"}
Typed(e) == e.value_type # NoType
The(S) == CHOOSE x \in S : TRUE      \* the element of a set of one
Constant(e) == e.constant # NoConstant

As(e, type, constant) ==
  IF constant = Crash THEN Crashed ELSE [e EXCEPT !.value_type = type, !.constant = constant]

RECURSIVE IsLvalue(_)
IsLvalue(e) ==
  /\ ~IsConst(e.value_type)
  /\ CASE e.expr_type = "IDENTIFIER" -> TRUE
       [] e.expr_type = "ACCESS" -> e.op = "ARROW" \/ IsLvalue(e.args[1])
       [] e.expr_type = "UNARY" -> e.op = "DEREFERENCE"
       [] OTHER -> FALSE

NewIntConstant(type, x) == Expr("CONSTANT", "", <<>>, type, SetInt64(type, x))
NewFloatConstant(type, x) == Expr("CONSTANT", "", <<>>, type, SetLongDouble(type, x))
NewEnumConstant(type, i) == NewIntConstant(type, type.values[i].value)
NewIdentifier(name) == [Expr("IDENTIFIER", "", <<>>, NoType, NoConstant) EXCEPT !.name = name]

NewAlignofType(type) ==
  IF type.metatype = "FUNCTION" \/ (type.metatype \in {"STRUCT", "UNION"} /\ type.incomplete)
  THEN Failed ELSE NewIntConstant(GetSizeType, type.align)
(* The test for an incomplete type is the wrong way round. *)
NewSizeofType(type) ==
  IF ~IsIncomplete(type) THEN Failed ELSE NewIntConstant(GetSizeType, type.size)
NewAlignofExpr(e) == IF Typed(e) THEN NewAlignofType(e.value_type) ELSE Crashed
NewSizeofExpr(e) == IF Typed(e) THEN NewSizeofType(e.value_type) ELSE Crashed

(* Zero, or zero that is cast to a pointer to void: of which metatype no *)
(* type is. *)
IsNullPointerConstant(e) ==
  \/ e.expr_type = "CONSTANT" /\ ~IsFloatingPoint(e.value_type) /\ IsZero(e.constant)
  \/ /\ e.expr_type = "CAST" /\ IsPointer(e.value_type)
     /\ Dequalify(PointerDereference(e.value_type)).metatype = "VOID"
     /\ LET zero == e.args[1]
        IN zero.expr_type = "CONSTANT" /\ IsInteger(zero.value_type) /\ IsZero(zero.constant)

-----------------------------------------------------------------------------
(* Binary operators. *)

CrashType == [metatype |-> "crash"]

UsualArithmeticConversion(a, b) ==
  LET types == {a, b}
      floats == {t \in types : t.metatype = "FLOAT"}
      Has(real) == \E t \in floats : t.real = real
      form == IF \E t \in types : IsComplex(t) THEN "complex" ELSE "real"
      size == Larger(a.size, b.size)
  IN IF \E t \in types : ~IsArithmetic(t) THEN CrashType
     ELSE IF Has("long double") THEN FloatType(form, "long double")
     ELSE IF Has("double") THEN FloatType(form, "double")
     ELSE IF floats # {} THEN FloatType(form, "float")
     ELSE IF \E t \in types : t.metatype = "BOOL" THEN CrashType
     ELSE IF a.is_signed = b.is_signed THEN IntType(a.is_signed, size)
     ELSE IF a.is_signed /\ a.size > b.size THEN a
     ELSE IF b.is_signed /\ a.size < b.size THEN b
     ELSE IntType(FALSE, size)

BothConstant(a, b) == Constant(a) /\ Constant(b)
(* What the constants of an operator's operands are folded to, in a type: a *)
(* product for the division too. *)
Computed(op, type, x, y) ==
  CASE op = "ADD" -> ValueAdd(type, x, y)
    [] op = "DIV" -> ValueMultiply(type, x, y)
    [] op = "BITWISE_AND" -> ValueBitwiseAnd(type, x, y)
    [] op = "BITWISE_OR" -> ValueBitwiseOr(type, x, y)
    [] op = "BITWISE_XOR" -> ValueBitwiseXor(type, x, y)
Folded(e, type, a, b) ==
  The({IF Refused \in {x, y} THEN Crashed ELSE As(e, type, Computed(e.op, type, x, y)) :
         x \in {CastValue(type, a.value_type, a.constant)},
         y \in {CastValue(type, b.value_type, b.constant)}})

BothArithmetic(a, b) ==
  IsArithmetic(Dequalify(a.value_type)) /\ IsArithmetic(Dequalify(b.value_type))
CommonType(a, b) == UsualArithmeticConversion(Dequalify(a.value_type), Dequalify(b.value_type))

(* folds: FALSE if the code crashes when it folds. *)
HandleArithmetic(e, a, b, folds) ==
  The({IF type = CrashType THEN Crashed
       ELSE IF ~BothConstant(a, b) THEN As(e, type, NoConstant)
       ELSE IF folds THEN Folded(e, type, a, b) ELSE Crashed :
         type \in {CommonType(a, b)}})

HandleAdd(e, a, b) ==
  LET ptr == IF IsPointer(a.value_type) THEN a ELSE b
      pointer_int == \/ IsPointer(a.value_type) /\ IsInteger(b.value_type)
                     \/ IsInteger(a.value_type) /\ IsPointer(b.value_type)
  IN IF BothArithmetic(a, b)
     THEN HandleArithmetic(e, a, b, TRUE)
     ELSE IF ~pointer_int THEN Failed
     ELSE IF IsIncomplete(Dequalify(PointerDereference(ptr.value_type))) THEN Failed
     ELSE As(e, ptr.value_type, NoConstant)

(* The difference of constants is stored through the NULL of the expression. *)
HandleSubtract(e, a, b) ==
  LET at == Dequalify(a.value_type)
  IN IF BothArithmetic(a, b)
     THEN HandleArithmetic(e, a, b, FALSE)
     ELSE IF IsPointer(at) /\ IsPointer(b.value_type)   \* the left type is compared with itself
     THEN As(e, GetPtrdiffType, NoConstant)
     ELSE IF IsPointer(at) /\ IsInteger(b.value_type)
     THEN IF IsIncomplete(Dequalify(PointerDereference(at))) THEN Failed
          ELSE As(e, at, NoConstant)
     ELSE Failed

(* All but the division free what is on the stack when they have folded. *)
HandleMultiplicative(e, a, b) ==
  IF BothArithmetic(a, b) THEN HandleArithmetic(e, a, b, e.op = "DIV") ELSE Failed

HandleRelational(e, a, b) ==
  IF BothArithmetic(a, b)
  THEN IF ~IsReal(a.value_type) \/ ~IsReal(b.value_type) THEN Failed
       ELSE IF BothConstant(a, b) THEN Crashed      \* frees what is on the stack
       ELSE As(e, GetIntType, NoConstant)
  ELSE IF /\ IsPointer(a.value_type) /\ IsPointer(b.value_type)
          /\ TypesCompatible(PointerDereference(a.value_type), PointerDereference(b.value_type))
  THEN As(e, GetIntType, NoConstant)
  ELSE Failed

HandleEquality(e, a, b) ==
  LET aref == Dequalify(PointerDereference(a.value_type))
      bref == Dequalify(PointerDereference(b.value_type))
  IN IF BothArithmetic(a, b)
     THEN IF BothConstant(a, b) THEN Crashed ELSE As(e, GetIntType, NoConstant)
     ELSE IF /\ IsPointer(a.value_type) /\ IsPointer(b.value_type)
             /\ "VOID" \in {aref.metatype, bref.metatype} \/ aref = bref
     THEN As(e, GetIntType, NoConstant)
     ELSE Failed

(* Operands that are not constant have no constant to look into; the copies *)
(* of those that are lie on the stack, and are freed. *)
HandleShift(e, a, b) ==
  IF ~IsInteger(a.value_type) \/ ~IsInteger(b.value_type) THEN Failed ELSE Crashed

HandleLogical(e, a, b) ==
  LET x == ScalarToTristate(a.value_type, a.constant)
      y == ScalarToTristate(b.value_type, b.constant)
      holds == IF e.op = "LOGICAL_AND" THEN x = "YES" /\ y = "YES" ELSE x = "YES" \/ y = "YES"
  IN IF ~IsScalar(a.value_type) \/ ~IsScalar(b.value_type) THEN Failed
     ELSE IF BothConstant(a, b) /\ "MAYBE" \notin {x, y}
     THEN As(e, GetIntType, SetInt64(GetIntType, Bit(holds)))
     ELSE As(e, GetIntType, NoConstant)

HandleBitwise(e, a, b) ==     \* looks for constants that there may not be
  IF ~IsInteger(a.value_type) \/ ~IsInteger(b.value_type) THEN Failed
  ELSE IF BothConstant(a, b) THEN HandleArithmetic(e, a, b, TRUE) ELSE Crashed

HandleComma(e, a, b) == As(e, b.value_type, NoConstant)

Handled(e, a, b) ==
  CASE e.op = "ADD" -> HandleAdd(e, a, b)
    [] e.op = "SUB" -> HandleSubtract(e, a, b)
    [] e.op \in {"MUL", "DIV", "REM"} -> HandleMultiplicative(e, a, b)
    [] e.op \in {"LT", "LTEQ", "GT", "GTEQ"} -> HandleRelational(e, a, b)
    [] e.op \in {"EQ", "NE"} -> HandleEquality(e, a, b)
    [] e.op \in {"SHIFT_LEFT", "SHIFT_RIGHT"} -> HandleShift(e, a, b)
    [] e.op \in {"LOGICAL_AND", "LOGICAL_OR"} -> HandleLogical(e, a, b)
    [] e.op \in {"BITWISE_AND", "BITWISE_OR", "BITWISE_XOR"} -> HandleBitwise(e, a, b)
    [] e.op = "COMMA" -> HandleComma(e, a, b)
HandleBinary(e) == The({Handled(e, a, b) : a \in {e.args[1]}, b \in {e.args[2]}})
NewBinary(op, a, b) ==
  The({IF ~Typed(a) \/ ~Typed(b) THEN e ELSE HandleBinary(e) :
         e \in {Expr("BINARY", op, <<a, b>>, NoType, NoConstant)}})

-----------------------------------------------------------------------------
(* Assignments, which are given no type. *)

(* A structure is refused unless it is incomplete. *)
CheckSimpleAssignment(inout, b) ==
  LET left == Dequalify(inout.value_type)
      right == Dequalify(b.value_type)
      pointers == left.metatype = "POINTER" /\ right.metatype = "POINTER"
      struct_assign == left.metatype \in {"STRUCT", "UNION"} /\ left = right
  IN /\ ~(struct_assign /\ ~IsIncomplete(left))
     /\ \/ IsArithmetic(inout.value_type) /\ IsArithmetic(b.value_type)
        \/ struct_assign
        \/ pointers /\ TypesCompatible(left.target, right.target)
        \/ pointers /\ Dequalify(right.target).metatype = "VOID"
        \/ left.metatype = "POINTER" /\ IsNullPointerConstant(b)
        \/ left.metatype = "BOOL" /\ right.metatype = "POINTER"

DoInplaceBinary(e) ==
  LET inout == e.args[1]
      b == e.args[2]
      arith == IsArithmetic(inout.value_type) /\ IsArithmetic(b.value_type)
      allowed == CASE e.op = "ASSIGN" -> CheckSimpleAssignment(inout, b)
                   [] e.op \in {"ADD", "SUB"} ->
                        arith \/ (IsPointer(inout.value_type) /\ IsInteger(b.value_type))
                   [] e.op \in {"LEFT_SHIFT", "RIGHT_SHIFT"} ->
                        arith /\ IsInteger(inout.value_type) /\ IsInteger(b.value_type)
                   [] OTHER -> arith
  IN IF IsConst(inout.value_type) \/ ~allowed THEN Failed ELSE e
NewInplaceBinary(op, inout, b) ==
  LET e == Expr("INPLACE_BINARY", op, <<inout, b>>, NoType, NoConstant)
  IN IF ~IsLvalue(inout) THEN Failed
     ELSE IF Typed(inout) /\ Typed(b) THEN DoInplaceBinary(e) ELSE e

InplaceUnaryOperators == {"PRE_INCR", "PRE_DECR", "POST_INCR", "POST_DECR"}
DoInplaceUnary(e) ==
  LET sub == e.args[1]
  IN IF IsConst(sub.value_type) \/ ~IsScalar(sub.value_type) THEN Failed ELSE e
NewInplaceUnary(op, inout) ==
  IF ~IsLvalue(inout) THEN Failed
  ELSE IF ~Typed(inout) THEN Crashed
  ELSE Expr("INPLACE_UNARY", op, <<inout>>, inout.value_type, NoConstant)

-----------------------------------------------------------------------------
(* The other operators. *)

UnaryOperators == {"NOOP", "NEGATE", "LOGICAL_NOT", "BITWISE_NOT", "REFERENCE", "DEREFERENCE"}
(* Neither sign is folded: the test looks at the constant of the expression *)
(* itself. The logical negation of a constant is its truth. *)
DoUnary(e, id) ==
  LET sub == e.args[1]
      type == sub.value_type
      truth == ScalarToTristate(type, sub.constant)
  IN CASE e.op \in {"NOOP", "NEGATE"} ->
            IF IsArithmetic(type) THEN As(e, type, NoConstant) ELSE Failed
       [] e.op = "LOGICAL_NOT" ->
            IF ~IsScalar(type) THEN Failed
            ELSE IF Constant(sub) /\ truth # "MAYBE"
            THEN As(e, GetIntType, SetInt64(GetIntType, Bit(truth = "YES")))
            ELSE As(e, GetIntType, NoConstant)
       [] e.op = "BITWISE_NOT" ->
            IF ~IsInteger(type) THEN Failed
            ELSE IF Constant(sub) THEN As(e, Dequalify(type), ValueBitwiseNot(type, sub.constant))
            ELSE As(e, Dequalify(type), NoConstant)
       [] e.op = "REFERENCE" ->
            IF IsLvalue(sub) THEN As(e, NewPointer(id, type), NoConstant) ELSE Failed
       [] e.op = "DEREFERENCE" ->
            IF IsPointer(type) THEN As(e, PointerDereference(type), NoConstant) ELSE Failed

(* A constant that cannot be cast, to a pointer or a boolean, becomes zero. *)
DoCast(e) ==
  LET type == e.value_type
      value == e.args[1]
      cast == CastValue(type, value.value_type, value.constant)
  IN IF type.metatype = "VOID" THEN e
     ELSE IF ~Typed(value) THEN Crashed
     ELSE IF ~IsScalar(type) \/ ~IsScalar(value.value_type) THEN Failed
     ELSE IF Constant(value) THEN As(e, type, IF cast = Refused THEN Zeros(type.size) ELSE cast)
     ELSE e
NewCast(type, value) == DoCast(Expr("CAST", "", <<value>>, type, NoConstant))

(* Associations are records of a type and an expression. *)
NewGenericSelection(e, associations, default) ==
  LET fits == {i \in DOMAIN associations :
                 TypesCompatible(e.value_type, associations[i].type)}
  IN IF fits # {} THEN associations[CHOOSE i \in fits : \A j \in fits : i <= j].expr
     ELSE default     \* Failed when there is none

DoAccess(e) ==
  LET object == e.args[1]
      outer == Dequalify(object.value_type)
      type == IF e.op = "ARROW" THEN Dequalify(PointerDereference(outer)) ELSE outer
      at == LookupMember(type, e.name)
  IN IF e.op = "ARROW" /\ outer.metatype # "POINTER" THEN Failed
     ELSE IF type.metatype \notin {"STRUCT", "UNION"} THEN Failed
     ELSE IF type.incomplete \/ at = 0 THEN Failed
     ELSE As(e, type.members[at].type, NoConstant)
NewAccess(is_pointer, object, name) ==
  LET e == [Expr("ACCESS", IF is_pointer THEN "ARROW" ELSE "DOT", <<object>>, NoType, NoConstant)
            EXCEPT !.name = name]
  IN IF Typed(object) THEN DoAccess(e) ELSE e

(* Conditional expressions with a null pointer constant take the constant of *)
(* the branch that is not, or what is not a constant, for theirs. *)
CombinePtrAndNpc(ptr, npc, id) ==
  LET target == PointerDereference(ptr)
      all == Qualifiers(target) \cup
             (IF IsPointer(npc.value_type) THEN Qualifiers(PointerDereference(npc.value_type))
              ELSE {})
      qualified == NewQualified(target, all)
  IN IF target = NoType THEN CrashType
     ELSE IF all = Qualifiers(target) THEN Dequalify(ptr)
     ELSE IF qualified = NoType THEN NoType ELSE NewPointer(id, qualified)
PointedAt(type) ==
  CASE Dequalify(type).metatype = "ARRAY" -> Dequalify(type).element
    [] OTHER -> PointerDereference(type)

PtrAndNpc(e, ptr, npc, when, id) ==     \* when: the truth that selects the null pointer
  LET type == CombinePtrAndNpc(ptr.value_type, npc, id)
      cond == e.args[1]
      truth == IF Constant(cond) THEN ScalarToTristate(cond.value_type, cond.constant)
               ELSE "MAYBE"
  IN IF type = NoType THEN Failed
     ELSE IF type = CrashType THEN Crashed
     ELSE IF truth = when /\ Constant(npc) THEN As(e, type, npc.constant)
     ELSE IF truth = "YES" /\ when = "NO" THEN Crashed      \* zeros that are no constant
     ELSE IF truth = "NO" /\ when = "YES" THEN As(e, type, Zeros(type.size))
     ELSE As(e, type, NoConstant)

DoTernary(e, id) ==
  LET cond == e.args[1]
      a == e.args[2]
      b == e.args[3]
      type == UsualArithmeticConversion(a.value_type, b.value_type)
      truth == IF Constant(cond) THEN ScalarToTristate(cond.value_type, cond.constant)
               ELSE "MAYBE"
      chosen == IF truth = "YES" THEN a ELSE b
      at == PointedAt(a.value_type)
      bt == PointedAt(b.value_type)
      composite == MakeComposite(at, bt)
      ptr == CASE a.value_type.metatype = "POINTER" /\ at = composite -> a.value_type
               [] b.value_type.metatype = "POINTER" /\ bt = composite -> b.value_type
               [] OTHER -> NewPointer(id, composite)
      qualified == NewQualified(ptr, Qualifiers(a.value_type) \cup Qualifiers(b.value_type))
  IN IF ~IsScalar(cond.value_type) THEN Failed
     ELSE IF IsArithmetic(a.value_type) /\ IsArithmetic(b.value_type)
     THEN IF type = CrashType THEN Crashed
          ELSE IF truth # "MAYBE" /\ Constant(chosen)
          THEN LET x == CastValue(type, chosen.value_type, chosen.constant)
               IN IF x = Refused THEN Crashed ELSE As(e, type, x)
          ELSE As(e, type, NoConstant)
     ELSE IF at # NoType /\ IsNullPointerConstant(b) THEN PtrAndNpc(e, a, b, "NO", id)
     ELSE IF bt # NoType /\ IsNullPointerConstant(a) THEN PtrAndNpc(e, b, a, "YES", id)
     ELSE IF at = NoType \/ bt = NoType THEN Failed     \* structures too
     ELSE IF ~TypesCompatible(at, bt) \/ composite = NoType \/ qualified = NoType THEN Failed
     ELSE As(e, qualified, NoConstant)
NewTernary(cond, a, b, id) ==
  The({IF Typed(cond) /\ ~IsScalar(cond.value_type) THEN Failed
       ELSE IF Typed(cond) /\ Typed(a) /\ Typed(b) THEN DoTernary(e, id) ELSE e :
         e \in {Expr("TERNARY", "", <<cond, a, b>>, NoType, NoConstant)}})

(* Declared in dbcc-type.h, and nowhere defined. *)
ImplicitlyConvertable(dst, src) ==
  TypesCompatible(dst, src) \/ (IsArithmetic(Dequalify(dst)) /\ IsArithmetic(Dequalify(src)))

(* The type of the result is found, and forgotten. *)
DoCall(e) ==
  LET head == e.args[1]
      args == Tail(e.args)
      target == PointerDereference(head.value_type)
      fct == IF head.value_type.metatype = "FUNCTION" THEN head.value_type ELSE target
  IN IF ~Typed(head) THEN Crashed
     ELSE IF fct.metatype # "FUNCTION" THEN Failed
     ELSE IF \/ Len(args) < Len(fct.params)
             \/ Len(args) > Len(fct.params) /\ ~fct.has_varargs
             \/ \E i \in DOMAIN fct.params :
                  ~ImplicitlyConvertable(fct.params[i].type, args[i].value_type)
     THEN Failed ELSE e
NewCall(head, args) ==
  The({IF \A i \in DOMAIN e.args : Typed(e.args[i]) THEN DoCall(e) ELSE e :
         e \in {Expr("CALL", "", <<head>> \o args, NoType, NoConstant)}})

-----------------------------------------------------------------------------
(* The types of a whole expression. *)

Lookup(e) ==
  The({CASE entry.entry_type = "TYPEDEF" -> Crashed
       [] entry.entry_type = "ENUM_VALUE" ->
            As(e, entry.type, SetInt64(entry.type, entry.value))
       [] entry.entry_type = "none" -> Failed
       [] OTHER -> As(e, entry.type, NoConstant) :
     entry \in {IF e.name \in DOMAIN symbols THEN symbols[e.name] ELSE [entry_type |-> "none"]}})

(* An expression whose operands have their types, if they get one. *)
Inferred(e, id) ==
  CASE e.expr_type = "IDENTIFIER" -> Lookup(e)
    [] e.expr_type = "CONSTANT" -> e
    [] e.expr_type = "CALL" -> DoCall(e)
    [] e.expr_type = "CAST" -> DoCast(e)
    [] \E i \in DOMAIN e.args : ~Typed(e.args[i]) -> Crashed
    [] e.expr_type = "UNARY" -> DoUnary(e, id)
    [] e.expr_type = "BINARY" -> HandleBinary(e)
    [] e.expr_type = "TERNARY" -> DoTernary(e, id)
    [] e.expr_type = "INPLACE_BINARY" -> DoInplaceBinary(e)
    [] e.expr_type = "INPLACE_UNARY" -> DoInplaceUnary(e)
    [] e.expr_type = "ACCESS" -> DoAccess(e)
    [] OTHER -> e           \* an error

(* Which operands have types inferred for them. *)
Descends(e, operand) ==
  \/ e.expr_type \in {"UNARY", "BINARY", "TERNARY"}
  \/ e.expr_type \in {"INPLACE_BINARY", "INPLACE_UNARY", "ACCESS"} /\ ~Typed(operand)

(* The first error among the operands, or the whole with its type. *)
Completed(e, args, id) ==
  LET bad == SelectSeq(args, Bad)
  IN IF bad # <<>> THEN bad[1]
     ELSE The({IF Bad(f) THEN f ELSE [f EXCEPT !.types_inferred = TRUE] :
                 f \in {Inferred(g, id) : g \in {[e EXCEPT !.args = args]}}})

RECURSIVE DoTypeInference(_, _)
DoTypeInference(e, id) ==
  IF e.types_inferred THEN e
  ELSE The({Completed(e, args, id) : args \in
              {[i \in DOMAIN e.args |->
                  IF Descends(e, e.args[i]) THEN DoTypeInference(e.args[i], id) ELSE e.args[i]]}})

NewUnary(op, a, id) ==
  The({IF Bad(sub) THEN sub ELSE IF ~Typed(sub) THEN Crashed
       ELSE The({DoUnary(e, id) : e \in {Expr("UNARY", op, <<sub>>, NoType, NoConstant)}}) :
         sub \in {DoTypeInference(a, id)}})
NewSubscript(object, subscript, id) ==
  The({IF Bad(sum) THEN sum ELSE NewUnary("DEREFERENCE", sum, id) :
         sum \in {NewBinary("ADD", object, subscript)}})

-----------------------------------------------------------------------------
(* An initializer with braces becomes a list of pieces: the bytes of the *)
(* object that an expression sets. Its pieces have designators, records of *)
(* an index (an expression) or of a member's name. *)

(* Where designators lead from a type: a type and an offset. An index must *)
(* not be an integer. *)
Designated(type, offset, designators) ==
  LET Step(at, d) ==
        IF at.type = NoType THEN at
        ELSE IF "index" \in DOMAIN d
        THEN IF at.type.metatype # "ARRAY" \/ IsInteger(d.index.value_type) \/ ~Constant(d.index)
             THEN [at EXCEPT !.type = NoType]
             ELSE LET element == Dequalify(at.type.element)
                  IN [type |-> element,
                      offset |-> at.offset
                                 + element.size * GetInt64(d.index.value_type, d.index.constant)]
        ELSE IF at.type.metatype \notin {"STRUCT", "UNION"} THEN [at EXCEPT !.type = NoType]
        ELSE LET i == LookupMember(at.type, d.member)
             IN IF i = 0 THEN [at EXCEPT !.type = NoType]
                ELSE [type |-> at.type.members[i].type,
                      offset |-> at.offset + (IF at.type.metatype = "UNION" THEN 0
                                              ELSE at.type.members[i].offset)]
  IN FoldLeft(Step, [type |-> Dequalify(type), offset |-> offset], designators)

(* The pieces, each with its offset and length; NoPieces for an error. *)
NoPieces == <<[offset |-> -1]>>
SetBy(at, typed) ==
  IF Bad(typed) THEN NoPieces
  ELSE <<[offset |-> at.offset, length |-> at.type.size, expr |-> typed]>>

RECURSIVE Flatten(_, _, _, _)
Flatten(init, type, offset, id) ==
  The({IF \E i \in DOMAIN init : parts[i] = NoPieces THEN NoPieces ELSE FlattenSeq(parts) : parts \in
    {[i \in DOMAIN init |->
        The({IF at.type = NoType THEN NoPieces
             ELSE IF init[i].is_expr
             THEN The({SetBy(at, e) : e \in {DoTypeInference(init[i].expr, id)}})
             ELSE Flatten(init[i].pieces, at.type, at.offset, id) :
               at \in {Designated(type, offset, init[i].designators)}})]}})

-----------------------------------------------------------------------------
(* Statements: those with a condition want a scalar one if its type is known,*)
(* and a switch collects the cases of its body. *)

Statement(type, parts) == [type |-> type, parts |-> parts]
NoStatement == Statement("failed", <<>>)
Conditional(type, condition, parts) ==    \* if, for, while and do
  IF Typed(condition) /\ ~IsScalar(condition.value_type) THEN NoStatement
  ELSE Statement(type, parts)
NewCase(value) == [type |-> "CASE", parts |-> <<>>, value |-> value]

(* The values of the cases so far, and whether all of them can be used. *)
RECURSIVE CollectCases(_, _)
CollectCases(cases, statement) ==
  IF ~cases.ok THEN cases
  ELSE CASE statement.type \in {"COMPOUND", "FOR", "WHILE", "DO_WHILE", "IF"} ->
              FoldLeft(CollectCases, cases, statement.parts)
         [] statement.type = "CASE" ->
              IF ~Constant(statement.value) THEN [cases EXCEPT !.ok = FALSE]
              ELSE LET x == GetInt64(statement.value.value_type, statement.value.constant)
                   IN IF \E i \in DOMAIN cases.values : cases.values[i] = x
                      THEN [cases EXCEPT !.ok = FALSE]
                      ELSE [cases EXCEPT !.values = Append(@, x)]
         [] OTHER -> cases       \* the cases of a switch inside are its own

(* The tree that the values are put in, in the shape that inserting two or *)
(* three of them gives it. *)
CaseTree(values) ==
  LET sorted == SetToSortSeq({values[i] : i \in DOMAIN values}, <)
      top == IF Len(values) < 3 THEN values[1] ELSE sorted[2]
  IN [top |-> top, left |-> SelectSeq(sorted, LAMBDA x : x < top),
      right |-> SelectSeq(sorted, LAMBDA x : x > top)]

(* The left subtree is written twice and the right one never; that the *)
(* number of those written is right is asserted. *)
CaseTable(values) ==
  IF values = <<>> THEN <<>>
  ELSE The({tree.left \o <<tree.top>> \o tree.left : tree \in {CaseTree(values)}})
NewSwitch(value, body) ==
  The({IF (Typed(value) /\ ~IsInteger(value.value_type)) \/ ~cases.ok THEN NoStatement
       ELSE IF Len(CaseTable(cases.values)) # Len(cases.values) THEN Statement("crashed", <<>>)
       ELSE [type |-> "SWITCH", parts |-> <<body>>, cases |-> CaseTable(cases.values)] :
         cases \in {CollectCases([ok |-> TRUE, values |-> <<>>], body)}})
=============================================================================
