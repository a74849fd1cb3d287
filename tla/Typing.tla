------------------------------- MODULE Typing -------------------------------
(***************************************************************************)
(* The types the parser gives to expressions and what gen_amd64.c takes    *)
(* them for: the type says in which register a value is, and which operand *)
(* of a sum is the pointer.  An expression is built from the inside, one   *)
(* tree at a time; `operands' are the trees not yet part of a larger one.  *)
(* Only what decides about the trees around is kept of a tree, so that     *)
(* expressions of any size are among the finitely many states.             *)
(*                                                                         *)
(* A type is a sequence: <<"array", "pointer", "int">> is an array of      *)
(* pointers to int.                                                        *)
(***************************************************************************)
EXTENDS Naturals, Sequences

CONSTANTS
  Variables,          \* types of the variables
  Results,            \* types of literals, of what functions return and of casts
  MaxDepth            \* bound on pointers to pointers

VARIABLES
  operands,           \* the last trees of the expressions in progress
  made,               \* the tree just made by ast_new_binary, if it was one
  phase

treeVars == <<operands, made, phase>>

-----------------------------------------------------------------------------
Kinds == <<"void", "char", "short", "int", "long", "llong", "float", "double", "ldouble",
           "array", "pointer", "structure">>

Kind(t) == IF t = << >> THEN "refused" ELSE Head(t)

Rank(t) == CHOOSE i \in DOMAIN Kinds : Kinds[i] = Kind(t)

IntType    == <<"int">>
LongType   == <<"long">>
DoubleType == <<"double">>
Refusal    == << >>      \* no type

Pointer(t) == <<"pointer">> \o t

VoidPointer == <<"pointer", "void">>

Integral(t)   == Kind(t) \in {"char", "short", "int", "long", "llong"}
Floating(t)   == Kind(t) \in {"float", "double", "ldouble"}
Arithmetic(t) == Integral(t) \/ Floating(t)
IsPointer(t)  == Kind(t) = "pointer"

\* ast_array_convert
Converted(t) == IF Kind(t) = "array" THEN Pointer(Tail(t)) ELSE t

ASSUME TypesAssumption ==
  /\ Variables \cup Results \subseteq Seq({Kinds[i] : i \in DOMAIN Kinds}) \ {<< >>}
  /\ MaxDepth \in Nat

-----------------------------------------------------------------------------
(* ast_result_type                                                         *)

\* ast_result_type_impl, a being of the lower kind
Ordered(op, a, b) ==
  CASE IsPointer(b) /\ op = "="                                -> a
    [] IsPointer(b) /\ op \in {"+", "-"} /\ Integral(a)        -> b
    [] Integral(a) /\ Integral(b) /\ Rank(b) <= Rank(IntType)  -> IntType
    [] Integral(a) /\ Integral(b) /\ Rank(b) > Rank(IntType)   -> LongType
    [] Arithmetic(a) /\ Floating(b)                            -> DoubleType
    [] OTHER                                                   -> Refusal

\* Slip: the left operand is taken for the one of the lower kind.
ResultUnordered(op, a, b) ==
  IF op \in {"<", ">", "&", "%", "==", ">=", "<=", "!=", "<<", ">>", "&&", "||"} THEN IntType
  ELSE Ordered(op, Converted(a), Converted(b))

ResultType(op, a, b) ==
  IF op \in {"<", ">", "&", "%", "==", ">=", "<=", "!=", "<<", ">>", "&&", "||"} THEN IntType
  ELSE LET s == Converted(a)
           t == Converted(b)
       IN IF Rank(s) > Rank(t) THEN Ordered(op, t, s) ELSE Ordered(op, s, t)

-----------------------------------------------------------------------------
(* Trees                                                                   *)

\* place: where the value is loaded from, "none" for what is no lvalue; held: the
\* register the code of the tree leaves its value in.  History: meant is C's type;
\* null says that the tree is made of constants so that it may be a null pointer constant,
\* should its value be 0; known that nothing in it is one of the divergences below.
Tree(type, place, held, meant, null, known) ==
  [type |-> type, place |-> place, held |-> held, meant |-> meant, null |-> null,
   known |-> known]

Register(t) == IF Floating(t) THEN "xmm0" ELSE "rax"

\* Slip: a floating value stays where it is.
LoadedUncut(type, tree) ==
  IF Floating(type) /\ ~Floating(tree.type) THEN "xmm0" ELSE tree.held

\* gen_load: the value of a tree, as a value of the type.
LoadedAs(type, tree) ==
  CASE Floating(type) /\ ~Floating(tree.type) -> "xmm0"
    [] ~Floating(type) /\ Floating(tree.type) -> "rax"
    [] OTHER                                  -> tree.held

\* The code of a binary operator: "=" leaves what it stored.
Computed(op, type, r) == IF op = "=" THEN LoadedAs(type, r) ELSE Register(type)

\* Slip: the operands are exchanged for any pointer on the right.
ExchangedAlways(op, l, r) == op # "=" /\ IsPointer(Converted(r.type))

\* ast_new_binary puts a pointer on the left.
Exchanged(op, l, r) ==
  op # "=" /\ ~IsPointer(Converted(l.type)) /\ IsPointer(Converted(r.type))

-----------------------------------------------------------------------------
(* What C says (C99 6.5): the type, or a refusal.                          *)

Promoted(t) == IF Integral(t) /\ Rank(t) < Rank(IntType) THEN IntType ELSE t

Common(s, t) == IF Rank(s) < Rank(t) THEN Promoted(t) ELSE Promoted(s)

Equalities  == {"==", "!="}
Comparisons == {"<", ">", ">=", "<="} \cup Equalities
Logical     == {"&&", "||"}
Additive    == {"+", "-"}
Operators   == Comparisons \cup Logical \cup Additive
               \cup {"*", "/", "%", "&", "|", "^", "<<", ">>", "="}
Assigning   == Additive \cup {"*", "/", "%", "&", "|", "^", "<<", ">>"}

Scalar(t) == Arithmetic(t) \/ IsPointer(t)

\* An integer constant expression.  Its value is not kept: it is taken for 0 wherever C then
\* has a type for what it is part of.
Constant(e) == e.null /\ Integral(e.meant)

\* 6.3.2.3: such an expression with the value 0, or that cast to void *.
Null(e) == e.null /\ (Integral(e.meant) \/ e.meant = VoidPointer)

Matching(s, t) == IsPointer(s) /\ IsPointer(t) /\ (s = t \/ VoidPointer \in {s, t})

\* A pointer to something that has a size.
Moves(t) == IsPointer(t) /\ t # VoidPointer

CType(op, a, b) ==
  LET s == Converted(a.meant)
      t == Converted(b.meant)
      assignable == a.place # "none" /\ Kind(a.meant) # "array"
  IN CASE op \in Logical /\ Scalar(s) /\ Scalar(t)                          -> IntType
       [] op \in Comparisons /\ Arithmetic(s) /\ Arithmetic(t)              -> IntType
       [] op \in Comparisons /\ IsPointer(s) /\ s = t                       -> IntType
       [] op \in Equalities /\ Matching(s, t)                               -> IntType
       [] op \in Equalities /\ IsPointer(s) /\ Null(b)                      -> IntType
       [] op \in Equalities /\ Null(a) /\ IsPointer(t)                      -> IntType
       [] op \in {"<<", ">>"} /\ Integral(s) /\ Integral(t)                 -> Promoted(s)
       [] op \in {"%", "&", "|", "^"} /\ Integral(s) /\ Integral(t)         -> Common(s, t)
       [] op \in Additive \cup {"*", "/"} /\ Arithmetic(s) /\ Arithmetic(t) -> Common(s, t)
       [] op \in Additive /\ Moves(s) /\ Integral(t)                        -> s
       [] op = "+" /\ Integral(s) /\ Moves(t)                               -> t
       [] op = "-" /\ Moves(s) /\ s = t                                     -> LongType
       [] op = "=" /\ assignable /\ Arithmetic(s) /\ Arithmetic(t)          -> a.meant
       [] op = "=" /\ assignable /\ Matching(s, t)                          -> a.meant
       [] op = "=" /\ assignable /\ IsPointer(s) /\ Null(b)                 -> a.meant
       [] op = "=" /\ assignable /\ s = t /\ Kind(s) = "structure"          -> a.meant
       [] OTHER                                                            -> Refusal

\* The type of a conditional with these branches.
Branches(a, b) ==
  LET s == Converted(a.meant)
      t == Converted(b.meant)
  IN IF Arithmetic(s) /\ Arithmetic(t) THEN Common(s, t)
     ELSE IF s = t THEN s
     ELSE IF IsPointer(s) /\ Null(b) THEN s
     ELSE IF Null(a) /\ IsPointer(t) THEN t
     ELSE IF Matching(s, t) THEN VoidPointer
     ELSE Refusal

-----------------------------------------------------------------------------
(* Where the compiler is known to leave C                                  *)

\* An integer that is assigned a floating value; a pointer that is assigned a null pointer
\* constant of an integer type, which makes the assignment an int; operators on longs whose
\* result is always an int.
Diverges(op, l, r) ==
  \/ op = "=" /\ ~Floating(l.meant) /\ Floating(r.meant)
  \/ op = "=" /\ IsPointer(l.meant) /\ Integral(r.meant)
  \/ op \in {"&", "%", "<<", ">>"} /\ Kind(CType(op, l, r)) \in {"long", "llong"}

-----------------------------------------------------------------------------
(* Building trees                                                          *)

ExprInit == operands = << >> /\ made = << >> /\ phase = "parsing"

Top  == operands[Len(operands)]
Left == operands[Len(operands) - 1]

Below(n) == SubSeq(operands, 1, Len(operands) - n)
Holds(n) == phase = "parsing" /\ Len(operands) >= n

\* In place of the last n a tree, if the compiler accepts it, or compile_error.  Of what C
\* refuses and the compiler accepts nothing more is claimed.
Give(accepted, legal, n, tree) ==
  IF accepted /\ legal THEN operands' = Append(Below(n), tree) /\ UNCHANGED phase
  ELSE /\ phase' = IF accepted THEN "undefined" ELSE IF legal THEN "refused" ELSE "error"
       /\ UNCHANGED operands

Known(tree) == Give(TRUE, TRUE, 0, tree) /\ made' = << >>

\* gen_load_local, gen_load_global
Variable(t, place) ==
  /\ phase = "parsing" /\ Len(operands) < 2
  /\ Known(Tree(t, place, IF place = "global" THEN "rax" ELSE Register(t), t, FALSE,
                place = "local" \/ ~Floating(t)))

\* A call, or a literal, of which there are none narrower than an int.
Rvalue(t) ==
  /\ phase = "parsing" /\ Len(operands) < 2
  /\ \E literal \in {FALSE, Arithmetic(t) /\ Promoted(t) = t} :
       Known(Tree(t, "none", Register(t), t, literal, TRUE))

\* The tree of ast_new_binary.
Joined(op, l, r) ==
  LET type == ResultType(op, l.type, r.type)
  IN Tree(type, "none", Computed(op, type, r), CType(op, l, r), Constant(l) /\ Constant(r),
          l.known /\ r.known /\ ~Diverges(op, l, r))

Make(op, l, r) ==
  LET x == Exchanged(op, l, r)
  IN << [op |-> op, type |-> ResultType(op, l.type, r.type), written |-> <<l.type, r.type>>,
         left |-> IF x THEN r.type ELSE l.type, right |-> IF x THEN l.type ELSE r.type,
         known |-> l.known /\ r.known] >>

\* parse_semantic_lvalue, parse_semantic_integer and ast_result_type.  The names of the
\* shifts in parse_operation_integer_check are the lexer's, and never met.
Accepted(op, l, r) ==
  /\ op = "=" => l.place # "none"
  /\ op \in {"^", "%"} => Integral(l.type) /\ Integral(r.type)
  /\ ResultType(op, l.type, r.type) # Refusal

Legal(op, l, r) == CType(op, l, r) # Refusal

Combine(n, accepted, legal, op, l, r) ==
  /\ Give(accepted, legal, n, Joined(op, l, r))
  /\ made' = IF accepted /\ legal THEN Make(op, l, r) ELSE << >>

Binary(op) ==
  /\ Holds(2)
  /\ Combine(2, Accepted(op, Left, Top), Legal(op, Left, Top), op, Left, Top)

\* The tree of the left side stands on both sides.
Compound(op) ==
  /\ Holds(2)
  /\ LET value == Joined(op, Left, Top)
     IN Combine(2, Left.place # "none" /\ Accepted(op, Left, Top) /\ Accepted("=", Left, value),
                Legal(op, Left, Top) /\ Legal("=", Left, value), "=", Left, value)

Zero == Tree(IntType, "none", "rax", IntType, TRUE, TRUE)

Negate ==
  /\ Holds(1)
  /\ Combine(1, Accepted("-", Zero, Top), Arithmetic(Top.meant), "-", Zero, Top)

\* A tree with one operand.
Unary(accepted, legal, tree) == Holds(1) /\ Give(accepted, legal, 1, tree) /\ made' = << >>

Not ==
  Unary(TRUE, Scalar(Converted(Top.meant)),
        Tree(IntType, "none", "rax", IntType, Constant(Top), Top.known))

\* The operand's own type is kept, where C promotes it.
Complement ==
  Unary(Integral(Top.type), Integral(Top.meant),
        Tree(Top.type, "none", Top.held, Promoted(Top.meant), Constant(Top), Top.known))

\* AST_TYPE_ADDRESS: of a dereference it is the value that is loaded.
Address ==
  /\ Holds(1) /\ Len(Top.type) <= MaxDepth /\ Len(Top.meant) <= MaxDepth
  /\ Unary(Top.place # "none", Top.place # "none",
           Tree(Pointer(Top.type), "none", IF Top.place = "dereference" THEN Top.held ELSE "rax",
                Pointer(Top.meant), FALSE, Top.known /\ Top.place # "dereference"))

\* AST_TYPE_DEREFERENCE of a tree of the type, with C's type meant.
Loaded(type, meant, known) ==
  Tree(Tail(type), "dereference", Register(Tail(type)), Tail(meant), FALSE, known)

Pointing(t) == IsPointer(Converted(t))

Dereference ==
  Unary(Pointing(Top.type), Pointing(Top.meant), Loaded(Top.type, Top.meant, Top.known))

\* a[b]: *(a + b).  No operand is checked to be a pointer: of another sum the tree has no type
\* (NULL), and the compiler dies where it is next looked at.
Subscript ==
  /\ Holds(2)
  /\ LET sum == Joined("+", Left, Top)
     IN Give(Accepted("+", Left, Top) /\ Pointing(sum.type),
             Legal("+", Left, Top) /\ Pointing(sum.meant), 2,
             Loaded(sum.type, sum.meant, sum.known))
  /\ made' = << >>

\* ++ and --, before or after the operand: the code adds to rax.
Step ==
  Unary(Top.place # "none", Top.place # "none" /\ (Arithmetic(Top.meant) \/ Moves(Top.meant)),
        [Top EXCEPT !.place = "none"])

Castable(t, from) ==
  \/ Kind(t) = "void"
  \/ /\ Scalar(t) /\ Scalar(from)
     /\ ~(Floating(t) /\ IsPointer(from)) /\ ~(IsPointer(t) /\ Floating(from))

\* A floating constant is part of an integer constant expression where it is cast at once.
Cast(t) ==
  Unary(TRUE, Castable(t, Converted(Top.meant)),
        Tree(t, "none", LoadedAs(t, Top), t,
             \/ Top.null /\ Arithmetic(Top.meant) /\ Integral(t)
             \/ Constant(Top) /\ t = VoidPointer,
             Top.known))

\* parse_expression_condition: the type is that of the first branch, and either branch
\* leaves the value.
Conditional ==
  /\ Holds(2)
  /\ LET s == Converted(Left.meant)
         t == Converted(Top.meant)
         meant == Branches(Left, Top)
     IN \E branch \in {Left, Top} :
          Give(TRUE, meant # Refusal, 2,
               Tree(Left.type, "none", branch.held, meant, Constant(Left) /\ Constant(Top),
                    /\ Left.known /\ Top.known
                    /\ Promoted(s) = meant
                    /\ Promoted(t) = meant \/ IsPointer(meant)))
  /\ made' = << >>

ExprNext ==
  \/ \E t \in Variables : \E place \in {"local", "global"} : Variable(t, place)
  \/ \E t \in Results : Rvalue(t) \/ Cast(t)
  \/ \E op \in Operators : Binary(op)
  \/ \E op \in Assigning : Compound(op)
  \/ Negate \/ Not \/ Complement \/ Address \/ Dereference \/ Subscript \/ Step \/ Conditional

ExprSpec == ExprInit /\ [][ExprNext]_treeVars

-----------------------------------------------------------------------------
(* Properties                                                              *)

Trees == {operands[i] : i \in DOMAIN operands}

Wide(t) == Kind(t) \in {"long", "llong", "double", "ldouble"}

\* What C has a type for and the compiler refuses.
Difference ==
  Len(operands) > 1 /\ IsPointer(Converted(Left.meant)) /\ IsPointer(Converted(Top.meant))
Structures == Len(operands) > 1 /\ Kind(Left.meant) = "structure"

\* ast_result_type and the checks of the parser: whatever an expression is made of, its type
\* is an integer, a floating type or the pointer that C says, and as wide from int upwards (an
\* array may have been converted, and ~c is a char, where C promotes c).  Of what these
\* operators make of operands C has a type for, nothing is refused but the difference of two
\* pointers and the assignment of a structure.  Excepted from both is what has a tree in it that
\* is not known: Diverges (`p = 0' is an int, ...), a conditional whose first branch does not have
\* the type of the whole, the address of a dereference, a floating variable of the file.
TypesAsInC ==
  /\ \A e \in {t \in Trees : t.known} :
       \/ Converted(e.type) = Converted(e.meant)
       \/ /\ Integral(e.type) <=> Integral(e.meant)
          /\ Floating(e.type) <=> Floating(e.meant)
          /\ Arithmetic(e.type)
          /\ Wide(e.meant) => Wide(e.type)
  /\ phase = "refused" => (\E t \in Trees : ~t.known) \/ Difference \/ Structures

\* gen_load, gen_save, gen_cast_int, gen_cast_float: what takes a value looks in the register
\* that the type names, and there the code of the expression has left it.
HeldAsTyped == \A e \in {t \in Trees : t.known} : e.held = Register(e.type)

\* ast_new_binary: an operand of known trees moves to the other side only where C allows it, and
\* the one gen_pointer_arithmetic takes the size from is the pointer.  && and || are moved too,
\* when only the right operand is a pointer: then it is evaluated first.
OperandsInOrder ==
  \A m \in {made[i] : i \in DOMAIN made} :
    m.known =>
      /\ <<m.left, m.right>> # m.written =>
           \/ m.op \in {"+", "==", "!="}
           \/ m.op \in Logical /\ Pointing(m.left)
      /\ IsPointer(m.type) /\ m.op \in Additive => Converted(m.left) = m.type
=============================================================================
