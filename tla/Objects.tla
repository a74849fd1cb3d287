------------------------------ MODULE Objects ------------------------------
(***************************************************************************)
(* A program for Access and ObjectStore: its types, its variables and its  *)
(* assignments, as trees of the parser.                                    *)
(*                                                                         *)
(*   struct inner { char a; int b; };                                      *)
(*   struct outer { char c; struct inner t; int v[2];                      *)
(*                  struct outer *next; };                                 *)
(*   struct outer g;                           a variable of the file      *)
(*   struct outer s, *p; int *q; struct inner *r;         local variables  *)
(*                                                                         *)
(* l is the local variable that holds the compound literal                 *)
(* (struct inner){ 3, g.t.b }.  What the left side of an assignment        *)
(* mentions first is not such a literal: that is a finding.                *)
(***************************************************************************)
EXTENDS Integers, Sequences, SequencesExt, FiniteSets

CharType    == [kind |-> "char", size |-> 1, of |-> "none"]
IntType     == [kind |-> "int", size |-> 4, of |-> "none"]
Pointer(of) == [kind |-> "pointer", size |-> 8, of |-> of]
Inner       == [kind |-> "structure", size |-> 8, of |-> "inner"]
Outer       == [kind |-> "structure", size |-> 32, of |-> "outer"]
IntArray    == [kind |-> "array", size |-> 8, of |-> "int"]

TypeNamed == [int |-> IntType, inner |-> Inner, outer |-> Outer]

FieldOf(name, type, offset) == [name |-> name, type |-> type, offset |-> offset]

Fields ==
  [inner |-> {FieldOf("a", CharType, 0), FieldOf("b", IntType, 4)},
   outer |-> {FieldOf("c", CharType, 0), FieldOf("t", Inner, 8), FieldOf("v", IntArray, 16),
              FieldOf("next", Pointer("outer"), 24)}]

Variables == [g |-> Outer, s |-> Outer, p |-> Pointer("outer"), q |-> Pointer("int"),
              r |-> Pointer("inner"), l |-> Inner]

IsScalar(type) == type.kind \in {"char", "int", "pointer"}

\* The elements of an array, named by their index.
Elements == {FieldOf("0", IntType, 0), FieldOf("1", IntType, 4)}
Members(type) ==
  CASE type.kind = "structure" -> Fields[type.of]
    [] type.kind = "array"     -> Elements
    [] OTHER                   -> {}

\* A reference is a variable and the names that lead from it to a part of it.
RECURSIVE Parts(_, _)
Parts(ref, type) ==
  {[ref |-> ref, type |-> type]}
  \cup UNION {Parts(Append(ref, m.name), m.type) : m \in Members(type)}

AllParts == UNION {Parts(<<x>>, Variables[x]) : x \in DOMAIN Variables}
Scalars  == {part.ref : part \in {o \in AllParts : IsScalar(o.type)}}
TypeOf   == [ref \in {o.ref : o \in AllParts} |-> (CHOOSE o \in AllParts : o.ref = ref).type]
Null     == <<"null">>

\* What a pointer to a type may point to.
Targets ==
  [of \in DOMAIN TypeNamed |-> {ref \in DOMAIN TypeOf : TypeOf[ref] = TypeNamed[of]}]

\* A value is a number or a reference.
Number(n)      == [number |-> n, ref |-> Null]
Reference(ref) == [number |-> 0, ref |-> ref]

-----------------------------------------------------------------------------
(* Expressions                                                             *)

Node(op, name, number, type, kids) ==
  [op |-> op, name |-> name, number |-> number, type |-> type, kids |-> kids]

Constant(n)  == Node("constant", "", n, IntType, << >>)
Var(x)       == Node("variable", x, 0, Variables[x], << >>)
AddressOf(x) == Node("address", x, 0, Pointer(Variables[x].of), << >>)
Assign(l, e) == Node("=", "", 0, l.type, <<l, e>>)
PostStep(l)  == Node("++", "", 0, l.type, <<l>>)
Add(l, n)    == Node("+=", "", n, l.type, <<l>>)
\* number is the offset of the field.
Dot(e, m)    == Node(".", m.name, m.offset, m.type, <<e>>)
Deref(e)     == Node("*", "", 0, TypeNamed[e.type.of], <<e>>)
Plus(e, n)   == Node("+", "", n, Pointer(e.type.of), <<e>>)

\* The lvalues of scalars in an lvalue.
RECURSIVE Within(_)
Within(e) ==
  CASE e.type.kind = "structure" -> UNION {Within(Dot(e, m)) : m \in Members(e.type)}
    [] e.type.kind = "array"     -> {Deref(e), Deref(Plus(e, 1))}
    [] OTHER                     -> {e}

Field(e, name) == Dot(e, CHOOSE m \in Members(e.type) : m.name = name)

AtP    == Deref(Var("p"))
AfterP == Deref(Field(AtP, "next"))

Arrow == Within(AtP) \cup Within(Deref(Var("r")))
           \cup {Deref(Var("q")), Deref(Plus(Var("q"), 1)), Field(AfterP, "c"),
                 Field(Field(AfterP, "t"), "b"), Deref(Plus(Field(AfterP, "v"), 1)),
                 Deref(Field(AtP, "v")), Field(Deref(Field(Var("s"), "next")), "next")}

Lvalues == Within(Var("s")) \cup Within(Var("g")) \cup {Var("p"), Var("q")} \cup Arrow

IsInteger(e) == e.type.kind \in {"char", "int"}
Integers     == {e \in Lvalues : IsInteger(e)}

Const == Constant(9)

LiteralA  == Constant(3)
LiteralB  == Field(Field(Var("g"), "t"), "b")
OfLiteral == Within(Var("l"))

IntegerValues ==
  {Const} \cup Integers \cup {PostStep(e) : e \in {f \in Integers : f.kids # << >>}}
  \cup {Assign(e, Const) : e \in Arrow \cap Integers}
  \cup {Field(Var("l"), "b")}

PointerValues(of) ==
  CASE of = "outer" -> {AddressOf("s"), AddressOf("g")}
                       \cup {e \in Lvalues : e.type = Pointer("outer")}
    [] of = "int"   -> {Var("q"), Field(Var("s"), "v"), Field(AtP, "v"),
                        Plus(Field(Var("g"), "v"), 1), Plus(Var("q"), 1)}
    [] of = "inner" -> {AddressOf("l")}

\* One whose left side assigns too: the right side comes first.
Nested == {Assign(Field(Deref(Assign(Var("p"), AddressOf("g"))), "c"), Const)}

Statements ==
  {Assign(pair[1], pair[2]) : pair \in Integers \X IntegerValues}
  \cup UNION {{Assign(e, v) : v \in PointerValues(e.type.of)} :
                e \in (Lvalues \ Integers) \cup {Var("r")}}
  \cup UNION {{PostStep(e), Add(e, 2)} : e \in Integers \cup OfLiteral} \cup Nested
=============================================================================
