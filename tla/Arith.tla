------------------------------- MODULE Arith --------------------------------
(***************************************************************************)
(* The numbers behind the integer and pointer code of gen_amd64.c: what    *)
(* loads, operators, casts and stores leave in rax and in a variable, for  *)
(* a sequence of expressions about one variable and literals.  GenCall is  *)
(* about where operands are; here they are where they belong.              *)
(*                                                                         *)
(* rax has the width of a long.  A load fills it up with zeros and every   *)
(* operator works on all of it, so of a negative int only the low half is  *)
(* what C says.  The history `bits' follows how many low bits are right.   *)
(***************************************************************************)
EXTENDS Integers, Sequences, FiniteSetsExt

CONSTANTS
  CharBits, IntBits,  \* widths of a char and an int
  LongBits,           \* width of a long, a pointer and a register
  Literals,           \* the literals of the program
  VariableTypes,      \* the types the variable may have
  Size, Elements      \* bytes of what a pointer points to, and how many of them

ASSUME WidthAssumption ==
  /\ {CharBits, IntBits, LongBits} \subseteq Nat \ {0}
  /\ CharBits < IntBits /\ IntBits < LongBits /\ LongBits <= 2 * IntBits
  /\ Size \in Nat \ {0} /\ Elements \in Nat /\ Size * Elements < 2^LongBits
  /\ Literals \subseteq 0..(2^(IntBits - 1) - 1)

Register == LongBits
Types    == <<"char", "int", "long", "pointer">>
Width    == [char |-> CharBits, int |-> IntBits, long |-> Register, pointer |-> Register]

Wrap(n, w)   == n % 2^w
Signed(u, w) == IF u < 2^(w - 1) THEN u ELSE u - 2^w
Lesser(a, b) == IF a < b THEN a ELSE b

Rank(t) == CHOOSE r \in 1..Len(Types) : Types[r] = t

VARIABLES
  vtype,              \* the type of the variable
  memory,             \* its contents
  held,               \* history: the value C says it has
  known,              \* history: C's and the program's value are claimed to agree
  acc,                \* the expression just evaluated: rax, and what C says of it
  wrote               \* the expression has assigned to the variable

vars == <<vtype, memory, held, known, acc, wrote>>

\* An expression: the word in rax, C's value and type, how many bits are right, and
\* whether no negative value was met so far.
Value(word, meant, type, bits, positive) ==
  [word |-> word, meant |-> meant, type |-> type, bits |-> bits,
   positive |-> positive /\ meant >= 0]

None == [bits |-> Register, positive |-> FALSE]

-----------------------------------------------------------------------------
(* What C says                                                             *)

Values(t) ==
  IF t = "pointer" THEN 0..(Size * Elements) ELSE -(2^(Width[t] - 1))..(2^(Width[t] - 1) - 1)

Converted(n, t) == IF t = "pointer" THEN n ELSE Signed(Wrap(n, Width[t]), Width[t])

Promoted(t) == IF t = "char" THEN "int" ELSE t
Common(s, t) == IF Rank(s) < Rank(t) THEN Promoted(t) ELSE Promoted(s)

Comparisons == {"<", ">", "==", ">=", "<=", "!="}
Logical     == {"&&", "||"}

TypeOf(op, l, r) ==
  CASE op \in Comparisons \cup Logical -> "int"
    [] op \in {"<<", ">>"}             -> Promoted(l.type)
    [] OTHER                           -> Common(l.type, r.type)

Truth(b) == IF b THEN 1 ELSE 0
Abs(n)   == IF n < 0 THEN -n ELSE n
Sign(n)  == IF n < 0 THEN -1 ELSE 1
Quotient(a, b) == Sign(a) * Sign(b) * (Abs(a) \div Abs(b))

\* The bits two words share, by halves.
Half    == 0..(2^IntBits - 1)
AndHalf == [a, b \in Half |->
              MapThenSumSet(LAMBDA k : 2^k * (((a \div 2^k) % 2) * ((b \div 2^k) % 2)),
                            0..(IntBits - 1))]
And(a, b) ==
  AndHalf[a % 2^IntBits, b % 2^IntBits]
  + 2^IntBits * AndHalf[a \div 2^IntBits, b \div 2^IntBits]

OnBits(op, a, b) ==
  CASE op = "&" -> And(a, b)
    [] op = "|" -> a + b - And(a, b)
    [] op = "^" -> a + b - 2 * And(a, b)

\* An operator on integers; n and m are what C says or what a register holds.
Operator(op, n, m) ==
  CASE op = "+"  -> n + m
    [] op = "-"  -> n - m
    [] op = "*"  -> n * m
    [] op = "/"  -> Quotient(n, m)
    [] op = "%"  -> n - m * Quotient(n, m)
    [] op = "<<" -> n * 2^m
    [] op = ">>" -> n \div 2^m
    [] op = "<"  -> Truth(n < m)
    [] op = ">"  -> Truth(n > m)
    [] op = "==" -> Truth(n = m)
    [] op = ">=" -> Truth(n >= m)
    [] op = "<=" -> Truth(n <= m)
    [] op = "!=" -> Truth(n # m)
    [] op = "&&" -> Truth(n # 0 /\ m # 0)
    [] op = "||" -> Truth(n # 0 \/ m # 0)
    [] OTHER     -> Signed(OnBits(op, Wrap(n, Register), Wrap(m, Register)), Register)

\* C defines the result.
Defined(op, l, r) ==
  /\ op \in {"/", "%"}   => r.meant # 0
  /\ op \in {"<<", ">>"} => r.meant \in 0..(Width[Promoted(l.type)] - 1)
  /\ op = "<<"           => l.meant >= 0
  /\ Operator(op, l.meant, r.meant) \in Values(TypeOf(op, l, r))

-----------------------------------------------------------------------------
(* What the code does                                                      *)

\* Slip: rax is not cleared before a char is loaded to its lowest byte.
LoadedDirty(old) ==
  IF vtype = "char" THEN memory + 2^CharBits * (old \div 2^CharBits) ELSE memory

\* gen_load_local and gen_load_global, after another value was in the register.
Loaded(old) == memory

\* Slip: the bits shifted in are zeros.
ShiftedLogical(l, r) == l \div 2^(r % Register)

\* sar: the sign is shifted in.
Shifted(l, r) == Wrap(Signed(l, Register) \div 2^(r % Register), Register)

\* gen_binary_arithmetic_integer, gen_comparision and the cases of gen_expression.
Machine(op, l, r) ==
  CASE op = "<<" -> Wrap(l * 2^(r % Register), Register)
    [] op = ">>" -> Shifted(l, r)
    [] op = "%"  -> Wrap(Operator("%", Signed(l, Register), Signed(r, Register)), IntBits)
    [] OTHER     -> Wrap(Operator(op, Signed(l, Register), Signed(r, Register)), Register)

\* gen_save_local, gen_save_global.
Saved(word) == Wrap(word, Width[vtype])

-----------------------------------------------------------------------------
(* How many bits come out right                                            *)

Exact(v) == v.bits = Register

RightBits(op, l, r) ==
  LET m == Operator(op, l.meant, r.meant)
      masks(v, w) == Exact(v) /\ v.meant \in 0..(2^w.bits - 1)
  IN CASE op \in {"+", "-", "*", "|", "^"} -> Lesser(l.bits, r.bits)
       [] op = "&"  -> IF masks(l, r) \/ masks(r, l) THEN Register ELSE Lesser(l.bits, r.bits)
       [] op = "<<" -> IF Exact(r) THEN l.bits ELSE 0
       [] op = "%"  -> IF ~(Exact(l) /\ Exact(r)) THEN 0
                       ELSE IF m \in 0..(2^IntBits - 1) THEN Register ELSE IntBits
       [] OTHER     -> IF Exact(l) /\ Exact(r) THEN Register ELSE 0

\* After a conversion nothing is done about.
Kept(v, t) ==
  LET n == Converted(v.meant, t)
  IN Value(v.word, n, t, IF n = v.meant THEN v.bits ELSE Lesser(v.bits, Width[t]),
           v.positive /\ n = v.meant)

-----------------------------------------------------------------------------
(* Expressions                                                             *)

Literal(n) == Value(n, n, "int", Register, TRUE)

Variable(old) ==
  Value(Loaded(old), held, vtype, IF held >= 0 THEN Register ELSE Width[vtype], TRUE)

\* A 64-bit register is enough for one binary operator.
Binary(op, l, r) ==
  Value(Machine(op, l.word, r.word), Operator(op, l.meant, r.meant), TypeOf(op, l, r),
        RightBits(op, l, r),
        l.positive /\ r.positive
          /\ (op = "%" => Operator(op, l.meant, r.meant) < 2^IntBits))

\* gen_pointer_arithmetic adds, whatever the operator is.
OnPointer(op, p, i) ==
  LET index == IF op = "+" THEN i.meant ELSE -i.meant
  IN Value(Wrap(p.word + Size * i.word, Register), p.meant + Size * index, "pointer",
           IF index = i.meant THEN Lesser(p.bits, i.bits) ELSE 0,
           p.positive /\ i.positive)

Init ==
  /\ vtype \in VariableTypes
  /\ held \in Values(vtype) /\ memory = Wrap(held, Width[vtype])
  /\ known = TRUE /\ acc = None /\ wrote = FALSE

Evaluated(v) == acc' = v /\ UNCHANGED <<vtype, memory, held, known>>

\* The word that is in the register before.
Before == IF acc = None THEN 2^Register - 1 ELSE acc.word

\* An expression begins.
Begin ==
  /\ acc = None
  /\ \/ \E n \in Literals : Evaluated(Literal(n))
     \/ Evaluated(Variable(Before))
  /\ UNCHANGED wrote

Operands == {Literal(n) : n \in Literals} \cup (IF wrote THEN {} ELSE {Variable(Before)})
BinaryOperators == {"+", "-", "*", "/", "%", "<<", ">>", "&", "|", "^"} \cup Comparisons \cup Logical

Sides == UNION {{<<acc, o>>, <<o, acc>>} : o \in Operands}

Operate ==
  /\ acc # None
  /\ \E op \in BinaryOperators, s \in Sides :
       /\ "pointer" \in {s[1].type, s[2].type} =>
            s[1].type = s[2].type /\ op \in Comparisons
       /\ Defined(op, s[1], s[2])
       /\ op \in {"/", "%"} => s[2].word # 0      \* idiv traps
       /\ Evaluated(Binary(op, s[1], s[2]))
  /\ UNCHANGED wrote

\* ast_new_binary has put the pointer on the left.
Index ==
  /\ acc # None
  /\ \E op \in {"+", "-"}, s \in Sides :
       /\ s[1].type = "pointer" /\ s[2].type # "pointer"
       /\ OnPointer(op, s[1], s[2]).meant \in Values("pointer")
       /\ Evaluated(OnPointer(op, s[1], s[2]))
  /\ UNCHANGED wrote

\* A minus is a subtraction from a literal.
Negate ==
  /\ acc # None /\ acc.type # "pointer" /\ Defined("-", Literal(0), acc)
  /\ Evaluated(Binary("-", Literal(0), acc)) /\ UNCHANGED wrote

Not ==
  /\ acc # None
  /\ Evaluated(Value(Truth(acc.word = 0), Truth(acc.meant = 0), "int",
                     IF Exact(acc) THEN Register ELSE 0, acc.positive))
  /\ UNCHANGED wrote

Complement ==
  /\ acc # None /\ acc.type # "pointer"
  /\ Evaluated(Value(2^Register - 1 - acc.word, -acc.meant - 1, Promoted(acc.type), acc.bits,
                     acc.positive))
  /\ UNCHANGED wrote

\* gen_load converts between integers and floating values only.
Cast ==
  /\ acc # None /\ acc.type # "pointer"
  /\ \E t \in {"char", "int", "long"} : Evaluated(Kept(acc, t))
  /\ UNCHANGED wrote

\* gen_assignment of the word in rax, which C says is v.
Store(word, v) ==
  /\ memory' = Saved(word)
  /\ held' = Converted(v.meant, vtype)
  /\ known' = (v.bits >= Width[vtype])
  /\ wrote' = TRUE
  /\ UNCHANGED vtype

Assign ==
  /\ acc # None /\ ~wrote
  /\ (vtype = "pointer") <=> (acc.type = "pointer")
  /\ Store(acc.word, acc)
  /\ acc' = Kept(acc, vtype)

\* One more or less, as the compiler computes it: by one byte for a pointer.
Stepped(op) ==
  LET v == Variable(Before)
      r == Literal(1)
  IN IF vtype = "pointer"
       THEN Value(Machine(op, v.word, 1), Operator(op, v.meant, Size), vtype,
                  IF Size = 1 THEN v.bits ELSE 0, v.positive)
       ELSE Binary(op, v, r)

Steps(op) ==
  acc = None /\ Stepped(op).meant \in Values(IF vtype = "pointer" THEN vtype ELSE Promoted(vtype))

PreStep ==
  \E op \in {"+", "-"} :
    /\ Steps(op) /\ Store(Stepped(op).word, Stepped(op))
    /\ acc' = Kept(Stepped(op), vtype)

\* Slip: the value is popped before it is assigned.
PostStepEarly ==
  \E op \in {"+", "-"} :
    /\ Steps(op) /\ Store(Variable(Before).word, Stepped(op)) /\ acc' = Variable(Before)

PostStep ==
  \E op \in {"+", "-"} :
    /\ Steps(op) /\ Store(Stepped(op).word, Stepped(op)) /\ acc' = Variable(Before)

\* The expression statement ends.
Finish == acc # None /\ acc' = None /\ wrote' = FALSE /\ UNCHANGED <<vtype, memory, held, known>>

Next ==
  \/ Begin \/ Operate \/ Index \/ Negate \/ Not \/ Complement \/ Cast
  \/ Assign \/ PreStep \/ PostStep \/ Finish

Spec == Init /\ [][Next]_vars

\* Nothing is claimed of what is computed from a value the compiler got wrong.
Followed == known /\ acc.bits > 0

-----------------------------------------------------------------------------
(* Properties                                                              *)

\* The low bits of rax are C's value, as many as `bits' says.
BitsRight == acc # None => Wrap(acc.word, acc.bits) = Wrap(acc.meant, acc.bits)

\* As long as no negative value was met and none was cut to a narrower type (the
\* remainder of two longs is cut to an int), all of rax is C's value, but for pointers
\* that go back.
PositiveExact ==
  acc # None /\ acc.positive /\ acc.bits > 0 => acc.word = acc.meant

\* The variable has the value C gives it whenever enough bits were right.
VariableHolds == known => memory = Wrap(held, Width[vtype])
=============================================================================
