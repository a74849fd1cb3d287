---------------------------- MODULE CExpression ----------------------------
(***************************************************************************)
(* The expressions of C's grammar (C99 6.5) with their trees, and what the *)
(* parser has to make of them.  A level is the nonterminal of the grammar  *)
(* an expression belongs to: 0 primary, 1 postfix, 2 unary, 3 cast, then   *)
(* the binary operators, 14 conditional, 15 assignment.  A call of a name  *)
(* is counted as primary: nothing else can be called.                      *)
(***************************************************************************)
EXTENDS Expression, SequencesExt

CONSTANTS
  MaxOperators,       \* operators, parentheses and calls of an expression
  MaxElements,        \* the same, of a list of two elements
  BinaryOperators, PrefixOperators

Levels ==
  << {"[", ".", "post"}, {"prefix"}, {"cast"}, {"*", "/", "%"}, {"+", "-"}, {"<<", ">>"},
     {"<", ">", "<=", ">="}, {"==", "!="}, {"&"}, {"^"}, {"|"}, {"&&"}, {"||"},
     {"?"}, {"="} \cup DOMAIN Compound >>
Level(op) == CHOOSE l \in 1..Len(Levels) : op \in Levels[l]

\* How many side effects the evaluation of a tree has.
RECURSIVE Effects(_)
Effects(tree) ==
  (IF tree.op \in {"=", "f", "post++", "pre++"} THEN 1 ELSE 0)
  + FoldSeq(LAMBDA kid, sum : sum + Effects(kid), 0, tree.kids)

Expr(text, tree, level, legal, strays, plain) ==
  [text |-> text, tree |-> tree, level |-> level,
   legal |-> legal,   \* what has to be an lvalue is one
   strays |-> strays, \* where the parser is known to leave C
   plain |-> plain]   \* parse_expression_unary reads all of it

Atom == Expr(<<"a">>, Node("a", << >>), 0, TRUE, {}, TRUE)

-----------------------------------------------------------------------------
(* One more operator.  The strays of an operator are found next to it.     *)

Wrap(open, x, tree, plain) ==
  Expr(<<open>> \o x.text \o <<")">>, tree, 0, x.legal, x.strays, plain)

Suffixed(x) ==
  {Expr(Append(x.text, op), Node("post" \o op, <<x.tree>>), 1,
        x.legal /\ Lvalue(x.tree), x.strays, FALSE) : op \in {"++"}}
  \cup {Expr(x.text \o <<".">>, Node(".", <<x.tree>>), 1, x.legal, x.strays, FALSE)}

Prefixed(op, x) ==
  Expr(<<op>> \o x.text, Applied(op, x.tree), 2,
       x.legal /\ (op \in {"&", "++"} => Lvalue(x.tree)), x.strays, TRUE)

\* A suffix after the operand of a cast is taken to follow the cast.
CastOf(x) ==
  Expr(<<"(T)">> \o x.text, Node("cast", <<x.tree>>), 3, x.legal,
       x.strays \cup (IF x.level = 1 THEN {"suffix"} ELSE {}), FALSE)

\* The same with sizeof, and in its parentheses no operator is read.
SizeofOf(x) ==
  Expr(<<"sizeof">> \o x.text, Node("sizeof", <<x.tree>>), 2, x.legal,
       x.strays \cup (IF x.level = 1 THEN {"suffix"} ELSE {})
                \cup (IF x.text[1] = "(" /\ x.level = 0 /\ ~x.plain THEN {"sizeof"} ELSE {}), TRUE)

Indexed(x, y) ==
  Expr(x.text \o <<"[">> \o y.text \o <<"]">>, Subscripted(x.tree, y.tree), 1,
       x.legal /\ y.legal, x.strays \cup y.strays, FALSE)

\* < binds tighter than <=, and <= no tighter than ==.
Relation(op, x, y) ==
  IF \/ op \in {"<", ">"} /\ x.tree.op \in {"<=", ">="} /\ x.level = Level("<=")
     \/ op \in {"==", "!="} /\ y.tree.op \in {"<=", ">="} /\ y.level = Level("<=")
    THEN {"relation"} ELSE {}

\* A compound assignment takes no assignment on its right, and has its left
\* operand twice in the tree.
Chain(op, x, y) ==
  IF op \notin DOMAIN Compound THEN {}
  ELSE (IF y.level = Level("=") THEN {"chain"} ELSE {})
       \cup (IF Effects(x.tree) > 0 THEN {"twice"} ELSE {})

Joined(op, x, y) ==
  Expr(x.text \o <<op>> \o y.text, Combined(op, x.tree, y.tree), Level(op),
       x.legal /\ y.legal /\ (Level(op) = Level("=") => Lvalue(x.tree)),
       x.strays \cup y.strays \cup Relation(op, x, y) \cup Chain(op, x, y), FALSE)

Fits(op, x, y) ==
  IF Level(op) = Level("=")
    THEN x.level <= Level("prefix")
    ELSE x.level <= Level(op) /\ y.level < Level(op)

Chosen(x, y, z) ==
  Expr(x.text \o <<"?">> \o y.text \o <<":">> \o z.text, Node("?", <<x.tree, y.tree, z.tree>>),
       Level("?"), x.legal /\ y.legal /\ z.legal, x.strays \cup y.strays \cup z.strays, FALSE)

Grown(smaller, n) ==
  LET UpTo(l) == {x \in smaller[n - 1] : x.level <= l}
      Pairs   == UNION {smaller[k] \X smaller[n - 1 - k] : k \in 0..(n - 1)}
      Triples == UNION {UNION {smaller[k] \X smaller[l] \X smaller[n - 1 - k - l] :
                               l \in 0..(n - 1 - k)} : k \in 0..(n - 1)}
  IN {Wrap("(", x, x.tree, x.plain) : x \in UpTo(15)}
     \cup {Wrap("f(", x, Node("f", <<x.tree>>), TRUE) : x \in UpTo(15)}
     \cup UNION {Suffixed(x) : x \in UpTo(1)}
     \cup {Prefixed(op, x) : op \in PrefixOperators \ {"++"}, x \in UpTo(3)}
     \cup {Prefixed(op, x) : op \in PrefixOperators \cap {"++"}, x \in UpTo(2)}
     \cup {CastOf(x) : x \in UpTo(3)} \cup {SizeofOf(x) : x \in UpTo(2)}
     \cup {Indexed(p[1], p[2]) : p \in {q \in Pairs : q[1].level <= 1}}
     \cup UNION {{Joined(op, p[1], p[2]) : p \in {q \in Pairs : Fits(op, q[1], q[2])}} :
                 op \in BinaryOperators}
     \cup {Chosen(t[1], t[2], t[3]) :
             t \in {u \in Triples : u[1].level < Level("?") /\ u[3].level <= Level("?")}}

\* The expressions of exactly n operators, for every n up to the bound.
Expressions ==
  LET E[n \in 0..MaxOperators] ==
        IF n = 0 THEN {Atom} ELSE Grown([k \in 0..(n - 1) |-> E[k]], n)
  IN E

-----------------------------------------------------------------------------
(* Inputs                                                                  *)

Single(x) ==
  [text |-> Append(x.text, ";"), list |-> FALSE, trees |-> <<x.tree>>,
   legal |-> x.legal, strays |-> x.strays]

\* An element with an operator is read as far as the operator.
Pair(x, y) ==
  [text |-> x.text \o <<",">> \o y.text \o <<"}">>, list |-> TRUE,
   trees |-> <<x.tree, y.tree>>, legal |-> x.legal /\ y.legal,
   strays |-> x.strays \cup y.strays
              \cup (IF x.level > 3 \/ y.level > 3 THEN {"element"} ELSE {})]

CSources ==
  LET E == Expressions
  IN UNION {{Single(x) : x \in E[n]} : n \in 0..MaxOperators}
     \cup UNION {UNION {{Pair(x, y) : x \in E[m], y \in E[n]} :
                        n \in 0..(MaxElements - m)} : m \in 0..MaxElements}

-----------------------------------------------------------------------------
(* Properties                                                              *)

Ended == pc \in {"done", "error"}
Strays == source.strays \ {"twice"}

\* What C's grammar derives is read as C reads it, and what has to be an lvalue
\* and is none is refused, but for the five places where the parser strays: at two of
\* them an expression is never misread, it is refused.
MeansC ==
  Ended =>
    IF Strays = {}
    THEN IF source.legal THEN pc = "done" /\ elements = source.trees ELSE pc = "error"
    ELSE Strays \subseteq {"chain", "sizeof"} => pc = "error"

\* A side effect that is written once is in the tree once, but for those in the
\* left operand of a compound assignment.
EvaluatedOnce ==
  pc = "done" /\ "twice" \notin source.strays =>
    LET written == Len(SelectSeq(source.text, LAMBDA t :
                                   t \in {"++", "f(", "="} \cup DOMAIN Compound))
    IN FoldSeq(LAMBDA tree, sum : sum + Effects(tree), 0, elements) = written
=============================================================================
