----------------------------- MODULE Expression -----------------------------
(***************************************************************************)
(* The expression parser of parse.c: the precedence climber                *)
(* parse_expression_intermediate with everything it calls, and the loop    *)
(* over the elements of a scalar array's initializer that stops it early.  *)
(* "(T)" stands for a parenthesised type, "f(" for a name and the          *)
(* parenthesis after it, "a" for a variable.  The types of operands are    *)
(* taken to be those C asks for.                                           *)
(***************************************************************************)
EXTENDS Naturals, Sequences

CONSTANTS
  Sources             \* the inputs: the tokens, whether they are the elements of
                      \* an initializer, and what C says of them

Prefix   == {"-", "*", "&", "!", "~", "++", "--"}
Compound == [c \in {"+=", "*=", "<<="} |->
               CASE c = "+=" -> "+" [] c = "*=" -> "*" [] c = "<<=" -> "<<"]

\* parse_operator_priority
Priorities ==
  << {"[", ".", "->"}, {"++", "--"}, {"*", "/", "%"}, {"+", "-"}, {"<<", ">>"},
     {"<", ">"}, {"==", ">=", "<=", "!="}, {"&"}, {"^"}, {"|"}, {"&&"}, {"||"},
     {"?"}, {"="} \cup DOMAIN Compound >>

None == [op |-> "none", kids |-> << >>]           \* NULL
Node(op, kids) == [op |-> op, kids |-> kids]

VARIABLES
  source,             \* the input, never changes
  at,                 \* tokens taken so far
  calls,              \* the calls in progress, the innermost last
  pc,                 \* where the innermost one is
  value,              \* the tree it has, or the one just returned to it
  elements            \* the trees of the whole expressions that were read

vars == <<source, at, calls, pc, value, elements>>

token == source.text[at + 1]
top   == calls[Len(calls)]
outer == SubSeq(calls, 1, Len(calls) - 1)

-----------------------------------------------------------------------------
(* Trees                                                                   *)

\* parse_semantic_lvalue; a field of a structure is "."
Lvalue(tree) == tree.op \in {"a", "deref", "."}

\* parse_expression_subscript
Subscripted(array, index) == Node("deref", <<Node("+", <<array, index>>)>>)

\* Slip: an increment is built as a compound assignment is.
AppliedCompound(op, tree) ==
  IF op \in {"++", "--"} THEN Node("=", <<tree, Node("+", <<tree, Node("1", << >>)>>)>>)
  ELSE Node(op, <<tree>>)

\* What parse_expression_unary makes of a prefix operator: a minus is a subtraction.
Applied(op, tree) ==
  CASE op = "-"  -> Node("-", <<Node("0", << >>), tree>>)
    [] op = "*"  -> Node("deref", <<tree>>)
    [] op = "&"  -> Node("address", <<tree>>)
    [] op \in {"++", "--"} -> Node("pre" \o op, <<tree>>)
    [] OTHER     -> Node(op, <<tree>>)

\* The end of the loop of parse_expression_intermediate.
Combined(op, left, right) ==
  IF op \in DOMAIN Compound
    THEN Node("=", <<left, Node(Compound[op], <<left, right>>)>>)
    ELSE Node(op, <<left, right>>)

-----------------------------------------------------------------------------
(* Moves                                                                   *)

Climb(limit) == [call |-> "intermediate", limit |-> limit]
Waits(call, op, tree) == [call |-> call, op |-> op, tree |-> tree]

Call(frames) == calls' = calls \o frames /\ pc' = "unary" /\ value' = None
Return(tree) == calls' = outer /\ pc' = "return" /\ value' = tree
Continue(tree) == calls' = outer /\ pc' = "loop" /\ value' = tree
Error == pc' = "error" /\ UNCHANGED <<calls, value>>
Accept == at' = at + 1

Whole == Climb(16)                                \* parse_expression
Entry == IF source.list THEN Climb(3) ELSE Whole

Init ==
  /\ source \in Sources
  /\ at = 0 /\ calls = <<Entry>> /\ pc = "unary" /\ value = None /\ elements = << >>

-----------------------------------------------------------------------------
(* parse_expression_unary and parse_expression_primary                     *)

Primary ==
  /\ pc = "unary" /\ token = "a" /\ Accept
  /\ pc' = "return" /\ value' = Node("a", << >>) /\ UNCHANGED calls

\* The one argument is a whole expression.
FunctionCall ==
  pc = "unary" /\ token = "f(" /\ Accept /\ Call(<<Waits("call", "f", None), Whole>>)

Parenthesis ==
  pc = "unary" /\ token = "(" /\ Accept /\ Call(<<Waits("paren", "(", None), Whole>>)

\* The operand is what parse_expression_unary returns: no suffix is read.
Cast ==
  pc = "unary" /\ token = "(T)" /\ Accept /\ Call(<<Waits("cast", "cast", None)>>)

PrefixOperator ==
  /\ pc = "unary" /\ token \in Prefix /\ Accept
  /\ Call(<<Waits("prefix", token, None), Climb(3)>>)

\* parse_sizeof_type: parentheses are its own, one level of it for each.
Sizeof ==
  /\ pc = "unary" /\ token = "sizeof" /\ Accept
  /\ calls' = Append(calls, Waits("sizeof", "sizeof", None))
  /\ pc' = "sizeof" /\ UNCHANGED value

SizeofParenthesis ==
  /\ pc = "sizeof" /\ token = "(" /\ Accept
  /\ calls' = Append(calls, Waits("sizeof(", "(", None)) /\ UNCHANGED <<pc, value>>

\* A type: only what follows it may fail.
SizeofType ==
  /\ pc = "sizeof" /\ token = "(T)" /\ Accept
  /\ pc' = "return" /\ value' = None /\ UNCHANGED calls

SizeofExpression ==
  /\ pc = "sizeof" /\ token \notin {"(", "(T)"} /\ pc' = "unary"
  /\ UNCHANGED <<at, calls, value>>

\* Any other punctuation is given back, and NULL is returned.
NoOperand ==
  /\ pc = "unary" /\ token \notin Prefix \cup {"a", "f(", "(", "(T)", "sizeof"}
  /\ pc' = "return" /\ UNCHANGED <<at, calls, value>>

-----------------------------------------------------------------------------
(* Back in a caller                                                        *)

Returned(call) == pc = "return" /\ calls # << >> /\ top.call = call

\* parse_expression_intermediate has its first operand.
FirstOperand ==
  /\ Returned("intermediate")
  /\ IF value = None THEN Return(None) ELSE pc' = "loop" /\ UNCHANGED <<calls, value>>
  /\ UNCHANGED at

\* NULL is dereferenced, but by ast_new_unary for `!'.
PrefixOperand ==
  /\ Returned("prefix")
  /\ IF \/ value = None /\ top.op # "!"
        \/ top.op \in {"&", "++", "--"} /\ ~Lvalue(value)
       THEN Error
       ELSE Return(Applied(top.op, value))
  /\ UNCHANGED at

CastOperand == Returned("cast") /\ Return(Node("cast", <<value>>)) /\ UNCHANGED at

\* The value is a literal; the tree of the operand, of which the size is, is history.
SizeofOperand == Returned("sizeof") /\ Return(Node("sizeof", <<value>>)) /\ UNCHANGED at

\* parse_expect: parentheses leave no trace in the tree.
Closed ==
  /\ \E call \in {"paren", "sizeof("} : Returned(call)
  /\ IF token = ")" THEN Accept /\ Return(value) ELSE Error /\ UNCHANGED at

Argument ==
  /\ Returned("call")
  /\ IF token = ")" /\ value # None
       THEN Accept /\ Return(Node("f", <<value>>))
       ELSE Error /\ UNCHANGED at

-----------------------------------------------------------------------------
(* The loop of parse_expression_intermediate                               *)

Looping == pc = "loop" /\ top.call = "intermediate"

Binds(t) == \E p \in 1..Len(Priorities) : t \in Priorities[p] /\ p < top.limit

\* The token is given back.
Stop == Looping /\ ~Binds(token) /\ Return(value) /\ UNCHANGED at

Field ==
  /\ Looping /\ Binds(token) /\ token = "." /\ Accept
  /\ value' = Node(".", <<value>>) /\ UNCHANGED <<calls, pc>>

Suffix ==
  /\ Looping /\ Binds(token) /\ token \in {"++", "--"} /\ Accept
  /\ IF Lvalue(value)
       THEN value' = Node("post" \o token, <<value>>) /\ UNCHANGED <<calls, pc>>
       ELSE Error

BeginSubscript ==
  /\ Looping /\ Binds(token) /\ token = "[" /\ Accept
  /\ Call(<<Waits("subscript", "[", value), Whole>>)

EndSubscript ==
  /\ Returned("subscript")
  /\ IF token = "]" /\ value # None
       THEN Accept /\ Continue(Subscripted(top.tree, value))
       ELSE Error /\ UNCHANGED at

\* parse_expression_condition: both branches are whole expressions.
BeginCondition ==
  /\ Looping /\ Binds(token) /\ token = "?" /\ Accept
  /\ Call(<<Waits("then", "?", <<value>>), Whole>>)

Otherwise ==
  /\ Returned("then")
  /\ IF token = ":" /\ value # None
       THEN /\ Accept /\ pc' = "unary" /\ value' = None
            /\ calls' = outer \o <<Waits("last", "?", Append(top.tree, value)), Whole>>
       ELSE Error /\ UNCHANGED at

EndCondition ==
  Returned("last") /\ Continue(Node("?", Append(top.tree, value))) /\ UNCHANGED at

\* Slip: every operator takes operators of its own priority on its right.
RightLimitAll(t) == 1 + CHOOSE p \in 1..Len(Priorities) : t \in Priorities[p]

RightLimit(t) ==
  LET priority == CHOOSE p \in 1..Len(Priorities) : t \in Priorities[p]
  IN IF t = "=" THEN priority + 1 ELSE priority   \* parse_semantic_rightassoc

Binary ==
  /\ Looping /\ Binds(token) /\ token \notin {".", "++", "--", "[", "?"} /\ Accept
  /\ IF token \in {"="} \cup DOMAIN Compound /\ ~Lvalue(value)
       THEN Error
       ELSE Call(<<Waits("binary", token, value), Climb(RightLimit(token))>>)

RightOperand ==
  /\ Returned("binary")
  /\ IF value = None THEN Error ELSE Continue(Combined(top.op, top.tree, value))
  /\ UNCHANGED at

-----------------------------------------------------------------------------
(* The caller of it all: a statement, or parse_initializer_array.          *)

Statement ==
  /\ pc = "return" /\ calls = << >> /\ ~source.list
  /\ pc' = IF token = ";" THEN "done" ELSE "error"
  /\ elements' = <<value>>
  /\ UNCHANGED <<source, at, calls, value>>

\* parse_commaskip_maybe: the comma is not asked for.
Element ==
  /\ pc = "return" /\ calls = << >> /\ source.list
  /\ IF value = None
       THEN pc' = "error" /\ UNCHANGED <<at, calls, value, elements>>
       ELSE LET next == at + (IF token = "," THEN 1 ELSE 0)
            IN /\ elements' = Append(elements, value) /\ value' = None
               /\ IF source.text[next + 1] = "}"
                    THEN pc' = "done" /\ at' = next + 1 /\ UNCHANGED calls
                    ELSE pc' = "unary" /\ at' = next /\ calls' = <<Entry>>
  /\ UNCHANGED source

Inside ==
  \/ Primary \/ FunctionCall \/ Parenthesis \/ Cast \/ PrefixOperator
  \/ Sizeof \/ SizeofParenthesis \/ SizeofType \/ SizeofExpression \/ NoOperand
  \/ FirstOperand \/ PrefixOperand \/ CastOperand \/ SizeofOperand \/ Closed \/ Argument
  \/ Stop \/ Field \/ Suffix \/ BeginSubscript \/ EndSubscript
  \/ BeginCondition \/ Otherwise \/ EndCondition \/ Binary \/ RightOperand

Next ==
  \/ Inside /\ UNCHANGED <<source, elements>>
  \/ Statement \/ Element

Spec == Init /\ [][Next]_vars
=============================================================================
