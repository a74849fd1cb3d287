---------------------------- MODULE ObjectStore ----------------------------
(***************************************************************************)
(* The objects of a C program: every scalar has a value, a pointer's is    *)
(* the object it points to.  Assignments change the value of one object    *)
(* and of no other.  The right side of an assignment is evaluated first.   *)
(***************************************************************************)
EXTENDS Objects

CONSTANTS
  InitialValues,      \* the values of all scalars a program may start with
  Programs            \* the statements it may execute

VARIABLES
  values,             \* the value of every scalar
  result,             \* of the statement executed last
  statement           \* that statement

vars == <<values, result, statement>>

Out(vs, ref, value, ok) == [values |-> vs, ref |-> ref, value |-> value, ok |-> ok]

Successor(ref) ==
  IF Last(ref) = "0" THEN Append(Front(ref), "1") ELSE Null

\* What evaluating e gives: the object it names if it names one, and its value.
RECURSIVE Evaluate(_, _)
Evaluate(e, vs) ==
  LET kid  == Evaluate(e.kids[Len(e.kids)], vs)
      named(ref, o) ==
        Out(o.values, ref,
            IF e.type.kind = "array" THEN Reference(Append(ref, "0"))
            ELSE IF ref \in Scalars THEN o.values[ref] ELSE Number(0),
            o.ok /\ ref \in DOMAIN TypeOf)
      literal == [vs EXCEPT ![<<"l", "a">>] = Number(3), ![<<"l", "b">>] = vs[<<"g", "t", "b">>]]
      sum     == Number(kid.value.number + e.number)
  IN CASE e.op = "constant" -> Out(vs, Null, Number(e.number), TRUE)
       [] e.op = "variable" ->
            named(<<e.name>>, Out(IF e.name = "l" THEN literal ELSE vs, Null, Number(0), TRUE))
       [] e.op = "address"  ->
            Out(IF e.name = "l" THEN literal ELSE vs, Null, Reference(<<e.name>>), TRUE)
       [] e.op = "."        -> named(Append(kid.ref, e.name), kid)
       [] e.op = "*"        -> named(kid.value.ref, kid)
       [] e.op = "+"        -> Out(kid.values, Null, Reference(Successor(kid.value.ref)),
                                   kid.ok /\ kid.value.ref # Null
                                     /\ Successor(kid.value.ref) # Null)
       [] e.op = "++"       ->
            Out([kid.values EXCEPT ![kid.ref] = Number(kid.value.number + 1)], Null, kid.value,
                kid.ok)
       [] e.op = "+="       ->
            Out([kid.values EXCEPT ![kid.ref] = sum], Null, sum, kid.ok)
       [] e.op = "="        ->
            LET left == Evaluate(e.kids[1], kid.values)
            IN Out([left.values EXCEPT ![left.ref] = kid.value], Null, kid.value,
                   kid.ok /\ left.ok)

Init == values \in InitialValues /\ result = Number(0) /\ statement = Constant(0)

Execute(st) ==
  LET after == Evaluate(st, values)
  IN after.ok /\ values' = after.values /\ result' = after.value

Next == statement' \in Programs /\ Execute(statement')

Spec == Init /\ [][Next]_vars
=============================================================================
