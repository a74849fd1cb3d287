------------------------------- MODULE Access -------------------------------
(***************************************************************************)
(* Which bytes the loads and stores of gen_amd64.c read and write: the     *)
(* code of one assignment after another, run on memory.  A left side is an *)
(* lvalue of Objects: a variable, a field at any depth, an element, or any *)
(* of these through pointers that may point into the same object.  It      *)
(* implements ObjectStore, where objects have names and no addresses.      *)
(*                                                                         *)
(* A register and a slot of the stack are eight bytes, the lowest first.   *)
(* Numbers and addresses stay below 256: how they are computed is Arith's. *)
(***************************************************************************)
EXTENDS Objects, FiniteSetsExt

CONSTANTS
  InitialValues,      \* the values of all scalars a program may start with
  Programs,           \* the statements it may execute
  MaxStatements       \* how many of them

ASSUME BoundAssumption == MaxStatements \in Nat

VARIABLES
  memory,             \* the byte at every address
  rax, stack,
  statement,          \* the statement executed last
  executed            \* how many were

vars == <<memory, rax, stack, statement, executed>>

\* Where the variables are: g at its label, the others in the frame.
Base == [s |-> 32, g |-> 64, p |-> 96, q |-> 104, r |-> 112, l |-> 120]
Addresses == 32..127

Word(n)        == [i \in 1..8 |-> IF i = 1 THEN n ELSE 0]
Displaced(w, n) == [w EXCEPT ![1] = @ + n]
ByteAt(bytes, a) == IF a \in Addresses THEN bytes[a] ELSE 0

\* The machine in the middle of a statement.  init: the tree of the literal still has its
\* initializer (variable.init), which no statement before has seen.
Machine(bytes, r, st) == [memory |-> bytes, rax |-> r, stack |-> st, init |-> TRUE]
Push(m) == [m EXCEPT !.stack = <<m.rax>> \o @]
Pop(m)  == [m EXCEPT !.rax = Head(m.stack), !.stack = Tail(@)]

\* gen_load_local and gen_load_global: an array gives its address, what is narrower
\* than a register is filled up with zeros.
Load(m, type, at) ==
  [m EXCEPT !.rax = IF type.kind = "array" THEN Word(at)
                    ELSE [i \in 1..8 |-> IF i <= type.size THEN ByteAt(m.memory, at + i - 1)
                                         ELSE 0]]

\* gen_save_local and gen_save_global: as many bytes of a register as the type has.
Stored(bytes, register, type, at) ==
  [a \in Addresses |-> IF a \in at..(at + type.size - 1) THEN register[a - at + 1] ELSE bytes[a]]

Save(m, type, at) == [m EXCEPT !.memory = Stored(@, m.rax, type, at)]

\* The value waits on the stack, rax holds the address.
AssignIntermediate(m, type, offset) ==
  Pop([m EXCEPT !.memory = Stored(@, Head(m.stack), type, m.rax[1] + offset)])

RECURSIVE Expression(_, _), Assignment(_, _), LoadStructure(_, _, _, _),
          AssignStructure(_, _, _, _)

\* gen_declaration_initialization of l: the number is stored as it is, the other element
\* passes through rax.
InitializeLiteral(m) ==
  LET a == [m EXCEPT !.memory = Stored(@, Word(LiteralA.number), CharType, Base.l)]
  IN Save(Expression(a, LiteralB), IntType, Base.l + 4)

\* Slip: the initializer is not forgotten.
EnsureLvaAgain(m, x) == IF x = "l" THEN InitializeLiteral(m) ELSE m

\* The initializer of a compound literal is executed before its variable is used, and
\* forgotten: a tree that is in two places (x in x += 1, x++) is generated twice.
EnsureLva(m, x) ==
  IF x = "l" /\ m.init THEN [InitializeLiteral(m) EXCEPT !.init = FALSE] ELSE m

\* The field is `offset' bytes into what the expression e names.
LoadStructure(m, e, field, offset) ==
  CASE e.op = "variable" -> Load(EnsureLva(m, e.name), field, Base[e.name] + offset)
    [] e.op = "."        -> LoadStructure(m, e.kids[1], field, e.number + offset)
    [] e.op = "*"        ->
         LET address == Expression(m, e.kids[1]) IN Load(address, field, address.rax[1] + offset)

AssignDereference(m, type, pointer, offset) ==
  AssignIntermediate(Expression(Push(m), pointer), type, offset)

\* Slip: the offset of the structure within the one around it is lost.
AssignStructureFlat(m, e, field, offset) ==
  CASE e.op = "variable" -> Save(EnsureLva(m, e.name), field, Base[e.name] + offset)
    [] e.op = "."        -> AssignStructure(m, e.kids[1], field, offset)
    [] e.op = "*"        -> AssignDereference(m, field, e.kids[1], offset)

AssignStructure(m, e, field, offset) ==
  CASE e.op = "variable" -> Save(EnsureLva(m, e.name), field, Base[e.name] + offset)
    [] e.op = "."        -> AssignStructure(m, e.kids[1], field, e.number + offset)
    [] e.op = "*"        -> AssignDereference(m, field, e.kids[1], offset)

\* gen_assignment of rax.
Assignment(m, e) ==
  CASE e.op = "variable" -> Save(EnsureLva(m, e.name), e.type, Base[e.name])
    [] e.op = "."        -> AssignStructure(m, e.kids[1], e.type, e.number)
    [] e.op = "*"        -> AssignDereference(m, e.type, e.kids[1], 0)

Postfix(m, e) ==
  LET before == Push(Expression(m, e))
  IN Pop(Assignment([before EXCEPT !.rax = Displaced(@, 1)], e))

\* The parser's tree for l += n is that of l = l + n.
Compound(m, e) ==
  LET left == Push(Expression(m, e.kids[1]))
  IN Assignment([Pop(left) EXCEPT !.rax = Displaced(@, e.number)], e.kids[1])

\* The offset of an element is a literal: it overwrites rax, which is on the stack.
PointerPlus(m, e) ==
  LET left  == Push(Expression(m, e.kids[1]))
      right == e.number * TypeNamed[e.type.of].size
  IN [Pop(left) EXCEPT !.rax = Displaced(@, right)]

Expression(m, e) ==
  CASE e.op = "constant" -> [m EXCEPT !.rax = Word(e.number)]
    [] e.op = "variable" -> Load(EnsureLva(m, e.name), e.type, Base[e.name])
    [] e.op = "address"  -> [EnsureLva(m, e.name) EXCEPT !.rax = Word(Base[e.name])]
    [] e.op = "."        -> LoadStructure(m, e.kids[1], e.type, e.number)
    [] e.op = "*"        ->
         LET address == Expression(m, e.kids[1]) IN Load(address, e.type, address.rax[1])
    [] e.op = "+"        -> PointerPlus(m, e)
    [] e.op = "++"       -> Postfix(m, e.kids[1])
    [] e.op = "+="       -> Compound(m, e)
    [] e.op = "="        -> Assignment(Expression(m, e.kids[2]), e.kids[1])
-----------------------------------------------------------------------------
(* From addresses to objects                                               *)

OffsetOf(ref) ==
  (CHOOSE member \in Members(TypeOf[Front(ref)]) : member.name = Last(ref)).offset

Address ==
  [ref \in DOMAIN TypeOf |->
     Base[ref[1]] + FoldSet(LAMBDA n, sum : sum + OffsetOf(SubSeq(ref, 1, n)), 0, 2..Len(ref))]

\* What eight bytes mean as a value of a type.
Decoded(type, word) ==
  LET targets == {ref \in Targets[type.of] : Address[ref] = word[1]}
  IN IF \E i \in 2..8 : word[i] # 0 THEN Reference(<<"lost">>)
     ELSE IF type.kind # "pointer" THEN Number(word[1])
     ELSE IF word[1] = 0 THEN Reference(Null)
     ELSE IF targets = {} THEN Reference(<<"lost">>)
     ELSE Reference(CHOOSE ref \in targets : TRUE)

Encoded(value) ==
  Word(IF value.ref = Null THEN value.number ELSE Address[value.ref])

Values ==
  [ref \in Scalars |->
     Decoded(TypeOf[ref],
             Load(Machine(memory, rax, stack), TypeOf[ref], Address[ref]).rax)]

Result ==
  IF statement.type.kind = "array" THEN Number(0) ELSE Decoded(statement.type, rax)

Store == INSTANCE ObjectStore WITH values <- Values, result <- Result

-----------------------------------------------------------------------------

ScalarAt(a) == {ref \in Scalars : a \in Address[ref]..(Address[ref] + TypeOf[ref].size - 1)}

Init ==
  /\ \E vs \in InitialValues :
       memory = [a \in Addresses |->
                   IF ScalarAt(a) = {} THEN 0
                   ELSE LET ref == CHOOSE ref \in ScalarAt(a) : TRUE
                        IN Encoded(vs[ref])[a - Address[ref] + 1]]
  /\ rax = Word(0) /\ stack = << >>
  /\ statement = Constant(0) /\ executed = 0

\* One statement that C gives a meaning: no pointer it follows is null, none leaves its
\* object.
Execute(st) ==
  LET after == Expression(Machine(memory, rax, stack), st)
  IN /\ executed < MaxStatements
     /\ Store!Evaluate(st, Values).ok
     /\ memory' = after.memory /\ rax' = after.rax /\ stack' = after.stack
     /\ statement' = st /\ executed' = executed + 1

Next == \E st \in Programs : Execute(st)

Spec == Init /\ [][Next]_vars

-----------------------------------------------------------------------------
(* Properties                                                              *)

\* Every assignment gives the object its left side names the value of its right side
\* and changes no other object, whatever pointers point to; what is read is what was
\* written; rax has the value of the statement.
ImplementsStore == Store!Spec
=============================================================================
