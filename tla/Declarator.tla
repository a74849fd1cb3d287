----------------------------- MODULE Declarator -----------------------------
(***************************************************************************)
(* Declarators in parse.c: parse_declarator and the functions under it,    *)
(* and what parse_declaration does with the type.  A type is a cell of the *)
(* heap that refers to another; a cell may be a stub, filled in when the   *)
(* call that made it returns.  The calls of parse_declarator_direct in     *)
(* progress are a stack.                                                   *)
(***************************************************************************)
EXTENDS Integers, Sequences, SequencesExt

CONSTANTS
  Lengths,            \* lengths of arrays
  Typedefs,           \* what a typedef may stand for: "array", "function"
  Grouping,           \* whether parentheses inside a declarator may hold no suffix
  MaxWords,           \* bound on the '*', '(' and suffixes of a program
  MaxDeclarators      \* bound on the declarators of a program

ASSUME DeclaratorAssumption ==
  /\ Lengths \subseteq Nat \ {0}
  /\ Typedefs \subseteq {"array", "function"}
  /\ Grouping \in BOOLEAN
  /\ MaxWords \in Nat /\ MaxDeclarators \in Nat

IntSize == 4
PointerSize == 8

VARIABLES
  heap,               \* the data_type_t made so far, those of the typedef first
  base,               \* the basetype of the declaration, 0 before
  static,             \* whether storage is STORAGE_STATIC
  calls,              \* calls of parse_declarator_direct in progress
  basetype,           \* argument of the call in progress
  lengths,            \* lengths of the '[' of the parse_declarator_direct_restage in progress
  result,             \* what that call returned, 0 before
  type,               \* what the innermost parse_declarator_direct returned, 0 before
  pc,
  derived,            \* history: what the declarator says, from the name on
  declared,           \* history: the declarators, with their types
  words               \* history: how many of '*', '(' and suffixes there were

vars == <<heap, base, static, calls, basetype, lengths, result, type, pc, derived, declared, words>>

Cell(kind, to, length, size) ==
  [kind |-> kind, to |-> to, length |-> length, size |-> size, isstatic |-> FALSE]

ast_type_stub == Cell("stub", 0, 0, 0)
ast_pointer(t) == Cell("pointer", t, 0, PointerSize)
ast_prototype(t) == Cell("function", t, 0, 0)

ast_array(t, length) == Cell("array", t, length, heap[t].size * length)

Word == words < MaxWords /\ words' = words + 1
top == calls[Len(calls)]

Means(is, length) == [is |-> is, length |-> length]
Arrays == [i \in 1..Len(lengths) |-> Means("array", lengths[i])]

IntCell == Cell("int", 0, 0, IntSize)

Init ==
  /\ \E typedef \in Typedefs :
       heap = <<IntCell, IF typedef = "array" THEN Cell("array", 1, 3, 3 * IntSize)
                         ELSE Cell("function", 1, 0, 0)>>
  /\ base = 0 /\ static = FALSE
  /\ calls = << >> /\ basetype = 0
  /\ lengths = << >> /\ result = 0 /\ type = 0
  /\ pc = "declaration"
  /\ derived = << >> /\ declared = << >> /\ words = 0

-----------------------------------------------------------------------------
(* parse_declaration                                                       *)

\* The specifiers name the typedef, or make an int of their own.
Specification(istypedef, isstatic) ==
  /\ pc = "declaration" /\ Len(declared) < MaxDeclarators
  /\ heap' = IF istypedef THEN heap ELSE Append(heap, IntCell)
  /\ base' = IF istypedef THEN 2 ELSE Len(heap) + 1
  /\ static' = isstatic
  /\ basetype' = base'
  /\ pc' = "direct"
  /\ UNCHANGED <<calls, lengths, result, type, derived, declared, words>>

-----------------------------------------------------------------------------
(* parse_declarator_direct: a call begins with '(', '*' or the name.       *)

Nested(is) ==
  /\ pc = "direct"
  /\ Word
  /\ heap' = Append(heap, ast_type_stub)
  /\ calls' = Append(calls, [is |-> is, stub |-> Len(heap) + 1, basetype |-> basetype])
  /\ basetype' = Len(heap) + 1
  /\ UNCHANGED <<base, static, lengths, result, type, pc, derived, declared>>

Name ==
  /\ pc = "direct"
  /\ pc' = "restage"
  /\ UNCHANGED <<heap, base, static, calls, basetype, lengths, result, type, derived, declared, words>>

-----------------------------------------------------------------------------
(* parse_declarator_direct_restage                                         *)

Subscript(length) ==
  /\ pc = "restage"
  /\ Word
  /\ lengths' = Append(lengths, length)
  /\ UNCHANGED <<heap, base, static, calls, basetype, result, type, pc, derived, declared>>

\* The parameters are a declaration of their own.
Parameters ==
  /\ pc = "restage"
  /\ Word
  /\ heap[basetype].kind \notin {"function", "array"}
  /\ heap' = Append(heap, ast_prototype(basetype))
  /\ result' = Len(heap) + 1
  /\ pc' = "arrays"
  /\ derived' = derived \o Arrays \o <<Means("function", 0)>>
  /\ UNCHANGED <<base, static, calls, basetype, lengths, type, declared>>

NoSuffix ==
  /\ pc = "restage"
  /\ Grouping \/ lengths # << >> \/ Len(calls) < 2 \/ type = 0
  /\ result' = basetype
  /\ pc' = "arrays"
  /\ derived' = derived \o Arrays
  /\ UNCHANGED <<heap, base, static, calls, basetype, lengths, type, declared, words>>

\* Slip: the dimensions are taken in reading order.
ArrayForward ==
  /\ pc = "arrays" /\ lengths # << >>
  /\ heap[result].kind # "function"
  /\ heap' = Append(heap, ast_array(result, Head(lengths)))
  /\ result' = Len(heap) + 1
  /\ lengths' = Tail(lengths)
  /\ UNCHANGED <<base, static, calls, basetype, type, pc, derived, declared, words>>

Array ==
  /\ pc = "arrays" /\ lengths # << >>
  /\ heap[result].kind # "function"
  /\ heap' = Append(heap, ast_array(result, Last(lengths)))
  /\ result' = Len(heap) + 1
  /\ lengths' = Front(lengths)
  /\ UNCHANGED <<base, static, calls, basetype, type, pc, derived, declared, words>>

\* After a name, the type; after a ')', what its stub stood for.
Restaged ==
  /\ pc = "arrays" /\ lengths = << >>
  /\ IF type = 0
       THEN type' = result /\ UNCHANGED <<heap, calls>>
       ELSE /\ heap' = [heap EXCEPT ![top.stub] = heap[result]]
            /\ calls' = Front(calls)
            /\ UNCHANGED type
  /\ pc' = "return"
  /\ UNCHANGED <<base, static, basetype, lengths, result, derived, declared, words>>

-----------------------------------------------------------------------------
(* parse_declarator_direct: the call inside has returned.                  *)

Pointer ==
  /\ pc = "return" /\ calls # << >> /\ top.is = "*"
  /\ heap' = [heap EXCEPT ![top.stub] = ast_pointer(top.basetype)]
  /\ calls' = Front(calls)
  /\ derived' = Append(derived, Means("pointer", 0))
  /\ UNCHANGED <<base, static, basetype, lengths, result, type, pc, declared, words>>

Parenthesis ==
  /\ pc = "return" /\ calls # << >> /\ top.is = "("
  /\ basetype' = top.basetype
  /\ pc' = "restage"
  /\ UNCHANGED <<heap, base, static, calls, lengths, result, type, derived, declared, words>>

-----------------------------------------------------------------------------
(* parse_declarator, and parse_declaration again                           *)

\* Slip: the element is left as it is.
parse_array_fix_outermost(cells) ==
  [cells EXCEPT ![type].size =
     IF cells[type].kind = "array" THEN cells[type].length * cells[cells[type].to].size ELSE @]

\* Every array the type leads to has its size again; to the right is what is made
\* first, so a cell that is filled late may refer to either side.
parse_array_fix(cells) ==
  LET size[i \in 1..Len(cells)] ==
        IF cells[i].kind = "array" THEN cells[i].length * size[cells[i].to] ELSE cells[i].size
      reached[n \in 0..Len(cells)] ==
        IF n = 0 THEN {type} ELSE reached[n - 1] \cup {cells[i].to : i \in reached[n - 1] \ {0}}
  IN [i \in 1..Len(cells) |-> IF i \in reached[Len(cells)] THEN [cells[i] EXCEPT !.size = size[i]]
                              ELSE cells[i]]

\* Slip: what is marked is the basetype.
MarkedBase(cells) == [cells EXCEPT ![base].isstatic = @ \/ static]

Marked(cells) == [cells EXCEPT ![type].isstatic = @ \/ static]

Declarator ==
  /\ pc = "return" /\ calls = << >>
  /\ heap' = Marked(parse_array_fix(heap))
  /\ declared' = Append(declared,
       [type |-> type, base |-> base, static |-> static, derived |-> derived])
  /\ pc' = "next"
  /\ result' = 0 /\ type' = 0 /\ derived' = << >>
  /\ UNCHANGED <<base, static, calls, basetype, lengths, words>>

Comma ==
  /\ pc = "next" /\ Len(declared) < MaxDeclarators
  /\ basetype' = base
  /\ pc' = "direct"
  /\ UNCHANGED <<heap, base, static, calls, lengths, result, type, derived, declared, words>>

Semicolon ==
  /\ pc = "next"
  /\ pc' = "declaration"
  /\ UNCHANGED <<heap, base, static, calls, basetype, lengths, result, type, derived, declared,
                 words>>

Next ==
  \/ \E istypedef, isstatic \in BOOLEAN : Specification(istypedef, isstatic)
  \/ \E is \in {"*", "("} : Nested(is)
  \/ Name
  \/ \E length \in Lengths : Subscript(length)
  \/ Parameters \/ NoSuffix \/ Array \/ Restaged
  \/ Pointer \/ Parenthesis \/ Declarator \/ Comma \/ Semicolon

Spec == Init /\ [][Next]_vars

-----------------------------------------------------------------------------
(* Properties                                                              *)

\* What a type says, from its outermost part on.
Meaning(t) ==
  LET from[i \in 1..Len(heap)] ==
        <<Means(heap[i].kind, heap[i].length)>>
          \o (IF heap[i].to = 0 THEN << >> ELSE from[heap[i].to])
  IN from[t]

\* A declarator read as C reads it, from the name on, to the right within a pair of
\* parentheses and then to the left, is the type it gets: every stub the type goes
\* through stands for what was parsed after it, also when it was copied or used before.
MeansC ==
  \A i \in 1..Len(declared) :
    Meaning(declared[i].type) = declared[i].derived \o Meaning(declared[i].base)

\* The size of what a sequence of derivations of something of a size says.
SizeOf(ds, size) ==
  LET from[i \in 1..(Len(ds) + 1)] ==
        IF i > Len(ds) THEN size
        ELSE IF ds[i].is = "array" THEN ds[i].length * from[i + 1]
        ELSE IF ds[i].is = "pointer" THEN PointerSize ELSE 0
  IN from[1]

\* An array has room for its elements, whatever was known of them when it was made:
\* the size is what gen_function_prologue and sizeof go by.
SizesRight ==
  \A i \in 1..Len(declared) :
    heap[declared[i].type].size = SizeOf(declared[i].derived, heap[declared[i].base].size)

\* A static keeps to its declaration: what an earlier or a later one declares with
\* the same typedef is global unless it says static too.  This leaves out a declarator
\* that is a name only, whose type is the typedef's own.
StaticAsDeclared ==
  \A i \in 1..Len(declared) :
    declared[i].base # 2 \/ declared[i].derived # << >> =>
      heap[declared[i].type].isstatic = declared[i].static
=============================================================================
