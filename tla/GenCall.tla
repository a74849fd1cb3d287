------------------------------ MODULE GenCall ------------------------------
(***************************************************************************)
(* The frame, the stack and the registers of a function gen_amd64.c        *)
(* compiles: gen_function_prologue, the calls and the binary operators of  *)
(* gen_expression.  Their code has no jump in it, so an action runs the    *)
(* instructions it emits.  A value is a number, fresh for every expression *)
(* evaluated: which operand is where shows.  A type is an integer (or a    *)
(* pointer) or a floating one.                                             *)
(***************************************************************************)
EXTENDS Integers, Sequences, FiniteSets

CONSTANTS
  MaxParameters, MaxLocals,     \* bounds on a function
  LocalSizes,         \* sizes of locals, in units of 8 bytes
  MaxArguments,       \* bound on the arguments of a call
  MaxValues           \* bound on the expressions of a function

registers == <<"rdi", "rsi", "rdx", "rcx", "r8", "r9">>
Scratch   == {"rax", "rcx"}

ASSUME BoundsAssumption ==
  /\ MaxParameters \in 0..Len(registers) /\ MaxArguments \in 0..Len(registers)
  /\ MaxLocals \in Nat /\ MaxValues \in Nat
  /\ LocalSizes \subseteq Nat \ {0}

Kind == {"int", "float"}
UpTo(n, S) == UNION {[1..k -> S] : k \in 0..n}

VARIABLES
  parameters, locals, \* kinds of the parameters; sizes of the locals
  offsets,            \* variable.off of the parameters, then of the locals
  machine,            \* the cells below rbp, the integer and the xmm registers
  gen_stack,
  frames,             \* calls of gen_expression in progress
  value,              \* the kind of the value just computed, or "none"
  next,               \* the next value
  pc,
  used                \* history: what the last instruction with operands had, and needed

vars == <<parameters, locals, offsets, machine, gen_stack, frames, value, next, pc, used>>

Junk == 0
IntRegisters == {registers[i] : i \in 1..Len(registers)} \cup Scratch
XmmRegisters == 0..7
top   == frames[Len(frames)]
outer == SubSeq(frames, 1, Len(frames) - 1)

-----------------------------------------------------------------------------
(* Instructions                                                            *)

PushCells(m, cells) == [m EXCEPT !.stack = @ \o cells]
PopCell(m)  == [m EXCEPT !.stack = SubSeq(@, 1, Len(@) - 1)]
TopCell(m)  == m.stack[Len(m.stack)]
PopInt(m, r) == PopCell([m EXCEPT !.int[r] = TopCell(m)])
PopXmm(m, r) == PopCell([m EXCEPT !.xmm[r] = TopCell(m)])

\* Where a value of that kind is left.
Result(m, kind) == IF kind = "float" THEN m.xmm[0] ELSE m.int["rax"]

\* gen_save, gen_cast_int and gen_cast_float
Convert(m, to, from) ==
  IF to = from THEN m
  ELSE IF to = "float" THEN [m EXCEPT !.xmm[0] = m.int["rax"]]
  ELSE [m EXCEPT !.int["rax"] = m.xmm[0]]

PushResult(m, kind) == PushCells(m, <<Result(m, kind)>>)

\* The n-th integer and the n-th floating argument, counted from 0.
Before(types, i, kind) == Cardinality({j \in 1..(i - 1) : types[j] = kind})

-----------------------------------------------------------------------------
(* gen_function_prologue                                                   *)

\* The caller of the function: its arguments are values 1, 2, ... in their registers.
Arriving ==
  [int |-> [r \in IntRegisters |->
      IF \E i \in 1..Len(parameters) : parameters[i] = "int" /\ r = registers[Before(parameters, i, "int") + 1]
        THEN CHOOSE i \in 1..Len(parameters) : parameters[i] = "int" /\ r = registers[Before(parameters, i, "int") + 1]
        ELSE Junk],
   xmm |-> [r \in XmmRegisters |->
      IF \E i \in 1..Len(parameters) : parameters[i] = "float" /\ r = Before(parameters, i, "float")
        THEN CHOOSE i \in 1..Len(parameters) : parameters[i] = "float" /\ r = Before(parameters, i, "float")
        ELSE Junk],
   stack |-> << >>]

Init ==
  /\ parameters \in UpTo(MaxParameters, Kind)
  /\ locals \in UpTo(MaxLocals, LocalSizes)
  /\ offsets = << >>
  /\ machine = Arriving
  /\ gen_stack = 0
  /\ frames = << >> /\ value = "none"
  /\ next = Len(parameters) + 1
  /\ pc = "prologue"
  /\ used = [had |-> << >>, needed |-> << >>]

\* gen_alignment of sizes of a parameter, at most 8, and of a local.
AlignedSizes == [i \in 1..Len(parameters) |-> 8] \o [i \in 1..Len(locals) |-> 8 * locals[i]]

OffsetsOf(sizes) ==
  LET below[i \in 0..Len(sizes)] == IF i = 0 THEN 0 ELSE below[i - 1] - sizes[i]
  IN [i \in 1..Len(sizes) |-> below[i]]

\* Slip: parameters of both kinds are counted together.
ParameterCellByPlace(i) ==
  IF parameters[i] = "float" THEN machine.xmm[i - 1] ELSE machine.int[registers[i]]

ParameterCell(i) ==
  IF parameters[i] = "float" THEN machine.xmm[Before(parameters, i, "float")]
  ELSE machine.int[registers[Before(parameters, i, "int") + 1]]

LocalData(offs) ==
  LET sum[i \in Len(parameters)..Len(offs)] ==
        IF i = Len(parameters) THEN 0 ELSE sum[i - 1] + offs[i]
  IN sum[Len(offs)]

Lowest(offs) == IF offs = << >> THEN 0 ELSE offs[Len(offs)]

\* push rbp is not one of the cells: they lie below it.
Prologue ==
  /\ pc = "prologue"
  /\ offsets' = OffsetsOf(AlignedSizes)
  /\ machine' = PushCells(machine, [i \in 1..Len(parameters) |-> ParameterCell(i)]
                                   \o [i \in 1..(-LocalData(offsets') \div 8) |-> Junk])
  /\ gen_stack' = 8 + 8 * Len(parameters) - (Lowest(offsets') - 8)
  /\ pc' = "body"
  /\ UNCHANGED <<parameters, locals, frames, value, next, used>>

-----------------------------------------------------------------------------
(* gen_expression.  An expression begins when no value is waiting to be     *)
(* used, and ends with one.                                                *)

Begins ==
  pc = "body" /\ value = "none" /\ next + Len(frames) - Len(parameters) <= MaxValues
Uses(had, needed) == used' = [had |-> had, needed |-> needed]

\* A literal, a variable, a member: the value in rax or xmm0; ecx is used on the way.
Leaf(kind) ==
  /\ Begins
  /\ machine' = IF kind = "float" THEN [machine EXCEPT !.xmm[0] = next]
                ELSE [machine EXCEPT !.int["rax"] = next, !.int["rcx"] = Junk]
  /\ value' = kind
  /\ next' = next + 1
  /\ UNCHANGED <<parameters, locals, offsets, gen_stack, frames, pc, used>>

\* A binary operator on operands of a kind, its result of another for a comparison.
\* compare is whether the left operand ends up in rcx or xmm1.
BeginBinary(kind, compare) ==
  /\ Begins
  /\ frames' = Append(frames, [is |-> "binary", kind |-> kind, compare |-> compare,
                               left |-> Junk, stack |-> machine.stack])
  /\ UNCHANGED <<parameters, locals, offsets, machine, gen_stack, value, next, pc, used>>

Left ==
  /\ value # "none" /\ frames # << >>
  /\ top.is = "binary" /\ top.left = Junk
  /\ machine' = PushResult(Convert(machine, top.kind, value), top.kind)
  /\ frames' = Append(outer, [top EXCEPT !.left = Result(machine, value)])
  /\ gen_stack' = gen_stack + 8
  /\ value' = "none"
  /\ UNCHANGED <<parameters, locals, offsets, next, pc, used>>

\* What the operator works on, as <<machine, left, right>>.
Operands(m, kind, compare) ==
  CASE kind = "float" /\ compare -> LET r == PopXmm(m, 1) IN <<r, r.xmm[1], r.xmm[0]>>
    [] kind = "float" /\ ~compare ->
         LET r == PopXmm([m EXCEPT !.xmm[1] = m.xmm[0]], 0) IN <<r, r.xmm[0], r.xmm[1]>>
    [] kind = "int" /\ compare -> LET r == PopInt(m, "rcx") IN <<r, r.int["rcx"], r.int["rax"]>>
    [] kind = "int" /\ ~compare ->
         LET r == PopInt([m EXCEPT !.int["rcx"] = m.int["rax"]], "rax")
         IN <<r, r.int["rax"], r.int["rcx"]>>

\* A division (cqto, idiv) uses rdx as well.
Right ==
  /\ value # "none" /\ frames # << >>
  /\ top.is = "binary" /\ top.left # Junk
  /\ LET on == Operands(Convert(machine, top.kind, value), top.kind, top.compare)
         kind == IF top.compare THEN "int" ELSE top.kind
         after == IF kind = "float" THEN [on[1] EXCEPT !.xmm[0] = next]
                  ELSE [on[1] EXCEPT !.int["rax"] = next]
     IN /\ Uses(<<on[2], on[3], on[1].stack>>, <<top.left, Result(machine, value), top.stack>>)
        /\ \/ machine' = after
           \/ kind = "int" /\ ~top.compare /\ machine' = [after EXCEPT !.int["rdx"] = Junk]
        /\ value' = kind
  /\ next' = next + 1
  /\ gen_stack' = gen_stack - 8
  /\ frames' = outer
  /\ UNCHANGED <<parameters, locals, offsets, pc>>

-----------------------------------------------------------------------------
(* AST_TYPE_CALL                                                           *)

\* Slip: xmm0 is saved too, and never restored.
SavedCellsAll(m, types) ==
  [i \in 1..Len(types) |-> IF types[i] = "int" THEN m.int[registers[Before(types, i, "int") + 1]]
                           ELSE m.xmm[Before(types, i, "float")]]

\* The registers of the arguments are saved, all but xmm0.
SavedCells(m, types) ==
  LET saved[i \in 0..Len(types)] ==
        IF i = 0 THEN << >>
        ELSE saved[i - 1] \o
          (IF types[i] = "int" THEN <<m.int[registers[Before(types, i, "int") + 1]]>>
           ELSE IF Before(types, i, "float") > 0 THEN <<m.xmm[Before(types, i, "float")]>>
           ELSE << >>)
  IN saved[Len(types)]

BeginCall(types, result) ==
  /\ Begins
  /\ machine' = PushCells(machine, SavedCells(machine, types))
  /\ gen_stack' = gen_stack + 8 * Len(SavedCells(machine, types))
  /\ frames' = Append(frames, [is |-> "call", types |-> types, result |-> result,
                               arguments |-> << >>, entry |-> machine])
  /\ UNCHANGED <<parameters, locals, offsets, value, next, pc, used>>

Argument ==
  /\ value # "none" /\ frames # << >>
  /\ top.is = "call" /\ Len(top.arguments) < Len(top.types)
  /\ LET kind == top.types[Len(top.arguments) + 1] IN
       machine' = PushResult(Convert(machine, kind, value), kind)
  /\ frames' = Append(outer, [top EXCEPT !.arguments = Append(@, Result(machine, value))])
  /\ gen_stack' = gen_stack + 8
  /\ value' = "none"
  /\ UNCHANGED <<parameters, locals, offsets, next, pc, used>>

PopArgument(m, types, i) ==
  IF types[i] = "int" THEN PopInt(m, registers[Before(types, i, "int") + 1])
  ELSE PopXmm(m, Before(types, i, "float"))

\* Slip: popped in the order they were pushed.
LoadedForward(m, types) ==
  LET popped[n \in 0..Len(types)] ==
        IF n = 0 THEN m ELSE PopArgument(popped[n - 1], types, n)
  IN popped[Len(types)]

Loaded(m, types) ==
  LET popped[n \in 0..Len(types)] ==
        IF n = 0 THEN m ELSE PopArgument(popped[n - 1], types, Len(types) + 1 - n)
  IN popped[Len(types)]

\* Slip: the xmm registers are not popped.
RestoredIntegers(m, types) ==
  LET popped[n \in 0..Len(types)] ==
        IF n = 0 THEN m ELSE
        LET i == Len(types) + 1 - n
        IN IF types[i] = "float" THEN popped[n - 1] ELSE PopArgument(popped[n - 1], types, i)
  IN popped[Len(types)]

Restored(m, types) ==
  LET popped[n \in 0..Len(types)] ==
        IF n = 0 THEN m ELSE
        LET i == Len(types) + 1 - n
        IN IF types[i] = "float" /\ Before(types, i, "float") = 0 THEN popped[n - 1]
           ELSE PopArgument(popped[n - 1], types, i)
  IN popped[Len(types)]

\* The callee keeps none of these registers.
Called(m, result) ==
  [stack |-> m.stack,
   int |-> [r \in IntRegisters |-> IF result = "int" /\ r = "rax" THEN next ELSE Junk],
   xmm |-> [r \in XmmRegisters |-> IF result = "float" /\ r = 0 THEN next ELSE Junk]]

InRegisters(m, types) ==
  [i \in 1..Len(types) |-> IF types[i] = "int" THEN m.int[registers[Before(types, i, "int") + 1]]
                           ELSE m.xmm[Before(types, i, "float")]]

Padding(depth) == IF depth % 16 # 0 THEN <<Junk>> ELSE << >>

EndCall ==
  /\ pc = "body" /\ value = "none" /\ frames # << >>
  /\ top.is = "call" /\ Len(top.arguments) = Len(top.types)
  /\ LET loaded   == Loaded(machine, top.types)
         padding  == Padding(gen_stack - 8 * Len(top.types))
         returned == Called(PushCells(loaded, padding), top.result)
         unpadded == IF padding = << >> THEN returned ELSE PopCell(returned)
     IN /\ machine' = Restored(unpadded, top.types)
        /\ gen_stack' = gen_stack - 8 * Len(top.types) - 8 * Len(SavedCells(machine, top.types))
        /\ Uses(InRegisters(loaded, top.types), top.arguments)
  /\ value' = top.result
  /\ next' = next + 1
  /\ frames' = Append(outer, [is |-> "returned", entry |-> top.entry, types |-> top.types])
  /\ UNCHANGED <<parameters, locals, offsets, pc>>

\* The end of that call of gen_expression.
Returned ==
  /\ frames # << >> /\ top.is = "returned"
  /\ frames' = outer
  /\ UNCHANGED <<parameters, locals, offsets, machine, gen_stack, value, next, pc, used>>

\* The end of an expression statement, or the return of its value.
Statement ==
  /\ value # "none" /\ frames = << >>
  /\ value' = "none"
  /\ UNCHANGED <<parameters, locals, offsets, machine, gen_stack, frames, next, pc, used>>

Next ==
  \/ Prologue
  \/ \E kind \in Kind : \/ Leaf(kind)
                        \/ \E compare \in BOOLEAN : BeginBinary(kind, compare)
                        \/ \E types \in UpTo(MaxArguments, Kind) : BeginCall(types, kind)
  \/ Left \/ Right \/ Argument \/ EndCall \/ Returned \/ Statement

Spec == Init /\ [][Next]_vars

-----------------------------------------------------------------------------
\* The cells of a variable: its offset is the lowest of them.
Cells(i) == LET n == AlignedSizes[i] \div 8 IN (-offsets[i] \div 8 - n + 1)..(-offsets[i] \div 8)

Reserved == Len(parameters) - LocalData(offsets) \div 8

\* Each variable has cells of its own, above everything the body pushes; those of a
\* parameter hold what the caller passed, whatever the body evaluates.
VariablesApart ==
  pc = "body" => /\ Len(machine.stack) >= Reserved
                 /\ \A i \in 1..Len(parameters) : machine.stack[-offsets[i] \div 8] = i
                 /\ \A i, j \in 1..Len(offsets) :
                      /\ Cells(i) \subseteq 1..Reserved
                      /\ i # j => Cells(i) \cap Cells(j) = {}

\* Every operator and every call works on its own operands, in their order and in the
\* registers they belong in, although evaluating a later operand, a call say, may
\* have used every register.
OperandsInPlace == used.had = used.needed

\* A call leaves the stack as it found it, and the registers it saved.
CallTransparent ==
  frames # << >> /\ top.is = "returned" =>
    /\ machine.stack = top.entry.stack
    /\ \A i \in 1..Len(top.types) :
         LET r == Before(top.types, i, top.types[i]) IN
         IF top.types[i] = "int" THEN machine.int[registers[r + 1]] = top.entry.int[registers[r + 1]]
         ELSE r > 0 => machine.xmm[r] = top.entry.xmm[r]

\* Between statements nothing is left of them on the stack, and gen_stack says so.
StatementsBalanced ==
  pc = "body" /\ frames = << >> =>
    /\ Len(machine.stack) = Reserved
    /\ gen_stack = 16 + 8 * Len(parameters) - Lowest(offsets)
=============================================================================
