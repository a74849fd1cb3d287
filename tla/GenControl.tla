----------------------------- MODULE GenControl -----------------------------
(***************************************************************************)
(* Control flow in gen_amd64.c: the labels and jumps gen_expression emits  *)
(* for if, for, while, do, switch, case, default, break, continue and      *)
(* return.  The statement tree is walked in source order and chosen on the *)
(* way: an action is the code before, between or after the recursive calls *)
(* of one case of gen_expression, and frames is the C stack of those       *)
(* calls.  What is not control flow is one instruction, "do".              *)
(***************************************************************************)
EXTENDS Naturals, Sequences

CONSTANTS
  MaxItems,           \* bound on the statements (and their ends) of a function
  MaxNest,            \* bound on loops and switches inside one another
  Values              \* case values

ASSUME BoundsAssumption ==
  MaxItems \in Nat /\ MaxNest \in Nat /\ Values \subseteq Nat \ {0}

Loop == {"for", "forever", "while", "do"}     \* forever: no condition
Kind == Loop \cup {"if", "switch"}

VARIABLES
  source,             \* the statements walked so far, "end" closing a body
  frames,             \* calls of gen_expression in progress, with their locals
  code,               \* the instructions emitted so far
  nextLabel,          \* the counter of ast_label
  labelBreak, labelContinue, labelSwitch,       \* gen_label_..., 0 for NULL
  breakStore, continueStore, switchStore,       \* gen_label_..._store
  pc

jumps  == <<labelBreak, labelContinue, breakStore, continueStore>>
switch == <<labelSwitch, switchStore>>
vars   == <<source, frames, code, nextLabel, labelBreak, labelContinue, labelSwitch,
            breakStore, continueStore, switchStore, pc>>

-----------------------------------------------------------------------------
Do(i, part) == [op |-> "do", at |-> i, part |-> part]     \* evaluate that expression
Label(l)    == [op |-> "label", to |-> l]
Jmp(l)      == [op |-> "jmp", to |-> l]
Je(l)       == [op |-> "je", to |-> l]                    \* jump if the condition is 0
CmpJne(v, l) == [op |-> "jne", value |-> v, to |-> l]     \* jump unless the value is v

here  == Len(source) + 1                                  \* place of the next item
top   == frames[Len(frames)]
outer == SubSeq(frames, 1, Len(frames) - 1)
nest  == IF frames = << >> THEN 0 ELSE top.nest

Walk(kind, value) == source' = Append(source, [kind |-> kind, value |-> value])
Emit(instructions) == code' = code \o instructions
Room(n) == pc = "body" /\ Len(source) + Len(frames) + n <= MaxItems

\* n calls of ast_label: the labels from nextLabel on.
Fresh(n) == nextLabel' = nextLabel + n

\* end and step are where break and continue lead; for an if, end is the label
\* that is still to come.
Frame(kind, begin, step, end) ==
  [kind |-> kind, at |-> here, begin |-> begin, step |-> step, end |-> end,
   nest |-> nest + (IF kind = "if" THEN 0 ELSE 1), else |-> FALSE]

\* Slip: the targets are replaced without a copy.
JumpSaveNothing(lbreak, lcontinue) ==
  /\ labelBreak' = lbreak /\ labelContinue' = lcontinue
  /\ UNCHANGED <<breakStore, continueStore>>

JumpSave(lbreak, lcontinue) ==
  /\ breakStore' = labelBreak /\ continueStore' = labelContinue
  /\ labelBreak' = lbreak /\ labelContinue' = lcontinue

\* Slip: the target of continue is not restored.
JumpRestoreBreakOnly ==
  /\ labelBreak' = breakStore
  /\ UNCHANGED <<labelContinue, breakStore, continueStore>>

\* Slip: the target of break is dropped.
JumpRestoreClears ==
  /\ labelBreak' = 0 /\ labelContinue' = continueStore
  /\ UNCHANGED <<breakStore, continueStore>>

JumpRestore ==
  /\ labelBreak' = breakStore /\ labelContinue' = continueStore
  /\ UNCHANGED <<breakStore, continueStore>>

-----------------------------------------------------------------------------
\* The labels left by the functions generated before this one: none, or some.
Init ==
  /\ source = << >> /\ frames = << >> /\ code = << >>
  /\ nextLabel = 2
  /\ \E old \in {0, 1} :
       /\ labelBreak = old /\ labelContinue = old /\ labelSwitch = old
       /\ breakStore = old /\ continueStore = old /\ switchStore = old
  /\ pc = "body"

Expression ==
  /\ Room(1)
  /\ Walk("expression", 0)
  /\ Emit(<<Do(here, "value")>>)
  /\ UNCHANGED <<frames, nextLabel, jumps, switch, pc>>

Return ==
  /\ Room(1)
  /\ Walk("return", 0)
  /\ Emit(<<Do(here, "return")>>)
  /\ UNCHANGED <<frames, nextLabel, jumps, switch, pc>>

EnterIf ==
  /\ Room(2)
  /\ Walk("if", 0)
  /\ Fresh(1)
  /\ Emit(<<Do(here, "cond"), Je(nextLabel)>>)
  /\ frames' = Append(frames, Frame("if", 0, 0, nextLabel))
  /\ UNCHANGED <<jumps, switch, pc>>

Else ==
  /\ Room(1)
  /\ frames # << >> /\ top.kind = "if" /\ ~top.else
  /\ Walk("else", 0)
  /\ Fresh(1)
  /\ Emit(<<Jmp(nextLabel), Label(top.end)>>)
  /\ frames' = Append(outer, [top EXCEPT !.end = nextLabel, !.else = TRUE])
  /\ UNCHANGED <<jumps, switch, pc>>

LeaveIf ==
  /\ pc = "body" /\ frames # << >> /\ top.kind = "if"
  /\ Walk("end", 0)
  /\ Emit(<<Label(top.end)>>)
  /\ frames' = outer
  /\ UNCHANGED <<nextLabel, jumps, switch, pc>>

\* What a loop emits before and after its body.
LoopHead(kind, i, begin, end) ==
  LET test == <<Do(i, "cond"), Je(end)>> IN
  CASE kind = "for"   -> <<Do(i, "init"), Label(begin)>> \o test
    [] kind = "while" -> <<Label(begin)>> \o test
    [] OTHER          -> <<Label(begin)>>

LoopTail(kind, i, begin, step, end) ==
  (CASE kind \in {"for", "forever"} -> <<Label(step), Do(i, "step")>>
     [] kind = "do"                 -> <<Do(i, "cond"), Je(end)>>
     [] OTHER                       -> << >>)
    \o <<Jmp(begin), Label(end)>>

EnterLoop(kind) ==
  /\ Room(2) /\ nest < MaxNest
  /\ Walk(kind, 0)
  /\ LET begin == nextLabel
         step  == IF kind \in {"for", "forever"} THEN nextLabel + 1 ELSE begin
         end   == step + 1
     IN /\ Fresh(end + 1 - begin)
        /\ JumpSave(end, step)
        /\ Emit(LoopHead(kind, here, begin, end))
        /\ frames' = Append(frames, Frame(kind, begin, step, end))
  /\ UNCHANGED <<switch, pc>>

LeaveLoop ==
  /\ pc = "body" /\ frames # << >> /\ top.kind \in Loop
  /\ Walk("end", 0)
  /\ Emit(LoopTail(top.kind, top.at, top.begin, top.step, top.end))
  /\ JumpRestore
  /\ frames' = outer
  /\ UNCHANGED <<nextLabel, switch, pc>>

EnterSwitch ==
  /\ Room(2) /\ nest < MaxNest
  /\ Walk("switch", 0)
  /\ switchStore' = labelSwitch /\ breakStore' = labelBreak
  /\ labelSwitch' = nextLabel /\ labelBreak' = nextLabel + 1
  /\ Fresh(2)
  /\ Emit(<<Do(here, "cond"), Jmp(nextLabel)>>)
  /\ frames' = Append(frames, Frame("switch", 0, 0, nextLabel + 1))
  /\ UNCHANGED <<labelContinue, continueStore, pc>>

LeaveSwitch ==
  /\ pc = "body" /\ frames # << >> /\ top.kind = "switch"
  /\ Walk("end", 0)
  /\ Emit(<<Label(labelSwitch), Label(labelBreak)>>)
  /\ labelSwitch' = switchStore /\ labelBreak' = breakStore
  /\ frames' = outer
  /\ UNCHANGED <<nextLabel, labelContinue, breakStore, continueStore, switchStore, pc>>

\* Slip: control falling in from above meets the test.
CaseCodeFallsIn(v, lswitch, skip, next) ==
  <<Label(lswitch), CmpJne(v, next), Label(skip)>>

\* The test of a case is jumped over when control falls into it from above.
CaseCode(v, lswitch, skip, next) ==
  <<Jmp(skip), Label(lswitch), CmpJne(v, next), Label(skip)>>

Case(v) ==
  /\ Room(1) /\ labelSwitch # 0
  /\ Walk("case", v)
  /\ Emit(CaseCode(v, labelSwitch, nextLabel, nextLabel + 1))
  /\ labelSwitch' = nextLabel + 1
  /\ Fresh(2)
  /\ UNCHANGED <<frames, jumps, switchStore, pc>>

Default ==
  /\ Room(1) /\ labelSwitch # 0
  /\ Walk("default", 0)
  /\ Emit(<<Label(labelSwitch)>>)
  /\ labelSwitch' = nextLabel
  /\ Fresh(1)
  /\ UNCHANGED <<frames, jumps, switchStore, pc>>

Jump(kind, label) ==
  /\ Room(1) /\ label # 0
  /\ Walk(kind, 0)
  /\ Emit(<<Jmp(label)>>)
  /\ UNCHANGED <<frames, nextLabel, jumps, switch, pc>>

Break    == Jump("break", labelBreak)
Continue == Jump("continue", labelContinue)

\* A jump or a case with no label to go by: compile_error("ICE").
Reject(kind, label) ==
  /\ Room(1) /\ label = 0
  /\ Walk(kind, 0)
  /\ pc' = "error"
  /\ UNCHANGED <<frames, code, nextLabel, jumps, switch>>

Finish ==
  /\ pc = "body" /\ frames = << >> /\ source # << >>
  /\ pc' = "done"
  /\ UNCHANGED <<source, frames, code, nextLabel, jumps, switch>>

Next ==
  \/ Expression \/ Return
  \/ EnterIf \/ Else \/ LeaveIf
  \/ \E kind \in Loop : EnterLoop(kind)
  \/ LeaveLoop
  \/ EnterSwitch \/ LeaveSwitch
  \/ \E v \in Values : Case(v)
  \/ Default \/ Break \/ Continue
  \/ Reject("break", labelBreak) \/ Reject("continue", labelContinue)
  \/ Reject("case", labelSwitch) \/ Reject("default", labelSwitch)
  \/ Finish

Spec == Init /\ [][Next]_vars
=============================================================================
