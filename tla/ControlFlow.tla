---------------------------- MODULE ControlFlow ----------------------------
(***************************************************************************)
(* What the code of GenControl has to do.  C's own rules say which         *)
(* expression is evaluated after which, given the outcome of the last one; *)
(* following the emitted instructions says which one the program does      *)
(* evaluate next.                                                          *)
(***************************************************************************)
EXTENDS GenControl, FiniteSets

Items == 1..Len(source)
Is(i, kinds) == source[i].kind \in kinds

Largest(S) == CHOOSE x \in S : \A y \in S : y <= x
Least(S)   == CHOOSE x \in S : \A y \in S : x <= y

OpenedBy(k) == Cardinality({i \in 1..k : Is(i, Kind)})
ClosedBy(k) == Cardinality({i \in 1..k : Is(i, {"end"})})

\* The end of the statement opened at i, and what a statement at p stands in.
EndOf(i) == Least({j \in i..Len(source) : OpenedBy(j) - OpenedBy(i) + 1 = ClosedBy(j) - ClosedBy(i)}
                  \cup {Len(source) + 1})
Around(p, kinds) == {i \in 1..(p - 1) : Is(i, kinds) /\ p <= EndOf(i)}
Innermost(p, kinds) == Largest(Around(p, kinds))

Breakable == Loop \cup {"switch"}

\* C asks for these; the compiler does not check them.
LabelsOf(o) == {i \in Items : Is(i, {"case", "default"}) /\ o \in Around(i, {"switch"})
                              /\ Innermost(i, {"switch"}) = o}
Valid ==
  /\ \A i \in Items :
       /\ Is(i, {"break"}) => Around(i, Breakable) # {}
       /\ Is(i, {"continue"}) => Around(i, Loop) # {}
       /\ Is(i, {"case", "default"}) => Around(i, {"switch"}) # {}
  /\ \A o \in Items : Is(o, {"switch"}) =>
       \A i, j \in LabelsOf(o) : source[i] = source[j] => i = j

-----------------------------------------------------------------------------
(* C: the expression evaluated first when control reaches item p.          *)

Exit == [op |-> "exit"]

Arrive ==
  LET at[p \in 1..(Len(source) + 1)] ==
    IF p > Len(source) THEN Exit ELSE
    LET opener == Largest({i \in 1..(p - 1) : EndOf(i) = p /\ Is(i, Kind)})
        loop   == Innermost(p, Loop)
        again(o) == CASE Is(o, {"for", "forever"}) -> Do(o, "step")
                      [] OTHER                     -> Do(o, "cond")
    IN CASE Is(p, {"expression"})             -> Do(p, "value")
         [] Is(p, {"return"})                 -> Do(p, "return")
         [] Is(p, {"if", "while", "switch"})  -> Do(p, "cond")
         [] Is(p, {"for"})                    -> Do(p, "init")
         [] Is(p, {"do", "forever", "case", "default"}) -> at[p + 1]
         [] Is(p, {"else"})     -> at[EndOf(Innermost(p, {"if"})) + 1]
         [] Is(p, {"break"})    -> at[EndOf(Innermost(p, Breakable)) + 1]
         [] Is(p, {"continue"}) -> again(loop)
         [] Is(p, {"end"})      -> IF Is(opener, Loop) THEN again(opener) ELSE at[p + 1]
  IN at

ElseOf(i) == {p \in Items : Is(p, {"else"}) /\ i \in Around(p, {"if"}) /\ Innermost(p, {"if"}) = i}

\* The expression after the one evaluated at e, whose value is v: TRUE or FALSE
\* for a condition, a number for a switch.
After(e, v) ==
  LET i == e.at
      past == Arrive[EndOf(i) + 1]
      chosen == {p \in LabelsOf(i) : source[p].kind = "case" /\ source[p].value = v}
      default == {p \in LabelsOf(i) : source[p].kind = "default"}
  IN CASE e.part = "return" -> Exit
       [] e.part = "value"  -> Arrive[i + 1]
       [] e.part = "init"   -> Do(i, "cond")
       [] e.part = "step"   -> IF Is(i, {"for"}) THEN Do(i, "cond") ELSE Arrive[i + 1]
       [] e.part = "cond" /\ Is(i, {"switch"}) ->
            IF chosen # {} THEN Arrive[Least(chosen)]
            ELSE IF default # {} THEN Arrive[Least(default)] ELSE past
       [] e.part = "cond" /\ Is(i, {"if"}) ->
            IF v THEN Arrive[i + 1]
            ELSE IF ElseOf(i) # {} THEN Arrive[Least(ElseOf(i)) + 1] ELSE past
       [] e.part = "cond" /\ Is(i, Loop) -> IF v THEN Arrive[i + 1] ELSE past

-----------------------------------------------------------------------------
(* The program: the expression evaluated first from instruction q on, with *)
(* v the last value computed.  A path that meets none loops for ever.      *)

Place(l) == {q \in 1..Len(code) : code[q] = Label(l)}
Targets  == {code[q].to : q \in {r \in 1..Len(code) : code[r].op \in {"jmp", "je", "jne"}}}

Follow(v) ==
  LET from[n \in 0..Len(code), q \in 1..(Len(code) + 1)] ==
    IF q > Len(code) THEN Exit ELSE
    IF n = 0 THEN [op |-> "loop"] ELSE
    LET there == from[n - 1, Least(Place(code[q].to))]
        next  == from[n - 1, q + 1]
    IN CASE code[q].op = "do"    -> code[q]
         [] code[q].op = "label" -> next
         [] code[q].op = "jmp"   -> there
         [] code[q].op = "je"    -> IF v = TRUE THEN next ELSE there
         [] code[q].op = "jne"   -> IF v = code[q].value THEN next ELSE there
  IN [q \in 1..(Len(code) + 1) |-> from[Len(code), q]]

Outcomes(e) ==
  CASE e.part # "cond"         -> {0}
    [] Is(e.at, {"switch"})    -> Values \cup {0}
    [] OTHER                   -> {TRUE, FALSE}

Evaluations == {q \in 1..Len(code) : code[q].op = "do"}
Executed(q, v) == IF code[q].part = "return" THEN Exit ELSE Follow(v)[q + 1]

-----------------------------------------------------------------------------
Enclosing(kinds) == {i \in 1..Len(frames) : frames[i].kind \in kinds}

\* A break compiled now leaves the innermost loop or switch it is written in,
\* although the generator restores the previous target from a single saved copy.
BreakLeavesInnermost ==
  Enclosing(Breakable) # {} => labelBreak = frames[Largest(Enclosing(Breakable))].end

\* A continue compiled now goes on with the innermost loop, also from inside a
\* switch in that loop.
ContinueStaysInLoop ==
  Enclosing(Loop) # {} => labelContinue = frames[Largest(Enclosing(Loop))].step

\* Every valid function is accepted, by the generator and by the assembler: there is no
\* internal error, no label stands twice, and no jump of a finished function leads to
\* a label that is not there.
ValidAccepted ==
  Valid => /\ pc # "error"
           /\ \A l \in 1..nextLabel : Cardinality(Place(l)) <= 1
           /\ pc = "done" => \A l \in Targets : Place(l) # {}

\* Whatever value an expression has, the program evaluates next the expression
\* that C evaluates next: every branch, fall-through, loop end and dispatch of a
\* switch, in every arrangement of the statements.
CodeFollowsC ==
  /\ Follow(0)[1] = Arrive[1]
  /\ \A q \in Evaluations : \A v \in Outcomes(code[q]) : Executed(q, v) = After(code[q], v)

\* It does so but for two statements: a default that is not the last label of its
\* switch, and a continue of a do loop.
DefaultNotLast == \E o \in Items : Is(o, {"switch"}) /\ \E i, j \in LabelsOf(o) :
                    Is(i, {"default"}) /\ i < j
ContinueInDo == \E i \in Items : Is(i, {"continue"}) /\ Is(Innermost(i, Loop), {"do"})

FollowsC == pc = "done" /\ Valid /\ ~DefaultNotLast /\ ~ContinueInDo => CodeFollowsC
=============================================================================
