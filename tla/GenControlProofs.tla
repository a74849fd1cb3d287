-------------------------- MODULE GenControlProofs --------------------------
(***************************************************************************)
(* Where break and continue lead, for functions of any length: as long as  *)
(* loops and switches stand at most two deep, the single saved copy of the *)
(* targets (gen_jump_save, gen_jump_restore) is enough.                    *)
(***************************************************************************)
EXTENDS ControlFlow, DataLemmas

FrameType == [kind : Kind, at : Nat, begin : Nat, step : Nat, end : Nat,
              nest : 0..2, else : BOOLEAN]

NestOf(fs) == IF fs = << >> THEN 0 ELSE fs[Len(fs)].nest

\* nest counts: it grows at each loop and switch, and at nothing else.
Nested(fs) ==
  /\ fs \in Seq(FrameType)
  /\ \A i, j \in 1..Len(fs) : i <= j => fs[i].nest <= fs[j].nest
  /\ \A i \in 1..Len(fs) : fs[i].kind # "if" => fs[i].nest >= 1
  /\ \A i, j \in 1..Len(fs) : i < j /\ fs[j].kind # "if" => fs[i].nest < fs[j].nest
  /\ \A j \in 1..Len(fs) : fs[j].nest >= 1 =>
       \E i \in 1..j : fs[i].kind # "if" /\ fs[i].nest = fs[j].nest

\* The targets in use belong to the innermost statement, the saved ones to the
\* one around it.
BreakKept(fs, target, saved) ==
  \A i \in 1..Len(fs) : fs[i].kind # "if" =>
    /\ fs[i].nest = NestOf(fs) => target = fs[i].end
    /\ fs[i].nest = 1 /\ NestOf(fs) = 2 => saved = fs[i].end

ContinueKept(fs, target, saved) ==
  \A i \in 1..Len(fs) : fs[i].kind \in Loop =>
    /\ (\A j \in 1..Len(fs) : fs[j].kind \in Loop => j <= i) => target = fs[i].step
    /\ (\E j \in 1..Len(fs) : fs[j].kind \in Loop /\ i < j) => saved = fs[i].step

ItemType == [kind : Kind \cup {"expression", "return", "else", "end", "case", "default",
                                "break", "continue"},
             value : Nat]

IInv ==
  /\ nextLabel \in Nat
  /\ source \in Seq(ItemType)
  /\ Nested(frames)
  /\ BreakKept(frames, labelBreak, breakStore)
  /\ ContinueKept(frames, labelContinue, continueStore)

-----------------------------------------------------------------------------
\* The frames of a nested stack are frames.
LEMMA FrameOf ==
  ASSUME NEW fs, Nested(fs), NEW i \in 1..Len(fs)
  PROVE  fs[i] \in FrameType /\ fs[i].nest \in 0..2
<1>1. fs \in [1..Len(fs) -> FrameType]
  BY LenProperties DEF Nested
<1>2. fs[i] \in FrameType
  BY <1>1
<1> QED
  BY <1>2 DEF FrameType

Pushes(fs, f, gs) ==
  /\ Nested(gs)
  /\ Len(fs) \in Nat /\ Len(gs) = Len(fs) + 1
  /\ gs[Len(gs)] = f /\ NestOf(gs) = f.nest
  /\ \A i \in 1..Len(fs) : gs[i] = fs[i]
  /\ \A i \in 1..Len(gs) : i \in 1..Len(fs) \/ i = Len(gs)

\* Entering a statement keeps the frames nested.
LEMMA NestedPush ==
  ASSUME NEW fs, Nested(fs), NEW f \in FrameType,
         f.kind = "if" => f.nest = NestOf(fs), f.kind # "if" => f.nest = NestOf(fs) + 1,
         NEW gs, gs = Append(fs, f)
  PROVE  Pushes(fs, f, gs)
<1>1. /\ Len(fs) \in Nat
      /\ gs \in Seq(FrameType)
      /\ Len(gs) = Len(fs) + 1
      /\ gs[Len(gs)] = f
      /\ \A i \in 1..Len(fs) : gs[i] = fs[i]
      /\ \A i \in 1..Len(gs) : i \in 1..Len(fs) \/ i = Len(gs)
  BY Pushed DEF Nested
<1>2. NestOf(gs) = f.nest
  BY <1>1, EmptySeq DEF NestOf
<1>3. \A i \in 1..Len(fs) : fs[i] \in FrameType /\ fs[i].nest \in 0..2
  BY FrameOf
<1>4. \A i \in 1..Len(fs) : fs[i].nest <= NestOf(fs)
  BY <1>1, <1>3, EmptySeq DEF Nested, NestOf
<1>5. NestOf(fs) \in 0..2 /\ f.nest \in 0..2
  BY <1>1, <1>3, EmptySeq DEF NestOf, FrameType
<1>6. \A i, j \in 1..Len(gs) : i <= j => gs[i].nest <= gs[j].nest
  BY <1>1, <1>3, <1>4, <1>5 DEF Nested
<1>7. \A i \in 1..Len(gs) : gs[i].kind # "if" => gs[i].nest >= 1
  BY <1>1, <1>5 DEF Nested
<1>8. \A i, j \in 1..Len(gs) : i < j /\ gs[j].kind # "if" => gs[i].nest < gs[j].nest
  BY <1>1, <1>3, <1>4, <1>5 DEF Nested
<1>9. \A j \in 1..Len(gs) : gs[j].nest >= 1 =>
        \E i \in 1..j : gs[i].kind # "if" /\ gs[i].nest = gs[j].nest
  <2> SUFFICES ASSUME NEW j \in 1..Len(gs), gs[j].nest >= 1
      PROVE  \E i \in 1..j : gs[i].kind # "if" /\ gs[i].nest = gs[j].nest
    OBVIOUS
  <2>1. CASE j \in 1..Len(fs)
    <3>1. PICK i \in 1..j : fs[i].kind # "if" /\ fs[i].nest = fs[j].nest
      BY <1>1, <2>1 DEF Nested
    <3> QED
      BY <1>1, <2>1, <3>1
  <2>2. CASE j = Len(gs) /\ f.kind # "if"
    BY <1>1, <2>2
  <2>3. CASE j = Len(gs) /\ f.kind = "if"
    <3>1. f.nest = NestOf(fs) /\ NestOf(fs) >= 1
      BY <1>1, <1>5, <2>3
    <3>2. Len(fs) > 0 /\ NestOf(fs) = fs[Len(fs)].nest
      BY <1>1, <3>1, EmptySeq DEF NestOf
    <3>3. PICK i \in 1..Len(fs) : fs[i].kind # "if" /\ fs[i].nest = fs[Len(fs)].nest
      BY <1>1, <3>1, <3>2 DEF Nested
    <3> QED
      BY <1>1, <2>3, <3>1, <3>2, <3>3
  <2> QED
    BY <1>1, <2>1, <2>2, <2>3
<1> QED
  BY <1>1, <1>2, <1>6, <1>7, <1>8, <1>9 DEF Nested, Pushes

\* Leaving one does too.
LEMMA NestedPop ==
  ASSUME NEW fs, Nested(fs), fs # << >>,
         NEW gs, gs = SubSeq(fs, 1, Len(fs) - 1)
  PROVE  /\ Nested(gs)
         /\ Len(fs) \in Nat /\ Len(fs) > 0 /\ Len(gs) = Len(fs) - 1
         /\ fs[Len(fs)] \in FrameType
         /\ \A i \in 1..Len(gs) : gs[i] = fs[i]
         /\ NestOf(fs) = fs[Len(fs)].nest
         /\ NestOf(gs) \in 0..2
         /\ IF fs[Len(fs)].kind = "if" THEN NestOf(gs) = NestOf(fs)
                                       ELSE NestOf(gs) < NestOf(fs)
         /\ \A i \in 1..Len(gs) : fs[Len(fs)].kind # "if" => gs[i].nest < NestOf(fs)
<1>0. fs \in Seq(FrameType)
  BY DEF Nested
<1>1. /\ Len(fs) \in Nat /\ Len(fs) > 0
      /\ fs[Len(fs)] \in FrameType
      /\ gs \in Seq(FrameType)
      /\ Len(gs) = Len(fs) - 1
      /\ \A i \in 1..(Len(fs) - 1) : gs[i] = fs[i]
  BY <1>0, Popped
<1>2. \A i \in 1..Len(fs) : fs[i] \in FrameType /\ fs[i].nest \in 0..2
  BY FrameOf
<1>a. /\ Len(gs) \in Nat
      /\ \A i \in 1..Len(gs) : i \in 1..Len(fs) /\ gs[i] = fs[i] /\ i < Len(fs)
      /\ Len(fs) \in 1..Len(fs)
  BY <1>1
<1>3. NestOf(fs) = fs[Len(fs)].nest
  BY DEF NestOf
<1>4. Nested(gs)
  <2>1. \A i, j \in 1..Len(gs) : i <= j => gs[i].nest <= gs[j].nest
    BY <1>a DEF Nested
  <2>2. \A i \in 1..Len(gs) : gs[i].kind # "if" => gs[i].nest >= 1
    BY <1>1 DEF Nested
  <2>3. \A i, j \in 1..Len(gs) : i < j /\ gs[j].kind # "if" => gs[i].nest < gs[j].nest
    BY <1>1 DEF Nested
  <2>4. \A j \in 1..Len(gs) : gs[j].nest >= 1 =>
          \E i \in 1..j : gs[i].kind # "if" /\ gs[i].nest = gs[j].nest
    <3> SUFFICES ASSUME NEW j \in 1..Len(gs), gs[j].nest >= 1
        PROVE  \E i \in 1..j : gs[i].kind # "if" /\ gs[i].nest = gs[j].nest
      OBVIOUS
    <3>1. PICK i \in 1..j : fs[i].kind # "if" /\ fs[i].nest = fs[j].nest
      BY <1>1 DEF Nested
    <3> QED
      BY <1>1, <3>1
  <2> QED
    BY <1>1, <2>1, <2>2, <2>3, <2>4 DEF Nested
<1>5. NestOf(gs) = IF Len(gs) = 0 THEN 0 ELSE fs[Len(gs)].nest
  <2>1. CASE gs = << >>
    BY <2>1 DEF NestOf
  <2>2. CASE gs # << >>
    <3>1. Len(gs) # 0
      BY <1>1, <2>2, EmptySeq
    <3> QED
      BY <1>a, <2>2, <3>1 DEF NestOf
  <2> QED
    BY <2>1, <2>2
<1>6. NestOf(gs) \in 0..2
  BY <1>1, <1>2, <1>5
<1>7. \A i \in 1..Len(gs) : fs[Len(fs)].kind # "if" => gs[i].nest < NestOf(fs)
  BY <1>a, <1>3 DEF Nested
<1>8. CASE fs[Len(fs)].kind # "if"
  <2>1. NestOf(fs) >= 1
    BY <1>1, <1>3, <1>8 DEF Nested
  <2>2. NestOf(gs) < NestOf(fs)
    <3>1. CASE Len(gs) = 0
      <4>1. NestOf(gs) = 0 /\ NestOf(fs) \in 0..2
        BY <1>a, <1>2, <1>3, <1>5, <3>1
      <4> QED
        BY <2>1, <4>1
    <3>2. CASE Len(gs) # 0
      <4>1. Len(gs) \in 1..Len(gs) /\ fs[Len(gs)].nest < NestOf(fs)
        BY <1>a, <1>7, <1>8, <3>2
      <4> QED
        BY <1>5, <3>2, <4>1
    <3> QED
      BY <3>1, <3>2
  <2> QED
    BY <1>1, <1>3, <1>4, <1>6, <1>7, <1>8, <2>2
<1>9. CASE fs[Len(fs)].kind = "if"
  <2>1. CASE NestOf(fs) >= 1
    <3>1. PICK i \in 1..Len(fs) : fs[i].kind # "if" /\ fs[i].nest = NestOf(fs)
      BY <1>1, <1>3, <2>1 DEF Nested
    <3>2. i \in 1..Len(gs) /\ Len(gs) \in 1..Len(fs) /\ i <= Len(gs) /\ Len(gs) <= Len(fs)
      BY <1>1, <1>9, <3>1
    <3>3. fs[i].nest <= fs[Len(gs)].nest /\ fs[Len(gs)].nest <= fs[Len(fs)].nest
      BY <1>1, <3>2 DEF Nested
    <3> QED
      BY <1>1, <1>2, <1>3, <1>4, <1>5, <1>6, <1>9, <3>1, <3>2, <3>3
  <2>2. CASE ~(NestOf(fs) >= 1)
    <3>1. NestOf(fs) = 0
      BY <1>1, <1>2, <1>3, <2>2
    <3>2. NestOf(gs) = 0
      <4>1. CASE Len(gs) = 0
        BY <1>5, <4>1
      <4>2. CASE Len(gs) # 0
        <5>1. Len(gs) \in 1..Len(fs) /\ fs[Len(gs)].nest <= fs[Len(fs)].nest
          BY <1>1, <4>2 DEF Nested
        <5> QED
          BY <1>2, <1>3, <1>5, <3>1, <4>2, <5>1
      <4> QED
        BY <4>1, <4>2
    <3> QED
      BY <1>1, <1>3, <1>4, <1>6, <1>9, <3>1, <3>2
  <2> QED
    BY <2>1, <2>2
<1> QED
  BY <1>8, <1>9

-----------------------------------------------------------------------------
(* Every step.                                                             *)

\* A step that leaves the frames and the targets alone.
LEMMA Idle ==
  ASSUME IInv, UNCHANGED <<frames, jumps>>, nextLabel' \in Nat,
         source' \in Seq(ItemType)
  PROVE  IInv'
  BY DEF IInv, jumps, BreakKept, ContinueKept

\* Entering an if, or its else: the frames around it are the same ones, and it is
\* neither a loop nor a switch.
LEMMA PushIf ==
  ASSUME NEW fs, Nested(fs), NEW f \in FrameType, f.kind = "if", f.nest = NestOf(fs),
         NEW gs, gs = Append(fs, f),
         NEW b, NEW sb, NEW c, NEW sc, BreakKept(fs, b, sb), ContinueKept(fs, c, sc)
  PROVE  Nested(gs) /\ BreakKept(gs, b, sb) /\ ContinueKept(gs, c, sc)
<1>p. Pushes(fs, f, gs)
  BY NestedPush
<1>1. /\ Nested(gs)
      /\ Len(fs) \in Nat /\ Len(gs) = Len(fs) + 1
      /\ gs[Len(gs)] = f /\ NestOf(gs) = f.nest
      /\ \A i \in 1..Len(fs) : gs[i] = fs[i]
      /\ \A i \in 1..Len(gs) : i \in 1..Len(fs) \/ i = Len(gs)
  BY <1>p DEF Pushes
<1>2. BreakKept(gs, b, sb)
  BY <1>1 DEF BreakKept
<1>3. ContinueKept(gs, c, sc)
  <2>1. "if" \notin Loop
    BY DEF Loop
  <2>2. \A i \in 1..Len(gs) : gs[i].kind \in Loop => i \in 1..Len(fs) /\ gs[i] = fs[i]
    BY <1>1, <2>1
  <2>3. \A i \in 1..Len(fs) : i \in 1..Len(gs) /\ gs[i] = fs[i]
    BY <1>1
  <2> QED
    BY <2>2, <2>3 DEF ContinueKept
<1> QED
  BY <1>1, <1>2, <1>3

\* Leaving an if.
LEMMA PopIf ==
  ASSUME NEW fs, Nested(fs), fs # << >>, fs[Len(fs)].kind = "if",
         NEW gs, gs = SubSeq(fs, 1, Len(fs) - 1),
         NEW b, NEW sb, NEW c, NEW sc, BreakKept(fs, b, sb), ContinueKept(fs, c, sc)
  PROVE  /\ Nested(gs) /\ BreakKept(gs, b, sb) /\ ContinueKept(gs, c, sc)
         /\ NestOf(gs) = NestOf(fs)
<1>1. /\ Nested(gs)
      /\ Len(fs) \in Nat /\ Len(fs) > 0 /\ Len(gs) = Len(fs) - 1
      /\ \A i \in 1..Len(gs) : gs[i] = fs[i]
      /\ NestOf(gs) = NestOf(fs)
  BY NestedPop
<1>2. \A i \in 1..Len(gs) : i \in 1..Len(fs) /\ gs[i] = fs[i]
  BY <1>1
<1>3. BreakKept(gs, b, sb)
  BY <1>1, <1>2 DEF BreakKept
<1>4. ContinueKept(gs, c, sc)
  <2>1. "if" \notin Loop
    BY DEF Loop
  <2>2. \A i \in 1..Len(fs) : fs[i].kind \in Loop => i \in 1..Len(gs)
    BY <1>1, <2>1
  <2> QED
    BY <1>2, <2>2 DEF ContinueKept
<1> QED
  BY <1>1, <1>3, <1>4

\* Entering a loop or a switch at depth 0 or 1: the old target is the one saved.
LEMMA PushBreakable ==
  ASSUME NEW fs, Nested(fs), NEW f \in FrameType, f.kind # "if", f.nest = NestOf(fs) + 1,
         NEW gs, gs = Append(fs, f), NEW b, NEW sb, BreakKept(fs, b, sb)
  PROVE  Nested(gs) /\ BreakKept(gs, f.end, b)
<1>p. Pushes(fs, f, gs)
  BY NestedPush
<1>1. /\ Nested(gs)
      /\ Len(fs) \in Nat /\ Len(gs) = Len(fs) + 1
      /\ gs[Len(gs)] = f /\ NestOf(gs) = f.nest
      /\ \A i \in 1..Len(fs) : gs[i] = fs[i]
      /\ \A i \in 1..Len(gs) : i \in 1..Len(fs) \/ i = Len(gs)
  BY <1>p DEF Pushes
<1>2. f.nest \in 0..2
  BY DEF FrameType
<1>3. \A i \in 1..Len(fs) : fs[i].nest < f.nest
  BY <1>1 DEF Nested
<1>4. \A i \in 1..Len(fs) : fs[i].nest \in 0..2
  BY FrameOf
<1>5. \A i \in 1..Len(gs) : gs[i].nest = NestOf(gs) => gs[i].end = f.end
  BY <1>1, <1>2, <1>3, <1>4
<1>6. ASSUME NEW i \in 1..Len(gs), gs[i].kind # "if", gs[i].nest = 1, NestOf(gs) = 2
      PROVE  b = gs[i].end
  <2>1. NestOf(fs) = 1
    <3>1. f.nest = 2 /\ f.nest = NestOf(fs) + 1
      BY <1>1, <1>6
    <3>2. NestOf(fs) \in 0..2
      BY <1>4, <1>1, EmptySeq DEF NestOf
    <3> QED
      BY <3>1, <3>2
  <2>2. i \in 1..Len(fs) /\ gs[i] = fs[i]
    BY <1>1, <1>6
  <2> QED
    BY <1>6, <2>1, <2>2 DEF BreakKept
<1> QED
  BY <1>1, <1>5, <1>6 DEF BreakKept

\* Leaving it: what was saved is the target of the one around it.
LEMMA PopBreakable ==
  ASSUME NEW fs, Nested(fs), fs # << >>, fs[Len(fs)].kind # "if",
         NEW gs, gs = SubSeq(fs, 1, Len(fs) - 1), NEW b, NEW sb, BreakKept(fs, b, sb)
  PROVE  Nested(gs) /\ BreakKept(gs, sb, sb)
<1>1. /\ Nested(gs)
      /\ Len(fs) \in Nat /\ Len(fs) > 0 /\ Len(gs) = Len(fs) - 1
      /\ fs[Len(fs)] \in FrameType /\ NestOf(fs) = fs[Len(fs)].nest
      /\ \A i \in 1..Len(gs) : gs[i] = fs[i]
      /\ \A i \in 1..Len(gs) : gs[i].nest < NestOf(fs)
      /\ NestOf(gs) < NestOf(fs)
  BY NestedPop
<1>2. NestOf(fs) \in 0..2
  BY <1>1 DEF FrameType
<1>3. \A i \in 1..Len(gs) : i \in 1..Len(fs) /\ gs[i].nest \in 0..2
  BY <1>1, FrameOf
<1>a. \A i \in 1..Len(gs) : gs[i].kind # "if" => gs[i].nest >= 1 /\ gs[i].nest < NestOf(fs)
  BY <1>1 DEF Nested
<1>b. \A m \in 0..2, n \in 0..2 : m >= 1 /\ m < n => m = 1 /\ n = 2
  OBVIOUS
<1>4. \A i \in 1..Len(gs) : gs[i].kind # "if" => gs[i].nest = 1 /\ NestOf(fs) = 2
  BY <1>2, <1>3, <1>a, <1>b, Zenon
<1> QED
  BY <1>1, <1>3, <1>4 DEF BreakKept

\* The same for continue, which only loops set.
LEMMA PushLoop ==
  ASSUME NEW fs, Nested(fs), NEW f \in FrameType, f.kind \in Loop, f.nest = NestOf(fs) + 1,
         NEW gs, gs = Append(fs, f), NEW c, NEW sc, ContinueKept(fs, c, sc)
  PROVE  ContinueKept(gs, f.step, c)
<1>0. f.kind # "if"
  BY DEF Loop
<1>p. Pushes(fs, f, gs)
  BY <1>0, NestedPush
<1>1. /\ Nested(gs)
      /\ Len(fs) \in Nat /\ Len(gs) = Len(fs) + 1
      /\ gs[Len(gs)] = f
      /\ \A i \in 1..Len(fs) : gs[i] = fs[i]
      /\ \A i \in 1..Len(gs) : i \in 1..Len(fs) \/ i = Len(gs)
  BY <1>p DEF Pushes
<1>2. \A i, j \in 1..Len(fs) : fs[i].kind \in Loop /\ fs[j].kind \in Loop => i = j
  <2> SUFFICES ASSUME NEW i \in 1..Len(fs), NEW j \in 1..Len(fs), i < j,
                      fs[i].kind \in Loop, fs[j].kind \in Loop
      PROVE  FALSE
    BY <1>1
  <2>1. fs[i].kind # "if" /\ fs[j].kind # "if"
    BY DEF Loop
  <2>2. fs[i].nest >= 1 /\ fs[i].nest < fs[j].nest
    BY <2>1 DEF Nested
  <2>3. gs[j].nest < f.nest
    BY <1>0, <1>1 DEF Nested
  <2>4. fs[i].nest \in 0..2 /\ fs[j].nest \in 0..2 /\ f.nest \in 0..2 /\ gs[j] = fs[j]
    BY <1>1, FrameOf DEF FrameType
  <2> QED
    BY <2>2, <2>3, <2>4
<1>3. \A i \in 1..Len(fs) : fs[i].kind \in Loop => c = fs[i].step
  BY <1>1, <1>2 DEF ContinueKept
<1>4. \A i \in 1..Len(gs) : gs[i].kind \in Loop =>
        ((\A j \in 1..Len(gs) : gs[j].kind \in Loop => j <= i) => gs[i].step = f.step)
  BY <1>1
<1>5. \A i \in 1..Len(gs) : gs[i].kind \in Loop =>
        ((\E j \in 1..Len(gs) : gs[j].kind \in Loop /\ i < j) => c = gs[i].step)
  BY <1>1, <1>3
<1> QED
  BY <1>4, <1>5 DEF ContinueKept

\* Leaving a loop, for continue.
LEMMA PopLoop ==
  ASSUME NEW fs, Nested(fs), fs # << >>, fs[Len(fs)].kind \in Loop,
         NEW gs, gs = SubSeq(fs, 1, Len(fs) - 1), NEW c, NEW sc, ContinueKept(fs, c, sc)
  PROVE  ContinueKept(gs, sc, sc)
<1>1. /\ Len(fs) \in Nat /\ Len(fs) > 0 /\ Len(gs) = Len(fs) - 1
      /\ \A i \in 1..Len(gs) : gs[i] = fs[i]
  BY NestedPop
<1>2. \A i \in 1..Len(gs) : i \in 1..Len(fs) /\ i < Len(fs) /\ Len(fs) \in 1..Len(fs)
  BY <1>1
<1> QED
  BY <1>1, <1>2 DEF ContinueKept

\* A switch leaves the targets of continue to the loop around it.
LEMMA PushSwitch ==
  ASSUME NEW fs, Nested(fs), NEW f \in FrameType, f.kind = "switch", f.nest = NestOf(fs) + 1,
         NEW gs, gs = Append(fs, f), NEW c, NEW sc, ContinueKept(fs, c, sc)
  PROVE  ContinueKept(gs, c, sc)
<1>p. Pushes(fs, f, gs)
  BY NestedPush
<1>1. /\ Len(fs) \in Nat /\ Len(gs) = Len(fs) + 1
      /\ gs[Len(gs)] = f
      /\ \A i \in 1..Len(fs) : gs[i] = fs[i]
      /\ \A i \in 1..Len(gs) : i \in 1..Len(fs) \/ i = Len(gs)
  BY <1>p DEF Pushes
<1>2. "switch" \notin Loop
  BY DEF Loop
<1>3. \A i \in 1..Len(gs) : gs[i].kind \in Loop => i \in 1..Len(fs) /\ gs[i] = fs[i]
  BY <1>1, <1>2
<1>4. \A i \in 1..Len(fs) : i \in 1..Len(gs) /\ gs[i] = fs[i]
  BY <1>1
<1> QED
  BY <1>3, <1>4 DEF ContinueKept

\* Leaving a switch, for continue.
LEMMA PopSwitch ==
  ASSUME NEW fs, Nested(fs), fs # << >>, fs[Len(fs)].kind = "switch",
         NEW gs, gs = SubSeq(fs, 1, Len(fs) - 1), NEW c, NEW sc, ContinueKept(fs, c, sc)
  PROVE  ContinueKept(gs, c, sc)
<1>1. /\ Len(fs) \in Nat /\ Len(fs) > 0 /\ Len(gs) = Len(fs) - 1
      /\ \A i \in 1..Len(gs) : gs[i] = fs[i]
  BY NestedPop
<1>2. "switch" \notin Loop
  BY DEF Loop
<1>3. \A i \in 1..Len(fs) : fs[i].kind \in Loop => i \in 1..Len(gs)
  BY <1>1, <1>2
<1>4. \A i \in 1..Len(gs) : i \in 1..Len(fs) /\ gs[i] = fs[i]
  BY <1>1
<1> QED
  BY <1>3, <1>4 DEF ContinueKept

\* nest is the nesting of the frames, 0, 1 or 2.
LEMMA NestIs == nest = NestOf(frames)
  BY DEF nest, top, NestOf

\* A nested stack is at most two deep.
LEMMA NestRange == ASSUME NEW fs, Nested(fs) PROVE NestOf(fs) \in 0..2
<1>1. CASE fs = << >>
  BY <1>1 DEF NestOf
<1>2. CASE fs # << >>
  <2>1. Len(fs) \in 1..Len(fs)
    BY <1>2, EmptySeq, LenProperties DEF Nested
  <2> QED
    BY <1>2, <2>1, FrameOf DEF NestOf
<1> QED
  BY <1>1, <1>2

\* The frame on top belongs to the stack.
LEMMA TopFrame ==
  ASSUME NEW fs, Nested(fs), fs # << >>
  PROVE  fs[Len(fs)] \in FrameType /\ NestOf(fs) = fs[Len(fs)].nest
<1>1. Len(fs) \in 1..Len(fs)
  BY EmptySeq, LenProperties DEF Nested
<1> QED
  BY <1>1, FrameOf DEF NestOf

\* Among loops and switches inside one another one is the innermost: the one at
\* depth 2, or else the one there is.
LEMMA LastOne ==
  ASSUME NEW fs, Nested(fs), NEW P, P \subseteq 1..Len(fs), P # {},
         \A i \in P : fs[i].kind # "if"
  PROVE  \E m \in P : \A i \in P : i <= m
<1>1. Len(fs) \in Nat
  BY LenProperties DEF Nested
<1>2. \A i \in P : i \in 1..Len(fs) /\ fs[i].nest \in 0..2 /\ fs[i].nest >= 1
  BY FrameOf DEF Nested
<1>3. \A i, j \in P : i < j => fs[i].nest < fs[j].nest
  BY DEF Nested
<1>4. CASE \E m \in P : fs[m].nest = 2
  <2>1. PICK m \in P : fs[m].nest = 2
    BY <1>4
  <2>2. ASSUME NEW i \in P, m < i PROVE FALSE
    BY <1>2, <1>3, <2>1, <2>2
  <2> QED
    BY <1>1, <1>2, <2>1, <2>2
<1>5. CASE \A m \in P : fs[m].nest = 1
  <2>1. PICK m \in P : TRUE
    OBVIOUS
  <2>2. ASSUME NEW i \in P, m < i PROVE FALSE
    BY <1>3, <1>5, <2>1, <2>2
  <2> QED
    BY <1>1, <1>2, <2>1, <2>2
<1>6. ASSUME ~ \E m \in P : fs[m].nest = 2, NEW m \in P PROVE fs[m].nest = 1
  <2>1. fs[m].nest \in 0..2 /\ fs[m].nest >= 1 /\ fs[m].nest # 2
    BY <1>2, <1>6
  <2> QED
    BY <2>1
<1> QED
  BY <1>4, <1>5, <1>6

\* What the bounds leave a loop or switch: at most one around it.
LEMMA StepPreserves ==
  ASSUME MaxNest <= 2, IInv, Next
  PROVE  IInv'
<1>1. /\ nextLabel \in Nat /\ source \in Seq(ItemType) /\ Nested(frames)
      /\ BreakKept(frames, labelBreak, breakStore)
      /\ ContinueKept(frames, labelContinue, continueStore)
      /\ here \in Nat
  BY LenProperties DEF IInv, here
<1>2. ASSUME NEW kind, NEW value \in Nat, Walk(kind, value),
             kind \in Kind \cup {"expression", "return", "else", "end", "case", "default",
                                 "break", "continue"}
      PROVE  source' \in Seq(ItemType)
  BY <1>1, <1>2, AppendProperties DEF Walk, ItemType
<1>3. ASSUME NEW n \in Nat, Fresh(n)
      PROVE  nextLabel' \in Nat
  BY <1>1, <1>3 DEF Fresh
<1>4. CASE Expression
  BY <1>1, <1>2, <1>4, Idle DEF Expression
<1>5. CASE Return
  BY <1>1, <1>2, <1>5, Idle DEF Return
<1>6. CASE EnterIf
  <2>1. source' \in Seq(ItemType) /\ nextLabel' \in Nat
    BY <1>2, <1>3, <1>6 DEF EnterIf, Kind
  <2> DEFINE f == Frame("if", 0, 0, nextLabel)
  <2>2. NestOf(frames) \in 0..2
    BY <1>1, NestRange
  <2>3. f \in FrameType /\ f.kind = "if" /\ f.nest = NestOf(frames)
    BY <1>1, <2>2, NestIs DEF Frame, FrameType, Kind
  <2>4. frames' = Append(frames, f) /\ UNCHANGED jumps
    BY <1>6 DEF EnterIf
  <2> HIDE DEF f
  <2> QED
    BY <1>1, <2>1, <2>3, <2>4, PushIf DEF IInv, jumps
<1>7. CASE Else
  <2>1. source' \in Seq(ItemType) /\ nextLabel' \in Nat
    BY <1>2, <1>3, <1>7 DEF Else
  <2> DEFINE f  == [top EXCEPT !.end = nextLabel, !.else = TRUE]
             gs == outer
  <2>2. frames # << >> /\ top.kind = "if" /\ frames' = Append(gs, f) /\ UNCHANGED jumps
    BY <1>7 DEF Else
  <2>3. gs = SubSeq(frames, 1, Len(frames) - 1) /\ top = frames[Len(frames)]
    BY DEF outer, top
  <2>4. top \in FrameType /\ NestOf(frames) = top.nest
    BY <1>1, <2>2, <2>3, TopFrame
  <2>5. f \in FrameType /\ f.kind = "if" /\ f.nest = NestOf(frames)
    BY <1>1, <2>2, <2>4 DEF FrameType
  <2> HIDE DEF f, gs
  <2>6. /\ Nested(gs) /\ BreakKept(gs, labelBreak, breakStore)
        /\ ContinueKept(gs, labelContinue, continueStore)
        /\ NestOf(gs) = NestOf(frames)
    BY <1>1, <2>2, <2>3, PopIf
  <2> QED
    BY <1>1, <2>1, <2>2, <2>5, <2>6, PushIf DEF IInv, jumps
<1>8. CASE LeaveIf
  <2>1. source' \in Seq(ItemType) /\ nextLabel' \in Nat
    BY <1>1, <1>2, <1>8 DEF LeaveIf
  <2>2. /\ frames # << >> /\ frames[Len(frames)].kind = "if" /\ UNCHANGED jumps
        /\ frames' = SubSeq(frames, 1, Len(frames) - 1)
    BY <1>8 DEF LeaveIf, top, outer
  <2> QED
    BY <1>1, <2>1, <2>2, PopIf DEF IInv, jumps
<1>9. ASSUME NEW kind \in Loop, EnterLoop(kind) PROVE IInv'
  <2> DEFINE step == IF kind \in {"for", "forever"} THEN nextLabel + 1 ELSE nextLabel
             f    == Frame(kind, nextLabel, step, step + 1)
  <2>1. step \in Nat /\ kind \in Kind
    BY <1>1 DEF Kind
  <2>2. /\ Fresh(step + 1 + 1 - nextLabel) /\ JumpSave(step + 1, step)
        /\ frames' = Append(frames, f) /\ Walk(kind, 0) /\ nest < MaxNest
    BY <1>9 DEF EnterLoop
  <2>3. source' \in Seq(ItemType)
    BY <1>2, <2>1, <2>2
  <2>4. nextLabel' \in Nat
    BY <1>1, <2>1, <2>2 DEF Fresh
  <2>5. NestOf(frames) \in 0..1
    BY <1>1, <2>2, NestIs, NestRange, BoundsAssumption
  <2>6. f \in FrameType /\ f.kind \in Loop /\ f.nest = NestOf(frames) + 1
        /\ f.end = step + 1 /\ f.step = step
    BY <1>1, <2>1, <2>5, NestIs DEF Frame, FrameType, Loop
  <2>7. f.kind # "if"
    BY <2>6 DEF Loop
  <2>8. /\ labelBreak' = f.end /\ breakStore' = labelBreak
        /\ labelContinue' = f.step /\ continueStore' = labelContinue
    BY <2>2, <2>6 DEF JumpSave
  <2> HIDE DEF f, step
  <2>9. Nested(frames') /\ BreakKept(frames', f.end, labelBreak)
    BY <1>1, <2>2, <2>6, <2>7, PushBreakable
  <2>10. ContinueKept(frames', f.step, labelContinue)
    BY <1>1, <2>2, <2>6, PushLoop
  <2> QED
    BY <2>3, <2>4, <2>8, <2>9, <2>10 DEF IInv
<1>10. CASE LeaveLoop
  <2>1. source' \in Seq(ItemType) /\ nextLabel' \in Nat
    BY <1>1, <1>2, <1>10 DEF LeaveLoop
  <2>2. /\ frames # << >> /\ frames[Len(frames)].kind \in Loop
        /\ frames' = SubSeq(frames, 1, Len(frames) - 1)
        /\ labelBreak' = breakStore /\ breakStore' = breakStore
        /\ labelContinue' = continueStore /\ continueStore' = continueStore
    BY <1>10 DEF LeaveLoop, top, outer, JumpRestore
  <2>3. frames[Len(frames)].kind # "if"
    BY <2>2 DEF Loop
  <2>4. Nested(frames') /\ BreakKept(frames', breakStore, breakStore)
    BY <1>1, <2>2, <2>3, PopBreakable
  <2>5. ContinueKept(frames', continueStore, continueStore)
    BY <1>1, <2>2, PopLoop
  <2> QED
    BY <2>1, <2>2, <2>4, <2>5 DEF IInv
<1>11. CASE EnterSwitch
  <2> DEFINE f == Frame("switch", 0, 0, nextLabel + 1)
  <2>1. source' \in Seq(ItemType) /\ nextLabel' \in Nat
    BY <1>2, <1>3, <1>11 DEF EnterSwitch, Kind
  <2>2. /\ frames' = Append(frames, f) /\ nest < MaxNest
        /\ labelBreak' = nextLabel + 1 /\ breakStore' = labelBreak
        /\ labelContinue' = labelContinue /\ continueStore' = continueStore
    BY <1>11 DEF EnterSwitch
  <2>3. NestOf(frames) \in 0..1
    BY <1>1, <2>2, NestIs, NestRange, BoundsAssumption
  <2>4. f \in FrameType /\ f.kind = "switch" /\ f.nest = NestOf(frames) + 1
        /\ f.end = nextLabel + 1
    BY <1>1, <2>3, NestIs DEF Frame, FrameType, Kind
  <2> HIDE DEF f
  <2>5. Nested(frames') /\ BreakKept(frames', f.end, labelBreak)
    BY <1>1, <2>2, <2>4, PushBreakable
  <2>6. ContinueKept(frames', labelContinue, continueStore)
    BY <1>1, <2>2, <2>4, PushSwitch
  <2> QED
    BY <2>1, <2>2, <2>4, <2>5, <2>6 DEF IInv
<1>12. CASE LeaveSwitch
  <2>1. source' \in Seq(ItemType) /\ nextLabel' \in Nat
    BY <1>1, <1>2, <1>12 DEF LeaveSwitch
  <2>2. /\ frames # << >> /\ frames[Len(frames)].kind = "switch"
        /\ frames' = SubSeq(frames, 1, Len(frames) - 1)
        /\ labelBreak' = breakStore /\ breakStore' = breakStore
        /\ labelContinue' = labelContinue /\ continueStore' = continueStore
    BY <1>12 DEF LeaveSwitch, top, outer
  <2>3. Nested(frames') /\ BreakKept(frames', breakStore, breakStore)
    BY <1>1, <2>2, PopBreakable
  <2>4. ContinueKept(frames', labelContinue, continueStore)
    BY <1>1, <2>2, PopSwitch
  <2> QED
    BY <2>1, <2>2, <2>3, <2>4 DEF IInv
<1>13. ASSUME NEW v \in Values, Case(v) PROVE IInv'
  <2>1. v \in Nat
    BY BoundsAssumption
  <2> QED
    BY <1>2, <1>3, <1>13, <2>1, Idle DEF Case
<1>14. CASE Default
  BY <1>2, <1>3, <1>14, Idle DEF Default
<1>15. ASSUME NEW kind \in {"break", "continue"}, NEW label, Jump(kind, label) PROVE IInv'
  BY <1>1, <1>2, <1>15, Idle DEF Jump
<1>16. ASSUME NEW kind \in {"break", "continue", "case", "default"}, NEW label,
              Reject(kind, label)
       PROVE  IInv'
  BY <1>1, <1>2, <1>16, Idle DEF Reject
<1>17. CASE Finish
  BY <1>1, <1>17, Idle DEF Finish
<1> QED
  BY <1>4, <1>5, <1>6, <1>7, <1>8, <1>9, <1>10, <1>11, <1>12, <1>13, <1>14, <1>15, <1>16,
     <1>17 DEF Next, Break, Continue

\* No statement is open at the start.
LEMMA InitInvariant == Init => IInv
<1> SUFFICES ASSUME Init PROVE IInv
  OBVIOUS
<1>1. frames = << >> /\ Len(frames) = 0 /\ frames \in Seq(FrameType)
  BY DEF Init
<1>2. source \in Seq(ItemType) /\ nextLabel \in Nat
  BY DEF Init
<1> QED
  BY <1>1, <1>2 DEF IInv, Nested, BreakKept, ContinueKept

\* The inductive invariant holds for functions of any length with loops and
\* switches at most two deep (gen_amd64.c 45-55, 619-690).
THEOREM Invariance == ASSUME MaxNest <= 2 PROVE Spec => []IInv
<1>1. IInv /\ UNCHANGED vars => IInv'
  BY Idle DEF vars, jumps, IInv
<1>2. IInv /\ [Next]_vars => IInv'
  BY <1>1, StepPreserves
<1> QED
  BY <1>2, InitInvariant, PTL DEF Spec

\* The target of break is the end of the innermost loop or switch.
LEMMA BreakTarget ==
  ASSUME IInv, Enclosing(Breakable) # {}
  PROVE  /\ Largest(Enclosing(Breakable)) \in Enclosing(Breakable)
         /\ labelBreak = frames[Largest(Enclosing(Breakable))].end
<1>1. Nested(frames) /\ BreakKept(frames, labelBreak, breakStore)
  BY DEF IInv
<1>2. Enclosing(Breakable) = {i \in 1..Len(frames) : frames[i].kind # "if"}
  <2>1. \A i \in 1..Len(frames) : frames[i].kind \in Breakable <=> frames[i].kind # "if"
    BY <1>1, FrameOf DEF FrameType, Kind, Breakable, Loop
  <2> QED
    BY <2>1 DEF Enclosing
<1>3. PICK m \in Enclosing(Breakable) : \A i \in Enclosing(Breakable) : i <= m
  BY <1>1, <1>2, LastOne
<1>4. Largest(Enclosing(Breakable)) = m
  BY <1>2, <1>3 DEF Largest
<1>5. frames[m].nest = NestOf(frames)
  <2>1. /\ m \in 1..Len(frames) /\ frames[m].kind # "if" /\ Len(frames) \in 1..Len(frames)
        /\ frames # << >>
    BY <1>1, <1>2, EmptySeq DEF Nested
  <2>2. frames[m].nest >= 1 /\ frames[m].nest <= frames[Len(frames)].nest
    BY <1>1, <2>1 DEF Nested
  <2>3. frames[m].nest \in 0..2 /\ frames[Len(frames)].nest \in 0..2
    BY <1>1, <2>1, FrameOf
  <2>4. PICK i \in 1..Len(frames) : frames[i].kind # "if" /\ frames[i].nest = frames[Len(frames)].nest
    BY <1>1, <2>1, <2>2, <2>3 DEF Nested
  <2>5. i <= m
    BY <1>2, <1>3, <2>4
  <2>6. frames[i].nest <= frames[m].nest
    BY <1>1, <2>1, <2>5 DEF Nested
  <2> QED
    BY <2>1, <2>2, <2>3, <2>4, <2>6 DEF NestOf
<1> QED
  BY <1>1, <1>2, <1>3, <1>4, <1>5 DEF BreakKept

\* Every break leaves the innermost loop or switch around it.
THEOREM BreakCorrect == ASSUME MaxNest <= 2 PROVE Spec => []BreakLeavesInnermost
<1>1. IInv => BreakLeavesInnermost
  BY BreakTarget DEF BreakLeavesInnermost
<1> QED
  BY <1>1, Invariance, PTL

\* The target of continue is the step of the innermost loop.
LEMMA ContinueTarget ==
  ASSUME IInv, Enclosing(Loop) # {}
  PROVE  /\ Largest(Enclosing(Loop)) \in Enclosing(Loop)
         /\ labelContinue = frames[Largest(Enclosing(Loop))].step
<1>1. Nested(frames) /\ ContinueKept(frames, labelContinue, continueStore)
  BY DEF IInv
<1>2. Enclosing(Loop) = {i \in 1..Len(frames) : frames[i].kind \in Loop}
  BY DEF Enclosing
<1>3. PICK m \in Enclosing(Loop) : \A i \in Enclosing(Loop) : i <= m
  <2>1. \A i \in Enclosing(Loop) : frames[i].kind # "if"
    BY <1>2 DEF Loop
  <2> QED
    BY <1>1, <1>2, <2>1, LastOne
<1>4. Largest(Enclosing(Loop)) = m
  BY <1>2, <1>3 DEF Largest
<1> QED
  BY <1>1, <1>2, <1>3, <1>4 DEF ContinueKept

\* Every continue goes on with the innermost loop around it.
THEOREM ContinueCorrect == ASSUME MaxNest <= 2 PROVE Spec => []ContinueStaysInLoop
<1>1. IInv => ContinueStaysInLoop
  BY ContinueTarget DEF ContinueStaysInLoop
<1> QED
  BY <1>1, Invariance, PTL

-----------------------------------------------------------------------------
(* What is open: the frames are the statements of the source not yet ended. *)

Count(s, k, kinds) == Cardinality({i \in 1..k : s[i].kind \in kinds})

\* Count counts.
LEMMA CountNat ==
  ASSUME NEW s, NEW k \in Nat, NEW kinds
  PROVE  Count(s, k, kinds) \in Nat
<1>1. IsFiniteSet(1..k)
  BY FS_Interval
<1>2. IsFiniteSet({i \in 1..k : s[i].kind \in kinds})
  BY <1>1, FS_Subset
<1> QED
  BY <1>2, FS_CardinalityType DEF Count

\* One more item.
Longer(s, item, t) ==
  /\ Len(s) \in Nat /\ Len(t) = Len(s) + 1 /\ t[Len(s) + 1] = item
  /\ \A i \in 1..Len(s) : t[i] = s[i]

\* What it counts for.
LEMMA CountMore ==
  ASSUME NEW s, NEW item, NEW t, Longer(s, item, t), NEW kinds
  PROVE  /\ \A k \in 0..Len(s) : Count(t, k, kinds) = Count(s, k, kinds)
         /\ item.kind \in kinds => Count(t, Len(s) + 1, kinds) = Count(s, Len(s), kinds) + 1
         /\ item.kind \notin kinds => Count(t, Len(s) + 1, kinds) = Count(s, Len(s), kinds)
<1>1. /\ Len(s) \in Nat /\ Len(t) = Len(s) + 1 /\ t[Len(s) + 1] = item
      /\ \A i \in 1..Len(s) : t[i] = s[i]
  BY DEF Longer
<1>2. ASSUME NEW k \in 0..Len(s) PROVE Count(t, k, kinds) = Count(s, k, kinds)
  <2>1. {i \in 1..k : t[i].kind \in kinds} = {i \in 1..k : s[i].kind \in kinds}
    BY <1>1
  <2> QED
    BY <2>1 DEF Count
<1> DEFINE n == Len(s)
           C == {i \in 1..n : t[i].kind \in kinds}
           D == {i \in 1..(n + 1) : t[i].kind \in kinds}
<1>3. IsFiniteSet(C) /\ n + 1 \notin C
  <2>1. IsFiniteSet(1..n)
    BY <1>1, FS_Interval
  <2> QED
    BY <1>1, <2>1, FS_Subset
<1>5. Count(t, n, kinds) = Count(s, n, kinds)
  BY <1>1, <1>2
<1>6. ASSUME item.kind \in kinds PROVE Cardinality(D) = Cardinality(C) + 1
  <2>1. D = C \cup {n + 1}
    BY <1>1, <1>6
  <2> DEFINE x == n + 1
  <2> HIDE DEF C, D, x
  <2>2. IsFiniteSet(C) /\ x \notin C /\ D = C \cup {x}
    BY <1>3, <2>1 DEF x
  <2> QED
    BY <2>2, FS_AddElement
<1>7. ASSUME item.kind \notin kinds PROVE D = C
  BY <1>1, <1>7
<1> QED
  BY <1>2, <1>5, <1>6, <1>7 DEF Count

\* The balance of what opens and what ends, up to the k-th item of a source.
Depth(s, k) == Count(s, k, Kind) - Count(s, k, {"end"})
Closed(s, i, j) == Depth(s, j) = Depth(s, i) - 1

\* One more item of the body goes one level in, one out, or stays.
LEMMA DepthMore ==
  ASSUME NEW s, NEW item, NEW t, Longer(s, item, t)
  PROVE  /\ \A k \in 0..Len(s) : Depth(t, k) = Depth(s, k) /\ Depth(s, k) \in Int
         /\ item.kind \in Kind => Depth(t, Len(s) + 1) = Depth(s, Len(s)) + 1
         /\ item.kind = "end" => Depth(t, Len(s) + 1) = Depth(s, Len(s)) - 1
         /\ item.kind \notin Kind /\ item.kind # "end" => Depth(t, Len(s) + 1) = Depth(s, Len(s))
<1> DEFINE n == Len(s)
           ends == {"end"}
<1>1. n \in Nat
  BY DEF Longer
<1>2. ASSUME NEW kinds
      PROVE  /\ \A k \in 0..n : Count(t, k, kinds) = Count(s, k, kinds) /\ Count(s, k, kinds) \in Nat
             /\ item.kind \in kinds => Count(t, n + 1, kinds) = Count(s, n, kinds) + 1
             /\ item.kind \notin kinds => Count(t, n + 1, kinds) = Count(s, n, kinds)
  <2>1. \A k \in 0..n : Count(s, k, kinds) \in Nat
    BY <1>1, CountNat
  <2> QED
    BY <2>1, CountMore
<1>3. "end" \notin Kind
  BY DEF Kind, Loop
<1> HIDE DEF n
<1>4. /\ \A k \in 0..n : Count(t, k, Kind) = Count(s, k, Kind) /\ Count(s, k, Kind) \in Nat
      /\ item.kind \in Kind => Count(t, n + 1, Kind) = Count(s, n, Kind) + 1
      /\ item.kind \notin Kind => Count(t, n + 1, Kind) = Count(s, n, Kind)
  BY <1>2
<1>5. /\ \A k \in 0..n : Count(t, k, ends) = Count(s, k, ends) /\ Count(s, k, ends) \in Nat
      /\ item.kind = "end" => Count(t, n + 1, ends) = Count(s, n, ends) + 1
      /\ item.kind # "end" => Count(t, n + 1, ends) = Count(s, n, ends)
  <2> HIDE DEF ends
  <2>1. /\ \A k \in 0..n : Count(t, k, ends) = Count(s, k, ends) /\ Count(s, k, ends) \in Nat
        /\ item.kind \in ends => Count(t, n + 1, ends) = Count(s, n, ends) + 1
        /\ item.kind \notin ends => Count(t, n + 1, ends) = Count(s, n, ends)
    BY <1>2
  <2>2. item.kind \in ends <=> item.kind = "end"
    BY DEF ends
  <2> QED
    BY <2>1, <2>2
<1>6. \A q, k : Depth(q, k) = Count(q, k, Kind) - Count(q, k, ends)
  BY DEF Depth
<1> HIDE DEF ends
<1>7. \A k \in 0..n : Depth(t, k) = Depth(s, k) /\ Depth(s, k) \in Int
  BY <1>4, <1>5, <1>6
<1>8. n \in 0..n
  BY <1>1
<1>9. item.kind \in Kind => Depth(t, n + 1) = Depth(s, n) + 1
  BY <1>3, <1>4, <1>5, <1>6, <1>8
<1>10. item.kind = "end" => Depth(t, n + 1) = Depth(s, n) - 1
  BY <1>3, <1>4, <1>5, <1>6, <1>8
<1>11. item.kind \notin Kind /\ item.kind # "end" => Depth(t, n + 1) = Depth(s, n)
  BY <1>4, <1>5, <1>6, <1>8
<1> QED
  BY <1>7, <1>9, <1>10, <1>11 DEF n

\* The frames are what is open in the source, from the outermost on.
Balanced(s, fs) ==
  /\ Depth(s, Len(s)) = Len(fs)
  /\ \A f \in 1..Len(fs) : /\ fs[f].at \in 1..Len(s) /\ s[fs[f].at].kind = fs[f].kind
                           /\ Depth(s, fs[f].at) = f
  /\ \A i \in 1..Len(s) : s[i].kind \in Kind =>
       (\E f \in 1..Len(fs) : fs[f].at = i) \/ (\E j \in i..Len(s) : Closed(s, i, j))

\* An item that neither opens nor ends a statement leaves the open ones as they are.
LEMMA BalanceKept ==
  ASSUME NEW s, NEW item, NEW t, Longer(s, item, t),
         item.kind \notin Kind, item.kind # "end", NEW fs, NEW gs, Len(fs) \in Nat, Balanced(s, fs),
         Len(gs) = Len(fs), \A f \in 1..Len(fs) : gs[f].at = fs[f].at /\ gs[f].kind = fs[f].kind
  PROVE  Balanced(t, gs)
<1> DEFINE n == Len(s)
<1>1. /\ n \in Nat /\ Len(t) = n + 1 /\ t[n + 1] = item
      /\ \A i \in 1..n : t[i] = s[i]
      /\ \A k \in 0..n : Depth(t, k) = Depth(s, k) /\ Depth(s, k) \in Int
  BY DepthMore DEF Longer
<1>2. Depth(t, n + 1) = Depth(s, n)
  BY DepthMore
<1>b. /\ Depth(s, n) = Len(fs)
      /\ \A f \in 1..Len(fs) : /\ fs[f].at \in 1..n /\ s[fs[f].at].kind = fs[f].kind
                               /\ Depth(s, fs[f].at) = f
      /\ \A i \in 1..n : s[i].kind \in Kind =>
           (\E f \in 1..Len(fs) : fs[f].at = i) \/ (\E j \in i..n : Closed(s, i, j))
  BY DEF Balanced
<1> HIDE DEF n
<1>3. \A f \in 1..Len(gs) : /\ gs[f].at \in 1..(n + 1) /\ t[gs[f].at].kind = gs[f].kind
                            /\ Depth(t, gs[f].at) = f
  <2> SUFFICES ASSUME NEW f \in 1..Len(gs)
               PROVE  gs[f].at \in 1..(n + 1) /\ t[gs[f].at].kind = gs[f].kind /\ Depth(t, gs[f].at) = f
    OBVIOUS
  <2>1. f \in 1..Len(fs) /\ gs[f].at = fs[f].at /\ gs[f].kind = fs[f].kind
    OBVIOUS
  <2>2. /\ fs[f].at \in 1..n /\ s[fs[f].at].kind = fs[f].kind /\ Depth(s, fs[f].at) = f
    BY <1>b, <2>1
  <2>3. fs[f].at \in 0..n /\ fs[f].at \in 1..(n + 1)
    BY <1>1, <2>2
  <2>4. t[fs[f].at] = s[fs[f].at] /\ Depth(t, fs[f].at) = Depth(s, fs[f].at)
    BY <1>1, <2>2, <2>3
  <2> QED
    BY <2>1, <2>2, <2>3, <2>4
<1>4. \A i \in 1..n, j \in 1..n : Closed(s, i, j) => Closed(t, i, j)
  BY <1>1 DEF Closed
<1>5. ASSUME NEW i \in 1..(n + 1), t[i].kind \in Kind
      PROVE  (\E f \in 1..Len(gs) : gs[f].at = i) \/ (\E j \in i..(n + 1) : Closed(t, i, j))
  <2>1. i \in 1..n /\ s[i].kind \in Kind
    BY <1>1, <1>5
  <2>2. CASE \E f \in 1..Len(fs) : fs[f].at = i
    BY <2>2
  <2>3. CASE \E j \in i..n : Closed(s, i, j)
    <3>1. PICK j \in i..n : Closed(s, i, j)
      BY <2>3
    <3>2. j \in 1..n /\ j \in i..(n + 1)
      BY <1>1, <2>1
    <3> QED
      BY <1>4, <2>1, <3>1, <3>2
  <2> QED
    BY <1>b, <2>1, <2>2, <2>3
<1> QED
  BY <1>1, <1>2, <1>3, <1>5, <1>b DEF Balanced

\* An item that opens a statement is the last of the open ones.
LEMMA BalanceOpened ==
  ASSUME NEW s, NEW item, NEW t, Longer(s, item, t),
         item.kind \in Kind, NEW fs, NEW gs, Len(fs) \in Nat, Balanced(s, fs),
         Len(gs) = Len(fs) + 1, \A f \in 1..Len(fs) : gs[f] = fs[f],
         gs[Len(gs)].at = Len(s) + 1, gs[Len(gs)].kind = item.kind
  PROVE  Balanced(t, gs)
<1> DEFINE n == Len(s)
<1>1. /\ n \in Nat /\ Len(t) = n + 1 /\ t[n + 1] = item
      /\ \A i \in 1..n : t[i] = s[i]
      /\ \A k \in 0..n : Depth(t, k) = Depth(s, k) /\ Depth(s, k) \in Int
  <2>1. \A k \in 0..n : Depth(t, k) = Depth(s, k) /\ Depth(s, k) \in Int
    BY DepthMore
  <2> QED
    BY <2>1 DEF Longer
<1>2. Depth(t, n + 1) = Depth(s, n) + 1
  BY DepthMore
<1>b. /\ Depth(s, n) = Len(fs)
      /\ \A f \in 1..Len(fs) : /\ fs[f].at \in 1..n /\ s[fs[f].at].kind = fs[f].kind
                               /\ Depth(s, fs[f].at) = f
      /\ \A i \in 1..n : s[i].kind \in Kind =>
           (\E f \in 1..Len(fs) : fs[f].at = i) \/ (\E j \in i..n : Closed(s, i, j))
  BY DEF Balanced
<1>h. gs[Len(gs)].at = n + 1
  OBVIOUS
<1> HIDE DEF n
<1>g. \A f \in 1..Len(gs) : (f \in 1..Len(fs) /\ gs[f] = fs[f]) \/ f = Len(gs)
  OBVIOUS
<1>k. gs[Len(gs)].kind = item.kind /\ Len(gs) = Len(fs) + 1
  OBVIOUS
<1>3. \A f \in 1..Len(gs) : /\ gs[f].at \in 1..(n + 1) /\ t[gs[f].at].kind = gs[f].kind
                            /\ Depth(t, gs[f].at) = f
  <2> SUFFICES ASSUME NEW f \in 1..Len(gs)
               PROVE  gs[f].at \in 1..(n + 1) /\ t[gs[f].at].kind = gs[f].kind /\ Depth(t, gs[f].at) = f
    OBVIOUS
  <2>c. CASE f \in 1..Len(fs) /\ gs[f] = fs[f]
    <3>1. f \in 1..Len(fs) /\ gs[f].at = fs[f].at /\ gs[f].kind = fs[f].kind
      BY <2>c
    <3>2. /\ fs[f].at \in 1..n /\ s[fs[f].at].kind = fs[f].kind /\ Depth(s, fs[f].at) = f
      BY <1>b, <3>1
    <3>3. fs[f].at \in 0..n /\ fs[f].at \in 1..(n + 1)
      BY <1>1, <3>2
    <3>4. t[fs[f].at] = s[fs[f].at] /\ Depth(t, fs[f].at) = Depth(s, fs[f].at)
      BY <1>1, <3>2, <3>3
    <3> QED
      BY <3>1, <3>2, <3>3, <3>4
  <2>d. CASE f = Len(gs)
    <3>1. gs[f].at = n + 1 /\ gs[f].kind = item.kind
      BY <1>h, <1>k, <2>d
    <3>2. Depth(t, n + 1) = f
      BY <1>2, <1>b, <1>k, <2>d
    <3> QED
      BY <1>1, <3>1, <3>2
  <2> QED
    BY <1>g, <2>c, <2>d
<1>4. \A i \in 1..n, j \in 1..n : Closed(s, i, j) => Closed(t, i, j)
  BY <1>1 DEF Closed
<1>5. ASSUME NEW i \in 1..(n + 1), t[i].kind \in Kind
      PROVE  (\E f \in 1..Len(gs) : gs[f].at = i) \/ (\E j \in i..(n + 1) : Closed(t, i, j))
  <2>1. CASE i = n + 1
    <3>1. Len(gs) \in 1..Len(gs)
      OBVIOUS
    <3> QED
      BY <1>h, <2>1, <3>1
  <2>2. CASE i \in 1..n
    <3>1. s[i].kind \in Kind
      BY <1>1, <1>5, <2>2
    <3>2. CASE \E f \in 1..Len(fs) : fs[f].at = i
      <4>1. PICK f \in 1..Len(fs) : fs[f].at = i
        BY <3>2
      <4>2. f \in 1..Len(gs) /\ gs[f].at = i
        BY <4>1
      <4> QED
        BY <4>2
    <3>3. CASE \E j \in i..n : Closed(s, i, j)
      <4>1. PICK j \in i..n : Closed(s, i, j)
        BY <3>3
      <4>2. j \in 1..n /\ j \in i..(n + 1)
        BY <1>1, <2>2
      <4> QED
        BY <1>4, <2>2, <4>1, <4>2
    <3> QED
      BY <1>b, <2>2, <3>1, <3>2, <3>3
  <2> QED
    BY <1>1, <2>1, <2>2
<1>6. Depth(t, n + 1) = Len(gs)
  BY <1>2, <1>b
<1> QED
  BY <1>1, <1>3, <1>5, <1>6 DEF Balanced

\* An end ends the innermost statement.
LEMMA BalanceEnded ==
  ASSUME NEW s, NEW item, NEW t, Longer(s, item, t),
         item.kind = "end", NEW fs, NEW gs, Len(fs) \in Nat, Len(fs) > 0, Balanced(s, fs),
         Len(gs) = Len(fs) - 1, \A f \in 1..Len(gs) : gs[f] = fs[f]
  PROVE  Balanced(t, gs)
<1> DEFINE n == Len(s)
<1>e. item.kind \notin Kind
  BY DEF Kind, Loop
<1>1. /\ n \in Nat /\ Len(t) = n + 1 /\ t[n + 1] = item
      /\ \A i \in 1..n : t[i] = s[i]
      /\ \A k \in 0..n : Depth(t, k) = Depth(s, k) /\ Depth(s, k) \in Int
  BY DepthMore DEF Longer
<1>2. Depth(t, n + 1) = Depth(s, n) - 1
  BY <1>e, DepthMore
<1>b. /\ Depth(s, n) = Len(fs)
      /\ \A f \in 1..Len(fs) : /\ fs[f].at \in 1..n /\ s[fs[f].at].kind = fs[f].kind
                               /\ Depth(s, fs[f].at) = f
      /\ \A i \in 1..n : s[i].kind \in Kind =>
           (\E f \in 1..Len(fs) : fs[f].at = i) \/ (\E j \in i..n : Closed(s, i, j))
  BY DEF Balanced
<1> HIDE DEF n
<1>g. \A f \in 1..Len(fs) : (f \in 1..Len(gs) /\ gs[f] = fs[f]) \/ f = Len(fs)
  OBVIOUS
<1>3. \A f \in 1..Len(gs) : /\ gs[f].at \in 1..(n + 1) /\ t[gs[f].at].kind = gs[f].kind
                            /\ Depth(t, gs[f].at) = f
  <2> SUFFICES ASSUME NEW f \in 1..Len(gs)
               PROVE  gs[f].at \in 1..(n + 1) /\ t[gs[f].at].kind = gs[f].kind /\ Depth(t, gs[f].at) = f
    OBVIOUS
  <2>1. f \in 1..Len(fs) /\ gs[f].at = fs[f].at /\ gs[f].kind = fs[f].kind
    <3>1. f \in 1..Len(fs) /\ gs[f] = fs[f]
      OBVIOUS
    <3> QED
      BY <3>1
  <2>2. /\ fs[f].at \in 1..n /\ s[fs[f].at].kind = fs[f].kind /\ Depth(s, fs[f].at) = f
    BY <1>b, <2>1
  <2>3. fs[f].at \in 0..n /\ fs[f].at \in 1..(n + 1)
    BY <1>1, <2>2
  <2>4. t[fs[f].at] = s[fs[f].at] /\ Depth(t, fs[f].at) = Depth(s, fs[f].at)
    BY <1>1, <2>2, <2>3
  <2> QED
    BY <2>1, <2>2, <2>3, <2>4
<1>4. \A i \in 1..n, j \in 1..n : Closed(s, i, j) => Closed(t, i, j)
  BY <1>1 DEF Closed
<1>5. ASSUME NEW i \in 1..(n + 1), t[i].kind \in Kind
      PROVE  (\E f \in 1..Len(gs) : gs[f].at = i) \/ (\E j \in i..(n + 1) : Closed(t, i, j))
  <2>1. i \in 1..n /\ s[i].kind \in Kind
    BY <1>1, <1>5, <1>e
  <2>2. CASE \E f \in 1..Len(fs) : fs[f].at = i
    <3>1. PICK f \in 1..Len(fs) : fs[f].at = i
      BY <2>2
    <3>2. CASE f \in 1..Len(gs) /\ gs[f] = fs[f]
      BY <3>1, <3>2
    <3>3. CASE f = Len(fs)
      <4>1. Depth(t, i) = Len(fs) /\ Depth(t, n + 1) = Len(fs) - 1
        BY <1>1, <1>2, <1>b, <2>1, <3>1, <3>3
      <4>2. Closed(t, i, n + 1) /\ n + 1 \in i..(n + 1)
        BY <1>1, <2>1, <4>1 DEF Closed
      <4> QED
        BY <4>2
    <3> QED
      BY <1>g, <3>2, <3>3
  <2>3. CASE \E j \in i..n : Closed(s, i, j)
    <3>1. PICK j \in i..n : Closed(s, i, j)
      BY <2>3
    <3>2. j \in 1..n /\ j \in i..(n + 1)
      BY <1>1, <2>1
    <3> QED
      BY <1>4, <2>1, <3>1, <3>2
  <2> QED
    BY <1>b, <2>1, <2>2, <2>3
<1>6. Depth(t, n + 1) = Len(gs)
  BY <1>2, <1>b
<1> QED
  BY <1>1, <1>3, <1>5, <1>6 DEF Balanced

-----------------------------------------------------------------------------
(* Where a break, a continue or a case stands: EndOf and Around of any      *)
(* source.                                                                  *)

Ends(s, i) == {j \in i..Len(s) : Closed(s, i, j)} \cup {Len(s) + 1}
End(s, i)  == Least(Ends(s, i))
Inside(s, p, kinds) == {i \in 1..(p - 1) : s[i].kind \in kinds /\ p <= End(s, i)}

Placed(s) == \A i \in 1..Len(s) :
  /\ s[i].kind = "break" => Inside(s, i, Breakable) # {}
  /\ s[i].kind = "continue" => Inside(s, i, Loop) # {}
  /\ s[i].kind \in {"case", "default"} => Inside(s, i, {"switch"}) # {}

\* End is the first of the ends.
LEMMA EndIs ==
  ASSUME NEW s, Len(s) \in Nat, NEW i \in 1..Len(s)
  PROVE  End(s, i) \in Ends(s, i) /\ \A j \in Ends(s, i) : End(s, i) <= j
<1>1. Ends(s, i) \in SUBSET Nat /\ Ends(s, i) # {}
  BY DEF Ends
<1>2. PICK x \in Ends(s, i) : \A y \in Ends(s, i) : x <= y
  BY <1>1, LeastNat
<1> DEFINE T == Ends(s, i)
<1>3. Least(T) \in T /\ \A y \in T : Least(T) <= y
  <2> HIDE DEF T
  <2>1. T \in SUBSET Nat /\ x \in T /\ \A y \in T : x <= y
    BY <1>1, <1>2 DEF T
  <2> QED
    BY <2>1 DEF Least
<1> QED
  BY <1>3 DEF End

\* What lies within a statement lies within it when the body has grown.
LEMMA EndBefore ==
  ASSUME NEW s, NEW item, NEW t, Longer(s, item, t), NEW i \in 1..Len(s), NEW p \in 1..Len(s),
         p <= End(t, i)
  PROVE  p <= End(s, i)
<1>1. Len(s) \in Nat /\ Len(t) = Len(s) + 1 /\ i \in 1..Len(t)
  BY DEF Longer
<1>2. \A k \in 0..Len(s) : Depth(t, k) = Depth(s, k)
  BY DepthMore
<1>3. End(s, i) \in Ends(s, i)
  BY <1>1, EndIs
<1>4. \A j \in Ends(t, i) : End(t, i) <= j
  BY <1>1, EndIs
<1>5. End(t, i) \in Nat
  <2>1. End(t, i) \in Ends(t, i)
    BY <1>1, EndIs
  <2> QED
    BY <1>1, <2>1 DEF Ends
<1>6. CASE End(s, i) \in i..Len(s) /\ Closed(s, i, End(s, i))
  <2> DEFINE j == End(s, i)
  <2>1. Closed(t, i, j)
    <3>1. i \in 0..Len(s) /\ j \in 0..Len(s)
      BY <1>1, <1>6
    <3> QED
      BY <1>2, <1>6, <3>1 DEF Closed
  <2>2. j \in Ends(t, i)
    BY <1>1, <1>6, <2>1 DEF Ends
  <2>3. End(t, i) <= j
    BY <1>4, <2>2
  <2> QED
    BY <1>1, <1>5, <1>6, <2>3
<1>7. CASE End(s, i) = Len(s) + 1
  BY <1>1, <1>7
<1> QED
  BY <1>3, <1>6, <1>7 DEF Ends

\* What is well placed was so all along.
LEMMA PlacedBefore ==
  ASSUME NEW s, NEW item, NEW t, Longer(s, item, t), Placed(t)
  PROVE  Placed(s)
<1>1. /\ Len(s) \in Nat /\ Len(t) = Len(s) + 1
      /\ \A i \in 1..Len(s) : t[i] = s[i]
  BY DEF Longer
<1>2. ASSUME NEW p \in 1..Len(s), NEW kinds, Inside(t, p, kinds) # {} PROVE Inside(s, p, kinds) # {}
  <2>1. PICK i \in 1..(p - 1) : t[i].kind \in kinds /\ p <= End(t, i)
    BY <1>2 DEF Inside
  <2>2. i \in 1..Len(s)
    BY <1>1
  <2>3. p <= End(s, i)
    BY <2>1, <2>2, EndBefore
  <2>4. i \in Inside(s, p, kinds)
    BY <1>1, <2>1, <2>2, <2>3 DEF Inside
  <2> QED
    BY <2>4
<1>3. ASSUME NEW p \in 1..Len(s)
      PROVE  /\ s[p].kind = "break" => Inside(t, p, Breakable) # {}
             /\ s[p].kind = "continue" => Inside(t, p, Loop) # {}
             /\ s[p].kind \in {"case", "default"} => Inside(t, p, {"switch"}) # {}
  <2>1. p \in 1..Len(t) /\ t[p] = s[p]
    BY <1>1
  <2> QED
    BY <2>1 DEF Placed
<1> QED
  BY <1>2, <1>3 DEF Placed

\* What stands inside a statement now is read in a call for that statement.
LEMMA InsideIsOpen ==
  ASSUME NEW s, NEW item, NEW t, Longer(s, item, t), NEW fs, Balanced(s, fs),
         NEW kinds \in SUBSET Kind, Inside(t, Len(s) + 1, kinds) # {}
  PROVE  \E f \in 1..Len(fs) : fs[f].kind \in kinds
<1>1. /\ Len(s) \in Nat /\ Len(t) = Len(s) + 1
      /\ \A i \in 1..Len(s) : t[i] = s[i]
  BY DEF Longer
<1>2. PICK i \in 1..Len(s) : t[i].kind \in kinds /\ Len(s) + 1 <= End(t, i)
  BY <1>1 DEF Inside
<1>3. s[i].kind \in kinds /\ s[i].kind \in Kind
  BY <1>1, <1>2
<1>4. ASSUME NEW j \in i..Len(s), Closed(s, i, j) PROVE FALSE
  <2>1. i \in 0..Len(s) /\ j \in 0..Len(s)
    BY <1>1
  <2>2. Closed(t, i, j)
    BY <1>4, <2>1, DepthMore DEF Closed
  <2>3. j \in Ends(t, i) /\ i \in 1..Len(t)
    BY <1>1, <2>2 DEF Ends
  <2>4. End(t, i) <= j
    BY <1>1, <2>3, EndIs
  <2>5. End(t, i) \in Nat
    <3>1. End(t, i) \in Ends(t, i)
      BY <1>1, <2>3, EndIs
    <3> QED
      BY <1>1, <3>1 DEF Ends
  <2> QED
    BY <1>1, <1>2, <2>1, <2>4, <2>5
<1>5. PICK f \in 1..Len(fs) : fs[f].at = i
  BY <1>3, <1>4 DEF Balanced
<1>6. s[fs[f].at].kind = fs[f].kind
  BY DEF Balanced
<1> QED
  BY <1>3, <1>5, <1>6

\* Valid asks for more than that.
LEMMA ValidPlaced ==
  ASSUME Len(source) \in Nat, Valid
  PROVE  Placed(source)
<1>1. ASSUME NEW i \in Items PROVE EndOf(i) = End(source, i)
  <2> DEFINE S == {j \in i..Len(source) : OpenedBy(j) - OpenedBy(i) + 1 = ClosedBy(j) - ClosedBy(i)}
             T == {j \in i..Len(source) : Closed(source, i, j)}
  <2>1. ASSUME NEW j \in i..Len(source)
        PROVE  OpenedBy(j) - OpenedBy(i) + 1 = ClosedBy(j) - ClosedBy(i) <=> Closed(source, i, j)
    <3>1. i \in Nat /\ j \in Nat
      BY DEF Items
    <3>2. \A k : OpenedBy(k) = Count(source, k, Kind) /\ ClosedBy(k) = Count(source, k, {"end"})
      BY DEF OpenedBy, ClosedBy, Is, Count
    <3>3. \A kinds : Count(source, i, kinds) \in Nat /\ Count(source, j, kinds) \in Nat
      BY <3>1, CountNat
    <3> QED
      BY <3>2, <3>3 DEF Closed, Depth
  <2>2. S = T
    BY <2>1
  <2>3. EndOf(i) = Least(S \cup {Len(source) + 1}) /\ End(source, i) = Least(T \cup {Len(source) + 1})
    BY DEF EndOf, End, Ends
  <2> QED
    BY <2>2, <2>3
<1>2. \A p \in Items : \A kinds : Around(p, kinds) = Inside(source, p, kinds)
  <2> SUFFICES ASSUME NEW p \in Items, NEW kinds PROVE Around(p, kinds) = Inside(source, p, kinds)
    OBVIOUS
  <2>1. \A i \in 1..(p - 1) : i \in Items
    BY DEF Items
  <2> QED
    BY <1>1, <2>1 DEF Around, Inside, Is
<1> QED
  BY <1>2 DEF Valid, Placed, Items, Is

Parts == {"value", "return", "cond", "init", "step"}
Instruction == [op : {"do"}, at : Nat, part : Parts] \cup [op : {"label", "jmp", "je"}, to : Nat]
                 \cup [op : {"jne"}, value : Nat, to : Nat]

Wrote(c, l) == \E q \in 1..Len(c) : c[q] = Label(l)
Leads(c, l) == \E q \in 1..Len(c) : c[q].op \in {"jmp", "je", "jne"} /\ c[q].to = l
Once(c)     == \A l : \A q, r \in 1..Len(c) : c[q] = Label(l) /\ c[r] = Label(l) => q = r

\* What some code writes and jumps to.
Writes(c, W, J) ==
  /\ c \in Seq(Instruction) /\ Once(c)
  /\ \A l : (Wrote(c, l) <=> l \in W) /\ (Leads(c, l) <=> l \in J)

\* Code emitted after other code.
LEMMA Emitted ==
  ASSUME NEW c \in Seq(Instruction), NEW d \in Seq(Instruction),
         NEW e, e = c \o d
  PROVE  /\ e \in Seq(Instruction)
         /\ \A l : Wrote(e, l) <=> Wrote(c, l) \/ Wrote(d, l)
         /\ \A l : Leads(e, l) <=> Leads(c, l) \/ Leads(d, l)
         /\ Once(c) /\ Once(d) /\ (\A l : ~(Wrote(c, l) /\ Wrote(d, l))) => Once(e)
<1> DEFINE n == Len(c)
           m == Len(d)
<1>1. n \in Nat /\ m \in Nat /\ e \in Seq(Instruction) /\ Len(e) = n + m
  BY ConcatProperties, LenProperties
<1>2. \A i \in 1..(n + m) : e[i] = IF i <= n THEN c[i] ELSE d[i - n]
  BY ConcatProperties
<1> HIDE DEF n, m
<1>3. /\ \A i \in 1..n : i \in 1..(n + m) /\ e[i] = c[i]
      /\ \A i \in 1..m : n + i \in 1..(n + m) /\ e[n + i] = d[i]
      /\ \A i \in 1..(n + m) : (i \in 1..n /\ e[i] = c[i]) \/ (i - n \in 1..m /\ e[i] = d[i - n])
  <2>1. ASSUME NEW i \in 1..n PROVE i \in 1..(n + m) /\ e[i] = c[i]
    <3>1. i \in 1..(n + m) /\ i <= n
      BY <1>1
    <3> QED
      BY <1>2, <3>1
  <2>2. ASSUME NEW i \in 1..m PROVE n + i \in 1..(n + m) /\ e[n + i] = d[i]
    <3>1. n + i \in 1..(n + m) /\ ~(n + i <= n) /\ (n + i) - n = i
      BY <1>1
    <3> QED
      BY <1>2, <3>1
  <2>3. ASSUME NEW i \in 1..(n + m)
        PROVE  (i \in 1..n /\ e[i] = c[i]) \/ (i - n \in 1..m /\ e[i] = d[i - n])
    <3>1. (i \in 1..n /\ i <= n) \/ (i - n \in 1..m /\ ~(i <= n))
      BY <1>1
    <3> QED
      BY <1>2, <3>1
  <2> QED
    BY <2>1, <2>2, <2>3
<1>4. /\ \A l : Wrote(c, l) <=> \E q \in 1..n : c[q] = Label(l)
      /\ \A l : Wrote(d, l) <=> \E q \in 1..m : d[q] = Label(l)
      /\ \A l : Wrote(e, l) <=> \E q \in 1..(n + m) : e[q] = Label(l)
  <2>1. Len(c) = n /\ Len(d) = m /\ Len(e) = n + m
    BY <1>1 DEF n, m
  <2>2. /\ \A l : Wrote(c, l) <=> \E q \in 1..Len(c) : c[q] = Label(l)
        /\ \A l : Wrote(d, l) <=> \E q \in 1..Len(d) : d[q] = Label(l)
        /\ \A l : Wrote(e, l) <=> \E q \in 1..Len(e) : e[q] = Label(l)
    BY ONLY DEF Wrote
  <2> QED
    BY <2>1, <2>2
<1>5. \A l : Wrote(e, l) <=> Wrote(c, l) \/ Wrote(d, l)
  <2>1. ASSUME NEW l, Wrote(c, l) PROVE Wrote(e, l)
    <3>1. PICK q \in 1..n : c[q] = Label(l)
      BY <1>4, <2>1
    <3>2. q \in 1..(n + m) /\ e[q] = Label(l)
      BY <1>3, <3>1
    <3> QED
      BY <1>4, <3>2
  <2>2. ASSUME NEW l, Wrote(d, l) PROVE Wrote(e, l)
    <3>1. PICK q \in 1..m : d[q] = Label(l)
      BY <1>4, <2>2
    <3>2. n + q \in 1..(n + m) /\ e[n + q] = Label(l)
      BY <1>3, <3>1
    <3> QED
      BY <1>4, <3>2
  <2>3. ASSUME NEW l, Wrote(e, l) PROVE Wrote(c, l) \/ Wrote(d, l)
    <3>1. PICK q \in 1..(n + m) : e[q] = Label(l)
      BY <1>4, <2>3
    <3>2. (q \in 1..n /\ c[q] = Label(l)) \/ (q - n \in 1..m /\ d[q - n] = Label(l))
      BY <1>3, <3>1
    <3> QED
      BY <1>4, <3>2
  <2> QED
    BY <2>1, <2>2, <2>3
<1>6. \A l : Leads(e, l) <=> Leads(c, l) \/ Leads(d, l)
  <2>1. /\ \A l : Leads(c, l) <=> \E q \in 1..n : c[q].op \in {"jmp", "je", "jne"} /\ c[q].to = l
        /\ \A l : Leads(d, l) <=> \E q \in 1..m : d[q].op \in {"jmp", "je", "jne"} /\ d[q].to = l
        /\ \A l : Leads(e, l) <=> \E q \in 1..(n + m) : e[q].op \in {"jmp", "je", "jne"} /\ e[q].to = l
    BY <1>1 DEF Leads, n, m
  <2>2. ASSUME NEW l, Leads(c, l) PROVE Leads(e, l)
    <3>1. PICK q \in 1..n : c[q].op \in {"jmp", "je", "jne"} /\ c[q].to = l
      BY <2>1, <2>2
    <3>2. q \in 1..(n + m) /\ e[q] = c[q]
      BY <1>3, <3>1
    <3> QED
      BY <2>1, <3>1, <3>2
  <2>3. ASSUME NEW l, Leads(d, l) PROVE Leads(e, l)
    <3>1. PICK q \in 1..m : d[q].op \in {"jmp", "je", "jne"} /\ d[q].to = l
      BY <2>1, <2>3
    <3>2. n + q \in 1..(n + m) /\ e[n + q] = d[q]
      BY <1>3, <3>1
    <3> QED
      BY <2>1, <3>1, <3>2
  <2>4. ASSUME NEW l, Leads(e, l) PROVE Leads(c, l) \/ Leads(d, l)
    <3>1. PICK q \in 1..(n + m) : e[q].op \in {"jmp", "je", "jne"} /\ e[q].to = l
      BY <2>1, <2>4
    <3>2. (q \in 1..n /\ e[q] = c[q]) \/ (q - n \in 1..m /\ e[q] = d[q - n])
      BY <1>3, <3>1
    <3> QED
      BY <2>1, <3>1, <3>2
  <2> QED
    BY <2>2, <2>3, <2>4
<1>7. ASSUME Once(c), Once(d), \A l : ~(Wrote(c, l) /\ Wrote(d, l)) PROVE Once(e)
  <2>1. SUFFICES ASSUME NEW l, NEW q \in 1..(n + m), NEW r \in 1..(n + m), e[q] = Label(l), e[r] = Label(l)
                 PROVE  q = r
    BY <1>1 DEF Once, n, m
  <2>2. \A i, j \in 1..n : c[i] = Label(l) /\ c[j] = Label(l) => i = j
    BY <1>7 DEF Once, n
  <2>3. \A i, j \in 1..m : d[i] = Label(l) /\ d[j] = Label(l) => i = j
    BY <1>7 DEF Once, m
  <2>4. ~((\E i \in 1..n : c[i] = Label(l)) /\ (\E i \in 1..m : d[i] = Label(l)))
    BY <1>4, <1>7
  <2>5. (q \in 1..n /\ c[q] = Label(l)) \/ (q - n \in 1..m /\ d[q - n] = Label(l))
    BY <1>3, <2>1
  <2>6. (r \in 1..n /\ c[r] = Label(l)) \/ (r - n \in 1..m /\ d[r - n] = Label(l))
    BY <1>3, <2>1
  <2>7. CASE q \in 1..n /\ c[q] = Label(l)
    BY <2>2, <2>4, <2>6, <2>7
  <2>8. CASE q - n \in 1..m /\ d[q - n] = Label(l)
    <3>1. r - n \in 1..m /\ d[r - n] = Label(l)
      BY <2>4, <2>6, <2>8
    <3>2. q - n = r - n
      BY <2>3, <2>8, <3>1
    <3> QED
      BY <1>1, <3>2
  <2> QED
    BY <2>5, <2>7, <2>8
<1> QED
  BY <1>1, <1>5, <1>6, <1>7

\* Code after code writes the labels of both and jumps to those of both.
LEMMA WritesBoth ==
  ASSUME NEW c, NEW d, NEW V, NEW W, NEW J, NEW K, Writes(c, V, J), Writes(d, W, K), V \cap W = {}
  PROVE  Writes(c \o d, V \cup W, J \cup K)
<1>1. /\ c \in Seq(Instruction) /\ Once(c) /\ d \in Seq(Instruction) /\ Once(d)
      /\ \A l : (Wrote(c, l) <=> l \in V) /\ (Leads(c, l) <=> l \in J)
      /\ \A l : (Wrote(d, l) <=> l \in W) /\ (Leads(d, l) <=> l \in K)
  BY DEF Writes
<1> DEFINE e == c \o d
<1>2. /\ e \in Seq(Instruction)
      /\ \A l : Wrote(e, l) <=> Wrote(c, l) \/ Wrote(d, l)
      /\ \A l : Leads(e, l) <=> Leads(c, l) \/ Leads(d, l)
      /\ Once(c) /\ Once(d) /\ (\A l : ~(Wrote(c, l) /\ Wrote(d, l))) => Once(e)
  <2> HIDE DEF e
  <2>1. e = c \o d
    BY DEF e
  <2> QED
    BY <1>1, <2>1, Emitted
<1> HIDE DEF e
<1>3. Writes(e, V \cup W, J \cup K)
  BY <1>1, <1>2 DEF Writes
<1> QED
  BY <1>3 DEF e

\* One instruction.
LEMMA WritesOne ==
  ASSUME NEW i \in Instruction, NEW W, NEW J,
         \A l : (i = Label(l) <=> l \in W) /\ (i.op \in {"jmp", "je", "jne"} /\ i.to = l <=> l \in J)
  PROVE  Writes(<<i>>, W, J)
<1>1. <<i>> \in Seq(Instruction) /\ Len(<<i>>) = 1 /\ <<i>>[1] = i
  OBVIOUS
<1> QED
  BY <1>1 DEF Writes, Once, Wrote, Leads

\* A part of a statement writes no label.
LEMMA WritesDo ==
  ASSUME NEW i \in Nat, NEW part \in Parts
  PROVE  Writes(<<Do(i, part)>>, {}, {})
<1> DEFINE d == Do(i, part)
<1>1. d \in Instruction /\ d.op = "do"
  BY DEF Do, Instruction
<1>2. \A l : Label(l).op = "label"
  BY DEF Label
<1> HIDE DEF d
<1>3. \A l : (d = Label(l) <=> l \in {}) /\ (d.op \in {"jmp", "je", "jne"} /\ d.to = l <=> l \in {})
  BY <1>1, <1>2
<1>4. Writes(<<d>>, {}, {})
  BY <1>1, <1>3, WritesOne
<1> QED
  BY <1>4 DEF d

\* A label writes itself.
LEMMA WritesLabel ==
  ASSUME NEW a \in Nat
  PROVE  Writes(<<Label(a)>>, {a}, {})
<1> DEFINE d == Label(a)
<1>1. d \in Instruction /\ d.op = "label"
  BY DEF Label, Instruction
<1>2. \A l : d = Label(l) <=> l = a
  <2>1. \A l : Label(l).to = l
    BY DEF Label
  <2> QED
    BY <2>1
<1> HIDE DEF d
<1>3. \A l : (d = Label(l) <=> l \in {a}) /\ (d.op \in {"jmp", "je", "jne"} /\ d.to = l <=> l \in {})
  BY <1>1, <1>2
<1>4. Writes(<<d>>, {a}, {})
  BY <1>1, <1>3, WritesOne
<1> QED
  BY <1>4 DEF d

\* A jump, conditional or not, jumps to its label and writes none.
LEMMA WritesJump ==
  ASSUME NEW a \in Nat, NEW d, d = Jmp(a) \/ d = Je(a) \/ \E v \in Nat : d = CmpJne(v, a)
  PROVE  Writes(<<d>>, {}, {a})
<1>1. d \in Instruction /\ d.op \in {"jmp", "je", "jne"} /\ d.to = a
  BY DEF Jmp, Je, CmpJne, Instruction
<1>2. \A l : Label(l).op = "label"
  BY DEF Label
<1>3. \A l : (d = Label(l) <=> l \in {}) /\ (d.op \in {"jmp", "je", "jne"} /\ d.to = l <=> l \in {a})
  BY <1>1, <1>2
<1> QED
  BY <1>1, <1>3, WritesOne

\* Two instructions are one after one.
LEMMA WritesTwo ==
  ASSUME NEW a, NEW b, NEW V, NEW W, NEW J, NEW K,
         Writes(<<a>>, V, J), Writes(<<b>>, W, K), V \cap W = {}
  PROVE  Writes(<<a, b>>, V \cup W, J \cup K)
<1>1. Writes(<<a>> \o <<b>>, V \cup W, J \cup K)
  BY WritesBoth
<1>2. <<a>> \o <<b>> = <<a, b>>
  <2> DEFINE S == {a, b}
             c == <<a>> \o <<b>>
             d == <<a, b>>
  <2>1. <<a>> \in Seq(S) /\ <<b>> \in Seq(S) /\ d \in Seq(S)
    OBVIOUS
  <2>2. Len(<<a>>) = 1 /\ Len(<<b>>) = 1 /\ Len(d) = 2
    OBVIOUS
  <2>3. /\ c \in Seq(S) /\ Len(c) = 2
        /\ \A i \in 1..2 : c[i] = IF i <= 1 THEN <<a>>[i] ELSE <<b>>[i - 1]
    BY <2>1, <2>2, ConcatProperties
  <2>4. \A i \in 1..2 : c[i] = d[i]
    <3>1. /\ <<a>>[1] = a /\ <<b>>[1] = b /\ d[1] = a /\ d[2] = b
      OBVIOUS
    <3>2. c[1] = a /\ c[2] = b
      BY <2>3, <3>1
    <3> QED
      BY <3>1, <3>2
  <2> HIDE DEF c, d
  <2>5. c = d
    BY <2>1, <2>2, <2>3, <2>4, SeqEqual
  <2> QED
    BY <2>5 DEF c, d
<1> QED
  BY <1>1, <1>2

Stepped == {"for", "forever"}

\* The head of a loop writes where it begins, the tail where it ends and, if it has a
\* step, that.
LEMMA WritesHead ==
  ASSUME NEW kind \in Loop, NEW i \in Nat, NEW begin \in Nat, NEW end \in Nat
  PROVE  Writes(LoopHead(kind, i, begin, end), {begin}, IF kind \in {"for", "while"} THEN {end} ELSE {})
<1>1. Writes(<<Label(begin)>>, {begin}, {})
  BY WritesLabel
<1>2. Writes(<<Do(i, "cond")>>, {}, {}) /\ Writes(<<Do(i, "init")>>, {}, {})
  BY WritesDo DEF Parts
<1>3. Writes(<<Je(end)>>, {}, {end})
  BY WritesJump
<1> DEFINE test == <<Do(i, "cond"), Je(end)>>
           init == <<Do(i, "init"), Label(begin)>>
<1>4. Writes(test, {}, {end})
  <2>1. Writes(test, {} \cup {}, {} \cup {end})
    BY <1>2, <1>3, WritesTwo
  <2> QED
    BY <2>1
<1>5. Writes(init, {begin}, {})
  <2>1. Writes(init, {} \cup {begin}, {} \cup {})
    BY <1>1, <1>2, WritesTwo
  <2> QED
    BY <2>1
<1> HIDE DEF test, init
<1>6. CASE kind = "for"
  <2>1. Writes(init \o test, {begin} \cup {}, {} \cup {end})
    BY <1>4, <1>5, WritesBoth
  <2>2. LoopHead(kind, i, begin, end) = init \o test
    BY <1>6 DEF LoopHead, init, test
  <2> QED
    BY <1>6, <2>1, <2>2
<1>7. CASE kind = "while"
  <2>1. Writes(<<Label(begin)>> \o test, {begin} \cup {}, {} \cup {end})
    BY <1>1, <1>4, WritesBoth
  <2>2. LoopHead(kind, i, begin, end) = <<Label(begin)>> \o test
    BY <1>7 DEF LoopHead, test
  <2> QED
    BY <1>7, <2>1, <2>2
<1>8. CASE kind \in {"forever", "do"}
  BY <1>1, <1>8 DEF LoopHead
<1> QED
  BY <1>6, <1>7, <1>8 DEF Loop

\* The end of a loop writes its last labels and jumps to its first.
LEMMA WritesTail ==
  ASSUME NEW kind \in Loop, NEW i \in Nat, NEW begin \in Nat, NEW step \in Nat, NEW end \in Nat,
         kind \in Stepped => step # end
  PROVE  Writes(LoopTail(kind, i, begin, step, end),
                {end} \cup (IF kind \in Stepped THEN {step} ELSE {}),
                {begin} \cup (IF kind = "do" THEN {end} ELSE {}))
<1>1. Writes(<<Label(end)>>, {end}, {}) /\ Writes(<<Label(step)>>, {step}, {})
  BY WritesLabel
<1>2. Writes(<<Do(i, "cond")>>, {}, {}) /\ Writes(<<Do(i, "step")>>, {}, {})
  BY WritesDo DEF Parts
<1>3. Writes(<<Je(end)>>, {}, {end}) /\ Writes(<<Jmp(begin)>>, {}, {begin})
  BY WritesJump
<1> DEFINE back == <<Jmp(begin), Label(end)>>
           test == <<Do(i, "cond"), Je(end)>>
           last == <<Label(step), Do(i, "step")>>
<1>4. Writes(back, {end}, {begin})
  <2>1. Writes(back, {} \cup {end}, {begin} \cup {})
    BY <1>1, <1>3, WritesTwo
  <2> QED
    BY <2>1
<1>5. Writes(test, {}, {end})
  <2>1. Writes(test, {} \cup {}, {} \cup {end})
    BY <1>2, <1>3, WritesTwo
  <2> QED
    BY <2>1
<1>6. Writes(last, {step}, {})
  <2>1. Writes(last, {step} \cup {}, {} \cup {})
    BY <1>1, <1>2, WritesTwo
  <2> QED
    BY <2>1
<1> HIDE DEF back, test, last
<1>7. CASE kind \in Stepped
  <2>1. Writes(last \o back, {step} \cup {end}, {} \cup {begin})
    BY <1>4, <1>6, <1>7, WritesBoth
  <2>2. LoopTail(kind, i, begin, step, end) = last \o back
    BY <1>7 DEF LoopTail, Stepped, last, back
  <2>3. kind # "do"
    BY <1>7 DEF Stepped
  <2>4. {step} \cup {end} = {end} \cup {step} /\ {} \cup {begin} = {begin} \cup {}
    OBVIOUS
  <2> QED
    BY <1>7, <2>1, <2>2, <2>3, <2>4
<1>8. CASE kind = "do"
  <2>1. Writes(test \o back, {} \cup {end}, {end} \cup {begin})
    BY <1>4, <1>5, WritesBoth
  <2>2. LoopTail(kind, i, begin, step, end) = test \o back
    BY <1>8 DEF LoopTail, test, back
  <2>3. {} \cup {end} = {end} \cup {} /\ {end} \cup {begin} = {begin} \cup {end}
    OBVIOUS
  <2> QED
    BY <1>8, <2>1, <2>2, <2>3 DEF Stepped
<1>9. CASE kind = "while"
  <2>1. LoopTail(kind, i, begin, step, end) = << >> \o back
    BY <1>9 DEF LoopTail, back
  <2>2. << >> \o back = back
    BY <1>4, ConcatEmptySeq DEF Writes
  <2>3. {end} \cup {} = {end} /\ {begin} \cup {} = {begin}
    OBVIOUS
  <2> QED
    BY <1>4, <1>9, <2>1, <2>2, <2>3 DEF Stepped
<1> QED
  BY <1>7, <1>8, <1>9 DEF Loop, Stepped

\* A case writes its own two labels and jumps to one of them and to the next case.
LEMMA WritesCase ==
  ASSUME NEW v \in Nat, NEW a \in Nat, NEW skip \in Nat, NEW b \in Nat, a # skip
  PROVE  Writes(CaseCode(v, a, skip, b), {a, skip}, {skip, b})
<1>1. Writes(<<Label(a)>>, {a}, {}) /\ Writes(<<Label(skip)>>, {skip}, {})
  BY WritesLabel
<1>2. Writes(<<Jmp(skip)>>, {}, {skip}) /\ Writes(<<CmpJne(v, b)>>, {}, {b})
  BY WritesJump
<1> DEFINE c == <<Jmp(skip), Label(a)>>
           d == <<CmpJne(v, b), Label(skip)>>
<1>3. Writes(c, {a}, {skip})
  <2>1. Writes(c, {} \cup {a}, {skip} \cup {})
    BY <1>1, <1>2, WritesTwo
  <2> QED
    BY <2>1
<1>4. Writes(d, {skip}, {b})
  <2>1. Writes(d, {} \cup {skip}, {b} \cup {})
    BY <1>1, <1>2, WritesTwo
  <2> QED
    BY <2>1
<1>5. CaseCode(v, a, skip, b) = c \o d
  BY DEF CaseCode
<1> HIDE DEF c, d
<1>6. Writes(c \o d, {a} \cup {skip}, {skip} \cup {b})
  BY <1>3, <1>4, WritesBoth
<1> QED
  BY <1>5, <1>6

-----------------------------------------------------------------------------
\* The labels still to come: which slot of which frame holds which.
Sound(H, c, n) ==
  /\ \A i, p, l : <<i, p, l>> \in H => l \in 2..(n - 1) /\ ~Wrote(c, l)
  /\ \A i, p, j, q, l : <<i, p, l>> \in H /\ <<j, q, l>> \in H => i = j /\ p = q
  /\ \A l : Wrote(c, l) => l \in 2..(n - 1)
  /\ \A l : Leads(c, l) => Wrote(c, l) \/ \E i, p : <<i, p, l>> \in H
  /\ Once(c)

\* Emitting labels W and jumps to J turns the labels to come from H into G.
Passes(c, n, m, H, G, W, J) ==
  /\ \A l \in W : (\E i, p : <<i, p, l>> \in H) \/ l \in n..(m - 1)
  /\ \A i, p, l : <<i, p, l>> \in G => l \notin W /\ (<<i, p, l>> \in H \/ l \in n..(m - 1))
  /\ \A i, p, j, q, l : <<i, p, l>> \in G /\ <<j, q, l>> \in G /\ l \in n..(m - 1) => i = j /\ p = q
  /\ \A i, p, l : <<i, p, l>> \in H => l \in W \/ \E j, q : <<j, q, l>> \in G
  /\ \A l \in J : Wrote(c, l) \/ l \in W \/ \E i, p : <<i, p, l>> \in G

\* Code may write labels that were to come, or new ones; what is to come then was to
\* come before, or is new.
LEMMA SoundStep ==
  ASSUME NEW c \in Seq(Instruction), NEW n \in Nat, NEW m \in Nat, 2 <= n, n <= m,
         NEW H, NEW G, Sound(H, c, n),
         NEW d, NEW W, NEW J, Writes(d, W, J),
         Passes(c, n, m, H, G, W, J)
  PROVE  Sound(G, c \o d, m) /\ c \o d \in Seq(Instruction) /\ \A l : Wrote(c, l) \/ l \in W => Wrote(c \o d, l)
<1> DEFINE e == c \o d
<1>p. /\ \A l \in W : (\E i, p : <<i, p, l>> \in H) \/ l \in n..(m - 1)
      /\ \A i, p, l : <<i, p, l>> \in G => l \notin W /\ (<<i, p, l>> \in H \/ l \in n..(m - 1))
      /\ \A i, p, j, q, l : <<i, p, l>> \in G /\ <<j, q, l>> \in G /\ l \in n..(m - 1) => i = j /\ p = q
      /\ \A i, p, l : <<i, p, l>> \in H => l \in W \/ \E j, q : <<j, q, l>> \in G
      /\ \A l \in J : Wrote(c, l) \/ l \in W \/ \E i, p : <<i, p, l>> \in G
  BY DEF Passes
<1>1. /\ d \in Seq(Instruction) /\ Once(d)
      /\ \A l : (Wrote(d, l) <=> l \in W) /\ (Leads(d, l) <=> l \in J)
  BY DEF Writes
<1>2. /\ e \in Seq(Instruction)
      /\ \A l : Wrote(e, l) <=> Wrote(c, l) \/ Wrote(d, l)
      /\ \A l : Leads(e, l) <=> Leads(c, l) \/ Leads(d, l)
      /\ Once(c) /\ Once(d) /\ (\A l : ~(Wrote(c, l) /\ Wrote(d, l))) => Once(e)
  BY <1>1, Emitted
<1> HIDE DEF e
<1>3. ASSUME NEW l \in W PROVE ~Wrote(c, l) /\ l \in 2..(m - 1)
  <2>1. CASE \E i, p : <<i, p, l>> \in H
    <3>1. l \in 2..(n - 1) /\ ~Wrote(c, l)
      BY <2>1 DEF Sound
    <3> QED
      BY <3>1
  <2>2. CASE l \in n..(m - 1)
    <3>1. Wrote(c, l) => l \in 2..(n - 1)
      BY DEF Sound
    <3> QED
      BY <2>2, <3>1
  <2> QED
    BY <1>p, <2>1, <2>2
<1>4. Once(e)
  BY <1>1, <1>2, <1>3 DEF Sound
<1>5. \A i, p, l : <<i, p, l>> \in G => l \in 2..(m - 1) /\ ~Wrote(e, l)
  BY <1>p, <1>1, <1>2 DEF Sound
<1>6. \A i, p, j, q, l : <<i, p, l>> \in G /\ <<j, q, l>> \in G => i = j /\ p = q
  BY <1>p DEF Sound
<1>7. \A l : Wrote(e, l) => l \in 2..(m - 1)
  BY <1>1, <1>2, <1>3 DEF Sound
<1>8. \A l : Leads(e, l) => Wrote(e, l) \/ \E i, p : <<i, p, l>> \in G
  BY <1>p, <1>1, <1>2 DEF Sound
<1>9. Sound(G, e, m)
  BY <1>4, <1>5, <1>6, <1>7, <1>8 DEF Sound
<1> QED
  BY <1>1, <1>2, <1>9 DEF e

-----------------------------------------------------------------------------
(* The slots of the frames: where each ends, where the step of a loop is,   *)
(* and where a switch goes on with its next case.                           *)

Slots == {"end", "step", "switch"}
LastSwitch(fs, i) == \A j \in 1..Len(fs) : fs[j].kind = "switch" => j <= i
Holds(fs, now, saved, i, p, l) ==
  \/ p = "end" /\ l = fs[i].end
  \/ p = "step" /\ fs[i].kind \in Stepped /\ l = fs[i].step
  \/ p = "switch" /\ fs[i].kind = "switch" /\ l = IF LastSwitch(fs, i) THEN now ELSE saved
Held(fs, now, saved) ==
  {h \in (1..Len(fs)) \X Slots \X Nat : Holds(fs, now, saved, h[1], h[2], h[3])}

\* What it is for a label to be held.
LEMMA HeldIs ==
  ASSUME NEW fs, NEW now, NEW saved, NEW i, NEW p, NEW l
  PROVE  <<i, p, l>> \in Held(fs, now, saved) <=>
           /\ i \in 1..Len(fs) /\ p \in Slots /\ l \in Nat
           /\ Holds(fs, now, saved, i, p, l)
  BY DEF Held

\* A loop that has begun has written where.
Begun(fs, c) == \A i \in 1..Len(fs) : fs[i].kind \in Loop =>
  Wrote(c, fs[i].begin) /\ (fs[i].kind \notin Stepped => fs[i].step = fs[i].begin)

\* Entering an if or a loop.
LEMMA PushHeld ==
  ASSUME NEW fs, NEW f \in FrameType, NEW gs, Pushes(fs, f, gs), f.kind # "switch",
         NEW now, NEW saved, NEW i, NEW p, NEW l
  PROVE  <<i, p, l>> \in Held(gs, now, saved) <=>
           \/ <<i, p, l>> \in Held(fs, now, saved)
           \/ i = Len(gs) /\ p = "end" /\ l = f.end
           \/ i = Len(gs) /\ p = "step" /\ f.kind \in Stepped /\ l = f.step
<1>1. /\ Len(fs) \in Nat /\ Len(gs) = Len(fs) + 1
      /\ gs[Len(gs)] = f
      /\ \A j \in 1..Len(fs) : gs[j] = fs[j]
      /\ \A j \in 1..Len(gs) : j \in 1..Len(fs) \/ j = Len(gs)
  BY DEF Pushes
<1>2. f.end \in Nat /\ f.step \in Nat
  BY DEF FrameType
<1>3. \A j \in 1..Len(fs) : LastSwitch(gs, j) <=> LastSwitch(fs, j)
  BY <1>1 DEF LastSwitch
<1>4. CASE i \in 1..Len(fs)
  <2>1. gs[i] = fs[i] /\ i # Len(gs) /\ i \in 1..Len(gs)
    BY <1>1, <1>4
  <2>2. Holds(gs, now, saved, i, p, l) <=> Holds(fs, now, saved, i, p, l)
    BY <1>3, <1>4, <2>1 DEF Holds
  <2> QED
    BY <1>4, <2>1, <2>2, HeldIs
<1>5. CASE i = Len(gs)
  <2>1. i \notin 1..Len(fs) /\ i \in 1..Len(gs) /\ gs[i] = f
    BY <1>1, <1>5
  <2>2. Holds(gs, now, saved, i, p, l) <=>
          (p = "end" /\ l = f.end) \/ (p = "step" /\ f.kind \in Stepped /\ l = f.step)
    BY <2>1 DEF Holds
  <2>3. (p = "end" /\ l = f.end) \/ (p = "step" /\ f.kind \in Stepped /\ l = f.step)
          => p \in Slots /\ l \in Nat
    BY <1>2 DEF Slots
  <2>4. <<i, p, l>> \notin Held(fs, now, saved)
    BY <2>1, HeldIs
  <2> QED
    BY <1>5, <2>1, <2>2, <2>3, <2>4, HeldIs
<1>6. CASE i \notin 1..Len(gs)
  <2>1. i \notin 1..Len(fs) /\ i # Len(gs)
    BY <1>1, <1>6
  <2> QED
    BY <1>6, <2>1, HeldIs
<1> QED
  BY <1>1, <1>4, <1>5, <1>6

\* Entering a switch: the one around it goes on with what is saved.
LEMMA PushSwitchHeld ==
  ASSUME NEW fs, Nested(fs), NEW f \in FrameType, NEW gs, Pushes(fs, f, gs),
         f.kind = "switch", f.nest = NestOf(fs) + 1,
         NEW old, NEW older, NEW now \in Nat, NEW i, NEW p, NEW l
  PROVE  <<i, p, l>> \in Held(gs, now, old) <=>
           \/ <<i, p, l>> \in Held(fs, old, older)
           \/ i = Len(gs) /\ p = "end" /\ l = f.end
           \/ i = Len(gs) /\ p = "switch" /\ l = now
<1>1. /\ Len(fs) \in Nat /\ Len(gs) = Len(fs) + 1
      /\ gs[Len(gs)] = f
      /\ \A j \in 1..Len(fs) : gs[j] = fs[j]
      /\ \A j \in 1..Len(gs) : j \in 1..Len(fs) \/ j = Len(gs)
  BY DEF Pushes
<1>2. f.end \in Nat /\ f.nest \in 0..2 /\ f.kind \notin Stepped
  BY DEF FrameType, Stepped
<1>3. \A j \in 1..Len(fs) : ~LastSwitch(gs, j)
  <2> SUFFICES ASSUME NEW j \in 1..Len(fs), LastSwitch(gs, j) PROVE FALSE
    OBVIOUS
  <2>1. Len(gs) \in 1..Len(gs) /\ gs[Len(gs)].kind = "switch"
    BY <1>1
  <2>2. Len(gs) <= j
    BY <2>1 DEF LastSwitch
  <2> QED
    BY <1>1, <2>2
<1>4. \A j \in 1..Len(fs) : fs[j].kind = "switch" => LastSwitch(fs, j)
  <2> SUFFICES ASSUME NEW j \in 1..Len(fs), fs[j].kind = "switch",
                      NEW k \in 1..Len(fs), fs[k].kind = "switch", j < k
               PROVE  FALSE
    BY <1>1 DEF LastSwitch
  <2>1. fs[j].nest \in 0..2 /\ fs[k].nest \in 0..2 /\ fs[j].nest >= 1 /\ fs[j].nest < fs[k].nest
    BY FrameOf DEF Nested
  <2>2. fs[k].nest <= fs[Len(fs)].nest /\ NestOf(fs) = fs[Len(fs)].nest
    <3>1. Len(fs) \in 1..Len(fs) /\ k <= Len(fs) /\ fs # << >>
      BY <1>1, EmptySeq
    <3> QED
      BY <3>1 DEF Nested, NestOf
  <2>3. NestOf(fs) \in 0..2
    BY NestRange
  <2> QED
    BY <1>2, <2>1, <2>2, <2>3
<1>5. CASE i \in 1..Len(fs)
  <2>1. gs[i] = fs[i] /\ i # Len(gs) /\ i \in 1..Len(gs)
    BY <1>1, <1>5
  <2>2. Holds(gs, now, old, i, p, l) <=> Holds(fs, old, older, i, p, l)
    BY <1>3, <1>4, <1>5, <2>1 DEF Holds
  <2> QED
    BY <1>5, <2>1, <2>2, HeldIs
<1>6. CASE i = Len(gs)
  <2>1. i \notin 1..Len(fs) /\ i \in 1..Len(gs) /\ gs[i] = f
    BY <1>1, <1>6
  <2>2. LastSwitch(gs, i)
    BY <1>1, <1>6 DEF LastSwitch
  <2>3. Holds(gs, now, old, i, p, l) <=> (p = "end" /\ l = f.end) \/ (p = "switch" /\ l = now)
    BY <1>2, <2>1, <2>2 DEF Holds
  <2>4. (p = "end" /\ l = f.end) \/ (p = "switch" /\ l = now) => p \in Slots /\ l \in Nat
    BY <1>2 DEF Slots
  <2>5. <<i, p, l>> \notin Held(fs, old, older)
    BY <2>1, HeldIs
  <2> QED
    BY <1>6, <2>1, <2>3, <2>4, <2>5, HeldIs
<1>7. CASE i \notin 1..Len(gs)
  <2>1. i \notin 1..Len(fs) /\ i # Len(gs)
    BY <1>1, <1>7
  <2> QED
    BY <1>7, <2>1, HeldIs
<1> QED
  BY <1>1, <1>5, <1>6, <1>7

\* What leaving a statement leaves of a stack.
Pops(fs, gs) ==
  /\ Len(fs) \in Nat /\ Len(fs) > 0 /\ Len(gs) = Len(fs) - 1
  /\ \A j \in 1..Len(gs) : gs[j] = fs[j]

\* Leaving an if or a loop gives up its labels and no other.
LEMMA PopHeld ==
  ASSUME NEW fs, NEW gs, Pops(fs, gs), fs[Len(fs)].kind # "switch",
         NEW now, NEW saved, NEW i, NEW p, NEW l
  PROVE  <<i, p, l>> \in Held(gs, now, saved) <=> <<i, p, l>> \in Held(fs, now, saved) /\ i # Len(fs)
<1>1. /\ Len(fs) \in Nat /\ Len(fs) > 0 /\ Len(gs) = Len(fs) - 1
      /\ \A j \in 1..Len(gs) : gs[j] = fs[j]
  BY DEF Pops
<1>2. \A j : j \in 1..Len(gs) <=> j \in 1..Len(fs) /\ j # Len(fs)
  BY <1>1
<1>3. \A j \in 1..Len(gs) : LastSwitch(gs, j) <=> LastSwitch(fs, j)
  BY <1>1, <1>2 DEF LastSwitch
<1>4. CASE i \in 1..Len(gs)
  <2>1. Holds(gs, now, saved, i, p, l) <=> Holds(fs, now, saved, i, p, l)
    BY <1>1, <1>3, <1>4 DEF Holds
  <2> QED
    BY <1>2, <1>4, <2>1, HeldIs
<1>5. CASE i \notin 1..Len(gs)
  BY <1>2, <1>5, HeldIs
<1> QED
  BY <1>4, <1>5

\* Leaving a switch gives up its labels; gen_label_break and the like are what was saved.
LEMMA PopSwitchHeld ==
  ASSUME NEW fs, Nested(fs), NEW gs, Pops(fs, gs), fs[Len(fs)].kind = "switch",
         NEW now, NEW saved, NEW i, NEW p, NEW l
  PROVE  <<i, p, l>> \in Held(gs, saved, saved) <=> <<i, p, l>> \in Held(fs, now, saved) /\ i # Len(fs)
<1>1. /\ Len(fs) \in Nat /\ Len(fs) > 0 /\ Len(gs) = Len(fs) - 1
      /\ \A j \in 1..Len(gs) : gs[j] = fs[j]
  BY DEF Pops
<1>2. \A j : j \in 1..Len(gs) <=> j \in 1..Len(fs) /\ j # Len(fs)
  BY <1>1
<1>3. \A j \in 1..Len(gs) : ~LastSwitch(fs, j)
  <2> SUFFICES ASSUME NEW j \in 1..Len(gs), LastSwitch(fs, j) PROVE FALSE
    OBVIOUS
  <2>1. Len(fs) <= j
    BY <1>1 DEF LastSwitch
  <2> QED
    BY <1>1, <2>1
<1>4. CASE i \in 1..Len(gs)
  <2>1. Holds(gs, saved, saved, i, p, l) <=> Holds(fs, now, saved, i, p, l)
    BY <1>1, <1>3, <1>4 DEF Holds
  <2> QED
    BY <1>2, <1>4, <2>1, HeldIs
<1>5. CASE i \notin 1..Len(gs)
  BY <1>2, <1>5, HeldIs
<1> QED
  BY <1>4, <1>5

\* A slot that goes on with a new label.
Moves(H, G, k, s, old, now) ==
  /\ \A i, p, l : <<i, p, l>> \in G <=>
       (<<i, p, l>> \in H /\ ~(i = k /\ p = s)) \/ (i = k /\ p = s /\ l = now)
  /\ \A l : <<k, s, l>> \in H <=> l = old

\* A case or a default of the innermost switch m.
LEMMA CaseHeld ==
  ASSUME NEW fs, NEW m \in 1..Len(fs), Len(fs) \in Nat, fs[m].kind = "switch", LastSwitch(fs, m),
         NEW old \in Nat, NEW now \in Nat, NEW saved
  PROVE  Moves(Held(fs, old, saved), Held(fs, now, saved), m, "switch", old, now)
<1>1. \A j \in 1..Len(fs) : fs[j].kind = "switch" /\ LastSwitch(fs, j) => j = m
  BY DEF LastSwitch
<1>2. ASSUME NEW i, NEW p, NEW l
      PROVE  <<i, p, l>> \in Held(fs, now, saved) <=>
               \/ <<i, p, l>> \in Held(fs, old, saved) /\ ~(i = m /\ p = "switch")
               \/ i = m /\ p = "switch" /\ l = now
  <2>1. CASE i = m /\ p = "switch"
    BY <2>1, HeldIs DEF Holds, Slots
  <2>2. CASE ~(i = m /\ p = "switch")
    <3>1. ASSUME i \in 1..Len(fs)
          PROVE  Holds(fs, now, saved, i, p, l) <=> Holds(fs, old, saved, i, p, l)
      <4>1. CASE p # "switch"
        BY <4>1 DEF Holds
      <4>2. CASE p = "switch" /\ i # m
        <5>1. fs[i].kind = "switch" => ~LastSwitch(fs, i)
          BY <1>1, <3>1, <4>2
        <5> QED
          BY <4>2, <5>1 DEF Holds
      <4> QED
        BY <2>2, <4>1, <4>2
    <3> QED
      BY <2>2, <3>1, HeldIs
  <2> QED
    BY <2>1, <2>2
<1>3. \A l : <<m, "switch", l>> \in Held(fs, old, saved) <=> l = old
  BY HeldIs DEF Holds, Slots
<1> QED
  BY <1>2, <1>3 DEF Moves

TargetsAre ==
  labelBreak \in Nat /\ labelContinue \in Nat /\ breakStore \in Nat /\ continueStore \in Nat

LabelInv ==
  /\ code \in Seq(Instruction) /\ nextLabel >= 2
  /\ labelSwitch \in Nat /\ switchStore \in Nat /\ TargetsAre
  /\ Balanced(source, frames)
  /\ pc \in {"body", "done", "error"}
  /\ pc = "error" => ~Placed(source)
  /\ pc = "done" => frames = << >>
  /\ Placed(source) => /\ Sound(Held(frames, labelSwitch, switchStore), code, nextLabel)
                       /\ Begun(frames, code)

BegunBy(fs, c, W) == \A i \in 1..Len(fs) : fs[i].kind \in Loop =>
  (Wrote(c, fs[i].begin) \/ fs[i].begin \in W) /\ (fs[i].kind \notin Stepped => fs[i].step = fs[i].begin)

ItemKind == Kind \cup {"expression", "return", "else", "end", "case", "default", "break", "continue"}

\* The body of the function grows by the item read.
LEMMA Walked ==
  ASSUME source \in Seq(ItemType), NEW kind \in ItemKind, NEW value \in Nat, Walk(kind, value),
         NEW item, item = [kind |-> kind, value |-> value]
  PROVE  Longer(source, item, source') /\ item.kind = kind
<1>1. item \in ItemType
  BY DEF ItemType, ItemKind
<1>2. source' = Append(source, item)
  BY DEF Walk
<1>3. /\ Len(source) \in Nat /\ Len(source') = Len(source) + 1 /\ source'[Len(source')] = item
      /\ \A i \in 1..Len(source) : source'[i] = source[i]
  BY <1>1, <1>2, Pushed
<1> QED
  BY <1>3 DEF Longer

\* The frame of every step that emits code.
LEMMA Emits ==
  ASSUME LabelInv, nextLabel \in Nat, nextLabel' \in Nat, nextLabel <= nextLabel',
         NEW d \in Seq(Instruction), NEW W, NEW J, code' = code \o d,
         NEW item, Longer(source, item, source'), Balanced(source', frames'),
         labelSwitch' \in Nat, switchStore' \in Nat, TargetsAre', pc' = "body",
         NEW H, H = Held(frames, labelSwitch, switchStore),
         NEW G, G = Held(frames', labelSwitch', switchStore'),
         Placed(source) /\ Placed(source') /\ Sound(H, code, nextLabel) /\ Begun(frames, code) =>
           /\ Writes(d, W, J)
           /\ Passes(code, nextLabel, nextLabel', H, G, W, J)
           /\ BegunBy(frames', code, W)
  PROVE  LabelInv'
<1>1. code \in Seq(Instruction) /\ 2 <= nextLabel
  BY DEF LabelInv
<1>3. code' \in Seq(Instruction)
  BY <1>1, Emitted
<1>4. ASSUME Placed(source') PROVE Sound(G, code', nextLabel') /\ Begun(frames', code')
  <2>1. Placed(source)
    BY <1>4, PlacedBefore
  <2>2. Sound(H, code, nextLabel) /\ Begun(frames, code)
    BY <2>1 DEF LabelInv
  <2>3. /\ Passes(code, nextLabel, nextLabel', H, G, W, J) /\ BegunBy(frames', code, W)
        /\ Writes(d, W, J)
    BY <1>4, <2>1, <2>2
  <2> DEFINE c == code
             n == nextLabel
             m == nextLabel'
  <2>4. /\ c \in Seq(Instruction) /\ n \in Nat /\ m \in Nat /\ 2 <= n /\ n <= m /\ Sound(H, c, n)
        /\ Passes(c, n, m, H, G, W, J) /\ code' = c \o d /\ Writes(d, W, J)
    BY <1>1, <2>2, <2>3
  <2> HIDE DEF c, n, m
  <2>5. Sound(G, c \o d, m) /\ \A l : Wrote(c, l) \/ l \in W => Wrote(c \o d, l)
    BY <2>4, SoundStep
  <2>6. Sound(G, code', m) /\ \A l : Wrote(c, l) \/ l \in W => Wrote(code', l)
    BY <2>4, <2>5
  <2>7. Begun(frames', code')
    BY <2>3, <2>6 DEF Begun, BegunBy, c
  <2> QED
    BY <2>6, <2>7 DEF m
<1>5. nextLabel' >= 2
  BY <1>1
<1> QED
  BY <1>3, <1>4, <1>5 DEF LabelInv

\* A step that leaves the labels alone but for a jump to one of them.
LEMMA NeutralStep ==
  ASSUME LabelInv, nextLabel \in Nat, UNCHANGED <<frames, nextLabel, jumps, switch>>, pc' = "body",
         NEW d, NEW J, Writes(d, {}, J), code' = code \o d,
         NEW item, Longer(source, item, source'), item.kind \notin Kind, item.kind # "end",
         Len(frames) \in Nat,
         NEW H, H = Held(frames, labelSwitch, switchStore),
         Placed(source') /\ Begun(frames, code) => \A l \in J : Wrote(code, l) \/ \E i, p : <<i, p, l>> \in H
  PROVE  LabelInv'
<1>1. Balanced(source', frames')
  <2>1. Balanced(source, frames)
    BY DEF LabelInv
  <2>2. frames' = frames
    OBVIOUS
  <2>3. Balanced(source', frames)
    BY <2>1, BalanceKept
  <2> QED
    BY <2>2, <2>3
<1>2. labelSwitch' = labelSwitch /\ switchStore' = switchStore /\ frames' = frames /\ nextLabel' = nextLabel
  BY DEF switch
<1>3. H = Held(frames', labelSwitch', switchStore') /\ labelSwitch' \in Nat /\ switchStore' \in Nat
  BY <1>2 DEF LabelInv
<1>4. ASSUME Placed(source'), Sound(H, code, nextLabel), Begun(frames, code)
      PROVE  Passes(code, nextLabel, nextLabel', H, H, {}, J) /\ BegunBy(frames', code, {})
  <2>1. BegunBy(frames', code, {})
    BY <1>2, <1>4 DEF Begun, BegunBy
  <2>2. \A l : l \in nextLabel..(nextLabel' - 1) => FALSE
    BY <1>2
  <2>3. \A l \in J : Wrote(code, l) \/ \E i, p : <<i, p, l>> \in H
    BY <1>4
  <2> QED
    BY <2>1, <2>2, <2>3 DEF Passes
<1>5. nextLabel' \in Nat /\ nextLabel <= nextLabel' /\ TargetsAre'
  BY <1>2 DEF LabelInv, TargetsAre, jumps
<1>6. d \in Seq(Instruction)
  BY DEF Writes
<1> QED
  BY <1>1, <1>3, <1>4, <1>5, <1>6, Emits

\* An expression or a return writes no label.
LEMMA ExpressionStep ==
  ASSUME IInv, LabelInv, Expression \/ Return
  PROVE  LabelInv'
<1>1. source \in Seq(ItemType) /\ nextLabel \in Nat /\ here \in Nat /\ Len(frames) \in Nat
  BY LenProperties DEF IInv, here, Nested
<1>2. PICK kind \in {"expression", "return"}, part \in {"value", "return"} :
        /\ Walk(kind, 0) /\ code' = code \o <<Do(here, part)>>
        /\ UNCHANGED <<frames, nextLabel, jumps, switch, pc>> /\ pc = "body"
  BY DEF Expression, Return, Emit, Room
<1> DEFINE item == [kind |-> kind, value |-> 0]
<1>3. Longer(source, item, source') /\ item.kind \notin Kind /\ item.kind # "end"
  <2>1. kind \in ItemKind /\ kind \notin Kind /\ kind # "end" /\ 0 \in Nat
    BY DEF ItemKind, Kind, Loop
  <2>2. Longer(source, item, source') /\ item.kind = kind
    BY <1>1, <1>2, <2>1, Walked
  <2> QED
    BY <2>1, <2>2
<1>4. Writes(<<Do(here, part)>>, {}, {})
  BY <1>1, WritesDo DEF Parts
<1> DEFINE d == <<Do(here, part)>>
           H == Held(frames, labelSwitch, switchStore)
<1>5. code' = code \o d /\ Writes(d, {}, {})
  BY <1>2, <1>4
<1>6. UNCHANGED <<frames, nextLabel, jumps, switch>> /\ pc' = "body"
  BY <1>2
<1>7. Placed(source') /\ Begun(frames, code) => \A l \in {} : Wrote(code, l) \/ \E i, p : <<i, p, l>> \in H
  OBVIOUS
<1> HIDE DEF item, d
<1> QED
  BY <1>1, <1>3, <1>5, <1>6, <1>7, NeutralStep

\* Of the switches that are open one is the innermost.
LEMMA SwitchLast ==
  ASSUME NEW fs, Nested(fs), \E f \in 1..Len(fs) : fs[f].kind \in {"switch"}
  PROVE  \E m \in 1..Len(fs) : fs[m].kind = "switch" /\ LastSwitch(fs, m)
<1> DEFINE P == {f \in 1..Len(fs) : fs[f].kind = "switch"}
<1>1. P \subseteq 1..Len(fs) /\ P # {} /\ \A i \in P : fs[i].kind # "if"
  OBVIOUS
<1>2. PICK m \in P : \A i \in P : i <= m
  <2> HIDE DEF P
  <2> QED
    BY <1>1, LastOne
<1> QED
  BY <1>2 DEF LastSwitch

\* A break or a continue of a well placed program has a statement to leave or to
\* go on with, and jumps to a label that is to come or was written.
LEMMA JumpStep ==
  ASSUME IInv, LabelInv, Break \/ Continue
  PROVE  LabelInv'
<1>1. source \in Seq(ItemType) /\ nextLabel \in Nat /\ Len(frames) \in Nat /\ Nested(frames)
  BY LenProperties DEF IInv, Nested
<1>2. PICK kind \in {"break", "continue"} : LET target == IF kind = "break" THEN labelBreak ELSE labelContinue IN
        /\ Walk(kind, 0) /\ code' = code \o <<Jmp(target)>>
        /\ UNCHANGED <<frames, nextLabel, jumps, switch, pc>> /\ pc = "body"
  BY DEF Break, Continue, Jump, Emit, Room
<1> DEFINE item == [kind |-> kind, value |-> 0]
           target == IF kind = "break" THEN labelBreak ELSE labelContinue
           d == <<Jmp(target)>>
           H == Held(frames, labelSwitch, switchStore)
<1>3. Longer(source, item, source') /\ item.kind \notin Kind /\ item.kind # "end" /\ item.kind = kind
  <2>1. kind \in ItemKind /\ kind \notin Kind /\ kind # "end" /\ 0 \in Nat
    BY DEF ItemKind, Kind, Loop
  <2>2. Longer(source, item, source') /\ item.kind = kind
    BY <1>1, <1>2, <2>1, Walked
  <2> QED
    BY <2>1, <2>2
<1>4. target \in Nat
  BY DEF LabelInv, TargetsAre
<1>5. code' = code \o d /\ Writes(d, {}, {target})
  <2>1. Writes(d, {}, {target})
    BY <1>4, WritesJump
  <2> QED
    BY <1>2, <2>1
<1>6. UNCHANGED <<frames, nextLabel, jumps, switch>> /\ pc' = "body"
  BY <1>2
<1>7. ASSUME Placed(source'), Begun(frames, code)
      PROVE  Wrote(code, target) \/ \E i, p : <<i, p, target>> \in H
  <2>1. /\ Len(source) + 1 \in 1..Len(source') /\ source'[Len(source) + 1].kind = kind
    BY <1>1, <1>3, LenProperties DEF Longer
  <2>2. CASE kind = "break"
    <3>1. Inside(source', Len(source) + 1, Breakable) # {}
      BY <1>7, <2>1, <2>2 DEF Placed
    <3>2. Breakable \in SUBSET Kind /\ Balanced(source, frames)
      BY DEF Breakable, Kind, LabelInv
    <3>3. \E f \in 1..Len(frames) : frames[f].kind \in Breakable
      <4> HIDE DEF item
      <4> QED
        BY <1>3, <3>1, <3>2, InsideIsOpen
    <3>4. Enclosing(Breakable) # {}
      BY <3>3 DEF Enclosing
    <3>5. PICK m \in Enclosing(Breakable) : labelBreak = frames[m].end
      BY <3>4, BreakTarget
    <3>6. m \in 1..Len(frames) /\ target = frames[m].end
      BY <2>2, <3>5 DEF Enclosing
    <3>7. <<m, "end", target>> \in H
      <4> HIDE DEF target
      <4> QED
        BY <1>4, <3>6, HeldIs DEF Holds, Slots
    <3> QED
      BY <3>7
  <2>3. CASE kind = "continue"
    <3>1. Inside(source', Len(source) + 1, Loop) # {}
      BY <1>7, <2>1, <2>3 DEF Placed
    <3>2. Loop \in SUBSET Kind /\ Balanced(source, frames)
      BY DEF Kind, LabelInv
    <3>3. \E f \in 1..Len(frames) : frames[f].kind \in Loop
      <4> HIDE DEF item
      <4> QED
        BY <1>3, <3>1, <3>2, InsideIsOpen
    <3>4. Enclosing(Loop) # {}
      BY <3>3 DEF Enclosing
    <3>5. PICK m \in Enclosing(Loop) : labelContinue = frames[m].step
      BY <3>4, ContinueTarget
    <3>6. m \in 1..Len(frames) /\ target = frames[m].step /\ frames[m].kind \in Loop
      BY <2>3, <3>5 DEF Enclosing
    <3>7. CASE frames[m].kind \in Stepped
      <4>1. <<m, "step", target>> \in H
        <5> HIDE DEF target
        <5> QED
          BY <1>4, <3>6, <3>7, HeldIs DEF Holds, Slots
      <4> QED
        BY <4>1
    <3>8. CASE frames[m].kind \notin Stepped
      BY <1>7, <3>6, <3>8 DEF Begun
    <3> QED
      BY <3>7, <3>8
  <2> QED
    BY <2>2, <2>3
<1>8. Placed(source') /\ Begun(frames, code) => \A l \in {target} : Wrote(code, l) \/ \E i, p : <<i, p, l>> \in H
  BY <1>7
<1>9. H = Held(frames, labelSwitch, switchStore)
  OBVIOUS
<1> DEFINE J == {target}
<1>10. /\ Writes(d, {}, J)
       /\ Placed(source') /\ Begun(frames, code) => \A l \in J : Wrote(code, l) \/ \E i, p : <<i, p, l>> \in H
  BY <1>5, <1>8
<1>11. code' = code \o d
  BY <1>5
<1> HIDE DEF item, d, target, H, J
<1> QED
  BY <1>1, <1>3, <1>6, <1>9, <1>10, <1>11, NeutralStep

\* Well placed, a break, a continue, a case or a default is never refused.
LEMMA RejectStep ==
  ASSUME IInv, LabelInv, NEW kind \in {"break", "continue", "case", "default"}, NEW label,
         label = (IF kind = "break" THEN labelBreak ELSE IF kind = "continue" THEN labelContinue ELSE labelSwitch),
         Reject(kind, label)
  PROVE  LabelInv'
<1>1. source \in Seq(ItemType) /\ nextLabel \in Nat /\ Len(frames) \in Nat /\ Nested(frames)
  BY LenProperties DEF IInv, Nested
<1>2. /\ Walk(kind, 0) /\ label = 0 /\ pc' = "error"
      /\ UNCHANGED <<frames, code, nextLabel, jumps, switch>>
  BY DEF Reject
<1> DEFINE item == [kind |-> kind, value |-> 0]
<1>3. Longer(source, item, source') /\ item.kind \notin Kind /\ item.kind # "end" /\ item.kind = kind
  <2>1. kind \in ItemKind /\ kind \notin Kind /\ kind # "end" /\ 0 \in Nat
    BY DEF ItemKind, Kind, Loop
  <2>2. Longer(source, item, source') /\ item.kind = kind
    BY <1>1, <1>2, <2>1, Walked
  <2> QED
    BY <2>1, <2>2
<1> HIDE DEF item
<1>4. Balanced(source', frames')
  <2>1. Balanced(source, frames) /\ frames' = frames
    BY <1>2 DEF LabelInv
  <2>2. Balanced(source', frames)
    BY <1>1, <1>3, <2>1, BalanceKept
  <2> QED
    BY <2>1, <2>2
<1>5. ASSUME Placed(source') PROVE FALSE
  <2>1. Len(source) + 1 \in 1..Len(source') /\ source'[Len(source) + 1].kind = kind
    BY <1>1, <1>3, LenProperties DEF Longer
  <2>2. Placed(source) /\ Balanced(source, frames)
    BY <1>3, <1>5, PlacedBefore DEF LabelInv
  <2>3. Sound(Held(frames, labelSwitch, switchStore), code, nextLabel) /\ Begun(frames, code)
    BY <2>2 DEF LabelInv
  <2>4. \A i, p : <<i, p, 0>> \notin Held(frames, labelSwitch, switchStore)
    BY <2>3 DEF Sound
  <2>5. CASE kind = "break"
    <3>1. Inside(source', Len(source) + 1, Breakable) # {}
      BY <1>5, <2>1, <2>5 DEF Placed
    <3>2. \E f \in 1..Len(frames) : frames[f].kind \in Breakable
      <4>1. Breakable \in SUBSET Kind
        BY DEF Breakable, Kind
      <4> QED
        BY <1>3, <2>2, <3>1, <4>1, InsideIsOpen
    <3>3. PICK m \in Enclosing(Breakable) : labelBreak = frames[m].end
      BY <3>2, BreakTarget DEF Enclosing
    <3>4. m \in 1..Len(frames) /\ frames[m].end = 0
      BY <1>2, <2>5, <3>3 DEF Enclosing
    <3>5. <<m, "end", 0>> \in Held(frames, labelSwitch, switchStore)
      BY <3>4, HeldIs DEF Holds, Slots
    <3> QED
      BY <2>4, <3>5
  <2>6. CASE kind = "continue"
    <3>1. Inside(source', Len(source) + 1, Loop) # {}
      BY <1>5, <2>1, <2>6 DEF Placed
    <3>2. \E f \in 1..Len(frames) : frames[f].kind \in Loop
      <4>1. Loop \in SUBSET Kind
        BY DEF Kind
      <4> QED
        BY <1>3, <2>2, <3>1, <4>1, InsideIsOpen
    <3>3. PICK m \in Enclosing(Loop) : labelContinue = frames[m].step
      BY <3>2, ContinueTarget DEF Enclosing
    <3>4. m \in 1..Len(frames) /\ frames[m].step = 0 /\ frames[m].kind \in Loop
      BY <1>2, <2>6, <3>3 DEF Enclosing
    <3>5. CASE frames[m].kind \in Stepped
      <4>1. <<m, "step", 0>> \in Held(frames, labelSwitch, switchStore)
        BY <3>4, <3>5, HeldIs DEF Holds, Slots
      <4> QED
        BY <2>4, <4>1
    <3>6. CASE frames[m].kind \notin Stepped
      <4>1. Wrote(code, 0)
        BY <2>3, <3>4, <3>6 DEF Begun
      <4> QED
        BY <2>3, <4>1 DEF Sound
    <3> QED
      BY <3>5, <3>6
  <2>7. CASE kind \in {"case", "default"}
    <3>1. Inside(source', Len(source) + 1, {"switch"}) # {}
      BY <1>5, <2>1, <2>7 DEF Placed
    <3>2. PICK m \in 1..Len(frames) : frames[m].kind = "switch" /\ LastSwitch(frames, m)
      <4>1. \E f \in 1..Len(frames) : frames[f].kind \in {"switch"}
        <5>1. {"switch"} \in SUBSET Kind
          BY DEF Kind
        <5> QED
          BY <1>3, <2>2, <3>1, <5>1, InsideIsOpen
      <4> QED
        BY <1>1, <4>1, SwitchLast
    <3>3. labelSwitch = 0
      BY <1>2, <2>7
    <3>4. <<m, "switch", 0>> \in Held(frames, labelSwitch, switchStore)
      BY <3>2, <3>3, HeldIs DEF Holds, Slots
    <3> QED
      BY <2>4, <3>4
  <2> QED
    BY <2>5, <2>6, <2>7
<1>6. /\ labelSwitch' = labelSwitch /\ switchStore' = switchStore /\ code' = code /\ nextLabel' = nextLabel
      /\ TargetsAre' = TargetsAre
  BY <1>2 DEF switch, jumps, TargetsAre
<1> QED
  BY <1>2, <1>4, <1>5, <1>6 DEF LabelInv

\* What the steps start from.
LEMMA Facts ==
  ASSUME IInv, LabelInv
  PROVE  /\ source \in Seq(ItemType) /\ nextLabel \in Nat /\ nextLabel >= 2 /\ here \in Nat
         /\ here = Len(source) + 1
         /\ Len(frames) \in Nat /\ Nested(frames) /\ Balanced(source, frames)
         /\ labelSwitch \in Nat /\ switchStore \in Nat /\ TargetsAre
  BY LenProperties DEF IInv, here, Nested, LabelInv

\* Entering a statement: one or two new slots, with new labels.
Gains(H, G, k, e, two, q, x) ==
  /\ q # "end"
  /\ \A i, p, l : <<i, p, l>> \in G <=>
       \/ <<i, p, l>> \in H
       \/ i = k /\ p = "end" /\ l = e
       \/ i = k /\ p = q /\ two /\ l = x

Fits(n, m, e, two, x, W, J) ==
  /\ e \in n..(m - 1) /\ e \notin W
  /\ two => x \in n..(m - 1) /\ x # e /\ x \notin W
  /\ \A l \in W : l \in n..(m - 1)
  /\ \A l \in J : l \in W \/ l = e \/ (two /\ l = x)

\* New labels, larger than every one given out, pass.
LEMMA EnterPasses ==
  ASSUME NEW c, NEW n \in Nat, NEW m \in Nat, NEW H, Sound(H, c, n), NEW G, NEW W, NEW J,
         NEW k, NEW e, NEW two, NEW q, NEW x,
         Gains(H, G, k, e, two, q, x), Fits(n, m, e, two, x, W, J)
  PROVE  Passes(c, n, m, H, G, W, J)
<1>0. /\ q # "end" /\ e \in n..(m - 1) /\ e \notin W
      /\ two => x \in n..(m - 1) /\ x # e /\ x \notin W
      /\ \A i, p, l : <<i, p, l>> \in G <=>
           \/ <<i, p, l>> \in H
           \/ i = k /\ p = "end" /\ l = e
           \/ i = k /\ p = q /\ two /\ l = x
      /\ \A l \in W : l \in n..(m - 1)
      /\ \A l \in J : l \in W \/ l = e \/ (two /\ l = x)
  BY DEF Gains, Fits
<1>1. \A i, p, l : <<i, p, l>> \in H => l \notin n..(m - 1)
  <2>1. \A i, p, l : <<i, p, l>> \in H => l \in 2..(n - 1)
    BY DEF Sound
  <2>2. \A l \in 2..(n - 1) : l \notin n..(m - 1)
    OBVIOUS
  <2> QED
    BY <2>1, <2>2
<1>2. \A i, p, l : <<i, p, l>> \in G => l \notin W /\ (<<i, p, l>> \in H \/ l \in n..(m - 1))
  <2> SUFFICES ASSUME NEW i, NEW p, NEW l, <<i, p, l>> \in G
               PROVE  l \notin W /\ (<<i, p, l>> \in H \/ l \in n..(m - 1))
    OBVIOUS
  <2>1. CASE <<i, p, l>> \in H
    BY <1>0, <1>1, <2>1
  <2>2. CASE l = e \/ (two /\ l = x)
    BY <1>0, <2>2
  <2> QED
    BY <1>0, <2>1, <2>2
<1>3. ASSUME NEW i, NEW p, NEW j, NEW r, NEW l, <<i, p, l>> \in G, <<j, r, l>> \in G, l \in n..(m - 1)
      PROVE  i = j /\ p = r
  <2>1. (i = k /\ p = "end" /\ l = e) \/ (i = k /\ p = q /\ two /\ l = x)
    BY <1>0, <1>1, <1>3
  <2>2. (j = k /\ r = "end" /\ l = e) \/ (j = k /\ r = q /\ two /\ l = x)
    BY <1>0, <1>1, <1>3
  <2> QED
    BY <1>0, <2>1, <2>2
<1>4. \A i, p, l : <<i, p, l>> \in H => \E j, r : <<j, r, l>> \in G
  BY <1>0
<1>5. \A l \in J : l \in W \/ \E i, p : <<i, p, l>> \in G
  <2>1. <<k, "end", e>> \in G /\ (two => <<k, q, x>> \in G)
    BY <1>0
  <2> QED
    BY <1>0, <2>1
<1>6. \A l \in W : (\E i, p : <<i, p, l>> \in H) \/ l \in n..(m - 1)
  BY <1>0
<1>7. \A i, p, j, r, l : <<i, p, l>> \in G /\ <<j, r, l>> \in G /\ l \in n..(m - 1) => i = j /\ p = r
  BY <1>3
<1>8. \A i, p, l : <<i, p, l>> \in H => l \in W \/ \E j, r : <<j, r, l>> \in G
  BY <1>4
<1>9. \A l \in J : Wrote(c, l) \/ l \in W \/ \E i, p : <<i, p, l>> \in G
  BY <1>5
<1> QED
  BY <1>2, <1>6, <1>7, <1>8, <1>9, Zenon DEF Passes

\* Leaving a statement: all its labels are written.
LEMMA LeavePasses ==
  ASSUME NEW c, NEW n \in Nat, NEW H, Sound(H, c, n), NEW G, NEW k, NEW W, NEW J,
         \A i, p, l : <<i, p, l>> \in G <=> <<i, p, l>> \in H /\ i # k,
         \A l : l \in W <=> \E p : <<k, p, l>> \in H,
         \A l \in J : l \in W \/ Wrote(c, l)
  PROVE  Passes(c, n, n, H, G, W, J)
<1>1. \A l : l \notin n..(n - 1)
  OBVIOUS
<1>2. \A i, p, j, q, l : <<i, p, l>> \in H /\ <<j, q, l>> \in H => i = j /\ p = q
  BY DEF Sound
<1>3. \A l \in W : \E i, p : <<i, p, l>> \in H
  OBVIOUS
<1>4. ASSUME NEW i, NEW p, NEW l, <<i, p, l>> \in G PROVE l \notin W /\ <<i, p, l>> \in H
  <2>1. <<i, p, l>> \in H /\ i # k
    BY <1>4
  <2>2. ASSUME l \in W PROVE FALSE
    <3>1. PICK q : <<k, q, l>> \in H
      BY <2>2
    <3> QED
      BY <1>2, <2>1, <3>1
  <2> QED
    BY <2>1, <2>2
<1>5. ASSUME NEW i, NEW p, NEW l, <<i, p, l>> \in H PROVE l \in W \/ \E j, q : <<j, q, l>> \in G
  BY <1>5
<1> QED
  BY <1>1, <1>3, <1>4, <1>5 DEF Passes

\* Going on: a slot gets a new label, and its old one is written.
Renews(n, m, old, now, W, J) ==
  /\ now \in n..(m - 1) /\ old \in W /\ now \notin W
  /\ \A l \in W : l = old \/ l \in n..(m - 1)
  /\ \A l \in J : l \in W \/ l = now

\* A label that takes the place of another passes when the other has been written.
LEMMA NextPasses ==
  ASSUME NEW c, NEW n \in Nat, NEW m \in Nat, NEW H, Sound(H, c, n), NEW G, NEW k, NEW s,
         NEW old, NEW now, NEW W, NEW J, Moves(H, G, k, s, old, now), Renews(n, m, old, now, W, J)
  PROVE  Passes(c, n, m, H, G, W, J)
<1>0. /\ \A i, p, l : <<i, p, l>> \in G <=>
            (<<i, p, l>> \in H /\ ~(i = k /\ p = s)) \/ (i = k /\ p = s /\ l = now)
      /\ \A l : <<k, s, l>> \in H <=> l = old
      /\ now \in n..(m - 1) /\ old \in W /\ now \notin W
      /\ \A l \in W : l = old \/ l \in n..(m - 1)
      /\ \A l \in J : l \in W \/ l = now
  BY DEF Moves, Renews
<1>1. \A i, p, l : <<i, p, l>> \in H => l \notin n..(m - 1)
  <2>1. \A i, p, l : <<i, p, l>> \in H => l \in 2..(n - 1)
    BY DEF Sound
  <2>2. \A l \in 2..(n - 1) : l \notin n..(m - 1)
    OBVIOUS
  <2> QED
    BY <2>1, <2>2
<1>2. \A i, p, j, q, l : <<i, p, l>> \in H /\ <<j, q, l>> \in H => i = j /\ p = q
  BY DEF Sound
<1>3. \A l \in W : (\E i, p : <<i, p, l>> \in H) \/ l \in n..(m - 1)
  BY <1>0
<1>4. \A i, p, l : <<i, p, l>> \in G => l \notin W /\ (<<i, p, l>> \in H \/ l \in n..(m - 1))
  <2> SUFFICES ASSUME NEW i, NEW p, NEW l, <<i, p, l>> \in G
               PROVE  l \notin W /\ (<<i, p, l>> \in H \/ l \in n..(m - 1))
    OBVIOUS
  <2>1. CASE i = k /\ p = s /\ l = now
    BY <1>0, <2>1
  <2>2. CASE <<i, p, l>> \in H /\ ~(i = k /\ p = s)
    <3>1. l # old
      <4>1. <<k, s, old>> \in H
        BY <1>0
      <4> QED
        BY <1>2, <2>2, <4>1
    <3>2. l \notin n..(m - 1)
      BY <1>1, <2>2
    <3> QED
      BY <1>0, <2>2, <3>1, <3>2
  <2> QED
    BY <1>0, <2>1, <2>2
<1>5. \A i, p, j, q, l : <<i, p, l>> \in G /\ <<j, q, l>> \in G /\ l \in n..(m - 1) => i = j /\ p = q
  BY <1>0, <1>1
<1>6. ASSUME NEW i, NEW p, NEW l, <<i, p, l>> \in H PROVE l \in W \/ \E j, q : <<j, q, l>> \in G
  <2>1. CASE i = k /\ p = s
    BY <1>0, <1>6, <2>1
  <2>2. CASE ~(i = k /\ p = s)
    <3>1. <<i, p, l>> \in G
      BY <1>0, <1>6, <2>2
    <3> QED
      BY <3>1
  <2> QED
    BY <2>1, <2>2
<1>7. \A l \in J : l \in W \/ \E i, p : <<i, p, l>> \in G
  <2>1. <<k, s, now>> \in G
    BY <1>0
  <2> QED
    BY <1>0, <2>1
<1> QED
  BY <1>3, <1>4, <1>5, <1>6, <1>7 DEF Passes

\* The frame of a statement is pushed where the body opens it.
LEMMA BalancePushed ==
  ASSUME NEW s, NEW item, NEW t, Longer(s, item, t), NEW fs, Balanced(s, fs),
         NEW f, NEW gs, Pushes(fs, f, gs), item.kind = f.kind, f.kind \in Kind, f.at = Len(s) + 1
  PROVE  Balanced(t, gs)
<1>1. /\ Len(fs) \in Nat /\ Len(gs) = Len(fs) + 1 /\ gs[Len(gs)] = f
      /\ \A i \in 1..Len(fs) : gs[i] = fs[i]
  BY DEF Pushes
<1>2. gs[Len(gs)].at = Len(s) + 1 /\ gs[Len(gs)].kind = item.kind /\ item.kind \in Kind
  BY <1>1
<1> QED
  BY <1>1, <1>2, BalanceOpened

\* The frame of a statement is popped where the body ends it.
LEMMA BalancePopped ==
  ASSUME NEW s, NEW item, NEW t, Longer(s, item, t), NEW fs, Balanced(s, fs),
         NEW gs, Pops(fs, gs), item.kind = "end"
  PROVE  Balanced(t, gs)
<1>1. /\ Len(fs) \in Nat /\ Len(fs) > 0 /\ Len(gs) = Len(fs) - 1
      /\ \A i \in 1..Len(gs) : gs[i] = fs[i]
  BY DEF Pops
<1> QED
  BY <1>1, BalanceEnded

\* Every step that enters a statement.
LEMMA EnterStep ==
  ASSUME IInv, LabelInv, NEW f \in FrameType, f.kind \in Kind, f.at = Len(source) + 1,
         Pushes(frames, f, frames'),
         NEW item, Longer(source, item, source'), item.kind = f.kind,
         NEW d, NEW W, NEW J, Writes(d, W, J), code' = code \o d,
         NEW m \in Nat, nextLabel' = m, nextLabel <= m, pc' = "body",
         labelSwitch' \in Nat, switchStore' \in Nat, TargetsAre',
         f.kind \in Loop => f.begin \in W /\ (f.kind \notin Stepped => f.step = f.begin),
         NEW H, H = Held(frames, labelSwitch, switchStore),
         NEW G, G = Held(frames', labelSwitch', switchStore'),
         NEW k, NEW e, NEW two, NEW q, NEW x,
         Gains(H, G, k, e, two, q, x), Fits(nextLabel, m, e, two, x, W, J)
  PROVE  LabelInv'
<1>1. /\ source \in Seq(ItemType) /\ nextLabel \in Nat
      /\ Len(frames) \in Nat /\ Nested(frames) /\ Balanced(source, frames)
  BY Facts
<1>2. /\ Len(frames') = Len(frames) + 1 /\ frames'[Len(frames')] = f
      /\ \A i \in 1..Len(frames) : frames'[i] = frames[i]
      /\ \A i \in 1..Len(frames') : i \in 1..Len(frames) \/ i = Len(frames')
  BY DEF Pushes
<1>3. Balanced(source', frames')
  BY <1>1, BalancePushed
<1>4. ASSUME Sound(H, code, nextLabel), Begun(frames, code)
      PROVE  Passes(code, nextLabel, nextLabel', H, G, W, J) /\ BegunBy(frames', code, W)
  <2>1. BegunBy(frames', code, W)
    <3> SUFFICES ASSUME NEW i \in 1..Len(frames'), frames'[i].kind \in Loop
                 PROVE  /\ Wrote(code, frames'[i].begin) \/ frames'[i].begin \in W
                        /\ frames'[i].kind \notin Stepped => frames'[i].step = frames'[i].begin
      BY DEF BegunBy
    <3>1. CASE i \in 1..Len(frames)
      BY <1>2, <1>4, <3>1 DEF Begun
    <3>2. CASE i = Len(frames')
      BY <1>2, <3>2
    <3> QED
      BY <1>2, <3>1, <3>2
  <2> DEFINE c == code
             n == nextLabel
  <2>2. n \in Nat /\ Sound(H, c, n)
    BY <1>1, <1>4
  <2>3. Fits(n, m, e, two, x, W, J)
    OBVIOUS
  <2> HIDE DEF c, n
  <2>4. Passes(c, n, m, H, G, W, J)
    BY <2>2, <2>3, EnterPasses
  <2> QED
    BY <2>1, <2>4 DEF c, n
<1>5. d \in Seq(Instruction)
  BY DEF Writes
<1> QED
  BY <1>1, <1>3, <1>4, <1>5, Emits

\* The beginning of an if.
LEMMA EnterIfStep ==
  ASSUME IInv, LabelInv, EnterIf
  PROVE  LabelInv'
<1>1. /\ source \in Seq(ItemType) /\ nextLabel \in Nat /\ nextLabel >= 2 /\ here \in Nat /\ here = Len(source) + 1
      /\ Len(frames) \in Nat /\ Nested(frames) /\ Balanced(source, frames)
      /\ labelSwitch \in Nat /\ switchStore \in Nat /\ TargetsAre
  BY Facts
<1> DEFINE item == [kind |-> "if", value |-> 0]
           f == Frame("if", 0, 0, nextLabel)
           d == <<Do(here, "cond"), Je(nextLabel)>>
           H == Held(frames, labelSwitch, switchStore)
           G == Held(frames', labelSwitch', switchStore')
           n == nextLabel
           m == n + 1
           J == {n}
           W == {}
<1>2. /\ Walk("if", 0) /\ nextLabel' = m /\ code' = code \o d /\ frames' = Append(frames, f)
      /\ UNCHANGED <<jumps, switch, pc>> /\ pc' = "body"
  BY DEF EnterIf, Fresh, Emit, Room
<1>3. Longer(source, item, source') /\ item.kind = "if" /\ item.kind \in Kind
  <2>1. "if" \in ItemKind /\ "if" \in Kind /\ 0 \in Nat
    BY <1>2 DEF ItemKind, Kind
  <2>2. PICK j : j = item
    OBVIOUS
  <2>3. Longer(source, j, source') /\ j.kind = "if"
    BY <1>1, <1>2, <2>1, <2>2, Walked
  <2> QED
    BY <2>1, <2>2, <2>3
<1>4. /\ f \in FrameType /\ f.kind = "if" /\ f.nest = NestOf(frames) /\ f.end = n /\ f.at = here
      /\ f.kind \notin Stepped /\ f.kind \notin Loop
  <2>1. NestOf(frames) \in 0..2
    BY <1>1, NestRange
  <2> QED
    BY <1>1, <2>1, NestIs DEF Frame, FrameType, Kind, Loop, Stepped
<1>5. Writes(d, W, J)
  <2>1. Writes(<<Do(here, "cond")>>, {}, {}) /\ Writes(<<Je(n)>>, {}, {n})
    BY <1>1, WritesDo, WritesJump DEF Parts
  <2>2. Writes(d, {} \cup {}, {} \cup {n})
    BY <2>1, WritesTwo
  <2> QED
    BY <2>2
<1>6. labelSwitch' = labelSwitch /\ switchStore' = switchStore /\ TargetsAre'
  BY <1>1, <1>2 DEF switch, jumps, TargetsAre
<1> HIDE DEF item, f, d
<1>7. Pushes(frames, f, frames')
  BY <1>1, <1>2, <1>4, NestedPush
<1> DEFINE k == Len(frames')
<1>8. Gains(H, G, k, n, FALSE, "step", 0)
  <2> SUFFICES ASSUME NEW i, NEW p, NEW l
               PROVE  <<i, p, l>> \in G <=> <<i, p, l>> \in H \/ (i = k /\ p = "end" /\ l = n)
    BY DEF Gains
  <2>1. <<i, p, l>> \in Held(frames', labelSwitch, switchStore) <=>
           \/ <<i, p, l>> \in Held(frames, labelSwitch, switchStore)
           \/ i = Len(frames') /\ p = "end" /\ l = f.end
           \/ i = Len(frames') /\ p = "step" /\ f.kind \in Stepped /\ l = f.step
    BY <1>4, <1>7, PushHeld
  <2> QED
    BY <1>4, <1>6, <2>1
<1>9. Fits(n, m, n, FALSE, 0, W, J)
  BY <1>1 DEF Fits
<1>10. /\ m \in Nat /\ n <= m /\ labelSwitch' \in Nat /\ switchStore' \in Nat
       /\ f.kind \in Kind /\ f.at = Len(source) + 1 /\ item.kind = f.kind
  BY <1>1, <1>3, <1>4, <1>6
<1>11. H = Held(frames, labelSwitch, switchStore) /\ G = Held(frames', labelSwitch', switchStore') /\ n = nextLabel
  OBVIOUS
<1> HIDE DEF H, G, W, J, m, k
<1> QED
  BY <1>2, <1>3, <1>4, <1>5, <1>6, <1>7, <1>8, <1>9, <1>10, <1>11, EnterStep

\* The beginning of a loop.
LEMMA EnterLoopStep ==
  ASSUME MaxNest <= 2, IInv, LabelInv, NEW kind \in Loop, EnterLoop(kind)
  PROVE  LabelInv'
<1>1. /\ source \in Seq(ItemType) /\ nextLabel \in Nat /\ nextLabel >= 2 /\ here \in Nat /\ here = Len(source) + 1
      /\ Len(frames) \in Nat /\ Nested(frames) /\ Balanced(source, frames)
      /\ labelSwitch \in Nat /\ switchStore \in Nat /\ TargetsAre
  BY Facts
<1> DEFINE item == [kind |-> kind, value |-> 0]
           n == nextLabel
           step == IF kind \in {"for", "forever"} THEN n + 1 ELSE n
           end == step + 1
           m == end + 1
           f == Frame(kind, n, step, end)
           d == LoopHead(kind, here, n, end)
           H == Held(frames, labelSwitch, switchStore)
           G == Held(frames', labelSwitch', switchStore')
           J == IF kind \in {"for", "while"} THEN {end} ELSE {}
           W == {n}
           k == Len(frames')
           two == kind \in Stepped
<1>2. /\ Walk(kind, 0) /\ nextLabel' = n + (end + 1 - n) /\ code' = code \o d /\ frames' = Append(frames, f)
      /\ JumpSave(end, step) /\ nest < MaxNest
      /\ UNCHANGED <<switch, pc>> /\ pc' = "body"
  BY DEF EnterLoop, Fresh, Emit, Room
<1>3. n \in Nat /\ step \in Nat /\ end \in Nat /\ m \in Nat /\ nextLabel' = m
  BY <1>1, <1>2
<1>4. Longer(source, item, source') /\ item.kind = kind /\ kind \in Kind
  <2>1. kind \in ItemKind /\ kind \in Kind /\ 0 \in Nat
    BY <1>2 DEF ItemKind, Kind
  <2>2. PICK j : j = item
    OBVIOUS
  <2>3. Longer(source, j, source') /\ j.kind = kind
    BY <1>1, <1>2, <2>1, <2>2, Walked
  <2> QED
    BY <2>1, <2>2, <2>3
<1>5. NestOf(frames) \in 0..1
  BY <1>1, <1>2, NestIs, NestRange, BoundsAssumption
<1>6. /\ f \in FrameType /\ f.kind = kind /\ f.nest = NestOf(frames) + 1 /\ f.end = end /\ f.at = here
      /\ f.step = step /\ f.begin = n /\ kind # "if" /\ kind # "switch"
  BY <1>1, <1>3, <1>4, <1>5, NestIs DEF Frame, FrameType, Loop
<1>7. Writes(d, W, J)
  <2> HIDE DEF n, end
  <2> QED
    BY <1>1, <1>3, WritesHead
<1>8. /\ labelSwitch' = labelSwitch /\ switchStore' = switchStore /\ TargetsAre'
      /\ labelSwitch' \in Nat /\ switchStore' \in Nat
  BY <1>1, <1>2, <1>3 DEF switch, JumpSave, TargetsAre
<1>9. Fits(n, m, end, two, step, W, J) /\ n <= m
  <2>1. two => step = n + 1
    BY DEF Stepped
  <2>2. end \in n..(m - 1) /\ end \notin W /\ step \in n..(m - 1) /\ step # end /\ n \in n..(m - 1) /\ n <= m
    BY <1>3
  <2>3. two => step \notin W
    BY <1>3, <2>1
  <2> HIDE DEF n, m, end, step, two
  <2> QED
    BY <2>2, <2>3 DEF Fits
<1>10. f.kind \in Loop => f.begin \in W /\ (f.kind \notin Stepped => f.step = f.begin)
  <2>1. kind \notin Stepped => step = n
    BY DEF Stepped
  <2> HIDE DEF f, n, step
  <2> QED
    BY <1>6, <2>1
<1> HIDE DEF item, f, d, n, step, end, m
<1>11. Pushes(frames, f, frames')
  BY <1>1, <1>2, <1>5, <1>6, NestedPush
<1>12. Gains(H, G, k, end, two, "step", step)
  <2> SUFFICES ASSUME NEW i, NEW p, NEW l
               PROVE  <<i, p, l>> \in G <=> \/ <<i, p, l>> \in H
                                            \/ i = k /\ p = "end" /\ l = end
                                            \/ i = k /\ p = "step" /\ two /\ l = step
    BY DEF Gains
  <2>1. <<i, p, l>> \in Held(frames', labelSwitch, switchStore) <=>
           \/ <<i, p, l>> \in Held(frames, labelSwitch, switchStore)
           \/ i = Len(frames') /\ p = "end" /\ l = f.end
           \/ i = Len(frames') /\ p = "step" /\ f.kind \in Stepped /\ l = f.step
    BY <1>6, <1>11, PushHeld
  <2> QED
    BY <1>6, <1>8, <2>1
<1>13. f.kind \in Kind /\ f.at = Len(source) + 1 /\ item.kind = f.kind
  BY <1>1, <1>4, <1>6
<1>14. H = Held(frames, labelSwitch, switchStore) /\ G = Held(frames', labelSwitch', switchStore') /\ n = nextLabel
  BY DEF n
<1> HIDE DEF H, G, W, J, k, two
<1>15. code' = code \o d /\ pc' = "body" /\ f \in FrameType /\ nextLabel <= m
  BY <1>2, <1>6, <1>9, <1>14
<1> QED
  BY <1>3, <1>4, <1>6, <1>7, <1>8, <1>9, <1>10, <1>11, <1>12, <1>13, <1>14, <1>15, EnterStep

\* The beginning of a switch.
LEMMA EnterSwitchStep ==
  ASSUME MaxNest <= 2, IInv, LabelInv, EnterSwitch
  PROVE  LabelInv'
<1>1. /\ source \in Seq(ItemType) /\ nextLabel \in Nat /\ nextLabel >= 2 /\ here \in Nat /\ here = Len(source) + 1
      /\ Len(frames) \in Nat /\ Nested(frames) /\ Balanced(source, frames)
      /\ labelSwitch \in Nat /\ switchStore \in Nat /\ TargetsAre
  BY Facts
<1> DEFINE item == [kind |-> "switch", value |-> 0]
           n == nextLabel
           end == n + 1
           m == n + 2
           f == Frame("switch", 0, 0, end)
           d == <<Do(here, "cond"), Jmp(n)>>
           H == Held(frames, labelSwitch, switchStore)
           G == Held(frames', labelSwitch', switchStore')
           J == {n}
           W == {}
           k == Len(frames')
<1>2. /\ Walk("switch", 0) /\ nextLabel' = m /\ code' = code \o d /\ frames' = Append(frames, f)
      /\ switchStore' = labelSwitch /\ labelSwitch' = n /\ breakStore' = labelBreak /\ labelBreak' = end
      /\ nest < MaxNest /\ UNCHANGED <<labelContinue, continueStore, pc>> /\ pc' = "body"
  BY DEF EnterSwitch, Fresh, Emit, Room
<1>3. n \in Nat /\ end \in Nat /\ m \in Nat
  BY <1>1
<1>4. Longer(source, item, source') /\ item.kind = "switch" /\ "switch" \in Kind
  <2>1. "switch" \in ItemKind /\ "switch" \in Kind /\ 0 \in Nat
    BY <1>2 DEF ItemKind, Kind
  <2>2. PICK j : j = item
    OBVIOUS
  <2>3. Longer(source, j, source') /\ j.kind = "switch"
    BY <1>1, <1>2, <2>1, <2>2, Walked
  <2> QED
    BY <2>1, <2>2, <2>3
<1>5. NestOf(frames) \in 0..1
  BY <1>1, <1>2, NestIs, NestRange, BoundsAssumption
<1>6. /\ f \in FrameType /\ f.kind = "switch" /\ f.nest = NestOf(frames) + 1 /\ f.end = end /\ f.at = here
      /\ f.kind \notin Loop
  BY <1>1, <1>3, <1>4, <1>5, NestIs DEF Frame, FrameType, Loop
<1>7. Writes(d, W, J)
  <2>1. Writes(<<Do(here, "cond")>>, {}, {}) /\ Writes(<<Jmp(n)>>, {}, {n})
    BY <1>1, WritesDo, WritesJump DEF Parts
  <2>2. Writes(d, {} \cup {}, {} \cup {n})
    BY <2>1, WritesTwo
  <2> QED
    BY <2>2
<1>8. TargetsAre' /\ labelSwitch' \in Nat /\ switchStore' \in Nat
  BY <1>1, <1>2, <1>3 DEF TargetsAre
<1>9. Fits(n, m, end, TRUE, n, W, J) /\ n <= m
  BY <1>3 DEF Fits
<1> HIDE DEF item, f, d, n, end, m
<1>10. Pushes(frames, f, frames')
  BY <1>1, <1>2, <1>5, <1>6, NestedPush
<1>11. Gains(H, G, k, end, TRUE, "switch", n)
  <2> SUFFICES ASSUME NEW i, NEW p, NEW l
               PROVE  <<i, p, l>> \in G <=> \/ <<i, p, l>> \in H
                                            \/ i = k /\ p = "end" /\ l = end
                                            \/ i = k /\ p = "switch" /\ l = n
    BY DEF Gains
  <2>1. <<i, p, l>> \in Held(frames', n, labelSwitch) <=>
           \/ <<i, p, l>> \in Held(frames, labelSwitch, switchStore)
           \/ i = Len(frames') /\ p = "end" /\ l = f.end
           \/ i = Len(frames') /\ p = "switch" /\ l = n
    BY <1>1, <1>3, <1>6, <1>10, PushSwitchHeld
  <2> QED
    BY <1>2, <1>6, <2>1
<1>12. f.kind \in Kind /\ f.at = Len(source) + 1 /\ item.kind = f.kind
  BY <1>1, <1>4, <1>6
<1>13. H = Held(frames, labelSwitch, switchStore) /\ G = Held(frames', labelSwitch', switchStore') /\ n = nextLabel
  BY DEF n
<1> HIDE DEF H, G, W, J, k
<1>14. code' = code \o d /\ pc' = "body" /\ nextLabel' = m /\ nextLabel <= m
  BY <1>2, <1>9, <1>13
<1> QED
  BY <1>3, <1>4, <1>6, <1>7, <1>8, <1>9, <1>10, <1>11, <1>12, <1>13, <1>14, EnterStep

-----------------------------------------------------------------------------
\* Every step that leaves a statement.
LEMMA LeaveStep ==
  ASSUME IInv, LabelInv, Pops(frames, frames'),
         NEW item, Longer(source, item, source'), item.kind = "end",
         NEW d \in Seq(Instruction), NEW W, NEW J, code' = code \o d,
         nextLabel' = nextLabel, pc' = "body",
         labelSwitch' \in Nat, switchStore' \in Nat, TargetsAre',
         NEW H, H = Held(frames, labelSwitch, switchStore),
         NEW G, G = Held(frames', labelSwitch', switchStore'),
         \A i, p, l : <<i, p, l>> \in G <=> <<i, p, l>> \in H /\ i # Len(frames),
         Placed(source) /\ Sound(H, code, nextLabel) =>
           Writes(d, W, J) /\ \A l : l \in W <=> \E p : <<Len(frames), p, l>> \in H,
         Begun(frames, code) => \A l \in J : l \in W \/ Wrote(code, l)
  PROVE  LabelInv'
<1>1. nextLabel \in Nat /\ Balanced(source, frames)
  BY Facts
<1>2. /\ Len(frames) \in Nat /\ Len(frames) > 0 /\ Len(frames') = Len(frames) - 1
      /\ \A i \in 1..Len(frames') : frames'[i] = frames[i]
  BY DEF Pops
<1>3. Balanced(source', frames')
  BY <1>1, BalancePopped
<1>4. ASSUME Placed(source), Sound(H, code, nextLabel), Begun(frames, code)
      PROVE  /\ Writes(d, W, J)
             /\ Passes(code, nextLabel, nextLabel', H, G, W, J) /\ BegunBy(frames', code, W)
  <2>1. BegunBy(frames', code, W)
    BY <1>2, <1>4 DEF Begun, BegunBy
  <2> DEFINE c == code
             n == nextLabel
             k == Len(frames)
  <2>2. /\ n \in Nat /\ Sound(H, c, n)
        /\ \A i, p, l : <<i, p, l>> \in G <=> <<i, p, l>> \in H /\ i # k
        /\ \A l : l \in W <=> \E p : <<k, p, l>> \in H
        /\ \A l \in J : l \in W \/ Wrote(c, l)
    BY <1>1, <1>4
  <2> HIDE DEF c, n, k
  <2>3. Passes(c, n, n, H, G, W, J)
    BY <2>2, LeavePasses
  <2> QED
    BY <1>4, <2>1, <2>3 DEF c, n
<1> QED
  BY <1>1, <1>3, <1>4, Emits, SMTT(30)

\* The innermost frame is one, and leaving it leaves the others.
LEMMA PopsOuter ==
  ASSUME NEW fs, Nested(fs), fs # << >>, NEW gs, gs = SubSeq(fs, 1, Len(fs) - 1)
  PROVE  Pops(fs, gs) /\ fs[Len(fs)] \in FrameType /\ Len(fs) \in 1..Len(fs)
<1>1. fs \in Seq(FrameType)
  BY DEF Nested
<1>2. /\ Len(fs) \in Nat /\ Len(fs) > 0 /\ Len(gs) = Len(fs) - 1
      /\ \A i \in 1..(Len(fs) - 1) : gs[i] = fs[i]
  BY <1>1, Popped
<1> QED
  BY <1>2, FrameOf DEF Pops

\* The end of an if.
LEMMA LeaveIfStep ==
  ASSUME IInv, LabelInv, LeaveIf
  PROVE  LabelInv'
<1>1. /\ source \in Seq(ItemType) /\ nextLabel \in Nat /\ Nested(frames)
      /\ labelSwitch \in Nat /\ switchStore \in Nat /\ TargetsAre
  BY Facts
<1> DEFINE item == [kind |-> "end", value |-> 0]
           d == <<Label(top.end)>>
           H == Held(frames, labelSwitch, switchStore)
           G == Held(frames', labelSwitch', switchStore')
           J == {}
           W == {top.end}
           k == Len(frames)
<1>2. /\ Walk("end", 0) /\ code' = code \o d /\ frames' = SubSeq(frames, 1, Len(frames) - 1)
      /\ frames # << >> /\ top.kind = "if"
      /\ UNCHANGED <<nextLabel, jumps, switch>> /\ pc' = "body"
  BY DEF LeaveIf, Emit, outer
<1>3. Longer(source, item, source') /\ item.kind = "end"
  <2>1. "end" \in ItemKind /\ 0 \in Nat
    BY <1>2 DEF ItemKind
  <2>2. PICK j : j = item
    OBVIOUS
  <2>3. Longer(source, j, source') /\ j.kind = "end"
    BY <1>1, <1>2, <2>1, <2>2, Walked
  <2> QED
    BY <2>1, <2>2, <2>3
<1>4. Pops(frames, frames') /\ top \in FrameType /\ k \in 1..Len(frames) /\ frames[k] = top
  BY <1>1, <1>2, PopsOuter DEF top
<1>5. Writes(d, W, J)
  BY <1>4, WritesLabel DEF FrameType
<1>6. /\ labelSwitch' = labelSwitch /\ switchStore' = switchStore /\ TargetsAre'
      /\ labelSwitch' \in Nat /\ switchStore' \in Nat
  BY <1>1, <1>2 DEF switch, jumps, TargetsAre
<1>7. \A i, p, l : <<i, p, l>> \in G <=> <<i, p, l>> \in H /\ i # k
  <2> SUFFICES ASSUME NEW i, NEW p, NEW l PROVE <<i, p, l>> \in G <=> <<i, p, l>> \in H /\ i # k
    OBVIOUS
  <2>1. <<i, p, l>> \in Held(frames', labelSwitch, switchStore) <=>
          <<i, p, l>> \in Held(frames, labelSwitch, switchStore) /\ i # Len(frames)
    BY <1>2, <1>4, PopHeld
  <2> QED
    BY <1>6, <2>1
<1>8. \A l : l \in W <=> \E p : <<k, p, l>> \in H
  <2> SUFFICES ASSUME NEW l PROVE l \in W <=> \E p : <<k, p, l>> \in H
    OBVIOUS
  <2>1. top.kind \notin Stepped /\ top.kind # "switch" /\ top.end \in Nat
    BY <1>2, <1>4 DEF Stepped, FrameType
  <2>2. \A p : Holds(frames, labelSwitch, switchStore, k, p, l) <=> p = "end" /\ l = top.end
    BY <1>4, <2>1 DEF Holds
  <2>3. \A p : <<k, p, l>> \in H <=> p = "end" /\ l = top.end
    BY <1>4, <2>1, <2>2, HeldIs DEF Slots
  <2> HIDE DEF H
  <2> QED
    BY <2>3
<1>9. H = Held(frames, labelSwitch, switchStore) /\ G = Held(frames', labelSwitch', switchStore')
  OBVIOUS
<1>10. code' = code \o d /\ pc' = "body" /\ nextLabel' = nextLabel /\ \A l \in J : l \in W \/ Wrote(code, l)
  BY <1>2
<1>11. /\ \A i, p, l : <<i, p, l>> \in G <=> <<i, p, l>> \in H /\ i # Len(frames)
       /\ Writes(d, W, J) /\ \A l : l \in W <=> \E p : <<Len(frames), p, l>> \in H
       /\ d \in Seq(Instruction)
  BY <1>5, <1>7, <1>8 DEF Writes
<1> HIDE DEF item, d, H, G, J, W, k
<1> QED
  BY <1>3, <1>4, <1>5, <1>6, <1>9, <1>10, <1>11, LeaveStep, ZenonT(40)

\* The end of a loop is code.
LEMMA TailIs ==
  ASSUME NEW f \in FrameType, f.kind \in Loop
  PROVE  LoopTail(f.kind, f.at, f.begin, f.step, f.end) \in Seq(Instruction)
<1>1. f.at \in Nat /\ f.begin \in Nat /\ f.step \in Nat /\ f.end \in Nat
  BY DEF FrameType
<1>2. /\ Do(f.at, "cond") \in Instruction /\ Do(f.at, "step") \in Instruction /\ Jmp(f.begin) \in Instruction
      /\ Label(f.step) \in Instruction /\ Label(f.end) \in Instruction /\ Je(f.end) \in Instruction
  BY <1>1 DEF Do, Jmp, Label, Je, Instruction, Parts
<1>3. /\ <<Jmp(f.begin), Label(f.end)>> \in Seq(Instruction)
      /\ <<Label(f.step), Do(f.at, "step")>> \in Seq(Instruction)
      /\ <<Do(f.at, "cond"), Je(f.end)>> \in Seq(Instruction)
      /\ << >> \in Seq(Instruction)
  BY <1>2
<1> QED
  BY <1>3, ConcatProperties DEF LoopTail

\* The end of a loop: its labels are written, and the jumps to them have somewhere to go.
LEMMA LeaveLoopStep ==
  ASSUME IInv, LabelInv, LeaveLoop
  PROVE  LabelInv'
<1>1. /\ source \in Seq(ItemType) /\ nextLabel \in Nat /\ Nested(frames)
      /\ labelSwitch \in Nat /\ switchStore \in Nat /\ TargetsAre
  BY Facts
<1> DEFINE item == [kind |-> "end", value |-> 0]
           d == LoopTail(top.kind, top.at, top.begin, top.step, top.end)
           H == Held(frames, labelSwitch, switchStore)
           G == Held(frames', labelSwitch', switchStore')
           J == {top.begin} \cup (IF top.kind = "do" THEN {top.end} ELSE {})
           W == {top.end} \cup (IF top.kind \in Stepped THEN {top.step} ELSE {})
           k == Len(frames)
<1>2. /\ Walk("end", 0) /\ code' = code \o d /\ frames' = SubSeq(frames, 1, Len(frames) - 1)
      /\ frames # << >> /\ top.kind \in Loop /\ JumpRestore
      /\ UNCHANGED <<nextLabel, switch>> /\ pc' = "body"
  BY DEF LeaveLoop, Emit, outer
<1>3. Longer(source, item, source') /\ item.kind = "end"
  <2>1. "end" \in ItemKind /\ 0 \in Nat
    BY <1>2 DEF ItemKind
  <2>2. PICK j : j = item
    OBVIOUS
  <2>3. Longer(source, j, source') /\ j.kind = "end"
    BY <1>1, <1>2, <2>1, <2>2, Walked
  <2> QED
    BY <2>1, <2>2, <2>3
<1>4. Pops(frames, frames') /\ top \in FrameType /\ k \in 1..Len(frames) /\ frames[k] = top
  BY <1>1, <1>2, PopsOuter DEF top
<1>6. /\ labelSwitch' = labelSwitch /\ switchStore' = switchStore /\ TargetsAre'
      /\ labelSwitch' \in Nat /\ switchStore' \in Nat
  BY <1>1, <1>2 DEF switch, JumpRestore, TargetsAre
<1>7. \A i, p, l : <<i, p, l>> \in G <=> <<i, p, l>> \in H /\ i # k
  <2> SUFFICES ASSUME NEW i, NEW p, NEW l PROVE <<i, p, l>> \in G <=> <<i, p, l>> \in H /\ i # k
    OBVIOUS
  <2>1. <<i, p, l>> \in Held(frames', labelSwitch, switchStore) <=>
          <<i, p, l>> \in Held(frames, labelSwitch, switchStore) /\ i # Len(frames)
    BY <1>2, <1>4, PopHeld DEF Loop
  <2> QED
    BY <1>6, <2>1
<1>8. \A l : l \in W <=> \E p : <<k, p, l>> \in H
  <2> SUFFICES ASSUME NEW l PROVE l \in W <=> \E p : <<k, p, l>> \in H
    OBVIOUS
  <2>1. top.kind # "switch" /\ top.end \in Nat /\ top.step \in Nat
    BY <1>2, <1>4 DEF Loop, FrameType
  <2>2. \A p : Holds(frames, labelSwitch, switchStore, k, p, l) <=>
                 (p = "end" /\ l = top.end) \/ (p = "step" /\ top.kind \in Stepped /\ l = top.step)
    BY <1>4, <2>1 DEF Holds
  <2>3. \A p : <<k, p, l>> \in H <=>
                 (p = "end" /\ l = top.end) \/ (p = "step" /\ top.kind \in Stepped /\ l = top.step)
    BY <1>4, <2>1, <2>2, HeldIs DEF Slots
  <2> HIDE DEF H
  <2> QED
    BY <2>3
<1>5. Sound(H, code, nextLabel) => Writes(d, W, J)
  <2> SUFFICES ASSUME Sound(H, code, nextLabel) PROVE Writes(d, W, J)
    OBVIOUS
  <2>1. top.step \in Nat /\ top.end \in Nat /\ top.begin \in Nat /\ top.at \in Nat
    BY <1>4 DEF FrameType
  <2>2. <<k, "end", top.end>> \in H /\ (top.kind \in Stepped => <<k, "step", top.step>> \in H)
    BY <1>4, <2>1, HeldIs DEF Holds, Slots
  <2>3. top.kind \in Stepped => top.step # top.end
    <3> HIDE DEF H
    <3> QED
      BY <2>2 DEF Sound
  <2> QED
    BY <1>2, <2>1, <2>3, WritesTail
<1>9. d \in Seq(Instruction)
  BY <1>2, <1>4, TailIs
<1>10. Begun(frames, code) => \A l \in J : l \in W \/ Wrote(code, l)
  BY <1>2, <1>4 DEF Begun
<1>11. H = Held(frames, labelSwitch, switchStore) /\ G = Held(frames', labelSwitch', switchStore')
  OBVIOUS
<1>12. code' = code \o d /\ pc' = "body" /\ nextLabel' = nextLabel
  BY <1>2
<1>13. /\ \A i, p, l : <<i, p, l>> \in G <=> <<i, p, l>> \in H /\ i # Len(frames)
       /\ \A l : l \in W <=> \E p : <<Len(frames), p, l>> \in H
  BY <1>7, <1>8
<1> HIDE DEF item, d, H, G, J, W, k
<1> QED
  BY <1>3, <1>4, <1>5, <1>6, <1>9, <1>10, <1>11, <1>12, <1>13, LeaveStep

\* The end of a switch writes where its last test and where its breaks lead.
LEMMA LeaveSwitchStep ==
  ASSUME IInv, LabelInv, LeaveSwitch
  PROVE  LabelInv'
<1>1. /\ source \in Seq(ItemType) /\ nextLabel \in Nat /\ Nested(frames)
      /\ labelSwitch \in Nat /\ switchStore \in Nat /\ TargetsAre
  BY Facts
<1> DEFINE item == [kind |-> "end", value |-> 0]
           d == <<Label(labelSwitch), Label(top.end)>>
           H == Held(frames, labelSwitch, switchStore)
           G == Held(frames', labelSwitch', switchStore')
           J == {}
           W == {labelSwitch, top.end}
           k == Len(frames)
<1>2. /\ Walk("end", 0) /\ code' = code \o <<Label(labelSwitch), Label(labelBreak)>>
      /\ frames' = SubSeq(frames, 1, Len(frames) - 1)
      /\ frames # << >> /\ top.kind = "switch"
      /\ labelSwitch' = switchStore /\ labelBreak' = breakStore
      /\ UNCHANGED <<nextLabel, labelContinue, breakStore, continueStore, switchStore>> /\ pc' = "body"
  BY DEF LeaveSwitch, Emit, outer
<1>3. Longer(source, item, source') /\ item.kind = "end"
  <2>1. "end" \in ItemKind /\ 0 \in Nat /\ item = [kind |-> "end", value |-> 0]
    BY DEF ItemKind
  <2> HIDE DEF item, W, d, H, G
  <2> QED
    BY <1>1, <1>2, <2>1, Walked
<1>4. Pops(frames, frames') /\ top \in FrameType /\ k \in 1..Len(frames) /\ frames[k] = top
  BY <1>1, <1>2, PopsOuter DEF top
<1>5. labelBreak = top.end
  <2>1. BreakKept(frames, labelBreak, breakStore) /\ NestOf(frames) = frames[k].nest
    BY <1>2 DEF IInv, NestOf
  <2> HIDE DEF k
  <2> QED
    BY <1>2, <1>4, <2>1 DEF BreakKept
<1>6. /\ labelSwitch' = switchStore /\ switchStore' = switchStore /\ TargetsAre'
      /\ labelSwitch' \in Nat /\ switchStore' \in Nat /\ top.end \in Nat
  BY <1>1, <1>2, <1>4 DEF TargetsAre, FrameType
<1>7. \A i, p, l : <<i, p, l>> \in G <=> <<i, p, l>> \in H /\ i # k
  <2> SUFFICES ASSUME NEW i, NEW p, NEW l PROVE <<i, p, l>> \in G <=> <<i, p, l>> \in H /\ i # k
    OBVIOUS
  <2>1. <<i, p, l>> \in Held(frames', switchStore, switchStore) <=>
          <<i, p, l>> \in Held(frames, labelSwitch, switchStore) /\ i # Len(frames)
    BY <1>1, <1>2, <1>4, PopSwitchHeld
  <2> QED
    BY <1>6, <2>1
<1>8. \A p, l : <<k, p, l>> \in H <=> (p = "end" /\ l = top.end) \/ (p = "switch" /\ l = labelSwitch)
  <2> SUFFICES ASSUME NEW p, NEW l
               PROVE  <<k, p, l>> \in H <=> (p = "end" /\ l = top.end) \/ (p = "switch" /\ l = labelSwitch)
    OBVIOUS
  <2>1. top.kind \notin Stepped
    BY <1>2 DEF Stepped
  <2>2. LastSwitch(frames, k)
    BY <1>4 DEF LastSwitch, Pops
  <2>3. Holds(frames, labelSwitch, switchStore, k, p, l) <=>
          (p = "end" /\ l = top.end) \/ (p = "switch" /\ l = labelSwitch)
    BY <1>2, <1>4, <2>1, <2>2 DEF Holds
  <2> QED
    BY <1>1, <1>4, <1>6, <2>3, HeldIs DEF Slots
<1>9. Sound(H, code, nextLabel) => Writes(d, W, J) /\ \A l : l \in W <=> \E p : <<k, p, l>> \in H
  <2> SUFFICES ASSUME Sound(H, code, nextLabel)
               PROVE  Writes(d, W, J) /\ \A l : l \in W <=> \E p : <<k, p, l>> \in H
    OBVIOUS
  <2>1. <<k, "end", top.end>> \in H /\ <<k, "switch", labelSwitch>> \in H
    BY <1>8
  <2>2. labelSwitch # top.end
    <3> HIDE DEF H
    <3> QED
      BY <2>1 DEF Sound
  <2>3. Writes(<<Label(labelSwitch)>>, {labelSwitch}, {}) /\ Writes(<<Label(top.end)>>, {top.end}, {})
    BY <1>1, <1>6, WritesLabel
  <2>4. Writes(d, {labelSwitch} \cup {top.end}, {} \cup {})
    BY <2>2, <2>3, WritesTwo
  <2>5. Writes(d, W, J)
    <3>1. {labelSwitch} \cup {top.end} = W /\ {} \cup {} = J
      OBVIOUS
    <3> HIDE DEF d, W, J
    <3> QED
      BY <2>4, <3>1
  <2>6. \A l : l \in W <=> l = labelSwitch \/ l = top.end
    OBVIOUS
  <2> HIDE DEF H, W, k
  <2>7. ASSUME NEW l PROVE l \in W <=> \E p : <<k, p, l>> \in H
    <3>1. ASSUME l \in W PROVE \E p : <<k, p, l>> \in H
      <4>1. <<k, "end", top.end>> \in H /\ <<k, "switch", labelSwitch>> \in H
        BY <2>1
      <4> QED
        BY <2>6, <3>1, <4>1
    <3>2. ASSUME NEW p, <<k, p, l>> \in H PROVE l \in W
      BY <1>8, <2>6, <3>2
    <3> QED
      BY <3>1, <3>2
  <2> QED
    BY <2>5, <2>7
<1>10. d \in Seq(Instruction)
  <2>1. Label(labelSwitch) \in Instruction /\ Label(top.end) \in Instruction
    BY <1>1, <1>6 DEF Label, Instruction
  <2> QED
    BY <2>1
<1>11. H = Held(frames, labelSwitch, switchStore) /\ G = Held(frames', labelSwitch', switchStore')
  OBVIOUS
<1>12. code' = code \o d /\ pc' = "body" /\ nextLabel' = nextLabel /\ \A l \in J : l \in W \/ Wrote(code, l)
  BY <1>2, <1>5
<1>13. \A i, p, l : <<i, p, l>> \in G <=> <<i, p, l>> \in H /\ i # Len(frames)
  BY <1>7
<1>14. Sound(H, code, nextLabel) => Writes(d, W, J) /\ \A l : l \in W <=> \E p : <<Len(frames), p, l>> \in H
  BY <1>9
<1> HIDE DEF item, d, H, G, J, W, k
<1> QED
  BY <1>3, <1>4, <1>6, <1>10, <1>11, <1>12, <1>13, <1>14, LeaveStep

-----------------------------------------------------------------------------
\* Every step that goes on with a slot under a new label.
LEMMA GoOnStep ==
  ASSUME IInv, LabelInv, Len(frames) \in Nat,
         Len(frames') = Len(frames),
         \A i \in 1..Len(frames) :
           /\ frames'[i].at = frames[i].at /\ frames'[i].kind = frames[i].kind
           /\ frames'[i].begin = frames[i].begin /\ frames'[i].step = frames[i].step,
         NEW item, Longer(source, item, source'), item.kind \notin Kind, item.kind # "end",
         NEW d \in Seq(Instruction), NEW W, NEW J, code' = code \o d,
         NEW m \in Nat, nextLabel' = m, nextLabel <= m, pc' = "body",
         labelSwitch' \in Nat, switchStore' \in Nat, TargetsAre',
         NEW H, H = Held(frames, labelSwitch, switchStore),
         NEW G, G = Held(frames', labelSwitch', switchStore'),
         NEW old, NEW now,
         Placed(source) /\ Placed(source') /\ Sound(H, code, nextLabel) =>
           /\ Writes(d, W, J) /\ Renews(nextLabel, m, old, now, W, J)
           /\ \E k, s : Moves(H, G, k, s, old, now)
  PROVE  LabelInv'
<1>1. nextLabel \in Nat /\ Balanced(source, frames)
  BY Facts
<1>2. Balanced(source', frames')
  BY <1>1, BalanceKept
<1>3. ASSUME Placed(source), Placed(source'), Sound(H, code, nextLabel), Begun(frames, code)
      PROVE  /\ Writes(d, W, J)
             /\ Passes(code, nextLabel, nextLabel', H, G, W, J) /\ BegunBy(frames', code, W)
  <2>1. BegunBy(frames', code, W)
    BY <1>3 DEF Begun, BegunBy
  <2>2. Writes(d, W, J) /\ Renews(nextLabel, m, old, now, W, J)
    BY <1>3
  <2>3. PICK k, s : Moves(H, G, k, s, old, now)
    BY <1>3
  <2> DEFINE c == code
             n == nextLabel
  <2>4. n \in Nat /\ Sound(H, c, n) /\ Renews(n, m, old, now, W, J)
    BY <1>1, <1>3, <2>2
  <2> HIDE DEF c, n
  <2>5. Passes(c, n, m, H, G, W, J)
    BY <2>3, <2>4, NextPasses
  <2> QED
    BY <2>1, <2>2, <2>5 DEF c, n
<1> QED
  BY <1>1, <1>2, <1>3, Emits

\* A frame whose end gets a new label.
Renamed(fs, gs, k) ==
  /\ Len(gs) = Len(fs) /\ k \in 1..Len(fs) /\ fs[k].end \in Nat /\ gs[k].end \in Nat
  /\ \A i \in 1..Len(fs) : /\ gs[i].at = fs[i].at /\ gs[i].kind = fs[i].kind
                           /\ gs[i].begin = fs[i].begin /\ gs[i].step = fs[i].step
                           /\ i # k => gs[i].end = fs[i].end

\* The end label of a statement is exchanged for another.
LEMMA RenamedHeld ==
  ASSUME NEW fs, NEW gs, NEW k, Renamed(fs, gs, k), NEW now, NEW saved
  PROVE  Moves(Held(fs, now, saved), Held(gs, now, saved), k, "end", fs[k].end, gs[k].end)
<1>1. /\ Len(gs) = Len(fs) /\ k \in 1..Len(fs) /\ fs[k].end \in Nat /\ gs[k].end \in Nat
      /\ \A i \in 1..Len(fs) : /\ gs[i].kind = fs[i].kind /\ gs[i].step = fs[i].step
                               /\ i # k => gs[i].end = fs[i].end
  BY DEF Renamed
<1>2. \A i \in 1..Len(fs) : LastSwitch(gs, i) <=> LastSwitch(fs, i)
  BY <1>1 DEF LastSwitch
<1>3. ASSUME NEW i, NEW p, NEW l
      PROVE  <<i, p, l>> \in Held(gs, now, saved) <=>
               \/ <<i, p, l>> \in Held(fs, now, saved) /\ ~(i = k /\ p = "end")
               \/ i = k /\ p = "end" /\ l = gs[k].end
  <2>1. CASE i \in 1..Len(fs) /\ ~(i = k /\ p = "end")
    <3>1. Holds(gs, now, saved, i, p, l) <=> Holds(fs, now, saved, i, p, l)
      BY <1>1, <1>2, <2>1 DEF Holds
    <3> QED
      BY <1>1, <2>1, <3>1, HeldIs
  <2>2. CASE i = k /\ p = "end"
    BY <1>1, <2>2, HeldIs DEF Holds, Slots
  <2>3. CASE i \notin 1..Len(fs)
    BY <1>1, <2>3, HeldIs
  <2> QED
    BY <2>1, <2>2, <2>3
<1>4. \A l : <<k, "end", l>> \in Held(fs, now, saved) <=> l = fs[k].end
  BY <1>1, HeldIs DEF Holds, Slots
<1> QED
  BY <1>3, <1>4 DEF Moves

\* The stack of an else.
LEMMA ElseFrames ==
  ASSUME NEW fs, Nested(fs), fs # << >>, NEW n \in Nat, NEW gs,
         gs = Append(SubSeq(fs, 1, Len(fs) - 1), [fs[Len(fs)] EXCEPT !.end = n, !.else = TRUE])
  PROVE  Renamed(fs, gs, Len(fs)) /\ gs[Len(fs)].end = n
<1> DEFINE o == SubSeq(fs, 1, Len(fs) - 1)
           t == fs[Len(fs)]
           f == [t EXCEPT !.end = n, !.else = TRUE]
<1>1. /\ Len(fs) \in Nat /\ Len(fs) > 0 /\ Len(o) = Len(fs) - 1 /\ t \in FrameType
      /\ o \in Seq(FrameType)
      /\ \A i \in 1..(Len(fs) - 1) : o[i] = fs[i]
  <2>1. fs \in Seq(FrameType) /\ o = SubSeq(fs, 1, Len(fs) - 1)
    BY DEF Nested
  <2> HIDE DEF o
  <2> QED
    BY <2>1, Popped
<1>2. /\ f \in FrameType /\ f.end = n /\ f.kind = t.kind /\ f.at = t.at /\ f.begin = t.begin /\ f.step = t.step
  BY <1>1 DEF FrameType
<1> HIDE DEF o, f, t
<1>3. /\ gs = Append(o, f)
  BY DEF o, f, t
<1>4. /\ Len(gs) = Len(o) + 1 /\ gs[Len(gs)] = f /\ \A i \in 1..Len(o) : gs[i] = o[i]
  BY <1>1, <1>2, <1>3, Pushed
<1>5. t.end \in Nat
  BY <1>1 DEF FrameType
<1>6. /\ Len(gs) = Len(fs) /\ gs[Len(fs)] = f /\ fs[Len(fs)] = t
      /\ \A i \in 1..Len(fs) : i # Len(fs) => gs[i] = fs[i]
  BY <1>1, <1>4 DEF t
<1> QED
  BY <1>1, <1>2, <1>5, <1>6 DEF Renamed

\* The else of an if.
LEMMA ElseStep ==
  ASSUME IInv, LabelInv, Else
  PROVE  LabelInv'
<1>1. /\ source \in Seq(ItemType) /\ nextLabel \in Nat /\ nextLabel >= 2 /\ Nested(frames) /\ Len(frames) \in Nat
      /\ labelSwitch \in Nat /\ switchStore \in Nat /\ TargetsAre
  BY Facts
<1> DEFINE item == [kind |-> "else", value |-> 0]
           n == nextLabel
           m == n + 1
           k == Len(frames)
           old == frames[k].end
           d == <<Jmp(n), Label(old)>>
           H == Held(frames, labelSwitch, switchStore)
           G == Held(frames', labelSwitch', switchStore')
           J == {n}
           W == {old}
<1>2. /\ Walk("else", 0) /\ code' = code \o d /\ nextLabel' = m
      /\ frames' = Append(SubSeq(frames, 1, Len(frames) - 1), [frames[Len(frames)] EXCEPT !.end = nextLabel, !.else = TRUE])
      /\ frames # << >> /\ UNCHANGED <<jumps, switch>> /\ pc' = "body"
  BY DEF Else, Emit, Fresh, Room, top, outer
<1>3. Longer(source, item, source') /\ item.kind \notin Kind /\ item.kind # "end"
  <2>1. "else" \in ItemKind /\ "else" \notin Kind /\ "else" # "end" /\ 0 \in Nat
    BY DEF ItemKind, Kind, Loop
  <2>2. item = [kind |-> "else", value |-> 0]
    OBVIOUS
  <2> HIDE DEF item, d, H, G
  <2>3. Longer(source, item, source') /\ item.kind = "else"
    BY <1>1, <1>2, <2>1, <2>2, Walked
  <2> QED
    BY <2>1, <2>3
<1>4. Renamed(frames, frames', k) /\ frames'[k].end = n
  <2> HIDE DEF H, G, d, item, old
  <2> QED
    BY <1>1, <1>2, ElseFrames
<1>5. old \in Nat /\ n \in Nat /\ m \in Nat /\ n <= m
  BY <1>1, <1>4 DEF Renamed
<1>6. /\ labelSwitch' = labelSwitch /\ switchStore' = switchStore /\ TargetsAre'
      /\ labelSwitch' \in Nat /\ switchStore' \in Nat
  BY <1>1, <1>2 DEF switch, jumps, TargetsAre
<1>7. Moves(H, G, k, "end", old, n)
  BY <1>4, <1>6, RenamedHeld
<1>8. Sound(H, code, nextLabel) => Renews(nextLabel, m, old, n, W, J)
  <2> SUFFICES ASSUME Sound(H, code, n) PROVE Renews(n, m, old, n, W, J)
    OBVIOUS
  <2> HIDE DEF H, old
  <2>1. <<k, "end", old>> \in H
    BY <1>7 DEF Moves
  <2>2. old \in 2..(n - 1)
    BY <2>1 DEF Sound
  <2> QED
    BY <1>5, <2>2 DEF Renews
<1>9. Writes(d, W, J)
  <2> HIDE DEF n, old
  <2>1. Writes(<<Jmp(n)>>, {}, {n}) /\ Writes(<<Label(old)>>, {old}, {})
    BY <1>5, WritesJump, WritesLabel
  <2>2. Writes(d, {} \cup {old}, {n} \cup {})
    BY <2>1, WritesTwo
  <2> QED
    BY <2>2
<1>10. /\ Len(frames') = Len(frames)
       /\ \A i \in 1..Len(frames) :
           /\ frames'[i].at = frames[i].at /\ frames'[i].kind = frames[i].kind
           /\ frames'[i].begin = frames[i].begin /\ frames'[i].step = frames[i].step
  BY <1>4 DEF Renamed
<1>11. H = Held(frames, labelSwitch, switchStore) /\ G = Held(frames', labelSwitch', switchStore')
  OBVIOUS
<1>12. code' = code \o d /\ pc' = "body" /\ nextLabel' = m /\ nextLabel <= m /\ m \in Nat
  BY <1>2, <1>5
<1>13. d \in Seq(Instruction)
  BY <1>9 DEF Writes
<1> HIDE DEF item, d, H, G, J, W, k, m, n, old
<1>14. Sound(H, code, nextLabel) =>
           /\ Writes(d, W, J) /\ Renews(nextLabel, m, old, n, W, J)
           /\ \E q, s : Moves(H, G, q, s, old, n)
  BY <1>7, <1>8, <1>9
<1> QED
  BY <1>1, <1>3, <1>6, <1>10, <1>11, <1>12, <1>13, <1>14, GoOnStep

\* A case and a default of a well placed program stand in a switch, and go on from the
\* label its last test leads to.
LEMMA SwitchMoves ==
  ASSUME IInv, LabelInv, UNCHANGED <<frames, switchStore>>,
         NEW item, Longer(source, item, source'), item.kind \in {"case", "default"},
         NEW now \in Nat, labelSwitch' = now,
         NEW H, H = Held(frames, labelSwitch, switchStore),
         NEW G, G = Held(frames', labelSwitch', switchStore'),
         Placed(source')
  PROVE  \E k, s : Moves(H, G, k, s, labelSwitch, now)
<1>1. /\ Len(frames) \in Nat /\ Nested(frames) /\ Balanced(source, frames) /\ labelSwitch \in Nat
      /\ source \in Seq(ItemType)
  BY Facts
<1>2. Len(source) + 1 \in 1..Len(source') /\ source'[Len(source) + 1].kind \in {"case", "default"}
  BY <1>1, LenProperties DEF Longer
<1>3. Inside(source', Len(source) + 1, {"switch"}) # {}
  BY <1>2 DEF Placed
<1>4. \E f \in 1..Len(frames) : frames[f].kind \in {"switch"}
  <2>1. {"switch"} \in SUBSET Kind
    BY DEF Kind
  <2> QED
    BY <1>1, <1>3, <2>1, InsideIsOpen
<1>5. PICK k \in 1..Len(frames) : frames[k].kind = "switch" /\ LastSwitch(frames, k)
  BY <1>1, <1>4, SwitchLast
<1> DEFINE old == labelSwitch
<1>6. old \in Nat /\ H = Held(frames, old, switchStore) /\ G = Held(frames, now, switchStore)
  BY <1>1
<1> HIDE DEF old
<1>7. /\ Len(frames) \in Nat /\ frames[k].kind = "switch" /\ LastSwitch(frames, k) /\ old \in Nat
      /\ k \in 1..Len(frames)
  BY <1>1, <1>5, <1>6
<1>8. Moves(Held(frames, old, switchStore), Held(frames, now, switchStore), k, "switch", old, now)
  BY <1>7, CaseHeld
<1> QED
  BY <1>6, <1>8 DEF old

\* A case of a switch.
LEMMA CaseStep ==
  ASSUME IInv, LabelInv, NEW v \in Values, Case(v)
  PROVE  LabelInv'
<1>1. /\ source \in Seq(ItemType) /\ nextLabel \in Nat /\ nextLabel >= 2 /\ Nested(frames) /\ Len(frames) \in Nat
      /\ labelSwitch \in Nat /\ switchStore \in Nat /\ TargetsAre /\ v \in Nat
  BY Facts, BoundsAssumption
<1> DEFINE item == [kind |-> "case", value |-> v]
           n == nextLabel
           now == n + 1
           m == n + 2
           old == labelSwitch
           d == CaseCode(v, old, n, now)
           H == Held(frames, labelSwitch, switchStore)
           G == Held(frames', labelSwitch', switchStore')
           W == {old, n}
           J == {n, now}
<1>2. /\ Walk("case", v) /\ code' = code \o d /\ nextLabel' = m /\ labelSwitch' = now
      /\ UNCHANGED <<frames, jumps, switchStore>> /\ pc' = "body"
  BY DEF Case, Emit, Fresh, Room
<1>3. Longer(source, item, source') /\ item.kind = "case" /\ item.kind \notin Kind /\ item.kind # "end"
  <2>1. "case" \in ItemKind /\ "case" \notin Kind /\ "case" # "end"
    BY DEF ItemKind, Kind, Loop
  <2>2. item = [kind |-> "case", value |-> v]
    OBVIOUS
  <2> HIDE DEF item, d, H, G
  <2>3. Longer(source, item, source') /\ item.kind = "case"
    BY <1>1, <1>2, <2>1, <2>2, Walked
  <2> QED
    BY <2>1, <2>3
<1>4. now \in Nat /\ m \in Nat /\ n <= m /\ old \in Nat /\ n \in Nat /\ n # now /\ now \in n..(m - 1) /\ n \in n..(m - 1)
  BY <1>1
<1>5. /\ labelSwitch' = now /\ switchStore' = switchStore /\ TargetsAre'
      /\ labelSwitch' \in Nat /\ switchStore' \in Nat
  BY <1>1, <1>2 DEF jumps, TargetsAre
<1>6. H = Held(frames, labelSwitch, switchStore) /\ G = Held(frames', labelSwitch', switchStore') /\ old = labelSwitch /\ n = nextLabel
  OBVIOUS
<1>7. \A l : (l \in W <=> l = old \/ l = n) /\ (l \in J <=> l = n \/ l = now)
  OBVIOUS
<1>8. d \in Seq(Instruction)
  <2> HIDE DEF n, now, old
  <2>1. /\ Jmp(n) \in Instruction /\ Label(old) \in Instruction
        /\ CmpJne(v, now) \in Instruction /\ Label(n) \in Instruction
    BY <1>1, <1>4 DEF Jmp, Label, CmpJne, Instruction
  <2>2. d = <<Jmp(n), Label(old), CmpJne(v, now), Label(n)>>
    BY DEF CaseCode
  <2> HIDE DEF d
  <2> QED
    BY <2>1, <2>2
<1>9. old # n => Writes(d, W, J)
  <2> HIDE DEF n, now, old
  <2> QED
    BY <1>1, <1>4, WritesCase
<1> HIDE DEF item, n, now, m, old, d, H, G, W, J
<1>10. ASSUME Placed(source'), Sound(H, code, nextLabel)
       PROVE  /\ Writes(d, W, J) /\ Renews(nextLabel, m, old, now, W, J)
              /\ \E k, s : Moves(H, G, k, s, old, now)
  <2>1. PICK k, s : Moves(H, G, k, s, old, now)
    BY <1>2, <1>3, <1>4, <1>5, <1>6, <1>10, SwitchMoves
  <2>2. <<k, s, old>> \in H
    BY <2>1 DEF Moves
  <2>3. old \in 2..(n - 1)
    BY <1>6, <1>10, <2>2 DEF Sound
  <2>4. old # n /\ now # old
    BY <1>4, <2>3
  <2>5. Renews(n, m, old, now, W, J)
    BY <1>4, <1>7, <2>4 DEF Renews
  <2> QED
    BY <1>6, <1>9, <2>1, <2>4, <2>5
<1>11. /\ Len(frames') = Len(frames)
       /\ \A i \in 1..Len(frames) :
           /\ frames'[i].at = frames[i].at /\ frames'[i].kind = frames[i].kind
           /\ frames'[i].begin = frames[i].begin /\ frames'[i].step = frames[i].step
  BY <1>2
<1>12. code' = code \o d /\ pc' = "body" /\ nextLabel' = m /\ nextLabel <= m
  BY <1>2, <1>4, <1>6
<1> QED
  BY <1>1, <1>3, <1>4, <1>5, <1>6, <1>8, <1>10, <1>11, <1>12, GoOnStep

\* The default of a switch.
LEMMA DefaultStep ==
  ASSUME IInv, LabelInv, Default
  PROVE  LabelInv'
<1>1. /\ source \in Seq(ItemType) /\ nextLabel \in Nat /\ nextLabel >= 2 /\ Nested(frames) /\ Len(frames) \in Nat
      /\ labelSwitch \in Nat /\ switchStore \in Nat /\ TargetsAre
  BY Facts
<1> DEFINE item == [kind |-> "default", value |-> 0]
           n == nextLabel
           m == n + 1
           old == labelSwitch
           d == <<Label(old)>>
           H == Held(frames, labelSwitch, switchStore)
           G == Held(frames', labelSwitch', switchStore')
           W == {old}
           J == {}
<1>2. /\ Walk("default", 0) /\ code' = code \o d /\ nextLabel' = m /\ labelSwitch' = n
      /\ UNCHANGED <<frames, jumps, switchStore>> /\ pc' = "body"
  BY DEF Default, Emit, Fresh, Room
<1>3. Longer(source, item, source') /\ item.kind = "default" /\ item.kind \notin Kind /\ item.kind # "end"
  <2>1. "default" \in ItemKind /\ "default" \notin Kind /\ "default" # "end" /\ 0 \in Nat
    BY DEF ItemKind, Kind, Loop
  <2>2. item = [kind |-> "default", value |-> 0]
    OBVIOUS
  <2> HIDE DEF item, d, H, G
  <2>3. Longer(source, item, source') /\ item.kind = "default"
    BY <1>1, <1>2, <2>1, <2>2, Walked
  <2> QED
    BY <2>1, <2>3
<1>4. m \in Nat /\ n <= m /\ old \in Nat /\ n \in Nat /\ n \in n..(m - 1)
  BY <1>1
<1>5. /\ labelSwitch' = n /\ switchStore' = switchStore /\ TargetsAre'
      /\ labelSwitch' \in Nat /\ switchStore' \in Nat
  BY <1>1, <1>2 DEF jumps, TargetsAre
<1>6. H = Held(frames, labelSwitch, switchStore) /\ G = Held(frames', labelSwitch', switchStore') /\ old = labelSwitch /\ n = nextLabel
  OBVIOUS
<1>7. (\A l : (l \in W <=> l = old)) /\ (\A l : l \notin J)
  OBVIOUS
<1>8. Writes(d, W, J)
  <2> HIDE DEF old
  <2> QED
    BY <1>4, WritesLabel
<1>9. d \in Seq(Instruction)
  BY <1>8 DEF Writes
<1> HIDE DEF item, n, m, old, d, H, G, W, J
<1>10. ASSUME Placed(source'), Sound(H, code, nextLabel)
       PROVE  /\ Writes(d, W, J) /\ Renews(nextLabel, m, old, n, W, J)
              /\ \E k, s : Moves(H, G, k, s, old, n)
  <2>1. PICK k, s : Moves(H, G, k, s, old, n)
    BY <1>2, <1>3, <1>4, <1>5, <1>6, <1>10, SwitchMoves
  <2>2. <<k, s, old>> \in H
    BY <2>1 DEF Moves
  <2>3. old \in 2..(n - 1)
    BY <1>6, <1>10, <2>2 DEF Sound
  <2>4. old # n
    BY <1>4, <2>3
  <2>5. Renews(n, m, old, n, W, J)
    BY <1>4, <1>7, <2>4 DEF Renews
  <2> QED
    BY <1>6, <1>8, <2>1, <2>5
<1>11. /\ Len(frames') = Len(frames)
       /\ \A i \in 1..Len(frames) :
           /\ frames'[i].at = frames[i].at /\ frames'[i].kind = frames[i].kind
           /\ frames'[i].begin = frames[i].begin /\ frames'[i].step = frames[i].step
  BY <1>2
<1>12. code' = code \o d /\ pc' = "body" /\ nextLabel' = m /\ nextLabel <= m
  BY <1>2, <1>4, <1>6
<1> QED
  BY <1>1, <1>3, <1>4, <1>5, <1>6, <1>9, <1>10, <1>11, <1>12, GoOnStep

\* The end of the function.
LEMMA FinishStep ==
  ASSUME LabelInv, Finish
  PROVE  LabelInv'
<1>1. /\ UNCHANGED <<source, frames, code, nextLabel, jumps, switch>> /\ frames = << >>
      /\ pc = "body" /\ pc' = "done"
  BY DEF Finish
<1> QED
  BY <1>1 DEF LabelInv, TargetsAre, jumps, switch

\* Before a function there are no labels.
LEMMA LabelInit == Init => LabelInv
<1> SUFFICES ASSUME Init PROVE LabelInv
  OBVIOUS
<1>1. /\ source = << >> /\ frames = << >> /\ code = << >> /\ nextLabel = 2 /\ pc = "body"
      /\ labelSwitch \in Nat /\ switchStore \in Nat /\ TargetsAre
  BY DEF Init, TargetsAre
<1>2. /\ code \in Seq(Instruction) /\ Len(code) = 0 /\ Len(frames) = 0 /\ Len(source) = 0
  BY <1>1
<1>3. Depth(source, 0) = 0
  <2>1. ASSUME NEW kinds PROVE Count(source, 0, kinds) = 0
    <3>1. {i \in 1..0 : source[i].kind \in kinds} = {}
      OBVIOUS
    <3> QED
      BY <3>1, FS_EmptySet DEF Count
  <2> QED
    BY <2>1 DEF Depth
<1>4. Balanced(source, frames)
  BY <1>2, <1>3 DEF Balanced
<1>5. \A l : ~Wrote(code, l) /\ ~Leads(code, l)
  BY <1>2 DEF Wrote, Leads
<1>6. \A i, p, l : <<i, p, l>> \notin Held(frames, labelSwitch, switchStore)
  <2>1. \A i : i \notin 1..Len(frames)
    BY <1>2
  <2> QED
    BY <2>1, HeldIs
<1>7. Once(code)
  BY <1>2 DEF Once
<1>8. Sound(Held(frames, labelSwitch, switchStore), code, nextLabel)
  BY <1>5, <1>6, <1>7 DEF Sound
<1>9. Begun(frames, code)
  BY <1>2 DEF Begun
<1> QED
  BY <1>1, <1>2, <1>4, <1>8, <1>9 DEF LabelInv

\* Every step keeps the label invariant.
LEMMA LabelStep ==
  ASSUME MaxNest <= 2, IInv, LabelInv, [Next]_vars
  PROVE  LabelInv'
<1>1. CASE Expression \/ Return
  BY <1>1, ExpressionStep
<1>2. CASE EnterIf
  BY <1>2, EnterIfStep
<1>3. CASE Else
  BY <1>3, ElseStep
<1>4. CASE LeaveIf
  BY <1>4, LeaveIfStep
<1>5. CASE \E kind \in Loop : EnterLoop(kind)
  BY <1>5, EnterLoopStep
<1>6. CASE LeaveLoop
  BY <1>6, LeaveLoopStep
<1>7. CASE EnterSwitch
  BY <1>7, EnterSwitchStep
<1>8. CASE LeaveSwitch
  BY <1>8, LeaveSwitchStep
<1>9. CASE \E v \in Values : Case(v)
  BY <1>9, CaseStep
<1>10. CASE Default
  BY <1>10, DefaultStep
<1>11. CASE Break \/ Continue
  BY <1>11, JumpStep
<1>12. CASE Reject("break", labelBreak)
  BY <1>12, RejectStep
<1>13. CASE Reject("continue", labelContinue)
  BY <1>13, RejectStep
<1>14. CASE Reject("case", labelSwitch) \/ Reject("default", labelSwitch)
  BY <1>14, RejectStep
<1>15. CASE Finish
  BY <1>15, FinishStep
<1>16. CASE UNCHANGED vars
  BY <1>16 DEF LabelInv, TargetsAre, vars
<1> QED
  BY <1>1, <1>2, <1>3, <1>4, <1>5, <1>6, <1>7, <1>8, <1>9, <1>10, <1>11, <1>12, <1>13, <1>14, <1>15, <1>16
     DEF Next

\* Every label the code jumps to is written or held by a statement in progress, none is
\* written twice, and every one written or held has been given out.
THEOREM LabelInvariance == ASSUME MaxNest <= 2 PROVE Spec => []LabelInv
<1>1. Spec => []IInv
  BY Invariance
<1>2. LabelInv /\ IInv /\ [Next]_vars => LabelInv'
  BY LabelStep
<1> QED
  BY <1>1, <1>2, LabelInit, PTL DEF Spec

\* Every function whose breaks, continues and cases stand where C wants them is accepted:
\* there is no internal error, and the assembler finds each label exactly once.
THEOREM ValidIsAccepted == ASSUME MaxNest <= 2 PROVE Spec => []ValidAccepted
<1>1. IInv /\ LabelInv => ValidAccepted
  <2> SUFFICES ASSUME IInv, LabelInv, Valid
               PROVE  /\ pc # "error"
                      /\ \A l \in 1..nextLabel : Cardinality(Place(l)) <= 1
                      /\ pc = "done" => \A l \in Targets : Place(l) # {}
    BY DEF ValidAccepted
  <2>1. Placed(source)
    BY ValidPlaced, LenProperties DEF IInv
  <2>2. Sound(Held(frames, labelSwitch, switchStore), code, nextLabel) /\ pc # "error"
    BY <2>1 DEF LabelInv
  <2>3. ASSUME NEW l PROVE Place(l) = {} \/ \E q : Place(l) = {q}
    <3>1. \A q, r \in Place(l) : q = r
      BY <2>2 DEF Sound, Once, Place
    <3> DEFINE P == Place(l)
    <3> HIDE DEF P
    <3>2. \A q, r \in P : q = r
      BY <3>1 DEF P
    <3>3. P = {} \/ \E q : P = {q}
      BY <3>2
    <3> QED
      BY <3>3 DEF P
  <2>4. \A l : Cardinality(Place(l)) <= 1
    <3> SUFFICES ASSUME NEW l PROVE Cardinality(Place(l)) <= 1
      OBVIOUS
    <3>1. CASE Place(l) = {}
      BY <3>1, FS_EmptySet
    <3>2. CASE \E q : Place(l) = {q}
      BY <3>2, FS_Singleton
    <3> QED
      BY <2>3, <3>1, <3>2
  <2>5. ASSUME pc = "done", NEW l \in Targets PROVE Place(l) # {}
    <3>1. frames = << >> /\ Len(frames) = 0
      BY <2>5 DEF LabelInv
    <3>2. \A i, p : <<i, p, l>> \notin Held(frames, labelSwitch, switchStore)
      BY <3>1, HeldIs
    <3>3. Leads(code, l)
      BY DEF Targets, Leads
    <3>4. Wrote(code, l)
      BY <2>2, <3>2, <3>3 DEF Sound
    <3> QED
      BY <3>4 DEF Wrote, Place
  <2> QED
    BY <2>2, <2>4, <2>5
<1> QED
  BY <1>1, Invariance, LabelInvariance, PTL
=============================================================================
