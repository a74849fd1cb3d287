--------------------------- MODULE GenCallProofs ---------------------------
(***************************************************************************)
(* What calls and operators leave of the stack and the registers, for      *)
(* functions of any length and calls nested to any depth: the frames of    *)
(* gen_expression say, cell by cell, what is on the stack.                 *)
(***************************************************************************)
EXTENDS GenCall, DataLemmas

Args == {t \in Seq(Kind) : Len(t) <= Len(registers)}

Machine == [stack : Seq(Nat), int : [IntRegisters -> Nat], xmm : [XmmRegisters -> Nat]]

Operator == [is : {"binary"}, kind : Kind, compare : BOOLEAN, left : Nat, stack : Seq(Nat)]
Call     == [is : {"call"}, types : Args, result : Kind, arguments : Seq(Nat), entry : Machine]
Return   == [is : {"returned"}, entry : Machine, types : Args]

\* The stack when a call of gen_expression began, and what it has put there since.
Start(f) == IF f.is = "binary" THEN f.stack ELSE f.entry.stack
Base(f) ==
  CASE f.is = "binary"   -> IF f.left = Junk THEN f.stack ELSE f.stack \o <<f.left>>
    [] f.is = "call"     -> f.entry.stack \o SavedCells(f.entry, f.types) \o f.arguments
    [] f.is = "returned" -> f.entry.stack

Ground == [i \in 1..Len(parameters) |-> i] \o [i \in 1..(-LocalData(offsets) \div 8) |-> Junk]

Above(s, ground) == Len(ground) <= Len(s) /\ \A k \in 1..Len(ground) : s[k] = ground[k]

Frame == Operator \cup Call \cup Return

InTurn(fs, i, ground) ==
  /\ fs[i].is = "call" => Len(fs[i].arguments) <= Len(fs[i].types)
  /\ fs[i].is = "returned" => i = Len(fs)
  /\ Above(Start(fs[i]), ground)
  /\ Start(fs[i]) = IF i = 1 THEN ground ELSE Base(fs[i - 1])

FramesRight(fs, stack, ground) ==
  /\ fs \in Seq(Frame)
  /\ \A i \in 1..Len(fs) : InTurn(fs, i, ground)
  /\ stack = IF fs = << >> THEN ground ELSE Base(fs[Len(fs)])

TypeOK ==
  /\ parameters \in Args /\ locals \in Seq(LocalSizes)
  /\ machine \in Machine /\ next \in Nat \ {0}
  /\ value \in Kind \cup {"none"} /\ pc \in {"prologue", "body"}

BodyRight ==
  /\ offsets = OffsetsOf(AlignedSizes)
  /\ FramesRight(frames, machine.stack, Ground)
  /\ gen_stack = 16 + 8 * Len(parameters) - Lowest(offsets) + 8 * (Len(machine.stack) - Reserved)
  /\ value # "none" => Result(machine, value) # Junk
  /\ frames # << >> /\ top.is = "returned" => value # "none"

\* The stack is the variables, then what the frames put there, and gen_stack counts it.
IInv ==
  /\ TypeOK
  /\ pc = "prologue" => frames = << >> /\ value = "none" /\ machine = Arriving
  /\ pc = "body" => BodyRight
  /\ OperandsInPlace
  /\ CallTransparent

-----------------------------------------------------------------------------
(* The registers of arguments.                                             *)

\* Six registers, all different, none of them rax.
LEMMA SixRegisters ==
  /\ Len(registers) = 6
  /\ \A i \in 1..6 : registers[i] \in IntRegisters /\ registers[i] # "rax"
  /\ \A i, j \in 1..6 : registers[i] = registers[j] => i = j
  /\ "rax" \in IntRegisters /\ "rcx" \in IntRegisters
<1>1. Len(registers) = 6
  BY DEF registers
<1>2. \A i \in 1..6 : i = 1 \/ i = 2 \/ i = 3 \/ i = 4 \/ i = 5 \/ i = 6
  OBVIOUS
<1>3. /\ registers[1] = "rdi" /\ registers[2] = "rsi" /\ registers[3] = "rdx"
      /\ registers[4] = "rcx" /\ registers[5] = "r8" /\ registers[6] = "r9"
  BY DEF registers
<1>4. \A i, j \in 1..6 : registers[i] = registers[j] => i = j
  BY <1>2, <1>3
<1>5. \A i \in 1..6 : registers[i] \in IntRegisters /\ registers[i] # "rax"
  <2>1. \A i \in 1..6 : registers[i] \in IntRegisters
    BY <1>1 DEF IntRegisters
  <2> QED
    BY <1>2, <1>3, <2>1
<1> QED
  BY <1>1, <1>4, <1>5 DEF IntRegisters, Scratch

\* How many arguments of a kind come before one is at most how many come before it, and
\* grows at each of them.
LEMMA BeforeGrows ==
  ASSUME NEW types, NEW kind, NEW i \in Nat, NEW j \in Nat, i <= j
  PROVE  /\ Before(types, i, kind) \in 0..i
         /\ i >= 1 => Before(types, i, kind) \in 0..(i - 1)
         /\ Before(types, i, kind) <= Before(types, j, kind)
         /\ 1 <= i /\ i < j /\ types[i] = kind => Before(types, i, kind) < Before(types, j, kind)
<1> DEFINE S(k) == {x \in 1..(k - 1) : types[x] = kind}
<1>1. \A k \in Nat : IsFiniteSet(S(k)) /\ S(k) \in SUBSET (1..(k - 1))
  <2> SUFFICES ASSUME NEW k \in Nat PROVE IsFiniteSet(S(k)) /\ S(k) \in SUBSET (1..(k - 1))
    OBVIOUS
  <2>1. IsFiniteSet(1..(k - 1))
    BY FS_Interval
  <2>2. S(k) \in SUBSET (1..(k - 1))
    OBVIOUS
  <2> QED
    BY <2>1, <2>2, FS_Subset
<1>2. \A k \in Nat : Cardinality(S(k)) \in Nat /\ (k >= 1 => Cardinality(S(k)) <= k - 1) /\ (k = 0 => Cardinality(S(k)) = 0)
  <2> SUFFICES ASSUME NEW k \in Nat
               PROVE  Cardinality(S(k)) \in Nat /\ (k >= 1 => Cardinality(S(k)) <= k - 1) /\ (k = 0 => Cardinality(S(k)) = 0)
    OBVIOUS
  <2>1. Cardinality(S(k)) \in Nat
    BY <1>1, FS_CardinalityType
  <2>2. ASSUME k >= 1 PROVE Cardinality(S(k)) <= k - 1
    <3>1. IsFiniteSet(1..(k - 1)) /\ Cardinality(1..(k - 1)) = k - 1
      BY <2>2, FS_Interval
    <3>2. Cardinality(S(k)) <= Cardinality(1..(k - 1))
      BY <1>1, <3>1, FS_Subset
    <3> QED
      BY <3>1, <3>2
  <2>3. ASSUME k = 0 PROVE Cardinality(S(k)) = 0
    <3>1. S(k) = {}
      BY <2>3
    <3> QED
      BY <3>1, FS_EmptySet
  <2> QED
    BY <2>1, <2>2, <2>3
<1>3. S(i) \in SUBSET S(j)
  OBVIOUS
<1>4. Cardinality(S(i)) <= Cardinality(S(j))
  BY <1>1, <1>3, FS_Subset
<1>5. ASSUME 1 <= i, i < j, types[i] = kind PROVE Cardinality(S(i)) < Cardinality(S(j))
  <2>1. i \in S(j) /\ i \notin S(i)
    BY <1>5
  <2>2. S(i) # S(j)
    BY <2>1
  <2>3. Cardinality(S(i)) # Cardinality(S(j))
    BY <1>1, <1>3, <2>2, FS_Subset
  <2> QED
    BY <1>2, <1>4, <2>3
<1>6. \A k : Before(types, k, kind) = Cardinality(S(k))
  BY DEF Before
<1> HIDE DEF S
<1> QED
  BY <1>2, <1>4, <1>5, <1>6

\* Arguments of a kind have registers of their own, and there are enough of them.
LEMMA Places ==
  ASSUME NEW t \in Args, NEW i \in 1..Len(t)
  PROVE  /\ t[i] \in Kind
         /\ Before(t, i, "int") + 1 \in 1..6
         /\ Before(t, i, "float") \in XmmRegisters /\ Before(t, i, "float") \in Nat
         /\ \A j \in 1..Len(t) : \A k \in Kind :
              t[i] = k /\ t[j] = k /\ i # j => Before(t, i, k) # Before(t, j, k)
<1>1. Len(t) \in Nat /\ Len(t) <= 6 /\ t \in Seq(Kind)
  BY SixRegisters, LenProperties DEF Args
<1>2. t[i] \in Kind
  BY <1>1, ElementOfSeq
<1>3. \A k : Before(t, i, k) \in 0..(i - 1)
  BY <1>1, BeforeGrows
<1>4. Before(t, i, "int") \in 0..5 /\ Before(t, i, "float") \in 0..5
  BY <1>1, <1>3
<1>5. ASSUME NEW j \in 1..Len(t), NEW k \in Kind, t[i] = k, t[j] = k, i # j
      PROVE  Before(t, i, k) # Before(t, j, k)
  <2>1. i \in Nat /\ j \in Nat /\ 1 <= i /\ 1 <= j
    BY <1>1
  <2>2. CASE i < j
    <3>1. Before(t, i, k) < Before(t, j, k) /\ Before(t, i, k) \in 0..i
      BY <1>5, <2>1, <2>2, BeforeGrows
    <3> QED
      BY <2>1, <3>1
  <2>3. CASE j < i
    <3>1. Before(t, j, k) < Before(t, i, k) /\ Before(t, j, k) \in 0..j
      BY <1>5, <2>1, <2>3, BeforeGrows
    <3> QED
      BY <2>1, <3>1
  <2> QED
    BY <1>5, <2>1, <2>2, <2>3
<1> QED
  BY <1>2, <1>4, <1>5 DEF XmmRegisters

-----------------------------------------------------------------------------
(* Instructions on the stack.                                              *)

\* What push puts on the stack pop takes from it.
LEMMA PushPop ==
  ASSUME NEW s \in Seq(Nat), NEW c \in Nat, NEW u, u = s \o <<c>>
  PROVE  /\ u \in Seq(Nat) /\ Len(s) \in Nat /\ Len(u) = Len(s) + 1
         /\ u[Len(u)] = c
         /\ SubSeq(u, 1, Len(u) - 1) = s
<1>1. u = Append(s, c)
  BY AppendIsConcat
<1>2. /\ u \in Seq(Nat) /\ u # << >> /\ Len(s) \in Nat /\ Len(u) = Len(s) + 1
      /\ u[Len(s) + 1] = c /\ \A i \in 1..Len(s) : u[i] = s[i]
  BY <1>1, AppendProperties, LenProperties
<1> DEFINE p == SubSeq(u, 1, Len(u) - 1)
<1>3. p \in Seq(Nat) /\ Len(p) = Len(u) - 1 /\ \A i \in 1..(Len(u) - 1) : p[i] = u[i]
  BY <1>2, Popped
<1> HIDE DEF p
<1>4. Len(p) = Len(s) /\ \A i \in 1..Len(p) : p[i] = s[i]
  BY <1>2, <1>3
<1>5. p = s
  BY <1>3, <1>4, SeqEqual
<1> QED
  BY <1>2, <1>5 DEF p

\* Pushing one thing after another is pushing both.
Stack == Seq(Nat)

On(b, p, l, q) == b \in Stack /\ p \in Stack /\ l \in Stack /\ q = p \o l

Together(b, p, l, q) == b \o q = (b \o p) \o l /\ b \o p \in Stack /\ q \in Stack

\* The stack on which both were pushed, either way of taking them together.
LEMMA PushBoth ==
  ASSUME NEW b, NEW p, NEW l, NEW q, On(b, p, l, q)
  PROVE  Together(b, p, l, q)
<1>0. b \in Seq(Nat) /\ p \in Seq(Nat) /\ l \in Seq(Nat) /\ q = p \o l
  BY DEF On, Stack
<1>1. (b \o p) \o l = b \o (p \o l)
  BY <1>0, ConcatAssociative
<1>2. b \o p \in Stack
  BY <1>0, ConcatProperties DEF Stack
<1>3. p \o l \in Stack
  BY <1>0, ConcatProperties DEF Stack
<1> QED
  BY <1>0, <1>1, <1>2, <1>3 DEF Together

\* A stack with more pushed on it is a stack.
LEMMA PushesOn ==
  ASSUME NEW b \in Stack, NEW p \in Stack, NEW q, q = b \o p
  PROVE  q \in Stack
<1>1. b \in Seq(Nat) /\ p \in Seq(Nat)
  BY DEF Stack
<1>2. b \o p \in Seq(Nat)
  BY <1>1, ConcatProperties
<1> QED
  BY <1>2 DEF Stack

\* The register of an argument, or what the machine has in it.
Held(m, t, i) == IF t[i] = "int" THEN m.int[registers[Before(t, i, "int") + 1]]
                 ELSE m.xmm[Before(t, i, "float")]

Has(m, s, c) == m \in Machine /\ s \in Seq(Nat) /\ c \in Nat /\ m.stack = s \o <<c>>

IntTaken(n, m, s, c, r) ==
  /\ n \in Machine /\ n.stack = s /\ n.xmm = m.xmm
  /\ n.int[r] = c
  /\ \A q \in IntRegisters : q # r => n.int[q] = m.int[q]

XmmTaken(n, m, s, c, r) ==
  /\ n \in Machine /\ n.stack = s /\ n.int = m.int
  /\ n.xmm[r] = c
  /\ \A q \in XmmRegisters : q # r => n.xmm[q] = m.xmm[q]

\* pop into an integer register, and the two instructions that pop an xmm register.
LEMMA PopInts ==
  ASSUME NEW m, NEW s, NEW c, Has(m, s, c),
         NEW r \in IntRegisters, NEW n, n = PopInt(m, r)
  PROVE  IntTaken(n, m, s, c, r)
<1>0. m \in Machine /\ s \in Seq(Nat) /\ c \in Nat /\ m.stack = s \o <<c>>
  BY DEF Has
<1>1. TopCell(m) = c /\ SubSeq(m.stack, 1, Len(m.stack) - 1) = s
  BY <1>0, PushPop DEF TopCell
<1> DEFINE k == [m EXCEPT !.int[r] = TopCell(m)]
<1>2. k.stack = m.stack /\ k.xmm = m.xmm /\ k.int = [m.int EXCEPT ![r] = c] /\ k \in Machine
  BY <1>0, <1>1 DEF Machine
<1>3. n = [k EXCEPT !.stack = SubSeq(@, 1, Len(@) - 1)]
  BY DEF PopInt, PopCell
<1> HIDE DEF k
<1>4. n.stack = s /\ n.xmm = m.xmm /\ n.int = [m.int EXCEPT ![r] = c] /\ n \in Machine
  BY <1>0, <1>1, <1>2, <1>3 DEF Machine
<1>5. m.int \in [IntRegisters -> Nat]
  BY <1>0 DEF Machine
<1> QED
  BY <1>4, <1>5 DEF IntTaken

\* The same for an xmm register.
LEMMA PopXmms ==
  ASSUME NEW m, NEW s, NEW c, Has(m, s, c),
         NEW r \in XmmRegisters, NEW n, n = PopXmm(m, r)
  PROVE  XmmTaken(n, m, s, c, r)
<1>0. m \in Machine /\ s \in Seq(Nat) /\ c \in Nat /\ m.stack = s \o <<c>>
  BY DEF Has
<1>1. TopCell(m) = c /\ SubSeq(m.stack, 1, Len(m.stack) - 1) = s
  BY <1>0, PushPop DEF TopCell
<1> DEFINE k == [m EXCEPT !.xmm[r] = TopCell(m)]
<1>2. k.stack = m.stack /\ k.int = m.int /\ k.xmm = [m.xmm EXCEPT ![r] = c] /\ k \in Machine
  BY <1>0, <1>1 DEF Machine
<1>3. n = [k EXCEPT !.stack = SubSeq(@, 1, Len(@) - 1)]
  BY DEF PopXmm, PopCell
<1> HIDE DEF k
<1>4. n.stack = s /\ n.int = m.int /\ n.xmm = [m.xmm EXCEPT ![r] = c] /\ n \in Machine
  BY <1>0, <1>1, <1>2, <1>3 DEF Machine
<1>5. m.xmm \in [XmmRegisters -> Nat]
  BY <1>0 DEF Machine
<1> QED
  BY <1>4, <1>5 DEF XmmTaken

\* Popping an argument fills its register and no other.
Fills(n, m, t, i, c) ==
  /\ n \in Machine
  /\ Held(n, t, i) = c
  /\ \A j \in 1..Len(t) : j # i => Held(n, t, j) = Held(m, t, j)
  /\ n.int["rax"] = m.int["rax"]
  /\ t[i] = "int" \/ Before(t, i, "float") # 0 => n.xmm[0] = m.xmm[0]

\* gen_pop or gen_pop_xmm into the register of an argument.
LEMMA PopArguments ==
  ASSUME NEW m \in Machine, NEW s \in Stack, NEW c \in Nat, m.stack = s \o <<c>>,
         NEW t \in Args, NEW i \in 1..Len(t), NEW n, n = PopArgument(m, t, i)
  PROVE  Fills(n, m, t, i, c) /\ n.stack = s
<1>0. s \in Seq(Nat)
  BY DEF Stack
<1>1. /\ t[i] \in Kind
      /\ Before(t, i, "int") + 1 \in 1..6
      /\ Before(t, i, "float") \in XmmRegisters
      /\ \A j \in 1..Len(t) : \A k \in Kind :
              t[i] = k /\ t[j] = k /\ i # j => Before(t, i, k) # Before(t, j, k)
  BY Places
<1>2. \A j \in 1..Len(t) : /\ t[j] \in Kind /\ Before(t, j, "int") + 1 \in 1..6 /\ Before(t, j, "int") \in Int
                           /\ Before(t, j, "float") \in XmmRegisters
  <2> SUFFICES ASSUME NEW j \in 1..Len(t)
               PROVE  /\ t[j] \in Kind /\ Before(t, j, "int") + 1 \in 1..6 /\ Before(t, j, "int") \in Int
                      /\ Before(t, j, "float") \in XmmRegisters
    OBVIOUS
  <2>1. t[j] \in Kind /\ Before(t, j, "int") + 1 \in 1..6 /\ Before(t, j, "float") \in XmmRegisters
    BY Places
  <2>2. j \in Nat /\ j <= j
    OBVIOUS
  <2>3. Before(t, j, "int") \in 0..j
    BY <2>2, BeforeGrows
  <2> QED
    BY <2>1, <2>3
<1>3. CASE t[i] = "int"
  <2> DEFINE r == registers[Before(t, i, "int") + 1]
  <2>1. r \in IntRegisters /\ r # "rax" /\ "rax" \in IntRegisters
    BY <1>1, SixRegisters
  <2>2. n = PopInt(m, r)
    BY <1>3 DEF PopArgument
  <2>3. \A j \in 1..Len(t) : j # i /\ t[j] = "int" =>
          registers[Before(t, j, "int") + 1] \in IntRegisters /\ registers[Before(t, j, "int") + 1] # r
    <3> SUFFICES ASSUME NEW j \in 1..Len(t), j # i, t[j] = "int"
                 PROVE  registers[Before(t, j, "int") + 1] \in IntRegisters /\ registers[Before(t, j, "int") + 1] # r
      OBVIOUS
    <3>1. Before(t, i, "int") # Before(t, j, "int")
      BY <1>1, <1>3 DEF Kind
    <3>2. Before(t, j, "int") + 1 \in 1..6 /\ Before(t, j, "int") + 1 # Before(t, i, "int") + 1
      BY <1>2, <3>1
    <3> QED
      BY <1>1, <3>2, SixRegisters
  <2> HIDE DEF r
  <2>4. /\ n \in Machine /\ n.stack = s /\ n.xmm = m.xmm
        /\ n.int[r] = c
        /\ \A q \in IntRegisters : q # r => n.int[q] = m.int[q]
    <3>1. Has(m, s, c)
      BY <1>0 DEF Has
    <3>2. IntTaken(n, m, s, c, r)
      BY ONLY <2>1, <2>2, <3>1, PopInts
    <3> QED
      BY <3>2 DEF IntTaken
  <2>5. Held(n, t, i) = c
    BY <1>3, <2>4 DEF Held, r
  <2>6. \A j \in 1..Len(t) : j # i => Held(n, t, j) = Held(m, t, j)
    BY <2>3, <2>4 DEF Held
  <2> QED
    BY <2>1, <2>4, <2>5, <2>6 DEF Fills
<1>4. CASE t[i] = "float"
  <2> DEFINE r == Before(t, i, "float")
  <2>1. r \in XmmRegisters /\ 0 \in XmmRegisters
    BY <1>1 DEF XmmRegisters
  <2>2. n = PopXmm(m, r)
    BY <1>4 DEF PopArgument
  <2>3. \A j \in 1..Len(t) : j # i /\ t[j] = "float" =>
          Before(t, j, "float") \in XmmRegisters /\ Before(t, j, "float") # r
    BY <1>1, <1>2, <1>4 DEF Kind
  <2>4. \A j \in 1..Len(t) : t[j] = "int" \/ t[j] = "float"
    BY <1>2 DEF Kind
  <2> HIDE DEF r
  <2>5. /\ n \in Machine /\ n.stack = s /\ n.int = m.int
        /\ n.xmm[r] = c
        /\ \A q \in XmmRegisters : q # r => n.xmm[q] = m.xmm[q]
    <3>1. Has(m, s, c)
      BY <1>0 DEF Has
    <3>2. XmmTaken(n, m, s, c, r)
      BY ONLY <2>1, <2>2, <3>1, PopXmms
    <3> QED
      BY <3>2 DEF XmmTaken
  <2>6. Held(n, t, i) = c
    BY <1>4, <2>5 DEF Held, r
  <2>7. \A j \in 1..Len(t) : j # i => Held(n, t, j) = Held(m, t, j)
    BY <2>3, <2>4, <2>5 DEF Held
  <2>8. r # 0 => n.xmm[0] = m.xmm[0]
    BY <2>1, <2>5
  <2> QED
    BY <1>4, <2>5, <2>6, <2>7, <2>8 DEF Fills, r
<1> QED
  BY <1>1, <1>3, <1>4 DEF Kind

\* Popping any argument of a machine that is one leaves a machine.
LEMMA PopsTyped ==
  ASSUME NEW m \in Machine, m.stack # << >>, NEW t \in Args, NEW i \in 1..Len(t)
  PROVE  PopArgument(m, t, i) \in Machine
<1>1. PICK s \in Seq(Nat), c \in Nat : m.stack = Append(s, c)
  BY SequenceEmptyOrAppend DEF Machine
<1>2. m.stack = s \o <<c>> /\ s \in Stack
  BY <1>1, AppendIsConcat DEF Stack
<1> QED
  BY <1>2, PopArguments DEF Fills

\* The cells a call saves, argument by argument.
Piece(m, t, i) ==
  IF t[i] = "int" THEN <<m.int[registers[Before(t, i, "int") + 1]]>>
  ELSE IF Before(t, i, "float") > 0 THEN <<m.xmm[Before(t, i, "float")]>>
  ELSE << >>

Saves(f, m, t) ==
  /\ f \in [0..Len(t) -> Seq(Nat)] /\ f[0] = << >>
  /\ \A i \in 1..Len(t) : f[i] = f[i - 1] \o Piece(m, t, i)
  /\ f[Len(t)] = SavedCells(m, t)

\* What a call saves of an argument is the register it will use, except xmm0.
LEMMA HeldTyped ==
  ASSUME NEW m \in Machine, NEW t \in Args, NEW i \in 1..Len(t)
  PROVE  /\ Held(m, t, i) \in Nat
         /\ Piece(m, t, i) \in Seq(Nat)
         /\ Piece(m, t, i) = IF t[i] = "float" /\ Before(t, i, "float") = 0 THEN << >> ELSE <<Held(m, t, i)>>
<1>1. /\ t[i] \in Kind /\ Before(t, i, "int") + 1 \in 1..6
      /\ Before(t, i, "float") \in XmmRegisters /\ Before(t, i, "float") \in Nat
  BY Places
<1>2. registers[Before(t, i, "int") + 1] \in IntRegisters
  BY <1>1, SixRegisters
<1>3. Held(m, t, i) \in Nat
  BY <1>1, <1>2 DEF Held, Machine
<1>4. Piece(m, t, i) = IF t[i] = "float" /\ Before(t, i, "float") = 0 THEN << >> ELSE <<Held(m, t, i)>>
  <2>1. Before(t, i, "float") > 0 <=> Before(t, i, "float") # 0
    BY <1>1
  <2>2. t[i] = "int" \/ t[i] = "float"
    BY <1>1 DEF Kind
  <2> QED
    BY <2>1, <2>2 DEF Piece, Held
<1>5. <<Held(m, t, i)>> \in Seq(Nat) /\ << >> \in Seq(Nat)
  BY <1>3
<1> QED
  BY <1>3, <1>4, <1>5

\* SavedCells puts the cells of the arguments one after another.
LEMMA SavedAre ==
  ASSUME NEW m \in Machine, NEW t \in Args
  PROVE  \E f : Saves(f, m, t)
<1>1. Len(t) \in Nat /\ << >> \in Seq(Nat)
  BY LenProperties, EmptySeq DEF Args
<1> DEFINE n == Len(t)
           S == Seq(Nat)
           body == [p \in S \X (1..n) |-> p[1] \o Piece(m, t, p[2])]
           Loop(g) == [i \in 0..n |-> IF i = 0 THEN << >> ELSE g[i - 1] \o Piece(m, t, i)]
<1>2. \A s \in S : \A i \in 1..n : body[<<s, i>>] = s \o Piece(m, t, i) /\ body[<<s, i>>] \in S
  <2> SUFFICES ASSUME NEW s \in S, NEW i \in 1..n
               PROVE  body[<<s, i>>] = s \o Piece(m, t, i) /\ body[<<s, i>>] \in S
    OBVIOUS
  <2>1. Piece(m, t, i) \in S
    BY HeldTyped
  <2>2. s \o Piece(m, t, i) \in S
    BY <2>1, ConcatProperties
  <2> QED
    BY <2>2
<1>3. \A g : Loop(g) = [i \in 0..n |-> IF i = 0 THEN << >> ELSE g[i - 1] \o Piece(m, t, i)]
  OBVIOUS
<1>4. SavedCells(m, t) = (CHOOSE g : g = Loop(g))[n]
  BY DEF SavedCells, Piece
<1> HIDE DEF body, Loop, n, S
<1>5. PICK f \in [0..n -> S] : f[0] = << >> /\ \A i \in 1..n : f[i] = body[<<f[i - 1], i>>]
  <2>1. Stays(S, n, body)
    BY <1>2 DEF Stays
  <2>2. Runs(S, << >>, n, body) # {}
    BY <1>1, <2>1, RoundsExist DEF n, S
  <2> QED
    BY <2>2 DEF Runs
<1>6. n \in Nat
  BY <1>1 DEF n
<1>7. \A i \in 1..n : f[i] = f[i - 1] \o Piece(m, t, i)
  <2> SUFFICES ASSUME NEW i \in 1..n PROVE f[i] = f[i - 1] \o Piece(m, t, i)
    OBVIOUS
  <2>1. i - 1 \in 0..n
    BY <1>6
  <2> QED
    BY <1>2, <1>5, <2>1
<1>8. f = Loop(f)
  <2>1. \A i \in 0..n : f[i] = IF i = 0 THEN << >> ELSE f[i - 1] \o Piece(m, t, i)
    <3>1. \A i \in 0..n : i = 0 \/ i \in 1..n
      BY <1>6
    <3> QED
      BY <1>5, <1>7, <3>1
  <2> QED
    BY <1>3, <1>5, <2>1
<1> DEFINE g == CHOOSE h : h = Loop(h)
<1>9. g = Loop(g)
  BY <1>8
<1>10. SavedCells(m, t) = g[n]
  BY <1>4
<1> HIDE DEF g
<1>11. g = [i \in 0..n |-> IF i = 0 THEN << >> ELSE g[i - 1] \o Piece(m, t, i)]
  BY <1>3, <1>9
<1>12. g[0] = << >> /\ \A i \in 1..n : g[i] = g[i - 1] \o Piece(m, t, i)
  <2>1. 0 \in 0..n /\ \A i \in 1..n : i \in 0..n /\ i # 0
    BY <1>6
  <2> QED
    BY <1>11, <2>1
<1>13. \A i \in 0..n : g[i] \in S
  <2> DEFINE T == {i \in 0..n : g[i] \in S}
  <2>1. 0 \in T
    <3>1. << >> \in S
      BY <1>1 DEF S
    <3>2. 0 \in 0..n
      BY <1>6
    <3> QED
      BY <1>12, <3>1, <3>2
  <2>2. \A i \in 1..n : i - 1 \in T => i \in T
    <3> SUFFICES ASSUME NEW i \in 1..n, i - 1 \in T PROVE i \in T
      OBVIOUS
    <3>1. g[i - 1] \in S /\ i \in 0..n
      BY <1>6
    <3>2. Piece(m, t, i) \in S
      BY HeldTyped DEF S, n
    <3>3. g[i - 1] \o Piece(m, t, i) \in S
      BY <3>1, <3>2, ConcatProperties DEF S
    <3> QED
      BY <1>12, <3>1, <3>3
  <2> HIDE DEF T
  <2>3. \A i \in 0..n : i \in T
    BY <1>6, <2>1, <2>2, BoundedInduction
  <2> QED
    BY <2>3 DEF T
<1>14. g \in [0..n -> S]
  BY <1>11, <1>13
<1>15. Saves(g, m, t)
  BY <1>10, <1>12, <1>14 DEF Saves, n, S
<1> QED
  BY <1>15

\* How many cells a call saves depends on its arguments only.
LEMMA SavedLength ==
  ASSUME NEW m \in Machine, NEW e \in Machine, NEW t \in Args
  PROVE  /\ SavedCells(m, t) \in Seq(Nat)
         /\ Len(SavedCells(m, t)) = Len(SavedCells(e, t))
<1>1. PICK f : Saves(f, m, t)
  BY SavedAre
<1>2. PICK g : Saves(g, e, t)
  BY SavedAre
<1> DEFINE n == Len(t)
           T == {i \in 0..n : Len(f[i]) = Len(g[i])}
<1>3. n \in Nat
  BY LenProperties DEF Args
<1>4. 0 \in T
  BY <1>1, <1>2, <1>3 DEF Saves
<1>5. ASSUME NEW i \in 1..n, i - 1 \in T PROVE i \in T
  <2>1. /\ f[i - 1] \in Seq(Nat) /\ g[i - 1] \in Seq(Nat) /\ Len(f[i - 1]) = Len(g[i - 1]) /\ i \in 0..n
        /\ f[i] = f[i - 1] \o Piece(m, t, i) /\ g[i] = g[i - 1] \o Piece(e, t, i)
    <3>1. i \in 0..n /\ i - 1 \in 0..n
      BY <1>3
    <3>2. f \in [0..n -> Seq(Nat)] /\ f[i] = f[i - 1] \o Piece(m, t, i)
      BY <1>1 DEF Saves
    <3>3. g \in [0..n -> Seq(Nat)] /\ g[i] = g[i - 1] \o Piece(e, t, i)
      BY <1>2 DEF Saves
    <3> HIDE DEF n
    <3>4. f[i - 1] \in Seq(Nat) /\ g[i - 1] \in Seq(Nat)
      BY <3>1, <3>2, <3>3
    <3> QED
      BY <1>5, <3>1, <3>2, <3>3, <3>4
  <2>2. /\ Piece(m, t, i) \in Seq(Nat) /\ Piece(e, t, i) \in Seq(Nat)
        /\ Len(Piece(m, t, i)) = Len(Piece(e, t, i))
    <3>1. /\ Piece(m, t, i) \in Seq(Nat)
          /\ Piece(m, t, i) = IF t[i] = "float" /\ Before(t, i, "float") = 0 THEN << >> ELSE <<Held(m, t, i)>>
      BY HeldTyped
    <3>2. /\ Piece(e, t, i) \in Seq(Nat)
          /\ Piece(e, t, i) = IF t[i] = "float" /\ Before(t, i, "float") = 0 THEN << >> ELSE <<Held(e, t, i)>>
      BY HeldTyped
    <3> QED
      BY <3>1, <3>2
  <2>3. Len(f[i]) = Len(f[i - 1]) + Len(Piece(m, t, i))
    <3>1. Len(f[i - 1] \o Piece(m, t, i)) = Len(f[i - 1]) + Len(Piece(m, t, i))
      BY <2>1, <2>2, ConcatProperties
    <3> QED
      BY <2>1, <3>1
  <2>4. Len(g[i]) = Len(g[i - 1]) + Len(Piece(e, t, i))
    <3>1. Len(g[i - 1] \o Piece(e, t, i)) = Len(g[i - 1]) + Len(Piece(e, t, i))
      BY <2>1, <2>2, ConcatProperties
    <3> QED
      BY <2>1, <3>1
  <2> QED
    BY <2>1, <2>2, <2>3, <2>4
<1> HIDE DEF T
<1>6. \A i \in 0..n : i \in T
  BY <1>3, <1>4, <1>5, BoundedInduction
<1>7. n \in 0..n
  BY <1>3
<1>8. Len(f[n]) = Len(g[n])
  BY <1>6, <1>7 DEF T
<1> QED
  BY <1>1, <1>2, <1>7, <1>8 DEF Saves

-----------------------------------------------------------------------------
(* The arguments are popped into their registers.                          *)

Prefix(a, n) == SubSeq(a, 1, n)

\* The last of some elements is pushed last.
LEMMA PrefixGrows ==
  ASSUME NEW a \in Stack, NEW n \in 1..Len(a), NEW b \in Stack
  PROVE  /\ Prefix(a, n - 1) \in Stack /\ a[n] \in Nat
         /\ b \o Prefix(a, n) = (b \o Prefix(a, n - 1)) \o <<a[n]>>
         /\ b \o Prefix(a, n - 1) \in Stack
<1>0. a \in Seq(Nat)
  BY DEF Stack
<1>1. Len(a) \in Nat /\ \A i \in 1..Len(a) : a[i] \in Nat
  BY <1>0, LenProperties, ElementOfSeq
<1>2. Prefix(a, n) = Prefix(a, n - 1) \o <<a[n]>>
  BY <1>0, <1>1, SubSeqRecursiveSecond DEF Prefix
<1>3. Prefix(a, n - 1) \in Seq(Nat)
  <2>1. \A i \in 1..(n - 1) : a[i] \in Nat
    BY <1>1
  <2> QED
    BY <1>1, <2>1, SubSeqProperties DEF Prefix
<1>4. <<a[n]>> \in Seq(Nat)
  BY <1>1
<1>5. /\ b \in Stack /\ Prefix(a, n - 1) \in Stack /\ <<a[n]>> \in Stack
  BY <1>3, <1>4 DEF Stack
<1>6. PICK p, q, l : p = Prefix(a, n - 1) /\ q = Prefix(a, n) /\ l = <<a[n]>>
  OBVIOUS
<1>7. p \in Stack /\ l \in Stack /\ q = p \o l
  BY <1>2, <1>5, <1>6
<1>8. b \o q = (b \o p) \o l /\ b \o p \in Stack
  <2>1. On(b, p, l, q)
    BY <1>5, <1>7 DEF On
  <2>2. Together(b, p, l, q)
    BY ONLY <2>1, PushBoth
  <2> QED
    BY <2>2 DEF Together
<1>9. b \o p \in Stack
  BY <1>8
<1> QED
  BY <1>1, <1>5, <1>6, <1>8, <1>9

\* After some rounds: how far the arguments are popped, and where they are.
Loading(g, k, t, b, a) ==
  /\ g \in Machine
  /\ g.stack = b \o Prefix(a, Len(t) - k)
  /\ \A i \in 1..Len(t) : i > Len(t) - k => Held(g, t, i) = a[i]

\* One more is popped.
LEMMA LoadingStep ==
  ASSUME NEW t \in Args, NEW b \in Stack, NEW a \in Stack, Len(a) = Len(t),
         NEW k \in 1..Len(t), NEW g, Loading(g, k - 1, t, b, a)
  PROVE  Loading(PopArgument(g, t, Len(t) + 1 - k), k, t, b, a)
<1> DEFINE i == Len(t) + 1 - k
           n == PopArgument(g, t, i)
<1>1. Len(t) \in Nat /\ i \in 1..Len(t) /\ Len(t) - (k - 1) = i /\ Len(t) - k = i - 1
  BY LenProperties DEF Args
<1>2. g \in Machine /\ g.stack = b \o Prefix(a, i)
  BY <1>1 DEF Loading
<1> HIDE DEF i
<1>3. /\ a[i] \in Nat /\ g.stack = (b \o Prefix(a, i - 1)) \o <<a[i]>>
      /\ b \o Prefix(a, i - 1) \in Stack
  BY <1>1, <1>2, PrefixGrows
<1> DEFINE c == a[i]
           s == b \o Prefix(a, i - 1)
<1>8. c \in Nat /\ s \in Stack /\ g.stack = s \o <<c>> /\ n = PopArgument(g, t, i)
  BY <1>3
<1> HIDE DEF c, s, n
<1>10. g \in Machine /\ i \in 1..Len(t)
  BY <1>1, <1>2
<1>9. Fills(n, g, t, i, c) /\ n.stack = s
  BY <1>8, <1>10, PopArguments
<1>4. Fills(n, g, t, i, a[i]) /\ n.stack = b \o Prefix(a, i - 1)
  BY <1>9 DEF c, s
<1>5. \A j \in 1..Len(t) : j > Len(t) - (k - 1) => Held(g, t, j) = a[j]
  BY DEF Loading
<1>6. \A j \in 1..Len(t) : j > Len(t) - k => Held(n, t, j) = a[j]
  <2> SUFFICES ASSUME NEW j \in 1..Len(t), j > Len(t) - k PROVE Held(n, t, j) = a[j]
    OBVIOUS
  <2>1. CASE j = i
    BY <1>4, <2>1 DEF Fills
  <2>2. CASE j # i
    <3>1. j > Len(t) - (k - 1)
      BY <1>1, <2>2
    <3> QED
      BY <1>4, <1>5, <2>2, <3>1 DEF Fills
  <2> QED
    BY <2>1, <2>2
<1>7. Loading(n, k, t, b, a)
  BY <1>1, <1>4, <1>6 DEF Loading, Fills
<1> QED
  BY <1>7 DEF n, i

\* A run of the loop that pops them.
Loads(h, m, t, b, a) ==
  /\ h[0] = m
  /\ \A k \in 1..Len(t) : Loading(h[k - 1], k - 1, t, b, a) =>
       h[k] = PopArgument(h[k - 1], t, Len(t) + 1 - k)

\* Each pop keeps to it, so all of them do.
LEMMA LoadsAll ==
  ASSUME NEW t \in Args, NEW b \in Stack, NEW a \in Stack, Len(a) = Len(t),
         NEW m \in Machine, m.stack = b \o a, NEW h, Loads(h, m, t, b, a)
  PROVE  \A k \in 0..Len(t) : Loading(h[k], k, t, b, a)
<1> DEFINE T == {k \in 0..Len(t) : Loading(h[k], k, t, b, a)}
<1>1. Len(t) \in Nat
  BY LenProperties DEF Args
<1>2. 0 \in T
  <2>1. Prefix(a, Len(t)) = a
    BY SubSeqFull DEF Prefix, Stack
  <2>2. Len(t) - 0 = Len(t) /\ 0 \in 0..Len(t) /\ \A i \in 1..Len(t) : ~(i > Len(t) - 0)
    BY <1>1
  <2>3. h[0] = m
    BY DEF Loads
  <2>4. Loading(h[0], 0, t, b, a)
    BY <2>1, <2>2, <2>3 DEF Loading
  <2> QED
    BY <2>2, <2>4
<1>3. ASSUME NEW k \in 1..Len(t), k - 1 \in T PROVE k \in T
  <2>1. Loading(h[k - 1], k - 1, t, b, a) /\ k \in 0..Len(t)
    BY <1>1, <1>3
  <2>2. h[k] = PopArgument(h[k - 1], t, Len(t) + 1 - k)
    BY <2>1 DEF Loads
  <2>3. Loading(PopArgument(h[k - 1], t, Len(t) + 1 - k), k, t, b, a)
    BY <2>1, LoadingStep
  <2> QED
    BY <2>1, <2>2, <2>3
<1> HIDE DEF T
<1>4. \A k \in 0..Len(t) : k \in T
  BY <1>1, <1>2, <1>3, BoundedInduction
<1> QED
  BY <1>4 DEF T

\* What the loop as a whole does: the stack is what it was before the arguments were pushed.
LEMMA LoadedAre ==
  ASSUME NEW t \in Args, NEW b \in Stack, NEW a \in Stack, Len(a) = Len(t),
         NEW m \in Machine, m.stack = b \o a
  PROVE  /\ Loaded(m, t) \in Machine
         /\ Loaded(m, t).stack = b
         /\ \A i \in 1..Len(t) : Held(Loaded(m, t), t, i) = a[i]
<1> DEFINE n == Len(t)
           body == [p \in Machine \X (1..n) |->
                      IF p[1].stack = << >> THEN p[1] ELSE PopArgument(p[1], t, n + 1 - p[2])]
           Loop(g) == [i \in 0..n |-> IF i = 0 THEN m ELSE PopArgument(g[i - 1], t, n + 1 - i)]
<1>1. n \in Nat
  BY LenProperties DEF Args
<1>2. \A i \in 1..n : n + 1 - i \in 1..n /\ n - (i - 1) \in 1..n /\ i - 1 \in 0..n /\ i \in 0..n /\ i # 0
  BY <1>1
<1>3. \A s \in Machine : \A i \in 1..n :
        body[<<s, i>>] = (IF s.stack = << >> THEN s ELSE PopArgument(s, t, n + 1 - i)) /\ body[<<s, i>>] \in Machine
  <2> SUFFICES ASSUME NEW s \in Machine, NEW i \in 1..n
               PROVE  /\ body[<<s, i>>] = IF s.stack = << >> THEN s ELSE PopArgument(s, t, n + 1 - i)
                      /\ body[<<s, i>>] \in Machine
    OBVIOUS
  <2>1. body[<<s, i>>] = IF s.stack = << >> THEN s ELSE PopArgument(s, t, n + 1 - i)
    OBVIOUS
  <2>2. s.stack # << >> => PopArgument(s, t, n + 1 - i) \in Machine
    BY <1>2, PopsTyped
  <2> QED
    BY <2>1, <2>2
<1>4. Loaded(m, t) = (CHOOSE g : g = Loop(g))[n]
  BY DEF Loaded
<1>5. \A g : Loop(g) = [i \in 0..n |-> IF i = 0 THEN m ELSE PopArgument(g[i - 1], t, n + 1 - i)]
  OBVIOUS
<1> HIDE DEF body, Loop
<1>6. PICK f \in [0..n -> Machine] : f[0] = m /\ \A i \in 1..n : f[i] = body[<<f[i - 1], i>>]
  <2>1. Stays(Machine, n, body)
    BY <1>3 DEF Stays
  <2>2. Runs(Machine, m, n, body) # {}
    BY <1>1, <2>1, RoundsExist
  <2> QED
    BY <2>2 DEF Runs
<1>7. \A k \in 1..n : Loading(f[k - 1], k - 1, t, b, a) => f[k - 1].stack # << >>
  <2> SUFFICES ASSUME NEW k \in 1..n, Loading(f[k - 1], k - 1, t, b, a) PROVE f[k - 1].stack # << >>
    OBVIOUS
  <2> DEFINE i == n - (k - 1)
  <2>1. f[k - 1].stack = b \o Prefix(a, i)
    BY DEF Loading
  <2>2. i \in 1..Len(a)
    BY <1>2
  <2> HIDE DEF i
  <2>3. b \o Prefix(a, i) = (b \o Prefix(a, i - 1)) \o <<a[i]>> /\ a[i] \in Nat
    BY <2>2, PrefixGrows
  <2>4. b \o Prefix(a, i - 1) \in Stack
    BY <2>2, PrefixGrows
  <2>5. PICK s, c, u : s = b \o Prefix(a, i - 1) /\ c = a[i] /\ u = f[k - 1].stack
    OBVIOUS
  <2>6. s \in Seq(Nat) /\ c \in Nat /\ u = s \o <<c>>
    BY <2>1, <2>3, <2>4, <2>5 DEF Stack
  <2>7. u \in Seq(Nat) /\ Len(s) \in Nat /\ Len(u) = Len(s) + 1
    BY <2>6, PushPop
  <2>8. u # << >>
    BY <2>7
  <2> QED
    BY <2>5, <2>8
<1>8. \A k \in 1..n : Loading(f[k - 1], k - 1, t, b, a) => f[k] = PopArgument(f[k - 1], t, n + 1 - k)
  <2> SUFFICES ASSUME NEW k \in 1..n, Loading(f[k - 1], k - 1, t, b, a)
               PROVE  f[k] = PopArgument(f[k - 1], t, n + 1 - k)
    OBVIOUS
  <2>1. f[k - 1].stack # << >> /\ f[k - 1] \in Machine
    BY <1>2, <1>7
  <2> QED
    BY <1>3, <1>6, <2>1
<1>9. \A k \in 0..n : Loading(f[k], k, t, b, a)
  <2>1. Loads(f, m, t, b, a)
    BY <1>6, <1>8 DEF Loads
  <2> QED
    BY <2>1, LoadsAll
<1>10. f = Loop(f)
  <2>1. \A i \in 0..n : f[i] = IF i = 0 THEN m ELSE PopArgument(f[i - 1], t, n + 1 - i)
    <3> SUFFICES ASSUME NEW i \in 0..n PROVE f[i] = IF i = 0 THEN m ELSE PopArgument(f[i - 1], t, n + 1 - i)
      OBVIOUS
    <3>1. CASE i = 0
      BY <1>6, <3>1
    <3>2. CASE i # 0
      <4>1. i \in 1..n
        BY <1>1, <3>2
      <4> QED
        BY <1>2, <1>8, <1>9, <3>2, <4>1
    <3> QED
      BY <3>1, <3>2
  <2> HIDE DEF n
  <2> QED
    BY <1>5, <1>6, <2>1
<1> DEFINE g == CHOOSE h : h = Loop(h)
<1>11. g = Loop(g)
  BY <1>10
<1>12. Loaded(m, t) = g[n]
  BY <1>4
<1> HIDE DEF g
<1>13. g = [i \in 0..n |-> IF i = 0 THEN m ELSE PopArgument(g[i - 1], t, n + 1 - i)]
  BY <1>5, <1>11
<1>14. g[0] = m /\ \A k \in 1..n : g[k] = PopArgument(g[k - 1], t, n + 1 - k)
  <2>1. 0 \in 0..n
    BY <1>1
  <2> QED
    BY <1>2, <1>13, <2>1
<1>15. Loading(g[n], n, t, b, a)
  <2>1. Loads(g, m, t, b, a)
    BY <1>14 DEF Loads
  <2>2. n \in 0..n
    BY <1>1
  <2> QED
    BY <2>1, <2>2, LoadsAll
<1>16. Prefix(a, n - n) = << >> /\ b \o << >> = b
  <2>1. n - n = 0
    BY <1>1
  <2>2. Prefix(a, 0) = << >>
    BY SubSeqEmpty DEF Prefix
  <2>3. b \o << >> = b
    BY ConcatEmptySeq DEF Stack
  <2> QED
    BY <2>1, <2>2, <2>3
<1>17. \A i \in 1..n : i > n - n
  BY <1>1
<1> QED
  BY <1>12, <1>15, <1>16, <1>17 DEF Loading

-----------------------------------------------------------------------------
(* The saved registers are popped into where they came from.               *)

Unsaved(t, i) == t[i] = "float" /\ Before(t, i, "float") = 0
RestoreOne(g, t, i) == IF Unsaved(t, i) THEN g ELSE PopArgument(g, t, i)

\* After some rounds: f is what was saved of e, m the machine before the loop.
Restoring(g, k, t, f, e, m) ==
  /\ g \in Machine
  /\ g.stack = e.stack \o f[Len(t) - k]
  /\ \A i \in 1..Len(t) : i > Len(t) - k /\ ~Unsaved(t, i) => Held(g, t, i) = Held(e, t, i)
  /\ g.int["rax"] = m.int["rax"] /\ g.xmm[0] = m.xmm[0]

\* Where a saved register lies when it is its turn to be popped.
LEMMA SavedOnTop ==
  ASSUME NEW t \in Args, NEW e \in Machine, NEW m \in Machine, NEW f, Saves(f, e, t),
         NEW k \in 1..Len(t), NEW g, Restoring(g, k - 1, t, f, e, m),
         NEW i, i = Len(t) + 1 - k
  PROVE  /\ i \in 1..Len(t) /\ g \in Machine
         /\ Held(e, t, i) \in Nat
         /\ e.stack \o f[Len(t) - k] \in Stack
         /\ g.stack = IF Unsaved(t, i) THEN e.stack \o f[Len(t) - k]
                      ELSE (e.stack \o f[Len(t) - k]) \o <<Held(e, t, i)>>
<1>1. Len(t) \in Nat
  BY LenProperties DEF Args
<1>2. i \in 1..Len(t) /\ Len(t) - (k - 1) = i /\ Len(t) - k = i - 1 /\ i - 1 \in 0..Len(t)
  BY <1>1
<1>3. g \in Machine /\ g.stack = e.stack \o f[i]
  BY <1>2 DEF Restoring
<1>4. f[i] = f[i - 1] \o Piece(e, t, i) /\ f[i - 1] \in Seq(Nat)
  BY <1>2 DEF Saves
<1>5. /\ Held(e, t, i) \in Nat
      /\ Piece(e, t, i) \in Seq(Nat)
      /\ Piece(e, t, i) = IF Unsaved(t, i) THEN << >> ELSE <<Held(e, t, i)>>
  BY <1>2, HeldTyped DEF Unsaved
<1>6. PICK b, p, l, q, c : b = e.stack /\ p = f[i - 1] /\ l = Piece(e, t, i) /\ q = f[i] /\ c = Held(e, t, i)
  OBVIOUS
<1>7. b \in Stack /\ p \in Stack /\ l \in Stack /\ q = p \o l /\ g.stack = b \o q
  BY <1>3, <1>4, <1>5, <1>6 DEF Machine, Stack
<1>8. b \o q = (b \o p) \o l /\ b \o p \in Stack
  <2>1. On(b, p, l, q)
    BY <1>5, <1>7 DEF On
  <2>2. Together(b, p, l, q)
    BY ONLY <2>1, PushBoth
  <2> QED
    BY <2>2 DEF Together
<1>9. b \o p \in Stack
  BY <1>8
<1>10. (b \o p) \o << >> = b \o p
  BY <1>9, ConcatEmptySeq DEF Stack
<1>11. g.stack = IF Unsaved(t, i) THEN b \o p ELSE (b \o p) \o <<c>>
  BY <1>5, <1>6, <1>7, <1>8, <1>10
<1> QED
  BY <1>2, <1>3, <1>5, <1>6, <1>9, <1>11

\* One more is restored.
LEMMA RestoringStep ==
  ASSUME NEW t \in Args, NEW e \in Machine, NEW m \in Machine, NEW f, Saves(f, e, t),
         NEW k \in 1..Len(t), NEW g, Restoring(g, k - 1, t, f, e, m)
  PROVE  Restoring(RestoreOne(g, t, Len(t) + 1 - k), k, t, f, e, m)
<1>1. PICK i : i = Len(t) + 1 - k
  OBVIOUS
<1>2. PICK s, c : s = e.stack \o f[Len(t) - k] /\ c = Held(e, t, i)
  OBVIOUS
<1>3. /\ i \in 1..Len(t) /\ g \in Machine /\ c \in Nat /\ s \in Stack
      /\ g.stack = IF Unsaved(t, i) THEN s ELSE s \o <<c>>
  BY <1>1, <1>2, SavedOnTop
<1>4. Len(t) \in Nat /\ \A j \in 1..Len(t) : j > Len(t) - k => j = i \/ j > Len(t) - (k - 1)
  BY <1>1, LenProperties DEF Args
<1>5. /\ \A j \in 1..Len(t) : j > Len(t) - (k - 1) /\ ~Unsaved(t, j) => Held(g, t, j) = Held(e, t, j)
      /\ g.int["rax"] = m.int["rax"] /\ g.xmm[0] = m.xmm[0]
  BY DEF Restoring
<1>6. CASE Unsaved(t, i)
  <2>1. RestoreOne(g, t, i) = g
    BY <1>6 DEF RestoreOne
  <2>2. Restoring(g, k, t, f, e, m)
    BY <1>2, <1>3, <1>4, <1>5, <1>6 DEF Restoring
  <2> QED
    BY <1>1, <2>1, <2>2
<1>7. CASE ~Unsaved(t, i)
  <2>1. PICK n : n = PopArgument(g, t, i)
    OBVIOUS
  <2>2. Fills(n, g, t, i, c) /\ n.stack = s
    BY <1>3, <1>7, <2>1, PopArguments
  <2>3. t[i] \in Kind
    BY <1>3, Places
  <2>4. t[i] = "int" \/ Before(t, i, "float") # 0
    BY <1>7, <2>3 DEF Unsaved, Kind
  <2>5. n.int["rax"] = m.int["rax"] /\ n.xmm[0] = m.xmm[0]
    BY <1>5, <2>2, <2>4 DEF Fills
  <2>6. \A j \in 1..Len(t) : j > Len(t) - k /\ ~Unsaved(t, j) => Held(n, t, j) = Held(e, t, j)
    BY <1>2, <1>4, <1>5, <2>2 DEF Fills
  <2>7. Restoring(n, k, t, f, e, m)
    BY <1>2, <2>2, <2>5, <2>6 DEF Restoring, Fills
  <2>8. RestoreOne(g, t, i) = n
    BY <1>7, <2>1 DEF RestoreOne
  <2> QED
    BY <1>1, <2>7, <2>8
<1> QED
  BY <1>6, <1>7

\* A run of the loop that restores them.
Restores(h, t, f, e, m) ==
  /\ h[0] = m
  /\ \A k \in 1..Len(t) : Restoring(h[k - 1], k - 1, t, f, e, m) =>
       h[k] = RestoreOne(h[k - 1], t, Len(t) + 1 - k)

\* Each pop keeps to it, so all of them do.
LEMMA RestoresAll ==
  ASSUME NEW t \in Args, NEW e \in Machine, NEW m \in Machine, NEW f, Saves(f, e, t),
         m.stack = e.stack \o SavedCells(e, t), NEW h, Restores(h, t, f, e, m)
  PROVE  \A k \in 0..Len(t) : Restoring(h[k], k, t, f, e, m)
<1> DEFINE T == {k \in 0..Len(t) : Restoring(h[k], k, t, f, e, m)}
<1>1. Len(t) \in Nat
  BY LenProperties DEF Args
<1>2. 0 \in T
  <2>1. f[Len(t)] = SavedCells(e, t)
    BY DEF Saves
  <2>2. Len(t) - 0 = Len(t) /\ 0 \in 0..Len(t) /\ \A i \in 1..Len(t) : ~(i > Len(t) - 0)
    BY <1>1
  <2>3. h[0] = m
    BY DEF Restores
  <2>4. Restoring(h[0], 0, t, f, e, m)
    BY <2>1, <2>2, <2>3 DEF Restoring
  <2> QED
    BY <2>2, <2>4
<1>3. ASSUME NEW k \in 1..Len(t), k - 1 \in T PROVE k \in T
  <2>1. Restoring(h[k - 1], k - 1, t, f, e, m) /\ k \in 0..Len(t)
    BY <1>1, <1>3
  <2>2. h[k] = RestoreOne(h[k - 1], t, Len(t) + 1 - k)
    BY <2>1 DEF Restores
  <2>3. Restoring(RestoreOne(h[k - 1], t, Len(t) + 1 - k), k, t, f, e, m)
    BY <2>1, RestoringStep
  <2> QED
    BY <2>1, <2>2, <2>3
<1> HIDE DEF T
<1>4. \A k \in 0..Len(t) : k \in T
  BY <1>1, <1>2, <1>3, BoundedInduction
<1> QED
  BY <1>4 DEF T

\* What the loop as a whole does: stack and registers are what they were when they were
\* saved, and the value of the call is kept.
LEMMA RestoredAre ==
  ASSUME NEW t \in Args, NEW e \in Machine, NEW m \in Machine, m.stack = e.stack \o SavedCells(e, t)
  PROVE  /\ Restored(m, t) \in Machine
         /\ Restored(m, t).stack = e.stack
         /\ \A i \in 1..Len(t) : ~Unsaved(t, i) => Held(Restored(m, t), t, i) = Held(e, t, i)
         /\ Restored(m, t).int["rax"] = m.int["rax"] /\ Restored(m, t).xmm[0] = m.xmm[0]
<1>0. PICK f : Saves(f, e, t)
  BY SavedAre
<1> DEFINE n == Len(t)
           body == [p \in Machine \X (1..n) |->
                      IF p[1].stack = << >> THEN p[1] ELSE RestoreOne(p[1], t, n + 1 - p[2])]
           Loop(g) == [j \in 0..n |-> IF j = 0 THEN m ELSE RestoreOne(g[j - 1], t, n + 1 - j)]
<1>1. n \in Nat
  BY LenProperties DEF Args
<1>2. \A i \in 1..n : n + 1 - i \in 1..n /\ n - (i - 1) \in 1..n /\ i - 1 \in 0..n /\ i \in 0..n /\ i # 0
  BY <1>1
<1>3. \A s \in Machine : \A i \in 1..n :
        body[<<s, i>>] = (IF s.stack = << >> THEN s ELSE RestoreOne(s, t, n + 1 - i)) /\ body[<<s, i>>] \in Machine
  <2> SUFFICES ASSUME NEW s \in Machine, NEW i \in 1..n
               PROVE  /\ body[<<s, i>>] = IF s.stack = << >> THEN s ELSE RestoreOne(s, t, n + 1 - i)
                      /\ body[<<s, i>>] \in Machine
    OBVIOUS
  <2>1. body[<<s, i>>] = IF s.stack = << >> THEN s ELSE RestoreOne(s, t, n + 1 - i)
    OBVIOUS
  <2>2. s.stack # << >> => PopArgument(s, t, n + 1 - i) \in Machine
    BY <1>2, PopsTyped
  <2> QED
    BY <2>1, <2>2 DEF RestoreOne
<1>4. Restored(m, t) = (CHOOSE g : g = Loop(g))[n]
  BY DEF Restored, RestoreOne, Unsaved
<1>5. \A g : Loop(g) = [j \in 0..n |-> IF j = 0 THEN m ELSE RestoreOne(g[j - 1], t, n + 1 - j)]
  OBVIOUS
<1> HIDE DEF body, Loop
<1>6. PICK r \in [0..n -> Machine] : r[0] = m /\ \A i \in 1..n : r[i] = body[<<r[i - 1], i>>]
  <2>1. Stays(Machine, n, body)
    BY <1>3 DEF Stays
  <2>2. Runs(Machine, m, n, body) # {}
    BY <1>1, <2>1, RoundsExist
  <2> QED
    BY <2>2 DEF Runs
<1>7. \A k \in 1..n : Restoring(r[k - 1], k - 1, t, f, e, m) => r[k] = RestoreOne(r[k - 1], t, n + 1 - k)
  <2> SUFFICES ASSUME NEW k \in 1..n, Restoring(r[k - 1], k - 1, t, f, e, m)
               PROVE  r[k] = RestoreOne(r[k - 1], t, n + 1 - k)
    OBVIOUS
  <2>1. PICK i : i = n + 1 - k
    OBVIOUS
  <2>2. PICK s, c, u : s = e.stack \o f[n - k] /\ c = Held(e, t, i) /\ u = r[k - 1].stack
    OBVIOUS
  <2>3. /\ r[k - 1] \in Machine /\ c \in Nat /\ s \in Stack
        /\ u = IF Unsaved(t, i) THEN s ELSE s \o <<c>>
    BY <1>0, <2>1, <2>2, SavedOnTop
  <2>4. r[k] = body[<<r[k - 1], k>>]
    BY <1>6
  <2>5. r[k] = IF u = << >> THEN r[k - 1] ELSE RestoreOne(r[k - 1], t, i)
    BY <1>3, <2>1, <2>2, <2>3, <2>4
  <2>6. CASE Unsaved(t, i)
    <3>1. RestoreOne(r[k - 1], t, i) = r[k - 1]
      BY <2>6 DEF RestoreOne
    <3> QED
      BY <2>1, <2>5, <3>1
  <2>7. CASE ~Unsaved(t, i)
    <3>1. s \in Seq(Nat) /\ c \in Nat /\ u = s \o <<c>>
      BY <2>3, <2>7 DEF Stack
    <3>2. u \in Seq(Nat) /\ Len(s) \in Nat /\ Len(u) = Len(s) + 1
      BY <3>1, PushPop
    <3>3. u # << >>
      BY <3>2
    <3> QED
      BY <2>1, <2>5, <3>3
  <2> QED
    BY <2>6, <2>7
<1>8. \A k \in 0..n : Restoring(r[k], k, t, f, e, m)
  <2>1. Restores(r, t, f, e, m)
    BY <1>6, <1>7 DEF Restores
  <2> QED
    BY <1>0, <2>1, RestoresAll
<1>9. r = Loop(r)
  <2>1. \A i \in 0..n : r[i] = IF i = 0 THEN m ELSE RestoreOne(r[i - 1], t, n + 1 - i)
    <3> SUFFICES ASSUME NEW i \in 0..n PROVE r[i] = IF i = 0 THEN m ELSE RestoreOne(r[i - 1], t, n + 1 - i)
      OBVIOUS
    <3>1. CASE i = 0
      BY <1>6, <3>1
    <3>2. CASE i # 0
      <4>1. i \in 1..n
        BY <1>1, <3>2
      <4> QED
        BY <1>2, <1>7, <1>8, <3>2, <4>1
    <3> QED
      BY <3>1, <3>2
  <2> HIDE DEF n
  <2> QED
    BY <1>5, <1>6, <2>1
<1> DEFINE g == CHOOSE h : h = Loop(h)
<1>10. g = Loop(g)
  BY <1>9
<1>11. Restored(m, t) = g[n]
  BY <1>4
<1> HIDE DEF g
<1>12. g = [i \in 0..n |-> IF i = 0 THEN m ELSE RestoreOne(g[i - 1], t, n + 1 - i)]
  BY <1>5, <1>10
<1>13. g[0] = m /\ \A k \in 1..n : g[k] = RestoreOne(g[k - 1], t, n + 1 - k)
  <2>1. 0 \in 0..n
    BY <1>1
  <2> QED
    BY <1>2, <1>12, <2>1
<1>14. Restoring(g[n], n, t, f, e, m)
  <2>1. Restores(g, t, f, e, m)
    BY <1>13 DEF Restores
  <2>2. n \in 0..n
    BY <1>1
  <2> QED
    BY <1>0, <2>1, <2>2, RestoresAll
<1>15. e.stack \o f[n - n] = e.stack
  <2>1. n - n = 0 /\ f[0] = << >>
    BY <1>0, <1>1 DEF Saves
  <2>2. e.stack \o << >> = e.stack
    BY ConcatEmptySeq DEF Machine
  <2> QED
    BY <2>1, <2>2
<1>16. \A i \in 1..n : i > n - n
  BY <1>1
<1> QED
  BY <1>11, <1>14, <1>15, <1>16 DEF Restoring

-----------------------------------------------------------------------------
(* The offsets of variables, and what is reserved for them.                *)

Numbers(s, n) == Len(s) = n /\ \A i \in 1..n : s[i] \in Int

Sinks(g, sizes, n) ==
  /\ g \in [0..n -> Int] /\ g[0] = 0
  /\ \A i \in 1..n : g[i] = g[i - 1] - sizes[i]

\* Every offset lies below the one before by the size of its variable.
LEMMA OffsetsAre ==
  ASSUME NEW sizes, NEW n \in Nat, Numbers(sizes, n)
  PROVE  \E g : Sinks(g, sizes, n) /\ OffsetsOf(sizes) = [i \in 1..n |-> g[i]]
<1>0. Len(sizes) = n /\ \A i \in 1..n : sizes[i] \in Int
  BY DEF Numbers
<1> DEFINE body == [p \in Int \X (1..n) |-> p[1] - sizes[p[2]]]
           Loop(g) == [i \in 0..n |-> IF i = 0 THEN 0 ELSE g[i - 1] - sizes[i]]
<1>1. \A s \in Int : \A i \in 1..n : body[<<s, i>>] = s - sizes[i] /\ body[<<s, i>>] \in Int
  BY <1>0
<1>2. OffsetsOf(sizes) = [i \in 1..n |-> (CHOOSE g : g = Loop(g))[i]]
  BY <1>0 DEF OffsetsOf
<1>3. \A g : Loop(g) = [i \in 0..n |-> IF i = 0 THEN 0 ELSE g[i - 1] - sizes[i]]
  OBVIOUS
<1>4. \A i \in 1..n : i - 1 \in 0..n /\ i \in 0..n /\ i # 0
  OBVIOUS
<1> HIDE DEF body, Loop
<1>5. PICK f \in [0..n -> Int] : f[0] = 0 /\ \A i \in 1..n : f[i] = body[<<f[i - 1], i>>]
  <2>1. Stays(Int, n, body)
    BY <1>1 DEF Stays
  <2>2. Runs(Int, 0, n, body) # {}
    BY <2>1, RoundsExist
  <2> QED
    BY <2>2 DEF Runs
<1>6. \A i \in 1..n : f[i] = f[i - 1] - sizes[i]
  BY <1>1, <1>4, <1>5
<1>7. f = Loop(f)
  <2>1. \A i \in 0..n : f[i] = IF i = 0 THEN 0 ELSE f[i - 1] - sizes[i]
    BY <1>5, <1>6
  <2> QED
    BY <1>3, <1>5, <2>1
<1> DEFINE g == CHOOSE h : h = Loop(h)
<1>8. g = Loop(g)
  BY <1>7
<1>9. OffsetsOf(sizes) = [i \in 1..n |-> g[i]]
  BY <1>2
<1> HIDE DEF g
<1>10. g = [i \in 0..n |-> IF i = 0 THEN 0 ELSE g[i - 1] - sizes[i]]
  BY <1>3, <1>8
<1>11. g[0] = 0 /\ \A i \in 1..n : g[i] = g[i - 1] - sizes[i]
  <2>1. 0 \in 0..n
    OBVIOUS
  <2> QED
    BY <1>4, <1>10, <2>1
<1>12. \A i \in 0..n : g[i] \in Int
  <2> DEFINE T == {i \in 0..n : g[i] \in Int}
  <2>1. 0 \in T
    BY <1>11
  <2>2. \A i \in 1..n : i - 1 \in T => i \in T
    BY <1>0, <1>4, <1>11
  <2> HIDE DEF T
  <2>3. \A i \in 0..n : i \in T
    BY <2>1, <2>2, BoundedInduction
  <2> QED
    BY <2>3 DEF T
<1>13. Sinks(g, sizes, n)
  BY <1>10, <1>11, <1>12 DEF Sinks
<1> QED
  BY <1>9, <1>13

Sums(g, offs, p, n) ==
  /\ g \in [0..n -> Int] /\ g[0] = 0
  /\ \A i \in 1..n : g[i] = g[i - 1] + offs[p + i]

SumFrom(offs, p) ==
  LET sum[i \in p..Len(offs)] == IF i = p THEN 0 ELSE sum[i - 1] + offs[i]
  IN sum[Len(offs)]

Follow(offs, p, n) == Len(offs) = p + n /\ \A i \in 1..n : offs[p + i] \in Int

\* What is reserved is the sum of the offsets of the locals.
LEMMA DataAre ==
  ASSUME NEW offs, NEW n \in Nat, NEW p \in Nat, Follow(offs, p, n)
  PROVE  \E g : Sums(g, offs, p, n) /\ SumFrom(offs, p) = g[n]
<1> DEFINE m    == p + n
           low  == [i \in 1..n |-> offs[p + i]]
           body == [q \in Int \X (1..n) |-> q[1] + low[q[2]]]
           Loop(h) == [i \in p..m |-> IF i = p THEN 0 ELSE h[i - 1] + offs[i]]
<1>0. m = p + n /\ Len(offs) = m /\ \A i \in 1..n : low[i] = offs[p + i] /\ low[i] \in Int
  BY DEF Follow
<1> HIDE DEF low, m
<1>1. \A s \in Int : \A i \in 1..n : body[<<s, i>>] = s + low[i] /\ body[<<s, i>>] \in Int
  BY <1>0
<1>2. SumFrom(offs, p) = (CHOOSE h : h = Loop(h))[m]
  BY <1>0 DEF SumFrom
<1>3. \A h : Loop(h) = [i \in p..m |-> IF i = p THEN 0 ELSE h[i - 1] + offs[i]]
  OBVIOUS
<1> HIDE DEF body, Loop
<1>5. PICK f \in [0..n -> Int] : f[0] = 0 /\ \A i \in 1..n : f[i] = body[<<f[i - 1], i>>]
  <2>1. Stays(Int, n, body)
    BY <1>1 DEF Stays
  <2>2. Runs(Int, 0, n, body) # {}
    BY <2>1, RoundsExist
  <2> QED
    BY <2>2 DEF Runs
<1>6. \A i \in 1..n : f[i] = f[i - 1] + offs[p + i]
  <2> SUFFICES ASSUME NEW i \in 1..n PROVE f[i] = f[i - 1] + offs[p + i]
    OBVIOUS
  <2>1. i - 1 \in 0..n
    OBVIOUS
  <2>2. PICK a \in Int : a = f[i - 1]
    BY <1>5, <2>1
  <2>3. body[<<a, i>>] = a + low[i] /\ low[i] = offs[p + i]
    BY <1>0, <1>1
  <2>4. f[i] = body[<<f[i - 1], i>>]
    BY <1>5
  <2> QED
    BY <2>2, <2>3, <2>4
<1> DEFINE k == [i \in p..m |-> f[i - p]]
<1>7. k = Loop(k)
  <2>1. \A i \in p..m : k[i] = IF i = p THEN 0 ELSE k[i - 1] + offs[i]
    <3> SUFFICES ASSUME NEW i \in p..m PROVE k[i] = IF i = p THEN 0 ELSE k[i - 1] + offs[i]
      OBVIOUS
    <3>1. CASE i = p
      BY <1>0, <1>5, <3>1
    <3>2. CASE i # p
      <4>1. i - p \in 1..n /\ i - 1 \in p..m /\ p + (i - p) = i /\ (i - p) - 1 = (i - 1) - p
        BY <1>0, <3>2
      <4>2. f[i - p] = f[(i - p) - 1] + offs[p + (i - p)]
        BY <1>6, <4>1
      <4>3. k[i] = f[i - p] /\ k[i - 1] = f[(i - 1) - p]
        BY <4>1
      <4> HIDE DEF k
      <4> QED
        BY <3>2, <4>1, <4>2, <4>3
    <3> QED
      BY <3>1, <3>2
  <2>2. k = [i \in p..m |-> k[i]]
    OBVIOUS
  <2> HIDE DEF k
  <2> QED
    BY <1>3, <2>1, <2>2
<1> DEFINE h == CHOOSE x : x = Loop(x)
<1>8. h = Loop(h)
  <2> HIDE DEF k
  <2> QED
    BY <1>7
<1>9. SumFrom(offs, p) = h[m]
  BY <1>2
<1> HIDE DEF h, k
<1>10. h = [i \in p..m |-> IF i = p THEN 0 ELSE h[i - 1] + offs[i]]
  BY <1>3, <1>8
<1> DEFINE g == [i \in 0..n |-> h[p + i]]
<1>11. \A i \in 0..n : g[i] = h[p + i]
  OBVIOUS
<1>12. g[0] = 0
  <2>1. p \in p..m /\ p + 0 = p /\ 0 \in 0..n
    BY <1>0
  <2>2. h[p] = 0
    BY <1>10, <2>1
  <2> HIDE DEF g
  <2> QED
    BY <1>11, <2>1, <2>2
<1>13. \A i \in 1..n : g[i] = g[i - 1] + offs[p + i]
  <2> SUFFICES ASSUME NEW i \in 1..n PROVE g[i] = g[i - 1] + offs[p + i]
    OBVIOUS
  <2>1. p + i \in p..m /\ p + i # p /\ (p + i) - 1 = p + (i - 1) /\ i \in 0..n /\ i - 1 \in 0..n
    BY <1>0
  <2>2. h[p + i] = h[(p + i) - 1] + offs[p + i]
    BY <1>10, <2>1
  <2> HIDE DEF g
  <2> QED
    BY <1>11, <2>1, <2>2
<1>14. g[n] = h[p + n] /\ g = [i \in 0..n |-> g[i]]
  BY <1>11
<1> HIDE DEF g
<1>15. \A i \in 0..n : g[i] \in Int
  <2> DEFINE T == {i \in 0..n : g[i] \in Int}
  <2>1. 0 \in T
    BY <1>12
  <2>2. \A i \in 1..n : i - 1 \in T => i \in T
    <3> SUFFICES ASSUME NEW i \in 1..n, i - 1 \in T PROVE i \in T
      OBVIOUS
    <3>1. PICK o, r : o = offs[p + i] /\ r = g[i - 1]
      OBVIOUS
    <3>2. o \in Int
      BY <3>1 DEF Follow
    <3>3. r \in Int
      BY <3>1
    <3>4. g[i] = r + o
      BY <1>13, <3>1
    <3>5. g[i] \in Int /\ i \in 0..n
      BY <3>2, <3>3, <3>4
    <3> QED
      BY <3>5
  <2> HIDE DEF T
  <2>3. \A i \in 0..n : i \in T
    BY <2>1, <2>2, BoundedInduction
  <2> QED
    BY <2>3 DEF T
<1>16. Sums(g, offs, p, n)
  BY <1>12, <1>13, <1>14, <1>15 DEF Sums
<1> QED
  <2>1. SumFrom(offs, p) = g[n]
    BY <1>0, <1>9, <1>14
  <2> QED
    BY <1>16, <2>1

Sizes(s, p, n) ==
  /\ Len(s) = n
  /\ \A i \in 1..n : \E w \in Nat \ {0} : s[i] = 8 * w
  /\ \A i \in 1..p : s[i] = 8

\* A parameter takes a cell, a local one or more.
LEMMA SizesAre ==
  ASSUME parameters \in Args, locals \in Seq(LocalSizes),
         NEW p, NEW n, p = Len(parameters), n = Len(parameters) + Len(locals)
  PROVE  /\ p \in Nat /\ n \in Nat /\ p <= n
         /\ Sizes(AlignedSizes, p, n)
<1>1. Len(parameters) \in Nat /\ Len(locals) \in Nat /\ \A i \in 1..Len(locals) : locals[i] \in LocalSizes
  BY LenProperties, ElementOfSeq DEF Args
<1>2. LocalSizes \subseteq Nat \ {0}
  BY BoundsAssumption
<1>3. PICK q, l, a, b : /\ q = Len(parameters) /\ l = Len(locals)
                        /\ a = [i \in 1..Len(parameters) |-> 8] /\ b = [i \in 1..Len(locals) |-> 8 * locals[i]]
  OBVIOUS
<1>4. q \in Nat /\ l \in Nat /\ p = q /\ n = q + l
  BY <1>1, <1>3
<1>5. a \in Seq(Nat) /\ Len(a) = q /\ \A i \in 1..q : a[i] = 8
  BY <1>3, <1>4
<1>6. \A i \in 1..l : b[i] = 8 * locals[i] /\ locals[i] \in Nat \ {0}
  BY <1>1, <1>2, <1>3
<1>7. b \in Seq(Nat) /\ Len(b) = l
  <2>1. b \in [1..l -> Nat]
    BY <1>3, <1>6
  <2> QED
    BY <1>4, <2>1
<1>8. AlignedSizes = a \o b
  BY <1>3 DEF AlignedSizes
<1>9. /\ Len(a \o b) = q + l
      /\ \A i \in 1..(q + l) : (a \o b)[i] = IF i <= q THEN a[i] ELSE b[i - q]
  BY <1>5, <1>7, ConcatProperties
<1>10. Len(AlignedSizes) = n /\ \A i \in 1..n : AlignedSizes[i] = IF i <= q THEN a[i] ELSE b[i - q]
  BY <1>4, <1>8, <1>9
<1>11. \A i \in 1..p : AlignedSizes[i] = 8
  BY <1>4, <1>5, <1>10
<1>12. ASSUME NEW i \in 1..n PROVE \E w \in Nat \ {0} : AlignedSizes[i] = 8 * w
  <2>1. CASE i <= q
    <3>1. AlignedSizes[i] = 8 * 1
      BY <1>4, <1>11, <2>1
    <3> QED
      BY <3>1
  <2>2. CASE ~(i <= q)
    <3>1. i - q \in 1..l
      BY <1>4, <2>2
    <3>2. PICK w : w = locals[i - q]
      OBVIOUS
    <3>3. w \in Nat \ {0} /\ b[i - q] = 8 * w
      BY <1>6, <3>1, <3>2
    <3>4. AlignedSizes[i] = b[i - q]
      BY <1>10, <2>2
    <3> QED
      BY <3>3, <3>4
  <2> QED
    BY <2>1, <2>2
<1> QED
  BY <1>4, <1>10, <1>11, <1>12 DEF Sizes

\* c[i] is how many cells the first i variables take, d how many are reserved for locals.
Placed(c, sizes, offs, p, n) ==
  /\ c \in [0..n -> Nat] /\ c[0] = 0
  /\ \A i \in 1..p : c[i] = i
  /\ \A i \in 1..n : c[i - 1] < c[i] /\ sizes[i] = 8 * (c[i] - c[i - 1]) /\ offs[i] = -(8 * c[i])
  /\ Len(offs) = n /\ offs \in [1..n -> Int]

\* No cells are no bytes.
LEMMA NoCells == \E x \in Nat : x = 0 /\ 0 = -(8 * x)
<1>1. PICK x \in Nat : x = 0
  OBVIOUS
<1>2. PICK m : m = -(8 * x)
  OBVIOUS
<1>3. 8 * x \in Int /\ 8 * x = 0
  BY <1>1
<1>4. -(8 * x) = 0 - (8 * x)
  BY <1>3
<1>5. m = 0
  BY <1>2, <1>3, <1>4
<1> QED
  BY <1>1, <1>2, <1>5

\* The offsets as numbers of cells.
LEMMA PlacedAre ==
  ASSUME NEW p \in Nat, NEW n \in Nat, p <= n, NEW sizes, Sizes(sizes, p, n),
         NEW offs, offs = OffsetsOf(sizes)
  PROVE  \E c : Placed(c, sizes, offs, p, n)
<1>1. /\ Len(sizes) = n
      /\ \A i \in 1..n : \E w \in Nat \ {0} : sizes[i] = 8 * w
      /\ \A i \in 1..p : sizes[i] = 8
  BY DEF Sizes
<1>2. PICK g : Sinks(g, sizes, n) /\ offs = [i \in 1..n |-> g[i]]
  <2>1. Numbers(sizes, n)
    BY <1>1 DEF Numbers
  <2> QED
    BY <2>1, OffsetsAre
<1>3. g \in [0..n -> Int] /\ g[0] = 0 /\ \A i \in 1..n : g[i] = g[i - 1] - sizes[i]
  BY <1>2 DEF Sinks
<1> DEFINE T == {i \in 0..n : \E x \in Nat : g[i] = -(8 * x)}
<1>4. 0 \in T
  <2>2. PICK x \in Nat : x = 0 /\ 0 = -(8 * x)
    BY NoCells
  <2>3. 0 \in 0..n
    OBVIOUS
  <2> QED
    BY <1>3, <2>2, <2>3
<1>5. ASSUME NEW i \in 1..n, i - 1 \in T PROVE i \in T
  <2>1. PICK x \in Nat : g[i - 1] = -(8 * x)
    BY <1>5
  <2>2. PICK w \in Nat \ {0} : sizes[i] = 8 * w
    BY <1>1
  <2>3. g[i] = -(8 * (x + w)) /\ x + w \in Nat /\ i \in 0..n
    BY <1>3, <2>1, <2>2
  <2> QED
    BY <2>3
<1> HIDE DEF T
<1>6. \A i \in 0..n : i \in T
  BY <1>4, <1>5, BoundedInduction
<1> DEFINE c == [i \in 0..n |-> CHOOSE x \in Nat : g[i] = -(8 * x)]
<1>7. \A i \in 0..n : c[i] \in Nat /\ g[i] = -(8 * c[i])
  BY <1>6 DEF T
<1>8. c = [i \in 0..n |-> c[i]]
  OBVIOUS
<1> HIDE DEF c
<1>9. c[0] = 0
  BY <1>3, <1>7
<1>10. ASSUME NEW i \in 1..n
       PROVE  /\ c[i - 1] < c[i] /\ sizes[i] = 8 * (c[i] - c[i - 1]) /\ g[i] = -(8 * c[i])
              /\ i <= p => c[i] = c[i - 1] + 1
  <2>1. PICK w \in Nat \ {0} : sizes[i] = 8 * w
    BY <1>1
  <2>2. PICK x, y : x = c[i - 1] /\ y = c[i]
    OBVIOUS
  <2>3. i - 1 \in 0..n /\ i \in 0..n
    OBVIOUS
  <2>4. x \in Nat /\ y \in Nat /\ g[i - 1] = -(8 * x) /\ g[i] = -(8 * y)
    BY <1>7, <2>2, <2>3
  <2>5. -(8 * y) = -(8 * x) - 8 * w
    BY <1>3, <2>1, <2>4
  <2>6. y = x + w /\ x < y
    BY <2>4, <2>5
  <2>7. i <= p => w = 1
    BY <1>1, <2>1
  <2> QED
    BY <2>1, <2>2, <2>4, <2>6, <2>7
<1>11. \A i \in 1..p : c[i] = i
  <2> DEFINE U == {i \in 0..p : c[i] = i}
  <2>1. 0 \in U
    BY <1>9
  <2>2. ASSUME NEW i \in 1..p, i - 1 \in U PROVE i \in U
    <3>1. i \in 1..n /\ i <= p /\ i \in 0..p
      OBVIOUS
    <3>2. c[i] = c[i - 1] + 1
      BY <1>10, <3>1
    <3>3. c[i - 1] = i - 1
      BY <2>2
    <3> QED
      BY <3>1, <3>2, <3>3
  <2> HIDE DEF U
  <2>3. \A i \in 0..p : i \in U
    BY <2>1, <2>2, BoundedInduction
  <2> QED
    BY <2>3 DEF U
<1>12. Len(offs) = n /\ offs \in [1..n -> Int] /\ \A i \in 1..n : offs[i] = g[i]
  BY <1>2, <1>3
<1>13. c \in [0..n -> Nat]
  BY <1>7, <1>8
<1>14. Placed(c, sizes, offs, p, n)
  BY <1>9, <1>10, <1>11, <1>12, <1>13 DEF Placed
<1> QED
  BY <1>14

Framed(c, d, sizes, offs, p, n) ==
  /\ Placed(c, sizes, offs, p, n)
  /\ d \in Nat /\ SumFrom(offs, p) = -(8 * d)
  /\ \A i \in 0..n : c[i] <= p + d

\* What is reserved is enough for all of them.
LEMMA FramedAre ==
  ASSUME NEW p \in Nat, NEW n \in Nat, p <= n, NEW sizes, NEW offs, NEW c, Placed(c, sizes, offs, p, n)
  PROVE  \E d : Framed(c, d, sizes, offs, p, n)
<1>1. PICK l : l = n - p
  OBVIOUS
<1>2. l \in Nat /\ n = p + l
  BY <1>1
<1>3. \A i \in 1..l : p + i \in 1..n /\ offs[p + i] = -(8 * c[p + i]) /\ c[p + i] \in Nat /\ offs[p + i] \in Int
  <2> SUFFICES ASSUME NEW i \in 1..l
               PROVE  p + i \in 1..n /\ offs[p + i] = -(8 * c[p + i]) /\ c[p + i] \in Nat /\ offs[p + i] \in Int
    OBVIOUS
  <2>1. PICK j : j = p + i
    OBVIOUS
  <2>2. j \in 1..n
    BY <1>2, <2>1
  <2>3. offs[j] = -(8 * c[j]) /\ c[j] \in Nat /\ offs[j] \in Int
    BY <2>2 DEF Placed
  <2> QED
    BY <2>1, <2>2, <2>3
<1>4. Follow(offs, p, l)
  <2>1. Len(offs) = n
    BY DEF Placed
  <2> QED
    BY <1>2, <1>3, <2>1 DEF Follow
<1>5. PICK h : Sums(h, offs, p, l) /\ SumFrom(offs, p) = h[l]
  BY <1>2, <1>4, DataAre
<1>6. h \in [0..l -> Int] /\ h[0] = 0 /\ \A i \in 1..l : h[i] = h[i - 1] + offs[p + i]
  BY <1>5 DEF Sums
<1> DEFINE Enough(i, x) == h[i] = -(8 * x) /\ \A j \in 0..(p + i) : c[j] <= p + x
           T == {i \in 0..l : \E x \in Nat : Enough(i, x)}
<1>7. 0 \in T
  <2>1. \A j \in 0..p : c[j] <= p
    <3>1. c[0] = 0 /\ \A j \in 1..p : c[j] = j
      BY DEF Placed
    <3> QED
      BY <3>1
  <2>2. PICK x \in Nat : x = 0 /\ 0 = -(8 * x)
    BY NoCells
  <2>3. p + 0 = p /\ p + x = p
    BY <2>2
  <2>4. Enough(0, x)
    BY <1>6, <2>1, <2>2, <2>3
  <2>5. 0 \in 0..l
    BY <1>2
  <2> QED
    BY <2>2, <2>4, <2>5
<1>8. ASSUME NEW i \in 1..l, i - 1 \in T PROVE i \in T
  <2>1. PICK x \in Nat : Enough(i - 1, x)
    BY <1>8
  <2>2. PICK y, z : y = c[p + i] /\ z = x + y
    OBVIOUS
  <2>3. y \in Nat /\ offs[p + i] = -(8 * y) /\ z \in Nat
    BY <1>3, <2>2
  <2>4. h[i] = -(8 * z)
    <3>1. h[i] = h[i - 1] + offs[p + i] /\ h[i - 1] = -(8 * x)
      BY <1>6, <2>1
    <3> QED
      BY <2>2, <2>3, <3>1
  <2>5. ASSUME NEW j \in 0..(p + i) PROVE c[j] <= p + z
    <3>1. PICK q : q = p + i
      OBVIOUS
    <3>2. q \in Nat /\ j \in 0..q /\ p + (i - 1) = q - 1 /\ q \in 1..n
      BY <1>2, <3>1
    <3>3. CASE j = q
      BY <2>2, <2>3, <3>1, <3>3
    <3>4. CASE j # q
      <4>1. j \in 0..(p + (i - 1))
        BY <3>2, <3>4
      <4>2. c[j] <= p + x
        BY <2>1, <4>1
      <4>3. j \in 0..n
        BY <3>2
      <4>4. c[j] \in Nat
        BY <4>3 DEF Placed
      <4> QED
        BY <2>2, <2>3, <4>2, <4>4
    <3> QED
      BY <3>3, <3>4
  <2>6. Enough(i, z) /\ i \in 0..l
    BY <1>2, <2>4, <2>5
  <2> QED
    BY <2>3, <2>6
<1> HIDE DEF T, Enough
<1>9. l \in T
  <2>1. \A i \in 0..l : i \in T
    BY <1>2, <1>7, <1>8, BoundedInduction
  <2>2. l \in 0..l
    BY <1>2
  <2> QED
    BY <2>1, <2>2
<1>10. PICK d \in Nat : Enough(l, d)
  BY <1>9 DEF T
<1>11. SumFrom(offs, p) = -(8 * d) /\ \A i \in 0..n : c[i] <= p + d
  BY <1>2, <1>5, <1>10 DEF Enough
<1>12. Framed(c, d, sizes, offs, p, n)
  BY <1>11 DEF Framed
<1> QED
  BY <1>12

\* The frame of a function: its variables lie in cells of their own, within what is reserved.
LEMMA FrameIs ==
  ASSUME parameters \in Args, locals \in Seq(LocalSizes),
         NEW offs, offs = OffsetsOf(AlignedSizes),
         NEW p, NEW n, p = Len(parameters), n = Len(parameters) + Len(locals)
  PROVE  /\ p \in Nat /\ n \in Nat /\ p <= n
         /\ \E c, d : Framed(c, d, AlignedSizes, offs, p, n)
<1>1. p \in Nat /\ n \in Nat /\ p <= n /\ Sizes(AlignedSizes, p, n)
  BY SizesAre
<1>2. PICK sizes : sizes = AlignedSizes
  OBVIOUS
<1>3. PICK c : Placed(c, sizes, offs, p, n)
  BY <1>1, <1>2, PlacedAre
<1>4. PICK d : Framed(c, d, sizes, offs, p, n)
  BY <1>1, <1>3, FramedAre
<1> QED
  BY <1>1, <1>2, <1>4

-----------------------------------------------------------------------------
(* The instructions of gen_expression.                                     *)

\* Writing a register leaves the stack alone.
LEMMA SetInt ==
  ASSUME NEW m \in Machine, NEW r \in IntRegisters, NEW c \in Nat, NEW n, n = [m EXCEPT !.int[r] = c]
  PROVE  /\ n \in Machine /\ n.stack = m.stack /\ n.xmm = m.xmm
         /\ n.int[r] = c /\ \A q \in IntRegisters : q # r => n.int[q] = m.int[q]
<1>1. n.stack = m.stack /\ n.xmm = m.xmm /\ n.int = [m.int EXCEPT ![r] = c] /\ n \in Machine
  BY DEF Machine
<1>2. m.int \in [IntRegisters -> Nat]
  BY DEF Machine
<1> QED
  BY <1>1, <1>2

\* Setting an xmm register sets no other.
LEMMA SetXmm ==
  ASSUME NEW m \in Machine, NEW r \in XmmRegisters, NEW c \in Nat, NEW n, n = [m EXCEPT !.xmm[r] = c]
  PROVE  /\ n \in Machine /\ n.stack = m.stack /\ n.int = m.int
         /\ n.xmm[r] = c /\ \A q \in XmmRegisters : q # r => n.xmm[q] = m.xmm[q]
<1>1. n.stack = m.stack /\ n.int = m.int /\ n.xmm = [m.xmm EXCEPT ![r] = c] /\ n \in Machine
  BY DEF Machine
<1>2. m.xmm \in [XmmRegisters -> Nat]
  BY DEF Machine
<1> QED
  BY <1>1, <1>2

\* A conversion moves the value to where the other kind is left.
LEMMA Converted ==
  ASSUME NEW m \in Machine, NEW to \in Kind, NEW from \in Kind, NEW n, n = Convert(m, to, from)
  PROVE  /\ n \in Machine /\ n.stack = m.stack
         /\ Result(m, from) \in Nat /\ Result(n, to) = Result(m, from)
<1>1. "rax" \in IntRegisters /\ 0 \in XmmRegisters /\ m.int["rax"] \in Nat /\ m.xmm[0] \in Nat
  BY SixRegisters DEF Machine, XmmRegisters
<1>2. Result(m, from) \in Nat
  BY <1>1 DEF Result
<1>3. CASE to = from
  BY <1>2, <1>3 DEF Convert
<1>4. CASE to # from /\ to = "float"
  <2>1. n = [m EXCEPT !.xmm[0] = m.int["rax"]] /\ from = "int"
    BY <1>4 DEF Convert, Kind
  <2>2. n \in Machine /\ n.stack = m.stack /\ n.xmm[0] = m.int["rax"]
    BY <1>1, <2>1, SetXmm
  <2> QED
    BY <1>2, <1>4, <2>1, <2>2 DEF Result
<1>5. CASE to # from /\ to = "int"
  <2>1. n = [m EXCEPT !.int["rax"] = m.xmm[0]] /\ from = "float"
    BY <1>5 DEF Convert, Kind
  <2>2. n \in Machine /\ n.stack = m.stack /\ n.int["rax"] = m.xmm[0]
    BY <1>1, <2>1, SetInt
  <2> QED
    BY <1>2, <1>5, <2>1, <2>2 DEF Result
<1> QED
  BY <1>3, <1>4, <1>5 DEF Kind

\* Pushing cells changes the stack only.
LEMMA PushesCells ==
  ASSUME NEW m \in Machine, NEW cells \in Stack, NEW n, n = PushCells(m, cells)
  PROVE  /\ n \in Machine /\ n.stack = m.stack \o cells /\ n.int = m.int /\ n.xmm = m.xmm
         /\ n.stack \in Stack /\ Len(n.stack) = Len(m.stack) + Len(cells)
<1>1. n.stack = m.stack \o cells /\ n.int = m.int /\ n.xmm = m.xmm
  BY DEF PushCells, Machine
<1>2. m.stack \in Seq(Nat) /\ cells \in Seq(Nat)
  BY DEF Machine, Stack
<1>3. m.stack \o cells \in Seq(Nat) /\ Len(m.stack \o cells) = Len(m.stack) + Len(cells)
  BY <1>2, ConcatProperties
<1>4. n \in Machine
  BY <1>3 DEF PushCells, Machine
<1> QED
  BY <1>1, <1>3, <1>4 DEF Stack

\* A value is converted and pushed.
LEMMA PushesResult ==
  ASSUME NEW m \in Machine, NEW to \in Kind, NEW from \in Kind,
         NEW n, n = PushResult(Convert(m, to, from), to), NEW c, c = Result(m, from)
  PROVE  /\ n \in Machine /\ c \in Nat
         /\ n.stack = m.stack \o <<c>>
         /\ Len(n.stack) = Len(m.stack) + 1
<1>1. PICK k : k = Convert(m, to, from)
  OBVIOUS
<1>2. k \in Machine /\ k.stack = m.stack /\ c \in Nat /\ Result(k, to) = c
  BY <1>1, Converted
<1>3. <<c>> \in Stack /\ Len(<<c>>) = 1
  BY <1>2 DEF Stack
<1>4. n = PushCells(k, <<c>>)
  BY <1>1, <1>2 DEF PushResult
<1>5. n \in Machine /\ n.stack = k.stack \o <<c>> /\ Len(n.stack) = Len(k.stack) + Len(<<c>>)
  BY <1>2, <1>3, <1>4, PushesCells
<1> QED
  BY <1>2, <1>3, <1>5

\* Whatever the operator, the left operand is the one pushed, the right one the value.
LEMMA OperandsAre ==
  ASSUME NEW m \in Machine, NEW s \in Stack, NEW c \in Nat, m.stack = s \o <<c>>,
         NEW kind \in Kind, NEW compare \in BOOLEAN, NEW o, o = Operands(m, kind, compare)
  PROVE  o[1] \in Machine /\ o[1].stack = s /\ o[2] = c /\ o[3] = Result(m, kind)
<1>0. s \in Seq(Nat)
  BY DEF Stack
<1>1. /\ "rax" \in IntRegisters /\ "rcx" \in IntRegisters /\ m.int["rax"] \in Nat
      /\ 0 \in XmmRegisters /\ 1 \in XmmRegisters /\ m.xmm[0] \in Nat
  BY SixRegisters DEF Machine, XmmRegisters
<1>2. CASE kind = "float" /\ compare
  <2>1. PICK r : r = PopXmm(m, 1)
    OBVIOUS
  <2>2. o = <<r, r.xmm[1], r.xmm[0]>>
    BY <1>2, <2>1 DEF Operands
  <2>3. r \in Machine /\ r.stack = s /\ r.xmm[1] = c /\ r.xmm[0] = m.xmm[0]
    <3>1. r \in Machine /\ r.stack = s /\ r.xmm[1] = c /\ \A q \in XmmRegisters : q # 1 => r.xmm[q] = m.xmm[q]
      <4>1. Has(m, s, c)
        BY <1>0 DEF Has
      <4>2. XmmTaken(r, m, s, c, 1)
        BY ONLY <1>1, <2>1, <4>1, PopXmms
      <4> QED
        BY <4>2 DEF XmmTaken
    <3> QED
      BY <1>1, <3>1
  <2>4. o[1] = r /\ o[2] = r.xmm[1] /\ o[3] = r.xmm[0]
    BY <2>2
  <2>5. Result(m, kind) = m.xmm[0]
    BY <1>2 DEF Result
  <2> QED
    BY <2>3, <2>4, <2>5
<1>3. CASE kind = "float" /\ ~compare
  <2>1. PICK k : k = [m EXCEPT !.xmm[1] = m.xmm[0]]
    OBVIOUS
  <2>2. PICK r : r = PopXmm(k, 0)
    OBVIOUS
  <2>3. o = <<r, r.xmm[0], r.xmm[1]>>
    BY <1>3, <2>1, <2>2 DEF Operands
  <2>4. k \in Machine /\ k.stack = m.stack /\ k.xmm[1] = m.xmm[0]
    BY <1>1, <2>1, SetXmm
  <2>5. k.stack = s \o <<c>>
    BY <2>4
  <2>6. r \in Machine /\ r.stack = s /\ r.xmm[0] = c /\ r.xmm[1] = k.xmm[1]
    <3>1. r \in Machine /\ r.stack = s /\ r.xmm[0] = c /\ \A q \in XmmRegisters : q # 0 => r.xmm[q] = k.xmm[q]
      <4>1. Has(k, s, c)
        BY <1>0, <2>4, <2>5 DEF Has
      <4>2. XmmTaken(r, k, s, c, 0)
        BY ONLY <1>1, <2>2, <4>1, PopXmms
      <4> QED
        BY <4>2 DEF XmmTaken
    <3> QED
      BY <1>1, <3>1
  <2>7. o[1] = r /\ o[2] = r.xmm[0] /\ o[3] = r.xmm[1]
    BY <2>3
  <2>8. Result(m, kind) = m.xmm[0]
    BY <1>3 DEF Result
  <2> QED
    BY <2>4, <2>6, <2>7, <2>8
<1>4. CASE kind = "int" /\ compare
  <2>1. PICK r : r = PopInt(m, "rcx")
    OBVIOUS
  <2>2. o = <<r, r.int["rcx"], r.int["rax"]>>
    BY <1>4, <2>1 DEF Operands
  <2>3. r \in Machine /\ r.stack = s /\ r.int["rcx"] = c /\ r.int["rax"] = m.int["rax"]
    <3>1. r \in Machine /\ r.stack = s /\ r.int["rcx"] = c /\ \A q \in IntRegisters : q # "rcx" => r.int[q] = m.int[q]
      <4>1. Has(m, s, c)
        BY <1>0 DEF Has
      <4>2. IntTaken(r, m, s, c, "rcx")
        BY ONLY <1>1, <2>1, <4>1, PopInts
      <4> QED
        BY <4>2 DEF IntTaken
    <3> QED
      BY <1>1, <3>1
  <2>4. o[1] = r /\ o[2] = r.int["rcx"] /\ o[3] = r.int["rax"]
    BY <2>2
  <2>5. Result(m, kind) = m.int["rax"]
    BY <1>4 DEF Result
  <2> QED
    BY <2>3, <2>4, <2>5
<1>5. CASE kind = "int" /\ ~compare
  <2>1. PICK k : k = [m EXCEPT !.int["rcx"] = m.int["rax"]]
    OBVIOUS
  <2>2. PICK r : r = PopInt(k, "rax")
    OBVIOUS
  <2>3. o = <<r, r.int["rax"], r.int["rcx"]>>
    BY <1>5, <2>1, <2>2 DEF Operands
  <2>4. k \in Machine /\ k.stack = m.stack /\ k.int["rcx"] = m.int["rax"]
    BY <1>1, <2>1, SetInt
  <2>5. k.stack = s \o <<c>>
    BY <2>4
  <2>6. r \in Machine /\ r.stack = s /\ r.int["rax"] = c /\ r.int["rcx"] = k.int["rcx"]
    <3>1. r \in Machine /\ r.stack = s /\ r.int["rax"] = c /\ \A q \in IntRegisters : q # "rax" => r.int[q] = k.int[q]
      <4>1. Has(k, s, c)
        BY <1>0, <2>4, <2>5 DEF Has
      <4>2. IntTaken(r, k, s, c, "rax")
        BY ONLY <1>1, <2>2, <4>1, PopInts
      <4> QED
        BY <4>2 DEF IntTaken
    <3> QED
      BY <1>1, <3>1
  <2>7. o[1] = r /\ o[2] = r.int["rax"] /\ o[3] = r.int["rcx"]
    BY <2>3
  <2>8. Result(m, kind) = m.int["rax"]
    BY <1>5 DEF Result
  <2> QED
    BY <2>4, <2>6, <2>7, <2>8
<1> QED
  BY <1>2, <1>3, <1>4, <1>5 DEF Kind

-----------------------------------------------------------------------------
(* Frames are pushed and popped.                                           *)

\* What is pushed lies above.
LEMMA AboveMore ==
  ASSUME NEW s \in Stack, NEW r \in Stack, NEW g \in Stack, Above(s, g), NEW n, n = s \o r
  PROVE  n \in Stack /\ Above(n, g)
<1>1. s \in Seq(Nat) /\ r \in Seq(Nat) /\ Len(g) \in Nat /\ Len(s) \in Nat /\ Len(r) \in Nat
  BY LenProperties DEF Stack
<1>2. /\ n \in Seq(Nat) /\ Len(n) = Len(s) + Len(r)
      /\ \A k \in 1..(Len(s) + Len(r)) : n[k] = IF k <= Len(s) THEN s[k] ELSE r[k - Len(s)]
  BY <1>1, ConcatProperties
<1>3. Len(g) <= Len(s) /\ \A k \in 1..Len(g) : s[k] = g[k]
  BY DEF Above
<1>4. \A k \in 1..Len(g) : n[k] = g[k]
  BY <1>1, <1>2, <1>3
<1> QED
  BY <1>1, <1>2, <1>3, <1>4 DEF Above, Stack

\* So does everything a frame puts there.
LEMMA BaseAbove ==
  ASSUME NEW f \in Frame, NEW g \in Stack
  PROVE  /\ Start(f) \in Stack /\ Base(f) \in Stack
         /\ Above(Start(f), g) => Above(Base(f), g)
<1>1. CASE f \in Operator
  <2>1. f.is = "binary" /\ f.stack \in Stack /\ f.left \in Nat
    BY <1>1 DEF Operator, Stack
  <2>2. Start(f) = f.stack
    BY <2>1 DEF Start
  <2>3. Base(f) = IF f.left = Junk THEN f.stack ELSE f.stack \o <<f.left>>
    BY <2>1 DEF Base
  <2>4. CASE f.left = Junk
    BY <2>1, <2>2, <2>3, <2>4
  <2>5. CASE f.left # Junk
    <3>1. PICK s, r, n : s = f.stack /\ r = <<f.left>> /\ n = Base(f)
      OBVIOUS
    <3>2. s \in Stack /\ r \in Stack /\ n = s \o r
      BY <2>1, <2>3, <2>5, <3>1 DEF Stack
    <3>3. n \in Stack
      BY <3>2, PushesOn
    <3>4. Above(s, g) => Above(n, g)
      BY <3>2, AboveMore
    <3> QED
      BY <2>1, <2>2, <3>1, <3>3, <3>4
  <2> QED
    BY <2>4, <2>5
<1>2. CASE f \in Call
  <2>1. /\ f.is = "call" /\ f.entry \in Machine /\ f.entry.stack \in Stack /\ f.arguments \in Stack /\ f.types \in Args
    BY <1>2 DEF Call, Stack, Machine
  <2>2. Start(f) = f.entry.stack
    BY <2>1 DEF Start
  <2>3. Base(f) = f.entry.stack \o SavedCells(f.entry, f.types) \o f.arguments
    BY <2>1 DEF Base
  <2>4. SavedCells(f.entry, f.types) \in Stack
    BY <2>1, SavedLength DEF Stack
  <2>5. PICK s, r, q, k, n : s = f.entry.stack /\ r = SavedCells(f.entry, f.types) /\ q = f.arguments
                             /\ k = s \o r /\ n = Base(f)
    OBVIOUS
  <2>6. s \in Stack /\ r \in Stack /\ q \in Stack /\ n = k \o q
    BY <2>1, <2>3, <2>4, <2>5
  <2>7. k \in Stack
    BY <2>5, <2>6, PushesOn
  <2>8. n \in Stack
    BY <2>6, <2>7, PushesOn
  <2>9. ASSUME Above(s, g) PROVE Above(n, g)
    <3>1. Above(k, g)
      BY <2>5, <2>6, <2>9, AboveMore
    <3> QED
      BY <2>6, <2>7, <3>1, AboveMore
  <2> QED
    BY <2>2, <2>5, <2>6, <2>8, <2>9
<1>3. CASE f \in Return
  <2>1. f.is = "returned" /\ f.entry.stack \in Stack
    BY <1>3 DEF Return, Stack, Machine
  <2> QED
    BY <2>1 DEF Start, Base
<1> QED
  BY <1>1, <1>2, <1>3 DEF Frame

\* The stack of a function whose frames are right.
LEMMA StackAbove ==
  ASSUME NEW fs, NEW s, NEW g \in Stack, FramesRight(fs, s, g)
  PROVE  s \in Stack /\ Above(s, g)
<1>1. CASE fs = << >>
  <2>1. s = g
    BY <1>1 DEF FramesRight
  <2> QED
    BY <2>1, LenProperties DEF Above, Stack
<1>2. CASE fs # << >>
  <2>1. fs \in Seq(Frame) /\ s = Base(fs[Len(fs)])
    BY <1>2 DEF FramesRight
  <2>2. Len(fs) \in 1..Len(fs)
    BY <1>2, <2>1, EmptySeq, LenProperties
  <2>3. fs[Len(fs)] \in Frame
    BY <2>1, <2>2, ElementOfSeq
  <2>4. Above(Start(fs[Len(fs)]), g)
    BY <2>2 DEF FramesRight, InTurn
  <2> QED
    BY <2>1, <2>3, <2>4, BaseAbove
<1> QED
  BY <1>1, <1>2

Opens(f, fs, s) ==
  /\ f \in Frame /\ Start(f) = s
  /\ f.is = "call" => Len(f.arguments) <= Len(f.types)
  /\ fs # << >> => fs[Len(fs)].is # "returned"

\* A frame is pushed.
LEMMA FramePushed ==
  ASSUME NEW fs, NEW s, NEW g \in Stack, FramesRight(fs, s, g), NEW f, Opens(f, fs, s),
         NEW n, n = Append(fs, f)
  PROVE  FramesRight(n, Base(f), g) /\ n # << >> /\ n[Len(n)] = f
<1>1. fs \in Seq(Frame) /\ f \in Frame
  BY DEF FramesRight, Opens
<1>2. /\ Len(fs) \in Nat /\ n \in Seq(Frame) /\ Len(n) = Len(fs) + 1 /\ n[Len(n)] = f
      /\ \A i \in 1..Len(fs) : n[i] = fs[i]
  BY <1>1, Pushed
<1>3. n # << >>
  BY <1>2
<1>4. Above(s, g)
  BY StackAbove
<1>5. ASSUME NEW i \in 1..Len(n) PROVE InTurn(n, i, g)
  <2>1. CASE i = Len(n)
    <3>1. n[i] = f
      BY <1>2, <2>1
    <3>2. Start(f) = IF i = 1 THEN g ELSE Base(n[i - 1])
      <4>1. CASE fs = << >>
        <5>1. i = 1
          BY <1>2, <2>1, <4>1
        <5>2. s = g
          BY <4>1 DEF FramesRight
        <5> QED
          BY <5>1, <5>2 DEF Opens
      <4>2. CASE fs # << >>
        <5>1. Len(fs) > 0
          BY <1>1, <4>2, EmptySeq
        <5>2. i # 1 /\ i - 1 = Len(fs) /\ i - 1 \in 1..Len(fs)
          BY <1>2, <2>1, <5>1
        <5>3. s = Base(fs[Len(fs)]) /\ n[i - 1] = fs[Len(fs)]
          BY <1>2, <4>2, <5>2 DEF FramesRight
        <5> QED
          BY <5>2, <5>3 DEF Opens
      <4> QED
        BY <4>1, <4>2
    <3> QED
      BY <1>4, <2>1, <3>1, <3>2 DEF InTurn, Opens
  <2>2. CASE i # Len(n)
    <3>1. i \in 1..Len(fs) /\ n[i] = fs[i]
      BY <1>2, <2>2
    <3>2. InTurn(fs, i, g)
      BY <3>1 DEF FramesRight
    <3>3. i # 1 => n[i - 1] = fs[i - 1]
      BY <1>2, <3>1
    <3>4. n[i].is # "returned"
      <4>1. CASE i = Len(fs)
        <5>1. fs # << >>
          BY <1>2, <3>1
        <5> QED
          BY <3>1, <4>1, <5>1 DEF Opens
      <4>2. CASE i # Len(fs)
        BY <3>1, <3>2, <4>2 DEF InTurn
      <4> QED
        BY <4>1, <4>2
    <3> QED
      BY <3>1, <3>2, <3>3, <3>4 DEF InTurn
  <2> QED
    BY <2>1, <2>2
<1> QED
  BY <1>2, <1>3, <1>5 DEF FramesRight

Unwinds(s, g, f, n) ==
  /\ f \in Frame /\ s = Base(f) /\ Start(f) \in Stack
  /\ f.is = "call" => Len(f.arguments) <= Len(f.types)
  /\ FramesRight(n, Start(f), g)
  /\ n # << >> => n[Len(n)].is # "returned"

\* A frame is popped: the stack it began on fits the frames below.
LEMMA FramePopped ==
  ASSUME NEW fs, NEW s, NEW g \in Stack, FramesRight(fs, s, g), fs # << >>,
         NEW f, f = fs[Len(fs)], NEW n, n = SubSeq(fs, 1, Len(fs) - 1)
  PROVE  Unwinds(s, g, f, n)
<1>1. fs \in Seq(Frame)
  BY DEF FramesRight
<1>2. /\ Len(fs) \in Nat /\ Len(fs) > 0 /\ f \in Frame /\ n \in Seq(Frame) /\ Len(n) = Len(fs) - 1
      /\ \A i \in 1..(Len(fs) - 1) : n[i] = fs[i]
  BY <1>1, Popped
<1>3. Len(fs) \in 1..Len(fs) /\ InTurn(fs, Len(fs), g)
  BY <1>2 DEF FramesRight
<1>4. s = Base(f) /\ (f.is = "call" => Len(f.arguments) <= Len(f.types)) /\ Start(f) \in Stack
  BY <1>2, <1>3, BaseAbove DEF FramesRight, InTurn
<1>5. ASSUME NEW i \in 1..Len(n) PROVE InTurn(n, i, g) /\ n[i].is # "returned"
  <2>1. i \in 1..Len(fs) /\ i # Len(fs) /\ n[i] = fs[i]
    BY <1>2
  <2>2. InTurn(fs, i, g)
    BY <2>1 DEF FramesRight
  <2>3. i # 1 => n[i - 1] = fs[i - 1]
    BY <1>2, <2>1
  <2> QED
    BY <2>1, <2>2, <2>3 DEF InTurn
<1>6. Start(f) = IF n = << >> THEN g ELSE Base(n[Len(n)])
  <2>1. Start(f) = IF Len(fs) = 1 THEN g ELSE Base(fs[Len(fs) - 1])
    BY <1>3 DEF InTurn
  <2>2. CASE n = << >>
    <3>1. Len(fs) = 1
      <4>1. Len(n) = 0
        BY <2>2, EmptySeq
      <4> QED
        BY <1>2, <4>1
    <3> QED
      BY <2>1, <2>2, <3>1
  <2>3. CASE n # << >>
    <3>1. Len(n) > 0
      BY <1>2, <2>3, EmptySeq
    <3>2. Len(fs) # 1 /\ Len(n) \in 1..(Len(fs) - 1)
      BY <1>2, <3>1
    <3>3. n[Len(n)] = fs[Len(fs) - 1]
      BY <1>2, <3>2
    <3> QED
      BY <2>1, <2>3, <3>2, <3>3
  <2> QED
    BY <2>2, <2>3
<1>7. n # << >> => n[Len(n)].is # "returned"
  <2>1. n # << >> => Len(n) \in 1..Len(n)
    BY <1>2, EmptySeq
  <2> QED
    BY <1>5, <2>1
<1> QED
  BY <1>2, <1>4, <1>5, <1>6, <1>7 DEF FramesRight, Unwinds

-----------------------------------------------------------------------------
(* The prologue: arguments arrive in their registers and go to their cells. *)

\* The i-th argument is the value i, in the register of the i-th parameter.
LEMMA ArrivingHolds ==
  ASSUME parameters \in Args
  PROVE  /\ Arriving \in Machine /\ Arriving.stack = << >>
         /\ \A i \in 1..Len(parameters) : Held(Arriving, parameters, i) = i
<1> DEFINE p == Len(parameters)
           IsInt(i, r) == parameters[i] = "int" /\ r = registers[Before(parameters, i, "int") + 1]
           IsFloat(i, r) == parameters[i] = "float" /\ r = Before(parameters, i, "float")
           ints == [r \in IntRegisters |-> IF \E i \in 1..p : IsInt(i, r)
                                             THEN CHOOSE i \in 1..p : IsInt(i, r) ELSE Junk]
           xmms == [r \in XmmRegisters |-> IF \E i \in 1..p : IsFloat(i, r)
                                             THEN CHOOSE i \in 1..p : IsFloat(i, r) ELSE Junk]
<1>1. Arriving = [int |-> ints, xmm |-> xmms, stack |-> << >>]
  BY DEF Arriving
<1>2. p \in Nat
  BY LenProperties DEF Args
<1> HIDE DEF p, IsInt, IsFloat
<1>3. ints \in [IntRegisters -> Nat] /\ xmms \in [XmmRegisters -> Nat]
  <2>1. 1..p \subseteq Nat /\ Junk \in Nat
    BY <1>2 DEF Junk
  <2>2. \A r : (\E i \in 1..p : IsInt(i, r)) => (CHOOSE i \in 1..p : IsInt(i, r)) \in 1..p
    OBVIOUS
  <2>3. \A r : (\E i \in 1..p : IsFloat(i, r)) => (CHOOSE i \in 1..p : IsFloat(i, r)) \in 1..p
    OBVIOUS
  <2> QED
    BY <2>1, <2>2, <2>3
<1>4. Arriving \in Machine /\ Arriving.stack = << >> /\ Arriving.int = ints /\ Arriving.xmm = xmms
  <2> HIDE DEF ints, xmms
  <2>1. << >> \in Seq(Nat)
    BY EmptySeq
  <2> QED
    BY <1>1, <1>3, <2>1 DEF Machine
<1>5. ASSUME NEW i \in 1..p PROVE Held(Arriving, parameters, i) = i
  <2>1. /\ parameters[i] \in Kind /\ Before(parameters, i, "int") + 1 \in 1..6
        /\ Before(parameters, i, "float") \in XmmRegisters
        /\ \A j \in 1..p : \A k \in Kind :
             parameters[i] = k /\ parameters[j] = k /\ i # j => Before(parameters, i, k) # Before(parameters, j, k)
    BY <1>5, Places DEF p
  <2>2. CASE parameters[i] = "int"
    <3>1. PICK r : r = registers[Before(parameters, i, "int") + 1]
      OBVIOUS
    <3>2. r \in IntRegisters /\ IsInt(i, r)
      BY <2>1, <2>2, <3>1, SixRegisters DEF IsInt
    <3>3. \A j \in 1..p : IsInt(j, r) => j = i
      <4> SUFFICES ASSUME NEW j \in 1..p, IsInt(j, r), j # i PROVE FALSE
        OBVIOUS
      <4>1. Before(parameters, i, "int") # Before(parameters, j, "int") /\ parameters[j] = "int"
        BY <2>1, <2>2 DEF IsInt, Kind
      <4>2. Before(parameters, j, "int") + 1 \in 1..6
        BY Places DEF p
      <4>3. Before(parameters, i, "int") \in Int /\ Before(parameters, j, "int") \in Int
        <5>1. i \in Nat /\ j \in Nat /\ i <= i /\ j <= j
          BY <1>2
        <5>2. Before(parameters, i, "int") \in 0..i /\ Before(parameters, j, "int") \in 0..j
          BY <5>1, BeforeGrows
        <5> QED
          BY <5>1, <5>2
      <4>4. Before(parameters, i, "int") + 1 # Before(parameters, j, "int") + 1
        BY <4>1, <4>3
      <4>5. registers[Before(parameters, i, "int") + 1] = registers[Before(parameters, j, "int") + 1]
        BY <3>1 DEF IsInt
      <4> QED
        BY <2>1, <4>2, <4>4, <4>5, SixRegisters
    <3>4. ints[r] = i
      BY <3>2, <3>3
    <3> HIDE DEF ints, xmms
    <3> QED
      BY <1>4, <2>2, <3>1, <3>4 DEF Held
  <2>3. CASE parameters[i] = "float"
    <3>1. PICK r : r = Before(parameters, i, "float")
      OBVIOUS
    <3>2. r \in XmmRegisters /\ IsFloat(i, r)
      BY <2>1, <2>3, <3>1 DEF IsFloat
    <3>3. \A j \in 1..p : IsFloat(j, r) => j = i
      BY <2>1, <2>3, <3>1 DEF IsFloat, Kind
    <3>4. xmms[r] = i
      BY <3>2, <3>3
    <3> HIDE DEF ints, xmms
    <3> QED
      BY <1>4, <2>3, <3>1, <3>4 DEF Held
  <2> QED
    BY <2>1, <2>2, <2>3 DEF Kind
<1> QED
  BY <1>4, <1>5 DEF p

GroundOf(p, d) == [i \in 1..p |-> i] \o [i \in 1..d |-> Junk]

\* The cells of the parameters, then those of the locals.
LEMMA GroundFacts ==
  ASSUME NEW p \in Nat, NEW d \in Nat, NEW g, g = GroundOf(p, d)
  PROVE  /\ g \in Stack /\ Len(g) = p + d
         /\ \A i \in 1..p : g[i] = i
<1>1. PICK a, b : a = [i \in 1..p |-> i] /\ b = [i \in 1..d |-> Junk]
  OBVIOUS
<1>2. a \in Seq(Nat) /\ Len(a) = p /\ \A i \in 1..p : a[i] = i
  BY <1>1
<1>3. b \in Seq(Nat) /\ Len(b) = d
  BY <1>1 DEF Junk
<1>4. g = a \o b
  BY <1>1 DEF GroundOf
<1>5. /\ a \o b \in Seq(Nat) /\ Len(a \o b) = p + d
      /\ \A i \in 1..(p + d) : (a \o b)[i] = IF i <= p THEN a[i] ELSE b[i - p]
  BY <1>2, <1>3, ConcatProperties
<1> QED
  BY <1>2, <1>4, <1>5 DEF Stack

\* What the prologue made of the offsets.
LEMMA BodyFrame ==
  ASSUME parameters \in Args, locals \in Seq(LocalSizes),
         NEW offs, offs = OffsetsOf(AlignedSizes), NEW p, p = Len(parameters)
  PROVE  /\ p \in Nat /\ Lowest(offs) \in Int
         /\ \E c : \E d \in Nat : \E n \in Nat :
              /\ p <= n /\ Framed(c, d, AlignedSizes, offs, p, n)
              /\ p - LocalData(offs) \div 8 = p + d
              /\ -LocalData(offs) \div 8 = d
<1>1. PICK n : n = Len(parameters) + Len(locals)
  OBVIOUS
<1>2. p \in Nat /\ n \in Nat /\ p <= n /\ \E c, d : Framed(c, d, AlignedSizes, offs, p, n)
  BY <1>1, FrameIs
<1>3. PICK c, d : Framed(c, d, AlignedSizes, offs, p, n)
  BY <1>2
<1>4. d \in Nat /\ SumFrom(offs, p) = -(8 * d) /\ Placed(c, AlignedSizes, offs, p, n)
  BY <1>3 DEF Framed
<1>5. LocalData(offs) = SumFrom(offs, p)
  BY DEF LocalData, SumFrom
<1>6. PICK x : x = LocalData(offs)
  OBVIOUS
<1>7. x = -(8 * d)
  BY <1>4, <1>5, <1>6
<1>8. p - x \div 8 = p + d /\ -x \div 8 = d
  BY <1>2, <1>4, <1>7
<1>9. Lowest(offs) \in Int
  <2>1. Len(offs) = n /\ offs \in [1..n -> Int]
    BY <1>4 DEF Placed
  <2>2. CASE offs = << >>
    BY <2>2 DEF Lowest
  <2>3. CASE offs # << >>
    <3>1. n \in 1..n
      <4>1. offs \in Seq(Int)
        BY <1>2, <2>1
      <4>2. Len(offs) > 0
        BY <2>3, <4>1, EmptySeq
      <4> QED
        BY <1>2, <2>1, <4>2
    <3>2. offs[n] \in Int
      BY <2>1, <3>1
    <3> QED
      BY <2>1, <2>3, <3>2 DEF Lowest
  <2> QED
    BY <2>2, <2>3
<1> QED
  BY <1>2, <1>3, <1>4, <1>6, <1>8, <1>9

-----------------------------------------------------------------------------
(* The steps.                                                              *)

\* A bounded sequence is one.
LEMMA Bounded ==
  ASSUME NEW n \in Nat, NEW S, NEW t \in UpTo(n, S)
  PROVE  t \in Seq(S) /\ Len(t) <= n
<1>1. PICK k \in 0..n : t \in [1..k -> S]
  BY DEF UpTo
<1> QED
  BY <1>1

\* The argument lists the model enumerates fit the registers.
LEMMA BoundedArgs ==
  ASSUME NEW n \in 0..Len(registers), NEW t \in UpTo(n, Kind)
  PROVE  t \in Args
<1>1. Len(registers) = 6
  BY SixRegisters
<1>2. t \in Seq(Kind) /\ Len(t) <= n
  BY <1>1, Bounded
<1>3. Len(t) \in Nat
  BY <1>2, LenProperties
<1> QED
  BY <1>1, <1>2, <1>3 DEF Args

\* What is known of the frame in the body.
LEMMA BodyFacts ==
  ASSUME TypeOK, BodyRight
  PROVE  /\ Reserved \in Nat /\ Lowest(offsets) \in Int /\ Len(parameters) \in Nat
         /\ Ground \in Stack /\ Len(Ground) = Reserved
         /\ machine.stack \in Stack /\ Above(machine.stack, Ground) /\ Len(machine.stack) \in Nat
         /\ gen_stack \in Int
<1>1. parameters \in Args /\ locals \in Seq(LocalSizes) /\ offsets = OffsetsOf(AlignedSizes)
  BY DEF TypeOK, BodyRight
<1>2. PICK p : p = Len(parameters)
  OBVIOUS
<1>3. p \in Nat /\ Lowest(offsets) \in Int
  BY <1>1, <1>2, BodyFrame
<1>4. PICK d \in Nat : p - LocalData(offsets) \div 8 = p + d /\ -LocalData(offsets) \div 8 = d
  BY <1>1, <1>2, BodyFrame
<1>5. Reserved = p + d /\ Ground = GroundOf(p, d)
  BY <1>2, <1>4 DEF Reserved, Ground, GroundOf
<1>6. Ground \in Stack /\ Len(Ground) = p + d
  BY <1>3, <1>5, GroundFacts
<1>7. machine.stack \in Stack /\ Above(machine.stack, Ground)
  BY <1>6, StackAbove DEF BodyRight
<1>8. Len(machine.stack) \in Nat
  BY <1>7, LenProperties DEF Stack
<1>9. gen_stack \in Int
  <2>1. gen_stack = 16 + 8 * p - Lowest(offsets) + 8 * (Len(machine.stack) - Reserved)
    BY <1>2 DEF BodyRight
  <2>2. Reserved \in Int
    BY <1>3, <1>5
  <2> QED
    BY <1>3, <1>8, <2>1, <2>2
<1> QED
  BY <1>2, <1>3, <1>5, <1>6, <1>7, <1>8, <1>9

\* gen_stack follows the stack.
Follows == gen_stack' = gen_stack + 8 * (Len(machine'.stack) - Len(machine.stack))

\* What a step of the body has to show: the frames fit the stack, gen_stack counts it, and
\* a value that waits is in its register.
LEMMA BodyKept ==
  ASSUME TypeOK, BodyRight, UNCHANGED <<parameters, locals, offsets>>,
         machine' \in Machine, FramesRight(frames', machine'.stack, Ground), Follows,
         value' # "none" => Result(machine', value') # Junk,
         frames' # << >> /\ top'.is = "returned" => value' # "none"
  PROVE  BodyRight'
<1>1. /\ Reserved \in Nat /\ Lowest(offsets) \in Int /\ Len(parameters) \in Nat
      /\ Len(machine.stack) \in Nat /\ gen_stack \in Int
  BY BodyFacts
<1>2. /\ Ground' = Ground /\ Reserved' = Reserved /\ Lowest(offsets)' = Lowest(offsets)
      /\ Len(parameters)' = Len(parameters)
  BY DEF Ground, Reserved, LocalData, Lowest
<1>3. offsets' = OffsetsOf(AlignedSizes)'
  BY DEF AlignedSizes, BodyRight, OffsetsOf
<1>4. Len(machine'.stack) \in Nat
  BY LenProperties DEF Machine
<1>5. gen_stack' = 16 + 8 * Len(parameters) - Lowest(offsets) + 8 * (Len(machine'.stack) - Reserved)
  <2>1. gen_stack = 16 + 8 * Len(parameters) - Lowest(offsets) + 8 * (Len(machine.stack) - Reserved)
    BY DEF BodyRight
  <2>2. PICK a, b, c, d, e : /\ a = Len(parameters) /\ b = Lowest(offsets) /\ c = Len(machine.stack)
                             /\ d = Reserved /\ e = Len(machine'.stack)
    OBVIOUS
  <2>3. gen_stack' = (16 + 8 * a - b + 8 * (c - d)) + 8 * (e - c)
    BY <2>1, <2>2 DEF Follows
  <2>4. a \in Int /\ b \in Int /\ c \in Int /\ d \in Int /\ e \in Int
    BY <1>1, <1>4, <2>2
  <2>5. gen_stack' = 16 + 8 * a - b + 8 * (e - d)
    BY <2>3, <2>4
  <2> QED
    BY <2>2, <2>5
<1> QED
  BY <1>2, <1>3, <1>5 DEF BodyRight

\* At first.
LEMMA CallInit == Init => IInv
<1> SUFFICES ASSUME Init PROVE IInv
  OBVIOUS
<1>1. parameters \in Args
  BY BoundsAssumption, BoundedArgs DEF Init
<1>2. locals \in Seq(LocalSizes)
  BY BoundsAssumption, Bounded DEF Init
<1>3. machine \in Machine
  BY <1>1, ArrivingHolds DEF Init
<1>4. next \in Nat \ {0}
  <2>1. Len(parameters) \in Nat
    BY <1>1, LenProperties DEF Args
  <2> QED
    BY <2>1 DEF Init
<1> QED
  BY <1>1, <1>2, <1>3, <1>4 DEF Init, IInv, TypeOK, OperandsInPlace, CallTransparent

\* A frame that is not left untouched by a call says nothing of one.
LEMMA NoReturn ==
  ASSUME frames' # << >> => top'.is # "returned"
  PROVE  CallTransparent'
  BY DEF CallTransparent

\* The prologue.
LEMMA PrologueStep == IInv /\ Prologue => IInv'
<1> SUFFICES ASSUME IInv, Prologue PROVE IInv'
  OBVIOUS
<1>1. /\ parameters \in Args /\ locals \in Seq(LocalSizes) /\ frames = << >> /\ value = "none"
      /\ machine = Arriving /\ pc' = "body"
      /\ UNCHANGED <<parameters, locals, frames, value, next, used>>
  BY DEF IInv, TypeOK, Prologue
<1>2. PICK p, offs, low : p = Len(parameters) /\ offs = offsets' /\ low = Lowest(offsets')
  OBVIOUS
<1>3. offs = OffsetsOf(AlignedSizes)
  BY <1>2 DEF Prologue
<1>4. p \in Nat /\ low \in Int
  BY <1>1, <1>2, <1>3, BodyFrame
<1>5. PICK d \in Nat : p - LocalData(offs) \div 8 = p + d /\ -LocalData(offs) \div 8 = d
  BY <1>1, <1>2, <1>3, BodyFrame
<1>6. PICK g : g = GroundOf(p, d)
  OBVIOUS
<1>7. g \in Stack /\ Len(g) = p + d
  BY <1>4, <1>6, GroundFacts
<1>8. /\ Arriving \in Machine /\ Arriving.stack = << >>
      /\ \A i \in 1..Len(parameters) : Held(Arriving, parameters, i) = i
  BY <1>1, ArrivingHolds
<1>9. \A i \in 1..p : ParameterCell(i) = i
  <2> SUFFICES ASSUME NEW i \in 1..Len(parameters) PROVE ParameterCell(i) = i
    BY <1>2
  <2>1. parameters[i] \in Kind
    BY <1>1, Places
  <2>2. Held(machine, parameters, i) = i
    BY <1>1, <1>8
  <2> QED
    BY <2>1, <2>2 DEF ParameterCell, Held, Kind
<1>10. [i \in 1..p |-> ParameterCell(i)] = [i \in 1..p |-> i]
  BY <1>9
<1>11. machine' = PushCells(machine, g)
  BY <1>2, <1>5, <1>6, <1>10 DEF Prologue, GroundOf
<1>12. PICK n : n = machine'
  OBVIOUS
<1>13. machine' \in Machine /\ machine'.stack = machine.stack \o g
  BY <1>1, <1>7, <1>8, <1>11, PushesCells
<1>14. machine'.stack = g
  <2>1. << >> \o g = g
    BY <1>7, ConcatEmptySeq DEF Stack
  <2> QED
    BY <1>1, <1>8, <1>13, <2>1
<1>15. Ground' = g /\ Reserved' = p + d /\ Lowest(offsets)' = low /\ Len(parameters)' = p
  <2>1. Len(parameters)' = p /\ LocalData(offsets)' = LocalData(offs) /\ Lowest(offsets)' = low
    BY <1>1, <1>2 DEF LocalData, Lowest
  <2>2. Ground' = g
    BY <1>5, <1>6, <2>1 DEF Ground, GroundOf
  <2>3. Reserved' = p + d
    BY <1>5, <2>1 DEF Reserved
  <2> QED
    BY <2>1, <2>2, <2>3
<1>16. FramesRight(frames, machine.stack, Ground)'
  <2>1. frames' = << >> /\ << >> \in Seq(Frame) /\ Len(<< >>) = 0
    BY <1>1, EmptySeq
  <2>2. \A i \in 1..Len(frames') : InTurn(frames', i, Ground')
    BY <2>1
  <2> QED
    BY <1>14, <1>15, <2>1, <2>2 DEF FramesRight
<1>17. gen_stack' = 16 + 8 * Len(parameters)' - Lowest(offsets)' + 8 * (Len(machine'.stack) - Reserved')
  <2>1. gen_stack' = 8 + 8 * p - (low - 8)
    BY <1>2 DEF Prologue
  <2>2. Len(machine'.stack) - Reserved' = 0
    BY <1>4, <1>7, <1>14, <1>15
  <2>3. gen_stack' = 16 + 8 * p - low + 8 * 0
    BY <1>4, <2>1
  <2> QED
    BY <1>15, <2>2, <2>3
<1>18. offsets' = OffsetsOf(AlignedSizes)'
  BY <1>1, <1>2, <1>3 DEF AlignedSizes, OffsetsOf
<1>19. BodyRight'
  BY <1>1, <1>16, <1>17, <1>18 DEF BodyRight
<1>20. TypeOK'
  BY <1>1, <1>13 DEF TypeOK, IInv
<1>21. OperandsInPlace' /\ CallTransparent'
  BY <1>1 DEF IInv, OperandsInPlace, CallTransparent
<1> QED
  BY <1>1, <1>19, <1>20, <1>21 DEF IInv

\* What is known when a value is wanted, and when one is there.
LEMMA InBody ==
  ASSUME IInv, pc = "body" \/ value # "none" \/ frames # << >>
  PROVE  /\ pc = "body" /\ BodyRight /\ TypeOK
         /\ machine \in Machine /\ next \in Nat \ {0} /\ next # Junk
         /\ Ground \in Stack /\ machine.stack \in Stack /\ Len(machine.stack) \in Nat
         /\ FramesRight(frames, machine.stack, Ground)
         /\ gen_stack \in Int
<1>1. pc = "body" /\ BodyRight /\ TypeOK
  BY DEF IInv, TypeOK
<1>2. Ground \in Stack /\ machine.stack \in Stack /\ Len(machine.stack) \in Nat /\ gen_stack \in Int
  BY <1>1, BodyFacts
<1> QED
  BY <1>1, <1>2 DEF TypeOK, BodyRight, Junk

\* A leaf.
LEMMA LeafStep == ASSUME NEW kind \in Kind PROVE IInv /\ Leaf(kind) => IInv'
<1> SUFFICES ASSUME IInv, Leaf(kind) PROVE IInv'
  OBVIOUS
<1>1. /\ pc = "body" /\ value = "none" /\ value' = kind /\ next' = next + 1
      /\ UNCHANGED <<parameters, locals, offsets, gen_stack, frames, pc, used>>
      /\ machine' = IF kind = "float" THEN [machine EXCEPT !.xmm[0] = next]
                    ELSE [machine EXCEPT !.int["rax"] = next, !.int["rcx"] = Junk]
  BY DEF Leaf, Begins
<1>2. /\ BodyRight /\ TypeOK /\ machine \in Machine /\ next \in Nat \ {0} /\ next # Junk
      /\ Len(machine.stack) \in Nat
      /\ FramesRight(frames, machine.stack, Ground) /\ gen_stack \in Int
  BY <1>1, InBody
<1>3. 0 \in XmmRegisters /\ "rax" \in IntRegisters /\ "rcx" \in IntRegisters /\ Junk \in Nat
  BY SixRegisters DEF XmmRegisters, Junk
<1>4. machine' \in Machine /\ machine'.stack = machine.stack /\ Result(machine', kind) = next
  <2>1. CASE kind = "float"
    <3>1. machine' = [machine EXCEPT !.xmm[0] = next]
      BY <1>1, <2>1
    <3>2. machine' \in Machine /\ machine'.stack = machine.stack /\ machine'.xmm[0] = next
      BY <1>2, <1>3, <3>1, SetXmm
    <3> QED
      BY <2>1, <3>2 DEF Result
  <2>2. CASE kind # "float"
    <3>1. PICK n : n = [machine EXCEPT !.int["rax"] = next]
      OBVIOUS
    <3>2. n \in Machine /\ n.stack = machine.stack /\ n.int["rax"] = next
      BY <1>2, <1>3, <3>1, SetInt
    <3>3. machine' = [n EXCEPT !.int["rcx"] = Junk]
      BY <1>1, <2>2, <3>1
    <3>4. /\ machine' \in Machine /\ machine'.stack = n.stack
          /\ \A q \in IntRegisters : q # "rcx" => machine'.int[q] = n.int[q]
      BY <1>3, <3>2, <3>3, SetInt
    <3> QED
      BY <1>3, <2>2, <3>2, <3>4 DEF Result
  <2> QED
    BY <2>1, <2>2
<1>5. frames # << >> => top.is # "returned"
  BY <1>1, <1>2 DEF BodyRight
<1>6. frames' # << >> => top'.is # "returned"
  BY <1>1, <1>5 DEF top
<1>7. Follows
  BY <1>1, <1>2, <1>4 DEF Follows
<1>8. BodyRight'
  <2>1. value' # "none" => Result(machine', value') # Junk
    BY <1>1, <1>2, <1>4
  <2>2. FramesRight(frames', machine'.stack, Ground)
    BY <1>1, <1>2, <1>4
  <2> QED
    BY <1>1, <1>2, <1>4, <1>6, <1>7, <2>1, <2>2, BodyKept
<1>9. TypeOK'
  BY <1>1, <1>2, <1>4 DEF TypeOK
<1>10. CallTransparent'
  BY <1>6, NoReturn
<1>11. OperandsInPlace'
  BY <1>1 DEF IInv, OperandsInPlace
<1> QED
  BY <1>1, <1>8, <1>9, <1>10, <1>11 DEF IInv

\* A binary operator begins.
LEMMA BeginBinaryStep ==
  ASSUME NEW kind \in Kind, NEW compare \in BOOLEAN PROVE IInv /\ BeginBinary(kind, compare) => IInv'
<1> SUFFICES ASSUME IInv, BeginBinary(kind, compare) PROVE IInv'
  OBVIOUS
<1> DEFINE f == [is |-> "binary", kind |-> kind, compare |-> compare, left |-> Junk, stack |-> machine.stack]
<1>1. /\ pc = "body" /\ value = "none" /\ frames' = Append(frames, f)
      /\ UNCHANGED <<parameters, locals, offsets, machine, gen_stack, value, next, pc, used>>
  BY DEF BeginBinary, Begins
<1>2. /\ BodyRight /\ TypeOK /\ machine \in Machine /\ Ground \in Stack
      /\ Len(machine.stack) \in Nat /\ machine.stack \in Stack
      /\ FramesRight(frames, machine.stack, Ground) /\ gen_stack \in Int
  BY <1>1, InBody
<1>3. f \in Frame /\ Start(f) = machine.stack /\ Base(f) = machine.stack /\ f.is = "binary"
  BY <1>2 DEF Frame, Operator, Start, Base, Junk, Stack
<1> HIDE DEF f
<1>4. Opens(f, frames, machine.stack)
  BY <1>1, <1>2, <1>3 DEF Opens, BodyRight, top
<1>5. FramesRight(frames', machine.stack, Ground) /\ top' = f
  <2>1. PICK n : n = frames'
    OBVIOUS
  <2>2. FramesRight(n, Base(f), Ground) /\ n # << >> /\ n[Len(n)] = f
    BY <1>1, <1>2, <1>4, <2>1, FramePushed
  <2> QED
    BY <1>3, <2>1, <2>2 DEF top
<1>6. Follows
  BY <1>1, <1>2 DEF Follows
<1>7. BodyRight'
  <2>1. top'.is # "returned" /\ value' = "none" /\ machine' = machine
    BY <1>1, <1>3, <1>5
  <2> QED
    BY <1>1, <1>2, <1>5, <1>6, <2>1, BodyKept
<1>8. TypeOK'
  BY <1>1, <1>2 DEF TypeOK
<1>9. CallTransparent'
  BY <1>3, <1>5, NoReturn
<1>10. OperandsInPlace'
  BY <1>1 DEF IInv, OperandsInPlace
<1> QED
  BY <1>1, <1>7, <1>8, <1>9, <1>10 DEF IInv

Renews(f, t) ==
  /\ f \in Frame /\ Start(f) = Start(t)
  /\ f.is = "call" => Len(f.arguments) <= Len(f.types)

\* A frame takes the place of the innermost one.
LEMMA FrameRenewed ==
  ASSUME NEW fs, NEW s, NEW g \in Stack, FramesRight(fs, s, g), fs # << >>,
         NEW f, Renews(f, fs[Len(fs)]),
         NEW n, n = Append(SubSeq(fs, 1, Len(fs) - 1), f)
  PROVE  FramesRight(n, Base(f), g) /\ n # << >> /\ n[Len(n)] = f
<1>1. PICK o, t : o = SubSeq(fs, 1, Len(fs) - 1) /\ t = fs[Len(fs)]
  OBVIOUS
<1>2. Unwinds(s, g, t, o)
  BY <1>1, FramePopped
<1>5. FramesRight(o, Start(t), g)
  BY <1>2 DEF Unwinds
<1>3. Opens(f, o, Start(t))
  BY <1>1, <1>2 DEF Opens, Unwinds, Renews
<1>4. n = Append(o, f)
  BY <1>1
<1> QED
  BY <1>3, <1>4, <1>5, FramePushed

\* The left operand is there.
LEMMA LeftStep == IInv /\ Left => IInv'
<1> SUFFICES ASSUME IInv, Left PROVE IInv'
  OBVIOUS
<1> DEFINE c == Result(machine, value)
           f == [top EXCEPT !.left = c]
<1>1. /\ value # "none" /\ frames # << >> /\ top.is = "binary" /\ top.left = Junk
      /\ machine' = PushResult(Convert(machine, top.kind, value), top.kind)
      /\ frames' = Append(outer, f) /\ gen_stack' = gen_stack + 8 /\ value' = "none"
      /\ UNCHANGED <<parameters, locals, offsets, next, pc, used>>
  BY DEF Left
<1>2. /\ pc = "body" /\ BodyRight /\ TypeOK /\ machine \in Machine /\ Ground \in Stack
      /\ Len(machine.stack) \in Nat /\ machine.stack \in Stack
      /\ FramesRight(frames, machine.stack, Ground) /\ gen_stack \in Int
  BY <1>1, InBody
<1>3. value \in Kind /\ c # Junk
  BY <1>1, <1>2 DEF TypeOK, BodyRight
<1>4. top \in Frame /\ machine.stack = Base(top)
  <2>1. Unwinds(machine.stack, Ground, top, outer)
    BY <1>1, <1>2, FramePopped DEF top, outer
  <2> QED
    BY <2>1 DEF Unwinds
<1>5. top \in Operator
  BY <1>1, <1>4 DEF Frame, Operator, Call, Return
<1> HIDE DEF c
<1>6. PICK k : k = top.kind
  OBVIOUS
<1>7. k \in Kind
  BY <1>5, <1>6 DEF Operator
<1>8. /\ machine' \in Machine /\ c \in Nat /\ machine'.stack = machine.stack \o <<c>>
      /\ Len(machine'.stack) = Len(machine.stack) + 1
  BY <1>1, <1>2, <1>3, <1>6, <1>7, PushesResult DEF c
<1>9. f \in Operator /\ f.is = "binary" /\ f.left = c /\ f.stack = top.stack
  BY <1>5, <1>8 DEF Operator
<1> HIDE DEF f
<1>10. f \in Frame /\ Start(f) = Start(top) /\ Base(f) = machine'.stack
  <2>1. Start(f) = top.stack /\ Start(top) = top.stack
    BY <1>1, <1>9 DEF Start
  <2>2. Base(top) = top.stack
    BY <1>1 DEF Base
  <2>3. Base(f) = top.stack \o <<c>>
    BY <1>3, <1>9 DEF Base
  <2> QED
    BY <1>4, <1>8, <1>9, <2>1, <2>2, <2>3 DEF Frame
<1>11. FramesRight(frames', machine'.stack, Ground) /\ top' = f
  <2>1. PICK n : n = frames'
    OBVIOUS
  <2>2. FramesRight(n, Base(f), Ground) /\ n # << >> /\ n[Len(n)] = f
    <3>1. Renews(f, frames[Len(frames)])
      BY <1>9, <1>10 DEF Renews, top
    <3>2. n = Append(SubSeq(frames, 1, Len(frames) - 1), f)
      BY <1>1, <2>1 DEF outer
    <3>3. Ground \in Stack /\ FramesRight(frames, machine.stack, Ground) /\ frames # << >>
      BY <1>1, <1>2
    <3> QED
      BY <3>1, <3>2, <3>3, FrameRenewed
  <2> QED
    BY <1>10, <2>1, <2>2 DEF top
<1>12. Follows
  BY <1>1, <1>2, <1>8 DEF Follows
<1>13. BodyRight'
  <2>1. top'.is # "returned" /\ value' = "none"
    BY <1>1, <1>9, <1>11
  <2> QED
    BY <1>1, <1>2, <1>8, <1>11, <1>12, <2>1, BodyKept
<1>14. TypeOK'
  BY <1>1, <1>2, <1>8 DEF TypeOK
<1>15. CallTransparent'
  BY <1>9, <1>11, NoReturn
<1>16. OperandsInPlace'
  BY <1>1 DEF IInv, OperandsInPlace
<1> QED
  BY <1>1, <1>2, <1>13, <1>14, <1>15, <1>16 DEF IInv

\* So is the right one.
LEMMA RightStep == IInv /\ Right => IInv'
<1> SUFFICES ASSUME IInv, Right PROVE IInv'
  OBVIOUS
<1> DEFINE on   == Operands(Convert(machine, top.kind, value), top.kind, top.compare)
           kind == IF top.compare THEN "int" ELSE top.kind
           after == IF kind = "float" THEN [on[1] EXCEPT !.xmm[0] = next] ELSE [on[1] EXCEPT !.int["rax"] = next]
<1>1. /\ value # "none" /\ frames # << >> /\ top.is = "binary" /\ top.left # Junk
      /\ Uses(<<on[2], on[3], on[1].stack>>, <<top.left, Result(machine, value), top.stack>>)
      /\ machine' = after \/ (kind = "int" /\ machine' = [after EXCEPT !.int["rdx"] = Junk])
      /\ value' = kind /\ next' = next + 1 /\ gen_stack' = gen_stack - 8 /\ frames' = outer
      /\ UNCHANGED <<parameters, locals, offsets, pc>>
  BY DEF Right
<1>2. /\ pc = "body" /\ BodyRight /\ TypeOK /\ machine \in Machine /\ Ground \in Stack
      /\ Len(machine.stack) \in Nat /\ machine.stack \in Stack /\ next \in Nat \ {0} /\ next # Junk
      /\ FramesRight(frames, machine.stack, Ground) /\ gen_stack \in Int
  BY <1>1, InBody
<1>3. value \in Kind
  BY <1>1, <1>2 DEF TypeOK
<1>4. /\ top \in Frame /\ machine.stack = Base(top) /\ Start(top) \in Stack
      /\ FramesRight(outer, Start(top), Ground)
      /\ outer # << >> => outer[Len(outer)].is # "returned"
  <2>1. Unwinds(machine.stack, Ground, top, outer)
    BY <1>1, <1>2, FramePopped DEF top, outer
  <2> QED
    BY <2>1 DEF Unwinds
<1>5. top \in Operator
  BY <1>1, <1>4 DEF Frame, Operator, Call, Return
<1>6. PICK k, m, o, s, c : /\ k = top.kind /\ m = Convert(machine, top.kind, value) /\ o = on
                           /\ s = top.stack /\ c = top.left
  OBVIOUS
<1>7. /\ k \in Kind /\ top.compare \in BOOLEAN /\ c \in Nat /\ Start(top) = s /\ s \in Stack
      /\ machine.stack = s \o <<c>>
  BY <1>1, <1>4, <1>5, <1>6 DEF Operator, Start, Base
<1>8. m \in Machine /\ m.stack = machine.stack /\ Result(m, k) = Result(machine, value)
  <2>1. m = Convert(machine, k, value)
    BY <1>6
  <2>2. machine \in Machine /\ k \in Kind
    BY <1>2, <1>7
  <2> QED
    BY <1>3, <2>1, <2>2, Converted
<1>9. m.stack = s \o <<c>> /\ o = Operands(m, k, top.compare)
  BY <1>6, <1>7, <1>8
<1>10. o[1] \in Machine /\ o[1].stack = s /\ o[2] = c /\ o[3] = Result(m, k)
  BY <1>7, <1>8, <1>9, OperandsAre
<1>11. PICK r : r = o[1]
  OBVIOUS
<1>12. PICK a : a = IF kind = "float" THEN [r EXCEPT !.xmm[0] = next] ELSE [r EXCEPT !.int["rax"] = next]
  OBVIOUS
<1>12a. machine' = a \/ (kind = "int" /\ machine' = [a EXCEPT !.int["rdx"] = Junk])
  BY <1>1, <1>6, <1>11, <1>12
<1>13. OperandsInPlace'
  <2>1. used' = [had |-> <<o[2], o[3], o[1].stack>>, needed |-> <<top.left, Result(machine, value), top.stack>>]
    BY <1>1, <1>6 DEF Uses
  <2> QED
    BY <1>6, <1>8, <1>10, <2>1 DEF OperandsInPlace
<1>14. kind \in Kind
  BY <1>5 DEF Operator, Kind
<1> HIDE DEF kind, on, after
<1>15. 0 \in XmmRegisters /\ "rax" \in IntRegisters /\ "rdx" \in IntRegisters
  BY SixRegisters DEF XmmRegisters, registers
<1>16. r \in Machine /\ r.stack = s
  BY <1>10, <1>11
<1>16a. a \in Machine /\ a.stack = s /\ Result(a, kind) = next
  <2>1. CASE kind = "float"
    <3>1. a = [r EXCEPT !.xmm[0] = next]
      BY <1>12, <2>1
    <3>2. a \in Machine /\ a.stack = r.stack /\ a.xmm[0] = next
      BY <1>2, <1>15, <1>16, <3>1, SetXmm
    <3> QED
      BY <1>16, <2>1, <3>2 DEF Result
  <2>2. CASE kind # "float"
    <3>1. a = [r EXCEPT !.int["rax"] = next]
      BY <1>12, <2>2
    <3>2. next \in Nat /\ r \in Machine /\ "rax" \in IntRegisters
      BY <1>2, <1>15, <1>16
    <3>3. a \in Machine /\ a.stack = r.stack /\ a.int["rax"] = next
      BY <3>1, <3>2, SetInt
    <3> QED
      BY <1>16, <2>2, <3>3 DEF Result
  <2> QED
    BY <2>1, <2>2
<1>17. machine' \in Machine /\ machine'.stack = s /\ Result(machine', kind) = next
  <2>1. CASE machine' = a
    BY <1>16a, <2>1
  <2>2. CASE kind = "int" /\ machine' = [a EXCEPT !.int["rdx"] = Junk]
    <3>1. PICK n : n = machine'
      OBVIOUS
    <3>2. n = [a EXCEPT !.int["rdx"] = Junk] /\ Junk \in Nat
      BY <2>2, <3>1 DEF Junk
    <3>3. /\ n \in Machine /\ n.stack = a.stack
          /\ \A q \in IntRegisters : q # "rdx" => n.int[q] = a.int[q]
      BY <1>15, <1>16a, <3>2, SetInt
    <3>4. n.int["rax"] = a.int["rax"]
      BY <1>15, <3>3
    <3> QED
      BY <1>16a, <2>2, <3>1, <3>3, <3>4 DEF Result
  <2> QED
    BY <1>12a, <2>1, <2>2
<1>18. frames' # << >> => top'.is # "returned"
  BY <1>1, <1>4 DEF top
<1>19. Follows
  <2>1. s \in Seq(Nat) /\ c \in Nat
    BY <1>7 DEF Stack
  <2>2. PICK u : u = machine.stack
    OBVIOUS
  <2>3. Len(s) \in Nat /\ Len(u) = Len(s) + 1
    BY <1>7, <2>1, <2>2, PushPop
  <2>4. Len(machine'.stack) = Len(s) /\ Len(machine.stack) = Len(s) + 1
    BY <1>17, <2>2, <2>3
  <2>5. gen_stack' = gen_stack + 8 * (Len(s) - (Len(s) + 1))
    BY <1>1, <1>2, <2>3
  <2> QED
    BY <2>4, <2>5 DEF Follows
<1>20. BodyRight'
  <2>1. FramesRight(frames', machine'.stack, Ground)
    BY <1>1, <1>4, <1>7, <1>17
  <2>2. value' # "none" => Result(machine', value') # Junk
    BY <1>1, <1>2, <1>17
  <2> QED
    BY <1>1, <1>2, <1>17, <1>18, <1>19, <2>1, <2>2, BodyKept
<1>21. TypeOK'
  BY <1>1, <1>2, <1>14, <1>17 DEF TypeOK
<1>22. CallTransparent'
  BY <1>18, NoReturn
<1> QED
  BY <1>1, <1>2, <1>13, <1>20, <1>21, <1>22 DEF IInv

\* A call begins: registers are saved.
LEMMA BeginCallStep ==
  ASSUME NEW types \in UpTo(MaxArguments, Kind), NEW result \in Kind
  PROVE  IInv /\ BeginCall(types, result) => IInv'
<1> SUFFICES ASSUME IInv, BeginCall(types, result) PROVE IInv'
  OBVIOUS
<1> DEFINE cells == SavedCells(machine, types)
           f == [is |-> "call", types |-> types, result |-> result, arguments |-> << >>, entry |-> machine]
<1>1. /\ pc = "body" /\ value = "none" /\ frames' = Append(frames, f)
      /\ machine' = PushCells(machine, cells) /\ gen_stack' = gen_stack + 8 * Len(cells)
      /\ UNCHANGED <<parameters, locals, offsets, value, next, pc, used>>
  BY DEF BeginCall, Begins
<1>2. /\ BodyRight /\ TypeOK /\ machine \in Machine /\ Ground \in Stack
      /\ Len(machine.stack) \in Nat /\ machine.stack \in Stack
      /\ FramesRight(frames, machine.stack, Ground) /\ gen_stack \in Int
  BY <1>1, InBody
<1>3. types \in Args
  BY BoundsAssumption, BoundedArgs
<1>4. cells \in Stack
  BY <1>2, <1>3, SavedLength DEF Stack
<1>5. f \in Call /\ f.is = "call" /\ f.types = types /\ f.arguments = << >> /\ f.entry = machine
  BY <1>2, <1>3 DEF Call
<1>6. Len(types) \in Nat /\ Len(<< >>) = 0
  BY <1>3, LenProperties DEF Args
<1> HIDE DEF f, cells
<1>7. /\ machine' \in Machine /\ machine'.stack = machine.stack \o cells /\ machine'.stack \in Stack
      /\ Len(machine'.stack) = Len(machine.stack) + Len(cells)
  <2>1. machine \in Machine /\ cells \in Stack /\ machine' = PushCells(machine, cells)
    BY <1>1, <1>2, <1>4
  <2> QED
    BY <2>1, PushesCells
<1>8. f \in Frame /\ Start(f) = machine.stack /\ Base(f) = machine'.stack
  <2>1. Base(f) = (machine.stack \o cells) \o << >>
    BY <1>5 DEF Base, cells
  <2>2. PICK u : u = machine.stack \o cells
    OBVIOUS
  <2>3. u \in Seq(Nat)
    BY <1>7, <2>2 DEF Stack
  <2>4. u \o << >> = u
    BY <2>3, ConcatEmptySeq
  <2> QED
    BY <1>5, <1>7, <2>1, <2>2, <2>4 DEF Frame, Start
<1>9. Opens(f, frames, machine.stack)
  BY <1>1, <1>2, <1>5, <1>6, <1>8 DEF Opens, BodyRight, top
<1>10. FramesRight(frames', machine'.stack, Ground) /\ top' = f
  <2>1. PICK n : n = frames'
    OBVIOUS
  <2>2. FramesRight(n, Base(f), Ground) /\ n # << >> /\ n[Len(n)] = f
    BY <1>1, <1>2, <1>9, <2>1, FramePushed
  <2> QED
    BY <1>8, <2>1, <2>2 DEF top
<1>11. Follows
  <2>1. Len(cells) \in Nat
    BY <1>4, LenProperties DEF Stack
  <2> QED
    BY <1>1, <1>2, <1>7, <2>1 DEF Follows
<1>12. BodyRight'
  <2>1. top'.is # "returned" /\ value' = "none"
    BY <1>1, <1>5, <1>10
  <2> QED
    BY <1>1, <1>2, <1>7, <1>10, <1>11, <2>1, BodyKept
<1>13. TypeOK'
  BY <1>1, <1>2, <1>7 DEF TypeOK
<1>14. CallTransparent'
  BY <1>5, <1>10, NoReturn
<1>15. OperandsInPlace'
  BY <1>1 DEF IInv, OperandsInPlace
<1> QED
  BY <1>1, <1>12, <1>13, <1>14, <1>15 DEF IInv

\* What is on the stack of a call: it was there, was saved, is an argument.
LEMMA CallBase ==
  ASSUME NEW f \in Frame, f.is = "call", NEW s, s = Base(f)
  PROVE  /\ f \in Call /\ f.types \in Args /\ f.result \in Kind /\ f.entry \in Machine /\ f.arguments \in Stack
         /\ f.entry.stack \in Stack /\ SavedCells(f.entry, f.types) \in Stack
         /\ f.entry.stack \o SavedCells(f.entry, f.types) \in Stack
         /\ s = (f.entry.stack \o SavedCells(f.entry, f.types)) \o f.arguments
<1>1. f \in Call
  BY DEF Frame, Operator, Call, Return
<1>2. f.types \in Args /\ f.result \in Kind /\ f.entry \in Machine /\ f.arguments \in Stack /\ f.entry.stack \in Stack
  BY <1>1 DEF Call, Stack, Machine
<1>3. SavedCells(f.entry, f.types) \in Stack
  BY <1>2, SavedLength DEF Stack
<1>4. f.entry.stack \o SavedCells(f.entry, f.types) \in Stack
  BY <1>2, <1>3, PushesOn
<1>5. s = (f.entry.stack \o SavedCells(f.entry, f.types)) \o f.arguments
  BY DEF Base
<1> QED
  BY <1>1, <1>2, <1>3, <1>4, <1>5

\* An argument is there.
LEMMA ArgumentStep == IInv /\ Argument => IInv'
<1> SUFFICES ASSUME IInv, Argument PROVE IInv'
  OBVIOUS
<1> DEFINE c == Result(machine, value)
           a == Append(top.arguments, c)
           f == [top EXCEPT !.arguments = a]
           k == top.types[Len(top.arguments) + 1]
<1>1. /\ value # "none" /\ frames # << >> /\ top.is = "call" /\ Len(top.arguments) < Len(top.types)
      /\ machine' = PushResult(Convert(machine, k, value), k)
      /\ frames' = Append(outer, f) /\ gen_stack' = gen_stack + 8 /\ value' = "none"
      /\ UNCHANGED <<parameters, locals, offsets, next, pc, used>>
  BY DEF Argument
<1>2. /\ pc = "body" /\ BodyRight /\ TypeOK /\ machine \in Machine /\ Ground \in Stack
      /\ Len(machine.stack) \in Nat /\ machine.stack \in Stack
      /\ FramesRight(frames, machine.stack, Ground) /\ gen_stack \in Int
  BY <1>1, InBody
<1>3. value \in Kind
  BY <1>1, <1>2 DEF TypeOK
<1>4. top \in Frame /\ machine.stack = Base(top)
  <2>1. Unwinds(machine.stack, Ground, top, outer)
    BY <1>1, <1>2, FramePopped DEF top, outer
  <2> QED
    BY <2>1 DEF Unwinds
<1> DEFINE b == top.entry.stack \o SavedCells(top.entry, top.types)
<1>5. /\ top \in Call /\ top.types \in Args /\ top.arguments \in Stack /\ b \in Stack
      /\ machine.stack = b \o top.arguments
  BY <1>1, <1>4, CallBase
<1>6. k \in Kind
  <2>1. top.types \in Seq(Kind) /\ top.arguments \in Seq(Nat)
    BY <1>5 DEF Args, Stack
  <2>2. Len(top.types) \in Nat /\ Len(top.arguments) \in Nat
    BY <2>1, LenProperties
  <2>3. Len(top.arguments) + 1 \in 1..Len(top.types)
    BY <1>1, <2>2
  <2> QED
    BY <2>1, <2>3, ElementOfSeq
<1> HIDE DEF c, k
<1>7. /\ machine' \in Machine /\ c \in Nat /\ machine'.stack = machine.stack \o <<c>>
      /\ Len(machine'.stack) = Len(machine.stack) + 1
  <2>1. machine' = PushResult(Convert(machine, k, value), k) /\ machine \in Machine
    BY <1>1, <1>2
  <2> QED
    BY <1>3, <1>6, <2>1, PushesResult DEF c
<1>8. /\ a \in Stack /\ a = top.arguments \o <<c>> /\ Len(a) = Len(top.arguments) + 1
  <2>1. top.arguments \in Seq(Nat)
    BY <1>5 DEF Stack
  <2>2. a \in Seq(Nat) /\ Len(a) = Len(top.arguments) + 1
    BY <1>7, <2>1, AppendProperties
  <2>3. a = top.arguments \o <<c>>
    BY <1>7, <2>1, AppendIsConcat
  <2> QED
    BY <2>2, <2>3 DEF Stack
<1> HIDE DEF a
<1>9. f \in Call /\ f.is = "call" /\ f.arguments = a /\ f.entry = top.entry /\ f.types = top.types
  BY <1>1, <1>5, <1>8 DEF Call, Stack
<1> HIDE DEF f
<1>10. Base(f) = machine'.stack
  <2>1. Base(f) = b \o a
    BY <1>9 DEF Base
  <2>2. PICK l, g, w : l = <<c>> /\ g = top.arguments /\ w = b
    OBVIOUS
  <2>3. l \in Stack /\ g \in Stack /\ w \in Stack /\ a = g \o l
    BY <1>5, <1>7, <1>8, <2>2 DEF Stack
  <2> HIDE DEF b
  <2>4. w \o a = (w \o g) \o l
    <3>1. On(w, g, l, a)
      BY <2>3 DEF On
    <3>2. Together(w, g, l, a)
      BY ONLY <3>1, PushBoth
    <3> QED
      BY <3>2 DEF Together
  <2>5. machine'.stack = (w \o g) \o l
    BY <1>5, <1>7, <2>2
  <2> QED
    BY <2>1, <2>2, <2>4, <2>5
<1>11. Renews(f, frames[Len(frames)])
  <2>1. Start(f) = Start(top)
    BY <1>1, <1>9 DEF Start
  <2>2. Len(f.arguments) <= Len(f.types)
    <3>1. Len(top.arguments) \in Nat /\ Len(top.types) \in Nat
      BY <1>5, LenProperties DEF Stack, Args
    <3> QED
      BY <1>1, <1>8, <1>9, <3>1
  <2> QED
    BY <1>9, <2>1, <2>2 DEF Renews, top, Frame
<1>12. FramesRight(frames', machine'.stack, Ground) /\ top' = f
  <2>1. PICK n : n = frames'
    OBVIOUS
  <2>2. FramesRight(n, Base(f), Ground) /\ n # << >> /\ n[Len(n)] = f
    <3>2. n = Append(SubSeq(frames, 1, Len(frames) - 1), f)
      BY <1>1, <2>1 DEF outer
    <3>3. Ground \in Stack /\ FramesRight(frames, machine.stack, Ground) /\ frames # << >>
      BY <1>1, <1>2
    <3> QED
      BY <1>11, <3>2, <3>3, FrameRenewed
  <2> QED
    BY <1>10, <2>1, <2>2 DEF top
<1>13. Follows
  BY <1>1, <1>2, <1>7 DEF Follows
<1>14. BodyRight'
  <2>1. top'.is # "returned" /\ value' = "none"
    BY <1>1, <1>9, <1>12
  <2> QED
    BY <1>1, <1>2, <1>7, <1>12, <1>13, <2>1, BodyKept
<1>15. TypeOK'
  BY <1>1, <1>2, <1>7 DEF TypeOK
<1>16. CallTransparent'
  BY <1>9, <1>12, NoReturn
<1>17. OperandsInPlace'
  BY <1>1 DEF IInv, OperandsInPlace
<1> QED
  BY <1>1, <1>2, <1>14, <1>15, <1>16, <1>17 DEF IInv

CallOf(m, padding, result) ==
  LET returned == Called(PushCells(m, padding), result)
  IN IF padding = << >> THEN returned ELSE PopCell(returned)

\* The callee leaves its value; the cell that aligned the stack is gone.
LEMMA CallOfIs ==
  ASSUME NEW m \in Machine, NEW padding \in {<< >>, <<Junk>>}, NEW result \in Kind, next \in Nat,
         NEW n, n = CallOf(m, padding, result)
  PROVE  n \in Machine /\ n.stack = m.stack /\ Result(n, result) = next
<1>1. /\ 0 \in XmmRegisters /\ "rax" \in IntRegisters /\ Junk \in Nat
      /\ m.stack \in Seq(Nat)
  BY SixRegisters DEF XmmRegisters, Junk, Machine
<1> DEFINE k == PushCells(m, padding)
           r == Called(k, result)
<1>2. padding \in Stack
  <2>1. << >> \in Seq(Nat)
    BY EmptySeq
  <2>2. PICK j : j = Junk
    OBVIOUS
  <2>3. <<j>> \in Seq(Nat)
    BY <1>1, <2>2
  <2>4. padding = << >> \/ padding = <<j>>
    BY <2>2
  <2> QED
    BY <2>1, <2>3, <2>4 DEF Stack
<1>3. k \in Machine /\ k.stack = m.stack \o padding
  BY <1>2, PushesCells
<1> HIDE DEF k
<1>4. /\ r.stack = k.stack
      /\ r.int = [q \in IntRegisters |-> IF result = "int" /\ q = "rax" THEN next ELSE Junk]
      /\ r.xmm = [q \in XmmRegisters |-> IF result = "float" /\ q = 0 THEN next ELSE Junk]
      /\ r = [stack |-> r.stack, int |-> r.int, xmm |-> r.xmm]
  BY DEF Called
<1> HIDE DEF r
<1>5. r.int \in [IntRegisters -> Nat] /\ r.xmm \in [XmmRegisters -> Nat] /\ r.stack \in Seq(Nat)
  BY <1>1, <1>3, <1>4 DEF Machine
<1>6. r \in Machine
  BY <1>4, <1>5 DEF Machine
<1>7. Result(r, result) = next
  BY <1>1, <1>4 DEF Result, Kind
<1>8. CASE padding = << >>
  <2>1. n = r
    BY <1>8 DEF CallOf, r, k
  <2>2. m.stack \o << >> = m.stack
    BY <1>1, ConcatEmptySeq
  <2> QED
    BY <1>3, <1>4, <1>6, <1>7, <1>8, <2>1, <2>2
<1>9. CASE padding # << >>
  <2>1. padding = <<Junk>>
    BY <1>9
  <2>2. n = PopCell(r)
    BY <1>9 DEF CallOf, r, k
  <2>3. PICK s, u : s = m.stack /\ u = r.stack
    OBVIOUS
  <2>4. s \in Seq(Nat) /\ u = s \o <<Junk>>
    BY <1>1, <1>3, <1>4, <2>1, <2>3
  <2>5. SubSeq(u, 1, Len(u) - 1) = s
    BY <1>1, <2>4, PushPop
  <2>6. n = [r EXCEPT !.stack = s]
    BY <2>2, <2>3, <2>5 DEF PopCell
  <2>7. n \in Machine /\ n.stack = s /\ n.int = r.int /\ n.xmm = r.xmm
    BY <1>6, <2>4, <2>6 DEF Machine
  <2> QED
    BY <1>7, <2>3, <2>7 DEF Result
<1> QED
  BY <1>8, <1>9

Ends(n, loaded, t, a, e, result) ==
  /\ InRegisters(loaded, t) = a
  /\ n \in Machine /\ n.stack = e.stack
  /\ Result(n, result) = next
  /\ \A i \in 1..Len(t) : ~Unsaved(t, i) => Held(n, t, i) = Held(e, t, i)

\* What a call does from its last argument on.
LEMMA CallEnds ==
  ASSUME NEW m \in Machine, NEW t \in Args, NEW a \in Stack, Len(a) = Len(t), NEW e \in Machine,
         m.stack = (e.stack \o SavedCells(e, t)) \o a, e.stack \o SavedCells(e, t) \in Stack,
         NEW padding \in {<< >>, <<Junk>>}, NEW result \in Kind, next \in Nat,
         NEW n, n = Restored(CallOf(Loaded(m, t), padding, result), t)
  PROVE  Ends(n, Loaded(m, t), t, a, e, result)
<1>1. PICK b, l, u : b = e.stack \o SavedCells(e, t) /\ l = Loaded(m, t) /\ u = CallOf(l, padding, result)
  OBVIOUS
<1>2. l \in Machine /\ l.stack = b /\ \A i \in 1..Len(t) : Held(l, t, i) = a[i]
  <2>1. b \in Stack /\ m.stack = b \o a /\ l = Loaded(m, t) /\ Len(a) = Len(t)
    BY <1>1
  <2>2. Loaded(m, t) \in Machine
    BY ONLY m \in Machine, t \in Args, a \in Stack, <2>1, LoadedAre
  <2>3. Loaded(m, t).stack = b
    BY ONLY m \in Machine, t \in Args, a \in Stack, <2>1, LoadedAre
  <2>4. \A i \in 1..Len(t) : Held(Loaded(m, t), t, i) = a[i]
    BY ONLY m \in Machine, t \in Args, a \in Stack, <2>1, LoadedAre
  <2> QED
    BY <2>1, <2>2, <2>3, <2>4
<1>3. u \in Machine /\ u.stack = l.stack /\ Result(u, result) = next
  BY <1>1, <1>2, CallOfIs
<1>4. u.stack = e.stack \o SavedCells(e, t) /\ n = Restored(u, t)
  BY <1>1, <1>2, <1>3
<1>5. /\ n \in Machine /\ n.stack = e.stack
      /\ \A i \in 1..Len(t) : ~Unsaved(t, i) => Held(n, t, i) = Held(e, t, i)
      /\ n.int["rax"] = u.int["rax"] /\ n.xmm[0] = u.xmm[0]
  <2>1. u \in Machine /\ u.stack = e.stack \o SavedCells(e, t)
    BY <1>3, <1>4
  <2>2. Restored(u, t) \in Machine
    BY ONLY e \in Machine, t \in Args, <2>1, RestoredAre
  <2>3. Restored(u, t).stack = e.stack
    BY ONLY e \in Machine, t \in Args, <2>1, RestoredAre
  <2>4. \A i \in 1..Len(t) : ~Unsaved(t, i) => Held(Restored(u, t), t, i) = Held(e, t, i)
    BY ONLY e \in Machine, t \in Args, <2>1, RestoredAre
  <2>5. Restored(u, t).int["rax"] = u.int["rax"] /\ Restored(u, t).xmm[0] = u.xmm[0]
    BY ONLY e \in Machine, t \in Args, <2>1, RestoredAre
  <2> QED
    BY <1>4, <2>2, <2>3, <2>4, <2>5
<1>6. Result(n, result) = next
  BY <1>3, <1>5 DEF Result
<1>7. InRegisters(l, t) = a
  <2>1. InRegisters(l, t) = [i \in 1..Len(t) |-> Held(l, t, i)]
    BY DEF InRegisters, Held
  <2>2. a = [i \in 1..Len(t) |-> a[i]]
    BY DEF Stack
  <2> QED
    BY <1>2, <2>1, <2>2
<1> QED
  BY <1>1, <1>5, <1>6, <1>7 DEF Ends

\* The call.
LEMMA EndCallStep == IInv /\ EndCall => IInv'
<1> SUFFICES ASSUME IInv, EndCall PROVE IInv'
  OBVIOUS
<1> DEFINE t == top.types
           e == top.entry
           loaded == Loaded(machine, t)
           padding == Padding(gen_stack - 8 * Len(t))
           f == [is |-> "returned", entry |-> e, types |-> t]
<1>1. /\ pc = "body" /\ value = "none" /\ frames # << >> /\ top.is = "call" /\ Len(top.arguments) = Len(t)
      /\ machine' = Restored(CallOf(loaded, padding, top.result), t)
      /\ gen_stack' = gen_stack - 8 * Len(t) - 8 * Len(SavedCells(machine, t))
      /\ Uses(InRegisters(loaded, t), top.arguments)
      /\ value' = top.result /\ next' = next + 1 /\ frames' = Append(outer, f)
      /\ UNCHANGED <<parameters, locals, offsets, pc>>
  BY DEF EndCall, CallOf
<1>2. /\ BodyRight /\ TypeOK /\ machine \in Machine /\ Ground \in Stack
      /\ Len(machine.stack) \in Nat /\ machine.stack \in Stack /\ next \in Nat \ {0} /\ next # Junk
      /\ FramesRight(frames, machine.stack, Ground) /\ gen_stack \in Int
  BY <1>1, InBody
<1>3. top \in Frame /\ machine.stack = Base(top)
  <2>1. Unwinds(machine.stack, Ground, top, outer)
    BY <1>1, <1>2, FramePopped DEF top, outer
  <2> QED
    BY <2>1 DEF Unwinds
<1>4. /\ t \in Args /\ top.result \in Kind /\ e \in Machine /\ top.arguments \in Stack
      /\ e.stack \in Stack /\ SavedCells(e, t) \in Stack /\ e.stack \o SavedCells(e, t) \in Stack
      /\ machine.stack = (e.stack \o SavedCells(e, t)) \o top.arguments
  BY <1>1, <1>3, CallBase
<1>5. padding \in {<< >>, <<Junk>>}
  BY DEF Padding
<1> HIDE DEF t, e, padding
<1>6. Ends(machine', loaded, t, top.arguments, e, top.result)
  <2>1. PICK n, a, r : n = machine' /\ a = top.arguments /\ r = top.result
    OBVIOUS
  <2>2. a \in Stack /\ Len(a) = Len(t) /\ r \in Kind /\ machine.stack = (e.stack \o SavedCells(e, t)) \o a
    BY <1>1, <1>4, <2>1
  <2>3. n = Restored(CallOf(Loaded(machine, t), padding, r), t)
    BY <1>1, <2>1
  <2>4. machine \in Machine /\ next \in Nat /\ t \in Args /\ e \in Machine /\ e.stack \o SavedCells(e, t) \in Stack
    BY <1>2, <1>4
  <2>5. Ends(n, Loaded(machine, t), t, a, e, r)
    BY <1>5, <2>2, <2>3, <2>4, CallEnds
  <2> QED
    BY <2>1, <2>5
<1>7. /\ InRegisters(loaded, t) = top.arguments
      /\ machine' \in Machine /\ machine'.stack = e.stack /\ Result(machine', top.result) = next
      /\ \A i \in 1..Len(t) : ~Unsaved(t, i) => Held(machine', t, i) = Held(e, t, i)
  BY <1>6 DEF Ends
<1> HIDE DEF loaded
<1>8. f \in Return /\ f.is = "returned" /\ f.entry = e /\ f.types = t
  BY <1>4 DEF Return
<1> HIDE DEF f
<1>9. f \in Frame /\ Base(f) = machine'.stack
  BY <1>7, <1>8 DEF Frame, Base
<1>10. Renews(f, frames[Len(frames)])
  <2>1. Start(f) = Start(top)
    BY <1>1, <1>8 DEF Start, e
  <2> QED
    BY <1>8, <1>9, <2>1 DEF Renews, top
<1>11. FramesRight(frames', machine'.stack, Ground) /\ top' = f
  <2>1. PICK n : n = frames'
    OBVIOUS
  <2>2. FramesRight(n, Base(f), Ground) /\ n # << >> /\ n[Len(n)] = f
    <3>2. n = Append(SubSeq(frames, 1, Len(frames) - 1), f)
      BY <1>1, <2>1 DEF outer
    <3>3. Ground \in Stack /\ FramesRight(frames, machine.stack, Ground) /\ frames # << >>
      BY <1>1, <1>2
    <3> QED
      BY <1>10, <3>2, <3>3, FrameRenewed
  <2> QED
    BY <1>9, <2>1, <2>2 DEF top
<1>12. Follows
  <2>1. PICK s, c, a, b, x : /\ s = e.stack /\ c = SavedCells(e, t) /\ a = top.arguments /\ b = s \o c
                             /\ x = machine.stack
    OBVIOUS
  <2>2. s \in Seq(Nat) /\ c \in Seq(Nat) /\ a \in Seq(Nat) /\ b \in Seq(Nat) /\ x = b \o a
    BY <1>4, <2>1 DEF Stack
  <2>3. Len(s) \in Nat /\ Len(c) \in Nat /\ Len(a) \in Nat
    BY <2>2, LenProperties
  <2>4. Len(b) = Len(s) + Len(c)
    BY <2>1, <2>2, ConcatProperties
  <2>5. Len(x) = Len(b) + Len(a)
    BY <2>2, ConcatProperties
  <2>6. Len(SavedCells(machine, t)) = Len(c)
    <3>1. machine \in Machine /\ e \in Machine /\ t \in Args
      BY <1>2, <1>4
    <3> QED
      BY <2>1, <3>1, SavedLength
  <2>7. gen_stack' = gen_stack - 8 * Len(a) - 8 * Len(c)
    BY <1>1, <2>1, <2>6
  <2>8. machine'.stack = s
    BY <1>7, <2>1
  <2>9. PICK ls, lc, la, lx : ls = Len(s) /\ lc = Len(c) /\ la = Len(a) /\ lx = Len(x)
    OBVIOUS
  <2>10. ls \in Nat /\ lc \in Nat /\ la \in Nat /\ lx = (ls + lc) + la
    BY <2>3, <2>4, <2>5, <2>9
  <2>11. gen_stack' = gen_stack - 8 * la - 8 * lc
    BY <2>7, <2>9
  <2>12. gen_stack' = gen_stack + 8 * (ls - lx)
    BY <1>2, <2>10, <2>11
  <2> QED
    BY <2>1, <2>8, <2>9, <2>12 DEF Follows
<1>13. BodyRight'
  <2>1. value' # "none"
    BY <1>1, <1>4 DEF Kind
  <2>2. Result(machine', value') # Junk
    BY <1>1, <1>2, <1>7
  <2>3. machine' \in Machine /\ TypeOK /\ BodyRight
    BY <1>2, <1>7
  <2> QED
    BY <1>1, <1>11, <1>12, <2>1, <2>2, <2>3, BodyKept
<1>14. TypeOK'
  BY <1>1, <1>2, <1>4, <1>7 DEF TypeOK
<1>15. OperandsInPlace'
  <2>1. used' = [had |-> InRegisters(loaded, t), needed |-> top.arguments]
    BY <1>1 DEF Uses
  <2> QED
    BY <1>7, <2>1 DEF OperandsInPlace
<1>16. CallTransparent'
  <2>1. top'.entry = e /\ top'.types = t
    BY <1>8, <1>11
  <2>2. ASSUME NEW i \in 1..Len(t)
        PROVE  LET r == Before(t, i, t[i]) IN
               IF t[i] = "int" THEN machine'.int[registers[r + 1]] = e.int[registers[r + 1]]
               ELSE r > 0 => machine'.xmm[r] = e.xmm[r]
    <3>1. t[i] \in Kind /\ Before(t, i, "float") \in Nat
      BY <1>4, Places
    <3>2. CASE t[i] = "int"
      <4>1. Held(machine', t, i) = Held(e, t, i)
        BY <1>7, <3>2 DEF Unsaved
      <4> QED
        BY <3>2, <4>1 DEF Held
    <3>3. CASE t[i] = "float"
      <4>1. SUFFICES ASSUME Before(t, i, "float") > 0
                     PROVE  machine'.xmm[Before(t, i, "float")] = e.xmm[Before(t, i, "float")]
        BY <3>3
      <4>2. Held(machine', t, i) = Held(e, t, i)
        BY <1>7, <3>1, <4>1 DEF Unsaved
      <4> QED
        BY <3>3, <4>2 DEF Held
    <3> QED
      BY <3>1, <3>2, <3>3 DEF Kind
  <2> QED
    BY <1>7, <2>1, <2>2 DEF CallTransparent
<1> QED
  BY <1>1, <1>2, <1>13, <1>14, <1>15, <1>16 DEF IInv

\* The end of the call of gen_expression that made it.
LEMMA ReturnedStep == IInv /\ Returned => IInv'
<1> SUFFICES ASSUME IInv, Returned PROVE IInv'
  OBVIOUS
<1>1. /\ frames # << >> /\ top.is = "returned" /\ frames' = outer
      /\ UNCHANGED <<parameters, locals, offsets, machine, gen_stack, value, next, pc, used>>
  BY DEF Returned
<1>2. /\ pc = "body" /\ BodyRight /\ TypeOK /\ machine \in Machine /\ Ground \in Stack
      /\ Len(machine.stack) \in Nat /\ FramesRight(frames, machine.stack, Ground) /\ gen_stack \in Int
  BY <1>1, InBody
<1>3. FramesRight(frames', machine'.stack, Ground) /\ (frames' # << >> => top'.is # "returned")
  <2>1. PICK f, n, s : f = top /\ n = outer /\ s = machine.stack
    OBVIOUS
  <2>2. Unwinds(s, Ground, f, n)
    BY <1>1, <1>2, <2>1, FramePopped DEF top, outer
  <2>3. s = Start(f)
    BY <1>1, <2>1, <2>2 DEF Unwinds, Base, Start
  <2> QED
    BY <1>1, <2>1, <2>2, <2>3 DEF Unwinds, top
<1>4. Follows
  BY <1>1, <1>2 DEF Follows
<1>5. value' # "none" => Result(machine', value') # Junk
  BY <1>1, <1>2 DEF BodyRight
<1>6. BodyRight'
  <2>1. machine' \in Machine
    BY <1>1, <1>2
  <2> QED
    BY <1>1, <1>2, <1>3, <1>4, <1>5, <2>1, BodyKept
<1>7. TypeOK' /\ OperandsInPlace'
  BY <1>1, <1>2 DEF TypeOK, IInv, OperandsInPlace
<1>8. CallTransparent'
  BY <1>3, NoReturn
<1> QED
  BY <1>1, <1>2, <1>6, <1>7, <1>8 DEF IInv

\* The end of a statement.
LEMMA StatementStep == IInv /\ Statement => IInv'
<1> SUFFICES ASSUME IInv, Statement PROVE IInv'
  OBVIOUS
<1>1. /\ value # "none" /\ frames = << >> /\ value' = "none"
      /\ UNCHANGED <<parameters, locals, offsets, machine, gen_stack, frames, next, pc, used>>
  BY DEF Statement
<1>2. /\ pc = "body" /\ BodyRight /\ TypeOK /\ machine \in Machine /\ Ground \in Stack
      /\ Len(machine.stack) \in Nat /\ FramesRight(frames, machine.stack, Ground) /\ gen_stack \in Int
  BY <1>1, InBody
<1>3. Follows
  BY <1>1, <1>2 DEF Follows
<1>4. BodyRight'
  <2>1. machine' \in Machine /\ FramesRight(frames', machine'.stack, Ground)
    BY <1>1, <1>2
  <2> QED
    BY <1>1, <1>2, <1>3, <2>1, BodyKept
<1>5. TypeOK' /\ OperandsInPlace'
  BY <1>1, <1>2 DEF TypeOK, IInv, OperandsInPlace
<1>6. CallTransparent'
  BY <1>1 DEF CallTransparent
<1> QED
  BY <1>1, <1>2, <1>4, <1>5, <1>6 DEF IInv

\* A step that changes nothing.
LEMMA CallStutters == IInv /\ UNCHANGED vars => IInv'
<1> SUFFICES ASSUME IInv, UNCHANGED vars PROVE IInv'
  OBVIOUS
<1>1. UNCHANGED <<parameters, locals, offsets, machine, gen_stack, frames, value, next, pc, used>>
  BY DEF vars
<1>2. TypeOK' /\ OperandsInPlace' /\ CallTransparent'
  BY <1>1 DEF IInv, TypeOK, OperandsInPlace, CallTransparent, top
<1>3. ASSUME pc = "prologue" PROVE machine' = Arriving' /\ frames' = << >> /\ value' = "none"
  BY <1>1, <1>3 DEF IInv, Arriving
<1>4. ASSUME pc = "body" PROVE BodyRight'
  <2>1. /\ BodyRight /\ TypeOK /\ machine \in Machine /\ Ground \in Stack
        /\ Len(machine.stack) \in Nat /\ FramesRight(frames, machine.stack, Ground) /\ gen_stack \in Int
    BY <1>4, InBody
  <2>2. Follows
    BY <1>1, <2>1 DEF Follows
  <2>3. machine' \in Machine /\ FramesRight(frames', machine'.stack, Ground)
    BY <1>1, <2>1
  <2>4. value' # "none" => Result(machine', value') # Junk
    BY <1>1, <2>1 DEF BodyRight
  <2>5. frames' # << >> /\ top'.is = "returned" => value' # "none"
    BY <1>1, <2>1 DEF BodyRight, top
  <2> QED
    BY <1>1, <2>1, <2>2, <2>3, <2>4, <2>5, BodyKept
<1> QED
  BY <1>1, <1>2, <1>3, <1>4 DEF IInv

\* The inductive invariant.
LEMMA CallInvariant == Spec => []IInv
<1>1. ASSUME IInv, Next PROVE IInv'
  <2>1. ASSUME NEW kind \in Kind, Leaf(kind) PROVE IInv'
    BY <1>1, <2>1, LeafStep
  <2>2. ASSUME NEW kind \in Kind, NEW compare \in BOOLEAN, BeginBinary(kind, compare) PROVE IInv'
    BY <1>1, <2>2, BeginBinaryStep
  <2>3. ASSUME NEW kind \in Kind, NEW types \in UpTo(MaxArguments, Kind), BeginCall(types, kind) PROVE IInv'
    BY <1>1, <2>3, BeginCallStep
  <2> QED
    BY <1>1, <2>1, <2>2, <2>3, PrologueStep, LeftStep, RightStep, ArgumentStep, EndCallStep, ReturnedStep,
       StatementStep DEF Next
<1> QED
  BY <1>1, CallInit, CallStutters, PTL DEF Spec

-----------------------------------------------------------------------------
(* The properties.                                                         *)

\* OperandsInPlace.  What an operator pops, and what the registers hold when a call is
\* made, are the operands the expression has, whatever was evaluated in between.
THEOREM OperandsAreInPlace == Spec => []OperandsInPlace
<1>1. IInv => OperandsInPlace
  BY DEF IInv
<1> QED
  BY <1>1, CallInvariant, PTL

\* CallTransparent.  A call restores every register it saved from the cells it saved it
\* in, and leaves the stack where it was.
THEOREM CallsTransparent == Spec => []CallTransparent
<1>1. IInv => CallTransparent
  BY DEF IInv
<1> QED
  BY <1>1, CallInvariant, PTL

\* StatementsBalanced.  After a statement there are only the variables on the stack,
\* and gen_stack is what the prologue made it.
THEOREM BalancedStatements == Spec => []StatementsBalanced
<1>1. IInv => StatementsBalanced
  <2> SUFFICES ASSUME IInv, pc = "body", frames = << >>
               PROVE  /\ Len(machine.stack) = Reserved
                      /\ gen_stack = 16 + 8 * Len(parameters) - Lowest(offsets)
    BY DEF StatementsBalanced
  <2>1. BodyRight /\ TypeOK
    BY DEF IInv
  <2>2. machine.stack = Ground
    BY <2>1 DEF BodyRight, FramesRight
  <2>3. Len(Ground) = Reserved /\ Reserved \in Nat /\ Lowest(offsets) \in Int /\ Len(parameters) \in Nat
    BY <2>1, BodyFacts
  <2>4. gen_stack = 16 + 8 * Len(parameters) - Lowest(offsets) + 8 * (Len(machine.stack) - Reserved)
    BY <2>1 DEF BodyRight
  <2> QED
    BY <2>2, <2>3, <2>4
<1> QED
  BY <1>1, CallInvariant, PTL

\* The cells of a variable end where those of a later one have not begun.
LEMMA CellsGrow ==
  ASSUME NEW p \in Nat, NEW n \in Nat, NEW sizes, NEW offs, NEW c, Placed(c, sizes, offs, p, n),
         NEW i \in 0..n, NEW j \in 0..n, i <= j
  PROVE  c[i] <= c[j]
<1> DEFINE T == {k \in 0..n : i <= k => c[i] <= c[k]}
<1>1. c \in [0..n -> Nat] /\ \A k \in 1..n : c[k - 1] < c[k]
  BY DEF Placed
<1>2. 0 \in T
  BY <1>1
<1>3. \A k \in 1..n : k - 1 \in T => k \in T
  <2> SUFFICES ASSUME NEW k \in 1..n, k - 1 \in T PROVE k \in T
    OBVIOUS
  <2>1. k \in 0..n /\ k - 1 \in 0..n /\ c[k - 1] < c[k] /\ c[k - 1] \in Nat /\ c[k] \in Nat /\ c[i] \in Nat
    BY <1>1
  <2>2. CASE i = k
    BY <2>1, <2>2
  <2>3. CASE i # k
    BY <2>1, <2>3
  <2> QED
    BY <2>2, <2>3
<1> HIDE DEF T
<1>4. j \in T
  BY <1>2, <1>3, BoundedInduction
<1> QED
  BY <1>4 DEF T

\* The cells of a variable, from the bottom of the frame.
LiesIn(c, i, high) ==
  /\ c[i] \in Nat /\ c[i - 1] \in Nat /\ c[i - 1] < c[i] /\ c[i] <= high
  /\ -offsets[i] \div 8 = c[i]
  /\ Cells(i) = (c[i - 1] + 1)..c[i]

\* Every variable has the cells between those of its neighbours.
LEMMA CellsAre ==
  ASSUME NEW c, NEW d, NEW p \in Nat, NEW n \in Nat, Framed(c, d, AlignedSizes, offsets, p, n)
  PROVE  \A i \in 1..n : LiesIn(c, i, p + d)
<1> SUFFICES ASSUME NEW i \in 1..n PROVE LiesIn(c, i, p + d)
  OBVIOUS
<1>1. Placed(c, AlignedSizes, offsets, p, n) /\ \A k \in 0..n : c[k] <= p + d
  BY DEF Framed
<1>2. i \in 0..n /\ i - 1 \in 0..n
  OBVIOUS
<1>3. c[i] \in Nat /\ c[i - 1] \in Nat /\ c[i - 1] < c[i] /\ c[i] <= p + d
  BY <1>1, <1>2 DEF Placed
<1>4. PICK x, y, a, b : x = offsets[i] /\ y = AlignedSizes[i] /\ a = c[i - 1] /\ b = c[i]
  OBVIOUS
<1>5. x = -(8 * b) /\ y = 8 * (b - a) /\ a \in Nat /\ b \in Nat
  BY <1>1, <1>3, <1>4 DEF Placed
<1>6. -x \div 8 = b /\ y \div 8 = b - a
  BY <1>5
<1>7. -x \div 8 - y \div 8 + 1 = a + 1
  BY <1>5, <1>6
<1>8. Cells(i) = (a + 1)..b
  BY <1>4, <1>6, <1>7 DEF Cells
<1> QED
  BY <1>3, <1>4, <1>6, <1>8 DEF LiesIn

\* VariablesApart.  The offsets the prologue gives the variables name cells of the
\* frame, no two the same, below which the body pushes; a parameter is in its own.
THEOREM VariablesStayApart == Spec => []VariablesApart
<1>1. IInv => VariablesApart
  <2> SUFFICES ASSUME IInv, pc = "body"
               PROVE  /\ Len(machine.stack) >= Reserved
                      /\ \A i \in 1..Len(parameters) : machine.stack[-offsets[i] \div 8] = i
                      /\ \A i, j \in 1..Len(offsets) :
                           /\ Cells(i) \subseteq 1..Reserved
                           /\ i # j => Cells(i) \cap Cells(j) = {}
    BY DEF VariablesApart
  <2>1. BodyRight /\ TypeOK
    BY DEF IInv
  <2>2. parameters \in Args /\ locals \in Seq(LocalSizes) /\ offsets = OffsetsOf(AlignedSizes)
    BY <2>1 DEF TypeOK, BodyRight
  <2>3. PICK p : p = Len(parameters)
    OBVIOUS
  <2>4. p \in Nat
    BY <2>2, <2>3, BodyFrame
  <2>5. PICK c, d, n : /\ d \in Nat /\ n \in Nat /\ p <= n /\ Framed(c, d, AlignedSizes, offsets, p, n)
                       /\ p - LocalData(offsets) \div 8 = p + d /\ -LocalData(offsets) \div 8 = d
    BY <2>2, <2>3, BodyFrame
  <2>6. Placed(c, AlignedSizes, offsets, p, n) /\ Len(offsets) = n
    BY <2>5 DEF Framed, Placed
  <2>7. Reserved = p + d /\ Ground = GroundOf(p, d)
    BY <2>3, <2>5 DEF Reserved, Ground, GroundOf
  <2>8. Len(Ground) = p + d /\ \A i \in 1..p : Ground[i] = i
    BY <2>4, <2>5, <2>7, GroundFacts
  <2>9. Above(machine.stack, Ground) /\ Len(machine.stack) \in Nat
    BY <2>1, BodyFacts
  <2>10. Len(machine.stack) >= Reserved
    BY <2>4, <2>5, <2>7, <2>8, <2>9 DEF Above
  <2>11. \A i \in 1..n : LiesIn(c, i, p + d)
    BY <2>4, <2>5, CellsAre
  <2>12. ASSUME NEW i \in 1..p PROVE machine.stack[-offsets[i] \div 8] = i
    <3>1. i \in 1..n /\ i \in 1..(p + d)
      BY <2>4, <2>5
    <3>2. -offsets[i] \div 8 = c[i]
      BY <2>11, <3>1 DEF LiesIn
    <3>3. c[i] = i
      BY <2>6 DEF Placed
    <3>4. machine.stack[i] = Ground[i]
      BY <2>8, <2>9, <3>1 DEF Above
    <3> QED
      BY <2>8, <3>2, <3>3, <3>4
  <2>13. ASSUME NEW i \in 1..n PROVE Cells(i) \subseteq 1..Reserved
    <3>1. c[i] \in Nat /\ c[i - 1] \in Nat /\ c[i] <= p + d /\ Cells(i) = (c[i - 1] + 1)..c[i]
      BY <2>11 DEF LiesIn
    <3> QED
      BY <2>4, <2>5, <2>7, <3>1
  <2>14. ASSUME NEW i \in 1..n, NEW j \in 1..n, i < j PROVE Cells(i) \cap Cells(j) = {}
    <3>1. c[i] \in Nat /\ Cells(i) = (c[i - 1] + 1)..c[i] /\ c[i - 1] \in Nat
      BY <2>11 DEF LiesIn
    <3>2. c[j] \in Nat /\ Cells(j) = (c[j - 1] + 1)..c[j] /\ c[j - 1] \in Nat
      BY <2>11 DEF LiesIn
    <3>3. PICK k : k = j - 1
      OBVIOUS
    <3>4. i \in 0..n /\ k \in 0..n /\ i <= k
      BY <2>5, <2>14, <3>3
    <3>5. c[i] <= c[k]
      BY <2>4, <2>5, <2>6, <3>4, CellsGrow
    <3> QED
      BY <3>1, <3>2, <3>3, <3>5
  <2>15. ASSUME NEW i \in 1..n, NEW j \in 1..n, i # j PROVE Cells(i) \cap Cells(j) = {}
    <3>1. CASE i < j
      BY <2>14, <3>1
    <3>2. CASE j < i
      BY <2>14, <3>2
    <3> QED
      BY <2>5, <2>15, <3>1, <3>2
  <2> QED
    BY <2>3, <2>6, <2>10, <2>12, <2>13, <2>15
<1> QED
  BY <1>1, CallInvariant, PTL
=============================================================================
