--------------------------- MODULE DeclaredProofs ---------------------------
(***************************************************************************)
(* From the words of a declaration to the types of the expressions over    *)
(* what it declares, of any size.  The first half is about DeclSpec: its   *)
(* state machine keeps exactly as much of the words it has read as C looks *)
(* at, how often each occurred.  The second is about Typing: a tree made   *)
(* of sound trees is sound, whatever the operator, where Sound says how    *)
(* far the type the compiler gave a tree may be from C's.                  *)
(***************************************************************************)
EXTENDS Declared, TLAPS, SequenceTheorems

Count(b) == IF b THEN 1 ELSE 0

\* What the variables say of the words, as long as there was no error.
Counted ==
  /\ \A s \in Storage : taken[s] = Count(storage = s)
  /\ \A t \in Types : taken[t] = Count(type = t)
  /\ \A s \in Signs : taken[s] = Count(signature = s)
  /\ \A u \in Users : taken[u] = Count(user = u)
  /\ taken["short"] = Count(size = "short")
  /\ taken["long"] = IF size = "long" THEN 1 ELSE IF size = "llong" THEN 2 ELSE 0

IInv ==
  /\ TypeOK
  /\ pc # "error" => Counted /\ Fits(type, size, signature, user)
  /\ AcceptsC
  /\ pc = "done" => result = Chosen

\* Before the first word nothing is counted.
LEMMA InitInvariant == Init => IInv
<1> SUFFICES ASSUME Init PROVE IInv
  OBVIOUS
<1>1. TypeOK
  BY DEF Init, TypeOK, Words, TypeWords, Storage, Types, Signs, Users, Qualifiers
<1>2. Counted
  BY DEF Init, Counted, Count, Words, TypeWords, Storage, Types, Signs, Users
<1>3. Fits(type, size, signature, user)
  BY DEF Init, Fits
<1> QED
  BY <1>1, <1>2, <1>3 DEF Init, IInv, AcceptsC

\* A void, char, int, float or double: set, or one too many for any C type.
LEMMA TypeStep ==
  ASSUME IInv, NEW t \in Types, Type(t)
  PROVE  IInv'
<1>1. TypeOK'
  BY DEF IInv, TypeOK, Type, Read, Check, Words, TypeWords, Storage, Types, Signs, Users
<1>2. CASE type = "none" /\ Fits(t, size, signature, user)
  <2>1. Counted'
    BY <1>2 DEF IInv, TypeOK, Counted, Count, Type, Read, Check, Fits, Words, TypeWords, Types, Storage, Signs, Users
  <2>2. Fits(type, size, signature, user)'
    BY <1>2 DEF IInv, TypeOK, Fits, Type, Read, Check
  <2> QED
    BY <1>1, <1>2, <2>1, <2>2 DEF IInv, Type, Read, Check, AcceptsC
<1>3. CASE ~(type = "none" /\ Fits(t, size, signature, user))
  <2>1. pc' = "error"
    BY <1>3 DEF Type, Check
  <2>2. ~CTypes'
    BY <1>3 DEF IInv, TypeOK, Counted, Count, Type, Read, Check, Fits, Words, TypeWords, Types, Storage, Signs, Users,
      CTypes, CAlone, CChar, CLDouble, CInteger, Once, Never, AtMostOneOf
  <2> QED
    BY <1>1, <2>1, <2>2 DEF IInv, AcceptsC, CValid
<1> QED
  BY <1>2, <1>3

\* A signed or unsigned.
LEMMA SignStep ==
  ASSUME IInv, NEW s \in Signs, Sign(s)
  PROVE  IInv'
<1>1. TypeOK'
  BY DEF IInv, TypeOK, Sign, Read, Check, Words, TypeWords, Storage, Types, Signs, Users
<1>2. CASE signature = "none" /\ Fits(type, size, s, user)
  <2>1. Counted'
    BY <1>2 DEF IInv, TypeOK, Counted, Count, Sign, Read, Check, Fits, Words, TypeWords, Types, Storage, Signs, Users
  <2>2. Fits(type, size, signature, user)'
    BY <1>2 DEF IInv, TypeOK, Fits, Sign, Read, Check
  <2> QED
    BY <1>1, <1>2, <2>1, <2>2 DEF IInv, Sign, Read, Check, AcceptsC
<1>3. CASE ~(signature = "none" /\ Fits(type, size, s, user))
  <2>1. pc' = "error"
    BY <1>3 DEF Sign, Check
  <2>2. ~CTypes'
    BY <1>3 DEF IInv, TypeOK, Counted, Count, Sign, Read, Check, Fits, Words, TypeWords, Types, Storage, Signs, Users,
      CTypes, CAlone, CChar, CLDouble, CInteger, Once, Never, AtMostOneOf
  <2> QED
    BY <1>1, <2>1, <2>2 DEF IInv, AcceptsC, CValid
<1> QED
  BY <1>2, <1>3

\* A struct, union or enum, or a typedef name.
LEMMA UserStep ==
  ASSUME IInv, NEW u \in Users, User(u)
  PROVE  IInv'
<1>1. TypeOK'
  BY DEF IInv, TypeOK, User, Read, Check, Words, TypeWords, Storage, Types, Signs, Users
<1>2. CASE user = "none" /\ Fits(type, size, signature, u)
  <2>1. Counted'
    BY <1>2 DEF IInv, TypeOK, Counted, Count, User, Read, Check, Fits, Words, TypeWords, Types, Storage, Signs, Users
  <2>2. Fits(type, size, signature, user)'
    BY <1>2 DEF IInv, TypeOK, Fits, User, Read, Check
  <2> QED
    BY <1>1, <1>2, <2>1, <2>2 DEF IInv, User, Read, Check, AcceptsC
<1>3. CASE ~(user = "none" /\ Fits(type, size, signature, u))
  <2>1. pc' = "error"
    BY <1>3 DEF User, Check
  <2>2. ~CTypes'
    BY <1>3 DEF IInv, TypeOK, Counted, Count, User, Read, Check, Fits, Words, TypeWords, Types, Storage, Signs, Users,
      CTypes, CAlone, CChar, CLDouble, CInteger, Once, Never, AtMostOneOf
  <2> QED
    BY <1>1, <2>1, <2>2 DEF IInv, AcceptsC, CValid
<1> QED
  BY <1>2, <1>3

\* A short.
LEMMA ShortStep ==
  ASSUME IInv, Short
  PROVE  IInv'
<1>1. TypeOK'
  BY DEF IInv, TypeOK, Short, Read, Check, Words, TypeWords, Storage, Types, Signs, Users
<1>2. CASE size = "none" /\ Fits(type, "short", signature, user)
  <2>1. Counted'
    BY <1>2 DEF IInv, TypeOK, Counted, Count, Short, Read, Check, Fits, Words, TypeWords, Types, Storage, Signs, Users
  <2>2. Fits(type, size, signature, user)'
    BY <1>2 DEF IInv, TypeOK, Fits, Short, Read, Check
  <2> QED
    BY <1>1, <1>2, <2>1, <2>2 DEF IInv, Short, Read, Check, AcceptsC
<1>3. CASE ~(size = "none" /\ Fits(type, "short", signature, user))
  <2>1. pc' = "error"
    BY <1>3 DEF Short, Check
  <2>2. ~CTypes'
    BY <1>3 DEF IInv, TypeOK, Counted, Count, Short, Read, Check, Fits, Words, TypeWords, Types, Storage, Signs, Users,
      CTypes, CAlone, CChar, CLDouble, CInteger, Once, Never, AtMostOneOf
  <2> QED
    BY <1>1, <2>1, <2>2 DEF IInv, AcceptsC, CValid
<1> QED
  BY <1>2, <1>3

\* A long, the first or the unchecked second.
LEMMA LongStep ==
  ASSUME IInv, Long
  PROVE  IInv'
<1>1. TypeOK'
  BY DEF IInv, TypeOK, Long, Read, Check, Words, TypeWords, Storage, Types, Signs, Users
<1>2. CASE size = "long" \/ (size = "none" /\ Fits(type, "long", signature, user))
  <2>1. Counted'
    BY <1>2 DEF IInv, TypeOK, Counted, Count, Long, Read, Check, Fits, Words, TypeWords, Types, Storage, Signs, Users
  <2>2. Fits(type, size, signature, user)'
    BY <1>2 DEF IInv, TypeOK, Fits, Long, Read, Check
  <2> QED
    BY <1>1, <1>2, <2>1, <2>2 DEF IInv, Long, Read, Check, AcceptsC
<1>3. CASE ~(size = "long" \/ (size = "none" /\ Fits(type, "long", signature, user)))
  <2>1. pc' = "error"
    BY <1>3 DEF Long, Check
  <2>2. ~CTypes'
    BY <1>3 DEF IInv, TypeOK, Counted, Count, Long, Read, Check, Fits, Words, TypeWords, Types, Storage, Signs, Users,
      CTypes, CAlone, CChar, CLDouble, CInteger, Once, Never, AtMostOneOf
  <2> QED
    BY <1>1, <2>1, <2>2 DEF IInv, AcceptsC, CValid
<1> QED
  BY <1>2, <1>3

\* A storage class: a second one is an error, and no C declaration has two.
LEMMA ClassStep ==
  ASSUME IInv, NEW s \in Storage, Class(s)
  PROVE  IInv'
<1>1. TypeOK'
  BY DEF IInv, TypeOK, Class, specifiers, Read, Check, Words, TypeWords, Storage, Types, Signs, Users
<1>2. CASE storage = "none"
  <2>1. Counted'
    BY <1>2 DEF IInv, TypeOK, Counted, Count, Class, specifiers, Read, Check, Words, TypeWords, Types, Storage, Signs, Users
  <2> QED
    BY <1>1, <1>2, <2>1 DEF IInv, Class, specifiers, Read, Check, Fits, AcceptsC
<1>3. CASE storage # "none"
  <2>1. pc' = "error"
    BY <1>3 DEF Class, Check
  <2>2. ~AtMostOneOf(Storage)'
    BY <1>3 DEF IInv, TypeOK, Counted, Count, Class, Read, Words, Storage, Once, AtMostOneOf
  <2> QED
    BY <1>1, <2>1, <2>2 DEF IInv, AcceptsC, CValid
<1> QED
  BY <1>2, <1>3

\* The steps that read no counted word.
LEMMA OtherStep ==
  ASSUME IInv,
         \/ \E q \in Qualifiers : Qualifier(q)
         \/ Stop \/ EndOfInput \/ UNCHANGED vars
  PROVE  IInv'
<1>1. UNCHANGED <<storage, type, size, signature, user, taken>>
  BY DEF Qualifier, Stop, EndOfInput, vars, specifiers
<1>2. TypeOK'
  BY <1>1 DEF IInv, TypeOK, Qualifier, Stop, EndOfInput, vars
<1>3. Counted' = Counted /\ Chosen' = Chosen
      /\ Fits(type, size, signature, user)' = Fits(type, size, signature, user)
  BY <1>1 DEF Counted, Chosen, Fits
<1>4. pc' = "error" => pc = "error"
  BY DEF Qualifier, Stop, EndOfInput, vars
<1>5. CValid' = CValid
  BY <1>1 DEF CValid, CTypes, CAlone, CChar, CLDouble, CInteger, Once, Never, AtMostOneOf
<1>6. pc = "error" => pc' = "error"
  BY DEF Qualifier, Stop, EndOfInput, vars
<1>7. pc' = "done" => result' = Chosen'
  BY <1>3 DEF IInv, Qualifier, Stop, EndOfInput, vars
<1> QED
  BY <1>2, <1>3, <1>4, <1>5, <1>6, <1>7 DEF IInv, AcceptsC

\* What is chosen agrees with the counts whenever the machine has not refused.
LEMMA DoneMeansC == IInv => RefusesOthers /\ MeansC
<1> SUFFICES ASSUME IInv, pc = "done" PROVE RefusesOthers /\ MeansC
  BY DEF RefusesOthers, MeansC
<1>1. Counted /\ Fits(type, size, signature, user) /\ TypeOK /\ result = Chosen
  BY DEF IInv
<1>2. CValid \/ LongLongHole
  BY <1>1 DEF TypeOK, Counted, Count, Fits, LongLongHole, CValid, CTypes, CAlone, CChar, CLDouble,
    CInteger, Once, Never, AtMostOneOf, TypeWords, Types, Storage, Signs, Users
<1>3. ASSUME CValid PROVE result = [base |-> CBase, signed |-> CSigned]
  <2>1. Chosen.signed = CSigned
    BY <1>1, <1>3 DEF Chosen, CSigned, TypeOK, Counted, Count, Fits, CValid, CTypes, CAlone, CChar, CLDouble,
      CInteger, Once, Never, AtMostOneOf, TypeWords, Types, Storage, Signs, Users
  <2>2. CASE CLDouble \/ CChar \/ CInteger
    <3>1. Chosen.base = CBase
      BY <1>1, <1>3, <2>2 DEF Chosen, CBase, TypeOK, Counted, Count, Fits, CValid, CTypes, CAlone, CChar, CLDouble,
      CInteger, Once, Never, AtMostOneOf, TypeWords, Types, Storage, Signs, Users
    <3> QED
      BY <1>1, <2>1, <3>1 DEF Chosen
  <2>3. CASE ~CLDouble /\ ~CChar /\ ~CInteger
    <3>1. PICK w \in {"void", "float", "double"} \cup Users : CAlone(w)
      BY <1>3, <2>3 DEF CValid, CTypes
    <3>2. w \in TypeWords /\ Once(w) /\ \A v \in TypeWords : Once(v) => v = w
      BY <3>1 DEF CAlone, Once, Never, TypeWords, Types, Users
    <3>3. (CHOOSE v \in TypeWords : Once(v)) = w
      BY <3>2
    <3>4. CBase = w
      BY <2>3, <3>3 DEF CBase
    <3>5. Chosen.base = w
      BY <1>1, <3>1 DEF Chosen, TypeOK, Counted, Count, Fits, CValid, CTypes, CAlone, CChar, CLDouble,
      CInteger, Once, Never, AtMostOneOf, TypeWords, Types, Storage, Signs, Users
    <3> QED
      BY <1>1, <2>1, <3>4, <3>5 DEF Chosen
  <2> QED
    BY <2>2, <2>3
<1> QED
  BY <1>2, <1>3 DEF RefusesOthers, MeansC

\* Every word of a declaration keeps the invariant.
LEMMA StepInvariant == IInv /\ [Next]_vars => IInv'
  BY TypeStep, SignStep, UserStep, ShortStep, LongStep, ClassStep, OtherStep DEF Next

\* The invariant holds of every declaration, whatever its words and their order.
THEOREM Invariance == Spec => []IInv
  BY InitInvariant, StepInvariant, PTL DEF Spec

\* parse_declaration_specification refuses no C type, in no order of its words.
THEOREM EveryOrderAccepted == Spec => []AcceptsC
<1>1. IInv => AcceptsC
  BY DEF IInv
<1> QED
  BY Invariance, <1>1, PTL

\* What it accepts beside C is exactly what goes through the unchecked second long.
THEOREM OnlyHole == Spec => []RefusesOthers
<1>1. IInv => RefusesOthers
  BY DoneMeansC
<1> QED
  BY Invariance, <1>1, PTL

\* The type it returns is C's, so it is the same for every order of the same words.
THEOREM TypeMeantByC == Spec => []MeansC
<1>1. IInv => MeansC
  BY DoneMeansC
<1> QED
  BY Invariance, <1>1, PTL

-----------------------------------------------------------------------------
(* Expressions: what a tree in progress is known to be                     *)

KindSet == {Kinds[i] : i \in DOMAIN Kinds}
Places  == {"none", "local", "global", "dereference"}

Scalars == {"char", "short", "int", "long", "llong", "float", "double", "ldouble", "pointer"}

\* Two types no operator tells apart, but for what it makes of arithmetic ones.
Close(t, m) == Converted(t) = Converted(m) \/ (Arithmetic(t) /\ Arithmetic(m))

\* Two types of the same class, the first no narrower than the second.
Serves(t, m) ==
  \/ Converted(t) = Converted(m)
  \/ /\ Integral(t) <=> Integral(m)
     /\ Floating(t) <=> Floating(m)
     /\ Arithmetic(t)
     /\ Wide(m) => Wide(t)

\* What is known is of C's type, and where it says; an lvalue is of the very type that C says,
\* or its address would not be.
Sound(e) ==
  e.known => /\ Serves(e.type, e.meant)
             /\ e.place # "none" => e.type = e.meant
             /\ e.held = Register(e.type)

TreeType == [type : Seq(KindSet), place : Places, held : {"rax", "xmm0"},
             meant : Seq(KindSet), null : BOOLEAN, known : BOOLEAN]

SoundTrees == {e \in TreeType : Sound(e)}

TreesInv ==
  /\ operands \in Seq(SoundTrees)
  /\ OperandsInOrder
  /\ phase = "refused" => (\E t \in Trees : ~t.known) \/ Difference \/ Structures

\* An expression begins once its declarations are read.
BothInv ==
  /\ IInv
  /\ TreesInv
  /\ ~Idle => operands = << >>
  /\ operands = << >> => phase = "parsing"

\* The same without the set of all sequences, for TLC.
TreesSound == \A e \in Trees : Sound(e) /\ e.place \in Places /\ e.held \in {"rax", "xmm0"}

-----------------------------------------------------------------------------
(* Kinds and ranks                                                         *)

\* The kinds of types, by name.
LEMMA KindNames ==
  KindSet = {"void", "char", "short", "int", "long", "llong", "float", "double", "ldouble",
             "array", "pointer", "structure"}
  BY DEF KindSet, Kinds

\* The types of variables and results are types.
LEMMA ConstantTypes == Variables \subseteq Seq(KindSet) /\ Results \subseteq Seq(KindSet)
  BY TypesAssumption DEF TypesAssumption, KindSet

\* The kind of a type is its first.
LEMMA KindOf ==
  ASSUME NEW t \in Seq(KindSet)
  PROVE  /\ Kind(t) \in KindSet \cup {"refused"}
         /\ Kind(t) = "refused" <=> t = << >>
         /\ t # << >> => Tail(t) \in Seq(KindSet)
<1>1. "refused" \notin KindSet
  BY KindNames
<1>2. t # << >> => Head(t) \in KindSet /\ Tail(t) \in Seq(KindSet)
  BY HeadTailProperties
<1> QED
  BY <1>1, <1>2 DEF Kind

\* The usual arithmetic conversions only ask which of two ranks is higher.
LEMMA RankOf ==
  ASSUME NEW t, NEW i \in DOMAIN Kinds, Kind(t) = Kinds[i]
  PROVE  Rank(t) = i
<1>1. \A j \in DOMAIN Kinds : Kinds[j] = Kinds[i] => j = i
  BY DEF Kinds
<1> QED
  BY <1>1 DEF Rank

\* The ranks of the arithmetic types, in the order of their constants in ast.h.
LEMMA ScalarRanks ==
  ASSUME NEW t
  PROVE  /\ Kind(t) = "char" => Rank(t) = 2
         /\ Kind(t) = "short" => Rank(t) = 3
         /\ Kind(t) = "int" => Rank(t) = 4
         /\ Kind(t) = "long" => Rank(t) = 5
         /\ Kind(t) = "llong" => Rank(t) = 6
         /\ Kind(t) = "float" => Rank(t) = 7
         /\ Kind(t) = "double" => Rank(t) = 8
         /\ Kind(t) = "ldouble" => Rank(t) = 9
         /\ Kind(t) = "pointer" => Rank(t) = 11
         /\ Kind(t) = "structure" => Rank(t) = 12
<1>1. DOMAIN Kinds = 1..12
  BY DEF Kinds
<1>2. /\ Kinds[2] = "char" /\ Kinds[3] = "short" /\ Kinds[4] = "int" /\ Kinds[5] = "long"
      /\ Kinds[6] = "llong" /\ Kinds[7] = "float" /\ Kinds[8] = "double" /\ Kinds[9] = "ldouble"
      /\ Kinds[11] = "pointer" /\ Kinds[12] = "structure"
  BY DEF Kinds
<1> QED
  BY <1>1, <1>2, RankOf

\* A pointer to a type.
LEMMA PointerTo ==
  ASSUME NEW t \in Seq(KindSet)
  PROVE  /\ Pointer(t) \in Seq(KindSet)
         /\ Kind(Pointer(t)) = "pointer"
         /\ Tail(Pointer(t)) = t
<1>1. <<"pointer">> \in Seq(KindSet) /\ Len(<<"pointer">>) = 1 /\ <<"pointer">>[1] = "pointer"
  BY KindNames
<1>2. Pointer(t) \in Seq(KindSet) /\ Pointer(t) # << >>
  BY <1>1, ConcatProperties, EmptySeq DEF Pointer
<1>3. Head(Pointer(t)) = "pointer" /\ Tail(Pointer(t)) = t
  BY <1>1 DEF Pointer
<1> QED
  BY <1>2, <1>3 DEF Kind

\* ast_array_convert: nothing is left an array.
LEMMA ConvertedKind ==
  ASSUME NEW t \in Seq(KindSet)
  PROVE  /\ Converted(t) \in Seq(KindSet)
         /\ Kind(t) = "array" => Kind(Converted(t)) = "pointer"
         /\ Kind(t) # "array" => Converted(t) = t
         /\ Kind(Converted(t)) # "array"
         /\ IsPointer(Converted(t)) => t # << >> /\ Tail(Converted(t)) = Tail(t)
<1>1. CASE Kind(t) = "array"
  <2>1. Tail(t) \in Seq(KindSet) /\ t # << >>
    BY <1>1, KindOf
  <2> QED
    BY <1>1, <2>1, PointerTo DEF Converted
<1>2. CASE Kind(t) # "array"
  BY <1>2, KindOf DEF Converted, IsPointer
<1> QED
  BY <1>1, <1>2

-----------------------------------------------------------------------------
(* ast_result_type, by the operands                                        *)

IntOnly == {"<", ">", "&", "%", "==", ">=", "<=", "!=", "<<", ">>", "&&", "||"}

\* Comparisons and logical operators are int.
LEMMA ResultInt ==
  ASSUME NEW op \in IntOnly, NEW a, NEW b
  PROVE  ResultType(op, a, b) = IntType
  BY DEF IntOnly, ResultType

\* The result of two arithmetic operands.
LEMMA ResultArithmetic ==
  ASSUME NEW op, op \notin IntOnly, NEW a, NEW b, Arithmetic(a), Arithmetic(b)
  PROVE  ResultType(op, a, b) = IF Floating(a) \/ Floating(b) THEN DoubleType
                                ELSE IF Wide(a) \/ Wide(b) THEN LongType ELSE IntType
<1>1. Converted(a) = a /\ Converted(b) = b
  BY DEF Converted, Arithmetic, Integral, Floating
<1>2. Rank(IntType) = 4
  BY ScalarRanks DEF Kind, IntType
<1>3. ResultType(op, a, b) = IF Rank(a) > Rank(b) THEN Ordered(op, b, a) ELSE Ordered(op, a, b)
  BY <1>1 DEF ResultType, IntOnly
<1>4. ASSUME NEW c, NEW d, Arithmetic(c), Arithmetic(d), Rank(c) <= Rank(d)
      PROVE  Ordered(op, c, d) = IF Floating(c) \/ Floating(d) THEN DoubleType
                                 ELSE IF Wide(c) \/ Wide(d) THEN LongType ELSE IntType
  <2>1. /\ ~IsPointer(d)
        /\ Floating(c) => Floating(d)
        /\ Floating(d) => ~Integral(d)
        /\ Integral(c) \/ Floating(c)
        /\ Integral(d) \/ Floating(d)
        /\ Integral(d) => (Rank(d) > 4 <=> Wide(c) \/ Wide(d))
        /\ Integral(d) => (Rank(d) > 4 \/ Rank(d) <= 4) /\ ~(Rank(d) > 4 /\ Rank(d) <= 4)
    BY <1>4, ScalarRanks DEF IsPointer, Floating, Integral, Arithmetic, Wide
  <2> QED
    BY <1>2, <1>4, <2>1 DEF Ordered
<1>5. Rank(a) \in Nat /\ Rank(b) \in Nat
  BY ScalarRanks DEF Arithmetic, Integral, Floating
<1> QED
  BY <1>3, <1>4, <1>5

\* The result of an addition or a subtraction with a pointer.
LEMMA ResultPointer ==
  ASSUME NEW op \in Additive, NEW a \in Seq(KindSet), NEW b \in Seq(KindSet)
  PROVE  /\ IsPointer(Converted(a)) /\ Integral(b) => ResultType(op, a, b) = Converted(a)
         /\ Integral(a) /\ IsPointer(Converted(b)) => ResultType(op, a, b) = Converted(b)
         /\ IsPointer(Converted(a)) /\ Floating(b) => ResultType(op, a, b) = Refusal
         /\ Floating(a) /\ IsPointer(Converted(b)) => ResultType(op, a, b) = Refusal
         /\ IsPointer(Converted(a)) /\ IsPointer(Converted(b)) => ResultType(op, a, b) = Refusal
<1>1. ASSUME NEW c, NEW d, Integral(c), IsPointer(d)
      PROVE  /\ Ordered(op, c, d) = d
             /\ Rank(d) > Rank(c) /\ ~(Rank(c) > Rank(d))
  <2>1. ~Integral(d) /\ ~Floating(d) /\ op # "="
    BY <1>1 DEF IsPointer, Integral, Floating, Additive
  <2>2. Ordered(op, c, d) = d
    BY <1>1, <2>1 DEF Ordered, Additive
  <2> QED
    BY <1>1, <2>2, ScalarRanks DEF IsPointer, Integral
<1>2. ASSUME NEW c, NEW d, Floating(c), IsPointer(d)
      PROVE  /\ Ordered(op, c, d) = Refusal
             /\ Rank(d) > Rank(c) /\ ~(Rank(c) > Rank(d))
  <2>1. ~Integral(d) /\ ~Floating(d) /\ ~Integral(c) /\ op # "="
    BY <1>2 DEF IsPointer, Integral, Floating, Additive
  <2>2. Ordered(op, c, d) = Refusal
    BY <1>2, <2>1 DEF Ordered, Additive
  <2> QED
    BY <1>2, <2>2, ScalarRanks DEF IsPointer, Floating
<1>3. ASSUME NEW c, NEW d, IsPointer(c), IsPointer(d)
      PROVE  Ordered(op, c, d) = Refusal
  <2>1. ~Integral(d) /\ ~Floating(d) /\ ~Integral(c) /\ op # "="
    BY <1>3 DEF IsPointer, Integral, Floating, Additive
  <2> QED
    BY <1>3, <2>1 DEF Ordered, Additive
<1>4. /\ Integral(a) \/ Floating(a) => Converted(a) = a
      /\ Integral(b) \/ Floating(b) => Converted(b) = b
  BY DEF Converted, Integral, Floating
<1>5. ResultType(op, a, b) = IF Rank(Converted(a)) > Rank(Converted(b))
                             THEN Ordered(op, Converted(b), Converted(a))
                             ELSE Ordered(op, Converted(a), Converted(b))
  BY DEF ResultType, Additive
<1> QED
  BY <1>1, <1>2, <1>3, <1>4, <1>5

\* The result of an assignment to a pointer, and of one of a structure.
LEMMA ResultAssigned ==
  ASSUME NEW a \in Seq(KindSet), NEW b \in Seq(KindSet)
  PROVE  /\ IsPointer(Converted(a)) /\ IsPointer(Converted(b))
             => ResultType("=", a, b) = Converted(a)
         /\ IsPointer(Converted(a)) /\ Arithmetic(b) => ResultType("=", a, b) = b
         /\ Kind(Converted(a)) = "structure" /\ Converted(a) = Converted(b)
             => ResultType("=", a, b) = Refusal
<1> DEFINE s == Converted(a)
           t == Converted(b)
<1>1. ResultType("=", a, b) = IF Rank(s) > Rank(t) THEN Ordered("=", t, s) ELSE Ordered("=", s, t)
  BY DEF ResultType
<1>2. ASSUME IsPointer(s), IsPointer(t)
      PROVE  Rank(s) = Rank(t) /\ ~(Rank(s) > Rank(t)) /\ Ordered("=", s, t) = s
  <2>1. Rank(s) = 11 /\ Rank(t) = 11
    BY <1>2, ScalarRanks DEF IsPointer
  <2>2. Ordered("=", s, t) = s
    BY <1>2 DEF Ordered, IsPointer, Integral, Floating
  <2> HIDE DEF s, t
  <2> QED
    BY <2>1, <2>2
<1>3. ASSUME IsPointer(s), Arithmetic(b)
      PROVE  t = b /\ Rank(s) > Rank(t) /\ Ordered("=", t, s) = b
  <2>1. t = b
    BY <1>3 DEF Converted, Arithmetic, Integral, Floating
  <2>2. Rank(s) = 11 /\ Rank(b) \in 2..9
    BY <1>3, ScalarRanks DEF IsPointer, Arithmetic, Integral, Floating
  <2>3. Ordered("=", b, s) = b
    BY <1>3 DEF Ordered, IsPointer, Integral, Floating
  <2> HIDE DEF s, t
  <2> QED
    BY <2>1, <2>2, <2>3
<1>4. Kind(s) = "structure" => Ordered("=", s, s) = Refusal
  BY DEF Ordered, IsPointer, Integral, Floating, Arithmetic
<1> QED
  BY <1>1, <1>2, <1>3, <1>4

\* Whatever it is given, the result is a type or none.
LEMMA ResultIsType ==
  ASSUME NEW op, NEW a \in Seq(KindSet), NEW b \in Seq(KindSet)
  PROVE  ResultType(op, a, b) \in Seq(KindSet)
<1>1. Converted(a) \in Seq(KindSet) /\ Converted(b) \in Seq(KindSet)
  BY ConvertedKind
<1>2. /\ IntType \in Seq(KindSet) /\ LongType \in Seq(KindSet)
      /\ DoubleType \in Seq(KindSet) /\ Refusal \in Seq(KindSet)
  BY KindNames DEF IntType, LongType, DoubleType, Refusal
<1>3. ASSUME NEW c \in Seq(KindSet), NEW d \in Seq(KindSet)
      PROVE  Ordered(op, c, d) \in Seq(KindSet)
  <2>1. Ordered(op, c, d) \in {c, d, IntType, LongType, DoubleType, Refusal}
    BY DEF Ordered
  <2> QED
    BY <1>2, <2>1
<1> QED
  BY <1>1, <1>2, <1>3 DEF ResultType

-----------------------------------------------------------------------------
(* The trees of binary operators                                           *)

\* The trees C has a type for, arm by arm.
LEMMA LegalCases ==
  ASSUME NEW op, NEW a, NEW b, Legal(op, a, b),
         NEW s, s = Converted(a.meant), NEW t, t = Converted(b.meant)
  PROVE  \/ op \in Logical /\ Scalar(s) /\ Scalar(t) /\ CType(op, a, b) = IntType
         \/ /\ op \in Comparisons /\ CType(op, a, b) = IntType
            /\ \/ Arithmetic(s) /\ Arithmetic(t)
               \/ IsPointer(s) /\ s = t
               \/ op \in Equalities /\ (IsPointer(s) \/ IsPointer(t))
         \/ op \in {"<<", ">>"} /\ Integral(s) /\ Integral(t) /\ CType(op, a, b) = Promoted(s)
         \/ /\ op \in {"%", "&", "|", "^"} /\ Integral(s) /\ Integral(t)
            /\ CType(op, a, b) = Common(s, t)
         \/ /\ op \in Additive \cup {"*", "/"} /\ Arithmetic(s) /\ Arithmetic(t)
            /\ CType(op, a, b) = Common(s, t)
         \/ op \in Additive /\ IsPointer(s) /\ Integral(t) /\ CType(op, a, b) = s
         \/ op = "+" /\ Integral(s) /\ IsPointer(t) /\ CType(op, a, b) = t
         \/ op = "-" /\ IsPointer(s) /\ s = t /\ CType(op, a, b) = LongType
         \/ /\ op = "=" /\ a.place # "none" /\ Kind(a.meant) # "array"
            /\ CType(op, a, b) = a.meant
            /\ \/ Arithmetic(s) /\ Arithmetic(t)
               \/ IsPointer(s) /\ IsPointer(t)
               \/ IsPointer(s) /\ Null(b)
               \/ s = t /\ Kind(s) = "structure"
<1>1. CType(op, a, b) # << >>
  BY DEF Legal, Refusal
<1>2. CASE op \in Logical
  BY <1>1, <1>2 DEF CType, Logical, Comparisons, Equalities, Additive, Refusal
<1>3. CASE op \in Comparisons
  BY <1>1, <1>3 DEF CType, Logical, Comparisons, Equalities, Additive, Refusal, Matching
<1>4. CASE op \in {"<<", ">>"}
  BY <1>1, <1>4 DEF CType, Logical, Comparisons, Equalities, Additive, Refusal
<1>5. CASE op \in {"%", "&", "|", "^"}
  BY <1>1, <1>5 DEF CType, Logical, Comparisons, Equalities, Additive, Refusal
<1>6. CASE op \in {"*", "/"}
  BY <1>1, <1>6 DEF CType, Logical, Comparisons, Equalities, Additive, Refusal
<1>7. CASE op = "+"
  BY <1>1, <1>7 DEF CType, Logical, Comparisons, Equalities, Additive, Refusal, Moves
<1>8. CASE op = "-"
  BY <1>1, <1>8 DEF CType, Logical, Comparisons, Equalities, Additive, Refusal, Moves
<1>9. CASE op = "="
  <2>1. CASE Arithmetic(s) /\ Arithmetic(t)
    BY <1>1, <1>9, <2>1 DEF CType, Logical, Comparisons, Equalities, Additive, Refusal
  <2>2. CASE ~(Arithmetic(s) /\ Arithmetic(t))
    BY <1>1, <1>9, <2>2, SMTT(30)
    DEF CType, Logical, Comparisons, Equalities, Additive, Refusal, Matching
  <2> QED
    BY <2>1, <2>2
<1>10. CASE op \notin Operators
  BY <1>1, <1>10 DEF CType, Logical, Comparisons, Equalities, Additive, Refusal, Operators
<1> QED
  BY <1>2, <1>3, <1>4, <1>5, <1>6, <1>7, <1>8, <1>9, <1>10 DEF Operators, Additive

\* What C calls arithmetic the compiler does, and the same with pointers.
LEMMA CloseTypes ==
  ASSUME NEW t \in Seq(KindSet), NEW m \in Seq(KindSet), Close(t, m)
  PROVE  /\ Arithmetic(t) <=> Arithmetic(m)
         /\ ~Arithmetic(m) => Converted(t) = Converted(m)
         /\ IsPointer(Converted(t)) <=> IsPointer(Converted(m))
<1>1. ASSUME Arithmetic(t), Arithmetic(m)
      PROVE  ~IsPointer(Converted(t)) /\ ~IsPointer(Converted(m))
  BY <1>1, ConvertedKind DEF Arithmetic, Integral, Floating, IsPointer
<1>2. ASSUME Converted(t) = Converted(m), Arithmetic(t)
      PROVE  Arithmetic(m)
  BY <1>2, ConvertedKind DEF Arithmetic, Integral, Floating
<1>3. ASSUME Converted(t) = Converted(m), Arithmetic(m)
      PROVE  Arithmetic(t)
  BY <1>3, ConvertedKind DEF Arithmetic, Integral, Floating
<1> QED
  BY <1>1, <1>2, <1>3 DEF Close

\* What serves for another type is close to it.
LEMMA ServingIsClose ==
  ASSUME NEW t, NEW m, Serves(t, m)
  PROVE  Close(t, m)
  BY DEF Serves, Close, Arithmetic

\* A type that serves for another is of its class, and as wide.
LEMMA ServingTypes ==
  ASSUME NEW t \in Seq(KindSet), NEW m \in Seq(KindSet), Serves(t, m), Arithmetic(m)
  PROVE  /\ Integral(t) <=> Integral(m)
         /\ Floating(t) <=> Floating(m)
         /\ Wide(m) => Wide(t)
<1>1. ASSUME Converted(t) = Converted(m)
      PROVE  t = m
  BY <1>1, ConvertedKind DEF Arithmetic, Integral, Floating
<1> QED
  BY <1>1 DEF Serves

\* The common type of C is of the operands' class.
LEMMA CommonType ==
  ASSUME NEW s \in Seq(KindSet), NEW t \in Seq(KindSet), Arithmetic(s), Arithmetic(t),
         NEW c, c \in {Common(s, t), Promoted(s)}
  PROVE  /\ c \in Seq(KindSet)
         /\ Arithmetic(c)
         /\ c = Common(s, t) => (Floating(c) <=> Floating(s) \/ Floating(t))
         /\ c = Promoted(s) => (Floating(c) <=> Floating(s))
         /\ Integral(c) <=> ~Floating(c)
         /\ Wide(c) => Wide(s) \/ Wide(t)
         /\ c = Promoted(s) /\ Wide(c) => Wide(s)
<1>1. IntType \in Seq(KindSet) /\ Kind(IntType) = "int" /\ Rank(IntType) = 4
  BY KindNames, ScalarRanks DEF IntType, Kind
<1>2. /\ Integral(s) <=> ~Floating(s)
      /\ Integral(t) <=> ~Floating(t)
  BY DEF Arithmetic, Integral, Floating
<1>3. /\ Floating(t) /\ ~Floating(s) => Rank(s) < Rank(t)
      /\ Floating(s) /\ ~Floating(t) => ~(Rank(s) < Rank(t))
  BY ScalarRanks DEF Arithmetic, Integral, Floating
<1>4. ASSUME NEW x \in {s, t}
      PROVE  /\ Promoted(x) \in Seq(KindSet)
             /\ Floating(Promoted(x)) <=> Floating(x)
             /\ Integral(Promoted(x)) <=> Integral(x)
             /\ Wide(Promoted(x)) => Wide(x)
  BY <1>1, <1>2 DEF Promoted, Floating, Integral, Wide
<1>5. Common(s, t) \in {Promoted(s), Promoted(t)}
      /\ (Rank(s) < Rank(t) => Common(s, t) = Promoted(t))
      /\ (~(Rank(s) < Rank(t)) => Common(s, t) = Promoted(s))
  BY DEF Common
<1>6. c \in {Promoted(s), Promoted(t)} /\ (Floating(c) \/ Integral(c))
  BY <1>2, <1>4, <1>5
<1>7. c = Common(s, t) => (Floating(c) <=> Floating(s) \/ Floating(t))
  BY <1>2, <1>3, <1>4, <1>5
<1> QED
  BY <1>2, <1>4, <1>5, <1>6, <1>7 DEF Arithmetic

\* An arithmetic operand is not converted.
LEMMA ConvertedArithmetic ==
  ASSUME NEW t \in Seq(KindSet),
         Arithmetic(Converted(t)) \/ Arithmetic(t)
  PROVE  Converted(t) = t
  BY ConvertedKind DEF Arithmetic, Integral, Floating, IsPointer

\* Whatever C is asked, the answer is a type or none.
LEMMA CTypeIsType ==
  ASSUME NEW op, NEW a \in TreeType, NEW b \in TreeType
  PROVE  CType(op, a, b) \in Seq(KindSet)
<1> DEFINE s == Converted(a.meant)
           t == Converted(b.meant)
<1>1. a.meant \in Seq(KindSet) /\ s \in Seq(KindSet) /\ t \in Seq(KindSet)
  BY ConvertedKind DEF TreeType
<1>2. /\ IntType \in Seq(KindSet) /\ LongType \in Seq(KindSet) /\ Refusal \in Seq(KindSet)
  BY KindNames DEF IntType, LongType, Refusal
<1>3. Promoted(s) \in Seq(KindSet) /\ Common(s, t) \in Seq(KindSet)
  BY <1>1, <1>2 DEF Promoted, Common
<1>4. CType(op, a, b) \in {IntType, LongType, Refusal, s, t, a.meant, Promoted(s), Common(s, t)}
  BY DEF CType
<1> QED
  BY <1>1, <1>2, <1>3, <1>4

\* The type and C's type of a tree made of two known ones.
LEMMA JoinedTypes ==
  ASSUME NEW op \in Operators, NEW a \in SoundTrees, NEW b \in SoundTrees, a.known, b.known,
         Accepted(op, a, b), Legal(op, a, b),
         NEW got, got = ResultType(op, a.type, b.type),
         NEW meant, meant = CType(op, a, b)
  PROVE  /\ op # "=" => Close(got, meant)
         /\ ~Diverges(op, a, b) => Serves(got, meant)
<1> DEFINE s == Converted(a.meant)
           t == Converted(b.meant)
<1>1. /\ a.type \in Seq(KindSet) /\ a.meant \in Seq(KindSet) /\ Close(a.type, a.meant)
      /\ b.type \in Seq(KindSet) /\ b.meant \in Seq(KindSet) /\ Close(b.type, b.meant)
      /\ Serves(a.type, a.meant)
      /\ Serves(b.type, b.meant)
  BY ServingIsClose DEF SoundTrees, TreeType, Sound
<1>2. s \in Seq(KindSet) /\ t \in Seq(KindSet)
  BY <1>1, ConvertedKind
<1>3. /\ IntType \in Seq(KindSet) /\ Kind(IntType) = "int"
      /\ LongType \in Seq(KindSet) /\ Kind(LongType) = "long"
      /\ DoubleType \in Seq(KindSet) /\ Kind(DoubleType) = "double"
  BY KindNames DEF IntType, LongType, DoubleType, Kind
<1>4. /\ Integral(IntType) /\ ~Floating(IntType) /\ Arithmetic(IntType) /\ ~Wide(IntType)
      /\ Integral(LongType) /\ ~Floating(LongType) /\ Arithmetic(LongType) /\ Wide(LongType)
      /\ ~Integral(DoubleType) /\ Floating(DoubleType) /\ Arithmetic(DoubleType)
      /\ Wide(DoubleType)
  BY <1>3 DEF Integral, Floating, Arithmetic, Wide
<1>5. got # Refusal /\ meant # Refusal
  BY DEF Accepted, Legal
<1>6. CASE op \in Logical \cup Comparisons
  <2>1. got = IntType
    BY <1>6, ResultInt DEF Logical, Comparisons, Equalities, IntOnly
  <2>2. meant = IntType
    BY <1>6, LegalCases DEF Logical, Comparisons, Equalities, Additive
  <2> QED
    BY <1>3, <2>1, <2>2 DEF Close, Serves
<1>7. CASE op \in {"<<", ">>", "%", "&"}
  <2>1. got = IntType
    BY <1>7, ResultInt DEF IntOnly
  <2>2. /\ Integral(s) /\ Integral(t) /\ meant \in {Common(s, t), Promoted(s)}
    BY <1>7, LegalCases DEF Logical, Comparisons, Equalities, Additive
  <2>3. Arithmetic(s) /\ Arithmetic(t) /\ ~Floating(s) /\ ~Floating(t)
    BY <2>2 DEF Arithmetic, Integral, Floating
  <2>4. meant \in Seq(KindSet) /\ Arithmetic(meant) /\ Integral(meant) /\ ~Floating(meant)
    BY <1>2, <2>2, <2>3, CommonType
  <2>5. ~Diverges(op, a, b) => ~Wide(meant)
    BY <1>7, <2>4 DEF Diverges, Wide, Integral
  <2> QED
    BY <1>3, <1>4, <2>1, <2>4, <2>5 DEF Close, Serves
<1>8. CASE op \in {"|", "^", "+", "-", "*", "/"} /\ Arithmetic(s) /\ Arithmetic(t)
  <2>1. op \notin IntOnly
    BY <1>8 DEF IntOnly
  <2>2. meant = Common(s, t)
    <3>1. ~IsPointer(s) /\ ~IsPointer(t)
      BY <1>8 DEF Arithmetic, Integral, Floating, IsPointer
    <3> QED
      BY <1>8, <3>1, LegalCases DEF Logical, Comparisons, Equalities, Additive
  <2>3. s = a.meant /\ t = b.meant
    BY <1>1, <1>8, ConvertedArithmetic
  <2>4. Arithmetic(a.type) /\ Arithmetic(b.type)
    BY <1>1, <1>8, <2>3, CloseTypes
  <2>5. got = IF Floating(a.type) \/ Floating(b.type) THEN DoubleType
               ELSE IF Wide(a.type) \/ Wide(b.type) THEN LongType ELSE IntType
    BY <2>1, <2>4, ResultArithmetic
  <2>6. /\ meant \in Seq(KindSet) /\ Arithmetic(meant)
        /\ Floating(meant) <=> Floating(s) \/ Floating(t)
        /\ Integral(meant) <=> ~Floating(meant)
        /\ Wide(meant) => Wide(s) \/ Wide(t)
    BY <1>2, <1>8, <2>2, CommonType
  <2>7. got \in Seq(KindSet) /\ Arithmetic(got)
    BY <1>3, <1>4, <2>5
  <2>8. Serves(got, meant)
    <3>1. /\ Floating(a.type) <=> Floating(s)
          /\ Floating(b.type) <=> Floating(t)
          /\ Wide(s) => Wide(a.type)
          /\ Wide(t) => Wide(b.type)
      BY <1>1, <1>8, <2>3, ServingTypes
    <3> QED
      BY <1>4, <2>5, <2>6, <2>7, <3>1 DEF Serves
  <2> QED
    BY <2>6, <2>7, <2>8 DEF Close
<1>9. CASE op \in {"|", "^", "+", "-", "*", "/"} /\ ~(Arithmetic(s) /\ Arithmetic(t))
  <2>1. \/ op \in Additive /\ IsPointer(s) /\ Integral(t) /\ meant = s
        \/ op = "+" /\ Integral(s) /\ IsPointer(t) /\ meant = t
        \/ op = "-" /\ IsPointer(s) /\ s = t /\ meant = LongType
    BY <1>9, LegalCases DEF Logical, Comparisons, Equalities, Additive, Arithmetic
  <2>2. CASE op \in Additive /\ IsPointer(s) /\ Integral(t) /\ meant = s
    <3>1. Arithmetic(b.type)
      BY <1>1, <2>2, ConvertedArithmetic, CloseTypes DEF Arithmetic
    <3>2. Converted(a.type) = s /\ IsPointer(Converted(a.type))
      <4>1. ~Arithmetic(a.meant)
        BY <1>1, <2>2, ConvertedArithmetic DEF Arithmetic, Integral, Floating, IsPointer
      <4> QED
        BY <1>1, <2>2, <4>1, CloseTypes
    <3>3. got = s
      BY <1>1, <1>5, <2>2, <3>1, <3>2, ResultPointer DEF Arithmetic
    <3> QED
      BY <1>2, <2>2, <3>3 DEF Close, Serves
  <2>3. CASE op = "+" /\ Integral(s) /\ IsPointer(t) /\ meant = t
    <3>1. Arithmetic(a.type)
      BY <1>1, <2>3, ConvertedArithmetic, CloseTypes DEF Arithmetic
    <3>2. Converted(b.type) = t /\ IsPointer(Converted(b.type))
      <4>1. ~Arithmetic(b.meant)
        BY <1>1, <2>3, ConvertedArithmetic DEF Arithmetic, Integral, Floating, IsPointer
      <4> QED
        BY <1>1, <2>3, <4>1, CloseTypes
    <3>3. got = t
      BY <1>1, <1>5, <2>3, <3>1, <3>2, ResultPointer DEF Arithmetic, Additive
    <3> QED
      BY <1>2, <2>3, <3>3 DEF Close, Serves
  <2>4. CASE op = "-" /\ IsPointer(s) /\ s = t
    <3>1. IsPointer(Converted(a.type)) /\ IsPointer(Converted(b.type))
      BY <1>1, <2>4, CloseTypes
    <3> QED
      BY <1>1, <1>5, <2>4, <3>1, ResultPointer DEF Additive
  <2> QED
    BY <2>1, <2>2, <2>3, <2>4
<1>10. CASE op = "=" /\ Arithmetic(s) /\ Arithmetic(t)
  <2>1. op \notin IntOnly
    BY <1>10 DEF IntOnly
  <2>2. meant = a.meant
    BY <1>10, LegalCases DEF Logical, Comparisons, Equalities, Additive
  <2>3. s = a.meant /\ t = b.meant
    BY <1>1, <1>10, ConvertedArithmetic
  <2>4. Arithmetic(a.type) /\ Arithmetic(b.type)
    BY <1>1, <1>10, <2>3, CloseTypes
  <2>5. got = IF Floating(a.type) \/ Floating(b.type) THEN DoubleType
               ELSE IF Wide(a.type) \/ Wide(b.type) THEN LongType ELSE IntType
    BY <2>1, <2>4, ResultArithmetic
  <2>7. got \in Seq(KindSet) /\ Arithmetic(got)
    BY <1>3, <1>4, <2>5
  <2>8. ASSUME ~Diverges(op, a, b) PROVE Serves(got, meant)
    <3>1. /\ Floating(a.type) <=> Floating(s)
          /\ Integral(a.type) <=> Integral(s)
          /\ Floating(b.type) <=> Floating(t)
          /\ Wide(s) => Wide(a.type)
      BY <1>1, <1>10, <2>3, <2>8, ServingTypes
    <3>2. Floating(t) => Floating(s)
      BY <1>10, <2>3, <2>8 DEF Diverges
    <3>3. Integral(s) <=> ~Floating(s)
      BY <1>10 DEF Arithmetic, Integral, Floating
    <3> QED
      BY <1>4, <2>2, <2>3, <2>5, <2>7, <3>1, <3>2, <3>3 DEF Serves
  <2> QED
    BY <1>1, <1>10, <2>2, <2>3, <2>7, <2>8 DEF Close
<1>11. CASE op = "=" /\ ~(Arithmetic(s) /\ Arithmetic(t))
  <2>1. /\ meant = a.meant /\ Kind(a.meant) # "array"
        /\ \/ IsPointer(s) /\ IsPointer(t)
           \/ IsPointer(s) /\ Null(b)
           \/ s = t /\ Kind(s) = "structure"
    BY <1>11, LegalCases DEF Logical, Comparisons, Equalities, Additive
  <2>2. meant = s /\ Converted(s) = s
    BY <1>1, <2>1, ConvertedKind
  <2>3. ASSUME ~Arithmetic(s) PROVE Converted(a.type) = s
    <3>1. ~Arithmetic(a.meant)
      BY <2>2, <2>1, <2>3
    <3> QED
      BY <1>1, <3>1, CloseTypes
  <2>4. ASSUME ~Arithmetic(t) PROVE Converted(b.type) = t
    <3>1. ~Arithmetic(b.meant)
      BY <1>1, <2>4, ConvertedArithmetic
    <3> QED
      BY <1>1, <3>1, CloseTypes
  <2>5. \A c : IsPointer(c) \/ Kind(c) = "structure" => ~Arithmetic(c)
    BY DEF IsPointer, Arithmetic, Integral, Floating
  <2>6. CASE IsPointer(s) /\ IsPointer(t)
    <3>1. got = s
      BY <1>1, <1>11, <2>3, <2>4, <2>5, <2>6, ResultAssigned
    <3> QED
      BY <1>11, <2>2, <3>1 DEF Serves
  <2>7. CASE IsPointer(s) /\ Null(b) /\ ~IsPointer(t)
    <3>1. Integral(b.meant)
      <4>1. Converted(VoidPointer) = VoidPointer /\ IsPointer(VoidPointer)
        BY DEF VoidPointer, Converted, IsPointer, Kind
      <4> QED
        BY <2>7, <4>1 DEF Null
    <3>2. Diverges(op, a, b)
      BY <1>11, <2>1, <2>2, <2>7, <3>1 DEF Diverges
    <3> QED
      BY <1>11, <3>2
  <2>8. CASE s = t /\ Kind(s) = "structure"
    BY <1>1, <1>5, <1>11, <2>3, <2>4, <2>5, <2>8, ResultAssigned
  <2> QED
    BY <2>1, <2>6, <2>7, <2>8
<1> QED
  BY <1>6, <1>7, <1>8, <1>9, <1>10, <1>11 DEF Operators, Additive

\* A load leaves the value in the register of its type.
LEMMA LoadedHeld ==
  ASSUME NEW got, NEW e, e.held \in {"rax", "xmm0"}
  PROVE  /\ LoadedAs(got, e) \in {"rax", "xmm0"}
         /\ e.held = Register(e.type) => LoadedAs(got, e) = Register(got)
<1>1. CASE Floating(got) /\ ~Floating(e.type)
  BY <1>1 DEF LoadedAs, Register
<1>2. CASE ~Floating(got) /\ Floating(e.type)
  BY <1>2 DEF LoadedAs, Register
<1>3. CASE Floating(got) <=> Floating(e.type)
  <2>1. LoadedAs(got, e) = e.held
    BY <1>3 DEF LoadedAs
  <2> QED
    BY <1>3, <2>1 DEF Register
<1> QED
  BY <1>1, <1>2, <1>3

\* A tree made of two sound ones is sound, if C has a type for it and it is accepted.
LEMMA JoinedSound ==
  ASSUME NEW op \in Operators, NEW a \in SoundTrees, NEW b \in SoundTrees,
         Accepted(op, a, b), Legal(op, a, b)
  PROVE  Joined(op, a, b) \in SoundTrees
<1> DEFINE got   == ResultType(op, a.type, b.type)
           meant == CType(op, a, b)
           null  == Constant(a) /\ Constant(b)
           known == a.known /\ b.known /\ ~Diverges(op, a, b)
           held  == Computed(op, got, b)
           e     == Joined(op, a, b)
<1>1. got \in Seq(KindSet) /\ meant \in Seq(KindSet)
  BY ResultIsType, CTypeIsType DEF SoundTrees, TreeType
<1>2. known => Serves(got, meant)
  BY JoinedTypes
<1>3. a.known \in BOOLEAN /\ b.known \in BOOLEAN /\ b.held \in {"rax", "xmm0"}
  BY DEF SoundTrees, TreeType
<1>4. b.known => b.held = Register(b.type)
  BY DEF SoundTrees, Sound
<1>5. held \in {"rax", "xmm0"} /\ (known => held = Register(got))
  BY <1>3, <1>4, LoadedHeld DEF Computed, Register
<1>6. e = [type |-> got, place |-> "none", held |-> held, meant |-> meant, null |-> null,
           known |-> known]
  BY DEF Joined, Tree
<1>7. known \in BOOLEAN /\ null \in BOOLEAN
  BY <1>3
<1> HIDE DEF got, meant, null, known, held, e
<1>8. e \in TreeType
  BY <1>1, <1>5, <1>6, <1>7 DEF TreeType, Places
<1>9. Sound(e)
  BY <1>2, <1>5, <1>6 DEF Sound
<1>10. e \in SoundTrees
  BY <1>8, <1>9 DEF SoundTrees
<1> QED
  BY <1>10 DEF e

\* ast_new_binary leaves operands where C wants them evaluated and gen_binary looks for them.
LEMMA MadeInOrder ==
  ASSUME NEW op \in Operators, NEW a \in SoundTrees, NEW b \in SoundTrees,
         Accepted(op, a, b), Legal(op, a, b), made' = Make(op, a, b)
  PROVE  OperandsInOrder'
<1> DEFINE s == Converted(a.meant)
           t == Converted(b.meant)
           x == Exchanged(op, a, b)
           m == made'[1]
<1>2. /\ m.op = op /\ m.type = ResultType(op, a.type, b.type)
      /\ m.written = <<a.type, b.type>>
      /\ m.left = IF x THEN b.type ELSE a.type
      /\ m.right = IF x THEN a.type ELSE b.type
      /\ m.known = (a.known /\ b.known)
      /\ {made'[i] : i \in DOMAIN made'} = {m}
  BY DEF Make
<1> SUFFICES ASSUME m.known
             PROVE  /\ <<m.left, m.right>> # m.written =>
                         \/ m.op \in {"+", "==", "!="}
                         \/ m.op \in Logical /\ Pointing(m.left)
                    /\ IsPointer(m.type) /\ m.op \in Additive => Converted(m.left) = m.type
  BY <1>2 DEF OperandsInOrder
<1>1. /\ a.type \in Seq(KindSet) /\ a.meant \in Seq(KindSet) /\ Close(a.type, a.meant)
      /\ b.type \in Seq(KindSet) /\ b.meant \in Seq(KindSet) /\ Close(b.type, b.meant)
  BY <1>2, ServingIsClose DEF SoundTrees, TreeType, Sound
<1>3. /\ IsPointer(Converted(a.type)) <=> IsPointer(s)
      /\ IsPointer(Converted(b.type)) <=> IsPointer(t)
  BY <1>1, CloseTypes
<1>4. \A c : Arithmetic(c) \/ Integral(c) => ~IsPointer(c)
  BY DEF Arithmetic, Integral, Floating, IsPointer
<1>5. ASSUME x
      PROVE  op \in {"+", "==", "!="} \/ (op \in Logical /\ Pointing(b.type))
  <2>1. op # "=" /\ ~IsPointer(s) /\ IsPointer(t)
    BY <1>3, <1>5 DEF Exchanged
  <2> QED
    BY <1>3, <1>4, <2>1, LegalCases DEF Pointing, Additive, Equalities
<1>6. ASSUME op \in Additive, IsPointer(m.type)
      PROVE  Converted(m.left) = m.type
  <2>1. m.type # Refusal
    BY <1>2 DEF Accepted
  <2>2. CASE IsPointer(Converted(a.type)) /\ Arithmetic(b.type)
    <3>1. ~x
      BY <2>2 DEF Exchanged
    <3> QED
      BY <1>1, <1>2, <1>6, <2>1, <2>2, <3>1, ResultPointer DEF Arithmetic
  <2>3. CASE Arithmetic(a.type) /\ IsPointer(Converted(b.type))
    <3>1. x
      <4>1. ~IsPointer(Converted(a.type))
        BY <1>1, <1>4, <2>3, ConvertedArithmetic
      <4> QED
        BY <1>6, <2>3, <4>1 DEF Exchanged, Additive
    <3> QED
      BY <1>1, <1>2, <1>6, <2>1, <2>3, <3>1, ResultPointer DEF Arithmetic
  <2>4. CASE IsPointer(Converted(a.type)) /\ IsPointer(Converted(b.type))
    BY <1>1, <1>2, <1>6, <2>1, <2>4, ResultPointer
  <2>5. CASE Arithmetic(a.type) /\ Arithmetic(b.type)
    <3>1. op \notin IntOnly
      BY <1>6 DEF Additive, IntOnly
    <3>2. m.type \in {IntType, LongType, DoubleType}
      BY <1>2, <2>5, <3>1, ResultArithmetic
    <3> QED
      BY <1>6, <3>2 DEF IsPointer, Kind, IntType, LongType, DoubleType
  <2>6. (Arithmetic(a.type) \/ IsPointer(Converted(a.type)))
        /\ (Arithmetic(b.type) \/ IsPointer(Converted(b.type)))
    <3>1. (Arithmetic(s) \/ IsPointer(s)) /\ (Arithmetic(t) \/ IsPointer(t))
      BY <1>6, LegalCases DEF Arithmetic, Logical, Comparisons, Equalities, Additive
    <3> QED
      BY <1>1, <1>3, <3>1, ConvertedArithmetic, CloseTypes
  <2> QED
    BY <2>2, <2>3, <2>4, <2>5, <2>6
<1> QED
  BY <1>2, <1>5, <1>6

-----------------------------------------------------------------------------
(* The steps                                                               *)

\* What TypesAsInC allows to be refused.
Excused == (\E t \in Trees : ~t.known) \/ Difference \/ Structures

\* What a step that gives a tree has to show: the tree is sound, and nothing is refused
\* that C has a type for.
LEMMA GiveStep ==
  ASSUME operands \in Seq(SoundTrees), phase = "parsing",
         NEW n \in 0..Len(operands), NEW tree,
         NEW accepted \in BOOLEAN, NEW legal \in BOOLEAN,
         accepted /\ legal => tree \in SoundTrees,
         legal /\ ~accepted => Excused /\ operands # << >>,
         ~legal => operands # << >>,
         Give(accepted, legal, n, tree)
  PROVE  /\ operands' \in Seq(SoundTrees)
         /\ phase' = "refused" => Excused'
         /\ operands' # << >>
<1>1. CASE accepted /\ legal
  <2>1. operands' = Append(Below(n), tree) /\ phase' = "parsing"
    BY <1>1 DEF Give
  <2>2. Len(operands) \in Nat /\ Below(n) \in Seq(SoundTrees)
    BY LenProperties, SubSeqProperties DEF Below
  <2>3. operands' \in Seq(SoundTrees) /\ operands' # << >>
    BY <1>1, <2>1, <2>2, AppendProperties, EmptySeq
  <2> QED
    BY <2>1, <2>3
<1>2. CASE ~(accepted /\ legal)
  <2>1. operands' = operands /\ (phase' = "refused" => legal /\ ~accepted)
    BY <1>2 DEF Give
  <2>2. Excused' = Excused
    BY <2>1 DEF Excused, Trees, Difference, Structures, Left, Top
  <2> QED
    BY <1>2, <2>1, <2>2
<1> QED
  BY <1>1, <1>2

\* The operands a step finds.
LEMMA Operands ==
  ASSUME operands \in Seq(SoundTrees)
  PROVE  /\ Holds(1) => Top \in SoundTrees /\ Top \in Trees /\ 1 \in 0..Len(operands) /\ operands # << >>
         /\ Holds(2) => Top \in SoundTrees /\ Left \in SoundTrees /\ Top \in Trees /\ Left \in Trees
                       /\ 2 \in 0..Len(operands) /\ operands # << >>
  BY LenProperties, EmptySeq DEF Holds, Top, Left, Trees

\* A tree that is not made of operands.
LEMMA LeafSound ==
  ASSUME NEW t \in Seq(KindSet), NEW place \in Places, NEW known \in BOOLEAN,
         NEW held \in {"rax", "xmm0"}, known => held = Register(t),
         NEW null \in BOOLEAN
  PROVE  Tree(t, place, held, t, null, known) \in SoundTrees
  BY DEF SoundTrees, TreeType, Tree, Sound, Serves

\* An operand that is a variable, or the like.
LEMMA VariableStep ==
  ASSUME TreesInv, phase = "parsing",
         NEW t \in Seq(KindSet), NEW place \in Places, NEW known \in BOOLEAN,
         NEW held \in {"rax", "xmm0"}, known => held = Register(t), NEW null \in BOOLEAN,
         Known(Tree(t, place, held, t, null, known))
  PROVE  TreesInv' /\ operands' # << >>
<1>1. Give(TRUE, TRUE, 0, Tree(t, place, held, t, null, known)) /\ made' = << >>
  BY DEF Known
<1>2. 0 \in 0..Len(operands) /\ operands \in Seq(SoundTrees)
  BY LenProperties DEF TreesInv
<1>3. /\ operands' \in Seq(SoundTrees)
      /\ phase' = "refused" => Excused'
      /\ operands' # << >>
  BY <1>1, <1>2, LeafSound, GiveStep
<1>4. OperandsInOrder'
  BY <1>1 DEF OperandsInOrder
<1> QED
  BY <1>3, <1>4 DEF TreesInv, Excused

\* A step that combines no operands with ast_new_binary.
LEMMA PlainStep ==
  ASSUME TreesInv, phase = "parsing", operands # << >>, made' = << >>,
         NEW n \in 0..Len(operands), NEW tree,
         NEW accepted \in BOOLEAN, NEW legal \in BOOLEAN,
         accepted /\ legal => tree \in SoundTrees,
         legal /\ ~accepted => Excused,
         Give(accepted, legal, n, tree)
  PROVE  TreesInv' /\ operands' # << >>
<1>1. operands \in Seq(SoundTrees)
  BY DEF TreesInv
<1>2. /\ operands' \in Seq(SoundTrees)
      /\ phase' = "refused" => Excused'
      /\ operands' # << >>
  BY <1>1, GiveStep
<1>3. OperandsInOrder'
  BY DEF OperandsInOrder
<1> QED
  BY <1>2, <1>3 DEF TreesInv, Excused

\* A tree of two trees.
LEMMA CombineStep ==
  ASSUME TreesInv, phase = "parsing", operands # << >>,
         NEW n \in 0..Len(operands),
         NEW op \in Operators, NEW a \in SoundTrees, NEW b \in SoundTrees,
         NEW accepted \in BOOLEAN, NEW legal \in BOOLEAN,
         accepted /\ legal => Accepted(op, a, b) /\ Legal(op, a, b),
         legal /\ ~accepted => Excused,
         Combine(n, accepted, legal, op, a, b)
  PROVE  TreesInv' /\ operands' # << >>
<1>1. /\ Give(accepted, legal, n, Joined(op, a, b))
      /\ made' = IF accepted /\ legal THEN Make(op, a, b) ELSE << >>
  BY DEF Combine
<1>2. accepted /\ legal => Joined(op, a, b) \in SoundTrees
  BY JoinedSound
<1>3. operands \in Seq(SoundTrees)
  BY DEF TreesInv
<1>4. /\ operands' \in Seq(SoundTrees)
      /\ phase' = "refused" => Excused'
      /\ operands' # << >>
  BY <1>1, <1>2, <1>3, GiveStep
<1>5. OperandsInOrder'
  <2>1. CASE accepted /\ legal
    BY <1>1, <2>1, MadeInOrder
  <2>2. CASE ~(accepted /\ legal)
    BY <1>1, <2>2 DEF OperandsInOrder
  <2> QED
    BY <2>1, <2>2
<1> QED
  BY <1>4, <1>5 DEF TreesInv, Excused

\* Of operands whose types are close to C's, what C has a type for is refused in two cases only.
LEMMA RefusedCases ==
  ASSUME NEW op \in Operators, NEW a \in SoundTrees, NEW b \in SoundTrees,
         Close(a.type, a.meant), Close(b.type, b.meant),
         op # "=" => a.known /\ b.known,
         Legal(op, a, b), ~Accepted(op, a, b)
  PROVE  \/ op = "-" /\ IsPointer(Converted(a.meant)) /\ IsPointer(Converted(b.meant))
         \/ op = "=" /\ Kind(a.meant) = "structure"
<1> DEFINE s == Converted(a.meant)
           t == Converted(b.meant)
           got == ResultType(op, a.type, b.type)
<1>1. /\ a.type \in Seq(KindSet) /\ a.meant \in Seq(KindSet) /\ Close(a.type, a.meant)
      /\ b.type \in Seq(KindSet) /\ b.meant \in Seq(KindSet) /\ Close(b.type, b.meant)
      /\ a.known => Serves(a.type, a.meant)
      /\ b.known => Serves(b.type, b.meant)
  BY DEF SoundTrees, TreeType, Sound
<1>2. ASSUME Arithmetic(s)
      PROVE  /\ s = a.meant /\ Arithmetic(a.type)
             /\ a.known => (Integral(a.type) <=> Integral(s))
  BY <1>1, <1>2, ConvertedArithmetic, CloseTypes, ServingTypes
<1>3. ASSUME Arithmetic(t)
      PROVE  /\ t = b.meant /\ Arithmetic(b.type)
             /\ b.known => (Integral(b.type) <=> Integral(t))
  BY <1>1, <1>3, ConvertedArithmetic, CloseTypes, ServingTypes
<1>4. IntType # Refusal /\ LongType # Refusal /\ DoubleType # Refusal
  BY DEF IntType, LongType, DoubleType, Refusal
<1>5. \A c : IsPointer(c) => c # Refusal /\ ~Arithmetic(c)
  BY DEF IsPointer, Kind, Refusal, Arithmetic, Integral, Floating
<1>6. CASE op \in {"%", "^"}
  <2>1. Integral(s) /\ Integral(t)
    BY <1>6, LegalCases DEF Logical, Comparisons, Equalities, Additive
  <2>2. Integral(a.type) /\ Integral(b.type) /\ Arithmetic(a.type) /\ Arithmetic(b.type)
    BY <1>2, <1>3, <1>6, <2>1 DEF Arithmetic
  <2>3. got # Refusal
    BY <1>4, <2>2, ResultArithmetic, ResultInt
  <2> QED
    BY <1>6, <2>2, <2>3 DEF Accepted
<1>7. CASE op \in IntOnly \ {"%"}
  BY <1>4, <1>7, ResultInt DEF Accepted, IntOnly
<1>8. CASE op \in {"|", "+", "-", "*", "/", "="} /\ Arithmetic(s) /\ Arithmetic(t)
  <2>1. got # Refusal
    BY <1>2, <1>3, <1>4, <1>8, ResultArithmetic DEF IntOnly
  <2>2. op = "=" => a.place # "none"
    BY LegalCases DEF Logical, Comparisons, Equalities, Additive
  <2> QED
    BY <1>8, <2>1, <2>2 DEF Accepted
<1>9. CASE op \in {"|", "+", "-", "*", "/"} /\ ~(Arithmetic(s) /\ Arithmetic(t))
  <2>1. \/ op \in Additive /\ IsPointer(s) /\ Integral(t)
        \/ op = "+" /\ Integral(s) /\ IsPointer(t)
        \/ op = "-" /\ IsPointer(s) /\ s = t
    BY <1>9, LegalCases DEF Logical, Comparisons, Equalities, Additive, Arithmetic
  <2>2. /\ IsPointer(Converted(a.type)) <=> IsPointer(s)
        /\ IsPointer(Converted(b.type)) <=> IsPointer(t)
    BY <1>1, CloseTypes
  <2>3. CASE op \in Additive /\ IsPointer(s) /\ Integral(t)
    <3>1. got = Converted(a.type)
      BY <1>1, <1>3, <1>9, <2>2, <2>3, ResultPointer DEF Arithmetic
    <3> QED
      BY <1>5, <1>9, <2>2, <2>3, <3>1 DEF Accepted
  <2>4. CASE op = "+" /\ Integral(s) /\ IsPointer(t)
    <3>1. got = Converted(b.type)
      BY <1>1, <1>2, <1>9, <2>2, <2>4, ResultPointer DEF Arithmetic, Additive
    <3> QED
      BY <1>5, <1>9, <2>2, <2>4, <3>1 DEF Accepted
  <2> QED
    BY <2>1, <2>3, <2>4
<1>10. CASE op = "=" /\ ~(Arithmetic(s) /\ Arithmetic(t))
  <2>1. /\ a.place # "none" /\ Kind(a.meant) # "array"
        /\ \/ IsPointer(s) /\ IsPointer(t)
           \/ IsPointer(s) /\ Null(b)
           \/ s = t /\ Kind(s) = "structure"
    BY <1>10, LegalCases DEF Logical, Comparisons, Equalities, Additive
  <2>2. s = a.meant
    BY <1>1, <2>1, ConvertedKind
  <2>3. ASSUME IsPointer(s) PROVE Accepted(op, a, b)
    <3>1. IsPointer(Converted(a.type))
      BY <1>1, <2>3, CloseTypes
    <3>2. ASSUME IsPointer(t) PROVE got = Converted(a.type)
      <4>1. IsPointer(Converted(b.type))
        BY <1>1, <3>2, CloseTypes
      <4> QED
        BY <1>1, <1>10, <3>1, <4>1, ResultAssigned
    <3>3. ASSUME ~IsPointer(t) PROVE got # Refusal
      <4>1. Integral(b.meant)
        <5>1. Converted(VoidPointer) = VoidPointer /\ IsPointer(VoidPointer)
          BY DEF VoidPointer, Converted, IsPointer, Kind
        <5>2. Null(b)
          BY <2>1, <2>3, <3>3 DEF IsPointer
        <5> QED
          BY <3>3, <5>1, <5>2 DEF Null
      <4>2. Arithmetic(b.type)
        BY <1>1, <4>1, CloseTypes DEF Arithmetic
      <4>3. got = b.type
        BY <1>1, <1>10, <3>1, <4>2, ResultAssigned
      <4> QED
        BY <1>4, <4>2, <4>3 DEF Arithmetic, Integral, Floating, Kind, Refusal
    <3> QED
      BY <1>5, <1>10, <2>1, <3>1, <3>2, <3>3 DEF Accepted
  <2> QED
    BY <1>10, <2>1, <2>2, <2>3
<1> QED
  BY <1>6, <1>7, <1>8, <1>9, <1>10
  DEF Operators, Additive, IntOnly, Comparisons, Equalities, Logical

\* A binary operator.
LEMMA BinaryStep ==
  ASSUME TreesInv, NEW op \in Operators, Binary(op)
  PROVE  TreesInv' /\ operands' # << >>
<1>1. Holds(2) /\ operands \in Seq(SoundTrees)
  BY DEF Binary, TreesInv
<1>2. /\ Top \in SoundTrees /\ Left \in SoundTrees /\ Top \in Trees /\ Left \in Trees
      /\ 2 \in 0..Len(operands) /\ operands # << >> /\ phase = "parsing" /\ Len(operands) > 1
  BY <1>1, Operands DEF Holds
<1>3. ASSUME Legal(op, Left, Top), ~Accepted(op, Left, Top)
      PROVE  Excused
  <2>1. CASE Left.known /\ Top.known
    <3>1. Close(Left.type, Left.meant) /\ Close(Top.type, Top.meant)
      BY <1>2, <2>1, ServingIsClose DEF SoundTrees, Sound
    <3> QED
      BY <1>2, <1>3, <2>1, <3>1, RefusedCases DEF Excused, Difference, Structures
  <2>2. CASE ~(Left.known /\ Top.known)
    BY <1>2, <2>2 DEF Excused
  <2> QED
    BY <2>1, <2>2
<1>4. Accepted(op, Left, Top) \in BOOLEAN /\ Legal(op, Left, Top) \in BOOLEAN
  BY DEF Accepted, Legal
<1>5. Combine(2, Accepted(op, Left, Top), Legal(op, Left, Top), op, Left, Top)
  BY DEF Binary
<1> QED
  BY <1>2, <1>3, <1>4, <1>5, CombineStep

\* A compound assignment.
LEMMA CompoundStep ==
  ASSUME TreesInv, NEW op \in Assigning, Compound(op)
  PROVE  TreesInv' /\ operands' # << >>
<1> DEFINE value == Joined(op, Left, Top)
           accepted == Left.place # "none" /\ Accepted(op, Left, Top) /\ Accepted("=", Left, value)
           legal == Legal(op, Left, Top) /\ Legal("=", Left, value)
<1>1. Holds(2) /\ operands \in Seq(SoundTrees)
  BY DEF Compound, TreesInv
<1>2. /\ Top \in SoundTrees /\ Left \in SoundTrees /\ Top \in Trees /\ Left \in Trees
      /\ 2 \in 0..Len(operands) /\ operands # << >> /\ phase = "parsing" /\ Len(operands) > 1
  BY <1>1, Operands DEF Holds
<1>3. op \in Operators /\ op # "=" /\ "=" \in Operators
  BY DEF Assigning, Operators, Additive
<1>4. accepted /\ legal => value \in SoundTrees
  BY <1>2, <1>3, JoinedSound
<1>5. ASSUME legal, ~accepted PROVE Excused
  <2>1. Left.place # "none"
    BY <1>5, LegalCases DEF Logical, Comparisons, Equalities, Additive
  <2>2. CASE ~(Left.known /\ Top.known)
    BY <1>2, <2>2 DEF Excused
  <2>3. CASE Left.known /\ Top.known /\ ~Accepted(op, Left, Top)
    <3>1. Close(Left.type, Left.meant) /\ Close(Top.type, Top.meant)
      BY <1>2, <2>3, ServingIsClose DEF SoundTrees, Sound
    <3> QED
      BY <1>2, <1>3, <1>5, <2>3, <3>1, RefusedCases DEF Excused, Difference, Structures
  <2>4. CASE Left.known /\ Top.known /\ Accepted(op, Left, Top)
    <3>1. value \in SoundTrees /\ ~Accepted("=", Left, value)
      BY <1>2, <1>3, <1>5, <2>1, <2>4, JoinedSound
    <3>2. Close(Left.type, Left.meant)
      BY <1>2, <2>4, ServingIsClose DEF SoundTrees, Sound
    <3>3. Close(value.type, value.meant)
      <4>1. Close(ResultType(op, Left.type, Top.type), CType(op, Left, Top))
        BY <1>2, <1>3, <1>5, <2>4, JoinedTypes
      <4> QED
        BY <4>1 DEF Joined, Tree
    <3>4. Kind(Left.meant) = "structure"
      <4>1. Legal("=", Left, value)
        BY <1>5
      <4> HIDE DEF value
      <4> QED
        BY <1>2, <1>3, <3>1, <3>2, <3>3, <4>1, RefusedCases
    <3> QED
      BY <1>2, <3>4 DEF Excused, Structures
  <2> QED
    BY <2>2, <2>3, <2>4
<1>6. accepted \in BOOLEAN /\ legal \in BOOLEAN
  BY DEF Accepted, Legal
<1>7. Combine(2, accepted, legal, "=", Left, value)
  BY DEF Compound
<1>8. CASE accepted /\ legal
  <2>1. value \in SoundTrees /\ Accepted("=", Left, value) /\ Legal("=", Left, value)
    BY <1>4, <1>8
  <2> HIDE DEF value, accepted, legal
  <2> QED
    BY <1>2, <1>3, <1>6, <1>7, <1>8, <2>1, CombineStep
<1>9. CASE ~(accepted /\ legal)
  <2>1. Give(accepted, legal, 2, Joined("=", Left, value)) /\ made' = << >>
    BY <1>7, <1>9 DEF Combine
  <2> HIDE DEF value, accepted, legal
  <2> QED
    BY <1>2, <1>5, <1>6, <1>9, <2>1, PlainStep
<1> QED
  BY <1>8, <1>9

\* A minus sign.
LEMMA NegateStep ==
  ASSUME TreesInv, Negate
  PROVE  TreesInv' /\ operands' # << >>
<1>1. Holds(1) /\ operands \in Seq(SoundTrees)
  BY DEF Negate, TreesInv
<1>2. /\ Top \in SoundTrees /\ 1 \in 0..Len(operands) /\ operands # << >> /\ phase = "parsing"
      /\ Top.meant \in Seq(KindSet) /\ Top.type \in Seq(KindSet) /\ Top \in Trees
      /\ Top.known => Close(Top.type, Top.meant)
  BY <1>1, Operands, ServingIsClose DEF Holds, SoundTrees, TreeType, Sound
<1>3. IntType \in Seq(KindSet) /\ Kind(IntType) = "int" /\ Register(IntType) = "rax"
  BY KindNames DEF IntType, Kind, Register, Floating
<1>4. Zero \in SoundTrees
  BY <1>3, LeafSound DEF Zero, Places
<1>5. ASSUME Arithmetic(Top.meant)
      PROVE  Legal("-", Zero, Top) /\ (Top.known => Accepted("-", Zero, Top))
  <2>1. Arithmetic(IntType) /\ Zero.type = IntType /\ Zero.meant = IntType
    BY <1>3 DEF Zero, Tree, Arithmetic, Integral
  <2>2. Converted(IntType) = IntType /\ Converted(Top.meant) = Top.meant
    BY <1>2, <1>3, <1>5, <2>1, ConvertedArithmetic
  <2>3. Arithmetic(Common(IntType, Top.meant))
    BY <1>2, <1>3, <1>5, <2>1, CommonType
  <2>4. \A c : Arithmetic(c) => c # Refusal /\ ~IsPointer(c)
    BY DEF Arithmetic, Integral, Floating, Kind, Refusal, IsPointer
  <2>5. CType("-", Zero, Top) = Common(IntType, Top.meant)
    BY <1>5, <2>1, <2>2, <2>4 DEF CType, Logical, Comparisons, Equalities, Additive, Moves
  <2>6. Top.known => Arithmetic(Top.type)
    BY <1>2, <1>5, CloseTypes
  <2>7. Top.known => ResultType("-", IntType, Top.type) # Refusal
    BY <2>1, <2>6, ResultArithmetic DEF IntOnly, IntType, LongType, DoubleType, Refusal
  <2> QED
    BY <2>1, <2>3, <2>4, <2>5, <2>7 DEF Legal, Accepted
<1>6. Accepted("-", Zero, Top) \in BOOLEAN /\ Arithmetic(Top.meant) \in BOOLEAN
  BY DEF Accepted, Arithmetic, Integral, Floating
<1>7. Combine(1, Accepted("-", Zero, Top), Arithmetic(Top.meant), "-", Zero, Top)
  BY DEF Negate
<1>8. "-" \in Operators
  BY DEF Operators, Additive
<1>9. ~Top.known => Excused
  BY <1>2 DEF Excused
<1> QED
  BY <1>2, <1>4, <1>5, <1>6, <1>7, <1>8, <1>9, CombineStep

\* The last operand: its types agree, as far as it is sound.
LEMMA TopSound ==
  ASSUME TreesInv, Holds(1)
  PROVE  /\ operands # << >> /\ phase = "parsing" /\ 1 \in 0..Len(operands)
         /\ Top \in SoundTrees /\ Top \in TreeType /\ Sound(Top)
         /\ Top.type \in Seq(KindSet) /\ Top.meant \in Seq(KindSet)
         /\ Top.known \in BOOLEAN /\ Top.place \in Places /\ Top.held \in {"rax", "xmm0"}
         /\ Top.known => /\ Serves(Top.type, Top.meant) /\ Top.held = Register(Top.type)
                         /\ Close(Top.type, Top.meant)
         /\ ~Top.known => Excused
<1>1. operands \in Seq(SoundTrees)
  BY DEF TreesInv
<1> QED
  BY <1>1, Operands, ServingIsClose DEF Holds, SoundTrees, TreeType, Sound, Excused

\* A tree of one tree.
LEMMA UnaryStep ==
  ASSUME TreesInv, NEW accepted \in BOOLEAN, NEW legal \in BOOLEAN, NEW tree,
         Unary(accepted, legal, tree),
         accepted /\ legal => tree \in SoundTrees,
         legal /\ ~accepted => Excused
  PROVE  TreesInv' /\ operands' # << >>
  BY TopSound, PlainStep DEF Unary

\* A tree is a constant or it is none.
LEMMA ConstantIsBoolean ==
  ASSUME NEW e \in TreeType
  PROVE  Constant(e) \in BOOLEAN
  BY DEF Constant, TreeType, Integral

\* A logical not.
LEMMA NotStep ==
  ASSUME TreesInv, Not
  PROVE  TreesInv' /\ operands' # << >>
<1> DEFINE tree == Tree(IntType, "none", "rax", IntType, Constant(Top), Top.known)
           legal == Scalar(Converted(Top.meant))
<1>1. Unary(TRUE, legal, tree) /\ Holds(1)
  BY DEF Not, Unary
<1>2. IntType \in Seq(KindSet) /\ Register(IntType) = "rax"
  BY KindNames DEF IntType, Kind, Register, Floating
<1>3. tree \in SoundTrees
  <2>1. Constant(Top) \in BOOLEAN
    BY <1>1, TopSound, ConstantIsBoolean
  <2> QED
    BY <1>1, <1>2, <2>1, TopSound, LeafSound DEF Places
<1>4. legal \in BOOLEAN
  BY DEF Scalar, Arithmetic, Integral, Floating, IsPointer
<1> QED
  BY <1>1, <1>3, <1>4, UnaryStep

\* ++ and --: the tree of the operand, no longer an lvalue.
LEMMA NoLongerLvalue ==
  ASSUME NEW e \in SoundTrees
  PROVE  [e EXCEPT !.place = "none"] \in SoundTrees
  BY DEF SoundTrees, TreeType, Places, Sound

\* A complement: where C promotes the operand, its own type serves.
LEMMA ComplementStep ==
  ASSUME TreesInv, Complement
  PROVE  TreesInv' /\ operands' # << >>
<1> DEFINE meant == Promoted(Top.meant)
           null == Constant(Top)
           tree == Tree(Top.type, "none", Top.held, meant, null, Top.known)
<1>1. Unary(Integral(Top.type), Integral(Top.meant), tree) /\ Holds(1)
  BY DEF Complement, Unary
<1>2. ASSUME Integral(Top.type), Integral(Top.meant) PROVE tree \in SoundTrees
  <2>1. /\ meant \in Seq(KindSet) /\ Integral(meant) /\ ~Floating(meant)
        /\ Wide(meant) => Wide(Top.meant)
    <3>1. Arithmetic(Top.meant) /\ ~Floating(Top.meant) /\ Top.meant \in Seq(KindSet)
      BY <1>1, <1>2, TopSound DEF Arithmetic, Integral, Floating
    <3>2. meant \in {Common(Top.meant, Top.meant), Promoted(Top.meant)}
      OBVIOUS
    <3> QED
      BY <3>1, <3>2, CommonType
  <2>2. Top.known => Serves(Top.type, meant)
    <3>1. Arithmetic(Top.meant) /\ Arithmetic(Top.type) /\ ~Floating(Top.type)
      BY <1>2 DEF Arithmetic, Integral, Floating
    <3>2. Top.known => (Wide(Top.meant) => Wide(Top.type))
      BY <1>1, <3>1, TopSound, ServingTypes
    <3> HIDE DEF meant
    <3> QED
      BY <1>2, <2>1, <3>1, <3>2 DEF Serves
  <2>3. null \in BOOLEAN
    BY <1>1, TopSound, ConstantIsBoolean
  <2>4. tree = [type |-> Top.type, place |-> "none", held |-> Top.held, meant |-> meant,
                null |-> null, known |-> Top.known]
    BY DEF Tree
  <2> HIDE DEF meant, null, tree
  <2>5. tree \in TreeType
    BY <1>1, <2>1, <2>3, <2>4, TopSound DEF TreeType, Places
  <2>6. Sound(tree)
    BY <1>1, <2>2, <2>4, TopSound DEF Sound
  <2> QED
    BY <2>5, <2>6 DEF SoundTrees
<1>3. Integral(Top.meant) /\ ~Integral(Top.type) => Excused
  BY <1>1, TopSound, ServingTypes DEF Arithmetic
<1>4. Integral(Top.type) \in BOOLEAN /\ Integral(Top.meant) \in BOOLEAN
  BY DEF Integral
<1> HIDE DEF tree
<1> QED
  BY <1>1, <1>2, <1>3, <1>4, UnaryStep

\* An increment or a decrement.
LEMMA StepStep ==
  ASSUME TreesInv, Step
  PROVE  TreesInv' /\ operands' # << >>
<1> DEFINE legal == Top.place # "none" /\ (Arithmetic(Top.meant) \/ Moves(Top.meant))
<1>1. Unary(Top.place # "none", legal, [Top EXCEPT !.place = "none"]) /\ Holds(1)
  BY DEF Step, Unary
<1>2. [Top EXCEPT !.place = "none"] \in SoundTrees
  BY <1>1, TopSound, NoLongerLvalue
<1>3. legal \in BOOLEAN
  BY DEF Arithmetic, Integral, Floating, Moves, IsPointer
<1> QED
  BY <1>1, <1>2, <1>3, UnaryStep

\* What is not sound of the tree of & is not known: the value a dereference loads.
LEMMA AddressStep ==
  ASSUME TreesInv, Address
  PROVE  TreesInv' /\ operands' # << >>
<1> DEFINE held == IF Top.place = "dereference" THEN Top.held ELSE "rax"
           known == Top.known /\ Top.place # "dereference"
           tree == Tree(Pointer(Top.type), "none", held, Pointer(Top.meant), FALSE, known)
<1>1. Unary(Top.place # "none", Top.place # "none", tree) /\ Holds(1)
  BY DEF Address, Unary
<1>2. ASSUME Top.place # "none" PROVE tree \in SoundTrees
  <2>1. known => Top.known /\ Top.type = Top.meant
    BY <1>1, <1>2, TopSound DEF Sound
  <2>2. /\ Pointer(Top.type) \in Seq(KindSet) /\ Register(Pointer(Top.type)) = "rax"
        /\ Pointer(Top.meant) \in Seq(KindSet)
    BY <1>1, TopSound, PointerTo DEF Register, Floating
  <2>3. held \in {"rax", "xmm0"} /\ known \in BOOLEAN /\ (known => held = "rax")
    BY <1>1, TopSound
  <2>4. tree = [type |-> Pointer(Top.type), place |-> "none", held |-> held,
                meant |-> Pointer(Top.meant), null |-> FALSE, known |-> known]
    BY DEF Tree
  <2> HIDE DEF held, known, tree
  <2> QED
    BY <2>1, <2>2, <2>3, <2>4 DEF SoundTrees, TreeType, Sound, Places, Serves
<1> QED
  BY <1>1, <1>2, UnaryStep

\* What is loaded through a pointer, or an array, is of the same type for both.
LEMMA LoadedSound ==
  ASSUME NEW t \in Seq(KindSet), NEW m \in Seq(KindSet), Pointing(t), Pointing(m),
         NEW known \in BOOLEAN, known => Close(t, m)
  PROVE  Loaded(t, m, known) \in SoundTrees
<1>1. known => Converted(t) = Converted(m)
  <2>1. ~Arithmetic(m)
    BY ConvertedArithmetic DEF Pointing, IsPointer, Arithmetic, Integral, Floating
  <2> QED
    BY <2>1, CloseTypes
<1>2. /\ Tail(t) \in Seq(KindSet) /\ Tail(m) \in Seq(KindSet)
      /\ known => Tail(t) = Tail(m)
  <2>1. /\ t # << >> /\ Tail(t) = Tail(Converted(t))
        /\ m # << >> /\ Tail(m) = Tail(Converted(m))
    BY ConvertedKind DEF Pointing
  <2> QED
    BY <1>1, <2>1, KindOf
<1>3. Register(Tail(t)) \in {"rax", "xmm0"}
  BY DEF Register
<1> DEFINE e == Loaded(t, m, known)
<1>4. e = [type |-> Tail(t), place |-> "dereference", held |-> Register(Tail(t)),
           meant |-> Tail(m), null |-> FALSE, known |-> known]
  BY DEF Loaded, Tree
<1> HIDE DEF e
<1>5. e \in TreeType
  BY <1>2, <1>3, <1>4 DEF TreeType, Places
<1>6. Sound(e)
  BY <1>2, <1>4 DEF Sound, Serves
<1>7. e \in SoundTrees
  BY <1>5, <1>6 DEF SoundTrees
<1> QED
  BY <1>7 DEF e

\* A dereference.
LEMMA DereferenceStep ==
  ASSUME TreesInv, Dereference
  PROVE  TreesInv' /\ operands' # << >>
<1>1. /\ Unary(Pointing(Top.type), Pointing(Top.meant), Loaded(Top.type, Top.meant, Top.known))
      /\ Holds(1)
  BY DEF Dereference, Unary
<1>2. Pointing(Top.type) /\ Pointing(Top.meant)
        => Loaded(Top.type, Top.meant, Top.known) \in SoundTrees
  BY <1>1, TopSound, LoadedSound
<1>3. Pointing(Top.meant) /\ ~Pointing(Top.type) => Excused
  BY <1>1, TopSound, CloseTypes DEF Pointing
<1>4. Pointing(Top.type) \in BOOLEAN /\ Pointing(Top.meant) \in BOOLEAN
  BY DEF Pointing, IsPointer
<1> HIDE DEF Loaded
<1> QED
  BY <1>1, <1>2, <1>3, <1>4, UnaryStep

\* A cast.
LEMMA CastStep ==
  ASSUME TreesInv, NEW t \in Results, Cast(t)
  PROVE  TreesInv' /\ operands' # << >>
<1> DEFINE null == \/ Top.null /\ Arithmetic(Top.meant) /\ Integral(t)
                   \/ Constant(Top) /\ t = VoidPointer
           tree == Tree(t, "none", LoadedAs(t, Top), t, null, Top.known)
           legal == Castable(t, Converted(Top.meant))
<1>1. Unary(TRUE, legal, tree) /\ Holds(1)
  BY DEF Cast, Unary
<1>2. t \in Seq(KindSet)
  BY ConstantTypes
<1>3. /\ LoadedAs(t, Top) \in {"rax", "xmm0"}
      /\ Top.known => LoadedAs(t, Top) = Register(t)
  BY <1>1, TopSound, LoadedHeld
<1>4. tree \in SoundTrees
  <2>1. null \in BOOLEAN
    OBVIOUS
  <2> HIDE DEF null
  <2> QED
    BY <1>1, <1>2, <1>3, <2>1, TopSound, LeafSound DEF Places
<1>5. legal \in BOOLEAN
  BY DEF Castable
<1> HIDE DEF tree, legal
<1> QED
  BY <1>1, <1>4, <1>5, UnaryStep

\* A subscript.
LEMMA SubscriptStep ==
  ASSUME TreesInv, Subscript
  PROVE  TreesInv' /\ operands' # << >>
<1> DEFINE sum == Joined("+", Left, Top)
           accepted == Accepted("+", Left, Top) /\ Pointing(sum.type)
           legal == Legal("+", Left, Top) /\ Pointing(sum.meant)
           tree == Loaded(sum.type, sum.meant, sum.known)
<1>1. /\ Holds(2) /\ operands \in Seq(SoundTrees) /\ made' = << >>
      /\ Give(accepted, legal, 2, tree)
  BY DEF Subscript, TreesInv
<1>2. /\ Top \in SoundTrees /\ Left \in SoundTrees /\ Top \in Trees /\ Left \in Trees
      /\ 2 \in 0..Len(operands) /\ operands # << >> /\ phase = "parsing"
  BY <1>1, Operands DEF Holds
<1>3. "+" \in Operators
  BY DEF Operators, Additive
<1>4. ASSUME accepted, legal PROVE tree \in SoundTrees
  <2>1. sum \in SoundTrees
    BY <1>2, <1>3, <1>4, JoinedSound
  <2>2. /\ sum.type \in Seq(KindSet) /\ sum.meant \in Seq(KindSet) /\ sum.known \in BOOLEAN
        /\ sum.known => Close(sum.type, sum.meant)
    BY <2>1, ServingIsClose DEF SoundTrees, TreeType, Sound
  <2> QED
    BY <1>4, <2>2, LoadedSound
<1>5. ASSUME legal, ~accepted PROVE Excused
  <2>1. CASE ~(Left.known /\ Top.known)
    BY <1>2, <2>1 DEF Excused
  <2>2. CASE Left.known /\ Top.known
    <3>1. Close(Left.type, Left.meant) /\ Close(Top.type, Top.meant)
      BY <1>2, <2>2, ServingIsClose DEF SoundTrees, Sound
    <3>2. Accepted("+", Left, Top)
      BY <1>2, <1>3, <1>5, <2>2, <3>1, RefusedCases
    <3>3. Close(ResultType("+", Left.type, Top.type), CType("+", Left, Top))
      BY <1>2, <1>3, <1>5, <2>2, <3>2, JoinedTypes
    <3>4. Close(sum.type, sum.meant) /\ sum \in SoundTrees
      BY <1>2, <1>3, <1>5, <3>2, <3>3, JoinedSound DEF Joined, Tree
    <3>5. IsPointer(Converted(sum.type)) <=> IsPointer(Converted(sum.meant))
      BY <3>4, CloseTypes DEF SoundTrees, TreeType
    <3> QED
      BY <1>5, <3>2, <3>5 DEF Pointing
  <2> QED
    BY <2>1, <2>2
<1>6. accepted \in BOOLEAN /\ legal \in BOOLEAN
  BY DEF Accepted, Legal, Pointing, IsPointer
<1> HIDE DEF tree, accepted, legal
<1> QED
  BY <1>1, <1>2, <1>4, <1>5, <1>6, PlainStep

\* What C makes of two branches of which not both are arithmetic, when no branch is converted
\* but a null pointer constant.
LEMMA BranchTypes ==
  ASSUME NEW a \in TreeType, NEW b \in TreeType,
         NEW s, s = Converted(a.meant), NEW t, t = Converted(b.meant),
         NEW meant, meant = Branches(a, b), meant # Refusal,
         ~(Arithmetic(s) /\ Arithmetic(t)),
         Promoted(s) = meant, Promoted(t) = meant \/ IsPointer(meant)
  PROVE  meant = s /\ ~Arithmetic(s) /\ ~Floating(t)
<1>1. /\ \A c : IsPointer(c) => ~Arithmetic(c) /\ ~Floating(c) /\ ~Integral(c)
      /\ \A c : ~Arithmetic(c) => Promoted(c) = c /\ ~Floating(c)
      /\ \A c : Arithmetic(c) => Arithmetic(Promoted(c))
      /\ \A c : Integral(c) => Arithmetic(c) /\ ~Floating(c)
  BY DEF IsPointer, Arithmetic, Integral, Floating, Promoted, Kind, IntType
<1>2. IsPointer(VoidPointer) /\ Converted(VoidPointer) = VoidPointer
  BY DEF IsPointer, Kind, VoidPointer, Converted
<1>3. \/ s = t /\ meant = s
      \/ IsPointer(s) /\ Null(b) /\ meant = s
      \/ Null(a) /\ IsPointer(t) /\ meant = t
      \/ IsPointer(s) /\ IsPointer(t) /\ meant = VoidPointer
  BY DEF Branches, Matching
<1>4. Integral(b.meant) => t = b.meant
  BY DEF Converted, Integral
<1>5. Null(b) => ~Floating(t)
  BY <1>1, <1>2, <1>4 DEF Null
<1>6. ~Arithmetic(s)
  BY <1>1, <1>2, <1>3
<1> QED
  BY <1>1, <1>3, <1>5, <1>6

\* What Branches gives is a type or none.
LEMMA BranchesType ==
  ASSUME NEW a \in TreeType, NEW b \in TreeType
  PROVE  Branches(a, b) \in Seq(KindSet)
<1> DEFINE s == Converted(a.meant)
           t == Converted(b.meant)
<1>1. s \in Seq(KindSet) /\ t \in Seq(KindSet)
  BY ConvertedKind DEF TreeType
<1>2. IntType \in Seq(KindSet) /\ Refusal \in Seq(KindSet) /\ VoidPointer \in Seq(KindSet)
  BY KindNames DEF IntType, Refusal, VoidPointer
<1>3. Common(s, t) \in Seq(KindSet)
  BY <1>1, <1>2 DEF Promoted, Common
<1>4. Branches(a, b) \in {Common(s, t), s, t, VoidPointer, Refusal}
  BY DEF Branches
<1> QED
  BY <1>1, <1>2, <1>3, <1>4

\* Either branch leaves its value; it is where the type says, if C converts none of them but a
\* null pointer constant.
LEMMA ConditionalStep ==
  ASSUME TreesInv, Conditional
  PROVE  TreesInv' /\ operands' # << >>
<1> DEFINE s == Converted(Left.meant)
           t == Converted(Top.meant)
           meant == Branches(Left, Top)
           null == Constant(Left) /\ Constant(Top)
           known == /\ Left.known /\ Top.known
                    /\ Promoted(s) = meant
                    /\ Promoted(t) = meant \/ IsPointer(meant)
           legal == meant # Refusal
<1>1. PICK branch \in {Left, Top} :
        Give(TRUE, legal, 2, Tree(Left.type, "none", branch.held, meant, null, known))
  BY DEF Conditional
<1> DEFINE tree == Tree(Left.type, "none", branch.held, meant, null, known)
<1>2. Holds(2) /\ operands \in Seq(SoundTrees) /\ made' = << >>
  BY DEF Conditional, TreesInv
<1>3. /\ Top \in SoundTrees /\ Left \in SoundTrees /\ Top \in TreeType /\ Left \in TreeType
      /\ 2 \in 0..Len(operands) /\ operands # << >> /\ phase = "parsing"
  BY <1>2, Operands DEF Holds, SoundTrees
<1>4. \A e \in {Left, Top} :
        /\ e.type \in Seq(KindSet) /\ e.meant \in Seq(KindSet)
        /\ Converted(e.meant) \in Seq(KindSet)
        /\ e.held \in {"rax", "xmm0"} /\ e.known \in BOOLEAN
        /\ e.known => /\ Serves(e.type, e.meant) /\ e.held = Register(e.type)
                      /\ Close(e.type, e.meant)
  BY <1>3, ConvertedKind, ServingIsClose DEF SoundTrees, TreeType, Sound
<1>5. ASSUME legal, known, Arithmetic(s), Arithmetic(t)
      PROVE  Serves(Left.type, meant) /\ branch.held = Register(Left.type)
  <2>1. /\ meant = Common(s, t)
        /\ s = Left.meant /\ t = Top.meant
    BY <1>4, <1>5, ConvertedArithmetic DEF Branches
  <2>2. /\ meant \in Seq(KindSet) /\ Arithmetic(meant)
        /\ Integral(meant) <=> ~Floating(meant)
    BY <1>4, <1>5, <2>1, CommonType
  <2>3. Arithmetic(Left.type)
    BY <1>4, <1>5, <2>1, CloseTypes
  <2>4. Promoted(s) = meant /\ Promoted(t) = meant
    BY <1>5, <2>2 DEF IsPointer, Arithmetic, Integral, Floating
  <2>5. /\ Floating(Left.type) <=> Floating(s)
        /\ Integral(Left.type) <=> Integral(s)
        /\ Wide(s) => Wide(Left.type)
        /\ Floating(Top.type) <=> Floating(t)
    BY <1>4, <1>5, <2>1, ServingTypes
  <2>6. /\ Floating(meant) <=> Floating(s)
        /\ Floating(meant) <=> Floating(t)
        /\ Wide(meant) => Wide(s)
    BY <1>4, <1>5, <2>1, <2>4, CommonType
  <2>7. Integral(s) <=> ~Floating(s)
    BY <1>5 DEF Arithmetic, Integral, Floating
  <2>8. Serves(Left.type, meant)
    BY <2>2, <2>3, <2>5, <2>6, <2>7 DEF Serves
  <2>9. Register(Top.type) = Register(Left.type)
    BY <2>5, <2>6 DEF Register
  <2> QED
    BY <1>4, <1>5, <2>8, <2>9
<1>6. ASSUME legal, known, ~(Arithmetic(s) /\ Arithmetic(t))
      PROVE  Serves(Left.type, meant) /\ branch.held = Register(Left.type)
  <2>1. meant = s /\ ~Arithmetic(s) /\ ~Floating(t)
    BY <1>3, <1>6, BranchTypes
  <2>2. Converted(Left.type) = s /\ Converted(s) = s /\ ~Arithmetic(Left.type)
    <3>1. ~Arithmetic(Left.meant)
      BY <1>4, <2>1, ConvertedArithmetic
    <3> QED
      BY <1>4, <1>6, <3>1, CloseTypes, ConvertedKind
  <2>3. ~Floating(Top.type)
    <3>1. CASE Arithmetic(Top.meant)
      BY <1>4, <1>6, <2>1, <3>1, ConvertedArithmetic, ServingTypes
    <3>2. CASE ~Arithmetic(Top.meant)
      BY <1>4, <1>6, <3>2, CloseTypes DEF Arithmetic
    <3> QED
      BY <3>1, <3>2
  <2>4. Register(Top.type) = "rax" /\ Register(Left.type) = "rax"
    BY <2>2, <2>3 DEF Register, Arithmetic
  <2> QED
    BY <1>4, <1>6, <2>1, <2>2, <2>4 DEF Serves
<1>7. legal => tree \in SoundTrees
  <2>1. known \in BOOLEAN /\ null \in BOOLEAN /\ meant \in Seq(KindSet)
    BY <1>3, <1>4, BranchesType
  <2>2. tree = [type |-> Left.type, place |-> "none", held |-> branch.held,
                meant |-> meant, null |-> null, known |-> known]
    BY DEF Tree
  <2> HIDE DEF known, null, meant, tree
  <2>3. tree \in TreeType
    BY <1>4, <2>1, <2>2 DEF TreeType, Places
  <2>4. legal => Sound(tree)
    BY <1>5, <1>6, <2>2 DEF Sound
  <2> QED
    BY <2>3, <2>4 DEF SoundTrees
<1>8. Give(TRUE, legal, 2, tree) /\ legal \in BOOLEAN
  BY <1>1
<1> HIDE DEF tree, legal
<1> QED
  BY <1>2, <1>3, <1>7, <1>8, PlainStep

\* parse_expression, whatever the expression.
LEMMA ExpressionStep ==
  ASSUME TreesInv, ExprNext
  PROVE  TreesInv' /\ operands' # << >>
<1>1. ASSUME NEW t \in Variables, NEW place \in {"local", "global"}, Variable(t, place)
      PROVE  TreesInv' /\ operands' # << >>
  <2> DEFINE held == IF place = "global" THEN "rax" ELSE Register(t)
             known == place = "local" \/ ~Floating(t)
  <2>1. t \in Seq(KindSet) /\ place \in Places
    BY ConstantTypes DEF Places
  <2>2. held \in {"rax", "xmm0"} /\ known \in BOOLEAN /\ (known => held = Register(t))
    BY DEF Register, Floating
  <2>3. phase = "parsing" /\ Known(Tree(t, place, held, t, FALSE, known))
    BY <1>1 DEF Variable
  <2> HIDE DEF held, known
  <2> QED
    BY <2>1, <2>2, <2>3, VariableStep
<1>2. ASSUME NEW t \in Results, Rvalue(t)
      PROVE  TreesInv' /\ operands' # << >>
  <2>1. t \in Seq(KindSet) /\ "none" \in Places
    BY ConstantTypes DEF Places
  <2>2. Register(t) \in {"rax", "xmm0"}
    BY DEF Register
  <2>3. PICK literal \in BOOLEAN :
          phase = "parsing" /\ Known(Tree(t, "none", Register(t), t, literal, TRUE))
    BY <1>2 DEF Rvalue
  <2> QED
    BY <2>1, <2>2, <2>3, VariableStep
<1> QED
  BY <1>1, <1>2, CastStep, BinaryStep, CompoundStep, NegateStep, NotStep, ComplementStep, AddressStep,
     DereferenceStep, SubscriptStep, StepStep, ConditionalStep
  DEF ExprNext

\* The type of a declaration enters an expression as C's, by MeansC.
LEMMA DeclareStep ==
  ASSUME BothInv, Declare
  PROVE  TreesInv' /\ operands' # << >>
<1> DEFINE t == Named(result.base)
<1>1. pc = "done" /\ CValid /\ user # "name"
  BY DEF Declare, Return
<1>2. phase = "parsing" /\ TreesInv
  BY <1>1 DEF BothInv, Idle, Init
<1>3. result.base = CBase /\ result = Chosen /\ TypeOK
  BY <1>1, DoneMeansC DEF BothInv, IInv, MeansC
<1>4. t \in Seq(KindSet)
  <2>1. result.base \in {"tag", "void", "float", "char", "double", "ldouble", "int", "short", "long", "llong"}
    BY <1>1, <1>3 DEF Chosen, TypeOK, Users, Types
  <2>2. PICK k \in KindSet : t = <<k>>
    BY <2>1, KindNames DEF Named
  <2>3. <<k>> \in Seq(KindSet)
    OBVIOUS
  <2> QED
    BY <2>2, <2>3
<1>5. CASE t = <<"void">>
  <2>1. Known(Tree(t, "none", Register(t), t, FALSE, TRUE))
    BY <1>3, <1>5 DEF Declare
  <2>2. Register(t) \in {"rax", "xmm0"} /\ "none" \in Places
    BY DEF Register, Places
  <2> HIDE DEF t
  <2> QED
    BY <1>2, <1>4, <2>1, <2>2, VariableStep
<1>6. CASE t # <<"void">>
  <2>1. PICK place \in {"local", "global"} :
          Known(Tree(t, place, IF place = "global" THEN "rax" ELSE Register(t), t, FALSE,
                     place = "local" \/ ~Floating(t)))
    BY <1>3, <1>6 DEF Declare
  <2> DEFINE held == IF place = "global" THEN "rax" ELSE Register(t)
             known == place = "local" \/ ~Floating(t)
  <2>2. /\ held \in {"rax", "xmm0"} /\ known \in BOOLEAN /\ (known => held = Register(t))
        /\ place \in Places
    BY DEF Register, Floating, Places
  <2>3. Known(Tree(t, place, held, t, FALSE, known))
    BY <2>1
  <2> HIDE DEF t, held, known
  <2> QED
    BY <1>2, <1>4, <2>2, <2>3, VariableStep
<1> QED
  BY <1>5, <1>6

\* The declaration that begins after another starts as the first did.
LEMMA InitPrimed == Init' => IInv'
  BY InitInvariant, PTL

\* With nothing read the invariant holds.
LEMMA BothInit == Start => BothInv
<1> SUFFICES ASSUME Start PROVE BothInv
  OBVIOUS
<1>1. IInv /\ Idle
  BY InitInvariant DEF Start, Idle
<1>2. operands = << >> /\ made = << >> /\ phase = "parsing"
  BY DEF Start, ExprInit
<1>3. TreesInv
  BY <1>2 DEF TreesInv, OperandsInOrder
<1> QED
  BY <1>1, <1>2, <1>3 DEF BothInv

\* Every step keeps it, of the declaration or of the expression.
LEMMA BothStep ==
  ASSUME BothInv, [DeclaredNext]_<<vars, treeVars>>
  PROVE  BothInv'
<1>1. CASE Word
  <2>1. operands = << >> /\ UNCHANGED treeVars /\ Next
    BY <1>1 DEF Word
  <2>2. IInv'
    BY <2>1, StepInvariant DEF BothInv
  <2>3. TreesInv' = TreesInv /\ operands' = << >> /\ phase' = phase
    BY <2>1 DEF TreesInv, OperandsInOrder, Trees, Difference, Structures, Left, Top, treeVars
  <2> QED
    BY <2>1, <2>2, <2>3 DEF BothInv
<1>2. CASE Declare
  <2>1. Init'
    BY <1>2 DEF Declare, Return, Init
  <2> QED
    BY <1>2, <2>1, InitPrimed, DeclareStep DEF BothInv, Idle
<1>3. CASE Express
  <2>1. Idle /\ ExprNext /\ UNCHANGED vars
    BY <1>3 DEF Express
  <2>2. Idle'
    BY <2>1 DEF Idle, Init, vars
  <2> QED
    BY <2>1, <2>2, InitPrimed, ExpressionStep DEF BothInv, Idle
<1>4. CASE UNCHANGED <<vars, treeVars>>
  <2>1. IInv'
    BY <1>4, StepInvariant DEF BothInv
  <2>2. TreesInv' = TreesInv /\ operands' = operands /\ phase' = phase /\ Idle' = Idle
    BY <1>4 DEF TreesInv, OperandsInOrder, Trees, Difference, Structures, Left, Top, treeVars,
                Idle, Init, vars
  <2> QED
    BY <2>1, <2>2 DEF BothInv
<1> QED
  BY <1>1, <1>2, <1>3, <1>4 DEF DeclaredNext

-----------------------------------------------------------------------------
(* What holds of every expression                                          *)

\* The declaration's invariant and that of the trees hold together.
THEOREM TreesInvariant == DeclaredSpec => []BothInv
  BY BothInit, BothStep, PTL DEF DeclaredSpec

\* ast_result_type and the checks of the parser: of every tree, however it was made, the type
\* is C's or of the same class and no narrower, and nothing is refused but what is listed.
THEOREM TypesRight == DeclaredSpec => []TypesAsInC
<1>1. BothInv => TypesAsInC
  <2> SUFFICES ASSUME BothInv PROVE TypesAsInC
    OBVIOUS
  <2>1. \A e \in Trees : e \in SoundTrees
    BY LenProperties DEF BothInv, TreesInv, Trees
  <2>2. \A e \in Trees : e.known => Serves(e.type, e.meant)
    BY <2>1 DEF SoundTrees, Sound
  <2> QED
    BY <2>2 DEF BothInv, TreesInv, TypesAsInC, Serves
<1> QED
  BY <1>1, TreesInvariant, PTL

\* gen_load, gen_save, gen_cast_int, gen_cast_float: a value is looked for in the register it
\* was left in, in code for expressions of any size.
THEOREM ValuesHeld == DeclaredSpec => []HeldAsTyped
<1>1. BothInv => HeldAsTyped
  <2> SUFFICES ASSUME BothInv PROVE HeldAsTyped
    OBVIOUS
  <2>1. \A e \in Trees : e \in SoundTrees
    BY LenProperties DEF BothInv, TreesInv, Trees
  <2> QED
    BY <2>1 DEF HeldAsTyped, SoundTrees, Sound
<1> QED
  BY <1>1, TreesInvariant, PTL

\* ast_new_binary exchanges operands only where C lets it, and gen_pointer_arithmetic takes the
\* size from the pointer, whatever the types of the operands.
THEOREM OperandsRight == DeclaredSpec => []OperandsInOrder
<1>1. BothInv => OperandsInOrder
  BY DEF BothInv, TreesInv
<1> QED
  BY <1>1, TreesInvariant, PTL
=============================================================================
