---------------------------- MODULE DataLemmas -----------------------------
(***************************************************************************)
(* What the proofs need of sequences and numbers, whatever the component:  *)
(* pushing on and popping from the end of a sequence, the way list_push,   *)
(* list_pop and the C stack are modelled here; the least and the greatest  *)
(* element of a set of numbers; and loops, modelled as functions that are  *)
(* defined by recursion on the number of rounds.                           *)
(***************************************************************************)
EXTENDS Integers, Sequences, FiniteSets, SequenceTheorems, FiniteSetTheorems, TLAPS

\* The two cases of a positive length.
LEMMA OneOrMore == \A n \in Nat : n > 0 => n = 1 \/ n > 1
  OBVIOUS

\* Popping takes the last element and leaves the others where they are.
LEMMA Popped ==
  ASSUME NEW S, NEW s \in Seq(S), s # << >>,
         NEW p, p = SubSeq(s, 1, Len(s) - 1)
  PROVE  /\ Len(s) \in Nat /\ Len(s) > 0
         /\ s[Len(s)] \in S
         /\ p \in Seq(S)
         /\ Len(p) = Len(s) - 1
         /\ \A i \in 1..(Len(s) - 1) : p[i] = s[i]
<1>1. Len(s) \in Nat /\ Len(s) > 0
  BY EmptySeq, LenProperties
<1>2. \A i \in 1..(Len(s) - 1) : s[i] \in S
  BY <1>1, LenProperties
<1>3. /\ p \in Seq(S)
      /\ Len(p) = IF 1 <= Len(s) - 1 THEN Len(s) - 1 - 1 + 1 ELSE 0
      /\ \A i \in 1..(Len(s) - 1 - 1 + 1) : p[i] = s[1 + i - 1]
  BY <1>1, <1>2, SubSeqProperties
<1>4. s[Len(s)] \in S
  BY <1>1, LenProperties
<1>5. Len(p) = Len(s) - 1
  <2>1. CASE Len(s) = 1
    <3>1. ~(1 <= Len(s) - 1)
      BY <2>1
    <3>2. Len(p) = 0
      BY <1>3, <3>1, Zenon
    <3> QED
      BY <2>1, <3>2
  <2>2. CASE Len(s) > 1
    <3>1. 1 <= Len(s) - 1
      BY <1>1, <2>2
    <3>2. Len(s) - 1 - 1 + 1 = Len(s) - 1
      BY <1>1
    <3>3. Len(p) = Len(s) - 1 - 1 + 1
      BY <1>3, <3>1, Zenon
    <3> QED
      BY <3>2, <3>3, Zenon
  <2>3. Len(s) = 1 \/ Len(s) > 1
    BY <1>1, OneOrMore, Zenon
  <2> QED
    BY <2>1, <2>2, <2>3, Zenon
<1>6. \A i \in 1..(Len(s) - 1) : p[i] = s[i]
  BY <1>1, <1>3
<1> QED
  BY <1>1, <1>3, <1>4, <1>5, <1>6

\* Pushing puts an element last and leaves the others where they are.
LEMMA Pushed ==
  ASSUME NEW S, NEW s \in Seq(S), NEW e \in S, NEW p, p = Append(s, e)
  PROVE  /\ Len(s) \in Nat
         /\ p \in Seq(S)
         /\ Len(p) = Len(s) + 1
         /\ p[Len(p)] = e
         /\ \A i \in 1..Len(s) : p[i] = s[i]
         /\ \A i \in 1..Len(p) : i \in 1..Len(s) \/ i = Len(p)
  BY AppendProperties

-----------------------------------------------------------------------------
(* Least and greatest elements.  The first is induction on the naturals,   *)
(* about a set and not a predicate: a set of counterexamples has a least.  *)

\* Initial segments of the naturals are finite, and so well-founded under inclusion.
LEMMA LeastNat ==
  ASSUME NEW T \in SUBSET Nat, T # {}
  PROVE  \E x \in T : \A y \in T : x <= y
<1> DEFINE S == {1..x : x \in T}
<1>1. \A x \in T : IsFiniteSet(1..x) /\ 1..x \subseteq Nat
  BY FS_Interval
<1>2. S \subseteq FiniteSubsetsOf(Nat) /\ S # {}
  BY <1>1 DEF FiniteSubsetsOf
<1> HIDE DEF S
<1>3. PICK s \in S : \A t \in S : ~(<<t, s>> \in StrictSubsetOrdering(Nat))
  BY <1>2, FS_StrictSubsetOrderingWellFounded, WFMin
<1> USE DEF S
<1>4. PICK x \in T : s = 1..x
  BY <1>3
<1>5. \A y \in T : ~(1..y \subseteq 1..x /\ 1..y # 1..x)
  <2> SUFFICES ASSUME NEW y \in T PROVE ~(1..y \subseteq 1..x /\ 1..y # 1..x)
    OBVIOUS
  <2>1. PICK t : t = 1..y
    OBVIOUS
  <2>2. t \in S
    BY <2>1
  <2>3. ~(<<t, s>> \in StrictSubsetOrdering(Nat))
    BY <1>3, <2>2
  <2>4. t \subseteq Nat /\ s \subseteq Nat
    BY <1>1, <1>4, <2>1
  <2>5. ~(t \subseteq s /\ t # s)
    BY ONLY <2>3, <2>4 DEF StrictSubsetOrdering
  <2> QED
    BY <1>4, <2>1, <2>5
<1>6. ASSUME NEW y \in T, y < x PROVE FALSE
  <2>1. 1..y \subseteq 1..x /\ x \in 1..x /\ x \notin 1..y
    BY <1>6
  <2> QED
    BY <2>1, <1>5
<1> QED
  BY <1>6

\* A bounded set has a greatest element: the one least below the bound.
LEMMA GreatestNat ==
  ASSUME NEW n \in Nat, NEW T \in SUBSET (0..n), T # {}
  PROVE  \E x \in T : \A y \in T : y <= x
<1> DEFINE U == {n - x : x \in T}
<1>1. PICK u \in U : \A v \in U : u <= v
  <2>1. \A x \in T : n - x \in Nat
    OBVIOUS
  <2>2. U \in SUBSET Nat
    BY <2>1
  <2>3. U # {}
    <3>1. PICK x \in T : TRUE
      OBVIOUS
    <3>2. n - x \in U
      BY <3>1
    <3> QED
      BY <3>2
  <2> HIDE DEF U
  <2> QED
    BY <2>2, <2>3, LeastNat
<1>2. PICK x \in T : u = n - x
  BY <1>1
<1>3. \A y \in T : n - y \in U
  OBVIOUS
<1>4. \A y \in T : n - x <= n - y
  BY <1>1, <1>2, <1>3
<1> QED
  BY <1>2, <1>4

\* Induction up to a bound.
LEMMA BoundedInduction ==
  ASSUME NEW n \in Nat, NEW T, 0 \in T, \A i \in 1..n : i - 1 \in T => i \in T
  PROVE  \A i \in 0..n : i \in T
<1> DEFINE U == {i \in 0..n : i \notin T}
<1>1. SUFFICES ASSUME U # {} PROVE FALSE
  OBVIOUS
<1>2. PICK m \in U : \A k \in U : m <= k
  <2>1. U \in SUBSET Nat
    OBVIOUS
  <2> HIDE DEF U
  <2> QED
    BY <1>1, <2>1, LeastNat
<1>3. m \in 1..n /\ m - 1 \in 0..n /\ m - 1 \notin U
  BY <1>2
<1> QED
  BY <1>2, <1>3

-----------------------------------------------------------------------------
(* Loops: rounds[i] is the state after round i, made of the one before.    *)

Stays(S, n, body)       == \A s \in S : \A i \in 1..n : body[<<s, i>>] \in S
Runs(S, start, n, body) == {f \in [0..n -> S] : f[0] = start /\ \A i \in 1..n : f[i] = body[<<f[i - 1], i>>]}

\* A loop has a run of any length, all of it in the set its body stays in.
LEMMA RoundsExist ==
  ASSUME NEW S, NEW start \in S, NEW n \in Nat, NEW body, Stays(S, n, body)
  PROVE  Runs(S, start, n, body) # {}
<1>0. \A s \in S : \A i \in 1..n : body[<<s, i>>] \in S
  BY DEF Stays
<1> DEFINE Run(m) == {f \in [0..m -> S] : f[0] = start /\ \A i \in 1..m : f[i] = body[<<f[i - 1], i>>]}
           T == {m \in 0..n : Run(m) = {}}
<1>1. SUFFICES ASSUME T # {} PROVE FALSE
  <2>1. n \in 0..n
    OBVIOUS
  <2>2. Run(n) # {}
    BY <1>1, <2>1
  <2> QED
    BY <2>2 DEF Runs
<1>2. PICK m \in T : \A k \in T : m <= k
  <2>1. T \in SUBSET Nat
    OBVIOUS
  <2> HIDE DEF T
  <2> QED
    BY <1>1, <2>1, LeastNat
<1>3. m # 0
  <2> DEFINE f == [i \in 0..0 |-> start]
  <2>1. f \in Run(0)
    OBVIOUS
  <2> QED
    BY <1>2, <2>1
<1>4. m - 1 \in 0..n /\ m - 1 \notin T /\ m \in 1..n
  <2>1. m \in 0..n
    BY <1>2
  <2>2. ~(m <= m - 1)
    BY <2>1
  <2> HIDE DEF T
  <2> QED
    BY <1>2, <1>3, <2>1, <2>2
<1>5. PICK g \in [0..(m - 1) -> S] :
        g[0] = start /\ \A i \in 1..(m - 1) : g[i] = body[<<g[i - 1], i>>]
  BY <1>4
<1> DEFINE last == body[<<g[m - 1], m>>]
           f    == [i \in 0..m |-> IF i = m THEN last ELSE g[i]]
<1>6. last \in S
  <2>1. g[m - 1] \in S
    BY <1>4, <1>5
  <2> QED
    BY <1>0, <1>4, <2>1
<1> HIDE DEF last
<1>7. f[m] = last /\ \A i \in 0..(m - 1) : f[i] = g[i] /\ g[i] \in S
  BY <1>4, <1>5
<1>8. f \in [0..m -> S] /\ f[0] = start
  BY <1>4, <1>5, <1>6, <1>7
<1> HIDE DEF f
<1>9. \A i \in 1..m : f[i] = body[<<f[i - 1], i>>]
  <2> SUFFICES ASSUME NEW i \in 1..m PROVE f[i] = body[<<f[i - 1], i>>]
    OBVIOUS
  <2>1. CASE i = m
    <3>1. f[m - 1] = g[m - 1]
      BY <1>4, <1>7
    <3> QED
      BY <2>1, <3>1, <1>7 DEF last
  <2>2. CASE i # m
    <3>1. i \in 1..(m - 1) /\ i \in 0..(m - 1) /\ i - 1 \in 0..(m - 1)
      BY <1>4, <2>2
    <3>2. g[i] = body[<<g[i - 1], i>>]
      BY <1>5, <3>1
    <3>3. f[i] = g[i] /\ f[i - 1] = g[i - 1]
      BY <1>7, <3>1
    <3> QED
      BY <3>2, <3>3
  <2> QED
    BY <2>1, <2>2
<1>10. f \in Run(m)
  BY <1>8, <1>9
<1> QED
  BY <1>2, <1>10
=============================================================================
