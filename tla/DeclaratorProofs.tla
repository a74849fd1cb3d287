--------------------------- MODULE DeclaratorProofs --------------------------
(***************************************************************************)
(* Declarators of any length, with any number of them.  A type is read by  *)
(* walking along the cells: MeansC and SizesRight follow from the walks    *)
(* that parse_declarator_direct has made so far, StaticAsDeclared from     *)
(* which cells a declarator has made for itself.                           *)
(***************************************************************************)
EXTENDS Declarator, DataLemmas

Kinds    == {"int", "array", "function", "pointer", "stub"}
CellType == [kind : Kinds, to : Nat, length : Nat, size : Nat, isstatic : BOOLEAN]
PartType == [is : Kinds, length : Nat]

\* What a cell says of the type, and two cells that say the same of it.
Part(c)    == Means(c.kind, c.length)
Same(c, e) == c.kind = e.kind /\ c.to = e.to /\ c.length = e.length

\* A walk from x to y along the cells of h, with what the cells say on the way but for y.
Walk(h, p, x, d, y) ==
  /\ p[1] = x /\ p[Len(d) + 1] = y
  /\ \A j \in 1..Len(d) : d[j] = Part(h[p[j]]) /\ h[p[j]].to = p[j + 1]

Leads(h, x, d, y) == \E p \in [1..(Len(d) + 1) -> 1..Len(h)] : Walk(h, p, x, d, y)

-----------------------------------------------------------------------------
(* Walks                                                                   *)

\* Nobody has walked yet.
LEMMA LeadsNowhere ==
  ASSUME NEW h, NEW x \in 1..Len(h)
  PROVE  Leads(h, x, << >>, x)
<1> DEFINE p == [i \in 1..1 |-> x]
<1>1. Len(<< >>) = 0 /\ Len(<< >>) + 1 = 1
  OBVIOUS
<1>2. p \in [1..1 -> 1..Len(h)] /\ p[1] = x
  OBVIOUS
<1>3. Walk(h, p, x, << >>, x)
  BY <1>1, <1>2 DEF Walk
<1> QED
  BY <1>1, <1>2, <1>3 DEF Leads

\* Without a derivation on the way the walk ends where it began.
LEMMA NowhereLeads ==
  ASSUME NEW h, NEW x, NEW y, Leads(h, x, << >>, y)
  PROVE  x = y
<1>1. Len(<< >>) + 1 = 1
  OBVIOUS
<1> QED
  BY <1>1 DEF Leads, Walk

\* The ends of a walk are cells.
LEMMA WalkEnds ==
  ASSUME NEW h, NEW d, Len(d) \in Nat, NEW x, NEW y, Leads(h, x, d, y)
  PROVE  x \in 1..Len(h) /\ y \in 1..Len(h)
<1>1. PICK p \in [1..(Len(d) + 1) -> 1..Len(h)] : Walk(h, p, x, d, y)
  BY DEF Leads
<1>2. p[1] \in 1..Len(h) /\ p[Len(d) + 1] \in 1..Len(h)
  BY <1>1
<1> QED
  BY <1>1, <1>2 DEF Walk

\* The step from a cell to the one it refers to.
LEMMA OneStep ==
  ASSUME NEW h, NEW x \in 1..Len(h), NEW y \in 1..Len(h), h[x].to = y
  PROVE  Leads(h, x, <<Part(h[x])>>, y)
<1> DEFINE d == <<Part(h[x])>>
           p == [i \in 1..2 |-> IF i = 1 THEN x ELSE y]
<1>1. Len(d) = 1 /\ Len(d) + 1 = 2 /\ d[1] = Part(h[x])
  OBVIOUS
<1>2. p \in [1..2 -> 1..Len(h)] /\ p[1] = x /\ p[2] = y
  OBVIOUS
<1> HIDE DEF d, p
<1>3. Walk(h, p, x, d, y)
  <2>1. \A j \in 1..Len(d) : j = 1 /\ j + 1 = 2
    BY <1>1
  <2>2. d[1] = Part(h[p[1]]) /\ h[p[1]].to = p[2]
    BY <1>1, <1>2
  <2> QED
    BY <1>1, <1>2, <2>1, <2>2 DEF Walk
<1>4. Leads(h, x, d, y)
  BY <1>1, <1>2, <1>3 DEF Leads
<1> QED
  BY <1>4 DEF d

\* One walk after the other.
LEMMA Joined ==
  ASSUME NEW h, NEW S, NEW d \in Seq(S), NEW e \in Seq(S), NEW x, NEW y, NEW z,
         Leads(h, x, d, y), Leads(h, y, e, z), NEW f, f = d \o e
  PROVE  f \in Seq(S) /\ Leads(h, x, f, z)
<1>1. /\ f \in Seq(S) /\ Len(f) = Len(d) + Len(e)
      /\ \A i \in 1..Len(d) + Len(e) : f[i] = IF i <= Len(d) THEN d[i] ELSE e[i - Len(d)]
  BY ConcatProperties
<1>2. PICK p \in [1..(Len(d) + 1) -> 1..Len(h)] : Walk(h, p, x, d, y)
  BY DEF Leads
<1>3. PICK q \in [1..(Len(e) + 1) -> 1..Len(h)] : Walk(h, q, y, e, z)
  BY DEF Leads
<1>4. PICK m \in Nat : m = Len(d)
  BY LenProperties
<1>5. PICK n \in Nat : n = Len(e)
  BY LenProperties
<1> DEFINE r == [i \in 1..(m + n + 1) |-> IF i <= m THEN p[i] ELSE q[i - m]]
<1>6. p[1] = x /\ p[m + 1] = y /\ \A j \in 1..m : d[j] = Part(h[p[j]]) /\ h[p[j]].to = p[j + 1]
  BY <1>2, <1>4 DEF Walk
<1>7. q[1] = y /\ q[n + 1] = z /\ \A j \in 1..n : e[j] = Part(h[q[j]]) /\ h[q[j]].to = q[j + 1]
  BY <1>3, <1>5 DEF Walk
<1>8. p \in [1..(m + 1) -> 1..Len(h)] /\ q \in [1..(n + 1) -> 1..Len(h)]
  BY <1>2, <1>3, <1>4, <1>5
<1>9. Len(f) = m + n /\ \A i \in 1..(m + n) : f[i] = IF i <= m THEN d[i] ELSE e[i - m]
  BY <1>1, <1>4, <1>5
<1>10. r \in [1..(m + n + 1) -> 1..Len(h)]
  BY ONLY <1>8, m \in Nat, n \in Nat
<1>11. \A i \in 1..m : r[i] = p[i]
  OBVIOUS
<1>12. \A i \in (m + 1)..(m + n + 1) : r[i] = q[i - m]
  OBVIOUS
<1>13. r[m + 1] = y
  BY <1>7, <1>12
<1> HIDE DEF r
<1>14. r[1] = x
  <2>1. CASE m = 0
    BY <2>1, <1>6, <1>13
  <2>2. CASE m > 0
    BY <2>2, <1>6, <1>11
  <2> QED
    BY <2>1, <2>2
<1>15. r[m + n + 1] = z
  <2>1. m + n + 1 \in (m + 1)..(m + n + 1) /\ (m + n + 1) - m = n + 1
    OBVIOUS
  <2> QED
    BY <2>1, <1>7, <1>12
<1>16. \A j \in 1..(m + n) : f[j] = Part(h[r[j]]) /\ h[r[j]].to = r[j + 1]
  <2> SUFFICES ASSUME NEW j \in 1..(m + n) PROVE f[j] = Part(h[r[j]]) /\ h[r[j]].to = r[j + 1]
    OBVIOUS
  <2>1. CASE j <= m
    <3>1. j \in 1..m /\ r[j] = p[j] /\ f[j] = d[j]
      BY <2>1, <1>9, <1>11
    <3>2. r[j + 1] = p[j + 1]
      <4>1. CASE j = m
        BY <4>1, <1>6, <1>13
      <4>2. CASE j < m
        BY <4>2, <1>11
      <4> QED
        BY <4>1, <4>2, <2>1
    <3> QED
      BY <3>1, <3>2, <1>6
  <2>2. CASE j > m
    <3>1. j - m \in 1..n /\ j \in (m + 1)..(m + n + 1) /\ j + 1 \in (m + 1)..(m + n + 1)
      BY <2>2
    <3>2. r[j] = q[j - m] /\ r[j + 1] = q[(j + 1) - m] /\ (j + 1) - m = (j - m) + 1
      BY <3>1, <1>12
    <3>3. f[j] = e[j - m]
      BY <2>2, <1>9
    <3> QED
      BY <3>1, <3>2, <3>3, <1>7
  <2>3. j <= m \/ j > m
    OBVIOUS
  <2> QED
    BY <2>1, <2>2, <2>3, Zenon
<1>17. Walk(h, r, x, f, z)
  BY ONLY <1>9, <1>14, <1>15, <1>16 DEF Walk
<1>18. Leads(h, x, f, z)
  BY ONLY <1>9, <1>10, <1>17 DEF Leads
<1> QED
  BY <1>1, <1>18

\* A walk with a derivation on the way begins with a step.
LEMMA FirstStep ==
  ASSUME NEW h, NEW S, NEW d \in Seq(S), d # << >>, NEW x, NEW y, Leads(h, x, d, y)
  PROVE  /\ x \in 1..Len(h) /\ h[x].to \in 1..Len(h)
         /\ d[1] = Part(h[x])
         /\ Leads(h, h[x].to, Tail(d), y)
<1>1. PICK t : t = Tail(d)
  OBVIOUS
<1>2. PICK n \in Nat : Len(d) = n + 1
  <2>1. Len(d) \in Nat \ {0}
    BY EmptySeq
  <2>2. Len(d) - 1 \in Nat /\ Len(d) = (Len(d) - 1) + 1
    BY <2>1
  <2> QED
    BY <2>2
<1>3. Len(t) = n /\ \A i \in 1..n : t[i] = d[i + 1]
  BY <1>1, <1>2, HeadTailProperties
<1>4. PICK p \in [1..((n + 1) + 1) -> 1..Len(h)] : Walk(h, p, x, d, y)
  BY <1>2 DEF Leads
<1>5. /\ p[1] = x /\ p[(n + 1) + 1] = y
      /\ \A j \in 1..(n + 1) : d[j] = Part(h[p[j]]) /\ h[p[j]].to = p[j + 1]
  BY <1>2, <1>4 DEF Walk
<1>6. x \in 1..Len(h) /\ d[1] = Part(h[x]) /\ h[x].to = p[2] /\ p[2] \in 1..Len(h)
  BY <1>4, <1>5
<1> DEFINE q == [i \in 1..(n + 1) |-> p[i + 1]]
<1>7. q \in [1..(n + 1) -> 1..Len(h)] /\ q[1] = h[x].to /\ q[n + 1] = y
  BY <1>4, <1>5, <1>6
<1>8. \A j \in 1..n : t[j] = Part(h[q[j]]) /\ h[q[j]].to = q[j + 1]
  <2> SUFFICES ASSUME NEW j \in 1..n PROVE t[j] = Part(h[q[j]]) /\ h[q[j]].to = q[j + 1]
    OBVIOUS
  <2>1. q[j] = p[j + 1] /\ q[j + 1] = p[(j + 1) + 1] /\ j + 1 \in 1..(n + 1)
    OBVIOUS
  <2> HIDE DEF q
  <2> QED
    BY <2>1, <1>3, <1>5
<1> HIDE DEF q
<1>9. Walk(h, q, h[x].to, t, y)
  BY <1>3, <1>7, <1>8 DEF Walk
<1>10. Leads(h, h[x].to, t, y)
  BY <1>3, <1>7, <1>9 DEF Leads
<1> QED
  BY <1>1, <1>6, <1>10

-----------------------------------------------------------------------------
(* What becomes of a walk                                                  *)

\* All cells are there still, and all but the stubs say the same.
Keeps(h, g) ==
  /\ Len(h) \in Nat /\ Len(g) \in Nat /\ Len(h) <= Len(g)
  /\ \A i \in 1..Len(h) : h[i].to # 0 => Same(g[i], h[i])

\* A walk goes through no stub before its end, so it can still be made.
LEMMA WalkKept ==
  ASSUME NEW h, NEW g, Keeps(h, g), NEW d, Len(d) \in Nat, NEW x, NEW y, Leads(h, x, d, y)
  PROVE  Leads(g, x, d, y)
<1>1. PICK p \in [1..(Len(d) + 1) -> 1..Len(h)] : Walk(h, p, x, d, y)
  BY DEF Leads
<1>2. p \in [1..(Len(d) + 1) -> 1..Len(g)]
  BY <1>1 DEF Keeps
<1>3. \A j \in 1..Len(d) : d[j] = Part(g[p[j]]) /\ g[p[j]].to = p[j + 1]
  <2> SUFFICES ASSUME NEW j \in 1..Len(d) PROVE d[j] = Part(g[p[j]]) /\ g[p[j]].to = p[j + 1]
    OBVIOUS
  <2>1. p[j] \in 1..Len(h) /\ p[j + 1] \in 1..Len(h)
    BY <1>1
  <2>2. d[j] = Part(h[p[j]]) /\ h[p[j]].to = p[j + 1]
    BY <1>1 DEF Walk
  <2>3. h[p[j]].to # 0
    BY <2>1, <2>2
  <2>4. Same(g[p[j]], h[p[j]])
    BY <2>1, <2>3 DEF Keeps
  <2> QED
    BY <2>2, <2>4 DEF Same, Part
<1>4. Walk(g, p, x, d, y)
  BY <1>1, <1>3 DEF Walk
<1> QED
  BY <1>2, <1>4 DEF Leads

-----------------------------------------------------------------------------
(* The heap, the calls and the declarators so far                          *)

CallType == [is : {"*", "("}, stub : Nat, basetype : Nat]
DeclType == [type : Nat, base : Nat, static : BOOLEAN, derived : Seq(PartType)]

\* A cell that can stand in a heap of n cells.
CellOK(n, c) ==
  /\ c \in CellType
  /\ c.to \in 0..n
  /\ c.to = 0 <=> c.kind \in {"int", "stub"}
  /\ c.kind = "int" => c.size = IntSize
  /\ c.kind = "pointer" => c.size = PointerSize
  /\ c.kind = "function" => c.size = 0

\* The first two cells are those of the typedef.
Formed(h) ==
  /\ h \in Seq(CellType) /\ Len(h) >= 2
  /\ \A x \in 1..Len(h) : CellOK(Len(h), h[x])
  /\ h[1].kind = "int" /\ h[2].kind \in {"array", "function"} /\ h[2].to = 1

BaseOK(h, b) == b = 2 \/ (b \in 1..Len(h) /\ h[b].kind = "int")

\* What call k is given for a basetype: the base, or the stub of the call around it.
Outer(b, cs, k) == IF k = 1 THEN b ELSE cs[k - 1].stub

\* Every call in progress has a stub of its own, and nothing is in it.
CallsOK(h, b, cs) ==
  /\ cs \in Seq(CallType)
  /\ \A k \in 1..Len(cs) :
       cs[k].stub \in 1..Len(h) /\ h[cs[k].stub].kind = "stub" /\ cs[k].basetype = Outer(b, cs, k)
  /\ \A j, k \in 1..Len(cs) : cs[j].stub = cs[k].stub => j = k

DeclsOK(h, ds) ==
  /\ ds \in Seq(DeclType)
  /\ \A k \in 1..Len(ds) : ds[k].type \in 1..Len(h) /\ BaseOK(h, ds[k].base)

\* More cells, or some of the stubs filled.
Grown(h, g) ==
  /\ Len(h) \in Nat /\ Len(g) \in Nat /\ Len(h) <= Len(g)
  /\ \A i \in 1..Len(h) : h[i].kind # "stub" => g[i] = h[i]

\* The two ways the parser makes a heap of another, by their names: g has a cell more,
\* or something in a stub.
Adds(h, c, g)     == g = Append(h, c)
Fills(h, s, c, g) == g = [h EXCEPT ![s] = c]

\* And what they come to.
Added(h, c, g)     == /\ Len(h) \in Nat /\ Len(g) = Len(h) + 1 /\ g[Len(h) + 1] = c
                      /\ \A i \in 1..Len(h) : g[i] = h[i]
Filled(h, s, c, g) == /\ Len(h) \in Nat /\ Len(g) = Len(h) /\ g[s] = c
                      /\ \A i \in 1..Len(h) : i # s => g[i] = h[i]

\* What fits in a heap fits in a greater one.
LEMMA CellFits ==
  ASSUME NEW n \in Nat, NEW c, CellOK(n, c)
  PROVE  CellOK(n + 1, c)
<1>1. \A a \in 0..n : a \in 0..(n + 1)
  OBVIOUS
<1> QED
  BY <1>1, Zenon DEF CellOK

\* One more cell.
LEMMA CellAdded ==
  ASSUME NEW h, Formed(h), NEW c, CellOK(Len(h), c), NEW g, Adds(h, c, g)
  PROVE  Formed(g) /\ Added(h, c, g)
<1>1. /\ g \in Seq(CellType) /\ Len(h) \in Nat /\ Len(g) = Len(h) + 1 /\ g[Len(h) + 1] = c
      /\ \A i \in 1..Len(h) : g[i] = h[i]
  BY AppendProperties, LenProperties DEF Formed, CellOK, Adds
<1>2. PICK n \in Nat : n = Len(h)
  BY <1>1
<1>3. n >= 2 /\ h[1].kind = "int" /\ h[2].kind \in {"array", "function"} /\ h[2].to = 1
  BY <1>2 DEF Formed
<1>4. g[1] = h[1] /\ g[2] = h[2]
  BY <1>1, <1>2, <1>3
<1>5. \A x \in 1..(n + 1) : CellOK(n + 1, g[x])
  <2> SUFFICES ASSUME NEW x \in 1..(n + 1) PROVE CellOK(n + 1, g[x])
    OBVIOUS
  <2>1. CellOK(n, g[x])
    <3>1. CASE x = n + 1
      BY <3>1, <1>1, <1>2
    <3>2. CASE x \in 1..n
      BY <3>2, <1>1, <1>2 DEF Formed
    <3>3. x = n + 1 \/ x \in 1..n
      OBVIOUS
    <3> QED
      BY <3>1, <3>2, <3>3, Zenon
  <2> QED
    BY <1>2, <2>1, CellFits, Zenon
<1>6. Added(h, c, g)
  BY <1>1 DEF Added
<1> QED
  BY <1>1, <1>2, <1>3, <1>4, <1>5, <1>6 DEF Formed

\* A stub filled.
LEMMA CellFilled ==
  ASSUME NEW h, Formed(h), NEW s \in 1..Len(h), h[s].kind = "stub",
         NEW c, CellOK(Len(h), c), NEW g, Fills(h, s, c, g)
  PROVE  Formed(g) /\ Filled(h, s, c, g)
<1>1. /\ g \in Seq(CellType) /\ Len(h) \in Nat /\ Len(g) = Len(h) /\ g[s] = c
      /\ \A i \in 1..Len(h) : i # s => g[i] = h[i]
  BY ExceptSeq, LenProperties DEF Formed, CellOK, Fills
<1>2. Len(h) >= 2 /\ h[1].kind = "int" /\ h[2].kind \in {"array", "function"} /\ h[2].to = 1
  BY DEF Formed
<1>3. 1 \in 1..Len(h) /\ 2 \in 1..Len(h) /\ s # 1 /\ s # 2
  BY <1>1, <1>2
<1>4. g[1] = h[1] /\ g[2] = h[2]
  BY <1>1, <1>3
<1>5. \A x \in 1..Len(h) : CellOK(Len(h), g[x])
  BY <1>1 DEF Formed
<1>6. Filled(h, s, c, g)
  BY <1>1 DEF Filled
<1> QED
  BY <1>1, <1>2, <1>4, <1>5, <1>6 DEF Formed

\* A cell is read along the way it was made.
LEMMA CellRead ==
  ASSUME NEW h, Formed(h), NEW x \in 1..Len(h)
  PROVE  /\ Len(h) \in Nat /\ CellOK(Len(h), h[x])
         /\ h[x].kind \in Kinds /\ h[x].length \in Nat /\ h[x].size \in Nat /\ h[x].to \in 0..Len(h)
         /\ h[x].isstatic \in BOOLEAN
         /\ Part(h[x]) \in PartType
<1>1. Len(h) \in Nat /\ CellOK(Len(h), h[x])
  BY LenProperties DEF Formed
<1>2. h[x] \in CellType
  BY <1>1 DEF CellOK
<1> QED
  BY <1>1, <1>2 DEF CellOK, CellType, Part, Means, PartType

\* A cell that is no stub stays what it is.
LEMMA GrownKeeps ==
  ASSUME NEW h, NEW g, Formed(h), Grown(h, g)
  PROVE  Keeps(h, g)
<1> SUFFICES ASSUME NEW i \in 1..Len(h), h[i].to # 0 PROVE Same(g[i], h[i])
  BY DEF Grown, Keeps
<1>1. CellOK(Len(h), h[i])
  BY CellRead
<1>2. h[i].kind # "stub"
  BY <1>1 DEF CellOK
<1> QED
  BY <1>2 DEF Grown, Same

\* A base is no stub, and stays a base.
LEMMA BaseKept ==
  ASSUME NEW h, NEW g, Formed(h), NEW b, BaseOK(h, b),
         Len(g) \in Nat, Len(h) <= Len(g),
         \A i \in 1..Len(h) : h[i].kind # "stub" => g[i].kind = h[i].kind
  PROVE  b \in 1..Len(h) /\ h[b].kind # "stub" /\ BaseOK(g, b)
<1>1. Len(h) \in Nat /\ Len(h) >= 2 /\ h[2].kind # "stub"
  BY LenProperties DEF Formed
<1> QED
  BY <1>1 DEF BaseOK

\* What was declared stays declared when cells that are not stubs keep their kinds.
LEMMA DeclsKept ==
  ASSUME NEW h, NEW g, Formed(h), NEW ds, DeclsOK(h, ds),
         Len(g) \in Nat, Len(h) <= Len(g),
         \A i \in 1..Len(h) : h[i].kind # "stub" => g[i].kind = h[i].kind
  PROVE  DeclsOK(g, ds)
<1>1. \A k \in 1..Len(ds) : BaseOK(g, ds[k].base)
  BY BaseKept DEF DeclsOK
<1>2. Len(h) \in Nat
  BY LenProperties DEF Formed
<1> QED
  BY <1>1, <1>2 DEF DeclsOK

\* The calls in progress stay as they were when the cells keep their kinds.
LEMMA CallsKept ==
  ASSUME NEW h, NEW g, Len(h) \in Nat, NEW b, NEW cs, CallsOK(h, b, cs),
         Len(g) \in Nat, Len(h) <= Len(g),
         \A i \in 1..Len(h) : g[i].kind = h[i].kind
  PROVE  CallsOK(g, b, cs)
  BY DEF CallsOK

\* The basetype of the innermost call is a cell.
LEMMA InnermostIsCell ==
  ASSUME NEW h, Formed(h), NEW b, BaseOK(h, b), NEW cs, CallsOK(h, b, cs)
  PROVE  /\ Len(cs) \in Nat
         /\ \A k \in 1..(Len(cs) + 1) : Outer(b, cs, k) \in 1..Len(h)
<1>1. Len(cs) \in Nat /\ Len(h) \in Nat /\ Len(h) >= 2
  BY LenProperties DEF CallsOK, Formed
<1>2. b \in 1..Len(h)
  BY <1>1 DEF BaseOK
<1> SUFFICES ASSUME NEW k \in 1..(Len(cs) + 1) PROVE Outer(b, cs, k) \in 1..Len(h)
  BY <1>1
<1>3. CASE k = 1
  BY <1>2, <1>3 DEF Outer
<1>4. CASE k # 1
  <2>1. k - 1 \in 1..Len(cs)
    BY <1>1, <1>4
  <2>2. cs[k - 1].stub \in 1..Len(h)
    BY <2>1 DEF CallsOK
  <2> QED
    BY <1>4, <2>2 DEF Outer
<1> QED
  BY <1>3, <1>4

\* A call begins on a heap of n cells; a call ends.
Begins(b, cs, n, is, ds) ==
  ds = Append(cs, [is |-> is, stub |-> n + 1, basetype |-> Outer(b, cs, Len(cs) + 1)])
Returns(cs, ds) == ds = Front(cs)

\* A call begins, with the stub of the one around it for a basetype.
LEMMA CallPushed ==
  ASSUME NEW h, Formed(h), NEW b, BaseOK(h, b), NEW cs, CallsOK(h, b, cs),
         NEW g, Adds(h, ast_type_stub, g), NEW is \in {"*", "("},
         NEW ds, Begins(b, cs, Len(h), is, ds)
  PROVE  CallsOK(g, b, ds) /\ Outer(b, ds, Len(ds) + 1) = Len(h) + 1 /\ ds # << >>
<1>1. CellOK(Len(h), ast_type_stub) /\ ast_type_stub.kind = "stub"
  BY LenProperties DEF CellOK, ast_type_stub, Cell, CellType, Kinds, Formed
<1>2. /\ Formed(g) /\ Len(h) \in Nat /\ Len(g) = Len(h) + 1 /\ g[Len(h) + 1] = ast_type_stub
      /\ \A i \in 1..Len(h) : g[i] = h[i]
  BY <1>1, CellAdded DEF Added
<1>3. PICK n \in Nat : n = Len(cs)
  BY LenProperties DEF CallsOK
<1>4. PICK m \in Nat : m = Len(h)
  BY <1>2
<1>5. PICK e : e = [is |-> is, stub |-> m + 1, basetype |-> Outer(b, cs, n + 1)]
  OBVIOUS
<1>6. e \in CallType /\ e.stub = m + 1 /\ e.basetype = Outer(b, cs, n + 1)
  <2>1. Outer(b, cs, n + 1) \in 1..m
    BY <1>3, <1>4, InnermostIsCell
  <2> QED
    BY <1>5, <2>1 DEF CallType
<1>7. cs \in Seq(CallType) /\ ds = Append(cs, e)
  BY <1>3, <1>4, <1>5 DEF CallsOK, Begins
<1>8. /\ ds \in Seq(CallType) /\ ds # << >> /\ Len(ds) = n + 1
      /\ \A i \in 1..n : ds[i] = cs[i]
      /\ ds[n + 1] = e
  BY <1>3, <1>6, <1>7, AppendProperties
<1>9. \A k \in 1..(n + 1) : Outer(b, ds, k) = Outer(b, cs, k)
  BY <1>8 DEF Outer
<1>10. \A k \in 1..n : cs[k].stub \in 1..m /\ h[cs[k].stub].kind = "stub" /\ cs[k].basetype = Outer(b, cs, k)
  BY <1>3, <1>4 DEF CallsOK
<1>11. \A k \in 1..(n + 1) :
         ds[k].stub \in 1..Len(g) /\ g[ds[k].stub].kind = "stub" /\ ds[k].basetype = Outer(b, ds, k)
  <2> SUFFICES ASSUME NEW k \in 1..(n + 1)
               PROVE ds[k].stub \in 1..Len(g) /\ g[ds[k].stub].kind = "stub"
                     /\ ds[k].basetype = Outer(b, ds, k)
    OBVIOUS
  <2>1. CASE k = n + 1
    BY <2>1, <1>1, <1>2, <1>4, <1>6, <1>8, <1>9
  <2>2. CASE k \in 1..n
    <3>1. ds[k] = cs[k] /\ Outer(b, ds, k) = Outer(b, cs, k)
      BY <2>2, <1>8, <1>9
    <3>2. cs[k].stub \in 1..m /\ h[cs[k].stub].kind = "stub" /\ cs[k].basetype = Outer(b, cs, k)
      BY <2>2, <1>10
    <3>3. cs[k].stub \in 1..Len(g) /\ g[cs[k].stub] = h[cs[k].stub]
      BY <3>2, <1>2, <1>4
    <3> QED
      BY <3>1, <3>2, <3>3
  <2>3. k = n + 1 \/ k \in 1..n
    OBVIOUS
  <2> QED
    BY <2>1, <2>2, <2>3, Zenon
<1>12. \A j, k \in 1..(n + 1) : ds[j].stub = ds[k].stub => j = k
  <2> SUFFICES ASSUME NEW j \in 1..(n + 1), NEW k \in 1..(n + 1), ds[j].stub = ds[k].stub PROVE j = k
    OBVIOUS
  <2>1. \A i \in 1..n : ds[i].stub \in 1..m
    BY <1>8, <1>10
  <2>2. CASE j \in 1..n /\ k \in 1..n
    BY <2>2, <1>3, <1>8 DEF CallsOK
  <2> QED
    BY <2>1, <2>2, <1>6, <1>8
<1>13. Outer(b, ds, Len(ds) + 1) = m + 1
  BY <1>6, <1>8 DEF Outer
<1> QED
  BY <1>4, <1>8, <1>11, <1>12, <1>13 DEF CallsOK

\* A call ends, and its stub is filled.
Over(h, b, cs, c, g, ds) ==
  /\ Len(h) \in Nat /\ CallsOK(h, b, cs) /\ cs # << >>
  /\ Filled(h, cs[Len(cs)].stub, c, g) /\ Returns(cs, ds)

\* The calls around it are what they were.
LEMMA CallPopped ==
  ASSUME NEW h, NEW b, NEW cs, NEW c, NEW g, NEW ds, Over(h, b, cs, c, g, ds)
  PROVE  /\ CallsOK(g, b, ds)
         /\ Outer(b, ds, Len(ds) + 1) = cs[Len(cs)].basetype
         /\ Len(cs) \in Nat /\ Len(cs) > 0 /\ Len(ds) = Len(cs) - 1
         /\ \A i \in 1..Len(ds) : ds[i] = cs[i] /\ ds[i].stub # cs[Len(cs)].stub
<1> Len(h) \in Nat /\ CallsOK(h, b, cs) /\ cs # << >> /\ Filled(h, cs[Len(cs)].stub, c, g) /\ Returns(cs, ds)
  BY DEF Over
<1>1. /\ Len(cs) \in Nat /\ Len(cs) > 0
      /\ ds \in Seq(CallType) /\ Len(ds) = Len(cs) - 1
      /\ \A i \in 1..(Len(cs) - 1) : ds[i] = cs[i]
  <2>1. cs \in Seq(CallType) /\ ds = SubSeq(cs, 1, Len(cs) - 1)
    BY DEF CallsOK, Front, Returns
  <2> QED
    BY <2>1, Popped
<1>2. PICK n \in Nat : Len(ds) = n /\ Len(cs) = n + 1
  <2>1. Len(cs) - 1 \in Nat /\ Len(cs) = (Len(cs) - 1) + 1
    BY <1>1
  <2> QED
    BY <1>1, <2>1
<1>3. \A i \in 1..n : ds[i] = cs[i]
  BY <1>1, <1>2
<1>0. Len(g) = Len(h) /\ \A i \in 1..Len(h) : i # cs[n + 1].stub => g[i] = h[i]
  BY <1>2 DEF Filled
<1>4. /\ \A k \in 1..(n + 1) : /\ cs[k].stub \in 1..Len(h) /\ h[cs[k].stub].kind = "stub"
                               /\ cs[k].basetype = Outer(b, cs, k)
      /\ \A j, k \in 1..(n + 1) : cs[j].stub = cs[k].stub => j = k
  BY <1>2 DEF CallsOK
<1>5. \A i \in 1..n : ds[i] = cs[i] /\ ds[i].stub # cs[n + 1].stub
  BY <1>3, <1>4
<1>6. \A k \in 1..(n + 1) : Outer(b, ds, k) = Outer(b, cs, k)
  BY <1>3 DEF Outer
<1>7. \A k \in 1..n :
        ds[k].stub \in 1..Len(g) /\ g[ds[k].stub].kind = "stub" /\ ds[k].basetype = Outer(b, ds, k)
  <2> SUFFICES ASSUME NEW k \in 1..n
               PROVE /\ ds[k].stub \in 1..Len(g) /\ g[ds[k].stub].kind = "stub"
                     /\ ds[k].basetype = Outer(b, ds, k)
    OBVIOUS
  <2>1. k \in 1..(n + 1)
    OBVIOUS
  <2>2. /\ cs[k].stub \in 1..Len(h) /\ h[cs[k].stub].kind = "stub" /\ cs[k].basetype = Outer(b, cs, k)
        /\ Outer(b, ds, k) = Outer(b, cs, k)
    BY <1>4, <1>6, <2>1
  <2>3. ds[k] = cs[k] /\ cs[k].stub # cs[n + 1].stub
    BY <1>5
  <2>4. g[cs[k].stub] = h[cs[k].stub]
    BY <1>0, <2>2, <2>3
  <2> QED
    BY <1>0, <2>2, <2>3, <2>4
<1>8. \A j, k \in 1..n : ds[j].stub = ds[k].stub => j = k
  <2>1. \A j \in 1..n : j \in 1..(n + 1)
    OBVIOUS
  <2> QED
    BY <1>3, <1>4, <2>1, Zenon
<1>9. Outer(b, ds, n + 1) = cs[n + 1].basetype
  BY <1>4, <1>6
<1> QED
  BY <1>1, <1>2, <1>5, <1>7, <1>8, <1>9 DEF CallsOK

-----------------------------------------------------------------------------
(* Recursion along the cells                                               *)

\* Every walk comes to an end.
Grounded(h) ==
  \A x \in 1..Len(h) : \E d \in Seq(PartType), y \in 1..Len(h) : Leads(h, x, d, y) /\ h[y].to = 0

\* The cells from which it does so within n steps.
Depth(h, n) ==
  {x \in 1..Len(h) : \E d \in Seq(PartType), y \in 1..Len(h) :
                       Len(d) <= n /\ Leads(h, x, d, y) /\ h[y].to = 0}

\* A step from a cell is a step less from the one it refers to.
LEMMA DepthStep ==
  ASSUME NEW h, NEW n \in Nat, NEW x \in Depth(h, n), h[x].to # 0
  PROVE  n - 1 \in Nat /\ h[x].to \in Depth(h, n - 1)
<1>1. PICK d \in Seq(PartType), y \in 1..Len(h) : Len(d) <= n /\ Leads(h, x, d, y) /\ h[y].to = 0
  BY DEF Depth
<1>2. d # << >>
  <2> SUFFICES ASSUME d = << >> PROVE FALSE
    OBVIOUS
  <2>1. x = y
    BY <1>1, NowhereLeads
  <2> QED
    BY <1>1, <2>1
<1>3. h[x].to \in 1..Len(h) /\ Leads(h, h[x].to, Tail(d), y)
  BY <1>1, <1>2, FirstStep
<1>4. Tail(d) \in Seq(PartType) /\ Len(Tail(d)) = Len(d) - 1 /\ Len(d) \in Nat \ {0}
  BY <1>2, HeadTailProperties, EmptySeq
<1>5. Len(Tail(d)) <= n - 1 /\ n - 1 \in Nat
  BY <1>1, <1>4
<1> QED
  BY <1>1, <1>3, <1>4, <1>5 DEF Depth

\* The cells whose walks are short are among those whose walks may be longer.
LEMMA DepthGrows ==
  ASSUME NEW h, NEW n \in Nat
  PROVE  Depth(h, n) \subseteq Depth(h, n + 1)
<1>1. \A d \in Seq(PartType) : Len(d) <= n => Len(d) <= n + 1
  BY LenProperties
<1> QED
  BY <1>1 DEF Depth

\* The cells whose walks are short are among those whose walks may be longer.
LEMMA DepthMonotonic ==
  ASSUME NEW h, NEW n \in Nat, NEW m \in Nat, n <= m
  PROVE  Depth(h, n) \subseteq Depth(h, m)
<1>1. \A d \in Seq(PartType) : Len(d) <= n => Len(d) <= m
  BY LenProperties
<1> QED
  BY <1>1 DEF Depth

\* There is a number of steps that is enough for every cell.
LEMMA DepthBound ==
  ASSUME NEW h, Len(h) \in Nat, Grounded(h)
  PROVE  \E n \in Nat : Depth(h, n) = 1..Len(h)
<1> DEFINE T == {m \in 0..Len(h) : \E n \in Nat : \A x \in 1..m : x \in Depth(h, n)}
<1>1. 0 \in T
  OBVIOUS
<1>2. \A i \in 1..Len(h) : i - 1 \in T => i \in T
  <2> SUFFICES ASSUME NEW i \in 1..Len(h), i - 1 \in T PROVE i \in T
    OBVIOUS
  <2>1. PICK n \in Nat : \A x \in 1..(i - 1) : x \in Depth(h, n)
    OBVIOUS
  <2>2. PICK d \in Seq(PartType), y \in 1..Len(h) : Leads(h, i, d, y) /\ h[y].to = 0
    BY DEF Grounded
  <2>3. PICK k \in Nat : k = Len(d)
    BY LenProperties
  <2>4. i \in Depth(h, k)
    BY <2>2, <2>3 DEF Depth
  <2>5. PICK m \in Nat : n <= m /\ k <= m
    <3>1. n + k \in Nat /\ n <= n + k /\ k <= n + k
      OBVIOUS
    <3> QED
      BY <3>1
  <2>6. Depth(h, n) \subseteq Depth(h, m) /\ Depth(h, k) \subseteq Depth(h, m)
    BY <2>5, DepthMonotonic
  <2>7. \A x \in 1..i : x \in 1..(i - 1) \/ x = i
    OBVIOUS
  <2>8. \A x \in 1..i : x \in Depth(h, m)
    BY <2>1, <2>4, <2>6, <2>7
  <2> QED
    BY <2>8
<1> HIDE DEF T
<1>3. Len(h) \in T
  <2>1. \A i \in 0..Len(h) : i \in T
    BY <1>1, <1>2, BoundedInduction
  <2> QED
    BY <2>1
<1>4. PICK n \in Nat : \A x \in 1..Len(h) : x \in Depth(h, n)
  BY <1>3 DEF T
<1> QED
  BY <1>4 DEF Depth

\* What a function does that is defined by recursion along the cells: its value at a cell
\* is made of the one at the cell it refers to.
Along(h, f, leaf, body) ==
  \A x \in DOMAIN f : f[x] = IF h[x].to = 0 THEN leaf[x] ELSE body[<<x, f[h[x].to]>>]

StaysIn(h, S, leaf, body) ==
  \A x \in 1..Len(h) : leaf[x] \in S /\ \A v \in S : body[<<x, v>>] \in S

\* Its values stay in the set its body stays in.
LEMMA AlongRange ==
  ASSUME NEW h, Len(h) \in Nat, Grounded(h), NEW S, NEW leaf, NEW body, StaysIn(h, S, leaf, body),
         NEW f, DOMAIN f = 1..Len(h), Along(h, f, leaf, body)
  PROVE  \A x \in 1..Len(h) : f[x] \in S
<1>0. PICK n \in Nat : Depth(h, n) = 1..Len(h)
  BY DepthBound
<1> DEFINE T == {m \in 0..n : \A x \in Depth(h, m) : f[x] \in S}
<1>1. 0 \in T
  <2> SUFFICES ASSUME NEW x \in Depth(h, 0) PROVE f[x] \in S
    OBVIOUS
  <2>1. x \in 1..Len(h)
    BY DEF Depth
  <2>2. h[x].to = 0
    <3> SUFFICES ASSUME h[x].to # 0 PROVE FALSE
      OBVIOUS
    <3>1. 0 - 1 \in Nat
      BY DepthStep
    <3> QED
      BY <3>1
  <2> QED
    BY <2>1, <2>2 DEF Along, StaysIn
<1>2. \A i \in 1..n : i - 1 \in T => i \in T
  <2> SUFFICES ASSUME NEW i \in 1..n, i - 1 \in T, NEW x \in Depth(h, i) PROVE f[x] \in S
    OBVIOUS
  <2>1. x \in 1..Len(h)
    BY DEF Depth
  <2>2. CASE h[x].to = 0
    BY <2>1, <2>2 DEF Along, StaysIn
  <2>3. CASE h[x].to # 0
    <3>1. h[x].to \in Depth(h, i - 1)
      BY <2>3, DepthStep
    <3>2. f[h[x].to] \in S
      BY <3>1
    <3>3. f[x] = body[<<x, f[h[x].to]>>]
      BY <2>1, <2>3 DEF Along
    <3> QED
      BY <2>1, <3>2, <3>3 DEF StaysIn
  <2> QED
    BY <2>2, <2>3
<1> HIDE DEF T
<1>3. n \in T
  <2>1. \A i \in 0..n : i \in T
    BY <1>1, <1>2, BoundedInduction
  <2> QED
    BY <2>1
<1> QED
  BY <1>0, <1>3 DEF T

\* And there is such a function.
LEMMA AlongExists ==
  ASSUME NEW h, Len(h) \in Nat, Grounded(h), NEW S, NEW leaf, NEW body, StaysIn(h, S, leaf, body)
  PROVE  \E f \in [1..Len(h) -> S] : Along(h, f, leaf, body)
<1>0. PICK n \in Nat : Depth(h, n) = 1..Len(h)
  BY DepthBound
<1> DEFINE T == {m \in 0..n : \E f \in [Depth(h, m) -> S] : Along(h, f, leaf, body)}
<1>1. 0 \in T
  <2> DEFINE f == [x \in Depth(h, 0) |-> leaf[x]]
  <2>1. \A x \in Depth(h, 0) : x \in 1..Len(h) /\ h[x].to = 0
    <3> SUFFICES ASSUME NEW x \in Depth(h, 0), h[x].to # 0 PROVE FALSE
      BY DEF Depth
    <3>1. 0 - 1 \in Nat
      BY DepthStep
    <3> QED
      BY <3>1
  <2>2. f \in [Depth(h, 0) -> S]
    BY <2>1 DEF StaysIn
  <2>3. Along(h, f, leaf, body)
    BY <2>1 DEF Along
  <2> HIDE DEF f
  <2> QED
    BY <2>2, <2>3
<1>2. \A i \in 1..n : i - 1 \in T => i \in T
  <2> SUFFICES ASSUME NEW i \in 1..n, i - 1 \in T PROVE i \in T
    OBVIOUS
  <2>1. PICK f \in [Depth(h, i - 1) -> S] : Along(h, f, leaf, body)
    OBVIOUS
  <2> DEFINE D == Depth(h, i)
             g == [x \in D |-> IF h[x].to = 0 THEN leaf[x] ELSE body[<<x, f[h[x].to]>>]]
  <2>2. \A x \in D : x \in 1..Len(h) /\ (h[x].to # 0 => h[x].to \in Depth(h, i - 1))
    <3> SUFFICES ASSUME NEW x \in D
                 PROVE x \in 1..Len(h) /\ (h[x].to # 0 => h[x].to \in Depth(h, i - 1))
      OBVIOUS
    <3>1. x \in Depth(h, i) /\ i \in Nat
      OBVIOUS
    <3>2. x \in 1..Len(h)
      BY <3>1 DEF Depth
    <3>3. h[x].to # 0 => h[x].to \in Depth(h, i - 1)
      BY <3>1, DepthStep
    <3> QED
      BY <3>2, <3>3
  <2>3. Depth(h, i - 1) \subseteq D
    <3>1. i - 1 \in Nat /\ i \in Nat /\ i - 1 <= i
      OBVIOUS
    <3> QED
      BY <3>1, DepthMonotonic
  <2> HIDE DEF D
  <2>4. g \in [D -> S]
    <3> SUFFICES ASSUME NEW x \in D
                 PROVE (IF h[x].to = 0 THEN leaf[x] ELSE body[<<x, f[h[x].to]>>]) \in S
      OBVIOUS
    <3>1. CASE h[x].to = 0
      BY <3>1, <2>2 DEF StaysIn
    <3>2. CASE h[x].to # 0
      <4>1. f[h[x].to] \in S
        BY <3>2, <2>1, <2>2
      <4> QED
        BY <3>2, <4>1, <2>2 DEF StaysIn
    <3> QED
      BY <3>1, <3>2
  <2>5. \A x \in Depth(h, i - 1) : g[x] = f[x]
    BY <2>1, <2>3 DEF Along
  <2>6. \A x \in D : g[x] = IF h[x].to = 0 THEN leaf[x] ELSE body[<<x, f[h[x].to]>>]
    OBVIOUS
  <2> HIDE DEF g
  <2>7. Along(h, g, leaf, body)
    <3>1. DOMAIN g = D
      BY <2>4
    <3> QED
      BY <3>1, <2>2, <2>5, <2>6 DEF Along
  <2> QED
    BY <2>4, <2>7 DEF D
<1> HIDE DEF T
<1>3. n \in T
  <2>1. \A i \in 0..n : i \in T
    BY <1>1, <1>2, BoundedInduction
  <2> QED
    BY <2>1
<1> QED
  BY <1>0, <1>3 DEF T

-----------------------------------------------------------------------------
(* Every walk still comes to an end                                        *)

\* A cell is followed by a walk that ends elsewhere than in s.
Anchored(h, x, s) ==
  \E d \in Seq(PartType), y \in 1..Len(h) : Leads(h, x, d, y) /\ h[y].to = 0 /\ y # s

\* A step and a walk.
LEMMA StepAndWalk ==
  ASSUME NEW h, Formed(h), NEW x \in 1..Len(h), NEW d \in Seq(PartType), NEW y,
         h[x].to \in 1..Len(h), Leads(h, h[x].to, d, y)
  PROVE  \E f \in Seq(PartType) : Leads(h, x, f, y) /\ f = <<Part(h[x])>> \o d
<1>1. PICK z \in 1..Len(h) : z = h[x].to
  OBVIOUS
<1>2. PICK e : e = <<Part(h[x])>>
  OBVIOUS
<1>3. Leads(h, x, e, z)
  BY <1>1, <1>2, OneStep
<1>4. e \in Seq(PartType)
  <2>1. Part(h[x]) \in PartType
    BY CellRead
  <2> QED
    BY <1>2, <2>1
<1>5. PICK f : f = e \o d
  OBVIOUS
<1>6. Leads(h, z, d, y)
  BY <1>1
<1>7. f \in Seq(PartType) /\ Leads(h, x, f, y)
  BY <1>3, <1>4, <1>5, <1>6, Joined
<1> QED
  BY <1>2, <1>5, <1>7

\* Walks end where they did when no cell leads elsewhere.
LEMMA GroundedSame ==
  ASSUME NEW h, NEW g, Grounded(h), Keeps(h, g), Len(g) = Len(h), \A i \in 1..Len(h) : g[i].to = h[i].to
  PROVE  Grounded(g)
<1> SUFFICES ASSUME NEW x \in 1..Len(h)
             PROVE \E d \in Seq(PartType), y \in 1..Len(g) : Leads(g, x, d, y) /\ g[y].to = 0
  BY DEF Grounded
<1>1. PICK d \in Seq(PartType), y \in 1..Len(h) : Leads(h, x, d, y) /\ h[y].to = 0
  BY DEF Grounded
<1>2. Leads(g, x, d, y)
  BY <1>1, LenProperties, WalkKept
<1> QED
  BY <1>1, <1>2

\* One more cell refers to an older one.
LEMMA GroundedAdded ==
  ASSUME NEW h, Formed(h), Grounded(h), NEW c, CellOK(Len(h), c), NEW g, Formed(g), Added(h, c, g)
  PROVE  Grounded(g)
<1>1. /\ Len(h) \in Nat /\ Len(g) = Len(h) + 1 /\ g[Len(h) + 1] = c
      /\ \A i \in 1..Len(h) : g[i] = h[i]
  BY DEF Added
<1>2. Keeps(h, g)
  BY <1>1 DEF Keeps, Same
<1>3. \A x \in 1..Len(h) :
        \E d \in Seq(PartType), y \in 1..Len(g) : Leads(g, x, d, y) /\ g[y].to = 0
  <2> SUFFICES ASSUME NEW x \in 1..Len(h)
               PROVE \E d \in Seq(PartType), y \in 1..Len(g) : Leads(g, x, d, y) /\ g[y].to = 0
    OBVIOUS
  <2>1. PICK d \in Seq(PartType), y \in 1..Len(h) : Leads(h, x, d, y) /\ h[y].to = 0
    BY DEF Grounded
  <2>2. Leads(g, x, d, y)
    BY <1>2, <2>1, LenProperties, WalkKept
  <2>3. y \in 1..Len(g) /\ g[y].to = 0
    BY <1>1, <2>1
  <2> QED
    BY <2>2, <2>3
<1>4. PICK n : n = Len(h) + 1 /\ n \in 1..Len(g) /\ g[n] = c
  BY <1>1
<1>5. \E d \in Seq(PartType), y \in 1..Len(g) : Leads(g, n, d, y) /\ g[y].to = 0
  <2>1. CASE c.to = 0
    <3>1. Leads(g, n, << >>, n) /\ << >> \in Seq(PartType)
      BY <1>4, LeadsNowhere
    <3> QED
      BY <1>4, <2>1, <3>1
  <2>2. CASE c.to # 0
    <3>1. c.to \in 1..Len(h) /\ c.to \in 1..Len(g)
      BY <1>1, <2>2 DEF CellOK
    <3>2. PICK d \in Seq(PartType), y \in 1..Len(g) : Leads(g, c.to, d, y) /\ g[y].to = 0
      BY <1>3, <3>1
    <3>3. \E f \in Seq(PartType) : Leads(g, n, f, y) /\ f = <<Part(g[n])>> \o d
      BY <1>4, <3>1, <3>2, StepAndWalk
    <3> QED
      BY <3>2, <3>3
  <2> QED
    BY <2>1, <2>2
<1>6. \A x \in 1..Len(g) : x \in 1..Len(h) \/ x = n
  BY <1>1, <1>4
<1> QED
  BY <1>3, <1>5, <1>6 DEF Grounded

\* A stub is filled with what does not lead back to it.
LEMMA GroundedFilled ==
  ASSUME NEW h, Formed(h), Grounded(h), NEW s \in 1..Len(h), h[s].kind = "stub",
         NEW c, CellOK(Len(h), c), c.to = 0 \/ Anchored(h, c.to, s),
         NEW g, Formed(g), Filled(h, s, c, g)
  PROVE  Grounded(g) /\ Keeps(h, g)
<1>1. /\ Len(h) \in Nat /\ Len(g) = Len(h) /\ g[s] = c
      /\ \A i \in 1..Len(h) : i # s => g[i] = h[i]
  BY DEF Filled
<1>2. Keeps(h, g)
  <2>1. Grown(h, g)
    BY <1>1 DEF Grown
  <2> QED
    BY <2>1, GrownKeeps
<1>3. \E d \in Seq(PartType), y \in 1..Len(g) : Leads(g, s, d, y) /\ g[y].to = 0
  <2>1. CASE c.to = 0
    <3>1. Leads(g, s, << >>, s) /\ << >> \in Seq(PartType) /\ s \in 1..Len(g)
      BY <1>1, LeadsNowhere
    <3> QED
      BY <1>1, <2>1, <3>1
  <2>2. CASE c.to # 0
    <3>1. PICK d \in Seq(PartType), y \in 1..Len(h) : Leads(h, c.to, d, y) /\ h[y].to = 0 /\ y # s
      BY <2>2 DEF Anchored
    <3>2. Leads(g, c.to, d, y)
      BY <1>2, <3>1, LenProperties, WalkKept
    <3>3. g[s].to \in 1..Len(g) /\ g[y].to = 0 /\ s \in 1..Len(g) /\ y \in 1..Len(g)
      BY <1>1, <2>2, <3>1 DEF CellOK
    <3>4. \E f \in Seq(PartType) : Leads(g, s, f, y) /\ f = <<Part(g[s])>> \o d
      BY <1>1, <3>2, <3>3, StepAndWalk
    <3> QED
      BY <3>3, <3>4
  <2> QED
    BY <2>1, <2>2
<1>4. PICK e \in Seq(PartType), z \in 1..Len(g) : Leads(g, s, e, z) /\ g[z].to = 0
  BY <1>3
<1>5. ASSUME NEW x \in 1..Len(h)
      PROVE  \E d \in Seq(PartType), y \in 1..Len(g) : Leads(g, x, d, y) /\ g[y].to = 0
  <2>1. PICK d \in Seq(PartType), y \in 1..Len(h) : Leads(h, x, d, y) /\ h[y].to = 0
    BY DEF Grounded
  <2>2. Leads(g, x, d, y)
    BY <1>2, <2>1, LenProperties, WalkKept
  <2>3. CASE y # s
    BY <1>1, <2>1, <2>2, <2>3
  <2>4. CASE y = s
    <3>1. PICK f : f = d \o e
      OBVIOUS
    <3>2. f \in Seq(PartType) /\ Leads(g, x, f, z)
      BY <1>4, <2>2, <2>4, <3>1, Joined
    <3> QED
      BY <1>4, <3>2
  <2> QED
    BY <2>3, <2>4
<1> QED
  BY <1>1, <1>2, <1>5 DEF Grounded

\* A sequence is its first element and the rest.
LEMMA HeadIsFirst ==
  ASSUME NEW S, NEW e \in Seq(S), e # << >>, NEW f \in Seq(S), Len(f) = 1, f[1] = e[1]
  PROVE  e = f \o Tail(e)
<1>1. PICK t : t = Tail(e)
  OBVIOUS
<1>2. Len(e) \in Nat \ {0}
  BY EmptySeq
<1>3. t \in Seq(S) /\ Len(t) = Len(e) - 1 /\ \A i \in 1..Len(t) : t[i] = e[i + 1]
  BY <1>1, HeadTailProperties
<1>4. PICK g : g = f \o t
  OBVIOUS
<1>5. /\ g \in Seq(S) /\ Len(g) = 1 + Len(t)
      /\ \A i \in 1..1 + Len(t) : g[i] = IF i <= 1 THEN f[i] ELSE t[i - 1]
  <2>1. /\ g \in Seq(S) /\ Len(g) = Len(f) + Len(t)
        /\ \A i \in 1..Len(f) + Len(t) : g[i] = IF i <= Len(f) THEN f[i] ELSE t[i - Len(f)]
    <3>1. f \in Seq(S) /\ t \in Seq(S) /\ g = f \o t
      BY <1>3, <1>4
    <3> QED
      BY ONLY <3>1, ConcatProperties
  <2>2. PICK k : k = Len(f)
    OBVIOUS
  <2>3. /\ g \in Seq(S) /\ Len(g) = k + Len(t)
        /\ \A i \in 1..k + Len(t) : g[i] = IF i <= k THEN f[i] ELSE t[i - k]
    BY <2>1, <2>2
  <2>4. k = 1
    BY <2>2
  <2> QED
    BY <2>3, <2>4
<1>6. Len(g) = Len(e)
  BY <1>2, <1>3, <1>5
<1>7. \A i \in 1..Len(e) : g[i] = e[i]
  <2> SUFFICES ASSUME NEW i \in 1..Len(e) PROVE g[i] = e[i]
    OBVIOUS
  <2>1. CASE i = 1
    BY <1>2, <1>3, <1>5, <2>1
  <2>2. CASE i # 1
    <3>1. i \in 1..1 + Len(t) /\ i - 1 \in 1..Len(t) /\ ~(i <= 1) /\ (i - 1) + 1 = i
      BY <1>2, <1>3, <2>2
    <3> QED
      BY <1>3, <1>5, <3>1
  <2> QED
    BY <2>1, <2>2
<1>8. e = g
  BY <1>5, <1>6, <1>7, SeqEqual
<1> QED
  BY <1>1, <1>4, <1>8

-----------------------------------------------------------------------------
(* What a cell means                                                       *)

\* m[x] is what is read from x on.
Says(h, m) ==
  \A x \in 1..Len(h) :
    m[x] \in Seq(PartType) /\ m[x] = <<Part(h[x])>> \o (IF h[x].to = 0 THEN << >> ELSE m[h[x].to])

\* Meaning, a recursive function, is what its equation says.
LEMMA MeaningSays ==
  ASSUME Formed(heap), Grounded(heap)
  PROVE  \E m : Says(heap, m) /\ \A x : Meaning(x) = m[x]
<1> DEFINE n       == Len(heap)
           S       == Seq(PartType)
           first   == [x \in 1..n |-> <<Part(heap[x])>>]
           body    == [q \in (1..n) \X S |-> first[q[1]] \o q[2]]
           Loop(f) == [i \in 1..Len(heap) |->
                         <<Means(heap[i].kind, heap[i].length)>>
                           \o (IF heap[i].to = 0 THEN << >> ELSE f[heap[i].to])]
<1>1. \A x : Meaning(x) = (CHOOSE f : f = Loop(f))[x]
  BY DEF Meaning
<1>2. \A f : Loop(f) = [i \in 1..Len(heap) |->
                         <<Means(heap[i].kind, heap[i].length)>>
                           \o (IF heap[i].to = 0 THEN << >> ELSE f[heap[i].to])]
  OBVIOUS
<1>3. \A x \in 1..n : first[x] = <<Part(heap[x])>> /\ first[x] \in S
  <2>1. \A x \in 1..n : Part(heap[x]) \in PartType
    BY CellRead
  <2> QED
    BY <2>1
<1>4. \A x \in 1..n : \A v \in S : body[<<x, v>>] = first[x] \o v /\ body[<<x, v>>] \in S
  <2>1. \A x \in 1..n : \A v \in S : first[x] \o v \in S
    BY <1>3, ConcatProperties
  <2> QED
    BY <2>1
<1> HIDE DEF first, body, Loop
<1>5. StaysIn(heap, S, first, body)
  BY <1>3, <1>4 DEF StaysIn
<1>6. n \in Nat
  BY LenProperties DEF Formed
<1>7. PICK f \in [1..n -> S] : Along(heap, f, first, body)
  BY <1>5, <1>6, AlongExists
<1>8. \A x \in 1..n : heap[x].to # 0 => heap[x].to \in 1..n
  BY CellRead
<1>9. ASSUME NEW x \in 1..n
      PROVE  f[x] = <<Part(heap[x])>> \o (IF heap[x].to = 0 THEN << >> ELSE f[heap[x].to])
  <2>1. f[x] = IF heap[x].to = 0 THEN first[x] ELSE body[<<x, f[heap[x].to]>>]
    BY <1>7 DEF Along
  <2>2. CASE heap[x].to = 0
    <3>1. first[x] \o << >> = first[x]
      BY <1>3, ConcatEmptySeq
    <3> QED
      BY <1>3, <2>1, <2>2, <3>1
  <2>3. CASE heap[x].to # 0
    <3>1. f[heap[x].to] \in S
      BY <1>7, <1>8, <2>3
    <3> QED
      BY <1>3, <1>4, <2>1, <2>3, <3>1
  <2> QED
    BY <2>2, <2>3
<1>10. f = Loop(f)
  <2>1. f = [x \in 1..n |-> f[x]]
    BY <1>7
  <2> QED
    BY <1>2, <1>9, <2>1 DEF Part
<1> DEFINE m == CHOOSE g : g = Loop(g)
<1>11. m = Loop(m)
  BY <1>10
<1>12. \A x : Meaning(x) = m[x]
  BY <1>1
<1> HIDE DEF m
<1>13. DOMAIN m = 1..n /\ \A x \in 1..n : m[x] = <<Part(heap[x])>> \o (IF heap[x].to = 0 THEN << >> ELSE m[heap[x].to])
  BY <1>2, <1>11 DEF Part
<1>14. \A x \in 1..n : m[x] \in S
  <2> DEFINE V     == S \cup {m[x] : x \in 1..n}
             after == [q \in (1..n) \X V |-> first[q[1]] \o q[2]]
  <2>1. \A x \in 1..n : \A v \in V : after[<<x, v>>] = first[x] \o v
    OBVIOUS
  <2>2. \A v \in S : v \in V
    OBVIOUS
  <2>3. \A x \in 1..n : m[x] \in V
    OBVIOUS
  <2> HIDE DEF V, after
  <2>4. StaysIn(heap, S, first, after)
    <3>1. \A x \in 1..n : \A v \in S : first[x] \o v \in S
      BY <1>3, ConcatProperties
    <3> QED
      BY <1>3, <2>1, <2>2, <3>1 DEF StaysIn
  <2>5. Along(heap, m, first, after)
    <3> SUFFICES ASSUME NEW x \in 1..n
                 PROVE m[x] = IF heap[x].to = 0 THEN first[x] ELSE after[<<x, m[heap[x].to]>>]
      BY <1>13 DEF Along
    <3>1. CASE heap[x].to = 0
      <4>1. first[x] \o << >> = first[x]
        BY <1>3, ConcatEmptySeq
      <4> QED
        BY <1>3, <1>13, <3>1, <4>1
    <3>2. CASE heap[x].to # 0
      <4>1. m[heap[x].to] \in V
        BY <1>8, <2>3, <3>2
      <4> QED
        BY <1>3, <1>13, <2>1, <3>2, <4>1
    <3> QED
      BY <3>1, <3>2
  <2> QED
    BY <1>6, <1>13, <2>4, <2>5, AlongRange
<1> QED
  BY <1>12, <1>13, <1>14 DEF Says

\* Three derivations after one another, in either grouping.
LEMMA Regrouped ==
  ASSUME NEW a \in Seq(PartType), NEW b \in Seq(PartType), NEW c \in Seq(PartType)
  PROVE  (a \o b) \o c = a \o (b \o c)
  BY ConcatAssociative

\* What is met on a walk comes before what is read from its end.
LEMMA WalkSays ==
  ASSUME NEW h, Formed(h), NEW m, Says(h, m),
         NEW d \in Seq(PartType), NEW x, NEW y, Leads(h, x, d, y)
  PROVE  m[x] = d \o m[y] /\ m[y] \in Seq(PartType)
<1>1. y \in 1..Len(h) /\ Len(d) \in Nat
  BY LenProperties, WalkEnds
<1>2. m[y] \in Seq(PartType)
  BY <1>1 DEF Says
<1> DEFINE T == {n \in 0..Len(d) : \A e \in Seq(PartType) : \A z \in 1..Len(h) :
                                     Len(e) = n /\ Leads(h, z, e, y) => m[z] = e \o m[y]}
<1>3. 0 \in T
  <2> SUFFICES ASSUME NEW e \in Seq(PartType), NEW z \in 1..Len(h), Len(e) = 0, Leads(h, z, e, y)
               PROVE m[z] = e \o m[y]
    BY <1>1
  <2>1. e = << >>
    BY EmptySeq
  <2>2. z = y
    BY <2>1, NowhereLeads
  <2> QED
    BY <1>2, <2>1, <2>2, ConcatEmptySeq
<1>4. \A i \in 1..Len(d) : i - 1 \in T => i \in T
  <2> SUFFICES ASSUME NEW i \in 1..Len(d), i - 1 \in T,
                      NEW e \in Seq(PartType), NEW z \in 1..Len(h), Len(e) = i, Leads(h, z, e, y)
               PROVE m[z] = e \o m[y]
    OBVIOUS
  <2>1. e # << >>
    BY EmptySeq
  <2>2. PICK t : t = Tail(e)
    OBVIOUS
  <2>3. t \in Seq(PartType) /\ Len(t) = i - 1
    BY <2>1, <2>2, HeadTailProperties
  <2>4. PICK u : u = h[z].to
    OBVIOUS
  <2>5. e[1] = Part(h[z]) /\ u \in 1..Len(h) /\ Leads(h, u, t, y)
    BY <2>1, <2>2, <2>4, FirstStep
  <2>6. m[u] = t \o m[y]
    BY <2>3, <2>5
  <2>7. m[z] = <<Part(h[z])>> \o m[u]
    <3>1. Len(h) \in Nat /\ u # 0
      BY <2>5, LenProperties DEF Formed
    <3> QED
      BY <2>4, <3>1 DEF Says
  <2>8. PICK f : f = <<Part(h[z])>>
    OBVIOUS
  <2>9. f \in Seq(PartType) /\ f[1] = e[1] /\ Len(f) = 1
    <3>1. Part(h[z]) \in PartType
      BY CellRead
    <3> QED
      BY <2>5, <2>8, <3>1
  <2>10. e = f \o t
    BY <2>1, <2>2, <2>3, <2>9, HeadIsFirst
  <2>11. (f \o t) \o m[y] = f \o (t \o m[y])
    <3>1. PICK v \in Seq(PartType) : v = m[y]
      BY <1>2
    <3>2. f \in Seq(PartType) /\ t \in Seq(PartType) /\ v \in Seq(PartType)
      BY <2>3, <2>9
    <3>3. (f \o t) \o v = f \o (t \o v)
      BY <3>2, Regrouped
    <3> QED
      BY <3>1, <3>3
  <2> QED
    BY <2>6, <2>7, <2>8, <2>10, <2>11
<1> HIDE DEF T
<1>5. Len(d) \in T
  <2>1. \A i \in 0..Len(d) : i \in T
    BY <1>1, <1>3, <1>4, BoundedInduction
  <2> QED
    BY <1>1, <2>1
<1>6. x \in 1..Len(h)
  BY <1>1, WalkEnds
<1> QED
  BY <1>2, <1>5, <1>6 DEF T

-----------------------------------------------------------------------------
(* Sizes                                                                   *)

\* z[x] is the size of what is read from x on.
Sizes(h, z) ==
  /\ z \in [1..Len(h) -> Nat]
  /\ \A x \in 1..Len(h) :
       z[x] = IF h[x].kind = "array" THEN h[x].length * z[h[x].to] ELSE h[x].size

\* In g some of the cells have their size again, t among them.
Resized(h, z, g, t) ==
  /\ g \in Seq(CellType) /\ Len(g) = Len(h)
  /\ \A x \in 1..Len(h) : /\ Same(g[x], h[x]) /\ g[x].isstatic = h[x].isstatic
                          /\ g[x].size = h[x].size \/ g[x].size = z[x]
  /\ g[t].size = z[t]

\* The cells parse_array_fix comes to: the type itself is the first of them.
ReachedIn(h, t, f) ==
  [n \in 0..Len(h) |-> IF n = 0 THEN {t} ELSE f[n - 1] \cup {h[i].to : i \in f[n - 1] \ {0}}]

\* A type is among the cells that parse_array_fix comes to from it.
LEMMA TypeReached ==
  ASSUME NEW h, Formed(h), NEW t \in 1..Len(h), NEW r, r = CHOOSE f : f = ReachedIn(h, t, f)
  PROVE  t \in r[Len(h)]
<1>0. PICK n \in Nat : n = Len(h)
  BY LenProperties DEF Formed
<1> DEFINE S    == SUBSET (0..n)
           body == [q \in S \X (1..n) |-> q[1] \cup {h[i].to : i \in q[1] \ {0}}]
<1>1. \A s \in S : \A i \in 1..n : body[<<s, i>>] = s \cup {h[j].to : j \in s \ {0}}
  OBVIOUS
<1>2. Stays(S, n, body)
  <2>1. \A s \in S : {h[j].to : j \in s \ {0}} \in S
    <3>1. \A j \in 1..n : h[j].to \in 0..n
      BY <1>0, CellRead
    <3>2. \A s \in S : \A j \in s \ {0} : j \in 1..n
      OBVIOUS
    <3>3. \A s \in S : \A j \in s \ {0} : h[j].to \in 0..n
      BY <3>1, <3>2
    <3> QED
      BY <3>3
  <2>2. \A s \in S : s \cup {h[j].to : j \in s \ {0}} \in S
    BY <2>1
  <2> HIDE DEF S, body
  <2> QED
    BY <1>1, <2>2 DEF Stays
<1> HIDE DEF body
<1>3. {t} \in S
  BY <1>0
<1> HIDE DEF S
<1>4. Runs(S, {t}, n, body) # {}
  BY <1>2, <1>3, RoundsExist
<1>5. PICK f \in [0..n -> S] : f[0] = {t} /\ \A i \in 1..n : f[i] = body[<<f[i - 1], i>>]
  BY <1>4 DEF Runs
<1>6. f = ReachedIn(h, t, f)
  <2>1. ASSUME NEW k \in 0..n
        PROVE  f[k] = IF k = 0 THEN {t} ELSE f[k - 1] \cup {h[i].to : i \in f[k - 1] \ {0}}
    <3>1. CASE k = 0
      BY <1>5, <3>1
    <3>2. CASE k # 0
      <4>1. k \in 1..n /\ k - 1 \in 0..n
        BY <3>2
      <4>2. PICK s \in S : s = f[k - 1]
        BY <1>5, <4>1
      <4>3. f[k] = body[<<s, k>>]
        BY <1>5, <4>1, <4>2
      <4>4. body[<<s, k>>] = s \cup {h[j].to : j \in s \ {0}}
        BY <1>1, <4>1, <4>2
      <4> QED
        BY <3>2, <4>2, <4>3, <4>4
    <3> QED
      BY <3>1, <3>2
  <2>2. f = [k \in 0..n |-> f[k]]
    BY <1>5
  <2> QED
    BY <1>0, <2>1, <2>2 DEF ReachedIn
<1>7. r = ReachedIn(h, t, r)
  BY <1>6
<1>8. \A k \in 0..n : r[k] = IF k = 0 THEN {t} ELSE r[k - 1] \cup {h[i].to : i \in r[k - 1] \ {0}}
  BY <1>0, <1>7 DEF ReachedIn
<1> DEFINE T == {k \in 0..n : t \in r[k]}
<1>9. 0 \in T
  <2>1. 0 \in 0..n
    OBVIOUS
  <2>2. r[0] = {t}
    BY <1>8, <2>1
  <2> QED
    BY <2>1, <2>2
<1>10. \A k \in 1..n : k - 1 \in T => k \in T
  <2> SUFFICES ASSUME NEW k \in 1..n, k - 1 \in T PROVE k \in T
    OBVIOUS
  <2>1. t \in r[k - 1] /\ k \in 0..n /\ k # 0
    OBVIOUS
  <2>2. r[k] = r[k - 1] \cup {h[i].to : i \in r[k - 1] \ {0}}
    BY <1>8, <2>1
  <2> QED
    BY <2>1, <2>2
<1> HIDE DEF T
<1>11. n \in T
  <2>1. \A k \in 0..n : k \in T
    BY <1>9, <1>10, BoundedInduction
  <2> QED
    BY <2>1
<1> QED
  BY <1>0, <1>11 DEF T

\* The sizes it gives them, as its recursive function.
SizesIn(h, f) ==
  [i \in 1..Len(h) |-> IF h[i].kind = "array" THEN h[i].length * f[h[i].to] ELSE h[i].size]

\* The recursive function SizesIn exists, and gives every cell the size its definition says.
LEMMA SizesAre ==
  ASSUME NEW h, Formed(h), Grounded(h), NEW z, z = CHOOSE f : f = SizesIn(h, f)
  PROVE  Sizes(h, z)
<1>0. PICK n \in Nat : n = Len(h)
  BY LenProperties DEF Formed
<1>1. \A x \in 1..n : /\ h[x].length \in Nat /\ h[x].size \in Nat
                      /\ h[x].to = 0 => h[x].kind # "array"
                      /\ h[x].to # 0 => h[x].to \in 1..n
  <2> SUFFICES ASSUME NEW x \in 1..n
               PROVE /\ h[x].length \in Nat /\ h[x].size \in Nat
                     /\ h[x].to = 0 => h[x].kind # "array"
                     /\ h[x].to # 0 => h[x].to \in 1..n
    OBVIOUS
  <2>1. CellOK(n, h[x]) /\ h[x].length \in Nat /\ h[x].size \in Nat
    BY <1>0, CellRead
  <2> QED
    BY <2>1 DEF CellOK
<1> DEFINE leaf == [x \in 1..n |-> h[x].size]
           SizeAt(x, v) == IF h[x].kind = "array" THEN h[x].length * v ELSE h[x].size
           body == [q \in (1..n) \X Nat |-> SizeAt(q[1], q[2])]
<1>2. \A x \in 1..n : leaf[x] = h[x].size /\ leaf[x] \in Nat
  BY <1>1
<1>3. \A x \in 1..n : \A v \in Nat : body[<<x, v>>] = SizeAt(x, v)
  OBVIOUS
<1>4. \A x \in 1..n : \A v \in Nat : SizeAt(x, v) \in Nat
  BY <1>1
<1> HIDE DEF leaf, body
<1>5. StaysIn(h, Nat, leaf, body)
  BY <1>0, <1>2, <1>3, <1>4 DEF StaysIn
<1>6. PICK f \in [1..n -> Nat] : Along(h, f, leaf, body)
  BY <1>0, <1>5, AlongExists
<1>7. ASSUME NEW x \in 1..n
      PROVE  f[x] = SizeAt(x, f[h[x].to])
  <2>1. f[x] = IF h[x].to = 0 THEN leaf[x] ELSE body[<<x, f[h[x].to]>>]
    BY <1>6 DEF Along
  <2>2. CASE h[x].to = 0
    BY <1>1, <1>2, <2>1, <2>2
  <2>3. CASE h[x].to # 0
    <3>1. f[h[x].to] \in Nat
      BY <1>1, <1>6, <2>3
    <3> HIDE DEF SizeAt
    <3> QED
      BY <1>3, <2>1, <2>3, <3>1
  <2> QED
    BY <2>2, <2>3
<1>8. f = SizesIn(h, f)
  <2>1. f = [x \in 1..n |-> f[x]]
    BY <1>6
  <2> QED
    BY <1>0, <1>7, <2>1 DEF SizesIn
<1>9. z = SizesIn(h, z)
  BY <1>8
<1>10. DOMAIN z = 1..n /\ z = [x \in 1..n |-> z[x]] /\ \A x \in 1..n : z[x] = SizeAt(x, z[h[x].to])
  BY <1>0, <1>9 DEF SizesIn
<1>11. \A x \in 1..n : z[x] \in Nat
  <2> DEFINE V     == Nat \cup {z[x] : x \in 1..n}
             after == [q \in (1..n) \X V |-> SizeAt(q[1], q[2])]
  <2>1. \A x \in 1..n : \A v \in V : after[<<x, v>>] = SizeAt(x, v)
    OBVIOUS
  <2>2. \A v \in Nat : v \in V
    OBVIOUS
  <2>3. \A x \in 1..n : z[x] \in V
    OBVIOUS
  <2> HIDE DEF V, after
  <2>4. StaysIn(h, Nat, leaf, after)
    BY <1>0, <1>2, <1>4, <2>1, <2>2 DEF StaysIn
  <2>5. Along(h, z, leaf, after)
    <3> SUFFICES ASSUME NEW x \in 1..n
                 PROVE z[x] = IF h[x].to = 0 THEN leaf[x] ELSE after[<<x, z[h[x].to]>>]
      BY <1>10 DEF Along
    <3>1. CASE h[x].to = 0
      BY <1>1, <1>2, <1>10, <3>1
    <3>2. CASE h[x].to # 0
      <4>1. z[h[x].to] \in V
        BY <1>1, <2>3, <3>2
      <4> HIDE DEF SizeAt
      <4> QED
        BY <1>10, <2>1, <3>2, <4>1
    <3> QED
      BY <3>1, <3>2
  <2> QED
    BY <1>0, <1>10, <2>4, <2>5, AlongRange
<1>12. z \in [1..n -> Nat]
  BY <1>10, <1>11
<1> QED
  BY <1>0, <1>10, <1>12 DEF Sizes

\* parse_array_fix changes nothing but sizes, and those to what they are.
LEMMA FixResizes ==
  ASSUME Formed(heap), Grounded(heap), type \in 1..Len(heap)
  PROVE  \E z : Sizes(heap, z) /\ Resized(heap, z, parse_array_fix(heap), type)
<1>0. PICK n \in Nat : n = Len(heap)
  BY LenProperties DEF Formed
<1>1. PICK z : z = CHOOSE f : f = SizesIn(heap, f)
  OBVIOUS
<1>2. PICK r : r = CHOOSE f : f = ReachedIn(heap, type, f)
  OBVIOUS
<1>3. PICK R : R = r[Len(heap)]
  OBVIOUS
<1>4. Sizes(heap, z)
  BY <1>1, SizesAre
<1>5. type \in R
  BY <1>2, <1>3, TypeReached
<1>6. PICK g : g = parse_array_fix(heap)
  OBVIOUS
<1>7. g = [i \in 1..Len(heap) |-> IF i \in R THEN [heap[i] EXCEPT !.size = z[i]] ELSE heap[i]]
  <2>1. parse_array_fix(heap) =
          [i \in 1..Len(heap) |->
             IF i \in (CHOOSE f : f = ReachedIn(heap, type, f))[Len(heap)]
               THEN [heap[i] EXCEPT !.size = (CHOOSE f : f = SizesIn(heap, f))[i]]
               ELSE heap[i]]
    BY DEF parse_array_fix, SizesIn, ReachedIn
  <2> QED
    BY <1>1, <1>2, <1>3, <1>6, <2>1
<1>8. \A i \in 1..n : heap[i] \in CellType /\ z[i] \in Nat
  <2>1. \A i \in 1..n : heap[i] \in CellType
    BY <1>0, CellRead DEF CellOK
  <2> QED
    BY <1>0, <1>4, <2>1 DEF Sizes
<1>9. ASSUME NEW i \in 1..n
      PROVE  /\ g[i] \in CellType
             /\ Same(g[i], heap[i]) /\ g[i].isstatic = heap[i].isstatic
             /\ g[i].size = heap[i].size \/ g[i].size = z[i]
             /\ i \in R => g[i].size = z[i]
  <2>1. g[i] = IF i \in R THEN [heap[i] EXCEPT !.size = z[i]] ELSE heap[i]
    BY <1>0, <1>7
  <2> QED
    BY <1>8, <2>1 DEF CellType, Same
<1>10. g \in Seq(CellType) /\ Len(g) = n
  <2>1. g = [i \in 1..n |-> g[i]]
    BY <1>0, <1>7
  <2>2. g \in [1..n -> CellType]
    BY <1>9, <2>1
  <2> QED
    BY <2>2
<1>11. Resized(heap, z, g, type)
  BY <1>0, <1>5, <1>9, <1>10 DEF Resized
<1> QED
  BY <1>4, <1>6, <1>11

\* The size of what a walk says is the one its cells have, for what a walk goes through is
\* no stub and no int.
LEMMA WalkSizes ==
  ASSUME NEW h, Formed(h), NEW z, Sizes(h, z),
         NEW d \in Seq(PartType), NEW x, NEW y, Leads(h, x, d, y)
  PROVE  z[x] = SizeOf(d, z[y])
<1>0. PICK n \in Nat : n = Len(d)
  BY LenProperties
<1>1. PICK p \in [1..(n + 1) -> 1..Len(h)] : Walk(h, p, x, d, y)
  BY <1>0 DEF Leads
<1>2. /\ p[1] = x /\ p[n + 1] = y
      /\ \A j \in 1..n : d[j] = Part(h[p[j]]) /\ h[p[j]].to = p[j + 1]
  BY <1>0, <1>1 DEF Walk
<1> DEFINE Loop(f) == [i \in 1..(Len(d) + 1) |->
                         IF i > Len(d) THEN z[y]
                         ELSE IF d[i].is = "array" THEN d[i].length * f[i + 1]
                         ELSE IF d[i].is = "pointer" THEN PointerSize ELSE 0]
           w == [i \in 1..(n + 1) |-> z[p[i]]]
<1>3. SizeOf(d, z[y]) = (CHOOSE f : f = Loop(f))[1]
  BY DEF SizeOf
<1>4. \A f : Loop(f) = [i \in 1..(n + 1) |->
                         IF i > n THEN z[y]
                         ELSE IF d[i].is = "array" THEN d[i].length * f[i + 1]
                         ELSE IF d[i].is = "pointer" THEN PointerSize ELSE 0]
  BY <1>0
<1>5. w[1] = z[x] /\ \A i \in 1..(n + 1) : w[i] = z[p[i]]
  BY <1>2
<1> HIDE DEF Loop
<1>6. ASSUME NEW i \in 1..n
      PROVE  w[i] = IF d[i].is = "array" THEN d[i].length * w[i + 1]
                    ELSE IF d[i].is = "pointer" THEN PointerSize ELSE 0
  <2>1. PICK a \in 1..Len(h) : a = p[i]
    BY <1>1
  <2>2. PICK b \in 1..Len(h) : b = p[i + 1]
    BY <1>1
  <2>3. d[i] = Part(h[a]) /\ h[a].to = b
    BY <1>2, <2>1, <2>2
  <2>4. d[i].is = h[a].kind /\ d[i].length = h[a].length
    BY <2>3 DEF Part, Means
  <2>5. z[a] = IF h[a].kind = "array" THEN h[a].length * z[b] ELSE h[a].size
    BY <2>3 DEF Sizes
  <2>6. Len(h) \in Nat /\ CellOK(Len(h), h[a]) /\ h[a].kind \in Kinds
    BY CellRead
  <2>7. h[a].kind \in {"array", "function", "pointer"}
    BY <2>3, <2>6 DEF CellOK, Kinds
  <2>8. h[a].kind = "pointer" => h[a].size = PointerSize
    BY <2>6 DEF CellOK
  <2>9. h[a].kind = "function" => h[a].size = 0
    BY <2>6 DEF CellOK
  <2>10. w[i] = z[a] /\ w[i + 1] = z[b]
    BY <1>5, <2>1, <2>2
  <2> HIDE DEF w
  <2> QED
    BY <2>4, <2>5, <2>7, <2>8, <2>9, <2>10
<1>7. w[n + 1] = z[y]
  BY <1>2, <1>5
<1>8. w = [i \in 1..(n + 1) |-> w[i]]
  OBVIOUS
<1> HIDE DEF w
<1>9. w = Loop(w)
  <2>1. \A i \in 1..(n + 1) :
          w[i] = IF i > n THEN z[y]
                 ELSE IF d[i].is = "array" THEN d[i].length * w[i + 1]
                 ELSE IF d[i].is = "pointer" THEN PointerSize ELSE 0
    <3> SUFFICES ASSUME NEW i \in 1..(n + 1)
                 PROVE w[i] = IF i > n THEN z[y]
                              ELSE IF d[i].is = "array" THEN d[i].length * w[i + 1]
                              ELSE IF d[i].is = "pointer" THEN PointerSize ELSE 0
      OBVIOUS
    <3>1. CASE i = n + 1
      BY <1>7, <3>1
    <3>2. CASE i \in 1..n
      BY <1>6, <3>2
    <3> QED
      BY <3>1, <3>2
  <2> QED
    BY <1>4, <1>8, <2>1
<1> DEFINE g == CHOOSE f : f = Loop(f)
<1>10. g = Loop(g)
  BY <1>9
<1>11. SizeOf(d, z[y]) = g[1]
  BY <1>3
<1> HIDE DEF g
<1>12. \A i \in 1..(n + 1) :
         g[i] = IF i > n THEN z[y]
                ELSE IF d[i].is = "array" THEN d[i].length * g[i + 1]
                ELSE IF d[i].is = "pointer" THEN PointerSize ELSE 0
  BY <1>4, <1>10
<1> DEFINE T == {k \in 0..n : g[n + 1 - k] = w[n + 1 - k]}
<1>13. 0 \in T
  <2>1. n + 1 \in 1..(n + 1) /\ n + 1 > n /\ n + 1 - 0 = n + 1
    OBVIOUS
  <2> QED
    BY <1>7, <1>12, <2>1
<1>14. \A k \in 1..n : k - 1 \in T => k \in T
  <2> SUFFICES ASSUME NEW k \in 1..n, k - 1 \in T PROVE k \in T
    OBVIOUS
  <2>1. PICK i : i = n + 1 - k
    OBVIOUS
  <2>2. i \in 1..n /\ i \in 1..(n + 1) /\ ~(i > n) /\ i + 1 = n + 1 - (k - 1)
    BY <2>1
  <2>3. g[i + 1] = w[i + 1]
    BY <2>2
  <2>4. g[i] = w[i]
    BY <1>6, <1>12, <2>2, <2>3
  <2>5. k \in 0..n /\ g[n + 1 - k] = w[n + 1 - k]
    BY <2>1, <2>4
  <2> QED
    BY <2>5
<1> HIDE DEF T
<1>15. n \in T
  <2>1. \A k \in 0..n : k \in T
    BY <1>13, <1>14, BoundedInduction
  <2> QED
    BY <2>1
<1>16. g[n + 1 - n] = w[n + 1 - n] /\ n + 1 - n = 1
  BY <1>15 DEF T
<1> QED
  BY <1>5, <1>11, <1>16

-----------------------------------------------------------------------------
(* The parser: what holds whatever the parentheses                         *)

Innermost == Outer(base, calls, Len(calls) + 1)

TypeOK ==
  /\ base \in Nat /\ static \in BOOLEAN
  /\ lengths \in Seq(Nat) /\ derived \in Seq(PartType)
  /\ type \in 0..Len(heap) /\ result \in 0..Len(heap)
  /\ pc \in {"declaration", "direct", "restage", "arrays", "return", "next"}

\* The basetype is the stub of the innermost call or the base; after a ')', it is
\* what the call was given whose stub is about to be filled.
BasetypeInTurn ==
  basetype = IF type = 0 THEN Innermost ELSE Outer(base, calls, Len(calls))

Place ==
  /\ pc \in {"declaration", "next"} =>
       calls = << >> /\ type = 0 /\ lengths = << >> /\ derived = << >>
  /\ pc = "direct" => type = 0 /\ lengths = << >> /\ derived = << >>
  /\ pc \in {"direct", "restage", "arrays"} => BasetypeInTurn
  /\ pc \in {"restage", "arrays"} => (type # 0 => calls # << >>)
  /\ pc = "restage" => (type = 0 => derived = << >>)
  /\ pc = "arrays" => \E e \in Seq(PartType) : Leads(heap, result, e, basetype)
  /\ pc = "return" => type # 0 /\ lengths = << >>

Basic ==
  /\ TypeOK
  /\ Formed(heap) /\ Grounded(heap)
  /\ pc # "declaration" => BaseOK(heap, base)
  /\ CallsOK(heap, base, calls)
  /\ DeclsOK(heap, declared)
  /\ Place

\* With no call in progress there is nothing to say of the calls.
LEMMA NoCalls ==
  ASSUME NEW h, NEW b
  PROVE  CallsOK(h, b, << >>)
  BY DEF CallsOK

\* The cells the parser makes.
LEMMA CellsMade ==
  ASSUME NEW n \in Nat
  PROVE  /\ CellOK(n, IntCell) /\ IntCell.to = 0 /\ IntCell.kind = "int" /\ IntCell.isstatic = FALSE
         /\ CellOK(n, ast_type_stub) /\ ast_type_stub.to = 0 /\ ast_type_stub.kind = "stub"
         /\ ast_type_stub.isstatic = FALSE
         /\ \A t \in 1..n :
              /\ CellOK(n, ast_pointer(t)) /\ ast_pointer(t).to = t /\ ast_pointer(t).kind = "pointer"
              /\ Part(ast_pointer(t)) = Means("pointer", 0)
              /\ CellOK(n, ast_prototype(t)) /\ ast_prototype(t).to = t
              /\ ast_prototype(t).kind = "function" /\ ast_prototype(t).isstatic = FALSE
              /\ Part(ast_prototype(t)) = Means("function", 0)
  BY DEF CellOK, CellType, Kinds, IntCell, ast_type_stub, ast_pointer, ast_prototype, Cell,
         IntSize, PointerSize, Part, Means

\* An array of a length, of what is in the heap.
LEMMA ArrayMade ==
  ASSUME Formed(heap), NEW t \in 1..Len(heap), NEW length \in Nat
  PROVE  /\ CellOK(Len(heap), ast_array(t, length)) /\ ast_array(t, length).to = t
         /\ ast_array(t, length).kind = "array" /\ ast_array(t, length).isstatic = FALSE
         /\ Part(ast_array(t, length)) = Means("array", length)
<1>1. Len(heap) \in Nat /\ heap[t].size \in Nat
  BY CellRead
<1>2. heap[t].size * length \in Nat
  BY <1>1
<1> QED
  BY <1>1, <1>2 DEF CellOK, CellType, Kinds, ast_array, Cell, Part, Means

\* With nothing declared the cells are those of the specifiers.
LEMMA InitBasic == Init => Basic
<1> SUFFICES ASSUME Init PROVE Basic
  OBVIOUS
<1>1. PICK c : /\ heap = <<IntCell, c>>
               /\ c = Cell("array", 1, 3, 3 * IntSize) \/ c = Cell("function", 1, 0, 0)
  BY DEF Init
<1>2. c \in CellType /\ c.kind \in {"array", "function"} /\ c.to = 1 /\ CellOK(2, c)
  <2>1. 3 * IntSize \in Nat
    BY DEF IntSize
  <2>2. PICK k \in Nat : k = 3 * IntSize
    BY <2>1
  <2>3. CASE c = Cell("array", 1, 3, 3 * IntSize)
    <3>1. c = [kind |-> "array", to |-> 1, length |-> 3, size |-> k, isstatic |-> FALSE]
      BY <2>2, <2>3 DEF Cell
    <3> QED
      BY <3>1 DEF CellType, Kinds, CellOK
  <2>4. CASE c = Cell("function", 1, 0, 0)
    <3>1. c = [kind |-> "function", to |-> 1, length |-> 0, size |-> 0, isstatic |-> FALSE]
      BY <2>4 DEF Cell
    <3> QED
      BY <3>1 DEF CellType, Kinds, CellOK
  <2> QED
    BY <1>1, <2>3, <2>4
<1>3. IntCell \in CellType /\ CellOK(2, IntCell) /\ IntCell.to = 0 /\ IntCell.kind = "int"
  BY CellsMade DEF CellOK
<1>4. heap \in Seq(CellType) /\ Len(heap) = 2 /\ heap[1] = IntCell /\ heap[2] = c
  BY <1>1, <1>2, <1>3
<1>5. Formed(heap)
  BY <1>2, <1>3, <1>4 DEF Formed
<1>6. Grounded(heap)
  <2>0. 1 \in 1..Len(heap) /\ heap[1].to = 0
    BY <1>3, <1>4
  <2>1. Leads(heap, 1, << >>, 1) /\ << >> \in Seq(PartType) /\ 1 \in 1..Len(heap) /\ heap[1].to = 0
    BY <2>0, LeadsNowhere
  <2>2. 2 \in 1..Len(heap) /\ heap[2].to = 1 /\ heap[2].to \in 1..Len(heap)
    BY <1>2, <1>4
  <2>3. \E f \in Seq(PartType) : Leads(heap, 2, f, 1) /\ f = <<Part(heap[2])>> \o << >>
    BY <1>5, <2>1, <2>2, StepAndWalk
  <2>4. \A x \in 1..Len(heap) : x = 1 \/ x = 2
    BY <1>4
  <2> QED
    BY <2>1, <2>3, <2>4 DEF Grounded
<1>7. TypeOK /\ pc = "declaration"
  <2>1. base = 0 /\ static = FALSE /\ type = 0 /\ result = 0 /\ lengths = << >> /\ derived = << >>
    BY DEF Init
  <2>2. 0 \in 0..Len(heap)
    BY <1>4
  <2>3. pc = "declaration"
    BY DEF Init
  <2>4. static \in BOOLEAN
    BY <2>1, Zenon
  <2>5. lengths \in Seq(Nat) /\ derived \in Seq(PartType) /\ base \in Nat
    BY <2>1
  <2>6. type \in 0..Len(heap) /\ result \in 0..Len(heap)
    BY <2>1, <2>2
  <2> QED
    BY <2>3, <2>4, <2>5, <2>6 DEF TypeOK
<1>8. CallsOK(heap, base, calls)
  BY NoCalls DEF Init
<1>9. DeclsOK(heap, declared)
  BY DEF Init, DeclsOK
<1>10. Place
  BY DEF Init, Place
<1> QED
  BY <1>5, <1>6, <1>7, <1>8, <1>9, <1>10 DEF Basic

\* The heap of the typedef, or with an int of the declaration's own.
LEMMA SpecificationBasic ==
  ASSUME Basic, NEW istypedef \in BOOLEAN, NEW isstatic \in BOOLEAN,
         Specification(istypedef, isstatic)
  PROVE  Basic'
<1>1. Formed(heap) /\ Grounded(heap) /\ Len(heap) \in Nat /\ Len(heap) >= 2
  BY LenProperties DEF Basic, Formed
<1>2. pc = "declaration" /\ calls = << >> /\ type = 0 /\ lengths = << >> /\ derived = << >>
  BY DEF Basic, Place, Specification
<1>3. /\ Formed(heap') /\ Grounded(heap') /\ Len(heap') \in Nat /\ Len(heap) <= Len(heap')
      /\ \A i \in 1..Len(heap) : heap'[i] = heap[i]
      /\ BaseOK(heap', base')
  <2>1. CASE istypedef
    <3>1. heap' = heap /\ base' = 2
      BY <2>1 DEF Specification
    <3> QED
      BY <1>1, <3>1 DEF BaseOK
  <2>2. CASE ~istypedef
    <3>1. Adds(heap, IntCell, heap') /\ base' = Len(heap) + 1
      BY <2>2 DEF Specification, Adds
    <3>2. CellOK(Len(heap), IntCell) /\ IntCell.kind = "int"
      BY <1>1, CellsMade
    <3>3. Formed(heap') /\ Added(heap, IntCell, heap')
      BY <1>1, <3>1, <3>2, CellAdded
    <3>4. Grounded(heap')
      BY <1>1, <3>2, <3>3, GroundedAdded
    <3> QED
      BY <1>1, <3>1, <3>2, <3>3, <3>4 DEF Added, BaseOK
  <2> QED
    BY <2>1, <2>2
<1>4. base' \in 1..Len(heap')
  BY <1>3 DEF BaseOK, Formed
<1>5. TypeOK'
  BY <1>1, <1>3, <1>4 DEF Basic, TypeOK, Specification
<1>6. CallsOK(heap', base', calls')
  BY <1>2, NoCalls DEF Specification
<1>7. DeclsOK(heap', declared')
  BY <1>1, <1>3, DeclsKept DEF Basic, Specification
<1>8. Place'
  <2>1. Innermost' = base'
    BY <1>2 DEF Innermost, Outer, Specification
  <2> QED
    BY <1>2, <2>1 DEF Place, BasetypeInTurn, Specification
<1> QED
  BY <1>3, <1>5, <1>6, <1>7, <1>8 DEF Basic

\* A star or a parenthesis: the call gets a stub of its own.
LEMMA NestedBasic ==
  ASSUME Basic, NEW is \in {"*", "("}, Nested(is)
  PROVE  Basic'
<1>1. Formed(heap) /\ Grounded(heap) /\ Len(heap) \in Nat /\ BaseOK(heap, base) /\ CallsOK(heap, base, calls)
  BY LenProperties DEF Basic, Formed, Nested
<1>2. /\ pc = "direct" /\ type = 0 /\ lengths = << >> /\ derived = << >>
      /\ basetype = Outer(base, calls, Len(calls) + 1)
  BY DEF Basic, Place, BasetypeInTurn, Innermost, Nested
<1>3. CellOK(Len(heap), ast_type_stub)
  BY <1>1, CellsMade
<1>4. Adds(heap, ast_type_stub, heap')
  BY DEF Nested, Adds
<1>5. Formed(heap') /\ Added(heap, ast_type_stub, heap')
  BY <1>1, <1>3, <1>4, CellAdded
<1>6. Grounded(heap')
  BY <1>1, <1>3, <1>5, GroundedAdded
<1>7. /\ Len(heap') = Len(heap) + 1 /\ Len(heap') \in Nat /\ Len(heap) <= Len(heap')
      /\ \A i \in 1..Len(heap) : heap'[i] = heap[i]
  BY <1>1, <1>5 DEF Added
<1>8. Begins(base, calls, Len(heap), is, calls')
  BY <1>2 DEF Begins, Nested
<1>9. CallsOK(heap', base, calls') /\ Outer(base, calls', Len(calls') + 1) = Len(heap) + 1
  BY <1>1, <1>4, <1>8, CallPushed
<1>10. BaseOK(heap', base)
  BY <1>1, <1>7, BaseKept
<1>11. DeclsOK(heap', declared)
  BY <1>1, <1>7, DeclsKept DEF Basic
<1>12. TypeOK'
  BY <1>1, <1>7 DEF Basic, TypeOK, Nested
<1>13. Place'
  BY <1>2, <1>9 DEF Place, BasetypeInTurn, Innermost, Nested
<1>14. base' = base /\ declared' = declared
  BY DEF Nested
<1> QED
  BY <1>5, <1>6, <1>9, <1>10, <1>11, <1>12, <1>13, <1>14 DEF Basic

\* Steps that leave the cells, the calls and the declarators alone.
Quiet == UNCHANGED <<heap, base, static, calls, declared>>

\* A step that touches neither cells nor calls has to show only where it leaves the parser.
LEMMA QuietBasic ==
  ASSUME Basic, Quiet, TypeOK', Place', BaseOK(heap, base)
  PROVE  Basic'
  BY DEF Basic, Quiet

\* The name of a declarator.
LEMMA NameBasic ==
  ASSUME Basic, Name
  PROVE  Basic'
<1>1. Quiet /\ BaseOK(heap, base) /\ TypeOK'
  BY DEF Basic, Quiet, Name, TypeOK
<1>2. Place'
  BY DEF Basic, Place, BasetypeInTurn, Innermost, Name
<1> QED
  BY <1>1, <1>2, QuietBasic

\* A subscript after the name or after a parenthesis.
LEMMA SubscriptBasic ==
  ASSUME Basic, NEW length \in Lengths, Subscript(length)
  PROVE  Basic'
<1>1. length \in Nat
  BY DeclaratorAssumption
<1>2. Quiet /\ BaseOK(heap, base) /\ TypeOK'
  BY <1>1, AppendProperties DEF Basic, Quiet, Subscript, TypeOK
<1>3. Place'
  BY DEF Basic, Place, BasetypeInTurn, Innermost, Subscript
<1> QED
  BY <1>2, <1>3, QuietBasic

\* The dimensions read so far, as derivations.
LEMMA ArraysAreParts ==
  ASSUME TypeOK
  PROVE  Arrays \in Seq(PartType) /\ Len(Arrays) = Len(lengths) /\ (lengths = << >> => Arrays = << >>)
<1>1. Len(lengths) \in Nat /\ \A i \in 1..Len(lengths) : lengths[i] \in Nat
  BY LenProperties DEF TypeOK
<1>2. \A i \in 1..Len(lengths) : Means("array", lengths[i]) \in PartType
  BY <1>1 DEF Means, PartType, Kinds
<1>3. Arrays \in [1..Len(lengths) -> PartType]
  BY <1>2 DEF Arrays
<1>4. Arrays \in Seq(PartType) /\ Len(Arrays) = Len(lengths)
  BY <1>1, <1>3
<1> QED
  BY <1>1, <1>4, EmptySeq

\* What is passed on as a basetype is a cell.
LEMMA BasetypeIsCell ==
  ASSUME Basic, pc \in {"direct", "restage", "arrays"}
  PROVE  basetype \in 1..Len(heap) /\ BaseOK(heap, base)
<1>1. Formed(heap) /\ BaseOK(heap, base) /\ CallsOK(heap, base, calls)
  BY DEF Basic
<1>2. Len(calls) \in Nat /\ \A k \in 1..(Len(calls) + 1) : Outer(base, calls, k) \in 1..Len(heap)
  BY <1>1, InnermostIsCell
<1>3. type # 0 => Len(calls) \in 1..(Len(calls) + 1)
  <2> SUFFICES ASSUME type # 0 PROVE Len(calls) \in 1..(Len(calls) + 1)
    OBVIOUS
  <2>1. calls # << >>
    BY DEF Basic, Place
  <2>2. Len(calls) # 0
    BY <1>1, <2>1, EmptySeq DEF CallsOK
  <2> QED
    BY <1>2, <2>2
<1>4. basetype = Outer(base, calls, Len(calls) + 1) \/ (type # 0 /\ basetype = Outer(base, calls, Len(calls)))
  BY <1>1 DEF Basic, Place, BasetypeInTurn, Innermost
<1> QED
  BY <1>1, <1>2, <1>3, <1>4

\* A declarator ends without a subscript, or after its last one.
LEMMA NoSuffixBasic ==
  ASSUME Basic, NoSuffix
  PROVE  Basic'
<1>1. Formed(heap) /\ BaseOK(heap, base) /\ CallsOK(heap, base, calls) /\ TypeOK /\ pc = "restage"
  BY DEF Basic, NoSuffix
<1>2. basetype \in 1..Len(heap)
  BY <1>1, BasetypeIsCell
<1>3. derived' \in Seq(PartType)
  BY <1>1, ArraysAreParts, ConcatProperties DEF NoSuffix, TypeOK
<1>4. Quiet
  BY DEF Quiet, NoSuffix
<1>5. TypeOK'
  BY <1>1, <1>2, <1>3 DEF NoSuffix, TypeOK
<1>6. Leads(heap, basetype, << >>, basetype) /\ << >> \in Seq(PartType)
  BY <1>2, LeadsNowhere
<1>7. Place'
  BY <1>6 DEF Basic, Place, BasetypeInTurn, Innermost, NoSuffix
<1> QED
  BY <1>1, <1>4, <1>5, <1>7, QuietBasic

\* Steps that add a cell, while suffixes are applied.
LEMMA CellBasic ==
  ASSUME Basic, pc \in {"restage", "arrays"}, NEW c, CellOK(Len(heap), c), Adds(heap, c, heap'),
         UNCHANGED <<base, static, calls, declared>>, TypeOK', Place'
  PROVE  Basic'
<1>1. Formed(heap) /\ Grounded(heap) /\ Len(heap) \in Nat /\ BaseOK(heap, base) /\ CallsOK(heap, base, calls)
  BY LenProperties DEF Basic, Formed
<1>2. Formed(heap') /\ Added(heap, c, heap')
  BY <1>1, CellAdded
<1>3. Grounded(heap')
  BY <1>1, <1>2, GroundedAdded
<1>4. /\ Len(heap') \in Nat /\ Len(heap) <= Len(heap')
      /\ \A i \in 1..Len(heap) : heap'[i] = heap[i]
  BY <1>1, <1>2 DEF Added
<1>5. CallsOK(heap', base, calls)
  BY <1>1, <1>4, CallsKept
<1>6. BaseOK(heap', base)
  BY <1>1, <1>4, BaseKept
<1>7. DeclsOK(heap', declared)
  BY <1>1, <1>4, DeclsKept DEF Basic
<1> QED
  BY <1>2, <1>3, <1>5, <1>6, <1>7 DEF Basic

\* A new cell leads to what it refers to, and on.
LEMMA CellLeads ==
  ASSUME NEW h, Formed(h), NEW c, CellOK(Len(h), c), NEW g, Adds(h, c, g),
         NEW d \in Seq(PartType), NEW y, c.to # 0, Leads(h, c.to, d, y)
  PROVE  \E f \in Seq(PartType) : Leads(g, Len(h) + 1, f, y) /\ f = <<Part(c)>> \o d
<1>1. Formed(g) /\ Added(h, c, g)
  BY CellAdded
<1>2. /\ Len(h) \in Nat /\ Len(g) = Len(h) + 1 /\ g[Len(h) + 1] = c
      /\ \A i \in 1..Len(h) : g[i] = h[i]
  BY <1>1 DEF Added
<1>3. Keeps(h, g)
  BY <1>2 DEF Keeps, Same
<1>4. PICK x \in 1..Len(g) : x = Len(h) + 1 /\ g[x] = c
  BY <1>2
<1>5. g[x].to \in 1..Len(g) /\ Leads(g, g[x].to, d, y)
  <2>1. Leads(g, c.to, d, y)
    BY <1>3, LenProperties, WalkKept
  <2> QED
    BY <1>2, <1>4, <2>1 DEF CellOK
<1>6. \E f \in Seq(PartType) : Leads(g, x, f, y) /\ f = <<Part(g[x])>> \o d
  BY <1>1, <1>5, StepAndWalk
<1> QED
  BY <1>4, <1>6

\* Empty parameter lists make the type of a function.
LEMMA ParametersBasic ==
  ASSUME Basic, Parameters
  PROVE  Basic'
<1>1. Formed(heap) /\ TypeOK /\ Place /\ pc = "restage" /\ Len(heap) \in Nat
  BY LenProperties DEF Basic, Parameters, Formed
<1>2. PICK c : c = ast_prototype(basetype)
  OBVIOUS
<1>3. basetype \in 1..Len(heap)
  BY <1>1, BasetypeIsCell
<1>4. CellOK(Len(heap), c) /\ c.to = basetype
  BY <1>1, <1>2, <1>3, CellsMade
<1>5. Adds(heap, c, heap') /\ pc' = "arrays" /\ result' = Len(heap) + 1
  BY <1>2 DEF Parameters, Adds
<1>6. Len(heap') = Len(heap) + 1
  BY <1>1, <1>4, <1>5, CellAdded DEF Added
<1>7. TypeOK'
  <2>1. derived' \in Seq(PartType)
    <3>1. <<Means("function", 0)>> \in Seq(PartType)
      BY DEF Means, PartType, Kinds
    <3>2. derived \in Seq(PartType) /\ Arrays \in Seq(PartType)
      BY <1>1, ArraysAreParts DEF TypeOK
    <3>3. derived \o Arrays \in Seq(PartType)
      BY <3>2, ConcatProperties
    <3>4. (derived \o Arrays) \o <<Means("function", 0)>> \in Seq(PartType)
      BY <3>1, <3>3, ConcatProperties
    <3> QED
      BY <3>4 DEF Parameters
  <2>2. type' \in 0..Len(heap') /\ result' \in 0..Len(heap')
    BY <1>1, <1>5, <1>6 DEF TypeOK, Parameters
  <2> QED
    BY <1>1, <1>5, <2>1, <2>2 DEF TypeOK, Parameters
<1>8. \E e \in Seq(PartType) : Leads(heap', result', e, basetype)
  <2>1. Leads(heap, c.to, << >>, basetype) /\ << >> \in Seq(PartType) /\ c.to # 0
    BY <1>1, <1>3, <1>4, LeadsNowhere
  <2>2. \E f \in Seq(PartType) : Leads(heap', Len(heap) + 1, f, basetype) /\ f = <<Part(c)>> \o << >>
    <3>1. /\ Formed(heap) /\ CellOK(Len(heap), c) /\ Adds(heap, c, heap')
          /\ << >> \in Seq(PartType) /\ c.to # 0 /\ Leads(heap, c.to, << >>, basetype)
      BY <1>1, <1>4, <1>5, <2>1
    <3> QED
      BY ONLY <3>1, CellLeads
  <2> QED
    BY <1>5, <2>2
<1>9. Place'
  <2>1. UNCHANGED <<base, calls, basetype, type>>
    BY DEF Parameters
  <2>2. BasetypeInTurn /\ (type # 0 => calls # << >>)
    BY <1>1 DEF Place
  <2>3. BasetypeInTurn'
    BY <2>1, <2>2 DEF BasetypeInTurn, Innermost
  <2> QED
    BY <1>5, <1>8, <2>1, <2>2, <2>3 DEF Place
<1>10. UNCHANGED <<base, static, calls, declared>>
  BY DEF Parameters
<1> QED
  BY <1>1, <1>4, <1>5, <1>7, <1>9, <1>10, CellBasic

\* A length makes the type of an array.
LEMMA ArrayBasic ==
  ASSUME Basic, Array
  PROVE  Basic'
<1>1. /\ Formed(heap) /\ TypeOK /\ Place /\ pc = "arrays" /\ Len(heap) \in Nat
      /\ lengths # << >> /\ pc' = "arrays" /\ result' = Len(heap) + 1
  BY LenProperties DEF Basic, Array, Formed
<1>2. PICK e \in Seq(PartType) : Leads(heap, result, e, basetype)
  BY <1>1 DEF Place
<1>3. result \in 1..Len(heap)
  BY <1>2, LenProperties, WalkEnds
<1>4. /\ lengths' \in Seq(Nat) /\ Last(lengths) \in Nat
  <2>1. lengths \in Seq(Nat) /\ lengths' = SubSeq(lengths, 1, Len(lengths) - 1)
    BY <1>1 DEF Array, TypeOK, Front
  <2> QED
    BY <1>1, <2>1, Popped DEF Last
<1>5. PICK c : c = ast_array(result, Last(lengths))
  OBVIOUS
<1>6. CellOK(Len(heap), c) /\ c.to = result
  BY <1>1, <1>3, <1>4, <1>5, ArrayMade
<1>7. Adds(heap, c, heap')
  BY <1>5 DEF Array, Adds
<1>8. Len(heap') = Len(heap) + 1
  BY <1>1, <1>6, <1>7, CellAdded DEF Added
<1>9. TypeOK'
  <2>1. type' \in 0..Len(heap') /\ result' \in 0..Len(heap')
    BY <1>1, <1>8 DEF TypeOK, Array
  <2> QED
    BY <1>1, <1>4, <2>1 DEF TypeOK, Array
<1>10. \E f \in Seq(PartType) : Leads(heap', result', f, basetype)
  <2>1. Leads(heap, c.to, e, basetype) /\ c.to # 0
    BY <1>2, <1>3, <1>6
  <2>2. \E f \in Seq(PartType) : Leads(heap', Len(heap) + 1, f, basetype) /\ f = <<Part(c)>> \o e
    <3>1. /\ Formed(heap) /\ CellOK(Len(heap), c) /\ Adds(heap, c, heap')
          /\ e \in Seq(PartType) /\ c.to # 0 /\ Leads(heap, c.to, e, basetype)
      BY <1>1, <1>6, <1>7, <2>1
    <3> QED
      BY ONLY <3>1, CellLeads
  <2> QED
    BY <1>1, <2>2
<1>11. Place'
  <2>1. UNCHANGED <<base, calls, basetype, type>>
    BY DEF Array
  <2>2. BasetypeInTurn /\ (type # 0 => calls # << >>)
    BY <1>1 DEF Place
  <2>3. BasetypeInTurn'
    BY <2>1, <2>2 DEF BasetypeInTurn, Innermost
  <2> QED
    BY <1>1, <1>10, <2>1, <2>2, <2>3 DEF Place
<1>12. UNCHANGED <<base, static, calls, declared>>
  BY DEF Array
<1> QED
  BY <1>1, <1>6, <1>7, <1>9, <1>11, <1>12, CellBasic

\* What a call was given for a basetype does not lead to its own stub.
LEMMA OuterAnchored ==
  ASSUME Basic, BaseOK(heap, base), calls # << >>
  PROVE  Anchored(heap, Outer(base, calls, Len(calls)), top.stub)
<1>1. PICK n \in Nat : Len(calls) = n /\ n > 0
  BY EmptySeq, LenProperties DEF Basic, CallsOK
<1>2. Formed(heap) /\ Len(heap) \in Nat /\ Len(heap) >= 2
  BY LenProperties DEF Basic, Formed
<1>3. PICK s : s = top.stub
  OBVIOUS
<1>4. s = calls[n].stub /\ s \in 1..Len(heap) /\ heap[s].kind = "stub"
  BY <1>1, <1>3 DEF Basic, CallsOK, top
<1>5. << >> \in Seq(PartType)
  OBVIOUS
<1>6. ASSUME NEW y \in 1..Len(heap), heap[y].kind \in {"int", "stub"}, y # s
      PROVE  Anchored(heap, y, s)
  <2>1. Leads(heap, y, << >>, y)
    BY LeadsNowhere
  <2>2. heap[y].to = 0
    BY <1>2, <1>6, CellRead DEF CellOK
  <2> QED
    BY <1>5, <1>6, <2>1, <2>2 DEF Anchored
<1>7. CASE n = 1
  <2>1. Outer(base, calls, n) = base
    BY <1>7 DEF Outer
  <2>2. CASE base = 2
    <3>1. 1 \in 1..Len(heap) /\ 2 \in 1..Len(heap) /\ heap[1].kind = "int" /\ heap[2].to = 1
      BY <1>2 DEF Formed
    <3>2. Leads(heap, 1, << >>, 1)
      BY <3>1, LeadsNowhere
    <3>3. heap[2].to \in 1..Len(heap) /\ Leads(heap, heap[2].to, << >>, 1)
      BY <3>1, <3>2
    <3>4. \E f \in Seq(PartType) : Leads(heap, 2, f, 1) /\ f = <<Part(heap[2])>> \o << >>
      BY <1>2, <1>5, <3>1, <3>3, StepAndWalk
    <3>5. heap[1].to = 0 /\ 1 # s
      BY <1>2, <1>4, <3>1, CellRead DEF CellOK
    <3> QED
      BY <1>1, <1>3, <2>1, <2>2, <3>1, <3>4, <3>5 DEF Anchored
  <2>3. CASE base # 2
    <3>1. base \in 1..Len(heap) /\ heap[base].kind = "int" /\ base # s
      BY <1>4, <2>3 DEF BaseOK
    <3> QED
      BY <1>1, <1>3, <1>6, <2>1, <3>1
  <2> QED
    BY <2>2, <2>3
<1>8. CASE n # 1
  <2>1. n - 1 \in 1..Len(calls) /\ n \in 1..Len(calls) /\ n - 1 # n
    BY <1>1, <1>8
  <2>2. Outer(base, calls, n) = calls[n - 1].stub
    BY <1>8 DEF Outer
  <2>3. calls[n - 1].stub \in 1..Len(heap) /\ heap[calls[n - 1].stub].kind = "stub"
    BY <2>1 DEF Basic, CallsOK
  <2>4. calls[n - 1].stub # s
    BY <1>4, <2>1 DEF Basic, CallsOK
  <2> QED
    BY <1>1, <1>3, <1>6, <2>2, <2>3, <2>4
<1> QED
  BY <1>7, <1>8

\* Nor does what is behind its first cell.
LEMMA AnchoredStep ==
  ASSUME NEW h, Formed(h), NEW x \in 1..Len(h), NEW s, Anchored(h, x, s)
  PROVE  h[x].to = 0 \/ Anchored(h, h[x].to, s)
<1>1. PICK d \in Seq(PartType), y \in 1..Len(h) : Leads(h, x, d, y) /\ h[y].to = 0 /\ y # s
  BY DEF Anchored
<1>2. CASE d = << >>
  <2>1. x = y
    BY <1>1, <1>2, NowhereLeads
  <2> QED
    BY <1>1, <2>1
<1>3. CASE d # << >>
  <2>1. Leads(h, h[x].to, Tail(d), y) /\ Tail(d) \in Seq(PartType)
    BY <1>1, <1>3, FirstStep, HeadTailProperties
  <2> QED
    BY <1>1, <2>1 DEF Anchored
<1> QED
  BY <1>2, <1>3

\* Steps that fill the stub of the innermost call, which then is over.
LEMMA StubBasic ==
  ASSUME Basic, BaseOK(heap, base), calls # << >>, NEW c, CellOK(Len(heap), c),
         c.to = 0 \/ Anchored(heap, c.to, top.stub), Fills(heap, top.stub, c, heap'),
         Returns(calls, calls'), UNCHANGED <<base, static, declared>>, TypeOK', Place'
  PROVE  Basic'
<1>1. Formed(heap) /\ Grounded(heap) /\ Len(heap) \in Nat /\ CallsOK(heap, base, calls)
  BY LenProperties DEF Basic, Formed
<1>2. PICK s : s = top.stub /\ s = calls[Len(calls)].stub
  BY DEF top
<1>3. s \in 1..Len(heap) /\ heap[s].kind = "stub"
  <2>1. Len(calls) \in Nat /\ Len(calls) # 0
    BY <1>1, EmptySeq, LenProperties DEF CallsOK
  <2>2. Len(calls) \in 1..Len(calls)
    BY <2>1
  <2> QED
    BY <1>1, <1>2, <2>2 DEF CallsOK
<1>4. Fills(heap, s, c, heap') /\ (c.to = 0 \/ Anchored(heap, c.to, s))
  BY <1>2
<1>5. Formed(heap') /\ Filled(heap, s, c, heap')
  BY <1>1, <1>3, <1>4, CellFilled
<1>6. Grounded(heap') /\ Keeps(heap, heap')
  BY <1>1, <1>3, <1>4, <1>5, GroundedFilled
<1>7. CallsOK(heap', base, calls')
  <2>1. Over(heap, base, calls, c, heap', calls')
    BY <1>1, <1>2, <1>5 DEF Over
  <2> QED
    BY <2>1, CallPopped
<1>8. /\ Len(heap') \in Nat /\ Len(heap) <= Len(heap')
      /\ \A i \in 1..Len(heap) : heap[i].kind # "stub" => heap'[i].kind = heap[i].kind
  BY <1>1, <1>3, <1>5 DEF Filled
<1>9. BaseOK(heap', base)
  BY <1>1, <1>8, BaseKept
<1>10. DeclsOK(heap', declared)
  BY <1>1, <1>8, DeclsKept DEF Basic
<1> QED
  BY <1>5, <1>6, <1>7, <1>9, <1>10 DEF Basic

\* What is copied into a stub does not lead back to it.
LEMMA CopyAnchored ==
  ASSUME Basic, pc = "arrays", type # 0
  PROVE  /\ calls # << >> /\ BaseOK(heap, base) /\ result \in 1..Len(heap)
         /\ basetype = Outer(base, calls, Len(calls))
         /\ CellOK(Len(heap), heap[result])
         /\ heap[result].to = 0 \/ Anchored(heap, heap[result].to, top.stub)
<1>1. /\ Formed(heap) /\ Place /\ BaseOK(heap, base) /\ calls # << >>
      /\ basetype = Outer(base, calls, Len(calls))
  BY DEF Basic, Place, BasetypeInTurn
<1>2. PICK e \in Seq(PartType) : Leads(heap, result, e, basetype)
  BY <1>1 DEF Place
<1>3. result \in 1..Len(heap)
  BY <1>2, LenProperties, WalkEnds
<1>4. Anchored(heap, basetype, top.stub)
  BY <1>1, OuterAnchored
<1>5. PICK d \in Seq(PartType), y \in 1..Len(heap) :
        Leads(heap, basetype, d, y) /\ heap[y].to = 0 /\ y # top.stub
  BY <1>4 DEF Anchored
<1>6. PICK f : f = e \o d
  OBVIOUS
<1>7. f \in Seq(PartType) /\ Leads(heap, result, f, y)
  BY <1>2, <1>5, <1>6, Joined
<1>8. Anchored(heap, result, top.stub)
  BY <1>5, <1>7 DEF Anchored
<1> QED
  BY <1>1, <1>3, <1>8, AnchoredStep, CellRead

\* The suffixes have been read: the stub of the parenthesis is filled in.
LEMMA RestagedBasic ==
  ASSUME Basic, Restaged
  PROVE  Basic'
<1>1. Formed(heap) /\ TypeOK /\ Place /\ pc = "arrays" /\ Len(heap) \in Nat
  BY LenProperties DEF Basic, Restaged, Formed
<1>2. pc' = "return" /\ lengths' = << >> /\ derived' = derived /\ base' = base /\ static' = static
      /\ declared' = declared /\ result' = result /\ lengths = << >>
  BY DEF Restaged
<1>3. CASE type = 0
  <2>1. type' = result /\ heap' = heap /\ calls' = calls
    BY <1>3 DEF Restaged
  <2>2. result \in 1..Len(heap)
    <3>1. PICK e \in Seq(PartType) : Leads(heap, result, e, basetype)
      BY <1>1 DEF Place
    <3> QED
      BY <3>1, LenProperties, WalkEnds
  <2>3. TypeOK'
    BY <1>1, <1>2, <2>1, <2>2 DEF TypeOK
  <2>4. Place'
    BY <1>1, <1>2, <2>1, <2>2 DEF Place
  <2>5. Quiet /\ BaseOK(heap, base)
    BY <1>1, <1>2, <2>1 DEF Quiet, Basic
  <2> QED
    BY <2>3, <2>4, <2>5, QuietBasic
<1>4. CASE type # 0
  <2>1. heap' = [heap EXCEPT ![top.stub] = heap[result]] /\ calls' = Front(calls) /\ type' = type
    BY <1>4 DEF Restaged
  <2>2. PICK c : c = heap[result]
    OBVIOUS
  <2>3. Fills(heap, top.stub, c, heap') /\ Returns(calls, calls')
    BY <2>1, <2>2 DEF Fills, Returns
  <2>4. /\ calls # << >> /\ BaseOK(heap, base) /\ CellOK(Len(heap), c)
        /\ c.to = 0 \/ Anchored(heap, c.to, top.stub)
    BY <1>1, <1>4, <2>2, CopyAnchored
  <2>5. Len(heap') = Len(heap)
    BY <1>1, <2>1 DEF Formed
  <2>6. TypeOK'
    BY <1>1, <1>2, <2>1, <2>5 DEF TypeOK
  <2>7. Place'
    BY <1>2, <1>4, <2>1 DEF Place
  <2> QED
    BY <1>2, <2>3, <2>4, <2>6, <2>7, StubBasic
<1> QED
  BY <1>3, <1>4

\* Back in a call for a star: its stub becomes a pointer.
LEMMA PointerBasic ==
  ASSUME Basic, Pointer
  PROVE  Basic'
<1>1. /\ Formed(heap) /\ TypeOK /\ Place /\ pc = "return" /\ calls # << >> /\ BaseOK(heap, base)
      /\ CallsOK(heap, base, calls) /\ Len(heap) \in Nat
  BY LenProperties DEF Basic, Pointer, Formed
<1>2. PICK t : t = top.basetype
  OBVIOUS
<1>3. PICK c : c = ast_pointer(t)
  OBVIOUS
<1>4. Fills(heap, top.stub, c, heap') /\ Returns(calls, calls')
  BY <1>2, <1>3 DEF Pointer, Fills, Returns
<1>5. Len(calls) \in 1..Len(calls)
  <2>1. Len(calls) \in Nat /\ Len(calls) # 0
    BY <1>1, EmptySeq, LenProperties DEF CallsOK
  <2> QED
    BY <2>1
<1>6. t = Outer(base, calls, Len(calls))
  BY <1>1, <1>2, <1>5 DEF CallsOK, top
<1>7. t \in 1..Len(heap)
  BY <1>1, <1>5, <1>6, InnermostIsCell
<1>8. CellOK(Len(heap), c) /\ c.to = t
  BY <1>1, <1>3, <1>7, CellsMade
<1>9. Anchored(heap, c.to, top.stub)
  BY <1>1, <1>6, <1>8, OuterAnchored
<1>10. Len(heap') = Len(heap)
  BY <1>1 DEF Formed, Pointer
<1>11. TypeOK'
  <2>1. Means("pointer", 0) \in PartType
    BY DEF Means, PartType, Kinds
  <2>2. derived' \in Seq(PartType)
    BY <1>1, <2>1, AppendProperties DEF TypeOK, Pointer
  <2> QED
    BY <1>1, <1>10, <2>2 DEF TypeOK, Pointer
<1>12. Place'
  BY <1>1 DEF Place, Pointer
<1>13. UNCHANGED <<base, static, declared>>
  BY DEF Pointer
<1> QED
  BY <1>1, <1>4, <1>8, <1>9, <1>11, <1>12, <1>13, StubBasic

\* Back in a call for a parenthesis: the suffixes after it are next.
LEMMA ParenthesisBasic ==
  ASSUME Basic, Parenthesis
  PROVE  Basic'
<1>1. TypeOK /\ Place /\ pc = "return" /\ calls # << >> /\ BaseOK(heap, base) /\ CallsOK(heap, base, calls)
  BY DEF Basic, Parenthesis
<1>2. Len(calls) \in 1..Len(calls)
  <2>1. Len(calls) \in Nat /\ Len(calls) # 0
    BY <1>1, EmptySeq, LenProperties DEF CallsOK
  <2> QED
    BY <2>1
<1>3. basetype' = Outer(base, calls, Len(calls))
  BY <1>1, <1>2 DEF Parenthesis, CallsOK, top
<1>4. Quiet /\ TypeOK'
  BY <1>1 DEF Quiet, Parenthesis, TypeOK
<1>5. Place'
  BY <1>1, <1>3 DEF Place, Parenthesis, BasetypeInTurn, Innermost
<1> QED
  BY <1>1, <1>4, <1>5, QuietBasic

\* The heap after a declarator: the sizes fixed, and the type marked.
Stamped(h, z, g, t, st) ==
  /\ Len(g) = Len(h)
  /\ \A x \in 1..Len(h) : /\ Same(g[x], h[x])
                          /\ g[x].size = h[x].size \/ g[x].size = z[x]
                          /\ g[x].isstatic = (h[x].isstatic \/ (x = t /\ st))
  /\ g[t].size = z[t]

\* What Marked does to one cell.
LEMMA MarkedCell ==
  ASSUME NEW c \in CellType, NEW st \in BOOLEAN, NEW e, e = [c EXCEPT !.isstatic = @ \/ st]
  PROVE  /\ e \in CellType /\ Same(e, c) /\ e.size = c.size /\ e.isstatic = (c.isstatic \/ st)
<1>1. c.isstatic \in BOOLEAN
  BY DEF CellType
<1>2. PICK b \in BOOLEAN : b = (c.isstatic \/ st)
  BY <1>1
<1>3. e = [c EXCEPT !.isstatic = b]
  BY <1>2
<1>4. e \in CellType /\ Same(e, c) /\ e.size = c.size /\ e.isstatic = b
  BY <1>3 DEF CellType, Same
<1> QED
  BY <1>2, <1>4

\* parse_array_fix and the marking of the storage change sizes and marks, and no cell otherwise.
LEMMA DeclaratorStamps ==
  ASSUME Basic, Declarator
  PROVE  \E z : Sizes(heap, z) /\ Stamped(heap, z, heap', type, static) /\ heap' \in Seq(CellType)
<1>1. /\ Formed(heap) /\ Grounded(heap) /\ Len(heap) \in Nat /\ type \in 1..Len(heap)
      /\ static \in BOOLEAN
  BY LenProperties DEF Basic, Formed, TypeOK, Place, Declarator
<1>2. PICK z : Sizes(heap, z) /\ Resized(heap, z, parse_array_fix(heap), type)
  BY <1>1, FixResizes
<1>3. PICK g : g = parse_array_fix(heap)
  OBVIOUS
<1>4. /\ g \in Seq(CellType) /\ Len(g) = Len(heap)
      /\ \A x \in 1..Len(heap) : /\ Same(g[x], heap[x]) /\ g[x].isstatic = heap[x].isstatic
                                 /\ g[x].size = heap[x].size \/ g[x].size = z[x]
      /\ g[type].size = z[type]
  BY <1>2, <1>3 DEF Resized
<1>5. PICK e : e = [g[type] EXCEPT !.isstatic = @ \/ static]
  OBVIOUS
<1>6. heap' = [g EXCEPT ![type] = e]
  BY <1>3, <1>5 DEF Declarator, Marked
<1>7. g[type] \in CellType
  BY <1>1, <1>4, ElementOfSeq
<1>8. /\ e \in CellType /\ Same(e, g[type]) /\ e.size = g[type].size
      /\ e.isstatic = (g[type].isstatic \/ static)
  BY <1>1, <1>5, <1>7, MarkedCell
<1>9. /\ heap' \in Seq(CellType) /\ Len(heap') = Len(heap)
      /\ \A x \in 1..Len(heap) : heap'[x] = IF x = type THEN e ELSE g[x]
  BY <1>1, <1>4, <1>6, <1>8, ExceptSeq
<1>10. ASSUME NEW x \in 1..Len(heap)
       PROVE  /\ Same(heap'[x], heap[x])
              /\ heap'[x].size = heap[x].size \/ heap'[x].size = z[x]
              /\ heap'[x].isstatic = (heap[x].isstatic \/ (x = type /\ static))
  <2>1. CASE x = type
    <3>1. heap'[x] = e
      BY <1>9, <2>1
    <3>2. Same(e, heap[x])
      BY <1>1, <1>4, <1>8, <2>1 DEF Same
    <3>3. e.size = heap[x].size \/ e.size = z[x]
      BY <1>1, <1>4, <1>8, <2>1
    <3>4. e.isstatic = (heap[x].isstatic \/ (x = type /\ static))
      <4>1. g[type].isstatic = heap[type].isstatic
        BY <1>1, <1>4
      <4>2. e.isstatic = (heap[type].isstatic \/ static)
        BY <1>8, <4>1
      <4>3. (x = type /\ static) = static
        BY <1>1, <2>1
      <4> QED
        BY <2>1, <4>2, <4>3
    <3> QED
      BY <3>1, <3>2, <3>3, <3>4
  <2>2. CASE x # type
    <3>1. heap'[x] = g[x]
      BY <1>9, <2>2
    <3>2. heap[x].isstatic \in BOOLEAN
      BY <1>1, CellRead
    <3>3. heap[x].isstatic = (heap[x].isstatic \/ (x = type /\ static))
      BY <2>2, <3>2
    <3> QED
      BY <1>4, <3>1, <3>3
  <2> QED
    BY <2>1, <2>2
<1>11. heap'[type].size = z[type]
  BY <1>1, <1>4, <1>8, <1>9
<1>12. Stamped(heap, z, heap', type, static)
  BY <1>9, <1>10, <1>11 DEF Stamped
<1> QED
  BY <1>2, <1>9, <1>12

\* The end of a declarator.
LEMMA DeclaratorBasic ==
  ASSUME Basic, Declarator
  PROVE  Basic'
<1>1. /\ Formed(heap) /\ Grounded(heap) /\ Len(heap) \in Nat /\ Len(heap) >= 2 /\ TypeOK /\ Place
      /\ type \in 1..Len(heap) /\ BaseOK(heap, base) /\ calls = << >> /\ pc = "return"
      /\ lengths = << >>
  BY LenProperties DEF Basic, Formed, TypeOK, Place, Declarator
<1>2. PICK z : Sizes(heap, z) /\ Stamped(heap, z, heap', type, static) /\ heap' \in Seq(CellType)
  BY DeclaratorStamps
<1>3. /\ Len(heap') = Len(heap)
      /\ \A x \in 1..Len(heap) : /\ Same(heap'[x], heap[x])
                                 /\ heap'[x].size = heap[x].size \/ heap'[x].size = z[x]
  BY <1>2 DEF Stamped
<1>4. ASSUME NEW x \in 1..Len(heap)
      PROVE  CellOK(Len(heap), heap'[x])
  <2>1. CellOK(Len(heap), heap[x]) /\ Same(heap'[x], heap[x]) /\ heap'[x] \in CellType
    BY <1>1, <1>2, <1>3, CellRead, ElementOfSeq
  <2>2. heap[x].kind # "array" => heap'[x].size = heap[x].size
    BY <1>2, <1>3 DEF Sizes
  <2> QED
    BY <2>1, <2>2 DEF CellOK, Same
<1>5. Formed(heap')
  <2>1. Same(heap'[1], heap[1]) /\ Same(heap'[2], heap[2])
    BY <1>1, <1>3
  <2> QED
    BY <1>1, <1>2, <1>3, <1>4, <2>1 DEF Formed, Same
<1>6. Grounded(heap')
  <2>1. Keeps(heap, heap') /\ \A i \in 1..Len(heap) : heap'[i].to = heap[i].to
    BY <1>1, <1>3 DEF Keeps, Same
  <2> QED
    BY <1>1, <1>3, <2>1, GroundedSame
<1>7. \A i \in 1..Len(heap) : heap'[i].kind = heap[i].kind
  BY <1>3 DEF Same
<1>8. base' = base /\ BaseOK(heap', base)
  BY <1>1, <1>3, <1>7, BaseKept DEF Declarator
<1>9. CallsOK(heap', base', calls')
  BY <1>1, NoCalls DEF Declarator
<1>10. DeclsOK(heap', declared')
  <2>1. PICK d : d = [type |-> type, base |-> base, static |-> static, derived |-> derived]
    OBVIOUS
  <2>2. d \in DeclType /\ d.type = type /\ d.base = base
    BY <1>1, <2>1 DEF DeclType, TypeOK
  <2>3. declared' = Append(declared, d)
    BY <2>1 DEF Declarator
  <2>4. DeclsOK(heap', declared)
    BY <1>1, <1>3, <1>7, DeclsKept DEF Basic
  <2>5. /\ declared' \in Seq(DeclType) /\ Len(declared') = Len(declared) + 1
        /\ \A i \in 1..Len(declared) : declared'[i] = declared[i]
        /\ declared'[Len(declared) + 1] = d
    BY <2>2, <2>3, <2>4, AppendProperties DEF DeclsOK
  <2>6. Len(declared) \in Nat
    BY <2>4, LenProperties DEF DeclsOK
  <2>7. ASSUME NEW k \in 1..Len(declared')
        PROVE  declared'[k].type \in 1..Len(heap') /\ BaseOK(heap', declared'[k].base)
    <3>1. CASE k \in 1..Len(declared)
      BY <2>4, <2>5, <3>1 DEF DeclsOK
    <3>2. CASE k = Len(declared) + 1
      BY <1>1, <1>3, <1>8, <2>2, <2>5, <3>2
    <3>3. k \in 1..Len(declared) \/ k = Len(declared) + 1
      BY <2>5, <2>6
    <3> QED
      BY <3>1, <3>2, <3>3
  <2> QED
    BY <2>5, <2>7 DEF DeclsOK
<1>11. TypeOK'
  <2>1. << >> \in Seq(PartType) /\ 0 \in 0..Len(heap')
    BY <1>1, <1>3
  <2>2. type' = 0 /\ result' = 0 /\ derived' = << >> /\ lengths' = lengths /\ static' = static /\ pc' = "next"
    BY DEF Declarator
  <2> QED
    BY <1>1, <1>8, <2>1, <2>2 DEF TypeOK
<1>12. Place'
  BY <1>1 DEF Place, Declarator
<1> QED
  BY <1>5, <1>6, <1>8, <1>9, <1>10, <1>11, <1>12 DEF Basic

\* A comma: the next declarator of the same declaration.
LEMMA CommaBasic ==
  ASSUME Basic, Comma
  PROVE  Basic'
<1>1. TypeOK /\ Place /\ pc = "next" /\ BaseOK(heap, base) /\ Quiet
  BY DEF Basic, Comma, Quiet
<1>2. TypeOK'
  BY <1>1 DEF Comma, TypeOK
<1>3. Place'
  <2>1. calls = << >> /\ type = 0 /\ lengths = << >> /\ derived = << >>
    BY <1>1 DEF Place
  <2>2. Len(calls') + 1 = 1
    BY <2>1 DEF Comma
  <2> QED
    BY <1>1, <2>1, <2>2 DEF Place, Comma, BasetypeInTurn, Innermost, Outer
<1> QED
  BY <1>1, <1>2, <1>3, QuietBasic

\* A semicolon: the next declaration, with specifiers of its own.
LEMMA SemicolonBasic ==
  ASSUME Basic, Semicolon
  PROVE  Basic'
<1>1. TypeOK /\ Place /\ pc = "next" /\ BaseOK(heap, base) /\ Quiet
  BY DEF Basic, Semicolon, Quiet
<1>2. TypeOK' /\ Place'
  BY <1>1 DEF Semicolon, TypeOK, Place
<1> QED
  BY <1>1, <1>2, QuietBasic

\* A step in which nothing happens.
LEMMA StutterBasic ==
  ASSUME Basic, UNCHANGED vars
  PROVE  Basic'
<1>1. TypeOK' /\ Place' /\ Formed(heap') /\ Grounded(heap')
  BY DEF Basic, vars, TypeOK, Place, BasetypeInTurn, Innermost
<1> QED
  BY <1>1 DEF Basic, vars

\* Every step keeps what every other claim rests on.
LEMMA NextBasic ==
  ASSUME Basic, [Next]_vars
  PROVE  Basic'
<1>1. CASE \E istypedef, isstatic \in BOOLEAN : Specification(istypedef, isstatic)
  BY <1>1, SpecificationBasic
<1>2. CASE \E is \in {"*", "("} : Nested(is)
  BY <1>2, NestedBasic
<1>3. CASE Name
  BY <1>3, NameBasic
<1>4. CASE \E length \in Lengths : Subscript(length)
  BY <1>4, SubscriptBasic
<1>5. CASE Parameters
  BY <1>5, ParametersBasic
<1>6. CASE NoSuffix
  BY <1>6, NoSuffixBasic
<1>7. CASE Array
  BY <1>7, ArrayBasic
<1>8. CASE Restaged
  BY <1>8, RestagedBasic
<1>9. CASE Pointer
  BY <1>9, PointerBasic
<1>10. CASE Parenthesis
  BY <1>10, ParenthesisBasic
<1>11. CASE Declarator
  BY <1>11, DeclaratorBasic
<1>12. CASE Comma
  BY <1>12, CommaBasic
<1>13. CASE Semicolon
  BY <1>13, SemicolonBasic
<1>14. CASE UNCHANGED vars
  BY <1>14, StutterBasic
<1> QED
  BY <1>1, <1>2, <1>3, <1>4, <1>5, <1>6, <1>7, <1>8, <1>9, <1>10, <1>11, <1>12, <1>13, <1>14, Zenon
     DEF Next

-----------------------------------------------------------------------------
(* What has been read so far, if parentheses hold a suffix                 *)

\* A walk to something that says the same as the base: the base, or a copy of it.
Ends(h, x, d, b) == \E y \in 1..Len(h) : Leads(h, x, d, y) /\ Same(h[y], h[b])

\* Or to the stub of the innermost call, which has yet to be filled.
Reached(h, x, d, b, cs) == IF cs = << >> THEN Ends(h, x, d, b) ELSE Leads(h, x, d, cs[Len(cs)].stub)

\* Suffixes after a name or a ')': d was read before, e has its cells, the dimensions in between have
\* not.  A copy of a stub would be a walk that stops there: hence the last line.
Suffixed(d, e) ==
  /\ derived = d \o (Arrays \o e)
  /\ Leads(heap, result, e, basetype)
  /\ type = 0 => d = << >>
  /\ type # 0 => /\ Leads(heap, type, d, calls[Len(calls)].stub)
                 /\ Len(calls) >= 2 => e # << >> \/ lengths # << >>

Reading ==
  /\ pc = "restage" => (type # 0 => Leads(heap, type, derived, calls[Len(calls)].stub))
  /\ pc = "arrays" => \E d, e \in Seq(PartType) : Suffixed(d, e)
  /\ pc = "return" => Reached(heap, type, derived, base, calls)

DeclsMeant ==
  \A k \in 1..Len(declared) : Ends(heap, declared[k].type, declared[k].derived, declared[k].base)

TypedefSized(h) == h[2].kind = "array" => h[2].size = h[2].length * IntSize

Meant == Reading /\ DeclsMeant /\ SizesRight /\ TypedefSized(heap)

\* All but the stubs say the same as before.
Holds(h, g) ==
  /\ Len(h) \in Nat /\ Len(g) \in Nat /\ Len(h) <= Len(g)
  /\ \A i \in 1..Len(h) : h[i].kind # "stub" => Same(g[i], h[i])

\* What keeps all but the stubs keeps where they lead.
LEMMA HoldsKeeps ==
  ASSUME NEW h, NEW g, Formed(h), Holds(h, g)
  PROVE  Keeps(h, g)
<1> SUFFICES ASSUME NEW i \in 1..Len(h), h[i].to # 0 PROVE Same(g[i], h[i])
  BY DEF Holds, Keeps
<1>1. CellOK(Len(h), h[i])
  BY CellRead
<1>2. h[i].kind # "stub"
  BY <1>1 DEF CellOK
<1> QED
  BY <1>2 DEF Holds

\* A heap that has grown keeps all but the stubs.
LEMMA GrownHolds ==
  ASSUME NEW h, NEW g, Grown(h, g)
  PROVE  Holds(h, g)
  BY DEF Grown, Holds, Same

\* A walk that has come to its end is the same on the heap that has grown.
LEMMA EndsKept ==
  ASSUME NEW h, NEW g, Formed(h), Holds(h, g), NEW b, BaseOK(h, b),
         NEW d \in Seq(PartType), NEW x, Ends(h, x, d, b)
  PROVE  Ends(g, x, d, b)
<1>1. PICK y \in 1..Len(h) : Leads(h, x, d, y) /\ Same(h[y], h[b])
  BY DEF Ends
<1>2. b \in 1..Len(h) /\ h[b].kind # "stub"
  <2>1. Len(h) \in Nat /\ Len(h) >= 2 /\ h[2].kind # "stub"
    BY LenProperties DEF Formed
  <2> QED
    BY <2>1 DEF BaseOK
<1>3. Leads(g, x, d, y)
  BY <1>1, HoldsKeeps, LenProperties, WalkKept
<1>4. Same(g[y], h[y]) /\ Same(g[b], h[b])
  BY <1>1, <1>2 DEF Holds, Same
<1>5. y \in 1..Len(g) /\ Same(g[y], g[b])
  BY <1>1, <1>4 DEF Holds, Same
<1> QED
  BY <1>3, <1>5 DEF Ends

\* A type that ends in a base is no stub.
LEMMA EndsSolid ==
  ASSUME NEW h, Formed(h), NEW b, BaseOK(h, b), NEW d \in Seq(PartType), NEW x, Ends(h, x, d, b)
  PROVE  x \in 1..Len(h) /\ h[x].kind # "stub" /\ b \in 1..Len(h) /\ h[b].kind # "stub"
<1>1. PICK y \in 1..Len(h) : Leads(h, x, d, y) /\ Same(h[y], h[b])
  BY DEF Ends
<1>2. b \in 1..Len(h) /\ h[b].kind # "stub"
  <2>1. Len(h) \in Nat /\ Len(h) >= 2 /\ h[2].kind # "stub"
    BY LenProperties DEF Formed
  <2> QED
    BY <2>1 DEF BaseOK
<1>3. CASE d = << >>
  <2>1. x = y
    BY <1>1, <1>3, NowhereLeads
  <2> QED
    BY <1>1, <1>2, <2>1 DEF Same
<1>4. CASE d # << >>
  <2>1. x \in 1..Len(h) /\ h[x].to \in 1..Len(h)
    BY <1>1, <1>4, FirstStep
  <2>2. CellOK(Len(h), h[x]) /\ h[x].to # 0
    BY <2>1, CellRead
  <2> QED
    BY <1>2, <2>1, <2>2 DEF CellOK
<1> QED
  BY <1>3, <1>4

\* What was declared keeps its meaning and its size, whatever comes after but the end
\* of another declarator.
LEMMA DeclsGrown ==
  ASSUME Basic, DeclsMeant, SizesRight, TypedefSized(heap), Grown(heap, heap'), declared' = declared
  PROVE  DeclsMeant' /\ SizesRight' /\ TypedefSized(heap')
<1>1. Formed(heap) /\ DeclsOK(heap, declared) /\ Holds(heap, heap')
  BY GrownHolds DEF Basic
<1>2. ASSUME NEW k \in 1..Len(declared)
      PROVE  /\ Ends(heap', declared[k].type, declared[k].derived, declared[k].base)
             /\ heap'[declared[k].type] = heap[declared[k].type]
             /\ heap'[declared[k].base] = heap[declared[k].base]
  <2>1. PICK x : x = declared[k].type
    OBVIOUS
  <2>2. PICK b : b = declared[k].base
    OBVIOUS
  <2>3. PICK d \in Seq(PartType) : d = declared[k].derived
    <3>1. declared[k] \in DeclType
      BY <1>1, ElementOfSeq DEF DeclsOK
    <3> QED
      BY <3>1 DEF DeclType
  <2>4. Ends(heap, x, d, b) /\ BaseOK(heap, b)
    BY <1>1, <2>1, <2>2, <2>3 DEF DeclsMeant, DeclsOK
  <2>5. Ends(heap', x, d, b)
    BY <1>1, <2>4, EndsKept
  <2>6. x \in 1..Len(heap) /\ heap[x].kind # "stub" /\ b \in 1..Len(heap) /\ heap[b].kind # "stub"
    BY <1>1, <2>4, EndsSolid
  <2> QED
    BY <2>1, <2>2, <2>3, <2>5, <2>6 DEF Grown
<1>3. DeclsMeant'
  BY <1>2 DEF DeclsMeant
<1>4. SizesRight'
  BY <1>2 DEF SizesRight
<1>5. TypedefSized(heap')
  <2>1. 2 \in 1..Len(heap) /\ heap[2].kind # "stub"
    BY <1>1, LenProperties DEF Formed
  <2>2. heap'[2] = heap[2]
    BY <2>1 DEF Grown
  <2> QED
    BY <2>2 DEF TypedefSized
<1> QED
  BY <1>3, <1>4, <1>5

\* A new cell.
LEMMA AddedGrown ==
  ASSUME NEW h, NEW c, NEW g, Formed(h), CellOK(Len(h), c), Adds(h, c, g)
  PROVE  Grown(h, g)
<1>1. Added(h, c, g)
  BY CellAdded
<1> QED
  BY <1>1 DEF Added, Grown

\* A stub that is filled in.
LEMMA FilledGrown ==
  ASSUME NEW h, NEW s \in 1..Len(h), NEW c, NEW g, h[s].kind = "stub", Filled(h, s, c, g)
  PROVE  Grown(h, g)
  BY DEF Filled, Grown

\* A step that leaves the cells alone.
LEMMA SameGrown ==
  ASSUME Basic, heap' = heap
  PROVE  Grown(heap, heap')
<1>1. Len(heap) \in Nat
  BY LenProperties DEF Basic, Formed
<1> QED
  BY <1>1 DEF Grown

\* With nothing declared there is nothing to mean.
LEMMA InitMeant == Init => Meant
<1> SUFFICES ASSUME Init PROVE Meant
  OBVIOUS
<1>1. Reading /\ DeclsMeant /\ SizesRight
  BY DEF Init, Reading, DeclsMeant, SizesRight
<1>2. PICK c : heap = <<IntCell, c>> /\ (c = Cell("array", 1, 3, 3 * IntSize) \/ c = Cell("function", 1, 0, 0))
  BY DEF Init
<1>3. heap[2] = c
  BY <1>2
<1>4. c.kind = "array" => c.size = c.length * IntSize
  BY <1>2 DEF Cell, IntSize
<1> QED
  BY <1>1, <1>3, <1>4 DEF Meant, TypedefSized

\* The specifiers: the part of the type all declarators share.
LEMMA SpecificationMeant ==
  ASSUME Basic, Meant, NEW istypedef \in BOOLEAN, NEW isstatic \in BOOLEAN,
         Specification(istypedef, isstatic)
  PROVE  Meant'
<1>1. Formed(heap) /\ Len(heap) \in Nat
  BY LenProperties DEF Basic, Formed
<1>2. Grown(heap, heap')
  <2>1. CASE istypedef
    BY <2>1, SameGrown DEF Specification
  <2>2. CASE ~istypedef
    <3>1. Adds(heap, IntCell, heap') /\ CellOK(Len(heap), IntCell)
      BY <1>1, <2>2, CellsMade DEF Specification, Adds
    <3> QED
      BY <1>1, <3>1, AddedGrown
  <2> QED
    BY <2>1, <2>2
<1>3. declared' = declared /\ pc' = "direct"
  BY DEF Specification
<1> QED
  BY <1>2, <1>3, DeclsGrown DEF Meant, Reading

\* A star or a parenthesis: the declarator inside reads towards the new stub.
LEMMA NestedMeant ==
  ASSUME Basic, Meant, NEW is \in {"*", "("}, Nested(is)
  PROVE  Meant'
<1>1. Formed(heap) /\ Len(heap) \in Nat
  BY LenProperties DEF Basic, Formed
<1>2. Adds(heap, ast_type_stub, heap') /\ CellOK(Len(heap), ast_type_stub)
  BY <1>1, CellsMade DEF Nested, Adds
<1>3. Grown(heap, heap')
  BY <1>1, <1>2, AddedGrown
<1>4. declared' = declared /\ pc' = "direct"
  BY DEF Nested
<1> QED
  BY <1>3, <1>4, DeclsGrown DEF Meant, Reading

\* The name of a declarator.
LEMMA NameMeant ==
  ASSUME Basic, Meant, Name
  PROVE  Meant'
<1>1. heap' = heap /\ declared' = declared /\ pc' = "restage" /\ type' = 0
  BY DEF Basic, Place, Name
<1> QED
  BY <1>1, SameGrown, DeclsGrown DEF Meant, Reading

\* A subscript is one of the suffixes of the declarator.
LEMMA SubscriptMeant ==
  ASSUME Basic, Meant, NEW length \in Lengths, Subscript(length)
  PROVE  Meant'
<1>1. UNCHANGED <<heap, declared, pc, type, derived, calls>> /\ pc = "restage"
  BY DEF Subscript
<1> QED
  BY <1>1, SameGrown, DeclsGrown DEF Meant, Reading

\* Back in a call for a parenthesis: the suffixes after it are next.
LEMMA ParenthesisMeant ==
  ASSUME Basic, Meant, Parenthesis
  PROVE  Meant'
<1>1. UNCHANGED <<heap, declared, type, derived, calls>> /\ pc = "return" /\ pc' = "restage" /\ calls # << >>
  BY DEF Parenthesis
<1>2. Leads(heap, type, derived, calls[Len(calls)].stub)
  BY <1>1 DEF Meant, Reading, Reached
<1> QED
  BY <1>1, <1>2, SameGrown, DeclsGrown DEF Meant, Reading

\* A comma: the next declarator reads towards the type of the specifiers.
LEMMA CommaMeant ==
  ASSUME Basic, Meant, Comma \/ Semicolon
  PROVE  Meant'
<1>1. UNCHANGED <<heap, declared>> /\ pc' \in {"direct", "declaration"}
  BY DEF Comma, Semicolon
<1> QED
  BY <1>1, SameGrown, DeclsGrown DEF Meant, Reading

\* A step in which nothing happens.
LEMMA StutterMeant ==
  ASSUME Basic, Meant, UNCHANGED vars
  PROVE  Meant'
<1>1. DeclsMeant' /\ SizesRight' /\ TypedefSized(heap')
  BY SameGrown, DeclsGrown DEF Meant, vars
<1>2. UNCHANGED <<heap, declared, type, derived, calls, pc, result, lengths, basetype, base>>
  BY DEF vars
<1>3. Reading'
  BY <1>2 DEF Meant, Reading, Reached, Suffixed, Arrays
<1> QED
  BY <1>1, <1>3 DEF Meant

\* The suffixes of a next state, by the values of the derivations.
LEMMA SuffixedNext ==
  ASSUME NEW d, NEW e, NEW h, h = heap', NEW a, a = Arrays', derived' = d \o (a \o e),
         Leads(h, result', e, basetype'), type' = 0 => d = << >>,
         type' # 0 => Leads(h, type', d, calls'[Len(calls')].stub),
         type' # 0 => (Len(calls') >= 2 => e # << >> \/ lengths' # << >>)
  PROVE  Suffixed(d, e)'
  BY DEF Suffixed

\* Nothing after the dimensions.
LEMMA NoSuffixMeant ==
  ASSUME Basic, Meant, Grouping = FALSE, NoSuffix
  PROVE  Meant'
<1>1. TypeOK /\ Place /\ pc = "restage" /\ basetype \in 1..Len(heap)
  BY BasetypeIsCell DEF Basic, NoSuffix
<1>2. Leads(heap, basetype, << >>, basetype) /\ << >> \in Seq(PartType)
  BY <1>1, LeadsNowhere
<1>3. derived \in Seq(PartType) /\ Arrays \in Seq(PartType)
  BY <1>1, ArraysAreParts DEF TypeOK
<1>4. PICK d \in Seq(PartType) : d = derived
  BY <1>3
<1>5. PICK a \in Seq(PartType) : a = Arrays /\ a = Arrays' /\ a \o << >> = a
  <2>1. Arrays' = Arrays /\ Arrays \o << >> = Arrays
    BY <1>3, ConcatEmptySeq DEF Arrays, NoSuffix
  <2> QED
    BY <1>3, <2>1
<1>6. /\ derived' = derived \o Arrays /\ pc' = "arrays"
      /\ UNCHANGED <<heap, declared, type, calls, lengths, basetype>> /\ result' = basetype
      /\ lengths # << >> \/ Len(calls) < 2 \/ type = 0
  BY DEF NoSuffix
<1>7. type = 0 => d = << >>
  BY <1>1, <1>4 DEF Place
<1>8. type # 0 => Leads(heap, type, d, calls[Len(calls)].stub)
  BY <1>1, <1>4 DEF Meant, Reading
<1>9. derived' = d \o (a \o << >>)
  BY <1>4, <1>5, <1>6
<1>10. type # 0 => (Len(calls) >= 2 => << >> # << >> \/ lengths # << >>)
  <2>1. Len(calls) \in Nat
    BY LenProperties DEF Basic, CallsOK
  <2> QED
    BY <1>6, <2>1
<1>11. Suffixed(d, << >>)'
  BY <1>2, <1>5, <1>6, <1>7, <1>8, <1>9, <1>10, SuffixedNext
<1>12. Reading'
  BY <1>2, <1>4, <1>6, <1>11 DEF Reading
<1> QED
  BY <1>6, <1>12, SameGrown, DeclsGrown DEF Meant

\* The parameters are nearest to what follows, so their cell is made first.
LEMMA ParametersMeant ==
  ASSUME Basic, Meant, Parameters
  PROVE  Meant'
<1>1. Formed(heap) /\ TypeOK /\ Place /\ pc = "restage" /\ basetype \in 1..Len(heap) /\ Len(heap) \in Nat
  BY BasetypeIsCell, LenProperties DEF Basic, Parameters, Formed
<1>2. PICK c : c = ast_prototype(basetype)
  OBVIOUS
<1>3. CellOK(Len(heap), c) /\ c.to = basetype /\ c.to # 0 /\ Part(c) = Means("function", 0)
  <2>1. CellOK(Len(heap), c) /\ c.to = basetype /\ Part(c) = Means("function", 0)
    BY <1>1, <1>2, CellsMade
  <2> QED
    BY <1>1, <2>1
<1>4. Adds(heap, c, heap') /\ pc' = "arrays" /\ result' = Len(heap) + 1
  BY <1>2 DEF Parameters, Adds
<1>5. derived \in Seq(PartType) /\ Arrays \in Seq(PartType)
  BY <1>1, ArraysAreParts DEF TypeOK
<1>6. PICK d \in Seq(PartType) : d = derived
  BY <1>5
<1>7. PICK a \in Seq(PartType) : a = Arrays /\ a = Arrays'
  <2>1. Arrays' = Arrays
    BY DEF Arrays, Parameters
  <2> QED
    BY <1>5, <2>1
<1>8. PICK f : f = <<Means("function", 0)>>
  OBVIOUS
<1>9. f \in Seq(PartType) /\ f # << >>
  BY <1>8 DEF Means, PartType, Kinds
<1>10. Leads(heap', result', f, basetype)
  <2>1. Leads(heap, c.to, << >>, basetype) /\ << >> \in Seq(PartType)
    BY <1>1, <1>3, LeadsNowhere
  <2>2. \E g \in Seq(PartType) : Leads(heap', Len(heap) + 1, g, basetype) /\ g = <<Part(c)>> \o << >>
    <3>1. /\ Formed(heap) /\ CellOK(Len(heap), c) /\ Adds(heap, c, heap')
          /\ << >> \in Seq(PartType) /\ c.to # 0 /\ Leads(heap, c.to, << >>, basetype)
      BY <1>1, <1>3, <1>4, <2>1
    <3> QED
      BY ONLY <3>1, CellLeads
  <2>3. f \o << >> = f
    BY <1>9, ConcatEmptySeq
  <2> QED
    BY <1>3, <1>4, <1>8, <2>2, <2>3
<1>11. derived' = d \o (a \o f)
  <2>1. derived' = (d \o a) \o f
    BY <1>6, <1>7, <1>8 DEF Parameters
  <2> QED
    BY <1>9, <2>1, Regrouped
<1>12. UNCHANGED <<declared, type, calls, lengths, basetype>>
  BY DEF Parameters
<1>13. Grown(heap, heap')
  BY <1>1, <1>3, <1>4, AddedGrown
<1>14. type = 0 => d = << >>
  BY <1>1, <1>6 DEF Place
<1>15. type # 0 => Leads(heap', type, d, calls[Len(calls)].stub)
  <2>1. type # 0 => Leads(heap, type, d, calls[Len(calls)].stub)
    BY <1>1, <1>6 DEF Meant, Reading
  <2> QED
    BY <1>1, <1>13, <2>1, GrownKeeps, LenProperties, WalkKept
<1>16. PICK h : h = heap'
  OBVIOUS
<1>17. Suffixed(d, f)'
  BY <1>7, <1>9, <1>10, <1>11, <1>12, <1>14, <1>15, <1>16, SuffixedNext
<1>18. Reading'
  BY <1>4, <1>6, <1>9, <1>17 DEF Reading
<1> QED
  BY <1>12, <1>13, <1>18, DeclsGrown DEF Meant

\* The last of the dimensions is the one that is taken.
LEMMA ArraysFront ==
  ASSUME TypeOK, lengths # << >>, lengths' = Front(lengths)
  PROVE  /\ Last(lengths) \in Nat
         /\ Arrays' \in Seq(PartType)
         /\ Arrays = Arrays' \o <<Means("array", Last(lengths))>>
<1>1. PICK p : p = SubSeq(lengths, 1, Len(lengths) - 1)
  OBVIOUS
<1>2. lengths \in Seq(Nat) /\ lengths' = p
  BY <1>1 DEF TypeOK, Front
<1>3. /\ Len(lengths) \in Nat /\ Len(lengths) > 0 /\ lengths[Len(lengths)] \in Nat
      /\ p \in Seq(Nat) /\ Len(p) = Len(lengths) - 1
      /\ \A i \in 1..(Len(lengths) - 1) : p[i] = lengths[i]
  <2>1. PICK N : N = Nat
    OBVIOUS
  <2>2. PICK s : s = lengths
    OBVIOUS
  <2>3. s \in Seq(N) /\ s # << >> /\ p = SubSeq(s, 1, Len(s) - 1)
    BY <1>1, <1>2, <2>1, <2>2
  <2>4. /\ Len(s) \in Nat /\ Len(s) > 0 /\ s[Len(s)] \in N
        /\ p \in Seq(N) /\ Len(p) = Len(s) - 1
        /\ \A i \in 1..(Len(s) - 1) : p[i] = s[i]
    BY <2>3, Popped
  <2> QED
    BY <2>1, <2>2, <2>4
<1>4. PICK n \in Nat : Len(lengths) = n + 1 /\ Len(p) = n
  <2>1. Len(lengths) - 1 \in Nat /\ Len(lengths) = (Len(lengths) - 1) + 1
    BY <1>3
  <2> QED
    BY <1>3, <2>1
<1>5. PICK l \in Nat : l = Last(lengths) /\ l = lengths[n + 1]
  BY <1>3, <1>4 DEF Last
<1>6. PICK a : a = [i \in 1..n |-> Means("array", p[i])]
  OBVIOUS
<1>7. a = Arrays'
  BY <1>2, <1>4, <1>6 DEF Arrays
<1>8. PICK b : b = <<Means("array", l)>>
  OBVIOUS
<1>9. Means("array", l) \in PartType /\ \A i \in 1..n : Means("array", p[i]) \in PartType
  <2>1. \A i \in 1..n : p[i] \in Nat
    BY <1>3, <1>4, ElementOfSeq
  <2> QED
    BY <2>1 DEF Means, PartType, Kinds
<1>10. a \in Seq(PartType) /\ Len(a) = n
  <2>1. a \in [1..n -> PartType]
    BY <1>6, <1>9
  <2> QED
    BY <2>1
<1>11. b \in Seq(PartType) /\ Len(b) = 1 /\ b[1] = Means("array", l)
  BY <1>8, <1>9
<1>12. PICK c : c = a \o b
  OBVIOUS
<1>13. c \in Seq(PartType) /\ Len(c) = n + 1 /\ \A i \in 1..(n + 1) : c[i] = IF i <= n THEN a[i] ELSE b[i - n]
  <2>1. /\ c \in Seq(PartType) /\ Len(c) = Len(a) + Len(b)
        /\ \A i \in 1..Len(a) + Len(b) : c[i] = IF i <= Len(a) THEN a[i] ELSE b[i - Len(a)]
    BY <1>10, <1>11, <1>12, ConcatProperties
  <2>2. PICK k : k = Len(a)
    OBVIOUS
  <2>3. PICK j : j = Len(b)
    OBVIOUS
  <2>4. /\ c \in Seq(PartType) /\ Len(c) = k + j
        /\ \A i \in 1..k + j : c[i] = IF i <= k THEN a[i] ELSE b[i - k]
    BY <2>1, <2>2, <2>3
  <2>5. k = n /\ j = 1
    BY <1>10, <1>11, <2>2, <2>3
  <2> QED
    BY <2>4, <2>5
<1>14. Arrays \in Seq(PartType) /\ Len(Arrays) = n + 1
  BY <1>4, ArraysAreParts
<1>15. \A i \in 1..(n + 1) : Arrays[i] = c[i]
  <2> SUFFICES ASSUME NEW i \in 1..(n + 1) PROVE Arrays[i] = c[i]
    OBVIOUS
  <2>1. Arrays[i] = Means("array", lengths[i])
    BY <1>4 DEF Arrays
  <2>2. CASE i = n + 1
    <3>1. c[i] = b[1]
      BY <1>13, <2>2
    <3> QED
      BY <1>5, <1>11, <2>1, <2>2, <3>1
  <2>3. CASE i # n + 1
    <3>1. i \in 1..n /\ i <= n /\ i \in 1..(Len(lengths) - 1)
      BY <1>4, <2>3
    <3>2. c[i] = a[i] /\ a[i] = Means("array", p[i]) /\ p[i] = lengths[i]
      BY <1>3, <1>6, <1>13, <3>1
    <3> QED
      BY <2>1, <3>2
  <2> QED
    BY <2>2, <2>3
<1>16. Arrays = c
  BY <1>13, <1>14, <1>15, SeqEqual
<1> QED
  BY <1>5, <1>7, <1>8, <1>10, <1>12, <1>16

\* A dimension less to come, and a cell more for it.
LEMMA ArrayMeant ==
  ASSUME Basic, Meant, Array
  PROVE  Meant'
<1>1. /\ Formed(heap) /\ TypeOK /\ Place /\ pc = "arrays" /\ Len(heap) \in Nat
      /\ lengths # << >> /\ pc' = "arrays" /\ result' = Len(heap) + 1 /\ lengths' = Front(lengths)
  BY LenProperties DEF Basic, Array, Formed
<1>2. PICK d \in Seq(PartType), e \in Seq(PartType) : Suffixed(d, e)
  BY <1>1 DEF Meant, Reading
<1>3. result \in 1..Len(heap)
  BY <1>2, LenProperties, WalkEnds DEF Suffixed
<1>4. PICK l \in Nat : l = Last(lengths)
  BY <1>1, ArraysFront
<1>5. PICK b \in Seq(PartType) : b = Arrays'
  BY <1>1, ArraysFront
<1>6. PICK u : u = <<Means("array", l)>>
  OBVIOUS
<1>7. u \in Seq(PartType) /\ Arrays = b \o u
  <2>1. Means("array", l) \in PartType
    BY DEF Means, PartType, Kinds
  <2> QED
    BY <1>1, <1>4, <1>5, <1>6, <2>1, ArraysFront
<1>8. PICK c : c = ast_array(result, l)
  OBVIOUS
<1>9. CellOK(Len(heap), c) /\ c.to = result /\ Part(c) = Means("array", l)
  BY <1>1, <1>3, <1>8, ArrayMade
<1>10. Adds(heap, c, heap')
  BY <1>4, <1>8 DEF Array, Adds
<1>11. PICK f \in Seq(PartType) : Leads(heap', result', f, basetype) /\ f = u \o e
  <2>1. Leads(heap, c.to, e, basetype) /\ c.to # 0
    <3>1. result # 0
      BY <1>1, <1>3
    <3> QED
      BY <1>2, <1>9, <3>1 DEF Suffixed
  <2>2. \E f \in Seq(PartType) : Leads(heap', Len(heap) + 1, f, basetype) /\ f = <<Part(c)>> \o e
    <3>1. /\ Formed(heap) /\ CellOK(Len(heap), c) /\ Adds(heap, c, heap')
          /\ e \in Seq(PartType) /\ c.to # 0 /\ Leads(heap, c.to, e, basetype)
      BY <1>1, <1>9, <1>10, <2>1
    <3> QED
      BY ONLY <3>1, CellLeads
  <2> QED
    BY <1>1, <1>6, <1>9, <2>2
<1>12. UNCHANGED <<declared, type, calls, derived, basetype>>
  BY DEF Array
<1>13. derived' = d \o (b \o f)
  <2>1. derived = d \o ((b \o u) \o e)
    BY <1>2, <1>7 DEF Suffixed
  <2>2. (b \o u) \o e = b \o f
    <3>1. (b \o u) \o e = b \o (u \o e)
      BY <1>7, Regrouped
    <3>2. f = u \o e
      BY <1>11
    <3> QED
      BY <3>1, <3>2
  <2> QED
    BY <1>12, <2>1, <2>2
<1>14. Grown(heap, heap')
  BY <1>1, <1>9, <1>10, AddedGrown
<1>15. type # 0 => Leads(heap', type, d, calls[Len(calls)].stub)
  <2>1. type # 0 => Leads(heap, type, d, calls[Len(calls)].stub)
    BY <1>2 DEF Suffixed
  <2> QED
    BY <1>1, <1>14, <2>1, GrownKeeps, LenProperties, WalkKept
<1>16. f # << >>
  <2>1. Len(f) = Len(u) + Len(e) /\ Len(u) = 1 /\ Len(e) \in Nat
    BY <1>6, <1>7, <1>11, ConcatProperties, LenProperties
  <2>2. Len(f) > 0
    BY <2>1
  <2> QED
    BY <2>2
<1>17. type = 0 => d = << >>
  BY <1>2 DEF Suffixed
<1>18. PICK h : h = heap'
  OBVIOUS
<1>19. Suffixed(d, f)'
  BY <1>5, <1>11, <1>12, <1>13, <1>15, <1>16, <1>17, <1>18, SuffixedNext
<1>20. Reading'
  BY <1>1, <1>19 DEF Reading
<1> QED
  BY <1>12, <1>14, <1>20, DeclsGrown DEF Meant

\* What leads to the basetype of the innermost call is read as far as it can be.
LEMMA InnermostReached ==
  ASSUME NEW g, NEW x, NEW d, Len(d) \in Nat, NEW b, NEW S, NEW ds \in Seq(S),
         Leads(g, x, d, Outer(b, ds, Len(ds) + 1))
  PROVE  Reached(g, x, d, b, ds)
<1>1. CASE ds = << >>
  <2>1. Len(ds) + 1 = 1
    BY <1>1
  <2>2. Outer(b, ds, Len(ds) + 1) = b
    BY <2>1 DEF Outer
  <2>3. Leads(g, x, d, b) /\ b \in 1..Len(g) /\ Same(g[b], g[b])
    BY <2>2, WalkEnds DEF Same
  <2> QED
    BY <1>1, <2>3 DEF Reached, Ends
<1>2. CASE ds # << >>
  <2>1. PICK n \in Nat : n = Len(ds)
    BY LenProperties
  <2>2. n + 1 # 1 /\ n + 1 - 1 = n
    BY <1>2, <2>1, EmptySeq
  <2>3. Outer(b, ds, n + 1) = ds[n].stub
    BY <2>2 DEF Outer
  <2> QED
    BY <1>2, <2>1, <2>3 DEF Reached
<1> QED
  BY <1>1, <1>2

\* What leads to the basetype the innermost call was given is read as far as it can be
\* when that call is over.
LEMMA OuterReached ==
  ASSUME NEW h, NEW b, NEW cs, NEW c, NEW g, NEW ds, Over(h, b, cs, c, g, ds),
         NEW x, NEW d, Len(d) \in Nat, Leads(g, x, d, Outer(b, cs, Len(cs)))
  PROVE  Reached(g, x, d, b, ds)
<1>0. CallsOK(h, b, cs) /\ cs # << >>
  BY DEF Over
<1>1. Len(cs) \in 1..Len(cs)
  <2>1. Len(cs) \in Nat /\ Len(cs) # 0
    BY <1>0, EmptySeq, LenProperties DEF CallsOK
  <2> QED
    BY <2>1
<1>2. cs[Len(cs)].basetype = Outer(b, cs, Len(cs))
  BY <1>0, <1>1 DEF CallsOK
<1>3. CallsOK(g, b, ds) /\ Outer(b, ds, Len(ds) + 1) = cs[Len(cs)].basetype
  BY CallPopped
<1>4. ds \in Seq(CallType)
  BY <1>3 DEF CallsOK
<1>5. Leads(g, x, d, Outer(b, ds, Len(ds) + 1))
  BY <1>2, <1>3
<1> QED
  BY <1>4, <1>5, InnermostReached

\* The innermost call has a stub.
LEMMA TopIsStub ==
  ASSUME NEW h, NEW b, NEW cs, CallsOK(h, b, cs), cs # << >>
  PROVE  /\ Len(cs) \in Nat /\ Len(cs) > 0
         /\ cs[Len(cs)].stub \in 1..Len(h) /\ h[cs[Len(cs)].stub].kind = "stub"
<1>1. Len(cs) \in Nat /\ Len(cs) # 0
  BY EmptySeq, LenProperties DEF CallsOK
<1>2. Len(cs) \in 1..Len(cs)
  BY <1>1
<1> QED
  BY <1>1, <1>2 DEF CallsOK

\* A stub that is filled with a copy goes where the original went.
LEMMA CopyLeads ==
  ASSUME NEW h, Formed(h), NEW s \in 1..Len(h), h[s].kind = "stub", NEW r \in 1..Len(h),
         NEW g, Formed(g), Filled(h, s, h[r], g),
         NEW e \in Seq(PartType), e # << >>, NEW y, Leads(h, r, e, y)
  PROVE  Leads(g, s, e, y)
<1>1. Len(g) = Len(h) /\ Len(h) \in Nat /\ g[s] = h[r]
  BY DEF Filled
<1>2. Keeps(h, g)
  BY FilledGrown, GrownKeeps
<1>3. PICK t : t = Tail(e)
  OBVIOUS
<1>4. h[r].to \in 1..Len(h) /\ e[1] = Part(h[r]) /\ Leads(h, h[r].to, t, y)
  BY <1>3, FirstStep
<1>5. t \in Seq(PartType)
  BY <1>3, HeadTailProperties
<1>6. Leads(g, h[r].to, t, y)
  BY <1>2, <1>4, <1>5, LenProperties, WalkKept
<1>7. g[s].to \in 1..Len(g) /\ s \in 1..Len(g) /\ Leads(g, g[s].to, t, y)
  BY <1>1, <1>4, <1>6
<1>8. PICK f \in Seq(PartType) : Leads(g, s, f, y) /\ f = <<Part(g[s])>> \o t
  BY <1>5, <1>7, StepAndWalk
<1>9. PICK u : u = <<Part(g[s])>>
  OBVIOUS
<1>10. Part(g[s]) \in PartType
  BY <1>7, CellRead
<1>11. u \in Seq(PartType) /\ Len(u) = 1 /\ u[1] = e[1]
  BY <1>1, <1>4, <1>9, <1>10
<1>12. e = u \o t
  BY <1>3, <1>11, HeadIsFirst
<1> QED
  BY <1>8, <1>9, <1>12

\* After a name the suffixes are the type; after a ')' they come between what was read
\* before and what surrounds the parentheses.
LEMMA RestagedMeant ==
  ASSUME Basic, Meant, Restaged
  PROVE  Meant'
<1>1. Formed(heap) /\ TypeOK /\ Place /\ pc = "arrays" /\ Len(heap) \in Nat /\ CallsOK(heap, base, calls)
  BY LenProperties DEF Basic, Restaged, Formed
<1>2. pc' = "return" /\ UNCHANGED <<base, declared, derived>> /\ lengths = << >>
  BY DEF Restaged
<1>3. PICK d \in Seq(PartType), e \in Seq(PartType) : Suffixed(d, e)
  BY <1>1 DEF Meant, Reading
<1>4. derived = d \o e
  <2>1. Arrays = << >> /\ << >> \o e = e
    BY <1>1, <1>2, ArraysAreParts, ConcatEmptySeq
  <2> QED
    BY <1>3, <2>1 DEF Suffixed
<1>5. CASE type = 0
  <2>1. type' = result /\ heap' = heap /\ calls' = calls
    BY <1>5 DEF Restaged
  <2>2. derived = e
    BY <1>3, <1>4, <1>5, ConcatEmptySeq DEF Suffixed
  <2>3. Leads(heap, result, derived, Outer(base, calls, Len(calls) + 1))
    BY <1>1, <1>3, <1>5, <2>2 DEF Suffixed, Place, BasetypeInTurn, Innermost
  <2>4. Reached(heap, result, derived, base, calls)
    BY <1>1, <2>2, <2>3, InnermostReached, LenProperties DEF CallsOK
  <2>5. Reading'
    BY <1>2, <2>1, <2>4 DEF Reading
  <2> QED
    BY <1>2, <2>1, <2>5, SameGrown, DeclsGrown DEF Meant
<1>6. CASE type # 0
  <2>1. heap' = [heap EXCEPT ![top.stub] = heap[result]] /\ calls' = Front(calls) /\ type' = type
    BY <1>6 DEF Restaged
  <2>2. PICK s : s = top.stub /\ s = calls[Len(calls)].stub
    BY DEF top
  <2>3. /\ calls # << >> /\ BaseOK(heap, base) /\ result \in 1..Len(heap)
        /\ basetype = Outer(base, calls, Len(calls))
        /\ CellOK(Len(heap), heap[result])
    BY <1>1, <1>6, CopyAnchored
  <2>4. PICK n \in Nat : n = Len(calls) /\ n > 0
    BY <1>1, <2>3, TopIsStub
  <2>5. s \in 1..Len(heap) /\ heap[s].kind = "stub"
    BY <1>1, <2>2, <2>3, TopIsStub
  <2>6. Fills(heap, s, heap[result], heap') /\ Returns(calls, calls')
    BY <2>1, <2>2 DEF Fills, Returns
  <2>7. PICK h : h = heap' /\ Formed(h) /\ Filled(heap, s, heap[result], h)
    BY <1>1, <2>3, <2>5, <2>6, CellFilled
  <2>12. Over(heap, base, calls, heap[result], h, calls')
    BY <1>1, <2>2, <2>3, <2>6, <2>7 DEF Over
  <2>8. Grown(heap, h)
    BY <2>5, <2>7, FilledGrown
  <2>9. Leads(h, type, d, s)
    <3>1. Leads(heap, type, d, s)
      BY <1>3, <1>6, <2>2 DEF Suffixed
    <3> QED
      BY <1>1, <2>8, <3>1, GrownKeeps, LenProperties, WalkKept
  <2> SUFFICES Reading'
    <3>1. Grown(heap, heap')
      BY <2>7, <2>8
    <3> QED
      BY <1>2, <3>1, DeclsGrown DEF Meant
  <2>10. CASE e # << >>
    <3>1. Leads(heap, result, e, basetype)
      BY <1>3 DEF Suffixed
    <3>2. Leads(h, s, e, basetype)
      BY <1>1, <2>3, <2>5, <2>7, <2>10, <3>1, CopyLeads
    <3>3. PICK f : f = d \o e
      OBVIOUS
    <3>4. f \in Seq(PartType) /\ Leads(h, type, f, basetype)
      BY <2>9, <3>2, <3>3, Joined
    <3>5. Reached(h, type, f, base, calls')
      BY <2>3, <2>12, <3>4, LenProperties, OuterReached
    <3> QED
      BY <1>2, <1>4, <2>1, <2>7, <3>3, <3>5 DEF Reading
  <2>11. CASE e = << >>
    <3>1. n = 1
      BY <1>2, <1>3, <1>6, <2>4, <2>11 DEF Suffixed
    <3>2. result = base
      <4>1. result = basetype
        BY <1>3, <2>11, NowhereLeads DEF Suffixed
      <4> QED
        BY <2>3, <2>4, <3>1, <4>1 DEF Outer
    <3>3. heap[base].kind # "stub"
      <4>1. 2 \in 1..Len(heap) /\ heap[2].kind # "stub"
        BY <1>1 DEF Formed
      <4> QED
        BY <2>3, <4>1 DEF BaseOK
    <3>4. h[s] = heap[base] /\ h[base] = heap[base] /\ s \in 1..Len(h)
      BY <2>3, <2>5, <2>7, <3>2, <3>3 DEF Filled
    <3>5. derived = d
      BY <1>4, <2>11, ConcatEmptySeq
    <3>6. Ends(h, type, d, base)
      BY <2>9, <3>4 DEF Ends, Same
    <3>7. calls' = << >>
      <4>1. CallsOK(h, base, calls') /\ Len(calls') = Len(calls) - 1
        BY <2>12, CallPopped
      <4> QED
        BY <2>4, <3>1, <4>1, EmptySeq DEF CallsOK
    <3>8. Reached(h, type, d, base, calls')
      BY <3>6, <3>7 DEF Reached
    <3> QED
      BY <1>2, <2>1, <2>7, <3>5, <3>8 DEF Reading
  <2> QED
    BY <2>10, <2>11
<1> QED
  BY <1>5, <1>6

\* A '*' comes after what the call inside has read.
LEMMA PointerMeant ==
  ASSUME Basic, Meant, Pointer
  PROVE  Meant'
<1>1. /\ Formed(heap) /\ TypeOK /\ pc = "return" /\ calls # << >> /\ BaseOK(heap, base)
      /\ CallsOK(heap, base, calls) /\ Len(heap) \in Nat
  BY LenProperties DEF Basic, Pointer, Formed
<1>2. PICK s : s = top.stub /\ s = calls[Len(calls)].stub
  BY DEF top
<1>3. s \in 1..Len(heap) /\ heap[s].kind = "stub"
  BY <1>1, <1>2, TopIsStub
<1>4. PICK t : t = top.basetype /\ t = Outer(base, calls, Len(calls)) /\ t \in 1..Len(heap)
  <2>1. Len(calls) \in 1..Len(calls)
    <3>1. Len(calls) \in Nat /\ Len(calls) > 0
      BY <1>1, TopIsStub
    <3> QED
      BY <3>1
  <2>2. top.basetype = Outer(base, calls, Len(calls))
    BY <1>1, <2>1 DEF CallsOK, top
  <2> QED
    BY <1>1, <2>1, <2>2, InnermostIsCell
<1>5. PICK c : c = ast_pointer(t)
  OBVIOUS
<1>6. CellOK(Len(heap), c) /\ c.to = t /\ Part(c) = Means("pointer", 0)
  BY <1>1, <1>4, <1>5, CellsMade
<1>7. Fills(heap, s, c, heap') /\ Returns(calls, calls')
  BY <1>2, <1>4, <1>5 DEF Pointer, Fills, Returns
<1>8. PICK h : h = heap' /\ Formed(h) /\ Filled(heap, s, c, h)
  BY <1>1, <1>3, <1>6, <1>7, CellFilled
<1>9. Grown(heap, h)
  BY <1>3, <1>8, FilledGrown
<1>10. PICK d \in Seq(PartType) : d = derived
  BY <1>1 DEF TypeOK
<1>11. Leads(h, type, d, s)
  <2>1. Leads(heap, type, d, s)
    BY <1>1, <1>2, <1>10 DEF Meant, Reading, Reached
  <2> QED
    BY <1>1, <1>9, <2>1, GrownKeeps, LenProperties, WalkKept
<1>12. PICK u : u = <<Means("pointer", 0)>>
  OBVIOUS
<1>13. u \in Seq(PartType)
  BY <1>12 DEF Means, PartType, Kinds
<1>14. Leads(h, s, u, t)
  <2>1. s \in 1..Len(h) /\ t \in 1..Len(h) /\ h[s].to = t /\ Part(h[s]) = Means("pointer", 0)
    BY <1>3, <1>4, <1>6, <1>8 DEF Filled
  <2> QED
    BY <1>12, <2>1, OneStep
<1>15. PICK f : f = d \o u
  OBVIOUS
<1>16. f \in Seq(PartType) /\ Leads(h, type, f, t)
  BY <1>11, <1>13, <1>14, <1>15, Joined
<1>17. derived' = f
  <2>1. derived' = Append(d, Means("pointer", 0)) /\ Means("pointer", 0) \in PartType
    BY <1>10 DEF Pointer, Means, PartType, Kinds
  <2> QED
    BY <1>12, <1>15, <2>1, AppendIsConcat
<1>18. Reached(h, type, f, base, calls')
  <2>1. Over(heap, base, calls, c, h, calls')
    BY <1>1, <1>2, <1>7, <1>8 DEF Over
  <2> QED
    BY <1>4, <1>16, <2>1, LenProperties, OuterReached
<1>19. UNCHANGED <<base, declared, type, pc>>
  BY DEF Pointer
<1>20. Reading'
  BY <1>1, <1>8, <1>17, <1>18, <1>19 DEF Reading
<1>21. Grown(heap, heap')
  BY <1>8, <1>9
<1> QED
  BY <1>19, <1>20, <1>21, DeclsGrown DEF Meant

\* The size of a base is the one its cell has.
LEMMA BaseSize ==
  ASSUME NEW h, Formed(h), NEW z, Sizes(h, z), TypedefSized(h), NEW b, BaseOK(h, b)
  PROVE  b \in 1..Len(h) /\ h[b].kind # "stub" /\ z[b] = h[b].size
<1>1. /\ 1 \in 1..Len(h) /\ 2 \in 1..Len(h)
      /\ h[1].kind = "int" /\ h[2].kind \in {"array", "function"} /\ h[2].to = 1
  BY LenProperties DEF Formed
<1>2. CASE b = 2
  <2>1. z[1] = IntSize
    <3>1. h[1].size = IntSize
      BY <1>1, CellRead DEF CellOK
    <3> QED
      BY <1>1, <3>1 DEF Sizes
  <2>2. z[2] = IF h[2].kind = "array" THEN h[2].length * IntSize ELSE h[2].size
    BY <1>1, <2>1 DEF Sizes
  <2>3. z[2] = h[2].size
    BY <2>2 DEF TypedefSized
  <2> QED
    BY <1>1, <1>2, <2>3
<1>3. CASE b # 2
  <2>1. b \in 1..Len(h) /\ h[b].kind = "int"
    BY <1>3 DEF BaseOK
  <2> QED
    BY <2>1 DEF Sizes
<1> QED
  BY <1>2, <1>3

\* What ends in a base has the size of what it says.
LEMMA EndsSizes ==
  ASSUME NEW h, Formed(h), NEW z, Sizes(h, z), TypedefSized(h), NEW b, BaseOK(h, b),
         NEW d \in Seq(PartType), NEW x, Ends(h, x, d, b)
  PROVE  x \in 1..Len(h) /\ z[x] = SizeOf(d, h[b].size)
<1>1. PICK y \in 1..Len(h) : Leads(h, x, d, y) /\ Same(h[y], h[b])
  BY DEF Ends
<1>2. b \in 1..Len(h) /\ h[b].kind # "stub" /\ z[b] = h[b].size
  BY BaseSize
<1>3. CellOK(Len(h), h[y]) /\ CellOK(Len(h), h[b]) /\ h[b].kind \in Kinds
  BY <1>2, CellRead
<1>4. z[y] = z[b]
  <2>1. h[y].kind = h[b].kind /\ h[y].length = h[b].length /\ h[y].to = h[b].to
    BY <1>1 DEF Same
  <2>2. CASE h[b].kind = "array"
    <3>1. z[y] = h[y].length * z[h[y].to]
      BY <2>1, <2>2 DEF Sizes
    <3>2. z[b] = h[b].length * z[h[b].to]
      BY <1>2, <2>2 DEF Sizes
    <3> QED
      BY <2>1, <3>1, <3>2
  <2>3. CASE h[b].kind # "array"
    <3>1. h[y].size = h[b].size
      BY <1>2, <1>3, <2>1, <2>3 DEF CellOK, Kinds
    <3>2. z[y] = h[y].size /\ z[b] = h[b].size
      BY <1>2, <2>1, <2>3 DEF Sizes
    <3> QED
      BY <3>1, <3>2
  <2> QED
    BY <2>2, <2>3
<1>5. z[x] = SizeOf(d, z[y])
  BY <1>1, WalkSizes
<1>6. x \in 1..Len(h)
  BY EndsSolid
<1> QED
  BY <1>2, <1>4, <1>5, <1>6

\* The declarator is done: what it says leads to the base, and everything on the way has its size.
LEMMA DeclaratorMeant ==
  ASSUME Basic, Meant, Declarator
  PROVE  Meant'
<1>1. /\ Formed(heap) /\ Len(heap) \in Nat /\ TypeOK /\ BaseOK(heap, base) /\ calls = << >>
      /\ pc = "return" /\ DeclsOK(heap, declared) /\ TypedefSized(heap)
  BY LenProperties DEF Basic, Formed, Declarator, Meant
<1>2. PICK z : Sizes(heap, z) /\ Stamped(heap, z, heap', type, static)
  BY DeclaratorStamps
<1>3. PICK h : h = heap'
  OBVIOUS
<1>4. /\ Len(h) = Len(heap) /\ h[type].size = z[type]
      /\ \A x \in 1..Len(heap) : Same(h[x], heap[x]) /\ (h[x].size = heap[x].size \/ h[x].size = z[x])
  BY <1>2, <1>3 DEF Stamped
<1>5. Holds(heap, h)
  BY <1>1, <1>4 DEF Holds
<1>6. \A b : BaseOK(heap, b) => h[b].size = heap[b].size
  <2> SUFFICES ASSUME NEW b, BaseOK(heap, b) PROVE h[b].size = heap[b].size
    OBVIOUS
  <2>1. b \in 1..Len(heap) /\ z[b] = heap[b].size
    BY <1>1, <1>2, BaseSize
  <2> QED
    BY <1>4, <2>1
<1>7. Ends(heap, type, derived, base) /\ derived \in Seq(PartType)
  BY <1>1 DEF Meant, Reading, Reached, TypeOK
<1>8. Ends(h, type, derived, base)
  BY <1>1, <1>5, <1>7, EndsKept
<1>9. h[type].size = SizeOf(derived, h[base].size)
  <2>1. z[type] = SizeOf(derived, heap[base].size)
    BY <1>1, <1>2, <1>7, EndsSizes
  <2> QED
    BY <1>1, <1>4, <1>6, <2>1
<1>10. ASSUME NEW k \in 1..Len(declared)
       PROVE  /\ Ends(h, declared[k].type, declared[k].derived, declared[k].base)
              /\ h[declared[k].type].size = SizeOf(declared[k].derived, h[declared[k].base].size)
  <2>1. PICK x : x = declared[k].type
    OBVIOUS
  <2>2. PICK b : b = declared[k].base
    OBVIOUS
  <2>3. PICK d \in Seq(PartType) : d = declared[k].derived
    <3>1. declared[k] \in DeclType
      BY <1>1, ElementOfSeq DEF DeclsOK
    <3> QED
      BY <3>1 DEF DeclType
  <2>4. Ends(heap, x, d, b) /\ BaseOK(heap, b) /\ heap[x].size = SizeOf(d, heap[b].size)
    BY <1>1, <2>1, <2>2, <2>3 DEF Meant, DeclsMeant, DeclsOK, SizesRight
  <2>5. Ends(h, x, d, b)
    BY <1>1, <1>5, <2>4, EndsKept
  <2>6. x \in 1..Len(heap) /\ z[x] = SizeOf(d, heap[b].size)
    BY <1>1, <1>2, <2>4, EndsSizes
  <2>7. h[x].size = SizeOf(d, heap[b].size)
    BY <1>4, <2>4, <2>6
  <2>8. h[x].size = SizeOf(d, h[b].size)
    BY <1>6, <2>4, <2>7
  <2> QED
    BY <2>1, <2>2, <2>3, <2>5, <2>8
<1>11. PICK e : e = [type |-> type, base |-> base, static |-> static, derived |-> derived]
  OBVIOUS
<1>12. e \in DeclType /\ e.type = type /\ e.base = base /\ e.derived = derived
  BY <1>1, <1>11 DEF DeclType, TypeOK
<1>13. PICK ds : ds = declared' /\ ds = Append(declared, e)
  BY <1>11 DEF Declarator
<1>14. /\ Len(declared) \in Nat /\ Len(ds) = Len(declared) + 1
       /\ \A i \in 1..Len(declared) : ds[i] = declared[i]
       /\ ds[Len(declared) + 1] = e
  BY <1>1, <1>12, <1>13, AppendProperties, LenProperties DEF DeclsOK
<1>15. ASSUME NEW k \in 1..Len(ds)
       PROVE  /\ Ends(h, ds[k].type, ds[k].derived, ds[k].base)
              /\ h[ds[k].type].size = SizeOf(ds[k].derived, h[ds[k].base].size)
  <2>1. CASE k \in 1..Len(declared)
    BY <1>10, <1>14, <2>1
  <2>2. CASE k = Len(declared) + 1
    BY <1>8, <1>9, <1>12, <1>14, <2>2
  <2>3. k \in 1..Len(declared) \/ k = Len(declared) + 1
    BY <1>14
  <2> QED
    BY <2>1, <2>2, <2>3
<1>16. DeclsMeant' /\ SizesRight'
  BY <1>3, <1>13, <1>15 DEF DeclsMeant, SizesRight
<1>17. TypedefSized(heap')
  <2>1. 2 \in 1..Len(heap) /\ BaseOK(heap, 2)
    BY <1>1 DEF Formed, BaseOK
  <2>2. Same(h[2], heap[2]) /\ h[2].size = heap[2].size
    BY <1>4, <1>6, <2>1
  <2> QED
    BY <1>1, <1>3, <2>2 DEF TypedefSized, Same
<1>18. Reading'
  BY DEF Reading, Declarator
<1> QED
  BY <1>16, <1>17, <1>18 DEF Meant

\* If parentheses hold a suffix, every step keeps what has been read.
LEMMA NextMeant ==
  ASSUME Basic, Meant, Grouping = FALSE, [Next]_vars
  PROVE  Meant'
<1>1. CASE \E istypedef, isstatic \in BOOLEAN : Specification(istypedef, isstatic)
  BY <1>1, SpecificationMeant
<1>2. CASE \E is \in {"*", "("} : Nested(is)
  BY <1>2, NestedMeant
<1>3. CASE Name
  BY <1>3, NameMeant
<1>4. CASE \E length \in Lengths : Subscript(length)
  BY <1>4, SubscriptMeant
<1>5. CASE Parameters
  BY <1>5, ParametersMeant
<1>6. CASE NoSuffix
  BY <1>6, NoSuffixMeant
<1>7. CASE Array
  BY <1>7, ArrayMeant
<1>8. CASE Restaged
  BY <1>8, RestagedMeant
<1>9. CASE Pointer
  BY <1>9, PointerMeant
<1>10. CASE Parenthesis
  BY <1>10, ParenthesisMeant
<1>11. CASE Declarator
  BY <1>11, DeclaratorMeant
<1>12. CASE Comma \/ Semicolon
  BY <1>12, CommaMeant
<1>13. CASE UNCHANGED vars
  BY <1>13, StutterMeant
<1> QED
  BY <1>1, <1>2, <1>3, <1>4, <1>5, <1>6, <1>7, <1>8, <1>9, <1>10, <1>11, <1>12, <1>13, Zenon
     DEF Next

\* A type is read as its declarator says, since what is read from a cell is read from the walk.
LEMMA MeantMeans ==
  ASSUME Basic, Meant
  PROVE  MeansC
<1>1. Formed(heap) /\ Grounded(heap) /\ DeclsOK(heap, declared)
  BY DEF Basic
<1>2. PICK m : Says(heap, m) /\ \A x : Meaning(x) = m[x]
  BY <1>1, MeaningSays
<1> SUFFICES ASSUME NEW k \in 1..Len(declared)
             PROVE Meaning(declared[k].type) = declared[k].derived \o Meaning(declared[k].base)
  BY DEF MeansC
<1>3. PICK x : x = declared[k].type
  OBVIOUS
<1>4. PICK b : b = declared[k].base
  OBVIOUS
<1>5. PICK d \in Seq(PartType) : d = declared[k].derived
  <2>1. declared[k] \in DeclType
    BY <1>1, ElementOfSeq DEF DeclsOK
  <2> QED
    BY <2>1 DEF DeclType
<1>6. Ends(heap, x, d, b) /\ BaseOK(heap, b)
  BY <1>1, <1>3, <1>4, <1>5 DEF Meant, DeclsMeant, DeclsOK
<1>7. PICK y \in 1..Len(heap) : Leads(heap, x, d, y) /\ Same(heap[y], heap[b])
  BY <1>6 DEF Ends
<1>8. b \in 1..Len(heap)
  BY <1>1, <1>6, EndsSolid
<1>9. m[x] = d \o m[y]
  BY <1>1, <1>2, <1>7, WalkSays
<1>10. m[y] = m[b]
  <2>1. Part(heap[y]) = Part(heap[b]) /\ heap[y].to = heap[b].to
    BY <1>7 DEF Same, Part
  <2>2. m[y] = <<Part(heap[y])>> \o (IF heap[y].to = 0 THEN << >> ELSE m[heap[y].to])
    BY <1>2 DEF Says
  <2>3. m[b] = <<Part(heap[b])>> \o (IF heap[b].to = 0 THEN << >> ELSE m[heap[b].to])
    BY <1>2, <1>8 DEF Says
  <2> QED
    BY <2>1, <2>2, <2>3
<1> QED
  BY <1>2, <1>3, <1>4, <1>5, <1>9, <1>10

\* The type of every declarator, of any length, says what the declarator says.
THEOREM DeclaratorsMeant == ASSUME Grouping = FALSE PROVE Spec => [](Basic /\ Meant)
<1>1. Init => Basic /\ Meant
  BY InitBasic, InitMeant
<1>2. Basic /\ Meant /\ [Next]_vars => (Basic /\ Meant)'
  BY NextBasic, NextMeant
<1> QED
  BY <1>1, <1>2, PTL DEF Spec

\* Read from the name on, to the right within a pair of parentheses and then to the left,
\* as parse_declarator_direct and its restage leave it.
THEOREM DeclaratorMeansC == ASSUME Grouping = FALSE PROVE Spec => []MeansC
<1>1. Basic /\ Meant => MeansC
  BY MeantMeans
<1> QED
  BY <1>1, DeclaratorsMeant, PTL

\* The array in an array has its room after parse_array_fix.
THEOREM DeclaratorSizesRight == ASSUME Grouping = FALSE PROVE Spec => []SizesRight
<1>1. Basic /\ Meant => SizesRight
  BY DEF Meant
<1> QED
  BY <1>1, DeclaratorsMeant, PTL

-----------------------------------------------------------------------------
(* Which cells a declarator has made for itself                            *)

\* A cell that is nobody's type yet, and may be marked for whoever gets it.
New(x)    == x # 2 /\ x # base /\ \A k \in 1..Len(declared) : declared[k].type # x
Fresh(x)  == New(x) /\ ~heap[x].isstatic
NoStub(x) == \A k \in 1..Len(calls) : calls[k].stub # x

\* Two declarators have the same type only if they are names of one base, and then they have one
\* storage, or the typedef's.
Marks ==
  /\ StaticAsDeclared
  /\ \A k \in 1..Len(declared) :
       /\ declared[k].type = base => declared[k].derived = << >> /\ declared[k].base = base
       /\ declared[k].type = 2 => declared[k].derived = << >> /\ declared[k].base = 2
       /\ declared[k].base = base /\ base # 2 => declared[k].static = static
  /\ base # 0 /\ base # 2 /\ heap[base].isstatic => static

StubsFresh == \A k \in 1..Len(calls) : Fresh(calls[k].stub)

\* What a call returns is a cell it has made, or its basetype as it is.
ResultOwned ==
  /\ result = basetype \/ (Fresh(result) /\ NoStub(result))
  /\ result = basetype /\ lengths = << >> /\ (type = 0 \/ type = calls[Len(calls)].stub) => derived = << >>

\* So the type is new unless nothing was derived; and not marked unless it is a copy of the base.
TypeOwned ==
  /\ pc # "arrays" /\ calls # << >> /\ type = calls[Len(calls)].stub => derived = << >>
  /\ \A k \in 1..(Len(calls) - 1) : type # calls[k].stub
  /\ type = base => calls = << >> /\ derived = << >> /\ pc = "return"
  /\ type # base => New(type)
  /\ type # base /\ heap[type].isstatic => calls = << >> /\ derived = << >> /\ heap[base].isstatic

Owned ==
  /\ StubsFresh
  /\ pc = "arrays" => ResultOwned
  /\ type # 0 => TypeOwned

StaticInv == Marks /\ Owned

\* The marks stay if they do on the cells that have them.
LEMMA MarksKept ==
  ASSUME Basic, Marks, pc # "declaration", UNCHANGED <<base, static, declared>>,
         NEW h, h = heap', \A i \in 1..Len(heap) : ~New(i) => h[i].isstatic = heap[i].isstatic
  PROVE  Marks'
<1>1. DeclsOK(heap, declared) /\ BaseOK(heap, base) /\ Formed(heap) /\ Len(heap) >= 2 /\ Len(heap) \in Nat
  BY LenProperties DEF Basic, Formed
<1>2. \A k \in 1..Len(declared) : h[declared[k].type].isstatic = heap[declared[k].type].isstatic
  BY <1>1 DEF DeclsOK, New
<1>3. h[base].isstatic = heap[base].isstatic
  BY <1>1 DEF BaseOK, New
<1>4. StaticAsDeclared'
  BY <1>2 DEF Marks, StaticAsDeclared
<1> QED
  BY <1>3, <1>4 DEF Marks

\* A cell is new when it is made.
LEMMA NewCell ==
  ASSUME Basic, pc # "declaration"
  PROVE  New(Len(heap) + 1)
<1>1. DeclsOK(heap, declared) /\ BaseOK(heap, base) /\ Len(heap) >= 2 /\ Len(heap) \in Nat
  BY LenProperties DEF Basic, Formed
<1>2. \A k \in 1..Len(declared) : declared[k].type \in 1..Len(heap)
  BY <1>1 DEF DeclsOK
<1>3. base \in 1..Len(heap)
  BY <1>1 DEF BaseOK
<1>4. \A x \in 1..Len(heap) : x # Len(heap) + 1
  BY <1>1
<1> QED
  BY <1>1, <1>2, <1>3, <1>4 DEF New

\* Steps that leave the heap and the calls alone.
LEMMA QuietStatic ==
  ASSUME StaticInv, UNCHANGED <<heap, base, static, calls, declared>>,
         pc' = "arrays" => ResultOwned', type' # 0 => TypeOwned'
  PROVE  StaticInv'
<1>1. Marks'
  BY DEF StaticInv, Marks, StaticAsDeclared
<1>2. StubsFresh'
  BY DEF StaticInv, Owned, StubsFresh, Fresh, New
<1> QED
  BY <1>1, <1>2 DEF StaticInv, Owned

\* Steps that add a cell, while suffixes are applied.
LEMMA CellStatic ==
  ASSUME Basic, StaticInv, pc \in {"restage", "arrays"},
         NEW c, CellOK(Len(heap), c), ~c.isstatic, Adds(heap, c, heap'),
         pc' = "arrays", result' = Len(heap) + 1,
         UNCHANGED <<base, static, calls, basetype, type, declared>>
  PROVE  StaticInv'
<1>1. Formed(heap) /\ Len(heap) \in Nat /\ CallsOK(heap, base, calls) /\ TypeOK /\ Place
  BY LenProperties DEF Basic, Formed
<1>2. PICK h : h = heap' /\ Added(heap, c, h)
  BY <1>1, CellAdded
<1>3. PICK n \in Nat : n = Len(heap)
  BY <1>1
<1>4. h[n + 1] = c /\ \A i \in 1..n : h[i] = heap[i] /\ i # n + 1
  BY <1>2, <1>3 DEF Added
<1>5. Marks'
  BY <1>2, <1>3, <1>4, MarksKept DEF StaticInv
<1>6. New(n + 1)
  BY <1>3, NewCell
<1>7. \A k \in 1..Len(calls) : calls[k].stub \in 1..n
  BY <1>1, <1>3 DEF CallsOK
<1>8. StubsFresh'
  BY <1>2, <1>4, <1>7 DEF StaticInv, Owned, StubsFresh, Fresh, New
<1>9. ResultOwned'
  <2>1. basetype \in 1..n
    BY <1>3, BasetypeIsCell
  <2>2. result' # basetype' /\ (Fresh(n + 1) /\ NoStub(n + 1))'
    BY <1>2, <1>3, <1>4, <1>6, <1>7, <2>1 DEF Fresh, New, NoStub
  <2> QED
    BY <1>3, <2>2 DEF ResultOwned, Fresh, New, NoStub
<1>10. ASSUME type # 0
       PROVE  TypeOwned'
  <2>1. calls # << >> /\ type \in 1..n
    BY <1>1, <1>3, <1>10 DEF Place, TypeOK
  <2>2. TypeOwned
    BY <1>10 DEF StaticInv, Owned
  <2>3. h[type] = heap[type]
    BY <1>4, <2>1
  <2>4. type # base /\ New(type) /\ ~heap[type].isstatic
    BY <2>1, <2>2 DEF TypeOwned
  <2> QED
    BY <1>2, <2>2, <2>3, <2>4 DEF TypeOwned, New
<1> QED
  BY <1>5, <1>8, <1>9, <1>10 DEF StaticInv, Owned

\* Steps that fill the stub of the innermost call, which then is over.
LEMMA StubStatic ==
  ASSUME Basic, StaticInv, pc \in {"arrays", "return"}, type # 0,
         NEW c, NEW h, h = heap', Over(heap, base, calls, c, h, calls'), pc' = "return",
         UNCHANGED <<base, static, type, declared>>,
         type = calls[Len(calls)].stub /\ c.isstatic =>
           Len(calls) = 1 /\ derived' = << >> /\ heap[base].isstatic
  PROVE  StaticInv'
<1>1. Formed(heap) /\ Len(heap) \in Nat /\ CallsOK(heap, base, calls) /\ TypeOK /\ calls # << >> /\ BaseOK(heap, base)
  BY LenProperties DEF Basic, Formed, Over
<1>2. PICK s : s = calls[Len(calls)].stub
  OBVIOUS
<1>3. PICK ds : ds = calls'
  OBVIOUS
<1>4. /\ CallsOK(h, base, ds)
      /\ Outer(base, ds, Len(ds) + 1) = calls[Len(calls)].basetype
      /\ Len(calls) \in Nat /\ Len(calls) > 0 /\ Len(ds) = Len(calls) - 1
      /\ \A i \in 1..Len(ds) : ds[i] = calls[i] /\ ds[i].stub # calls[Len(calls)].stub
  BY <1>3, CallPopped
<1>5. Filled(heap, s, c, h)
  BY <1>2 DEF Over
<1>6. h[s] = c /\ \A i \in 1..Len(heap) : i # s => h[i] = heap[i]
  BY <1>5 DEF Filled
<1>7. New(s)
  <2>1. Len(calls) \in 1..Len(calls)
    BY <1>4
  <2> QED
    BY <1>2, <2>1 DEF StaticInv, Owned, StubsFresh, Fresh
<1>8. Marks'
  BY <1>1, <1>6, <1>7, MarksKept DEF StaticInv
<1>9. StubsFresh'
  <2> SUFFICES ASSUME NEW k \in 1..Len(ds) PROVE Fresh(ds[k].stub)'
    BY <1>3 DEF StubsFresh, Fresh, New
  <2>1. k \in 1..Len(calls) /\ ds[k] = calls[k] /\ calls[k].stub # s
    BY <1>2, <1>4
  <2>2. PICK x : x = calls[k].stub /\ x \in 1..Len(heap) /\ Fresh(x)
    BY <1>1, <2>1 DEF CallsOK, StaticInv, Owned, StubsFresh
  <2>3. h[x] = heap[x]
    BY <1>6, <2>1, <2>2
  <2> QED
    BY <2>1, <2>2, <2>3 DEF Fresh, New
<1>10. TypeOwned
  BY DEF StaticInv, Owned
<1>11. type # base /\ New(type) /\ ~heap[type].isstatic /\ \A k \in 1..(Len(calls) - 1) : type # calls[k].stub
  BY <1>1, <1>10 DEF TypeOwned
<1>12. \A k \in 1..Len(ds) : type # ds[k].stub
  BY <1>4, <1>11
<1>13. ds # << >> => type # ds[Len(ds)].stub
  <2> SUFFICES ASSUME ds # << >> PROVE type # ds[Len(ds)].stub
    OBVIOUS
  <2>1. Len(ds) \in Nat /\ Len(ds) > 0
    BY <1>4, TopIsStub
  <2>2. Len(ds) \in 1..Len(ds)
    BY <2>1
  <2> QED
    BY <1>12, <2>2
<1>14. h[type].isstatic => ds = << >> /\ derived' = << >> /\ h[base].isstatic
  <2>1. type \in 1..Len(heap)
    BY <1>1 DEF TypeOK
  <2>2. CASE type # s
    BY <1>6, <1>11, <2>1, <2>2
  <2>3. CASE type = s
    <3> SUFFICES ASSUME h[type].isstatic PROVE ds = << >> /\ derived' = << >> /\ h[base].isstatic
      OBVIOUS
    <3>1. c.isstatic
      BY <1>6, <2>3
    <3>2. Len(calls) = 1 /\ derived' = << >> /\ heap[base].isstatic
      BY <1>2, <2>3, <3>1
    <3>3. ds = << >>
      <4>1. Len(ds) = 0
        BY <1>4, <3>2
      <4> QED
        BY <1>4, <4>1, EmptySeq DEF CallsOK
    <3>4. h[base] = heap[base]
      <4>1. base # s /\ base \in 1..Len(heap)
        BY <1>1, <1>7 DEF New, BaseOK, Formed
      <4> QED
        BY <1>6, <4>1
    <3> QED
      BY <3>2, <3>3, <3>4
  <2> QED
    BY <2>2, <2>3
<1>15. TypeOwned'
  <2>1. New(type)'
    BY <1>11 DEF New
  <2>2. \A k \in 1..(Len(ds) - 1) : k \in 1..Len(ds)
    BY <1>4
  <2> QED
    BY <1>3, <1>11, <1>12, <1>13, <1>14, <2>1, <2>2 DEF TypeOwned
<1> QED
  BY <1>8, <1>9, <1>15 DEF StaticInv, Owned

\* With nothing declared no cell is marked.
LEMMA InitStatic == Init => StaticInv
<1> SUFFICES ASSUME Init PROVE StaticInv
  OBVIOUS
<1>1. calls = << >> /\ declared = << >> /\ base = 0 /\ type = 0 /\ pc = "declaration"
  BY DEF Init
<1> QED
  BY <1>1 DEF StaticInv, Marks, StaticAsDeclared, Owned, StubsFresh

\* The base of a declaration is the typedef's, or an int nobody has yet.
LEMMA SpecificationStatic ==
  ASSUME Basic, StaticInv, NEW istypedef \in BOOLEAN, NEW isstatic \in BOOLEAN,
         Specification(istypedef, isstatic)
  PROVE  StaticInv'
<1>1. /\ Formed(heap) /\ Len(heap) \in Nat /\ Len(heap) >= 2 /\ DeclsOK(heap, declared)
      /\ calls = << >> /\ type = 0
  BY LenProperties DEF Basic, Formed, Place, Specification
<1>2. UNCHANGED <<calls, type, declared>> /\ pc' = "direct" /\ static' = isstatic
  BY DEF Specification
<1>3. PICK h : h = heap'
  OBVIOUS
<1>4. PICK b : b = base'
  OBVIOUS
<1>5. \A i \in 1..Len(heap) : h[i] = heap[i]
  <2>1. CASE istypedef
    BY <1>3, <2>1 DEF Specification
  <2>2. CASE ~istypedef
    <3>1. Adds(heap, IntCell, h) /\ CellOK(Len(heap), IntCell)
      BY <1>1, <1>3, <2>2, CellsMade DEF Specification, Adds
    <3> QED
      BY <1>1, <3>1, CellAdded DEF Added
  <2> QED
    BY <2>1, <2>2
<1>6. b = 2 \/ (b = Len(heap) + 1 /\ ~h[b].isstatic)
  <2>1. CASE istypedef
    BY <1>4, <2>1 DEF Specification
  <2>2. CASE ~istypedef
    <3>1. Adds(heap, IntCell, h) /\ CellOK(Len(heap), IntCell) /\ ~IntCell.isstatic
      BY <1>1, <1>3, <2>2, CellsMade DEF Specification, Adds
    <3>2. h[Len(heap) + 1] = IntCell
      BY <1>1, <3>1, CellAdded DEF Added
    <3> QED
      BY <1>4, <2>2, <3>1, <3>2 DEF Specification
  <2> QED
    BY <2>1, <2>2
<1>7. \A k \in 1..Len(declared) : declared[k].type \in 1..Len(heap) /\ declared[k].base \in 1..Len(heap)
  BY <1>1 DEF DeclsOK, BaseOK
<1>8. StaticAsDeclared'
  BY <1>2, <1>3, <1>5, <1>7 DEF StaticInv, Marks, StaticAsDeclared
<1>9. \A k \in 1..Len(declared) :
        /\ declared[k].type = b => declared[k].derived = << >> /\ declared[k].base = b
        /\ declared[k].type = 2 => declared[k].derived = << >> /\ declared[k].base = 2
        /\ declared[k].base = b => b = 2
  <2> SUFFICES ASSUME NEW k \in 1..Len(declared)
               PROVE /\ declared[k].type = b => declared[k].derived = << >> /\ declared[k].base = b
                     /\ declared[k].type = 2 => declared[k].derived = << >> /\ declared[k].base = 2
                     /\ declared[k].base = b => b = 2
    OBVIOUS
  <2>1. declared[k].type = 2 => declared[k].derived = << >> /\ declared[k].base = 2
    BY DEF StaticInv, Marks
  <2>2. declared[k].type # Len(heap) + 1 /\ declared[k].base # Len(heap) + 1
    BY <1>1, <1>7
  <2> QED
    BY <1>6, <2>1, <2>2
<1>10. Marks'
  BY <1>2, <1>3, <1>4, <1>6, <1>8, <1>9 DEF Marks
<1>11. Owned'
  BY <1>1, <1>2 DEF Owned, StubsFresh
<1> QED
  BY <1>10, <1>11 DEF StaticInv

\* A stub is new.
LEMMA NestedStatic ==
  ASSUME Basic, StaticInv, NEW is \in {"*", "("}, Nested(is)
  PROVE  StaticInv'
<1>1. /\ Formed(heap) /\ Len(heap) \in Nat /\ CallsOK(heap, base, calls) /\ Place
      /\ pc = "direct" /\ type = 0 /\ calls \in Seq(CallType) /\ BaseOK(heap, base)
  BY LenProperties DEF Basic, Formed, Nested, Place, CallsOK
<1>2. UNCHANGED <<base, static, type, declared>> /\ pc' = "direct"
  BY <1>1 DEF Nested
<1>3. PICK n \in Nat : n = Len(heap)
  BY <1>1
<1>4. PICK h : h = heap' /\ Adds(heap, ast_type_stub, h)
  BY DEF Nested, Adds
<1>5. h[n + 1] = ast_type_stub /\ ~h[n + 1].isstatic /\ \A i \in 1..n : h[i] = heap[i] /\ i # n + 1
  <2>1. CellOK(Len(heap), ast_type_stub) /\ ast_type_stub.isstatic = FALSE
    BY <1>1, CellsMade
  <2>2. Added(heap, ast_type_stub, h)
    BY <1>1, <1>4, <2>1, CellAdded
  <2> QED
    BY <1>3, <2>1, <2>2 DEF Added
<1>6. PICK e : e = [is |-> is, stub |-> n + 1, basetype |-> basetype]
  OBVIOUS
<1>7. e \in CallType /\ e.stub = n + 1
  <2>1. basetype \in 1..n
    BY <1>1, <1>3, BasetypeIsCell
  <2> QED
    BY <1>6, <2>1 DEF CallType
<1>8. PICK ds : ds = calls' /\ ds = Append(calls, e)
  BY <1>3, <1>6 DEF Nested
<1>9. /\ Len(calls) \in Nat /\ Len(ds) = Len(calls) + 1 /\ ds[Len(calls) + 1] = e
      /\ \A i \in 1..Len(calls) : ds[i] = calls[i]
  BY <1>1, <1>7, <1>8, AppendProperties, LenProperties
<1>10. Marks'
  BY <1>1, <1>2, <1>3, <1>4, <1>5, MarksKept DEF StaticInv
<1>11. New(n + 1)
  BY <1>1, <1>3, NewCell
<1>12. StubsFresh'
  <2> SUFFICES ASSUME NEW k \in 1..Len(ds) PROVE Fresh(ds[k].stub)'
    BY <1>8 DEF StubsFresh, Fresh, New
  <2>1. CASE k = Len(calls) + 1
    <3>1. Fresh(n + 1)'
      BY <1>2, <1>4, <1>5, <1>11 DEF Fresh, New
    <3> QED
      BY <1>7, <1>9, <2>1, <3>1 DEF Fresh, New
  <2>2. CASE k \in 1..Len(calls)
    <3>1. PICK x : x = calls[k].stub /\ x \in 1..n /\ Fresh(x)
      BY <1>1, <1>3, <2>2 DEF CallsOK, StaticInv, Owned, StubsFresh
    <3>2. h[x] = heap[x]
      BY <1>5, <3>1
    <3> QED
      BY <1>2, <1>4, <1>9, <2>2, <3>1, <3>2 DEF Fresh, New
  <2>3. k = Len(calls) + 1 \/ k \in 1..Len(calls)
    BY <1>9
  <2> QED
    BY <2>1, <2>2, <2>3
<1> QED
  BY <1>1, <1>2, <1>10, <1>12 DEF StaticInv, Owned

\* The name of a declarator.
LEMMA NameStatic ==
  ASSUME Basic, StaticInv, Name
  PROVE  StaticInv'
<1>1. UNCHANGED <<heap, base, static, calls, type, declared>> /\ pc' = "restage" /\ type = 0
  BY DEF Name, Basic, Place
<1> QED
  BY <1>1, QuietStatic

\* A subscript after the name or after a parenthesis.
LEMMA SubscriptStatic ==
  ASSUME StaticInv, NEW length \in Lengths, Subscript(length)
  PROVE  StaticInv'
<1>1. UNCHANGED <<heap, base, static, calls, type, declared, pc, derived>> /\ pc = "restage"
  BY DEF Subscript
<1>2. type # 0 => TypeOwned'
  BY <1>1 DEF StaticInv, Owned, TypeOwned, New
<1> QED
  BY <1>1, <1>2, QuietStatic

\* Back in a call for a parenthesis: the suffixes after it are next.
LEMMA ParenthesisStatic ==
  ASSUME StaticInv, Parenthesis
  PROVE  StaticInv'
<1>1. /\ UNCHANGED <<heap, base, static, calls, type, declared, derived>>
      /\ pc = "return" /\ pc' = "restage" /\ calls # << >>
  BY DEF Parenthesis
<1>2. type # 0 => TypeOwned'
  BY <1>1 DEF StaticInv, Owned, TypeOwned, New
<1> QED
  BY <1>1, <1>2, QuietStatic

\* A comma: the storage of the declaration is that of the next declarator.
LEMMA CommaStatic ==
  ASSUME Basic, StaticInv, Comma \/ Semicolon
  PROVE  StaticInv'
<1>1. UNCHANGED <<heap, base, static, calls, type, declared>> /\ pc' \in {"direct", "declaration"} /\ type = 0
  BY DEF Comma, Semicolon, Basic, Place
<1> QED
  BY <1>1, QuietStatic

\* A declarator without another subscript.
LEMMA NoSuffixStatic ==
  ASSUME Basic, StaticInv, NoSuffix
  PROVE  StaticInv'
<1>1. /\ UNCHANGED <<heap, base, static, calls, type, declared, lengths, basetype>>
      /\ pc = "restage" /\ pc' = "arrays" /\ result' = basetype /\ derived' = derived \o Arrays
      /\ TypeOK /\ Place
  BY DEF NoSuffix, Basic
<1>2. lengths = << >> => derived' = derived
  <2>1. lengths = << >> => Arrays = << >>
    BY <1>1, ArraysAreParts
  <2>2. derived \o << >> = derived
    BY <1>1, ConcatEmptySeq DEF TypeOK
  <2> QED
    BY <1>1, <2>1, <2>2
<1>3. type # 0 => calls # << >>
  BY <1>1 DEF Place
<1>4. type = 0 => derived = << >>
  BY <1>1 DEF Place
<1>5. type # 0 => TypeOwned
  BY DEF StaticInv, Owned
<1>6. ResultOwned'
  <2>1. type # 0 /\ type = calls[Len(calls)].stub => derived = << >>
    BY <1>1, <1>3, <1>5 DEF TypeOwned
  <2> QED
    BY <1>1, <1>2, <1>4, <2>1 DEF ResultOwned
<1>7. type # 0 => TypeOwned'
  BY <1>1, <1>3, <1>5 DEF TypeOwned, New
<1> QED
  BY <1>1, <1>6, <1>7, QuietStatic

\* The type of a function is a cell of this declaration.
LEMMA ParametersStatic ==
  ASSUME Basic, StaticInv, Parameters
  PROVE  StaticInv'
<1>1. PICK c : c = ast_prototype(basetype)
  OBVIOUS
<1>2. /\ Adds(heap, c, heap') /\ pc = "restage" /\ pc' = "arrays" /\ result' = Len(heap) + 1
      /\ UNCHANGED <<base, static, calls, basetype, type, declared>>
  BY <1>1 DEF Parameters, Adds
<1>3. basetype \in 1..Len(heap) /\ Len(heap) \in Nat
  BY <1>2, BasetypeIsCell, LenProperties DEF Basic, Formed
<1>4. CellOK(Len(heap), c) /\ c.isstatic = FALSE
  BY <1>1, <1>3, CellsMade
<1> QED
  BY <1>2, <1>4, CellStatic

\* The type of an array is a cell of this declaration.
LEMMA ArrayStatic ==
  ASSUME Basic, StaticInv, Array
  PROVE  StaticInv'
<1>1. Formed(heap) /\ TypeOK /\ Place /\ pc = "arrays" /\ lengths # << >> /\ lengths' = Front(lengths)
  BY DEF Basic, Array
<1>2. result \in 1..Len(heap)
  BY <1>1, LenProperties, WalkEnds DEF Place
<1>3. PICK l \in Nat : l = Last(lengths)
  BY <1>1, ArraysFront
<1>4. PICK c : c = ast_array(result, l)
  OBVIOUS
<1>5. CellOK(Len(heap), c) /\ c.isstatic = FALSE
  BY <1>1, <1>2, <1>4, ArrayMade
<1>6. /\ Adds(heap, c, heap') /\ pc' = "arrays" /\ result' = Len(heap) + 1
      /\ UNCHANGED <<base, static, calls, basetype, type, declared>>
  BY <1>1, <1>3, <1>4 DEF Array, Adds
<1> QED
  BY <1>1, <1>5, <1>6, CellStatic

\* A basetype passed on is the base, or a stub that is nobody's type.
LEMMA OuterOwned ==
  ASSUME Basic, StaticInv, NEW k \in 1..(Len(calls) + 1)
  PROVE  IF k = 1 THEN Outer(base, calls, k) = base
         ELSE Outer(base, calls, k) = calls[k - 1].stub /\ Fresh(Outer(base, calls, k))
<1>1. CASE k = 1
  BY <1>1 DEF Outer
<1>2. CASE k # 1
  <2>1. k - 1 \in 1..Len(calls)
    BY <1>2, LenProperties DEF Basic, CallsOK
  <2>2. Fresh(calls[k - 1].stub)
    BY <2>1 DEF StaticInv, Owned, StubsFresh
  <2> QED
    BY <1>2, <2>2 DEF Outer
<1> QED
  BY <1>1, <1>2

\* The type of a name: what its suffixes made, or the basetype.
LEMMA NamedOwned ==
  ASSUME Basic, StaticInv, Restaged, type = 0
  PROVE  StaticInv'
<1>1. /\ UNCHANGED <<heap, base, static, calls, declared, derived>>
      /\ pc = "arrays" /\ pc' = "return" /\ type' = result /\ lengths = << >>
  BY DEF Restaged
<1>2. PICK n \in Nat : n = Len(calls)
  BY LenProperties DEF Basic, CallsOK
<1>3. basetype = Outer(base, calls, n + 1)
  BY <1>1, <1>2 DEF Basic, Place, BasetypeInTurn, Innermost
<1>4. ResultOwned
  BY <1>1 DEF StaticInv, Owned
<1>5. CallsOK(heap, base, calls)
  BY DEF Basic
<1>6. n = 0 <=> calls = << >>
  BY <1>2, <1>5, EmptySeq DEF CallsOK
<1>7. PICK t : t = result
  OBVIOUS
<1>8. CASE t # basetype
  <2>1. Fresh(t) /\ NoStub(t)
    BY <1>4, <1>7, <1>8 DEF ResultOwned
  <2>2. \A k \in 1..n : t # calls[k].stub
    BY <1>2, <2>1 DEF NoStub
  <2>3. n # 0 => n \in 1..n
    OBVIOUS
  <2>4. \A k \in 1..(n - 1) : k \in 1..n
    OBVIOUS
  <2>5. t # base /\ New(t) /\ ~heap[t].isstatic
    BY <2>1 DEF Fresh, New
  <2>6. TypeOwned'
    BY <1>1, <1>2, <1>6, <1>7, <2>2, <2>3, <2>4, <2>5 DEF TypeOwned, New
  <2> QED
    BY <1>1, <2>6, QuietStatic
<1>9. CASE t = basetype
  <2>1. derived = << >>
    BY <1>1, <1>4, <1>7, <1>9 DEF ResultOwned
  <2>2. n + 1 \in 1..(Len(calls) + 1)
    BY <1>2
  <2>3. CASE n = 0
    <3>1. t = base
      BY <1>3, <1>9, <2>2, <2>3, OuterOwned
    <3>2. \A k \in 1..(n - 1) : FALSE
      BY <2>3
    <3>3. TypeOwned'
      BY <1>1, <1>2, <1>6, <1>7, <2>1, <2>3, <3>1, <3>2 DEF TypeOwned
    <3> QED
      BY <1>1, <3>3, QuietStatic
  <2>4. CASE n # 0
    <3>1. n + 1 # 1 /\ (n + 1) - 1 = n
      BY <2>4
    <3>2. t = calls[n].stub /\ Fresh(t)
      BY <1>3, <1>9, <2>2, <3>1, OuterOwned
    <3>3. \A k \in 1..(n - 1) : t # calls[k].stub
      <4> SUFFICES ASSUME NEW k \in 1..(n - 1) PROVE t # calls[k].stub
        OBVIOUS
      <4>1. k \in 1..n /\ n \in 1..n /\ k # n
        BY <2>4
      <4> QED
        BY <1>2, <1>5, <3>2, <4>1 DEF CallsOK
    <3>4. t # base /\ New(t) /\ ~heap[t].isstatic
      BY <3>2 DEF Fresh, New
    <3>5. TypeOwned'
      BY <1>1, <1>2, <1>7, <2>1, <3>3, <3>4 DEF TypeOwned, New
    <3> QED
      BY <1>1, <3>5, QuietStatic
  <2> QED
    BY <2>3, <2>4
<1> QED
  BY <1>8, <1>9

\* A copy is marked only if it is one of the base.
LEMMA CopiedOwned ==
  ASSUME Basic, StaticInv, Restaged, type # 0
  PROVE  StaticInv'
<1>1. /\ UNCHANGED <<base, static, type, declared, derived>>
      /\ pc = "arrays" /\ pc' = "return" /\ lengths = << >>
      /\ heap' = [heap EXCEPT ![top.stub] = heap[result]] /\ calls' = Front(calls)
  BY DEF Restaged
<1>2. Formed(heap) /\ CallsOK(heap, base, calls) /\ Len(heap) \in Nat
  BY LenProperties DEF Basic, Formed
<1>3. /\ calls # << >> /\ BaseOK(heap, base) /\ result \in 1..Len(heap)
      /\ basetype = Outer(base, calls, Len(calls)) /\ CellOK(Len(heap), heap[result])
  BY <1>1, CopyAnchored
<1>4. PICK c : c = heap[result]
  OBVIOUS
<1>5. PICK s : s = top.stub /\ s = calls[Len(calls)].stub
  BY DEF top
<1>6. s \in 1..Len(heap) /\ heap[s].kind = "stub" /\ Len(calls) \in Nat /\ Len(calls) > 0
  BY <1>2, <1>3, <1>5, TopIsStub
<1>7. Fills(heap, s, c, heap') /\ Returns(calls, calls')
  BY <1>1, <1>4, <1>5 DEF Fills, Returns
<1>8. PICK h : h = heap' /\ Filled(heap, s, c, h)
  BY <1>2, <1>3, <1>4, <1>6, <1>7, CellFilled
<1>9. Over(heap, base, calls, c, h, calls')
  BY <1>2, <1>3, <1>5, <1>7, <1>8 DEF Over
<1>10. ResultOwned
  BY <1>1 DEF StaticInv, Owned
<1>11. ASSUME type = calls[Len(calls)].stub, c.isstatic
       PROVE  Len(calls) = 1 /\ derived' = << >> /\ heap[base].isstatic
  <2>1. result = basetype
    BY <1>4, <1>10, <1>11 DEF ResultOwned, Fresh
  <2>2. derived' = << >>
    BY <1>1, <1>10, <1>11, <2>1 DEF ResultOwned
  <2>3. Len(calls) \in 1..(Len(calls) + 1)
    BY <1>6
  <2>4. Len(calls) = 1
    <3> SUFFICES ASSUME Len(calls) # 1 PROVE FALSE
      OBVIOUS
    <3>1. Fresh(Outer(base, calls, Len(calls)))
      BY <2>3, OuterOwned
    <3> QED
      BY <1>3, <1>4, <1>11, <2>1, <3>1 DEF Fresh
  <2>5. basetype = base
    BY <1>3, <2>4 DEF Outer
  <2> QED
    BY <1>4, <1>11, <2>1, <2>2, <2>4, <2>5
<1> QED
  BY <1>1, <1>8, <1>9, <1>11, StubStatic

\* The pointer that takes the place of a stub is a cell of this declaration.
LEMMA PointerStatic ==
  ASSUME Basic, StaticInv, Pointer
  PROVE  StaticInv'
<1>1. /\ UNCHANGED <<base, static, type, declared, pc>> /\ pc = "return" /\ calls # << >>
      /\ heap' = [heap EXCEPT ![top.stub] = ast_pointer(top.basetype)] /\ calls' = Front(calls)
  BY DEF Pointer
<1>2. Formed(heap) /\ CallsOK(heap, base, calls) /\ Len(heap) \in Nat /\ BaseOK(heap, base) /\ type # 0
  BY <1>1, LenProperties DEF Basic, Formed, Place
<1>3. PICK s : s = top.stub /\ s = calls[Len(calls)].stub
  BY DEF top
<1>4. s \in 1..Len(heap) /\ heap[s].kind = "stub" /\ Len(calls) \in Nat /\ Len(calls) > 0
  BY <1>1, <1>2, <1>3, TopIsStub
<1>5. PICK t : t = top.basetype /\ t \in 1..Len(heap)
  <2>1. Len(calls) \in 1..Len(calls) /\ Len(calls) \in 1..(Len(calls) + 1)
    BY <1>4
  <2>2. top.basetype = Outer(base, calls, Len(calls))
    BY <1>2, <2>1 DEF CallsOK, top
  <2> QED
    BY <1>2, <2>1, <2>2, InnermostIsCell
<1>6. PICK c : c = ast_pointer(t)
  OBVIOUS
<1>7. CellOK(Len(heap), c) /\ ~c.isstatic
  BY <1>2, <1>5, <1>6, CellsMade DEF ast_pointer, Cell
<1>8. Fills(heap, s, c, heap') /\ Returns(calls, calls')
  BY <1>1, <1>3, <1>5, <1>6 DEF Fills, Returns
<1>9. PICK h : h = heap' /\ Filled(heap, s, c, h)
  BY <1>2, <1>4, <1>7, <1>8, CellFilled
<1>10. Over(heap, base, calls, c, h, calls')
  BY <1>1, <1>2, <1>3, <1>8, <1>9 DEF Over
<1> QED
  BY <1>1, <1>2, <1>7, <1>9, <1>10, StubStatic

\* The marks after a declarator, of storage and cells that are marked or not.
LEMMA MarkAdded ==
  ASSUME NEW a, NEW b, NEW st, NEW same, a = (b \/ (same /\ st)), st \in BOOLEAN, b \in BOOLEAN, same \in BOOLEAN
  PROVE  /\ ~same => a = b
         /\ same /\ (b => st) => a = st
         /\ a => b \/ st
  OBVIOUS

\* The type is marked if the declaration is static: it was not before, and it is nobody
\* else's, or everybody's who has the base.
LEMMA DeclaratorStatic ==
  ASSUME Basic, StaticInv, Declarator
  PROVE  StaticInv'
<1>1. /\ Formed(heap) /\ Len(heap) \in Nat /\ TypeOK /\ BaseOK(heap, base) /\ calls = << >>
      /\ pc = "return" /\ DeclsOK(heap, declared) /\ type # 0 /\ type \in 1..Len(heap)
      /\ static \in BOOLEAN /\ base \in Nat
  BY LenProperties DEF Basic, Formed, Declarator, Place, TypeOK
<1>2. PICK z : Sizes(heap, z) /\ Stamped(heap, z, heap', type, static)
  BY DeclaratorStamps
<1>3. PICK h : h = heap'
  OBVIOUS
<1>4. \A x \in 1..Len(heap) :
        /\ x # type => h[x].isstatic = heap[x].isstatic
        /\ x = type /\ (heap[x].isstatic => static) => h[x].isstatic = static
        /\ h[x].isstatic => heap[x].isstatic \/ static
  <2> SUFFICES ASSUME NEW x \in 1..Len(heap)
               PROVE /\ x # type => h[x].isstatic = heap[x].isstatic
                     /\ x = type /\ (heap[x].isstatic => static) => h[x].isstatic = static
                     /\ h[x].isstatic => heap[x].isstatic \/ static
    OBVIOUS
  <2>1. PICK same \in BOOLEAN : same = (x = type)
    OBVIOUS
  <2>2. h[x].isstatic = (heap[x].isstatic \/ (same /\ static))
    BY <1>2, <1>3, <2>1 DEF Stamped
  <2>3. heap[x].isstatic \in BOOLEAN
    BY <1>1, CellRead
  <2> QED
    BY <1>1, <2>1, <2>2, <2>3, MarkAdded
<1>5. TypeOwned
  BY <1>1 DEF StaticInv, Owned
<1>6. type = base \/ New(type)
  BY <1>5 DEF TypeOwned
<1>7. base # 0 /\ base \in 1..Len(heap)
  BY <1>1 DEF BaseOK, Formed
<1>8. base # 2 /\ heap[base].isstatic => static
  BY <1>7 DEF StaticInv, Marks
<1>9. base # 2 \/ derived # << >> => (heap[type].isstatic => static)
  <2> SUFFICES ASSUME base # 2 \/ derived # << >>, heap[type].isstatic PROVE static
    OBVIOUS
  <2>1. derived = << >> /\ heap[base].isstatic
    BY <1>5 DEF TypeOwned
  <2> QED
    BY <1>8, <2>1
<1>10. base # 2 \/ derived # << >> => h[type].isstatic = static
  BY <1>1, <1>4, <1>9
<1>11. ASSUME NEW k \in 1..Len(declared), declared[k].base # 2 \/ declared[k].derived # << >>
       PROVE  h[declared[k].type].isstatic = declared[k].static
  <2>1. PICK x \in 1..Len(heap) : x = declared[k].type
    BY <1>1 DEF DeclsOK
  <2>2. heap[x].isstatic = declared[k].static
    BY <1>11, <2>1 DEF StaticInv, Marks, StaticAsDeclared
  <2>3. CASE x # type
    BY <1>4, <2>1, <2>2, <2>3
  <2>4. CASE x = type
    <3>1. type = base
      BY <1>6, <2>1, <2>4 DEF New
    <3>2. declared[k].derived = << >> /\ declared[k].base = base /\ base # 2
      BY <1>11, <2>1, <2>4, <3>1 DEF StaticInv, Marks
    <3>3. declared[k].static = static
      BY <3>2 DEF StaticInv, Marks
    <3>4. h[x].isstatic = static
      BY <1>10, <2>4, <3>2
    <3> QED
      BY <2>1, <3>3, <3>4
  <2> QED
    BY <2>3, <2>4
<1>12. PICK e : e = [type |-> type, base |-> base, static |-> static, derived |-> derived]
  OBVIOUS
<1>13. e \in DeclType /\ e.type = type /\ e.base = base /\ e.static = static /\ e.derived = derived
  BY <1>1, <1>12 DEF DeclType, TypeOK
<1>14. PICK ds : ds = declared' /\ ds = Append(declared, e)
  BY <1>12 DEF Declarator
<1>15. /\ Len(declared) \in Nat /\ Len(ds) = Len(declared) + 1
       /\ \A i \in 1..Len(declared) : ds[i] = declared[i]
       /\ ds[Len(declared) + 1] = e
  BY <1>1, <1>13, <1>14, AppendProperties, LenProperties DEF DeclsOK
<1>16. \A k \in 1..Len(ds) : k \in 1..Len(declared) \/ k = Len(declared) + 1
  BY <1>15
<1>17. StaticAsDeclared'
  <2>1. ASSUME NEW k \in 1..Len(ds), ds[k].base # 2 \/ ds[k].derived # << >>
        PROVE  h[ds[k].type].isstatic = ds[k].static
    <3>1. CASE k \in 1..Len(declared)
      BY <1>11, <1>15, <2>1, <3>1
    <3>2. CASE k = Len(declared) + 1
      BY <1>10, <1>13, <1>15, <2>1, <3>2
    <3> QED
      BY <1>16, <3>1, <3>2
  <2> QED
    BY <1>3, <1>14, <2>1 DEF StaticAsDeclared
<1>18. ASSUME NEW k \in 1..Len(ds)
       PROVE  /\ ds[k].type = base => ds[k].derived = << >> /\ ds[k].base = base
              /\ ds[k].type = 2 => ds[k].derived = << >> /\ ds[k].base = 2
              /\ ds[k].base = base /\ base # 2 => ds[k].static = static
  <2>1. CASE k \in 1..Len(declared)
    <3>1. ds[k] = declared[k]
      BY <1>15, <2>1
    <3> QED
      BY <2>1, <3>1 DEF StaticInv, Marks
  <2>2. CASE k = Len(declared) + 1
    <3>1. ds[k] = e
      BY <1>15, <2>2
    <3>2. type = base => derived = << >>
      BY <1>5 DEF TypeOwned
    <3>3. type = 2 => derived = << >> /\ base = 2
      BY <1>6, <3>2 DEF New
    <3> QED
      BY <1>13, <3>1, <3>2, <3>3
  <2> QED
    BY <1>16, <2>1, <2>2
<1>19. base # 0 /\ base # 2 /\ h[base].isstatic => static
  BY <1>4, <1>7, <1>8
<1>20. UNCHANGED <<base, static, calls>> /\ type' = 0 /\ pc' = "next"
  BY DEF Declarator
<1>21. Marks'
  BY <1>3, <1>14, <1>17, <1>18, <1>19, <1>20 DEF Marks
<1>22. Owned'
  BY <1>1, <1>20 DEF Owned, StubsFresh
<1> QED
  BY <1>21, <1>22 DEF StaticInv

\* A step in which nothing happens.
LEMMA StutterStatic ==
  ASSUME StaticInv, UNCHANGED vars
  PROVE  StaticInv'
<1>1. /\ UNCHANGED <<heap, base, static, calls, declared>>
      /\ UNCHANGED <<pc, type, result, basetype, lengths, derived>>
  BY DEF vars
<1>2. pc' = "arrays" => ResultOwned'
  BY <1>1 DEF StaticInv, Owned, ResultOwned, Fresh, New, NoStub
<1>3. type' # 0 => TypeOwned'
  BY <1>1 DEF StaticInv, Owned, TypeOwned, New
<1> QED
  BY <1>1, <1>2, <1>3, QuietStatic

\* Every step keeps what is marked apart.
LEMMA NextStatic ==
  ASSUME Basic, StaticInv, [Next]_vars
  PROVE  StaticInv'
<1>1. CASE \E istypedef, isstatic \in BOOLEAN : Specification(istypedef, isstatic)
  BY <1>1, SpecificationStatic
<1>2. CASE \E is \in {"*", "("} : Nested(is)
  BY <1>2, NestedStatic
<1>3. CASE Name
  BY <1>3, NameStatic
<1>4. CASE \E length \in Lengths : Subscript(length)
  BY <1>4, SubscriptStatic
<1>5. CASE Parameters
  BY <1>5, ParametersStatic
<1>6. CASE NoSuffix
  BY <1>6, NoSuffixStatic
<1>7. CASE Array
  BY <1>7, ArrayStatic
<1>8. CASE Restaged
  BY <1>8, NamedOwned, CopiedOwned
<1>9. CASE Pointer
  BY <1>9, PointerStatic
<1>10. CASE Parenthesis
  BY <1>10, ParenthesisStatic
<1>11. CASE Declarator
  BY <1>11, DeclaratorStatic
<1>12. CASE Comma \/ Semicolon
  BY <1>12, CommaStatic
<1>13. CASE UNCHANGED vars
  BY <1>13, StutterStatic
<1> QED
  BY <1>1, <1>2, <1>3, <1>4, <1>5, <1>6, <1>7, <1>8, <1>9, <1>10, <1>11, <1>12, <1>13, Zenon
     DEF Next

\* Whatever the parentheses hold, no declarator marks a type that another one has.
THEOREM DeclaratorStaticAsDeclared == Spec => []StaticAsDeclared
<1>1. Init => Basic /\ StaticInv
  BY InitBasic, InitStatic
<1>2. Basic /\ StaticInv /\ [Next]_vars => (Basic /\ StaticInv)'
  BY NextBasic, NextStatic
<1>3. Basic /\ StaticInv => StaticAsDeclared
  BY DEF StaticInv, Marks
<1> QED
  BY <1>1, <1>2, <1>3, PTL DEF Spec
=============================================================================
