---------------------------- MODULE LayoutProofs ----------------------------
(***************************************************************************)
(* Structures and unions, for definitions of any depth and any number of   *)
(* members: where fields lie, which type a tag means, and that a variable  *)
(* keeps the structure it has.  The invariant says of a definition in      *)
(* progress what FieldsApart says of a finished one.                       *)
(***************************************************************************)
EXTENDS Layout, DataLemmas

Step          == [n : Nat \ {0}, struct : BOOLEAN]
FieldType     == [offset : Nat, size : Nat, path : Seq(Step)]
StructureType == [isstruct : BOOLEAN, complete : BOOLEAN, size : Nat, fields : Seq(FieldType)]
AnyTag        == StructTags \cup UnionTags \cup {NoTag}
TagEntry      == [tag : AnyTag, type : Nat \ {0}]
FrameType     == [tag : AnyTag, isstruct : BOOLEAN, offset : Nat, maxsize : Nat, members : Nat,
                  table : Seq(FieldType)]

\* Two paths part at their k-th step.
PartAt(p, q, k) ==
  /\ k \in 1..Len(p) /\ k <= Len(q)
  /\ p[k] # q[k]
  /\ \A i \in 1..(k - 1) : p[i] = q[i]

\* The fields lie within size bytes, and two of them apart unless a union has both.
Laid(fields, size) ==
  /\ \A i \in 1..Len(fields) : fields[i].offset + fields[i].size <= size
  /\ \A i, j \in 1..Len(fields) : i < j =>
       \E k \in Nat : /\ PartAt(fields[i].path, fields[j].path, k)
                      /\ fields[i].path[k].struct => fields[i].offset + fields[i].size <= fields[j].offset

\* The fields came from the first n members of a struct or a union.
FromFirst(fields, n, struct) ==
  \A i \in 1..Len(fields) : /\ Len(fields[i].path) >= 1 /\ fields[i].path[1].n <= n
                            /\ fields[i].path[1].struct = struct

\* They came from its n-th member, at offset.
FromOne(fields, n, struct, offset) ==
  \A i \in 1..Len(fields) : /\ Len(fields[i].path) >= 1 /\ fields[i].path[1].n = n
                            /\ fields[i].path[1].struct = struct
                            /\ fields[i].offset >= offset

\* A definition in progress: its fields came from the members there have been so far.
FrameSound(frame) ==
  /\ Laid(frame.table, SizeOf(frame))
  /\ FromFirst(frame.table, frame.members, frame.isstruct)
  /\ ~frame.isstruct => frame.offset = 0
  /\ frame.members > 0 => SizeOf(frame) > 0

TypeInv ==
  /\ types \in Seq(StructureType)
  /\ structures \in Seq(TagEntry) /\ unions \in Seq(TagEntry)
  /\ open \in Seq(FrameType)
  /\ base \in [type : Nat, size : Nat]
  /\ variables \in Seq([type : Nat \ {0}, was : StructureType])

\* A tag stands in its table once, and its type is of the kind of the table.
TagsInv ==
  \A s \in BOOLEAN :
    /\ \A i \in 1..Len(Table(s)) : /\ Table(s)[i].type \in 1..Len(types)
                                   /\ types[Table(s)[i].type].isstruct = s
    /\ \A i, j \in 1..Len(Table(s)) : Table(s)[i].tag = Table(s)[j].tag => i = j

\* A finished structure takes space, and so never stops the next field from being aligned.
TypesSound ==
  \A t \in 1..Len(types) : /\ Laid(types[t].fields, types[t].size)
                           /\ types[t].complete => types[t].size > 0

OpenSound == \A i \in 1..Len(open) : FrameSound(open[i])

BaseSound == base.type # 0 => base.type \in 1..Len(types) /\ base.size = types[base.type].size

\* A variable has a finished type, which no definition takes up again unless it redefines it.
VariablesInv ==
  ~Redefined => \A i \in 1..Len(variables) : /\ variables[i].type \in 1..Len(types)
                                             /\ types[variables[i].type] = variables[i].was
                                             /\ variables[i].was.complete

LayoutInv == TypeInv /\ TagsInv /\ TypesSound /\ OpenSound /\ BaseSound /\ VariablesInv

-----------------------------------------------------------------------------
(* Where a field goes.                                                     *)

\* The padding before a field that takes space.
LEMMA PaddingIs ==
  ASSUME NEW offset \in Nat, NEW size \in Nat \ {0}
  PROVE  Padding(offset, size) \in Nat
<1> DEFINE align == Smaller(size, ARCH_ALIGNMENT)
<1>1. align \in Nat \ {0}
  BY SizesAssumption DEF SizesAssumption, Smaller
<1>2. \A a \in Nat, b \in Nat \ {0} : a % b \in 0..(b - 1)
  OBVIOUS
<1> HIDE DEF align
<1>3. offset % align \in 0..(align - 1)
  BY <1>1, <1>2
<1> QED
  BY <1>1, <1>3 DEF Padding, align

\* A new member is another first step than those of the members before it.
LEMMA NewMemberParts ==
  ASSUME NEW p \in Seq(Step), Len(p) >= 1, NEW q \in Seq(Step), Len(q) >= 1,
         p[1].n < q[1].n
  PROVE  PartAt(p, q, 1)
<1>1. p[1] \in Step /\ q[1] \in Step /\ Len(p) \in Nat /\ Len(q) \in Nat
  BY LenProperties
<1>2. p[1] # q[1]
  BY <1>1 DEF Step
<1> QED
  BY <1>1, <1>2 DEF PartAt

\* A step before both paths moves the place where they part by one.
LEMMA LongerParts ==
  ASSUME NEW p \in Seq(Step), NEW q \in Seq(Step), NEW s \in Step, NEW k \in Nat, PartAt(p, q, k)
  PROVE  PartAt(<<s>> \o p, <<s>> \o q, k + 1) /\ (<<s>> \o p)[k + 1] = p[k]
<1>1. /\ Len(p) \in Nat /\ Len(q) \in Nat /\ <<s>> \in Seq(Step) /\ Len(<<s>>) = 1
      /\ k \in 1..Len(p) /\ k <= Len(q) /\ p[k] # q[k] /\ \A i \in 1..(k - 1) : p[i] = q[i]
  BY LenProperties DEF PartAt
<1>2. /\ Len(<<s>> \o p) = 1 + Len(p) /\ Len(<<s>> \o q) = 1 + Len(q)
      /\ \A i \in 1..(1 + Len(p)) : (<<s>> \o p)[i] = IF i <= 1 THEN <<s>>[i] ELSE p[i - 1]
      /\ \A i \in 1..(1 + Len(q)) : (<<s>> \o q)[i] = IF i <= 1 THEN <<s>>[i] ELSE q[i - 1]
  BY <1>1, ConcatProperties
<1> DEFINE pp == <<s>> \o p
           qq == <<s>> \o q
<1> HIDE DEF pp, qq
<1>3. /\ Len(pp) = 1 + Len(p) /\ Len(qq) = 1 + Len(q)
      /\ \A i \in 1..(1 + Len(p)) : pp[i] = IF i <= 1 THEN s ELSE p[i - 1]
      /\ \A i \in 1..(1 + Len(q)) : qq[i] = IF i <= 1 THEN s ELSE q[i - 1]
  BY <1>1, <1>2 DEF pp, qq
<1>4. /\ k + 1 \in 1..(1 + Len(p)) /\ k + 1 \in 1..(1 + Len(q)) /\ ~(k + 1 <= 1) /\ k + 1 - 1 = k
  BY <1>1
<1>5. pp[k + 1] = p[k] /\ qq[k + 1] = q[k]
  BY <1>3, <1>4
<1>6. \A i \in 1..k : pp[i] = qq[i]
  <2> SUFFICES ASSUME NEW i \in 1..k PROVE pp[i] = qq[i]
    OBVIOUS
  <2>1. i \in 1..(1 + Len(p)) /\ i \in 1..(1 + Len(q)) /\ (i <= 1 \/ i - 1 \in 1..(k - 1))
    BY <1>1
  <2> QED
    BY <1>1, <1>3, <2>1
<1>7. PartAt(pp, qq, k + 1)
  BY <1>1, <1>3, <1>4, <1>5, <1>6 DEF PartAt
<1> QED
  BY <1>5, <1>7 DEF pp, qq

\* Paths part at one place only, the one Part finds.
LEMMA PartIs ==
  ASSUME NEW p \in Seq(Step), NEW q \in Seq(Step), NEW k \in Nat, PartAt(p, q, k)
  PROVE  Part(p, q) = k
<1>1. Len(p) \in Nat /\ Len(q) \in Nat
  BY LenProperties
<1>2. ASSUME NEW m \in 1..Len(p), m <= Len(q), p[m] # q[m], \A i \in 1..(m - 1) : p[i] = q[i]
      PROVE  m = k
  <2>1. CASE m < k
    <3>1. m \in 1..(k - 1)
      BY <1>1, <2>1 DEF PartAt
    <3> QED
      BY <1>2, <3>1 DEF PartAt
  <2>2. CASE m > k
    <3>1. k \in 1..(m - 1)
      BY <1>1, <2>2 DEF PartAt
    <3> QED
      BY <1>2, <3>1 DEF PartAt
  <2> QED
    BY <1>1, <2>1, <2>2
<1> DEFINE m == Part(p, q)
<1>3. m \in 1..Len(p) /\ m <= Len(q) /\ p[m] # q[m] /\ \A i \in 1..(m - 1) : p[i] = q[i]
  BY DEF PartAt, Part
<1> QED
  BY <1>2, <1>3

\* What the fields of a definition and what comes after them have to be.
LEMMA LaidAfter ==
  ASSUME NEW fs \in Seq(FieldType), NEW gs \in Seq(FieldType), NEW m \in Nat, NEW n \in Nat,
         NEW offset \in Nat, NEW struct \in BOOLEAN, m <= n,
         NEW before \in Nat, NEW now, now = before + 1, Laid(fs, m),
         struct => m <= offset,
         FromFirst(fs, before, struct), FromOne(gs, now, struct, offset),
         Laid(gs, n)
  PROVE  /\ fs \o gs \in Seq(FieldType) /\ Laid(fs \o gs, n)
         /\ FromFirst(fs \o gs, now, struct)
<1> DEFINE hs == fs \o gs
           p  == Len(fs)
<1>1. /\ p \in Nat /\ Len(gs) \in Nat /\ hs \in Seq(FieldType) /\ Len(hs) = p + Len(gs)
      /\ \A i \in 1..(p + Len(gs)) : hs[i] = IF i <= p THEN fs[i] ELSE gs[i - p]
      /\ \A i \in 1..p : fs[i] \in FieldType
      /\ \A i \in 1..Len(gs) : gs[i] \in FieldType
  BY ConcatProperties, LenProperties
<1> HIDE DEF hs
\* A field is of the one part or of the other.
<1>2. \A i \in 1..Len(hs) : \/ i \in 1..p /\ hs[i] = fs[i]
                            \/ i > p /\ i - p \in 1..Len(gs) /\ hs[i] = gs[i - p]
  BY <1>1
<1>3. \A f \in FieldType : f.offset \in Nat /\ f.size \in Nat /\ f.path \in Seq(Step)
  BY DEF FieldType
<1>0. /\ \A i \in 1..Len(fs) : /\ Len(fs[i].path) >= 1 /\ fs[i].path[1].n <= before
                                /\ fs[i].path[1].struct = struct
      /\ \A i \in 1..Len(gs) : /\ Len(gs[i].path) >= 1 /\ gs[i].path[1].n = before + 1
                                /\ gs[i].path[1].struct = struct
                                /\ gs[i].offset >= offset
  BY DEF FromFirst, FromOne
<1>4. \A i \in 1..Len(hs) : hs[i].offset + hs[i].size <= n
  <2> SUFFICES ASSUME NEW i \in 1..Len(hs) PROVE hs[i].offset + hs[i].size <= n
    OBVIOUS
  <2>1. CASE i \in 1..p /\ hs[i] = fs[i]
    <3>1. fs[i].offset + fs[i].size <= m /\ fs[i].offset + fs[i].size \in Nat
      <4>1. fs[i].offset + fs[i].size <= m
        BY <2>1 DEF Laid
      <4>2. PICK a \in Nat, b \in Nat : a = fs[i].offset /\ b = fs[i].size
        BY <1>1, <1>3, <2>1
      <4>3. a + b \in Nat
        BY ONLY a \in Nat, b \in Nat
      <4> QED
        BY <4>1, <4>2, <4>3
    <3> QED
      BY <2>1, <3>1
  <2>2. CASE i - p \in 1..Len(gs) /\ hs[i] = gs[i - p]
    BY <2>2 DEF Laid
  <2> QED
    BY <1>2, <2>1, <2>2
<1>5. ASSUME NEW i \in 1..Len(hs), NEW j \in 1..Len(hs), i < j
      PROVE  \E k \in Nat : /\ PartAt(hs[i].path, hs[j].path, k)
                            /\ hs[i].path[k].struct => hs[i].offset + hs[i].size <= hs[j].offset
  <2>1. CASE i \in 1..p /\ hs[i] = fs[i] /\ j \in 1..p /\ hs[j] = fs[j]
    BY <1>5, <2>1 DEF Laid
  <2>2. CASE i > p /\ i - p \in 1..Len(gs) /\ hs[i] = gs[i - p] /\ j - p \in 1..Len(gs) /\ hs[j] = gs[j - p]
    <3>1. i - p < j - p
      BY <1>1, <1>5
    <3> QED
      BY <2>2, <3>1 DEF Laid
  <2>3. CASE i \in 1..p /\ hs[i] = fs[i] /\ j - p \in 1..Len(gs) /\ hs[j] = gs[j - p]
    <3> DEFINE f == fs[i]
               g == gs[j - p]
    <3>1. f \in FieldType /\ g \in FieldType
      BY <1>1, <2>3
    <3>2. /\ f.path \in Seq(Step) /\ g.path \in Seq(Step) /\ Len(f.path) >= 1 /\ Len(g.path) >= 1
          /\ f.path[1].n <= before /\ g.path[1].n = before + 1 /\ f.path[1].struct = struct
          /\ g.offset >= offset /\ f.offset + f.size <= m
          /\ f.offset \in Nat /\ f.size \in Nat /\ g.offset \in Nat
      BY <1>0, <1>3, <2>3, <3>1 DEF Laid
    <3> HIDE DEF f, g
    <3>3. f.path[1].n \in Nat
      <4>1. f.path[1] \in Step
        <5>1. PICK q \in Seq(Step) : q = f.path /\ Len(q) >= 1
          BY <3>2
        <5>2. 1 \in 1..Len(q)
          BY <5>1, LenProperties
        <5>3. q[1] \in Step
          BY ONLY <5>2, q \in Seq(Step), ElementOfSeq
        <5> QED
          BY <5>1, <5>3
      <4> QED
        BY <4>1 DEF Step
    <3>4. PartAt(f.path, g.path, 1)
      <4>1. f.path[1].n < g.path[1].n
        <5>1. PICK a \in Nat : a = f.path[1].n
          BY <3>3
        <5>2. a <= before /\ g.path[1].n = before + 1
          BY <3>2, <5>1
        <5>3. a < before + 1
          BY ONLY a \in Nat, before \in Nat, <5>2
        <5> QED
          BY <5>1, <5>2, <5>3
      <4>2. PICK a \in Seq(Step), b \in Seq(Step) : a = f.path /\ b = g.path
        BY <3>2
      <4>3. Len(a) >= 1 /\ Len(b) >= 1 /\ a[1].n < b[1].n
        BY <3>2, <4>1, <4>2
      <4>4. PartAt(a, b, 1)
        BY ONLY a \in Seq(Step), b \in Seq(Step), <4>3, NewMemberParts
      <4> QED
        BY <4>2, <4>4
    <3>5. f.path[1].struct => f.offset + f.size <= g.offset
      BY <3>2
    <3> QED
      BY <2>3, <3>4, <3>5 DEF f, g
  <2>4. CASE i > p /\ j \in 1..p
    BY <1>1, <1>5, <2>4
  <2> QED
    BY <1>2, <2>1, <2>2, <2>3, <2>4
<1>6. \A i \in 1..Len(hs) :
        /\ Len(hs[i].path) >= 1 /\ hs[i].path[1].n <= before + 1
        /\ hs[i].path[1].struct = struct
  <2> SUFFICES ASSUME NEW i \in 1..Len(hs)
               PROVE  /\ Len(hs[i].path) >= 1 /\ hs[i].path[1].n <= before + 1
                      /\ hs[i].path[1].struct = struct
    OBVIOUS
  <2>1. CASE i \in 1..p /\ hs[i] = fs[i]
    <3>1. fs[i].path \in Seq(Step) /\ Len(fs[i].path) >= 1
      BY <1>0, <1>1, <1>3, <2>1
    <3>2. fs[i].path[1] \in Step
      BY <3>1, LenProperties
    <3>3. fs[i].path[1].n \in Nat /\ fs[i].path[1].n <= before
      BY <1>0, <2>1, <3>2 DEF Step
    <3>4. fs[i].path[1].n <= before + 1
      BY <3>3
    <3> QED
      BY <1>0, <2>1, <3>1, <3>4
  <2>2. CASE i - p \in 1..Len(gs) /\ hs[i] = gs[i - p]
    BY <1>0, <2>2
  <2> QED
    BY <1>2, <2>1, <2>2
<1>7. Laid(hs, n) /\ FromFirst(hs, now, struct)
  BY <1>4, <1>5, <1>6 DEF Laid, FromFirst
<1> QED
  BY <1>1, <1>7 DEF hs

\* The call of parse_memory_fields that reads.
LEMMA TopIs ==
  ASSUME TypeInv, open # << >>
  PROVE  /\ Len(open) \in 1..Len(open) /\ top \in FrameType
         /\ top.isstruct \in BOOLEAN /\ top.offset \in Nat /\ top.maxsize \in Nat
         /\ top.members \in Nat /\ top.table \in Seq(FieldType) /\ SizeOf(top) \in Nat
         /\ top.tag \in AnyTag
         /\ Member \in Step /\ Member.n = top.members + 1 /\ Member.struct = top.isstruct
<1>1. Len(open) \in 1..Len(open) /\ top \in FrameType
  BY Popped DEF TypeInv, top
<1> HIDE DEF top
<1>2. /\ top.isstruct \in BOOLEAN /\ top.offset \in Nat /\ top.maxsize \in Nat
      /\ top.members \in Nat /\ top.table \in Seq(FieldType) /\ top.tag \in AnyTag
  BY <1>1 DEF FrameType
<1> QED
  BY <1>1, <1>2 DEF SizeOf, Member, Step

\* One member more, with the fields it brings and what it does to the size.
LEMMA GrownSound ==
  ASSUME TypeInv, open # << >>, FrameSound(top),
         NEW gs \in Seq(FieldType), NEW offset \in Nat, NEW o \in Nat, NEW x \in Nat, NEW frame,
         frame = [top EXCEPT !.offset = o, !.maxsize = x, !.members = top.members + 1, !.table = top.table \o gs],
         SizeOf(top) <= SizeOf(frame), SizeOf(frame) > 0,
         top.isstruct => top.offset <= offset,
         ~top.isstruct => o = 0,
         FromOne(gs, top.members + 1, top.isstruct, offset), Laid(gs, SizeOf(frame))
  PROVE  frame \in FrameType /\ FrameSound(frame)
<1>1. /\ top \in FrameType
      /\ top.isstruct \in BOOLEAN /\ top.offset \in Nat /\ top.members \in Nat
      /\ top.table \in Seq(FieldType) /\ SizeOf(top) \in Nat
  BY TopIs
<1> DEFINE now == top.members + 1
           t   == top.table \o gs
<1>2. /\ now \in Nat /\ now = top.members + 1 /\ FromOne(gs, now, top.isstruct, offset)
      /\ frame = [top EXCEPT !.offset = o, !.maxsize = x, !.members = now, !.table = t]
  BY <1>1
<1> HIDE DEF now, t
<1>3. /\ frame.isstruct = top.isstruct /\ frame.members = now /\ frame.offset = o
      /\ frame.maxsize = x /\ frame.table = t
  BY <1>1, <1>2 DEF FrameType
<1>4. SizeOf(frame) \in Nat /\ (top.isstruct => SizeOf(top) <= offset)
  BY <1>1, <1>3 DEF SizeOf
<1>5. Laid(top.table, SizeOf(top)) /\ FromFirst(top.table, top.members, top.isstruct)
  BY DEF FrameSound
<1>6. t \in Seq(FieldType) /\ Laid(t, SizeOf(frame)) /\ FromFirst(t, now, top.isstruct)
  <2> DEFINE fs == top.table
             m  == SizeOf(top)
             n  == SizeOf(frame)
             struct == top.isstruct
             before == top.members
  <2>1. /\ fs \in Seq(FieldType) /\ gs \in Seq(FieldType) /\ m \in Nat /\ n \in Nat /\ offset \in Nat
        /\ struct \in BOOLEAN /\ m <= n /\ before \in Nat /\ now = before + 1 /\ Laid(fs, m)
        /\ (struct => m <= offset) /\ FromFirst(fs, before, struct)
        /\ FromOne(gs, now, struct, offset) /\ Laid(gs, n)
    BY <1>1, <1>2, <1>4, <1>5
  <2> HIDE DEF fs, m, n, struct, before
  <2>2. fs \o gs \in Seq(FieldType) /\ Laid(fs \o gs, n) /\ FromFirst(fs \o gs, now, struct)
    BY <2>1, LaidAfter
  <2> QED
    BY <2>2 DEF fs, n, struct, t
<1>7. FrameSound(frame)
  BY <1>3, <1>6 DEF FrameSound
<1>8. frame \in FrameType
  BY <1>1, <1>2, <1>6 DEF FrameType
<1> QED
  BY <1>7, <1>8

\* A member of its own leaves the definition sound.
LEMMA AddFieldSound ==
  ASSUME TypeInv, open # << >>, FrameSound(top), NEW size \in Nat \ {0}
  PROVE  AddField(top, size) \in FrameType /\ FrameSound(AddField(top, size))
<1> DEFINE offset == IF top.isstruct THEN top.offset + Padding(top.offset, size) ELSE 0
           o == IF top.isstruct THEN offset + size ELSE top.offset
           x == IF top.isstruct THEN top.maxsize ELSE Larger(top.maxsize, size)
           frame  == AddField(top, size)
           f      == Field(offset, size, <<Member>>)
           gs     == <<f>>
<1>1. /\ top \in FrameType
      /\ top.isstruct \in BOOLEAN /\ top.offset \in Nat /\ top.maxsize \in Nat
      /\ top.members \in Nat /\ top.table \in Seq(FieldType) /\ SizeOf(top) \in Nat
      /\ Member \in Step /\ Member.n = top.members + 1 /\ Member.struct = top.isstruct
  BY TopIs
<1>2. offset \in Nat /\ (top.isstruct => top.offset <= offset) /\ (~top.isstruct => offset = 0)
  <2>1. Padding(top.offset, size) \in Nat
    BY <1>1, PaddingIs
  <2> QED
    BY <1>1, <2>1
<1>3. ~top.isstruct => top.offset = 0
  BY DEF FrameSound
<1>4. <<Member>> \in Seq(Step) /\ Len(<<Member>>) = 1 /\ <<Member>>[1] = Member
  BY <1>1
<1> HIDE DEF offset
<1>5. /\ o \in Nat /\ x \in Nat /\ (~top.isstruct => o = 0)
      /\ SizeOf(top) <= (IF top.isstruct THEN o ELSE x) /\ offset + size <= (IF top.isstruct THEN o ELSE x)
  BY <1>1, <1>2, <1>3 DEF Larger, SizeOf
<1>6. f \in FieldType /\ f.offset = offset /\ f.size = size /\ f.path = <<Member>>
  BY <1>2, <1>4 DEF Field, FieldType
<1>7. frame = [top EXCEPT !.offset = o, !.maxsize = x, !.members = top.members + 1, !.table = top.table \o gs]
  <2>1. frame = [top EXCEPT !.offset = o, !.maxsize = x, !.members = top.members + 1,
                            !.table = Append(top.table, f)]
    BY DEF AddField, offset
  <2>2. Append(top.table, f) = top.table \o <<f>>
    BY <1>1, <1>6, AppendIsConcat
  <2> QED
    BY <2>1, <2>2
<1> HIDE DEF frame, f, o, x
<1>8. gs \in Seq(FieldType) /\ Len(gs) = 1 /\ gs[1] = f
  BY <1>6
<1> HIDE DEF gs
<1>9. SizeOf(frame) = IF top.isstruct THEN o ELSE x
  BY <1>1, <1>7 DEF SizeOf, FrameType
<1>10. /\ SizeOf(top) <= SizeOf(frame) /\ offset + size <= SizeOf(frame) /\ SizeOf(frame) > 0
  BY <1>1, <1>2, <1>5, <1>9
<1>11. Laid(gs, SizeOf(frame))
  BY <1>6, <1>8, <1>10 DEF Laid
<1>12. FromOne(gs, top.members + 1, top.isstruct, offset)
  <2>1. /\ Len(f.path) >= 1 /\ f.path[1].n = top.members + 1 /\ f.path[1].struct = top.isstruct
        /\ f.offset >= offset
    BY <1>1, <1>2, <1>4, <1>6
  <2>2. \A i \in 1..Len(gs) : gs[i] = f
    BY <1>8
  <2> QED
    BY <2>1, <2>2 DEF FromOne
<1>13. frame \in FrameType /\ FrameSound(frame)
  BY <1>2, <1>5, <1>7, <1>8, <1>10, <1>11, <1>12, GrownSound
<1> QED
  BY <1>13 DEF frame

\* The fields of a finished structure, taken over.
LEMMA SquashedFields ==
  ASSUME NEW fields \in Seq(FieldType), NEW size \in Nat, Laid(fields, size), NEW offset \in Nat,
         NEW n \in Nat, n >= offset + size, Member \in Step
  PROVE  /\ Squashed(fields, offset) \in Seq(FieldType)
         /\ Laid(Squashed(fields, offset), n)
         /\ FromOne(Squashed(fields, offset), Member.n, Member.struct, offset)
<1> DEFINE gs == Squashed(fields, offset)
<1>1. Len(fields) \in Nat /\ \A i \in 1..Len(fields) : fields[i] \in FieldType
  BY LenProperties
<1>2. \A f \in FieldType : f.offset \in Nat /\ f.size \in Nat /\ f.path \in Seq(Step)
  BY DEF FieldType
<1>3. \A p \in Seq(Step) : /\ <<Member>> \o p \in Seq(Step) /\ Len(<<Member>> \o p) >= 1
                           /\ (<<Member>> \o p)[1] = Member
  <2> SUFFICES ASSUME NEW p \in Seq(Step)
               PROVE  /\ <<Member>> \o p \in Seq(Step) /\ Len(<<Member>> \o p) >= 1
                      /\ (<<Member>> \o p)[1] = Member
    OBVIOUS
  <2>1. <<Member>> \in Seq(Step) /\ Len(<<Member>>) = 1 /\ <<Member>>[1] = Member /\ Len(p) \in Nat
    BY LenProperties
  <2>2. /\ <<Member>> \o p \in Seq(Step) /\ Len(<<Member>> \o p) = 1 + Len(p)
        /\ \A i \in 1..(1 + Len(p)) : (<<Member>> \o p)[i] = IF i <= 1 THEN <<Member>>[i] ELSE p[i - 1]
    BY <2>1, ConcatProperties
  <2>3. 1 \in 1..(1 + Len(p)) /\ 1 + Len(p) >= 1
    BY <2>1
  <2> QED
    BY <2>1, <2>2, <2>3
<1>4. \A i \in 1..Len(fields) : /\ gs[i] \in FieldType
                                /\ gs[i].offset = fields[i].offset + offset /\ gs[i].size = fields[i].size
                                /\ gs[i].path = <<Member>> \o fields[i].path
  <2> SUFFICES ASSUME NEW i \in 1..Len(fields)
               PROVE  /\ gs[i] \in FieldType
                      /\ gs[i].offset = fields[i].offset + offset /\ gs[i].size = fields[i].size
                      /\ gs[i].path = <<Member>> \o fields[i].path
    OBVIOUS
  <2>1. gs[i] = [offset |-> fields[i].offset + offset, size |-> fields[i].size,
                 path |-> <<Member>> \o fields[i].path]
    BY DEF Squashed, Field
  <2> DEFINE a == fields[i].offset + offset
             b == fields[i].size
             c == <<Member>> \o fields[i].path
             g == gs[i]
  <2>2. a \in Nat /\ b \in Nat /\ c \in Seq(Step) /\ g = [offset |-> a, size |-> b, path |-> c]
    BY <1>1, <1>2, <1>3, <2>1
  <2> HIDE DEF a, b, c, g
  <2>3. g \in FieldType /\ g.offset = a /\ g.size = b /\ g.path = c
    BY <2>2 DEF FieldType
  <2> QED
    BY <2>3 DEF a, b, c, g
<1>5. gs \in Seq(FieldType) /\ Len(gs) = Len(fields)
  <2>1. gs = [i \in 1..Len(fields) |-> gs[i]]
    BY DEF Squashed
  <2> HIDE DEF gs
  <2>2. gs \in [1..Len(fields) -> FieldType]
    BY <1>4, <2>1
  <2> QED
    BY <1>1, <2>2
<1> HIDE DEF gs
<1>6. \A i \in 1..Len(gs) : gs[i].offset + gs[i].size <= n
  <2> SUFFICES ASSUME NEW i \in 1..Len(gs) PROVE gs[i].offset + gs[i].size <= n
    OBVIOUS
  <2>1. fields[i].offset \in Nat /\ fields[i].size \in Nat /\ fields[i].offset + fields[i].size <= size
    BY <1>1, <1>2, <1>5 DEF Laid
  <2>2. gs[i].offset = fields[i].offset + offset /\ gs[i].size = fields[i].size
    BY <1>4, <1>5
  <2>3. PICK a, b : a = fields[i].offset /\ b = fields[i].size
    OBVIOUS
  <2>4. a \in Nat /\ b \in Nat /\ a + b <= size /\ gs[i].offset = a + offset /\ gs[i].size = b
    BY <2>1, <2>2, <2>3
  <2>5. (a + offset) + b <= n
    BY <2>4
  <2> QED
    BY <2>4, <2>5
<1>7. ASSUME NEW i \in 1..Len(gs), NEW j \in 1..Len(gs), i < j
      PROVE  \E k \in Nat : /\ PartAt(gs[i].path, gs[j].path, k)
                            /\ gs[i].path[k].struct => gs[i].offset + gs[i].size <= gs[j].offset
  <2>1. /\ fields[i].path \in Seq(Step) /\ fields[j].path \in Seq(Step)
        /\ fields[i].offset \in Nat /\ fields[i].size \in Nat /\ fields[j].offset \in Nat
    BY <1>1, <1>2, <1>5
  <2>2. PICK k \in Nat : /\ PartAt(fields[i].path, fields[j].path, k)
                         /\ fields[i].path[k].struct => fields[i].offset + fields[i].size <= fields[j].offset
    BY <1>5, <1>7 DEF Laid
  <2>3. /\ PartAt(gs[i].path, gs[j].path, k + 1)
        /\ gs[i].path[k + 1] = fields[i].path[k]
    <3> DEFINE p == fields[i].path
               q == fields[j].path
    <3>1. p \in Seq(Step) /\ q \in Seq(Step) /\ PartAt(p, q, k)
      BY <2>1, <2>2
    <3>2. gs[i].path = <<Member>> \o p /\ gs[j].path = <<Member>> \o q
      BY <1>4, <1>5
    <3> HIDE DEF p, q
    <3>3. PartAt(<<Member>> \o p, <<Member>> \o q, k + 1) /\ (<<Member>> \o p)[k + 1] = p[k]
      BY <3>1, LongerParts
    <3> QED
      BY <3>2, <3>3 DEF p
  <2>4. fields[i].path[k].struct => gs[i].offset + gs[i].size <= gs[j].offset
    <3>1. \A a, b, c \in Nat : a + b <= c => (a + offset) + b <= c + offset
      OBVIOUS
    <3>2. /\ gs[i].offset = fields[i].offset + offset /\ gs[i].size = fields[i].size
          /\ gs[j].offset = fields[j].offset + offset
      BY <1>4, <1>5
    <3> QED
      BY <2>1, <2>2, <3>1, <3>2
  <2> QED
    BY <2>3, <2>4
<1>8. Laid(gs, n)
  BY <1>6, <1>7 DEF Laid
<1>9. FromOne(gs, Member.n, Member.struct, offset)
  <2> SUFFICES ASSUME NEW i \in 1..Len(gs)
               PROVE  /\ Len(gs[i].path) >= 1 /\ gs[i].path[1].n = Member.n
                      /\ gs[i].path[1].struct = Member.struct /\ gs[i].offset >= offset
    BY DEF FromOne
  <2>1. fields[i].path \in Seq(Step) /\ fields[i].offset \in Nat
    BY <1>1, <1>2, <1>5
  <2>2. Len(gs[i].path) >= 1 /\ gs[i].path[1] = Member
    BY <1>3, <1>4, <1>5, <2>1
  <2>3. gs[i].offset >= offset
    BY <1>4, <1>5, <2>1
  <2> QED
    BY <2>2, <2>3
<1> QED
  BY <1>5, <1>8, <1>9 DEF gs

-----------------------------------------------------------------------------
(* The invariant, step by step.                                            *)

\* table_find finds nothing, or a type of the kind asked for.
LEMMA FindIs ==
  ASSUME LayoutInv, NEW s \in BOOLEAN, NEW tag
  PROVE  \/ Find(s, tag) = 0 /\ Entries(s, tag) = {}
         \/ \E i \in Entries(s, tag) : /\ Find(s, tag) = Table(s)[i].type
                                      /\ Find(s, tag) \in 1..Len(types) /\ Find(s, tag) # 0
                                      /\ types[Find(s, tag)].isstruct = s
<1> DEFINE es == Entries(s, tag)
<1>1. CASE es = {}
  BY <1>1 DEF Find
<1>2. CASE es # {}
  <2> DEFINE first == CHOOSE i \in es : \A j \in es : i <= j
  <2>1. es \in SUBSET Nat
    BY DEF Entries
  <2>2. first \in es
    <3> HIDE DEF es
    <3> QED
      BY <1>2, <2>1, LeastNat
  <2>3. Find(s, tag) = Table(s)[first].type
    BY <1>2 DEF Find
  <2> HIDE DEF first
  <2>4. first \in 1..Len(Table(s))
    BY <2>2 DEF Entries
  <2>5. /\ Table(s)[first].type \in 1..Len(types)
        /\ types[Table(s)[first].type].isstruct = s
    BY <2>4 DEF LayoutInv, TagsInv
  <2>6. Table(s)[first].type # 0
    BY <2>5
  <2> QED
    BY <2>2, <2>3, <2>5, <2>6
<1> QED
  BY <1>1, <1>2

\* With nothing declared the invariant holds.
LEMMA LayoutInit == Init => LayoutInv
<1> SUFFICES ASSUME Init PROVE LayoutInv
  OBVIOUS
<1>1. Len(<< >>) = 0 /\ \A S : << >> \in Seq(S)
  BY EmptySeq
<1>2. /\ types = << >> /\ structures = << >> /\ unions = << >> /\ open = << >> /\ variables = << >>
      /\ base = [type |-> 0, size |-> 0]
  BY DEF Init, NoBase
<1>3. TypeInv
  BY <1>1, <1>2 DEF TypeInv
<1>4. TagsInv
  BY <1>1, <1>2 DEF TagsInv, Table
<1>5. TypesSound /\ OpenSound /\ BaseSound /\ VariablesInv
  BY <1>1, <1>2 DEF TypesSound, OpenSound, BaseSound, VariablesInv
<1> QED
  BY <1>3, <1>4, <1>5 DEF LayoutInv

\* A member has been read: the rest of the state stays, but for the type in front of it.
LEMMA GrowStep ==
  ASSUME LayoutInv, open # << >>, NEW frame \in FrameType, FrameSound(frame), SetTop(frame),
         base' = base \/ base' = NoBase, UNCHANGED <<types, structures, unions, variables>>
  PROVE  LayoutInv'
<1>1. open \in Seq(FrameType) /\ Len(open) \in 1..Len(open)
  BY Popped DEF LayoutInv, TypeInv
<1>2. open' = [open EXCEPT ![Len(open)] = frame]
  BY DEF SetTop
<1>3. /\ open' \in Seq(FrameType) /\ Len(open') = Len(open)
      /\ \A i \in 1..Len(open) : open'[i] = IF i = Len(open) THEN frame ELSE open[i]
  BY <1>1, <1>2, ExceptSeq
<1>4. OpenSound'
  BY <1>3 DEF OpenSound, LayoutInv
<1>5. base' \in [type : Nat, size : Nat] /\ (base'.type = 0 \/ base' = base)
  BY DEF NoBase, LayoutInv, TypeInv
<1>6. TypeInv'
  BY <1>3, <1>5 DEF LayoutInv, TypeInv
<1>7. BaseSound'
  BY <1>5 DEF LayoutInv, BaseSound
<1>8. TagsInv'
  BY DEF LayoutInv, TagsInv, Table
<1>9. TypesSound' /\ VariablesInv'
  BY DEF LayoutInv, TypesSound, VariablesInv
<1> QED
  BY <1>4, <1>6, <1>7, <1>8, <1>9 DEF LayoutInv

\* The definition being read is sound.
LEMMA TopSound ==
  ASSUME LayoutInv, open # << >>
  PROVE  TypeInv /\ FrameSound(top)
<1>1. TypeInv
  BY DEF LayoutInv
<1>2. Len(open) \in 1..Len(open)
  BY <1>1, TopIs
<1> QED
  BY <1>1, <1>2 DEF LayoutInv, OpenSound, top

\* A basic type.
LEMMA ScalarStep ==
  ASSUME LayoutInv, NEW size \in Sizes, Scalar(size)
  PROVE  LayoutInv'
<1>1. size \in Nat \ {0}
  BY SizesAssumption DEF SizesAssumption
<1>2. /\ open # << >> /\ SetTop(AddField(top, size)) /\ base' = base
      /\ UNCHANGED <<types, structures, unions, variables>>
  BY DEF Scalar
<1>3. AddField(top, size) \in FrameType /\ FrameSound(AddField(top, size))
  BY <1>1, <1>2, TopSound, AddFieldSound
<1> QED
  BY <1>2, <1>3, GrowStep

\* A declarator: the next field, or the next variable.
LEMMA DeclaratorStep ==
  ASSUME LayoutInv, NEW n \in Counts \cup {0}, NEW more \in BOOLEAN, Declarator(n, more)
  PROVE  LayoutInv'
<1> DEFINE size == IF n = 0 THEN PointerSize ELSE n * base.size
<1>1. /\ open # << >> /\ IsStructure /\ (n # 0 => types[base.type].complete)
      /\ SetTop(AddField(top, size)) /\ (base' = base \/ base' = NoBase)
      /\ UNCHANGED <<types, structures, unions, variables>>
  BY DEF Declarator
<1>2. size \in Nat \ {0}
  <2>1. CASE n = 0
    BY <2>1 DEF PointerSize
  <2>2. CASE n # 0
    <3>1. n \in Nat \ {0}
      BY <2>2, SizesAssumption DEF SizesAssumption
    <3>2. base.size \in Nat /\ base.size > 0
      BY <1>1, <2>2 DEF LayoutInv, TypeInv, BaseSound, TypesSound, IsStructure
    <3>3. \A a, b \in Nat : a # 0 /\ b > 0 => a * b \in Nat \ {0}
      OBVIOUS
    <3> QED
      BY <2>2, <3>1, <3>2, <3>3
  <2> QED
    BY <2>1, <2>2
<1> HIDE DEF size
<1>3. AddField(top, size) \in FrameType /\ FrameSound(AddField(top, size))
  BY <1>1, <1>2, TopSound, AddFieldSound
<1> QED
  BY <1>1, <1>3, GrowStep

\* The fields of the unnamed structure keep their distances, and come after all there were.
LEMMA UnnamedStep ==
  ASSUME LayoutInv, Unnamed
  PROVE  LayoutInv'
<1> DEFINE t  == types[base.type]
           gs == Squashed(t.fields, top.offset)
           o  == IF top.isstruct THEN top.offset + base.size ELSE top.offset
           x  == IF top.isstruct THEN top.maxsize ELSE Larger(top.maxsize, base.size)
           frame == [top EXCEPT !.offset = o, !.maxsize = x, !.members = top.members + 1,
                                !.table = top.table \o gs]
<1>1. /\ open # << >> /\ IsStructure /\ t.complete /\ base' = NoBase /\ SetTop(frame)
      /\ UNCHANGED <<types, structures, unions, variables>>
  BY DEF Unnamed
<1>2. TypeInv /\ FrameSound(top)
  BY <1>1, TopSound
<1>3. /\ t \in StructureType /\ base.size = t.size /\ Laid(t.fields, t.size) /\ t.size > 0
  <2>1. base.type \in 1..Len(types) /\ base.size = t.size
    BY <1>1 DEF LayoutInv, BaseSound, IsStructure
  <2>2. t \in StructureType
    BY <1>2, <2>1, LenProperties DEF TypeInv
  <2>3. Laid(t.fields, t.size) /\ t.size > 0
    BY <1>1, <2>1 DEF LayoutInv, TypesSound
  <2> QED
    BY <2>1, <2>2, <2>3
<1> HIDE DEF t
<1>4. t.fields \in Seq(FieldType) /\ base.size \in Nat /\ base.size > 0
  BY <1>3 DEF StructureType
<1>5. /\ top \in FrameType
      /\ top.isstruct \in BOOLEAN /\ top.offset \in Nat /\ top.maxsize \in Nat
      /\ top.members \in Nat /\ SizeOf(top) \in Nat
      /\ Member \in Step /\ Member.n = top.members + 1 /\ Member.struct = top.isstruct
  BY <1>1, <1>2, TopIs
<1>6. ~top.isstruct => top.offset = 0
  BY <1>2 DEF FrameSound
<1>7. /\ o \in Nat /\ x \in Nat /\ (~top.isstruct => o = 0)
      /\ SizeOf(top) <= (IF top.isstruct THEN o ELSE x)
      /\ top.offset + base.size <= (IF top.isstruct THEN o ELSE x)
  BY <1>4, <1>5, <1>6 DEF SizeOf, Larger
<1> HIDE DEF o, x, gs
<1>8. SizeOf(frame) = IF top.isstruct THEN o ELSE x
  BY <1>5 DEF SizeOf, FrameType
<1>9. /\ SizeOf(frame) \in Nat /\ SizeOf(top) <= SizeOf(frame) /\ SizeOf(frame) > 0
      /\ SizeOf(frame) >= top.offset + base.size
  BY <1>4, <1>5, <1>7, <1>8
<1>10. frame = [top EXCEPT !.offset = o, !.maxsize = x, !.members = top.members + 1,
                           !.table = top.table \o gs]
  OBVIOUS
<1> HIDE DEF frame
<1>11. /\ gs \in Seq(FieldType) /\ Laid(gs, SizeOf(frame))
       /\ FromOne(gs, top.members + 1, top.isstruct, top.offset)
  <2>1. Laid(t.fields, base.size)
    BY <1>3
  <2> DEFINE fields == t.fields
             size   == base.size
             offset == top.offset
             n      == SizeOf(frame)
  <2>2. /\ fields \in Seq(FieldType) /\ size \in Nat /\ Laid(fields, size) /\ offset \in Nat
        /\ n \in Nat /\ n >= offset + size
    BY <1>4, <1>5, <1>9, <2>1
  <2>3. gs = Squashed(fields, offset)
    BY DEF gs
  <2> HIDE DEF fields, size, offset, n
  <2>4. gs \in Seq(FieldType) /\ Laid(gs, n) /\ FromOne(gs, Member.n, Member.struct, offset)
    BY <1>5, <2>2, <2>3, SquashedFields
  <2> QED
    BY <1>5, <2>4 DEF n, offset
<1>12. top.isstruct => top.offset <= top.offset
  BY <1>5
<1>13. frame \in FrameType /\ FrameSound(frame)
  BY <1>1, <1>2, <1>5, <1>7, <1>9, <1>10, <1>11, <1>12, GrownSound
<1>14. SetTop(frame)
  BY <1>1 DEF frame
<1> QED
  BY <1>1, <1>13, <1>14, GrowStep

\* A type is made: its tag is new to its table, and no other type changes.
LEMMA TypeAdded ==
  ASSUME LayoutInv, NEW type \in StructureType, Laid(type.fields, type.size), type.complete => type.size > 0,
         NEW tag \in AnyTag, Entries(type.isstruct, tag) = {},
         types' = Append(types, type), Insert(type.isstruct, tag, Len(types) + 1), variables' = variables
  PROVE  /\ types' \in Seq(StructureType) /\ Len(types) \in Nat /\ Len(types') = Len(types) + 1
         /\ types'[Len(types) + 1] = type
         /\ structures' \in Seq(TagEntry) /\ unions' \in Seq(TagEntry)
         /\ TagsInv' /\ TypesSound' /\ VariablesInv'
<1> DEFINE next == Len(types) + 1
           entry == [tag |-> tag, type |-> next]
<1>1. /\ types \in Seq(StructureType) /\ structures \in Seq(TagEntry) /\ unions \in Seq(TagEntry)
      /\ TypesSound /\ TagsInv /\ VariablesInv
  BY DEF LayoutInv, TypeInv
<1>2. /\ types' \in Seq(StructureType) /\ Len(types) \in Nat /\ Len(types') = next
      /\ types'[next] = type /\ next \in 1..next
      /\ \A t \in 1..Len(types) : types'[t] = types[t] /\ t \in 1..next
      /\ \A t \in 1..next : t \in 1..Len(types) \/ t = next
  BY <1>1, AppendProperties, LenProperties
<1> HIDE DEF next
<1>3. TypesSound'
  BY <1>1, <1>2 DEF TypesSound
<1>4. VariablesInv'
  BY <1>1, <1>2 DEF VariablesInv
<1>5. entry \in TagEntry /\ entry.tag = tag /\ entry.type = next
  BY <1>2 DEF TagEntry
<1>6. type.isstruct \in BOOLEAN
  BY DEF StructureType
<1>7. ASSUME NEW s \in BOOLEAN
      PROVE  \/ Table(s)' = Table(s)
             \/ s = type.isstruct /\ Table(s)' = Table(s) \o <<entry>>
  <2>0. \A q \in Seq(TagEntry) : q \o << >> = q
    BY ConcatEmptySeq
  <2>1. CASE tag = NoTag
    BY <1>1, <2>0, <2>1 DEF Insert, Table
  <2>2. CASE tag # NoTag
    BY <1>1, <1>6, <2>0, <2>2 DEF Insert, Table, next
  <2> QED
    BY <2>1, <2>2
<1> HIDE DEF entry
<1>8. ASSUME NEW s \in BOOLEAN
      PROVE  /\ Table(s)' \in Seq(TagEntry)
             /\ \A i \in 1..Len(Table(s)') : /\ Table(s)'[i].type \in 1..Len(types')
                                            /\ types'[Table(s)'[i].type].isstruct = s
             /\ \A i, j \in 1..Len(Table(s)') : Table(s)'[i].tag = Table(s)'[j].tag => i = j
  <2> DEFINE old == Table(s)
             new == Table(s)'
  <2>1. /\ old \in Seq(TagEntry) /\ Len(old) \in Nat
        /\ \A i \in 1..Len(old) : old[i].type \in 1..Len(types) /\ types[old[i].type].isstruct = s
        /\ \A i, j \in 1..Len(old) : old[i].tag = old[j].tag => i = j
    <3>1. old \in Seq(TagEntry)
      BY <1>1 DEF Table
    <3> QED
      BY <1>1, <3>1, LenProperties DEF TagsInv
  <2>2. s = type.isstruct => \A i \in 1..Len(old) : old[i].tag # tag
    BY DEF Entries
  <2>3. new = old \/ (s = type.isstruct /\ new = Append(old, entry))
    BY <1>5, <1>7, <2>1, AppendIsConcat
  <2> HIDE DEF old, new
  <2>4. CASE new = old
    <3>1. /\ new \in Seq(TagEntry)
          /\ \A i \in 1..Len(new) : new[i].type \in 1..Len(types') /\ types'[new[i].type].isstruct = s
          /\ \A i, j \in 1..Len(new) : new[i].tag = new[j].tag => i = j
      BY <1>2, <2>1, <2>4
    <3> QED
      BY <3>1 DEF new
  <2>5. CASE s = type.isstruct /\ new = Append(old, entry)
    <3>1. /\ new \in Seq(TagEntry) /\ Len(new) = Len(old) + 1 /\ new[Len(new)] = entry
          /\ \A i \in 1..Len(old) : new[i] = old[i]
          /\ \A i \in 1..Len(new) : i \in 1..Len(old) \/ i = Len(new)
      BY <1>5, <2>1, <2>5, Pushed
    <3>2. \A i \in 1..Len(new) : new[i].type \in 1..Len(types') /\ types'[new[i].type].isstruct = s
      BY <1>2, <1>5, <2>1, <2>5, <3>1
    <3>3. \A i, j \in 1..Len(new) : new[i].tag = new[j].tag => i = j
      BY <1>5, <2>1, <2>2, <2>5, <3>1
    <3> QED
      BY <3>1, <3>2, <3>3 DEF new
  <2> QED
    BY <2>3, <2>4, <2>5
<1>9. TagsInv'
  BY <1>8 DEF TagsInv
<1>10. structures' \in Seq(TagEntry) /\ unions' \in Seq(TagEntry)
  <2>1. structures' = Table(TRUE)' /\ unions' = Table(FALSE)'
    BY DEF Table
  <2> QED
    BY <1>8, <2>1
<1> QED
  BY <1>2, <1>3, <1>4, <1>9, <1>10 DEF next

\* A tag without fields.
LEMMA ReferenceStep ==
  ASSUME LayoutInv, NEW isstruct \in BOOLEAN, NEW tag \in Tags(isstruct), Reference(isstruct, tag)
  PROVE  LayoutInv'
<1> DEFINE t == Find(isstruct, tag)
<1>1. open' = open /\ variables' = variables
  BY DEF Reference
<1>2. OpenSound' /\ open \in Seq(FrameType) /\ variables \in Seq([type : Nat \ {0}, was : StructureType])
      /\ types \in Seq(StructureType)
  BY <1>1 DEF LayoutInv, TypeInv, OpenSound
<1>3. CASE t # 0
  <2>1. base' = [type |-> t, size |-> types[t].size] /\ UNCHANGED <<types, structures, unions>>
    BY <1>3 DEF Reference, Structure
  <2>2. t \in 1..Len(types)
    BY <1>3, FindIs
  <2> HIDE DEF t
  <2>3. types[t] \in StructureType /\ types[t].size \in Nat /\ t \in Nat
    <3>1. types[t] \in StructureType /\ t \in Nat
      BY <1>2, <2>2, LenProperties
    <3> QED
      BY <3>1 DEF StructureType
  <2>4. base' \in [type : Nat, size : Nat] /\ BaseSound'
    BY <2>1, <2>2, <2>3 DEF BaseSound
  <2>5. TypeInv'
    BY <1>1, <2>1, <2>4 DEF LayoutInv, TypeInv
  <2>6. TagsInv' /\ TypesSound' /\ VariablesInv'
    BY <1>1, <2>1 DEF LayoutInv, TagsInv, Table, TypesSound, VariablesInv
  <2> QED
    BY <1>2, <2>4, <2>5, <2>6 DEF LayoutInv
<1>4. CASE t = 0
  <2> DEFINE type == Incomplete(isstruct)
  <2>1. /\ types' = Append(types, type) /\ Insert(isstruct, tag, Len(types) + 1)
        /\ base' = [type |-> Len(types) + 1, size |-> 0]
    BY <1>4 DEF Reference
  <2>2. /\ type \in StructureType /\ type.isstruct = isstruct /\ type.size = 0 /\ ~type.complete
        /\ type.fields = << >> /\ Laid(type.fields, type.size)
    <3>1. << >> \in Seq(FieldType) /\ Len(<< >>) = 0
      BY EmptySeq
    <3> QED
      BY <3>1 DEF Incomplete, StructureType, Laid
  <2>3. Entries(isstruct, tag) = {} /\ tag \in AnyTag
    <3>1. t \notin 1..Len(types)
      BY <1>4
    <3> QED
      BY <1>4, <3>1, FindIs DEF AnyTag, Tags
  <2> HIDE DEF type, t
  <2>4. /\ types' \in Seq(StructureType) /\ Len(types) \in Nat /\ Len(types') = Len(types) + 1
        /\ types'[Len(types) + 1] = type
        /\ structures' \in Seq(TagEntry) /\ unions' \in Seq(TagEntry)
        /\ TagsInv' /\ TypesSound' /\ VariablesInv'
    BY <1>1, <2>1, <2>2, <2>3, TypeAdded
  <2>5. base' \in [type : Nat, size : Nat] /\ BaseSound'
    BY <2>1, <2>2, <2>4 DEF BaseSound
  <2>6. TypeInv'
    BY <1>1, <1>2, <2>4, <2>5 DEF TypeInv
  <2> QED
    BY <1>2, <2>4, <2>5, <2>6 DEF LayoutInv
<1> QED
  BY <1>3, <1>4

\* A tag, or none, with fields.
LEMMA BeginFieldsStep ==
  ASSUME LayoutInv, NEW isstruct \in BOOLEAN, NEW tag \in Tags(isstruct) \cup {NoTag},
         BeginFields(isstruct, tag)
  PROVE  LayoutInv'
<1> DEFINE frame == [tag |-> tag, isstruct |-> isstruct, offset |-> 0,
                     maxsize |-> 0, members |-> 0, table |-> << >>]
<1>1. open' = Append(open, frame) /\ UNCHANGED <<types, structures, unions, base, variables>>
  BY DEF BeginFields
<1>2. /\ frame \in FrameType /\ frame.table = << >> /\ frame.members = 0 /\ frame.offset = 0
  <2>1. << >> \in Seq(FieldType) /\ tag \in AnyTag
    BY EmptySeq DEF AnyTag, Tags
  <2> QED
    BY <2>1 DEF FrameType
<1>3. FrameSound(frame)
  <2>1. Len(<< >>) = 0
    BY EmptySeq
  <2> HIDE DEF frame
  <2> QED
    BY <1>2, <2>1 DEF FrameSound, Laid, FromFirst
<1> HIDE DEF frame
<1>4. open \in Seq(FrameType) /\ OpenSound
  BY DEF LayoutInv, TypeInv
<1>5. /\ open' \in Seq(FrameType) /\ open'[Len(open')] = frame
      /\ \A i \in 1..Len(open) : open'[i] = open[i]
      /\ \A i \in 1..Len(open') : i \in 1..Len(open) \/ i = Len(open')
  BY <1>1, <1>2, <1>4, Pushed
<1>6. OpenSound'
  BY <1>3, <1>4, <1>5 DEF OpenSound
<1>7. TypeInv'
  BY <1>1, <1>5 DEF LayoutInv, TypeInv
<1>8. TagsInv' /\ TypesSound' /\ BaseSound' /\ VariablesInv'
  BY <1>1 DEF LayoutInv, TagsInv, Table, TypesSound, BaseSound, VariablesInv
<1> QED
  BY <1>6, <1>7, <1>8 DEF LayoutInv

\* The '}': what was true of the definition becomes true of the type.
LEMMA EndFieldsStep ==
  ASSUME LayoutInv, EndFields
  PROVE  LayoutInv'
<1> DEFINE s    == top.isstruct
           t    == Find(s, top.tag)
           type == Complete(top, SizeOf(top))
<1>1. /\ open # << >> /\ top.members > 0 /\ Made(t, type) /\ open' = Pop(open) /\ variables' = variables
      /\ base' = [type |-> IF t # 0 THEN t ELSE Len(types) + 1, size |-> type.size]
      /\ ~Redefined => \A i \in Entries(s, top.tag) : ~types[Table(s)[i].type].complete
  BY DEF EndFields
<1>2. TypeInv /\ FrameSound(top) /\ TagsInv /\ TypesSound /\ VariablesInv /\ OpenSound
  BY <1>1, TopSound DEF LayoutInv
<1>3. /\ top \in FrameType /\ s \in BOOLEAN /\ top.table \in Seq(FieldType) /\ SizeOf(top) \in Nat
      /\ top.tag \in AnyTag
  BY <1>1, <1>2, TopIs
<1>4. /\ type \in StructureType /\ type.isstruct = s /\ type.complete /\ type.size = SizeOf(top)
      /\ type.fields = top.table /\ type.size > 0 /\ Laid(type.fields, type.size)
  BY <1>1, <1>2, <1>3 DEF Complete, StructureType, FrameSound
<1>5. /\ open' \in Seq(FrameType) /\ OpenSound'
  <2>1. open \in Seq(FrameType) /\ open # << >>
    BY <1>1, <1>2 DEF TypeInv
  <2>2. open' = SubSeq(open, 1, Len(open) - 1)
    BY <1>1 DEF Pop
  <2>3. /\ Len(open) \in Nat /\ open' \in Seq(FrameType) /\ Len(open') = Len(open) - 1
        /\ \A i \in 1..(Len(open) - 1) : open'[i] = open[i]
    <3> HIDE DEF t, s, type
    <3> QED
      BY <2>1, <2>2, Popped
  <2> QED
    BY <1>2, <2>3 DEF OpenSound
<1> HIDE DEF type
<1>6. CASE t # 0
  <2>1. types' = [types EXCEPT ![t] = type] /\ UNCHANGED <<structures, unions>>
    <3>1. Made(t, type)
      BY <1>1
    <3> HIDE DEF t
    <3> QED
      BY <1>6, <3>1 DEF Made
  <2>2. PICK e \in Entries(s, top.tag) : /\ t = Table(s)[e].type
                                        /\ t \in 1..Len(types) /\ types[t].isstruct = s
    BY <1>3, <1>6, FindIs
  <2>3. ~Redefined => ~types[t].complete
    BY <1>1, <2>2
  <2> HIDE DEF t
  <2>4. /\ types' \in Seq(StructureType) /\ Len(types') = Len(types)
        /\ \A i \in 1..Len(types) : types'[i] = IF i = t THEN type ELSE types[i]
    BY <1>2, <1>4, <2>1, <2>2, ExceptSeq DEF TypeInv
  <2>5. TypesSound'
    BY <1>2, <1>4, <2>4 DEF TypesSound
  <2>6. TagsInv'
    <3>1. \A i \in 1..Len(types) : types'[i].isstruct = types[i].isstruct
      BY <1>4, <2>2, <2>4
    <3>2. \A b \in BOOLEAN : Table(b)' = Table(b)
      BY <2>1 DEF Table
    <3> QED
      BY <1>2, <2>4, <3>1, <3>2 DEF TagsInv
  <2>7. VariablesInv'
    <3> SUFFICES ASSUME ~Redefined, NEW i \in 1..Len(variables)
                 PROVE  /\ variables[i].type \in 1..Len(types')
                        /\ types'[variables[i].type] = variables[i].was
                        /\ variables[i].was.complete
      BY <1>1 DEF VariablesInv
    <3>1. /\ variables[i].type \in 1..Len(types) /\ types[variables[i].type] = variables[i].was
          /\ variables[i].was.complete
      BY <1>2 DEF VariablesInv
    <3>2. variables[i].type # t
      BY <2>3, <3>1
    <3> QED
      BY <2>4, <3>1, <3>2
  <2>8. base' \in [type : Nat, size : Nat] /\ BaseSound'
    <3>1. base' = [type |-> t, size |-> type.size] /\ type.size \in Nat /\ t \in Nat
      BY <1>1, <1>3, <1>4, <1>6, <2>2 DEF t
    <3> QED
      BY <2>2, <2>4, <3>1 DEF BaseSound
  <2>9. TypeInv'
    BY <1>1, <1>2, <1>5, <2>1, <2>4, <2>8 DEF TypeInv
  <2> QED
    BY <1>5, <2>5, <2>6, <2>7, <2>8, <2>9 DEF LayoutInv
<1>7. CASE t = 0
  <2>1. types' = Append(types, type) /\ Insert(type.isstruct, top.tag, Len(types) + 1)
    <3>1. Made(t, type)
      BY <1>1
    <3> HIDE DEF t
    <3> QED
      BY <1>7, <3>1 DEF Made
  <2>2. Entries(s, top.tag) = {}
    BY <1>3, <1>7, FindIs
  <2> DEFINE tag == top.tag
  <2>3. tag \in AnyTag /\ Entries(type.isstruct, tag) = {} /\ Insert(type.isstruct, tag, Len(types) + 1)
    BY <1>3, <1>4, <2>1, <2>2
  <2> HIDE DEF tag, t, s
  <2>4. /\ types' \in Seq(StructureType) /\ Len(types) \in Nat /\ Len(types') = Len(types) + 1
        /\ types'[Len(types) + 1] = type
        /\ structures' \in Seq(TagEntry) /\ unions' \in Seq(TagEntry)
        /\ TagsInv' /\ TypesSound' /\ VariablesInv'
    BY <1>1, <1>4, <2>1, <2>3, TypeAdded
  <2>5. base' = [type |-> Len(types) + 1, size |-> type.size] /\ type.size \in Nat
    BY <1>1, <1>3, <1>4, <1>7
  <2>6. base' \in [type : Nat, size : Nat] /\ BaseSound'
    BY <2>4, <2>5 DEF BaseSound
  <2>7. TypeInv'
    BY <1>1, <1>2, <1>5, <2>4, <2>6 DEF TypeInv
  <2> QED
    BY <1>5, <2>4, <2>6, <2>7 DEF LayoutInv
<1> QED
  BY <1>6, <1>7

\* The end of a declaration.
LEMMA VariableStep ==
  ASSUME LayoutInv, Variable \/ NoVariable
  PROVE  LayoutInv'
<1>1. IsStructure /\ base' = NoBase /\ UNCHANGED <<types, structures, unions, open>>
  BY DEF Variable, NoVariable
<1>2. TypeInv /\ TagsInv /\ TypesSound /\ OpenSound /\ BaseSound /\ VariablesInv
  BY DEF LayoutInv
<1>3. base' \in [type : Nat, size : Nat] /\ BaseSound'
  BY <1>1 DEF NoBase, BaseSound
<1>4. /\ variables' \in Seq([type : Nat \ {0}, was : StructureType]) /\ VariablesInv'
  <2>1. CASE variables' = variables
    BY <1>1, <1>2, <2>1 DEF TypeInv, VariablesInv
  <2>2. CASE Variable
    <3> DEFINE v == [type |-> base.type, was |-> types[base.type]]
    <3>1. variables' = Append(variables, v) /\ types[base.type].complete
      BY <2>2 DEF Variable
    <3>2. base.type \in 1..Len(types)
      BY <1>1, <1>2 DEF BaseSound, IsStructure
    <3>3. types[base.type] \in StructureType /\ base.type \in Nat \ {0}
      BY <1>2, <3>2, LenProperties DEF TypeInv
    <3>4. /\ v \in [type : Nat \ {0}, was : StructureType]
          /\ v.type \in 1..Len(types) /\ types[v.type] = v.was /\ v.was.complete
      BY <3>1, <3>2, <3>3
    <3> HIDE DEF v
    <3>5. /\ variables' \in Seq([type : Nat \ {0}, was : StructureType])
          /\ variables'[Len(variables')] = v
          /\ \A i \in 1..Len(variables) : variables'[i] = variables[i]
          /\ \A i \in 1..Len(variables') : i \in 1..Len(variables) \/ i = Len(variables')
      BY <1>2, <3>1, <3>4, Pushed DEF TypeInv
    <3>6. VariablesInv'
      BY <1>1, <1>2, <3>4, <3>5 DEF VariablesInv
    <3> QED
      BY <3>5, <3>6
  <2> QED
    BY <2>1, <2>2 DEF NoVariable
<1>5. TypeInv'
  BY <1>1, <1>2, <1>3, <1>4 DEF TypeInv
<1>6. TagsInv' /\ TypesSound' /\ OpenSound'
  BY <1>1, <1>2 DEF TagsInv, Table, TypesSound, OpenSound
<1> QED
  BY <1>3, <1>4, <1>5, <1>6 DEF LayoutInv

\* The layout of structures, unions and variables, however they nest and in whatever order
\* they are declared.
THEOREM LayoutInvariant == Spec => []LayoutInv
<1>1. LayoutInv /\ [Next]_vars => LayoutInv'
  <2> SUFFICES ASSUME LayoutInv, [Next]_vars PROVE LayoutInv'
    OBVIOUS
  <2>1. ASSUME NEW isstruct \in BOOLEAN, NEW tag \in Tags(isstruct), Reference(isstruct, tag) PROVE LayoutInv'
    BY <2>1, ReferenceStep
  <2>2. ASSUME NEW isstruct \in BOOLEAN, NEW tag \in Tags(isstruct) \cup {NoTag}, BeginFields(isstruct, tag)
        PROVE  LayoutInv'
    BY <2>2, BeginFieldsStep
  <2>3. CASE EndFields
    BY <2>3, EndFieldsStep
  <2>4. ASSUME NEW size \in Sizes, Scalar(size) PROVE LayoutInv'
    BY <2>4, ScalarStep
  <2>5. ASSUME NEW n \in Counts \cup {0}, NEW more \in BOOLEAN, Declarator(n, more) PROVE LayoutInv'
    BY <2>5, DeclaratorStep
  <2>6. CASE Unnamed
    BY <2>6, UnnamedStep
  <2>7. CASE Variable \/ NoVariable
    BY <2>7, VariableStep
  <2>8. CASE UNCHANGED vars
    BY <2>8 DEF vars, LayoutInv, TypeInv, TagsInv, Table, TypesSound, OpenSound, BaseSound, VariablesInv
  <2> QED
    BY <2>1, <2>2, <2>3, <2>4, <2>5, <2>6, <2>7, <2>8 DEF Next
<1> QED
  BY <1>1, LayoutInit, PTL DEF Spec

-----------------------------------------------------------------------------
(* The properties.                                                         *)

\* Every field lies in its structure, and two share storage only as members of one union,
\* for structures inside structures to any depth.
THEOREM FieldsLieApart == Spec => []FieldsApart
<1>1. ASSUME LayoutInv PROVE FieldsApart
  <2> SUFFICES ASSUME NEW t \in 1..Len(types), NEW i \in 1..Len(types[t].fields), NEW j \in 1..Len(types[t].fields)
               PROVE  LET f == types[t].fields[i]
                          g == types[t].fields[j]
                      IN /\ 0 <= f.offset /\ f.offset + f.size <= types[t].size
                         /\ i < j /\ f.path[Part(f.path, g.path)].struct => f.offset + f.size <= g.offset
    BY DEF FieldsApart
  <2> DEFINE fields == types[t].fields
             f      == fields[i]
             g      == fields[j]
  <2>1. Laid(fields, types[t].size) /\ fields \in Seq(FieldType)
    <3>1. types[t] \in StructureType
      BY <1>1, LenProperties DEF LayoutInv, TypeInv
    <3> QED
      BY <1>1, <3>1 DEF LayoutInv, TypesSound, StructureType
  <2>2. f \in FieldType /\ g \in FieldType
    BY <2>1, LenProperties
  <2>3. f.offset \in Nat /\ f.path \in Seq(Step) /\ g.path \in Seq(Step)
    BY <2>2 DEF FieldType
  <2>4. 0 <= f.offset /\ f.offset + f.size <= types[t].size
    BY <2>1, <2>3 DEF Laid
  <2>5. ASSUME i < j, f.path[Part(f.path, g.path)].struct PROVE f.offset + f.size <= g.offset
    <3>1. PICK k \in Nat : /\ PartAt(f.path, g.path, k)
                           /\ f.path[k].struct => f.offset + f.size <= g.offset
      BY <2>1, <2>5 DEF Laid
    <3>2. Part(f.path, g.path) = k
      BY <2>3, <3>1, PartIs
    <3> QED
      BY <2>5, <3>1, <3>2
  <2> QED
    BY <2>4, <2>5
<1> QED
  BY <1>1, LayoutInvariant, PTL

\* A tag means one type of its kind, however often it was used before it was defined, and
\* also where it is redefined.
THEOREM TagMeansOneType == Spec => []OneTypePerTag
<1>1. LayoutInv => OneTypePerTag
  BY DEF LayoutInv, TagsInv, OneTypePerTag
<1> QED
  BY <1>1, LayoutInvariant, PTL

\* In a program that defines no tag twice a variable keeps its structure: a definition
\* completes a type no variable can have yet.
THEOREM VariablesKeepTypes == Redefined = FALSE => (Spec => []VariablesKept)
<1> SUFFICES ASSUME Redefined = FALSE PROVE Spec => []VariablesKept
  OBVIOUS
<1>1. LayoutInv => VariablesKept
  BY DEF LayoutInv, VariablesInv, VariablesKept
<1> QED
  BY <1>1, LayoutInvariant, PTL
=============================================================================
