---------------------------- MODULE DataSection ----------------------------
(***************************************************************************)
(* gen_data_initialization of gen_amd64.c: the directives written for a    *)
(* variable of the file, or for a compound literal one of them points to,  *)
(* from the list the parser made.  A scalar of eight bytes is a pointer,   *)
(* and its values are addresses of compound literals.  Every value fits in *)
(* a char: the bytes above its lowest repeat its sign.                     *)
(*                                                                         *)
(* A byte is a pair of the value it belongs to and what it is of it.       *)
(***************************************************************************)
EXTENDS Initializer

PointerSize == 8

Low(value)  == <<value, "low">>
Sign(value) == IF value = Zero THEN Low(Zero) ELSE <<value, "sign">>
Part(value, k) == <<value, k>>         \* of an address

\* What a byte is extended with when it is taken for a char.
Extension(byte) == IF byte[2] = "low" THEN Sign(byte[1]) ELSE byte

\* The bytes of a value, as C has them in memory.
Bytes(value, size) ==
  [k \in 1..size |-> IF size = PointerSize /\ value # Zero THEN Part(value, k)
                     ELSE IF k = 1 THEN Low(value) ELSE Sign(value)]

-----------------------------------------------------------------------------
(* gen_data_initialization_intermediate                                    *)

IsLabel(store) == store.size = PointerSize /\ store.value # Zero

Labels == {i \in DOMAIN init : IsLabel(init[i])}

\* The label of the literal whose address belongs at an offset.
LabelAt(offset) == {init[i].value : i \in {j \in Labels : init[j].offset = offset}}

\* data: zeros, and over them what is stored.  An address leaves its place alone.
DataAt(offset) ==
  LET over == {i \in DOMAIN init \ Labels :
                 init[i].offset <= offset /\ offset < init[i].offset + init[i].size}
  IN IF over = {} THEN Low(Zero)
     ELSE LET store == init[CHOOSE i \in over : \A j \in over : j <= i]
          IN Bytes(store.value, store.size)[offset - store.offset + 1]

-----------------------------------------------------------------------------
(* gen_data_initialization                                                 *)

Quad(label) == [k \in 1..PointerSize |-> Part(label, k)]
LongOf(byte) == <<byte, Extension(byte), Extension(byte), Extension(byte)>>

\* Slip: the step over the second half of an address is forgotten.
DirectivesAgain(size) ==
  LET from[i \in 0..size] ==
        IF i > size - 4 THEN [k \in 1..(size - i) |-> DataAt(i + k - 1)]
        ELSE IF LabelAt(i) # {} THEN Quad(CHOOSE l \in LabelAt(i) : TRUE) \o from[i + 4]
        ELSE LongOf(DataAt(i)) \o from[i + 4]
  IN from[0]

\* .quad for a label, .long of one char of data for every other four bytes, .byte for
\* what is left.
Directives(size) ==
  LET from[i \in 0..(size + 4)] ==
        IF i > size - 4 THEN [k \in 1..(size - i) |-> DataAt(i + k - 1)]
        ELSE IF LabelAt(i) # {} THEN Quad(CHOOSE l \in LabelAt(i) : TRUE) \o from[i + 8]
        ELSE LongOf(DataAt(i)) \o from[i + 4]
  IN from[0]

-----------------------------------------------------------------------------

\* Chars that are not the first of four are written only at the end of the variable:
\* .long takes one char, and says the other three are its sign.
Unwritable(o) ==
  o.type = Char /\ o.offset % 4 # 0 /\ o.offset < 4 * (type.size \div 4)

\* gen_data_initialization: the directives are as many bytes as the variable has, and
\* what C initializes is in its place in them, unless it is a char next to others.
DataLands ==
  status = "done" =>
    LET data == Directives(type.size) IN
    /\ Len(data) = type.size
    /\ \A o \in Leaves :
         o.offset + o.type.size <= type.size /\ ~Unwritable(o) =>
           SubSeq(data, o.offset + 1, o.offset + o.type.size)
             = Bytes(meant[o.first], o.type.size)
=============================================================================
