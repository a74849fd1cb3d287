------------------------------- MODULE Layout -------------------------------
(***************************************************************************)
(* struct and union in parse.c: parse_tag_definition, parse_memory_fields  *)
(* and the tag tables.  A definition may stand inside another one, so the  *)
(* calls of parse_memory_fields in progress are a stack.  A field is where *)
(* it lies; path is history: the members it was reached through, from the  *)
(* outermost on, and whether each is a member of a struct or of a union.   *)
(***************************************************************************)
EXTENDS Integers, Sequences

CONSTANTS
  StructTags, UnionTags,        \* tags
  Sizes,              \* sizes of members that are no structure
  Counts,             \* lengths of arrays of structures, 1 for what is none
  ARCH_ALIGNMENT,
  Redefined,          \* whether a tag is defined again, in an inner scope
  MaxDepth,           \* bound on definitions inside one another
  MaxWords            \* bound on the length of a program

ASSUME SizesAssumption ==
  /\ Sizes \subseteq Nat \ {0} /\ Counts \subseteq Nat \ {0}
  /\ ARCH_ALIGNMENT \in Nat \ {0}
  /\ Redefined \in BOOLEAN
  /\ MaxDepth \in Nat /\ MaxWords \in Nat

PointerSize == 8

VARIABLES
  types,              \* every ast_structure_new, in the order they were made
  structures, unions, \* ast_structures and ast_unions: entries of a tag and a type
  open,               \* calls of parse_memory_fields in progress
  base,               \* basetype, between its specification and the ';'
  variables,          \* history: variables, with their type as it was then
  words               \* history: the length of the program so far

vars == <<types, structures, unions, open, base, variables, words>>

NoTag  == "none"
NoBase == [type |-> 0, size |-> 0]
Structure(t) == [type |-> t, size |-> types[t].size]
IsStructure  == base.type # 0

top == open[Len(open)]
Pop(stack) == SubSeq(stack, 1, Len(stack) - 1)
Word == words < MaxWords /\ words' = words + 1
SetTop(frame) == open' = [open EXCEPT ![Len(open)] = frame]

Larger(a, b)  == IF a < b THEN b ELSE a
Smaller(a, b) == IF a < b THEN a ELSE b

Init ==
  /\ types = << >>
  /\ structures = << >> /\ unions = << >>
  /\ open = << >>
  /\ base = NoBase
  /\ variables = << >> /\ words = 0

-----------------------------------------------------------------------------
(* parse_tag_definition                                                    *)

Tags(isstruct) == IF isstruct THEN StructTags ELSE UnionTags
Table(isstruct) == IF isstruct THEN structures ELSE unions

Entries(isstruct, tag) == {i \in 1..Len(Table(isstruct)) : Table(isstruct)[i].tag = tag}

\* Slip: a definition with no tag finds the first entry there is.
FindUntagged(isstruct, tag) ==
  IF Table(isstruct) # << >> /\ tag = NoTag THEN Table(isstruct)[1].type ELSE
  LET es == Entries(isstruct, tag)
  IN IF es = {} THEN 0 ELSE Table(isstruct)[CHOOSE i \in es : \A j \in es : i <= j].type

\* table_find, 0 for NULL: the first entry of that tag.
Find(isstruct, tag) ==
  LET es == Entries(isstruct, tag)
  IN IF es = {} THEN 0 ELSE Table(isstruct)[CHOOSE i \in es : \A j \in es : i <= j].type

Insert(isstruct, tag, t) ==
  LET entry == IF tag = NoTag THEN << >> ELSE <<[tag |-> tag, type |-> t]>>
  IN /\ structures' = IF isstruct THEN structures \o entry ELSE structures
     /\ unions' = IF isstruct THEN unions ELSE unions \o entry

Incomplete(isstruct) == [isstruct |-> isstruct, complete |-> FALSE, size |-> 0, fields |-> << >>]

\* A tag with no '{' after it.
Reference(isstruct, tag) ==
  /\ Word /\ base = NoBase
  /\ LET t == Find(isstruct, tag) IN
       IF t # 0
         THEN base' = Structure(t) /\ UNCHANGED <<types, structures, unions>>
         ELSE /\ types' = Append(types, Incomplete(isstruct))
              /\ Insert(isstruct, tag, Len(types) + 1)
              /\ base' = [type |-> Len(types) + 1, size |-> 0]
  /\ UNCHANGED <<open, variables>>

BeginFields(isstruct, tag) ==
  /\ Word /\ base = NoBase
  /\ Len(open) < MaxDepth
  /\ \A i \in 1..Len(open) : tag # NoTag => open[i].tag # tag
  /\ open' = Append(open, [tag |-> tag, isstruct |-> isstruct, offset |-> 0,
                           maxsize |-> 0, members |-> 0, table |-> << >>])
  /\ UNCHANGED <<types, structures, unions, base, variables>>

Complete(frame, size) ==
  [isstruct |-> frame.isstruct, complete |-> TRUE, size |-> size, fields |-> frame.table]

SizeOf(frame) == IF frame.isstruct THEN frame.offset ELSE frame.maxsize

\* Slip: a definition never completes what was there.
MadeAnew(t, type) ==
  /\ types' = Append(types, type)
  /\ Insert(type.isstruct, top.tag, Len(types) + 1)

\* The '}': the type of that tag is completed in place, or made.
Made(t, type) ==
  IF t # 0
    THEN types' = [types EXCEPT ![t] = type] /\ UNCHANGED <<structures, unions>>
    ELSE /\ types' = Append(types, type)
         /\ Insert(type.isstruct, top.tag, Len(types) + 1)

EndFields ==
  /\ open # << >> /\ base = NoBase /\ top.members > 0
  /\ LET t == Find(top.isstruct, top.tag)
         type == Complete(top, SizeOf(top))
     IN /\ ~Redefined => \A i \in Entries(top.isstruct, top.tag) :
                           ~types[Table(top.isstruct)[i].type].complete
        /\ Made(t, type)
        /\ base' = [type |-> IF t # 0 THEN t ELSE Len(types) + 1, size |-> type.size]
  /\ open' = Pop(open)
  /\ UNCHANGED <<variables, words>>

-----------------------------------------------------------------------------
(* parse_memory_fields                                                     *)

Padding(offset, size) ==
  LET align == Smaller(size, ARCH_ALIGNMENT)
  IN IF offset % align = 0 THEN 0 ELSE align - (offset % align)

Field(offset, size, path) == [offset |-> offset, size |-> size, path |-> path]
Member == [n |-> top.members + 1, struct |-> top.isstruct]

\* Slip: a smaller member of a union takes its size back.
AddFieldLast(frame, size) ==
  LET offset == IF frame.isstruct THEN frame.offset + Padding(frame.offset, size) ELSE 0
  IN [frame EXCEPT !.offset = IF frame.isstruct THEN offset + size ELSE @,
                   !.maxsize = size,
                   !.members = @ + 1,
                   !.table = Append(@, Field(offset, size, <<Member>>))]

\* What a field does to the call that reads it.
AddField(frame, size) ==
  LET offset == IF frame.isstruct THEN frame.offset + Padding(frame.offset, size) ELSE 0
  IN [frame EXCEPT !.offset = IF frame.isstruct THEN offset + size ELSE @,
                   !.maxsize = IF frame.isstruct THEN @ ELSE Larger(@, size),
                   !.members = @ + 1,
                   !.table = Append(@, Field(offset, size, <<Member>>))]

\* A member whose type is no structure: a number, a pointer, or an array of them.
Scalar(size) ==
  /\ Word /\ open # << >> /\ base = NoBase
  /\ SetTop(AddField(top, size))
  /\ UNCHANGED <<types, structures, unions, base, variables>>

\* A declarator of a structure type: n is 0 for a pointer, else the length of the
\* array; more declarators may follow.
Declarator(n, more) ==
  /\ Word /\ open # << >> /\ IsStructure
  /\ n # 0 => types[base.type].complete
  /\ SetTop(AddField(top, IF n = 0 THEN PointerSize ELSE n * base.size))
  /\ base' = IF more THEN base ELSE NoBase
  /\ UNCHANGED <<types, structures, unions, variables>>

\* parse_memory_fields_squash
Squashed(fields, offset) ==
  [i \in 1..Len(fields) |->
     Field(fields[i].offset + offset, fields[i].size, <<Member>> \o fields[i].path)]

\* A structure with no declarator: its fields become fields of this one.  No padding.
Unnamed ==
  /\ Word /\ open # << >> /\ IsStructure /\ types[base.type].complete
  /\ LET fields == types[base.type].fields IN
       /\ SetTop([top EXCEPT
            !.offset = IF top.isstruct THEN @ + base.size ELSE @,
            !.maxsize = IF top.isstruct THEN @ ELSE Larger(@, base.size),
            !.members = @ + 1,
            !.table = @ \o Squashed(fields, top.offset)])
  /\ base' = NoBase
  /\ UNCHANGED <<types, structures, unions, variables>>

\* Outside of any definition: a variable of the type, or none.
Variable ==
  /\ Word /\ open = << >> /\ IsStructure /\ types[base.type].complete
  /\ variables' = Append(variables, [type |-> base.type, was |-> types[base.type]])
  /\ base' = NoBase
  /\ UNCHANGED <<types, structures, unions, open>>

NoVariable ==
  /\ open = << >> /\ IsStructure
  /\ base' = NoBase
  /\ UNCHANGED <<types, structures, unions, open, variables, words>>

Next ==
  \/ \E isstruct \in BOOLEAN :
       \/ \E tag \in Tags(isstruct) : Reference(isstruct, tag)
       \/ \E tag \in Tags(isstruct) \cup {NoTag} : BeginFields(isstruct, tag)
  \/ EndFields
  \/ \E size \in Sizes : Scalar(size)
  \/ \E n \in Counts \cup {0} : \E more \in BOOLEAN : Declarator(n, more)
  \/ Unnamed \/ Variable \/ NoVariable

Spec == Init /\ [][Next]_vars

-----------------------------------------------------------------------------
\* The first step on which two paths part.
Part(p, q) == CHOOSE k \in 1..Len(p) : /\ k <= Len(q) /\ p[k] # q[k]
                                       /\ \A i \in 1..(k - 1) : p[i] = q[i]

\* Every field, taken over from unnamed structures or not, lies inside the structure
\* it belongs to, and two fields share storage only if they are in different members
\* of one union, at whatever depth they were found.
FieldsApart ==
  \A t \in 1..Len(types) : \A i, j \in 1..Len(types[t].fields) :
    LET f == types[t].fields[i]
        g == types[t].fields[j]
    IN /\ 0 <= f.offset /\ f.offset + f.size <= types[t].size
       /\ i < j /\ f.path[Part(f.path, g.path)].struct => f.offset + f.size <= g.offset

\* A tag means one type, also when it is used before or inside its own definition.
OneTypePerTag ==
  \A s \in BOOLEAN : \A i, j \in 1..Len(Table(s)) :
    /\ types[Table(s)[i].type].isstruct = s
    /\ Table(s)[i].tag = Table(s)[j].tag => i = j

\* A variable keeps the structure it was declared with, whatever is defined later.
VariablesKept == \A i \in 1..Len(variables) : types[variables[i].type] = variables[i].was
=============================================================================
