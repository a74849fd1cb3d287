---------------------------- MODULE Initializer ----------------------------
(***************************************************************************)
(* Initializer lists in parse.c: parse_initializer_list and the functions  *)
(* under it, and the stores gen_declaration_initialization makes of what   *)
(* they return.  The calls in progress are a stack.  A comma never decides *)
(* anything (parse_commaskip_maybe), so there is none here.  A value is a  *)
(* fresh one for every expression, and for every character of a string.    *)
(*                                                                         *)
(* What C makes of the same tokens is history: the scalars of an object    *)
(* are numbered from 1 on, an object is an interval of them, and Read      *)
(* keeps the brace-enclosed objects, the scalar initialized last and the   *)
(* value of each.                                                          *)
(***************************************************************************)
EXTENDS Integers, Sequences, SequencesExt, FiniteSets, TLC

CONSTANTS
  Types,              \* types of the variable
  Designated,         \* whether a designator may follow what is nested without braces
  MaxLength,          \* bound on an array whose length its initializer determines
  MaxString,          \* bound on the length of a string
  MaxTokens           \* bound on the tokens of an initializer

\* A type is a scalar, an array of a type or a structure of named fields.
Scalar(size) == [kind |-> "scalar", size |-> size]
Char == Scalar(1)
Array(elem, length) ==
  [kind |-> "array", elem |-> elem, length |-> length, size |-> elem.size * length]
Structure(isstruct, size, fields) ==
  [kind |-> "structure", isstruct |-> isstruct, size |-> size, fields |-> fields]
Field(name, type, offset) == [name |-> name, type |-> type, offset |-> offset]

IsAggregate(type) == type.kind # "scalar"
IsCharArray(type) == type.kind = "array" /\ type.elem = Char

ASSUME TypesAssumption ==
  /\ \A type \in Types : IsAggregate(type)
  /\ Designated \in BOOLEAN
  /\ MaxLength \in Nat /\ MaxString \in Nat /\ MaxTokens \in Nat

VARIABLES
  declared,           \* history: the type of the variable, as its declarator gave it
  type,               \* and as it is now
  calls,              \* calls in progress: of parse_initializer_element, with the
                      \* loop of the array or the structure it turns out to be
  token,              \* the token looked at, or none
  init,               \* the list: stores in the order they are made
  status,             \* "parsing", "done" or "refused"
  braces,             \* history: brace-enclosed objects, the outermost first
  last,               \* history: the scalar initialized last
  furthest,           \* history: the furthest scalar initialized
  meant,              \* history: the value of every scalar
  tokens              \* history: the tokens so far, what each is

machine == <<type, calls, init, status>>
text    == <<braces, last, furthest, meant, tokens>>
vars    == <<declared, machine, token, text>>

Token(is, arg) == [is |-> is, arg |-> arg]
None == Token("none", 0)
Looks(is) == token.is = is

\* The value of the token just read, or of a character of it.
Value(k) == <<Len(tokens), k>>
Zero == <<0, 0>>
Junk == <<0, 1>>

-----------------------------------------------------------------------------
(* What C says                                                             *)

\* The type with a length for an array that has none yet.
IsOpen  == declared.kind = "array" /\ declared.length = -1
Bounded == IF IsOpen THEN Array(declared.elem, MaxLength) ELSE declared

Object(t, offset, first, n, depth) ==
  [type |-> t, offset |-> offset, first |-> first, last |-> first + n - 1, depth |-> depth]

\* The fields there is an initial value for: of a union, the first.
Initialized(t) == IF t.isstruct THEN t.fields ELSE SubSeq(t.fields, 1, 1)

RECURSIVE Scalars(_)
Scalars(t) ==
  CASE t.kind = "scalar" -> 1
    [] t.kind = "array" -> t.length * Scalars(t.elem)
    [] t.kind = "structure" ->
         FoldLeft(LAMBDA n, field : n + Scalars(field.type), 0, Initialized(t))

\* The objects in one at an offset, itself among them.
RECURSIVE Objects(_, _, _, _)
Objects(t, offset, first, depth) ==
  {Object(t, offset, first, Scalars(t), depth)} \cup
  (CASE t.kind = "scalar" -> {}
     [] t.kind = "array" ->
          UNION {Objects(t.elem, offset + i * t.elem.size, first + i * Scalars(t.elem), depth + 1) :
                   i \in 0..(t.length - 1)}
     [] t.kind = "structure" ->
          LET fields == Initialized(t)
              before[i \in 1..Len(fields)] ==
                IF i = 1 THEN 0 ELSE before[i - 1] + Scalars(fields[i - 1].type)
          IN UNION {Objects(fields[i].type, offset + fields[i].offset, first + before[i],
                            depth + 1) : i \in 1..Len(fields)})

All    == Objects(Bounded, 0, 1, 0)
Whole  == CHOOSE o \in All : o.depth = 0
Leaves == {o \in All : o.type.kind = "scalar"}

\* What the next initializer may be for, given the innermost braces: the objects that
\* begin with the next scalar.  A brace opens the outermost of them.
Within == IF braces = << >> THEN {Whole}
          ELSE {o \in All : /\ o.depth > Last(braces).depth
                            /\ o.first = last + 1 /\ o.last <= Last(braces).last}
Outermost(os) == CHOOSE o \in os : \A p \in os : o.depth <= p.depth

Started == tokens # << >>
Ended   == Started /\ braces = << >>
Was(is) == Started /\ Last(tokens) = is

Larger(a, b) == IF a < b THEN b ELSE a
Means(value) == [i \in DOMAIN meant |-> IF i \in DOMAIN value THEN value[i] ELSE meant[i]]

\* A token is read when the call in progress has to look at one.
Reads(t, as) ==
  /\ status = "parsing" /\ Looks("none") /\ ~Ended
  /\ Len(tokens) < MaxTokens
  /\ token' = t
  /\ tokens' = Append(tokens, as)
  /\ UNCHANGED <<declared, machine>>

ReadBrace ==
  /\ Within # {} /\ IsAggregate(Outermost(Within).type)
  /\ Reads(Token("{", 0), "{")
  /\ braces' = Append(braces, Outermost(Within))
  /\ UNCHANGED <<last, furthest, meant>>

ReadClose ==
  /\ braces # << >> /\ ~Was("{") /\ ~Was("designator")
  /\ Reads(Token("}", 0), "}")
  /\ braces' = Front(braces)
  /\ last' = Last(braces).last
  /\ UNCHANGED <<furthest, meant>>

ReadExpression ==
  /\ Started /\ Within # {}
  /\ Reads(Token("expression", 0), "expression")
  /\ last' = last + 1
  /\ furthest' = Larger(furthest, last')
  /\ meant' = Means((last + 1) :> <<Len(tokens) + 1, 0>>)
  /\ UNCHANGED braces

\* C takes no more than there is; the parser skips it.
ReadExcess ==
  /\ Started /\ Within = {} /\ ~IsOpen
  /\ Reads(Token("expression", 0), "excess")
  /\ UNCHANGED <<braces, last, furthest, meant>>

\* A string, and its NUL if there is room for it.
ReadString(n) ==
  \E o \in Within :
    /\ IsCharArray(o.type)
    /\ IsOpen => n < MaxLength
    /\ Reads(Token("string", n), "string")
    /\ LET room == IF o.last - o.first < n THEN o.last - o.first + 1 ELSE n IN
         meant' = Means([i \in o.first..(o.first + room - 1) |->
                           <<Len(tokens) + 1, i - o.first + 1>>])
    /\ last' = o.last
    /\ furthest' = Larger(furthest, IF n < o.last - o.first THEN o.first + n ELSE o.last)
    /\ UNCHANGED braces

\* No member of a union is named after another one.
ReadDesignator(name) ==
  /\ braces # << >> /\ Last(braces).type.kind = "structure"
  /\ Last(braces).type.isstruct \/ Was("{")
  /\ ~Was("designator") /\ ~Was("excess")
  /\ Designated \/ calls[Len(calls)].brace
  /\ \E i \in 1..Len(Last(braces).type.fields) :
       /\ Last(braces).type.fields[i].name = name
       /\ \E o \in All :
            /\ o.depth = Last(braces).depth + 1
            /\ o.first \in Last(braces).first..Last(braces).last
            /\ o.offset = Last(braces).offset + Last(braces).type.fields[i].offset
            /\ last' = o.first - 1
  /\ Reads(Token("designator", name), "designator")
  /\ UNCHANGED <<braces, furthest, meant>>

-----------------------------------------------------------------------------
(* The parser                                                              *)

top  == calls[Len(calls)]
down == Front(calls)

\* A call of parse_initializer_element, at its beginning.  at counts the elements or
\* the fields that were begun; brace and wrote are the variables of those names.
Call(t, offset) ==
  [type |-> t, offset |-> offset, in |-> "begin", brace |-> FALSE, at |-> 0, wrote |-> {}]

Store(offset, size, value) == [offset |-> offset, size |-> size, value |-> value]

Init ==
  /\ declared \in Types /\ type = declared
  /\ calls = <<Call(type, 0)>>
  /\ token = None
  /\ init = << >>
  /\ status = "parsing"
  /\ braces = << >> /\ last = 0 /\ furthest = 0 /\ tokens = << >>
  /\ meant = [i \in 1..Whole.last |-> Zero]

Looked    == status = "parsing" /\ ~Looks("none")
Taken     == token' = None
Kept      == UNCHANGED token

Refuse ==
  /\ status' = "refused"
  /\ UNCHANGED <<declared, type, calls, token, init, text>>

Returns(stores) ==
  /\ init' = init \o stores
  /\ calls' = down
  /\ status' = IF down = << >> THEN "done" ELSE status
  /\ UNCHANGED <<declared, text>>

Element(frame, t, offset) ==
  /\ calls' = Append(Append(down, frame), Call(t, offset))
  /\ UNCHANGED <<declared, type, init, status, text>>

Stays(frame) ==
  /\ calls' = Append(down, frame)
  /\ UNCHANGED <<declared, type, init, status, text>>

ScalarElement ==
  /\ Looked /\ top.type.kind = "scalar"
  /\ IF Looks("expression")
       THEN Returns(<<Store(top.offset, top.type.size, Value(0))>>) /\ Taken /\ UNCHANGED type
       ELSE Refuse

\* parse_assign_string
Assigned(length, n) ==
  [i \in 1..length |-> Store(top.offset + i - 1, 1, IF i <= n THEN Value(i) ELSE Zero)]

\* Slip: the NUL has no room of its own.
AssignStringUnended ==
  /\ Looked /\ top.in = "begin" /\ IsCharArray(top.type) /\ Looks("string")
  /\ LET length == IF top.type.length = -1 THEN token.arg ELSE top.type.length IN
       /\ type' = IF top.type.length = -1 THEN Array(Char, length) ELSE type
       /\ Returns(Assigned(length, token.arg))
  /\ Taken

AssignString ==
  /\ Looked /\ top.in = "begin" /\ IsCharArray(top.type) /\ Looks("string")
  /\ LET length == IF top.type.length = -1 THEN token.arg + 1 ELSE top.type.length IN
       /\ type' = IF top.type.length = -1 THEN Array(Char, length) ELSE type
       /\ Returns(Assigned(length, token.arg))
  /\ Taken

\* parse_brace_maybe
Begin ==
  /\ Looked /\ top.in = "begin" /\ IsAggregate(top.type)
  /\ ~(IsCharArray(top.type) /\ Looks("string"))
  /\ Stays([top EXCEPT !.in = "loop", !.brace = Looks("{")])
  /\ IF Looks("{") THEN Taken ELSE Kept

\* parse_initializer_zero
RECURSIVE Zeros(_, _)
Zeros(t, offset) ==
  CASE t.kind = "scalar" -> <<Store(offset, t.size, Zero)>>
    [] t.kind = "array" ->
         FlattenSeq([i \in 1..t.length |-> Zeros(t.elem, offset + (i - 1) * t.elem.size)])
    [] t.kind = "structure" ->
         LET fields == Initialized(t) IN
         FlattenSeq([i \in 1..Len(fields) |-> Zeros(fields[i].type, offset + fields[i].offset)])

\* What was not written is zero, at the label complete of either loop.
Unwritten(frame) ==
  IF frame.type.kind = "array"
    THEN FlattenSeq([i \in 1..(frame.type.length - frame.at) |->
           Zeros(frame.type.elem, frame.offset + (frame.at + i - 1) * frame.type.elem.size)])
    ELSE FlattenSeq([i \in 1..Len(frame.type.fields) |->
           IF i \in frame.wrote THEN << >>
           ELSE Zeros(frame.type.fields[i].type, frame.offset + frame.type.fields[i].offset)])

Complete(frame) ==
  IF frame.type.kind = "array" /\ frame.type.length = -1
    THEN type' = Array(frame.type.elem, frame.at) /\ Returns(<< >>)
    ELSE UNCHANGED type /\ Returns(Unwritten(frame))

\* The loop ends before it looks at a token.
Full(frame) ==
  IF frame.type.kind = "array" THEN frame.at = frame.type.length
  ELSE ~frame.type.isstruct /\ frame.wrote # {}

FullEnds ==
  /\ status = "parsing" /\ top.in = "loop" /\ Full(top)
  /\ IF top.brace THEN Stays([top EXCEPT !.in = "skip"]) ELSE Complete(top)
  /\ Kept

InLoop == Looked /\ top.in = "loop" /\ ~Full(top)

Closed ==
  /\ InLoop /\ Looks("}")
  /\ Complete(top)
  /\ IF top.brace THEN Taken ELSE Kept

\* parse_initializer_array
ArrayElement ==
  /\ InLoop /\ ~Looks("}") /\ top.type.kind = "array"
  /\ IF top.brace /\ top.at = 0 /\ IsCharArray(top.type) /\ Looks("string")
       THEN Refuse
       ELSE /\ Element([top EXCEPT !.at = @ + 1], top.type.elem,
                       top.offset + top.at * top.type.elem.size)
            /\ Kept

\* Slip: the iterator stays where it was.
WriteFieldInTurn(i) ==
  Element([top EXCEPT !.at = @ + 1, !.wrote = @ \cup {i}], top.type.fields[i].type,
          top.offset + top.type.fields[i].offset)

WriteField(i) ==
  Element([top EXCEPT !.at = i, !.wrote = @ \cup {i}], top.type.fields[i].type,
          top.offset + top.type.fields[i].offset)

Named(name) == {i \in 1..Len(top.type.fields) : top.type.fields[i].name = name}

\* parse_initializer_structure
DesignatedField ==
  /\ InLoop /\ Looks("designator") /\ top.type.kind = "structure"
  /\ IF Named(token.arg) \ top.wrote = {} THEN Refuse
     ELSE WriteField(CHOOSE i \in Named(token.arg) : TRUE) /\ Taken

StructureField ==
  /\ InLoop /\ ~Looks("}") /\ ~Looks("designator") /\ top.type.kind = "structure"
  /\ IF top.at < Len(top.type.fields)
       THEN IF top.at + 1 \in top.wrote THEN Refuse ELSE WriteField(top.at + 1) /\ Kept
       ELSE /\ IF top.brace THEN Stays([top EXCEPT !.in = "skip"]) ELSE Complete(top)
            /\ Kept

\* parse_brace_skipto
Skip ==
  /\ Looked /\ top.in = "skip"
  /\ IF Looks("}") THEN Complete(top) /\ Taken
     ELSE IF Looks("{") THEN Refuse
     ELSE Stays(top) /\ Taken

Step ==
  \/ ScalarElement \/ AssignString \/ Begin
  \/ FullEnds \/ Closed \/ ArrayElement \/ DesignatedField \/ StructureField
  \/ Skip

FieldNames == {"a", "b", "c"}

Next ==
  \/ Step
  \/ /\ status = "parsing" /\ ~(top.in = "loop" /\ Full(top))
     /\ \/ ReadBrace \/ ReadClose \/ ReadExpression \/ ReadExcess
        \/ \E n \in 0..MaxString : ReadString(n)
        \/ \E name \in FieldNames : ReadDesignator(name)

Spec == Init /\ [][Next]_vars

-----------------------------------------------------------------------------
(* Properties                                                              *)

\* What gen_declaration_initialization leaves where a scalar is: the last store there.
Over(o) == {i \in 1..Len(init) : /\ init[i].offset < o.offset + o.type.size
                                 /\ o.offset < init[i].offset + init[i].size}
Stored(o) ==
  IF Over(o) = {} THEN Junk ELSE
  LET store == init[CHOOSE i \in Over(o) : \A j \in Over(o) : j <= i]
  IN IF store.offset = o.offset /\ store.size = o.type.size THEN store.value ELSE Junk

\* An accepted initializer gives every scalar the value C gives it: with braces or
\* without, after designators in any order, and zero for what it does not mention (which
\* README.md:56-57 denies: a finding).  Nothing is stored next to the variable.
ValuesLand ==
  status = "done" =>
    /\ Ended
    /\ \A o \in Leaves : o.offset + o.type.size <= type.size => Stored(o) = meant[o.first]
    /\ \A i \in 1..Len(init) : init[i].offset + init[i].size <= type.size

\* An array with no length gets the one that just holds what initializes it.
LengthTaken ==
  status = "done" /\ IsOpen =>
    LET n == Scalars(type.elem) IN
    /\ furthest <= type.length * n
    /\ (type.length - 1) * n < furthest
=============================================================================
