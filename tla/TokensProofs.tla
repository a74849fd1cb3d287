---------------------------- MODULE TokensProofs ----------------------------
(***************************************************************************)
(* For every set of programs: the token interface keeps its stack in the   *)
(* order of the text, the function-definition look-ahead gives back all it *)
(* took, and lexer and parser together implement TokenStream.              *)
(***************************************************************************)
EXTENDS Tokens, DataLemmas

\* The push-back stack holds the tokens just before the reading position, the
\* next one to deliver on top.
BufferInOrder ==
  /\ program \in Programs
  /\ read \in Nat /\ read <= Len(text)
  /\ buffer \in Seq(Nat) /\ Len(buffer) <= read
  /\ \A i \in 1..Len(buffer) : buffer[i] = read - i + 1

\* The list of the look-ahead holds the tokens from the mark to the cursor.
ListInOrder ==
  /\ mark \in Nat
  /\ list \in Seq(Nat)
  /\ \A i \in 1..Len(list) : list[i] = mark + i
  /\ pc \in {"scan", "restore"} => cursor = mark + Len(list)

\* A look-ahead of one or two tokens holds the last ones taken; NULL is taken
\* only at the end of the text.
HeldInOrder ==
  LET ended == AtEnd /\ result = NoToken IN
  /\ held \in Seq(Nat \cup {NoToken})
  /\ Len(held) > 0 => Parsing \/ pc = "error"
  /\ \/ Len(held) = 0
     \/ Len(held) = 1 /\ held[1] = NoToken /\ ended
     \/ Len(held) = 2 /\ held[1] = NoToken /\ held[2] = NoToken /\ ended
     \/ Len(held) = 1 /\ held[1] = cursor /\ cursor > 0
     \/ Len(held) = 2 /\ held[1] = cursor /\ held[2] = NoToken /\ cursor > 0 /\ ended
     \/ Len(held) = 2 /\ held[1] = cursor - 1 /\ held[2] = cursor /\ cursor > 1

Flags ==
  /\ result \in Nat \cup {NoToken}
  /\ pc \in {"top", "scan", "restore", "definition", "declaration", "done", "error"}
  /\ nests \in Nat /\ paren \in BOOLEAN /\ ready \in BOOLEAN

IInv == BufferInOrder /\ ListInOrder /\ HeldInOrder /\ Flags

-----------------------------------------------------------------------------
(* What the three calls of the lexer do to a stack in order.               *)

\* The stack without its top.
LEMMA PopProperties ==
  ASSUME NEW S, NEW s \in Seq(S), s # << >>
  PROVE  /\ Len(s) \in Nat /\ Len(s) > 0
         /\ Top(s) = s[Len(s)] /\ Top(s) \in S
         /\ Pop(s) \in Seq(S)
         /\ Len(Pop(s)) = Len(s) - 1
         /\ \A i \in 1..(Len(s) - 1) : Pop(s)[i] = s[i]
<1>1. PICK p : p = SubSeq(s, 1, Len(s) - 1)
  OBVIOUS
<1>2. /\ Len(s) \in Nat /\ Len(s) > 0 /\ s[Len(s)] \in S
      /\ p \in Seq(S) /\ Len(p) = Len(s) - 1
      /\ \A i \in 1..(Len(s) - 1) : p[i] = s[i]
  BY <1>1, Popped
<1>3. Pop(s) = p /\ Top(s) = s[Len(s)]
  BY <1>1 DEF Pop, Top
<1> QED
  BY <1>2, <1>3

\* The text is a sequence of kinds.
LEMMA TextType == BufferInOrder => text \in Seq(Kind) /\ Len(text) \in Nat
  BY ProgramsAssumption DEF BufferInOrder, text

\* What a call returns next is the token after the cursor.
LEMMA UpcomingFollows ==
  BufferInOrder => /\ Upcoming = IF cursor < Len(text) THEN cursor + 1 ELSE NoToken
                   /\ cursor \in Nat
                   /\ cursor <= Len(text)
                   /\ AtEnd <=> cursor = Len(text)
<1> SUFFICES ASSUME BufferInOrder
    PROVE  /\ Upcoming = IF cursor < Len(text) THEN cursor + 1 ELSE NoToken
           /\ cursor \in Nat
           /\ cursor <= Len(text)
           /\ AtEnd <=> cursor = Len(text)
    OBVIOUS
<1>1. Len(text) \in Nat
  BY TextType
<1>2. CASE buffer = << >>
  BY <1>1, <1>2 DEF BufferInOrder, Upcoming, cursor, AtEnd
<1>3. CASE buffer # << >>
  <2>1. Len(buffer) \in 1..Len(buffer)
    BY <1>3 DEF BufferInOrder
  <2> QED
    BY <1>1, <1>3, <2>1 DEF BufferInOrder, Upcoming, cursor, AtEnd, Top
<1> QED
  BY <1>2, <1>3

\* lexer_next returns it and moves the cursor past it.
LEMMA NextAdvances ==
  ASSUME BufferInOrder, LexerNext, UNCHANGED program
  PROVE  /\ BufferInOrder'
         /\ result' = IF cursor < Len(text) THEN cursor + 1 ELSE NoToken
         /\ cursor' = IF cursor < Len(text) THEN cursor + 1 ELSE cursor
         /\ Upcoming = NoToken => AtEnd'
<1>1. Len(text) \in Nat /\ text' = text
  BY TextType DEF text
<1>2. CASE buffer = << >>
  <2>1. buffer' = << >> /\ read' = IF AtEnd THEN read ELSE read + 1
    BY <1>2 DEF LexerNext
  <2>2. cursor = read /\ cursor' = read' /\ Len(buffer') = 0
    BY <1>2, <2>1 DEF BufferInOrder, cursor
  <2>3. AtEnd <=> read = Len(text)
    BY <1>2 DEF AtEnd
  <2>4. AtEnd' <=> read' = Len(text)
    BY <1>1, <2>1 DEF AtEnd
  <2>5. BufferInOrder'
    BY <1>1, <1>2, <2>1, <2>2, <2>3 DEF BufferInOrder
  <2> QED
    BY <1>1, <2>1, <2>2, <2>3, <2>4, <2>5, UpcomingFollows, NoTokenAssumption
       DEF BufferInOrder, LexerNext
<1>3. CASE buffer # << >>
  <2>1. Len(buffer) \in 1..Len(buffer)
    BY <1>3 DEF BufferInOrder
  <2>2. buffer' = Pop(buffer) /\ read' = read
    BY <1>3 DEF LexerNext
  <2>3. /\ buffer' \in Seq(Nat)
        /\ Len(buffer') = Len(buffer) - 1
        /\ \A i \in 1..Len(buffer') : buffer'[i] = buffer[i]
    BY <1>3, <2>1, <2>2, PopProperties DEF BufferInOrder
  <2>4. BufferInOrder'
    BY <1>1, <2>1, <2>2, <2>3 DEF BufferInOrder
  <2>5. cursor' = cursor + 1 /\ cursor < Len(text)
    BY <1>1, <2>1, <2>2, <2>3 DEF BufferInOrder, cursor
  <2> QED
    BY <2>4, <2>5, UpcomingFollows, NoTokenAssumption DEF LexerNext
<1> QED
  BY <1>2, <1>3

\* lexer_peek returns it and leaves the cursor where it is.
LEMMA PeekStays ==
  ASSUME BufferInOrder, LexerPeek, UNCHANGED program
  PROVE  /\ BufferInOrder'
         /\ result' = IF cursor < Len(text) THEN cursor + 1 ELSE NoToken
         /\ cursor' = cursor
<1>1. Len(text) \in Nat /\ text' = text
  BY TextType DEF text
<1>2. CASE buffer = << >> /\ ~AtEnd
  <2>1. buffer' = <<read + 1>> /\ read' = read + 1
    BY <1>2 DEF LexerPeek
  <2>2. Len(buffer') = 1 /\ buffer'[1] = read + 1 /\ Len(buffer) = 0
    BY <1>2, <2>1
  <2>3. cursor = read /\ cursor' = read /\ read < Len(text)
    BY <1>1, <1>2, <2>1, <2>2 DEF BufferInOrder, cursor, AtEnd
  <2>4. BufferInOrder'
    BY <1>1, <2>1, <2>2, <2>3 DEF BufferInOrder
  <2> QED
    BY <2>3, <2>4, UpcomingFollows DEF LexerPeek
<1>3. CASE ~(buffer = << >> /\ ~AtEnd)
  BY <1>1, <1>3, UpcomingFollows DEF BufferInOrder, LexerPeek, cursor
<1> QED
  BY <1>2, <1>3

\* lexer_unget of the token before the cursor moves the cursor back.
LEMMA UngetRetreats ==
  ASSUME BufferInOrder, LexerUnget(cursor), cursor > 0, UNCHANGED program
  PROVE  /\ BufferInOrder'
         /\ result' = cursor
         /\ cursor' = cursor - 1
<1>1. Len(text) \in Nat /\ text' = text /\ cursor \in Nat /\ cursor # NoToken
  BY TextType, UpcomingFollows, NoTokenAssumption DEF text
<1>2. buffer' = Append(buffer, cursor) /\ read' = read /\ result' = cursor
  BY <1>1 DEF LexerUnget
<1>3. /\ buffer' \in Seq(Nat)
      /\ Len(buffer') = Len(buffer) + 1
      /\ \A i \in 1..Len(buffer) : buffer'[i] = buffer[i]
      /\ buffer'[Len(buffer) + 1] = cursor
  BY <1>1, <1>2 DEF BufferInOrder
<1> QED
  BY <1>1, <1>2, <1>3 DEF BufferInOrder, cursor
-----------------------------------------------------------------------------
(* The invariant, and what every step does to the stream.                  *)

StreamStep ==
  \/ Stream!Next
  \/ cursor' = cursor /\ result' = result /\ text' = text

\* Every step preserves the invariant and is a step of the stream, or none.
LEMMA StepPreserves ==
  ASSUME IInv, Next
  PROVE  IInv' /\ StreamStep
<1> USE DEF IInv
<1>0. /\ Len(text) \in Nat
      /\ cursor \in Nat /\ cursor <= Len(text)
      /\ AtEnd <=> cursor = Len(text)
      /\ Upcoming = IF cursor < Len(text) THEN cursor + 1 ELSE NoToken
  BY TextType, UpcomingFollows
<1>a. cursor # NoToken /\ (cursor > 0 => cursor - 1 # NoToken) /\ cursor + 1 # NoToken
  BY <1>0, NoTokenAssumption
<1>b. Upcoming \in Nat \cup {NoToken}
  BY <1>0
<1>1. CASE RunStep
  <2>1. /\ BufferInOrder'
        /\ result' = IF cursor < Len(text) THEN cursor + 1 ELSE NoToken
        /\ cursor' = cursor
    BY <1>1, PeekStays DEF RunStep
  <2>2. Len(held) = 0
    BY <1>1 DEF RunStep, HeldInOrder, Parsing
  <2>3. ListInOrder'
    BY <1>0, <1>1, <2>1 DEF RunStep, ListInOrder
  <2>4. HeldInOrder'
    BY <1>1, <2>2 DEF RunStep, HeldInOrder
  <2>5. Flags'
    <3>1. result' = Upcoming
      BY <1>1 DEF RunStep, LexerPeek
    <3> QED
      BY <1>1, <1>b, <3>1 DEF RunStep, Flags
  <2>6. Stream!Peek
    BY <1>1, <2>1 DEF RunStep, Stream!Peek, Stream!Following, text
  <2> QED
    BY <2>1, <2>3, <2>4, <2>5, <2>6 DEF StreamStep, Stream!Next
<1>2. CASE ScanToken
  <2>1. /\ BufferInOrder'
        /\ result' = IF cursor < Len(text) THEN cursor + 1 ELSE NoToken
        /\ cursor' = IF cursor < Len(text) THEN cursor + 1 ELSE cursor
    BY <1>2, NextAdvances DEF ScanToken
  <2>2. Len(held) = 0
    BY <1>2 DEF ScanToken, HeldInOrder, Parsing
  <2>3. ListInOrder'
    <3>1. CASE Upcoming = NoToken
      BY <1>0, <1>2, <2>1, <3>1, NoTokenAssumption
         DEF ScanToken, ScanNext, ScanFails, ListInOrder
    <3>2. CASE Upcoming # NoToken
      <4>1. Upcoming = cursor + 1 /\ cursor' = cursor + 1
        BY <1>0, <2>1, <3>2
      <4>2. list' = Append(list, cursor + 1)
        BY <1>2, <3>2, <4>1 DEF ScanToken
      <4>3. cursor = mark + Len(list) /\ Len(list) \in Nat /\ mark' = mark
        BY <1>2 DEF ScanToken, ListInOrder
      <4>4. /\ list' \in Seq(Nat)
            /\ Len(list') = Len(list) + 1
            /\ \A i \in 1..Len(list) : list'[i] = list[i]
            /\ list'[Len(list) + 1] = cursor + 1
        BY <1>0, <4>2, AppendProperties DEF ListInOrder
      <4>5. \A i \in 1..Len(list) : list'[i] = mark + i
        BY <4>4 DEF ListInOrder
      <4>6. \A i \in 1..Len(list') : i \in 1..Len(list) \/ i = Len(list) + 1
        BY <4>3, <4>4
      <4>7. list'[Len(list) + 1] = mark + (Len(list) + 1) /\ cursor' = mark + Len(list')
        BY <1>0, <4>1, <4>3, <4>4 DEF ListInOrder
      <4> QED
        BY <4>3, <4>4, <4>5, <4>6, <4>7 DEF ListInOrder
    <3> QED
      BY <3>1, <3>2
  <2>4. HeldInOrder'
    BY <1>2, <2>2 DEF ScanToken, HeldInOrder
  <2>5. Flags'
    <3>1. pc' \in {"error", "restore", "scan"}
      BY <1>2 DEF ScanToken, ScanNext
    <3>2. nests' \in Nat
      <4>1. CASE pc' # "scan"
        BY <1>2, <4>1 DEF ScanToken, Flags
      <4>2. CASE pc' = "scan"
        <5>1. ~ScanFails(Upcoming) /\ ~Opens(Upcoming) /\ ~Terminates(Upcoming)
          BY <1>2, <4>2 DEF ScanToken, ScanNext
        <5>2. nests \in Nat /\ (IsPunct(Upcoming, ")") => nests > 0)
          BY <5>1 DEF ScanFails, Unmatched, Flags
        <5>3. CASE IsPunct(Upcoming, "(")
          BY <1>2, <4>2, <5>2, <5>3 DEF ScanToken
        <5>4. CASE ~IsPunct(Upcoming, "(") /\ IsPunct(Upcoming, ")")
          <6>1. nests' = nests - 1
            BY <1>2, <4>2, <5>4 DEF ScanToken
          <6> QED
            BY <5>2, <5>4, <6>1
        <5>5. CASE ~IsPunct(Upcoming, "(") /\ ~IsPunct(Upcoming, ")")
          BY <1>2, <4>2, <5>2, <5>5 DEF ScanToken
        <5> QED
          BY <5>3, <5>4, <5>5
      <4> QED
        BY <4>1, <4>2
    <3>3. paren' \in BOOLEAN /\ ready' \in BOOLEAN
      BY <1>2 DEF ScanToken, Flags
    <3> QED
      BY <1>0, <2>1, <3>1, <3>2, <3>3 DEF Flags
  <2>6. Stream!Advance
    BY <1>2, <2>1 DEF ScanToken, Stream!Advance, Stream!Following, text
  <2> QED
    BY <2>1, <2>3, <2>4, <2>5, <2>6 DEF StreamStep, Stream!Next
<1>3. CASE RestoreToken
  <2>1. /\ Len(list) \in Nat /\ Len(list) > 0
        /\ Top(list) = list[Len(list)]
        /\ list' \in Seq(Nat)
        /\ Len(list') = Len(list) - 1
        /\ \A i \in 1..Len(list') : list'[i] = list[i]
    BY <1>3, PopProperties DEF RestoreToken, Restored, ListInOrder
  <2>2. Top(list) = cursor /\ cursor > 0 /\ mark' = mark
    BY <1>3, <2>1 DEF RestoreToken, ListInOrder
  <2>3. BufferInOrder' /\ result' = cursor /\ cursor' = cursor - 1
    BY <1>3, <2>2, UngetRetreats DEF RestoreToken
  <2>4. Len(held) = 0
    BY <1>3 DEF RestoreToken, HeldInOrder, Parsing
  <2>5. ListInOrder'
    BY <1>0, <1>3, <2>1, <2>2, <2>3 DEF RestoreToken, ListInOrder
  <2>6. HeldInOrder'
    BY <1>3, <2>4 DEF RestoreToken, HeldInOrder
  <2>7. Flags'
    BY <1>0, <1>3, <2>3 DEF RestoreToken, Flags
  <2>8. Stream!Retreat
    BY <1>3, <2>2, <2>3 DEF RestoreToken, Stream!Retreat, text
  <2> QED
    BY <2>3, <2>5, <2>6, <2>7, <2>8 DEF StreamStep, Stream!Next
<1>4. CASE Decide
  <2>1. cursor' = cursor /\ text' = text /\ result' = result
    BY <1>4 DEF Decide, lexer, cursor, text
  <2> QED
    BY <1>4, <2>1 DEF Decide, lexer, scan, BufferInOrder, ListInOrder, HeldInOrder,
       Flags, StreamStep, AtEnd, Parsing
<1>5. CASE Take
  <2>1. /\ BufferInOrder'
        /\ result' = Upcoming
        /\ cursor' = IF cursor < Len(text) THEN cursor + 1 ELSE cursor
        /\ Upcoming = NoToken => AtEnd'
    BY <1>5, NextAdvances DEF Take, LexerNext
  <2>2. held' = Append(held, Upcoming) /\ pc' = pc /\ Parsing /\ UNCHANGED <<list, mark, program>>
    BY <1>5 DEF Take, scan
  <2>3. ListInOrder'
    BY <2>2 DEF ListInOrder, Parsing
  <2>4. HeldInOrder'
    <3>1. Upcoming \in Nat \cup {NoToken} /\ Len(held) \in Nat /\ Len(held) < 2
      BY <1>0, <1>5 DEF Take, HeldInOrder
    <3>2. /\ held' \in Seq(Nat \cup {NoToken})
          /\ Len(held') = Len(held) + 1
          /\ \A i \in 1..Len(held) : held'[i] = held[i]
          /\ held'[Len(held) + 1] = Upcoming
      BY <2>2, <3>1, AppendProperties DEF HeldInOrder
    <3>3. CASE Upcoming = NoToken
      <4>1. AtEnd' /\ result' = NoToken /\ cursor' = cursor
        BY <1>0, <2>1, <3>3, NoTokenAssumption
      <4> QED
        BY <2>2, <3>1, <3>2, <3>3, <4>1 DEF HeldInOrder, Parsing
    <3>4. CASE Upcoming # NoToken
      <4>1. cursor < Len(text)
        BY <1>0, <3>4
      <4>2. cursor' = cursor + 1 /\ Upcoming = cursor + 1 /\ ~AtEnd
        BY <1>0, <2>1, <4>1
      <4> QED
        BY <1>0, <1>a, <2>2, <3>1, <3>2, <4>2 DEF HeldInOrder, Parsing
    <3> QED
      BY <3>3, <3>4
  <2>5. Flags'
    BY <1>0, <1>5, <2>1 DEF Take, scan, Flags
  <2>6. Stream!Advance
    BY <1>0, <1>5, <2>1 DEF Take, Stream!Advance, Stream!Following, text
  <2> QED
    BY <2>1, <2>3, <2>4, <2>5, <2>6 DEF StreamStep, Stream!Next
<1>6. CASE GiveBack
  <2>1. /\ held' = Pop(held) /\ held # << >>
        /\ pc' = pc /\ Parsing /\ UNCHANGED <<list, mark, nests, paren, ready, program>>
    BY <1>6 DEF GiveBack, scan
  <2>2. text' = text
    BY <2>1 DEF text
  <2>3. ListInOrder'
    BY <2>1 DEF ListInOrder, Parsing
  <2>4. /\ Len(held) > 0
        /\ Top(held) = held[Len(held)]
        /\ held' \in Seq(Nat \cup {NoToken})
        /\ Len(held') = Len(held) - 1
        /\ \A i \in 1..(Len(held) - 1) : held'[i] = held[i]
    BY <2>1, PopProperties DEF HeldInOrder
  <2>5. CASE Top(held) = NoToken
    <3>1. UNCHANGED <<buffer, read>> /\ result' = NoToken
      BY <1>6, <2>5 DEF GiveBack, LexerUnget
    <3>2. cursor' = cursor /\ (AtEnd <=> AtEnd')
      BY <2>2, <3>1 DEF cursor, AtEnd
    <3>a. held[Len(held)] = NoToken
      BY <2>4, <2>5
    <3>b. Len(held) \in {1, 2}
      BY <2>4 DEF HeldInOrder
    <3>3. result = NoToken /\ AtEnd
      <4>1. CASE Len(held) = 1
        BY <1>a, <3>a, <4>1 DEF HeldInOrder
      <4>2. CASE Len(held) = 2
        BY <1>a, <3>a, <4>2 DEF HeldInOrder
      <4> QED
        BY <3>b, <4>1, <4>2
    <3>c. \/ Len(held') = 0
          \/ Len(held') = 1 /\ held'[1] = NoToken
          \/ Len(held') = 1 /\ held'[1] = cursor /\ cursor > 0
      BY <1>a, <2>4, <3>a, <3>b DEF HeldInOrder
    <3>4. HeldInOrder'
      BY <2>1, <2>4, <3>1, <3>2, <3>3, <3>c DEF HeldInOrder, Parsing
    <3> QED
      BY <2>1, <2>2, <2>3, <3>1, <3>2, <3>3, <3>4 DEF BufferInOrder, Flags, StreamStep
  <2>6. CASE Top(held) # NoToken
    <3>1. Top(held) = cursor /\ cursor > 0
      BY <1>0, <2>4, <2>6 DEF HeldInOrder
    <3>2. BufferInOrder' /\ result' = cursor /\ cursor' = cursor - 1
      BY <1>6, <3>1, UngetRetreats DEF GiveBack
    <3>3. Len(held') = 0 \/ (Len(held') = 1 /\ held'[1] = cursor - 1 /\ cursor - 1 > 0)
      BY <1>0, <2>4, <2>6 DEF HeldInOrder
    <3>4. HeldInOrder'
      BY <1>0, <2>1, <2>4, <3>2, <3>3 DEF HeldInOrder, Parsing
    <3>5. Flags'
      BY <1>0, <2>1, <3>2 DEF Flags
    <3>6. Stream!Retreat
      BY <2>2, <3>1, <3>2 DEF Stream!Retreat
    <3> QED
      BY <2>3, <3>2, <3>4, <3>5, <3>6 DEF StreamStep, Stream!Next
  <2> QED
    BY <2>5, <2>6
<1>7. CASE Keep
  <2>1. cursor' = cursor /\ text' = text /\ result' = result
    BY <1>7 DEF Keep, lexer, cursor, text
  <2> QED
    BY <1>7, <2>1 DEF Keep, lexer, scan, BufferInOrder, ListInOrder, HeldInOrder,
       Flags, StreamStep, Parsing
<1>8. CASE Fail
  <2>1. cursor' = cursor /\ text' = text /\ result' = result /\ (AtEnd' <=> AtEnd)
    BY <1>8 DEF Fail, lexer, cursor, text, AtEnd
  <2> QED
    BY <1>8, <2>1 DEF Fail, lexer, scan, BufferInOrder, ListInOrder, HeldInOrder,
       Flags, StreamStep, Parsing
<1>9. CASE Finish
  <2>1. cursor' = cursor /\ text' = text /\ result' = result
    BY <1>9 DEF Finish, lexer, cursor, text
  <2> QED
    BY <1>9, <2>1 DEF Finish, lexer, scan, BufferInOrder, ListInOrder, HeldInOrder,
       Flags, StreamStep, Parsing
<1> QED
  BY <1>1, <1>2, <1>3, <1>4, <1>5, <1>6, <1>7, <1>8, <1>9 DEF Next

\* At the start nothing is read or pushed back.
LEMMA InitInvariant == Init => IInv /\ Stream!Init
<1> SUFFICES ASSUME Init PROVE IInv /\ Stream!Init
  OBVIOUS
<1>1. BufferInOrder
  <2>1. text \in Seq(Kind)
    BY ProgramsAssumption DEF Init, text
  <2> QED
    BY <2>1 DEF Init, BufferInOrder
<1>2. /\ list \in Seq(Nat) /\ Len(list) = 0
      /\ held \in Seq(Nat \cup {NoToken}) /\ Len(held) = 0
      /\ Len(buffer) = 0
  BY DEF Init
<1>a. ListInOrder
  BY <1>2 DEF Init, ListInOrder
<1>b. HeldInOrder
  BY <1>2 DEF HeldInOrder
<1>c. Flags
  BY DEF Init, Flags
<1>3. Stream!Init
  <2>1. Len(text) \in Nat
    BY <1>1, TextType
  <2>2. cursor = 0
    <3>1. read = 0
      BY DEF Init
    <3> QED
      BY <1>2, <3>1 DEF cursor
  <2> QED
    BY <2>1, <2>2 DEF Init, Stream!Init
<1> QED
  BY <1>1, <1>a, <1>b, <1>c, <1>3 DEF IInv

\* A step that changes nothing.
LEMMA StutterPreserves == IInv /\ UNCHANGED vars => IInv' /\ UNCHANGED Stream!vars
  BY DEF IInv, vars, BufferInOrder, ListInOrder, HeldInOrder, Flags, AtEnd, Parsing,
     cursor, text, Stream!vars

\* The inductive invariant: stack, look-ahead list and held tokens are runs of
\* consecutive positions around the cursor (lexer.c 321-337, parse.c 1512-1552).
THEOREM Invariance == Spec => []IInv
<1>1. Init => IInv
  BY InitInvariant
<1>2. IInv /\ [Next]_vars => IInv'
  BY StepPreserves, StutterPreserves
<1> QED
  BY <1>1, <1>2, PTL DEF Spec

\* Every variable of the token interface keeps its type.
THEOREM TypeCorrect == Spec => []TypeOK
<1>1. IInv => TypeOK
  <2> SUFFICES ASSUME IInv PROVE TypeOK
    OBVIOUS
  <2>1. text \in Seq(Kind) /\ Len(text) \in Nat
    BY TextType DEF IInv
  <2> QED
    BY <2>1 DEF IInv, BufferInOrder, ListInOrder, HeldInOrder, Flags, TypeOK
<1> QED
  BY <1>1, Invariance, PTL

\* When parse_function_definition_check answers, the parser stands where it stood
\* before the look-ahead, however far that went.
THEOREM LookaheadRestores == Spec => RestoreExact
<1>1. IInv /\ [Next]_vars => [Answers => cursor = mark /\ cursor' = mark]_vars
  <2> SUFFICES ASSUME IInv, [Next]_vars, Answers
      PROVE  cursor = mark /\ cursor' = mark
    OBVIOUS
  <2>1. Decide
    BY DEF Answers, Next, vars, RunStep, ScanToken, RestoreToken, Parsing,
           Take, GiveBack, Keep, Fail, Finish
  <2>2. cursor = mark
    BY <2>1 DEF IInv, BufferInOrder, ListInOrder, Decide, Restored, cursor
  <2>3. cursor' = cursor
    BY <2>1 DEF Decide, lexer, cursor
  <2> QED
    BY <2>2, <2>3
<1> QED
  BY <1>1, Invariance, PTL DEF Spec, RestoreExact

\* lexer_next, lexer_peek and lexer_unget, under every use the parser makes of
\* them, implement the stream of lexer.h.
THEOREM TokensImplementStream == Spec => ImplementsStream
<1>1. Init => Stream!Init
  BY InitInvariant
<1>2. IInv /\ [Next]_vars => [Stream!Next]_(Stream!vars)
  BY StepPreserves, StutterPreserves DEF StreamStep, Stream!vars
<1> QED
  BY <1>1, <1>2, Invariance, PTL DEF Spec, ImplementsStream, Stream!Spec
-----------------------------------------------------------------------------
(* The answer of the look-ahead.                                           *)

\* One more token counts if it is the one that is counted.
LEMMA CountNext ==
  ASSUME NEW s, NEW m \in Nat, NEW k \in Nat, m <= k, NEW c
  PROVE  /\ Count(s, m, k, c) \in Nat
         /\ Count(s, m, k + 1, c) = IF s[k + 1] = c THEN Count(s, m, k, c) + 1 ELSE Count(s, m, k, c)
<1> DEFINE A == {i \in (m + 1)..k : s[i] = c}
           B == {i \in (m + 1)..(k + 1) : s[i] = c}
<1>1. IsFiniteSet(A)
  <2>1. IsFiniteSet((m + 1)..k)
    BY FS_Interval
  <2> QED
    BY <2>1, FS_Subset
<1>2. (m + 1)..(k + 1) = ((m + 1)..k) \cup {k + 1} /\ k + 1 \notin (m + 1)..k
  OBVIOUS
<1>3. CASE s[k + 1] = c
  <2>1. B = A \cup {k + 1} /\ k + 1 \notin A
    BY <1>2, <1>3
  <2> HIDE DEF A, B
  <2>2. Cardinality(B) = Cardinality(A) + 1 /\ Cardinality(A) \in Nat
    BY <1>1, <2>1, FS_AddElement, FS_CardinalityType
  <2> QED
    BY <1>3, <2>2 DEF Count, A, B
<1>4. CASE s[k + 1] # c
  <2>1. B = A
    BY <1>2, <1>4
  <2>2. Cardinality(A) \in Nat
    BY <1>1, FS_CardinalityType
  <2> QED
    BY <1>4, <2>1, <2>2 DEF Count
<1> QED
  BY <1>3, <1>4

\* Nothing has been read.
LEMMA CountNone ==
  ASSUME NEW s, NEW m \in Nat, NEW c
  PROVE  Count(s, m, m, c) = 0
<1>1. {i \in (m + 1)..m : s[i] = c} = {}
  OBVIOUS
<1> QED
  BY <1>1, FS_EmptySet DEF Count

\* While the look-ahead goes on, the head goes on, and the locals tell of it what Decides asks.
HeadGoesOn ==
  /\ ready
  /\ nests + Count(text, mark, cursor, ")") = Count(text, mark, cursor, "(")
  /\ paren <=> \E i \in (mark + 1)..cursor : text[i] = ")"
  /\ \A j \in (mark + 1)..cursor : ~Decides(text, mark, j)

\* Afterwards, the answer is what the end of the head says.
HeadEnded == \E k \in (mark + 1)..Len(text) : EndsHead(text, mark, k) /\ (ready <=> text[k] = "{")

\* A look-ahead begins where an external declaration does.
AnswerInv ==
  /\ pc = "top" => cursor \in program.ends \cup {0}
  /\ pc \in {"scan", "restore", "definition", "declaration"} => mark \in program.ends \cup {0}
  /\ pc = "scan" => HeadGoesOn
  /\ pc \in {"restore", "definition", "declaration"} => HeadEnded
  /\ pc = "definition" => ready
  /\ pc = "declaration" => ~ready

\* The loop ends at a token exactly if the head does.
LEMMA ScanDecides ==
  ASSUME IInv, pc = "scan", HeadGoesOn, cursor < Len(text)
  PROVE  Decides(text, mark, cursor + 1) <=> Opens(cursor + 1) \/ Terminates(cursor + 1)
<1>1. cursor \in Nat /\ cursor + 1 # NoToken /\ mark \in Nat /\ mark <= cursor
  <2>1. cursor \in Nat /\ mark \in Nat /\ cursor = mark + Len(list) /\ Len(list) \in Nat
    BY UpcomingFollows DEF IInv, ListInOrder
  <2> QED
    BY <2>1, NoTokenAssumption
<1>2. nests = 0 <=> Count(text, mark, cursor, "(") = Count(text, mark, cursor, ")")
  <2>1. /\ Count(text, mark, cursor, "(") \in Nat /\ Count(text, mark, cursor, ")") \in Nat
        /\ nests \in Nat
    BY <1>1, CountNext DEF IInv, Flags
  <2> QED
    BY <2>1 DEF HeadGoesOn
<1>3. (cursor + 1) - 1 = cursor
  BY <1>1
<1>4. Decides(text, mark, cursor + 1) <=>
        /\ nests = 0
        /\ \/ text[cursor + 1] \in {";", ",", "="}
           \/ text[cursor + 1] = "{" /\ \E i \in (mark + 1)..cursor : text[i] = ")"
  BY <1>2, <1>3 DEF Decides
<1>5. paren <=> \E i \in (mark + 1)..cursor : text[i] = ")"
  BY DEF HeadGoesOn
<1>6. Opens(cursor + 1) <=> nests = 0 /\ paren /\ text[cursor + 1] = "{"
  BY <1>1 DEF Opens, IsPunct
<1>7. Terminates(cursor + 1) <=> nests = 0 /\ text[cursor + 1] \in {";", ",", "="}
  BY <1>1 DEF Terminates, IsPunct
<1> QED
  BY <1>4, <1>5, <1>6, <1>7, Zenon

\* A turn of the loop.
LEMMA ScanAnswers ==
  ASSUME IInv, AnswerInv, ScanToken
  PROVE  AnswerInv'
<1>1. /\ cursor \in Nat /\ mark \in Nat /\ mark <= cursor /\ nests \in Nat
      /\ Len(text) \in Nat /\ cursor <= Len(text)
  <2>1. mark \in Nat /\ cursor = mark + Len(list) /\ Len(list) \in Nat
    BY DEF IInv, ListInOrder, ScanToken
  <2> QED
    BY <2>1, UpcomingFollows, TextType DEF IInv, Flags
<1>2. /\ pc = "scan" /\ HeadGoesOn /\ mark \in program.ends \cup {0} /\ UNCHANGED <<program, mark, text>>
      /\ pc' = ScanNext(Upcoming)
  BY DEF AnswerInv, ScanToken, text
<1>3. CASE pc' = "error"
  BY <1>3 DEF AnswerInv
<1>4. CASE pc' # "error"
  <2>1. Upcoming # NoToken
    BY <1>2, <1>4 DEF ScanNext, ScanFails
  <2>2. cursor < Len(text) /\ Upcoming = cursor + 1
    BY <2>1, UpcomingFollows DEF IInv
  <2>3. cursor' = cursor + 1
    BY <2>2, NextAdvances DEF IInv, ScanToken
  <2>4. PICK k : k = cursor + 1
    OBVIOUS
  <2>5. /\ k \in Nat /\ k \in (mark + 1)..Len(text) /\ k - 1 = cursor /\ k # NoToken
        /\ Upcoming = k /\ cursor' = k
    BY <1>1, <2>1, <2>2, <2>3, <2>4
  <2>6. Decides(text, mark, k) <=> Opens(k) \/ Terminates(k)
    BY <1>2, <2>2, <2>4, ScanDecides
  <2>7. ready' = (Opens(k) \/ ~Terminates(k))
    BY <1>2, <2>5 DEF HeadGoesOn, ScanToken
  <2>8. CASE Opens(k) \/ Terminates(k)
    <3>1. pc' = "restore"
      BY <1>2, <1>4, <2>5, <2>8 DEF ScanNext
    <3>2. EndsHead(text, mark, k)
      BY <1>2, <2>5, <2>6, <2>8 DEF EndsHead, HeadGoesOn
    <3>3. ready' <=> text[k] = "{"
      <4>1. Opens(k) => text[k] = "{"
        BY DEF Opens, IsPunct
      <4>2. Terminates(k) => text[k] # "{"
        BY DEF Terminates, IsPunct
      <4> QED
        BY <2>7, <2>8, <4>1, <4>2
    <3>4. HeadEnded'
      BY <1>2, <2>5, <3>2, <3>3 DEF HeadEnded
    <3> QED
      BY <1>2, <3>1, <3>4 DEF AnswerInv
  <2>9. CASE ~(Opens(k) \/ Terminates(k))
    <3>1. pc' = "scan" /\ ~(nests = 0 /\ IsPunct(k, ")"))
      BY <1>2, <1>4, <2>5, <2>9 DEF ScanNext, ScanFails, Unmatched
    <3>2. /\ nests' = IF text[k] = "(" THEN nests + 1 ELSE IF text[k] = ")" THEN nests - 1 ELSE nests
          /\ paren' = (paren \/ text[k] = ")")
          /\ text[k] = ")" => nests > 0
      BY <1>1, <2>5, <3>1 DEF ScanToken, IsPunct
    <3>3. nests' + Count(text, mark, k, ")") = Count(text, mark, k, "(")
      <4>1. \A c : /\ Count(text, mark, cursor, c) \in Nat
                   /\ Count(text, mark, k, c) = IF text[k] = c THEN Count(text, mark, cursor, c) + 1
                                                ELSE Count(text, mark, cursor, c)
        BY <1>1, <2>4, CountNext
      <4>2. nests + Count(text, mark, cursor, ")") = Count(text, mark, cursor, "(")
        BY <1>2 DEF HeadGoesOn
      <4>3. PICK x \in Nat, y \in Nat : x = Count(text, mark, cursor, ")") /\ y = Count(text, mark, cursor, "(")
        BY <4>1
      <4>4. /\ Count(text, mark, k, ")") = IF text[k] = ")" THEN x + 1 ELSE x
            /\ Count(text, mark, k, "(") = IF text[k] = "(" THEN y + 1 ELSE y
        BY <4>1, <4>3
      <4>5. CASE text[k] = "("
        BY <1>1, <3>2, <4>2, <4>3, <4>4, <4>5
      <4>6. CASE text[k] = ")"
        BY <1>1, <3>2, <4>2, <4>3, <4>4, <4>6
      <4>7. CASE text[k] # "(" /\ text[k] # ")"
        BY <1>1, <3>2, <4>2, <4>3, <4>4, <4>7
      <4> QED
        BY <4>5, <4>6, <4>7
    <3>4. \A i \in (mark + 1)..k : i \in (mark + 1)..cursor \/ i = k
      BY <1>1, <2>4
    <3>5. paren' <=> \E i \in (mark + 1)..k : text[i] = ")"
      <4>1. paren <=> \E i \in (mark + 1)..cursor : text[i] = ")"
        BY <1>2 DEF HeadGoesOn
      <4>2. \A i \in (mark + 1)..cursor : i \in (mark + 1)..k
        BY <1>1, <2>4
      <4>3. k \in (mark + 1)..k
        BY <1>1, <2>4
      <4>4. paren' <=> (paren \/ text[k] = ")")
        BY <3>2
      <4> QED
        BY <3>4, <4>1, <4>2, <4>3, <4>4
    <3>6. \A j \in (mark + 1)..k : ~Decides(text, mark, j)
      BY <1>2, <2>6, <2>9, <3>4 DEF HeadGoesOn
    <3>7. HeadGoesOn'
      BY <1>2, <2>5, <2>7, <2>9, <3>3, <3>5, <3>6 DEF HeadGoesOn
    <3> QED
      BY <1>2, <3>1, <3>7 DEF AnswerInv
  <2> QED
    BY <2>8, <2>9
<1> QED
  BY <1>3, <1>4

\* Every step keeps to the answer.
LEMMA AnswerKept ==
  ASSUME IInv, AnswerInv, [Next]_vars
  PROVE  AnswerInv'
<1>1. CASE RunStep
  <2>1. cursor' = cursor /\ cursor \in Nat /\ text' = text
    BY <1>1, PeekStays, UpcomingFollows DEF RunStep, IInv, text
  <2>2. mark' = cursor /\ ready' = TRUE /\ nests' = 0 /\ paren' = FALSE /\ pc = "top" /\ UNCHANGED program
    BY <1>1 DEF RunStep
  <2>3. Count(text', mark', cursor', "(") = 0 /\ Count(text', mark', cursor', ")") = 0
    BY <2>1, <2>2, CountNone
  <2>4. (mark' + 1)..cursor' = {}
    BY <2>1, <2>2
  <2>5. HeadGoesOn'
    BY <2>2, <2>3, <2>4 DEF HeadGoesOn
  <2> QED
    BY <1>1, <2>2, <2>5 DEF AnswerInv, RunStep
<1>2. CASE ScanToken
  BY <1>2, ScanAnswers
<1>3. CASE RestoreToken
  <2>1. pc = "restore" /\ UNCHANGED <<program, mark, ready, pc, text>>
    BY <1>3 DEF RestoreToken, text
  <2>2. HeadEnded'
    BY <2>1 DEF AnswerInv, HeadEnded
  <2> QED
    BY <2>1, <2>2 DEF AnswerInv
<1>4. CASE Decide
  <2>1. /\ pc = "restore" /\ UNCHANGED <<program, mark, ready, text>>
        /\ pc' = IF ready THEN "definition" ELSE "declaration"
    BY <1>4 DEF Decide, text, scan
  <2>2. HeadEnded'
    BY <2>1 DEF AnswerInv, HeadEnded
  <2> QED
    BY <2>1, <2>2 DEF AnswerInv
<1>5. CASE Take \/ GiveBack \/ Keep
  <2>1. Parsing /\ UNCHANGED <<program, mark, ready, pc, text>>
    BY <1>5 DEF Take, GiveBack, Keep, text, scan
  <2>2. HeadEnded'
    BY <2>1 DEF AnswerInv, HeadEnded, Parsing
  <2> QED
    BY <2>1, <2>2 DEF AnswerInv, Parsing
<1>6. CASE Fail
  BY <1>6 DEF Fail, AnswerInv
<1>7. CASE Finish
  <2>1. pc' = "top" /\ cursor' = cursor /\ cursor \in program.ends /\ program' = program
    BY <1>7 DEF Finish, lexer, cursor
  <2> QED
    BY <2>1 DEF AnswerInv
<1>8. CASE UNCHANGED vars
  <2>1. UNCHANGED <<program, mark, ready, nests, paren, pc, text, cursor>>
    BY <1>8 DEF vars, text, cursor
  <2> QED
    BY <2>1 DEF AnswerInv, HeadGoesOn, HeadEnded
<1> QED
  BY <1>1, <1>2, <1>3, <1>4, <1>5, <1>6, <1>7, <1>8 DEF Next

\* However long its head and however deep its parentheses, an external declaration is
\* parsed as a function definition exactly if it is one, in every text that is Settled.
THEOREM LookaheadClassifies == ASSUME Settled PROVE Spec => []Classified
<1>1. Init => AnswerInv
  <2> SUFFICES ASSUME Init PROVE AnswerInv
    OBVIOUS
  <2>1. pc = "top" /\ read = 0 /\ Len(buffer) = 0
    BY DEF Init
  <2>2. cursor = 0
    BY <2>1 DEF cursor
  <2> QED
    BY <2>1, <2>2 DEF AnswerInv
<1>2. IInv /\ AnswerInv /\ [Next]_vars => AnswerInv'
  BY AnswerKept
<1>3. IInv /\ AnswerInv => Classified
  <2> SUFFICES ASSUME IInv, AnswerInv, pc \in {"definition", "declaration"}
               PROVE  ready <=> mark + 1 \in program.functions
    BY DEF Classified, AnswerInv
  <2>1. program \in Programs /\ mark \in program.ends \cup {0}
    BY DEF IInv, BufferInOrder, AnswerInv
  <2>2. PICK k \in (mark + 1)..Len(program.text) :
          EndsHead(program.text, mark, k) /\ (ready <=> program.text[k] = "{")
    BY DEF AnswerInv, HeadEnded, text
  <2> QED
    BY <2>1, <2>2 DEF Settled
<1> QED
  BY <1>1, <1>2, <1>3, Invariance, PTL DEF Spec
=============================================================================
