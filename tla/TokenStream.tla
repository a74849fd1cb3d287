---------------------------- MODULE TokenStream ----------------------------
(***************************************************************************)
(* What lexer.h promises to the parser: a stream of tokens read through a  *)
(* cursor.  lexer_next delivers the token after the cursor and advances,   *)
(* lexer_peek delivers it without advancing, lexer_unget moves the cursor  *)
(* back by the one token handed to it.  A token is the position it has in  *)
(* the input, so a lost, duplicated or reordered token shows as a wrong    *)
(* number.                                                                 *)
(***************************************************************************)
EXTENDS Naturals

CONSTANT NoToken      \* the NULL that lexer_next returns at the end of input

VARIABLES
  length,             \* number of tokens in the input, never changes
  cursor,             \* number of tokens the parser has consumed
  result              \* the value the last call returned or was given

vars == <<length, cursor, result>>

Following == IF cursor < length THEN cursor + 1 ELSE NoToken

Init ==
  /\ length \in Nat
  /\ cursor = 0
  /\ result = NoToken

Advance ==
  /\ result' = Following
  /\ cursor' = IF cursor < length THEN cursor + 1 ELSE cursor
  /\ UNCHANGED length

Peek ==
  /\ result' = Following
  /\ UNCHANGED <<length, cursor>>

\* The token given back is the one just before the cursor, no other.
Retreat ==
  /\ cursor > 0
  /\ result' = cursor
  /\ cursor' = cursor - 1
  /\ UNCHANGED length

Next == Advance \/ Peek \/ Retreat

Spec == Init /\ [][Next]_vars
=============================================================================
