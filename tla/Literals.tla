------------------------------ MODULE Literals -----------------------------
(***************************************************************************)
(* What becomes of two kinds of tokens: parse_number of parse.c gives a    *)
(* number its type and value, string_quote of util.c and gen_data_section  *)
(* write a string for the assembler.  The values of floating constants are *)
(* left out.                                                               *)
(***************************************************************************)
EXTENDS Lexer

CONSTANT IntBits      \* width of an int

ASSUME IntBitsAssumption == IntBits \in Nat \ {0}

Suffix(s, n) == SubSeq(s, n + 1, Len(s))

\* The length of the longest prefix of s that is in the set of characters.
Run(s, chars) ==
  LET out == SelectInSeq(s, LAMBDA c : c \notin chars)
  IN IF out = 0 THEN Len(s) ELSE out - 1

LowerCase(c) == IF c \in Upper THEN Printable[Code[c] + 1] ELSE c

DigitValue(c) ==
  SelectInSeq(<<"0", "1", "2", "3", "4", "5", "6", "7", "8", "9", "a", "b", "c", "d", "e", "f">>,
              LAMBDA d : d = LowerCase(c)) - 1

Number10(s, base) == FoldLeft(LAMBDA n, c : base * n + DigitValue(c), 0, s)

Constant(type, value) == [type |-> type, value |-> value]
Malformed == Constant("error", 0)

-----------------------------------------------------------------------------
(* parse_number                                                            *)

\* Slip: u may stand on one side of l only.
LongSuffixesOneSided == {<<"l">>, <<"u", "l">>, <<"l", "l">>, <<"u", "l", "l">>, <<"l", "l", "u">>}

LongSuffixes ==
  {<<"l">>, <<"u", "l">>, <<"l", "u">>, <<"l", "l">>, <<"u", "l", "l">>, <<"l", "l", "u">>}

\* value & ~(long)UINT_MAX
IntegerType(value) == IF value \div 2^IntBits # 0 THEN "long" ELSE "int"

\* ast_new_integer takes an int.
Integer(type, value) ==
  LET low == value % 2^IntBits
  IN Constant(type, IF low < 2^(IntBits - 1) THEN low ELSE low - 2^IntBits)

\* parse_number_integer
IntegerConstant(s) ==
  LET hex    == Len(s) > 1 /\ s[1] = "0" /\ s[2] \in {"x", "X"}
      base   == IF hex THEN 16 ELSE IF s[1] = "0" /\ Len(s) > 1 THEN 8 ELSE 10
      rest   == Suffix(s, CASE base = 16 -> 2 [] base = 8 -> 1 [] OTHER -> 0)
      digits == SubSeq(rest, 1, Run(rest, Hex))
      suffix == [i \in 1..(Len(rest) - Len(digits)) |-> LowerCase(rest[Len(digits) + i])]
      value  == Number10(digits, base)
  IN CASE base = 10 /\ ToSet(digits) \cap (Lower \cup Upper) # {} -> Malformed
       [] base = 8 /\ ~(ToSet(digits) \subseteq Octal)            -> Malformed
       [] suffix \in LongSuffixes -> Integer("long", value)
       [] suffix = << >>          -> Integer(IntegerType(value), value)
       [] OTHER                   -> Malformed

\* Where the digits from place n on end, a point with digits, an exponent.
DigitsEnd(s, n, digits) == n + Run(Suffix(s, n), digits)

PointEnd(s, n, digits) ==
  IF Len(s) > n /\ s[n + 1] = "." THEN DigitsEnd(s, n + 1, digits) ELSE n

ExponentEnd(s, n, mark) ==
  IF Len(s) > n + 1 /\ LowerCase(s[n + 1]) = mark /\ s[n + 2] \in Digits
    THEN DigitsEnd(s, n + 1, Digits) ELSE n

\* strtod: the length of what it converts.  A name like nan cannot begin a number.
Converted(s) ==
  LET hex    == Len(s) > 2 /\ s[1] = "0" /\ s[2] \in {"x", "X"}
                /\ \/ s[3] \in Hex
                   \/ s[3] = "." /\ Len(s) > 3 /\ s[4] \in Hex
      digits == IF hex THEN Hex ELSE Digits
      whole  == DigitsEnd(s, IF hex THEN 2 ELSE 0, digits)
  IN ExponentEnd(s, PointEnd(s, whole, digits), IF hex THEN "p" ELSE "e")

\* parse_number_floating: the last character may be a suffix, and what is before it, or
\* all, has to be a number.
FloatingConstant(s) ==
  LET suffix == LowerCase(Last(s))
      type   == CASE suffix = "l" -> "ldouble" [] suffix = "f" -> "float" [] OTHER -> "double"
      number == IF type = "double" THEN Len(s) ELSE Len(s) - 1
  IN IF Converted(s) = number THEN Constant(type, 0) ELSE Malformed

\* parse_number
ParseNumber(s) ==
  IF {".", "p", "e"} \cap ToSet(s) # {} THEN FloatingConstant(s) ELSE IntegerConstant(s)

-----------------------------------------------------------------------------
(* string_quote                                                            *)

\* Slip: only quotes are escaped.
QuotedPart(codes) ==
  FlattenSeq([i \in DOMAIN codes |->
    IF codes[i] = Code["\""] THEN <<Code["\\"], codes[i]>> ELSE <<codes[i]>>])

Quoted(codes) ==
  FlattenSeq([i \in DOMAIN codes |->
    CASE codes[i] \in {Code["\""], Code["\\"]} -> <<Code["\\"], codes[i]>>
      [] codes[i] = Code["\n"]                 -> <<Code["\\"], Code["n"]>>
      [] OTHER                                 -> <<codes[i]>>])
=============================================================================
