------------------------------- MODULE CLexer ------------------------------
(***************************************************************************)
(* The tokens of C (C99 6.4) of a text, and what the lexer has to make of  *)
(* it.  A text is cut at the longest prefix that is a token, after blanks  *)
(* and comments.  Lines are not spliced, constants of several characters   *)
(* are not counted as C, $ is a letter and \e an escape sequence.          *)
(***************************************************************************)
EXTENDS Literals

Part(s, n) == SubSeq(s, 1, n)

-----------------------------------------------------------------------------
(* Constants of numbers                                                    *)

\* The preprocessing number at the beginning of s, 0 if there is none.
NumberLength(s) ==
  LET continues(i) ==
        \/ s[i] \in Alnum \cup {".", "_", "$"}
        \/ s[i] \in {"+", "-"} /\ s[i - 1] \in {"e", "E", "p", "P"}
      begin == IF s = << >> THEN 0 ELSE IF s[1] \in Digits THEN 1
               ELSE IF Len(s) > 1 /\ s[1] = "." /\ s[2] \in Digits THEN 2 ELSE 0
  IN IF begin = 0 THEN 0
     ELSE CHOOSE n \in begin..Len(s) : /\ \A i \in (begin + 1)..n : continues(i)
                                       /\ n = Len(s) \/ ~continues(n + 1)

CSuffixes ==
  {<< >>, <<"u">>, <<"l">>, <<"l", "l">>} \cup
  {<<"u", "l">>, <<"l", "u">>, <<"u", "l", "l">>, <<"l", "l", "u">>}

IsInteger(base, digits, suffix) ==
  /\ digits # << >> /\ suffix \in CSuffixes
  /\ \A i \in DOMAIN digits : digits[i] \in Hex /\ DigitValue(digits[i]) < base

\* The smallest type for the value; a signed one only for a decimal constant.
CInteger(s) ==
  LET hex    == Len(s) > 1 /\ s[1] = "0" /\ s[2] \in {"x", "X"}
      base   == IF hex THEN 16 ELSE IF s[1] = "0" THEN 8 ELSE 10
      rest   == IF hex THEN Suffix(s, 2) ELSE s
      n      == Run(rest, IF hex THEN Hex ELSE Digits)
      digits == Part(rest, n)
      suffix == [i \in 1..(Len(rest) - n) |-> LowerCase(rest[n + i])]
      limit  == IF base = 10 /\ "u" \notin ToSet(suffix) THEN IntBits - 1 ELSE IntBits
      value  == Number10(digits, base)
  IN IF ~IsInteger(base, digits, suffix) THEN Malformed
     ELSE Constant(IF "l" \in ToSet(suffix) \/ value >= 2^limit THEN "long" ELSE "int", value)

\* Digits with a point, an exponent or both, cut after whole and after part; in
\* hexadecimal the exponent is needed.
IsExponent(s, mark) ==
  LET power == Suffix(s, IF Len(s) > 1 /\ s[2] \in {"+", "-"} THEN 2 ELSE 1)
  IN Len(s) > 1 /\ LowerCase(s[1]) = mark /\ power # << >> /\ ToSet(power) \subseteq Digits

IsFloating(s, hex) ==
  LET digits == IF hex THEN Hex ELSE Digits IN
  \E whole \in 0..Len(s) : \E part \in whole..Len(s) :
    /\ ToSet(Part(s, whole)) \subseteq digits
    /\ part > whole => s[whole + 1] = "." /\ ToSet(SubSeq(s, whole + 2, part)) \subseteq digits
    /\ ToSet(Part(s, part)) \cap digits # {}
    /\ \/ IsExponent(Suffix(s, part), IF hex THEN "p" ELSE "e")
       \/ part = Len(s) /\ part > whole /\ ~hex

CFloating(s) ==
  LET last  == LowerCase(Last(s))
      hex   == Len(s) > 1 /\ s[1] = "0" /\ s[2] \in {"x", "X"}
      typed == last \in {"l", "f"}
      body  == Suffix(IF typed THEN Front(s) ELSE s, IF hex THEN 2 ELSE 0)
  IN IF ~IsFloating(body, hex) THEN Malformed
     ELSE Constant(IF ~typed THEN "double" ELSE IF last = "f" THEN "float" ELSE "ldouble", 0)

CNumber(s) == IF CInteger(s) # Malformed THEN CInteger(s) ELSE CFloating(s)

-----------------------------------------------------------------------------
(* Strings and characters                                                  *)

SimpleEscapes ==
  "a" :> 7 @@ "b" :> 8 @@ "e" :> 27 @@ "f" :> 12 @@ "n" :> 10 @@ "r" :> 13 @@ "t" :> 9
  @@ "v" :> 11 @@ [c \in {"'", "\"", "?", "\\"} |-> Code[c]]

\* The escape sequence at the beginning of s, after its backslash.
EscapeLength(s) ==
  CASE s[1] \in DOMAIN SimpleEscapes -> 1
    [] s[1] \in Octal -> LET n == Run(s, Octal) IN IF n < 3 THEN n ELSE 3
    [] s[1] = "x"     -> LET n == Run(Suffix(s, 1), Hex) IN IF n = 0 THEN 0 ELSE n + 1
    [] OTHER          -> 0

EscapeCode(s) ==
  CASE s[1] \in DOMAIN SimpleEscapes -> SimpleEscapes[s[1]]
    [] s[1] \in Octal                -> Number10(s, 8) % 256
    [] OTHER                         -> Number10(Suffix(s, 1), 16) % 256

\* The codes of a literal up to the quote, after its opening quote.
RECURSIVE Decoded(_, _)
Decoded(s, quote) ==
  LET more(n, code) ==
        LET rest == Decoded(Suffix(s, n), quote)
        IN [length |-> IF rest.length = 0 THEN 0 ELSE n + rest.length,
            codes |-> <<code>> \o rest.codes]
      none   == [length |-> 0, codes |-> << >>]
      escape == Suffix(s, 1)
  IN CASE s = << >> \/ s[1] = "\n" -> none
       [] s[1] = quote  -> [length |-> 1, codes |-> << >>]
       [] s[1] = "\\"   -> IF Len(s) = 1 \/ EscapeLength(escape) = 0 THEN none
                           ELSE more(1 + EscapeLength(escape),
                                     EscapeCode(Part(escape, EscapeLength(escape))))
       [] OTHER         -> more(1, Code[s[1]])

-----------------------------------------------------------------------------
(* Tokens                                                                  *)

CPunctuators ==
  {<<c>> : c \in {"[", "]", "(", ")", "{", "}", ".", "&", "*", "+", "-", "~", "!", "/", "%",
                  "<", ">", "^", "|", "?", ":", ";", "=", ","}}
  \cup {<<"+", "+">>, <<"-", "-">>, <<"-", ">">>, <<"&", "&">>, <<"|", "|">>}
  \cup {<<c, "=">> : c \in {"+", "-", "*", "/", "%", "&", "|", "^", "=", "!", "<", ">"}}
  \cup {<<"<", "<">>, <<">", ">">>, <<"<", "<", "=">>, <<">", ">", "=">>, <<".", ".", ".">>}

PunctLength(s) == Max({0} \cup {n \in 1..3 : n <= Len(s) /\ Part(s, n) \in CPunctuators})

\* A token with its spelling.
Spelled(s, n, kind, content) == [spelling |-> Part(s, n), token |-> <<kind, content>>]

Invalid == [spelling |-> << >>, token |-> <<"error">>]

\* The token s begins with.  The ellipsis is kept as a name, as the parser has it.
CToken(s) ==
  LET prefix == IF Len(s) > 1 /\ s[1] = "L" /\ s[2] \in {"'", "\""} THEN 1 ELSE 0
      quote  == s[1 + prefix]
      body   == Decoded(Suffix(s, 1 + prefix), quote)
  IN CASE NumberLength(s) > 0 ->
            LET n == NumberLength(s)
            IN IF CNumber(Part(s, n)) = Malformed THEN Invalid
               ELSE Spelled(s, n, "number", Part(s, n))
       [] quote \in {"\"", "'"} ->
            IF body.length = 0 \/ (quote = "'" /\ Len(body.codes) # 1) THEN Invalid
            ELSE Spelled(s, prefix + 1 + body.length,
                         IF quote = "'" THEN "char" ELSE "string", body.codes)
       [] s[1] \in First ->
            LET n == Run(s, First \cup Digits) IN Spelled(s, n, "identifier", Part(s, n))
       [] PunctLength(s) > 0 ->
            LET n == PunctLength(s)
            IN Spelled(s, n, IF n = 3 /\ s[1] = "." THEN "identifier" ELSE "punct", Part(s, n))
       [] OTHER -> Invalid

\* Blanks and comments at the beginning of s; 1 + Len(s) if a comment does not end.
RECURSIVE Blank(_)
Blank(s) ==
  LET from(n) == n + Blank(Suffix(s, n))
      ends    == {n \in 4..Len(s) : s[n - 1] = "*" /\ s[n] = "/"}
  IN CASE s # << >> /\ s[1] \in Space -> from(1)
       [] IsPrefix(<<"/", "/">>, s)   -> from(Run(s, Letters \ {"\n"}))
       [] IsPrefix(<<"/", "*">>, s)   -> IF ends = {} THEN 1 + Len(s) ELSE from(Min(ends))
       [] OTHER                       -> 0

\* All tokens; the last is Invalid if the text is not C's.
RECURSIVE CTokens(_)
CTokens(s) ==
  IF Blank(s) = Len(s) THEN << >>
  ELSE IF Blank(s) > Len(s) THEN <<Invalid>>
  ELSE LET rest == Suffix(s, Blank(s))
           t    == CToken(rest)
       IN IF t = Invalid THEN <<t>> ELSE <<t>> \o CTokens(Suffix(rest, Len(t.spelling)))

Legal(ts) == ts = << >> \/ Last(ts) # Invalid

-----------------------------------------------------------------------------
(* Where the compiler is known to leave C                                  *)

\* A hexadecimal escape sequence with a capital digit.
CapitalEscape(s) ==
  \E i, j \in DOMAIN s :
    /\ i + 1 < j /\ s[i] = "\\" /\ s[i + 1] = "x" /\ s[j] \in Upper
    /\ \A k \in (i + 2)..j : s[k] \in Hex

\* Numbers that begin with a point or have a sign, strings with a zero byte, two dots.
Strays(ts) ==
  \/ \E i \in DOMAIN ts :
       LET s == ts[i].spelling
       IN CASE ts[i].token[1] = "number" -> s[1] = "." \/ {"+", "-"} \cap ToSet(s) # {}
            [] ts[i].token[1] = "string" -> CapitalEscape(s) \/ 0 \in ToSet(ts[i].token[2])
            [] ts[i].token[1] = "char"   -> CapitalEscape(s)
            [] OTHER                     -> FALSE
  \/ \E i \in 2..Len(ts) : ts[i].spelling[1] = "." /\ ts[i - 1].spelling[1] = "."

\* Integers with the digit e in hexadecimal are read as floating, longs that do not fit
\* into an int lose what is above, the suffix u is refused when it is alone, and so is
\* what only a capital E or P tells to be floating.
StrayNumber(s) ==
  \E integer \in {CInteger(s)} :
    \/ s[1] = "0" /\ "e" \in ToSet(s) /\ integer # Malformed
    \/ integer.type = "long" /\ integer.value >= 2^(IntBits - 1)
    \/ integer # Malformed /\ Last(s) \in {"u", "U"} /\ Last(Front(s)) \notin {"l", "L"}
    \/ integer = Malformed /\ {".", "p", "e"} \cap ToSet(s) = {}

-----------------------------------------------------------------------------
(* Properties                                                              *)

\* lexer_read_token: a text of C is cut to its tokens, none lost, cut short or changed,
\* whatever follows what; and no text is refused that C has a meaning for, whatever
\* character comes next.
TokensAsInC ==
  /\ mode = "done" =>
       \A ts \in {CTokens(text)} :
         Legal(ts) /\ ~Strays(ts) => tokens = [i \in DOMAIN ts |-> ts[i].token]
  /\ mode = "refused" =>
       \A next \in {<< >>} \cup (IF ended THEN {} ELSE {<<c>> : c \in source.letters}) :
         ~Legal(CTokens(text \o next))

\* What the assembler stores for a quoted string.
RECURSIVE Assembled(_)
Assembled(s) ==
  LET two  == Part(s, 2)
      code == IF s[2] = Code["n"] THEN 10 ELSE s[2]
  IN IF s = << >> THEN << >>
     ELSE IF s[1] # Code["\\"] THEN <<s[1]>> \o Assembled(Suffix(s, 1))
     ELSE <<code>> \o Assembled(Suffix(s, 2))

\* The bits of an int are those of the unsigned int.
Same(m, n) == m.type = n.type /\ (m.value - n.value) % 2^IntBits = 0

\* It ends neither at a quote nor at the end of the line.
OneLine(q) ==
  /\ Code["\n"] \notin ToSet(q)
  /\ \A k \in DOMAIN q : q[k] = Code["\""] => k > 1 /\ q[k - 1] = Code["\\"]

\* What is done with the text of a token: parse_number gives every constant of C its type
\* and, for an integer, its value, and refuses none, but for the four kinds of StrayNumber;
\* string_quote gives the assembler a string that does not end early, and it stores the
\* bytes it was given.
LiteralsLand ==
  \A t \in ToSet(tokens) :
    /\ t[1] = "number" =>
         \A number \in {CNumber(t[2])} :
           number = Malformed \/ StrayNumber(t[2]) \/ Same(ParseNumber(t[2]), number)
    /\ t[1] = "string" => OneLine(Quoted(t[2])) /\ Assembled(Quoted(t[2])) = t[2]

\* The lexer comes to an end on every text, unless a comment is left open.
Ends == <>(mode \in {"done", "refused"} \/ (ended /\ mode \in {"block", "astrick"}))
=============================================================================
