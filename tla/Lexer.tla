------------------------------- MODULE Lexer -------------------------------
(***************************************************************************)
(* lexer_read_token of lexer.c: characters of stdin to tokens.  The text   *)
(* is not fixed in advance: every getc that finds nothing pushed back may  *)
(* deliver any letter of the source, or the end of the file.  The parser   *)
(* asks for tokens until it gets NULL.  A step is one getc; `mode' names   *)
(* the function, or the place in it, that asks for it.                     *)
(*                                                                         *)
(* A token is <<kind, content>>.  The content of names, numbers and        *)
(* punctuators is their characters, that of strings and characters is      *)
(* codes, of eight bits each.                                              *)
(***************************************************************************)
EXTENDS Integers, SequencesExt

CONSTANT Sources      \* [letters, length]: what a text may consist of

EOF == "EOF"

ASSUME SourcesAssumption ==
  \A s \in Sources : EOF \notin s.letters /\ s.length \in Nat

VARIABLES
  source,             \* the source of this text
  text,               \* history: the characters stdin has delivered
  ended,              \* stdin is at its end
  pushed,             \* the character given to ungetc, if any
  mode,
  within,             \* the literal an escape sequence belongs to
  word,               \* what is read of the current token
  tokens              \* the tokens delivered

vars == <<source, text, ended, pushed, mode, within, word, tokens>>

-----------------------------------------------------------------------------
(* Characters, in the order of ASCII from 32 on                            *)

Printable ==
  << " ", "!", "\"", "#", "$", "%", "&", "'", "(", ")", "*", "+", ",", "-", ".", "/",
     "0", "1", "2", "3", "4", "5", "6", "7", "8", "9", ":", ";", "<", "=", ">", "?",
     "@", "A", "B", "C", "D", "E", "F", "G", "H", "I", "J", "K", "L", "M", "N", "O",
     "P", "Q", "R", "S", "T", "U", "V", "W", "X", "Y", "Z", "[", "\\", "]", "^", "_",
     "backquote", "a", "b", "c", "d", "e", "f", "g", "h", "i", "j", "k", "l", "m", "n", "o",
     "p", "q", "r", "s", "t", "u", "v", "w", "x", "y", "z", "{", "|", "}", "~" >>

Code == [c \in ToSet(Printable) \cup {"\t", "\n", "\r", EOF} |->
           CASE c = "\t" -> 9 [] c = "\n" -> 10 [] c = "\r" -> 13 [] c = EOF -> 255
             [] OTHER   -> 31 + SelectInSeq(Printable, LAMBDA p : p = c)]

Space  == {" ", "\t", "\n", "\r"}
Octal  == {"0", "1", "2", "3", "4", "5", "6", "7"}
Digits == Octal \cup {"8", "9"}
Lower  == {"a", "b", "c", "d", "e", "f", "g", "h", "i", "j", "k", "l", "m", "n", "o", "p", "q",
           "r", "s", "t", "u", "v", "w", "x", "y", "z"}
Upper  == {"A", "B", "C", "D", "E", "F", "G", "H", "I", "J", "K", "L", "M", "N", "O", "P", "Q",
           "R", "S", "T", "U", "V", "W", "X", "Y", "Z"}
Hex    == Digits \cup {"a", "b", "c", "d", "e", "f", "A", "B", "C", "D", "E", "F"}
Alnum  == Digits \cup Lower \cup Upper
First  == Lower \cup Upper \cup {"$", "_"}     \* of a name

Singles == {"(", ")", ",", ";", "[", "]", "{", "}", "?", ":", "~"}

\* The punctuators of two characters, by the first.
Seconds ==
  [p \in {"+", "&", "|", "-", "<", ">"} |->
     {"="} \cup CASE p = "-" -> {"-", ">"} [] OTHER -> {p}]
  @@ [p \in {"*", "%", "=", "!", "^", "/"} |-> {"="}]
  @@ ("." :> {})

\* The escape sequences of one letter.
Escapes ==
  "a" :> 7 @@ "b" :> 8 @@ "f" :> 12 @@ "n" :> 10 @@ "r" :> 13 @@ "t" :> 9 @@ "v" :> 11
  @@ "e" :> 27

-----------------------------------------------------------------------------
(* stdin                                                                   *)

\* One getc.  What follows says whether it is pushed back.
Getc(c) ==
  /\ UNCHANGED source
  /\ \/ pushed = <<c>> /\ UNCHANGED <<text, ended>>
     \/ /\ pushed = << >> /\ ~ended /\ Len(text) < source.length
        /\ c \in source.letters
        /\ text' = Append(text, c) /\ UNCHANGED ended
     \/ pushed = << >> /\ c = EOF /\ ended' = TRUE /\ UNCHANGED text

Keep == pushed' = << >>

\* ungetc does nothing with EOF.
Ungetc(c) == pushed' = IF c = EOF THEN << >> ELSE <<c>>

Letters == source.letters \cup {EOF}

Deliver(kind, content) ==
  /\ tokens' = Append(tokens, <<kind, content>>)
  /\ mode' = "token" /\ word' = << >> /\ UNCHANGED within

Goto(m, w) == mode' = m /\ word' = w /\ UNCHANGED <<within, tokens>>

Refuse == Goto("refused", << >>)

Init ==
  /\ source \in Sources
  /\ text = << >> /\ ended = FALSE /\ pushed = << >>
  /\ mode = "token" /\ within = "none" /\ word = << >> /\ tokens = << >>

-----------------------------------------------------------------------------
(* lexer_read_token                                                        *)

\* lexer_skip; its ungetc and the getc after it cancel.
Skip == mode = "token" /\ \E c \in Space : Getc(c) /\ Keep /\ Goto("token", << >>)

BeginNumber ==
  mode = "token" /\ \E c \in Digits : Getc(c) /\ Keep /\ Goto("number", <<c>>)

BeginIdentifier ==
  mode = "token" /\ \E c \in First \ {"L"} : Getc(c) /\ Keep /\ Goto("identifier", <<c>>)

BeginLiteral ==
  /\ mode \in {"token", "prefix"}
  /\ \E q \in {"\"", "'"} :
       /\ Getc(q) /\ Keep
       /\ mode' = IF q = "'" THEN "character" ELSE "string"
       /\ within' = mode' /\ word' = << >> /\ UNCHANGED tokens

BeginPrefix == mode = "token" /\ Getc("L") /\ Keep /\ Goto("prefix", <<"L">>)

\* An L that is no prefix.
PlainPrefix ==
  /\ mode = "prefix"
  /\ \E c \in Letters \ {"\"", "'"} : Getc(c) /\ Ungetc(c) /\ Goto("identifier", <<"L">>)

Single ==
  mode = "token" /\ \E c \in Singles : Getc(c) /\ Keep /\ Deliver("punct", <<c>>)

BeginPunct ==
  mode = "token" /\ \E c \in DOMAIN Seconds : Getc(c) /\ Keep /\ Goto("punct", <<c>>)

\* What no token begins with.
Unexpected ==
  /\ mode = "token"
  /\ \E c \in source.letters \ (Space \cup Alnum \cup First \cup Singles
                                  \cup DOMAIN Seconds \cup {"\"", "'"}) :
       Getc(c) /\ Keep /\ Refuse

EndOfFile == mode = "token" /\ Getc(EOF) /\ Keep /\ Goto("done", << >>)

-----------------------------------------------------------------------------
(* Numbers and names                                                       *)

\* lexer_read_number
Number ==
  /\ mode = "number"
  /\ \E c \in Letters :
       /\ Getc(c)
       /\ IF c \in Alnum \cup {"."}
            THEN Keep /\ Goto("number", Append(word, c))
            ELSE Ungetc(c) /\ Deliver("number", word)

\* lexer_read_identifier
Identifier ==
  /\ mode = "identifier"
  /\ \E c \in Letters :
       /\ Getc(c)
       /\ IF c \in First \cup Digits
            THEN Keep /\ Goto("identifier", Append(word, c))
            ELSE Ungetc(c) /\ Deliver("identifier", word)

-----------------------------------------------------------------------------
(* Punctuators and comments                                                *)

\* lexer_read_reclassify_one and _two, and the cases written out.
Second ==
  /\ mode = "punct"
  /\ \E c \in Letters :
       /\ Getc(c)
       /\ ~(word = <<"/">> /\ c \in {"/", "*"}) /\ ~(word = <<".">> /\ c = ".")
       /\ IF c \notin Seconds[word[1]] THEN Ungetc(c) /\ Deliver("punct", word)
          ELSE /\ Keep
               /\ IF word[1] = c /\ c \in {"<", ">"} THEN Goto("shift", Append(word, c))
                  ELSE Deliver("punct", Append(word, c))

\* Slip: what follows a shift is not given back.
ShiftLost ==
  /\ mode = "shift"
  /\ \E c \in Letters :
       /\ Getc(c) /\ Keep
       /\ IF c = "=" THEN Deliver("punct", Append(word, c)) ELSE Deliver("punct", word)

Shift ==
  /\ mode = "shift"
  /\ \E c \in Letters :
       /\ Getc(c)
       /\ IF c = "=" THEN Keep /\ Deliver("punct", Append(word, c))
          ELSE Ungetc(c) /\ Deliver("punct", word)

\* After two dots any character makes the third.
Dots ==
  \/ mode = "punct" /\ word = <<".">> /\ Getc(".") /\ Keep /\ Goto("dots", <<".", ".">>)
  \/ mode = "dots" /\ \E c \in Letters :
                        Getc(c) /\ Keep /\ Deliver("identifier", Append(word, c))

BeginComment ==
  /\ mode = "punct" /\ word = <<"/">>
  /\ \/ Getc("/") /\ Keep /\ Goto("line", << >>)
     \/ Getc("*") /\ Keep /\ Goto("block", << >>)

\* Slip: only the end of the line ends the comment.
LineCommentOpen ==
  /\ mode = "line"
  /\ \E c \in Letters :
       Getc(c) /\ Keep /\ Goto(IF c = "\n" THEN "token" ELSE "line", << >>)

\* lexer_skip_comment_line
LineComment ==
  /\ mode = "line"
  /\ \E c \in Letters :
       Getc(c) /\ Keep /\ Goto(IF c \in {"\n", EOF} THEN "token" ELSE "line", << >>)

\* lexer_skip_comment_block; `astrick' is its second state.  At the end of the file
\* it goes on reading.
BlockComment ==
  /\ mode \in {"block", "astrick"}
  /\ \E c \in Letters :
       /\ Getc(c) /\ Keep
       /\ Goto(IF c = "*" THEN "astrick"
               ELSE IF mode = "astrick" /\ c = "/" THEN "token" ELSE "block", << >>)

-----------------------------------------------------------------------------
(* Strings and characters                                                  *)

\* (char)r, in a string by string_cat.
Read(code) ==
  Goto(IF within = "string" THEN "string" ELSE "closing", Append(word, code % 256))

\* string_buffer: what is after a zero byte is not part of the string.
Terminated(codes) ==
  IF 0 \in ToSet(codes)
    THEN SubSeq(codes, 1, SelectInSeq(codes, LAMBDA c : c = 0) - 1) ELSE codes

\* lexer_read_string
String ==
  /\ mode = "string"
  /\ \E c \in Letters :
       /\ Getc(c) /\ Keep
       /\ CASE c = EOF  -> Refuse
            [] c = "\"" -> Deliver("string", Terminated(word))
            [] c = "\\" -> Goto("escaped", word)
            [] OTHER    -> Read(Code[c])

\* lexer_read_character
Character ==
  /\ mode = "character"
  /\ \E c \in Letters :
       Getc(c) /\ Keep /\ (IF c = "\\" THEN Goto("escaped", word) ELSE Read(Code[c]))

Closing ==
  /\ mode = "closing"
  /\ \E c \in Letters :
       Getc(c) /\ Keep /\ (IF c = "'" THEN Deliver("char", word) ELSE Refuse)

\* lexer_read_character_escaped.  The number of an escape sequence is kept at the
\* end of word.
Escaped ==
  /\ mode = "escaped"
  /\ \E c \in Letters :
       /\ Getc(c) /\ Keep
       /\ CASE c = EOF            -> Refuse
            [] c \in Octal        -> Goto("octal", Append(word, Code[c] - Code["0"]))
            [] c = "x"            -> Goto("hexadecimal", Append(word, 0))
            [] c \in DOMAIN Escapes -> Read(Escapes[c])
            [] OTHER              -> Read(Code[c])

\* The sequence is over and c is not part of it.
EndEscape(c) ==
  /\ Ungetc(c)
  /\ Goto(IF within = "string" THEN "string" ELSE "closing", word)

Shown(n) == ReplaceAt(word, Len(word), n % 256)

\* lexer_read_character_octal: two more digits at most.
OctalDigit ==
  /\ mode \in {"octal", "octal_last"}
  /\ \E c \in Letters :
       /\ Getc(c)
       /\ IF c \notin Octal THEN EndEscape(c)
          ELSE /\ Keep
               /\ Goto(IF mode = "octal" THEN "octal_last"
                       ELSE IF within = "string" THEN "string" ELSE "closing",
                       Shown(8 * Last(word) + Code[c] - Code["0"]))

\* (r << 4) | d.  A digit from A to F is taken from the code of f: it is negative,
\* and of its bits above the lowest four all but the first are set.
Hexadecimal(r, d) ==
  IF d >= 0 THEN 16 * r + d ELSE 16 * ((r % 2) + 14) + (d % 16)

Value(c) ==
  IF c \in Digits THEN Code[c] - Code["0"]
  ELSE IF c \in Lower THEN Code[c] - Code["a"] + 10 ELSE Code[c] - Code["f"] + 10

\* lexer_read_character_hexadecimal
HexDigit ==
  /\ mode \in {"hexadecimal", "hexadecimal_more"}
  /\ \E c \in Letters :
       /\ Getc(c)
       /\ CASE c \in Hex            -> Keep /\ Goto("hexadecimal_more",
                                                    Shown(Hexadecimal(Last(word), Value(c))))
            [] c \notin Hex /\ mode = "hexadecimal" -> Keep /\ Refuse
            [] OTHER                -> EndEscape(c)

-----------------------------------------------------------------------------

Next ==
  \/ Skip \/ BeginNumber \/ BeginIdentifier \/ BeginLiteral \/ BeginPrefix \/ PlainPrefix
  \/ Single \/ BeginPunct \/ Unexpected \/ EndOfFile
  \/ Number \/ Identifier \/ Second \/ Shift \/ Dots
  \/ BeginComment \/ LineComment \/ BlockComment
  \/ String \/ Character \/ Closing \/ Escaped \/ OctalDigit \/ HexDigit

\* The compiler runs until the lexer has delivered everything.
Spec == Init /\ [][Next]_vars /\ WF_vars(Next)
=============================================================================
