------------------------------ MODULE MCLexer ------------------------------
(* Sources for CLexer: small alphabets, each for some of the tokens.       *)
EXTENDS CLexer

CONSTANT MaxLength    \* no text is longer

Source(letters, length) == [letters |-> letters, length |-> Min({length, MaxLength})]

MCSources ==
  { Source({"+", "-", "=", "<", ">", "&", "!", ".", "(", "a", "1"}, 4),     \* punctuators
    Source({"|", "*", "%", "^", "/", "=", ":", "~", "#", " "}, 3),
    Source({"/", "*", "\n", "a", "\""}, 6),                               \* comments
    Source({"L", "'", "\"", "a", "0", "_", " ", "\\"}, 5),                \* names, literals
    Source({"\"", "'", "\\", "x", "7", "a"}, 6),                          \* escapes
    Source({"\"", "\\", "x", "n", "F"}, 5),
    Source({"0", "1", "8", "x", "e", "f", "l", "u", ".", "+"}, 4),         \* numbers
    Source({"0", "1", "x", "e", "+", "."}, 5),
    Source({"0", "1", "x", "u", "l"}, 5),
    Source({"0", "1", "X", "E", "P", "p", "L", "U", ".", "F"}, 4) }
=============================================================================
