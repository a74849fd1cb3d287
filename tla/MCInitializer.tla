--------------------------- MODULE MCInitializer ---------------------------
(***************************************************************************)
(* Initializer and DataSection for TLC: the types of the variable.         *)
(***************************************************************************)
EXTENDS DataSection

IntType == Scalar(4)

\* struct { int a; int b; }
Pair == Structure(TRUE, 8, <<Field("a", IntType, 0), Field("b", IntType, 4)>>)

\* struct { char a; struct { int a; int b; } b; int c[2]; }
Nested == Structure(TRUE, 20,
  <<Field("a", Char, 0), Field("b", Pair, 4), Field("c", Array(IntType, 2), 12)>>)

\* struct { char a[3]; int b; }
Text == Structure(TRUE, 8, <<Field("a", Array(Char, 3), 0), Field("b", IntType, 4)>>)

\* struct { struct { int a; int b; } a[2]; int b; }
Pairs == Structure(TRUE, 20, <<Field("a", Array(Pair, 2), 0), Field("b", IntType, 16)>>)

\* struct { char a; union { int a; } b; int c; }
Single == Structure(TRUE, 12,
  <<Field("a", Char, 0), Field("b", Structure(FALSE, 4, <<Field("a", IntType, 0)>>), 4),
    Field("c", IntType, 8)>>)

\* struct { char a; struct s *b; int c; }
Linked == Structure(TRUE, 20, <<Field("a", Char, 0), Field("b", Scalar(8), 8), Field("c", IntType, 16)>>)

\* No union of two members; arrays of no length among them.
MCTypes == {Nested, Text, Pairs, Single, Linked,
            Array(Pair, -1), Array(Char, -1), Array(Array(IntType, 2), 2)}
=============================================================================
