----------------------------- MODULE MCTyping ------------------------------
(* Typing and DeclSpec for TLC: the types of variables, literals, functions. *)
EXTENDS Declared

MCVariables ==
  {<<k>> : k \in {"char", "int", "long", "float", "double", "structure"}}
  \cup {<<"pointer", "int">>, <<"pointer", "double">>, <<"pointer", "void">>,
        <<"array", "char">>, <<"array", "array", "int">>}

MCResults == {<<k>> : k \in {"void", "short", "int", "llong", "float", "ldouble"}}
             \cup {<<"pointer", "int">>, <<"pointer", "void">>}
=============================================================================
