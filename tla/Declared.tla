------------------------------ MODULE Declared ------------------------------
(***************************************************************************)
(* Typing together with DeclSpec: what the words in front of a declarator  *)
(* are taken for is the type of the variable or the function an expression *)
(* begins with.  What the compiler calls the type and what C calls it go   *)
(* side by side from the first word to the root of the tree.               *)
(***************************************************************************)
EXTENDS DeclSpec, Typing

\* No call of parse_declaration_specification is in progress.
Idle == Init

Start == Init /\ ExprInit

Word == operands = << >> /\ Next /\ UNCHANGED treeVars

\* The base of a structure or a union is a tag.
Named(word) == IF word = "tag" THEN <<"structure">> ELSE <<word>>

\* The locals of the call are gone.
Return ==
  /\ pc = "done" /\ CValid /\ storage # "typedef" /\ user # "name"
  /\ storage' = "none" /\ qualifiers' = {} /\ type' = "none" /\ size' = "none"
  /\ signature' = "none" /\ user' = "none" /\ pc' = "word"
  /\ result' = NoType
  /\ taken' = [w \in Words |-> 0]

\* A variable of the type; of void, a function that returns it.
Declare ==
  /\ Return
  /\ LET t     == Named(result.base)
         meant == Named(CBase)
     IN IF t = <<"void">> THEN Known(Tree(t, "none", Register(t), meant, FALSE, TRUE))
        ELSE \E place \in {"local", "global"} :
               Known(Tree(t, place, IF place = "global" THEN "rax" ELSE Register(t), meant, FALSE,
                          place = "local" \/ ~Floating(t)))

Express == Idle /\ ExprNext /\ UNCHANGED vars

DeclaredNext == Word \/ Declare \/ Express

DeclaredSpec == Start /\ [][DeclaredNext]_<<vars, treeVars>>
=============================================================================
