------------------------------ MODULE DeclSpec ------------------------------
(***************************************************************************)
(* parse_declaration_specification of parse.c: the state machine that      *)
(* reads the words in front of a declarator, in whatever order they are    *)
(* written, and makes a type of them.  Below it, what C says of the same   *)
(* words (C99 6.7.2), which looks only at how often each occurs.           *)
(***************************************************************************)
EXTENDS Naturals

Storage    == {"typedef", "extern", "static", "auto", "register"}
Qualifiers == {"const", "volatile", "inline"}
Types      == {"void", "char", "int", "float", "double"}
Signs      == {"signed", "unsigned"}
Users      == {"tag", "name"}    \* struct, union or enum with what follows; a typedef name
TypeWords  == Types \cup Signs \cup Users \cup {"short", "long"}
Words      == TypeWords \cup Storage

VARIABLES
  storage,            \* the storage class, "none" before there is one
  qualifiers,         \* kconst, kvolatile and kinline
  type, size, signature, user,      \* the specifiers, "none" for 0 and NULL
  pc,
  result,             \* the type returned
  taken               \* history: how often each word has been read

specifiers == <<type, size, signature, user>>
vars == <<storage, qualifiers, type, size, signature, user, pc, result, taken>>

NoType == [base |-> "none", signed |-> FALSE]

Init ==
  /\ storage = "none" /\ qualifiers = {}
  /\ type = "none" /\ size = "none" /\ signature = "none" /\ user = "none"
  /\ pc = "word"
  /\ result = NoType
  /\ taken = [w \in Words |-> 0]

-----------------------------------------------------------------------------
(* set_state: what is set must not be set yet, and must go with the rest.  *)

\* Slip: no check of long.
FitsAnySize(t, sz, sign, u) ==
  /\ sz = "short" => t \in {"none", "int"}
  /\ sign # "none" => t \notin {"void", "float", "double"}
  /\ u # "none" => t = "none" /\ sz = "none" /\ sign = "none"

\* Slip: no exception for long double.
FitsNoLongDouble(t, sz, sign, u) ==
  /\ sz \in {"short", "long"} => t \in {"none", "int"}
  /\ sign # "none" => t \notin {"void", "float", "double"}
  /\ u # "none" => t = "none" /\ sz = "none" /\ sign = "none"

Fits(t, sz, sign, u) ==
  /\ sz = "short"  => t \in {"none", "int"}
  /\ sz = "long"   => t \in {"none", "int", "double"}
  /\ sign # "none" => t \notin {"void", "float", "double"}
  /\ u # "none"    => t = "none" /\ sz = "none" /\ sign = "none"

Read(w) == pc = "word" /\ taken' = [taken EXCEPT ![w] = @ + 1] /\ UNCHANGED result
Check(ok) == pc' = IF ok THEN pc ELSE "error"

Qualifier(q) ==
  /\ pc = "word"
  /\ qualifiers' = qualifiers \cup {q}
  /\ UNCHANGED <<storage, specifiers, pc, result, taken>>

Class(s) ==
  /\ Read(s)
  /\ Check(storage = "none")
  /\ storage' = IF storage = "none" THEN s ELSE storage
  /\ UNCHANGED <<qualifiers, specifiers>>

Type(t) ==
  /\ Read(t)
  /\ Check(type = "none" /\ Fits(t, size, signature, user))
  /\ type' = IF type = "none" THEN t ELSE type
  /\ UNCHANGED <<storage, qualifiers, size, signature, user>>

Sign(s) ==
  /\ Read(s)
  /\ Check(signature = "none" /\ Fits(type, size, s, user))
  /\ signature' = IF signature = "none" THEN s ELSE signature
  /\ UNCHANGED <<storage, qualifiers, type, size, user>>

\* The argument of set_state, parse_tag_definition or parse_enumeration, is evaluated
\* only once the check that nothing is set has passed.
User(u) ==
  /\ Read(u)
  /\ Check(user = "none" /\ Fits(type, size, signature, u))
  /\ user' = IF user = "none" THEN u ELSE user
  /\ UNCHANGED <<storage, qualifiers, type, size, signature>>

Short ==
  /\ Read("short")
  /\ Check(size = "none" /\ Fits(type, "short", signature, user))
  /\ size' = IF size = "none" THEN "short" ELSE size
  /\ UNCHANGED <<storage, qualifiers, type, signature, user>>

\* The second long is set_uncheck, a third is refused.
Long ==
  /\ Read("long")
  /\ Check(size = "long" \/ (size = "none" /\ Fits(type, "long", signature, user)))
  /\ size' = CASE size = "none" -> "long"
               [] size = "long" -> "llong"
               [] OTHER         -> size
  /\ UNCHANGED <<storage, qualifiers, type, signature, user>>

\* Slip: the size decides before the type.
ChosenBySize ==
  CASE user # "none"  -> [base |-> user, signed |-> FALSE]
    [] user = "none"  -> [base |-> IF size # "none" THEN size
                                   ELSE IF type = "none" THEN "int" ELSE type,
                          signed |-> type \notin {"void", "float", "double"}
                                     /\ signature # "unsigned"]

\* The type made of what has been set.
Chosen ==
  LET signed == signature # "unsigned" IN
  IF user # "none" THEN [base |-> user, signed |-> FALSE]
  ELSE CASE type \in {"void", "float"} -> [base |-> type, signed |-> FALSE]
         [] type = "char"   -> [base |-> "char", signed |-> signed]
         [] type = "double" -> [base |-> IF size = "long" THEN "ldouble" ELSE "double",
                                signed |-> FALSE]
         [] OTHER -> [base |-> IF size = "none" THEN "int" ELSE size, signed |-> signed]

\* A token that is none of these words is given back and ends the loop.
Stop ==
  /\ pc = "word"
  /\ pc' = "done"
  /\ result' = Chosen
  /\ UNCHANGED <<storage, qualifiers, specifiers, taken>>

EndOfInput ==
  /\ pc = "word"
  /\ pc' = "ended"
  /\ UNCHANGED <<storage, qualifiers, specifiers, result, taken>>

Next ==
  \/ \E q \in Qualifiers : Qualifier(q)
  \/ \E s \in Storage : Class(s)
  \/ \E t \in Types : Type(t)
  \/ \E s \in Signs : Sign(s)
  \/ \E u \in Users : User(u)
  \/ Short \/ Long \/ Stop \/ EndOfInput

Spec == Init /\ [][Next]_vars

-----------------------------------------------------------------------------
(* C: how often each word occurs decides, the order never does.            *)

Once(w)  == taken[w] = 1
Never(S) == \A w \in S : taken[w] = 0
AtMostOneOf(S) == /\ \A w \in S : taken[w] <= 1
                  /\ \A v, w \in S : Once(v) /\ Once(w) => v = w

CAlone(w) == Once(w) /\ Never(TypeWords \ {w})
CChar     == Once("char") /\ AtMostOneOf(Signs) /\ Never(TypeWords \ (Signs \cup {"char"}))
CLDouble  == Once("double") /\ Once("long") /\ Never(TypeWords \ {"double", "long"})

\* int and its sizes; with no word at all, the int C89 implied.
CInteger ==
  /\ Never(TypeWords \ (Signs \cup {"int", "short", "long"}))
  /\ AtMostOneOf(Signs)
  /\ taken["int"] <= 1
  /\ \/ taken["short"] = 0 /\ taken["long"] <= 2
     \/ taken["short"] = 1 /\ taken["long"] = 0

CTypes == \/ \E w \in {"void", "float", "double"} \cup Users : CAlone(w)
          \/ CChar \/ CLDouble \/ CInteger

CValid == CTypes /\ AtMostOneOf(Storage)

\* The base type, and for the integers whether it is signed (plain char is).
CBase == CASE CLDouble -> "ldouble"
           [] CChar    -> "char"
           [] CInteger -> (CASE Once("short")      -> "short"
                             [] Once("long")       -> "long"
                             [] taken["long"] = 2  -> "llong"
                             [] OTHER              -> "int")
           [] OTHER    -> CHOOSE w \in TypeWords : Once(w)
CSigned == (CChar \/ CInteger) /\ ~Once("unsigned")

-----------------------------------------------------------------------------
TypeOK ==
  /\ storage \in Storage \cup {"none"}
  /\ qualifiers \subseteq Qualifiers
  /\ type \in Types \cup {"none"}
  /\ size \in {"none", "short", "long", "llong"}
  /\ signature \in Signs \cup {"none"}
  /\ user \in Users \cup {"none"}
  /\ pc \in {"word", "done", "error", "ended"}
  /\ taken \in [Words -> Nat]

\* No order of the words of a C type is refused: the words read up to an error are
\* not those of a C type, nor the first words of one, for a part of CValid words is
\* CValid itself.
AcceptsC == pc = "error" => ~CValid

\* What is accepted is a C type, but for one hole: long long next to a type that has
\* no such size, for the second long is not checked, nor is anything against it.
LongLongHole == taken["long"] = 2 /\ ~Never({"void", "char", "float", "double"})
RefusesOthers == pc = "done" => CValid \/ LongLongHole

\* The type is the one C gives these words, in every order.
MeansC == pc = "done" /\ CValid => result = [base |-> CBase, signed |-> CSigned]
=============================================================================
