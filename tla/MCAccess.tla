------------------------------ MODULE MCAccess ------------------------------
(***************************************************************************)
(* Access from every way its pointers can point into s and g.  All numbers *)
(* differ, so that a value from the wrong place shows.                     *)
(***************************************************************************)
EXTENDS Access

Cells == {ref \in Targets["int"] : TypeOf[Front(ref)].kind = "array"}

Pointers ==
  [p : {<<"s">>, <<"g">>}, next : {<<"s">>, <<"g">>},
   q : Cells, r : {<<"s", "t">>, <<"g", "t">>}]

NumberOf(ref) == Number(128 + Address[ref])

MCInitialValues ==
  {[ref \in Scalars |->
      CASE ref = <<"p">>         -> Reference(o.p)
        [] ref = <<"q">>         -> Reference(o.q)
        [] ref = <<"r">>         -> Reference(o.r)
        [] ref \in {<<"s", "next">>, <<"g", "next">>} -> Reference(o.next)
        [] OTHER                 -> NumberOf(ref)] : o \in Pointers}
=============================================================================
