------------------------------ MODULE MCTokens ------------------------------
(* Inputs for Tokens: up to two external declarations, then cut anywhere.  *)
EXTENDS Tokens

CONSTANT MaxItems

Item(words, isFunction) == [text |-> words, function |-> isFunction]

Items ==
  { Item(<<"other", "other", ";">>, FALSE),                          \* int a;
    Item(<<"other", "=", "(", "other", ")", ";">>, FALSE),           \* a = (1);
    Item(<<"other", ",", "other", ";">>, FALSE),                     \* int a, b;
    Item(<<"other", "(", "other", ",", "other", ")", ";">>, FALSE),  \* prototype
    Item(<<"other", "{", "other", ";", "other", ";">>, FALSE),       \* struct { a; };
    Item(<<"other", "(", ")", "{", "other">>, TRUE),                 \* int f() { }
    Item(<<"other", "(", "(", ")", ",", ")", "{", "=", ";", "other">>, TRUE) }

\* Each item after the ones before it: where it starts, where it ends.
Program(items) ==
  LET end[i \in 0..Len(items)] ==
        IF i = 0 THEN 0 ELSE end[i - 1] + Len(items[i].text)
      at(k) == CHOOSE i \in 1..Len(items) : end[i - 1] < k /\ k <= end[i]
  IN [text      |-> [k \in 1..end[Len(items)] |->
                       items[at(k)].text[k - end[at(k) - 1]]],
      ends      |-> {end[i] : i \in 0..Len(items)},
      functions |-> {end[i - 1] + 1 : i \in {j \in 1..Len(items) : items[j].function}}]

Whole == { Program(items) : items \in UNION { [1..n -> Items] : n \in 0..MaxItems } }

Cut(p, n) == [p EXCEPT !.text = SubSeq(p.text, 1, n)]

MCPrograms == UNION { { Cut(p, n) : n \in 0..Len(p.text) } : p \in Whole }

ASSUME SettledInputs == Settled
=============================================================================
