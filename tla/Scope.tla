------------------------------- MODULE Scope -------------------------------
(***************************************************************************)
(* Names in parse.c, ast.c and util.c: the chain of tables behind          *)
(* ast_localenv, ast_globalenv, the locals of the function being parsed,   *)
(* its labels and gotos.  A declaration is a number, so finding the wrong  *)
(* one of two declarations of a name shows.  scopes is no state of the     *)
(* compiler: it is what C says is in scope, and declared is all there was. *)
(***************************************************************************)
EXTENDS Naturals, Sequences, FiniteSets

CONSTANTS
  Names,              \* identifiers
  LabelNames,         \* identifiers of labels
  MaxDecls,           \* bound on declarations in the file
  MaxBlocks,          \* bound on blocks inside one another
  MaxGotos            \* bound on the gotos of a function

ASSUME BoundsAssumption == MaxDecls \in Nat /\ MaxBlocks \in Nat /\ MaxGotos \in Nat

VARIABLES
  globalenv,          \* ast_globalenv, a list of entries
  sentinel,           \* the table ast_localenv starts out at; it has no parent
  localenv,           \* which table ast_localenv is: "sentinel", "null" or "chain"
  chain,              \* ast_localenv and its parents below ast_globalenv, inner last
  parameters, locals, \* the variables of the function: those that get a stack slot
  listed,             \* whether ast_locals is a list, and not NULL
  function,           \* the function being parsed
  labels, gotos,      \* ast_labels and ast_gotos, where is 0 for NULL
  nextLabel,          \* the counter of ast_label
  pc,
  scopes, nextId      \* history

tables == <<globalenv, sentinel, localenv, chain>>
slots  == <<parameters, locals, listed>>
jumps  == <<labels, gotos, nextLabel>>
vars   == <<globalenv, sentinel, localenv, chain, parameters, locals, listed, function,
            labels, gotos, nextLabel, pc, scopes, nextId>>

None == [name |-> "none", kind |-> "none", id |-> 0]

\* The first entry of that name in a list, as table_find searches one table.
InTable(list, n) ==
  LET places == {i \in 1..Len(list) : list[i].name = n}
  IN IF places = {} THEN None ELSE list[CHOOSE i \in places : \A j \in places : i <= j]

FromInside(ts, n) ==
  LET with == {i \in 1..Len(ts) : InTable(ts[i], n) # None}
  IN IF with = {} THEN None ELSE InTable(ts[CHOOSE i \in with : \A j \in with : j <= i], n)

FromOutside(ts, n) ==
  LET with == {i \in 1..Len(ts) : InTable(ts[i], n) # None}
  IN IF with = {} THEN None ELSE InTable(ts[CHOOSE i \in with : \A j \in with : i <= j], n)

\* Slip: the search begins at the outermost table.
SearchOutermostFirst(n) == FromOutside(<<globalenv>> \o chain, n)

\* table_find(ast_localenv, n)
Search(n) ==
  CASE localenv = "sentinel" -> InTable(sentinel, n)
    [] localenv = "null"     -> None
    [] localenv = "chain"    -> FromInside(<<globalenv>> \o chain, n)

\* table_insert
Insert(list, e) == Append(list, e)

InTop(stack, e) == [stack EXCEPT ![Len(stack)] = Insert(@, e)]
Push(stack)     == Append(stack, << >>)
Pop(stack)      == SubSeq(stack, 1, Len(stack) - 1)

Init ==
  /\ globalenv = << >> /\ sentinel = << >> /\ localenv = "sentinel" /\ chain = << >>
  /\ parameters = << >> /\ locals = << >> /\ listed = FALSE
  /\ function = None
  /\ labels = << >> /\ gotos = << >> /\ nextLabel = 1
  /\ pc = "file"
  /\ scopes = << << >> >> /\ nextId = 1

-----------------------------------------------------------------------------
\* C allows a name once in a scope; for a function being defined, the names of its
\* parameters and of its outermost block are one scope.
Entry(n, k) == [name |-> n, kind |-> k, id |-> nextId]
New(n) == InTable(scopes[Len(scopes)], n) = None

Declared(e) ==
  /\ nextId <= MaxDecls
  /\ nextId' = nextId + 1
  /\ scopes' = InTop(scopes, e)

\* A variable or a prototype at file scope: ast_variable_global.
Global(n, k) ==
  /\ pc = "file" /\ New(n)
  /\ Declared(Entry(n, k))
  /\ globalenv' = Insert(globalenv, Entry(n, k))
  /\ UNCHANGED <<sentinel, localenv, chain, slots, function, jumps, pc>>

\* What is inserted in the table ast_localenv points to, if it does.
InLocalenv(e) ==
  /\ sentinel' = IF localenv = "sentinel" THEN Insert(sentinel, e) ELSE sentinel
  /\ chain' = IF localenv = "chain" THEN InTop(chain, e) ELSE chain

\* ast_variable_local
VariableLocal(e) ==
  /\ InLocalenv(e)
  /\ locals' = IF listed THEN Append(locals, e.id) ELSE locals

\* parse_enumeration: ast_localenv if it is not NULL, else ast_globalenv.
Enumerator(n) ==
  /\ pc \in {"file", "body"} /\ New(n)
  /\ LET e == Entry(n, "enumerator") IN
       /\ Declared(e)
       /\ InLocalenv(e)
       /\ globalenv' = IF localenv = "null" THEN Insert(globalenv, e) ELSE globalenv
  /\ UNCHANGED <<localenv, slots, function, jumps, pc>>

\* parse_function_definition_intermediate, up to the parameters.  A prototype before
\* the definition declares the same function.
BeginFunction(n) ==
  LET before == InTable(scopes[1], n)
      f == IF before = None THEN Entry(n, "function") ELSE before
  IN
  /\ pc = "file"
  /\ before # None => /\ before.kind = "prototype"
                      /\ Cardinality({i \in 1..Len(globalenv) : globalenv[i] = before}) = 1
  /\ IF before = None
       THEN /\ nextId <= MaxDecls /\ nextId' = nextId + 1
            /\ scopes' = Push(InTop(scopes, f))
       ELSE scopes' = Push(scopes) /\ UNCHANGED nextId
  /\ localenv' = "chain" /\ chain' = Push(<< >>)
  /\ labels' = << >> /\ gotos' = << >>
  /\ parameters' = << >>
  /\ function' = f
  /\ pc' = "parameters"
  /\ UNCHANGED <<globalenv, sentinel, locals, listed, nextLabel>>

\* parse_function_parameters
Parameter(n) ==
  /\ pc = "parameters" /\ New(n)
  /\ Declared(Entry(n, "variable"))
  /\ VariableLocal(Entry(n, "variable"))
  /\ parameters' = Append(parameters, nextId)
  /\ UNCHANGED <<globalenv, localenv, listed, function, jumps, pc>>

\* Slip: ast_locals is left at NULL.
BeginBodyUnlisted ==
  /\ pc = "parameters"
  /\ chain' = Push(Push(chain))
  /\ pc' = "body"
  /\ UNCHANGED <<globalenv, sentinel, localenv, slots, function, jumps, scopes, nextId>>

\* parse_function_definition and the '{' of its parse_statement_compound.
BeginBody ==
  /\ pc = "parameters"
  /\ chain' = Push(Push(chain))
  /\ locals' = << >> /\ listed' = TRUE
  /\ pc' = "body"
  /\ UNCHANGED <<globalenv, sentinel, localenv, parameters, function, jumps, scopes, nextId>>

\* parse_declaration in a block; a prototype is made the same way as a variable.
Local(n, k) ==
  /\ pc = "body" /\ New(n)
  /\ Declared(Entry(n, k))
  /\ VariableLocal(Entry(n, k))
  /\ UNCHANGED <<globalenv, localenv, parameters, listed, function, jumps, pc>>

\* A compound statement, or a for with what it declares.
Open ==
  /\ pc = "body" /\ Len(chain) < 3 + MaxBlocks
  /\ chain' = Push(chain) /\ scopes' = Push(scopes)
  /\ UNCHANGED <<globalenv, sentinel, localenv, slots, function, jumps, pc, nextId>>

Close ==
  /\ pc = "body" /\ Len(chain) > 3
  /\ chain' = Pop(chain) /\ scopes' = Pop(scopes)
  /\ UNCHANGED <<globalenv, sentinel, localenv, slots, function, jumps, pc, nextId>>

Goto(l) ==
  /\ pc = "body" /\ Len(gotos) < MaxGotos
  /\ gotos' = Append(gotos, [name |-> l, where |-> 0])
  /\ UNCHANGED <<tables, slots, function, labels, nextLabel, pc, scopes, nextId>>

\* parse_label refuses a second label of the same name.
LabelNamed(l) == {i \in 1..Len(labels) : labels[i].name = l}

Label(l) ==
  /\ pc = "body"
  /\ IF LabelNamed(l) = {}
       THEN labels' = Append(labels, [name |-> l, where |-> 0]) /\ UNCHANGED pc
       ELSE pc' = "error" /\ UNCHANGED labels
  /\ UNCHANGED <<tables, slots, function, gotos, nextLabel, scopes, nextId>>

\* Slip: every goto makes a label of its own.
FilledAnew(j, i, d) ==
  [j EXCEPT !.labels[d].where = j.next, !.gotos[i].where = j.next, !.next = @ + 1]

\* One goto of parse_label_backfill, its label at place d: a new assembler label,
\* unless an earlier goto to the same place made one.
Filled(j, i, d) ==
  IF j.labels[d].where # 0
    THEN [j EXCEPT !.gotos[i].where = j.labels[d].where]
    ELSE [j EXCEPT !.labels[d].where = j.next, !.gotos[i].where = j.next, !.next = @ + 1]

\* What they are after each of the gotos.
Fillings[i \in 0..Len(gotos)] ==
  IF i = 0 THEN [labels |-> labels, gotos |-> gotos, next |-> nextLabel]
  ELSE Filled(Fillings[i - 1], i, CHOOSE d \in LabelNamed(gotos[i].name) : TRUE)

Backfilled == Fillings[Len(gotos)]

Leave == localenv' = "null" /\ chain' = << >>

\* The '}' of the function: only now is its name inserted in ast_globalenv.
EndFunction ==
  /\ pc = "body" /\ Len(chain) = 3
  /\ globalenv' = Insert(globalenv, function)
  /\ Leave
  /\ locals' = << >> /\ parameters' = << >> /\ listed' = FALSE
  /\ scopes' = Pop(scopes)
  /\ function' = None
  /\ IF \E i \in 1..Len(gotos) : LabelNamed(gotos[i].name) = {}
       THEN pc' = "error" /\ UNCHANGED jumps
       ELSE /\ pc' = "file"
            /\ labels' = Backfilled.labels /\ gotos' = Backfilled.gotos
            /\ nextLabel' = Backfilled.next
  /\ UNCHANGED <<sentinel, nextId>>

Next ==
  \/ \E n \in Names : \/ \E k \in {"variable", "prototype"} : Global(n, k) \/ Local(n, k)
                      \/ Enumerator(n) \/ BeginFunction(n) \/ Parameter(n)
  \/ BeginBody \/ Open \/ Close
  \/ \E l \in LabelNames : Goto(l) \/ Label(l)
  \/ EndFunction

Spec == Init /\ [][Next]_vars

-----------------------------------------------------------------------------
\* What C says n means here.
Visible(n) == FromInside(scopes, n)

\* The two declarations the compiler loses: an enumerator at file scope before the
\* first function, and the function being parsed itself when it has no prototype.
Lost(e) ==
  \/ \E i \in 1..Len(sentinel) : sentinel[i].id = e.id
  \/ e = function /\ InTable(globalenv, e.name) = None

\* Inside a function a name means the declaration it means in C, through shadowing,
\* block exits, for scopes, parameters and prototypes; a lost one is not found, and
\* nothing else is found instead.
LookupAgrees ==
  pc \in {"parameters", "body"} =>
    \A n \in Names : Search(n) = IF Lost(Visible(n)) THEN None ELSE Visible(n)

\* A variable a statement can name has a slot in the frame of its function.
LocalsHaveSlots ==
  pc \in {"parameters", "body"} =>
    \A n \in Names : LET e == Search(n) IN
      e # None /\ e.kind = "variable" /\ InTable(globalenv, n) # e =>
        \E i \in 1..Len(parameters \o locals) : (parameters \o locals)[i] = e.id

\* After a function, its gotos lead to the labels they name: two to one place if and
\* only if they name the same label.
GotosResolved ==
  pc = "file" =>
    \A i, j \in 1..Len(gotos) :
      /\ gotos[i].where # 0
      /\ \E d \in LabelNamed(gotos[i].name) : labels[d].where = gotos[i].where
      /\ gotos[i].where = gotos[j].where <=> gotos[i].name = gotos[j].name
=============================================================================
