# A verification project for LICE

LICE is a one-pass C99 compiler: it reads C from standard input and writes x86-64
assembly for the System V ABI. This directory holds TLA+ models of its parts, TLC
configurations that check them on small instances, and theorems TLAPS proves.

It is a sequential program that stores nothing, so its hard behaviour is not in threads or
crashes. It lies in *state passed between steps far apart*: a push-back stack shared by
every look-ahead, one global variable that remembers the break target of an outer loop,
types that are filled in after they were used, registers that hold a value while other code
runs, a table that is pushed at `{` and popped at `}`. A test exercises one program; the
models here run all programs of a small size.

## 1. Inventory

| part | code | state | operations | interacts with |
|---|---|---|---|---|
| lexical analysis | `lexer.c` 1-315, `parse.c` 224-318, `util.c` 86-99 | position in stdin, one character of push-back | read a token; make a constant, quote a string of it | calls nothing; feeds the token interface |
| token interface | `lexer.c` 317-337 | `lexer_buffer`, a list used as a stack | `lexer_next`, `lexer_unget`, `lexer_peek` | every parse function calls it |
| top level | `parse.c` 1512-1572, 1709-1720 | locals of the look-ahead | `parse_run`, `parse_function_definition_check` | decides which parser gets the tokens |
| declaration specifiers | `parse.c` 987-1206 | type, size, signature, storage, user | one per word | calls tag definition and enumeration |
| declarators | `parse.c` 1208-1241, 1451-1493, 1574-1707 | type objects, stubs among them | direct, restage, array fix, declaration | builds on the specifiers' type |
| structures, unions | `parse.c` 610-716 | `ast_structures`, `ast_unions`, type objects | definition, field, squash | recursive through the specifiers |
| initializers | `parse.c` 757-984, `gen_amd64.c` 381-419 | list of stores, type of an open array | list, array, structure, string, zero fill | stores emitted in list order |
| names and scopes | `parse.c`, `ast.c` 26-35, 231-253, `util.c` 225-254 | `ast_localenv` chain, `ast_globalenv`, `ast_locals`, labels, gotos | declare, open, close, look up, back-fill | locals become slots of the frame |
| expressions | `parse.c` 30-582 | none but the tokens and the stack of calls | precedence climbing, lvalues, compound assignments | tokens, scopes; initializers stop it early |
| types of expressions | `ast.c` 37-202, `parse.c` 366-582 | type objects | result type, exchange of operands, refusals | the generator picks registers by the type |
| control flow code | `gen_amd64.c` 24-55, 448-459, 602-732 | six label variables | a case of `gen_expression` per statement | recursion over the tree |
| frames, calls, operators | `gen_amd64.c` 57-129, 259-356, 514-568, 960-1026 | `gen_stack`, offsets; at run time stack and registers | prologue, call, binary | recursion over the tree |
| loads, stores, arithmetic | `gen_amd64.c` 86-356, 421-433, 575-600 | at run time registers, stack, memory | load, save, assignment by kind of left side, pointer arithmetic | the tree of an expression, offsets of fields and locals |
| data section | `gen_amd64.c` 809-958 | image of a global | lay out, emit as `.long`, `.quad`, `.byte` | the list of stores of an initializer |
| containers, allocator | `util.c` | lists, tables, strings, one pool | | used everywhere |
| printing, driver | `ast.c` 499-759, `lice.c` | | | |

What makes each part correct, and what is hard about it, is the list `hazards` of
`PROJECT.json`, each at its line and with the properties that would catch it.

## 2. Modules

```
TokenStream  <-- refined by --  Tokens  <-- MCTokens               TokensProofs
Lexer  <-- Literals  <-- CLexer (what C asks)  <-- MCLexer
Expression  <-- CExpression (what C asks)
DeclSpec, Typing  <-- Declared  <-- MCTyping                       DeclaredProofs
Initializer  <-- DataSection  <-- MCInitializer
Objects  <-- ObjectStore  <-- refined by --  Access  <-- MCAccess
GenControl  <-- ControlFlow (what C asks)                          GenControlProofs
GenCall                                                            GenCallProofs
Scope                                                              ScopeProofs
Layout                                                             LayoutProofs
Declarator                                                         DeclaratorProofs
Arith
DataLemmas, below all the proofs but DeclaredProofs
```

The compiler is one pass with narrow interfaces, so the modules are one per part, and what
a part gets from its neighbours is chosen freely: token kinds, whether a word is a
typedef's name, the sizes of members, the kinds of arguments. Where two parts have to agree on
more than that they are run together: `Tokens` has the lexer's stack and the parser on top
of it, `Literals` the lexer and what the parser and the assembler make of its tokens,
`Declared` the specifiers and the expressions over what they declare, `DataSection` the
parser of initializer lists and the generator's two uses of the list, `Typing` and `Access` the
trees of the parser and the code the generator makes of them.

In every module except the abstract `TokenStream` and `ObjectStore` the variables are the
compiler's own (or, for code it emits, the machine's) plus a few marked *history*, which no
action reads: they say what the source program means, and properties compare the two. A definition whose comment begins with
`Slip:` is not part of the model: it is the definition after it with a plausible
mistake, and replaces it in a check that the property would notice.

**TokenStream** is the promise of `lexer.h`: a cursor in the text. **Tokens** is the
code: `LexerNext`, `LexerUnget` and `LexerPeek` are the three functions, `buffer` is
`lexer_buffer`; `RunStep`, `ScanToken` (one turn of the loop of
`parse_function_definition_check`), `RestoreToken`, `Decide` are `parse_run`. All other parse
functions are reduced to how they move over the tokens: they take one or two, and keep
them or give them back, the last one first (`Take`, `GiveBack`, `Keep`, `Fail`, `Finish`).
A token is its position in the text, so a lost, repeated or reordered one shows.

**Lexer** is `lexer_read_token`, one `getc` a step. The text is not given: each `getc` may deliver
any letter of the source's alphabet, or the end. `mode` is the place in the code that waits for
the character, `pushed` the one of `ungetc`. **Literals** is `parse_number` on the delivered
numbers, with `strtod` as an external definition, and `string_quote` on strings.
**CLexer** cuts the same text by C's rule of the longest token, with a grammar of its own
for numbers and literals, and compares.

**Expression** is `parse_expression_intermediate` and what it calls as a stack of calls over a
token sequence: `RightLimit` is the priority handed to the right operand, `Applied` the tree of a
prefix operator, `Combined` the end of a turn of the loop. `Entry` is the loop over the elements
of a scalar array's initializer, which asks for priority 3. **CExpression** derives the inputs
from C's grammar, each with its tree and with the names of the places where the parser is known
to stray, and compares trees.

**Typing** builds typed trees from the inside: `operands` are the last trees of the expressions in
progress, one action per operator. A tree keeps its type, where its value is loaded from, the
register its code leaves the value in, and as history C's type, whether it may be a null pointer
constant (`null`) and whether it holds none of the named divergences (`known`). Values of
constants are not kept: a constant counts as 0 wherever C then has a type, so `p = 0`, `p == 0`
and `c ? p : 0` are legal (`Null`), and `~c` of a char is an int for C. `Ordered` and `ResultType` are
`ast_result_type`; `LoadedAs` and `Computed` are the moves of `gen_load` and `gen_binary`. Since
nothing else decides about the trees around it, expressions of every size are among finitely
many states. **Declared** lets the words of **DeclSpec** give the type of the first operand.

**Arith** is the code of integer and pointer operators on numbers: `acc` is `rax` with, as
history, C's value and how many low bits of the register are claimed to be it. **Access** runs the
code of whole assignments on a memory of bytes: `AssignStructure`, `AssignDereference`,
`EnsureLva` and the others are the functions of `gen_amd64.c`, `Address` the layout. One of the
variables is that of a compound literal: `init` is its `variable.init`, which `EnsureLva` executes
before the first use and then forgets. The tree of a left side is generated twice in `x += 1` and in
`x++`, and without the forgetting the second time would undo what the first stored. **ObjectStore**
is what C says of the same statement: named objects and one that changes. **Objects** is the
program both execute.

**DataSection** extends `Initializer` by `gen_data_initialization`: `Directives` is the sequence of
bytes the emitted directives stand for.

**GenControl** walks a statement tree that it chooses on the way. `frames` is the C stack of
`gen_expression`; an action is the code before, between or after the recursive calls of one
case. `labelBreak` ... `switchStore` are the six globals, `code` the emitted
instructions. A ternary is an `if` in this code. **ControlFlow** states, from
C's rules, which expression is evaluated after which (`Arrive`, `After`), follows the emitted
instructions (`Follow`), and compares.

**Scope** is the chain of tables with `ast_localenv` as the sentinel it starts out at, NULL, or
the innermost table, and `listed` says whether `ast_locals` is a list: the two guards of
`ast_variable_local` read these variables (`VariableLocal`), and it is the same operator for
parameters, locals and enumerators. A declaration is a number. `scopes` is what C says is visible.
`EndFunction` inserts the function's name, as the code does, only after its body.

**DeclSpec** is the state machine with one action per kind of word. `taken` counts the
words; C's grammar of type specifiers is stated on the counts alone (`CTypes`, `CBase`).

**Declarator** is `parse_declarator_direct` on a heap of type cells: a `(` or a `*` makes a
stub, the rest is parsed, and the stub is overwritten by a *copy* (`Restaged`, `Pointer`). Two
declarators can follow each other, in one declaration or in two, and share a typedef.

**Layout** is `parse_tag_definition` and `parse_memory_fields` on a stack of definitions in
progress. A field keeps, as history, the path of members it was reached by, so `FieldsApart`
can say which fields may share storage.

**Initializer** is the set of mutually recursive functions under `parse_initializer_list` as a
stack of calls. The token stream is chosen as it is read, among those that are C; `meant` is
what C assigns. Its operators are RECURSIVE, so it has no theorems.

**GenCall** runs the emitted code: `machine` is the cells below `rbp`, the integer and the
xmm registers; `gen_stack` is the compiler's counter. Every evaluated expression has a value
of its own, so a wrong operand shows. What a callee and a caller do is external: the ABI.

## 3. Runs

| run | instance | shows | states, time |
|---|---|---|---|
| `tokens` | all sequences of at most 2 out of 7 external declarations, cut at every place | `TypeOK`, `RestoreExact`, `Classified`, refinement of `TokenStream`, `ScanEnds` | 25 k, 3 s |
| `lexer` | every text over ten alphabets, of 3 to 6 characters | `TokensAsInC`, `LiteralsLand`, `Ends` | 326 k, 25 s |
| `expression` | every expression of at most 3 operators over 9 binary and 4 prefix operators, with parentheses, casts, sizeof, calls, suffixes and conditionals; lists of two elements with 2 operators | `MeansC`, `EvaluatedOnce` | 229 k, 35 s |
| `types` | every sequence of words of a type; 11 types of variables, 8 of results, pointers 2 deep; 16 binary operators, 8 compound assignments | `AcceptsC`, `RefusesOthers`, `MeansC`, `TypesAsInC`, `HeldAsTyped`, `OperandsInOrder` | 246 k, 23 s |
| `control` | functions of 6 statements and ends, loops and switches 2 deep, 2 case values, with and without labels of an earlier function | `BreakLeavesInnermost`, `ContinueStaysInLoop`, `ValidAccepted`, `FollowsC` | 125 k, 20 s |
| `scope` | 2 names, 4 declarations, 1 inner block, 2 labels, 2 gotos | `LookupAgrees`, `LocalsHaveSlots`, `GotosResolved` | 1.2 M, 21 s |
| `layout` | 8 words, 3 definitions inside one another, sizes 1 and 12, arrays of 3, alignment 16 | `FieldsApart`, `OneTypePerTag`, `VariablesKept` | 2.3 M, 28 s |
| `declarator` | 5 words, 2 declarators, lengths 2 and 5, a typedef of an array or a function | `MeansC`, `SizesRight`, `StaticAsDeclared` | 1.2 M, 120 s |
| `initializer` | 8 types, 14 tokens, as stores and as data | `ValuesLand`, `LengthTaken`, `DataLands` | 81 k, 19 s |
| `call` | 2 parameters, 2 locals of 1 or 3 cells, calls of 2 arguments, 3 expressions | `VariablesApart`, `OperandsInPlace`, `CallTransparent`, `StatementsBalanced` | 0.6 M, 20 s |
| `arith` | char, int and long of 2, 3 and 5 bits, literals 0 to 2, a pointer to 4 elements of 2 bytes | `BitsRight`, `PositiveExact`, `VariableHolds` | 63 k, 43 s |
| `access` | one statement out of all assignments, steps and compound assignments, also to a compound literal, from every way the pointers can point into the structures | refinement of `ObjectStore` | 42 k, 90 s |

Why the bounds are enough:

* *tokens.* The stack is at its deepest when a whole definition head is given back and the
  parser then looks two tokens ahead; the items include nested parentheses, terminators
  inside them, braces before a parenthesis. The proofs remove the bound for all but
  `ScanEnds`.
* *control.* Two statements inside one another need four items, and each can then hold a
  break, a continue or a case and something after it. Size 12 in `layout` is no power of two
  and 1 forces padding. In `scope` four declarations give shadowing of a global by a
  parameter and by a local together with a prototype. In `call` three expressions give a
  binary operator with a call in its right operand and a call in an argument of a call, two
  arguments give one and two floating registers, where the restore loop differs. In
  `declarator` five words give `*(*x[2])(` and arrays of arrays of pointers.
* *lexer.* The longest decision of the lexer is an escape of three octal digits or a
  punctuator of three characters with one after it; the alphabets together hold a character of
  every kind the code tells apart, and each those that can follow one another in a token.
  `IntBits = 4` puts constants of three digits on both sides of the width of an int.
* *expression.* With three operators there is one on each side of a third, which is what
  priorities and the side they bind to are about, and a conditional inside a conditional. The
  operators are one of each priority that the code or C tells apart.
* *types.* There is no bound on the size of an expression or the number of words; the bounds are
  pointers to pointers (`MaxDepth`), and the types. The types are one of each row of
  `ast_result_type` and of C's conversions.
* *arith.* The widths keep their order and the ratio of long to int stays below two, so all
  wrap-arounds happen; a value passes through any chain of operators, for `Finish` leads back to
  the variable.
* *access.* The code of an assignment starts and ends with an empty stack and keeps nothing
  in registers, so assignments are independent; memory starts with different values everywhere.
  What is kept of a literal, `init`, is set and read again inside one statement (`x += 1`).
* `CONSTRAINT Followed` in `MCArith.cfg` stops after a value of which nothing is claimed any more.
  `CONSTRAINT Valid` in `MCControl.cfg` cuts off functions that C does not allow: nothing is
  claimed of them. `CHECK_DEADLOCK FALSE` is in every configuration since the compiler ends
  by design, with a result, with an error, or at a bound.

What the runs leave out, and say so in the model:

* `FollowsC`: continue in a do loop (`ContinueInDo`), a default before a case (`DefaultNotLast`).
  `MaxNest = 2`: with 3 and `MaxItems = 8` `BreakLeavesInnermost` is violated.
* `LookupAgrees`: the two declarations the compiler loses (`Lost`); it still requires that nothing
  else is found for them.
* `Classified`: a function whose head defines the enumeration or the structure it returns, which
  the look-ahead takes for a declaration at the first `,` or `;` in it (not `Settled`).
* `RefusesOthers`: the one hole of the state machine (`LongLongHole`).
* `MeansC` of `Declarator`: parentheses that hold no suffix (`Grouping = FALSE`, with TRUE it is
  violated). `StaticAsDeclared`: a bare name of a typedef's own type.
* `Redefined = FALSE` in `layout`: a tag defined twice. With TRUE `VariablesKept` is violated.
* `Designated = FALSE` in `initializer`: a designator after an aggregate without braces. `MCTypes`: no
  union of two members. `DataLands`: chars that are not the first of four (`Unwritable`).
* `TokensAsInC`: capital digits of escapes (`CapitalEscape`), numbers with a sign or a point in
  front, strings with a zero byte, two dots (`Strays`). `LiteralsLand`: hexadecimal constants with
  an e, longs that do not fit into an int, the suffix u alone, and constants that only a capital E
  or P tells to be floating (`StrayNumber`); of every other constant of C it requires the type and
  the value, and no refusal. `Ends`: an open comment.
* `MeansC` of `CExpression`: `relation` (the priority of <= and >=), `suffix` (a suffix after a cast
  or a sizeof), `element` (an operator in an element of an initializer), `chain` (an
  assignment on the right of a compound one) and `sizeof` (an operator in its parentheses); the last
  two are refused, which it requires. `EvaluatedOnce`: `twice`, the left side of a compound
  assignment.
* `BitsRight`: a pointer moved by a subtraction or a step (`OnPointer`, `Stepped`).
* `TypesAsInC` and `HeldAsTyped`: trees that are not `known` - a floating variable of the file, the
  address of a dereference, a floating value assigned to an integer, a null pointer constant
  assigned to a pointer (`p = 0` is an int), an operator on longs that yields an int (`Diverges`),
  a conditional whose first branch does not have the type of the whole - and whatever contains such
  a tree. `~c` and narrow arithmetic may keep a type narrower than int (README.md:40-42). Refused
  although C allows them: the difference of two pointers, the assignment of a structure. There is
  no unary plus, which the compiler refuses.
* `ImplementsStore`: a plain assignment whose left side is the first to mention a compound literal
  with an element that is no constant, which overwrites the value to be stored. With it the
  property is violated.

Each that contradicts the documentation is one of the `findings` of `PROJECT.json`.

In three places the code does what C asks and the documentation says that it does not. The
properties ask for what C asks, hold, and the disagreement is a finding: fields that a list does not
name are set to zero (`ValuesLand`, `DataLands`; README.md:56-57); `&&`,
`||` and `!` yield exactly 0 or 1 (`BitsRight`; README.md:38); the address of a structure can be
assigned to a field that points to that structure (`ImplementsStore`; README.md:33-34).

**Fairness.** `Tokens` has weak fairness of `ScanToken` and of `RestoreToken \/ Decide`. Both are
loops of `parse_function_definition_check` that call nothing but the lexer and never wait, so the
program always takes their next turn. Nothing is assumed of the other parse functions, and
`ScanEnds` claims nothing of them. `Lexer` has weak fairness of its `Next`: the parser asks for
tokens until it gets NULL or the compiler exits, and `getc` on a file always returns. A file has a
length (`Sources`); after it, every `getc` returns EOF, and `Ends` asks that each loop sees it.

## 4. Proofs

All are checked by tlapm with Z3, Zenon and LS4. The theorems hold for every value of the
constants that their module's named assumptions allow; what else a theorem assumes is said
with it. So they remove the bounds of the runs: functions, expressions and definitions of any
length, blocks, calls and structures nested to any depth.

**TokensProofs**, from `ProgramsAssumption` and `NoTokenAssumption`:
`TypeCorrect`, `LookaheadRestores` (`RestoreExact`), `TokensImplementStream`
(`ImplementsStream`), and `LookaheadClassifies` (`Classified`) with the hypothesis `Settled`. `RestoreExact` says of the step that answers that the cursor is back at
the mark, and nothing in that step says so: it depends on *which* tokens came back before. The
invariant `IInv` says that the push-back stack holds the tokens just before the reading
position in reverse order (`BufferInOrder`), that the list of the look-ahead holds those from
the mark to the cursor (`ListInOrder`), and that a short look-ahead holds the last ones taken,
with NULL only at the end of the text (`HeldInOrder`). `NextAdvances`, `PeekStays` and
`UngetRetreats` show that on such a stack the three calls are the three actions of
`TokenStream`; each action of the parser is then one of them or a stutter. `Settled` says of the
inputs, not of the loop, that the head of a function definition ends in a brace and that of any
other declaration does not (`EndsHead`: the first terminator, or brace after a `)`, before which as
many parentheses were closed as opened). TLC evaluates it on `MCPrograms`. `AnswerInv` ties the
counter `nests` and the flag `paren` to the tokens since the mark (`HeadGoesOn`), so that the loop
ends where the head does.

**GenControlProofs**, assuming `MaxNest <= 2`: `BreakCorrect`, `ContinueCorrect`
and `ValidIsAccepted` (`ValidAccepted`). `IInv` says that nesting grows along the stack of
calls (`Nested`), that the target in use belongs to the innermost loop or switch and the saved
one to the one around it (`BreakKept`, `ContinueKept`). The hypothesis is not a
convenience: at depth 3 TLC refutes the property. For `ValidAccepted` a second invariant
`LabelInv` says who answers for a label: the labels some statement in progress still *holds*, that
is, has to write before it ends (`Held`), the labels the code has written and those it jumps to are
`Sound` together - nothing is written twice, nothing held is written yet, every target is
one or the other, and all are below `nextLabel`. Each action then gives labels to the holders,
or moves some from held to written (`Gains`, `Moves`, `Passes`). When the function is finished
nobody holds anything, so every target has been written. `Balanced` ties the statements in progress
to the source, for a body C accepts (`Valid`) is described on the source alone.

**DeclaredProofs**. Of the words of a declaration, from no assumption: `EveryOrderAccepted`,
`OnlyHole`, `TypeMeantByC` (`AcceptsC`, `RefusesOthers`, `MeansC`). `IInv` says that, before any
error, the variables hold exactly how often each word occurred (`Counted`) and fit each other.
Qualifiers may repeat without bound. Of expressions, from `TypesAssumption`, about `DeclaredSpec`,
in which the words of a declaration give the type of the first operand: `TypesRight` (`TypesAsInC`),
`ValuesHeld` (`HeldAsTyped`), `OperandsRight` (`OperandsInOrder`). `TypesRight` is about every
expression C has a type for, null pointer constants included, and leaves out what section 3
names: an expression with a tree in it that is not `known`, and the two refusals. `TreesInv` says of a
`known` tree that its type `Serves` for C's, that an lvalue has exactly C's type, and that the value
is in the register of its type (`Sound`); of the others it says only that they are trees. That is
inductive because a tree is known only if all it is made of is. An lvalue needs more than
`Serves`, for its address does not: a pointer to a long does not serve for one to an int. The
declaration enters with `IInv` of its words (`BothInv`).

**ScopeProofs**, from the assumptions of `Scope`: `NamesMeanAsInC`
(`LookupAgrees`), `SlotForEveryVariable` (`LocalsHaveSlots`), `GotosLeadToLabels`
(`GotosResolved`). `NamesInv` pairs the chain of tables with the scopes of C: the same
declarations in the same order, but that the compiler has one table more for each function and
keeps parameters apart from the outermost block (`BlockScopes`), and that the file's scope is spread
over the sentinel, the global table and the function that has not ended (`FileScope`). A
declaration has a number of its own (`Apart`), so that the same name in two tables is never the
same declaration. `SlotsInv` says that `ast_locals` is a list wherever the innermost table is that of a
body, so that a declaration is never inserted without getting a slot. `JumpsInv` says that no label
has a place before the back-fill.

**LayoutProofs**, from the assumptions of `Layout`: `FieldsLieApart` (`FieldsApart`),
`TagMeansOneType` (`OneTypePerTag`), and `VariablesKeepTypes` (`VariablesKept`) with the hypothesis
`Redefined = FALSE`, without which TLC refutes it (section 3). `LayoutInv` says of a definition in
progress what `FieldsApart` says of a finished one (`FrameSound`): its fields lie below its offset and
come from the members there have been so far. A finished structure is never empty
(`TypesSound`), and a variable's type is finished (`VariablesInv`): so the action that fills the fields in, also
when the tag was known before, never meets a type some variable has.

**GenCallProofs**, from `BoundsAssumption`: `OperandsAreInPlace`, `CallsTransparent`,
`BalancedStatements`, `VariablesStayApart`. `IInv` says, cell by cell, what is on
the stack: the variables (`Ground`), then for every call of `gen_expression` in
progress what it has pushed since it began (`Base`), which is where the next one begins (`InTurn`,
`FramesRight`); and that `gen_stack` counts it. Without the contents of the cells an operator
could not be shown to pop its own left operand. The code of one call is four loops over its
arguments; `LoadedAre`, `RestoredAre` and `SavedAre` say what each does to a machine, and rest
on `Places`: two arguments of a kind never share a register.

**DeclaratorProofs**, from `DeclaratorAssumption`: `DeclaratorStaticAsDeclared`
(`StaticAsDeclared`), and, with the hypothesis `Grouping = FALSE`, `DeclaratorMeansC` (`MeansC`) and
`DeclaratorSizesRight` (`SizesRight`). The last two follow the cells of a type by recursion, while
the parser makes them in one order and fills them in in another. They are reduced to *walks*:
`Leads(h, x, d, y)` says that from cell x one comes to cell y and meets the parts d. There are
three invariants, the second and the third on top of the first:

* `Basic`, whatever the parentheses hold. Every walk ends (`Grounded`), so a type never
  contains itself, although a stub is filled in with what was made after it. The stubs of
  the calls in progress are still stubs, each is the basetype of the next call (`CallsOK`), and
  what a call returns leads to its basetype (`Place`). A new cell or a filled one prolongs
  walks and turns none into a circle, since what fills a stub leads to the basetype of its call,
  which was there before.
* `Meant`, with the hypothesis. What the declarator said so far (`derived`) is what one meets on
  the way from the type to the stub that is filled next (`Reading`), also between the suffixes,
  where some of the dimensions have cells and others wait in `lengths` (`Suffixed`); a finished type
  leads to its base with what was derived (`DeclsMeant`). `MeaningSays`, `WalkSays` and
  `WalkSizes` carry this over to the recursive `Meaning` and `SizeOf`, and `FixResizes` shows that
  `parse_array_fix` gives the type the size the walk says. A pair of parentheses without a
  suffix would copy a stub that is not filled yet, and the walk would stop at the copy: TLC shows it
  with `Grouping = TRUE`.
* `StaticInv`, without it. Of every type one knows whether the declarator made it or it is the
  base (`Owned`: `New`, `Fresh`), and two declarators share a type only if both are plain names of
  one base (`Marks`). So the mark of one is never seen by another.

**DataLemmas** has what several of these need: sequences used as stacks (`Popped`,
`Pushed`), least and greatest elements, `BoundedInduction`, and `RoundsExist`, that a recursive
function whose body stays in a set exists and is what its equations say. The library's induction
theorems take an operator as a parameter, which no prover here can instantiate. These two
instead take a *set*, the numbers the claim holds for, and go by its least
counterexample (`LeastNat`). That is induction enough for the loops of `GenCall` and the
lookup of `Scope`, which are recursive functions on numbers, and for `Meaning` and the sizes in
`Declarator`, which go down the cells of a heap by the length of their walks.

Only model-checked:

* `ScanEnds` and `Ends`: liveness under fairness is out of the prover's reach.
* `FollowsC`: it compares two walks of arbitrary length, through the instructions and
  through the source. Both are recursive functions whose steps do not go together one by one, so the
  claim would need an induction over both at once. `BreakCorrect`, `ContinueCorrect` and
  `ValidIsAccepted` prove of the same code where its jumps lead.
* The properties of `Arith`: `And` is a sum over the bits of a word, and remainders by powers of two
  with a variable exponent are beyond the SMT solver.
* The properties of the modules with RECURSIVE operators, or on top of them: `Initializer`,
  `DataSection`, `CExpression`, `CLexer`, `Objects`, `ObjectStore`, `Access`. What C says of a
  text, an expression or a list of initializers is defined by recursion over it.

## 5. Not modelled

* The driver, and the printing of types and trees: sequencing and formatting. `compile_error`
  exits the process; in the models it is a state with no step out of it.
* The allocator. It hands out one fixed pool and does not look at its end; nothing in the
  compiler depends on what happens there.
* `parse_evaluate` (`parse.c` 68-99), which folds constant expressions.
* Parameter lists inside declarators, abstract declarators, the table of typedefs, which has no
  scopes (documented in the repository's README.md:71-72).
* The numbers floating code computes, the values of floating constants, the alignment of the stack
  at calls (README.md:18-21 says it is not fully correct), the address of fields and elements.
* Types of fields, of arguments and of returned values, which are converted by what assigns them.

## 6. Plan

Done, in the order of importance: tokens and look-ahead; control flow; scopes; specifiers; layout;
frames and calls; declarators; initializers; lexer and literals; expressions; their types;
arithmetic; loads and stores; data.

Left to model: `parse_evaluate` with the lengths and case values it gives; `Declarator` with
parameters; typedefs in `Scope`; the jumps and labels of goto in `GenControl`.

Left to prove: that a token of `Lexer` has the characters between two positions, below
`TokensAsInC`; `VariableHolds` of `Arith` for all widths, from lemmas about `Wrap` that take 2^w as a
number. Both need the definitions with RECURSIVE operators or powers of two in forms of
their own, apart from the modules the runs use.
