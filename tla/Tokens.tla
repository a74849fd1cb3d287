------------------------------- MODULE Tokens -------------------------------
(***************************************************************************)
(* The token interface of lexer.c and the part of parse.c that moves over  *)
(* it: parse_run, the unbounded look-ahead of                              *)
(* parse_function_definition_check, and the short look-aheads of every     *)
(* other parse function.  A token is its position in the text.             *)
(***************************************************************************)
EXTENDS Naturals, Sequences, FiniteSets

CONSTANTS
  Programs,           \* the inputs: the text as a sequence of token kinds, the
                      \* positions where an external declaration ends and those
                      \* where a function definition starts
  NoToken             \* NULL

Kind == {"{", "(", ")", ";", ",", "=", "other"}

ASSUME ProgramsAssumption ==
  \A p \in Programs : /\ p.text \in Seq(Kind)
                      /\ p.ends \subseteq Nat
                      /\ p.functions \subseteq Nat

ASSUME NoTokenAssumption == NoToken \notin Nat

VARIABLES
  program,            \* the input, never changes
  read,               \* tokens lexer_read_token has delivered
  buffer,             \* lexer_buffer, the push-back stack; its top is the last
  result,             \* what the last lexer call returned or was handed
  pc,                 \* where the parser is
  list, nests, paren, ready,     \* locals of parse_function_definition_check
  mark,               \* history: the cursor when the current item was begun
  held                \* tokens taken in a look-ahead that is not yet decided

lexer == <<read, buffer, result>>
scan  == <<list, nests, paren, ready>>
vars  == <<program, read, buffer, result, pc, list, nests, paren, ready, mark, held>>

text   == program.text
cursor == read - Len(buffer)           \* tokens the parser has consumed

IsPunct(t, c) == t # NoToken /\ text[t] = c

Top(stack) == stack[Len(stack)]
Pop(stack) == SubSeq(stack, 1, Len(stack) - 1)

-----------------------------------------------------------------------------
(* The lexer's three calls.                                                *)

AtEnd == buffer = << >> /\ read = Len(text)

Upcoming ==
  IF buffer # << >> THEN Top(buffer) ELSE IF AtEnd THEN NoToken ELSE read + 1

LexerNext ==
  /\ result' = Upcoming
  /\ IF buffer # << >>
       THEN buffer' = Pop(buffer) /\ UNCHANGED read
       ELSE read' = (IF AtEnd THEN read ELSE read + 1) /\ UNCHANGED buffer

\* Slip: NULL is pushed back as if it were a token.
LexerUngetNull(t) ==
  /\ buffer' = Append(buffer, t)
  /\ result' = t
  /\ UNCHANGED read

LexerUnget(t) ==
  /\ buffer' = IF t = NoToken THEN buffer ELSE Append(buffer, t)
  /\ result' = t
  /\ UNCHANGED read

LexerPeek ==
  /\ result' = Upcoming
  /\ IF buffer = << >> /\ ~AtEnd
       THEN buffer' = <<read + 1>> /\ read' = read + 1
       ELSE UNCHANGED <<buffer, read>>

-----------------------------------------------------------------------------
Init ==
  /\ program \in Programs
  /\ read = 0 /\ buffer = << >> /\ result = NoToken
  /\ pc = "top"
  /\ list = << >> /\ nests = 0 /\ paren = FALSE /\ ready = TRUE
  /\ mark = 0 /\ held = << >>

\* parse_run: peek, return at the end of the input, else look ahead.
RunStep ==
  /\ pc = "top"
  /\ LexerPeek
  /\ pc' = IF Upcoming = NoToken THEN "done" ELSE "scan"
  /\ mark' = cursor
  /\ list' = << >> /\ nests' = 0 /\ paren' = FALSE /\ ready' = TRUE
  /\ UNCHANGED <<program, held>>

\* Slip: a terminator counts inside parentheses too.
TerminatesAnywhere(t) == \E c \in {";", ",", "="} : IsPunct(t, c)

\* One turn of the loop of parse_function_definition_check.  The NULL it pushes
\* on its list before it reports the end of the input is left out of list.
Opens(t)      == nests = 0 /\ paren /\ IsPunct(t, "{")
Terminates(t) == nests = 0 /\ \E c \in {";", ",", "="} : IsPunct(t, c)
Unmatched(t)  == nests = 0 /\ IsPunct(t, ")")

\* Slip: no check for the end of the input.
ScanFailsOnlyUnmatched(t) ==
  t # NoToken /\ ~Opens(t) /\ ~Terminates(t) /\ Unmatched(t)

ScanFails(t)  == t = NoToken \/ (~Opens(t) /\ ~Terminates(t) /\ Unmatched(t))

ScanNext(t) ==
  IF ScanFails(t) THEN "error"
  ELSE IF Opens(t) \/ Terminates(t) THEN "restore" ELSE "scan"

ScanToken ==
  /\ pc = "scan"
  /\ LexerNext
  /\ LET t == Upcoming IN
       /\ list' = IF t = NoToken THEN list ELSE Append(list, t)
       /\ pc' = ScanNext(t)
       /\ ready' = (ready /\ (Opens(t) \/ ~Terminates(t)))
       /\ nests' = IF pc' = "scan" /\ IsPunct(t, "(") THEN nests + 1
                   ELSE IF pc' = "scan" /\ IsPunct(t, ")") THEN nests - 1 ELSE nests
       /\ paren' = (paren \/ (pc' = "scan" /\ IsPunct(t, ")")))
  /\ UNCHANGED <<program, mark, held>>

\* Slip: the loop stops one token early.
RestoredButOne == Len(list) <= 1

\* while (list_length(buffer) > 0) lexer_unget(list_pop(buffer))
Restored == list = << >>

\* Slip: given back in the order they were read.
RestoreTokenInReadingOrder ==
  /\ pc = "restore"
  /\ ~Restored
  /\ LexerUnget(list[1])
  /\ list' = SubSeq(list, 2, Len(list))
  /\ UNCHANGED <<program, pc, nests, paren, ready, mark, held>>

RestoreToken ==
  /\ pc = "restore"
  /\ ~Restored
  /\ LexerUnget(Top(list))
  /\ list' = Pop(list)
  /\ UNCHANGED <<program, pc, nests, paren, ready, mark, held>>

\* parse_run acts on the answer.
Decide ==
  /\ pc = "restore"
  /\ Restored
  /\ pc' = IF ready THEN "definition" ELSE "declaration"
  /\ UNCHANGED <<program, lexer, scan, mark, held>>

-----------------------------------------------------------------------------
(* parse_function_definition_intermediate and parse_declaration, reduced   *)
(* to how they move over the tokens of their item: take a token, perhaps   *)
(* a second one (parse_function_parameters, parse_statement), and keep     *)
(* them or give them back, the last one first.                             *)

Parsing == pc \in {"definition", "declaration"}

Take ==
  /\ Parsing
  /\ Len(held) < 2
  /\ cursor = mark \/ cursor \notin program.ends
  /\ LexerNext
  /\ held' = Append(held, Upcoming)
  /\ UNCHANGED <<program, pc, scan, mark>>

GiveBack ==
  /\ Parsing
  /\ held # << >>
  /\ LexerUnget(Top(held))
  /\ held' = Pop(held)
  /\ UNCHANGED <<program, pc, scan, mark>>

Keep ==
  /\ Parsing
  /\ held # << >>
  /\ Top(held) # NoToken
  /\ held' = << >>
  /\ UNCHANGED <<program, lexer, pc, scan, mark>>

\* compile_error, or the end of the item.
Fail ==
  /\ Parsing
  /\ held # << >>
  /\ Top(held) = NoToken
  /\ pc' = "error"
  /\ UNCHANGED <<program, lexer, scan, mark, held>>

Finish ==
  /\ Parsing
  /\ held = << >>
  /\ cursor # mark /\ cursor \in program.ends
  /\ pc' = "top"
  /\ UNCHANGED <<program, lexer, scan, mark, held>>

Next ==
  \/ RunStep \/ ScanToken \/ RestoreToken \/ Decide
  \/ Take \/ GiveBack \/ Keep \/ Fail \/ Finish

\* The look-ahead is a loop with no way out but its own: it is always run on.
Spec == Init /\ [][Next]_vars /\ WF_vars(ScanToken) /\ WF_vars(RestoreToken \/ Decide)

-----------------------------------------------------------------------------
TypeOK ==
  /\ text \in Seq(Kind)
  /\ read \in 0..Len(text)
  /\ buffer \in Seq(Nat)
  /\ result \in Nat \cup {NoToken}
  /\ pc \in {"top", "scan", "restore", "definition", "declaration", "done", "error"}
  /\ list \in Seq(Nat)
  /\ nests \in Nat
  /\ paren \in BOOLEAN
  /\ ready \in BOOLEAN
  /\ mark \in Nat
  /\ held \in Seq(Nat \cup {NoToken})

\* The look-ahead may swallow a whole declaration, and the parser that then
\* starts must still see its first token: when parse_function_definition_check
\* answers, every token it took is back and none is there twice.
Answers == pc = "restore" /\ pc' # "restore"
RestoreExact == [][Answers => cursor = mark /\ cursor' = mark]_vars

\* Where the head of a declaration that begins after position m ends in the text s: at
\* the first initializer, comma or terminator, or brace after some ')', that no
\* parentheses enclose.
Count(s, m, k, c) == Cardinality({i \in (m + 1)..k : s[i] = c})

Decides(s, m, k) ==
  /\ Count(s, m, k - 1, "(") = Count(s, m, k - 1, ")")
  /\ \/ s[k] \in {";", ",", "="}
     \/ s[k] = "{" /\ \E i \in (m + 1)..(k - 1) : s[i] = ")"

EndsHead(s, m, k) == Decides(s, m, k) /\ \A j \in (m + 1)..(k - 1) : ~Decides(s, m, j)

\* The inputs in which that is a brace for function definitions and for nothing else.
\* A function whose head defines the enumeration or structure it returns is not among them.
Settled ==
  \A p \in Programs : \A m \in p.ends \cup {0} : \A k \in (m + 1)..Len(p.text) :
    EndsHead(p.text, m, k) => (p.text[k] = "{" <=> m + 1 \in p.functions)

\* The answer is right: an item is parsed as a function definition exactly when
\* it is one, for the declarations in Programs.
Classified ==
  /\ pc = "definition"  => mark + 1 \in program.functions
  /\ pc = "declaration" => mark + 1 \notin program.functions

\* The three calls and the push-back stack behind them are one stream of tokens
\* in the order of the text: nothing lost, repeated or reordered, whatever mix of
\* looking ahead and giving back the parser uses.
Stream == INSTANCE TokenStream WITH length <- Len(text), cursor <- cursor,
                                    result <- result, NoToken <- NoToken
ImplementsStream == Stream!Spec

\* The look-ahead ends on every input, the truncated ones included.
ScanEnds == pc = "scan" ~> pc \in {"definition", "declaration", "error"}
=============================================================================
