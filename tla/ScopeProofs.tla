---------------------------- MODULE ScopeProofs -----------------------------
(***************************************************************************)
(* Names, for programs of any length and blocks of any depth: the tables   *)
(* the compiler keeps and the scopes of C hold the same declarations, one  *)
(* table for each scope but for the two that make up a function's.         *)
(***************************************************************************)
EXTENDS Scope, DataLemmas

EntryType == [name : Names, kind : {"variable", "prototype", "enumerator", "function"},
              id : Nat \ {0}]
TableType == Seq(EntryType)
JumpType  == [name : LabelNames, where : Nat]

In(e, list) == \E i \in 1..Len(list) : list[i] = e

TypeInv ==
  /\ globalenv \in TableType /\ sentinel \in TableType
  /\ chain \in Seq(TableType) /\ scopes \in Seq(TableType)
  /\ localenv \in {"sentinel", "null", "chain"}
  /\ parameters \in Seq(Nat) /\ locals \in Seq(Nat) /\ listed \in BOOLEAN
  /\ function \in EntryType \cup {None}
  /\ nextId \in Nat \ {0}

\* A declaration stands in one scope, a name once in each, and the next one is new.
Apart(ss, next) ==
  /\ \A k, l \in 1..Len(ss) : \A i \in 1..Len(ss[k]), j \in 1..Len(ss[l]) :
       ss[k][i].id = ss[l][j].id => k = l /\ i = j
  /\ \A k \in 1..Len(ss) : \A i, j \in 1..Len(ss[k]) :
       ss[k][i].name = ss[k][j].name => i = j
  /\ \A k \in 1..Len(ss) : \A i \in 1..Len(ss[k]) : ss[k][i].id < next

\* What is declared at file scope is in one of three places, and never in both of the first two.
FileScope ==
  /\ Len(scopes) >= 1
  /\ \A e \in EntryType : In(e, scopes[1]) <=> In(e, sentinel) \/ In(e, globalenv) \/ e = function
  /\ \A e \in EntryType : In(e, sentinel) => ~In(e, globalenv) /\ e # function

\* parse_function_definition pushes a table that C knows nothing of, and the parameters are in
\* another one than the locals of the outermost block.
BlockScopes ==
  CASE pc = "file"       -> /\ Len(scopes) = 1 /\ function = None
                            /\ localenv \in {"sentinel", "null"}
    [] pc = "parameters" -> /\ Len(scopes) = 2 /\ Len(chain) = 1 /\ scopes[2] = chain[1]
                            /\ function # None /\ localenv = "chain"
    [] pc = "body"       -> /\ Len(chain) >= 3 /\ Len(scopes) = Len(chain) - 1
                            /\ \A e \in EntryType : In(e, scopes[2]) <=> In(e, chain[1]) \/ In(e, chain[3])
                            /\ chain[2] = << >>
                            /\ \A k \in 3..Len(scopes) : scopes[k] = chain[k + 1]
                            /\ function # None /\ localenv = "chain"

SlotsInv ==
  /\ pc \in {"file", "parameters"} => locals = << >> /\ ~listed
  /\ pc = "body" => listed
  /\ pc \in {"parameters", "body"} =>
       \A k \in 1..Len(chain) : \A e \in EntryType :
         In(e, chain[k]) /\ e.kind = "variable" => In(e.id, parameters) \/ In(e.id, locals)

NamesInv ==
  /\ TypeInv
  /\ pc \in {"file", "parameters", "body", "error"}
  /\ pc # "error" =>
       Apart(scopes, nextId) /\ FileScope /\ BlockScopes /\ SlotsInv

\* While a function is read none of its labels has an assembler label, and no two are the same.
JumpsInv ==
  /\ labels \in Seq(JumpType) /\ gotos \in Seq(JumpType)
  /\ nextLabel \in Nat \ {0}
  /\ pc \in {"parameters", "body"} =>
       /\ \A d \in 1..Len(labels) : labels[d].where = 0
       /\ \A i \in 1..Len(gotos) : gotos[i].where = 0
       /\ \A c, d \in 1..Len(labels) : labels[c].name = labels[d].name => c = d
  /\ GotosResolved

-----------------------------------------------------------------------------
(* What the helpers do.                                                    *)

\* A declaration is never the answer that there is none.
LEMMA EntryIsSome == \A e \in EntryType : e # None /\ e.id # 0
  BY DEF EntryType, None

\* table_find in one table: nothing stands there under that name, or the first that does.
LEMMA InTableIs ==
  ASSUME NEW L \in TableType, NEW n
  PROVE  \/ InTable(L, n) = None /\ \A i \in 1..Len(L) : L[i].name # n
         \/ /\ InTable(L, n) \in EntryType /\ InTable(L, n) # None
            /\ InTable(L, n).name = n /\ In(InTable(L, n), L)
<1> DEFINE places == {i \in 1..Len(L) : L[i].name = n}
<1>1. CASE places = {}
  BY <1>1 DEF InTable
<1>2. CASE places # {}
  <2>1. Len(L) \in Nat /\ \A i \in 1..Len(L) : L[i] \in EntryType
    BY LenProperties DEF TableType
  <2>2. places \in SUBSET Nat
    OBVIOUS
  <2> DEFINE first == CHOOSE i \in places : \A j \in places : i <= j
  <2>3. first \in places
    <3> HIDE DEF places
    <3> QED
      BY <1>2, <2>2, LeastNat
  <2>4. InTable(L, n) = L[first]
    BY <1>2 DEF InTable
  <2> HIDE DEF first
  <2>5. first \in 1..Len(L) /\ L[first].name = n
    BY <2>3
  <2> QED
    BY <2>1, <2>4, <2>5, EntryIsSome DEF In
<1> QED
  BY <1>1, <1>2

\* table_find along a chain of tables: the innermost that has the name decides.
LEMMA FromInsideIs ==
  ASSUME NEW ts \in Seq(TableType), NEW n,
         NEW k \in 1..Len(ts),
         \A j \in 1..Len(ts) : j > k => InTable(ts[j], n) = None,
         k = 1 \/ InTable(ts[k], n) # None
  PROVE  FromInside(ts, n) = InTable(ts[k], n)
<1> DEFINE with == {i \in 1..Len(ts) : InTable(ts[i], n) # None}
<1>0. Len(ts) \in Nat
  BY LenProperties
<1>1. CASE with = {}
  BY <1>1 DEF FromInside
<1>2. CASE with # {}
  <2> DEFINE last == CHOOSE i \in with : \A j \in with : j <= i
  <2>1. with \in SUBSET (0..Len(ts))
    BY <1>0
  <2>2. last \in with /\ \A j \in with : j <= last
    <3> HIDE DEF with
    <3> QED
      BY <1>0, <1>2, <2>1, GreatestNat
  <2>3. FromInside(ts, n) = InTable(ts[last], n)
    BY <1>2 DEF FromInside
  <2> HIDE DEF last
  <2>4. last = k
    BY <1>0, <2>2
  <2> QED
    BY <2>3, <2>4
<1> QED
  BY <1>1, <1>2

\* A new entry is last in its table.
LEMMA Inserted ==
  ASSUME NEW L \in TableType, NEW e \in EntryType
  PROVE  /\ Insert(L, e) \in TableType
         /\ \A x : In(x, Insert(L, e)) <=> In(x, L) \/ x = e
<1>1. Len(L) \in Nat /\ Append(L, e) \in Seq(EntryType) /\ Len(Append(L, e)) = Len(L) + 1
      /\ Append(L, e)[Len(L) + 1] = e /\ \A i \in 1..Len(L) : Append(L, e)[i] = L[i]
  BY AppendProperties, LenProperties DEF TableType
<1>2. \A i \in 1..(Len(L) + 1) : i \in 1..Len(L) \/ i = Len(L) + 1
  BY <1>1
<1>3. Len(L) + 1 \in 1..(Len(L) + 1) /\ 1..Len(L) \subseteq 1..(Len(L) + 1)
  BY <1>1
<1> QED
  BY <1>1, <1>2, <1>3 DEF Insert, In, TableType

\* A new entry of the innermost table is in no other.
LEMMA InsertedTop ==
  ASSUME NEW ts \in Seq(TableType), Len(ts) >= 1, NEW e \in EntryType
  PROVE  /\ InTop(ts, e) \in Seq(TableType) /\ Len(InTop(ts, e)) = Len(ts)
         /\ InTop(ts, e)[Len(ts)] = Insert(ts[Len(ts)], e)
         /\ \A k \in 1..Len(ts) : k # Len(ts) => InTop(ts, e)[k] = ts[k]
<1>1. Len(ts) \in Nat /\ Len(ts) \in 1..Len(ts) /\ ts[Len(ts)] \in TableType
  BY LenProperties
<1>2. Insert(ts[Len(ts)], e) \in TableType
  BY <1>1, Inserted
<1>3. InTop(ts, e) = [ts EXCEPT ![Len(ts)] = Insert(ts[Len(ts)], e)]
  BY DEF InTop
<1> HIDE DEF InTop, Insert, TableType
<1> QED
  BY <1>1, <1>2, <1>3, ExceptSeq

\* Scopes that hold nothing else are as far apart.
LEMMA PartApart ==
  ASSUME NEW ss, NEW next, Apart(ss, next), NEW tt,
         \A k \in 1..Len(tt) : tt[k] = << >> \/ (k \in 1..Len(ss) /\ tt[k] = ss[k])
  PROVE  Apart(tt, next)
<1>1. \A k \in 1..Len(tt) : \A i \in 1..Len(tt[k]) : k \in 1..Len(ss) /\ tt[k] = ss[k]
  <2>1. 1..Len(<< >>) = {}
    BY EmptySeq
  <2> QED
    BY <2>1, Zenon
<1>2. \A k \in 1..Len(tt) : \A i \in 1..Len(tt[k]) : tt[k][i].id < next
  BY <1>1 DEF Apart
<1>3. \A k, l \in 1..Len(tt) : \A i \in 1..Len(tt[k]), j \in 1..Len(tt[l]) :
        tt[k][i].id = tt[l][j].id => k = l /\ i = j
  BY <1>1 DEF Apart
<1>4. \A k \in 1..Len(tt) : \A i, j \in 1..Len(tt[k]) : tt[k][i].name = tt[k][j].name => i = j
  BY <1>1 DEF Apart
<1> QED
  BY <1>2, <1>3, <1>4 DEF Apart

\* An empty table on top.
LEMMA PushedTable ==
  ASSUME NEW ss \in Seq(TableType)
  PROVE  /\ Push(ss) \in Seq(TableType) /\ Len(ss) \in Nat /\ Len(Push(ss)) = Len(ss) + 1
         /\ Push(ss)[Len(ss) + 1] = << >> /\ \A k \in 1..Len(ss) : Push(ss)[k] = ss[k]
<1>1. << >> \in TableType /\ Len(ss) \in Nat
  BY EmptySeq, LenProperties DEF TableType
<1> QED
  BY <1>1, AppendProperties DEF Push

\* It declares nothing.
LEMMA PushedApart ==
  ASSUME NEW ss \in Seq(TableType), NEW next, Apart(ss, next)
  PROVE  Apart(Push(ss), next)
<1>1. \A k \in 1..Len(Push(ss)) :
        Push(ss)[k] = << >> \/ (k \in 1..Len(ss) /\ Push(ss)[k] = ss[k])
  BY PushedTable
<1> QED
  BY <1>1, PartApart

\* Leaving a block forgets its declarations only.
LEMMA PoppedApart ==
  ASSUME NEW ss \in Seq(TableType), NEW next, Apart(ss, next), Len(ss) >= 1
  PROVE  /\ Pop(ss) \in Seq(TableType) /\ Len(Pop(ss)) = Len(ss) - 1
         /\ \A k \in 1..(Len(ss) - 1) : Pop(ss)[k] = ss[k]
         /\ Apart(Pop(ss), next)
<1>1. Len(ss) \in Nat /\ ss # << >>
  BY LenProperties
<1>2. /\ Pop(ss) \in Seq(TableType) /\ Len(Pop(ss)) = Len(ss) - 1
      /\ \A k \in 1..(Len(ss) - 1) : Pop(ss)[k] = ss[k]
  <2>1. PICK p : p = SubSeq(ss, 1, Len(ss) - 1)
    OBVIOUS
  <2>2. p \in Seq(TableType) /\ Len(p) = Len(ss) - 1 /\ \A k \in 1..(Len(ss) - 1) : p[k] = ss[k]
    BY <1>1, <2>1, Popped
  <2>3. Pop(ss) = p
    BY <2>1 DEF Pop
  <2> QED
    BY <2>2, <2>3
<1>3. \A k \in 1..Len(Pop(ss)) : k \in 1..Len(ss) /\ Pop(ss)[k] = ss[k]
  BY <1>1, <1>2
<1> HIDE DEF Pop
<1> QED
  BY <1>2, <1>3, PartApart

\* A new declaration of a name its scope does not have keeps all of them apart.
LEMMA DeclaredApart ==
  ASSUME NEW ss \in Seq(TableType), Len(ss) >= 1, NEW e \in EntryType, Apart(ss, e.id),
         InTable(ss[Len(ss)], e.name) = None
  PROVE  Apart(InTop(ss, e), e.id + 1)
<1> DEFINE top == Len(ss)
           tt  == InTop(ss, e)
<1>1. top \in Nat /\ top \in 1..top /\ ss[top] \in TableType /\ e.id \in Nat
      /\ \A k \in 1..top : ss[k] \in TableType
  BY LenProperties DEF EntryType
<1>2. /\ tt \in Seq(TableType) /\ Len(tt) = top
      /\ tt[top] = Append(ss[top], e)
      /\ \A k \in 1..top : k # top => tt[k] = ss[k]
  BY InsertedTop DEF Insert
<1> DEFINE last == Len(ss[top]) + 1
<1>3. /\ Len(ss[top]) \in Nat /\ Len(tt[top]) = last /\ tt[top][last] = e
      /\ \A i \in 1..Len(ss[top]) : tt[top][i] = ss[top][i]
      /\ \A i \in 1..last : i \in 1..Len(ss[top]) \/ i = last
  BY <1>1, <1>2, AppendProperties, LenProperties DEF TableType
<1>4. \A i \in 1..Len(ss[top]) : ss[top][i].name # e.name
  BY <1>1, InTableIs, EntryIsSome
\* Every declaration is an old one at its old place, or the new one at the last place.
<1>5. \A k \in 1..top : \A i \in 1..Len(tt[k]) :
        \/ i \in 1..Len(ss[k]) /\ tt[k][i] = ss[k][i]
        \/ k = top /\ i = last /\ tt[k][i] = e
  BY <1>1, <1>2, <1>3
<1>6. \A k \in 1..top : \A i \in 1..Len(ss[k]) : ss[k][i].id < e.id /\ ss[k][i].id \in Nat
  <2>1. \A k \in 1..top : \A i \in 1..Len(ss[k]) : ss[k][i] \in EntryType
    BY <1>1, LenProperties DEF TableType
  <2> QED
    BY <2>1 DEF Apart, EntryType
<1> HIDE DEF tt, last
<1>7. \A k, l \in 1..top : \A i \in 1..Len(tt[k]), j \in 1..Len(tt[l]) :
        tt[k][i].id = tt[l][j].id => k = l /\ i = j
  <2> SUFFICES ASSUME NEW k \in 1..top, NEW l \in 1..top,
                      NEW i \in 1..Len(tt[k]), NEW j \in 1..Len(tt[l]), tt[k][i].id = tt[l][j].id
               PROVE  k = l /\ i = j
    OBVIOUS
  <2>1. CASE i \in 1..Len(ss[k]) /\ tt[k][i] = ss[k][i]
    <3>1. CASE j \in 1..Len(ss[l]) /\ tt[l][j] = ss[l][j]
      BY <2>1, <3>1 DEF Apart
    <3>2. CASE tt[l][j] = e
      BY <1>1, <1>6, <2>1, <3>2
    <3> QED
      BY <1>5, <3>1, <3>2
  <2>2. CASE k = top /\ i = last /\ tt[k][i] = e
    <3>1. CASE j \in 1..Len(ss[l]) /\ tt[l][j] = ss[l][j]
      BY <1>1, <1>6, <2>2, <3>1
    <3>2. CASE l = top /\ j = last
      BY <2>2, <3>2
    <3> QED
      BY <1>5, <3>1, <3>2
  <2> QED
    BY <1>5, <2>1, <2>2
<1>8. \A k \in 1..top : \A i, j \in 1..Len(tt[k]) : tt[k][i].name = tt[k][j].name => i = j
  <2> SUFFICES ASSUME NEW k \in 1..top, NEW i \in 1..Len(tt[k]), NEW j \in 1..Len(tt[k]),
                      tt[k][i].name = tt[k][j].name
               PROVE  i = j
    OBVIOUS
  <2>1. CASE i \in 1..Len(ss[k]) /\ j \in 1..Len(ss[k]) /\ tt[k][i] = ss[k][i] /\ tt[k][j] = ss[k][j]
    BY <2>1 DEF Apart
  <2>2. CASE k = top /\ i = last /\ tt[k][i] = e
    BY <1>4, <1>5, <2>2
  <2>3. CASE k = top /\ j = last /\ tt[k][j] = e
    BY <1>4, <1>5, <2>3
  <2> QED
    BY <1>5, <2>1, <2>2, <2>3
<1>9. \A k \in 1..top : \A i \in 1..Len(tt[k]) : tt[k][i].id < e.id + 1
  <2> SUFFICES ASSUME NEW k \in 1..top, NEW i \in 1..Len(tt[k]) PROVE tt[k][i].id < e.id + 1
    OBVIOUS
  <2>1. CASE i \in 1..Len(ss[k]) /\ tt[k][i] = ss[k][i]
    BY <1>1, <1>6, <2>1
  <2>2. CASE tt[k][i] = e
    BY <1>1, <2>2
  <2> QED
    BY <1>5, <2>1, <2>2
<1> QED
  BY <1>2, <1>7, <1>8, <1>9 DEF Apart, tt

\* Two of a scope with one name, or two anywhere with one number, are one.
LEMMA SameEntry ==
  ASSUME NEW ss, NEW next, Apart(ss, next), NEW k \in 1..Len(ss), NEW l \in 1..Len(ss),
         NEW e, NEW f, In(e, ss[k]), In(f, ss[l])
  PROVE  /\ e.id = f.id => k = l /\ e = f
         /\ k = l /\ e.name = f.name => e = f
         /\ e.id < next
  BY DEF Apart, In

-----------------------------------------------------------------------------
(* The tables and the scopes of C hold the same, step by step.             *)

\* With nothing declared the invariant holds.
LEMMA NamesInit == Init => NamesInv
<1> SUFFICES ASSUME Init PROVE NamesInv
  OBVIOUS
<1>1. << >> \in TableType /\ << >> \in Seq(TableType) /\ << << >> >> \in Seq(TableType)
      /\ << >> \in Seq(Nat)
  BY EmptySeq DEF TableType
<1>2. Len(scopes) = 1 /\ scopes[1] = << >> /\ Len(chain) = 0 /\ \A e : ~In(e, << >>)
  BY DEF Init, In
<1>3. TypeInv
  <2>1. listed \in BOOLEAN
    BY DEF Init
  <2> QED
    BY <1>1, <2>1 DEF Init, TypeInv
<1>4. Apart(scopes, nextId)
  BY <1>2 DEF Apart
<1>5. FileScope
  BY <1>2, EntryIsSome DEF Init, FileScope
<1>6. BlockScopes /\ SlotsInv
  BY <1>2 DEF Init, BlockScopes, SlotsInv
<1> QED
  BY <1>3, <1>4, <1>5, <1>6 DEF Init, NamesInv

\* What a declaration in the innermost scope does to the scopes, whichever table it goes in.
LEMMA DeclaredStep ==
  ASSUME NamesInv, pc # "error", NEW n \in Names,
         NEW k \in {"variable", "prototype", "enumerator", "function"},
         New(n), Declared(Entry(n, k))
  PROVE  LET e == Entry(n, k) IN
         /\ e \in EntryType /\ e.id = nextId /\ e.kind = k /\ e # None
         /\ scopes' \in Seq(TableType) /\ Len(scopes') = Len(scopes) /\ Len(scopes) \in Nat
         /\ Len(scopes) >= 1
         /\ scopes'[Len(scopes)] = Insert(scopes[Len(scopes)], e)
         /\ \A x : In(x, scopes'[Len(scopes)]) <=> In(x, scopes[Len(scopes)]) \/ x = e
         /\ \A l \in 1..Len(scopes) : l # Len(scopes) => scopes'[l] = scopes[l]
         /\ Apart(scopes', nextId') /\ nextId' \in Nat \ {0}
         /\ \A l \in 1..Len(scopes) : ~In(e, scopes[l])
<1> DEFINE e == Entry(n, k)
<1>1. /\ scopes \in Seq(TableType) /\ nextId \in Nat \ {0} /\ Apart(scopes, nextId) /\ Len(scopes) >= 1
  BY DEF NamesInv, TypeInv, FileScope
<1>2. e \in EntryType /\ e.id = nextId /\ e.kind = k /\ e.name = n /\ e # None
  BY <1>1, EntryIsSome DEF Entry, EntryType
<1>3. scopes' = InTop(scopes, e) /\ nextId' = nextId + 1
  BY DEF Declared
<1>4. Len(scopes) \in Nat /\ Len(scopes) \in 1..Len(scopes) /\ scopes[Len(scopes)] \in TableType
  BY <1>1, LenProperties
<1>5. InTable(scopes[Len(scopes)], e.name) = None
  BY <1>2 DEF New
<1> HIDE DEF e
<1>6. Apart(scopes', nextId')
  BY <1>1, <1>2, <1>3, <1>5, DeclaredApart
<1>7. /\ scopes' \in Seq(TableType) /\ Len(scopes') = Len(scopes)
      /\ scopes'[Len(scopes)] = Insert(scopes[Len(scopes)], e)
      /\ \A l \in 1..Len(scopes) : l # Len(scopes) => scopes'[l] = scopes[l]
  BY <1>1, <1>2, <1>3, InsertedTop
<1>8. \A x : In(x, scopes'[Len(scopes)]) <=> In(x, scopes[Len(scopes)]) \/ x = e
  BY <1>2, <1>4, <1>7, Inserted
<1>9. \A l \in 1..Len(scopes) : ~In(e, scopes[l])
  <2> SUFFICES ASSUME NEW l \in 1..Len(scopes), In(e, scopes[l]) PROVE FALSE
    OBVIOUS
  <2>1. e.id < nextId
    BY <1>1, SameEntry
  <2> QED
    BY <1>1, <1>2, <2>1
<1> QED
  BY <1>1, <1>2, <1>3, <1>4, <1>6, <1>7, <1>8, <1>9 DEF e

\* A declaration outside functions.
LEMMA GlobalStep ==
  ASSUME NamesInv, NEW n \in Names, NEW k \in {"variable", "prototype"}, Global(n, k)
  PROVE  NamesInv'
<1> DEFINE e == Entry(n, k)
<1>0. /\ pc = "file" /\ pc' = "file" /\ pc # "error" /\ New(n) /\ Declared(e)
      /\ globalenv' = Insert(globalenv, e)
      /\ sentinel' = sentinel /\ localenv' = localenv /\ chain' = chain /\ function' = function
      /\ parameters' = parameters /\ locals' = locals /\ listed' = listed
  BY DEF Global, slots
<1>1. TypeInv /\ FileScope /\ BlockScopes /\ SlotsInv /\ Len(scopes) = 1 /\ function = None
  BY <1>0 DEF NamesInv, BlockScopes
<1>2. /\ e \in EntryType /\ e.id = nextId /\ e # None
      /\ scopes' \in Seq(TableType) /\ Len(scopes') = 1
      /\ \A x : In(x, scopes'[1]) <=> In(x, scopes[1]) \/ x = e
      /\ Apart(scopes', nextId') /\ nextId' \in Nat \ {0}
      /\ ~In(e, scopes[1])
  BY <1>0, <1>1, DeclaredStep
<1> HIDE DEF e
<1>3. globalenv' \in TableType /\ \A x : In(x, globalenv') <=> In(x, globalenv) \/ x = e
  BY <1>0, <1>1, <1>2, Inserted DEF TypeInv
<1>4. TypeInv'
  BY <1>0, <1>1, <1>2, <1>3 DEF TypeInv
<1>5. FileScope'
  BY <1>0, <1>1, <1>2, <1>3 DEF FileScope
<1>6. BlockScopes' /\ SlotsInv'
  BY <1>0, <1>1, <1>2 DEF BlockScopes, SlotsInv
<1> QED
  BY <1>0, <1>2, <1>4, <1>5, <1>6 DEF NamesInv

\* A parameter.
LEMMA ParameterStep ==
  ASSUME NamesInv, NEW n \in Names, Parameter(n)
  PROVE  NamesInv'
<1> DEFINE e == Entry(n, "variable")
<1>0. /\ pc = "parameters" /\ pc' = "parameters" /\ pc # "error" /\ New(n) /\ Declared(e)
      /\ chain' = InTop(chain, e) /\ parameters' = Append(parameters, nextId)
      /\ sentinel' = sentinel /\ globalenv' = globalenv /\ localenv' = localenv
      /\ function' = function /\ locals' = locals /\ listed' = listed
  BY DEF Parameter, VariableLocal, InLocalenv, NamesInv, BlockScopes, SlotsInv
<1>1. /\ TypeInv /\ FileScope /\ BlockScopes /\ SlotsInv /\ Len(scopes) = 2 /\ Len(chain) = 1
      /\ scopes[2] = chain[1] /\ function # None /\ localenv = "chain"
  BY <1>0 DEF NamesInv, BlockScopes
<1>2. /\ e \in EntryType /\ e.id = nextId
      /\ scopes' \in Seq(TableType) /\ Len(scopes') = 2
      /\ scopes'[2] = Insert(scopes[2], e) /\ scopes'[1] = scopes[1]
      /\ \A x : In(x, scopes'[2]) <=> In(x, scopes[2]) \/ x = e
      /\ Apart(scopes', nextId') /\ nextId' \in Nat \ {0}
  BY <1>0, <1>1, DeclaredStep
<1> HIDE DEF e
<1>3. chain' \in Seq(TableType) /\ Len(chain') = 1 /\ chain'[1] = Insert(chain[1], e)
  <2>1. chain \in Seq(TableType) /\ Len(chain) >= 1
    BY <1>1 DEF TypeInv
  <2>2. InTop(chain, e) \in Seq(TableType) /\ Len(InTop(chain, e)) = Len(chain)
        /\ InTop(chain, e)[Len(chain)] = Insert(chain[Len(chain)], e)
    BY <1>2, <2>1, InsertedTop
  <2> QED
    BY <1>0, <1>1, <2>2
<1>4. /\ parameters' \in Seq(Nat) /\ In(nextId, parameters')
      /\ \A x : In(x, parameters) => In(x, parameters')
  <2>1. parameters \in Seq(Nat) /\ nextId \in Nat
    BY <1>1 DEF TypeInv
  <2> QED
    BY <1>0, <2>1, Pushed DEF In
<1>5. TypeInv'
  BY <1>0, <1>1, <1>2, <1>3, <1>4 DEF TypeInv
<1>6. FileScope'
  BY <1>0, <1>1, <1>2 DEF FileScope
<1>7. BlockScopes'
  BY <1>0, <1>1, <1>2, <1>3 DEF BlockScopes
<1>8. SlotsInv'
  <2>1. \A x : In(x, chain'[1]) <=> In(x, chain[1]) \/ x = e
    BY <1>1, <1>2, <1>3
  <2>2. \A x \in EntryType : In(x, chain[1]) /\ x.kind = "variable" => In(x.id, parameters) \/ In(x.id, locals)
    BY <1>0, <1>1 DEF SlotsInv
  <2>3. \A x \in EntryType : In(x, chain'[1]) /\ x.kind = "variable" => In(x.id, parameters') \/ In(x.id, locals')
    <3> SUFFICES ASSUME NEW x \in EntryType, In(x, chain'[1]), x.kind = "variable"
                 PROVE  In(x.id, parameters') \/ In(x.id, locals')
      OBVIOUS
    <3>1. CASE x = e
      BY <1>2, <1>4, <3>1
    <3>2. CASE In(x, chain[1])
      <4>1. In(x.id, parameters) \/ In(x.id, locals)
        BY <2>2, <3>2
      <4> QED
        BY <1>0, <1>4, <4>1
    <3> QED
      BY <2>1, <3>1, <3>2
  <2>4. \A k \in 1..Len(chain') : k = 1
    BY <1>3
  <2> QED
    BY <1>0, <1>1, <2>3, <2>4 DEF SlotsInv
<1> QED
  BY <1>0, <1>2, <1>5, <1>6, <1>7, <1>8 DEF NamesInv

\* A declaration in a block, a slot for it if it is a variable.
LEMMA BlockDeclared ==
  ASSUME NamesInv, pc = "body", pc' = "body",
         NEW n \in Names, NEW k \in {"variable", "prototype", "enumerator"},
         New(n), Declared(Entry(n, k)),
         chain' = InTop(chain, Entry(n, k)),
         globalenv' = globalenv, sentinel' = sentinel, localenv' = localenv, function' = function,
         parameters' = parameters, listed' = listed, locals' \in Seq(Nat),
         \A x : In(x, locals) => In(x, locals'),
         k = "variable" => In(nextId, locals')
  PROVE  NamesInv'
<1> DEFINE e == Entry(n, k)
<1>1. /\ TypeInv /\ FileScope /\ BlockScopes /\ SlotsInv /\ pc # "error"
      /\ Len(chain) >= 3 /\ Len(scopes) = Len(chain) - 1
      /\ \A x \in EntryType : In(x, scopes[2]) <=> In(x, chain[1]) \/ In(x, chain[3])
      /\ chain[2] = << >> /\ function # None /\ localenv = "chain"
      /\ \A l \in 3..Len(scopes) : scopes[l] = chain[l + 1]
  BY DEF NamesInv, BlockScopes
<1>2. /\ e \in EntryType /\ e.id = nextId /\ e.kind = k
      /\ scopes' \in Seq(TableType) /\ Len(scopes') = Len(scopes) /\ Len(scopes) \in Nat
      /\ scopes'[Len(scopes)] = Insert(scopes[Len(scopes)], e)
      /\ \A x : In(x, scopes'[Len(scopes)]) <=> In(x, scopes[Len(scopes)]) \/ x = e
      /\ \A l \in 1..Len(scopes) : l # Len(scopes) => scopes'[l] = scopes[l]
      /\ Apart(scopes', nextId') /\ nextId' \in Nat \ {0}
  BY <1>1, DeclaredStep
<1>3. chain \in Seq(TableType) /\ Len(chain) >= 1 /\ Len(chain) \in Nat /\ chain[Len(chain)] \in TableType
  BY <1>1, LenProperties DEF TypeInv
<1>4. /\ chain' \in Seq(TableType) /\ Len(chain') = Len(chain)
      /\ chain'[Len(chain)] = Insert(chain[Len(chain)], e)
      /\ \A l \in 1..Len(chain) : l # Len(chain) => chain'[l] = chain[l]
  BY <1>2, <1>3, InsertedTop
<1> HIDE DEF e
<1>5. \A x : In(x, chain'[Len(chain)]) <=> In(x, chain[Len(chain)]) \/ x = e
  BY <1>2, <1>3, <1>4, Inserted
<1>6. /\ 1 \in 1..Len(scopes) /\ 2 \in 1..Len(scopes) /\ 1 # Len(scopes)
       /\ 1 \in 1..Len(chain) /\ 2 \in 1..Len(chain) /\ 3 \in 1..Len(chain)
       /\ 1 # Len(chain) /\ 2 # Len(chain)
       /\ (Len(chain) = 3 <=> Len(scopes) = 2)
  <2>1. \A c, p \in Nat : c >= 3 /\ p = c - 1 =>
          /\ 1 \in 1..p /\ 2 \in 1..p /\ 1 # p /\ 1 \in 1..c /\ 2 \in 1..c /\ 3 \in 1..c
          /\ 1 # c /\ 2 # c /\ (c = 3 <=> p = 2)
    OBVIOUS
  <2> QED
    BY <1>1, <1>2, <1>3, <2>1
<1>7. TypeInv'
  BY <1>1, <1>2, <1>4 DEF TypeInv
<1>8. FileScope'
  <2>1. scopes'[1] = scopes[1]
    BY <1>2, <1>6
  <2>2. Len(scopes') >= 1
    BY <1>1, <1>2 DEF FileScope
  <2> QED
    BY <1>1, <2>1, <2>2 DEF FileScope
<1>9. BlockScopes'
  <2>1. Len(chain') >= 3 /\ Len(scopes') = Len(chain') - 1 /\ chain'[2] = << >>
    BY <1>1, <1>2, <1>4, <1>6
  <2>2. \A x \in EntryType : In(x, scopes'[2]) <=> In(x, chain'[1]) \/ In(x, chain'[3])
    <3>1. chain'[1] = chain[1]
      BY <1>4, <1>6
    <3>2. CASE Len(chain) = 3
      <4>1. \A x : In(x, scopes'[2]) <=> In(x, scopes[2]) \/ x = e
        BY <1>1, <1>2, <3>2
      <4>2. \A x : In(x, chain'[3]) <=> In(x, chain[3]) \/ x = e
        BY <1>5, <3>2
      <4> QED
        BY <1>1, <3>1, <4>1, <4>2
    <3>3. CASE Len(chain) # 3
      <4>1. scopes'[2] = scopes[2] /\ chain'[3] = chain[3]
        BY <1>2, <1>4, <1>6, <3>3
      <4> QED
        BY <1>1, <3>1, <4>1
    <3> QED
      BY <3>2, <3>3
  <2>3. \A l \in 3..Len(scopes') : scopes'[l] = chain'[l + 1]
    <3> SUFFICES ASSUME NEW l \in 3..Len(scopes') PROVE scopes'[l] = chain'[l + 1]
      OBVIOUS
    <3>1. l \in 3..Len(scopes) /\ l \in 1..Len(scopes) /\ l + 1 \in 1..Len(chain) /\ scopes[l] = chain[l + 1]
      BY <1>1, <1>2, <1>3
    <3>2. CASE l = Len(scopes)
      <4>1. l + 1 = Len(chain)
        BY <1>1, <1>3, <3>2
      <4> QED
        BY <1>2, <1>4, <3>1, <3>2, <4>1
    <3>3. CASE l # Len(scopes)
      <4>1. l + 1 # Len(chain)
        BY <1>1, <1>3, <3>1, <3>3
      <4> QED
        BY <1>2, <1>4, <3>1, <3>3, <4>1
    <3> QED
      BY <3>2, <3>3
  <2> QED
    BY <1>1, <2>1, <2>2, <2>3 DEF BlockScopes
<1>10. SlotsInv'
  <2> SUFFICES ASSUME NEW l \in 1..Len(chain'), NEW x \in EntryType, In(x, chain'[l]), x.kind = "variable"
               PROVE  In(x.id, parameters') \/ In(x.id, locals')
    BY <1>1 DEF SlotsInv
  <2>1. l \in 1..Len(chain)
    BY <1>4
  <2>2. CASE x = e
    BY <1>2, <2>2
  <2>3. CASE In(x, chain[l])
    BY <1>1, <2>1, <2>3 DEF SlotsInv
  <2> QED
    BY <1>4, <1>5, <2>1, <2>2, <2>3
<1> QED
  BY <1>2, <1>7, <1>8, <1>9, <1>10 DEF NamesInv

\* A declaration in a block.
LEMMA LocalStep ==
  ASSUME NamesInv, NEW n \in Names, NEW k \in {"variable", "prototype"}, Local(n, k)
  PROVE  NamesInv'
<1>1. locals \in Seq(Nat) /\ nextId \in Nat
  BY DEF NamesInv, TypeInv
<1>2. /\ pc = "body" /\ pc' = "body" /\ New(n) /\ Declared(Entry(n, k))
      /\ chain' = InTop(chain, Entry(n, k)) /\ locals' = Append(locals, nextId)
      /\ globalenv' = globalenv /\ sentinel' = sentinel /\ localenv' = localenv
      /\ function' = function /\ parameters' = parameters /\ listed' = listed
  BY DEF Local, VariableLocal, InLocalenv, Entry, NamesInv, BlockScopes, SlotsInv
<1>3. /\ locals' \in Seq(Nat) /\ In(nextId, locals')
      /\ \A x : In(x, locals) => In(x, locals')
  BY <1>1, <1>2, Pushed DEF In
<1> QED
  BY <1>2, <1>3, BlockDeclared

\* An enumerator.
LEMMA EnumeratorStep ==
  ASSUME NamesInv, NEW n \in Names, Enumerator(n)
  PROVE  NamesInv'
<1> DEFINE e == Entry(n, "enumerator")
<1>0. /\ pc' = pc /\ New(n) /\ Declared(e)
      /\ localenv' = localenv /\ parameters' = parameters /\ locals' = locals /\ listed' = listed
      /\ function' = function
  BY DEF Enumerator, slots
<1>1. CASE pc = "body"
  <2>1. localenv = "chain" /\ locals \in Seq(Nat)
    BY <1>1 DEF NamesInv, BlockScopes, TypeInv
  <2>2. chain' = InTop(chain, e) /\ sentinel' = sentinel /\ globalenv' = globalenv
    BY <2>1 DEF Enumerator, InLocalenv
  <2> QED
    BY <1>0, <1>1, <2>1, <2>2, BlockDeclared
<1>2. CASE pc = "file"
  <2>1. /\ TypeInv /\ FileScope /\ BlockScopes /\ SlotsInv /\ Len(scopes) = 1 /\ function = None
        /\ localenv \in {"sentinel", "null"}
    BY <1>2 DEF NamesInv, BlockScopes
  <2>2. /\ e \in EntryType /\ e # None
        /\ scopes' \in Seq(TableType) /\ Len(scopes') = 1
        /\ \A x : In(x, scopes'[1]) <=> In(x, scopes[1]) \/ x = e
        /\ Apart(scopes', nextId') /\ nextId' \in Nat \ {0}
        /\ ~In(e, scopes[1])
    BY <1>0, <1>2, <2>1, DeclaredStep
  <2>3. /\ chain' = chain
        /\ \/ sentinel' = Insert(sentinel, e) /\ globalenv' = globalenv
           \/ globalenv' = Insert(globalenv, e) /\ sentinel' = sentinel
    BY <2>1 DEF Enumerator, InLocalenv
  <2> HIDE DEF e
  <2>4. /\ sentinel' \in TableType /\ globalenv' \in TableType
        /\ \A x : In(x, sentinel') \/ In(x, globalenv') <=> In(x, sentinel) \/ In(x, globalenv) \/ x = e
    BY <2>1, <2>2, <2>3, Inserted DEF TypeInv
  <2>5. \A x : \/ (In(x, sentinel') <=> In(x, sentinel) \/ x = e) /\ (In(x, globalenv') <=> In(x, globalenv))
               \/ (In(x, globalenv') <=> In(x, globalenv) \/ x = e) /\ (In(x, sentinel') <=> In(x, sentinel))
    BY <2>1, <2>2, <2>3, Inserted DEF TypeInv
  <2>6. TypeInv'
    BY <1>0, <2>1, <2>2, <2>3, <2>4 DEF TypeInv
  <2>7. FileScope'
    <3>1. \A x \in EntryType : In(x, scopes'[1]) <=> In(x, sentinel') \/ In(x, globalenv') \/ x = function'
      BY <1>0, <2>1, <2>2, <2>4 DEF FileScope
    <3>2. \A x \in EntryType : In(x, sentinel') => ~In(x, globalenv') /\ x # function'
      <4>1. \A x \in EntryType : x # function'
        BY <1>0, <2>1, EntryIsSome
      <4>2. ~In(e, sentinel) /\ ~In(e, globalenv)
        BY <2>1, <2>2 DEF FileScope
      <4> QED
        BY <2>1, <2>5, <4>1, <4>2 DEF FileScope
    <3> QED
      BY <2>2, <3>1, <3>2 DEF FileScope
  <2>8. BlockScopes' /\ SlotsInv'
    BY <1>0, <1>2, <2>1, <2>2 DEF BlockScopes, SlotsInv
  <2> QED
    BY <1>0, <1>2, <2>2, <2>6, <2>7, <2>8 DEF NamesInv
<1> QED
  BY <1>1, <1>2 DEF Enumerator

\* The name of a function is in scope from its declarator on, in the table only after its '}'.
LEMMA BeginFunctionStep ==
  ASSUME NamesInv, NEW n \in Names, BeginFunction(n)
  PROVE  NamesInv'
<1> DEFINE before == InTable(scopes[1], n)
           e      == Entry(n, "function")
<1>0. /\ pc = "file" /\ pc' = "parameters" /\ localenv' = "chain" /\ chain' = Push(<< >>)
      /\ parameters' = << >> /\ locals' = locals /\ listed' = listed
      /\ globalenv' = globalenv /\ sentinel' = sentinel
  BY DEF BeginFunction
<1>1. /\ TypeInv /\ FileScope /\ BlockScopes /\ SlotsInv /\ Len(scopes) = 1 /\ function = None
      /\ Apart(scopes, nextId) /\ nextId \in Nat \ {0}
      /\ scopes \in Seq(TableType) /\ scopes[1] \in TableType /\ locals = << >>
  <2>1. /\ TypeInv /\ FileScope /\ BlockScopes /\ SlotsInv /\ Len(scopes) = 1 /\ function = None
        /\ Apart(scopes, nextId) /\ nextId \in Nat \ {0} /\ scopes \in Seq(TableType) /\ locals = << >>
    BY <1>0 DEF NamesInv, BlockScopes, TypeInv, SlotsInv
  <2>2. 1 \in 1..Len(scopes)
    BY <2>1
  <2> QED
    BY <2>1, <2>2, LenProperties
<1>2. << >> \in TableType /\ << >> \in Seq(TableType) /\ << >> \in Seq(Nat) /\ \A x : ~In(x, << >>)
  BY EmptySeq DEF TableType, In
<1>3. chain' \in Seq(TableType) /\ Len(chain') = 1 /\ chain'[1] = << >>
  BY <1>0, <1>2, AppendProperties, EmptySeq DEF Push
<1>4. /\ scopes' \in Seq(TableType) /\ Len(scopes') = 2 /\ scopes'[2] = << >>
      /\ Apart(scopes', nextId') /\ nextId' \in Nat \ {0}
      /\ function' \in EntryType /\ ~In(function', sentinel)
      /\ \A x \in EntryType : In(x, scopes'[1]) <=> In(x, scopes[1]) \/ x = function'
      /\ \A x \in EntryType : In(x, sentinel) \/ In(x, globalenv) => In(x, scopes[1])
      /\ \A x \in EntryType : In(x, scopes[1]) => In(x, sentinel) \/ In(x, globalenv)
  <2>0. /\ \A x \in EntryType : In(x, sentinel) \/ In(x, globalenv) => In(x, scopes[1])
        /\ \A x \in EntryType : In(x, scopes[1]) => In(x, sentinel) \/ In(x, globalenv)
    BY <1>1, EntryIsSome DEF FileScope
  <2>1. CASE before = None
    <3>1. nextId' = nextId + 1 /\ scopes' = Push(InTop(scopes, e)) /\ function' = e
      BY <2>1 DEF BeginFunction
    <3>2. e \in EntryType /\ e.id = nextId /\ e.name = n
      BY <1>1 DEF Entry, EntryType
    <3> HIDE DEF e
    <3> DEFINE ss == InTop(scopes, e)
    <3>3. /\ ss \in Seq(TableType) /\ Len(ss) = 1 /\ ss[1] = Insert(scopes[1], e)
          /\ Apart(ss, nextId + 1)
      <4>1. InTable(scopes[Len(scopes)], e.name) = None /\ Apart(scopes, e.id) /\ Len(scopes) >= 1
        BY <1>1, <2>1, <3>2
      <4>2. Apart(ss, e.id + 1)
        BY <1>1, <3>2, <4>1, DeclaredApart
      <4>3. ss \in Seq(TableType) /\ Len(ss) = Len(scopes) /\ ss[Len(scopes)] = Insert(scopes[Len(scopes)], e)
        BY <1>1, <3>2, <4>1, InsertedTop
      <4> QED
        BY <1>1, <3>2, <4>2, <4>3
    <3>4. \A x : In(x, ss[1]) <=> In(x, scopes[1]) \/ x = e
      BY <1>1, <3>2, <3>3, Inserted
    <3> HIDE DEF ss
    <3>5. /\ Push(ss) \in Seq(TableType) /\ Len(Push(ss)) = Len(ss) + 1
          /\ Push(ss)[Len(ss) + 1] = << >> /\ Push(ss)[1] = ss[1]
          /\ Apart(Push(ss), nextId + 1)
      <4>1. Apart(Push(ss), nextId + 1)
        BY <3>3, PushedApart
      <4>2. 1 \in 1..Len(ss)
        BY <3>3
      <4> QED
        BY <3>3, <4>1, <4>2, PushedTable
    <3>6. scopes' = Push(ss)
      BY <3>1 DEF ss
    <3>7. ~In(e, scopes[1])
      <4> SUFFICES ASSUME In(e, scopes[1]) PROVE FALSE
        OBVIOUS
      <4>1. e.id < nextId
        BY <1>1, SameEntry
      <4> QED
        BY <1>1, <3>2, <4>1
    <3>8. nextId' \in Nat \ {0} /\ ~In(e, sentinel)
      BY <1>1, <2>0, <3>1, <3>2, <3>7
    <3>9. Len(scopes') = 2 /\ scopes'[2] = << >> /\ scopes' \in Seq(TableType) /\ Apart(scopes', nextId')
      BY <3>1, <3>3, <3>5, <3>6
    <3> QED
      BY <2>0, <3>1, <3>2, <3>4, <3>5, <3>6, <3>8, <3>9
  <2>2. CASE before # None
    <3>1. /\ nextId' = nextId /\ scopes' = Push(scopes) /\ function' = before
          /\ Cardinality({i \in 1..Len(globalenv) : globalenv[i] = before}) = 1
      BY <2>2 DEF BeginFunction
    <3>2. before \in EntryType /\ In(before, scopes[1])
      BY <1>1, <2>2, InTableIs
    <3> HIDE DEF before
    <3>3. In(before, globalenv)
      <4>1. {i \in 1..Len(globalenv) : globalenv[i] = before} # {}
        BY <3>1, FS_EmptySet
      <4> QED
        BY <4>1 DEF In
    <3>4. /\ Push(scopes) \in Seq(TableType) /\ Len(Push(scopes)) = Len(scopes) + 1
          /\ Push(scopes)[Len(scopes) + 1] = << >> /\ Push(scopes)[1] = scopes[1]
          /\ Apart(Push(scopes), nextId)
      <4>1. Apart(Push(scopes), nextId)
        BY <1>1, PushedApart
      <4>2. 1 \in 1..Len(scopes)
        BY <1>1
      <4> QED
        BY <1>1, <4>1, <4>2, PushedTable
    <3>5. ~In(before, sentinel)
      BY <1>1, <3>2, <3>3 DEF FileScope
    <3>6. Len(scopes') = 2 /\ scopes'[2] = << >> /\ scopes' \in Seq(TableType) /\ Apart(scopes', nextId')
      BY <1>1, <3>1, <3>4
    <3> QED
      BY <1>1, <2>0, <3>1, <3>2, <3>4, <3>5, <3>6
  <2> QED
    BY <2>1, <2>2
<1>5. TypeInv'
  BY <1>0, <1>1, <1>2, <1>3, <1>4 DEF TypeInv
<1>6. FileScope'
  <2>1. \A x \in EntryType : In(x, scopes'[1]) <=> In(x, sentinel) \/ In(x, globalenv) \/ x = function'
    BY <1>4
  <2>2. \A x \in EntryType : In(x, sentinel) => ~In(x, globalenv) /\ x # function'
    BY <1>1, <1>4 DEF FileScope
  <2> QED
    BY <1>0, <1>4, <2>1, <2>2 DEF FileScope
<1>7. BlockScopes'
  BY <1>0, <1>3, <1>4, EntryIsSome DEF BlockScopes
<1>8. SlotsInv'
  BY <1>0, <1>1, <1>2, <1>3 DEF SlotsInv
<1> QED
  BY <1>0, <1>4, <1>5, <1>6, <1>7, <1>8 DEF NamesInv

\* Two tables more for a scope C has only one of.
LEMMA BeginBodyStep ==
  ASSUME NamesInv, BeginBody
  PROVE  NamesInv'
<1>0. /\ pc = "parameters" /\ pc' = "body" /\ chain' = Push(Push(chain)) /\ locals' = << >>
      /\ listed' = TRUE
      /\ UNCHANGED <<globalenv, sentinel, localenv, parameters, function, scopes, nextId>>
  BY DEF BeginBody
<1>1. /\ TypeInv /\ Apart(scopes, nextId) /\ FileScope /\ BlockScopes /\ SlotsInv
      /\ Len(scopes) = 2 /\ Len(chain) = 1 /\ scopes[2] = chain[1] /\ function # None
      /\ localenv = "chain" /\ locals = << >> /\ chain \in Seq(TableType)
  BY <1>0 DEF NamesInv, BlockScopes, SlotsInv, TypeInv
<1>2. << >> \in TableType /\ << >> \in Seq(Nat) /\ \A x : ~In(x, << >>)
  BY EmptySeq DEF TableType, In
<1> DEFINE once == Push(chain)
<1>3. once \in Seq(TableType) /\ Len(once) = 2 /\ once[1] = chain[1] /\ once[2] = << >>
  <2>1. 1 \in 1..Len(chain) /\ Len(chain) + 1 = 2
    BY <1>1
  <2>2. /\ Push(chain) \in Seq(TableType) /\ Len(Push(chain)) = Len(chain) + 1
        /\ Push(chain)[Len(chain) + 1] = << >> /\ Push(chain)[1] = chain[1]
    BY <1>1, <2>1, PushedTable
  <2> QED
    BY <2>1, <2>2
<1> HIDE DEF once
<1>4. /\ Push(once) \in Seq(TableType) /\ Len(Push(once)) = 3
      /\ Push(once)[1] = once[1] /\ Push(once)[2] = << >> /\ Push(once)[3] = << >>
  <2>1. 1 \in 1..Len(once) /\ 2 \in 1..Len(once) /\ Len(once) + 1 = 3
    BY <1>3
  <2>2. /\ Push(once) \in Seq(TableType) /\ Len(Push(once)) = Len(once) + 1
        /\ Push(once)[Len(once) + 1] = << >> /\ Push(once)[1] = once[1] /\ Push(once)[2] = once[2]
    BY <1>3, <2>1, PushedTable
  <2> QED
    BY <1>3, <2>1, <2>2
<1>5. /\ chain' \in Seq(TableType) /\ Len(chain') = 3
      /\ chain'[1] = chain[1] /\ chain'[2] = << >> /\ chain'[3] = << >>
  BY <1>0, <1>3, <1>4 DEF once
<1>6. TypeInv'
  BY <1>0, <1>1, <1>2, <1>5 DEF TypeInv
<1>7. FileScope'
  BY <1>0, <1>1 DEF FileScope
<1>8. BlockScopes'
  <2>1. \A l \in 3..Len(scopes') : FALSE
    BY <1>0, <1>1
  <2> QED
    BY <1>0, <1>1, <1>2, <1>5, <2>1 DEF BlockScopes
<1>9. SlotsInv'
  <2> SUFFICES ASSUME NEW l \in 1..Len(chain'), NEW x \in EntryType, In(x, chain'[l]), x.kind = "variable"
               PROVE  In(x.id, parameters') \/ In(x.id, locals')
    BY <1>0, <1>1 DEF SlotsInv
  <2>1. l = 1
    BY <1>2, <1>5
  <2> QED
    BY <1>0, <1>1, <1>2, <1>5, <2>1 DEF SlotsInv
<1> QED
  BY <1>0, <1>1, <1>6, <1>7, <1>8, <1>9 DEF NamesInv

\* The beginning of a block.
LEMMA OpenStep ==
  ASSUME NamesInv, Open
  PROVE  NamesInv'
<1>0. /\ pc = "body" /\ pc' = "body" /\ chain' = Push(chain) /\ scopes' = Push(scopes)
      /\ UNCHANGED <<globalenv, sentinel, localenv, parameters, locals, listed, function, nextId>>
  BY DEF Open, slots
<1>1. /\ TypeInv /\ Apart(scopes, nextId) /\ FileScope /\ BlockScopes /\ SlotsInv
      /\ Len(chain) >= 3 /\ Len(scopes) = Len(chain) - 1 /\ function # None
      /\ localenv = "chain" /\ chain \in Seq(TableType) /\ scopes \in Seq(TableType)
      /\ chain[2] = << >> /\ \A x \in EntryType : In(x, scopes[2]) <=> In(x, chain[1]) \/ In(x, chain[3])
  BY <1>0 DEF NamesInv, BlockScopes, TypeInv
<1>2. \A l \in 3..Len(scopes) : scopes[l] = chain[l + 1]
  BY <1>0, <1>1 DEF BlockScopes
<1>3. /\ Push(chain) \in Seq(TableType) /\ Len(chain) \in Nat /\ Len(Push(chain)) = Len(chain) + 1
      /\ Push(chain)[Len(chain) + 1] = << >> /\ \A k \in 1..Len(chain) : Push(chain)[k] = chain[k]
  BY <1>1, PushedTable
<1>4. /\ Push(scopes) \in Seq(TableType) /\ Len(scopes) \in Nat /\ Len(Push(scopes)) = Len(scopes) + 1
      /\ Push(scopes)[Len(scopes) + 1] = << >> /\ \A k \in 1..Len(scopes) : Push(scopes)[k] = scopes[k]
      /\ Apart(Push(scopes), nextId)
  BY <1>1, PushedTable, PushedApart
<1>5. /\ chain'[1] = chain[1] /\ chain'[2] = chain[2] /\ chain'[3] = chain[3]
      /\ scopes'[1] = scopes[1] /\ scopes'[2] = scopes[2]
  <2>1. \A c \in Nat : c >= 3 => 1 \in 1..c /\ 2 \in 1..c /\ 3 \in 1..c /\ 1 \in 1..(c - 1) /\ 2 \in 1..(c - 1)
    OBVIOUS
  <2> QED
    BY <1>0, <1>1, <1>3, <1>4, <2>1
<1>6. TypeInv'
  BY <1>0, <1>1, <1>3, <1>4 DEF TypeInv
<1>7. FileScope'
  <2>1. Len(scopes') >= 1
    BY <1>0, <1>1, <1>3, <1>4
  <2> QED
    BY <1>0, <1>1, <1>5, <2>1 DEF FileScope
<1>8. BlockScopes'
  <2>1. Len(chain') >= 3 /\ Len(scopes') = Len(chain') - 1
    BY <1>0, <1>1, <1>3, <1>4
  <2>2. \A l \in 3..Len(scopes') : scopes'[l] = chain'[l + 1]
    <3> SUFFICES ASSUME NEW l \in 3..Len(scopes') PROVE scopes'[l] = chain'[l + 1]
      OBVIOUS
    <3>1. CASE l = Len(scopes) + 1
      <4>1. l + 1 = Len(chain) + 1
        BY <1>1, <1>3, <3>1
      <4> QED
        BY <1>0, <1>3, <1>4, <3>1, <4>1
    <3>2. CASE l # Len(scopes) + 1
      <4>1. l \in 3..Len(scopes) /\ l \in 1..Len(scopes) /\ l + 1 \in 1..Len(chain)
        BY <1>0, <1>1, <1>3, <1>4, <3>2
      <4> QED
        BY <1>0, <1>2, <1>3, <1>4, <4>1
    <3> QED
      BY <3>1, <3>2
  <2> QED
    BY <1>0, <1>1, <1>5, <2>1, <2>2 DEF BlockScopes
<1>9. SlotsInv'
  <2> SUFFICES ASSUME NEW l \in 1..Len(chain'), NEW x \in EntryType, In(x, chain'[l]), x.kind = "variable"
               PROVE  In(x.id, parameters') \/ In(x.id, locals')
    BY <1>0, <1>1 DEF SlotsInv
  <2>1. l \in 1..Len(chain) /\ chain'[l] = chain[l]
    <3>1. CASE l = Len(chain) + 1
      <4>1. ~In(x, << >>)
        BY EmptySeq DEF In
      <4> QED
        BY <1>0, <1>3, <3>1, <4>1
    <3>2. CASE l # Len(chain) + 1
      BY <1>0, <1>3, <3>2
    <3> QED
      BY <3>1, <3>2
  <2> QED
    BY <1>0, <1>1, <2>1 DEF SlotsInv
<1> QED
  BY <1>0, <1>4, <1>6, <1>7, <1>8, <1>9 DEF NamesInv

\* The end of a block.
LEMMA CloseStep ==
  ASSUME NamesInv, Close
  PROVE  NamesInv'
<1>0. /\ pc = "body" /\ pc' = "body" /\ chain' = Pop(chain) /\ scopes' = Pop(scopes) /\ Len(chain) > 3
      /\ UNCHANGED <<globalenv, sentinel, localenv, parameters, locals, listed, function, nextId>>
  BY DEF Close, slots
<1>1. /\ TypeInv /\ Apart(scopes, nextId) /\ FileScope /\ BlockScopes /\ SlotsInv
      /\ Len(chain) >= 3 /\ Len(scopes) = Len(chain) - 1 /\ function # None
      /\ localenv = "chain" /\ chain \in Seq(TableType) /\ scopes \in Seq(TableType)
      /\ chain[2] = << >> /\ \A x \in EntryType : In(x, scopes[2]) <=> In(x, chain[1]) \/ In(x, chain[3])
  BY <1>0 DEF NamesInv, BlockScopes, TypeInv
<1>2. \A l \in 3..Len(scopes) : scopes[l] = chain[l + 1]
  BY <1>0, <1>1 DEF BlockScopes
<1>3. Len(chain) \in Nat /\ Len(scopes) \in Nat /\ chain # << >> /\ Len(scopes) >= 1
  BY <1>0, <1>1, LenProperties, EmptySeq
<1>4. /\ chain' \in Seq(TableType) /\ Len(chain') = Len(chain) - 1
      /\ \A k \in 1..(Len(chain) - 1) : chain'[k] = chain[k]
  BY <1>0, <1>1, <1>3, Popped DEF Pop
<1>5. /\ scopes' \in Seq(TableType) /\ Len(scopes') = Len(scopes) - 1
      /\ \A k \in 1..(Len(scopes) - 1) : scopes'[k] = scopes[k]
      /\ Apart(scopes', nextId)
  BY <1>0, <1>1, <1>3, PoppedApart
<1>6. /\ chain'[1] = chain[1] /\ chain'[2] = chain[2] /\ chain'[3] = chain[3]
      /\ scopes'[1] = scopes[1] /\ scopes'[2] = scopes[2]
  <2>1. \A c \in Nat : c > 3 =>
          /\ 1 \in 1..(c - 1) /\ 2 \in 1..(c - 1) /\ 3 \in 1..(c - 1)
          /\ 1 \in 1..(c - 1 - 1) /\ 2 \in 1..(c - 1 - 1)
    OBVIOUS
  <2> QED
    BY <1>0, <1>1, <1>3, <1>4, <1>5, <2>1
<1>7. TypeInv'
  BY <1>0, <1>1, <1>4, <1>5 DEF TypeInv
<1>8. FileScope'
  <2>1. Len(scopes') >= 1
    BY <1>0, <1>1, <1>3, <1>5
  <2> QED
    BY <1>0, <1>1, <1>6, <2>1 DEF FileScope
<1>9. BlockScopes'
  <2>1. Len(chain') >= 3 /\ Len(scopes') = Len(chain') - 1
    BY <1>0, <1>1, <1>3, <1>4, <1>5
  <2>2. \A l \in 3..Len(scopes') : scopes'[l] = chain'[l + 1]
    <3> SUFFICES ASSUME NEW l \in 3..Len(scopes') PROVE scopes'[l] = chain'[l + 1]
      OBVIOUS
    <3>1. l \in 3..Len(scopes) /\ l \in 1..(Len(scopes) - 1) /\ l + 1 \in 1..(Len(chain) - 1)
      BY <1>1, <1>3, <1>5
    <3> QED
      BY <1>2, <1>4, <1>5, <3>1
  <2> QED
    BY <1>0, <1>1, <1>6, <2>1, <2>2 DEF BlockScopes
<1>10. SlotsInv'
  <2> SUFFICES ASSUME NEW l \in 1..Len(chain'), NEW x \in EntryType, In(x, chain'[l]), x.kind = "variable"
               PROVE  In(x.id, parameters') \/ In(x.id, locals')
    BY <1>0, <1>1 DEF SlotsInv
  <2>1. l \in 1..Len(chain) /\ chain'[l] = chain[l]
    BY <1>3, <1>4
  <2> QED
    BY <1>0, <1>1, <2>1 DEF SlotsInv
<1> QED
  BY <1>0, <1>5, <1>7, <1>8, <1>9, <1>10 DEF NamesInv

\* The function goes from the scopes of C to the table; its own scopes end.
LEMMA EndFunctionStep ==
  ASSUME NamesInv, EndFunction
  PROVE  NamesInv'
<1>0. /\ pc = "body" /\ pc' \in {"error", "file"} /\ Len(chain) = 3
      /\ globalenv' = Insert(globalenv, function) /\ localenv' = "null" /\ chain' = << >>
      /\ locals' = << >> /\ listed' = FALSE /\ parameters' = << >> /\ scopes' = Pop(scopes)
      /\ function' = None
      /\ sentinel' = sentinel /\ nextId' = nextId
  BY DEF EndFunction, Leave
<1>1. /\ TypeInv /\ Apart(scopes, nextId) /\ FileScope
      /\ Len(scopes) = 2 /\ scopes \in Seq(TableType) /\ globalenv \in TableType
      /\ function \in EntryType
  BY <1>0 DEF NamesInv, BlockScopes, TypeInv
<1>2. << >> \in Seq(TableType) /\ << >> \in Seq(Nat)
  BY EmptySeq
<1>3. /\ scopes' \in Seq(TableType) /\ Len(scopes') = 1 /\ scopes'[1] = scopes[1] /\ Apart(scopes', nextId')
  <2>1. /\ scopes' \in Seq(TableType) /\ Len(scopes') = Len(scopes) - 1
        /\ \A k \in 1..(Len(scopes) - 1) : scopes'[k] = scopes[k]
        /\ Apart(scopes', nextId)
    <3>1. Len(scopes) >= 1
      BY <1>1
    <3> QED
      BY <1>0, <1>1, <3>1, PoppedApart
  <2>2. 1 \in 1..(Len(scopes) - 1) /\ Len(scopes) - 1 = 1
    BY <1>1
  <2> QED
    BY <1>0, <2>1, <2>2
<1>4. globalenv' \in TableType /\ \A x : In(x, globalenv') <=> In(x, globalenv) \/ x = function
  BY <1>0, <1>1, Inserted
<1>5. TypeInv'
  BY <1>0, <1>1, <1>2, <1>3, <1>4 DEF TypeInv
<1>6. FileScope'
  BY <1>0, <1>1, <1>3, <1>4, EntryIsSome DEF FileScope
<1>7. pc' # "error" => BlockScopes' /\ SlotsInv'
  BY <1>0, <1>3 DEF BlockScopes, SlotsInv
<1> QED
  BY <1>0, <1>3, <1>5, <1>6, <1>7 DEF NamesInv

\* A step that leaves the tables alone, wherever it goes on.
LEMMA NamesUnchanged ==
  ASSUME NamesInv, UNCHANGED <<tables, slots, function, scopes, nextId>>, pc' = pc \/ pc' = "error"
  PROVE  NamesInv'
<1>1. UNCHANGED <<globalenv, sentinel, localenv, chain, parameters, locals, listed, function, scopes,
                  nextId>>
  BY DEF tables, slots
<1> QED
  <2>1. TypeInv'
    BY <1>1 DEF NamesInv, TypeInv
  <2>2. CASE pc' = "error"
    BY <2>1, <2>2 DEF NamesInv
  <2>3. CASE pc' = pc /\ pc # "error"
    <3>1. Apart(scopes', nextId') /\ FileScope'
      BY <1>1, <2>3 DEF NamesInv, FileScope
    <3>2. BlockScopes'
      BY <1>1, <2>3 DEF NamesInv, BlockScopes
    <3>3. SlotsInv'
      BY <1>1, <2>3 DEF NamesInv, SlotsInv
    <3> QED
      BY <1>1, <2>1, <2>3, <3>1, <3>2, <3>3 DEF NamesInv
  <2> QED
    BY <2>2, <2>3

\* Every step keeps the invariant of names.
LEMMA NamesStep == NamesInv /\ [Next]_vars => NamesInv'
<1> SUFFICES ASSUME NamesInv, [Next]_vars PROVE NamesInv'
  OBVIOUS
<1>1. ASSUME NEW n \in Names, NEW k \in {"variable", "prototype"}, Global(n, k) \/ Local(n, k)
      PROVE  NamesInv'
  BY <1>1, GlobalStep, LocalStep
<1>2. ASSUME NEW n \in Names, Enumerator(n) \/ BeginFunction(n) \/ Parameter(n)
      PROVE  NamesInv'
  BY <1>2, EnumeratorStep, BeginFunctionStep, ParameterStep
<1>3. CASE BeginBody \/ Open \/ Close \/ EndFunction
  BY <1>3, BeginBodyStep, OpenStep, CloseStep, EndFunctionStep
<1>4. ASSUME NEW l \in LabelNames, Goto(l) \/ Label(l)
      PROVE  NamesInv'
  <2>1. UNCHANGED <<tables, slots, function, scopes, nextId>> /\ (pc' = pc \/ pc' = "error")
    BY <1>4 DEF Goto, Label
  <2> QED
    BY <2>1, NamesUnchanged
<1>5. CASE UNCHANGED vars
  BY <1>5, NamesUnchanged DEF vars, tables, slots
<1> QED
  BY <1>1, <1>2, <1>3, <1>4, <1>5 DEF Next

\* The tables of names mirror the blocks that are open.
THEOREM NamesInvariant == Spec => []NamesInv
<1> QED
  BY NamesInit, NamesStep, PTL DEF Spec

-----------------------------------------------------------------------------
(* What a name finds.                                                      *)

\* The tables the compiler searches inside a function.
Searched == <<globalenv>> \o chain

\* The tables a name is looked up in, the outermost first.
LEMMA SearchedAre ==
  ASSUME TypeInv
  PROVE  /\ Searched \in Seq(TableType) /\ Len(chain) \in Nat /\ Len(Searched) = Len(chain) + 1
         /\ Searched[1] = globalenv /\ \A k \in 1..Len(chain) : Searched[k + 1] = chain[k]
         /\ \A j \in 1..Len(Searched) : j = 1 \/ (j - 1 \in 1..Len(chain) /\ Searched[j] = chain[j - 1])
<1>1. <<globalenv>> \in Seq(TableType) /\ Len(<<globalenv>>) = 1 /\ <<globalenv>>[1] = globalenv
      /\ chain \in Seq(TableType) /\ Len(chain) \in Nat
  BY LenProperties DEF TypeInv
<1>2. Searched \in Seq(TableType) /\ Len(Searched) = 1 + Len(chain)
      /\ \A i \in 1..(1 + Len(chain)) : Searched[i] = IF i <= 1 THEN <<globalenv>>[i] ELSE chain[i - 1]
  BY <1>1, ConcatProperties DEF Searched
<1> HIDE DEF Searched
<1>3. Searched[1] = globalenv
  BY <1>1, <1>2
<1>4. \A j \in 1..Len(Searched) : j = 1 \/ (j - 1 \in 1..Len(chain) /\ Searched[j] = chain[j - 1])
  BY <1>1, <1>2
<1>5. \A k \in 1..Len(chain) : Searched[k + 1] = chain[k]
  <2> SUFFICES ASSUME NEW k \in 1..Len(chain) PROVE Searched[k + 1] = chain[k]
    OBVIOUS
  <2>1. k + 1 \in 1..(1 + Len(chain)) /\ ~(k + 1 <= 1) /\ k + 1 - 1 = k
    BY <1>1
  <2> QED
    BY <1>2, <2>1
<1> QED
  BY <1>1, <1>2, <1>3, <1>4, <1>5

\* A name that stands in a table is found there.
LEMMA FindsIt ==
  ASSUME NEW L \in TableType, NEW e \in EntryType, In(e, L)
  PROVE  /\ InTable(L, e.name) \in EntryType /\ InTable(L, e.name) # None
         /\ InTable(L, e.name).name = e.name /\ In(InTable(L, e.name), L)
<1>1. PICK i \in 1..Len(L) : L[i] = e
  BY DEF In
<1>2. L[i].name = e.name
  BY <1>1
<1> QED
  BY <1>1, <1>2, InTableIs

\* Of what is declared at file scope the table has all but what Lost names.
LEMMA FileLookup ==
  ASSUME NamesInv, pc # "error", NEW n
  PROVE  LET e == InTable(scopes[1], n) IN InTable(globalenv, n) = IF Lost(e) THEN None ELSE e
<1> DEFINE e == InTable(scopes[1], n)
           g == InTable(globalenv, n)
<1>1. /\ Apart(scopes, nextId) /\ 1 \in 1..Len(scopes) /\ scopes[1] \in TableType
      /\ globalenv \in TableType /\ sentinel \in TableType /\ function \in EntryType \cup {None}
  <2>1. TypeInv /\ FileScope /\ Apart(scopes, nextId)
    BY DEF NamesInv
  <2>2. 1 \in 1..Len(scopes)
    BY <2>1, LenProperties DEF TypeInv, FileScope
  <2> QED
    BY <2>1, <2>2, LenProperties DEF TypeInv
<1>2. /\ \A x \in EntryType : In(x, scopes[1]) <=> In(x, sentinel) \/ In(x, globalenv) \/ x = function
      /\ \A x \in EntryType : In(x, sentinel) => ~In(x, globalenv) /\ x # function
  BY DEF NamesInv, FileScope
<1>3. g = None \/ (g \in EntryType /\ g # None /\ g.name = n /\ In(g, globalenv) /\ In(g, scopes[1]))
  BY <1>1, <1>2, InTableIs
<1>4. e = None \/ (e \in EntryType /\ e # None /\ e.name = n /\ In(e, scopes[1]))
  BY <1>1, InTableIs
<1>5. In(e, globalenv) /\ e \in EntryType /\ e.name = n => g # None
  BY <1>1, FindsIt
<1>6. e = None => g = None
  BY <1>1, <1>3, FindsIt
<1> HIDE DEF e, g
<1>7. e # None /\ g # None => g = e
  BY <1>1, <1>3, <1>4, SameEntry
<1>8. e # None => (Lost(e) <=> In(e, sentinel) \/ (e = function /\ g = None))
  <2> SUFFICES ASSUME e # None PROVE Lost(e) <=> In(e, sentinel) \/ (e = function /\ g = None)
    OBVIOUS
  <2>1. e \in EntryType /\ In(e, scopes[1]) /\ g = InTable(globalenv, e.name)
    BY <1>4 DEF g
  <2>2. ASSUME NEW i \in 1..Len(sentinel), sentinel[i].id = e.id PROVE In(e, sentinel)
    <3>1. sentinel[i] \in EntryType /\ In(sentinel[i], sentinel)
      BY <1>1, LenProperties DEF TableType, In
    <3>2. In(sentinel[i], scopes[1])
      BY <1>2, <3>1
    <3>3. sentinel[i] = e
      BY <1>1, <2>1, <2>2, <3>2, SameEntry
    <3> QED
      BY <3>1, <3>3
  <2>3. In(e, sentinel) => \E i \in 1..Len(sentinel) : sentinel[i].id = e.id
    BY DEF In
  <2> QED
    BY <2>1, <2>2, <2>3 DEF Lost
<1>9. g = IF Lost(e) THEN None ELSE e
  <2>1. CASE e = None
    BY <1>6, <2>1
  <2>2. CASE e # None /\ In(e, sentinel)
    BY <1>2, <1>3, <1>4, <1>7, <1>8, <2>2
  <2>3. CASE e # None /\ ~In(e, sentinel) /\ In(e, globalenv)
    BY <1>4, <1>5, <1>7, <1>8, <2>3
  <2>4. CASE e # None /\ ~In(e, sentinel) /\ ~In(e, globalenv)
    <3>1. e = function
      BY <1>2, <1>4, <2>4
    <3>2. g = None
      BY <1>3, <1>7, <2>4
    <3> QED
      BY <1>8, <2>4, <3>1, <3>2
  <2> QED
    BY <2>1, <2>2, <2>3, <2>4
<1> QED
  BY <1>9 DEF e, g

\* A declaration in a block is none of the two that are lost.
LEMMA InnerFound ==
  ASSUME NamesInv, pc # "error", NEW k \in 2..Len(scopes), NEW e \in EntryType, In(e, scopes[k])
  PROVE  ~Lost(e)
<1>1. /\ TypeInv /\ FileScope /\ Apart(scopes, nextId)
  BY DEF NamesInv
<1>2. 1 \in 1..Len(scopes) /\ k \in 1..Len(scopes) /\ k # 1
  <2>1. Len(scopes) \in Nat /\ Len(scopes) >= 1
    BY <1>1, LenProperties DEF TypeInv, FileScope
  <2> QED
    BY <2>1
<1>3. \A x \in EntryType : In(x, scopes[1]) => x.id # e.id
  BY <1>1, <1>2, SameEntry
<1>4. \A i \in 1..Len(sentinel) : sentinel[i].id # e.id
  <2> SUFFICES ASSUME NEW i \in 1..Len(sentinel) PROVE sentinel[i].id # e.id
    OBVIOUS
  <2>1. sentinel[i] \in EntryType /\ In(sentinel[i], sentinel)
    BY <1>1, LenProperties DEF TypeInv, TableType, In
  <2> QED
    BY <1>1, <1>3, <2>1 DEF FileScope
<1>5. e # function
  BY <1>1, <1>3 DEF FileScope
<1> QED
  BY <1>4, <1>5 DEF Lost

\* A search ends at the innermost table that has the name, or at the outermost of all.
LEMMA FromInsideEnds ==
  ASSUME NEW ts \in Seq(TableType), Len(ts) >= 1, NEW n
  PROVE  \E k \in 1..Len(ts) :
           /\ k = 1 \/ InTable(ts[k], n) # None
           /\ \A j \in 1..Len(ts) : j > k => InTable(ts[j], n) = None
           /\ FromInside(ts, n) = InTable(ts[k], n)
<1> DEFINE T == {k \in 1..Len(ts) : k = 1 \/ InTable(ts[k], n) # None}
<1>1. Len(ts) \in Nat /\ 1 \in T /\ T \in SUBSET (0..Len(ts))
  BY LenProperties
<1>2. PICK k \in T : \A j \in T : j <= k
  <2> HIDE DEF T
  <2> QED
    BY <1>1, GreatestNat
<1>3. k \in 1..Len(ts) /\ (k = 1 \/ InTable(ts[k], n) # None)
  BY <1>2
<1>4. \A j \in 1..Len(ts) : j > k => InTable(ts[j], n) = None
  BY <1>1, <1>2
<1>5. FromInside(ts, n) = InTable(ts[k], n)
  BY <1>3, <1>4, FromInsideIs
<1> QED
  BY <1>3, <1>4, <1>5

\* Two tables of the same entries, each of its names once, answer alike where both answer.
LEMMA SameAnswer ==
  ASSUME NEW L \in TableType, NEW M \in TableType, NEW n,
         \A x \in EntryType : In(x, L) => In(x, M),
         \A x, y : In(x, M) /\ In(y, M) /\ x.name = y.name => x = y,
         InTable(L, n) # None
  PROVE  InTable(M, n) = InTable(L, n) /\ In(InTable(L, n), M) /\ InTable(L, n) \in EntryType
<1> DEFINE x == InTable(L, n)
<1>1. x \in EntryType /\ x.name = n /\ In(x, M)
  BY InTableIs
<1> HIDE DEF x
<1>2. InTable(M, n).name = n /\ In(InTable(M, n), M)
  BY <1>1, FindsIt
<1> QED
  BY <1>1, <1>2 DEF x

\* The scope of C that a table below ast_globalenv belongs to.
ScopeOf(l) == IF l <= 3 THEN 2 ELSE l - 1

\* What stands in a table stands in its scope, and conversely.
LEMMA TablesAreScopes ==
  ASSUME NamesInv, pc \in {"parameters", "body"}
  PROVE  /\ \A l \in 1..Len(chain) : ScopeOf(l) \in 2..Len(scopes) /\ ScopeOf(l) \in 1..Len(scopes)
         /\ \A l \in 1..Len(chain), x \in EntryType : In(x, chain[l]) => In(x, scopes[ScopeOf(l)])
         /\ \A k \in 2..Len(scopes), x \in EntryType :
              In(x, scopes[k]) => \E l \in 1..Len(chain) : ScopeOf(l) = k /\ In(x, chain[l])
<1>1. Len(chain) \in Nat /\ Len(scopes) \in Nat /\ \A x : ~In(x, << >>)
  BY LenProperties, EmptySeq DEF NamesInv, TypeInv, In
<1>2. CASE pc = "parameters"
  <2>1. Len(chain) = 1 /\ Len(scopes) = 2 /\ scopes[2] = chain[1]
    BY <1>2 DEF NamesInv, BlockScopes
  <2>2. \A l \in 1..Len(chain) : l = 1 /\ ScopeOf(l) = 2
    BY <2>1 DEF ScopeOf
  <2>3. \A k \in 2..Len(scopes) : k = 2
    BY <2>1
  <2>4. 1 \in 1..Len(chain) /\ 2 \in 1..Len(scopes) /\ 2 \in 2..Len(scopes)
    BY <2>1
  <2> QED
    BY <2>1, <2>2, <2>3, <2>4
<1>3. CASE pc = "body"
  <2>1. /\ Len(chain) >= 3 /\ Len(scopes) = Len(chain) - 1
        /\ \A x \in EntryType : In(x, scopes[2]) <=> In(x, chain[1]) \/ In(x, chain[3])
        /\ chain[2] = << >> /\ \A l \in 3..Len(scopes) : scopes[l] = chain[l + 1]
    BY <1>3 DEF NamesInv, BlockScopes
  <2>2. \A l \in 1..Len(chain) : ScopeOf(l) \in 2..Len(scopes) /\ ScopeOf(l) \in 1..Len(scopes)
    BY <1>1, <2>1 DEF ScopeOf
  <2>3. ASSUME NEW l \in 1..Len(chain), NEW x \in EntryType, In(x, chain[l])
        PROVE  In(x, scopes[ScopeOf(l)])
    <3>1. CASE l \in {1, 3}
      BY <2>1, <2>3, <3>1 DEF ScopeOf
    <3>2. CASE l = 2
      BY <1>1, <2>1, <2>3, <3>2
    <3>3. CASE l > 3
      <4>1. ScopeOf(l) = l - 1 /\ l - 1 \in 3..Len(scopes) /\ l - 1 + 1 = l
        BY <1>1, <2>1, <3>3 DEF ScopeOf
      <4> QED
        BY <2>1, <2>3, <4>1
    <3>4. l \in {1, 3} \/ l = 2 \/ l > 3
      BY <1>1
    <3> QED
      BY <3>1, <3>2, <3>3, <3>4
  <2>4. ASSUME NEW k \in 2..Len(scopes), NEW x \in EntryType, In(x, scopes[k])
        PROVE  \E l \in 1..Len(chain) : ScopeOf(l) = k /\ In(x, chain[l])
    <3>1. CASE k = 2
      <4>1. 1 \in 1..Len(chain) /\ 3 \in 1..Len(chain) /\ ScopeOf(1) = 2 /\ ScopeOf(3) = 2
        BY <1>1, <2>1 DEF ScopeOf
      <4> QED
        BY <2>1, <2>4, <3>1, <4>1
    <3>2. CASE k # 2
      <4>1. k \in 3..Len(scopes) /\ k + 1 \in 1..Len(chain) /\ ScopeOf(k + 1) = k
        BY <1>1, <2>1, <3>2 DEF ScopeOf
      <4> QED
        BY <2>1, <2>4, <4>1
    <3> QED
      BY <3>1, <3>2
  <2> QED
    BY <2>2, <2>3, <2>4
<1> QED
  BY <1>2, <1>3

\* Where the search of a name in a function ends: at file scope, no table below having it,
\* or in the innermost table that has it.
LEMMA SearchEnds ==
  ASSUME NamesInv, pc \in {"parameters", "body"}, NEW n
  PROVE  \/ /\ Search(n) = InTable(globalenv, n)
            /\ \A l \in 1..Len(chain) : InTable(chain[l], n) = None
         \/ \E l \in 1..Len(chain) :
              /\ Search(n) = InTable(chain[l], n) /\ InTable(chain[l], n) # None
              /\ \A m \in 1..Len(chain) : m > l => InTable(chain[m], n) = None
<1>1. TypeInv /\ localenv = "chain"
  BY DEF NamesInv, BlockScopes
<1>2. Search(n) = FromInside(Searched, n)
  BY <1>1 DEF Search, Searched
<1>3. /\ Searched \in Seq(TableType) /\ Len(chain) \in Nat /\ Len(Searched) = Len(chain) + 1
      /\ Searched[1] = globalenv /\ \A k \in 1..Len(chain) : Searched[k + 1] = chain[k]
      /\ \A j \in 1..Len(Searched) : j = 1 \/ (j - 1 \in 1..Len(chain) /\ Searched[j] = chain[j - 1])
  BY <1>1, SearchedAre
<1> HIDE DEF Searched
<1>4. PICK k \in 1..Len(Searched) :
        /\ k = 1 \/ InTable(Searched[k], n) # None
        /\ \A j \in 1..Len(Searched) : j > k => InTable(Searched[j], n) = None
        /\ FromInside(Searched, n) = InTable(Searched[k], n)
  <2>1. Len(Searched) >= 1
    BY <1>3
  <2> QED
    BY <1>3, <2>1, FromInsideEnds
<1>5. \A m \in 1..Len(chain) : m + 1 > k => InTable(chain[m], n) = None
  <2> SUFFICES ASSUME NEW m \in 1..Len(chain), m + 1 > k PROVE InTable(chain[m], n) = None
    OBVIOUS
  <2>1. m + 1 \in 1..Len(Searched)
    BY <1>3
  <2> QED
    BY <1>3, <1>4, <2>1
<1>6. CASE k = 1
  <2>1. \A m \in 1..Len(chain) : m + 1 > k
    BY <1>3, <1>6
  <2> QED
    BY <1>2, <1>3, <1>4, <1>5, <1>6, <2>1
<1>7. CASE k # 1
  <2>1. k - 1 \in 1..Len(chain) /\ Searched[k] = chain[k - 1]
    BY <1>3, <1>7
  <2>2. \A m \in 1..Len(chain) : m > k - 1 => m + 1 > k
    BY <1>3
  <2> QED
    BY <1>2, <1>4, <1>5, <1>7, <2>1, <2>2
<1> QED
  BY <1>6, <1>7

\* Looking a name up finds the innermost declaration in view.
LEMMA NamesAgree ==
  ASSUME NamesInv, pc \in {"parameters", "body"}, NEW n \in Names
  PROVE  Search(n) = IF Lost(Visible(n)) THEN None ELSE Visible(n)
<1>1. /\ TypeInv /\ Apart(scopes, nextId) /\ pc # "error" /\ Len(scopes) >= 1 /\ scopes \in Seq(TableType)
      /\ \A k \in 1..Len(scopes) : scopes[k] \in TableType
      /\ \A l \in 1..Len(chain) : chain[l] \in TableType
      /\ Len(scopes) \in Nat /\ Len(chain) \in Nat
  BY LenProperties DEF NamesInv, TypeInv, FileScope
<1>2. /\ \A l \in 1..Len(chain) : ScopeOf(l) \in 2..Len(scopes) /\ ScopeOf(l) \in 1..Len(scopes)
      /\ \A l \in 1..Len(chain), x \in EntryType : In(x, chain[l]) => In(x, scopes[ScopeOf(l)])
      /\ \A k \in 2..Len(scopes), x \in EntryType :
           In(x, scopes[k]) => \E l \in 1..Len(chain) : ScopeOf(l) = k /\ In(x, chain[l])
  BY TablesAreScopes
<1>3. PICK k \in 1..Len(scopes) :
        /\ k = 1 \/ InTable(scopes[k], n) # None
        /\ \A j \in 1..Len(scopes) : j > k => InTable(scopes[j], n) = None
        /\ Visible(n) = InTable(scopes[k], n)
  BY <1>1, FromInsideEnds DEF Visible
\* A scope that has the name has it in one of its tables.
<1>4. \A j \in 2..Len(scopes) : InTable(scopes[j], n) # None =>
        \E l \in 1..Len(chain) : ScopeOf(l) = j /\ InTable(chain[l], n) # None
  <2> SUFFICES ASSUME NEW j \in 2..Len(scopes), InTable(scopes[j], n) # None
               PROVE  \E l \in 1..Len(chain) : ScopeOf(l) = j /\ InTable(chain[l], n) # None
    OBVIOUS
  <2> DEFINE x == InTable(scopes[j], n)
  <2>1. scopes[j] \in TableType
    BY <1>1
  <2>2. x \in EntryType /\ x.name = n /\ In(x, scopes[j])
    BY <2>1, InTableIs
  <2> HIDE DEF x
  <2>3. PICK l \in 1..Len(chain) : ScopeOf(l) = j /\ In(x, chain[l])
    BY <1>2, <2>2
  <2>4. InTable(chain[l], n) # None
    BY <1>1, <2>2, <2>3, FindsIt
  <2> QED
    BY <2>3, <2>4
<1>5. CASE Search(n) = InTable(globalenv, n) /\ \A l \in 1..Len(chain) : InTable(chain[l], n) = None
  <2>1. k = 1
    BY <1>1, <1>3, <1>4, <1>5
  <2> QED
    BY <1>1, <1>3, <1>5, <2>1, FileLookup
<1>6. ASSUME NEW l \in 1..Len(chain),
             Search(n) = InTable(chain[l], n), InTable(chain[l], n) # None,
             \A m \in 1..Len(chain) : m > l => InTable(chain[m], n) = None
      PROVE  Search(n) = IF Lost(Visible(n)) THEN None ELSE Visible(n)
  <2> DEFINE s == ScopeOf(l)
  <2>1. s \in 2..Len(scopes) /\ s \in 1..Len(scopes)
    BY <1>2
  <2>2. \A x, y : In(x, scopes[s]) /\ In(y, scopes[s]) /\ x.name = y.name => x = y
    BY <1>1, <2>1, SameEntry
  <2>3. \A x \in EntryType : In(x, chain[l]) => In(x, scopes[s])
    BY <1>2
  <2>4. /\ InTable(scopes[s], n) = InTable(chain[l], n)
        /\ In(InTable(chain[l], n), scopes[s]) /\ InTable(chain[l], n) \in EntryType
    <3>1. chain[l] \in TableType /\ scopes[s] \in TableType
      BY <1>1, <2>1
    <3> HIDE DEF s
    <3> QED
      BY <1>6, <2>2, <2>3, <3>1, SameAnswer
  <2>5. k = s
    <3>1. k >= s
      BY <1>1, <1>3, <1>6, <2>1, <2>4
    <3>2. CASE k > s
      <4>1. k \in 2..Len(scopes) /\ InTable(scopes[k], n) # None
        BY <1>1, <1>3, <2>1, <3>2
      <4>2. PICK m \in 1..Len(chain) : ScopeOf(m) = k /\ InTable(chain[m], n) # None
        BY <1>4, <4>1
      <4>3. ~(m > l)
        BY <1>6, <4>2
      <4>4. ScopeOf(m) <= s
        BY <1>1, <4>3 DEF ScopeOf
      <4> QED
        BY <1>1, <2>1, <3>2, <4>2, <4>4
    <3> QED
      BY <1>1, <2>1, <3>1, <3>2
  <2>6. ~Lost(InTable(chain[l], n))
    BY <1>1, <2>1, <2>4, InnerFound
  <2> QED
    BY <1>3, <1>6, <2>4, <2>5, <2>6
<1> QED
  BY <1>5, <1>6, SearchEnds

\* Inside a function every name means the declaration it means in C, or one of the two the
\* compiler loses, and then nothing: for any blocks, shadowing and order of declarations.
THEOREM NamesMeanAsInC == Spec => []LookupAgrees
<1>1. NamesInv => LookupAgrees
  BY NamesAgree DEF LookupAgrees
<1> QED
  BY <1>1, NamesInvariant, PTL

\* Every variable a statement can name has a place in the frame, from any block of any depth.
THEOREM SlotForEveryVariable == Spec => []LocalsHaveSlots
<1>1. ASSUME NamesInv PROVE LocalsHaveSlots
  <2> SUFFICES ASSUME pc \in {"parameters", "body"}, NEW n \in Names,
                      Search(n) # None, Search(n).kind = "variable", InTable(globalenv, n) # Search(n)
               PROVE  \E i \in 1..Len(parameters \o locals) : (parameters \o locals)[i] = Search(n).id
    BY DEF LocalsHaveSlots
  <2>1. PICK l \in 1..Len(chain) : Search(n) = InTable(chain[l], n)
    BY <1>1, SearchEnds
  <2>2. chain[l] \in TableType /\ parameters \in Seq(Nat) /\ locals \in Seq(Nat)
    BY <1>1, LenProperties DEF NamesInv, TypeInv
  <2> DEFINE e == Search(n)
  <2>3. e \in EntryType /\ In(e, chain[l])
    BY <2>1, <2>2, InTableIs
  <2>4. In(e.id, parameters) \/ In(e.id, locals)
    BY <1>1, <2>3 DEF NamesInv, SlotsInv
  <2>5. /\ Len(parameters) \in Nat /\ Len(locals) \in Nat
        /\ Len(parameters \o locals) = Len(parameters) + Len(locals)
        /\ \A i \in 1..(Len(parameters) + Len(locals)) :
             (parameters \o locals)[i] = IF i <= Len(parameters) THEN parameters[i] ELSE locals[i - Len(parameters)]
    BY <2>2, ConcatProperties, LenProperties
  <2>6. CASE In(e.id, parameters)
    <3>1. PICK i \in 1..Len(parameters) : parameters[i] = e.id
      BY <2>6 DEF In
    <3>2. i \in 1..(Len(parameters) + Len(locals)) /\ i <= Len(parameters)
      BY <2>5
    <3> QED
      BY <2>5, <3>1, <3>2
  <2>7. CASE In(e.id, locals)
    <3>1. PICK i \in 1..Len(locals) : locals[i] = e.id
      BY <2>7 DEF In
    <3> DEFINE j == Len(parameters) + i
    <3>2. j \in 1..(Len(parameters) + Len(locals)) /\ ~(j <= Len(parameters)) /\ j - Len(parameters) = i
      BY <2>5
    <3>3. (parameters \o locals)[j] = locals[i]
      BY <2>5, <3>2
    <3> QED
      BY <2>5, <3>1, <3>2, <3>3
  <2> QED
    BY <2>4, <2>6, <2>7
<1> QED
  BY <1>1, NamesInvariant, PTL

-----------------------------------------------------------------------------
(* parse_label_backfill, a loop over the gotos of a function.              *)

\* The states of the loop.
Jumps == [labels : [1..Len(labels) -> JumpType], gotos : [1..Len(gotos) -> JumpType], next : Nat \ {0}]

\* The place of the label that a goto names.
Aim(i) == CHOOSE d \in LabelNamed(gotos[i].name) : TRUE

\* When the '}' of a function is read: what JumpsInv says, and no goto without its label.
Fillable ==
  /\ labels \in Seq(JumpType) /\ gotos \in Seq(JumpType) /\ nextLabel \in Nat \ {0}
  /\ \A d \in 1..Len(labels) : labels[d].where = 0
  /\ \A c, d \in 1..Len(labels) : labels[c].name = labels[d].name => c = d
  /\ \A i \in 1..Len(gotos) : LabelNamed(gotos[i].name) # {}

\* One round leaves a state of the loop.
LEMMA FilledJumps ==
  ASSUME NEW j \in Jumps, NEW i \in 1..Len(gotos), NEW d \in 1..Len(labels)
  PROVE  Filled(j, i, d) \in Jumps
<1>1. /\ j.labels \in [1..Len(labels) -> JumpType] /\ j.gotos \in [1..Len(gotos) -> JumpType]
      /\ j.next \in Nat \ {0} /\ j.labels[d] \in JumpType /\ j.gotos[i] \in JumpType
  BY DEF Jumps
<1>2. \A g \in JumpType, w \in Nat : [g EXCEPT !.where = w] \in JumpType
  BY DEF JumpType
<1>3. j.labels[d].where \in Nat /\ j.next + 1 \in Nat \ {0}
  BY <1>1 DEF JumpType
<1>4. CASE j.labels[d].where # 0
  <2>1. Filled(j, i, d) = [j EXCEPT !.gotos = [j.gotos EXCEPT ![i] = [j.gotos[i] EXCEPT !.where = j.labels[d].where]]]
    BY <1>4 DEF Filled, Jumps
  <2>2. [j.gotos[i] EXCEPT !.where = j.labels[d].where] \in JumpType
    BY <1>1, <1>2, <1>3
  <2>3. [j.gotos EXCEPT ![i] = [j.gotos[i] EXCEPT !.where = j.labels[d].where]] \in [1..Len(gotos) -> JumpType]
    BY <1>1, <2>2
  <2> QED
    BY <1>1, <2>1, <2>3 DEF Jumps
<1>5. CASE j.labels[d].where = 0
  <2>1. Filled(j, i, d) =
          [labels |-> [j.labels EXCEPT ![d] = [j.labels[d] EXCEPT !.where = j.next]],
           gotos  |-> [j.gotos EXCEPT ![i] = [j.gotos[i] EXCEPT !.where = j.next]],
           next   |-> j.next + 1]
    BY <1>5 DEF Filled, Jumps
  <2>2. /\ [j.labels[d] EXCEPT !.where = j.next] \in JumpType
        /\ [j.gotos[i] EXCEPT !.where = j.next] \in JumpType
    BY <1>1, <1>2
  <2>3. /\ [j.labels EXCEPT ![d] = [j.labels[d] EXCEPT !.where = j.next]] \in [1..Len(labels) -> JumpType]
        /\ [j.gotos EXCEPT ![i] = [j.gotos[i] EXCEPT !.where = j.next]] \in [1..Len(gotos) -> JumpType]
    BY <1>1, <2>2
  <2> QED
    BY <1>1, <1>3, <2>1, <2>3 DEF Jumps
<1> QED
  BY <1>4, <1>5

\* The rounds of the loop, one after another.
LEMMA FillingsAre ==
  ASSUME Fillable
  PROVE  /\ Len(gotos) \in Nat
         /\ Fillings[0] = [labels |-> labels, gotos |-> gotos, next |-> nextLabel]
         /\ Fillings[0] \in Jumps
         /\ \A i \in 1..Len(gotos) : Aim(i) \in 1..Len(labels) /\ labels[Aim(i)].name = gotos[i].name
         /\ \A i \in 1..Len(gotos) : Fillings[i] = Filled(Fillings[i - 1], i, Aim(i))
<1>1. /\ Len(gotos) \in Nat /\ Len(labels) \in Nat
      /\ labels \in [1..Len(labels) -> JumpType] /\ gotos \in [1..Len(gotos) -> JumpType]
  BY LenProperties DEF Fillable
<1> DEFINE start == [labels |-> labels, gotos |-> gotos, next |-> nextLabel]
           n     == Len(gotos)
           body  == [p \in Jumps \X (1..n) |-> Filled(p[1], p[2], Aim(p[2]))]
<1>2. start \in Jumps
  BY <1>1 DEF Jumps, Fillable
<1>3. \A i \in 1..n : Aim(i) \in 1..Len(labels) /\ labels[Aim(i)].name = gotos[i].name
  BY DEF Fillable, Aim, LabelNamed
<1>4. \A s \in Jumps : \A i \in 1..n : body[<<s, i>>] = Filled(s, i, Aim(i)) /\ body[<<s, i>>] \in Jumps
  BY <1>3, FilledJumps
<1> HIDE DEF body, start
<1>5. PICK f \in [0..n -> Jumps] : f[0] = start /\ \A i \in 1..n : f[i] = body[<<f[i - 1], i>>]
  <2>1. Stays(Jumps, n, body)
    BY <1>4 DEF Stays
  <2>2. Runs(Jumps, start, n, body) # {}
    BY <1>1, <1>2, <2>1, RoundsExist
  <2> QED
    BY <2>2 DEF Runs
<1>6. \A i \in 1..n : f[i] = Filled(f[i - 1], i, Aim(i))
  <2> SUFFICES ASSUME NEW i \in 1..n PROVE f[i] = Filled(f[i - 1], i, Aim(i))
    OBVIOUS
  <2>1. i - 1 \in 0..n
    BY <1>1
  <2> QED
    BY <1>4, <1>5, <2>1
<1> DEFINE Loop(g) == [i \in 0..Len(gotos) |->
                        IF i = 0 THEN [labels |-> labels, gotos |-> gotos, next |-> nextLabel]
                        ELSE Filled(g[i - 1], i, CHOOSE d \in LabelNamed(gotos[i].name) : TRUE)]
<1>7. f = Loop(f)
  <2>1. \A i \in 0..n : f[i] = Loop(f)[i]
    <3> SUFFICES ASSUME NEW i \in 0..n PROVE f[i] = Loop(f)[i]
      OBVIOUS
    <3>1. CASE i = 0
      BY <1>1, <1>5, <3>1 DEF start
    <3>2. CASE i # 0
      <4>1. i \in 1..n
        BY <1>1, <3>2
      <4> QED
        BY <1>6, <3>2, <4>1 DEF Aim
    <3> QED
      BY <3>1, <3>2
  <2> QED
    BY <1>5, <2>1
<1>8. Fillings = Loop(Fillings)
  <2> HIDE DEF Loop
  <2>1. Fillings = CHOOSE g : g = Loop(g)
    BY DEF Fillings, Loop
  <2> QED
    BY <1>7, <2>1
<1>9. Fillings[0] = start
  BY <1>1, <1>8 DEF start
<1>10. \A i \in 1..n : Fillings[i] = Filled(Fillings[i - 1], i, Aim(i))
  <2> SUFFICES ASSUME NEW i \in 1..n PROVE Fillings[i] = Filled(Fillings[i - 1], i, Aim(i))
    OBVIOUS
  <2>1. i \in 0..n /\ i # 0
    BY <1>1
  <2> QED
    BY <1>8, <2>1 DEF Aim
<1> QED
  BY <1>1, <1>2, <1>3, <1>9, <1>10 DEF start

\* After i rounds: the assembler labels given out are below the next one and all different, and
\* the gotos up to the i-th have those of the labels they name.
FilledTo(i, j) ==
  /\ j \in Jumps
  /\ \A d \in 1..Len(labels) : j.labels[d].name = labels[d].name /\ j.labels[d].where < j.next
  /\ \A c, d \in 1..Len(labels) : j.labels[c].where = j.labels[d].where /\ j.labels[c].where # 0 => c = d
  /\ \A k \in 1..Len(gotos) : j.gotos[k].name = gotos[k].name
  /\ \A k \in 1..i : j.gotos[k].where # 0 /\ j.gotos[k].where = j.labels[Aim(k)].where

\* One round fills one goto more, and takes from none what it has.
LEMMA FilledOne ==
  ASSUME Fillable, NEW i \in 1..Len(gotos), NEW j, FilledTo(i - 1, j)
  PROVE  FilledTo(i, Filled(j, i, Aim(i)))
<1> DEFINE d == Aim(i)
           m == Filled(j, i, d)
<1>1. /\ Len(gotos) \in Nat /\ Len(labels) \in Nat
      /\ \A k \in 1..Len(gotos) : Aim(k) \in 1..Len(labels)
      /\ d \in 1..Len(labels) /\ \A k \in 1..i : k \in 1..Len(gotos) /\ (k = i \/ k \in 1..(i - 1))
  <2>1. /\ Len(gotos) \in Nat /\ Len(labels) \in Nat /\ \A k \in 1..Len(gotos) : Aim(k) \in 1..Len(labels)
    BY FillingsAre, LenProperties DEF Fillable
  <2> QED
    BY <2>1
<1>2. m \in Jumps
  BY <1>1, FilledJumps DEF FilledTo
<1>3. /\ j.labels \in [1..Len(labels) -> JumpType] /\ j.gotos \in [1..Len(gotos) -> JumpType]
      /\ j.next \in Nat \ {0}
      /\ \A k \in 1..Len(gotos) : j.gotos[k] \in [name : LabelNames, where : Nat]
      /\ \A e \in 1..Len(labels) : j.labels[e] \in [name : LabelNames, where : Nat]
  BY DEF FilledTo, Jumps, JumpType
<1> HIDE DEF d
<1>4. ASSUME j.labels[d].where # 0 PROVE FilledTo(i, m)
  <2>1. /\ m.labels = j.labels /\ m.next = j.next
        /\ m.gotos = [j.gotos EXCEPT ![i] = [j.gotos[i] EXCEPT !.where = j.labels[d].where]]
    BY <1>4 DEF Filled, FilledTo, Jumps
  <2> HIDE DEF m
  <2>2. /\ m.gotos[i].where = j.labels[d].where /\ m.gotos[i].name = j.gotos[i].name
        /\ \A k \in 1..Len(gotos) : k # i => m.gotos[k] = j.gotos[k]
    BY <1>3, <2>1
  <2>3. \A k \in 1..Len(gotos) : m.gotos[k].name = gotos[k].name
    BY <2>2 DEF FilledTo
  <2>4. \A k \in 1..i : m.gotos[k].where # 0 /\ m.gotos[k].where = m.labels[Aim(k)].where
    <3> SUFFICES ASSUME NEW k \in 1..i
                 PROVE  m.gotos[k].where # 0 /\ m.gotos[k].where = m.labels[Aim(k)].where
      OBVIOUS
    <3>1. CASE k = i
      BY <1>4, <2>1, <2>2, <3>1 DEF d
    <3>2. CASE k # i
      <4>1. k \in 1..(i - 1) /\ k \in 1..Len(gotos)
        BY <1>1, <3>2
      <4> QED
        BY <2>1, <2>2, <3>2, <4>1 DEF FilledTo
    <3> QED
      BY <3>1, <3>2
  <2> QED
    BY <1>2, <2>1, <2>3, <2>4 DEF FilledTo, m
<1>5. ASSUME j.labels[d].where = 0 PROVE FilledTo(i, m)
  <2>1. /\ m.labels = [j.labels EXCEPT ![d] = [j.labels[d] EXCEPT !.where = j.next]]
        /\ m.gotos = [j.gotos EXCEPT ![i] = [j.gotos[i] EXCEPT !.where = j.next]]
        /\ m.next = j.next + 1
    BY <1>5 DEF Filled, FilledTo, Jumps
  <2> HIDE DEF m
  <2>2. /\ m.gotos[i].where = j.next /\ m.gotos[i].name = j.gotos[i].name
        /\ \A k \in 1..Len(gotos) : k # i => m.gotos[k] = j.gotos[k]
    BY <1>3, <2>1
  <2>3. /\ m.labels[d].where = j.next /\ m.labels[d].name = j.labels[d].name
        /\ \A e \in 1..Len(labels) : e # d => m.labels[e] = j.labels[e]
    BY <1>1, <1>3, <2>1
  <2>4. \A k \in 1..Len(gotos) : m.gotos[k].name = gotos[k].name
    BY <2>2 DEF FilledTo
  <2>5. \A e \in 1..Len(labels) : m.labels[e].name = labels[e].name /\ m.labels[e].where < m.next
    <3> SUFFICES ASSUME NEW e \in 1..Len(labels)
                 PROVE  m.labels[e].name = labels[e].name /\ m.labels[e].where < m.next
      OBVIOUS
    <3>1. j.labels[e].name = labels[e].name /\ j.labels[e].where < j.next /\ j.labels[e].where \in Nat
      BY <1>3 DEF FilledTo
    <3> QED
      BY <1>3, <2>1, <2>3, <3>1
  <2>6. \A c, e \in 1..Len(labels) : m.labels[c].where = m.labels[e].where /\ m.labels[c].where # 0 => c = e
    <3>1. \A e \in 1..Len(labels) : j.labels[e].where # j.next
      BY <1>3 DEF FilledTo
    <3> QED
      BY <2>3, <3>1 DEF FilledTo
  <2>7. \A k \in 1..i : m.gotos[k].where # 0 /\ m.gotos[k].where = m.labels[Aim(k)].where
    <3> SUFFICES ASSUME NEW k \in 1..i
                 PROVE  m.gotos[k].where # 0 /\ m.gotos[k].where = m.labels[Aim(k)].where
      OBVIOUS
    <3>1. CASE k = i
      BY <1>3, <2>2, <2>3, <3>1 DEF d
    <3>2. CASE k # i
      <4>1. k \in 1..(i - 1) /\ k \in 1..Len(gotos) /\ Aim(k) \in 1..Len(labels)
        BY <1>1, <3>2
      <4>2. j.gotos[k].where # 0 /\ j.gotos[k].where = j.labels[Aim(k)].where
        BY <4>1 DEF FilledTo
      <4>3. Aim(k) # d
        BY <1>5, <4>2
      <4> QED
        BY <2>2, <2>3, <3>2, <4>1, <4>2, <4>3
    <3> QED
      BY <3>1, <3>2
  <2> QED
    BY <1>2, <2>4, <2>5, <2>6, <2>7 DEF FilledTo, m
<1>6. FilledTo(i, m)
  BY <1>4, <1>5
<1> QED
  BY <1>6 DEF d

\* When the loop has ended every goto has the assembler label of its own label.
LEMMA BackfilledAll ==
  ASSUME Fillable
  PROVE  FilledTo(Len(gotos), Backfilled)
<1>1. Len(gotos) \in Nat /\ Fillings[0] \in Jumps
      /\ Fillings[0] = [labels |-> labels, gotos |-> gotos, next |-> nextLabel]
      /\ \A i \in 1..Len(gotos) : Fillings[i] = Filled(Fillings[i - 1], i, Aim(i))
  BY FillingsAre
<1> DEFINE T == {i \in 0..Len(gotos) : FilledTo(i, Fillings[i])}
<1>2. 0 \in T
  <2>1. FilledTo(0, Fillings[0])
    BY <1>1 DEF FilledTo, Fillable
  <2> QED
    BY <1>1, <2>1
<1>3. \A i \in 1..Len(gotos) : i - 1 \in T => i \in T
  <2> SUFFICES ASSUME NEW i \in 1..Len(gotos), i - 1 \in T PROVE i \in T
    OBVIOUS
  <2>1. FilledTo(i - 1, Fillings[i - 1])
    OBVIOUS
  <2>2. FilledTo(i, Filled(Fillings[i - 1], i, Aim(i)))
    BY <2>1, FilledOne
  <2> QED
    BY <1>1, <2>2
<1>4. \A i \in 0..Len(gotos) : i \in T
  <2> HIDE DEF T
  <2> QED
    BY <1>1, <1>2, <1>3, BoundedInduction
<1>5. Len(gotos) \in 0..Len(gotos)
  BY <1>1
<1> QED
  BY <1>4, <1>5 DEF Backfilled

-----------------------------------------------------------------------------
(* Gotos.                                                                  *)

\* With no function there are no gotos.
LEMMA JumpsInit == Init => JumpsInv
<1> SUFFICES ASSUME Init PROVE JumpsInv
  OBVIOUS
<1>1. << >> \in Seq(JumpType) /\ Len(<< >>) = 0
  BY EmptySeq
<1>2. GotosResolved
  BY <1>1 DEF Init, GotosResolved
<1> QED
  BY <1>1, <1>2 DEF Init, JumpsInv

\* The end of a function: either a goto has no label, or all of them lead to theirs.
LEMMA JumpsResolved ==
  ASSUME JumpsInv, EndFunction
  PROVE  JumpsInv'
<1>0. pc = "body"
  BY DEF EndFunction
<1>1. CASE \E i \in 1..Len(gotos) : LabelNamed(gotos[i].name) = {}
  <2>1. pc' = "error" /\ labels' = labels /\ gotos' = gotos /\ nextLabel' = nextLabel
    BY <1>1 DEF EndFunction, jumps
  <2> QED
    BY <2>1 DEF JumpsInv, GotosResolved
<1>2. CASE ~\E i \in 1..Len(gotos) : LabelNamed(gotos[i].name) = {}
  <2> DEFINE b == Backfilled
             p == Len(labels)
             q == Len(gotos)
  <2>1. pc' = "file" /\ labels' = b.labels /\ gotos' = b.gotos /\ nextLabel' = b.next
    BY <1>2 DEF EndFunction
  <2>2. Fillable
    BY <1>0, <1>2 DEF JumpsInv, Fillable
  <2>3. FilledTo(q, b)
    BY <2>2, BackfilledAll
  <2>4. p \in Nat /\ q \in Nat
    BY <2>2, LenProperties DEF Fillable
  <2>5. \A i \in 1..q : Aim(i) \in 1..p /\ labels[Aim(i)].name = gotos[i].name
    BY <2>2, FillingsAre
  <2> HIDE DEF b
  <2>6. labels' \in [1..p -> JumpType] /\ gotos' \in [1..q -> JumpType] /\ nextLabel' \in Nat \ {0}
    BY <2>1, <2>3 DEF FilledTo, Jumps
  <2>7. /\ labels' \in Seq(JumpType) /\ Len(labels') = p
        /\ gotos' \in Seq(JumpType) /\ Len(gotos') = q
    <3>1. ASSUME NEW n \in Nat, NEW f \in [1..n -> JumpType] PROVE f \in Seq(JumpType) /\ Len(f) = n
      BY <3>1
    <3> QED
      BY <2>4, <2>6, <3>1
  <2>8. ASSUME NEW i \in 1..q
        PROVE  gotos'[i].where # 0 /\ gotos'[i].where = labels'[Aim(i)].where /\ gotos'[i].name = gotos[i].name
    BY <2>1, <2>3 DEF FilledTo
  <2>9. ASSUME NEW i \in 1..q
        PROVE  \E d \in 1..p : labels'[d].name = gotos'[i].name /\ labels'[d].where = gotos'[i].where
    <3>1. labels'[Aim(i)].name = labels[Aim(i)].name
      BY <2>1, <2>3, <2>5 DEF FilledTo
    <3> QED
      BY <2>5, <2>8, <3>1
  <2>10. ASSUME NEW i \in 1..q, NEW j \in 1..q
         PROVE  gotos'[i].where = gotos'[j].where <=> gotos'[i].name = gotos'[j].name
    <3>1. CASE gotos[i].name = gotos[j].name
      <4>1. Aim(i) = Aim(j)
        BY <3>1 DEF Aim
      <4> QED
        BY <2>8, <3>1, <4>1
    <3>2. CASE gotos[i].name # gotos[j].name
      <4>1. Aim(i) # Aim(j)
        BY <2>5, <3>2
      <4>2. labels'[Aim(i)].where # labels'[Aim(j)].where
        BY <2>1, <2>3, <2>5, <2>8, <4>1 DEF FilledTo
      <4> QED
        BY <2>8, <3>2, <4>2
    <3> QED
      BY <3>1, <3>2
  <2>11. GotosResolved'
    BY <2>7, <2>8, <2>9, <2>10 DEF GotosResolved, LabelNamed
  <2> QED
    BY <2>1, <2>6, <2>7, <2>11 DEF JumpsInv
<1> QED
  BY <1>1, <1>2

\* Every step keeps the invariant of labels and gotos.
LEMMA JumpsStep == JumpsInv /\ [Next]_vars => JumpsInv'
<1> SUFFICES ASSUME JumpsInv, [Next]_vars PROVE JumpsInv'
  OBVIOUS
<1>0. \A l \in LabelNames : [name |-> l, where |-> 0] \in JumpType
  BY DEF JumpType
\* The file is read on, and GotosResolved speaks of the function before.
<1>1. ASSUME UNCHANGED jumps, pc' = pc \/ (pc = "parameters" /\ pc' = "body")
      PROVE  JumpsInv'
  <2>1. labels' = labels /\ gotos' = gotos /\ nextLabel' = nextLabel
    BY <1>1 DEF jumps
  <2>2. CASE pc' = pc
    <3>1. GotosResolved'
      BY <2>1, <2>2 DEF JumpsInv, GotosResolved, LabelNamed
    <3> QED
      BY <2>1, <2>2, <3>1 DEF JumpsInv
  <2>3. CASE pc = "parameters" /\ pc' = "body"
    BY <2>1, <2>3 DEF JumpsInv, GotosResolved
  <2> QED
    BY <1>1, <2>2, <2>3
<1>2. ASSUME NEW n \in Names, BeginFunction(n) PROVE JumpsInv'
  <2>1. pc' = "parameters" /\ labels' = << >> /\ gotos' = << >> /\ nextLabel' = nextLabel
    BY <1>2 DEF BeginFunction
  <2>2. << >> \in Seq(JumpType) /\ Len(<< >>) = 0
    BY EmptySeq
  <2> QED
    BY <2>1, <2>2 DEF JumpsInv, GotosResolved
<1>3. ASSUME NEW l \in LabelNames, Goto(l) PROVE JumpsInv'
  <2>1. /\ pc = "body" /\ pc' = "body" /\ gotos' = Append(gotos, [name |-> l, where |-> 0])
        /\ labels' = labels /\ nextLabel' = nextLabel
    BY <1>3 DEF Goto
  <2>2. /\ gotos' \in Seq(JumpType) /\ Len(gotos') = Len(gotos) + 1
        /\ gotos'[Len(gotos')].where = 0
        /\ \A i \in 1..Len(gotos) : gotos'[i] = gotos[i]
        /\ \A i \in 1..Len(gotos') : i \in 1..Len(gotos) \/ i = Len(gotos')
    BY <1>0, <2>1, Pushed DEF JumpsInv
  <2>3. \A i \in 1..Len(gotos') : gotos'[i].where = 0
    BY <2>1, <2>2 DEF JumpsInv
  <2> QED
    BY <2>1, <2>2, <2>3 DEF JumpsInv, GotosResolved
<1>4. ASSUME NEW l \in LabelNames, Label(l) PROVE JumpsInv'
  <2>0. pc = "body" /\ gotos' = gotos /\ nextLabel' = nextLabel
    BY <1>4 DEF Label
  <2>1. CASE LabelNamed(l) = {}
    <3>1. pc' = "body" /\ labels' = Append(labels, [name |-> l, where |-> 0])
      BY <1>4, <2>0, <2>1 DEF Label
    <3>2. /\ labels' \in Seq(JumpType) /\ Len(labels') = Len(labels) + 1
          /\ labels'[Len(labels')] = [name |-> l, where |-> 0]
          /\ \A i \in 1..Len(labels) : labels'[i] = labels[i]
          /\ \A i \in 1..Len(labels') : i \in 1..Len(labels) \/ i = Len(labels')
      BY <1>0, <3>1, Pushed DEF JumpsInv
    <3>3. \A i \in 1..Len(labels) : labels[i].name # l
      BY <2>1 DEF LabelNamed
    <3>4. \A i \in 1..Len(labels') : labels'[i].where = 0
      BY <2>0, <3>2 DEF JumpsInv
    <3>5. \A c, d \in 1..Len(labels') : labels'[c].name = labels'[d].name => c = d
      BY <2>0, <3>2, <3>3 DEF JumpsInv
    <3> QED
      BY <2>0, <3>1, <3>2, <3>4, <3>5 DEF JumpsInv, GotosResolved
  <2>2. CASE LabelNamed(l) # {}
    <3>1. pc' = "error" /\ labels' = labels
      BY <1>4, <2>2 DEF Label
    <3> QED
      BY <2>0, <3>1 DEF JumpsInv, GotosResolved
  <2> QED
    BY <2>1, <2>2
<1>5. ASSUME NEW n \in Names, NEW k \in {"variable", "prototype"}, Global(n, k) \/ Local(n, k) PROVE JumpsInv'
  <2>1. UNCHANGED jumps /\ pc' = pc
    BY <1>5 DEF Global, Local
  <2> QED
    BY <2>1, <1>1
<1>6. ASSUME NEW n \in Names, Enumerator(n) \/ Parameter(n) PROVE JumpsInv'
  <2>1. UNCHANGED jumps /\ pc' = pc
    BY <1>6 DEF Enumerator, Parameter
  <2> QED
    BY <2>1, <1>1
<1>7. CASE BeginBody \/ Open \/ Close \/ UNCHANGED vars
  <2>1. UNCHANGED jumps /\ (pc' = pc \/ (pc = "parameters" /\ pc' = "body"))
    BY <1>7 DEF BeginBody, Open, Close, vars, jumps
  <2> QED
    BY <2>1, <1>1
<1> QED
  BY <1>2, <1>3, <1>4, <1>5, <1>6, <1>7, JumpsResolved DEF Next

\* After a function its gotos lead to the labels they name, however many there are of both
\* and in whatever order they stand.
THEOREM GotosLeadToLabels == Spec => []GotosResolved
<1>1. JumpsInv => GotosResolved
  BY DEF JumpsInv
<1> QED
  BY <1>1, JumpsInit, JumpsStep, PTL DEF Spec
=============================================================================
