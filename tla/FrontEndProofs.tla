---------------------------- MODULE FrontEndProofs ----------------------------
(***************************************************************************)
(* The front end is correct for every set of programs that the grammar     *)
(* derives, every capacity of the table and of the stacks, and any number  *)
(* of compilations: each handler uses the symbol table as Scoping allows,  *)
(* takes the lexeme that is its own, and leaves a tree that refers only to *)
(* symbols there are; what does not fit is never translated.               *)
(***************************************************************************)
EXTENDS FrontEnd, AstTreeProofs

USE SymbolTableAssumption, StackAssumption, FrontEndAssumption

------------------------------------------------------------------------------
(* What the engine reports. *)
Reports == [act  : {"read", "reduce"},
            rule : STRING \cup {None},
            alt  : STRING \cup {None},
            text : Lexemes \cup {None}]

ReportOK(e) ==
  /\ e \in Reports
  /\ e.act = "read" => e.rule = None /\ e.text \in Lexemes
  /\ e.act = "reduce" => (Takes(e) <=> e.text # None)
  /\ e.rule = "Basic-Types" => e.alt \in DataTypes

EventsOK == events \in Seq(Reports) /\ \A i \in DOMAIN events : ReportOK(events[i])

InClass(moves) ==
  /\ Precedes("Access-Modifier", InClasses, moves)
  /\ \E i \in DOMAIN moves : moves[i].rule = "Access-Modifier"

(* No name is declared before a type has been read. *)
TypesComeFirst == typeName # None \/ Precedes("Basic-Types", Declaring, events)

(* There is a root when the loop is left: a handler that may end it        *)
(* belongs to a class, whose modifier has become a leaf by then.           *)
NodesStand ==
  /\ phase = "parsing" => Standing(ast) \/ InClass(events)
  /\ phase = "stopped" => Standing(ast)

AcceptedFits == accepted => ~symtab.overflowed /\ phase # "parsing"

(* The inductive invariant. *)
FrontEndInv ==
  /\ TypeOK
  /\ EventsOK
  /\ WellFormed(symtab)
  /\ TreeOK(ast, Len(symtab.symbols))
  /\ TypesComeFirst
  /\ NodesStand
  /\ AcceptedFits
  /\ phase # "idle" => compiles # 0
  /\ OverflowNeverTranslated

------------------------------------------------------------------------------
LEMMA FirstOfRest ==
  ASSUME NEW S, NEW s \in Seq(S), s # <<>>
  PROVE  /\ Tail(s) \in Seq(S)
         /\ Len(s) \in Nat \ {0}
         /\ DOMAIN s = 1 .. Len(s)
         /\ DOMAIN Tail(s) = 1 .. Len(s) - 1
         /\ Head(s) = s[1]
         /\ \A i \in 1 .. Len(s) - 1 : Tail(s)[i] = s[i + 1]
  OBVIOUS

(* What precedes goes on doing so, until it has happened. *)
LEMMA PrecedesInTail ==
  ASSUME NEW s \in Seq(Reports), s # <<>>, NEW rule, NEW rules,
         Precedes(rule, rules, s), Head(s).rule # rule
  PROVE  Precedes(rule, rules, Tail(s)) /\ Head(s).rule \notin rules
  <1> DEFINE u == Tail(s)
  <1>1. /\ Len(s) \in Nat \ {0} /\ DOMAIN s = 1 .. Len(s) /\ DOMAIN u = 1 .. Len(s) - 1
        /\ Head(s) = s[1] /\ \A i \in 1 .. Len(s) - 1 : u[i] = s[i + 1]
    BY FirstOfRest
  <1> HIDE DEF u
  <1>2. ASSUME NEW i \in DOMAIN u, u[i].rule \in rules
        PROVE  \E j \in 1 .. i - 1 : u[j].rule = rule
    <2>1. i + 1 \in DOMAIN s /\ s[i + 1].rule \in rules
      BY <1>1, <1>2
    <2>2. PICK j \in 1 .. (i + 1) - 1 : s[j].rule = rule
      BY <2>1 DEF Precedes
    <2>3. j # 1
      BY <1>1, <2>2
    <2>4. j - 1 \in 1 .. i - 1 /\ j - 1 \in 1 .. Len(s) - 1 /\ (j - 1) + 1 = j
      BY <1>1, <2>2, <2>3
    <2>5. u[j - 1] = s[j]
      BY <1>1, <2>4
    <2>6. QED
      BY <2>2, <2>4, <2>5
  <1>3. Head(s).rule \notin rules
    <2>1. SUFFICES ASSUME s[1].rule \in rules PROVE FALSE
      BY <1>1
    <2>2. \E j \in 1 .. 1 - 1 : s[j].rule = rule
      BY <1>1, <2>1 DEF Precedes
    <2>3. QED
      BY <2>2
  <1>4. QED
    BY <1>2, <1>3 DEF Precedes, u

LEMMA InClassInTail ==
  ASSUME NEW s \in Seq(Reports), s # <<>>, InClass(s), Head(s).rule # "Access-Modifier"
  PROVE  InClass(Tail(s)) /\ Head(s).rule \notin InClasses
  <1> DEFINE u == Tail(s)
  <1>1. /\ Len(s) \in Nat \ {0} /\ DOMAIN s = 1 .. Len(s) /\ DOMAIN u = 1 .. Len(s) - 1
        /\ Head(s) = s[1] /\ \A i \in 1 .. Len(s) - 1 : u[i] = s[i + 1]
    BY FirstOfRest
  <1>2. Precedes("Access-Modifier", InClasses, u) /\ Head(s).rule \notin InClasses
    BY PrecedesInTail DEF InClass
  <1> HIDE DEF u
  <1>3. PICK i \in DOMAIN s : s[i].rule = "Access-Modifier"
    BY DEF InClass
  <1>4. i # 1 /\ i \in 1 .. Len(s)
    BY <1>1, <1>3
  <1>5. i - 1 \in 1 .. Len(s) - 1 /\ (i - 1) + 1 = i
    BY <1>1, <1>4
  <1>6. i - 1 \in DOMAIN u /\ u[i - 1] = s[i]
    BY <1>1, <1>5
  <1>7. QED
    BY <1>2, <1>3, <1>6 DEF InClass, u

------------------------------------------------------------------------------
(* The text of the token read next is a lexeme. *)
LEMMA NextTokenRead ==
  ASSUME NEW moves \in Seq(Moves), NEW i \in 0 .. Len(moves),
         \A j \in DOMAIN moves : moves[j].act = "shift" => moves[j].text # None
  PROVE  LET e == NextToken(moves, i)
         IN  /\ e.act = "read" /\ e.rule = None /\ e.alt = None
             /\ e.text \in Lexemes
             /\ e \in Reports
  <1> DEFINE later == {j \in i + 1 .. Len(moves) : moves[j].act = "shift"}
             next  == CHOOSE j \in later : \A k \in later : j <= k
             text  == IF later = {} THEN Keyword ELSE moves[next].text
  <1>1. NextToken(moves, i) = [act |-> "read", rule |-> None, alt |-> None, text |-> text]
    BY DEF NextToken
  <1>2. Keyword \in Lexemes
    OBVIOUS
  <1>3. ASSUME later # {}
        PROVE  moves[next].text \in Lexemes
    <2>1. later \in SUBSET Nat
      OBVIOUS
    <2> HIDE DEF later
    <2>2. \E j \in later : \A k \in later : j <= k
      BY <1>3, <2>1, LeastOf
    <2>3. next \in later
      BY <2>2
    <2> HIDE DEF next
    <2>4. next \in DOMAIN moves /\ moves[next].act = "shift"
      BY <2>3 DEF later
    <2>5. moves[next] \in Moves
      BY <2>4
    <2>6. QED
      BY <2>4, <2>5 DEF Moves
  <1>4. text \in Lexemes
    BY <1>2, <1>3
  <1> HIDE DEF text
  <1>5. QED
    BY <1>1, <1>4 DEF Reports

(* The reports are as many as the moves and one more. *)
LEMMA EventAt ==
  ASSUME NEW moves \in Seq(Moves)
  PROVE  /\ Len(moves) \in Nat /\ DOMAIN moves = 1 .. Len(moves)
         /\ DOMAIN Events(moves) = 1 .. Len(moves) + 1
         /\ Len(Events(moves)) = Len(moves) + 1
         /\ IsSeq(Events(moves))
         /\ Events(moves)[1] = NextToken(moves, 0)
         /\ \A i \in 1 .. Len(moves) :
              Events(moves)[i + 1] = IF moves[i].act = "shift" THEN NextToken(moves, i) ELSE moves[i]
  <1> DEFINE n    == Len(moves)
             f(i) == IF moves[i].act = "shift" THEN NextToken(moves, i) ELSE moves[i]
             rest == [i \in DOMAIN moves |-> f(i)]
             e    == NextToken(moves, 0)
  <1>1. n \in Nat /\ DOMAIN moves = 1 .. n
    OBVIOUS
  <1>2. Events(moves) = <<e>> \o rest
    BY DEF Events
  <1> DEFINE T == {e} \cup {f(i) : i \in 1 .. n}
  <1>3. rest \in Seq(T) /\ Len(rest) = n /\ \A i \in 1 .. n : rest[i] = f(i)
    <2> HIDE DEF f, e, n
    <2>1. \A i \in 1 .. n : f(i) \in T
      OBVIOUS
    <2> HIDE DEF T
    <2>2. QED
      BY <1>1, <2>1
  <1>4. <<e>> \in Seq(T) /\ Len(<<e>>) = 1 /\ <<e>>[1] = e
    <2> HIDE DEF e, f, n
    <2>1. e \in T
      OBVIOUS
    <2> HIDE DEF T
    <2>2. QED
      BY <2>1
  <1> HIDE DEF T, rest, e, f, n
  <1>5. /\ Len(<<e>> \o rest) = n + 1
        /\ DOMAIN (<<e>> \o rest) = 1 .. n + 1
        /\ <<e>> \o rest \in Seq(T)
        /\ (<<e>> \o rest)[1] = e
        /\ \A i \in 1 .. n : (<<e>> \o rest)[i + 1] = rest[i]
    BY <1>1, <1>3, <1>4
  <1>6. QED
    BY <1>1, <1>2, <1>3, <1>5, IsSeqOver DEF e, f, n

(* What the engine reports of a program has the shape the handlers rely on. *)
LEMMA EventsShape ==
  ASSUME NEW moves, Derivation(moves)
  PROVE  /\ Events(moves) \in Seq(Reports)
         /\ \A i \in DOMAIN Events(moves) : ReportOK(Events(moves)[i])
         /\ Precedes("Basic-Types", Declaring, Events(moves))
         /\ InClass(Events(moves))
  <1> DEFINE e == Events(moves)
             n == Len(moves)
  <1>1. /\ moves \in Seq(Moves)
        /\ \A i \in DOMAIN moves :
             /\ moves[i].act = "shift" => moves[i].rule = None /\ moves[i].text # None
             /\ moves[i].act = "reduce" => (Takes(moves[i]) <=> moves[i].text # None)
             /\ moves[i].rule = "Basic-Types" => moves[i].alt \in DataTypes
        /\ Precedes("Basic-Types", Declaring, moves)
        /\ InClass(moves)
    BY DEF Derivation, InClass
  <1>2. /\ n \in Nat /\ DOMAIN moves = 1 .. n /\ DOMAIN e = 1 .. n + 1 /\ Len(e) = n + 1
        /\ e[1] = NextToken(moves, 0)
        /\ \A i \in 1 .. n :
             e[i + 1] = IF moves[i].act = "shift" THEN NextToken(moves, i) ELSE moves[i]
    BY <1>1, EventAt
  <1>3. \A i \in 0 .. n : /\ NextToken(moves, i) \in Reports
                          /\ NextToken(moves, i).act = "read"
                          /\ NextToken(moves, i).rule = None
                          /\ NextToken(moves, i).text \in Lexemes
    BY <1>1, NextTokenRead
  <1>4. None # "Basic-Types"
    BY DEF None
  <1>5. ReportOK(e[1]) /\ e[1].rule = None
    BY <1>2, <1>3, <1>4 DEF ReportOK
  <1>6. ASSUME NEW i \in 1 .. n
        PROVE  ReportOK(e[i + 1]) /\ e[i + 1].rule = moves[i].rule
    <2>1. moves[i] \in Moves
      BY <1>1, <1>2
    <2>2. CASE moves[i].act = "shift"
      <3>1. e[i + 1] = NextToken(moves, i) /\ i \in 0 .. n
        BY <1>2, <2>2
      <3>2. moves[i].rule = None
        BY <1>1, <1>2, <2>2
      <3>3. QED
        BY <1>3, <1>4, <3>1, <3>2 DEF ReportOK
    <2>3. CASE moves[i].act # "shift"
      <3>1. e[i + 1] = moves[i] /\ moves[i].act = "reduce"
        BY <1>2, <2>1, <2>3 DEF Moves
      <3>2. moves[i] \in Reports
        BY <2>1, <3>1 DEF Moves, Reports
      <3>3. QED
        BY <1>1, <1>2, <3>1, <3>2 DEF ReportOK
    <2>4. QED
      BY <2>2, <2>3
  <1> HIDE DEF e, n
  <1>7. ASSUME NEW i \in DOMAIN e
        PROVE  ReportOK(e[i])
    <2>1. i = 1 \/ (i - 1 \in 1 .. n /\ (i - 1) + 1 = i)
      BY <1>2
    <2>2. QED
      BY <1>5, <1>6, <2>1
  <1>8. e \in Seq(Reports)
    <2>1. \A i \in DOMAIN e : e[i] \in Reports
      BY <1>7 DEF ReportOK
    <2>2. {e[i] : i \in DOMAIN e} \subseteq Reports
      BY <2>1
    <2>3. e \in Seq({e[i] : i \in DOMAIN e})
      BY <1>1, EventAt DEF IsSeq, e
    <2> DEFINE S == {e[i] : i \in DOMAIN e}
    <2> HIDE DEF S
    <2>4. QED
      BY <2>2, <2>3 DEF S
  <1>9. ASSUME NEW rule, rule # None, NEW rules, None \notin rules, Precedes(rule, rules, moves)
        PROVE  Precedes(rule, rules, e)
    <2>1. ASSUME NEW i \in DOMAIN e, e[i].rule \in rules
          PROVE  \E j \in 1 .. i - 1 : e[j].rule = rule
      <3>1. i # 1
        BY <1>5, <1>9, <2>1
      <3>2. i - 1 \in 1 .. n /\ (i - 1) + 1 = i
        BY <1>2, <3>1
      <3>3. moves[i - 1].rule \in rules
        BY <1>6, <2>1, <3>2
      <3>4. PICK j \in 1 .. (i - 1) - 1 : moves[j].rule = rule
        BY <1>2, <1>9, <3>2, <3>3 DEF Precedes
      <3>5. j \in 1 .. n /\ j + 1 \in 1 .. i - 1
        BY <1>2, <3>2, <3>4
      <3>6. e[j + 1].rule = rule
        BY <1>6, <3>4, <3>5
      <3>7. QED
        BY <3>5, <3>6
    <2>2. QED
      BY <2>1 DEF Precedes
  <1>10. None \notin Declaring /\ None \notin InClasses /\ None # "Access-Modifier"
    BY DEF None, Declaring, InClasses
  <1>11. Precedes("Basic-Types", Declaring, e) /\ Precedes("Access-Modifier", InClasses, e)
    BY <1>1, <1>4, <1>9, <1>10 DEF InClass
  <1>12. \E i \in DOMAIN e : e[i].rule = "Access-Modifier"
    <2>1. PICK i \in 1 .. n : moves[i].rule = "Access-Modifier"
      BY <1>1, <1>2 DEF InClass
    <2>2. i + 1 \in DOMAIN e /\ e[i + 1].rule = "Access-Modifier"
      BY <1>2, <1>6, <2>1
    <2>3. QED
      BY <2>2
  <1>13. QED
    BY <1>7, <1>8, <1>11, <1>12 DEF InClass, e

------------------------------------------------------------------------------
(* Scoping speaks of the table with the same operators. *)
LEMMA SameOperators ==
  /\ Names!EmptyTable = EmptyTable
  /\ \A t, name, type, kind : Names!AddSymbol(t, name, type, kind) = AddSymbol(t, name, type, kind)
  /\ \A t, name : Names!Added(t, name) <=> Added(t, name)
  /\ \A t, class : Names!SetActiveClass(t, class) = SetActiveClass(t, class)
  /\ \A t, method : Names!SetActiveMethod(t, method) = SetActiveMethod(t, method)
  /\ \A t, type : Names!GetFreeStore(t, type) = GetFreeStore(t, type)
  <1>1. Names!EmptyTable = EmptyTable
    BY DEF Names!EmptyTable, EmptyTable
  <1>2. /\ \A t, name : Names!Refused(t, name) <=> Refused(t, name)
        /\ \A t : Names!Fits(t) <=> Fits(t)
    <2>1. \A t, name : Names!Occurrences(t, name) = Occurrences(t, name)
      BY DEF Names!Occurrences, Occurrences, Names!InScope, InScope
    <2>2. QED
      BY <2>1 DEF Names!Refused, Refused, Names!ExistInTable, ExistInTable, Names!Fits, Fits
  <1>3. \A t, name, type, kind :
          Names!Store(t, Names!NewSymbol(t, name, type, kind)) = Store(t, NewSymbol(t, name, type, kind))
    BY DEF Names!Store, Store, Names!NewSymbol, NewSymbol
  <1>4. \A t, name, type, kind : Names!AddSymbol(t, name, type, kind) = AddSymbol(t, name, type, kind)
    BY <1>2, <1>3 DEF Names!AddSymbol, AddSymbol
  <1>5. \A t, name : Names!Added(t, name) <=> Added(t, name)
    BY <1>2 DEF Names!Added, Added
  <1>6. /\ \A t, class : Names!SetActiveClass(t, class) = SetActiveClass(t, class)
        /\ \A t, method : Names!SetActiveMethod(t, method) = SetActiveMethod(t, method)
    BY DEF Names!SetActiveClass, SetActiveClass, Names!SetActiveMethod, SetActiveMethod
  <1>7. \A t, type : Names!GetFreeStore(t, type) = GetFreeStore(t, type)
    BY <1>4 DEF Names!GetFreeStore, GetFreeStore, Names!NextTemporary, NextTemporary,
                Names!FreeStoreName, FreeStoreName
  <1>8. QED
    BY <1>1, <1>4, <1>5, <1>6, <1>7

(* The requests for a symbol and for a temporary are steps of Scoping. *)
LEMMA DeclareIsAStep ==
  ASSUME NEW name \in AnyName, NEW type \in DataTypes,
         symtab' = AddSymbol(symtab, name, type, "Identifier")
  PROVE  Names!Next
  BY SameOperators DEF Names!Next, Names!Declare, AnyName

LEMMA TemporaryIsAStep ==
  ASSUME WellFormed(symtab), TableAfter(symtab', symtab)
  PROVE  [Names!Next]_symtab
  <1>1. symtab.temporaryStoreIndex + 1 \in Nat
    BY DEF WellFormed, Table
  <1>2. ASSUME NEW type \in DataTypes, symtab' = GetFreeStore(symtab, type)
        PROVE  Names!Next
    BY <1>1, <1>2, SameOperators DEF Names!Next, Names!NewTemporary
  <1>3. QED
    BY <1>2 DEF TableAfter

LEMMA ClassIsAStep ==
  ASSUME NEW name \in AnyName, NEW enters \in BOOLEAN,
         LET top == SetActiveMethod(SetActiveClass(symtab, NoName), NoName)
             t   == AddSymbol(top, name, "void", "ClassName")
         IN  symtab' = IF Added(top, name) /\ enters THEN SetActiveClass(t, name) ELSE t
  PROVE  Names!Next
  <1>1. Names!DefineClass(name)
    BY SameOperators DEF Names!DefineClass
  <1>2. QED
    BY <1>1 DEF Names!Next, AnyName

LEMMA MethodIsAStep ==
  ASSUME NEW name \in AnyName, NEW enters \in BOOLEAN,
         LET inClass == SetActiveMethod(symtab, NoName)
             t       == AddSymbol(inClass, name, "void", "MethodName")
         IN  symtab' = IF Added(inClass, name) /\ enters THEN SetActiveMethod(t, name) ELSE t
  PROVE  Names!Next
  <1>1. Names!DefineMethod(name)
    BY SameOperators DEF Names!DefineMethod
  <1>2. QED
    BY <1>1 DEF Names!Next, AnyName

LEMMA NewTableIsAStep ==
  ASSUME symtab' = EmptyTable
  PROVE  Names!Next
  BY SameOperators DEF Names!Next, Names!NewCompilation

------------------------------------------------------------------------------
(* What every handler does to each part of the state. *)
TokensHandled ==
  /\ tokenStack' \in Seq(Lexemes)
  /\ tokenReadAhead' \in (Lexemes \ ParserTexts) \cup {NoName}

TableHandled == WellFormed(symtab') /\ [Names!Next]_symtab

TypeHandled ==
  /\ typeName' \in DataTypes \cup {None}
  /\ typeName' # None \/ (typeName' = typeName /\ Event.rule # "Basic-Types")

TreeHandled ==
  /\ TreeOK(ast', Len(symtab'.symbols))
  /\ \/ Standing(ast')
     \/ /\ ast' = ast
        /\ Event.rule # "Access-Modifier"
        /\ phase' # "stopped" \/ Event.rule \in InClasses

EndHandled ==
  /\ UNCHANGED <<parsingOK, accepted>>
  /\ \/ phase' \in {"parsing", "stopped"} /\ outcome' = outcome
     \/ phase' = "idle" /\ outcome' = "crashed" /\ Len(tokenStack') = MaxSizeOfStack

Handled ==
  /\ phase = "parsing"
  /\ events # <<>>
  /\ events' = Tail(events)
  /\ UNCHANGED <<program, compiles>>
  /\ said' \in BOOLEAN
  /\ TokensHandled
  /\ TableHandled
  /\ TypeHandled
  /\ TreeHandled
  /\ EndHandled

(* What a handler may rely on. *)
LEMMA HandlerRelies ==
  ASSUME FrontEndInv, phase = "parsing", events # <<>>
  PROVE  /\ ReportOK(Event)
         /\ WellFormed(symtab)
         /\ Len(symtab.symbols) \in Nat
         /\ TreeOK(ast, Len(symtab.symbols))
         /\ said \in BOOLEAN
         /\ tokenStack \in Seq(Lexemes)
         /\ tokenReadAhead \in (Lexemes \ ParserTexts) \cup {NoName}
         /\ TopToken \in AnyName
         /\ typeName \in DataTypes \cup {None}
         /\ Event.rule \in Declaring => typeName \in DataTypes
  <1>1. /\ WellFormed(symtab) /\ TreeOK(ast, Len(symtab.symbols)) /\ said \in BOOLEAN
        /\ tokenStack \in Seq(Lexemes)
        /\ tokenReadAhead \in (Lexemes \ ParserTexts) \cup {NoName}
        /\ typeName \in DataTypes \cup {None}
    BY DEF FrontEndInv, TypeOK
  <1>2. events \in Seq(Reports) /\ \A i \in DOMAIN events : ReportOK(events[i])
    BY DEF FrontEndInv, EventsOK
  <1>3. ReportOK(Event)
    BY <1>2, FirstOfRest DEF Event
  <1>4. Len(symtab.symbols) \in Nat
    BY <1>1 DEF WellFormed, Table
  <1>5. TopToken \in AnyName
    BY <1>1 DEF TopToken, Last, AnyName
  <1>6. ASSUME Event.rule \in Declaring, typeName = None
        PROVE  FALSE
    <2>1. Precedes("Basic-Types", Declaring, events)
      BY <1>6 DEF FrontEndInv, TypesComeFirst
    <2>2. Head(events).rule # "Basic-Types"
      BY <1>6 DEF Event, Declaring
    <2>3. Head(events).rule \notin Declaring
      BY <1>2, <2>1, <2>2, PrecedesInTail
    <2>4. QED
      BY <1>6, <2>3 DEF Event
  <1>7. QED
    BY <1>1, <1>3, <1>4, <1>5, <1>6

LEMMA PopTokenHandled ==
  ASSUME tokenStack \in Seq(Lexemes),
         tokenReadAhead \in (Lexemes \ ParserTexts) \cup {NoName},
         PopToken
  PROVE  TokensHandled
  <1>1. tokenStack # <<>> => Front(tokenStack) \in Seq(Lexemes)
    BY DEF Front
  <1>2. <<>> \in Seq(Lexemes)
    OBVIOUS
  <1>3. QED
    BY <1>1, <1>2 DEF PopToken, TokensHandled

LEMMA TokensKept ==
  ASSUME tokenStack \in Seq(Lexemes),
         tokenReadAhead \in (Lexemes \ ParserTexts) \cup {NoName},
         UNCHANGED tokens
  PROVE  TokensHandled
  BY DEF TokensHandled, tokens

(* What the tree is asked for, a handler may take over as it is. *)
LEMMA BecomeHandled ==
  ASSUME WellFormed(symtab), said \in BOOLEAN,
         NEW r, ResultOK(r, symtab), Become(r)
  PROVE  said' \in BOOLEAN /\ TableHandled /\ TreeHandled
  <1>1. /\ r.said \in BOOLEAN /\ TableAfter(r.table, symtab)
        /\ TreeOK(r.ast, Len(r.table.symbols)) /\ Standing(r.ast)
    BY DEF ResultOK
  <1>2. ast' = r.ast /\ symtab' = r.table /\ said' = (said \/ r.said)
    BY DEF Become
  <1>3. WellFormed(symtab')
    BY <1>1, <1>2, TableAfterOK
  <1>4. [Names!Next]_symtab
    BY <1>1, <1>2, TemporaryIsAStep
  <1>5. said' \in BOOLEAN
    BY <1>1, <1>2
  <1>6. QED
    BY <1>1, <1>2, <1>3, <1>4, <1>5 DEF TableHandled, TreeHandled

LEMMA OperatorsAreNotLeaves == \A op \in Operators : op \notin LeafWithSymbol
  BY DEF Operators, LeafWithSymbol, ExpressiveOperators, Additive, Comparisons, Relations,
         Equalities, Connectives

------------------------------------------------------------------------------
(* Each handler in turn. *)
LEMMA BuildHandled ==
  ASSUME FrontEndInv, NEW op \in Operators, Build(op)
  PROVE  Handled
  <1>1. /\ phase = "parsing" /\ events # <<>> /\ events' = Tail(events)
        /\ UNCHANGED <<program, compiles>>
        /\ Become(addOperatorNode(ast, symtab, op))
        /\ UNCHANGED <<tokens, typeName, ending>>
        /\ BuildingRule(op)
    BY DEF Build, Happens
  <1>2. ResultOK(addOperatorNode(ast, symtab, op), symtab)
    BY <1>1, HandlerRelies, OperatorsAreNotLeaves, AddOperatorNodeOK
  <1>3. said' \in BOOLEAN /\ TableHandled /\ TreeHandled
    BY <1>1, <1>2, HandlerRelies, BecomeHandled
  <1>4. TokensHandled
    BY <1>1, HandlerRelies, TokensKept
  <1>5. Event.rule # "Basic-Types"
    BY <1>1 DEF BuildingRule, Rule_Program, Rule_Class_Definitions, Rule_Class_definition,
                Rule_Class_body, Rule_Method_definitions, Rule_Method_definition,
                Rule_Parameter_List, Rule_Var_declarations, Rule_Statements,
                Rule_Block_statement, Rule_Print_statement, Rule_Logic_Exp, Rule_Expression,
                Rule_ArithMetic_Exp, Rule_Add_Exp, Rule_Mult_Exp, Rule_Unary_Exp
  <1>6. TypeHandled
    BY <1>1, <1>5, HandlerRelies DEF TypeHandled
  <1>7. EndHandled
    BY <1>1 DEF EndHandled, ending
  <1>8. QED
    BY <1>1, <1>3, <1>4, <1>6, <1>7 DEF Handled

LEMMA TokenReadHandled ==
  ASSUME FrontEndInv, TokenRead
  PROVE  Handled
  <1>1. /\ phase = "parsing" /\ events # <<>> /\ events' = Tail(events) /\ Event.act = "read"
        /\ UNCHANGED <<program, compiles>>
        /\ UNCHANGED <<symtab, typeName, ast>>
    BY DEF TokenRead, Happens
  <1>2. /\ Event.rule = None /\ Event.text \in Lexemes /\ None # "Basic-Types"
        /\ None # "Access-Modifier"
    BY <1>1, HandlerRelies DEF ReportOK, None
  <1>3. TableHandled /\ TypeHandled
    BY <1>1, <1>2, HandlerRelies DEF TableHandled, TypeHandled
  <1>4. TreeOK(ast', Len(symtab'.symbols))
    BY <1>1, HandlerRelies
  <1>5. CASE tokenReadAhead # NoName /\ Len(tokenStack) = MaxSizeOfStack
    <2>1. Crash /\ UNCHANGED tokens
      BY <1>5 DEF TokenRead
    <2>2. TokensHandled
      BY <1>1, <2>1, HandlerRelies, TokensKept
    <2>3. said' \in BOOLEAN /\ EndHandled /\ phase' # "stopped"
      BY <1>5, <2>1 DEF Crash, EndHandled, tokens
    <2>4. TreeHandled
      BY <1>1, <1>2, <1>4, <2>3 DEF TreeHandled
    <2>5. QED
      BY <1>1, <1>3, <2>2, <2>3, <2>4 DEF Handled
  <1>6. CASE ~(tokenReadAhead # NoName /\ Len(tokenStack) = MaxSizeOfStack)
    <2>1. /\ tokenStack' = IF tokenReadAhead = NoName THEN tokenStack
                           ELSE Append(tokenStack, tokenReadAhead)
          /\ tokenReadAhead' = IF Event.text \in ParserTexts THEN NoName ELSE Event.text
          /\ UNCHANGED <<said, ending>>
      BY <1>6 DEF TokenRead
    <2>2. TokensHandled
      <3>1. tokenReadAhead # NoName => Append(tokenStack, tokenReadAhead) \in Seq(Lexemes)
        BY <1>1, HandlerRelies
      <3>2. QED
        BY <1>1, <1>2, <2>1, <3>1, HandlerRelies DEF TokensHandled
    <2>3. said' \in BOOLEAN /\ EndHandled /\ phase' # "stopped"
      BY <1>1, <2>1, HandlerRelies DEF EndHandled, ending
    <2>4. TreeHandled
      BY <1>1, <1>2, <1>4, <2>3 DEF TreeHandled
    <2>5. QED
      BY <1>1, <1>3, <2>2, <2>3, <2>4 DEF Handled
  <1>7. QED
    BY <1>5, <1>6

LEMMA TableKept ==
  ASSUME WellFormed(symtab), UNCHANGED symtab
  PROVE  TableHandled
  BY DEF TableHandled

LEMMA NoParametersHandled ==
  ASSUME FrontEndInv, Rule_No_Parameters
  PROVE  Handled
  <1>1. /\ phase = "parsing" /\ events # <<>> /\ events' = Tail(events)
        /\ Event.rule = "Parameter-List"
        /\ UNCHANGED <<program, compiles>>
        /\ ast' = addNullOperatorNode(ast)
        /\ UNCHANGED <<tokens, symtab, typeName, said, ending>>
    BY DEF Rule_No_Parameters, Reduction, Happens
  <1>2. TokensHandled /\ TableHandled
    BY <1>1, HandlerRelies, TokensKept, TableKept
  <1>3. TypeHandled /\ EndHandled /\ said' \in BOOLEAN
    BY <1>1, HandlerRelies DEF TypeHandled, EndHandled, ending
  <1>4. TreeHandled
    BY <1>1, HandlerRelies, NullOperatorOK DEF TreeHandled
  <1>5. QED
    BY <1>1, <1>2, <1>3, <1>4 DEF Handled

LEMMA BasicTypesHandled ==
  ASSUME FrontEndInv, Rule_Basic_Types
  PROVE  Handled
  <1>1. /\ phase = "parsing" /\ events # <<>> /\ events' = Tail(events)
        /\ Event.rule = "Basic-Types"
        /\ UNCHANGED <<program, compiles>>
        /\ typeName' = Event.alt
        /\ UNCHANGED <<tokens, symtab, ast, said, ending>>
    BY DEF Rule_Basic_Types, Reduction, Happens
  <1>2. TokensHandled /\ TableHandled
    BY <1>1, HandlerRelies, TokensKept, TableKept
  <1>3. TypeHandled
    <2>1. typeName' \in DataTypes
      BY <1>1, HandlerRelies DEF ReportOK
    <2>2. None \notin DataTypes
      BY DEF None, DataTypes
    <2>3. QED
      BY <2>1, <2>2 DEF TypeHandled
  <1>4. EndHandled /\ said' \in BOOLEAN /\ phase' # "stopped"
    BY <1>1, HandlerRelies DEF EndHandled, ending
  <1>5. TreeHandled
    BY <1>1, <1>4, HandlerRelies DEF TreeHandled
  <1>6. QED
    BY <1>1, <1>2, <1>3, <1>4, <1>5 DEF Handled

(* A word that becomes a leaf. *)
LEMMA WordStands ==
  ASSUME FrontEndInv, phase = "parsing", events # <<>>,
         NEW kind \in {"StringLiteral", "NumberLiteral", "BooleanLiteral"}, NEW text,
         ast' = addleaf(ast, kind, text, 0), UNCHANGED symtab
  PROVE  TreeHandled
  <1>1. TreeOK(ast, Len(symtab.symbols)) /\ 0 \in 0 .. Len(symtab.symbols)
    BY HandlerRelies
  <1>2. kind \notin {"Identifier", "FormalParameter"}
    OBVIOUS
  <1>3. TreeOK(ast', Len(symtab'.symbols)) /\ Standing(ast')
    BY <1>1, <1>2, HandlerRelies, AddLeafOK
  <1>4. QED
    BY <1>3 DEF TreeHandled

LEMMA AccessModifierHandled ==
  ASSUME FrontEndInv, Rule_Access_Modifier
  PROVE  Handled
  <1>1. /\ phase = "parsing" /\ events # <<>> /\ events' = Tail(events)
        /\ Event.rule = "Access-Modifier"
        /\ UNCHANGED <<program, compiles>>
        /\ ast' = addleaf(ast, "StringLiteral", Keyword, 0)
        /\ UNCHANGED <<tokens, symtab, typeName, said, ending>>
    BY DEF Rule_Access_Modifier, Reduction, Happens
  <1>2. TokensHandled /\ TableHandled
    BY <1>1, HandlerRelies, TokensKept, TableKept
  <1>3. TypeHandled /\ EndHandled /\ said' \in BOOLEAN
    BY <1>1, HandlerRelies DEF TypeHandled, EndHandled, ending
  <1>4. TreeHandled
    BY <1>1, WordStands
  <1>5. QED
    BY <1>1, <1>2, <1>3, <1>4 DEF Handled

LEMMA ReturnTypeHandled ==
  ASSUME FrontEndInv, Rule_Return_Type
  PROVE  Handled
  <1>1. /\ phase = "parsing" /\ events # <<>> /\ events' = Tail(events)
        /\ Event.rule = "Return-Type"
        /\ UNCHANGED <<program, compiles>>
        /\ typeName' = "void"
        /\ ast' = addleaf(ast, "StringLiteral", Keyword, 0)
        /\ UNCHANGED <<tokens, symtab, said, ending>>
    BY DEF Rule_Return_Type, Reduction, Happens
  <1>2. TokensHandled /\ TableHandled
    BY <1>1, HandlerRelies, TokensKept, TableKept
  <1>3. TypeHandled
    BY <1>1 DEF TypeHandled, DataTypes, None
  <1>4. EndHandled /\ said' \in BOOLEAN
    BY <1>1, HandlerRelies DEF EndHandled, ending
  <1>5. TreeHandled
    BY <1>1, WordStands
  <1>6. QED
    BY <1>1, <1>2, <1>3, <1>4, <1>5 DEF Handled

(* A declaration, whether the table takes it or not, as far as the table   *)
(* is concerned.                                                           *)
LEMMA DeclareTopHandled ==
  ASSUME FrontEndInv, phase = "parsing", events # <<>>, Event.rule \in Declaring, DeclareTop
  PROVE  /\ TokensHandled /\ TableHandled /\ TypeHandled /\ EndHandled
         /\ said' \in BOOLEAN
         /\ UNCHANGED phase
         /\ Len(symtab'.symbols) = IF Added(symtab, TopToken) THEN Len(symtab.symbols) + 1
                                   ELSE Len(symtab.symbols)
  <1>1. /\ PopToken
        /\ symtab' = AddSymbol(symtab, TopToken, typeName, "Identifier")
        /\ said' = (said \/ Refused(symtab, TopToken))
        /\ UNCHANGED <<typeName, ending>>
    BY DEF DeclareTop
  <1>2. /\ WellFormed(symtab) /\ TopToken \in AnyName /\ typeName \in DataTypes
        /\ "Identifier" \in SymbolKinds
    BY HandlerRelies DEF SymbolKinds
  <1>3. WellFormed(symtab')
    BY <1>1, <1>2, AddSymbolWellFormed
  <1>4. Names!Next
    BY <1>1, <1>2, DeclareIsAStep
  <1>5. TokensHandled
    BY <1>1, HandlerRelies, PopTokenHandled
  <1>6. TypeHandled
    <2>1. Event.rule # "Basic-Types"
      BY DEF Declaring
    <2>2. QED
      BY <1>1, <1>2, <2>1 DEF TypeHandled
  <1>7. EndHandled /\ UNCHANGED phase
    BY <1>1 DEF EndHandled, ending
  <1>8. said' \in BOOLEAN
    BY <1>1, HandlerRelies
  <1>9. Len(symtab'.symbols) = IF Added(symtab, TopToken) THEN Len(symtab.symbols) + 1
                               ELSE Len(symtab.symbols)
    BY <1>1, <1>2, AddSymbolLength
  <1>10. QED
    BY <1>3, <1>4, <1>5, <1>6, <1>7, <1>8, <1>9 DEF TableHandled

LEMMA VarDeclarationHandled ==
  ASSUME FrontEndInv, Rule_Var_declaration
  PROVE  Handled
  <1> DEFINE count == Len(symtab.symbols)
  <1>1. /\ phase = "parsing" /\ events # <<>> /\ events' = Tail(events)
        /\ Event.rule = "Var-declaration"
        /\ UNCHANGED <<program, compiles>>
        /\ DeclareTop
        /\ ast' = IF Added(symtab, TopToken)
                    THEN AddLeafAndOperator(ast, symtab, IndexAdded, "var-declaration").ast
                    ELSE ast
    BY DEF Rule_Var_declaration, Reduction, Happens
  <1>2. Event.rule \in Declaring /\ Event.rule # "Access-Modifier"
    BY <1>1 DEF Declaring
  <1>3. /\ TokensHandled /\ TableHandled /\ TypeHandled /\ EndHandled /\ said' \in BOOLEAN
        /\ UNCHANGED phase
        /\ Len(symtab'.symbols) = IF Added(symtab, TopToken) THEN count + 1 ELSE count
    BY <1>1, <1>2, DeclareTopHandled
  <1>4. count \in Nat /\ TreeOK(ast, count) /\ IndexAdded = count + 1
    BY <1>1, HandlerRelies DEF IndexAdded
  <1> HIDE DEF count
  <1>5. CASE Added(symtab, TopToken)
    <2>1. TreeOK(ast, count + 1)
      BY <1>4, TreeOKGrows
    <2>2. TreeOK(ast', count + 1) /\ Standing(ast')
      BY <1>1, <1>4, <1>5, <2>1, DeclarationOK
    <2>3. TreeHandled
      BY <1>3, <1>5, <2>2 DEF TreeHandled
    <2>4. QED
      BY <1>1, <1>3, <2>3 DEF Handled
  <1>6. CASE ~Added(symtab, TopToken)
    <2>1. TreeHandled
      BY <1>1, <1>2, <1>3, <1>4, <1>6 DEF TreeHandled
    <2>2. QED
      BY <1>1, <1>3, <2>1 DEF Handled
  <1>7. QED
    BY <1>5, <1>6

LEMMA ParameterHandled ==
  ASSUME FrontEndInv, Rule_Parameter
  PROVE  Handled
  <1> DEFINE count == Len(symtab.symbols)
  <1>1. /\ phase = "parsing" /\ events # <<>> /\ events' = Tail(events)
        /\ Event.rule = "Parameter"
        /\ UNCHANGED <<program, compiles>>
        /\ DeclareTop
        /\ ast' = IF Added(symtab, TopToken)
                    THEN addleaf(ast, "FormalParameter", None, IndexAdded) ELSE ast
    BY DEF Rule_Parameter, Reduction, Happens
  <1>2. Event.rule \in Declaring /\ Event.rule # "Access-Modifier"
    BY <1>1 DEF Declaring
  <1>3. /\ TokensHandled /\ TableHandled /\ TypeHandled /\ EndHandled /\ said' \in BOOLEAN
        /\ UNCHANGED phase
        /\ Len(symtab'.symbols) = IF Added(symtab, TopToken) THEN count + 1 ELSE count
    BY <1>1, <1>2, DeclareTopHandled
  <1>4. count \in Nat /\ TreeOK(ast, count) /\ IndexAdded = count + 1
    BY <1>1, HandlerRelies DEF IndexAdded
  <1> HIDE DEF count
  <1>5. CASE Added(symtab, TopToken)
    <2>1. TreeOK(ast, count + 1) /\ count + 1 \in 0 .. count + 1 /\ count + 1 # 0
      BY <1>4, TreeOKGrows
    <2>2. TreeOK(ast', count + 1) /\ Standing(ast')
      BY <1>1, <1>4, <1>5, <2>1, AddLeafOK
    <2>3. TreeHandled
      BY <1>3, <1>5, <2>2 DEF TreeHandled
    <2>4. QED
      BY <1>1, <1>3, <2>3 DEF Handled
  <1>6. CASE ~Added(symtab, TopToken)
    <2>1. TreeHandled
      BY <1>1, <1>2, <1>3, <1>4, <1>6 DEF TreeHandled
    <2>2. QED
      BY <1>1, <1>3, <2>1 DEF Handled
  <1>7. QED
    BY <1>5, <1>6

------------------------------------------------------------------------------
(* The handlers that look a name up: what they find is a symbol. *)
LEMMA TopTokenFound ==
  ASSUME FrontEndInv, phase = "parsing", events # <<>>, ~Undeclared
  PROVE  IndexInTable(symtab, TopToken) \in 1 .. Len(symtab.symbols)
  <1>1. ExistInTable(symtab, TopToken)
    BY DEF Undeclared
  <1>2. IndexInTable(symtab, TopToken) \in DOMAIN symtab.symbols
    BY <1>1, HandlerRelies, IndexFound
  <1>3. DOMAIN symtab.symbols = 1 .. Len(symtab.symbols)
    BY HandlerRelies DEF WellFormed, Table
  <1>4. QED
    BY <1>2, <1>3

(* Reported or not, nothing is built. *)
LEMMA UnreadableHandled ==
  ASSUME FrontEndInv, phase = "parsing", events # <<>>, Unreadable,
         Event.rule # "Access-Modifier",
         phase' # "stopped" \/ Event.rule \in InClasses
  PROVE  said' \in BOOLEAN /\ TableHandled /\ TreeHandled
  <1>1. said' = (said \/ ~LookupThrows(symtab, TopToken)) /\ UNCHANGED <<ast, symtab>>
    BY DEF Unreadable
  <1>2. said' \in BOOLEAN
    BY <1>1, HandlerRelies
  <1>3. TableHandled
    BY <1>1, HandlerRelies, TableKept
  <1>4. TreeHandled
    BY <1>1, HandlerRelies DEF TreeHandled
  <1>5. QED
    BY <1>2, <1>3, <1>4

(* A leaf for the name, and the operator over it. *)
LEMMA OverIdentifierHandled ==
  ASSUME FrontEndInv, phase = "parsing", events # <<>>, ~Undeclared,
         NEW op \in {":=", "console.readline"}, Become(OverIdentifier(op))
  PROVE  said' \in BOOLEAN /\ TableHandled /\ TreeHandled
  <1> DEFINE sym == IndexInTable(symtab, TopToken)
             r   == AddLeafAndOperator(ast, symtab, sym, op)
  <1>1. sym \in 1 .. Len(symtab.symbols) /\ op \notin LeafWithSymbol
    BY TopTokenFound DEF LeafWithSymbol
  <1>2. Become(r)
    BY DEF OverIdentifier
  <1> HIDE DEF sym
  <1>3. ResultOK(r, symtab)
    BY <1>1, HandlerRelies, LeafAndOperatorOK
  <1> HIDE DEF r
  <1>4. QED
    BY <1>2, <1>3, HandlerRelies, BecomeHandled

(* The handlers that take a token, may stop the loop and leave the type. *)
LEMMA StoppingHandled ==
  ASSUME FrontEndInv, phase = "parsing", events # <<>>, Event.rule \in InClasses,
         PopToken, NEW ok, Continue(ok), UNCHANGED typeName
  PROVE  TokensHandled /\ TypeHandled /\ EndHandled /\ Event.rule # "Access-Modifier"
  <1>1. Event.rule # "Basic-Types" /\ Event.rule # "Access-Modifier"
    BY DEF InClasses
  <1>2. TokensHandled
    BY HandlerRelies, PopTokenHandled
  <1>3. TypeHandled
    BY <1>1, HandlerRelies DEF TypeHandled
  <1>4. EndHandled
    BY DEF EndHandled, Continue
  <1>5. QED
    BY <1>1, <1>2, <1>3, <1>4

LEMMA AssignmentHandled ==
  ASSUME FrontEndInv, Rule_Assignment
  PROVE  Handled
  <1>1. /\ phase = "parsing" /\ events # <<>> /\ events' = Tail(events)
        /\ Event.rule = "Statement"
        /\ UNCHANGED <<program, compiles>>
        /\ PopToken
        /\ IF Undeclared THEN Unreadable ELSE Become(OverIdentifier(":="))
        /\ Continue(~Undeclared /\ ~PushThrows(ast))
        /\ UNCHANGED typeName
    BY DEF Rule_Assignment, Reduction, Happens
  <1>2. Event.rule \in InClasses
    BY <1>1 DEF InClasses
  <1>3. TokensHandled /\ TypeHandled /\ EndHandled /\ Event.rule # "Access-Modifier"
    BY <1>1, <1>2, StoppingHandled
  <1>4. said' \in BOOLEAN /\ TableHandled /\ TreeHandled
    BY <1>1, <1>2, <1>3, UnreadableHandled, OverIdentifierHandled
  <1>5. QED
    BY <1>1, <1>3, <1>4 DEF Handled

LEMMA ReadStatementHandled ==
  ASSUME FrontEndInv, Rule_Read_statement
  PROVE  Handled
  <1>1. /\ phase = "parsing" /\ events # <<>> /\ events' = Tail(events)
        /\ Event.rule = "Read-statement"
        /\ UNCHANGED <<program, compiles>>
        /\ PopToken
        /\ IF Undeclared THEN Unreadable ELSE Become(OverIdentifier("console.readline"))
        /\ UNCHANGED <<typeName, ending>>
    BY DEF Rule_Read_statement, Reduction, Happens
  <1>2. TokensHandled
    BY <1>1, HandlerRelies, PopTokenHandled
  <1>3. TypeHandled /\ EndHandled /\ phase' # "stopped"
    BY <1>1, HandlerRelies DEF TypeHandled, EndHandled, ending
  <1>4. said' \in BOOLEAN /\ TableHandled /\ TreeHandled
    BY <1>1, <1>3, UnreadableHandled, OverIdentifierHandled
  <1>5. QED
    BY <1>1, <1>2, <1>3, <1>4 DEF Handled

LEMMA ValueIdHandled ==
  ASSUME FrontEndInv, Rule_Value_Id
  PROVE  Handled
  <1>1. /\ phase = "parsing" /\ events # <<>> /\ events' = Tail(events)
        /\ Event.rule = "Value"
        /\ UNCHANGED <<program, compiles>>
        /\ PopToken
        /\ Continue((TopToken \in {True, False} \/ ~Undeclared) /\ ~PushThrows(ast))
        /\ UNCHANGED typeName
    BY DEF Rule_Value_Id, Reduction, Happens
  <1>2. Event.rule \in InClasses
    BY <1>1 DEF InClasses
  <1>3. TokensHandled /\ TypeHandled /\ EndHandled /\ Event.rule # "Access-Modifier"
    BY <1>1, <1>2, StoppingHandled
  <1>4. said' \in BOOLEAN /\ TableHandled /\ TreeHandled
    <2>1. CASE TopToken \in {True, False}
      <3>1. /\ ast' = addleaf(ast, "BooleanLiteral", TruthText(TopToken), 0)
            /\ UNCHANGED <<symtab, said>>
        BY <2>1 DEF Rule_Value_Id
      <3>2. QED
        BY <1>1, <3>1, HandlerRelies, WordStands, TableKept
    <2>2. CASE TopToken \notin {True, False} /\ Undeclared
      <3>1. Unreadable
        BY <2>2 DEF Rule_Value_Id
      <3>2. QED
        BY <1>1, <1>2, <1>3, <3>1, UnreadableHandled
    <2>3. CASE TopToken \notin {True, False} /\ ~Undeclared
      <3>1. ast' = WithIdentifier /\ UNCHANGED <<symtab, said>>
        BY <2>3 DEF Rule_Value_Id
      <3> DEFINE sym   == IndexInTable(symtab, TopToken)
                 count == Len(symtab.symbols)
      <3>2. sym \in 1 .. count
        BY <1>1, <2>3, TopTokenFound
      <3>3. ast' = addleaf(ast, "Identifier", None, sym)
        BY <3>1 DEF WithIdentifier
      <3>4. count \in Nat /\ TreeOK(ast, count)
        BY <1>1, HandlerRelies
      <3> HIDE DEF sym, count
      <3>5. sym \in 0 .. count /\ sym # 0
        BY <3>2, <3>4
      <3>6. TreeOK(ast', count) /\ Standing(ast')
        BY <3>3, <3>4, <3>5, AddLeafOK
      <3>7. QED
        BY <1>1, <3>1, <3>6, HandlerRelies, TableKept DEF TreeHandled, count
    <2>4. QED
      BY <2>1, <2>2, <2>3
  <1>5. QED
    BY <1>1, <1>3, <1>4 DEF Handled

LEMMA ValueLiteralHandled ==
  ASSUME FrontEndInv, Rule_Value_Literal
  PROVE  Handled
  <1>1. /\ phase = "parsing" /\ events # <<>> /\ events' = Tail(events)
        /\ Event.rule = "Value"
        /\ Event.alt \in {"StringLiteral", "NumberLiteral"}
        /\ UNCHANGED <<program, compiles>>
        /\ PopToken
        /\ ast' = addleaf(ast, Event.alt, TopToken, 0)
        /\ Continue(~PushThrows(ast))
        /\ UNCHANGED <<symtab, typeName, said>>
    BY DEF Rule_Value_Literal, Reduction, Happens
  <1>2. Event.rule \in InClasses
    BY <1>1 DEF InClasses
  <1>3. TokensHandled /\ TypeHandled /\ EndHandled
    BY <1>1, <1>2, StoppingHandled
  <1>4. TreeHandled
    <2>1. Event.alt \in {"StringLiteral", "NumberLiteral", "BooleanLiteral"}
      BY <1>1
    <2>2. QED
      BY <1>1, <2>1, WordStands
  <1>5. said' \in BOOLEAN /\ TableHandled
    BY <1>1, HandlerRelies, TableKept
  <1>6. QED
    BY <1>1, <1>3, <1>4, <1>5 DEF Handled

LEMMA ValueParenthesesHandled ==
  ASSUME FrontEndInv, Rule_Value_Parentheses
  PROVE  Handled
  <1>1. /\ phase = "parsing" /\ events # <<>> /\ events' = Tail(events)
        /\ Event.rule = "Value"
        /\ UNCHANGED <<program, compiles>>
        /\ UNCHANGED <<tokens, symtab, typeName, ast, said, ending>>
    BY DEF Rule_Value_Parentheses, Reduction, Happens
  <1>2. TokensHandled /\ TableHandled
    BY <1>1, HandlerRelies, TokensKept, TableKept
  <1>3. TypeHandled /\ EndHandled /\ said' \in BOOLEAN /\ phase' # "stopped"
    BY <1>1, HandlerRelies DEF TypeHandled, EndHandled, ending
  <1>4. TreeHandled
    BY <1>1, <1>3, HandlerRelies DEF TreeHandled
  <1>5. QED
    BY <1>1, <1>2, <1>3, <1>4 DEF Handled

------------------------------------------------------------------------------
(* The leaf of a name that was just defined, if it was. *)
LEMMA DefinedStands ==
  ASSUME FrontEndInv, phase = "parsing", events # <<>>,
         Event.rule # "Access-Modifier", Event.rule \in InClasses,
         NEW ok \in BOOLEAN, NEW count \in Nat,
         count = IF ok THEN Len(symtab.symbols) + 1 ELSE Len(symtab.symbols),
         Len(symtab'.symbols) = count,
         ast' = IF ok THEN addleaf(ast, "Identifier", None, count) ELSE ast
  PROVE  TreeHandled
  <1>1. Len(symtab.symbols) \in Nat /\ TreeOK(ast, Len(symtab.symbols))
    BY HandlerRelies
  <1>2. TreeOK(ast, count)
    <2>1. Len(symtab.symbols) <= count
      BY <1>1
    <2>2. QED
      BY <1>1, <2>1, TreeOKGrows
  <1>3. CASE ok
    <2>1. count \in 0 .. count /\ count # 0
      BY <1>1, <1>3
    <2>2. TreeOK(addleaf(ast, "Identifier", None, count), count)
          /\ Standing(addleaf(ast, "Identifier", None, count))
      BY <1>2, <2>1, AddLeafOK
    <2>3. QED
      BY <1>3, <2>2 DEF TreeHandled
  <1>4. CASE ~ok
    BY <1>2, <1>4 DEF TreeHandled
  <1>5. QED
    BY <1>3, <1>4

LEMMA ClassNameHandled ==
  ASSUME FrontEndInv, Rule_Class_def_name
  PROVE  Handled
  <1> DEFINE name == TopToken
             top  == SetActiveMethod(SetActiveClass(symtab, NoName), NoName)
             t    == AddSymbol(top, name, "void", "ClassName")
             ok   == Added(top, name)
             n    == Len(t.symbols)
  <1>1. /\ phase = "parsing" /\ events # <<>> /\ events' = Tail(events)
        /\ Event.rule = "Class-definition-name"
        /\ UNCHANGED <<program, compiles>>
        /\ PopToken
        /\ symtab' = IF ok /\ ~PushThrows(ast) THEN SetActiveClass(t, name) ELSE t
        /\ ast' = IF ok THEN addleaf(ast, "Identifier", None, n) ELSE ast
        /\ said' = (said \/ Refused(top, name))
        /\ Continue(ok /\ ~PushThrows(ast))
        /\ UNCHANGED typeName
    BY DEF Rule_Class_def_name, Reduction, Happens
  <1>2. Event.rule \in InClasses
    BY <1>1 DEF InClasses
  <1>3. TokensHandled /\ TypeHandled /\ EndHandled /\ Event.rule # "Access-Modifier"
    BY <1>1, <1>2, StoppingHandled
  <1>4. /\ WellFormed(symtab) /\ name \in AnyName /\ NoName \in AnyName
        /\ "void" \in DataTypes /\ "ClassName" \in SymbolKinds
    BY <1>1, HandlerRelies, NoNameIsAName DEF DataTypes, SymbolKinds
  <1>5. WellFormed(top) /\ top.symbols = symtab.symbols
    BY <1>4, ScopeSettersWellFormed
  <1>6. /\ WellFormed(t)
        /\ Len(symtab.symbols) \in Nat
        /\ n = IF ok THEN Len(symtab.symbols) + 1 ELSE Len(symtab.symbols)
    <2> HIDE DEF top, name
    <2>1. WellFormed(t)
      BY <1>4, <1>5, AddSymbolWellFormed
    <2>2. Len(top.symbols) \in Nat /\ n = IF ok THEN Len(top.symbols) + 1 ELSE Len(top.symbols)
      BY <1>4, <1>5, AddSymbolLength
    <2>3. QED
      BY <1>5, <2>1, <2>2
  <1>7. Names!Next
    <2> DEFINE enters == ~PushThrows(ast)
    <2>1. enters \in BOOLEAN
      OBVIOUS
    <2>2. symtab' = IF ok /\ enters THEN SetActiveClass(t, name) ELSE t
      BY <1>1
    <2> HIDE DEF enters
    <2>3. QED
      BY <1>4, <2>1, <2>2, ClassIsAStep
  <1> HIDE DEF t
  <1>8. /\ WellFormed(SetActiveClass(t, name))
        /\ SetActiveClass(t, name).symbols = t.symbols
    BY <1>4, <1>6, ScopeSettersWellFormed
  <1>9. TableHandled /\ Len(symtab'.symbols) = n
    BY <1>1, <1>6, <1>7, <1>8 DEF TableHandled
  <1>10. TreeHandled
    <2>1. ok \in BOOLEAN /\ n \in Nat
      BY <1>6 DEF Added
    <2> HIDE DEF n, ok
    <2>2. QED
      BY <1>1, <1>2, <1>3, <1>6, <1>9, <2>1, DefinedStands
  <1>11. said' \in BOOLEAN
    BY <1>1, HandlerRelies
  <1>12. QED
    BY <1>1, <1>3, <1>9, <1>10, <1>11 DEF Handled

LEMMA MethodNameHandled ==
  ASSUME FrontEndInv, Rule_Method_def_name
  PROVE  Handled
  <1> DEFINE name    == TopToken
             inClass == SetActiveMethod(symtab, NoName)
             t       == AddSymbol(inClass, name, "void", "MethodName")
             ok      == Added(inClass, name)
             n       == Len(t.symbols)
  <1>1. /\ phase = "parsing" /\ events # <<>> /\ events' = Tail(events)
        /\ Event.rule = "Method-def-name"
        /\ UNCHANGED <<program, compiles>>
        /\ PopToken
        /\ symtab' = IF ok /\ ~PushThrows(ast) THEN SetActiveMethod(t, name) ELSE t
        /\ ast' = IF ok THEN addleaf(ast, "Identifier", None, n) ELSE ast
        /\ Continue(ok /\ ~PushThrows(ast))
        /\ UNCHANGED <<typeName, said>>
    BY DEF Rule_Method_def_name, Reduction, Happens
  <1>2. Event.rule \in InClasses
    BY <1>1 DEF InClasses
  <1>3. TokensHandled /\ TypeHandled /\ EndHandled /\ Event.rule # "Access-Modifier"
    BY <1>1, <1>2, StoppingHandled
  <1>4. /\ WellFormed(symtab) /\ name \in AnyName /\ NoName \in AnyName
        /\ "void" \in DataTypes /\ "MethodName" \in SymbolKinds
    BY <1>1, HandlerRelies, NoNameIsAName DEF DataTypes, SymbolKinds
  <1>5. WellFormed(inClass) /\ inClass.symbols = symtab.symbols
    BY <1>4, ScopeSettersWellFormed
  <1>6. /\ WellFormed(t)
        /\ Len(symtab.symbols) \in Nat
        /\ n = IF ok THEN Len(symtab.symbols) + 1 ELSE Len(symtab.symbols)
    <2> HIDE DEF inClass, name
    <2>1. WellFormed(t)
      BY <1>4, <1>5, AddSymbolWellFormed
    <2>2. /\ Len(inClass.symbols) \in Nat
          /\ n = IF ok THEN Len(inClass.symbols) + 1 ELSE Len(inClass.symbols)
      BY <1>4, <1>5, AddSymbolLength
    <2>3. QED
      BY <1>5, <2>1, <2>2
  <1>7. Names!Next
    <2> DEFINE enters == ~PushThrows(ast)
    <2>1. enters \in BOOLEAN
      OBVIOUS
    <2>2. symtab' = IF ok /\ enters THEN SetActiveMethod(t, name) ELSE t
      BY <1>1
    <2> HIDE DEF enters
    <2>3. QED
      BY <1>4, <2>1, <2>2, MethodIsAStep
  <1> HIDE DEF t
  <1>8. /\ WellFormed(SetActiveMethod(t, name))
        /\ SetActiveMethod(t, name).symbols = t.symbols
    BY <1>4, <1>6, ScopeSettersWellFormed
  <1>9. TableHandled /\ Len(symtab'.symbols) = n
    BY <1>1, <1>6, <1>7, <1>8 DEF TableHandled
  <1>10. TreeHandled
    <2>1. ok \in BOOLEAN /\ n \in Nat
      BY <1>6 DEF Added
    <2> HIDE DEF n, ok
    <2>2. QED
      BY <1>1, <1>2, <1>3, <1>6, <1>9, <2>1, DefinedStands
  <1>11. said' \in BOOLEAN
    BY <1>1, HandlerRelies
  <1>12. QED
    BY <1>1, <1>3, <1>9, <1>10, <1>11 DEF Handled

------------------------------------------------------------------------------
(* What TypeOK says of the tree. *)
LEMMA TreeTyped ==
  ASSUME NEW t, WellFormed(t), NEW a, TreeOK(a, Len(t.symbols))
  PROVE  /\ a.failed \in BOOLEAN
         /\ a.broken \in BOOLEAN
         /\ Len(a.stack) <= MaxSizeOfStack
         /\ \A i \in DOMAIN a.stack :
              /\ a.stack[i].sym \in {0} \cup DOMAIN t.symbols
              /\ a.stack[i].op \in {"Identifier", "FormalParameter"} => a.stack[i].sym # 0
              /\ a.stack[i].dt \in DataTypes \cup {None}
  <1>1. DOMAIN t.symbols = 1 .. Len(t.symbols) /\ Len(t.symbols) \in Nat
    BY DEF WellFormed, Table
  <1>2. 0 .. Len(t.symbols) = {0} \cup DOMAIN t.symbols
    BY <1>1
  <1>3. QED
    BY <1>2 DEF TreeOK, NodeOK

LEMMA EventsInTail ==
  ASSUME EventsOK, events # <<>>, events' = Tail(events)
  PROVE  EventsOK'
  <1>1. events \in Seq(Reports) /\ \A i \in DOMAIN events : ReportOK(events[i])
    BY DEF EventsOK
  <1>2. /\ Tail(events) \in Seq(Reports)
        /\ DOMAIN events = 1 .. Len(events) /\ Len(events) \in Nat
        /\ DOMAIN Tail(events) = 1 .. Len(events) - 1
        /\ \A i \in 1 .. Len(events) - 1 : Tail(events)[i] = events[i + 1]
    BY <1>1, FirstOfRest
  <1>3. \A i \in 1 .. Len(events) - 1 : i + 1 \in DOMAIN events
    BY <1>2
  <1>4. \A i \in DOMAIN Tail(events) : ReportOK(Tail(events)[i])
    BY <1>1, <1>2, <1>3
  <1>5. QED
    BY <1>2, <1>4 DEF EventsOK

(* Whatever is handled, the invariant holds afterwards. *)
LEMMA HandledKeepsInv ==
  ASSUME FrontEndInv, Handled
  PROVE  FrontEndInv'
  <1>1. /\ phase = "parsing" /\ events # <<>> /\ events' = Tail(events)
        /\ UNCHANGED <<program, compiles>>
        /\ said' \in BOOLEAN
    BY DEF Handled
  <1>2. TokensHandled /\ TableHandled /\ TypeHandled /\ TreeHandled /\ EndHandled
    BY DEF Handled
  <1>3. /\ WellFormed(symtab') /\ TreeOK(ast', Len(symtab'.symbols))
        /\ typeName' \in DataTypes \cup {None}
        /\ UNCHANGED <<parsingOK, accepted>>
    BY <1>2 DEF TableHandled, TypeHandled, TreeHandled, EndHandled
  <1>4. \/ phase' \in {"parsing", "stopped"} /\ outcome' = "none"
        \/ phase' = "idle" /\ outcome' = "crashed" /\ Len(tokenStack') = MaxSizeOfStack
    BY <1>1, <1>2 DEF EndHandled, FrontEndInv, TypeOK
  <1>5. EventsOK'
    BY <1>1, EventsInTail DEF FrontEndInv
  <1>6. compiles # 0 /\ ~accepted /\ accepted \in BOOLEAN
    BY <1>1 DEF FrontEndInv, AcceptedFits, TypeOK
  <1>7. TypeOK'
    <2>1. \A i \in DOMAIN events' : events'[i].text \in Lexemes \cup {None}
      BY <1>5 DEF EventsOK, ReportOK, Reports
    <2>2. symtab' \in Table
      BY <1>3 DEF WellFormed
    <2>3. tokenStack' \in Seq(Lexemes) /\ tokenReadAhead' \in (Lexemes \ ParserTexts) \cup {NoName}
      BY <1>2 DEF TokensHandled
    <2>4. /\ ast'.failed \in BOOLEAN /\ ast'.broken \in BOOLEAN
          /\ Len(ast'.stack) <= MaxSizeOfStack
          /\ \A i \in DOMAIN ast'.stack :
               /\ ast'.stack[i].sym \in {0} \cup DOMAIN symtab'.symbols
               /\ ast'.stack[i].op \in {"Identifier", "FormalParameter"} => ast'.stack[i].sym # 0
               /\ ast'.stack[i].dt \in DataTypes \cup {None}
      BY <1>3, TreeTyped
    <2>5. /\ compiles' \in 0 .. MaxCompiles /\ program' \in DOMAIN Script
          /\ parsingOK' \in BOOLEAN /\ accepted' \in BOOLEAN /\ compiles' # 0
      BY <1>1, <1>3, <1>6 DEF FrontEndInv, TypeOK
    <2>6. /\ phase' \in {"idle", "parsing", "stopped"}
          /\ outcome' \in {"none", "syntax error", "rejected", "crashed", "translated"}
          /\ (outcome' = "none") <=> (phase' # "idle")
      BY <1>4
    <2>7. QED
      BY <1>1, <1>3, <2>1, <2>2, <2>3, <2>4, <2>5, <2>6 DEF TypeOK
  <1>8. TypesComeFirst'
    <2>1. CASE typeName' # None
      BY <2>1 DEF TypesComeFirst
    <2>2. CASE typeName' = None
      <3>1. typeName' = typeName /\ Event.rule # "Basic-Types"
        BY <1>2, <2>2 DEF TypeHandled
      <3>2. Precedes("Basic-Types", Declaring, events) /\ events \in Seq(Reports)
        BY <2>2, <3>1 DEF FrontEndInv, TypesComeFirst, EventsOK
      <3>3. Precedes("Basic-Types", Declaring, Tail(events))
        BY <1>1, <3>1, <3>2, PrecedesInTail DEF Event
      <3>4. QED
        BY <1>1, <3>3 DEF TypesComeFirst
    <2>3. QED
      BY <2>1, <2>2
  <1>9. NodesStand'
    <2>1. CASE Standing(ast')
      BY <2>1 DEF NodesStand
    <2>2. CASE ~Standing(ast')
      <3>1. /\ ast' = ast /\ Event.rule # "Access-Modifier"
            /\ phase' # "stopped" \/ Event.rule \in InClasses
        BY <1>2, <2>2 DEF TreeHandled
      <3>2. InClass(events) /\ events \in Seq(Reports)
        BY <1>1, <2>2, <3>1 DEF FrontEndInv, NodesStand, EventsOK
      <3>3. InClass(Tail(events)) /\ Event.rule \notin InClasses
        BY <1>1, <3>1, <3>2, InClassInTail DEF Event
      <3>4. QED
        BY <1>1, <3>1, <3>3 DEF NodesStand
    <2>3. QED
      BY <2>1, <2>2
  <1>10. AcceptedFits'
    BY <1>3, <1>6 DEF AcceptedFits
  <1>11. (phase # "idle" => compiles # 0)'
    BY <1>1, <1>6
  <1>12. OverflowNeverTranslated'
    BY <1>4 DEF OverflowNeverTranslated
  <1>13. QED
    BY <1>3, <1>5, <1>7, <1>8, <1>9, <1>10, <1>11, <1>12 DEF FrontEndInv

(* A new compilation starts over. *)
LEMMA StartKeepsInv ==
  ASSUME FrontEndInv, NEW p \in DOMAIN Script, StartCompile(p)
  PROVE  FrontEndInv'
  <1>1. /\ compiles' = compiles + 1 /\ compiles < MaxCompiles /\ program' = p
        /\ events' = Script[p] /\ accepted' = FALSE /\ tokenStack' = <<>>
        /\ tokenReadAhead' = NoName /\ symtab' = EmptyTable /\ typeName' = None
        /\ ast' = EmptyTree /\ said' = FALSE /\ phase' = "parsing" /\ outcome' = "none"
        /\ UNCHANGED parsingOK
    BY DEF StartCompile
  <1>2. Derivation(Programs[p].items) /\ events' = Events(Programs[p].items)
    BY <1>1 DEF Script
  <1>3. /\ events' \in Seq(Reports)
        /\ \A i \in DOMAIN events' : ReportOK(events'[i])
        /\ Precedes("Basic-Types", Declaring, events')
        /\ InClass(events')
    BY <1>2, EventsShape
  <1>4. EventsOK'
    BY <1>3 DEF EventsOK
  <1>5. WellFormed(symtab') /\ Len(symtab'.symbols) \in Nat
    BY <1>1, EmptyWellFormed DEF WellFormed, Table
  <1>6. TreeOK(ast', Len(symtab'.symbols))
    BY <1>1, <1>5, EmptyTreeOK
  <1>7. compiles' # 0
    <2>1. compiles \in 0 .. MaxCompiles
      BY DEF FrontEndInv, TypeOK
    <2>2. QED
      BY <1>1, <2>1
  <1>8. TypeOK'
    <2>1. \A i \in DOMAIN events' : events'[i].text \in Lexemes \cup {None}
      BY <1>3 DEF ReportOK, Reports
    <2>2. symtab' \in Table
      BY <1>5 DEF WellFormed
    <2>3. /\ ast'.failed \in BOOLEAN /\ ast'.broken \in BOOLEAN
          /\ Len(ast'.stack) <= MaxSizeOfStack
          /\ \A i \in DOMAIN ast'.stack :
               /\ ast'.stack[i].sym \in {0} \cup DOMAIN symtab'.symbols
               /\ ast'.stack[i].op \in {"Identifier", "FormalParameter"} => ast'.stack[i].sym # 0
               /\ ast'.stack[i].dt \in DataTypes \cup {None}
      BY <1>5, <1>6, TreeTyped
    <2>4. compiles' \in 0 .. MaxCompiles /\ parsingOK' \in BOOLEAN
      <3>1. compiles \in 0 .. MaxCompiles /\ parsingOK \in BOOLEAN
        BY DEF FrontEndInv, TypeOK
      <3>2. MaxCompiles \in Nat
        BY FrontEndAssumption
      <3>3. QED
        BY <1>1, <3>1, <3>2
    <2>5. tokenStack' \in Seq(Lexemes)
      BY <1>1
    <2>6. QED
      BY <1>1, <1>7, <2>1, <2>2, <2>3, <2>4, <2>5 DEF TypeOK
  <1>9. TypesComeFirst' /\ NodesStand' /\ AcceptedFits' /\ OverflowNeverTranslated'
    BY <1>1, <1>3 DEF TypesComeFirst, NodesStand, AcceptedFits, OverflowNeverTranslated
  <1>10. QED
    BY <1>4, <1>5, <1>6, <1>7, <1>8, <1>9 DEF FrontEndInv

(* What only ends a compilation, in one way or another. *)
Ended ==
  /\ phase # "idle"
  /\ UNCHANGED <<input, tokens, symtab, typeName, ast>>
  /\ said' \in BOOLEAN /\ parsingOK' \in BOOLEAN /\ accepted' \in BOOLEAN
  /\ \/ phase' = "stopped" /\ outcome' = outcome /\ Standing(ast)
     \/ /\ phase' = "idle"
        /\ outcome' \in {"syntax error", "rejected", "crashed", "translated"}
  /\ accepted' => ~symtab.overflowed
  /\ outcome' = "translated" => ~ast.broken
  /\ outcome' = "crashed" => symtab.overflowed \/ ast.broken

LEMMA EndedKeepsInv ==
  ASSUME FrontEndInv, Ended
  PROVE  FrontEndInv'
  <1>1. /\ UNCHANGED <<program, events, compiles, tokenStack, tokenReadAhead,
                       symtab, typeName, ast>>
        /\ phase # "idle" /\ outcome = "none" /\ compiles # 0
        /\ phase' \in {"stopped", "idle"} /\ (phase' = "stopped" => Standing(ast))
        /\ (outcome' = "none") <=> (phase' # "idle")
        /\ outcome' \in {"none", "syntax error", "rejected", "crashed", "translated"}
    BY DEF Ended, input, tokens, FrontEndInv, TypeOK
  <1>2. TypeOK'
    BY <1>1 DEF FrontEndInv, TypeOK, Ended
  <1>3. EventsOK' /\ TypesComeFirst'
    BY <1>1 DEF FrontEndInv, EventsOK, TypesComeFirst
  <1>4. WellFormed(symtab') /\ TreeOK(ast', Len(symtab'.symbols))
    BY <1>1 DEF FrontEndInv
  <1>5. NodesStand'
    BY <1>1 DEF NodesStand
  <1>6. AcceptedFits'
    BY <1>1 DEF AcceptedFits, Ended
  <1>7. OverflowNeverTranslated'
    BY <1>1 DEF OverflowNeverTranslated, Ended
  <1>8. QED
    BY <1>1, <1>2, <1>3, <1>4, <1>5, <1>6, <1>7 DEF FrontEndInv

LEMMA ParserRejectsEnds ==
  ASSUME FrontEndInv, ParserRejects
  PROVE  Ended
  BY DEF ParserRejects, Ended, FrontEndInv, TypeOK, AcceptedFits

LEMMA AcceptEnds ==
  ASSUME FrontEndInv, Accept
  PROVE  Ended
  <1>1. /\ phase = "parsing" /\ events = <<>>
        /\ UNCHANGED <<input, tokens, symtab, typeName, ast>>
        /\ outcome = "none" /\ said \in BOOLEAN /\ parsingOK \in BOOLEAN /\ ~accepted
        /\ accepted \in BOOLEAN
    BY DEF Accept, FrontEndInv, TypeOK, AcceptedFits
  <1>2. Standing(ast)
    <2>1. ~InClass(<<>>)
      BY DEF InClass
    <2>2. QED
      BY <1>1, <2>1 DEF FrontEndInv, NodesStand
  <1>3. CASE symtab.overflowed
    <2>1. Crash
      BY <1>3 DEF Accept, ListingThrows
    <2>2. QED
      BY <1>1, <1>3, <2>1 DEF Crash, Ended
  <1>4. CASE ~symtab.overflowed
    <2>1. parsingOK' = TRUE /\ phase' = "stopped" /\ accepted' = TRUE /\ UNCHANGED <<outcome, said>>
      BY <1>4 DEF Accept, ListingThrows
    <2>2. QED
      BY <1>1, <1>2, <1>4, <2>1 DEF Ended
  <1>5. QED
    BY <1>3, <1>4

LEMMA DecideEnds ==
  ASSUME FrontEndInv, Decide
  PROVE  Ended
  <1>1. /\ phase = "stopped" /\ Standing(ast)
        /\ UNCHANGED <<input, tokens, symtab, typeName, ast>>
        /\ said \in BOOLEAN /\ parsingOK \in BOOLEAN /\ accepted \in BOOLEAN
        /\ accepted => ~symtab.overflowed
    BY DEF Decide, FrontEndInv, TypeOK, NodesStand, AcceptedFits
  <1>2. CASE parsingOK /\ RootThrows(ast)
    <2>1. Crash
      BY <1>2 DEF Decide
    <2>2. ast.broken
      BY <1>1, <1>2 DEF RootThrows, Standing
    <2>3. QED
      BY <1>1, <2>1, <2>2 DEF Crash, Ended
  <1>3. CASE ~(parsingOK /\ RootThrows(ast))
    <2>1. /\ outcome' = IF parsingOK /\ ~errorBuildingTree(ast) THEN "translated" ELSE "rejected"
          /\ phase' = "idle"
          /\ UNCHANGED <<said, parsingOK, accepted>>
      BY <1>3 DEF Decide
    <2>2. outcome' = "translated" => ~ast.broken
      BY <1>3, <2>1 DEF errorBuildingTree, RootThrows
    <2>3. QED
      BY <1>1, <2>1, <2>2 DEF Ended
  <1>4. QED
    BY <1>2, <1>3

------------------------------------------------------------------------------
LEMMA InitInv == Init => FrontEndInv
  <1> SUFFICES ASSUME Init PROVE FrontEndInv
    OBVIOUS
  <1>1. /\ program = NoProgram /\ events = <<>> /\ accepted = FALSE /\ tokenStack = <<>>
        /\ tokenReadAhead = NoName /\ symtab = EmptyTable /\ typeName = None
        /\ ast = EmptyTree /\ said = FALSE /\ parsingOK = FALSE /\ phase = "idle"
        /\ outcome = "none" /\ compiles = 0
    BY DEF Init
  <1>2. WellFormed(symtab) /\ Len(symtab.symbols) \in Nat
    BY <1>1, EmptyWellFormed DEF WellFormed, Table
  <1>3. TreeOK(ast, Len(symtab.symbols))
    BY <1>1, <1>2, EmptyTreeOK
  <1>4. EventsOK
    BY <1>1 DEF EventsOK
  <1>5. TypeOK
    <2>1. symtab \in Table
      BY <1>2 DEF WellFormed
    <2>2. /\ ast.failed \in BOOLEAN /\ ast.broken \in BOOLEAN
          /\ Len(ast.stack) <= MaxSizeOfStack
          /\ \A i \in DOMAIN ast.stack :
               /\ ast.stack[i].sym \in {0} \cup DOMAIN symtab.symbols
               /\ ast.stack[i].op \in {"Identifier", "FormalParameter"} => ast.stack[i].sym # 0
               /\ ast.stack[i].dt \in DataTypes \cup {None}
      BY <1>2, <1>3, TreeTyped
    <2>3. MaxCompiles \in Nat
      BY FrontEndAssumption
    <2>4. tokenStack \in Seq(Lexemes) /\ compiles \in 0 .. MaxCompiles
      BY <1>1, <2>3
    <2>5. \A i \in DOMAIN events : events[i].text \in Lexemes \cup {None}
      BY <1>1
    <2>6. QED
      BY <1>1, <2>1, <2>2, <2>4, <2>5 DEF TypeOK
  <1>6. TypesComeFirst /\ NodesStand /\ AcceptedFits /\ OverflowNeverTranslated
    BY <1>1 DEF TypesComeFirst, NodesStand, AcceptedFits, OverflowNeverTranslated, Precedes
  <1>7. QED
    BY <1>1, <1>2, <1>3, <1>4, <1>5, <1>6 DEF FrontEndInv

(* The actions in which a report is handled. *)
LEMMA EveryHandler ==
  ASSUME FrontEndInv, Next
  PROVE  \/ \E p \in DOMAIN Script : StartCompile(p)
         \/ Handled
         \/ Ended
  <1>1. ASSUME NEW op \in Operators, Build(op)
        PROVE  Handled
    BY <1>1, BuildHandled
  <1>2. /\ TokenRead => Handled
        /\ Rule_No_Parameters => Handled
        /\ Rule_Basic_Types => Handled
        /\ Rule_Access_Modifier => Handled
        /\ Rule_Return_Type => Handled
        /\ Rule_Var_declaration => Handled
        /\ Rule_Parameter => Handled
        /\ Rule_Assignment => Handled
        /\ Rule_Read_statement => Handled
        /\ Rule_Value_Id => Handled
        /\ Rule_Value_Literal => Handled
        /\ Rule_Value_Parentheses => Handled
        /\ Rule_Class_def_name => Handled
        /\ Rule_Method_def_name => Handled
    BY TokenReadHandled, NoParametersHandled, BasicTypesHandled, AccessModifierHandled,
       ReturnTypeHandled, VarDeclarationHandled, ParameterHandled, AssignmentHandled,
       ReadStatementHandled, ValueIdHandled, ValueLiteralHandled, ValueParenthesesHandled,
       ClassNameHandled, MethodNameHandled
  <1>3. /\ ParserRejects => Ended
        /\ Accept => Ended
        /\ Decide => Ended
    BY ParserRejectsEnds, AcceptEnds, DecideEnds
  <1>4. QED
    BY <1>1, <1>2, <1>3 DEF Next

LEMMA StutterInv ==
  ASSUME FrontEndInv, UNCHANGED vars
  PROVE  FrontEndInv'
  <1>1. UNCHANGED <<program, events, compiles, tokenStack, tokenReadAhead, symtab, typeName,
                    ast, said, parsingOK, phase, outcome, accepted>>
    BY DEF vars, input, tokens, ending
  <1>2. TypeOK'
    BY ZenonT(30), <1>1 DEF FrontEndInv, TypeOK
  <1>3. /\ EventsOK' /\ TypesComeFirst' /\ NodesStand' /\ AcceptedFits'
        /\ OverflowNeverTranslated'
    BY <1>1 DEF FrontEndInv, EventsOK, TypesComeFirst, NodesStand, AcceptedFits,
                OverflowNeverTranslated
  <1>4. /\ WellFormed(symtab') /\ TreeOK(ast', Len(symtab'.symbols))
        /\ (phase # "idle" => compiles # 0)'
    BY <1>1 DEF FrontEndInv
  <1>5. QED
    BY <1>2, <1>3, <1>4 DEF FrontEndInv

LEMMA FrontEndInvariant == Spec => []FrontEndInv
  <1>1. FrontEndInv /\ [Next]_vars => FrontEndInv'
    <2>1. FrontEndInv /\ Next => FrontEndInv'
      BY EveryHandler, StartKeepsInv, HandledKeepsInv, EndedKeepsInv
    <2>2. QED
      BY <2>1, StutterInv
  <1>2. QED
    BY <1>1, InitInv, PTL DEF Spec

------------------------------------------------------------------------------
(* Every variable of the front end has its type, a node of the tree refers *)
(* to a symbol there is, and one that stands for a name always to one; a   *)
(* compilation that is over has an outcome (compiler.Compile).             *)
THEOREM FrontEndTypeCorrect == Spec => []TypeOK
  <1>1. FrontEndInv => TypeOK
    BY DEF FrontEndInv
  <1>2. QED
    BY <1>1, FrontEndInvariant, PTL

(* A program too large for the symbol table or the stack of nodes is never *)
(* translated once it has been parsed to its end, and nothing but such a   *)
(* program, or a full stack of tokens, throws an exception out of Compile, *)
(* whatever the three capacities are.                                      *)
THEOREM FrontEndOverflow == Spec => []OverflowNeverTranslated
  <1>1. FrontEndInv => OverflowNeverTranslated
    BY DEF FrontEndInv
  <1>2. QED
    BY <1>1, FrontEndInvariant, PTL

(* Every handler uses the symbol table in one of the ways Scoping allows,  *)
(* or not at all: what Scoping promises holds of the compiler.             *)
THEOREM FrontEndImplementsScoping == Spec => ImplementsScoping
  <1>1. Init => Names!Init
    BY SameOperators DEF Init, Names!Init
  <1>2. FrontEndInv /\ [Next]_vars => [Names!Next]_symtab
    <2>1. ASSUME NEW p \in DOMAIN Script, StartCompile(p)
          PROVE  Names!Next
      BY <2>1, NewTableIsAStep DEF StartCompile
    <2>2. Handled => [Names!Next]_symtab
      BY DEF Handled, TableHandled
    <2>3. Ended => UNCHANGED symtab
      BY DEF Ended
    <2>4. UNCHANGED vars => UNCHANGED symtab
      BY DEF vars
    <2>5. QED
      BY <2>1, <2>2, <2>3, <2>4, EveryHandler
  <1>3. QED
    BY <1>1, <1>2, FrontEndInvariant, PTL DEF Spec, ImplementsScoping, Names!Spec

------------------------------------------------------------------------------
(* What ScopingProofs proves of the symbol table, for the front end's.     *)
Proved == INSTANCE ScopingProofs WITH Types <- DataTypes, TemporaryNumbers <- Nat

(* That copy, too, has the same operators, steps and properties. *)
LEMMA SameTable ==
  /\ Proved!EmptyTable = EmptyTable
  /\ \A t, name, type, kind : Proved!AddSymbol(t, name, type, kind) = AddSymbol(t, name, type, kind)
  /\ \A t, name : Proved!Added(t, name) <=> Added(t, name)
  /\ \A t, class : Proved!SetActiveClass(t, class) = SetActiveClass(t, class)
  /\ \A t, method : Proved!SetActiveMethod(t, method) = SetActiveMethod(t, method)
  /\ \A t, type : Proved!GetFreeStore(t, type) = GetFreeStore(t, type)
  <1>1. Proved!EmptyTable = EmptyTable
    BY DEF Proved!EmptyTable, EmptyTable
  <1>2. /\ \A t, name : Proved!Refused(t, name) <=> Refused(t, name)
        /\ \A t : Proved!Fits(t) <=> Fits(t)
    <2>1. \A t, name : Proved!Occurrences(t, name) = Occurrences(t, name)
      BY DEF Proved!Occurrences, Occurrences, Proved!InScope, InScope
    <2>2. QED
      BY <2>1 DEF Proved!Refused, Refused, Proved!ExistInTable, ExistInTable, Proved!Fits, Fits
  <1>3. \A t, name, type, kind :
          Proved!Store(t, Proved!NewSymbol(t, name, type, kind)) = Store(t, NewSymbol(t, name, type, kind))
    BY DEF Proved!Store, Store, Proved!NewSymbol, NewSymbol
  <1>4. \A t, name, type, kind : Proved!AddSymbol(t, name, type, kind) = AddSymbol(t, name, type, kind)
    BY <1>2, <1>3 DEF Proved!AddSymbol, AddSymbol
  <1>5. \A t, name : Proved!Added(t, name) <=> Added(t, name)
    BY <1>2 DEF Proved!Added, Added
  <1>6. /\ \A t, class : Proved!SetActiveClass(t, class) = SetActiveClass(t, class)
        /\ \A t, method : Proved!SetActiveMethod(t, method) = SetActiveMethod(t, method)
    BY DEF Proved!SetActiveClass, SetActiveClass, Proved!SetActiveMethod, SetActiveMethod
  <1>7. \A t, type : Proved!GetFreeStore(t, type) = GetFreeStore(t, type)
    BY <1>4 DEF Proved!GetFreeStore, GetFreeStore, Proved!NextTemporary, NextTemporary,
                Proved!FreeStoreName, FreeStoreName
  <1>8. QED
    BY <1>1, <1>4, <1>5, <1>6, <1>7

LEMMA SameSteps ==
  /\ Names!Init => Proved!Init
  /\ Names!Next => Proved!Next
  <1>1. Names!Init => Proved!Init
    BY SameTable, SameOperators DEF Names!Init, Proved!Init
  <1>2. /\ Names!NewCompilation => Proved!NewCompilation
        /\ \A name : Names!DefineClass(name) => Proved!DefineClass(name)
        /\ \A name : Names!DefineMethod(name) => Proved!DefineMethod(name)
        /\ \A name, type : Names!Declare(name, type) => Proved!Declare(name, type)
        /\ \A type : Names!NewTemporary(type) => Proved!NewTemporary(type)
    BY SameTable, SameOperators
       DEF Names!NewCompilation, Proved!NewCompilation, Names!DefineClass, Proved!DefineClass,
           Names!DefineMethod, Proved!DefineMethod, Names!Declare, Proved!Declare,
           Names!NewTemporary, Proved!NewTemporary
  <1>3. Names!Next => Proved!Next
    BY <1>2 DEF Names!Next, Proved!Next
  <1>4. QED
    BY <1>1, <1>3

(* Its assumptions on the constants are the front end's. *)
LEMMA ProvedAssumptions ==
  /\ DataTypes \subseteq Proved!DataTypes
  /\ \A name \in Lexemes \cup {NoName} : name \notin Proved!FreeStoreNames
  <1>1. Proved!FreeStoreNames = FreeStoreNames /\ Proved!DataTypes = DataTypes
    BY DEF Proved!FreeStoreNames, FreeStoreNames, Proved!DataTypes, DataTypes
  <1>2. QED
    BY <1>1, SymbolTableAssumption

LEMMA SameProperties ==
  /\ Proved!UniqueInScope => Names!UniqueInScope
  /\ Proved!TemporariesDistinct => Names!TemporariesDistinct
  /\ Proved!ScopesDeclared => Names!ScopesDeclared
  <1>1. \A s, class, method : Proved!InScope(s, class, method) <=> Names!InScope(s, class, method)
    BY DEF Proved!InScope, Names!InScope
  <1>2. \A symbols, class, method :
          Proved!ScopeDeclared(symbols, class, method) => Names!ScopeDeclared(symbols, class, method)
    BY <1>1 DEF Proved!ScopeDeclared, Names!ScopeDeclared
  <1>3. Proved!UniqueInScope => Names!UniqueInScope
    BY <1>1 DEF Proved!UniqueInScope, Names!UniqueInScope
  <1>4. Proved!TemporariesDistinct => Names!TemporariesDistinct
    BY DEF Proved!TemporariesDistinct, Names!TemporariesDistinct
  <1>5. Proved!ScopesDeclared => Names!ScopesDeclared
    BY <1>2 DEF Proved!ScopesDeclared, Names!ScopesDeclared
  <1>6. QED
    BY <1>3, <1>4, <1>5

(* In whatever order the engine reports, whatever is refused or overflows,  *)
(* the table the handlers of compiler.java keep has no name twice in a      *)
(* scope, no temporary with the name of another symbol, no scope that was   *)
(* not defined; and a node's index stays that of its symbol until the next  *)
(* compilation.                                                             *)
THEOREM FrontEndKeepsTable ==
  Spec => /\ [](Names!UniqueInScope /\ Names!TemporariesDistinct /\ Names!ScopesDeclared)
          /\ Names!SymbolsStable
  <1>1. Spec => Proved!Spec
    BY SameSteps, FrontEndImplementsScoping, PTL DEF ImplementsScoping, Names!Spec, Proved!Spec
  <1>2. Proved!Spec => []Proved!UniqueInScope
    BY ProvedAssumptions, SymbolTableAssumption, Proved!NamesUniqueInScope
  <1>3. Proved!Spec => []Proved!TemporariesDistinct
    BY ProvedAssumptions, SymbolTableAssumption, Proved!TemporariesNeverClash
  <1>4. Proved!Spec => []Proved!ScopesDeclared
    BY ProvedAssumptions, SymbolTableAssumption, Proved!EveryScopeDeclared
  <1>5. Proved!Spec => Proved!SymbolsStable
    BY ProvedAssumptions, SymbolTableAssumption, Proved!IndicesStable
  <1>6. Proved!SymbolsStable => Names!SymbolsStable
    <2>1. Proved!NewCompilation => Names!NewCompilation
      BY SameTable, SameOperators DEF Proved!NewCompilation, Names!NewCompilation
    <2>2. QED
      BY <2>1, PTL DEF Proved!SymbolsStable, Names!SymbolsStable
  <1>7. QED
    BY <1>1, <1>2, <1>3, <1>4, <1>5, <1>6, SameProperties, PTL

------------------------------------------------------------------------------
(* The stack of tokens.  After the first k moves it holds the texts of the *)
(* lexemes that have been shifted and not been taken, in order, and the    *)
(* token the engine has read ahead waits beside it.                        *)
Pending(moves, k) ==
  {j \in 1 .. k : /\ Keeps(moves[j])
                  /\ ~\E l \in DOMAIN LexemeOf(moves) : l <= k /\ LexemeOf(moves)[l] = j}

Ordered(pos, S) ==
  /\ pos \in Seq(Nat)
  /\ \A i, j \in DOMAIN pos : i < j => pos[i] < pos[j]
  /\ S = {pos[i] : i \in DOMAIN pos}

Kept(text) == IF text \in ParserTexts THEN NoName ELSE text

OnStack(stack, moves, k) ==
  \E pos : /\ Ordered(pos, Pending(moves, k))
           /\ Len(stack) = Len(pos)
           /\ \A i \in DOMAIN pos : stack[i] = moves[pos[i]].text

Ahead(ahead, moves, k) ==
  IF k = -1 THEN ahead = NoName
  ELSE /\ ahead = Kept(NextToken(moves, k).text)
       /\ NextToken(moves, k).text \in ParserTexts => NextToken(moves, k).text = Keyword

Remaining(rest, moves, k) ==
  /\ Len(rest) = Len(moves) - k
  /\ \A i \in DOMAIN rest : rest[i] = Events(moves)[k + 1 + i]

AlignedAt(moves, k) ==
  Remaining(events, moves, k) /\ Ahead(tokenReadAhead, moves, k) /\ OnStack(tokenStack, moves, k)

Aligned(rest, ahead, stack, moves) ==
  \E k \in -1 .. Len(moves) :
    Remaining(rest, moves, k) /\ Ahead(ahead, moves, k) /\ OnStack(stack, moves, k)

TokensPending ==
  phase = "parsing" /\ Plain =>
    Aligned(events, tokenReadAhead, tokenStack, Programs[program].items)

(* The next token is that of the next shift, and stays so until then. *)
LEMMA NextShift ==
  ASSUME NEW moves \in Seq(Moves), NEW k \in 0 .. Len(moves) - 1,
         moves[k + 1].act = "shift"
  PROVE  NextToken(moves, k).text = moves[k + 1].text
  <1> DEFINE later == {j \in k + 1 .. Len(moves) : moves[j].act = "shift"}
             next  == CHOOSE j \in later : \A i \in later : j <= i
  <1>1. k + 1 \in later /\ later \in SUBSET Nat
    OBVIOUS
  <1>2. \A j \in later : k + 1 <= j
    OBVIOUS
  <1>3. NextToken(moves, k).text = IF later = {} THEN Keyword ELSE moves[next].text
    BY DEF NextToken
  <1> HIDE DEF later
  <1>4. next \in later /\ \A i \in later : next <= i
    BY <1>1, <1>2
  <1> HIDE DEF next
  <1>5. next = k + 1
    BY <1>1, <1>2, <1>4
  <1>6. QED
    BY <1>1, <1>3, <1>5

LEMMA NextSame ==
  ASSUME NEW moves \in Seq(Moves), NEW k \in 0 .. Len(moves) - 1,
         moves[k + 1].act # "shift"
  PROVE  NextToken(moves, k + 1) = NextToken(moves, k)
  <1> DEFINE later(i)  == {j \in i + 1 .. Len(moves) : moves[j].act = "shift"}
             token(S) == [act |-> "read", rule |-> None, alt |-> None,
                          text |-> IF S = {} THEN Keyword
                                   ELSE moves[CHOOSE j \in S : \A i \in S : j <= i].text]
  <1>1. later(k + 1) = later(k)
    <2>1. \A j : j \in k + 1 .. Len(moves) /\ moves[j].act = "shift"
                  <=> j \in (k + 1) + 1 .. Len(moves) /\ moves[j].act = "shift"
      OBVIOUS
    <2>2. QED
      BY <2>1
  <1>2. /\ NextToken(moves, k) = token(later(k))
        /\ NextToken(moves, k + 1) = token(later(k + 1))
    BY DEF NextToken
  <1> HIDE DEF later, token
  <1>3. QED
    BY <1>1, <1>2

LEMMA OrderedAppend ==
  ASSUME NEW pos, NEW S, Ordered(pos, S), NEW q \in Nat, \A s \in S : s < q
  PROVE  Ordered(Append(pos, q), S \cup {q})
  <1> DEFINE u == Append(pos, q)
             m == Len(pos)
  <1>1. /\ pos \in Seq(Nat) /\ m \in Nat /\ DOMAIN pos = 1 .. m
        /\ \A i, j \in DOMAIN pos : i < j => pos[i] < pos[j]
        /\ S = {pos[i] : i \in DOMAIN pos}
    BY DEF Ordered
  <1>2. /\ u \in Seq(Nat) /\ DOMAIN u = 1 .. m + 1
        /\ u[m + 1] = q /\ \A i \in 1 .. m : u[i] = pos[i]
    BY <1>1
  <1> HIDE DEF u, m
  <1>3. \A i \in 1 .. m + 1 : i \in 1 .. m \/ i = m + 1
    BY <1>1
  <1>4. ASSUME NEW i \in DOMAIN u, NEW j \in DOMAIN u, i < j
        PROVE  u[i] < u[j]
    <2>1. i \in 1 .. m /\ u[i] = pos[i] /\ pos[i] \in S
      BY <1>1, <1>2, <1>4
    <2>2. CASE j \in 1 .. m
      BY <1>1, <1>2, <1>4, <2>1, <2>2
    <2>3. CASE j = m + 1
      BY <1>2, <2>1, <2>3
    <2>4. QED
      BY <1>2, <1>3, <2>2, <2>3
  <1>5. S \cup {q} = {u[i] : i \in DOMAIN u}
    <2>1. \A s \in S : \E i \in DOMAIN u : s = u[i]
      <3>1. \A i \in 1 .. m : i \in DOMAIN u
        BY <1>1, <1>2
      <3>2. QED
        BY <1>1, <1>2, <3>1
    <2>2. m + 1 \in DOMAIN u
      BY <1>1, <1>2
    <2>3. \A i \in DOMAIN u : u[i] \in S \cup {q}
      BY <1>1, <1>2, <1>3
    <2>4. QED
      BY <1>2, <2>1, <2>2, <2>3
  <1>6. QED
    BY <1>2, <1>4, <1>5 DEF Ordered, u

LEMMA OrderedFront ==
  ASSUME NEW pos, NEW S, Ordered(pos, S), NEW q \in S, \A s \in S : s <= q
  PROVE  LET m == Len(pos)
         IN  /\ m \in Nat \ {0}
             /\ pos[m] = q
             /\ Ordered(SubSeq(pos, 1, m - 1), S \ {q})
             /\ DOMAIN SubSeq(pos, 1, m - 1) = 1 .. m - 1
             /\ Len(SubSeq(pos, 1, m - 1)) = m - 1
             /\ \A i \in 1 .. m - 1 : SubSeq(pos, 1, m - 1)[i] = pos[i]
  <1> DEFINE m == Len(pos)
             u == SubSeq(pos, 1, m - 1)
  <1>1. /\ pos \in Seq(Nat) /\ m \in Nat /\ DOMAIN pos = 1 .. m
        /\ \A i, j \in DOMAIN pos : i < j => pos[i] < pos[j]
        /\ S = {pos[i] : i \in DOMAIN pos}
    BY DEF Ordered
  <1>2. PICK h \in DOMAIN pos : pos[h] = q
    BY <1>1
  <1>3. m \in Nat \ {0} /\ m \in DOMAIN pos
    BY <1>1, <1>2
  <1>4. h = m
    <2>1. SUFFICES ASSUME h < m PROVE FALSE
      BY <1>1, <1>2
    <2>2. pos[h] < pos[m] /\ pos[m] \in S /\ pos[m] \in Nat /\ pos[h] \in Nat
      BY <1>1, <1>2, <1>3, <2>1
    <2>3. pos[m] <= pos[h]
      BY <1>2, <2>2
    <2>4. QED
      BY <2>2, <2>3
  <1>5. /\ u \in Seq(Nat) /\ DOMAIN u = 1 .. m - 1 /\ Len(u) = m - 1
        /\ \A i \in 1 .. m - 1 : u[i] = pos[i]
    BY <1>1, <1>3
  <1> HIDE DEF u, m
  <1>6. \A i \in 1 .. m - 1 : i \in DOMAIN pos /\ i < m
    BY <1>1
  <1>7. \A i \in DOMAIN pos : i \in 1 .. m - 1 \/ i = m
    BY <1>1
  <1>8. \A i, j \in DOMAIN u : i < j => u[i] < u[j]
    BY SMTT(20), <1>1, <1>5, <1>6
  <1>9. S \ {q} = {u[i] : i \in DOMAIN u}
    <2>1. \A i \in DOMAIN u : u[i] \in S /\ u[i] # q
      <3>1. ASSUME NEW i \in DOMAIN u
            PROVE  u[i] \in S /\ u[i] # q
        <4>1. i \in DOMAIN pos /\ i < m /\ u[i] = pos[i]
          BY <1>5, <1>6
        <4>2. pos[i] < pos[m]
          BY <1>1, <1>3, <4>1
        <4>3. pos[i] \in Nat /\ pos[m] = q
          BY <1>1, <1>2, <1>4, <4>1
        <4>4. QED
          BY <1>1, <4>1, <4>2, <4>3
      <3>2. QED
        BY <3>1
    <2>2. \A s \in S \ {q} : \E i \in DOMAIN u : s = u[i]
      BY <1>1, <1>2, <1>4, <1>5, <1>7
    <2>3. QED
      BY <2>1, <2>2
  <1>10. QED
    BY <1>2, <1>3, <1>4, <1>5, <1>8, <1>9 DEF Ordered, u, m

(* What a derivation says of its lexemes. *)
LEMMA LexemesNest ==
  ASSUME NEW moves, Derivation(moves)
  PROVE  LET L == LexemeOf(moves)
         IN  /\ moves \in Seq(Moves)
             /\ DOMAIN moves = 1 .. Len(moves) /\ Len(moves) \in Nat
             /\ \A i : i \in DOMAIN L <=> i \in 1 .. Len(moves) /\ Takes(moves[i])
             /\ \A i \in DOMAIN L :
                  /\ L[i] \in 1 .. i - 1
                  /\ Keeps(moves[L[i]])
                  /\ moves[L[i]].text = moves[i].text
                  /\ \A j \in L[i] + 1 .. i - 1 :
                       Keeps(moves[j]) => \E l \in j + 1 .. i - 1 : l \in DOMAIN L /\ L[l] = j
             /\ \A i, l \in DOMAIN L : L[i] = L[l] => i = l
  <1> DEFINE L == LexemeOf(moves)
  <1>1. moves \in Seq(Moves) /\ WellNested(moves, L)
    BY DEF Derivation
  <1>2. DOMAIN moves = 1 .. Len(moves) /\ Len(moves) \in Nat
    BY <1>1
  <1>3. DOMAIN L = {i \in DOMAIN moves : Takes(moves[i])}
    BY DEF LexemeOf
  <1> HIDE DEF L
  <1>4. \A i : i \in DOMAIN L <=> i \in 1 .. Len(moves) /\ Takes(moves[i])
    BY <1>2, <1>3
  <1>5. QED
    BY <1>1, <1>2, <1>4 DEF WellNested, L

(* Between two moves the pending lexemes change by at most one. *)
LEMMA PendingStays ==
  ASSUME NEW moves, Derivation(moves), NEW k \in 0 .. Len(moves) - 1, ~Takes(moves[k + 1])
  PROVE  Pending(moves, k + 1)
           = Pending(moves, k) \cup (IF Keeps(moves[k + 1]) THEN {k + 1} ELSE {})
  <1> DEFINE L == LexemeOf(moves)
  <1>1. /\ Len(moves) \in Nat
        /\ \A i : i \in DOMAIN L <=> i \in 1 .. Len(moves) /\ Takes(moves[i])
        /\ \A i \in DOMAIN L : L[i] \in 1 .. i - 1
    BY LexemesNest
  <1>2. /\ Pending(moves, k) =
             {j \in 1 .. k : Keeps(moves[j]) /\ ~\E l \in DOMAIN L : l <= k /\ L[l] = j}
        /\ Pending(moves, k + 1) =
             {j \in 1 .. k + 1 : Keeps(moves[j]) /\ ~\E l \in DOMAIN L : l <= k + 1 /\ L[l] = j}
    BY DEF Pending
  <1> HIDE DEF L
  <1>3. \A l \in DOMAIN L : l <= k + 1 <=> l <= k
    <2>1. k + 1 \notin DOMAIN L
      BY <1>1
    <2>2. QED
      BY <1>1, <2>1
  <1>4. ~\E l \in DOMAIN L : l <= k /\ L[l] = k + 1
    BY <1>1
  <1>5. \A j : j \in 1 .. k + 1 <=> j \in 1 .. k \/ j = k + 1
    OBVIOUS
  <1>6. ASSUME NEW j
        PROVE  j \in Pending(moves, k + 1)
                 <=> j \in Pending(moves, k) \/ (j = k + 1 /\ Keeps(moves[j]))
    <2>1. j \in Pending(moves, k + 1) <=>
            /\ j \in 1 .. k \/ j = k + 1
            /\ Keeps(moves[j])
            /\ ~\E l \in DOMAIN L : l <= k /\ L[l] = j
      BY <1>2, <1>3, <1>5
    <2>2. j \in Pending(moves, k) <=>
            j \in 1 .. k /\ Keeps(moves[j]) /\ ~\E l \in DOMAIN L : l <= k /\ L[l] = j
      BY <1>2
    <2>3. QED
      BY <1>4, <2>1, <2>2
  <1>7. QED
    BY <1>6

LEMMA PendingTaken ==
  ASSUME NEW moves, Derivation(moves), NEW k \in 0 .. Len(moves) - 1, Takes(moves[k + 1])
  PROVE  LET q == LexemeOf(moves)[k + 1]
         IN  /\ q \in Pending(moves, k)
             /\ \A j \in Pending(moves, k) : j <= q
             /\ Pending(moves, k + 1) = Pending(moves, k) \ {q}
             /\ moves[q].text = moves[k + 1].text
  <1> DEFINE L == LexemeOf(moves)
             q == L[k + 1]
  <1>1. /\ Len(moves) \in Nat
        /\ \A i : i \in DOMAIN L <=> i \in 1 .. Len(moves) /\ Takes(moves[i])
        /\ \A i \in DOMAIN L :
             /\ L[i] \in 1 .. i - 1
             /\ Keeps(moves[L[i]])
             /\ moves[L[i]].text = moves[i].text
             /\ \A j \in L[i] + 1 .. i - 1 :
                  Keeps(moves[j]) => \E l \in j + 1 .. i - 1 : l \in DOMAIN L /\ L[l] = j
        /\ \A i, l \in DOMAIN L : L[i] = L[l] => i = l
    BY LexemesNest
  <1>2. /\ Pending(moves, k) =
             {j \in 1 .. k : Keeps(moves[j]) /\ ~\E l \in DOMAIN L : l <= k /\ L[l] = j}
        /\ Pending(moves, k + 1) =
             {j \in 1 .. k + 1 : Keeps(moves[j]) /\ ~\E l \in DOMAIN L : l <= k + 1 /\ L[l] = j}
    BY DEF Pending
  <1> HIDE DEF L
  <1>3. k + 1 \in DOMAIN L
    BY <1>1
  <1>4. /\ q \in 1 .. k /\ Keeps(moves[q]) /\ moves[q].text = moves[k + 1].text
        /\ \A j \in q + 1 .. k :
             Keeps(moves[j]) => \E l \in j + 1 .. k : l \in DOMAIN L /\ L[l] = j
    <2>1. (k + 1) - 1 = k
      OBVIOUS
    <2>2. QED
      BY <1>1, <1>3, <2>1
  <1>5. \A l \in DOMAIN L : L[l] = q => l = k + 1
    BY <1>1, <1>3
  <1> HIDE DEF q
  <1>6. q \in Pending(moves, k)
    <2>1. ~\E l \in DOMAIN L : l <= k /\ L[l] = q
      BY <1>5
    <2>2. QED
      BY <1>2, <1>4, <2>1
  <1>7. ASSUME NEW j \in Pending(moves, k)
        PROVE  j <= q
    <2>1. SUFFICES ASSUME q < j PROVE FALSE
      BY <1>2, <1>4
    <2>2. j \in q + 1 .. k /\ Keeps(moves[j]) /\ ~\E l \in DOMAIN L : l <= k /\ L[l] = j
      BY <1>2, <1>4, <2>1
    <2>3. PICK l \in j + 1 .. k : l \in DOMAIN L /\ L[l] = j
      BY <1>4, <2>2
    <2>4. QED
      BY <2>2, <2>3
  <1>8. ~Keeps(moves[k + 1])
    BY DEF Keeps, Takes
  <1>9. ASSUME NEW j
        PROVE  j \in Pending(moves, k + 1) <=> j \in Pending(moves, k) \ {q}
    <2>1. \A l \in DOMAIN L : l <= k + 1 <=> l <= k \/ l = k + 1
      BY <1>1
    <2>2. (\E l \in DOMAIN L : l <= k + 1 /\ L[l] = j)
            <=> (\E l \in DOMAIN L : l <= k /\ L[l] = j) \/ j = q
      BY <1>3, <2>1 DEF q
    <2>3. j \in 1 .. k + 1 /\ Keeps(moves[j]) <=> j \in 1 .. k /\ Keeps(moves[j])
      BY <1>8
    <2>4. QED
      BY <1>2, <2>2, <2>3
  <1>10. Pending(moves, k + 1) = Pending(moves, k) \ {q}
    BY <1>9
  <1>11. QED
    BY <1>4, <1>6, <1>7, <1>10 DEF q, L

(* The stack before the first move, after a shift, after a reduction that  *)
(* takes a lexeme, and after any other.                                    *)
LEMMA OnStackFirst ==
  ASSUME NEW moves
  PROVE  /\ OnStack(<<>>, moves, -1)
         /\ \A stack : OnStack(stack, moves, -1) => OnStack(stack, moves, 0)
  <1>1. Pending(moves, -1) = {} /\ Pending(moves, 0) = {}
    <2>1. 1 .. -1 = {} /\ 1 .. 0 = {}
      OBVIOUS
    <2>2. QED
      BY <2>1 DEF Pending
  <1>2. Ordered(<<>>, {})
    BY DEF Ordered
  <1>3. Len(<<>>) = 0 /\ DOMAIN <<>> = {}
    OBVIOUS
  <1>4. QED
    BY <1>1, <1>2, <1>3 DEF OnStack

LEMMA OnStackSame ==
  ASSUME NEW moves, Derivation(moves), NEW k \in 0 .. Len(moves) - 1,
         ~Takes(moves[k + 1]), ~Keeps(moves[k + 1]),
         NEW stack, OnStack(stack, moves, k)
  PROVE  OnStack(stack, moves, k + 1)
  <1>1. Pending(moves, k + 1) = Pending(moves, k) \cup (IF Keeps(moves[k + 1]) THEN {k + 1} ELSE {})
    BY PendingStays
  <1>2. Pending(moves, k + 1) = Pending(moves, k)
    BY <1>1
  <1>3. QED
    BY <1>2 DEF OnStack

LEMMA OnStackPush ==
  ASSUME NEW moves, Derivation(moves), NEW k \in 0 .. Len(moves) - 1,
         Keeps(moves[k + 1]),
         NEW stack \in Seq(Lexemes), OnStack(stack, moves, k),
         moves[k + 1].text \in Lexemes
  PROVE  OnStack(Append(stack, moves[k + 1].text), moves, k + 1)
  <1> DEFINE text == moves[k + 1].text
  <1>1. PICK pos : /\ Ordered(pos, Pending(moves, k))
                   /\ Len(stack) = Len(pos)
                   /\ \A i \in DOMAIN pos : stack[i] = moves[pos[i]].text
    BY DEF OnStack
  <1>2. Pending(moves, k + 1) = Pending(moves, k) \cup {k + 1}
    <2>1. ~Takes(moves[k + 1])
      BY DEF Keeps, Takes
    <2>2. QED
      BY <2>1, PendingStays
  <1>3. k + 1 \in Nat /\ \A j \in Pending(moves, k) : j < k + 1
    BY DEF Pending
  <1>4. Ordered(Append(pos, k + 1), Pending(moves, k + 1))
    BY <1>1, <1>2, <1>3, OrderedAppend
  <1> DEFINE m == Len(pos)
             u == Append(pos, k + 1)
             v == Append(stack, text)
  <1>5. /\ pos \in Seq(Nat) /\ m \in Nat /\ DOMAIN pos = 1 .. m
        /\ Len(u) = m + 1 /\ DOMAIN u = 1 .. m + 1 /\ u[m + 1] = k + 1
        /\ \A i \in 1 .. m : u[i] = pos[i]
    BY <1>1, <1>3 DEF Ordered
  <1>6. Len(v) = m + 1 /\ v[m + 1] = text /\ \A i \in 1 .. m : v[i] = stack[i]
    BY <1>1
  <1> HIDE DEF m, u, v
  <1>7. ASSUME NEW i \in DOMAIN u
        PROVE  v[i] = moves[u[i]].text
    <2>1. CASE i \in 1 .. m
      BY <1>1, <1>5, <1>6, <2>1
    <2>2. CASE i = m + 1
      BY <1>5, <1>6, <2>2
    <2>3. QED
      BY <1>5, <2>1, <2>2
  <1>8. Ordered(u, Pending(moves, k + 1)) /\ Len(v) = Len(u)
    BY <1>4, <1>5, <1>6 DEF u
  <1>9. OnStack(v, moves, k + 1)
    BY <1>7, <1>8 DEF OnStack
  <1>10. QED
    BY <1>9 DEF v

LEMMA OnStackPop ==
  ASSUME NEW moves, Derivation(moves), NEW k \in 0 .. Len(moves) - 1, Takes(moves[k + 1]),
         NEW stack \in Seq(Lexemes), OnStack(stack, moves, k)
  PROVE  /\ stack # <<>>
         /\ Last(stack) = moves[k + 1].text
         /\ OnStack(Front(stack), moves, k + 1)
  <1> DEFINE q == LexemeOf(moves)[k + 1]
             S == Pending(moves, k)
  <1>1. /\ q \in S /\ \A j \in S : j <= q
        /\ Pending(moves, k + 1) = S \ {q}
        /\ moves[q].text = moves[k + 1].text
    BY PendingTaken
  <1> HIDE DEF q, S
  <1>2. PICK pos : /\ Ordered(pos, S)
                   /\ Len(stack) = Len(pos)
                   /\ \A i \in DOMAIN pos : stack[i] = moves[pos[i]].text
    BY DEF OnStack, S
  <1> DEFINE m == Len(pos)
             u == SubSeq(pos, 1, m - 1)
             v == SubSeq(stack, 1, m - 1)
  <1>3. /\ m \in Nat \ {0} /\ pos[m] = q
        /\ Ordered(u, S \ {q})
        /\ DOMAIN u = 1 .. m - 1 /\ Len(u) = m - 1
        /\ \A i \in 1 .. m - 1 : u[i] = pos[i]
    <2>1. Ordered(pos, S) /\ q \in S /\ \A j \in S : j <= q
      BY <1>1, <1>2
    <2>2. QED
      BY <2>1, OrderedFront
  <1>4. DOMAIN pos = 1 .. m
    BY <1>2, <1>3 DEF Ordered
  <1>6. Len(stack) = m /\ stack # <<>> /\ Last(stack) = stack[m] /\ Front(stack) = v
    BY <1>2, <1>3 DEF Last, Front
  <1>7. Len(v) = m - 1 /\ \A i \in 1 .. m - 1 : v[i] = stack[i]
    BY <1>3, <1>6
  <1> HIDE DEF m, u, v
  <1>8. Last(stack) = moves[k + 1].text
    BY <1>1, <1>2, <1>3, <1>4, <1>6
  <1>9. \A i \in DOMAIN u : v[i] = moves[u[i]].text
    <2>1. \A i \in 1 .. m - 1 : i \in DOMAIN pos
      BY <1>3, <1>4
    <2>2. QED
      BY <1>2, <1>3, <1>7, <2>1
  <1>10. OnStack(v, moves, k + 1)
    <2>1. Ordered(u, Pending(moves, k + 1)) /\ Len(v) = Len(u)
      BY <1>1, <1>3, <1>7
    <2>2. QED
      BY <1>9, <2>1 DEF OnStack
  <1>11. QED
    BY <1>6, <1>8, <1>10

(* What a step that goes on parsing does to the stack of tokens: exactly   *)
(* the reductions that have a lexeme take one.                             *)
TokensMove ==
  /\ phase = "parsing"
  /\ events # <<>>
  /\ events' = Tail(events)
  /\ UNCHANGED program
  /\ \/ /\ Event.act = "read"
        /\ tokenStack' = IF tokenReadAhead = NoName THEN tokenStack
                         ELSE Append(tokenStack, tokenReadAhead)
        /\ tokenReadAhead' = Kept(Event.text)
     \/ Event.act = "reduce" /\ Takes(Event) /\ PopToken
     \/ Event.act = "reduce" /\ ~Takes(Event) /\ UNCHANGED tokens

LEMMA BuildTakesNothing ==
  ASSUME NEW op, Build(op)
  PROVE  TokensMove
  <1>1. /\ phase = "parsing" /\ events # <<>> /\ events' = Tail(events) /\ UNCHANGED program
        /\ Event.act = "reduce" /\ UNCHANGED tokens /\ BuildingRule(op)
    BY DEF Build, Happens
  <1>2. ~Takes(Event)
    BY <1>1 DEF Takes, BuildingRule, Rule_Program, Rule_Class_Definitions,
                Rule_Class_definition,
                Rule_Class_body, Rule_Method_definitions, Rule_Method_definition,
                Rule_Parameter_List, Rule_Var_declarations, Rule_Statements,
                Rule_Block_statement, Rule_Print_statement, Rule_Logic_Exp, Rule_Expression,
                Rule_ArithMetic_Exp, Rule_Add_Exp, Rule_Mult_Exp, Rule_Unary_Exp
  <1>3. QED
    BY <1>1, <1>2 DEF TokensMove

LEMMA ReadMovesTokens ==
  ASSUME TokenRead, phase' = "parsing"
  PROVE  TokensMove
  <1>1. /\ phase = "parsing" /\ events # <<>> /\ events' = Tail(events) /\ UNCHANGED program
        /\ Event.act = "read"
    BY DEF TokenRead, Happens
  <1>2. ~(tokenReadAhead # NoName /\ Len(tokenStack) = MaxSizeOfStack)
    BY DEF TokenRead, Crash
  <1>3. /\ tokenStack' = IF tokenReadAhead = NoName THEN tokenStack
                         ELSE Append(tokenStack, tokenReadAhead)
        /\ tokenReadAhead' = Kept(Event.text)
    BY <1>2 DEF TokenRead, Kept
  <1>4. QED
    BY <1>1, <1>3 DEF TokensMove

(* The handlers that take no lexeme, and those that do. *)
LEMMA OthersTakeNothing ==
  ASSUME \/ Rule_No_Parameters \/ Rule_Basic_Types \/ Rule_Access_Modifier \/ Rule_Return_Type
         \/ Rule_Value_Parentheses
  PROVE  TokensMove
  <1>1. /\ phase = "parsing" /\ events # <<>> /\ events' = Tail(events) /\ UNCHANGED program
        /\ Event.act = "reduce" /\ UNCHANGED tokens
        /\ \/ Event.rule \in {"Parameter-List", "Basic-Types", "Access-Modifier", "Return-Type"}
           \/ Event.rule = "Value" /\ Event.alt = "("
    BY DEF Rule_No_Parameters, Rule_Basic_Types, Rule_Access_Modifier, Rule_Return_Type,
           Rule_Value_Parentheses, Reduction, Happens
  <1>2. ~Takes(Event)
    BY <1>1 DEF Takes
  <1>3. QED
    BY <1>1, <1>2 DEF TokensMove

LEMMA NamedTake ==
  ASSUME \/ Rule_Var_declaration \/ Rule_Parameter \/ Rule_Assignment \/ Rule_Read_statement
         \/ Rule_Value_Id \/ Rule_Value_Literal \/ Rule_Class_def_name \/ Rule_Method_def_name
  PROVE  TokensMove
  <1>1. /\ phase = "parsing" /\ events # <<>> /\ events' = Tail(events) /\ UNCHANGED program
        /\ Event.act = "reduce" /\ PopToken
        /\ \/ Event.rule \in {"Var-declaration", "Parameter", "Read-statement",
                              "Class-definition-name", "Method-def-name"}
           \/ Event.rule = "Statement" /\ Event.alt = "="
           \/ Event.rule = "Value" /\ Event.alt \in {"Id", "StringLiteral", "NumberLiteral"}
    <2>1. CASE Rule_Var_declaration \/ Rule_Parameter
      BY <2>1 DEF Rule_Var_declaration, Rule_Parameter, DeclareTop, Reduction, Happens
    <2>2. CASE Rule_Assignment \/ Rule_Read_statement
      BY <2>2 DEF Rule_Assignment, Rule_Read_statement, Reduction, Happens
    <2>3. CASE Rule_Value_Id \/ Rule_Value_Literal
      BY <2>3 DEF Rule_Value_Id, Rule_Value_Literal, Reduction, Happens
    <2>4. CASE Rule_Class_def_name \/ Rule_Method_def_name
      BY <2>4 DEF Rule_Class_def_name, Rule_Method_def_name, Reduction, Happens
    <2>5. QED
      BY <2>1, <2>2, <2>3, <2>4
  <1>2. Takes(Event)
    BY <1>1 DEF Takes
  <1>3. QED
    BY <1>1, <1>2 DEF TokensMove

LEMMA EveryTokenMove ==
  ASSUME Next, phase' = "parsing"
  PROVE  TokensMove \/ \E p \in DOMAIN Script : StartCompile(p)
  <1>1. ~ParserRejects /\ ~Accept /\ ~Decide
    BY DEF ParserRejects, Accept, Decide, Crash
  <1>2. QED
    BY <1>1, BuildTakesNothing, ReadMovesTokens, OthersTakeNothing, NamedTake DEF Next

------------------------------------------------------------------------------
(* What the engine reports when k of the moves have been made. *)
LEMMA NextReport ==
  ASSUME NEW moves \in Seq(Moves), NEW k \in -1 .. Len(moves),
         NEW rest \in Seq(Reports), rest # <<>>, Remaining(rest, moves, k)
  PROVE  /\ k + 1 \in 0 .. Len(moves)
         /\ Remaining(Tail(rest), moves, k + 1)
         /\ k = -1 => Head(rest) = NextToken(moves, 0)
         /\ k # -1 => /\ k \in 0 .. Len(moves) - 1
                      /\ Head(rest) = IF moves[k + 1].act = "shift" THEN NextToken(moves, k + 1)
                                      ELSE moves[k + 1]
  <1> DEFINE n == Len(moves)
             e == Events(moves)
             u == Tail(rest)
  <1>1. /\ n \in Nat /\ e[1] = NextToken(moves, 0)
        /\ \A i \in 1 .. n :
             e[i + 1] = IF moves[i].act = "shift" THEN NextToken(moves, i) ELSE moves[i]
    BY EventAt
  <1>2. /\ Len(rest) = n - k
        /\ \A i \in DOMAIN rest : rest[i] = e[k + 1 + i]
    BY DEF Remaining
  <1>3. /\ u \in Seq(Reports) /\ Len(rest) \in Nat \ {0} /\ DOMAIN rest = 1 .. Len(rest)
        /\ DOMAIN u = 1 .. Len(rest) - 1 /\ Head(rest) = rest[1]
        /\ \A i \in 1 .. Len(rest) - 1 : u[i] = rest[i + 1]
    BY FirstOfRest
  <1>4. Len(u) = Len(rest) - 1
    BY <1>3
  <1> HIDE DEF n, e, u
  <1>5. k + 1 \in 0 .. n /\ 1 \in DOMAIN rest
    BY <1>1, <1>2, <1>3
  <1>6. Head(rest) = e[k + 2]
    BY SMTT(20), <1>2, <1>3, <1>5
  <1>7. ASSUME NEW i \in DOMAIN u
        PROVE  u[i] = e[(k + 1) + 1 + i]
    <2>1. i \in Nat /\ i + 1 \in DOMAIN rest /\ u[i] = rest[i + 1]
      BY <1>3
    <2>2. k + 1 + (i + 1) = (k + 1) + 1 + i
      BY <2>1
    <2>3. QED
      BY <1>2, <2>1, <2>2
  <1>8. Len(u) = n - (k + 1)
    BY <1>1, <1>2, <1>4
  <1>9. k # -1 => /\ k \in 0 .. n - 1
                 /\ e[(k + 1) + 1] = IF moves[k + 1].act = "shift" THEN NextToken(moves, k + 1)
                                     ELSE moves[k + 1]
    BY <1>1, <1>5
  <1>10. (k + 1) + 1 = k + 2 /\ (k = -1 => k + 2 = 1)
    OBVIOUS
  <1>11. QED
    BY <1>1, <1>5, <1>6, <1>7, <1>8, <1>9, <1>10 DEF Remaining, n, e, u

(* A reduction that takes a lexeme finds its own on top of the stack. *)
LEMMA TopIsTaken ==
  ASSUME NEW moves, Derivation(moves), NEW k \in -1 .. Len(moves), AlignedAt(moves, k),
         events \in Seq(Reports), events # <<>>, ReportOK(Event),
         Event.act = "reduce", tokenStack \in Seq(Lexemes)
  PROVE  /\ k \in 0 .. Len(moves) - 1
         /\ Event = moves[k + 1]
         /\ Event.text # None =>
              /\ tokenStack # <<>> /\ TopToken = Event.text
              /\ OnStack(Front(tokenStack), moves, k + 1)
  <1>1. moves \in Seq(Moves)
    BY LexemesNest
  <1>2. /\ k = -1 => Event = NextToken(moves, 0)
        /\ k # -1 => /\ k \in 0 .. Len(moves) - 1
                     /\ Event = IF moves[k + 1].act = "shift" THEN NextToken(moves, k + 1)
                                ELSE moves[k + 1]
    BY <1>1, NextReport DEF AlignedAt, Event
  <1>3. \A i : NextToken(moves, i).act = "read"
    BY DEF NextToken
  <1>4. k # -1 /\ moves[k + 1].act # "shift"
    BY <1>2, <1>3
  <1>5. k \in 0 .. Len(moves) - 1 /\ Event = moves[k + 1]
    BY <1>2, <1>4
  <1>6. ASSUME Event.text # None
        PROVE  /\ tokenStack # <<>> /\ TopToken = Event.text
               /\ OnStack(Front(tokenStack), moves, k + 1)
    <2>1. Takes(moves[k + 1])
      BY <1>5, <1>6 DEF ReportOK
    <2>2. OnStack(tokenStack, moves, k)
      BY DEF AlignedAt
    <2>3. QED
      BY <1>5, <2>1, <2>2, OnStackPop DEF TopToken
  <1>7. QED
    BY <1>5, <1>6

(* A token is read: the one read before it was that of the shift made now. *)
LEMMA ReadAligns ==
  ASSUME NEW moves, Derivation(moves), NEW k \in -1 .. Len(moves), AlignedAt(moves, k),
         events \in Seq(Reports), tokenStack \in Seq(Lexemes), TokensMove,
         Event.act = "read", Event.text \in ParserTexts => Event.text = Keyword
  PROVE  /\ k + 1 \in -1 .. Len(moves)
         /\ Ahead(tokenReadAhead', moves, k + 1)
         /\ OnStack(tokenStack', moves, k + 1)
  <1>1. /\ moves \in Seq(Moves) /\ Len(moves) \in Nat /\ DOMAIN moves = 1 .. Len(moves)
        /\ \A i \in DOMAIN moves : moves[i].act = "shift" => moves[i].text # None
    BY LexemesNest DEF Derivation
  <1>2. /\ k + 1 \in 0 .. Len(moves)
        /\ k = -1 => Event = NextToken(moves, 0)
        /\ k # -1 => /\ k \in 0 .. Len(moves) - 1
                     /\ Event = IF moves[k + 1].act = "shift" THEN NextToken(moves, k + 1)
                                ELSE moves[k + 1]
    BY <1>1, NextReport DEF AlignedAt, TokensMove, Event
  <1>3. /\ tokenStack' = IF tokenReadAhead = NoName THEN tokenStack
                         ELSE Append(tokenStack, tokenReadAhead)
        /\ tokenReadAhead' = Kept(Event.text)
    BY DEF TokensMove
  <1>4. OnStack(tokenStack, moves, k) /\ Ahead(tokenReadAhead, moves, k)
    BY DEF AlignedAt
  <1>5. CASE k = -1
    <2>1. tokenReadAhead = NoName
      BY <1>4, <1>5 DEF Ahead
    <2>2. OnStack(tokenStack', moves, k + 1)
      <3>1. OnStack(tokenStack, moves, 0) /\ k + 1 = 0
        BY <1>4, <1>5, OnStackFirst
      <3>2. tokenStack' = tokenStack
        BY <1>3, <2>1
      <3>3. QED
        BY <3>1, <3>2
    <2>3. Ahead(tokenReadAhead', moves, k + 1)
      BY <1>2, <1>3, <1>5 DEF Ahead
    <2>4. QED
      BY <1>2, <2>2, <2>3
  <1>6. CASE k # -1
    <2>1. k \in 0 .. Len(moves) - 1 /\ k + 1 \in DOMAIN moves /\ moves[k + 1] \in Moves
      BY <1>1, <1>2, <1>6
    <2>2. moves[k + 1].act = "shift" /\ Event = NextToken(moves, k + 1)
      BY <1>2, <1>6, <2>1 DEF Moves
    <2>3. NextToken(moves, k).text = moves[k + 1].text
      BY <1>1, <2>1, <2>2, NextShift
    <2>4. moves[k + 1].text \in Lexemes
      BY <1>1, <2>1, <2>2 DEF Moves
    <2>5. /\ tokenReadAhead = Kept(moves[k + 1].text)
          /\ moves[k + 1].text \in ParserTexts => moves[k + 1].text = Keyword
      BY <1>4, <1>6, <2>3 DEF Ahead
    <2>6. Ahead(tokenReadAhead', moves, k + 1)
      BY <1>3, <2>1, <2>2 DEF Ahead
    <2>7. CASE moves[k + 1].text \in ParserTexts
      <3>1. ~Takes(moves[k + 1]) /\ ~Keeps(moves[k + 1])
        BY <2>2, <2>5, <2>7 DEF Takes, Keeps
      <3>2. tokenStack' = tokenStack
        BY <1>3, <2>5, <2>7 DEF Kept
      <3>3. OnStack(tokenStack, moves, k + 1)
        BY <1>4, <2>1, <3>1, OnStackSame
      <3>4. QED
        BY <1>2, <2>6, <3>2, <3>3
    <2>8. CASE moves[k + 1].text \notin ParserTexts
      <3>1. Keeps(moves[k + 1])
        BY <2>2, <2>8, FrontEndAssumption DEF Keeps
      <3>2. tokenStack' = Append(tokenStack, moves[k + 1].text)
        BY <1>3, <2>4, <2>5, <2>8 DEF Kept
      <3>3. OnStack(Append(tokenStack, moves[k + 1].text), moves, k + 1)
        BY <1>4, <2>1, <2>4, <3>1, OnStackPush
      <3>4. QED
        BY <1>2, <2>6, <3>2, <3>3
    <2>9. QED
      BY <2>7, <2>8
  <1>7. QED
    BY <1>5, <1>6

LEMMA ReductionAligns ==
  ASSUME NEW moves, Derivation(moves), NEW k \in -1 .. Len(moves), AlignedAt(moves, k),
         events \in Seq(Reports), ReportOK(Event), tokenStack \in Seq(Lexemes), TokensMove,
         Event.act = "reduce"
  PROVE  /\ k + 1 \in -1 .. Len(moves)
         /\ Ahead(tokenReadAhead', moves, k + 1)
         /\ OnStack(tokenStack', moves, k + 1)
  <1>1. moves \in Seq(Moves) /\ Len(moves) \in Nat
    BY LexemesNest
  <1>2. /\ k \in 0 .. Len(moves) - 1
        /\ Event = moves[k + 1]
        /\ Event.text # None => tokenStack # <<>> /\ OnStack(Front(tokenStack), moves, k + 1)
    BY TopIsTaken DEF TokensMove
  <1>3. moves[k + 1].act # "shift"
    BY <1>2
  <1>4. Ahead(tokenReadAhead, moves, k + 1) /\ tokenReadAhead' = tokenReadAhead
    <2>1. NextToken(moves, k + 1) = NextToken(moves, k)
      BY <1>1, <1>2, <1>3, NextSame
    <2>2. k # -1 /\ k + 1 # -1
      BY <1>2
    <2>3. tokenReadAhead' = tokenReadAhead
      BY DEF TokensMove, PopToken, tokens
    <2>4. QED
      BY <2>1, <2>2, <2>3 DEF AlignedAt, Ahead
  <1>5. OnStack(tokenStack', moves, k + 1)
    <2>1. CASE Takes(Event)
      <3>1. Event.text # None
        BY <2>1 DEF ReportOK
      <3>2. PopToken
        BY <2>1 DEF TokensMove
      <3>3. tokenStack' = Front(tokenStack)
        BY <1>2, <3>1, <3>2 DEF PopToken
      <3>4. QED
        BY <1>2, <3>1, <3>3
    <2>2. CASE ~Takes(Event)
      <3>1. ~Takes(moves[k + 1]) /\ ~Keeps(moves[k + 1])
        BY <1>2, <1>3, <2>2 DEF Keeps
      <3>2. tokenStack' = tokenStack
        BY <2>2 DEF TokensMove, tokens
      <3>3. OnStack(tokenStack, moves, k)
        BY DEF AlignedAt
      <3>4. QED
        BY <1>2, <3>1, <3>2, <3>3, OnStackSame
    <2>3. QED
      BY <2>1, <2>2
  <1>6. QED
    BY <1>1, <1>2, <1>4, <1>5

LEMMA TokensPendingStep ==
  ASSUME FrontEndInv, TokensPending, Next
  PROVE  TokensPending'
  <1> SUFFICES ASSUME phase' = "parsing", Plain'
               PROVE  Aligned(events', tokenReadAhead', tokenStack', Programs[program'].items)
    BY DEF TokensPending
  <1>1. CASE TokensMove
    <2> DEFINE moves == Programs[program].items
    <2>1. /\ phase = "parsing" /\ events # <<>> /\ events' = Tail(events) /\ program' = program
          /\ Event.act \in {"read", "reduce"}
      BY <1>1 DEF TokensMove
    <2>2. Plain
      BY <2>1 DEF Plain
    <2>3. /\ program \in DOMAIN Programs /\ events \in Seq(Reports) /\ ReportOK(Event)
          /\ tokenStack \in Seq(Lexemes)
      BY <2>1, HandlerRelies DEF FrontEndInv, TypeOK, EventsOK, Script
    <2>4. Derivation(moves) /\ Script[program] = Events(moves)
      BY <2>3, FrontEndAssumption DEF Script
    <2>5. PICK k \in -1 .. Len(moves) : AlignedAt(moves, k)
      BY <2>1, <2>2 DEF TokensPending, Aligned, AlignedAt
    <2> HIDE DEF moves
    <2>6. moves \in Seq(Moves) /\ Len(moves) \in Nat
      BY <2>4, LexemesNest
    <2>7. Remaining(events', moves, k + 1)
      BY <2>1, <2>3, <2>5, <2>6, NextReport DEF AlignedAt
    <2>8. Event.act = "read" => (Event.text \in ParserTexts => Event.text = Keyword)
      <3>1. Event \in Range(Script[program])
        <4>1. /\ DOMAIN Events(moves) = 1 .. Len(moves) + 1
              /\ 1 \in DOMAIN events /\ Event = events[1]
          BY <2>1, <2>3, <2>6, EventAt, FirstOfRest DEF Event
        <4>2. Len(events) = Len(moves) - k /\ Event = Events(moves)[k + 1 + 1]
          BY <2>5, <4>1 DEF AlignedAt, Remaining
        <4>3. k + 1 + 1 \in 1 .. Len(moves) + 1
          BY <2>1, <2>3, <2>5, <2>6, NextReport DEF AlignedAt
        <4>4. QED
          BY <2>4, <4>1, <4>2, <4>3 DEF Range
      <3>2. QED
        BY <2>2, <3>1 DEF Plain
    <2>9. /\ k + 1 \in -1 .. Len(moves)
          /\ Ahead(tokenReadAhead', moves, k + 1)
          /\ OnStack(tokenStack', moves, k + 1)
      BY <1>1, <2>1, <2>3, <2>4, <2>5, <2>8, ReadAligns, ReductionAligns
    <2>10. Aligned(events', tokenReadAhead', tokenStack', moves)
      BY <2>7, <2>9 DEF Aligned
    <2>11. Programs[program'].items = moves
      BY <2>1 DEF moves
    <2>12. QED
      BY <2>10, <2>11
  <1>2. ASSUME NEW p \in DOMAIN Script, StartCompile(p)
        PROVE  Aligned(events', tokenReadAhead', tokenStack', Programs[program'].items)
    <2> DEFINE moves == Programs[p].items
    <2>1. /\ program' = p /\ events' = Events(moves) /\ tokenStack' = <<>>
          /\ tokenReadAhead' = NoName
      BY <1>2 DEF StartCompile, Script
    <2>2. Derivation(moves)
      BY FrontEndAssumption DEF Script
    <2> HIDE DEF moves
    <2>3. /\ moves \in Seq(Moves) /\ Len(moves) \in Nat
          /\ Len(Events(moves)) = Len(moves) + 1
          /\ DOMAIN Events(moves) = 1 .. Len(moves) + 1
      BY <2>2, LexemesNest, EventAt
    <2>4. Remaining(Events(moves), moves, -1)
      <3>1. Len(Events(moves)) = Len(moves) - (-1)
        BY <2>3
      <3>2. \A i \in DOMAIN Events(moves) : Events(moves)[i] = Events(moves)[(-1) + 1 + i]
        BY <2>3
      <3>3. QED
        BY <3>1, <3>2 DEF Remaining
    <2>5. Ahead(NoName, moves, -1) /\ OnStack(<<>>, moves, -1)
      BY OnStackFirst DEF Ahead
    <2>6. Aligned(Events(moves), NoName, <<>>, moves)
      <3>1. -1 \in -1 .. Len(moves)
        BY <2>3
      <3>2. QED
        BY <2>4, <2>5, <3>1 DEF Aligned
    <2>7. Programs[program'].items = moves
      BY <2>1 DEF moves
    <2>8. QED
      BY <2>1, <2>6, <2>7
  <1>3. QED
    BY <1>1, <1>2, EveryTokenMove

(* Whenever a reduction takes a lexeme off the stack of tokens, it is the  *)
(* lexeme that belongs to that reduction, although the engine has read one *)
(* token ahead of it (Compile, gpMsgTokenRead): for every program in which *)
(* no identifier is spelled like a terminal of the grammar.                *)
THEOREM FrontEndTokensAligned == Spec => []TokenAligned
  <1>1. Init => TokensPending
    BY DEF Init, TokensPending
  <1>2. FrontEndInv /\ TokensPending /\ [Next]_vars => TokensPending'
    <2>1. FrontEndInv /\ TokensPending /\ Next => TokensPending'
      BY TokensPendingStep
    <2>2. TokensPending /\ UNCHANGED vars => TokensPending'
      BY DEF TokensPending, Plain, vars, input, tokens, ending
    <2>3. QED
      BY <2>1, <2>2
  <1>3. FrontEndInv /\ TokensPending => TokenAligned
    <2> SUFFICES ASSUME FrontEndInv, TokensPending, phase = "parsing", events # <<>>,
                        Event.act = "reduce", Event.text # None, Plain
                 PROVE  TopToken = Event.text
      BY DEF TokenAligned
    <2> DEFINE moves == Programs[program].items
    <2>1. /\ program \in DOMAIN Programs /\ events \in Seq(Reports) /\ ReportOK(Event)
          /\ tokenStack \in Seq(Lexemes)
      BY HandlerRelies DEF FrontEndInv, TypeOK, EventsOK, Script
    <2>2. Derivation(moves)
      BY <2>1, FrontEndAssumption
    <2>3. PICK k \in -1 .. Len(moves) : AlignedAt(moves, k)
      BY DEF TokensPending, Aligned, AlignedAt
    <2> HIDE DEF moves
    <2>4. QED
      BY <2>1, <2>2, <2>3, TopIsTaken
  <1>4. QED
    BY <1>1, <1>2, <1>3, FrontEndInvariant, PTL DEF Spec
------------------------------------------------------------------------------
(* The tree that is handed to the code generator.                          *)
(* What a handler may do to the tree.                                      *)
TreeMoved ==
  \/ ast' = ast \/ ast' = EmptyTree \/ ast' = addNullOperatorNode(ast)
  \/ \E kind, text, sym : ast' = addleaf(ast, kind, text, sym)
  \/ \E t, sym, op : ast' = AddLeafAndOperator(ast, t, sym, op).ast
  \/ \E t, op : op \notin Unchecked /\ ast' = addOperatorNode(ast, t, op).ast

LEMMA TreeMovedWhole ==
  ASSUME TreeWhole(ast), TreeMoved
  PROVE  TreeWhole(ast')
  <1>1. CASE ast' = ast \/ ast' = EmptyTree \/ ast' = addNullOperatorNode(ast)
    BY <1>1, EmptyTreeWhole, NullOperatorWhole
  <1>2. CASE \E kind, text, sym : ast' = addleaf(ast, kind, text, sym)
    <2>1. PICK kind, text, sym : ast' = addleaf(ast, kind, text, sym)
      BY <1>2
    <2> DEFINE n == LeafNode(kind, text, sym)
    <2>2. n.kids = <<>> /\ addleaf(ast, kind, text, sym) = Push(ast, n)
      BY DEF LeafNode, addleaf
    <2> HIDE DEF n
    <2>3. QED
      BY <2>1, <2>2, AddLeafWhole
  <1>3. CASE \E t, sym, op : ast' = AddLeafAndOperator(ast, t, sym, op).ast
    <2>1. PICK t, sym, op : ast' = AddLeafAndOperator(ast, t, sym, op).ast
      BY <1>3
    <2>2. QED
      BY <2>1, LeafAndOperatorWhole
  <1>4. CASE \E t, op : op \notin Unchecked /\ ast' = addOperatorNode(ast, t, op).ast
    <2>1. PICK t, op : op \notin Unchecked /\ ast' = addOperatorNode(ast, t, op).ast
      BY <1>4
    <2>2. QED
      BY <2>1, AddOperatorNodeWhole
  <1>5. QED
    BY <1>1, <1>2, <1>3, <1>4 DEF TreeMoved

LEMMA TreeMoves == [Next]_vars => TreeMoved
  <1>1. ASSUME NEW op \in Operators, Build(op)
        PROVE  TreeMoved
    <2>1. op \notin Unchecked
      BY DEF Operators, Unchecked, ExpressiveOperators, Additive, Comparisons, Relations,
             Equalities, Connectives
    <2>2. ast' = addOperatorNode(ast, symtab, op).ast
      BY <1>1 DEF Build, Become
    <2>3. QED
      BY <2>1, <2>2 DEF TreeMoved
  <1>2. ASSUME NEW p \in DOMAIN Script, StartCompile(p)
        PROVE  TreeMoved
    BY <1>2 DEF StartCompile, TreeMoved
  <1>3. \/ TokenRead \/ Rule_Basic_Types \/ Rule_Value_Parentheses
        \/ ParserRejects \/ Accept \/ Decide \/ UNCHANGED vars
        => TreeMoved
    <2>1. TokenRead => ast' = ast
      BY DEF TokenRead
    <2>2. Rule_Basic_Types => ast' = ast
      BY DEF Rule_Basic_Types
    <2>3. Rule_Value_Parentheses => ast' = ast
      BY DEF Rule_Value_Parentheses
    <2>4. ParserRejects => ast' = ast
      BY DEF ParserRejects
    <2>5. Accept => ast' = ast
      BY DEF Accept
    <2>6. Decide => ast' = ast
      BY DEF Decide
    <2>7. UNCHANGED vars => ast' = ast
      BY DEF vars
    <2>8. QED
      BY <2>1, <2>2, <2>3, <2>4, <2>5, <2>6, <2>7 DEF TreeMoved
  <1>4. Rule_No_Parameters => TreeMoved
    BY DEF Rule_No_Parameters, TreeMoved
  <1>5. /\ Rule_Access_Modifier => TreeMoved
        /\ Rule_Return_Type => TreeMoved
        /\ Rule_Value_Literal => TreeMoved
    <2>1. Rule_Access_Modifier => ast' = addleaf(ast, "StringLiteral", Keyword, 0)
      BY DEF Rule_Access_Modifier
    <2>2. Rule_Return_Type => ast' = addleaf(ast, "StringLiteral", Keyword, 0)
      BY DEF Rule_Return_Type
    <2>3. Rule_Value_Literal => ast' = addleaf(ast, Event.alt, TopToken, 0)
      BY DEF Rule_Value_Literal
    <2>4. QED
      BY <2>1, <2>2, <2>3 DEF TreeMoved
  <1>6. Rule_Var_declaration => TreeMoved
    <2>1. Rule_Var_declaration =>
            \/ ast' = AddLeafAndOperator(ast, symtab, IndexAdded, "var-declaration").ast
            \/ ast' = ast
      BY DEF Rule_Var_declaration
    <2>2. QED
      BY <2>1 DEF TreeMoved
  <1>7. Rule_Parameter => TreeMoved
    <2>1. Rule_Parameter =>
            ast' = addleaf(ast, "FormalParameter", None, IndexAdded) \/ ast' = ast
      BY DEF Rule_Parameter
    <2>2. QED
      BY <2>1 DEF TreeMoved
  <1>8. /\ Rule_Assignment => TreeMoved
        /\ Rule_Read_statement => TreeMoved
    <2>1. Rule_Assignment => ast' = ast \/ ast' = OverIdentifier(":=").ast
      BY DEF Rule_Assignment, Unreadable, Become
    <2>2. Rule_Read_statement => ast' = ast \/ ast' = OverIdentifier("console.readline").ast
      BY DEF Rule_Read_statement, Unreadable, Become
    <2>3. QED
      BY <2>1, <2>2 DEF TreeMoved, OverIdentifier
  <1>9. Rule_Value_Id => TreeMoved
    <2>1. Rule_Value_Id =>
            \/ ast' = ast \/ ast' = WithIdentifier
            \/ ast' = addleaf(ast, "BooleanLiteral", TruthText(TopToken), 0)
      BY DEF Rule_Value_Id, Unreadable
    <2>2. QED
      BY <2>1 DEF TreeMoved, WithIdentifier
  <1>10. Rule_Class_def_name => TreeMoved
    <2>1. Rule_Class_def_name =>
            \/ ast' = ast
            \/ \E sym : ast' = addleaf(ast, "Identifier", None, sym)
      BY DEF Rule_Class_def_name
    <2>2. QED
      BY <2>1 DEF TreeMoved
  <1>11. Rule_Method_def_name => TreeMoved
    <2>1. Rule_Method_def_name =>
            \/ ast' = ast
            \/ \E sym : ast' = addleaf(ast, "Identifier", None, sym)
      BY DEF Rule_Method_def_name
    <2>2. QED
      BY <2>1 DEF TreeMoved
  <1> HIDE DEF TreeMoved
  <1>12. QED
    BY <1>1, <1>2, <1>3, <1>4, <1>5, <1>6, <1>7, <1>8, <1>9, <1>10, <1>11 DEF Next

(* Whatever is translated is a whole tree: each of its operators has all   *)
(* the operands it takes, whether the program was parsed to its end or     *)
(* not (errorBuildingTreeFlag of AstTree).                                 *)
TranslatedWhole ==
  outcome = "translated" => ast.stack # <<>> /\ Planted(StackNodes(ast))

LEMMA DecideWhole ==
  ASSUME TreeWhole(ast), Decide
  PROVE  TranslatedWhole'
  <1>1. ast' = ast
    BY DEF Decide
  <1>2. outcome' = "translated" => parsingOK /\ ~RootThrows(ast) /\ ~errorBuildingTree(ast)
    BY DEF Decide, Crash
  <1>3. ~errorBuildingTree(ast) => ~ast.failed
    BY DEF errorBuildingTree
  <1>4. ~ast.failed /\ ~RootThrows(ast) => ast.stack # <<>>
    BY DEF RootThrows
  <1>5. outcome' = "translated" => ast'.stack # <<>> /\ Planted(StackNodes(ast'))
    BY <1>1, <1>2, <1>3, <1>4 DEF TreeWhole
  <1>6. QED
    BY <1>5 DEF TranslatedWhole

LEMMA OnlyDecideTranslates ==
  ASSUME FrontEndInv, Next, ~Decide
  PROVE  outcome' # "translated"
  <1>1. CASE \E p \in DOMAIN Script : StartCompile(p)
    BY <1>1 DEF StartCompile
  <1>2. CASE Handled
    <2>1. outcome = "none"
      BY <1>2 DEF Handled, FrontEndInv, TypeOK
    <2>2. QED
      BY <1>2, <2>1 DEF Handled, EndHandled
  <1>3. CASE ParserRejects
    BY <1>3 DEF ParserRejects
  <1>4. CASE Accept
    <2>1. outcome = "none"
      BY <1>4 DEF Accept, FrontEndInv, TypeOK
    <2>2. outcome' = "crashed" \/ outcome' = outcome
      BY <1>4 DEF Accept, Crash
    <2>3. QED
      BY <2>1, <2>2
  <1>5. CASE Ended /\ ~ParserRejects /\ ~Accept
    <2>1. phase # "idle" /\ UNCHANGED input
      BY <1>5 DEF Ended
    <2>2. ~(\E p \in DOMAIN Script : StartCompile(p))
      BY <2>1 DEF StartCompile
    <2>3. Handled
      <3>1. \A op \in Operators : Build(op) => Handled
        BY BuildHandled
      <3>2. QED
        BY <1>5, <2>2, <3>1, TokenReadHandled, NoParametersHandled, BasicTypesHandled,
           AccessModifierHandled, ReturnTypeHandled, VarDeclarationHandled, ParameterHandled,
           AssignmentHandled, ReadStatementHandled, ValueIdHandled, ValueLiteralHandled,
           ValueParenthesesHandled, ClassNameHandled, MethodNameHandled DEF Next
    <2>4. QED
      BY <1>2, <2>3
  <1>6. QED
    BY <1>1, <1>2, <1>3, <1>4, <1>5, EveryHandler

WholeTree == TreeWhole(ast) /\ TranslatedWhole

LEMMA WholeTrees == Spec => []WholeTree
  <1>1. Init => WholeTree
    BY EmptyTreeWhole DEF Init, WholeTree, TranslatedWhole
  <1>2. FrontEndInv /\ WholeTree /\ [Next]_vars => WholeTree'
    <2> SUFFICES ASSUME FrontEndInv, TreeWhole(ast), TranslatedWhole, [Next]_vars
                 PROVE  TreeWhole(ast') /\ TranslatedWhole'
      BY DEF WholeTree
    <2>1. TreeWhole(ast')
      BY TreeMoves, TreeMovedWhole
    <2>2. CASE Decide
      BY <2>1, <2>2, DecideWhole
    <2>3. CASE Next /\ ~Decide
      BY <2>1, <2>3, OnlyDecideTranslates DEF TranslatedWhole
    <2>4. CASE UNCHANGED vars
      BY <2>1, <2>4 DEF TranslatedWhole, vars, ending
    <2>5. QED
      BY <2>2, <2>3, <2>4
  <1>3. QED
    BY <1>1, <1>2, FrontEndInvariant, PTL DEF Spec

(* Compile hands to the code generator only a tree whose every operator    *)
(* has the number of operands its rule gives it, down to the leaves, of    *)
(* finite height: what the generator reaches by index is there.            *)
THEOREM TranslatedTreeWhole == Spec => []TranslatedWhole
  <1>1. WholeTree => TranslatedWhole
    BY DEF WholeTree
  <1>2. QED
    BY <1>1, WholeTrees, PTL
==============================================================================
