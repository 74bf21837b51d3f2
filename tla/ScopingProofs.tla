---------------------------- MODULE ScopingProofs ----------------------------
(***************************************************************************)
(* Scoping is correct for every set of lexemes, every capacity and every   *)
(* number of temporaries.                                                  *)
(***************************************************************************)
EXTENDS Scoping, SymbolTableProofs

USE SymbolTableAssumption, ScopingAssumption

------------------------------------------------------------------------------
(* The name s has is new in the scope s is in. *)
Fresh(t, s) ==
  \A i \in DOMAIN t.symbols :
    ~ (/\ t.symbols[i].symbol = s.symbol
       /\ InScope(t.symbols[i], s.class_block, s.method_block))

(* Temporaries carry numbers already handed out, everything else a lexeme. *)
Numbered(s, last) ==
  IF s.kind = "FreeStore"
    THEN \E k \in 0 .. last : s.symbol = FreeStoreName(k)
    ELSE s.symbol \in Lexemes

(* The ways a step may leave the active scope when it adds no symbol ...   *)
ScopeKept ==
  \/ /\ symtab'.activeClass = NoName
     /\ symtab'.activeMethod = NoName
  \/ /\ symtab'.activeClass = symtab.activeClass
     /\ symtab'.activeMethod \in {symtab.activeMethod, NoName}

(* ... and when it adds the symbol s. *)
ScopeAfter(s) ==
  \/ /\ InScope(s, symtab.activeClass, symtab.activeMethod)
     /\ symtab'.activeClass = symtab.activeClass
     /\ symtab'.activeMethod = symtab.activeMethod
  \/ /\ s.kind = "ClassName" /\ InScope(s, NoName, NoName)
     /\ symtab'.activeClass \in {s.symbol, NoName}
     /\ symtab'.activeMethod = NoName
  \/ /\ s.kind = "MethodName" /\ InScope(s, symtab.activeClass, NoName)
     /\ symtab'.activeClass = symtab.activeClass
     /\ symtab'.activeMethod \in {s.symbol, NoName}

(* The number of a temporary that is added is the next one. *)
NumberAfter(s) ==
  IF s.kind = "FreeStore"
    THEN /\ symtab'.temporaryStoreIndex = symtab.temporaryStoreIndex + 1
         /\ s.symbol = FreeStoreName(symtab'.temporaryStoreIndex)
    ELSE /\ symtab'.temporaryStoreIndex = symtab.temporaryStoreIndex
         /\ s.symbol \in Lexemes

(* Every step restarts the table, leaves the array alone, or appends one   *)
(* fresh symbol.                                                           *)
Shape ==
  \/ symtab' = EmptyTable
  \/ /\ symtab'.symbols = symtab.symbols
     /\ symtab'.temporaryStoreIndex >= symtab.temporaryStoreIndex
     /\ ScopeKept
  \/ \E s \in Symbol :
       /\ symtab'.symbols = Append(symtab.symbols, s)
       /\ Fresh(symtab, s)
       /\ NumberAfter(s)
       /\ ScopeAfter(s)

(* One request to addSymbol, seen from the table t it is made on, has the  *)
(* shape above.                                                            *)
LEMMA AddedIsFresh ==
  ASSUME NEW t, WellFormed(t), NEW name \in AnyName \cup FreeStoreNames,
         NEW type \in DataTypes, NEW kind \in SymbolKinds, Added(t, name)
  PROVE  LET s == NewSymbol(t, name, type, kind)
         IN  /\ s \in Symbol
             /\ Fresh(t, s)
             /\ s.symbol = name /\ s.kind = kind
             /\ InScope(s, t.activeClass, t.activeMethod)
             /\ name # NoName
  <1>1. /\ name # NoName
        /\ ~ExistInTable(t, name)
    BY DEF Added, Refused
  <1>2. Occurrences(t, name) = {}
    BY <1>1 DEF ExistInTable
  <1>3. QED
    BY <1>1, <1>2, AddSymbolEffect
    DEF NewSymbol, Fresh, Occurrences, InScope

------------------------------------------------------------------------------
(* Rule_Class_def_name keeps the table well formed and has the shape. *)
LEMMA DefineClassShape ==
  ASSUME NEW name \in AnyName, WellFormed(symtab), DefineClass(name)
  PROVE  WellFormed(symtab') /\ Shape
  <1> DEFINE top == SetActiveMethod(SetActiveClass(symtab, NoName), NoName)
             t   == AddSymbol(top, name, "void", "ClassName")
             s   == NewSymbol(top, name, "void", "ClassName")
  <1>1. /\ WellFormed(top) /\ top.symbols = symtab.symbols
        /\ top.activeClass = NoName /\ top.activeMethod = NoName
        /\ top.temporaryStoreIndex = symtab.temporaryStoreIndex
    <2> DEFINE c == SetActiveClass(symtab, NoName)
    <2>1. /\ WellFormed(c) /\ c.symbols = symtab.symbols
          /\ c.activeClass = NoName
          /\ c.temporaryStoreIndex = symtab.temporaryStoreIndex
      BY ScopeSettersWellFormed, NoNameIsAName
    <2> HIDE DEF c
    <2>2. top = SetActiveMethod(c, NoName)
      BY DEF c
    <2> HIDE DEF top
    <2>3. /\ WellFormed(SetActiveMethod(c, NoName))
          /\ SetActiveMethod(c, NoName).symbols = c.symbols
          /\ SetActiveMethod(c, NoName).activeClass = c.activeClass
          /\ SetActiveMethod(c, NoName).activeMethod = NoName
          /\ SetActiveMethod(c, NoName).temporaryStoreIndex
               = c.temporaryStoreIndex
      BY <2>1, ScopeSettersWellFormed, NoNameIsAName
    <2>4. QED
      BY <2>1, <2>2, <2>3
  <1>2. "void" \in DataTypes /\ "ClassName" \in SymbolKinds
    BY DEF DataTypes, SymbolKinds
  <1>3. symtab' = t \/ (Added(top, name) /\ symtab' = SetActiveClass(t, name))
    BY DEF DefineClass
  <1> HIDE DEF top
  <1>4. /\ WellFormed(t)
        /\ t.activeClass = NoName /\ t.activeMethod = NoName
        /\ t.temporaryStoreIndex = symtab.temporaryStoreIndex
        /\ Added(top, name) => s \in Symbol /\ t.symbols = Append(symtab.symbols, s)
        /\ ~Added(top, name) => t.symbols = symtab.symbols
    BY <1>1, <1>2, AddSymbolWellFormed, AddSymbolEffect, NoNameIsAName
  <1>5. Added(top, name) =>
          /\ Fresh(top, s) /\ s.symbol = name /\ s.kind = "ClassName"
          /\ InScope(s, NoName, NoName) /\ name # NoName
    BY <1>1, <1>2, AddedIsFresh, NoNameIsAName
  <1> HIDE DEF t, s
  <1>6. CASE Added(top, name)
    <2>1. /\ symtab'.symbols = Append(symtab.symbols, s)
          /\ symtab'.activeClass \in {name, NoName} /\ symtab'.activeMethod = NoName
          /\ symtab'.temporaryStoreIndex = symtab.temporaryStoreIndex
          /\ WellFormed(symtab')
      BY <1>3, <1>4, <1>6, ScopeSettersWellFormed
    <2>2. Fresh(symtab, s)
      BY <1>1, <1>5, <1>6 DEF Fresh
    <2>3. NumberAfter(s) /\ ScopeAfter(s)
      BY <1>5, <1>6, <2>1 DEF NumberAfter, ScopeAfter, AnyName
    <2>4. QED
      BY <1>4, <1>6, <2>1, <2>2, <2>3 DEF Shape
  <1>7. CASE ~Added(top, name)
    <2>1. symtab.temporaryStoreIndex \in Int
      BY DEF WellFormed, Table
    <2>2. QED
      BY <1>3, <1>4, <1>7, <2>1 DEF Shape, ScopeKept
  <1>8. QED
    BY <1>6, <1>7

(* So does Rule_Method_def_name. *)
LEMMA DefineMethodShape ==
  ASSUME NEW name \in AnyName, WellFormed(symtab), DefineMethod(name)
  PROVE  WellFormed(symtab') /\ Shape
  <1> DEFINE inClass == SetActiveMethod(symtab, NoName)
             t       == AddSymbol(inClass, name, "void", "MethodName")
             s       == NewSymbol(inClass, name, "void", "MethodName")
  <1>1. /\ WellFormed(inClass) /\ inClass.symbols = symtab.symbols
        /\ inClass.activeClass = symtab.activeClass
        /\ inClass.activeMethod = NoName
        /\ inClass.temporaryStoreIndex = symtab.temporaryStoreIndex
    BY ScopeSettersWellFormed, NoNameIsAName
  <1>2. "void" \in DataTypes /\ "MethodName" \in SymbolKinds
    BY DEF DataTypes, SymbolKinds
  <1>3. symtab' = t \/ (Added(inClass, name) /\ symtab' = SetActiveMethod(t, name))
    BY DEF DefineMethod
  <1> HIDE DEF inClass
  <1>4. /\ WellFormed(t)
        /\ t.activeClass = symtab.activeClass /\ t.activeMethod = NoName
        /\ t.temporaryStoreIndex = symtab.temporaryStoreIndex
        /\ Added(inClass, name) =>
             s \in Symbol /\ t.symbols = Append(symtab.symbols, s)
        /\ ~Added(inClass, name) => t.symbols = symtab.symbols
    BY <1>1, <1>2, AddSymbolWellFormed, AddSymbolEffect, NoNameIsAName
  <1>5. Added(inClass, name) =>
          /\ Fresh(inClass, s) /\ s.symbol = name /\ s.kind = "MethodName"
          /\ InScope(s, symtab.activeClass, NoName) /\ name # NoName
    BY <1>1, <1>2, AddedIsFresh, NoNameIsAName
  <1> HIDE DEF t, s
  <1>6. CASE Added(inClass, name)
    <2>1. /\ symtab'.symbols = Append(symtab.symbols, s)
          /\ symtab'.activeClass = symtab.activeClass
          /\ symtab'.activeMethod \in {name, NoName}
          /\ symtab'.temporaryStoreIndex = symtab.temporaryStoreIndex
          /\ WellFormed(symtab')
      BY <1>3, <1>4, <1>6, ScopeSettersWellFormed
    <2>2. Fresh(symtab, s)
      BY <1>1, <1>5, <1>6 DEF Fresh
    <2>3. NumberAfter(s) /\ ScopeAfter(s)
      BY <1>5, <1>6, <2>1 DEF NumberAfter, ScopeAfter, AnyName
    <2>4. QED
      BY <1>4, <1>6, <2>1, <2>2, <2>3 DEF Shape
  <1>7. CASE ~Added(inClass, name)
    <2>1. symtab.temporaryStoreIndex \in Int
      BY DEF WellFormed, Table
    <2>2. QED
      BY <1>3, <1>4, <1>7, <2>1 DEF Shape, ScopeKept
  <1>8. QED
    BY <1>6, <1>7

(* So do Rule_Var_declaration and Rule_Parameter. *)
LEMMA DeclareShape ==
  ASSUME NEW name \in AnyName, NEW type \in DataTypes,
         WellFormed(symtab), Declare(name, type)
  PROVE  WellFormed(symtab') /\ Shape
  <1> DEFINE s == NewSymbol(symtab, name, type, "Identifier")
  <1>1. "Identifier" \in SymbolKinds
    BY DEF SymbolKinds
  <1>2. symtab' = AddSymbol(symtab, name, type, "Identifier")
    BY DEF Declare
  <1>3. /\ WellFormed(symtab')
        /\ symtab'.activeClass = symtab.activeClass
        /\ symtab'.activeMethod = symtab.activeMethod
        /\ symtab'.temporaryStoreIndex = symtab.temporaryStoreIndex
        /\ Added(symtab, name) =>
             s \in Symbol /\ symtab'.symbols = Append(symtab.symbols, s)
        /\ ~Added(symtab, name) => symtab'.symbols = symtab.symbols
    BY <1>1, <1>2, AddSymbolWellFormed, AddSymbolEffect, NoNameIsAName
  <1>4. Added(symtab, name) =>
          /\ Fresh(symtab, s) /\ s.symbol = name /\ s.kind = "Identifier"
          /\ InScope(s, symtab.activeClass, symtab.activeMethod)
          /\ name # NoName
    BY <1>1, AddedIsFresh, NoNameIsAName
  <1> HIDE DEF s
  <1>5. CASE Added(symtab, name)
    BY <1>3, <1>4, <1>5 DEF Shape, NumberAfter, ScopeAfter, AnyName
  <1>6. CASE ~Added(symtab, name)
    <2>1. symtab.temporaryStoreIndex \in Int
      BY DEF WellFormed, Table
    <2>2. QED
      BY <1>3, <1>6, <2>1 DEF Shape, ScopeKept
  <1>7. QED
    BY <1>5, <1>6

(* So does getFreeStore, and the number it uses is the next one. *)
LEMMA NewTemporaryShape ==
  ASSUME NEW type \in DataTypes, WellFormed(symtab), NewTemporary(type)
  PROVE  WellFormed(symtab') /\ Shape
  <1> DEFINE t    == NextTemporary(symtab)
             name == FreeStoreName(t.temporaryStoreIndex)
             s    == NewSymbol(t, name, type, "FreeStore")
  <1>1. "FreeStore" \in SymbolKinds
    BY DEF SymbolKinds
  <1>2. symtab' = AddSymbol(t, name, type, "FreeStore")
    BY DEF NewTemporary, GetFreeStore
  <1>3. /\ WellFormed(t) /\ t.symbols = symtab.symbols
        /\ t.activeClass = symtab.activeClass
        /\ t.activeMethod = symtab.activeMethod
        /\ t.temporaryStoreIndex = symtab.temporaryStoreIndex + 1
        /\ t.temporaryStoreIndex \in Nat
        /\ symtab.temporaryStoreIndex \in Int
    BY DEF NextTemporary, WellFormed, Table
  <1> HIDE DEF t
  <1>4. name \in AnyName \cup FreeStoreNames
    BY <1>3 DEF FreeStoreName, FreeStoreNames
  <1>5. name = FreeStoreName(symtab.temporaryStoreIndex + 1)
    BY <1>3
  <1> HIDE DEF name
  <1>6. /\ WellFormed(symtab')
        /\ symtab'.activeClass = symtab.activeClass
        /\ symtab'.activeMethod = symtab.activeMethod
        /\ symtab'.temporaryStoreIndex = symtab.temporaryStoreIndex + 1
        /\ Added(t, name) =>
             s \in Symbol /\ symtab'.symbols = Append(symtab.symbols, s)
        /\ ~Added(t, name) => symtab'.symbols = symtab.symbols
    BY <1>1, <1>2, <1>3, <1>4, AddSymbolWellFormed, AddSymbolEffect
  <1>7. Added(t, name) =>
          /\ Fresh(t, s) /\ s.symbol = name /\ s.kind = "FreeStore"
          /\ InScope(s, symtab.activeClass, symtab.activeMethod)
    BY <1>1, <1>3, <1>4, AddedIsFresh
  <1>8. Added(t, name) => Fresh(symtab, s)
    BY <1>3, <1>7 DEF Fresh
  <1> HIDE DEF s
  <1>9. CASE Added(t, name)
    BY <1>5, <1>6, <1>7, <1>8, <1>9 DEF Shape, NumberAfter, ScopeAfter
  <1>10. CASE ~Added(t, name)
    BY <1>3, <1>6, <1>10 DEF Shape, ScopeKept
  <1>11. QED
    BY <1>9, <1>10

LEMMA NextShape ==
  ASSUME WellFormed(symtab), Next
  PROVE  WellFormed(symtab') /\ Shape
  <1>1. CASE NewCompilation
    BY <1>1, EmptyWellFormed DEF NewCompilation, Shape
  <1>2. ASSUME NEW name \in AnyName, DefineClass(name)
        PROVE  WellFormed(symtab') /\ Shape
    BY <1>2, DefineClassShape
  <1>3. ASSUME NEW name \in AnyName, DefineMethod(name)
        PROVE  WellFormed(symtab') /\ Shape
    BY <1>3, DefineMethodShape
  <1>4. ASSUME NEW name \in AnyName, NEW type \in Types, Declare(name, type)
        PROVE  WellFormed(symtab') /\ Shape
    BY <1>4, DeclareShape
  <1>5. ASSUME NEW type \in Types, NewTemporary(type)
        PROVE  WellFormed(symtab') /\ Shape
    BY <1>5, NewTemporaryShape
  <1>6. QED
    BY <1>1, <1>2, <1>3, <1>4, <1>5 DEF Next, AnyName

------------------------------------------------------------------------------
(* The inductive invariant.  UniqueInScope and ScopesDeclared are inductive *)
(* once the table is well formed; that temporaries are distinct is not: it  *)
(* needs that every temporary carries a number already handed out, so that  *)
(* the next number is new.                                                  *)
TemporariesNumbered ==
  \A i \in DOMAIN symtab.symbols :
    Numbered(symtab.symbols[i], symtab.temporaryStoreIndex)

IInv ==
  /\ WellFormed(symtab)
  /\ UniqueInScope
  /\ TemporariesNumbered
  /\ TemporariesDistinct
  /\ ScopesDeclared

LEMMA InitIInv == Init => IInv
  <1> SUFFICES ASSUME Init PROVE IInv
    OBVIOUS
  <1>1. /\ WellFormed(symtab) /\ symtab.symbols = <<>>
        /\ symtab.activeClass = NoName /\ symtab.activeMethod = NoName
    BY EmptyWellFormed DEF Init, EmptyTable
  <1>2. QED
    BY <1>1 DEF IInv, UniqueInScope, TemporariesNumbered, TemporariesDistinct,
                ScopesDeclared, ScopeDeclared

(* A scope stays declared as the array grows. *)
LEMMA DeclaredGrows ==
  ASSUME NEW class, NEW method, NEW old, NEW new,
         ScopeDeclared(old, class, method),
         \A i \in DOMAIN old : i \in DOMAIN new /\ new[i] = old[i]
  PROVE  ScopeDeclared(new, class, method)
  BY DEF ScopeDeclared

LEMMA KeptStep ==
  ASSUME IInv, WellFormed(symtab)', symtab'.symbols = symtab.symbols,
         symtab'.temporaryStoreIndex >= symtab.temporaryStoreIndex, ScopeKept
  PROVE  IInv'
  <1>1. UniqueInScope' /\ TemporariesDistinct'
    BY DEF IInv, UniqueInScope, TemporariesDistinct
  <1>2. TemporariesNumbered'
    BY DEF IInv, TemporariesNumbered, Numbered, WellFormed, Table
  <1>3. ScopesDeclared'
    BY DEF IInv, ScopesDeclared, ScopeDeclared, ScopeKept
  <1>4. QED
    BY <1>1, <1>2, <1>3 DEF IInv

LEMMA AppendStep ==
  ASSUME IInv, WellFormed(symtab)', NEW s \in Symbol,
         symtab'.symbols = Append(symtab.symbols, s),
         Fresh(symtab, s), NumberAfter(s), ScopeAfter(s)
  PROVE  IInv'
  <1> DEFINE old == symtab.symbols
             new == symtab'.symbols
             n   == Len(old)
  <1>1. /\ old \in Seq(Symbol) /\ n \in Nat /\ DOMAIN old = 1 .. n
        /\ DOMAIN new = 1 .. n + 1
        /\ \A i \in 1 .. n : new[i] = old[i]
        /\ new[n + 1] = s
    BY DEF IInv, WellFormed, Table
  <1>2. \A i \in 1 .. n + 1 : i = n + 1 \/ i \in 1 .. n
    BY <1>1
  <1>3. \A i \in 1 .. n : ~ (/\ old[i].symbol = s.symbol
                             /\ InScope(old[i], s.class_block, s.method_block))
    BY <1>1 DEF Fresh
  <1>4. UniqueInScope'
    <2>1. \A i, j \in 1 .. n :
            /\ old[i].symbol = old[j].symbol
            /\ InScope(old[i], old[j].class_block, old[j].method_block)
            => i = j
      BY <1>1 DEF IInv, UniqueInScope
    <2>2. SUFFICES ASSUME NEW i \in 1 .. n + 1, NEW j \in 1 .. n + 1,
                          new[i].symbol = new[j].symbol,
                          InScope(new[i], new[j].class_block, new[j].method_block)
                   PROVE  i = j
      BY <1>1 DEF UniqueInScope, InScope
    <2> HIDE DEF old, new, n
    <2>3. QED
      BY <1>1, <1>2, <1>3, <2>1, <2>2 DEF InScope
  <1>5. /\ symtab.temporaryStoreIndex \in Int
        /\ symtab.temporaryStoreIndex >= -1
        /\ symtab'.temporaryStoreIndex \in Int
        /\ symtab'.temporaryStoreIndex >= symtab.temporaryStoreIndex
    BY DEF IInv, WellFormed, Table, NumberAfter
  <1>6. \A i \in 1 .. n : Numbered(new[i], symtab'.temporaryStoreIndex)
    BY <1>1, <1>5 DEF IInv, TemporariesNumbered, Numbered
  <1>7. Numbered(s, symtab'.temporaryStoreIndex)
    BY <1>5 DEF Numbered, NumberAfter
  <1>8. TemporariesNumbered'
    BY <1>1, <1>2, <1>6, <1>7 DEF TemporariesNumbered
  <1>9. \A i \in 1 .. n : \/ s.kind = "FreeStore"
                          \/ old[i].kind = "FreeStore"
                          => s.symbol # old[i].symbol
    <2> SUFFICES ASSUME NEW i \in 1 .. n,
                        s.kind = "FreeStore" \/ old[i].kind = "FreeStore"
                 PROVE  s.symbol # old[i].symbol
      OBVIOUS
    <2>1. Numbered(old[i], symtab.temporaryStoreIndex)
      BY <1>1 DEF IInv, TemporariesNumbered
    <2>2. \A k \in Nat : FreeStoreName(k) \notin Lexemes
      BY DEF FreeStoreName, FreeStoreNames
    <2>3. \A k \in 0 .. symtab.temporaryStoreIndex :
            FreeStoreName(k) # FreeStoreName(symtab.temporaryStoreIndex + 1)
      BY <1>5 DEF FreeStoreName
    <2>4. \A k \in 0 .. symtab.temporaryStoreIndex : k \in Nat
      BY <1>5
    <2>5. symtab.temporaryStoreIndex + 1 \in Nat
      BY <1>5
    <2>6. QED
      BY <2>1, <2>2, <2>3, <2>4, <2>5 DEF Numbered, NumberAfter
  <1>10. TemporariesDistinct'
    <2>1. \A i, j \in 1 .. n :
            old[i].kind = "FreeStore" /\ old[i].symbol = old[j].symbol => i = j
      BY <1>1 DEF IInv, TemporariesDistinct
    <2>2. SUFFICES ASSUME NEW i \in 1 .. n + 1, NEW j \in 1 .. n + 1,
                          new[i].kind = "FreeStore",
                          new[i].symbol = new[j].symbol
                   PROVE  i = j
      BY <1>1 DEF TemporariesDistinct
    <2> HIDE DEF old, new, n
    <2>3. QED
      BY <1>1, <1>2, <1>9, <2>1, <2>2
  <1>11. ScopesDeclared'
    <2> DEFINE Class  == symtab.activeClass
               Method == symtab.activeMethod
    <2>1. \A class, method :
            ScopeDeclared(old, class, method) => ScopeDeclared(new, class, method)
      <3>1. \A i \in DOMAIN old : i \in DOMAIN new /\ new[i] = old[i]
        BY <1>1
      <3> HIDE DEF old, new, n
      <3>2. QED
        BY <3>1, DeclaredGrows
    <2>2. ScopeDeclared(old, Class, Method)
      BY DEF IInv, ScopesDeclared
    <2>3. ScopeDeclared(old, Class, NoName) /\ ScopeDeclared(old, NoName, NoName)
      BY <2>2 DEF ScopeDeclared
    <2>4. n + 1 \in DOMAIN new
      BY <1>1
    <2>5. ScopeDeclared(old, s.class_block, s.method_block)
      BY <2>2, <2>3 DEF ScopeAfter, InScope
    <2> HIDE DEF old, new, n, Class, Method
    <2>6. ScopeDeclared(new, symtab'.activeClass, symtab'.activeMethod)
      <3>1. ScopeDeclared(new, Class, NoName) /\ ScopeDeclared(new, NoName, NoName)
        BY <2>1, <2>3
      <3>2. CASE s.kind = "ClassName" /\ InScope(s, NoName, NoName)
                 /\ symtab'.activeClass = s.symbol /\ symtab'.activeMethod = NoName
        BY <1>1, <2>4, <3>2 DEF ScopeDeclared
      <3>3. CASE s.kind = "MethodName" /\ InScope(s, Class, NoName)
                 /\ symtab'.activeClass = Class /\ symtab'.activeMethod = s.symbol
        BY <1>1, <2>4, <3>1, <3>3 DEF ScopeDeclared
      <3>4. CASE symtab'.activeClass \in {Class, NoName} /\ symtab'.activeMethod = NoName
        BY <3>1, <3>4
      <3>5. CASE symtab'.activeClass = Class /\ symtab'.activeMethod = Method
        BY <2>1, <2>2, <3>5
      <3>6. QED
        BY <3>2, <3>3, <3>4, <3>5 DEF ScopeAfter, Class, Method
    <2>7. \A i \in 1 .. n + 1 :
            ScopeDeclared(new, new[i].class_block, new[i].method_block)
      <3>1. \A i \in 1 .. n : ScopeDeclared(old, old[i].class_block, old[i].method_block)
        BY <1>1 DEF IInv, ScopesDeclared, old
      <3>2. QED
        BY <1>1, <1>2, <2>1, <2>5, <3>1
    <2>8. QED
      BY <1>1, <2>6, <2>7 DEF ScopesDeclared, new
  <1>12. QED
    BY <1>4, <1>8, <1>10, <1>11 DEF IInv

LEMMA RestartStep ==
  ASSUME symtab' = EmptyTable
  PROVE  IInv'
  <1>1. /\ WellFormed(symtab') /\ symtab'.symbols = <<>>
        /\ symtab'.activeClass = NoName /\ symtab'.activeMethod = NoName
    BY EmptyWellFormed DEF EmptyTable
  <1>2. QED
    BY <1>1 DEF IInv, UniqueInScope, TemporariesNumbered, TemporariesDistinct,
                ScopesDeclared, ScopeDeclared

LEMMA NextIInv == IInv /\ [Next]_symtab => IInv'
  <1> SUFFICES ASSUME IInv, [Next]_symtab PROVE IInv'
    OBVIOUS
  <1>1. CASE Next
    <2>1. WellFormed(symtab') /\ Shape
      BY <1>1, NextShape DEF IInv
    <2>2. CASE symtab' = EmptyTable
      BY <2>2, RestartStep
    <2>3. CASE /\ symtab'.symbols = symtab.symbols
               /\ symtab'.temporaryStoreIndex >= symtab.temporaryStoreIndex
               /\ ScopeKept
      BY <2>1, <2>3, KeptStep
    <2>4. CASE \E s \in Symbol :
                 /\ symtab'.symbols = Append(symtab.symbols, s)
                 /\ Fresh(symtab, s)
                 /\ NumberAfter(s)
                 /\ ScopeAfter(s)
      BY <2>1, <2>4, AppendStep
    <2>5. QED
      BY <2>1, <2>2, <2>3, <2>4 DEF Shape
  <1>2. CASE UNCHANGED symtab
    BY <1>2 DEF IInv, WellFormed, UniqueInScope, TemporariesNumbered,
                TemporariesDistinct, ScopesDeclared
  <1>3. QED
    BY <1>1, <1>2

LEMMA Invariance == Spec => []IInv
  BY InitIInv, NextIInv, PTL DEF Spec

(* The array of symbols is never written outside its bounds and has        *)
(* overflowed only when it is full (SymbolTable.addSymbol).                *)
THEOREM ScopingTypeOK == Spec => []TypeOK
  <1>1. IInv => TypeOK
    BY DEF IInv, WellFormed, TypeOK
  <1>2. QED
    BY <1>1, Invariance, PTL

(* existInTable has at most one match to find, whatever the program.       *)
THEOREM NamesUniqueInScope == Spec => []UniqueInScope
  <1>1. IInv => UniqueInScope
    BY DEF IInv
  <1>2. QED
    BY <1>1, Invariance, PTL

(* Temporaries never clash with each other or with a programmer's name, as *)
(* the comment in getFreeStore claims.                                     *)
THEOREM TemporariesNeverClash == Spec => []TemporariesDistinct
  <1>1. IInv => TemporariesDistinct
    BY DEF IInv
  <1>2. QED
    BY <1>1, Invariance, PTL

(* Every scope a symbol is put in belongs to a class and a method that     *)
(* were accepted, also after a refused name or an overflow.                *)
THEOREM EveryScopeDeclared == Spec => []ScopesDeclared
  <1>1. IInv => ScopesDeclared
    BY DEF IInv
  <1>2. QED
    BY <1>1, Invariance, PTL

(* The indices that nodes of the syntax tree hold stay valid and keep      *)
(* meaning the same symbol until the next compilation.                     *)
THEOREM IndicesStable == Spec => SymbolsStable
  <1> DEFINE Stable == \A i \in DOMAIN symtab.symbols :
                         /\ i \in DOMAIN symtab'.symbols
                         /\ symtab'.symbols[i] = symtab.symbols[i]
  <1>1. IInv /\ [Next]_symtab => [NewCompilation \/ Stable]_symtab
    <2> SUFFICES ASSUME IInv, Next PROVE NewCompilation \/ Stable
      OBVIOUS
    <2>1. WellFormed(symtab) /\ Shape
      BY NextShape DEF IInv
    <2>2. symtab.symbols \in Seq(Symbol)
      BY <2>1 DEF WellFormed, Table
    <2>3. CASE symtab' = EmptyTable
      BY <2>3 DEF NewCompilation
    <2>4. CASE symtab'.symbols = symtab.symbols
      BY <2>4
    <2>5. CASE \E s \in Symbol : symtab'.symbols = Append(symtab.symbols, s)
      BY <2>2, <2>5
    <2>6. QED
      BY <2>1, <2>3, <2>4, <2>5 DEF Shape
  <1>2. QED
    BY <1>1, Invariance, PTL DEF Spec, SymbolsStable
==============================================================================
