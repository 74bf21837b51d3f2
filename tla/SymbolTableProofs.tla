-------------------------- MODULE SymbolTableProofs --------------------------
(***************************************************************************)
(* What the methods of the symbol table keep and change, for every table   *)
(* that is well formed: the facts the proofs about Scoping and about the   *)
(* front end share.                                                        *)
(***************************************************************************)
EXTENDS SymbolTable, WellFoundedInduction, TLAPS

USE SymbolTableAssumption

AnyName == Lexemes \cup {NoName}

(* A table that satisfies TypeOK, as a property of a table rather than of  *)
(* the variable, so that the lemmas can speak of intermediate tables.      *)
WellFormed(t) ==
  /\ t \in Table
  /\ Len(t.symbols) <= MaxSizeOfTable
  /\ t.overflowed => Len(t.symbols) = MaxSizeOfTable

LEMMA EmptyWellFormed == WellFormed(EmptyTable)
  BY DEF WellFormed, EmptyTable, Table, Symbol

(* addSymbol keeps the table well formed. *)
LEMMA AddSymbolWellFormed ==
  ASSUME NEW t, WellFormed(t), NEW name \in AnyName \cup FreeStoreNames,
         NEW type \in DataTypes, NEW kind \in SymbolKinds
  PROVE  WellFormed(AddSymbol(t, name, type, kind))
  <1>1. CASE Refused(t, name)
    BY <1>1 DEF AddSymbol
  <1>2. CASE ~Refused(t, name) /\ Fits(t)
    <2> DEFINE s == NewSymbol(t, name, type, kind)
    <2>1. s \in Symbol
      BY <1>2 DEF NewSymbol, Symbol, Refused, WellFormed, Table, AnyName
    <2>2. Append(t.symbols, s) \in Seq(Symbol)
          /\ Len(Append(t.symbols, s)) = Len(t.symbols) + 1
      BY <2>1 DEF WellFormed, Table
    <2>3. Len(t.symbols) \in Nat /\ Len(t.symbols) < MaxSizeOfTable
      BY <1>2 DEF Fits, WellFormed, Table
    <2>4. AddSymbol(t, name, type, kind) = [t EXCEPT !.symbols = Append(@, s)]
      BY <1>2 DEF AddSymbol, Store
    <2> DEFINE u == Append(t.symbols, s)
    <2>5. AddSymbol(t, name, type, kind) = [t EXCEPT !.symbols = u]
      BY <2>4
    <2>6. u \in Seq(Symbol) /\ Len(u) <= MaxSizeOfTable /\ ~t.overflowed
      BY <2>2, <2>3 DEF WellFormed
    <2> HIDE DEF u
    <2>7. [t EXCEPT !.symbols = u] \in Table
      BY <2>6 DEF WellFormed, Table
    <2>8. /\ [t EXCEPT !.symbols = u].symbols = u
          /\ [t EXCEPT !.symbols = u].overflowed = t.overflowed
      BY DEF WellFormed, Table
    <2>9. QED
      BY <2>5, <2>6, <2>7, <2>8 DEF WellFormed
  <1>3. CASE ~Refused(t, name) /\ ~Fits(t)
    <2>1. AddSymbol(t, name, type, kind) = [t EXCEPT !.overflowed = TRUE]
      BY <1>3 DEF AddSymbol
    <2>2. Len(t.symbols) = MaxSizeOfTable
      BY <1>3 DEF Fits, WellFormed, Table
    <2>3. [t EXCEPT !.overflowed = TRUE] \in Table
      BY DEF WellFormed, Table
    <2>4. [t EXCEPT !.overflowed = TRUE].symbols = t.symbols
      BY DEF WellFormed, Table
    <2>5. QED
      BY <2>1, <2>2, <2>3, <2>4 DEF WellFormed
  <1>4. QED
    BY <1>1, <1>2, <1>3

(* addSymbol changes no more than the array and the overflow mark, and the *)
(* array only by the symbol it was asked to add.                           *)
LEMMA AddSymbolEffect ==
  ASSUME NEW t, WellFormed(t), NEW name \in AnyName \cup FreeStoreNames,
         NEW type \in DataTypes, NEW kind \in SymbolKinds
  PROVE  LET r == AddSymbol(t, name, type, kind)
             s == NewSymbol(t, name, type, kind)
         IN  /\ r.activeClass = t.activeClass
             /\ r.activeMethod = t.activeMethod
             /\ r.temporaryStoreIndex = t.temporaryStoreIndex
             /\ Added(t, name) => s \in Symbol /\ r.symbols = Append(t.symbols, s)
             /\ ~Added(t, name) => r.symbols = t.symbols
  <1> DEFINE s == NewSymbol(t, name, type, kind)
  <1>1. CASE Added(t, name)
    <2>1. s \in Symbol
      BY <1>1 DEF NewSymbol, Symbol, Added, Refused, WellFormed, Table, AnyName
    <2>2. AddSymbol(t, name, type, kind) = [t EXCEPT !.symbols = Append(@, s)]
      BY <1>1 DEF AddSymbol, Store, Added
    <2> HIDE DEF s
    <2>3. QED
      BY <1>1, <2>1, <2>2 DEF WellFormed, Table, s
  <1>2. CASE ~Added(t, name)
    <2>1. AddSymbol(t, name, type, kind) \in {t, [t EXCEPT !.overflowed = TRUE]}
      BY <1>2 DEF AddSymbol, Added
    <2>2. QED
      BY <1>2, <2>1 DEF WellFormed, Table
  <1>3. QED
    BY <1>1, <1>2

(* The setters of the scope change nothing else. *)
LEMMA ScopeSettersWellFormed ==
  ASSUME NEW t, WellFormed(t), NEW name \in AnyName
  PROVE  /\ WellFormed(SetActiveClass(t, name))
         /\ WellFormed(SetActiveMethod(t, name))
         /\ SetActiveClass(t, name).symbols = t.symbols
         /\ SetActiveMethod(t, name).symbols = t.symbols
         /\ SetActiveClass(t, name).activeClass = name
         /\ SetActiveMethod(t, name).activeMethod = name
         /\ SetActiveClass(t, name).activeMethod = t.activeMethod
         /\ SetActiveMethod(t, name).activeClass = t.activeClass
         /\ SetActiveClass(t, name).temporaryStoreIndex = t.temporaryStoreIndex
         /\ SetActiveMethod(t, name).temporaryStoreIndex = t.temporaryStoreIndex
  BY DEF SetActiveClass, SetActiveMethod, WellFormed, Table, AnyName

(* The empty string is among the names a handler may ask for. *)
LEMMA NoNameIsAName == NoName \in AnyName /\ AnyName \subseteq AnyName \cup FreeStoreNames
  BY DEF AnyName

------------------------------------------------------------------------------
(* Every set of numbers that is not empty has a least one. *)
LEMMA LeastOf ==
  ASSUME NEW S \in SUBSET Nat, S # {}
  PROVE  \E i \in S : \A j \in S : i <= j
  <1> DEFINE R == OpToRel(<, Nat)
  <1>1. IsWellFoundedOn(R, Nat)
    BY NatLessThanWellFounded
  <1>2. \A i, j \in Nat : i < j => <<i, j>> \in R
    BY DEF OpToRel
  <1> HIDE DEF R
  <1>3. PICK i \in S : \A j \in S : ~(<<j, i>> \in R)
    BY <1>1, WFMin
  <1>4. \A j \in S : ~(j < i)
    BY <1>2, <1>3
  <1>5. \A j \in S : i \in Nat /\ j \in Nat
    OBVIOUS
  <1>6. QED
    BY <1>4, <1>5

(* existInTable leaves the index of a symbol behind when it finds one. *)
LEMMA IndexFound ==
  ASSUME NEW t, WellFormed(t), NEW name, ExistInTable(t, name)
  PROVE  IndexInTable(t, name) \in DOMAIN t.symbols
  <1>1. DOMAIN t.symbols = 1 .. Len(t.symbols) /\ Len(t.symbols) \in Nat
    BY DEF WellFormed, Table
  <1>2. Occurrences(t, name) \in SUBSET Nat /\ Occurrences(t, name) # {}
    BY <1>1 DEF Occurrences, ExistInTable
  <1>3. \E i \in Occurrences(t, name) : \A j \in Occurrences(t, name) : i <= j
    BY <1>2, LeastOf
  <1>4. IndexInTable(t, name) \in Occurrences(t, name)
    BY <1>3 DEF IndexInTable
  <1>5. QED
    BY <1>4 DEF Occurrences

(* What addSymbol makes of a table has the symbols it had, and perhaps one *)
(* more; it has one more exactly when the symbol was added.                *)
LEMMA AddSymbolLength ==
  ASSUME NEW t, WellFormed(t), NEW name \in AnyName \cup FreeStoreNames,
         NEW type \in DataTypes, NEW kind \in SymbolKinds
  PROVE  LET r == AddSymbol(t, name, type, kind)
         IN  /\ Len(t.symbols) \in Nat
             /\ DOMAIN r.symbols = 1 .. Len(r.symbols)
             /\ Len(r.symbols) = IF Added(t, name) THEN Len(t.symbols) + 1
                                 ELSE Len(t.symbols)
  <1> DEFINE r == AddSymbol(t, name, type, kind)
             s == NewSymbol(t, name, type, kind)
  <1>1. /\ WellFormed(r)
        /\ Added(t, name) => s \in Symbol /\ r.symbols = Append(t.symbols, s)
        /\ ~Added(t, name) => r.symbols = t.symbols
    BY AddSymbolWellFormed, AddSymbolEffect
  <1>2. t.symbols \in Seq(Symbol) /\ r.symbols \in Seq(Symbol)
    BY <1>1 DEF WellFormed, Table
  <1> HIDE DEF r, s
  <1>3. Added(t, name) => Len(r.symbols) = Len(t.symbols) + 1
    BY <1>1, <1>2
  <1>4. QED
    BY <1>1, <1>2, <1>3 DEF r

(* getFreeStore keeps the table well formed, and adds one symbol or none.  *)
LEMMA GetFreeStoreResult ==
  ASSUME NEW t, WellFormed(t), NEW type \in DataTypes
  PROVE  LET r == GetFreeStore(t, type)
         IN  /\ WellFormed(r)
             /\ Len(t.symbols) \in Nat
             /\ Len(r.symbols) \in {Len(t.symbols), Len(t.symbols) + 1}
             /\ r.activeClass = t.activeClass
             /\ r.activeMethod = t.activeMethod
  <1> DEFINE u    == NextTemporary(t)
             name == FreeStoreName(u.temporaryStoreIndex)
  <1>1. /\ WellFormed(u) /\ u.symbols = t.symbols
        /\ u.activeClass = t.activeClass /\ u.activeMethod = t.activeMethod
        /\ u.temporaryStoreIndex \in Nat
    BY DEF NextTemporary, WellFormed, Table
  <1>2. GetFreeStore(t, type) = AddSymbol(u, name, type, "FreeStore")
    BY DEF GetFreeStore
  <1>3. name \in AnyName \cup FreeStoreNames /\ "FreeStore" \in SymbolKinds
    BY <1>1 DEF FreeStoreName, FreeStoreNames, SymbolKinds
  <1> HIDE DEF u, name
  <1>4. QED
    BY <1>1, <1>2, <1>3, AddSymbolWellFormed, AddSymbolEffect, AddSymbolLength
==============================================================================
