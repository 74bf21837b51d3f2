----------------------------- MODULE SymbolTable -----------------------------
(***************************************************************************)
(* The compiler's symbol table (src/src/yipada/SymbolTable.java) as a      *)
(* value: a record holding the array of symbols, the scope that is active, *)
(* and the counter the names of temporaries are made from, together with   *)
(* the table's methods as operators from a table to a table.               *)
(*                                                                         *)
(* The array is a sequence: index i of the code is position i + 1 here.    *)
(* The code increments its last index before it writes the slot, so the    *)
(* first addition past the end of the array leaves the index pointing      *)
(* outside it; from then on every scan of the table that does not meet the *)
(* name it looks for throws.  "overflowed" records that.                   *)
(***************************************************************************)
EXTENDS Integers, Sequences

CONSTANTS
  Lexemes,         (* the texts the scanner can deliver, blank excluded     *)
  ParserTexts,     (* those that are also the text of a grammar symbol      *)
  NoName,          (* the empty string                                      *)
  MaxSizeOfTable   (* length of the array of symbols: 10000 in the code     *)

(***************************************************************************)
(* The names getFreeStore invents, "yipadaFree_0", "yipadaFree_1", ...     *)
(* They are unequal for unequal numbers, and since an identifier of the    *)
(* grammar has no underscore no lexeme is one of them.                     *)
(***************************************************************************)
FreeStoreName(n) == <<"yipadaFree", n>>
FreeStoreNames   == {"yipadaFree"} \X Nat

ASSUME SymbolTableAssumption ==
  /\ ParserTexts \subseteq Lexemes
  /\ NoName \notin Lexemes
  /\ MaxSizeOfTable \in Nat \ {0}
  /\ \A name \in Lexemes \cup {NoName} : name \notin FreeStoreNames

DataTypes   == {"void", "int", "long", "float", "bool", "string", "error"}
SymbolKinds == {"Identifier", "ClassName", "MethodName", "FreeStore"}

Symbol == [symbol       : Lexemes \cup FreeStoreNames,
           datatype     : DataTypes,
           class_block  : Lexemes \cup {NoName},
           method_block : Lexemes \cup {NoName},
           kind         : SymbolKinds]

Table == [symbols             : Seq(Symbol),
          overflowed          : BOOLEAN,
          activeClass         : Lexemes \cup {NoName},
          activeMethod        : Lexemes \cup {NoName},
          temporaryStoreIndex : Nat \cup {-1}]

EmptyTable == [symbols             |-> <<>>,
               overflowed          |-> FALSE,
               activeClass         |-> NoName,
               activeMethod        |-> NoName,
               temporaryStoreIndex |-> -1]

------------------------------------------------------------------------------
InScope(s, class, method) == s.class_block = class /\ s.method_block = method

(* The method of the scope not compared. *)
OccurrencesInClass(t, name) ==
  {i \in DOMAIN t.symbols :
     /\ t.symbols[i].symbol = name
     /\ t.symbols[i].class_block = t.activeClass}

Occurrences(t, name) ==
  {i \in DOMAIN t.symbols :
     /\ t.symbols[i].symbol = name
     /\ InScope(t.symbols[i], t.activeClass, t.activeMethod)}

ExistInTable(t, name) == Occurrences(t, name) # {}

(* The index existInTable leaves in its Symbol argument: the first match.  *)
IndexInTable(t, name) ==
  CHOOSE i \in Occurrences(t, name) : \A j \in Occurrences(t, name) : i <= j

(* The scan runs past the end of the array after an overflow. *)
LookupThrows(t, name) == t.overflowed /\ ~ExistInTable(t, name)

SetActiveClass(t, class)   == [t EXCEPT !.activeClass = class]
SetActiveMethod(t, method) == [t EXCEPT !.activeMethod = method]

------------------------------------------------------------------------------
(* The test for an earlier definition dropped. *)
RefusedUnlessDefined(t, name) == name = NoName \/ name \in ParserTexts

(* What addSymbol does with a name: it returns false, throws or returns    *)
(* true.                                                                   *)
Refused(t, name) ==
  name = NoName \/ name \in ParserTexts \/ ExistInTable(t, name)

(* The bounds test the two stack classes use, off by one. *)
FitsAtLimit(t) == Len(t.symbols) <= MaxSizeOfTable

Fits(t) == Len(t.symbols) < MaxSizeOfTable

Added(t, name) == ~Refused(t, name) /\ Fits(t)

NewSymbol(t, name, type, symbolKind) ==
  [symbol       |-> name,
   datatype     |-> type,
   class_block  |-> t.activeClass,
   method_block |-> t.activeMethod,
   kind         |-> symbolKind]

(* The slot is written before the index moves: the last symbol is lost. *)
StoreBeforeIncrement(t, s) ==
  [t EXCEPT !.symbols = IF @ = <<>> THEN <<s>> ELSE [@ EXCEPT ![Len(@)] = s]]

Store(t, s) == [t EXCEPT !.symbols = Append(@, s)]

AddSymbol(t, name, type, symbolKind) ==
  IF Refused(t, name) THEN t
  ELSE IF Fits(t) THEN Store(t, NewSymbol(t, name, type, symbolKind))
  ELSE [t EXCEPT !.overflowed = TRUE]

(* The counter of temporaries never moves. *)
NextTemporarySame(t) == [t EXCEPT !.temporaryStoreIndex = 0]

NextTemporary(t) == [t EXCEPT !.temporaryStoreIndex = @ + 1]

GetFreeStore(t, type) ==
  LET t1 == NextTemporary(t)
  IN  AddSymbol(t1, FreeStoreName(t1.temporaryStoreIndex), type, "FreeStore")
==============================================================================
