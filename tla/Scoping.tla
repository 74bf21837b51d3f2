------------------------------- MODULE Scoping -------------------------------
(***************************************************************************)
(* What the symbol table promises the rest of the compiler.  The actions   *)
(* are the five ways a compilation changes the table: the handlers of the  *)
(* rules that define a name, and AstTree's requests for a temporary.  The  *)
(* order in which they happen is free; the front end is shown elsewhere to *)
(* perform only these steps.                                               *)
(***************************************************************************)
EXTENDS SymbolTable

CONSTANTS
  Types,             (* the data types symbols are given                    *)
  TemporaryNumbers   (* the numbers of temporaries: Nat, or a bound on them *)

ASSUME ScopingAssumption ==
  /\ Types \subseteq DataTypes
  /\ TemporaryNumbers \subseteq Nat

VARIABLE symtab

Init == symtab = EmptyTable

(* The constructor of compiler makes a new table for every compilation. *)
NewCompilation == symtab' = EmptyTable

(* Rule_Class_def_name: a class is defined at the top level, and becomes   *)
(* the active class when its name was accepted; a refused name leaves the  *)
(* top level active, and so does an accepted name for whose leaf AstTree   *)
(* has no room left.                                                       *)
DefineClass(name) ==
  LET top == SetActiveMethod(SetActiveClass(symtab, NoName), NoName)
      t   == AddSymbol(top, name, "void", "ClassName")
  IN  \/ symtab' = t
      \/ Added(top, name) /\ symtab' = SetActiveClass(t, name)

(* The active method forgotten when the next one begins. *)
DefineMethodInMethod(name) ==
  LET t == AddSymbol(symtab, name, "void", "MethodName")
  IN  \/ symtab' = t
      \/ Added(symtab, name) /\ symtab' = SetActiveMethod(t, name)

(* Rule_Method_def_name, in the active class. *)
DefineMethod(name) ==
  LET inClass == SetActiveMethod(symtab, NoName)
      t       == AddSymbol(inClass, name, "void", "MethodName")
  IN  \/ symtab' = t
      \/ Added(inClass, name) /\ symtab' = SetActiveMethod(t, name)

(* Rule_Var_declaration and Rule_Parameter, in the active scope. *)
Declare(name, type) == symtab' = AddSymbol(symtab, name, type, "Identifier")

(* AstTree.addBinaryOperatorNode, for the result of an operator. *)
NewTemporary(type) ==
  /\ symtab.temporaryStoreIndex + 1 \in TemporaryNumbers
  /\ symtab' = GetFreeStore(symtab, type)

Next ==
  \/ NewCompilation
  \/ \E name \in Lexemes \cup {NoName} :
       \/ DefineClass(name)
       \/ DefineMethod(name)
       \/ \E type \in Types : Declare(name, type)
  \/ \E type \in Types : NewTemporary(type)

Spec == Init /\ [][Next]_symtab

------------------------------------------------------------------------------
(* The table is well formed, never longer than its array, and has          *)
(* overflowed only when the array is full (SymbolTable.addSymbol).         *)
TypeOK ==
  /\ symtab \in Table
  /\ Len(symtab.symbols) <= MaxSizeOfTable
  /\ symtab.overflowed => Len(symtab.symbols) = MaxSizeOfTable

(* Two symbols of one scope never share a name, temporaries included: the  *)
(* first match that existInTable stops at is the only one.                 *)
UniqueInScope ==
  \A i, j \in DOMAIN symtab.symbols :
    LET s == symtab.symbols[i]
        u == symtab.symbols[j]
    IN  s.symbol = u.symbol /\ InScope(s, u.class_block, u.method_block)
          => i = j

(* No temporary has the name of another temporary or of anything the       *)
(* program defines, in whatever scope (the comment in getFreeStore).       *)
TemporariesDistinct ==
  \A i, j \in DOMAIN symtab.symbols :
    /\ symtab.symbols[i].kind = "FreeStore"
    /\ symtab.symbols[i].symbol = symtab.symbols[j].symbol
    => i = j

(* The class a scope names is a class defined at the top level, and its    *)
(* method a method defined directly in that class.                         *)
ScopeDeclared(symbols, class, method) ==
  /\ class # NoName => \E i \in DOMAIN symbols :
       /\ symbols[i].symbol = class
       /\ symbols[i].kind = "ClassName"
       /\ InScope(symbols[i], NoName, NoName)
  /\ method # NoName => \E i \in DOMAIN symbols :
       /\ symbols[i].symbol = method
       /\ symbols[i].kind = "MethodName"
       /\ InScope(symbols[i], class, NoName)

(* Every symbol lives in a scope whose class and method were defined, and  *)
(* so does whatever is defined next, also after a refused definition or an *)
(* overflow (Rule_Class_def_name, Rule_Method_def_name).                   *)
ScopesDeclared ==
  /\ ScopeDeclared(symtab.symbols, symtab.activeClass, symtab.activeMethod)
  /\ \A i \in DOMAIN symtab.symbols :
       ScopeDeclared(symtab.symbols, symtab.symbols[i].class_block,
                     symtab.symbols[i].method_block)

(* The nodes of the syntax tree refer to symbols by index: within one      *)
(* compilation a symbol never moves and never changes.                     *)
SymbolsStable ==
  [][\/ NewCompilation
     \/ \A i \in DOMAIN symtab.symbols :
          /\ i \in DOMAIN symtab'.symbols
          /\ symtab'.symbols[i] = symtab.symbols[i]]_symtab
==============================================================================
