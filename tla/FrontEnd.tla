------------------------------ MODULE FrontEnd ------------------------------
(***************************************************************************)
(* The front end of the compiler (src/src/yipada/compiler.java): Compile   *)
(* is told by the parser engine of tokens and reductions, keeps the texts  *)
(* of identifiers and literals on a stack of its own until a reduction     *)
(* wants them, fills the symbol table and builds the syntax tree, and      *)
(* finally decides whether code is generated.                              *)
(*                                                                         *)
(* A compilation takes one of the programs, and its script is the sequence *)
(* of things the engine reports about it.  The engine may report an error  *)
(* at any point instead, for a text that only begins like the program.     *)
(***************************************************************************)
EXTENDS AstTree

CONSTANTS
  Programs,       (* a function to phrases: what there is to compile        *)
  NoProgram,      (* before the first compilation                           *)
  MaxCompiles     (* bound on the compilations of one run of the IDE       *)

(* What the engine reports of each program. *)
Script == [p \in DOMAIN Programs |-> Events(Programs[p].items)]

(* The moves over a program.                                               *)
Moves == [act : {"shift", "reduce"}, rule : STRING, alt : STRING, text : Lexemes \cup {None}]

Derivation(moves) ==
  /\ moves \in Seq(Moves)
  /\ \A i \in DOMAIN moves :
       /\ moves[i].act = "shift" => moves[i].rule = None /\ moves[i].text # None
       /\ moves[i].act = "reduce" => (Takes(moves[i]) <=> moves[i].text # None)
       /\ moves[i].rule = "Basic-Types" => moves[i].alt \in DataTypes
  /\ WellNested(moves, LexemeOf(moves))
  /\ Precedes("Basic-Types", Declaring, moves)
  /\ Precedes("Access-Modifier", InClasses, moves)
  /\ \E i \in DOMAIN moves : moves[i].rule = "Access-Modifier"

ASSUME FrontEndAssumption ==
  /\ MaxCompiles \in Nat
  /\ Keyword \in ParserTexts
  /\ \A p \in DOMAIN Programs : Derivation(Programs[p].items)

VARIABLES
  program,          (* which program is being compiled, or was last        *)
  events,           (* what the engine has still to report of it            *)
  accepted,         (* history: it was parsed to its end                    *)
  tokenStack,       (* oStackOfTokens                                      *)
  tokenReadAhead,   (* sTokenReadAhead                                     *)
  symtab,           (* oSymbolTable                                        *)
  typeName,         (* sTypeName_of_defined_object                         *)
  ast,              (* oAST                                                *)
  said,             (* something was reported in the output window         *)
  parsingOK,        (* the static iCompiler_ParsingOK                      *)
  phase,            (* "idle", "parsing", or "stopped": left the main loop *)
  outcome,          (* how the compilation ended                           *)
  compiles          (* how many there have been                            *)

input  == <<program, events, compiles>>
tokens == <<tokenStack, tokenReadAhead>>
ending == <<parsingOK, phase, outcome, accepted>>
vars   == <<input, tokens, symtab, typeName, ast, said, ending>>

Init ==
  /\ program = NoProgram
  /\ events = <<>>
  /\ accepted = FALSE
  /\ tokenStack = <<>>
  /\ tokenReadAhead = NoName
  /\ symtab = EmptyTable
  /\ typeName = None
  /\ ast = EmptyTree
  /\ said = FALSE
  /\ parsingOK = FALSE
  /\ phase = "idle"
  /\ outcome = "none"
  /\ compiles = 0

(* A new compiler object: only the static flag is left as it was. *)
StartCompile(p) ==
  /\ phase = "idle"
  /\ compiles < MaxCompiles
  /\ compiles' = compiles + 1
  /\ program' = p
  /\ events' = Script[p]
  /\ accepted' = FALSE
  /\ tokenStack' = <<>>
  /\ tokenReadAhead' = NoName
  /\ symtab' = EmptyTable
  /\ typeName' = None
  /\ ast' = EmptyTree
  /\ said' = FALSE
  /\ phase' = "parsing"
  /\ outcome' = "none"
  /\ UNCHANGED parsingOK

------------------------------------------------------------------------------
Event == Head(events)

Happens(act) ==
  /\ phase = "parsing"
  /\ events # <<>>
  /\ Event.act = act
  /\ events' = Tail(events)
  /\ UNCHANGED <<program, compiles>>

Reduction(rule) == Happens("reduce") /\ Event.rule = rule

(* An identifier or a literal is pushed as soon as it is read. *)
TokenReadAtOnce ==
  /\ Happens("read")
  /\ tokenStack' = IF Event.text \in ParserTexts THEN tokenStack
                   ELSE Append(tokenStack, Event.text)
  /\ UNCHANGED <<tokenReadAhead, symtab, typeName, ast, said, ending>>

(* An exception leaves Compile; the window shows it as an IDE error. *)
Crash ==
  /\ outcome' = "crashed"
  /\ phase' = "idle"
  /\ said' = TRUE
  /\ UNCHANGED <<parsingOK, accepted>>

(* An identifier or a literal waits until the next token is read, and is   *)
(* then pushed: onto a full stack, that throws.                            *)
TokenRead ==
  /\ Happens("read")
  /\ IF tokenReadAhead # NoName /\ Len(tokenStack) = MaxSizeOfStack
       THEN Crash /\ UNCHANGED tokens
       ELSE /\ tokenStack' = IF tokenReadAhead = NoName THEN tokenStack
                             ELSE Append(tokenStack, tokenReadAhead)
            /\ tokenReadAhead' = IF Event.text \in ParserTexts THEN NoName ELSE Event.text
            /\ UNCHANGED <<said, ending>>
  /\ UNCHANGED <<symtab, typeName, ast>>

(* stack.pop() gives "" when the stack is empty. *)
TopToken == IF tokenStack = <<>> THEN NoName ELSE Last(tokenStack)
PopToken ==
  /\ tokenStack' = IF tokenStack = <<>> THEN <<>> ELSE Front(tokenStack)
  /\ UNCHANGED tokenReadAhead

(* What AstTree and the symbol table make of a request. *)
Become(r) ==
  /\ ast' = r.ast
  /\ symtab' = r.table
  /\ said' = (said \/ r.said)

(* The handler returned false, and "done" ends the loop. *)
Continue(ok) ==
  /\ phase' = IF ok THEN "parsing" ELSE "stopped"
  /\ UNCHANGED <<parsingOK, outcome, accepted>>

(* The leaf of the name on top of the token stack, and the operator over   *)
(* it if there is one.                                                     *)
WithIdentifier == addleaf(ast, "Identifier", None, IndexInTable(symtab, TopToken))
OverIdentifier(op) == AddLeafAndOperator(ast, symtab, IndexInTable(symtab, TopToken), op)

------------------------------------------------------------------------------
(* The handlers that ask the tree for one operator node and do nothing     *)
(* else, by the operator they ask for.                                     *)
Rule_Program(op)            == Event.rule = "Program"            /\ op = "program"
Rule_Class_Definitions(op)  == Event.rule = "Class-Definitions"  /\ op = "class-definitions"
Rule_Class_definition(op)   == Event.rule = "Class-definition"   /\ op = "class-definition"
Rule_Class_body(op)         == Event.rule = "Class-body"         /\ op = "class-body"
Rule_Method_definitions(op) == Event.rule = "Method-Definitions" /\ op = "method-definitions"
Rule_Method_definition(op)  == Event.rule = "Method-Definition"  /\ op = "method-definition"
Rule_Parameter_List(op)     == Event.rule = "Parameter-List"     /\ op = "param-list"
                               /\ Event.alt # "empty"
Rule_Var_declarations(op)   == Event.rule = "Var-declarations"   /\ op = "var-declarations"
Rule_Statements(op)         == Event.rule = "Statements"         /\ op = "statements"
Rule_Block_statement(op)    == Event.rule = "Statement"          /\ op = Event.alt /\ op # "="
Rule_Print_statement(op)    == Event.rule = "Print-statement"    /\ op = "console.writeline"
Rule_Logic_Exp(op)          == Event.rule = "Logic-Exp"          /\ op = Event.alt
Rule_Expression(op)         == Event.rule = "Expression"         /\ op = Event.alt
Rule_ArithMetic_Exp(op)     == Event.rule = "ArithMetic Exp"     /\ op = "%"
Rule_Add_Exp(op)            == Event.rule = "Add Exp"            /\ op = Event.alt
Rule_Mult_Exp(op)           == Event.rule = "Mult Exp"           /\ op = Event.alt
Rule_Unary_Exp(op)          == Event.rule = "Unary Exp"          /\ op = Event.alt

Operators ==
  {"program", "class-definitions", "class-definition", "class-body", "method-definitions",
   "method-definition", "param-list", "var-declarations", "statements", "while",
   "if-then-endif", "if-then-else-endif", "console.writeline", "%", "++", "--"}
     \cup ExpressiveOperators

BuildingRule(op) ==
  \/ Rule_Program(op) \/ Rule_Class_Definitions(op) \/ Rule_Class_definition(op)
  \/ Rule_Class_body(op) \/ Rule_Method_definitions(op) \/ Rule_Method_definition(op)
  \/ Rule_Parameter_List(op) \/ Rule_Var_declarations(op) \/ Rule_Statements(op)
  \/ Rule_Block_statement(op) \/ Rule_Print_statement(op) \/ Rule_Logic_Exp(op)
  \/ Rule_Expression(op) \/ Rule_ArithMetic_Exp(op) \/ Rule_Add_Exp(op)
  \/ Rule_Mult_Exp(op) \/ Rule_Unary_Exp(op)

Build(op) ==
  /\ Happens("reduce")
  /\ BuildingRule(op)
  /\ Become(addOperatorNode(ast, symtab, op))
  /\ UNCHANGED <<tokens, typeName, ending>>

(* <Parameter-List> ::= (empty) *)
Rule_No_Parameters ==
  /\ Reduction("Parameter-List") /\ Event.alt = "empty"
  /\ ast' = addNullOperatorNode(ast)
  /\ UNCHANGED <<tokens, symtab, typeName, said, ending>>

Rule_Basic_Types ==
  /\ Reduction("Basic-Types")
  /\ typeName' = Event.alt
  /\ UNCHANGED <<tokens, symtab, ast, said, ending>>

(* The word itself becomes a leaf. *)
Rule_Access_Modifier ==
  /\ Reduction("Access-Modifier")
  /\ ast' = addleaf(ast, "StringLiteral", Keyword, 0)
  /\ UNCHANGED <<tokens, symtab, typeName, said, ending>>

Rule_Return_Type ==
  /\ Reduction("Return-Type")
  /\ typeName' = "void"
  /\ ast' = addleaf(ast, "StringLiteral", Keyword, 0)
  /\ UNCHANGED <<tokens, symtab, said, ending>>

------------------------------------------------------------------------------
(* A name is given the type read last.  When the table refuses it, the     *)
(* handler's result is ignored: parsing goes on without the node.          *)
DeclareTop ==
  /\ PopToken
  /\ symtab' = AddSymbol(symtab, TopToken, typeName, "Identifier")
  /\ said' = (said \/ Refused(symtab, TopToken))
  /\ UNCHANGED <<typeName, ending>>

(* The index taken after the last one has moved on. *)
IndexPastAdded == Len(symtab.symbols) + 2

IndexAdded == Len(symtab.symbols) + 1

Rule_Var_declaration ==
  /\ Reduction("Var-declaration")
  /\ DeclareTop
  /\ ast' = IF Added(symtab, TopToken)
              THEN AddLeafAndOperator(ast, symtab, IndexAdded, "var-declaration").ast
              ELSE ast

Rule_Parameter ==
  /\ Reduction("Parameter")
  /\ DeclareTop
  /\ ast' = IF Added(symtab, TopToken) THEN addleaf(ast, "FormalParameter", None, IndexAdded)
            ELSE ast

(* An undeclared name is reported, and ends the loop or, in a read         *)
(* statement, leaves the node out; a lookup that throws does so silently.  *)
Undeclared == ~ExistInTable(symtab, TopToken)
UnreadableSilent == UNCHANGED <<ast, symtab, said>>     \* without the message
Unreadable == said' = (said \/ ~LookupThrows(symtab, TopToken)) /\ UNCHANGED <<ast, symtab>>

(* id = expression ; *)
Rule_Assignment ==
  /\ Reduction("Statement") /\ Event.alt = "="
  /\ PopToken
  /\ IF Undeclared THEN Unreadable ELSE Become(OverIdentifier(":="))
  /\ Continue(~Undeclared /\ ~PushThrows(ast))
  /\ UNCHANGED typeName

Rule_Read_statement ==
  /\ Reduction("Read-statement")
  /\ PopToken
  /\ IF Undeclared THEN Unreadable ELSE Become(OverIdentifier("console.readline"))
  /\ UNCHANGED <<typeName, ending>>

(* "true" and "false" are kept as "1" and "0". *)
TruthText(name) == IF name = True THEN IntLit ELSE ZeroLit

Rule_Value_Id ==
  /\ Reduction("Value") /\ Event.alt = "Id"
  /\ PopToken
  /\ IF TopToken \in {True, False}
       THEN ast' = addleaf(ast, "BooleanLiteral", TruthText(TopToken), 0) /\ UNCHANGED <<symtab, said>>
     ELSE IF Undeclared THEN Unreadable
     ELSE ast' = WithIdentifier /\ UNCHANGED <<symtab, said>>
  /\ Continue((TopToken \in {True, False} \/ ~Undeclared) /\ ~PushThrows(ast))
  /\ UNCHANGED typeName

Rule_Value_Literal ==
  /\ Reduction("Value") /\ Event.alt \in {"StringLiteral", "NumberLiteral"}
  /\ PopToken
  /\ ast' = addleaf(ast, Event.alt, TopToken, 0)
  /\ Continue(~PushThrows(ast))
  /\ UNCHANGED <<symtab, typeName, said>>

Rule_Value_Parentheses ==
  /\ Reduction("Value") /\ Event.alt = "("
  /\ UNCHANGED <<tokens, symtab, typeName, ast, said, ending>>

(* The active method is not reset. *)
Rule_Class_def_nameInMethod ==
  LET name == TopToken
      top  == SetActiveClass(symtab, NoName)
      t    == AddSymbol(top, name, "void", "ClassName")
      ok   == Added(top, name)
  IN  /\ Reduction("Class-definition-name")
      /\ PopToken
      /\ symtab' = IF ok /\ ~PushThrows(ast) THEN SetActiveClass(t, name) ELSE t
      /\ ast' = IF ok THEN addleaf(ast, "Identifier", None, Len(t.symbols)) ELSE ast
      /\ said' = (said \/ Refused(top, name))
      /\ Continue(ok /\ ~PushThrows(ast))
      /\ UNCHANGED typeName

(* The scope is the top level again, and then the class. *)
Rule_Class_def_name ==
  LET name == TopToken
      top  == SetActiveMethod(SetActiveClass(symtab, NoName), NoName)
      t    == AddSymbol(top, name, "void", "ClassName")
      ok   == Added(top, name)
  IN  /\ Reduction("Class-definition-name")
      /\ PopToken
      /\ symtab' = IF ok /\ ~PushThrows(ast) THEN SetActiveClass(t, name) ELSE t
      /\ ast' = IF ok THEN addleaf(ast, "Identifier", None, Len(t.symbols)) ELSE ast
      /\ said' = (said \/ Refused(top, name))
      /\ Continue(ok /\ ~PushThrows(ast))
      /\ UNCHANGED typeName

(* A refused method name is only written to standard output. *)
Rule_Method_def_name ==
  LET name    == TopToken
      inClass == SetActiveMethod(symtab, NoName)
      t       == AddSymbol(inClass, name, "void", "MethodName")
      ok      == Added(inClass, name)
  IN  /\ Reduction("Method-def-name")
      /\ PopToken
      /\ symtab' = IF ok /\ ~PushThrows(ast) THEN SetActiveMethod(t, name) ELSE t
      /\ ast' = IF ok THEN addleaf(ast, "Identifier", None, Len(t.symbols)) ELSE ast
      /\ Continue(ok /\ ~PushThrows(ast))
      /\ UNCHANGED <<typeName, said>>

------------------------------------------------------------------------------
(* A lexical or a syntax error: reported, and Compile returns at once. *)
ParserRejects ==
  /\ phase = "parsing"
  /\ events # <<>>
  /\ said' = TRUE
  /\ outcome' = "syntax error"
  /\ phase' = "idle"
  /\ UNCHANGED <<input, tokens, symtab, typeName, ast, parsingOK, accepted>>

(* Off by one: as if the listing ran past a table that is merely full. *)
ListingThrowsWhenFull(t) == Len(t.symbols) = MaxSizeOfTable
ListingThrows(t)         == t.overflowed

(* The listing of the symbol table throws out of Compile when the table    *)
(* has overflowed.                                                         *)
Accept ==
  /\ phase = "parsing"
  /\ events = <<>>
  /\ IF ListingThrows(symtab) THEN Crash
     ELSE parsingOK' = TRUE /\ phase' = "stopped" /\ accepted' = TRUE /\ UNCHANGED <<outcome, said>>
  /\ UNCHANGED <<input, tokens, symtab, typeName, ast>>

(* After the loop: generate code when the parsing flag is set and the tree *)
(* carries no error.                                                       *)
Decide ==
  /\ phase = "stopped"
  /\ IF parsingOK /\ RootThrows(ast) THEN Crash
     ELSE /\ outcome' = IF parsingOK /\ ~errorBuildingTree(ast) THEN "translated" ELSE "rejected"
          /\ phase' = "idle"
          /\ UNCHANGED <<said, parsingOK, accepted>>
  /\ UNCHANGED <<input, tokens, symtab, typeName, ast>>

Next ==
  \/ \E p \in DOMAIN Script : StartCompile(p)
  \/ TokenRead
  \/ \E op \in Operators : Build(op)
  \/ Rule_No_Parameters \/ Rule_Basic_Types \/ Rule_Access_Modifier \/ Rule_Return_Type
  \/ Rule_Var_declaration \/ Rule_Parameter \/ Rule_Assignment \/ Rule_Read_statement
  \/ Rule_Value_Id \/ Rule_Value_Literal \/ Rule_Value_Parentheses
  \/ Rule_Class_def_name \/ Rule_Method_def_name
  \/ ParserRejects \/ Accept \/ Decide

Spec == Init /\ [][Next]_vars

------------------------------------------------------------------------------
(* Every variable has its type; a compilation that is over has an outcome. *)
TypeOK ==
  /\ compiles \in 0 .. MaxCompiles
  /\ IF compiles = 0 THEN program = NoProgram
     ELSE program \in DOMAIN Script
  /\ \A i \in DOMAIN events : events[i].text \in Lexemes \cup {None}
  /\ accepted \in BOOLEAN
  /\ tokenStack \in Seq(Lexemes)
  /\ tokenReadAhead \in (Lexemes \ ParserTexts) \cup {NoName}
  /\ symtab \in Table
  /\ typeName \in DataTypes \cup {None}
  /\ ast.failed \in BOOLEAN
  /\ ast.broken \in BOOLEAN
  /\ Len(ast.stack) <= MaxSizeOfStack
  /\ \A i \in DOMAIN ast.stack :
       /\ ast.stack[i].sym \in {0} \cup DOMAIN symtab.symbols
       /\ ast.stack[i].op \in {"Identifier", "FormalParameter"} => ast.stack[i].sym # 0
       /\ ast.stack[i].dt \in DataTypes \cup {None}
  /\ said \in BOOLEAN
  /\ parsingOK \in BOOLEAN
  /\ phase \in {"idle", "parsing", "stopped"}
  /\ outcome \in {"none", "syntax error", "rejected", "crashed", "translated"}
  /\ (outcome = "none") <=> (phase # "idle" \/ compiles = 0)

(* No identifier is spelled like a terminal of the grammar ("Id",          *)
(* "NumberLiteral", "StringLiteral"): such a lexeme is never kept.         *)
Plain ==
  \A e \in Range(Script[program]) :
    e.act = "read" /\ e.text \in ParserTexts => e.text = Keyword

(* Whenever a reduction takes a lexeme off the stack, it is the lexeme     *)
(* that belongs to that reduction, although the engine has read one token  *)
(* ahead of it (Compile, gpMsgTokenRead).                                  *)
TokenAligned ==
  /\ phase = "parsing"
  /\ events # <<>>
  /\ Event.act = "reduce"
  /\ Event.text # None
  /\ Plain
  => TopToken = Event.text

(* A program too large for the symbol table or the stack of nodes is never *)
(* translated once it has been parsed to its end, and nothing but such a   *)
(* program, or a full stack of tokens, throws an exception out of Compile. *)
OverflowNeverTranslated ==
  /\ outcome = "translated" /\ accepted => ~symtab.overflowed /\ ~ast.broken
  /\ outcome = "crashed" =>
       symtab.overflowed \/ ast.broken \/ Len(tokenStack) = MaxSizeOfStack

(* The front end uses the symbol table only in the ways Scoping allows.    *)
Names == INSTANCE Scoping WITH Types <- DataTypes, TemporaryNumbers <- Nat
ImplementsScoping == Names!Spec

(* Code is generated only from a compilation that parsed the whole program *)
(* ("parsing ok and no error building the tree", compiler.java:1014).      *)
OnlyParsedTranslated == outcome = "translated" => accepted
==============================================================================
