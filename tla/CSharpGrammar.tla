---------------------------- MODULE CSharpGrammar ----------------------------
(***************************************************************************)
(* The source language and what the parser engine makes of a program.      *)
(*                                                                         *)
(* A phrase is a derivation of src/compiledGrammar/csharp.grm.  It carries *)
(* the moves of the LALR parser over it -- the tokens it shifts and the    *)
(* rules it reduces by, in order -- and the tree it denotes.  The engine   *)
(* runs with reductions trimmed, so a rule that rewrites one nonterminal   *)
(* to another is not among the moves.  There is one operator per rule of   *)
(* the grammar that is left.                                               *)
(*                                                                         *)
(* The engine reads one token ahead: it shifts a token, reads the next,    *)
(* reports that, and only then reports the reductions the next token       *)
(* permits.  Events puts the moves of a program in the order in which the  *)
(* compiler is told of them.                                               *)
(***************************************************************************)
EXTENDS Integers, Sequences, SequencesExt

CONSTANTS
  Keyword,      (* stands for every token whose text is a terminal's name  *)
  OrText,       (* "||", the one operator whose terminal has another name  *)
  True, False,  (* identifiers that Rule_Value takes for literals          *)
  IntLit,       (* 1 *)
  ZeroLit,      (* 0 *)
  HugeLit,      (* more than fits in an int *)
  FloatLit, StrLit

Integers32   == {IntLit, ZeroLit}            (* what Integer.parseInt accepts *)
NumberTexts  == Integers32 \cup {HugeLit, FloatLit}

None                    == "none"
Shift(text)             == [act |-> "shift", rule |-> None, alt |-> None, text |-> text]
Reduce(rule, alt, text) == [act |-> "reduce", rule |-> rule, alt |-> alt, text |-> text]
Token                   == Shift(Keyword)

(* A tree's "type" is the type a declaration or a parameter gives its name. *)
Leaf(kind, text) == [op |-> kind, text |-> text, type |-> None, kids |-> <<>>]
Tree(op, kids)   == [op |-> op, text |-> None, type |-> None, kids |-> kids]

(* A phrase is a part of a program: the moves over it, and the trees it    *)
(* contributes to its parent's.  "level" orders the expression             *)
(* nonterminals: 0 <Value>, 1 <Unary Exp>, 2 <Mult Exp>, 3 <Add Exp>,      *)
(* 4 <ArithMetic Exp>, 5 <Expression>, 6 <Logic-Exp>.                      *)
Phrase(items, trees) == [items |-> items, trees |-> trees, level |-> 0]
Tokens(n)          == Phrase([i \in 1 .. n |-> Token], <<>>)
Reduced(rule, alt) == Phrase(<<Reduce(rule, alt, None)>>, <<>>)
Implied(tree)      == Phrase(<<>>, <<tree>>)     \* nothing is written
Named(rule, x)     == Phrase(<<Shift(x), Reduce(rule, None, x)>>, <<Leaf("Identifier", x)>>)

Join(p, q) == Phrase(p.items \o q.items, p.trees \o q.trees)

(* The parts one after the other, and a node over their trees. *)
Production(op, parts) ==
  LET whole == FoldLeft(Join, Phrase(<<>>, <<>>), parts)
  IN  [whole EXCEPT !.trees = <<Tree(op, @)>>]

------------------------------------------------------------------------------
(* <Value> *)
Id(x) ==
  Phrase(<<Shift(x), Reduce("Value", "Id", x)>>,
         <<Leaf(IF x \in {True, False} THEN "BooleanLiteral" ELSE "Identifier", x)>>)
Literal(kind, x) == Phrase(<<Shift(x), Reduce("Value", kind, x)>>, <<Leaf(kind, x)>>)
Number(n)        == Literal("NumberLiteral", n)
Text(s)          == Literal("StringLiteral", s)
Paren(e)         == Join(Join(Tokens(1), e), Join(Tokens(1), Reduced("Value", "(")))

(* Parentheses are put around an operand exactly where the grammar needs   *)
(* them; it has none for a <Logic-Exp>.                                    *)
Operand(e, level) == IF e.level <= level THEN e ELSE Paren(e)

(* <Unary Exp>: the tree of ++v is that of v + 1 (AstTree, line 130). *)
Unary(op, e) ==
  [Production(IF op = "++" THEN "+" ELSE "-",
        <<Tokens(1), Operand(e, 0), Reduced("Unary Exp", op),
          Implied(Leaf("NumberLiteral", IntLit))>>) EXCEPT !.level = 1]

Level ==
  [op \in {"*", "/", "+", "-", "%", "<", "<=", ">", ">=", "==", "!=", "&&", "||"} |->
     CASE op \in {"*", "/"} -> 2 [] op \in {"+", "-"} -> 3 [] op = "%" -> 4
       [] op \in {"&&", "||"} -> 6 [] OTHER -> 5]
RuleName ==
  <<"Unary Exp", "Mult Exp", "Add Exp", "ArithMetic Exp", "Expression", "Logic-Exp">>

(* The left operand may be of the operator's own level, the right one not; *)
(* the right operand of % and of a comparison is an <Add Exp>.             *)
Binary(op, left, right) ==
  LET l == Level[op]
  IN  [Production(op, <<Operand(left, l),
                  IF op = "||" THEN Phrase(<<Shift(OrText)>>, <<>>) ELSE Tokens(1),
                  Operand(right, IF l = 5 THEN 3 ELSE l - 1),
                  Reduced(RuleName[l], op)>>) EXCEPT !.level = l]

------------------------------------------------------------------------------
(* A list X1 ... Xn of a right-recursive rule: the n - 1 reductions come   *)
(* after the last element.  A list of one is the element.                  *)
List(rule, op, separator, phrases) ==
  FoldRight(LAMBDA p, rest : Production(op, <<p, separator, rest, Reduced(rule, rule)>>),
            Front(phrases), Last(phrases))

Declared(rule, op, type, x, tree) ==
  Phrase(<<Token, Reduce("Basic-Types", type, None), Shift(x)>>
           \o (IF op = "var-declaration" THEN <<Token>> ELSE <<>>) \o <<Reduce(rule, type, x)>>,
         <<[tree EXCEPT !.type = type]>>)
VarDeclaration(type, x) ==
  Declared("Var-declaration", "var-declaration", type, x,
           Tree("var-declaration", <<Leaf("Identifier", x)>>))
VarDeclarations(decls) == List("Var-declarations", "var-declarations", Tokens(0), decls)

Assign(x, e) ==
  Production(":=", <<Phrase(<<Shift(x), Token>>, <<Leaf("Identifier", x)>>), e, Tokens(1),
               Phrase(<<Reduce("Statement", "=", x)>>, <<>>)>>)
WriteLine(e) ==
  Production("console.writeline", <<Tokens(1), e, Tokens(1), Reduced("Print-statement", None)>>)
Read(items, x) ==
  Production("console.readline", <<Phrase(items, <<Leaf("Identifier", x)>>),
                             Phrase(<<Reduce("Read-statement", None, x)>>, <<>>)>>)
ReadLine(x) == Read(<<Token, Shift(x), Token>>, x)        \* Console.ReadLine x ;
ReadCall(x) ==                                      \* x = Console.ReadLine ( ) ;
  Read(<<Shift(x), Token, Token, Token, Token, Token>>, x)

Statements(stmts) == List("Statements", "statements", Tokens(0), stmts)

(* A condition in parentheses and a block in braces. *)
Guard(cond, body) == <<Tokens(2), cond, Tokens(2), Statements(body), Tokens(1)>>
While(cond, body) == Production("while", Append(Guard(cond, body), Reduced("Statement", "while")))
If(cond, body) ==
  Production("if-then-endif", Append(Guard(cond, body), Reduced("Statement", "if-then-endif")))
IfElse(cond, body, alternative) ==
  Production("if-then-else-endif",
       Guard(cond, body) \o <<Tokens(2), Statements(alternative), Tokens(1),
                              Reduced("Statement", "if-then-else-endif")>>)

------------------------------------------------------------------------------
Parameter(type, x) ==
  Declared("Parameter", "param", type, x, Leaf("FormalParameter", x))
NoParameter ==                       \* alone, or after the comma of the last
  Production("param-list", <<Reduced("Parameter-List", "empty")>>)
ParameterList(params) ==
  List("Parameter-List", "param-list", Tokens(1), IF params = <<>> THEN <<NoParameter>> ELSE params)

(* public, private, void, int, ...: the word becomes a leaf. *)
Word(rule) == Phrase(<<Token, Reduce(rule, None, None)>>, <<Leaf("StringLiteral", Keyword)>>)

Method(name, params, body) ==
  Production("method-definition",
       <<Word("Access-Modifier"), Word("Return-Type"), Named("Method-def-name", name), Tokens(1),
         ParameterList(params), Tokens(2), Statements(body), Tokens(1),
         Reduced("Method-Definition", None)>>)
MethodDefinitions(methods) ==
  List("Method-Definitions", "method-definitions", Tokens(0), methods)

(* A body of declarations alone or of methods alone is trimmed away. *)
ClassBody(decls, methods) ==
  IF methods = <<>> THEN VarDeclarations(decls)
  ELSE IF decls = <<>> THEN MethodDefinitions(methods)
  ELSE Production("class-body", <<VarDeclarations(decls), MethodDefinitions(methods),
                            Reduced("Class-body", None)>>)
Class(name, decls, methods) ==
  Production("class-definition",
       <<Word("Access-Modifier"), Tokens(1), Named("Class-definition-name", name), Tokens(1),
         ClassBody(decls, methods), Tokens(1), Reduced("Class-definition", None)>>)
ClassDefinitions(classes) ==
  List("Class-Definitions", "class-definitions", Tokens(0), classes)

Program(decls, classes) ==
  IF decls = <<>> THEN ClassDefinitions(classes)
  ELSE Production("program", <<VarDeclarations(decls), ClassDefinitions(classes),
                         Reduced("Program", None)>>)

(* A class as a statement; the rule's own words come first. *)
NestedClass(class) ==
  Production("nested-class",
       <<Word("Access-Modifier"), Tokens(1), class, Reduced("Statement", "if-then-endif")>>)

------------------------------------------------------------------------------
(* The token read after move i: that of the next shift, or the end of the  *)
(* input, which the compiler treats as it does a keyword.                  *)
NextToken(items, i) ==
  LET later == {j \in i + 1 .. Len(items) : items[j].act = "shift"}
  IN  [act |-> "read", rule |-> None, alt |-> None,
       text |-> IF later = {} THEN Keyword
                ELSE items[CHOOSE j \in later : \A k \in later : j <= k].text]

Events(items) ==
  <<NextToken(items, 0)>> \o
  [i \in DOMAIN items |-> IF items[i].act = "shift" THEN NextToken(items, i) ELSE items[i]]

------------------------------------------------------------------------------
(* What all derivations have in common.  The reductions that name a lexeme *)
(* of theirs, and the tokens that may be such a lexeme, or a ||.           *)
Takes(m) ==
  /\ m.act = "reduce"
  /\ \/ m.rule \in {"Var-declaration", "Parameter", "Read-statement",
                    "Class-definition-name", "Method-def-name"}
     \/ m.rule = "Statement" /\ m.alt = "="
     \/ m.rule = "Value" /\ m.alt \in {"Id", "StringLiteral", "NumberLiteral"}
Keeps(m) == m.act = "shift" /\ m.text # Keyword

(* The lexeme of reduction i: the nearest before it with as many lexemes   *)
(* as reductions that name one in between.                                 *)
Even(moves, j, i) ==
  Cardinality({k \in j + 1 .. i - 1 : Keeps(moves[k])})
    = Cardinality({k \in j + 1 .. i - 1 : Takes(moves[k])})
Closes(moves, j, i) == Keeps(moves[j]) /\ Even(moves, j, i)
LexemeOf(moves) ==
  [i \in {i \in DOMAIN moves : Takes(moves[i])} |->
     CHOOSE j \in 1 .. i - 1 : /\ Closes(moves, j, i)
                               /\ \A k \in j + 1 .. i - 1 : ~Closes(moves, k, i)]

(* Lexemes and the reductions that name them are nested like brackets.     *)
WellNested(moves, lexeme) ==
  /\ \A i \in DOMAIN lexeme :
       /\ lexeme[i] \in 1 .. i - 1
       /\ Keeps(moves[lexeme[i]])
       /\ moves[lexeme[i]].text = moves[i].text
       /\ \A k \in lexeme[i] + 1 .. i - 1 :
            Keeps(moves[k]) => \E l \in k + 1 .. i - 1 : l \in DOMAIN lexeme /\ lexeme[l] = k
  /\ \A i, l \in DOMAIN lexeme : lexeme[i] = lexeme[l] => i = l

(* Every reduction by one of the rules has one by the given rule before it. *)
Precedes(rule, rules, moves) ==
  \A i \in DOMAIN moves :
    moves[i].rule \in rules => \E j \in 1 .. i - 1 : moves[j].rule = rule

(* The rules that declare a name have its type before them, and those that *)
(* use one belong to a class with its modifier.                            *)
Declaring == {"Var-declaration", "Parameter"}
InClasses == {"Statement", "Value", "Class-definition-name", "Method-def-name"}

==============================================================================
