------------------------------ MODULE MCBackEnd ------------------------------
(***************************************************************************)
(* Programs that between them use every kind of quadruple, jump and        *)
(* statement, nested in each other, and those whose C++ g++ refuses.  No   *)
(* loop of them runs forever without doing anything that is seen.          *)
(***************************************************************************)
EXTENDS Compilation

CONSTANTS A, B, main, go, x, y, z, IdText, Quoted, new

(* The generator of three-address code, applied to the operands again.     *)
(* TLC, asked for coverage, unfolds a constant's value that is a bare      *)
(* application, here without end; it leaves a LET alone.                   *)
MCGenerated(n, g) == LET code == code_gen(n, g) IN code

Names0 == {A, B, main, go, x, y, z, new, IdText, True, False, OrText}
MCLexemes     == Names0 \cup {Keyword, IntLit, ZeroLit, HugeLit, FloatLit, StrLit, Quoted}
MCParserTexts == {Keyword, IdText}
MCCppWords    == {new, True, False}
MCQuoted      == {Quoted}

one   == Number(IntLit)
zero  == Number(ZeroLit)
half  == Number(FloatLit)
text  == Text(StrLit)
int(v)   == VarDeclaration("int", v)
float(v) == VarDeclaration("float", v)
str(v)   == VarDeclaration("string", v)
bool(v)  == VarDeclaration("bool", v)
Main(body) == Program(<<>>, <<Class(A, <<>>, <<Method(main, <<>>, body)>>)>>)

Count ==
  <<int(x), int(y), Assign(x, zero), ReadLine(y),
    While(Binary("<", Id(x), Id(y)),
          <<Assign(x, Unary("++", Id(x))), IfElse(Binary("==", Id(x), Id(y)),
              <<WriteLine(text)>>, <<If(Binary(">=", Id(x), one), <<WriteLine(Id(x))>>)>>)>>),
    WriteLine(Id(y))>>

Logic ==
  <<bool(x), bool(y), float(z), ReadCall(x),
    IfElse(Binary("&&", Binary("||", Id(x), Binary("!=", Id(z), half)), Id(y)),
           <<Assign(x, Binary("<=", Id(z), half)), WriteLine(Id(x))>>, <<Assign(z, one)>>),
    If(Id(z), <<WriteLine(Binary("/", Id(z), Binary("-", one, Id(z))))>>)>>

Bodies ==
  {Count, Logic,
   Count \o [i \in 1 .. 9 |-> WriteLine(text)],       \* two quadruples too long
   <<WriteLine(text), While(Id(False), <<WriteLine(text)>>), WriteLine(one)>>,
   <<bool(x), bool(y),
     While(Binary("||", Binary("&&", Id(y), Id(x)), Id(False)), <<WriteLine(text), ReadLine(y)>>)>>,
   <<int(x), Assign(x, Id(y)), WriteLine(Id(x))>>,
   (* refused by g++ *)
   <<int(x), If(Id(x), <<str(y), ReadLine(y)>>)>>,
   <<int(x), While(Id(x), <<int(y), Assign(y, one)>>)>>,
   <<str(new)>>,
   <<str(x), Assign(x, Text(Quoted)), WriteLine(Text(Quoted))>>,
   <<str(x), If(Binary("==", Id(x), Text(Quoted)), <<WriteLine(Id(x))>>)>>,
   <<str(x), Assign(x, text), WriteLine(Binary("<", Id(x), one))>>}

Classes ==
  {<<Class(A, <<float(x), str(z)>>,
       <<Method(main, <<Parameter("float", x), Parameter("string", y), Parameter("int", z),
                      NoParameter>>,
           <<Assign(z, Binary("%", Id(z), Binary("+", one, Id(z)))),
             Assign(x, Binary("*", Id(z), Unary("--", Id(x)))), Assign(x, Id(z)), Assign(y, text),
             WriteLine(Id(y)),
             If(Binary("==", Id(y), text), <<WriteLine(Binary(">", Id(z), zero))>>)>>),
         Method(go, <<>>, <<int(x), Assign(x, Binary("-", one, Id(x)))>>)>>),
     Class(B, <<>>, <<Method(x, <<>>, <<str(z), ReadLine(z)>>)>>)>>,
   (* refused by g++ *)
   <<Class(A, <<>>, <<Method(main, <<>>, <<WriteLine(text)>>)>>),
     Class(B, <<>>, <<Method(main, <<>>, <<WriteLine(one)>>)>>)>>}

(* Every comparison, and the two ways to connect a comparison and a        *)
(* boolean, as the condition of an if-else and of a loop that changes what *)
(* it tests.                                                               *)
Compare(op) == Binary(op, Id(x), Id(y))
Conditions  ==
  {Compare(op) : op \in Relations \cup Equalities} \cup {Id(z)}
    \cup {Binary(op, Compare("<"), Id(z)) : op \in {"&&", "||"}}
    \cup {Binary(op, Id(z), Compare("<")) : op \in {"&&", "||"}}
Tests ==
  {<<float(x), float(y), bool(z), ReadLine(z), IfElse(c, <<WriteLine(Id(x))>>, <<WriteLine(Id(y))>>),
     While(c, <<ReadCall(z)>>)>> : c \in Conditions}

Enumerated(S) == FoldSet(LAMBDA p, sequence : Append(sequence, p), <<>>, S)
Whole      == {Program(<<int(x), str(y)>>, classes) : classes \in Classes}
MCPrograms == Enumerated({Main(body) : body \in Bodies \cup Tests} \cup Whole)
MCWhole    == Enumerated(Whole)
=============================================================================
