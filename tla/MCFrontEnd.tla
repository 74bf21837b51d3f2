----------------------------- MODULE MCFrontEnd -----------------------------
(***************************************************************************)
(* Programs that between them use every rule of the grammar and make every *)
(* kind of mistake, alone and behind others that are correct.              *)
(***************************************************************************)
EXTENDS Translation

CONSTANTS A, B, go, x, y, z, IdText

Names0 == {A, B, go, x, y, z, IdText, True, False, OrText}
MCLexemes     == Names0 \cup {Keyword, IntLit, ZeroLit, HugeLit, FloatLit, StrLit}
MCParserTexts == {Keyword, IdText}

one   == Number(IntLit)
zero  == Number(ZeroLit)
huge  == Number(HugeLit)
half  == Number(FloatLit)
text  == Text(StrLit)
int(v)   == VarDeclaration("int", v)
float(v) == VarDeclaration("float", v)
str(v)   == VarDeclaration("string", v)
bool(v)  == VarDeclaration("bool", v)
Main(body) == Program(<<>>, <<Class(A, <<>>, <<Method(go, <<>>, body)>>)>>)

Whole ==
  Program(<<int(x), str(y)>>,
    <<Class(A, <<float(x)>>,
        <<Method(go, <<Parameter("int", x), Parameter("float", y), Parameter("bool", z)>>,
            <<Assign(y, Binary("+", Id(x), Binary("*", Id(y), Unary("++", Id(x))))),
              IfElse(Binary("&&", Binary("<", Id(x), one), Id(z)),
                     <<WriteLine(Binary("-", Id(x), one)), ReadLine(x)>>,
                     <<ReadCall(y)>>)>>)>>),
      Class(B, <<>>,
        <<Method(x, <<Parameter("string", z)>>, <<WriteLine(Id(z))>>),
          Method(go, <<>>,
            <<int(z), bool(y), Assign(y, Binary(">=", Id(z), Binary("/", one, one))),
              While(Binary("||", Id(y), Binary("==", Id(z), one)),
                    <<If(Binary("!=", Id(z), Binary("%", Id(z), one)),
                         <<Assign(z, Unary("--", Id(z)))>>)>>)>>)>>)>>)

(* The bodies of a method, each with what is wrong with it. *)
Bodies ==
  <<(* names *)
    <<int(x), int(x), Assign(x, one)>>,
    <<int(x), Assign(y, Id(x))>>,
    <<int(x), Assign(x, Id(y))>>,
    <<ReadLine(x), int(x)>>,
    <<int(IdText)>>,
    <<int(x), Assign(x, Id(IdText))>>,
    <<bool(x), While(Binary("||", Id(x), Id(x)), <<int(IdText)>>)>>,
    <<bool(True), Assign(True, Id(False)), WriteLine(Id(True))>>,
    <<NestedClass(Class(B, <<>>, <<Method(go, <<>>, <<WriteLine(one)>>)>>)), WriteLine(one)>>,
    <<int(x), NestedClass(Class(B, <<int(x)>>, <<>>)), Assign(x, one)>>,
    (* types *)
    <<int(x), Assign(x, half)>>,
    <<float(x), Assign(x, Binary("/", Id(x), zero))>>,
    <<float(x), Assign(x, Binary("/", Id(x), half))>>,
    <<int(x), WriteLine(Binary("/", Id(x), huge))>>,
    <<str(x), WriteLine(Binary("+", Id(x), one)), Assign(x, text)>>,
    <<str(x), While(Id(x), <<Assign(x, text)>>)>>,
    <<str(x), If(Binary("<", Id(x), one), <<Assign(x, text)>>)>>,
    <<int(x), While(one, <<Assign(x, text), Assign(x, one)>>), WriteLine(Id(x))>>>>

(* Declarations and classes. *)
Outlines ==
  <<[decls |-> <<>>, classes |-> <<Class(A, <<int(x), int(y)>>, <<>>)>>],
    [decls |-> <<int(x), float(x)>>, classes |-> <<Class(A, <<int(y)>>, <<>>)>>],
    [decls |-> <<int(A)>>, classes |-> <<Class(A, <<int(y)>>, <<>>)>>],
    [decls |-> <<int(x), int(y)>>, classes |-> <<Class(A, <<int(y)>>, <<>>)>>],
    [decls |-> <<>>, classes |-> <<Class(A, <<int(x)>>, <<Method(go, <<>>, <<ReadLine(x)>>)>>)>>],
    [decls |-> <<>>, classes |-> <<Class(A, <<>>, <<Method(go, <<>>, <<int(x), ReadLine(x)>>),
                                                    Method(go, <<>>, <<int(x), ReadLine(x)>>)>>)>>],
    [decls |-> <<>>, classes |-> <<Class(A, <<>>,
                       <<Method(go, <<Parameter("int", x), Parameter("int", x)>>,
                                <<ReadLine(x)>>)>>)>>],
    [decls |-> <<>>, classes |-> <<Class(A, <<>>,
                       <<Method(go, <<Parameter("int", x), NoParameter>>, <<ReadLine(x)>>),
                         Method(x, <<Parameter("int", y), Parameter("int", x), NoParameter>>,
                                <<ReadLine(y)>>)>>)>>]>>

(* Statements that fill the table with temporaries, but for two symbols    *)
(* when they stand in the only method; while the statements after them are *)
(* built, the stack of nodes has room for six.                             *)
Sums(n) == [i \in 1 .. n |-> WriteLine(Binary("+", one, one))]
Crowd   == [i \in 1 .. 3 |-> If(Id(True), Sums(6))] \o <<If(Id(True), Sums(5))>>
CrowdedClass == Class(z, <<>>, <<Method(go, <<>>, Crowd)>>)

(* Fifteen ||, none of which is ever taken from the stack of tokens, alone *)
(* and with an assignment that has no room left there.                     *)
Alternatives ==
  LET either == Binary("||", Id(z), Id(z))
  IN  <<bool(z)>> \o [i \in 1 .. 3 |-> If(either, [j \in 1 .. 4 |-> If(either, <<ReadLine(z)>>)])]
OneMoreToken == Alternatives \o <<Assign(z, Id(z))>>

(* What stands behind the crowd and overflows with it. *)
TwoSums         == <<int(x), WriteLine(Binary("+", Id(x), Unary("++", Id(x))))>>
CrowdedBodies   == {Crowd \o Bodies[i] : i \in {1, 7, 9, 10, 18}} \cup {Crowd \o TwoSums}
CrowdedOutlines ==
  {[decls |-> <<>>, classes |-> <<CrowdedClass>> \o Outlines[i].classes] : i \in {1, 5, 7}}

Enumerated(S) == FoldSet(LAMBDA p, sequence : Append(sequence, p), <<>>, S)

MCPrograms ==
  LET bodies   == Range(Bodies) \cup CrowdedBodies \cup {Alternatives, OneMoreToken}
      mains    == {Main(body) : body \in bodies}
      programs == {Program(o.decls, o.classes) : o \in Range(Outlines) \cup CrowdedOutlines}
  IN  Enumerated({Whole} \cup mains \cup programs)
=============================================================================
