---------------------------- MODULE MCExpressions ----------------------------
(***************************************************************************)
(* Every operator over every pair of operands -- variables and literals of *)
(* each type, a remainder, a sum, a wrongly typed sum, a comparison and an *)
(* increment -- assigned to variables, printed, or used as a condition.    *)
(***************************************************************************)
EXTENDS Translation

CONSTANTS A, go, iv, fv, sv, bv

MCLexemes     == {A, go, iv, fv, sv, bv, True, False, OrText, Keyword,
                  IntLit, ZeroLit, HugeLit, FloatLit, StrLit}
MCParserTexts == {Keyword}

Operands ==
  <<Id(iv), Id(fv), Id(sv), Id(bv), Number(IntLit), Number(ZeroLit), Number(FloatLit), Text(StrLit),
    Binary("%", Id(iv), Number(IntLit)), Binary("+", Id(iv), Id(fv)), Binary("+", Id(sv), Id(iv)),
    Binary("<", Id(iv), Id(fv)), Unary("++", Id(iv))>>

(* <Logic-Exp> is a condition only. *)
Uses ==
  <<<<"+", "assign">>, <<"/", "assign">>, <<"%", "assign">>, <<"/", "print">>,
    <<"<", "assign">>, <<"==", "assign">>, <<"<", "condition">>, <<"==", "condition">>,
    <<"&&", "condition">>>>
Use(how, e) ==
  CASE how = "condition" -> While(e, <<ReadLine(sv)>>)
    [] how = "print"     -> WriteLine(e)
    [] how = "assign"    -> Assign(IF e.level = 5 THEN bv ELSE fv, e)

Main(statement) ==
  Program(<<>>, <<Class(A, <<>>, <<Method(go,
    <<Parameter("int", iv), Parameter("float", fv), Parameter("string", sv), Parameter("bool", bv)>>,
    <<statement>>)>>)>>)

(* Program k pairs a use with a left and a right operand. *)
n == Len(Operands)
MCPrograms ==
  [k \in 1 .. Len(Uses) * n * n |->
     LET use   == Uses[1 + ((k - 1) \div (n * n))]
         left  == Operands[1 + (((k - 1) \div n) % n)]
         right == Operands[1 + ((k - 1) % n)]
     IN  Main(Use(use[2], Binary(use[1], left, right)))]
=============================================================================
