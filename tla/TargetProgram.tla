---------------------------- MODULE TargetProgram ----------------------------
(***************************************************************************)
(* The C++ program written from the three-address code                     *)
(* (src/src/yipada/Target_Program.java): a sequence of statements, each a  *)
(* record of                                                               *)
(*                                                                         *)
(*   stmt   what it is                                                     *)
(*   name   the function, the variable or the label it is about            *)
(*   word   the type declared, the arithmetic operator or the flag tested  *)
(*   args   its operands, names of variables and literals                  *)
(***************************************************************************)
EXTENDS ThreeAddressCode

Statement(stmt, name, word, args) ==
  [stmt |-> stmt, name |-> name, word |-> word, args |-> args]

(* What an operand looks like in C++: a name, or the text it has. *)
NameOf(t, o) == t.symbols[o.id].symbol
symbolMatching3AddressOperand(t, o) ==
  IF o.type \in {"Identifier", "FormalParameter", "BinaryOperator"}
    THEN [kind |-> "variable", text |-> NameOf(t, o)]
    ELSE [kind |-> IF o.type = "StringLiteral" THEN "string" ELSE "number", text |-> o.id]

DeclareSymbol(symbol) == Statement("declare", symbol.symbol, symbol.datatype, <<>>)

TemporaryInScope(symbol, class, method) ==
  symbol.kind = "FreeStore" /\ InScope(symbol, class, method)

(* The temporaries of a method are declared where it begins, in the order  *)
(* of the symbol table.                                                    *)
addCode_4_temporaries(t, class, method) ==
  LET here   == {i \in DOMAIN t.symbols : TemporaryInScope(t.symbols[i], class, method)}
      Nth(k) == CHOOSE i \in here : Cardinality({j \in here : j <= i}) = k
  IN  [k \in 1 .. Cardinality(here) |-> DeclareSymbol(t.symbols[Nth(k)])]

Arithmetic3 == Additive \cup {"%"}
Branches    == {"JE", "JNE", "JA", "JB", "JAE", "JBE"}

(* One quadruple in C++; sActiveClassName and the text are in w.           *)
add_a_C_Code2File(t, w, q) ==
  LET Line(stmts) == [w EXCEPT !.text = @ \o stmts]
      Side(o)     == symbolMatching3AddressOperand(t, o)
  IN  CASE q.op = "CLASS_DEF_BEGIN" -> [w EXCEPT !.activeClass = NameOf(t, q.arg2)]
        [] q.op = "CLASS_DEF_END"   -> [w EXCEPT !.activeClass = NoName]
        [] q.op = "METHOD_DEF_BEGIN" ->
             Line(<<Statement("function", NameOf(t, q.arg2), "int", <<>>)>>
                    \o addCode_4_temporaries(t, w.activeClass, NameOf(t, q.arg2)))
        [] q.op = "METHOD_DEF_END"  -> Line(<<Statement("return", NameOf(t, q.arg2), None, <<>>)>>)
        [] q.op = "METHOD_FORMAL_PARAM" -> Line(<<DeclareSymbol(t.symbols[q.arg1.id])>>)
        [] q.op = "VAR_DECLARATION" ->
             IF t.symbols[q.arg1.id].method_block = NoName THEN w
             ELSE Line(<<DeclareSymbol(t.symbols[q.arg1.id])>>)
        [] q.op \in Arithmetic3 ->
             Line(<<Statement("set", t.symbols[q.sym].symbol, q.op, <<Side(q.arg1), Side(q.arg2)>>)>>)
        [] q.op \in {"ASSIGN", "MOV"} ->
             Line(<<Statement("set", NameOf(t, q.arg1), None, <<Side(q.arg2)>>)>>)
        [] q.op = "JMP"          -> Line(<<Statement("goto", q.arg1.id, None, <<>>)>>)
        [] q.op = "LABEL"        -> Line(<<Statement("label", q.arg1.id, None, <<>>)>>)
        [] q.op = "CMP"          -> Line(<<Statement("compare", 0, None, <<Side(q.arg1), Side(q.arg2)>>)>>)
        [] q.op \in Branches     -> Line(<<Statement("branch", q.arg1.id, q.op, <<>>)>>)
        [] q.op = "PRINTCONSOLE" -> Line(<<Statement("print", 0, None, <<Side(q.arg1)>>)>>)
        [] q.op = "READCONSOLE"  -> Line(<<Statement("read", NameOf(t, q.arg1), None, <<>>)>>)

(* The file after each of the quadruples. *)
Written(t, code) ==
  LET written[i \in 0 .. Len(code)] ==
        IF i = 0 THEN [text |-> <<>>, activeClass |-> NoName]
        ELSE add_a_C_Code2File(t, written[i - 1], code[i])
  IN  written

add_C_Codes2File(t, code) == Written(t, code)[Len(code)].text
==============================================================================
