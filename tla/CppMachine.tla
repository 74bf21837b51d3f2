------------------------------ MODULE CppMachine ------------------------------
(***************************************************************************)
(* What g++ and the processor make of a generated C++ program: which       *)
(* programs are accepted, and what one does when it runs.  g++ itself is   *)
(* not part of this repository; only the C++ the compiler writes matters   *)
(* here, functions without arguments that consist of declarations,         *)
(* assignments, labels and jumps.                                          *)
(***************************************************************************)
EXTENDS TargetProgram, SymbolicValues

CONSTANTS
  EntryPoint,     (* "main"                                                 *)
  CppWords,       (* identifiers of the source language C++ reserves        *)
  SingleQuoted    (* literals in single quotes: characters in C++           *)

Beginnings(cpp) == {i \in DOMAIN cpp : cpp[i].stmt = "function"}
Ending(cpp, f)  ==
  CHOOSE i \in DOMAIN cpp :
    /\ i > f /\ cpp[i].stmt = "return"
    /\ \A j \in f + 1 .. i - 1 : cpp[j].stmt # "return"
Body(cpp, f)    == f + 1 .. Ending(cpp, f)

Declarations(cpp, f) == {i \in Body(cpp, f) : cpp[i].stmt = "declare"}
Targets(cpp, f, l)   == {i \in Body(cpp, f) : cpp[i].stmt = "label" /\ cpp[i].name = l}
Jumps(cpp, f)        == {i \in Body(cpp, f) : cpp[i].stmt \in {"goto", "branch"}}

VariablesOf(s) ==
  {s.args[i].text : i \in {j \in DOMAIN s.args : s.args[j].kind = "variable"}}
    \cup (IF s.stmt \in {"set", "read"} THEN {s.name} ELSE {})

------------------------------------------------------------------------------
(* What g++ insists on.  A function has its end before another begins. *)
FunctionsEnd(cpp) ==
  \A f \in Beginnings(cpp) : \E i \in DOMAIN cpp :
    /\ i > f /\ cpp[i].stmt = "return"
    /\ \A j \in f + 1 .. i - 1 : cpp[j].stmt \notin {"function", "return"}

FunctionsDistinct(cpp) ==
  \A f, g \in Beginnings(cpp) : cpp[f].name = cpp[g].name => f = g

NoReservedWord(cpp) ==
  \A i \in DOMAIN cpp : cpp[i].stmt \in {"function", "declare"} => cpp[i].name \notin CppWords

AllInFunctions(cpp) ==
  \A i \in DOMAIN cpp \ Beginnings(cpp) : \E f \in Beginnings(cpp) : i \in Body(cpp, f)

DeclaredOnce(cpp, f) ==
  \A i, j \in Declarations(cpp, f) : cpp[i].name = cpp[j].name => i = j

DeclaredBeforeUse(cpp, f) ==
  \A i \in Body(cpp, f) : \A x \in VariablesOf(cpp[i]) :
    \E d \in Declarations(cpp, f) : d < i /\ cpp[d].name = x

LabelsDefined(cpp, f) ==
  \A j \in Jumps(cpp, f) : \E i \in Targets(cpp, f, cpp[j].name) :
    Targets(cpp, f, cpp[j].name) = {i}

(* A jump must not skip the construction of a string. *)
NoJumpIntoScope(cpp, f) ==
  \A j \in Jumps(cpp, f) : \A i \in Targets(cpp, f, cpp[j].name) :
    ~\E d \in Declarations(cpp, f) : j < d /\ d < i /\ cpp[d].word = "string"

TypeOf(cpp, f, arg) ==
  IF arg.kind = "variable" THEN cpp[CHOOSE d \in Declarations(cpp, f) : cpp[d].name = arg.text].word
  ELSE IF arg.kind = "number" THEN IF arg.text = FloatLit THEN "float" ELSE "int"
  ELSE IF arg.text \in SingleQuoted THEN "char" ELSE "string"

Integral   == {"int", "bool", "char"}
Numeric    == Integral \cup {"float"}
Declarable == {"int", "long", "float", "bool", "string"}

StatementTyped(cpp, f, s) ==
  LET types == [i \in DOMAIN s.args |-> TypeOf(cpp, f, s.args[i])]
  IN  CASE s.stmt = "declare" -> s.word \in Declarable
        [] s.stmt = "compare" -> \/ types[1] \in Numeric /\ types[2] \in Numeric
                                 \/ types[1] = "string" /\ types[2] = "string"
        [] s.stmt = "set" /\ s.word = None ->
             LET type == TypeOf(cpp, f, [kind |-> "variable", text |-> s.name])
             IN  \/ type \in Numeric /\ types[1] \in Numeric
                 \/ type = "string" /\ types[1] \in {"string"} \cup Integral
        [] s.stmt = "set" /\ s.word # None ->
             types[1] \in Numeric /\ types[2] \in (IF s.word = "%" THEN Integral ELSE Numeric)
        [] OTHER -> TRUE

WellTyped(cpp, f) == \A i \in Body(cpp, f) : StatementTyped(cpp, f, cpp[i])

Accepted(cpp) ==
  /\ FunctionsEnd(cpp) /\ AllInFunctions(cpp)
  /\ FunctionsDistinct(cpp) /\ NoReservedWord(cpp)
  /\ \A f \in Beginnings(cpp) :
       /\ DeclaredOnce(cpp, f) /\ DeclaredBeforeUse(cpp, f) /\ WellTyped(cpp, f)
       /\ LabelsDefined(cpp, f) /\ NoJumpIntoScope(cpp, f)

Entry(cpp) == {f \in Beginnings(cpp) : cpp[f].name = EntryPoint}
EntryFunction(cpp) == CHOOSE f \in Entry(cpp) : TRUE

------------------------------------------------------------------------------
(* A running program: where it is, its variables, the comparison flags,    *)
(* how many inputs it has taken, and what it was seen to do.               *)
Idle == [pc |-> 0, memory |-> <<>>, flags |-> {}, reads |-> 0, trace |-> <<>>]

Started(cpp) ==
  LET f     == EntryFunction(cpp)
      types == [i \in Declarations(cpp, f) |-> cpp[i].word]
      place == [x \in {cpp[i].name : i \in DOMAIN types} |->
                  CHOOSE i \in DOMAIN types : cpp[i].name = x]
  IN  [Idle EXCEPT !.pc = f + 1,
                   !.memory = [x \in DOMAIN place |-> Uninitialised(types[place[x]], x)]]

ValueOf(m, arg) ==
  IF arg.kind = "variable" THEN m.memory[arg.text]
  ELSE IF arg.kind = "number" THEN Value(IF arg.text = FloatLit THEN "float" ELSE "int", arg.text)
  ELSE IF arg.text \in SingleQuoted THEN Value("int", <<"char", arg.text>>)
  ELSE Value("string", arg.text)

(* The flags a comparison leaves set, each for the jump that tests it. *)
FlagsAfter(relation) ==
  {"JAE", "JA", "JBE", "JB", "JNE", "JE"}
    \ ((IF Holds("<",  relation) THEN {"JAE"} ELSE {}) \cup
       (IF Holds("<=", relation) THEN {"JA"}  ELSE {}) \cup
       (IF Holds(">",  relation) THEN {"JBE"} ELSE {}) \cup
       (IF Holds(">=", relation) THEN {"JB"}  ELSE {}) \cup
       (IF Holds("==", relation) THEN {"JNE"} ELSE {}) \cup
       (IF Holds("!=", relation) THEN {"JE"}  ELSE {}))

See(m, e)     == [m EXCEPT !.trace = Append(@, e)]
Advance(m)    == [m EXCEPT !.pc = @ + 1]
GoTo(cpp, m, l) ==
  [m EXCEPT !.pc = CHOOSE i \in Targets(cpp, EntryFunction(cpp), l) : TRUE]

(* The compiler's own temporaries are not part of what is seen. *)
Stored(m, x, v, what) ==
  LET m1 == [m EXCEPT !.memory[x] = v]
  IN  IF x \in FreeStoreNames THEN m1 ELSE See(m1, what)

(* Whether a statement may do something that is seen. *)
Seen(s) == s.stmt \in {"print", "read", "compare"} \/ (s.stmt = "set" /\ s.name \notin FreeStoreNames)

AnswersTo(cpp, m) ==
  LET s == cpp[m.pc]
  IN  IF s.stmt = "compare" /\ IsAsked(ValueOf(m, s.args[1]), ValueOf(m, s.args[2]))
        THEN Answers(ValueOf(m, s.args[1]), ValueOf(m, s.args[2])) ELSE {"none"}

(* One statement; answer is what a comparison is answered. *)
Obeyed(cpp, m, answer) ==
  LET s == cpp[m.pc]
      n == Advance(m)
      v == [i \in DOMAIN s.args |-> ValueOf(m, s.args[i])]
  IN  CASE s.stmt = "declare" -> [n EXCEPT !.memory[s.name] = Uninitialised(s.word, s.name)]
        [] s.stmt = "set" ->
             LET result == Converted(m.memory[s.name].type,
                             IF s.word = None THEN v[1] ELSE Arithmetic(s.word, v[1], v[2]))
             IN  Stored(n, s.name, result, WasSet(s.name, result))
        [] s.stmt = "compare" ->
             LET after == [n EXCEPT !.flags = FlagsAfter(Relation(v[1], v[2], answer))]
             IN  IF answer = "none" THEN after ELSE See(after, WasAsked(v[1], v[2], answer))
        [] s.stmt = "branch" -> IF s.word \in m.flags THEN GoTo(cpp, m, s.name) ELSE n
        [] s.stmt = "goto"   -> GoTo(cpp, m, s.name)
        [] s.stmt = "label"  -> n
        [] s.stmt = "print"  -> See(n, Printed(v[1]))
        [] s.stmt = "read"   ->
             [Stored(n, s.name, Input(m.memory[s.name].type, m.reads), WasRead(s.name))
                EXCEPT !.reads = @ + 1]
==============================================================================
