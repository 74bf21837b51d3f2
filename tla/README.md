# TLA+ models of Yipada

Yipada is a small IDE written in Java with a compiler for a subset of C#. It
parses a program with an LALR engine driven by a compiled grammar, builds a
symbol table and a syntax tree, generates three-address code, writes that as
C++, and has g++ build an executable which the IDE runs with its input and
output connected to the window. The repository has no tests and says little in
prose; everything below is read from the code.

Paths are relative to the root of the repository, so the compiler is
`src/src/yipada/` and the grammar `src/compiledGrammar/csharp.grm`.

## 1. Inventory

| Part | State it keeps | Operations | What is hard about it |
|---|---|---|---|
| Compiler driver, `compiler.java`, `Stack_of_Tokens.java` | token stack, token read ahead, type read last, static `iCompiler_ParsingOK` | `Compile` with one handler per grammar rule | reductions arrive one token late; handlers fail in five different ways; a static flag outlives the object |
| Symbol table, `SymbolTable.java`, `Symbol.java` | array of 10000 symbols, last index, active class and method, counter of temporaries | `addSymbol`, `existInTable`, `getFreeStore`, `setActive*` | the index moves before the slot is written; scope switches around refused names |
| Syntax tree, `AstTree.java`, `Stack_of_AST_Nodes.java`, `Node.java` | stack of nodes, error flag | `addleaf`, `addOperatorNode` | operators pop whatever is there; errors do or do not reach the flag |
| Type checker, `TypeChecker.java` | none | one method per rule | which answers report, and which are kept |
| Three-address code, `Three_Address_Program.java`, `Quadruple.java`, `ThreeAddressOperand.java` | array of 50000 quadruples, label counter | `GenerateCode`, `code_gen` | labels and jumps of nested conditions |
| C++ writer, `Target_Program.java` | the generated text | `GenerateCode`, `createAnOutputFile` | one file name for every compilation |
| IDE window, `MainWindow.java`, `Linker.java`, `Processor.java` | `oLinker`, enabled state of the Run item | Compile, Run, Enter key | nothing waits for the threads it starts |
| Command threads, `CommandProcessor.java`, `UserInputProcessor.java` | one static `out` for the input of all processes | `run`, `sendUserInput2StandardInput` | several threads share `out`; two pipes are read one after the other |
| Output window, `InputOutput.java` | the text | `output`, `appendOutPutWindow` | read, then write back, from several threads without a lock |
| Parser engine, `src/src/goldengine/java/` | LALR stack, look-ahead | `parse` | third party |
| Grammar | one production per rule handler | - | the order in which reductions come |
| `Interpreter`, `Assembler`, `Assembly_Program`, `ReaderThread`, `StackOfNodes` | - | - | unreachable |
| `Debug`, `Main`, `IDE`, `testGold` | - | - | logging, entry point, experiments |

How they interact. The event thread calls `Compile`, which loops over what the
engine reports: a token read, a reduction, acceptance or an error. A handler
pops texts off the token stack, asks the symbol table, and gives the tree a
leaf or an operator; the tree asks the type checker, and the symbol table again
for a temporary to hold the result. If the loop ends with the parsing flag set
and no error in the tree, code is generated, the C++ file is written and
`Linker` starts g++ in a thread of its own. `Run` starts the executable in
another. Each thread sets `UserInputProcessor.out` to the input of its process,
reads its output to the end, then its errors, waits for it, and sets `out` to
null. All of them append to the output window, as does the event thread.

What makes each part correct, in a sentence each:

- *Driver*: each handler takes the lexemes of its own rule; the verdict on a
  program is that of the language's rules; whoever is refused is told why.
- *Symbol table*: names are unique in their scope, temporaries never clash with
  anything, scopes exist, indices stay valid.
- *Tree*: an accepted program's tree is the program's, each name resolved in its
  own scope; only a program that is too deep is refused for its depth.
- *Code generator and C++ writer*: the generated program does what the source
  program means, g++ accepts it, and the C++ file only ever holds whole programs.
- *Session*: a run uses the program compiled last; input reaches its process;
  one run per link.
- *Command thread*: when it says that the command has completed, the process has
  ended and all its output was shown, in order; the process keeps the input until
  then, or until the window shows an error.
- *Window*: nothing shown is lost, doubled or reordered.

The hazards behind these, each with the line where it bites and the properties
that cover it, are listed in `PROJECT.json`.

## 2. Modules

```
TypeChecker        extends     SymbolTable, CSharpGrammar
AstTree            extends     TypeChecker
SourceRules        extends     CSharpGrammar
FrontEnd           extends     AstTree
Translation        extends     FrontEnd, SourceRules
ThreeAddressCode   extends     TypeChecker
TargetProgram      extends     ThreeAddressCode
SymbolicValues     extends     CSharpGrammar
CppMachine         extends     TargetProgram, SymbolicValues
SourceMeaning      extends     SourceRules, SymbolicValues
BackEnd            extends     FrontEnd, CppMachine
Compilation        extends     BackEnd, Translation, SourceMeaning
Scoping            extends     SymbolTable

FrontEnd           implements  Scoping
CommandProcessor   implements  CommandLifecycle

SymbolTableProofs  extends     SymbolTable
ScopingProofs      extends     Scoping, SymbolTableProofs
AstTreeProofs      extends     AstTree, SymbolTableProofs
FrontEndProofs     extends     FrontEnd, AstTreeProofs
BackEndProofs      extends     BackEnd, FrontEndProofs
```

`CommandLifecycle`, `CommandProcessor`, `IdeSession` and `OutputWindow` extend
modules of the library only, and their `XProofs` extends `X`. `MCX` extends `X`;
`MCFrontEnd` and `MCExpressions` extend `Translation`, `MCBackEnd` extends
`Compilation`.

**SymbolTable** is the table as a record and its methods as operators from table
to table. `symbols` is the filled part of the array, index i of the code being
position i + 1; `overflowed` says that the last index points outside the array,
which happens because `iLastIndex` moves before the slot is written. From then
on a scan that does not find its name throws (`LookupThrows`).
`bIsAClass`, `bIsAMethod` and `bIsAFreeStoreSymbol` are the field `kind`.

**Scoping** is the abstract specification: what the table promises the rest of
the compiler. Its actions are the five ways a compilation changes the table, in
any order: `NewCompilation`, `DefineClass`, `DefineMethod`, `Declare`,
`NewTemporary`. No grammar constrains the order, so what it promises holds also
after syntax errors, refused names and overflows. A name may be accepted and its
scope not entered: so it is when the stack of nodes has no room for its leaf.

**TypeChecker** has an operator for each of the checker's rules: the type it
answers, and whether the user is told of a mistake. **AstTree** has the node
stack and error flag as a record, and `addleaf` and `addOperatorNode`
as operators from (tree, table) to (tree, table, told). A node carries the name of
its operator, its type, the symbol it refers to and its children. `broken` says
that a push has gone past the stack's capacity, which throws.

**CSharpGrammar** is external: what the engine reports of a program, as the
sequence of tokens read and reductions made, the reduction always one token
later than its last token, with the text each reduction is about. A program is a
phrase that carries both the events and the tree it means, built by one operator
per production (`Class`, `Method`, `Assign`, `Binary`, ...). Its last section says
what all derivations of the grammar have in common, of whatever program:
a rule that names a lexeme finds it as brackets find their partners
(`WellNested`), a type comes before the names declared with it, a class before
its statements (`Precedes`).

**SourceRules** is the reference definition: the mistakes a program has by the
rules of the language, computed from its tree without stacks, tables or
temporaries. Nothing in it is translated from the compiler.

**FrontEnd** is the compiler up to the decision to generate code: one action for
`StartCompile`, one for `TokenRead`, one for every rule handler of
`compiler.java` (under the handler's name), `ParserRejects`, `Accept`, `Decide`.
The seventeen handlers that only ask the tree for a node (`BuildingRule`) say
which operator they ask for, and `Build` asks for it. `events` is what the engine
has still to report of the program, and `accepted` a history variable: the loop
ended because the program did.
A handler that returns false sets `done`, which is `phase = "stopped"`; a handler
whose result is ignored goes on without its node. `parsingOK` is the static flag:
`StartCompile` leaves it alone because a new compiler object does. The programs
are a constant; `FrontEndAssumption` asks that each is a `Derivation`.
A class among the statements is built by the handler the code picks for it, the
one of `if`. `outcome =
"translated"` means that `Compile` reaches code generation, `"crashed"` that an
exception leaves `Compile`.

**Translation** compares what the front end arrives at with the program: its tree
(`TreeIsProgram`), where its names were found (`ResolvedInScope`), the verdict and
the messages (`VerdictIsRight`, `RejectionExplained`), and how deep a refused
program is (`StacksLimitDepth`). It has the recursive definitions over trees these
need, and no state of its own.

**ThreeAddressCode** is `code_gen` with its branches, as an operator from a tree
and a generation in progress (the quadruples, the static counter of labels, the
operand of the last result) to the next. Nesting, and the order in which labels
are taken and code is added, are the code's. `code_gen` calls itself for the
operands of a node; here each handler calls the constant `Generated`, and `MCBackEnd`
gives it `code_gen` as its value. So the recursion of the code is closed outside
the module, and what the handlers do can be reasoned about without a RECURSIVE
operator. **TargetProgram** is
`add_C_Codes2File`: from the quadruples and the symbol table to a sequence of
C++ statements; the fixed header, comments and layout are left out.

**SymbolicValues** has the values of running programs as terms: arithmetic is
not computed, an uninitialised variable and each input are terms of their own, and
a comparison of two terms may answer anything its operands allow, a float also
"unordered". **CppMachine** (external) is what g++ and the processor make of the
C++: `Accepted` says when g++ takes it, `Started` and `Obeyed` run `main`.
**SourceMeaning** is the reference: what a method means, evaluated over its tree
without labels, jumps or temporaries. It is not translated from the compiler.

**BackEnd** puts these behind the front end: `DecideAndGenerate` is the end of
`Compile` with code generation, `RunProgram`, `Obey` and `Return` execute the
generated program. A run records in `trace` what it did (set, read, print) and
the answers its comparisons got. Its properties are about the file and the machine
alone: `BackTypeOK`, and `JumpsLand`, that each jump of the file has one label and
only one to go to. **Compilation** has the properties that compare file and run with
the source: `MeaningPreserved` follows the source program along the answers of the
trace and compares; `CppAccepted` says what g++ refuses, `OnlyWholeFiles` what
may replace a file, `Progress` that a run goes on.

**IdeSession** is the event thread with the threads and processes it starts. A
source text is its number among the texts the user has compiled (`version` is
the last, `text` what the source file holds, `compiled` the last one accepted);
the C++ file and the executable hold such a number or, while the file is being
written, `Partial`. `Compile` is the handler's beginning, which saves the text;
`CompileFails`, `BeginSave`, `EndSave`, `SaveFails`, `Link` are its end; `Run` is
the Run item; `Enter` and `Send` are the two halves of
`sendUserInput2StandardInput` (the test of `out`, and its use); `Exec`,
`Attach`, `WaitFor`, `CompleteThrows`, `Throws` and `Recover` are
`CommandProcessor.run` as far as it touches what threads share; `GccReads`,
`GccWrites`, `ChildExits` are processes. An exception in the thread of a command
(`Throws`) may leave its process running: `Recover` is the handler's `out = null`, and
a thread whose message throws as well is `dead` and leaves `out` alone. Such a process
counts as alive. Either file may fail to be written, which the code ignores: it
keeps its text or is cut short, a source file cut short being one that does not
parse (`text = 0`). `unsaved` is the history variable of the texts this happened to.

**CommandLifecycle** is the abstract specification of a command, as the user sees
it: what has become of the process (`child`), where its input leads (`input`), and
the last word in the window (`verdict`), with the order in which these may change.
It knows no streams, pipes or places in the code. `CommandProcessor` implements it
(`ImplementsLifecycle`).

**CommandProcessor** is one run of `CommandProcessor.run` line by line against a
process that follows a script of writes and reads, with pipes of `PipeSize`
lines. The process blocks on a full pipe; the thread blocks on an empty one. A
process may close a stream it has nothing more to write to (`Close`), so that
the end of both streams is not the end of the process, which is what `waitFor` is for.
`Throws` is an exception anywhere after line 22, at any moment in the life of the
process; the handler shows the error and then, in `Recover`, sets `out` to null.
It may throw itself: the thread is then `dead`.

**OutputWindow** is `InputOutput`: `Read` and `Set` are the halves of
`appendOutPutWindow`, `Replace` is `output`.

The MC modules only give values to constants. The modules of proofs are
described in section 5.

## 3. Runs

| Run | Asks | Answer |
|---|---|---|
| `scoping` | every order of definitions, declarations and temporaries, past the end of the array | the table stays well formed, names unique, temporaries distinct, scopes declared, symbols stable |
| `front_end` | two compilations after one another of 38 programs, each cut off anywhere by a parse error | token stack aligned with reductions; the tree is the program's; names resolve in their scope; the verdict is that of `SourceRules`; refusals are explained; an overflow is never translated unless the flag of finding 1 is stale, and nothing else throws; only a program too deep breaks a stack; every step is a step of `Scoping` |
| `expressions` | 1521 programs: every kind of operator over every pair of operands (variables and literals of every type, zero, a fraction, nested expressions), assigned, printed or a condition | tree, verdict and explanation as above |
| `stale_flag` | is only what was parsed to its end translated? | **no**, see finding 1 |
| `comparison` | is a program with a reported type error never translated? | **no**, see finding 2 |
| `nested` | is a class among the statements accepted? | **no**, see finding 5 |
| `back_end` | 25 programs, two compilations, each generated program run under every answer of its comparisons | each jump has one label to go to; it does what the source means; it goes on doing things until it ends; g++ accepts it except for four named reasons; the C++ file is replaced by whole programs only |
| `links` | is what `Compile` calls a success C++ that g++ accepts? | **no**, see finding 4 |
| `ide_session` | two compilations that succeed or fail, with files written or not, up to two links, two runs, a line of input and an exception in a command's thread, all interleavings | one run per link; no command that came to its end leaves its input in `out`; a command alone keeps its input; a user who waits runs what was compiled last |
| `run_enabled` | is the Run item enabled only after a successful link? | **no**, see finding 3 |
| `command` | every process of up to five reads and writes, which may close its streams early; an exception anywhere in its thread | "Completed!!!" only after all output in order; input connected until an error was shown; stuck only when the pipe of errors fills; otherwise comes to its end; implements `CommandLifecycle` |
| `output_window` | three threads, three messages each | the window never doubles or reorders; nothing is lost unless two updates overlap |

### Bounds, and why they are enough

- `scoping`: three names of which one is a grammar symbol; four slots hold a
  class, a method, a declaration and one more, so every kind of symbol can be the
  one that overflows; two temporaries can clash. `TemporaryNumbers` bounds the
  counter to three; for `FrontEnd` it is `Nat`. The theorems do without any of
  these bounds.
- `front_end`: `Whole` uses every production that is modelled, two classes, a
  name in four scopes, and nested conditions, and with its 27 symbols and 16 nodes
  at once fills the table and the stack of nodes to the last. The other programs
  make every kind of mistake `SourceRules` knows, at the start of a program and
  behind correct code. Nine of them stand behind a crowd of statements that
  leaves two slots of the table and little of the stack: the name of a method, a
  declaration, a parameter or a temporary then overflows the table, or a nested
  class the stack of nodes, and some of the nine just fit. Fifteen `||` fill the
  stack of tokens but for one place, which an assignment then needs two of. Two
  compilations are what the static flag needs to go stale, and a third one would
  see nothing but a flag that is already true. `stale_flag`, `comparison` and
  `nested` compile the same programs with room for all of them.
- `expressions`: operands are chosen so that each class of types the checker
  distinguishes occurs on both sides, with literals apart from variables because
  division looks at them.
- `back_end`: the programs use every kind of quadruple, with loops, conditionals
  and logic in each other, parameters, class and program variables, several
  methods and classes; each of the six comparisons, and a comparison connected
  with a boolean in either order by either connective, is the test of an if-else
  and of a loop; then each way in which g++ refuses a program, and two programs
  with mistakes. Two compilations carry the static counter of labels and the C++
  file from one to the next. `MaxHappenings` bounds what one run does to seven
  things, an answered comparison being one: once round the longest loop and through
  its test again, twice round the loop of a single comparison. `MaxSizeOfProgram` is the
  length of the longest program that is to be run, and one program is two
  quadruples longer, so that the end of its method is cut off. `links` takes the
  programs with two classes alone.
- `ide_session`: two compilations give two links and two runs, alive at the same
  time in every combination; a third would repeat the same races, and the
  theorems cover any number for all the properties. One line of input is enough
  since lines are independent; only a line that reaches a process is counted.
  `MaxThrows` is one exception, in any of the four commands at any moment: the
  other three then meet a thread that is over before its process. There are 3.8
  million states. `run_enabled` needs the same.
- `command`: two lines fill a pipe and five steps go beyond it on either
  stream, with input in between.
- `output_window`: three writers let one change the text under another that
  changes it under a third. `MaxMessages` bounds the messages of each.

Deadlock is not looked for where the bounds, or the program, let everything
stop: a compilation is over, all commands are done, a process waits for a user.
The one deadlock the code has is stated as `Stuck`, and `StuckOnlyOnErrors` says
which processes it can happen to.

### Fairness

Two liveness properties rest on fairness.

- `Completes` (`CommandProcessor`): the thread is a Java thread and its process
  one of the operating system's, each scheduled whenever it can go on: weak
  fairness of `Thread` and `Process`. That the user goes on entering lines is no
  property of the code; `WF(Enter)` is an assumption on the user, without which a
  process that asks for input may wait forever, as it should. Nothing is assumed of
  exceptions (`Throws`) or of the closing of streams before the end: they may come,
  and need not.
- `Progress` (`BackEnd`, under `LiveSpec`): the generated program is a process
  that is scheduled, and a statement that reads gets its input. Nothing is assumed
  of how its comparisons come out.

### Properties that are weaker than one might wish, on purpose

- `LoneCommandHasInput` speaks of a command that was never alive together with
  another. With another, whichever ends first sets `out` to null, and the input
  is lost: that is the hazard at `CommandProcessor.java:46`, and `overlapped`
  is the history variable that delimits it. A process that an exception has
  left without its thread is another command that is alive; it may be so for ever, since
  nobody reads its pipes. The property claims nothing for that process itself.
- `OutAlive` lets `out` be the input of a command whose thread died of an exception it
  could not report, since nothing sets it to null then, and `InputWhileRunning` allows
  the error message as the one reason for which a running process is without input.
- `Completes` counts a thread that an exception has ended as one that has come to
  its end, whatever becomes of its process.
- `SerialRunsCurrent` likewise speaks of a user who waits for each command to
  end, and `NothingLost` of updates that do not overlap.
- `SerialRunsCurrent` also excepts a text of which a file was not written: the
  code then compiles or links an earlier text, and says nothing.
- `VerdictIsRight` and `RejectionExplained` leave out compilations in which the
  symbol table or the stack of nodes overflowed; `OverflowNeverTranslated` and
  `StacksLimitDepth` are about those.
- `MeaningPreserved` excepts programs with a literal in single quotes: it is
  copied into the C++ as it stands and is a character constant there, printed as a
  number. `CppAccepted` names the four reasons for which g++ refuses a program
  without mistakes: methods of one name (finding 4), a string declared in a block
  that is jumped over, a name that is a word of C++, and such a literal compared
  with a string. With none of them a program is accepted, with one it is not.
- `MeaningPreserved` compares what is assigned, read and printed as terms. That
  C++ computes a term as C# would (integer division, overflow, literals with
  leading zeros, doubles for floats) is not modelled.
- `VerdictIsRight`, `TreeIsProgram` and `TokenAligned` leave out programs with an
  identifier spelled like a terminal of the grammar (`Id`, `NumberLiteral`,
  `StringLiteral`): `Compile` takes such a token for a keyword and drops its
  text. `Plain` names that exception. The runs do contain such programs, for the
  other properties.
- `RejectionExplained` excepts the two rejections that leave the window silent: a
  method name used twice, which is only written to standard output, and a
  literal divisor for which `Integer.parseInt` throws.
- An expression with `||` leaves the text of an operator on the token stack,
  since no terminal of the grammar has that text; it is never popped by a later
  rule, which `TokenAligned` shows.

## 4. Findings

1. **A stale parsing flag** (run `stale_flag`). `iCompiler_ParsingOK` is static
   and never reset. After one accepted program, a program whose handler stops the
   loop at an undeclared name passes the test of the flag, and if the tree built
   so far carries no error, code is generated for it. The comment at
   `compiler.java:1014` says "parsing ok and no error building the tree".
2. **Wrongly typed comparisons are translated** (run `comparison`). The type
   checker reports them, but the node of a comparison is given the type bool
   whatever the checker answers, so the error never reaches the root that
   `Three_Address_Program.java:55` asks about.
3. **The Run item is enabled before anything is linked** (run `run_enabled`).
   `Linker.Link` returns true when its thread has been started.
   `MainWindow.java:403` says "link successful".
4. **Compiled, but refused by g++** (run `links`). A method becomes a function of
   its own name without its class, so that two classes with a method of one name,
   as in `src/compiledGrammar/hello.cs`, define a function twice.
   `MainWindow.java:396` says "compilation works...proceed to link".
5. **A nested class is an if** (run `nested`). `Rule_Statement` looks for `if` in
   the text of the rule and finds it in `Access-Modifier`. An if is built over the
   modifier and the class, the types are wrong, and the program is rejected.
   `csharp.grm:43` has the production.

## 5. Proofs

Every theorem below is proved by TLAPS with no bound, from the assumptions
on constants named in the modules:

- `SymbolTableAssumption`: grammar texts are lexemes, the empty string is not
  one, the array has a slot, and no lexeme is the name of a temporary (an
  identifier has no underscore). `ScopingAssumption`: types are data types.
- `StackAssumption`: a stack has a slot. `FrontEndAssumption`: every program is a
  derivation of the grammar, in the sense of `CSharpGrammar`, and the end of the
  input counts as a text of the grammar, as it does in `Compile`. What it says of a
  derivation is read off the productions in `csharp.grm`: an identifier or literal
  is shifted before the rule that names it is reduced, whatever lies between
  belongs to that rule's right-hand side, `<Basic-Types>` stands in front of each
  declared name, and everything but the program's variables is inside a class. TLC
  evaluates the assumption for each of the programs of `front_end`,
  `expressions` and `back_end`, which use every production.
- `CommandAssumption`: a pipe holds a line, and a process does a finite sequence of
  reads and writes.
- `BackEndAssumption`: the array of quadruples has a length, and a run is
  followed for so many things it does; either number may be any.
- `IdeAssumption`: `Partial` is no source number, and the bounds on compilations, lines
  and exceptions are numbers, however large. `WindowAssumption`: the event
  thread is one of the writers, and `NoText` is no text.

**ScopingProofs** - `ScopingTypeOK`, `NamesUniqueInScope`,
`TemporariesNeverClash`, `EveryScopeDeclared`, `IndicesStable`. None of the
invariants is inductive alone. The inductive one, `IInv`, adds
`TemporariesNumbered` (the temporaries in the table have numbers up to the
counter), from which the next temporary's name is fresh in *every* scope; the
scope of a symbol stays declared because symbols are only appended. `NextShape`
reduces all five actions to three shapes of step - the table is emptied, only
its scope or counter moves, or one symbol in a fresh name is appended - and each
conjunct is preserved by each shape. `IndicesStable` follows from the same three.
What single operations do to a table is in **SymbolTableProofs**.

**AstTreeProofs** has no theorem about a specification but the contract of the
tree's operations. `TreeOK` says that the stack is no longer than its array and
that every node refers to a symbol there is, an identifier's always to one; the
lemmas, up to `AddOperatorNodeOK`, show that each operation keeps it while the
table stays as it was or is asked for one temporary, and that an operator leaves a
node on the stack, or else `failed` or `broken` set (`Standing`). Its last part is
about the nodes below the top ones. A tree is whole (`TreeWhole`) when its error flag
is set or its nodes are `Planted`: they belong to a set of nodes, closed under
children, in which each operator has the number of children its rule gives it and
every node is higher than its children (`Forest`). Each operation keeps the tree
whole, since what it pops is put together with what it builds (`NodePlanted`).

**FrontEndProofs** - `FrontEndTypeCorrect`, `FrontEndOverflow`,
`FrontEndImplementsScoping`, `FrontEndKeepsTable`, `FrontEndTokensAligned`,
`TranslatedTreeWhole`, for any programs, any sizes of table and stacks and any number of compilations.
The inductive invariant is `FrontEndInv`. The type invariant alone is not
inductive: operators ask the table for the types of their operands, which needs
`TreeOK` and a well-formed table; a name is declared with the type read last, which
exists only because the grammar puts one before it (`TypesComeFirst`, with
`EventsOK` for what is still to come). That nothing but an overflow or a full stack
of tokens throws needs `NodesStand`, since `Decide` asks for the root of the tree
wherever the loop was left: a handler that can leave it belongs to a class, whose
modifier is a leaf by then, and no operator leaves the stack empty with neither the
error flag nor `broken` set. `AcceptedFits` carries the other half to the end: whatever is accepted has
been listed, which throws for a table that has overflowed. Every handler is
shown to satisfy one contract, `Handled`, and the invariant is preserved by
whatever satisfies it; what ends a compilation satisfies `Ended`.

For the refinement, `SameOperators` identifies the table of `Scoping` with that of
the front end, and every handler is a step of it: those that define a class or a
method also where the name is refused or the leaf has no room. The theorems of
`ScopingProofs` then hold of the compiler (`FrontEndKeepsTable`).

For the token stack, `TokensPending` says that after k moves of the derivation the
stack holds the texts of the lexemes shifted and not yet taken, in order, while
the token read ahead is that of the next shift. Because lexemes and reductions
are nested like brackets, the lexeme a reduction names is the last of these
(`OnStackPop`), and pops leave the others where they are. A `||` that stays on the
stack is in no one's way, being shifted while no lexeme waits.

`TranslatedTreeWhole` carries `TreeWhole` through the handlers and adds the verdict:
what `Compile` translates has no error flag, so that the code generator, which
takes children by their index without asking how many there are, finds them.

**BackEndProofs** - `LabelsPlacedOnce`, `BackEndTypeCorrect`, `EveryJumpLands`, for
any programs, any nesting of their statements, any number of compilations and runs
of any length. The argument follows a tree through the generator, the writer and
the machine.

1. A piece of code is a `Block(s, P, J)` when it places each label of `P` once, no
   other, and jumps only to labels of `J`; blocks with different labels compose
   (`BlocksCompose`). A generation is `Closed` when what it adds places exactly the
   labels the counter has handed out since, and jumps only to those.
2. Every handler of `code_gen` closes when its operands do (`RelationalCloses` to
   `TerminalCloses`, put together in `CodeGenCloses`). This is where it matters
   when a label is taken, by a loop and an `if` with `else` before their parts, by an
   `if` between test and body: what each part takes lies in a range of its own.
3. So the operands of a whole tree all close: a lowest one that did not would have
   operands that do (`ForestGenerates`). This is what replaces an induction over
   trees. `LabelsPlacedOnce` is the result for a program.
4. The writer keeps it: each quadruple becomes statements that place and jump as it
   does (`QuadrupleText`), by the first quadruple that would not (`WrittenText`).
5. `BackInv` says of every state that the file is such a text, placing the labels it
   jumps to, that a running program has been accepted (`Runnable`), and that
   the machine is at a statement of the function it was started in, with the
   variables declared there (`MachineOK`). The type invariant alone is not
   inductive: that a jump ends inside the same function rests on what g++ has
   checked of its labels, that an assigned variable exists and has a type on
   what it has checked of declarations and types, and that a statement always has a
   next one on the `return` at the end of every function.

The theorems have one hypothesis besides the assumptions, `ClosedRecursion`: of the
operand of a whole tree, `Generated` is `code_gen`. It says that the recursion of the
model is that of the code, and is what `MCGenerated` defines; since a whole tree has
a height there is exactly one such operator on its nodes.

**IdeSessionProofs** - `SessionTypeOK`, `OutAliveHolds`,
`LoneCommandHasInputHolds`, `OneRunPerLinkHolds`, `SerialRunsCurrentHolds`.
`TypeInv` strengthens the type invariant by `CompilingIsLater` (while a
compilation goes on, the last accepted text is an earlier one), `TextSaved` (the
source file holds the last text unless it is in `unsaved`) and `InputsExist`
(what a process reads was compiled). `LoneCommandHasInput` rests on
`TogetherOverlapped`: two commands alive at once are both in the history
variable. Hence a command outside `overlapped` is alone, and only its own
thread can change `out`. `OneRunPerLink` is inductive with the type invariant
and needs counting: `StartThreadCounts` says what a new thread does to the
cardinalities.

For `SerialRunsCurrentHolds` the text of a run has to be followed from the editor to
the process: `SerialInv` says that a run stands right
behind its link and is of the same text (`RunsFollowLinks`), and, while nothing
has overlapped, that only the last command is alive (`LastAlone`), that a link
has read its own text from the C++ file as long as it matters (`LinkInput`), that
the executable is the last link's until the run has started its process
(`ExeOfLink`), and what then runs (`RunInput`). `Begun` says that only a
thread that has begun has a process. A thread may be over before its process: what
carries the argument is that such a command is still alive, so whoever waits for
all commands waits for it. The conjuncts need each other; `FiveSteps` reduces the
steps of a command to the five shapes they have for these variables.

**CommandProcessorProofs** - `CommandTypeOK`, `InputWhileRunningHolds`,
`EverythingShownHolds`, `StuckOnlyOnErrorsHolds`, `ImplementsLifecycleHolds`.
`Stages` says, for each place of `run`, whether the process is connected
(`Connected`), what the thread has seen of its end and of the ends of its streams
(`Seen`), and what the window says of the end of the command (`Judged`). `LinesKept` is the
heart: the shown lines, the pipes and nothing else hold every line written, once,
the window in the order `Before` and each pipe sorted; `Moved` and `Grown` are the
two ways a step changes them, a line from a pipe to the window and a new line in
a pipe. `StuckOnlyOnErrors` is a pigeonhole: a full pipe of errors that no line
has left has an injection into the steps before the one that waits. The
refinement rests on `Stages`: that the process has ended when `WaitFor` takes its
input, that the input is gone when `Complete` says so, and that nothing was said
before an exception is. `CommandLifecycle` asks for these of the process and the
window, and the thread knows them only by its place in `run`.

**OutputWindowProofs** - `WindowTypeOK`, `NothingLostHolds`,
`WindowInOrderHolds`. `NothingLost` needs `HeldIsCurrent`: until an overlap, a
text that is held is the text of the window. `WindowInOrder` needs `OrderInv`:
not only the window but every held text is in order and shows no message beyond
what its thread has sent, since any of them may become the window.

Only model-checked:

- The properties of `Translation` (`TreeIsProgram`, `ResolvedInScope`,
  `VerdictIsRight`, `RejectionExplained`, `StacksLimitDepth`) and of `Compilation`
  (`MeaningPreserved`, `CppAccepted`, `OnlyWholeFiles`). They compare what the compiler
  arrives at with the source program: the reference is computed by recursion over the
  tree (`SourceRules`, `Translation` and `SourceMeaning` have RECURSIVE operators), and
  that the two agree is an induction over programs, out of the prover's reach. The
  argument from the height of nodes that serves `LabelsPlacedOnce` shows that an
  invariant goes up a tree, not that two recursive computations have one result.
- That each program of `CSharpGrammar` is a `Derivation`: it is what an induction
  over productions would show, and TLC evaluates it.
- Liveness, `Completes` and `Progress`, which rests on fairness and ENABLED.

## 6. Not modelled

- The printing of the tree and the tables; the header, comments and layout of the
  C++ file and the formatting of what it prints; the prompt of a read.
- What C++ computes: arithmetic is uninterpreted, so octal literals, the width of
  `int` and doubles assigned to floats are not seen. Two string literals that are
  compared (C++ compares their addresses) occur in no program of the runs.
- Methods other than `main` are generated and checked by `CppAccepted`, and never
  called: the source language has no calls.
- What programs of more than a few statements mean: the runs pick small ones. What
  is proved of all programs is about table, stacks, overflow, the shape of trees,
  labels and jumps (section 5).
- The GOLD engine, the table and the scanner. `CSharpGrammar` has what the
  engine reports. Layout, dialogs, the debugging log, classes nothing reaches,
  NASM, MinGW and what is under `build/`, `dist/` and `references/`.
- A grammar table or a source file that cannot be opened ends `Compile` before its
  loop, with a line on standard output and none in the window
  (`compiler.java:802`). `ParserRejects` is a lexical or a syntax error only, which is
  reported; in `IdeSession` the case is one of `CompileFails`.
- In `IdeSession` a source file that was cut short is taken not to parse, and the last
  message of a command is one step with `out = null` before it, when nothing throws;
  `CommandProcessor` has the two apart.
- `Error`s of the Java machine (`OutOfMemoryError`), which no `catch (Exception)`
  takes, and the death of the whole program.
- A Java thread sees `out`, which is not volatile, as last written: stale reads
  are not modelled. `JTextArea.setText` and `getText` are taken as atomic.

## 7. Plan

*Done*: every component with logic of its own, from the symbol table to the
running program, with the session, the command threads and the window; all the
safety properties of `Scoping`, `IdeSession`, `CommandProcessor`, `OutputWindow`
and, apart from what compares with the source program, `FrontEnd` and `BackEnd`
proved; the refinements of `Scoping` and, by `CommandProcessor`, of `CommandLifecycle`
proved.

What is left, in the order of what it would show:

1. A theorem about `OnlyWholeFiles`, for which `Source` would have to be related to
   the tree that is built (`TreeIsProgram`), with the order of methods in place of the
   labels in the argument of `BackEndProofs`.
2. A composition of `IdeSession` with `OutputWindow`, so that what is shown of two
   commands is related to what they wrote.
3. Values instead of terms in `SymbolicValues`, with their width, for the
   differences between C# and C++ that section 6 lists.
