\* Two compilations in one run of the IDE, each of any of the programs.  The
\* largest of those that are correct fills the symbol table and the stack of
\* nodes to the last; the crowded ones overflow them at different places.
CONSTANTS
  A = A
  B = B
  go = go
  x = x
  y = y
  z = z
  IdText = IdText
  NoName = NoName
  NoProgram = NoProgram
  Keyword = Keyword
  OrText = OrText
  True = True
  False = False
  IntLit = IntLit
  ZeroLit = ZeroLit
  HugeLit = HugeLit
  FloatLit = FloatLit
  StrLit = StrLit
  Lexemes <- MCLexemes
  ParserTexts <- MCParserTexts
  MaxSizeOfTable = 27
  MaxSizeOfStack = 16
  Programs <- MCPrograms
  MaxCompiles = 2
SPECIFICATION Spec
INVARIANTS TypeOK TokenAligned TreeIsProgram ResolvedInScope VerdictIsRight RejectionExplained
INVARIANTS OverflowNeverTranslated StacksLimitDepth
PROPERTY ImplementsScoping
CHECK_DEADLOCK FALSE
