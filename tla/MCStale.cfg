\* Two compilations in one run of the IDE, each of any of the programs, the
\* symbol table large enough for all of them.
CONSTANTS
  A = A
  B = B
  go = go
  x = x
  y = y
  z = z
  IdText = IdText
  NoName = NoName
  NoProgram = NoProgram
  Keyword = Keyword
  OrText = OrText
  True = True
  False = False
  IntLit = IntLit
  ZeroLit = ZeroLit
  HugeLit = HugeLit
  FloatLit = FloatLit
  StrLit = StrLit
  Lexemes <- MCLexemes
  ParserTexts <- MCParserTexts
  MaxSizeOfTable = 30
  MaxSizeOfStack = 100
  Programs <- MCPrograms
  MaxCompiles = 2
SPECIFICATION Spec
INVARIANT OnlyParsedTranslated
CHECK_DEADLOCK FALSE
