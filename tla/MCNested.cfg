\* The programs once each: a class among the statements.
CONSTANTS
  A = A
  B = B
  go = go
  x = x
  y = y
  z = z
  IdText = IdText
  NoName = NoName
  NoProgram = NoProgram
  Keyword = Keyword
  OrText = OrText
  True = True
  False = False
  IntLit = IntLit
  ZeroLit = ZeroLit
  HugeLit = HugeLit
  FloatLit = FloatLit
  StrLit = StrLit
  Lexemes <- MCLexemes
  ParserTexts <- MCParserTexts
  MaxSizeOfTable = 30
  MaxSizeOfStack = 100
  Programs <- MCPrograms
  MaxCompiles = 1
SPECIFICATION Spec
INVARIANT NestedClassAccepted
CHECK_DEADLOCK FALSE
