\* One compilation, of each of the programs.
CONSTANTS
  A = A
  go = go
  iv = iv
  fv = fv
  sv = sv
  bv = bv
  NoName = NoName
  NoProgram = NoProgram
  Keyword = Keyword
  OrText = OrText
  True = True
  False = False
  IntLit = IntLit
  ZeroLit = ZeroLit
  HugeLit = HugeLit
  FloatLit = FloatLit
  StrLit = StrLit
  Lexemes <- MCLexemes
  ParserTexts <- MCParserTexts
  MaxSizeOfTable = 20
  MaxSizeOfStack = 100
  Programs <- MCPrograms
  MaxCompiles = 1
SPECIFICATION Spec
INVARIANTS TreeIsProgram VerdictIsRight RejectionExplained
CHECK_DEADLOCK FALSE
