\* Two classes with a method of one name.
CONSTANTS
  A = A
  B = B
  main = main
  go = go
  x = x
  y = y
  z = z
  new = new
  IdText = IdText
  Quoted = Quoted
  NoName = NoName
  NoProgram = NoProgram
  Keyword = Keyword
  OrText = OrText
  True = True
  False = False
  IntLit = IntLit
  ZeroLit = ZeroLit
  HugeLit = HugeLit
  FloatLit = FloatLit
  StrLit = StrLit
  Lexemes <- MCLexemes
  ParserTexts <- MCParserTexts
  MaxSizeOfTable = 30
  MaxSizeOfStack = 100
  Programs <- MCWhole
  MaxCompiles = 1
  MaxSizeOfProgram = 54
  Generated <- MCGenerated
  MaxHappenings = 7
  EntryPoint = main
  CppWords <- MCCppWords
  SingleQuoted <- MCQuoted
SPECIFICATION BackSpec
INVARIANT CompiledLinks
CHECK_DEADLOCK FALSE
