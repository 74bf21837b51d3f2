\* Two compilations in one run of the IDE, each of any of the programs, and what
\* the first seven things are that the generated program does.
CONSTANTS
  A = A
  B = B
  main = main
  go = go
  x = x
  y = y
  z = z
  new = new
  IdText = IdText
  Quoted = Quoted
  NoName = NoName
  NoProgram = NoProgram
  Keyword = Keyword
  OrText = OrText
  True = True
  False = False
  IntLit = IntLit
  ZeroLit = ZeroLit
  HugeLit = HugeLit
  FloatLit = FloatLit
  StrLit = StrLit
  Lexemes <- MCLexemes
  ParserTexts <- MCParserTexts
  MaxSizeOfTable = 30
  MaxSizeOfStack = 100
  Programs <- MCPrograms
  MaxCompiles = 2
  MaxSizeOfProgram = 54
  Generated <- MCGenerated
  MaxHappenings = 7
  EntryPoint = main
  CppWords <- MCCppWords
  SingleQuoted <- MCQuoted
SPECIFICATION LiveSpec
INVARIANTS BackTypeOK JumpsLand MeaningPreserved CppAccepted
PROPERTIES OnlyWholeFiles Progress
CHECK_DEADLOCK FALSE
