\* Three identifiers, one of them spelled like a grammar symbol, and an array
\* of four symbols, so that a class, a method and a declaration fill it up.
CONSTANTS
  A = A
  m = m
  Id = Id
  NoName = NoName
  Lexemes <- MCLexemes
  ParserTexts <- MCParserTexts
  MaxSizeOfTable = 4
  TemporaryNumbers = {0, 1, 2}
  Types = {"int", "error"}
SPECIFICATION Spec
INVARIANTS TypeOK UniqueInScope TemporariesDistinct ScopesDeclared
PROPERTY SymbolsStable
