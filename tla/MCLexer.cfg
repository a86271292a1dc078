SPECIFICATION LexSpec
CONSTANTS
  Alphabet <- MCAlphabet
  MaxLength = 5
  MaxLiteral = 255
  MaxUnsigned = 31
  TypeWidth = 10
INVARIANTS TokensTileTheText NumbersMean
CHECK_DEADLOCK FALSE
