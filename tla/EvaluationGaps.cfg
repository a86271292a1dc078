SPECIFICATION Spec
CONSTANTS
  HostWidth = 6
  UintWidth = 3
  TypeWidth = 3
INVARIANT HugeShiftAmounts
INVARIANT HugeRemainders
INVARIANT DivisionByZeroWidth
INVARIANT WidestNegation
INVARIANT NotIsOneBit
INVARIANT LiteralsTakeOneType
INVARIANT LiteralDivisionIsDefined
INVARIANT CastLiteralsKeepTheirValue
CHECK_DEADLOCK FALSE
