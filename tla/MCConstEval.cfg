SPECIFICATION FoldSpec
CONSTANTS
  HostWidth = 8
  UintWidth = 4
  LengthWidth = 4
  Symbols <- MCSymbols
  TypeOf <- MCTypeOf
  Params = {}
  ConstValue <- NoConsts
  ReturnType <- MCReturnType
  DeclLists <- MCDeclLists
INVARIANTS FoldedAsMeant ReportsAreExact
PROPERTIES Terminates
CHECK_DEADLOCK FALSE
