SPECIFICATION FoldSpec
CONSTANTS
  HostWidth = 8
  UintWidth = 4
  LengthWidth = 4
  Symbols <- MCSymbols
  TypeOf <- MCTypeOf
  Params = {}
  ConstValue <- NoConsts
  ReturnType <- MCReturnType
  DeclLists <- MCGaps
INVARIANT FoldsAsRuntime
INVARIANT UnfoldedIsReported
INVARIANT IndicesAreChecked
INVARIANT ElementsAreCounted
CHECK_DEADLOCK FALSE
