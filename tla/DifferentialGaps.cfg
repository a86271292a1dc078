SPECIFICATION DSpec
CONSTANTS
  HostWidth = 8
  UintWidth = 4
  Symbols <- MCSymbols
  TypeOf <- MCTypeOf
  Params = {"a", "b"}
  ConstValue <- MCConstValue
  ReturnType <- MCReturnType
  Programs <- MCPrograms
  MaxIndex = 8
  Inputs <- MCInputs
  MaxStatements = 1
  Odd <- ReturnB
  Folded <- Narrow
INVARIANTS SameResult
CHECK_DEADLOCK FALSE
