SPECIFICATION DSpec
CONSTANTS
  HostWidth = 8
  UintWidth = 4
  Symbols <- MCSymbols
  TypeOf <- MCTypeOf
  Params = {"a", "b"}
  ConstValue <- MCConstValue
  ReturnType <- MCReturnType
  Programs <- MCPrograms
  MaxIndex = 8
  Inputs <- MCInputs
  MaxStatements = 3
  Odd = {}
  Folded <- AtItsType
INVARIANTS SameResult SameHardware HWTypeOK NoLookupMisses
CHECK_DEADLOCK FALSE
