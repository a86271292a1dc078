SPECIFICATION Spec
CONSTANTS
  Symbols <- MCSymbols
  TypeOf <- MCTypeOf
  Params = {"a"}
  ConstValue <- MCConstValue
  ReturnType <- MCReturnType
  Programs <- MCPrograms
  MaxIndex = 3
  MaxStatements = 4
  MaxOddStatements = 3
  Trips = {0, 2}
INVARIANTS TypeOK Dominance YieldsFitResults CarriedStayBound ModuleIsComplete RefusesOnlyThese
CHECK_DEADLOCK FALSE
