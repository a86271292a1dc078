SPECIFICATION Spec
CONSTANTS
  HostWidth = 6
  UintWidth = 3
  Symbols <- MCSymbols
  TypeOf <- MCTypeOf
  Params = {"a"}
  ConstValue <- MCConstValue
  ReturnType <- MCReturnType
  Programs <- MCPrograms
  ArrayLength <- MCArrayLength
  ConstElements <- MCConstElements
  InStreams = {"s"}
  OutStreams = {"r"}
  Inputs <- MCInputs
  MaxRuns = 3
  MaxStatements = 3
  MaxOddStatements = 1
INVARIANTS MemoryTyped InductionVariable ResultsAgree
PROPERTY Terminates
CHECK_DEADLOCK FALSE
