SPECIFICATION CheckSpec
CONSTANTS
  HostWidth = 6
  UintWidth = 3
  DeclaredTypes <- MCTypes
  Literals = {1, 2, 8}
  Ops = {"+", "-", "*", "<<", "<"}
  MaxNodes = 4
INVARIANT CastsAreExact
INVARIANT ConstantsAreExact
INVARIANT ReadsAreAssignable
INVARIANT EverythingIsTyped
CHECK_DEADLOCK FALSE
