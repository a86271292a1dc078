SPECIFICATION CheckSpec
CONSTANTS
  HostWidth = 6
  UintWidth = 3
  DeclaredTypes <- MCTypes
  Literals = {1, 2, 8}
  Ops = {"+", "-", "*", "<<", "<", "&&"}
  MaxNodes = 5
INVARIANTS RulesHold TypesReachEveryNode SumsAreExact
CHECK_DEADLOCK FALSE
