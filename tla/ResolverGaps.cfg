SPECIFICATION Spec
CONSTANTS
  Names = {x, y}
  MaxNodes = 4
INVARIANT LoopVariablesAreNotShadowed
INVARIANT NoUncheckedRoles
CHECK_DEADLOCK FALSE
