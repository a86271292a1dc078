SPECIFICATION Spec
CONSTANTS
  Names = {x, y}
  MaxNodes = 4
INVARIANTS InnermostBinding RolesRespected
CHECK_DEADLOCK FALSE
