SPECIFICATION Spec
CONSTANTS
  HostWidth = 6
  UintWidth = 3
  TypeWidth = 3
INVARIANTS Exact StaticTypeAgrees WireAgrees GuardsHold AdjustAgrees
CHECK_DEADLOCK FALSE
