SPECIFICATION Spec
CONSTANTS
  HostWidth = 4
  UintWidth = 3
  MaxWidth = 3
  MaxTrips = 5
  Headers <- AllHeaders
INVARIANTS PositiveTripCountIsExact VariableIsExact LegalHeadersAreCounted
CHECK_DEADLOCK FALSE
