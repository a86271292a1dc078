SPECIFICATION Spec
CONSTANTS
  HostWidth = 6
  UintWidth = 3
  Functions <- MCFunctions
  Numbers <- MCNumbers
  Results <- MCResults
  MaxWords = 5
INVARIANTS ValuesReachParameters SuccessMeansAgreement
CHECK_DEADLOCK FALSE
