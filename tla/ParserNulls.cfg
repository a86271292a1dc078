SPECIFICATION ParsingSpec
CONSTANTS
  Tokens <- MCTokens
  RecoveryTokens <- MCRecoveryTokens
  Openings <- MCOpenings
  MaxTokens = 5
  AsDocumented = FALSE
INVARIANT NoNullDereference
CHECK_DEADLOCK FALSE
