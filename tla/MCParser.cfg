SPECIFICATION ParsingSpec
CONSTANTS
  Tokens <- MCTokens
  RecoveryTokens <- MCRecoveryTokens
  Openings <- MCOpenings
  MaxTokens = 5
  AsDocumented = FALSE
INVARIANTS AcceptsOnlyPrograms AcceptsEveryProgram PrecedenceRespected NullIsReported EveryStatementConsumes
PROPERTY Terminates
CHECK_DEADLOCK FALSE
