SPECIFICATION ParsingSpec
CONSTANTS
  Tokens <- MCTokens
  RecoveryTokens <- MCRecoveryTokens
  Openings <- MCOpenings
  MaxTokens = 5
  AsDocumented = TRUE
INVARIANT AcceptsEveryProgram
INVARIANT AcceptsOnlyPrograms
CHECK_DEADLOCK FALSE
