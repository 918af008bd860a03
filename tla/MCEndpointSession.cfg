\* Five commands in any order and any number of failures and recoveries.
SPECIFICATION EndpointSpec
CONSTANTS
  MaximumBytes = 2
  PrefixBytes = 2
  Base = 4
  LF = 3
  CR = 2
  Answers <- MCAnswers
  Strays <- MCStrays
  IdentityValues <- MCIdentity
  TransferBytes = 3
  MaxCommands = 5
INVARIANTS
  WithinBounds
  AnswersBelong
  DecodesReference
