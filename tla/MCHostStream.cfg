SPECIFICATION FairSpec
CONSTANTS
  Kinds = {"exec", "pipes", "pty"}
  ExitCodes = {0, 3}
  MaxChunks = 2
  MaxInput = 2
  Survivors = TRUE
  NoResult = NoResult
INVARIANTS PrefixReceived ExecComplete NothingLeft
PROPERTIES ImplementsBackend CallReturns
CHECK_DEADLOCK FALSE
