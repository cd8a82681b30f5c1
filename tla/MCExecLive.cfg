\* An Exec and a terminal session on a machine that may die.
CONSTANTS
  NoCall = NoCall
  Execs = {e1}
  Streams = {s1}
  Ptys = {s1}
  IdSpace = 2
  MaxOut = 1
  Codes = {0, 1}
  OutputCap = 1
  MaxInput = 1
  WireCap = 2
  Events = {"die", "cancel"}
SPECIFICATION FairSpec
PROPERTIES ImplementsBackend ExecReturns DeathWakesCalls
CHECK_DEADLOCK FALSE
