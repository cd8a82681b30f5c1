\* StopVM while a command prints.
CONSTANTS
  NoCall = NoCall
  Execs = {e1}
  Streams = {}
  Ptys = {}
  IdSpace = 4
  MaxOut = 1
  Codes = {0}
  OutputCap = 1
  MaxInput = 0
  WireCap = 2
  Events = {"stop"}
SPECIFICATION Spec
INVARIANT StopLeavesDaemonUp
CHECK_DEADLOCK FALSE
