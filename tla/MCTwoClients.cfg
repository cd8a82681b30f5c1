\* An Exec while a session is open, on a machine that runs undisturbed.
CONSTANTS
  NoCall = NoCall
  Execs = {e1}
  Streams = {s1}
  Ptys = {}
  IdSpace = 4
  MaxOut = 1
  Codes = {0}
  OutputCap = 1
  MaxInput = 0
  WireCap = 2
  Events = {}
SPECIFICATION FairSpec
PROPERTY ClientsShareMachine
CHECK_DEADLOCK FALSE
