\* An Exec and a stream; StopVM, cancellation, a dying machine, failing commands; output overflows.
CONSTANTS
  NoCall = NoCall
  Execs = {e1}
  Streams = {s1}
  Ptys = {}
  IdSpace = 2
  MaxOut = 2
  Codes = {0}
  OutputCap = 1
  MaxInput = 0
  WireCap = 2
  Events = {"stop", "cancel", "die", "abort"}
SPECIFICATION Spec
INVARIANTS OwnOutput ChannelOwnership WaitersReachable ReaderNeverBlocks AnswerIsLast
CHECK_DEADLOCK FALSE
