\* Three files; StopVM and the end of the machine at any time; ids that wrap.
CONSTANTS
  Files = {f1, f2, f3}
  MaxId = 3
SPECIFICATION SessionFair
INVARIANTS ClosedOnce NoLeakWhileServing AnswersMatch
PROPERTIES CloseReturns AnswerOrEnd
CHECK_DEADLOCK FALSE
