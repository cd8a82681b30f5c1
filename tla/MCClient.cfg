CONSTANTS
  Clients = {c1}
  MaxPrints = 3
SPECIFICATION FairSpec
INVARIANTS NoMachineLeft NoFalseSuccess OutputComplete
PROPERTY ClientEnds
CHECK_DEADLOCK FALSE
