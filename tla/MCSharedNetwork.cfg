CONSTANTS
  Vms = {v1, v2, v3}
  MaxRestarts = 1
SPECIFICATION Spec
INVARIANTS CaAgrees RulesKept StaleRulesGone
CHECK_DEADLOCK FALSE
