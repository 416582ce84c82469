SPECIFICATION Spec
CONSTANTS
  MAX_STACK = 3
  MAX_CALL_DEPTH = 2
  MAX_LABELS = 4
  MAX_LOCALS = 1
  MAX_CODE = 7
  MAX_PLAIN = 1
  LoopResults = {0}
  Targets = {"block", "inner_loop"}
INVARIANTS
  TypeOK
  LabelsMatchNesting
  StackMatchesType
  ValidCodeDoesNotTrap
PROPERTY CallerUndisturbed
CHECK_DEADLOCK FALSE
