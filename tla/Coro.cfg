SPECIFICATION Spec
CONSTANTS
  a = a
  b = b
  c = c
INVARIANTS ChainSound OutcomesExact
PROPERTIES CoroutinesEnd
CHECK_DEADLOCK FALSE
