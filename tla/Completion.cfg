SPECIFICATION Spec
CONSTANTS
  a = a
  b = b
INVARIANTS CompletionsSound
PROPERTIES ContextsSettle
CHECK_DEADLOCK FALSE
