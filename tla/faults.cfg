SPECIFICATION Spec
CONSTANTS
  Id = {a, b, c, d}
  NULL = NULL
  Calls <- FaultCalls
  BadInputs = {"argument", "schema", "array", "provider", "listOnly", "scheme", "nulText"}
SYMMETRY Symmetry
VIEW Ownership
PROPERTIES
  TakesAllOrNothing
INVARIANT
  DriftIsConfined
