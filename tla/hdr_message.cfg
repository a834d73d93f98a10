SPECIFICATION Spec
CONSTANTS
  Id = {a, b, c}
  NULL = NULL
  Calls <- InspectCalls
  BadInputs = {}
CHECK_DEADLOCK FALSE
PROPERTY ErrorLeavesMessage
