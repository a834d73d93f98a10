SPECIFICATION Spec
CONSTANTS
  Id = {a, b, c, d}
  NULL = NULL
  Calls <- AllCalls
  BadInputs = {"argument", "nulText"}
SYMMETRY Symmetry
VIEW Ownership
INVARIANTS
  TypeOK
  OwnedIsLive
  MessageIsLive
