SPECIFICATION Spec
CONSTANTS
  Id = {a, b, c}
  NULL = NULL
  Calls = {"connect", "connect_builder_execute", "export_array", "record_batch_reader_from_arrow", "release_array"}
  BadInputs = {"array"}
CHECK_DEADLOCK FALSE
PROPERTY KeptOnFailure
