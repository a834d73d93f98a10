SPECIFICATION Spec
CONSTANTS
  Id = {a, b, c}
  NULL = NULL
  Calls = {"export_array", "record_batch_reader_from_arrow", "table_add"}
  BadInputs = {"argument"}
CHECK_DEADLOCK FALSE
PROPERTY HeaderConsumes
