------------------------------ MODULE ErrorCodes ------------------------------
(***************************************************************************)
(* error_to_error_code: the code of a lancedb error.  Some errors lose     *)
(* their variant on the way out of lancedb, and are told by markers in     *)
(* their text.  An error is its variant, the variant of the lance error it *)
(* may wrap, and the markers in its text: those that tell its cause, and   *)
(* those that a name or a path quoted in it happens to contain.            *)
(***************************************************************************)

CONSTANT Quotable  \* the markers that names and paths may contain

NAMESPACE_TABLE_NOT_FOUND == "Table not found:"
NAMESPACE_NOT_FOUND == "Namespace not found:"
NAMESPACE_CONNECT_FAILED == "Failed to connect to namespace:"
PERMISSION_DENIED_MARKERS == {"PermissionDenied", "Permission denied", "AccessDenied"}
NOT_FOUND_MARKERS == {"NoSuchBucket"}

(* The variants whose code has their name, whatever their text.            *)
Named == {"InvalidTableName", "TableNotFound", "DatabaseNotFound", "DatabaseAlreadyExists",
          "IndexNotFound", "EmbeddingFunctionNotFound", "TableAlreadyExists", "CreateDir",
          "Schema", "Timeout", "Http", "Retry", "Arrow", "NotSupported", "Other"}

not_found_from_message(marks, otherwise) ==
  IF NAMESPACE_TABLE_NOT_FOUND \in marks THEN "TableNotFound"
  ELSE IF NAMESPACE_NOT_FOUND \in marks THEN "DatabaseNotFound"
  ELSE otherwise

storage_failure_from_message(marks, otherwise) ==
  IF marks \cap PERMISSION_DENIED_MARKERS # {} THEN "PermissionDenied"
  ELSE IF marks \cap NOT_FOUND_MARKERS # {} THEN "NotFound"
  ELSE otherwise

(* What a lance error is without a marker.                                 *)
Fallback(source) == IF source \in {"NotFound", "IndexNotFound", "Namespace"} THEN source ELSE "Lance"

(* Mutant: the storage failures are looked for first.                      *)
error_to_error_code_storage_first(e) ==
  CASE e.variant \in Named -> e.variant
    [] e.variant = "External" -> "Other"
    [] e.variant = "InvalidInput" ->
         IF NAMESPACE_CONNECT_FAILED \in e.marks
           THEN storage_failure_from_message(e.marks, "Lance") ELSE "InvalidInput"
    [] e.variant = "Runtime" -> not_found_from_message(e.marks, "Runtime")
    [] e.variant = "ObjectStore" -> storage_failure_from_message(e.marks, "ObjectStore")
    [] e.variant = "Lance" ->
         storage_failure_from_message(e.marks,
           not_found_from_message(e.marks, Fallback(e.source)))

error_to_error_code(e) ==
  CASE e.variant \in Named -> e.variant
    [] e.variant = "External" -> "Other"
    [] e.variant = "InvalidInput" ->
         IF NAMESPACE_CONNECT_FAILED \in e.marks
           THEN storage_failure_from_message(e.marks, "Lance") ELSE "InvalidInput"
    [] e.variant = "Runtime" -> not_found_from_message(e.marks, "Runtime")
    [] e.variant = "ObjectStore" -> storage_failure_from_message(e.marks, "ObjectStore")
    [] e.variant = "Lance" ->
         not_found_from_message(e.marks,
           storage_failure_from_message(e.marks, Fallback(e.source)))

-----------------------------------------------------------------------------
(* How lancedb reports a cause: by a marker of its own, or none, and with  *)
(* names and paths in the text, which may hold any of Quotable.            *)
StorageMarkers == PERMISSION_DENIED_MARKERS \cup NOT_FOUND_MARKERS

NamespaceMarkers == {NAMESPACE_TABLE_NOT_FOUND, NAMESPACE_NOT_FOUND}

Error(variant, source, own) ==
  {[variant |-> variant, source |-> source, marks |-> own \cup q, quoted |-> q] :
     q \in SUBSET Quotable}

Missing(marker) == Error("Runtime", "none", {marker}) \cup Error("Lance", "Namespace", {marker})

Stored(marker) ==
  Error("ObjectStore", "none", {marker})
    \cup Error("Lance", "other", {marker})
    \cup Error("InvalidInput", "none", {NAMESPACE_CONNECT_FAILED, marker})

Cause == {"table missing", "namespace missing", "access denied", "bucket missing",
          "object missing", "index missing", "no connection", "input refused",
          "namespace failed", "corrupted", "failed elsewhere"}

Raised(cause) ==
  CASE cause = "table missing" ->
         Missing(NAMESPACE_TABLE_NOT_FOUND) \cup Error("TableNotFound", "none", {})
    [] cause = "namespace missing" -> Missing(NAMESPACE_NOT_FOUND)
    [] cause = "access denied" -> UNION {Stored(marker) : marker \in PERMISSION_DENIED_MARKERS}
    [] cause = "bucket missing" -> UNION {Stored(marker) : marker \in NOT_FOUND_MARKERS}
    [] cause = "object missing" -> Error("Lance", "NotFound", {})
    [] cause = "index missing" ->
         Error("Lance", "IndexNotFound", {}) \cup Error("IndexNotFound", "none", {})
    [] cause = "no connection" -> Error("InvalidInput", "none", {NAMESPACE_CONNECT_FAILED})
    [] cause = "input refused" -> Error("InvalidInput", "none", {})
    [] cause = "namespace failed" -> Error("Lance", "Namespace", {})
    [] cause = "corrupted" -> Error("Lance", "other", {})
    [] cause = "failed elsewhere" ->
         UNION {Error(v, "none", {}) :
                  v \in {"Runtime", "ObjectStore", "External", "Schema", "Timeout", "Arrow"}}
=============================================================================
