------------------------------ MODULE MCLanceDB ------------------------------
(***************************************************************************)
(* Instances of LanceDB.  The entry points are grouped by the kind of      *)
(* client that uses them; a client obtains its handles through the calls   *)
(* that make them and gives them up through those that free them, and each *)
(* group holds both.                                                       *)
(***************************************************************************)
EXTENDS HeaderContract, TLC

Symmetry == Permutations(Id)

Opening == {"connect", "connect_builder_execute", "connection_free",
            "connection_open_table", "table_free", "free_string"}

SessionCalls ==
  {"connect", "connect_builder_execute", "connect_builder_storage_option",
   "connect_builder_session", "connect_builder_free", "connection_free",
   "session_new", "session_new_with_registry", "session_free",
   "session_index_cache_stats", "session_metadata_cache_stats",
   "registry_new", "registry_free", "external_provider",
   "registry_insert_provider", "object_store_provider_free", "free_string"}

CatalogCalls ==
  Opening \cup
  {"connection_drop_table", "connection_rename_table",
   "connection_drop_all_tables", "connection_table_names", "free_table_names",
   "connection_table_names_builder", "table_names_builder_limit",
   "table_names_builder_start_after", "table_names_builder_execute",
   "table_names_builder_free", "connection_create_namespace",
   "connection_drop_namespace", "connection_list_namespaces",
   "free_namespace_list"}

IngestCalls ==
  Opening \cup
  {"export_array", "release_array", "record_batch_reader_from_arrow",
   "record_batch_reader_free", "table_create", "table_add",
   "table_merge_insert", "table_delete", "table_df_delete", "expr_column",
   "expr_free"}

InspectCalls ==
  Opening \cup
  {"table_arrow_schema", "free_arrow_schema", "table_version",
   "table_count_rows", "table_nearest_to", "free_arrow_arrays",
   "table_list_versions", "free_versions", "free_version_metadata",
   "table_get_metadata", "free_metadata", "table_set_metadata",
   "table_delete_metadata", "table_create_vector_index",
   "table_create_scalar_index", "table_create_fts_index",
   "table_list_indices", "free_index_list", "table_drop_index",
   "table_optimize", "table_index_stats"}

ExprCalls ==
  {"expr_column", "expr_literal_string", "expr_literal", "expr_binary",
   "expr_and", "expr_or", "expr_not", "expr_is_null", "expr_is_not_null",
   "expr_in_list", "expr_array_has", "expr_clone", "expr_free",
   "expr_json_get", "expr_json_array_has", "json_matches",
   "free_json_matches", "export_array", "release_array", "free_string"}

QueryCalls ==
  Opening \cup
  {"expr_literal", "expr_free", "query_new", "vector_query_new", "query_set",
   "vector_query_set", "vector_query_tune", "query_df_filter",
   "vector_query_df_filter", "query_execute", "vector_query_execute",
   "query_result_to_arrow", "query_free", "vector_query_free",
   "query_result_free", "free_arrow_arrays", "free_arrow_schema"}

(* The entry points an ill-formed input can put out of step.               *)
FaultCalls ==
  {"connect", "connect_builder_execute", "connection_free", "table_create",
   "table_free", "export_array", "release_array", "record_batch_reader_from_arrow",
   "record_batch_reader_free", "registry_new", "registry_free", "external_provider",
   "registry_insert_provider", "object_store_provider_free", "expr_column",
   "expr_in_list", "expr_free", "free_string"}

(* The last call is history: no action reads it, and the properties that   *)
(* do look at it after the step.                                           *)
Ownership == <<heap, owned, message>>

AllCalls == SessionCalls \cup CatalogCalls \cup IngestCalls \cup InspectCalls
              \cup ExprCalls \cup QueryCalls

=============================================================================
