------------------------------ MODULE TableApi -------------------------------
(***************************************************************************)
(* The entry points of src/table.rs and src/index.rs, as far as ownership  *)
(* goes: readers, writes, versions, table metadata and indices.            *)
(***************************************************************************)
EXTENDS Handles

(* --- readers ----------------------------------------------------------- *)

(* The application exports a batch to the Arrow C data interface, and may  *)
(* call the release callback of the exported array.                        *)
ExportArray == Succeeds("export_array", {}, {}, {"ArrowArray"})

ReleaseArray == Frees("release_array", "ArrowArray")

(* The schema is imported before the array is copied out of the caller's   *)
(* structure; from then on the copy is released on every path.             *)
RecordBatchReaderFromArrow ==
  \E a \in Arg("ArrowArray"), ok \in ArgsPass,
     badSchema \in Faulty("schema"), badArray \in Faulty("array") :
    \/ /\ a = NULL \/ ~ok
       /\ Fails("record_batch_reader_from_arrow", {a}, "InvalidArgument", {})
    \/ /\ a # NULL /\ ok /\ badSchema
       /\ Fails("record_batch_reader_from_arrow", {a}, "Error", {})
    \/ /\ a # NULL /\ ok /\ ~badSchema /\ badArray
       /\ Fails("record_batch_reader_from_arrow", {a}, "Error", {a})
    \/ /\ a # NULL /\ ok /\ ~badSchema /\ ~badArray
       /\ Succeeds("record_batch_reader_from_arrow", {a}, {a}, {"Reader"})

RecordBatchReaderFree == Frees("record_batch_reader_free", "Reader")

(* --- writes ------------------------------------------------------------ *)

(* Mutant: the reader is taken before the table is checked.                *)
TableAddTakesFirst ==
  \E t \in Arg("Table"), r \in Arg("Reader") :
    \/ /\ NULL \in {t, r}
       /\ Fails("table_add", {r}, "InvalidArgument", {r} \ {NULL})
    \/ /\ NULL \notin {t, r}
       /\ \/ Succeeds("table_add", {r}, {r}, {})
          \/ Fails("table_add", {r}, "Error", {r})

(* Both pointers are checked before the reader is taken.                   *)
TableAdd ==
  \E t \in Arg("Table"), r \in Arg("Reader") :
    \/ /\ NULL \in {t, r}
       /\ Fails("table_add", {r}, "InvalidArgument", {})
    \/ /\ NULL \notin {t, r}
       /\ \/ Succeeds("table_add", {r}, {r}, {})
          \/ Fails("table_add", {r}, "Error", {r})

(* The data is taken first, so every rejection frees it.  The expression   *)
(* of the configuration is borrowed; an SQL condition beside it is a       *)
(* rejected argument.                                                      *)
TableMergeInsert ==
  \E t \in Arg("Table"), d \in Arg("Reader"), ok \in ArgsPass,
     cond \in Handle("Expr") \cup {NULL} :
    \/ /\ NULL \in {t, d} \/ ~ok
       /\ Fails("table_merge_insert", {d}, "InvalidArgument", {d} \ {NULL})
    \/ /\ NULL \notin {t, d} /\ ok
       /\ \/ Succeeds("table_merge_insert", {d}, {d}, {})
          \/ Fails("table_merge_insert", {d}, "Error", {d})

TableDelete == \E t \in Arg("Table") : Borrows("table_delete", {t})

(* The expression is taken before the table is looked at.                  *)
TableDfDelete ==
  \E t \in Arg("Table"), e \in Arg("Expr") :
    \/ /\ NULL \in {t, e}
       /\ Fails("table_df_delete", {e}, "InvalidArgument", {e} \ {NULL})
    \/ /\ NULL \notin {t, e}
       /\ \/ Succeeds("table_df_delete", {e}, {e}, {})
          \/ Fails("table_df_delete", {e}, "Error", {e})

(* --- reads ------------------------------------------------------------- *)

TableArrowSchema ==
  \E t \in Arg("Table") : Produces("table_arrow_schema", {t}, {"Schema"}, FALSE)

FreeArrowSchema == Frees("free_arrow_schema", "Schema")

(* table_version and table_count_rows return a number, zero on failure.    *)
TableVersion == \E t \in Arg("Table") : Succeeds("table_version", {}, {}, {})

TableCountRows == \E t \in Arg("Table") : Succeeds("table_count_rows", {}, {}, {})

TableNearestTo ==
  \E t \in Arg("Table") : Produces("table_nearest_to", {t}, {"Arrays", "Schema"}, TRUE)

(* The metadata of the versions is returned when the caller asks for it.   *)
TableListVersions ==
  \E t \in Arg("Table"), made \in {{"Versions"}, {"Versions", "VersionMetadata"}} :
    Produces("table_list_versions", {t}, made, TRUE)

FreeVersions == Frees("free_versions", "Versions")

FreeVersionMetadata == Frees("free_version_metadata", "VersionMetadata")

(* --- table metadata ---------------------------------------------------- *)

TableGetMetadata ==
  \E t \in Arg("Table") : Produces("table_get_metadata", {t}, {"Metadata"}, TRUE)

FreeMetadata == Frees("free_metadata", "Metadata")

TableSetMetadata == \E t \in Arg("Table") : Borrows("table_set_metadata", {t})

TableDeleteMetadata == \E t \in Arg("Table") : Borrows("table_delete_metadata", {t})

(* --- indices ----------------------------------------------------------- *)

TableCreateVectorIndex ==
  \E t \in Arg("Table") : Borrows("table_create_vector_index", {t})

TableCreateScalarIndex ==
  \E t \in Arg("Table") : Borrows("table_create_scalar_index", {t})

TableCreateFtsIndex == \E t \in Arg("Table") : Borrows("table_create_fts_index", {t})

TableListIndices ==
  \E t \in Arg("Table") : Produces("table_list_indices", {t}, {"Indices"}, TRUE)

FreeIndexList == Frees("free_index_list", "Indices")

TableDropIndex == \E t \in Arg("Table") : Borrows("table_drop_index", {t})

TableOptimize == \E t \in Arg("Table") : Borrows("table_optimize", {t})

(* A missing index returns IndexNotFound and leaves *error_message alone.  *)
TableIndexStats ==
  \E t \in Arg("Table") :
    \/ Borrows("table_index_stats", {t})
    \/ /\ t # NULL
       /\ \E slot \in BOOLEAN :
            FailsSilently("table_index_stats", {}, "IndexNotFound", {}, slot)

-----------------------------------------------------------------------------

TableNext ==
  \/ ExportArray \/ ReleaseArray \/ RecordBatchReaderFromArrow
  \/ RecordBatchReaderFree
  \/ TableAdd \/ TableMergeInsert \/ TableDelete \/ TableDfDelete
  \/ TableArrowSchema \/ FreeArrowSchema \/ TableVersion \/ TableCountRows
  \/ TableNearestTo \/ TableListVersions \/ FreeVersions \/ FreeVersionMetadata
  \/ TableGetMetadata \/ FreeMetadata \/ TableSetMetadata \/ TableDeleteMetadata
  \/ TableCreateVectorIndex \/ TableCreateScalarIndex \/ TableCreateFtsIndex
  \/ TableListIndices \/ FreeIndexList \/ TableDropIndex \/ TableOptimize
  \/ TableIndexStats
=============================================================================
