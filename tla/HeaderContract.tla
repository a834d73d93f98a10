---------------------------- MODULE HeaderContract ---------------------------
(***************************************************************************)
(* What the header and the documentation promise about single entry        *)
(* points, as properties of the calls of LanceDB.  Each of them is refuted *)
(* by the code: see the findings in README.md.                             *)
(***************************************************************************)
EXTENDS LanceDB

(* After a call of fn that returns one of the codes rcs, the objects given *)
(* to it are gone.                                                         *)
Consumed(fns, rcs) ==
  (call'.fn \in fns /\ call'.rc \in rcs) => call'.given \cap Live' = {}

Untouched(fns, rcs) ==
  (call'.fn \in fns /\ call'.rc \in rcs) => call'.given \subseteq Live'

Failure == ReturnCode \ {"Success"}

(* include/lancedb.h:866 for the reader of table_add, and likewise for the *)
(* others, whatever they return: the argument is taken over (810, 1044,    *)
(* 1151, 1311, 704), or consumed with all list elements (1847).            *)
HeaderConsumes ==
  [][Consumed({"table_create", "table_add", "query_df_filter",
               "vector_query_df_filter", "query_result_to_arrow",
               "registry_insert_provider", "expr_in_list"}, ReturnCode)]_vars

(* What a failed call was given is still there for the caller to free:     *)
(* include/lancedb.h:338 for the connect builder, which is consumed on     *)
(* success; docs/index.rst:127 for the array of a failed from_arrow, which *)
(* the caller releases itself.                                             *)
KeptOnFailure ==
  [][Untouched({"connect_builder_execute", "record_batch_reader_from_arrow"}, Failure)]_vars

(* include/lancedb.h:1566: when an error occurs and error_message is       *)
(* provided, there is a message for the caller to free.                    *)
ErrorLeavesMessage ==
  [][call'.slot /\ call'.rc \in Failure => message' \in Live' \ Live]_vars
=============================================================================
