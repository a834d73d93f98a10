------------------------------ MODULE QueryApi -------------------------------
(***************************************************************************)
(* The entry points of src/query.rs: a query is made from a table, set up  *)
(* by setters that borrow it, and consumed by its execution.               *)
(***************************************************************************)
EXTENDS Handles

QueryNew ==
  \E t \in Arg("Table") : Rebuilds("query_new", {}, {"Query"}, t # NULL)

VectorQueryNew ==
  \E t \in Arg("Table"), ok \in ArgsPass :
    Rebuilds("vector_query_new", {}, {"VectorQuery"}, t # NULL /\ ok)

(* A setter writes one field of the query, or rejects its arguments; no    *)
(* other error is possible.                                                *)
Sets(fn, q) ==
  \/ q # NULL /\ Succeeds(fn, {}, {}, {})
  \/ "argument" \in BadInputs /\ Fails(fn, {}, "InvalidArgument", {})

(* query_limit, _offset, _select and _where_filter.                        *)
QuerySetter == \E q \in Arg("Query") : Sets("query_set", q)

(* vector_query_limit, _offset, _column, _select and _where_filter.        *)
VectorQuerySetter == \E q \in Arg("VectorQuery") : Sets("vector_query_set", q)

(* vector_query_distance_type, _nprobes, _refine_factor and _ef.           *)
VectorQueryTuning == \E q \in Arg("VectorQuery") : Sets("vector_query_tune", q)

(* Both pointers are checked before the expression moves into the query; a *)
(* filter set before is dropped.                                           *)
Filters(fn, kind) ==
  \E q \in Arg(kind), e \in Arg("Expr") :
    \/ NULL \in {q, e} /\ Fails(fn, {e}, "InvalidArgument", {})
    \/ NULL \notin {q, e} /\ Succeeds(fn, {e}, {e}, {})

QueryDfFilter == Filters("query_df_filter", "Query")

VectorQueryDfFilter == Filters("vector_query_df_filter", "VectorQuery")

(* The query is taken before it is run; a failed execution returns null.   *)
Executes(fn, kind) ==
  \E q \in Arg(kind), ok \in BOOLEAN : Rebuilds(fn, {q}, {"Result"}, q # NULL /\ ok)

QueryExecute == Executes("query_execute", "Query")

VectorQueryExecute == Executes("vector_query_execute", "VectorQuery")

(* The outputs are checked before the result is taken.                     *)
QueryResultToArrow ==
  \E r \in Arg("Result"), ok \in ArgsPass :
    \/ /\ r = NULL \/ ~ok
       /\ Fails("query_result_to_arrow", {r}, "InvalidArgument", {})
    \/ /\ r # NULL /\ ok
       /\ \/ \E made \in {{}, {"Arrays", "Schema"}} :
               Succeeds("query_result_to_arrow", {r}, {r}, made)
          \/ Fails("query_result_to_arrow", {r}, "Error", {r})

QueryFree == Frees("query_free", "Query")

VectorQueryFree == Frees("vector_query_free", "VectorQuery")

QueryResultFree == Frees("query_result_free", "Result")

FreeArrowArrays == Frees("free_arrow_arrays", "Arrays")

-----------------------------------------------------------------------------

QueryNext ==
  \/ QueryNew \/ VectorQueryNew \/ QuerySetter \/ VectorQuerySetter
  \/ VectorQueryTuning \/ QueryDfFilter \/ VectorQueryDfFilter
  \/ QueryExecute \/ VectorQueryExecute \/ QueryResultToArrow
  \/ QueryFree \/ VectorQueryFree \/ QueryResultFree \/ FreeArrowArrays
=============================================================================
