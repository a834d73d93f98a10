---------------------------- MODULE AbstractQuery -----------------------------
(***************************************************************************)
(* What the client of a query may rely on: a query is a set of clauses;    *)
(* setting a clause replaces it as a whole and is told as a success, a     *)
(* call that is refused changes nothing; there is one filter, and an SQL   *)
(* filter never replaces a DataFusion one.  Executing the query sends      *)
(* exactly these clauses, once.                                            *)
(***************************************************************************)
EXTENDS Naturals, Sequences

CONSTANTS
  Fields,      \* the clauses that hold one value: limit, offset, column, ...
  Values,      \* the values of a field
  Columns,     \* names of columns
  Texts,       \* SQL filters
  Exprs,       \* DataFusion filters
  Unset,       \* no value, no list of columns, no filter
  NotUtf8,     \* what is no name
  MaxColumns   \* bound on a list of columns

VARIABLES
  fields,     \* the value of each field
  select,     \* the columns to return
  filter,     \* the filter: SQL, DataFusion or none
  columns,    \* the columns of a call of select
  selecting,  \* that has not returned
  request,    \* the clauses lancedb is asked for, or Unset
  rc          \* whether the last clause was taken

vars == <<fields, select, filter, columns, selecting, request, rc>>

Blank == [f \in Fields |-> Unset]

Init ==
  /\ fields = Blank /\ select = Unset /\ filter = Unset
  /\ columns = <<>> /\ selecting = FALSE
  /\ request = Unset /\ rc = "Success"

Set(f, v) ==
  /\ ~selecting
  /\ fields' = [fields EXCEPT ![f] = v]
  /\ rc' = "Success"
  /\ UNCHANGED <<select, filter, columns, selecting, request>>

FilterSql(text) ==
  /\ ~selecting
  /\ filter' = IF filter \in Exprs THEN filter ELSE text
  /\ rc' = "Success"
  /\ UNCHANGED <<fields, select, columns, selecting, request>>

FilterDataFusion(expr) ==
  /\ ~selecting
  /\ filter' = expr
  /\ rc' = "Success"
  /\ UNCHANGED <<fields, select, columns, selecting, request>>

Refuse ==
  /\ columns' = <<>> /\ selecting' = FALSE
  /\ rc' = "InvalidArgument"
  /\ UNCHANGED <<fields, select, filter, request>>

SelectBegin ==
  /\ ~selecting
  /\ columns' \in UNION {[1..n -> Columns \cup {NotUtf8}] : n \in 0..MaxColumns}
  /\ selecting' = TRUE
  /\ UNCHANGED <<fields, select, filter, request, rc>>

SelectAll ==
  /\ selecting /\ columns \in Seq(Columns)
  /\ select' = columns
  /\ columns' = <<>> /\ selecting' = FALSE
  /\ rc' = "Success"
  /\ UNCHANGED <<fields, filter, request>>

(* The query is used up, and is sent unless its vector was refused.        *)
Send ==
  /\ ~selecting
  /\ request' \in {Unset, [fields |-> fields, select |-> select, filter |-> filter]}
  /\ fields' = Blank /\ select' = Unset /\ filter' = Unset
  /\ UNCHANGED <<columns, selecting, rc>>

Answer ==
  /\ request' = Unset
  /\ UNCHANGED <<fields, select, filter, columns, selecting, rc>>

Next ==
  \/ \E f \in Fields, v \in Values : Set(f, v)
  \/ \E text \in Texts : FilterSql(text)
  \/ \E expr \in Exprs : FilterDataFusion(expr)
  \/ Refuse \/ SelectBegin \/ SelectAll
  \/ Send \/ Answer

Spec == Init /\ [][Next]_vars
=============================================================================
