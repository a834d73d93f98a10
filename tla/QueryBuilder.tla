----------------------------- MODULE QueryBuilder -----------------------------
(***************************************************************************)
(* The fields of LanceDBQuery and LanceDBVectorQuery, the setters that     *)
(* fill them, and the request their execution builds.  The list of columns *)
(* is read from the caller's array name by name, and may be refused in the *)
(* middle.  The two kinds of filter have a field each.                     *)
(***************************************************************************)
EXTENDS Naturals, Sequences

CONSTANTS
  PlainFields,   \* the fields with one value of every query: limit, offset
  VectorFields,  \* and of vector queries: column, distance_type, nprobes, ...
  Values,        \* values of such a field
  Columns,       \* names of columns
  Texts,         \* SQL filters
  Exprs,         \* DataFusion expressions
  Unset,         \* Option::None
  NotUtf8,       \* a null pointer, or a text that is not UTF-8
  MaxColumns     \* bound on the length of an array of columns

Fields == PlainFields \cup VectorFields

ASSUME QueryAssumption ==
  /\ MaxColumns \in Nat
  /\ PlainFields \cap VectorFields = {}
  /\ Unset \notin Values \cup Texts \cup Exprs \cup Seq(Columns)
  /\ Texts \cap Exprs = {}
  /\ NotUtf8 \notin Columns \cup Texts

VARIABLES
  stage,      \* "none", "building", "selecting" (inside select), "sent"
  kind,       \* "query" or "vector_query"
  fields,     \* the Option fields with one value
  select,     \* the columns to return
  filter,     \* the SQL filter
  df_filter,  \* the DataFusion filter
  columns,    \* the caller's array while select reads it
  names,      \* column_names, what select has read of it
  request,    \* what lancedb was asked, until it answers
  rc          \* what the last setter returned

queryVars == <<stage, kind, fields, select, filter, df_filter, columns, names, request, rc>>

Kind == {"query", "vector_query"}

FieldsOf(k) == IF k = "query" THEN PlainFields ELSE Fields

Blank == [f \in Fields |-> Unset]

ColumnArrays == UNION {[1..n -> Columns \cup {NotUtf8}] : n \in 0..MaxColumns}

QueryRequests == [fields : [Fields -> Values \cup {Unset}], select : Seq(Columns) \cup {Unset},
                  filter : Texts \cup Exprs \cup {Unset}]

QueryTypeOK ==
  /\ stage \in {"none", "building", "selecting", "sent"}
  /\ kind \in Kind
  /\ fields \in [Fields -> Values \cup {Unset}]
  /\ select \in Seq(Columns) \cup {Unset}
  /\ filter \in Texts \cup {Unset}
  /\ df_filter \in Exprs \cup {Unset}
  /\ columns \in ColumnArrays
  /\ names \in Seq(Columns)
  /\ request \in QueryRequests \cup {Unset}
  /\ rc \in {"Success", "InvalidArgument"}

QueryInit ==
  /\ stage = "none" /\ kind = "query"
  /\ fields = Blank /\ select = Unset /\ filter = Unset /\ df_filter = Unset
  /\ columns = <<>> /\ names = <<>>
  /\ request = Unset /\ rc = "Success"

(* query_new and vector_query_new.                                         *)
QueryNew(k) ==
  /\ stage = "none"
  /\ stage' = "building" /\ kind' = k
  /\ UNCHANGED <<fields, select, filter, df_filter, columns, names, request, rc>>

(* A setter refuses a null query or a text that is not UTF-8.              *)
Refused ==
  /\ stage = "building"
  /\ rc' = "InvalidArgument"
  /\ UNCHANGED <<stage, kind, fields, select, filter, df_filter, columns, names, request>>

SetField(f, v) ==
  /\ stage = "building" /\ f \in FieldsOf(kind)
  /\ fields' = [fields EXCEPT ![f] = v]
  /\ rc' = "Success"
  /\ UNCHANGED <<stage, kind, select, filter, df_filter, columns, names, request>>

Select(array) ==
  /\ stage = "building"
  /\ stage' = "selecting"
  /\ columns' = array /\ names' = <<>>
  /\ UNCHANGED <<kind, fields, select, filter, df_filter, request, rc>>

Next1 == columns[Len(names) + 1]

(* Mutant: a name is taken over unchecked.                                 *)
SelectColumnUnchecked ==
  /\ stage = "selecting" /\ Len(names) < Len(columns)
  /\ names' = Append(names, Next1)
  /\ UNCHANGED <<stage, kind, fields, select, filter, df_filter, columns, request, rc>>

(* Mutant: the columns go to the query as they are read.                   *)
SelectColumnInPlace ==
  /\ stage = "selecting" /\ Len(names) < Len(columns) /\ Next1 # NotUtf8
  /\ names' = Append(names, Next1)
  /\ select' = names'
  /\ UNCHANGED <<stage, kind, fields, filter, df_filter, columns, request, rc>>

SelectColumn ==
  /\ stage = "selecting" /\ Len(names) < Len(columns) /\ Next1 # NotUtf8
  /\ names' = Append(names, Next1)
  /\ UNCHANGED <<stage, kind, fields, select, filter, df_filter, columns, request, rc>>

SelectRefused ==
  /\ stage = "selecting" /\ Len(names) < Len(columns) /\ Next1 = NotUtf8
  /\ stage' = "building"
  /\ columns' = <<>> /\ names' = <<>>
  /\ rc' = "InvalidArgument"
  /\ UNCHANGED <<kind, fields, select, filter, df_filter, request>>

SelectDone ==
  /\ stage = "selecting" /\ Len(names) = Len(columns)
  /\ stage' = "building"
  /\ select' = names
  /\ columns' = <<>> /\ names' = <<>>
  /\ rc' = "Success"
  /\ UNCHANGED <<kind, fields, filter, df_filter, request>>

WhereFilter(text) ==
  /\ stage = "building"
  /\ filter' = text
  /\ rc' = "Success"
  /\ UNCHANGED <<stage, kind, fields, select, df_filter, columns, names, request>>

DfFilter(expr) ==
  /\ stage = "building"
  /\ df_filter' = expr
  /\ rc' = "Success"
  /\ UNCHANGED <<stage, kind, fields, select, filter, columns, names, request>>

(* The request is built from the fields that are set.                      *)
Built ==
  [fields |-> [f \in Fields |-> IF f \in FieldsOf(kind) THEN fields[f] ELSE Unset],
   select |-> select,
   filter |-> IF df_filter # Unset THEN df_filter ELSE filter]

(* The query is consumed; nearest_to may refuse the vector.                *)
Execute ==
  /\ stage = "building"
  /\ \/ request' = Built /\ stage' = "sent"
     \/ kind = "vector_query" /\ stage' = "none" /\ UNCHANGED request
  /\ fields' = Blank /\ select' = Unset /\ filter' = Unset /\ df_filter' = Unset
  /\ UNCHANGED <<kind, columns, names, rc>>

QueryFree ==
  /\ stage = "building"
  /\ stage' = "none"
  /\ fields' = Blank /\ select' = Unset /\ filter' = Unset /\ df_filter' = Unset
  /\ UNCHANGED <<kind, columns, names, request, rc>>

(* lancedb answers with a stream or an error.                              *)
Answered ==
  /\ stage = "sent"
  /\ stage' = "none"
  /\ request' = Unset
  /\ UNCHANGED <<kind, fields, select, filter, df_filter, columns, names, rc>>

QueryNext ==
  \/ \E k \in Kind : QueryNew(k)
  \/ Refused
  \/ \E f \in Fields, v \in Values : SetField(f, v)
  \/ \E array \in ColumnArrays : Select(array)
  \/ SelectColumn \/ SelectRefused \/ SelectDone
  \/ \E text \in Texts : WhereFilter(text)
  \/ \E expr \in Exprs : DfFilter(expr)
  \/ Execute \/ QueryFree \/ Answered

QuerySpec == QueryInit /\ [][QueryNext]_queryVars

-----------------------------------------------------------------------------
(* The query as its client sees it: one filter, the DataFusion one first.  *)
A == INSTANCE AbstractQuery WITH
       selecting <- stage = "selecting",
       filter <- IF df_filter # Unset THEN df_filter ELSE filter

(* The setters and the execution implement the abstract query: the request *)
(* has every clause as it was last accepted, whatever was refused between, *)
(* and the DataFusion filter whatever the order of the two filter setters. *)
AsksWhatWasSet == A!Spec
=============================================================================
