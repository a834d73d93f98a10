---------------------------- MODULE RequestsProofs ----------------------------
(***************************************************************************)
(* Proofs about Requests, for any sets of fields, values, columns and      *)
(* filters.                                                                *)
(***************************************************************************)
EXTENDS Requests, TLAPS

(* What the fields of a query are at each stage of its life.               *)
QueryFits ==
  /\ stage \in {"none", "sent"} =>
       fields = Blank /\ select = Unset /\ filter = Unset /\ df_filter = Unset
  /\ kind = "query" => \A f \in VectorFields : fields[f] = Unset
  /\ stage # "selecting" => columns = <<>> /\ names = <<>>
  /\ stage = "selecting" =>
       Len(names) <= Len(columns) /\ \A n \in 1..Len(names) : names[n] = columns[n]
  /\ stage # "sent" => request = Unset

QInv == QueryTypeOK /\ QueryFits

-----------------------------------------------------------------------------

LEMMA EmptyTyped == <<>> \in ColumnArrays /\ <<>> \in Seq(Columns) /\ Len(<<>>) = 0
<1>1. <<>> \in [1..0 -> Columns \cup {NotUtf8}]
  OBVIOUS
<1>2. 0 \in 0..MaxColumns
  BY QueryAssumption
<1>. QED BY <1>1, <1>2 DEF ColumnArrays

LEMMA ArrayTyped ==
  ASSUME NEW array \in ColumnArrays
  PROVE  /\ array \in Seq(Columns \cup {NotUtf8})
         /\ Len(array) \in Nat /\ DOMAIN array = 1..Len(array)
<1>1. PICK n \in 0..MaxColumns : array \in [1..n -> Columns \cup {NotUtf8}]
  BY DEF ColumnArrays
<1>. QED BY <1>1, QueryAssumption

LEMMA InitQuery == QueryInit => QInv
<1>. SUFFICES ASSUME QueryInit PROVE QInv
  OBVIOUS
<1>. QED BY EmptyTyped DEF QueryInit, QInv, QueryTypeOK, QueryFits, Kind, Blank, Fields

LEMMA NextQuery == QInv /\ [QueryNext]_queryVars => QInv'
<1>. SUFFICES ASSUME QInv, [QueryNext]_queryVars PROVE QInv'
  OBVIOUS
<1>. USE DEF QInv, QueryTypeOK, QueryFits
<1>1. ASSUME NEW k \in Kind, QueryNew(k) PROVE QInv'
  BY <1>1 DEF QueryNew, Blank, Fields
<1>2. CASE Refused
  BY <1>2 DEF Refused
<1>3. ASSUME NEW f \in Fields, NEW v \in Values, SetField(f, v) PROVE QInv'
  <2>1. kind = "query" => f \notin VectorFields
    BY <1>3, QueryAssumption DEF SetField, FieldsOf
  <2>. QED BY <1>3, <2>1 DEF SetField
<1>4. ASSUME NEW array \in ColumnArrays, Select(array) PROVE QInv'
  <2>1. Len(<<>>) <= Len(array)
    BY ArrayTyped, EmptyTyped
  <2>. QED BY <1>4, <2>1, EmptyTyped DEF Select
<1>5. CASE SelectColumn
  <2>1. Next1 \in Columns /\ Len(names) + 1 <= Len(columns) /\ Len(names) \in Nat
    BY <1>5, ArrayTyped DEF SelectColumn, Next1
  <2>2. /\ names' \in Seq(Columns) /\ Len(names') = Len(names) + 1
        /\ \A n \in 1..Len(names') : names'[n] = columns[n]
    BY <1>5, <2>1 DEF SelectColumn, Next1
  <2>. QED BY <1>5, <2>1, <2>2 DEF SelectColumn
<1>6. CASE SelectRefused
  BY <1>6, EmptyTyped DEF SelectRefused
<1>7. CASE SelectDone
  BY <1>7, EmptyTyped DEF SelectDone
<1>8. ASSUME NEW text \in Texts, WhereFilter(text) PROVE QInv'
  BY <1>8 DEF WhereFilter
<1>9. ASSUME NEW expr \in Exprs, DfFilter(expr) PROVE QInv'
  BY <1>9 DEF DfFilter
<1>10. CASE Execute
  <2>1. Built \in QueryRequests
    BY DEF Built, QueryRequests, Kind, FieldsOf, Fields
  <2>2. Blank \in [Fields -> Values \cup {Unset}] /\ \A f \in VectorFields : Blank[f] = Unset
    BY DEF Blank, Fields
  <2>. QED BY <1>10, <2>1, <2>2 DEF Execute
<1>11. CASE QueryFree
  <2>1. Blank \in [Fields -> Values \cup {Unset}] /\ \A f \in VectorFields : Blank[f] = Unset
    BY DEF Blank, Fields
  <2>. QED BY <1>11, <2>1 DEF QueryFree
<1>12. CASE Answered
  BY <1>12 DEF Answered
<1>13. CASE UNCHANGED queryVars
  BY <1>13 DEF queryVars
<1>. QED BY <1>1, <1>2, <1>3, <1>4, <1>5, <1>6, <1>7, <1>8, <1>9, <1>10, <1>11, <1>12, <1>13 DEF QueryNext

-----------------------------------------------------------------------------
(* The query implements its abstract specification.                        *)

Filter == IF df_filter # Unset THEN df_filter ELSE filter

LEMMA InitRefines == QueryInit => A!Init
  BY DEF QueryInit, A!Init, A!Blank, Blank

LEMMA StepRefines == QInv /\ [QueryNext]_queryVars => [A!Next]_A!vars
<1>. SUFFICES ASSUME QInv, [QueryNext]_queryVars PROVE [A!Next]_A!vars
  OBVIOUS
<1>. USE DEF A!Next, A!vars
<1>1. ASSUME NEW k \in Kind, QueryNew(k) PROVE [A!Next]_A!vars
  BY <1>1 DEF QueryNew
<1>2. CASE Refused
  <2>1. A!Refuse
    BY <1>2 DEF Refused, A!Refuse, QInv, QueryFits
  <2>. QED BY <2>1
<1>3. ASSUME NEW f \in Fields, NEW v \in Values, SetField(f, v) PROVE [A!Next]_A!vars
  <2>1. A!Set(f, v)
    BY <1>3 DEF SetField, A!Set
  <2>. QED BY <2>1
<1>4. ASSUME NEW array \in ColumnArrays, Select(array) PROVE [A!Next]_A!vars
  <2>1. A!SelectBegin
    BY <1>4 DEF Select, A!SelectBegin, ColumnArrays
  <2>. QED BY <2>1
<1>5. CASE SelectColumn
  BY <1>5 DEF SelectColumn
<1>6. CASE SelectRefused
  <2>1. A!Refuse
    BY <1>6 DEF SelectRefused, A!Refuse
  <2>. QED BY <2>1
<1>7. CASE SelectDone
  <2>1. columns = names
    BY <1>7, ArrayTyped DEF SelectDone, QInv, QueryTypeOK, QueryFits
  <2>2. A!SelectAll
    BY <1>7, <2>1 DEF SelectDone, A!SelectAll, QInv, QueryTypeOK
  <2>. QED BY <2>2
<1>8. ASSUME NEW text \in Texts, WhereFilter(text) PROVE [A!Next]_A!vars
  <2>1. Filter \in Exprs <=> df_filter # Unset
    BY QueryAssumption DEF Filter, QInv, QueryTypeOK
  <2>2. A!FilterSql(text)
    BY <1>8, <2>1 DEF WhereFilter, A!FilterSql, Filter
  <2>. QED BY <2>2
<1>9. ASSUME NEW expr \in Exprs, DfFilter(expr) PROVE [A!Next]_A!vars
  <2>1. expr # Unset
    BY QueryAssumption
  <2>2. A!FilterDataFusion(expr)
    BY <1>9, <2>1 DEF DfFilter, A!FilterDataFusion
  <2>. QED BY <2>2
<1>10. CASE Execute
  <2>1. Built = [fields |-> fields, select |-> select, filter |-> Filter]
    <3>1. [f \in Fields |-> IF f \in FieldsOf(kind) THEN fields[f] ELSE Unset] = fields
      BY DEF QInv, QueryTypeOK, QueryFits, Kind, FieldsOf, Fields
    <3>. QED BY <3>1 DEF Built, Filter
  <2>2. request = Unset
    BY <1>10 DEF Execute, QInv, QueryFits
  <2>3. A!Send
    BY <1>10, <2>1, <2>2 DEF Execute, A!Send, A!Blank, Blank, Filter
  <2>. QED BY <2>3
<1>11. CASE QueryFree
  <2>1. request = Unset
    BY <1>11 DEF QueryFree, QInv, QueryFits
  <2>2. A!Send
    BY <1>11, <2>1 DEF QueryFree, A!Send, A!Blank, Blank
  <2>. QED BY <2>2
<1>12. CASE Answered
  <2>1. A!Answer
    BY <1>12 DEF Answered, A!Answer
  <2>. QED BY <2>1
<1>13. CASE UNCHANGED queryVars
  BY <1>13 DEF queryVars
<1>. QED BY <1>1, <1>2, <1>3, <1>4, <1>5, <1>6, <1>7, <1>8, <1>9, <1>10, <1>11, <1>12, <1>13 DEF QueryNext

LEMMA StepIsQueryStep == [Next]_vars => [QueryNext]_queryVars
<1>. SUFFICES ASSUME [Next]_vars PROVE [QueryNext]_queryVars
  OBVIOUS
<1>1. CASE Queries
  BY <1>1 DEF Queries
<1>2. CASE Calls
  <2>1. UNCHANGED queryVars
    BY <1>2 DEF Calls, CallRejected, CreateVectorIndex, CreateScalarIndex, CreateFtsIndex,
                TableMergeInsert, TableOptimize, SessionNew, Call
  <2>. QED BY <2>1
<1>3. CASE LancedbAnswers \/ HandleError \/ GoesOn \/ UNCHANGED vars
  BY <1>3 DEF LancedbAnswers, HandleError, GoesOn, vars
<1>. QED BY <1>1, <1>2, <1>3 DEF Next

LEMMA SpecQuery == Spec => []QInv
<1>1. Init => QInv
  BY InitQuery DEF Init
<1>2. QInv /\ [Next]_vars => QInv'
  BY StepIsQueryStep, NextQuery
<1>. QED BY <1>1, <1>2, PTL DEF Spec

(* Whatever is set, refused and executed in between, lancedb is asked for  *)
(* the clauses as they were last accepted.                                 *)
THEOREM QueriesAskWhatWasSet == Spec => AsksWhatWasSet
<1>1. Init => A!Init
  BY InitRefines DEF Init
<1>2. QInv /\ [Next]_vars => [A!Next]_A!vars
  BY StepIsQueryStep, StepRefines
<1>. QED BY <1>1, <1>2, SpecQuery, PTL DEF Spec, AsksWhatWasSet, A!Spec

-----------------------------------------------------------------------------
(* Merges.                                                                 *)

LEMMA MergeInsertMeant ==
  ASSUME NEW config \in LanceDBMergeInsertConfig, given.config = config,
         asked = MergeInsert(config)
  PROVE  MergeIsMeant
<1>. DEFINE c == config
            Conditions == {c.condition, c.expr} \ {Null}
<1>1. /\ c.update_all \in {0, 1} /\ c.insert_all \in {0, 1}
      /\ c.condition \in Texts \cup {Null, BadText} /\ c.expr \in Exprs \cup {Null}
  BY DEF LanceDBMergeInsertConfig, Bools
<1>2. \A u, i : /\ Merge(u, i).op = "merge_insert" /\ Merge(u, i).update = u
                /\ Merge(u, i).insert = i /\ Merge(u, i) # Rejected
  BY DEF Merge, Rejected
<1>3. Rejected.op = "rejected"
  BY DEF Rejected
<1>4. (c.insert_all # 0) = (c.insert_all = 1)
  BY <1>1
<1>. SUFFICES ASSUME config # Null
     PROVE  IF c.update_all = 0
              THEN asked = Merge("no", c.insert_all = 1)
              ELSE
                /\ asked.op = "merge_insert" => asked.insert = (c.insert_all = 1)
                /\ Conditions = {} <=> asked.op = "merge_insert" /\ asked.update = "all"
                /\ Conditions # {} /\ asked.op = "merge_insert" => Conditions = {asked.update}
                /\ asked = Rejected <=> (Conditions = {c.condition, c.expr} \/ c.condition = BadText)
  BY DEF MergeIsMeant
<1>5. CASE c.update_all = 0
  BY <1>4, <1>5 DEF MergeInsert
<1>6. CASE c.update_all # 0 /\ c.expr # Null /\ c.condition # Null
  <2>1. asked = Rejected
    BY <1>6 DEF MergeInsert
  <2>2. Conditions = {c.condition, c.expr}
    BY <1>6
  <2>. QED BY <1>3, <1>6, <2>1, <2>2
<1>7. CASE c.update_all # 0 /\ c.expr # Null /\ c.condition = Null
  <2>1. asked = Merge(c.expr, c.insert_all = 1)
    BY <1>4, <1>7 DEF MergeInsert
  <2>2. Conditions = {c.expr} /\ c.expr # "all" /\ Conditions # {c.condition, c.expr} /\ c.condition # BadText
    BY <1>1, <1>7, RequestAssumption
  <2>. QED BY <1>2, <1>7, <2>1, <2>2
<1>8. CASE c.update_all # 0 /\ c.expr = Null /\ c.condition = BadText
  <2>1. asked = Rejected
    BY <1>8 DEF MergeInsert
  <2>2. Conditions = {BadText}
    BY <1>8, RequestAssumption
  <2>. QED BY <1>3, <1>8, <2>1, <2>2
<1>9. CASE c.update_all # 0 /\ c.expr = Null /\ c.condition = Null
  <2>1. asked = Merge("all", c.insert_all = 1)
    BY <1>4, <1>9, RequestAssumption DEF MergeInsert
  <2>2. Conditions = {} /\ Conditions # {c.condition, c.expr} /\ c.condition # BadText
    BY <1>9, RequestAssumption
  <2>. QED BY <1>2, <1>9, <2>1, <2>2
<1>10. CASE c.update_all # 0 /\ c.expr = Null /\ c.condition \in Texts
  <2>1. c.condition # Null /\ c.condition # BadText /\ c.condition # "all"
    BY <1>10, RequestAssumption
  <2>2. asked = Merge(c.condition, c.insert_all = 1)
    BY <1>4, <1>10, <2>1 DEF MergeInsert
  <2>3. Conditions = {c.condition} /\ Conditions # {c.condition, c.expr}
    BY <1>10, <2>1
  <2>. QED BY <1>2, <1>10, <2>1, <2>2, <2>3
<1>. QED BY <1>1, <1>5, <1>6, <1>7, <1>8, <1>9, <1>10

MergeFits ==
  given.op = "merge_insert" =>
    /\ given.config \in LanceDBMergeInsertConfig \cup {Null}
    /\ asked = MergeInsert(given.config)

LEMMA NextMerge == MergeFits /\ [Next]_vars => MergeFits'
<1>. SUFFICES ASSUME MergeFits, [Next]_vars PROVE MergeFits'
  OBVIOUS
<1>1. CASE Queries \/ HandleError \/ UNCHANGED vars
  BY <1>1 DEF Queries, HandleError, vars, MergeFits
<1>2. CASE LancedbAnswers \/ GoesOn
  <2>1. given'.op = "none"
    BY <1>2 DEF LancedbAnswers, GoesOn, Nothing
  <2>. QED BY <2>1 DEF MergeFits
<1>3. CASE Calls
  <2>1. ASSUME NEW config \in LanceDBMergeInsertConfig \cup {Null}, TableMergeInsert(config)
        PROVE  MergeFits'
    BY <2>1 DEF TableMergeInsert, Call, MergeFits
  <2>2. ASSUME ~ \E config \in LanceDBMergeInsertConfig \cup {Null} : TableMergeInsert(config)
        PROVE  given'.op # "merge_insert"
    BY <1>3, <2>2 DEF Calls, CallRejected, CreateVectorIndex, CreateScalarIndex, CreateFtsIndex,
                      TableOptimize, SessionNew, Call, Nothing
  <2>. QED BY <2>1, <2>2 DEF MergeFits
<1>. QED BY <1>1, <1>2, <1>3 DEF Next

(* lancedb_table_merge_insert never updates more rows than its             *)
(* configuration says, whatever the conditions are.                        *)
THEOREM MergesAreMeant == Spec => []MergeIsMeant
<1>1. Init => MergeFits
  BY DEF Init, Nothing, MergeFits
<1>2. MergeFits => MergeIsMeant
  <2>. SUFFICES ASSUME MergeFits, given.op = "merge_insert", given.config # Null PROVE MergeIsMeant
    BY DEF MergeIsMeant
  <2>. QED BY MergeInsertMeant DEF MergeFits
<1>. QED BY <1>1, <1>2, NextMerge, PTL DEF Spec

-----------------------------------------------------------------------------
(* Codes.                                                                  *)

LEMMA ErrorMembers ==
  ASSUME NEW variant, NEW source, NEW own, NEW e \in Error(variant, source, own)
  PROVE  e.variant = variant /\ e.source = source /\ e.marks = own \cup e.quoted
  BY DEF Error

LEMMA PlainMembers ==
  ASSUME NEW variant, NEW source, NEW e \in Error(variant, source, {})
  PROVE  e.variant = variant /\ e.source = source /\ e.marks = e.quoted
<1>1. e.variant = variant /\ e.source = source /\ e.marks = {} \cup e.quoted
  BY DEF Error
<1>2. \A q : {} \cup q = q
  OBVIOUS
<1>. QED BY <1>1, <1>2

LEMMA MissingMembers ==
  ASSUME NEW marker, NEW e \in Missing(marker)
  PROVE  e.variant \in {"Runtime", "Lance"} /\ e.marks = {marker} \cup e.quoted
<1>1. CASE e \in Error("Runtime", "none", {marker})
  <2>1. e.variant = "Runtime" /\ e.marks = {marker} \cup e.quoted
    BY ONLY <1>1, ErrorMembers
  <2>. QED BY <2>1
<1>2. CASE e \in Error("Lance", "Namespace", {marker})
  <2>1. e.variant = "Lance" /\ e.marks = {marker} \cup e.quoted
    BY ONLY <1>2, ErrorMembers
  <2>. QED BY <2>1
<1>. QED BY <1>1, <1>2 DEF Missing

LEMMA StoredMembers ==
  ASSUME NEW marker, NEW e \in Stored(marker)
  PROVE  \/ e.variant \in {"ObjectStore", "Lance"} /\ e.marks = {marker} \cup e.quoted
         \/ /\ e.variant = "InvalidInput"
            /\ e.marks = {NAMESPACE_CONNECT_FAILED, marker} \cup e.quoted
<1>1. CASE e \in Error("ObjectStore", "none", {marker})
  <2>1. e.variant = "ObjectStore" /\ e.marks = {marker} \cup e.quoted
    BY ONLY <1>1, ErrorMembers
  <2>. QED BY <2>1
<1>2. CASE e \in Error("Lance", "other", {marker})
  <2>1. e.variant = "Lance" /\ e.marks = {marker} \cup e.quoted
    BY ONLY <1>2, ErrorMembers
  <2>. QED BY <2>1
<1>3. CASE e \in Error("InvalidInput", "none", {NAMESPACE_CONNECT_FAILED, marker})
  <2>1. e.variant = "InvalidInput" /\ e.marks = {NAMESPACE_CONNECT_FAILED, marker} \cup e.quoted
    BY ONLY <1>3, ErrorMembers
  <2>. QED BY <2>1
<1>. QED BY <1>1, <1>2, <1>3 DEF Stored

(* error_to_error_code, variant by variant.                                *)
LEMMA CodeOfVariant ==
  ASSUME NEW e
  PROVE  /\ e.variant \in Named => error_to_error_code(e) = e.variant
         /\ e.variant = "External" => error_to_error_code(e) = "Other"
         /\ e.variant = "InvalidInput" /\ NAMESPACE_CONNECT_FAILED \notin e.marks =>
              error_to_error_code(e) = "InvalidInput"
         /\ e.variant = "InvalidInput" /\ NAMESPACE_CONNECT_FAILED \in e.marks =>
              error_to_error_code(e) = storage_failure_from_message(e.marks, "Lance")
         /\ e.variant = "Runtime" => error_to_error_code(e) = not_found_from_message(e.marks, "Runtime")
         /\ e.variant = "ObjectStore" =>
              error_to_error_code(e) = storage_failure_from_message(e.marks, "ObjectStore")
         /\ e.variant = "Lance" =>
              error_to_error_code(e) =
                not_found_from_message(e.marks,
                  storage_failure_from_message(e.marks, Fallback(e.source)))
<1>1. /\ e.variant \in Named => error_to_error_code(e) = e.variant
      /\ e.variant = "External" => error_to_error_code(e) = "Other"
  BY DEF error_to_error_code, Named
<1>2. e.variant = "InvalidInput" =>
        error_to_error_code(e) = IF NAMESPACE_CONNECT_FAILED \in e.marks
           THEN storage_failure_from_message(e.marks, "Lance") ELSE "InvalidInput"
  BY DEF error_to_error_code, Named
<1>3. /\ e.variant = "Runtime" => error_to_error_code(e) = not_found_from_message(e.marks, "Runtime")
      /\ e.variant = "ObjectStore" =>
           error_to_error_code(e) = storage_failure_from_message(e.marks, "ObjectStore")
  BY DEF error_to_error_code, Named
<1>4. e.variant = "Lance" =>
        error_to_error_code(e) =
          not_found_from_message(e.marks, storage_failure_from_message(e.marks, Fallback(e.source)))
  BY DEF error_to_error_code, Named
<1>. QED BY <1>1, <1>2, <1>3, <1>4

LEMMA MarkersDiffer ==
  /\ NAMESPACE_TABLE_NOT_FOUND \notin StorageMarkers \cup {NAMESPACE_NOT_FOUND, NAMESPACE_CONNECT_FAILED}
  /\ NAMESPACE_NOT_FOUND \notin StorageMarkers \cup {NAMESPACE_CONNECT_FAILED}
  /\ NAMESPACE_CONNECT_FAILED \notin StorageMarkers
  /\ PERMISSION_DENIED_MARKERS \cap NOT_FOUND_MARKERS = {}
  /\ StorageMarkers = PERMISSION_DENIED_MARKERS \cup NOT_FOUND_MARKERS
  BY DEF StorageMarkers, PERMISSION_DENIED_MARKERS, NOT_FOUND_MARKERS, NAMESPACE_TABLE_NOT_FOUND,
         NAMESPACE_NOT_FOUND, NAMESPACE_CONNECT_FAILED

(* A marker comes back as the code of what it stands for.                  *)
LEMMA MarkersTold ==
  /\ "TableNotFound" \in CodesOf(CauseOf(NAMESPACE_TABLE_NOT_FOUND))
  /\ "DatabaseNotFound" \in CodesOf(CauseOf(NAMESPACE_NOT_FOUND))
  /\ "Lance" \in CodesOf(CauseOf(NAMESPACE_CONNECT_FAILED))
  /\ \A m \in PERMISSION_DENIED_MARKERS : "PermissionDenied" \in CodesOf(CauseOf(m))
  /\ \A m \in NOT_FOUND_MARKERS : "NotFound" \in CodesOf(CauseOf(m))
<1>1. /\ CauseOf(NAMESPACE_TABLE_NOT_FOUND) = "table missing"
      /\ CauseOf(NAMESPACE_NOT_FOUND) = "namespace missing"
      /\ CauseOf(NAMESPACE_CONNECT_FAILED) = "no connection"
  BY MarkersDiffer DEF CauseOf
<1>2. \A m \in PERMISSION_DENIED_MARKERS : CauseOf(m) = "access denied"
  BY MarkersDiffer DEF CauseOf
<1>3. \A m \in NOT_FOUND_MARKERS : CauseOf(m) = "bucket missing"
  BY MarkersDiffer DEF CauseOf
<1>. QED BY <1>1, <1>2, <1>3 DEF CodesOf

(* Which marker of a text decides.                                         *)
LEMMA NotFoundDecides ==
  ASSUME NEW marks, NEW otherwise
  PROVE  LET c == not_found_from_message(marks, otherwise) IN
           \/ NAMESPACE_TABLE_NOT_FOUND \in marks /\ c = "TableNotFound"
           \/ /\ NAMESPACE_TABLE_NOT_FOUND \notin marks /\ NAMESPACE_NOT_FOUND \in marks
              /\ c = "DatabaseNotFound"
           \/ marks \cap NamespaceMarkers = {} /\ c = otherwise
  BY DEF not_found_from_message, NamespaceMarkers

LEMMA StorageDecides ==
  ASSUME NEW marks, NEW otherwise
  PROVE  LET c == storage_failure_from_message(marks, otherwise) IN
           \/ \E m \in PERMISSION_DENIED_MARKERS : m \in marks /\ c = "PermissionDenied"
           \/ /\ marks \cap PERMISSION_DENIED_MARKERS = {}
              /\ \E m \in NOT_FOUND_MARKERS : m \in marks /\ c = "NotFound"
           \/ marks \cap StorageMarkers = {} /\ c = otherwise
  BY MarkersDiffer DEF storage_failure_from_message

(* A code that comes from the cause, or from a quoted marker.              *)
Told(c, cause, quoted) ==
  \/ c \in CodesOf(cause)
  \/ \E marker \in Misleading(cause, quoted) : c \in CodesOf(CauseOf(marker))

(* A quoted marker that misleads is told.                                  *)
LEMMA MisledTold ==
  ASSUME NEW cause, NEW quoted, NEW m \in Misleading(cause, quoted)
  PROVE  /\ m = NAMESPACE_TABLE_NOT_FOUND => Told("TableNotFound", cause, quoted)
         /\ m = NAMESPACE_NOT_FOUND => Told("DatabaseNotFound", cause, quoted)
         /\ m = NAMESPACE_CONNECT_FAILED => Told("Lance", cause, quoted)
         /\ m \in PERMISSION_DENIED_MARKERS => Told("PermissionDenied", cause, quoted)
         /\ m \in NOT_FOUND_MARKERS => Told("NotFound", cause, quoted)
<1>1. \A c \in CodesOf(CauseOf(m)) : Told(c, cause, quoted)
  BY DEF Told
<1>. QED BY <1>1, MarkersTold

(* The causes that have no marker and may be misled by all.                *)
Unmarked == {"object missing", "index missing", "namespace failed", "corrupted", "failed elsewhere"}

LEMMA MisleadingOf ==
  ASSUME NEW quoted
  PROVE  /\ Misleading("namespace missing", quoted) = quoted \cap {NAMESPACE_TABLE_NOT_FOUND}
         /\ Misleading("access denied", quoted) = quoted \cap NamespaceMarkers
         /\ Misleading("bucket missing", quoted) =
              quoted \cap (NamespaceMarkers \cup PERMISSION_DENIED_MARKERS)
         /\ Misleading("no connection", quoted) = quoted \cap StorageMarkers
         /\ NAMESPACE_CONNECT_FAILED \in quoted =>
              Misleading("input refused", quoted) =
                quoted \cap (StorageMarkers \cup {NAMESPACE_CONNECT_FAILED})
         /\ \A cause \in Unmarked :
              Misleading(cause, quoted) = quoted \cap (NamespaceMarkers \cup StorageMarkers)
  BY DEF Misleading, Unmarked

LEMMA UnmarkedTold ==
  ASSUME NEW cause \in Unmarked, NEW quoted, NEW source, NEW e,
         e.source = source, e.marks = quoted,
         \/ e.variant = "Lance" /\ Fallback(source) \in CodesOf(cause)
         \/ e.variant = "Runtime" /\ "Runtime" \in CodesOf(cause)
         \/ e.variant = "ObjectStore" /\ "ObjectStore" \in CodesOf(cause)
  PROVE  Told(error_to_error_code(e), cause, quoted)
<1>1. \A m \in quoted \cap (NamespaceMarkers \cup StorageMarkers) :
        \A c \in CodesOf(CauseOf(m)) : Told(c, cause, quoted)
  BY MisleadingOf DEF Told
<1>2. NAMESPACE_TABLE_NOT_FOUND \in quoted => Told("TableNotFound", cause, quoted)
  BY <1>1, MarkersTold DEF NamespaceMarkers
<1>3. NAMESPACE_NOT_FOUND \in quoted => Told("DatabaseNotFound", cause, quoted)
  BY <1>1, MarkersTold DEF NamespaceMarkers
<1>4. \A m \in PERMISSION_DENIED_MARKERS : m \in quoted => Told("PermissionDenied", cause, quoted)
  BY <1>1, MarkersTold, MarkersDiffer
<1>5. \A m \in NOT_FOUND_MARKERS : m \in quoted => Told("NotFound", cause, quoted)
  BY <1>1, MarkersTold, MarkersDiffer
<1>6. \A c \in CodesOf(cause) : Told(storage_failure_from_message(quoted, c), cause, quoted)
  <2>. TAKE c \in CodesOf(cause)
  <2>1. Told(c, cause, quoted)
    BY DEF Told
  <2>. QED BY <2>1, <1>4, <1>5, StorageDecides
<1>7. CASE e.variant = "Lance" /\ Fallback(source) \in CodesOf(cause)
  <2>1. error_to_error_code(e) =
          not_found_from_message(quoted, storage_failure_from_message(quoted, Fallback(source)))
    BY <1>7, CodeOfVariant
  <2>2. Told(storage_failure_from_message(quoted, Fallback(source)), cause, quoted)
    BY <1>6, <1>7
  <2>. QED BY <2>1, <2>2, <1>2, <1>3, NotFoundDecides
<1>8. CASE e.variant = "Runtime" /\ "Runtime" \in CodesOf(cause)
  <2>1. error_to_error_code(e) = not_found_from_message(quoted, "Runtime")
    BY <1>8, CodeOfVariant
  <2>2. Told("Runtime", cause, quoted)
    BY <1>8 DEF Told
  <2>. QED BY <2>1, <2>2, <1>2, <1>3, NotFoundDecides
<1>9. CASE e.variant = "ObjectStore" /\ "ObjectStore" \in CodesOf(cause)
  <2>1. error_to_error_code(e) = storage_failure_from_message(quoted, "ObjectStore")
    BY <1>9, CodeOfVariant
  <2>. QED BY <2>1, <1>6, <1>9
<1>. QED BY <1>7, <1>8, <1>9

LEMMA CauseTold ==
  ASSUME NEW cause \in Cause, NEW e \in Raised(cause)
  PROVE  Told(error_to_error_code(e), cause, e.quoted)
<1>. DEFINE c == error_to_error_code(e)
            quoted == e.quoted
<1>1. CASE cause = "table missing"
  <2>1. CASE e \in Missing(NAMESPACE_TABLE_NOT_FOUND)
    <3>1. e.variant \in {"Runtime", "Lance"} /\ NAMESPACE_TABLE_NOT_FOUND \in e.marks
      BY <2>1, MissingMembers
    <3>2. c = "TableNotFound"
      BY <3>1, CodeOfVariant, NotFoundDecides DEF NamespaceMarkers
    <3>. QED BY <1>1, <3>2 DEF Told, CodesOf
  <2>2. CASE e \in Error("TableNotFound", "none", {})
    <3>1. e.variant = "TableNotFound"
      BY ONLY <2>2, ErrorMembers
    <3>2. c = "TableNotFound"
      BY <3>1, CodeOfVariant DEF Named
    <3>. QED BY <1>1, <3>2 DEF Told, CodesOf
  <2>. QED BY <1>1, <2>1, <2>2 DEF Raised
<1>2. CASE cause = "namespace missing"
  <2>1. e \in Missing(NAMESPACE_NOT_FOUND)
    BY <1>2 DEF Raised
  <2>2. e.variant \in {"Runtime", "Lance"} /\ e.marks = {NAMESPACE_NOT_FOUND} \cup quoted
    BY <2>1, MissingMembers
  <2>3. \/ NAMESPACE_TABLE_NOT_FOUND \in quoted /\ c = "TableNotFound"
        \/ c = "DatabaseNotFound"
    BY <2>2, CodeOfVariant, NotFoundDecides, MarkersDiffer DEF NamespaceMarkers
  <2>4. NAMESPACE_TABLE_NOT_FOUND \in quoted => Told("TableNotFound", cause, quoted)
    BY <1>2, MisledTold, MisleadingOf
  <2>5. Told("DatabaseNotFound", cause, quoted)
    BY <1>2 DEF Told, CodesOf
  <2>. QED BY <2>3, <2>4, <2>5
<1>3. CASE cause = "access denied"
  <2>1. PICK marker \in PERMISSION_DENIED_MARKERS : e \in Stored(marker)
    BY <1>3 DEF Raised
  <2>2. \A otherwise : storage_failure_from_message(e.marks, otherwise) = "PermissionDenied"
    BY <2>1, StoredMembers DEF storage_failure_from_message
  <2>3. \/ NAMESPACE_TABLE_NOT_FOUND \in quoted /\ c = "TableNotFound"
        \/ NAMESPACE_NOT_FOUND \in quoted /\ c = "DatabaseNotFound"
        \/ c = "PermissionDenied"
    <3>1. CASE e.variant = "Lance"
      <4>1. e.marks = {marker} \cup quoted
        BY <2>1, <3>1, StoredMembers
      <4>2. c = not_found_from_message(e.marks, "PermissionDenied")
        BY <2>2, <3>1, CodeOfVariant
      <4>. QED BY <2>1, <4>1, <4>2, NotFoundDecides, MarkersDiffer
    <3>2. CASE e.variant = "ObjectStore"
      BY <2>2, <3>2, CodeOfVariant
    <3>3. CASE e.variant = "InvalidInput"
      <4>1. NAMESPACE_CONNECT_FAILED \in e.marks
        BY <2>1, <3>3, StoredMembers
      <4>. QED BY <2>2, <3>3, <4>1, CodeOfVariant
    <3>. QED BY <2>1, <3>1, <3>2, <3>3, StoredMembers
  <2>4. /\ NAMESPACE_TABLE_NOT_FOUND \in quoted => Told("TableNotFound", cause, quoted)
        /\ NAMESPACE_NOT_FOUND \in quoted => Told("DatabaseNotFound", cause, quoted)
    BY <1>3, MisledTold, MisleadingOf DEF NamespaceMarkers
  <2>5. Told("PermissionDenied", cause, quoted)
    BY <1>3 DEF Told, CodesOf
  <2>. QED BY <2>3, <2>4, <2>5
<1>4. CASE cause = "bucket missing"
  <2>1. PICK marker \in NOT_FOUND_MARKERS : e \in Stored(marker)
    BY <1>4 DEF Raised
  <2>2. e.marks \cap PERMISSION_DENIED_MARKERS \subseteq quoted
    BY <2>1, StoredMembers, MarkersDiffer
  <2>3. \A otherwise :
          \/ /\ storage_failure_from_message(e.marks, otherwise) = "PermissionDenied"
             /\ \E m \in PERMISSION_DENIED_MARKERS : m \in quoted
          \/ storage_failure_from_message(e.marks, otherwise) = "NotFound"
    BY <2>1, <2>2, StoredMembers DEF storage_failure_from_message
  <2>4. \/ NAMESPACE_TABLE_NOT_FOUND \in quoted /\ c = "TableNotFound"
        \/ NAMESPACE_NOT_FOUND \in quoted /\ c = "DatabaseNotFound"
        \/ c = "PermissionDenied" /\ \E m \in PERMISSION_DENIED_MARKERS : m \in quoted
        \/ c = "NotFound"
    <3>1. CASE e.variant = "Lance"
      <4>1. e.marks = {marker} \cup quoted
        BY <2>1, <3>1, StoredMembers
      <4>2. c = not_found_from_message(e.marks,
                  storage_failure_from_message(e.marks, Fallback(e.source)))
        BY <3>1, CodeOfVariant
      <4>3. \/ NAMESPACE_TABLE_NOT_FOUND \in e.marks /\ c = "TableNotFound"
            \/ NAMESPACE_NOT_FOUND \in e.marks /\ c = "DatabaseNotFound"
            \/ c = storage_failure_from_message(e.marks, Fallback(e.source))
        BY <4>2, NotFoundDecides
      <4>4. marker \notin {NAMESPACE_TABLE_NOT_FOUND, NAMESPACE_NOT_FOUND}
        BY <2>1, MarkersDiffer
      <4>. QED BY <2>3, <4>1, <4>3, <4>4
    <3>2. CASE e.variant = "ObjectStore"
      BY <2>3, <3>2, CodeOfVariant
    <3>3. CASE e.variant = "InvalidInput"
      <4>1. NAMESPACE_CONNECT_FAILED \in e.marks
        BY <2>1, <3>3, StoredMembers
      <4>. QED BY <2>3, <3>3, <4>1, CodeOfVariant
    <3>. QED BY <2>1, <3>1, <3>2, <3>3, StoredMembers
  <2>5. /\ NAMESPACE_TABLE_NOT_FOUND \in quoted => Told("TableNotFound", cause, quoted)
        /\ NAMESPACE_NOT_FOUND \in quoted => Told("DatabaseNotFound", cause, quoted)
        /\ \A m \in PERMISSION_DENIED_MARKERS : m \in quoted => Told("PermissionDenied", cause, quoted)
    BY <1>4, MisledTold, MisleadingOf DEF NamespaceMarkers
  <2>6. Told("NotFound", cause, quoted)
    BY <1>4 DEF Told, CodesOf
  <2>. QED BY <2>4, <2>5, <2>6
<1>5. CASE cause \in {"object missing", "namespace failed", "corrupted"}
  <2>1. PICK source \in {"NotFound", "Namespace", "other"} :
          e \in Error("Lance", source, {}) /\ Fallback(source) \in CodesOf(cause)
    <3>1. CASE cause = "object missing"
      BY <3>1 DEF Raised, CodesOf, Fallback
    <3>2. CASE cause = "namespace failed"
      BY <3>2 DEF Raised, CodesOf, Fallback
    <3>3. CASE cause = "corrupted"
      BY <3>3 DEF Raised, CodesOf, Fallback
    <3>. QED BY <1>5, <3>1, <3>2, <3>3
  <2>2. e.variant = "Lance" /\ e.source = source /\ e.marks = quoted
    BY ONLY <2>1, PlainMembers
  <2>. QED BY <1>5, <2>1, <2>2, UnmarkedTold DEF Unmarked
<1>6. CASE cause = "index missing"
  <2>1. CASE e \in Error("Lance", "IndexNotFound", {})
    <3>1. e.variant = "Lance" /\ e.source = "IndexNotFound" /\ e.marks = quoted
      BY ONLY <2>1, PlainMembers
    <3>2. Fallback("IndexNotFound") \in CodesOf(cause)
      BY <1>6 DEF Fallback, CodesOf
    <3>. QED BY <1>6, <3>1, <3>2, UnmarkedTold DEF Unmarked
  <2>2. CASE e \in Error("IndexNotFound", "none", {})
    <3>1. e.variant = "IndexNotFound"
      BY ONLY <2>2, ErrorMembers
    <3>2. c = "IndexNotFound"
      BY <3>1, CodeOfVariant DEF Named
    <3>. QED BY <1>6, <3>2 DEF Told, CodesOf
  <2>. QED BY <1>6, <2>1, <2>2 DEF Raised
<1>7. CASE cause = "no connection"
  <2>1. e \in Error("InvalidInput", "none", {NAMESPACE_CONNECT_FAILED})
    BY <1>7 DEF Raised
  <2>2. e.variant = "InvalidInput" /\ e.marks = {NAMESPACE_CONNECT_FAILED} \cup quoted
    BY ONLY <2>1, ErrorMembers
  <2>3. c = storage_failure_from_message(e.marks, "Lance")
    BY <2>2, CodeOfVariant
  <2>4. \/ c = "PermissionDenied" /\ \E m \in PERMISSION_DENIED_MARKERS : m \in quoted
        \/ c = "NotFound" /\ \E m \in NOT_FOUND_MARKERS : m \in quoted
        \/ c = "Lance"
    BY <2>2, <2>3, StorageDecides, MarkersDiffer
  <2>5. Misleading(cause, quoted) = quoted \cap StorageMarkers
    BY <1>7, MisleadingOf
  <2>6. /\ \A m \in PERMISSION_DENIED_MARKERS : m \in quoted => Told("PermissionDenied", cause, quoted)
        /\ \A m \in NOT_FOUND_MARKERS : m \in quoted => Told("NotFound", cause, quoted)
    BY <2>5, MisledTold, MarkersDiffer
  <2>7. Told("Lance", cause, quoted)
    BY <1>7 DEF Told, CodesOf
  <2>. QED BY <2>4, <2>6, <2>7
<1>8. CASE cause = "input refused"
  <2>1. e \in Error("InvalidInput", "none", {})
    BY <1>8 DEF Raised
  <2>2. e.variant = "InvalidInput" /\ e.marks = quoted
    BY ONLY <2>1, PlainMembers
  <2>3. CASE NAMESPACE_CONNECT_FAILED \in quoted
    <3>1. c = storage_failure_from_message(quoted, "Lance")
      BY <2>2, <2>3, CodeOfVariant
    <3>2. \/ c = "PermissionDenied" /\ \E m \in PERMISSION_DENIED_MARKERS : m \in quoted
          \/ c = "NotFound" /\ \E m \in NOT_FOUND_MARKERS : m \in quoted
          \/ c = "Lance"
      BY <3>1, StorageDecides
    <3>3. Misleading(cause, quoted) = quoted \cap (StorageMarkers \cup {NAMESPACE_CONNECT_FAILED})
      BY <1>8, <2>3, MisleadingOf
    <3>4. /\ \A m \in PERMISSION_DENIED_MARKERS : m \in quoted => Told("PermissionDenied", cause, quoted)
          /\ \A m \in NOT_FOUND_MARKERS : m \in quoted => Told("NotFound", cause, quoted)
      BY <3>3, MisledTold, MarkersDiffer
    <3>5. Told("Lance", cause, quoted)
      BY <2>3, <3>3, MisledTold
    <3>. QED BY <3>2, <3>4, <3>5
  <2>4. CASE NAMESPACE_CONNECT_FAILED \notin quoted
    <3>1. c = "InvalidInput"
      BY <2>2, <2>4, CodeOfVariant
    <3>. QED BY <1>8, <3>1 DEF Told, CodesOf
  <2>. QED BY <2>3, <2>4
<1>9. CASE cause = "failed elsewhere"
  <2>1. PICK v \in {"Runtime", "ObjectStore", "External", "Schema", "Timeout", "Arrow"} :
          e \in Error(v, "none", {})
    BY <1>9 DEF Raised
  <2>2. e.variant = v /\ e.source = "none" /\ e.marks = quoted
    BY ONLY <2>1, PlainMembers
  <2>3. CodesOf(cause) = {"Runtime", "ObjectStore", "Other", "Schema", "Timeout", "Arrow"}
    BY <1>9 DEF CodesOf
  <2>4. CASE v \in {"Runtime", "ObjectStore"}
    BY <1>9, <2>2, <2>3, <2>4, UnmarkedTold DEF Unmarked
  <2>5. CASE v \in {"External", "Schema", "Timeout", "Arrow"}
    <3>1. c \in {"Other", "Schema", "Timeout", "Arrow"}
      BY <2>2, <2>5, CodeOfVariant DEF Named
    <3>. QED BY <2>3, <3>1 DEF Told
  <2>. QED BY <2>4, <2>5
<1>. QED BY <1>1, <1>2, <1>3, <1>4, <1>5, <1>6, <1>7, <1>8, <1>9 DEF Cause

(* The error of a failure is one that its cause raises, and the code is    *)
(* that error's.                                                           *)
FailureFits ==
  failure # Nothing =>
    /\ asked = Nothing /\ failure.cause \in Cause
    /\ failure = [cause |-> failure.cause, error |-> failure.error]
    /\ \/ failure.error = Null
       \/ failure.error \in Raised(failure.cause) /\ code = error_to_error_code(failure.error)

LEMMA NextFailure == FailureFits /\ [Next]_vars => FailureFits'
<1>. SUFFICES ASSUME FailureFits, [Next]_vars PROVE FailureFits'
  OBVIOUS
<1>1. CASE Queries \/ UNCHANGED vars
  BY <1>1 DEF Queries, vars, FailureFits
<1>2. CASE LancedbAnswers
  <2>1. failure = Nothing
    BY <1>2 DEF LancedbAnswers, FailureFits, Nothing
  <2>2. asked' = Nothing
    BY <1>2 DEF LancedbAnswers
  <2>. QED BY <1>2, <2>1, <2>2 DEF LancedbAnswers, FailureFits
<1>3. CASE HandleError
  <2>1. PICK e \in Raised(failure.cause) :
          failure' = [failure EXCEPT !.error = e] /\ code' = error_to_error_code(e)
    BY <1>3 DEF HandleError
  <2>2. failure' = [cause |-> failure.cause, error |-> e]
    BY <1>3, <2>1 DEF HandleError, FailureFits
  <2>3. asked' = Nothing /\ failure.cause \in Cause
    BY <1>3 DEF HandleError, FailureFits
  <2>. QED BY <2>1, <2>2, <2>3 DEF FailureFits
<1>4. CASE GoesOn
  BY <1>4 DEF GoesOn, FailureFits
<1>5. CASE Calls
  <2>1. failure' = Nothing
    BY <1>5 DEF Calls, Idle, CallRejected, CreateVectorIndex, CreateScalarIndex, CreateFtsIndex,
                TableMergeInsert, TableOptimize, SessionNew, Call
  <2>. QED BY <2>1 DEF FailureFits
<1>. QED BY <1>1, <1>2, <1>3, <1>4, <1>5 DEF Next

(* Every error comes back as the code of its cause, or as what a marker    *)
(* that its text quotes, and that is looked for first, stands for:         *)
(* whatever markers names and paths contain.                               *)
THEOREM ErrorsTellTheirCause == Spec => []CausesAreTold
<1>1. Init => FailureFits
  BY DEF Init, FailureFits
<1>2. FailureFits => CausesAreTold
  BY CauseTold DEF FailureFits, CausesAreTold, Failed, Told
<1>. QED BY <1>1, <1>2, NextFailure, PTL DEF Spec

-----------------------------------------------------------------------------
(* Configurations.                                                         *)

LEMMA CountPassed ==
  ASSUME NEW n \in Ints, n > 0
  PROVE  IntAsU32(n) = n
  BY ConfigAssumption, RequestAssumption DEF IntAsU32

LEMMA RatePassed ==
  ASSUME NEW rate \in Rates, IsPositive(rate)
  PROVE  \/ FloatAsU32(rate) = MaxU32 /\ 2 * MaxU32 <= rate
         \/ rate \in {2 * FloatAsU32(rate), 2 * FloatAsU32(rate) + 1}
  BY ConfigAssumption, RequestAssumption DEF FloatAsU32, IsPositive

LEMMA AskedFields ==
  ASSUME NEW type, NEW params, NEW cfg
  PROVE  /\ CreateIndex(type, params, cfg).op = "create_index"
         /\ CreateIndex(type, params, cfg).type = type
         /\ CreateIndex(type, params, cfg).params = params
         /\ CreateIndex(type, params, cfg).replace <=> cfg.replace # 0
         /\ CreateIndex(type, params, cfg) # Rejected
         /\ Rejected.op = "rejected"
  BY DEF CreateIndex, Rejected

(* The parameters that a configuration sets.                               *)
Written(cfg) ==
  {n \in Counts : cfg[n] > 0} \cup {n \in {"sample_rate"} : cfg[n] # NaN /\ cfg[n] > 0}

(* The parameters a trained index is asked for.                            *)
TrainedFits(type, cfg, p) ==
  /\ DOMAIN p = {"distance_type"} \cup
       IF type \in {"IvfPq", "IvfHnswPq"} THEN Written(cfg) ELSE Written(cfg) \ {"num_sub_vectors"}
  /\ p.distance_type = cfg.distance_type
  /\ \A n \in Counts \cap DOMAIN p : p[n] = cfg[n]
  /\ "sample_rate" \in DOMAIN p =>
       \/ p.sample_rate = MaxU32 /\ 2 * MaxU32 <= cfg.sample_rate
       \/ cfg.sample_rate \in {2 * p.sample_rate, 2 * p.sample_rate + 1}

LEMMA TrainedParams ==
  ASSUME NEW type \in Trained, NEW cfg \in VectorConfigs
  PROVE  TrainedFits(type, cfg, TrainedIndex(type, cfg))
<1>. DEFINE p == TrainedIndex(type, cfg)
<1>0. /\ \A n \in Counts : cfg[n] \in Ints
      /\ cfg.sample_rate \in Rates
  BY DEF VectorConfigs, Counts
<1>1. DOMAIN p = {n \in CountsOf(type) : cfg[n] > 0}
                   \cup (IF IsPositive(cfg.sample_rate) THEN {"sample_rate"} ELSE {})
                   \cup {"distance_type"}
  BY DEF TrainedIndex
<1>2. DOMAIN p = {"distance_type"} \cup
        IF type \in {"IvfPq", "IvfHnswPq"} THEN Written(cfg) ELSE Written(cfg) \ {"num_sub_vectors"}
  BY <1>1 DEF Written, CountsOf, Counts, IsPositive
<1>3. ASSUME NEW n \in Counts \cap DOMAIN p PROVE p[n] = cfg[n]
  <2>1. cfg[n] > 0
    BY <1>1, <1>3 DEF Counts
  <2>2. p[n] = IntAsU32(cfg[n])
    BY <1>1, <1>3 DEF TrainedIndex
  <2>. QED BY <1>0, <2>1, <2>2, CountPassed
<1>4. p.distance_type = cfg.distance_type
  BY DEF TrainedIndex, Counts
<1>5. ASSUME "sample_rate" \in DOMAIN p
      PROVE  \/ p.sample_rate = MaxU32 /\ 2 * MaxU32 <= cfg.sample_rate
             \/ cfg.sample_rate \in {2 * p.sample_rate, 2 * p.sample_rate + 1}
  <2>1. IsPositive(cfg.sample_rate)
    BY <1>1, <1>5 DEF CountsOf, Counts
  <2>2. p.sample_rate = FloatAsU32(cfg.sample_rate)
    BY <1>5, <2>1 DEF TrainedIndex, Counts
  <2>. QED BY <1>0, <2>1, <2>2, RatePassed
<1>. QED BY <1>2, <1>3, <1>4, <1>5 DEF TrainedFits

LEMMA VectorHonoured ==
  ASSUME NEW type \in LanceDBIndexType, NEW config \in VectorConfigs \cup {Null},
         given.type = type, given.config = config, asked = VectorIndex(type, config)
  PROVE  VectorIsHonoured
<1>. DEFINE cfg == OrDefault(config, VectorDefault)
<1>1. /\ cfg.replace # 0 <=> config = Null \/ config.replace = 1
      /\ config # Null => cfg = config /\ config \in VectorConfigs
  BY DEF OrDefault, VectorDefault, VectorConfigs, Bools
<1>2. /\ type \in Trained \/ type = "Auto" \/ type \in {"BTree", "Bitmap", "LabelList", "FTS"}
      /\ type \in Trained => type # "Auto" /\ type \notin {"BTree", "Bitmap", "LabelList", "FTS"}
  BY DEF LanceDBIndexType, Trained
<1>3. CASE type \in {"BTree", "Bitmap", "LabelList", "FTS"}
  BY <1>3 DEF VectorIndex, Trained, VectorIsHonoured
<1>4. CASE type = "Auto"
  <2>1. asked = CreateIndex(type, NoParams, cfg)
    BY <1>4 DEF VectorIndex
  <2>2. /\ asked # Rejected /\ asked.type = type /\ asked.params = NoParams
        /\ asked.replace <=> cfg.replace # 0
    BY <2>1, AskedFields
  <2>. QED BY <1>1, <1>4, <2>2 DEF VectorIsHonoured
<1>5. CASE type \in Trained
  <2>1. asked = CreateIndex(type, TrainedIndex(type, cfg), cfg)
    BY <1>2, <1>5 DEF VectorIndex
  <2>2. /\ asked # Rejected /\ asked.type = type /\ asked.params = TrainedIndex(type, cfg)
        /\ asked.replace <=> cfg.replace # 0
    BY <2>1, AskedFields
  <2>3. CASE config = Null
    <3>1. TrainedIndex(type, VectorDefault) = [distance_type |-> "L2"]
      BY <1>5 DEF TrainedIndex, VectorDefault, CountsOf, Counts, IsPositive, Trained
    <3>2. asked.params = [distance_type |-> "L2"]
      BY <2>2, <2>3, <3>1 DEF OrDefault
    <3>. QED BY <1>1, <1>2, <1>5, <2>2, <2>3, <3>2 DEF VectorIsHonoured
  <2>4. CASE config # Null
    <3>1. PICK p : p = asked.params
      OBVIOUS
    <3>2. TrainedFits(type, config, p)
      BY <1>1, <1>5, <2>2, <2>4, <3>1, TrainedParams
    <3>. QED BY <1>1, <1>2, <1>5, <2>2, <2>4, <3>1, <3>2 DEF VectorIsHonoured, TrainedFits, Written
  <2>. QED BY <2>3, <2>4
<1>. QED BY <1>2, <1>3, <1>4, <1>5

LEMMA ScalarHonoured ==
  ASSUME NEW type \in LanceDBIndexType, NEW config \in ScalarConfigs \cup {Null},
         given.type = type, given.config = config, asked = ScalarIndex(type, config)
  PROVE  ScalarIsHonoured
<1>. DEFINE cfg == OrDefault(config, ScalarDefault)
<1>1. cfg.replace # 0 <=> config = Null \/ config.replace = 1
  BY DEF OrDefault, ScalarDefault, ScalarConfigs, Bools
<1>2. CASE type \in {"BTree", "Bitmap", "LabelList"}
  <2>1. asked = CreateIndex(type, NoParams, cfg)
    BY <1>2 DEF ScalarIndex
  <2>2. /\ asked # Rejected /\ asked.type = type /\ asked.params = NoParams
        /\ asked.replace <=> cfg.replace # 0
    BY <2>1, AskedFields
  <2>. QED BY <1>1, <1>2, <2>2 DEF ScalarIsHonoured
<1>3. CASE type \notin {"BTree", "Bitmap", "LabelList"}
  BY <1>3 DEF ScalarIndex, ScalarIsHonoured
<1>. QED BY <1>2, <1>3

(* The parameters of a full-text index, as FtsIndex makes them.            *)
FtsTexts(cfg) == {t \in {"base_tokenizer", "language"} : cfg[t] \notin {Null, BadText}}

FtsParams(cfg) ==
  [p \in FtsTexts(cfg) \cup {"max_token_length"} \cup Flags |->
     IF p \in Flags THEN cfg[p] # 0
     ELSE IF p = "max_token_length" /\ cfg[p] < 0 THEN Null ELSE cfg[p]]

LEMMA FtsIndexIs ==
  ASSUME NEW config
  PROVE  LET cfg == OrDefault(config, FtsDefault) IN
           FtsIndex(config, Languages) =
             IF "language" \in FtsTexts(cfg) /\ cfg.language \notin Languages THEN Rejected
             ELSE CreateIndex("FTS", FtsParams(cfg), cfg)
  BY DEF FtsIndex, FtsTexts, FtsParams

LEMMA DefaultParams ==
  /\ FtsTexts(FtsDefault) = {}
  /\ FtsParams(FtsDefault) = [n \in {"max_token_length"} \cup Flags |->
                                IF n = "max_token_length" THEN Null ELSE n = "lowercase"]
<1>1. FtsTexts(FtsDefault) = {}
  BY DEF FtsTexts, FtsDefault
<1>2. \A n \in Flags : (FtsDefault[n] # 0) = (n = "lowercase")
  BY DEF Flags, FtsDefault
<1>3. FtsDefault["max_token_length"] < 0 /\ "max_token_length" \notin Flags
  BY DEF Flags, FtsDefault
<1>4. FtsParams(FtsDefault) = [n \in {"max_token_length"} \cup Flags |->
        IF n \in Flags THEN FtsDefault[n] # 0
        ELSE IF n = "max_token_length" /\ FtsDefault[n] < 0 THEN Null ELSE FtsDefault[n]]
  BY <1>1 DEF FtsParams
<1>5. \A n \in {"max_token_length"} \cup Flags :
        (IF n \in Flags THEN FtsDefault[n] # 0
         ELSE IF n = "max_token_length" /\ FtsDefault[n] < 0 THEN Null ELSE FtsDefault[n])
        = (IF n = "max_token_length" THEN Null ELSE n = "lowercase")
  BY <1>2, <1>3
<1>. QED BY <1>1, <1>4, <1>5

LEMMA ParamsHonoured ==
  ASSUME NEW c \in FtsConfigs
  PROVE  /\ DOMAIN FtsParams(c) = FtsTexts(c) \cup {"max_token_length"} \cup Flags
         /\ \A t \in FtsTexts(c) : FtsParams(c)[t] = c[t]
         /\ \A f \in Flags : FtsParams(c)[f] <=> c[f] = 1
         /\ FtsParams(c).max_token_length =
              IF c.max_token_length < 0 THEN Null ELSE c.max_token_length
<1>1. DOMAIN FtsParams(c) = FtsTexts(c) \cup {"max_token_length"} \cup Flags
  BY DEF FtsParams
<1>2. FtsTexts(c) \cap (Flags \cup {"max_token_length"}) = {} /\ "max_token_length" \notin Flags
  BY DEF FtsTexts, Flags
<1>3. \A t \in FtsTexts(c) : FtsParams(c)[t] = c[t]
  BY <1>2 DEF FtsParams
<1>4. \A f \in Flags : c[f] \in {0, 1}
  BY DEF FtsConfigs, Bools, Flags
<1>5. \A f \in Flags : FtsParams(c)[f] = (c[f] # 0)
  BY DEF FtsParams
<1>6. ASSUME NEW f \in Flags PROVE FtsParams(c)[f] <=> c[f] = 1
  <2>1. c[f] # 0 <=> c[f] = 1
    BY <1>4
  <2>2. FtsParams(c)[f] = (c[f] # 0)
    BY <1>5
  <2>. QED BY <2>1, <2>2, Zenon
<1>7. FtsParams(c).max_token_length = IF c.max_token_length < 0 THEN Null ELSE c.max_token_length
  BY <1>2 DEF FtsParams
<1>. QED BY <1>1, <1>3, <1>6, <1>7

LEMMA SearchHonoured ==
  ASSUME NEW config \in FtsConfigs \cup {Null}, given.config = config,
         asked = FtsIndex(config, Languages)
  PROVE  SearchIsHonoured
<1>1. CASE config = Null
  <2>1. asked = CreateIndex("FTS", FtsParams(FtsDefault), FtsDefault)
    BY <1>1, FtsIndexIs, DefaultParams DEF OrDefault
  <2>2. asked.op = "create_index" /\ asked.replace /\ asked.params = FtsParams(FtsDefault)
    BY <2>1, AskedFields DEF FtsDefault
  <2>. QED BY <1>1, <2>2, DefaultParams DEF SearchIsHonoured
<1>2. CASE config # Null
  <2>1. /\ config \in FtsConfigs
        /\ config.language \in Languages \cup {Unspoken, Null, BadText}
        /\ config.replace \in {0, 1}
    BY <1>2 DEF FtsConfigs, Bools
  <2>2. "language" \in FtsTexts(config) /\ config.language \notin Languages
          <=> config.language = Unspoken
    BY <2>1, RequestAssumption DEF FtsTexts
  <2>3. CASE config.language = Unspoken
    <3>1. asked = Rejected
      BY <1>2, <2>2, <2>3, FtsIndexIs DEF OrDefault
    <3>. QED BY <1>2, <2>3, <3>1 DEF SearchIsHonoured
  <2>4. CASE config.language # Unspoken
    <3>1. asked = CreateIndex("FTS", FtsParams(config), config)
      BY <1>2, <2>2, <2>4, FtsIndexIs DEF OrDefault
    <3>2. /\ asked # Rejected /\ asked.type = "FTS" /\ asked.params = FtsParams(config)
          /\ asked.replace <=> config.replace = 1
      BY <2>1, <3>1, AskedFields
    <3>3. LET p == asked.params
              texts == {t \in {"base_tokenizer", "language"} : config[t] \notin {Null, BadText}} IN
            /\ DOMAIN p = texts \cup {"max_token_length"} \cup Flags
            /\ \A t \in texts : p[t] = config[t]
            /\ \A f \in Flags : p[f] <=> config[f] = 1
            /\ p.max_token_length =
                 IF config.max_token_length < 0 THEN Null ELSE config.max_token_length
      BY ONLY <2>1, <3>2, ParamsHonoured DEF FtsTexts
    <3>. QED BY <1>2, <2>4, <3>2, <3>3, Zenon DEF SearchIsHonoured
  <2>. QED BY <2>3, <2>4
<1>. QED BY <1>1, <1>2

LEMMA CachesHonoured ==
  ASSUME NEW options \in SessionOptions \cup {Null}, given.options = options,
         asked = [op |-> "session", sizes |-> CacheSizes(options)]
  PROVE  CachesAreHonoured
<1>1. DOMAIN DefaultCaches = {"index_cache_bytes", "metadata_cache_bytes"}
  BY DEF DefaultCaches
<1>2. DOMAIN CacheSizes(options) = {"index_cache_bytes", "metadata_cache_bytes"}
  BY <1>1 DEF CacheSizes
<1>3. \A c \in DOMAIN DefaultCaches : DefaultCaches[c] > 0
  BY <1>1 DEF DefaultCaches
<1>4. options # Null => \A c \in DOMAIN DefaultCaches : options[c] \in Nat
  BY <1>1, RequestAssumption DEF SessionOptions
<1>5. \A c \in DOMAIN CacheSizes(options) :
        /\ CacheSizes(options)[c] > 0
        /\ options # Null /\ options[c] > 0 => CacheSizes(options)[c] = options[c]
  BY <1>1, <1>2, <1>3, <1>4 DEF CacheSizes
<1>. QED BY <1>5 DEF CachesAreHonoured

(* What lancedb is asked for, by the call that asks.                       *)
ConfigFits ==
  /\ given.op = "create_vector_index" =>
       /\ given.type \in LanceDBIndexType /\ given.config \in VectorConfigs \cup {Null}
       /\ asked = VectorIndex(given.type, given.config)
  /\ given.op = "create_scalar_index" =>
       /\ given.type \in LanceDBIndexType /\ given.config \in ScalarConfigs \cup {Null}
       /\ asked = ScalarIndex(given.type, given.config)
  /\ given.op = "create_fts_index" =>
       /\ given.config \in FtsConfigs \cup {Null}
       /\ asked = FtsIndex(given.config, Languages)
  /\ given.op = "session_new" =>
       /\ given.options \in SessionOptions \cup {Null}
       /\ asked = [op |-> "session", sizes |-> CacheSizes(given.options)]
  /\ given.op = "optimize" => asked = OptimizeAction(given.type)

LEMMA NextConfig == ConfigFits /\ [Next]_vars => ConfigFits'
<1>. SUFFICES ASSUME ConfigFits, [Next]_vars PROVE ConfigFits'
  OBVIOUS
<1>1. CASE Queries \/ HandleError \/ UNCHANGED vars
  BY <1>1 DEF Queries, HandleError, vars, ConfigFits
<1>2. CASE LancedbAnswers \/ GoesOn \/ CallRejected
  BY <1>2 DEF LancedbAnswers, GoesOn, CallRejected, Call, ConfigFits, Nothing
<1>3. ASSUME NEW type \in LanceDBIndexType, NEW config \in VectorConfigs \cup {Null},
             CreateVectorIndex(type, config)
      PROVE  ConfigFits'
  BY <1>3 DEF CreateVectorIndex, Call, ConfigFits
<1>4. ASSUME NEW type \in LanceDBIndexType, NEW config \in ScalarConfigs \cup {Null},
             CreateScalarIndex(type, config)
      PROVE  ConfigFits'
  BY <1>4 DEF CreateScalarIndex, Call, ConfigFits
<1>5. ASSUME NEW config \in FtsConfigs \cup {Null}, CreateFtsIndex(config)
      PROVE  ConfigFits'
  BY <1>5 DEF CreateFtsIndex, Call, ConfigFits
<1>6. ASSUME \/ \E config \in LanceDBMergeInsertConfig \cup {Null} : TableMergeInsert(config)
             \/ \E type \in LanceDBOptimizeType : TableOptimize(type)
      PROVE  ConfigFits'
  BY <1>6 DEF TableMergeInsert, TableOptimize, Call, ConfigFits
<1>7. ASSUME NEW options \in SessionOptions \cup {Null}, SessionNew(options)
      PROVE  ConfigFits'
  BY <1>7 DEF SessionNew, Call, ConfigFits
<1>. QED BY <1>1, <1>2, <1>3, <1>4, <1>5, <1>6, <1>7 DEF Next, Calls

(* Every parameter a configuration sets is what lancedb is asked for, and  *)
(* none it does not set, whatever the width of the integers; but for       *)
(* sampling rates below 1 and texts that are not UTF-8.                    *)
THEOREM ConfigurationsAreHonoured == Spec => []ConfigIsHonoured
<1>1. Init => ConfigFits
  BY DEF Init, Nothing, ConfigFits
<1>2. ConfigFits => ConfigIsHonoured
  <2>. SUFFICES ASSUME ConfigFits PROVE ConfigIsHonoured
    OBVIOUS
  <2>1. given.op = "create_vector_index" => VectorIsHonoured
    BY VectorHonoured DEF ConfigFits
  <2>2. given.op = "create_scalar_index" => ScalarIsHonoured
    BY ScalarHonoured DEF ConfigFits
  <2>3. given.op = "create_fts_index" => SearchIsHonoured
    BY SearchHonoured DEF ConfigFits
  <2>4. given.op = "session_new" => CachesAreHonoured
    BY CachesHonoured DEF ConfigFits
  <2>5. OptimizeIsHonoured
    BY DEF ConfigFits, OptimizeIsHonoured, OptimizeAction
  <2>6. /\ given.op # "create_vector_index" => VectorIsHonoured
        /\ given.op # "create_scalar_index" => ScalarIsHonoured
        /\ given.op # "create_fts_index" => SearchIsHonoured
        /\ given.op # "session_new" => CachesAreHonoured
    BY DEF VectorIsHonoured, ScalarIsHonoured, SearchIsHonoured, CachesAreHonoured
  <2>. QED BY <2>1, <2>2, <2>3, <2>4, <2>5, <2>6 DEF ConfigIsHonoured
<1>. QED BY <1>1, <1>2, NextConfig, PTL DEF Spec

-----------------------------------------------------------------------------
(* Types.                                                                  *)

AskedOps == {"none", "rejected", "create_index", "merge_insert", "optimize"}

LEMMA AskedOp ==
  /\ \A type, config : VectorIndex(type, config).op \in AskedOps
  /\ \A type, config : ScalarIndex(type, config).op \in AskedOps
  /\ \A config : FtsIndex(config, Languages).op \in AskedOps
  /\ \A config : MergeInsert(config).op \in AskedOps
  /\ \A type : OptimizeAction(type).op \in AskedOps
  /\ Rejected.op \in AskedOps /\ Nothing.op \in AskedOps
<1>1. \A type, params, cfg : CreateIndex(type, params, cfg).op \in AskedOps
  BY DEF CreateIndex, AskedOps
<1>2. Rejected.op \in AskedOps /\ Nothing.op \in AskedOps
  BY DEF Rejected, Nothing, AskedOps
<1>3. \A update, insert : Merge(update, insert).op \in AskedOps
  BY DEF Merge, AskedOps
<1>4. \A config : FtsIndex(config, Languages).op \in AskedOps
  BY <1>1, <1>2 DEF FtsIndex
<1>5. \A type : OptimizeAction(type).op \in AskedOps
  BY DEF OptimizeAction, AskedOps
<1>6. \A config : MergeInsert(config).op \in AskedOps
  BY <1>2, <1>3 DEF MergeInsert
<1>. QED BY <1>1, <1>2, <1>4, <1>5, <1>6 DEF VectorIndex, ScalarIndex

TypeFits ==
  /\ given.op \in {"none", "create_vector_index", "create_scalar_index", "create_fts_index",
                   "merge_insert", "optimize", "session_new"}
  /\ asked.op \in AskedOps \cup {"session"}
  /\ code \in ReturnCode

LEMMA CodesAreReturned == \A cause \in Cause : CodesOf(cause) \subseteq ReturnCode
  BY DEF CodesOf, ReturnCode, Named, Cause

LEMMA NextTypes == TypeFits /\ FailureFits /\ [Next]_vars => TypeFits'
<1>. SUFFICES ASSUME TypeFits, FailureFits, [Next]_vars PROVE TypeFits'
  OBVIOUS
<1>0. {"Success", "InvalidArgument"} \subseteq ReturnCode
  BY DEF ReturnCode
<1>1. CASE Queries \/ UNCHANGED vars
  BY <1>1 DEF Queries, vars, TypeFits
<1>2. CASE LancedbAnswers \/ GoesOn
  <2>1. given' = Nothing /\ asked' = Nothing
    BY <1>2 DEF LancedbAnswers, GoesOn
  <2>2. code' \in ReturnCode
    BY <1>0, <1>2 DEF LancedbAnswers, GoesOn, TypeFits
  <2>. QED BY <2>1, <2>2, AskedOp DEF TypeFits, Nothing
<1>3. CASE HandleError
  <2>1. PICK e \in Raised(failure.cause) : code' = error_to_error_code(e)
    BY <1>3 DEF HandleError
  <2>2. failure.cause \in Cause
    BY <1>3 DEF HandleError, FailureFits
  <2>3. Told(code', failure.cause, e.quoted)
    BY <2>1, <2>2, CauseTold
  <2>4. \A marker : CauseOf(marker) \in Cause
    BY DEF CauseOf, Cause
  <2>5. code' \in ReturnCode
    BY <2>2, <2>3, <2>4, CodesAreReturned DEF Told
  <2>. QED BY <1>3, <2>5 DEF HandleError, TypeFits
<1>4. CASE Calls
  <2>1. /\ given'.op \in {"none", "create_vector_index", "create_scalar_index", "create_fts_index",
                         "merge_insert", "optimize", "session_new"}
        /\ code' \in {"Success", "InvalidArgument"}
    BY <1>4 DEF Calls, CallRejected, CreateVectorIndex, CreateScalarIndex, CreateFtsIndex,
                TableMergeInsert, TableOptimize, SessionNew, Call, Nothing
  <2>2. asked'.op \in AskedOps \cup {"session"}
    BY <1>4, AskedOp DEF Calls, CallRejected, CreateVectorIndex, CreateScalarIndex, CreateFtsIndex,
                TableMergeInsert, TableOptimize, SessionNew, Call
  <2>. QED BY <1>0, <2>1, <2>2 DEF TypeFits
<1>. QED BY <1>1, <1>2, <1>3, <1>4 DEF Next

(* Every reachable state has the declared types.                           *)
THEOREM RequestsTypeCorrect == Spec => []TypeOK
<1>1. Init => TypeFits /\ FailureFits
  BY AskedOp DEF Init, TypeFits, FailureFits, Nothing, ReturnCode
<1>2. QInv /\ TypeFits /\ FailureFits => TypeOK
  BY DEF QInv, TypeFits, AskedOps, FailureFits, TypeOK
<1>. QED BY <1>1, <1>2, SpecQuery, NextTypes, NextFailure, PTL DEF Spec
=============================================================================
