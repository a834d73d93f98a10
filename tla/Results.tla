------------------------------- MODULE Results --------------------------------
(***************************************************************************)
(* How a result of many rows crosses the boundary.  The calls that return  *)
(* names, versions, metadata or Arrow batches share one shape: an array    *)
(* for each output (a part of the result), filled row by row, published at *)
(* the end.  Any array may not be allocated and some rows cannot be        *)
(* converted; the call then undoes what it did.  The client frees each     *)
(* part with the function made for it, in any order, with the count it     *)
(* was given.                                                              *)
(***************************************************************************)
EXTENDS Naturals, Sequences

CONSTANT MaxRows   \* bound on the number of rows of a result

ASSUME MaxRowsAssumption == MaxRows \in Nat

(* "versions" and "history" are list_versions without and with metadata.   *)
Kind == {"names", "versions", "history", "metadata", "arrow"}

Part == {"names", "versions", "cells", "keys", "values", "schema", "batches"}

Parts(k) ==
  CASE k = "names"    -> {"names"}
    [] k = "versions" -> {"versions"}
    [] k = "history"  -> {"versions", "cells"}
    [] k = "metadata" -> {"keys", "values"}
    [] k = "arrow"    -> {"schema", "batches"}

(* The part whose array is allocated before that of p.  Those of keys and  *)
(* values are asked for together, and either may be missing.               *)
Before(p) ==
  CASE p = "cells"   -> {"versions"}
    [] p = "batches" -> {"schema"}
    [] OTHER         -> {}

(* What matters of a row: a name with an inner NUL has no CString; a       *)
(* version without entries has a cell of null pointers.                    *)
Row == {"plain", "inner NUL", "empty"}

RowsOf(k) ==
  CASE k = "names"   -> {"plain", "inner NUL"}
    [] k = "history" -> {"plain", "empty"}
    [] OTHER         -> {"plain"}

(* Whether the cell of a row in the array of p points to memory of its own *)
(* (for a version: its arrays of keys and values with their strings).      *)
HasBlock(p, row) ==
  \/ p \in {"names", "keys", "values", "batches"}
  \/ p = "cells" /\ row = "plain"

Results(k) == UNION {[1..n -> RowsOf(k)] : n \in 0..MaxRows}

VARIABLES
  pc,      \* "idle", "allocate", "fill", "undo", "held" (returned) or "free"
  kind,    \* the call that runs or ran last
  rows,    \* what the database answered
  arrays,  \* the local pointers of the call: the parts whose array it has
  i,       \* the loop variable of the running loop
  made,    \* how many rows were filled when the call gave up
  heap,    \* the blocks allocated: <<p, 0>> the array of p, <<p, n>> of row n
  out,     \* the client's pointers that are not null, a set of parts
  count,   \* *count_out
  part,    \* the part the client is freeing
  rc       \* what the call returned

vars == <<pc, kind, rows, arrays, i, made, heap, out, count, part, rc>>

Block == Part \X (0..MaxRows)

(* The arrays of ps and the memory of their rows lo..hi.                   *)
BlocksOf(ps, lo, hi) ==
  {b \in Block : /\ b[1] \in ps
                 /\ b[2] = 0 \/ (b[2] \in lo..hi /\ HasBlock(b[1], rows[b[2]]))}

RowBlocks(ps, n) == {b \in Block : b[1] \in ps /\ b[2] = n /\ HasBlock(b[1], rows[n])}

ArrayBlocks(ps) == {b \in Block : b[1] \in ps /\ b[2] = 0}

TypeOK ==
  /\ pc \in {"idle", "allocate", "fill", "undo", "held", "free"}
  /\ kind \in Kind
  /\ rows \in Results(kind)
  /\ arrays \subseteq Parts(kind)
  /\ i \in 1..(MaxRows + 1)
  /\ made \in 0..MaxRows
  /\ heap \subseteq Block
  /\ out \subseteq Parts(kind)
  /\ count \in 0..MaxRows
  /\ part \in Part
  /\ rc \in {"Success", "Error"}

Init ==
  /\ pc = "idle" /\ kind = "names" /\ rows = <<>> /\ arrays = {}
  /\ i = 1 /\ made = 0 /\ heap = {} /\ out = {} /\ count = 0
  /\ part = "names" /\ rc = "Error"

Return(code) ==
  /\ pc' = "held"
  /\ rc' = code
  /\ i' = 1
  /\ arrays' = {}

(* The request to the database fails: the outputs are left alone.          *)
RequestFails ==
  /\ pc = "idle"
  /\ Return("Error")
  /\ UNCHANGED <<kind, rows, made, heap, out, count, part>>

(* Mutant: the count includes a terminator.                                *)
AnswerTerminated ==
  /\ pc = "idle"
  /\ \E k \in Kind : kind' = k /\ rows' \in Results(k)
  /\ count' = Len(rows') + 1
  /\ IF rows' = <<>> THEN Return("Success") ELSE pc' = "allocate" /\ UNCHANGED <<arrays, i, rc>>
  /\ UNCHANGED <<made, heap, out, part>>

(* The count is stored before anything is allocated; no rows, no arrays.   *)
Answer ==
  /\ pc = "idle"
  /\ \E k \in Kind : kind' = k /\ rows' \in Results(k)
  /\ count' = Len(rows')
  /\ IF rows' = <<>> THEN Return("Success") ELSE pc' = "allocate" /\ UNCHANGED <<arrays, i, rc>>
  /\ UNCHANGED <<made, heap, out, part>>

(* The schema goes to *schema_out as soon as it exists.                    *)
AllocateArray(p) ==
  /\ pc = "allocate" /\ p \in Parts(kind) \ arrays /\ Before(p) \subseteq arrays
  /\ arrays' = arrays \cup {p}
  /\ heap' = heap \cup {<<p, 0>>}
  /\ out' = IF p = "schema" THEN out \cup {p} ELSE out
  /\ pc' = IF arrays' = Parts(kind) THEN "fill" ELSE pc
  /\ UNCHANGED <<kind, rows, i, made, count, part, rc>>

AllocationFails ==
  /\ pc = "allocate"
  /\ pc' = "undo"
  /\ made' = 0
  /\ UNCHANGED <<kind, rows, arrays, i, heap, out, count, part, rc>>

FillRow ==
  /\ pc = "fill" /\ i <= Len(rows) /\ rows[i] # "inner NUL"
  /\ heap' = heap \cup RowBlocks(arrays, i)
  /\ i' = i + 1
  /\ UNCHANGED <<pc, kind, rows, arrays, made, out, count, part, rc>>

(* Mutant: the undo includes the row that was not completed.               *)
RowFailsInclusive ==
  /\ pc = "fill" /\ i <= Len(rows)
  /\ rows[i] = "inner NUL" \/ (kind = "history" /\ rows[i] = "plain")
  /\ pc' = "undo"
  /\ made' = i
  /\ i' = 1
  /\ UNCHANGED <<kind, rows, arrays, heap, out, count, part, rc>>

(* Mutant: the undo misses the last row that was completed.                *)
RowFailsShort ==
  /\ pc = "fill" /\ i <= Len(rows)
  /\ rows[i] = "inner NUL" \/ (kind = "history" /\ rows[i] = "plain")
  /\ pc' = "undo"
  /\ made' = IF i = 1 THEN 0 ELSE i - 2
  /\ i' = 1
  /\ UNCHANGED <<kind, rows, arrays, heap, out, count, part, rc>>

(* A name that is no C string, or a version whose keys or values are not   *)
(* allocated (the one that was is freed at once).                          *)
RowFails ==
  /\ pc = "fill" /\ i <= Len(rows)
  /\ rows[i] = "inner NUL" \/ (kind = "history" /\ rows[i] = "plain")
  /\ pc' = "undo"
  /\ made' = i - 1
  /\ i' = 1
  /\ UNCHANGED <<kind, rows, arrays, heap, out, count, part, rc>>

UndoRow ==
  /\ pc = "undo" /\ i <= made
  /\ heap' = heap \ RowBlocks(arrays, i)
  /\ i' = i + 1
  /\ UNCHANGED <<pc, kind, rows, arrays, made, out, count, part, rc>>

(* Mutant: the clean-up frees the schema and leaves *schema_out.           *)
UndoLeavesOut ==
  /\ pc = "undo" /\ i > made
  /\ heap' = heap \ ArrayBlocks(arrays)
  /\ Return("Error")
  /\ UNCHANGED <<kind, rows, made, out, count, part>>

(* The arrays are freed, and *schema_out is null again.                    *)
UndoArrays ==
  /\ pc = "undo" /\ i > made
  /\ heap' = heap \ ArrayBlocks(arrays)
  /\ out' = {}
  /\ Return("Error")
  /\ UNCHANGED <<kind, rows, made, count, part>>

Publish ==
  /\ pc = "fill" /\ i > Len(rows)
  /\ out' = Parts(kind)
  /\ Return("Success")
  /\ UNCHANGED <<kind, rows, made, heap, count, part>>

(* The client passes one of its pointers to the free function of the part; *)
(* a null pointer is ignored.                                              *)
FreePart(p) ==
  /\ pc = "held" /\ p \in out
  /\ pc' = "free"
  /\ part' = p
  /\ UNCHANGED <<kind, rows, arrays, i, made, heap, out, count, rc>>

FreeRow ==
  /\ pc = "free" /\ i <= count
  /\ heap' = heap \ RowBlocks({part}, i)
  /\ i' = i + 1
  /\ UNCHANGED <<pc, kind, rows, arrays, made, out, count, part, rc>>

FreeArray ==
  /\ pc = "free" /\ i > count
  /\ heap' = heap \ {<<part, 0>>}
  /\ out' = out \ {part}
  /\ pc' = "held"
  /\ i' = 1
  /\ UNCHANGED <<kind, rows, arrays, made, count, part, rc>>

CallAgain ==
  /\ pc = "held" /\ out = {}
  /\ pc' = "idle"
  /\ UNCHANGED <<kind, rows, arrays, i, made, heap, out, count, part, rc>>

Next ==
  \/ RequestFails \/ Answer
  \/ \E p \in Part : AllocateArray(p)
  \/ AllocationFails \/ FillRow \/ RowFails \/ UndoRow \/ UndoArrays \/ Publish
  \/ \E p \in Part : FreePart(p)
  \/ FreeRow \/ FreeArray \/ CallAgain

Spec == Init /\ [][Next]_vars

-----------------------------------------------------------------------------
(* Properties.                                                             *)

(* All or nothing: whenever a call has returned, the heap holds exactly    *)
(* the parts the client has pointers to, with all their rows, and nothing  *)
(* after an error, whichever allocation or row failed and in whichever     *)
(* order the client frees the parts.                                       *)
AllOrNothing ==
  /\ pc = "held" => heap = BlocksOf(out, 1, count) /\ (out # {} => count = Len(rows))
  /\ pc = "held" /\ rc = "Error" => out = {} /\ heap = {}
  /\ pc = "idle" => heap = {}

(* The clean-up of a call and the free functions only look at rows that    *)
(* were completed, and free each block while it is still allocated.        *)
FreesWhatIsThere ==
  /\ pc = "undo" => ArrayBlocks(arrays) \subseteq heap
  /\ pc = "undo" /\ i <= made => i <= Len(rows) /\ RowBlocks(arrays, i) \subseteq heap
  /\ pc = "free" => <<part, 0>> \in heap
  /\ pc = "free" /\ i <= count => i <= Len(rows) /\ RowBlocks({part}, i) \subseteq heap
=============================================================================
