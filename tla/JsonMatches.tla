----------------------------- MODULE JsonMatches -----------------------------
(***************************************************************************)
(* lancedb_json_matches (src/json.rs:279-416): a filter is evaluated over  *)
(* the Arrow batches of a query result, into one array of booleans with a  *)
(* cell for every row of every batch.  The rows are counted first, from    *)
(* the length fields of the C structures; the array of that size is then   *)
(* filled batch by batch, from the arrays the evaluation returns.          *)
(***************************************************************************)
EXTENDS Naturals, Sequences

CONSTANTS
  MaxUsize,    \* the largest usize
  MaxRows,     \* bound on the rows of a batch
  MaxBatches   \* bound on the number of batches

ASSUME BoundAssumption ==
  /\ MaxUsize \in Nat /\ MaxRows \in Nat /\ MaxBatches \in Nat
  /\ MaxRows <= MaxUsize

(* What the filter says of a row, in SQL's three-valued logic.             *)
Truth == {"true", "false", "null"}

(* A batch as the caller passes it: its rows, or a null pointer, or an     *)
(* array whose length field is negative.                                   *)
Good == {[kind |-> "rows", rows |-> r] : r \in UNION {[1..n -> Truth] : n \in 0..MaxRows}}
Bad == {[kind |-> k, rows |-> <<>>] : k \in {"null", "negative"}}
Batches == UNION {[1..n -> Good \cup Bad] : n \in 1..MaxBatches}

VARIABLES
  pc,       \* "idle", "count", "fill", "returned"
  batches,  \* the caller's arrays
  form,     \* whether the filter evaluates to an "array" or to a "scalar"
  i,        \* the batch the running loop looks at
  total,    \* the rows counted
  offset,   \* the first cell of the batch being evaluated
  cells,    \* the cells of the result written so far, from the first on
  heap,     \* the result array: "free" or "allocated"
  out,      \* *results_out: "NULL", "array", or "unset" by this call
  rc

vars == <<pc, batches, form, i, total, offset, cells, heap, out, rc>>

TypeOK ==
  /\ pc \in {"idle", "count", "fill", "returned"}
  /\ batches \in Batches \cup {<<>>}
  /\ form \in {"array", "scalar"}
  /\ i \in 1..(MaxBatches + 1)
  /\ total \in 0..MaxUsize
  /\ offset \in 0..MaxUsize
  /\ cells \in Seq(BOOLEAN)
  /\ heap \in {"free", "allocated"}
  /\ out \in {"unset", "NULL", "array"}
  /\ rc \in {"none", "Success", "InvalidArgument", "Error"}

Init ==
  /\ pc = "idle" /\ batches = <<>> /\ form = "array"
  /\ i = 1 /\ total = 0 /\ offset = 0 /\ cells = <<>>
  /\ heap = "free" /\ out = "unset" /\ rc = "none"

Return(code) ==
  /\ pc' = "returned"
  /\ rc' = code

(* A scalar filter gives every row of every batch the same answer.         *)
SameAnswer(bs) ==
  \A b, c \in DOMAIN bs : \A r \in DOMAIN bs[b].rows, s \in DOMAIN bs[c].rows :
    bs[b].rows[r] = bs[c].rows[s]

(* Nothing is counted if an argument is null or there is no batch, or if   *)
(* the schema or the filter cannot be used.                                *)
Call ==
  /\ pc = "idle"
  /\ \/ /\ batches' \in Batches
        /\ form' \in {"array"} \cup (IF SameAnswer(batches') THEN {"scalar"} ELSE {})
        /\ pc' = "count"
        /\ UNCHANGED rc
     \/ /\ \E code \in {"InvalidArgument", "Error"} : Return(code)
        /\ UNCHANGED <<batches, form>>
  /\ UNCHANGED <<i, total, offset, cells, heap, out>>

(* Mutants: the sum of the rows is not checked, or wraps around.           *)
CountUnchecked ==
  /\ pc = "count" /\ i <= Len(batches)
  /\ IF batches[i].kind # "rows"
       THEN Return("InvalidArgument") /\ UNCHANGED <<i, total>>
       ELSE total' = total + Len(batches[i].rows) /\ i' = i + 1 /\ UNCHANGED <<pc, rc>>
  /\ UNCHANGED <<batches, form, offset, cells, heap, out>>

CountWraps ==
  /\ pc = "count" /\ i <= Len(batches)
  /\ IF batches[i].kind # "rows"
       THEN Return("InvalidArgument") /\ UNCHANGED <<i, total>>
       ELSE /\ total' = (total + Len(batches[i].rows)) % (MaxUsize + 1)
            /\ i' = i + 1
            /\ UNCHANGED <<pc, rc>>
  /\ UNCHANGED <<batches, form, offset, cells, heap, out>>

(* No result array yet: a rejected batch leaves nothing behind.            *)
CountRows ==
  /\ pc = "count" /\ i <= Len(batches)
  /\ LET rows == Len(batches[i].rows)
     IN IF batches[i].kind # "rows" \/ total + rows > MaxUsize
          THEN Return("InvalidArgument") /\ UNCHANGED <<i, total>>
          ELSE total' = total + rows /\ i' = i + 1 /\ UNCHANGED <<pc, rc>>
  /\ UNCHANGED <<batches, form, offset, cells, heap, out>>

NoRows ==
  /\ pc = "count" /\ i > Len(batches) /\ total = 0
  /\ out' = "NULL"
  /\ Return("Success")
  /\ UNCHANGED <<batches, form, i, total, offset, cells, heap>>

AllocateResult ==
  /\ pc = "count" /\ i > Len(batches) /\ total > 0
  /\ \/ heap' = "allocated" /\ pc' = "fill" /\ i' = 1 /\ UNCHANGED rc
     \/ Return("Error") /\ UNCHANGED <<i, heap>>
  /\ UNCHANGED <<batches, form, total, offset, cells, out>>

(* Mutant: a scalar is not expanded to the rows of its batch.              *)
EvaluatedScalar ==
  IF form = "array" \/ batches[i].rows = <<>>
    THEN batches[i].rows
    ELSE <<batches[i].rows[1]>>

(* The array the evaluation of batch i ends in: the filter's own array, or *)
(* its scalar expanded to the rows of the batch.                           *)
Evaluated ==
  IF form = "array" \/ batches[i].rows = <<>>
    THEN batches[i].rows
    ELSE [r \in 1..Len(batches[i].rows) |-> batches[i].rows[1]]

(* A null is not a match.                                                  *)
EvaluateBatch ==
  /\ pc = "fill" /\ i <= Len(batches)
  /\ cells' = SubSeq(cells, 1, offset)
                \o [r \in 1..Len(Evaluated) |-> Evaluated[r] = "true"]
  /\ offset' = offset + Len(Evaluated)
  /\ i' = i + 1
  /\ UNCHANGED <<pc, batches, form, total, heap, out, rc>>

(* The four error returns of the evaluation of a batch.  Each frees the    *)
(* result array on its own.                                                *)
ImportFails ==
  /\ pc = "fill" /\ i <= Len(batches)
  /\ heap' = "free" /\ Return("Error")
  /\ UNCHANGED <<batches, form, i, total, offset, cells, out>>

FilterFails ==
  /\ pc = "fill" /\ i <= Len(batches)
  /\ heap' = "free" /\ Return("Error")
  /\ UNCHANGED <<batches, form, i, total, offset, cells, out>>

(* Mutant: of the four, this one forgets the result array.                 *)
ExpansionFailsLeaks ==
  /\ pc = "fill" /\ i <= Len(batches)
  /\ form = "scalar"
  /\ Return("Error")
  /\ UNCHANGED <<batches, form, i, total, offset, cells, heap, out>>

ExpansionFails ==
  /\ pc = "fill" /\ i <= Len(batches)
  /\ form = "scalar"
  /\ heap' = "free" /\ Return("Error")
  /\ UNCHANGED <<batches, form, i, total, offset, cells, out>>

NotBoolean ==
  /\ pc = "fill" /\ i <= Len(batches)
  /\ heap' = "free" /\ Return("InvalidArgument")
  /\ UNCHANGED <<batches, form, i, total, offset, cells, out>>

Publish ==
  /\ pc = "fill" /\ i > Len(batches)
  /\ out' = "array"
  /\ Return("Success")
  /\ UNCHANGED <<batches, form, i, total, offset, cells, heap>>

(* The caller frees a result, if there is one, and may call again.         *)
FreeJsonMatches ==
  /\ pc = "returned"
  /\ pc' = "idle" /\ batches' = <<>> /\ form' = "array"
  /\ i' = 1 /\ total' = 0 /\ offset' = 0 /\ cells' = <<>>
  /\ heap' = IF out = "array" THEN "free" ELSE heap
  /\ out' = "unset" /\ rc' = "none"

Next ==
  \/ Call \/ CountRows \/ NoRows \/ AllocateResult
  \/ EvaluateBatch \/ ImportFails \/ FilterFails \/ ExpansionFails \/ NotBoolean
  \/ Publish \/ FreeJsonMatches

Spec == Init /\ [][Next]_vars

-----------------------------------------------------------------------------
(* Properties.                                                             *)

(* end[b] is the number of rows in the first b of n batches.               *)
EndsOf(end, bs, n) ==
  /\ end[0] = 0
  /\ \A b \in 1..n : end[b] = end[b - 1] + Len(bs[b].rows)

(* A successful call answers every row of every batch, batch after batch,  *)
(* in the cell that its place among all rows gives it (the cells are laid  *)
(* out from the lengths counted first, and written from the lengths the    *)
(* evaluation returns); no cell of the result is left uninitialised.       *)
EveryRowIsAnswered ==
  pc = "returned" /\ rc = "Success" =>
    /\ Len(cells) = total
    /\ out = "array" <=> total > 0
    /\ \E end \in [0..Len(batches) -> 0..total] :
         /\ EndsOf(end, batches, Len(batches))
         /\ end[Len(batches)] = total
         /\ \A b \in 1..Len(batches) : \A r \in 1..Len(batches[b].rows) :
              cells[end[b - 1] + r] = (batches[b].rows[r] = "true")

(* No batch is written past the end of the array.                          *)
WritesInBounds == heap = "allocated" => Len(cells) <= total

(* After an error nothing is left, and after a success only what the       *)
(* caller was given.                                                       *)
OnlyResultsRemain ==
  pc \in {"returned", "idle"} => (heap = "allocated" <=> out = "array")
=============================================================================
