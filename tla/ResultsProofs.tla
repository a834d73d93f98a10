---------------------------- MODULE ResultsProofs -----------------------------
(***************************************************************************)
(* Proofs about Results, for every kind of result and any number of rows.  *)
(***************************************************************************)
EXTENDS ResultCalls, TLAPS

(* What the heap holds while each loop runs.                               *)
AllocateInvariant ==
  pc = "allocate" =>
    /\ heap = ArrayBlocks(arrays) /\ out = arrays \cap {"schema"}
    /\ i = 1 /\ count = Len(rows)

FillInvariant ==
  pc = "fill" =>
    /\ arrays = Parts(kind) /\ out = arrays \cap {"schema"}
    /\ count = Len(rows) /\ i <= Len(rows) + 1
    /\ heap = BlocksOf(arrays, 1, i - 1)

UndoInvariant ==
  pc = "undo" =>
    /\ i <= made + 1 /\ made <= Len(rows)
    /\ heap = BlocksOf(arrays, i, made)

FreeInvariant ==
  pc = "free" =>
    /\ part \in out /\ i <= count + 1 /\ count = Len(rows)
    /\ rc = "Success"
    /\ heap = BlocksOf(out \ {part}, 1, count) \cup BlocksOf({part}, i, count)

(* Between the loops, and while the client frees.                          *)
RestInvariant ==
  /\ pc \in {"idle", "held"} => i = 1
  /\ pc \in {"idle", "held", "free"} => arrays = {}
  /\ pc = "idle" => out = {}

IInv ==
  /\ TypeOK /\ AllOrNothing
  /\ AllocateInvariant /\ FillInvariant /\ UndoInvariant /\ FreeInvariant /\ RestInvariant

LEMMA ResultFacts ==
  ASSUME NEW k \in Kind, NEW r \in Results(k)
  PROVE  /\ Len(r) \in 0..MaxRows
         /\ \A n \in 1..Len(r) : r[n] \in Row
<1>. PICK n \in 0..MaxRows : r \in [1..n -> RowsOf(k)]
  BY DEF Results
<1>1. RowsOf(k) \subseteq Row
  BY DEF RowsOf, Row
<1>2. r \in Seq(Row) /\ Len(r) = n
  BY <1>1, MaxRowsAssumption
<1>. QED BY <1>2

LEMMA EmptyResult == <<>> \in Results("names")
<1>1. <<>> \in [1..0 -> RowsOf("names")] /\ 0 \in 0..MaxRows
  BY MaxRowsAssumption
<1>. QED BY <1>1 DEF Results

LEMMA PartFacts ==
  /\ \A k \in Kind : Parts(k) \subseteq Part
  /\ \A k \in Kind : "schema" \in Parts(k) => k = "arrow"
  BY DEF Parts, Kind, Part

(* One row more, or one row less, of some parts.                           *)
LEMMA BlocksGrow ==
  ASSUME NEW ps \in SUBSET Part, NEW n \in 1..MaxRows
  PROVE  BlocksOf(ps, 1, n - 1) \cup RowBlocks(ps, n) = BlocksOf(ps, 1, n)
  BY MaxRowsAssumption DEF BlocksOf, RowBlocks, Block

LEMMA BlocksShrink ==
  ASSUME NEW ps \in SUBSET Part, NEW n \in 1..MaxRows, NEW hi \in 0..MaxRows, n <= hi
  PROVE  /\ BlocksOf(ps, n, hi) \ RowBlocks(ps, n) = BlocksOf(ps, n + 1, hi)
         /\ RowBlocks(ps, n) \subseteq BlocksOf(ps, n, hi)
  BY MaxRowsAssumption DEF BlocksOf, RowBlocks, Block

(* No rows: only the arrays; no parts: nothing.                            *)
LEMMA BlocksEmpty ==
  ASSUME NEW ps \in SUBSET Part, NEW lo \in Nat, NEW hi \in Nat, lo > hi
  PROVE  /\ BlocksOf(ps, lo, hi) = ArrayBlocks(ps)
         /\ BlocksOf({}, 1, hi) = {}
  BY DEF BlocksOf, ArrayBlocks, Block

LEMMA BlocksOfNothing ==
  ASSUME NEW hi
  PROVE  BlocksOf({}, 1, hi) = {} /\ ArrayBlocks({}) = {}
  BY DEF BlocksOf, ArrayBlocks

LEMMA OneArray ==
  ASSUME NEW p \in Part
  PROVE  ArrayBlocks({p}) = {<<p, 0>>}
<1>1. <<p, 0>> \in ArrayBlocks({p})
  BY MaxRowsAssumption DEF ArrayBlocks, Block
<1>2. ASSUME NEW b \in ArrayBlocks({p}) PROVE b = <<p, 0>>
  BY DEF ArrayBlocks, Block
<1>. QED BY <1>1, <1>2

LEMMA BlocksSplit ==
  ASSUME NEW ps \in SUBSET Part, NEW p \in ps, NEW hi \in 0..MaxRows
  PROVE  BlocksOf(ps, 1, hi) = BlocksOf(ps \ {p}, 1, hi) \cup BlocksOf({p}, 1, hi)
  BY DEF BlocksOf

(* A row of one part has no block in common with the other parts.          *)
LEMMA BlocksApart ==
  ASSUME NEW ps \in SUBSET Part, NEW p \in Part \ ps, NEW lo, NEW hi, NEW n \in 0..MaxRows
  PROVE  /\ RowBlocks({p}, n) \cap BlocksOf(ps, lo, hi) = {}
         /\ <<p, 0>> \notin BlocksOf(ps, lo, hi)
  BY DEF BlocksOf, RowBlocks, Block

LEMMA InitIInv == Init => IInv
<1>. SUFFICES ASSUME Init PROVE IInv
  OBVIOUS
<1>1. TypeOK
  BY EmptyResult, MaxRowsAssumption DEF Init, TypeOK, Kind, Part
<1>2. AllOrNothing /\ RestInvariant
  BY DEF Init, AllOrNothing, RestInvariant
<1>3. AllocateInvariant /\ FillInvariant /\ UndoInvariant /\ FreeInvariant
  BY DEF Init, AllocateInvariant, FillInvariant, UndoInvariant, FreeInvariant
<1>. QED BY <1>1, <1>2, <1>3 DEF IInv

(* One step per action: the type of what it assigns, then what it does to  *)
(* the heap, by the lemmas on blocks.                                      *)
LEMMA NextIInv == IInv /\ [Next]_vars => IInv'
<1>. SUFFICES ASSUME IInv, [Next]_vars PROVE IInv'
  OBVIOUS
<1>. USE MaxRowsAssumption
<1>0. /\ Len(rows) \in 0..MaxRows
      /\ Parts(kind) \subseteq Part /\ arrays \in SUBSET Part /\ out \in SUBSET Part
  BY ResultFacts, PartFacts DEF IInv, TypeOK
<1>. USE DEF IInv, TypeOK, AllOrNothing, AllocateInvariant, FillInvariant,
             UndoInvariant, FreeInvariant, RestInvariant, Return
<1>1. CASE RequestFails
  <2>1. heap' = {} /\ out' = {}
    BY <1>1 DEF RequestFails
  <2>2. BlocksOf(out, 1, count)' = {}
    BY <2>1 DEF BlocksOf
  <2>. QED BY <1>1, <2>1, <2>2 DEF RequestFails
<1>2. CASE Answer
  <2>1. kind' \in Kind /\ rows' \in Results(kind') /\ count' = Len(rows')
    BY <1>2 DEF Answer
  <2>2. count' \in 0..MaxRows
    BY <2>1, ResultFacts
  <2>3. /\ out' = {} /\ heap' = {} /\ arrays' = {} /\ i' = 1
        /\ UNCHANGED <<made, part>>
        /\ \/ pc' = "held" /\ rc' = "Success"
           \/ pc' = "allocate" /\ rc' = rc
    BY <1>2 DEF Answer
  <2>4. ArrayBlocks({}) = {} /\ BlocksOf(out, 1, count)' = {}
    BY <2>3 DEF ArrayBlocks, BlocksOf
  <2>. QED BY <2>1, <2>2, <2>3, <2>4
<1>3. ASSUME NEW p \in Part, AllocateArray(p) PROVE IInv'
  <2>1. /\ pc = "allocate" /\ p \in Parts(kind)
        /\ arrays' = arrays \cup {p} /\ heap' = heap \cup {<<p, 0>>}
        /\ out' = (IF p = "schema" THEN out \cup {p} ELSE out)
        /\ pc' = (IF arrays' = Parts(kind) THEN "fill" ELSE pc)
        /\ UNCHANGED <<kind, rows, i, made, count, part, rc>>
    BY <1>3 DEF AllocateArray
  <2>2. heap' = ArrayBlocks(arrays')
    BY <1>0, <2>1 DEF ArrayBlocks, Block
  <2>3. BlocksOf(arrays', 1, 0) = ArrayBlocks(arrays')
    <3>1. arrays' \in SUBSET Part
      BY <1>0, <2>1
    <3>. HIDE DEF IInv
    <3>. QED BY <3>1, BlocksEmpty
  <2>4. BlocksOf(arrays, 1, i - 1)' = BlocksOf(arrays', 1, 0)
    BY <2>1 DEF BlocksOf
  <2>5. heap' \subseteq Block /\ out' = arrays' \cap {"schema"}
    BY <2>1, <2>2 DEF ArrayBlocks
  <2>6. TypeOK'
    BY <1>0, <2>1, <2>5
  <2>7. AllocateInvariant'
    BY <2>1, <2>2, <2>5
  <2>8. FillInvariant'
    <3>1. i' = 1 /\ count' = Len(rows') /\ Len(rows') \in Nat
      BY <1>0, <2>1
    <3>2. pc' = "fill" => arrays' = Parts(kind')
      BY <2>1
    <3>3. heap' = BlocksOf(arrays, 1, i - 1)'
      BY <2>2, <2>3, <2>4
    <3>. QED BY <2>5, <3>1, <3>2, <3>3
  <2>9. AllOrNothing' /\ UndoInvariant' /\ FreeInvariant' /\ RestInvariant'
    BY <2>1
  <2>. QED BY <2>6, <2>7, <2>8, <2>9
<1>4. CASE AllocationFails
  <2>1. BlocksOf(arrays, i, made)' = ArrayBlocks(arrays)
    <3>1. BlocksOf(arrays, 1, 0) = ArrayBlocks(arrays)
      BY <1>0, BlocksEmpty
    <3>2. BlocksOf(arrays, i, made)' = BlocksOf(arrays, 1, 0)
      BY <1>4 DEF AllocationFails, BlocksOf
    <3>. QED BY <3>1, <3>2
  <2>. QED BY <1>0, <1>4, <2>1 DEF AllocationFails
<1>5. CASE FillRow
  <2>1. /\ pc = "fill" /\ i <= Len(rows)
        /\ heap' = heap \cup RowBlocks(arrays, i) /\ i' = i + 1
        /\ UNCHANGED <<pc, kind, rows, arrays, made, out, count, part, rc>>
    BY <1>5 DEF FillRow
  <2>0. i \in 1..MaxRows
    BY <1>0, <2>1
  <2>2. heap' = BlocksOf(arrays, 1, i)
    BY <1>0, <2>0, <2>1, BlocksGrow
  <2>3. BlocksOf(arrays, 1, i - 1)' = BlocksOf(arrays, 1, i) /\ heap' \subseteq Block
    BY <2>1, <2>2 DEF BlocksOf
  <2>. QED BY <1>0, <2>1, <2>2, <2>3
<1>6. CASE RowFails
  <2>1. /\ pc = "fill" /\ i <= Len(rows) /\ pc' = "undo" /\ made' = i - 1 /\ i' = 1
        /\ UNCHANGED <<kind, rows, arrays, heap, out, count, part, rc>>
    BY <1>6 DEF RowFails
  <2>2. BlocksOf(arrays, i, made)' = BlocksOf(arrays, 1, i - 1)
    BY <2>1 DEF BlocksOf
  <2>. QED BY <1>0, <2>1, <2>2
<1>7. CASE UndoRow
  <2>1. /\ pc = "undo" /\ i <= made
        /\ heap' = heap \ RowBlocks(arrays, i) /\ i' = i + 1
        /\ UNCHANGED <<pc, kind, rows, arrays, made, out, count, part, rc>>
    BY <1>7 DEF UndoRow
  <2>0. i \in 1..MaxRows
    BY <2>1
  <2>2. heap' = BlocksOf(arrays, i + 1, made)
    BY <1>0, <2>0, <2>1, BlocksShrink
  <2>3. BlocksOf(arrays, i, made)' = BlocksOf(arrays, i + 1, made)
    BY <2>1 DEF BlocksOf
  <2>. QED BY <1>0, <2>1, <2>2, <2>3
<1>8. CASE UndoArrays
  <2>1. heap = ArrayBlocks(arrays)
    BY <1>0, <1>8, BlocksEmpty DEF UndoArrays
  <2>2. heap' = {} /\ out' = {} /\ BlocksOf(out, 1, count)' = {}
    BY <1>8, <2>1, BlocksOfNothing DEF UndoArrays, BlocksOf
  <2>. QED BY <1>0, <1>8, <2>2 DEF UndoArrays
<1>9. CASE Publish
  <2>1. /\ pc = "fill" /\ i > Len(rows) /\ out' = Parts(kind) /\ pc' = "held"
        /\ rc' = "Success" /\ i' = 1 /\ arrays' = {}
        /\ UNCHANGED <<kind, rows, made, heap, count, part>>
    BY <1>9 DEF Publish
  <2>2. i - 1 = count
    BY <1>0, <2>1
  <2>3. heap' = BlocksOf(Parts(kind), 1, count)
    BY <2>1, <2>2
  <2>4. BlocksOf(out, 1, count)' = BlocksOf(Parts(kind), 1, count)
    BY <2>1 DEF BlocksOf
  <2>5. TypeOK'
    BY <1>0, <2>1
  <2>. QED BY <1>0, <2>1, <2>3, <2>4, <2>5
<1>10. ASSUME NEW p \in Part, FreePart(p) PROVE IInv'
  <2>1. /\ pc = "held" /\ p \in out /\ pc' = "free" /\ part' = p
        /\ UNCHANGED <<kind, rows, arrays, i, made, heap, out, count, rc>>
    BY <1>10 DEF FreePart
  <2>2. heap' = BlocksOf(out \ {p}, 1, count) \cup BlocksOf({p}, 1, count)
    BY <1>0, <2>1, BlocksSplit
  <2>3. /\ BlocksOf(out \ {part}, 1, count)' = BlocksOf(out \ {p}, 1, count)
        /\ BlocksOf({part}, i, count)' = BlocksOf({p}, 1, count)
    BY <2>1 DEF BlocksOf
  <2>4. rc = "Success" /\ count = Len(rows)
    BY <2>1
  <2>5. TypeOK'
    BY <1>0, <2>1
  <2>6. FreeInvariant'
    BY <1>0, <2>1, <2>2, <2>3, <2>4
  <2>. QED BY <2>1, <2>5, <2>6
<1>11. CASE FreeRow
  <2>1. /\ pc = "free" /\ i <= count
        /\ heap' = heap \ RowBlocks({part}, i) /\ i' = i + 1
        /\ UNCHANGED <<pc, kind, rows, arrays, made, out, count, part, rc>>
    BY <1>11 DEF FreeRow
  <2>0. i \in 1..MaxRows
    BY <2>1
  <2>2. BlocksOf({part}, i, count) \ RowBlocks({part}, i) = BlocksOf({part}, i + 1, count)
    BY <2>0, <2>1, BlocksShrink
  <2>3. RowBlocks({part}, i) \cap BlocksOf(out \ {part}, 1, count) = {}
    <3>1. part \in Part \ (out \ {part}) /\ out \ {part} \in SUBSET Part /\ i \in 0..MaxRows
      BY <1>0, <2>0
    <3>. QED BY <3>1, BlocksApart
  <2>4. heap' = BlocksOf(out \ {part}, 1, count) \cup BlocksOf({part}, i + 1, count)
    BY <2>1, <2>2, <2>3
  <2>5. /\ BlocksOf(out \ {part}, 1, count)' = BlocksOf(out \ {part}, 1, count)
        /\ BlocksOf({part}, i, count)' = BlocksOf({part}, i + 1, count)
    BY <2>1 DEF BlocksOf
  <2>6. FreeInvariant'
    <3>1. part \in out /\ count = Len(rows) /\ rc = "Success" /\ count \in Nat
      BY <2>1
    <3>2. heap' = BlocksOf(out \ {part}, 1, count)' \cup BlocksOf({part}, i, count)'
      BY <2>4, <2>5
    <3>. HIDE DEF BlocksOf
    <3>3. i' <= count' + 1
      BY <2>0, <2>1, <3>1
    <3>. QED BY <2>1, <3>1, <3>2, <3>3 DEF FreeInvariant
  <2>7. TypeOK'
    BY <1>0, <2>0, <2>1
  <2>. QED BY <2>1, <2>6, <2>7
<1>12. CASE FreeArray
  <2>1. /\ pc = "free" /\ i > count /\ pc' = "held" /\ i' = 1
        /\ heap' = heap \ {<<part, 0>>} /\ out' = out \ {part}
        /\ UNCHANGED <<kind, rows, arrays, made, count, part, rc>>
    BY <1>12 DEF FreeArray
  <2>2. BlocksOf({part}, i, count) = {<<part, 0>>}
    <3>1. BlocksOf({part}, i, count) = ArrayBlocks({part})
      BY <2>1, BlocksEmpty
    <3>. QED BY <3>1, OneArray
  <2>3. <<part, 0>> \notin BlocksOf(out \ {part}, 1, count)
    BY <1>0, <2>1, BlocksApart
  <2>4. heap' = BlocksOf(out \ {part}, 1, count)
    BY <2>1, <2>2, <2>3
  <2>5. BlocksOf(out, 1, count)' = BlocksOf(out \ {part}, 1, count)
    BY <2>1 DEF BlocksOf
  <2>6. rc = "Success" /\ count = Len(rows)
    BY <2>1
  <2>7. TypeOK'
    BY <1>0, <2>1
  <2>8. AllOrNothing'
    <3>1. heap' = BlocksOf(out, 1, count)' /\ rc' = "Success" /\ pc' = "held" /\ count' = Len(rows')
      BY <2>1, <2>4, <2>5, <2>6
    <3>. QED BY <3>1 DEF AllOrNothing
  <2>9. RestInvariant'
    <3>1. arrays = {}
      BY <2>1
    <3>. QED BY <2>1, <3>1
  <2>10. AllocateInvariant' /\ FillInvariant' /\ UndoInvariant' /\ FreeInvariant'
    BY <2>1
  <2>. QED BY <2>7, <2>8, <2>9, <2>10
<1>13. CASE CallAgain
  <2>1. heap' = {}
    BY <1>13, BlocksOfNothing DEF CallAgain
  <2>. QED BY <1>0, <1>13, <2>1 DEF CallAgain
<1>14. CASE UNCHANGED vars
  <2>1. /\ BlocksOf(out, 1, count)' = BlocksOf(out, 1, count)
        /\ BlocksOf(arrays, 1, i - 1)' = BlocksOf(arrays, 1, i - 1)
        /\ BlocksOf(arrays, i, made)' = BlocksOf(arrays, i, made)
        /\ BlocksOf(out \ {part}, 1, count)' = BlocksOf(out \ {part}, 1, count)
        /\ BlocksOf({part}, i, count)' = BlocksOf({part}, i, count)
        /\ ArrayBlocks(arrays)' = ArrayBlocks(arrays)
    BY <1>14 DEF vars, BlocksOf, ArrayBlocks
  <2>. QED BY <1>14, <2>1 DEF vars
<1>. QED BY <1>1, <1>2, <1>3, <1>4, <1>5, <1>6, <1>7, <1>8, <1>9, <1>10, <1>11, <1>12,
            <1>13, <1>14 DEF Next

LEMMA SpecIInv == Spec => []IInv
  BY InitIInv, NextIInv, PTL DEF Spec

(* Every state of the marshalling loops is well-typed.                     *)
THEOREM ResultsTypeCorrect == Spec => []TypeOK
<1>1. IInv => TypeOK BY DEF IInv
<1>. QED BY SpecIInv, <1>1, PTL

(* A result is returned whole or not at all, whatever fails, and freeing   *)
(* its parts in any order leaves nothing of it: for the ten calls that     *)
(* return rows and the seven functions that free them.                     *)
THEOREM ResultsAreAllOrNothing == Spec => []AllOrNothing
<1>1. IInv => AllOrNothing BY DEF IInv
<1>. QED BY SpecIInv, <1>1, PTL

(* No clean-up and no free function reads a cell that was never written    *)
(* or frees a block twice.                                                 *)
THEOREM ResultsAreFreedOnce == Spec => []FreesWhatIsThere
<1>1. ASSUME IInv PROVE FreesWhatIsThere
  <2>0. /\ Len(rows) \in 0..MaxRows /\ Parts(kind) \subseteq Part
        /\ arrays \in SUBSET Part /\ out \in SUBSET Part
    BY <1>1, ResultFacts, PartFacts DEF IInv, TypeOK
  <2>1. CASE pc = "undo"
    <3>1. ArrayBlocks(arrays) \subseteq heap
      BY <1>1, <2>1 DEF IInv, UndoInvariant, ArrayBlocks, BlocksOf
    <3>2. ASSUME i <= made PROVE i <= Len(rows) /\ RowBlocks(arrays, i) \subseteq heap
      <4>1. /\ i \in 1..MaxRows /\ made \in 0..MaxRows /\ i <= Len(rows)
            /\ heap = BlocksOf(arrays, i, made)
        BY <1>1, <2>0, <2>1, <3>2, MaxRowsAssumption DEF IInv, TypeOK, UndoInvariant
      <4>. QED BY <2>0, <3>2, <4>1, BlocksShrink
    <3>. QED BY <2>1, <3>1, <3>2 DEF FreesWhatIsThere
  <2>2. CASE pc = "free"
    <3>1. <<part, 0>> \in heap
      <4>1. part \in Part /\ BlocksOf({part}, i, count) \subseteq heap
        BY <1>1, <2>2 DEF IInv, TypeOK, FreeInvariant
      <4>2. <<part, 0>> \in BlocksOf({part}, i, count)
        BY <4>1, MaxRowsAssumption DEF BlocksOf, Block
      <4>. QED BY <4>1, <4>2
    <3>2. ASSUME i <= count PROVE i <= Len(rows) /\ RowBlocks({part}, i) \subseteq heap
      <4>1. i \in 1..MaxRows /\ count \in 0..MaxRows /\ i <= Len(rows)
        BY <1>1, <2>0, <2>2, <3>2, MaxRowsAssumption DEF IInv, TypeOK, FreeInvariant
      <4>2. {part} \in SUBSET Part /\ BlocksOf({part}, i, count) \subseteq heap
        BY <1>1, <2>2 DEF IInv, TypeOK, FreeInvariant
      <4>. QED BY <3>2, <4>1, <4>2, BlocksShrink
    <3>. QED BY <2>2, <3>1, <3>2 DEF FreesWhatIsThere
  <2>. QED BY <2>1, <2>2 DEF FreesWhatIsThere
<1>. QED BY SpecIInv, <1>1, PTL
-----------------------------------------------------------------------------
(* The calls as entry points of LanceDB.                                   *)

LEMMA ObjectFacts ==
  /\ ObjectOf \in [Part -> {"TableNames", "Versions", "VersionMetadata", "Schema",
                            "Arrays", "Metadata"}]
  /\ ObjectOf["names"] = "TableNames" /\ ObjectOf["versions"] = "Versions"
  /\ ObjectOf["cells"] = "VersionMetadata" /\ ObjectOf["schema"] = "Schema"
  /\ ObjectOf["batches"] = "Arrays"
  /\ ObjectOf["keys"] = "Metadata" /\ ObjectOf["values"] = "Metadata"
  BY DEF ObjectOf, Part

LEMMA ObjectsOfCalls ==
  /\ Objects(Parts("names")) = {"TableNames"}
  /\ Objects(Parts("versions")) = {"Versions"}
  /\ Objects(Parts("history")) = {"Versions", "VersionMetadata"}
  /\ Objects(Parts("metadata")) = {"Metadata"}
  /\ Objects(Parts("arrow")) = {"Arrays", "Schema"}
  BY ObjectFacts DEF Objects, Parts, Part

LEMMA KeptIsNoResult == \A ps \in SUBSET Part : Objects(ps) \cap Kept = {} /\ Objects(ps) \subseteq Object
  BY ObjectFacts DEF Objects, Kept, Object

(* Between calls the heap holds blocks of exactly the client's parts, ...  *)
LEMMA HeapIsOut ==
  ASSUME IInv, ClientRuns
  PROVE  PartsOnHeap = out
<1>1. out \subseteq Part
  BY PartFacts DEF IInv, TypeOK
<1>2. CASE pc = "idle"
  BY <1>2 DEF IInv, AllOrNothing, RestInvariant, PartsOnHeap
<1>3. CASE pc = "held"
  <2>1. heap = BlocksOf(out, 1, count)
    BY <1>3 DEF IInv, AllOrNothing
  <2>2. \A p \in out : <<p, 0>> \in BlocksOf(out, 1, count)
    BY <1>1, MaxRowsAssumption DEF BlocksOf, Block
  <2>3. \A b \in BlocksOf(out, 1, count) : b[1] \in out
    BY DEF BlocksOf
  <2>4. ASSUME NEW p \in out PROVE p \in PartsOnHeap
    <3>1. <<p, 0>> \in heap /\ <<p, 0>>[1] = p
      BY <2>1, <2>2
    <3>. QED BY <3>1 DEF PartsOnHeap
  <2>5. PartsOnHeap \subseteq out
    BY <2>1, <2>3 DEF PartsOnHeap
  <2>. QED BY <2>4, <2>5
<1>4. CASE pc = "free"
  <2>1. /\ heap = BlocksOf(out \ {part}, 1, count) \cup BlocksOf({part}, i, count)
        /\ part \in out
    BY <1>4 DEF IInv, FreeInvariant
  <2>2. /\ \A p \in out \ {part} : <<p, 0>> \in BlocksOf(out \ {part}, 1, count)
        /\ <<part, 0>> \in BlocksOf({part}, i, count)
    BY <1>1, <2>1, MaxRowsAssumption DEF BlocksOf, Block
  <2>3. /\ \A b \in BlocksOf(out \ {part}, 1, count) : b[1] \in out
        /\ \A b \in BlocksOf({part}, i, count) : b[1] \in out
    BY <2>1 DEF BlocksOf
  <2>4. ASSUME NEW p \in out PROVE p \in PartsOnHeap
    <3>1. <<p, 0>> \in heap /\ <<p, 0>>[1] = p
      BY <2>1, <2>2
    <3>. QED BY <3>1 DEF PartsOnHeap
  <2>5. PartsOnHeap \subseteq out
    BY <2>1, <2>3 DEF PartsOnHeap
  <2>. QED BY <2>4, <2>5
<1>. QED BY <1>2, <1>3, <1>4 DEF ClientRuns

(* ... so the API's heap is what the client knows it owns.                 *)
Balanced ==
  /\ ApiHeap = [o \in Object |-> IF o \in Owned THEN o ELSE "free"]
  /\ Kept \subseteq Owned /\ Owned \subseteq Object

LEMMA HeapIsOwned == IInv => Balanced
<1>. SUFFICES ASSUME IInv PROVE Balanced
  OBVIOUS
<1>1. out \in SUBSET Part
  BY PartFacts DEF IInv, TypeOK
<1>. QED BY <1>1, HeapIsOut, KeptIsNoResult DEF Balanced, ApiHeap, Allocated, Owned, Object

LEMMA HeapStaysOwned == IInv' => Balanced'
  BY HeapIsOwned, PTL

LEMMA NothingIsFresh == Api!Nothing \in Api!Fresh({}) /\ DOMAIN Api!Nothing = {}
<1>1. Api!Nothing \in [{} -> {}] /\ DOMAIN Api!Nothing = {}
  BY DEF Api!Nothing
<1>2. {} \in SUBSET (Object \ Api!Live)
  OBVIOUS
<1>. QED BY <1>1, <1>2 DEF Api!Fresh

(* A client that holds a connection and a table can make every call.       *)
LEMMA CallsAreProduced ==
  ASSUME IInv, NEW k \in Kind,
         \A h \in Kept : Api!Produces(EntryPoint[k], {h}, Objects(Parts(k)), TRUE)
  PROVE  Api!Next
<1>1. \A h \in Kept : h \in Api!Arg(h)
  BY HeapIsOwned DEF Balanced, Api!Arg, Api!Handle, Kept
<1>2. CASE k = "names"
  <2>1. EntryPoint[k] = "connection_table_names"
    BY <1>2 DEF EntryPoint
  <2>2. Api!ConnectionTableNames
    BY <1>1, <1>2, <2>1, ObjectsOfCalls DEF Kept, Api!ConnectionTableNames
  <2>. QED BY <2>2 DEF Api!ConnectionNext, Api!Next
<1>3. CASE k = "metadata"
  <2>1. EntryPoint[k] = "table_get_metadata"
    BY <1>3 DEF EntryPoint
  <2>2. Api!TableGetMetadata
    BY <1>1, <1>3, <2>1, ObjectsOfCalls DEF Kept, Api!TableGetMetadata
  <2>. QED BY <2>2 DEF Api!TableNext, Api!Next
<1>4. CASE k = "arrow"
  <2>1. EntryPoint[k] = "table_nearest_to"
    BY <1>4 DEF EntryPoint
  <2>2. Api!TableNearestTo
    BY <1>1, <1>4, <2>1, ObjectsOfCalls DEF Kept, Api!TableNearestTo
  <2>. QED BY <2>2 DEF Api!TableNext, Api!Next
<1>5. CASE k \in {"versions", "history"}
  <2>1. EntryPoint[k] = "table_list_versions"
    BY <1>5 DEF EntryPoint
  <2>2. Objects(Parts(k)) \in {{"Versions"}, {"Versions", "VersionMetadata"}}
    BY <1>5, ObjectsOfCalls
  <2>3. Api!TableListVersions
    BY <1>1, <2>1, <2>2 DEF Kept, Api!TableListVersions
  <2>. QED BY <2>3 DEF Api!TableNext, Api!Next
<1>. QED BY <1>2, <1>3, <1>4, <1>5 DEF Kind

LEMMA CallFails ==
  ASSUME IInv, IInv', NEW k \in Kind, Owned' = Owned,
         last' = Returned(EntryPoint[k], "Error", {})
  PROVE  Api!Next
<1>. DEFINE fn == EntryPoint[k]
<1>1. Api!Exchange(fn, {}, "Error", {}, Api!Nothing)
  BY HeapIsOwned, HeapStaysOwned, NothingIsFresh DEF Balanced, Api!Exchange
<1>2. Api!FailsSilently(fn, {} \ {"null"}, "Error", {}, FALSE)
  <2>1. {} \ {"null"} = {}
    OBVIOUS
  <2>. QED BY <1>1, <2>1 DEF Api!FailsSilently, Returned
<1>3. Api!Fails(fn, {}, "Error", {})
  BY <1>2 DEF Api!Fails
<1>4. \A h \in Kept : Api!Produces(fn, {h}, Objects(Parts(k)), TRUE)
  BY <1>3 DEF Api!Produces, Kept
<1>. QED BY <1>4, CallsAreProduced

LEMMA CallSucceeds ==
  ASSUME IInv, IInv', NEW k \in Kind, NEW got \in {{}, Objects(Parts(k))},
         got \cap Owned = {}, Owned' = Owned \cup got,
         last' = Returned(EntryPoint[k], "Success", {})
  PROVE  Api!Next
<1>. DEFINE fn == EntryPoint[k]
            new == [o \in got |-> o]
<1>1. got \subseteq Object
  BY PartFacts, KeptIsNoResult
<1>2. new \in Api!Fresh(got)
  <2>1. got \in SUBSET (Object \ Api!Live)
    BY <1>1, HeapIsOwned DEF Balanced, Api!Live, Api!Free
  <2>2. new \in [got -> got]
    OBVIOUS
  <2>3. new \in UNION {[S -> got] : S \in SUBSET (Object \ Api!Live)}
    BY <2>1, <2>2
  <2>. QED BY <2>3 DEF Api!Fresh
<1>3. Api!Exchange(fn, {}, "Success", {}, new)
  <2>1. ApiHeap' = [o \in Object |-> IF o \in DOMAIN new THEN new[o]
                                    ELSE IF o \in {} THEN Api!Free ELSE ApiHeap[o]]
    BY <1>1, HeapIsOwned, HeapStaysOwned DEF Balanced
  <2>2. Owned' = (Owned \ (IF Api!Keeps(fn, "Success") THEN {} ELSE {}))
                   \cup {o \in DOMAIN new : "Success" = "Success" \/ new[o] = "Message"}
    OBVIOUS
  <2>. QED BY <2>1, <2>2 DEF Api!Exchange
<1>4. Api!Succeeds(fn, {}, {}, got)
  <2>1. {} \ {"null"} = {}
    OBVIOUS
  <2>2. fn \in {EntryPoint[kk] : kk \in Kind} \cup {FreeFunction[p] : p \in Part}
    OBVIOUS
  <2>. QED BY <1>2, <1>3, <2>1, <2>2 DEF Api!Succeeds, Returned
<1>5. \A h \in Kept : Api!Produces(fn, {h}, Objects(Parts(k)), TRUE)
  BY <1>4 DEF Api!Produces, Kept
<1>. QED BY <1>5, CallsAreProduced

LEMMA ObjectIsFreed ==
  ASSUME IInv, IInv', NEW p \in Part, NEW o, o = ObjectOf[p],
         o \in Owned, Owned' = Owned \ {o},
         last' = Returned(FreeFunction[p], "Success", {o})
  PROVE  Api!Next
<1>. DEFINE fn == FreeFunction[p]
<1>1. o \in Api!Arg(o) /\ o \in Object /\ o # "null" /\ o # "free"
  BY ObjectFacts, HeapIsOwned DEF Balanced, Api!Arg, Api!Handle
<1>2. Api!Exchange(fn, {o}, "Success", {o}, Api!Nothing)
  <2>1. ~Api!Keeps(fn, "Success")
    BY DEF Api!Keeps
  <2>2. ApiHeap' = [x \in Object |-> IF x \in DOMAIN Api!Nothing THEN Api!Nothing[x]
                                    ELSE IF x \in {o} THEN Api!Free ELSE ApiHeap[x]]
    BY HeapIsOwned, HeapStaysOwned, NothingIsFresh DEF Balanced, Api!Free
  <2>. QED BY <2>1, <2>2, NothingIsFresh DEF Api!Exchange
<1>3. Api!Succeeds(fn, {o}, {o} \ {"null"}, {})
  <2>1. {o} \ {"null"} = {o}
    BY <1>1
  <2>2. fn \in {EntryPoint[k] : k \in Kind} \cup {FreeFunction[q] : q \in Part}
    OBVIOUS
  <2>. QED BY <1>2, <2>1, <2>2, NothingIsFresh DEF Api!Succeeds, Returned
<1>4. Api!Frees(fn, o)
  BY <1>1, <1>3 DEF Api!Frees
<1>5. CASE p = "names"
  BY <1>4, <1>5, ObjectFacts
     DEF FreeFunction, Api!FreeTableNames, Api!ConnectionNext, Api!Next
<1>6. CASE p = "versions"
  BY <1>4, <1>6, ObjectFacts DEF FreeFunction, Api!FreeVersions, Api!TableNext, Api!Next
<1>7. CASE p = "cells"
  BY <1>4, <1>7, ObjectFacts DEF FreeFunction, Api!FreeVersionMetadata, Api!TableNext, Api!Next
<1>8. CASE p \in {"keys", "values"}
  BY <1>4, <1>8, ObjectFacts DEF FreeFunction, Api!FreeMetadata, Api!TableNext, Api!Next
<1>9. CASE p = "schema"
  BY <1>4, <1>9, ObjectFacts DEF FreeFunction, Api!FreeArrowSchema, Api!TableNext, Api!Next
<1>10. CASE p = "batches"
  BY <1>4, <1>10, ObjectFacts DEF FreeFunction, Api!FreeArrowArrays, Api!QueryNext, Api!Next
<1>. QED BY <1>5, <1>6, <1>7, <1>8, <1>9, <1>10 DEF Part

LEMMA CallUnseen ==
  ASSUME IInv, IInv', Owned' = Owned, last' = last
  PROVE  UNCHANGED Api!vars
  BY HeapIsOwned, HeapStaysOwned DEF Balanced, Api!vars

(* The steps inside a call, and those of a free function before its last,  *)
(* stutter; the last one is the step of the protocol.                      *)
LEMMA StepIsCall == IInv /\ IInv' /\ [HNext]_hvars => [Api!Next]_(Api!vars)
<1>. SUFFICES ASSUME IInv, IInv', [HNext]_hvars PROVE [Api!Next]_(Api!vars)
  OBVIOUS
<1>0. /\ kind \in Kind /\ kind' \in Kind /\ out \in SUBSET Part /\ part \in Part
      /\ pc = "idle" => out = {}
  BY PartFacts DEF IInv, TypeOK, RestInvariant
<1>1. CASE RequestFails /\ Remembers
  <2>1. Owned' = Owned /\ last' = Returned(EntryPoint[kind'], "Error", {})
    BY <1>1 DEF RequestFails, Return, Remembers, Owned, ClientRuns
  <2>. QED BY <1>0, <2>1, CallFails
<1>2. CASE Answer /\ Remembers
  <2>1. CASE pc' = "held"
    <3>1. Owned' = Owned /\ last' = Returned(EntryPoint[kind'], "Success", {})
      BY <1>2, <2>1 DEF Answer, Return, Remembers, Owned, ClientRuns
    <3>. QED BY <1>0, <3>1, CallSucceeds
  <2>2. CASE pc' = "allocate"
    <3>1. Objects(out) = {}
      BY <1>0, <1>2 DEF Answer, Objects
    <3>2. Owned' = Owned /\ last' = last
      BY <1>2, <2>2, <3>1 DEF Answer, Remembers, Owned, ClientRuns
    <3>. QED BY <3>2, CallUnseen
  <2>. QED BY <1>2, <2>1, <2>2 DEF Answer, Return
<1>3. CASE (\E p \in Part : AllocateArray(p)) /\ Remembers
  <2>1. Owned' = Owned /\ last' = last
    BY <1>3 DEF AllocateArray, Remembers, Owned, ClientRuns
  <2>. QED BY <2>1, CallUnseen
<1>4. CASE (AllocationFails \/ FillRow \/ RowFails \/ UndoRow) /\ Remembers
  <2>1. Owned' = Owned /\ last' = last
    BY <1>4 DEF AllocationFails, FillRow, RowFails, UndoRow, Remembers, Owned, ClientRuns
  <2>. QED BY <2>1, CallUnseen
<1>5. CASE UndoArrays /\ Remembers
  <2>1. Objects(out') = {}
    BY <1>5 DEF UndoArrays, Objects
  <2>2. Owned' = Owned /\ last' = Returned(EntryPoint[kind'], "Error", {})
    BY <1>5, <2>1 DEF UndoArrays, Return, Remembers, Owned, ClientRuns
  <2>. QED BY <1>0, <2>2, CallFails
<1>6. CASE Publish /\ Remembers
  <2>1. Owned = Kept /\ Owned' = Kept \cup Objects(Parts(kind))
    BY <1>6 DEF Publish, Return, Owned, ClientRuns
  <2>2. kind' = kind /\ last' = Returned(EntryPoint[kind], "Success", {})
    BY <1>6 DEF Publish, Return, Remembers
  <2>3. Objects(Parts(kind)) \cap Kept = {}
    BY <1>0, PartFacts, KeptIsNoResult
  <2>. QED BY <1>0, <2>1, <2>2, <2>3, CallSucceeds
<1>7. CASE ((\E p \in Part : FreePart(p)) \/ FreeRow) /\ Remembers
  <2>1. Owned' = Owned /\ last' = last
    BY <1>7 DEF FreePart, FreeRow, Remembers, Owned, ClientRuns
  <2>. QED BY <2>1, CallUnseen
<1>8. CASE FreeArray /\ Remembers
  <2>1. /\ pc = "free" /\ pc' = "held" /\ out' = out \ {part} /\ part \in out
    BY <1>8 DEF FreeArray, IInv, FreeInvariant
  <2>2. Owned = Kept \cup Objects(out) /\ Owned' = Kept \cup Objects(out')
    BY <2>1 DEF Owned, ClientRuns
  <2>3. Objects(out) = Objects(out') \cup {ObjectOf[part]}
    BY <2>1 DEF Objects
  <2>4. CASE ObjectOf[part] \in Objects(out')
    <3>1. Owned' = Owned /\ last' = last
      BY <1>8, <2>1, <2>2, <2>3, <2>4 DEF Remembers
    <3>. QED BY <3>1, CallUnseen
  <2>5. CASE ObjectOf[part] \notin Objects(out')
    <3>1. ObjectOf[part] \notin Kept
      BY <1>0, ObjectFacts DEF Kept
    <3>2. /\ Owned' = Owned \ {ObjectOf[part]} /\ ObjectOf[part] \in Owned
          /\ last' = Returned(FreeFunction[part], "Success", {ObjectOf[part]})
      BY <1>8, <2>1, <2>2, <2>3, <2>5, <3>1 DEF Remembers
    <3>. QED BY <1>0, <3>2, ObjectIsFreed
  <2>. QED BY <2>4, <2>5
<1>9. CASE CallAgain /\ Remembers
  <2>1. Owned' = Owned /\ last' = last
    BY <1>9 DEF CallAgain, Remembers, Owned, ClientRuns
  <2>. QED BY <2>1, CallUnseen
<1>10. CASE UNCHANGED hvars
  <2>1. Owned' = Owned /\ last' = last
    BY <1>10 DEF hvars, vars, Owned, ClientRuns
  <2>. QED BY <2>1, CallUnseen
<1>. QED BY <1>1, <1>2, <1>3, <1>4, <1>5, <1>6, <1>7, <1>8, <1>9, <1>10 DEF HNext, Next

LEMMA InitIsReady == HInit => ClientIsReady
<1>. SUFFICES ASSUME HInit PROVE ClientIsReady
  OBVIOUS
<1>1. IInv /\ out = {} /\ last = Returned("none", "Success", {})
  BY InitIInv DEF HInit, Init
<1>2. Owned = Kept
  BY <1>1 DEF Owned, Objects
<1>3. ApiHeap = [o \in Object |-> IF o \in Kept THEN o ELSE "free"] /\ Kept \subseteq Object
  BY <1>1, <1>2, HeapIsOwned DEF Balanced
<1>4. Api!TypeOK
  BY <1>1, <1>2, <1>3 DEF Api!TypeOK, Api!Kind, Api!Free, Api!ReturnCode, Kept, Returned
<1>5. Api!OwnedIsLive /\ Api!MessageIsLive
  BY <1>2, <1>3 DEF Api!OwnedIsLive, Api!MessageIsLive, Api!Live, Api!Free, Kept
<1>. QED BY <1>4, <1>5 DEF ClientIsReady

(* The calls that return rows implement the entry points of the ownership  *)
(* protocol, and the functions that free their parts its free functions:   *)
(* no loop, no clean-up and no order of freeing shows at the boundary, for *)
(* results of any length.                                                  *)
THEOREM CallsImplementTheProtocol == HSpec => ResultsAreCalls
<1>1. HInit => IInv
  BY InitIInv DEF HInit
<1>2. IInv /\ [HNext]_hvars => IInv'
  <2>1. [HNext]_hvars => [Next]_vars
    BY DEF HNext, hvars
  <2>. QED BY <2>1, NextIInv
<1>. QED BY <1>1, <1>2, StepIsCall, InitIsReady, PTL DEF HSpec, ResultsAreCalls
=============================================================================
