-------------------------- MODULE JsonMatchesProofs --------------------------
(***************************************************************************)
(* Proofs about JsonMatches, for any number of batches of any length and   *)
(* any largest usize.  What the loops add up is followed by a function     *)
(* from a batch to the rows up to its end, which every turn of the         *)
(* counting loop extends by one batch and the filling loop only reads.     *)
(***************************************************************************)
EXTENDS JsonMatches, SequenceTheorems, TLAPS

(* The ends of the first n batches; a batch never ends before another      *)
(* that comes earlier.                                                     *)
Ends(end, bs, n) ==
  /\ end \in [0..n -> Nat]
  /\ EndsOf(end, bs, n)
  /\ \A a, b \in 0..n : a <= b => end[a] <= end[b]

(* The rows of the first n batches have been answered.                     *)
Answered(end, bs, answers, n) ==
  \A b \in 1..n : \A r \in 1..Len(bs[b].rows) :
    answers[end[b - 1] + r] = (bs[b].rows[r] = "true")

(* The two loops, and what a successful call has reached.                  *)
CountFits ==
  pc = "count" =>
    /\ batches \in Batches /\ i <= Len(batches) + 1
    /\ \E end : Ends(end, batches, i - 1) /\ end[i - 1] = total
    /\ offset = 0 /\ cells = <<>>

FillFits ==
  pc = "fill" =>
    /\ batches \in Batches /\ i <= Len(batches) + 1
    /\ total > 0
    /\ Len(cells) = offset
    /\ \E end : /\ Ends(end, batches, Len(batches)) /\ end[Len(batches)] = total
                /\ end[i - 1] = offset
                /\ Answered(end, batches, cells, i - 1)

DoneFits ==
  pc = "returned" /\ rc = "Success" =>
    /\ Len(cells) = total
    /\ total > 0 <=> out = "array"
    /\ batches \in Batches
    /\ \E end : /\ Ends(end, batches, Len(batches)) /\ end[Len(batches)] = total
                /\ Answered(end, batches, cells, Len(batches))

(* A filter that is a scalar has one answer.                               *)
FormFits == pc # "idle" /\ form = "scalar" => SameAnswer(batches)

(* The result array, and the pointer to it.                                *)
HeapFits ==
  /\ pc = "idle" => /\ heap = "free" /\ out = "unset" /\ form = "array"
                  /\ cells = <<>> /\ offset = 0 /\ i = 1 /\ total = 0
  /\ pc = "count" => heap = "free" /\ out = "unset"
  /\ pc = "fill" => heap = "allocated" /\ out = "unset"
  /\ pc = "returned" => (heap = "allocated" <=> out = "array")

Inv ==
  /\ TypeOK /\ CountFits /\ FillFits /\ DoneFits /\ FormFits /\ HeapFits
  /\ WritesInBounds

-----------------------------------------------------------------------------
(* The caller's batches are a sequence, of sequences of rows.              *)
LEMMA BatchesAreRows ==
  ASSUME NEW bs \in Batches
  PROVE  /\ Len(bs) \in 1..MaxBatches
         /\ \A b \in 1..Len(bs) : /\ bs[b].rows \in Seq(Truth)
                                  /\ Len(bs[b].rows) \in Nat
<1>1. PICK n \in 1..MaxBatches : bs \in [1..n -> Good \cup Bad]
  BY DEF Batches
<1>2. n \in Nat
  BY BoundAssumption
<1>3. bs \in Seq(Good \cup Bad) /\ Len(bs) = n
  BY <1>1, <1>2
<1>4. \A g \in Good \cup Bad : g.rows \in Seq(Truth)
  <2>1. SUFFICES ASSUME NEW g \in Good \cup Bad PROVE g.rows \in Seq(Truth)
    OBVIOUS
  <2>2. CASE g \in Bad
    <3>1. PICK k \in {"null", "negative"} : g = [kind |-> k, rows |-> <<>>]
      BY <2>2 DEF Bad
    <3>2. g.rows = <<>>
      BY <3>1
    <3> QED BY <3>2, EmptySeq
  <2>3. CASE g \in Good
    <3>1. PICK r \in UNION {[1..k -> Truth] : k \in 0..MaxRows} : g = [kind |-> "rows", rows |-> r]
      BY <2>3 DEF Good
    <3>2. PICK k \in 0..MaxRows : r \in [1..k -> Truth]
      BY <3>1
    <3>3. k \in Nat
      BY BoundAssumption
    <3> QED BY <3>1, <3>2, <3>3
  <2> QED BY <2>1, <2>2, <2>3
<1>5. \A b \in 1..Len(bs) : bs[b] \in Good \cup Bad
  BY <1>1, <1>3
<1>6. \A b \in 1..Len(bs) : bs[b].rows \in Seq(Truth)
  BY <1>4, <1>5
<1>7. \A s \in Seq(Truth) : Len(s) \in Nat
  BY LenProperties
<1> QED BY <1>1, <1>3, <1>6, <1>7

(* The array a batch evaluates to answers the rows of the batch.           *)
LEMMA EvaluationAnswers ==
  ASSUME batches \in Batches, i \in 1..Len(batches),
         form \in {"array", "scalar"},
         form = "scalar" => SameAnswer(batches)
  PROVE  /\ Evaluated \in Seq(Truth)
         /\ Len(Evaluated) = Len(batches[i].rows)
         /\ \A r \in 1..Len(batches[i].rows) : Evaluated[r] = batches[i].rows[r]
<1> DEFINE rows == batches[i].rows
<1>1. rows \in Seq(Truth) /\ Len(rows) \in Nat
  BY BatchesAreRows
<1>2. CASE form = "array" \/ rows = <<>>
  BY <1>1, <1>2 DEF Evaluated
<1>3. CASE ~(form = "array" \/ rows = <<>>)
  <2>1. SameAnswer(batches)
    BY <1>3
  <2>2. rows # <<>> /\ 1 \in 1..Len(rows) /\ DOMAIN rows = 1..Len(rows)
    BY <1>1, <1>3, EmptySeq, LenProperties
  <2>3. i \in DOMAIN batches
    <3>1. PICK n \in 1..MaxBatches : batches \in [1..n -> Good \cup Bad]
      BY DEF Batches
    <3>2. n \in Nat
      BY BoundAssumption
    <3> QED BY <3>1, <3>2
  <2>4. \A r \in 1..Len(rows) : rows[r] = rows[1]
    BY <2>1, <2>2, <2>3 DEF SameAnswer
  <2>5. Evaluated = [r \in 1..Len(rows) |-> rows[1]]
    BY <1>3 DEF Evaluated
  <2>6. rows[1] \in Truth
    BY <1>1, <2>2, ElementOfSeq
  <2>7. Evaluated \in [1..Len(rows) -> Truth]
    BY <2>5, <2>6
  <2>8. Evaluated \in Seq(Truth) /\ Len(Evaluated) = Len(rows)
    BY <2>7, <1>1
  <2> QED BY <2>4, <2>5, <2>8
<1> QED BY <1>2, <1>3

(* A turn of the counting loop extends the ends by one batch.              *)
LEMMA OneMoreEnd ==
  ASSUME batches \in Batches, NEW n \in Nat, n + 1 <= Len(batches),
         NEW end, Ends(end, batches, n)
  PROVE  \E more : /\ Ends(more, batches, n + 1)
                   /\ more[n + 1] = end[n] + Len(batches[n + 1].rows)
<1> DEFINE more == [b \in 0..(n + 1) |->
                      IF b = n + 1 THEN end[n] + Len(batches[n + 1].rows) ELSE end[b]]
<1>1. Len(batches[n + 1].rows) \in Nat
  BY BatchesAreRows
<1>2. end \in [0..n -> Nat] /\ end[n] \in Nat
  BY DEF Ends
<1>3. more \in [0..(n + 1) -> Nat]
  BY <1>1, <1>2
<1>4. \A b \in 0..n : more[b] = end[b]
  OBVIOUS
<1>5. more[n + 1] = end[n] + Len(batches[n + 1].rows)
  OBVIOUS
<1>6. EndsOf(more, batches, n + 1)
  <2>1. end[0] = 0 /\ \A b \in 1..n : end[b] = end[b - 1] + Len(batches[b].rows)
    BY DEF Ends, EndsOf
  <2>2. more[0] = 0
    BY <2>1, <1>4
  <2>3. \A b \in 1..n : more[b] = more[b - 1] + Len(batches[b].rows)
    <3>1. SUFFICES ASSUME NEW b \in 1..n PROVE more[b] = more[b - 1] + Len(batches[b].rows)
      OBVIOUS
    <3>2. b \in 0..n /\ b - 1 \in 0..n
      OBVIOUS
    <3> HIDE DEF more
    <3> QED BY <3>2, <2>1, <1>4
  <2>4. more[n + 1] = more[(n + 1) - 1] + Len(batches[n + 1].rows)
    <3> HIDE DEF more
    <3> QED BY <1>4, <1>5
  <2>5. \A b \in 1..(n + 1) : more[b] = more[b - 1] + Len(batches[b].rows)
    <3> HIDE DEF more
    <3>1. \A b \in 1..(n + 1) : b \in 1..n \/ b = n + 1
      OBVIOUS
    <3> QED BY <2>3, <2>4, <3>1
  <2> HIDE DEF more
  <2> QED BY <2>2, <2>5 DEF EndsOf
<1>7. \A a, b \in 0..(n + 1) : a <= b => more[a] <= more[b]
  <2>1. SUFFICES ASSUME NEW a \in 0..(n + 1), NEW b \in 0..(n + 1), a <= b
                 PROVE  more[a] <= more[b]
    OBVIOUS
  <2> HIDE DEF more
  <2>2. \A c, d \in 0..n : c <= d => end[c] <= end[d]
    BY DEF Ends
  <2>3. CASE b \in 0..n
    BY <2>1, <2>2, <2>3, <1>4
  <2>4. CASE b = n + 1 /\ a = n + 1
    BY <2>4, <1>3
  <2>5. CASE b = n + 1 /\ a \in 0..n
    <3>1. end[a] <= end[n] /\ more[a] = end[a]
      BY <2>5, <2>2, <1>4
    <3>2. end[a] \in Nat
      BY <2>5, <1>2
    <3> QED BY <3>1, <3>2, <2>5, <1>1, <1>2, <1>5
  <2> QED BY <2>1, <2>3, <2>4, <2>5
<1> HIDE DEF more
<1> QED BY <1>3, <1>5, <1>6, <1>7 DEF Ends

-----------------------------------------------------------------------------
(* The answers to one batch, written behind those to the others.           *)
LEMMA JoinedAnswers ==
  ASSUME NEW s \in Seq(BOOLEAN), NEW t \in Seq(BOOLEAN)
  PROVE  /\ s \o t \in Seq(BOOLEAN)
         /\ Len(s \o t) = Len(s) + Len(t)
         /\ \A c \in 1..(Len(s) + Len(t)) :
              (s \o t)[c] = IF c <= Len(s) THEN s[c] ELSE t[c - Len(s)]
BY ConcatProperties

LEMMA InvInitially == Init => Inv
BY BoundAssumption, EmptySeq
   DEF Init, Inv, TypeOK, CountFits, FillFits, DoneFits, FormFits, HeapFits,
       WritesInBounds

LEMMA InvPreserved == Inv /\ [Next]_vars => Inv'
<1> SUFFICES ASSUME Inv, [Next]_vars PROVE Inv'
  OBVIOUS
<1> USE DEF vars
<1>0. TypeOK /\ CountFits /\ FillFits /\ DoneFits /\ FormFits /\ HeapFits /\ WritesInBounds
  BY DEF Inv
<1>a. MaxUsize \in Nat /\ MaxRows \in Nat /\ MaxBatches \in Nat
  BY BoundAssumption
<1>b. total \in Nat /\ offset \in Nat /\ i \in Nat /\ cells \in Seq(BOOLEAN) /\ Len(cells) \in Nat
  BY <1>0, <1>a, LenProperties DEF TypeOK
<1>c. batches \in Batches => Len(batches) \in 1..MaxBatches
  BY BatchesAreRows
<1>1. CASE Call
  <2>1. TypeOK'
    BY <1>0, <1>1 DEF Call, Return, TypeOK
  <2>2. CASE pc' = "count"
    <3>1. batches' \in Batches /\ i' = 1 /\ total' = 0 /\ offset' = 0 /\ cells' = <<>>
      BY <1>0, <1>1, <2>2 DEF Call, Return, HeapFits
    <3>2. Len(batches') \in Nat
      BY <3>1, BatchesAreRows, <1>a
    <3>3. \E end : Ends(end, batches', 0) /\ end[0] = 0
      <4>1. [b \in 0..0 |-> 0] \in [0..0 -> Nat]
        OBVIOUS
      <4>2. EndsOf([b \in 0..0 |-> 0], batches', 0)
        BY DEF EndsOf
      <4> QED BY <4>1, <4>2 DEF Ends
    <3>4. CountFits'
      BY <2>2, <3>1, <3>2, <3>3 DEF CountFits
    <3>5. FormFits'
      BY <1>0, <1>1, <2>2 DEF Call, Return, FormFits
    <3>6. HeapFits' /\ FillFits' /\ DoneFits'
      BY <1>0, <1>1, <2>2 DEF Call, Return, HeapFits, FillFits, DoneFits
    <3>7. WritesInBounds'
      BY <1>0, <1>1 DEF Call, HeapFits, WritesInBounds
    <3> QED BY <2>1, <3>4, <3>5, <3>6, <3>7 DEF Inv
  <2>3. CASE pc' = "returned"
    <3>1. CountFits' /\ FillFits'
      BY <2>3 DEF CountFits, FillFits
    <3>2. rc' \in {"InvalidArgument", "Error"} /\ batches' = batches /\ form' = form
      BY <1>1, <2>3 DEF Call, Return
    <3>3. DoneFits'
      BY <3>2 DEF DoneFits
    <3>4. form' = "array"
      BY <1>0, <1>1, <3>2 DEF Call, HeapFits
    <3>5. FormFits'
      BY <3>4 DEF FormFits
    <3>6. HeapFits'
      BY <1>0, <1>1, <2>3 DEF Call, HeapFits
    <3>7. WritesInBounds'
      BY <1>0, <1>1 DEF Call, HeapFits, WritesInBounds
    <3> QED BY <2>1, <3>1, <3>3, <3>5, <3>6, <3>7 DEF Inv
  <2> QED BY <1>1, <2>2, <2>3 DEF Call, Return
<1>2. CASE CountRows
  <2>1. batches' = batches /\ form' = form /\ offset' = 0 /\ cells' = <<>> /\ heap' = "free"
        /\ out' = "unset" /\ heap = "free" /\ batches \in Batches /\ i \in 1..Len(batches)
    <3>1. pc = "count" /\ i <= Len(batches) /\ UNCHANGED <<batches, form, offset, cells, heap, out>>
      BY <1>2 DEF CountRows
    <3>2. i >= 1
      BY <1>0, <1>a DEF TypeOK
    <3>3. batches \in Batches /\ offset = 0 /\ cells = <<>> /\ heap = "free" /\ out = "unset"
      BY <1>0, <3>1 DEF CountFits, HeapFits
    <3>4. Len(batches) \in Nat
      BY <3>3, <1>c, <1>a
    <3> QED BY <3>1, <3>2, <3>3, <3>4, <1>b
  <2>2. Len(batches[i].rows) \in Nat
    BY <2>1, BatchesAreRows
  <2>3. FormFits'
    BY <1>0, <1>2, <2>1 DEF CountRows, FormFits, SameAnswer
  <2>4. CASE pc' = "returned"
    <3>1. rc' = "InvalidArgument" /\ i' = i /\ total' = total
      BY <1>2, <2>4 DEF CountRows, Return
    <3>2. TypeOK'
      BY <1>0, <2>1, <2>4, <3>1, <1>a, EmptySeq DEF TypeOK
    <3> QED BY <2>1, <2>3, <2>4, <3>1, <3>2
            DEF Inv, CountFits, FillFits, DoneFits, HeapFits, WritesInBounds
  <2>5. CASE pc' # "returned"
    <3>1. /\ pc' = "count" /\ pc = "count" /\ rc' = rc /\ i' = i + 1
          /\ total' = total + Len(batches[i].rows) /\ total' <= MaxUsize
      BY <1>2, <2>2, <2>5, <1>a, <1>b DEF CountRows, Return
    <3>2. TypeOK'
      BY <1>0, <2>1, <2>2, <3>1, <1>a, <1>b, <1>c DEF TypeOK
    <3>3. PICK end : Ends(end, batches, i - 1) /\ end[i - 1] = total
      BY <1>0, <3>1 DEF CountFits
    <3>4. i - 1 \in Nat /\ (i - 1) + 1 = i /\ (i + 1) - 1 = i /\ (i - 1) + 1 <= Len(batches)
      BY <2>1, <1>b, <1>c
    <3>5. PICK more : Ends(more, batches, i) /\ more[i] = total + Len(batches[i].rows)
      <4>1. \E more : /\ Ends(more, batches, (i - 1) + 1)
                      /\ more[(i - 1) + 1] = end[i - 1] + Len(batches[(i - 1) + 1].rows)
        BY <2>1, <3>3, <3>4, OneMoreEnd
      <4> QED BY <4>1, <3>3, <3>4
    <3>6. Ends(more, batches', i' - 1) /\ more[i' - 1] = total'
      BY <2>1, <3>1, <3>4, <3>5 DEF Ends, EndsOf
    <3>7. i' <= Len(batches') + 1
      BY <2>1, <3>1, <1>c, <1>a
    <3>8. CountFits'
      BY <2>1, <3>6, <3>7 DEF CountFits
    <3>9. WritesInBounds'
      BY <2>1 DEF WritesInBounds
    <3> QED BY <2>1, <2>3, <3>1, <3>2, <3>8, <3>9 DEF Inv, FillFits, DoneFits, HeapFits
  <2> QED BY <2>4, <2>5
<1>3. CASE NoRows
  <2>1. batches' = batches /\ cells' = <<>> /\ total' = 0 /\ out' = "NULL" /\ heap' = "free"
        /\ pc' = "returned" /\ rc' = "Success" /\ form' = form
        /\ batches \in Batches /\ i - 1 = Len(batches)
    BY <1>0, <1>3, <1>b, <1>c, <1>a DEF NoRows, Return, CountFits, HeapFits
  <2>2. TypeOK'
    BY <1>0, <1>3, <2>1 DEF TypeOK, NoRows
  <2>3. PICK end : Ends(end, batches, Len(batches)) /\ end[Len(batches)] = 0
    BY <1>0, <1>3, <2>1 DEF CountFits, NoRows
  <2>4. \A b \in 1..Len(batches) : Len(batches[b].rows) = 0
    <3>1. SUFFICES ASSUME NEW b \in 1..Len(batches) PROVE Len(batches[b].rows) = 0
      OBVIOUS
    <3>2. end[b] = end[b - 1] + Len(batches[b].rows) /\ end[b] <= 0 /\ end[b - 1] \in Nat
      <4>1. b \in 0..Len(batches) /\ b - 1 \in 0..Len(batches) /\ Len(batches) \in 0..Len(batches)
        BY <1>c, <2>1, <1>a
      <4> QED BY <4>1, <2>3, <1>c, <2>1, <1>a DEF Ends, EndsOf
    <3>3. Len(batches[b].rows) \in Nat
      BY <2>1, BatchesAreRows
    <3> QED BY <3>2, <3>3
  <2>5. Answered(end, batches', cells', Len(batches'))
    <3>1. \A b \in 1..Len(batches) : 1..Len(batches[b].rows) = {}
      BY <2>4
    <3> QED BY <3>1, <2>1 DEF Answered
  <2>6. Ends(end, batches', Len(batches'))
    BY <2>1, <2>3 DEF Ends, EndsOf
  <2>7. DoneFits'
    <3>1. Len(cells') = total'
      BY <2>1, EmptySeq
    <3> QED BY <2>1, <2>3, <2>5, <2>6, <3>1 DEF DoneFits
  <2>8. FormFits'
    BY <1>0, <1>3, <2>1 DEF FormFits, SameAnswer, NoRows
  <2> QED BY <2>1, <2>2, <2>7, <2>8 DEF Inv, CountFits, FillFits, HeapFits, WritesInBounds
<1>4. CASE AllocateResult
  <2>1. batches' = batches /\ cells' = <<>> /\ total' = total /\ out' = "unset" /\ offset' = 0
        /\ form' = form /\ total > 0 /\ heap = "free"
        /\ batches \in Batches /\ i - 1 = Len(batches)
    BY <1>0, <1>4, <1>b, <1>c, <1>a DEF AllocateResult, CountFits, HeapFits
  <2>2. TypeOK'
    BY <1>0, <1>4, <2>1, <1>a DEF TypeOK, AllocateResult, Return
  <2>3. FormFits'
    BY <1>0, <1>4, <2>1 DEF FormFits, SameAnswer, AllocateResult
  <2>4. WritesInBounds'
    BY <2>1, <1>b, EmptySeq DEF WritesInBounds
  <2>5. CASE pc' = "returned"
    <3>1. heap' = heap /\ rc' = "Error"
      BY <1>4, <2>5 DEF AllocateResult, Return
    <3> QED BY <2>1, <2>2, <2>3, <2>4, <2>5, <3>1
            DEF Inv, CountFits, FillFits, DoneFits, HeapFits
  <2>6. CASE pc' # "returned"
    <3>1. pc' = "fill" /\ i' = 1 /\ heap' = "allocated" /\ pc = "count"
      BY <1>4, <2>6 DEF AllocateResult, Return
    <3>2. PICK end : Ends(end, batches, Len(batches)) /\ end[Len(batches)] = total
      BY <1>0, <2>1, <3>1 DEF CountFits
    <3>3. end[0] = 0 /\ Ends(end, batches', Len(batches')) /\ Answered(end, batches', cells', 0)
      BY <2>1, <3>2 DEF Ends, EndsOf, Answered
    <3>4. FillFits'
      <4>1. Len(cells') = offset'
        BY <2>1, EmptySeq
      <4>2. i' <= Len(batches') + 1 /\ i' - 1 = 0
        BY <2>1, <3>1, <1>c, <1>a
      <4> QED BY <2>1, <3>1, <3>2, <3>3, <4>1, <4>2 DEF FillFits
    <3> QED BY <2>1, <2>2, <2>3, <2>4, <3>1, <3>4
            DEF Inv, CountFits, DoneFits, HeapFits
  <2> QED BY <2>5, <2>6
<1>5. CASE EvaluateBatch
  <2> DEFINE rows == batches[i].rows
  <2>1. pc = "fill" /\ pc' = "fill" /\ batches' = batches /\ form' = form /\ total' = total
        /\ heap' = heap /\ out' = out /\ rc' = rc /\ i' = i + 1
        /\ batches \in Batches /\ i \in 1..Len(batches)
        /\ Len(cells) = offset
    BY <1>0, <1>5, <1>b DEF EvaluateBatch, FillFits, TypeOK
  <2>2. rows \in Seq(Truth) /\ Len(rows) \in Nat
    BY <2>1, BatchesAreRows
  <2>3. /\ Evaluated \in Seq(Truth)
        /\ Len(Evaluated) = Len(rows)
        /\ \A r \in 1..Len(rows) : Evaluated[r] = rows[r]
    BY <1>0, <2>1, EvaluationAnswers DEF FormFits, TypeOK
  <2> DEFINE new == [r \in 1..Len(rows) |-> Evaluated[r] = "true"]
             old == SubSeq(cells, 1, offset)
  <2>4. new \in Seq(BOOLEAN) /\ Len(new) = Len(rows)
        /\ \A r \in 1..Len(rows) : new[r] = (rows[r] = "true")
    <3>1. new \in [1..Len(rows) -> BOOLEAN]
      OBVIOUS
    <3>2. new \in Seq(BOOLEAN) /\ Len(new) = Len(rows)
      BY <3>1, <2>2
    <3>3. \A r \in 1..Len(rows) : new[r] = (Evaluated[r] = "true")
      OBVIOUS
    <3> QED BY <3>2, <3>3, <2>3
  <2>5. old \in Seq(BOOLEAN) /\ Len(old) = offset /\ \A c \in 1..offset : old[c] = cells[c]
    <3>1. \A c \in 1..offset : cells[c] \in BOOLEAN
      BY <1>b, <2>1, ElementOfSeq
    <3>2. /\ old \in Seq(BOOLEAN)
          /\ Len(old) = IF 1 <= offset THEN (offset - 1) + 1 ELSE 0
          /\ \A c \in 1..((offset - 1) + 1) : old[c] = cells[(1 + c) - 1]
      BY <3>1, <1>b, SubSeqProperties
    <3> QED BY <3>2, <1>b
  <2>6. cells' = old \o new /\ offset' = offset + Len(rows)
    BY <1>5, <2>3 DEF EvaluateBatch
  <2>7. /\ cells' \in Seq(BOOLEAN)
        /\ Len(cells') = offset + Len(rows)
        /\ \A c \in 1..offset : cells'[c] = cells[c]
        /\ \A r \in 1..Len(rows) : cells'[offset + r] = (rows[r] = "true")
    <3> HIDE DEF new, old, rows
    <3>1. /\ cells' \in Seq(BOOLEAN)
          /\ Len(cells') = Len(old) + Len(new)
          /\ \A c \in 1..(Len(old) + Len(new)) :
               cells'[c] = IF c <= Len(old) THEN old[c] ELSE new[c - Len(old)]
      <4>1. /\ old \o new \in Seq(BOOLEAN)
            /\ Len(old \o new) = Len(old) + Len(new)
            /\ \A c \in 1..(Len(old) + Len(new)) :
                 (old \o new)[c] = IF c <= Len(old) THEN old[c] ELSE new[c - Len(old)]
        BY <2>4, <2>5, JoinedAnswers
      <4> QED BY <4>1, <2>6, Zenon
    <3>2. \A c \in 1..offset : cells'[c] = cells[c]
      BY <3>1, <2>2, <2>4, <2>5, <1>b
    <3>3. \A r \in 1..Len(rows) : cells'[offset + r] = new[r]
      BY <3>1, <2>2, <2>4, <2>5, <1>b
    <3> QED BY <3>1, <3>2, <3>3, <2>4, <2>5
  <2>8. PICK end : /\ Ends(end, batches, Len(batches)) /\ end[Len(batches)] = total
                   /\ end[i - 1] = offset
                   /\ Answered(end, batches, cells, i - 1)
    BY <1>0, <2>1 DEF FillFits
  <2>9. /\ end \in [0..Len(batches) -> Nat]
        /\ \A b \in 1..Len(batches) : end[b] = end[b - 1] + Len(batches[b].rows)
        /\ \A a, b \in 0..Len(batches) : a <= b => end[a] <= end[b]
    BY <2>8 DEF Ends, EndsOf
  <2>n. Len(batches) \in Nat
    BY <2>1, <1>c, <1>a
  <2>10. end[i] = offset' /\ offset' <= total
    <3>1. end[i] = end[i - 1] + Len(rows)
      BY <2>1, <2>9
    <3>2. end[i] <= end[Len(batches)]
      BY <2>1, <2>9, <2>n
    <3> QED BY <2>6, <2>8, <3>1, <3>2
  <2>11. Answered(end, batches, cells', i)
    <3>1. SUFFICES ASSUME NEW b \in 1..i, NEW r \in 1..Len(batches[b].rows)
                   PROVE  cells'[end[b - 1] + r] = (batches[b].rows[r] = "true")
      <4>1. i' = i + 1 /\ batches' = batches
        BY <2>1
      <4>2. \A b \in 1..i : \A r \in 1..Len(batches[b].rows) :
              cells'[end[b - 1] + r] = (batches[b].rows[r] = "true")
        BY <3>1
      <4>3. \A b \in 1..i : \A r \in 1..Len(batches'[b].rows) :
              cells'[end[b - 1] + r] = (batches'[b].rows[r] = "true")
        BY <4>1, <4>2
      <4> QED BY <4>3 DEF Answered
    <3>2. CASE b = i
      BY <3>1, <3>2, <2>7, <2>8
    <3>3. CASE b \in 1..(i - 1)
      <4>1. cells[end[b - 1] + r] = (batches[b].rows[r] = "true")
        BY <3>1, <3>3, <2>8 DEF Answered
      <4>2. Len(batches[b].rows) \in Nat
        BY <2>1, <3>3, BatchesAreRows, <2>n
      <4>3. end[b] = end[b - 1] + Len(batches[b].rows) /\ end[b] <= end[i - 1]
            /\ end[b - 1] \in Nat
        <5>1. b \in 1..Len(batches) /\ b \in 0..Len(batches) /\ i - 1 \in 0..Len(batches)
              /\ b - 1 \in 0..Len(batches) /\ b <= i - 1
          BY <2>1, <2>n, <3>3, <1>b
        <5> QED BY <5>1, <2>9
      <4>4. end[b - 1] + r \in 1..offset
        <5>1. end[b - 1] + Len(batches[b].rows) <= offset /\ end[b - 1] \in Nat
          BY <2>8, <4>3
        <5>2. r \in Nat /\ 1 <= r /\ r <= Len(batches[b].rows)
          BY <4>2
        <5> HIDE DEF rows
        <5> QED BY <5>1, <5>2, <4>2, <1>b
      <4> QED BY <4>1, <4>4, <2>7
    <3> QED BY <3>2, <3>3, <2>1
  <2>12. FillFits'
    <3>1. Ends(end, batches', Len(batches'))
      BY <2>1, <2>8 DEF Ends, EndsOf
    <3>2. i' - 1 = i /\ i' <= Len(batches') + 1
      BY <2>1, <2>n
    <3>3. Answered(end, batches', cells', i' - 1)
      <4>1. i' - 1 = i
        BY <3>2
      <4> QED BY <2>11, <4>1, <2>1 DEF Answered
    <3>4. total' > 0
      BY <1>0, <2>1 DEF FillFits
    <3>5. Len(cells') = offset'
      BY <2>6, <2>7
    <3> QED BY <2>1, <2>8, <2>10, <3>1, <3>2, <3>3, <3>4, <3>5 DEF FillFits
  <2>13. TypeOK'
    <3>1. offset' \in 0..MaxUsize
      BY <1>0, <2>10, <2>6, <2>2, <1>b, <1>a DEF TypeOK
    <3>2. i' \in 1..(MaxBatches + 1)
      BY <2>1, <1>c, <1>a
    <3> QED BY <1>0, <2>1, <2>7, <3>1, <3>2 DEF TypeOK
  <2>14. FormFits'
    BY <1>0, <2>1 DEF FormFits, SameAnswer
  <2>15. WritesInBounds'
    BY <2>1, <2>6, <2>7, <2>10 DEF WritesInBounds
  <2>16. HeapFits'
    BY <1>0, <2>1 DEF HeapFits
  <2> QED BY <2>1, <2>12, <2>13, <2>14, <2>15, <2>16 DEF Inv, CountFits, DoneFits
<1>6. CASE ImportFails \/ FilterFails \/ ExpansionFails \/ NotBoolean
  <2>1. pc = "fill" /\ pc' = "returned" /\ heap' = "free" /\ out' = "unset" /\ form' = form /\ batches' = batches
        /\ rc' \in {"InvalidArgument", "Error"}
        /\ i' = i /\ total' = total /\ offset' = offset /\ cells' = cells
    BY <1>0, <1>6 DEF ImportFails, FilterFails, ExpansionFails, NotBoolean, Return, HeapFits
  <2>2. TypeOK'
    BY <1>0, <2>1 DEF TypeOK
  <2>3. FormFits'
    BY <1>0, <2>1 DEF FormFits, SameAnswer
  <2> QED BY <2>1, <2>2, <2>3 DEF Inv, CountFits, FillFits, DoneFits, HeapFits, WritesInBounds
<1>7. CASE Publish
  <2>1. pc = "fill" /\ pc' = "returned" /\ rc' = "Success" /\ out' = "array" /\ heap' = "allocated"
        /\ batches' = batches /\ form' = form /\ total' = total /\ cells' = cells /\ total > 0
        /\ batches \in Batches /\ i - 1 = Len(batches) /\ Len(cells) = offset
    BY <1>0, <1>7, <1>b, <1>c, <1>a DEF Publish, Return, FillFits, HeapFits
  <2>2. TypeOK'
    BY <1>0, <1>7, <2>1 DEF TypeOK, Publish
  <2>3. PICK end : /\ Ends(end, batches, Len(batches)) /\ end[Len(batches)] = total
                   /\ end[i - 1] = offset
                   /\ Answered(end, batches, cells, i - 1)
    BY <1>0, <2>1 DEF FillFits
  <2>4. offset = total /\ Answered(end, batches, cells, Len(batches))
    BY <2>1, <2>3
  <2>5. Ends(end, batches', Len(batches')) /\ Answered(end, batches', cells', Len(batches'))
    BY <2>1, <2>3, <2>4 DEF Ends, EndsOf, Answered
  <2>6. DoneFits'
    BY <2>1, <2>3, <2>4, <2>5 DEF DoneFits
  <2>7. FormFits'
    BY <1>0, <2>1 DEF FormFits, SameAnswer
  <2>8. WritesInBounds'
    BY <2>1, <2>4, <1>b DEF WritesInBounds
  <2> QED BY <2>1, <2>2, <2>6, <2>7, <2>8 DEF Inv, CountFits, FillFits, HeapFits
<1>8. CASE FreeJsonMatches
  <2>1. pc' = "idle" /\ heap' = "free" /\ out' = "unset" /\ form' = "array" /\ cells' = <<>>
        /\ offset' = 0 /\ total' = 0 /\ i' = 1 /\ batches' = <<>> /\ rc' = "none"
    BY <1>0, <1>8 DEF FreeJsonMatches, HeapFits, TypeOK
  <2>2. TypeOK'
    BY <2>1, <1>a, EmptySeq DEF TypeOK
  <2> QED BY <2>1, <2>2
          DEF Inv, CountFits, FillFits, DoneFits, FormFits, HeapFits, WritesInBounds
<1>9. CASE UNCHANGED vars
  <2>1. TypeOK' /\ HeapFits' /\ WritesInBounds'
    BY <1>0, <1>9 DEF TypeOK, HeapFits, WritesInBounds
  <2>2. CountFits'
    BY <1>0, <1>9 DEF CountFits
  <2>3. FillFits'
    BY <1>0, <1>9 DEF FillFits
  <2>4. DoneFits'
    BY <1>0, <1>9 DEF DoneFits
  <2>5. FormFits'
    BY <1>0, <1>9 DEF FormFits, SameAnswer
  <2> QED BY <2>1, <2>2, <2>3, <2>4, <2>5 DEF Inv
<1> QED BY <1>1, <1>2, <1>3, <1>4, <1>5, <1>6, <1>7, <1>8, <1>9 DEF Next

LEMMA InvHolds == Spec => []Inv
BY InvInitially, InvPreserved, PTL DEF Spec

-----------------------------------------------------------------------------
(* The loop variables, the cells and the pointers of json_matches stay in  *)
(* their ranges: neither the total nor an offset exceeds a usize.          *)
THEOREM JsonTypeCorrect == Spec => []TypeOK
<1>1. Inv => TypeOK
  BY DEF Inv
<1> QED BY InvHolds, <1>1, PTL

(* However many batches of whatever length are passed, the evaluating pass *)
(* writes no cell past the array that the counting pass asked for.         *)
THEOREM MatchesStayInBounds == Spec => []WritesInBounds
<1>1. Inv => WritesInBounds
  BY DEF Inv
<1> QED BY InvHolds, <1>1, PTL

(* The result array is freed on every error path, and is the caller's once *)
(* the call succeeds.                                                      *)
THEOREM NoMatchesAreLeft == Spec => []OnlyResultsRemain
<1>1. Inv => OnlyResultsRemain
  BY DEF Inv, HeapFits, OnlyResultsRemain
<1> QED BY InvHolds, <1>1, PTL

(* A successful call has answered every row of every batch in the cell of  *)
(* that row.                                                               *)
THEOREM RowsAreAnswered == Spec => []EveryRowIsAnswered
<1>1. ASSUME Inv PROVE EveryRowIsAnswered
  <2>1. SUFFICES ASSUME pc = "returned", rc = "Success"
                 PROVE  /\ Len(cells) = total
                        /\ out = "array" <=> total > 0
                        /\ \E end \in [0..Len(batches) -> 0..total] :
                             /\ EndsOf(end, batches, Len(batches))
                             /\ end[Len(batches)] = total
                             /\ Answered(end, batches, cells, Len(batches))
    BY DEF EveryRowIsAnswered, Answered
  <2>2. batches \in Batches /\ Len(batches) \in Nat
    BY <1>1, <2>1, BatchesAreRows, BoundAssumption DEF Inv, DoneFits
  <2>3. PICK end : /\ Ends(end, batches, Len(batches)) /\ end[Len(batches)] = total
                   /\ Answered(end, batches, cells, Len(batches))
    BY <1>1, <2>1 DEF Inv, DoneFits
  <2>4. end \in [0..Len(batches) -> 0..total] /\ EndsOf(end, batches, Len(batches))
    <3>1. end \in [0..Len(batches) -> Nat]
          /\ \A b \in 0..Len(batches) : end[b] <= total
      BY <2>2, <2>3 DEF Ends
    <3>2. total \in Nat
      BY <1>1, BoundAssumption DEF Inv, TypeOK
    <3> QED BY <2>3, <3>1, <3>2 DEF Ends
  <2> QED BY <1>1, <2>1, <2>3, <2>4 DEF Inv, DoneFits
<1> QED BY InvHolds, <1>1, PTL
=============================================================================
