------------------------- MODULE SharedHandlesProofs --------------------------
(***************************************************************************)
(* Proofs about SharedHandles for any number of threads, tables and        *)
(* queries.                                                                *)
(***************************************************************************)
EXTENDS SharedHandles, TLAPS

QueryOps == {"query_execute", "query_result_to_arrow"}

(* Where a call may be, and what it works on.                              *)
CallFits(th) ==
  /\ call[th].op = "none" => call[th] = Idle
  /\ call[th].op = "connection_uri" => call[th].step \in {"uri_cache", "new string"}
  /\ call[th].step = "new string" => call[th].op = "connection_uri"
  /\ call[th].step = "drop" => call[th].op = "query_execute"
  /\ call[th].op \notin QueryOps => call[th].query = None
  /\ call[th].op \notin QueryOps \cup {"count_rows"} => call[th].table = None
  /\ call[th].op = "count_rows" => call[th].table \in tables
  /\ call[th].op \in QueryOps =>
       /\ call[th].query \in Queries
       /\ call[th].table = target[call[th].query]
       /\ queries[call[th].query] \in {"taken", "returning"}
       /\ queries[call[th].query] = "returning" =>
            call[th].op = "query_execute" /\ call[th].step = "drop"

(* A query taken by a call is that call's alone.                           *)
Alone ==
  \A th, other \in Threads :
    call[th].query # None /\ call[th].query = call[other].query => th = other

QueryFits(q) ==
  /\ queries[q] # "none" => target[q] \in Tables
  /\ queries[q] = "none" => target[q] = None
  /\ queries[q] = "returning" => \E th \in Threads : call[th].query = q

CallsMatch ==
  /\ \A th \in Threads : CallFits(th)
  /\ Alone
  /\ \A q \in Queries : QueryFits(q)

Typed == TypeOK /\ CallsMatch

-----------------------------------------------------------------------------
(* What a step leaves alone still fits.                                    *)

LEMMA IdleTyped ==
  /\ Idle \in Call
  /\ Idle.op = "none" /\ Idle.step = "idle" /\ Idle.table = None /\ Idle.query = None
  BY DEF Idle, Call, Op, Step

LEMMA InitTyped == Init => Typed
<1>. SUFFICES ASSUME Init PROVE Typed
  OBVIOUS
<1>1. \A th \in Threads : call[th] = Idle
  BY DEF Init
<1>2. CallsMatch
  BY <1>1, IdleTyped DEF Init, CallsMatch, CallFits, Alone, QueryFits, QueryOps
<1>. QED BY <1>2, IdleTyped DEF Init, Typed, TypeOK, Once, Stage

LEMMA CallStillFits ==
  ASSUME NEW th \in Threads, CallFits(th), call'[th] = call[th],
         call[th].op = "count_rows" => call[th].table \in tables',
         call[th].op \in QueryOps =>
           /\ queries'[call[th].query] = queries[call[th].query]
           /\ target'[call[th].query] = target[call[th].query]
  PROVE  CallFits(th)'
  BY DEF CallFits

LEMMA QueryStillFits ==
  ASSUME NEW q \in Queries, QueryFits(q), queries'[q] = queries[q], target'[q] = target[q],
         \A th \in Threads : call[th].query = q => call'[th].query = q
  PROVE  QueryFits(q)'
  BY DEF QueryFits

LEMMA StillAlone ==
  ASSUME Alone, NEW th \in Threads,
         \A other \in Threads : other # th => call'[other] = call[other],
         \/ call'[th].query = None
         \/ call'[th].query = call[th].query
         \/ \A other \in Threads : call[other].query # call'[th].query
  PROVE  Alone'
  BY DEF Alone

(* A call that only moves on.                                              *)
LEMMA GoesToTyped ==
  ASSUME Typed, NEW th \in Threads, NEW step \in Step, GoesTo(th, step),
         call[th].op # "none", step # "drop", call[th].step # "drop",
         call[th].op = "connection_uri" => step \in {"uri_cache", "new string"},
         step = "new string" => call[th].op = "connection_uri",
         UNCHANGED <<tables, queries, target>>
  PROVE  call' \in [Threads -> Call] /\ CallsMatch'
<1>. USE DEF Typed, CallsMatch
<1>1. call[th] \in Call /\ call' = [call EXCEPT ![th] = [call[th] EXCEPT !.step = step]]
  BY DEF TypeOK, GoesTo
<1>2. call' \in [Threads -> Call]
  BY <1>1 DEF TypeOK, Call
<1>3. /\ call'[th].op = call[th].op /\ call'[th].table = call[th].table
      /\ call'[th].query = call[th].query /\ call'[th].step = step
  BY <1>1 DEF TypeOK, Call
<1>4. \A other \in Threads : other # th => call'[other] = call[other]
  BY <1>1 DEF TypeOK
<1>5. CallFits(th)'
  <2>1. CallFits(th)
    OBVIOUS
  <2>. QED BY <1>3, <2>1 DEF CallFits
<1>6. \A other \in Threads : CallFits(other)'
  <2>. SUFFICES ASSUME NEW other \in Threads, other # th PROVE CallFits(other)'
    BY <1>5
  <2>. QED BY <1>4, CallStillFits DEF CallFits
<1>7. Alone'
  BY <1>3, <1>4, StillAlone
<1>8. \A q \in Queries : QueryFits(q)'
  BY <1>3, <1>4, QueryStillFits
<1>. QED BY <1>2, <1>6, <1>7, <1>8

(* A call that begins without taking anything.                             *)
LEMMA BeginsTyped ==
  ASSUME Typed, NEW th \in Threads, NEW op \in Op \ QueryOps, NEW step \in {"RUNTIME", "uri_cache"},
         NEW t \in Tables \cup {None}, Begins(th, op, step, t, None),
         op # "none", op = "connection_uri" => step = "uri_cache",
         op = "count_rows" => t \in tables,
         op # "count_rows" => t = None,
         UNCHANGED <<tables, queries, target>>
  PROVE  call' \in [Threads -> Call] /\ CallsMatch'
<1>. USE DEF Typed, CallsMatch
<1>1. /\ call' \in [Threads -> Call]
      /\ call'[th] = [op |-> op, step |-> step, table |-> t, query |-> None]
      /\ \A other \in Threads : other # th => call'[other] = call[other]
      /\ call[th].query = None
  BY IdleTyped DEF TypeOK, Begins, Call, Step, Op
<1>2. call'[th].op = op /\ call'[th].step = step /\ call'[th].table = t /\ call'[th].query = None
  BY <1>1
<1>3. CallFits(th)'
  BY <1>2 DEF CallFits, QueryOps
<1>4. \A other \in Threads : CallFits(other)'
  <2>. SUFFICES ASSUME NEW other \in Threads, other # th PROVE CallFits(other)'
    BY <1>3
  <2>. QED BY <1>1, CallStillFits DEF CallFits
<1>5. Alone'
  BY <1>1, <1>2, StillAlone
<1>6. \A q \in Queries : QueryFits(q)'
  BY <1>1, <1>2, QueryStillFits
<1>. QED BY <1>1, <1>4, <1>5, <1>6

(* A call that returns, and did not hold a query.                          *)
LEMMA ReturnsTyped ==
  ASSUME Typed, NEW th \in Threads, Returns(th), call[th].op \notin QueryOps,
         UNCHANGED <<queries, target>>, tables \subseteq tables'
  PROVE  call' \in [Threads -> Call] /\ CallsMatch'
<1>. USE DEF Typed, CallsMatch
<1>1. /\ call' \in [Threads -> Call]
      /\ call'[th] = Idle
      /\ \A other \in Threads : other # th => call'[other] = call[other]
  BY IdleTyped DEF TypeOK, Returns
<1>2. CallFits(th) /\ call[th].query = None
  BY DEF CallFits
<1>3. CallFits(th)'
  BY <1>1, IdleTyped DEF CallFits, QueryOps
<1>4. \A other \in Threads : CallFits(other)'
  <2>. SUFFICES ASSUME NEW other \in Threads, other # th PROVE CallFits(other)'
    BY <1>3
  <2>. QED BY <1>1, CallStillFits DEF CallFits
<1>5. Alone'
  BY <1>1, IdleTyped, StillAlone
<1>6. \A q \in Queries : QueryFits(q)'
  <2>. SUFFICES ASSUME NEW q \in Queries PROVE QueryFits(q)'
    OBVIOUS
  <2>1. \A other \in Threads : call[other].query = q => call'[other].query = q
    BY <1>1, <1>2, IdleTyped
  <2>. QED BY <2>1, QueryStillFits
<1>. QED BY <1>1, <1>4, <1>5, <1>6

(* Calls and the other queries fit when only query q changes, and no call  *)
(* works on it.                                                            *)
LEMMA QueryAloneTyped ==
  ASSUME Typed, NEW q \in Queries, UNCHANGED <<tables, call>>,
         \A p \in Queries : p # q => queries'[p] = queries[p] /\ target'[p] = target[p],
         queries[q] \notin {"taken", "returning"},
         QueryFits(q)'
  PROVE  CallsMatch'
<1>. USE DEF Typed, CallsMatch
<1>1. \A th \in Threads : CallFits(th)'
  <2>. SUFFICES ASSUME NEW th \in Threads PROVE CallFits(th)'
    OBVIOUS
  <2>1. CallFits(th)
    OBVIOUS
  <2>2. call[th].op \in QueryOps => call[th].query \in Queries /\ call[th].query # q
    BY <2>1 DEF CallFits
  <2>3. call[th].op = "count_rows" => call[th].table \in tables'
    BY <2>1 DEF CallFits
  <2>. QED BY <2>1, <2>2, <2>3, CallStillFits
<1>2. Alone'
  BY DEF Alone
<1>3. \A p \in Queries : QueryFits(p)'
  <2>. SUFFICES ASSUME NEW p \in Queries, p # q PROVE QueryFits(p)'
    OBVIOUS
  <2>. QED BY QueryStillFits
<1>. QED BY <1>1, <1>2, <1>3

(* The same when one call takes, works on or drops the query.              *)
LEMMA QueryCallTyped ==
  ASSUME Typed, NEW th \in Threads, NEW q \in Queries, tables' = tables,
         \A other \in Threads : other # th => call'[other] = call[other],
         \A p \in Queries : p # q => queries'[p] = queries[p] /\ target'[p] = target[p],
         \A other \in Threads : other # th => call[other].query # q,
         call[th].query \in {q, None},
         call'[th].query \in {q, None},
         CallFits(th)', QueryFits(q)'
  PROVE  CallsMatch'
<1>. USE DEF Typed, CallsMatch
<1>1. \A other \in Threads : CallFits(other)'
  <2>. SUFFICES ASSUME NEW other \in Threads, other # th PROVE CallFits(other)'
    OBVIOUS
  <2>1. CallFits(other)
    OBVIOUS
  <2>2. call[other].op \in QueryOps => call[other].query \in Queries /\ call[other].query # q
    BY <2>1 DEF CallFits
  <2>3. call[other].op = "count_rows" => call[other].table \in tables'
    BY <2>1 DEF CallFits
  <2>. QED BY <2>1, <2>2, <2>3, CallStillFits
<1>2. Alone'
  BY DEF Alone
<1>3. \A p \in Queries : QueryFits(p)'
  <2>. SUFFICES ASSUME NEW p \in Queries, p # q PROVE QueryFits(p)'
    OBVIOUS
  <2>1. \A other \in Threads : call[other].query = p => call'[other].query = p
    BY NoneAssumption
  <2>. QED BY <2>1, QueryStillFits
<1>. QED BY <1>1, <1>2, <1>3

LEMMA NextTyped == Typed /\ [Next]_vars => Typed'
<1>. SUFFICES ASSUME Typed, [Next]_vars PROVE Typed'
  OBVIOUS
<1>1. ASSUME NEW th \in Threads, FindRuntime(th) \/ ClaimRuntime(th) \/ MakeRuntime(th)
      PROVE  Typed'
  <2>1. call[th].op # "none" /\ call[th].op # "connection_uri" /\ call[th].step # "drop"
    BY <1>1, IdleTyped DEF FindRuntime, ClaimRuntime, MakeRuntime, Typed, CallsMatch, CallFits
  <2>2. PICK step \in {"block_on", "new runtime"} : GoesTo(th, step)
    BY <1>1 DEF FindRuntime, ClaimRuntime, MakeRuntime
  <2>3. UNCHANGED <<tables, queries, target>>
    BY <1>1 DEF FindRuntime, ClaimRuntime, MakeRuntime
  <2>4. call' \in [Threads -> Call] /\ CallsMatch'
    BY <2>1, <2>2, <2>3, GoesToTyped DEF Step
  <2>. QED BY <1>1, <2>4 DEF FindRuntime, ClaimRuntime, MakeRuntime, Typed, TypeOK, Once
<1>2. ASSUME NEW th \in Threads, ConnectBuilderExecute(th) \/ OpenTable(th) \/ ConnectionUri(th)
      PROVE  Typed'
  <2>1. PICK op \in {"connect_builder_execute", "open_table", "connection_uri"},
             step \in {"RUNTIME", "uri_cache"} :
          Begins(th, op, step, None, None) /\ (op = "connection_uri" => step = "uri_cache")
    BY <1>2 DEF ConnectBuilderExecute, OpenTable, ConnectionUri
  <2>2. UNCHANGED <<connection, runtime, cache, uri, strings, pointer, tables, queries, target, holders>>
    BY <1>2 DEF ConnectBuilderExecute, OpenTable, ConnectionUri
  <2>3. call' \in [Threads -> Call] /\ CallsMatch'
    BY <2>1, <2>2, BeginsTyped DEF Op, QueryOps
  <2>. QED BY <2>2, <2>3 DEF Typed, TypeOK
<1>3. ASSUME NEW th \in Threads, NEW t \in Tables, CountRows(th, t)
      PROVE  Typed'
  <2>1. call' \in [Threads -> Call] /\ CallsMatch'
    BY <1>3, BeginsTyped DEF CountRows, Op, QueryOps
  <2>. QED BY <1>3, <2>1 DEF CountRows, Typed, TypeOK
<1>4. ASSUME NEW th \in Threads, Connected(th) \/ FindUri(th) \/ MakeUri(th) \/ RowsCounted(th)
      PROVE  Typed'
  <2>1. call[th].op \notin QueryOps /\ Returns(th) /\ UNCHANGED <<tables, queries, target>>
    BY <1>4 DEF Connected, FindUri, MakeUri, RowsCounted, At, QueryOps
  <2>2. call' \in [Threads -> Call] /\ CallsMatch'
    BY <2>1, ReturnsTyped
  <2>. QED BY <1>4, <2>2 DEF Connected, FindUri, MakeUri, RowsCounted, Typed, TypeOK, Once
<1>5. ASSUME NEW th \in Threads, ClaimUri(th)
      PROVE  Typed'
  <2>1. call' \in [Threads -> Call] /\ CallsMatch'
    BY <1>5, GoesToTyped DEF ClaimUri, At, Step
  <2>. QED BY <1>5, <2>1 DEF ClaimUri, Typed, TypeOK, Once
<1>6. CASE ConnectionFree
  <2>. UNCHANGED <<tables, queries, target, call>>
    BY <1>6 DEF ConnectionFree
  <2>1. CallsMatch'
    BY DEF Typed, CallsMatch, CallFits, Alone, QueryFits
  <2>. QED BY <1>6, <2>1 DEF ConnectionFree, Typed, TypeOK, Once
<1>7. ASSUME NEW th \in Threads, TableOpened(th)
      PROVE  Typed'
  <2>1. call' \in [Threads -> Call] /\ CallsMatch'
    BY <1>7, ReturnsTyped DEF TableOpened, At, QueryOps
  <2>2. tables' \subseteq Tables /\ holders' \in [Tables -> SUBSET Holder]
    BY <1>7 DEF TableOpened, Typed, TypeOK, Holder
  <2>. QED BY <1>7, <2>1, <2>2 DEF TableOpened, Typed, TypeOK
<1>8. ASSUME NEW t \in Tables, TableFree(t)
      PROVE  Typed'
  <2>1. CallsMatch'
    BY <1>8 DEF TableFree, Typed, CallsMatch, CallFits, Alone, QueryFits
  <2>. QED BY <1>8, <2>1 DEF TableFree, Typed, TypeOK
<1>9. ASSUME NEW q \in Queries, NEW t \in Tables, QueryNew(q, t)
      PROVE  Typed'
  <2>1. holders' \in [Tables -> SUBSET Holder]
    BY <1>9 DEF QueryNew, Typed, TypeOK, Holder
  <2>2. /\ queries' \in [Queries -> Stage] /\ target' \in [Queries -> Tables \cup {None}]
        /\ queries'[q] = "query" /\ target'[q] = t
        /\ \A p \in Queries : p # q => queries'[p] = queries[p] /\ target'[p] = target[p]
    BY <1>9 DEF QueryNew, Typed, TypeOK, Stage
  <2>3. QueryFits(q)'
    BY <2>2 DEF QueryFits
  <2>4. CallsMatch'
    BY <1>9, <2>2, <2>3, QueryAloneTyped DEF QueryNew
  <2>. QED BY <1>9, <2>1, <2>2, <2>4 DEF QueryNew, Typed, TypeOK
<1>10. ASSUME NEW th \in Threads, NEW q \in Queries, QueryExecute(th, q) \/ QueryResultToArrow(th, q)
       PROVE  Typed'
  <2>1. PICK op \in QueryOps : Begins(th, op, "RUNTIME", target[q], q)
    BY <1>10 DEF QueryExecute, QueryResultToArrow, QueryOps
  <2>2. /\ call'[th] = [op |-> op, step |-> "RUNTIME", table |-> target[q], query |-> q]
        /\ call' \in [Threads -> Call]
        /\ call[th] = Idle
        /\ \A other \in Threads : other # th => call'[other] = call[other]
    BY <2>1 DEF Typed, TypeOK, Begins, Call, Step, Op, QueryOps
  <2>3. /\ queries' \in [Queries -> Stage] /\ queries'[q] = "taken" /\ UNCHANGED <<target, tables>>
        /\ \A p \in Queries : p # q => queries'[p] = queries[p]
        /\ queries[q] \in {"query", "result"}
    BY <1>10 DEF QueryExecute, QueryResultToArrow, Typed, TypeOK, Stage
  <2>4. \A other \in Threads : call[other].query # q
    BY <2>3, NoneAssumption DEF Typed, CallsMatch, CallFits
  <2>5. /\ call'[th].op = op /\ call'[th].step = "RUNTIME"
        /\ call'[th].table = target[q] /\ call'[th].query = q
    BY <2>2
  <2>6. CallFits(th)'
    BY <2>3, <2>5 DEF CallFits, QueryOps
  <2>7. QueryFits(q)'
    BY <2>3 DEF QueryFits, Typed, CallsMatch
  <2>8. CallsMatch'
    BY <2>2, <2>3, <2>4, <2>5, <2>6, <2>7, IdleTyped, QueryCallTyped
  <2>. QED BY <1>10, <2>2, <2>3, <2>8 DEF QueryExecute, QueryResultToArrow, Typed, TypeOK
<1>11. ASSUME NEW th \in Threads, QueryExecuted(th)
       PROVE  Typed'
  <2>0. CallFits(th) /\ call[th] \in Call /\ At(th, "query_execute", "block_on")
    BY <1>11 DEF QueryExecuted, Typed, CallsMatch, TypeOK
  <2>1. PICK q \in Queries, t \in Tables \cup {None} :
          q = call[th].query /\ t = call[th].table /\ queries[q] = "taken" /\ t = target[q]
    BY <2>0 DEF At, CallFits, QueryOps, Call
  <2>2. QueryFits(q) /\ t \in Tables
    BY <2>1 DEF Typed, CallsMatch, QueryFits
  <2>3. call' = [call EXCEPT ![th] = [call[th] EXCEPT !.step = "drop"]] /\ call \in [Threads -> Call]
    BY <1>11 DEF QueryExecuted, Typed, TypeOK, GoesTo
  <2>4. call' \in [Threads -> Call]
    BY <2>0, <2>3 DEF Call, Step
  <2>5. /\ call'[th].op = "query_execute" /\ call'[th].step = "drop" /\ call'[th].query = q
        /\ call'[th].table = t
    BY <2>0, <2>1, <2>3 DEF At, Call
  <2>6. \A other \in Threads : other # th => call'[other] = call[other]
    BY <2>3
  <2>7. /\ queries' \in [Queries -> Stage] /\ queries'[q] \in {"taken", "returning"}
        /\ \A p \in Queries : p # q => queries'[p] = queries[p]
        /\ UNCHANGED <<target, tables>>
    BY <1>11, <2>1 DEF QueryExecuted, Typed, TypeOK, Stage
  <2>8. holders' \in [Tables -> SUBSET Holder]
    BY <1>11, <2>1, <2>2 DEF QueryExecuted, Typed, TypeOK, Holder
  <2>9. CallFits(th)'
    BY <2>1, <2>5, <2>7 DEF CallFits, QueryOps
  <2>10. QueryFits(q)'
    BY <2>1, <2>2, <2>5, <2>7 DEF QueryFits
  <2>11. \A other \in Threads : other # th => call[other].query # q
    BY <2>1, NoneAssumption DEF Typed, CallsMatch, Alone
  <2>12. CallsMatch'
    BY <2>1, <2>5, <2>6, <2>7, <2>9, <2>10, <2>11, QueryCallTyped
  <2>. QED BY <1>11, <2>4, <2>7, <2>8, <2>12 DEF QueryExecuted, Typed, TypeOK
<1>12. ASSUME NEW th \in Threads, QueryDropped(th) \/ ResultCollected(th)
       PROVE  Typed'
  <2>1. CallFits(th) /\ call[th].op \in QueryOps /\ call[th] \in Call
    BY <1>12 DEF QueryDropped, ResultCollected, At, Typed, TypeOK, CallsMatch, QueryOps
  <2>2. PICK q \in Queries, t \in Tables \cup {None} :
          /\ q = call[th].query /\ t = call[th].table
          /\ t = target[q] /\ queries[q] \in {"taken", "returning"}
    BY <2>1 DEF CallFits, Call
  <2>3. t \in Tables
    BY <2>2 DEF Typed, CallsMatch, QueryFits
  <2>4. /\ call'[th] = Idle /\ call' \in [Threads -> Call]
        /\ \A other \in Threads : other # th => call'[other] = call[other]
    BY <1>12, IdleTyped DEF QueryDropped, ResultCollected, Typed, TypeOK, Returns
  <2>5. /\ queries' \in [Queries -> Stage] /\ target' \in [Queries -> Tables \cup {None}]
        /\ \/ queries'[q] = "result" /\ target'[q] = t
           \/ queries'[q] = "none" /\ target'[q] = None
        /\ \A p \in Queries : p # q => queries'[p] = queries[p] /\ target'[p] = target[p]
    BY <1>12, <2>2 DEF QueryDropped, ResultCollected, Gone, Typed, TypeOK, Stage
  <2>6. holders' \in [Tables -> SUBSET Holder]
    BY <1>12, <2>2, <2>3 DEF QueryDropped, ResultCollected, Typed, TypeOK
  <2>7. tables' = tables
    BY <1>12 DEF QueryDropped, ResultCollected
  <2>8. \A other \in Threads : other # th => call[other].query # q
    BY <2>2, NoneAssumption DEF Typed, CallsMatch, Alone
  <2>9. CallFits(th)'
    BY <2>4, IdleTyped DEF CallFits, QueryOps
  <2>10. QueryFits(q)'
    BY <2>3, <2>5 DEF QueryFits
  <2>11. CallsMatch'
    BY <2>2, <2>4, <2>5, <2>7, <2>8, <2>9, <2>10, IdleTyped, QueryCallTyped
  <2>. QED BY <1>12, <2>4, <2>5, <2>6, <2>7, <2>11 DEF QueryDropped, ResultCollected, Typed, TypeOK
<1>13. ASSUME NEW q \in Queries, QueryFree(q)
       PROVE  Typed'
  <2>1. /\ queries' \in [Queries -> Stage] /\ target' \in [Queries -> Tables \cup {None}]
        /\ queries'[q] = "none" /\ target'[q] = None
        /\ \A p \in Queries : p # q => queries'[p] = queries[p] /\ target'[p] = target[p]
    BY <1>13 DEF QueryFree, Gone, Typed, TypeOK, Stage
  <2>2. QueryFits(q)'
    BY <2>1 DEF QueryFits
  <2>3. holders' \in [Tables -> SUBSET Holder]
    BY <1>13 DEF QueryFree, Typed, TypeOK
  <2>4. CallsMatch'
    BY <1>13, <2>1, <2>2, QueryAloneTyped DEF QueryFree
  <2>. QED BY <1>13, <2>1, <2>3, <2>4 DEF QueryFree, Typed, TypeOK
<1>14. CASE UNCHANGED vars
  BY <1>14 DEF vars, Typed, TypeOK, CallsMatch, CallFits, Alone, QueryFits
<1>. QED BY <1>1, <1>2, <1>3, <1>4, <1>5, <1>6, <1>7, <1>8, <1>9, <1>10, <1>11, <1>12, <1>13, <1>14
  DEF Next, Runs, StartsCall, Frees

LEMMA SpecTyped == Spec => []Typed
  BY InitTyped, NextTyped, PTL DEF Spec

(* Every reachable state has the declared types.                           *)
THEOREM SharedTypeCorrect == Spec => []TypeOK
<1>1. Typed => TypeOK BY DEF Typed
<1>. QED BY SpecTyped, <1>1, PTL

-----------------------------------------------------------------------------
(* One thread in each initialiser.                                         *)

Making == {"new runtime", "new string"}

MInv == Typed /\ MakersAreAlone

(* A thread that neither enters nor leaves an initialiser disturbs nobody, *)
(* if it gets to lancedb only with a runtime.                              *)
LEMMA PassersByAreHarmless ==
  ASSUME MInv, NEW th \in Threads,
         call[th].step \notin Making, call'[th].step \notin Making,
         \A other \in Threads : other # th => call'[other] = call[other],
         call'[th].step \in {"block_on", "drop"} => runtime = "set",
         UNCHANGED <<runtime, cache>>
  PROVE  MakersAreAlone'
<1>1. \A other \in Threads, step \in Making :
        call'[other].step = step <=> call[other].step = step
  OBVIOUS
<1>2. \A step \in Making :
        /\ (\E other \in Threads : call'[other].step = step)
             <=> \E other \in Threads : call[other].step = step
        /\ (\A one, other \in Threads : call[one].step = step /\ call[other].step = step => one = other)
             => \A one, other \in Threads : call'[one].step = step /\ call'[other].step = step => one = other
  BY <1>1
<1>3. "new runtime" \in Making /\ "new string" \in Making
  BY DEF Making
<1>4. OneMaker(runtime, "new runtime")'
  BY <1>2, <1>3 DEF MInv, MakersAreAlone, OneMaker
<1>5. OneMaker(cache, "new string")'
  BY <1>2, <1>3 DEF MInv, MakersAreAlone, OneMaker
<1>6. \A other \in Threads : call'[other].step \in {"block_on", "drop"} => runtime' = "set"
  BY DEF MInv, MakersAreAlone
<1>. QED BY <1>4, <1>5, <1>6 DEF MakersAreAlone

LEMMA InitMakers == Init => MakersAreAlone
<1>. SUFFICES ASSUME Init PROVE MakersAreAlone
  OBVIOUS
<1>1. \A th \in Threads : call[th].step = "idle"
  BY IdleTyped DEF Init
<1>. QED BY <1>1 DEF Init, MakersAreAlone, OneMaker

LEMMA NextMakers == MInv /\ [Next]_vars => MakersAreAlone'
<1>. SUFFICES ASSUME MInv, [Next]_vars PROVE MakersAreAlone'
  OBVIOUS
<1>. USE DEF MInv
<1>0. call \in [Threads -> Call] /\ \A th \in Threads : CallFits(th)
  BY DEF Typed, TypeOK, CallsMatch
<1>1. ASSUME NEW th \in Threads, FindRuntime(th)
      PROVE  MakersAreAlone'
  <2>1. /\ call[th].step \notin Making /\ call'[th].step = "block_on" /\ runtime = "set"
        /\ \A other \in Threads : other # th => call'[other] = call[other]
        /\ UNCHANGED <<runtime, cache>>
    BY <1>0, <1>1 DEF FindRuntime, GoesTo, Making, Call
  <2>. QED BY <2>1, PassersByAreHarmless DEF Making
<1>2. ASSUME NEW th \in Threads, ClaimRuntime(th)
      PROVE  MakersAreAlone'
  <2>1. /\ call[th].step = "RUNTIME" /\ call'[th].step = "new runtime"
        /\ \A other \in Threads : other # th => call'[other] = call[other]
        /\ runtime = "empty" /\ runtime' = "running" /\ cache' = cache
    BY <1>0, <1>2 DEF ClaimRuntime, GoesTo, Call
  <2>2. OneMaker(runtime, "new runtime")'
    BY <2>1 DEF MakersAreAlone, OneMaker
  <2>3. OneMaker(cache, "new string")'
    <3>1. \A other \in Threads : call'[other].step = "new string" <=> call[other].step = "new string"
      BY <2>1
    <3>. QED BY <2>1, <3>1 DEF MakersAreAlone, OneMaker
  <2>. QED BY <2>1, <2>2, <2>3 DEF MakersAreAlone
<1>3. ASSUME NEW th \in Threads, MakeRuntime(th)
      PROVE  MakersAreAlone'
  <2>1. /\ call[th].step = "new runtime" /\ call'[th].step = "block_on"
        /\ \A other \in Threads : other # th => call'[other] = call[other]
        /\ runtime' = "set" /\ cache' = cache
    BY <1>0, <1>3 DEF MakeRuntime, GoesTo, Call
  <2>2. OneMaker(runtime, "new runtime")'
    BY <2>1 DEF MakersAreAlone, OneMaker
  <2>3. OneMaker(cache, "new string")'
    <3>1. \A other \in Threads : call'[other].step = "new string" <=> call[other].step = "new string"
      BY <2>1
    <3>. QED BY <2>1, <3>1 DEF MakersAreAlone, OneMaker
  <2>. QED BY <2>1, <2>2, <2>3 DEF MakersAreAlone
<1>4. ASSUME NEW th \in Threads, StartsCall(th)
      PROVE  MakersAreAlone'
  <2>1. PICK op, step, t, q :
          op \in Op /\ step \in {"RUNTIME", "uri_cache"} /\ Begins(th, op, step, t, q)
    BY <1>4 DEF StartsCall, ConnectBuilderExecute, ConnectionUri, OpenTable, CountRows,
                QueryExecute, QueryResultToArrow, Op
  <2>2. /\ call[th].step = "idle" /\ call'[th].step = step
        /\ \A other \in Threads : other # th => call'[other] = call[other]
    BY <1>0, <2>1, IdleTyped DEF Begins
  <2>3. UNCHANGED <<runtime, cache>>
    BY <1>4 DEF StartsCall, ConnectBuilderExecute, ConnectionUri, OpenTable, CountRows,
                QueryExecute, QueryResultToArrow
  <2>. QED BY <2>1, <2>2, <2>3, PassersByAreHarmless DEF Making
<1>5. ASSUME NEW th \in Threads,
             \/ Connected(th) \/ FindUri(th) \/ TableOpened(th) \/ RowsCounted(th)
             \/ QueryDropped(th) \/ ResultCollected(th)
      PROVE  MakersAreAlone'
  <2>1. call[th].step \in {"block_on", "uri_cache", "drop"} /\ Returns(th)
    BY <1>5 DEF Connected, FindUri, TableOpened, RowsCounted, QueryDropped, ResultCollected, At
  <2>2. /\ call'[th].step = "idle"
        /\ \A other \in Threads : other # th => call'[other] = call[other]
    BY <1>0, <2>1, IdleTyped DEF Returns
  <2>3. UNCHANGED <<runtime, cache>>
    BY <1>5 DEF Connected, FindUri, TableOpened, RowsCounted, QueryDropped, ResultCollected
  <2>. QED BY <2>1, <2>2, <2>3, PassersByAreHarmless DEF Making
<1>6. ASSUME NEW th \in Threads, QueryExecuted(th)
      PROVE  MakersAreAlone'
  <2>1. /\ call[th].step = "block_on" /\ call'[th].step = "drop"
        /\ \A other \in Threads : other # th => call'[other] = call[other]
        /\ UNCHANGED <<runtime, cache>>
    BY <1>0, <1>6 DEF QueryExecuted, GoesTo, At, Call
  <2>2. runtime = "set"
    BY <2>1 DEF MakersAreAlone
  <2>. QED BY <2>1, <2>2, PassersByAreHarmless DEF Making
<1>7. ASSUME NEW th \in Threads, ClaimUri(th)
      PROVE  MakersAreAlone'
  <2>1. /\ call[th].step = "uri_cache" /\ call'[th].step = "new string"
        /\ \A other \in Threads : other # th => call'[other] = call[other]
        /\ cache = "empty" /\ cache' = "running" /\ runtime' = runtime
    BY <1>0, <1>7 DEF ClaimUri, GoesTo, At, Call
  <2>2. OneMaker(cache, "new string")'
    BY <2>1 DEF MakersAreAlone, OneMaker
  <2>3. OneMaker(runtime, "new runtime")'
    <3>1. \A other \in Threads : call'[other].step = "new runtime" <=> call[other].step = "new runtime"
      BY <2>1
    <3>. QED BY <2>1, <3>1 DEF MakersAreAlone, OneMaker
  <2>. QED BY <2>1, <2>2, <2>3 DEF MakersAreAlone
<1>8. ASSUME NEW th \in Threads, MakeUri(th)
      PROVE  MakersAreAlone'
  <2>1. /\ call[th].step = "new string" /\ call'[th].step = "idle"
        /\ \A other \in Threads : other # th => call'[other] = call[other]
        /\ cache' = "set" /\ runtime' = runtime
    BY <1>0, <1>8, IdleTyped DEF MakeUri, Returns, At
  <2>2. OneMaker(cache, "new string")'
    BY <2>1 DEF MakersAreAlone, OneMaker
  <2>3. OneMaker(runtime, "new runtime")'
    <3>1. \A other \in Threads : call'[other].step = "new runtime" <=> call[other].step = "new runtime"
      BY <2>1
    <3>. QED BY <2>1, <3>1 DEF MakersAreAlone, OneMaker
  <2>. QED BY <2>1, <2>2, <2>3 DEF MakersAreAlone
<1>9. CASE ConnectionFree
  <2>1. UNCHANGED <<runtime, call>> /\ cache' = "empty"
    BY <1>9 DEF ConnectionFree
  <2>2. \A th \in Threads : call[th].step # "new string"
    BY <1>0, <1>9 DEF ConnectionFree, CallFits
  <2>. QED BY <2>1, <2>2 DEF MakersAreAlone, OneMaker
<1>10. ASSUME UNCHANGED <<runtime, cache, call>>
       PROVE  MakersAreAlone'
  BY <1>10 DEF MakersAreAlone, OneMaker
<1>11. ASSUME NEW t \in Tables, TableFree(t)
       PROVE  MakersAreAlone'
  BY <1>10, <1>11 DEF TableFree
<1>12. ASSUME NEW q \in Queries, QueryFree(q)
       PROVE  MakersAreAlone'
  BY <1>10, <1>12 DEF QueryFree
<1>13. ASSUME NEW q \in Queries, NEW t \in Tables, QueryNew(q, t)
       PROVE  MakersAreAlone'
  BY <1>10, <1>13 DEF QueryNew
<1>14. CASE UNCHANGED vars
  BY <1>10, <1>14 DEF vars
<1>. QED BY <1>1, <1>2, <1>3, <1>4, <1>5, <1>6, <1>7, <1>8, <1>9, <1>11, <1>12, <1>13, <1>14
  DEF Next, Runs, Frees

(* However many threads meet in the initialiser of the runtime or of the   *)
(* URI, one of them makes the value, and no other call goes on without it. *)
THEOREM OneThreadMakesEachValue == Spec => []MakersAreAlone
<1>1. Init => MInv
  BY InitTyped, InitMakers DEF MInv
<1>2. MInv /\ [Next]_vars => MInv'
  BY NextTyped, NextMakers DEF MInv
<1>3. MInv => MakersAreAlone
  BY DEF MInv
<1>. QED BY <1>1, <1>2, <1>3, PTL DEF Spec

-----------------------------------------------------------------------------
(* One URI string.                                                         *)

UriFits ==
  /\ IF cache = "set" THEN uri # None /\ strings = {uri} ELSE uri = None /\ strings = {}
  /\ connection = "none" => cache = "empty"
  /\ \A th \in Threads :
       /\ pointer[th] # None => cache = "set" /\ pointer[th] = uri
       /\ call[th].op = "connection_uri" => connection = "live"
       /\ call[th].step = "new string" => cache = "running"
  /\ \A th, other \in Threads :
       call[th].step = "new string" /\ call[other].step = "new string" => th = other

LEMMA InitUri == Init => UriFits
<1>. SUFFICES ASSUME Init PROVE UriFits
  OBVIOUS
<1>1. \A th \in Threads : pointer[th] = None /\ call[th].op = "none" /\ call[th].step = "idle"
  BY IdleTyped DEF Init
<1>. QED BY <1>1 DEF Init, UriFits

LEMMA UriStillFits ==
  ASSUME UriFits, UNCHANGED <<cache, uri, strings, pointer>>, connection' \in {connection, "live"},
         \A th \in Threads : /\ call'[th].step = "new string" => call[th].step = "new string"
                             /\ call'[th].op = "connection_uri" => connection' = "live"
  PROVE  UriFits'
  BY DEF UriFits

(* The steps of a call, as far as the URI goes.                            *)
BeginsOutside(th) ==
  \E op \in Op, step \in Step, t \in Tables \cup {None}, q \in Queries \cup {None} :
    /\ Begins(th, op, step, t, q)
    /\ step # "new string"
    /\ op = "connection_uri" => connection = "live"

LEMMA UriCalls ==
  ASSUME Typed, UriFits, NEW th \in Threads,
         \/ \E step \in Step : GoesTo(th, step) /\ step # "new string"
         \/ BeginsOutside(th)
         \/ Returns(th)
  PROVE  \A other \in Threads :
           /\ call'[other].step = "new string" => call[other].step = "new string"
           /\ call'[other].op = "connection_uri" => connection = "live"
<1>1. \A other \in Threads : other # th => call'[other] = call[other]
  BY DEF Typed, TypeOK, GoesTo, BeginsOutside, Begins, Returns
<1>2. CASE \E step \in Step : GoesTo(th, step) /\ step # "new string"
  <2>1. PICK step \in Step : GoesTo(th, step) /\ step # "new string"
    BY <1>2
  <2>2. call'[th] = [call[th] EXCEPT !.step = step] /\ call[th] \in Call
    BY <2>1 DEF Typed, TypeOK, GoesTo
  <2>3. call'[th].op = call[th].op /\ call'[th].step = step
    BY <2>2 DEF Call
  <2>. QED BY <1>1, <2>1, <2>3 DEF UriFits
<1>3. CASE BeginsOutside(th)
  <2>1. PICK op \in Op, step \in Step, t \in Tables \cup {None}, q \in Queries \cup {None} :
          /\ Begins(th, op, step, t, q)
          /\ step # "new string"
          /\ op = "connection_uri" => connection = "live"
    BY <1>3 DEF BeginsOutside
  <2>2. call'[th].op = op /\ call'[th].step = step
    BY <2>1 DEF Typed, TypeOK, Begins
  <2>. QED BY <1>1, <2>1, <2>2 DEF UriFits
<1>4. CASE Returns(th)
  <2>1. call'[th] = Idle
    BY <1>4 DEF Typed, TypeOK, Returns
  <2>. QED BY <1>1, <2>1, IdleTyped DEF UriFits
<1>. QED BY <1>2, <1>3, <1>4

LEMMA NextUri == Typed /\ UriFits /\ [Next]_vars => UriFits'
<1>. SUFFICES ASSUME Typed, UriFits, [Next]_vars PROVE UriFits'
  OBVIOUS
<1>. DEFINE Elsewhere == UNCHANGED <<connection, cache, uri, strings, pointer>>
<1>1. ASSUME NEW th \in Threads,
             \/ FindRuntime(th) \/ ClaimRuntime(th) \/ MakeRuntime(th)
             \/ QueryExecuted(th)
      PROVE  UriFits'
  <2>1. Elsewhere /\ (GoesTo(th, "block_on") \/ GoesTo(th, "new runtime") \/ GoesTo(th, "drop"))
    BY <1>1 DEF FindRuntime, ClaimRuntime, MakeRuntime, QueryExecuted
  <2>2. \A other \in Threads :
          /\ call'[other].step = "new string" => call[other].step = "new string"
          /\ call'[other].op = "connection_uri" => connection = "live"
    BY <2>1, UriCalls DEF Step
  <2>. QED BY <2>1, <2>2, UriStillFits
<1>2. ASSUME NEW th \in Threads,
             \/ TableOpened(th) \/ RowsCounted(th) \/ QueryDropped(th) \/ ResultCollected(th)
      PROVE  UriFits'
  <2>1. Elsewhere /\ Returns(th)
    BY <1>2 DEF TableOpened, RowsCounted, QueryDropped, ResultCollected
  <2>2. \A other \in Threads :
          /\ call'[other].step = "new string" => call[other].step = "new string"
          /\ call'[other].op = "connection_uri" => connection = "live"
    BY <2>1, UriCalls
  <2>. QED BY <2>1, <2>2, UriStillFits
<1>3. ASSUME NEW th \in Threads, StartsCall(th)
      PROVE  UriFits'
  <2>1. Elsewhere
    BY <1>3 DEF StartsCall, ConnectBuilderExecute, ConnectionUri, OpenTable, CountRows, QueryExecute,
                QueryResultToArrow
  <2>2. BeginsOutside(th)
    <3>. USE DEF BeginsOutside
    <3>1. CASE ConnectBuilderExecute(th)
      BY <3>1 DEF ConnectBuilderExecute, Op, Step
    <3>2. CASE ConnectionUri(th)
      BY <3>2 DEF ConnectionUri, Op, Step
    <3>3. CASE OpenTable(th)
      BY <3>3 DEF OpenTable, Op, Step
    <3>4. ASSUME NEW t \in Tables, CountRows(th, t) PROVE BeginsOutside(th)
      BY <3>4 DEF CountRows, Op, Step
    <3>5. ASSUME NEW q \in Queries, QueryExecute(th, q) \/ QueryResultToArrow(th, q) PROVE BeginsOutside(th)
      BY <3>5 DEF QueryExecute, QueryResultToArrow, Op, Step, Typed, TypeOK
    <3>. QED BY <1>3, <3>1, <3>2, <3>3, <3>4, <3>5 DEF StartsCall
  <2>3. \A other \in Threads :
          /\ call'[other].step = "new string" => call[other].step = "new string"
          /\ call'[other].op = "connection_uri" => connection = "live"
    BY <2>2, UriCalls
  <2>. QED BY <2>1, <2>3, UriStillFits
<1>4. ASSUME NEW th \in Threads, Connected(th)
      PROVE  UriFits'
  <2>1. \A other \in Threads :
          /\ call'[other].step = "new string" => call[other].step = "new string"
          /\ call'[other].op = "connection_uri" => connection = "live"
    BY <1>4, UriCalls DEF Connected
  <2>. QED BY <1>4, <2>1, UriStillFits DEF Connected
<1>5. ASSUME NEW th \in Threads, FindUri(th)
      PROVE  UriFits'
  <2>1. \A other \in Threads :
          /\ call'[other].step = "new string" => call[other].step = "new string"
          /\ call'[other].op = "connection_uri" => connection = "live"
    BY <1>5, UriCalls DEF FindUri
  <2>2. \A other \in Threads : pointer'[other] # None => pointer'[other] = uri
    BY <1>5 DEF FindUri, UriFits, Typed, TypeOK
  <2>. QED BY <1>5, <2>1, <2>2 DEF FindUri, UriFits
<1>6. ASSUME NEW th \in Threads, ClaimUri(th)
      PROVE  UriFits'
  <2>1. call'[th] = [call[th] EXCEPT !.step = "new string"] /\ call[th] \in Call
    BY <1>6 DEF ClaimUri, GoesTo, Typed, TypeOK
  <2>2. call'[th].op = "connection_uri" /\ call'[th].step = "new string"
    BY <1>6, <2>1 DEF ClaimUri, At, Call
  <2>3. \A other \in Threads : other # th => call'[other] = call[other]
    BY <1>6 DEF ClaimUri, GoesTo, Typed, TypeOK
  <2>4. connection = "live" /\ \A other \in Threads : call[other].step # "new string"
    BY <1>6 DEF ClaimUri, At, UriFits
  <2>. QED BY <1>6, <2>2, <2>3, <2>4 DEF ClaimUri, UriFits
<1>7. ASSUME NEW th \in Threads, MakeUri(th)
      PROVE  UriFits'
  <2>1. call'[th] = Idle /\ \A other \in Threads : other # th => call'[other] = call[other]
    BY <1>7 DEF MakeUri, Returns, Typed, TypeOK
  <2>2. cache = "running" /\ connection = "live" /\ strings = {}
        /\ \A other \in Threads : pointer[other] = None /\ (other # th => call[other].step # "new string")
    BY <1>7 DEF MakeUri, At, UriFits
  <2>3. PICK s \in Strings : strings' = {s} /\ uri' = s /\ pointer' = [pointer EXCEPT ![th] = s]
    BY <1>7, <2>2 DEF MakeUri
  <2>4. \A other \in Threads : pointer'[other] \in {None, s}
    BY <2>2, <2>3 DEF Typed, TypeOK
  <2>5. s # None /\ cache' = "set" /\ connection' = connection
    BY <1>7, NoneAssumption DEF MakeUri
  <2>. QED BY <2>1, <2>2, <2>3, <2>4, <2>5, IdleTyped DEF UriFits
<1>8. CASE ConnectionFree
  <2>1. \A th \in Threads : call[th].op # "connection_uri" /\ call[th].step # "new string"
    BY <1>8 DEF ConnectionFree, Typed, CallsMatch, CallFits
  <2>2. strings' = {} /\ uri' = None /\ cache' = "empty" /\ call' = call
        /\ \A th \in Threads : pointer'[th] = None
    BY <1>8 DEF ConnectionFree, UriFits
  <2>. QED BY <2>1, <2>2 DEF UriFits
<1>9. ASSUME \/ \E q \in Queries, t \in Tables : QueryNew(q, t)
             \/ \E t \in Tables : TableFree(t)
             \/ \E q \in Queries : QueryFree(q)
             \/ UNCHANGED vars
      PROVE  UriFits'
  <2>1. Elsewhere /\ call' = call
    BY <1>9 DEF QueryNew, TableFree, QueryFree, vars
  <2>. QED BY <2>1 DEF UriFits
<1>. QED BY <1>1, <1>2, <1>3, <1>4, <1>5, <1>6, <1>7, <1>8, <1>9 DEF Next, Runs, Frees

(* All threads get one string, which lives as long as its connection.      *)
THEOREM UriOfAllThreads == Spec => []UriIsShared
<1>1. Typed /\ UriFits => UriIsShared
  BY DEF UriFits, UriIsShared
<1>2. Spec => []UriFits
  BY InitUri, NextUri, SpecTyped, PTL DEF Spec
<1>. QED BY <1>1, <1>2, SpecTyped, PTL

-----------------------------------------------------------------------------
(* The holders of a dataset.                                               *)

InQuery(q) ==
  queries[q] = "query" \/ \E th \in Threads : call[th].op = "query_execute" /\ call[th].query = q

InResult(q) ==
  queries[q] \in {"result", "returning"}
    \/ \E th \in Threads : call[th].op = "query_result_to_arrow" /\ call[th].query = q

(* The members of HeldBy(t), one kind at a time.                           *)
HolderFits(t) ==
  /\ \A u \in Tables : <<"table", u>> \in holders[t] <=> u = t /\ t \in tables
  /\ \A q \in Queries : <<"query", q>> \in holders[t] <=> target[q] = t /\ InQuery(q)
  /\ \A q \in Queries : <<"result", q>> \in holders[t] <=> target[q] = t /\ InResult(q)

HoldersFit == \A t \in Tables : HolderFits(t)

LEMMA HoldersFitAreReal == TypeOK /\ HoldersFit => HoldersAreReal
<1>. SUFFICES ASSUME TypeOK, HoldersFit, NEW t \in Tables PROVE holders[t] = HeldBy(t)
  BY DEF HoldersAreReal
<1>1. holders[t] \subseteq Holder /\ HolderFits(t)
  BY DEF TypeOK, HoldersFit
<1>2. HeldBy(t) \subseteq Holder
  BY DEF HeldBy, Holder, TypeOK
<1>3. \A u \in Tables : <<"table", u>> \in HeldBy(t) <=> u = t /\ t \in tables
  BY DEF HeldBy
<1>4. \A q \in Queries : <<"query", q>> \in HeldBy(t) <=> target[q] = t /\ InQuery(q)
  BY DEF HeldBy, InQuery
<1>5. \A q \in Queries : <<"result", q>> \in HeldBy(t) <=> target[q] = t /\ InResult(q)
  BY DEF HeldBy, InResult
<1>6. \A x \in Holder : x \in holders[t] <=> x \in HeldBy(t)
  BY <1>1, <1>3, <1>4, <1>5 DEF HolderFits, Holder
<1>. QED BY <1>1, <1>2, <1>6

LEMMA InitHolders == Init => HoldersFit
<1>. SUFFICES ASSUME Init PROVE HoldersFit
  OBVIOUS
<1>1. \A q \in Queries : target[q] = None
  BY DEF Init
<1>. QED BY <1>1, NoneAssumption DEF Init, HoldersFit, HolderFits

(* A query is where it was if no call takes, leaves or changes it.         *)
LEMMA StillIn ==
  ASSUME NEW q \in Queries, queries'[q] = queries[q],
         \A th \in Threads :
           q \in {call[th].query, call'[th].query} =>
             call'[th].op = call[th].op /\ call'[th].query = call[th].query
  PROVE  (InQuery(q)' <=> InQuery(q)) /\ (InResult(q)' <=> InResult(q))
  BY DEF InQuery, InResult

(* A step that touches no query and no table.                              *)
LEMMA HoldersStillFit ==
  ASSUME HoldersFit, UNCHANGED <<tables, queries, target, holders>>,
         \A th \in Threads, q \in Queries :
           q \in {call[th].query, call'[th].query} =>
             call'[th].op = call[th].op /\ call'[th].query = call[th].query
  PROVE  HoldersFit'
<1>1. \A q \in Queries : (InQuery(q)' <=> InQuery(q)) /\ (InResult(q)' <=> InResult(q))
  BY StillIn
<1>. QED BY <1>1 DEF HoldersFit, HolderFits

(* Who has a query that no call has.                                       *)
LEMMA WithoutCall ==
  ASSUME Typed, NEW q \in Queries, queries[q] \notin {"taken", "returning"}
  PROVE  /\ \A th \in Threads : call[th].query # q
         /\ InQuery(q) <=> queries[q] = "query"
         /\ InResult(q) <=> queries[q] = "result"
<1>1. \A th \in Threads : call[th].query # q
  <2>. SUFFICES ASSUME NEW th \in Threads, call[th].query = q PROVE FALSE
    OBVIOUS
  <2>1. CallFits(th)
    BY DEF Typed, CallsMatch
  <2>. QED BY <2>1, NoneAssumption DEF CallFits
<1>. QED BY <1>1 DEF InQuery, InResult

(* Who has a query that a call works on.                                   *)
LEMMA WithCall ==
  ASSUME Typed, NEW th \in Threads, call[th].op \in QueryOps
  PROVE  /\ call[th].query \in Queries /\ call[th].table \in Tables
         /\ target[call[th].query] = call[th].table
         /\ queries[call[th].query] \in {"taken", "returning"}
         /\ \A other \in Threads : other # th => call[other].query # call[th].query
         /\ InQuery(call[th].query) <=> call[th].op = "query_execute"
         /\ InResult(call[th].query) <=>
              call[th].op = "query_result_to_arrow" \/ queries[call[th].query] = "returning"
<1>1. CallFits(th)
  BY DEF Typed, CallsMatch
<1>2. PICK q \in Queries : q = call[th].query
  BY <1>1 DEF CallFits
<1>3. /\ target[q] = call[th].table
      /\ queries[q] \in {"taken", "returning"}
      /\ queries[q] = "returning" => call[th].op = "query_execute"
  BY <1>1, <1>2 DEF CallFits
<1>4. call[th].table \in Tables
  BY <1>3 DEF Typed, CallsMatch, QueryFits
<1>5. \A other \in Threads : other # th => call[other].query # q
  BY <1>2, NoneAssumption DEF Typed, CallsMatch, Alone
<1>. QED BY <1>2, <1>3, <1>4, <1>5 DEF InQuery, InResult, QueryOps

(* Only query q and the holders of table t change.                         *)
LEMMA QueryHolders ==
  ASSUME Typed, HoldersFit, NEW q \in Queries, NEW t \in Tables, tables' = tables,
         \A p \in Queries : p # q => queries'[p] = queries[p] /\ target'[p] = target[p],
         \A th \in Threads, p \in Queries :
           p # q /\ p \in {call[th].query, call'[th].query} =>
             call'[th].op = call[th].op /\ call'[th].query = call[th].query,
         target[q] \in {t, None}, target'[q] \in {t, None},
         \A u \in Tables : u # t => holders'[u] = holders[u],
         \A x \in Holder : x \notin {<<"query", q>>, <<"result", q>>} =>
                             (x \in holders'[t] <=> x \in holders[t]),
         <<"query", q>> \in holders'[t] <=> target'[q] = t /\ InQuery(q)',
         <<"result", q>> \in holders'[t] <=> target'[q] = t /\ InResult(q)'
  PROVE  HoldersFit'
<1>1. \A p \in Queries : p # q => (InQuery(p)' <=> InQuery(p)) /\ (InResult(p)' <=> InResult(p))
  BY StillIn
<1>2. ASSUME NEW u \in Tables, u # t PROVE HolderFits(u)'
  <2>1. target[q] # u /\ target'[q] # u
    BY <1>2, NoneAssumption
  <2>. QED BY <1>1, <1>2, <2>1 DEF HoldersFit, HolderFits
<1>3. HolderFits(t)'
  <2>1. \A u \in Tables : <<"table", u>> \in holders'[t] <=> <<"table", u>> \in holders[t]
    BY DEF Holder
  <2>2. \A p \in Queries : p # q =>
          /\ <<"query", p>> \in holders'[t] <=> <<"query", p>> \in holders[t]
          /\ <<"result", p>> \in holders'[t] <=> <<"result", p>> \in holders[t]
    BY DEF Holder
  <2>3. \A u \in Tables : <<"table", u>> \in holders'[t] <=> u = t /\ t \in tables'
    BY <2>1 DEF HoldersFit, HolderFits
  <2>4. \A p \in Queries : <<"query", p>> \in holders'[t] <=> target'[p] = t /\ InQuery(p)'
    <3>. SUFFICES ASSUME NEW p \in Queries, p # q
                  PROVE <<"query", p>> \in holders'[t] <=> target'[p] = t /\ InQuery(p)'
      OBVIOUS
    <3>. QED BY <1>1, <2>2 DEF HoldersFit, HolderFits
  <2>5. \A p \in Queries : <<"result", p>> \in holders'[t] <=> target'[p] = t /\ InResult(p)'
    <3>. SUFFICES ASSUME NEW p \in Queries, p # q
                  PROVE <<"result", p>> \in holders'[t] <=> target'[p] = t /\ InResult(p)'
      OBVIOUS
    <3>. QED BY <1>1, <2>2 DEF HoldersFit, HolderFits
  <2>. QED BY <2>3, <2>4, <2>5 DEF HolderFits
<1>. QED BY <1>2, <1>3 DEF HoldersFit

LEMMA NextHolders == Typed /\ HoldersFit /\ [Next]_vars => HoldersFit'
<1>. SUFFICES ASSUME Typed, HoldersFit, [Next]_vars PROVE HoldersFit'
  OBVIOUS
<1>0. Typed'
  BY NextTyped
<1>. DEFINE Elsewhere == UNCHANGED <<tables, queries, target, holders>>
<1>1. ASSUME NEW th \in Threads,
             \/ FindRuntime(th) \/ ClaimRuntime(th) \/ MakeRuntime(th) \/ ClaimUri(th)
      PROVE  HoldersFit'
  <2>1. Elsewhere /\ \E step \in Step : GoesTo(th, step)
    BY <1>1 DEF FindRuntime, ClaimRuntime, MakeRuntime, ClaimUri, Step
  <2>2. \A other \in Threads : call'[other].op = call[other].op /\ call'[other].query = call[other].query
    <3>1. call[th] \in Call /\ \E step \in Step : call'[th] = [call[th] EXCEPT !.step = step]
      BY <2>1 DEF GoesTo, Typed, TypeOK
    <3>2. call'[th].op = call[th].op /\ call'[th].query = call[th].query
      BY <3>1 DEF Call
    <3>3. \A other \in Threads : other # th => call'[other] = call[other]
      BY <2>1 DEF GoesTo, Typed, TypeOK
    <3>. QED BY <3>2, <3>3
  <2>. QED BY <2>1, <2>2, HoldersStillFit
<1>2. ASSUME NEW th \in Threads,
             \/ Connected(th) \/ FindUri(th) \/ MakeUri(th) \/ RowsCounted(th)
      PROVE  HoldersFit'
  <2>1. Elsewhere /\ Returns(th) /\ call[th].op \notin QueryOps
    BY <1>2 DEF Connected, FindUri, MakeUri, RowsCounted, At, QueryOps
  <2>2. call[th].query = None /\ call'[th].query = None
        /\ \A other \in Threads : other # th => call'[other] = call[other]
    BY <2>1, IdleTyped DEF Returns, Typed, TypeOK, CallsMatch, CallFits
  <2>. QED BY <2>1, <2>2, NoneAssumption, HoldersStillFit
<1>3. ASSUME NEW th \in Threads,
             \/ ConnectBuilderExecute(th) \/ ConnectionUri(th) \/ OpenTable(th)
             \/ \E t \in Tables : CountRows(th, t)
      PROVE  HoldersFit'
  <2>1. Elsewhere
    BY <1>3 DEF ConnectBuilderExecute, ConnectionUri, OpenTable, CountRows
  <2>2. call[th].query = None /\ call'[th].query = None
    BY <1>3, IdleTyped
    DEF ConnectBuilderExecute, ConnectionUri, OpenTable, CountRows, Begins, Typed, TypeOK
  <2>3. \A other \in Threads : other # th => call'[other] = call[other]
    BY <1>3 DEF ConnectBuilderExecute, ConnectionUri, OpenTable, CountRows, Begins, Typed, TypeOK
  <2>. QED BY <2>1, <2>2, <2>3, NoneAssumption, HoldersStillFit
<1>4. CASE ConnectionFree \/ UNCHANGED vars
  <2>1. Elsewhere /\ call' = call
    BY <1>4 DEF ConnectionFree, vars
  <2>. QED BY <2>1, HoldersStillFit
<1>5. ASSUME NEW th \in Threads, TableOpened(th)
      PROVE  HoldersFit'
  <2>1. UNCHANGED <<queries, target>> /\ call[th].op \notin QueryOps /\ Returns(th)
    BY <1>5 DEF TableOpened, At, QueryOps
  <2>2. call[th].query = None /\ call'[th].query = None
        /\ \A other \in Threads : other # th => call'[other] = call[other]
    BY <2>1, IdleTyped DEF Returns, Typed, TypeOK, CallsMatch, CallFits
  <2>3. \A q \in Queries : (InQuery(q)' <=> InQuery(q)) /\ (InResult(q)' <=> InResult(q))
    BY <2>1, <2>2, NoneAssumption, StillIn
  <2>4. CASE UNCHANGED <<tables, holders>>
    BY <2>1, <2>3, <2>4 DEF HoldersFit, HolderFits
  <2>5. ASSUME NEW t \in Tables \ tables, holders[t] = {}, tables' = tables \cup {t},
               holders' = [holders EXCEPT ![t] = {<<"table", t>>}]
        PROVE  HoldersFit'
    <3>1. holders'[t] = {<<"table", t>>} /\ \A u \in Tables : u # t => holders'[u] = holders[u]
      BY <2>5 DEF Typed, TypeOK
    <3>2. HolderFits(t)'
      BY <2>1, <2>3, <2>5, <3>1 DEF HoldersFit, HolderFits
    <3>3. \A u \in Tables : u # t => HolderFits(u)'
      BY <2>1, <2>3, <2>5, <3>1 DEF HoldersFit, HolderFits
    <3>. QED BY <3>2, <3>3 DEF HoldersFit
  <2>. QED BY <1>5, <2>4, <2>5 DEF TableOpened
<1>6. ASSUME NEW t \in Tables, TableFree(t)
      PROVE  HoldersFit'
  <2>1. UNCHANGED <<queries, target, call>> /\ tables' = tables \ {t}
    BY <1>6 DEF TableFree
  <2>2. holders'[t] = holders[t] \ {<<"table", t>>}
        /\ \A u \in Tables : u # t => holders'[u] = holders[u]
    BY <1>6 DEF TableFree, Typed, TypeOK
  <2>3. \A q \in Queries : (InQuery(q)' <=> InQuery(q)) /\ (InResult(q)' <=> InResult(q))
    BY <2>1 DEF InQuery, InResult
  <2>4. HolderFits(t)'
    BY <2>1, <2>2, <2>3 DEF HoldersFit, HolderFits
  <2>5. \A u \in Tables : u # t => HolderFits(u)'
    BY <2>1, <2>2, <2>3 DEF HoldersFit, HolderFits
  <2>. QED BY <2>4, <2>5 DEF HoldersFit
<1>7. ASSUME NEW q \in Queries, NEW t \in Tables, QueryNew(q, t)
      PROVE  HoldersFit'
  <2>1. /\ UNCHANGED <<tables, call>> /\ queries[q] = "none" /\ queries'[q] = "query"
        /\ target[q] = None /\ target'[q] = t
        /\ \A p \in Queries : p # q => queries'[p] = queries[p] /\ target'[p] = target[p]
    BY <1>7 DEF QueryNew, Typed, TypeOK, CallsMatch, QueryFits
  <2>2. holders'[t] = holders[t] \cup {<<"query", q>>}
        /\ \A u \in Tables : u # t => holders'[u] = holders[u]
    BY <1>7 DEF QueryNew, Typed, TypeOK
  <2>3. InQuery(q)' /\ ~InResult(q)'
    BY <2>1, WithoutCall DEF InQuery, InResult
  <2>4. <<"result", q>> \notin holders[t]
    BY <2>1, NoneAssumption DEF HoldersFit, HolderFits
  <2>5. <<"query", q>> # <<"result", q>>
    OBVIOUS
  <2>. QED BY <2>1, <2>2, <2>3, <2>4, <2>5, QueryHolders
<1>8. ASSUME NEW th \in Threads, NEW q \in Queries, QueryExecute(th, q) \/ QueryResultToArrow(th, q)
      PROVE  HoldersFit'
  <2>1. PICK op \in QueryOps :
          /\ Begins(th, op, "RUNTIME", target[q], q)
          /\ queries[q] = IF op = "query_execute" THEN "query" ELSE "result"
    BY <1>8 DEF QueryExecute, QueryResultToArrow, QueryOps
  <2>2. /\ UNCHANGED <<tables, target, holders>> /\ queries'[q] = "taken"
        /\ \A p \in Queries : p # q => queries'[p] = queries[p]
    BY <1>8 DEF QueryExecute, QueryResultToArrow, Typed, TypeOK
  <2>3. call'[th].op = op /\ call'[th].query = q /\ call[th].query = None
        /\ \A other \in Threads : other # th => call'[other] = call[other]
    BY <2>1, IdleTyped DEF Begins, Typed, TypeOK
  <2>4. \A other \in Threads : call[other].query # q
    BY <2>1, WithoutCall DEF QueryOps
  <2>5. /\ InQuery(q)' <=> InQuery(q)
        /\ InResult(q)' <=> InResult(q)
    <3>1. (InQuery(q) <=> op = "query_execute") /\ (InResult(q) <=> op = "query_result_to_arrow")
      BY <2>1, WithoutCall DEF QueryOps
    <3>2. (InQuery(q)' <=> op = "query_execute") /\ (InResult(q)' <=> op = "query_result_to_arrow")
      BY <2>2, <2>3, <2>4 DEF InQuery, InResult
    <3>. QED BY <3>1, <3>2
  <2>6. \A p \in Queries : p # q => (InQuery(p)' <=> InQuery(p)) /\ (InResult(p)' <=> InResult(p))
    BY <2>2, <2>3, NoneAssumption, StillIn
  <2>. QED BY <2>2, <2>5, <2>6 DEF HoldersFit, HolderFits
<1>9. ASSUME NEW th \in Threads, QueryExecuted(th)
      PROVE  HoldersFit'
  <2>1. call[th].op = "query_execute" /\ call[th] \in Call
    BY <1>9 DEF QueryExecuted, At, Typed, TypeOK
  <2>2. PICK q \in Queries, t \in Tables : q = call[th].query /\ t = call[th].table /\ t = target[q]
    BY <2>1, WithCall DEF QueryOps
  <2>3. /\ call' = [call EXCEPT ![th] = [call[th] EXCEPT !.step = "drop"]]
        /\ UNCHANGED <<tables, target>>
    BY <1>9 DEF QueryExecuted, GoesTo
  <2>4. /\ call'[th].op = "query_execute" /\ call'[th].query = q
        /\ \A other \in Threads : other # th => call'[other] = call[other]
    BY <2>1, <2>2, <2>3 DEF Call, Typed, TypeOK
  <2>5. queries[q] = "taken"
    BY <1>9, <2>1, <2>2 DEF QueryExecuted, At, Typed, CallsMatch, CallFits, QueryOps
  <2>6. \A other \in Threads : other # th => call[other].query # q
    BY <2>1, <2>2, WithCall DEF QueryOps
  <2>7. InQuery(q) /\ ~InResult(q) /\ InQuery(q)'
    BY <2>1, <2>2, <2>4, <2>5, WithCall DEF InQuery, QueryOps
  <2>8. InResult(q)' <=> queries'[q] \in {"result", "returning"}
    BY <2>4, <2>6 DEF InResult
  <2>9. <<"query", q>> \in holders[t] /\ <<"result", q>> \notin holders[t]
    BY <2>2, <2>7 DEF HoldersFit, HolderFits
  <2>10. \/ queries' = queries /\ holders' = holders
         \/ /\ queries' = [queries EXCEPT ![q] = "returning"]
            /\ holders' = [holders EXCEPT ![t] = @ \cup {<<"result", q>>}]
    BY <1>9, <2>2 DEF QueryExecuted
  <2>11. CASE queries' = queries /\ holders' = holders
    BY <2>2, <2>3, <2>4, <2>5, <2>7, <2>8, <2>9, <2>11, QueryHolders
  <2>12. CASE /\ queries' = [queries EXCEPT ![q] = "returning"]
              /\ holders' = [holders EXCEPT ![t] = @ \cup {<<"result", q>>}]
    <3>1. /\ queries'[q] = "returning" /\ \A p \in Queries : p # q => queries'[p] = queries[p]
          /\ holders'[t] = holders[t] \cup {<<"result", q>>}
          /\ \A u \in Tables : u # t => holders'[u] = holders[u]
      BY <2>12 DEF Typed, TypeOK
    <3>. QED BY <2>2, <2>3, <2>4, <2>7, <2>8, <2>9, <3>1, QueryHolders
  <2>. QED BY <2>10, <2>11, <2>12
<1>10. ASSUME NEW th \in Threads, QueryDropped(th)
       PROVE  HoldersFit'
  <2>1. call[th].op = "query_execute"
    BY <1>10 DEF QueryDropped, At
  <2>2. PICK q \in Queries, t \in Tables : q = call[th].query /\ t = call[th].table /\ t = target[q]
    BY <2>1, WithCall DEF QueryOps
  <2>3. /\ call'[th] = Idle /\ tables' = tables
        /\ \A other \in Threads : other # th => call'[other] = call[other]
    BY <1>10 DEF QueryDropped, Returns, Typed, TypeOK
  <2>4. \A other \in Threads : other # th => call[other].query # q
    BY <2>1, <2>2, WithCall DEF QueryOps
  <2>5. \A other \in Threads : call'[other].query # q
    BY <2>3, <2>4, IdleTyped, NoneAssumption
  <2>6. InResult(q) <=> queries[q] = "returning"
    BY <2>1, <2>2, WithCall DEF QueryOps
  <2>7. /\ \A p \in Queries : p # q => queries'[p] = queries[p] /\ target'[p] = target[p]
        /\ \/ queries[q] = "returning" /\ queries'[q] = "result" /\ target'[q] = t
           \/ queries[q] = "taken" /\ queries'[q] = "none" /\ target'[q] = None
    BY <1>10, <2>2 DEF QueryDropped, Gone, Typed, TypeOK
  <2>8. holders'[t] = holders[t] \ {<<"query", q>>}
        /\ \A u \in Tables : u # t => holders'[u] = holders[u]
    BY <1>10, <2>2 DEF QueryDropped, Typed, TypeOK
  <2>9. ~InQuery(q)' /\ (InResult(q)' <=> queries'[q] = "result")
    BY <2>5, <2>7 DEF InQuery, InResult
  <2>10. <<"result", q>> \in holders[t] <=> queries[q] = "returning"
    BY <2>2, <2>6 DEF HoldersFit, HolderFits
  <2>11. <<"query", q>> # <<"result", q>>
    OBVIOUS
  <2>12. \A other \in Threads, p \in Queries :
           p # q /\ p \in {call[other].query, call'[other].query} =>
             call'[other].op = call[other].op /\ call'[other].query = call[other].query
    BY <2>2, <2>3, IdleTyped, NoneAssumption
  <2>. QED BY <2>2, <2>3, <2>7, <2>8, <2>9, <2>10, <2>11, <2>12, NoneAssumption, QueryHolders
<1>11. ASSUME NEW th \in Threads, ResultCollected(th)
       PROVE  HoldersFit'
  <2>1. call[th].op = "query_result_to_arrow"
    BY <1>11 DEF ResultCollected, At
  <2>2. PICK q \in Queries, t \in Tables : q = call[th].query /\ t = call[th].table /\ t = target[q]
    BY <2>1, WithCall DEF QueryOps
  <2>3. /\ call'[th] = Idle /\ tables' = tables
        /\ \A other \in Threads : other # th => call'[other] = call[other]
    BY <1>11 DEF ResultCollected, Returns, Typed, TypeOK
  <2>4. ~InQuery(q)
    BY <2>1, <2>2, WithCall DEF QueryOps
  <2>5. /\ \A p \in Queries : p # q => queries'[p] = queries[p] /\ target'[p] = target[p]
        /\ target'[q] = None
    BY <1>11, <2>2 DEF ResultCollected, Gone, Typed, TypeOK
  <2>6. holders'[t] = holders[t] \ {<<"result", q>>}
        /\ \A u \in Tables : u # t => holders'[u] = holders[u]
    BY <1>11, <2>2 DEF ResultCollected, Typed, TypeOK
  <2>7. <<"query", q>> \notin holders[t]
    BY <2>2, <2>4 DEF HoldersFit, HolderFits
  <2>8. \A other \in Threads, p \in Queries :
           p # q /\ p \in {call[other].query, call'[other].query} =>
             call'[other].op = call[other].op /\ call'[other].query = call[other].query
    BY <2>2, <2>3, IdleTyped, NoneAssumption
  <2>. QED BY <2>2, <2>3, <2>5, <2>6, <2>7, <2>8, NoneAssumption, QueryHolders
<1>12. ASSUME NEW q \in Queries, QueryFree(q)
       PROVE  HoldersFit'
  <2>1. PICK t \in Tables : t = target[q]
    BY <1>12 DEF QueryFree, Typed, CallsMatch, QueryFits
  <2>2. /\ UNCHANGED <<tables, call>> /\ target'[q] = None /\ queries[q] \in {"query", "result"}
        /\ \A p \in Queries : p # q => queries'[p] = queries[p] /\ target'[p] = target[p]
    BY <1>12 DEF QueryFree, Gone, Typed, TypeOK
  <2>3. holders'[t] = holders[t] \ {<<queries[q], q>>}
        /\ \A u \in Tables : u # t => holders'[u] = holders[u]
    BY <1>12, <2>1 DEF QueryFree, Typed, TypeOK
  <2>4. (InQuery(q) <=> queries[q] = "query") /\ (InResult(q) <=> queries[q] = "result")
    BY <2>2, WithoutCall
  <2>5. /\ <<"query", q>> \in holders[t] <=> queries[q] = "query"
        /\ <<"result", q>> \in holders[t] <=> queries[q] = "result"
    BY <2>1, <2>4 DEF HoldersFit, HolderFits
  <2>6. <<"query", q>> \notin holders'[t] /\ <<"result", q>> \notin holders'[t]
    BY <2>2, <2>3, <2>5
  <2>. QED BY <2>1, <2>2, <2>3, <2>6, NoneAssumption, QueryHolders
<1>. QED BY <1>1, <1>2, <1>3, <1>4, <1>5, <1>6, <1>7, <1>8, <1>9, <1>10, <1>11, <1>12
  DEF Next, Runs, StartsCall, Frees

LEMMA SpecHolders == Spec => []HoldersFit
  BY InitHolders, NextHolders, SpecTyped, PTL DEF Spec

(* A dataset is kept by what reads it and by nothing else, on every path   *)
(* of query_execute, query_result_to_arrow and the free functions.         *)
THEOREM NothingKeepsADatasetForNothing == Spec => []HoldersAreReal
<1>1. Typed /\ HoldersFit => HoldersAreReal
  BY HoldersFitAreReal DEF Typed
<1>. QED BY <1>1, SpecTyped, SpecHolders, PTL

(* A call that waits finds the dataset it reads alive, whatever the other  *)
(* threads free meanwhile.                                                 *)
THEOREM CallsReadLiveDatasets == Spec => []ReadsAreLive
<1>1. Typed /\ HoldersFit => ReadsAreLive
  <2>. SUFFICES ASSUME Typed, HoldersFit, NEW th \in Threads,
                       call[th].table # None, call[th].step # "drop"
                PROVE  holders[call[th].table] # {}
    BY DEF ReadsAreLive
  <2>1. CallFits(th)
    BY DEF Typed, CallsMatch
  <2>2. CASE call[th].op = "count_rows"
    <3>1. call[th].table \in tables /\ tables \subseteq Tables
      BY <2>1, <2>2 DEF CallFits, Typed, TypeOK
    <3>. QED BY <3>1 DEF HoldersFit, HolderFits
  <2>3. CASE call[th].op \in QueryOps
    <3>1. PICK q \in Queries, t \in Tables :
            q = call[th].query /\ t = call[th].table /\ t = target[q] /\ (InQuery(q) \/ InResult(q))
      BY <2>3, WithCall DEF QueryOps
    <3>. QED BY <3>1 DEF HoldersFit, HolderFits
  <2>. QED BY <2>1, <2>2, <2>3 DEF CallFits
<1>. QED BY <1>1, SpecTyped, SpecHolders, PTL
=============================================================================
