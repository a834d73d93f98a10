----------------------------- MODULE SharedCalls ------------------------------
(***************************************************************************)
(* The threads of SharedHandles, seen as one client of LanceDB: however    *)
(* their calls overlap, each takes effect at one instant, its return, as   *)
(* the entry point that the ownership protocol describes; the steps in     *)
(* between change nothing that the client owns.                            *)
(*                                                                         *)
(* A connect builder is made and executed by one thread; the pointers      *)
(* returned by connection_uri are borrowed and no objects of the protocol; *)
(* the batches that query_result_to_arrow returns are followed by Results  *)
(* and not here, so a collected result counts as an empty one.             *)
(***************************************************************************)
EXTENDS SharedHandles

VARIABLE last   \* history: the last call that returned, as LanceDB records it

hvars == <<vars, last>>

Returned(fn, code, given) == [fn |-> fn, rc |-> code, given |-> given, slot |-> FALSE]

(* Objects of the API, with the kinds of LanceDB.                          *)
TheConnection == <<"Connection", None>>

Object ==
  {TheConnection} \cup {"ConnectBuilder"} \X Threads \cup {"Table"} \X Tables
    \cup {"Query", "Result"} \X Queries

(* The steps after which a call has not returned, or is connection_uri.    *)
Waits(th) ==
  \/ FindRuntime(th) \/ ClaimRuntime(th) \/ MakeRuntime(th)
  \/ ConnectionUri(th) \/ FindUri(th) \/ ClaimUri(th) \/ MakeUri(th)
  \/ OpenTable(th) \/ \E t \in Tables : CountRows(th, t)
  \/ \E q \in Queries : QueryExecute(th, q) \/ QueryResultToArrow(th, q)
  \/ QueryExecuted(th)

HInit == Init /\ last = Returned("none", "Success", {})

CallReturns(th) ==
  \/ /\ Connected(th)
     /\ last' = Returned("connect_builder_execute",
                         IF connection' = connection THEN "Error" ELSE "Success",
                         {<<"ConnectBuilder", th>>})
  \/ /\ TableOpened(th)
     /\ last' = Returned("connection_open_table",
                         IF tables' = tables THEN "Error" ELSE "Success", {})
  \/ RowsCounted(th) /\ last' = Returned("table_count_rows", "Success", {})
  \/ /\ QueryDropped(th)
     /\ last' = Returned("query_execute",
                         IF queries[call[th].query] = "returning" THEN "Success" ELSE "Null",
                         {<<"Query", call[th].query>>})
  \/ /\ ResultCollected(th)
     /\ \E code \in {"Success", "Error"} :
          last' = Returned("query_result_to_arrow", code, {<<"Result", call[th].query>>})

HandleFreed ==
  \/ ConnectionFree /\ last' = Returned("connection_free", "Success", {TheConnection})
  \/ \E t \in Tables :
       TableFree(t) /\ last' = Returned("table_free", "Success", {<<"Table", t>>})
  \/ \E q \in Queries :
       /\ QueryFree(q)
       /\ last' = IF queries[q] = "query"
                    THEN Returned("query_free", "Success", {<<"Query", q>>})
                    ELSE Returned("query_result_free", "Success", {<<"Result", q>>})

HNext ==
  \/ \E th \in Threads :
       \/ Waits(th) /\ UNCHANGED last
       \/ ConnectBuilderExecute(th) /\ last' = Returned("connect", "Success", {})
       \/ CallReturns(th)
  \/ \E q \in Queries, t \in Tables :
       QueryNew(q, t) /\ last' = Returned("query_new", "Success", {})
  \/ HandleFreed

HSpec == HInit /\ [][HNext]_hvars /\ \A th \in Threads : WF_vars(Runs(th))

-----------------------------------------------------------------------------
(* The state of LanceDB.  Its heap is read off the owners of the datasets: *)
(* an object is there as long as it keeps its table's dataset.  What the   *)
(* client owns is read off what it was told: a query passed to a call that *)
(* has not returned is still its own.                                      *)

EntryPoint ==
  {"connect", "connect_builder_execute", "connection_open_table", "table_count_rows",
   "query_new", "query_execute", "query_result_to_arrow",
   "connection_free", "table_free", "query_free", "query_result_free"}

Keeps(kind, x) == \E t \in Tables : <<kind, x>> \in holders[t]

Passed(op, q) == \E th \in Threads : call[th].op = op /\ call[th].query = q

OwnsQuery(q) == queries[q] = "query" \/ Passed("query_execute", q)

OwnsResult(q) == queries[q] = "result" \/ Passed("query_result_to_arrow", q)

Connecting(o) ==
  \/ o[1] = "Connection" /\ connection = "live"
  \/ o[1] = "ConnectBuilder" /\ call[o[2]].op = "connect_builder_execute"

Allocated(o) ==
  \/ Connecting(o)
  \/ o[1] = "Table" /\ Keeps("table", o[2])
  \/ o[1] = "Query" /\ Keeps("query", o[2])
  \/ o[1] = "Result" /\ Keeps("result", o[2]) /\ queries[o[2]] # "returning"

Owned ==
  {o \in Object :
     \/ Connecting(o)
     \/ o[1] = "Table" /\ o[2] \in tables
     \/ o[1] = "Query" /\ OwnsQuery(o[2])
     \/ o[1] = "Result" /\ OwnsResult(o[2])}

ApiHeap == [o \in Object |-> IF Allocated(o) THEN o[1] ELSE "free"]

Api == INSTANCE LanceDB WITH
  Id        <- Object,
  NULL      <- <<"null", None>>,
  Calls     <- EntryPoint,
  BadInputs <- {},
  heap      <- ApiHeap,
  owned     <- Owned,
  message   <- <<"null", None>>,
  call      <- last

(* Calls on shared handles are atomic at the boundary: any interleaving of *)
(* the threads is a sequence of whole entry points, each of which takes,   *)
(* frees and makes what the protocol says it does.                         *)
CallsAreAtomic == Api!Spec
=============================================================================
