---------------------------- MODULE SharedHandles -----------------------------
(***************************************************************************)
(* Threads that share the handles of one connection.  Two values are made  *)
(* once, by whichever thread comes first, while the others wait: the tokio *)
(* runtime of the process and the C string of a connection's URI.  Calls   *)
(* on a table borrow its handle until they return; a query owns a clone of *)
(* the table, so the client may free the table, and the connection, while  *)
(* queries and results of it live on.                                      *)
(*                                                                         *)
(* The client keeps the contract of the header: it passes live handles     *)
(* only, and frees a handle when no call that borrows it is running.       *)
(***************************************************************************)
EXTENDS Naturals

CONSTANTS
  Threads,   \* the threads of the client
  Tables,    \* tables it opens; one is opened again when nothing holds it
  Queries,   \* queries, each with the result it turns into
  Strings,   \* addresses of URI strings
  None       \* no table, no query, no string

ASSUME NoneAssumption == None \notin Threads \cup Tables \cup Queries \cup Strings

VARIABLES
  connection,  \* "none" or "live"
  runtime,     \* the OnceLock RUNTIME: "empty", "running" (its initialiser) or "set"
  cache,       \* the OnceLock uri_cache of the connection, likewise
  uri,         \* the string in uri_cache
  strings,     \* the URI strings on the heap
  pointer,     \* what connection_uri returned to each thread
  tables,      \* the table handles that are live
  queries,     \* what there is of a query: see Stage
  target,      \* the table a query reads
  holders,     \* who keeps the dataset of a table: the owners of its Arc
  call         \* what each thread runs

vars == <<connection, runtime, cache, uri, strings, pointer, tables, queries, target,
          holders, call>>

Once == {"empty", "running", "set"}

(* "taken" by a running call; "returning" is a result not yet returned.    *)
Stage == {"none", "query", "taken", "returning", "result"}

Op == {"none", "connect_builder_execute", "connection_uri", "open_table", "count_rows",
       "query_execute", "query_result_to_arrow"}

(* Where a call is: at an OnceLock, in its initialiser, waiting for lancedb *)
(* in block_on, or dropping what it took.                                  *)
Step == {"idle", "uri_cache", "new string", "RUNTIME", "new runtime", "block_on", "drop"}

Call == [op : Op, step : Step, table : Tables \cup {None}, query : Queries \cup {None}]

Idle == [op |-> "none", step |-> "idle", table |-> None, query |-> None]

Holder == {"table"} \X Tables \cup {"query", "result"} \X Queries

TypeOK ==
  /\ connection \in {"none", "live"}
  /\ runtime \in Once /\ cache \in Once
  /\ uri \in Strings \cup {None}
  /\ strings \subseteq Strings
  /\ pointer \in [Threads -> Strings \cup {None}]
  /\ tables \subseteq Tables
  /\ queries \in [Queries -> Stage]
  /\ target \in [Queries -> Tables \cup {None}]
  /\ holders \in [Tables -> SUBSET Holder]
  /\ call \in [Threads -> Call]

Init ==
  /\ connection = "none"
  /\ runtime = "empty" /\ cache = "empty"
  /\ uri = None /\ strings = {} /\ pointer = [th \in Threads |-> None]
  /\ tables = {}
  /\ queries = [q \in Queries |-> "none"] /\ target = [q \in Queries |-> None]
  /\ holders = [t \in Tables |-> {}]
  /\ call = [th \in Threads |-> Idle]

-----------------------------------------------------------------------------
(* The steps of a call.                                                    *)

At(th, op, step) == call[th].op = op /\ call[th].step = step

Begins(th, op, step, t, q) ==
  /\ call[th] = Idle
  /\ call' = [call EXCEPT ![th] = [op |-> op, step |-> step, table |-> t, query |-> q]]

GoesTo(th, step) == call' = [call EXCEPT ![th].step = step]

Returns(th) == call' = [call EXCEPT ![th] = Idle]

(* get_runtime: every call that waits for lancedb comes through here.      *)
FindRuntime(th) ==
  /\ call[th].step = "RUNTIME" /\ runtime = "set"
  /\ GoesTo(th, "block_on")
  /\ UNCHANGED <<connection, runtime, cache, uri, strings, pointer, tables, queries, target, holders>>

(* Mutant: a thread that finds no runtime makes one, whoever else does.    *)
ClaimRuntimeTwice(th) ==
  /\ call[th].step = "RUNTIME" /\ runtime # "set"
  /\ runtime' = "running"
  /\ GoesTo(th, "new runtime")
  /\ UNCHANGED <<connection, cache, uri, strings, pointer, tables, queries, target, holders>>

ClaimRuntime(th) ==
  /\ call[th].step = "RUNTIME" /\ runtime = "empty"
  /\ runtime' = "running"
  /\ GoesTo(th, "new runtime")
  /\ UNCHANGED <<connection, cache, uri, strings, pointer, tables, queries, target, holders>>

(* Mutant: an initialiser that panics leaves a poisoned cell.              *)
MakeRuntimePoisoned(th) ==
  /\ call[th].step = "new runtime"
  /\ runtime' \in {"set", "poisoned"}
  /\ GoesTo(th, "block_on")
  /\ UNCHANGED <<connection, cache, uri, strings, pointer, tables, queries, target, holders>>

(* A runtime that cannot be made ends the process.                         *)
MakeRuntime(th) ==
  /\ call[th].step = "new runtime"
  /\ runtime' = "set"
  /\ GoesTo(th, "block_on")
  /\ UNCHANGED <<connection, cache, uri, strings, pointer, tables, queries, target, holders>>

-----------------------------------------------------------------------------
(* The connection and its URI.                                             *)

(* Threads may connect at the same time; this is where the runtime is made.*)
ConnectBuilderExecute(th) ==
  /\ connection = "none"
  /\ Begins(th, "connect_builder_execute", "RUNTIME", None, None)
  /\ UNCHANGED <<connection, runtime, cache, uri, strings, pointer, tables, queries, target, holders>>

(* The connection fails, or the client frees it as it has one already.     *)
Connected(th) ==
  /\ At(th, "connect_builder_execute", "block_on")
  /\ \/ connection = "none" /\ connection' = "live"
     \/ UNCHANGED connection
  /\ Returns(th)
  /\ UNCHANGED <<runtime, cache, uri, strings, pointer, tables, queries, target, holders>>

ConnectionUri(th) ==
  /\ connection = "live"
  /\ Begins(th, "connection_uri", "uri_cache", None, None)
  /\ UNCHANGED <<connection, runtime, cache, uri, strings, pointer, tables, queries, target, holders>>

(* Mutant: each call replaces the cached string by a new one.              *)
FindUriRenewed(th) ==
  /\ At(th, "connection_uri", "uri_cache") /\ cache = "set"
  /\ \E s \in Strings \ strings :
       /\ strings' = (strings \ {uri}) \cup {s}
       /\ uri' = s
       /\ pointer' = [pointer EXCEPT ![th] = s]
  /\ Returns(th)
  /\ UNCHANGED <<connection, runtime, cache, tables, queries, target, holders>>

FindUri(th) ==
  /\ At(th, "connection_uri", "uri_cache") /\ cache = "set"
  /\ pointer' = [pointer EXCEPT ![th] = uri]
  /\ Returns(th)
  /\ UNCHANGED <<connection, runtime, cache, uri, strings, tables, queries, target, holders>>

ClaimUri(th) ==
  /\ At(th, "connection_uri", "uri_cache") /\ cache = "empty"
  /\ cache' = "running"
  /\ GoesTo(th, "new string")
  /\ UNCHANGED <<connection, runtime, uri, strings, pointer, tables, queries, target, holders>>

(* Mutant: a URI with an inner NUL is given up, and tried again.           *)
MakeUriRetried(th) ==
  /\ At(th, "connection_uri", "new string")
  /\ \/ /\ \E s \in Strings \ strings :
             /\ strings' = strings \cup {s}
             /\ uri' = s
             /\ pointer' = [pointer EXCEPT ![th] = s]
        /\ cache' = "set"
        /\ Returns(th)
     \/ /\ cache' = "empty"
        /\ GoesTo(th, "uri_cache")
        /\ UNCHANGED <<uri, strings, pointer>>
  /\ UNCHANGED <<connection, runtime, tables, queries, target, holders>>

(* A URI with an inner NUL is cached as "invalid_uri", like any other.     *)
MakeUri(th) ==
  /\ At(th, "connection_uri", "new string")
  /\ \E s \in Strings \ strings :
       /\ strings' = strings \cup {s}
       /\ uri' = s
       /\ pointer' = [pointer EXCEPT ![th] = s]
  /\ cache' = "set"
  /\ Returns(th)
  /\ UNCHANGED <<connection, runtime, tables, queries, target, holders>>

(* The client forgets the string's address when it frees the connection.   *)
ConnectionFree ==
  /\ connection = "live"
  /\ \A th \in Threads : call[th].op \notin {"connection_uri", "open_table"}
  /\ connection' = "none"
  /\ strings' = strings \ {uri}
  /\ uri' = None /\ cache' = "empty"
  /\ pointer' = [th \in Threads |-> None]
  /\ UNCHANGED <<runtime, tables, queries, target, holders, call>>

-----------------------------------------------------------------------------
(* Tables.                                                                 *)

OpenTable(th) ==
  /\ connection = "live"
  /\ Begins(th, "open_table", "RUNTIME", None, None)
  /\ UNCHANGED <<connection, runtime, cache, uri, strings, pointer, tables, queries, target, holders>>

TableOpened(th) ==
  /\ At(th, "open_table", "block_on")
  /\ \/ \E t \in Tables \ tables :
          /\ holders[t] = {}
          /\ tables' = tables \cup {t}
          /\ holders' = [holders EXCEPT ![t] = {<<"table", t>>}]
     \/ UNCHANGED <<tables, holders>>
  /\ Returns(th)
  /\ UNCHANGED <<connection, runtime, cache, uri, strings, pointer, queries, target>>

(* One of the calls that borrow the table while they wait.                 *)
CountRows(th, t) ==
  /\ t \in tables
  /\ Begins(th, "count_rows", "RUNTIME", t, None)
  /\ UNCHANGED <<connection, runtime, cache, uri, strings, pointer, tables, queries, target, holders>>

RowsCounted(th) ==
  /\ At(th, "count_rows", "block_on")
  /\ Returns(th)
  /\ UNCHANGED <<connection, runtime, cache, uri, strings, pointer, tables, queries, target, holders>>

TableFree(t) ==
  /\ t \in tables
  /\ \A th \in Threads : call[th].op = "count_rows" => call[th].table # t
  /\ tables' = tables \ {t}
  /\ holders' = [holders EXCEPT ![t] = @ \ {<<"table", t>>}]
  /\ UNCHANGED <<connection, runtime, cache, uri, strings, pointer, queries, target, call>>

-----------------------------------------------------------------------------
(* Queries and their results.                                              *)

Gone(q) ==
  /\ queries' = [queries EXCEPT ![q] = "none"]
  /\ target' = [target EXCEPT ![q] = None]

(* Mutant: the query borrows the table instead of cloning it.              *)
QueryNewBorrows(q, t) ==
  /\ queries[q] = "none" /\ t \in tables
  /\ queries' = [queries EXCEPT ![q] = "query"]
  /\ target' = [target EXCEPT ![q] = t]
  /\ UNCHANGED <<connection, runtime, cache, uri, strings, pointer, tables, holders, call>>

QueryNew(q, t) ==
  /\ queries[q] = "none" /\ t \in tables
  /\ queries' = [queries EXCEPT ![q] = "query"]
  /\ target' = [target EXCEPT ![q] = t]
  /\ holders' = [holders EXCEPT ![t] = @ \cup {<<"query", q>>}]
  /\ UNCHANGED <<connection, runtime, cache, uri, strings, pointer, tables, call>>

(* The call owns the query from here on, and drops it when it returns.     *)
QueryExecute(th, q) ==
  /\ queries[q] = "query"
  /\ Begins(th, "query_execute", "RUNTIME", target[q], q)
  /\ queries' = [queries EXCEPT ![q] = "taken"]
  /\ UNCHANGED <<connection, runtime, cache, uri, strings, pointer, tables, target, holders>>

(* Mutant: the stream borrows the dataset of the query, which is dropped.  *)
QueryExecutedBorrows(th) ==
  /\ At(th, "query_execute", "block_on")
  /\ LET q == call[th].query IN
       \/ queries' = [queries EXCEPT ![q] = "returning"]
       \/ UNCHANGED queries
  /\ GoesTo(th, "drop")
  /\ UNCHANGED <<connection, runtime, cache, uri, strings, pointer, tables, target, holders>>

(* The stream of results keeps the dataset on its own.                     *)
QueryExecuted(th) ==
  /\ At(th, "query_execute", "block_on")
  /\ LET q == call[th].query  t == call[th].table IN
       \/ /\ queries' = [queries EXCEPT ![q] = "returning"]
          /\ holders' = [holders EXCEPT ![t] = @ \cup {<<"result", q>>}]
       \/ UNCHANGED <<queries, holders>>
  /\ GoesTo(th, "drop")
  /\ UNCHANGED <<connection, runtime, cache, uri, strings, pointer, tables, target>>

(* Mutant: the query is dropped only when there is a result.               *)
QueryDroppedOnSuccess(th) ==
  /\ At(th, "query_execute", "drop")
  /\ LET q == call[th].query  t == call[th].table IN
       \/ /\ queries[q] = "returning"
          /\ queries' = [queries EXCEPT ![q] = "result"]
          /\ holders' = [holders EXCEPT ![t] = @ \ {<<"query", q>>}]
          /\ UNCHANGED target
       \/ queries[q] = "taken" /\ Gone(q) /\ UNCHANGED holders
  /\ Returns(th)
  /\ UNCHANGED <<connection, runtime, cache, uri, strings, pointer, tables>>

QueryDropped(th) ==
  /\ At(th, "query_execute", "drop")
  /\ LET q == call[th].query  t == call[th].table IN
       /\ \/ /\ queries[q] = "returning"
             /\ queries' = [queries EXCEPT ![q] = "result"]
             /\ UNCHANGED target
          \/ queries[q] = "taken" /\ Gone(q)
       /\ holders' = [holders EXCEPT ![t] = @ \ {<<"query", q>>}]
  /\ Returns(th)
  /\ UNCHANGED <<connection, runtime, cache, uri, strings, pointer, tables>>

QueryResultToArrow(th, q) ==
  /\ queries[q] = "result"
  /\ Begins(th, "query_result_to_arrow", "RUNTIME", target[q], q)
  /\ queries' = [queries EXCEPT ![q] = "taken"]
  /\ UNCHANGED <<connection, runtime, cache, uri, strings, pointer, tables, target, holders>>

(* The stream is read to its end, or to an error, and dropped.             *)
ResultCollected(th) ==
  /\ At(th, "query_result_to_arrow", "block_on")
  /\ LET q == call[th].query  t == call[th].table IN
       /\ Gone(q)
       /\ holders' = [holders EXCEPT ![t] = @ \ {<<"result", q>>}]
  /\ Returns(th)
  /\ UNCHANGED <<connection, runtime, cache, uri, strings, pointer, tables>>

(* query_free and query_result_free.                                       *)
QueryFree(q) ==
  /\ queries[q] \in {"query", "result"}
  /\ holders' = [holders EXCEPT ![target[q]] = @ \ {<<queries[q], q>>}]
  /\ Gone(q)
  /\ UNCHANGED <<connection, runtime, cache, uri, strings, pointer, tables, call>>

-----------------------------------------------------------------------------
(* The code runs a call to its end; which calls are made, and when handles *)
(* are freed, is up to the client.                                         *)
Runs(th) ==
  \/ FindRuntime(th) \/ ClaimRuntime(th) \/ MakeRuntime(th)
  \/ Connected(th) \/ FindUri(th) \/ ClaimUri(th) \/ MakeUri(th)
  \/ TableOpened(th) \/ RowsCounted(th)
  \/ QueryExecuted(th) \/ QueryDropped(th) \/ ResultCollected(th)

StartsCall(th) ==
  \/ ConnectBuilderExecute(th) \/ ConnectionUri(th) \/ OpenTable(th)
  \/ \E t \in Tables : CountRows(th, t)
  \/ \E q \in Queries : QueryExecute(th, q) \/ QueryResultToArrow(th, q)

Frees ==
  \/ ConnectionFree
  \/ \E t \in Tables : TableFree(t)
  \/ \E q \in Queries : QueryFree(q)

Next ==
  \/ \E th \in Threads : Runs(th) \/ StartsCall(th)
  \/ \E q \in Queries, t \in Tables : QueryNew(q, t)
  \/ Frees

(* A thread inside a call is scheduled again: the operating system runs    *)
(* it, lancedb answers, and OnceLock wakes those who wait for a value.     *)
Spec == Init /\ [][Next]_vars /\ \A th \in Threads : WF_vars(Runs(th))

-----------------------------------------------------------------------------
(* Properties.                                                             *)

(* All threads get one and the same string, which lives until the          *)
(* connection is freed, and then goes with it.                             *)
UriIsShared ==
  /\ \A th \in Threads : pointer[th] # None => pointer[th] = uri /\ uri \in strings
  /\ strings \subseteq {uri}
  /\ connection = "none" => strings = {}

(* A cell that is being initialised has one thread at work on its value, so*)
(* whoever waits for the runtime or for the URI waits for a thread that is *)
(* in its initialiser, and each value is made once; and no call gets to    *)
(* lancedb before there is a runtime to wait on.                           *)
OneMaker(cell, step) ==
  /\ cell = "running" <=> \E th \in Threads : call[th].step = step
  /\ \A th, other \in Threads :
       call[th].step = step /\ call[other].step = step => th = other

MakersAreAlone ==
  /\ OneMaker(runtime, "new runtime")
  /\ OneMaker(cache, "new string")
  /\ \A th \in Threads : call[th].step \in {"block_on", "drop"} => runtime = "set"

(* A call that reads a table while it waits finds its dataset alive,       *)
(* whatever handles the other threads free meanwhile.                      *)
ReadsAreLive ==
  \A th \in Threads :
    call[th].table # None /\ call[th].step # "drop" => holders[call[th].table] # {}

(* A dataset is kept by the live handles, queries and results of its table *)
(* and by nothing else: it is dropped with the last of them, on the error  *)
(* paths of the calls too.                                                 *)
HeldBy(t) ==
  {<<"table", u>> : u \in tables \cap {t}}
    \cup {<<"query", q>> : q \in {p \in Queries : target[p] = t /\
            (queries[p] = "query" \/ \E th \in Threads : call[th].op = "query_execute" /\ call[th].query = p)}}
    \cup {<<"result", q>> : q \in {p \in Queries : target[p] = t /\
            (queries[p] \in {"result", "returning"}
               \/ \E th \in Threads : call[th].op = "query_result_to_arrow" /\ call[th].query = p)}}

HoldersAreReal == \A t \in Tables : holders[t] = HeldBy(t)

(* Every call returns: no thread waits for ever for the runtime or for the *)
(* URI, whichever thread makes them.                                       *)
EveryCallReturns == \A th \in Threads : call[th] # Idle ~> call[th] = Idle
=============================================================================
