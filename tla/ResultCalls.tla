----------------------------- MODULE ResultCalls ------------------------------
(***************************************************************************)
(* The loops of Results, seen from outside: each call that returns rows is *)
(* one entry point of LanceDB, a Produces of a table or a connection that  *)
(* the client keeps, and each free function is one of its Frees.           *)
(*                                                                         *)
(* An object of the API is what the client passes to one free function:    *)
(* the keys and the values of table metadata are freed by one call, every  *)
(* other part by a function of its own.                                    *)
(***************************************************************************)
EXTENDS Results

VARIABLE last   \* history: the last call that returned, as LanceDB records it

hvars == <<vars, last>>

(* list_versions is one entry point with and without metadata.             *)
EntryPoint ==
  [k \in Kind |->
     CASE k = "names"    -> "connection_table_names"
       [] k = "metadata" -> "table_get_metadata"
       [] k = "arrow"    -> "table_nearest_to"
       [] OTHER          -> "table_list_versions"]

ObjectOf ==
  [p \in Part |->
     CASE p = "names"    -> "TableNames"
       [] p = "versions" -> "Versions"
       [] p = "cells"    -> "VersionMetadata"
       [] p = "schema"   -> "Schema"
       [] p = "batches"  -> "Arrays"
       [] OTHER          -> "Metadata"]

FreeFunction ==
  [p \in Part |->
     CASE p = "names"    -> "free_table_names"
       [] p = "versions" -> "free_versions"
       [] p = "cells"    -> "free_version_metadata"
       [] p = "schema"   -> "free_arrow_schema"
       [] p = "batches"  -> "free_arrow_arrays"
       [] OTHER          -> "free_metadata"]

Objects(ps) == {ObjectOf[p] : p \in ps}

Returned(fn, code, given) == [fn |-> fn, rc |-> code, given |-> given, slot |-> FALSE]

(* A free function has returned when the last part of its object is gone.  *)
Remembers ==
  last' = CASE pc \in {"idle", "fill", "undo"} /\ pc' = "held" ->
                 Returned(EntryPoint[kind'], rc', {})
            [] pc = "free" /\ pc' = "held" /\ ObjectOf[part] \notin Objects(out') ->
                 Returned(FreeFunction[part], "Success", {ObjectOf[part]})
            [] OTHER -> last

HInit == Init /\ last = Returned("none", "Success", {})

HNext == Next /\ Remembers

HSpec == HInit /\ [][HNext]_hvars

-----------------------------------------------------------------------------
(* The state of LanceDB: what a running call has allocated is its own      *)
(* business.  The heap of the API is read off the blocks there are, the    *)
(* client's account off the pointers it holds.                             *)

Kept == {"Connection", "Table"}

Object == Kept \cup Objects(Part)

ClientRuns == pc \in {"idle", "held", "free"}

PartsOnHeap == {b[1] : b \in heap}

Allocated == Kept \cup (IF ClientRuns THEN Objects(PartsOnHeap) ELSE {})

Owned == Kept \cup (IF ClientRuns THEN Objects(out) ELSE {})

ApiHeap == [o \in Object |-> IF o \in Allocated THEN o ELSE "free"]

Api == INSTANCE LanceDB WITH
  Id        <- Object,
  NULL      <- "null",
  Calls     <- {EntryPoint[k] : k \in Kind} \cup {FreeFunction[p] : p \in Part},
  BadInputs <- {},
  heap      <- ApiHeap,
  owned     <- Owned,
  message   <- "null",
  call      <- last

(* The client begins with a connection and a table that it keeps.          *)
ClientIsReady == Api!TypeOK /\ Api!OwnedIsLive /\ Api!MessageIsLive

(* Each call that returns rows, with its allocations, its loops and its    *)
(* clean-up, has the effect of one step of the ownership protocol, and so  *)
(* has each free function: the client holds the objects of a whole result  *)
(* or none, and frees each of them once.                                   *)
ResultsAreCalls == ClientIsReady /\ [][Api!Next]_(Api!vars)
=============================================================================
