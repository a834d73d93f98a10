------------------------------- MODULE Handles -------------------------------
(***************************************************************************)
(* The ownership protocol of the C API (include/lancedb.h).                *)
(*                                                                         *)
(* Every object that crosses the boundary is a raw pointer: a Rust Box     *)
(* turned into a pointer (Box::into_raw), a malloc'ed array, a CString or  *)
(* an Arrow C structure.  The library frees what a call takes over         *)
(* (Box::from_raw); the caller frees the rest.  Both sides keep their own  *)
(* account, and nothing but the documented contract keeps them in step.    *)
(*                                                                         *)
(* This module holds the two accounts and the shapes every entry point     *)
(* shares; ConnectionApi, TableApi, ExprApi and QueryApi hold the entry    *)
(* points, and LanceDB composes them.                                      *)
(***************************************************************************)
EXTENDS FiniteSets

CONSTANTS
  Id,         \* addresses an object can have; an address is reused once freed
  NULL,       \* the null pointer
  Calls,      \* the entry points this client calls
  BadInputs   \* which kinds of bad input this client passes, see InputFaults

(* "argument": a null pointer, or a string that is not UTF-8;              *)
(* "schema": an Arrow schema Rust cannot import; "array": an Arrow array   *)
(* that does not fit its schema; "provider": a provider whose inner is     *)
(* None; "listOnly": in_list elements without the expression to check;     *)
(* "scheme": a URL scheme that is not UTF-8, with a provider;              *)
(* "nulText": a backend error whose text holds a NUL byte.                 *)
InputFaults == {"argument", "schema", "array", "provider", "listOnly", "scheme",
                "nulText"}

ASSUME NullAssumption == NULL \notin Id
ASSUME InputAssumption == BadInputs \subseteq InputFaults

Free == "free"

Kind == {"ConnectBuilder", "Connection", "NamesBuilder", "Session", "Registry",
         "Provider", "TableNames", "Namespaces", "Table", "Reader", "ArrowArray",
         "Schema", "Arrays", "Versions", "VersionMetadata", "Metadata", "Indices",
         "Expr", "Matches", "Query", "VectorQuery", "Result", "Message"}

(* LanceDBError, reduced to what a caller's ownership decision can depend  *)
(* on; Null is the null pointer returned by the entry points that have no  *)
(* error code.                                                             *)
ReturnCode == {"Success", "InvalidArgument", "InvalidInput", "IndexNotFound",
               "Error", "Null"}

VARIABLES
  heap,     \* what lives at each address: a kind, or Free
  owned,    \* the addresses the client holds itself responsible for
  message,  \* the client's `char *error_message`: NULL, or a string to free
  call      \* the last call, as the client saw it return

vars == <<heap, owned, message, call>>

Live == {i \in Id : heap[i] # Free}

TypeOK ==
  /\ heap \in [Id -> Kind \cup {Free}]
  /\ owned \subseteq Id
  /\ message \in Id \cup {NULL}
  /\ call \in [fn : Calls \cup {"none"}, rc : ReturnCode,
               given : SUBSET Id, slot : BOOLEAN]

Init ==
  /\ heap = [i \in Id |-> Free]
  /\ owned = {}
  /\ message = NULL
  /\ call = [fn |-> "none", rc |-> "Success", given |-> {}, slot |-> FALSE]

-----------------------------------------------------------------------------
(* What the client can pass.                                               *)

Handle(kind) == {i \in owned : heap[i] = kind}

Arg(kind) ==
  Handle(kind) \cup (IF "argument" \in BadInputs THEN {NULL} ELSE {})

(* Whether the strings and output pointers of a call pass its checks.      *)
ArgsPass == {TRUE} \cup (IF "argument" \in BadInputs THEN {FALSE} ELSE {})

(* Whether an input of the client has the given fault.                     *)
Faulty(fault) == {FALSE} \cup (IF fault \in BadInputs THEN {TRUE} ELSE {})

(* The entry points that reject null and non-UTF-8 arguments before they   *)
(* take their consuming argument.  A caller keeps the argument when such a *)
(* call returns InvalidArgument, as the tests do (tests/test_table.cpp:    *)
(* "Reader was not consumed due to error, must free it").  Every other     *)
(* consuming entry point takes its argument whatever it returns.           *)
ChecksFirst == {"registry_insert_provider", "table_create", "table_add",
                "record_batch_reader_from_arrow", "query_df_filter",
                "vector_query_df_filter", "query_result_to_arrow"}

Keeps(fn, rc) == fn \in ChecksFirst /\ rc = "InvalidArgument"

-----------------------------------------------------------------------------
(* The shapes of a call.  `given` are the pointers passed in consuming     *)
(* positions, `taken` those the code really takes over and frees, `made`   *)
(* the kinds it leaves allocated.                                          *)

Fresh(made) ==
  {new \in UNION {[S -> made] : S \in SUBSET (Id \ Live)} :
     /\ \A k \in made : \E i \in DOMAIN new : new[i] = k
     /\ \A i, j \in DOMAIN new : new[i] = new[j] => i = j}

(* heap: what the code takes is freed, what it makes is allocated.  owned: *)
(* the client gives up what the contract says the call consumed and picks  *)
(* up what a successful call returned.                                     *)
Exchange(fn, given, rc, taken, new) ==
  /\ heap' = [i \in Id |-> IF i \in DOMAIN new THEN new[i]
                           ELSE IF i \in taken THEN Free ELSE heap[i]]
  /\ owned' = (owned \ (IF Keeps(fn, rc) THEN {} ELSE given))
                \cup {i \in DOMAIN new : rc = "Success" \/ new[i] = "Message"}

(* Mutant: a null handle counts as an object of the call.                  *)
SucceedsWithNull(fn, given, taken, made) ==
  /\ fn \in Calls
  /\ call' = [fn |-> fn, rc |-> "Success", given |-> given, slot |-> FALSE]
  /\ \E new \in Fresh(made) : Exchange(fn, given, "Success", taken, new)
  /\ UNCHANGED message

(* The call returns LanceDBError::Success, or a pointer that is not null.  *)
Succeeds(fn, given, taken, made) ==
  /\ fn \in Calls
  /\ call' = [fn |-> fn, rc |-> "Success", given |-> given \ {NULL}, slot |-> FALSE]
  /\ \E new \in Fresh(made) : Exchange(fn, given \ {NULL}, "Success", taken, new)
  /\ UNCHANGED message

Nothing == [i \in {} |-> Free]

(* The call returns an error and leaves no string in *error_message.       *)
FailsSilently(fn, given, rc, taken, slot) ==
  /\ fn \in Calls
  /\ slot => message = NULL
  /\ call' = [fn |-> fn, rc |-> rc, given |-> given \ {NULL}, slot |-> slot]
  /\ Exchange(fn, given \ {NULL}, rc, taken, Nothing)
  /\ UNCHANGED message

(* Mutant: the message is allocated and never stored.                      *)
FailsMessageDropped(fn, given, rc, taken) ==
  /\ fn \in Calls
  /\ message = NULL
  /\ call' = [fn |-> fn, rc |-> rc, given |-> given \ {NULL}, slot |-> TRUE]
  /\ \E new \in Fresh({"Message"}) : Exchange(fn, given \ {NULL}, rc, taken, new)
  /\ UNCHANGED message

(* The call returns an error and, when the client passed the address of a  *)
(* free message pointer, stores a new CString there.                       *)
FailsWithMessage(fn, given, rc, taken) ==
  /\ fn \in Calls
  /\ message = NULL
  /\ call' = [fn |-> fn, rc |-> rc, given |-> given \ {NULL}, slot |-> TRUE]
  /\ \E new \in Fresh({"Message"}) :
       /\ Exchange(fn, given \ {NULL}, rc, taken, new)
       /\ message' \in DOMAIN new

(* CString::new rejects a text with a NUL byte: no message then.           *)
Fails(fn, given, rc, taken) ==
  \/ FailsSilently(fn, given, rc, taken, FALSE)
  \/ "nulText" \in BadInputs /\ FailsSilently(fn, given, rc, taken, TRUE)
  \/ FailsWithMessage(fn, given, rc, taken)

ReturnsNull(fn, given, taken) == FailsSilently(fn, given, "Null", taken, FALSE)

(* An entry point that only borrows its handles and returns no object.     *)
Borrows(fn, handles) ==
  \/ /\ NULL \notin handles
     /\ Succeeds(fn, {}, {}, {}) \/ Fails(fn, {}, "Error", {})
  \/ "argument" \in BadInputs /\ Fails(fn, {}, "InvalidArgument", {})

(* An entry point that borrows a handle and returns new objects, or none   *)
(* when there is nothing to return.                                        *)
Produces(fn, handles, made, mayBeEmpty) ==
  \/ /\ NULL \notin handles
     /\ \/ Succeeds(fn, {}, {}, made)
        \/ mayBeEmpty /\ Succeeds(fn, {}, {}, {})
        \/ Fails(fn, {}, "Error", {})
  \/ "argument" \in BadInputs /\ Fails(fn, {}, "InvalidArgument", {})

(* An entry point that replaces its argument by a new object, or consumes  *)
(* it and returns null.                                                    *)
Rebuilds(fn, given, made, ok) ==
  \/ ok /\ Succeeds(fn, given, given \ {NULL}, made)
  \/ ~ok /\ ReturnsNull(fn, given, given \ {NULL})

(* A free function: null is ignored.                                       *)
Frees(fn, kind) ==
  \E h \in Arg(kind) : Succeeds(fn, {h}, {h} \ {NULL}, {})

(* lancedb_free_string on the client's message, which it then resets.      *)
FreeString ==
  /\ "free_string" \in Calls
  /\ message # NULL
  /\ call' = [fn |-> "free_string", rc |-> "Success", given |-> {message}, slot |-> FALSE]
  /\ Exchange("free_string", {message}, "Success", {message}, Nothing)
  /\ message' = NULL

-----------------------------------------------------------------------------
(* Properties of the protocol.                                             *)

(* Nothing leaks and nothing dangles: what is allocated is exactly what    *)
(* the client knows it has to free.                                        *)
OwnedIsLive == owned = Live

(* The arguments that a call leaves with a caller who counts them as taken,*)
(* by the ill-formed input that it rejects before it takes them.           *)
MayLeak ==
  {k \in Kind : \/ "schema" \in BadInputs /\ k \in {"Reader", "ArrowArray"}
                \/ "scheme" \in BadInputs /\ k = "Provider"
                \/ "listOnly" \in BadInputs /\ k = "Expr"}

(* Whatever a client passes, the two accounts only drift apart where they  *)
(* must: what leaks is an argument that was rejected before it was taken,  *)
(* never a builder, a connection, a result or a message, and only a        *)
(* provider without inner is taken from a caller who still counts on it.   *)
DriftIsConfined ==
  /\ \A i \in Live \ owned : heap[i] \in MayLeak
  /\ owned \subseteq Live \/ "provider" \in BadInputs

(* The client's message pointer and the messages on the heap agree: no     *)
(* message is overwritten before it is freed, none is freed twice.         *)
MessageIsLive == {i \in Live : heap[i] = "Message"} = {message} \ {NULL}

(* No call takes some of its arguments and leaves the others: whatever a   *)
(* caller makes of an error, it goes for all the pointers it passed.       *)
TakesWhole == call'.given \subseteq Live' \/ call'.given \cap Live' = {}

TakesAllOrNothing == [][TakesWhole]_vars
=============================================================================
