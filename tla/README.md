# A TLA+ model of lancedb-c

lancedb-c is a C interface, written in Rust, to the `lancedb` crate. The crate does the
database work; what this repository adds is the boundary: opaque handles turned into raw
pointers and back, results copied into malloc'ed arrays, errors turned into codes and
strings, configurations turned into builder calls, asynchronous operations run to completion
by `block_on`, and two small algorithms of its own (table metadata updates in `src/table.rs`,
JSON filtering in `src/json.rs`). What can go wrong here is therefore: who frees what on which
error path, half-built results that have to be undone, what concurrent threads see when they
share a handle, and whether the client's request and the reason of a failure survive the
crossing. That is what these modules model.

Paths below are relative to the repository root; "header" is `include/lancedb.h`.

## 1. Inventory

| Component | State | Operations | Talks to |
|---|---|---|---|
| Connection, builders, sessions, registries (`src/connection.rs`) | `LanceDBConnectBuilder`, `LanceDBConnection` (with a cached URI), `LanceDBSession`, `LanceDBObjectStoreRegistry`, `LanceDBObjectStoreProvider`, names builder | connect chain, session chain, open/create/drop/rename tables, list names and namespaces, free functions | `lancedb::Connection`, Tokio runtime |
| Table (`src/table.rs`) | `LanceDBTable`, `LanceDBRecordBatchReader`, Arrow C structures | add, merge_insert, delete, nearest_to, schema, versions, metadata | `lancedb::Table`, the dataset wrapper, Arrow FFI |
| Indices (`src/index.rs`) | configuration structs of the caller | create vector/scalar/FTS, list, drop, optimize, stats | `lancedb::index` |
| Queries (`src/query.rs`) | `LanceDBQuery`, `LanceDBVectorQuery` (fields set before execution), `LanceDBQueryResult` | new, setters, df_filter, execute, result_to_arrow, free | `lancedb::query`, Arrow FFI |
| Expressions (`src/expr.rs`, `src/json.rs`) | `LanceDBExpr` trees | leaves, combinators that consume operands, clone, json_matches | DataFusion |
| Errors (`src/error.rs`) | the caller's `char *error_message` | handle_error, set_*_message, free_string | every entry point |
| Runtime (`src/connection.rs:93`) | one Tokio runtime in a `OnceLock` | get_runtime | every awaiting entry point |
| run_on_stack (`src/connection.rs`) | the thread's stack limit (stacker crate) | run a callback on a grown stack | coroutines of the application |

Interaction is by direct call. Everything the caller passes is either borrowed or consumed;
everything it receives is owned by it until it is passed to the matching free function or
to a consuming call. Internally, a `Table` shares its dataset (`DatasetConsistencyWrapper`)
with every thread that uses the same handle; different handles of one table share only the
storage.

Hard behaviours:

* **Partial failure.** Most entry points have several returns. A consuming argument is taken
  before or after the checks, and the position of one `Box::from_raw` decides between a leak,
  a double free and neither. Nested allocations are undone by hand-written loops.
* **Interleaving.** `set_metadata` and `delete_metadata` read a snapshot, await a commit and
  store a new dataset in the handle; other threads run in both gaps.
* **Ordering.** Two commits through one handle may be installed in the opposite order.
* **Boundaries.** Row counts come from structures of the caller; their sum may overflow.
  Numbers of a configuration are C ints and floats, and become u32.
* **Lifetimes.** Two values are made once by racing threads (`OnceLock`); queries and results
  outlive the handles they were made from.
* **Lost variants.** lancedb folds several errors into one variant; the code recovers the cause
  from substrings of the text, in an order that matters.
* **Contract.** The header states who owns what; on error paths the code sometimes differs.

What makes each component correct, with the property that says so:

| Component | Property |
|---|---|
| ownership protocol | `OwnedIsLive`, `DriftIsConfined`, `MessageIsLive`, `TakesAllOrNothing` |
| header contract | the properties of `HeaderContract`, `SampleRateIsKept` and `MissingBucketIsTold` (which the code contradicts) |
| table metadata | `UpdatesAreAtomic`, `AckedIsSeen`, `ReadsOneFreshVersion` |
| results of many rows (names, versions, metadata, Arrow batches) | `AllOrNothing`, `FreesWhatIsThere`, `ResultsAreCalls` |
| JSON filter | `EveryRowIsAnswered`, `WritesInBounds`, `OnlyResultsRemain` |
| runtime, cached URI, shared handles | `MakersAreAlone`, `UriIsShared`, `ReadsAreLive`, `HoldersAreReal`, `CallsAreAtomic`, `EveryCallReturns` |
| query builders | `AsksWhatWasSet` |
| configurations | `ConfigIsHonoured`, `MergeIsMeant` |
| error codes | `CausesAreTold` |
| expressions, catalogue, external provider | their share of the ownership protocol |
| run_on_stack, build, examples | not modelled, see section 8 |

## 2. Modules

| Module | Models | Lines of the code |
|---|---|---|
| `Handles` | the heap, what the client owns, its error message, and the shapes of a call: succeeds, fails with/without message, borrows, produces, rebuilds, frees | `src/error.rs`, every handle type |
| `ConnectionApi`, `TableApi`, `ExprApi`, `QueryApi` | one action per entry point, with all its returns | `src/connection.rs`, `src/table.rs` + `src/index.rs`, `src/expr.rs` + `src/json.rs`, `src/query.rs` |
| `LanceDB` | their composition: any client using any entry points | |
| `HeaderContract` | sentences of the header and of `docs/index.rst` that the code contradicts | |
| `HandlesProofs` | proofs about `LanceDB` | |
| `AtomicMap` | abstract specification: metadata is one atomic map | |
| `TableMetadata` | the three metadata entry points, one action per step between awaits | `src/table.rs` |
| `TableMetadataProofs` | its invariants, and that it implements `AtomicMap` | |
| `Results` | a call that returns a result of many rows: its arrays, the fill loop, the clean-up loops, the free functions | `src/connection.rs`, `src/table.rs`, `src/index.rs`, `src/query.rs` |
| `ResultCalls` | the refinement mapping from `Results` to `LanceDB` | |
| `ResultsProofs` | its safety properties and the refinement, for results of any length | |
| `JsonMatches` | the counting and the evaluating pass over the batches | `src/json.rs` |
| `JsonMatchesProofs` | its safety properties for any number of batches of any length | |
| `SharedHandles` | threads that share a connection, tables, queries and results; the two `OnceLock` cells | `src/connection.rs`, `src/table.rs`, `src/query.rs` |
| `SharedHandlesProofs` | its safety properties for any number of threads and handles | |
| `SharedCalls` | the refinement mapping from `SharedHandles` to `LanceDB` | |
| `SharedCallsProofs` | the refinement, for any number of threads and handles | |
| `AbstractQuery` | abstract specification: a query is a set of clauses with one filter | |
| `QueryBuilder` | the fields of a query, the setters, the execution | `src/query.rs` |
| `Configs` | configuration structs to builder parameters | `src/index.rs`, `src/table.rs`, `src/connection.rs`, `src/types.rs` |
| `ErrorCodes` | `error_to_error_code` | `src/error.rs` |
| `Requests` | composes the last three: requests and the errors that answer them | |
| `RequestsProofs` | their safety properties, and that `QueryBuilder` implements `AbstractQuery` | |
| `MC*` | instances for TLC: sets of calls and numbers, symmetry | |

The modules that do not extend `Handles` open one kind of action of it (for instance
`TableSetMetadata`, `ConnectionTableNames` or `QuerySetter`, one atomic step there) and look
at the steps inside. For `Results` and `SharedHandles` this is a refinement: `ResultCalls` and
`SharedCalls` instantiate `LanceDB` with its state read off theirs, and show that what happens
inside a call cannot be told from that one step.

### From the code to `Handles`

* `heap` is the set of live objects. `Box::into_raw`, `CString::into_raw` and `malloc`
  put an object there; `Box::from_raw` and the free functions remove it. An address may be
  reused. A result made of several blocks (an array of names) is one object here, and
  `Results` looks inside.
* `owned` is the client's own account, kept by what it was told: it gives up what a call
  consumes and receives what a successful call returns. The client follows the header except
  where the header and the code disagree; there it follows the tests, for instance that a
  call which rejects its arguments (`InvalidArgument`) has not taken them
  (`tests/test_table.cpp:372`). That reading is the operator `Keeps`.
* `message` is the client's `char *error_message`. A client passes the address of a null
  variable or no address, and frees the message before it passes the variable again.
* `call` is a history variable: the last entry point, its code, its consumed arguments, and
  whether an error message was asked for. Only `HeaderContract` and `TakesAllOrNothing`
  read it.
* `BadInputs` says how badly the client behaves: `"argument"` covers null pointers and strings
  that are not UTF-8; the others are inputs that fail deeper inside a call. A client without
  them still meets every backend error.

Formatting of messages and the meaning of a query are abstracted away.

### From the code to the others

* `TableMetadata`: `log` is the table's history (the metadata of each version), `seen[h]` the
  version inside the dataset wrapper of handle `h`, `pc` the await a thread is at. `acked` and
  `floor` are history variables that only the properties read. Three operations belong to
  the lancedb and lance crates and are modelled by how this code relies on them: `get()`
  returns the handle's version or a newer one; `update_metadata()` applies the entries to the
  newest version or fails; `update()` never moves the handle backwards.
* `Results`: the entry points that return many rows share one shape. A result has *parts*
  (the arrays the client gets pointers to): one for names (tables, namespaces, indices), one
  or two for versions (with or without their metadata), two for table metadata, two for a
  query result or `nearest_to` (`*schema_out` is stored before the batches are allocated).
  `kind` picks the call. The call allocates its arrays in the code's order; the arrays of
  keys and of values are asked for together and either may be missing. `i` is the loop
  variable of the running loop, `made` how many rows were complete when the call gave up.
  Of a row the model keeps what decides a branch: an inner NUL byte (no `CString`), or no
  metadata entries (a cell of null pointers). `heap` holds blocks: the array of a part and
  the memory of each of its rows.
* `ResultCalls`: an object of the API is what one free function takes, so the keys and the values
  of table metadata are one. While a call runs, its blocks are its own business; between calls
  the heap of the API is read off `heap` and the client's account off `out`. `last` is a history
  variable, the call that returned last. The client keeps the connection and the table.
* `JsonMatches`: a row is the truth value of the filter on it, a batch its rows or one of the
  two defects the code rejects (null pointer, negative length). `MaxUsize` is the largest
  `usize`; the run sets it to 3, so that two batches of two rows overflow it.
* `SharedHandles`: `call[th]` is the entry point a thread is in and where it is: at a `OnceLock`,
  in its initialiser, in `block_on`, or dropping what it took. `holders[t]` is the set of owners
  of the `Arc` of a table's dataset: the handle, the clone inside a query, the stream inside a
  result. There is one connection at a time, and `count_rows` stands for all entry points that
  borrow a table while they wait: they differ in what they ask lancedb, not in what they hold.
  The client keeps the header's contract and frees no handle that a running call borrows.
* `SharedCalls`: a call takes effect when it returns (`connect`, which allocates the builder and
  waits for nothing, when `connect_builder_execute` begins). Until then the client counts what it
  passed as its own. The heap of the API is read off `holders`: a table, a query or a result is
  there as long as it keeps its dataset, so a call that dropped the wrong dataset, or forgot one,
  would not be a step of the protocol. URI strings are borrowed and no objects of the protocol;
  the batches that a result is read into are `ResultCalls`'s.
* `QueryBuilder`: a field is unset or has a value; `select` reads the caller's array name by name
  and may stop in the middle. `where_filter` and `df_filter` have a field each; which of the two an
  execution sends is part of `Built`. The refinement maps the two fields to the one filter the
  client sees.
* `Configs`: pure operators from a struct to the parameters set on lancedb's builder. Rates
  are counted in halves, so that 0.5 exists; `MaxU32` stands for 2^32 - 1.
* `ErrorCodes`: an error is its variant, the variant of the lance error it wraps, and the markers
  its text contains: those that tell its cause, and those that a name or a path quoted in the text
  happens to contain. `Raised(cause)` is external: how lancedb reports a cause, read from the
  comments and tests of `src/error.rs`. The text of every error, with or without a marker of its
  own, may quote any subset of `Quotable`.
* `Requests`: one call at a time; `given` is what the client passed, `asked` what lancedb is
  asked, `failure` what went wrong in lancedb and the error raised for it. `LancedbAnswers` is the
  return of `block_on`, `HandleError` what is made of an error, `GoesOn` the client that has read
  the code.

## 3. Runs

| Run | Instance | Shows |
|---|---|---|
| `api` | 4 addresses, every entry point, null and ill-formed arguments, error texts with a NUL byte | on every path what is allocated is what the client has to free; an error message is freed once |
| `faults` | 4 addresses, all kinds of bad input, the calls that react to them | no call takes some of its arguments and leaves the others; what leaks is an argument rejected before it was taken |
| `metadata` | 2 threads, 2 local handles and a remote one, 2 keys, 1 value, 3 versions | updates implement `AtomicMap`; reads are one version and fresh; no handle falls behind |
| `results` | up to 4 rows of each kind, any allocation and any row failing | all or nothing, and each block freed once, in whatever order the client frees the parts; the calls that return rows, and the functions that free them, are steps of `LanceDB` |
| `json` | up to 3 batches of up to 2 rows, `usize` up to 3 | every row is answered in its cell; no write past the end; nothing left after an error |
| `shared` | 2 threads, 1 table, 2 queries with their results, 2 string addresses | one thread makes each value; one URI string; no read of a dropped dataset, none kept for nothing; the overlapping calls are whole steps of `LanceDB` in some order; every call returns |
| `requests` | 2 fields of each kind of query, 2 values, lists of up to 2 columns, one filter of each kind; configurations with ints -1, 0, 2 and rates NaN, -0.5, 0, 0.5, 1.5, 10; every cause of an error, with any markers in the names and paths it quotes | lancedb is asked for exactly the parameters that were set; errors come back as the codes of their causes, or as what a quoted marker stands for that is looked for first |

Why the bounds are enough. An entry point takes or makes at most three objects (`expr_in_list`
takes its expression and its list; two elements already put one element before another, and
its loop treats all alike), so four addresses leave room for an error message or for an
object the call has nothing to do with; an address is freed and reused within one history.
The runs `api` and `faults` have a VIEW that leaves out `call`, and `results` and `shared` one that
leaves out `last`: no action reads these history variables, so states that differ only in their
last call have the same future. The action property of `faults` looks at `call` after the step
only, and so do the refinements at `last` (or the step leaves it as it was); fairness and
`EveryCallReturns` do not mention it. Two threads and three versions are what it takes for two
commits to be installed in the opposite order while the handle still holds the first version.
Four rows give a clean-up loop of several rows before the bad one and rows never reached
after it. Two threads that share handles let one wait at a `OnceLock` while the other is in its
initialiser, and let both run a call on one table, each with a query of its own, while the
client frees the table; the table is opened again once nothing holds it.
How many threads wait at a cell makes no difference to `MakersAreAlone`, which is proved. Two
values and two columns make an overwritten clause differ from the one before, and a column
list fail after its first name; the ints lie on both sides of every comparison in the code,
and the rates include one that a cast makes 0 and one above `MaxU32`. Of the seven markers a text
may quote five, one of each kind that `error_to_error_code` distinguishes: the three that mean
missing privileges are treated alike. The theorems of section
6 remove the bounds.

All constants that bound a run are named in the module that declares them: `MaxVersion`
(TableMetadata), `MaxRows` (Results), `MaxRows`, `MaxBatches` and `MaxUsize` (JsonMatches),
`MaxColumns` (QueryBuilder), `MaxU32` (Configs); in `Handles` the set `Id` of addresses, in
`SharedHandles` the sets of threads, tables, queries and strings are the bound. Symmetry is
used for addresses, threads and keys, never in a run with a liveness property.

Each property has a mutant of the code it is about, next to the definition it mutates
(marked "Mutant"): a dropped check, an off-by-one, a forgotten free. The property is
violated when the mutant takes the place of the definition.

## 4. Where the documents and the code disagree

Five runs find a violation of what the header, the guide or a comment says; `doc_kept` stands for
two such sentences.

| Run | The document says | The code does |
|---|---|---|
| `doc_kept` | the connect builder is consumed on success (header); after a failed `from_arrow` the caller releases the array (guide) | the builder is consumed in every case; the array was released if it could not be imported |
| `hdr_consumes` | create, add, df_filter, to_arrow, insert_provider and in_list consume their argument | not when they reject an argument first |
| `hdr_message` | after an error the message must be freed | index_stats sets none for a missing index |
| `hdr_sample_rate` | a sampling rate of 0.0 is the default, a float is a rate | a rate between 0 and 1 is cast to 0 |
| `doc_bucket` | NoSuchBucket marks a missing object (comment) | not if the text also contains AccessDenied, for instance in the path |

`hdr_consumes` is run with `table_add` and the two calls that make a reader for it, and its trace
is `table_add` with a null table. Put the entry points of another sentence into `Calls` and the same
property is violated by each: `table_create` with a null argument, or (with `"schema"` in `BadInputs`)
with a schema that cannot be imported; df_filter without a query; to_arrow without an output
pointer; insert_provider with a null argument or (`"scheme"`) a bad scheme; in_list (`"listOnly"`)
without an expression. Whether a failed call has taken its argument thus cannot be read off
the header, and the tests decide it by the error code.

The first three concern what a caller should do on an error path, and most are repaired by a
sentence in the header. `hdr_sample_rate` concerns a correct call: `sample_rate` as a fraction cannot
be passed on to a builder that counts samples per partition. `doc_bucket` is the price of telling
causes by substrings: `CausesAreTold` says exactly which quoted markers mislead which causes. A
missing bucket is the case where the text carries the marker of its own cause and loses it.

No document contradicts a last peculiarity, which `SearchIsHonoured` therefore states as it is:
`create_fts_index` fails for a language there is not, but passes over a language or a tokenizer that is
not UTF-8, and makes the index with the default (`src/index.rs:393`, `src/index.rs:399`).

## 5. Fairness

Safety is checked without relying on fairness. One liveness property is checked, under weak
fairness of "thread t does the next step of its running call"; nothing makes a thread start a call.

`EveryCallReturns` of `SharedHandles` (`WF_vars(Runs(th))`, in its `Spec` and in the `HSpec` of
`SharedCalls` that the run checks). The code justifies it: `block_on` polls a call to its end, the
storage answers every request with success or an error, `OnceLock` wakes the threads that wait for
a value once it is set, and a runtime that cannot be made ends the process. The mutant
`MakeRuntimePoisoned` leaves the cell unset after a failed initialiser, and every waiting thread
waits for ever. So the property does not follow from the fairness alone: threads do wait for each
other. Its safety half is `MakersAreAlone`: whoever waits at a cell waits for exactly one thread, which
is in the initialiser. It is proved for any number of threads; that this thread goes on is the
fairness.

`TableMetadata` has no liveness property: no step of its calls waits for another thread, so that they
return would be the fairness itself. That no guard of the dataset lives across an await
(`(*ds.get().await?).clone()`) is read off the code and is why its steps have no lock.

## 6. Proofs

The theorems hold for every value of the constants, under the assumptions that the modules
name: `NullAssumption`, `InputAssumption` (Handles), `HandleAssumption`, `KeyAssumption`,
`VersionAssumption`, `AbsentAssumption` (TableMetadata), `MaxRowsAssumption` (Results),
`BoundAssumption` (JsonMatches), `NoneAssumption` (SharedHandles), `QueryAssumption` (QueryBuilder),
`ConfigAssumption` (Configs) and `RequestAssumption` (Requests). They say that the values which
stand for "nothing" are none of the others, and that bounds are natural numbers.

* `HandlesProofs`. The inductive invariant is `TypeOK`, `MessageIsLive` and `DriftIsConfined`, for
  every choice of `BadInputs`. They need each other: what a call takes has to be live unless the
  client lost count of it by an input of its own making, and a message that is freed must be
  neither leaked nor taken. Each shape of `Handles` has a lemma that says under which conditions
  it preserves the invariant and takes all or nothing; each of the roughly eighty entry points
  then is a case that checks these conditions. Theorems: `TypeCorrect`, `MessagesAreFreedOnce`,
  `OnlyRejectedArgumentsLeak`, and the action property `CallsTakeAllOrNothing`.
  `NothingLeaksNothingDangles` is what `DriftIsConfined` says when nothing may leak: for a client
  that is `WellFormed`, which excludes schemas that cannot be imported, bad schemes, providers
  without inner and lists without an expression, and nothing else. The hypothesis cannot be
  dropped: with any of these inputs a caller that follows the tests' reading drifts from what
  is on the heap, and `DriftIsConfined` says by how much.
* `TableMetadataProofs`. The invariant adds to the type that a thread's snapshot is no older
  than what its handle had acknowledged when the call began, that `acked` never exceeds
  `seen`, and that an update that is to be installed has a version of the log. `AckedIsSeen`
  alone is not inductive: that a later read is fresh depends on the thread's `base` and `floor`.
  `MetadataIsAtomic` is the step simulation of `AtomicMap`: `Commit` is the instant at which an
  update takes effect, whatever version the snapshot was.
* `ResultsProofs`. The invariant says what the heap holds at each program point: the arrays so
  far, the complete rows before `i` while filling, the rows from `i` to `made` while undoing,
  the parts still held and the rest of the one being freed. The clean-up and free loops then
  touch nothing else, for results of any length. `CallsImplementTheProtocol` is the refinement: by
  the invariant the parts on the heap between calls are those in `out`, so a clean-up ends where
  the protocol's failed call ends, and the last block of an object goes with the step `Frees`.
* `JsonMatchesProofs`. The two passes meet only through `total`, a sum; the invariant carries a
  function from a batch to the rows up to its end, which each turn of the counting pass
  extends by one batch, together with the fact that it is monotone. The evaluating pass is
  always at one of its values, so a batch ends where its rows were counted and the last one
  at `total`. Carrying the function in the invariant is what makes the sum provable without
  an induction over the list of batches.
* `SharedHandlesProofs`. First the type with `CallsMatch` (which call may be at which step, a query
  taken by a call is that call's alone). Then `MakersAreAlone`, inductive together with the type: a
  thread enters an initialiser only through an empty cell. Then `UriFits` (the string and the
  cell agree at every step of the racing initialisers), and `HoldersFit`: for each table exactly who
  holds its dataset, queries and results included while a call owns them. `ReadsAreLive` follows:
  a call that waits is itself, or borrows, one of the holders.
* `SharedCallsProofs`. The invariant is that of `HoldersFit` with `Open` (no connection is freed under
  a call that opens a table through it). From it, what is allocated is what the client owns, at
  every step of every call (`AllocatedIsOwned`), so that a step of the protocol is settled by what
  the client gives and gets (`Moves`). Then each step inside a call leaves what is owned as it is,
  and each return moves what its entry point moves. `SharedCallsAreAtomic` needs no symmetry or
  order between threads: a query taken by a call is that call's alone, and so is its return.
* `RequestsProofs`. `QueriesAskWhatWasSet` is a refinement: under the invariant `QueryFits` (the
  names read so far are those of the caller's array; the fields a kind of query does not have
  are unset) every step of the builder is a step of `AbstractQuery` or a stutter. `MergesAreMeant` and
  `ConfigurationsAreHonoured` fix what `asked` is for what was `given`, by a case for each call: the
  set of parameters of a trained or full-text index, then each of them; the conversions to u32 are
  proved for every int and rate. `ErrorsTellTheirCause` fixes what `code` is for what was raised: for
  every cause, every variant that may carry it and every set of quoted markers, which marker
  decides (`NotFoundDecides`, `StorageDecides`), and that one which is not the cause's was quoted.

The invariants that runs check are all proved, as are the action property and the four refinements
(`UpdatesAreAtomic`, `AsksWhatWasSet`, `ResultsAreCalls`, `CallsAreAtomic`). Only model-checked: liveness
(`EveryCallReturns`), since ENABLED and fairness are out of the prover's reach.
`OwnedIsLive` is proved for `WellFormed` clients and is false for others, for whom
`DriftIsConfined` is what holds.

## 7. Assumptions about what is outside

* The allocator fails visibly where the code looks (`malloc` returns null) and aborts where it
  does not (`Box`, `CString`, `Vec`); an abort ends the program.
* A Rust panic ends the process at the C boundary.
* An update that fails has not changed the table. If a storage reports an error for a commit it
  made, `UpdatesAreAtomic` is not what the caller observes.
* The application does not use one handle in two threads while it frees it; the header asks for
  that, and Rust's types say which handles may be shared (`Table` and `Connection` are).
* Objects borrowed across a call (a provider's inner pointer, user data) stay valid.
* lancedb reports a cause in one of the ways `Raised` lists, with any names and paths in the text.

## 8. Not modelled

* What a query, an expression or an index does: the lancedb, lance and DataFusion crates.
* Formatting of messages, field values, Arrow buffers, layout of the C structures;
  `lancedb_error_to_message`, a table of constants.
* `lancedb_run_on_stack`: one call into the stacker crate, which keeps the stack limit of the
  thread. This library has no state there.
* Paging through table names (`limit`, `start_after`) against concurrent changes: the code passes
  both to lancedb and keeps nothing between pages; what a page contains is lancedb's.
* The `unwrap` on the conversion of a schema in `table_arrow_schema`: a panic ends the process
  and leaves no state to check.
* Build files, tests, examples: read for the intended use of the API, no logic of the library.

## 9. Plan

Done: the ownership protocol, the header's contract, table metadata with its refinement, results
of many rows, the JSON filter, shared handles with the two `OnceLock` cells, the query builder with
its refinement, configurations, error codes; the invariants of all of them proved; the calls of
`Results` and of `SharedHandles` shown to be steps of `LanceDB`.

What may follow, if the code grows:

1. The async variants of an entry point, should `block_on` be replaced by callbacks: `SharedHandles`
   has the places where a call would then be split.
2. Cursors over table names, if the builder ever keeps a position between pages.
3. The same refinement for `JsonMatches` and `TableMetadata`, should their calls come to own more than
   one object: today the first makes one array and the second none.
