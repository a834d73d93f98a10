------------------------------- MODULE Requests -------------------------------
(***************************************************************************)
(* What lancedb is asked for, and how its errors come back: a client that  *)
(* builds and executes queries (QueryBuilder) and makes the calls that     *)
(* take a configuration (Configs), whose errors become codes (ErrorCodes). *)
(***************************************************************************)
EXTENDS QueryBuilder, Configs, ErrorCodes

CONSTANTS
  Ints,        \* what the client writes into the int fields
  Rates,       \* what it writes into sample_rate, in halves
  Tokenizers,  \* texts for base_tokenizer
  Languages,   \* the languages there are
  Unspoken,    \* and one there is not
  Sizes        \* of caches

(* Ints and rates are numbers of their C types, or no number; a condition  *)
(* or a language is told from what stands for none and from what is none.  *)
ASSUME RequestAssumption ==
  /\ \A n \in Ints : n \in Int /\ n <= MaxU32
  /\ \A rate \in Rates : rate \in Int \/ rate = NaN
  /\ Sizes \subseteq Nat
  /\ Null # BadText
  /\ {Null, BadText, "no", "all"} \cap (Texts \cup Exprs) = {}
  /\ {Null, BadText, Unspoken} \cap Languages = {} /\ Unspoken \notin {Null, BadText}

VARIABLES
  given,    \* what the client passed to the call
  asked,    \* what lancedb is asked for
  code,     \* what the last call returned
  failure   \* what went wrong in lancedb: the cause, and the error raised for it

vars == <<queryVars, given, asked, code, failure>>

Nothing == [op |-> "none"]

Bools == {0, 1}

VectorConfigs ==
  [num_partitions : Ints, num_sub_vectors : Ints, max_iterations : Ints,
   sample_rate : Rates, distance_type : LanceDBDistanceType, replace : Bools]

ScalarConfigs == [replace : Bools]

FtsConfigs ==
  [base_tokenizer : Tokenizers \cup {Null, BadText},
   language : Languages \cup {Unspoken, Null, BadText},
   max_token_length : Ints, lowercase : Bools, stem : Bools, remove_stop_words : Bools,
   ascii_folding : Bools, replace : Bools]

LanceDBMergeInsertConfig ==
  [update_all : Bools, insert_all : Bools, condition : Texts \cup {Null, BadText},
   expr : Exprs \cup {Null}]

SessionOptions == [index_cache_bytes : Sizes, metadata_cache_bytes : Sizes]

Init ==
  /\ QueryInit
  /\ given = Nothing /\ asked = Nothing /\ code = "Success" /\ failure = Nothing

Call(arguments, answer) ==
  /\ given' = arguments /\ asked' = answer
  /\ code' = IF answer = Rejected THEN "InvalidArgument" ELSE "Success"
  /\ UNCHANGED <<queryVars, failure>>

(* A null table, or a column that is null or not UTF-8.                    *)
CallRejected == Call(Nothing, Rejected)

CreateVectorIndex(type, config) ==
  Call([op |-> "create_vector_index", type |-> type, config |-> config], VectorIndex(type, config))

CreateScalarIndex(type, config) ==
  Call([op |-> "create_scalar_index", type |-> type, config |-> config], ScalarIndex(type, config))

CreateFtsIndex(config) ==
  Call([op |-> "create_fts_index", config |-> config], FtsIndex(config, Languages))

TableMergeInsert(config) ==
  Call([op |-> "merge_insert", config |-> config], MergeInsert(config))

TableOptimize(type) == Call([op |-> "optimize", type |-> type], OptimizeAction(type))

(* Makes the session on the spot.                                          *)
SessionNew(options) ==
  Call([op |-> "session_new", options |-> options],
       [op |-> "session", sizes |-> CacheSizes(options)])

(* block_on returns: Ok(_) => Success, Err(e) => handle_error.  No call is *)
(* made to lancedb for a session.                                          *)
LancedbAnswers ==
  /\ asked.op \notin {"none", "rejected"}
  /\ \/ UNCHANGED failure
     \/ /\ asked.op # "session"
        /\ \E cause \in Cause : failure' = [cause |-> cause, error |-> Null]
  /\ given' = Nothing /\ asked' = Nothing
  /\ UNCHANGED <<queryVars, code>>

(* The error lancedb raises for the cause becomes a code.                  *)
HandleError ==
  /\ failure # Nothing /\ failure.error = Null
  /\ \E e \in Raised(failure.cause) :
       /\ failure' = [failure EXCEPT !.error = e]
       /\ code' = error_to_error_code(e)
  /\ UNCHANGED <<queryVars, given, asked>>

(* The client has seen the code.                                           *)
GoesOn ==
  /\ code # "Success"
  /\ code' = "Success" /\ failure' = Nothing
  /\ given' = Nothing /\ asked' = Nothing
  /\ UNCHANGED queryVars

(* One call at a time, and none while a query is being built.              *)
Idle == stage = "none" /\ asked = Nothing /\ failure = Nothing

(* The calls on a query return no code of lancedb.                         *)
Queries ==
  /\ asked = Nothing /\ failure = Nothing
  /\ QueryNext
  /\ UNCHANGED <<given, asked, code, failure>>

Calls ==
  /\ Idle
  /\ \/ CallRejected
     \/ \E type \in LanceDBIndexType, config \in VectorConfigs \cup {Null} : CreateVectorIndex(type, config)
     \/ \E type \in LanceDBIndexType, config \in ScalarConfigs \cup {Null} : CreateScalarIndex(type, config)
     \/ \E config \in FtsConfigs \cup {Null} : CreateFtsIndex(config)
     \/ \E config \in LanceDBMergeInsertConfig \cup {Null} : TableMergeInsert(config)
     \/ \E type \in LanceDBOptimizeType : TableOptimize(type)
     \/ \E options \in SessionOptions \cup {Null} : SessionNew(options)

Next == Queries \/ Calls \/ LancedbAnswers \/ HandleError \/ GoesOn

Spec == Init /\ [][Next]_vars

-----------------------------------------------------------------------------
(* Properties.                                                             *)

ReturnCode ==
  Named \cup {"Success", "InvalidArgument", "InvalidInput", "Runtime", "ObjectStore", "Lance",
              "Namespace", "PermissionDenied", "NotFound"}

TypeOK ==
  /\ QueryTypeOK
  /\ given.op \in {"none", "create_vector_index", "create_scalar_index", "create_fts_index",
                   "merge_insert", "optimize", "session_new"}
  /\ asked.op \in {"none", "rejected", "create_index", "merge_insert", "optimize", "session"}
  /\ code \in ReturnCode
  /\ failure # Nothing =>
       failure.cause \in Cause /\ failure.error \in {Null} \cup Raised(failure.cause)

(* Vector indexes.  A trained index is asked for exactly the counts that   *)
(* are positive and that it has, and for the rate if that is positive;     *)
(* each count arrives as it was written, whatever int it was, a rate of    *)
(* at least 1 (two halves) as the whole number below it or as the largest  *)
(* u32.  Of a rate between 0 and 1 nothing is said here: SampleRateIsKept  *)
(* is about it.  Auto leaves all but replace to lancedb.  A null           *)
(* configuration sets nothing but the distance and replaces the index.     *)
VectorIsHonoured ==
  given.op = "create_vector_index" =>
    LET c == given.config  p == asked.params
        Written == {n \in Counts : c[n] > 0}
                     \cup {n \in {"sample_rate"} : c[n] # NaN /\ c[n] > 0} IN
      /\ asked = Rejected <=> given.type \in {"BTree", "Bitmap", "LabelList", "FTS"}
      /\ asked # Rejected =>
           /\ asked.type = given.type
           /\ asked.replace <=> c = Null \/ c.replace = 1
           /\ given.type = "Auto" => p = NoParams
           /\ given.type # "Auto" /\ c = Null => p = [distance_type |-> "L2"]
           /\ given.type # "Auto" /\ c # Null =>
                /\ DOMAIN p = {"distance_type"} \cup
                     IF given.type \in {"IvfPq", "IvfHnswPq"} THEN Written
                       ELSE Written \ {"num_sub_vectors"}
                /\ p.distance_type = c.distance_type
                /\ \A n \in Counts \cap DOMAIN p : p[n] = c[n]
                /\ "sample_rate" \in DOMAIN p /\ c.sample_rate >= 2 =>
                     \/ p.sample_rate = MaxU32 /\ 2 * MaxU32 <= c.sample_rate
                     \/ c.sample_rate \in {2 * p.sample_rate, 2 * p.sample_rate + 1}

(* Scalar indexes have no parameters, and replace what was there unless    *)
(* the client says no.                                                     *)
ScalarIsHonoured ==
  given.op = "create_scalar_index" =>
    /\ asked = Rejected <=> given.type \notin {"BTree", "Bitmap", "LabelList"}
    /\ asked # Rejected =>
         /\ asked.type = given.type /\ asked.params = NoParams
         /\ asked.replace <=> given.config = Null \/ given.config.replace = 1

(* Full-text indexes.  Each flag is asked for as it was set; a limit that  *)
(* is not negative too, and a negative one is none.  The tokenizer and the *)
(* language are asked for if they can be read.  A language that there is   *)
(* not makes the call fail; a text that is not UTF-8 does not: it counts   *)
(* as none, and the index is made with the default of lancedb.             *)
SearchIsHonoured ==
  given.op = "create_fts_index" =>
    LET c == given.config  p == asked.params
        texts == {t \in {"base_tokenizer", "language"} : c[t] \notin {Null, BadText}} IN
      IF c = Null
        THEN /\ asked.op = "create_index" /\ asked.replace
             /\ p = [n \in {"max_token_length"} \cup Flags |->
                       IF n = "max_token_length" THEN Null ELSE n = "lowercase"]
        ELSE /\ asked = Rejected <=> c.language = Unspoken
             /\ asked # Rejected =>
                  /\ asked.type = "FTS"
                  /\ asked.replace <=> c.replace = 1
                  /\ DOMAIN p = texts \cup {"max_token_length"} \cup Flags
                  /\ \A t \in texts : p[t] = c[t]
                  /\ \A f \in Flags : p[f] <=> c[f] = 1
                  /\ p.max_token_length = IF c.max_token_length < 0 THEN Null ELSE c.max_token_length

(* A session has the cache sizes of its options, and is never without a    *)
(* cache.                                                                  *)
CachesAreHonoured ==
  given.op = "session_new" =>
    /\ asked.op = "session"
    /\ \A c \in DOMAIN asked.sizes :
         /\ asked.sizes[c] > 0
         /\ given.options # Null /\ given.options[c] > 0 => asked.sizes[c] = given.options[c]

(* The optimisation is the one the client names; only Compat has another   *)
(* name in lancedb.                                                        *)
OptimizeIsHonoured ==
  given.op = "optimize" =>
    asked.op = "optimize" /\ asked.action = IF given.type = "Compat" THEN "Compact" ELSE given.type

(* What the client writes into the configuration of an index, a session or *)
(* an optimisation is what lancedb is asked for, through the defaults and  *)
(* the conversions to u32 and usize; what is not passed on is named above. *)
ConfigIsHonoured ==
  VectorIsHonoured /\ ScalarIsHonoured /\ SearchIsHonoured /\ CachesAreHonoured
    /\ OptimizeIsHonoured

(* A merge never updates more rows than the client meant: it updates all   *)
(* of them only if there is no condition, none unless it is told to, and   *)
(* with two conditions, or one that cannot be read, it does not run.  A    *)
(* condition is of no account when no row is to be updated.                *)
MergeIsMeant ==
  given.op = "merge_insert" /\ given.config # Null =>
    LET c == given.config
        Conditions == {c.condition, c.expr} \ {Null} IN
      IF c.update_all = 0
        THEN asked = Merge("no", c.insert_all = 1)
        ELSE
          /\ asked.op = "merge_insert" => asked.insert = (c.insert_all = 1)
          /\ Conditions = {} <=> asked.op = "merge_insert" /\ asked.update = "all"
          /\ Conditions # {} /\ asked.op = "merge_insert" => Conditions = {asked.update}
          /\ asked = Rejected <=> (Conditions = {c.condition, c.expr} \/ c.condition = BadText)

CodesOf(cause) ==
  CASE cause = "table missing" -> {"TableNotFound"}
    [] cause = "namespace missing" -> {"DatabaseNotFound"}
    [] cause = "access denied" -> {"PermissionDenied"}
    [] cause \in {"bucket missing", "object missing"} -> {"NotFound"}
    [] cause = "index missing" -> {"IndexNotFound"}
    [] cause = "input refused" -> {"InvalidInput"}
    [] cause = "namespace failed" -> {"Namespace"}
    [] cause \in {"no connection", "corrupted"} -> {"Lance"}
    [] OTHER -> {"Runtime", "ObjectStore", "Other", "Schema", "Timeout", "Arrow"}

(* What a marker stands for.                                               *)
CauseOf(marker) ==
  CASE marker = NAMESPACE_TABLE_NOT_FOUND -> "table missing"
    [] marker = NAMESPACE_NOT_FOUND -> "namespace missing"
    [] marker = NAMESPACE_CONNECT_FAILED -> "no connection"
    [] marker \in PERMISSION_DENIED_MARKERS -> "access denied"
    [] OTHER -> "bucket missing"

(* The quoted markers that may be taken for the cause: those that are      *)
(* looked for before the marker of the cause, or all if it has none.  A    *)
(* refused input is looked at only if it seems to be a failed connection.  *)
Misleading(cause, quoted) ==
  CASE cause = "table missing" -> {}
    [] cause = "namespace missing" -> quoted \cap {NAMESPACE_TABLE_NOT_FOUND}
    [] cause = "access denied" -> quoted \cap NamespaceMarkers
    [] cause = "bucket missing" -> quoted \cap (NamespaceMarkers \cup PERMISSION_DENIED_MARKERS)
    [] cause = "no connection" -> quoted \cap StorageMarkers
    [] cause = "input refused" ->
         IF NAMESPACE_CONNECT_FAILED \in quoted
           THEN quoted \cap (StorageMarkers \cup {NAMESPACE_CONNECT_FAILED}) ELSE {}
    [] OTHER -> quoted \cap (NamespaceMarkers \cup StorageMarkers)

Failed == failure # Nothing /\ failure.error # Null

(* An error comes back as the code of its cause, whichever variant of      *)
(* lancedb carries it, unless a name or a path in its text contains a      *)
(* marker that is looked for first; then it comes back as what that marker *)
(* stands for.  So a missing table is told whatever its name and its path  *)
(* contain, and a missing bucket only if its path does not contain         *)
(* AccessDenied.                                                           *)
CausesAreTold ==
  Failed =>
    \/ code \in CodesOf(failure.cause)
    \/ \E marker \in Misleading(failure.cause, failure.error.quoted) :
         code \in CodesOf(CauseOf(marker))

(* src/error.rs:78-81: NoSuchBucket marks a storage failure caused by a    *)
(* missing object, as does the code NotFound it comes back as.             *)
MissingBucketIsTold ==
  Failed /\ failure.cause = "bucket missing" => code = "NotFound"

(* include/lancedb.h:236: only a sampling rate of 0.0 is the default; any  *)
(* other reaches the trainer as a rate to sample at.                       *)
SampleRateIsKept ==
  (given.op = "create_vector_index" /\ asked.op = "create_index") =>
    ("sample_rate" \in DOMAIN asked.params => asked.params.sample_rate > 0)
=============================================================================
