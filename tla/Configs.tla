------------------------------- MODULE Configs --------------------------------
(***************************************************************************)
(* From the configuration structs of the C API to what the builders of     *)
(* lancedb are asked for.  A null configuration stands for the defaults;   *)
(* a number that is not positive leaves the builder its own; an int and a  *)
(* float become u32.                                                       *)
(***************************************************************************)
EXTENDS Integers

CONSTANTS
  Null,     \* a null pointer, and Option::None
  BadText,  \* a text that is not UTF-8
  NaN,      \* the float that is no number
  MaxU32    \* the largest u32

ASSUME ConfigAssumption == MaxU32 \in Nat

LanceDBIndexType == {"Auto", "BTree", "Bitmap", "LabelList", "FTS", "IvfFlat", "IvfPq",
                     "IvfHnswPq", "IvfHnswSq"}

LanceDBDistanceType == {"L2", "Cosine", "Dot", "Hamming"}

(* Defaults of the structs.                                                *)
VectorDefault == [num_partitions |-> -1, num_sub_vectors |-> -1, max_iterations |-> -1,
                  sample_rate |-> 0, distance_type |-> "L2", replace |-> 1]

ScalarDefault == [replace |-> 1]

FtsDefault == [base_tokenizer |-> Null, language |-> Null, max_token_length |-> -1,
               lowercase |-> 1, stem |-> 0, remove_stop_words |-> 0, ascii_folding |-> 0,
               replace |-> 1]

OrDefault(config, default) == IF config = Null THEN default ELSE config

(* "as u32" keeps the low bits of an int.                                  *)
IntAsU32(n) == n % (MaxU32 + 1)

(* "as u32" cuts a float off and saturates.  Rates are counted in halves.  *)
FloatAsU32(halves) == IF halves \div 2 > MaxU32 THEN MaxU32 ELSE halves \div 2

Counts == {"num_partitions", "num_sub_vectors", "max_iterations"}

(* The counts the builder of each trained index has setters for.           *)
CountsOf(type) ==
  IF type \in {"IvfPq", "IvfHnswPq"} THEN Counts ELSE Counts \ {"num_sub_vectors"}

Trained == {"IvfFlat", "IvfPq", "IvfHnswPq", "IvfHnswSq"}

(* Nothing is greater than NaN, nor is NaN greater than anything.          *)
IsPositive(halves) == halves # NaN /\ halves > 0

(* Mutant: counts are passed on whatever they are.                         *)
TrainedIndexUnchecked(type, cfg) ==
  [p \in CountsOf(type) \cup (IF IsPositive(cfg.sample_rate) THEN {"sample_rate"} ELSE {})
         \cup {"distance_type"} |->
     IF p \in Counts THEN IntAsU32(cfg[p])
     ELSE IF p = "sample_rate" THEN FloatAsU32(cfg[p]) ELSE cfg[p]]

(* The parameters set on the builder of a trained index.                   *)
TrainedIndex(type, cfg) ==
  [p \in {c \in CountsOf(type) : cfg[c] > 0}
         \cup (IF IsPositive(cfg.sample_rate) THEN {"sample_rate"} ELSE {})
         \cup {"distance_type"} |->
     IF p \in Counts THEN IntAsU32(cfg[p])
     ELSE IF p = "sample_rate" THEN FloatAsU32(cfg[p]) ELSE cfg[p]]

CreateIndex(type, params, cfg) ==
  [op |-> "create_index", type |-> type, params |-> params, replace |-> cfg.replace # 0]

Rejected == [op |-> "rejected"]

NoParams == [p \in {} |-> Null]

VectorIndex(type, config) ==
  LET cfg == OrDefault(config, VectorDefault) IN
    IF type = "Auto" THEN CreateIndex(type, NoParams, cfg)
    ELSE IF type \in Trained THEN CreateIndex(type, TrainedIndex(type, cfg), cfg)
    ELSE Rejected

ScalarIndex(type, config) ==
  IF type \in {"BTree", "Bitmap", "LabelList"}
    THEN CreateIndex(type, NoParams, OrDefault(config, ScalarDefault))
    ELSE Rejected

Flags == {"lowercase", "stem", "remove_stop_words", "ascii_folding"}

(* A text that is not UTF-8 is passed over; a language tantivy does not    *)
(* know is rejected.                                                       *)
FtsIndex(config, languages) ==
  LET cfg == OrDefault(config, FtsDefault)
      texts == {t \in {"base_tokenizer", "language"} : cfg[t] \notin {Null, BadText}} IN
    IF "language" \in texts /\ cfg.language \notin languages THEN Rejected
    ELSE CreateIndex("FTS",
           [p \in texts \cup {"max_token_length"} \cup Flags |->
              IF p \in Flags THEN cfg[p] # 0
              ELSE IF p = "max_token_length" /\ cfg[p] < 0 THEN Null ELSE cfg[p]], cfg)

-----------------------------------------------------------------------------
(* merge_insert.  The update is "no", "all", or the rows of a condition.   *)
Merge(update, insert) == [op |-> "merge_insert", update |-> update, insert |-> insert]

(* Mutant: a condition that cannot be read is passed over.                 *)
MergeInsertLenient(config) ==
  IF config = Null THEN Merge("all", TRUE)
  ELSE IF config.update_all = 0 THEN Merge("no", config.insert_all # 0)
  ELSE IF config.expr # Null /\ config.condition # Null THEN Rejected
  ELSE IF config.expr # Null THEN Merge(config.expr, config.insert_all # 0)
  ELSE IF config.condition \in {Null, BadText} THEN Merge("all", config.insert_all # 0)
  ELSE Merge(config.condition, config.insert_all # 0)

(* A null configuration is an upsert; the conditions are read only when    *)
(* matched rows are updated.                                               *)
MergeInsert(config) ==
  IF config = Null THEN Merge("all", TRUE)
  ELSE IF config.update_all = 0 THEN Merge("no", config.insert_all # 0)
  ELSE IF config.expr # Null /\ config.condition # Null THEN Rejected
  ELSE IF config.expr # Null THEN Merge(config.expr, config.insert_all # 0)
  ELSE IF config.condition = BadText THEN Rejected
  ELSE IF config.condition = Null THEN Merge("all", config.insert_all # 0)
  ELSE Merge(config.condition, config.insert_all # 0)

-----------------------------------------------------------------------------
LanceDBOptimizeType == {"All", "Compat", "Prune", "Index"}

OptimizeAction(type) ==
  [op |-> "optimize", action |-> IF type = "Compat" THEN "Compact" ELSE type]

(* create_session_impl: a size of 0 stands for the default, as null does.  *)
DefaultCaches == [index_cache_bytes |-> 6, metadata_cache_bytes |-> 1]

CacheSizes(options) ==
  [c \in DOMAIN DefaultCaches |->
     IF options = Null THEN DefaultCaches[c]
     ELSE IF options[c] = 0 THEN DefaultCaches[c] ELSE options[c]]
=============================================================================
