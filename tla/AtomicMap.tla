------------------------------ MODULE AtomicMap ------------------------------
(***************************************************************************)
(* What lancedb_table_set_metadata and lancedb_table_delete_metadata       *)
(* promise to concurrent callers: the metadata of a table is one map; a    *)
(* call changes it at one instant between its start and its return, by     *)
(* exactly its own entries, if it returns Success, and never otherwise.    *)
(***************************************************************************)
CONSTANTS Thread, Key, Value, Absent

VARIABLES
  map,     \* the table's metadata: Absent, or a value, for every key
  status   \* per thread: no update running, one not yet applied, one applied

avars == <<map, status>>

(* Some keys with new values, or some keys to be removed.                  *)
SetEntries == UNION {[S -> Value] : S \in (SUBSET Key) \ {{}}}
DeleteEntries == UNION {[S -> {Absent}] : S \in (SUBSET Key) \ {{}}}
Entries == SetEntries \cup DeleteEntries

Apply(m, entries) ==
  [k \in Key |-> IF k \in DOMAIN entries THEN entries[k] ELSE m[k]]

AInit ==
  /\ map = [k \in Key |-> Absent]
  /\ status = [t \in Thread |-> <<"idle">>]

Invoke(t, entries) ==
  /\ status[t] = <<"idle">>
  /\ status' = [status EXCEPT ![t] = <<"pending", entries>>]
  /\ UNCHANGED map

TakeEffect(t, entries) ==
  /\ status[t] = <<"pending", entries>>
  /\ map' = Apply(map, entries)
  /\ status' = [status EXCEPT ![t] = <<"applied">>]

ReturnSuccess(t) ==
  /\ status[t] = <<"applied">>
  /\ status' = [status EXCEPT ![t] = <<"idle">>]
  /\ UNCHANGED map

ReturnError(t, entries) ==
  /\ status[t] = <<"pending", entries>>
  /\ status' = [status EXCEPT ![t] = <<"idle">>]
  /\ UNCHANGED map

ANext ==
  \E t \in Thread :
    \/ ReturnSuccess(t)
    \/ \E entries \in Entries :
         Invoke(t, entries) \/ TakeEffect(t, entries) \/ ReturnError(t, entries)

ASpec == AInit /\ [][ANext]_avars
=============================================================================
