---------------------------- MODULE TableMetadata ----------------------------
(***************************************************************************)
(* Table metadata under concurrent callers (src/table.rs:759-992).         *)
(*                                                                         *)
(* lancedb_table_set_metadata and _delete_metadata take a snapshot of the  *)
(* handle's dataset, commit a new version of the table built from their    *)
(* entries, and hand the new version back to the handle.  Each of the      *)
(* three is a step of its own: threads share handles, a table has several  *)
(* handles, and other threads run between two steps.                       *)
(*                                                                         *)
(* The dataset itself belongs to the lancedb crate and is modelled as the  *)
(* code uses it: get() returns a version no older than the handle's;       *)
(* update_metadata() applies the entries to the newest version, or fails;  *)
(* update() keeps the newer of the handle's version and the given one.     *)
(***************************************************************************)
EXTENDS Naturals, Sequences

CONSTANTS
  Thread,
  Handle,      \* the open handles of one table
  Native,      \* those whose table has a local dataset; the rest are remote
  Key, Value,
  Absent,      \* the value of a key that is not in the metadata
  MaxVersion   \* bound on the number of versions of the table

ASSUME HandleAssumption == Handle # {} /\ Native \subseteq Handle
ASSUME KeyAssumption == Key # {}
ASSUME VersionAssumption == MaxVersion \in Nat \ {0}
ASSUME AbsentAssumption == Absent \notin Value

VARIABLES
  log,     \* log[v]: the metadata of version v
  seen,    \* per handle: the version its dataset wrapper holds
  acked,   \* per handle: the newest version made by a call that returned
  pc,      \* per thread: what it does next
  handle,  \* per thread: the handle of its call
  todo,    \* per thread: the entries it writes; DOMAIN is what a read asks for
  base,    \* per thread: the version of its snapshot, then of its commit
  floor    \* per thread: acked of its handle when the call started

vars == <<log, seen, acked, pc, handle, todo, base, floor>>

SetEntries == UNION {[S -> Value] : S \in (SUBSET Key) \ {{}}}
DeleteEntries == UNION {[S -> {Absent}] : S \in (SUBSET Key) \ {{}}}
Entries == SetEntries \cup DeleteEntries

Maps == [Key -> Value \cup {Absent}]

Apply(m, entries) ==
  [k \in Key |-> IF k \in DOMAIN entries THEN entries[k] ELSE m[k]]

Latest == Len(log)

TypeOK ==
  /\ log \in Seq(Maps) /\ Latest \in 1..MaxVersion
  /\ seen \in [Handle -> 1..Latest]
  /\ acked \in [Handle -> 1..Latest]
  /\ pc \in [Thread -> {"idle", "snapshot", "commit", "install", "get", "copy"}]
  /\ handle \in [Thread -> Handle]
  /\ todo \in [Thread -> Entries]
  /\ base \in [Thread -> 1..Latest]
  /\ floor \in [Thread -> 1..Latest]

(* The locals of a thread that runs no call.                               *)
NoHandle == CHOOSE h \in Handle : TRUE
NoTodo == [k \in Key |-> Absent]

Init ==
  /\ log = <<[k \in Key |-> Absent]>>
  /\ seen = [h \in Handle |-> 1]
  /\ acked = [h \in Handle |-> 1]
  /\ pc = [t \in Thread |-> "idle"]
  /\ handle = [t \in Thread |-> NoHandle]
  /\ todo = [t \in Thread |-> NoTodo]
  /\ base = [t \in Thread |-> 1]
  /\ floor = [t \in Thread |-> 1]

-----------------------------------------------------------------------------
(* The lancedb crate.                                                      *)

(* DatasetConsistencyWrapper::get: the handle's version, or a newer one    *)
(* when the wrapper refreshes itself.                                      *)
Get(t, v) ==
  /\ v \in seen[handle[t]]..Latest
  /\ seen' = [seen EXCEPT ![handle[t]] = v]
  /\ base' = [base EXCEPT ![t] = v]

(* Dataset::update_metadata: the entries go on top of the newest version.  *)
UpdateMetadata(t) ==
  /\ Latest < MaxVersion
  /\ log' = Append(log, Apply(log[Latest], todo[t]))
  /\ base' = [base EXCEPT ![t] = Latest + 1]

(* DatasetConsistencyWrapper::update.                                      *)
Update(t) ==
  seen' = [seen EXCEPT ![handle[t]] = IF base[t] > @ THEN base[t] ELSE @]

-----------------------------------------------------------------------------
(* The entry points.                                                       *)

Goto(t, label) == pc' = [pc EXCEPT ![t] = label]

Call(t, h, arg, label) ==
  /\ pc[t] = "idle"
  /\ Goto(t, label)
  /\ handle' = [handle EXCEPT ![t] = h]
  /\ todo' = [todo EXCEPT ![t] = arg]
  /\ floor' = [floor EXCEPT ![t] = acked[h]]
  /\ UNCHANGED <<log, seen, acked, base>>

SetMetadata(t) ==
  \E h \in Handle, entries \in SetEntries : Call(t, h, entries, "snapshot")

DeleteMetadata(t) ==
  \E h \in Handle, entries \in DeleteEntries : Call(t, h, entries, "snapshot")

GetMetadata(t) ==
  \E h \in Handle, keys \in DeleteEntries : Call(t, h, keys, "get")

(* Mutant: the snapshot of a finished call is reset to no version.         *)
ReturnForgets(t) ==
  /\ Goto(t, "idle")
  /\ handle' = [handle EXCEPT ![t] = NoHandle]
  /\ todo' = [todo EXCEPT ![t] = NoTodo]
  /\ base' = [base EXCEPT ![t] = 0]
  /\ floor' = [floor EXCEPT ![t] = 1]

Return(t) ==
  /\ Goto(t, "idle")
  /\ handle' = [handle EXCEPT ![t] = NoHandle]
  /\ todo' = [todo EXCEPT ![t] = NoTodo]
  /\ base' = [base EXCEPT ![t] = 1]
  /\ floor' = [floor EXCEPT ![t] = 1]

(* The call returns an error: the table is remote (NotSupported), or one   *)
(* of the awaited operations failed.                                       *)
Error(t) ==
  /\ pc[t] \in {"snapshot", "commit", "get"}
  /\ Return(t)
  /\ UNCHANGED <<log, seen, acked>>

(* The handle's dataset is cloned: ds.get().await, then clone().           *)
TakeSnapshot(t) ==
  /\ pc[t] = "snapshot"
  /\ handle[t] \in Native
  /\ Goto(t, "commit")
  /\ \E v \in 1..MaxVersion : Get(t, v)
  /\ UNCHANGED <<log, acked, handle, todo, floor>>

(* Mutant: the whole map of the snapshot is written back with the entries. *)
CommitSnapshot(t) ==
  /\ pc[t] = "commit"
  /\ Goto(t, "install")
  /\ Latest < MaxVersion
  /\ log' = Append(log, Apply(log[base[t]], todo[t]))
  /\ base' = [base EXCEPT ![t] = Latest + 1]
  /\ UNCHANGED <<seen, acked, handle, todo, floor>>

(* dataset.update_metadata(entries).await                                  *)
Commit(t) ==
  /\ pc[t] = "commit"
  /\ Goto(t, "install")
  /\ UpdateMetadata(t)
  /\ UNCHANGED <<seen, acked, handle, todo, floor>>

(* Mutant: the new version is not handed back to the handle.               *)
InstallNothing(t) ==
  /\ pc[t] = "install"
  /\ Return(t)
  /\ acked' = [acked EXCEPT ![handle[t]] = IF base[t] > @ THEN base[t] ELSE @]
  /\ UNCHANGED <<log, seen>>

(* ds.update(dataset), and the call returns Success.                       *)
Install(t) ==
  /\ pc[t] = "install"
  /\ Return(t)
  /\ Update(t)
  /\ acked' = [acked EXCEPT ![handle[t]] = IF base[t] > @ THEN base[t] ELSE @]
  /\ UNCHANGED log

(* let guard = runtime.block_on(ds.get())                                  *)
TakeGuard(t) ==
  /\ pc[t] = "get"
  /\ handle[t] \in Native
  /\ Goto(t, "copy")
  /\ \E v \in 1..MaxVersion : Get(t, v)
  /\ UNCHANGED <<log, acked, handle, todo, floor>>

(* What is copied out of the guard's manifest: the keys asked for, those   *)
(* that are not in it skipped.                                             *)
Answer(t) ==
  LET metadata == log[base[t]]
  IN [k \in {k \in DOMAIN todo[t] : metadata[k] # Absent} |-> metadata[k]]

CopyEntries(t) ==
  /\ pc[t] = "copy"
  /\ Return(t)
  /\ UNCHANGED <<log, seen, acked>>

Returns(t) ==
  TakeSnapshot(t) \/ Commit(t) \/ Install(t) \/ TakeGuard(t) \/ CopyEntries(t) \/ Error(t)

Next ==
  \E t \in Thread : SetMetadata(t) \/ DeleteMetadata(t) \/ GetMetadata(t) \/ Returns(t)

Spec == Init /\ [][Next]_vars

-----------------------------------------------------------------------------
(* Properties.                                                             *)

(* A handle never falls behind a write that was acknowledged through it,   *)
(* also when two threads' commits come back in the opposite order.         *)
AckedIsSeen == \A h \in Handle : acked[h] <= seen[h]

(* lancedb_table_get_metadata answers from one version of the table that   *)
(* has every update acknowledged through this handle before the call.      *)
ReadsOneFreshVersion ==
  \A t \in Thread :
    pc[t] = "copy" =>
      \E v \in floor[t]..Latest :
        /\ DOMAIN Answer(t) = {k \in DOMAIN todo[t] : log[v][k] # Absent}
        /\ \A k \in DOMAIN Answer(t) : Answer(t)[k] = log[v][k]

(* Updates are atomic: each call that returns Success changed the newest   *)
(* metadata once, by its own entries, and a call that returns an error     *)
(* never did.                                                              *)
Atomic == INSTANCE AtomicMap WITH
  map <- log[Len(log)],
  status <- [t \in Thread |->
               CASE pc[t] \in {"snapshot", "commit"} -> <<"pending", todo[t]>>
                 [] pc[t] = "install" -> <<"applied">>
                 [] OTHER -> <<"idle">>]

UpdatesAreAtomic == Atomic!ASpec
=============================================================================
