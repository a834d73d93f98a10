------------------------- MODULE TableMetadataProofs -------------------------
(***************************************************************************)
(* Proofs about TableMetadata for any number of threads, handles, keys and *)
(* versions.                                                               *)
(***************************************************************************)
EXTENDS TableMetadata, TLAPS

(* A call starts with floor = acked of its handle; the handle's version is *)
(* at least that when it takes its snapshot, and never goes back.          *)
FloorIsKept ==
  \A t \in Thread :
    /\ pc[t] \in {"snapshot", "get"} => floor[t] <= acked[handle[t]]
    /\ pc[t] = "copy" => floor[t] <= base[t]

IInv == TypeOK /\ AckedIsSeen /\ FloorIsKept

-----------------------------------------------------------------------------

LEMMA LocalsTyped == NoHandle \in Handle /\ NoTodo \in Entries
<1>1. NoHandle \in Handle
  BY HandleAssumption DEF NoHandle
<1>2. NoTodo \in DeleteEntries
  <2>1. Key \in (SUBSET Key) \ {{}} /\ NoTodo \in [Key -> {Absent}]
    BY KeyAssumption DEF NoTodo
  <2>. QED BY <2>1 DEF DeleteEntries
<1>. QED BY <1>1, <1>2 DEF Entries

LEMMA ApplyTyped ==
  ASSUME NEW m \in Maps, NEW entries \in Entries
  PROVE  Apply(m, entries) \in Maps
  BY DEF Maps, Entries, SetEntries, DeleteEntries, Apply

LEMMA InitIInv == Init => IInv
<1>. SUFFICES ASSUME Init PROVE IInv
  OBVIOUS
<1>1. log \in Seq(Maps) /\ Latest = 1
  BY DEF Init, Maps, Latest
<1>. QED BY <1>1, LocalsTyped, VersionAssumption
  DEF Init, IInv, TypeOK, AckedIsSeen, FloorIsKept

LEMMA NextIInv == IInv /\ [Next]_vars => IInv'
<1>. SUFFICES ASSUME IInv, [Next]_vars PROVE IInv'
  OBVIOUS
<1>. USE DEF IInv, TypeOK, AckedIsSeen, FloorIsKept, Latest
<1>1. ASSUME NEW t \in Thread, SetMetadata(t) \/ DeleteMetadata(t) \/ GetMetadata(t)
      PROVE  IInv'
  <2>. PICK h \in Handle, arg \in Entries, label \in {"snapshot", "get"} :
         Call(t, h, arg, label)
    BY <1>1 DEF SetMetadata, DeleteMetadata, GetMetadata, Entries
  <2>. QED BY DEF Call, Goto
<1>2. ASSUME NEW t \in Thread, Error(t)
      PROVE  IInv'
  BY <1>2, LocalsTyped, VersionAssumption DEF Error, Return, Goto
<1>3. ASSUME NEW t \in Thread, TakeSnapshot(t)
      PROVE  IInv'
  BY <1>3 DEF TakeSnapshot, Get, Goto
<1>4. ASSUME NEW t \in Thread, Commit(t)
      PROVE  IInv'
  <2>. Apply(log[Latest], todo[t]) \in Maps
    BY ApplyTyped
  <2>1. /\ log' \in Seq(Maps) /\ Latest' = Latest + 1 /\ Latest' \in 1..MaxVersion
    BY <1>4, VersionAssumption DEF Commit, UpdateMetadata
  <2>. QED BY <1>4, <2>1 DEF Commit, UpdateMetadata, Goto
<1>5. ASSUME NEW t \in Thread, Install(t)
      PROVE  IInv'
  BY <1>5, LocalsTyped, VersionAssumption DEF Install, Return, Update, Goto
<1>6. ASSUME NEW t \in Thread, TakeGuard(t)
      PROVE  IInv'
  BY <1>6 DEF TakeGuard, Get, Goto
<1>7. ASSUME NEW t \in Thread, CopyEntries(t)
      PROVE  IInv'
  BY <1>7, LocalsTyped, VersionAssumption DEF CopyEntries, Return, Goto
<1>8. CASE UNCHANGED vars
  BY <1>8 DEF vars
<1>. QED BY <1>1, <1>2, <1>3, <1>4, <1>5, <1>6, <1>7, <1>8 DEF Next, Returns

LEMMA SpecIInv == Spec => []IInv
  BY InitIInv, NextIInv, PTL DEF Spec

(* Every reachable state has the declared types.                           *)
THEOREM TypeCorrect == Spec => []TypeOK
<1>1. IInv => TypeOK BY DEF IInv
<1>. QED BY SpecIInv, <1>1, PTL

(* A handle never falls behind a write acknowledged through it, whatever   *)
(* the order in which the threads sharing it come back from their commits. *)
THEOREM AcknowledgedWritesAreSeen == Spec => []AckedIsSeen
<1>1. IInv => AckedIsSeen BY DEF IInv
<1>. QED BY SpecIInv, <1>1, PTL

(* lancedb_table_get_metadata answers from one version of the table, which *)
(* has every update acknowledged through its handle before the call.       *)
THEOREM ReadsAreFresh == Spec => []ReadsOneFreshVersion
<1>1. IInv => ReadsOneFreshVersion
  <2>. SUFFICES ASSUME IInv, NEW t \in Thread, pc[t] = "copy"
                PROVE  \E v \in floor[t]..Latest :
                         /\ DOMAIN Answer(t) = {k \in DOMAIN todo[t] : log[v][k] # Absent}
                         /\ \A k \in DOMAIN Answer(t) : Answer(t)[k] = log[v][k]
    BY DEF ReadsOneFreshVersion
  <2>1. base[t] \in floor[t]..Latest
    BY DEF IInv, TypeOK, FloorIsKept, Latest
  <2>2. /\ DOMAIN Answer(t) = {k \in DOMAIN todo[t] : log[base[t]][k] # Absent}
        /\ \A k \in DOMAIN Answer(t) : Answer(t)[k] = log[base[t]][k]
    BY DEF Answer
  <2>. QED BY <2>1, <2>2
<1>. QED BY SpecIInv, <1>1, PTL

-----------------------------------------------------------------------------
(* The updates implement one atomic map.                                   *)

LEMMA InitIsAtomic == Init => Atomic!AInit
  BY DEF Init, Atomic!AInit

LEMMA StepIsAtomic == IInv /\ [Next]_vars => [Atomic!ANext]_Atomic!avars
<1>. SUFFICES ASSUME IInv, [Next]_vars PROVE [Atomic!ANext]_Atomic!avars
  OBVIOUS
<1>. DEFINE St == [t \in Thread |->
               CASE pc[t] \in {"snapshot", "commit"} -> <<"pending", todo[t]>>
                 [] pc[t] = "install" -> <<"applied">>
                 [] OTHER -> <<"idle">>]
<1>. USE DEF IInv, TypeOK, Latest
<1>1. ASSUME NEW t \in Thread, NEW entries \in Entries, NEW h \in Handle,
             Call(t, h, entries, "snapshot")
      PROVE  Atomic!Invoke(t, entries)
  BY <1>1 DEF Call, Goto, Atomic!Invoke
<1>2. ASSUME NEW t \in Thread, NEW entries \in Entries, NEW h \in Handle,
             Call(t, h, entries, "get")
      PROVE  UNCHANGED Atomic!avars
  BY <1>2 DEF Call, Goto, Atomic!avars
<1>3. ASSUME NEW t \in Thread, NEW entries, entries = todo[t], Error(t)
      PROVE  Atomic!ReturnError(t, entries) \/ UNCHANGED Atomic!avars
  <2>1. CASE pc[t] = "get"
    BY <1>3, <2>1 DEF Error, Return, Goto, Atomic!avars
  <2>2. CASE pc[t] \in {"snapshot", "commit"}
    BY <1>3, <2>2 DEF Error, Return, Goto, Atomic!ReturnError
  <2>. QED BY <1>3, <2>1, <2>2 DEF Error
<1>4. ASSUME NEW t \in Thread, TakeSnapshot(t)
      PROVE  UNCHANGED Atomic!avars
  BY <1>4 DEF TakeSnapshot, Goto, Atomic!avars
<1>5. ASSUME NEW t \in Thread, NEW entries, entries = todo[t], Commit(t)
      PROVE  Atomic!TakeEffect(t, entries)
  <2>1. log'[Len(log')] = Apply(log[Len(log)], todo[t])
    BY <1>5, ApplyTyped DEF Commit, UpdateMetadata
  <2>2. log'[Len(log')] = Atomic!Apply(log[Len(log)], todo[t])
    BY <2>1 DEF Apply, Atomic!Apply
  <2>. QED BY <1>5, <2>2 DEF Commit, Goto, Atomic!TakeEffect
<1>6. ASSUME NEW t \in Thread, Install(t)
      PROVE  Atomic!ReturnSuccess(t)
  BY <1>6 DEF Install, Return, Goto, Atomic!ReturnSuccess
<1>7. ASSUME NEW t \in Thread, TakeGuard(t) \/ CopyEntries(t)
      PROVE  UNCHANGED Atomic!avars
  BY <1>7 DEF TakeGuard, CopyEntries, Return, Goto, Atomic!avars
<1>8. CASE UNCHANGED vars
  BY <1>8 DEF vars, Atomic!avars
<1>9. Entries = Atomic!Entries
  BY DEF Entries, SetEntries, DeleteEntries, Atomic!Entries, Atomic!SetEntries,
         Atomic!DeleteEntries
<1>10. ASSUME NEW t \in Thread, SetMetadata(t) \/ DeleteMetadata(t) \/ GetMetadata(t)
       PROVE  [Atomic!ANext]_Atomic!avars
  <2>. PICK h \in Handle, arg \in Entries, label \in {"snapshot", "get"} :
         Call(t, h, arg, label)
    BY <1>10 DEF SetMetadata, DeleteMetadata, GetMetadata, Entries
  <2>. QED BY <1>1, <1>2, <1>9 DEF Atomic!ANext
<1>11. ASSUME NEW t \in Thread, Returns(t)
       PROVE  [Atomic!ANext]_Atomic!avars
  <2>1. PICK entries \in Atomic!Entries : entries = todo[t]
    BY <1>9
  <2>2. CASE Error(t)
    BY <2>1, <2>2, <1>3 DEF Atomic!ANext
  <2>3. CASE Commit(t)
    BY <2>1, <2>3, <1>5 DEF Atomic!ANext
  <2>4. CASE Install(t)
    BY <2>4, <1>6 DEF Atomic!ANext
  <2>5. CASE TakeSnapshot(t) \/ TakeGuard(t) \/ CopyEntries(t)
    BY <2>5, <1>4, <1>7
  <2>. QED BY <1>11, <2>2, <2>3, <2>4, <2>5 DEF Returns
<1>. QED BY <1>8, <1>10, <1>11 DEF Next

(* Metadata updates are atomic: lancedb_table_set_metadata and             *)
(* lancedb_table_delete_metadata, run by any number of threads over any    *)
(* number of handles of the table, implement one map that each successful  *)
(* call changes once, by its own entries, and no failed call changes.      *)
THEOREM MetadataIsAtomic == Spec => UpdatesAreAtomic
  BY InitIsAtomic, StepIsAtomic, SpecIInv, PTL
     DEF Spec, UpdatesAreAtomic, Atomic!ASpec
=============================================================================
