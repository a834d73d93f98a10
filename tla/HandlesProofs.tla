---------------------------- MODULE HandlesProofs ----------------------------
(***************************************************************************)
(* Proofs about the ownership protocol, for any set of addresses, any set  *)
(* of calls and any inputs.                                                *)
(*                                                                         *)
(* Two lemmas say what the shapes of Handles (Succeeds, FailsSilently and  *)
(* FailsWithMessage) need in order to preserve the invariant; every entry  *)
(* point is then checked against them, one step per action.                *)
(***************************************************************************)
EXTENDS LanceDB, TLAPS

(* The faults that leave the two accounts in step.  Each of the others     *)
(* makes them drift apart at one entry point or two.                       *)
WellFormed == BadInputs \subseteq {"argument", "array", "nulText"}

(* The inductive invariant: no part of it needs a hypothesis on the inputs.*)
IInv ==
  /\ TypeOK
  /\ MessageIsLive
  /\ DriftIsConfined

(* What a call may take, other than the arguments that its caller gives    *)
(* up: none of them where that is a leak an ill-formed input accounts for, *)
(* or all of the arguments where the caller gives up none.                 *)
Accountable(gone, taken) ==
  \/ taken = {} /\ \A i \in gone : heap[i] \in MayLeak
  \/ gone = {} /\ "provider" \in BadInputs

(* What a call may pass in a consuming position: null, or an object of the *)
(* client that is live and not its error message.                          *)
Passable(given) ==
  \A i \in given : i # NULL => i \in owned /\ i \in Id /\ heap[i] \in Kind \ {"Message"}

-----------------------------------------------------------------------------

LEMMA MayLeakStays == MayLeak' = MayLeak
  BY DEF MayLeak

(* What Fresh allocates lies at free addresses and has the kinds asked for.*)
LEMMA FreshFacts ==
  ASSUME NEW made, NEW new \in Fresh(made)
  PROVE  /\ DOMAIN new \subseteq Id
         /\ \A i \in DOMAIN new : heap[i] = Free /\ new[i] \in made
         /\ \A i, j \in DOMAIN new : new[i] = new[j] => i = j
  BY DEF Fresh, Live

(* A call that frees all or none of the live objects it was given does not *)
(* split them by what it allocates.                                        *)
LEMMA WholeIsTaken ==
  ASSUME NEW given, NEW taken, NEW new, Passable(given),
         taken = {} \/ taken = given \ {NULL},
         \A i \in DOMAIN new : heap[i] = Free,
         heap' = [i \in Id |-> IF i \in DOMAIN new THEN new[i]
                               ELSE IF i \in taken THEN Free ELSE heap[i]],
         call'.given = given \ {NULL}
  PROVE  TakesWhole
<1>1. \A i \in given \ {NULL} : i \in Id /\ heap[i] # Free /\ i \notin DOMAIN new
  BY DEF Passable, Kind, Free
<1>2. CASE taken = {}
  <2>1. \A i \in given \ {NULL} : heap'[i] = heap[i]
    BY <1>1, <1>2
  <2>. QED BY <1>1, <2>1 DEF TakesWhole, Live
<1>3. CASE taken = given \ {NULL}
  <2>1. \A i \in given \ {NULL} : heap'[i] = Free
    BY <1>1, <1>3
  <2>. QED BY <2>1 DEF TakesWhole, Live
<1>. QED BY <1>2, <1>3

(* A successful call preserves the invariant when it takes over all of     *)
(* what it was given.                                                      *)
LEMMA SucceedsIInv ==
  ASSUME IInv, NEW fn, NEW given, NEW taken, NEW made,
         Passable(given), taken = given \ {NULL},
         made \subseteq Kind \ {"Message"},
         Succeeds(fn, given, taken, made)
  PROVE  IInv' /\ TakesWhole
<1>. PICK new \in Fresh(made) : Exchange(fn, given \ {NULL}, "Success", taken, new)
  BY DEF Succeeds
<1>1. /\ DOMAIN new \subseteq Id
      /\ \A i \in DOMAIN new : heap[i] = Free /\ new[i] \in made
  BY FreshFacts
<1>2. /\ heap' = [i \in Id |-> IF i \in DOMAIN new THEN new[i]
                               ELSE IF i \in taken THEN Free ELSE heap[i]]
      /\ owned' = (owned \ (given \ {NULL})) \cup DOMAIN new
      /\ message' = message
  BY DEF Exchange, Keeps, Succeeds
<1>3. TypeOK'
  <2>1. heap' \in [Id -> Kind \cup {Free}]
    BY <1>1, <1>2 DEF IInv, TypeOK
  <2>2. owned' \subseteq Id /\ message' \in Id \cup {NULL}
    BY <1>1, <1>2 DEF IInv, TypeOK
  <2>3. call' \in [fn : Calls \cup {"none"}, rc : ReturnCode,
                   given : SUBSET Id, slot : BOOLEAN]
    BY DEF Succeeds, Passable, ReturnCode
  <2>. QED BY <2>1, <2>2, <2>3 DEF TypeOK
<1>4. MessageIsLive'
  <2>1. \A i \in Id : heap'[i] = "Message" <=> heap[i] = "Message"
    BY <1>1, <1>2 DEF Passable, Free
  <2>. QED BY <2>1, <1>2 DEF IInv, MessageIsLive, Live, Free
<1>5. DriftIsConfined'
  <2>1. \A i \in DOMAIN new : heap'[i] # Free
    BY <1>1, <1>2 DEF Kind, Free
  <2>. QED BY <1>1, <1>2, <2>1, MayLeakStays DEF IInv, DriftIsConfined, Live, Passable
<1>6. TakesWhole
  <2>1. call'.given = given \ {NULL}
    BY DEF Succeeds
  <2>. QED BY <1>1, <1>2, <2>1, WholeIsTaken
<1>. QED BY <1>3, <1>4, <1>5, <1>6 DEF IInv

(* A failed call preserves the invariant when it takes all or nothing, and *)
(* what it takes is accountable.                                           *)
LEMMA SilentIInv ==
  ASSUME IInv, NEW fn, NEW given, NEW rc \in ReturnCode, NEW taken, NEW slot \in BOOLEAN,
         Passable(given), taken = {} \/ taken = given \ {NULL},
         \/ taken = (IF Keeps(fn, rc) THEN {} ELSE given \ {NULL})
         \/ Accountable(IF Keeps(fn, rc) THEN {} ELSE given \ {NULL}, taken),
         FailsSilently(fn, given, rc, taken, slot)
  PROVE  IInv' /\ TakesWhole
<1>1. /\ heap' = [i \in Id |-> IF i \in taken THEN Free ELSE heap[i]]
      /\ owned' = owned \ (IF Keeps(fn, rc) THEN {} ELSE given \ {NULL})
      /\ message' = message
  BY DEF FailsSilently, Exchange, Nothing
<1>2. TypeOK'
  <2>1. call' \in [fn : Calls \cup {"none"}, rc : ReturnCode,
                   given : SUBSET Id, slot : BOOLEAN]
    BY DEF FailsSilently, Passable
  <2>2. heap' \in [Id -> Kind \cup {Free}]
    BY <1>1 DEF IInv, TypeOK
  <2>3. owned' \subseteq Id /\ message' \in Id \cup {NULL}
    BY <1>1 DEF IInv, TypeOK
  <2>. QED BY <2>1, <2>2, <2>3 DEF TypeOK
<1>3. MessageIsLive'
  <2>1. \A i \in Id : heap'[i] = "Message" <=> heap[i] = "Message"
    BY <1>1 DEF Passable, Free
  <2>. QED BY <2>1, <1>1 DEF IInv, MessageIsLive, Live, Free
<1>4. DriftIsConfined'
  BY <1>1, MayLeakStays DEF IInv, DriftIsConfined, Accountable, Live, Passable
<1>5. TakesWhole
  <2>1. call'.given = given \ {NULL}
    BY DEF FailsSilently
  <2>2. DOMAIN Nothing = {}
    BY DEF Nothing
  <2>3. heap' = [i \in Id |-> IF i \in DOMAIN Nothing THEN Nothing[i]
                              ELSE IF i \in taken THEN Free ELSE heap[i]]
    BY DEF FailsSilently, Exchange
  <2>. QED BY <2>1, <2>2, <2>3, WholeIsTaken
<1>. QED BY <1>2, <1>3, <1>4, <1>5 DEF IInv

LEMMA MessageIInv ==
  ASSUME IInv, NEW fn, NEW given, NEW rc \in ReturnCode \ {"Success"}, NEW taken,
         Passable(given), taken = {} \/ taken = given \ {NULL},
         \/ taken = (IF Keeps(fn, rc) THEN {} ELSE given \ {NULL})
         \/ Accountable(IF Keeps(fn, rc) THEN {} ELSE given \ {NULL}, taken),
         FailsWithMessage(fn, given, rc, taken)
  PROVE  IInv' /\ TakesWhole
<1>. PICK new \in Fresh({"Message"}) :
       /\ Exchange(fn, given \ {NULL}, rc, taken, new)
       /\ message' \in DOMAIN new
  BY DEF FailsWithMessage
<1>1. /\ DOMAIN new \subseteq Id
      /\ \A i \in DOMAIN new : heap[i] = Free /\ new[i] = "Message"
      /\ \A i, j \in DOMAIN new : new[i] = new[j] => i = j
  BY FreshFacts
<1>. /\ \A i \in DOMAIN new : i = message'
     /\ DOMAIN new = {message'}
  BY <1>1
<1>2. /\ heap' = [i \in Id |-> IF i = message' THEN "Message"
                               ELSE IF i \in taken THEN Free ELSE heap[i]]
      /\ owned' = (owned \ (IF Keeps(fn, rc) THEN {} ELSE given \ {NULL}))
                    \cup {message'}
      /\ message = NULL /\ message' \in Id
  BY <1>1 DEF Exchange, FailsWithMessage
<1>3. TypeOK'
  <2>1. call' \in [fn : Calls \cup {"none"}, rc : ReturnCode,
                   given : SUBSET Id, slot : BOOLEAN]
    BY DEF FailsWithMessage, Passable
  <2>2. heap' \in [Id -> Kind \cup {Free}]
    BY <1>2 DEF IInv, TypeOK, Kind
  <2>3. owned' \subseteq Id /\ message' \in Id \cup {NULL}
    BY <1>2 DEF IInv, TypeOK
  <2>. QED BY <2>1, <2>2, <2>3 DEF TypeOK
<1>4. MessageIsLive'
  <2>1. \A i \in Id : heap[i] # "Message"
    BY <1>2 DEF IInv, MessageIsLive, Live, Free
  <2>2. \A i \in Id : heap'[i] = "Message" <=> i = message'
    BY <1>2, <2>1 DEF Free
  <2>. QED BY <2>2, <1>2, NullAssumption DEF MessageIsLive, Live, Free
<1>5. DriftIsConfined'
  <2>1. heap'[message'] = "Message" /\ "Message" # Free
    BY <1>2 DEF IInv, TypeOK, Free
  <2>. QED
    BY <1>1, <1>2, <2>1, MayLeakStays DEF IInv, DriftIsConfined, Accountable, Live, Passable
<1>6. TakesWhole
  <2>1. call'.given = given \ {NULL}
    BY DEF FailsWithMessage
  <2>2. heap' = [i \in Id |-> IF i \in DOMAIN new THEN new[i]
                              ELSE IF i \in taken THEN Free ELSE heap[i]]
    BY DEF Exchange
  <2>. QED BY <1>1, <2>1, <2>2, WholeIsTaken
<1>. QED BY <1>3, <1>4, <1>5, <1>6 DEF IInv

LEMMA FailsIInv ==
  ASSUME IInv, NEW fn, NEW given, NEW rc \in ReturnCode \ {"Success"}, NEW taken,
         Passable(given), taken = {} \/ taken = given \ {NULL},
         \/ taken = (IF Keeps(fn, rc) THEN {} ELSE given \ {NULL})
         \/ Accountable(IF Keeps(fn, rc) THEN {} ELSE given \ {NULL}, taken),
         Fails(fn, given, rc, taken)
  PROVE  IInv' /\ TakesWhole
<1>1. CASE FailsSilently(fn, given, rc, taken, FALSE) BY <1>1, SilentIInv
<1>2. CASE FailsSilently(fn, given, rc, taken, TRUE) BY <1>2, SilentIInv
<1>3. CASE FailsWithMessage(fn, given, rc, taken) BY <1>3, MessageIInv
<1>. QED BY <1>1, <1>2, <1>3 DEF Fails

-----------------------------------------------------------------------------
(* The derived shapes.                                                     *)

LEMMA BorrowsIInv ==
  ASSUME IInv, NEW fn, NEW handles, Borrows(fn, handles)
  PROVE  IInv' /\ TakesWhole
<1>. Passable({}) /\ ({} = {} \/ {} = {} \ {NULL})
  BY DEF Passable
<1>1. CASE Succeeds(fn, {}, {}, {}) BY <1>1, SucceedsIInv
<1>2. CASE Fails(fn, {}, "Error", {}) BY <1>2, FailsIInv DEF ReturnCode
<1>3. CASE Fails(fn, {}, "InvalidArgument", {}) BY <1>3, FailsIInv DEF ReturnCode
<1>. QED BY <1>1, <1>2, <1>3 DEF Borrows

LEMMA ProducesIInv ==
  ASSUME IInv, NEW fn, NEW handles, NEW made \in SUBSET (Kind \ {"Message"}),
         NEW mayBeEmpty, Produces(fn, handles, made, mayBeEmpty)
  PROVE  IInv' /\ TakesWhole
<1>. Passable({}) /\ ({} = {} \/ {} = {} \ {NULL})
  BY DEF Passable
<1>1. CASE Succeeds(fn, {}, {}, made) BY <1>1, SucceedsIInv
<1>2. CASE Succeeds(fn, {}, {}, {}) BY <1>2, SucceedsIInv
<1>3. CASE Fails(fn, {}, "Error", {}) BY <1>3, FailsIInv DEF ReturnCode
<1>4. CASE Fails(fn, {}, "InvalidArgument", {}) BY <1>4, FailsIInv DEF ReturnCode
<1>. QED BY <1>1, <1>2, <1>3, <1>4 DEF Produces

LEMMA RebuildsIInv ==
  ASSUME IInv, NEW fn, NEW given, NEW made \in SUBSET (Kind \ {"Message"}),
         NEW ok \in BOOLEAN, Passable(given), ~Keeps(fn, "Null"),
         Rebuilds(fn, given, made, ok)
  PROVE  IInv' /\ TakesWhole
<1>1. CASE ok BY <1>1, SucceedsIInv DEF Rebuilds
<1>2. CASE ~ok BY <1>2, SilentIInv DEF Rebuilds, ReturnsNull, ReturnCode
<1>. QED BY <1>1, <1>2

LEMMA HandleIsPassable ==
  ASSUME IInv, NEW kind \in Kind \ {"Message"}, NEW h \in Arg(kind)
  PROVE  Passable({h})
  BY DEF Arg, Handle, Passable, IInv, TypeOK

LEMMA FreesIInv ==
  ASSUME IInv, NEW fn, NEW kind \in Kind \ {"Message"}, Frees(fn, kind)
  PROVE  IInv' /\ TakesWhole
<1>. PICK h \in Arg(kind) : Succeeds(fn, {h}, {h} \ {NULL}, {})
  BY DEF Frees
<1>. QED BY HandleIsPassable, SucceedsIInv

(* lancedb_free_string ends the message's life and the client forgets it.  *)
LEMMA FreeStringIInv ==
  ASSUME IInv, FreeString
  PROVE  IInv' /\ TakesWhole
<1>1. /\ heap' = [i \in Id |-> IF i = message THEN Free ELSE heap[i]]
      /\ owned' = owned \ {message}
      /\ message' = NULL
      /\ message \in Id
      /\ call' = [fn |-> "free_string", rc |-> "Success", given |-> {message},
                  slot |-> FALSE]
      /\ "free_string" \in Calls
  BY DEF FreeString, Exchange, Nothing, Keeps, ChecksFirst, IInv, TypeOK
<1>2. TypeOK'
  <2>1. call' \in [fn : Calls \cup {"none"}, rc : ReturnCode,
                   given : SUBSET Id, slot : BOOLEAN]
    BY <1>1 DEF ReturnCode
  <2>2. heap' \in [Id -> Kind \cup {Free}]
    BY <1>1 DEF IInv, TypeOK
  <2>. QED BY <1>1, <2>1, <2>2 DEF IInv, TypeOK
<1>3. MessageIsLive'
  BY <1>1 DEF IInv, MessageIsLive, Live, Free
<1>4. DriftIsConfined'
  BY <1>1, MayLeakStays DEF IInv, DriftIsConfined, Live
<1>5. TakesWhole
  BY <1>1 DEF TakesWhole, Live
<1>. QED BY <1>2, <1>3, <1>4, <1>5 DEF IInv

LEMMA NullableIsPassable ==
  ASSUME IInv, NEW kind \in Kind \ {"Message"}, NEW h \in Handle(kind) \cup {NULL}
  PROVE  Passable({h})
  BY DEF Handle, Passable, IInv, TypeOK

(* One consuming argument: a successful call takes it, ...                 *)
LEMMA TakesOnSuccess ==
  ASSUME IInv, NEW kind \in Kind \ {"Message"}, NEW h \in Handle(kind) \cup {NULL}, NEW fn,
         NEW made \in SUBSET (Kind \ {"Message"}),
         \/ Succeeds(fn, {h}, {h} \ {NULL}, made)
         \/ h # NULL /\ Succeeds(fn, {h}, {h}, made)
  PROVE  IInv' /\ TakesWhole
<1>1. CASE Succeeds(fn, {h}, {h} \ {NULL}, made)
  BY <1>1, NullableIsPassable, SucceedsIInv
<1>2. CASE h # NULL /\ Succeeds(fn, {h}, {h}, made)
  <2>1. {h} = {h} \ {NULL} BY <1>2
  <2>. QED BY <1>2, <2>1, NullableIsPassable, SucceedsIInv
<1>. QED BY <1>1, <1>2

(* ... and a failed one takes it, or leaves it where the caller keeps it.  *)
LEMMA TakesOnFailure ==
  ASSUME IInv, NEW kind \in Kind \ {"Message"}, NEW h \in Handle(kind) \cup {NULL}, NEW fn,
         NEW rc \in ReturnCode \ {"Success"},
         \/ ~Keeps(fn, rc) /\ Fails(fn, {h}, rc, {h} \ {NULL})
         \/ ~Keeps(fn, rc) /\ h # NULL /\ Fails(fn, {h}, rc, {h})
         \/ Keeps(fn, rc) /\ Fails(fn, {h}, rc, {})
  PROVE  IInv' /\ TakesWhole
<1>1. CASE ~Keeps(fn, rc) /\ Fails(fn, {h}, rc, {h} \ {NULL})
  BY <1>1, NullableIsPassable, FailsIInv
<1>2. CASE ~Keeps(fn, rc) /\ h # NULL /\ Fails(fn, {h}, rc, {h})
  <2>1. {h} = {h} \ {NULL} BY <1>2
  <2>. QED BY <1>2, <2>1, NullableIsPassable, FailsIInv
<1>3. CASE Keeps(fn, rc) /\ Fails(fn, {h}, rc, {})
  BY <1>3, NullableIsPassable, FailsIInv
<1>. QED BY <1>1, <1>2, <1>3

(* An argument that an ill-formed input may leak need not be taken.        *)
LEMMA LeavesWhenMalformed ==
  ASSUME IInv, NEW kind \in MayLeak \ {"Message"}, NEW h \in Handle(kind) \cup {NULL},
         NEW fn, NEW rc \in ReturnCode \ {"Success"},
         Fails(fn, {h}, rc, {})
  PROVE  IInv' /\ TakesWhole
<1>1. kind \in Kind \ {"Message"}
  BY DEF MayLeak
<1>2. \A gone \in {{}, {h} \ {NULL}} : Accountable(gone, {})
  BY DEF Accountable, Handle
<1>. QED BY <1>1, <1>2, NullableIsPassable, FailsIInv

LEMMA NothingIsPassable == Passable({}) /\ Passable({NULL})
  BY DEF Passable

(* Every entry point of connection.rs preserves the invariant. *)
LEMMA ConnectionIInv ==
  ASSUME IInv, ConnectionNext
  PROVE  IInv' /\ TakesWhole
<1>1. CASE Connect
  BY <1>1, RebuildsIInv, HandleIsPassable, NothingIsPassable
     DEF Connect, ArgsPass, Kind, Keeps, ChecksFirst
<1>2. CASE ConnectBuilderExecute
  BY <1>2, TakesOnSuccess, TakesOnFailure
     DEF Arg, ConnectBuilderExecute, ArgsPass, Kind, ReturnCode, Keeps, ChecksFirst
<1>3. CASE ConnectBuilderStorageOption
  BY <1>3, RebuildsIInv, HandleIsPassable, NothingIsPassable
     DEF ConnectBuilderStorageOption, ArgsPass, Kind, Keeps, ChecksFirst
<1>4. CASE ConnectBuilderSession
  BY <1>4, RebuildsIInv, HandleIsPassable, NothingIsPassable
     DEF ConnectBuilderSession, ArgsPass, Kind, Keeps, ChecksFirst
<1>5. CASE ConnectBuilderFree
  BY <1>5, FreesIInv DEF ConnectBuilderFree, Kind
<1>6. CASE ConnectionFree
  BY <1>6, FreesIInv DEF ConnectionFree, Kind
<1>7. CASE SessionNew
  BY <1>7, SucceedsIInv, FailsIInv, HandleIsPassable, NothingIsPassable
     DEF SessionNew, ArgsPass, Kind, ReturnCode, Keeps, ChecksFirst
<1>8. CASE SessionNewWithRegistry
  <2>1. PICK r \in Handle("Registry") \cup {NULL} :
          Succeeds("session_new_with_registry", {r}, {r} \ {NULL}, {"Session"})
    BY <1>8 DEF SessionNewWithRegistry
  <2>2. "Registry" \in Kind \ {"Message"} /\ {"Session"} \subseteq Kind \ {"Message"}
    BY DEF Kind
  <2>. QED BY <2>1, <2>2, TakesOnSuccess
<1>9. CASE SessionFree
  BY <1>9, FreesIInv DEF SessionFree, Kind
<1>10. CASE SessionIndexCacheStats
  BY <1>10, SucceedsIInv, FailsIInv, HandleIsPassable, NothingIsPassable
     DEF SessionIndexCacheStats, ArgsPass, Kind, ReturnCode, Keeps, ChecksFirst
<1>11. CASE SessionMetadataCacheStats
  BY <1>11, SucceedsIInv, FailsIInv, HandleIsPassable, NothingIsPassable
     DEF SessionMetadataCacheStats, ArgsPass, Kind, ReturnCode, Keeps, ChecksFirst
<1>12. CASE RegistryNew
  BY <1>12, SucceedsIInv, FailsIInv, HandleIsPassable, NothingIsPassable
     DEF RegistryNew, ArgsPass, Kind, ReturnCode, Keeps, ChecksFirst
<1>13. CASE RegistryFree
  BY <1>13, FreesIInv DEF RegistryFree, Kind
<1>14. CASE ExternalProvider
  BY <1>14, SucceedsIInv, FailsIInv, HandleIsPassable, NothingIsPassable
     DEF ExternalProvider, ArgsPass, Kind, ReturnCode, Keeps, ChecksFirst
<1>15. CASE RegistryInsertProvider
  <2>. DEFINE fn == "registry_insert_provider"
  <2>1. PICK r \in Arg("Registry"), p \in Arg("Provider"),
             badScheme \in Faulty("scheme"), empty \in Faulty("provider") :
          \/ Fails(fn, {p}, "InvalidArgument", {})
          \/ badScheme /\ Fails(fn, {p}, "InvalidInput", {})
          \/ p # NULL /\ empty /\ Fails(fn, {p}, "InvalidArgument", {p})
          \/ p # NULL /\ Succeeds(fn, {p}, {p}, {})
    BY <1>15 DEF RegistryInsertProvider
  <2>2. p \in Handle("Provider") \cup {NULL} /\ "Provider" \in Kind \ {"Message"}
    BY DEF Arg, Kind
  <2>3. /\ badScheme => "Provider" \in MayLeak \ {"Message"}
        /\ empty => "provider" \in BadInputs
    BY DEF Faulty, MayLeak, Kind
  <2>4. CASE Fails(fn, {p}, "InvalidArgument", {})
    <3>1. Keeps(fn, "InvalidArgument") /\ "InvalidArgument" \in ReturnCode \ {"Success"}
      BY DEF Keeps, ChecksFirst, ReturnCode
    <3>. HIDE DEF fn
    <3>. QED BY <3>1, <2>4, <2>2, TakesOnFailure
  <2>5. CASE badScheme /\ Fails(fn, {p}, "InvalidInput", {})
    BY <2>5, <2>2, <2>3, LeavesWhenMalformed DEF ReturnCode
  <2>6. CASE p # NULL /\ empty /\ Fails(fn, {p}, "InvalidArgument", {p})
    <3>1. {p} = {p} \ {NULL} /\ Passable({p})
      BY <2>2, <2>6, NullableIsPassable
    <3>2. Accountable({}, {p})
      BY <2>3, <2>6 DEF Accountable
    <3>3. Keeps(fn, "InvalidArgument") /\ "InvalidArgument" \in ReturnCode \ {"Success"}
      BY DEF Keeps, ChecksFirst, ReturnCode
    <3>. HIDE DEF fn
    <3>. QED BY <3>1, <3>2, <3>3, <2>6, FailsIInv
  <2>7. CASE p # NULL /\ Succeeds(fn, {p}, {p}, {})
    BY <2>7, <2>2, TakesOnSuccess
  <2>. QED BY <2>1, <2>4, <2>5, <2>6, <2>7
<1>16. CASE ObjectStoreProviderFree
  BY <1>16, FreesIInv DEF ObjectStoreProviderFree, Kind
<1>17. CASE TableCreate
  <2>. DEFINE fn == "table_create"
  <2>1. PICK r \in Handle("Reader") \cup {NULL}, badSchema \in Faulty("schema") :
          \/ Fails(fn, {r}, "InvalidArgument", {})
          \/ badSchema /\ Fails(fn, {r}, "InvalidInput", {})
          \/ Succeeds(fn, {r}, {r} \ {NULL}, {"Table"})
          \/ \E rc \in {"InvalidInput", "Error"} : Fails(fn, {r}, rc, {r} \ {NULL})
    BY <1>17 DEF TableCreate
  <2>2. "Reader" \in Kind \ {"Message"} /\ {"Table"} \in SUBSET (Kind \ {"Message"})
    BY DEF Kind
  <2>3. badSchema => "Reader" \in MayLeak \ {"Message"}
    BY DEF Faulty, MayLeak, Kind
  <2>4. /\ Keeps(fn, "InvalidArgument") /\ ~Keeps(fn, "InvalidInput") /\ ~Keeps(fn, "Error")
        /\ {"InvalidArgument", "InvalidInput", "Error"} \subseteq ReturnCode \ {"Success"}
    BY DEF Keeps, ChecksFirst, ReturnCode
  <2>. HIDE DEF fn
  <2>5. CASE Fails(fn, {r}, "InvalidArgument", {})
    BY <2>5, <2>2, <2>4, TakesOnFailure
  <2>6. CASE badSchema /\ Fails(fn, {r}, "InvalidInput", {})
    BY <2>6, <2>3, <2>4, LeavesWhenMalformed
  <2>7. CASE Succeeds(fn, {r}, {r} \ {NULL}, {"Table"})
    BY <2>7, <2>2, TakesOnSuccess
  <2>8. ASSUME NEW rc \in {"InvalidInput", "Error"}, Fails(fn, {r}, rc, {r} \ {NULL})
        PROVE  IInv' /\ TakesWhole
    BY <2>8, <2>2, <2>4, TakesOnFailure
  <2>. QED BY <2>1, <2>5, <2>6, <2>7, <2>8
<1>18. CASE ConnectionOpenTable
  BY <1>18, ProducesIInv DEF ConnectionOpenTable, Kind
<1>19. CASE TableFree
  BY <1>19, FreesIInv DEF TableFree, Kind
<1>20. CASE ConnectionDropTable
  BY <1>20, BorrowsIInv DEF ConnectionDropTable
<1>21. CASE ConnectionRenameTable
  BY <1>21, BorrowsIInv DEF ConnectionRenameTable
<1>22. CASE ConnectionDropAllTables
  BY <1>22, BorrowsIInv DEF ConnectionDropAllTables
<1>23. CASE ConnectionTableNames
  BY <1>23, ProducesIInv DEF ConnectionTableNames, Kind
<1>24. CASE FreeTableNames
  BY <1>24, FreesIInv DEF FreeTableNames, Kind
<1>25. CASE ConnectionTableNamesBuilder
  BY <1>25, RebuildsIInv, HandleIsPassable, NothingIsPassable
     DEF ConnectionTableNamesBuilder, ArgsPass, Kind, Keeps, ChecksFirst
<1>26. CASE TableNamesBuilderLimit
  BY <1>26, RebuildsIInv, HandleIsPassable, NothingIsPassable
     DEF TableNamesBuilderLimit, ArgsPass, Kind, Keeps, ChecksFirst
<1>27. CASE TableNamesBuilderStartAfter
  BY <1>27, RebuildsIInv, HandleIsPassable, NothingIsPassable
     DEF TableNamesBuilderStartAfter, ArgsPass, Kind, Keeps, ChecksFirst
<1>28. CASE TableNamesBuilderExecute
  BY <1>28, TakesOnSuccess, TakesOnFailure
     DEF Arg, TableNamesBuilderExecute, ArgsPass, Kind, ReturnCode, Keeps, ChecksFirst
<1>29. CASE TableNamesBuilderFree
  BY <1>29, FreesIInv DEF TableNamesBuilderFree, Kind
<1>30. CASE ConnectionCreateNamespace
  BY <1>30, BorrowsIInv DEF ConnectionCreateNamespace
<1>31. CASE ConnectionDropNamespace
  BY <1>31, BorrowsIInv DEF ConnectionDropNamespace
<1>32. CASE ConnectionListNamespaces
  BY <1>32, ProducesIInv DEF ConnectionListNamespaces, Kind
<1>33. CASE FreeNamespaceList
  BY <1>33, FreesIInv DEF FreeNamespaceList, Kind
<1>. QED
  BY <1>1, <1>2, <1>3, <1>4, <1>5, <1>6, <1>7, <1>8, <1>9, <1>10, <1>11, <1>12, <1>13, <1>14, <1>15, <1>16, <1>17, <1>18, <1>19, <1>20, <1>21, <1>22, <1>23, <1>24, <1>25, <1>26, <1>27, <1>28, <1>29, <1>30, <1>31, <1>32, <1>33 DEF ConnectionNext

(* Every entry point of table.rs and index.rs preserves the invariant. *)
LEMMA TableIInv ==
  ASSUME IInv, TableNext
  PROVE  IInv' /\ TakesWhole
<1>1. CASE ExportArray
  BY <1>1, SucceedsIInv, FailsIInv, HandleIsPassable, NothingIsPassable
     DEF ExportArray, ArgsPass, Kind, ReturnCode, Keeps, ChecksFirst
<1>2. CASE ReleaseArray
  BY <1>2, FreesIInv DEF ReleaseArray, Kind
<1>3. CASE RecordBatchReaderFromArrow
  <2>. DEFINE fn == "record_batch_reader_from_arrow"
  <2>1. PICK a \in Arg("ArrowArray"), badSchema \in Faulty("schema") :
          \/ Fails(fn, {a}, "InvalidArgument", {})
          \/ badSchema /\ Fails(fn, {a}, "Error", {})
          \/ a # NULL /\ Fails(fn, {a}, "Error", {a})
          \/ a # NULL /\ Succeeds(fn, {a}, {a}, {"Reader"})
    BY <1>3 DEF RecordBatchReaderFromArrow
  <2>2. a \in Handle("ArrowArray") \cup {NULL} /\ "ArrowArray" \in Kind \ {"Message"}
    BY DEF Arg, Kind
  <2>3. badSchema => "ArrowArray" \in MayLeak \ {"Message"}
    BY DEF Faulty, MayLeak, Kind
  <2>4. CASE Fails(fn, {a}, "InvalidArgument", {})
    <3>1. Keeps(fn, "InvalidArgument") /\ "InvalidArgument" \in ReturnCode \ {"Success"}
      BY DEF Keeps, ChecksFirst, ReturnCode
    <3>. HIDE DEF fn
    <3>. QED BY <3>1, <2>4, <2>2, TakesOnFailure
  <2>5. CASE badSchema /\ Fails(fn, {a}, "Error", {})
    BY <2>5, <2>2, <2>3, LeavesWhenMalformed DEF ReturnCode
  <2>6. CASE a # NULL /\ Fails(fn, {a}, "Error", {a})
    BY <2>6, <2>2, TakesOnFailure DEF Keeps, ReturnCode
  <2>7. CASE a # NULL /\ Succeeds(fn, {a}, {a}, {"Reader"})
    BY <2>7, <2>2, TakesOnSuccess DEF Kind
  <2>. QED BY <2>1, <2>4, <2>5, <2>6, <2>7
<1>4. CASE RecordBatchReaderFree
  BY <1>4, FreesIInv DEF RecordBatchReaderFree, Kind
<1>5. CASE TableAdd
  <2>. DEFINE fn == "table_add"
  <2>1. PICK r \in Arg("Reader") :
          \/ Fails(fn, {r}, "InvalidArgument", {})
          \/ r # NULL /\ Succeeds(fn, {r}, {r}, {})
          \/ r # NULL /\ Fails(fn, {r}, "Error", {r})
    BY <1>5 DEF TableAdd
  <2>2. r \in Handle("Reader") \cup {NULL} /\ "Reader" \in Kind \ {"Message"}
    BY DEF Arg, Kind
  <2>3. CASE Fails(fn, {r}, "InvalidArgument", {})
    <3>1. Keeps(fn, "InvalidArgument") /\ "InvalidArgument" \in ReturnCode \ {"Success"}
      BY DEF Keeps, ChecksFirst, ReturnCode
    <3>. HIDE DEF fn
    <3>. QED BY <3>1, <2>3, <2>2, TakesOnFailure
  <2>4. CASE r # NULL /\ Succeeds(fn, {r}, {r}, {})
    BY <2>4, <2>2, TakesOnSuccess
  <2>5. CASE r # NULL /\ Fails(fn, {r}, "Error", {r})
    BY <2>5, <2>2, TakesOnFailure DEF Keeps, ReturnCode
  <2>. QED BY <2>1, <2>3, <2>4, <2>5
<1>6. CASE TableMergeInsert
  BY <1>6, TakesOnSuccess, TakesOnFailure
     DEF Arg, TableMergeInsert, ArgsPass, Kind, ReturnCode, Keeps, ChecksFirst
<1>7. CASE TableDelete
  BY <1>7, BorrowsIInv DEF TableDelete
<1>8. CASE TableDfDelete
  BY <1>8, TakesOnSuccess, TakesOnFailure
     DEF Arg, TableDfDelete, ArgsPass, Kind, ReturnCode, Keeps, ChecksFirst
<1>9. CASE TableArrowSchema
  BY <1>9, ProducesIInv DEF TableArrowSchema, Kind
<1>10. CASE FreeArrowSchema
  BY <1>10, FreesIInv DEF FreeArrowSchema, Kind
<1>11. CASE TableVersion
  BY <1>11, SucceedsIInv, FailsIInv, HandleIsPassable, NothingIsPassable
     DEF TableVersion, ArgsPass, Kind, ReturnCode, Keeps, ChecksFirst
<1>12. CASE TableCountRows
  BY <1>12, SucceedsIInv, FailsIInv, HandleIsPassable, NothingIsPassable
     DEF TableCountRows, ArgsPass, Kind, ReturnCode, Keeps, ChecksFirst
<1>13. CASE TableNearestTo
  BY <1>13, ProducesIInv DEF TableNearestTo, Kind
<1>14. CASE TableListVersions
  BY <1>14, ProducesIInv DEF TableListVersions, Kind
<1>15. CASE FreeVersions
  BY <1>15, FreesIInv DEF FreeVersions, Kind
<1>16. CASE FreeVersionMetadata
  BY <1>16, FreesIInv DEF FreeVersionMetadata, Kind
<1>17. CASE TableGetMetadata
  BY <1>17, ProducesIInv DEF TableGetMetadata, Kind
<1>18. CASE FreeMetadata
  BY <1>18, FreesIInv DEF FreeMetadata, Kind
<1>19. CASE TableSetMetadata
  BY <1>19, BorrowsIInv DEF TableSetMetadata
<1>20. CASE TableDeleteMetadata
  BY <1>20, BorrowsIInv DEF TableDeleteMetadata
<1>21. CASE TableCreateVectorIndex
  BY <1>21, BorrowsIInv DEF TableCreateVectorIndex
<1>22. CASE TableCreateScalarIndex
  BY <1>22, BorrowsIInv DEF TableCreateScalarIndex
<1>23. CASE TableCreateFtsIndex
  BY <1>23, BorrowsIInv DEF TableCreateFtsIndex
<1>24. CASE TableListIndices
  BY <1>24, ProducesIInv DEF TableListIndices, Kind
<1>25. CASE FreeIndexList
  BY <1>25, FreesIInv DEF FreeIndexList, Kind
<1>26. CASE TableDropIndex
  BY <1>26, BorrowsIInv DEF TableDropIndex
<1>27. CASE TableOptimize
  BY <1>27, BorrowsIInv DEF TableOptimize
<1>28. CASE TableIndexStats
  <2>. DEFINE fn == "table_index_stats"
  <2>1. CASE \E t \in Arg("Table") : Borrows(fn, {t})
    BY <2>1, BorrowsIInv
  <2>2. CASE \E slot \in BOOLEAN : FailsSilently(fn, {}, "IndexNotFound", {}, slot)
    <3>1. Passable({}) /\ ({} = {} \/ {} = {} \ {NULL})
      BY NothingIsPassable
    <3>. QED BY <3>1, <2>2, SilentIInv DEF ReturnCode
  <2>. QED BY <1>28, <2>1, <2>2 DEF TableIndexStats
<1>. QED
  BY <1>1, <1>2, <1>3, <1>4, <1>5, <1>6, <1>7, <1>8, <1>9, <1>10, <1>11, <1>12, <1>13, <1>14, <1>15, <1>16, <1>17, <1>18, <1>19, <1>20, <1>21, <1>22, <1>23, <1>24, <1>25, <1>26, <1>27, <1>28 DEF TableNext

LEMMA ExprIsLive ==
  ASSUME IInv, NEW e \in Arg("Expr"), e # NULL
  PROVE  e \in owned /\ e \in Id /\ heap[e] \in Kind \ {"Message"}
  BY DEF Arg, Handle, IInv, TypeOK, Kind

LEMMA PairIsPassable ==
  ASSUME IInv, NEW p \in ArgPair
  PROVE  Passable({p[1], p[2]})
<1>1. p[1] \in Arg("Expr") /\ p[2] \in Arg("Expr")
  BY DEF ArgPair
<1>. QED BY <1>1, ExprIsLive DEF Passable

(* Every entry point of expr.rs and json.rs preserves the invariant. *)
LEMMA ExprIInv ==
  ASSUME IInv, ExprNext
  PROVE  IInv' /\ TakesWhole
<1>1. CASE ExprColumn
  BY <1>1, RebuildsIInv, HandleIsPassable, NothingIsPassable
     DEF ExprColumn, ArgsPass, Kind, Keeps, ChecksFirst
<1>2. CASE ExprLiteralString
  BY <1>2, RebuildsIInv, HandleIsPassable, NothingIsPassable
     DEF ExprLiteralString, ArgsPass, Kind, Keeps, ChecksFirst
<1>3. CASE ExprLiteral
  BY <1>3, SucceedsIInv, FailsIInv, HandleIsPassable, NothingIsPassable
     DEF ExprLiteral, ArgsPass, Kind, ReturnCode, Keeps, ChecksFirst
<1>4. CASE ExprBinary
  BY <1>4, RebuildsIInv, PairIsPassable
     DEF ExprBinary, Combines, ArgsPass, Kind, Keeps, ChecksFirst
<1>5. CASE ExprAnd
  BY <1>5, RebuildsIInv, PairIsPassable
     DEF ExprAnd, Combines, ArgsPass, Kind, Keeps, ChecksFirst
<1>6. CASE ExprOr
  BY <1>6, RebuildsIInv, PairIsPassable
     DEF ExprOr, Combines, ArgsPass, Kind, Keeps, ChecksFirst
<1>7. CASE ExprNot
  BY <1>7, RebuildsIInv, HandleIsPassable, NothingIsPassable
     DEF ExprNot, ArgsPass, Kind, Keeps, ChecksFirst
<1>8. CASE ExprIsNull
  BY <1>8, RebuildsIInv, HandleIsPassable, NothingIsPassable
     DEF ExprIsNull, ArgsPass, Kind, Keeps, ChecksFirst
<1>9. CASE ExprIsNotNull
  BY <1>9, RebuildsIInv, HandleIsPassable, NothingIsPassable
     DEF ExprIsNotNull, ArgsPass, Kind, Keeps, ChecksFirst
<1>10. CASE ExprInList
  <2>. PICK e \in Arg("Expr"), list \in SUBSET Arg("Expr"), ok \in ArgsPass :
         /\ e \notin list \ {NULL}
         /\ list # {} => e # NULL \/ "listOnly" \in BadInputs
         /\ \/ e = NULL /\ Fails("expr_in_list", {e} \cup list, "Null", {})
            \/ /\ e # NULL /\ ~ok /\ list = {}
               /\ Fails("expr_in_list", {e} \cup list, "Null", {e})
            \/ /\ e # NULL /\ NULL \in list
               /\ Fails("expr_in_list", {e} \cup list, "Null", ({e} \cup list) \ {NULL})
            \/ /\ e # NULL /\ NULL \notin list /\ ok
               /\ Succeeds("expr_in_list", {e} \cup list, {e} \cup list, {"Expr"})
    BY <1>10 DEF ExprInList
  <2>1. Passable({e} \cup list)
    BY ExprIsLive DEF Passable
  <2>2. \A rc : ~Keeps("expr_in_list", rc)
    BY DEF Keeps, ChecksFirst
  <2>3. "Null" \in ReturnCode \ {"Success"} /\ {"Expr"} \subseteq Kind \ {"Message"}
    BY DEF ReturnCode, Kind
  <2>. DEFINE given == {e} \cup list
  <2>4. CASE e = NULL /\ Fails("expr_in_list", given, "Null", {})
    <3>1. given \ {NULL} = {} \/ Accountable(given \ {NULL}, {})
      <4>1. CASE list = {}
        BY <2>4, <4>1
      <4>2. CASE list # {}
        <5>1. "Expr" \in MayLeak
          BY <2>4, <4>2 DEF MayLeak, Kind
        <5>. QED BY <2>4, <5>1 DEF Accountable, Arg, Handle
      <4>. QED BY <4>1, <4>2
    <3>. HIDE DEF given
    <3>. QED BY <3>1, <2>1, <2>2, <2>3, <2>4, FailsIInv DEF given
  <2>5. CASE e # NULL /\ list = {} /\ Fails("expr_in_list", given, "Null", {e})
    <3>1. {e} = given \ {NULL}
      BY <2>5
    <3>. QED BY <3>1, <2>1, <2>2, <2>3, <2>5, FailsIInv
  <2>6. CASE Fails("expr_in_list", given, "Null", given \ {NULL})
    BY <2>1, <2>2, <2>3, <2>6, FailsIInv
  <2>7. CASE e # NULL /\ NULL \notin list /\ Succeeds("expr_in_list", given, given, {"Expr"})
    <3>1. given = given \ {NULL}
      BY <2>7
    <3>. QED BY <3>1, <2>1, <2>3, <2>7, SucceedsIInv
  <2>. QED BY <2>4, <2>5, <2>6, <2>7
<1>11. CASE ExprArrayHas
  BY <1>11, RebuildsIInv, FailsIInv, PairIsPassable
     DEF ExprArrayHas, Combines, Kind, ReturnCode, Keeps, ChecksFirst
<1>12. CASE ExprClone
  BY <1>12, RebuildsIInv, HandleIsPassable, NothingIsPassable
     DEF ExprClone, ArgsPass, Kind, Keeps, ChecksFirst
<1>13. CASE ExprFree
  BY <1>13, FreesIInv DEF ExprFree, Kind
<1>14. CASE ExprJsonGet
  BY <1>14, RebuildsIInv, HandleIsPassable, NothingIsPassable
     DEF ExprJsonGet, ArgsPass, Kind, Keeps, ChecksFirst
<1>15. CASE ExprJsonArrayHas
  BY <1>15, RebuildsIInv, PairIsPassable
     DEF ExprJsonArrayHas, Combines, ArgsPass, Kind, Keeps, ChecksFirst
<1>16. CASE JsonMatches
  <2>. DEFINE fn == "json_matches"
  <2>1. PICK e \in Arg("Expr") :
          \/ Fails(fn, {e}, "InvalidArgument", {e} \ {NULL})
          \/ /\ e # NULL
             /\ \/ \E made \in {{}, {"Matches"}} : Succeeds(fn, {e}, {e}, made)
                \/ \E rc \in {"InvalidArgument", "Error"} : Fails(fn, {e}, rc, {e})
    BY <1>16 DEF JsonMatches
  <2>2. e \in Handle("Expr") \cup {NULL} /\ "Expr" \in Kind \ {"Message"}
    BY DEF Arg, Kind
  <2>3. \A rc : ~Keeps(fn, rc)
    BY DEF Keeps, ChecksFirst
  <2>4. {"InvalidArgument", "Error"} \subseteq ReturnCode \ {"Success"}
    BY DEF ReturnCode
  <2>5. \A made \in {{}, {"Matches"}} : made \in SUBSET (Kind \ {"Message"})
    BY DEF Kind
  <2>. HIDE DEF fn
  <2>6. CASE Fails(fn, {e}, "InvalidArgument", {e} \ {NULL})
    BY <2>6, <2>2, <2>3, <2>4, TakesOnFailure
  <2>7. ASSUME e # NULL, NEW made \in {{}, {"Matches"}}, Succeeds(fn, {e}, {e}, made)
        PROVE  IInv' /\ TakesWhole
    BY <2>7, <2>2, <2>5, TakesOnSuccess
  <2>8. ASSUME e # NULL, NEW rc \in {"InvalidArgument", "Error"}, Fails(fn, {e}, rc, {e})
        PROVE  IInv' /\ TakesWhole
    BY <2>8, <2>2, <2>3, <2>4, TakesOnFailure
  <2>. QED BY <2>1, <2>6, <2>7, <2>8
<1>17. CASE FreeJsonMatches
  BY <1>17, FreesIInv DEF FreeJsonMatches, Kind
<1>. QED
  BY <1>1, <1>2, <1>3, <1>4, <1>5, <1>6, <1>7, <1>8, <1>9, <1>10, <1>11, <1>12, <1>13, <1>14, <1>15, <1>16, <1>17 DEF ExprNext

LEMMA FiltersIInv ==
  ASSUME IInv, NEW fn \in ChecksFirst, NEW kind, Filters(fn, kind)
  PROVE  IInv' /\ TakesWhole
  BY SucceedsIInv, FailsIInv, HandleIsPassable
     DEF Filters, Kind, ReturnCode, Keeps, ChecksFirst

(* Every entry point of query.rs preserves the invariant. *)
LEMMA QueryIInv ==
  ASSUME IInv, QueryNext
  PROVE  IInv' /\ TakesWhole
<1>1. CASE QueryNew
  BY <1>1, RebuildsIInv, HandleIsPassable, NothingIsPassable
     DEF QueryNew, ArgsPass, Kind, Keeps, ChecksFirst
<1>2. CASE VectorQueryNew
  BY <1>2, RebuildsIInv, HandleIsPassable, NothingIsPassable
     DEF VectorQueryNew, ArgsPass, Kind, Keeps, ChecksFirst
<1>3. CASE QuerySetter
  BY <1>3, SucceedsIInv, FailsIInv, HandleIsPassable, NothingIsPassable
     DEF QuerySetter, ArgsPass, Kind, ReturnCode, Keeps, ChecksFirst, Sets
<1>4. CASE VectorQuerySetter
  BY <1>4, SucceedsIInv, FailsIInv, HandleIsPassable, NothingIsPassable
     DEF VectorQuerySetter, ArgsPass, Kind, ReturnCode, Keeps, ChecksFirst, Sets
<1>5. CASE VectorQueryTuning
  BY <1>5, SucceedsIInv, FailsIInv, HandleIsPassable, NothingIsPassable
     DEF VectorQueryTuning, ArgsPass, Kind, ReturnCode, Keeps, ChecksFirst, Sets
<1>6. CASE QueryDfFilter
  BY <1>6, FiltersIInv DEF QueryDfFilter, Kind, ChecksFirst
<1>7. CASE VectorQueryDfFilter
  BY <1>7, FiltersIInv DEF VectorQueryDfFilter, Kind, ChecksFirst
<1>8. CASE QueryExecute
  BY <1>8, RebuildsIInv, HandleIsPassable, NothingIsPassable
     DEF QueryExecute, ArgsPass, Kind, Keeps, ChecksFirst, Executes
<1>9. CASE VectorQueryExecute
  BY <1>9, RebuildsIInv, HandleIsPassable, NothingIsPassable
     DEF VectorQueryExecute, ArgsPass, Kind, Keeps, ChecksFirst, Executes
<1>10. CASE QueryResultToArrow
  <2>. DEFINE fn == "query_result_to_arrow"
  <2>1. PICK r \in Arg("Result"), made \in {{}, {"Arrays", "Schema"}} :
          \/ Fails(fn, {r}, "InvalidArgument", {})
          \/ r # NULL /\ Succeeds(fn, {r}, {r}, made)
          \/ r # NULL /\ Fails(fn, {r}, "Error", {r})
    BY <1>10 DEF QueryResultToArrow
  <2>2. r \in Handle("Result") \cup {NULL} /\ "Result" \in Kind \ {"Message"}
    BY DEF Arg, Kind
  <2>3. CASE Fails(fn, {r}, "InvalidArgument", {})
    <3>1. Keeps(fn, "InvalidArgument") /\ "InvalidArgument" \in ReturnCode \ {"Success"}
      BY DEF Keeps, ChecksFirst, ReturnCode
    <3>. HIDE DEF fn
    <3>. QED BY <3>1, <2>3, <2>2, TakesOnFailure
  <2>4. CASE r # NULL /\ Succeeds(fn, {r}, {r}, made)
    <3>1. made \in SUBSET (Kind \ {"Message"})
      BY DEF Kind
    <3>. QED BY <3>1, <2>4, <2>2, TakesOnSuccess
  <2>5. CASE r # NULL /\ Fails(fn, {r}, "Error", {r})
    BY <2>5, <2>2, TakesOnFailure DEF Keeps, ReturnCode
  <2>. QED BY <2>1, <2>3, <2>4, <2>5
<1>11. CASE QueryFree
  BY <1>11, FreesIInv DEF QueryFree, Kind
<1>12. CASE VectorQueryFree
  BY <1>12, FreesIInv DEF VectorQueryFree, Kind
<1>13. CASE QueryResultFree
  BY <1>13, FreesIInv DEF QueryResultFree, Kind
<1>14. CASE FreeArrowArrays
  BY <1>14, FreesIInv DEF FreeArrowArrays, Kind
<1>. QED
  BY <1>1, <1>2, <1>3, <1>4, <1>5, <1>6, <1>7, <1>8, <1>9, <1>10, <1>11, <1>12, <1>13, <1>14 DEF QueryNext

-----------------------------------------------------------------------------

LEMMA InitIInv == Init => IInv
  BY NullAssumption
     DEF Init, IInv, TypeOK, DriftIsConfined, MessageIsLive, Live, Free, ReturnCode

LEMMA NextIInv == IInv /\ [Next]_vars => IInv' /\ [TakesWhole]_vars
<1>. SUFFICES ASSUME IInv, [Next]_vars PROVE IInv' /\ [TakesWhole]_vars
  OBVIOUS
<1>1. CASE UNCHANGED vars
  BY <1>1, MayLeakStays DEF vars, IInv, TypeOK, DriftIsConfined, MessageIsLive, Live
<1>. QED
  BY <1>1, ConnectionIInv, TableIInv, ExprIInv, QueryIInv, FreeStringIInv DEF Next

LEMMA SpecIInv == Spec => []IInv
  BY InitIInv, NextIInv, PTL DEF Spec

(* Every reachable state has the declared types: in particular no call     *)
(* allocates at an address that is not free.                               *)
THEOREM TypeCorrect == Spec => []TypeOK
<1>1. IInv => TypeOK BY DEF IInv
<1>. QED BY SpecIInv, <1>1, PTL

(* The client's error message pointer is always null or the one message on *)
(* the heap, whatever the client passes: set_error_message never leaks a   *)
(* string and lancedb_free_string never frees one twice.                   *)
THEOREM MessagesAreFreedOnce == Spec => []MessageIsLive
<1>1. IInv => MessageIsLive BY DEF IInv
<1>. QED BY SpecIInv, <1>1, PTL

(* Whatever ill-formed inputs a client passes, what leaks is only a reader,*)
(* an array, a provider or an expression that was rejected before it was   *)
(* taken, each for its own kind of input, and only a provider without      *)
(* inner is freed behind its caller's back.                                *)
THEOREM OnlyRejectedArgumentsLeak == Spec => []DriftIsConfined
<1>1. IInv => DriftIsConfined BY DEF IInv
<1>. QED BY SpecIInv, <1>1, PTL

(* For a client that passes no malformed schema, provider, scheme or list, *)
(* what is allocated is at any time exactly what the client knows it has   *)
(* to free: no entry point, on any of its paths, leaks an argument or      *)
(* frees one the client keeps.                                             *)
THEOREM NothingLeaksNothingDangles == WellFormed => (Spec => []OwnedIsLive)
<1>. SUFFICES ASSUME WellFormed PROVE Spec => []OwnedIsLive
  OBVIOUS
<1>1. MayLeak = {} /\ "provider" \notin BadInputs
  BY DEF WellFormed, MayLeak
<1>2. IInv => OwnedIsLive
  BY <1>1 DEF IInv, TypeOK, DriftIsConfined, OwnedIsLive, Live
<1>. QED BY SpecIInv, <1>2, PTL

(* Every entry point, on every path and for whatever inputs, ill-formed    *)
(* ones included, frees all the pointers passed to it in consuming         *)
(* positions or none of them.                                              *)
THEOREM CallsTakeAllOrNothing == Spec => TakesAllOrNothing
BY SpecIInv, NextIInv, PTL DEF Spec, TakesAllOrNothing
=============================================================================
