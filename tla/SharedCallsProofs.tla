-------------------------- MODULE SharedCallsProofs ---------------------------
(***************************************************************************)
(* Proof that calls on shared handles are atomic at the boundary, for any  *)
(* number of threads, tables and queries.                                  *)
(***************************************************************************)
EXTENDS SharedCalls, SharedHandlesProofs

(* No connection is freed under a call that opens a table through it.      *)
Open == \A th \in Threads : call[th].op = "open_table" => connection = "live"

SInv == Typed /\ HoldersFit /\ Open

LEMMA OpenStays ==
  ASSUME Open, NEW th \in Threads,
         \A other \in Threads : other # th => call'[other] = call[other],
         call'[th].op \in {call[th].op, "none"} \/ call'[th].op # "open_table" \/ connection = "live",
         connection' \in {connection, "live"}
  PROVE  Open'
  BY DEF Open

LEMMA InitSInv == Init => SInv
<1>1. Init => Open
  BY IdleTyped DEF Init, Open
<1>. QED BY <1>1, InitTyped, InitHolders DEF SInv

LEMMA NextSInv == SInv /\ [Next]_vars => SInv'
<1>. SUFFICES ASSUME SInv, [Next]_vars PROVE Open'
  BY NextTyped, NextHolders DEF SInv
<1>. USE DEF SInv
<1>0. call \in [Threads -> Call]
  BY DEF Typed, TypeOK
<1>1. ASSUME NEW th \in Threads, StartsCall(th)
      PROVE  Open'
  <2>1. PICK op, step, t, q : Begins(th, op, step, t, q) /\ (op = "open_table" => connection = "live")
    BY <1>1 DEF StartsCall, ConnectBuilderExecute, ConnectionUri, OpenTable, CountRows,
                QueryExecute, QueryResultToArrow
  <2>2. /\ call'[th].op = op
        /\ \A other \in Threads : other # th => call'[other] = call[other]
    BY <1>0, <2>1 DEF Begins
  <2>3. connection' = connection
    BY <1>1 DEF StartsCall, ConnectBuilderExecute, ConnectionUri, OpenTable, CountRows,
                QueryExecute, QueryResultToArrow
  <2>. QED BY <2>1, <2>2, <2>3, OpenStays
<1>2. ASSUME NEW th \in Threads, Runs(th)
      PROVE  Open'
  <2>1. (\E step : GoesTo(th, step)) \/ Returns(th)
    BY <1>2 DEF Runs, FindRuntime, ClaimRuntime, MakeRuntime, Connected, FindUri, ClaimUri,
                MakeUri, TableOpened, RowsCounted, QueryExecuted, QueryDropped, ResultCollected
  <2>2. /\ call'[th].op \in {call[th].op, "none"}
        /\ \A other \in Threads : other # th => call'[other] = call[other]
    BY <1>0, <2>1, IdleTyped DEF GoesTo, Returns, Call
  <2>3. connection' \in {connection, "live"}
    BY <1>2 DEF Runs, FindRuntime, ClaimRuntime, MakeRuntime, Connected, FindUri, ClaimUri,
                MakeUri, TableOpened, RowsCounted, QueryExecuted, QueryDropped, ResultCollected
  <2>. QED BY <2>2, <2>3, OpenStays
<1>3. CASE ConnectionFree
  BY <1>3 DEF ConnectionFree, Open
<1>4. ASSUME UNCHANGED <<connection, call>>
      PROVE  Open'
  BY <1>4 DEF Open
<1>5. ASSUME NEW t \in Tables, TableFree(t)
      PROVE  Open'
  BY <1>4, <1>5 DEF TableFree
<1>6. ASSUME NEW q \in Queries, QueryFree(q)
      PROVE  Open'
  BY <1>4, <1>6 DEF QueryFree
<1>7. ASSUME NEW q \in Queries, NEW t \in Tables, QueryNew(q, t)
      PROVE  Open'
  BY <1>4, <1>7 DEF QueryNew
<1>8. CASE UNCHANGED vars
  BY <1>4, <1>8 DEF vars
<1>. QED BY <1>1, <1>2, <1>3, <1>5, <1>6, <1>7, <1>8 DEF Next, Frees

-----------------------------------------------------------------------------
(* What the client owns is what is there.                                  *)

(* Objects by their kinds.                                                 *)
LEMMA ObjectFacts ==
  /\ TheConnection \in Object /\ TheConnection[1] = "Connection"
  /\ \A th \in Threads : <<"ConnectBuilder", th>> \in Object
  /\ \A t \in Tables : <<"Table", t>> \in Object
  /\ \A q \in Queries : <<"Query", q>> \in Object /\ <<"Result", q>> \in Object
  /\ <<"null", None>> \notin Object
  BY DEF Object, TheConnection

LEMMA SameObjects ==
  ASSUME NEW A \in SUBSET Object, NEW B \in SUBSET Object,
         TheConnection \in A <=> TheConnection \in B,
         \A th \in Threads : <<"ConnectBuilder", th>> \in A <=> <<"ConnectBuilder", th>> \in B,
         \A t \in Tables : <<"Table", t>> \in A <=> <<"Table", t>> \in B,
         \A q \in Queries : <<"Query", q>> \in A <=> <<"Query", q>> \in B,
         \A q \in Queries : <<"Result", q>> \in A <=> <<"Result", q>> \in B
  PROVE  A = B
<1>1. \A o \in Object : o \in A <=> o \in B
  BY DEF Object
<1>. QED BY <1>1

OwnedFits ==
  /\ Owned \subseteq Object
  /\ TheConnection \in Owned <=> connection = "live"
  /\ \A th \in Threads :
       <<"ConnectBuilder", th>> \in Owned <=> call[th].op = "connect_builder_execute"
  /\ \A t \in Tables : <<"Table", t>> \in Owned <=> t \in tables
  /\ \A q \in Queries : <<"Query", q>> \in Owned <=> OwnsQuery(q)
  /\ \A q \in Queries : <<"Result", q>> \in Owned <=> OwnsResult(q)

LEMMA OwnedByKind == OwnedFits
<1>1. ASSUME NEW o \in Object
      PROVE  /\ o[1] = "Connection" => (o \in Owned <=> connection = "live")
             /\ o[1] = "ConnectBuilder" =>
                  (o \in Owned <=> call[o[2]].op = "connect_builder_execute")
             /\ o[1] = "Table" => (o \in Owned <=> o[2] \in tables)
             /\ o[1] = "Query" => (o \in Owned <=> OwnsQuery(o[2]))
             /\ o[1] = "Result" => (o \in Owned <=> OwnsResult(o[2]))
  BY DEF Owned, Connecting
<1>. QED BY <1>1, ObjectFacts DEF OwnedFits, Owned

LEMMA OwnedStaysByKind == OwnedFits'
  BY OwnedByKind, PTL

LEMMA AllocatedIsOwned == SInv => \A o \in Object : Allocated(o) <=> o \in Owned
<1>. SUFFICES ASSUME SInv PROVE \A o \in Object : Allocated(o) <=> o \in Owned
  OBVIOUS
<1>. USE DEF SInv
<1>1. \A t \in Tables : Keeps("table", t) <=> t \in tables
  BY DEF Keeps, HoldersFit, HolderFits
<1>2. ASSUME NEW q \in Queries
      PROVE  /\ Keeps("query", q) <=> OwnsQuery(q)
             /\ Keeps("result", q) /\ queries[q] # "returning" <=> OwnsResult(q)
  <2>1. QueryFits(q) /\ \A th \in Threads : CallFits(th)
    BY DEF Typed, CallsMatch
  <2>2. OwnsQuery(q) \/ OwnsResult(q) \/ queries[q] = "returning" => target[q] \in Tables
    BY <2>1 DEF OwnsQuery, OwnsResult, Passed, CallFits, QueryFits, QueryOps
  <2>3. /\ InQuery(q) <=> OwnsQuery(q)
        /\ InResult(q) /\ queries[q] # "returning" => OwnsResult(q)
        /\ OwnsResult(q) => InResult(q) /\ queries[q] # "returning"
    BY <2>1 DEF InQuery, InResult, OwnsQuery, OwnsResult, Passed, CallFits, QueryOps
  <2>4. /\ Keeps("query", q) <=> target[q] \in Tables /\ InQuery(q)
        /\ Keeps("result", q) <=> target[q] \in Tables /\ InResult(q)
    BY DEF Keeps, HoldersFit, HolderFits
  <2>. QED BY <2>2, <2>3, <2>4
<1>3. ASSUME NEW o \in Object
      PROVE  Allocated(o) <=> o \in Owned
  <2>1. CASE o[1] \in {"Connection", "ConnectBuilder"}
    BY <2>1 DEF Allocated, Owned
  <2>2. CASE o[1] = "Table"
    <3>1. o[2] \in Tables
      BY <2>2 DEF Object, TheConnection
    <3>. QED BY <1>1, <2>2, <3>1 DEF Allocated, Owned
  <2>3. CASE o[1] \in {"Query", "Result"}
    <3>1. o[2] \in Queries
      BY <2>3 DEF Object, TheConnection
    <3>. QED BY <1>2, <2>3, <3>1 DEF Allocated, Owned
  <2>. QED BY <2>1, <2>2, <2>3 DEF Object, TheConnection
<1>. QED BY <1>3

Balanced == ApiHeap = [o \in Object |-> IF o \in Owned THEN o[1] ELSE "free"]

LEMMA HeapIsOwned == SInv => Balanced
  BY AllocatedIsOwned DEF Balanced, ApiHeap

LEMMA HeapStaysOwned == SInv' => Balanced'
  BY HeapIsOwned, PTL

-----------------------------------------------------------------------------
(* Steps of the protocol, by what they do to what the client owns.         *)

LEMMA NothingIsFresh == Api!Nothing \in Api!Fresh({}) /\ DOMAIN Api!Nothing = {}
<1>1. Api!Nothing \in [{} -> {}] /\ DOMAIN Api!Nothing = {}
  BY DEF Api!Nothing
<1>2. {} \in SUBSET (Object \ Api!Live)
  OBVIOUS
<1>. QED BY <1>1, <1>2 DEF Api!Fresh

LEMMA OwnedCanBePassed ==
  ASSUME SInv, NEW o \in Owned
  PROVE  o \in Api!Arg(o[1]) /\ o # <<"null", None>>
  BY HeapIsOwned, ObjectFacts, OwnedByKind DEF OwnedFits, Balanced, Api!Arg, Api!Handle

LEMMA ArgumentsAreNotNull ==
  ASSUME NEW given \in SUBSET Owned
  PROVE  given \ {<<"null", None>>} = given
  BY ObjectFacts, OwnedByKind DEF OwnedFits

LEMMA CallUnseen ==
  ASSUME SInv, SInv', Owned' = Owned, last' = last
  PROVE  UNCHANGED Api!vars
  BY HeapIsOwned, HeapStaysOwned DEF Balanced, Api!vars

LEMMA CallMakesNothing ==
  ASSUME SInv, SInv', NEW fn \in EntryPoint, NEW given \in SUBSET Owned,
         Owned' = Owned \ given, last' = Returned(fn, "Success", given)
  PROVE  Api!Succeeds(fn, given, given, {})
<1>1. ApiHeap' = [o \in Object |-> IF o \in DOMAIN Api!Nothing THEN Api!Nothing[o]
                                  ELSE IF o \in given THEN Api!Free ELSE ApiHeap[o]]
  BY HeapIsOwned, HeapStaysOwned, NothingIsFresh DEF Balanced, Api!Free
<1>2. Api!Exchange(fn, given, "Success", given, Api!Nothing)
  BY <1>1, NothingIsFresh DEF Api!Exchange, Api!Keeps
<1>. QED BY <1>2, NothingIsFresh, ArgumentsAreNotNull DEF Api!Succeeds, Returned

LEMMA CallMakes ==
  ASSUME SInv, SInv', NEW fn \in EntryPoint, NEW given \in SUBSET Owned,
         NEW o \in Object \ Owned, Owned' = (Owned \ given) \cup {o},
         last' = Returned(fn, "Success", given)
  PROVE  Api!Succeeds(fn, given, given, {o[1]})
<1>. DEFINE new == [x \in {o} |-> o[1]]
<1>0. \A x \in Object : x[1] # "free"
  BY DEF Object, TheConnection
<1>1. new \in Api!Fresh({o[1]})
  <2>1. {o} \in SUBSET (Object \ Api!Live)
    BY HeapIsOwned DEF Balanced, Api!Live, Api!Free
  <2>2. new \in [{o} -> {o[1]}]
    OBVIOUS
  <2>3. new \in UNION {[S -> {o[1]}] : S \in SUBSET (Object \ Api!Live)}
    BY <2>1, <2>2
  <2>. QED BY <2>3 DEF Api!Fresh
<1>2. ApiHeap' = [x \in Object |-> IF x \in DOMAIN new THEN new[x]
                                  ELSE IF x \in given THEN Api!Free ELSE ApiHeap[x]]
  BY HeapIsOwned, HeapStaysOwned DEF Balanced, Api!Free
<1>3. Api!Exchange(fn, given, "Success", given, new)
  BY <1>2 DEF Api!Exchange, Api!Keeps
<1>. QED BY <1>1, <1>3, ArgumentsAreNotNull DEF Api!Succeeds, Returned

LEMMA CallFails ==
  ASSUME SInv, SInv', NEW fn \in EntryPoint, NEW given \in SUBSET Owned,
         NEW code \in {"Error", "Null"},
         Owned' = Owned \ given, last' = Returned(fn, code, given)
  PROVE  Api!FailsSilently(fn, given, code, given, FALSE)
<1>1. ApiHeap' = [o \in Object |-> IF o \in DOMAIN Api!Nothing THEN Api!Nothing[o]
                                  ELSE IF o \in given THEN Api!Free ELSE ApiHeap[o]]
  BY HeapIsOwned, HeapStaysOwned, NothingIsFresh DEF Balanced, Api!Free
<1>2. Api!Exchange(fn, given, code, given, Api!Nothing)
  BY <1>1, NothingIsFresh DEF Api!Exchange, Api!Keeps
<1>. QED BY <1>2, ArgumentsAreNotNull DEF Api!FailsSilently, Returned

LEMMA HandleGoes ==
  ASSUME SInv, SInv', NEW fn \in EntryPoint, NEW o \in Owned,
         Owned' = Owned \ {o}, last' = Returned(fn, "Success", {o})
  PROVE  Api!Frees(fn, o[1])
<1>1. Api!Succeeds(fn, {o}, {o}, {})
  BY CallMakesNothing
<1>2. {o} \ {<<"null", None>>} = {o}
  BY ArgumentsAreNotNull
<1>. QED BY <1>1, <1>2, OwnedCanBePassed DEF Api!Frees

-----------------------------------------------------------------------------
(* What a step of a thread does to the queries that the client owns.       *)

LEMMA NobodyHasIt ==
  ASSUME Typed, NEW q \in Queries, queries[q] \notin {"taken", "returning"}, NEW op \in QueryOps
  PROVE  ~Passed(op, q)
  BY DEF Typed, CallsMatch, CallFits, Passed

LEMMA OneHasIt ==
  ASSUME Typed, NEW th \in Threads, call[th].op \in QueryOps
  PROVE  /\ call[th].query \in Queries /\ call[th].query # None
         /\ queries[call[th].query] \in {"taken", "returning"}
         /\ \A other \in Threads : call[other].query = call[th].query => other = th
  BY NoneAssumption DEF Typed, CallsMatch, CallFits, Alone

LEMMA OwnersStay ==
  ASSUME NEW th \in Threads, \A other \in Threads : other # th => call'[other] = call[other],
         NEW q \in Queries, queries'[q] = queries[q],
         \A op \in QueryOps : call'[th].op = op /\ call'[th].query = q
                                <=> call[th].op = op /\ call[th].query = q
  PROVE  (OwnsQuery(q)' <=> OwnsQuery(q)) /\ (OwnsResult(q)' <=> OwnsResult(q))
<1>1. \A op \in QueryOps : Passed(op, q)' <=> Passed(op, q)
  BY DEF Passed
<1>2. (OwnsQuery(q)' <=> queries'[q] = "query" \/ Passed("query_execute", q)')
      /\ (OwnsResult(q)' <=> queries'[q] = "result" \/ Passed("query_result_to_arrow", q)')
  BY DEF OwnsQuery, OwnsResult, Passed
<1>. QED BY <1>1, <1>2 DEF OwnsQuery, OwnsResult, QueryOps

(* The queries that a thread's call is not about.                          *)
LEMMA OtherOwnersStay ==
  ASSUME NEW th \in Threads, \A other \in Threads : other # th => call'[other] = call[other],
         NEW q, \A p \in Queries \ {q} : queries'[p] = queries[p],
         call[th].query \in {q, None}, call'[th].query \in {q, None}
  PROVE  \A p \in Queries \ {q} :
           (OwnsQuery(p)' <=> OwnsQuery(p)) /\ (OwnsResult(p)' <=> OwnsResult(p))
  BY NoneAssumption, OwnersStay

LEMMA OwnedStays ==
  ASSUME UNCHANGED <<connection, tables>>,
         \A th \in Threads : call'[th].op = "connect_builder_execute"
                             <=> call[th].op = "connect_builder_execute",
         \A q \in Queries : (OwnsQuery(q)' <=> OwnsQuery(q)) /\ (OwnsResult(q)' <=> OwnsResult(q))
  PROVE  Owned' = Owned
  BY OwnedByKind, OwnedStaysByKind, SameObjects DEF OwnedFits

(* What the client has after it gives some objects and gets others.        *)
Moves(given, got) ==
  /\ connection' = "live" <=>
       TheConnection \in got \/ (connection = "live" /\ TheConnection \notin given)
  /\ \A th \in Threads :
       call'[th].op = "connect_builder_execute" <=>
         \/ <<"ConnectBuilder", th>> \in got
         \/ call[th].op = "connect_builder_execute" /\ <<"ConnectBuilder", th>> \notin given
  /\ \A t \in Tables :
       t \in tables' <=> <<"Table", t>> \in got \/ (t \in tables /\ <<"Table", t>> \notin given)
  /\ \A q \in Queries :
       OwnsQuery(q)' <=> <<"Query", q>> \in got \/ (OwnsQuery(q) /\ <<"Query", q>> \notin given)
  /\ \A q \in Queries :
       OwnsResult(q)' <=> <<"Result", q>> \in got \/ (OwnsResult(q) /\ <<"Result", q>> \notin given)

LEMMA OwnedMoves ==
  ASSUME NEW given \in SUBSET Object, NEW got \in SUBSET Object, Moves(given, got)
  PROVE  Owned' = (Owned \ given) \cup got
<1>. DEFINE after == (Owned \ given) \cup got
<1>1. after \in SUBSET Object /\ Owned' \in SUBSET Object
  BY OwnedByKind, OwnedStaysByKind DEF OwnedFits
<1>2. TheConnection \in Owned' <=> TheConnection \in after
  BY OwnedByKind, OwnedStaysByKind DEF OwnedFits, Moves
<1>3. \A th \in Threads : <<"ConnectBuilder", th>> \in Owned' <=> <<"ConnectBuilder", th>> \in after
  BY OwnedByKind, OwnedStaysByKind DEF OwnedFits, Moves
<1>4. \A t \in Tables : <<"Table", t>> \in Owned' <=> <<"Table", t>> \in after
  BY OwnedByKind, OwnedStaysByKind DEF OwnedFits, Moves
<1>5. \A q \in Queries : /\ <<"Query", q>> \in Owned' <=> <<"Query", q>> \in after
                         /\ <<"Result", q>> \in Owned' <=> <<"Result", q>> \in after
  BY OwnedByKind, OwnedStaysByKind DEF OwnedFits, Moves
<1>. HIDE DEF after
<1>6. Owned' = after
  BY <1>1, <1>2, <1>3, <1>4, <1>5, SameObjects
<1>. QED BY <1>6 DEF after

-----------------------------------------------------------------------------
(* Steps inside a call change nothing that the client owns.                *)

LEMMA GoingOnIsUnseen ==
  ASSUME SInv, NEW th \in Threads, NEW step, GoesTo(th, step),
         UNCHANGED <<connection, tables>>,
         \A q \in Queries : /\ queries'[q] = "query" <=> queries[q] = "query"
                            /\ queries'[q] = "result" <=> queries[q] = "result"
  PROVE  Owned' = Owned
<1>1. \A other \in Threads :
        call'[other].op = call[other].op /\ call'[other].query = call[other].query
  BY DEF GoesTo, SInv, Typed, TypeOK, Call
<1>2. \A q \in Queries : (OwnsQuery(q)' <=> OwnsQuery(q)) /\ (OwnsResult(q)' <=> OwnsResult(q))
  BY <1>1 DEF OwnsQuery, OwnsResult, Passed
<1>. QED BY <1>1, <1>2, OwnedStays

LEMMA WaitingIsUnseen ==
  ASSUME SInv, SInv', NEW th \in Threads, Waits(th)
  PROVE  Owned' = Owned
<1>. USE DEF SInv
<1>0. call \in [Threads -> Call] /\ queries \in [Queries -> Stage]
  BY DEF Typed, TypeOK
<1>1. ASSUME FindRuntime(th) \/ ClaimRuntime(th) \/ MakeRuntime(th) \/ ClaimUri(th)
      PROVE  Owned' = Owned
  <2>1. /\ \E step : GoesTo(th, step)
        /\ UNCHANGED <<connection, tables, queries>>
    BY <1>1 DEF FindRuntime, ClaimRuntime, MakeRuntime, ClaimUri
  <2>. QED BY <2>1, GoingOnIsUnseen
<1>2. CASE QueryExecuted(th)
  <2>1. call[th].op \in QueryOps /\ call[th].step = "block_on"
    BY <1>2 DEF QueryExecuted, At, QueryOps
  <2>2. queries[call[th].query] = "taken" /\ call[th].query \in Queries
    BY <2>1 DEF Typed, CallsMatch, CallFits
  <2>3. \A q \in Queries : /\ queries'[q] = "query" <=> queries[q] = "query"
                           /\ queries'[q] = "result" <=> queries[q] = "result"
    BY <1>0, <1>2, <2>2 DEF QueryExecuted
  <2>. QED BY <1>2, <2>3, GoingOnIsUnseen DEF QueryExecuted
<1>3. CASE FindUri(th) \/ MakeUri(th)
  <2>1. /\ call[th].op = "connection_uri" /\ call' = [call EXCEPT ![th] = Idle]
        /\ UNCHANGED <<connection, tables, queries>>
    BY <1>3 DEF FindUri, MakeUri, At, Returns
  <2>2. \A other \in Threads : call'[other] = IF other = th THEN Idle ELSE call[other]
    BY <1>0, <2>1
  <2>3. \A q \in Queries :
          (OwnsQuery(q)' <=> OwnsQuery(q)) /\ (OwnsResult(q)' <=> OwnsResult(q))
    BY <2>1, <2>2, IdleTyped, OwnersStay DEF QueryOps
  <2>. QED BY <2>1, <2>2, <2>3, IdleTyped, OwnedStays
<1>4. CASE ConnectionUri(th) \/ OpenTable(th) \/ \E t \in Tables : CountRows(th, t)
  <2>1. PICK op, step, t :
          /\ op \in {"connection_uri", "open_table", "count_rows"}
          /\ Begins(th, op, step, t, None)
          /\ UNCHANGED <<connection, tables, queries>>
    BY <1>4 DEF ConnectionUri, OpenTable, CountRows
  <2>2. /\ call[th] = Idle /\ call'[th].op = op
        /\ \A other \in Threads : other # th => call'[other] = call[other]
    BY <1>0, <2>1 DEF Begins
  <2>3. \A q \in Queries :
          (OwnsQuery(q)' <=> OwnsQuery(q)) /\ (OwnsResult(q)' <=> OwnsResult(q))
    BY <2>1, <2>2, IdleTyped, OwnersStay DEF QueryOps
  <2>. QED BY <2>1, <2>2, <2>3, IdleTyped, OwnedStays
<1>5. ASSUME NEW q \in Queries, QueryExecute(th, q) \/ QueryResultToArrow(th, q)
      PROVE  Owned' = Owned
  <2>1. PICK op \in QueryOps :
          /\ Begins(th, op, "RUNTIME", target[q], q)
          /\ queries[q] = IF op = "query_execute" THEN "query" ELSE "result"
          /\ queries' = [queries EXCEPT ![q] = "taken"]
          /\ UNCHANGED <<connection, tables>>
    BY <1>5 DEF QueryExecute, QueryResultToArrow, QueryOps
  <2>2. /\ call[th] = Idle /\ call'[th].op = op /\ call'[th].query = q
        /\ \A other \in Threads : other # th => call'[other] = call[other]
    BY <1>0, <2>1 DEF Begins
  <2>3. \A p \in Queries \ {q} :
          (OwnsQuery(p)' <=> OwnsQuery(p)) /\ (OwnsResult(p)' <=> OwnsResult(p))
    <3>1. \A p \in Queries \ {q} : queries'[p] = queries[p]
      BY <1>0, <2>1
    <3>. QED BY <2>2, <3>1, IdleTyped, OtherOwnersStay
  <2>4. queries[q] \notin {"taken", "returning"} /\ queries'[q] = "taken"
    BY <1>0, <2>1
  <2>5. \A other \in Threads : call'[other].query = q /\ call'[other].op \in QueryOps => other = th
    <3>1. \A passed \in QueryOps : ~Passed(passed, q)
      BY <2>4, NobodyHasIt
    <3>. QED BY <2>2, <3>1 DEF Passed
  <2>6. /\ OwnsQuery(q)' <=> op = "query_execute"
        /\ OwnsResult(q)' <=> op = "query_result_to_arrow"
    BY <2>2, <2>4, <2>5 DEF OwnsQuery, OwnsResult, Passed, QueryOps
  <2>7. /\ OwnsQuery(q) <=> op = "query_execute"
        /\ OwnsResult(q) <=> op = "query_result_to_arrow"
    BY <2>1, <2>4, NobodyHasIt DEF OwnsQuery, OwnsResult, QueryOps
  <2>8. \A other \in Threads : call'[other].op = "connect_builder_execute"
                              <=> call[other].op = "connect_builder_execute"
    BY <2>2, IdleTyped DEF QueryOps
  <2>. QED BY <2>1, <2>3, <2>6, <2>7, <2>8, OwnedStays
<1>. QED BY <1>1, <1>2, <1>3, <1>4, <1>5 DEF Waits

-----------------------------------------------------------------------------
(* A call that returns is a step of the protocol.                          *)

(* The return of a call that is not about a query.                         *)
LEMMA ReturnKeepsQueries ==
  ASSUME SInv, NEW th \in Threads, call[th].op \notin QueryOps, Returns(th), UNCHANGED queries
  PROVE  /\ \A q \in Queries :
              (OwnsQuery(q)' <=> OwnsQuery(q)) /\ (OwnsResult(q)' <=> OwnsResult(q))
         /\ \A other \in Threads : call'[other] = IF other = th THEN Idle ELSE call[other]
<1>1. \A other \in Threads : call'[other] = IF other = th THEN Idle ELSE call[other]
  BY DEF SInv, Typed, TypeOK, Returns
<1>. QED BY <1>1, IdleTyped, OwnersStay DEF QueryOps

LEMMA ConnectBegins ==
  ASSUME SInv, SInv', NEW th \in Threads, ConnectBuilderExecute(th),
         last' = Returned("connect", "Success", {})
  PROVE  Api!Next
<1>. DEFINE o == <<"ConnectBuilder", th>>
<1>1. /\ call[th] = Idle /\ call'[th].op = "connect_builder_execute" /\ call'[th].query = None
      /\ \A other \in Threads : other # th => call'[other] = call[other]
      /\ UNCHANGED <<connection, tables, queries>>
  BY DEF ConnectBuilderExecute, Begins, SInv, Typed, TypeOK
<1>2. \A q \in Queries : (OwnsQuery(q)' <=> OwnsQuery(q)) /\ (OwnsResult(q)' <=> OwnsResult(q))
  BY <1>1, IdleTyped, OwnersStay DEF QueryOps
<1>3. o \in Object \ Owned
  BY <1>1, IdleTyped, ObjectFacts, OwnedByKind DEF OwnedFits
<1>4. Owned' = (Owned \ {}) \cup {o}
  <2>1. Moves({}, {o})
    BY <1>1, <1>2, IdleTyped DEF Moves, TheConnection
  <2>. QED BY <1>3, <2>1, OwnedMoves
<1>5. Api!Succeeds("connect", {}, {}, {"ConnectBuilder"})
  BY <1>3, <1>4, CallMakes DEF EntryPoint
<1>6. Api!Connect
  BY <1>5 DEF Api!Connect, Api!Rebuilds, Api!ArgsPass
<1>. QED BY <1>6 DEF Api!ConnectionNext, Api!Next

LEMMA ConnectReturns ==
  ASSUME SInv, SInv', NEW th \in Threads, Connected(th),
         last' = Returned("connect_builder_execute",
                          IF connection' = connection THEN "Error" ELSE "Success",
                          {<<"ConnectBuilder", th>>})
  PROVE  Api!Next
<1>. DEFINE fn == "connect_builder_execute"
            b == <<"ConnectBuilder", th>>
<1>1. /\ call[th].op = fn /\ Returns(th) /\ UNCHANGED <<tables, queries>>
      /\ connection' = connection \/ (connection = "none" /\ connection' = "live")
  BY DEF Connected, At
<1>2. /\ \A q \in Queries :
           (OwnsQuery(q)' <=> OwnsQuery(q)) /\ (OwnsResult(q)' <=> OwnsResult(q))
      /\ \A other \in Threads : call'[other] = IF other = th THEN Idle ELSE call[other]
  BY <1>1, ReturnKeepsQueries DEF QueryOps
<1>3. b \in Owned /\ b \in Api!Arg("ConnectBuilder") /\ b # <<"null", None>>
  BY <1>1, OwnedByKind, OwnedCanBePassed DEF OwnedFits
<1>4. CASE connection' = connection
  <2>1. Owned' = Owned \ {b}
    <3>1. Moves({b}, {})
      BY <1>1, <1>2, <1>4, IdleTyped DEF Moves, TheConnection
    <3>. QED BY <3>1, ObjectFacts, OwnedMoves
  <2>2. Api!FailsSilently(fn, {b}, "Error", {b}, FALSE)
    BY <1>3, <1>4, <2>1, CallFails DEF EntryPoint
  <2>3. Api!ConnectBuilderExecute
    BY <1>3, <2>2 DEF Api!ConnectBuilderExecute, Api!Fails, Api!ArgsPass
  <2>. QED BY <2>3 DEF Api!ConnectionNext, Api!Next
<1>5. CASE connection = "none" /\ connection' = "live"
  <2>1. TheConnection \in Object \ Owned
    BY <1>5, ObjectFacts, OwnedByKind DEF OwnedFits
  <2>2. Owned' = (Owned \ {b}) \cup {TheConnection}
    <3>1. Moves({b}, {TheConnection})
      BY <1>1, <1>2, <1>5, IdleTyped DEF Moves, TheConnection
    <3>. QED BY <3>1, ObjectFacts, OwnedMoves
  <2>3. Api!Succeeds(fn, {b}, {b}, {TheConnection[1]})
    BY <1>3, <1>5, <2>1, <2>2, CallMakes DEF EntryPoint
  <2>4. Api!ConnectBuilderExecute
    BY <1>3, <2>3, ObjectFacts DEF Api!ConnectBuilderExecute, Api!ArgsPass
  <2>. QED BY <2>4 DEF Api!ConnectionNext, Api!Next
<1>. QED BY <1>1, <1>4, <1>5

(* Open: the connection is there for the call that opens a table.          *)
LEMMA OpenReturns ==
  ASSUME SInv, SInv', NEW th \in Threads, TableOpened(th),
         last' = Returned("connection_open_table",
                          IF tables' = tables THEN "Error" ELSE "Success", {})
  PROVE  Api!Next
<1>. DEFINE fn == "connection_open_table"
<1>1. /\ call[th].op = "open_table" /\ Returns(th) /\ UNCHANGED <<connection, queries>>
      /\ tables' = tables \/ \E t \in Tables \ tables : tables' = tables \cup {t}
  BY DEF TableOpened, At
<1>2. /\ \A q \in Queries :
           (OwnsQuery(q)' <=> OwnsQuery(q)) /\ (OwnsResult(q)' <=> OwnsResult(q))
      /\ \A other \in Threads : call'[other] = IF other = th THEN Idle ELSE call[other]
  BY <1>1, ReturnKeepsQueries DEF QueryOps
<1>3. TheConnection \in Api!Arg("Connection") /\ TheConnection # <<"null", None>>
  BY <1>1, ObjectFacts, OwnedByKind, OwnedCanBePassed DEF OwnedFits, SInv, Open
<1>4. \A other \in Threads : call'[other].op = "connect_builder_execute"
                            <=> call[other].op = "connect_builder_execute"
  BY <1>1, <1>2, IdleTyped
<1>5. CASE tables' = tables
  <2>1. Owned' = Owned \ {}
    BY <1>1, <1>2, <1>4, <1>5, OwnedStays
  <2>2. Api!FailsSilently(fn, {}, "Error", {}, FALSE)
    BY <1>5, <2>1, CallFails DEF EntryPoint
  <2>3. Api!ConnectionOpenTable
    BY <1>3, <2>2 DEF Api!ConnectionOpenTable, Api!Produces, Api!Fails
  <2>. QED BY <2>3 DEF Api!ConnectionNext, Api!Next
<1>6. ASSUME NEW t \in Tables \ tables, tables' = tables \cup {t}
      PROVE  Api!Next
  <2>. DEFINE o == <<"Table", t>>
  <2>1. o \in Object \ Owned
    BY <1>6, ObjectFacts, OwnedByKind DEF OwnedFits
  <2>2. Owned' = (Owned \ {}) \cup {o}
    <3>1. Moves({}, {o})
      BY <1>1, <1>2, <1>4, <1>6 DEF Moves, TheConnection
    <3>2. {} \in SUBSET Object /\ {o} \in SUBSET Object
      BY <2>1
    <3>. HIDE DEF o
    <3>. QED BY <3>1, <3>2, OwnedMoves
  <2>3. Api!Succeeds(fn, {}, {}, {"Table"})
    BY <1>6, <2>1, <2>2, CallMakes DEF EntryPoint
  <2>4. Api!ConnectionOpenTable
    BY <1>3, <2>3 DEF Api!ConnectionOpenTable, Api!Produces
  <2>. QED BY <2>4 DEF Api!ConnectionNext, Api!Next
<1>. QED BY <1>1, <1>5, <1>6

LEMMA CountReturns ==
  ASSUME SInv, SInv', NEW th \in Threads, RowsCounted(th),
         last' = Returned("table_count_rows", "Success", {})
  PROVE  Api!Next
<1>1. /\ call[th].op = "count_rows" /\ Returns(th) /\ UNCHANGED <<connection, tables, queries>>
  BY DEF RowsCounted, At
<1>2. /\ \A q \in Queries :
           (OwnsQuery(q)' <=> OwnsQuery(q)) /\ (OwnsResult(q)' <=> OwnsResult(q))
      /\ \A other \in Threads : call'[other] = IF other = th THEN Idle ELSE call[other]
  BY <1>1, ReturnKeepsQueries DEF QueryOps
<1>3. Owned' = Owned \ {}
  BY <1>1, <1>2, IdleTyped, OwnedStays
<1>4. Api!Succeeds("table_count_rows", {}, {}, {})
  BY <1>3, CallMakesNothing DEF EntryPoint
<1>5. call[th].table \in tables /\ tables \subseteq Tables
  BY <1>1 DEF SInv, Typed, TypeOK, CallsMatch, CallFits
<1>6. <<"Table", call[th].table>> \in Api!Arg("Table") /\ <<"Table", call[th].table>> # <<"null", None>>
  BY <1>5, OwnedByKind, OwnedCanBePassed DEF OwnedFits
<1>7. Api!TableCountRows
  BY <1>4, <1>6 DEF Api!TableCountRows, Api!Borrows
<1>. QED BY <1>7 DEF Api!TableNext, Api!Next

(* A query or a result that no call has taken is owned as it stands.       *)
LEMMA OwnedAsItStands ==
  ASSUME Typed, NEW q \in Queries, queries[q] \notin {"taken", "returning"}
  PROVE  /\ OwnsQuery(q) <=> queries[q] = "query"
         /\ OwnsResult(q) <=> queries[q] = "result"
  BY NobodyHasIt DEF OwnsQuery, OwnsResult, QueryOps

LEMMA QueryIsMade ==
  ASSUME SInv, SInv', NEW q \in Queries, NEW t \in Tables, QueryNew(q, t),
         last' = Returned("query_new", "Success", {})
  PROVE  Api!Next
<1>. USE DEF SInv
<1>. DEFINE o == <<"Query", q>>
<1>1. /\ queries[q] = "none" /\ t \in tables
      /\ queries'[q] = "query" /\ \A p \in Queries \ {q} : queries'[p] = queries[p]
      /\ UNCHANGED <<connection, tables, call>>
  BY DEF QueryNew, Typed, TypeOK
<1>2. \A p \in Queries \ {q} :
        (OwnsQuery(p)' <=> OwnsQuery(p)) /\ (OwnsResult(p)' <=> OwnsResult(p))
  BY <1>1 DEF OwnsQuery, OwnsResult, Passed
<1>3. ~OwnsQuery(q) /\ ~OwnsResult(q) /\ OwnsQuery(q)' /\ ~OwnsResult(q)'
  <2>1. ~Passed("query_execute", q) /\ ~Passed("query_result_to_arrow", q)
    BY <1>1, NobodyHasIt DEF QueryOps
  <2>2. ~Passed("query_result_to_arrow", q)'
    BY <1>1, <2>1 DEF Passed
  <2>3. OwnsQuery(q)' /\ ~OwnsResult(q)'
    BY <1>1, <2>2 DEF OwnsQuery, OwnsResult, Passed
  <2>. QED BY <1>1, <2>1, <2>3 DEF OwnsQuery, OwnsResult
<1>4. o \in Object \ Owned
  BY <1>3, ObjectFacts, OwnedByKind DEF OwnedFits
<1>5. Owned' = (Owned \ {}) \cup {o}
  <2>1. Moves({}, {o})
    BY <1>1, <1>2, <1>3 DEF Moves, TheConnection
  <2>2. {} \in SUBSET Object /\ {o} \in SUBSET Object
    BY <1>4
  <2>. HIDE DEF o
  <2>. QED BY <2>1, <2>2, OwnedMoves
<1>6. Api!Succeeds("query_new", {}, {}, {"Query"})
  BY <1>4, <1>5, CallMakes DEF EntryPoint
<1>7. <<"Table", t>> \in Api!Arg("Table") /\ <<"Table", t>> # <<"null", None>>
  BY <1>1, OwnedByKind, OwnedCanBePassed DEF OwnedFits
<1>8. Api!QueryNew
  <2>1. {} \ {<<"null", None>>} = {}
    OBVIOUS
  <2>. QED BY <1>6, <1>7, <2>1 DEF Api!QueryNew, Api!Rebuilds
<1>. QED BY <1>8 DEF Api!QueryNext, Api!Next

(* What becomes of the query that a returning call was about, and of the   *)
(* others.                                                                 *)
LEMMA QueryCallReturns ==
  ASSUME SInv, NEW th \in Threads, NEW op \in QueryOps, call[th].op = op, Returns(th),
         NEW q, q = call[th].query,
         \A p \in Queries \ {q} : queries'[p] = queries[p]
  PROVE  /\ q \in Queries
         /\ \A p \in Queries \ {q} :
              (OwnsQuery(p)' <=> OwnsQuery(p)) /\ (OwnsResult(p)' <=> OwnsResult(p))
         /\ OwnsQuery(q) <=> op = "query_execute"
         /\ OwnsResult(q) <=> op = "query_result_to_arrow"
         /\ OwnsQuery(q)' <=> queries'[q] = "query"
         /\ OwnsResult(q)' <=> queries'[q] = "result"
         /\ \A other \in Threads : call'[other].op = "connect_builder_execute"
                                 <=> call[other].op = "connect_builder_execute"
<1>. USE DEF SInv
<1>1. \A other \in Threads : call'[other] = IF other = th THEN Idle ELSE call[other]
  BY DEF Typed, TypeOK, Returns
<1>2. /\ q \in Queries /\ queries[q] \in {"taken", "returning"}
      /\ \A other \in Threads : call[other].query = q => other = th
  BY OneHasIt
<1>3. \A p \in Queries \ {q} :
        (OwnsQuery(p)' <=> OwnsQuery(p)) /\ (OwnsResult(p)' <=> OwnsResult(p))
  BY <1>1, IdleTyped, OtherOwnersStay
<1>4. /\ OwnsQuery(q) <=> op = "query_execute"
      /\ OwnsResult(q) <=> op = "query_result_to_arrow"
  BY <1>2 DEF OwnsQuery, OwnsResult, Passed
<1>5. \A other \in Threads : call'[other].query # q
  BY <1>1, <1>2, IdleTyped, NoneAssumption
<1>6. /\ OwnsQuery(q)' <=> queries'[q] = "query"
      /\ OwnsResult(q)' <=> queries'[q] = "result"
  BY <1>5 DEF OwnsQuery, OwnsResult, Passed
<1>7. \A other \in Threads : call'[other].op = "connect_builder_execute"
                            <=> call[other].op = "connect_builder_execute"
  BY <1>1, IdleTyped DEF QueryOps
<1>. QED BY <1>2, <1>3, <1>4, <1>6, <1>7

LEMMA ExecuteReturns ==
  ASSUME SInv, SInv', NEW th \in Threads, QueryDropped(th),
         last' = Returned("query_execute",
                          IF queries[call[th].query] = "returning" THEN "Success" ELSE "Null",
                          {<<"Query", call[th].query>>})
  PROVE  Api!Next
<1>0. call[th].op = "query_execute" /\ Returns(th) /\ UNCHANGED <<connection, tables>>
  BY DEF QueryDropped, At
<1>1. PICK q \in Queries : q = call[th].query
  BY <1>0, OneHasIt DEF SInv, QueryOps
<1>. DEFINE fn == "query_execute"
            o == <<"Query", q>>
            r == <<"Result", q>>
<1>2. /\ \/ queries[q] = "returning" /\ queries'[q] = "result"
         \/ queries[q] = "taken" /\ queries'[q] = "none"
      /\ \A p \in Queries \ {q} : queries'[p] = queries[p]
  BY <1>1 DEF QueryDropped, Gone, SInv, Typed, TypeOK
<1>3. /\ \A p \in Queries \ {q} :
           (OwnsQuery(p)' <=> OwnsQuery(p)) /\ (OwnsResult(p)' <=> OwnsResult(p))
      /\ OwnsQuery(q) /\ ~OwnsResult(q) /\ ~OwnsQuery(q)'
      /\ OwnsResult(q)' <=> queries[q] = "returning"
      /\ \A other \in Threads : call'[other].op = "connect_builder_execute"
                              <=> call[other].op = "connect_builder_execute"
  BY <1>0, <1>1, <1>2, QueryCallReturns DEF QueryOps
<1>4. /\ o \in Owned /\ o \in Api!Arg("Query") /\ o # <<"null", None>> /\ o \in Object
      /\ r \in Object \ Owned
  BY <1>1, <1>3, ObjectFacts, OwnedByKind, OwnedCanBePassed DEF OwnedFits
<1>5. {o} \ {<<"null", None>>} = {o}
  BY <1>4
<1>6. CASE queries[q] = "returning"
  <2>1. Owned' = (Owned \ {o}) \cup {r}
    <3>1. Moves({o}, {r})
      BY <1>0, <1>1, <1>3, <1>6 DEF Moves, TheConnection
    <3>2. {o} \in SUBSET Object /\ {r} \in SUBSET Object
      BY <1>4
    <3>. HIDE DEF o, r
    <3>. QED BY <3>1, <3>2, OwnedMoves
  <2>2. last' = Returned(fn, "Success", {o})
    BY <1>1, <1>6
  <2>3. Api!Succeeds(fn, {o}, {o}, {r[1]})
    <3>1. fn \in EntryPoint /\ {o} \in SUBSET Owned
      BY <1>4 DEF EntryPoint
    <3>. HIDE DEF fn, o, r
    <3>. QED BY <1>4, <2>1, <2>2, <3>1, CallMakes
  <2>4. Api!QueryExecute
    BY <1>4, <1>5, <2>3 DEF Api!QueryExecute, Api!Executes, Api!Rebuilds
  <2>. QED BY <2>4 DEF Api!QueryNext, Api!Next
<1>7. CASE queries[q] # "returning"
  <2>1. Owned' = Owned \ {o}
    <3>1. Moves({o}, {})
      BY <1>0, <1>1, <1>3, <1>7 DEF Moves, TheConnection
    <3>2. {o} \in SUBSET Object /\ {} \in SUBSET Object
      BY <1>4
    <3>. HIDE DEF o
    <3>3. Owned' = (Owned \ {o}) \cup {}
      BY <3>1, <3>2, OwnedMoves
    <3>. QED BY <3>3
  <2>2. last' = Returned(fn, "Null", {o})
    BY <1>1, <1>7
  <2>3. Api!FailsSilently(fn, {o}, "Null", {o}, FALSE)
    <3>1. fn \in EntryPoint /\ {o} \in SUBSET Owned
      BY <1>4 DEF EntryPoint
    <3>. HIDE DEF fn, o
    <3>. QED BY <2>1, <2>2, <3>1, CallFails
  <2>4. Api!QueryExecute
    BY <1>4, <1>5, <2>3 DEF Api!QueryExecute, Api!Executes, Api!Rebuilds, Api!ReturnsNull
  <2>. QED BY <2>4 DEF Api!QueryNext, Api!Next
<1>. QED BY <1>6, <1>7

LEMMA CollectReturns ==
  ASSUME SInv, SInv', NEW th \in Threads, ResultCollected(th), NEW code \in {"Success", "Error"},
         last' = Returned("query_result_to_arrow", code, {<<"Result", call[th].query>>})
  PROVE  Api!Next
<1>0. call[th].op = "query_result_to_arrow" /\ Returns(th) /\ UNCHANGED <<connection, tables>>
  BY DEF ResultCollected, At
<1>1. PICK q \in Queries : q = call[th].query
  BY <1>0, OneHasIt DEF SInv, QueryOps
<1>. DEFINE fn == "query_result_to_arrow"
            o == <<"Result", q>>
<1>2. queries'[q] = "none" /\ \A p \in Queries \ {q} : queries'[p] = queries[p]
  BY <1>1 DEF ResultCollected, Gone, SInv, Typed, TypeOK
<1>3. /\ \A p \in Queries \ {q} :
           (OwnsQuery(p)' <=> OwnsQuery(p)) /\ (OwnsResult(p)' <=> OwnsResult(p))
      /\ ~OwnsQuery(q) /\ OwnsResult(q) /\ ~OwnsQuery(q)' /\ ~OwnsResult(q)'
      /\ \A other \in Threads : call'[other].op = "connect_builder_execute"
                              <=> call[other].op = "connect_builder_execute"
  BY <1>0, <1>1, <1>2, QueryCallReturns DEF QueryOps
<1>4. o \in Owned /\ o \in Api!Arg("Result") /\ o # <<"null", None>> /\ o \in Object
  BY <1>1, <1>3, ObjectFacts, OwnedByKind, OwnedCanBePassed DEF OwnedFits
<1>5. Owned' = Owned \ {o}
  <2>1. Moves({o}, {})
    BY <1>0, <1>1, <1>3 DEF Moves, TheConnection
  <2>2. {o} \in SUBSET Object /\ {} \in SUBSET Object
    BY <1>4
  <2>. HIDE DEF o
  <2>3. Owned' = (Owned \ {o}) \cup {}
    BY <2>1, <2>2, OwnedMoves
  <2>. QED BY <2>3
<1>6. fn \in EntryPoint /\ {o} \in SUBSET Owned
  BY <1>4 DEF EntryPoint
<1>7. \/ Api!Succeeds(fn, {o}, {o}, {})
      \/ Api!Fails(fn, {o}, "Error", {o})
  <2>. HIDE DEF fn, o
  <2>1. CASE code = "Success"
    BY <1>1, <1>5, <1>6, <2>1, CallMakesNothing DEF fn, o
  <2>2. CASE code = "Error"
    <3>1. Api!FailsSilently(fn, {o}, "Error", {o}, FALSE)
      BY <1>1, <1>5, <1>6, <2>2, CallFails DEF fn, o
    <3>. QED BY <3>1 DEF Api!Fails
  <2>. QED BY <2>1, <2>2
<1>8. Api!QueryResultToArrow
  BY <1>4, <1>7 DEF Api!QueryResultToArrow, Api!ArgsPass
<1>. QED BY <1>8 DEF Api!QueryNext, Api!Next

LEMMA FreeReturns ==
  ASSUME SInv, SInv', HandleFreed
  PROVE  Api!Next
<1>. USE DEF SInv
<1>1. CASE ConnectionFree /\ last' = Returned("connection_free", "Success", {TheConnection})
  <2>1. /\ connection = "live" /\ connection' = "none"
        /\ UNCHANGED <<tables, queries, call>>
    BY <1>1 DEF ConnectionFree
  <2>2. Moves({TheConnection}, {})
    BY <2>1 DEF Moves, TheConnection, OwnsQuery, OwnsResult, Passed
  <2>3. TheConnection \in Owned /\ TheConnection \in Object /\ TheConnection[1] = "Connection"
    BY <2>1, OwnedByKind, ObjectFacts DEF OwnedFits
  <2>4. Owned' = Owned \ {TheConnection}
    <3>1. Owned' = (Owned \ {TheConnection}) \cup {}
      BY <2>2, <2>3, OwnedMoves
    <3>. QED BY <3>1
  <2>5. Api!Frees("connection_free", "Connection")
    BY <1>1, <2>3, <2>4, HandleGoes DEF EntryPoint
  <2>. QED BY <2>5 DEF Api!ConnectionFree, Api!ConnectionNext, Api!Next
<1>2. ASSUME NEW t \in Tables, TableFree(t),
             last' = Returned("table_free", "Success", {<<"Table", t>>})
      PROVE  Api!Next
  <2>. DEFINE o == <<"Table", t>>
  <2>1. /\ t \in tables /\ tables' = tables \ {t}
        /\ UNCHANGED <<connection, queries, call>>
    BY <1>2 DEF TableFree
  <2>2. Moves({o}, {})
    BY <2>1 DEF Moves, TheConnection, OwnsQuery, OwnsResult, Passed
  <2>3. o \in Owned /\ o \in Object /\ o[1] = "Table"
    BY <2>1, OwnedByKind, ObjectFacts DEF OwnedFits
  <2>4. last' = Returned("table_free", "Success", {o})
    BY <1>2
  <2>5. Owned' = Owned \ {o}
    <3>. HIDE DEF o
    <3>1. Owned' = (Owned \ {o}) \cup {}
      BY <2>2, <2>3, OwnedMoves
    <3>. QED BY <3>1
  <2>6. Api!Frees("table_free", "Table")
    <3>. HIDE DEF o
    <3>1. Api!Frees("table_free", o[1])
      BY <2>3, <2>4, <2>5, HandleGoes DEF EntryPoint
    <3>. QED BY <2>3, <3>1
  <2>. QED BY <2>6 DEF Api!TableFree, Api!ConnectionNext, Api!Next
<1>3. ASSUME NEW q \in Queries, QueryFree(q),
             last' = IF queries[q] = "query"
                       THEN Returned("query_free", "Success", {<<"Query", q>>})
                       ELSE Returned("query_result_free", "Success", {<<"Result", q>>})
      PROVE  Api!Next
  <2>. DEFINE kind == IF queries[q] = "query" THEN "Query" ELSE "Result"
              fn   == IF queries[q] = "query" THEN "query_free" ELSE "query_result_free"
              o    == <<kind, q>>
  <2>1. /\ queries[q] \in {"query", "result"} /\ queries'[q] = "none"
        /\ \A p \in Queries \ {q} : queries'[p] = queries[p]
        /\ UNCHANGED <<connection, tables, call>>
    BY <1>3 DEF QueryFree, Gone, Typed, TypeOK
  <2>2. /\ OwnsQuery(q) <=> queries[q] = "query"
        /\ OwnsResult(q) <=> queries[q] = "result"
    BY <2>1, OwnedAsItStands
  <2>3. ~OwnsQuery(q)' /\ ~OwnsResult(q)'
    <3>1. ~Passed("query_execute", q) /\ ~Passed("query_result_to_arrow", q)
      BY <2>1, NobodyHasIt DEF QueryOps
    <3>. QED BY <2>1, <3>1 DEF OwnsQuery, OwnsResult, Passed
  <2>4. \A p \in Queries \ {q} :
          (OwnsQuery(p)' <=> OwnsQuery(p)) /\ (OwnsResult(p)' <=> OwnsResult(p))
    BY <2>1 DEF OwnsQuery, OwnsResult, Passed
  <2>5. Moves({o}, {})
    BY <2>1, <2>2, <2>3, <2>4 DEF Moves, TheConnection
  <2>6. o \in Owned /\ o \in Object /\ o[1] = kind
    BY <2>1, <2>2, OwnedByKind, ObjectFacts DEF OwnedFits
  <2>7. last' = Returned(fn, "Success", {o})
    BY <1>3
  <2>8. Owned' = Owned \ {o}
    <3>. HIDE DEF o
    <3>1. Owned' = (Owned \ {o}) \cup {}
      BY <2>5, <2>6, OwnedMoves
    <3>. QED BY <3>1
  <2>9. Api!Frees(fn, kind)
    <3>1. fn \in EntryPoint
      BY DEF EntryPoint
    <3>. HIDE DEF o, fn, kind
    <3>2. Api!Frees(fn, o[1])
      BY <2>6, <2>7, <2>8, <3>1, HandleGoes
    <3>. QED BY <2>6, <3>2
  <2>10. Api!QueryFree \/ Api!QueryResultFree
    BY <2>9 DEF Api!QueryFree, Api!QueryResultFree
  <2>. QED BY <2>10 DEF Api!QueryNext, Api!Next
<1>. QED BY <1>1, <1>2, <1>3 DEF HandleFreed

-----------------------------------------------------------------------------

LEMMA StepIsNext == [HNext]_hvars => [Next]_vars
<1>1. ASSUME NEW th \in Threads, Waits(th) \/ ConnectBuilderExecute(th) \/ CallReturns(th)
      PROVE  Runs(th) \/ StartsCall(th)
  BY <1>1 DEF Waits, CallReturns, Runs, StartsCall
<1>2. HandleFreed => Frees
  BY DEF HandleFreed, Frees
<1>. QED BY <1>1, <1>2 DEF HNext, Next, hvars

LEMMA StepIsCall == SInv /\ SInv' /\ [HNext]_hvars => [Api!Next]_(Api!vars)
<1>. SUFFICES ASSUME SInv, SInv', [HNext]_hvars PROVE [Api!Next]_(Api!vars)
  OBVIOUS
<1>1. ASSUME NEW th \in Threads, Waits(th), UNCHANGED last
      PROVE  UNCHANGED Api!vars
  BY <1>1, WaitingIsUnseen, CallUnseen
<1>2. ASSUME NEW th \in Threads, ConnectBuilderExecute(th), last' = Returned("connect", "Success", {})
      PROVE  Api!Next
  BY <1>2, ConnectBegins
<1>3. ASSUME NEW th \in Threads, CallReturns(th)
      PROVE  Api!Next
  BY <1>3, ConnectReturns, OpenReturns, CountReturns, ExecuteReturns, CollectReturns
     DEF CallReturns
<1>4. ASSUME NEW q \in Queries, NEW t \in Tables, QueryNew(q, t),
             last' = Returned("query_new", "Success", {})
      PROVE  Api!Next
  BY <1>4, QueryIsMade
<1>5. CASE HandleFreed
  BY <1>5, FreeReturns
<1>6. CASE UNCHANGED hvars
  <2>1. Owned' = Owned /\ last' = last
    BY <1>6 DEF hvars, vars, Owned, Connecting, OwnsQuery, OwnsResult, Passed
  <2>. QED BY <2>1, CallUnseen
<1>. QED BY <1>1, <1>2, <1>3, <1>4, <1>5, <1>6 DEF HNext

LEMMA InitIsInit == HInit => Api!Init
<1>. SUFFICES ASSUME HInit PROVE Api!Init
  OBVIOUS
<1>1. SInv
  BY InitSInv DEF HInit
<1>2. Owned = {}
  <2>1. \A th \in Threads : call[th].op = "none"
    BY IdleTyped DEF HInit, Init
  <2>2. \A q \in Queries : ~OwnsQuery(q) /\ ~OwnsResult(q)
    BY <2>1 DEF HInit, Init, OwnsQuery, OwnsResult, Passed
  <2>3. connection = "none" /\ tables = {}
    BY DEF HInit, Init
  <2>. QED BY <2>1, <2>2, <2>3, OwnedByKind DEF OwnedFits, Object
<1>. QED BY <1>1, <1>2, HeapIsOwned DEF HInit, Balanced, Api!Init, Api!Free, Returned

(* Whatever the other threads do meanwhile, each call on a shared handle   *)
(* is one entry point of the ownership protocol, which takes effect when   *)
(* it returns: for any number of threads, tables and queries.              *)
THEOREM SharedCallsAreAtomic == HSpec => CallsAreAtomic
<1>1. HInit => SInv
  BY InitSInv DEF HInit
<1>2. SInv /\ [HNext]_hvars => SInv'
  BY StepIsNext, NextSInv
<1>. QED BY <1>1, <1>2, InitIsInit, StepIsCall, PTL DEF HSpec, CallsAreAtomic, Api!Spec
=============================================================================
