---------------------------- MODULE OutboxProofs ----------------------------
(***************************************************************************)
(* Proofs about Outbox for every set of tables, keys and rows and every    *)
(* number of outbox records.                                               *)
(***************************************************************************)
EXTENDS OutboxInvariant, WellFoundedInduction, TLAPS

\* A nonempty set of outbox ids has a newest one, and LastId names it:
\* replaying records "ORDER BY id" is well defined.
LEMMA LastIdExists ==
    ASSUME NEW S \in SUBSET Ids, S # {}
    PROVE  /\ LastId(S) \in S
           /\ \A j \in S : j <= LastId(S)
<1> USE Bounds DEF Ids
<1> DEFINE T == {MaxId - i : i \in S}
<1>1. T \in SUBSET Nat /\ T # {}
  <2>1. \A i \in S : MaxId - i \in Nat
    OBVIOUS
  <2>2. T \subseteq Nat
    BY <2>1
  <2>3. T # {}
    OBVIOUS
  <2> QED BY <2>2, <2>3
<1>2. PICK x \in T : \A y \in T : ~ (<<y, x>> \in OpToRel(<, Nat))
  BY <1>1, WFMin, NatLessThanWellFounded
<1>3. \A y \in T : ~ (y < x)
  BY <1>1, <1>2 DEF OpToRel
<1>4. PICK i \in S : x = MaxId - i
  OBVIOUS
<1>5. ASSUME NEW j \in S PROVE j <= i
  <2>1. MaxId - j \in T
    OBVIOUS
  <2>2. ~ (MaxId - j < MaxId - i)
    BY <1>3, <1>4, <2>1
  <2> QED BY <2>2
<1> QED
  BY <1>5 DEF LastId
-----------------------------------------------------------------------------
(* Types of the helpers.                                                   *)

LEMMA TouchingType ==
    ASSUME NEW S, NEW t, NEW k
    PROVE  Touching(S, t, k) \subseteq S
BY DEF Touching

\* Staging queues a row, a deletion or nothing for every key; Refresh never
\* reaches a writer.
LEMMA StageType ==
    ASSUME TypeOK, NEW S \in SUBSET Ids, NEW t \in Tables
    PROVE  Stage(S, t) \in [Keys -> Row \cup {Skip}]
<1> SUFFICES ASSUME NEW k \in Keys
             PROVE  Stage(S, t)[k] \in Row \cup {Skip}
  BY DEF Stage
<1> DEFINE U == Touching(S, t, k)
<1>1. CASE U = {}
  BY <1>1 DEF Stage, TypeOK
<1>2. CASE U # {}
  <2>1. U \in SUBSET Ids
    BY TouchingType
  <2>2. LastId(U) \in U
    BY <1>2, <2>1, LastIdExists
  <2>3. outbox[LastId(U)].ops[k] \in Operation
    BY <2>1, <2>2 DEF Touching, TypeOK, Record
  <2>4. outbox[LastId(U)].ops[k] # Skip
    BY <2>2 DEF Touching
  <2>5. rows[t][k] \in Row
    BY DEF TypeOK, TableRows
  <2>6. Resolve(outbox[LastId(U)].ops[k], t, k) \in Row
    BY <2>3, <2>4, <2>5 DEF Resolve, Operation, Row
  <2> QED
    BY <1>2, <2>6 DEF Stage
<1> QED
  BY <1>1, <1>2

LEMMA ApplyType ==
    ASSUME NEW old \in TableRows, NEW ops \in [Keys -> Vals \cup {Absent, Skip}]
    PROVE  Apply(old, ops) \in TableRows
BY DEF Apply, TableRows, Row

LEMMA PlannedType ==
    ASSUME NEW t \in Tables, NEW old, NEW new \in Planned(t, old)
    PROVE  new \in [Keys -> Vals \cup {Absent, Skip}]
BY DEF Planned, Inserts, Updates, Deletes

LEMMA WriteType ==
    ASSUME TypeOK, NEW t \in Tables, NEW new \in [Keys -> Vals \cup {Absent, Skip}],
           NEW record \in [Keys -> Operation],
           WriteWithRecord(t, new, record), pc' \in Steps
    PROVE  TypeOK'
<1>1. Apply(rows[t], new) \in TableRows
  BY ApplyType DEF TypeOK
<1>2. [table |-> t, ops |-> record] \in Record
  BY DEF Record
<1>3. nextId' \in 1 .. MaxId + 1
  BY Bounds DEF WriteWithRecord, Ids
<1>4. rows' \in [Tables -> TableRows]
  BY <1>1 DEF WriteWithRecord, TypeOK
<1>5. outbox' \in [Ids -> Record \cup {NoRecord}]
  BY <1>2 DEF WriteWithRecord, TypeOK
<1> QED
  BY <1>3, <1>4, <1>5 DEF WriteWithRecord, TypeOK, memory

-----------------------------------------------------------------------------
(* Type correctness.                                                       *)

LEMMA ReturnType ==
    ASSUME NEW r \in {"ok", "err", "closed"}, Return(r)
    PROVE  /\ pc' \in Steps \cup {"closed", "ok", "err"}
           /\ kind' \in Kinds \cup {"open", "none"}
           /\ then' \in {"body", "return"}
           /\ todo' \subseteq Ids
           /\ cur' \in Tables \cup {NoTable}
BY DEF Return

\* Every step of the specification keeps every variable in its type.
LEMMA TypeStep == TypeOK /\ [Next]_vars => TypeOK'
<1> SUFFICES ASSUME TypeOK, [Next]_vars
             PROVE  TypeOK'
  OBVIOUS
<1> USE Bounds DEF sqlite, memory
<1>1. CASE Open
  BY <1>1 DEF Open, TypeOK, Steps
<1>2. CASE \E k \in Kinds : Begin(k)
  BY <1>2 DEF Begin, TypeOK, Steps, Pending
<1>3. ASSUME NEW t \in Tables, DropHandle(t) PROVE TypeOK'
  <2>1. Blank \in [Keys -> Row \cup {Skip}]
    BY DEF Blank
  <2> QED
    BY <1>3, <2>1 DEF DropHandle, TypeOK, Steps
<1>4. CASE Swap
  BY <1>4 DEF Swap, TypeOK, Steps
<1>5. CASE Clean
  BY <1>5, ReturnType DEF Clean, TypeOK, Steps
<1>6. CASE Replay
  BY <1>6 DEF Replay, TypeOK, Steps, Pending
<1>7. ASSUME NEW t \in Tables, StageTable(t) PROVE TypeOK'
  <2>1. Group(t) \ staged \in SUBSET Ids
    BY DEF Group, TypeOK
  <2>2. Stage(Group(t) \ staged, t) \in [Keys -> Row \cup {Skip}]
    BY <2>1, StageType
  <2> QED
    BY <1>7, <2>2 DEF StageTable, TypeOK, Steps
<1>8. ASSUME NEW t \in Tables, StageFails(t) PROVE TypeOK'
  <2>1. PICK j \in Group(t) \ staged, ks \in SUBSET Keys :
          writer' = [writer EXCEPT ![t] =
             [k \in Keys |->
                IF k \in ks THEN Stage({i \in Group(t) \ staged : i < j} \cup {j}, t)[k]
                            ELSE Stage({i \in Group(t) \ staged : i < j}, t)[k]]]
    BY <1>8 DEF StageFails
  <2> DEFINE before == {i \in Group(t) \ staged : i < j}
  <2>2. before \in SUBSET Ids /\ before \cup {j} \in SUBSET Ids
    BY DEF Group, TypeOK
  <2>3. Stage(before, t) \in [Keys -> Row \cup {Skip}]
    BY <2>2, StageType
  <2>4. Stage(before \cup {j}, t) \in [Keys -> Row \cup {Skip}]
    BY <2>2, StageType
  <2> HIDE DEF before
  <2>5. writer' \in [Tables -> [Keys -> Row \cup {Skip}]]
    BY <2>1, <2>3, <2>4 DEF TypeOK, before
  <2> QED
    BY <1>8, <2>5, ReturnType DEF StageFails, TypeOK
<1>9. CASE Commit
  <2>1. Blank \in [Keys -> Row \cup {Skip}]
    BY DEF Blank
  <2>2. ASSUME NEW t \in Tables, NEW k \in Keys PROVE Live(t, k) \in Row
    BY DEF Live, TypeOK, TableRows, Row
  <2>3. committed' \in [Tables -> TableRows]
    BY <1>9, <2>2 DEF Commit, TypeOK, TableRows
  <2> QED
    BY <1>9, <2>1, <2>3 DEF Commit, TypeOK, Steps
<1>10. CASE Reload
  BY <1>10 DEF Reload, TypeOK, Steps
<1>11. CASE Acknowledge
  BY <1>11 DEF Acknowledge, TypeOK, Steps
<1>12. CASE Applied
  BY <1>12, ReturnType DEF Applied, TypeOK, Steps
<1>13. ASSUME NEW t \in Tables, BulkWrite(t) PROVE TypeOK'
  <2>1. PICK new \in [Keys -> Vals \cup {Skip}] :
          WriteWithRecord(t, new, [k \in Keys |-> IF new[k] = Skip THEN Skip ELSE Refresh])
    BY <1>13 DEF BulkWrite
  <2>2. [k \in Keys |-> IF new[k] = Skip THEN Skip ELSE Refresh] \in [Keys -> Operation]
    BY DEF Operation
  <2>3. new \in [Keys -> Vals \cup {Absent, Skip}]
    OBVIOUS
  <2> QED
    BY <1>13, <2>1, <2>2, <2>3, WriteType DEF BulkWrite, Steps
<1>14. CASE NothingToWrite
  BY <1>14, ReturnType DEF NothingToWrite, TypeOK
<1>15. ASSUME NEW t \in Tables, MutateTyped(t) PROVE TypeOK'
  <2>1. PICK filter \in SUBSET Vals :
          \E new \in Updates(rows[t], Matching(t, filter)) \cup Deletes(Matching(t, filter)) :
             WriteWithRecord(t, new, new)
    BY <1>15 DEF MutateTyped
  <2>2. PICK new \in Updates(rows[t], Matching(t, filter)) \cup Deletes(Matching(t, filter)) :
          WriteWithRecord(t, new, new)
    BY <2>1
  <2>3. new \in [Keys -> Vals \cup {Absent, Skip}]
    BY DEF Updates, Deletes
  <2>4. new \in [Keys -> Operation]
    BY <2>3 DEF Operation
  <2> QED
    BY <1>15, <2>2, <2>3, <2>4, WriteType DEF MutateTyped, Steps
<1>16. ASSUME NEW t \in Tables, NEW u \in Tables, MutateBatch(t, u) PROVE TypeOK'
  <2> DEFINE mid(a) == [rows EXCEPT ![t] = Apply(rows[t], a)]
  <2> DEFINE Effect(a, b) ==
           /\ rows' = [mid(a) EXCEPT ![u] = Apply(mid(a)[u], b)]
           /\ outbox' = [outbox EXCEPT
                 ![nextId] = [table |-> t, ops |-> a],
                 ![nextId + 1] = IF b = Blank THEN NoRecord ELSE [table |-> u, ops |-> b]]
           /\ todo' = IF b = Blank THEN {nextId} ELSE {nextId, nextId + 1}
           /\ nextId' = IF b = Blank THEN nextId + 1 ELSE nextId + 2
  <2>0. PICK a \in Planned(t, rows[t]) \ {Blank} :
           \E b \in Planned(u, mid(a)[u]) : Effect(a, b)
    BY <1>16 DEF MutateBatch
  <2>1. PICK b \in Planned(u, mid(a)[u]) : Effect(a, b)
    BY <2>0
  <2>2. a \in [Keys -> Vals \cup {Absent, Skip}] /\ b \in [Keys -> Vals \cup {Absent, Skip}]
    BY PlannedType
  <2>3. mid(a) \in [Tables -> TableRows]
    BY <2>2, ApplyType DEF TypeOK
  <2>4. Apply(mid(a)[u], b) \in TableRows
    BY <2>2, <2>3, ApplyType
  <2>5. rows' \in [Tables -> TableRows]
    BY <2>1, <2>3, <2>4
  <2>6. [table |-> t, ops |-> a] \in Record /\ [table |-> u, ops |-> b] \in Record
    BY <2>2 DEF Record, Operation
  <2>7. outbox' \in [Ids -> Record \cup {NoRecord}]
    BY <2>1, <2>6 DEF TypeOK
  <2>8. todo' \subseteq Ids /\ nextId' \in 1 .. MaxId + 1
    BY <1>16, <2>1 DEF MutateBatch, TypeOK, Ids
  <2> QED
    BY <1>16, <2>5, <2>7, <2>8 DEF MutateBatch, TypeOK, Steps
<1>17. ASSUME NEW t \in Tables, StageDeferred(t) PROVE TypeOK'
  <2>1. Group(t) \in SUBSET Ids
    BY DEF Group, TypeOK
  <2>2. Stage(Group(t), t) \in [Keys -> Row \cup {Skip}]
    BY <2>1, StageType
  <2>3. writer' \in [Tables -> [Keys -> Row \cup {Skip}]]
    BY <1>17, <2>2 DEF StageDeferred, TypeOK
  <2>4. deferred' \subseteq Ids /\ staged' \subseteq Ids
    BY <1>17, <2>1 DEF StageDeferred, TypeOK
  <2>5. CASE Return("ok")
    BY <1>17, <2>3, <2>4, <2>5, ReturnType DEF StageDeferred, TypeOK
  <2>6. CASE ~ Return("ok")
    BY <1>17, <2>3, <2>4, <2>6 DEF StageDeferred, TypeOK, Steps, Pending
  <2> QED
    BY <2>5, <2>6
<1>18. ASSUME NEW t \in Tables, Reindex(t) PROVE TypeOK'
  BY <1>18 DEF Reindex, TypeOK, Steps
<1>19. ASSUME NEW t \in Tables, ChangeSchema(t) PROVE TypeOK'
  <2>1. rows' \in [Tables -> TableRows]
    BY <1>19 DEF ChangeSchema, TypeOK, TableRows, Row
  <2> QED
    BY <1>19, <2>1 DEF ChangeSchema, TypeOK, Steps
<1>20. ASSUME NEW t \in Tables, Optimize(t) PROVE TypeOK'
  <2>1. Blank \in [Keys -> Row \cup {Skip}]
    BY DEF Blank
  <2> QED
    BY <1>20, <2>1, ReturnType DEF Optimize, TypeOK
<1>21. CASE Backup
  <2>1. Blank \in [Keys -> Row \cup {Skip}]
    BY DEF Blank
  <2> QED
    BY <1>21, <2>1, ReturnType DEF Backup, TypeOK
<1>22. CASE Fail
  BY <1>22, ReturnType DEF Fail, TypeOK
<1>23. CASE Crash
  <2>1. Blank \in [Keys -> Row \cup {Skip}]
    BY DEF Blank
  <2> QED
    BY <1>23, <2>1, ReturnType DEF Crash, TypeOK
<1>24. CASE UNCHANGED vars
  BY <1>24 DEF vars, call, TypeOK
<1> QED
  BY <1>1, <1>2, <1>3, <1>4, <1>5, <1>6, <1>7, <1>8, <1>9, <1>10, <1>11, <1>12, <1>13,
     <1>14, <1>15, <1>16, <1>17, <1>18, <1>19, <1>20, <1>21, <1>22, <1>23, <1>24
     DEF Next, Internal, Fault

LEMMA TypeInit == Init => TypeOK
BY Bounds DEF Init, TypeOK, Empty, Blank, TableRows, Row, Ids, Steps, Kinds

\* Every variable keeps its type in every behaviour of the database: the
\* outbox holds records of known tables, ids stay within AUTOINCREMENT's
\* range, and no writer ever queues an unresolved Refresh.
THEOREM TypeCorrect == Spec => []TypeOK
<1>1. Init => TypeOK
  BY TypeInit
<1>2. TypeOK /\ [Next]_vars => TypeOK'
  BY TypeStep
<1> QED
  BY <1>1, <1>2, PTL DEF Spec

-----------------------------------------------------------------------------
(* Facts about states that satisfy the ledger invariant.                   *)

LEMMA PendingType == Pending \subseteq Ids
BY DEF Pending

\* Replaying the outbox over the index gives SQLite's rows.
LEMMA LedgerImpliesRecoverable ==
    ASSUME TypeOK, Ledger
    PROVE  RecoverableIndex
<1> SUFFICES ASSUME NEW t \in Tables, NEW k \in Keys
             PROVE  LET S == Touching(Pending, t, k)
                    IN  IF S = {} THEN t \notin dirty => committed[t][k] = rows[t][k]
                        ELSE Resolve(outbox[LastId(S)].ops[k], t, k) = rows[t][k]
  BY DEF RecoverableIndex
<1> DEFINE S == Touching(Pending, t, k)
<1>1. CASE S = {}
  BY <1>1 DEF Ledger, IndexCurrent, CurrentKey
<1>2. CASE S # {}
  <2>1. S \in SUBSET Ids
    BY TouchingType, PendingType
  <2>2. LastId(S) \in S /\ \A j \in S : j <= LastId(S)
    BY <1>2, <2>1, LastIdExists
  <2>3. Resolve(outbox[LastId(S)].ops[k], t, k) = rows[t][k]
    BY <2>2 DEF Ledger, RecordsCurrent, NewestOperation
  <2> QED
    BY <1>2, <2>3
<1> QED
  BY <1>1, <1>2

\* The last operation staged for a key is SQLite's current row, although
\* older operations on the key may already be queued.
LEMMA NewestUnstaged ==
    ASSUME TypeOK, Ledger, NEW t \in Tables, NEW k \in Keys,
           Touching(Pending \ staged, t, k) # {}
    PROVE  Resolve(outbox[LastId(Touching(Pending \ staged, t, k))].ops[k], t, k) = rows[t][k]
<1> DEFINE U == Touching(Pending \ staged, t, k)
           m == LastId(U)
<1>1. U \in SUBSET Ids
  BY TouchingType, PendingType
<1>2. m \in U /\ \A j \in U : j <= m
  BY <1>1, LastIdExists
<1>3. m \in Touching(Pending, t, k) /\ m \in Pending \ staged
  BY <1>2 DEF Touching
<1>4. ASSUME NEW j \in Touching(Pending, t, k) PROVE j <= m
  <2>1. CASE j \in staged
    <3>1. j < m
      BY <1>3, <2>1 DEF Ledger, StagedOlder
    <3>2. j \in Nat /\ m \in Nat
      BY <1>3, <2>1, Bounds DEF TypeOK, Ids, Pending
    <3> QED
      BY <3>1, <3>2
  <2>2. CASE j \notin staged
    BY <1>2, <2>2 DEF Touching
  <2> QED
    BY <2>1, <2>2
<1> QED
  BY <1>3, <1>4 DEF Ledger, RecordsCurrent, NewestOperation

\* Once every unqueued record of a table is staged, the next commit of its
\* writer publishes exactly SQLite's rows.
LEMMA StageMakesCurrent ==
    ASSUME TypeOK, Ledger, NEW t \in Tables, NEW k \in Keys, NEW S,
           Touching(S, t, k) = Touching(Pending \ staged, t, k)
    PROVE  /\ Touching(S, t, k) # {} => Stage(S, t)[k] = rows[t][k]
           /\ Touching(S, t, k) = {} => Stage(S, t)[k] = writer[t][k]
           /\ t \notin dirty =>
                (IF Stage(S, t)[k] = Skip THEN committed[t][k] ELSE Stage(S, t)[k]) = rows[t][k]
<1>1. rows[t][k] # Skip
  BY Sentinels DEF TypeOK, TableRows, Row
<1>2. CASE Touching(S, t, k) # {}
  BY <1>1, <1>2, NewestUnstaged DEF Stage
<1>3. CASE Touching(S, t, k) = {}
  BY <1>3 DEF Stage, Ledger, IndexCurrent, CurrentKey, Live
<1> QED
  BY <1>2, <1>3

\* Steps that leave SQLite, the indexes and the memory alone keep the ledger.
LEMMA LedgerFrame ==
    ASSUME Ledger, UNCHANGED <<sqlite, committed, memory>>
    PROVE  Ledger'
BY DEF Ledger, sqlite, memory, DeferredRecords, RefreshOnly, FreshIds, StagedOlder, RecordsCurrent,
       NewestOperation, IndexCurrent, CurrentKey, ReaderCurrent, Pending, Touching, Resolve, Live

-----------------------------------------------------------------------------
(* The ledger is preserved: rebuilding, staging, publishing.               *)

LEMMA GroupIsUnstaged ==
    ASSUME TypeOK, Ledger, todo \subseteq Pending, Pending \ todo \subseteq deferred,
           NEW t \in Tables, NEW k \in Keys
    PROVE  Touching(Group(t) \ staged, t, k) = Touching(Pending \ staged, t, k)
BY DEF Touching, Group, Ledger, DeferredRecords

LEMMA LedgerDropHandle ==
    ASSUME TypeOK, Ledger, TablePhase, NEW t \in Tables, DropHandle(t)
    PROVE  Ledger'
<1>1. t \in dirty
  BY DEF DropHandle, TablePhase, RebuildSteps
<1>2. \A u \in Tables \ dirty : writer'[u] = writer[u] /\ reader'[u] = reader[u]
  BY <1>1 DEF DropHandle, TypeOK
<1> QED
  BY <1>2 DEF DropHandle, sqlite, Ledger, DeferredRecords, RefreshOnly, FreshIds, StagedOlder,
     RecordsCurrent, NewestOperation, IndexCurrent, CurrentKey, ReaderCurrent, Pending, Touching,
     Resolve, Live

LEMMA LedgerSwap ==
    ASSUME TypeOK, Ledger, TablePhase, Swap
    PROVE  Ledger'
<1>1. cur \in dirty
  BY DEF Swap, TablePhase, RebuildSteps
<1>2. \A u \in Tables \ dirty : committed'[u] = committed[u] /\ reader'[u] = reader[u]
  BY <1>1 DEF Swap, TypeOK
<1> QED
  BY <1>2 DEF Swap, sqlite, Ledger, DeferredRecords, RefreshOnly, FreshIds, StagedOlder,
     RecordsCurrent, NewestOperation, IndexCurrent, CurrentKey, ReaderCurrent, Pending, Touching,
     Resolve, Live

\* The dirty mark goes only when index, reader and writer hold the rows.
LEMMA LedgerClean ==
    ASSUME TypeOK, Ledger, TablePhase, Clean
    PROVE  Ledger'
<1>1. /\ committed[cur] = rows[cur]
      /\ reader[cur] = rows[cur]
      /\ writer[cur] = Blank
  BY DEF Clean, TablePhase
<1>2. \A k \in Keys : Live(cur, k) = rows[cur][k]
  BY <1>1 DEF Live, Blank
<1> QED
  BY <1>1, <1>2 DEF Clean, memory, Ledger, DeferredRecords, RefreshOnly, FreshIds, StagedOlder,
     RecordsCurrent, NewestOperation, IndexCurrent, CurrentKey, ReaderCurrent, Pending, Touching,
     Resolve, Live

\* Only the queue of one table changes, on keys that unqueued records touch
\* or to the row SQLite holds.
LEMMA LedgerQueue ==
    ASSUME TypeOK, Ledger, NEW t \in Tables,
           UNCHANGED <<sqlite, committed, reader, deferred, staged>>,
           \A u \in Tables \ {t} : writer'[u] = writer[u],
           \A k \in Keys : \/ Touching(Pending \ staged, t, k) # {}
                           \/ t \notin dirty => Live(t, k)' = rows[t][k]
    PROVE  Ledger'
<1>1. \A u \in Tables \ dirty, k \in Keys :
          Touching(Pending \ staged, u, k) = {} => Live(u, k)' = rows[u][k]
  BY ZenonT(60) DEF Ledger, IndexCurrent, CurrentKey, Live
<1> QED
  BY <1>1 DEF sqlite, Ledger, DeferredRecords, RefreshOnly, FreshIds, StagedOlder,
     RecordsCurrent, NewestOperation, IndexCurrent, CurrentKey, ReaderCurrent, Pending, Touching,
     Resolve

LEMMA LedgerStageTable ==
    ASSUME TypeOK, Ledger, OutboxPhase, NEW t \in Tables, StageTable(t)
    PROVE  /\ Ledger'
           /\ t \notin dirty => \A k \in Keys : Live(t, k)' = rows[t][k]
<1>1. todo \subseteq Pending /\ Pending \ todo \subseteq deferred
  BY DEF OutboxPhase, StageTable, ApplySteps
<1>2. writer'[t] = Stage(Group(t) \ staged, t) /\ committed' = committed
  BY DEF StageTable, TypeOK
<1>3. ASSUME NEW k \in Keys, t \notin dirty PROVE Live(t, k)' = rows[t][k]
  <2>1. Touching(Group(t) \ staged, t, k) = Touching(Pending \ staged, t, k)
    BY <1>1, GroupIsUnstaged
  <2>2. (IF Stage(Group(t) \ staged, t)[k] = Skip
           THEN committed[t][k] ELSE Stage(Group(t) \ staged, t)[k]) = rows[t][k]
    BY <1>3, <2>1, StageMakesCurrent
  <2> QED
    BY <1>2, <2>2 DEF Live
<1>4. \A u \in Tables \ {t} : writer'[u] = writer[u]
  BY DEF StageTable, TypeOK
<1>5. Ledger'
  BY <1>3, <1>4, LedgerQueue DEF StageTable
<1> QED
  BY <1>3, <1>5

\* A staging error leaves foreign work in the queue only for keys whose
\* record will be staged again.
LEMMA LedgerStageFails ==
    ASSUME TypeOK, Ledger, OutboxPhase, NEW t \in Tables, StageFails(t)
    PROVE  Ledger'
<1>1. todo \subseteq Pending
  BY DEF OutboxPhase
<1>2. PICK j \in Group(t) \ staged, ks \in SUBSET Keys :
        writer' = [writer EXCEPT ![t] =
           [k \in Keys |->
              IF k \in ks THEN Stage({i \in Group(t) \ staged : i < j} \cup {j}, t)[k]
                          ELSE Stage({i \in Group(t) \ staged : i < j}, t)[k]]]
  BY DEF StageFails
<1>3. ASSUME NEW k \in Keys, Touching(Pending \ staged, t, k) = {}
      PROVE  writer'[t][k] = writer[t][k]
  <2>1. Touching({i \in Group(t) \ staged : i < j} \cup {j}, t, k) = {}
    BY <1>1, <1>3 DEF Touching, Group
  <2>2. Touching({i \in Group(t) \ staged : i < j}, t, k) = {}
    BY <1>1, <1>3 DEF Touching, Group
  <2> QED
    BY <1>2, <2>1, <2>2 DEF Stage, TypeOK
<1>4. ASSUME NEW k \in Keys, Touching(Pending \ staged, t, k) = {}, t \notin dirty
      PROVE  Live(t, k)' = rows[t][k]
  <2>1. Live(t, k)' = Live(t, k)
    BY <1>3, <1>4 DEF Live, StageFails
  <2> QED
    BY <1>4, <2>1 DEF Ledger, IndexCurrent, CurrentKey
<1>5. \A u \in Tables \ {t} : writer'[u] = writer[u]
  BY <1>2 DEF TypeOK
<1> QED
  BY <1>4, <1>5, LedgerQueue DEF StageFails

LEMMA LedgerCommit ==
    ASSUME TypeOK, Ledger, TablePhase, Commit
    PROVE  /\ Ledger'
           /\ cur \notin dirty => committed'[cur] = rows[cur]
<1>1. cur \in Tables
  BY DEF Commit, TablePhase
<1>2. ASSUME cur \notin dirty PROVE committed'[cur] = rows[cur]
  <2>1. committed'[cur] = [k \in Keys |-> Live(cur, k)]
    BY <1>1 DEF Commit, TypeOK
  <2>2. \A k \in Keys : Live(cur, k) = rows[cur][k]
    BY <1>2 DEF Commit, TablePhase
  <2>3. rows[cur] \in [Keys -> Row]
    BY <1>1 DEF TypeOK, TableRows
  <2> QED
    BY <2>1, <2>2, <2>3
<1>3. writer'[cur] = Blank
  BY <1>1 DEF Commit, TypeOK
<1>4. \A u \in Tables \ {cur} : writer'[u] = writer[u] /\ committed'[u] = committed[u]
  BY DEF Commit, TypeOK
<1>5. ASSUME NEW u \in Tables \ dirty, NEW k \in Keys
      PROVE  /\ Touching(Pending, u, k) = {} => committed'[u][k] = rows[u][k]
             /\ Touching(Pending \ staged, u, k) = {} => Live(u, k)' = rows[u][k]
  <2>1. CASE u = cur
    BY <1>2, <1>3, <2>1 DEF Live, Blank
  <2>2. CASE u # cur
    BY <1>4, <2>2 DEF Live, Ledger, IndexCurrent, CurrentKey
  <2> QED
    BY <2>1, <2>2
<1>6. Ledger'
  BY <1>5 DEF Commit, sqlite, Ledger, DeferredRecords, RefreshOnly, FreshIds, StagedOlder,
     RecordsCurrent, NewestOperation, IndexCurrent, CurrentKey, ReaderCurrent, Pending, Touching,
     Resolve
<1> QED
  BY <1>2, <1>6

LEMMA LedgerReload ==
    ASSUME TypeOK, Ledger, TablePhase, Reload
    PROVE  Ledger'
<1>1. \A u \in Tables \ dirty : reader'[u] = reader[u] \/ reader'[u] = rows[u]
  BY DEF Reload, TypeOK, TablePhase
<1> QED
  BY <1>1 DEF Reload, sqlite, Ledger, DeferredRecords, RefreshOnly, FreshIds, StagedOlder,
     RecordsCurrent, NewestOperation, IndexCurrent, CurrentKey, ReaderCurrent, Pending, Touching,
     Resolve, Live


\* Acknowledging a table's records loses nothing: what remains for the
\* table is deferred, and a deferred record refreshes.
LEMMA LedgerAcknowledge ==
    ASSUME TypeOK, Ledger, OutboxPhase, TablePhase, Acknowledge
    PROVE  /\ Ledger'
           /\ Pending' = Pending \ Group(cur)
           /\ \A i \in Pending' : outbox'[i] = outbox[i]
<1>1. /\ cur \in Tables
      /\ Pending \ todo \subseteq deferred
      /\ todo \subseteq Pending
      /\ writer[cur] = Blank
      /\ reader[cur] = committed[cur]
      /\ cur \notin dirty => committed[cur] = rows[cur]
  BY DEF Acknowledge, OutboxPhase, TablePhase, ApplySteps
<1>2. /\ Pending' = Pending \ Group(cur)
      /\ \A i \in Pending' : outbox'[i] = outbox[i]
      /\ \A i \in Ids : outbox'[i] \in {outbox[i], NoRecord}
  BY DEF Acknowledge, Pending
<1>3. /\ rows' = rows /\ nextId' = nextId /\ dirty' = dirty /\ committed' = committed
      /\ reader' = reader /\ writer' = writer
      /\ deferred' = deferred \ Group(cur) /\ staged' = staged \ Group(cur)
  BY DEF Acknowledge
<1>4. ASSUME NEW t \in Tables, NEW k \in Keys, t # cur
      PROVE  /\ Touching(Pending, t, k)' = Touching(Pending, t, k)
             /\ Touching(Pending \ staged, t, k)' = Touching(Pending \ staged, t, k)
  BY <1>2, <1>3, <1>4 DEF Touching, Group
<1>5. ASSUME NEW i \in Pending', outbox'[i].table = cur
      PROVE  RefreshOnly(i)'
  <2>1. i \in Pending /\ i \notin Group(cur) /\ outbox[i].table = cur
    BY <1>2, <1>5
  <2>2. i \notin todo
    BY <2>1 DEF Group, Pending
  <2>3. RefreshOnly(i)
    BY <1>1, <2>1, <2>2 DEF Ledger, DeferredRecords
  <2> QED
    BY <1>2, <2>3 DEF RefreshOnly
<1>6. DeferredRecords'
  BY <1>2, <1>3 DEF Ledger, DeferredRecords, RefreshOnly
<1>7. FreshIds'
  BY <1>2, <1>3 DEF Ledger, FreshIds
<1>8. StagedOlder'
  BY <1>2, <1>3 DEF Ledger, StagedOlder
<1>9. RecordsCurrent'
  <2> SUFFICES ASSUME NEW t \in Tables, NEW k \in Keys
               PROVE  NewestOperation(t, k)'
    BY DEF RecordsCurrent
  <2>1. CASE t = cur
    <3>1. ASSUME NEW i \in Touching(Pending, t, k)'
          PROVE  outbox'[i].ops[k] = Refresh
      BY <1>5, <2>1, <3>1 DEF Touching, RefreshOnly
    <3> QED
      BY <3>1 DEF NewestOperation, Resolve
  <2>2. CASE t # cur
    BY <1>2, <1>3, <1>4, <2>2 DEF Ledger, RecordsCurrent, NewestOperation, Resolve, Touching
  <2> QED
    BY <2>1, <2>2
<1>10. IndexCurrent'
  <2> SUFFICES ASSUME NEW t \in Tables \ dirty, NEW k \in Keys
               PROVE  CurrentKey(t, k)'
    BY <1>3 DEF IndexCurrent
  <2>1. CASE t = cur
    BY <1>1, <1>3, <2>1 DEF CurrentKey, Live, Blank
  <2>2. CASE t # cur
    BY <1>3, <1>4, <2>2 DEF Ledger, IndexCurrent, CurrentKey, Live
  <2> QED
    BY <2>1, <2>2
<1>11. ReaderCurrent'
  <2> SUFFICES ASSUME NEW t \in Tables \ dirty, \A i \in Pending' : outbox'[i].table # t
               PROVE  reader[t] = rows[t]
    BY <1>3 DEF ReaderCurrent
  <2>1. CASE t = cur
    BY <1>1, <2>1
  <2>2. CASE t # cur
    BY <1>2, <2>2 DEF Group, Ledger, ReaderCurrent
  <2> QED
    BY <2>1, <2>2
<1> QED
  BY <1>2, <1>6, <1>7, <1>8, <1>9, <1>10, <1>11 DEF Ledger

LEMMA LedgerStageDeferred ==
    ASSUME TypeOK, Ledger, OutboxPhase, NEW t \in Tables, StageDeferred(t)
    PROVE  Ledger'
<1>1. /\ todo \subseteq Pending
      /\ Pending \ todo \subseteq deferred
      /\ \A i \in todo : RefreshOnly(i)
  BY DEF StageDeferred, OutboxPhase
<1>2. PICK m \in Ids : todo = {m}
  BY DEF StageDeferred, OutboxPhase
<1>3. Group(t) = {m}
  BY <1>2 DEF StageDeferred, Group
<1>4. /\ sqlite' = sqlite /\ committed' = committed /\ reader' = reader
      /\ deferred' = deferred \cup {m} /\ staged' = staged \cup {m}
  BY <1>3 DEF StageDeferred
<1>5. Pending' = Pending /\ Pending \ staged' = {}
  BY <1>1, <1>2, <1>4 DEF sqlite, Pending, Ledger, DeferredRecords
<1>6. DeferredRecords'
  BY <1>1, <1>2, <1>4, <1>5 DEF sqlite, Ledger, DeferredRecords, RefreshOnly
<1>7. StagedOlder'
  BY <1>5 DEF StagedOlder
<1>8. ASSUME NEW u \in Tables \ dirty, NEW k \in Keys
      PROVE  Live(u, k)' = rows[u][k]
  <2>1. Touching(Pending \ staged, u, k) \subseteq {m}
    BY <1>1, <1>2 DEF Touching, Ledger, DeferredRecords
  <2>2. CASE u = t
    <3>1. writer'[t] = Stage({m}, t)
      BY <1>3 DEF StageDeferred, TypeOK
    <3>2. CASE m \in staged
      <4>1. Touching(Pending \ staged, t, k) = {}
        BY <2>1, <2>2, <3>2 DEF Touching
      <4>2. Live(t, k) = rows[t][k]
        BY <2>2, <4>1 DEF Ledger, IndexCurrent, CurrentKey
      <4>3. rows[t][k] # Skip
        BY Sentinels DEF TypeOK, TableRows, Row
      <4>4. Stage({m}, t)[k] \in {writer[t][k], rows[t][k]}
        <5>1. Touching({m}, t, k) = {} \/ Touching({m}, t, k) = {m}
          BY DEF Touching
        <5>2. LastId({m}) = m
          BY Bounds DEF LastId, Ids
        <5>3. Touching({m}, t, k) = {m} => outbox[m].ops[k] = Refresh
          BY <1>1, <1>2 DEF Touching, RefreshOnly
        <5> QED
          BY <5>1, <5>2, <5>3 DEF Stage, Resolve
      <4> QED
        BY <1>4, <2>2, <3>1, <4>2, <4>3, <4>4 DEF Live
    <3>3. CASE m \notin staged
      <4>1. Touching({m}, t, k) = Touching(Pending \ staged, t, k)
        BY <1>1, <1>2, <2>1, <2>2, <3>3 DEF Touching
      <4>2. (IF Stage({m}, t)[k] = Skip THEN committed[t][k] ELSE Stage({m}, t)[k]) = rows[t][k]
        BY <2>2, <4>1, StageMakesCurrent
      <4> QED
        BY <1>4, <2>2, <3>1, <4>2 DEF Live
    <3> QED
      BY <3>2, <3>3
  <2>3. CASE u # t
    <3>1. Touching(Pending \ staged, u, k) = {}
      BY <1>3, <2>1, <2>3 DEF Touching, Group
    <3>2. writer'[u] = writer[u]
      BY <2>3 DEF StageDeferred, TypeOK
    <3> QED
      BY <1>4, <3>1, <3>2 DEF Ledger, IndexCurrent, CurrentKey, Live
  <2> QED
    BY <2>2, <2>3
<1>9. IndexCurrent'
  BY <1>4, <1>5, <1>8 DEF sqlite, IndexCurrent, CurrentKey, Ledger, Touching
<1>10. FreshIds' /\ RecordsCurrent' /\ ReaderCurrent'
  BY <1>4, <1>5 DEF sqlite, Ledger, FreshIds, RecordsCurrent, NewestOperation, Resolve, Touching,
     ReaderCurrent
<1> QED
  BY <1>6, <1>7, <1>9, <1>10 DEF Ledger

-----------------------------------------------------------------------------
(* The ledger is preserved: writing.                                       *)

\* One transaction that changes rows of t and adds the record describing it,
\* in a state where every pending record is deferred.
LEMMA LedgerWrite ==
    ASSUME TypeOK, Ledger, Pending \subseteq deferred, dirty = {}, NEW t \in Tables,
           NEW new \in [Keys -> Vals \cup {Absent, Skip}], NEW record \in [Keys -> Operation],
           \A k \in Keys : IF new[k] = Skip THEN record[k] = Skip ELSE record[k] \in {Refresh, new[k]},
           \E k \in Keys : record[k] # Skip,
           WriteWithRecord(t, new, record)
    PROVE  /\ Ledger'
           /\ Pending' = Pending \cup {nextId}
           /\ nextId \notin Pending
           /\ outbox'[nextId] = [table |-> t, ops |-> record]
<1>1. /\ nextId \in Ids
      /\ rows' = [rows EXCEPT ![t] = Apply(rows[t], new)]
      /\ outbox' = [outbox EXCEPT ![nextId] = [table |-> t, ops |-> record]]
      /\ nextId' = nextId + 1
      /\ UNCHANGED <<dirty, committed, memory>>
  BY DEF WriteWithRecord
<1>2. /\ outbox'[nextId] = [table |-> t, ops |-> record]
      /\ \A i \in Ids \ {nextId} : outbox'[i] = outbox[i]
      /\ outbox'[nextId] # NoRecord
  <2>1. [table |-> t, ops |-> record] \in Record
    BY DEF Record
  <2> QED
    BY <1>1, <2>1, Sentinels DEF TypeOK
<1>3. /\ Pending' = Pending \cup {nextId}
      /\ nextId \notin Pending
      /\ \A i \in Pending : i < nextId /\ outbox'[i] = outbox[i]
  <2>1. \A i \in Pending : ~ (i >= nextId)
    BY DEF Ledger, FreshIds, Pending
  <2>2. \A i \in Pending : i \in Nat /\ nextId \in Nat
    BY Bounds, <1>1 DEF Pending, Ids
  <2> QED
    BY <1>1, <1>2, <2>1, <2>2 DEF Pending
<1>4. ASSUME NEW k \in Keys
      PROVE  /\ new[k] = Skip => rows'[t][k] = rows[t][k]
             /\ new[k] # Skip => rows'[t][k] = new[k]
  BY <1>1 DEF Apply, TypeOK
<1>5. \A u \in Tables \ {t} : rows'[u] = rows[u]
  BY <1>1 DEF TypeOK
<1>6. DeferredRecords'
  BY <1>1, <1>2, <1>3 DEF memory, Ledger, DeferredRecords, RefreshOnly
<1>7. FreshIds'
  <2> SUFFICES ASSUME NEW i \in Ids, i >= nextId'
               PROVE  outbox'[i] = NoRecord
    BY DEF FreshIds
  <2>1. i # nextId /\ i >= nextId
    BY <1>1, Bounds DEF Ids
  <2> QED
    BY <1>2, <2>1 DEF Ledger, FreshIds
<1>8. StagedOlder'
  BY <1>1, <1>3 DEF memory, Ledger, DeferredRecords, StagedOlder
<1>9. ASSUME NEW u \in Tables, NEW k \in Keys, u # t \/ new[k] = Skip
      PROVE  /\ Touching(Pending, u, k)' = Touching(Pending, u, k)
             /\ Touching(Pending \ staged, u, k)' = {}
             /\ Touching(Pending \ staged, u, k) = {}
             /\ rows'[u][k] = rows[u][k]
  <2>1. nextId \notin Touching(Pending, u, k)'
    BY <1>2, <1>9 DEF Touching
  <2>2. Touching(Pending, u, k)' = Touching(Pending, u, k)
    BY <1>3, <2>1 DEF Touching
  <2>3. Touching(Pending \ staged, u, k)' \subseteq {nextId}
    BY <1>1, <1>3 DEF Touching, memory, Ledger, DeferredRecords
  <2>4. Touching(Pending \ staged, u, k)' = {}
    BY <2>1, <2>3 DEF Touching
  <2>5. Touching(Pending \ staged, u, k) = {}
    BY DEF Touching, Ledger, DeferredRecords
  <2>6. rows'[u][k] = rows[u][k]
    BY <1>4, <1>5, <1>9
  <2> QED
    BY <2>2, <2>4, <2>5, <2>6
<1>10. ASSUME NEW k \in Keys, new[k] # Skip
       PROVE  /\ nextId \in Touching(Pending, t, k)'
              /\ nextId \in Touching(Pending \ staged, t, k)'
              /\ \A j \in Touching(Pending, t, k)' : nextId <= j => j = nextId
  <2>1. outbox'[nextId].ops[k] # Skip
    BY <1>2, <1>10, Sentinels
  <2>2. nextId \notin staged'
    BY <1>1, <1>3 DEF memory, Ledger, DeferredRecords
  <2>3. ASSUME NEW j \in Pending PROVE ~ (nextId <= j)
    BY <1>1, <1>3, <2>3, Bounds DEF Ids, Pending
  <2> QED
    BY <1>2, <1>3, <2>1, <2>2, <2>3 DEF Touching
<1>11. RecordsCurrent'
  <2> SUFFICES ASSUME NEW u \in Tables, NEW k \in Keys
               PROVE  NewestOperation(u, k)'
    BY DEF RecordsCurrent
  <2>1. CASE u # t \/ new[k] = Skip
    <3>1. ASSUME NEW i \in Touching(Pending, u, k) PROVE outbox'[i] = outbox[i]
      BY <1>3, <3>1 DEF Touching
    <3> QED
      BY <1>9, <2>1, <3>1 DEF Ledger, RecordsCurrent, NewestOperation, Resolve
  <2>2. CASE u = t /\ new[k] # Skip
    <3> SUFFICES ASSUME NEW i \in Touching(Pending, t, k)',
                        \A j \in Touching(Pending, t, k)' : j <= i
                 PROVE  Resolve(outbox[i].ops[k], t, k)' = rows'[t][k]
      BY <2>2 DEF NewestOperation
    <3>1. i = nextId
      BY <1>10, <2>2
    <3>2. outbox'[i].ops[k] \in {Refresh, new[k]}
      BY <1>2, <2>2, <3>1
    <3> QED
      BY <1>4, <2>2, <3>2 DEF Resolve
  <2> QED
    BY <2>1, <2>2
<1>12. IndexCurrent'
  <2> SUFFICES ASSUME NEW u \in Tables, NEW k \in Keys
               PROVE  CurrentKey(u, k)'
    BY DEF IndexCurrent
  <2>1. CASE u # t \/ new[k] = Skip
    <3>1. /\ Touching(Pending, u, k) = {} => committed[u][k] = rows[u][k]
          /\ Live(u, k) = rows[u][k]
      BY <1>9, <2>1 DEF Ledger, IndexCurrent, CurrentKey
    <3>2. Live(u, k)' = Live(u, k) /\ committed' = committed
      BY <1>1 DEF memory, Live
    <3> QED
      BY <1>9, <2>1, <3>1, <3>2 DEF CurrentKey
  <2>2. CASE u = t /\ new[k] # Skip
    BY <1>10, <2>2 DEF CurrentKey
  <2> QED
    BY <2>1, <2>2
<1>13. ReaderCurrent'
  <2> SUFFICES ASSUME NEW u \in Tables, \A i \in Pending' : outbox'[i].table # u
               PROVE  reader'[u] = rows'[u]
    BY DEF ReaderCurrent
  <2>1. u # t
    BY <1>2, <1>3
  <2>2. \A i \in Pending : outbox[i].table # u
    BY <1>3
  <2> QED
    BY <1>1, <1>5, <2>1, <2>2 DEF memory, Ledger, ReaderCurrent
<1> QED
  BY <1>2, <1>3, <1>6, <1>7, <1>8, <1>11, <1>12, <1>13 DEF Ledger


LEMMA LedgerBulkWrite ==
    ASSUME TypeOK, Ledger, OutboxPhase, NEW t \in Tables, BulkWrite(t)
    PROVE  /\ Ledger'
           /\ todo' = {nextId} /\ nextId \in Ids
           /\ Pending' = Pending \cup {nextId}
           /\ \A i \in todo' : RefreshOnly(i)'
<1>1. Pending \subseteq deferred /\ dirty = {}
  BY DEF BulkWrite, OutboxPhase, RecoverFirst
<1> DEFINE record(new) == [k \in Keys |-> IF new[k] = Skip THEN Skip ELSE Refresh]
<1>2. PICK new \in [Keys -> Vals \cup {Skip}] :
        new # Blank /\ WriteWithRecord(t, new, record(new))
  BY DEF BulkWrite
<1>3. new \in [Keys -> Vals \cup {Absent, Skip}]
  OBVIOUS
<1>4. record(new) \in [Keys -> Operation]
  BY DEF Operation
<1>5. \E k \in Keys : record(new)[k] # Skip
  BY <1>2, Sentinels DEF Blank
<1>6. \A k \in Keys : IF new[k] = Skip THEN record(new)[k] = Skip
                      ELSE record(new)[k] \in {Refresh, new[k]}
  OBVIOUS
<1>7. /\ Ledger'
      /\ Pending' = Pending \cup {nextId}
      /\ outbox'[nextId] = [table |-> t, ops |-> record(new)]
  <2> HIDE DEF record
  <2> QED
    BY <1>1, <1>2, <1>3, <1>4, <1>5, <1>6, LedgerWrite
<1>8. todo' = {nextId} /\ nextId \in Ids
  BY <1>2 DEF WriteWithRecord
<1>9. ASSUME NEW i \in todo' PROVE RefreshOnly(i)'
  <2>1. outbox'[i].ops = record(new)
    BY <1>7, <1>8, <1>9
  <2> QED
    BY <2>1 DEF RefreshOnly
<1> QED
  BY <1>7, <1>8, <1>9

LEMMA LedgerMutateTyped ==
    ASSUME TypeOK, Ledger, OutboxPhase, NEW t \in Tables, MutateTyped(t)
    PROVE  /\ Ledger'
           /\ todo' = {nextId} /\ nextId \in Ids
           /\ Pending' = Pending \cup {nextId}
<1>1. Pending \subseteq deferred /\ dirty = {}
  BY DEF MutateTyped, OutboxPhase, RecoverFirst
<1>2. PICK filter \in SUBSET Vals :
        /\ Matching(t, filter) # {}
        /\ \E new \in Updates(rows[t], Matching(t, filter)) \cup Deletes(Matching(t, filter)) :
              WriteWithRecord(t, new, new)
  BY DEF MutateTyped
<1>3. PICK new \in Updates(rows[t], Matching(t, filter)) \cup Deletes(Matching(t, filter)) :
        WriteWithRecord(t, new, new)
  BY <1>2
<1>4. new \in [Keys -> Vals \cup {Absent, Skip}] /\ new \in [Keys -> Operation]
  BY DEF Updates, Deletes, Operation
<1>5. \E k \in Keys : new[k] # Skip
  BY <1>2, Sentinels DEF Updates, Deletes, Matching
<1>6. Ledger' /\ Pending' = Pending \cup {nextId}
  BY <1>1, <1>3, <1>4, <1>5, LedgerWrite
<1> QED
  BY <1>3, <1>6 DEF WriteWithRecord


\* A batch writes its rows and one record per mutation in one transaction;
\* for a key both mutations touch, the younger record has the row.
LEMMA LedgerMutateBatch ==
    ASSUME TypeOK, Ledger, OutboxPhase, NEW t \in Tables, NEW u \in Tables, MutateBatch(t, u)
    PROVE  Ledger' /\ Pending' = todo' /\ todo' \subseteq Ids
<1> DEFINE mid(a) == [rows EXCEPT ![t] = Apply(rows[t], a)]
           Effect(a, b) ==
             /\ rows' = [mid(a) EXCEPT ![u] = Apply(mid(a)[u], b)]
             /\ outbox' = [outbox EXCEPT
                   ![nextId] = [table |-> t, ops |-> a],
                   ![nextId + 1] = IF b = Blank THEN NoRecord ELSE [table |-> u, ops |-> b]]
             /\ todo' = IF b = Blank THEN {nextId} ELSE {nextId, nextId + 1}
             /\ nextId' = IF b = Blank THEN nextId + 1 ELSE nextId + 2
<1>1. Pending = {} /\ staged = {} /\ deferred = {}
  BY DEF MutateBatch, OutboxPhase, FlushFirst, Ledger, DeferredRecords
<1>2. /\ nextId \in Ids /\ nextId + 1 \in Ids /\ nextId \in Nat /\ nextId # nextId + 1
      /\ UNCHANGED <<dirty, committed, memory>>
  BY Bounds DEF MutateBatch, Ids
<1>3. PICK a \in Planned(t, rows[t]) \ {Blank} :
         \E b \in Planned(u, mid(a)[u]) : Effect(a, b)
  BY DEF MutateBatch
<1>4. PICK b \in Planned(u, mid(a)[u]) : Effect(a, b)
  BY <1>3
<1>5. a \in [Keys -> Vals \cup {Absent, Skip}] /\ b \in [Keys -> Vals \cup {Absent, Skip}]
  BY PlannedType
<1>6. [table |-> t, ops |-> a] # NoRecord /\ [table |-> u, ops |-> b] # NoRecord
  BY <1>5, Sentinels DEF Record, Operation
<1>7. ASSUME NEW k \in Keys
      PROVE  /\ b[k] # Skip => rows'[u][k] = b[k]
             /\ a[k] # Skip /\ (t # u \/ b[k] = Skip) => rows'[t][k] = a[k]
  <2>1. mid(a) \in [Tables -> TableRows] /\ mid(a)[t] = Apply(rows[t], a)
    BY <1>5, ApplyType DEF TypeOK
  <2>2. rows'[u] = Apply(mid(a)[u], b) /\ (t # u => rows'[t] = mid(a)[t])
    BY <1>4, <2>1
  <2> QED
    BY <2>1, <2>2 DEF Apply
<1>8. ASSUME NEW v \in Tables, NEW k \in Keys,
             v = t => a[k] = Skip, v = u => b[k] = Skip
      PROVE  rows'[v][k] = rows[v][k]
  <2>1. mid(a) \in [Tables -> TableRows] /\ mid(a)[v][k] = rows[v][k]
    BY <1>5, <1>8, ApplyType, SMTT(30) DEF TypeOK, Apply
  <2> QED
    BY <1>4, <1>8, <2>1 DEF Apply
<1>9. /\ outbox'[nextId] = [table |-> t, ops |-> a]
      /\ outbox'[nextId + 1] = IF b = Blank THEN NoRecord ELSE [table |-> u, ops |-> b]
      /\ \A i \in Ids \ {nextId, nextId + 1} : outbox'[i] = NoRecord
  BY <1>1, <1>2, <1>4 DEF TypeOK, Pending
<1>10. Pending' = todo' /\ todo' \subseteq Ids
  BY <1>2, <1>4, <1>6, <1>9 DEF Pending
<1> HIDE DEF mid
<1>11. DeferredRecords' /\ StagedOlder'
  BY <1>1, <1>2 DEF memory, DeferredRecords, StagedOlder
<1>12. FreshIds'
  <2> SUFFICES ASSUME NEW i \in Ids, i >= nextId'
               PROVE  outbox'[i] = NoRecord
    BY DEF FreshIds
  <2>1. CASE b = Blank
    <3>1. i >= nextId + 1 /\ outbox'[nextId + 1] = NoRecord
      BY <1>4, <1>9, <2>1
    <3>2. i # nextId
      BY <1>2, <3>1, Bounds DEF Ids
    <3> QED
      BY <1>9, <3>1, <3>2
  <2>2. CASE b # Blank
    <3>1. i >= nextId + 2
      BY <1>4, <2>2
    <3>2. i # nextId /\ i # nextId + 1
      BY <1>2, <3>1, Bounds DEF Ids
    <3> QED
      BY <1>9, <3>2
  <2> QED
    BY <2>1, <2>2
<1>13. ASSUME NEW v \in Tables, NEW k \in Keys
       PROVE  /\ v = t /\ a[k] # Skip => nextId \in Touching(Pending, v, k)'
              /\ v = u /\ b[k] # Skip => nextId + 1 \in Touching(Pending, v, k)'
              /\ \A i \in Touching(Pending, v, k)' :
                    \/ i = nextId /\ v = t /\ a[k] # Skip /\ outbox'[i].ops[k] = a[k]
                    \/ i = nextId + 1 /\ v = u /\ b[k] # Skip /\ outbox'[i].ops[k] = b[k]
  <2>1. b[k] # Skip => b # Blank
    BY DEF Blank
  <2>2. v = t /\ a[k] # Skip => nextId \in Touching(Pending, v, k)'
    BY <1>2, <1>6, <1>9 DEF Touching, Pending
  <2>3. v = u /\ b[k] # Skip => nextId + 1 \in Touching(Pending, v, k)'
    BY <1>2, <1>6, <1>9, <2>1 DEF Touching, Pending
  <2>4. ASSUME NEW i \in Touching(Pending, v, k)'
        PROVE  \/ i = nextId /\ v = t /\ a[k] # Skip /\ outbox'[i].ops[k] = a[k]
               \/ i = nextId + 1 /\ v = u /\ b[k] # Skip /\ outbox'[i].ops[k] = b[k]
    <3>1. i \in Ids /\ outbox'[i] # NoRecord /\ outbox'[i].table = v /\ outbox'[i].ops[k] # Skip
      BY <2>4 DEF Touching, Pending
    <3>2. CASE i = nextId
      BY <1>9, <3>1, <3>2
    <3>3. CASE i = nextId + 1
      BY <1>9, <3>1, <3>3
    <3> QED
      BY <1>9, <3>1, <3>2, <3>3
  <2> QED
    BY <2>2, <2>3, <2>4
<1>14. RecordsCurrent'
  <2> SUFFICES ASSUME NEW v \in Tables, NEW k \in Keys,
                      NEW i \in Touching(Pending, v, k)',
                      \A j \in Touching(Pending, v, k)' : j <= i
               PROVE  Resolve(outbox[i].ops[k], v, k)' = rows'[v][k]
    BY DEF RecordsCurrent, NewestOperation
  <2>1. CASE i = nextId + 1 /\ v = u /\ b[k] # Skip /\ outbox'[i].ops[k] = b[k]
    BY <1>7, <2>1 DEF Resolve
  <2>2. CASE i = nextId /\ v = t /\ a[k] # Skip /\ outbox'[i].ops[k] = a[k]
    <3>1. ~ (nextId + 1 <= nextId)
      BY <1>2
    <3>2. t # u \/ b[k] = Skip
      BY <1>13, <2>2, <3>1
    <3> QED
      BY <1>7, <2>2, <3>2 DEF Resolve
  <2> QED
    BY <1>13, <2>1, <2>2
<1>15. IndexCurrent'
  <2> SUFFICES ASSUME NEW v \in Tables \ dirty, NEW k \in Keys
               PROVE  CurrentKey(v, k)'
    BY <1>2 DEF IndexCurrent
  <2>1. (Pending \ staged)' = Pending'
    BY <1>1, <1>2 DEF memory
  <2>2. CASE Touching(Pending, v, k)' # {}
    BY <2>1, <2>2 DEF CurrentKey
  <2>3. CASE Touching(Pending, v, k)' = {}
    <3>1. rows'[v][k] = rows[v][k]
      BY <1>8, <1>13, <2>3
    <3>2. Touching(Pending, v, k) = {} /\ Touching(Pending \ staged, v, k) = {}
      BY <1>1 DEF Touching
    <3>3. committed[v][k] = rows[v][k] /\ Live(v, k) = rows[v][k]
      BY <3>2 DEF Ledger, IndexCurrent, CurrentKey
    <3>4. committed'[v][k] = committed[v][k] /\ Live(v, k)' = Live(v, k)
      BY <1>2 DEF memory, Live
    <3> QED
      BY <3>1, <3>3, <3>4 DEF CurrentKey
  <2> QED
    BY <2>2, <2>3
<1>16. ReaderCurrent'
  <2> SUFFICES ASSUME NEW v \in Tables \ dirty, \A i \in Pending' : outbox'[i].table # v
               PROVE  reader'[v] = rows'[v]
    BY <1>2 DEF ReaderCurrent
  <2>1. reader'[v] = reader[v] /\ reader[v] = rows[v]
    BY <1>1, <1>2 DEF memory, Ledger, ReaderCurrent
  <2>2. \A k \in Keys : Touching(Pending, v, k)' = {}
    BY DEF Touching
  <2>3. \A k \in Keys : rows'[v][k] = rows[v][k]
    BY <1>8, <1>13, <2>2
  <2>4. TypeOK'
    BY TypeStep DEF Next, Internal
  <2>5. rows'[v] = rows[v]
    BY <2>3, <2>4 DEF TypeOK, TableRows
  <2> QED
    BY <2>1, <2>5
<1> QED
  BY <1>10, <1>11, <1>12, <1>14, <1>15, <1>16 DEF Ledger

\* reindex only marks the table; a schema change rewrites rows no record
\* mentions, because the call flushed first.
LEMMA LedgerReindex ==
    ASSUME Ledger, NEW t \in Tables, Reindex(t)
    PROVE  Ledger'
BY DEF Reindex, memory, Ledger, DeferredRecords, RefreshOnly, FreshIds, StagedOlder, RecordsCurrent,
       NewestOperation, IndexCurrent, CurrentKey, ReaderCurrent, Pending, Touching, Resolve, Live

LEMMA LedgerChangeSchema ==
    ASSUME TypeOK, Ledger, OutboxPhase, NEW t \in Tables, ChangeSchema(t)
    PROVE  Ledger'
<1>1. Pending = {} /\ Pending' = {}
  BY DEF ChangeSchema, OutboxPhase, FlushFirst, Pending
<1>2. \A u \in Tables \ dirty' : u \notin dirty /\ rows'[u] = rows[u]
  BY DEF ChangeSchema, TypeOK
<1>3. DeferredRecords' /\ FreshIds' /\ StagedOlder'
  BY <1>1 DEF ChangeSchema, memory, Ledger, DeferredRecords, FreshIds, StagedOlder, Pending
<1>4. RecordsCurrent'
  BY <1>1 DEF RecordsCurrent, NewestOperation, Touching
<1>5. IndexCurrent'
  BY <1>1, <1>2 DEF ChangeSchema, memory, Ledger, IndexCurrent, CurrentKey, Touching, Live
<1>6. ReaderCurrent'
  BY <1>1, <1>2 DEF ChangeSchema, memory, Ledger, ReaderCurrent
<1> QED
  BY <1>3, <1>4, <1>5, <1>6 DEF Ledger

\* optimize and backup may drop writers: after the flush they queue nothing
\* the index does not already hold.
LEMMA LedgerIdleWriters ==
    ASSUME TypeOK, Ledger, Pending = {},
           UNCHANGED <<sqlite, committed, deferred, staged>>,
           \A t \in Tables : writer'[t] = writer[t] \/ writer'[t] = Blank,
           \A t \in Tables : reader'[t] = reader[t] \/ reader'[t] = committed[t]
    PROVE  Ledger'
<1>1. Pending' = {}
  BY DEF sqlite, Pending
<1>2. ASSUME NEW t \in Tables \ dirty
      PROVE  committed[t] = rows[t]
  <2>1. \A k \in Keys : committed[t][k] = rows[t][k]
    BY DEF Ledger, IndexCurrent, CurrentKey, Touching
  <2> QED
    BY <2>1 DEF TypeOK, TableRows
<1>3. DeferredRecords' /\ FreshIds' /\ StagedOlder' /\ RecordsCurrent'
  BY <1>1 DEF sqlite, Ledger, DeferredRecords, FreshIds, StagedOlder, RecordsCurrent,
     NewestOperation, Touching
<1>4. IndexCurrent'
  <2> SUFFICES ASSUME NEW t \in Tables \ dirty, NEW k \in Keys
               PROVE  CurrentKey(t, k)'
    BY DEF IndexCurrent, sqlite
  <2>1. committed[t][k] = rows[t][k]
    BY <1>2
  <2>2. Live(t, k) = rows[t][k]
    BY DEF Ledger, IndexCurrent, CurrentKey, Touching
  <2>3. Live(t, k)' = rows[t][k]
    BY <2>1, <2>2 DEF Live, Blank
  <2> QED
    BY <2>1, <2>3 DEF CurrentKey, sqlite
<1>5. ReaderCurrent'
  BY <1>1, <1>2 DEF sqlite, Ledger, ReaderCurrent
<1> QED
  BY <1>3, <1>4, <1>5 DEF Ledger

LEMMA LedgerOptimize ==
    ASSUME TypeOK, Ledger, OutboxPhase, NEW t \in Tables, Optimize(t)
    PROVE  Ledger'
<1>1. Pending = {}
  BY DEF Optimize, OutboxPhase, FlushFirst
<1>2. \A u \in Tables : writer'[u] = writer[u] \/ writer'[u] = Blank
  BY DEF Optimize, TypeOK
<1>3. \A u \in Tables : reader'[u] = reader[u] \/ reader'[u] = committed[u]
  BY DEF Optimize, TypeOK
<1> QED
  BY <1>1, <1>2, <1>3, LedgerIdleWriters DEF Optimize

LEMMA LedgerBackup ==
    ASSUME TypeOK, Ledger, OutboxPhase, Backup
    PROVE  Ledger'
<1>1. Pending = {}
  BY DEF Backup, OutboxPhase, FlushFirst
<1> QED
  BY <1>1, LedgerIdleWriters DEF Backup

\* A crash loses what the writers had queued and forgets which records were
\* deferred; every record is then replayed, so nothing is owed.
LEMMA LedgerCrash ==
    ASSUME TypeOK, Ledger, Crash
    PROVE  Ledger'
<1>1. Pending' = Pending /\ deferred' = {} /\ staged' = {}
  BY DEF Crash, sqlite, Pending
<1>2. DeferredRecords' /\ FreshIds' /\ StagedOlder'
  BY <1>1 DEF Crash, sqlite, Ledger, DeferredRecords, FreshIds, StagedOlder
<1>3. ASSUME NEW t \in Tables, NEW k \in Keys
      PROVE  Touching(Pending, t, k)' = Touching(Pending, t, k)
  BY <1>1 DEF Crash, sqlite, Touching
<1>4. RecordsCurrent'
  BY <1>3 DEF Crash, sqlite, Ledger, RecordsCurrent, NewestOperation, Resolve
<1>5. IndexCurrent'
  <2> SUFFICES ASSUME NEW t \in Tables \ dirty, NEW k \in Keys
               PROVE  CurrentKey(t, k)'
    BY DEF IndexCurrent, Crash, sqlite
  <2>1. (Pending \ staged)' = Pending'
    BY <1>1
  <2>2. Live(t, k)' = committed[t][k]
    BY DEF Live, Crash, Blank
  <2> QED
    BY <1>3, <2>1, <2>2 DEF Crash, sqlite, Ledger, IndexCurrent, CurrentKey
<1>6. ReaderCurrent'
  <2> SUFFICES ASSUME NEW t \in Tables \ dirty, \A i \in Pending : outbox[i].table # t
               PROVE  reader'[t] = rows[t]
    BY <1>1 DEF ReaderCurrent, Crash, sqlite
  <2>1. \A k \in Keys : committed[t][k] = rows[t][k]
    BY DEF Ledger, IndexCurrent, CurrentKey, Touching
  <2>2. committed[t] = rows[t]
    BY <2>1 DEF TypeOK, TableRows
  <2> QED
    BY <2>2 DEF Crash
<1> QED
  BY <1>2, <1>4, <1>5, <1>6 DEF Ledger

-----------------------------------------------------------------------------
(* The phases of a call are preserved.                                     *)

\* Every step keeps the ledger.
LEMMA LedgerStep ==
    ASSUME IInv, [Next]_vars
    PROVE  Ledger'
<1> USE DEF IInv
<1>1. CASE Open \/ Replay \/ Applied \/ NothingToWrite \/ Fail \/ \E k \in Kinds : Begin(k)
  <2>1. UNCHANGED <<sqlite, committed, memory>>
    BY <1>1 DEF Open, Replay, Applied, NothingToWrite, Fail, Begin
  <2> QED
    BY <2>1, LedgerFrame
<1>2. CASE Swap \/ Clean \/ \E t \in Tables : DropHandle(t)
  BY <1>2, LedgerSwap, LedgerClean, LedgerDropHandle
<1>3. CASE Commit \/ Reload \/ Acknowledge
  BY <1>3, LedgerCommit, LedgerReload, LedgerAcknowledge
<1>4. CASE \E t \in Tables : StageTable(t) \/ StageFails(t) \/ StageDeferred(t)
  BY <1>4, LedgerStageTable, LedgerStageFails, LedgerStageDeferred
<1>5. CASE \E t \in Tables : BulkWrite(t) \/ MutateTyped(t) \/ \E u \in Tables : MutateBatch(t, u)
  BY <1>5, LedgerBulkWrite, LedgerMutateTyped, LedgerMutateBatch
<1>6. CASE Backup \/ \E t \in Tables : Reindex(t) \/ ChangeSchema(t) \/ Optimize(t)
  BY <1>6, LedgerBackup, LedgerReindex, LedgerChangeSchema, LedgerOptimize
<1>7. CASE Crash
  BY <1>7, LedgerCrash
<1>8. CASE UNCHANGED vars
  BY <1>8, LedgerFrame DEF vars
<1> QED
  BY <1>1, <1>2, <1>3, <1>4, <1>5, <1>6, <1>7, <1>8 DEF Next, Internal, Fault

\* A call that has returned knows nothing about the outbox.
LEMMA OutboxPhaseReturn ==
    ASSUME NEW result \in {"ok", "err"}, Return(result)
    PROVE  OutboxPhase'
BY DEF Return, OutboxPhase, ApplySteps, RebuildSteps, FlushFirst, RecoverFirst

\* Steps of a call that leave the outbox and the in-memory sets alone and
\* stay in its phase.
LEMMA OutboxPhaseStep ==
    ASSUME IInv, [Next]_vars, DeferTyped = FALSE
    PROVE  OutboxPhase'
<1> USE DEF IInv
<1>1. CASE Open
  <2>1. pc' = "recover" /\ kind' = "open" /\ deferred' = {} /\ todo' = {}
    BY <1>1 DEF Open, OutboxPhase, TablePhase, memory
  <2> QED
    BY <2>1 DEF OutboxPhase, ApplySteps, RebuildSteps, FlushFirst, RecoverFirst
<1>2. ASSUME NEW k \in Kinds, Begin(k)
      PROVE  OutboxPhase'
  <2>1. Pending' = Pending /\ deferred' = deferred /\ kind' = k
    BY <1>2 DEF Begin, sqlite, memory, Pending
  <2>2. CASE k \in RecoverFirst
    BY <1>2, <2>1, <2>2 DEF Begin, OutboxPhase, ApplySteps, RebuildSteps, FlushFirst, RecoverFirst
  <2>3. CASE k \notin RecoverFirst
    BY <1>2, <2>1, <2>3 DEF Begin, Kinds, OutboxPhase, ApplySteps, RebuildSteps, FlushFirst, RecoverFirst
  <2> QED
    BY <2>2, <2>3
<1>3. CASE Swap \/ \E t \in Tables : DropHandle(t)
  <2>1. /\ Pending' = Pending /\ UNCHANGED <<deferred, todo, kind, then>>
        /\ pc \in {"recover", "rebuild", "swap"} /\ pc' \in {"swap", "clean"}
    BY <1>3 DEF Swap, DropHandle, sqlite, Pending
  <2> QED
    BY <2>1 DEF OutboxPhase, ApplySteps, RebuildSteps
<1>4. CASE Clean
  <2>1. CASE kind \in RecoverFirst \cup {"open"}
    BY <1>4, <2>1 DEF Clean, memory, Pending, OutboxPhase, ApplySteps, RebuildSteps
  <2>2. CASE kind \notin RecoverFirst \cup {"open"}
    BY <1>4, <2>2, OutboxPhaseReturn DEF Clean
  <2> QED
    BY <2>1, <2>2
<1>5. CASE Replay
  <2>1. /\ Pending' = Pending /\ UNCHANGED <<deferred, dirty, kind, then>>
        /\ pc' = "apply" /\ pc = "recover" /\ todo' = Pending \ deferred /\ dirty = {}
    BY <1>5 DEF Replay, sqlite, memory, Pending
  <2> QED
    BY <2>1 DEF OutboxPhase, ApplySteps, RebuildSteps, FlushFirst, RecoverFirst
<1>6. CASE Commit \/ Reload \/ \E t \in Tables : StageTable(t)
  <2>1. /\ Pending' = Pending /\ UNCHANGED <<outbox, deferred, dirty, todo, kind, then>>
        /\ pc \in ApplySteps /\ pc' \in {"commit", "reload", "ack"}
    BY <1>6 DEF Commit, Reload, StageTable, sqlite, Pending, ApplySteps
  <2> QED
    BY <2>1 DEF OutboxPhase, ApplySteps, RebuildSteps
<1>7. CASE Acknowledge
  <2>1. Pending' = Pending \ Group(cur)
    BY <1>7, LedgerAcknowledge
  <2>2. /\ UNCHANGED <<dirty, kind, then>> /\ pc = "ack" /\ pc' = "apply"
        /\ deferred' = deferred \ Group(cur) /\ todo' = todo \ Group(cur)
    BY <1>7 DEF Acknowledge
  <2> QED
    BY <2>1, <2>2 DEF OutboxPhase, ApplySteps, RebuildSteps
<1>8. CASE Applied
  <2>1. CASE then = "body"
    <3>1. /\ Pending' = Pending /\ UNCHANGED <<deferred, dirty, kind, then, todo>>
          /\ pc = "apply" /\ pc' = "body" /\ todo = {}
      BY <1>8, <2>1 DEF Applied, sqlite, memory, Pending
    <3> QED
      BY <3>1 DEF OutboxPhase, ApplySteps, RebuildSteps
  <2>2. CASE then # "body"
    BY <1>8, <2>2, OutboxPhaseReturn DEF Applied
  <2> QED
    BY <2>1, <2>2
<1>9. ASSUME NEW t \in Tables, BulkWrite(t)
      PROVE  OutboxPhase'
  <2>1. /\ todo' = {nextId} /\ nextId \in Ids /\ Pending' = Pending \cup {nextId}
        /\ \A i \in todo' : RefreshOnly(i)'
    BY <1>9, LedgerBulkWrite
  <2>2. /\ UNCHANGED <<dirty, deferred, kind>> /\ then' = "return"
        /\ pc = "body" /\ pc' = "stage" /\ kind = "bulk"
    BY <1>9 DEF BulkWrite, WriteWithRecord, memory
  <2> QED
    BY <2>1, <2>2 DEF OutboxPhase, ApplySteps, RebuildSteps, RecoverFirst

<1>10. ASSUME NEW t \in Tables, MutateTyped(t)
       PROVE  OutboxPhase'
  <2>1. todo' = {nextId} /\ nextId \in Ids /\ Pending' = Pending \cup {nextId}
    BY <1>10, LedgerMutateTyped
  <2>2. /\ UNCHANGED <<dirty, deferred, kind>>
        /\ pc = "body" /\ pc' = "apply" /\ kind = "mutate"
    BY <1>10 DEF MutateTyped, WriteWithRecord, memory
  <2> QED
    BY <2>1, <2>2 DEF OutboxPhase, ApplySteps, RebuildSteps, FlushFirst, RecoverFirst
<1>11. ASSUME NEW t \in Tables, NEW u \in Tables, MutateBatch(t, u)
       PROVE  OutboxPhase'
  <2>1. Pending' = todo'
    BY <1>11, LedgerMutateBatch
  <2>2. pc' = "apply" /\ kind' = "batch"
    BY <1>11 DEF MutateBatch
  <2> QED
    BY <2>1, <2>2 DEF OutboxPhase, ApplySteps, RebuildSteps, FlushFirst, RecoverFirst
<1>12. ASSUME NEW t \in Tables, StageDeferred(t)
       PROVE  OutboxPhase'
  <2>1. Pending' = Pending /\ dirty' = dirty /\ pc = "stage"
    BY <1>12 DEF StageDeferred, sqlite, Pending
  <2>2. CASE Return("ok")
    BY <2>2, OutboxPhaseReturn
  <2>3. CASE ~ Return("ok")
    <3>1. pc' = "apply" /\ todo' = Pending /\ kind' = "bulk" /\ kind = "bulk"
      BY <1>12, <2>3 DEF StageDeferred
    <3> QED
      BY <2>1, <3>1 DEF OutboxPhase, ApplySteps, RebuildSteps, FlushFirst, RecoverFirst
  <2> QED
    BY <2>2, <2>3
<1>13. ASSUME NEW t \in Tables, Reindex(t) \/ ChangeSchema(t)
       PROVE  OutboxPhase'
  <2>1. /\ Pending' = Pending /\ UNCHANGED <<deferred, todo, kind>>
        /\ pc' = "rebuild" /\ kind \in {"reindex", "schema"}
    BY <1>13 DEF Reindex, ChangeSchema, memory, Pending
  <2> QED
    BY <2>1 DEF OutboxPhase, ApplySteps, RebuildSteps
<1>14. CASE NothingToWrite \/ Backup \/ Fail \/ \E t \in Tables : Optimize(t) \/ StageFails(t)
  BY <1>14, OutboxPhaseReturn DEF NothingToWrite, Backup, Fail, Optimize, StageFails
<1>15. CASE Crash
  <2>1. pc' = "closed" /\ kind' = "none" /\ todo' = {} /\ deferred' = {}
    BY <1>15 DEF Crash, Return
  <2> QED
    BY <2>1 DEF OutboxPhase, ApplySteps, RebuildSteps, FlushFirst, RecoverFirst
<1>16. CASE UNCHANGED vars
  BY <1>16 DEF vars, sqlite, memory, call, OutboxPhase, Pending, RefreshOnly
<1> QED
  BY <1>1, <1>2, <1>3, <1>4, <1>5, <1>6, <1>7, <1>8, <1>9, <1>10, <1>11, <1>12, <1>13,
     <1>14, <1>15, <1>16 DEF Next, Internal, Fault

LEMMA TablePhaseReturn ==
    ASSUME NEW result \in {"ok", "err", "closed"}, Return(result)
    PROVE  TablePhase'
BY DEF Return, TablePhase, RebuildSteps

\* Every step establishes what the next step of its call relies on about
\* the table it works on.
LEMMA TablePhaseStep ==
    ASSUME IInv, [Next]_vars
    PROVE  TablePhase'
<1> USE DEF IInv
<1>1. CASE Open \/ Replay \/ \E k \in Kinds : Begin(k)
  <2>1. /\ pc' \in {"recover", "apply"}
        /\ pc' = "apply" /\ kind' = "mutate" => then' = "body"
    BY <1>1 DEF Open, Replay, Begin, OutboxPhase, FlushFirst, RecoverFirst, Kinds
  <2> QED
    BY <2>1 DEF TablePhase, RebuildSteps
<1>2. ASSUME NEW t \in Tables, DropHandle(t)
      PROVE  TablePhase'
  <2>1. t \in dirty' /\ cur' = t /\ pc' = "swap"
    BY <1>2 DEF DropHandle, TablePhase, RebuildSteps, sqlite
  <2>2. writer'[t] = Blank
    BY <1>2 DEF DropHandle, TypeOK
  <2> QED
    BY <2>1, <2>2 DEF TablePhase, RebuildSteps
<1>3. CASE Swap
  <2>1. /\ cur \in dirty /\ cur \in Tables
        /\ writer'[cur] = Blank
        /\ UNCHANGED <<dirty, cur, rows>>
        /\ pc' = "clean"
    BY <1>3 DEF Swap, TablePhase, RebuildSteps, TypeOK, sqlite
  <2>2. committed'[cur] = rows[cur] /\ reader'[cur] = rows[cur]
    BY <1>3, <2>1 DEF Swap, TypeOK
  <2> QED
    BY <2>1, <2>2 DEF TablePhase, RebuildSteps
<1>4. CASE Clean
  <2>1. CASE pc' = "recover"
    BY <2>1 DEF TablePhase, RebuildSteps
  <2>2. CASE pc' # "recover"
    BY <1>4, <2>2, TablePhaseReturn DEF Clean
  <2> QED
    BY <2>1, <2>2
<1>5. ASSUME NEW t \in Tables, StageTable(t)
      PROVE  TablePhase'
  <2>1. t \notin dirty => \A k \in Keys : Live(t, k)' = rows[t][k]
    BY <1>5, LedgerStageTable
  <2>2. UNCHANGED <<dirty, rows>> /\ cur' = t /\ pc' = "commit" /\ Group(cur)' # {}
    BY <1>5 DEF StageTable, sqlite, Group
  <2> QED
    BY <2>1, <2>2 DEF TablePhase, RebuildSteps, Live
<1>6. CASE Commit
  <2>1. cur \notin dirty => committed'[cur] = rows[cur]
    BY <1>6, LedgerCommit
  <2>2. UNCHANGED <<dirty, rows, cur>> /\ cur \in Tables /\ pc' = "reload" /\ Group(cur)' # {}
    BY <1>6 DEF Commit, sqlite, TablePhase, Group
  <2>3. writer'[cur] = Blank
    BY <1>6, <2>2 DEF Commit, TypeOK
  <2> QED
    BY <2>1, <2>2, <2>3 DEF TablePhase, RebuildSteps
<1>7. CASE Reload
  <2>1. /\ UNCHANGED <<dirty, rows, committed, writer, cur>> /\ cur \in Tables
        /\ pc = "reload" /\ pc' = "ack" /\ Group(cur)' # {}
    BY <1>7 DEF Reload, sqlite, TablePhase, Group
  <2>2. reader'[cur] = committed[cur]
    BY <1>7, <2>1 DEF Reload, TypeOK
  <2> QED
    BY <2>1, <2>2 DEF TablePhase, RebuildSteps
<1>8. CASE Acknowledge
  <2>1. UNCHANGED <<dirty, rows, reader, cur, kind>> /\ pc = "ack" /\ pc' = "apply"
    BY <1>8 DEF Acknowledge
  <2>2. kind = "mutate" => dirty = {}
    BY <2>1 DEF OutboxPhase, ApplySteps, RecoverFirst
  <2>3. kind = "mutate" => cur \in Tables /\ reader[cur] = rows[cur]
    BY <2>1, <2>2 DEF TablePhase
  <2> QED
    BY <2>1, <2>3 DEF TablePhase, RebuildSteps
<1>9. CASE Applied
  <2>1. CASE pc' = "body"
    BY <2>1 DEF TablePhase, RebuildSteps
  <2>2. CASE pc' # "body"
    BY <1>9, <2>2, TablePhaseReturn DEF Applied
  <2> QED
    BY <2>1, <2>2
<1>10. ASSUME NEW t \in Tables, BulkWrite(t) \/ MutateTyped(t) \/ \E u \in Tables : MutateBatch(t, u)
       PROVE  TablePhase'
  <2>1. pc' \in {"stage", "apply"}
    BY <1>10 DEF BulkWrite, MutateTyped, MutateBatch
  <2>2. todo' # {}
    BY <1>10 DEF BulkWrite, MutateTyped, MutateBatch, WriteWithRecord
  <2> QED
    BY <2>1, <2>2 DEF TablePhase, RebuildSteps
<1>11. ASSUME NEW t \in Tables, StageDeferred(t)
       PROVE  TablePhase'
  <2>1. CASE Return("ok")
    BY <2>1, TablePhaseReturn
  <2>2. CASE ~ Return("ok")
    <3>1. pc' = "apply" /\ kind' = "bulk"
      BY <1>11, <2>2 DEF StageDeferred
    <3> QED
      BY <3>1 DEF TablePhase, RebuildSteps
  <2> QED
    BY <2>1, <2>2
<1>12. ASSUME NEW t \in Tables, Reindex(t) \/ ChangeSchema(t)
       PROVE  TablePhase'
  <2>1. cur' \in dirty' /\ pc' = "rebuild"
    BY <1>12 DEF Reindex, ChangeSchema
  <2> QED
    BY <2>1 DEF TablePhase, RebuildSteps
<1>13. CASE NothingToWrite \/ Backup \/ Fail \/ Crash \/ \E t \in Tables : Optimize(t) \/ StageFails(t)
  BY <1>13, TablePhaseReturn DEF NothingToWrite, Backup, Fail, Crash, Optimize, StageFails
<1>14. CASE UNCHANGED vars
  BY <1>14 DEF vars, sqlite, memory, call, TablePhase, Live, Group
<1> QED
  BY <1>1, <1>2, <1>3, <1>4, <1>5, <1>6, <1>7, <1>8, <1>9, <1>10, <1>11, <1>12, <1>13,
     <1>14 DEF Next, Internal, Fault

-----------------------------------------------------------------------------
(* The theorems.                                                           *)

LEMMA IInvInit == Init => IInv
<1> SUFFICES ASSUME Init PROVE IInv
  OBVIOUS
<1>1. TypeOK
  BY TypeInit
<1>2. Pending = {} /\ staged = {} /\ deferred = {}
  BY DEF Init, Pending
<1>3. Ledger
  <2>1. DeferredRecords /\ FreshIds /\ StagedOlder
    BY <1>2 DEF DeferredRecords, FreshIds, StagedOlder, Init
  <2>2. RecordsCurrent
    BY <1>2 DEF RecordsCurrent, NewestOperation, Touching
  <2>3. IndexCurrent
    BY DEF IndexCurrent, CurrentKey, Init, Live, Blank, Empty
  <2>4. ReaderCurrent
    BY DEF ReaderCurrent, Init
  <2> QED
    BY <2>1, <2>2, <2>3, <2>4 DEF Ledger
<1>4. OutboxPhase
  BY DEF Init, OutboxPhase, ApplySteps, RebuildSteps
<1>5. TablePhase
  BY DEF Init, TablePhase, RebuildSteps
<1> QED
  BY <1>1, <1>3, <1>4, <1>5 DEF IInv

LEMMA IInvStep ==
    ASSUME DeferTyped = FALSE
    PROVE  IInv /\ [Next]_vars => IInv'
BY TypeStep, LedgerStep, OutboxPhaseStep, TablePhaseStep DEF IInv

\* While clients defer only bulk writes, the inductive invariant holds in
\* every state the database reaches, through errors and crashes alike.
THEOREM Inductive ==
    ASSUME DeferTyped = FALSE
    PROVE  Spec => []IInv
<1>1. Init => IInv
  BY IInvInit
<1>2. IInv /\ [Next]_vars => IInv'
  BY IInvStep
<1> QED
  BY <1>1, <1>2, PTL DEF Spec

\* apply_outboxes, rebuild_table and the transactions that write rows with
\* their records keep the promise of the durable outbox: whenever the
\* process stops, the index and the outbox together determine SQLite's rows.
THEOREM Recoverable ==
    ASSUME DeferTyped = FALSE
    PROVE  Spec => []RecoverableIndex
<1>1. IInv => RecoverableIndex
  BY LedgerImpliesRecoverable DEF IInv
<1> QED
  BY <1>1, Inductive, PTL

\* A call that returns Ok after apply_outboxes has left nothing it owed.
LEMMA PublishedStep ==
    ASSUME IInv, [Next]_vars, pc = "apply", pc' = "ok", NEW t \in Tables
    PROVE  \/ reader[t] = rows[t]
           \/ kind = "read"
           \/ kind = "mutate" /\ t # cur
           \/ kind \in {"bulk", "batch", "flush"} /\ t \in dirty
<1> USE DEF IInv
<1>1. Applied /\ then # "body"
  BY DEF Next, Internal, Fault, vars, call, Open, Swap, Clean, Replay, Commit, Reload, Acknowledge,
     Applied, NothingToWrite, Backup, DropHandle, StageTable, StageDeferred, BulkWrite, MutateTyped,
     Reindex, ChangeSchema, Optimize, MutateBatch, Fail, Crash, StageFails, Begin, Ready, Return
<1>2. todo = {} /\ then = "return"
  BY <1>1 DEF Applied, TypeOK
<1>3. CASE kind = "mutate"
  BY <1>2, <1>3 DEF TablePhase
<1>4. CASE kind \in FlushFirst \cup {"open", "bulk"}
  <2>1. Pending = {}
    BY <1>2, <1>4 DEF OutboxPhase, ApplySteps
  <2>2. t \notin dirty => reader[t] = rows[t]
    BY <2>1 DEF Ledger, ReaderCurrent
  <2>3. kind = "open" => dirty = {}
    BY DEF OutboxPhase, ApplySteps, RecoverFirst
  <2>4. kind \in {"bulk", "batch", "flush", "open"}
    BY <1>2, <1>4 DEF OutboxPhase, ApplySteps
  <2> QED
    BY <2>2, <2>3, <2>4
<1> QED
  BY <1>3, <1>4 DEF OutboxPhase, ApplySteps, TypeOK, Kinds, RecoverFirst

\* apply_outboxes returns only after commit, reload and acknowledgement of
\* every table it was given: what a publishing call reports is visible.
THEOREM Published ==
    ASSUME DeferTyped = FALSE
    PROVE  Spec => PublishedOnReturn
<1>1. IInv /\ [Next]_vars =>
        [(pc = "apply" /\ pc' = "ok") =>
            \A t \in Tables :
                \/ reader[t] = rows[t]
                \/ kind = "read"
                \/ kind = "mutate" /\ t # cur
                \/ kind \in {"bulk", "batch", "flush"} /\ t \in dirty]_vars
  BY PublishedStep
<1> QED
  BY <1>1, Inductive, PTL DEF Spec, PublishedOnReturn

LEMMA ReadStep ==
    ASSUME IInv, [Next]_vars, kind = "read", dirty = {}, Pending \subseteq deferred, pc' # "closed"
    PROVE  reader' = reader
<1> USE DEF IInv
<1>1. pc \notin {"swap", "rebuild", "clean"}
  BY DEF TablePhase, RebuildSteps
<1>2. pc \notin {"commit", "reload", "ack"}
  <2>1. pc \in ApplySteps => todo = {}
    BY DEF OutboxPhase
  <2> QED
    BY <2>1 DEF TablePhase, Group, ApplySteps
<1> QED
  BY <1>1, <1>2 DEF Next, Internal, Fault, vars, memory, Open, Swap, Clean, Replay, Commit, Reload,
     Acknowledge, Applied, NothingToWrite, Backup, DropHandle, StageTable, StageDeferred, BulkWrite,
     WriteWithRecord, MutateTyped, Reindex, ChangeSchema, Optimize, MutateBatch, Fail, Crash,
     StageFails, Begin, Return

\* replay_outbox leaves deferred records out, so the recovery in front of a
\* read publishes nothing while they are the only work.
THEOREM ReadsPublishNothing ==
    ASSUME DeferTyped = FALSE
    PROVE  Spec => ReadsKeepSnapshot
<1>1. IInv /\ [Next]_vars =>
        [(kind = "read" /\ dirty = {} /\ Pending \subseteq deferred /\ pc' # "closed")
            => reader' = reader]_vars
  BY ReadStep
<1> QED
  BY <1>1, Inductive, PTL DEF Spec, ReadsKeepSnapshot

-----------------------------------------------------------------------------
(* The database implements the abstract store.                             *)

LEMMA AbstractStep ==
    ASSUME IInv, IInv', [Next]_vars
    PROVE  [Abstract!Next]_(Abstract!vars)
<1> USE DEF IInv, Abstract!vars
<1>0. Abstract!TableRows = TableRows
  BY DEF Abstract!TableRows, TableRows, Row
<1>1. CASE Open \/ Replay \/ Applied \/ NothingToWrite \/ Fail \/ Acknowledge \/ Backup \/ UNCHANGED vars
           \/ \E k \in Kinds : Begin(k)
  BY <1>1 DEF Open, Replay, Applied, NothingToWrite, Fail, Acknowledge, Backup, Begin, vars, sqlite, memory
<1>2. CASE \E t \in Tables : StageTable(t) \/ StageFails(t) \/ StageDeferred(t)
  BY <1>2 DEF StageTable, StageFails, StageDeferred, sqlite
<1>3. ASSUME NEW t \in Tables, DropHandle(t) \/ Optimize(t)
      PROVE  [Abstract!Next]_(Abstract!vars)
  <2>1. CASE reader' = reader
    BY <1>3, <2>1 DEF DropHandle, Optimize, sqlite
  <2>2. CASE reader' # reader
    <3>1. Abstract!Reload({t})
      BY <1>3, <2>2 DEF DropHandle, Optimize, sqlite, TypeOK, Abstract!Reload
    <3> QED
      BY <3>1 DEF Abstract!Next
  <2> QED
    BY <2>1, <2>2
<1>4. CASE Swap
  <2>1. cur \in dirty /\ cur \in Tables
    BY <1>4 DEF Swap, TablePhase, RebuildSteps, TypeOK
  <2>2. Abstract!Rebuild(cur)
    BY <1>4, <2>1 DEF Swap, sqlite, Abstract!Rebuild
  <2> QED
    BY <2>1, <2>2 DEF Abstract!Next
<1>5. CASE Clean
  <2>1. cur \in dirty /\ cur \in Tables /\ committed[cur] = rows[cur]
    BY <1>5 DEF Clean, TablePhase, RebuildSteps, TypeOK
  <2>2. Abstract!Clean(cur)
    BY <1>5, <2>1 DEF Clean, memory, Abstract!Clean
  <2> QED
    BY <2>1, <2>2 DEF Abstract!Next
<1>6. CASE Commit
  <2>1. cur \in Tables /\ UNCHANGED <<rows, reader, dirty>>
    BY <1>6 DEF Commit, TablePhase, sqlite
  <2>2. committed' = [committed EXCEPT ![cur] = committed'[cur]] /\ committed'[cur] \in TableRows
    BY <1>6, <2>1 DEF Commit, TypeOK
  <2>3. CASE cur \in dirty
    <3>1. Abstract!PublishStale(cur)
      BY <1>0, <2>1, <2>2, <2>3 DEF Abstract!PublishStale
    <3> QED
      BY <2>1, <3>1 DEF Abstract!Next
  <2>4. CASE cur \notin dirty
    <3>1. committed'[cur] = rows[cur]
      BY <1>6, <2>4, LedgerCommit
    <3>2. Abstract!Publish(cur)
      BY <2>1, <2>2, <2>4, <3>1 DEF Abstract!Publish
    <3> QED
      BY <2>1, <3>2 DEF Abstract!Next
  <2> QED
    BY <2>3, <2>4
<1>7. CASE Reload
  <2>1. cur \in Tables /\ UNCHANGED <<rows, committed, dirty>>
    BY <1>7 DEF Reload, TablePhase, sqlite
  <2>2. Abstract!Reload({cur})
    BY <1>7, <2>1 DEF Reload, TypeOK, Abstract!Reload
  <2> QED
    BY <2>1, <2>2 DEF Abstract!Next
<1>8. CASE \E t \in Tables : BulkWrite(t) \/ MutateTyped(t) \/ \E u \in Tables : MutateBatch(t, u)
  <2>1. UNCHANGED <<committed, reader, dirty>>
    BY <1>8 DEF BulkWrite, MutateTyped, MutateBatch, WriteWithRecord, memory
  <2>2. Abstract!Write
    BY <1>0, <2>1 DEF TypeOK, Abstract!Write
  <2> QED
    BY <2>2 DEF Abstract!Next
<1>9. ASSUME NEW t \in Tables, Reindex(t) \/ ChangeSchema(t)
      PROVE  [Abstract!Next]_(Abstract!vars)
  <2>1. UNCHANGED <<committed, reader>> /\ dirty' = dirty \cup {t}
    BY <1>9 DEF Reindex, ChangeSchema, memory
  <2>2. rows' = [rows EXCEPT ![t] = rows'[t]] /\ rows'[t] \in TableRows
    BY <1>9 DEF Reindex, ChangeSchema, TypeOK
  <2>3. Abstract!Supersede(t)
    BY <1>0, <2>1, <2>2 DEF Abstract!Supersede
  <2> QED
    BY <2>3 DEF Abstract!Next
<1>10. CASE Crash
  <2>1. Abstract!Reload(Tables)
    BY <1>10 DEF Crash, sqlite, TypeOK, Abstract!Reload
  <2> QED
    BY <2>1 DEF Abstract!Next
<1> QED
  BY <1>1, <1>2, <1>3, <1>4, <1>5, <1>6, <1>7, <1>8, <1>9, <1>10 DEF Next, Internal, Fault

\* Every behaviour of the database, with its errors and crashes, is a
\* behaviour of IndexedStore: an index commit publishes exactly SQLite's
\* rows, and only tables marked dirty are exempt.
THEOREM ImplementsStore ==
    ASSUME DeferTyped = FALSE
    PROVE  Spec => Implements
<1>1. Init => Abstract!Init
  BY DEF Init, Abstract!Init, Empty, Abstract!Empty
<1>2. IInv /\ IInv' /\ [Next]_vars => [Abstract!Next]_(Abstract!vars)
  BY AbstractStep
<1> QED
  BY <1>1, <1>2, Inductive, PTL DEF Spec, Implements, Abstract!Spec
=============================================================================
