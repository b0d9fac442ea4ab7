------------------------------- MODULE Outbox -------------------------------
(***************************************************************************)
(* The embedded Database: SQLite rows, the durable indexing outbox, one    *)
(* long-lived Tantivy writer per table, and the calls that move work from  *)
(* the first to the last.  A call has exclusive access to the Database, so *)
(* the steps below are those of one call at a time; what interleaves with  *)
(* them are errors (the call returns Err with its effects so far) and      *)
(* crashes (memory and uncommitted Tantivy work are lost).                 *)
(*                                                                         *)
(* A row is one opaque value.  The operations of one outbox record, and    *)
(* those queued in a writer, are kept per key: Tantivy deletes the key's   *)
(* earlier documents before it adds one, so the last operation decides.    *)
(***************************************************************************)
EXTENDS Naturals

CONSTANTS
    Tables, Keys, Vals,
    Absent,     \* no row under the key; as an operation: Delete
    Refresh,    \* operation: take whatever row SQLite holds when replayed
    Skip,       \* the record or the writer has no operation on the key
    NoRecord, NoTable,
    MaxId,      \* bound: outbox ids handed out by AUTOINCREMENT
    DeferTyped, \* do clients call mutate_typed_deferred for update / delete?
    Crashes     \* may the process stop between two steps?

Ids == 1 .. MaxId
Row == Vals \cup {Absent}
TableRows == [Keys -> Row]
Operation == Vals \cup {Absent, Refresh, Skip}
Record == [table : Tables, ops : [Keys -> Operation]]

ASSUME Sentinels ==
    /\ Absent \notin Vals
    /\ Refresh \notin Vals \cup {Absent}
    /\ Skip \notin Vals \cup {Absent, Refresh}
    /\ NoRecord \notin Record
    /\ NoTable \notin Tables

ASSUME Bounds == MaxId \in Nat /\ DeferTyped \in BOOLEAN /\ Crashes \in BOOLEAN

VARIABLES
    rows,      \* SQLite: rows of every table
    outbox,    \* SQLite: __aq_outbox
    nextId,    \* SQLite: next AUTOINCREMENT id
    dirty,     \* SQLite: tables with __aq_tables.dirty = 1
    committed, \* Tantivy: last committed state of every index
    reader,    \* memory: snapshot held by every IndexReader
    writer,    \* memory: operations queued in every IndexWriter
    deferred,  \* memory: deferred_outbox_ids
    staged,    \* memory: staged_outbox_ids
    pc,        \* next step of the running call; "ok" / "err": result of the last
    kind,      \* which call is running
    then,      \* what follows its running recover, replay or flush
    todo,      \* outbox ids handed to apply_outboxes, not yet removed
    cur        \* table that apply_outboxes or rebuild_table works on

sqlite == <<rows, outbox, nextId, dirty>>
memory == <<reader, writer, deferred, staged>>
call   == <<pc, kind, then, todo, cur>>
vars   == <<sqlite, committed, memory, call>>

RecoverFirst == {"read", "bulk", "mutate"}
FlushFirst == {"flush", "batch", "reindex", "schema", "optimize", "backup"}
Kinds == RecoverFirst \cup FlushFirst
Steps == {"recover", "rebuild", "swap", "clean", "apply", "commit", "reload",
          "ack", "body", "stage"}

TypeOK ==
    /\ rows \in [Tables -> TableRows]
    /\ outbox \in [Ids -> Record \cup {NoRecord}]
    /\ nextId \in 1 .. MaxId + 1
    /\ dirty \subseteq Tables
    /\ committed \in [Tables -> TableRows]
    /\ reader \in [Tables -> TableRows]
    /\ writer \in [Tables -> [Keys -> Row \cup {Skip}]]
    /\ deferred \subseteq Ids
    /\ staged \subseteq Ids
    /\ pc \in Steps \cup {"closed", "ok", "err"}
    /\ kind \in Kinds \cup {"open", "none"}
    /\ then \in {"body", "return"}
    /\ todo \subseteq Ids
    /\ cur \in Tables \cup {NoTable}
-----------------------------------------------------------------------------
Empty == [k \in Keys |-> Absent]
Blank == [k \in Keys |-> Skip]

Pending == {i \in Ids : outbox[i] # NoRecord}
Ready == pc \in {"ok", "err"}

\* Ids in S that carry an operation on key k of table t.
Touching(S, t, k) ==
    {i \in S : outbox[i] # NoRecord /\ outbox[i].table = t /\ outbox[i].ops[k] # Skip}

LastId(S) == CHOOSE i \in S : \A j \in S : j <= i

\* Mutant: Refresh operations reach the writer unresolved.
ResolveNothing(op, t, k) == op

\* resolve_refresh_operations for one key: Refresh becomes an Upsert of
\* the current row, or a Delete when there is none.
Resolve(op, t, k) == IF op = Refresh THEN rows[t][k] ELSE op

\* Mutant: the records are staged in the wrong order.
StageBackwards(S, t) ==
    [k \in Keys |->
        IF Touching(S, t, k) = {} THEN writer[t][k]
        ELSE LET first == CHOOSE i \in Touching(S, t, k) : \A j \in Touching(S, t, k) : i <= j
             IN  Resolve(outbox[first].ops[k], t, k)]

\* The writer's queue after stage_outbox ran for the ids of S in id order.
Stage(S, t) ==
    [k \in Keys |->
        IF Touching(S, t, k) = {} THEN writer[t][k]
        ELSE Resolve(outbox[LastId(Touching(S, t, k))].ops[k], t, k)]

\* What a commit of the table's writer makes of key k.
Live(t, k) == IF writer[t][k] = Skip THEN committed[t][k] ELSE writer[t][k]

Group(t) == {i \in todo : outbox[i] # NoRecord /\ outbox[i].table = t}

\* The rows of a table after the operations of one mutation.
Apply(old, ops) == [k \in Keys |-> IF ops[k] = Skip THEN old[k] ELSE ops[k]]

Return(result) ==
    /\ pc' = result
    /\ kind' = "none"
    /\ then' = "return"
    /\ todo' = {}
    /\ cur' = NoTable

Init ==
    /\ rows = [t \in Tables |-> Empty]
    /\ outbox = [i \in Ids |-> NoRecord]
    /\ nextId = 1
    /\ dirty = {}
    /\ committed = [t \in Tables |-> Empty]
    /\ reader = [t \in Tables |-> Empty]
    /\ writer = [t \in Tables |-> Blank]
    /\ deferred = {}
    /\ staged = {}
    /\ pc = "ok"
    /\ kind = "none"
    /\ then = "return"
    /\ todo = {}
    /\ cur = NoTable
-----------------------------------------------------------------------------
(* Starting a call.                                                        *)

\* open_with_options: fresh sets, no handles, then recover().
Open ==
    /\ pc = "closed"
    /\ pc' = "recover"
    /\ kind' = "open"
    /\ UNCHANGED <<sqlite, committed, memory, then, todo, cur>>

\* Mutant: flush hands over the deferred records only.
BeginDeferredOnly(k) ==
    /\ Ready
    /\ kind' = k
    /\ then' = IF k \in {"read", "flush"} THEN "return" ELSE "body"
    /\ IF k \in RecoverFirst
         THEN pc' = "recover" /\ todo' = {}
         ELSE pc' = "apply" /\ todo' = deferred
    /\ UNCHANGED <<sqlite, committed, memory, cur>>

\* The calls whose first statement is recover(), and those that start with
\* flush(), the flush of every record in the outbox.
Begin(k) ==
    /\ Ready
    /\ kind' = k
    /\ then' = IF k \in {"read", "flush"} THEN "return" ELSE "body"
    /\ IF k \in RecoverFirst
         THEN pc' = "recover" /\ todo' = {}
         ELSE pc' = "apply" /\ todo' = Pending
    /\ UNCHANGED <<sqlite, committed, memory, cur>>
-----------------------------------------------------------------------------
(* recover() and rebuild_table().                                          *)

\* The handle goes, and with it the writer and everything queued in it; the
\* next handle opens its reader at the committed state.
DropHandle(t) ==
    /\ \/ pc = "recover" /\ t \in dirty
       \/ pc = "rebuild" /\ t = cur
    /\ cur' = t
    /\ pc' = "swap"
    /\ writer' = [writer EXCEPT ![t] = Blank]
    /\ reader' = [reader EXCEPT ![t] = committed[t]]
    /\ UNCHANGED <<sqlite, committed, deferred, staged, kind, then, todo>>

\* A new generation is filled from every SQLite row and replaces the index.
Swap ==
    /\ pc = "swap"
    /\ committed' = [committed EXCEPT ![cur] = rows[cur]]
    /\ reader' = [reader EXCEPT ![cur] = rows[cur]]
    /\ pc' = "clean"
    /\ UNCHANGED <<sqlite, writer, deferred, staged, kind, then, todo, cur>>

\* Mutant: the dirty mark stays.
CleanForgotten ==
    /\ pc = "clean"
    /\ IF kind \in RecoverFirst \cup {"open"}
         THEN pc' = "recover" /\ cur' = NoTable /\ UNCHANGED <<kind, then, todo>>
         ELSE Return("ok")
    /\ UNCHANGED <<sqlite, committed, memory>>

\* UPDATE dirty = 0; reindex and schema changes end here, recover goes on.
Clean ==
    /\ pc = "clean"
    /\ dirty' = dirty \ {cur}
    /\ IF kind \in RecoverFirst \cup {"open"}
         THEN /\ pc' = "recover"
              /\ cur' = NoTable
              /\ UNCHANGED <<kind, then, todo>>
         ELSE Return("ok")
    /\ UNCHANGED <<rows, outbox, nextId, committed, memory>>

\* Mutant: deferred records are replayed too.
ReplayAll ==
    /\ pc = "recover"
    /\ dirty = {}
    /\ pc' = "apply"
    /\ todo' = Pending
    /\ UNCHANGED <<sqlite, committed, memory, kind, then, cur>>

\* replay_outbox: every record that is not deferred.
Replay ==
    /\ pc = "recover"
    /\ dirty = {}
    /\ pc' = "apply"
    /\ todo' = Pending \ deferred
    /\ UNCHANGED <<sqlite, committed, memory, kind, then, cur>>
-----------------------------------------------------------------------------
(* apply_outboxes(todo), one table after the other.                        *)

StageTable(t) ==
    /\ pc = "apply"
    /\ Group(t) # {}
    /\ writer' = [writer EXCEPT ![t] = Stage(Group(t) \ staged, t)]
    /\ cur' = t
    /\ pc' = "commit"
    /\ UNCHANGED <<sqlite, committed, reader, deferred, staged, kind, then, todo>>

\* Staging stops inside record j: the records before it and the operations
\* on some of its keys stay queued, and the call returns Err.
StageFails(t) ==
    /\ pc \in {"apply", "stage"}
    /\ \E j \in Group(t) \ staged, ks \in SUBSET Keys :
          LET before == {i \in Group(t) \ staged : i < j}
          IN  writer' = [writer EXCEPT ![t] =
                 [k \in Keys |-> IF k \in ks THEN Stage(before \cup {j}, t)[k]
                                             ELSE Stage(before, t)[k]]]
    /\ kind # "open"
    /\ Return("err")
    /\ UNCHANGED <<sqlite, committed, reader, deferred, staged>>

\* prepare_commit + commit: everything queued in the table's writer,
\* deferred operations included, becomes durable in the index.
Commit ==
    /\ pc = "commit"
    /\ committed' = [committed EXCEPT ![cur] = [k \in Keys |-> Live(cur, k)]]
    /\ writer' = [writer EXCEPT ![cur] = Blank]
    /\ pc' = "reload"
    /\ UNCHANGED <<sqlite, reader, deferred, staged, kind, then, todo, cur>>

Reload ==
    /\ pc = "reload"
    /\ reader' = [reader EXCEPT ![cur] = committed[cur]]
    /\ pc' = "ack"
    /\ UNCHANGED <<sqlite, committed, writer, deferred, staged, kind, then, todo, cur>>

\* Mutant: the records of every table go with the first table's.
AcknowledgeAll ==
    /\ pc = "ack"
    /\ outbox' = [i \in Ids |-> IF i \in todo THEN NoRecord ELSE outbox[i]]
    /\ deferred' = deferred \ todo
    /\ staged' = staged \ todo
    /\ todo' = {}
    /\ pc' = "apply"
    /\ UNCHANGED <<rows, nextId, dirty, committed, reader, writer, kind, then, cur>>

\* Mutant: staged_outbox_ids keeps the acknowledged ids.
AcknowledgeKeepsStaged ==
    /\ pc = "ack"
    /\ outbox' = [i \in Ids |-> IF i \in Group(cur) THEN NoRecord ELSE outbox[i]]
    /\ deferred' = deferred \ Group(cur)
    /\ todo' = todo \ Group(cur)
    /\ pc' = "apply"
    /\ UNCHANGED <<rows, nextId, dirty, committed, reader, writer, staged, kind, then, cur>>

\* The transaction that deletes the table's records, and the in-memory sets.
Acknowledge ==
    /\ pc = "ack"
    /\ outbox' = [i \in Ids |-> IF i \in Group(cur) THEN NoRecord ELSE outbox[i]]
    /\ deferred' = deferred \ Group(cur)
    /\ staged' = staged \ Group(cur)
    /\ todo' = todo \ Group(cur)
    /\ pc' = "apply"
    /\ UNCHANGED <<rows, nextId, dirty, committed, reader, writer, kind, then, cur>>

Applied ==
    /\ pc = "apply"
    /\ todo = {}
    /\ IF then = "body"
         THEN /\ pc' = "body"
              /\ cur' = NoTable
              /\ UNCHANGED <<kind, then, todo>>
         ELSE Return("ok")
    /\ UNCHANGED <<sqlite, committed, memory>>
-----------------------------------------------------------------------------
(* The bodies of the calls.                                                *)

\* One transaction: rows of table t change and the record goes to the outbox.
WriteWithRecord(t, new, record) ==
    /\ nextId \in Ids
    /\ rows' = [rows EXCEPT ![t] = Apply(rows[t], new)]
    /\ outbox' = [outbox EXCEPT ![nextId] = [table |-> t, ops |-> record]]
    /\ nextId' = nextId + 1
    /\ todo' = {nextId}
    /\ then' = "return"
    /\ UNCHANGED <<dirty, committed, memory, kind, cur>>

\* bulk_write_json_deferred.  The record says only which keys to refresh.
\* (A bulk insert that meets an existing key fails; what it can write is
\* also what an upsert can write.)
BulkWrite(t) ==
    /\ pc = "body" /\ kind = "bulk"
    /\ \E new \in [Keys -> Vals \cup {Skip}] :
          /\ new # Blank
          /\ WriteWithRecord(t, new, [k \in Keys |-> IF new[k] = Skip THEN Skip ELSE Refresh])
    /\ pc' = "stage"

\* No rows given, or no row matched the filter: nothing to do.
NothingToWrite ==
    /\ pc = "body"
    /\ kind \in {"bulk", "mutate", "batch"}
    /\ Return("ok")
    /\ UNCHANGED <<sqlite, committed, memory>>

\* matching_primary_keys: the filter is evaluated on the reader's snapshot.
Matching(t, filter) == {k \in Keys : reader[t][k] \in filter}

\* UPDATE of the matched keys, each to a value of its own (assignments
\* leave the other columns alone); fetch_row fails unless SQLite still has
\* every one of them.
Updates(old, keys) ==
    {new \in [Keys -> Vals \cup {Skip}] :
        \A k \in Keys : IF k \in keys THEN new[k] # Skip /\ old[k] # Absent
                                      ELSE new[k] = Skip}

Deletes(keys) == {[k \in Keys |-> IF k \in keys THEN Absent ELSE Skip]}

\* An insert in a batch: the key must be new to SQLite.
Inserts(old) ==
    {new \in [Keys -> Vals \cup {Skip}] :
        \E k \in Keys : /\ old[k] = Absent /\ new[k] # Skip
                        /\ \A l \in Keys \ {k} : new[l] = Skip}

\* update / delete of mutate_typed and mutate_typed_deferred: the record
\* carries the new row itself.
MutateTyped(t) ==
    /\ pc = "body" /\ kind = "mutate"
    /\ \E filter \in SUBSET Vals :
          /\ Matching(t, filter) # {}
          /\ \E new \in Updates(rows[t], Matching(t, filter)) \cup Deletes(Matching(t, filter)) :
                WriteWithRecord(t, new, new)
    /\ \/ pc' = "apply"
       \/ DeferTyped /\ pc' = "stage"

\* A mutation of a batch: keys come from the snapshot taken before it, the
\* rows it meets from the transaction.
Planned(t, old) ==
    Inserts(old) \cup
    UNION {Updates(old, Matching(t, filter)) \cup Deletes(Matching(t, filter)) :
              filter \in SUBSET Vals}

\* mutate_batch_typed with one or two mutations (two are the fewest for
\* which their order matters): one transaction, a record for each mutation
\* that has operations.
MutateBatch(t, u) ==
    /\ pc = "body" /\ kind = "batch"
    /\ nextId \in Ids /\ nextId + 1 \in Ids
    /\ \E a \in Planned(t, rows[t]) \ {Blank} :
          LET mid == [rows EXCEPT ![t] = Apply(rows[t], a)]
          IN  \E b \in Planned(u, mid[u]) :
                /\ rows' = [mid EXCEPT ![u] = Apply(mid[u], b)]
                /\ outbox' = [outbox EXCEPT
                      ![nextId] = [table |-> t, ops |-> a],
                      ![nextId + 1] = IF b = Blank THEN NoRecord ELSE [table |-> u, ops |-> b]]
                /\ todo' = IF b = Blank THEN {nextId} ELSE {nextId, nextId + 1}
                /\ nextId' = IF b = Blank THEN nextId + 1 ELSE nextId + 2
    /\ pc' = "apply"
    /\ then' = "return"
    /\ UNCHANGED <<dirty, committed, memory, kind, cur>>

\* Mutant: the ids are remembered as staged but nothing is queued.
StageDeferredUnqueued(t) ==
    /\ pc = "stage"
    /\ Group(t) # {}
    /\ deferred' = deferred \cup Group(t)
    /\ staged' = staged \cup Group(t)
    /\ \/ Return("ok")
       \/ kind = "bulk" /\ pc' = "apply" /\ todo' = Pending /\ UNCHANGED <<kind, then, cur>>
    /\ UNCHANGED <<sqlite, committed, reader, writer>>

\* The deferred tail of a write: queue its operations, remember the id.
\* bulk_insert_json and a published insert flush afterwards.
StageDeferred(t) ==
    /\ pc = "stage"
    /\ Group(t) # {}
    /\ writer' = [writer EXCEPT ![t] = Stage(Group(t), t)]
    /\ deferred' = deferred \cup Group(t)
    /\ staged' = staged \cup Group(t)
    /\ \/ Return("ok")
       \/ /\ kind = "bulk"
          /\ pc' = "apply"
          /\ todo' = Pending
          /\ UNCHANGED <<kind, then, cur>>
    /\ UNCHANGED <<sqlite, committed, reader>>

\* reindex_table after its flush: dirty = 1, then rebuild_table.
Reindex(t) ==
    /\ pc = "body" /\ kind = "reindex"
    /\ dirty' = dirty \cup {t}
    /\ cur' = t
    /\ pc' = "rebuild"
    /\ UNCHANGED <<rows, outbox, nextId, committed, memory, kind, then, todo>>

\* Mutant: the transaction does not mark the table.
ChangeSchemaUnmarked(t) ==
    /\ pc = "body" /\ kind = "schema"
    /\ \E convert \in [Vals -> Vals] :
          rows' = [rows EXCEPT ![t] =
             [k \in Keys |-> IF rows[t][k] = Absent THEN Absent ELSE convert[rows[t][k]]]]
    /\ cur' = t
    /\ pc' = "rebuild"
    /\ UNCHANGED <<outbox, nextId, dirty, committed, memory, kind, then, todo>>

\* change_table_schema: every row is converted and dirty set in one
\* transaction, then rebuild_table.
ChangeSchema(t) ==
    /\ pc = "body" /\ kind = "schema"
    /\ \E convert \in [Vals -> Vals] :
          rows' = [rows EXCEPT ![t] =
             [k \in Keys |-> IF rows[t][k] = Absent THEN Absent ELSE convert[rows[t][k]]]]
    /\ dirty' = dirty \cup {t}
    /\ cur' = t
    /\ pc' = "rebuild"
    /\ UNCHANGED <<outbox, nextId, committed, memory, kind, then, todo>>

\* optimize_table_with_options: the writer is replaced; the reader is
\* reloaded only when something was merged.
Optimize(t) ==
    /\ pc = "body" /\ kind = "optimize"
    /\ writer' = [writer EXCEPT ![t] = Blank]
    /\ \/ reader' = [reader EXCEPT ![t] = committed[t]]
       \/ reader' = reader
    /\ Return("ok")
    /\ UNCHANGED <<sqlite, committed, deferred, staged>>

\* backup_to: every writer is taken out of its handle.
Backup ==
    /\ pc = "body" /\ kind = "backup"
    /\ writer' = [t \in Tables |-> Blank]
    /\ Return("ok")
    /\ UNCHANGED <<sqlite, committed, reader, deferred, staged>>
-----------------------------------------------------------------------------
\* Any step may fail before it has an effect: the call returns Err.
Fail ==
    /\ pc \in Steps
    /\ kind # "open"
    /\ Return("err")
    /\ UNCHANGED <<sqlite, committed, memory>>

\* The process stops (or open itself fails and the Database is dropped).
Crash ==
    /\ Crashes
    /\ pc # "closed"
    /\ Return("closed")
    /\ reader' = committed
    /\ writer' = [t \in Tables |-> Blank]
    /\ deferred' = {}
    /\ staged' = {}
    /\ UNCHANGED <<sqlite, committed>>

Internal ==
    \/ Open \/ Swap \/ Clean \/ Replay \/ Commit \/ Reload \/ Acknowledge \/ Applied
    \/ NothingToWrite \/ Backup
    \/ \E t \in Tables :
          \/ DropHandle(t) \/ StageTable(t) \/ StageDeferred(t)
          \/ BulkWrite(t) \/ MutateTyped(t) \/ Reindex(t) \/ ChangeSchema(t) \/ Optimize(t)
          \/ \E u \in Tables : MutateBatch(t, u)

Fault == Fail \/ Crash \/ \E t \in Tables : StageFails(t)

Next == Internal \/ Fault \/ \E k \in Kinds : Begin(k)

Spec == Init /\ [][Next]_vars

\* A call that has begun, and a restart, keep running: there is no lock or
\* wait inside a call.  Nothing obliges a client to begin one.
FairSpec == Spec /\ WF_vars(Internal)
-----------------------------------------------------------------------------
\* If the process stopped now, reopening the database would bring every
\* index to the rows SQLite holds: the records still in the outbox, replayed
\* in id order over the committed index (or over a rebuilt one if the table
\* is dirty), give exactly the current row of every key.
RecoverableIndex ==
    \A t \in Tables, k \in Keys :
        LET S == Touching(Pending, t, k)
        IN  IF S = {} THEN t \notin dirty => committed[t][k] = rows[t][k]
            ELSE Resolve(outbox[LastId(S)].ops[k], t, k) = rows[t][k]

\* A call that publishes returns Ok only when searches see SQLite's rows: a
\* typed mutation for its table, an insert, batch or flush for every table
\* not waiting for a rebuild, opening a database for every table.
PublishedOnReturn ==
    [][(pc = "apply" /\ pc' = "ok") =>
          \A t \in Tables :
              \/ reader[t] = rows[t]
              \/ kind = "read"
              \/ kind = "mutate" /\ t # cur
              \/ kind \in {"bulk", "batch", "flush"} /\ t \in dirty]_vars

\* Recovery closes the gap on reopen: when open returns Ok, searches see
\* exactly SQLite's rows in every table.
GapClosedOnReopen ==
    [][(kind = "open" /\ pc = "apply" /\ pc' = "ok") => reader = rows]_vars

\* Reads never publish deferred writes by themselves: while only deferred
\* records are pending, the recovery that precedes a read leaves every
\* snapshot alone.
ReadsKeepSnapshot ==
    [][(kind = "read" /\ dirty = {} /\ Pending \subseteq deferred /\ pc' # "closed")
          => reader' = reader]_vars

\* Once faults stop, a database that was closed is opened with an empty
\* outbox and no dirty table: recovery terminates.
RecoveryCompletes ==
    <>[][~Fault]_vars =>
        (pc = "closed" ~> (pc = "ok" /\ Pending = {} /\ dirty = {}))

\* Every step is a step of the abstract store: each index commit publishes
\* exactly the SQLite rows of its table, never a mixture of old and new.
Abstract == INSTANCE IndexedStore WITH
    store <- rows, index <- committed, view <- reader, stale <- dirty

Implements == Abstract!Spec
=============================================================================
