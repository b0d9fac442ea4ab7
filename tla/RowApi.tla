------------------------------- MODULE RowApi -------------------------------
(***************************************************************************)
(* The row API over one table: clients that read a row with its ETag and   *)
(* write it back conditionally (api_rows.rs, row_concurrency.rs), other    *)
(* writers, deferred and immediate, and schema changes in between.         *)
(*                                                                         *)
(* What runs under the database mutex is one step: with_writer holds it    *)
(* for the operation and the publication of the catalog, and searches see  *)
(* a write only when it is published. Failures inside that step are the    *)
(* subject of Outbox and SearchCache. The primary key is kept apart from   *)
(* the columns of a row, and a hash of a row stands for the row.           *)
(***************************************************************************)
EXTENDS SchemaPlan, FiniteSets

CONSTANTS Clients, Keys,
          Definitions,     \* definitions a table may be created with
          Bodies, Edits,   \* JSON objects sent to insert and to change rows, from
                           \* spelled field names to values
          Batches,         \* sequences of mutations sent as one batch
          SchemaChanges,   \* sequences of changes clients ask for
          MaxWrites, MaxMigrations

IsObject(values) == DOMAIN values \subseteq Spellings /\ \A f \in DOMAIN values : IsJson(values[f])

IsMutation(m) == m.op \in {"insert", "update", "delete"} /\ m.key \in Keys /\ IsObject(m.values)

ASSUME RequestsAssumption ==
  /\ \A d \in Definitions : DOMAIN d \subseteq Spellings /\ \A c \in DOMAIN d : IsColumn(d[c])
  /\ \A body \in Bodies \cup Edits : IsObject(body)
  /\ \A batch \in Batches : /\ batch \in Seq({batch[i] : i \in DOMAIN batch})
                             /\ \A i \in DOMAIN batch : IsMutation(batch[i])
  /\ \A changes \in SchemaChanges : /\ changes \in Seq({changes[i] : i \in DOMAIN changes})
                                     /\ \A i \in DOMAIN changes : IsChange(changes[i])
  /\ MaxWrites \in Nat /\ MaxMigrations \in Nat

VARIABLES def,       \* the catalog's definition, published with every writer step
          rows,      \* SQLite: from the keys of the table to rows of cells
          index,     \* the published documents
          queue,     \* operations in the index writer, not committed yet
          locked,    \* the table is in schema_locks
          job,       \* changes of the migration that waits for the mutex, if any
          poisoned,  \* the mutex is
          client,
          writes, migrations

vars == <<def, rows, index, queue, locked, job, poisoned, client, writes, migrations>>

---------------------------------------------------------------------------
(* Rows, documents and what a reader gets.                                 *)

\* document_from_row
DocOfRow(row) == [c \in DOMAIN row |-> AddRowValue(def[c], row[c])]

\* rebuild_table of a row, under the definition d
DocOfCells(d, cells) == [c \in DOMAIN cells |-> AddSqlValue(d[c], cells[c])]

\* fetch_optional_row
FetchRow(k) == [c \in DOMAIN def |-> RowValueFromRef(def[c], rows[k][c])]

\* get_row: the row of the response, which its ETag is a hash of.
View(doc) == [c \in DOMAIN doc |-> ReadFast(doc[c])]

\* Mutant: the precondition is checked against the published row.
RowEtagPublished(k) == IF k \in DOMAIN index THEN View(index[k]) ELSE <<>>

\* ensure_row_etag: the object that is hashed, from SQLite
RowEtag(k) == [c \in DOMAIN def |-> EtagValue(def[c], FetchRow(k)[c])]

\* Mutant: numbers are stored as they are, whatever the column's type.
CellsRaw(row) == row

Cells(row) == [c \in DOMAIN row |-> SqliteValue(def[c], row[c])]

Acceptable(row) ==
  \A c \in DOMAIN row : row[c] # Err /\ Storable(def[c], SqliteValue(def[c], row[c]))

\* typed_assignments: fields are found in any spelling; of two spellings of one
\* column, SQLite keeps the last assignment.
KnownFields(values) == \A f \in DOMAIN values : Known(def, f)

Assignments(values) ==
  [c \in {Stored(def, f) : f \in DOMAIN values} |->
     LET spelled == {f \in DOMAIN values : SameName(f, c)}
         last == CHOOSE f \in spelled : \A g \in spelled : Position(g) <= Position(f)
     IN  IF \E f \in spelled : JsonToRow(def[c], values[f]) = Err THEN Err
         ELSE JsonToRow(def[c], values[last])]

\* insert_typed_row: fields are known in any spelling and taken in the stored one.
Inserted(values) ==
  [c \in DOMAIN def |-> JsonToRow(def[c], IF c \in DOMAIN values THEN values[c] ELSE Null)]

---------------------------------------------------------------------------
(* The index writer.                                                       *)

Committed(q) ==
  [k \in {k \in Keys : IF k \in DOMAIN q THEN q[k].live ELSE k \in DOMAIN index} |->
     IF k \in DOMAIN q THEN q[k].doc ELSE index[k]]

\* stage_row_operations, and the commit of everything staged unless deferred
Stage(ops, deferred) ==
  LET q == Over(ops, queue)
  IN  IF deferred THEN queue' = q /\ UNCHANGED index
      ELSE queue' = <<>> /\ index' = Committed(q)

\* mutate_typed: the keys come from the published index, the rows from SQLite.
\* A key that SQLite no longer has makes an update fail in fetch_row.
Matching(k) == {k} \cap DOMAIN index

\* The rows are those of the transaction.
UpdateWorks(stored, keys, values) ==
  /\ DOMAIN values # {} /\ KnownFields(values)
  /\ Acceptable(Assignments(values))
  /\ keys \subseteq DOMAIN stored

UpdatedRows(stored, keys, values) ==
  [k \in DOMAIN stored |->
     IF k \in keys THEN Over(Cells(Assignments(values)), stored[k]) ELSE stored[k]]

\* The operation that adds the document of a row.
Written(row) == [live |-> TRUE, doc |-> DocOfRow(row)]

Upserts(stored, keys) ==
  [k \in keys |-> Written([c \in DOMAIN def |-> RowValueFromRef(def[c], stored[k][c])])]

Deletes(keys) == [k \in keys |-> [live |-> FALSE, doc |-> <<>>]]

Remaining(stored, keys) == [k \in DOMAIN stored \ keys |-> stored[k]]

Update(keys, values, deferred) ==
  \E updated \in {UpdatedRows(rows, keys, values)} :
    rows' = updated /\ Stage(Upserts(updated, keys), deferred)

\* Mutant: rows that were queued for the index are not deleted from it.
DeleteRowsStored(keys, deferred) ==
  /\ rows' = Remaining(rows, keys)
  /\ Stage(Deletes(keys \ DOMAIN queue), deferred)

DeleteRows(keys, deferred) ==
  rows' = Remaining(rows, keys) /\ Stage(Deletes(keys), deferred)

---------------------------------------------------------------------------
(* Other writers: one request each, without a precondition. A request was  *)
(* admitted at some earlier moment, so the lock of a migration may have    *)
(* been taken since.                                                       *)

Writable == ~poisoned /\ writes < MaxWrites /\ writes' = writes + 1

Others == <<def, locked, job, poisoned, client, migrations>>

InsertWorks(stored, k, values, upsert) ==
  KnownFields(values) /\ Acceptable(Inserted(values)) /\ (upsert \/ k \notin DOMAIN stored)

Bound(row) == [c \in DOMAIN row |-> ToSql(def[c], row[c])]

\* bulk_insert_rows, of a key that is not stored, and bulk_upsert_rows
InsertRow(stored, k, row) == Over(stored, Single(k, Bound(row)))
UpsertRow(stored, k, row) == Over(Single(k, Bound(row)), stored)

\* insert_row, and the rows of an import (upsert)
BulkWrite(k, values, upsert, deferred) ==
  /\ Writable
  /\ InsertWorks(rows, k, values, upsert)
  /\ rows' = IF upsert THEN UpsertRow(rows, k, Inserted(values))
             ELSE InsertRow(rows, k, Inserted(values))
  /\ Stage(Single(k, Written(Inserted(values))), deferred)
  /\ UNCHANGED Others

\* One mutation of a batch, whose filter was resolved to keys.
BatchStep(s, m, keys) ==
  IF ~s.ok THEN s
  ELSE CASE m.op = "insert" ->
              [ok |-> InsertWorks(s.rows, m.key, m.values, FALSE),
               rows |-> InsertRow(s.rows, m.key, Inserted(m.values)),
               ops |-> Over(Single(m.key, Written(Inserted(m.values))), s.ops)]
         [] m.op = "update" ->
              IF ~UpdateWorks(s.rows, keys, m.values) THEN [s EXCEPT !.ok = FALSE]
              ELSE LET updated == UpdatedRows(s.rows, keys, m.values)
                   IN  [ok |-> TRUE, rows |-> updated, ops |-> Over(Upserts(updated, keys), s.ops)]
         [] m.op = "delete" ->
              [s EXCEPT !.rows = Remaining(@, keys), !.ops = Over(Deletes(keys), @)]

\* mutate_batch_typed: a flush, then every filter is resolved against the
\* published rows and all mutations are applied in one transaction.
Transaction(batch) ==
  LET published == DOMAIN Committed(queue)
      planned == \A i \in DOMAIN batch : KnownFields(batch[i].values)
      done[n \in 0..Len(batch)] ==
        IF n = 0 THEN [ok |-> planned, rows |-> rows, ops |-> <<>>]
        ELSE BatchStep(done[n - 1], batch[n], {batch[n].key} \cap published)
  IN  done[Len(batch)]

MutateBatch(batch) ==
  /\ Writable
  /\ \E done \in {Transaction(batch)} :
       /\ rows' = IF done.ok THEN done.rows ELSE rows
       /\ index' = Committed(IF done.ok THEN Over(done.ops, queue) ELSE queue)
       /\ queue' = <<>>
  /\ UNCHANGED Others

\* update_rows with a filter every row matches. A limit no table exceeds stands
\* for none; max_rows refuses deferred calls.
UpdateRows(values, maxRows, deferred) ==
  /\ Writable
  /\ ~(deferred /\ maxRows < Cardinality(Keys))
  /\ Cardinality(DOMAIN index) \in 1..maxRows
  /\ UpdateWorks(rows, DOMAIN index, values)
  /\ Update(DOMAIN index, values, deferred)
  /\ UNCHANGED Others

\* delete_rows
RemoveRows(k, deferred) ==
  /\ Writable
  /\ Matching(k) # {}
  /\ DeleteRows(Matching(k), deferred)
  /\ UNCHANGED Others

Flush ==
  /\ ~poisoned /\ queue # <<>>
  /\ queue' = <<>> /\ index' = Committed(queue)
  /\ UNCHANGED <<rows, writes>> /\ UNCHANGED Others

---------------------------------------------------------------------------
(* Clients that read first.                                                *)

Idle == [pc |-> "idle", key |-> 0, seen |-> <<>>, op |-> "none", values |-> <<>>, status |-> 0]

GetRow(c, k) ==
  /\ client[c].pc = "idle"
  /\ client' = [client EXCEPT ![c] =
       IF k \in DOMAIN index
       THEN [Idle EXCEPT !.pc = "read", !.key = k, !.seen = View(index[k])]
       ELSE [Idle EXCEPT !.status = 404]]
  /\ UNCHANGED <<def, rows, index, queue, locked, job, poisoned, writes, migrations>>

\* replace_row: the columns the body leaves out become NULL.
Completed(values) ==
  Over(values, [c \in DOMAIN def \ DOMAIN values |-> Null])

\* Admission and the part of patch_row, replace_row and delete_row before the
\* writer. The definition may be another one when the writer is reached.
Request(c, op, values) ==
  /\ client[c].pc = "read"
  /\ op = "delete" => values = <<>>
  /\ LET missing == {x \in DOMAIN def \ DOMAIN values : ~def[x].nullable}
         refused == locked \/ (op = "put" /\ missing # {})
     IN  client' = [client EXCEPT ![c] =
           IF refused THEN [Idle EXCEPT !.status = IF locked THEN 423 ELSE 400]
           ELSE [@ EXCEPT !.pc = "waiting", !.op = op,
                          !.values = IF op = "put" THEN Completed(values) ELSE values]]
  /\ UNCHANGED <<def, rows, index, queue, locked, job, poisoned, writes, migrations>>

\* apply_key_mutation: the precondition and the write, under the mutex.
Apply(c, deferred) ==
  LET k == client[c].key
      keys == Matching(k)
      status == IF poisoned THEN 500
                ELSE IF k \notin DOMAIN rows THEN 404
                ELSE IF RowEtag(k) # client[c].seen THEN 412
                ELSE IF client[c].op # "delete" /\ ~UpdateWorks(rows, keys, client[c].values) THEN 400
                ELSE IF keys = {} THEN 404 ELSE 200
  IN  /\ client[c].pc = "waiting"
      /\ client' = [client EXCEPT ![c] = [Idle EXCEPT !.status = status]]
      /\ IF status # 200 THEN UNCHANGED <<rows, index, queue>>
         ELSE IF client[c].op = "delete" THEN DeleteRows(keys, deferred)
         ELSE Update(keys, client[c].values, deferred)
      /\ UNCHANGED <<def, locked, job, poisoned, writes, migrations>>

---------------------------------------------------------------------------
(* Migrations.                                                             *)

ChangeSchema(changes) ==
  /\ ~locked /\ migrations < MaxMigrations
  /\ locked' = TRUE /\ job' = {changes} /\ migrations' = migrations + 1
  /\ UNCHANGED <<def, rows, index, queue, poisoned, client, writes>>

\* The job under the mutex: change_table_schema after its flush. Rows are read
\* in any order, so a bad cell and a missing default race for the outcome.
Migrate(changes, outcome) ==
  LET plan == Build(def, changes)
      converted(k) == ConvertRow(def, plan, rows[k])
      cells == {converted(k)[c] : k \in DOMAIN rows, c \in DOMAIN plan.target}
      possible == (IF ~plan.ok \/ Err \in cells THEN {"error"} ELSE {})
                    \cup (IF plan.ok /\ Panic \in cells THEN {"panic"} ELSE {})
  IN  /\ ~poisoned
      /\ queue' = <<>> /\ job' = {}
      /\ outcome \in IF possible = {} THEN {"ok"} ELSE possible
      /\ poisoned' = (outcome = "panic")
      /\ locked' = (outcome = "panic")
      /\ IF outcome = "ok"
         THEN /\ def' = plan.target
              /\ rows' = [k \in DOMAIN rows |-> converted(k)]
              /\ index' = [k \in DOMAIN rows |-> DocOfCells(plan.target, converted(k))]
         ELSE index' = Committed(queue) /\ UNCHANGED <<def, rows>>
      /\ UNCHANGED <<client, writes, migrations>>

Init ==
  /\ def \in Definitions
  /\ rows = <<>> /\ index = <<>> /\ queue = <<>>
  /\ locked = FALSE /\ job = {} /\ poisoned = FALSE
  /\ client = [c \in Clients |-> Idle]
  /\ writes = 0 /\ migrations = 0

Next ==
  \/ \E k \in Keys, deferred \in BOOLEAN, body \in Bodies, upsert \in BOOLEAN :
       BulkWrite(k, body, upsert, deferred)
  \/ \E body \in Edits, n \in 1..Cardinality(Keys), deferred \in BOOLEAN :
       UpdateRows(body, n, deferred)
  \/ \E batch \in Batches : MutateBatch(batch)
  \/ \E k \in Keys, deferred \in BOOLEAN : RemoveRows(k, deferred)
  \/ Flush
  \/ \E c \in Clients, k \in Keys : GetRow(c, k)
  \/ \E c \in Clients, op \in {"put", "patch", "delete"}, body \in Edits : Request(c, op, body)
  \/ \E c \in Clients, deferred \in BOOLEAN : Apply(c, deferred)
  \/ \E changes \in SchemaChanges : ChangeSchema(changes)
  \/ \E changes \in job, outcome \in {"ok", "error", "panic"} : Migrate(changes, outcome)

Spec == Init /\ [][Next]_vars

---------------------------------------------------------------------------

Row == [DOMAIN def -> [k : {"null", "int", "real", "text"}, of : Spelled \cup {"none"},
                       n : Int, canon : BOOLEAN]]

TypeOK ==
  /\ \A c \in DOMAIN def : def[c].type \in ColumnType /\ def[c].nullable \in BOOLEAN
  /\ DOMAIN rows \subseteq Keys /\ \A k \in DOMAIN rows : rows[k] \in Row
  /\ DOMAIN index \cup DOMAIN queue \subseteq Keys
  /\ locked \in BOOLEAN /\ poisoned \in BOOLEAN /\ (job # {} => locked)
  /\ \A c \in Clients : /\ client[c].pc \in {"idle", "read", "waiting"}
                        /\ client[c].status \in {0, 200, 400, 404, 412, 423, 500}
  /\ writes \in 0..MaxWrites /\ migrations \in 0..MaxMigrations

(***************************************************************************)
(* A cell that was accepted stays readable: STRICT tables take it, and the *)
(* readers of SQLite rows (ETags, updates, migrations, rebuilds) and the   *)
(* encoder of documents accept what the writers let in. One cell they      *)
(* rejected would make every rebuild of the table, and so recovery, fail.  *)
(***************************************************************************)
RowsReadable ==
  /\ \A k \in DOMAIN rows, c \in DOMAIN def :
       /\ Storable(def[c], rows[k][c])
       /\ RowValueFromRef(def[c], rows[k][c]) # Err
       /\ AddSqlValue(def[c], rows[k][c]) # Err
  /\ \A k \in DOMAIN queue : \A c \in DOMAIN queue[k].doc : queue[k].doc[c] # Err

(***************************************************************************)
(* The documents encoded from outbox operations are those a rebuild of the *)
(* same SQLite row would encode, for every key and whatever mixture of     *)
(* deferred and immediate writes, batches and migrations made the row: a   *)
(* recovery or reindex does not change what searches return.               *)
(***************************************************************************)
IndexAgrees ==
  LET latest == Committed(queue)
  IN  /\ DOMAIN latest = DOMAIN rows
      /\ \A k \in DOMAIN rows : latest[k] = DocOfCells(def, rows[k])

Replied(c, status) ==
  client[c].pc = "waiting" /\ client'[c].pc = "idle" /\ client'[c].status = status

(***************************************************************************)
(* No lost update: a conditional write succeeds only when the row that it  *)
(* replaces, published or not, reads exactly as the client saw it          *)
(* (apply_key_mutation, ensure_row_etag).                                  *)
(***************************************************************************)
NoLostUpdate ==
  [][\A c \in Clients : Replied(c, 200) =>
       /\ client[c].key \in DOMAIN rows
       /\ View(DocOfCells(def, rows[client[c].key])) = client[c].seen]_vars

(***************************************************************************)
(* A conditional write is refused as stale only when the row differs from  *)
(* what the client saw: SQLite and Tantivy spell the same values, as the   *)
(* comment on ensure_row_etag says.                                        *)
(***************************************************************************)
UnchangedAccepted ==
  [][\A c \in Clients : Replied(c, 412) =>
       View(DocOfCells(def, rows[client[c].key])) # client[c].seen]_vars

\* What a cell or a JSON value says, apart from its representation.
Meaning(v) ==
  CASE v.k = "null" -> <<"null", 0>>
    [] v.k \in {"int", "uint", "real"} \/ v.of = "number" -> <<"number", v.n>>
    [] v.k = "bool" \/ v.of = "bool" -> <<"number", 2 * v.n>>
    [] v.k = "box" \/ v.of = "box" -> <<"box", v.n>>
    [] OTHER -> <<v.of, v.n>>

\* Where the cells of a target column come from, read off the changes from the
\* last to the first: a column of the old definition or a default.
Back(ch, o) ==
  IF "default" \in DOMAIN o THEN o
  ELSE CASE ch.kind = "rename" /\ SameName(ch.to, o.column) -> [column |-> ch.name]
         [] ch.kind = "add" /\ SameName(ch.name, o.column) -> [default |-> ch.default]
         [] OTHER -> o

Origin(c, changes) ==
  LET origin[n \in 0..Len(changes)] ==
        IF n = 0 THEN [column |-> c] ELSE Back(changes[Len(changes) + 1 - n], origin[n - 1])
  IN  origin[Len(changes)]

(***************************************************************************)
(* A migration that succeeds keeps every row, and every cell says what its *)
(* origin said: the column it was renamed from, through any chain of       *)
(* renames, drops and additions in one request, or its default             *)
(* (SchemaPlan::build, copy_converted_rows, convert_value).                *)
(***************************************************************************)
MigrationFollowsColumns ==
  [][locked /\ ~locked' =>
       \/ UNCHANGED <<def, rows>>
       \/ /\ DOMAIN rows' = DOMAIN rows
          /\ \E changes \in job : \A k \in DOMAIN rows, c \in DOMAIN def' :
               LET o == Origin(c, changes)
               IN  Meaning(rows'[k][c]) =
                     IF "default" \in DOMAIN o THEN Meaning(o.default)
                     ELSE Meaning(rows[k][Stored(def, o.column)])]_vars

=============================================================================
