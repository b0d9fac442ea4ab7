-------------------------------- MODULE Jobs --------------------------------
(***************************************************************************)
(* The server's persistent jobs: records in SQLite, one spawned task per   *)
(* job, the database mutex the tasks and the row writes share, the table   *)
(* locks of schema migrations, cancel, retry and restart.                  *)
(*                                                                         *)
(* A request path names a table by its name or by an alias.  What a job    *)
(* does to the data is abstracted to how far it has come: nothing, rows in *)
(* SQLite only (deferred), in the index, or published to searches.         *)
(***************************************************************************)
EXTENDS Naturals, FiniteSets

CONSTANTS
    Tables, Clients,
    Kinds,            \* kinds of job that clients start
    Aliases,          \* do requests use an alias of the table?
    SlowTransactions, \* may a job's SQLite transaction outlast the busy timeout?
    Panics,           \* may a job's task panic?
    Restarts,         \* may the process stop and start again?
    MaxJobs,          \* bound: jobs created
    Nobody, NoJob

AllKinds == {"import", "schema_change", "reindex", "optimize", "backup"}
Retryable == {"reindex", "optimize", "backup"}
Ids == 1 .. MaxJobs
Names == [table : Tables, alias : IF Aliases THEN BOOLEAN ELSE {FALSE}]
Versions == Nat
States == {"queued", "running", "completed", "failed", "cancelled", "interrupted"}
Active == {"queued", "running"}
Job == [kind : AllKinds, name : Names, state : States]
Requests == {"idle", "uploading", "admitted", "planned"}

ASSUME JobParameters ==
    /\ Kinds \subseteq AllKinds /\ MaxJobs \in Nat
    /\ {Aliases, SlowTransactions, Panics, Restarts} \subseteq BOOLEAN
    /\ NoJob \notin Job
    /\ Nobody \notin Ids

VARIABLES
    jobs,     \* SQLite: __aq_jobs
    defs,     \* SQLite: version of every table's definition
    effect,   \* how far the work of every job has come
    task,     \* memory: the spawned task of every job
    holder,   \* memory: job that holds the database mutex
    poisoned, \* memory: a panic poisoned the mutex
    locked,   \* memory: AppState.locked_tables
    shown,    \* memory: definitions published to the search service
    request,  \* memory: request a client has in flight
    target,   \* the name in its path
    plan      \* definition its PUT was completed from

store  == <<jobs, defs, effect>>
server == <<task, holder, poisoned, locked, shown>>
client == <<request, target, plan>>
vars   == <<store, server, client>>

\* "unlocking": the task has its result and is about to give the table free.
Tasks == {"none", "spawned", "waiting", "executing", "unlocking", "publishing", "ok", "err"}

TypeOK ==
    /\ jobs \in [Ids -> Job \cup {NoJob}]
    /\ defs \in [Tables -> Versions]
    /\ effect \in [Ids -> {"none", "deferred", "indexed", "published"}]
    /\ task \in [Ids -> Tasks]
    /\ holder \in Ids \cup {Nobody}
    /\ poisoned \in BOOLEAN
    /\ locked \subseteq Names
    /\ shown \in [Tables -> Versions]
    /\ request \in [Clients -> Requests]
    /\ target \in [Clients -> Names]
    /\ plan \in [Clients -> Versions]

Init ==
    /\ jobs = [i \in Ids |-> NoJob]
    /\ defs = [t \in Tables |-> 0]
    /\ effect = [i \in Ids |-> "none"]
    /\ task = [i \in Ids |-> "none"]
    /\ holder = Nobody
    /\ poisoned = FALSE
    /\ locked = {}
    /\ shown = [t \in Tables |-> 0]
    /\ request = [c \in Clients |-> "idle"]
    /\ target \in [Clients -> {[table |-> t, alias |-> FALSE] : t \in Tables}]
    /\ plan = [c \in Clients |-> 0]

Created == {i \in Ids : jobs[i] # NoJob}

\* A write of the job store's connection meets the long write transaction (a
\* migration's copy, an import's batch) of the job that holds the database;
\* after the connection's busy timeout it returns SQLITE_BUSY.
Busy(i) ==
    /\ SlowTransactions
    /\ holder \notin {Nobody, i}
    /\ task[holder] = "executing" /\ jobs[holder].kind \in {"schema_change", "import"}

\* flush: every deferred row reaches the index.
Flushed(e) == [i \in Ids |-> IF e[i] = "deferred" THEN "indexed" ELSE e[i]]

\* publish_catalog: searches move to the committed indexes and definitions.
PublishedEffects == [i \in Ids |-> IF effect[i] = "indexed" THEN "published" ELSE effect[i]]

Goto(i, step) == task' = [task EXCEPT ![i] = step]
-----------------------------------------------------------------------------
(* Requests that create jobs.                                              *)

\* start_job: create_with_input, then spawn the task.  The id is the next
\* AUTOINCREMENT value.  A busy store is an error and nothing is spawned.
StartJob(kind, name) ==
    LET i == Cardinality(Created) + 1
    IN  /\ i \in Ids
        /\ jobs' = [jobs EXCEPT ![i] = [kind |-> kind, name |-> name, state |-> "queued"]]
        /\ Goto(i, "spawned")

\* reindex, optimize, create_backup.
Maintain(kind, name) ==
    /\ kind \in Kinds \cap Retryable
    /\ StartJob(kind, name)
    /\ UNCHANGED <<defs, effect, holder, poisoned, locked, shown, client>>

\* Mutant: an already locked table is locked again.
ChangeSchemaUnchecked(name) ==
    /\ "schema_change" \in Kinds
    /\ locked' = locked \cup {name}
    /\ StartJob("schema_change", name)
    /\ UNCHANGED <<defs, effect, holder, poisoned, shown, client>>

\* change_schema: lock_table refuses a name that is locked already; when
\* the job cannot be created the lock is given back.
ChangeSchema(name) ==
    /\ "schema_change" \in Kinds
    /\ name \notin locked
    /\ locked' = locked \cup {name}
    /\ StartJob("schema_change", name)
    /\ UNCHANGED <<defs, effect, holder, poisoned, shown, client>>

\* cancel: one conditional UPDATE.
Cancel(i) ==
    /\ jobs[i] # NoJob /\ jobs[i].state \in Active
    /\ jobs' = [jobs EXCEPT ![i].state = "cancelled"]
    /\ UNCHANGED <<defs, effect, server, client>>

\* retry: a new job with the old one's kind and table.
Retry(i) ==
    /\ jobs[i] # NoJob
    /\ jobs[i].state \in {"failed", "interrupted", "cancelled"}
    /\ jobs[i].kind \in Retryable
    /\ StartJob(jobs[i].kind, jobs[i].name)
    /\ UNCHANGED <<defs, effect, holder, poisoned, locked, shown, client>>
-----------------------------------------------------------------------------
(* The spawned task.                                                       *)

\* Mutant: the state is written whatever it was.
UpdateUnconditionally(i, state) ==
    \/ jobs' = [jobs EXCEPT ![i].state = state]
    \/ Busy(i) /\ jobs' = jobs

\* JobStore::update: a cancelled record is left alone.  The caller ignores
\* the error of a busy store.
Update(i, state) ==
    \/ jobs' = [jobs EXCEPT ![i].state = IF @ = "cancelled" THEN @ ELSE state]
    \/ Busy(i) /\ jobs' = jobs

Running(i) ==
    /\ task[i] = "spawned"
    /\ Update(i, "running")
    /\ Goto(i, "waiting")
    /\ UNCHANGED <<defs, effect, holder, poisoned, locked, shown, client>>

\* database.lock(): Err when poisoned, and then the task proper never runs.
LockDatabase(i) ==
    /\ task[i] = "waiting" /\ holder = Nobody
    /\ IF poisoned THEN Goto(i, "err") /\ holder' = holder
                   ELSE Goto(i, "executing") /\ holder' = i
    /\ UNCHANGED <<store, poisoned, locked, shown, client>>

Executing(i, kinds) == task[i] = "executing" /\ jobs[i].kind \in kinds

Finish(i) == Goto(i, "publishing") /\ holder' = holder
GiveUp(i) == Goto(i, "err") /\ holder' = Nobody

\* import_file: a batch is upserted deferred, then the progress callback
\* notices a cancellation and the import ends with an error.
ImportBatch(i) ==
    /\ Executing(i, {"import"})
    /\ effect' = [effect EXCEPT ![i] = "deferred"]
    /\ IF jobs[i].state = "cancelled" THEN GiveUp(i) ELSE UNCHANGED <<task, holder>>
    /\ UNCHANGED <<jobs, defs, poisoned, locked, shown, client>>

\* Mutant: the import ends without a flush.
ImportUnflushed(i) ==
    /\ Executing(i, {"import"})
    /\ IF jobs[i].state = "cancelled" THEN GiveUp(i) ELSE Finish(i)
    /\ UNCHANGED <<store, poisoned, locked, shown, client>>

\* The end of the file: flush, then the last progress callback.
ImportEnd(i) ==
    /\ Executing(i, {"import"})
    /\ effect' = [Flushed(effect) EXCEPT ![i] = "indexed"]
    /\ IF jobs[i].state = "cancelled" THEN GiveUp(i) ELSE Finish(i)
    /\ UNCHANGED <<jobs, defs, poisoned, locked, shown, client>>

\* reindex_table, optimize_table_with_options, backup_to: flush first.
Maintenance(i) ==
    /\ Executing(i, Retryable)
    /\ effect' = [Flushed(effect) EXCEPT ![i] = "indexed"]
    /\ Finish(i)
    /\ UNCHANGED <<jobs, defs, poisoned, locked, shown, client>>

\* change_table_schema: flush, one transaction, rebuild.
Migrate(i) ==
    /\ Executing(i, {"schema_change"})
    /\ effect' = [Flushed(effect) EXCEPT ![i] = "indexed"]
    /\ defs' = [defs EXCEPT ![jobs[i].name.table] = @ + 1]
    /\ Goto(i, "unlocking")
    /\ UNCHANGED <<jobs, holder, poisoned, locked, shown, client>>

\* Mutant: a failed migration keeps its table locked.
UnlockOnSuccess(i) ==
    /\ task[i] = "unlocking"
    /\ \/ effect[i] = "indexed" /\ locked' = locked \ {jobs[i].name} /\ Finish(i)
       \/ locked' = locked /\ GiveUp(i)
    /\ UNCHANGED <<store, poisoned, shown, client>>

\* unlock_table, whatever change_table_schema returned; a rebuild may have
\* failed after the transaction.
Unlock(i) ==
    /\ task[i] = "unlocking"
    /\ locked' = locked \ {jobs[i].name}
    /\ (effect[i] = "indexed" /\ Finish(i)) \/ GiveUp(i)
    /\ UNCHANGED <<store, poisoned, shown, client>>

\* The task returns Err before it changed anything, or, when it had started
\* by flushing, after that.
TaskFails(i) ==
    /\ task[i] = "executing"
    /\ effect' \in {effect, IF jobs[i].kind = "import" THEN effect ELSE Flushed(effect)}
    /\ IF jobs[i].kind = "schema_change"
         THEN Goto(i, "unlocking") /\ holder' = holder
         ELSE GiveUp(i)
    /\ UNCHANGED <<jobs, defs, poisoned, locked, shown, client>>

\* A panic unwinds out of the task: the guard poisons the mutex.
Panic(i) ==
    /\ Panics
    /\ task[i] = "executing"
    /\ GiveUp(i)
    /\ poisoned' = TRUE
    /\ UNCHANGED <<store, locked, shown, client>>

\* publish_catalog, still under the mutex; it may fail.
Publish(i) ==
    /\ task[i] = "publishing"
    /\ holder' = Nobody
    /\ \/ /\ effect' = PublishedEffects
          /\ shown' = defs
          /\ Goto(i, "ok")
       \/ /\ Goto(i, "err")
          /\ UNCHANGED <<effect, shown>>
    /\ UNCHANGED <<jobs, defs, poisoned, locked, client>>

\* Mutant: only a result is recorded, an error is not.
RecordResultOnly(i) ==
    /\ task[i] \in {"ok", "err"}
    /\ IF task[i] = "ok" THEN Update(i, "completed") ELSE jobs' = jobs
    /\ Goto(i, "none")
    /\ UNCHANGED <<defs, effect, holder, poisoned, locked, shown, client>>

\* complete or fail.
Record(i) ==
    /\ task[i] \in {"ok", "err"}
    /\ Update(i, IF task[i] = "ok" THEN "completed" ELSE "failed")
    /\ Goto(i, "none")
    /\ UNCHANGED <<defs, effect, holder, poisoned, locked, shown, client>>
-----------------------------------------------------------------------------
(* Requests that write rows.                                               *)

\* ensure_table_writable looks at the name in the path.
Admit(c, name, step) ==
    /\ request[c] = "idle"
    /\ name \notin locked
    /\ request' = [request EXCEPT ![c] = step]
    /\ target' = [target EXCEPT ![c] = name]
    /\ UNCHANGED <<store, server, plan>>

\* The body of an import is spooled to a file before its job starts.
StartImport(c) ==
    /\ request[c] = "uploading"
    /\ request' = [request EXCEPT ![c] = "idle"]
    /\ StartJob("import", target[c])
    /\ UNCHANGED <<defs, effect, holder, poisoned, locked, shown, target, plan>>

\* The upload fails, or the job cannot be created.
AbandonImport(c) ==
    /\ request[c] = "uploading"
    /\ request' = [request EXCEPT ![c] = "idle"]
    /\ UNCHANGED <<store, server, target, plan>>

\* replace_row reads the published definition and completes the row.
PlanReplace(c) ==
    /\ request[c] = "admitted"
    /\ request' = [request EXCEPT ![c] = "planned"]
    /\ plan' = [plan EXCEPT ![c] = shown[target[c].table]]
    /\ UNCHANGED <<store, server, target>>

\* with_writer: the mutation, then publish_catalog.
Replace(c) ==
    /\ request[c] = "planned" /\ holder = Nobody /\ ~poisoned
    /\ request' = [request EXCEPT ![c] = "idle"]
    /\ shown' = defs
    /\ effect' = PublishedEffects
    /\ UNCHANGED <<jobs, defs, task, holder, poisoned, locked, target, plan>>

\* The row is incomplete, does not exist, or the database is poisoned.
ReplaceFails(c) ==
    /\ request[c] \in {"admitted", "planned"}
    /\ request[c] = "planned" => holder = Nobody
    /\ request' = [request EXCEPT ![c] = "idle"]
    /\ UNCHANGED <<store, server, target, plan>>
-----------------------------------------------------------------------------
\* Mutant: jobs that were running stay as they were.
RestartQueuedOnly ==
    /\ Restarts
    /\ jobs' = [i \in Ids |->
          IF i \in Created /\ jobs[i].state = "queued"
            THEN [jobs[i] EXCEPT !.state = "interrupted"] ELSE jobs[i]]
    /\ effect' = [i \in Ids |-> IF effect[i] = "none" THEN "none" ELSE "published"]
    /\ task' = [i \in Ids |-> "none"]
    /\ holder' = Nobody /\ poisoned' = FALSE /\ locked' = {} /\ shown' = defs
    /\ request' = [c \in Clients |-> "idle"]
    /\ UNCHANGED <<defs, target, plan>>

\* Mutant: the state is given another name.
RestartAborted ==
    /\ Restarts
    /\ jobs' = [i \in Ids |->
          IF i \in Created /\ jobs[i].state \in Active
            THEN [jobs[i] EXCEPT !.state = "aborted"] ELSE jobs[i]]
    /\ effect' = [i \in Ids |-> IF effect[i] = "none" THEN "none" ELSE "published"]
    /\ task' = [i \in Ids |-> "none"]
    /\ holder' = Nobody /\ poisoned' = FALSE /\ locked' = {} /\ shown' = defs
    /\ request' = [c \in Clients |-> "idle"]
    /\ UNCHANGED <<defs, target, plan>>

\* The process stops and starts: Database::open replays and publishes what
\* SQLite holds, JobStore::open marks the jobs that were active.
Restart ==
    /\ Restarts
    /\ jobs' = [i \in Ids |->
          IF i \in Created /\ jobs[i].state \in Active
            THEN [jobs[i] EXCEPT !.state = "interrupted"] ELSE jobs[i]]
    /\ effect' = [i \in Ids |-> IF effect[i] = "none" THEN "none" ELSE "published"]
    /\ task' = [i \in Ids |-> "none"]
    /\ holder' = Nobody /\ poisoned' = FALSE /\ locked' = {} /\ shown' = defs
    /\ request' = [c \in Clients |-> "idle"]
    /\ UNCHANGED <<defs, target, plan>>

Proceed(i) ==
    \/ Running(i) \/ LockDatabase(i) \/ ImportEnd(i) \/ Maintenance(i) \/ Migrate(i)
    \/ Unlock(i) \/ TaskFails(i) \/ Publish(i) \/ Record(i)

Call(name) ==
    \/ ChangeSchema(name)
    \/ \E kind \in Retryable : Maintain(kind, name)
    \/ \E c \in Clients :
          \/ Admit(c, name, "admitted")
          \/ "import" \in Kinds /\ Admit(c, name, "uploading")

Next ==
    \/ \E i \in Ids : Proceed(i) \/ ImportBatch(i) \/ Panic(i) \/ Cancel(i) \/ Retry(i)
    \/ \E name \in Names : Call(name)
    \/ \E c \in Clients :
          StartImport(c) \/ AbandonImport(c) \/ PlanReplace(c) \/ Replace(c) \/ ReplaceFails(c)
    \/ Restart

Spec == Init /\ [][Next]_vars

\* Spawned tasks run, and a task that waits for the database mutex gets it:
\* row writes hold it for one step and only finitely many jobs compete.
FairSpec == Spec /\ \A i \in Ids : WF_vars(Proceed(i))
-----------------------------------------------------------------------------
\* A job reported completed has its work published to searches (for a
\* backup: its archive contains everything flushed), also after cancels,
\* retries and restarts.
CompletedSearchable ==
    \A i \in Created : jobs[i].state = "completed" => effect[i] = "published"

\* The state a client has polled as final never changes: a late result does
\* not overwrite a cancellation, a restart does not overwrite a result.
TerminalStable ==
    [][\A i \in Created :
          jobs[i].state \notin Active => jobs'[i] = jobs[i]]_vars

\* Migrations that have not yet given their table free.
Migrating(i) ==
    /\ jobs[i] # NoJob /\ jobs[i].kind = "schema_change"
    /\ task[i] \in {"spawned", "waiting", "executing", "unlocking"}

\* No two migrations of one name are in flight, none without its lock, and
\* until a panic poisons the database every lock has a migration that will
\* give it back.
OneMigration ==
    /\ \A name \in locked : poisoned \/ \E i \in Ids : Migrating(i) /\ jobs[i].name = name
    /\ \A i \in Ids : Migrating(i) =>
          /\ jobs[i].name \in locked
          /\ \A j \in Ids \ {i} : Migrating(j) => jobs[j].name # jobs[i].name

IsActive(i) == jobs[i] # NoJob /\ jobs[i].state \in Active

\* No orphans: a record that is still active has a task that works on it,
\* also after restarts, panics, cancels and retries.
ActiveHasTask == \A i \in Ids : IsActive(i) => task[i] # "none"

\* PUT replaces every field the table has: the definition it completed the
\* row from is the one the row is written under.
ReplaceIsComplete ==
    [][\A c \in Clients : Replace(c) => plan[c] = defs[target[c].table]]_vars

\* Every lock of a migration is given back, unless a panic has poisoned the
\* database and with it every further write.
LocksReleased == \A name \in Names : name \in locked ~> (name \notin locked \/ poisoned)

\* A job record is not active for ever: polling it ends.
JobsSettle == \A i \in Ids : IsActive(i) ~> ~IsActive(i)
=============================================================================
