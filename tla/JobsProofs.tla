----------------------------- MODULE JobsProofs -----------------------------
(***************************************************************************)
(* For any number of tables, clients and jobs, with or without aliases,    *)
(* panics, restarts and a busy job store: what a polled record says is     *)
(* true and final, and migrations of one name exclude each other.          *)
(***************************************************************************)
EXTENDS Jobs, FiniteSetTheorems, TLAPS

\* Ids are given out in order, and none twice.
Numbered == Created = 1 .. Cardinality(Created)

\* A task works on a record that is active or was cancelled meanwhile, and
\* only migrations have a table to give free.
Tasked ==
    \A i \in Ids :
        /\ task[i] # "none" => jobs[i] # NoJob /\ jobs[i].state \in Active \cup {"cancelled"}
        /\ task[i] = "unlocking" => jobs[i].kind = "schema_change"

\* What a task has done when it reaches its last steps.
Progress ==
    \A i \in Ids :
        /\ task[i] = "publishing" => effect[i] \in {"indexed", "published"}
        /\ task[i] = "ok" => effect[i] = "published"

IInv ==
    /\ TypeOK /\ Numbered /\ Tasked /\ Progress
    /\ CompletedSearchable /\ OneMigration
-----------------------------------------------------------------------------
(* What the building blocks of the actions do.                             *)

\* The record that a request creates is new, and ids stay in order.
LEMMA StartJobFacts ==
    ASSUME TypeOK, Numbered, Tasked,
           NEW kind \in AllKinds, NEW name \in Names, StartJob(kind, name)
    PROVE  /\ \E n \in Ids :
                /\ jobs[n] = NoJob /\ task[n] = "none"
                /\ jobs' = [jobs EXCEPT ![n] = [kind |-> kind, name |-> name, state |-> "queued"]]
                /\ task' = [task EXCEPT ![n] = "spawned"]
           /\ jobs' \in [Ids -> Job \cup {NoJob}]
           /\ task' \in [Ids -> Tasks]
           /\ Numbered'
<1> DEFINE n == Cardinality(Created) + 1
           new == [kind |-> kind, name |-> name, state |-> "queued"]
<1>1. n \in Ids /\ jobs' = [jobs EXCEPT ![n] = new] /\ task' = [task EXCEPT ![n] = "spawned"]
  BY DEF StartJob, Goto
<1>2. Cardinality(Created) \in Nat /\ n \notin Created
  <2>1. IsFiniteSet(Ids)
    BY FS_Interval, JobParameters DEF Ids
  <2>2. Created \subseteq Ids
    BY DEF Created
  <2>3. Cardinality(Created) \in Nat
    BY <2>1, <2>2, FS_Subset, FS_CardinalityType
  <2> QED
    BY <2>3 DEF Numbered
<1>3. jobs[n] = NoJob /\ task[n] = "none"
  BY <1>1, <1>2 DEF Created, Tasked
<1>4. new \in Job /\ new # NoJob
  BY JobParameters DEF Job, States
<1>5. jobs' \in [Ids -> Job \cup {NoJob}] /\ task' \in [Ids -> Tasks]
  BY <1>1, <1>4 DEF TypeOK, Tasks
<1>6. Created' = Created \cup {n}
  BY <1>1, <1>4 DEF Created, TypeOK
<1>7. Created' = 1 .. n
  BY <1>2, <1>6 DEF Numbered
<1>8. Cardinality(1 .. n) = n
  BY <1>2, FS_Interval
<1> QED
  BY <1>1, <1>3, <1>5, <1>7, <1>8 DEF Numbered

\* A change of one record's state leaves its kind, its name and all other
\* records alone.
LEMMA StateFacts ==
    ASSUME TypeOK, NEW i \in Ids, jobs[i] # NoJob, NEW state \in States,
           jobs' = [jobs EXCEPT ![i].state = state]
    PROVE  /\ jobs' \in [Ids -> Job \cup {NoJob}]
           /\ \A j \in Ids \ {i} : jobs'[j] = jobs[j]
           /\ jobs'[i] # NoJob /\ jobs'[i].kind = jobs[i].kind /\ jobs'[i].name = jobs[i].name
           /\ jobs'[i].state = state
           /\ jobs[i].state = state => jobs'[i] = jobs[i]
           /\ Created' = Created
<1>1. jobs[i] \in Job /\ jobs' = [jobs EXCEPT ![i] = [jobs[i] EXCEPT !.state = state]]
  BY DEF TypeOK
<1>2. [jobs[i] EXCEPT !.state = state] \in Job
  BY <1>1 DEF Job
<1>3. [jobs[i] EXCEPT !.state = state] # NoJob
  BY <1>2, JobParameters
<1>4. jobs[i].state = state => [jobs[i] EXCEPT !.state = state] = jobs[i]
  BY <1>1 DEF Job
<1> QED
  BY <1>1, <1>2, <1>3, <1>4 DEF TypeOK, Job, Created

\* JobStore::update, also of a busy store.
LEMMA UpdateFacts ==
    ASSUME TypeOK, NEW i \in Ids, jobs[i] # NoJob, NEW state \in States, Update(i, state)
    PROVE  /\ jobs' \in [Ids -> Job \cup {NoJob}]
           /\ \A j \in Ids \ {i} : jobs'[j] = jobs[j]
           /\ jobs'[i] # NoJob /\ jobs'[i].kind = jobs[i].kind /\ jobs'[i].name = jobs[i].name
           /\ jobs'[i].state \in {state, jobs[i].state}
           /\ ~Busy(i) /\ jobs[i].state # "cancelled" => jobs'[i].state = state
           /\ jobs[i].state = "cancelled" => jobs'[i] = jobs[i]
           /\ Created' = Created
<1>1. CASE jobs' = jobs /\ Busy(i)
  BY <1>1 DEF Created, TypeOK
<1>2. CASE jobs' = [jobs EXCEPT ![i].state = IF @ = "cancelled" THEN @ ELSE state]
  <2> DEFINE s == IF jobs[i].state = "cancelled" THEN jobs[i].state ELSE state
  <2>1. jobs[i] \in Job
    BY DEF TypeOK
  <2>2. s \in States
    BY <2>1 DEF Job
  <2>3. jobs' = [jobs EXCEPT ![i].state = s]
    BY <1>2
  <2> HIDE DEF s
  <2>4. /\ jobs' \in [Ids -> Job \cup {NoJob}]
        /\ \A j \in Ids \ {i} : jobs'[j] = jobs[j]
        /\ jobs'[i] # NoJob /\ jobs'[i].kind = jobs[i].kind /\ jobs'[i].name = jobs[i].name
        /\ jobs'[i].state = s
        /\ jobs[i].state = s => jobs'[i] = jobs[i]
        /\ Created' = Created
    BY <2>2, <2>3, StateFacts
  <2> QED
    BY <2>4 DEF s
<1> QED
  BY <1>1, <1>2 DEF Update

\* A flush takes no job's work back.
LEMMA FlushedFacts ==
    ASSUME TypeOK, NEW i \in Ids
    PROVE  /\ Flushed(effect) \in [Ids -> {"none", "deferred", "indexed", "published"}]
           /\ [Flushed(effect) EXCEPT ![i] = "indexed"]
                \in [Ids -> {"none", "deferred", "indexed", "published"}]
           /\ \A j \in Ids : effect[j] \in {"indexed", "published"} => Flushed(effect)[j] = effect[j]
  BY DEF TypeOK, Flushed

\* publish_catalog takes no job's work back and shows what is in the index.
LEMMA PublishedFacts ==
    ASSUME TypeOK
    PROVE  /\ PublishedEffects \in [Ids -> {"none", "deferred", "indexed", "published"}]
           /\ \A j \in Ids : effect[j] \in {"indexed", "published"} => PublishedEffects[j] = "published"
  BY DEF TypeOK, PublishedEffects
-----------------------------------------------------------------------------
(* The invariant.                                                          *)

LEMMA InitIInv == Init => IInv
<1> SUFFICES ASSUME Init PROVE IInv
  OBVIOUS
<1>0. target \in [Clients -> Names]
  <2>1. FALSE \in IF Aliases THEN BOOLEAN ELSE {FALSE}
    OBVIOUS
  <2>2. ASSUME NEW t \in Tables PROVE [table |-> t, alias |-> FALSE] \in Names
    BY <2>1, Zenon DEF Names
  <2> QED
    BY <2>2 DEF Init
<1>1. TypeOK
  BY <1>0 DEF Init, TypeOK, Versions, Tasks, Requests
<1>2. Created = {}
  BY DEF Init, Created
<1>3. Numbered
  BY <1>2, FS_EmptySet DEF Numbered
<1> QED
  BY <1>1, <1>2, <1>3 DEF Init, IInv, Tasked, Progress, CompletedSearchable, OneMigration, Migrating

\* Requests that create a job.
LEMMA StartIInv ==
    ASSUME IInv, NEW kind \in AllKinds, NEW name \in Names, StartJob(kind, name),
           UNCHANGED <<defs, effect, holder, poisoned, shown, plan, target>>,
           request' \in [Clients -> Requests],
           \/ kind # "schema_change" /\ locked' = locked
           \/ kind = "schema_change" /\ name \notin locked /\ locked' = locked \cup {name}
    PROVE  IInv'
<1> USE DEF IInv
<1>1. PICK n \in Ids :
        /\ jobs[n] = NoJob /\ task[n] = "none"
        /\ jobs' = [jobs EXCEPT ![n] = [kind |-> kind, name |-> name, state |-> "queued"]]
        /\ task' = [task EXCEPT ![n] = "spawned"]
  BY StartJobFacts
<1>2. TypeOK' /\ Numbered'
  BY StartJobFacts DEF TypeOK
<1>3. /\ \A j \in Ids \ {n} : jobs'[j] = jobs[j] /\ task'[j] = task[j]
      /\ jobs'[n].kind = kind /\ jobs'[n].name = name /\ jobs'[n].state = "queued"
      /\ task'[n] = "spawned"
      /\ jobs'[n] # NoJob
  BY <1>1, JobParameters DEF TypeOK, Job, States
<1>4. Tasked'
  BY <1>3 DEF Tasked, Active
<1>5. Progress'
  BY <1>3 DEF Progress
<1>6. CompletedSearchable'
  BY <1>3 DEF CompletedSearchable, Created
<1>7. OneMigration'
  <2>1. \A j \in Ids \ {n} : Migrating(j)' <=> Migrating(j)
    BY <1>3 DEF Migrating
  <2>2. ~Migrating(n)
    BY <1>1 DEF Migrating
  <2>3. Migrating(n)' <=> kind = "schema_change"
    BY <1>3 DEF Migrating
  <2> QED
    BY <1>3, <2>1, <2>2, <2>3 DEF OneMigration
<1> QED
  BY <1>2, <1>4, <1>5, <1>6, <1>7

\* Steps of one task that leave all records alone.
LEMMA TaskIInv ==
    ASSUME IInv, NEW i \in Ids, NEW step \in Tasks, task[i] # "none",
           Goto(i, step), jobs' = jobs, locked' = locked,
           UNCHANGED <<request, target, plan>>,
           defs' \in [Tables -> Versions], shown' \in [Tables -> Versions],
           effect' \in [Ids -> {"none", "deferred", "indexed", "published"}],
           \A j \in Ids : effect[j] = "published" => effect'[j] = "published" \/ j = i,
           \A j \in Ids \ {i} : effect[j] = "indexed" => effect'[j] \in {"indexed", "published"},
           step = "publishing" => effect'[i] \in {"indexed", "published"},
           step = "ok" => effect'[i] = "published",
           step = "unlocking" => jobs[i].kind = "schema_change",
           holder' \in Ids \cup {Nobody}, poisoned' \in BOOLEAN, poisoned => poisoned',
           Migrating(i)' => Migrating(i),
           Migrating(i) => poisoned' \/ Migrating(i)'
    PROVE  IInv'
<1> USE DEF IInv
<1>1. \A j \in Ids : task'[j] = IF j = i THEN step ELSE task[j]
  BY DEF Goto, TypeOK
<1>2. TypeOK'
  BY DEF TypeOK, Goto
<1>3. Numbered'
  BY DEF Numbered, Created
<1>4. Tasked'
  BY <1>1 DEF Tasked
<1>5. Progress'
  BY <1>1, <1>2 DEF Progress, TypeOK
<1>6. CompletedSearchable'
  BY DEF CompletedSearchable, Created, Tasked, Active
<1>7. OneMigration'
  <2>1. \A j \in Ids \ {i} : Migrating(j)' <=> Migrating(j)
    BY <1>1 DEF Migrating
  <2> QED
    BY <2>1 DEF OneMigration
<1> QED
  BY <1>2, <1>3, <1>4, <1>5, <1>6, <1>7

\* Steps that write a record.
LEMMA RecordIInv ==
    ASSUME IInv, NEW i \in Ids, jobs[i] # NoJob, NEW state \in States,
           NEW step \in Tasks, Update(i, state), Goto(i, step),
           UNCHANGED <<defs, effect, holder, poisoned, locked, shown, client>>,
           \/ task[i] = "spawned" /\ state = "running" /\ step = "waiting"
           \/ task[i] \in {"ok", "err"} /\ step = "none" /\ state # "completed"
           \/ task[i] = "ok" /\ step = "none" /\ state = "completed"
    PROVE  IInv'
<1> USE DEF IInv
<1>1. /\ jobs' \in [Ids -> Job \cup {NoJob}]
      /\ \A j \in Ids \ {i} : jobs'[j] = jobs[j]
      /\ jobs'[i] # NoJob /\ jobs'[i].kind = jobs[i].kind /\ jobs'[i].name = jobs[i].name
      /\ jobs'[i].state \in {state, jobs[i].state}
      /\ Created' = Created
  BY UpdateFacts
<1>2. \A j \in Ids : task'[j] = IF j = i THEN step ELSE task[j]
  BY DEF Goto, TypeOK
<1>3. TypeOK'
  BY <1>1 DEF TypeOK, Goto, client
<1>4. Numbered'
  BY <1>1 DEF Numbered
<1>5. Tasked'
  BY <1>1, <1>2 DEF Tasked, Active
<1>6. Progress'
  BY <1>2 DEF Progress
<1>7. CompletedSearchable'
  BY <1>1 DEF CompletedSearchable, Created, Progress, Tasked, Active
<1>8. OneMigration'
  <2>1. \A j \in Ids : Migrating(j)' <=> Migrating(j)
    BY <1>1, <1>2 DEF Migrating
  <2> QED
    BY <1>1, <2>1 DEF OneMigration
<1> QED
  BY <1>3, <1>4, <1>5, <1>6, <1>7, <1>8

\* cancel.
LEMMA CancelIInv ==
    ASSUME IInv, NEW i \in Ids, Cancel(i) PROVE IInv'
<1> USE DEF IInv
<1>1. /\ jobs' \in [Ids -> Job \cup {NoJob}]
      /\ \A j \in Ids \ {i} : jobs'[j] = jobs[j]
      /\ jobs'[i] # NoJob /\ jobs'[i].kind = jobs[i].kind /\ jobs'[i].name = jobs[i].name
      /\ jobs'[i].state = "cancelled"
      /\ Created' = Created
  BY StateFacts DEF Cancel, States
<1>2. UNCHANGED <<defs, effect, task, holder, poisoned, locked, shown, request, target, plan>>
  BY DEF Cancel, server, client
<1>3. TypeOK' /\ Numbered' /\ Progress'
  BY <1>1, <1>2 DEF TypeOK, Numbered, Progress
<1>4. Tasked' /\ CompletedSearchable'
  BY <1>1, <1>2 DEF Tasked, CompletedSearchable, Created
<1>5. OneMigration'
  <2>1. \A j \in Ids : Migrating(j)' <=> Migrating(j)
    BY <1>1, <1>2 DEF Migrating, Cancel
  <2> QED
    BY <1>1, <1>2, <2>1 DEF OneMigration
<1> QED
  BY <1>3, <1>4, <1>5

\* A migration gives its name free: no other one is in flight under it.
LEMMA UnlockIInv ==
    ASSUME IInv, NEW i \in Ids, Unlock(i) PROVE IInv'
<1> USE DEF IInv
<1>1. PICK step \in {"publishing", "err"} :
        /\ task' = [task EXCEPT ![i] = step]
        /\ step = "publishing" => effect[i] = "indexed"
        /\ holder' \in {holder, Nobody}
  BY DEF Unlock, Finish, GiveUp, Goto
<1>2. /\ locked' = locked \ {jobs[i].name} /\ task[i] = "unlocking"
      /\ UNCHANGED <<jobs, defs, effect, poisoned, shown, request, target, plan>>
  BY DEF Unlock, store, client
<1>3. \A j \in Ids : task'[j] = IF j = i THEN step ELSE task[j]
  BY <1>1 DEF TypeOK
<1>4. TypeOK'
  BY <1>1, <1>2 DEF TypeOK, Tasks
<1>5. Numbered' /\ CompletedSearchable'
  BY <1>2 DEF Numbered, Created, CompletedSearchable
<1>6. Tasked' /\ Progress'
  BY <1>1, <1>2, <1>3 DEF Tasked, Progress
<1>7. OneMigration'
  <2>1. \A j \in Ids \ {i} : Migrating(j)' <=> Migrating(j)
    BY <1>2, <1>3 DEF Migrating
  <2>2. ~Migrating(i)'
    BY <1>1, <1>3 DEF Migrating
  <2>3. ASSUME NEW j \in Ids \ {i}, Migrating(j) PROVE jobs[j].name # jobs[i].name
    BY <1>2, <2>3 DEF OneMigration, Migrating, Tasked
  <2> QED
    BY <1>2, <2>1, <2>2, <2>3 DEF OneMigration
<1> QED
  BY <1>4, <1>5, <1>6, <1>7

\* Restart: nothing that lived in memory is left.
LEMMA RestartIInv ==
    ASSUME IInv, Restart PROVE IInv'
<1> USE DEF IInv
<1>1. \A j \in Ids : /\ jobs'[j] = IF j \in Created /\ jobs[j].state \in Active
                                     THEN [jobs[j] EXCEPT !.state = "interrupted"] ELSE jobs[j]
                     /\ effect'[j] = IF effect[j] = "none" THEN "none" ELSE "published"
                     /\ task'[j] = "none"
  BY DEF Restart
<1>2. \A j \in Ids : j \in Created => [jobs[j] EXCEPT !.state = "interrupted"] \in Job
  BY DEF Created, TypeOK, Job, States
<1>3. jobs' \in [Ids -> Job \cup {NoJob}]
  BY <1>2 DEF Restart, TypeOK
<1>4. TypeOK'
  BY <1>3 DEF Restart, TypeOK, Tasks, Requests
<1>5. Created' = Created
  <2>1. ASSUME NEW j \in Ids PROVE jobs'[j] = NoJob <=> jobs[j] = NoJob
    BY <1>1, <1>2, JobParameters DEF Created
  <2> QED
    BY <2>1 DEF Created
<1>6. CompletedSearchable'
  <2> SUFFICES ASSUME NEW j \in Created, jobs'[j].state = "completed" PROVE effect'[j] = "published"
    BY <1>5 DEF CompletedSearchable
  <2>1. j \in Ids /\ jobs[j] \in Job
    BY DEF Created, TypeOK
  <2>2. jobs[j].state = "completed"
    BY <1>1, <2>1 DEF Job
  <2> QED
    BY <1>1, <2>1, <2>2 DEF CompletedSearchable
<1> QED
  BY <1>1, <1>4, <1>5, <1>6 DEF Numbered, Tasked, Progress, OneMigration, Migrating, Restart

\* Every step preserves the invariant.
LEMMA NextIInv ==
    ASSUME IInv, [Next]_vars PROVE IInv'
<1> USE DEF IInv
<1>1. CASE UNCHANGED vars
  BY <1>1 DEF vars, store, server, client, TypeOK, Numbered, Tasked, Progress, CompletedSearchable,
              OneMigration, Migrating, Created
<1>2. ASSUME NEW i \in Ids, Running(i) PROVE IInv'
  BY <1>2, RecordIInv DEF Running, Tasked, States, Tasks
<1>3. ASSUME NEW i \in Ids, LockDatabase(i) PROVE IInv'
  <2>1. CASE poisoned
    BY <1>3, <2>1, TaskIInv DEF LockDatabase, Goto, store, client, Tasks, TypeOK, Migrating
  <2>2. CASE ~poisoned
    BY <1>3, <2>2, TaskIInv DEF LockDatabase, Goto, store, client, Tasks, TypeOK, Migrating
  <2> QED
    BY <2>1, <2>2
<1>4. ASSUME NEW i \in Ids, ImportBatch(i) \/ ImportEnd(i) \/ Maintenance(i) \/ Migrate(i) PROVE IInv'
  <2>1. CASE ImportBatch(i)
    <3>1. PICK step \in {"executing", "err"} : task' = [task EXCEPT ![i] = step]
      BY <2>1 DEF ImportBatch, Executing, GiveUp, Goto, TypeOK
    <3>2. jobs[i].kind = "import" /\ task[i] = "executing"
      BY <2>1 DEF ImportBatch, Executing
    <3>3. effect' = [effect EXCEPT ![i] = "deferred"] /\ holder' \in {holder, Nobody}
      BY <2>1 DEF ImportBatch, GiveUp
    <3> QED
      BY <2>1, <3>1, <3>2, <3>3, TaskIInv
      DEF ImportBatch, Goto, client, Tasks, TypeOK, Migrating
  <2>2. CASE ImportEnd(i) \/ Maintenance(i)
    <3>1. PICK step \in {"publishing", "err"} : task' = [task EXCEPT ![i] = step]
      BY <2>2 DEF ImportEnd, Maintenance, Finish, GiveUp, Goto
    <3>2. jobs[i].kind # "schema_change" /\ task[i] = "executing"
      BY <2>2 DEF ImportEnd, Maintenance, Executing, Retryable
    <3>3. /\ effect' = [Flushed(effect) EXCEPT ![i] = "indexed"] /\ holder' \in {holder, Nobody}
          /\ UNCHANGED <<jobs, defs, poisoned, locked, shown, request, target, plan>>
      BY <2>2 DEF ImportEnd, Maintenance, Finish, GiveUp, client
    <3>4. /\ \A j \in Ids \ {i} : effect'[j] = Flushed(effect)[j]
          /\ effect'[i] = "indexed"
      BY <3>3, FlushedFacts
    <3> QED
      BY <3>1, <3>2, <3>3, <3>4, FlushedFacts, TaskIInv, ZenonT(60) DEF Goto, Tasks, TypeOK, Migrating
  <2>3. CASE Migrate(i)
    <3>1. task' = [task EXCEPT ![i] = "unlocking"] /\ task[i] = "executing"
          /\ jobs[i].kind = "schema_change"
      BY <2>3 DEF Migrate, Executing, Goto
    <3>2. /\ effect' = [Flushed(effect) EXCEPT ![i] = "indexed"]
          /\ UNCHANGED <<jobs, holder, poisoned, locked, shown, request, target, plan>>
      BY <2>3 DEF Migrate, client
    <3>3. /\ \A j \in Ids \ {i} : effect'[j] = Flushed(effect)[j]
          /\ effect'[i] = "indexed"
      BY <3>2, FlushedFacts
    <3>4. jobs[i].name.table \in Tables
      BY <3>1 DEF Tasked, TypeOK, Job, Names
    <3>5. defs' \in [Tables -> Versions]
      BY <2>3, <3>4 DEF Migrate, TypeOK, Versions
    <3> QED
      BY <3>1, <3>2, <3>3, <3>5, FlushedFacts, TaskIInv, ZenonT(60) DEF Goto, Tasks, TypeOK, Migrating
  <2> QED
    BY <1>4, <2>1, <2>2, <2>3
<1>5. ASSUME NEW i \in Ids, Unlock(i) PROVE IInv'
  BY <1>5, UnlockIInv
<1>6. ASSUME NEW i \in Ids, TaskFails(i) \/ Panic(i) PROVE IInv'
  <2>1. CASE TaskFails(i)
    <3>1. /\ task[i] = "executing" /\ effect' \in {effect, Flushed(effect)}
          /\ holder' \in {holder, Nobody}
          /\ UNCHANGED <<jobs, defs, poisoned, locked, shown, request, target, plan>>
      BY <2>1 DEF TaskFails, GiveUp, client
    <3>2. PICK step \in {"unlocking", "err"} :
            /\ task' = [task EXCEPT ![i] = step]
            /\ step = "unlocking" <=> jobs[i].kind = "schema_change"
      BY <2>1 DEF TaskFails, GiveUp, Goto
    <3>3. /\ effect' \in [Ids -> {"none", "deferred", "indexed", "published"}]
          /\ \A j \in Ids : effect[j] \in {"indexed", "published"} => effect'[j] = effect[j]
      BY <3>1, FlushedFacts DEF TypeOK
    <3>4. Migrating(i)' <=> Migrating(i)
      BY <3>1, <3>2 DEF Migrating, TypeOK
    <3> QED
      BY <3>1, <3>2, <3>3, <3>4, TaskIInv DEF Goto, Tasks, TypeOK
  <2>2. CASE Panic(i)
    BY <2>2, TaskIInv DEF Panic, GiveUp, Goto, store, client, Tasks, TypeOK, Migrating
  <2> QED
    BY <1>6, <2>1, <2>2
<1>7. ASSUME NEW i \in Ids, Publish(i) PROVE IInv'
  <2>1. /\ task[i] = "publishing" /\ holder' = Nobody
        /\ UNCHANGED <<jobs, defs, poisoned, locked, request, target, plan>>
    BY <1>7 DEF Publish, client
  <2>2. CASE effect' = PublishedEffects /\ shown' = defs /\ Goto(i, "ok")
    BY <2>1, <2>2, PublishedFacts, TaskIInv DEF Tasks, TypeOK, Migrating, Goto, Progress
  <2>3. CASE Goto(i, "err") /\ UNCHANGED <<effect, shown>>
    BY <2>1, <2>3, TaskIInv DEF Tasks, TypeOK, Migrating, Goto
  <2> QED
    BY <1>7, <2>2, <2>3 DEF Publish
<1>8. ASSUME NEW i \in Ids, Record(i) PROVE IInv'
  BY <1>8, RecordIInv DEF Record, Tasked, States, Tasks
<1>9. ASSUME NEW i \in Ids, Cancel(i) PROVE IInv'
  BY <1>9, CancelIInv
<1>10. ASSUME NEW i \in Ids, Retry(i) PROVE IInv'
  <2>1. jobs[i].kind \in AllKinds \ {"schema_change"} /\ jobs[i].name \in Names
    BY <1>10 DEF Retry, Retryable, AllKinds, TypeOK, Job
  <2> QED
    BY <1>10, <2>1, StartIInv DEF Retry, TypeOK, client
<1>11. ASSUME NEW name \in Names, Call(name) PROVE IInv'
  <2>1. CASE ChangeSchema(name)
    BY <2>1, StartIInv DEF ChangeSchema, AllKinds, TypeOK, client
  <2>2. ASSUME NEW kind \in Retryable, Maintain(kind, name) PROVE IInv'
    BY <2>2, StartIInv DEF Maintain, Retryable, AllKinds, TypeOK, client
  <2>3. ASSUME NEW c \in Clients, NEW step \in Requests, Admit(c, name, step) PROVE IInv'
    BY <2>3 DEF Admit, store, server, TypeOK, Numbered, Tasked, Progress, CompletedSearchable,
                OneMigration, Migrating, Created
  <2> QED
    BY <1>11, <2>1, <2>2, <2>3 DEF Call, Requests
<1>12. ASSUME NEW c \in Clients, StartImport(c) PROVE IInv'
  BY <1>12, StartIInv DEF StartImport, TypeOK, AllKinds, Requests
<1>13. ASSUME NEW c \in Clients, AbandonImport(c) \/ PlanReplace(c) \/ ReplaceFails(c) PROVE IInv'
  <2>1. UNCHANGED <<jobs, defs, effect, task, holder, poisoned, locked, shown, target>>
    BY <1>13 DEF AbandonImport, PlanReplace, ReplaceFails, store, server
  <2>2. target[c].table \in Tables
    BY DEF TypeOK, Names
  <2>3. request' \in [Clients -> Requests] /\ plan' \in [Clients -> Versions]
    BY <1>13, <2>2 DEF AbandonImport, PlanReplace, ReplaceFails, Requests, TypeOK
  <2> QED
    BY <2>1, <2>3 DEF TypeOK, Numbered, Tasked, Progress, CompletedSearchable, OneMigration,
                      Migrating, Created
<1>14. ASSUME NEW c \in Clients, Replace(c) PROVE IInv'
  <2>1. /\ effect' = PublishedEffects /\ shown' = defs /\ request' \in [Clients -> Requests]
        /\ UNCHANGED <<jobs, defs, task, holder, poisoned, locked, target, plan>>
    BY <1>14 DEF Replace, TypeOK, Requests
  <2>2. TypeOK'
    BY <2>1, PublishedFacts DEF TypeOK
  <2>3. Progress' /\ CompletedSearchable'
    BY <2>1, PublishedFacts DEF Progress, CompletedSearchable, Created
  <2>4. Numbered' /\ Tasked' /\ OneMigration'
    BY <2>1 DEF Numbered, Created, Tasked, OneMigration, Migrating
  <2> QED
    BY <2>2, <2>3, <2>4
<1>15. CASE Restart
  BY <1>15, RestartIInv
<1> QED
  BY <1>1, <1>2, <1>3, <1>4, <1>5, <1>6, <1>7, <1>8, <1>9, <1>10, <1>11, <1>12, <1>13, <1>14, <1>15
     DEF Next, Proceed
-----------------------------------------------------------------------------
(* The theorems.                                                           *)

\* The invariant is inductive, whatever panics, restarts, is cancelled or
\* meets a busy job store.
THEOREM Invariance == Spec => []IInv
<1>1. Init => IInv
  BY InitIInv
<1>2. IInv /\ [Next]_vars => IInv'
  BY NextIInv
<1> QED
  BY <1>1, <1>2, PTL DEF Spec

\* The state of the server and of the job store is well-typed.
THEOREM TypeCorrect == Spec => []TypeOK
<1>1. IInv => TypeOK
  BY DEF IInv
<1> QED
  BY <1>1, Invariance, PTL

\* A record that says completed is true: searches have the job's work.
THEOREM CompletedIsSearchable == Spec => []CompletedSearchable
<1>1. IInv => CompletedSearchable
  BY DEF IInv
<1> QED
  BY <1>1, Invariance, PTL

\* Migrations of one name exclude each other, hold its lock, and every lock
\* has a migration that gives it back unless the mutex is poisoned.
THEOREM MigrationsExclude == Spec => []OneMigration
<1>1. IInv => OneMigration
  BY DEF IInv
<1> QED
  BY <1>1, Invariance, PTL

\* A step leaves records that are final alone: only a task writes results, and
\* a task's record is active or cancelled (JobStore::update, cancel, retry).
LEMMA StepKeepsFinal ==
    ASSUME IInv, [Next]_vars, NEW k \in Created, jobs[k].state \notin Active
    PROVE  jobs'[k] = jobs[k]
<1> USE DEF IInv
<1>1. k \in Ids /\ jobs[k] \in Job /\ jobs[k] # NoJob
  BY DEF Created, TypeOK
<1>2. ASSUME NEW i \in Ids, NEW state \in States, task[i] # "none", Update(i, state)
      PROVE  jobs'[k] = jobs[k]
  <2>1. jobs[i] # NoJob /\ (i = k => jobs[k].state = "cancelled")
    BY <1>2 DEF Tasked
  <2> QED
    BY <1>1, <1>2, <2>1, UpdateFacts
<1>3. ASSUME NEW kind \in AllKinds, NEW name \in Names, StartJob(kind, name)
      PROVE  jobs'[k] = jobs[k]
  BY <1>1, <1>3, StartJobFacts DEF TypeOK
<1>4. ASSUME NEW i \in Ids, Running(i) \/ Record(i) PROVE jobs'[k] = jobs[k]
  BY <1>2, <1>4 DEF Running, Record, States
<1>5. ASSUME NEW i \in Ids,
             \/ LockDatabase(i) \/ ImportEnd(i) \/ Maintenance(i) \/ Migrate(i) \/ Unlock(i)
             \/ TaskFails(i) \/ Publish(i) \/ ImportBatch(i) \/ Panic(i)
      PROVE  jobs' = jobs
  BY <1>5 DEF LockDatabase, ImportEnd, Maintenance, Migrate, Unlock, TaskFails, Publish,
              ImportBatch, Panic, store
<1>6. ASSUME NEW i \in Ids, Cancel(i) PROVE jobs'[k] = jobs[k]
  <2>1. i # k
    BY <1>6 DEF Cancel
  <2> QED
    BY <1>1, <1>6, <2>1, StateFacts DEF Cancel, States
<1>7. ASSUME NEW i \in Ids, Retry(i) PROVE jobs'[k] = jobs[k]
  BY <1>3, <1>7 DEF Retry, TypeOK, Job
<1>8. ASSUME NEW name \in Names, Call(name) PROVE jobs'[k] = jobs[k]
  BY <1>3, <1>8 DEF Call, ChangeSchema, Maintain, Admit, store, AllKinds, Retryable
<1>9. ASSUME NEW c \in Clients, StartImport(c) PROVE jobs'[k] = jobs[k]
  BY <1>3, <1>9 DEF StartImport, AllKinds, TypeOK
<1>10. ASSUME NEW c \in Clients,
              AbandonImport(c) \/ PlanReplace(c) \/ Replace(c) \/ ReplaceFails(c)
       PROVE  jobs' = jobs
  BY <1>10 DEF AbandonImport, PlanReplace, Replace, ReplaceFails, store
<1>11. CASE Restart
  BY <1>1, <1>11 DEF Restart
<1>12. CASE UNCHANGED vars
  BY <1>12 DEF vars, store
<1> QED
  BY <1>4, <1>5, <1>6, <1>7, <1>8, <1>9, <1>10, <1>11, <1>12 DEF Next, Proceed

\* What a client has polled as final stays.
THEOREM FinalStatesStay == Spec => TerminalStable
<1>1. IInv /\ [Next]_vars =>
        [\A i \in Created : jobs[i].state \notin Active => jobs'[i] = jobs[i]]_vars
  BY StepKeepsFinal
<1> QED
  BY <1>1, Invariance, PTL DEF Spec, TerminalStable

\* As long as the job store is never busy, a step leaves no active record
\* without a task: the last step of a task writes a final state, and a restart
\* marks every record whose task it ends.
LEMMA StepKeepsTasks ==
    ASSUME SlowTransactions = FALSE, IInv, ActiveHasTask, [Next]_vars
    PROVE  ActiveHasTask'
<1> USE DEF IInv
<1> SUFFICES ASSUME NEW k \in Ids, IsActive(k)', task'[k] = "none" PROVE FALSE
  BY DEF ActiveHasTask
<1>1. \A i \in Ids : ~Busy(i)
  BY DEF Busy
<1>2. ASSUME NEW i \in Ids, NEW state \in States, NEW step \in Tasks, task[i] # "none",
             Update(i, state), Goto(i, step), step = "none" => state \notin Active
      PROVE  FALSE
  <2>1. jobs[i] # NoJob /\ jobs[i].state \in Active \cup {"cancelled"}
    BY <1>2 DEF Tasked
  <2>2. /\ \A j \in Ids \ {i} : jobs'[j] = jobs[j]
        /\ jobs[i].state # "cancelled" => jobs'[i].state = state
        /\ jobs[i].state = "cancelled" => jobs'[i] = jobs[i]
    BY <1>1, <1>2, <2>1, UpdateFacts
  <2>3. \A j \in Ids : task'[j] = IF j = i THEN step ELSE task[j]
    BY <1>2 DEF Goto, TypeOK
  <2>4. CASE k = i
    BY <1>2, <2>1, <2>2, <2>3, <2>4 DEF IsActive, Active
  <2>5. CASE k # i
    BY <2>2, <2>3, <2>5 DEF IsActive, ActiveHasTask
  <2> QED
    BY <2>4, <2>5
<1>3. ASSUME NEW kind \in AllKinds, NEW name \in Names, StartJob(kind, name)
      PROVE  FALSE
  <2>1. PICK n \in Ids :
          /\ jobs[n] = NoJob /\ task[n] = "none"
          /\ jobs' = [jobs EXCEPT ![n] = [kind |-> kind, name |-> name, state |-> "queued"]]
          /\ task' = [task EXCEPT ![n] = "spawned"]
    BY <1>3, StartJobFacts
  <2> QED
    BY <2>1 DEF TypeOK, IsActive, ActiveHasTask
<1>4. ASSUME NEW i \in Ids, NEW step \in Tasks \ {"none"}, jobs' = jobs, Goto(i, step) PROVE FALSE
  BY <1>4 DEF Goto, TypeOK, IsActive, ActiveHasTask
<1>5. ASSUME UNCHANGED <<jobs, task>> PROVE FALSE
  BY <1>5 DEF IsActive, ActiveHasTask
<1>6. ASSUME NEW i \in Ids, Running(i) \/ Record(i) PROVE FALSE
  BY <1>2, <1>6 DEF Running, Record, States, Tasks, Active
<1>7. ASSUME NEW i \in Ids,
             \/ LockDatabase(i) \/ ImportEnd(i) \/ Maintenance(i) \/ Migrate(i) \/ Unlock(i)
             \/ TaskFails(i) \/ Publish(i) \/ ImportBatch(i) \/ Panic(i)
      PROVE  FALSE
  BY <1>4, <1>5, <1>7 DEF LockDatabase, ImportEnd, Maintenance, Migrate, Unlock, TaskFails, Publish,
              ImportBatch, Panic, GiveUp, Finish, Tasks, store
<1>8. ASSUME NEW i \in Ids, Cancel(i) PROVE FALSE
  <2>1. /\ \A j \in Ids \ {i} : jobs'[j] = jobs[j]
        /\ jobs'[i].state = "cancelled" /\ task' = task
    BY <1>8, StateFacts DEF Cancel, States, server
  <2> QED
    BY <2>1 DEF IsActive, ActiveHasTask, Active
<1>9. ASSUME NEW i \in Ids, Retry(i) PROVE FALSE
  BY <1>3, <1>9 DEF Retry, TypeOK, Job
<1>10. ASSUME NEW name \in Names, Call(name) PROVE FALSE
  BY <1>3, <1>5, <1>10 DEF Call, ChangeSchema, Maintain, Admit, store, server, AllKinds, Retryable
<1>11. ASSUME NEW c \in Clients,
              \/ StartImport(c) \/ AbandonImport(c) \/ PlanReplace(c) \/ Replace(c)
              \/ ReplaceFails(c)
       PROVE  FALSE
  <2>1. target[c] \in Names
    BY DEF TypeOK
  <2> QED
    BY <1>3, <1>5, <1>11, <2>1
    DEF StartImport, AbandonImport, PlanReplace, Replace, ReplaceFails, store, server, AllKinds
<1>12. CASE Restart
  BY <1>12 DEF Restart, IsActive, Active, Created, TypeOK, Job
<1>13. CASE UNCHANGED vars
  BY <1>5, <1>13 DEF vars, store, server
<1> QED
  BY <1>6, <1>7, <1>8, <1>9, <1>10, <1>11, <1>12, <1>13 DEF Next, Proceed

\* No record is left active without a task, as long as no write transaction
\* outlasts the job store's busy timeout.
THEOREM NoOrphans ==
    ASSUME SlowTransactions = FALSE
    PROVE  Spec => []ActiveHasTask
<1>1. Init => ActiveHasTask
  BY DEF Init, ActiveHasTask, IsActive
<1>2. IInv /\ ActiveHasTask /\ [Next]_vars => ActiveHasTask'
  BY StepKeepsTasks
<1> QED
  BY <1>1, <1>2, Invariance, PTL DEF Spec
=============================================================================
