--------------------------- MODULE OutboxInvariant --------------------------
(***************************************************************************)
(* The inductive invariant behind the safety properties of Outbox, for     *)
(* clients that defer only bulk writes (DeferTyped = FALSE).  The first    *)
(* group relates the outbox to the rows, the indexes and the writers at    *)
(* every moment; the second says what each step of a call has established. *)
(***************************************************************************)
EXTENDS Outbox

ApplySteps == {"apply", "commit", "reload", "ack"}
RebuildSteps == {"rebuild", "swap", "clean"}

\* A record that only says which keys to refresh.
RefreshOnly(i) == \A k \in Keys : outbox[i].ops[k] \in {Skip, Refresh}

\* The two in-memory sets move together, name existing records and, since
\* only bulk writes are deferred, records that carry no row of their own.
DeferredRecords ==
    /\ staged = deferred
    /\ deferred \subseteq Pending
    /\ \A i \in deferred : RefreshOnly(i)

FreshIds == \A i \in Ids : i >= nextId => outbox[i] = NoRecord

\* A record not yet queued in a writer is younger than every queued one.
StagedOlder == \A i \in Pending \ staged, j \in staged : j < i

\* The newest operation on a key agrees with SQLite's current row.
NewestOperation(t, k) ==
    \A i \in Touching(Pending, t, k) :
        (\A j \in Touching(Pending, t, k) : j <= i)
            => Resolve(outbox[i].ops[k], t, k) = rows[t][k]

\* A key that no record mentions is up to date in the index; one that no
\* unqueued record mentions will be after the writer's next commit.
CurrentKey(t, k) ==
    /\ Touching(Pending, t, k) = {} => committed[t][k] = rows[t][k]
    /\ Touching(Pending \ staged, t, k) = {} => Live(t, k) = rows[t][k]

RecordsCurrent == \A t \in Tables, k \in Keys : NewestOperation(t, k)

IndexCurrent == \A t \in Tables \ dirty, k \in Keys : CurrentKey(t, k)

\* A table without records is up to date for searches.
ReaderCurrent ==
    \A t \in Tables \ dirty :
        (\A i \in Pending : outbox[i].table # t) => reader[t] = rows[t]

Ledger ==
    /\ DeferredRecords
    /\ FreshIds
    /\ StagedOlder
    /\ RecordsCurrent
    /\ IndexCurrent
    /\ ReaderCurrent

\* What a call knows about the outbox at its step.
OutboxPhase ==
    /\ todo \subseteq Pending
    /\ pc \in ApplySteps \cup {"stage"} => Pending \ todo \subseteq deferred
    /\ pc = "body" => Pending \subseteq deferred
    /\ pc = "body" /\ kind \in FlushFirst => Pending = {}
    /\ pc \in ApplySteps /\ (kind \in FlushFirst \cup {"open"} \/ (kind = "bulk" /\ then = "return"))
          => Pending \subseteq todo
    /\ pc = "stage" => /\ \E i \in Ids : todo = {i}
                       /\ kind = "bulk"
                       /\ then = "return"
                       /\ \A i \in todo : RefreshOnly(i)
    /\ kind = "open" \/ pc = "closed" => deferred = {}
    /\ pc \in ApplySteps \cup {"stage", "body"} /\ kind \in RecoverFirst \cup {"open"} => dirty = {}
    /\ pc = "recover" => kind \in RecoverFirst \cup {"open"}
    /\ pc \in ApplySteps => kind # "none"
    /\ pc \in ApplySteps /\ kind = "read" => todo \cap deferred = {}
    /\ pc \in ApplySteps /\ kind \in FlushFirst \ {"flush", "batch"} => then = "body"
    /\ pc \in RebuildSteps \cup {"recover"} /\ kind \in {"bulk", "mutate"} => then = "body"

\* What it knows about the table it works on.
TablePhase ==
    /\ pc \in RebuildSteps => cur \in dirty
    /\ pc \in {"commit", "reload", "ack"} => cur \in Tables /\ Group(cur) # {}
    /\ pc = "commit" /\ cur \notin dirty => \A k \in Keys : Live(cur, k) = rows[cur][k]
    /\ pc \in {"reload", "ack"} /\ cur \notin dirty => committed[cur] = rows[cur]
    /\ pc \in {"swap", "clean", "reload", "ack"} => writer[cur] = Blank
    /\ pc = "ack" => reader[cur] = committed[cur]
    /\ pc = "clean" => committed[cur] = rows[cur] /\ reader[cur] = rows[cur]
    /\ pc = "apply" /\ kind = "mutate" /\ then = "return" /\ todo = {}
          => cur \in Tables /\ reader[cur] = rows[cur]
    /\ pc \in {"closed", "ok", "err"} => todo = {} /\ kind = "none" /\ then = "return" /\ cur = NoTable

\* The inductive invariant: with it every commit publishes exactly the
\* current rows, and no acknowledged record was still needed.
IInv == TypeOK /\ Ledger /\ OutboxPhase /\ TablePhase
=============================================================================
