---------------------------- MODULE SearchCache -----------------------------
(***************************************************************************)
(* SearchService: the catalog of published search handles, the aggregation *)
(* cache keyed by table generation, and the limiter that admits one wide   *)
(* query at a time.  Concurrent callers share it with the server's single  *)
(* writer, which publishes the catalog after every successful operation.   *)
(*                                                                         *)
(* A row set is the number of commits the table's index has seen, and what *)
(* a query computes from a snapshot is that number: a larger answer is a   *)
(* fresher one.                                                            *)
(***************************************************************************)
EXTENDS Naturals, Sequences, FiniteSets

CONSTANTS
    Tables, Callers,
    Requests,     \* filter and aggregation trees, by their hash
    Uncached,     \* a wide query that does not use the cache (read, profile)
    Defs,         \* table definitions, by their JSON value
    NoDef,        \* the table is not in the durable catalog
    NoHandle,
    CacheEntries, \* SearchOptions::aggregation_cache_entries
    Limit,        \* WideQueryLimiter::limit
    MaxCommits,   \* bound: commits per table
    MaxPublishes, \* bound: publish_catalog calls
    Redefines,    \* may the writer change definitions, create and drop?
    PublishFails  \* may publish_catalog return Err half-way?

Handle == [def : Defs, reader : Nat, generation : Nat]
Entry == [table : Tables, generation : Nat, request : Requests, value : Nat]

ASSUME Parameters ==
    /\ NoDef \notin Defs /\ NoHandle \notin Handle /\ Uncached \notin Requests
    /\ CacheEntries \in Nat /\ MaxCommits \in Nat /\ MaxPublishes \in Nat \ {0}
    /\ Limit \in Nat \ {0} /\ IsFiniteSet(Callers)

VARIABLES
    defs,       \* durable catalog: definition of every table
    index,      \* durable index of every table: commits so far
    canonical,  \* SearchCatalog.canonical
    lookup,     \* SearchCatalog.lookup
    snapshot,   \* searcher every IndexReader opened so far hands out
    cache,      \* LruCache: its entries,
    older,      \* and the pairs of entries of which the first was used before
    publishing, \* "no", or the writer holds the catalog's write lock: "yes"
    todo,       \* definitions publish_catalog has still to process
    next,       \* handles it has built
    publishes,  \* publish_catalog calls so far
    active,     \* WideQueryLimiter.active
    pc, table, request, handle, value, \* the callers
    floor       \* ghost: snapshot published when the caller looked its table up

catalog == <<canonical, lookup>>
lru     == <<cache, older>>
writer  == <<defs, index, publishing, todo, next, publishes>>
caller  == <<pc, table, request, handle, value, floor>>
vars    == <<writer, catalog, snapshot, lru, active, caller>>

Steps == {"probe", "acquire", "waiting", "search", "release", "store", "answer"}

TypeOK ==
    /\ defs \in [Tables -> Defs \cup {NoDef}]
    /\ index \in [Tables -> Nat]
    /\ canonical \in [Tables -> Handle \cup {NoHandle}]
    /\ lookup \in [Tables -> Handle \cup {NoHandle}]
    /\ snapshot \in Seq(Nat)
    /\ cache \subseteq Entry /\ Cardinality(cache) <= CacheEntries
    /\ older \subseteq cache \X cache
    /\ publishing \in {"no", "yes"}
    /\ todo \subseteq Tables
    /\ next \in [Tables -> Handle \cup {NoHandle}]
    /\ publishes \in 1 .. MaxPublishes
    /\ active \in Nat
    /\ pc \in [Callers -> Steps \cup {"idle"}]
    /\ table \in [Callers -> Tables]
    /\ request \in [Callers -> Requests \cup {Uncached}]
    /\ handle \in [Callers -> Handle \cup {NoHandle}]
    /\ value \in [Callers -> Nat]
    /\ floor \in [Callers -> Nat]

NoHandles == [t \in Tables |-> NoHandle]

\* open_with_options publishes the catalog of an existing database.
Init ==
    /\ defs \in [Tables -> Defs]
    /\ index = [t \in Tables |-> 0]
    /\ canonical = NoHandles
    /\ lookup = NoHandles
    /\ snapshot = <<>>
    /\ cache = {} /\ older = {}
    /\ publishing = "yes"
    /\ todo = Tables
    /\ next = NoHandles
    /\ publishes = 1
    /\ active = 0
    /\ pc = [c \in Callers |-> "idle"]
    /\ table \in [Callers -> Tables]
    /\ request \in [Callers -> {Uncached}]
    /\ handle = [c \in Callers |-> NoHandle]
    /\ value = [c \in Callers |-> 0]
    /\ floor = [c \in Callers |-> 0]
-----------------------------------------------------------------------------
(* The writer: an operation under the database mutex, then publish_catalog *)
(* on success.  A failed operation publishes nothing.                      *)

StartPublish(ds) ==
    /\ publishes < MaxPublishes
    /\ publishing' = "yes"
    /\ publishes' = publishes + 1
    /\ todo' = {t \in Tables : ds[t] # NoDef}
    /\ next' = NoHandles

KeepPublished == UNCHANGED <<publishing, publishes, todo, next>>

\* with_writer: rows of a table are committed to its index.
Commit(t) ==
    /\ publishing = "no" /\ defs[t] # NoDef
    /\ index[t] < MaxCommits
    /\ index' = [index EXCEPT ![t] = @ + 1]
    /\ StartPublish(defs) \/ KeepPublished
    /\ UNCHANGED <<defs, catalog, snapshot, lru, active, caller>>

\* set_table_aliases, change_table_schema, drop and create: the definition
\* changes, and with it, except for aliases, the index.
Redefine(t, d) ==
    /\ Redefines
    /\ publishing = "no" /\ defs[t] # d
    /\ defs' = [defs EXCEPT ![t] = d]
    /\ \/ index' = index
       \/ index[t] < MaxCommits /\ index' = [index EXCEPT ![t] = @ + 1]
    /\ StartPublish(defs')
    /\ UNCHANGED <<catalog, snapshot, lru, active, caller>>

\* An operation that commits nothing (a flush of an empty outbox).
Republish ==
    /\ publishing = "no"
    /\ StartPublish(defs)
    /\ UNCHANGED <<defs, index, catalog, snapshot, lru, active, caller>>

\* Entries leave the LRU cache, or one becomes the most recently used.
Keep(entries) == cache' = entries /\ older' = older \cap (entries \X entries)
Use(entries, e) ==
    /\ cache' = entries \cup {e}
    /\ older' = (older \cap (entries \X entries)) \cup (entries \X {e})

\* AggregationCache::remove_table.
Invalidate(t) == Keep({e \in cache : e.table # t})

\* Mutant: the generation of a reloaded table stays the same.
PublishSameGeneration(t) ==
    /\ publishing = "yes" /\ t \in todo
    /\ todo' = todo \ {t}
    /\ canonical' = [canonical EXCEPT ![t] = NoHandle]
    /\ IF canonical[t] # NoHandle /\ canonical[t].def = defs[t]
         THEN /\ snapshot' = [snapshot EXCEPT ![canonical[t].reader] = index[t]]
              /\ next' = [next EXCEPT ![t] = canonical[t]]
         ELSE /\ snapshot' = Append(snapshot, index[t])
              /\ next' = [next EXCEPT ![t] =
                    [def |-> defs[t], reader |-> Len(snapshot'), generation |-> 1]]
    /\ Invalidate(t)
    /\ UNCHANGED <<defs, index, lookup, publishing, publishes, active, caller>>

\* Mutant: the reader of an unchanged definition is not reloaded.
PublishWithoutReload(t) ==
    /\ publishing = "yes" /\ t \in todo
    /\ todo' = todo \ {t}
    /\ canonical' = [canonical EXCEPT ![t] = NoHandle]
    /\ IF canonical[t] # NoHandle /\ canonical[t].def = defs[t]
         THEN /\ next' = [next EXCEPT ![t] = [canonical[t] EXCEPT !.generation = @ + 1]]
              /\ UNCHANGED snapshot
         ELSE /\ snapshot' = Append(snapshot, index[t])
              /\ next' = [next EXCEPT ![t] =
                    [def |-> defs[t], reader |-> Len(snapshot'), generation |-> 1]]
    /\ Invalidate(t)
    /\ UNCHANGED <<defs, index, lookup, publishing, publishes, active, caller>>

\* One round of publish_catalog's loop: the handle leaves the canonical map;
\* an unchanged definition reloads its reader, which every clone shares, and
\* counts the generation up; any other opens the index again at generation 1.
PublishTable(t) ==
    /\ publishing = "yes" /\ t \in todo
    /\ todo' = todo \ {t}
    /\ canonical' = [canonical EXCEPT ![t] = NoHandle]
    /\ IF canonical[t] # NoHandle /\ canonical[t].def = defs[t]
         THEN /\ snapshot' = [snapshot EXCEPT ![canonical[t].reader] = index[t]]
              /\ next' = [next EXCEPT ![t] = [canonical[t] EXCEPT !.generation = @ + 1]]
         ELSE /\ snapshot' = Append(snapshot, index[t])
              /\ next' = [next EXCEPT ![t] =
                    [def |-> defs[t], reader |-> Len(snapshot'), generation |-> 1]]
    /\ Invalidate(t)
    /\ UNCHANGED <<defs, index, lookup, publishing, publishes, active, caller>>

\* The new catalog replaces the old one and the lock is released.
PublishDone ==
    /\ publishing = "yes" /\ todo = {}
    /\ canonical' = next
    /\ lookup' = next
    /\ publishing' = "no"
    /\ UNCHANGED <<defs, index, todo, next, publishes, snapshot, lru, active, caller>>

\* An index cannot be reloaded or opened: publish_catalog returns Err.  The
\* handles it took out of the canonical map are gone, the lookup is not.
PublishError(t) ==
    /\ PublishFails
    /\ publishing = "yes" /\ t \in todo /\ publishes > 1
    /\ canonical' = [canonical EXCEPT ![t] = NoHandle]
    /\ publishing' = "no"
    /\ todo' = {}
    /\ UNCHANGED <<defs, index, next, publishes, lookup, snapshot, lru, active, caller>>
-----------------------------------------------------------------------------
(* A caller: SearchService::aggregate, or a wide query without the cache.  *)

Goto(c, step) == pc' = [pc EXCEPT ![c] = step]

\* handle(): a read lock on the catalog.  An unknown table is an error.
Lookup(c, t, q) ==
    /\ pc[c] = "idle" /\ publishing = "no"
    /\ lookup[t] # NoHandle
    /\ table' = [table EXCEPT ![c] = t]
    /\ request' = [request EXCEPT ![c] = q]
    /\ handle' = [handle EXCEPT ![c] = lookup[t]]
    /\ floor' = [floor EXCEPT ![c] = snapshot[lookup[t].reader]]
    /\ Goto(c, IF q = Uncached THEN "acquire" ELSE "probe")
    /\ UNCHANGED <<writer, catalog, snapshot, lru, active, value>>

\* The entry under the caller's key, if there is one.
Hits(c) ==
    {e \in cache : /\ e.table = table[c]
                   /\ e.generation = handle[c].generation
                   /\ e.request = request[c]}

\* cached_aggregation: a hit becomes the most recently used entry.
Probe(c) ==
    /\ pc[c] = "probe"
    /\ \/ /\ Hits(c) = {}
          /\ Goto(c, "acquire")
          /\ UNCHANGED <<lru, value>>
       \/ \E e \in Hits(c) :
             /\ value' = [value EXCEPT ![c] = e.value]
             /\ Use(cache \ {e}, e)
             /\ Goto(c, "answer")
    /\ UNCHANGED <<writer, catalog, snapshot, active, table, request, handle, floor>>

\* Mutant: a caller that has been woken does not check again.
AcquireUnchecked(c) ==
    /\ pc[c] = "acquire"
    /\ active' = active + 1
    /\ Goto(c, "search")
    /\ UNCHANGED <<writer, catalog, snapshot, lru, table, request, handle, value, floor>>

\* WideQueryLimiter::acquire, one round of its loop under the mutex.
Acquire(c) ==
    /\ pc[c] = "acquire"
    /\ IF active >= Limit
         THEN Goto(c, "waiting") /\ active' = active
         ELSE Goto(c, "search") /\ active' = active + 1
    /\ UNCHANGED <<writer, catalog, snapshot, lru, table, request, handle, value, floor>>

\* Condvar::wait may return without a notification.
SpuriousWakeup(c) ==
    /\ pc[c] = "waiting"
    /\ Goto(c, "acquire")
    /\ UNCHANGED <<writer, catalog, snapshot, lru, active, table, request, handle, value, floor>>

\* The searcher of the handle's reader, as it is now, answers the request.
Search(c) ==
    /\ pc[c] = "search"
    /\ value' = [value EXCEPT ![c] = snapshot[handle[c].reader]]
    /\ Goto(c, "release")
    /\ UNCHANGED <<writer, catalog, snapshot, lru, active, table, request, handle, floor>>

\* Mutant: the permit is returned without a notification.
ReleaseSilently(c) ==
    /\ pc[c] = "release"
    /\ active' = active - 1
    /\ \/ Goto(c, IF request[c] = Uncached THEN "answer" ELSE "store")
       \/ Goto(c, "idle")
    /\ UNCHANGED <<writer, catalog, snapshot, lru, table, request, handle, value, floor>>

\* Drop for WideQueryPermit: notify_one wakes one of the waiting callers.
\* A query that failed returns its error here.
Release(c) ==
    /\ pc[c] = "release"
    /\ active' = active - 1
    /\ \E after \in {IF request[c] = Uncached THEN "answer" ELSE "store", "idle"} :
          LET waiting == {d \in Callers : pc[d] = "waiting"}
          IN  \/ waiting = {} /\ Goto(c, after)
              \/ \E d \in waiting : pc' = [pc EXCEPT ![c] = after, ![d] = "acquire"]
    /\ UNCHANGED <<writer, catalog, snapshot, lru, table, request, handle, value, floor>>

\* The entry that a caller puts into the cache, under the key of its handle.
Result(c) ==
    [table |-> table[c], generation |-> handle[c].generation, request |-> request[c], value |-> value[c]]

\* Mutant: nothing is evicted from a full cache.
StoreUnbounded(c) ==
    /\ pc[c] = "store"
    /\ Use(cache \ Hits(c), Result(c))
    /\ Goto(c, "answer")
    /\ UNCHANGED <<writer, catalog, snapshot, active, table, request, handle, value, floor>>

\* cache_aggregation: LruCache::put replaces the entry under the same key, or
\* evicts the least recently used one when it is full.
Store(c) ==
    /\ pc[c] = "store"
    /\ LET rest == cache \ Hits(c)
       IN  IF CacheEntries = 0 THEN UNCHANGED lru
           ELSE IF Cardinality(rest) < CacheEntries THEN Use(rest, Result(c))
           ELSE \E oldest \in rest :
                   /\ \A e \in rest : <<e, oldest>> \notin older
                   /\ Use(rest \ {oldest}, Result(c))
    /\ Goto(c, "answer")
    /\ UNCHANGED <<writer, catalog, snapshot, active, table, request, handle, value, floor>>

Answer(c) ==
    /\ pc[c] = "answer"
    /\ Goto(c, "idle")
    /\ UNCHANGED <<writer, catalog, snapshot, lru, active, table, request, handle, value, floor>>

Publish == PublishDone \/ \E t \in Tables : PublishTable(t) \/ PublishError(t)

Write ==
    \/ Republish
    \/ \E t \in Tables : Commit(t) \/ \E d \in Defs \cup {NoDef} : Redefine(t, d)

Call(c) == \E t \in Tables, q \in Requests \cup {Uncached} : Lookup(c, t, q)

Proceed(c) ==
    Probe(c) \/ Acquire(c) \/ Search(c) \/ Release(c) \/ Store(c) \/ Answer(c)

Next ==
    \/ Write \/ Publish
    \/ \E c \in Callers : Call(c) \/ Proceed(c) \/ SpuriousWakeup(c)

Spec == Init /\ [][Next]_vars

\* Every thread that can run does.  Nothing obliges anyone to call, to write
\* or to be woken spuriously.
FairSpec == Spec /\ WF_vars(Publish) /\ \A c \in Callers : WF_vars(Proceed(c))
-----------------------------------------------------------------------------
\* The limiter counts exactly the callers that run a wide query, and admits
\* no more of them than its limit.
OneWideQuery ==
    /\ active = Cardinality({c \in Callers : pc[c] \in {"search", "release"}})
    /\ active <= Limit

\* What a caller is given is at least as fresh as the snapshot that was
\* published when it looked its table up: a cached answer of an earlier
\* generation is never served for a later one.
FreshAnswers == \A c \in Callers : pc[c] = "answer" => value[c] >= floor[c]

\* When an operation has returned Ok the published catalog is the durable
\* one: the same tables and definitions, every reader at its table's last
\* commit.
SearchableOnReturn ==
    [][PublishDone =>
          \A t \in Tables :
              IF defs[t] = NoDef THEN lookup'[t] = NoHandle
              ELSE lookup'[t].def = defs[t] /\ snapshot[lookup'[t].reader] = index[t]]_vars

\* No wake-up is lost: once calls stop arriving, every caller that waits for
\* the limiter gets its turn, and all of them return for good.
QueriesDrain ==
    <>[][\A c \in Callers : ~Call(c)]_vars => <>[](\A c \in Callers : pc[c] = "idle")
=============================================================================
