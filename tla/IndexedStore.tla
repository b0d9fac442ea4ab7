---------------------------- MODULE IndexedStore ----------------------------
(***************************************************************************)
(* What the embedded database promises its callers, without SQLite,        *)
(* Tantivy, the outbox or crashes: an authoritative store, a durable       *)
(* search index and the snapshot readers see.  A commit never publishes a  *)
(* mixture: it makes the index of one table equal to the store's rows at   *)
(* that moment, so every snapshot is a state the table has been in.  The   *)
(* exception is a stale table, one whose rebuild has not finished.         *)
(***************************************************************************)
CONSTANTS Tables, Keys, Vals, Absent

TableRows == [Keys -> Vals \cup {Absent}]
Empty == [k \in Keys |-> Absent]

VARIABLES
    store,  \* authoritative rows of every table
    index,  \* durable search index of every table
    view,   \* snapshot that searches use
    stale   \* tables whose index must be rebuilt from the store

vars == <<store, index, view, stale>>

Init ==
    /\ store = [t \in Tables |-> Empty]
    /\ index = [t \in Tables |-> Empty]
    /\ view = [t \in Tables |-> Empty]
    /\ stale = {}

\* A transaction changes rows; nothing searchable changes with it.
Write ==
    /\ store' \in [Tables -> TableRows]
    /\ UNCHANGED <<index, view, stale>>

\* A transaction replaces one table wholesale and asks for a rebuild.
Supersede(t) ==
    /\ \E new \in TableRows : store' = [store EXCEPT ![t] = new]
    /\ stale' = stale \cup {t}
    /\ UNCHANGED <<index, view>>

\* An index commit publishes exactly the rows the store holds now.
Publish(t) ==
    /\ t \notin stale
    /\ index' = [index EXCEPT ![t] = store[t]]
    /\ UNCHANGED <<store, view, stale>>

\* Nothing is promised about what a commit to a stale index leaves there.
PublishStale(t) ==
    /\ t \in stale
    /\ \E new \in TableRows : index' = [index EXCEPT ![t] = new]
    /\ UNCHANGED <<store, view, stale>>

Rebuild(t) ==
    /\ t \in stale
    /\ index' = [index EXCEPT ![t] = store[t]]
    /\ view' = [view EXCEPT ![t] = store[t]]
    /\ UNCHANGED <<store, stale>>

\* A rebuilt table leaves the stale set only when its index is the store.
Clean(t) ==
    /\ t \in stale
    /\ index[t] = store[t]
    /\ stale' = stale \ {t}
    /\ UNCHANGED <<store, index, view>>

\* Readers of some tables move to the durable index.
Reload(ts) ==
    /\ view' = [t \in Tables |-> IF t \in ts THEN index[t] ELSE view[t]]
    /\ UNCHANGED <<store, index, stale>>

Next ==
    \/ Write
    \/ \E t \in Tables :
          Supersede(t) \/ Publish(t) \/ PublishStale(t) \/ Rebuild(t) \/ Clean(t)
    \/ \E ts \in SUBSET Tables : Reload(ts)

Spec == Init /\ [][Next]_vars
=============================================================================
