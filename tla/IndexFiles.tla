----------------------------- MODULE IndexFiles -----------------------------
(***************************************************************************)
(* The catalog in SQLite and the index directories next to it: creating,   *)
(* dropping and rebuilding a table, one filesystem call at a time, with an *)
(* error or a crash after any of them, and the recovery of dirty tables.   *)
(*                                                                         *)
(* A directory is missing, partial, or a committed generation of a table,  *)
(* which is current until the table is marked dirty.                       *)
(***************************************************************************)
EXTENDS Naturals

CONSTANTS
    Tables,
    NoDir, Partial,
    Base, Dotted, \* if both are tables, the second is named "<first>.retired"
    NoTable

ASSUME Contents ==
    /\ NoDir \notin [table : Tables, current : BOOLEAN] \cup {Partial}
    /\ Partial \notin [table : Tables, current : BOOLEAN]
    /\ NoTable \notin Tables
    /\ (Base \in Tables /\ Dotted \in Tables) => Base # Dotted

Paths == [table : Tables, role : {"final", "building", "retired"}]
Generation == [table : Tables, current : BOOLEAN]

VARIABLES
    catalog, \* SQLite: "none", "dirty" or "clean", for every table
    dir,     \* what every path holds
    pc,      \* next step of the running call
    cur,     \* table it works on
    had,     \* had_previous of swap_index_generation
    after    \* what follows the rebuild: the call's "end", or more to "recover"

vars == <<catalog, dir, pc, cur, had, after>>

Rebuilding == {"clear", "build", "vacate", "retire", "install", "discard", "clean"}
Steps == Rebuilding \cup {"recover", "unlink"}

TypeOK ==
    /\ catalog \in [Tables -> {"none", "dirty", "clean"}]
    /\ dir \in [Paths -> Generation \cup {NoDir, Partial}]
    /\ pc \in Steps \cup {"idle", "closed"}
    /\ cur \in IF pc \in Rebuilding \cup {"unlink"} THEN Tables ELSE {NoTable}
    /\ had \in BOOLEAN
    /\ after \in {"end", "recover", "open"}

Final(t) == [table |-> t, role |-> "final"]
Building(t) == [table |-> t, role |-> "building"]

\* final_path.with_extension("retired").
Retired(t) ==
    IF t = Base /\ Dotted \in Tables THEN Final(Dotted) ELSE [table |-> t, role |-> "retired"]

\* The generations of t are no longer what SQLite describes.
Superseded(t) ==
    [p \in Paths |-> IF dir[p] \in Generation /\ dir[p].table = t
                       THEN [dir[p] EXCEPT !.current = FALSE] ELSE dir[p]]

Init ==
    /\ catalog = [t \in Tables |-> "none"]
    /\ dir = [p \in Paths |-> NoDir]
    /\ pc = "idle"
    /\ cur = NoTable
    /\ had = FALSE
    /\ after = "end"

Goto(step) == pc' = step

\* The call returns, Ok or Err; a failing open leaves no Database.
Return ==
    /\ Goto(IF after = "open" THEN "closed" ELSE "idle")
    /\ cur' = NoTable /\ had' = FALSE /\ after' = "end"
-----------------------------------------------------------------------------
\* Mutant: the new table is not marked.
CreateClean(t) ==
    /\ pc = "idle" /\ catalog[t] = "none"
    /\ catalog' = [catalog EXCEPT ![t] = "clean"]
    /\ dir' = Superseded(t)
    /\ cur' = t /\ Goto("clear")
    /\ UNCHANGED <<had, after>>

\* create_table_def: one transaction, then rebuild_table.
Create(t) ==
    /\ pc = "idle" /\ catalog[t] = "none"
    /\ catalog' = [catalog EXCEPT ![t] = "dirty"]
    /\ dir' = Superseded(t)
    /\ cur' = t /\ Goto("clear")
    /\ UNCHANGED <<had, after>>

\* reindex_table and change_table_schema: mark, then rebuild_table.
Supersede(t) ==
    /\ pc = "idle" /\ catalog[t] # "none"
    /\ catalog' = [catalog EXCEPT ![t] = "dirty"]
    /\ dir' = Superseded(t)
    /\ cur' = t /\ Goto("clear")
    /\ UNCHANGED <<had, after>>

\* drop_table_named: one transaction, then the directory.
Drop(t) ==
    /\ pc = "idle" /\ catalog[t] # "none"
    /\ catalog' = [catalog EXCEPT ![t] = "none"]
    /\ cur' = t /\ Goto("unlink")
    /\ UNCHANGED <<dir, had, after>>

Unlink ==
    /\ pc = "unlink"
    /\ dir' = [dir EXCEPT ![Final(cur)] = NoDir]
    /\ Return
    /\ UNCHANGED catalog

\* Reads and writes of rows begin with recover(), and so does open.
Recover ==
    /\ \/ pc = "idle" /\ after' = "recover"
       \/ pc = "closed" /\ after' = "open"
    /\ Goto("recover")
    /\ UNCHANGED <<catalog, dir, cur, had>>

\* Mutant: the rebuild starts without its table.
RecoverNoTable(t) ==
    /\ pc = "recover" /\ catalog[t] = "dirty"
    /\ Goto("clear")
    /\ UNCHANGED <<catalog, dir, cur, had, after>>

\* One round of recover()'s loop.
RecoverTable(t) ==
    /\ pc = "recover" /\ catalog[t] = "dirty"
    /\ cur' = t /\ Goto("clear")
    /\ UNCHANGED <<catalog, dir, had, after>>

Recovered ==
    /\ pc = "recover" /\ \A t \in Tables : catalog[t] # "dirty"
    /\ Goto("idle")
    /\ cur' = NoTable /\ had' = FALSE /\ after' = "end"
    /\ UNCHANGED <<catalog, dir>>
-----------------------------------------------------------------------------
(* rebuild_table and swap_index_generation.                                *)

\* An old build directory goes, an empty one is made.
ClearBuilding ==
    /\ pc = "clear"
    /\ dir' = [dir EXCEPT ![Building(cur)] = Partial]
    /\ Goto("build")
    /\ UNCHANGED <<catalog, cur, had, after>>

\* Every row is added and the index committed.
Build ==
    /\ pc = "build"
    /\ dir' = [dir EXCEPT ![Building(cur)] = [table |-> cur, current |-> TRUE]]
    /\ Goto("vacate")
    /\ UNCHANGED <<catalog, cur, had, after>>

\* Whatever is at the retired path goes.
VacateRetired ==
    /\ pc = "vacate"
    /\ dir' = [dir EXCEPT ![Retired(cur)] = NoDir]
    /\ Goto("retire")
    /\ UNCHANGED <<catalog, cur, had, after>>

Retire ==
    /\ pc = "retire"
    /\ had' = (dir[Final(cur)] # NoDir)
    /\ dir' = IF had' THEN [dir EXCEPT ![Retired(cur)] = dir[Final(cur)], ![Final(cur)] = NoDir]
                      ELSE dir
    /\ Goto("install")
    /\ UNCHANGED <<catalog, cur, after>>

Install ==
    /\ pc = "install"
    /\ dir' = [dir EXCEPT ![Final(cur)] = dir[Building(cur)], ![Building(cur)] = NoDir]
    /\ Goto("discard")
    /\ UNCHANGED <<catalog, cur, had, after>>

\* Mutant: the error of the second rename is swallowed.
RollBackAndGoOn ==
    /\ pc = "install" /\ had
    /\ dir' = [dir EXCEPT ![Final(cur)] = dir[Retired(cur)], ![Retired(cur)] = NoDir]
    /\ Goto("clean")
    /\ UNCHANGED <<catalog, cur, had, after>>

\* The second rename fails: the first is undone and the call returns Err.
RollBack ==
    /\ pc = "install" /\ had
    /\ dir' = [dir EXCEPT ![Final(cur)] = dir[Retired(cur)], ![Retired(cur)] = NoDir]
    /\ Return
    /\ UNCHANGED catalog

DiscardRetired ==
    /\ pc = "discard"
    /\ dir' = IF had THEN [dir EXCEPT ![Retired(cur)] = NoDir] ELSE dir
    /\ Goto("clean")
    /\ UNCHANGED <<catalog, cur, had, after>>

\* Mutant: recovery goes on without taking the mark away.
CleanForgotten ==
    /\ pc = "clean"
    /\ IF after = "end" THEN Return
       ELSE Goto("recover") /\ cur' = NoTable /\ had' = FALSE /\ after' = after
    /\ UNCHANGED <<catalog, dir>>

\* UPDATE dirty = 0.
Clean ==
    /\ pc = "clean"
    /\ catalog' = [catalog EXCEPT ![cur] = "clean"]
    /\ IF after = "end" THEN Return
       ELSE Goto("recover") /\ cur' = NoTable /\ had' = FALSE /\ after' = after
    /\ UNCHANGED dir
-----------------------------------------------------------------------------
\* A step fails without an effect.
Fail == pc \in Steps /\ Return /\ UNCHANGED <<catalog, dir>>

\* remove_dir_all fails (or is cut off) half-way.
RemoveFails ==
    /\ \E p \in Paths :
          /\ \/ pc = "unlink" /\ p = Final(cur)
             \/ pc = "clear" /\ p = Building(cur)
             \/ pc \in {"vacate", "discard"} /\ p = Retired(cur)
          /\ pc = "discard" => had
          /\ dir[p] # NoDir
          /\ dir' = [dir EXCEPT ![p] = Partial]
    /\ Return
    /\ UNCHANGED catalog

\* The process stops between two steps.
Crash ==
    /\ pc # "closed"
    /\ Goto("closed")
    /\ cur' = NoTable /\ had' = FALSE /\ after' = "end"
    /\ UNCHANGED <<catalog, dir>>

Internal ==
    \/ Unlink \/ (pc = "closed" /\ Recover) \/ Recovered
    \/ ClearBuilding \/ Build \/ VacateRetired \/ Retire \/ Install \/ DiscardRetired \/ Clean
    \/ \E t \in Tables : RecoverTable(t)

Fault == Fail \/ RemoveFails \/ RollBack \/ Crash

Next ==
    \/ Internal \/ Fault \/ Recover
    \/ \E t \in Tables : Create(t) \/ Supersede(t) \/ Drop(t)

Spec == Init /\ [][Next]_vars

\* A call that has begun, and the open after a crash, keep running.
FairSpec == Spec /\ WF_vars(Internal)
-----------------------------------------------------------------------------
\* At every moment, so also for whoever opens the database after a crash at
\* that moment: a table that is not marked dirty has, in its own directory,
\* a committed generation of its current rows and definition.
CleanIsComplete ==
    \A t \in Tables :
        catalog[t] = "clean" => dir[Final(t)] = [table |-> t, current |-> TRUE]

\* Build and retired directories do not pile up: one that is left behind
\* belongs to a table that the next recovery rebuilds, or to a dropped one.
LeftoversMarked ==
    \A p \in Paths :
        (p.role # "final" /\ dir[p] # NoDir) => catalog[p.table] # "clean"

\* Swapping never takes the last generation of another table away: a rebuild
\* touches only the directories of its own table.
OthersUntouched ==
    [][(pc \in Rebuilding) =>
          \A t \in Tables \ {cur} : dir'[Final(t)] = dir[Final(t)]]_vars

\* Once faults stop, a closed database is opened with every table clean.
RecoveryRebuilds ==
    <>[][~Fault]_vars =>
        (pc = "closed" ~> (pc = "idle" /\ \A t \in Tables : catalog[t] # "dirty"))

\* What each step of a rebuild has established.  With TypeOK and the two
\* invariants above this is inductive when no table is named after another.
Phase ==
    /\ pc \in Rebuilding => catalog[cur] = "dirty"
    /\ pc = "unlink" => catalog[cur] = "none"
    /\ pc \in {"vacate", "retire", "install"} =>
          dir[Building(cur)] = [table |-> cur, current |-> TRUE]
    /\ pc = "retire" \/ (pc \in {"install", "discard"} /\ ~had) => dir[Retired(cur)] = NoDir
    /\ pc \in {"discard", "clean"} =>
          /\ dir[Final(cur)] = [table |-> cur, current |-> TRUE]
          /\ dir[Building(cur)] = NoDir
    /\ pc = "clean" => dir[Retired(cur)] = NoDir

IInv == TypeOK /\ CleanIsComplete /\ LeftoversMarked /\ Phase
=============================================================================
