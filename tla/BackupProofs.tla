---------------------------- MODULE BackupProofs ----------------------------
(***************************************************************************)
(* Proofs about Backup, for any number of transactions of the job store    *)
(* and of attempts to restore. OldUntilReplaced rests on what the steps of *)
(* a restore leave in the directories (Restoring). RestoredIsCommitted     *)
(* rests on the order of page values: the file, the transactions of the    *)
(* WAL and the pages read from the file grow together (Below), so two      *)
(* passes that agree enclose the file as it was between them.              *)
(***************************************************************************)
EXTENDS Backup, TLAPS

---------------------------------------------------------------------------
(* The directories.                                                        *)

Restoring ==
  /\ pc = "verified" => previous = None /\ temporary.kind = "database"
  /\ pc = "moved" => root = None /\ temporary.kind = "database"
  /\ pc = "renamed" => root.kind = "database"

LEMMA Kinds ==
  /\ None # Old /\ Empty # Old /\ None # Partial /\ Partial # Old
  /\ Old.kind # "database" /\ None.kind # "database" /\ Empty.kind # "database"
  /\ Partial.kind # "database"
  /\ \A pages, index : Database(pages, index).kind = "database"
BY DEF None, Old, Empty, Partial, Database

(***************************************************************************)
(* Every step keeps Restoring: only Stage enters "verified", only the two  *)
(* renames go on from there, and a crash or an error ends in "stopped".    *)
(***************************************************************************)
LEMMA RestoringStep == Restoring /\ [Next]_vars => Restoring'
<1> SUFFICES ASSUME Restoring, [Next]_vars PROVE Restoring'
    OBVIOUS
<1>1. CASE \/ \E leaf \in 2..(Len(Current) + 1) : JobWrite(leaf)
           \/ StartCheckpoint \/ MovePage
      BY <1>1 DEF Restoring, JobWrite, StartCheckpoint, MovePage
<1>2. CASE Checkpoint \/ OpenFile \/ HashPage \/ CopyPage \/ BackupFails \/ Stop
      BY <1>2 DEF Restoring, Checkpoint, OpenFile, HashPage, CopyPage, BackupFails, Stop, Db
<1>3. CASE StartRestore \/ Crash \/ OpenRoot \/ CleanUp
      BY <1>3 DEF Restoring, StartRestore, Crash, OpenRoot, CleanUp
<1>4. ASSUME NEW ok \in BOOLEAN, Stage(ok) PROVE Restoring'
      BY <1>4, Kinds DEF Restoring, Stage, Abandon
<1>5. ASSUME NEW ok \in BOOLEAN, MoveAside(ok) PROVE Restoring'
      BY <1>5 DEF Restoring, MoveAside, Abandon
<1>6. ASSUME NEW ok \in BOOLEAN, RemovePrevious(ok) PROVE Restoring'
      BY <1>6 DEF Restoring, RemovePrevious
<1>7. ASSUME NEW ok \in BOOLEAN, NEW undone \in BOOLEAN, MoveIn(ok, undone) PROVE Restoring'
      BY <1>7 DEF Restoring, MoveIn
<1>8. CASE UNCHANGED vars
      BY <1>8 DEF Restoring, vars
<1> QED BY <1>1, <1>2, <1>3, <1>4, <1>5, <1>6, <1>7, <1>8 DEF Next

(***************************************************************************)
(* The database that was there stays, in place or as .before-restore,      *)
(* until the restored one is in place, whatever rename fails and wherever  *)
(* a restore is killed, however often it is repeated (restore_backup).     *)
(***************************************************************************)
THEOREM OldIsKept == Spec => OldUntilReplaced
<1> DEFINE Stays == (root = Old \/ previous = Old) =>
                      root' = Old \/ previous' = Old \/ root'.kind = "database"
<1>1. Init => Restoring
      BY DEF Init, Restoring
<1>2. Restoring /\ [Next]_vars => [Stays]_vars
  <2> SUFFICES ASSUME Restoring, Next, root = Old \/ previous = Old
               PROVE  root' = Old \/ previous' = Old \/ root'.kind = "database"
      OBVIOUS
  <2>1. CASE \/ \E leaf \in 2..(Len(Current) + 1) : JobWrite(leaf)
             \/ StartCheckpoint \/ MovePage
        BY <2>1 DEF JobWrite, StartCheckpoint, MovePage
  <2>2. CASE Checkpoint \/ OpenFile \/ HashPage \/ CopyPage \/ BackupFails \/ Stop
        BY <2>2 DEF Checkpoint, OpenFile, HashPage, CopyPage, BackupFails, Stop, Db
  <2>3. CASE StartRestore \/ Crash \/ OpenRoot \/ CleanUp
        BY <2>3, Kinds DEF StartRestore, Crash, OpenRoot, CleanUp
  <2>4. ASSUME NEW ok \in BOOLEAN, Stage(ok) PROVE root' = Old \/ previous' = Old
        BY <2>4 DEF Stage, Abandon
  <2>5. ASSUME NEW ok \in BOOLEAN, MoveAside(ok) PROVE root' = Old \/ previous' = Old
        BY <2>5, Kinds DEF Restoring, MoveAside, Abandon
  <2>6. ASSUME NEW ok \in BOOLEAN, RemovePrevious(ok) PROVE root'.kind = "database"
        BY <2>6 DEF Restoring, RemovePrevious
  <2>7. ASSUME NEW ok \in BOOLEAN, NEW undone \in BOOLEAN, MoveIn(ok, undone)
        PROVE  root' = Old \/ previous' = Old \/ root'.kind = "database"
        BY <2>7, Kinds DEF Restoring, MoveIn
  <2> QED BY <2>1, <2>2, <2>3, <2>4, <2>5, <2>6, <2>7 DEF Next
<1> QED BY <1>1, <1>2, RestoringStep, PTL DEF Spec, OldUntilReplaced

---------------------------------------------------------------------------
(* The file, the WAL and the pages read.                                   *)

\* Page for page, t is the same file as s or a later one.
Below(s, t) == Len(s) <= Len(t) /\ \A p \in 1..Len(s) : s[p] <= t[p]

Transactions == [pages : SUBSET Nat, state : Seq(Nat)]
Archives     == [pages : Seq(Nat), bytes : Nat, sha256 : Seq(Nat), index : {FlushedRows}]

Typed ==
  /\ main \in Seq(Nat) /\ wal \in Seq(Transactions) /\ moving \in SUBSET Nat /\ upto \in Nat
  /\ commits \in SUBSET Seq(Nat) /\ writes \in Nat
  /\ bytes \in Nat /\ hashed \in Seq(Nat) /\ copied \in Seq(Nat)
  /\ archive \in Archives \cup {None}

\* A page that no transaction after the i-th up to the j-th changed is the same.
Kept(i, j) ==
  \A p \in 1..Len(wal[j].state) :
    (\A k \in (i + 1)..j : p \notin wal[k].pages) =>
      p <= Len(wal[i].state) /\ wal[i].state[p] = wal[j].state[p]

\* The WAL: committed states, each later than the one before.
Log ==
  /\ \A i \in 1..Len(wal) :
       /\ wal[i].state \in commits /\ wal[i].pages \subseteq 1..Len(wal[i].state)
       /\ Len(wal[i].state) >= 1 /\ wal[i].state[1] = FlushedRows
       /\ \A p \in 1..Len(wal[i].state) : wal[i].state[p] <= writes + 1
  /\ \A i, j \in 1..Len(wal) : i <= j => Below(wal[i].state, wal[j].state) /\ Kept(i, j)

\* The file: what the last checkpoint moved, and part of what the present one moves.
File ==
  /\ Len(main) >= 1
  /\ \A p \in 1..Len(main) : main[p] <= writes + 1
  /\ wal = <<>> => main[1] = FlushedRows
  /\ \A i \in 1..Len(wal) : (moving = {} \/ i >= upto) => Below(main, wal[i].state)
  /\ moving = {} =>
       /\ main \in commits
       /\ \A j \in 1..Len(wal) : \A p \in 1..Len(wal[j].state) :
            (\A k \in 1..j : p \notin wal[k].pages) => p <= Len(main) /\ main[p] = wal[j].state[p]
  /\ moving # {} =>
       /\ upto \in 1..Len(wal) /\ moving \subseteq 1..Len(wal[upto].state)
       /\ \A p \in 1..Len(wal[upto].state) :
            p \notin moving => p <= Len(main) /\ main[p] = wal[upto].state[p]

\* The two passes over the file, and the committed state that lies between them.
Between(state) ==
  /\ state[1] = FlushedRows /\ Len(state) = Len(hashed) /\ Len(state) >= 1
  /\ Below(state, main) /\ Below(hashed, state)
  /\ \A p \in 1..Len(state) : p <= Len(copied) => state[p] <= copied[p]

Passes ==
  /\ pc \in {"opening", "hashing", "copying", "archived"} => main[1] = FlushedRows
  /\ pc \in {"flushed", "opening"} => hashed = <<>>
  /\ pc \in {"flushed", "opening", "hashing"} => copied = <<>>
  /\ pc = "hashing" => Below(hashed, main)
  /\ pc \in {"copying", "archived"} => \E state \in commits : Between(state)

Archived ==
  archive # None /\ VerifyManifest(archive) =>
    archive.pages \in commits /\ archive.pages[1] = FlushedRows

Placed ==
  /\ pc \in {"staging"} => archive # None
  /\ RestoredIsCommitted

IInv == Typed /\ Log /\ File /\ Passes /\ Archived /\ Placed

---------------------------------------------------------------------------

LEMMA BelowRefl == ASSUME NEW s \in Seq(Nat) PROVE Below(s, s)
BY DEF Below

LEMMA BelowTrans ==
  ASSUME NEW s \in Seq(Nat), NEW t \in Seq(Nat), NEW u \in Seq(Nat), Below(s, t), Below(t, u)
  PROVE  Below(s, u)
<1>1. ASSUME NEW p \in 1..Len(s) PROVE s[p] <= u[p]
  <2>1. p \in 1..Len(t) /\ p \in 1..Len(u)
        BY DEF Below
  <2>2. s[p] <= t[p]
        BY DEF Below
  <2>3. t[p] <= u[p]
        BY <2>1 DEF Below
  <2>4. s[p] \in Nat /\ t[p] \in Nat /\ u[p] \in Nat
        BY <2>1, SMTT(30)
  <2> QED BY <2>2, <2>3, <2>4, SMTT(30)
<1> QED BY <1>1 DEF Below

LEMMA SamePages ==
  ASSUME NEW s \in Seq(Nat), NEW t \in Seq(Nat), Len(s) = Len(t),
         \A p \in 1..Len(s) : s[p] = t[p]
  PROVE  s = t
OBVIOUS

\* What a transaction leaves in a file that it extends by at most one page.
LEMMA WrittenFacts ==
  ASSUME NEW file \in Seq(Nat), NEW pages \in SUBSET (1..(Len(file) + 1)), NEW value \in Nat
  PROVE  LET after == Written(file, pages, value)
         IN  /\ after \in Seq(Nat) /\ Len(file) <= Len(after) /\ Len(after) <= Len(file) + 1
             /\ pages \subseteq 1..Len(after)
             /\ \A p \in 1..Len(after) :
                  /\ p \in pages => after[p] = value
                  /\ p \notin pages => p <= Len(file) /\ after[p] = file[p]
<1> DEFINE n == IF pages \subseteq DOMAIN file THEN Len(file) ELSE Len(file) + 1
           after == Written(file, pages, value)
<1>1. n \in Nat /\ Len(file) <= n /\ n <= Len(file) + 1 /\ pages \subseteq 1..n
      OBVIOUS
<1>2. \A p \in 1..n : p \notin pages => p <= Len(file)
      OBVIOUS
<1>3. after = [p \in 1..n |-> IF p \in pages THEN value ELSE file[p]]
      BY DEF Written
<1>4. after \in Seq(Nat) /\ Len(after) = n
  <2> HIDE DEF n, after
  <2>1. \A p \in 1..n : (IF p \in pages THEN value ELSE file[p]) \in Nat
        BY <1>1, <1>2
  <2> QED BY <1>1, <1>3, <2>1
<1>5. \A p \in 1..n : after[p] = IF p \in pages THEN value ELSE file[p]
  <2> HIDE DEF n, after
  <2> QED BY <1>3
<1> HIDE DEF n, after
<1>6. /\ after \in Seq(Nat) /\ Len(file) <= Len(after) /\ Len(after) <= Len(file) + 1
      /\ pages \subseteq 1..Len(after)
      /\ \A p \in 1..Len(after) :
           /\ p \in pages => after[p] = value
           /\ p \notin pages => p <= Len(file) /\ after[p] = file[p]
      BY <1>1, <1>2, <1>4, <1>5
<1> QED BY <1>6 DEF after

\* What a reader sees while the invariant holds.
LEMMA CurrentFacts ==
  ASSUME Typed, Log, File
  PROVE  /\ Current \in Seq(Nat) /\ Len(Current) >= 1 /\ Current[1] = FlushedRows
         /\ \A p \in 1..Len(Current) : Current[p] <= writes + 1
         /\ Current \in commits /\ Below(main, Current)
         /\ \A i \in 1..Len(wal) : Below(wal[i].state, Current)
<1>1. CASE wal = <<>>
  <2>1. moving = {} /\ Current = main
        BY <1>1 DEF File, Current
  <2> QED BY <2>1, <1>1, BelowRefl DEF File, Typed
<1>2. CASE wal # <<>>
  <2> DEFINE n == Len(wal)
  <2>1. n \in 1..Len(wal) /\ Current = wal[n].state /\ wal[n] \in Transactions
        BY <1>2 DEF Typed, Current
  <2>2. moving = {} \/ n >= upto
        BY DEF File, Typed
  <2>3. Below(main, Current)
        BY <2>1, <2>2 DEF File
  <2>4. \A i \in 1..Len(wal) : Below(wal[i].state, Current)
        BY <2>1 DEF Log
  <2>5. /\ Current \in Seq(Nat) /\ Len(Current) >= 1 /\ Current[1] = FlushedRows
        /\ \A p \in 1..Len(Current) : Current[p] <= writes + 1
        /\ Current \in commits
    <3> HIDE DEF n
    <3> QED BY <2>1 DEF Log, Transactions
  <2> QED BY <2>3, <2>4, <2>5
<1> QED BY <1>1, <1>2

\* A transaction of the job store.
LEMMA JobWriteKeeps ==
  ASSUME IInv, NEW leaf \in 2..(Len(Current) + 1), JobWrite(leaf)
  PROVE  IInv'
<1> DEFINE n     == Len(wal)
           state == Written(Current, {2, leaf}, writes + 2)
           entry == [pages |-> {2, leaf}, state |-> state]
<1>1. /\ Current \in Seq(Nat) /\ Len(Current) >= 1 /\ Current[1] = FlushedRows
      /\ \A p \in 1..Len(Current) : Current[p] <= writes + 1
      /\ Current \in commits /\ Below(main, Current)
      /\ \A i \in 1..Len(wal) : Below(wal[i].state, Current)
      BY CurrentFacts DEF IInv
<1>2. {2, leaf} \in SUBSET (1..(Len(Current) + 1)) /\ writes + 2 \in Nat
      BY <1>1 DEF IInv, Typed
<1>3. /\ state \in Seq(Nat) /\ Len(Current) <= Len(state) /\ Len(state) <= Len(Current) + 1
      /\ {2, leaf} \subseteq 1..Len(state)
      /\ \A p \in 1..Len(state) :
           /\ p \in {2, leaf} => state[p] = writes + 2
           /\ p \notin {2, leaf} => p <= Len(Current) /\ state[p] = Current[p]
  <2> DEFINE pages == {2, leaf}
             value == writes + 2
  <2>1. pages \in SUBSET (1..(Len(Current) + 1)) /\ value \in Nat
        BY <1>2
  <2> HIDE DEF pages, value
  <2>2. LET after == Written(Current, pages, value)
        IN  /\ after \in Seq(Nat) /\ Len(Current) <= Len(after) /\ Len(after) <= Len(Current) + 1
            /\ pages \subseteq 1..Len(after)
            /\ \A p \in 1..Len(after) :
                 /\ p \in pages => after[p] = value
                 /\ p \notin pages => p <= Len(Current) /\ after[p] = Current[p]
        BY <1>1, <2>1, WrittenFacts
  <2> QED BY <2>2 DEF pages, value
<1>4. /\ wal' = Append(wal, entry) /\ commits' = commits \cup {state} /\ writes' = writes + 1
      /\ UNCHANGED <<main, moving, upto, pc, bytes, hashed, copied, archive, root, temporary, previous>>
      BY DEF JobWrite
<1> HIDE DEF state
<1>5. entry \in Transactions /\ entry.pages = {2, leaf} /\ entry.state = state
      BY <1>3 DEF Transactions
<1> HIDE DEF entry
<1>6. /\ n \in Nat /\ Len(wal') = n + 1 /\ wal'[n + 1] = entry
      /\ \A i \in 1..n : wal'[i] = wal[i] /\ wal[i] \in Transactions
      BY <1>4, <1>5 DEF IInv, Typed
<1> HIDE DEF n
<1>7. Below(Current, state)
  <2>1. \A p \in 1..Len(Current) : p \in 1..Len(state) /\ Current[p] \in Nat
        BY <1>1, <1>3, SMTT(30)
  <2>2. writes \in Nat
        BY DEF IInv, Typed
  <2>3. ASSUME NEW p \in 1..Len(Current) PROVE Current[p] <= state[p]
    <3>1. Current[p] <= writes + 1 /\ (state[p] = writes + 2 \/ state[p] = Current[p])
          BY <1>1, <1>3, <2>1
    <3> QED BY <3>1, <2>1, <2>2
  <2> QED BY <1>3, <2>3 DEF Below
<1>8. state[1] = FlushedRows /\ Len(state) >= 1
      BY <1>1, <1>3
<1>9. \A p \in 1..Len(state) : state[p] <= writes' + 1
  <2>1. writes \in Nat
        BY DEF IInv, Typed
  <2>2. ASSUME NEW p \in 1..Len(state) PROVE state[p] <= writes' + 1
    <3>1. state[p] = writes + 2 \/ (p \in 1..Len(Current) /\ state[p] = Current[p])
          BY <1>1, <1>3
    <3>2. CASE state[p] = writes + 2
          BY <2>1, <3>2, <1>4
    <3>3. CASE p \in 1..Len(Current) /\ state[p] = Current[p]
      <4>1. Current[p] \in Nat /\ Current[p] <= writes + 1
            BY <3>3, <1>1
      <4> QED BY <4>1, <3>3, <2>1, <1>4
    <3> QED BY <3>1, <3>2, <3>3
  <2> QED BY <2>2
<1>10. Below(main, state) /\ \A i \in 1..n : Below(wal[i].state, state)
  <2>1. main \in Seq(Nat) /\ \A i \in 1..n : wal[i].state \in Seq(Nat)
        BY <1>6 DEF IInv, Typed, Transactions
  <2> QED BY <1>1, <1>3, <1>7, <2>1, BelowTrans DEF n
<1>11. Typed'
       BY <1>3, <1>4, <1>5, <1>2 DEF IInv, Typed
<1>12. Log'
  <2>1. ASSUME NEW i \in 1..Len(wal')
        PROVE  /\ wal'[i].state \in commits' /\ wal'[i].pages \subseteq 1..Len(wal'[i].state)
               /\ Len(wal'[i].state) >= 1 /\ wal'[i].state[1] = FlushedRows
               /\ \A p \in 1..Len(wal'[i].state) : wal'[i].state[p] <= writes' + 1
    <3>1. CASE i = n + 1
          BY <3>1, <1>3, <1>4, <1>5, <1>6, <1>8, <1>9, ZenonT(60)
    <3>2. CASE i \in 1..n
      <4>1. wal'[i] = wal[i] /\ wal[i].state \in Seq(Nat)
            BY <3>2, <1>6 DEF Transactions
      <4>2. \A p \in 1..Len(wal[i].state) : wal[i].state[p] <= writes + 1 /\ wal[i].state[p] \in Nat
            BY <3>2, <4>1, SMTT(30) DEF IInv, Log, n
      <4>3. writes \in Nat /\ writes' = writes + 1 /\ commits \subseteq commits'
            BY <1>4 DEF IInv, Typed
      <4>4. /\ wal[i].state \in commits /\ wal[i].pages \subseteq 1..Len(wal[i].state)
            /\ Len(wal[i].state) >= 1 /\ wal[i].state[1] = FlushedRows
            BY <3>2 DEF IInv, Log, n
      <4>5. \A p \in 1..Len(wal[i].state) : wal[i].state[p] <= writes' + 1
            BY <4>2, <4>3
      <4> QED BY <4>1, <4>3, <4>4, <4>5
    <3> QED BY <1>6, <3>1, <3>2
  <2>2. ASSUME NEW i \in 1..Len(wal'), NEW j \in 1..Len(wal'), i <= j
        PROVE  Below(wal'[i].state, wal'[j].state) /\ Kept(i, j)'
    <3>1. CASE j \in 1..n
      <4>1. i \in 1..n /\ wal'[i] = wal[i] /\ wal'[j] = wal[j]
            BY <1>6, <2>2, <3>1
      <4>2. \A k \in (i + 1)..j : k \in 1..n /\ wal'[k] = wal[k]
            BY <1>6, <4>1, <3>1
      <4>3. Below(wal[i].state, wal[j].state) /\ Kept(i, j)
            BY <2>2, <3>1, <4>1 DEF IInv, Log, n
      <4> QED BY <4>1, <4>2, <4>3 DEF Kept
    <3>2. CASE i = n + 1 /\ j = n + 1
          BY <3>2, <1>3, <1>5, <1>6, BelowRefl DEF Kept
    <3>3. CASE i \in 1..n /\ j = n + 1
      <4>1. wal'[i] = wal[i] /\ wal'[j].state = state /\ wal'[j].pages = {2, leaf}
            BY <3>3, <1>5, <1>6
      <4>2. Current = wal[n].state /\ Kept(i, n) /\ n \in Nat /\ 1 <= n
            BY <3>3, <1>6 DEF IInv, Log, n, Current
      <4>3. ASSUME NEW p \in 1..Len(state), \A k \in (i + 1)..j : p \notin wal'[k].pages
            PROVE  p <= Len(wal[i].state) /\ wal[i].state[p] = state[p]
        <5>1. p \notin {2, leaf}
              BY <3>3, <4>1, <4>3, <1>6
        <5>2. p \in 1..Len(Current) /\ state[p] = Current[p]
              BY <5>1, <1>3, <1>1
        <5>3. \A k \in (i + 1)..n : p \notin wal[k].pages
              BY <3>3, <4>3, <1>6
        <5> QED BY <4>2, <5>2, <5>3 DEF Kept
      <4> QED BY <4>1, <4>3, <1>10, <3>3 DEF Kept
    <3> QED BY <1>6, <2>2, <3>1, <3>2, <3>3
  <2> QED BY <2>1, <2>2 DEF Log
<1>13. File'
  <2>1. Len(main) >= 1 /\ \A p \in 1..Len(main) : main[p] <= writes' + 1
    <3>1. Len(main) >= 1 /\ \A p \in 1..Len(main) : main[p] <= writes + 1
          BY DEF IInv, File
    <3>2. writes \in Nat /\ writes' = writes + 1 /\ \A p \in 1..Len(main) : main[p] \in Nat
          BY <1>4 DEF IInv, Typed
    <3> QED BY <3>1, <3>2
  <2>2. wal' # <<>>
        BY <1>6
  <2>3. ASSUME NEW i \in 1..Len(wal'), moving = {} \/ i >= upto PROVE Below(main, wal'[i].state)
        BY <2>3, <1>5, <1>6, <1>10 DEF IInv, File, n
  <2>4. ASSUME moving = {}
        PROVE  /\ main \in commits'
               /\ \A j \in 1..Len(wal') : \A p \in 1..Len(wal'[j].state) :
                    (\A k \in 1..j : p \notin wal'[k].pages) =>
                      p <= Len(main) /\ main[p] = wal'[j].state[p]
    <3>1. main \in commits'
          BY <2>4, <1>4 DEF IInv, File
    <3>2. ASSUME NEW j \in 1..n, NEW p \in 1..Len(wal'[j].state), \A k \in 1..j : p \notin wal'[k].pages
          PROVE  p <= Len(main) /\ main[p] = wal'[j].state[p]
      <4>1. wal'[j] = wal[j] /\ \A k \in 1..j : wal'[k] = wal[k]
            BY <1>6
      <4> QED BY <2>4, <3>2, <4>1, SMTT(30) DEF IInv, File, n
    <3>3. ASSUME NEW p \in 1..Len(state), \A k \in 1..(n + 1) : p \notin wal'[k].pages
          PROVE  p <= Len(main) /\ main[p] = state[p]
      <4>1. p \notin {2, leaf}
            BY <3>3, <1>5, <1>6
      <4>2. p \in 1..Len(Current) /\ state[p] = Current[p]
            BY <4>1, <1>3, <1>1
      <4>3. \A k \in 1..n : p \notin wal[k].pages
            BY <3>3, <1>6
      <4>4. CASE wal = <<>>
            BY <4>4, <4>2, <1>1 DEF Current
      <4>5. CASE wal # <<>>
        <5>1. n \in 1..Len(wal) /\ Current = wal[n].state
              BY <4>5, <1>6 DEF Current, n, IInv, Typed
        <5> QED BY <2>4, <5>1, <4>2, <4>3 DEF IInv, File
      <4> QED BY <4>4, <4>5
    <3>4. \A j \in 1..Len(wal') : j \in 1..n \/ (j = n + 1 /\ wal'[j].state = state)
          BY <1>5, <1>6
    <3> QED BY <3>1, <3>2, <3>3, <3>4
  <2>5. ASSUME moving # {}
        PROVE  /\ upto \in 1..Len(wal') /\ moving \subseteq 1..Len(wal'[upto].state)
               /\ \A p \in 1..Len(wal'[upto].state) :
                    p \notin moving => p <= Len(main) /\ main[p] = wal'[upto].state[p]
    <3>1. upto \in 1..n /\ wal'[upto] = wal[upto]
          BY <2>5, <1>6 DEF IInv, File, n
    <3> QED BY <2>5, <3>1, <1>6 DEF IInv, File
  <2> QED BY <2>1, <2>2, <2>3, <2>4, <2>5, <1>4 DEF File
<1>14. Passes'
       BY <1>4 DEF IInv, Passes, Between
<1>15. Archived' /\ Placed'
       BY <1>4 DEF IInv, Archived, Placed, RestoredIsCommitted, VerifyManifest
<1> QED BY <1>11, <1>12, <1>13, <1>14, <1>15 DEF IInv

\* The WAL is as it was.
LEMMA LogUnchanged ==
  ASSUME Log, UNCHANGED <<wal, commits, writes>> PROVE Log'
BY SMTT(30) DEF Log, Kept, Below

\* A checkpoint starts: what its transactions did not change is in the file already.
LEMMA StartCheckpointKeeps ==
  ASSUME IInv, StartCheckpoint PROVE IInv'
<1> DEFINE n == Len(wal)
<1>1. /\ moving = {} /\ moving' = UNION {wal[i].pages : i \in DOMAIN wal} /\ upto' = n
      /\ UNCHANGED <<main, wal, commits, writes, pc, bytes, hashed, copied, archive, root, temporary, previous>>
      BY DEF StartCheckpoint
<1>2. n \in 1..Len(wal) /\ DOMAIN wal = 1..n /\ \A i \in 1..n : wal[i] \in Transactions
      BY DEF StartCheckpoint, IInv, Typed
<1> HIDE DEF n
<1>3. \A p : p \in moving' <=> \E i \in 1..n : p \in wal[i].pages
      BY <1>1, <1>2
<1>4. Typed'
      BY <1>1, <1>2, <1>3 DEF IInv, Typed, Transactions
<1>5. Log'
      BY <1>1, LogUnchanged DEF IInv
<1>6. File'
  <2>1. /\ Len(main) >= 1 /\ \A p \in 1..Len(main) : main[p] <= writes + 1
        /\ wal # <<>> /\ main \in commits
        /\ \A i \in 1..Len(wal) : Below(main, wal[i].state)
        /\ \A j \in 1..Len(wal) : \A p \in 1..Len(wal[j].state) :
             (\A k \in 1..j : p \notin wal[k].pages) => p <= Len(main) /\ main[p] = wal[j].state[p]
        BY <1>1 DEF IInv, File, StartCheckpoint
  <2>2. moving' \subseteq 1..Len(wal[n].state)
    <3>1. ASSUME NEW i \in 1..n PROVE wal[i].pages \subseteq 1..Len(wal[n].state)
      <4>1. wal[i].pages \subseteq 1..Len(wal[i].state) /\ Below(wal[i].state, wal[n].state)
            BY <1>2 DEF IInv, Log
      <4>2. wal[i].state \in Seq(Nat) /\ wal[n].state \in Seq(Nat)
            BY <1>2 DEF Transactions
      <4> QED BY <4>1, <4>2 DEF Below
    <3> QED BY <1>3, <3>1
  <2>3. \A p \in 1..Len(wal[n].state) :
          p \notin moving' => p <= Len(main) /\ main[p] = wal[n].state[p]
        BY <1>2, <1>3, <2>1
  <2> QED BY <1>1, <1>2, <2>1, <2>2, <2>3 DEF File, Below
<1>7. Passes' /\ Archived' /\ Placed'
      BY <1>1 DEF IInv, Passes, Between, Below, Archived, Placed, RestoredIsCommitted, VerifyManifest
<1> QED BY <1>4, <1>5, <1>6, <1>7 DEF IInv

\* The file grows under the two passes: what was between them still is.
LEMMA PassesGrow ==
  ASSUME Typed, Typed', Passes, Below(main, main'), main[1] = FlushedRows => main'[1] = FlushedRows,
         UNCHANGED <<commits, pc, hashed, copied>>
  PROVE  Passes'
<1>1. ASSUME pc = "hashing" PROVE Below(hashed, main')
      BY <1>1, BelowTrans DEF Passes, Typed
<1>2. ASSUME NEW state \in commits, Between(state) PROVE Between(state)'
  <2>1. state \in Seq(Nat) /\ Below(state, main')
        BY <1>2, BelowTrans DEF Typed, Between
  <2> QED BY <1>2, <2>1 DEF Between, Below
<1>3. pc \in {"copying", "archived"} => \E state \in commits : Between(state)'
      BY <1>2 DEF Passes
<1>4. pc' = "hashing" => Below(hashed', main')
      BY <1>1
<1> QED BY <1>3, <1>4 DEF Passes, Below

\* One page of a checkpoint. Pages are moved in order, so none is skipped; the
\* last one makes the file the state after the last of the transactions.
LEMMA MovePageKeeps ==
  ASSUME IInv, MovePage PROVE IInv'
<1> DEFINE n      == Len(wal)
           target == wal[upto].state
<1>1. PICK page \in moving :
        /\ \A other \in moving : page <= other
        /\ main' = Written(main, {page}, target[page])
        /\ moving' = moving \ {page}
        /\ wal' = IF moving = {page} THEN SubSeq(wal, upto + 1, n) ELSE wal
        /\ upto' = IF moving = {page} THEN 0 ELSE upto
      BY DEF MovePage
<1>2. UNCHANGED <<commits, writes, pc, bytes, hashed, copied, archive, root, temporary, previous>>
      BY DEF MovePage
<1>3. /\ n \in Nat /\ upto \in 1..n /\ \A i \in 1..n : wal[i] \in Transactions
      /\ target \in Seq(Nat) /\ main \in Seq(Nat)
  <2>1. moving # {} /\ wal \in Seq(Transactions) /\ main \in Seq(Nat)
        BY DEF IInv, Typed, MovePage
  <2>2. upto \in 1..n
        BY <2>1 DEF IInv, File
  <2>3. n \in Nat /\ \A i \in 1..n : wal[i] \in Transactions
        BY <2>1
  <2>4. target \in Seq(Nat)
        BY <2>2, <2>3 DEF Transactions
  <2> QED BY <2>1, <2>2, <2>3, <2>4
<1>4. /\ moving \subseteq 1..Len(target) /\ Below(main, target) /\ target \in commits
      /\ Len(target) >= 1 /\ target[1] = FlushedRows
      /\ \A p \in 1..Len(target) : target[p] <= writes + 1
      /\ \A p \in 1..Len(target) : p \notin moving => p <= Len(main) /\ main[p] = target[p]
      /\ \A i \in 1..n : i >= upto => Below(main, wal[i].state)
  <2>1. moving # {}
        BY DEF MovePage
  <2>2. /\ target \in commits /\ Len(target) >= 1 /\ target[1] = FlushedRows
        /\ \A p \in 1..Len(target) : target[p] <= writes + 1
        BY <1>3 DEF IInv, Log
  <2>3. /\ moving \subseteq 1..Len(target)
        /\ \A p \in 1..Len(target) : p \notin moving => p <= Len(main) /\ main[p] = target[p]
        BY <2>1 DEF IInv, File
  <2>4. \A i \in 1..n : i >= upto => Below(main, wal[i].state)
        BY DEF IInv, File
  <2>5. Below(main, target)
        BY <1>3, <2>4
  <2> QED BY <2>2, <2>3, <2>4, <2>5
<1>5. /\ \A i \in 1..n : wal[i].state \in Seq(Nat) /\ (i >= upto => Below(target, wal[i].state))
      /\ \A j \in 1..n : j >= upto => Kept(upto, j)
      BY <1>3 DEF IInv, Log, Transactions
<1> HIDE DEF n, target
<1>6. page \in 1..Len(target) /\ page <= Len(main) + 1 /\ target[page] \in Nat
  <2>1. page \in 1..Len(target) /\ target[page] \in Nat /\ Len(main) \in Nat
        BY <1>1, <1>3, <1>4
  <2>2. ASSUME page > Len(main) + 1 PROVE FALSE
    <3>1. page - 1 \in 1..Len(target) /\ page - 1 \notin moving
          BY <1>1, <2>1, <2>2, <1>4
    <3> QED BY <3>1, <2>1, <2>2, <1>4
  <2> QED BY <2>1, <2>2
<1>7. {page} \in SUBSET (1..(Len(main) + 1))
      BY <1>6, <1>3
<1>8. /\ main' \in Seq(Nat) /\ Len(main) <= Len(main') /\ Len(main') <= Len(main) + 1
      /\ page \in 1..Len(main')
      /\ \A p \in 1..Len(main') :
           /\ p = page => main'[p] = target[page]
           /\ p # page => p <= Len(main) /\ main'[p] = main[p]
  <2> DEFINE value == target[page]
             pages == {page}
  <2>1. pages \in SUBSET (1..(Len(main) + 1)) /\ value \in Nat
        BY <1>6, <1>7
  <2> HIDE DEF pages, value
  <2>2. LET after == Written(main, pages, value)
        IN  /\ after \in Seq(Nat) /\ Len(main) <= Len(after) /\ Len(after) <= Len(main) + 1
            /\ pages \subseteq 1..Len(after)
            /\ \A p \in 1..Len(after) :
                 /\ p \in pages => after[p] = value
                 /\ p \notin pages => p <= Len(main) /\ after[p] = main[p]
        BY <1>3, <2>1, WrittenFacts
  <2>3. main' = Written(main, pages, value)
        BY <1>1 DEF pages, value
  <2> QED BY <2>2, <2>3 DEF pages, value
<1>9. Below(main, main')
  <2>1. ASSUME NEW p \in 1..Len(main) PROVE main[p] <= main'[p]
    <3>1. p \in 1..Len(main') /\ main[p] \in Nat
          BY <1>3, <1>8, SMTT(30)
    <3>2. CASE p = page
          BY <3>1, <3>2, <1>4, <1>8 DEF Below
    <3>3. CASE p # page
          BY <3>1, <3>3, <1>8
    <3> QED BY <3>2, <3>3
  <2> QED BY <2>1, <1>8 DEF Below
<1>10. Below(main', target)
  <2>1. Len(main') <= Len(target)
    <3>1. Len(main') <= Len(main) \/ Len(main') = page
          BY <1>3, <1>8
    <3> QED BY <3>1, <1>6, <1>4, <1>3, <1>8 DEF Below
  <2>2. ASSUME NEW p \in 1..Len(main') PROVE main'[p] <= target[p]
    <3>1. CASE p = page
          BY <3>1, <1>8, <1>6
    <3>2. CASE p # page
      <4>1. p \in 1..Len(main) /\ main'[p] = main[p]
            BY <3>2, <1>8
      <4> QED BY <4>1, <1>4 DEF Below
    <3> QED BY <3>1, <3>2
  <2> QED BY <2>1, <2>2 DEF Below
<1>11. \A p \in 1..Len(target) : p \notin moving' => p <= Len(main') /\ main'[p] = target[p]
  <2> SUFFICES ASSUME NEW p \in 1..Len(target), p \notin moving'
               PROVE  p <= Len(main') /\ main'[p] = target[p]
      OBVIOUS
  <2>1. CASE p = page
        BY <2>1, <1>8
  <2>2. CASE p # page
    <3>1. p \in 1..Len(main) /\ main[p] = target[p]
          BY <2>2, <1>1, <1>4
    <3> QED BY <3>1, <2>2, <1>8, <1>3, SMTT(30)
  <2> QED BY <2>1, <2>2
<1>12. Len(main') >= 1 /\ \A p \in 1..Len(main') : main'[p] <= writes' + 1
  <2>1. Len(main) >= 1 /\ \A p \in 1..Len(main) : main[p] <= writes + 1
        BY DEF IInv, File
  <2>2. ASSUME NEW p \in 1..Len(main') PROVE main'[p] <= writes + 1
    <3>1. CASE p = page
          BY <3>1, <1>4, <1>6, <1>8
    <3>2. CASE p # page
          BY <3>2, <2>1, <1>8
    <3> QED BY <3>1, <3>2
  <2>3. Len(main') >= 1
        BY <2>1, <1>3, <1>8
  <2> QED BY <2>2, <2>3, <1>2
<1>13. main[1] = FlushedRows => main'[1] = FlushedRows
  <2>1. 1 \in 1..Len(main')
        BY <1>12, <1>8
  <2> QED BY <2>1, <1>8, <1>4
<1>14. \A i \in 1..n : i >= upto => Below(main', wal[i].state)
       BY <1>3, <1>5, <1>8, <1>10, BelowTrans
<1>15. CASE moving = {page}
  <2> DEFINE rest == SubSeq(wal, upto + 1, n)
  <2>1. moving' = {} /\ wal' = rest /\ upto' = 0
        BY <1>1, <1>15
  <2>2. /\ rest \in Seq(Transactions) /\ Len(rest) = n - upto
        /\ \A i \in 1..(n - upto) : rest[i] = wal[upto + i]
        BY <1>3 DEF n, IInv, Typed
  <2> HIDE DEF rest
  <2>3. main' = target
    <3>1. \A p \in 1..Len(target) : p <= Len(main') /\ main'[p] = target[p]
          BY <1>11, <2>1
    <3>2. Len(main') = Len(target)
      <4>1. Len(target) \in 1..Len(target)
            BY <1>3, <1>4
      <4>2. Len(target) <= Len(main')
            BY <3>1, <4>1
      <4>3. Len(main') <= Len(target) /\ Len(main') \in Nat /\ Len(target) \in Nat
            BY <1>10, <1>3, <1>8 DEF Below
      <4> QED BY <4>2, <4>3
    <3> QED BY <3>1, <3>2, <1>3, <1>8, SamePages
  <2>4. Len(wal') = n - upto /\ \A i \in 1..Len(wal') : wal'[i] = wal[upto + i] /\ upto + i \in 1..n
    <3>1. Len(wal') = n - upto /\ upto \in Nat /\ n \in Nat /\ upto <= n
          BY <1>3, <2>1, <2>2
    <3>2. ASSUME NEW i \in 1..Len(wal') PROVE wal'[i] = wal[upto + i] /\ upto + i \in 1..n
          BY <2>1, <2>2, <3>1
    <3> QED BY <3>1, <3>2
  <2>5. Typed'
        BY <1>2, <1>8, <2>1, <2>2 DEF IInv, Typed
  <2>6. Log'
    <3>1. \A i \in 1..Len(wal') :
            /\ wal'[i].state \in commits' /\ wal'[i].pages \subseteq 1..Len(wal'[i].state)
            /\ Len(wal'[i].state) >= 1 /\ wal'[i].state[1] = FlushedRows
            /\ \A p \in 1..Len(wal'[i].state) : wal'[i].state[p] <= writes' + 1
          BY <1>2, <2>4 DEF IInv, Log, n
    <3>2. ASSUME NEW i \in 1..Len(wal'), NEW j \in 1..Len(wal'), i <= j
          PROVE  Below(wal'[i].state, wal'[j].state) /\ Kept(i, j)'
      <4>1. upto + i \in 1..n /\ upto + j \in 1..n /\ upto + i <= upto + j
            BY <2>4, <3>2, <1>3
      <4>2. Below(wal[upto + i].state, wal[upto + j].state) /\ Kept(upto + i, upto + j)
            BY <4>1 DEF IInv, Log, n
      <4>3. ASSUME NEW p, \A k \in (i + 1)..j : p \notin wal'[k].pages
            PROVE  \A k \in (upto + i + 1)..(upto + j) : p \notin wal[k].pages
        <5> SUFFICES ASSUME NEW k \in (upto + i + 1)..(upto + j) PROVE p \notin wal[k].pages
            OBVIOUS
        <5>1. k - upto \in (i + 1)..j /\ k - upto \in 1..Len(wal') /\ upto + (k - upto) = k
              BY <1>3, <2>4, <3>2
        <5> QED BY <5>1, <4>3, <2>4
      <4> QED BY <2>4, <4>2, <4>3 DEF Kept
    <3> QED BY <3>1, <3>2 DEF Log
  <2>7. File'
    <3>1. ASSUME NEW j \in 1..Len(wal'), NEW p \in 1..Len(wal'[j].state),
                 \A k \in 1..j : p \notin wal'[k].pages
          PROVE  p <= Len(main') /\ main'[p] = wal'[j].state[p]
      <4>1. upto + j \in 1..n /\ wal'[j] = wal[upto + j] /\ Kept(upto, upto + j)
            BY <1>3, <1>5, <2>4
      <4>2. ASSUME NEW k \in (upto + 1)..(upto + j) PROVE p \notin wal[k].pages
        <5>1. k - upto \in 1..j /\ k - upto \in 1..Len(wal') /\ upto + (k - upto) = k
              BY <1>3, <2>4, SMTT(30)
        <5> QED BY <5>1, <3>1, <2>4
      <4> QED BY <4>1, <4>2, <2>3 DEF Kept, target
    <3>2. \A i \in 1..Len(wal') : Below(main', wal'[i].state)
          BY <1>14, <2>4, <1>3, SMTT(30)
    <3>3. main' \in commits' /\ main'[1] = FlushedRows
          BY <2>3, <1>2, <1>4
    <3> QED BY <1>12, <2>1, <3>1, <3>2, <3>3 DEF File, Below
  <2>8. Passes'
        BY <1>2, <1>9, <1>13, <2>5, PassesGrow DEF IInv
  <2> QED BY <1>2, <2>5, <2>6, <2>7, <2>8
          DEF IInv, Archived, Placed, RestoredIsCommitted, VerifyManifest
<1>16. CASE moving # {page}
  <2>1. wal' = wal /\ upto' = upto /\ moving' = moving \ {page} /\ moving' # {}
        BY <1>1, <1>16
  <2>2. Typed'
        BY <1>2, <1>8, <2>1 DEF IInv, Typed
  <2>3. Log'
        BY <1>2, <2>1, LogUnchanged DEF IInv
  <2>4. File'
    <3>1. wal # <<>>
          BY <1>3 DEF n
    <3> QED BY <1>3, <1>4, <1>11, <1>12, <1>14, <2>1, <3>1 DEF File, Below, n, target
  <2>5. Passes'
        BY <1>2, <1>9, <1>13, <2>2, PassesGrow DEF IInv
  <2> QED BY <1>2, <2>2, <2>3, <2>4, <2>5
          DEF IInv, Archived, Placed, RestoredIsCommitted, VerifyManifest
<1> QED BY <1>15, <1>16

\* wal_checkpoint(TRUNCATE): the file is the current state, and the log is empty.
LEMMA CheckpointKeeps ==
  ASSUME IInv, Checkpoint PROVE IInv'
<1>1. /\ pc = "flushed" /\ moving = {} /\ main' = Current /\ wal' = <<>> /\ pc' = "opening"
      /\ UNCHANGED <<moving, upto, commits, writes, bytes, hashed, copied, archive, root, temporary, previous>>
      BY DEF Checkpoint, Db
<1>2. /\ Current \in Seq(Nat) /\ Len(Current) >= 1 /\ Current[1] = FlushedRows
      /\ \A p \in 1..Len(Current) : Current[p] <= writes + 1
      /\ Current \in commits
      BY CurrentFacts DEF IInv
<1>3. wal' \in Seq(Transactions) /\ Len(wal') = 0
      BY <1>1
<1>4. Typed'
      BY <1>1, <1>2, <1>3 DEF IInv, Typed
<1>5. Log'
      BY <1>3 DEF Log
<1>6. File'
      BY <1>1, <1>2, <1>3 DEF File
<1>7. Passes'
      BY <1>1, <1>2 DEF IInv, Passes
<1>8. Archived' /\ Placed'
      BY <1>1 DEF IInv, Archived, Placed, RestoredIsCommitted, VerifyManifest
<1> QED BY <1>4, <1>5, <1>6, <1>7, <1>8 DEF IInv

\* Nothing the job store's connection writes is changed.
LEMMA FileUnchanged ==
  ASSUME Log, File, UNCHANGED <<main, wal, moving, upto, commits, writes>>
  PROVE  Log' /\ File'
<1>1. Log'
      BY LogUnchanged
<1> QED BY <1>1 DEF File, Below

\* A page read into a copy of the file: the copy is one page longer.
LEMMA ReadFacts ==
  ASSUME NEW s \in Seq(Nat), NEW file \in Seq(Nat), Len(s) < Len(file)
  PROVE  LET t == Append(s, file[Len(s) + 1])
         IN  /\ t \in Seq(Nat) /\ Len(t) = Len(s) + 1 /\ t[Len(s) + 1] = file[Len(s) + 1]
             /\ \A p \in 1..Len(s) : t[p] = s[p]
OBVIOUS

\* append_file before and while it reads the file for the manifest. The pass
\* ends when no checkpoint is under way, so the file is then a committed state.
LEMMA HashKeeps ==
  ASSUME IInv, SlowCheckpoint = FALSE, OpenFile \/ HashPage PROVE IInv'
<1>1. UNCHANGED <<main, wal, moving, upto, commits, writes, copied, archive, root, temporary, previous>>
      BY DEF OpenFile, HashPage, Db
<1>2. Log' /\ File'
      BY <1>1, FileUnchanged DEF IInv
<1>3. main \in Seq(Nat) /\ hashed \in Seq(Nat) /\ main \in commits /\ Len(main) >= 1
      BY DEF IInv, Typed, File, OpenFile, HashPage, Readable
<1>4. CASE OpenFile
  <2>1. pc = "opening" /\ pc' = "hashing" /\ hashed' = hashed /\ hashed = <<>> /\ bytes' = Len(main)
        BY <1>4 DEF OpenFile, IInv, Passes
  <2>2. Below(hashed', main')
        BY <2>1, <1>1, <1>3 DEF Below
  <2>3. Typed' /\ Passes'
        BY <2>1, <2>2, <1>1, <1>3 DEF IInv, Typed, Passes
  <2> QED BY <2>1, <2>3, <1>1, <1>2 DEF IInv, Archived, Placed, RestoredIsCommitted, VerifyManifest
<1>5. CASE HashPage /\ Len(hashed) < Len(main)
  <2>1. pc = "hashing" /\ pc' = "hashing" /\ hashed' = Append(hashed, main[Len(hashed) + 1]) /\ bytes' = bytes
        BY <1>5 DEF HashPage
  <2>2. /\ hashed' \in Seq(Nat) /\ Len(hashed') = Len(hashed) + 1
        /\ hashed'[Len(hashed) + 1] = main[Len(hashed) + 1]
        /\ \A p \in 1..Len(hashed) : hashed'[p] = hashed[p]
        BY <2>1, <1>3, <1>5, ReadFacts
  <2>3. Below(hashed, main)
        BY <2>1 DEF IInv, Passes
  <2>4. Below(hashed', main')
    <3>1. ASSUME NEW p \in 1..Len(hashed') PROVE hashed'[p] <= main[p]
      <4>1. CASE p \in 1..Len(hashed)
            BY <4>1, <2>2, <2>3 DEF Below
      <4>2. CASE p = Len(hashed) + 1
        <5>1. main[p] \in Nat /\ hashed'[p] = main[p]
              BY <4>2, <2>2, <1>3, <1>5
        <5> QED BY <5>1
      <4> QED BY <4>1, <4>2, <2>2, <1>3
    <3> QED BY <3>1, <2>2, <1>1, <1>3, <1>5 DEF Below
  <2>5. Typed' /\ Passes'
        BY <2>1, <2>2, <2>4, <1>1 DEF IInv, Typed, Passes
  <2> QED BY <2>1, <2>5, <1>1, <1>2 DEF IInv, Archived, Placed, RestoredIsCommitted, VerifyManifest
<1>6. CASE HashPage /\ ~(Len(hashed) < Len(main))
  <2>1. pc = "hashing" /\ pc' = "copying" /\ hashed' = hashed /\ bytes' = bytes
        BY <1>6 DEF HashPage
  <2>2. Below(hashed, main) /\ main[1] = FlushedRows /\ copied = <<>>
        BY <2>1 DEF IInv, Passes
  <2>3. Len(hashed) = Len(main)
        BY <2>2, <1>3, <1>6 DEF Below
  <2>4. Between(main)'
        BY <2>1, <2>2, <2>3, <1>1, <1>3, BelowRefl DEF Between, Below
  <2>5. Passes'
    <3>1. \E state \in commits' : Between(state)'
          BY <2>4, <1>1, <1>3
    <3> QED BY <2>1, <2>2, <1>1, <3>1 DEF Passes
  <2>6. Typed'
        BY <2>1, <1>1 DEF IInv, Typed
  <2> QED BY <2>1, <2>5, <2>6, <1>1, <1>2 DEF IInv, Archived, Placed, RestoredIsCommitted, VerifyManifest
<1> QED BY <1>4, <1>5, <1>6

\* The second pass: when it agrees with the first, both are the state between them.
LEMMA CopyKeeps ==
  ASSUME IInv, CopyPage PROVE IInv'
<1>1. /\ UNCHANGED <<main, wal, moving, upto, commits, writes, bytes, hashed, root, temporary, previous>>
      /\ pc = "copying" /\ main \in Seq(Nat) /\ copied \in Seq(Nat) /\ hashed \in Seq(Nat) /\ bytes \in Nat
      BY DEF CopyPage, Db, IInv, Typed
<1>2. Log' /\ File'
      BY <1>1, FileUnchanged DEF IInv
<1>3. PICK state \in commits : Between(state)
      BY <1>1 DEF IInv, Passes
<1>4. state \in Seq(Nat) /\ main[1] = FlushedRows
      BY <1>1 DEF IInv, Typed, Passes
<1>5. CASE Len(copied) < Len(main)
  <2>1. pc' = "copying" /\ copied' = Append(copied, main[Len(copied) + 1]) /\ archive' = archive
        BY <1>5, <1>1 DEF CopyPage
  <2>2. /\ copied' \in Seq(Nat) /\ Len(copied') = Len(copied) + 1
        /\ copied'[Len(copied) + 1] = main[Len(copied) + 1]
        /\ \A p \in 1..Len(copied) : copied'[p] = copied[p]
        BY <2>1, <1>1, <1>5, ReadFacts
  <2>3. ASSUME NEW p \in 1..Len(state), p <= Len(copied') PROVE state[p] <= copied'[p]
    <3>1. CASE p \in 1..Len(copied)
          BY <3>1, <2>2, <1>3 DEF Between
    <3>2. CASE p = Len(copied) + 1
          BY <3>2, <2>2, <1>3 DEF Between, Below
    <3> QED BY <3>1, <3>2, <2>2, <2>3, <1>1
  <2>4. Between(state)'
        BY <2>3, <1>1, <1>3 DEF Between, Below
  <2>5. Passes'
        BY <2>1, <2>4, <1>1, <1>4 DEF Passes
  <2>6. Typed'
        BY <2>1, <2>2, <1>1 DEF IInv, Typed
  <2> QED BY <2>1, <2>5, <2>6, <1>1, <1>2 DEF IInv, Archived, Placed, RestoredIsCommitted, VerifyManifest
<1>6. CASE ~(Len(copied) < Len(main))
  <2> DEFINE made == [pages |-> copied, bytes |-> bytes, sha256 |-> hashed, index |-> FlushedRows]
  <2>1. pc' = "archived" /\ copied' = copied /\ archive' = made
        BY <1>6, <1>1 DEF CopyPage
  <2>2. Passes'
        BY <2>1, <1>1, <1>3, <1>4 DEF Passes, Between, Below
  <2>3. made \in Archives /\ made.pages = copied /\ made.sha256 = hashed
        BY <1>1 DEF Archives
  <2> HIDE DEF made
  <2>4. Typed'
        BY <2>1, <2>3, <1>1 DEF IInv, Typed
  <2>5. ASSUME VerifyManifest(made) PROVE made.pages \in commits /\ made.pages[1] = FlushedRows
    <3>1. copied = hashed
          BY <2>5, <2>3 DEF VerifyManifest
    <3>2. Len(copied) = Len(state)
          BY <3>1, <1>3 DEF Between
    <3>3. ASSUME NEW p \in 1..Len(copied) PROVE copied[p] = state[p]
      <4>1. copied[p] \in Nat /\ state[p] \in Nat
            BY <1>1, <1>4, <3>2, SMTT(30)
      <4>2. copied[p] <= state[p]
            BY <3>1, <1>3 DEF Between, Below
      <4>3. state[p] <= copied[p]
            BY <3>2, <1>3 DEF Between
      <4> QED BY <4>1, <4>2, <4>3
    <3>4. copied = state
          BY <3>2, <3>3, <1>1, <1>4, SamePages
    <3> QED BY <3>4, <2>3, <1>3 DEF Between
  <2>6. Archived'
        BY <2>1, <2>5, <1>1 DEF Archived, VerifyManifest
  <2>7. Placed'
        BY <2>1, <1>1 DEF IInv, Placed, RestoredIsCommitted
  <2> QED BY <1>2, <2>2, <2>4, <2>6, <2>7 DEF IInv
<1> QED BY <1>5, <1>6

\* The end of the backup, and the steps of a restore: only what is archived and
\* verified becomes a directory.
LEMMA RestoreKeeps ==
  ASSUME IInv,
         \/ BackupFails \/ Stop \/ StartRestore \/ Crash \/ OpenRoot \/ CleanUp
         \/ \E ok \in BOOLEAN : Stage(ok) \/ MoveAside(ok) \/ RemovePrevious(ok)
         \/ \E ok \in BOOLEAN, undone \in BOOLEAN : MoveIn(ok, undone)
  PROVE  IInv'
<1>1. UNCHANGED <<main, wal, moving, upto, commits, writes, bytes, hashed, copied>>
      BY DEF BackupFails, Stop, StartRestore, Crash, OpenRoot, CleanUp, Stage, MoveAside, RemovePrevious,
             MoveIn, Db, Backups
<1>2. Log' /\ File'
      BY <1>1, FileUnchanged DEF IInv
<1>3. (archive' = archive \/ archive' = None) /\ pc' \notin {"flushed", "opening", "hashing", "copying", "archived"}
      BY DEF BackupFails, Stop, StartRestore, Crash, OpenRoot, CleanUp, Stage, MoveAside, RemovePrevious,
             MoveIn, Abandon, Db, Backups
<1>4. Typed' /\ Passes' /\ Archived'
      BY <1>1, <1>3 DEF IInv, Typed, Passes, Archived, VerifyManifest
<1>5. Placed'
  <2>1. CASE BackupFails \/ Stop \/ StartRestore \/ Crash \/ OpenRoot \/ CleanUp
        BY <2>1, Kinds DEF IInv, Placed, RestoredIsCommitted,
             BackupFails, Stop, StartRestore, Crash, OpenRoot, CleanUp, Db, Backups
  <2>2. ASSUME NEW ok \in BOOLEAN, Stage(ok) PROVE Placed'
    <3>1. pc = "staging" /\ archive # None /\ UNCHANGED <<root, previous, archive, commits>>
          /\ pc' # "staging"
          BY <2>2 DEF Stage, Abandon, Backups, IInv, Placed
    <3>2. CASE temporary' = None
          BY <3>1, <3>2, Kinds DEF IInv, Placed, RestoredIsCommitted
    <3>3. CASE temporary' = Database(archive.pages, archive.index) /\ VerifyManifest(archive)
      <4>1. archive.pages \in commits /\ archive.pages[1] = archive.index
            BY <3>1, <3>3 DEF IInv, Archived, Typed, Archives
      <4>2. temporary'.pages = archive.pages /\ temporary'.index = archive.index
            BY <3>3 DEF Database
      <4> QED BY <3>1, <4>1, <4>2 DEF IInv, Placed, RestoredIsCommitted
    <3> QED BY <2>2, <3>2, <3>3 DEF Stage, Abandon
  <2>3. ASSUME NEW ok \in BOOLEAN, MoveAside(ok) \/ RemovePrevious(ok) PROVE Placed'
        BY <2>3, Kinds DEF IInv, Placed, RestoredIsCommitted, MoveAside, RemovePrevious, Abandon, Backups
  <2>4. ASSUME NEW ok \in BOOLEAN, NEW undone \in BOOLEAN, MoveIn(ok, undone) PROVE Placed'
        BY <2>4, Kinds DEF IInv, Placed, RestoredIsCommitted, MoveIn, Backups
  <2> QED BY <2>1, <2>2, <2>3, <2>4
<1> QED BY <1>2, <1>4, <1>5 DEF IInv

LEMMA InitIInv == Init => IInv
<1> SUFFICES ASSUME Init PROVE IInv
    OBVIOUS
<1> DEFINE first == <<FlushedRows, 0, 0>>
           entry == [pages |-> {1}, state |-> first]
<1>1. main = <<0, 0, 0>> /\ wal = <<entry>> /\ commits = {<<0, 0, 0>>, first} /\ moving = {} /\ writes = 0
      BY DEF Init
<1>2. /\ first \in Seq(Nat) /\ Len(first) = 3 /\ first[1] = FlushedRows
      /\ first[1] = 1 /\ first[2] = 0 /\ first[3] = 0
      BY DEF FlushedRows
<1>3. main \in Seq(Nat) /\ Len(main) = 3 /\ main[1] = 0 /\ main[2] = 0 /\ main[3] = 0
      BY <1>1
<1> HIDE DEF first
<1>4. entry \in Transactions /\ entry.pages = {1} /\ entry.state = first
      BY <1>2 DEF Transactions
<1> HIDE DEF entry
<1>5. wal \in Seq(Transactions) /\ Len(wal) = 1 /\ wal[1] = entry
      BY <1>1, <1>4
<1>6. Typed
      BY <1>1, <1>2, <1>3, <1>5 DEF Init, Typed
<1>7. Log
  <2>1. \A i \in 1..Len(wal) : i = 1
        BY <1>5
  <2>2. Below(first, first)
        BY <1>2, BelowRefl
  <2>3. \A p \in 1..3 : first[p] <= writes + 1
        BY <1>1, <1>2
  <2> QED BY <1>1, <1>2, <1>4, <1>5, <2>1, <2>2, <2>3 DEF Log, Kept
<1>8. File
  <2>1. \A i \in 1..Len(wal) : i = 1
        BY <1>5
  <2>2. Below(main, first)
        BY <1>2, <1>3 DEF Below
  <2>3. ASSUME NEW p \in 1..Len(first), p \notin entry.pages PROVE p <= Len(main) /\ main[p] = first[p]
        BY <1>2, <1>3, <1>4, <2>3
  <2>4. /\ wal # <<>> /\ main \in commits
        /\ \A p \in 1..Len(main) : main[p] <= writes + 1
        BY <1>1, <1>3, <1>5
  <2> QED BY <1>1, <1>3, <1>4, <1>5, <2>1, <2>2, <2>3, <2>4 DEF File
<1>9. Passes /\ Archived
      BY DEF Init, Passes, Archived
<1>10. Placed
       BY Kinds DEF Init, Placed, RestoredIsCommitted
<1> QED BY <1>6, <1>7, <1>8, <1>9, <1>10 DEF IInv

LEMMA NextIInv ==
  ASSUME SlowCheckpoint = FALSE, IInv, [Next]_vars PROVE IInv'
<1>1. CASE \E leaf \in 2..(Len(Current) + 1) : JobWrite(leaf)
      BY <1>1, JobWriteKeeps
<1>2. CASE StartCheckpoint
      BY <1>2, StartCheckpointKeeps
<1>3. CASE MovePage
      BY <1>3, MovePageKeeps
<1>4. CASE Checkpoint
      BY <1>4, CheckpointKeeps
<1>5. CASE OpenFile \/ HashPage
      BY <1>5, HashKeeps
<1>6. CASE CopyPage
      BY <1>6, CopyKeeps
<1>7. CASE \/ BackupFails \/ Stop \/ StartRestore \/ Crash \/ OpenRoot \/ CleanUp
           \/ \E ok \in BOOLEAN : Stage(ok) \/ MoveAside(ok) \/ RemovePrevious(ok)
           \/ \E ok \in BOOLEAN, undone \in BOOLEAN : MoveIn(ok, undone)
      BY <1>7, RestoreKeeps
<1>8. CASE UNCHANGED vars
  <2>1. Log' /\ File'
        BY <1>8, FileUnchanged DEF IInv, vars
  <2> QED BY <1>8, <2>1 DEF IInv, vars, Typed, Passes, Between, Below, Archived, Placed,
             RestoredIsCommitted, VerifyManifest
<1> QED BY <1>1, <1>2, <1>3, <1>4, <1>5, <1>6, <1>7, <1>8 DEF Next

(***************************************************************************)
(* A restored database is a committed state with the flushed rows that its *)
(* indexes have, however many transactions and checkpoints of the job      *)
(* store run while append_file reads the file twice, as long as each page  *)
(* is read while no checkpoint is half-way: then two passes that           *)
(* verify_manifest finds equal are the file as it was between them.        *)
(***************************************************************************)
THEOREM RestoresCommittedState ==
  ASSUME SlowCheckpoint = FALSE
  PROVE  Spec => []RestoredIsCommitted
<1>1. IInv /\ [Next]_vars => IInv'
      BY NextIInv
<1>2. IInv => RestoredIsCommitted
      BY DEF IInv, Placed
<1> QED BY <1>1, <1>2, InitIInv, PTL DEF Spec

=============================================================================
