-------------------------- MODULE IndexFilesProofs --------------------------
(***************************************************************************)
(* For every set of tables, none of which is named "<other>.retired": the  *)
(* crash safety of the generation swap.                                    *)
(***************************************************************************)
EXTENDS IndexFiles, TLAPS

\* The three paths of a table are paths, and two paths are equal only if they
\* are the same path of the same table.
LEMMA DistinctPaths ==
    ASSUME Dotted \notin Tables, NEW t \in Tables
    PROVE  /\ Final(t) \in Paths /\ Building(t) \in Paths /\ Retired(t) \in Paths
           /\ Final(t).table = t /\ Building(t).table = t /\ Retired(t).table = t
           /\ Final(t).role = "final" /\ Building(t).role = "building"
           /\ Retired(t).role = "retired"
           /\ \A u \in Tables : Final(u) = Final(t) => u = t
           /\ \A p \in Paths : p.role = "final" => p = Final(p.table)
           /\ \A p \in Paths : p.role = "building" => p = Building(p.table)
           /\ \A p \in Paths : p.role = "retired" => p = Retired(p.table)
  BY DEF Final, Building, Retired, Paths

\* The initial state satisfies the invariant.
LEMMA InitIInv == Init => IInv
  BY Contents DEF Init, IInv, TypeOK, CleanIsComplete, LeftoversMarked, Phase, Steps, Rebuilding

\* Every step preserves the invariant.
LEMMA NextIInv ==
    ASSUME Dotted \notin Tables, IInv, [Next]_vars PROVE IInv'
PROOF
<1> USE Contents
<1>1. CASE UNCHANGED vars
  BY <1>1 DEF vars, IInv, TypeOK, CleanIsComplete, LeftoversMarked, Phase
<1>2. ASSUME NEW t \in Tables, Create(t) \/ Supersede(t) PROVE IInv'
  <2>1. IInv /\ dir' = Superseded(t) /\ catalog' = [catalog EXCEPT ![t] = "dirty"]
        /\ cur' = t /\ pc' = "clear" /\ had' = had /\ after' = after
    BY <1>2 DEF Create, Supersede, Goto
  <2>2. TypeOK'
    BY <2>1 DEF IInv, TypeOK, Superseded, Steps, Rebuilding, Generation, Paths
  <2>3. \A p \in Paths : dir[p] = NoDir <=> dir'[p] = NoDir
    BY <2>1 DEF IInv, TypeOK, Superseded, Generation
  <2>4. CleanIsComplete'
    BY <2>1, DistinctPaths DEF IInv, TypeOK, CleanIsComplete, Superseded, Generation
  <2>5. LeftoversMarked'
    BY <2>1, <2>3, DistinctPaths DEF IInv, TypeOK, LeftoversMarked, Paths
  <2>6. Phase'
    BY <2>1 DEF IInv, TypeOK, Phase, Rebuilding
  <2> QED
    BY <2>2, <2>4, <2>5, <2>6 DEF IInv
<1>3. ASSUME NEW t \in Tables, Drop(t) PROVE IInv'
  <2>1. TypeOK'
    BY <1>3, DistinctPaths DEF Drop, IInv, TypeOK, Phase, Steps, Rebuilding, Generation, Goto, Return
  <2>2. CleanIsComplete'
    BY <1>3, DistinctPaths DEF Drop, IInv, TypeOK, CleanIsComplete, Phase, Steps, Rebuilding, Goto, Return
  <2>3. LeftoversMarked'
    BY <1>3, DistinctPaths DEF Drop, IInv, TypeOK, LeftoversMarked, Phase, Steps, Rebuilding, Goto, Return, Paths
  <2>4. Phase'
    BY <1>3, DistinctPaths DEF Drop, IInv, TypeOK, Phase, Steps, Rebuilding, Goto, Return
  <2> QED
    BY <2>1, <2>2, <2>3, <2>4 DEF IInv
<1>4. ASSUME NEW t \in Tables, RecoverTable(t) PROVE IInv'
  <2>1. TypeOK'
    BY <1>4, DistinctPaths DEF RecoverTable, IInv, TypeOK, Phase, Steps, Rebuilding, Generation, Goto, Return
  <2>2. CleanIsComplete'
    BY <1>4, DistinctPaths DEF RecoverTable, IInv, TypeOK, CleanIsComplete, Phase, Steps, Rebuilding, Goto, Return
  <2>3. LeftoversMarked'
    BY <1>4, DistinctPaths DEF RecoverTable, IInv, TypeOK, LeftoversMarked, Phase, Steps, Rebuilding, Goto, Return, Paths
  <2>4. Phase'
    BY <1>4, DistinctPaths DEF RecoverTable, IInv, TypeOK, Phase, Steps, Rebuilding, Goto, Return
  <2> QED
    BY <2>1, <2>2, <2>3, <2>4 DEF IInv
<1>5. CASE Unlink
  <2>1. TypeOK'
    BY <1>5, DistinctPaths DEF Unlink, IInv, TypeOK, Phase, Steps, Rebuilding, Generation, Goto, Return
  <2>2. CleanIsComplete'
    BY <1>5, DistinctPaths DEF Unlink, IInv, TypeOK, CleanIsComplete, Phase, Steps, Rebuilding, Goto, Return
  <2>3. LeftoversMarked'
    BY <1>5, DistinctPaths DEF Unlink, IInv, TypeOK, LeftoversMarked, Phase, Steps, Rebuilding, Goto, Return, Paths
  <2>4. Phase'
    BY <1>5, DistinctPaths DEF Unlink, IInv, TypeOK, Phase, Steps, Rebuilding, Goto, Return
  <2> QED
    BY <2>1, <2>2, <2>3, <2>4 DEF IInv
<1>6. CASE Recover
  <2>1. TypeOK'
    BY <1>6, DistinctPaths DEF Recover, IInv, TypeOK, Phase, Steps, Rebuilding, Generation, Goto, Return
  <2>2. CleanIsComplete'
    BY <1>6, DistinctPaths DEF Recover, IInv, TypeOK, CleanIsComplete, Phase, Steps, Rebuilding, Goto, Return
  <2>3. LeftoversMarked'
    BY <1>6, DistinctPaths DEF Recover, IInv, TypeOK, LeftoversMarked, Phase, Steps, Rebuilding, Goto, Return, Paths
  <2>4. Phase'
    BY <1>6, DistinctPaths DEF Recover, IInv, TypeOK, Phase, Steps, Rebuilding, Goto, Return
  <2> QED
    BY <2>1, <2>2, <2>3, <2>4 DEF IInv
<1>7. CASE Recovered
  <2>1. TypeOK'
    BY <1>7, DistinctPaths DEF Recovered, IInv, TypeOK, Phase, Steps, Rebuilding, Generation, Goto, Return
  <2>2. CleanIsComplete'
    BY <1>7, DistinctPaths DEF Recovered, IInv, TypeOK, CleanIsComplete, Phase, Steps, Rebuilding, Goto, Return
  <2>3. LeftoversMarked'
    BY <1>7, DistinctPaths DEF Recovered, IInv, TypeOK, LeftoversMarked, Phase, Steps, Rebuilding, Goto, Return, Paths
  <2>4. Phase'
    BY <1>7, DistinctPaths DEF Recovered, IInv, TypeOK, Phase, Steps, Rebuilding, Goto, Return
  <2> QED
    BY <2>1, <2>2, <2>3, <2>4 DEF IInv
<1>8. CASE ClearBuilding
  <2>1. TypeOK'
    BY <1>8, DistinctPaths DEF ClearBuilding, IInv, TypeOK, Phase, Steps, Rebuilding, Generation, Goto, Return
  <2>2. CleanIsComplete'
    BY <1>8, DistinctPaths DEF ClearBuilding, IInv, TypeOK, CleanIsComplete, Phase, Steps, Rebuilding, Goto, Return
  <2>3. LeftoversMarked'
    BY <1>8, DistinctPaths DEF ClearBuilding, IInv, TypeOK, LeftoversMarked, Phase, Steps, Rebuilding, Goto, Return, Paths
  <2>4. Phase'
    BY <1>8, DistinctPaths DEF ClearBuilding, IInv, TypeOK, Phase, Steps, Rebuilding, Goto, Return
  <2> QED
    BY <2>1, <2>2, <2>3, <2>4 DEF IInv
<1>9. CASE Build
  <2>1. TypeOK'
    BY <1>9, DistinctPaths DEF Build, IInv, TypeOK, Phase, Steps, Rebuilding, Generation, Goto, Return
  <2>2. CleanIsComplete'
    BY <1>9, DistinctPaths DEF Build, IInv, TypeOK, CleanIsComplete, Phase, Steps, Rebuilding, Goto, Return
  <2>3. LeftoversMarked'
    BY <1>9, DistinctPaths DEF Build, IInv, TypeOK, LeftoversMarked, Phase, Steps, Rebuilding, Goto, Return, Paths
  <2>4. Phase'
    BY <1>9, DistinctPaths DEF Build, IInv, TypeOK, Phase, Steps, Rebuilding, Goto, Return
  <2> QED
    BY <2>1, <2>2, <2>3, <2>4 DEF IInv
<1>10. CASE VacateRetired
  <2>1. TypeOK'
    BY <1>10, DistinctPaths DEF VacateRetired, IInv, TypeOK, Phase, Steps, Rebuilding, Generation, Goto, Return
  <2>2. CleanIsComplete'
    BY <1>10, DistinctPaths DEF VacateRetired, IInv, TypeOK, CleanIsComplete, Phase, Steps, Rebuilding, Goto, Return
  <2>3. LeftoversMarked'
    BY <1>10, DistinctPaths DEF VacateRetired, IInv, TypeOK, LeftoversMarked, Phase, Steps, Rebuilding, Goto, Return, Paths
  <2>4. Phase'
    BY <1>10, DistinctPaths DEF VacateRetired, IInv, TypeOK, Phase, Steps, Rebuilding, Goto, Return
  <2> QED
    BY <2>1, <2>2, <2>3, <2>4 DEF IInv
<1>11. CASE Retire
  <2>1. TypeOK'
    BY <1>11, DistinctPaths DEF Retire, IInv, TypeOK, Phase, Steps, Rebuilding, Generation, Goto, Return
  <2>2. CleanIsComplete'
    BY <1>11, DistinctPaths DEF Retire, IInv, TypeOK, CleanIsComplete, Phase, Steps, Rebuilding, Goto, Return
  <2>3. LeftoversMarked'
    BY <1>11, DistinctPaths DEF Retire, IInv, TypeOK, LeftoversMarked, Phase, Steps, Rebuilding, Goto, Return, Paths
  <2>4. Phase'
    BY <1>11, DistinctPaths DEF Retire, IInv, TypeOK, Phase, Steps, Rebuilding, Goto, Return
  <2> QED
    BY <2>1, <2>2, <2>3, <2>4 DEF IInv
<1>12. CASE Install
  <2>1. TypeOK'
    BY <1>12, DistinctPaths DEF Install, IInv, TypeOK, Phase, Steps, Rebuilding, Generation, Goto, Return
  <2>2. CleanIsComplete'
    BY <1>12, DistinctPaths DEF Install, IInv, TypeOK, CleanIsComplete, Phase, Steps, Rebuilding, Goto, Return
  <2>3. LeftoversMarked'
    <3>1. cur \in Tables /\ catalog' = catalog /\ catalog[cur] = "dirty"
      BY <1>12 DEF Install, IInv, TypeOK, Phase, Rebuilding, Goto, Return
    <3>2. \A p \in Paths : p.table # cur => dir'[p] = dir[p]
      BY <1>12, <3>1, DistinctPaths DEF Install, IInv, TypeOK, Goto, Return
    <3> QED
      BY <3>1, <3>2 DEF IInv, LeftoversMarked
  <2>4. Phase'
    BY <1>12, DistinctPaths DEF Install, IInv, TypeOK, Phase, Steps, Rebuilding, Goto, Return
  <2> QED
    BY <2>1, <2>2, <2>3, <2>4 DEF IInv
<1>13. CASE RollBack
  <2>1. TypeOK'
    BY <1>13, DistinctPaths DEF RollBack, IInv, TypeOK, Phase, Steps, Rebuilding, Generation, Goto, Return
  <2>2. CleanIsComplete'
    BY <1>13, DistinctPaths DEF RollBack, IInv, TypeOK, CleanIsComplete, Phase, Steps, Rebuilding, Goto, Return
  <2>3. LeftoversMarked'
    <3>1. cur \in Tables /\ catalog' = catalog /\ catalog[cur] = "dirty"
      BY <1>13 DEF RollBack, IInv, TypeOK, Phase, Rebuilding, Goto, Return
    <3>2. \A p \in Paths : p.table # cur => dir'[p] = dir[p]
      BY <1>13, <3>1, DistinctPaths DEF RollBack, IInv, TypeOK, Goto, Return
    <3> QED
      BY <3>1, <3>2 DEF IInv, LeftoversMarked
  <2>4. Phase'
    BY <1>13, DistinctPaths DEF RollBack, IInv, TypeOK, Phase, Steps, Rebuilding, Goto, Return
  <2> QED
    BY <2>1, <2>2, <2>3, <2>4 DEF IInv
<1>14. CASE DiscardRetired
  <2>1. TypeOK'
    BY <1>14, DistinctPaths DEF DiscardRetired, IInv, TypeOK, Phase, Steps, Rebuilding, Generation, Goto, Return
  <2>2. CleanIsComplete'
    BY <1>14, DistinctPaths DEF DiscardRetired, IInv, TypeOK, CleanIsComplete, Phase, Steps, Rebuilding, Goto, Return
  <2>3. LeftoversMarked'
    BY <1>14, DistinctPaths DEF DiscardRetired, IInv, TypeOK, LeftoversMarked, Phase, Steps, Rebuilding, Goto, Return, Paths
  <2>4. Phase'
    BY <1>14, DistinctPaths DEF DiscardRetired, IInv, TypeOK, Phase, Steps, Rebuilding, Goto, Return
  <2> QED
    BY <2>1, <2>2, <2>3, <2>4 DEF IInv
<1>15. CASE Clean
  <2>1. TypeOK'
    BY <1>15, DistinctPaths DEF Clean, IInv, TypeOK, Phase, Steps, Rebuilding, Generation, Goto, Return
  <2>2. CleanIsComplete'
    BY <1>15, DistinctPaths, ZenonT(60) DEF Clean, IInv, TypeOK, CleanIsComplete, Phase, Steps, Rebuilding, Goto, Return
  <2>3. LeftoversMarked'
    BY <1>15, DistinctPaths DEF Clean, IInv, TypeOK, LeftoversMarked, Phase, Steps, Rebuilding, Goto, Return, Paths
  <2>4. Phase'
    BY <1>15, DistinctPaths DEF Clean, IInv, TypeOK, Phase, Steps, Rebuilding, Goto, Return
  <2> QED
    BY <2>1, <2>2, <2>3, <2>4 DEF IInv
<1>16. CASE Fail
  <2>1. TypeOK'
    BY <1>16, DistinctPaths DEF Fail, IInv, TypeOK, Phase, Steps, Rebuilding, Generation, Goto, Return
  <2>2. CleanIsComplete'
    BY <1>16, DistinctPaths DEF Fail, IInv, TypeOK, CleanIsComplete, Phase, Steps, Rebuilding, Goto, Return
  <2>3. LeftoversMarked'
    BY <1>16, DistinctPaths DEF Fail, IInv, TypeOK, LeftoversMarked, Phase, Steps, Rebuilding, Goto, Return, Paths
  <2>4. Phase'
    BY <1>16, DistinctPaths DEF Fail, IInv, TypeOK, Phase, Steps, Rebuilding, Goto, Return
  <2> QED
    BY <2>1, <2>2, <2>3, <2>4 DEF IInv
<1>17. CASE RemoveFails
  <2>1. cur \in Tables /\ catalog' = catalog /\ catalog[cur] # "clean" /\ pc # "clean"
    BY <1>17 DEF RemoveFails, IInv, TypeOK, Phase, Rebuilding
  <2>2. PICK p \in Paths : p.table = cur /\ dir' = [dir EXCEPT ![p] = Partial]
    <3>1. PICK p \in Paths :
             /\ p \in {Final(cur), Building(cur), Retired(cur)}
             /\ dir' = [dir EXCEPT ![p] = Partial]
      BY <1>17, Zenon DEF RemoveFails
    <3>2. p.table = cur
      BY <2>1, <3>1, DistinctPaths
    <3> QED
      BY <3>1, <3>2
  <2>3. pc' \in {"idle", "closed"} /\ cur' = NoTable /\ had' = FALSE /\ after' = "end"
    BY <1>17 DEF RemoveFails, Return, Goto
  <2>4. TypeOK'
    BY <2>1, <2>2, <2>3 DEF IInv, TypeOK, Steps, Rebuilding
  <2>5. CleanIsComplete'
    BY <2>1, <2>2, DistinctPaths DEF IInv, TypeOK, CleanIsComplete
  <2>6. LeftoversMarked'
    BY <2>1, <2>2 DEF IInv, TypeOK, LeftoversMarked
  <2>7. Phase'
    BY <2>3 DEF Phase, Rebuilding
  <2> QED
    BY <2>4, <2>5, <2>6, <2>7 DEF IInv
<1>18. CASE Crash
  <2>1. TypeOK'
    BY <1>18, DistinctPaths DEF Crash, IInv, TypeOK, Phase, Steps, Rebuilding, Generation, Goto, Return
  <2>2. CleanIsComplete'
    BY <1>18, DistinctPaths DEF Crash, IInv, TypeOK, CleanIsComplete, Phase, Steps, Rebuilding, Goto, Return
  <2>3. LeftoversMarked'
    BY <1>18, DistinctPaths DEF Crash, IInv, TypeOK, LeftoversMarked, Phase, Steps, Rebuilding, Goto, Return, Paths
  <2>4. Phase'
    BY <1>18, DistinctPaths DEF Crash, IInv, TypeOK, Phase, Steps, Rebuilding, Goto, Return
  <2> QED
    BY <2>1, <2>2, <2>3, <2>4 DEF IInv
<1> QED
  BY <1>1, <1>2, <1>3, <1>4, <1>5, <1>6, <1>7, <1>8, <1>9, <1>10, <1>11, <1>12, <1>13, <1>14, <1>15, <1>16, <1>17, <1>18 DEF Next, Internal, Fault

\* Every path holds a generation, an incomplete directory or none, and a table
\* is being worked on exactly while a step of its rebuild or removal is left.
THEOREM TypeCorrect ==
    ASSUME Dotted \notin Tables PROVE Spec => []TypeOK
PROOF
<1>1. IInv /\ [Next]_vars => IInv'
  BY NextIInv
<1>2. IInv => TypeOK
  BY DEF IInv
<1> QED
  BY InitIInv, <1>1, <1>2, PTL DEF Spec

\* The crash safety of creating, dropping and rebuilding tables, for every set
\* of tables none of which is named after another's retired directory: a
\* table not marked dirty has a committed, current generation in place,
\* whichever filesystem call the process stops after.
THEOREM CrashSafeSwap ==
    ASSUME Dotted \notin Tables PROVE Spec => []CleanIsComplete
PROOF
<1>1. IInv /\ [Next]_vars => IInv'
  BY NextIInv
<1>2. IInv => CleanIsComplete
  BY DEF IInv
<1> QED
  BY InitIInv, <1>1, <1>2, PTL DEF Spec

\* Build and retired directories that a failed or interrupted rebuild left
\* behind always belong to tables that are still marked, or dropped.
THEOREM LeftoversBelongToMarked ==
    ASSUME Dotted \notin Tables PROVE Spec => []LeftoversMarked
PROOF
<1>1. IInv /\ [Next]_vars => IInv'
  BY NextIInv
<1>2. IInv => LeftoversMarked
  BY DEF IInv
<1> QED
  BY InitIInv, <1>1, <1>2, PTL DEF Spec
=============================================================================
